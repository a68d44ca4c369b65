----------------------------- MODULE MCGuildWar ------------------------------
(* GuildWar on a small instance: a guild of two against a guild of one. *)
EXTENDS GuildWar, TLC

CONSTANTS ann, bob, cat, red, blue, MaxEvents

\* Bounds roster and session changes, time and the process; not the war's own steps.
VARIABLE events
mcvars == <<allVars, events>>

MCRankCap == [lv \in Ranks |-> IF lv = GUD_ROOKIE THEN MaxMembers ELSE 1]

Pair == (1 :> NewGuild(ann, red) @@ 2 :> NewGuild(bob, blue))
Start == [Pair EXCEPT ![1].rank[cat] = GUD_ROOKIE]

Stored(gs) == <<[guilds |-> gs, cooling |-> {}, wars |-> NoWars]>>

NoInvites == [p \in Players |-> None]

\* cat is in ann's guild, online or away, or is invited to it; or bob was deleted
\* while he founded his, which then was not stored.
MCInit ==
    /\ \/ guilds = Start /\ online \in {Players, {ann, bob}} /\ pending = NoInvites
       \/ /\ guilds = Pair /\ online = Players
          /\ pending = [NoInvites EXCEPT ![cat] = [guild |-> 1, inviter |-> ann]]
    /\ connected = online /\ closing = {} /\ joining = {}
    /\ \/ exists = Players /\ disk = Stored(guilds)
       \/ /\ exists = Players \ {bob} /\ guilds = Start /\ online = Players
          /\ disk = Stored([guilds EXCEPT ![2] = None])
    /\ byName = (red :> 1 @@ blue :> 2) /\ nextId = 3 /\ cooling = {}
    /\ idGuild = [p \in Players |-> IF p \notin online \/ GuildsOf(p) = {} THEN None ELSE GuildOf(p)]
    /\ link = [id \in Ids |-> 0] /\ wars = NoWars
    /\ idWar = [p \in Players |-> 0]
    /\ proposals = NoGuilds /\ truces = NoWars
    /\ lastWar = 0 /\ age = [w \in WarIds |-> 0] /\ enabled = TRUE
    /\ events = 0

Quiet == Flush \/ \E p \in Players : Leave(p)

MCNext ==
    \/ (WarStep \/ (Quiet /\ UNCHANGED warVars)) /\ UNCHANGED events
    \/ /\ events < MaxEvents /\ events' = events + 1
       /\ \/ PeaceEvent \/ \E p \in Players : WarJoin(p)
          \/ (InviteStep \/ RosterStep) /\ UNCHANGED warVars
          \/ WarRestart

MCSpec == MCInit /\ [][MCNext]_mcvars /\ Fairness
==============================================================================
