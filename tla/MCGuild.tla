------------------------------- MODULE MCGuild -------------------------------
(* Guild on a small instance: three characters, two names, two guild ids. *)
EXTENDS GuildRanks, TLC

CONSTANTS ann, bob, cat, red, blue, MaxEvents

VARIABLE events     \* bounds what happens to settings, sockets, characters, time and the process
mcvars == <<rankVars, events>>

Interchangeable == Permutations(Players) \cup Permutations(Names)

\* Officers, rank 1, may invite and rank, or nobody but the master may.
MCMasks == {[lv \in Ranks |-> IF lv = 1 THEN Powers ELSE {}]}
MCRankCap == [lv \in Ranks |-> IF lv = GUD_ROOKIE THEN MaxMembers ELSE 1]

MCInit ==
    /\ online = Players /\ connected = Players /\ closing = {} /\ joining = {}
    /\ exists = Players
    /\ idGuild = [p \in Players |-> None]
    /\ guilds = NoGuilds /\ byName = [n \in Names |-> None] /\ nextId = 1 /\ cooling = {}
    /\ pending = [p \in Players |-> None]
    /\ link = [id \in Ids |-> 0] /\ wars = NoWars
    /\ disk = <<[guilds |-> NoGuilds, cooling |-> {}, wars |-> NoWars]>>
    /\ events = 0 /\ torn = FALSE

MCNext ==
    \/ (InviteStep \/ RosterStep \/ CreateStep \/ PendingStep) /\ UNCHANGED <<events, torn>>
    \/ /\ events < MaxEvents /\ events' = events + 1
       /\ \/ (WorldStep \/ SettingStep) /\ UNCHANGED torn
          \/ Restart /\ Noted

MCSpec == MCInit /\ [][MCNext]_mcvars
==============================================================================
