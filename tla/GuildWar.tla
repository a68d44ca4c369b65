------------------------------ MODULE GuildWar -------------------------------
(***************************************************************************)
(* GuildWarService, GuildWarManager and the one-second war tick, composed  *)
(* with the rosters of Guild: declaring, accepting, surrendering, truce,   *)
(* deaths, absence, the two-hour limit, the war rows and restarts.         *)
(*                                                                         *)
(* The tick's turn at one war is an action of its own: two wars share no   *)
(* guild.  Level gates, win points, per-member surrender counts and        *)
(* packets are left out.                                                   *)
(***************************************************************************)
EXTENDS Guild

CONSTANTS
    MinTarget,      \* GUILD_WAR_MIN_TARGET_MEMBERS
    Duration        \* GUILD_WAR_DURATION_MS, in ticks

ASSUME GuildWarAssumption == MinTarget \in Nat /\ Duration \in Nat

SURRENDER_PERCENT == 70

VARIABLES
    idWar,      \* m_idWar of the live player object, 0 when none
    proposals,  \* proposals: who declared on each guild, None when nobody
    truces,     \* truces: the guild asked in each war, None when no question is open
    lastWar,    \* nextId of the war manager: the last id issued
    age,        \* ticks since each war started
    enabled     \* guildWarEnabled of this process

diplomacy == <<proposals, truces>>
warVars == <<idWar, diplomacy, lastWar, age, enabled>>
allVars == <<vars, warVars>>

WarTypeOK ==
    /\ TypeOK
    /\ idWar \in [Players -> 0 .. MaxWars]
    /\ proposals \in [Ids -> Ids \cup {None}]
    /\ truces \in [WarIds -> Ids \cup {None}]
    /\ lastWar \in 0 .. MaxWars
    /\ age \in [WarIds -> 0 .. (Duration + 1)]
    /\ enabled \in BOOLEAN

------------------------------------------------------------------------------
(* Sides.                                                                  *)

Fights(id, war) == war # None /\ id \in {war.decl.guild, war.acpt.guild}
SideName(w, id) == IF wars[w].decl.guild = id THEN "decl" ELSE "acpt"
OtherGuild(w, id) == IF wars[w].decl.guild = id THEN wars[w].acpt.guild ELSE wars[w].decl.guild

WarPatched(t, w, war) == IF t.wars[w] = None THEN t ELSE [t EXCEPT !.wars[w] = war]
WarRemoved(t, w) == [t EXCEPT !.wars[w] = None]

OnlineMembers(id) == Members(guilds[id]) \cap online
StampedWith(S, w) == [p \in Players |-> IF p \in S THEN w ELSE idWar[p]]

------------------------------------------------------------------------------
(* Declaring and accepting.                                                *)

Declare(p, id, n) ==
    LET target == byName[n]
    IN  /\ enabled
        /\ MayAct(p, id) /\ IsMaster(p, id) /\ ~AtWar(id)
        /\ target \notin {None, id}
        /\ guilds[target].master \in online
        /\ Cardinality(Members(guilds[target])) >= MinTarget
        /\ ~AtWar(target) /\ proposals[target] = None
        /\ proposals' = [proposals EXCEPT ![target] = id]
        /\ UNCHANGED <<vars, idWar, truces, lastWar, age, enabled>>

ProposalExpires(id) ==
    /\ proposals[id] # None
    /\ proposals' = [proposals EXCEPT ![id] = None]
    /\ UNCHANGED <<vars, idWar, truces, lastWar, age, enabled>>

NewSide(id, n) == [guild |-> id, size |-> n, surrender |-> 0, dead |-> 0, absent |-> 0]

\* The size is frozen: the headcount when the war starts.
SizeOf(id) == Cardinality(Members(guilds[id]))

LinkedOnly(decl, acpt, w) == [link EXCEPT ![acpt] = w]      \* variant: one setWar
Linked(decl, acpt, w) == [link EXCEPT ![decl] = w, ![acpt] = w]

AcceptWar(p, id, decl) ==
    LET w == lastWar + 1
        war == [decl |-> NewSide(decl, SizeOf(decl)), acpt |-> NewSide(id, SizeOf(id)),
                flag |-> "WF_WARTIME"]
    IN  /\ enabled
        /\ MayAct(p, id) /\ IsMaster(p, id) /\ ~AtWar(id)
        /\ IsGuild(decl) /\ decl # id
        /\ guilds[decl].master \in online /\ ~AtWar(decl)
        /\ proposals[id] = decl
        /\ w \in WarIds /\ wars[w] = None
        /\ proposals' = [proposals EXCEPT ![id] = None]
        /\ lastWar' = w
        /\ wars' = [wars EXCEPT ![w] = war]
        /\ age' = [age EXCEPT ![w] = 0]
        /\ link' = Linked(decl, id, w)
        /\ idWar' = StampedWith(OnlineMembers(decl) \cup OnlineMembers(id), w)
        /\ Issue(<<[Tables EXCEPT !.wars[w] = war]>>)
        /\ UNCHANGED <<session, idGuild, rosters, pending, truces, enabled>>

------------------------------------------------------------------------------
(* result: score, clear both sides, drop the war.                          *)

Won(g) == [g EXCEPT !.win = IF @ < MaxCount THEN @ + 1 ELSE @]
Lost(g) == [g EXCEPT !.lose = IF @ < MaxCount THEN @ + 1 ELSE @]

\* Unscored, for a truce and a draw, winner is None.
Scored(w, winner) ==
    IF winner = None THEN guilds
    ELSE [guilds EXCEPT ![winner] = Won(@), ![OtherGuild(w, winner)] = Lost(@)]

\* The statements of a result, after those of its cause, which left t.
ScoreRows(t, w, winner) ==
    IF winner = None THEN << >>
    ELSE LET loser == OtherGuild(w, winner)
             t1 == RowPatched(t, winner, Won(guilds[winner]))
         IN  <<t1, RowPatched(t1, loser, Lost(guilds[loser]))>>
ResultRows(t, w, winner) ==
    LET rows == ScoreRows(t, w, winner)
    IN  Append(rows, WarRemoved(IF rows = << >> THEN t ELSE rows[Len(rows)], w))

Unlinked(w, id) == [link EXCEPT ![id] = 0, ![OtherGuild(w, id)] = 0]

\* The online members of both sides leave the war mode.
Released(decl, acpt) == StampedWith(OnlineMembers(decl) \cup OnlineMembers(acpt), 0)

\* cause: the statements of the handler before it calls result.
Result(w, winner, cause) ==
    LET decl == wars[w].decl.guild
        acpt == wars[w].acpt.guild
        t == IF cause = << >> THEN Tables ELSE cause[Len(cause)]
    IN  /\ guilds' = Scored(w, winner)
        /\ link' = Unlinked(w, decl)
        /\ idWar' = Released(decl, acpt)
        /\ truces' = [truces EXCEPT ![w] = None]
        /\ wars' = [wars EXCEPT ![w] = None]
        /\ Issue(cause \o ResultRows(t, w, winner))
        /\ UNCHANGED <<session, idGuild, byName, nextId, cooling, pending,
                       proposals, lastWar, enabled>>

------------------------------------------------------------------------------
(* Surrender, truce and death.                                             *)

Counted(w, id, field) ==
    [wars[w] EXCEPT ![SideName(w, id)][field] = IF @ < MaxCount THEN @ + 1 ELSE @]

\* More than 70%, in integers, of the frozen size.
GivesUp(w, id, p) ==
    LET side == wars[w][SideName(w, id)]
    IN  IsMaster(p, id) \/ ((side.surrender + 1) * 100) \div side.size > SURRENDER_PERCENT

Surrender(p, id) ==
    LET w == link[id]
        war == Counted(w, id, "surrender")
        row == <<WarPatched(Tables, w, war)>>
    IN  /\ MayAct(p, id) /\ AtWar(id) /\ IsGuild(OtherGuild(w, id))
        /\ age' = age
        /\ IF GivesUp(w, id, p) THEN Result(w, OtherGuild(w, id), row)
           ELSE /\ wars' = [wars EXCEPT ![w] = war]
                /\ idWar' = [idWar EXCEPT ![p] = 0]
                /\ Issue(row)
                /\ UNCHANGED <<session, idGuild, rosters, pending, link, diplomacy,
                               lastWar, enabled>>

QueryTruce(p, id) ==
    LET w == link[id]
        other == OtherGuild(w, id)
    IN  /\ MayAct(p, id) /\ AtWar(id) /\ IsMaster(p, id)
        /\ IsGuild(other) /\ guilds[other].master \in online
        /\ truces' = [truces EXCEPT ![w] = other]
        /\ UNCHANGED <<vars, idWar, proposals, lastWar, age, enabled>>

AcceptTruce(p, id) ==
    /\ MayAct(p, id) /\ AtWar(id) /\ IsGuild(OtherGuild(link[id], id))
    /\ truces[link[id]] = id /\ IsMaster(p, id)
    /\ age' = age
    /\ Result(link[id], None, << >>)

\* Combat reports only the deaths by a player of the other side: isWarTarget.
IsWarTarget(killer, victim) ==
    /\ enabled
    /\ idWar[killer] > 0 /\ idWar[killer] = idWar[victim]
    /\ idGuild[killer] # idGuild[victim]

WarDeath(killer, p, id) ==
    LET w == link[id]
        war == Counted(w, id, "dead")
        other == OtherGuild(w, id)
    IN  /\ killer \in online /\ p \in online /\ IsWarTarget(killer, p)
        /\ GuildsOf(p) # {} /\ id = GuildOf(p) /\ AtWar(id) /\ IsGuild(other)
        /\ age' = age
        /\ IF IsMaster(p, id) THEN Result(w, other, << >>)
           ELSE /\ wars[w][SideName(w, id)].dead < MaxCount
                /\ wars' = [wars EXCEPT ![w] = war]
                /\ Issue(<<WarPatched(Tables, w, war)>>)
                /\ UNCHANGED <<session, idGuild, rosters, pending, link, idWar, diplomacy,
                               lastWar, enabled>>

------------------------------------------------------------------------------
(* The tick.                                                               *)

\* isExpired: past the limit and not yet latched.
ExpiresLate(w) == FALSE                 \* variant: no limit
Expires(w) == wars[w].flag = "WF_WARTIME" /\ age[w] > Duration

\* resolveTimeout: more absence loses, then more deaths, then nobody.
TimeoutWinner(w) ==
    LET d == wars[w].decl
        a == wars[w].acpt
    IN  CASE d.absent # a.absent -> IF d.absent > a.absent THEN a.guild ELSE d.guild
          [] d.absent = a.absent /\ d.dead # a.dead ->
                IF d.dead > a.dead THEN a.guild ELSE d.guild
          [] OTHER -> None

\* addAbsent, of the declaring side and then of the other, each with its own write.
Away(side) ==
    IF guilds[side.guild].master \in online \/ side.absent = MaxCount THEN side
    ELSE [side EXCEPT !.absent = @ + 1]
DeclAbsent(w) == [wars[w] EXCEPT !.decl = Away(@)]
Absences(w) == [DeclAbsent(w) EXCEPT !.acpt = Away(@)]

AbsenceRows(w) ==
    LET decl == WarPatched(Tables, w, DeclAbsent(w))
        acpt == WarPatched(decl, w, Absences(w))
    IN  (IF DeclAbsent(w) = wars[w] THEN << >> ELSE <<decl>>)
           \o (IF Absences(w) = DeclAbsent(w) THEN << >> ELSE <<acpt>>)

Older(w) == [age EXCEPT ![w] = IF @ <= Duration THEN @ + 1 ELSE @]

Tick(w) ==
    /\ enabled /\ wars[w] # None
    /\ age' = Older(w)
    /\ IF Expires(w)
       THEN Result(w, TimeoutWinner(w),
                   <<WarPatched(Tables, w, [wars[w] EXCEPT !.flag = "WF_END"])>>)
       ELSE /\ wars' = [wars EXCEPT ![w] = Absences(w)]
            /\ IF AbsenceRows(w) = << >> THEN UNCHANGED disk ELSE Issue(AbsenceRows(w))
            /\ UNCHANGED <<session, idGuild, rosters, pending, link, idWar, diplomacy,
                           lastWar, enabled>>

------------------------------------------------------------------------------
(* Sessions and restarts.                                                  *)

WarJoin(p) ==
    /\ Join(p)
    /\ idWar' = [idWar EXCEPT ![p] = 0]
    /\ UNCHANGED <<diplomacy, lastWar, age, enabled>>

\* GuildService.onJoin and GuildWarService.onJoin, one after the other.
WarOnJoin(p) ==
    /\ OnJoin(p)
    /\ idWar' = [idWar EXCEPT ![p] =
          IF p \notin online \/ GuildsOf(p) = {} THEN @
          ELSE IF AtWar(GuildOf(p)) THEN link[GuildOf(p)] ELSE 0]
    /\ UNCHANGED <<diplomacy, lastWar, age, enabled>>

\* hydrate, then relinkAfterHydrate: a war without one of its guilds is dropped;
\* the rows of those dropped go in one write.
HasBothGuilds(t, w) ==
    t.wars[w] # None => /\ t.guilds[t.wars[w].decl.guild] # None
                        /\ t.guilds[t.wars[w].acpt.guild] # None
WithoutOrphans(t) ==
    [t EXCEPT !.wars = [w \in WarIds |-> IF HasBothGuilds(t, w) THEN t.wars[w] ELSE None]]
Relinked(t) == [id \in Ids |->
    IF \E w \in WarIds : Fights(id, t.wars[w])
    THEN CHOOSE w \in WarIds : Fights(id, t.wars[w]) ELSE 0]
HighestWar(t) == CHOOSE w \in 0 .. MaxWars :
    (w = 0 \/ t.wars[w] # None) /\ \A v \in WarIds : t.wars[v] # None => v <= w

WarRestart ==
    LET t == disk[1]
        sound == WithoutOrphans(t)
    IN  /\ Hydrate
        /\ disk' = IF sound = t THEN <<t>> ELSE <<t, sound>>
        /\ wars' = sound.wars /\ link' = Relinked(sound)
        /\ lastWar' = HighestWar(t)
        /\ idWar' = [p \in Players |-> 0]
        /\ proposals' = NoGuilds /\ truces' = NoWars
        /\ enabled' \in BOOLEAN
        /\ UNCHANGED age

------------------------------------------------------------------------------
WarInit ==
    /\ Init
    /\ idWar = [p \in Players |-> 0]
    /\ proposals = NoGuilds /\ truces = NoWars
    /\ lastWar = 0 /\ age = [w \in WarIds |-> 0]
    /\ enabled \in BOOLEAN

\* What Guild does to a live world leaves wars alone.
PeaceStep ==
    /\ \/ InviteStep \/ RosterStep \/ CreateStep \/ SettingStep \/ Flush
       \/ \E p \in Players : Leave(p)
    /\ UNCHANGED warVars

PeaceEvent ==
    /\ \E p \in Players : SocketClosed(p) \/ DeleteCharacter(p) \/ CooldownOver(p)
    /\ UNCHANGED warVars

WarStep ==
    \/ \E p \in Players, id \in Ids :
          \/ \E n \in Names : Declare(p, id, n)
          \/ \E decl \in Ids : AcceptWar(p, id, decl)
          \/ Surrender(p, id) \/ QueryTruce(p, id) \/ AcceptTruce(p, id)
          \/ \E killer \in Players : WarDeath(killer, p, id)
    \/ \E id \in Ids : ProposalExpires(id)
    \/ \E w \in WarIds : Tick(w)
    \/ \E p \in Players : WarOnJoin(p)

WarNext == PeaceStep \/ PeaceEvent \/ WarStep \/ (\E p \in Players : WarJoin(p)) \/ WarRestart

\* The tick runs every second and writes reach the database.
Fairness ==
    /\ WF_allVars(Flush /\ UNCHANGED warVars)
    /\ \A w \in WarIds : WF_allVars(Tick(w))

WarSpec == WarInit /\ [][WarNext]_allVars /\ Fairness

------------------------------------------------------------------------------
(* Properties.                                                             *)

\* The registry and the guilds' war ids agree in both directions, so that no
\* roster is frozen by a war that is gone and none fights two wars, not even when a
\* restart finds a war whose guild was never stored, its founder deleted meanwhile.
\* Until a character is deleted the war rows of every image the tables pass through
\* name two guilds that are there.
OneWarEach(rows) == \A v, w \in WarIds, id \in Ids :
    Fights(id, rows[v]) /\ Fights(id, rows[w]) => v = w
LinksAgree ==
    /\ \A w \in WarIds, id \in Ids : link[id] = w <=> Fights(id, wars[w])
    /\ \A i \in DOMAIN disk :
          /\ OneWarEach(disk[i].wars)
          /\ exists = Players => \A w \in WarIds : HasBothGuilds(disk[i], w)

\* m_idWar of a live player names a war its guild is fighting now, so a war that
\* is over leaves no one attackable.
StampsAreLive ==
    \A p \in online : idWar[p] # 0 =>
        GuildsOf(p) # {} /\ Fights(GuildOf(p), wars[idWar[p]])

\* The war's state is well typed; registry, guilds and rows agree on who fights; and
\* the marks on players are those of wars their guilds are fighting.
WarInv == WarTypeOK /\ LinksAgree /\ StampsAreLive

\* "frozen on purpose": a side's size is its headcount for as long as the war
\* lasts, restarts included, because nobody joins, leaves or is disbanded
\* meanwhile by any path; deleted characters apart.
SidesFrozen ==
    exists = Players => \A w \in WarIds : wars[w] # None =>
        \A side \in {wars[w].decl, wars[w].acpt} : side.size = Cardinality(Members(guilds[side.guild]))

\* With the flag on every war comes to an end, unless a restart brought it back
\* with its timeout latch already stored.
WarsEnd == \A w \in WarIds :
    wars[w] # None /\ enabled
        ~> (wars[w] = None \/ ~enabled \/ wars[w].flag = "WF_END")

==============================================================================
