-------------------------------- MODULE Guild --------------------------------
(***************************************************************************)
(* GuildService and GuildManager: rosters, ranks, mastership, names,       *)
(* invites and the rejoin lockout, with sessions, character deletion, the  *)
(* guild tables and restarts.                                              *)
(*                                                                         *)
(* Handlers are synchronous.  Every table write is fire-and-forget, one    *)
(* statement each, applied in the order issued; `disk' is the queue of     *)
(* images the tables pass through, the first of which is durable, and a    *)
(* kill loses the others.  The lockout rows of a disband count as one      *)
(* write.  Whether a guild is at war (`link', `wars') is read here and     *)
(* changed by GuildWar.  Level, contribution, gold, salary, sub-grade,     *)
(* alias, notice, logo and chat are left out.                              *)
(***************************************************************************)
EXTENDS Integers, Sequences, FiniteSets

CONSTANTS
    Players,        \* characters
    Names,          \* guild names, lower-cased and trimmed
    Ranks,          \* the ranks in use, of GUD_MASTER = 0 to GUD_ROOKIE = 4
    RankCap,        \* guildMaxRankMembers of each rank
    MaxMembers,     \* guildMaxMembers
    Masks,          \* the authority masks a master may set
    MaxId,          \* bounds the guild ids issued
    MaxWars,        \* bounds the war ids issued
    MaxCount,       \* bounds a war's counters
    Backlog,        \* a handler that writes runs with at most this many images queued
    None            \* NULL_ID; no row, no guild, no invite

GUD_MASTER == 0
GUD_ROOKIE == 4
Powers == {"PF_INVITATION", "PF_MEMBERLEVEL"}

Ids == 1 .. MaxId
WarIds == 1 .. MaxWars

Guild == [name : Names, master : Players, power : [Ranks -> SUBSET Powers],
          rank : [Players -> Ranks \cup {None}], win : 0 .. MaxCount, lose : 0 .. MaxCount]
Invitation == [guild : Ids, inviter : Players]
Side == [guild : Ids, size : 0 .. Cardinality(Players),
         surrender : 0 .. MaxCount, dead : 0 .. MaxCount, absent : 0 .. MaxCount]
War == [decl : Side, acpt : Side, flag : {"WF_WARTIME", "WF_END"}]

ASSUME GuildAssumption ==
    /\ {GUD_MASTER, GUD_ROOKIE} \subseteq Ranks /\ Ranks \subseteq GUD_MASTER .. GUD_ROOKIE
    /\ RankCap \in [Ranks -> Nat]
    /\ MaxMembers \in Nat \ {0}
    /\ Masks \subseteq [Ranks -> SUBSET Powers]
    /\ MaxId \in Nat /\ MaxWars \in Nat /\ MaxCount \in Nat /\ Backlog \in Nat \ {0}
    /\ IsFiniteSet(Players)
    /\ None \notin Players \cup Names \cup Int \cup Guild \cup Invitation \cup War

\* guildMaxRankMembers: one master, and as many rookies as the guild has places.
ASSUME RankCapAssumption == RankCap[GUD_MASTER] = 1 /\ RankCap[GUD_ROOKIE] = MaxMembers

VARIABLES
    online,     \* characters in the PlayerManager
    connected,  \* characters with a socket open
    closing,    \* characters whose disconnect flush is still awaited
    joining,    \* characters whose social push of the join is not done
    exists,     \* characters not deleted
    idGuild,    \* m_idGuild of the live player object
    guilds,     \* guilds, by id
    byName,     \* byName
    nextId,     \* nextId
    cooling,    \* cooldowns: the characters still locked out
    pending,    \* pending: the open invite to each character
    link,       \* idWar of each guild, 0 when none
    wars,       \* the war registry, by id
    disk        \* the images of the tables: durable, then under way

session == <<online, connected, closing, joining, exists>>
rosters == <<guilds, byName, nextId, cooling>>
warfare == <<link, wars>>
vars == <<session, idGuild, rosters, pending, warfare, disk>>

Image == [guilds : [Ids -> Guild \cup {None}], cooling : SUBSET Players,
          wars : [WarIds -> War \cup {None}]]

TypeOK ==
    /\ online \subseteq Players /\ connected \subseteq Players
    /\ closing \subseteq Players /\ joining \subseteq Players /\ exists \subseteq Players
    /\ idGuild \in [Players -> Ids \cup {None}]
    /\ guilds \in [Ids -> Guild \cup {None}]
    /\ byName \in [Names -> Ids \cup {None}]
    /\ nextId \in 1 .. (MaxId + 1)
    /\ cooling \subseteq Players
    /\ pending \in [Players -> Invitation \cup {None}]
    /\ link \in [Ids -> 0 .. MaxWars]
    /\ wars \in [WarIds -> War \cup {None}]
    /\ disk \in Seq(Image) /\ disk # << >>

------------------------------------------------------------------------------
(* Lookups.                                                                *)

Members(g) == IF g = None THEN {} ELSE {p \in Players : g.rank[p] # None}
IsGuild(id) == guilds[id] # None

\* getByMember: the first guild that lists p.
GuildsOf(p) == {id \in Ids : p \in Members(guilds[id])}
GuildOf(p) == CHOOSE id \in GuildsOf(p) : \A other \in GuildsOf(p) : id <= other
MayAct(p, id) == p \in online \cap connected /\ GuildsOf(p) # {} /\ id = GuildOf(p)
IsMaster(p, id) == guilds[id].master = p

RankHasPower(id, p, power) == power \in guilds[id].power[guilds[id].rank[p]]
RankCount(id, lv) == Cardinality({p \in Players : guilds[id].rank[p] = lv})
HasRoom(id) == Cardinality(Members(guilds[id])) < MaxMembers

\* isAtWar: a lookup in the registry, not a test of idWar.
AtWar(id) == link[id] # 0 /\ wars[link[id]] # None

------------------------------------------------------------------------------
(* Table writes: what each statement makes of an image t.                  *)

Tables == disk[Len(disk)]
Issue(images) ==
    /\ Len(disk) <= Backlog
    /\ disk' = disk \o images

\* create is one transaction: refused whole when its master is deleted.
RowsCreated(t, id, g) ==
    IF g.master \in exists THEN [t EXCEPT !.guilds[id] = g] ELSE t

\* update: a patch of the guild's row, if it is there.
RowNotPatched(t, id, g) == t            \* variant: the write is forgotten
RowPatched(t, id, g) ==
    IF t.guilds[id] = None THEN t
    ELSE [t EXCEPT !.guilds[id] = [g EXCEPT !.rank = t.guilds[id].rank]]

Reranked(g, p, lv) == IF g = None THEN None ELSE [g EXCEPT !.rank[p] = lv]

\* addMember: needs the guild's row and the character's.
MemberAdded(t, id, p) ==
    IF p \in exists THEN [t EXCEPT !.guilds[id] = Reranked(@, p, GUD_ROOKIE)] ELSE t

\* updateMember and removeMember, by character alone.
MemberPatched(t, p, lv) ==
    [t EXCEPT !.guilds = [id \in Ids |->
        IF p \in Members(t.guilds[id]) THEN Reranked(t.guilds[id], p, lv) ELSE t.guilds[id]]]
MemberRemoved(t, p) == MemberPatched(t, p, None)

RowRemoved(t, id) == [t EXCEPT !.guilds[id] = None]
LockedOut(t, S) == [t EXCEPT !.cooling = @ \cup (S \cap exists)]

\* A write reaches the tables.
Flush ==
    /\ Len(disk) > 1
    /\ disk' = Tail(disk)
    /\ UNCHANGED <<session, idGuild, rosters, pending, warfare>>

------------------------------------------------------------------------------
(* Founding, renaming and disbanding.                                      *)

NewGuild(p, n) ==
    [name |-> n, master |-> p,
     power |-> [lv \in Ranks |-> IF lv = GUD_MASTER THEN Powers ELSE {}],
     rank |-> [q \in Players |-> IF q = p THEN GUD_MASTER ELSE None],
     win |-> 0, lose |-> 0]

\* /cg (CommandService.createGuild) is the one caller, and seats the founder alone.
Create(p, n) ==
    /\ p \in online \cap connected
    /\ GuildsOf(p) = {} /\ byName[n] = None
    /\ nextId <= MaxId
    /\ guilds' = [guilds EXCEPT ![nextId] = NewGuild(p, n)]
    /\ byName' = [byName EXCEPT ![n] = nextId]
    /\ nextId' = nextId + 1
    /\ idGuild' = [idGuild EXCEPT ![p] = nextId]
    /\ Issue(<<RowsCreated(Tables, nextId, NewGuild(p, n))>>)
    /\ UNCHANGED <<session, cooling, pending, warfare>>

\* rename: a guild may take its own name again.
ReindexedTwice(id, n) == [byName EXCEPT ![n] = id]      \* variant: the old name stays
Reindexed(id, n) == [byName EXCEPT ![guilds[id].name] = None, ![n] = id]

Rename(p, id, n) ==
    /\ MayAct(p, id) /\ IsMaster(p, id)
    /\ byName[n] \in {None, id}
    /\ byName' = Reindexed(id, n)
    /\ guilds' = [guilds EXCEPT ![id].name = n]
    /\ Issue(<<RowPatched(Tables, id, [guilds[id] EXCEPT !.name = n])>>)
    /\ UNCHANGED <<session, idGuild, nextId, cooling, pending, warfare>>

\* Only the members online have an m_idGuild to clear.
ClearedRequester(p, S) == [idGuild EXCEPT ![p] = None]   \* variant
Cleared(p, S) == [q \in Players |-> IF q \in S \cap online THEN None ELSE idGuild[q]]

Destroy(p, id) ==
    LET S == Members(guilds[id])
    IN  /\ MayAct(p, id) /\ IsMaster(p, id) /\ ~AtWar(id)
        /\ guilds' = [guilds EXCEPT ![id] = None]
        /\ byName' = [byName EXCEPT ![guilds[id].name] = None]
        /\ cooling' = cooling \cup S
        /\ idGuild' = Cleared(p, S)
        /\ Issue(<<LockedOut(Tables, S), RowRemoved(LockedOut(Tables, S), id)>>)
        /\ UNCHANGED <<session, nextId, pending, warfare>>

\* Handlers of a character in no guild clear a stale m_idGuild and refuse.
NotInGuild(p) ==
    /\ p \in online \cap connected /\ GuildsOf(p) = {}
    /\ idGuild' = [idGuild EXCEPT ![p] = None]
    /\ UNCHANGED <<session, rosters, pending, warfare, disk>>

------------------------------------------------------------------------------
(* Invites.  removePending clears the timer, so an invite has one.         *)

Invite(p, id, t) ==
    /\ MayAct(p, id) /\ RankHasPower(id, p, "PF_INVITATION")
    /\ t \in online \ {p} /\ GuildsOf(t) = {}
    /\ ~AtWar(id) /\ pending[t] = None /\ HasRoom(id)
    /\ pending' = [pending EXCEPT ![t] = [guild |-> id, inviter |-> p]]
    /\ idGuild' = [idGuild EXCEPT ![t] = None]
    /\ UNCHANGED <<session, rosters, warfare, disk>>

\* decline, and the 30 s timer.
InviteClosed(t) ==
    /\ pending[t] # None
    /\ pending' = [pending EXCEPT ![t] = None]
    /\ UNCHANGED <<session, idGuild, rosters, warfare, disk>>
Decline(t) == t \in online \cap connected /\ InviteClosed(t)
ExpireInvite(t) == InviteClosed(t)

AcceptableAtWar(t, inv) ==      \* variant: the war is not looked at again
    /\ inv.inviter \in online /\ t \notin cooling
    /\ IsGuild(inv.guild) /\ GuildsOf(t) = {} /\ HasRoom(inv.guild)
Acceptable(t, inv) ==
    /\ inv.inviter \in online /\ t \notin cooling
    /\ IsGuild(inv.guild) /\ ~AtWar(inv.guild)
    /\ GuildsOf(t) = {} /\ HasRoom(inv.guild)

Accept(t) ==
    LET inv == pending[t]
    IN  /\ t \in online \cap connected /\ inv # None
        /\ Acceptable(t, inv)
        /\ pending' = [pending EXCEPT ![t] = None]
        /\ guilds' = [guilds EXCEPT ![inv.guild].rank[t] = GUD_ROOKIE]
        /\ idGuild' = [idGuild EXCEPT ![t] = inv.guild]
        /\ Issue(<<MemberAdded(Tables, inv.guild, t)>>)
        /\ UNCHANGED <<session, byName, nextId, cooling, warfare>>

AcceptRefused(t) ==
    /\ t \in online \cap connected /\ pending[t] # None
    /\ ~Acceptable(t, pending[t])
    /\ pending' = [pending EXCEPT ![t] = None]
    /\ UNCHANGED <<session, idGuild, rosters, warfare, disk>>

------------------------------------------------------------------------------
(* Leaving, ranks and mastership.                                          *)

\* The master kicks and cannot leave, the others leave and cannot kick.
MayRemoveAnyone(p, id, t) == TRUE       \* variant: no check of the master
MayRemove(p, id, t) == IF p = t THEN ~IsMaster(p, id) ELSE IsMaster(p, id)

\* removeMember stamps the lockout and then drops the row.
RemovedFirst(t) == <<MemberRemoved(Tables, t), LockedOut(MemberRemoved(Tables, t), {t})>>
RemovedRows(t) == <<LockedOut(Tables, {t}), MemberRemoved(LockedOut(Tables, {t}), t)>>

LeaveOrKick(p, id, t) ==
    /\ MayAct(p, id) /\ ~AtWar(id)
    /\ t \in Members(guilds[id]) /\ MayRemove(p, id, t)
    /\ guilds' = [guilds EXCEPT ![id].rank[t] = None]
    /\ cooling' = cooling \cup {t}
    /\ idGuild' = Cleared(p, {t})
    /\ Issue(RemovedRows(t))
    /\ UNCHANGED <<session, byName, nextId, pending, warfare>>

\* Numerically lower is more senior.
Outranks(id, p, t, lv) ==
    guilds[id].rank[p] < guilds[id].rank[t] /\ guilds[id].rank[p] < lv

SetMemberLevel(p, id, t, lv) ==
    /\ MayAct(p, id) /\ ~AtWar(id) /\ t \in Members(guilds[id])
    /\ Outranks(id, p, t, lv)
    /\ RankHasPower(id, p, "PF_MEMBERLEVEL")
    /\ RankCount(id, lv) + 1 <= RankCap[lv]
    /\ guilds' = [guilds EXCEPT ![id].rank[t] = lv]
    /\ Issue(<<MemberPatched(Tables, t, lv)>>)
    /\ UNCHANGED <<session, idGuild, byName, nextId, cooling, pending, warfare>>

HandedOverOnly(r, p, t) == [r EXCEPT ![t] = GUD_MASTER]      \* variant: p is not demoted
HandedOver(r, p, t) == [r EXCEPT ![p] = GUD_ROOKIE, ![t] = GUD_MASTER]

ChangeMaster(p, id, t) ==
    LET g1 == [guilds[id] EXCEPT !.master = t]
        t1 == RowPatched(Tables, id, g1)
        t2 == MemberPatched(t1, p, GUD_ROOKIE)
    IN  /\ MayAct(p, id) /\ t \in Members(guilds[id]) \ {p}
        /\ ~AtWar(id) /\ IsMaster(p, id)
        /\ guilds' = [guilds EXCEPT ![id] = [g1 EXCEPT !.rank = HandedOver(@, p, t)]]
        /\ Issue(<<t1, t2, MemberPatched(t2, t, GUD_MASTER)>>)
        /\ UNCHANGED <<session, idGuild, byName, nextId, cooling, pending, warfare>>

\* setAuthority: the master's own mask is not editable.
Authority(mask) == [mask EXCEPT ![GUD_MASTER] = Powers]
SetAuthority(p, id, mask) ==
    /\ MayAct(p, id) /\ IsMaster(p, id) /\ ~AtWar(id)
    /\ guilds' = [guilds EXCEPT ![id].power = Authority(mask)]
    /\ Issue(<<RowPatched(Tables, id, [guilds[id] EXCEPT !.power = Authority(mask)])>>)
    /\ UNCHANGED <<session, idGuild, byName, nextId, cooling, pending, warfare>>

------------------------------------------------------------------------------
(* Sessions, characters and the process.                                   *)

Join(p) ==
    /\ p \in exists \ connected
    /\ online' = online \cup {p} /\ connected' = connected \cup {p}
    /\ joining' = joining \cup {p}
    /\ idGuild' = [idGuild EXCEPT ![p] = None]
    /\ UNCHANGED <<closing, exists, rosters, pending, warfare, disk>>

\* GuildService.onJoin, after the friend and campus pushes; never, if one throws.
OnJoin(p) ==
    /\ p \in joining
    /\ joining' = joining \ {p}
    /\ idGuild' = [idGuild EXCEPT ![p] =
          IF p \notin online THEN @ ELSE IF GuildsOf(p) = {} THEN None ELSE GuildOf(p)]
    /\ UNCHANGED <<online, connected, closing, exists, rosters, pending, warfare, disk>>

\* onDisconnect drops the invites to p and those p sent; the roster keeps p.
InvitesKept(p) ==
    [t \in Players |-> IF t = p \/ (pending[t] # None /\ pending[t].inviter = p)
                       THEN None ELSE pending[t]]
SocketClosed(p) ==
    /\ p \in connected
    /\ connected' = connected \ {p}
    /\ closing' = IF p \in online THEN closing \cup {p} ELSE closing
    /\ pending' = IF p \in online THEN InvitesKept(p) ELSE pending
    /\ UNCHANGED <<online, joining, exists, idGuild, rosters, warfare, disk>>

\* leave, by id, once the flush resolves.
Leave(p) ==
    /\ p \in closing
    /\ closing' = closing \ {p} /\ online' = online \ {p}
    /\ UNCHANGED <<connected, joining, exists, idGuild, rosters, pending, warfare, disk>>

\* Deleted by the cluster server: the rows of p cascade, and a guild whose
\* creation by p is still under way will be refused.
Purged(t, p) ==
    [t EXCEPT !.cooling = @ \ {p},
              !.guilds = [id \in Ids |->
        IF disk[1].guilds[id] = None /\ t.guilds[id] # None
           /\ \E i \in 2 .. Len(disk) : /\ disk[i - 1].guilds[id] = None
                                        /\ disk[i].guilds[id] # None
                                        /\ disk[i].guilds[id].master = p
        THEN None ELSE Reranked(t.guilds[id], p, None)]]
DeleteCharacter(p) ==
    /\ p \in exists
    /\ exists' = exists \ {p}
    /\ disk' = [i \in DOMAIN disk |-> Purged(disk[i], p)]
    /\ UNCHANGED <<online, connected, closing, joining, idGuild, rosters, pending, warfare>>

\* Two days pass.
CooldownOver(p) ==
    /\ p \in cooling /\ Len(disk) = 1
    /\ cooling' = cooling \ {p}
    /\ disk' = <<[disk[1] EXCEPT !.cooling = @ \ {p}]>>
    /\ UNCHANGED <<session, idGuild, guilds, byName, nextId, pending, warfare>>

\* hydrate, from what is durable; the master's mask is forced again.
Hydrated(g) == IF g = None THEN None ELSE [g EXCEPT !.power = Authority(@)]
\* Above the highest id in use.
NextFree(gs) == CHOOSE n \in 1 .. (MaxId + 1) :
    /\ \A id \in Ids : gs[id] # None => id < n
    /\ n = 1 \/ gs[n - 1] # None

Hydrate ==
    LET t == disk[1] IN
    /\ online' = {} /\ connected' = {} /\ closing' = {} /\ joining' = {}
    /\ idGuild' = [p \in Players |-> None]
    /\ pending' = [p \in Players |-> None]
    /\ guilds' = [id \in Ids |-> Hydrated(t.guilds[id])]
    /\ byName' = [n \in Names |->
          IF \E id \in Ids : t.guilds[id] # None /\ t.guilds[id].name = n
          THEN CHOOSE id \in Ids : t.guilds[id] # None /\ t.guilds[id].name = n
          ELSE None]
    /\ nextId' = NextFree(t.guilds)
    /\ cooling' = t.cooling
    /\ UNCHANGED exists

\* A restart of a world composed without wars.
Restart == Hydrate /\ disk' = <<disk[1]>> /\ UNCHANGED warfare

------------------------------------------------------------------------------
NoGuilds == [id \in Ids |-> None]
NoWars == [w \in WarIds |-> None]

Init ==
    /\ online = {} /\ connected = {} /\ closing = {} /\ joining = {} /\ exists = Players
    /\ idGuild = [p \in Players |-> None]
    /\ guilds = NoGuilds /\ byName = [n \in Names |-> None] /\ nextId = 1 /\ cooling = {}
    /\ pending = [p \in Players |-> None]
    /\ link = [id \in Ids |-> 0] /\ wars = NoWars
    /\ disk = <<[guilds |-> NoGuilds, cooling |-> {}, wars |-> NoWars]>>

InviteStep ==
    \/ \E p, t \in Players, id \in Ids : Invite(p, id, t)
    \/ \E t \in Players : Decline(t) \/ ExpireInvite(t) \/ Accept(t) \/ AcceptRefused(t)

RosterStep ==
    \/ \E p \in Players, id \in Ids :
          \/ Destroy(p, id)
          \/ \E t \in Players :
                \/ LeaveOrKick(p, id, t)
                \/ ChangeMaster(p, id, t)
                \/ \E lv \in Ranks : SetMemberLevel(p, id, t, lv)
    \/ \E p \in Players : NotInGuild(p)

CreateStep == \E p \in Players, n \in Names : Create(p, n)

SettingStep == \E p \in Players, id \in Ids :
    \/ \E n \in Names : Rename(p, id, n)
    \/ \E mask \in Masks : SetAuthority(p, id, mask)

\* What an earlier disconnect, join or write has left to happen.
PendingStep == Flush \/ \E p \in Players : OnJoin(p) \/ Leave(p)

WorldStep == \E p \in Players :
    Join(p) \/ SocketClosed(p) \/ DeleteCharacter(p) \/ CooldownOver(p)

GuildStep == InviteStep \/ RosterStep \/ CreateStep \/ SettingStep \/ PendingStep \/ WorldStep

Next == GuildStep \/ Restart

Spec == Init /\ [][Next]_vars

------------------------------------------------------------------------------
(* Properties.                                                             *)

\* Guilds share no member, none is over its size, and the name index finds each
\* guild by its name and nothing else: through invites accepted late, joins
\* racing for the last place, renames onto freed names, and restarts that cut
\* the table writes anywhere.
RegistrySane ==
    /\ \A p \in Players : \A id, other \in GuildsOf(p) : id = other
    /\ \A id \in Ids : Cardinality(Members(guilds[id])) <= MaxMembers
    /\ \A n \in Names, id \in Ids : byName[n] = id <=> IsGuild(id) /\ guilds[id].name = n

\* m_idGuild of a live player is its guild, and is empty otherwise; only until
\* the join's guild push may it still be empty for a member.
IdGuildIsOwn ==
    \A p \in online :
        \/ GuildsOf(p) # {} /\ idGuild[p] = GuildOf(p)
        \/ idGuild[p] = None /\ (GuildsOf(p) = {} \/ p \in joining)

\* Every guild has its master on the roster, in memory and in every image the
\* tables pass through, unless that character was deleted: no kill leaves a
\* guild that nobody can hand over or disband.
LedBy(g) == g = None \/ g.master \in Members(g) \/ g.master \notin exists
GuildsAreLed ==
    \A id \in Ids :
        LedBy(guilds[id]) /\ \A i \in DOMAIN disk : LedBy(disk[i].guilds[id])

\* Whoever is off a roster in one image and on it in the image before is locked
\* out there: killed between two writes, nobody gets away without the lockout.
Listed(t, p) == \E id \in Ids : p \in Members(t.guilds[id])
LeaversLocked ==
    \A i \in 2 .. Len(disk), p \in exists :
        Listed(disk[i - 1], p) /\ ~Listed(disk[i], p) => p \in disk[i].cooling

\* Until a character is deleted, the tables are the registry once the writes
\* under way are through.
StoredAsLive ==
    exists = Players => Tables = [guilds |-> guilds, cooling |-> cooling, wars |-> wars]
==============================================================================
