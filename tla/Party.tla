-------------------------------- MODULE Party --------------------------------
(***************************************************************************)
(* PartyService and PartyManager: invites, rosters and leadership, with    *)
(* the players' sockets and sessions, the stored rosters and restarts.     *)
(*                                                                         *)
(* Handlers are synchronous; what is awaited is the disconnect flush       *)
(* (`closing') and the social push of a join (`joining').  Roster writes   *)
(* are transactions nobody waits for: they are queued, applied in the      *)
(* order issued and lost with the process, and one that breaks a           *)
(* constraint is logged and forgotten.  Levels, share modes, loot and chat *)
(* are left out.                                                           *)
(***************************************************************************)
EXTENDS Integers, Sequences

CONSTANTS
    Players,        \* characters
    MaxMembers,     \* MAX_PARTY_MEMBERS
    MaxId,          \* bounds the party ids issued
    Backlog,        \* bounds the roster writes under way
    None            \* NULL_ID; no pending invite

ASSUME PartyAssumption ==
    /\ MaxMembers \in Nat /\ MaxMembers >= 2
    /\ MaxId \in Nat /\ Backlog \in Nat
    /\ None \notin Players \cup Nat

Ids == 1 .. MaxId

\* A roster write: an insert of the party, a rewrite of its members or a delete.
Write == [kind : {"create", "members", "remove"}, id : Ids, roster : Seq(Players)]

VARIABLES
    online,     \* characters in the PlayerManager
    connected,  \* characters with a socket open
    closing,    \* characters whose disconnect flush is still awaited
    joining,    \* characters whose social push of the join is still awaited
    exists,     \* characters not deleted
    idParty,    \* m_idParty of the live player object
    parties,    \* parties: the roster of each id, leader first; << >> is no party
    nextId,     \* nextId
    pending,    \* pending: who invited each character
    timers,     \* armed invite timers of each character
    rows,       \* ids with a row of their own in the parties table
    db,         \* the stored rosters
    writes      \* roster writes under way, in the order issued

session == <<online, connected, closing, joining, exists>>
tables == <<rows, db>>
rosters == <<idParty, parties, nextId>>
storage == <<tables, writes>>
invites == <<pending, timers>>
vars == <<session, rosters, invites, storage>>

TypeOK ==
    /\ online \subseteq Players
    /\ connected \subseteq Players
    /\ closing \subseteq Players
    /\ joining \subseteq Players
    /\ exists \subseteq Players
    /\ idParty \in [Players -> Ids \cup {None}]
    /\ parties \in [Ids -> Seq(Players)]
    /\ nextId \in 1 .. (MaxId + 1)
    /\ pending \in [Players -> Players \cup {None}]
    /\ timers \in [Players -> Nat]
    /\ rows \subseteq Ids
    /\ db \in [Ids -> Seq(Players)]
    /\ writes \in Seq(Write)

------------------------------------------------------------------------------
(* Rosters.                                                                *)

Members(s) == {s[i] : i \in DOMAIN s}
Position(s, x) == CHOOSE i \in DOMAIN s : s[i] = x

\* getByMember: the first party, in the order of creation, that lists p.
PartiesOf(p) == {id \in Ids : p \in Members(parties[id])}
PartyOf(p) == CHOOSE id \in PartiesOf(p) : \A other \in PartiesOf(p) : id <= other

Leads(p, id) == parties[id] # << >> /\ parties[id][1] = p

HasRoomForOneMore(id) == Len(parties[id]) <= MaxMembers     \* variant: off by one
HasRoom(id) == Len(parties[id]) < MaxMembers

Without(s, x) ==
    [i \in 1 .. (Len(s) - 1) |-> IF i < Position(s, x) THEN s[i] ELSE s[i + 1]]

\* promoteLeader: x and the leader change places.
Promoted(s, x) == [s EXCEPT ![1] = x, ![Position(s, x)] = s[1]]

\* persistCreate, persistMembers and persistRemove.
Issued(kind, id, s) == Append(writes, [kind |-> kind, id |-> id, roster |-> s])
Persist(kind, id, s) == Len(writes) < Backlog /\ writes' = Issued(kind, id, s)

\* A roster is refused when a member is stored in another party or has been deleted,
\* a rewrite also when the party has no row.
Storable(w) ==
    /\ Members(w.roster) \subseteq exists
    /\ \A other \in Ids \ {w.id} : Members(db[other]) \cap Members(w.roster) = {}
    /\ w.kind = "members" => w.id \in rows

Kept(w) == db                   \* variant: the write is forgotten
Stored(w) == [db EXCEPT ![w.id] = w.roster]

\* The next write runs, or fails and is logged.
Flush ==
    /\ writes # << >>
    /\ writes' = Tail(writes)
    /\ LET w == Head(writes) IN
       IF w.kind # "remove" /\ ~Storable(w) THEN UNCHANGED tables
       ELSE /\ db' = Stored(w)
            /\ rows' = IF w.kind = "remove" THEN rows \ {w.id} ELSE rows \cup {w.id}
    /\ UNCHANGED <<session, rosters, invites>>

\* removeMember, stored: no party is left with fewer than two members.
Disbands(s) == Len(s) < 2
Shrunk(id, s) ==
    /\ parties' = [parties EXCEPT ![id] = IF Disbands(s) THEN << >> ELSE s]
    /\ IF Disbands(s) THEN Persist("remove", id, << >>) ELSE Persist("members", id, s)
    /\ UNCHANGED <<nextId, tables>>

------------------------------------------------------------------------------
(* Invites.  Every one has a 30 s timer of its own.                        *)

Acting(p) == p \in online /\ p \in connected

\* addPending, and removePending of everyone in S, which disarms the timers.
AddPendingUntimed(m, l) ==      \* variant: no setTimeout
    pending' = [pending EXCEPT ![m] = l] /\ UNCHANGED timers
AddPending(m, l) ==
    /\ pending' = [pending EXCEPT ![m] = l]
    /\ timers' = [timers EXCEPT ![m] = @ + 1]

Disarmed(S) ==
    [m \in Players |-> IF m \in S /\ timers[m] > 0 THEN timers[m] - 1 ELSE timers[m]]
RemovePending(S) ==
    /\ pending' = [m \in Players |-> IF m \in S THEN None ELSE pending[m]]
    /\ timers' = Disarmed({m \in S : pending[m] # None})

Invite(l, m) ==
    /\ Acting(l) /\ l # m
    /\ pending[m] = None
    /\ PartiesOf(l) # {} => Leads(l, PartyOf(l)) /\ HasRoom(PartyOf(l))
    /\ m \in online /\ PartiesOf(m) = {}
    /\ AddPending(m, l)
    /\ UNCHANGED <<session, rosters, storage>>

\* The timer fires.
ExpireInvite(m) ==
    /\ timers[m] > 0
    /\ pending' = [pending EXCEPT ![m] = None]
    /\ timers' = [timers EXCEPT ![m] = @ - 1]
    /\ UNCHANGED <<session, rosters, storage>>

Decline(m) ==
    /\ Acting(m) /\ pending[m] # None
    /\ RemovePending({m})
    /\ UNCHANGED <<session, rosters, storage>>

------------------------------------------------------------------------------
(* accept.                                                                 *)

\* The inviter is gone.
AcceptFromGone(m) ==
    /\ Acting(m) /\ pending[m] # None /\ pending[m] \notin online
    /\ RemovePending({m})
    /\ UNCHANGED <<session, rosters, storage>>

Accepting(m, l) ==
    /\ Acting(m) /\ pending[m] = l /\ l \in online
    /\ RemovePending({m})
    /\ UNCHANGED session

\* create, which takes the counter's value and then advances it.
NewId == nextId

AcceptFirst(m, l) ==
    /\ Accepting(m, l)
    /\ PartiesOf(l) = {}
    /\ nextId <= MaxId
    /\ parties' = [parties EXCEPT ![NewId] = <<l, m>>]
    /\ nextId' = nextId + 1
    /\ idParty' = [idParty EXCEPT ![l] = NewId, ![m] = NewId]
    /\ Persist("create", NewId, <<l, m>>)
    /\ UNCHANGED tables

\* addMember, refused when the roster is full or lists m already.
AcceptNext(m, l) ==
    LET id == PartyOf(l)
    IN  /\ Accepting(m, l)
        /\ PartiesOf(l) # {}
        /\ HasRoom(id) /\ m \notin Members(parties[id])
        /\ parties' = [parties EXCEPT ![id] = Append(@, m)]
        /\ idParty' = [idParty EXCEPT ![l] = id, ![m] = id]
        /\ Persist("members", id, Append(parties[id], m))
        /\ UNCHANGED <<nextId, tables>>

AcceptRefused(m, l) ==
    /\ Accepting(m, l)
    /\ PartiesOf(l) # {}
    /\ HasRoom(PartyOf(l)) => m \in Members(parties[PartyOf(l)])
    /\ UNCHANGED <<rosters, storage>>

------------------------------------------------------------------------------
(* leaveOrKick and changeLeader.                                           *)

\* r leaves, or kicks t as the leader.
MayRemoveAnyone(r, t, id) == TRUE       \* variant: no leader check
MayRemove(r, t, id) == r = t \/ Leads(r, id)

\* Whose m_idParty is cleared: of the target, in the roster or not, and of the
\* others of a party that disbands; only live players have one.
ClearedTarget(id, t) == {t} \cap online         \* variant: not the last member
Cleared(id, t) ==
    (IF t \in Members(parties[id]) /\ Disbands(Without(parties[id], t))
     THEN Members(parties[id]) \cup {t} ELSE {t}) \cap online

LeaveOrKick(r, t) ==
    LET id == PartyOf(r)
    IN  /\ Acting(r) /\ PartiesOf(r) # {}
        /\ MayRemove(r, t, id)
        /\ idParty' = [p \in Players |-> IF p \in Cleared(id, t) THEN None ELSE idParty[p]]
        /\ IF t \in Members(parties[id]) THEN Shrunk(id, Without(parties[id], t))
           ELSE UNCHANGED <<parties, nextId, storage>>
        /\ UNCHANGED <<session, invites>>

Promote(id, x) ==
    /\ parties' = [parties EXCEPT ![id] = Promoted(parties[id], x)]
    /\ Persist("members", id, Promoted(parties[id], x))
    /\ UNCHANGED <<idParty, nextId, tables>>

ChangeLeader(l, t) ==
    LET id == PartyOf(l)
    IN  /\ Acting(l) /\ PartiesOf(l) # {}
        /\ Leads(l, id) /\ t # l /\ t \in Members(parties[id])
        /\ Promote(id, t)
        /\ UNCHANGED <<session, invites>>

------------------------------------------------------------------------------
(* Sessions.                                                               *)

\* onDisconnect drops the invites to p and those p sent.
InvitesAbout(p) == {m \in Players : pending[m] # None /\ (m = p \/ pending[m] = p)}

\* Every member still registered, even one whose socket is closed too.
Heirs(id, p) == {i \in DOMAIN parties[id] : parties[id][i] # p /\ parties[id][i] \in online}
Heir(id, p) == parties[id][CHOOSE i \in Heirs(id, p) : \A j \in Heirs(id, p) : i <= j]

HandOver(p) ==
    IF PartiesOf(p) # {} /\ Leads(p, PartyOf(p)) /\ Heirs(PartyOf(p), p) # {}
    THEN Promote(PartyOf(p), Heir(PartyOf(p), p))
    ELSE UNCHANGED <<rosters, storage>>

\* index.ts onDisconnect of a registered player, and of one that an earlier
\* session's leave has removed: no hook runs for that one.
SocketClosed(p) ==
    /\ Acting(p)
    /\ connected' = connected \ {p}
    /\ closing' = closing \cup {p}
    /\ RemovePending(InvitesAbout(p))
    /\ HandOver(p)
    /\ UNCHANGED <<online, joining, exists>>

UnregisteredClosed(p) ==
    /\ p \in connected \ online
    /\ connected' = connected \ {p}
    /\ UNCHANGED <<online, closing, joining, exists, rosters, invites, storage>>

\* leave, by id, once the flush resolves.
Leave(p) ==
    /\ p \in closing
    /\ closing' = closing \ {p}
    /\ online' = online \ {p}
    /\ UNCHANGED <<connected, joining, exists, rosters, invites, storage>>

Join(p) ==
    /\ p \in exists \ connected
    /\ online' = online \cup {p}
    /\ connected' = connected \cup {p}
    /\ joining' = joining \cup {p}
    /\ idParty' = [idParty EXCEPT ![p] = None]
    /\ UNCHANGED <<closing, exists, parties, nextId, invites, storage>>

\* PartyService.onJoin, once the friend and campus pushes resolve.
OnJoin(p) ==
    /\ p \in joining
    /\ joining' = joining \ {p}
    /\ idParty' = [idParty EXCEPT ![p] =
          IF p \notin online THEN @ ELSE IF PartiesOf(p) = {} THEN None ELSE PartyOf(p)]
    /\ UNCHANGED <<online, connected, closing, exists, parties, nextId, invites, storage>>

\* An earlier push threw: this one never happens.
JoinPushFailed(p) ==
    /\ p \in joining
    /\ joining' = joining \ {p}
    /\ UNCHANGED <<online, connected, closing, exists, rosters, invites, storage>>

\* The cluster server deletes a character, live or not: its rows go with it, the
\* roster in memory does not know.
DeleteCharacter(p) ==
    /\ p \in exists
    /\ exists' = exists \ {p}
    /\ db' = [id \in Ids |->
          IF p \in Members(db[id]) THEN Without(db[id], p) ELSE db[id]]
    /\ UNCHANGED <<online, connected, closing, joining, rosters, rows, writes, invites>>

\* hydrate, from what is stored: parties that fell below two members are dropped.
Hydrated == [id \in Ids |-> IF Disbands(db[id]) THEN << >> ELSE db[id]]
NextFree == CHOOSE n \in 1 .. (MaxId + 1) :
    /\ \A id \in Ids : Hydrated[id] # << >> => id < n
    /\ n = 1 \/ Hydrated[n - 1] # << >>

Restart ==
    /\ online' = {} /\ connected' = {} /\ closing' = {} /\ joining' = {}
    /\ idParty' = [p \in Players |-> None]
    /\ pending' = [p \in Players |-> None] /\ timers' = [p \in Players |-> 0]
    /\ parties' = Hydrated /\ db' = Hydrated /\ nextId' = NextFree /\ writes' = << >>
    /\ rows' = {id \in Ids : Hydrated[id] # << >>}
    /\ UNCHANGED exists

------------------------------------------------------------------------------
Init ==
    /\ online = {} /\ connected = {} /\ closing = {} /\ joining = {}
    /\ exists = Players
    /\ idParty = [p \in Players |-> None]
    /\ parties = [id \in Ids |-> << >>] /\ nextId = 1
    /\ rows = {} /\ db = parties /\ writes = << >>
    /\ pending = [p \in Players |-> None]
    /\ timers = [p \in Players |-> 0]

AcceptStep ==
    \E m \in Players :
        \/ AcceptFromGone(m)
        \/ \E l \in Players : AcceptFirst(m, l) \/ AcceptNext(m, l) \/ AcceptRefused(m, l)

PartyStep ==
    \/ \E l, m \in Players : Invite(l, m)
    \/ \E m \in Players : ExpireInvite(m) \/ Decline(m)
    \/ AcceptStep
    \/ \E r, t \in Players : LeaveOrKick(r, t) \/ ChangeLeader(r, t)

SocketStep == \E p \in Players : SocketClosed(p) \/ Join(p)

\* What an earlier disconnect, join or change of a roster has left to happen.
PendingStep ==
    \/ Flush
    \/ \E p \in Players :
          Leave(p) \/ OnJoin(p) \/ JoinPushFailed(p) \/ UnregisteredClosed(p)

WorldStep == (\E p \in Players : DeleteCharacter(p)) \/ Restart

Next == PartyStep \/ SocketStep \/ PendingStep \/ WorldStep

\* setTimeout callbacks run, whatever else the process is doing.
Fairness == \A m \in Players : WF_vars(ExpireInvite(m))

Spec == Init /\ [][Next]_vars /\ Fairness

------------------------------------------------------------------------------
(* Properties.                                                             *)

\* A party has between two and MAX_PARTY_MEMBERS members, each listed once,
\* although invites are sent when there is room and accepted at any later time.
RosterSane ==
    \A id \in Ids : LET s == parties[id] IN
        /\ s # << >> => Len(s) \in 2 .. MaxMembers
        /\ \A i, j \in DOMAIN s : s[i] = s[j] => i = j

\* An open invite has exactly one armed timer, and no timer outlives its invite
\* to cut a later one short: answers, expiry and disconnects of either side keep
\* the two maps together.
OneTimerPerInvite ==
    \A m \in Players : timers[m] = IF pending[m] = None THEN 0 ELSE 1

\* m_idParty, "the per-player back-reference" (player.ts), never names a party
\* that does not list the player: kicks, disbands, logouts during a flush, late
\* join pushes and rejoins all keep it so.
IdPartyIsOwn ==
    \A p \in online : idParty[p] # None => p \in Members(parties[idParty[p]])

SeatsLostLawfully(id, leader, lost) ==
    \/ lost = {}
    \/ \E m \in Members(parties[id]) :
          /\ LeaveOrKick(m, m) \/ LeaveOrKick(leader, m)
          /\ parties'[id] # << >> => lost = {m}

SucceededLawfully(id, leader) ==
    \/ parties'[id] = << >> \/ parties'[id][1] = leader
    \/ LeaveOrKick(leader, leader) \/ SocketClosed(leader)
    \/ \E t \in Players : ChangeLeader(leader, t)

Lawful ==
    \A id \in Ids : parties[id] \notin {<< >>, parties'[id]} =>
        /\ SeatsLostLawfully(id, parties[id][1], Members(parties[id]) \ Members(parties'[id]))
        /\ SucceededLawfully(id, parties[id][1])

\* While the process lives, a member loses its place only by its own leave or by
\* a kick of the leader of the moment, and a leader is succeeded only after its own
\* resignation, leave or disconnect.
AuthorityKept == [][Restart \/ Lawful]_vars

\* An invite is answered, dropped or expired in the end: a target whose popup was
\* never answered can be invited again.
InviteResolved ==
    \A m \in Players : pending[m] # None ~> pending[m] = None

\* "A character is in at most one party" (022_parties.ts): so until an invite is
\* accepted after its target joined another one; the tables then refuse the second.
OneParty ==
    \A p \in Players, id, other \in Ids :
        p \in Members(parties[id]) \cap Members(parties[other]) => id = other
==============================================================================
