----------------------------- MODULE PartyProofs -----------------------------
(* Theorems of Party, for any number of characters, party ids and members:  *)
(* typing, the rosters, the invite timers and the players' back-references; *)
(* and of PartyTables: how long the stored rosters follow the live ones.     *)
EXTENDS PartyTables, SequenceTheorems, WellFoundedInduction, TLAPS

------------------------------------------------------------------------------
(* Rosters as sequences.                                                    *)

Distinct(s) == \A i, j \in DOMAIN s : s[i] = s[j] => i = j

\* A set of numbers that is not empty has a least one.
LEMMA LeastExists ==
    ASSUME NEW S \in SUBSET Nat, S # {}
    PROVE  \E x \in S : \A y \in S : x <= y
<1> DEFINE lt == {x \in Nat \X Nat : x[1] < x[2]}
<1>1. IsWellFoundedOn(lt, Nat)
  BY NatLessThanWellFounded DEF OpToRel
<1>2. \A u, v \in Nat : <<u, v>> \in lt <=> u < v
  OBVIOUS
<1> HIDE DEF lt
<1>3. PICK x \in S : \A y \in S : ~ (<<y, x>> \in lt)
  <2>1. S \subseteq Nat /\ S # {}
    OBVIOUS
  <2>2. QED
    BY <1>1, <2>1, WFMin
<1>4. ASSUME NEW y \in S PROVE x <= y
  <2>1. x \in Nat /\ y \in Nat
    OBVIOUS
  <2>2. ~ (y < x)
    BY <1>2, <1>3, <2>1
  <2>3. QED
    BY <2>1, <2>2
<1>5. QED
  BY <1>4

\* The position of a member is a place it holds.
LEMMA PositionIn ==
    ASSUME NEW s \in Seq(Players), NEW x \in Members(s)
    PROVE  Position(s, x) \in 1 .. Len(s) /\ s[Position(s, x)] = x
BY DEF Position, Members

\* Taking a member out shortens the roster by one, keeps every other member and
\* its order, and leaves no trace of one listed once.
LEMMA WithoutOf ==
    ASSUME NEW s \in Seq(Players), NEW x \in Members(s)
    PROVE  /\ Without(s, x) \in Seq(Players)
           /\ Len(Without(s, x)) = Len(s) - 1
           /\ Members(Without(s, x)) \subseteq Members(s)
           /\ Members(s) \ {x} \subseteq Members(Without(s, x))
           /\ Distinct(s) => Distinct(Without(s, x)) /\ x \notin Members(Without(s, x))
<1> DEFINE k == Position(s, x)
           w == Without(s, x)
<1>1. k \in 1 .. Len(s) /\ s[k] = x
  BY PositionIn
<1>2. Len(s) \in Nat /\ Len(s) >= 1 /\ DOMAIN s = 1 .. Len(s)
  BY <1>1
<1>3. w = [i \in 1 .. (Len(s) - 1) |-> IF i < k THEN s[i] ELSE s[i + 1]]
  BY DEF Without
<1> HIDE DEF k, w
<1>4. ASSUME NEW i \in 1 .. (Len(s) - 1) PROVE w[i] \in Players
  <2>1. i \in 1 .. Len(s) /\ i + 1 \in 1 .. Len(s)
    BY <1>2
  <2>2. s[i] \in Players /\ s[i + 1] \in Players
    BY <2>1
  <2>3. QED
    BY <1>3, <2>2
<1>5. w \in Seq(Players) /\ Len(w) = Len(s) - 1 /\ DOMAIN w = 1 .. (Len(s) - 1)
  <2>1. w \in [1 .. (Len(s) - 1) -> Players] /\ Len(s) - 1 \in Nat
    BY <1>2, <1>3, <1>4
  <2>2. w \in Seq(Players)
    BY <2>1, SeqDef
  <2>3. QED
    BY <2>1, <2>2, LenProperties
<1>6. Members(w) \subseteq Members(s)
  <2> SUFFICES ASSUME NEW i \in 1 .. (Len(s) - 1) PROVE w[i] \in Members(s)
    BY <1>5 DEF Members
  <2>1. i \in 1 .. Len(s) /\ i + 1 \in 1 .. Len(s)
    BY <1>2
  <2>2. s[i] \in Members(s) /\ s[i + 1] \in Members(s)
    BY <1>2, <2>1 DEF Members
  <2>3. QED
    BY <1>3, <2>2
<1>7. Members(s) \ {x} \subseteq Members(w)
  <2> SUFFICES ASSUME NEW i \in 1 .. Len(s), s[i] # x PROVE s[i] \in Members(w)
    BY <1>2 DEF Members
  <2>1. CASE i < k
    <3>1. i \in 1 .. (Len(s) - 1) /\ w[i] = s[i]
      BY <1>1, <1>2, <1>3, <2>1
    <3>2. QED
      BY <1>5, <3>1 DEF Members
  <2>2. CASE k < i
    <3>1. i - 1 \in 1 .. (Len(s) - 1) /\ w[i - 1] = s[i]
      BY <1>1, <1>2, <1>3, <2>2
    <3>2. QED
      BY <1>5, <3>1 DEF Members
  <2>3. i # k
    BY <1>1
  <2>4. QED
    BY <1>1, <2>1, <2>2, <2>3
<1>8. ASSUME Distinct(s) PROVE Distinct(w) /\ x \notin Members(w)
  <2> DEFINE at(i) == IF i < k THEN i ELSE i + 1
  <2>1. \A i \in 1 .. (Len(s) - 1) : at(i) \in 1 .. Len(s) /\ at(i) # k /\ w[i] = s[at(i)]
    BY <1>1, <1>2, <1>3
  <2>2. \A i, j \in 1 .. (Len(s) - 1) : at(i) = at(j) => i = j
    BY <1>1
  <2>3. \A i, j \in 1 .. Len(s) : s[i] = s[j] => i = j
    BY <1>2, <1>8 DEF Distinct
  <2> HIDE DEF at
  <2>4. Distinct(w)
    BY <1>5, <2>1, <2>2, <2>3 DEF Distinct
  <2>5. x \notin Members(w)
    BY <1>1, <1>5, <2>1, <2>3 DEF Members
  <2>6. QED
    BY <2>4, <2>5
<1>9. QED
  BY <1>5, <1>6, <1>7, <1>8 DEF w

\* Promoting a member reorders the roster.
LEMMA PromotedOf ==
    ASSUME NEW s \in Seq(Players), NEW x \in Members(s)
    PROVE  /\ Promoted(s, x) \in Seq(Players)
           /\ Len(Promoted(s, x)) = Len(s)
           /\ Members(Promoted(s, x)) = Members(s)
           /\ Distinct(s) => Distinct(Promoted(s, x))
<1> DEFINE k == Position(s, x)
           w == Promoted(s, x)
<1>1. k \in 1 .. Len(s) /\ s[k] = x
  BY PositionIn
<1>2. Len(s) \in Nat /\ 1 \in 1 .. Len(s) /\ DOMAIN s = 1 .. Len(s)
  BY <1>1
<1>3. w = [s EXCEPT ![1] = x, ![k] = s[1]]
  BY DEF Promoted
<1> HIDE DEF k, w
<1>4. s \in [1 .. Len(s) -> Players]
  BY <1>2
<1>5. s[1] \in Players /\ x \in Players
  BY <1>1, <1>2, <1>4
<1>6. w \in [1 .. Len(s) -> Players]
  BY <1>3, <1>4, <1>5
<1>7. w \in Seq(Players) /\ Len(w) = Len(s) /\ DOMAIN w = 1 .. Len(s)
  BY <1>2, <1>6
<1> DEFINE at(i) == IF i = k THEN 1 ELSE IF i = 1 THEN k ELSE i
<1>8. \A i \in 1 .. Len(s) : at(i) \in 1 .. Len(s) /\ w[i] = s[at(i)] /\ at(at(i)) = i
  <2> TAKE i \in 1 .. Len(s)
  <2>1. w[i] = IF i = k THEN s[1] ELSE IF i = 1 THEN x ELSE s[i]
    BY <1>1, <1>2, <1>3
  <2>2. QED
    BY <1>1, <1>2, <2>1
<1> HIDE DEF at
<1>9. Members(w) = Members(s)
  <2>1. Members(w) = {w[i] : i \in 1 .. Len(s)} /\ Members(s) = {s[i] : i \in 1 .. Len(s)}
    BY <1>2, <1>7 DEF Members
  <2>2. ASSUME NEW i \in 1 .. Len(s)
        PROVE  w[i] \in Members(s) /\ s[i] \in Members(w)
    <3>1. w[at(i)] = s[i] /\ at(i) \in 1 .. Len(s)
      BY <1>8
    <3>2. QED
      BY <1>8, <2>1, <3>1
  <2>3. QED
    BY <2>1, <2>2
<1>10. ASSUME Distinct(s) PROVE Distinct(w)
  <2>1. \A i, j \in 1 .. Len(s) : s[i] = s[j] => i = j
    BY <1>2, <1>10 DEF Distinct
  <2>2. QED
    BY <1>7, <1>8, <2>1 DEF Distinct
<1>11. QED
  BY <1>7, <1>9, <1>10 DEF w

\* A new member at the end.
LEMMA AppendedOf ==
    ASSUME NEW s \in Seq(Players), NEW x \in Players
    PROVE  /\ Append(s, x) \in Seq(Players)
           /\ Len(Append(s, x)) = Len(s) + 1
           /\ Members(Append(s, x)) = Members(s) \cup {x}
           /\ Distinct(s) /\ x \notin Members(s) => Distinct(Append(s, x))
<1> DEFINE w == Append(s, x)
<1>1. /\ w \in Seq(Players) /\ Len(w) = Len(s) + 1 /\ Len(s) \in Nat
      /\ DOMAIN w = 1 .. (Len(s) + 1) /\ DOMAIN s = 1 .. Len(s)
      /\ w[Len(s) + 1] = x /\ \A i \in 1 .. Len(s) : w[i] = s[i]
  OBVIOUS
<1> HIDE DEF w
<1>2. Members(w) = Members(s) \cup {x}
  BY <1>1 DEF Members
<1>3. ASSUME Distinct(s), x \notin Members(s) PROVE Distinct(w)
  <2>1. \A i, j \in 1 .. Len(s) : s[i] = s[j] => i = j
    BY <1>1, <1>3 DEF Distinct
  <2>2. \A i \in 1 .. Len(s) : s[i] # x
    BY <1>1, <1>3 DEF Members
  <2>3. QED
    BY <1>1, <2>1, <2>2 DEF Distinct
<1>4. QED
  BY <1>1, <1>2, <1>3 DEF w

------------------------------------------------------------------------------
(* Choices the operators make.                                              *)

\* The party of a member exists and lists it.
LEMMA PartyOfMember ==
    ASSUME NEW p, PartiesOf(p) # {}
    PROVE  PartyOf(p) \in Ids /\ p \in Members(parties[PartyOf(p)])
<1>1. PartiesOf(p) \in SUBSET Nat
  BY PartyAssumption DEF PartiesOf, Ids
<1>2. \E id \in PartiesOf(p) : \A other \in PartiesOf(p) : id <= other
  BY <1>1, LeastExists
<1>3. PartyOf(p) \in PartiesOf(p)
  BY <1>2 DEF PartyOf
<1>4. QED
  BY <1>3 DEF PartiesOf

\* The heir of a leader is another member.
LEMMA HeirIsMember ==
    ASSUME NEW id \in Ids, NEW p, parties[id] \in Seq(Players), Heirs(id, p) # {}
    PROVE  Heir(id, p) \in Members(parties[id])
<1>1. Heirs(id, p) \in SUBSET Nat
  BY DEF Heirs
<1>2. \E i \in Heirs(id, p) : \A j \in Heirs(id, p) : i <= j
  BY <1>1, LeastExists
<1>3. PICK i \in Heirs(id, p) : Heir(id, p) = parties[id][i]
  BY <1>2 DEF Heir
<1>4. QED
  BY <1>3 DEF Heirs, Members

\* After a restart the counter is above every party loaded.
LEMMA NextFreeOf ==
    /\ NextFree \in 1 .. (MaxId + 1)
    /\ \A id \in Ids : Hydrated[id] # << >> => id < NextFree
<1> DEFINE above == {n \in 1 .. (MaxId + 1) : \A id \in Ids : Hydrated[id] # << >> => id < n}
<1>1. MaxId + 1 \in above /\ above \in SUBSET Nat
  BY PartyAssumption DEF Ids
<1>2. PICK n \in above : \A k \in above : n <= k
  <2>1. above # {}
    BY <1>1
  <2> HIDE DEF above
  <2>2. QED
    BY <1>1, <2>1, LeastExists
<1>3. n \in 1 .. (MaxId + 1) /\ \A id \in Ids : Hydrated[id] # << >> => id < n
  OBVIOUS
<1>4. n = 1 \/ Hydrated[n - 1] # << >>
  <2> SUFFICES ASSUME n # 1, Hydrated[n - 1] = << >> PROVE FALSE
    OBVIOUS
  <2>1. n - 1 \in 1 .. (MaxId + 1)
    BY <1>3, PartyAssumption
  <2>2. ASSUME NEW id \in Ids, Hydrated[id] # << >> PROVE id < n - 1
    BY <1>3, <2>2, PartyAssumption DEF Ids
  <2>3. n - 1 \in above
    BY <2>1, <2>2
  <2>4. QED
    BY <1>2, <1>3, <2>3
<1>5. QED
  BY <1>3, <1>4 DEF NextFree

------------------------------------------------------------------------------
(* The inductive invariant, one conjunct per group of variables.            *)

StoredRosters == {s \in Seq(Players) : Len(s) <= MaxMembers /\ Distinct(s)}
Rosters == {s \in StoredRosters : s # << >> => Len(s) >= 2}

SessionsOK ==
    /\ online \subseteq Players /\ connected \subseteq Players
    /\ closing \subseteq Players /\ joining \subseteq Players /\ exists \subseteq Players

\* Ids not yet issued are free: no player can refer to a party before it exists.
RostersOK ==
    /\ parties \in [Ids -> Rosters]
    /\ nextId \in 1 .. (MaxId + 1)
    /\ \A id \in Ids : parties[id] # << >> => id < nextId

\* A restart makes of what is stored what is live.
StoredWrites == [kind : {"create", "members", "remove"}, id : Ids, roster : StoredRosters]
StorageOK ==
    /\ rows \subseteq Ids /\ db \in [Ids -> StoredRosters]
    /\ writes \in Seq(StoredWrites)

InvitesOK ==
    /\ pending \in [Players -> Players \cup {None}]
    /\ timers \in [Players -> Nat]
    /\ \A m \in Players : pending[m] # m
    /\ OneTimerPerInvite

BackOK == idParty \in [Players -> Ids \cup {None}] /\ IdPartyIsOwn

IInv == SessionsOK /\ RostersOK /\ StorageOK /\ InvitesOK /\ BackOK

\* What the invariant says of the properties of Party.
LEMMA IInvImplies ==
    ASSUME IInv
    PROVE  TypeOK /\ RosterSane
<1>1. \A id \in Ids : parties[id] \in Rosters
  BY DEF IInv, RostersOK
<1>2. RosterSane
  <2> SUFFICES ASSUME NEW id \in Ids
               PROVE  /\ parties[id] # << >> => Len(parties[id]) \in 2 .. MaxMembers
                      /\ Distinct(parties[id])
    BY DEF RosterSane, Distinct
  <2>1. parties[id] \in Rosters
    BY <1>1
  <2>2. Len(parties[id]) \in Nat
    BY <2>1 DEF Rosters, StoredRosters
  <2>3. QED
    BY <2>1, <2>2, PartyAssumption DEF Rosters, StoredRosters
<1>3. /\ parties \in [Ids -> Seq(Players)] /\ db \in [Ids -> Seq(Players)]
      /\ writes \in Seq(Write)
  <2>1. Rosters \subseteq Seq(Players) /\ StoredRosters \subseteq Seq(Players)
    BY DEF Rosters, StoredRosters
  <2>2. StoredWrites \subseteq Write
    BY <2>1 DEF StoredWrites, Write
  <2>3. QED
    BY <2>1, <2>2 DEF IInv, RostersOK, StorageOK
<1>4. TypeOK
  BY <1>3 DEF TypeOK, IInv, SessionsOK, RostersOK, StorageOK, InvitesOK, BackOK
<1>5. QED
  BY <1>2, <1>4

\* No party, a new one, a longer, a shorter and a reordered one.
LEMMA RosterKinds ==
    /\ << >> \in Rosters
    /\ \A l, m \in Players : l # m => <<l, m>> \in Rosters /\ Members(<<l, m>>) = {l, m}
    /\ \A s \in Rosters, x \in Players :
          Len(s) < MaxMembers /\ s # << >> /\ x \notin Members(s) => Append(s, x) \in Rosters
    /\ \A s \in StoredRosters : \A x \in Members(s) :
          /\ Without(s, x) \in StoredRosters
          /\ Members(Without(s, x)) = Members(s) \ {x}
    /\ \A s \in Rosters : \A x \in Members(s) : Promoted(s, x) \in Rosters
    /\ \A s \in StoredRosters : ~ Disbands(s) => s \in Rosters
<1>1. << >> \in Rosters
  BY PartyAssumption DEF Rosters, StoredRosters, Distinct
<1>2. ASSUME NEW l \in Players, NEW m \in Players, l # m
      PROVE  <<l, m>> \in Rosters /\ Members(<<l, m>>) = {l, m}
  <2> DEFINE s == <<l, m>>
  <2>1. s \in Seq(Players) /\ Len(s) = 2 /\ DOMAIN s = 1 .. 2 /\ s[1] = l /\ s[2] = m
    OBVIOUS
  <2> HIDE DEF s
  <2>2. Distinct(s)
    BY <1>2, <2>1 DEF Distinct
  <2>3. Members(s) = {l, m}
    <3>1. Members(s) = {s[i] : i \in 1 .. 2}
      BY <2>1 DEF Members
    <3>2. QED
      BY <2>1, <3>1
  <2>4. s # << >>
    BY <2>1, EmptySeq
  <2>5. QED
    BY <2>1, <2>2, <2>3, PartyAssumption DEF Rosters, StoredRosters, s
<1>3. ASSUME NEW s \in Rosters, NEW x \in Players,
             Len(s) < MaxMembers, s # << >>, x \notin Members(s)
      PROVE  Append(s, x) \in Rosters
  <2>1. s \in Seq(Players) /\ Len(s) >= 2 /\ Distinct(s)
    BY <1>3 DEF Rosters, StoredRosters
  <2>2. /\ Append(s, x) \in Seq(Players) /\ Len(Append(s, x)) = Len(s) + 1
        /\ Distinct(Append(s, x))
    BY <1>3, <2>1, AppendedOf
  <2>3. Len(s) \in Nat
    BY <2>1
  <2>4. QED
    BY <1>3, <2>1, <2>2, <2>3, PartyAssumption DEF Rosters, StoredRosters
<1>4. ASSUME NEW s \in StoredRosters, NEW x \in Members(s)
      PROVE  /\ Without(s, x) \in StoredRosters
             /\ Members(Without(s, x)) = Members(s) \ {x}
  <2>1. s \in Seq(Players) /\ Len(s) <= MaxMembers /\ Distinct(s) /\ Len(s) \in Nat
    BY DEF StoredRosters
  <2>2. /\ Without(s, x) \in Seq(Players) /\ Len(Without(s, x)) = Len(s) - 1
        /\ Distinct(Without(s, x)) /\ x \notin Members(Without(s, x))
        /\ Members(Without(s, x)) \subseteq Members(s)
        /\ Members(s) \ {x} \subseteq Members(Without(s, x))
    BY <2>1, WithoutOf
  <2>3. QED
    BY <2>1, <2>2, PartyAssumption DEF StoredRosters
<1>5. ASSUME NEW s \in Rosters, NEW x \in Members(s) PROVE Promoted(s, x) \in Rosters
  <2>1. s \in Seq(Players) /\ Len(s) <= MaxMembers /\ Distinct(s) /\ (s # << >> => Len(s) >= 2)
    BY DEF Rosters, StoredRosters
  <2>2. /\ Promoted(s, x) \in Seq(Players) /\ Len(Promoted(s, x)) = Len(s)
        /\ Distinct(Promoted(s, x))
    BY <2>1, PromotedOf
  <2>3. s # << >>
    BY DEF Members
  <2>4. QED
    BY <2>1, <2>2, <2>3 DEF Rosters, StoredRosters
<1>6. ASSUME NEW s \in StoredRosters, ~ Disbands(s) PROVE s \in Rosters
  <2>1. Len(s) \in Nat
    BY DEF StoredRosters
  <2>2. QED
    BY <1>6, <2>1 DEF Disbands, Rosters
<1>7. QED
  BY <1>1, <1>2, <1>3, <1>4, <1>5, <1>6

\* A roster issued, and one that is written or refused, leave the storage well formed.
LEMMA IssuedKeeps ==
    ASSUME StorageOK, NEW id \in Ids, NEW s \in StoredRosters,
           NEW kind \in {"create", "members", "remove"}, Persist(kind, id, s), UNCHANGED tables
    PROVE  StorageOK'
<1> DEFINE w == [kind |-> kind, id |-> id, roster |-> s]
<1>1. w \in StoredWrites
  BY DEF StoredWrites
<1>2. writes' = Append(writes, w)
  BY DEF Persist, Issued
<1> HIDE DEF w
<1>3. QED
  BY <1>1, <1>2 DEF StorageOK, tables

LEMMA FlushKeeps ==
    ASSUME StorageOK, Flush
    PROVE  StorageOK'
<1> DEFINE w == Head(writes)
<1>1. w \in StoredWrites /\ writes' \in Seq(StoredWrites)
  BY DEF StorageOK, Flush
<1>2. w.id \in Ids /\ w.roster \in StoredRosters
  BY <1>1 DEF StoredWrites
<1>3. Stored(w) \in [Ids -> StoredRosters]
  BY <1>2 DEF Stored, StorageOK
<1>4. \/ UNCHANGED tables
      \/ db' = Stored(w) /\ rows' \in {rows \ {w.id}, rows \cup {w.id}}
  BY DEF Flush
<1>5. QED
  BY <1>1, <1>2, <1>3, <1>4 DEF StorageOK, tables

------------------------------------------------------------------------------
(* One lemma per way a group of variables changes.                          *)

\* Dropping any set of invites together with their timers keeps them paired.
LEMMA RemovePendingKeeps ==
    ASSUME InvitesOK, NEW S, RemovePending(S)
    PROVE  InvitesOK'
<1>1. pending' \in [Players -> Players \cup {None}]
  BY DEF InvitesOK, RemovePending
<1>2. ASSUME NEW m \in Players
      PROVE  /\ timers'[m] \in Nat
             /\ pending'[m] # m
             /\ timers'[m] = IF pending'[m] = None THEN 0 ELSE 1
  <2>1. pending'[m] = IF m \in S THEN None ELSE pending[m]
    BY DEF RemovePending
  <2>2. timers'[m] = IF m \in S /\ pending[m] # None /\ timers[m] > 0
                     THEN timers[m] - 1 ELSE timers[m]
    BY DEF RemovePending, Disarmed
  <2>3. /\ timers[m] \in Nat /\ pending[m] # m
        /\ timers[m] = IF pending[m] = None THEN 0 ELSE 1
    BY DEF InvitesOK, OneTimerPerInvite
  <2>4. None # m
    BY PartyAssumption
  <2>5. CASE m \in S /\ pending[m] # None
    BY <2>1, <2>2, <2>3, <2>4, <2>5
  <2>6. CASE ~ (m \in S /\ pending[m] # None)
    <3>1. timers'[m] = timers[m] /\ pending'[m] = pending[m]
      BY <2>1, <2>2, <2>6
    <3>2. QED
      BY <2>3, <3>1
  <2>7. QED
    BY <2>5, <2>6
<1>3. timers' \in [Players -> Nat]
  <2>1. timers' = [m \in Players |->
          IF m \in {k \in S : pending[k] # None} /\ timers[m] > 0
          THEN timers[m] - 1 ELSE timers[m]]
    BY DEF RemovePending, Disarmed
  <2>2. QED
    BY <1>2, <2>1
<1>4. QED
  BY <1>1, <1>2, <1>3 DEF InvitesOK, OneTimerPerInvite

\* Nobody's back-reference dangles as long as rosters only gain members and no
\* player comes online.
LEMMA BackKept ==
    ASSUME BackOK, online \subseteq Players, idParty' = idParty, online' \subseteq online,
           \A id \in Ids : Members(parties[id]) \subseteq Members(parties'[id])
    PROVE  BackOK'
<1>1. ASSUME NEW p \in online', idParty'[p] # None
      PROVE  p \in Members(parties'[idParty'[p]])
  <2>1. p \in online /\ idParty[p] # None /\ idParty[p] \in Ids
    BY <1>1 DEF BackOK
  <2>2. p \in Members(parties[idParty[p]])
    BY <2>1 DEF BackOK, IdPartyIsOwn
  <2>3. QED
    BY <2>1, <2>2
<1>2. QED
  BY <1>1 DEF BackOK, IdPartyIsOwn

\* A promotion changes the order of one roster only.
LEMMA PromoteKeeps ==
    ASSUME IInv, NEW id \in Ids, NEW x \in Members(parties[id]), Promote(id, x),
           online' = online
    PROVE  RostersOK' /\ StorageOK' /\ BackOK'
<1> DEFINE s == Promoted(parties[id], x)
<1>1. parties \in [Ids -> Rosters]
  BY DEF IInv, RostersOK
<1>2. parties[id] \in Rosters /\ s \in Rosters /\ s \in StoredRosters
  BY <1>1, RosterKinds DEF Rosters
<1>3. Members(s) = Members(parties[id]) /\ parties[id] # << >>
  <2>1. parties[id] \in Seq(Players)
    BY <1>2 DEF Rosters, StoredRosters
  <2>2. Members(s) = Members(parties[id])
    BY <2>1, PromotedOf
  <2>3. parties[id] # << >>
    BY DEF Members
  <2>4. QED
    BY <2>2, <2>3
<1>4. parties' = [parties EXCEPT ![id] = s] /\ Persist("members", id, s) /\ UNCHANGED tables
  BY DEF Promote
<1> HIDE DEF s
<1>5. StorageOK'
  BY <1>2, <1>4, IssuedKeeps DEF IInv
<1>6. RostersOK'
  BY <1>1, <1>2, <1>3, <1>4 DEF Promote, RostersOK, IInv
<1>7. \A other \in Ids : Members(parties[other]) \subseteq Members(parties'[other])
  BY <1>1, <1>3, <1>4
<1>8. BackOK'
  BY <1>7, BackKept DEF IInv, SessionsOK, Promote
<1>9. QED
  BY <1>5, <1>6, <1>8

\* Leaving and being kicked: whoever loses its place, or its party, loses the
\* back-reference too.
LEMMA LeaveOrKickKeeps ==
    ASSUME IInv, NEW r \in Players, NEW t \in Players, LeaveOrKick(r, t)
    PROVE  RostersOK' /\ StorageOK' /\ BackOK'
<1> DEFINE id == PartyOf(r)
           s == parties[id]
           w == Without(s, t)
<1>1. id \in Ids
  BY PartyOfMember DEF LeaveOrKick
<1>2. parties \in [Ids -> Rosters]
  BY DEF IInv, RostersOK
<1>3. s \in Rosters /\ s \in StoredRosters
  BY <1>1, <1>2 DEF Rosters
<1>4. idParty' = [p \in Players |-> IF p \in Cleared(id, t) THEN None ELSE idParty[p]]
  BY DEF LeaveOrKick
<1>5. online' = online /\ online \subseteq Players
  BY DEF LeaveOrKick, session, IInv, SessionsOK
<1>6. idParty' \in [Players -> Ids \cup {None}]
  BY <1>4 DEF IInv, BackOK
<1>7. CASE t \notin Members(s)
  <2>1. parties' = parties /\ nextId' = nextId /\ UNCHANGED storage
    BY <1>7 DEF LeaveOrKick
  <2>2. RostersOK' /\ StorageOK'
    BY <2>1 DEF RostersOK, StorageOK, storage, tables, IInv
  <2>3. BackOK'
    BY <1>4, <1>5, <1>6, <2>1 DEF BackOK, IdPartyIsOwn, IInv
  <2>4. QED
    BY <2>2, <2>3
<1>8. CASE t \in Members(s)
  <2>1. /\ parties' = [parties EXCEPT ![id] = IF Disbands(w) THEN << >> ELSE w]
        /\ IF Disbands(w) THEN Persist("remove", id, << >>) ELSE Persist("members", id, w)
        /\ nextId' = nextId /\ UNCHANGED tables
    BY <1>8 DEF LeaveOrKick, Shrunk
  <2>2. w \in StoredRosters /\ Members(w) = Members(s) \ {t}
    BY <1>3, <1>8, RosterKinds
  <2>3. Cleared(id, t) = (IF Disbands(w) THEN Members(s) \cup {t} ELSE {t}) \cap online
    BY <1>8 DEF Cleared
  <2>4. s # << >>
    BY <1>8 DEF Members
  <2>5. << >> \in Rosters /\ << >> \in StoredRosters /\ (~ Disbands(w) => w \in Rosters)
    BY <2>2, RosterKinds DEF Rosters
  <2> HIDE DEF w, id
  <2>6. StorageOK'
    <3>1. CASE Disbands(w)
      BY <1>1, <2>1, <2>5, <3>1, IssuedKeeps DEF IInv
    <3>2. CASE ~ Disbands(w)
      BY <1>1, <2>1, <2>2, <3>2, IssuedKeeps DEF IInv
    <3>3. QED
      BY <3>1, <3>2
  <2>7. RostersOK'
    BY <1>1, <1>2, <2>1, <2>4, <2>5 DEF RostersOK, IInv
  <2>8. ASSUME NEW p \in online, idParty'[p] # None
        PROVE  p \in Members(parties'[idParty'[p]])
    <3>1. p \notin Cleared(id, t) /\ idParty'[p] = idParty[p] /\ idParty[p] # None
      BY <1>4, <1>5, <2>8
    <3>2. idParty[p] \in Ids /\ p \in Members(parties[idParty[p]])
      BY <1>5, <3>1 DEF IInv, BackOK, IdPartyIsOwn
    <3>3. CASE idParty[p] # id
      BY <1>2, <2>1, <3>1, <3>2, <3>3
    <3>4. CASE idParty[p] = id
      <4>1. p # t /\ ~ Disbands(w)
        BY <2>3, <3>1, <3>2, <3>4
      <4>2. parties'[id] = w
        BY <1>1, <1>2, <2>1, <4>1
      <4>3. QED
        BY <2>2, <3>1, <3>2, <3>4, <4>1, <4>2
    <3>5. QED
      BY <3>3, <3>4
  <2>9. QED
    BY <1>5, <1>6, <2>6, <2>7, <2>8 DEF BackOK, IdPartyIsOwn
<1>9. QED
  BY <1>7, <1>8

\* A party is created under an id nobody refers to yet.
LEMMA AcceptFirstKeeps ==
    ASSUME IInv, NEW m \in Players, NEW l \in Players, AcceptFirst(m, l)
    PROVE  RostersOK' /\ StorageOK' /\ BackOK'
<1> DEFINE s == <<l, m>>
<1>1. l # m
  BY DEF AcceptFirst, Accepting, IInv, InvitesOK
<1>2. parties \in [Ids -> Rosters] /\ nextId \in Ids
  BY PartyAssumption DEF AcceptFirst, IInv, RostersOK, Ids
<1>3. s \in Rosters /\ s \in StoredRosters /\ Members(s) = {l, m}
  BY <1>1, RosterKinds DEF Rosters
<1>4. /\ parties' = [parties EXCEPT ![nextId] = s]
      /\ Persist("create", nextId, s) /\ UNCHANGED tables
      /\ nextId' = nextId + 1
      /\ idParty' = [idParty EXCEPT ![l] = nextId, ![m] = nextId]
      /\ online' = online
  BY DEF AcceptFirst, NewId, Accepting, session
<1> HIDE DEF s
<1>5. StorageOK'
  BY <1>2, <1>3, <1>4, IssuedKeeps DEF IInv
<1>6. RostersOK'
  BY <1>2, <1>3, <1>4, PartyAssumption DEF RostersOK, IInv, Ids
<1>7. idParty' \in [Players -> Ids \cup {None}]
  BY <1>2, <1>4 DEF IInv, BackOK
<1>8. ASSUME NEW p \in online, idParty'[p] # None
      PROVE  p \in Members(parties'[idParty'[p]])
  <2>1. p \in Players /\ idParty \in [Players -> Ids \cup {None}]
    BY DEF IInv, SessionsOK, BackOK
  <2>2. CASE p \in {l, m}
    BY <1>2, <1>3, <1>4, <2>1, <2>2
  <2>3. CASE p \notin {l, m}
    <3>1. idParty'[p] = idParty[p] /\ idParty[p] \in Ids
      BY <1>4, <1>8, <2>1, <2>3
    <3>2. p \in Members(parties[idParty[p]])
      BY <1>8, <3>1 DEF IInv, BackOK, IdPartyIsOwn
    <3>3. idParty[p] < nextId
      BY <3>1, <3>2 DEF IInv, RostersOK, Members
    <3>4. parties'[idParty[p]] = parties[idParty[p]]
      BY <1>2, <1>4, <3>1, <3>3 DEF Ids
    <3>5. QED
      BY <3>1, <3>2, <3>4
  <2>4. QED
    BY <2>2, <2>3
<1>9. QED
  BY <1>4, <1>5, <1>6, <1>7, <1>8 DEF BackOK, IdPartyIsOwn

\* A party that has room takes a member it does not list.
LEMMA AcceptNextKeeps ==
    ASSUME IInv, NEW m \in Players, NEW l \in Players, AcceptNext(m, l)
    PROVE  RostersOK' /\ StorageOK' /\ BackOK'
<1> DEFINE id == PartyOf(l)
           s == Append(parties[id], m)
<1>1. id \in Ids /\ l \in Members(parties[id])
  BY PartyOfMember DEF AcceptNext
<1>2. parties \in [Ids -> Rosters]
  BY DEF IInv, RostersOK
<1>3. parties[id] \in Rosters /\ parties[id] # << >> /\ parties[id] \in Seq(Players)
  BY <1>1, <1>2 DEF Rosters, StoredRosters, Members
<1>4. /\ s \in Rosters /\ s \in StoredRosters
      /\ Members(s) = Members(parties[id]) \cup {m}
  <2>1. Len(parties[id]) < MaxMembers /\ m \notin Members(parties[id])
    BY DEF AcceptNext, HasRoom
  <2>2. s \in Rosters
    BY <1>3, <2>1, RosterKinds
  <2>3. QED
    BY <1>3, <2>2, AppendedOf DEF Rosters
<1>5. /\ parties' = [parties EXCEPT ![id] = s]
      /\ Persist("members", id, s) /\ UNCHANGED tables
      /\ nextId' = nextId
      /\ idParty' = [idParty EXCEPT ![l] = id, ![m] = id]
      /\ online' = online
  BY DEF AcceptNext, Accepting, session
<1> HIDE DEF s, id
<1>6. StorageOK'
  BY <1>1, <1>4, <1>5, IssuedKeeps DEF IInv
<1>7. RostersOK'
  BY <1>1, <1>2, <1>3, <1>4, <1>5 DEF RostersOK, IInv
<1>8. idParty' \in [Players -> Ids \cup {None}]
  BY <1>1, <1>5 DEF IInv, BackOK
<1>9. ASSUME NEW p \in online, idParty'[p] # None
      PROVE  p \in Members(parties'[idParty'[p]])
  <2>1. p \in Players /\ idParty \in [Players -> Ids \cup {None}]
    BY DEF IInv, SessionsOK, BackOK
  <2>2. CASE p \in {l, m}
    BY <1>1, <1>2, <1>4, <1>5, <2>1, <2>2
  <2>3. CASE p \notin {l, m}
    <3>1. idParty'[p] = idParty[p] /\ idParty[p] \in Ids
      BY <1>5, <1>9, <2>1, <2>3
    <3>2. p \in Members(parties[idParty[p]])
      BY <1>9, <3>1 DEF IInv, BackOK, IdPartyIsOwn
    <3>3. QED
      BY <1>1, <1>2, <1>4, <1>5, <3>1, <3>2
  <2>4. QED
    BY <2>2, <2>3
<1>10. QED
  BY <1>5, <1>6, <1>7, <1>8, <1>9 DEF BackOK, IdPartyIsOwn

------------------------------------------------------------------------------
(* The invariant holds initially and after every step.                      *)

LEMMA InitIInv == Init => IInv
<1> SUFFICES ASSUME Init PROVE IInv
  OBVIOUS
<1>1. SessionsOK
  BY DEF Init, SessionsOK
<1>2. RostersOK /\ StorageOK
  <2>1. << >> \in Rosters /\ << >> \in StoredRosters
    BY RosterKinds DEF Rosters
  <2>2. QED
    BY <2>1, PartyAssumption DEF Init, RostersOK, StorageOK
<1>3. InvitesOK
  BY PartyAssumption DEF Init, InvitesOK, OneTimerPerInvite
<1>4. BackOK
  BY DEF Init, BackOK, IdPartyIsOwn
<1>5. QED
  BY <1>1, <1>2, <1>3, <1>4 DEF IInv

\* Groups of variables a step leaves alone keep their conjunct.
LEMMA Unchanged ==
    ASSUME IInv
    PROVE  /\ UNCHANGED session => SessionsOK'
           /\ UNCHANGED <<parties, nextId>> => RostersOK'
           /\ UNCHANGED storage => StorageOK'
           /\ UNCHANGED invites => InvitesOK'
           /\ UNCHANGED rosters /\ online' \subseteq online => BackOK'
<1>1. UNCHANGED session => SessionsOK'
  BY DEF session, IInv, SessionsOK
<1>2. /\ UNCHANGED <<parties, nextId>> => RostersOK'
      /\ UNCHANGED storage => StorageOK'
  BY DEF storage, tables, IInv, RostersOK, StorageOK
<1>3. UNCHANGED invites => InvitesOK'
  BY DEF invites, IInv, InvitesOK, OneTimerPerInvite
<1>4. UNCHANGED rosters /\ online' \subseteq online => BackOK'
  BY DEF rosters, IInv, BackOK, IdPartyIsOwn
<1>5. QED
  BY <1>1, <1>2, <1>3, <1>4

LEMMA PartyStepKeeps ==
    ASSUME IInv, PartyStep
    PROVE  IInv'
<1>1. ASSUME NEW l \in Players, NEW m \in Players, Invite(l, m) PROVE IInv'
  <2>1. /\ UNCHANGED <<session, rosters, storage>>
        /\ pending[m] = None /\ l # m
        /\ pending' = [pending EXCEPT ![m] = l]
        /\ timers' = [timers EXCEPT ![m] = @ + 1]
    BY <1>1 DEF Invite, AddPending
  <2>2. InvitesOK'
    BY <2>1, PartyAssumption DEF IInv, InvitesOK, OneTimerPerInvite
  <2>3. QED
    BY <2>1, <2>2, Unchanged DEF IInv, session, rosters
<1>2. ASSUME NEW m \in Players, ExpireInvite(m) PROVE IInv'
  <2>1. /\ UNCHANGED <<session, rosters, storage>>
        /\ timers[m] > 0
        /\ pending' = [pending EXCEPT ![m] = None]
        /\ timers' = [timers EXCEPT ![m] = @ - 1]
    BY <1>2 DEF ExpireInvite
  <2>2. InvitesOK'
    BY <2>1, PartyAssumption DEF IInv, InvitesOK, OneTimerPerInvite
  <2>3. QED
    BY <2>1, <2>2, Unchanged DEF IInv, session, rosters
<1>3. ASSUME NEW m \in Players, Decline(m) PROVE IInv'
  <2>1. UNCHANGED <<session, rosters, storage>> /\ RemovePending({m})
    BY <1>3 DEF Decline
  <2>2. QED
    BY <2>1, Unchanged, RemovePendingKeeps DEF IInv, session, rosters
<1>4. ASSUME AcceptStep PROVE IInv'
  <2>1. ASSUME NEW m \in Players, AcceptFromGone(m) PROVE IInv'
    <3>1. UNCHANGED <<session, rosters, storage>> /\ RemovePending({m})
      BY <2>1 DEF AcceptFromGone
    <3>2. QED
      BY <3>1, Unchanged, RemovePendingKeeps DEF IInv, session, rosters
  <2>2. ASSUME NEW m \in Players, NEW l \in Players, Accepting(m, l)
        PROVE  SessionsOK' /\ InvitesOK' /\ online' = online
    BY <2>2, Unchanged, RemovePendingKeeps DEF Accepting, IInv, session
  <2>3. ASSUME NEW m \in Players, NEW l \in Players, AcceptFirst(m, l) PROVE IInv'
    BY <2>2, <2>3, AcceptFirstKeeps DEF AcceptFirst, IInv
  <2>4. ASSUME NEW m \in Players, NEW l \in Players, AcceptNext(m, l) PROVE IInv'
    BY <2>2, <2>4, AcceptNextKeeps DEF AcceptNext, IInv
  <2>5. ASSUME NEW m \in Players, NEW l \in Players, AcceptRefused(m, l) PROVE IInv'
    BY <2>2, <2>5, Unchanged DEF AcceptRefused, IInv, rosters
  <2>6. QED
    BY <1>4, <2>1, <2>3, <2>4, <2>5 DEF AcceptStep
<1>5. ASSUME NEW r \in Players, NEW t \in Players, LeaveOrKick(r, t) PROVE IInv'
  BY <1>5, LeaveOrKickKeeps, Unchanged DEF LeaveOrKick, IInv
<1>6. ASSUME NEW r \in Players, NEW t \in Players, ChangeLeader(r, t) PROVE IInv'
  <2>1. PartyOf(r) \in Ids
    BY <1>6, PartyOfMember DEF ChangeLeader
  <2>2. RostersOK' /\ StorageOK' /\ BackOK'
    BY <1>6, <2>1, PromoteKeeps DEF ChangeLeader, session
  <2>3. QED
    BY <1>6, <2>2, Unchanged DEF ChangeLeader, IInv
<1>7. QED
  BY <1>1, <1>2, <1>3, <1>4, <1>5, <1>6 DEF PartyStep

LEMMA SocketStepKeeps ==
    ASSUME IInv, SocketStep
    PROVE  IInv'
<1>1. ASSUME NEW p \in Players, SocketClosed(p) PROVE IInv'
  <2>1. SessionsOK' /\ online' = online
    BY <1>1 DEF SocketClosed, IInv, SessionsOK
  <2>2. InvitesOK'
    BY <1>1, RemovePendingKeeps DEF SocketClosed, IInv
  <2>3. RostersOK' /\ StorageOK' /\ BackOK'
    <3>1. CASE PartiesOf(p) # {} /\ Leads(p, PartyOf(p)) /\ Heirs(PartyOf(p), p) # {}
      <4>1. PartyOf(p) \in Ids
        BY <3>1, PartyOfMember
      <4>2. parties[PartyOf(p)] \in Seq(Players)
        BY <4>1 DEF IInv, RostersOK, Rosters, StoredRosters
      <4>3. Heir(PartyOf(p), p) \in Members(parties[PartyOf(p)])
        BY <3>1, <4>1, <4>2, HeirIsMember
      <4>4. Promote(PartyOf(p), Heir(PartyOf(p), p))
        BY <1>1, <3>1 DEF SocketClosed, HandOver
      <4>5. QED
        BY <2>1, <4>1, <4>3, <4>4, PromoteKeeps
    <3>2. CASE ~ (PartiesOf(p) # {} /\ Leads(p, PartyOf(p)) /\ Heirs(PartyOf(p), p) # {})
      <4>1. UNCHANGED <<rosters, storage>>
        BY <1>1, <3>2 DEF SocketClosed, HandOver
      <4>2. QED
        BY <2>1, <4>1, Unchanged DEF rosters
    <3>3. QED
      BY <3>1, <3>2
  <2>4. QED
    BY <2>1, <2>2, <2>3 DEF IInv
<1>2. ASSUME NEW p \in Players, Join(p) PROVE IInv'
  <2>1. SessionsOK' /\ InvitesOK' /\ RostersOK' /\ StorageOK'
    BY <1>2, Unchanged DEF Join, IInv, SessionsOK
  <2>2. BackOK'
    BY <1>2 DEF Join, IInv, SessionsOK, BackOK, IdPartyIsOwn
  <2>3. QED
    BY <2>1, <2>2 DEF IInv
<1>3. QED
  BY <1>1, <1>2 DEF SocketStep

LEMMA PendingStepKeeps ==
    ASSUME IInv, PendingStep
    PROVE  IInv'
<1>1. ASSUME NEW p \in Players, Leave(p) PROVE IInv'
  BY <1>1, Unchanged DEF Leave, IInv, SessionsOK, rosters
<1>2. ASSUME NEW p \in Players, OnJoin(p) PROVE IInv'
  <2>1. SessionsOK' /\ InvitesOK' /\ RostersOK' /\ StorageOK' /\ parties' = parties /\ online' = online
    BY <1>2, Unchanged DEF OnJoin, IInv, SessionsOK
  <2>2. BackOK'
    <3>1. /\ idParty' = [idParty EXCEPT ![p] =
                IF p \notin online THEN @ ELSE IF PartiesOf(p) = {} THEN None ELSE PartyOf(p)]
          /\ idParty \in [Players -> Ids \cup {None}]
      BY <1>2 DEF OnJoin, IInv, BackOK
    <3>2. PartiesOf(p) # {} => PartyOf(p) \in Ids /\ p \in Members(parties[PartyOf(p)])
      BY PartyOfMember
    <3>3. QED
      BY <2>1, <3>1, <3>2 DEF IInv, SessionsOK, BackOK, IdPartyIsOwn
  <2>3. QED
    BY <2>1, <2>2 DEF IInv
<1>3. ASSUME NEW p \in Players, JoinPushFailed(p) PROVE IInv'
  BY <1>3, Unchanged DEF JoinPushFailed, IInv, SessionsOK, rosters
<1>4. ASSUME NEW p \in Players, UnregisteredClosed(p) PROVE IInv'
  BY <1>4, Unchanged DEF UnregisteredClosed, IInv, SessionsOK, rosters
<1>5. ASSUME Flush PROVE IInv'
  BY <1>5, Unchanged, FlushKeeps DEF Flush, IInv, session, rosters
<1>6. QED
  BY <1>1, <1>2, <1>3, <1>4, <1>5 DEF PendingStep

LEMMA WorldStepKeeps ==
    ASSUME IInv, WorldStep
    PROVE  IInv'
<1>1. ASSUME NEW p \in Players, DeleteCharacter(p) PROVE IInv'
  <2>1. SessionsOK' /\ InvitesOK' /\ RostersOK' /\ BackOK'
    BY <1>1, Unchanged DEF DeleteCharacter, IInv, SessionsOK, rosters, BackOK, IdPartyIsOwn
  <2>2. StorageOK'
    <3>1. db \in [Ids -> StoredRosters]
      BY DEF IInv, StorageOK
    <3>2. \A id \in Ids : p \in Members(db[id]) => Without(db[id], p) \in StoredRosters
      BY <3>1, RosterKinds
    <3>3. db' \in [Ids -> StoredRosters]
      BY <1>1, <3>1, <3>2 DEF DeleteCharacter
    <3>4. QED
      BY <1>1, <3>3 DEF DeleteCharacter, IInv, StorageOK
  <2>3. QED
    BY <2>1, <2>2 DEF IInv
<1>2. ASSUME Restart PROVE IInv'
  <2>1. SessionsOK'
    BY <1>2 DEF Restart, IInv, SessionsOK
  <2>2. InvitesOK'
    BY <1>2, PartyAssumption DEF Restart, InvitesOK, OneTimerPerInvite
  <2>3. BackOK'
    BY <1>2 DEF Restart, BackOK, IdPartyIsOwn
  <2>4. RostersOK' /\ StorageOK'
    <3>1. db \in [Ids -> StoredRosters] /\ << >> \in Rosters
      BY RosterKinds DEF IInv, StorageOK
    <3>2. Hydrated \in [Ids -> Rosters] /\ Rosters \subseteq StoredRosters
      BY <3>1, RosterKinds DEF Hydrated, Rosters
    <3>3. parties' = Hydrated /\ db' = Hydrated /\ nextId' = NextFree
      BY <1>2 DEF Restart
    <3>4. QED
      BY <1>2, <3>2, <3>3, NextFreeOf DEF Restart, RostersOK, StorageOK
  <2>5. QED
    BY <2>1, <2>2, <2>3, <2>4 DEF IInv
<1>3. QED
  BY <1>1, <1>2 DEF WorldStep

LEMMA StutterKeeps ==
    ASSUME IInv, UNCHANGED vars
    PROVE  IInv'
BY Unchanged DEF vars, IInv, session, rosters

LEMMA Invariance == Spec => []IInv
<1>1. Init => IInv
  BY InitIInv
<1>2. IInv /\ [Next]_vars => IInv'
  BY PartyStepKeeps, SocketStepKeeps, PendingStepKeeps, WorldStepKeeps, StutterKeeps DEF Next
<1>3. QED
  BY <1>1, <1>2, PTL DEF Spec

------------------------------------------------------------------------------
(* The theorems.                                                            *)

\* Every reachable state is well typed, however many characters and parties.
THEOREM TypeCorrect == Spec => []TypeOK
<1>1. IInv => TypeOK
  BY IInvImplies
<1>2. QED
  BY <1>1, Invariance, PTL

\* Whatever mix of invites, late accepts, kicks, disbands, handovers, deletions
\* and restarts: a roster has two to MAX_PARTY_MEMBERS members, each once.
THEOREM RostersAreSane == Spec => []RosterSane
<1>1. IInv => RosterSane
  BY IInvImplies
<1>2. QED
  BY <1>1, Invariance, PTL

\* An open invite has exactly one armed timer; a closed one has none.
THEOREM TimersMatchInvites == Spec => []OneTimerPerInvite
<1>1. IInv => OneTimerPerInvite
  BY DEF IInv, InvitesOK
<1>2. QED
  BY <1>1, Invariance, PTL

\* No live player's m_idParty names a party that does not list it.
THEOREM BackReferencesHold == Spec => []IdPartyIsOwn
<1>1. IInv => IdPartyIsOwn
  BY DEF IInv, BackOK
<1>2. QED
  BY <1>1, Invariance, PTL

------------------------------------------------------------------------------
(* Seats and leadership.                                                    *)

\* A promotion takes nobody's seat.
LEMMA PromoteLosesNobody ==
    ASSUME IInv, NEW id \in Ids, NEW x \in Members(parties[id]), Promote(id, x)
    PROVE  /\ Members(parties'[id]) = Members(parties[id])
           /\ \A other \in Ids \ {id} : parties'[other] = parties[other]
<1>1. parties \in [Ids -> Rosters]
  BY DEF IInv, RostersOK
<1>2. parties[id] \in Seq(Players)
  BY <1>1 DEF Rosters, StoredRosters
<1>3. parties' = [parties EXCEPT ![id] = Promoted(parties[id], x)]
  BY DEF Promote
<1>4. Members(Promoted(parties[id], x)) = Members(parties[id])
  BY <1>2, PromotedOf
<1>5. QED
  BY <1>1, <1>3, <1>4

\* Whoever takes out a member other than the leader leaves the leader first.
LEMMA WithoutKeepsFirst ==
    ASSUME NEW s \in Rosters, NEW x \in Members(s), x # s[1], ~ Disbands(Without(s, x))
    PROVE  Without(s, x)[1] = s[1]
<1>1. s \in Seq(Players) /\ Len(s) \in Nat
  BY DEF Rosters, StoredRosters
<1>2. Position(s, x) \in 1 .. Len(s) /\ s[Position(s, x)] = x
  BY <1>1, PositionIn
<1>3. Position(s, x) # 1
  BY <1>2
<1>4. Len(Without(s, x)) = Len(s) - 1
  BY <1>1, WithoutOf
<1>5. 1 \in 1 .. (Len(s) - 1)
  BY <1>1, <1>4 DEF Disbands
<1>6. QED
  BY <1>1, <1>2, <1>3, <1>5 DEF Without

\* Leaving and kicking: one seat is lost, or all of them; the actor may do it.
LEMMA LeaveOrKickLawful ==
    ASSUME IInv, NEW r \in Players, NEW t \in Players, LeaveOrKick(r, t)
    PROVE  Lawful
<1> DEFINE at == PartyOf(r)
           w == Without(parties[at], t)
<1>1. at \in Ids /\ r \in Members(parties[at])
  BY PartyOfMember DEF LeaveOrKick
<1>2. parties \in [Ids -> Rosters]
  BY DEF IInv, RostersOK
<1> SUFFICES ASSUME NEW id \in Ids, parties[id] # << >>, parties[id] # parties'[id]
             PROVE  /\ SeatsLostLawfully(id, parties[id][1],
                             Members(parties[id]) \ Members(parties'[id]))
                    /\ SucceededLawfully(id, parties[id][1])
  BY DEF Lawful
<1>3. t \in Members(parties[at])
  BY DEF LeaveOrKick
<1>4. parties' = [parties EXCEPT ![at] = IF Disbands(w) THEN << >> ELSE w]
  BY <1>3 DEF LeaveOrKick, Shrunk
<1>5. id = at
  BY <1>1, <1>2, <1>4
<1>6. parties'[id] = IF Disbands(w) THEN << >> ELSE w
  BY <1>1, <1>2, <1>4, <1>5
<1>7. r = t \/ r = parties[id][1]
  BY <1>5 DEF LeaveOrKick, MayRemove, Leads
<1>8. LeaveOrKick(t, t) \/ LeaveOrKick(parties[id][1], t)
  BY <1>7
<1>9. Members(w) = Members(parties[id]) \ {t}
  BY <1>1, <1>2, <1>3, <1>5, RosterKinds DEF Rosters
<1>10. SeatsLostLawfully(id, parties[id][1], Members(parties[id]) \ Members(parties'[id]))
  <2>1. parties'[id] # << >> => Members(parties[id]) \ Members(parties'[id]) = {t}
    BY <1>3, <1>5, <1>6, <1>9
  <2>2. QED
    BY <1>3, <1>5, <1>8, <2>1 DEF SeatsLostLawfully
<1>11. SucceededLawfully(id, parties[id][1])
  <2>1. CASE t = parties[id][1]
    BY <1>8, <2>1 DEF SucceededLawfully
  <2>2. CASE t # parties[id][1] /\ ~ Disbands(w)
    <3>1. w[1] = parties[id][1]
      BY <1>1, <1>2, <1>3, <1>5, <2>2, WithoutKeepsFirst
    <3>2. QED
      BY <1>6, <2>2, <3>1 DEF SucceededLawfully
  <2>3. CASE Disbands(w)
    BY <1>6, <2>3 DEF SucceededLawfully
  <2>4. QED
    BY <2>1, <2>2, <2>3
<1>12. QED
  BY <1>10, <1>11

\* Accepting adds a seat at the end of one roster or makes a new one.
LEMMA AcceptLawful ==
    ASSUME IInv, AcceptStep
    PROVE  Lawful
<1> SUFFICES ASSUME NEW id \in Ids, parties[id] # << >>, parties[id] # parties'[id]
             PROVE  /\ Members(parties[id]) \ Members(parties'[id]) = {}
                    /\ parties'[id][1] = parties[id][1]
  BY DEF Lawful, SeatsLostLawfully, SucceededLawfully
<1>1. parties \in [Ids -> Rosters]
  BY DEF IInv, RostersOK
<1>2. PICK m \in Players, l \in Players : AcceptFirst(m, l) \/ AcceptNext(m, l)
  BY DEF AcceptStep, AcceptFromGone, AcceptRefused, rosters
<1>3. CASE AcceptFirst(m, l)
  <2>1. parties' = [parties EXCEPT ![nextId] = <<l, m>>]
    BY <1>3 DEF AcceptFirst, NewId
  <2>2. id < nextId
    BY DEF IInv, RostersOK
  <2>3. parties'[id] = parties[id]
    BY <1>1, <2>1, <2>2 DEF Ids
  <2>4. QED
    BY <2>3
<1>4. CASE AcceptNext(m, l)
  <2>1. parties' = [parties EXCEPT ![PartyOf(l)] = Append(parties[PartyOf(l)], m)]
    BY <1>4 DEF AcceptNext
  <2>2. parties'[id] = Append(parties[id], m)
    BY <1>1, <2>1
  <2>3. parties[id] \in Seq(Players) /\ Len(parties[id]) >= 2
    BY <1>1 DEF Rosters, StoredRosters
  <2>4. Members(Append(parties[id], m)) = Members(parties[id]) \cup {m}
    BY <2>3, AppendedOf
  <2>5. Append(parties[id], m)[1] = parties[id][1]
    BY <2>3
  <2>6. QED
    BY <2>2, <2>4, <2>5
<1>5. QED
  BY <1>2, <1>3, <1>4

\* Handing over: everyone keeps the seat and the leader has asked or gone.
LEMMA HandOverLawful ==
    ASSUME IInv, NEW p \in Players, SocketClosed(p) \/ \E t \in Players : ChangeLeader(p, t)
    PROVE  Lawful
<1>1. ASSUME NEW x \in Members(parties[PartyOf(p)]), Promote(PartyOf(p), x),
             PartiesOf(p) # {}, Leads(p, PartyOf(p))
      PROVE  Lawful
  <2>1. PartyOf(p) \in Ids
    BY <1>1, PartyOfMember
  <2>2. /\ Members(parties'[PartyOf(p)]) = Members(parties[PartyOf(p)])
        /\ \A other \in Ids \ {PartyOf(p)} : parties'[other] = parties[other]
    BY <1>1, <2>1, PromoteLosesNobody
  <2>3. parties[PartyOf(p)][1] = p
    BY <1>1 DEF Leads
  <2>4. QED
    BY <2>2, <2>3 DEF Lawful, SeatsLostLawfully, SucceededLawfully
<1>2. CASE UNCHANGED rosters
  BY <1>2 DEF rosters, Lawful
<1>3. CASE \E t \in Players : ChangeLeader(p, t)
  BY <1>1, <1>3 DEF ChangeLeader
<1>4. CASE SocketClosed(p) /\ ~ UNCHANGED rosters
  <2>1. PartiesOf(p) # {} /\ Leads(p, PartyOf(p)) /\ Heirs(PartyOf(p), p) # {}
    BY <1>4 DEF SocketClosed, HandOver
  <2>2. PartyOf(p) \in Ids
    BY <2>1, PartyOfMember
  <2>3. parties[PartyOf(p)] \in Seq(Players)
    BY <2>2 DEF IInv, RostersOK, Rosters, StoredRosters
  <2>4. Heir(PartyOf(p), p) \in Members(parties[PartyOf(p)])
    BY <2>1, <2>2, <2>3, HeirIsMember
  <2>5. Promote(PartyOf(p), Heir(PartyOf(p), p))
    BY <1>4, <2>1 DEF SocketClosed, HandOver
  <2>6. QED
    BY <1>1, <2>1, <2>4, <2>5
<1>5. QED
  BY <1>2, <1>3, <1>4

\* Seats and leadership change hands only as AuthorityKept says, however leaves,
\* kicks, late accepts and disconnects interleave.
THEOREM AuthorityIsKept == Spec => AuthorityKept
<1>1. IInv /\ [Next]_vars => [Restart \/ Lawful]_vars
  <2> SUFFICES ASSUME IInv, Next PROVE Restart \/ Lawful
    OBVIOUS
  <2>1. CASE UNCHANGED rosters
    BY <2>1 DEF rosters, Lawful
  <2>2. CASE PartyStep
    <3>1. ASSUME NEW r \in Players, NEW t \in Players, LeaveOrKick(r, t) PROVE Lawful
      BY <3>1, LeaveOrKickLawful
    <3>2. ASSUME NEW r \in Players, NEW t \in Players, ChangeLeader(r, t) PROVE Lawful
      BY <3>2, HandOverLawful
    <3>3. ASSUME NEW l \in Players, NEW m \in Players,
                 Invite(l, m) \/ ExpireInvite(m) \/ Decline(m)
          PROVE  UNCHANGED rosters
      BY <3>3 DEF Invite, ExpireInvite, Decline
    <3>4. QED
      BY <2>1, <2>2, <3>1, <3>2, <3>3, AcceptLawful DEF PartyStep
  <2>3. CASE SocketStep
    <3>1. ASSUME NEW p \in Players, SocketClosed(p) PROVE Lawful
      BY <3>1, HandOverLawful
    <3>2. ASSUME NEW p \in Players, Join(p) PROVE Lawful
      BY <3>2 DEF Join, Lawful
    <3>3. QED
      BY <2>3, <3>1, <3>2 DEF SocketStep
  <2>4. CASE PendingStep
    BY <2>4 DEF PendingStep, Flush, Leave, OnJoin, JoinPushFailed, UnregisteredClosed, rosters, Lawful
  <2>5. CASE WorldStep
    BY <2>5 DEF WorldStep, DeleteCharacter, rosters, Lawful
  <2>6. QED
    BY <2>2, <2>3, <2>4, <2>5 DEF Next
<1>2. QED
  BY <1>1, Invariance, PTL DEF Spec, AuthorityKept

------------------------------------------------------------------------------
(* The stored rosters.  While nobody is in two parties and nobody deleted,   *)
(* no write is refused: the tables pass through the rosters the memory had.  *)

OnePartyOf(t) ==
    \A p \in Players, id, other \in Ids :
        p \in Members(t[id]) \cap Members(t[other]) => id = other

\* What h[i] becomes by the i-th write, which finds the row it needs.
Applies(h, i) ==
    /\ h[i + 1] = [h[i] EXCEPT ![writes[i].id] = writes[i].roster]
    /\ writes[i].kind = "remove" <=> writes[i].roster = << >>
    /\ writes[i].kind = "members" => h[i][writes[i].id] # << >>

Follows(h) ==
    /\ h \in Seq([Ids -> Rosters]) /\ Len(h) = Len(writes) + 1
    /\ h[1] = db /\ h[Len(h)] = parties
    /\ \A i \in 1 .. Len(writes) : Applies(h, i)
    /\ \A i \in 1 .. Len(h) : OnePartyOf(h[i])

Synced ==
    /\ exists = Players
    /\ rows = {id \in Ids : db[id] # << >>}
    /\ \E h : Follows(h)

\* A roster is issued: the tables will come to it after the writes before.
LEMMA IssuedSynced ==
    ASSUME IInv, Synced, NEW id \in Ids, NEW s \in Rosters,
           NEW kind \in {"create", "members", "remove"},
           kind = "remove" <=> s = << >>, kind = "members" => parties[id] # << >>,
           Persist(kind, id, s), parties' = [parties EXCEPT ![id] = s], UNCHANGED tables,
           exists' = Players, OneParty'
    PROVE  Synced'
<1> DEFINE w == [kind |-> kind, id |-> id, roster |-> s]
<1>1. PICK h : Follows(h)
  BY DEF Synced
<1>0. PICK g : g = Append(h, parties')
  OBVIOUS
<1>2. h \in Seq([Ids -> Rosters]) /\ parties' \in [Ids -> Rosters]
  BY <1>1 DEF Follows, IInv, RostersOK
<1>3. /\ writes \in Seq(StoredWrites) /\ w \in StoredWrites /\ writes' = Append(writes, w)
      /\ w.kind = kind /\ w.id = id /\ w.roster = s
  BY DEF StoredWrites, IInv, StorageOK, Persist, Issued, Rosters
<1> HIDE DEF w
<1>4. /\ Len(writes') = Len(writes) + 1 /\ Len(writes) \in Nat /\ writes'[Len(writes) + 1] = w
      /\ \A i \in 1 .. Len(writes) : writes'[i] = writes[i]
  BY <1>3
<1>5. /\ g \in Seq([Ids -> Rosters]) /\ Len(g) = Len(h) + 1 /\ g[Len(h) + 1] = parties'
      /\ \A i \in 1 .. Len(h) : g[i] = h[i]
  BY <1>0, <1>2
<1>6. Len(h) = Len(writes) + 1
  BY <1>1 DEF Follows
<1>7. ASSUME NEW i \in 1 .. Len(writes') PROVE Applies(g, i)'
  <2>1. CASE i \in 1 .. Len(writes)
    <3>1. i \in 1 .. Len(h) /\ i + 1 \in 1 .. Len(h)
      BY <1>4, <1>6, <2>1
    <3>2. g[i] = h[i] /\ g[i + 1] = h[i + 1] /\ writes'[i] = writes[i]
      BY <1>4, <1>5, <2>1, <3>1
    <3>3. Applies(h, i)
      BY <1>1, <2>1 DEF Follows
    <3>4. QED
      BY <3>2, <3>3 DEF Applies
  <2>2. CASE i = Len(h)
    <3>1. g[i] = parties /\ g[i + 1] = parties' /\ writes'[i] = w
      BY <1>1, <1>4, <1>5, <1>6, <2>2 DEF Follows
    <3>2. QED
      BY <1>3, <3>1 DEF Applies
  <2>3. QED
    BY <1>4, <1>6, <2>1, <2>2
<1>8. ASSUME NEW i \in 1 .. Len(g) PROVE OnePartyOf(g[i])
  <2>1. CASE i \in 1 .. Len(h)
    BY <1>1, <1>5, <2>1 DEF Follows
  <2>2. CASE i = Len(h) + 1
    BY <1>5, <2>2 DEF OnePartyOf, OneParty
  <2>3. QED
    BY <1>4, <1>5, <1>6, <2>1, <2>2
<1>9. g[1] = db'
  BY <1>1, <1>4, <1>5, <1>6 DEF Follows, tables
<1>10. Follows(g)'
  BY <1>4, <1>5, <1>6, <1>7, <1>8, <1>9 DEF Follows
<1>11. rows' = {x \in Ids : db'[x] # << >>}
  BY DEF Synced, tables
<1>12. QED
  BY <1>10, <1>11 DEF Synced

\* The next write finds its row and no member in another party: it is not refused.
LEMMA FlushSynced ==
    ASSUME IInv, Synced, Flush
    PROVE  Synced'
<1> DEFINE w == Head(writes)
<1>1. PICK h : Follows(h)
  BY DEF Synced
<1> DEFINE g == Tail(h)
<1>2. /\ writes \in Seq(StoredWrites) /\ Len(writes) \in Nat \ {0} /\ w = writes[1]
      /\ w \in StoredWrites /\ Len(writes') = Len(writes) - 1
      /\ \A i \in 1 .. Len(writes') : writes'[i] = writes[i + 1]
  BY DEF IInv, StorageOK, Flush
<1>3. h \in Seq([Ids -> Rosters]) /\ Len(h) = Len(writes) + 1
  BY <1>1 DEF Follows
<1>4. /\ g \in Seq([Ids -> Rosters]) /\ Len(g) = Len(h) - 1
      /\ \A i \in 1 .. Len(g) : g[i] = h[i + 1]
  BY <1>2, <1>3
<1>5. parties' = parties /\ exists' = exists
  BY DEF Flush, session, rosters
<1>6. Applies(h, 1) /\ OnePartyOf(h[2]) /\ h[1] = db
  BY <1>1, <1>2, <1>3 DEF Follows
<1> HIDE DEF w, g
<1>7. /\ h[2] = Stored(w) /\ (w.kind = "remove" <=> w.roster = << >>)
      /\ (w.kind = "members" => db[w.id] # << >>)
  BY <1>2, <1>6 DEF Applies, Stored
<1>8. w.id \in Ids /\ w.roster \in Seq(Players) /\ db \in [Ids -> Rosters]
  BY <1>2, <1>3, <1>6 DEF StoredWrites, StoredRosters
<1>9. w.kind # "remove" => Storable(w)
  <2>1. Members(w.roster) \subseteq Players
    BY <1>8 DEF Members
  <2>2. ASSUME NEW other \in Ids \ {w.id}
        PROVE  Members(db[other]) \cap Members(w.roster) = {}
    <3>1. h[2][other] = db[other] /\ h[2][w.id] = w.roster
      BY <1>7, <1>8 DEF Stored
    <3>2. QED
      BY <1>6, <1>8, <2>1, <3>1 DEF OnePartyOf
  <2>3. w.kind = "members" => w.id \in rows
    BY <1>7, <1>8 DEF Synced
  <2>4. QED
    BY <2>1, <2>2, <2>3 DEF Storable, Synced
<1>10. /\ db' = Stored(w)
       /\ rows' = IF w.kind = "remove" THEN rows \ {w.id} ELSE rows \cup {w.id}
  BY <1>9 DEF Flush, w
<1>11. rows' = {id \in Ids : db'[id] # << >>}
  BY <1>7, <1>8, <1>10 DEF Stored, Synced
<1>12. ASSUME NEW i \in 1 .. Len(writes') PROVE Applies(g, i)'
  <2>1. i + 1 \in 1 .. Len(writes) /\ i \in 1 .. Len(g) /\ i + 1 \in 1 .. Len(g)
    BY <1>2, <1>3, <1>4
  <2>2. Applies(h, i + 1)
    BY <1>1, <2>1 DEF Follows
  <2>3. g[i] = h[i + 1] /\ g[i + 1] = h[i + 1 + 1] /\ writes'[i] = writes[i + 1]
    BY <1>2, <1>4, <2>1
  <2>4. QED
    BY <2>2, <2>3 DEF Applies
<1>13. Follows(g)'
  <2>1. g[1] = db' /\ g[Len(g)] = parties' /\ Len(g) = Len(writes') + 1
    BY <1>1, <1>2, <1>3, <1>4, <1>5, <1>7, <1>10 DEF Follows
  <2>2. \A i \in 1 .. Len(g) : OnePartyOf(g[i])
    BY <1>1, <1>2, <1>3, <1>4 DEF Follows
  <2>3. QED
    BY <1>4, <1>12, <2>1, <2>2 DEF Follows
<1>14. QED
  BY <1>5, <1>11, <1>13 DEF Synced

\* Steps that leave rosters and storage alone.
LEMMA IdleSynced ==
    ASSUME Synced, UNCHANGED <<parties, storage>>, exists' = Players
    PROVE  Synced'
BY DEF Synced, Follows, Applies, storage, tables

LEMMA PromoteSynced ==
    ASSUME IInv, Synced, NEW id \in Ids, NEW x \in Members(parties[id]), Promote(id, x),
           exists' = Players, OneParty'
    PROVE  Synced'
<1> DEFINE s == Promoted(parties[id], x)
<1>1. parties[id] \in Rosters /\ parties[id] # << >>
  BY DEF IInv, RostersOK, Members
<1>2. s \in Rosters
  BY <1>1, RosterKinds
<1>3. s # << >>
  <2>1. parties[id] \in Seq(Players) /\ Len(parties[id]) >= 2
    BY <1>1 DEF Rosters, StoredRosters
  <2>2. Len(s) = Len(parties[id])
    BY <2>1, PromotedOf
  <2>3. QED
    BY <2>1, <2>2
<1>4. parties' = [parties EXCEPT ![id] = s] /\ Persist("members", id, s) /\ UNCHANGED tables
  BY DEF Promote
<1> HIDE DEF s
<1>5. QED
  BY <1>1, <1>2, <1>3, <1>4, IssuedSynced

LEMMA LeaveOrKickSynced ==
    ASSUME IInv, Synced, NEW r \in Players, NEW t \in Players, LeaveOrKick(r, t),
           exists' = Players, OneParty'
    PROVE  Synced'
<1> DEFINE id == PartyOf(r)
           w == Without(parties[id], t)
<1>1. id \in Ids /\ parties[id] # << >>
  BY PartyOfMember DEF LeaveOrKick, Members
<1>2. parties[id] \in Rosters /\ parties[id] \in StoredRosters
  BY <1>1 DEF IInv, RostersOK, Rosters
<1>3. CASE t \notin Members(parties[id])
  <2>1. UNCHANGED <<parties, storage>>
    BY <1>3 DEF LeaveOrKick
  <2>2. QED
    BY <2>1, IdleSynced
<1>4. CASE t \in Members(parties[id])
  <2>1. Shrunk(id, w)
    BY <1>4 DEF LeaveOrKick
  <2>2. CASE Disbands(w)
    <3>1. /\ parties' = [parties EXCEPT ![id] = << >>]
          /\ Persist("remove", id, << >>) /\ UNCHANGED tables
      BY <2>1, <2>2 DEF Shrunk
    <3>2. << >> \in Rosters
      BY RosterKinds
    <3> HIDE DEF id
    <3>3. QED
      BY <1>1, <3>1, <3>2, IssuedSynced
  <2>3. CASE ~ Disbands(w)
    <3>1. /\ parties' = [parties EXCEPT ![id] = w]
          /\ Persist("members", id, w) /\ UNCHANGED tables
      BY <2>1, <2>3 DEF Shrunk
    <3>2. w \in StoredRosters
      BY <1>2, <1>4, RosterKinds
    <3>3. w \in Rosters
      BY <2>3, <3>2, RosterKinds
    <3>4. w # << >>
      BY <2>3 DEF Disbands
    <3> HIDE DEF id, w
    <3>5. QED
      BY <1>1, <3>1, <3>3, <3>4, IssuedSynced
  <2>4. QED
    BY <2>2, <2>3
<1>5. QED
  BY <1>3, <1>4

LEMMA AcceptSynced ==
    ASSUME IInv, Synced, AcceptStep, exists' = Players, OneParty'
    PROVE  Synced'
<1>1. ASSUME NEW m \in Players, NEW l \in Players, AcceptFirst(m, l) PROVE Synced'
  <2> DEFINE s == <<l, m>>
  <2>1. l # m
    BY <1>1 DEF AcceptFirst, Accepting, IInv, InvitesOK
  <2>2. s \in Rosters /\ s # << >>
    BY <2>1, RosterKinds
  <2>3. nextId \in Ids
    BY <1>1, PartyAssumption DEF AcceptFirst, IInv, RostersOK, Ids
  <2>4. /\ parties' = [parties EXCEPT ![nextId] = s]
        /\ Persist("create", nextId, s) /\ UNCHANGED tables
    BY <1>1 DEF AcceptFirst, NewId
  <2> HIDE DEF s
  <2>5. QED
    BY <2>2, <2>3, <2>4, IssuedSynced
<1>2. ASSUME NEW m \in Players, NEW l \in Players, AcceptNext(m, l) PROVE Synced'
  <2> DEFINE id == PartyOf(l)
             s == Append(parties[id], m)
  <2>1. id \in Ids /\ parties[id] # << >>
    BY <1>2, PartyOfMember DEF AcceptNext, Members
  <2>2. parties[id] \in Rosters
    BY <2>1 DEF IInv, RostersOK
  <2>3. Len(parties[id]) < MaxMembers /\ m \notin Members(parties[id])
    BY <1>2 DEF AcceptNext, HasRoom
  <2>4. s \in Rosters
    BY <2>1, <2>2, <2>3, RosterKinds
  <2>5. s # << >>
    <3>1. parties[id] \in Seq(Players)
      BY <2>2 DEF Rosters, StoredRosters
    <3>2. QED
      BY <3>1
  <2>6. /\ parties' = [parties EXCEPT ![id] = s]
        /\ Persist("members", id, s) /\ UNCHANGED tables
    BY <1>2 DEF AcceptNext
  <2> HIDE DEF s, id
  <2>7. QED
    BY <2>1, <2>4, <2>5, <2>6, IssuedSynced
<1>3. ASSUME NEW m \in Players,
             AcceptFromGone(m) \/ \E l \in Players : AcceptRefused(m, l)
      PROVE  Synced'
  BY <1>3, IdleSynced DEF AcceptFromGone, AcceptRefused, Accepting, session, rosters
<1>4. QED
  BY <1>1, <1>2, <1>3 DEF AcceptStep

\* A restart reads the stored rosters back whole: each has two members at least.
LEMMA RestartSynced ==
    ASSUME IInv, Synced, Restart
    PROVE  Synced'
<1>1. PICK h : Follows(h)
  BY DEF Synced
<1>2. h[1] = db /\ db \in [Ids -> Rosters] /\ OnePartyOf(db)
  <2>1. Len(writes) \in Nat
    BY DEF IInv, StorageOK
  <2>2. 1 \in 1 .. Len(h)
    BY <1>1, <2>1 DEF Follows
  <2>3. QED
    BY <1>1, <2>2 DEF Follows
<1>3. Hydrated = db
  <2>1. \A id \in Ids : Disbands(db[id]) => db[id] = << >>
    BY <1>2 DEF Disbands, Rosters, StoredRosters
  <2>2. QED
    BY <1>2, <2>1 DEF Hydrated
<1>4. /\ parties' = db /\ db' = db /\ writes' = << >> /\ exists' = exists
      /\ rows' = {id \in Ids : db[id] # << >>}
  BY <1>3 DEF Restart
<1>5. PICK g : g \in Seq([Ids -> Rosters]) /\ Len(g) = 1 /\ g[1] = db
  <2>1. <<db>> \in Seq([Ids -> Rosters]) /\ Len(<<db>>) = 1 /\ <<db>>[1] = db
    BY <1>2
  <2>2. QED
    BY <2>1
<1>6. Follows(g)'
  BY <1>2, <1>4, <1>5 DEF Follows
<1>7. QED
  BY <1>4, <1>6 DEF Synced

LEMMA StepSynced ==
    ASSUME IInv, Synced, Next, exists' = Players, OneParty'
    PROVE  Synced'
<1>1. CASE UNCHANGED <<parties, storage>>
  BY <1>1, IdleSynced
<1>2. ASSUME NEW p \in Players, NEW x \in Members(parties[PartyOf(p)]),
             Promote(PartyOf(p), x), PartiesOf(p) # {}
      PROVE  Synced'
  <2>1. PartyOf(p) \in Ids
    BY <1>2, PartyOfMember
  <2>2. QED
    BY <1>2, <2>1, PromoteSynced
<1>3. CASE PartyStep
  <2>1. ASSUME NEW l \in Players, NEW m \in Players,
               Invite(l, m) \/ ExpireInvite(m) \/ Decline(m)
        PROVE  Synced'
    BY <1>1, <2>1 DEF Invite, ExpireInvite, Decline, rosters
  <2>2. ASSUME NEW r \in Players, NEW t \in Players, LeaveOrKick(r, t) PROVE Synced'
    BY <2>2, LeaveOrKickSynced
  <2>3. ASSUME NEW r \in Players, NEW t \in Players, ChangeLeader(r, t) PROVE Synced'
    BY <1>2, <2>3 DEF ChangeLeader
  <2>4. QED
    BY <1>3, <2>1, <2>2, <2>3, AcceptSynced DEF PartyStep
<1>4. CASE SocketStep
  <2>1. ASSUME NEW p \in Players, SocketClosed(p), ~ UNCHANGED <<rosters, storage>> PROVE Synced'
    <3>1. /\ PartiesOf(p) # {} /\ Heirs(PartyOf(p), p) # {}
          /\ Promote(PartyOf(p), Heir(PartyOf(p), p))
      BY <2>1 DEF SocketClosed, HandOver
    <3>2. PartyOf(p) \in Ids
      BY <3>1, PartyOfMember
    <3>3. parties[PartyOf(p)] \in Seq(Players)
      BY <3>2 DEF IInv, RostersOK, Rosters, StoredRosters
    <3>4. Heir(PartyOf(p), p) \in Members(parties[PartyOf(p)])
      BY <3>1, <3>2, <3>3, HeirIsMember
    <3>5. QED
      BY <1>2, <3>1, <3>4
  <2>2. ASSUME NEW p \in Players, Join(p) \/ UNCHANGED <<rosters, storage>> PROVE Synced'
    BY <1>1, <2>2 DEF Join, rosters
  <2>3. QED
    BY <1>4, <2>1, <2>2 DEF SocketStep
<1>5. CASE PendingStep
  BY <1>1, <1>5, FlushSynced DEF PendingStep, Leave, OnJoin, JoinPushFailed, UnregisteredClosed, rosters
<1>6. CASE WorldStep
  <2>1. ~ \E p \in Players : DeleteCharacter(p)
    BY DEF DeleteCharacter
  <2>2. QED
    BY <1>6, <2>1, RestartSynced DEF WorldStep
<1>7. QED
  BY <1>3, <1>4, <1>5, <1>6 DEF Next

\* As long as no character is in two parties or deleted, the tables hold the live
\* rosters, with their order, whenever no write is under way: none was refused on the
\* way, through late accepts, disbands, promotions and restarts that lose the queue.
THEOREM TablesFollow == TablesSpec => []StoredAsLive
<1> DEFINE Inv == IInv /\ (~ doubled => Synced)
<1>1. Init /\ doubled = FALSE => Inv
  <2>1. Init => Synced
    <3> SUFFICES ASSUME Init PROVE Synced
      OBVIOUS
    <3> DEFINE g == <<db>>
    <3>1. db \in [Ids -> Rosters] /\ \A id \in Ids : db[id] = << >>
      BY RosterKinds DEF Init
    <3>2. OnePartyOf(db)
      BY <3>1 DEF OnePartyOf, Members
    <3>3. g \in Seq([Ids -> Rosters]) /\ Len(g) = 1 /\ g[1] = db
      BY <3>1
    <3> HIDE DEF g
    <3>4. Follows(g)
      BY <3>2, <3>3 DEF Follows, Init
    <3>5. QED
      BY <3>1, <3>4 DEF Synced, Init
  <2>2. QED
    BY <2>1, InitIInv
<1>2. Inv /\ [Next /\ Noted]_tableVars => Inv'
  <2> SUFFICES ASSUME Inv, [Next /\ Noted]_tableVars PROVE Inv'
    OBVIOUS
  <2>1. IInv'
    BY PartyStepKeeps, SocketStepKeeps, PendingStepKeeps, WorldStepKeeps, StutterKeeps
       DEF Next, tableVars
  <2>2. CASE UNCHANGED tableVars
    <3>1. UNCHANGED <<parties, storage>> /\ exists' = exists /\ doubled' = doubled
      BY <2>2 DEF tableVars, vars, session, rosters
    <3>2. QED
      BY <2>1, <3>1, IdleSynced DEF Synced
  <2>3. CASE Next /\ Noted /\ ~ doubled'
    <3>1. ~ doubled /\ exists' = Players /\ OneParty'
      BY <2>3 DEF Noted, Doubled
    <3>2. QED
      BY <2>1, <2>3, <3>1, StepSynced
  <2>4. QED
    BY <2>1, <2>2, <2>3
<1>3. Inv => StoredAsLive
  <2> SUFFICES ASSUME Synced, writes = << >> PROVE db = parties
    BY DEF StoredAsLive
  <2>1. PICK h : Follows(h)
    BY DEF Synced
  <2>2. Len(h) = 1
    BY <2>1 DEF Follows
  <2>3. QED
    BY <2>1, <2>2 DEF Follows
<1>4. QED
  BY <1>1, <1>2, <1>3, PTL DEF TablesSpec

==============================================================================
