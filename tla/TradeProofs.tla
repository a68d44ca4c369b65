----------------------------- MODULE TradeProofs -----------------------------
(* What Trade guarantees for any set of characters, bag size, number of     *)
(* trade windows and gold cap, and what Market, the shops beside the trade  *)
(* windows, guarantees for any number of listings, prices and integer width.*)
EXTENDS Market, InventoryProofs

------------------------------------------------------------------------------
(* The operators of a swap are well typed.                                  *)

LEMMA StakeOf ==
    ASSUME TypeOK, NEW p \in Players, NEW i \in Stakes(p)
    PROVE  vt[p].items[i] \in Stake
  BY DEF TypeOK, Stakes, VTInfo

LEMMA StakeAtType ==
    ASSUME TypeOK, NEW p \in Players, NEW s \in StakedSlots(p)
    PROVE  StakeAt(p, s) \in Stake /\ StakeAt(p, s).slot = s
<1>1. PICK i \in Stakes(p) : vt[p].items[i].slot = s
  BY DEF StakedSlots
<1>2. QED
  BY <1>1, StakeOf DEF StakeAt

LEMMA StakedLive ==
    ASSUME TypeOK, NEW p \in Players, StakesLive(p), NEW i \in Stakes(p)
    PROVE  bag[p][vt[p].items[i].slot] \in Item
  BY StakeOf DEF StakesLive, TypeOK, Stake

LEMMA KeptType ==
    ASSUME TypeOK, NEW p \in Players, StakesLive(p)
    PROVE  Kept(p) \in Bags
<1>1. ASSUME NEW s \in StakedSlots(p)
      PROVE  Less(bag[p][s], StakeAt(p, s).count) \in Item \cup {Empty}
  <2>1. PICK i \in Stakes(p) : vt[p].items[i].slot = s
    BY DEF StakedSlots
  <2>2. bag[p][s] \in Item
    BY <2>1, StakedLive
  <2>3. StakeAt(p, s).count \in Nat
    BY StakeAtType DEF Stake
  <2>4. QED
    BY <2>2, <2>3, LessType
<1>2. QED
  BY <1>1 DEF Kept, Bags, BagsOn, TypeOK

LEMMA SwappedType ==
    ASSUME TypeOK, NEW p \in Players, NEW q \in Players, StakesLive(p), StakesLive(q)
    PROVE  Swapped(p, q) \in Bags
<1>1. ASSUME NEW s \in Filled(p, q)
      PROVE  Incoming(p, q, s) \in Item
  <2> DEFINE i == CHOOSE i \in Stakes(q) : Matches(p, q, s, i)
  <2>1. i \in Stakes(q)
    BY DEF Filled
  <2>2. bag[q][vt[q].items[i].slot] \in Item
    BY <2>1, StakedLive
  <2>3. vt[q].items[i].count \in Nat \ {0}
    BY <2>1, StakeOf DEF Stake
  <2>4. s \in Nat
    BY DEF Filled, Free, EmptySlots, Slots
  <2>5. QED
    BY <2>2, <2>3, <2>4 DEF Incoming, Item
<1>2. QED
  BY <1>1, KeptType DEF Swapped, Bags, BagsOn

LEMMA JournaledType ==
    ASSUME TypeOK, NEW p \in Players, NEW q \in Players, NEW S,
           StakesLive(p), StakesLive(q)
    PROVE  Journaled(p, q, S) \in DurableBags
  BY SwappedType, RowType DEF Journaled, Bags, BagsOn, DurableBags, RowsOn, TypeOK
LEMMA WrittenType ==
    ASSUME TypeOK, NEW p \in Players, NEW q \in Players, StakesLive(p), StakesLive(q)
    PROVE  Written(p, q) \in DurableBags
  BY SwappedType, StoredType DEF Written, Bags, BagsOn, DurableBags, RowsOn, TypeOK
------------------------------------------------------------------------------
(* Type correctness.                                                        *)

LEMMA RefundSidesType ==
    ASSUME TypeOK, NEW S \in SUBSET Players, RefundSides(S)
    PROVE  /\ gold' \in [Players -> Nat]
           /\ durGold' \in [Players -> Nat]
           /\ vt' \in [Players -> VTInfo]
  BY TradeAssumption DEF RefundSides, Refund, Smaller, Cleared, Idle, TypeOK, VTInfo

LEMMA ClearSidesType ==
    ASSUME TypeOK, NEW S \in SUBSET Players, ClearSides(S)
    PROVE  TypeOK'
  BY RefundSidesType DEF ClearSides, TypeOK, session

LEMMA TeardownType ==
    ASSUME TypeOK, NEW p \in Players, Teardown(p)
    PROVE  /\ closing' \subseteq Players
           /\ gold' \in [Players -> Nat]
           /\ durGold' \in [Players -> Nat]
           /\ vt' \in [Players -> VTInfo]
  BY RefundSidesType DEF Teardown, TypeOK

LEMMA RestartType ==
    ASSUME NEW g \in [Players -> Nat], NEW b \in [Players -> DurableBags],
           Restart(g, b)
    PROVE  TypeOK'
<1>1. bag' \in [Players -> Bags]
  BY LoadType, SlotsAreNat DEF Bags, DurableBags, Restart
<1>2. vt' \in [Players -> VTInfo]
  BY DEF Restart, Idle, VTInfo
<1>3. index' \in [Players -> [Slots -> Nat]]
  BY DEF Restart, Identity, Slots
<1>4. /\ gold' \in [Players -> Nat] /\ durGold' \in [Players -> Nat]
      /\ durBag' \in [Players -> DurableBags] /\ db' \in [Players -> DurableBags]
  BY DEF Restart
<1>5. online' = {} /\ connected' = {} /\ stale' = {} /\ closing' = {}
  BY DEF Restart
<1>6. QED
  BY <1>1, <1>2, <1>3, <1>4, <1>5 DEF TypeOK, Bags, BagsOn, DurableBags, RowsOn

LEMMA JournalBagType ==
    ASSUME TypeOK, NEW p \in Players, NEW b \in Bags, JournalBag(p, b)
    PROVE  /\ bag' \in [Players -> Bags]
           /\ durBag' \in [Players -> DurableBags]
<1>1. \A s \in Slots : Row(b[s]) \in DurableItem \cup {Empty}
  BY RowType DEF Bags, BagsOn
<1>2. bag \in [Players -> Bags] /\ durBag \in [Players -> DurableBags]
  BY DEF TypeOK, Bags, BagsOn, DurableBags, RowsOn
<1>3. bag' \in [Players -> Bags]
  BY <1>2 DEF JournalBag
<1>4. [s \in Slots |-> IF b[s] # bag[p][s] THEN Row(b[s]) ELSE durBag[p][s]] \in DurableBags
  BY <1>1, <1>2 DEF DurableBags, RowsOn
<1>5. QED
  BY <1>2, <1>3, <1>4 DEF JournalBag

LEMMA PersistBagType ==
    ASSUME TypeOK, NEW p \in Players, NEW b \in Bags, PersistBag(p, b)
    PROVE  db' \in [Players -> DurableBags]
<1>1. \A s \in Slots : Persisted(b[s]) \in DurableItem \cup {Empty}
  BY PersistedType DEF Bags, BagsOn
<1>2. db \in [Players -> DurableBags]
  BY DEF TypeOK, DurableBags, RowsOn
<1>3. [s \in Slots |-> IF b[s] # bag[p][s] THEN Persisted(b[s]) ELSE db[p][s]] \in DurableBags
  BY <1>1, <1>2 DEF DurableBags, RowsOn
<1>4. QED
  BY <1>2, <1>3 DEF PersistBag

LEMMA ChangeBagType ==
    ASSUME TypeOK, NEW p \in Players, NEW b \in Bags, ChangeBag(p, b), UNCHANGED index
    PROVE  TypeOK'
  BY JournalBagType, PersistBagType
     DEF ChangeBag, JournalBag, TypeOK, session, Bags, BagsOn, DurableBags, RowsOn

LEMMA LosingType ==
    ASSUME NEW b \in Bags, NEW s \in Slots, NEW n \in 1 .. MaxStack, b[s] # Empty
    PROVE  [b EXCEPT ![s] = Less(@, n)] \in Bags
<1>1. b[s] \in Item
  BY DEF Bags, BagsOn
<1>2. Less(b[s], n) \in Item \cup {Empty}
  BY <1>1, LessType, BagAssumption DEF BagAssumption
<1>3. QED
  BY <1>2 DEF Bags, BagsOn

LEMMA MovedType ==
    ASSUME NEW b \in Bags, NEW src \in Slots, NEW dst \in Slots,
           src # dst, b[src] # Empty
    PROVE  Moved(b, src, dst) \in Bags
<1>1. b[src] \in Item
  BY DEF Bags, BagsOn
<1>2. CASE Pours(b, src, dst)
  <2>1. b[dst] \in Item /\ Poured(b, src, dst) \in Nat \ {0}
    BY <1>1, <1>2, BagAssumption DEF Pours, Poured, Smaller, Bags, BagsOn, Item, BagAssumption
  <2>2. Less(b[src], Poured(b, src, dst)) \in Item \cup {Empty}
    BY <1>1, <2>1, LessType
  <2>3. [b[dst] EXCEPT !.count = @ + Poured(b, src, dst)] \in Item
    BY <2>1 DEF Item
  <2>4. QED
    BY <1>2, <2>2, <2>3 DEF Moved, Bags, BagsOn
<1>3. CASE ~ Pours(b, src, dst)
  BY <1>3 DEF Moved, Bags, BagsOn
<1>4. QED
  BY <1>2, <1>3

\* Opening a window keeps every VTInfo well formed.
LEMMA LinkedType ==
    ASSUME NEW v \in [Players -> VTInfo], NEW p \in Players, NEW t \in Players
    PROVE  [v EXCEPT ![p].otherId = t, ![p].state = "ITEM",
                     ![t].otherId = p, ![t].state = "ITEM"] \in [Players -> VTInfo]
<1>1. ASSUME NEW w \in [Players -> VTInfo], NEW a \in Players, NEW b \in Players
      PROVE  [w EXCEPT ![a].otherId = b] \in [Players -> VTInfo]
  BY DEF VTInfo
<1>2. ASSUME NEW w \in [Players -> VTInfo], NEW a \in Players
      PROVE  [w EXCEPT ![a].state = "ITEM"] \in [Players -> VTInfo]
  BY DEF VTInfo
<1>3. QED
  BY <1>1, <1>2

\* So does writing one window.
LEMMA StagedType ==
    ASSUME NEW v \in VTInfo, NEW i \in Windows, NEW x \in Stake \cup {None}
    PROVE  [v EXCEPT !.items[i] = x] \in VTInfo
<1>1. [v.items EXCEPT ![i] = x] \in [Windows -> Stake \cup {None}]
  BY DEF VTInfo
<1>2. QED
  BY <1>1 DEF VTInfo

LEMMA CommitType ==
    ASSUME TypeOK, NEW p \in Players, NEW q \in Players, Commit(p, q)
    PROVE  TypeOK'
<1>1. StakesLive(p) /\ StakesLive(q)
  BY DEF Commit, CanSwap
<1>2. Swapped(p, q) \in Bags /\ Swapped(q, p) \in Bags
  BY <1>1, SwappedType
<1>3. /\ Journaled(p, q, Touched(p, q)) \in DurableBags
      /\ Journaled(q, p, Touched(q, p)) \in DurableBags
      /\ Written(p, q) \in DurableBags /\ Written(q, p) \in DurableBags
  BY <1>1, JournaledType, WrittenType
<1>4. /\ bag \in [Players -> Bags] /\ durBag \in [Players -> DurableBags]
      /\ db \in [Players -> DurableBags]
  BY DEF TypeOK, Bags, BagsOn, DurableBags, RowsOn
<1>5. /\ bag' \in [Players -> Bags] /\ durBag' \in [Players -> DurableBags]
      /\ db' \in [Players -> DurableBags]
  BY <1>2, <1>3, <1>4 DEF Commit
<1>6. gold' \in [Players -> Nat] /\ durGold' \in [Players -> Nat]
  <2>1. /\ gold \in [Players -> Nat] /\ durGold \in [Players -> Nat]
        /\ vt[p].gold \in Nat /\ vt[q].gold \in Nat
    BY DEF TypeOK, VTInfo
  <2>2. QED
    BY <2>1 DEF Commit
<1>7. vt' \in [Players -> VTInfo]
  BY DEF Commit, TypeOK, VTInfo, Idle
<1>8. QED
  BY <1>5, <1>6, <1>7 DEF Commit, TypeOK, session, Bags, BagsOn, DurableBags, RowsOn

LEMMA CrashInCommitType ==
    ASSUME TypeOK, NEW p \in Players, NEW q \in Players, NEW m, NEW n,
           CrashInCommit(p, q, m, n)
    PROVE  TypeOK'
<1> DEFINE g == [durGold EXCEPT ![p] = IF m = AllRows(p, q) THEN gold[p] + vt[q].gold ELSE @]
           b == [durBag EXCEPT ![p] = Journaled(p, q, FirstRows(p, q, m)),
                               ![q] = Journaled(q, p, FirstRows(q, p, n))]
<1>1. /\ Journaled(p, q, FirstRows(p, q, m)) \in DurableBags
      /\ Journaled(q, p, FirstRows(q, p, n)) \in DurableBags
  BY JournaledType DEF CrashInCommit, CanSwap
<1>2. b \in [Players -> DurableBags]
  BY <1>1 DEF TypeOK, DurableBags, RowsOn
<1>3. g \in [Players -> Nat]
  BY DEF TypeOK, VTInfo
<1>4. Restart(g, b)
  BY DEF CrashInCommit
<1> HIDE DEF g, b
<1>5. QED
  BY <1>2, <1>3, <1>4, RestartType

\* The characters enter well typed,
LEMMA InitTyped == Init => TypeOK
<1> SUFFICES ASSUME Init PROVE TypeOK
  OBVIOUS
<1>1. durBag \in [Players -> DurableBags]
  BY DEF Init, DurableBags, RowsOn
<1>2. bag \in [Players -> Bags]
  BY <1>1, LoadType, SlotsAreNat DEF Bags, DurableBags, Init
<1>3. vt \in [Players -> VTInfo]
  BY DEF Init, Idle, VTInfo
<1>4. index \in [Players -> [Slots -> Nat]]
  BY DEF Init, Identity, Slots
<1>5. QED
  BY <1>1, <1>2, <1>3, <1>4, TradeAssumption DEF Init, TypeOK, Bags, BagsOn, DurableBags, RowsOn

\* and every step leaves them well typed.
LEMMA StepTyped == TypeOK /\ [Next]_vars => TypeOK'
<1> SUFFICES ASSUME TypeOK, [Next]_vars PROVE TypeOK'
  OBVIOUS
<1>1. ASSUME NEW p \in Players, NEW q \in Players, Open(p, q)
      PROVE  TypeOK'
  <2>1. vt' \in [Players -> VTInfo]
    BY <1>1, LinkedType DEF Open, TypeOK
  <2>2. QED
    BY <1>1, <2>1 DEF Open, TypeOK, session, goods, durable
<1>2. ASSUME NEW p \in Players, DeadLink(p)
      PROVE  TypeOK'
  BY <1>2, ClearSidesType DEF DeadLink
<1>3. ASSUME NEW p \in Players, NEW q \in Players, NEW i \in Windows,
             NEW o \in Slots, NEW n \in 1 .. MaxStack, Put(p, q, i, o, n)
      PROVE  TypeOK'
  <2> DEFINE s == FindSlotByObjId(bag[p], o)
  <2>1. s \in Slots /\ bag[p][s] \in Item
    BY <1>3, TradeAssumption DEF Put, TypeOK, Item
  <2>2. Smaller(n, bag[p][s].count) \in Nat \ {0}
    BY <1>3, <2>1 DEF Smaller, Item
  <2> DEFINE stake == [slot |-> s, objid |-> bag[p][s].objid,
                       itemId |-> bag[p][s].itemId,
                       count |-> Smaller(n, bag[p][s].count),
                       opt |-> bag[p][s].opt]
  <2>3. stake \in Stake /\ vt' = [vt EXCEPT ![p].items[i] = stake]
    BY <1>3, <2>1, <2>2 DEF Put, Stake, Item
  <2>5. vt' \in [Players -> VTInfo]
    <3> HIDE DEF stake
    <3>1. [vt[p] EXCEPT !.items[i] = stake] \in VTInfo
      BY <2>3, StagedType DEF TypeOK
    <3>2. QED
      BY <2>3, <3>1 DEF TypeOK
  <2>4. QED
    BY <1>3, <2>5 DEF Put, TypeOK, session, goods, durable
<1>4. ASSUME NEW p \in Players, NEW q \in Players, NEW i \in Windows, Pull(p, q, i)
      PROVE  TypeOK'
  BY <1>4 DEF Pull, TypeOK, VTInfo, session, goods, durable
<1>5. ASSUME NEW p \in Players, NEW q \in Players, NEW n \in 1 .. GoldBound, PutGold(p, q, n)
      PROVE  TypeOK'
  <2> DEFINE available == gold[p] + vt[p].gold
             staked == Smaller(n, available)
  <2>1. gold[p] \in Nat /\ vt[p].gold \in Nat /\ n \in Nat
    BY <1>5, TradeAssumption DEF TypeOK, VTInfo
  <2>2. staked \in Nat /\ available - staked \in Nat
    BY <2>1 DEF Smaller
  <2>3. vt' \in [Players -> VTInfo]
    <3>1. vt' = [vt EXCEPT ![p] = [vt[p] EXCEPT !.gold = staked]]
      BY <1>5 DEF PutGold
    <3> HIDE DEF staked
    <3>2. vt[p] \in VTInfo
      BY DEF TypeOK
    <3>3. [vt[p] EXCEPT !.gold = staked] \in VTInfo
      BY <2>2, <3>2 DEF VTInfo
    <3>4. QED
      BY <3>1, <3>3 DEF TypeOK
  <2>4. gold' \in [Players -> Nat] /\ durGold' \in [Players -> Nat]
    BY <1>5, <2>2 DEF PutGold, TypeOK
  <2>5. QED
    BY <1>5, <2>3, <2>4 DEF PutGold, TypeOK, session
<1>6. ASSUME NEW p \in Players, NEW q \in Players, Ok(p, q) \/ FirstConfirm(p, q)
      PROVE  TypeOK'
  <2>1. vt' \in [Players -> VTInfo]
    <3>1. vt[p] \in VTInfo
      BY DEF TypeOK
    <3>2. ASSUME NEW st \in {"ITEM", "OK", "CONFIRM"}
          PROVE  [vt[p] EXCEPT !.state = st] \in VTInfo
      BY <3>1 DEF VTInfo
    <3>3. ASSUME NEW st \in {"ITEM", "OK", "CONFIRM"},
                 vt' = [vt EXCEPT ![p].state = st]
          PROVE  vt' \in [Players -> VTInfo]
      BY <3>2, <3>3 DEF TypeOK
    <3>4. QED
      BY <1>6, <3>3 DEF Ok, FirstConfirm
  <2>2. QED
    BY <1>6, <2>1 DEF Ok, FirstConfirm, TypeOK, session, goods, durable
<1>7. ASSUME NEW p \in Players, NEW q \in Players, Commit(p, q)
      PROVE  TypeOK'
  BY <1>7, CommitType
<1>8. ASSUME NEW p \in Players, NEW q \in Players, AbortCommit(p, q) \/ Cancel(p, q)
      PROVE  TypeOK'
  BY <1>8, ClearSidesType DEF AbortCommit, Cancel
<1>9. CASE OpenStep \/ WindowStep
  BY <1>1, <1>2, <1>3, <1>4, <1>5, <1>6, <1>7, <1>8, <1>9 DEF OpenStep, WindowStep
<1>10. ASSUME NEW p \in Players, NEW s \in Slots, NEW n \in 1 .. MaxStack, LoseItem(p, s, n)
       PROVE  TypeOK'
  <2>3. [bag[p] EXCEPT ![s] = Less(@, n)] \in Bags
    BY <1>10, LosingType DEF LoseItem, TypeOK, Bags, BagsOn
  <2>4. QED
    BY <1>10, <2>3, ChangeBagType DEF LoseItem
<1>11. ASSUME NEW p \in Players, NEW k \in ItemIds, GainItem(p, k)
       PROVE  TypeOK'
  <2>1. AddOne(bag[p], index[p], k) \in Bags
    BY AddOneType DEF TypeOK, Bags, BagsOn
  <2>2. QED
    BY <1>11, <2>1, ChangeBagType DEF GainItem
<1>12. ASSUME NEW p \in Players, NEW src \in Slots, NEW dst \in Slots, MoveItem(p, src, dst)
       PROVE  TypeOK'
  <2>1. Moved(bag[p], src, dst) \in Bags
    BY <1>12, MovedType DEF MoveItem, TypeOK, Bags, BagsOn
  <2>2. MovedIndex(bag[p], index[p], src, dst) \in [Slots -> Nat]
    <3>1. index[p] \in [Slots -> Nat]
      BY DEF TypeOK
    <3>2. QED
      BY <3>1 DEF MovedIndex
  <2>3. index' \in [Players -> [Slots -> Nat]]
    BY <1>12, <2>2 DEF MoveItem, TypeOK
  <2>4. bag' \in [Players -> Bags] /\ durBag' \in [Players -> DurableBags]
    BY <1>12, <2>1, JournalBagType DEF MoveItem
  <2>5. db' \in [Players -> DurableBags]
    <3>1. db \in [Players -> DurableBags]
      BY DEF TypeOK, DurableBags, RowsOn
    <3>2. CASE Pours(bag[p], src, dst)
      BY <1>12, <2>1, <3>2, PersistBagType DEF MoveItem
    <3>3. CASE ~ Pours(bag[p], src, dst)
      <4>1. RowsMoved(db[p], src, dst) \in DurableBags
        BY <3>1, RowsMovedType, SlotsAreNat DEF Bags, DurableBags
      <4>2. db' = [db EXCEPT ![p] = RowsMoved(db[p], src, dst)]
        BY <1>12, <3>3 DEF MoveItem
      <4>3. QED
        BY <3>1, <4>1, <4>2
    <3>4. QED
      BY <3>2, <3>3
  <2>6. QED
    BY <1>12, <2>3, <2>4, <2>5 DEF MoveItem, JournalBag, TypeOK, session, Bags, BagsOn, DurableBags, RowsOn
<1>13. ASSUME NEW p \in Players, NEW n \in 1 .. GoldBound, SpendGold(p, n) \/ AddGold(p, n)
       PROVE  TypeOK'
  <2>1. gold[p] \in Nat /\ MaxGold \in Nat /\ n \in Nat
    BY TradeAssumption DEF TypeOK
  <2>2. PICK g \in Nat : ChangeGold(p, g)
    BY <1>13, <2>1 DEF SpendGold, AddGold, Smaller
  <2>3. QED
    BY <2>2 DEF ChangeGold, TypeOK, session
<1>14. CASE InventoryStep
  BY <1>10, <1>11, <1>12, <1>13, <1>14 DEF InventoryStep
<1>15. ASSUME NEW p \in Players, SocketClosed(p) \/ StaleSocketClosed(p)
       PROVE  TypeOK'
  BY <1>15, TeardownType DEF SocketClosed, StaleSocketClosed, TypeOK
<1>16. ASSUME NEW p \in Players, Leave(p)
       PROVE  TypeOK'
  BY <1>16 DEF Leave, TypeOK, goods, durable
<1>17. ASSUME NEW p \in Players, Join(p)
       PROVE  TypeOK'
  <2>1. Load(db[p]) \in Bags
    <3>1. db[p] \in DurableBags
      BY DEF TypeOK, DurableBags, RowsOn
    <3>2. QED
      BY <3>1, LoadType, SlotsAreNat DEF Bags, DurableBags
  <2>2. bag' \in [Players -> Bags]
    BY <1>17, <2>1 DEF Join, TypeOK, Bags, BagsOn
  <2>3. vt' \in [Players -> VTInfo] /\ index' \in [Players -> [Slots -> Nat]]
    BY <1>17 DEF Join, TypeOK, Idle, VTInfo, Identity, Slots
  <2>4. QED
    BY <1>17, <2>2, <2>3 DEF Join, TypeOK, durable, Bags, BagsOn
<1>18. CASE SessionStep
  BY <1>15, <1>16, <1>17, <1>18 DEF SessionStep
<1>19. CASE CrashStep
  <2>1. ASSUME Crash PROVE TypeOK'
    BY <2>1, RestartType DEF Crash, TypeOK, DurableBags, RowsOn
  <2>2. QED
    BY <1>19, <2>1, CrashInCommitType DEF CrashStep
<1>20. CASE UNCHANGED vars
  BY <1>20 DEF vars, session, goods, durable, TypeOK
<1>21. QED
  BY <1>9, <1>14, <1>18, <1>19, <1>20 DEF Next

\* Every variable keeps its type: purses and stakes never go negative, a stake
\* always names a bag slot, a slot never holds an empty stack.
THEOREM TypeCorrect == Spec => []TypeOK
  BY InitTyped, StepTyped, PTL DEF Spec
------------------------------------------------------------------------------
(* Stakes and links.                                                        *)

LEMMA IdleStakes ==
    ASSUME NEW p, vt'[p] = Idle
    PROVE  vt'[p].gold = 0 /\ Stakes(p)' = {}
  BY DEF Idle, Stakes

\* Clearing a side leaves nothing behind, and touches no other side.
LEMMA RefundSidesVt ==
    ASSUME NEW S, RefundSides(S), NEW p \in Players
    PROVE  vt'[p] = IF p \in S THEN Idle ELSE vt[p]
  BY DEF RefundSides, Cleared

LEMMA VtOfRefund ==
    ASSUME NEW S, RefundSides(S), NEW x \in Players
    PROVE  vt'[x] = Idle \/ vt'[x] = vt[x]
  BY RefundSidesVt

LEMMA VtOfTeardown ==
    ASSUME NEW p, Teardown(p), NEW x \in Players
    PROVE  vt'[x] = Idle \/ vt'[x] = vt[x]
  BY VtOfRefund DEF Teardown

LEMMA StateOnly ==
    ASSUME NEW v \in [Players -> VTInfo], NEW p \in Players, NEW st, NEW y \in Players
    PROVE  LET w == [v EXCEPT ![p].state = st]
           IN  w[y].otherId = v[y].otherId /\ w[y].items = v[y].items /\ w[y].gold = v[y].gold
  BY DEF VTInfo

\* One window of x is emptied, or filled from a slot no other window names.
Restaged(x) ==
    \/ vt'[x].items = vt[x].items
    \/ \E i \in Windows : vt'[x].items = [vt[x].items EXCEPT ![i] = None]
    \/ \E i \in Windows : \E z : /\ z.slot \notin StakedSlots(x)
                               /\ vt'[x].items = [vt[x].items EXCEPT ![i] = z]

\* What a step does to one VTInfo: a reset, nothing, the opening of a link, or a
\* change behind a two-way link, of the stakes only while both sides stage.
LEMMA VtOfStep ==
    ASSUME TypeOK, [Next]_vars, NEW x \in Players
    PROVE  \/ vt'[x] = Idle
           \/ vt'[x] = vt[x]
           \/ /\ vt[x].otherId = None /\ vt'[x].otherId \in Players
              /\ vt'[x].items = vt[x].items
           \/ \E q \in Players :
                 /\ Linked(x, q) /\ vt'[x].otherId = q /\ vt'[q].otherId = vt[q].otherId
                 /\ \/ Staging(x) /\ Staging(q) /\ Restaged(x)
                    \/ vt'[x].items = vt[x].items /\ vt'[x].gold = vt[x].gold
<1>0. vt[x] \in VTInfo /\ DOMAIN vt = Players
  BY DEF TypeOK
<1>1. ASSUME NEW p \in Players, NEW q \in Players, Open(p, q)
      PROVE  \/ vt'[x] = vt[x]
             \/ /\ vt[x].otherId = None /\ vt'[x].otherId \in Players
                /\ vt'[x].items = vt[x].items
  BY <1>1, TradeAssumption DEF Open, TypeOK, VTInfo
<1>2. ASSUME NEW p \in Players, DeadLink(p)
      PROVE  vt'[x] = Idle \/ vt'[x] = vt[x]
  BY <1>2, VtOfRefund DEF DeadLink, ClearSides
<1>3. ASSUME NEW p \in Players, NEW q \in Players,
             \/ \E i \in Windows, o \in Slots, n \in 1 .. MaxStack : Put(p, q, i, o, n)
             \/ \E i \in Windows : Pull(p, q, i)
             \/ \E n \in 1 .. GoldBound : PutGold(p, q, n)
      PROVE  \/ vt'[x] = vt[x]
             \/ /\ Linked(x, q) /\ vt'[x].otherId = q /\ vt'[q].otherId = vt[q].otherId
                /\ Staging(x) /\ Staging(q) /\ Restaged(x)
  <2>1. Linked(p, q) /\ BothStaging(p, q)
    BY <1>3 DEF Put, Pull, PutGold
  <2>2. \A y \in Players : vt'[y].otherId = vt[y].otherId
    <3>1. \A y \in Players : DOMAIN vt = Players /\ DOMAIN vt[y] = {"otherId", "gold", "items", "state"}
      BY DEF TypeOK, VTInfo
    <3>2. CASE \E i \in Windows, o \in Slots, n \in 1 .. MaxStack : Put(p, q, i, o, n)
      <4>1. PICK i, z : vt' = [vt EXCEPT ![p].items[i] = z]
        BY <3>2 DEF Put
      <4>2. QED
        BY <3>1, <4>1
    <3>3. CASE \E i \in Windows : Pull(p, q, i)
      BY <3>1, <3>3 DEF Pull
    <3>4. CASE \E n \in 1 .. GoldBound : PutGold(p, q, n)
      BY <3>1, <3>4 DEF PutGold
    <3>5. QED
      BY <1>3, <3>2, <3>3, <3>4
  <2>3. x # p => vt'[x] = vt[x]
    BY <1>3 DEF Put, Pull, PutGold, TypeOK
  <2>4. x = p => Restaged(x)
    <3> SUFFICES ASSUME x = p PROVE Restaged(p)
      OBVIOUS
    <3>1. vt \in [Players -> VTInfo]
      BY DEF TypeOK
    <3>2. ASSUME NEW i \in Windows, NEW z, vt' = [vt EXCEPT ![p].items[i] = z]
          PROVE  vt'[p].items = [vt[p].items EXCEPT ![i] = z]
      BY <3>1, <3>2 DEF VTInfo
    <3>3. CASE \E i \in Windows, o \in Slots, n \in 1 .. MaxStack : Put(p, q, i, o, n)
      <4>1. PICK i \in Windows : \E z : /\ z.slot \notin StakedSlots(p)
                                       /\ vt' = [vt EXCEPT ![p].items[i] = z]
        BY <3>3 DEF Put
      <4>2. PICK z : z.slot \notin StakedSlots(p) /\ vt' = [vt EXCEPT ![p].items[i] = z]
        BY <4>1
      <4>3. vt'[p].items = [vt[p].items EXCEPT ![i] = z]
        BY <3>2, <4>2
      <4>4. QED
        BY <4>2, <4>3 DEF Restaged
    <3>4. CASE \E i \in Windows : Pull(p, q, i)
      <4>1. PICK i \in Windows : vt' = [vt EXCEPT ![p].items[i] = None]
        BY <3>4 DEF Pull
      <4>2. QED
        BY <3>2, <4>1 DEF Restaged
    <3>5. CASE \E n \in 1 .. GoldBound : PutGold(p, q, n)
      <4>1. PICK g : vt' = [vt EXCEPT ![p].gold = g]
        BY <3>5 DEF PutGold
      <4>2. QED
        BY <3>1, <4>1 DEF Restaged, VTInfo
    <3>6. QED
      BY <1>3, <3>3, <3>4, <3>5
  <2>5. QED
    BY <2>1, <2>2, <2>3, <2>4 DEF Linked, BothStaging
<1>4. ASSUME NEW p \in Players, NEW q \in Players, Ok(p, q) \/ FirstConfirm(p, q)
      PROVE  \/ vt'[x] = vt[x]
             \/ /\ Linked(x, q) /\ vt'[x].otherId = q /\ vt'[q].otherId = vt[q].otherId
                /\ vt'[x].items = vt[x].items /\ vt'[x].gold = vt[x].gold
  <2>1. Linked(p, q)
    BY <1>4 DEF Ok, FirstConfirm
  <2>0. PICK st : vt' = [vt EXCEPT ![p].state = st]
    BY <1>4 DEF Ok, FirstConfirm
  <2>2. \A y \in Players : vt'[y].otherId = vt[y].otherId
    BY <2>0, StateOnly DEF TypeOK
  <2>3. x # p => vt'[x] = vt[x]
    BY <1>4 DEF Ok, FirstConfirm, TypeOK
  <2>4. vt'[x].items = vt[x].items /\ vt'[x].gold = vt[x].gold
    BY <2>0, StateOnly DEF TypeOK
  <2>5. QED
    BY <2>1, <2>2, <2>3, <2>4 DEF Linked
<1>5. ASSUME NEW p \in Players, NEW q \in Players,
             Commit(p, q) \/ AbortCommit(p, q) \/ Cancel(p, q)
      PROVE  vt'[x] = Idle \/ vt'[x] = vt[x]
  <2>1. CASE Commit(p, q)
    BY <2>1 DEF Commit, TypeOK
  <2>2. CASE AbortCommit(p, q) \/ Cancel(p, q)
    BY <2>2, VtOfRefund DEF AbortCommit, Cancel, ClearSides
  <2>3. QED
    BY <1>5, <2>1, <2>2
<1>6. CASE InventoryStep
  <2>1. ASSUME NEW p \in Players,
               \/ \E s \in Slots, n \in 1 .. MaxStack : LoseItem(p, s, n)
               \/ \E k \in ItemIds : GainItem(p, k)
        PROVE  UNCHANGED vt
    BY <2>1 DEF LoseItem, GainItem, ChangeBag, JournalBag
  <2>2. ASSUME NEW p \in Players, NEW src \in Slots, NEW dst \in Slots, MoveItem(p, src, dst)
        PROVE  UNCHANGED vt
    BY <2>2 DEF MoveItem, JournalBag
  <2>3. ASSUME NEW p \in Players, NEW n \in 1 .. GoldBound, SpendGold(p, n) \/ AddGold(p, n)
        PROVE  UNCHANGED vt
    BY <2>3 DEF SpendGold, AddGold, ChangeGold
  <2>4. QED
    BY <1>6, <2>1, <2>2, <2>3 DEF InventoryStep
<1>7. CASE SessionStep
  <2>1. ASSUME NEW p \in Players, SocketClosed(p) \/ StaleSocketClosed(p)
        PROVE  vt'[x] = Idle \/ vt'[x] = vt[x]
    BY <2>1, VtOfTeardown DEF SocketClosed, StaleSocketClosed
  <2>2. ASSUME NEW p \in Players, Leave(p) \/ Join(p)
        PROVE  vt'[x] = Idle \/ vt'[x] = vt[x]
    BY <2>2 DEF Leave, Join, TypeOK
  <2>3. QED
    BY <1>7, <2>1, <2>2 DEF SessionStep
<1>8. CASE CrashStep
  <2>1. ASSUME NEW g, NEW b, Restart(g, b)
        PROVE  vt'[x] = Idle
    BY <2>1 DEF Restart
  <2>2. QED
    BY <1>8, <2>1 DEF CrashStep, Crash, CrashInCommit
<1>9. CASE UNCHANGED vars
  BY <1>9 DEF vars
<1>10. CASE OpenStep \/ WindowStep
  BY <1>1, <1>2, <1>3, <1>4, <1>5, <1>10 DEF OpenStep, WindowStep
<1>11. QED
  BY <1>6, <1>7, <1>8, <1>9, <1>10 DEF Next

\* A stake exists only inside a link: whoever clears the link still finds it.
THEOREM StakesLinked == Spec => []StakesHaveLink
<1>1. Init => StakesHaveLink
  BY DEF Init, StakesHaveLink, Idle, Stakes
<1>2. TypeOK /\ StakesHaveLink /\ [Next]_vars => StakesHaveLink'
  <2> SUFFICES ASSUME TypeOK, StakesHaveLink, [Next]_vars,
                      NEW p \in Players, vt'[p].otherId = None
               PROVE  vt'[p].gold = 0 /\ Stakes(p)' = {}
    BY DEF StakesHaveLink
  <2>1. CASE vt'[p] = Idle
    BY <2>1, IdleStakes
  <2>2. CASE vt'[p] = vt[p]
    BY <2>2 DEF StakesHaveLink, Stakes
  <2>3. QED
    BY <2>1, <2>2, VtOfStep, TradeAssumption
<1>3. QED
  BY <1>1, <1>2, TypeCorrect, PTL DEF Spec

\* The offers a player accepts by pressing OK are the offers that are swapped.
THEOREM OffersAreFinal == Spec => OffersFrozen
<1>1. TypeOK /\ [Next]_vars =>
        [\A p, q \in Players :
            /\ Linked(p, q) /\ ~ Staging(p)
            /\ vt'[p].otherId = q /\ vt'[q].otherId = p
            => \A x \in {p, q} : /\ vt'[x].items = vt[x].items
                                 /\ vt'[x].gold = vt[x].gold]_vars
  <2> SUFFICES ASSUME TypeOK, [Next]_vars, NEW p \in Players, NEW q \in Players,
                      Linked(p, q), ~ Staging(p),
                      vt'[p].otherId = q, vt'[q].otherId = p,
                      NEW x \in {p, q}
               PROVE  vt'[x].items = vt[x].items /\ vt'[x].gold = vt[x].gold
    OBVIOUS
  <2>1. PICK y \in {p, q} : vt[x].otherId = y /\ vt'[x].otherId = y /\ (Staging(x) /\ Staging(y) => FALSE)
    BY DEF Linked
  <2>2. vt'[x] # Idle
    BY <2>1, TradeAssumption DEF Idle
  <2>3. vt[x].otherId # None
    BY <2>1, TradeAssumption
  <2>4. QED
    BY <2>1, <2>2, <2>3, VtOfStep DEF Linked
<1>2. QED
  BY <1>1, TypeCorrect, PTL DEF Spec, OffersFrozen

\* The windows of one side name different slots.
StakesApart ==
    \A p \in Players : \A i, j \in Stakes(p) :
        vt[p].items[i].slot = vt[p].items[j].slot => i = j

LEMMA StepApart == TypeOK /\ StakesApart /\ [Next]_vars => StakesApart'
<1> SUFFICES ASSUME TypeOK, StakesApart, [Next]_vars, NEW p \in Players,
                    NEW i \in Stakes(p)', NEW j \in Stakes(p)',
                    vt'[p].items[i].slot = vt'[p].items[j].slot
             PROVE  i = j
  BY DEF StakesApart
<1>1. CASE vt'[p] = Idle
  BY <1>1, IdleStakes
<1>2. CASE vt'[p].items = vt[p].items
  BY <1>2 DEF StakesApart, Stakes
<1>3. ASSUME NEW w \in Windows, vt'[p].items = [vt[p].items EXCEPT ![w] = None] PROVE i = j
  <2>1. \A y \in Stakes(p)' : y \in Stakes(p) /\ vt'[p].items[y] = vt[p].items[y]
    BY <1>3 DEF Stakes, TypeOK, VTInfo
  <2>2. QED
    BY <2>1 DEF StakesApart
<1>4. ASSUME NEW w \in Windows, NEW z, z.slot \notin StakedSlots(p),
             vt'[p].items = [vt[p].items EXCEPT ![w] = z] PROVE i = j
  <2>1. \A y \in Stakes(p)' : IF y = w THEN vt'[p].items[y] = z
                              ELSE y \in Stakes(p) /\ vt'[p].items[y] = vt[p].items[y]
    BY <1>4 DEF Stakes, TypeOK, VTInfo
  <2>2. QED
    BY <1>4, <2>1 DEF StakesApart, StakedSlots
<1>5. QED
  BY <1>1, <1>2, <1>3, <1>4, VtOfStep DEF Restaged

------------------------------------------------------------------------------
(* Gold.                                                                    *)

LEMMA RefundKeepsWealth ==
    ASSUME TypeOK, NEW S, RefundSides(S)
    PROVE  \A p \in Players : KeepsWealth(p)
<1> TAKE p \in Players
<1>1. gold[p] \in Nat /\ vt[p].gold \in Nat /\ MaxGold \in Nat
  BY TradeAssumption DEF TypeOK, VTInfo
<1>2. vt'[p].gold = IF p \in S THEN 0 ELSE vt[p].gold
  BY RefundSidesVt DEF Idle
<1>3. gold'[p] = IF p \in S /\ vt[p].gold > 0
                 THEN Smaller(MaxGold, gold[p] + vt[p].gold) ELSE gold[p]
  BY DEF RefundSides, Refund
<1>4. QED
  BY <1>1, <1>2, <1>3 DEF KeepsWealth, Wealth, Smaller

LEMMA CommitExchangesWealth ==
    ASSUME TypeOK, NEW p \in Players, NEW q \in Players, Commit(p, q)
    PROVE  ExchangeWealth(p, q)
<1>1. p # q /\ SecondConfirm(p, q)
  BY DEF Commit, SecondConfirm
<1>2. \A x \in Players : gold[x] \in Nat /\ vt[x].gold \in Nat
  BY DEF TypeOK, VTInfo
<1>3. gold'[p] = gold[p] + vt[q].gold /\ gold'[q] = gold[q] + vt[p].gold
  BY <1>1 DEF Commit, TypeOK
<1>4. vt'[p].gold = 0 /\ vt'[q].gold = 0
  BY <1>1 DEF Commit, TypeOK, Idle
<1>5. \A x \in Players \ {p, q} : gold'[x] = gold[x] /\ vt'[x] = vt[x]
  BY DEF Commit, TypeOK
<1>6. QED
  BY <1>1, <1>2, <1>3, <1>4, <1>5 DEF ExchangeWealth, Wealth

\* Trading neither mints nor burns gold, whatever the two sides and their
\* sockets do.
THEOREM TradeConservesGold == Spec => GoldConserved
<1> DEFINE Moves == \/ \A p \in Players : KeepsWealth(p)
                    \/ \E p, q \in Players : ExchangeWealth(p, q)
                    \/ \E p \in Players : Join(p) \/ \E n \in 1 .. GoldBound : SpendGold(p, n) \/ AddGold(p, n)
                    \/ CrashStep
<1>1. TypeOK /\ [Next]_vars => [Moves]_vars
  <2> SUFFICES ASSUME TypeOK, Next PROVE Moves
    OBVIOUS
  <2>1. ASSUME NEW p \in Players, NEW q \in Players, Open(p, q)
        PROVE  Moves
    <3> HIDE DEF Moves
    <3>1. /\ UNCHANGED gold
          /\ vt' = [vt EXCEPT ![p].otherId = q, ![p].state = "ITEM", ![q].otherId = p, ![q].state = "ITEM"]
      BY <2>1 DEF Open, goods
    <3>2. vt \in [Players -> VTInfo]
      BY DEF TypeOK
    <3>3. \A x \in Players : vt'[x].gold = vt[x].gold
      BY <3>1, <3>2 DEF VTInfo
    <3>4. \A x \in Players : vt'[x].gold = vt[x].gold /\ gold'[x] = gold[x]
      BY <3>1, <3>3
    <3>5. \A x \in Players : KeepsWealth(x)
      BY <3>4 DEF KeepsWealth, Wealth
    <3>6. QED
      BY <3>5 DEF Moves
  <2>2. ASSUME NEW p \in Players, DeadLink(p)
        PROVE  Moves
    BY <2>2, RefundKeepsWealth DEF DeadLink, ClearSides
  <2>3. ASSUME NEW p \in Players, NEW i, NEW z, UNCHANGED gold,
               vt' = [vt EXCEPT ![p].items[i] = z]
        PROVE  Moves
    <3>1. \A x \in Players : vt'[x].gold = vt[x].gold
      BY <2>3 DEF TypeOK, VTInfo
    <3>2. QED
      BY <2>3, <3>1 DEF KeepsWealth, Wealth
  <2>4. ASSUME NEW p \in Players, NEW st, UNCHANGED gold,
               vt' = [vt EXCEPT ![p].state = st]
        PROVE  Moves
    <3>1. \A x \in Players : vt'[x].gold = vt[x].gold
      BY <2>4, StateOnly DEF TypeOK
    <3>2. QED
      BY <2>4, <3>1 DEF KeepsWealth, Wealth
  <2>5. ASSUME NEW p \in Players, NEW q \in Players, NEW n \in 1 .. GoldBound, PutGold(p, q, n)
        PROVE  Moves
    <3> DEFINE available == gold[p] + vt[p].gold
               staked == Smaller(n, available)
    <3>1. available \in Nat /\ staked \in Nat
      BY TradeAssumption DEF TypeOK, VTInfo, Smaller
    <3>2. vt'[p].gold = staked /\ gold'[p] = available - staked
      BY <2>5 DEF PutGold, TypeOK, VTInfo
    <3>3. \A x \in Players \ {p} : vt'[x].gold = vt[x].gold /\ gold'[x] = gold[x]
      BY <2>5 DEF PutGold, TypeOK, VTInfo
    <3> HIDE DEF staked
    <3>4. KeepsWealth(p)
      BY <3>1, <3>2 DEF KeepsWealth, Wealth
    <3>5. \A x \in Players \ {p} : KeepsWealth(x)
      BY <3>3 DEF KeepsWealth, Wealth
    <3>6. QED
      BY <3>4, <3>5
  <2>6. ASSUME NEW p \in Players, NEW q \in Players, Commit(p, q)
        PROVE  Moves
    BY <2>6, CommitExchangesWealth
  <2>7. ASSUME NEW p \in Players, NEW q \in Players, AbortCommit(p, q) \/ Cancel(p, q)
        PROVE  Moves
    BY <2>7, RefundKeepsWealth DEF AbortCommit, Cancel, ClearSides
  <2>8. ASSUME UNCHANGED <<gold, vt>>
        PROVE  Moves
    BY <2>8 DEF KeepsWealth, Wealth
  <2>9. CASE OpenStep
    BY <2>1, <2>9 DEF OpenStep
  <2>10. CASE WindowStep
    <3>1. PICK p \in Players : DeadLink(p) \/ \E q \in Players :
              \/ \E i \in Windows, o \in Slots, n \in 1 .. MaxStack : Put(p, q, i, o, n)
              \/ \E i \in Windows : Pull(p, q, i)
              \/ \E n \in 1 .. GoldBound : PutGold(p, q, n)
              \/ Ok(p, q)
              \/ FirstConfirm(p, q)
              \/ Commit(p, q)
              \/ AbortCommit(p, q)
              \/ Cancel(p, q)
      BY <2>10 DEF WindowStep
    <3>2. ASSUME NEW q \in Players, NEW i \in Windows,
                 Pull(p, q, i) \/ \E o \in Slots, n \in 1 .. MaxStack : Put(p, q, i, o, n)
          PROVE  Moves
      <4>1. UNCHANGED gold /\ \E z : vt' = [vt EXCEPT ![p].items[i] = z]
        BY <3>2 DEF Put, Pull, goods
      <4>2. QED
        BY <4>1, <2>3
    <3>3. ASSUME NEW q \in Players, Ok(p, q) \/ FirstConfirm(p, q)
          PROVE  Moves
      <4>1. UNCHANGED gold /\ \E st : vt' = [vt EXCEPT ![p].state = st]
        BY <3>3 DEF Ok, FirstConfirm, goods
      <4>2. QED
        BY <4>1, <2>4
    <3> HIDE DEF Moves
    <3>4. QED
      BY <3>1, <3>2, <3>3, <2>2, <2>5, <2>6, <2>7
  <2>11. CASE InventoryStep
    <3>1. ASSUME NEW p \in Players, NEW b, JournalBag(p, b)
          PROVE  Moves
      BY <3>1, <2>8 DEF JournalBag
    <3>2. QED
      BY <2>11, <3>1 DEF InventoryStep, LoseItem, GainItem, MoveItem, ChangeBag
  <2>12. CASE SessionStep
    <3>1. ASSUME NEW p \in Players, Teardown(p) PROVE Moves
      BY <3>1, RefundKeepsWealth, <2>8 DEF Teardown
    <3>2. ASSUME NEW p \in Players, Leave(p) PROVE Moves
      BY <3>2, <2>8 DEF Leave, goods
    <3>3. QED
      BY <2>12, <3>1, <3>2 DEF SessionStep, SocketClosed, StaleSocketClosed
  <2>13. QED
    BY <2>9, <2>10, <2>11, <2>12 DEF Next
<1>2. QED
  BY <1>1, TypeCorrect, PTL DEF Spec, GoldConserved
------------------------------------------------------------------------------
(* The journal.                                                             *)

LEMMA RefundJournaled ==
    ASSUME TypeOK, JournalCurrent, NEW S, RefundSides(S), UNCHANGED <<bag, db, durBag>>
    PROVE  JournalCurrent'
  BY DEF RefundSides, JournalCurrent

LEMMA RestartJournaled ==
    ASSUME NEW g, NEW b \in [Players -> DurableBags], Restart(g, b)
    PROVE  JournalCurrent'
<1>1. \A p \in Players, s \in Slots : Row(Load(b[p])[s]) = Row(b[p][s])
  BY RowOfLoad, SlotsAreNat DEF Bags, DurableBags
<1>2. gold' = durGold' /\ durBag' = b /\ db' = b /\ bag' = [p \in Players |-> Load(b[p])]
  BY DEF Restart
<1>3. QED
  BY <1>1, <1>2 DEF JournalCurrent

\* A change of p's bag is journaled and, by persist() or moveItem, saved.
LEMMA JournalBagJournaled ==
    ASSUME TypeOK, JournalCurrent, NEW p \in Players, NEW b, JournalBag(p, b),
           db' \in [Players -> DurableBags],
           \A x \in Players \ {p} : db'[x] = db[x],
           \A s \in Slots : Row(db'[p][s]) = Row(b[s])
    PROVE  JournalCurrent'
<1>1. ASSUME NEW s \in Slots
      PROVE  Row(durBag'[p][s]) = Row(bag'[p][s])
  <2>1. bag'[p] = b /\ durBag'[p][s] = IF b[s] # bag[p][s] THEN Row(b[s]) ELSE durBag[p][s]
    BY DEF JournalBag, TypeOK
  <2>2. QED
    BY <2>1, RowIdempotent DEF JournalCurrent
<1>2. \A x \in Players \ {p} : bag'[x] = bag[x] /\ durBag'[x] = durBag[x]
  BY DEF JournalBag, TypeOK
<1>3. bag'[p] = b
  BY DEF JournalBag, TypeOK
<1>4. QED
  BY <1>1, <1>2, <1>3 DEF JournalCurrent, JournalBag

LEMMA PersistBagSaved ==
    ASSUME TypeOK, JournalCurrent, NEW p \in Players, NEW b \in Bags, PersistBag(p, b)
    PROVE  /\ \A x \in Players \ {p} : db'[x] = db[x]
           /\ \A s \in Slots : Row(db'[p][s]) = Row(b[s])
<1>1. \A s \in Slots : Row(Persisted(b[s])) = Row(b[s])
  BY PersistedType DEF Bags, BagsOn
<1>2. \A s \in Slots : db'[p][s] = IF b[s] # bag[p][s] THEN Persisted(b[s]) ELSE db[p][s]
  BY DEF PersistBag, TypeOK
<1>3. \A x \in Players \ {p} : db'[x] = db[x]
  BY DEF PersistBag, TypeOK
<1>4. QED
  BY <1>1, <1>2, <1>3 DEF JournalCurrent

LEMMA ChangeBagJournaled ==
    ASSUME TypeOK, JournalCurrent, NEW p \in Players, NEW b \in Bags, ChangeBag(p, b)
    PROVE  JournalCurrent'
  BY PersistBagSaved, PersistBagType, JournalBagJournaled DEF ChangeBag

LEMMA MoveItemJournaled ==
    ASSUME TypeOK, JournalCurrent, NEW p \in Players, NEW src \in Slots, NEW dst \in Slots,
           MoveItem(p, src, dst)
    PROVE  JournalCurrent'
<1> DEFINE b == Moved(bag[p], src, dst)
<1>1. b \in Bags /\ bag[p] \in Bags /\ bag[p][src] # Empty /\ src # dst
  BY MovedType DEF MoveItem, TypeOK, Bags, BagsOn
<1>2. JournalBag(p, b)
  BY DEF MoveItem
<1>3. CASE Pours(bag[p], src, dst)
  BY <1>1, <1>2, <1>3, PersistBagSaved, PersistBagType, JournalBagJournaled DEF MoveItem
<1>4. CASE ~ Pours(bag[p], src, dst)
  <2>1. db \in [Players -> DurableBags] /\ db[p] \in DurableBags
    BY DEF TypeOK, DurableBags, RowsOn
  <2>2. db' = [db EXCEPT ![p] = RowsMoved(db[p], src, dst)]
    BY <1>4 DEF MoveItem
  <2>3. RowsMoved(db[p], src, dst) \in DurableBags
    BY <2>1, RowsMovedType, SlotsAreNat DEF Bags, DurableBags
  <2>4. db[p][src] # Empty
    <3>1. Row(db[p][src]) = Row(bag[p][src]) /\ Row(bag[p][src]) # Empty
      BY <1>1, RowOfItem DEF JournalCurrent, Bags, BagsOn
    <3>2. QED
      BY <3>1 DEF Row
  <2>5. ASSUME NEW s \in Slots
        PROVE  Row(db'[p][s]) = Row(b[s])
    <3>1. b = [bag[p] EXCEPT ![src] = bag[p][dst], ![dst] = bag[p][src]]
      BY <1>4 DEF Moved
    <3>2. Row(db'[p][s]) = Row([db[p] EXCEPT ![src] = db[p][dst], ![dst] = db[p][src]][s])
      BY <1>1, <2>1, <2>2, <2>4, RowOfRowsMoved, SlotsAreNat DEF Bags, DurableBags
    <3>3. \A t \in Slots : Row(db[p][t]) = Row(bag[p][t])
      BY DEF JournalCurrent
    <3>4. QED
      BY <1>1, <2>1, <3>1, <3>2, <3>3 DEF Bags, BagsOn, DurableBags, RowsOn
  <2>6. db' \in [Players -> DurableBags] /\ \A x \in Players \ {p} : db'[x] = db[x]
    BY <2>1, <2>2, <2>3
  <2>7. QED
    BY <1>2, <2>5, <2>6, JournalBagJournaled
<1>5. QED
  BY <1>3, <1>4

LEMMA JournaledRow ==
    ASSUME JournalCurrent, NEW p \in Players, NEW q \in Players, NEW s \in Slots
    PROVE  Row(Journaled(p, q, Touched(p, q))[s]) = Row(Swapped(p, q)[s])
<1>1. CASE s \in Touched(p, q)
  BY <1>1, RowIdempotent DEF Journaled
<1>2. CASE s \notin Touched(p, q)
  <2>1. Swapped(p, q)[s] = bag[p][s]
    BY <1>2 DEF Swapped, Kept, Touched
  <2>2. QED
    BY <1>2, <2>1 DEF Journaled, JournalCurrent
<1>3. QED
  BY <1>1, <1>2

LEMMA WrittenRow ==
    ASSUME TypeOK, JournalCurrent, NEW p \in Players, NEW q \in Players, NEW s \in Slots,
           StakesLive(p), StakesLive(q)
    PROVE  Row(Written(p, q)[s]) = Row(Swapped(p, q)[s])
<1>1. CASE s \in Touched(p, q)
  BY <1>1, SwappedType, StoredType DEF Written, Bags, BagsOn
<1>2. CASE s \notin Touched(p, q)
  <2>1. Swapped(p, q)[s] = bag[p][s]
    BY <1>2 DEF Swapped, Kept, Touched
  <2>2. QED
    BY <1>2, <2>1 DEF Written, JournalCurrent
<1>3. QED
  BY <1>1, <1>2

LEMMA CommitJournaled ==
    ASSUME TypeOK, JournalCurrent, NEW p \in Players, NEW q \in Players, Commit(p, q)
    PROVE  JournalCurrent'
<1>1. p # q
  BY DEF Commit, SecondConfirm
<1>2. /\ bag'[p] = Swapped(p, q) /\ bag'[q] = Swapped(q, p)
      /\ durBag'[p] = Journaled(p, q, Touched(p, q))
      /\ durBag'[q] = Journaled(q, p, Touched(q, p))
      /\ db'[p] = Written(p, q) /\ db'[q] = Written(q, p)
  BY <1>1 DEF Commit, TypeOK
<1>3. gold'[p] = durGold'[p] /\ gold'[q] = durGold'[q]
  BY <1>1 DEF Commit, TypeOK
<1>4. \A x \in Players \ {p, q} : /\ bag'[x] = bag[x] /\ durBag'[x] = durBag[x]
                                 /\ db'[x] = db[x]
                                 /\ gold'[x] = gold[x] /\ durGold'[x] = durGold[x]
  BY DEF Commit, TypeOK
<1>5. StakesLive(p) /\ StakesLive(q)
  BY DEF Commit, CanSwap
<1>6. QED
  BY <1>2, <1>3, <1>4, <1>5, JournaledRow, WrittenRow DEF JournalCurrent

\* The journal and the rows start as what is carried,
LEMMA InitJournaled == Init => JournalCurrent
<1> SUFFICES ASSUME Init PROVE JournalCurrent
  OBVIOUS
<1>1. durBag \in [Players -> DurableBags]
  BY DEF Init, DurableBags, RowsOn
<1>2. \A p \in Players, s \in Slots : Row(Load(durBag[p])[s]) = Row(durBag[p][s])
  BY <1>1, RowOfLoad, SlotsAreNat DEF Bags, DurableBags
<1>3. QED
  BY <1>2 DEF Init, JournalCurrent

\* and every step keeps them so.
LEMMA StepJournaled == TypeOK /\ JournalCurrent /\ [Next]_vars => JournalCurrent'
<1> SUFFICES ASSUME TypeOK, JournalCurrent, [Next]_vars PROVE JournalCurrent'
  OBVIOUS
<1>1. ASSUME UNCHANGED <<gold, bag, db, durGold, durBag>> PROVE JournalCurrent'
  BY <1>1 DEF JournalCurrent
<1>2. ASSUME NEW p \in Players, NEW g, ChangeGold(p, g) PROVE JournalCurrent'
  BY <1>2 DEF ChangeGold, JournalCurrent, TypeOK
<1>3. ASSUME NEW S, ClearSides(S) PROVE JournalCurrent'
  BY <1>3, RefundJournaled DEF ClearSides
<1>4. ASSUME NEW p \in Players, NEW q \in Players, NEW n, PutGold(p, q, n)
      PROVE  JournalCurrent'
  BY <1>4 DEF PutGold, JournalCurrent, TypeOK
<1>5. CASE OpenStep
  BY <1>1, <1>5 DEF OpenStep, Open, goods, durable
<1>6. CASE WindowStep
  <2>1. ASSUME NEW p \in Players, NEW q \in Players,
               \/ \E i \in Windows, o \in Slots, n \in 1 .. MaxStack : Put(p, q, i, o, n)
               \/ \E i \in Windows : Pull(p, q, i)
               \/ Ok(p, q)
               \/ FirstConfirm(p, q)
        PROVE  JournalCurrent'
    BY <2>1, <1>1 DEF Put, Pull, Ok, FirstConfirm, goods, durable
  <2>2. ASSUME NEW p \in Players,
               DeadLink(p) \/ \E q \in Players : AbortCommit(p, q) \/ Cancel(p, q)
        PROVE  JournalCurrent'
    BY <2>2, <1>3 DEF DeadLink, AbortCommit, Cancel
  <2>3. QED
    BY <1>6, <1>4, <2>1, <2>2, CommitJournaled DEF WindowStep
<1>7. CASE InventoryStep
  <2>1. ASSUME NEW p \in Players, NEW n, SpendGold(p, n) \/ AddGold(p, n)
        PROVE  JournalCurrent'
    BY <2>1, <1>2 DEF SpendGold, AddGold
  <2>2. ASSUME NEW p \in Players, NEW s \in Slots, NEW n \in 1 .. MaxStack, LoseItem(p, s, n)
        PROVE  JournalCurrent'
    <3>1. [bag[p] EXCEPT ![s] = Less(@, n)] \in Bags
      BY <2>2, LosingType DEF LoseItem, TypeOK, Bags, BagsOn
    <3>2. QED
      BY <2>2, <3>1, ChangeBagJournaled DEF LoseItem
  <2>3. ASSUME NEW p \in Players, NEW k \in ItemIds, GainItem(p, k)
        PROVE  JournalCurrent'
    <3>1. AddOne(bag[p], index[p], k) \in Bags
      BY AddOneType DEF TypeOK, Bags, BagsOn
    <3>2. QED
      BY <2>3, <3>1, ChangeBagJournaled DEF GainItem
  <2>4. QED
    BY <1>7, <2>1, <2>2, <2>3, MoveItemJournaled DEF InventoryStep
<1>8. CASE SessionStep
  <2>1. ASSUME NEW p \in Players, SocketClosed(p) \/ StaleSocketClosed(p)
        PROVE  JournalCurrent'
    BY <2>1, <1>1, RefundJournaled DEF SocketClosed, StaleSocketClosed, Teardown
  <2>2. ASSUME NEW p \in Players, Leave(p) PROVE JournalCurrent'
    BY <2>2, <1>1 DEF Leave, goods, durable
  <2>3. ASSUME NEW p \in Players, Join(p) PROVE JournalCurrent'
    <3>1. db[p] \in DurableBags
      BY DEF TypeOK, DurableBags, RowsOn
    <3>2. \A s \in Slots : Row(bag'[p][s]) = Row(bag[p][s])
      BY <2>3, <3>1, RowOfLoad, SlotsAreNat DEF Bags, DurableBags, Join, TypeOK, JournalCurrent
    <3>3. \A x \in Players \ {p} : bag'[x] = bag[x]
      BY <2>3 DEF Join, TypeOK
    <3>4. gold' = gold /\ durGold' = durGold /\ durBag' = durBag /\ db' = db
      BY <2>3 DEF Join, durable
    <3>5. QED
      BY <3>2, <3>3, <3>4 DEF JournalCurrent
  <2>4. QED
    BY <1>8, <2>1, <2>2, <2>3 DEF SessionStep
<1>9. CASE CrashStep
  <2>1. ASSUME Crash PROVE JournalCurrent'
    BY <2>1, RestartJournaled DEF Crash, TypeOK, DurableBags, RowsOn
  <2>2. ASSUME NEW p \in Players, NEW q \in Players, NEW m, NEW n, CrashInCommit(p, q, m, n)
        PROVE  JournalCurrent'
    <3>1. /\ Journaled(p, q, FirstRows(p, q, m)) \in DurableBags
          /\ Journaled(q, p, FirstRows(q, p, n)) \in DurableBags
      BY <2>2, JournaledType DEF CrashInCommit, CanSwap
    <3>2. PICK g : Restart(g, [durBag EXCEPT ![p] = Journaled(p, q, FirstRows(p, q, m)),
                                             ![q] = Journaled(q, p, FirstRows(q, p, n))])
      BY <2>2 DEF CrashInCommit
    <3>3. QED
      BY <3>1, <3>2, RestartJournaled DEF TypeOK, DurableBags, RowsOn
  <2>3. QED
    BY <1>9, <2>1, <2>2 DEF CrashStep
<1>10. CASE UNCHANGED vars
  BY <1>10, <1>1 DEF vars, goods, durable
<1>11. QED
  BY <1>5, <1>6, <1>7, <1>8, <1>9, <1>10 DEF Next

\* Between two handlers, what boot recovery would restore of every character is
\* the purse and the item ids and counts it carries.
THEOREM JournalIsCurrent == Spec => []JournalCurrent
  BY InitJournaled, StepJournaled, TypeCorrect, PTL DEF Spec
------------------------------------------------------------------------------
(* Units of an item in all bags.                                            *)

LEMMA UnitsOfIs ==
    ASSUME NEW b \in [Players -> Bags], NEW k
    PROVE  /\ UnitsOf(b, k) = SumFunctionOnSet([p \in Players |-> Held(b[p], k)], Players)
           /\ \A p \in Players : Held(b[p], k) \in Nat
  BY HeldType DEF UnitsOf, Held, SumFunction

\* Bags of which at most one has changed.
LEMMA UnitsAfter ==
    ASSUME NEW b \in [Players -> Bags], NEW d \in [Players -> Bags], NEW p \in Players,
           \A x \in Players \ {p} : b[x] = d[x], NEW k
    PROVE  /\ UnitsOf(b, k) \in Int
           /\ UnitsOf(d, k) = UnitsOf(b, k) + Held(d[p], k) - Held(b[p], k)
<1> DEFINE f == [x \in Players |-> Held(b[x], k)]
           h == [x \in Players |-> Held(d[x], k)]
<1>1. /\ UnitsOf(b, k) = SumFunctionOnSet(f, Players)
      /\ UnitsOf(d, k) = SumFunctionOnSet(h, Players)
  BY UnitsOfIs
<1>2. \A x \in Players : f[x] \in Int /\ h[x] \in Int
  <2>1. \A x \in Players : Held(b[x], k) \in Nat /\ Held(d[x], k) \in Nat
    BY UnitsOfIs
  <2>2. QED
    BY <2>1
<1>3. /\ \A x \in Players \ {p} : f[x] = h[x]
      /\ f[p] = Held(b[p], k) /\ h[p] = Held(d[p], k)
  OBVIOUS
<1> HIDE DEF f, h
<1>4. IsFiniteSet(Players)
  BY TradeAssumption
<1>5. SumFunctionOnSet(h, Players) - SumFunctionOnSet(f, Players) = h[p] - f[p]
  BY <1>2, <1>3, <1>4, SumChanged
<1>6. SumFunctionOnSet(f, Players) \in Int /\ SumFunctionOnSet(h, Players) \in Int
  BY <1>2, <1>4, SumUnfolds
<1>7. f[p] \in Int /\ h[p] \in Int
  BY <1>2
<1>8. QED
  BY <1>1, <1>3, <1>5, <1>6, <1>7

------------------------------------------------------------------------------
(* What a swap gives and takes.                                             *)

\* The units of k in instance state o that an item is, and a bag holds.
Tally(x, k, o) == IF x # Empty /\ x.opt = o THEN CountOf(x, k) ELSE 0
Tallied(b, k, o) == SumFunctionOnSet([s \in Slots |-> Tally(b[s], k, o)], Slots)

LEMMA TallyType ==
    ASSUME NEW x \in Item \cup {Empty}, NEW k, NEW o
    PROVE  Tally(x, k, o) \in Nat
  BY CountType DEF Tally

LEMMA TalliedType ==
    ASSUME NEW b \in Bags, NEW k, NEW o
    PROVE  Tallied(b, k, o) \in Nat
<1> DEFINE f == [s \in Slots |-> Tally(b[s], k, o)]
<1>1. \A s \in Slots : f[s] \in Nat
  <2>1. \A s \in Slots : b[s] \in Item \cup {Empty}
    BY DEF Bags, BagsOn
  <2>2. QED
    BY <2>1, TallyType
<1> HIDE DEF f
<1>2. SumFunctionOnSet(f, Slots) \in Nat
  BY <1>1, SlotsFinite, SumNat
<1>3. QED
  BY <1>2 DEF f, Tallied

\* What window i of p takes out of p's bag.
Given(p, i, k, o) ==
    IF /\ bag[p][vt[p].items[i].slot].itemId = k
       /\ bag[p][vt[p].items[i].slot].opt = o
    THEN vt[p].items[i].count ELSE 0
AllGiven(p, k, o) == SumFunctionOnSet([i \in Stakes(p) |-> Given(p, i, k, o)], Stakes(p))

LEMMA StakesFinite == ASSUME NEW p PROVE IsFiniteSet(Stakes(p))
<1>1. IsFiniteSet(Windows)
  BY FS_Interval, TradeAssumption DEF Windows
<1>2. Stakes(p) \in SUBSET Windows
  BY DEF Stakes
<1>3. QED
  BY <1>1, <1>2, FS_Subset

LEMMA GivenType ==
    ASSUME TypeOK, NEW p \in Players, NEW k, NEW o
    PROVE  /\ \A i \in Stakes(p) : Given(p, i, k, o) \in Nat
           /\ AllGiven(p, k, o) \in Nat
<1> DEFINE f == [i \in Stakes(p) |-> Given(p, i, k, o)]
<1>1. \A i \in Stakes(p) : Given(p, i, k, o) \in Nat
  BY StakeOf DEF Given, Stake
<1>2. \A i \in Stakes(p) : f[i] \in Nat
  BY <1>1
<1> HIDE DEF f
<1>3. SumFunctionOnSet(f, Stakes(p)) \in Nat
  BY <1>2, StakesFinite, SumNat
<1>4. QED
  BY <1>1, <1>3 DEF f, AllGiven

\* The window that names a slot.
Naming(p, s) == CHOOSE i \in Stakes(p) : vt[p].items[i].slot = s

\* What a bag keeps is what it had without what its windows give.
LEMMA KeptTally ==
    ASSUME TypeOK, StakesApart, NEW p \in Players, StakesLive(p), NEW k, NEW o
    PROVE  Tallied(bag[p], k, o) = Tallied(Kept(p), k, o) + AllGiven(p, k, o)
<1> DEFINE had == [s \in Slots |-> Tally(bag[p][s], k, o)]
           kept == [s \in Slots |-> Tally(Kept(p)[s], k, o)]
           from == [s \in StakedSlots(p) |-> Given(p, Naming(p, s), k, o)]
           out == [s \in Slots |-> IF s \in StakedSlots(p) THEN from[s] ELSE 0]
           gives == [i \in Stakes(p) |-> Given(p, i, k, o)]
           slot == [i \in Stakes(p) |-> vt[p].items[i].slot]
<1>1. bag[p] \in Bags /\ Kept(p) \in Bags
  BY KeptType DEF TypeOK, Bags, BagsOn
<1>2. StakedSlots(p) \in SUBSET Slots
  BY StakeOf DEF StakedSlots, Stake
<1>3. ASSUME NEW s \in StakedSlots(p)
      PROVE  /\ Naming(p, s) \in Stakes(p) /\ vt[p].items[Naming(p, s)].slot = s
             /\ vt[p].items[Naming(p, s)] = StakeAt(p, s)
  <2>1. \E i \in Stakes(p) : vt[p].items[i].slot = s
    BY DEF StakedSlots
  <2>2. QED
    BY <2>1 DEF Naming, StakeAt
<1>4. ASSUME NEW s \in StakedSlots(p)
      PROVE  /\ from[s] \in Nat
             /\ Tally(bag[p][s], k, o) = Tally(Kept(p)[s], k, o) + from[s]
  <2> DEFINE i == Naming(p, s)
             x == bag[p][s]
             n == vt[p].items[i].count
             l == Less(x, n)
  <2>1. i \in Stakes(p) /\ vt[p].items[i].slot = s /\ vt[p].items[i] = StakeAt(p, s)
    BY <1>3
  <2>2. x \in Item /\ x.count >= n
    BY <2>1, StakedLive DEF StakesLive
  <2>3. n \in Nat \ {0} /\ x.count \in Nat
    BY <2>1, <2>2, StakeOf DEF Stake, Item
  <2>4. Kept(p)[s] = l
    BY <1>2, <2>1 DEF Kept
  <2>5. from[s] = IF x.itemId = k /\ x.opt = o THEN n ELSE 0
    BY <2>1 DEF Given
  <2> HIDE DEF i, x, n, l, from
  <2>6. CountOf(l, k) = CountOf(x, k) - (IF x.itemId = k THEN n ELSE 0)
    BY <2>2, <2>3, LessCount DEF l
  <2>7. l = Empty \/ l.opt = x.opt
    BY <2>2 DEF l, Less, Item
  <2>8. x # Empty /\ CountOf(x, k) \in Nat /\ CountOf(Empty, k) = 0
    BY <2>2, EmptyAssumption, CountType DEF CountOf
  <2>9. Tally(x, k, o) = Tally(l, k, o) + from[s]
    <3>1. CASE x.opt = o
      <4>1. Tally(l, k, o) = CountOf(l, k) /\ Tally(x, k, o) = CountOf(x, k)
        BY <2>7, <2>8, <3>1 DEF Tally
      <4>2. QED
        BY <2>3, <2>5, <2>6, <2>8, <3>1, <4>1
    <3>2. CASE x.opt # o
      <4>1. Tally(l, k, o) = 0 /\ Tally(x, k, o) = 0
        BY <2>7, <3>2 DEF Tally
      <4>2. QED
        BY <2>5, <3>2, <4>1
    <3>3. QED
      BY <3>1, <3>2
  <2>10. from[s] \in Nat
    BY <2>3, <2>5
  <2>11. QED
    BY <2>4, <2>9, <2>10 DEF x
<1>5. \A s \in Slots : /\ kept[s] \in Int /\ out[s] \in Int
                       /\ had[s] = kept[s] + out[s]
  <2> TAKE s \in Slots
  <2>1. Tally(bag[p][s], k, o) \in Nat /\ Tally(Kept(p)[s], k, o) \in Nat
    <3>1. bag[p][s] \in Item \cup {Empty} /\ Kept(p)[s] \in Item \cup {Empty}
      BY <1>1 DEF Bags, BagsOn
    <3>2. QED
      BY <3>1, TallyType
  <2>2. CASE s \in StakedSlots(p)
    <3> HIDE DEF from
    <3>1. from[s] \in Nat /\ Tally(bag[p][s], k, o) = Tally(Kept(p)[s], k, o) + from[s]
      BY <1>4, <2>2 DEF from
    <3>2. QED
      BY <2>1, <2>2, <3>1
  <2>3. CASE s \notin StakedSlots(p)
    <3>1. Kept(p)[s] = bag[p][s]
      BY <2>3 DEF Kept
    <3>2. QED
      BY <2>1, <2>3, <3>1
  <2>4. QED
    BY <2>2, <2>3
<1>6. /\ \A s \in Slots : out[s] \in Int
      /\ \A s \in StakedSlots(p) : out[s] = from[s]
      /\ \A s \in Slots \ StakedSlots(p) : out[s] = 0
  BY <1>2, <1>5
<1>7. /\ slot \in [Stakes(p) -> StakedSlots(p)]
      /\ \A i, j \in Stakes(p) : slot[i] = slot[j] => i = j
      /\ \A s \in StakedSlots(p) : \E i \in Stakes(p) : slot[i] = s
  BY DEF StakedSlots, StakesApart
<1>8. \A i \in Stakes(p) : gives[i] \in Int /\ gives[i] = from[slot[i]]
  <2> TAKE i \in Stakes(p)
  <2>1. vt[p].items[i].slot \in StakedSlots(p)
    BY DEF StakedSlots
  <2>2. Naming(p, vt[p].items[i].slot) = i
    BY <1>3, <2>1 DEF StakesApart
  <2>3. Given(p, i, k, o) \in Nat
    BY GivenType
  <2>4. QED
    BY <2>1, <2>2, <2>3
<1>9. /\ Tallied(bag[p], k, o) = SumFunctionOnSet(had, Slots)
      /\ Tallied(Kept(p), k, o) = SumFunctionOnSet(kept, Slots)
      /\ AllGiven(p, k, o) = SumFunctionOnSet(gives, Stakes(p))
  BY DEF Tallied, AllGiven
<1> HIDE DEF had, kept, from, out, gives, slot
<1>10. SumFunctionOnSet(had, Slots) = SumFunctionOnSet(kept, Slots) + SumFunctionOnSet(out, Slots)
  BY <1>5, SlotsFinite, SumPlus
<1>11. SumFunctionOnSet(out, Slots) = SumFunctionOnSet(from, StakedSlots(p))
  BY <1>2, <1>6, SlotsFinite, SumOver
<1>12. SumFunctionOnSet(gives, Stakes(p)) = SumFunctionOnSet(from, StakedSlots(p))
  BY <1>7, <1>8, StakesFinite, SumThrough
<1>13. QED
  BY <1>9, <1>10, <1>11, <1>12

\* Slots and windows are ranked from 0 without a gap.
LEMMA RankFacts ==
    ASSUME NEW S \in SUBSET Nat, IsFiniteSet(S)
    PROVE  /\ Cardinality(S) \in Nat
           /\ \A x \in S : Rank(S, x) \in 0 .. (Cardinality(S) - 1)
           /\ \A x, y \in S : Rank(S, x) = Rank(S, y) => x = y
           /\ \A n \in 0 .. (Cardinality(S) - 1) : \E x \in S : Rank(S, x) = n
<1> DEFINE lt == {x \in Nat \X Nat : x[1] < x[2]}
<1>1. \A x \in S : Rank(S, x) = Cardinality(Below(lt, S, x))
  <2>1. ASSUME NEW x \in S PROVE {y \in S : y < x} = Below(lt, S, x)
    BY DEF Below
  <2>2. QED
    BY <2>1 DEF Rank
<1>2. Orders(lt, S)
  BY DEF Orders
<1>3. \A x, y \in S : x # y => <<x, y>> \in lt \/ <<y, x>> \in lt
  OBVIOUS
<1> HIDE DEF lt
<1>4. /\ Cardinality(S) \in Nat
      /\ \A x \in S : Cardinality(Below(lt, S, x)) \in 0 .. (Cardinality(S) - 1)
      /\ \A x, y \in S : <<x, y>> \in lt
           => Cardinality(Below(lt, S, x)) < Cardinality(Below(lt, S, y))
      /\ \A n \in 0 .. (Cardinality(S) - 1) : \E x \in S : Cardinality(Below(lt, S, x)) = n
  BY <1>2, Ranked
<1>5. ASSUME NEW x \in S, NEW y \in S, Rank(S, x) = Rank(S, y) PROVE x = y
  <2>1. Rank(S, x) \in Int /\ Rank(S, y) \in Int
    BY <1>1, <1>4
  <2>2. <<x, y>> \notin lt /\ <<y, x>> \notin lt
    BY <1>1, <1>4, <1>5, <2>1
  <2>3. QED
    BY <1>3, <2>2
<1>6. QED
  BY <1>1, <1>4, <1>5

\* The window whose stake goes to slot s.
Placing(p, q, s) == CHOOSE i \in Stakes(q) : Matches(p, q, s, i)

\* The slots that are filled and the partner's windows correspond one to one.
LEMMA PlacedOneToOne ==
    ASSUME NEW p \in Players, NEW q \in Players, Fits(p, q)
    PROVE  /\ Filled(p, q) \in SUBSET Slots
           /\ \A s \in Filled(p, q) : Placing(p, q, s) \in Stakes(q)
           /\ \A s, z \in Filled(p, q) : Placing(p, q, s) = Placing(p, q, z) => s = z
           /\ \A i \in Stakes(q) : \E s \in Filled(p, q) : Placing(p, q, s) = i
<1>1. Free(p) \in SUBSET Slots /\ Filled(p, q) \in SUBSET Free(p)
  BY DEF Free, Filled, EmptySlots
<1>2. Free(p) \in SUBSET Nat /\ IsFiniteSet(Free(p))
  BY <1>1, SlotsAreNat, SlotsFinite, FS_Subset
<1>3. Stakes(q) \in SUBSET Nat /\ IsFiniteSet(Stakes(q))
  BY StakesFinite DEF Stakes, Windows
<1>4. \A s \in Filled(p, q) : Placing(p, q, s) \in Stakes(q)
                              /\ Rank(Stakes(q), Placing(p, q, s)) = Rank(Free(p), s)
  BY DEF Filled, Placing, Matches
<1>5. \A s, z \in Filled(p, q) : Placing(p, q, s) = Placing(p, q, z) => s = z
  <2>1. \A s, z \in Free(p) : Rank(Free(p), s) = Rank(Free(p), z) => s = z
    BY <1>2, RankFacts
  <2>2. QED
    BY <1>1, <1>4, <2>1
<1>6. ASSUME NEW i \in Stakes(q) PROVE \E s \in Filled(p, q) : Placing(p, q, s) = i
  <2>1. /\ Cardinality(Stakes(q)) \in Nat
        /\ Rank(Stakes(q), i) \in 0 .. (Cardinality(Stakes(q)) - 1)
    BY <1>3, RankFacts
  <2>2. Cardinality(Free(p)) \in Nat
    BY <1>2, FS_CardinalityType
  <2>3. Rank(Stakes(q), i) \in 0 .. (Cardinality(Free(p)) - 1)
    BY <2>1, <2>2 DEF Fits
  <2>4. PICK s \in Free(p) : Rank(Free(p), s) = Rank(Stakes(q), i)
    BY <1>2, <2>3, RankFacts
  <2>5. s \in Filled(p, q)
    BY <2>4 DEF Filled, Matches
  <2>6. Rank(Stakes(q), Placing(p, q, s)) = Rank(Stakes(q), i)
    BY <1>4, <2>4, <2>5
  <2>7. Placing(p, q, s) = i
    BY <1>3, <1>4, <2>5, <2>6, RankFacts
  <2>8. QED
    BY <2>5, <2>7
<1>7. QED
  BY <1>1, <1>4, <1>5, <1>6

\* What a bag ends with is what it keeps and what the partner's windows give.
LEMMA SwappedTally ==
    ASSUME TypeOK, NEW p \in Players, NEW q \in Players, StakesLive(p), StakesLive(q),
           Fits(p, q), NEW k, NEW o
    PROVE  Tallied(Swapped(p, q), k, o) = Tallied(Kept(p), k, o) + AllGiven(q, k, o)
<1> DEFINE has == [s \in Slots |-> Tally(Swapped(p, q)[s], k, o)]
           kept == [s \in Slots |-> Tally(Kept(p)[s], k, o)]
           got == [s \in Filled(p, q) |-> Tally(Incoming(p, q, s), k, o)]
           in == [s \in Slots |-> IF s \in Filled(p, q) THEN got[s] ELSE 0]
           gives == [i \in Stakes(q) |-> Given(q, i, k, o)]
           from == [s \in Filled(p, q) |-> Placing(p, q, s)]
<1>1. Kept(p) \in Bags /\ Swapped(p, q) \in Bags
  BY KeptType, SwappedType
<1>2. /\ Filled(p, q) \in SUBSET Slots
      /\ \A s \in Filled(p, q) : Placing(p, q, s) \in Stakes(q)
      /\ \A s, z \in Filled(p, q) : Placing(p, q, s) = Placing(p, q, z) => s = z
      /\ \A i \in Stakes(q) : \E s \in Filled(p, q) : Placing(p, q, s) = i
  BY PlacedOneToOne
<1>3. ASSUME NEW s \in Filled(p, q)
      PROVE  /\ got[s] = Given(q, Placing(p, q, s), k, o)
             /\ got[s] \in Nat
  <2> DEFINE i == Placing(p, q, s)
             x == bag[q][vt[q].items[i].slot]
             n == vt[q].items[i].count
             y == [x EXCEPT !.count = n, !.objid = s]
  <2>1. i \in Stakes(q)
    BY <1>2
  <2>2. x \in Item /\ n \in Nat \ {0} /\ s \in Nat
    BY <1>2, <2>1, StakedLive, StakeOf, SlotsAreNat DEF Stake
  <2>3. Incoming(p, q, s) = y
    BY DEF Incoming, Placing
  <2>4. Given(q, i, k, o) = IF x.itemId = k /\ x.opt = o THEN n ELSE 0
    BY DEF Given
  <2> HIDE DEF i, x, n
  <2>5. y \in Item /\ y.itemId = x.itemId /\ y.opt = x.opt /\ y.count = n
    BY <2>2 DEF Item
  <2> HIDE DEF y
  <2>6. Tally(y, k, o) = IF x.itemId = k /\ x.opt = o THEN n ELSE 0
    BY <2>5, EmptyAssumption DEF Tally, CountOf
  <2>7. Tally(y, k, o) \in Nat
    BY <2>2, <2>6
  <2>8. QED
    BY <2>3, <2>4, <2>6, <2>7 DEF i
<1>4. \A s \in Slots : kept[s] \in Int /\ in[s] \in Int /\ has[s] = kept[s] + in[s]
  <2> TAKE s \in Slots
  <2>1. Tally(Kept(p)[s], k, o) \in Nat
    <3>1. Kept(p)[s] \in Item \cup {Empty}
      BY <1>1 DEF Bags, BagsOn
    <3>2. QED
      BY <3>1, TallyType
  <2>2. CASE s \in Filled(p, q)
    <3>1. Kept(p)[s] = Empty
      BY <2>2 DEF Filled, Free, EmptySlots
    <3>2. Tally(Kept(p)[s], k, o) = 0
      BY <3>1 DEF Tally
    <3>3. Swapped(p, q)[s] = Incoming(p, q, s)
      BY <2>2 DEF Swapped
    <3>4. got[s] \in Nat
      BY <1>3, <2>2
    <3>5. has[s] = got[s] /\ in[s] = got[s] /\ kept[s] = 0
      BY <2>2, <3>2, <3>3
    <3> HIDE DEF has, got, in, kept
    <3>6. QED
      BY <3>4, <3>5
  <2>3. CASE s \notin Filled(p, q)
    <3>1. Swapped(p, q)[s] = Kept(p)[s]
      BY <2>3 DEF Swapped
    <3>2. QED
      BY <2>1, <2>3, <3>1
  <2>4. QED
    BY <2>2, <2>3
<1>5. /\ \A s \in Slots : in[s] \in Int
      /\ \A s \in Filled(p, q) : in[s] = got[s]
      /\ \A s \in Slots \ Filled(p, q) : in[s] = 0
  BY <1>2, <1>4
<1>6. /\ from \in [Filled(p, q) -> Stakes(q)]
      /\ \A s, z \in Filled(p, q) : from[s] = from[z] => s = z
      /\ \A i \in Stakes(q) : \E s \in Filled(p, q) : from[s] = i
  BY <1>2
<1>7. \A s \in Filled(p, q) : got[s] \in Int /\ got[s] = gives[from[s]]
  <2> TAKE s \in Filled(p, q)
  <2>1. gives[from[s]] = Given(q, Placing(p, q, s), k, o)
    BY <1>2
  <2>2. QED
    BY <1>3, <2>1
<1>8. /\ Tallied(Swapped(p, q), k, o) = SumFunctionOnSet(has, Slots)
      /\ Tallied(Kept(p), k, o) = SumFunctionOnSet(kept, Slots)
      /\ AllGiven(q, k, o) = SumFunctionOnSet(gives, Stakes(q))
  BY DEF Tallied, AllGiven
<1>9. IsFiniteSet(Filled(p, q))
  BY <1>2, SlotsFinite, FS_Subset
<1> HIDE DEF has, kept, got, in, gives, from
<1>10. SumFunctionOnSet(has, Slots) = SumFunctionOnSet(kept, Slots) + SumFunctionOnSet(in, Slots)
  BY <1>4, SlotsFinite, SumPlus
<1>11. SumFunctionOnSet(in, Slots) = SumFunctionOnSet(got, Filled(p, q))
  BY <1>2, <1>5, SlotsFinite, SumOver
<1>12. SumFunctionOnSet(got, Filled(p, q)) = SumFunctionOnSet(gives, Stakes(q))
  BY <1>6, <1>7, <1>9, SumThrough
<1>13. QED
  BY <1>8, <1>10, <1>11, <1>12

\* The units in one instance state, bag by bag.
LEMMA UnitsInState ==
    ASSUME NEW b \in [Players -> Bags], NEW k, NEW o
    PROVE  /\ UnitsOf(InState(b, o), k)
                = SumFunctionOnSet([p \in Players |-> Tallied(b[p], k, o)], Players)
           /\ \A p \in Players : Tallied(b[p], k, o) \in Nat
<1>1. ASSUME NEW p \in Players
      PROVE  SumFunction([s \in Slots |-> CountOf(InState(b, o)[p][s], k)]) = Tallied(b[p], k, o)
  <2>1. ASSUME NEW s \in Slots PROVE CountOf(InState(b, o)[p][s], k) = Tally(b[p][s], k, o)
    BY DEF InState, Tally, CountOf
  <2>2. [s \in Slots |-> CountOf(InState(b, o)[p][s], k)] = [s \in Slots |-> Tally(b[p][s], k, o)]
    BY <2>1
  <2>3. QED
    BY <2>2 DEF SumFunction, Tallied
<1>2. [p \in Players |-> SumFunction([s \in Slots |-> CountOf(InState(b, o)[p][s], k)])]
        = [p \in Players |-> Tallied(b[p], k, o)]
  BY <1>1
<1>3. UnitsOf(InState(b, o), k) = SumFunctionOnSet([p \in Players |-> Tallied(b[p], k, o)], Players)
  BY <1>2 DEF UnitsOf, SumFunction
<1>4. QED
  BY <1>3, TalliedType

LEMMA CommitConservesItems ==
    ASSUME TypeOK, StakesApart, NEW p \in Players, NEW q \in Players, Commit(p, q), NEW k, NEW o
    PROVE  UnitsOf(InState(bag', o), k) = UnitsOf(InState(bag, o), k)
<1> DEFINE f == [x \in Players |-> Tallied(bag[x], k, o)]
           h == [x \in Players |-> Tallied(bag'[x], k, o)]
<1>1. p # q /\ StakesLive(p) /\ StakesLive(q) /\ Fits(p, q) /\ Fits(q, p)
  BY DEF Commit, SecondConfirm, CanSwap
<1>2. bag \in [Players -> Bags] /\ Swapped(p, q) \in Bags /\ Swapped(q, p) \in Bags
  BY <1>1, SwappedType DEF TypeOK, Bags, BagsOn
<1>3. bag' = [bag EXCEPT ![p] = Swapped(p, q), ![q] = Swapped(q, p)]
  BY DEF Commit
<1>4. /\ bag' \in [Players -> Bags]
      /\ bag'[p] = Swapped(p, q) /\ bag'[q] = Swapped(q, p)
      /\ \A x \in Players \ {p, q} : bag'[x] = bag[x]
  BY <1>1, <1>2, <1>3
<1>5. /\ Tallied(bag[p], k, o) = Tallied(Kept(p), k, o) + AllGiven(p, k, o)
      /\ Tallied(bag[q], k, o) = Tallied(Kept(q), k, o) + AllGiven(q, k, o)
      /\ Tallied(Swapped(p, q), k, o) = Tallied(Kept(p), k, o) + AllGiven(q, k, o)
      /\ Tallied(Swapped(q, p), k, o) = Tallied(Kept(q), k, o) + AllGiven(p, k, o)
  BY <1>1, KeptTally, SwappedTally
<1>6. /\ Tallied(Kept(p), k, o) \in Nat /\ Tallied(Kept(q), k, o) \in Nat
      /\ AllGiven(p, k, o) \in Nat /\ AllGiven(q, k, o) \in Nat
  BY <1>1, KeptType, TalliedType, GivenType
<1>7. f[p] + f[q] = h[p] + h[q]
  <2>1. f[p] = Tallied(bag[p], k, o) /\ f[q] = Tallied(bag[q], k, o)
    OBVIOUS
  <2>2. h[p] = Tallied(Swapped(p, q), k, o) /\ h[q] = Tallied(Swapped(q, p), k, o)
    BY <1>4
  <2> HIDE DEF f, h
  <2>3. QED
    BY <1>5, <1>6, <2>1, <2>2
<1>8. \A x \in Players \ {p, q} : f[x] = h[x]
  BY <1>4
<1>9. /\ UnitsOf(InState(bag, o), k) = SumFunctionOnSet(f, Players)
      /\ UnitsOf(InState(bag', o), k) = SumFunctionOnSet(h, Players)
      /\ \A x \in Players : f[x] \in Int /\ h[x] \in Int
  <2>1. \A x \in Players : Tallied(bag[x], k, o) \in Nat /\ Tallied(bag'[x], k, o) \in Nat
    BY <1>2, <1>4, UnitsInState
  <2>2. /\ UnitsOf(InState(bag, o), k) = SumFunctionOnSet(f, Players)
        /\ UnitsOf(InState(bag', o), k) = SumFunctionOnSet(h, Players)
    BY <1>2, <1>4, UnitsInState
  <2>3. QED
    BY <2>1, <2>2
<1> HIDE DEF f, h
<1>10. SumFunctionOnSet(h, Players) = SumFunctionOnSet(f, Players)
  BY <1>1, <1>7, <1>8, <1>9, TradeAssumption, SumMoved
<1>11. QED
  BY <1>9, <1>10

\* Of the window's packets only a commit touches a bag.
LEMMA WindowKeepsBags ==
    ASSUME WindowStep
    PROVE  UNCHANGED bag \/ \E p, q \in Players : Commit(p, q)
<1>1. ASSUME NEW S, ClearSides(S) PROVE UNCHANGED bag
  BY <1>1 DEF ClearSides
<1>2. ASSUME NEW p \in Players, NEW q \in Players, NEW i \in Windows, NEW x \in Slots, NEW n,
             Put(p, q, i, x, n)
      PROVE  UNCHANGED bag
  BY <1>2 DEF Put, goods
<1>3. ASSUME NEW p \in Players, NEW q \in Players,
             (\E i \in Windows : Pull(p, q, i)) \/ (\E n \in 1 .. GoldBound : PutGold(p, q, n))
      PROVE  UNCHANGED bag
  BY <1>3 DEF Pull, PutGold, goods
<1>4. ASSUME NEW p \in Players, NEW q \in Players, Ok(p, q) \/ FirstConfirm(p, q)
      PROVE  UNCHANGED bag
  BY <1>4 DEF Ok, FirstConfirm, goods
<1>5. ASSUME NEW p \in Players, NEW q \in Players, AbortCommit(p, q) \/ Cancel(p, q) \/ DeadLink(p)
      PROVE  UNCHANGED bag
  BY <1>1, <1>5 DEF AbortCommit, Cancel, DeadLink
<1>6. QED
  BY <1>2, <1>3, <1>4, <1>5 DEF WindowStep

\* Trading makes and loses no unit of any item and leaves its instance state
\* alone, however the stakes, the remainders and the free slots lie.
THEOREM TradeConservesItems == Spec => ItemsConserved
<1> DEFINE Conserved == bag' # bag /\ WindowStep => \A k \in ItemIds, o \in Opts :
                            UnitsOf(InState(bag', o), k) = UnitsOf(InState(bag, o), k)
<1>1. Init => StakesApart
  BY DEF Init, StakesApart, Idle, Stakes
<1>2. Spec => []StakesApart
  BY <1>1, StepApart, TypeCorrect, PTL DEF Spec
<1>3. TypeOK /\ StakesApart => [Conserved]_vars
  <2> SUFFICES ASSUME TypeOK, StakesApart, bag' # bag, WindowStep, NEW k \in ItemIds, NEW o \in Opts
               PROVE  UnitsOf(InState(bag', o), k) = UnitsOf(InState(bag, o), k)
    OBVIOUS
  <2>1. PICK p \in Players, q \in Players : Commit(p, q)
    BY WindowKeepsBags
  <2>2. QED
    BY <2>1, CommitConservesItems
<1>4. QED
  BY <1>2, <1>3, TypeCorrect, PTL DEF Spec, ItemsConserved

------------------------------------------------------------------------------
(* The shops.                                                               *)

LEMMA PriceType ==
    ASSUME NEW n \in Nat, NEW c \in Nat
    PROVE  Price(n, c) \in Int /\ (n * c < IntBound => Price(n, c) = n * c)
<1> DEFINE x == n * c
<1>1. x \in Nat /\ IntBound \in Nat \ {0}
  BY MarketAssumption
<1> HIDE DEF x
<1>2. x % (2 * IntBound) \in Nat /\ (x < IntBound => x % (2 * IntBound) = x)
  BY <1>1
<1>3. Price(n, c) = IF x % (2 * IntBound) < IntBound THEN x % (2 * IntBound)
                    ELSE (x % (2 * IntBound)) - 2 * IntBound
  BY DEF Price, x
<1>4. QED
  BY <1>1, <1>2, <1>3 DEF x

LEMMA ListedType ==
    ASSUME MarketTypeOK, NEW v \in Players, NEW i \in Listings, shop[v].listings[i] # None
    PROVE  shop[v].listings[i] \in Listing
  BY DEF MarketTypeOK, Shop

LEMMA ShopStepTyped ==
    ASSUME MarketTypeOK, ShopStep
    PROVE  /\ MarketTypeOK'
           /\ UNCHANGED <<session, goods, durable>>
<1>0. vt \in [Players -> VTInfo] /\ shop \in [Players -> Shop]
  BY DEF MarketTypeOK, TypeOK
<1>1. ASSUME NEW p \in Players, NEW x \in Players \cup {None}
      PROVE  [vt EXCEPT ![p].otherId = x] \in [Players -> VTInfo]
  BY <1>0 DEF VTInfo
<1>2. ASSUME NEW p \in Players, NEW i \in Listings, NEW x \in Listing \cup {None}
      PROVE  [shop EXCEPT ![p].listings[i] = x] \in [Players -> Shop]
  <2>1. [shop[p].listings EXCEPT ![i] = x] \in [Listings -> Listing \cup {None}]
    BY <1>0 DEF Shop
  <2>2. [shop[p] EXCEPT !.listings[i] = x] \in Shop
    BY <1>0, <2>1 DEF Shop
  <2>3. QED
    BY <1>0, <2>2
<1>3. ASSUME UNCHANGED <<session, goods, durable>>,
             vt' \in [Players -> VTInfo], shop' \in [Players -> Shop]
      PROVE  MarketTypeOK'
  BY <1>3 DEF MarketTypeOK, TypeOK, session, goods, durable
<1>4. ASSUME NEW p \in Players, OpenShop(p) \/ CloseShop(p)
      PROVE  MarketTypeOK' /\ UNCHANGED <<session, goods, durable>>
  <2>1. shop' \in [Players -> Shop]
    <3>1. [shop[p] EXCEPT !.open = TRUE] \in Shop /\ NoShop \in Shop
      BY <1>0 DEF Shop, NoShop
    <3>2. CASE OpenShop(p)
      <4>1. shop' = [shop EXCEPT ![p] = [shop[p] EXCEPT !.open = TRUE]]
        BY <3>2 DEF OpenShop
      <4>2. QED
        BY <1>0, <3>1, <4>1
    <3>3. CASE CloseShop(p)
      BY <1>0, <3>1, <3>3 DEF CloseShop
    <3>4. QED
      BY <1>4, <3>2, <3>3
  <2>2. vt' \in [Players -> VTInfo]
    BY <1>0, <1>1, <1>4 DEF OpenShop, CloseShop, vars
  <2>3. UNCHANGED <<session, goods, durable>>
    BY <1>4 DEF OpenShop, CloseShop, vars
  <2>4. QED
    BY <1>3, <2>1, <2>2, <2>3
<1>5. ASSUME NEW p \in Players, NEW v \in Players, StopBrowsing(p, v) \/ Query(p, v)
      PROVE  MarketTypeOK' /\ UNCHANGED <<session, goods, durable>>
  <2>1. shop' \in [Players -> Shop] /\ UNCHANGED <<session, goods, durable>>
    BY <1>0, <1>5 DEF StopBrowsing, Query
  <2>2. vt' \in [Players -> VTInfo]
    <3>1. \E x \in Players \cup {None} : vt' = [vt EXCEPT ![p].otherId = x]
      BY <1>5 DEF StopBrowsing, Query
    <3>2. QED
      BY <1>1, <3>1
  <2>3. QED
    BY <1>3, <2>1, <2>2
<1>6. ASSUME NEW p \in Players, NEW i \in Listings, UnregisterItem(p, i)
      PROVE  MarketTypeOK' /\ UNCHANGED <<session, goods, durable>>
  <2>1. shop' \in [Players -> Shop]
    BY <1>2, <1>6 DEF UnregisterItem
  <2>2. UNCHANGED <<session, goods, durable>> /\ UNCHANGED vt
    BY <1>6 DEF UnregisterItem, vars
  <2>3. QED
    BY <1>0, <1>3, <2>1, <2>2
<1>7. ASSUME NEW p \in Players, NEW i \in Listings, NEW o \in Slots, NEW n \in 1 .. MaxStack,
             NEW cost \in Costs, RegisterItem(p, i, o, n, cost)
      PROVE  MarketTypeOK' /\ UNCHANGED <<session, goods, durable>>
  <2> DEFINE s == FindSlotByObjId(bag[p], o)
             listing == [bagSlot |-> s, objid |-> bag[p][s].objid, itemId |-> bag[p][s].itemId,
                         count |-> Smaller(n, bag[p][s].count), cost |-> cost]
  <2>1. s \in Slots /\ bag[p][s] \in Item
    BY <1>7 DEF RegisterItem, MarketTypeOK, TypeOK
  <2>2. Smaller(n, bag[p][s].count) \in Nat \ {0}
    BY <2>1 DEF Smaller, Item
  <2>3. listing \in Listing
    BY <2>1, <2>2 DEF Listing, Item
  <2>4. shop' = [shop EXCEPT ![p].listings[i] = listing]
    BY <1>7 DEF RegisterItem
  <2>5. shop' \in [Players -> Shop]
    <3> HIDE DEF listing
    <3>1. QED
      BY <1>2, <2>3, <2>4
  <2>6. UNCHANGED <<session, goods, durable>> /\ UNCHANGED vt
    BY <1>7 DEF RegisterItem, vars
  <2>7. QED
    BY <1>0, <1>3, <2>5, <2>6
<1>8. QED
  BY <1>4, <1>5, <1>6, <1>7 DEF ShopStep

\* What a sale works with.
LEMMA SaleTyped ==
    ASSUME MarketTypeOK, NEW p \in Players, NEW v \in Players, NEW i \in Listings,
           NEW k \in ItemIds, NEW m \in 1 .. MaxStack, CanBuy(p, v, i, k, m)
    PROVE  /\ shop[v].listings[i] \in Listing
           /\ Sells(p, v, i, m) \in Nat \ {0}
           /\ Price(Sells(p, v, i, m), shop[v].listings[i].cost) \in Int
           /\ shop[v].listings[i].cost \in Nat
           /\ bag[v][shop[v].listings[i].bagSlot] \in Item
<1>1. shop[v].listings[i] \in Listing
  BY ListedType DEF CanBuy, StillThere
<1>2. Sells(p, v, i, m) \in Nat \ {0}
  BY <1>1 DEF Sells, Smaller, Listing
<1>3. shop[v].listings[i].cost \in Nat
  BY <1>1, MarketAssumption DEF Listing
<1>4. bag[v][shop[v].listings[i].bagSlot] \in Item
  BY <1>1 DEF CanBuy, StillThere, MarketTypeOK, TypeOK, Listing
<1>5. QED
  BY <1>1, <1>2, <1>3, <1>4, PriceType

LEMMA DeliveredType ==
    ASSUME TypeOK, NEW p \in Players, NEW v \in Players, NEW k \in ItemIds,
           NEW s \in Slots, NEW n \in Nat \ {0}, bag[v][s] \in Item
    PROVE  Delivered(p, v, k, s, n) \in [Players -> Bags]
<1> DEFINE added == [bag EXCEPT ![p] = AddUnits(bag[p], index[p], k, n)]
<1>0. bag \in [Players -> Bags] /\ index[p] \in [Slots -> Nat]
  BY DEF TypeOK, Bags, BagsOn
<1>1. /\ AddUnits(bag[p], index[p], k, n) \in Bags
      /\ \A x \in Slots : bag[p][x] # Empty => AddUnits(bag[p], index[p], k, n)[x] # Empty
  BY <1>0, AddUnitsType
<1>2. added \in [Players -> Bags] /\ added[v][s] # Empty
  BY <1>0, <1>1, EmptyAssumption
<1> HIDE DEF added
<1>3. added[v][s] \in Item
  BY <1>2 DEF Bags, BagsOn
<1>4. Less(added[v][s], n) \in Item \cup {Empty}
  BY <1>3, LessType
<1>5. Taken(added[v], s, n) \in Bags
  BY <1>2, <1>4 DEF Taken, Bags, BagsOn
<1>6. Delivered(p, v, k, s, n) = [added EXCEPT ![v] = Taken(added[v], s, n)]
  BY DEF Delivered, added
<1>7. QED
  BY <1>2, <1>5, <1>6

\* A price the buyer can pay leaves both purses a number.
LEMMA PaidType ==
    ASSUME NEW g \in [Players -> Nat], NEW p \in Players, NEW v \in Players,
           NEW price \in Int, g[p] >= price
    PROVE  Earned(Spent(g, p, price), v, price) \in [Players -> Nat]
<1>1. Spent(g, p, price) \in [Players -> Nat]
  <2>1. price > 0 => g[p] - price \in Nat
    OBVIOUS
  <2>2. QED
    BY <2>1 DEF Spent
<1>2. ASSUME NEW h \in [Players -> Nat]
      PROVE  Earned(h, v, price) \in [Players -> Nat]
  <2>1. price > 0 => Smaller(MaxGold, h[v] + price) \in Nat
    BY TradeAssumption DEF Smaller
  <2>2. QED
    BY <2>1 DEF Earned
<1>3. QED
  BY <1>1, <1>2

LEMMA BuyKeeps ==
    ASSUME MarketInv, NEW p \in Players, NEW v \in Players, NEW i \in Listings,
           NEW k \in ItemIds, NEW m \in 1 .. MaxStack, Buy(p, v, i, k, m)
    PROVE  MarketInv'
<1> DEFINE listing == shop[v].listings[i]
           n == Sells(p, v, i, m)
           price == Price(n, listing.cost)
           b == Delivered(p, v, k, listing.bagSlot, n)
<1>0. MarketTypeOK /\ TypeOK /\ JournalCurrent /\ CanBuy(p, v, i, k, m)
  BY DEF MarketInv, MarketTypeOK, Buy
<1>1. /\ listing \in Listing /\ n \in Nat \ {0} /\ price \in Int
      /\ bag[v][listing.bagSlot] \in Item
  BY <1>0, SaleTyped
<1>2. b \in [Players -> Bags]
  BY <1>0, <1>1, DeliveredType DEF Listing
<1>3. /\ gold \in [Players -> Nat] /\ durGold = gold /\ gold[p] >= price
      /\ bag \in [Players -> Bags]
      /\ durBag \in [Players -> DurableBags] /\ db \in [Players -> DurableBags]
  BY <1>0 DEF TypeOK, JournalCurrent, CanBuy, Bags, BagsOn, DurableBags, RowsOn
<1>4. gold' \in [Players -> Nat] /\ durGold' = gold'
  BY <1>1, <1>3, PaidType DEF Buy
<1> HIDE DEF b, n, price
<1>5. /\ bag' = b
      /\ durBag' = [x \in Players |-> [s \in Slots |->
            IF s \in Changed(b, x) THEN Row(b[x][s]) ELSE durBag[x][s]]]
      /\ db' = [x \in Players |-> [s \in Slots |->
            IF s \in Changed(b, x) THEN Persisted(b[x][s]) ELSE db[x][s]]]
      /\ shop' = [shop EXCEPT ![v].listings[i] = Remaining(listing, n)]
      /\ UNCHANGED <<session, index, vt>>
  BY DEF Buy, b, n
<1>6. \A x \in Players, s \in Slots : b[x][s] \in Item \cup {Empty}
  BY <1>2 DEF Bags, BagsOn
<1>7. durBag' \in [Players -> DurableBags] /\ db' \in [Players -> DurableBags]
  BY <1>3, <1>5, <1>6, RowType, PersistedType DEF DurableBags, RowsOn
<1>8. shop' \in [Players -> Shop]
  <2>0. shop \in [Players -> Shop]
    BY <1>0 DEF MarketTypeOK
  <2>1. Remaining(listing, n) \in Listing \cup {None}
    <3>1. listing.count > n => listing.count - n \in Nat \ {0}
      BY <1>1 DEF Listing
    <3>2. QED
      BY <1>1, <3>1 DEF Remaining, Listing
  <2> HIDE DEF listing
  <2>2. [shop[v].listings EXCEPT ![i] = Remaining(listing, n)] \in [Listings -> Listing \cup {None}]
    BY <2>0, <2>1 DEF Shop
  <2>3. [shop[v] EXCEPT !.listings[i] = Remaining(listing, n)] \in Shop
    BY <2>0, <2>2 DEF Shop
  <2>4. QED
    BY <1>5, <2>0, <2>3
<1>9. MarketTypeOK'
  BY <1>0, <1>2, <1>4, <1>5, <1>7, <1>8
     DEF MarketTypeOK, TypeOK, session, Bags, BagsOn, DurableBags, RowsOn
<1>10. JournalCurrent'
  <2>1. ASSUME NEW x \in Players, NEW s \in Slots
        PROVE  Row(durBag'[x][s]) = Row(bag'[x][s]) /\ Row(db'[x][s]) = Row(bag'[x][s])
    <3>1. CASE s \in Changed(b, x)
      BY <1>5, <1>6, <3>1, RowIdempotent, PersistedType
    <3>2. CASE s \notin Changed(b, x)
      BY <1>0, <1>5, <3>2 DEF Changed, JournalCurrent
    <3>3. QED
      BY <3>1, <3>2
  <2>2. QED
    BY <1>4, <2>1 DEF JournalCurrent
<1>11. QED
  BY <1>9, <1>10 DEF MarketInv

LEMMA MarketStepKeeps == MarketInv /\ [MarketNext]_mvars => MarketInv'
<1> SUFFICES ASSUME MarketInv, [MarketNext]_mvars PROVE MarketInv'
  OBVIOUS
<1>0. MarketTypeOK /\ TypeOK /\ JournalCurrent /\ shop \in [Players -> Shop]
  BY DEF MarketInv, MarketTypeOK
<1>1. ASSUME [Next]_vars, shop' \in [Players -> Shop] PROVE MarketInv'
  <2>1. TypeOK' /\ JournalCurrent'
    BY <1>0, <1>1, StepTyped, StepJournaled
  <2>2. QED
    BY <1>1, <2>1 DEF MarketInv, MarketTypeOK
<1>2. CASE ShopStep
  <2>1. MarketTypeOK' /\ UNCHANGED <<session, goods, durable>>
    BY <1>0, <1>2, ShopStepTyped
  <2>2. JournalCurrent'
    BY <1>0, <2>1 DEF JournalCurrent, goods, durable
  <2>3. QED
    BY <2>1, <2>2 DEF MarketInv
<1>3. CASE BuyStep
  BY <1>3, BuyKeeps DEF BuyStep
<1>4. CASE (OpenStep \/ WindowStep \/ InventoryStep \/ SocketStep) /\ UNCHANGED shop
  <2>1. Next
    BY <1>4 DEF Next, SocketStep, SessionStep
  <2>2. QED
    BY <1>0, <1>1, <1>4, <2>1
<1>5. ASSUME NEW p \in Players, ShopJoin(p) PROVE MarketInv'
  <2>1. Next
    BY <1>5 DEF ShopJoin, Next, SessionStep
  <2>2. shop' \in [Players -> Shop]
    BY <1>0, <1>5 DEF ShopJoin, NoShop, Shop
  <2>3. QED
    BY <1>1, <2>1, <2>2
<1>6. CASE ShopCrash
  BY <1>1, <1>6 DEF ShopCrash, Next, NoShop, Shop
<1>7. CASE UNCHANGED mvars
  BY <1>0, <1>1, <1>7 DEF mvars
<1>8. QED
  BY <1>2, <1>3, <1>4, <1>5, <1>6, <1>7 DEF MarketNext

\* Shops beside trades keep every bag, purse, stake and listing well formed, and
\* journal and rows follow every sale, also a vendor's from its own shop.
THEOREM MarketIsSound == MarketSpec => []MarketInv
<1>1. MarketInit => MarketInv
  <2>1. shop = [p \in Players |-> NoShop] => shop \in [Players -> Shop]
    BY DEF NoShop, Shop
  <2>2. QED
    BY <2>1, InitTyped, InitJournaled DEF MarketInit, MarketInv, MarketTypeOK
<1>2. QED
  BY <1>1, MarketStepKeeps, PTL DEF MarketSpec

\* A sale moves the price that was asked and nothing else, wherever Math.imul
\* does not wrap, and mints no gold where it does.
THEOREM SalesMoveThePrice == MarketSpec => SoldAtPrice
<1> DEFINE Fair == \A p, v \in Players, i \in Listings, k \in ItemIds, m \in 1 .. MaxStack :
          Buy(p, v, i, k, m) =>
            LET n == Sells(p, v, i, m)
                asked == n * shop[v].listings[i].cost
                paid == gold[p] - gold'[p]
            IN  p # v => /\ paid >= 0
                         /\ asked < IntBound => paid = asked
                         /\ \/ gold'[v] = gold[v] + paid
                            \/ gold[v] + paid > MaxGold /\ gold'[v] = MaxGold
<1>1. MarketInv => [Fair]_mvars
  <2> SUFFICES ASSUME MarketInv, NEW p \in Players, NEW v \in Players, NEW i \in Listings,
                      NEW k \in ItemIds, NEW m \in 1 .. MaxStack, Buy(p, v, i, k, m), p # v
               PROVE  LET n == Sells(p, v, i, m)
                          asked == n * shop[v].listings[i].cost
                          paid == gold[p] - gold'[p]
                      IN  /\ paid >= 0
                          /\ asked < IntBound => paid = asked
                          /\ \/ gold'[v] = gold[v] + paid
                             \/ gold[v] + paid > MaxGold /\ gold'[v] = MaxGold
    BY DEF Fair
  <2> DEFINE n == Sells(p, v, i, m)
             asked == n * shop[v].listings[i].cost
             price == Price(n, shop[v].listings[i].cost)
             paid == gold[p] - gold'[p]
  <2>1. MarketTypeOK /\ CanBuy(p, v, i, k, m)
    BY DEF MarketInv, Buy
  <2>2. price \in Int /\ asked \in Nat /\ (asked < IntBound => price = asked)
    <3>1. n \in Nat /\ shop[v].listings[i].cost \in Nat
      BY <2>1, SaleTyped
    <3>2. asked \in Nat
      BY <3>1
    <3>3. QED
      BY <3>1, <3>2, PriceType
  <2>3. gold' = Earned(Spent(gold, p, price), v, price)
    BY DEF Buy
  <2>4. gold \in [Players -> Nat] /\ MaxGold \in Nat
    BY <2>1, TradeAssumption DEF MarketTypeOK, TypeOK
  <2> HIDE DEF n, asked, price
  <2>5. CASE price > 0
    <3>1. gold'[p] = gold[p] - price /\ gold'[v] = Smaller(MaxGold, gold[v] + price)
      BY <2>3, <2>4, <2>5 DEF Earned, Spent
    <3>2. paid = price
      BY <2>2, <2>4, <3>1
    <3>3. QED
      BY <2>2, <2>4, <2>5, <3>1, <3>2 DEF Smaller, asked, n
  <2>6. CASE ~ price > 0
    <3>1. gold' = gold
      BY <2>3, <2>6 DEF Earned, Spent
    <3>2. paid = 0
      BY <2>4, <3>1
    <3>3. QED
      BY <2>2, <2>4, <2>6, <3>1, <3>2 DEF asked, n
  <2>7. QED
    BY <2>5, <2>6
<1>2. QED
  BY <1>1, MarketIsSound, PTL DEF MarketSpec, SoldAtPrice

------------------------------------------------------------------------------
(* Units of an item in a sale.                                              *)

\* What a sale delivers is what it takes.
LEMMA DeliveredConserves ==
    ASSUME TypeOK, NEW p \in Players, NEW v \in Players, NEW k \in ItemIds,
           NEW s \in Slots, NEW n \in Nat \ {0}, bag[v][s] \in Item, bag[v][s].itemId = k,
           bag[v][s].count >= n, HasSpace(bag[p], k, n), NEW x
    PROVE  UnitsOf(Delivered(p, v, k, s, n), x) = UnitsOf(bag, x)
<1> DEFINE c == AddUnits(bag[p], index[p], k, n)
           added == [bag EXCEPT ![p] = c]
           d == Taken(added[v], s, n)
           moved == IF x = k THEN n ELSE 0
<1>1. bag \in [Players -> Bags] /\ index[p] \in [Slots -> Nat]
  BY DEF TypeOK, Bags, BagsOn
<1>2. c \in Bags /\ Held(c, x) = Held(bag[p], x) + moved
  <2>1. Held(c, x) = Held(bag[p], x) + (IF x = k THEN Smaller(n, SpaceFor(bag[p], k)) ELSE 0)
    BY <1>1, AddUnitsCounts
  <2>2. Smaller(n, SpaceFor(bag[p], k)) = n
    BY DEF HasSpace, Smaller
  <2>3. QED
    BY <1>1, <2>1, <2>2, AddUnitsType
<1>3. added \in [Players -> Bags]
  BY <1>1, <1>2
<1>4. added[v][s] \in Item /\ added[v][s].itemId = k /\ added[v][s].count >= n
  <2>1. bag[v][s] # Empty
    BY EmptyAssumption
  <2>2. CASE p = v
    <3>1. added[v] = c
      BY <1>1, <2>2
    <3>2. c[s] \in Item /\ c[s].itemId = k /\ c[s].count >= bag[v][s].count
      BY <1>1, <2>1, <2>2, AddUnitsKeeps
    <3>3. c[s].count \in Nat /\ bag[v][s].count \in Nat
      BY <3>2 DEF Item
    <3> HIDE DEF c
    <3>4. QED
      BY <3>1, <3>2, <3>3
  <2>3. CASE p # v
    <3>1. added[v] = bag[v]
      BY <1>1, <2>3
    <3>2. QED
      BY <3>1
  <2>4. QED
    BY <2>2, <2>3
<1> HIDE DEF c
<1>5. UnitsOf(added, x) = UnitsOf(bag, x) + moved /\ UnitsOf(bag, x) \in Int
  <2>1. added[p] = c /\ \A y \in Players \ {p} : bag[y] = added[y]
    BY <1>1
  <2> HIDE DEF added
  <2>2. UnitsOf(added, x) = UnitsOf(bag, x) + Held(c, x) - Held(bag[p], x) /\ UnitsOf(bag, x) \in Int
    BY <1>1, <1>3, <2>1, UnitsAfter
  <2>3. Held(bag[p], x) \in Nat /\ moved \in Nat
    BY <1>1, UnitsOfIs
  <2>4. QED
    BY <1>2, <2>2, <2>3
<1> HIDE DEF added, moved
<1>6. d \in Bags /\ Held(d, x) = Held(added[v], x) - moved
  <2>1. d = [added[v] EXCEPT ![s] = Less(added[v][s], n)]
    BY <1>4 DEF Taken
  <2>2. Less(added[v][s], n) \in Item \cup {Empty}
    BY <1>4, LessType
  <2>3. added[v] \in Bags
    BY <1>3
  <2>4. d \in Bags /\ d[s] = Less(added[v][s], n) /\ \A y \in Slots \ {s} : added[v][y] = d[y]
    <3> DEFINE l == Less(added[v][s], n)
               w == added[v]
    <3> HIDE DEF l, w
    <3>1. d = [w EXCEPT ![s] = l] /\ l \in Item \cup {Empty} /\ w \in Bags
      BY <2>1, <2>2, <2>3 DEF l, w
    <3>2. d \in Bags /\ d[s] = l /\ \A y \in Slots \ {s} : w[y] = d[y]
      BY <3>1 DEF Bags, BagsOn
    <3>3. QED
      BY <3>2 DEF l, w
  <2>5. CountOf(Less(added[v][s], n), x) = CountOf(added[v][s], x) - moved
    <3>1. /\ added[v][s] \in Item /\ n <= added[v][s].count
          /\ moved = IF added[v][s].itemId = x THEN n ELSE 0
      BY <1>4 DEF moved, Item
    <3>2. QED
      BY <3>1, LessCount
  <2> HIDE DEF d
  <2>6. /\ Held(added[v], x) \in Nat /\ Held(d, x) \in Nat
        /\ Held(d, x) - Held(added[v], x) = CountOf(d[s], x) - CountOf(added[v][s], x)
    BY <2>3, <2>4, HeldAfter
  <2>7. CountOf(added[v][s], x) \in Nat /\ moved \in Int
    <3>1. CountOf(added[v][s], x) \in Nat
      BY <1>4, CountType
    <3>2. QED
      BY <3>1 DEF moved
  <2>8. QED
    BY <2>4, <2>5, <2>6, <2>7
<1> HIDE DEF d
<1>7. Delivered(p, v, k, s, n) = [added EXCEPT ![v] = d]
  BY DEF Delivered, added, c, d
<1>8. [added EXCEPT ![v] = d] \in [Players -> Bags]
  BY <1>3, <1>6
<1>9. UnitsOf([added EXCEPT ![v] = d], x) = UnitsOf(added, x) + Held(d, x) - Held(added[v], x)
  <2> DEFINE e == [added EXCEPT ![v] = d]
  <2>1. e[v] = d /\ \A y \in Players \ {v} : added[y] = e[y]
    BY <1>3
  <2>2. e \in [Players -> Bags]
    BY <1>8
  <2> HIDE DEF e
  <2>3. UnitsOf(e, x) = UnitsOf(added, x) + Held(e[v], x) - Held(added[v], x)
    BY <1>3, <2>1, <2>2, UnitsAfter
  <2>4. QED
    BY <2>1, <2>3 DEF e
<1>10. Held(added[v], x) \in Nat /\ moved \in Nat
  BY <1>3, UnitsOfIs DEF moved
<1>11. QED
  BY <1>5, <1>6, <1>7, <1>9, <1>10

\* The buyer of a sale gets all of it, from whatever stack, and who is neither side
\* keeps what it has.
LEMMA BuyerServed ==
    ASSUME TypeOK, NEW p \in Players, NEW v \in Players, NEW k \in ItemIds,
           NEW s \in Slots, NEW n \in Nat, HasSpace(bag[p], k, n),
           NEW x \in Players \ {v}, NEW j \in ItemIds
    PROVE  Carried(Delivered(p, v, k, s, n), x, j)
             = Carried(bag, x, j) + (IF x = p /\ j = k THEN n ELSE 0)
<1> DEFINE c == AddUnits(bag[p], index[p], k, n)
<1>1. bag \in [Players -> Bags] /\ index[p] \in [Slots -> Nat]
  BY DEF TypeOK, Bags, BagsOn
<1>2. Held(c, j) = Held(bag[p], j) + (IF j = k THEN n ELSE 0)
  <2>1. Held(c, j) = Held(bag[p], j) + (IF j = k THEN Smaller(n, SpaceFor(bag[p], k)) ELSE 0)
    BY <1>1, AddUnitsCounts
  <2>2. Smaller(n, SpaceFor(bag[p], k)) = n
    BY DEF HasSpace, Smaller
  <2>3. QED
    BY <2>1, <2>2
<1>3. Delivered(p, v, k, s, n)[x] = IF x = p THEN c ELSE bag[x]
  BY <1>1 DEF Delivered
<1>4. Held(bag[x], j) \in Nat
  BY <1>1, UnitsOfIs
<1> HIDE DEF c
<1>5. Carried(Delivered(p, v, k, s, n), x, j) = Held(IF x = p THEN c ELSE bag[x], j)
      /\ Carried(bag, x, j) = Held(bag[x], j)
  BY <1>3 DEF Carried, Held
<1>6. QED
  BY <1>2, <1>4, <1>5

\* Every sale gives the buyer all it pays for and touches no other bag but the
\* vendor's; a sale from a stack that still holds what is sold makes and loses no unit,
\* also when somebody else shares the bag, and when the vendor buys from itself.
THEOREM SalesConserveItems == MarketSpec => SaleConserves
<1> DEFINE Conserved == \A p, v \in Players, i \in Listings, k \in ItemIds, m \in 1 .. MaxStack :
          Buy(p, v, i, k, m) =>
            LET n == Sells(p, v, i, m)
            IN  /\ \A x \in Players \ {v}, j \in ItemIds :
                      Carried(bag', x, j) = Carried(bag, x, j) + IF x = p /\ j = k THEN n ELSE 0
                /\ bag[v][shop[v].listings[i].bagSlot].count >= n
                      => \A j \in ItemIds : UnitsOf(bag', j) = UnitsOf(bag, j)
<1>1. MarketInv => [Conserved]_mvars
  <2> SUFFICES ASSUME MarketInv, NEW p \in Players, NEW v \in Players, NEW i \in Listings,
                      NEW k \in ItemIds, NEW m \in 1 .. MaxStack, Buy(p, v, i, k, m)
               PROVE  LET n == Sells(p, v, i, m)
                      IN  /\ \A x \in Players \ {v}, j \in ItemIds :
                                Carried(bag', x, j) = Carried(bag, x, j) + IF x = p /\ j = k THEN n ELSE 0
                          /\ bag[v][shop[v].listings[i].bagSlot].count >= n
                                => \A j \in ItemIds : UnitsOf(bag', j) = UnitsOf(bag, j)
    BY DEF Conserved
  <2> DEFINE s == shop[v].listings[i].bagSlot
             n == Sells(p, v, i, m)
  <2>1. MarketTypeOK /\ TypeOK /\ CanBuy(p, v, i, k, m)
    BY DEF MarketInv, MarketTypeOK, Buy
  <2>2. s \in Slots /\ n \in Nat \ {0} /\ bag[v][s] \in Item
    BY <2>1, SaleTyped DEF Listing
  <2>3. bag[v][s].itemId = k /\ HasSpace(bag[p], k, n)
    BY <2>1 DEF CanBuy, StillThere
  <2>4. bag' = Delivered(p, v, k, s, n)
    BY DEF Buy
  <2> HIDE DEF s, n
  <2>5. ASSUME NEW x \in Players \ {v}, NEW j \in ItemIds
        PROVE  Carried(bag', x, j) = Carried(bag, x, j) + IF x = p /\ j = k THEN n ELSE 0
    BY <2>1, <2>2, <2>3, <2>4, BuyerServed
  <2>6. ASSUME bag[v][s].count >= n, NEW j \in ItemIds
        PROVE  UnitsOf(bag', j) = UnitsOf(bag, j)
    BY <2>1, <2>2, <2>3, <2>4, <2>6, DeliveredConserves
  <2>7. QED
    BY <2>5, <2>6 DEF s, n
<1>2. QED
  BY <1>1, MarketIsSound, PTL DEF MarketSpec, SaleConserves
==============================================================================
