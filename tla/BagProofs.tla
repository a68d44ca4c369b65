------------------------------ MODULE BagProofs ------------------------------
(* Type correctness of Bag, and that the rows and the journal always hold    *)
(* what the character carries.  Both rest on one fact: a step that writes    *)
(* every slot it changes keeps the three copies equal.                       *)
(* That addItem's two passes place what their first loop promised.           *)
(* Then of Session: who is registered, that a JOIN which meets no connected  *)
(* client loads the rows as they are, and that the mailbox flag settles on   *)
(* what the letters say.                                                     *)
EXTENDS SessionRows, InventoryProofs, FiniteSetTheorems, WellFoundedInduction

\* The rows need be current only where cur says so: sessions that overlap may lose
\* that, but never the types.
IInv(cur) == TypeOK /\ (cur => RowsCurrent)

\* Slots and equip slots are slot numbers.
LEMMA AllSlotsAreNat ==
    /\ AllSlots \in SUBSET Nat /\ Slots \in SUBSET AllSlots
    /\ \A part \in Parts : EquipSlot(part) \in AllSlots \ Slots
  BY BagAssumption, BagPartsAssumption
     DEF AllSlots, Slots, Parts, EquipSlot, BagAssumption, BagPartsAssumption

LEMMA ContentsAre == Contents = BagsOn(AllSlots) /\ Rows = RowsOn(AllSlots)
  BY DEF Contents, Rows, BagsOn, RowsOn

LEMMA IndexIsNat == ObjIds \cup {NullId} \in SUBSET Nat
  BY BagAssumption, BagPartsAssumption DEF ObjIds, NullId, BagAssumption, BagPartsAssumption

\* Writing the slots of S, where b and the bag differ nowhere else, keeps the
\* journal and the rows current.
LEMMA Written ==
    ASSUME NEW cur \in BOOLEAN, IInv(cur), NEW b \in Contents, NEW S,
           \A s \in AllSlots \ S : b[s] = bag[s]
    PROVE  /\ Journaled(b, S) \in Rows /\ Saved(b, S) \in Rows
           /\ cur => \A s \in AllSlots : /\ Row(Journaled(b, S)[s]) = Row(b[s])
                                         /\ Row(Saved(b, S)[s]) = Row(b[s])
<1>1. ASSUME NEW s \in AllSlots
      PROVE  /\ b[s] \in Item \cup {Empty}
             /\ durBag[s] \in DurableItem \cup {Empty} /\ db[s] \in DurableItem \cup {Empty}
  BY DEF IInv, TypeOK, Contents, Rows
<1>2. ASSUME NEW s \in AllSlots
      PROVE  /\ Journaled(b, S)[s] \in DurableItem \cup {Empty}
             /\ cur => Row(Journaled(b, S)[s]) = Row(b[s])
  <2>1. CASE s \in S
    BY <1>1, <2>1, RowType, RowIdempotent DEF Journaled
  <2>2. CASE s \notin S
    BY <1>1, <2>2 DEF Journaled, IInv, RowsCurrent
  <2>3. QED
    BY <2>1, <2>2
<1>3. ASSUME NEW s \in AllSlots
      PROVE  /\ Saved(b, S)[s] \in DurableItem \cup {Empty}
             /\ cur => Row(Saved(b, S)[s]) = Row(b[s])
  <2>1. CASE s \in S
    BY <1>1, <2>1, PersistedType DEF Saved
  <2>2. CASE s \notin S
    BY <1>1, <2>2 DEF Saved, IInv, RowsCurrent
  <2>3. QED
    BY <2>1, <2>2
<1>4. Journaled(b, S) \in Rows
  BY <1>2 DEF Journaled, Rows
<1>5. Saved(b, S) \in Rows
  BY <1>3 DEF Saved, Rows
<1>6. QED
  BY <1>2, <1>3, <1>4, <1>5

LEMMA ChangeBagKeeps ==
    ASSUME NEW cur \in BOOLEAN, IInv(cur), NEW b \in Contents, ChangeBag(b), UNCHANGED index
    PROVE  IInv(cur)'
<1>1. \A s \in AllSlots \ Changed(b) : b[s] = bag[s]
  BY DEF Changed
<1>2. QED
  BY <1>1, Written DEF ChangeBag, IInv, TypeOK, RowsCurrent

------------------------------------------------------------------------------
(* What each operation makes of the bag is well formed.                      *)

LEMMA LessInContents ==
    ASSUME NEW b \in Contents, NEW s \in AllSlots, NEW n \in Nat, b[s] # Empty
    PROVE  [b EXCEPT ![s] = Less(@, n)] \in Contents
<1>1. b[s] \in Item
  BY DEF Contents
<1>2. Less(b[s], n) \in Item \cup {Empty}
  BY <1>1, LessType
<1>3. QED
  BY <1>2 DEF Contents

LEMMA PlacedInCounts ==
    ASSUME NEW b, NEW k \in ItemIds, NEW n, NEW s
    PROVE  /\ Cardinality(PlacedIn(b, k, n, s)) \in Nat
           /\ PlacedIn(b, k, n, s) # {} =>
                 Cardinality(PlacedIn(b, k, n, s)) \in Nat \ {0} /\ s \in Slots
<1>1. IsFiniteSet(Slots) /\ IsFiniteSet(1 .. MaxStack)
  BY FS_Interval, BagAssumption DEF Slots, BagAssumption
<1>2. IsFiniteSet(Slots \X (1 .. MaxStack))
  BY <1>1, FS_Product
<1>3. PlacedIn(b, k, n, s) \in SUBSET (Slots \X (1 .. MaxStack))
  BY DEF PlacedIn, Room
<1>4. IsFiniteSet(PlacedIn(b, k, n, s))
  BY <1>2, <1>3, FS_Subset
<1>5. PlacedIn(b, k, n, s) # {} => s \in Slots
  BY DEF PlacedIn, Room
<1>6. QED
  BY <1>4, <1>5, FS_CardinalityType, FS_EmptySet

LEMMA AddedInContents ==
    ASSUME NEW b \in Contents, NEW ix \in [AllSlots -> Nat], NEW k \in ItemIds, NEW n
    PROVE  Added(b, ix, k, n) \in Contents
<1>1. ASSUME NEW s \in AllSlots
      PROVE  Added(b, ix, k, n)[s] \in Item \cup {Empty}
  <2> DEFINE c == Cardinality(PlacedIn(b, k, n, s))
  <2>0. DOMAIN b = AllSlots
    BY DEF Contents
  <2>1. CASE PlacedIn(b, k, n, s) = {}
    BY <2>0, <2>1 DEF Added, Contents
  <2>2. CASE PlacedIn(b, k, n, s) # {} /\ b[s] # Empty
    <3>1. c \in Nat \ {0} /\ b[s] \in Item
      BY <2>2, PlacedInCounts DEF Contents
    <3>2. [b[s] EXCEPT !.count = @ + c] \in Item
      BY <3>1 DEF Item
    <3>3. QED
      BY <2>0, <2>2, <3>2 DEF Added
  <2>3. CASE PlacedIn(b, k, n, s) # {} /\ b[s] = Empty
    <3>1. c \in Nat \ {0} /\ ix[s] \in Nat /\ Plain \in Opts
      BY <2>3, PlacedInCounts, BagAssumption DEF BagAssumption
    <3>2. [itemId |-> k, objid |-> ix[s], count |-> c, opt |-> Plain] \in Item
      BY <3>1 DEF Item
    <3>3. QED
      BY <2>0, <2>3, <3>2 DEF Added
  <2>4. QED
    BY <2>1, <2>2, <2>3
<1>2. QED
  BY <1>1 DEF Added, Contents

LEMMA MovedInContents ==
    ASSUME NEW b \in Contents, NEW src \in Slots, NEW dst \in Slots,
           src # dst, b[src] # Empty
    PROVE  /\ Moved(b, src, dst) \in Contents
           /\ \A s \in AllSlots \ {src, dst} : Moved(b, src, dst)[s] = b[s]
<1>1. b[src] \in Item /\ src \in AllSlots /\ dst \in AllSlots
  BY AllSlotsAreNat DEF Contents
<1>2. CASE Pours(b, src, dst)
  <2>1. b[dst] \in Item
    BY <1>1, <1>2 DEF Pours, Contents
  <2>2. Poured(b, src, dst) \in Nat \ {0}
    BY <1>1, <1>2, <2>1, BagAssumption DEF Pours, Poured, Smaller, Item, BagAssumption
  <2>3. Less(b[src], Poured(b, src, dst)) \in Item \cup {Empty}
    BY <1>1, <2>2, LessType
  <2>4. [b[dst] EXCEPT !.count = @ + Poured(b, src, dst)] \in Item
    BY <2>1, <2>2 DEF Item
  <2>5. QED
    BY <1>1, <1>2, <2>3, <2>4 DEF Moved, Contents
<1>3. CASE ~ Pours(b, src, dst)
  BY <1>1, <1>3 DEF Moved, Contents
<1>4. QED
  BY <1>2, <1>3

LEMMA WithoutMaterialInContents ==
    ASSUME NEW b \in Contents, NEW m \in AllSlots, b[m] # Empty
    PROVE  /\ WithoutMaterial(b, m) \in Contents
           /\ \A s \in AllSlots \ ({m} \cap Slots) : WithoutMaterial(b, m)[s] = b[s]
<1>1. [b EXCEPT ![m] = Less(@, 1)] \in Contents
  BY LessInContents
<1>2. QED
  BY <1>1 DEF WithoutMaterial, Contents

\* The objids of the index are objids, or the null one.
LEMMA FirstFreeIsObjId ==
    ASSUME NEW b, NEW ix
    PROVE  FirstFreeObjId(b, ix) \in ObjIds \cup {NullId}
<1> DEFINE free == ObjIds \ {ix[s] : s \in Occupied(b)}
<1>1. CASE free = {}
  BY <1>1 DEF FirstFreeObjId
<1>2. CASE free # {}
  <2>1. free \in SUBSET Nat
    BY IndexIsNat
  <2>2. Least(free) \in free
    BY <1>2, <2>1, LeastOf
  <2>3. QED
    BY <1>2, <2>2 DEF FirstFreeObjId
<1>3. QED
  BY <1>1, <1>2

LEMMA EmptySlotType ==
    ASSUME NEW b, EmptySlots(b) # {}
    PROVE  Least(EmptySlots(b)) \in EmptySlots(b)
  BY LeastOf, SlotsAreNat DEF EmptySlots

------------------------------------------------------------------------------
(* Every operation keeps the invariant.                                      *)

\* A step that leaves b, having written the slots of S and those only.
LEMMA WrittenKeeps ==
    ASSUME NEW cur \in BOOLEAN, IInv(cur), NEW b \in Contents, NEW S,
           \A s \in AllSlots \ S : b[s] = bag[s],
           bag' = b, durBag' = Journaled(b, S), db' = Saved(b, S),
           index' \in [AllSlots -> ObjIds \cup {NullId}]
    PROVE  IInv(cur)'
  BY Written DEF IInv, TypeOK, RowsCurrent

LEMMA AddItemKeeps ==
    ASSUME NEW cur \in BOOLEAN, IInv(cur), NEW k \in ItemIds, NEW n, AddItem(k, n)
    PROVE  IInv(cur)'
<1>1. bag \in Contents /\ index \in [AllSlots -> Nat]
  BY IndexIsNat DEF IInv, TypeOK
<1>2. Added(bag, index, k, n) \in Contents
  BY <1>1, AddedInContents
<1>3. QED
  BY <1>2, ChangeBagKeeps DEF AddItem

LEMMA TakeAwayKeeps ==
    ASSUME NEW cur \in BOOLEAN, IInv(cur), NEW s \in Slots, NEW n \in Nat, bag[s] # Empty, TakeAway(s, n)
    PROVE  IInv(cur)'
<1>1. [bag EXCEPT ![s] = Less(@, n)] \in Contents
  BY AllSlotsAreNat, LessInContents DEF IInv, TypeOK
<1>2. QED
  BY <1>1, ChangeBagKeeps DEF TakeAway

LEMMA MoveItemKeeps ==
    ASSUME NEW cur \in BOOLEAN, IInv(cur), NEW src \in Slots, NEW dst \in Slots, MoveItem(src, dst)
    PROVE  IInv(cur)'
<1> DEFINE b == Moved(bag, src, dst)
<1>1. /\ bag \in Contents /\ db \in RowsOn(AllSlots) /\ src # dst /\ bag[src] # Empty
      /\ src \in AllSlots /\ dst \in AllSlots
  BY AllSlotsAreNat DEF IInv, TypeOK, MoveItem, Rows, RowsOn
<1>2. b \in Contents /\ \A s \in AllSlots \ {src, dst} : b[s] = bag[s]
  BY <1>1, MovedInContents
<1>3. index' \in [AllSlots -> ObjIds \cup {NullId}]
  BY <1>1 DEF MoveItem, MovedIndex, IInv, TypeOK
<1>4. bag' = b /\ durBag' = Journaled(b, {src, dst})
  BY DEF MoveItem
<1>5. CASE Pours(bag, src, dst)
  <2>1. db' = Saved(b, {src, dst})
    BY <1>5 DEF MoveItem
  <2>2. QED
    BY <1>2, <1>3, <1>4, <2>1, WrittenKeeps
<1>6. CASE ~ Pours(bag, src, dst)
  <2>1. db' = RowsMoved(db, src, dst)
    BY <1>6 DEF MoveItem
  <2>2. cur => db[src] # Empty
    <3>1. cur => Row(db[src]) = Row(bag[src]) /\ Row(bag[src]) # Empty
      BY <1>1, RowOfItem DEF IInv, RowsCurrent, Contents
    <3>2. QED
      BY <3>1 DEF Row
  <2>3. db' \in Rows
    BY <1>1, <2>1, AllSlotsAreNat, ContentsAre, RowsMovedType
  <2>4. ASSUME cur, NEW s \in AllSlots
        PROVE  Row(db'[s]) = Row(b[s])
    <3>1. b = [bag EXCEPT ![src] = bag[dst], ![dst] = bag[src]]
      BY <1>6 DEF Moved
    <3>2. Row(db'[s]) = Row([db EXCEPT ![src] = db[dst], ![dst] = db[src]][s])
      BY <1>1, <2>1, <2>2, <2>4, AllSlotsAreNat, RowOfRowsMoved
    <3>3. \A t \in AllSlots : Row(db[t]) = Row(bag[t])
      BY <2>4 DEF IInv, RowsCurrent
    <3>4. QED
      BY <1>1, <3>1, <3>2, <3>3 DEF Contents, RowsOn
  <2>5. /\ Journaled(b, {src, dst}) \in Rows
        /\ cur => \A s \in AllSlots : Row(Journaled(b, {src, dst})[s]) = Row(b[s])
    BY <1>2, Written
  <2>6. QED
    BY <1>2, <1>3, <1>4, <2>3, <2>4, <2>5 DEF IInv, TypeOK, RowsCurrent
<1>7. QED
  BY <1>5, <1>6

LEMMA EquipKeeps ==
    ASSUME NEW cur \in BOOLEAN, IInv(cur), NEW src \in Slots, Equip(src)
    PROVE  IInv(cur)'
<1> DEFINE part == EquipSlot(PartOf[bag[src].itemId])
           b == [bag EXCEPT ![part] = bag[src], ![src] = bag[part]]
           ix == [index EXCEPT ![part] = index[src]]
<1>1. /\ bag \in Contents /\ index \in [AllSlots -> ObjIds \cup {NullId}]
      /\ src \in AllSlots /\ part \in AllSlots
  BY AllSlotsAreNat DEF IInv, TypeOK, Equip
<1>2. b \in Contents /\ \A s \in AllSlots \ {src, part} : b[s] = bag[s]
  BY <1>1 DEF Contents
<1>3. FirstFreeObjId(b, ix) \in ObjIds \cup {NullId}
  BY FirstFreeIsObjId
<1>4. [ix EXCEPT ![src] = FirstFreeObjId(b, ix)] \in [AllSlots -> ObjIds \cup {NullId}]
  BY <1>1, <1>3
<1>5. /\ bag' = b /\ durBag' = Journaled(b, {src, part}) /\ db' = Saved(b, {src, part})
      /\ index' = [ix EXCEPT ![src] = FirstFreeObjId(b, ix)]
  BY DEF Equip, EquipJournal
<1>6. QED
  BY <1>2, <1>4, <1>5, WrittenKeeps

LEMMA UnequipKeeps ==
    ASSUME NEW cur \in BOOLEAN, IInv(cur), NEW part \in Parts, Unequip(part)
    PROVE  IInv(cur)'
<1> DEFINE src == EquipSlot(part)
           dst == Least(EmptySlots(bag))
           b == [bag EXCEPT ![dst] = bag[src], ![src] = Empty]
<1>1. /\ bag \in Contents /\ index \in [AllSlots -> ObjIds \cup {NullId}]
      /\ src \in AllSlots /\ dst \in AllSlots
  BY AllSlotsAreNat, EmptySlotType DEF IInv, TypeOK, Unequip, EmptySlots
<1>2. b \in Contents /\ \A s \in AllSlots \ {src, dst} : b[s] = bag[s]
  BY <1>1 DEF Contents
<1>3. index' \in [AllSlots -> ObjIds \cup {NullId}]
  BY <1>1 DEF Unequip
<1>4. bag' = b /\ durBag' = Journaled(b, {src, dst}) /\ db' = Saved(b, {src, dst})
  BY DEF Unequip
<1>5. QED
  BY <1>2, <1>3, <1>4, WrittenKeeps

LEMMA EnchantSucceedsKeeps ==
    ASSUME NEW cur \in BOOLEAN, IInv(cur), NEW t, NEW m, NEW to \in Opts, EnchantSucceeds(t, m, to)
    PROVE  IInv(cur)'
<1> DEFINE c == WithoutMaterial(bag, m)
           b == [c EXCEPT ![t] = [bag[t] EXCEPT !.opt = to]]
           M == {m} \cap Slots
<1>1. /\ bag \in Contents /\ t \in AllSlots /\ m \in AllSlots /\ t # m
      /\ bag[t] \in Item /\ bag[m] # Empty
  BY AllSlotsAreNat DEF IInv, TypeOK, EnchantSucceeds, EnchantOf, Contents
<1>2. c \in Contents /\ \A s \in AllSlots \ M : c[s] = bag[s]
  BY <1>1, WithoutMaterialInContents
<1>3. [bag[t] EXCEPT !.opt = to] \in Item
  BY <1>1 DEF Item
<1>4. /\ b \in Contents /\ b[t] \in Item
      /\ \A s \in AllSlots \ (M \cup {t}) : b[s] = bag[s]
      /\ \A s \in AllSlots \ {t} : b[s] = c[s]
  BY <1>1, <1>2, <1>3 DEF Contents
<1>5. /\ Journaled(c, M) \in Rows /\ Saved(c, M) \in Rows
      /\ cur => \A s \in AllSlots : /\ Row(Journaled(c, M)[s]) = Row(c[s])
                                    /\ Row(Saved(c, M)[s]) = Row(c[s])
  BY <1>2, Written
<1>6. Stored(b[t]) \in DurableItem \cup {Empty} /\ Row(Stored(b[t])) = Row(b[t])
  BY <1>4, StoredType
<1>7. Journaled(b, M) = Journaled(c, M) /\ Saved(b, M) = Saved(c, M)
  <2>1. \A s \in AllSlots : s \in M => b[s] = c[s]
    BY <1>1, <1>4
  <2>2. QED
    BY <2>1 DEF Journaled, Saved
<1>8. /\ bag' = b /\ index' = index
      /\ durBag' = [Journaled(c, M) EXCEPT ![t] = Stored(b[t])]
      /\ db' = [Saved(c, M) EXCEPT ![t] = Stored(b[t])]
  BY <1>7 DEF EnchantSucceeds
<1>9. durBag' \in Rows /\ db' \in Rows
  BY <1>5, <1>6, <1>8 DEF Rows
<1>10. ASSUME cur, NEW s \in AllSlots
       PROVE  Row(durBag'[s]) = Row(b[s]) /\ Row(db'[s]) = Row(b[s])
  <2>1. CASE s = t
    BY <1>1, <1>5, <1>6, <1>8, <1>10, <2>1 DEF Rows
  <2>2. CASE s # t
    BY <1>4, <1>5, <1>8, <1>10, <2>2 DEF Rows
  <2>3. QED
    BY <2>1, <2>2
<1>11. QED
  BY <1>4, <1>8, <1>9, <1>10 DEF IInv, TypeOK, RowsCurrent

LEMMA EnchantFailsKeeps ==
    ASSUME NEW cur \in BOOLEAN, IInv(cur), NEW t, NEW m, NEW to \in Opts, EnchantFails(t, m, to)
    PROVE  IInv(cur)'
<1> DEFINE c == WithoutMaterial(bag, m)
<1>1. bag \in Contents /\ t \in AllSlots /\ m \in AllSlots /\ bag[m] # Empty
  BY AllSlotsAreNat DEF IInv, TypeOK, EnchantFails, EnchantOf
<1>2. c \in Contents
  BY <1>1, WithoutMaterialInContents
<1>3. [c EXCEPT ![t] = Empty] \in Contents
  BY <1>1, <1>2 DEF Contents
<1>4. QED
  BY <1>2, <1>3, ChangeBagKeeps DEF EnchantFails

\* Loading from current rows gives a current bag.
LEMMA LoadFromKeeps ==
    ASSUME NEW cur \in BOOLEAN,
           NEW rows \in Rows, LoadFrom(rows), durBag' \in Rows, db' \in Rows,
           cur => \A s \in AllSlots :
                     Row(durBag'[s]) = Row(rows[s]) /\ Row(db'[s]) = Row(rows[s])
    PROVE  IInv(cur)'
<1>1. bag' \in Contents /\ \A s \in AllSlots : Row(bag'[s]) = Row(rows[s])
  BY AllSlotsAreNat, ContentsAre, LoadType, RowOfLoad DEF LoadFrom
<1>2. AllSlots \in SUBSET (ObjIds \cup {NullId})
  BY BagAssumption, BagPartsAssumption
     DEF AllSlots, Slots, Parts, EquipSlot, ObjIds, BagAssumption, BagPartsAssumption
<1>3. index' \in [AllSlots -> ObjIds \cup {NullId}]
  BY <1>2 DEF LoadFrom, LoadedIndex
<1>4. QED
  BY <1>1, <1>3 DEF IInv, TypeOK, RowsCurrent

LEMMA IInvIsInductive ==
    ASSUME NEW cur \in BOOLEAN, IInv(cur), [Next]_vars
    PROVE  IInv(cur)'
<1>1. ASSUME NEW k \in ItemIds, NEW n \in 1 .. (2 * MaxStack), AddItem(k, n)
      PROVE  IInv(cur)'
  BY <1>1, AddItemKeeps
<1>2. ASSUME NEW s \in Slots, NEW n \in 1 .. MaxStack,
             DropItem(s, n) \/ RemoveItem(s, n) \/ Consume(s, n)
      PROVE  IInv(cur)'
  <2>0. n \in Nat /\ bag[s] # Empty
    BY <1>2, BagAssumption DEF DropItem, RemoveItem, Consume, BagAssumption
  <2>1. n \in Nat /\ bag[s] # Empty /\ bag[s] \in Item
    BY <2>0, AllSlotsAreNat DEF IInv, TypeOK, Contents
  <2>2. Smaller(n, bag[s].count) \in Nat
    BY <2>1 DEF Smaller, Item
  <2>3. TakeAway(s, n) \/ TakeAway(s, Smaller(n, bag[s].count))
    <3>1. CASE DropItem(s, n)
      BY <3>1 DEF DropItem
    <3>2. CASE RemoveItem(s, n) \/ Consume(s, n)
      BY <3>2 DEF RemoveItem, Consume
    <3>3. QED
      BY <1>2, <3>1, <3>2
  <2>4. QED
    BY <2>1, <2>2, <2>3, TakeAwayKeeps
<1>3. ASSUME NEW src \in Slots, NEW dst \in Slots, MoveItem(src, dst)
      PROVE  IInv(cur)'
  BY <1>3, MoveItemKeeps
<1>4. ASSUME NEW src \in Slots, Equip(src)
      PROVE  IInv(cur)'
  BY <1>4, EquipKeeps
<1>5. ASSUME NEW part \in Parts, Unequip(part)
      PROVE  IInv(cur)'
  BY <1>5, UnequipKeeps
<1>6. ASSUME NEW t, NEW m, NEW to \in Opts,
             EnchantSucceeds(t, m, to) \/ EnchantFails(t, m, to)
      PROVE  IInv(cur)'
  BY <1>6, EnchantSucceedsKeeps, EnchantFailsKeeps
<1>7. CASE Relog
  BY <1>7, LoadFromKeeps DEF Relog, IInv, TypeOK, RowsCurrent
<1>8. CASE Restart
  BY <1>8, LoadFromKeeps DEF Restart, IInv, TypeOK, RowsCurrent
<1>9. CASE UNCHANGED vars
  BY <1>9 DEF vars, IInv, TypeOK, RowsCurrent
<1>10. CASE EnchantStep
  BY <1>6, <1>10 DEF EnchantStep
<1>11. QED
  BY <1>1, <1>2, <1>3, <1>4, <1>5, <1>7, <1>8, <1>9, <1>10 DEF Next, Operation

LEMMA InitHolds ==
    ASSUME NEW cur \in BOOLEAN, Init
    PROVE  IInv(cur)
<1>1. bag \in Contents /\ \A s \in AllSlots : Row(bag[s]) = Row(durBag[s])
  BY AllSlotsAreNat, ContentsAre, LoadType, RowOfLoad DEF Init
<1>2. AllSlots \in SUBSET (ObjIds \cup {NullId})
  BY BagAssumption, BagPartsAssumption
     DEF AllSlots, Slots, Parts, EquipSlot, ObjIds, BagAssumption, BagPartsAssumption
<1>3. index \in [AllSlots -> ObjIds \cup {NullId}]
  BY <1>2 DEF Init, LoadedIndex
<1>4. QED
  BY <1>1, <1>3 DEF Init, IInv, TypeOK, RowsCurrent

\* The bag, the index, the rows and the journal stay well formed.
THEOREM TypeCorrect == Spec => []TypeOK
<1>1. IInv(TRUE) => TypeOK
  BY DEF IInv
<1>2. Init => IInv(TRUE)
  BY InitHolds
<1>3. IInv(TRUE) /\ [Next]_vars => IInv(TRUE)'
  BY IInvIsInductive
<1>4. QED
  BY <1>1, <1>2, <1>3, PTL DEF Spec

\* Whatever is added, dropped, moved, worn, taken off or enchanted, the journal
\* and the rows hold the item and the count of every slot: a relog, and a
\* restart after a crash, duplicate and lose nothing.
THEOREM RowsAreCurrent == Spec => []RowsCurrent
<1>1. IInv(TRUE) => RowsCurrent
  BY DEF IInv
<1>2. Init => IInv(TRUE)
  BY InitHolds
<1>3. IInv(TRUE) /\ [Next]_vars => IInv(TRUE)'
  BY IInvIsInductive
<1>4. QED
  BY <1>1, <1>2, <1>3, PTL DEF Spec
------------------------------------------------------------------------------
(* addItem, unit by unit.  The units that fit are numbered in the order in   *)
(* which two passes place them; the unit numbered m goes where a call for    *)
(* one unit would put it, once the m before it are placed.                   *)

Base(b, s) == IF b[s] = Empty THEN 0 ELSE b[s].count
Column(b, k, s) == {x \in Room(b, k) : x[1] = s}
Order(b, k) == {z \in Room(b, k) \X Room(b, k) : Before(b, z[1], z[2])}
Number(b, k, x) == Cardinality({y \in Room(b, k) : Before(b, y, x)})

LEMMA RoomFinite ==
    ASSUME NEW b, NEW k
    PROVE  IsFiniteSet(Room(b, k)) /\ Cardinality(Room(b, k)) \in Nat
<1>1. IsFiniteSet(Slots) /\ IsFiniteSet(1 .. MaxStack)
  BY FS_Interval, BagAssumption DEF Slots, BagAssumption
<1>2. IsFiniteSet(Slots \X (1 .. MaxStack))
  BY <1>1, FS_Product
<1>3. Room(b, k) \in SUBSET (Slots \X (1 .. MaxStack))
  BY DEF Room
<1>4. QED
  BY <1>2, <1>3, FS_Subset, FS_CardinalityType

\* The units that fit are numbered from 0, and numbers follow the order.
LEMMA Numbered ==
    ASSUME NEW b, NEW k
    PROVE  /\ \A x \in Room(b, k) : Number(b, k, x) \in 0 .. (Cardinality(Room(b, k)) - 1)
           /\ \A x, y \in Room(b, k) : /\ Number(b, k, x) < Number(b, k, y) <=> Before(b, x, y)
                                       /\ Number(b, k, x) = Number(b, k, y) => x = y
           /\ \A n \in 0 .. (Cardinality(Room(b, k)) - 1) :
                 \E x \in Room(b, k) : Number(b, k, x) = n
<1> DEFINE R == Room(b, k)
           O == Order(b, k)
<1>1. \A x \in R : x = <<x[1], x[2]>> /\ x[1] \in Nat /\ x[2] \in Nat
  BY SlotsAreNat DEF Room
<1>2. \A x, y \in R : <<x, y>> \in O <=> Before(b, x, y)
  BY DEF Order
<1> HIDE DEF R, O
<1>3. Orders(O, R)
  <2>1. \A x \in R : ~ Before(b, x, x)
    BY <1>1 DEF Before
  <2>2. ASSUME NEW x \in R, NEW y \in R, x # y PROVE Before(b, x, y) \/ Before(b, y, x)
    <3>1. CASE x[1] = y[1]
      <4>1. x[2] < y[2] \/ y[2] < x[2]
        BY <1>1, <2>2, <3>1
      <4>2. QED
        BY <3>1, <4>1 DEF Before
    <3>2. CASE x[1] # y[1]
      <4>1. x[1] < y[1] \/ y[1] < x[1]
        BY <1>1, <3>2
      <4>2. QED
        BY <4>1 DEF Before
    <3>3. QED
      BY <3>1, <3>2
  <2>3. ASSUME NEW x \in R, NEW y \in R, NEW z \in R, Before(b, x, y), Before(b, y, z)
        PROVE  Before(b, x, z)
    <3>1. /\ x[1] \in Nat /\ x[2] \in Nat /\ y[1] \in Nat /\ y[2] \in Nat
          /\ z[1] \in Nat /\ z[2] \in Nat
      BY <1>1
    <3>2. QED
      BY <2>3, <3>1 DEF Before
  <2>4. QED
    BY <1>2, <2>1, <2>2, <2>3 DEF Orders
<1>4. ASSUME NEW x \in R PROVE Number(b, k, x) = Cardinality(Below(O, R, x))
  <2>1. {y \in R : Before(b, y, x)} = Below(O, R, x)
    BY <1>2 DEF Below
  <2>2. QED
    BY <2>1 DEF Number, R
<1>5. IsFiniteSet(R)
  BY RoomFinite DEF R
<1>6. /\ \A x \in R : Number(b, k, x) \in 0 .. (Cardinality(R) - 1)
      /\ \A x, y \in R : Before(b, x, y) => Number(b, k, x) < Number(b, k, y)
      /\ \A n \in 0 .. (Cardinality(R) - 1) : \E x \in R : Number(b, k, x) = n
  <2>1. /\ \A x \in R : Cardinality(Below(O, R, x)) \in 0 .. (Cardinality(R) - 1)
        /\ \A x, y \in R : <<x, y>> \in O
             => Cardinality(Below(O, R, x)) < Cardinality(Below(O, R, y))
        /\ \A n \in 0 .. (Cardinality(R) - 1) : \E x \in R : Cardinality(Below(O, R, x)) = n
    BY <1>3, <1>5, Ranked
  <2>2. QED
    BY <1>2, <1>4, <2>1
<1>7. ASSUME NEW x \in R, NEW y \in R
      PROVE  /\ Number(b, k, x) < Number(b, k, y) <=> Before(b, x, y)
             /\ Number(b, k, x) = Number(b, k, y) => x = y
  <2>1. Number(b, k, x) \in Int /\ Number(b, k, y) \in Int
    BY <1>6
  <2>2. x = y \/ Before(b, x, y) \/ Before(b, y, x)
    BY <1>2, <1>3 DEF Orders
  <2>3. Before(b, x, y) => Number(b, k, x) < Number(b, k, y)
    BY <1>6
  <2>4. Before(b, y, x) => Number(b, k, y) < Number(b, k, x)
    BY <1>6
  <2>5. QED
    BY <2>1, <2>2, <2>3, <2>4
<1>8. QED
  BY <1>6, <1>7 DEF R

\* A slot with room has as many places as its stack is short of.
LEMMA ColumnSize ==
    ASSUME NEW b \in Contents, NEW k \in ItemIds, NEW s \in Slots,
           b[s] = Empty \/ s \in Partial(b, k)
    PROVE  /\ Base(b, s) \in Nat /\ StackSize[k] \in 1 .. MaxStack /\ Base(b, s) < StackSize[k]
           /\ Column(b, k, s) = {s} \X ((Base(b, s) + 1) .. StackSize[k])
           /\ IsFiniteSet(Column(b, k, s))
           /\ Cardinality(Column(b, k, s)) = StackSize[k] - Base(b, s)
<1>1. StackSize[k] \in 1 .. MaxStack /\ MaxStack \in Nat
  BY BagAssumption
<1>2. b[s] # Empty => b[s].count \in Nat /\ b[s].count < StackSize[k]
  BY AllSlotsAreNat DEF Contents, Item, Partial
<1>3. Base(b, s) \in Nat /\ Base(b, s) < StackSize[k]
  BY <1>1, <1>2 DEF Base
<1>4. ASSUME NEW x PROVE x \in Column(b, k, s) <=> x \in {s} \X ((Base(b, s) + 1) .. StackSize[k])
  <2>1. x \in Column(b, k, s) <=>
          /\ x \in Slots \X (1 .. MaxStack) /\ x[1] = s /\ x[2] <= StackSize[k]
          /\ b[s] = Empty \/ x[2] > b[s].count
    BY DEF Column, Room, Partial
  <2>2. QED
    BY <1>1, <1>2, <1>3, <2>1 DEF Base
<1>5. Column(b, k, s) = {s} \X ((Base(b, s) + 1) .. StackSize[k])
  BY <1>4
<1> DEFINE T == (Base(b, s) + 1) .. StackSize[k]
<1>6. IsFiniteSet(T) /\ Cardinality(T) = StackSize[k] - Base(b, s)
  <2>1. Base(b, s) + 1 \in Int /\ StackSize[k] \in Int
    BY <1>1, <1>3
  <2>2. IsFiniteSet(T) /\ Cardinality(T) = IF Base(b, s) + 1 > StackSize[k] THEN 0
                                           ELSE StackSize[k] - (Base(b, s) + 1) + 1
    BY <2>1, FS_Interval
  <2>3. QED
    BY <1>1, <1>3, <2>2
<1> HIDE DEF T
<1>7. IsFiniteSet({s}) /\ Cardinality({s}) = 1
  BY FS_Singleton
<1>8. IsFiniteSet({s} \X T) /\ Cardinality({s} \X T) = 1 * Cardinality(T)
  BY <1>6, <1>7, FS_Product
<1>9. QED
  BY <1>1, <1>3, <1>5, <1>6, <1>8 DEF T

\* The units placed in a slot: all that fit, or fewer and a place is left.
LEMMA PlacedSize ==
    ASSUME NEW b \in Contents, NEW k \in ItemIds, NEW m \in Nat, NEW s \in Slots,
           b[s] = Empty \/ s \in Partial(b, k)
    PROVE  /\ Cardinality(PlacedIn(b, k, m, s)) \in Nat
           /\ PlacedIn(b, k, m, s) = {} <=> Cardinality(PlacedIn(b, k, m, s)) = 0
           /\ Base(b, s) + Cardinality(PlacedIn(b, k, m, s)) <= StackSize[k]
           /\ Base(b, s) + Cardinality(PlacedIn(b, k, m, s)) < StackSize[k] <=>
                 \E x \in Room(b, k) : x[1] = s /\ Number(b, k, x) >= m
<1> DEFINE P == PlacedIn(b, k, m, s)
           C == Column(b, k, s)
<1>1. P = {x \in C : Number(b, k, x) < m}
  BY DEF PlacedIn, Column, Number
<1>2. /\ IsFiniteSet(C) /\ Cardinality(C) = StackSize[k] - Base(b, s)
      /\ Base(b, s) \in Nat /\ StackSize[k] \in Nat
  BY ColumnSize
<1>3. \A x \in C : Number(b, k, x) \in Nat
  BY Numbered DEF Column
<1>4. (\E x \in Room(b, k) : x[1] = s /\ Number(b, k, x) >= m) <=> P # C
  <2>1. (\E x \in Room(b, k) : x[1] = s /\ Number(b, k, x) >= m)
           <=> \E x \in C : Number(b, k, x) >= m
    BY DEF Column
  <2> HIDE DEF P, C
  <2>2. QED
    BY <1>1, <1>3, <2>1
<1> HIDE DEF P, C
<1>5. P \in SUBSET C
  BY <1>1
<1>6. /\ IsFiniteSet(P) /\ Cardinality(P) <= Cardinality(C)
      /\ Cardinality(C) = Cardinality(P) => C = P
  BY <1>2, <1>5, FS_Subset
<1>7. Cardinality(P) \in Nat /\ (Cardinality(P) = 0 <=> P = {})
  BY <1>6, FS_CardinalityType, FS_EmptySet
<1>8. QED
  BY <1>2, <1>4, <1>6, <1>7 DEF P


\* What a slot holds once m units are placed.
LEMMA AddedSlot ==
    ASSUME NEW b \in Contents, NEW ix \in [AllSlots -> Nat], NEW k \in ItemIds, NEW m \in Nat,
           NEW s \in AllSlots
    PROVE  LET c == Cardinality(PlacedIn(b, k, m, s))
           IN  /\ c \in Nat
               /\ c = 0 => Added(b, ix, k, m)[s] = b[s]
               /\ c # 0 => s \in Slots /\ (b[s] = Empty \/ s \in Partial(b, k))
               /\ c # 0 /\ b[s] # Empty =>
                     Added(b, ix, k, m)[s] = [b[s] EXCEPT !.count = b[s].count + c]
               /\ c # 0 /\ b[s] = Empty =>
                     Added(b, ix, k, m)[s] = [itemId |-> k, objid |-> ix[s], count |-> c, opt |-> Plain]
<1> DEFINE P == PlacedIn(b, k, m, s)
<1>1. IsFiniteSet(P) /\ Cardinality(P) \in Nat /\ (Cardinality(P) = 0 <=> P = {})
  <2>1. P \in SUBSET Room(b, k)
    BY DEF PlacedIn
  <2>2. QED
    BY <2>1, RoomFinite, FS_Subset, FS_CardinalityType, FS_EmptySet
<1>2. P # {} => s \in Slots /\ (b[s] = Empty \/ s \in Partial(b, k))
  BY DEF PlacedIn, Room
<1>3. DOMAIN b = AllSlots
  BY DEF Contents
<1>4. QED
  BY <1>1, <1>2, <1>3 DEF Added

\* Where a further unit still fits.
LEMMA AddedRoom ==
    ASSUME NEW b \in Contents, NEW ix \in [AllSlots -> Nat], NEW k \in ItemIds, NEW m \in Nat,
           NEW s \in Slots
    PROVE  LET a == Added(b, ix, k, m)
               c == Cardinality(PlacedIn(b, k, m, s))
               left == \E x \in Room(b, k) : x[1] = s /\ Number(b, k, x) >= m
           IN  /\ s \in Partial(a, k) <=> left /\ (b[s] # Empty \/ c # 0)
               /\ s \in EmptySlots(a) <=> left /\ b[s] = Empty /\ c = 0
<1> DEFINE a == Added(b, ix, k, m)
           c == Cardinality(PlacedIn(b, k, m, s))
           left == \E x \in Room(b, k) : x[1] = s /\ Number(b, k, x) >= m
           new == [itemId |-> k, objid |-> ix[s], count |-> c, opt |-> Plain]
           more == [b[s] EXCEPT !.count = b[s].count + c]
<1>1. s \in AllSlots /\ b[s] \in Item \cup {Empty} /\ ix[s] \in Nat
  BY AllSlotsAreNat DEF Contents
<1>2. /\ c \in Nat
      /\ c = 0 => a[s] = b[s]
      /\ c # 0 => b[s] = Empty \/ s \in Partial(b, k)
      /\ c # 0 /\ b[s] # Empty => a[s] = more
      /\ c # 0 /\ b[s] = Empty => a[s] = new
  BY <1>1, AddedSlot
<1>3. b[s] = Empty \/ s \in Partial(b, k) =>
        /\ Base(b, s) \in Nat /\ StackSize[k] \in Nat \ {0}
        /\ Base(b, s) + c < StackSize[k] <=> left
  <2>1. CASE b[s] = Empty \/ s \in Partial(b, k)
    <3>1. Base(b, s) + c < StackSize[k] <=> left
      BY <2>1, PlacedSize
    <3>2. Base(b, s) \in Nat /\ StackSize[k] \in Nat \ {0}
      BY <2>1, ColumnSize
    <3>3. QED
      BY <3>1, <3>2
  <2>2. QED
    BY <2>1
<1>4. left => b[s] = Empty \/ s \in Partial(b, k)
  BY DEF Room
<1>5. k \in ItemIds /\ Plain \in Opts
  BY BagAssumption
<1> HIDE DEF a, c, left
<1>6. CASE b[s] = Empty /\ c = 0
  <2>1. a[s] = Empty /\ Base(b, s) = 0 /\ left
    BY <1>2, <1>3, <1>6 DEF Base
  <2>2. QED
    BY <1>6, <2>1 DEF Partial, EmptySlots, a, c, left
<1>7. CASE b[s] = Empty /\ c # 0
  <2>1. new \in Item /\ new.itemId = k /\ new.opt = Plain /\ new.count = c
    BY <1>1, <1>2, <1>5, <1>7 DEF Item
  <2>2. a[s] = new /\ Base(b, s) = 0
    BY <1>2, <1>7 DEF Base
  <2> HIDE DEF new
  <2>3. a[s] # Empty /\ (s \in Partial(a, k) <=> c < StackSize[k])
    BY <2>1, <2>2, EmptyAssumption DEF Partial
  <2>4. s \in Partial(a, k) <=> left
    BY <1>2, <1>3, <1>7, <2>2, <2>3
  <2>5. s \notin EmptySlots(a)
    BY <2>3 DEF EmptySlots
  <2>6. QED
    BY <1>7, <2>4, <2>5 DEF a, c, left
<1>8. CASE b[s] # Empty /\ c # 0
  <2>1. b[s] \in Item /\ b[s].itemId = k /\ b[s].opt = Plain /\ b[s].count \in Nat \ {0}
    BY <1>1, <1>2, <1>8 DEF Partial, Item
  <2>2. more \in Item /\ more.itemId = k /\ more.opt = Plain /\ more.count = b[s].count + c
    <3>1. b[s].count + c \in Nat \ {0}
      BY <1>2, <2>1
    <3>2. QED
      BY <2>1, <3>1 DEF Item
  <2>3. a[s] = more /\ Base(b, s) = b[s].count
    BY <1>2, <1>8 DEF Base
  <2> HIDE DEF more
  <2>4. a[s] # Empty /\ (s \in Partial(a, k) <=> b[s].count + c < StackSize[k])
    BY <2>2, <2>3, EmptyAssumption DEF Partial
  <2>5. s \in Partial(a, k) <=> left
    BY <1>2, <1>3, <1>8, <2>3, <2>4
  <2>6. s \notin EmptySlots(a)
    BY <2>4 DEF EmptySlots
  <2>7. QED
    BY <1>8, <2>5, <2>6 DEF a, c, left
<1>9. CASE b[s] # Empty /\ c = 0
  <2>1. a[s] = b[s] /\ a[s] # Empty
    BY <1>2, <1>9
  <2>2. s \in Partial(a, k) <=> s \in Partial(b, k)
    BY <2>1 DEF Partial
  <2>3. s \in Partial(b, k) => Base(b, s) + c < StackSize[k]
    <3>1. s \in Partial(b, k) => b[s].count < StackSize[k] /\ b[s].count \in Nat
      BY <1>1 DEF Partial, Item
    <3>2. QED
      BY <1>9, <3>1 DEF Base
  <2>4. s \in Partial(a, k) <=> left
    BY <1>3, <1>4, <1>9, <2>2, <2>3
  <2>5. s \notin EmptySlots(a)
    BY <2>1 DEF EmptySlots
  <2>6. QED
    BY <1>9, <2>4, <2>5 DEF a, c, left
<1>10. QED
  BY <1>6, <1>7, <1>8, <1>9

\* The unit numbered m goes where AddOne would put one more.
LEMMA NextPlace ==
    ASSUME NEW b \in Contents, NEW ix \in [AllSlots -> Nat], NEW k \in ItemIds, NEW m \in Nat,
           NEW x \in Room(b, k), Number(b, k, x) = m
    PROVE  /\ CanAddOne(Added(b, ix, k, m), k)
           /\ AddOneSlot(Added(b, ix, k, m), k) = x[1]
<1> DEFINE a == Added(b, ix, k, m)
           c(s) == Cardinality(PlacedIn(b, k, m, s))
           Left(s) == \E y \in Room(b, k) : y[1] = s /\ Number(b, k, y) >= m
           t == x[1]
<1>1. ASSUME NEW s \in Slots
      PROVE  /\ c(s) \in Nat
             /\ c(s) # 0 => \E y \in Room(b, k) : y[1] = s /\ Number(b, k, y) < m
             /\ s \in Partial(a, k) <=> Left(s) /\ (b[s] # Empty \/ c(s) # 0)
             /\ s \in EmptySlots(a) <=> Left(s) /\ b[s] = Empty /\ c(s) = 0
  <2>1. s \in AllSlots
    BY AllSlotsAreNat
  <2>2. c(s) \in Nat
    BY <2>1, AddedSlot
  <2>3. c(s) # 0 => PlacedIn(b, k, m, s) # {}
    BY FS_EmptySet
  <2>4. PlacedIn(b, k, m, s) # {} => \E y \in Room(b, k) : y[1] = s /\ Number(b, k, y) < m
    BY DEF PlacedIn, Number
  <2>5. /\ s \in Partial(a, k) <=> Left(s) /\ (b[s] # Empty \/ c(s) # 0)
        /\ s \in EmptySlots(a) <=> Left(s) /\ b[s] = Empty /\ c(s) = 0
    BY AddedRoom
  <2> HIDE DEF a, c, Left
  <2>6. QED
    BY <2>2, <2>3, <2>4, <2>5 DEF c
<1>2. \A y \in Room(b, k) : y[1] \in Slots /\ y[1] \in Nat /\ y[2] \in Nat /\ y = <<y[1], y[2]>>
  BY SlotsAreNat DEF Room
<1>3. ASSUME NEW y \in Room(b, k)
      PROVE  /\ Number(b, k, y) < m => Before(b, y, x)
             /\ Number(b, k, y) >= m => ~ Before(b, y, x) /\ (y = x \/ Before(b, x, y))
  <2>1. Number(b, k, y) \in Nat /\ Number(b, k, x) \in Nat
    BY Numbered
  <2>2. Number(b, k, y) < m <=> Before(b, y, x)
    BY Numbered
  <2>3. m < Number(b, k, y) <=> Before(b, x, y)
    BY Numbered
  <2>4. Number(b, k, y) = m => y = x
    BY Numbered
  <2>5. QED
    BY <2>1, <2>2, <2>3, <2>4
<1>4. t \in Slots /\ t \in Nat /\ Left(t)
  <2>1. Number(b, k, x) >= m
    BY Numbered
  <2>2. QED
    BY <1>2, <2>1
<1>5. Partial(a, k) \in SUBSET Slots /\ EmptySlots(a) \in SUBSET Slots
  BY DEF Partial, EmptySlots
<1> HIDE DEF a, c, Left
<1>6. ASSUME NEW s \in Slots, Left(s)
      PROVE  /\ b[t] # Empty /\ b[s] # Empty => t <= s
             /\ b[t] = Empty => b[s] = Empty /\ t <= s
  <2>1. PICK y \in Room(b, k) : y[1] = s /\ Number(b, k, y) >= m
    BY <1>6 DEF Left
  <2>2. ~ Before(b, y, x) /\ (y = x \/ Before(b, x, y))
    BY <1>3, <2>1
  <2>3. s \in Nat /\ t \in Nat
    BY <1>2, <1>4, <2>1
  <2>4. QED
    BY <2>1, <2>2, <2>3 DEF Before
<1>7. ASSUME NEW s \in Slots, c(s) # 0
      PROVE  /\ b[t] # Empty => b[s] # Empty
             /\ b[t] = Empty /\ b[s] = Empty => s <= t
  <2>1. PICK y \in Room(b, k) : y[1] = s /\ Number(b, k, y) < m
    BY <1>1, <1>7
  <2>2. Before(b, y, x)
    BY <1>3, <2>1
  <2>3. s \in Nat /\ t \in Nat
    BY <1>2, <1>4, <2>1
  <2>4. QED
    BY <2>1, <2>2, <2>3 DEF Before
<1>8. \A s \in Slots : s \in Nat
  BY SlotsAreNat
<1>9. ASSUME NEW S, t \in S, S \in SUBSET Slots, \A s \in S : t <= s
      PROVE  Least(S) = t
  <2>1. \A s \in S : (\A z \in S : s <= z) => s <= t /\ s \in Nat
    BY <1>8, <1>9
  <2>2. QED
    BY <1>4, <1>9, <2>1 DEF Least
<1>10. CASE b[t] # Empty \/ c(t) # 0
  <2>1. t \in Partial(a, k)
    BY <1>1, <1>4, <1>10
  <2>2. ASSUME NEW s \in Partial(a, k) PROVE t <= s
    <3>1. s \in Slots /\ Left(s) /\ (b[s] # Empty \/ c(s) # 0)
      BY <1>1, <1>5
    <3>2. QED
      BY <1>6, <1>7, <3>1
  <2>3. Least(Partial(a, k)) = t
    BY <1>5, <1>9, <2>1, <2>2
  <2>4. QED
    BY <2>1, <2>3 DEF CanAddOne, AddOneSlot, a
<1>11. CASE b[t] = Empty /\ c(t) = 0
  <2>1. t \in EmptySlots(a)
    BY <1>1, <1>4, <1>11
  <2>2. Partial(a, k) = {}
    <3>1. SUFFICES ASSUME NEW s \in Partial(a, k) PROVE FALSE
      OBVIOUS
    <3>2. s \in Slots /\ Left(s) /\ (b[s] # Empty \/ c(s) # 0)
      BY <1>1, <1>5
    <3>3. b[s] = Empty /\ t <= s
      BY <1>6, <1>11, <3>2
    <3>4. s <= t
      BY <1>7, <1>11, <3>2, <3>3
    <3>5. s = t
      BY <1>4, <1>8, <3>2, <3>3, <3>4
    <3>6. QED
      BY <1>11, <3>2, <3>3, <3>5
  <2>3. ASSUME NEW s \in EmptySlots(a) PROVE t <= s
    <3>1. s \in Slots /\ Left(s) /\ b[s] = Empty
      BY <1>1, <1>5
    <3>2. QED
      BY <1>6, <1>11, <3>1
  <2>4. Least(EmptySlots(a)) = t
    BY <1>5, <1>9, <2>1, <2>3
  <2>5. QED
    BY <2>1, <2>2, <2>4 DEF CanAddOne, AddOneSlot, a
<1>12. QED
  BY <1>10, <1>11


\* A unit more is placed as AddOne places it, as long as one fits.
LEMMA AddedNext ==
    ASSUME NEW b \in Contents, NEW ix \in [AllSlots -> Nat], NEW k \in ItemIds, NEW m \in Nat
    PROVE  Added(b, ix, k, m + 1) =
              IF CanAddOne(Added(b, ix, k, m), k) THEN AddOne(Added(b, ix, k, m), ix, k)
              ELSE Added(b, ix, k, m)
<1> DEFINE a == Added(b, ix, k, m)
           d == Added(b, ix, k, m + 1)
           R == Room(b, k)
<1>1. a \in Contents /\ d \in Contents
  BY AddedInContents
<1>2. \A x \in R : Number(b, k, x) \in Nat
  BY Numbered
<1>3. ASSUME NEW s, \A x \in R : x[1] = s => Number(b, k, x) # m
      PROVE  PlacedIn(b, k, m + 1, s) = PlacedIn(b, k, m, s)
  <2>1. \A x \in R : x[1] = s => (Number(b, k, x) < m + 1 <=> Number(b, k, x) < m)
    BY <1>2, <1>3
  <2>2. QED
    BY <2>1 DEF PlacedIn, Number
<1>4. ASSUME NEW s \in AllSlots, \A x \in R : x[1] = s => Number(b, k, x) # m
      PROVE  d[s] = a[s]
  <2>1. PlacedIn(b, k, m + 1, s) = PlacedIn(b, k, m, s)
    BY <1>3, <1>4
  <2>2. DOMAIN b = AllSlots
    BY DEF Contents
  <2>3. QED
    BY <2>1, <2>2 DEF Added
<1>5. ASSUME NEW x \in R, Number(b, k, x) = m
      PROVE  d = AddOne(a, ix, k) /\ CanAddOne(a, k)
  <2> DEFINE t == x[1]
             c == Cardinality(PlacedIn(b, k, m, t))
             new(n) == [itemId |-> k, objid |-> ix[t], count |-> n, opt |-> Plain]
             more(n) == [b[t] EXCEPT !.count = b[t].count + n]
  <2>1. t \in AllSlots /\ t \in Slots /\ ix[t] \in Nat
    BY AllSlotsAreNat DEF Room
  <2>2. CanAddOne(a, k) /\ AddOneSlot(a, k) = t
    BY <1>5, NextPlace
  <2>3. AddOne(a, ix, k) = [a EXCEPT ![t] =
            IF a[t] # Empty THEN [a[t] EXCEPT !.count = a[t].count + 1] ELSE new(1)]
    BY <2>2 DEF AddOne
  <2>4. \A s \in AllSlots \ {t} : d[s] = a[s]
    <3>1. ASSUME NEW s \in AllSlots \ {t}, NEW y \in R, y[1] = s PROVE Number(b, k, y) # m
      BY <1>5, <3>1, Numbered
    <3>2. QED
      BY <1>4, <3>1
  <2>5. PlacedIn(b, k, m + 1, t) = PlacedIn(b, k, m, t) \cup {x} /\ x \notin PlacedIn(b, k, m, t)
    <3>1. \A y \in R : Number(b, k, y) < m + 1 <=> Number(b, k, y) < m \/ y = x
      BY <1>2, <1>5, Numbered
    <3>2. x \in R /\ ~ (Number(b, k, x) < m) /\ x[1] = t
      BY <1>5
    <3>3. QED
      BY <3>1, <3>2 DEF PlacedIn, Number
  <2>6. c \in Nat /\ Cardinality(PlacedIn(b, k, m + 1, t)) = c + 1
    <3>1. PlacedIn(b, k, m, t) \in SUBSET R
      BY DEF PlacedIn
    <3>2. IsFiniteSet(PlacedIn(b, k, m, t))
      BY <3>1, RoomFinite, FS_Subset
    <3>3. QED
      BY <2>5, <3>2, FS_AddElement, FS_CardinalityType
  <2>7. b[t] \in Item \cup {Empty}
    BY <2>1 DEF Contents
  <2>8. /\ c = 0 => a[t] = b[t]
        /\ c # 0 /\ b[t] # Empty => a[t] = more(c)
        /\ c # 0 /\ b[t] = Empty => a[t] = new(c)
        /\ b[t] # Empty => d[t] = more(c + 1)
        /\ b[t] = Empty => d[t] = new(c + 1)
    <3>1. m + 1 \in Nat /\ c + 1 # 0
      BY <2>6
    <3>2. /\ c = 0 => a[t] = b[t]
          /\ c # 0 /\ b[t] # Empty => a[t] = more(c)
          /\ c # 0 /\ b[t] = Empty => a[t] = new(c)
      BY <2>1, AddedSlot
    <3>3. /\ b[t] # Empty => d[t] = more(c + 1)
          /\ b[t] = Empty => d[t] = new(c + 1)
      <4> HIDE DEF d, new, more, t
      <4>1. \A e : e = Cardinality(PlacedIn(b, k, m + 1, t)) =>
              /\ e # 0 /\ b[t] # Empty => d[t] = more(e)
              /\ e # 0 /\ b[t] = Empty => d[t] = new(e)
        BY <2>1, <3>1, AddedSlot DEF d, new, more
      <4>2. QED
        BY <2>6, <3>1, <4>1
    <3>4. QED
      BY <3>2, <3>3
  <2> HIDE DEF a, d, c, t
  <2>9. d[t] = IF a[t] # Empty THEN [a[t] EXCEPT !.count = a[t].count + 1] ELSE new(1)
    <3>1. CASE b[t] # Empty
      <4>1. b[t] \in Item /\ b[t].count \in Nat
        BY <2>7, <3>1 DEF Item
      <4>2. CASE c = 0
        BY <2>8, <3>1, <4>2
      <4>3. CASE c # 0
        <5>1. more(c) \in Item
          <6>1. b[t].count + c \in Nat \ {0}
            BY <2>6, <4>1, <4>3
          <6>2. QED
            BY <4>1, <6>1 DEF Item
        <5>2. a[t] = more(c) /\ d[t] = more(c + 1) /\ a[t] # Empty
          BY <2>8, <3>1, <4>3, <5>1, EmptyAssumption
        <5>3. [more(c) EXCEPT !.count = more(c).count + 1] = more(c + 1)
          <6>1. more(c).count = b[t].count + c /\ (b[t].count + c) + 1 = b[t].count + (c + 1)
            BY <2>6, <4>1 DEF Item
          <6>2. \A y : [more(c) EXCEPT !.count = y] = [b[t] EXCEPT !.count = y]
            BY <4>1 DEF Item
          <6> HIDE DEF more
          <6>3. [more(c) EXCEPT !.count = more(c).count + 1]
                  = [b[t] EXCEPT !.count = b[t].count + (c + 1)]
            BY <6>1, <6>2
          <6>4. QED
            BY <6>3 DEF more
        <5>4. QED
          BY <5>2, <5>3
      <4>4. QED
        BY <4>2, <4>3
    <3>2. CASE b[t] = Empty
      <4>1. CASE c = 0
        BY <2>8, <3>2, <4>1
      <4>2. CASE c # 0
        <5>1. new(c) \in Item
          BY <2>1, <2>6, <4>2, BagAssumption DEF Item
        <5>2. a[t] = new(c) /\ d[t] = new(c + 1) /\ a[t] # Empty
          BY <2>8, <3>2, <4>2, <5>1, EmptyAssumption
        <5>3. [new(c) EXCEPT !.count = new(c).count + 1] = new(c + 1)
          BY <2>6
        <5>4. QED
          BY <5>2, <5>3
      <4>3. QED
        BY <4>1, <4>2
    <3>3. QED
      BY <3>1, <3>2
  <2>10. d = AddOne(a, ix, k)
    <3> DEFINE z == IF a[t] # Empty THEN [a[t] EXCEPT !.count = a[t].count + 1] ELSE new(1)
    <3> HIDE DEF z, new
    <3>1. d[t] = z /\ AddOne(a, ix, k) = [a EXCEPT ![t] = z]
      BY <2>3, <2>9 DEF z
    <3>2. DOMAIN a = AllSlots /\ DOMAIN d = AllSlots /\ d = [s \in AllSlots |-> d[s]]
      BY <1>1 DEF Contents
    <3>3. [a EXCEPT ![t] = z] = [s \in AllSlots |-> IF s = t THEN z ELSE a[s]]
      BY <3>2
    <3>4. \A s \in AllSlots : d[s] = IF s = t THEN z ELSE a[s]
      BY <2>4, <3>1
    <3>5. d = [s \in AllSlots |-> IF s = t THEN z ELSE a[s]]
      BY <3>2, <3>4
    <3>6. QED
      BY <3>1, <3>3, <3>5
  <2>11. QED
    BY <2>2, <2>10
<1>6. ASSUME \A x \in R : Number(b, k, x) # m
      PROVE  d = a /\ ~ CanAddOne(a, k)
  <2>1. d = a
    <3>1. \A s \in AllSlots : d[s] = a[s]
      BY <1>4, <1>6
    <3> HIDE DEF a, d
    <3>2. QED
      BY <1>1, <3>1 DEF Contents
  <2>2. \A x \in R : ~ (Number(b, k, x) >= m)
    <3>1. ASSUME NEW x \in R, Number(b, k, x) >= m PROVE FALSE
      <4>1. /\ Cardinality(R) \in Nat
            /\ Number(b, k, x) \in 0 .. (Cardinality(R) - 1)
        BY RoomFinite, Numbered
      <4>2. m \in 0 .. (Cardinality(R) - 1)
        BY <3>1, <4>1
      <4>3. \E y \in R : Number(b, k, y) = m
        BY <4>2, Numbered
      <4>4. QED
        BY <1>6, <4>3
    <3>2. QED
      BY <3>1
  <2>3. \A s \in Slots : s \notin Partial(a, k) /\ s \notin EmptySlots(a)
    BY <2>2, AddedRoom
  <2>4. QED
    BY <2>1, <2>3 DEF CanAddOne, Partial, EmptySlots
<1>7. QED
  BY <1>5, <1>6

LEMMA AddedNone ==
    ASSUME NEW b \in Contents, NEW ix \in [AllSlots -> Nat], NEW k \in ItemIds
    PROVE  Added(b, ix, k, 0) = b
<1>1. ASSUME NEW s \in AllSlots PROVE PlacedIn(b, k, 0, s) = {}
  <2>1. \A x \in Room(b, k) : ~ (Number(b, k, x) < 0)
    BY Numbered
  <2>2. QED
    BY <2>1 DEF PlacedIn, Number
<1>2. QED
  BY <1>1 DEF Added, Contents

\* addItem's two passes over n units are n calls of one unit.
LEMMA AddsUnitByUnit ==
    ASSUME TypeOK
    PROVE  AddsOneByOne
<1> SUFFICES ASSUME NEW k \in ItemIds
    PROVE  LET one[n \in Nat] ==
                IF n = 0 THEN bag
                ELSE IF CanAddOne(one[n - 1], k) THEN AddOne(one[n - 1], index, k)
                ELSE one[n - 1]
           IN  \A n \in 1 .. (2 * MaxStack) : Added(bag, index, k, n) = one[n]
  BY DEF AddsOneByOne
<1> DEFINE Is(f) == f = [n \in Nat |-> IF n = 0 THEN bag
                ELSE IF CanAddOne(f[n - 1], k) THEN AddOne(f[n - 1], index, k)
                ELSE f[n - 1]]
           g == [n \in Nat |-> Added(bag, index, k, n)]
           one == CHOOSE f : Is(f)
<1>1. bag \in Contents /\ index \in [AllSlots -> Nat]
  BY IndexIsNat DEF TypeOK
<1>2. Is(g)
  <2>1. ASSUME NEW n \in Nat
        PROVE  g[n] = IF n = 0 THEN bag
                      ELSE IF CanAddOne(g[n - 1], k) THEN AddOne(g[n - 1], index, k)
                      ELSE g[n - 1]
    <3>1. CASE n = 0
      BY <1>1, <3>1, AddedNone
    <3>2. CASE n # 0
      <4>1. n - 1 \in Nat /\ (n - 1) + 1 = n
        BY <3>2
      <4>2. g[n] = Added(bag, index, k, (n - 1) + 1) /\ g[n - 1] = Added(bag, index, k, n - 1)
        BY <4>1
      <4> HIDE DEF g
      <4>3. g[n] = IF CanAddOne(g[n - 1], k) THEN AddOne(g[n - 1], index, k) ELSE g[n - 1]
        BY <1>1, <4>1, <4>2, AddedNext
      <4>4. QED
        BY <3>2, <4>3
    <3>3. QED
      BY <3>1, <3>2
  <2>2. g = [n \in Nat |-> g[n]]
    OBVIOUS
  <2> HIDE DEF g
  <2>3. QED
    BY <2>1, <2>2
<1>3. Is(one)
  <2> HIDE DEF g, Is
  <2>1. QED
    BY <1>2
<1>4. \A n \in Nat : one[n] = IF n = 0 THEN bag
                ELSE IF CanAddOne(one[n - 1], k) THEN AddOne(one[n - 1], index, k)
                ELSE one[n - 1]
  <2> HIDE DEF one
  <2>1. QED
    BY <1>3
<1> HIDE DEF one
<1>5. ASSUME NEW n \in Nat PROVE Added(bag, index, k, n) = one[n]
  <2> DEFINE same == {m \in Nat : Added(bag, index, k, m) = one[m]}
  <2>1. 0 \in same
    BY <1>1, <1>4, AddedNone
  <2>2. ASSUME NEW m \in 1 .. n, m - 1 \in same PROVE m \in same
    <3>1. m - 1 \in Nat /\ (m - 1) + 1 = m /\ m # 0
      OBVIOUS
    <3>2. one[m] = IF CanAddOne(one[m - 1], k) THEN AddOne(one[m - 1], index, k) ELSE one[m - 1]
      BY <1>4, <3>1
    <3>3. Added(bag, index, k, (m - 1) + 1)
            = IF CanAddOne(Added(bag, index, k, m - 1), k)
              THEN AddOne(Added(bag, index, k, m - 1), index, k)
              ELSE Added(bag, index, k, m - 1)
      BY <1>1, <3>1, AddedNext
    <3>4. Added(bag, index, k, m - 1) = one[m - 1]
      BY <2>2
    <3>5. QED
      BY <3>1, <3>2, <3>3, <3>4
  <2>3. n \in same
    <3> HIDE DEF same
    <3>1. n \in 0 .. n
      OBVIOUS
    <3>2. QED
      BY <2>1, <2>2, <3>1, UpTo
  <2>4. QED
    BY <2>3
<1>6. QED
  BY <1>5, BagAssumption DEF one, Is


\* The main bag, which is all that addItem and canFit look at.
MainBag(b) == [s \in Slots |-> b[s]]

LEMMA MainBagFacts ==
    ASSUME NEW b \in Contents, NEW k \in ItemIds
    PROVE  /\ MainBag(b) \in Bags
           /\ SpaceFor(MainBag(b), k) = SpaceFor(b, k) /\ SpaceFor(b, k) \in Nat
           /\ \A j : Held(MainBag(b), j) = Held(b, j)
           /\ Partial(MainBag(b), k) = Partial(b, k) /\ EmptySlots(MainBag(b)) = EmptySlots(b)
           /\ CanAddOne(b, k) <=> SpaceFor(b, k) # 0
           /\ CanAddOne(b, k) => AddOneSlot(b, k) \in Slots
<1>1. MainBag(b) \in Bags
  BY AllSlotsAreNat DEF MainBag, Contents, Bags, BagsOn
<1>2. \A s \in Slots : MainBag(b)[s] = b[s]
  BY DEF MainBag
<1>3. /\ Partial(MainBag(b), k) = Partial(b, k) /\ EmptySlots(MainBag(b)) = EmptySlots(b)
  BY <1>2 DEF Partial, EmptySlots
<1>4. SpaceFor(MainBag(b), k) = SpaceFor(b, k) /\ \A j : Held(MainBag(b), j) = Held(b, j)
  <2>1. [s \in Slots |-> Headroom(MainBag(b)[s], k)] = [s \in Slots |-> Headroom(b[s], k)]
    BY <1>2
  <2>2. \A j : [s \in Slots |-> CountOf(MainBag(b)[s], j)] = [s \in Slots |-> CountOf(b[s], j)]
    BY <1>2
  <2>3. QED
    BY <2>1, <2>2 DEF SpaceFor, Held
<1>5. CanAddOne(b, k) <=> SpaceFor(b, k) # 0
  <2>1. CanAddOne(MainBag(b), k) <=> SpaceFor(MainBag(b), k) # 0
    BY <1>1, CanAddIsSpace
  <2>2. QED
    BY <1>3, <1>4, <2>1 DEF CanAddOne
<1>6. SpaceFor(b, k) \in Nat
  BY <1>1, <1>4, HeldType
<1>7. CanAddOne(b, k) => AddOneSlot(b, k) \in Slots
  <2>1. Partial(b, k) \in SUBSET Slots /\ EmptySlots(b) \in SUBSET Slots
    BY DEF Partial, EmptySlots
  <2>2. \A S \in SUBSET Slots : S # {} => Least(S) \in S
    BY SlotsAreNat, LeastOf
  <2>3. QED
    BY <2>1, <2>2 DEF CanAddOne, AddOneSlot
<1>8. QED
  BY <1>1, <1>3, <1>4, <1>5, <1>6, <1>7

\* A bag of which one slot has changed.
LEMMA UnitsAfter ==
    ASSUME NEW b \in Contents, NEW c \in Contents, NEW t \in AllSlots,
           \A s \in AllSlots \ {t} : b[s] = c[s], NEW k
    PROVE  /\ Units(b, k) \in Nat
           /\ Units(c, k) - Units(b, k) = CountOf(c[t], k) - CountOf(b[t], k)
           /\ Units(c, k) \in Nat
<1> DEFINE f == [s \in AllSlots |-> CountOf(b[s], k)]
           h == [s \in AllSlots |-> CountOf(c[s], k)]
<1>1. \A s \in AllSlots : f[s] \in Nat /\ h[s] \in Nat
  <2>1. \A s \in AllSlots : b[s] \in Item \cup {Empty} /\ c[s] \in Item \cup {Empty}
    BY DEF Contents
  <2>2. QED
    BY <2>1, CountType
<1>2. IsFiniteSet(AllSlots)
  <2>1. IsFiniteSet(0 .. (BagSize + MaxParts))
    BY FS_Interval, BagAssumption, BagPartsAssumption DEF BagAssumption, BagPartsAssumption
  <2>2. AllSlots \in SUBSET (0 .. (BagSize + MaxParts))
    BY BagAssumption, BagPartsAssumption
       DEF AllSlots, Slots, Parts, EquipSlot, BagAssumption, BagPartsAssumption
  <2>3. QED
    BY <2>1, <2>2, FS_Subset
<1>3. /\ \A s \in AllSlots \ {t} : f[s] = h[s]
      /\ f[t] = CountOf(b[t], k) /\ h[t] = CountOf(c[t], k)
  OBVIOUS
<1>4. Units(b, k) = SumFunctionOnSet(f, AllSlots) /\ Units(c, k) = SumFunctionOnSet(h, AllSlots)
  BY DEF Units, SumFunction
<1> HIDE DEF f, h
<1>5. SumFunctionOnSet(f, AllSlots) \in Nat /\ SumFunctionOnSet(h, AllSlots) \in Nat
  BY <1>1, <1>2, SumNat
<1>6. SumFunctionOnSet(h, AllSlots) - SumFunctionOnSet(f, AllSlots) = h[t] - f[t]
  <2>1. \A s \in AllSlots : f[s] \in Int /\ h[s] \in Int
    BY <1>1
  <2>2. QED
    BY <1>2, <1>3, <2>1, SumChanged
<1>7. QED
  BY <1>3, <1>4, <1>5, <1>6

\* AddOne adds one unit and takes one unit of room.
LEMMA OneMore ==
    ASSUME NEW b \in Contents, NEW ix \in [AllSlots -> Nat], NEW k \in ItemIds, CanAddOne(b, k)
    PROVE  /\ AddOne(b, ix, k) \in Contents
           /\ SpaceFor(AddOne(b, ix, k), k) = SpaceFor(b, k) - 1
           /\ Units(AddOne(b, ix, k), k) = Units(b, k) + 1
<1> DEFINE t == AddOneSlot(b, k)
           c == AddOne(b, ix, k)
           jx == [s \in Slots |-> ix[s]]
           z == IF b[t] # Empty THEN [b[t] EXCEPT !.count = b[t].count + 1]
                ELSE [itemId |-> k, objid |-> ix[t], count |-> 1, opt |-> Plain]
<1>1. /\ MainBag(b) \in Bags /\ SpaceFor(MainBag(b), k) = SpaceFor(b, k)
      /\ SpaceFor(b, k) # 0 /\ SpaceFor(b, k) \in Nat
      /\ Held(MainBag(b), k) = Held(b, k)
      /\ t \in Slots /\ t \in AllSlots /\ AddOneSlot(MainBag(b), k) = t
      /\ \A s \in Slots : MainBag(b)[s] = b[s]
  BY MainBagFacts, AllSlotsAreNat DEF AddOneSlot, MainBag
<1>2. jx \in [Slots -> Nat] /\ jx[t] = ix[t] /\ ix[t] \in Nat
  BY <1>1, AllSlotsAreNat
<1>3. c = [b EXCEPT ![t] = z]
  BY DEF AddOne
<1>4. z \in Item
  <2>1. b[t] \in Item \cup {Empty}
    BY <1>1 DEF Contents
  <2>2. CASE b[t] # Empty
    <3>1. b[t] \in Item /\ b[t].count + 1 \in Nat \ {0}
      BY <2>1, <2>2 DEF Item
    <3>2. QED
      BY <2>2, <3>1 DEF Item
  <2>3. CASE b[t] = Empty
    BY <1>2, <2>3, BagAssumption DEF Item
  <2>4. QED
    BY <2>2, <2>3
<1>5. AddOne(MainBag(b), jx, k) = [MainBag(b) EXCEPT ![t] = z]
  BY <1>1, <1>2 DEF AddOne
<1> HIDE DEF z, c, t
<1>6. c \in Contents /\ c[t] = z /\ \A s \in AllSlots \ {t} : b[s] = c[s]
  BY <1>1, <1>3, <1>4 DEF Contents
<1>7. AddOne(MainBag(b), jx, k) = MainBag(c)
  <2>1. \A s \in Slots : c[s] = IF s = t THEN z ELSE b[s]
    BY <1>6, AllSlotsAreNat
  <2>2. QED
    BY <1>1, <1>5, <2>1 DEF MainBag
<1>8. /\ SpaceFor(MainBag(c), k) = SpaceFor(MainBag(b), k) - 1
      /\ Held(MainBag(c), k) = Held(MainBag(b), k) + 1
  BY <1>1, <1>2, <1>7, AddOneCounts
<1>9. SpaceFor(MainBag(c), k) = SpaceFor(c, k) /\ Held(MainBag(c), k) = Held(c, k) /\ MainBag(c) \in Bags
  BY <1>6, MainBagFacts
<1>10. /\ Held(MainBag(b), k) \in Nat /\ Held(MainBag(c), k) \in Nat
       /\ Held(MainBag(c), k) - Held(MainBag(b), k) = CountOf(MainBag(c)[t], k) - CountOf(MainBag(b)[t], k)
  <2>1. \A s \in Slots \ {t} : MainBag(b)[s] = MainBag(c)[s]
    BY <1>6, AllSlotsAreNat DEF MainBag
  <2>2. QED
    BY <1>1, <1>9, <2>1, HeldAfter
<1>11. MainBag(c)[t] = c[t] /\ MainBag(b)[t] = b[t]
  BY <1>1 DEF MainBag
<1>12. /\ Units(b, k) \in Nat /\ Units(c, k) \in Nat
       /\ Units(c, k) - Units(b, k) = CountOf(c[t], k) - CountOf(b[t], k)
  BY <1>1, <1>6, UnitsAfter
<1>13. Units(c, k) - Units(b, k) = 1
  BY <1>8, <1>10, <1>11, <1>12
<1>14. Units(c, k) = Units(b, k) + 1
  BY <1>12, <1>13
<1>15. QED
  BY <1>1, <1>6, <1>8, <1>9, <1>14 DEF c

\* Of n units as many are placed as there is room for.
LEMMA AddedCounts ==
    ASSUME NEW b \in Contents, NEW ix \in [AllSlots -> Nat], NEW k \in ItemIds, NEW n \in Nat
    PROVE  /\ Units(b, k) \in Nat /\ SpaceFor(b, k) \in Nat
           /\ Units(Added(b, ix, k, n), k) = Units(b, k) + Smaller(n, SpaceFor(b, k))
<1> DEFINE space == SpaceFor(b, k)
           Right(m) == LET a == Added(b, ix, k, m)
                       IN  /\ SpaceFor(a, k) = space - Smaller(m, space)
                           /\ Units(a, k) = Units(b, k) + Smaller(m, space)
           right == {m \in 0 .. n : Right(m)}
<1>1. space \in Nat /\ Units(b, k) \in Nat
  <2>1. 0 \in AllSlots /\ \A s \in AllSlots \ {0} : b[s] = b[s]
    BY AllSlotsAreNat, BagAssumption DEF Slots, BagAssumption
  <2>2. QED
    BY <2>1, MainBagFacts, UnitsAfter
<1> HIDE DEF space
<1>2. 0 \in right
  <2>1. Smaller(0, space) = 0 /\ SpaceFor(b, k) = space - 0 /\ Units(b, k) = Units(b, k) + 0
    BY <1>1 DEF Smaller, space
  <2>2. QED
    BY <2>1, AddedNone
<1>3. ASSUME NEW m \in 1 .. n, m - 1 \in right PROVE m \in right
  <2> DEFINE a == Added(b, ix, k, m - 1)
             had == Smaller(m - 1, space)
  <2>1. m - 1 \in Nat /\ (m - 1) + 1 = m /\ m \in 0 .. n
    OBVIOUS
  <2>2. a \in Contents
    BY <2>1, AddedInContents
  <2>3. Added(b, ix, k, m) = IF CanAddOne(a, k) THEN AddOne(a, ix, k) ELSE a
    <3>1. Added(b, ix, k, (m - 1) + 1) = IF CanAddOne(a, k) THEN AddOne(a, ix, k) ELSE a
      BY <2>1, AddedNext
    <3>2. QED
      BY <2>1, <3>1
  <2>4. SpaceFor(a, k) = space - had /\ Units(a, k) = Units(b, k) + had
    BY <1>3
  <2> HIDE DEF a
  <2>5. CanAddOne(a, k) <=> SpaceFor(a, k) # 0
    BY <2>2, MainBagFacts
  <2>6. had \in Nat
    BY <1>1, <2>1 DEF Smaller
  <2>7. CASE SpaceFor(a, k) # 0
    <3>1. SpaceFor(AddOne(a, ix, k), k) = SpaceFor(a, k) - 1 /\ Units(AddOne(a, ix, k), k) = Units(a, k) + 1
      BY <2>2, <2>5, <2>7, OneMore
    <3>2. Smaller(m, space) = had + 1
      BY <1>1, <2>4, <2>7 DEF Smaller
    <3> HIDE DEF had
    <3>3. Right(m)
      BY <1>1, <2>3, <2>4, <2>5, <2>6, <2>7, <3>1, <3>2
    <3>4. QED
      BY <2>1, <3>3
  <2>8. CASE SpaceFor(a, k) = 0
    <3>1. Smaller(m, space) = had
      BY <1>1, <2>4, <2>8 DEF Smaller
    <3>2. Right(m)
      BY <2>3, <2>4, <2>5, <2>8, <3>1
    <3>3. QED
      BY <2>1, <3>2
  <2>9. QED
    BY <2>7, <2>8
<1>4. n \in right
  <2> HIDE DEF right
  <2>1. n \in 0 .. n
    OBVIOUS
  <2>2. QED
    BY <1>2, <1>3, <2>1, UpTo
<1>5. QED
  BY <1>1, <1>4 DEF space

\* Whatever is in the bag, canFit promises exactly what addItem does, and addItem
\* of n units does what n calls of one unit do.
THEOREM AddsWhatWasPromised == Spec => []AddsAsPromised
<1>1. TypeOK => AddsAsPromised
  <2> SUFFICES ASSUME TypeOK PROVE CanFitIsExact
    BY AddsUnitByUnit DEF AddsAsPromised
  <2> SUFFICES ASSUME NEW k \in ItemIds, NEW n \in 1 .. (2 * MaxStack)
               PROVE  CanFit(bag, k, n) <=> Units(Added(bag, index, k, n), k) = Units(bag, k) + n
    BY DEF CanFitIsExact
  <2>1. bag \in Contents /\ index \in [AllSlots -> Nat] /\ n \in Nat
    BY IndexIsNat, BagAssumption DEF TypeOK
  <2>2. /\ Units(bag, k) \in Nat /\ SpaceFor(bag, k) \in Nat
        /\ Units(Added(bag, index, k, n), k) = Units(bag, k) + Smaller(n, SpaceFor(bag, k))
    BY <2>1, AddedCounts
  <2>3. CanFit(bag, k, n) <=> SpaceFor(bag, k) >= n
    BY DEF CanFit
  <2>4. QED
    BY <2>1, <2>2, <2>3 DEF Smaller
<1>2. QED
  BY <1>1, TypeCorrect, PTL

------------------------------------------------------------------------------
(* Sessions.  The queue of callers is popped at its head and pushed at its   *)
(* end, and each caller is fit to go on when its turn comes.                 *)

IsJoin(c) == c.step \in {"character", "items", "rest"}
IsClosing(c) == c.step \in {"save", "leave"}
IsClaim(c) == c.step \in Claims

\* Calls that are no JOIN, no claim and no flush.
Neutral(c) == ~IsJoin(c) /\ ~IsClaim(c) /\ ~IsClosing(c)

SessionTyped ==
    /\ calls \in Seq(Calls)
    /\ socket \in [Sockets -> {"new", "joining", "dropped", "inWorld", "closed"}]
    /\ current \in Sockets \cup {None} /\ player \in {None, current}
    /\ aside \in [Sockets -> Carried \cup {None}]
    /\ letters \in [Letters -> Letter \cup {None}]
    /\ news \in [Letters -> {"unwritten", "untold", "told"}]
    /\ box \in BOOLEAN

\* A JOIN is of a connection that has not entered, and has its rows once it has read
\* them; a claim is of a letter, and its CPlayer still has a bag.
Fit(c, sock, cu, as) ==
    /\ IsJoin(c) => sock[c.of] \in {"joining", "dropped"}
    /\ c.step \in {"items", "rest"} => c.rows \in Rows
    /\ IsClaim(c) => c.mail \in Letters /\ (c.of = cu \/ as[c.of] \in Carried)

\* A connection joins once.
Once(q) == \A i, j \in DOMAIN q : IsJoin(q[i]) /\ IsJoin(q[j]) /\ q[i].of = q[j].of => i = j

Queue(q, sock, cu, as) == (\A i \in DOMAIN q : Fit(q[i], sock, cu, as)) /\ Once(q)

Closes(q) == \E i \in DOMAIN q : IsClosing(q[i])

\* Who is registered with its connection closed is about to be removed.
Registered(q, sock, pl) == pl # None /\ sock[pl] = "closed" => Closes(q)

SInv ==
    /\ IInv(FALSE) /\ SessionTyped
    /\ Queue(calls, socket, current, aside) /\ Registered(calls, socket, player)

\* Popping a call, appending one, and both.
LEMMA Popped ==
    ASSUME NEW q \in Seq(Calls), q # << >>
    PROVE  /\ Tail(q) \in Seq(Calls) /\ 1 \in DOMAIN q /\ Head(q) = q[1] /\ q[1] \in Calls
           /\ DOMAIN Tail(q) \in SUBSET Nat
           /\ \A i \in DOMAIN Tail(q) : i + 1 \in DOMAIN q /\ i + 1 # 1 /\ Tail(q)[i] = q[i + 1]
           /\ \A i \in DOMAIN q : i # 1 => i - 1 \in DOMAIN Tail(q) /\ Tail(q)[i - 1] = q[i]
OBVIOUS

LEMMA Pushed ==
    ASSUME NEW q \in Seq(Calls), NEW c \in Calls
    PROVE  /\ Append(q, c) \in Seq(Calls) /\ Len(q) + 1 \in DOMAIN Append(q, c)
           /\ Append(q, c)[Len(q) + 1] = c
           /\ \A i \in DOMAIN q : i \in Nat /\ i < Len(q) + 1 /\ i \in DOMAIN Append(q, c)
                                  /\ Append(q, c)[i] = q[i]
           /\ \A i \in DOMAIN Append(q, c) : i \in DOMAIN q \/ i = Len(q) + 1
OBVIOUS

LEMMA PushFits ==
    ASSUME NEW q \in Seq(Calls), NEW c \in Calls, NEW sock, NEW cu, NEW as,
           Queue(q, sock, cu, as), Fit(c, sock, cu, as),
           IsJoin(c) => \A i \in DOMAIN q : IsJoin(q[i]) => q[i].of # c.of
    PROVE  /\ Append(q, c) \in Seq(Calls) /\ Queue(Append(q, c), sock, cu, as)
           /\ Closes(q) \/ IsClosing(c) => Closes(Append(q, c))
<1> DEFINE r == Append(q, c)
           n == Len(q) + 1
<1>1. /\ r \in Seq(Calls) /\ n \in DOMAIN r /\ r[n] = c
      /\ \A i \in DOMAIN q : i \in DOMAIN r /\ r[i] = q[i]
      /\ \A i \in DOMAIN r : (i \in DOMAIN q /\ r[i] = q[i]) \/ (i = n /\ r[i] = c)
  BY Pushed
<1> HIDE DEF r, n
<1>2. \A i \in DOMAIN r : Fit(r[i], sock, cu, as)
  BY <1>1 DEF Queue
<1>3. Once(r)
  BY <1>1 DEF Queue, Once
<1>4. Closes(q) \/ IsClosing(c) => Closes(r)
  BY <1>1 DEF Closes
<1>5. QED
  BY <1>1, <1>2, <1>3, <1>4 DEF Queue, r

LEMMA PopFits ==
    ASSUME NEW q \in Seq(Calls), q # << >>, NEW sock, NEW cu, NEW as, Queue(q, sock, cu, as)
    PROVE  /\ Tail(q) \in Seq(Calls) /\ Queue(Tail(q), sock, cu, as)
           /\ Head(q) \in Calls /\ Fit(Head(q), sock, cu, as)
           /\ Closes(q) /\ ~IsClosing(Head(q)) => Closes(Tail(q))
           /\ IsJoin(Head(q)) =>
                 \A i \in DOMAIN Tail(q) : IsJoin(Tail(q)[i]) => Tail(q)[i].of # Head(q).of
<1> DEFINE r == Tail(q)
<1>1. /\ r \in Seq(Calls) /\ 1 \in DOMAIN q /\ Head(q) = q[1] /\ q[1] \in Calls
      /\ DOMAIN r \in SUBSET Nat
      /\ \A i \in DOMAIN r : i + 1 \in DOMAIN q /\ i + 1 # 1 /\ r[i] = q[i + 1]
      /\ \A i \in DOMAIN q : i # 1 => i - 1 \in DOMAIN r /\ r[i - 1] = q[i]
  BY Popped
<1> HIDE DEF r
<1>2. (\A i \in DOMAIN r : Fit(r[i], sock, cu, as)) /\ Fit(Head(q), sock, cu, as)
  BY <1>1 DEF Queue
<1>3. Once(r)
  <2> SUFFICES ASSUME NEW i \in DOMAIN r, NEW j \in DOMAIN r,
                      IsJoin(r[i]), IsJoin(r[j]), r[i].of = r[j].of
               PROVE  i = j
    BY DEF Once
  <2>0. /\ i + 1 \in DOMAIN q /\ r[i] = q[i + 1] /\ i \in Nat
        /\ j + 1 \in DOMAIN q /\ r[j] = q[j + 1] /\ j \in Nat
    BY <1>1
  <2>1. i + 1 = j + 1
    BY <2>0 DEF Queue, Once
  <2>2. QED
    BY <2>0, <2>1
<1>4. Closes(q) /\ ~IsClosing(Head(q)) => Closes(r)
  BY <1>1 DEF Closes
<1>5. IsJoin(Head(q)) => \A i \in DOMAIN r : IsJoin(r[i]) => r[i].of # Head(q).of
  BY <1>1 DEF Queue, Once
<1>6. QED
  BY <1>1, <1>2, <1>3, <1>4, <1>5 DEF Queue, r

\* The caller at the head goes to the end of the queue with its next call.
LEMMA TurnFits ==
    ASSUME NEW q \in Seq(Calls), q # << >>, NEW c \in Calls, NEW sock, NEW cu, NEW as,
           Queue(q, sock, cu, as), Fit(c, sock, cu, as),
           IsJoin(c) => IsJoin(Head(q)) /\ c.of = Head(q).of,
           IsClosing(Head(q)) => IsClosing(c)
    PROVE  /\ Append(Tail(q), c) \in Seq(Calls) /\ Queue(Append(Tail(q), c), sock, cu, as)
           /\ Closes(q) => Closes(Append(Tail(q), c))
<1>1. /\ Tail(q) \in Seq(Calls) /\ Queue(Tail(q), sock, cu, as)
      /\ Closes(q) /\ ~IsClosing(Head(q)) => Closes(Tail(q))
      /\ IsJoin(Head(q)) =>
            \A i \in DOMAIN Tail(q) : IsJoin(Tail(q)[i]) => Tail(q)[i].of # Head(q).of
  BY PopFits
<1>2. IsJoin(c) => \A i \in DOMAIN Tail(q) : IsJoin(Tail(q)[i]) => Tail(q)[i].of # c.of
  BY <1>1
<1>3. /\ Append(Tail(q), c) \in Seq(Calls) /\ Queue(Append(Tail(q), c), sock, cu, as)
      /\ Closes(Tail(q)) \/ IsClosing(c) => Closes(Append(Tail(q), c))
  BY <1>1, <1>2, PushFits
<1>4. QED
  BY <1>1, <1>3

LEMMA CallsOf ==
    ASSUME NEW q \in Seq(Calls)
    PROVE  \A i \in DOMAIN q : q[i] \in Calls /\ q[i].of \in Sockets
<1>1. \A i \in DOMAIN q : q[i] \in Calls
  OBVIOUS
<1>2. QED
  BY <1>1 DEF Calls

LEMMA NeutralFits == \A c, sock, cu, as : Neutral(c) => Fit(c, sock, cu, as)
  BY DEF Neutral, Fit, IsJoin

LEMMA CallType ==
    ASSUME NEW s \in Sockets, NEW step \in Steps
    PROVE  /\ Call(s, step) \in Calls
           /\ Call(s, step).of = s /\ Call(s, step).step = step
  BY DEF Call, Calls

LEMMA NeutralCalls ==
    ASSUME NEW s \in Sockets
    PROVE  /\ \A step \in {"marked", "list", "count"} :
                 Call(s, step) \in Calls /\ Neutral(Call(s, step))
           /\ CountPending(s) \in Calls /\ Neutral(CountPending(s))
<1>1. \A step \in {"marked", "list", "count"} :
          Call(s, step) \in Calls /\ Neutral(Call(s, step))
  BY CallType DEF Steps, Neutral, IsJoin, IsClosing, IsClaim, Claims
<1>2. Pending \in BOOLEAN
  BY DEF Pending
<1>3. CountPending(s) \in Calls /\ CountPending(s).step = "count"
  BY <1>1, <1>2, CallType DEF CountPending, Calls, Steps
<1>4. QED
  BY <1>1, <1>3 DEF Neutral, IsJoin, IsClosing, IsClaim, Claims

LEMMA Resuming ==
    ASSUME SInv, NEW step, Resumed(step)
    PROVE  /\ calls \in Seq(Calls) /\ calls # << >> /\ Head(calls) \in Calls
           /\ 1 \in DOMAIN calls /\ calls[1] = Head(calls)
           /\ Head(calls).step = step /\ Caller \in Sockets /\ Caller = Head(calls).of
           /\ Fit(Head(calls), socket, current, aside)
<1>1. calls \in Seq(Calls) /\ calls # << >> /\ Head(calls).step = step
  BY DEF SInv, SessionTyped, Resumed
<1>2. Head(calls) \in Calls /\ 1 \in DOMAIN calls /\ calls[1] = Head(calls)
  BY <1>1, Popped
<1>3. QED
  BY <1>1, <1>2 DEF Caller, Calls, SInv, Queue

LEMMA Claiming ==
    ASSUME SInv, NEW kind \in Claims, Claim(kind)
    PROVE  /\ calls \in Seq(Calls) /\ calls # << >> /\ Head(calls) \in Calls /\ Caller \in Sockets
           /\ IsClaim(Head(calls)) /\ ~IsJoin(Head(calls)) /\ ~IsClosing(Head(calls))
           /\ Head(calls).mail \in Letters /\ Row1 \in Letter
           /\ Caller = current \/ aside[Caller] \in Carried
<1>1. Resumed(kind) /\ Row1 # None
  BY DEF Claim
<1>2. /\ calls \in Seq(Calls) /\ calls # << >> /\ Head(calls) \in Calls /\ Caller \in Sockets
      /\ Caller = Head(calls).of /\ Head(calls).step \in Claims
      /\ Fit(Head(calls), socket, current, aside)
  BY <1>1, Resuming
<1>3. IsClaim(Head(calls)) /\ ~IsJoin(Head(calls)) /\ ~IsClosing(Head(calls))
  BY <1>2 DEF IsClaim, IsJoin, IsClosing, Claims
<1>4. Head(calls).mail \in Letters /\ (Caller = current \/ aside[Caller] \in Carried)
  BY <1>2, <1>3 DEF Fit
<1>5. Row1 \in Letter
  BY <1>1, <1>2 DEF Row1, Calls
<1>6. QED
  BY <1>2, <1>3, <1>4, <1>5

LEMMA MarkedType ==
    ASSUME letters \in [Letters -> Letter \cup {None}], Head(calls).mail \in Letters,
           NEW field \in {"read", "takenItem", "takenGold"}
    PROVE  Marked(field) \in [Letters -> Letter \cup {None}]
<1> DEFINE m == Head(calls).mail
<1>1. CASE letters[m] # None
  <2>1. letters[m] \in Letter
    BY <1>1
  <2>2. [letters[m] EXCEPT ![field] = TRUE] \in Letter
    BY <2>1 DEF Letter
  <2>3. QED
    BY <1>1, <2>2 DEF Marked
<1>2. QED
  BY <1>1 DEF Marked

\* Steps that leave the connections and the bags alone.
LEMMA QueueKeeps ==
    ASSUME SInv, UNCHANGED <<vars, socket, player, current, aside>>,
           calls' \in Seq(Calls), Queue(calls', socket, current, aside), Closes(calls) => Closes(calls'),
           letters' \in [Letters -> Letter \cup {None}],
           news' \in [Letters -> {"unwritten", "untold", "told"}], box' \in BOOLEAN
    PROVE  SInv'
<1>1. IInv(FALSE)'
  BY DEF SInv, IInv, TypeOK, vars
<1>2. SessionTyped'
  BY DEF SInv, SessionTyped
<1>3. Queue(calls, socket, current, aside)' /\ Registered(calls, socket, player)'
  BY DEF SInv, Registered
<1>4. QED
  BY <1>1, <1>2, <1>3 DEF SInv

\* A call of no JOIN and no flush gives way to a neutral one, or to none.
LEMMA Answered ==
    ASSUME SInv, calls # << >>, ~IsClosing(Head(calls)), NEW c \in Calls, Neutral(c),
           calls' = Tail(calls) \/ calls' = Append(Tail(calls), c)
    PROVE  /\ calls' \in Seq(Calls) /\ Queue(calls', socket, current, aside)
           /\ Closes(calls) => Closes(calls')
<1>1. calls \in Seq(Calls) /\ Queue(calls, socket, current, aside) /\ Fit(c, socket, current, aside)
  BY NeutralFits DEF SInv, SessionTyped
<1>2. CASE calls' = Tail(calls)
  <2>1. /\ Tail(calls) \in Seq(Calls) /\ Queue(Tail(calls), socket, current, aside)
        /\ Closes(calls) /\ ~IsClosing(Head(calls)) => Closes(Tail(calls))
    BY <1>1, PopFits
  <2>2. QED
    BY <1>2, <2>1
<1>3. CASE calls' = Append(Tail(calls), c)
  <2>1. ~IsJoin(c)
    BY DEF Neutral
  <2>2. /\ Append(Tail(calls), c) \in Seq(Calls)
        /\ Queue(Append(Tail(calls), c), socket, current, aside)
        /\ Closes(calls) => Closes(Append(Tail(calls), c))
    BY <1>1, <2>1, TurnFits
  <2>3. QED
    BY <1>3, <2>2
<1>4. QED
  BY <1>2, <1>3

------------------------------------------------------------------------------
(* Mail steps.                                                               *)

LEMMA AskKeeps ==
    ASSUME SInv, NEW m \in Letters, NEW kind \in Claims, Ask(kind, m)
    PROVE  SInv'
<1> DEFINE c == [Call(player, kind) EXCEPT !.mail = m, !.row = letters[m]]
<1>1. /\ calls \in Seq(Calls) /\ player \in Sockets /\ player = current
      /\ letters[m] \in Letter \cup {None} /\ Queue(calls, socket, current, aside)
  BY DEF Ask, MayAsk, SInv, SessionTyped
<1>2. c \in Calls /\ c.step = kind /\ c.of = player /\ c.mail = m
  <2>1. kind \in Steps
    BY DEF Steps
  <2>2. /\ Call(player, kind) \in Calls /\ Call(player, kind).of = player
        /\ Call(player, kind).step = kind
    BY <1>1, <2>1, CallType
  <2>3. QED
    BY <1>1, <2>2 DEF Calls
<1>3. calls' = Append(calls, c) /\ UNCHANGED <<vars, socket, player, current, aside, mail>>
  BY DEF Ask
<1> HIDE DEF c
<1>4. ~IsJoin(c) /\ Fit(c, socket, current, aside)
  BY <1>1, <1>2 DEF IsJoin, Fit, Claims
<1>5. /\ Append(calls, c) \in Seq(Calls) /\ Queue(Append(calls, c), socket, current, aside)
      /\ Closes(calls) \/ IsClosing(c) => Closes(Append(calls, c))
  BY <1>1, <1>2, <1>4, PushFits
<1>6. QED
  BY <1>3, <1>5, QueueKeeps DEF mail, SInv, SessionTyped

LEMMA PushListKeeps ==
    ASSUME SInv, player # None, calls' = Append(calls, Call(player, "list")),
           UNCHANGED <<vars, socket, player, current, aside, letters, box>>,
           news' \in [Letters -> {"unwritten", "untold", "told"}]
    PROVE  SInv'
<1> DEFINE c == Call(player, "list")
<1>1. player \in Sockets /\ calls \in Seq(Calls) /\ Queue(calls, socket, current, aside)
  BY DEF SInv, SessionTyped
<1>2. c \in Calls /\ ~IsJoin(c) /\ Fit(c, socket, current, aside)
  BY <1>1, NeutralCalls, NeutralFits DEF Neutral
<1> HIDE DEF c
<1>3. /\ Append(calls, c) \in Seq(Calls) /\ Queue(Append(calls, c), socket, current, aside)
      /\ Closes(calls) \/ IsClosing(c) => Closes(Append(calls, c))
  BY <1>1, <1>2, PushFits
<1>4. QED
  BY <1>3, QueueKeeps DEF SInv, SessionTyped, c

LEMMA SyncModeKeeps ==
    ASSUME SInv, SyncMode
    PROVE  SInv'
<1>1. PICK step \in {"list", "marked"} : Resumed(step)
  BY DEF SyncMode
<1>2. calls # << >> /\ Caller \in Sockets /\ Head(calls).step = step
  BY <1>1, Resuming
<1>3. ~IsClosing(Head(calls))
  BY <1>2 DEF IsClosing
<1>4. CountPending(Caller) \in Calls /\ Neutral(CountPending(Caller))
  BY <1>2, NeutralCalls
<1>5. /\ calls' \in Seq(Calls) /\ Queue(calls', socket, current, aside)
      /\ Closes(calls) => Closes(calls')
  BY <1>2, <1>3, <1>4, Answered DEF SyncMode, Await
<1>6. QED
  BY <1>5, QueueKeeps DEF SyncMode, mail, SInv, SessionTyped

LEMMA SyncedKeeps ==
    ASSUME SInv, Synced
    PROVE  SInv'
<1>1. /\ calls # << >> /\ Head(calls) \in Calls /\ Head(calls).step = "count" /\ Caller \in Sockets
  BY Resuming DEF Synced
<1>2. ~IsClosing(Head(calls))
  BY <1>1 DEF IsClosing
<1>3. CountPending(Caller) \in Calls /\ Neutral(CountPending(Caller))
  BY <1>1, NeutralCalls
<1>4. /\ calls' \in Seq(Calls) /\ Queue(calls', socket, current, aside)
      /\ Closes(calls) => Closes(calls')
  BY <1>1, <1>2, <1>3, Answered DEF Synced, Done
<1>5. box' \in BOOLEAN
  <2>1. Head(calls).pending \in BOOLEAN /\ box \in BOOLEAN
    BY <1>1 DEF Calls, SInv, SessionTyped
  <2>2. CASE player = Caller
    BY <2>1, <2>2 DEF Synced
  <2>3. CASE player # Caller
    BY <2>1, <2>3 DEF Synced
  <2>4. QED
    BY <2>2, <2>3
<1>6. QED
  BY <1>4, <1>5, QueueKeeps DEF Synced, SInv, SessionTyped

\* A claim that is through is followed by its mark, or by the recount.
LEMMA ClaimKeeps ==
    ASSUME SInv, MarkRead \/ TakeGold \/ RemoveLetter
    PROVE  SInv'
<1>1. PICK kind \in Claims : Claim(kind)
  BY DEF MarkRead, TakeGold, RemoveLetter, Claims
<1>2. /\ calls # << >> /\ Caller \in Sockets /\ Head(calls).mail \in Letters
      /\ ~IsClosing(Head(calls))
  BY <1>1, Claiming
<1>3. letters \in [Letters -> Letter \cup {None}]
  BY DEF SInv, SessionTyped
<1>4. PICK c \in {Call(Caller, "marked"), CountPending(Caller)} : calls' = Append(Tail(calls), c)
  BY DEF MarkRead, TakeGold, RemoveLetter, Await
<1>5. c \in Calls /\ Neutral(c)
  BY <1>2, NeutralCalls
<1>6. /\ calls' \in Seq(Calls) /\ Queue(calls', socket, current, aside)
      /\ Closes(calls) => Closes(calls')
  BY <1>2, <1>4, <1>5, Answered
<1>7. letters' \in [Letters -> Letter \cup {None}]
  <2>1. CASE MarkRead
    BY <1>2, <1>3, <2>1, MarkedType DEF MarkRead
  <2>2. CASE TakeGold
    BY <1>2, <1>3, <2>2, MarkedType DEF TakeGold
  <2>3. CASE RemoveLetter
    BY <1>3, <2>3 DEF RemoveLetter
  <2>4. QED
    BY <2>1, <2>2, <2>3
<1>8. UNCHANGED <<vars, socket, player, current, aside, news, box>>
  BY DEF MarkRead, TakeGold, RemoveLetter
<1>9. QED
  BY <1>6, <1>7, <1>8, QueueKeeps DEF SInv, SessionTyped

\* What another bag writes to the rows and the journal is well typed.
LEMMA WrittenTyped ==
    ASSUME TypeOK, NEW b \in Contents, NEW S
    PROVE  Journaled(b, S) \in Rows /\ Saved(b, S) \in Rows
<1>1. ASSUME NEW s \in AllSlots
      PROVE  /\ Journaled(b, S)[s] \in DurableItem \cup {Empty}
             /\ Saved(b, S)[s] \in DurableItem \cup {Empty}
  <2>1. /\ b[s] \in Item \cup {Empty}
        /\ durBag[s] \in DurableItem \cup {Empty} /\ db[s] \in DurableItem \cup {Empty}
    BY DEF TypeOK, Contents, Rows
  <2>2. CASE s \in S
    BY <2>1, <2>2, RowType, PersistedType DEF Journaled, Saved
  <2>3. CASE s \notin S
    BY <2>1, <2>3 DEF Journaled, Saved
  <2>4. QED
    BY <2>2, <2>3
<1>2. QED
  BY <1>1 DEF Journaled, Saved, Rows

LEMMA AddAsideKeeps ==
    ASSUME SInv, NEW s \in Sockets, NEW k \in ItemIds, NEW n, AddAside(s, k, n), aside[s] \in Carried
    PROVE  /\ IInv(FALSE)' /\ aside' \in [Sockets -> Carried \cup {None}]
           /\ \A x \in Sockets : aside[x] \in Carried => aside'[x] \in Carried
<1> DEFINE old == aside[s]
           b == Added(old.bag, old.index, k, n)
           S == {x \in AllSlots : b[x] # old.bag[x]}
<1>1. aside \in [Sockets -> Carried \cup {None}]
  BY DEF SInv, SessionTyped
<1>2. old.bag \in Contents /\ old.index \in [AllSlots -> Nat]
  BY IndexIsNat DEF Carried
<1>3. b \in Contents
  BY <1>2, AddedInContents
<1>4. /\ aside' = [aside EXCEPT ![s].bag = b]
      /\ durBag' = Journaled(b, S) /\ db' = Saved(b, S) /\ UNCHANGED <<bag, index>>
  BY DEF AddAside
<1> HIDE DEF b, S
<1>5. [old EXCEPT !.bag = b] \in Carried
  BY <1>3 DEF Carried
<1>6. aside' = [aside EXCEPT ![s] = [old EXCEPT !.bag = b]]
  BY <1>4
<1>7. /\ aside' \in [Sockets -> Carried \cup {None}]
      /\ \A x \in Sockets : aside[x] \in Carried => aside'[x] \in Carried
  BY <1>1, <1>5, <1>6
<1>8. durBag' \in Rows /\ db' \in Rows
  BY <1>3, <1>4, WrittenTyped DEF SInv, IInv
<1>9. IInv(FALSE)'
  BY <1>4, <1>8 DEF SInv, IInv, TypeOK
<1>10. QED
  BY <1>7, <1>9

\* The attachment goes into the bag as any item does.
LEMMA TakeItemKeeps ==
    ASSUME SInv, TakeItem
    PROVE  SInv' /\ (Caller = current => Operation)
<1>1. /\ calls # << >> /\ Caller \in Sockets /\ Head(calls).mail \in Letters
      /\ ~IsClosing(Head(calls)) /\ Row1 \in Letter
      /\ Caller = current \/ aside[Caller] \in Carried
  BY Claiming DEF TakeItem, Claims
<1>2. Row1.item \in ItemIds /\ Row1.count \in 1 .. (2 * MaxStack)
  BY <1>1, BagAssumption DEF TakeItem, Letter, BagAssumption
<1>3. /\ IInv(FALSE)' /\ aside' \in [Sockets -> Carried \cup {None}]
      /\ \A x \in Sockets : aside[x] \in Carried => aside'[x] \in Carried
      /\ Caller = current => Operation
  <2>1. CASE Caller = current
    <3>1. AddItem(Row1.item, Row1.count) /\ UNCHANGED aside
      BY <2>1 DEF TakeItem
    <3>2. Operation
      BY <1>2, <3>1 DEF Operation
    <3>3. IInv(FALSE)'
      BY <1>2, <3>1, AddItemKeeps DEF SInv
    <3>4. QED
      BY <3>1, <3>2, <3>3 DEF SInv, SessionTyped
  <2>2. CASE Caller # current
    <3>1. AddAside(Caller, Row1.item, Row1.count)
      BY <2>2 DEF TakeItem
    <3>2. QED
      BY <1>1, <1>2, <2>2, <3>1, AddAsideKeeps
  <2>3. QED
    BY <2>1, <2>2
<1>4. Call(Caller, "marked") \in Calls /\ Neutral(Call(Caller, "marked"))
  BY <1>1, NeutralCalls
<1>5. /\ calls' \in Seq(Calls) /\ Queue(calls', socket, current, aside)
      /\ Closes(calls) => Closes(calls')
  BY <1>1, <1>4, Answered DEF TakeItem, Await
<1>6. UNCHANGED <<socket, player, current, news, box>>
  BY DEF TakeItem
<1>7. Queue(calls', socket', current', aside')
  <2>1. \A i \in DOMAIN calls' : calls'[i].of \in Sockets
    BY <1>5, CallsOf
  <2>2. QED
    BY <1>3, <1>5, <1>6, <2>1 DEF Queue, Fit
<1>8. letters' \in [Letters -> Letter \cup {None}]
  BY <1>1, MarkedType DEF TakeItem, SInv, SessionTyped
<1>9. SessionTyped' /\ Registered(calls, socket, player)'
  BY <1>3, <1>5, <1>6, <1>8 DEF SInv, SessionTyped, Registered
<1>10. QED
  BY <1>3, <1>7, <1>9 DEF SInv

LEMMA RejectKeeps ==
    ASSUME SInv, Reject
    PROVE  SInv'
<1>1. PICK kind \in Claims : Resumed(kind)
  BY DEF Reject, Refused, Claim, Claims
<1>2. calls # << >> /\ Head(calls).step \in Claims /\ Caller \in Sockets
  BY <1>1, Resuming
<1>3. ~IsClosing(Head(calls))
  BY <1>2 DEF IsClosing, Claims
<1>4. CountPending(Caller) \in Calls /\ Neutral(CountPending(Caller))
  BY <1>2, NeutralCalls
<1>5. /\ calls' \in Seq(Calls) /\ Queue(calls', socket, current, aside)
      /\ Closes(calls) => Closes(calls')
  BY <1>2, <1>3, <1>4, Answered DEF Reject, Done
<1>6. QED
  BY <1>5, QueueKeeps DEF Reject, mail, SInv, SessionTyped

LEMMA PostKeeps ==
    ASSUME SInv, NEW m \in Letters, NEW x \in Mailed, Post(m, x[1], x[2], x[3])
    PROVE  SInv'
<1>1. x[1] \in ItemIds \cup {Empty} /\ x[2] \in 1 .. MaxStack /\ x[3] \in BOOLEAN
  BY SessionAssumption DEF SessionAssumption
<1>2. [item |-> x[1], count |-> x[2], gold |-> x[3],
       read |-> FALSE, takenItem |-> FALSE, takenGold |-> FALSE] \in Letter
  BY <1>1 DEF Letter
<1>3. letters' \in [Letters -> Letter \cup {None}] /\ news' \in [Letters -> {"unwritten", "untold", "told"}]
  BY <1>2 DEF Post, SInv, SessionTyped
<1>4. UNCHANGED <<vars, socket, player, current, aside, calls, box>>
  BY DEF Post, live
<1>5. calls' \in Seq(Calls) /\ Queue(calls', socket, current, aside) /\ (Closes(calls) => Closes(calls'))
  BY <1>4 DEF SInv, SessionTyped
<1>6. QED
  BY <1>3, <1>4, <1>5, QueueKeeps DEF SInv, SessionTyped

LEMMA MailPushedKeeps ==
    ASSUME SInv, NEW m \in Letters, MailPushed(m)
    PROVE  SInv'
<1>1. news' \in [Letters -> {"unwritten", "untold", "told"}]
  BY DEF MailPushed, SInv, SessionTyped
<1>2. CASE player = None
  <2>1. UNCHANGED <<vars, socket, player, current, aside, calls, letters, box>>
    BY <1>2 DEF MailPushed
  <2>2. calls' \in Seq(Calls) /\ Queue(calls', socket, current, aside) /\ (Closes(calls) => Closes(calls'))
    BY <2>1 DEF SInv, SessionTyped
  <2>3. QED
    BY <1>1, <2>1, <2>2, QueueKeeps DEF SInv, SessionTyped
<1>3. CASE player # None
  BY <1>1, <1>3, PushListKeeps DEF MailPushed
<1>4. QED
  BY <1>2, <1>3

LEMMA MailStepKeeps ==
    ASSUME SInv, MailStep
    PROVE  SInv'
<1>1. CASE \E m \in Letters, kind \in Claims : Ask(kind, m)
  BY <1>1, AskKeeps
<1>2. CASE QueryMailBox
  BY <1>2, PushListKeeps DEF QueryMailBox, MayAsk, mail, SInv, SessionTyped
<1>3. CASE SyncMode
  BY <1>3, SyncModeKeeps
<1>4. CASE Synced
  BY <1>4, SyncedKeeps
<1>5. CASE MarkRead \/ TakeGold \/ RemoveLetter
  BY <1>5, ClaimKeeps
<1>6. CASE TakeItem
  BY <1>6, TakeItemKeeps
<1>7. CASE Reject
  BY <1>7, RejectKeeps
<1>8. CASE \E m \in Letters, x \in Mailed : Post(m, x[1], x[2], x[3])
  BY <1>8, PostKeeps
<1>9. CASE \E m \in Letters : MailPushed(m)
  BY <1>9, MailPushedKeeps
<1>10. QED
  BY <1>1, <1>2, <1>3, <1>4, <1>5, <1>6, <1>7, <1>8, <1>9 DEF MailStep, Request

------------------------------------------------------------------------------
(* Session steps.                                                            *)

LEMMA JoinKeeps ==
    ASSUME SInv, NEW s \in Sockets, Join(s)
    PROVE  SInv'
<1> DEFINE c == Call(s, "character")
<1>1. /\ calls \in Seq(Calls) /\ c \in Calls /\ c.of = s /\ c.step = "character"
      /\ socket[s] = "new" /\ calls' = Append(calls, c)
      /\ socket \in [Sockets -> {"new", "joining", "dropped", "inWorld", "closed"}]
      /\ socket' = [socket EXCEPT ![s] = "joining"]
      /\ UNCHANGED <<vars, player, current, aside, mail>>
  BY CallType DEF SInv, SessionTyped, Steps, Join
<1>2. \A i \in DOMAIN calls : calls[i].of \in Sockets
  BY <1>1, CallsOf
<1>3. \A i \in DOMAIN calls : IsJoin(calls[i]) => calls[i].of # s
  BY <1>1 DEF SInv, Queue, Fit
<1> HIDE DEF c
<1>4. Queue(calls, socket', current, aside)
  <2>1. \A i \in DOMAIN calls : IsJoin(calls[i]) => socket'[calls[i].of] = socket[calls[i].of]
    BY <1>1, <1>2, <1>3
  <2>2. QED
    BY <2>1 DEF SInv, Queue, Fit
<1>5. Fit(c, socket', current, aside)
  BY <1>1 DEF Fit, IsClaim, Claims
<1>6. /\ calls' \in Seq(Calls) /\ Queue(calls', socket', current, aside)
      /\ Closes(calls) => Closes(calls')
  <2>1. IsJoin(c) => \A i \in DOMAIN calls : IsJoin(calls[i]) => calls[i].of # c.of
    BY <1>1, <1>3
  <2>2. \A sock : Queue(calls, sock, current, aside) /\ Fit(c, sock, current, aside) =>
            /\ Append(calls, c) \in Seq(Calls) /\ Queue(Append(calls, c), sock, current, aside)
            /\ Closes(calls) \/ IsClosing(c) => Closes(Append(calls, c))
    BY <1>1, <2>1, PushFits
  <2>3. QED
    BY <1>1, <1>4, <1>5, <2>2
<1>7. Registered(calls', socket', player)
  <2>1. player # None => player \in Sockets
    BY DEF SInv, SessionTyped
  <2>2. player # None /\ socket'[player] = "closed" => socket[player] = "closed"
    BY <1>1, <2>1
  <2>3. QED
    BY <1>6, <2>2 DEF SInv, Registered
<1>8. IInv(FALSE)' /\ SessionTyped'
  BY <1>1, <1>6 DEF SInv, IInv, TypeOK, SessionTyped, vars, mail
<1>9. QED
  BY <1>1, <1>6, <1>7, <1>8 DEF SInv

\* A JOIN goes on to its next query.
LEMMA FindItemsKeeps ==
    ASSUME SInv, FindItems
    PROVE  SInv'
<1> DEFINE c == [Call(Caller, "items") EXCEPT !.rows = Found]
<1>1. /\ calls \in Seq(Calls) /\ calls # << >> /\ Head(calls).step = "character"
      /\ Caller \in Sockets /\ Caller = Head(calls).of /\ Fit(Head(calls), socket, current, aside)
  BY Resuming DEF FindItems
<1>2. Call(Caller, "items") \in Calls /\ Found \in Rows
  BY <1>1, CallType DEF Steps, Found, SInv, IInv, TypeOK
<1>3. c \in Calls /\ c.of = Head(calls).of /\ c.step = "items" /\ c.rows \in Rows
  BY <1>1, <1>2, CallType DEF Calls, Call
<1>4. calls' = Append(Tail(calls), c) /\ UNCHANGED <<vars, socket, player, current, aside, mail>>
  BY DEF FindItems, Await
<1> HIDE DEF c
<1>5. IsJoin(Head(calls)) /\ Fit(c, socket, current, aside) /\ ~IsClosing(Head(calls))
  BY <1>1, <1>3 DEF IsJoin, Fit, IsClaim, Claims, IsClosing
<1>6. /\ Append(Tail(calls), c) \in Seq(Calls)
      /\ Queue(Append(Tail(calls), c), socket, current, aside)
      /\ Closes(calls) => Closes(Append(Tail(calls), c))
  BY <1>1, <1>3, <1>5, TurnFits DEF SInv
<1>7. QED
  BY <1>4, <1>6, QueueKeeps DEF mail, SInv, SessionTyped

LEMMA LoadInventoryKeeps ==
    ASSUME SInv, LoadInventory
    PROVE  SInv'
<1> DEFINE c == [Head(calls) EXCEPT !.step = "rest"]
<1>1. /\ calls \in Seq(Calls) /\ calls # << >> /\ Head(calls).step = "items"
      /\ Head(calls) \in Calls /\ Fit(Head(calls), socket, current, aside)
  BY Resuming DEF LoadInventory
<1>2. c \in Calls /\ c.of = Head(calls).of /\ c.step = "rest" /\ c.rows = Head(calls).rows
  BY <1>1 DEF Calls, Steps
<1>3. calls' = Append(Tail(calls), c) /\ UNCHANGED <<vars, socket, player, current, aside, mail>>
  BY DEF LoadInventory, Await
<1> HIDE DEF c
<1>4. IsJoin(Head(calls)) /\ Fit(c, socket, current, aside) /\ ~IsClosing(Head(calls))
  BY <1>1, <1>2 DEF IsJoin, Fit, IsClaim, Claims, IsClosing
<1>5. /\ Append(Tail(calls), c) \in Seq(Calls)
      /\ Queue(Append(Tail(calls), c), socket, current, aside)
      /\ Closes(calls) => Closes(Append(Tail(calls), c))
  BY <1>1, <1>2, <1>4, TurnFits DEF SInv
<1>6. QED
  BY <1>3, <1>5, QueueKeeps DEF mail, SInv, SessionTyped

\* The CPlayer that enters may replace one whose claims are still in flight.
LEMMA EnterKeeps ==
    ASSUME SInv, Enter
    PROVE  SInv'
<1> DEFINE q == Tail(calls)
           s == Caller
           c == Call(s, "list")
<1>1. /\ calls \in Seq(Calls) /\ calls # << >> /\ Head(calls).step = "rest" /\ s \in Sockets
      /\ s = Head(calls).of /\ Fit(Head(calls), socket, current, aside)
      /\ Queue(calls, socket, current, aside)
  BY Resuming DEF Enter, SInv
<1>2. /\ q \in Seq(Calls) /\ Queue(q, socket, current, aside)
      /\ IsJoin(Head(calls)) =>
            \A i \in DOMAIN q : IsJoin(q[i]) => q[i].of # Head(calls).of
      /\ \A i \in DOMAIN q : i + 1 \in DOMAIN calls /\ q[i] = calls[i + 1]
  BY <1>1, PopFits, Popped
<1>3. Head(calls).rows \in Rows /\ IsJoin(Head(calls)) /\ socket[s] \in {"joining", "dropped"}
  BY <1>1 DEF Fit, IsJoin
<1>4. /\ player' = s /\ current' = s
      /\ socket' = [socket EXCEPT ![s] = IF @ = "joining" THEN "inWorld" ELSE @]
      /\ calls' = q \o Entered(s) /\ UNCHANGED <<db, durBag, letters, news>> /\ box' = FALSE
      /\ aside' = [x \in Sockets |->
            IF x = current /\ HasClaim(x) THEN [bag |-> bag, index |-> index] ELSE aside[x]]
      /\ LoadFrom(Head(calls).rows)
  BY DEF Enter
<1>5. IInv(FALSE)'
  BY <1>3, <1>4, LoadFromKeeps DEF SInv, IInv, TypeOK
<1>6. c \in Calls /\ Neutral(c)
  BY <1>1, NeutralCalls
<1>7. calls' = Append(q, c)
  BY <1>2, <1>4 DEF Entered
<1> HIDE DEF q, s, c
<1>8. /\ socket \in [Sockets -> {"new", "joining", "dropped", "inWorld", "closed"}]
      /\ current \in Sockets \cup {None} /\ aside \in [Sockets -> Carried \cup {None}]
  BY DEF SInv, SessionTyped
<1>9. /\ socket' \in [Sockets -> {"new", "joining", "dropped", "inWorld", "closed"}]
      /\ socket'[s] \in {"inWorld", "dropped"}
      /\ \A x \in Sockets \ {s} : socket'[x] = socket[x]
  BY <1>1, <1>3, <1>4, <1>8
<1>10. [bag |-> bag, index |-> index] \in Carried
  BY DEF SInv, IInv, TypeOK, Carried
<1>11. aside' \in [Sockets -> Carried \cup {None}]
  BY <1>4, <1>8, <1>10
<1>12. Queue(q, socket', current', aside')
  <2>1. ASSUME NEW i \in DOMAIN q
        PROVE  Fit(q[i], socket', current', aside')
    <3>1. q[i].of \in Sockets /\ Fit(q[i], socket, current, aside)
      BY <1>2, CallsOf DEF Queue
    <3>2. IsJoin(q[i]) => socket'[q[i].of] \in {"joining", "dropped"}
      BY <1>1, <1>2, <1>3, <1>9, <3>1 DEF Fit
    <3>3. IsClaim(q[i]) => aside'[q[i].of] \in Carried
      <4>1. IsClaim(q[i]) => HasClaim(q[i].of)
        BY <1>2 DEF IsClaim, HasClaim
      <4>2. IsClaim(q[i]) => q[i].of = current \/ aside[q[i].of] \in Carried
        BY <3>1 DEF Fit
      <4>3. QED
        BY <1>4, <1>10, <3>1, <4>1, <4>2
    <3>4. QED
      BY <3>1, <3>2, <3>3 DEF Fit
  <2>2. QED
    BY <1>2, <2>1 DEF Queue
<1>13. calls' \in Seq(Calls) /\ Queue(calls', socket', current', aside')
  <2>1. ~IsJoin(c) /\ \A sock, cu, as : Fit(c, sock, cu, as)
    BY <1>6, NeutralFits DEF Neutral
  <2>2. \A sock, cu, as : Queue(q, sock, cu, as) =>
            Append(q, c) \in Seq(Calls) /\ Queue(Append(q, c), sock, cu, as)
    BY <1>2, <1>6, <2>1, PushFits
  <2>3. QED
    BY <1>7, <1>12, <2>2
<1>14. Registered(calls', socket', player')
  BY <1>4, <1>9 DEF Registered
<1>15. SessionTyped'
  BY <1>1, <1>4, <1>9, <1>11, <1>13 DEF SInv, SessionTyped
<1>16. QED
  BY <1>5, <1>13, <1>14, <1>15 DEF SInv

\* A connection that closes leaves the queue's JOINs as fit as they were.
LEMMA CloseKeepsQueue ==
    ASSUME SInv, NEW s \in Sockets, NEW end \in {"dropped", "closed"},
           socket' = [socket EXCEPT ![s] = end], end = "dropped" \/ socket[s] = "inWorld"
    PROVE  /\ Queue(calls, socket', current, aside)
           /\ socket' \in [Sockets -> {"new", "joining", "dropped", "inWorld", "closed"}]
<1>1. socket \in [Sockets -> {"new", "joining", "dropped", "inWorld", "closed"}]
      /\ \A i \in DOMAIN calls : calls[i].of \in Sockets
  BY CallsOf DEF SInv, SessionTyped
<1>2. ASSUME NEW i \in DOMAIN calls, IsJoin(calls[i])
      PROVE  socket'[calls[i].of] \in {"joining", "dropped"}
  <2>1. socket[calls[i].of] \in {"joining", "dropped"}
    BY <1>2 DEF SInv, Queue, Fit
  <2>2. QED
    BY <1>1, <2>1
<1>3. QED
  BY <1>1, <1>2 DEF SInv, Queue, Fit

LEMMA CloseInWorldKeeps ==
    ASSUME SInv, NEW s \in Sockets, CloseInWorld(s)
    PROVE  SInv'
<1> DEFINE c == Call(s, "save")
<1>1. /\ calls \in Seq(Calls) /\ socket[s] = "inWorld" /\ socket' = [socket EXCEPT ![s] = "closed"]
      /\ calls' = IF player = None THEN calls ELSE Append(calls, c)
      /\ UNCHANGED <<vars, player, current, aside, mail>>
  BY DEF SInv, SessionTyped, CloseInWorld
<1>2. c \in Calls /\ ~IsJoin(c) /\ IsClosing(c) /\ \A sock, cu, as : Fit(c, sock, cu, as)
  BY CallType DEF Steps, IsJoin, IsClosing, IsClaim, Claims, Fit
<1> HIDE DEF c
<1>3. /\ Queue(calls, socket', current, aside)
      /\ socket' \in [Sockets -> {"new", "joining", "dropped", "inWorld", "closed"}]
  BY <1>1, CloseKeepsQueue
<1>4. /\ calls' \in Seq(Calls) /\ Queue(calls', socket', current, aside)
      /\ player # None => Closes(calls')
  <2>1. CASE player = None
    BY <1>1, <1>3, <2>1
  <2>2. CASE player # None
    <3>1. \A sock : Queue(calls, sock, current, aside) =>
              /\ Append(calls, c) \in Seq(Calls) /\ Queue(Append(calls, c), sock, current, aside)
              /\ Closes(calls) \/ IsClosing(c) => Closes(Append(calls, c))
      BY <1>1, <1>2, PushFits
    <3>2. QED
      BY <1>1, <1>2, <1>3, <2>2, <3>1
  <2>3. QED
    BY <2>1, <2>2
<1>5. IInv(FALSE)' /\ SessionTyped' /\ Registered(calls, socket, player)'
  BY <1>1, <1>3, <1>4 DEF SInv, IInv, TypeOK, SessionTyped, Registered, vars, mail
<1>6. QED
  BY <1>1, <1>4, <1>5 DEF SInv

LEMMA CloseJoiningKeeps ==
    ASSUME SInv, NEW s \in Sockets, CloseJoining(s)
    PROVE  SInv'
<1>1. socket' = [socket EXCEPT ![s] = "dropped"] /\ UNCHANGED <<vars, player, current, aside, calls, mail>>
  BY DEF CloseJoining
<1>2. /\ Queue(calls, socket', current, aside)
      /\ socket' \in [Sockets -> {"new", "joining", "dropped", "inWorld", "closed"}]
  BY <1>1, CloseKeepsQueue
<1>3. Registered(calls', socket', player')
  <2>1. /\ player # None => player \in Sockets
        /\ socket \in [Sockets -> {"new", "joining", "dropped", "inWorld", "closed"}]
    BY DEF SInv, SessionTyped
  <2>2. player # None /\ socket'[player] = "closed" => socket[player] = "closed"
    BY <1>1, <2>1
  <2>3. QED
    BY <1>1, <2>2 DEF SInv, Registered
<1>4. IInv(FALSE)' /\ SessionTyped'
  BY <1>1, <1>2 DEF SInv, IInv, TypeOK, SessionTyped, vars, mail
<1>5. QED
  BY <1>1, <1>2, <1>3, <1>4 DEF SInv

LEMMA SaveKeeps ==
    ASSUME SInv, Save
    PROVE  SInv'
<1> DEFINE c == Call(Caller, "leave")
<1>1. /\ calls \in Seq(Calls) /\ calls # << >> /\ Caller \in Sockets
      /\ Queue(calls, socket, current, aside)
  BY Resuming DEF Save, SInv
<1>2. c \in Calls /\ ~IsJoin(c) /\ IsClosing(c) /\ Fit(c, socket, current, aside)
  BY <1>1, CallType DEF Steps, IsJoin, IsClosing, IsClaim, Claims, Fit
<1>3. calls' = Append(Tail(calls), c) /\ UNCHANGED <<vars, socket, player, current, aside, mail>>
  BY DEF Save, Await
<1> HIDE DEF c
<1>4. /\ Append(Tail(calls), c) \in Seq(Calls)
      /\ Queue(Append(Tail(calls), c), socket, current, aside)
      /\ Closes(calls) => Closes(Append(Tail(calls), c))
  BY <1>1, <1>2, TurnFits
<1>5. QED
  BY <1>3, <1>4, QueueKeeps DEF mail, SInv, SessionTyped

\* Nobody is registered after a leave, whoever it was for.
LEMMA LeaveKeeps ==
    ASSUME SInv, SaveFailed \/ Leave
    PROVE  SInv'
<1>1. /\ calls \in Seq(Calls) /\ calls # << >> /\ Queue(calls, socket, current, aside)
  BY Resuming DEF SaveFailed, Leave, SInv
<1>2. calls' = Tail(calls) /\ player' = None /\ UNCHANGED <<vars, socket, current, aside, mail>>
  BY DEF SaveFailed, Leave, Done, Removed
<1>3. calls' \in Seq(Calls) /\ Queue(calls', socket, current, aside)
  BY <1>1, <1>2, PopFits
<1>4. IInv(FALSE)' /\ SessionTyped' /\ Registered(calls, socket, player)'
  BY <1>2, <1>3 DEF SInv, IInv, TypeOK, SessionTyped, Registered, vars, mail
<1>5. QED
  BY <1>2, <1>3, <1>4 DEF SInv

LEMMA NobodyThere ==
    /\ << >> \in Seq(Calls) /\ DOMAIN << >> = {}
    /\ \A sock, cu, as : Queue(<< >>, sock, cu, as)
<1>1. << >> \in Seq(Calls) /\ DOMAIN << >> = {}
  OBVIOUS
<1>2. QED
  BY <1>1 DEF Queue, Once

LEMMA KillKeeps ==
    ASSUME SInv, Kill
    PROVE  SInv'
<1>1. IInv(FALSE)'
  BY IInvIsInductive DEF SInv, Kill, Next
<1>2. socket' \in [Sockets -> {"new", "joining", "dropped", "inWorld", "closed"}]
  BY DEF Kill
<1>3. /\ calls' = << >> /\ player' = None /\ current' = None /\ box' = FALSE
      /\ UNCHANGED <<letters, news>> /\ aside' = [s \in Sockets |-> None]
  BY DEF Kill
<1>4. SessionTyped'
  BY <1>2, <1>3, NobodyThere DEF SInv, SessionTyped
<1>5. Queue(calls', socket', current', aside') /\ Registered(calls', socket', player')
  BY <1>3, NobodyThere DEF Registered
<1>6. QED
  BY <1>1, <1>4, <1>5 DEF SInv

LEMMA BagStepKeeps ==
    ASSUME SInv, BagStep
    PROVE  SInv'
<1>1. IInv(FALSE)'
  BY IInvIsInductive DEF SInv, BagStep, Next
<1>2. UNCHANGED <<socket, player, current, aside, calls, letters, news, box>>
  BY DEF BagStep, live, mail
<1>3. QED
  BY <1>1, <1>2 DEF SInv, SessionTyped, Registered

LEMMA SInvIsInductive == SInv /\ [SessionNext]_allVars => SInv'
<1> SUFFICES ASSUME SInv, [SessionNext]_allVars PROVE SInv'
  OBVIOUS
<1>1. CASE BagStep
  BY <1>1, BagStepKeeps
<1>2. CASE \E s \in Sockets : Join(s) \/ CloseInWorld(s) \/ CloseJoining(s)
  BY <1>2, JoinKeeps, CloseInWorldKeeps, CloseJoiningKeeps
<1>3. CASE FindItems \/ LoadInventory
  BY <1>3, FindItemsKeeps, LoadInventoryKeeps
<1>4. CASE Enter
  BY <1>4, EnterKeeps
<1>5. CASE Save \/ SaveFailed \/ Leave
  BY <1>5, SaveKeeps, LeaveKeeps
<1>6. CASE Kill
  BY <1>6, KillKeeps
<1>7. CASE MailStep
  BY <1>7, MailStepKeeps
<1>8. CASE UNCHANGED allVars
  BY <1>8 DEF allVars, vars, live, mail, SInv, IInv, TypeOK, SessionTyped, Registered
<1>9. QED
  BY <1>1, <1>2, <1>3, <1>4, <1>5, <1>6, <1>7, <1>8 DEF SessionNext, SessionStep

LEMMA SessionInitHolds == SessionInit => SInv
<1> SUFFICES ASSUME SessionInit PROVE SInv
  OBVIOUS
<1>1. IInv(FALSE)
  BY InitHolds DEF SessionInit
<1>2. SessionTyped
  BY NobodyThere DEF SessionInit, SessionTyped
<1>3. Queue(calls, socket, current, aside) /\ Registered(calls, socket, player)
  BY NobodyThere DEF SessionInit, Registered
<1>4. QED
  BY <1>1, <1>2, <1>3 DEF SInv

\* However sessions overlap, no CPlayer outlives the close of its connection but to be
\* saved, and a save that is refused removes it all the same (disconnectByCharId).
THEOREM SessionIsSound == SessionSpec => []SessionInv
<1>1. SInv => SessionInv
  BY DEF SInv, SessionTyped, SessionTypeOK, SessionInv, Registered, Closes, IsClosing
<1>2. QED
  BY <1>1, SessionInitHolds, SInvIsInductive, PTL DEF SessionSpec

------------------------------------------------------------------------------
(* What a JOIN loads.  One that has met no connected client has read the     *)
(* rows as they still are: claims began when a client was connected, so      *)
(* those in flight are ahead of it, and it reads its rows after them.        *)

Fresh(q, cr, rows) ==
    \A i \in DOMAIN q : IsJoin(q[i]) /\ q[i].of \notin cr =>
        /\ \A j \in DOMAIN q : IsClaim(q[j]) => j < i /\ q[i].step = "character"
        /\ q[i].step # "character" => q[i].rows = rows

RInv ==
    /\ SInv /\ Fresh(calls, crowded, db)
    /\ Connected # {} => Joining(calls) \subseteq crowded

LEMMA FreshPop ==
    ASSUME NEW q \in Seq(Calls), q # << >>, NEW cr, NEW rows, Fresh(q, cr, rows)
    PROVE  Tail(q) \in Seq(Calls) /\ Fresh(Tail(q), cr, rows)
<1> DEFINE r == Tail(q)
<1>1. /\ r \in Seq(Calls) /\ DOMAIN r \in SUBSET Nat
      /\ \A i \in DOMAIN r : i + 1 \in DOMAIN q /\ r[i] = q[i + 1]
  BY Popped
<1> HIDE DEF r
<1>2. ASSUME NEW i \in DOMAIN r, IsJoin(r[i]), r[i].of \notin cr
      PROVE  /\ \A j \in DOMAIN r : IsClaim(r[j]) => j < i /\ r[i].step = "character"
             /\ r[i].step # "character" => r[i].rows = rows
  <2>1. i + 1 \in DOMAIN q /\ r[i] = q[i + 1] /\ i \in Nat
    BY <1>1
  <2>2. /\ \A j \in DOMAIN q : IsClaim(q[j]) => j < i + 1 /\ q[i + 1].step = "character"
        /\ q[i + 1].step # "character" => q[i + 1].rows = rows
    BY <1>2, <2>1 DEF Fresh
  <2>3. ASSUME NEW j \in DOMAIN r, IsClaim(r[j])
        PROVE  j < i /\ r[i].step = "character"
    <3>1. j + 1 \in DOMAIN q /\ r[j] = q[j + 1] /\ j \in Nat
      BY <1>1
    <3>2. j + 1 < i + 1 /\ r[i].step = "character"
      BY <2>1, <2>2, <2>3, <3>1
    <3>3. QED
      BY <2>1, <3>1, <3>2
  <2>4. QED
    BY <2>1, <2>2, <2>3
<1>3. QED
  BY <1>1, <1>2 DEF Fresh, r

LEMMA FreshPush ==
    ASSUME NEW q \in Seq(Calls), NEW c \in Calls, NEW cr, NEW rows, Fresh(q, cr, rows), ~IsClaim(c),
           IsJoin(c) /\ c.of \notin cr /\ c.step # "character" =>
               c.rows = rows /\ \A j \in DOMAIN q : ~IsClaim(q[j])
    PROVE  Append(q, c) \in Seq(Calls) /\ Fresh(Append(q, c), cr, rows)
<1> DEFINE r == Append(q, c)
           n == Len(q) + 1
<1>1. /\ r \in Seq(Calls) /\ n \in DOMAIN r /\ r[n] = c
      /\ \A i \in DOMAIN q : i \in Nat /\ i < n /\ r[i] = q[i]
      /\ \A i \in DOMAIN r : i \in DOMAIN q \/ i = n
  BY Pushed
<1> HIDE DEF r, n
<1>2. ASSUME NEW i \in DOMAIN r, IsJoin(r[i]), r[i].of \notin cr
      PROVE  /\ \A j \in DOMAIN r : IsClaim(r[j]) => j < i /\ r[i].step = "character"
             /\ r[i].step # "character" => r[i].rows = rows
  <2>1. CASE i \in DOMAIN q
    BY <1>1, <1>2, <2>1 DEF Fresh
  <2>2. CASE i = n
    BY <1>1, <1>2, <2>2
  <2>3. QED
    BY <1>1, <2>1, <2>2
<1>3. QED
  BY <1>1, <1>2 DEF Fresh, r

\* The steps other than TakeItem leave what uncrowded JOINs have read as it was.
LEMMA NeutralStays ==
    ASSUME SInv, NEW cr, NEW rows, Fresh(calls, cr, rows), calls # << >>, NEW c \in Calls, Neutral(c),
           calls' = Tail(calls) \/ calls' = Append(Tail(calls), c)
    PROVE  Fresh(calls', cr, rows)
<1>1. Tail(calls) \in Seq(Calls) /\ Fresh(Tail(calls), cr, rows)
  BY FreshPop DEF SInv, SessionTyped
<1>2. Fresh(Append(Tail(calls), c), cr, rows)
  BY <1>1, FreshPush DEF Neutral
<1>3. QED
  BY <1>1, <1>2

LEMMA PushStays ==
    ASSUME SInv, NEW cr, NEW rows, Fresh(calls, cr, rows), NEW s \in Sockets,
           NEW step \in {"character", "save", "list"}, calls' = Append(calls, Call(s, step))
    PROVE  Fresh(calls', cr, rows)
<1>1. /\ Call(s, step) \in Calls /\ Call(s, step).step = step
  BY CallType DEF Steps
<1>2. ~IsClaim(Call(s, step)) /\ (IsJoin(Call(s, step)) => Call(s, step).step = "character")
  BY <1>1 DEF IsClaim, IsJoin, Claims
<1>3. QED
  BY <1>1, <1>2, FreshPush DEF SInv, SessionTyped

LEMMA HeadHasNoClaims ==
    ASSUME SInv, Fresh(calls, crowded, db), calls # << >>,
           IsJoin(Head(calls)), Head(calls).of \notin crowded
    PROVE  /\ \A j \in DOMAIN Tail(calls) : ~IsClaim(Tail(calls)[j])
           /\ Head(calls).step # "character" => Head(calls).rows = db
<1>1. /\ 1 \in DOMAIN calls /\ Head(calls) = calls[1] /\ DOMAIN calls \in SUBSET Nat
      /\ \A i \in DOMAIN Tail(calls) : i + 1 \in DOMAIN calls /\ Tail(calls)[i] = calls[i + 1]
  BY Popped DEF SInv, SessionTyped
<1>2. /\ \A j \in DOMAIN calls : IsClaim(calls[j]) => j < 1
      /\ Head(calls).step # "character" => Head(calls).rows = db
  BY <1>1 DEF Fresh
<1>3. \A j \in DOMAIN calls : j \in 1 .. Len(calls)
  BY DEF SInv, SessionTyped
<1>4. \A j \in DOMAIN calls : ~IsClaim(calls[j])
  BY <1>2, <1>3
<1>5. QED
  BY <1>1, <1>2, <1>4

LEMMA FindItemsStays ==
    ASSUME SInv, Fresh(calls, crowded, db), FindItems
    PROVE  Fresh(calls', crowded, db')
<1> DEFINE c == [Call(Caller, "items") EXCEPT !.rows = Found]
<1>1. /\ calls \in Seq(Calls) /\ calls # << >> /\ Head(calls).step = "character"
      /\ Caller \in Sockets /\ Caller = Head(calls).of
  BY Resuming DEF FindItems
<1>2. Call(Caller, "items") \in Calls /\ Found \in Rows
  BY <1>1, CallType DEF Steps, Found, SInv, IInv, TypeOK
<1>3. c \in Calls /\ c.of = Head(calls).of /\ c.step = "items" /\ c.rows = db
  BY <1>1, <1>2, CallType DEF Calls, Call, Found
<1>4. calls' = Append(Tail(calls), c) /\ db' = db
  BY DEF FindItems, Await, vars
<1> HIDE DEF c
<1>5. IsJoin(Head(calls)) /\ ~IsClaim(c)
  BY <1>1, <1>3 DEF IsJoin, IsClaim, Claims
<1>6. Tail(calls) \in Seq(Calls) /\ Fresh(Tail(calls), crowded, db)
  BY <1>1, FreshPop
<1>7. c.of \notin crowded => \A j \in DOMAIN Tail(calls) : ~IsClaim(Tail(calls)[j])
  BY <1>1, <1>3, <1>5, HeadHasNoClaims
<1>8. QED
  BY <1>3, <1>4, <1>5, <1>6, <1>7, FreshPush

LEMMA LoadInventoryStays ==
    ASSUME SInv, Fresh(calls, crowded, db), LoadInventory
    PROVE  Fresh(calls', crowded, db')
<1> DEFINE c == [Head(calls) EXCEPT !.step = "rest"]
<1>1. /\ calls \in Seq(Calls) /\ calls # << >> /\ Head(calls).step = "items" /\ Head(calls) \in Calls
  BY Resuming DEF LoadInventory
<1>2. c \in Calls /\ c.of = Head(calls).of /\ c.step = "rest" /\ c.rows = Head(calls).rows
  BY <1>1 DEF Calls, Steps
<1>3. calls' = Append(Tail(calls), c) /\ db' = db
  BY DEF LoadInventory, Await, vars
<1> HIDE DEF c
<1>4. IsJoin(Head(calls)) /\ ~IsClaim(c)
  BY <1>1, <1>2 DEF IsJoin, IsClaim, Claims
<1>5. Tail(calls) \in Seq(Calls) /\ Fresh(Tail(calls), crowded, db)
  BY <1>1, FreshPop
<1>6. c.of \notin crowded => c.rows = db /\ \A j \in DOMAIN Tail(calls) : ~IsClaim(Tail(calls)[j])
  BY <1>1, <1>2, <1>4, HeadHasNoClaims
<1>7. QED
  BY <1>2, <1>3, <1>4, <1>5, <1>6, FreshPush

\* Behind a claim no uncrowded JOIN has read its rows yet, so the claim may write them.
LEMMA TakeItemStays ==
    ASSUME SInv, Fresh(calls, crowded, db), TakeItem
    PROVE  Fresh(calls', crowded, db')
<1>1. /\ calls # << >> /\ Caller \in Sockets /\ IsClaim(Head(calls))
  BY Claiming DEF TakeItem, Claims
<1>2. 1 \in DOMAIN calls /\ Head(calls) = calls[1]
  BY <1>1, Popped DEF SInv, SessionTyped
<1>3. Fresh(calls, crowded, db')
  BY <1>1, <1>2 DEF Fresh
<1>4. Call(Caller, "marked") \in Calls /\ Neutral(Call(Caller, "marked"))
  BY <1>1, NeutralCalls
<1>5. calls' = Append(Tail(calls), Call(Caller, "marked"))
  BY DEF TakeItem, Await
<1> DEFINE rows == db'
<1>6. Fresh(calls, crowded, rows)
  BY <1>3
<1> HIDE DEF rows
<1>7. Fresh(calls', crowded, rows)
  BY <1>1, <1>4, <1>5, <1>6, NeutralStays
<1>8. QED
  BY <1>7 DEF rows

LEMMA MailStepStays ==
    ASSUME SInv, Fresh(calls, crowded, db), Connected' = {}, MailStep
    PROVE  Fresh(calls', crowded, db')
<1>1. ~Request
  BY DEF Request, QueryMailBox, Ask, MayAsk, Connected
<1>2. CASE SyncMode \/ Synced \/ MarkRead \/ TakeGold \/ RemoveLetter \/ Reject
  <2>1. PICK step : Resumed(step)
    BY <1>2 DEF SyncMode, Synced, MarkRead, TakeGold, RemoveLetter, Reject, Refused, Claim
  <2>2. calls # << >> /\ Caller \in Sockets
    BY <2>1, Resuming
  <2>3. PICK c \in {CountPending(Caller), Call(Caller, "marked")} :
            calls' = Tail(calls) \/ calls' = Append(Tail(calls), c)
    BY <1>2 DEF SyncMode, Synced, MarkRead, TakeGold, RemoveLetter, Reject, Await, Done
  <2>4. c \in Calls /\ Neutral(c)
    BY <2>2, NeutralCalls
  <2>5. db' = db
    BY <1>2 DEF SyncMode, Synced, MarkRead, TakeGold, RemoveLetter, Reject, vars
  <2>6. QED
    BY <2>2, <2>3, <2>4, <2>5, NeutralStays
<1>3. CASE TakeItem
  BY <1>3, TakeItemStays
<1>4. CASE \E m \in Letters, x \in Mailed : Post(m, x[1], x[2], x[3])
  BY <1>4 DEF Post, vars, live
<1>5. CASE \E m \in Letters : MailPushed(m)
  <2>1. UNCHANGED db /\ (calls' = calls \/ (player # None /\ calls' = Append(calls, Call(player, "list"))))
    BY <1>5 DEF MailPushed, vars
  <2>2. player # None => player \in Sockets
    BY DEF SInv, SessionTyped
  <2>3. QED
    BY <2>1, <2>2, PushStays
<1>6. QED
  BY <1>1, <1>2, <1>3, <1>4, <1>5 DEF MailStep

LEMMA SessionStepStays ==
    ASSUME SInv, Fresh(calls, crowded, db), SessionStep
    PROVE  Fresh(calls', crowded, db')
<1>1. ASSUME NEW s \in Sockets, Join(s) \/ CloseInWorld(s) \/ CloseJoining(s)
      PROVE  Fresh(calls', crowded, db')
  <2>1. UNCHANGED db
    BY <1>1 DEF Join, CloseInWorld, CloseJoining, vars
  <2>2. \/ calls' = calls \/ calls' = Append(calls, Call(s, "character"))
        \/ calls' = Append(calls, Call(s, "save"))
    BY <1>1 DEF Join, CloseInWorld, CloseJoining
  <2>3. QED
    BY <2>1, <2>2, PushStays
<1>2. CASE FindItems \/ LoadInventory
  BY <1>2, FindItemsStays, LoadInventoryStays
<1>3. CASE Enter
  <2>1. calls \in Seq(Calls) /\ calls # << >> /\ Caller \in Sockets
    BY <1>3, Resuming DEF Enter
  <2>2. Tail(calls) \in Seq(Calls)
    BY <2>1, Popped
  <2>3. calls' = Append(Tail(calls), Call(Caller, "list")) /\ db' = db
    BY <1>3, <2>2 DEF Enter, Entered
  <2>4. Call(Caller, "list") \in Calls /\ Neutral(Call(Caller, "list"))
    BY <2>1, NeutralCalls
  <2>5. QED
    BY <2>1, <2>3, <2>4, NeutralStays
<1>4. CASE Save \/ SaveFailed \/ Leave
  <2>1. PICK step : Resumed(step)
    BY <1>4 DEF Save, SaveFailed, Leave
  <2>2. calls \in Seq(Calls) /\ calls # << >> /\ Caller \in Sockets
    BY <2>1, Resuming
  <2>3. Tail(calls) \in Seq(Calls) /\ Fresh(Tail(calls), crowded, db)
    BY <2>2, FreshPop
  <2>4. /\ Call(Caller, "leave") \in Calls /\ ~IsClaim(Call(Caller, "leave"))
        /\ ~IsJoin(Call(Caller, "leave"))
    BY <2>2, CallType DEF Steps, IsClaim, IsJoin, Claims
  <2>5. Fresh(Append(Tail(calls), Call(Caller, "leave")), crowded, db)
    BY <2>3, <2>4, FreshPush
  <2>6. (calls' = Tail(calls) \/ calls' = Append(Tail(calls), Call(Caller, "leave"))) /\ db' = db
    BY <1>4 DEF Save, SaveFailed, Leave, Await, Done, vars
  <2>7. QED
    BY <2>3, <2>5, <2>6
<1>5. CASE Kill
  <2>1. calls' = << >>
    BY <1>5 DEF Kill
  <2>2. QED
    BY <2>1, NobodyThere DEF Fresh
<1>6. QED
  BY <1>1, <1>2, <1>3, <1>4, <1>5 DEF SessionStep

LEMMA RInvIsInductive == RInv /\ [SessionNext /\ Crowd]_rowVars => RInv'
<1> SUFFICES ASSUME RInv, [SessionNext /\ Crowd]_rowVars PROVE RInv'
  OBVIOUS
<1>1. SInv'
  BY SInvIsInductive DEF RInv, rowVars
<1>2. CASE UNCHANGED rowVars
  BY <1>1, <1>2 DEF rowVars, allVars, vars, live, RInv, Connected, Joining, Fresh
<1>3. CASE SessionNext /\ Crowd
  <2>1. crowded' = {s \in Joining(calls') : s \in crowded \/ Connected' # {}}
    BY <1>3 DEF Crowd
  <2>2. \A i \in DOMAIN calls' : IsJoin(calls'[i]) => calls'[i].of \in Joining(calls')
    BY <1>1, CallsOf DEF SInv, SessionTyped, Joining, IsJoin
  <2>3. CASE Connected' # {}
    <3>1. Joining(calls') \subseteq crowded'
      BY <2>1, <2>3
    <3>2. Fresh(calls', crowded', db')
      BY <2>2, <3>1 DEF Fresh
    <3>3. QED
      BY <1>1, <2>3, <3>1, <3>2 DEF RInv
  <2>4. CASE Connected' = {}
    <3>1. ~BagStep
      BY <2>4 DEF BagStep, live, Connected
    <3>2. Fresh(calls', crowded, db')
      BY <1>3, <2>4, <3>1, SessionStepStays, MailStepStays DEF SessionNext, RInv
    <3>3. \A i \in DOMAIN calls' :
              IsJoin(calls'[i]) /\ calls'[i].of \notin crowded' => calls'[i].of \notin crowded
      BY <2>1, <2>2
    <3>4. Fresh(calls', crowded', db')
      BY <3>2, <3>3 DEF Fresh
    <3>5. QED
      BY <1>1, <2>4, <3>4 DEF RInv
  <2>5. QED
    BY <2>3, <2>4
<1>4. QED
  BY <1>2, <1>3

LEMMA RowInitHolds == RowInit => RInv
<1> SUFFICES ASSUME RowInit PROVE RInv
  OBVIOUS
<1>1. SInv /\ calls = << >> /\ Connected = {}
  BY SessionInitHolds DEF RowInit, SessionInit, Connected
<1>2. QED
  BY <1>1, NobodyThere DEF RInv, Fresh

\* An uncrowded JOIN enters with the rows as they are.
LEMMA EnterIsRelog ==
    ASSUME RInv, Enter, Caller \notin crowded
    PROVE  Relog
<1>1. calls # << >> /\ Head(calls).step = "rest" /\ Caller = Head(calls).of
  BY Resuming DEF Enter, RInv
<1>2. Head(calls).rows = db
  BY <1>1, HeadHasNoClaims DEF RInv, IsJoin
<1>3. QED
  BY <1>2 DEF Enter, Relog

LEMMA StepsOfTheBag ==
    ASSUME RInv, [SessionNext /\ Crowd]_rowVars
    PROVE  [(Enter => Caller \notin crowded) /\ (TakeItem => Caller = current)
                => vars' = vars \/ Next]_vars
<1> SUFFICES ASSUME Enter => Caller \notin crowded, TakeItem => Caller = current
             PROVE  vars' = vars \/ Next
  OBVIOUS
<1>1. CASE BagStep
  BY <1>1 DEF BagStep, Next
<1>2. CASE \E s \in Sockets : Join(s) \/ CloseInWorld(s) \/ CloseJoining(s)
  BY <1>2 DEF Join, CloseInWorld, CloseJoining
<1>3. CASE FindItems \/ LoadInventory \/ Save \/ SaveFailed \/ Leave
  BY <1>3 DEF FindItems, LoadInventory, Save, SaveFailed, Leave
<1>4. CASE Enter
  BY <1>4, EnterIsRelog DEF Next
<1>5. CASE Kill
  BY <1>5 DEF Kill, Next
<1>6. CASE TakeItem
  BY <1>6, TakeItemKeeps DEF RInv, Next
<1>7. CASE Request \/ SyncMode \/ Synced \/ MarkRead \/ TakeGold \/ RemoveLetter \/ Reject
  BY <1>7 DEF Request, QueryMailBox, Ask, SyncMode, Synced, MarkRead, TakeGold, RemoveLetter, Reject
<1>8. CASE \/ \E m \in Letters, x \in Mailed : Post(m, x[1], x[2], x[3])
          \/ \E m \in Letters : MailPushed(m)
  BY <1>8 DEF Post, MailPushed
<1>9. CASE UNCHANGED rowVars
  BY <1>9 DEF rowVars, allVars
<1>10. QED
  BY <1>1, <1>2, <1>3, <1>4, <1>5, <1>6, <1>7, <1>8, <1>9 DEF SessionNext, SessionStep, MailStep

\* However claims, saves, leaves, kills and dropped JOINs overlap with it, a JOIN during
\* which no client of the character is in the world loads the rows as they are, and
\* every step on the bag is one of Bag (joinService, MailService).
THEOREM SessionImplementsBag == RowSpec => BagSpec
<1>1. RowInit => Init
  BY DEF RowInit, SessionInit
<1>2. QED
  BY <1>1, RowInitHolds, RInvIsInductive, StepsOfTheBag, PTL DEF RowSpec, BagSpec

------------------------------------------------------------------------------
(* The mailbox.  Once every letter has been told of, the player's mailbox is *)
(* to be recounted by a call still in flight, or its last recount in flight  *)
(* has the right answer, or none is in flight and the box is right.          *)

Counts(c, pl) == c.step = "count" /\ c.of = pl
Recounts(c, pl) == c.step \in {"list", "marked"} /\ c.of = pl

Shown(q, pl, pend, b) ==
    \/ \E i \in DOMAIN q : Recounts(q[i], pl)
    \/ \E i \in DOMAIN q : /\ Counts(q[i], pl) /\ q[i].pending = pend
                           /\ \A j \in DOMAIN q : i < j => ~Counts(q[j], pl)
    \/ b = pend /\ \A i \in DOMAIN q : ~Counts(q[i], pl)

Told == \A m \in Letters : news[m] # "untold"

MailInv == player # None /\ Told => Shown(calls, player, Pending, box)

\* The claims of a CPlayer that has been replaced are ahead of a recount.
Settles(q, pl) ==
    pl # None => \A i \in DOMAIN q : IsClaim(q[i]) /\ q[i].of # pl =>
                    \E j \in DOMAIN q : i < j /\ Recounts(q[j], pl)

\* What is left in the queue after the head is through.
LEMMA Left ==
    ASSUME NEW q \in Seq(Calls), q # << >>
    PROVE  /\ Tail(q) \in Seq(Calls) /\ 1 \in DOMAIN q /\ q[1] = Head(q)
           /\ \A i \in DOMAIN Tail(q) : /\ i \in Nat \ {0} /\ i + 1 \in DOMAIN q
                                        /\ Tail(q)[i] = q[i + 1] /\ Tail(q)[i] \in Calls
<1>1. /\ Tail(q) \in Seq(Calls) /\ 1 \in DOMAIN q /\ q[1] = Head(q)
      /\ \A i \in DOMAIN Tail(q) : i + 1 \in DOMAIN q /\ Tail(q)[i] = q[i + 1]
  BY Popped
<1>2. \A i \in DOMAIN Tail(q) : i \in Nat \ {0} /\ Tail(q)[i] \in Calls
  BY <1>1
<1>3. QED
  BY <1>1, <1>2

LEMMA SettlesPush ==
    ASSUME NEW q \in Seq(Calls), NEW c \in Calls, NEW pl, Settles(q, pl), IsClaim(c) => c.of = pl
    PROVE  Settles(Append(q, c), pl)
<1> DEFINE r == Append(q, c)
<1>1. /\ \A i \in DOMAIN q : i \in DOMAIN r /\ r[i] = q[i]
      /\ \A i \in DOMAIN r : (i \in DOMAIN q /\ r[i] = q[i]) \/ r[i] = c
  BY Pushed
<1> HIDE DEF r
<1>2. QED
  BY <1>1 DEF Settles, r

LEMMA SettlesPop ==
    ASSUME NEW q \in Seq(Calls), q # << >>, NEW pl, Settles(q, pl)
    PROVE  Tail(q) \in Seq(Calls) /\ Settles(Tail(q), pl)
<1> DEFINE r == Tail(q)
<1>1. /\ r \in Seq(Calls) /\ DOMAIN r \in SUBSET (Nat \ {0}) /\ DOMAIN q \in SUBSET Nat
      /\ \A i \in DOMAIN r : i + 1 \in DOMAIN q /\ r[i] = q[i + 1]
      /\ \A i \in DOMAIN q : i # 1 => i - 1 \in DOMAIN r /\ r[i - 1] = q[i]
  BY Popped, Left
<1> HIDE DEF r
<1>2. ASSUME pl # None, NEW i \in DOMAIN r, IsClaim(r[i]), r[i].of # pl
      PROVE  \E j \in DOMAIN r : i < j /\ Recounts(r[j], pl)
  <2>1. i + 1 \in DOMAIN q /\ r[i] = q[i + 1] /\ i \in Nat \ {0}
    BY <1>1
  <2>2. PICK j \in DOMAIN q : i + 1 < j /\ Recounts(q[j], pl)
    BY <1>2, <2>1 DEF Settles
  <2>3. j - 1 \in DOMAIN r /\ r[j - 1] = q[j] /\ i < j - 1
    BY <1>1, <2>1, <2>2
  <2>4. QED
    BY <2>2, <2>3
<1>3. QED
  BY <1>1, <1>2 DEF Settles, r

LEMMA SettlesByRecount ==
    ASSUME NEW q \in Seq(Calls), NEW c \in Calls, NEW pl, Recounts(c, pl)
    PROVE  Settles(Append(q, c), pl)
<1> DEFINE r == Append(q, c)
           n == Len(q) + 1
<1>1. /\ n \in DOMAIN r /\ r[n] = c
      /\ \A i \in DOMAIN r : i = n \/ (i \in Nat /\ i < n)
  BY Pushed
<1> HIDE DEF r, n
<1>2. ~IsClaim(c)
  BY DEF Recounts, IsClaim, Claims
<1>3. QED
  BY <1>1, <1>2 DEF Settles, r

\* A step by which the queue loses its head, or gains no claim of another.
LEMMA SettlesAside ==
    ASSUME SInv, Settles(calls, player), player' = player,
           \/ calls' = calls
           \/ \E c \in Calls : (IsClaim(c) => c.of = player) /\ calls' = Append(calls, c)
           \/ /\ calls # << >>
              /\ \/ calls' = Tail(calls)
                 \/ \E c \in Calls : ~IsClaim(c) /\ calls' = Append(Tail(calls), c)
    PROVE  Settles(calls, player)'
<1>1. calls \in Seq(Calls)
  BY DEF SInv, SessionTyped
<1>2. CASE calls' = calls
  BY <1>2
<1>3. CASE \E c \in Calls : (IsClaim(c) => c.of = player) /\ calls' = Append(calls, c)
  BY <1>1, <1>3, SettlesPush
<1>4. CASE calls # << >>
  <2>1. Tail(calls) \in Seq(Calls) /\ Settles(Tail(calls), player)
    BY <1>1, <1>4, SettlesPop
  <2>2. CASE calls' = Tail(calls)
    BY <2>1, <2>2
  <2>3. CASE \E c \in Calls : ~IsClaim(c) /\ calls' = Append(Tail(calls), c)
    BY <2>1, <2>3, SettlesPush
  <2>4. QED
    BY <1>2, <1>3, <2>2, <2>3
<1>5. QED
  BY <1>2, <1>3, <1>4

LEMMA CallsSettle ==
    ASSUME SInv, Settles(calls, player), [SessionNext]_allVars
    PROVE  Settles(calls, player)'
<1>0. calls \in Seq(Calls) /\ player \in Sockets \cup {None}
  BY DEF SInv, SessionTyped
<1>1. CASE \/ BagStep \/ (\E s \in Sockets : CloseJoining(s)) \/ UNCHANGED allVars
          \/ \E m \in Letters, x \in Mailed : Post(m, x[1], x[2], x[3])
  BY <1>1, SettlesAside DEF BagStep, CloseJoining, allVars, live, Post
<1>2. CASE \E s \in Sockets : Join(s) \/ CloseInWorld(s)
  <2>1. PICK s \in Sockets, step \in {"character", "save"} :
            calls' = calls \/ calls' = Append(calls, Call(s, step))
    BY <1>2 DEF Join, CloseInWorld
  <2>2. Call(s, step) \in Calls /\ ~IsClaim(Call(s, step))
    BY CallType DEF Steps, IsClaim, Claims
  <2>3. player' = player
    BY <1>2 DEF Join, CloseInWorld
  <2>4. QED
    BY <2>1, <2>2, <2>3, SettlesAside
<1>3. CASE Request \/ \E m \in Letters : MailPushed(m)
  <2>1. PICK c : /\ calls' = calls \/ calls' = Append(calls, c)
                 /\ player # None => c \in Calls /\ (IsClaim(c) => c.of = player)
                 /\ player = None => calls' = calls
    <3>1. CASE QueryMailBox \/ \E m \in Letters : MailPushed(m)
      <4>1. player # None => Call(player, "list") \in Calls /\ ~IsClaim(Call(player, "list"))
        BY <1>0, CallType DEF Steps, IsClaim, Claims
      <4>2. QED
        BY <3>1, <4>1 DEF QueryMailBox, MayAsk, MailPushed
    <3>2. CASE \E m \in Letters, kind \in Claims : Ask(kind, m)
      <4>1. PICK m \in Letters, kind \in Claims : Ask(kind, m)
        BY <3>2
      <4> DEFINE c == [Call(player, kind) EXCEPT !.mail = m, !.row = letters[m]]
      <4>2. player # None /\ calls' = Append(calls, c) /\ letters[m] \in Letter \cup {None}
        BY <4>1 DEF Ask, MayAsk, SInv, SessionTyped
      <4>3. /\ Call(player, kind) \in Calls /\ Call(player, kind).of = player
        BY <1>0, <4>2, CallType DEF Steps
      <4>4. c \in Calls /\ c.of = player
        BY <4>2, <4>3 DEF Calls
      <4> HIDE DEF c
      <4>5. QED
        BY <4>2, <4>4
    <3>3. QED
      BY <1>3, <3>1, <3>2 DEF Request
  <2>2. player' = player
    BY <1>3 DEF Request, QueryMailBox, Ask, MailPushed
  <2>3. QED
    BY <1>0, <2>1, <2>2, SettlesAside
<1>4. CASE \/ SyncMode \/ Synced \/ MarkRead \/ TakeItem \/ TakeGold \/ RemoveLetter \/ Reject
          \/ FindItems \/ LoadInventory \/ Save
  <2>1. PICK step : Resumed(step)
    BY <1>4 DEF SyncMode, Synced, MarkRead, TakeItem, TakeGold, RemoveLetter, Reject, Refused, Claim,
                FindItems, LoadInventory, Save
  <2>2. calls # << >> /\ Head(calls) \in Calls /\ Caller \in Sockets /\ Head(calls).step = step
    BY <2>1, Resuming
  <2>3. player' = player
    BY <1>4 DEF SyncMode, Synced, MarkRead, TakeItem, TakeGold, RemoveLetter, Reject,
                FindItems, LoadInventory, Save
  <2>4. calls' = Tail(calls) \/ \E c \in Calls : ~IsClaim(c) /\ calls' = Append(Tail(calls), c)
    <3>1. CASE FindItems
      <4>1. Call(Caller, "items") \in Calls /\ Found \in Rows
        BY <2>2, CallType DEF Steps, Found, SInv, IInv, TypeOK
      <4>2. [Call(Caller, "items") EXCEPT !.rows = Found] \in Calls
        BY <4>1 DEF Calls
      <4>3. [Call(Caller, "items") EXCEPT !.rows = Found].step = "items"
        BY DEF Call
      <4>4. QED
        BY <3>1, <4>2, <4>3 DEF FindItems, Await, IsClaim, Claims
    <3>2. CASE LoadInventory
      <4>1. [Head(calls) EXCEPT !.step = "rest"] \in Calls
        BY <2>2 DEF Calls, Steps
      <4>2. [Head(calls) EXCEPT !.step = "rest"].step = "rest"
        BY <2>2 DEF Calls
      <4>3. QED
        BY <3>2, <4>1, <4>2 DEF LoadInventory, Await, IsClaim, Claims
    <3>3. CASE Save
      <4>1. Call(Caller, "leave") \in Calls /\ ~IsClaim(Call(Caller, "leave"))
        BY <2>2, CallType DEF Steps, IsClaim, Claims
      <4>2. QED
        BY <3>3, <4>1 DEF Save, Await
    <3>4. CASE SyncMode \/ Synced \/ MarkRead \/ TakeItem \/ TakeGold \/ RemoveLetter \/ Reject
      <4>1. \A c \in {CountPending(Caller), Call(Caller, "marked")} : c \in Calls /\ ~IsClaim(c)
        BY <2>2, NeutralCalls DEF Neutral
      <4>2. \/ calls' = Tail(calls)
            \/ \E c \in {CountPending(Caller), Call(Caller, "marked")} : calls' = Append(Tail(calls), c)
        BY <3>4 DEF SyncMode, Synced, MarkRead, TakeItem, TakeGold, RemoveLetter, Reject, Await, Done
      <4>3. QED
        BY <4>1, <4>2
    <3>5. QED
      BY <1>4, <3>1, <3>2, <3>3, <3>4
  <2>5. QED
    BY <2>2, <2>3, <2>4, SettlesAside
<1>5. CASE Enter
  <2>1. Caller \in Sockets /\ calls # << >>
    BY <1>5, Resuming DEF Enter
  <2>2. Tail(calls) \in Seq(Calls)
    BY <1>0, <2>1, Popped
  <2>3. player' = Caller /\ calls' = Append(Tail(calls), Call(Caller, "list"))
    BY <1>5, <2>2 DEF Enter, Entered
  <2>4. Call(Caller, "list") \in Calls /\ Recounts(Call(Caller, "list"), Caller)
    BY <2>1, CallType DEF Steps, Recounts
  <2>5. QED
    BY <2>2, <2>3, <2>4, SettlesByRecount
<1>6. CASE SaveFailed \/ Leave \/ Kill
  BY <1>6 DEF SaveFailed, Leave, Kill, Removed, Settles
<1>7. QED
  BY <1>1, <1>2, <1>3, <1>4, <1>5, <1>6 DEF SessionNext, SessionStep, MailStep

LEMMA ShownPush ==
    ASSUME NEW q \in Seq(Calls), NEW c \in Calls, NEW pl, NEW pend, NEW b,
           Shown(q, pl, pend, b), ~Counts(c, pl)
    PROVE  Shown(Append(q, c), pl, pend, b)
<1> DEFINE r == Append(q, c)
<1>1. /\ \A i \in DOMAIN q : i \in DOMAIN r /\ r[i] = q[i]
      /\ \A i \in DOMAIN r : (i \in DOMAIN q /\ r[i] = q[i]) \/ r[i] = c
  BY Pushed
<1> HIDE DEF r
<1>2. CASE \E i \in DOMAIN q : Recounts(q[i], pl)
  BY <1>1, <1>2 DEF Shown
<1>3. CASE \E i \in DOMAIN q : /\ Counts(q[i], pl) /\ q[i].pending = pend
                               /\ \A j \in DOMAIN q : i < j => ~Counts(q[j], pl)
  <2>1. PICK i \in DOMAIN q : /\ Counts(q[i], pl) /\ q[i].pending = pend
                              /\ \A j \in DOMAIN q : i < j => ~Counts(q[j], pl)
    BY <1>3
  <2>2. i \in DOMAIN r /\ r[i] = q[i] /\ \A j \in DOMAIN r : i < j => ~Counts(r[j], pl)
    BY <1>1, <2>1
  <2>3. QED
    BY <2>1, <2>2 DEF Shown, r
<1>4. CASE b = pend /\ \A i \in DOMAIN q : ~Counts(q[i], pl)
  BY <1>1, <1>4 DEF Shown, r
<1>5. QED
  BY <1>2, <1>3, <1>4 DEF Shown, r

\* Popping a call that neither recounts nor is a recount of the player.
LEMMA ShownPop ==
    ASSUME NEW q \in Seq(Calls), q # << >>, NEW pl, NEW pend, NEW b,
           Shown(q, pl, pend, b), ~Counts(Head(q), pl), ~Recounts(Head(q), pl)
    PROVE  Tail(q) \in Seq(Calls) /\ Shown(Tail(q), pl, pend, b)
<1> DEFINE r == Tail(q)
<1>1. /\ r \in Seq(Calls) /\ DOMAIN r \in SUBSET Nat /\ DOMAIN q \in SUBSET Nat
      /\ q[1] = Head(q)
      /\ \A i \in DOMAIN r : i + 1 \in DOMAIN q /\ r[i] = q[i + 1]
      /\ \A i \in DOMAIN q : i # 1 => i - 1 \in DOMAIN r /\ r[i - 1] = q[i]
  BY Popped
<1> HIDE DEF r
<1>2. CASE \E i \in DOMAIN q : Recounts(q[i], pl)
  <2>1. \E i \in DOMAIN r : Recounts(r[i], pl)
    BY <1>1, <1>2
  <2>2. QED
    BY <1>1, <2>1 DEF Shown, r
<1>3. CASE \E i \in DOMAIN q : /\ Counts(q[i], pl) /\ q[i].pending = pend
                               /\ \A j \in DOMAIN q : i < j => ~Counts(q[j], pl)
  <2>1. PICK i \in DOMAIN q : /\ Counts(q[i], pl) /\ q[i].pending = pend
                              /\ \A j \in DOMAIN q : i < j => ~Counts(q[j], pl)
    BY <1>3
  <2>2. i \in Nat /\ i - 1 \in DOMAIN r /\ r[i - 1] = q[i]
    BY <1>1, <2>1
  <2>3. ASSUME NEW j \in DOMAIN r, i - 1 < j
        PROVE  ~Counts(r[j], pl)
    <3>1. j + 1 \in DOMAIN q /\ r[j] = q[j + 1] /\ i < j + 1
      BY <1>1, <2>2, <2>3
    <3>2. QED
      BY <2>1, <3>1
  <2>4. QED
    BY <1>1, <2>1, <2>2, <2>3 DEF Shown, r
<1>4. CASE b = pend /\ \A i \in DOMAIN q : ~Counts(q[i], pl)
  <2>1. \A i \in DOMAIN r : ~Counts(r[i], pl)
    BY <1>1, <1>4
  <2>2. QED
    BY <1>1, <1>4, <2>1 DEF Shown, r
<1>5. QED
  BY <1>2, <1>3, <1>4 DEF Shown

LEMMA ShownByRecount ==
    ASSUME NEW q \in Seq(Calls), NEW c \in Calls, NEW pl, NEW pend, NEW b,
           Recounts(c, pl) \/ (Counts(c, pl) /\ c.pending = pend)
    PROVE  Shown(Append(q, c), pl, pend, b)
<1> DEFINE r == Append(q, c)
           n == Len(q) + 1
<1>1. n \in DOMAIN r /\ r[n] = c /\ \A j \in DOMAIN r : ~(n < j)
  <2>1. \A j \in DOMAIN q : j \in Nat /\ j < n
    BY Pushed
  <2>2. n \in DOMAIN r /\ r[n] = c /\ (\A j \in DOMAIN r : j \in DOMAIN q \/ j = n) /\ n \in Nat
    BY Pushed
  <2>3. QED
    BY <2>1, <2>2
<1> HIDE DEF r, n
<1>2. QED
  BY <1>1 DEF Shown, r

\* The recount that is through is the player's last, or another one follows.
LEMMA ShownByAnswer ==
    ASSUME NEW q \in Seq(Calls), q # << >>, NEW pl, NEW pend, NEW b,
           Shown(q, pl, pend, b), Counts(Head(q), pl)
    PROVE  Shown(Tail(q), pl, pend, Head(q).pending)
<1> DEFINE r == Tail(q)
<1>1. /\ DOMAIN r \in SUBSET (Nat \ {0}) /\ DOMAIN q \in SUBSET Nat
      /\ 1 \in DOMAIN q /\ q[1] = Head(q)
      /\ \A i \in DOMAIN r : i + 1 \in DOMAIN q /\ r[i] = q[i + 1]
      /\ \A i \in DOMAIN q : i # 1 => i - 1 \in DOMAIN r /\ r[i - 1] = q[i]
  BY Popped, Left
<1> HIDE DEF r
<1>2. CASE \E i \in DOMAIN q : Recounts(q[i], pl)
  <2>1. ~Recounts(q[1], pl)
    BY <1>1 DEF Counts, Recounts
  <2>2. \E i \in DOMAIN r : Recounts(r[i], pl)
    BY <1>1, <1>2, <2>1
  <2>3. QED
    BY <2>2 DEF Shown, r
<1>3. CASE \E i \in DOMAIN q : /\ Counts(q[i], pl) /\ q[i].pending = pend
                               /\ \A j \in DOMAIN q : i < j => ~Counts(q[j], pl)
  <2>1. PICK i \in DOMAIN q : /\ Counts(q[i], pl) /\ q[i].pending = pend
                              /\ \A j \in DOMAIN q : i < j => ~Counts(q[j], pl)
    BY <1>3
  <2>2. ASSUME NEW j \in DOMAIN r, i - 1 < j
        PROVE  ~Counts(r[j], pl)
    <3>1. j + 1 \in DOMAIN q /\ r[j] = q[j + 1] /\ i < j + 1
      BY <1>1, <2>1, <2>2
    <3>2. QED
      BY <2>1, <3>1
  <2>3. CASE i = 1
    <3>1. \A j \in DOMAIN r : ~Counts(r[j], pl)
      BY <1>1, <2>2, <2>3
    <3>2. QED
      BY <1>1, <2>1, <2>3, <3>1 DEF Shown, r
  <2>4. CASE i # 1
    <3>1. i - 1 \in DOMAIN r /\ r[i - 1] = q[i]
      BY <1>1, <2>4
    <3>2. QED
      BY <2>1, <2>2, <3>1 DEF Shown, r
  <2>5. QED
    BY <2>3, <2>4
<1>4. CASE \A i \in DOMAIN q : ~Counts(q[i], pl)
  BY <1>1, <1>4
<1>5. QED
  BY <1>2, <1>3, <1>4 DEF Shown

\* A step that leaves letters, box and player alone, and pushes or pops no recount.
LEMMA MailboxAside ==
    ASSUME SInv, MailInv, UNCHANGED <<player, mail>>,
           \/ calls' = calls
           \/ \E c \in Calls : ~Counts(c, player) /\ calls' = Append(calls, c)
           \/ /\ calls # << >> /\ ~Counts(Head(calls), player) /\ ~Recounts(Head(calls), player)
              /\ \/ calls' = Tail(calls)
                 \/ \E c \in Calls : ~Counts(c, player) /\ calls' = Append(Tail(calls), c)
    PROVE  MailInv'
<1> SUFFICES ASSUME player # None, Told PROVE Shown(calls', player, Pending, box)
  BY DEF MailInv, Told, Pending, mail
<1>1. Shown(calls, player, Pending, box) /\ calls \in Seq(Calls)
  BY DEF MailInv, SInv, SessionTyped
<1>2. CASE calls' = calls
  BY <1>1, <1>2
<1>3. CASE \E c \in Calls : ~Counts(c, player) /\ calls' = Append(calls, c)
  BY <1>1, <1>3, ShownPush
<1>4. CASE calls # << >> /\ ~Counts(Head(calls), player) /\ ~Recounts(Head(calls), player)
  <2>1. Tail(calls) \in Seq(Calls) /\ Shown(Tail(calls), player, Pending, box)
    BY <1>1, <1>4, ShownPop
  <2>2. CASE calls' = Tail(calls)
    BY <2>1, <2>2
  <2>3. CASE \E c \in Calls : ~Counts(c, player) /\ calls' = Append(Tail(calls), c)
    BY <2>1, <2>3, ShownPush
  <2>4. QED
    BY <1>2, <1>3, <2>2, <2>3
<1>5. QED
  BY <1>2, <1>3, <1>4

\* A claim that is through recounts, whatever it did to the letter.
LEMMA ClaimRecounts ==
    ASSUME SInv, Settles(calls, player), NEW kind \in Claims, Claim(kind), player' = player,
           \/ calls' = Append(Tail(calls), Call(Caller, "marked"))
           \/ calls' = Append(Tail(calls), CountPending(Caller)) /\ letters' = letters
    PROVE  MailInv'
<1>1. /\ calls # << >> /\ Caller \in Sockets /\ IsClaim(Head(calls)) /\ calls \in Seq(Calls)
  BY Claiming DEF SInv, SessionTyped
<1>2. Tail(calls) \in Seq(Calls) /\ 1 \in DOMAIN calls /\ calls[1] = Head(calls)
  BY <1>1, Popped
<1>3. CASE Caller # player
  <2> SUFFICES ASSUME player # None PROVE Shown(calls', player, Pending', box')
    BY DEF MailInv
  <2>1. PICK j \in DOMAIN calls : 1 < j /\ Recounts(calls[j], player)
    BY <1>1, <1>2, <1>3 DEF Settles, Caller
  <2>2. j - 1 \in DOMAIN Tail(calls) /\ Tail(calls)[j - 1] = calls[j]
    BY <1>1, <2>1, Popped
  <2>3. \A pend, b : Shown(Tail(calls), player, pend, b)
    BY <2>1, <2>2 DEF Shown
  <2>4. PICK c \in {Call(Caller, "marked"), CountPending(Caller)} : calls' = Append(Tail(calls), c)
    OBVIOUS
  <2>5. c \in Calls /\ ~Counts(c, player)
    <3>1. Call(Caller, "marked") \in Calls /\ CountPending(Caller) \in Calls
      BY <1>1, NeutralCalls
    <3>2. Call(Caller, "marked").of = Caller /\ CountPending(Caller).of = Caller
      BY DEF CountPending, Call
    <3>3. QED
      BY <1>3, <3>1, <3>2 DEF Counts
  <2>6. \A pend, b : Shown(Append(Tail(calls), c), player, pend, b)
    BY <1>2, <2>3, <2>5, ShownPush
  <2>7. QED
    BY <2>4, <2>6
<1>4. CASE Caller = player /\ calls' = Append(Tail(calls), Call(Caller, "marked"))
  <2>1. Call(Caller, "marked") \in Calls /\ Recounts(Call(Caller, "marked"), player)
    BY <1>1, <1>4, CallType DEF Steps, Recounts
  <2>2. Shown(calls', player, Pending', box')
    BY <1>2, <1>4, <2>1, ShownByRecount
  <2>3. QED
    BY <2>2 DEF MailInv
<1>5. CASE Caller = player /\ calls' = Append(Tail(calls), CountPending(Caller)) /\ letters' = letters
  <2>1. CountPending(Caller) \in Calls
    BY <1>1, NeutralCalls
  <2>2. Counts(CountPending(Caller), player) /\ CountPending(Caller).pending = Pending
    BY <1>5 DEF Counts, CountPending, Call
  <2>3. Shown(calls', player, Pending, box')
    BY <1>2, <1>5, <2>1, <2>2, ShownByRecount
  <2>4. Pending' = Pending
    BY <1>5 DEF Pending
  <2>5. QED
    BY <2>3, <2>4 DEF MailInv
<1>6. QED
  BY <1>3, <1>4, <1>5

LEMMA SyncModeShows ==
    ASSUME SInv, MailInv, SyncMode
    PROVE  MailInv'
<1>1. PICK step \in {"list", "marked"} : Resumed(step)
  BY DEF SyncMode
<1>2. calls \in Seq(Calls) /\ calls # << >> /\ Caller \in Sockets /\ Head(calls).step = step
  BY <1>1, Resuming
<1>3. Tail(calls) \in Seq(Calls) /\ CountPending(Caller) \in Calls
  BY <1>2, Popped, NeutralCalls
<1>4. CountPending(Caller).of = Caller /\ CountPending(Caller).step = "count"
      /\ CountPending(Caller).pending = Pending
  BY DEF CountPending, Call
<1>5. calls' = Append(Tail(calls), CountPending(Caller)) /\ UNCHANGED <<player, mail>>
  BY DEF SyncMode, Await
<1>6. CASE Caller = player
  <2>1. Shown(calls', player, Pending, box)
    BY <1>3, <1>4, <1>5, <1>6, ShownByRecount DEF Counts
  <2>2. QED
    BY <1>5, <2>1 DEF MailInv, Pending, mail
<1>7. CASE Caller # player
  <2>1. ~Counts(Head(calls), player) /\ ~Recounts(Head(calls), player)
    BY <1>7 DEF Caller, Counts, Recounts
  <2>2. ~Counts(CountPending(Caller), player)
    BY <1>4, <1>7 DEF Counts
  <2>3. QED
    BY <1>2, <1>3, <1>5, <2>1, <2>2, MailboxAside
<1>8. QED
  BY <1>6, <1>7

LEMMA SyncedShows ==
    ASSUME SInv, MailInv, Synced
    PROVE  MailInv'
<1>1. calls \in Seq(Calls) /\ calls # << >> /\ Head(calls).step = "count"
  BY Resuming DEF Synced
<1>2. /\ calls' = Tail(calls) /\ UNCHANGED <<player, letters, news>>
      /\ box' = IF player = Caller THEN Head(calls).pending ELSE box
  BY DEF Synced, Done
<1>3. CASE player = Caller
  <2> SUFFICES ASSUME player # None, Told PROVE Shown(calls', player, Pending, box')
    BY <1>2 DEF MailInv, Told, Pending
  <2>1. Counts(Head(calls), player) /\ Shown(calls, player, Pending, box)
    BY <1>1, <1>3 DEF Caller, Counts, MailInv
  <2>2. Shown(Tail(calls), player, Pending, Head(calls).pending)
    BY <1>1, <2>1, ShownByAnswer
  <2>3. QED
    BY <1>2, <1>3, <2>2
<1>4. CASE player # Caller
  <2>1. ~Counts(Head(calls), player) /\ ~Recounts(Head(calls), player)
    BY <1>4 DEF Caller, Counts, Recounts
  <2>2. QED
    BY <1>1, <1>2, <1>4, <2>1, MailboxAside DEF mail
<1>5. QED
  BY <1>3, <1>4

LEMMA MailStepShows ==
    ASSUME SInv, Settles(calls, player), MailInv, MailStep
    PROVE  MailInv'
<1>0. calls \in Seq(Calls) /\ player \in Sockets \cup {None}
  BY DEF SInv, SessionTyped
<1>1. ASSUME NEW m \in Letters, NEW kind \in Claims, Ask(kind, m)
      PROVE  MailInv'
  <2> DEFINE c == [Call(player, kind) EXCEPT !.mail = m, !.row = letters[m]]
  <2>1. player \in Sockets /\ letters[m] \in Letter \cup {None} /\ kind \in Steps
    BY <1>0, <1>1 DEF Ask, MayAsk, SInv, SessionTyped, Steps
  <2>2. Call(player, kind) \in Calls /\ Call(player, kind).step = kind
    BY <2>1, CallType
  <2>3. c \in Calls /\ c.step = kind
    BY <2>1, <2>2 DEF Calls
  <2>4. ~Counts(c, player)
    BY <2>3 DEF Counts, Claims
  <2>5. calls' = Append(calls, c) /\ UNCHANGED <<player, mail>>
    BY <1>1 DEF Ask
  <2> HIDE DEF c
  <2>6. QED
    BY <2>3, <2>4, <2>5, MailboxAside
<1>2. CASE QueryMailBox
  <2>1. player \in Sockets /\ calls' = Append(calls, Call(player, "list")) /\ UNCHANGED <<player, mail>>
    BY <1>0, <1>2 DEF QueryMailBox, MayAsk
  <2>2. Call(player, "list") \in Calls /\ ~Counts(Call(player, "list"), player)
    BY <2>1, CallType DEF Steps, Counts
  <2>3. QED
    BY <2>1, <2>2, MailboxAside
<1>3. CASE SyncMode
  BY <1>3, SyncModeShows
<1>4. CASE Synced
  BY <1>4, SyncedShows
<1>5. CASE MarkRead \/ TakeItem \/ TakeGold \/ RemoveLetter
  <2>1. PICK kind \in Claims : Claim(kind)
    BY <1>5 DEF MarkRead, TakeItem, TakeGold, RemoveLetter, Claims
  <2>2. /\ player' = player
        /\ \/ calls' = Append(Tail(calls), Call(Caller, "marked"))
           \/ calls' = Append(Tail(calls), CountPending(Caller)) /\ letters' = letters
    BY <1>5 DEF MarkRead, TakeItem, TakeGold, RemoveLetter, Await
  <2>3. QED
    BY <2>1, <2>2, ClaimRecounts
<1>6. CASE Reject
  <2>1. PICK kind \in Claims : Resumed(kind)
    BY <1>6 DEF Reject, Refused, Claim, Claims
  <2>2. calls # << >> /\ Head(calls).step \in Claims
    BY <2>1, Resuming
  <2>3. ~Counts(Head(calls), player) /\ ~Recounts(Head(calls), player)
    BY <2>2 DEF Counts, Recounts, Claims
  <2>4. calls' = Tail(calls) /\ UNCHANGED <<player, mail>>
    BY <1>6 DEF Reject, Done
  <2>5. QED
    BY <2>2, <2>3, <2>4, MailboxAside
<1>7. ASSUME NEW m \in Letters, NEW x \in Mailed, Post(m, x[1], x[2], x[3])
      PROVE  MailInv'
  <2>1. news'[m] = "untold"
    BY <1>7 DEF Post, SInv, SessionTyped
  <2>2. QED
    BY <2>1 DEF MailInv, Told
<1>8. ASSUME NEW m \in Letters, MailPushed(m)
      PROVE  MailInv'
  <2> SUFFICES ASSUME player' # None PROVE Shown(calls', player', Pending', box')
    BY DEF MailInv
  <2>1. player' = player /\ player \in Sockets /\ calls' = Append(calls, Call(player, "list"))
    BY <1>0, <1>8 DEF MailPushed
  <2>2. Call(player, "list") \in Calls /\ Recounts(Call(player, "list"), player)
    BY <2>1, CallType DEF Steps, Recounts
  <2>3. QED
    BY <1>0, <2>1, <2>2, ShownByRecount
<1>9. QED
  BY <1>1, <1>2, <1>3, <1>4, <1>5, <1>6, <1>7, <1>8 DEF MailStep, Request

LEMMA SessionStepShows ==
    ASSUME SInv, MailInv, SessionStep
    PROVE  MailInv'
<1>0. calls \in Seq(Calls)
  BY DEF SInv, SessionTyped
<1>1. ASSUME NEW s \in Sockets, Join(s) \/ CloseInWorld(s)
      PROVE  MailInv'
  <2>1. PICK step \in {"character", "save"} :
            calls' = calls \/ calls' = Append(calls, Call(s, step))
    BY <1>1 DEF Join, CloseInWorld
  <2>2. Call(s, step) \in Calls /\ ~Counts(Call(s, step), player)
    BY CallType DEF Steps, Counts
  <2>3. UNCHANGED <<player, mail>>
    BY <1>1 DEF Join, CloseInWorld
  <2>4. QED
    BY <2>1, <2>2, <2>3, MailboxAside
<1>2. ASSUME NEW s \in Sockets, CloseJoining(s)
      PROVE  MailInv'
  BY <1>2, MailboxAside DEF CloseJoining
<1>3. CASE FindItems \/ LoadInventory \/ Save
  <2>1. PICK step \in {"character", "items", "save"} : Resumed(step)
    BY <1>3 DEF FindItems, LoadInventory, Save
  <2>2. /\ calls # << >> /\ Head(calls) \in Calls /\ Head(calls).step = step /\ Caller \in Sockets
    BY <2>1, Resuming
  <2>3. ~Counts(Head(calls), player) /\ ~Recounts(Head(calls), player)
    BY <2>2 DEF Counts, Recounts
  <2>4. UNCHANGED <<player, mail>>
    BY <1>3 DEF FindItems, LoadInventory, Save
  <2>5. \E c \in Calls : ~Counts(c, player) /\ calls' = Append(Tail(calls), c)
    <3>1. CASE FindItems
      <4>1. Call(Caller, "items") \in Calls /\ Found \in Rows
        BY <2>2, CallType DEF Steps, Found, SInv, IInv, TypeOK
      <4>2. [Call(Caller, "items") EXCEPT !.rows = Found] \in Calls
        BY <4>1 DEF Calls
      <4>3. [Call(Caller, "items") EXCEPT !.rows = Found].step = "items"
        BY DEF Call
      <4>4. QED
        BY <3>1, <4>2, <4>3 DEF FindItems, Await, Counts
    <3>2. CASE LoadInventory
      <4>1. [Head(calls) EXCEPT !.step = "rest"] \in Calls
        BY <2>2 DEF Calls, Steps
      <4>2. [Head(calls) EXCEPT !.step = "rest"].step = "rest"
        BY <2>2 DEF Calls
      <4>3. QED
        BY <3>2, <4>1, <4>2 DEF LoadInventory, Await, Counts
    <3>3. CASE Save
      <4>1. Call(Caller, "leave") \in Calls /\ ~Counts(Call(Caller, "leave"), player)
        BY <2>2, CallType DEF Steps, Counts
      <4>2. QED
        BY <3>3, <4>1 DEF Save, Await
    <3>4. QED
      BY <1>3, <3>1, <3>2, <3>3
  <2>6. QED
    BY <2>2, <2>3, <2>4, <2>5, MailboxAside
<1>4. CASE Enter
  <2>1. Caller \in Sockets /\ calls # << >>
    BY <1>4, Resuming DEF Enter
  <2>2. Tail(calls) \in Seq(Calls)
    BY <1>0, <2>1, Popped
  <2>3. player' = Caller /\ calls' = Append(Tail(calls), Call(Caller, "list"))
    BY <1>4, <2>2 DEF Enter, Entered
  <2>4. Call(Caller, "list") \in Calls /\ Recounts(Call(Caller, "list"), Caller)
    BY <2>1, CallType DEF Steps, Recounts
  <2>5. Shown(calls', player', Pending', box')
    BY <2>2, <2>3, <2>4, ShownByRecount
  <2>6. QED
    BY <2>5 DEF MailInv
<1>5. CASE SaveFailed \/ Leave \/ Kill
  BY <1>5 DEF SaveFailed, Leave, Kill, Removed, MailInv
<1>6. QED
  BY <1>1, <1>2, <1>3, <1>4, <1>5 DEF SessionStep

LEMMA MailInvIsInductive ==
    SInv /\ Settles(calls, player) /\ MailInv /\ [SessionNext]_allVars
        => Settles(calls, player)' /\ MailInv'
<1> SUFFICES ASSUME SInv, Settles(calls, player), MailInv, [SessionNext]_allVars PROVE MailInv'
  BY CallsSettle
<1>1. CASE BagStep
  BY <1>1, MailboxAside DEF BagStep, live
<1>2. CASE UNCHANGED allVars
  BY <1>2, MailboxAside DEF allVars, live
<1>3. QED
  BY <1>1, <1>2, MailStepShows, SessionStepShows DEF SessionNext

\* With no query under way and every letter told of, MODE_MAILBOX shows whether a
\* letter is unread or has something to be taken, whatever overlapped before.
THEOREM MailboxIsShown == SessionSpec => []MailboxShown
<1>1. SessionInit => MailInv /\ Settles(calls, player)
  BY DEF SessionInit, MailInv, Settles
<1>2. SInv /\ MailInv => MailboxShown
  <2> SUFFICES ASSUME SInv, MailInv, player # None, calls = << >>, Told PROVE box = Pending
    BY DEF MailboxShown, Told
  <2>1. Shown(<< >>, player, Pending, box)
    BY DEF MailInv
  <2>2. DOMAIN << >> = {}
    OBVIOUS
  <2>3. QED
    BY <2>1, <2>2 DEF Shown
<1>3. QED
  BY <1>1, <1>2, SessionInitHolds, SInvIsInductive, MailInvIsInductive, PTL DEF SessionSpec
==============================================================================
