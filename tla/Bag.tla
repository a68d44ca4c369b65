--------------------------------- MODULE Bag ---------------------------------
(***************************************************************************)
(* One character's m_Inventory -- the main bag and the equip parts above   *)
(* it -- under InventoryService, EquipService and EnchantService, with the *)
(* client's slot index the server mirrors (m_invIndex), the inventory_item *)
(* rows and the journal.                                                   *)
(*                                                                         *)
(* The handlers are synchronous, and write the journal before the rows;    *)
(* the rows are written in the order issued.                               *)
(***************************************************************************)
EXTENDS Inventory, FiniteSets

CONSTANTS
    MaxParts,   \* MAX_HUMAN_PARTS
    PartOf,     \* prop.equip_slot of each item id; 0 cannot be worn
    Upgrades,   \* <<material, item id, from, to>>: an enchant that is not refused
    Fragile     \* <<material, opt>>: level at which a failed enchant destroys

ASSUME BagPartsAssumption ==
    /\ MaxParts \in Nat \ {0}
    /\ PartOf \in [ItemIds -> 0 .. (MaxParts - 1)]
    /\ Upgrades \subseteq ItemIds \X ItemIds \X Opts \X Opts
    /\ Fragile \subseteq ItemIds \X Opts

Parts == 1 .. (MaxParts - 1)
EquipSlot(part) == BagSize + part
AllSlots == Slots \cup {EquipSlot(part) : part \in Parts}

ObjIds == 0 .. (BagSize + MaxParts - 1)
NullId == BagSize + MaxParts    \* NULL_ID, 0xffffffff in the code

VARIABLES
    bag,        \* m_Inventory
    index,      \* m_invIndex
    db,         \* the inventory_item rows
    durBag      \* the slots boot recovery would restore

vars == <<bag, index, db, durBag>>

Contents == [AllSlots -> Item \cup {Empty}]
Rows == [AllSlots -> DurableItem \cup {Empty}]

TypeOK ==
    /\ bag \in Contents
    /\ index \in [AllSlots -> ObjIds \cup {NullId}]
    /\ db \in Rows
    /\ durBag \in Rows

------------------------------------------------------------------------------
(* addItem and canFit.                                                     *)

\* The units of item k that fit, as <<slot, position in the stack>>.
Room(b, k) ==
    {x \in Slots \X (1 .. MaxStack) :
        /\ x[2] <= StackSize[k]
        /\ \/ b[x[1]] = Empty
           \/ x[1] \in Partial(b, k) /\ x[2] > b[x[1]].count}

\* addItem fills partial stacks in its first pass, empty slots in its second.
Before(b, x, y) ==
    IF (b[x[1]] = Empty) = (b[y[1]] = Empty)
    THEN x[1] < y[1] \/ (x[1] = y[1] /\ x[2] < y[2])
    ELSE b[y[1]] = Empty

PlacedIn(b, k, n, s) ==
    {x \in Room(b, k) :
        x[1] = s /\ Cardinality({y \in Room(b, k) : Before(b, y, x)}) < n}

\* All n units, or as many as fit.  A new item takes the objid the client's
\* index holds for the slot (CPlayer.clientObjId).
Added(b, ix, k, n) ==
    [s \in DOMAIN b |->
        IF PlacedIn(b, k, n, s) = {} THEN b[s]
        ELSE IF b[s] # Empty
        THEN [b[s] EXCEPT !.count = @ + Cardinality(PlacedIn(b, k, n, s))]
        ELSE [itemId |-> k, objid |-> ix[s],
              count |-> Cardinality(PlacedIn(b, k, n, s)), opt |-> Plain]]

CanFitEmpty(b, k, n) ==     \* variant: without the merge pass
    StackSize[k] * Cardinality(EmptySlots(b)) >= n
CanFit(b, k, n) == SpaceFor(b, k) >= n

------------------------------------------------------------------------------
(* How a step writes a slot to the journal and to the rows.                *)

Changed(b) == {s \in AllSlots : b[s] # bag[s]}

\* What recovery restores after INVENTORY_SLOT rows without instance state.
Journaled(b, S) == [s \in AllSlots |-> IF s \in S THEN Row(b[s]) ELSE durBag[s]]
Saved(b, S) == [s \in AllSlots |-> IF s \in S THEN Persisted(b[s]) ELSE db[s]]

ChangeBag(b) ==
    /\ bag' = b
    /\ durBag' = Journaled(b, Changed(b))
    /\ db' = Saved(b, Changed(b))

------------------------------------------------------------------------------
(* InventoryService.                                                       *)

AddItem(k, n) ==
    /\ Room(bag, k) # {}
    /\ ChangeBag(Added(bag, index, k, n))
    /\ UNCHANGED index

TakeAway(s, n) ==
    /\ ChangeBag([bag EXCEPT ![s] = Less(@, n)])
    /\ UNCHANGED index

DropItem(s, n) == /\ bag[s] # Empty
                  /\ TakeAway(s, Smaller(n, bag[s].count))

RemoveItem(s, n) == /\ bag[s] # Empty /\ n <= bag[s].count
                    /\ TakeAway(s, n)

Consume(s, n) == RemoveItem(s, n)

\* A pour changes two stacks; a swap writes the rows with moveItem.
MoveItem(src, dst) ==
    /\ src # dst /\ bag[src] # Empty
    /\ LET b == Moved(bag, src, dst)
       IN  /\ bag' = b
           /\ durBag' = Journaled(b, {src, dst})
           /\ db' = IF Pours(bag, src, dst) THEN Saved(b, {src, dst})
                    ELSE RowsMoved(db, src, dst)
    /\ index' = MovedIndex(bag, index, src, dst)

------------------------------------------------------------------------------
(* EquipService.                                                           *)

\* CPlayer.firstFreeObjId: the smallest objid no occupied slot's index holds.
FirstFreeObjId(b, ix) ==
    LET free == ObjIds \ {ix[s] : s \in Occupied(b)}
    IN  IF free = {} THEN NullId ELSE Least(free)

\* The worn item goes to its part; what that part held comes back.  Level, bow
\* and flight gates only refuse, before anything changes.
EquipJournalOne(b, src, part) == Journaled(b, {part})   \* variant: destination only
EquipJournal(b, src, part) == Journaled(b, {src, part})

Equip(src) ==
    /\ bag[src] # Empty
    /\ PartOf[bag[src].itemId] \in Parts
    /\ LET part == EquipSlot(PartOf[bag[src].itemId])
           b == [bag EXCEPT ![part] = bag[src], ![src] = bag[part]]
           ix == [index EXCEPT ![part] = index[src]]
       IN  /\ bag' = b
           /\ index' = [ix EXCEPT ![src] = FirstFreeObjId(b, ix)]
           /\ durBag' = EquipJournal(b, src, part)
           /\ db' = Saved(b, {src, part})

Unequip(part) ==
    /\ bag[EquipSlot(part)] # Empty
    /\ EmptySlots(bag) # {}
    /\ LET src == EquipSlot(part)
           dst == Least(EmptySlots(bag))
           b == [bag EXCEPT ![dst] = bag[src], ![src] = Empty]
       IN  /\ bag' = b
           /\ index' = [index EXCEPT ![dst] = index[src], ![src] = NullId]
           /\ durBag' = Journaled(b, {src, dst})
           /\ db' = Saved(b, {src, dst})

------------------------------------------------------------------------------
(* EnchantService.                                                         *)

\* One unit of the material goes first.  consume() takes only from the main
\* bag, and its result is not checked.
WithoutMaterial(b, m) == IF m \in Slots THEN [b EXCEPT ![m] = Less(@, 1)] ELSE b

\* enchant of the item with objid t by the material with objid m; `to' is the
\* instance state success gives.
EnchantOf(t, m, to) ==
    /\ t \in Slots /\ m \in AllSlots /\ t # m
    /\ bag[t] # Empty /\ bag[m] # Empty
    /\ <<bag[m].itemId, bag[t].itemId, bag[t].opt, to>> \in Upgrades

\* The enchanted slot is journaled and saved with its instance state.
EnchantSucceeds(t, m, to) ==
    LET b == [WithoutMaterial(bag, m) EXCEPT ![t] = [bag[t] EXCEPT !.opt = to]]
    IN  /\ EnchantOf(t, m, to)
        /\ bag' = b
        /\ durBag' = [Journaled(b, {m} \cap Slots) EXCEPT ![t] = Stored(b[t])]
        /\ db' = [Saved(b, {m} \cap Slots) EXCEPT ![t] = Stored(b[t])]
        /\ UNCHANGED index

Destroys(t, m) == <<bag[m].itemId, bag[t].opt>> \in Fragile

EnchantFails(t, m, to) ==
    /\ EnchantOf(t, m, to)
    /\ ChangeBag(IF Destroys(t, m) THEN [WithoutMaterial(bag, m) EXCEPT ![t] = Empty]
                 ELSE WithoutMaterial(bag, m))
    /\ UNCHANGED index

------------------------------------------------------------------------------
(* Reloading.                                                              *)

\* The constructor's identity, then syncInvIndexAfterLoad.
LoadedIndex(rows) ==
    [s \in AllSlots |-> IF s \notin Slots /\ rows[s] = Empty THEN NullId ELSE s]

LoadFrom(rows) == bag' = Load(rows) /\ index' = LoadedIndex(rows)

\* leave, then join: the same process, so no journal row is replayed.
Relog == LoadFrom(db) /\ UNCHANGED <<db, durBag>>

\* The process is restarted, recovers, and the character joins.
Restart == LoadFrom(durBag) /\ db' = durBag /\ UNCHANGED durBag

------------------------------------------------------------------------------
\* A character enters with rows that hold no more than a stack each.
Init ==
    /\ durBag \in Rows
    /\ \A s \in Occupied(durBag) : durBag[s].count <= StackSize[durBag[s].itemId]
    /\ db = durBag
    /\ bag = Load(durBag)
    /\ index = LoadedIndex(durBag)

EnchantStep ==
    \E x, y \in ObjIds \cup {NullId}, to \in Opts :
        LET t == FindSlotByObjId(bag, x)
            m == FindSlotByObjId(bag, y)
        IN  EnchantSucceeds(t, m, to) \/ EnchantFails(t, m, to)

Operation ==
    \/ \E k \in ItemIds, n \in 1 .. (2 * MaxStack) : AddItem(k, n)
    \/ \E s \in Slots, n \in 1 .. MaxStack :
          DropItem(s, n) \/ RemoveItem(s, n) \/ Consume(s, n)
    \/ \E src, dst \in Slots : MoveItem(src, dst)
    \/ \E src \in Slots : Equip(src)
    \/ \E part \in Parts : Unequip(part)
    \/ EnchantStep

Next == Operation \/ Relog \/ Restart

Spec == Init /\ [][Next]_vars

------------------------------------------------------------------------------
(* Properties.                                                             *)

\* Journal before ack, across the bag and the equip parts: what recovery would
\* restore and what a relog would load is, slot by slot, the item and the count
\* the character carries ("on crash the source slot's earlier row replayed and
\* resurrected the bag copy", equip.service.ts).
RowsCurrent ==
    \A s \in AllSlots : /\ Row(durBag[s]) = Row(bag[s])
                        /\ Row(db[s]) = Row(bag[s])

Units(b, k) == SumFunction([s \in AllSlots |-> CountOf(b[s], k)])

\* canFit says yes exactly when addItem would place every unit, whatever is in
\* the bag: callers test the one before they debit for the other.
CanFitIsExact ==
    \A k \in ItemIds, n \in 1 .. (2 * MaxStack) :
        CanFit(bag, k, n) <=> Units(Added(bag, index, k, n), k) = Units(bag, k) + n

\* addItem's two passes over n units place them where n calls of one unit would,
\* each under the objid the client's index holds for the slot.
AddsOneByOne ==
    \A k \in ItemIds :
        LET one[n \in Nat] ==
                IF n = 0 THEN bag
                ELSE IF CanAddOne(one[n - 1], k) THEN AddOne(one[n - 1], index, k)
                ELSE one[n - 1]
        IN  \A n \in 1 .. (2 * MaxStack) : Added(bag, index, k, n) = one[n]

\* addItem does what its callers were told it would.
AddsAsPromised == CanFitIsExact /\ AddsOneByOne
==============================================================================
