------------------------------ MODULE Inventory ------------------------------
(***************************************************************************)
(* The contents of one character's item container, as operators on a bag:  *)
(* a function from slots to an item or Empty.  The services that keep      *)
(* state (Trade, Market, Bag, Vault) are built from these; nothing here is *)
(* a state machine.                                                        *)
(*                                                                         *)
(* An item carries what the services tell apart: its propItem id, the      *)
(* objid the client addresses it by, its stack count, and `opt', which     *)
(* stands for all the instance state of an item (flags, refine, element,   *)
(* durability): Plain for the defaults an item is created with.            *)
(***************************************************************************)
EXTENDS Integers, Functions

CONSTANTS
    BagSize,    \* MAX_INVENTORY: slots 0 .. BagSize-1 are the main bag
    ItemIds,    \* propItem ids
    StackSize,  \* prop.stack_size of each item id
    MaxStack,   \* bounds the stack sizes, and the counts a client asks for
    Opts,       \* instance states an item can be in
    Plain,      \* the instance state of a freshly created item
    Elemental,  \* instance states with an element, which persist() does not save
    Empty       \* an empty slot (null in the code)

ASSUME BagAssumption ==
    /\ BagSize \in Nat \ {0}
    /\ MaxStack \in Nat \ {0}
    /\ StackSize \in [ItemIds -> 1 .. MaxStack]
    /\ Plain \in Opts
    /\ Elemental \subseteq Opts \ {Plain}

Slots == 0 .. (BagSize - 1)

Item == [itemId : ItemIds, objid : Nat, count : Nat \ {0}, opt : Opts]

\* What the database and the journal keep of an item: the objid is not stored.
DurableItem == [itemId : ItemIds, count : Nat \ {0}, opt : Opts]

ASSUME EmptyAssumption == Empty \notin Item \cup DurableItem

Least(S) == CHOOSE x \in S : \A y \in S : x <= y
Smaller(a, b) == IF a <= b THEN a ELSE b

\* The units of k an item has.
CountOf(item, k) == IF item # Empty /\ item.itemId = k THEN item.count ELSE 0

Occupied(b) == {s \in DOMAIN b : b[s] # Empty}
EmptySlots(b) == {s \in Slots : b[s] = Empty}

\* CPlayer.findSlotByObjId: the first slot whose item carries the objid, else
\* the objid read as a slot number.
NoSlot == -1
FindSlotByObjId(b, o) ==
    LET carriers == {s \in Occupied(b) : b[s].objid = o}
    IN  IF carriers # {} THEN Least(carriers)
        ELSE IF o \in Occupied(b) THEN o ELSE NoSlot

\* The item left in a slot after n of it are taken away.
Less(item, n) ==
    IF item.count > n THEN [item EXCEPT !.count = @ - n] ELSE Empty

\* What an INVENTORY_SLOT journal row restores: the payload carries itemId and
\* count only, so the replayed slot has the default instance state.
Row(item) ==
    IF item = Empty THEN Empty
    ELSE [itemId |-> item.itemId, count |-> item.count, opt |-> Plain]

\* InventoryRepository.setItem of a whole slot, and InventoryService.persist,
\* which leaves the element columns to their defaults.
Stored(item) ==
    IF item = Empty THEN Empty
    ELSE [itemId |-> item.itemId, count |-> item.count, opt |-> item.opt]

Persisted(item) ==
    IF item # Empty /\ item.opt \in Elemental
    THEN [Stored(item) EXCEPT !.opt = Plain] ELSE Stored(item)

\* InventoryRepository.moveItem: between two rows only the item id and the
\* quantity are exchanged; a lone row moves whole.
RowsMoved(rows, src, dst) ==
    IF rows[src] = Empty THEN rows
    ELSE IF rows[dst] = Empty
    THEN [rows EXCEPT ![dst] = rows[src], ![src] = Empty]
    ELSE [rows EXCEPT ![src] = [rows[dst] EXCEPT !.opt = rows[src].opt],
                      ![dst] = [rows[src] EXCEPT !.opt = rows[dst].opt]]

\* JoinService.loadInventory: every loaded item takes its slot as its objid.
Load(rows) ==
    [s \in DOMAIN rows |->
        IF rows[s] = Empty THEN Empty
        ELSE [itemId |-> rows[s].itemId, objid |-> s,
              count |-> rows[s].count, opt |-> rows[s].opt]]

\* InventoryService.addItem of a single unit: onto the first partial plain
\* stack, else into the first empty slot under the objid the client expects
\* there; CanAddOne is its bag_full test.
Partial(b, k) ==
    {s \in Slots : /\ b[s] # Empty
                   /\ b[s].itemId = k /\ b[s].opt = Plain
                   /\ b[s].count < StackSize[k]}

CanAddOne(b, k) == Partial(b, k) # {} \/ EmptySlots(b) # {}

AddOneSlot(b, k) ==
    IF Partial(b, k) # {} THEN Least(Partial(b, k)) ELSE Least(EmptySlots(b))

AddOne(b, index, k) ==
    LET s == AddOneSlot(b, k)
    IN  [b EXCEPT ![s] =
            IF b[s] # Empty THEN [b[s] EXCEPT !.count = @ + 1]
            ELSE [itemId |-> k, objid |-> index[s], count |-> 1, opt |-> Plain]]

\* addItem of n units: all of them, or as many as fit.
AddUnits(b, index, k, n) ==
    LET one[m \in 0 .. n] ==
            IF m = 0 THEN b
            ELSE IF CanAddOne(one[m - 1], k) THEN AddOne(one[m - 1], index, k)
            ELSE one[m - 1]
    IN  one[n]

\* How many more units of k the bag takes, which canFit and hasSpace ask.
Headroom(item, k) ==
    IF item = Empty THEN StackSize[k]
    ELSE IF item.itemId = k /\ item.opt = Plain /\ item.count < StackSize[k]
    THEN StackSize[k] - item.count
    ELSE 0
SpaceFor(b, k) == SumFunction([s \in Slots |-> Headroom(b[s], k)])

\* InventoryService.moveItem: pour src into dst when both hold the same plain
\* stackable item and dst has room, otherwise swap the two slots.
Pours(b, src, dst) ==
    /\ b[dst] # Empty
    /\ b[dst].itemId = b[src].itemId
    /\ b[src].opt = Plain /\ b[dst].opt = Plain
    /\ b[dst].count < StackSize[b[src].itemId]

Poured(b, src, dst) ==
    Smaller(b[src].count, StackSize[b[src].itemId] - b[dst].count)

Moved(b, src, dst) ==
    IF Pours(b, src, dst)
    THEN [b EXCEPT ![src] = Less(@, Poured(b, src, dst)),
                   ![dst] = [b[dst] EXCEPT !.count = @ + Poured(b, src, dst)]]
    ELSE [b EXCEPT ![src] = b[dst], ![dst] = b[src]]

\* onInvSlotsSwapped: the client's slot index travels with a swap, not a pour.
MovedIndex(b, index, src, dst) ==
    IF Pours(b, src, dst) THEN index
    ELSE [index EXCEPT ![src] = index[dst], ![dst] = index[src]]
==============================================================================
