-------------------------------- MODULE Bank --------------------------------
(***************************************************************************)
(* BankService and JoinService: the bank is shared by the characters of an *)
(* account, and every player object carries its own copy of it (m_Bank,    *)
(* m_BankGold), read row by row while it joins.                            *)
(*                                                                         *)
(* Nothing keeps two characters of an account, or two sessions of one      *)
(* character, from being in the world together; PlayerManager has one      *)
(* object per character id, the one that entered last.                     *)
(*                                                                         *)
(* Purse, bag, tab gold and chest slots are cells, one per database column *)
(* or row; an operation changes two of them, in memory, in the journal and *)
(* in the database.  Handlers are synchronous; the rows they issue reach   *)
(* the database in the order issued.                                       *)
(***************************************************************************)
EXTENDS Inventory, FiniteSets

CONSTANTS
    Chars,      \* the characters of one account
    Objects,    \* CPlayers, one per JOIN
    CharOf,     \* whose they are: m_idPlayer
    Tabs,       \* MAX_BANK_TABS
    ChestSize,  \* BANK_SLOTS of a tab
    MaxGold,    \* MAX_GOLD
    Amounts,    \* the sums of gold a client asks to move
    NoOne,      \* no object of a character is registered
    NoRow       \* a cell not loaded, or without an unreplayed journal row

ChestSlots == 0 .. (ChestSize - 1)

Purse(c) == <<"purse", c, 0>>
Vault(t) == <<"vault", t, 0>>
BagCell(c, s) == <<"bag", c, s>>
ChestCell(t, s) == <<"chest", t, s>>

Vaults == {Vault(t) : t \in Tabs}
Chest == {ChestCell(t, s) : t \in Tabs, s \in ChestSlots}
GoldCells == {Purse(c) : c \in Chars} \cup Vaults
ItemCells == {BagCell(c, s) : c \in Chars, s \in Slots} \cup Chest
Cells == GoldCells \cup ItemCells

\* The cells object o carries.
PurseOf(o) == Purse(CharOf[o])
BagOf(o) == {BagCell(CharOf[o], s) : s \in Slots}
Own(o) == {PurseOf(o)} \cup Vaults \cup BagOf(o) \cup Chest

ASSUME BankAssumption ==
    /\ ChestSize \in Nat \ {0} /\ MaxGold \in Nat /\ Amounts \subseteq Nat \ {0}
    /\ IsFiniteSet(Chars) /\ IsFiniteSet(Tabs) /\ Tabs \subseteq Nat
    /\ CharOf \in [Objects -> Chars] /\ NoOne \notin Objects
    /\ NoRow \notin Nat \cup DurableItem \cup {Empty}

Stack == DurableItem \cup {Empty}

VARIABLES
    sess,   \* of each object: its JOIN, its connection, and its end
    player, \* PlayerManager: the object registered for each character
    mem,    \* what each object holds
    db,     \* the database
    wal     \* the last unreplayed journal row of each cell

vars == <<sess, player, mem, db, wal>>

\* f gives every cell a value of its kind, or one of `others'.
Holds(f, others) ==
    /\ f = [k \in Cells |-> f[k]]
    /\ \A k \in GoldCells : f[k] \in others \cup Nat
    /\ \A k \in ItemCells : f[k] \in others \cup Stack

TypeOK ==
    /\ sess \in [Objects -> {"out", "joining", "dropped", "in", "closing", "gone"}]
    /\ player \in [Chars -> Objects \cup {NoOne}]
    /\ mem = [o \in Objects |-> mem[o]]
    /\ \A o \in Objects : Holds(mem[o], {NoRow})
    /\ Holds(db, {})
    /\ Holds(wal, {NoRow})

NoCells == [k \in Cells |-> NoRow]

\* What boot recovery makes of the database.
Recovered(d, w) == [k \in Cells |-> IF w[k] = NoRow THEN d[k] ELSE w[k]]

------------------------------------------------------------------------------
(* A change of two cells; the journal row of the first is appended first.  *)

Change(k1, v1, k2, v2) == [k1 |-> k1, v1 |-> v1, k2 |-> k2, v2 |-> v2]

\* Rows carry an item's flags, refine and durability, not its element.
Durable(k, v) == IF k \in GoldCells THEN v ELSE Persisted(v)

Applied(f, ch) == [f EXCEPT ![ch.k1] = ch.v1, ![ch.k2] = ch.v2]
Written(f, ch) == [f EXCEPT ![ch.k1] = Durable(ch.k1, ch.v1),
                            ![ch.k2] = Durable(ch.k2, ch.v2)]

Perform(o, ch) ==
    /\ wal' = Written(wal, ch)
    /\ mem' = [mem EXCEPT ![o] = Applied(mem[o], ch)]
    /\ db' = Written(db, ch)
    /\ UNCHANGED <<sess, player>>

\* Restart with journal w: recover, and nobody is in the world.
Boot(w) ==
    /\ db' = Recovered(db, w)
    /\ wal' = NoCells
    /\ mem' = [o \in Objects |-> NoCells]
    /\ sess' = [o \in Objects |-> "out"]
    /\ player' = [c \in Chars |-> NoOne]

\* Killed after the first row: replay gives that cell alone its new value.
DieHalfway(ch) == Boot([wal EXCEPT ![ch.k1] = Durable(ch.k1, ch.v1)])

------------------------------------------------------------------------------
(* BankService.                                                            *)

\* cloneSlot of n of an item, or of all of it.
ClonedUnclamped(item, n) == [Persisted(item) EXCEPT !.count = n]  \* variant: no min
Cloned(item, n) == [Persisted(item) EXCEPT !.count = Smaller(n, item.count)]

\* A client of the character is connected, and its packets reach object o.
Playing(o) ==
    /\ player[CharOf[o]] = o
    /\ \E p \in Objects : CharOf[p] = CharOf[o] /\ sess[p] = "in"

FreeChest(o, t) == {s \in ChestSlots : mem[o][ChestCell(t, s)] = Empty}
FreeBag(o) == {s \in Slots : mem[o][BagCell(CharOf[o], s)] = Empty}

CanDeposit(o, t, s) ==
    /\ Playing(o)
    /\ mem[o][BagCell(CharOf[o], s)] # Empty
    /\ FreeChest(o, t) # {}

DepositChange(o, t, s, n) ==
    LET item == mem[o][BagCell(CharOf[o], s)]
    IN  Change(ChestCell(t, Least(FreeChest(o, t))), Cloned(item, n),
               BagCell(CharOf[o], s), Less(item, n))

CanWithdraw(o, t, s) ==
    /\ Playing(o)
    /\ mem[o][ChestCell(t, s)] # Empty
    /\ FreeBag(o) # {}

WithdrawChange(o, t, s, n) ==
    LET item == mem[o][ChestCell(t, s)]
    IN  Change(BagCell(CharOf[o], Least(FreeBag(o))), Cloned(item, n),
               ChestCell(t, s), Less(item, n))

CanDepositGoldUncapped(o, t, n) ==      \* variant: a tab without a limit
    Playing(o) /\ n <= mem[o][PurseOf(o)]
CanDepositGold(o, t, n) ==
    /\ Playing(o)
    /\ n <= mem[o][PurseOf(o)]
    /\ mem[o][Vault(t)] + n <= MaxGold

DepositGoldChange(o, t, n) ==
    Change(PurseOf(o), mem[o][PurseOf(o)] - n, Vault(t), mem[o][Vault(t)] + n)

CanWithdrawGold(o, t, n) ==
    /\ Playing(o)
    /\ n <= mem[o][Vault(t)]

WithdrawGoldChange(o, t, n) ==
    Change(PurseOf(o), mem[o][PurseOf(o)] + n, Vault(t), mem[o][Vault(t)] - n)

\* The changes a client may ask for now.
ItemMoves(o) ==
    {DepositChange(o, x[1], x[2], x[3]) :
        x \in {y \in Tabs \X Slots \X (1 .. MaxStack) : CanDeposit(o, y[1], y[2])}}
    \cup {WithdrawChange(o, x[1], x[2], x[3]) :
        x \in {y \in Tabs \X ChestSlots \X (1 .. MaxStack) : CanWithdraw(o, y[1], y[2])}}
GoldMoves(o) ==
    {DepositGoldChange(o, x[1], x[2]) :
        x \in {y \in Tabs \X Amounts : CanDepositGold(o, y[1], y[2])}}
    \cup {WithdrawGoldChange(o, x[1], x[2]) :
        x \in {y \in Tabs \X Amounts : CanWithdrawGold(o, y[1], y[2])}}
Moves(o) == ItemMoves(o) \cup GoldMoves(o)

------------------------------------------------------------------------------
(* JoinService: one query after another, then the object is registered.    *)

Join(o) ==
    /\ sess[o] = "out"
    /\ sess' = [sess EXCEPT ![o] = "joining"]
    /\ UNCHANGED <<player, mem, db, wal>>

FoundNoGold(k) == IF k \in Vaults THEN 0 ELSE db[k]    \* variant: a tab's gold is not loaded
Found(k) == db[k]

\* The query for cells K, which follows the one for cells `before'.
Query(o, before, K) ==
    /\ sess[o] \in {"joining", "dropped"}
    /\ \A k \in before : mem[o][k] # NoRow
    /\ \A k \in K : mem[o][k] = NoRow
    /\ mem' = [mem EXCEPT ![o] = [k \in Cells |-> IF k \in K THEN Found(k) ELSE mem[o][k]]]
    /\ UNCHANGED <<sess, player, db, wal>>

LoadBag(o) == Query(o, {}, BagOf(o))
LoadPurse(o) == Query(o, BagOf(o), {PurseOf(o)})
LoadChest(o) == Query(o, {PurseOf(o)}, Chest)
LoadGold(o, t) == Query(o, Chest \cup {Vault(u) : u \in {v \in Tabs : v < t}}, {Vault(t)})

\* It takes the place of an object of the same character; if its connection closed
\* meanwhile, it is registered all the same.
Enter(o) ==
    /\ sess[o] \in {"joining", "dropped"}
    /\ \A k \in Own(o) : mem[o][k] # NoRow
    /\ sess' = [sess EXCEPT ![o] = IF @ = "joining" THEN "in" ELSE "gone"]
    /\ player' = [player EXCEPT ![CharOf[o]] = o]
    /\ UNCHANGED <<mem, db, wal>>

\* One setGold of a flush, whether of the 30 s checkpoint or of a disconnect: it is
\* unconditional, not journaled, and a checkpoint's may come after the object left.
FlushTab(o, t) ==
    /\ sess[o] \in {"in", "closing", "gone"}
    /\ db' = [db EXCEPT ![Vault(t)] = mem[o][Vault(t)]]
    /\ UNCHANGED <<sess, player, mem, wal>>

\* Nobody registered: nothing is flushed, and nobody leaves.
SocketClosed(o) ==
    /\ \/ sess[o] = "joining" /\ sess' = [sess EXCEPT ![o] = "dropped"]
       \/ /\ sess[o] = "in"
          /\ sess' = [sess EXCEPT ![o] = IF player[CharOf[o]] = NoOne THEN "gone" ELSE "closing"]
    /\ UNCHANGED <<player, mem, db, wal>>

\* After the flush, whether it succeeded or threw: whoever is registered is removed.
Leave(o) ==
    /\ sess[o] = "closing"
    /\ sess' = [sess EXCEPT ![o] = "gone"]
    /\ player' = [player EXCEPT ![CharOf[o]] = NoOne]
    /\ UNCHANGED <<mem, db, wal>>

\* The last flush of an object that is not registered is through.
Forget(o) ==
    /\ sess[o] = "gone" /\ player[CharOf[o]] # o
    /\ sess' = [sess EXCEPT ![o] = "out"]
    /\ mem' = [mem EXCEPT ![o] = NoCells]
    /\ UNCHANGED <<player, db, wal>>

Crash == Boot(wal)

------------------------------------------------------------------------------
\* Nobody is in the world and the journal has been replayed.
Init ==
    /\ sess = [o \in Objects |-> "out"]
    /\ player = [c \in Chars |-> NoOne]
    /\ mem = [o \in Objects |-> NoCells]
    /\ db \in [Cells -> Nat \cup Stack] /\ Holds(db, {})
    /\ wal = NoCells

Bank == \E o \in Objects : \E ch \in Moves(o) : Perform(o, ch)

Session ==
    \/ \E o \in Objects :
          \/ Join(o) \/ LoadBag(o) \/ LoadPurse(o) \/ LoadChest(o) \/ Enter(o)
          \/ SocketClosed(o) \/ Leave(o) \/ Forget(o)
    \/ \E o \in Objects, t \in Tabs : LoadGold(o, t) \/ FlushTab(o, t)
    \/ Crash

KilledMidway == \E o \in Objects : \E ch \in Moves(o) : DieHalfway(ch)

Next == Bank \/ Session \/ KilledMidway

Spec == Init /\ [][Next]_vars
==============================================================================
