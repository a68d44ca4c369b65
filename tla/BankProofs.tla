----------------------------- MODULE BankProofs -----------------------------
(* The two banks.  Of the account's, BankCopies: type correctness, that a    *)
(* copy nobody has overtaken is what the account owns, that a flush of such  *)
(* a copy is redundant, that nothing is made or lost, and that it implements *)
(* Account, however the sessions of the account overlap.  Of the guild's,    *)
(* Vault: that the tables follow memory, that the payroll is paid once, and  *)
(* that nothing is made or lost.                                             *)
EXTENDS BankCopies, Vault, InventoryProofs

\* The values of cell k.
Val(k) == {v \in Nat \cup Stack : /\ k \in GoldCells => v \in Nat
                                  /\ k \in ItemCells => v \in Stack}

Entered == {"in", "closing", "gone"}

\* An object that has entered has loaded its cells, there is none between sessions,
\* and the one registered for a character is that character's.
AllLoaded == \A o \in Objects : sess[o] \in Entered => \A k \in Own(o) : mem[o][k] # NoRow
NoneOut == \A o \in Objects : sess[o] = "out" => mem[o] = NoCells
OneEach == \A c \in Chars : player[c] # NoOne =>
              CharOf[player[c]] = c /\ sess[player[c]] \in Entered

Typed == TypeOK /\ AllLoaded /\ NoneOut /\ OneEach

\* Only the row of a tab is rolled back, and only of a cell that an operation has
\* changed since the start is a copy out of date.
Overtaken ==
    /\ rolled \subseteq Vaults
    /\ \A k \in Cells : wal[k] = NoRow =>
          k \notin rolled /\ \A o \in Objects : k \notin behind[o]

IInv == Typed /\ CopyTypeOK /\ Overtaken /\ Coherent

------------------------------------------------------------------------------
(* Cells and their values.                                                   *)

LEMMA CellsApart ==
    /\ \A c \in Chars, t \in Tabs : Purse(c) # Vault(t)
    /\ \A c \in Chars : \A k \in ItemCells : Purse(c) # k
    /\ \A t \in Tabs : \A k \in ItemCells : Vault(t) # k
    /\ \A c, d \in Chars : Purse(c) = Purse(d) => c = d
    /\ \A t, u \in Tabs : Vault(t) = Vault(u) => t = u
    /\ \A c \in Chars, s \in Slots, t \in Tabs, r \in ChestSlots :
          BagCell(c, s) # ChestCell(t, r)
  BY DEF Purse, Vault, BagCell, ChestCell, ItemCells, Chest

LEMMA KindsApart == GoldCells \cap ItemCells = {}
  BY CellsApart DEF GoldCells, Vaults
LEMMA OwnCells ==
    ASSUME NEW o \in Objects
    PROVE  /\ CharOf[o] \in Chars /\ Own(o) \subseteq Cells
           /\ PurseOf(o) = Purse(CharOf[o]) /\ PurseOf(o) \in Own(o) \cap GoldCells
           /\ \A t \in Tabs : Vault(t) \in Own(o) \cap GoldCells
           /\ \A s \in Slots : BagCell(CharOf[o], s) \in Own(o) \cap ItemCells
           /\ \A t \in Tabs, s \in ChestSlots : ChestCell(t, s) \in Own(o) \cap ItemCells
<1>1. CharOf[o] \in Chars
  BY BankAssumption DEF BankAssumption
<1>2. QED
  BY <1>1 DEF Own, PurseOf, BagOf, Chest, Cells, GoldCells, ItemCells, Vaults

LEMMA NoRowIsNoValue ==
    ASSUME NEW k \in Cells, NEW v \in Val(k)
    PROVE  v # NoRow
  BY BankAssumption DEF BankAssumption, Val, Stack

\* Persisting an item twice is persisting it once.
LEMMA PersistedStack ==
    ASSUME NEW v \in Stack
    PROVE  Persisted(v) \in Stack /\ Persisted(Persisted(v)) = Persisted(v)
<1>1. CASE v = Empty
  BY <1>1 DEF Persisted, Stored, Stack
<1>2. CASE v # Empty
  <2>1. v \in DurableItem /\ Stored(v) = v
    BY <1>2 DEF Stack, Stored, DurableItem
  <2>2. CASE v.opt \in Elemental
    <3> DEFINE w == [v EXCEPT !.opt = Plain]
    <3>1. Persisted(v) = w
      BY <1>2, <2>1, <2>2 DEF Persisted
    <3>2. w \in DurableItem /\ w.opt = Plain
      BY <2>1, BagAssumption DEF DurableItem, BagAssumption
    <3>3. Plain \notin Elemental
      BY BagAssumption DEF BagAssumption
    <3>4. w # Empty
      BY <3>2, EmptyAssumption
    <3>5. Stored(w) = w
      BY <3>2, <3>4 DEF Stored, DurableItem
    <3>6. Persisted(w) = w
      BY <3>2, <3>3, <3>4, <3>5 DEF Persisted
    <3>7. QED
      BY <3>1, <3>2, <3>6 DEF Stack
  <2>3. CASE v.opt \notin Elemental
    BY <1>2, <2>1, <2>3 DEF Persisted, Stack
  <2>4. QED
    BY <2>2, <2>3
<1>3. QED
  BY <1>1, <1>2

LEMMA DurableVal ==
    ASSUME NEW k \in Cells, NEW v \in Val(k)
    PROVE  /\ Durable(k, v) \in Val(k)
           /\ Durable(k, Durable(k, v)) = Durable(k, v)
           /\ k \in GoldCells => Durable(k, v) = v
<1>1. CASE k \in GoldCells
  BY <1>1, KindsApart DEF Durable, Val
<1>2. CASE k \in ItemCells
  BY <1>2, KindsApart, PersistedStack DEF Durable, Val
<1>3. QED
  BY <1>1, <1>2 DEF Cells

\* What TypeOK says of a cell.
LEMMA CellTypes ==
    ASSUME TypeOK, NEW k \in Cells
    PROVE  /\ db[k] \in Val(k)
           /\ wal[k] \in Val(k) \cup {NoRow}
           /\ Recovered(db, wal)[k] \in Val(k)
           /\ \A o \in Objects : mem[o][k] \in Val(k) \cup {NoRow}
<1>1. CASE k \in GoldCells
  BY <1>1, KindsApart DEF TypeOK, Holds, Val, Recovered, Cells
<1>2. CASE k \in ItemCells
  BY <1>2, KindsApart DEF TypeOK, Holds, Val, Recovered, Cells
<1>3. QED
  BY <1>1, <1>2 DEF Cells

\* Conversely, a function that gives every cell a value of its kind, or NoRow.
LEMMA HoldsIf ==
    ASSUME NEW f, f = [k \in Cells |-> f[k]]
    PROVE  /\ (\A k \in Cells : f[k] \in Val(k)) => Holds(f, {})
           /\ (\A k \in Cells : f[k] \in Val(k) \cup {NoRow}) => Holds(f, {NoRow})
  BY DEF Holds, Val, Cells

LEMMA OwnValues ==
    ASSUME Typed, NEW o \in Objects, sess[o] \in Entered, NEW k \in Own(o)
    PROVE  mem[o][k] \in Val(k)
  BY CellTypes, OwnCells DEF Typed, AllLoaded

\* Whoever plays has entered.
LEMMA PlayingIn ==
    ASSUME Typed, NEW o \in Objects, Playing(o)
    PROVE  sess[o] \in Entered
<1>1. CharOf[o] \in Chars /\ player[CharOf[o]] = o /\ o # NoOne
  BY BankAssumption DEF BankAssumption, Playing
<1>2. QED
  BY <1>1 DEF Typed, OneEach

------------------------------------------------------------------------------
(* The changes the operations make.                                          *)

\* A change of two cells of o, to values of their kinds.
ChangeOf(o, ch) ==
    /\ ch.k1 \in Own(o) /\ ch.k2 \in Own(o) /\ ch.k1 # ch.k2
    /\ ch.v1 \in Val(ch.k1) /\ ch.v2 \in Val(ch.k2)

\* A move of part of the stack of the second cell to the first, which is empty.
ItemMove(o, ch) ==
    /\ ch.k1 \in Own(o) \cap ItemCells /\ ch.k2 \in Own(o) \cap ItemCells /\ ch.k1 # ch.k2
    /\ ch.v1 \in Stack /\ ch.v2 \in Stack
    /\ mem[o][ch.k1] = Empty /\ mem[o][ch.k2] \in DurableItem
    /\ \A i : CountOf(ch.v1, i) + CountOf(ch.v2, i) = CountOf(mem[o][ch.k2], i)

\* Gold n from o's purse to tab t, and back.
PaidIn(o, ch, t, n) ==
    /\ ch.k1 = PurseOf(o) /\ ch.k2 = Vault(t)
    /\ n <= mem[o][PurseOf(o)] /\ mem[o][Vault(t)] + n <= MaxGold
    /\ ch.v1 = mem[o][PurseOf(o)] - n /\ ch.v2 = mem[o][Vault(t)] + n
PaidOut(o, ch, t, n) ==
    /\ ch.k1 = PurseOf(o) /\ ch.k2 = Vault(t)
    /\ n <= mem[o][Vault(t)]
    /\ ch.v1 = mem[o][PurseOf(o)] + n /\ ch.v2 = mem[o][Vault(t)] - n

LEMMA ChangeIs ==
    ASSUME NEW k1, NEW v1, NEW k2, NEW v2
    PROVE  /\ Change(k1, v1, k2, v2).k1 = k1 /\ Change(k1, v1, k2, v2).v1 = v1
           /\ Change(k1, v1, k2, v2).k2 = k2 /\ Change(k1, v1, k2, v2).v2 = v2
  BY DEF Change

\* Part of a stack, and what is left of it.
LEMMA SplitStack ==
    ASSUME NEW item \in DurableItem, NEW n \in Nat \ {0}
    PROVE  Cloned(item, n) \in Stack /\ Less(item, n) \in Stack
<1>1. Less(item, n) \in Stack
  BY DEF Less, Stack, DurableItem
<1>2. item # Empty
  BY EmptyAssumption
<1>3. Persisted(item) \in DurableItem
  <2>1. Stored(item) = item
    BY <1>2 DEF Stored, DurableItem
  <2>2. [item EXCEPT !.opt = Plain] \in DurableItem
    BY BagAssumption DEF BagAssumption, DurableItem
  <2>3. QED
    BY <2>1, <2>2 DEF Persisted
<1>4. Smaller(n, item.count) \in Nat \ {0}
  BY DEF Smaller, DurableItem
<1>5. QED
  BY <1>1, <1>3, <1>4 DEF Cloned, Stack, DurableItem

\* Persisting an item keeps its units.
LEMMA CountPersisted ==
    ASSUME NEW v \in Stack, NEW i
    PROVE  /\ CountOf(Persisted(v), i) = CountOf(v, i)
           /\ CountOf(v, i) \in Nat
<1>1. CASE v = Empty
  BY <1>1 DEF Persisted, Stored, CountOf
<1>2. CASE v # Empty
  <2>1. v \in DurableItem /\ Stored(v) = v
    BY <1>2 DEF Stack, Stored, DurableItem
  <2> DEFINE w == [v EXCEPT !.opt = Plain]
  <2>2. w \in DurableItem /\ w.itemId = v.itemId /\ w.count = v.count
    BY <2>1, BagAssumption DEF BagAssumption, DurableItem
  <2>3. w # Empty
    BY <2>2, EmptyAssumption
  <2>4. Persisted(v) = v \/ Persisted(v) = w
    BY <2>1 DEF Persisted
  <2> HIDE DEF w
  <2>5. v.count \in Nat
    BY <2>1 DEF DurableItem
  <2>6. QED
    BY <1>2, <2>2, <2>3, <2>4, <2>5 DEF CountOf
<1>3. QED
  BY <1>1, <1>2

\* What is cloned of a stack, and what is left of it, are the stack.
LEMMA SplitKeeps ==
    ASSUME NEW item \in DurableItem, NEW n \in Nat \ {0}, NEW i
    PROVE  CountOf(Cloned(item, n), i) + CountOf(Less(item, n), i) = CountOf(item, i)
<1> DEFINE m == Smaller(n, item.count)
           w == Persisted(item)
<1>1. item # Empty /\ item.count \in Nat \ {0} /\ m \in Nat \ {0}
  BY EmptyAssumption DEF DurableItem, Smaller
<1>2. w \in DurableItem /\ w.itemId = item.itemId
  <2>1. Stored(item) = item
    BY <1>1 DEF Stored, DurableItem
  <2>2. [item EXCEPT !.opt = Plain] \in DurableItem
    BY BagAssumption DEF BagAssumption, DurableItem
  <2>3. QED
    BY <2>1, <2>2 DEF Persisted, DurableItem
<1>3. Cloned(item, n) = [w EXCEPT !.count = m]
  BY DEF Cloned
<1> HIDE DEF w, m
<1>4. /\ Cloned(item, n) \in DurableItem /\ Cloned(item, n).itemId = item.itemId
      /\ Cloned(item, n).count = m
  BY <1>1, <1>2, <1>3 DEF DurableItem
<1>5. Cloned(item, n) # Empty
  BY <1>4, EmptyAssumption
<1>6. CASE item.count > n
  <2> DEFINE left == [item EXCEPT !.count = item.count - n]
  <2>1. left \in DurableItem /\ left.itemId = item.itemId /\ left.count = item.count - n
    BY <1>1, <1>6 DEF DurableItem
  <2>2. Less(item, n) = left /\ left # Empty
    BY <1>6, <2>1, EmptyAssumption DEF Less
  <2>3. m = n
    BY <1>1, <1>6 DEF m, Smaller
  <2> HIDE DEF left
  <2>4. QED
    BY <1>1, <1>4, <1>5, <2>1, <2>2, <2>3 DEF CountOf
<1>7. CASE ~ (item.count > n)
  <2>1. m = item.count
    BY <1>1, <1>7 DEF m, Smaller
  <2>2. Less(item, n) = Empty
    BY <1>7 DEF Less
  <2>3. QED
    BY <1>1, <1>4, <1>5, <2>1, <2>2 DEF CountOf
<1>8. QED
  BY <1>6, <1>7

LEMMA DepositMoves ==
    ASSUME Typed, NEW o \in Objects, NEW t \in Tabs, NEW s \in Slots, NEW n \in Nat \ {0},
           CanDeposit(o, t, s)
    PROVE  ItemMove(o, DepositChange(o, t, s, n))
<1> DEFINE item == mem[o][BagCell(CharOf[o], s)]
           r == Least(FreeChest(o, t))
           ch == DepositChange(o, t, s, n)
<1>1. item \in DurableItem
  <2>1. item \in Stack
    BY OwnCells, OwnValues, PlayingIn DEF CanDeposit, Val
  <2>2. QED
    BY <2>1 DEF CanDeposit, Stack
<1>2. r \in FreeChest(o, t)
  <2>1. FreeChest(o, t) \in SUBSET Nat
    BY BankAssumption DEF BankAssumption, FreeChest, ChestSlots
  <2>2. QED
    BY <2>1, LeastOf DEF CanDeposit
<1>3. r \in ChestSlots /\ mem[o][ChestCell(t, r)] = Empty
  BY <1>2 DEF FreeChest
<1>4. /\ ch.k1 = ChestCell(t, r) /\ ch.v1 = Cloned(item, n)
      /\ ch.k2 = BagCell(CharOf[o], s) /\ ch.v2 = Less(item, n)
  BY ChangeIs DEF DepositChange
<1> HIDE DEF r, ch
<1>5. Cloned(item, n) \in Stack /\ Less(item, n) \in Stack
  BY <1>1, SplitStack
<1>6. /\ ChestCell(t, r) \in Own(o) \cap ItemCells /\ BagCell(CharOf[o], s) \in Own(o) \cap ItemCells
      /\ ChestCell(t, r) # BagCell(CharOf[o], s)
  BY <1>3, OwnCells, CellsApart
<1>7. \A i : CountOf(Cloned(item, n), i) + CountOf(Less(item, n), i) = CountOf(item, i)
  BY <1>1, SplitKeeps
<1>8. QED
  BY <1>1, <1>3, <1>4, <1>5, <1>6, <1>7 DEF ItemMove, ch

LEMMA WithdrawMoves ==
    ASSUME Typed, NEW o \in Objects, NEW t \in Tabs, NEW s \in ChestSlots, NEW n \in Nat \ {0},
           CanWithdraw(o, t, s)
    PROVE  ItemMove(o, WithdrawChange(o, t, s, n))
<1> DEFINE item == mem[o][ChestCell(t, s)]
           r == Least(FreeBag(o))
           ch == WithdrawChange(o, t, s, n)
<1>1. item \in DurableItem
  <2>1. item \in Stack
    BY OwnCells, OwnValues, PlayingIn DEF CanWithdraw, Val
  <2>2. QED
    BY <2>1 DEF CanWithdraw, Stack
<1>2. r \in FreeBag(o)
  <2>1. FreeBag(o) \in SUBSET Nat
    BY SlotsAreNat DEF FreeBag
  <2>2. QED
    BY <2>1, LeastOf DEF CanWithdraw
<1>3. r \in Slots /\ mem[o][BagCell(CharOf[o], r)] = Empty
  BY <1>2 DEF FreeBag
<1>4. /\ ch.k1 = BagCell(CharOf[o], r) /\ ch.v1 = Cloned(item, n)
      /\ ch.k2 = ChestCell(t, s) /\ ch.v2 = Less(item, n)
  BY ChangeIs DEF WithdrawChange
<1> HIDE DEF r, ch
<1>5. Cloned(item, n) \in Stack /\ Less(item, n) \in Stack
  BY <1>1, SplitStack
<1>6. /\ BagCell(CharOf[o], r) \in Own(o) \cap ItemCells /\ ChestCell(t, s) \in Own(o) \cap ItemCells
      /\ BagCell(CharOf[o], r) # ChestCell(t, s)
  BY <1>3, OwnCells, CellsApart
<1>7. \A i : CountOf(Cloned(item, n), i) + CountOf(Less(item, n), i) = CountOf(item, i)
  BY <1>1, SplitKeeps
<1>8. QED
  BY <1>1, <1>3, <1>4, <1>5, <1>6, <1>7 DEF ItemMove, ch

LEMMA ItemMoveIs ==
    ASSUME Typed, NEW o \in Objects, NEW ch \in ItemMoves(o)
    PROVE  Playing(o) /\ ItemMove(o, ch)
<1>1. \A n \in 1 .. MaxStack : n \in Nat \ {0}
  BY BagAssumption DEF BagAssumption
<1>2. CASE \E x \in Tabs \X Slots \X (1 .. MaxStack) :
              CanDeposit(o, x[1], x[2]) /\ ch = DepositChange(o, x[1], x[2], x[3])
  BY <1>1, <1>2, DepositMoves DEF CanDeposit
<1>3. CASE \E x \in Tabs \X ChestSlots \X (1 .. MaxStack) :
              CanWithdraw(o, x[1], x[2]) /\ ch = WithdrawChange(o, x[1], x[2], x[3])
  BY <1>1, <1>3, WithdrawMoves DEF CanWithdraw
<1>4. QED
  BY <1>2, <1>3 DEF ItemMoves

\* What an object holds of gold.
LEMMA GoldHeld ==
    ASSUME Typed, NEW o \in Objects, Playing(o), NEW t \in Tabs
    PROVE  /\ mem[o][PurseOf(o)] \in Nat /\ mem[o][Vault(t)] \in Nat
           /\ PurseOf(o) \in Own(o) \cap GoldCells /\ Vault(t) \in Own(o) \cap GoldCells
           /\ PurseOf(o) # Vault(t)
<1>1. /\ PurseOf(o) \in Own(o) \cap GoldCells /\ Vault(t) \in Own(o) \cap GoldCells
      /\ PurseOf(o) # Vault(t)
  BY OwnCells, CellsApart
<1>2. QED
  BY <1>1, OwnValues, PlayingIn DEF Val

LEMMA GoldMoveIs ==
    ASSUME Typed, NEW o \in Objects, NEW ch \in GoldMoves(o)
    PROVE  /\ Playing(o) /\ ch.v1 \in Nat /\ ch.v2 \in Nat
           /\ \E t \in Tabs, n \in Amounts : PaidIn(o, ch, t, n) \/ PaidOut(o, ch, t, n)
<1>1. ASSUME NEW t \in Tabs, NEW n \in Amounts, CanDepositGold(o, t, n),
             ch = DepositGoldChange(o, t, n)
      PROVE  /\ Playing(o) /\ ch.v1 \in Nat /\ ch.v2 \in Nat /\ PaidIn(o, ch, t, n)
  <2>1. Playing(o) /\ n \in Nat /\ n <= mem[o][PurseOf(o)] /\ mem[o][Vault(t)] + n <= MaxGold
    BY <1>1, BankAssumption DEF CanDepositGold, BankAssumption
  <2>2. /\ ch.k1 = PurseOf(o) /\ ch.v1 = mem[o][PurseOf(o)] - n
        /\ ch.k2 = Vault(t) /\ ch.v2 = mem[o][Vault(t)] + n
    BY <1>1, ChangeIs DEF DepositGoldChange
  <2>3. QED
    BY <2>1, <2>2, GoldHeld DEF PaidIn
<1>2. ASSUME NEW t \in Tabs, NEW n \in Amounts, CanWithdrawGold(o, t, n),
             ch = WithdrawGoldChange(o, t, n)
      PROVE  /\ Playing(o) /\ ch.v1 \in Nat /\ ch.v2 \in Nat /\ PaidOut(o, ch, t, n)
  <2>1. Playing(o) /\ n \in Nat /\ n <= mem[o][Vault(t)]
    BY <1>2, BankAssumption DEF CanWithdrawGold, BankAssumption
  <2>2. /\ ch.k1 = PurseOf(o) /\ ch.v1 = mem[o][PurseOf(o)] + n
        /\ ch.k2 = Vault(t) /\ ch.v2 = mem[o][Vault(t)] - n
    BY <1>2, ChangeIs DEF WithdrawGoldChange
  <2>3. QED
    BY <2>1, <2>2, GoldHeld DEF PaidOut
<1>3. \/ \E t \in Tabs, n \in Amounts : CanDepositGold(o, t, n) /\ ch = DepositGoldChange(o, t, n)
      \/ \E t \in Tabs, n \in Amounts : CanWithdrawGold(o, t, n) /\ ch = WithdrawGoldChange(o, t, n)
  <2>1. \/ \E x \in Tabs \X Amounts :
              CanDepositGold(o, x[1], x[2]) /\ ch = DepositGoldChange(o, x[1], x[2])
        \/ \E x \in Tabs \X Amounts :
              CanWithdrawGold(o, x[1], x[2]) /\ ch = WithdrawGoldChange(o, x[1], x[2])
    BY DEF GoldMoves
  <2>2. QED
    BY <2>1
<1>4. QED
  BY <1>1, <1>2, <1>3

LEMMA MoveIs ==
    ASSUME Typed, NEW o \in Objects, NEW ch \in Moves(o)
    PROVE  Playing(o) /\ sess[o] \in Entered /\ ChangeOf(o, ch)
<1>1. CASE ch \in ItemMoves(o)
  BY <1>1, ItemMoveIs, PlayingIn, KindsApart DEF ItemMove, ChangeOf, Val
<1>2. CASE ch \in GoldMoves(o)
  <2>1. Playing(o) /\ ch.v1 \in Nat /\ ch.v2 \in Nat
    BY <1>2, GoldMoveIs
  <2>2. PICK t \in Tabs, n \in Amounts : PaidIn(o, ch, t, n) \/ PaidOut(o, ch, t, n)
    BY <1>2, GoldMoveIs
  <2>3. ch.k1 = PurseOf(o) /\ ch.k2 = Vault(t)
    BY <2>2 DEF PaidIn, PaidOut
  <2>4. QED
    BY <2>1, <2>3, GoldHeld, PlayingIn, KindsApart DEF ChangeOf, Val
<1>3. QED
  BY <1>1, <1>2 DEF Moves

------------------------------------------------------------------------------
(* What the steps do to the state: types.                                    *)

\* The cells after a change, in memory and in a store it is written to.
LEMMA AfterChange ==
    ASSUME NEW o \in Objects, NEW ch, ChangeOf(o, ch), NEW f, f = [k \in Cells |-> f[k]]
    PROVE  /\ Applied(f, ch) = [k \in Cells |-> Applied(f, ch)[k]]
           /\ Written(f, ch) = [k \in Cells |-> Written(f, ch)[k]]
           /\ Applied(f, ch)[ch.k1] = ch.v1 /\ Applied(f, ch)[ch.k2] = ch.v2
           /\ Written(f, ch)[ch.k1] = Durable(ch.k1, ch.v1)
           /\ Written(f, ch)[ch.k2] = Durable(ch.k2, ch.v2)
           /\ \A k \in Cells \ {ch.k1, ch.k2} :
                 Applied(f, ch)[k] = f[k] /\ Written(f, ch)[k] = f[k]
<1>1. ch.k1 \in Cells /\ ch.k2 \in Cells /\ ch.k1 # ch.k2
  BY OwnCells DEF ChangeOf
<1> HIDE DEF ChangeOf
<1> DEFINE v1 == Durable(ch.k1, ch.v1)
           v2 == Durable(ch.k2, ch.v2)
<1>2. Written(f, ch) = [f EXCEPT ![ch.k1] = v1, ![ch.k2] = v2]
  BY DEF Written
<1> HIDE DEF v1, v2
<1>3. Applied(f, ch) = [f EXCEPT ![ch.k1] = ch.v1, ![ch.k2] = ch.v2]
  BY DEF Applied
<1>4. QED
  BY <1>1, <1>2, <1>3 DEF v1, v2

\* The stores and o's copy after an operation.
LEMMA AfterMove ==
    ASSUME Typed, NEW o \in Objects, NEW ch, ChangeOf(o, ch), Perform(o, ch)
    PROVE  /\ ch.k1 \in Cells /\ ch.k2 \in Cells /\ ch.k1 # ch.k2
           /\ \A k \in Cells :
                /\ mem'[o][k] = IF k = ch.k1 THEN ch.v1 ELSE IF k = ch.k2 THEN ch.v2 ELSE mem[o][k]
                /\ db'[k] = IF k = ch.k1 THEN Durable(k, ch.v1)
                            ELSE IF k = ch.k2 THEN Durable(k, ch.v2) ELSE db[k]
                /\ wal'[k] = IF k = ch.k1 THEN Durable(k, ch.v1)
                             ELSE IF k = ch.k2 THEN Durable(k, ch.v2) ELSE wal[k]
           /\ \A p \in Objects \ {o} : mem'[p] = mem[p]
           /\ mem' = [p \in Objects |-> mem'[p]]
           /\ mem'[o] = [k \in Cells |-> mem'[o][k]]
           /\ db' = [k \in Cells |-> db'[k]] /\ wal' = [k \in Cells |-> wal'[k]]
<1>1. /\ mem[o] = [k \in Cells |-> mem[o][k]] /\ db = [k \in Cells |-> db[k]]
      /\ wal = [k \in Cells |-> wal[k]] /\ mem = [p \in Objects |-> mem[p]]
  BY DEF Typed, TypeOK, Holds
<1>2. /\ mem'[o] = Applied(mem[o], ch) /\ db' = Written(db, ch) /\ wal' = Written(wal, ch)
      /\ \A p \in Objects \ {o} : mem'[p] = mem[p]
      /\ mem' = [p \in Objects |-> mem'[p]]
  BY <1>1 DEF Perform
<1>3. ch.k1 \in Cells /\ ch.k2 \in Cells /\ ch.k1 # ch.k2
  BY OwnCells DEF ChangeOf
<1>4. \A k \in Cells :
         mem'[o][k] = IF k = ch.k1 THEN ch.v1 ELSE IF k = ch.k2 THEN ch.v2 ELSE mem[o][k]
  BY <1>1, <1>2, <1>3, AfterChange
<1>5. \A k \in Cells :
         db'[k] = IF k = ch.k1 THEN Durable(k, ch.v1)
                  ELSE IF k = ch.k2 THEN Durable(k, ch.v2) ELSE db[k]
  BY <1>1, <1>2, <1>3, AfterChange
<1>6. \A k \in Cells :
         wal'[k] = IF k = ch.k1 THEN Durable(k, ch.v1)
                   ELSE IF k = ch.k2 THEN Durable(k, ch.v2) ELSE wal[k]
  BY <1>1, <1>2, <1>3, AfterChange
<1>7. /\ mem'[o] = [k \in Cells |-> mem'[o][k]]
      /\ db' = [k \in Cells |-> db'[k]] /\ wal' = [k \in Cells |-> wal'[k]]
  BY <1>1, <1>2, AfterChange
<1>8. QED
  BY <1>2, <1>3, <1>4, <1>5, <1>6, <1>7

\* The values an operation puts in its cells are of their kinds.
LEMMA MovedValues ==
    ASSUME NEW o \in Objects, NEW ch, ChangeOf(o, ch)
    PROVE  /\ ch.v1 \in Val(ch.k1) /\ Durable(ch.k1, ch.v1) \in Val(ch.k1)
           /\ ch.v2 \in Val(ch.k2) /\ Durable(ch.k2, ch.v2) \in Val(ch.k2)
           /\ Durable(ch.k1, ch.v1) # NoRow /\ Durable(ch.k2, ch.v2) # NoRow
  BY OwnCells, DurableVal, NoRowIsNoValue DEF ChangeOf

\* Each operation, as a change of the state, keeps the types.
LEMMA PerformTyped ==
    ASSUME Typed, NEW o \in Objects, sess[o] \in Entered, NEW ch, ChangeOf(o, ch), Perform(o, ch)
    PROVE  Typed'
<1>0. /\ ch.k1 \in Cells /\ ch.k2 \in Cells
      /\ \A k \in Cells :
            /\ mem'[o][k] = IF k = ch.k1 THEN ch.v1 ELSE IF k = ch.k2 THEN ch.v2 ELSE mem[o][k]
            /\ db'[k] = IF k = ch.k1 THEN Durable(k, ch.v1)
                        ELSE IF k = ch.k2 THEN Durable(k, ch.v2) ELSE db[k]
            /\ wal'[k] = IF k = ch.k1 THEN Durable(k, ch.v1)
                         ELSE IF k = ch.k2 THEN Durable(k, ch.v2) ELSE wal[k]
      /\ \A p \in Objects \ {o} : mem'[p] = mem[p]
      /\ mem' = [p \in Objects |-> mem'[p]]
      /\ mem'[o] = [k \in Cells |-> mem'[o][k]]
      /\ db' = [k \in Cells |-> db'[k]] /\ wal' = [k \in Cells |-> wal'[k]]
  BY AfterMove
<1>1. ASSUME NEW k \in Cells
      PROVE  /\ db'[k] \in Val(k) /\ wal'[k] \in Val(k) \cup {NoRow}
             /\ mem'[o][k] \in Val(k) \cup {NoRow}
             /\ mem[o][k] # NoRow => mem'[o][k] # NoRow
  <2>1. db[k] \in Val(k) /\ wal[k] \in Val(k) \cup {NoRow} /\ mem[o][k] \in Val(k) \cup {NoRow}
    BY CellTypes DEF Typed
  <2>2. /\ ch.v1 \in Val(ch.k1) /\ Durable(ch.k1, ch.v1) \in Val(ch.k1)
        /\ ch.v2 \in Val(ch.k2) /\ Durable(ch.k2, ch.v2) \in Val(ch.k2)
    BY MovedValues
  <2>3. ch.v1 # NoRow /\ ch.v2 # NoRow
    BY <1>0, <2>2, NoRowIsNoValue
  <2>4. QED
    BY <1>0, <2>1, <2>2, <2>3
<1>2. Holds(db', {}) /\ Holds(wal', {NoRow}) /\ Holds(mem'[o], {NoRow})
  BY <1>0, <1>1, HoldsIf
<1>3. sess' = sess /\ player' = player
  BY DEF Perform
<1>4. TypeOK'
  <2>1. \A p \in Objects : Holds(mem'[p], {NoRow})
    BY <1>0, <1>2 DEF Typed, TypeOK
  <2>2. QED
    BY <1>0, <1>2, <1>3, <2>1 DEF Typed, TypeOK
<1>5. AllLoaded'
  <2>1. \A p \in Objects : \A k \in Own(p) : mem[p][k] # NoRow => mem'[p][k] # NoRow
    BY <1>0, <1>1, OwnCells
  <2>2. QED
    BY <1>3, <2>1 DEF Typed, AllLoaded, Own, PurseOf, BagOf
<1>6. NoneOut'
  <2>1. \A p \in Objects : sess'[p] = "out" => p # o /\ mem'[p] = mem[p] /\ sess[p] = "out"
    BY <1>0, <1>3 DEF Entered
  <2>2. QED
    BY <2>1 DEF Typed, NoneOut, NoCells
<1>7. OneEach'
  BY <1>3 DEF Typed, OneEach
<1>8. QED
  BY <1>4, <1>5, <1>6, <1>7 DEF Typed

LEMMA BootTyped ==
    ASSUME Typed, NEW w, Holds(w, {NoRow}), Boot(w)
    PROVE  Typed'
<1>1. \A k \in Cells : w[k] \in Val(k) \cup {NoRow}
  BY KindsApart DEF Holds, Val, Cells
<1>2. \A k \in Cells : Recovered(db, w)[k] \in Val(k)
  BY <1>1, CellTypes DEF Typed, Recovered
<1>3. Holds(db', {})
  BY <1>2, HoldsIf DEF Boot, Recovered
<1>4. Holds(NoCells, {NoRow})
  BY HoldsIf DEF NoCells
<1>5. TypeOK'
  BY <1>3, <1>4 DEF Boot, TypeOK
<1>6. AllLoaded' /\ NoneOut' /\ OneEach'
  BY DEF Boot, AllLoaded, NoneOut, OneEach, Entered, NoCells
<1>7. QED
  BY <1>5, <1>6 DEF Typed

\* The journal of a process killed after the first row.
LEMMA HalfwayHolds ==
    ASSUME Typed, NEW o \in Objects, NEW ch, ChangeOf(o, ch)
    PROVE  Holds([wal EXCEPT ![ch.k1] = Durable(ch.k1, ch.v1)], {NoRow})
<1> DEFINE v == Durable(ch.k1, ch.v1)
           w == [wal EXCEPT ![ch.k1] = v]
<1>1. ch.k1 \in Cells /\ v \in Val(ch.k1)
  BY OwnCells, DurableVal DEF ChangeOf
<1> HIDE DEF v
<1>2. wal = [k \in Cells |-> wal[k]]
  BY DEF Typed, TypeOK, Holds
<1>3. w = [k \in Cells |-> w[k]]
  BY <1>2
<1>4. \A k \in Cells : w[k] \in Val(k) \cup {NoRow}
  BY <1>1, <1>2, CellTypes DEF Typed
<1> HIDE DEF w
<1>5. Holds(w, {NoRow})
  BY <1>3, <1>4, HoldsIf
<1>6. QED
  BY <1>5 DEF w, v

\* A query adds to what the object has loaded.
LEMMA AfterQuery ==
    ASSUME Typed, NEW o \in Objects, NEW K, NEW B, Query(o, B, K)
    PROVE  /\ sess[o] \in {"joining", "dropped"}
           /\ \A k \in Cells : mem'[o][k] = IF k \in K THEN db[k] ELSE mem[o][k]
           /\ \A k \in K : mem[o][k] = NoRow
           /\ mem'[o] = [k \in Cells |-> mem'[o][k]]
           /\ \A p \in Objects \ {o} : mem'[p] = mem[p]
           /\ mem' = [p \in Objects |-> mem'[p]]
           /\ sess' = sess /\ player' = player /\ db' = db /\ wal' = wal
  BY DEF Query, Found, Typed, TypeOK

LEMMA QueryTyped ==
    ASSUME Typed, NEW o \in Objects, NEW K, NEW B, Query(o, B, K)
    PROVE  Typed'
<1>1. \A k \in Cells : mem'[o][k] \in Val(k) \cup {NoRow}
  BY AfterQuery, CellTypes DEF Typed
<1>2. Holds(mem'[o], {NoRow})
  BY <1>1, AfterQuery, HoldsIf
<1>3. TypeOK'
  BY <1>2, AfterQuery DEF Typed, TypeOK
<1>4. AllLoaded'
  <2>1. \A p \in Objects : sess'[p] \in Entered => p # o /\ mem'[p] = mem[p] /\ sess[p] \in Entered
    BY AfterQuery DEF Entered
  <2>2. QED
    BY <2>1 DEF Typed, AllLoaded, Own, PurseOf, BagOf
<1>5. NoneOut'
  BY AfterQuery DEF Typed, NoneOut, NoCells
<1>6. OneEach'
  BY AfterQuery DEF Typed, OneEach
<1>7. QED
  BY <1>3, <1>4, <1>5, <1>6 DEF Typed

Loads(o) == LoadBag(o) \/ LoadPurse(o) \/ LoadChest(o) \/ \E t \in Tabs : LoadGold(o, t)

LEMMA LoadIsQuery ==
    ASSUME NEW o \in Objects, Loads(o)
    PROVE  \E B, K : Query(o, B, K)
<1>1. CASE LoadBag(o)
  BY <1>1 DEF LoadBag
<1>2. CASE LoadPurse(o)
  BY <1>2 DEF LoadPurse
<1>3. CASE LoadChest(o)
  BY <1>3 DEF LoadChest
<1>4. CASE \E t \in Tabs : LoadGold(o, t)
  BY <1>4 DEF LoadGold
<1>5. QED
  BY <1>1, <1>2, <1>3, <1>4 DEF Loads

Comes(o) == Join(o) \/ Enter(o) \/ SocketClosed(o) \/ Leave(o)

LEMMA ComesTyped ==
    ASSUME Typed, NEW o \in Objects, Comes(o)
    PROVE  Typed'
<1>1. mem' = mem /\ db' = db /\ wal' = wal
  BY DEF Comes, Join, Enter, SocketClosed, Leave
<1>2. CharOf[o] \in Chars
  BY OwnCells
<1>3. \A p \in Objects \ {o} : sess'[p] = sess[p]
  BY DEF Comes, Join, Enter, SocketClosed, Leave, Typed, TypeOK
<1>4. CASE Join(o)
  <2>1. sess'[o] = "joining" /\ sess[o] = "out" /\ player' = player
    BY <1>4 DEF Join, Typed, TypeOK
  <2>2. TypeOK'
    BY <1>1, <1>4 DEF Join, Typed, TypeOK
  <2>3. AllLoaded' /\ NoneOut'
    BY <1>1, <1>3, <2>1 DEF Typed, AllLoaded, NoneOut, Entered, NoCells, Own, PurseOf, BagOf
  <2>4. OneEach'
    <3>1. \A c \in Chars : player[c] # NoOne => player[c] # o /\ player[c] \in Objects
      BY <2>1 DEF Typed, TypeOK, OneEach, Entered
    <3>2. QED
      BY <1>3, <2>1, <3>1 DEF Typed, OneEach
  <2>5. QED
    BY <2>2, <2>3, <2>4 DEF Typed
<1>5. CASE Enter(o)
  <2>1. sess'[o] \in {"in", "gone"} /\ player' = [player EXCEPT ![CharOf[o]] = o]
    BY <1>5 DEF Enter, Typed, TypeOK
  <2>2. TypeOK'
    BY <1>1, <1>2, <1>5 DEF Enter, Typed, TypeOK
  <2>3. AllLoaded'
    BY <1>1, <1>3, <1>5 DEF Enter, Typed, AllLoaded, Entered, Own, PurseOf, BagOf
  <2>4. NoneOut'
    BY <1>1, <1>3, <2>1 DEF Typed, NoneOut, NoCells
  <2>5. OneEach'
    <3>1. ASSUME NEW c \in Chars, player'[c] # NoOne
          PROVE  CharOf[player'[c]] = c /\ sess'[player'[c]] \in Entered
      <4>1. CASE c = CharOf[o]
        BY <1>2, <2>1, <4>1 DEF Entered, Typed, TypeOK
      <4>2. CASE c # CharOf[o]
        <5>1. player'[c] = player[c] /\ player[c] \in Objects
          BY <1>2, <2>1, <3>1, <4>2 DEF Typed, TypeOK
        <5>2. CharOf[player[c]] = c
          BY <3>1, <5>1 DEF Typed, OneEach
        <5>3. player[c] # o
          BY <4>2, <5>2
        <5>4. QED
          BY <1>3, <3>1, <5>1, <5>2, <5>3 DEF Typed, OneEach
      <4>3. QED
        BY <4>1, <4>2
    <3>2. QED
      BY <3>1 DEF OneEach
  <2>6. QED
    BY <2>2, <2>3, <2>4, <2>5 DEF Typed
<1>6. CASE SocketClosed(o)
  <2>1. /\ \/ sess'[o] = "dropped" /\ sess[o] = "joining"
           \/ sess'[o] \in Entered /\ sess[o] = "in"
        /\ player' = player
    <3>1. sess \in [Objects -> {"out", "joining", "dropped", "in", "closing", "gone"}]
      BY DEF Typed, TypeOK
    <3>2. QED
      BY <1>6, <3>1 DEF SocketClosed, Entered
  <2>2. TypeOK'
    BY <1>1, <1>6 DEF SocketClosed, Typed, TypeOK
  <2>3. AllLoaded' /\ NoneOut'
    BY <1>1, <1>3, <2>1 DEF Typed, AllLoaded, NoneOut, Entered, NoCells, Own, PurseOf, BagOf
  <2>4. OneEach'
    <3>1. \A p \in Objects : sess[p] \in Entered => sess'[p] \in Entered
      BY <1>3, <2>1 DEF Entered
    <3>2. QED
      BY <2>1, <3>1 DEF Typed, TypeOK, OneEach
  <2>5. QED
    BY <2>2, <2>3, <2>4 DEF Typed
<1>7. CASE Leave(o)
  <2>1. sess'[o] = "gone" /\ sess[o] = "closing" /\ player' = [player EXCEPT ![CharOf[o]] = NoOne]
    BY <1>7 DEF Leave, Typed, TypeOK
  <2>2. TypeOK'
    BY <1>1, <1>7 DEF Leave, Typed, TypeOK
  <2>3. AllLoaded' /\ NoneOut'
    BY <1>1, <1>3, <2>1 DEF Typed, AllLoaded, NoneOut, Entered, NoCells, Own, PurseOf, BagOf
  <2>4. OneEach'
    <3>1. \A p \in Objects : sess[p] \in Entered => sess'[p] \in Entered
      BY <1>3, <2>1 DEF Entered
    <3>2. \A c \in Chars : player'[c] # NoOne => player'[c] = player[c]
      BY <1>2, <2>1 DEF Typed, TypeOK
    <3>3. QED
      BY <3>1, <3>2 DEF Typed, TypeOK, OneEach
  <2>5. QED
    BY <2>2, <2>3, <2>4 DEF Typed
<1>8. QED
  BY <1>4, <1>5, <1>6, <1>7 DEF Comes

LEMMA ForgetTyped ==
    ASSUME Typed, NEW o \in Objects, Forget(o)
    PROVE  Typed'
<1>1. /\ \A p \in Objects \ {o} : sess'[p] = sess[p] /\ mem'[p] = mem[p]
      /\ sess'[o] = "out" /\ mem'[o] = NoCells /\ mem' = [p \in Objects |-> mem'[p]]
      /\ player' = player /\ player[CharOf[o]] # o /\ db' = db /\ wal' = wal
      /\ sess' = [sess EXCEPT ![o] = "out"]
  BY DEF Forget, Typed, TypeOK
<1>2. Holds(NoCells, {NoRow})
  BY HoldsIf DEF NoCells
<1>3. TypeOK'
  BY <1>1, <1>2 DEF Typed, TypeOK
<1>4. AllLoaded' /\ NoneOut'
  BY <1>1 DEF Typed, AllLoaded, NoneOut, Entered, NoCells, Own, PurseOf, BagOf
<1>5. OneEach'
  <2>1. \A c \in Chars : player[c] # NoOne => player[c] # o /\ player[c] \in Objects
    BY <1>1 DEF Typed, TypeOK, OneEach
  <2>2. QED
    BY <1>1, <2>1 DEF Typed, OneEach
<1>6. QED
  BY <1>3, <1>4, <1>5 DEF Typed

LEMMA FlushTyped ==
    ASSUME Typed, NEW o \in Objects, NEW t \in Tabs, FlushTab(o, t)
    PROVE  Typed'
<1>1. db = [k \in Cells |-> db[k]]
  BY DEF Typed, TypeOK, Holds
<1>2. mem[o][Vault(t)] \in Val(Vault(t)) /\ Vault(t) \in Cells
  BY OwnCells, OwnValues DEF FlushTab, Entered
<1>3. db' = [k \in Cells |-> db'[k]] /\ \A k \in Cells : db'[k] \in Val(k)
  BY <1>1, <1>2, CellTypes DEF FlushTab, Typed
<1>4. Holds(db', {})
  BY <1>3, HoldsIf
<1>5. QED
  BY <1>4 DEF FlushTab, Typed, TypeOK, AllLoaded, NoneOut, OneEach, Own, PurseOf, BagOf, NoCells

LEMMA SessionIs ==
    ASSUME Session
    PROVE  \/ \E o \in Objects : Comes(o) \/ Loads(o) \/ Forget(o)
           \/ \E o \in Objects, t \in Tabs : FlushTab(o, t)
           \/ Crash
  BY DEF Session, Comes, Loads

LEMMA TypedStep == Typed /\ [Next]_vars => Typed'
<1> SUFFICES ASSUME Typed, [Next]_vars PROVE Typed'
  OBVIOUS
<1>1. CASE Bank
  BY <1>1, MoveIs, PerformTyped DEF Bank
<1>2. CASE KilledMidway
  BY <1>2, MoveIs, HalfwayHolds, BootTyped DEF KilledMidway, DieHalfway
<1>3. CASE Session
  <2>1. CASE Crash
    BY <2>1, BootTyped DEF Crash, Typed, TypeOK
  <2>2. ASSUME NEW o \in Objects, Loads(o) PROVE Typed'
    BY <2>2, LoadIsQuery, QueryTyped
  <2>3. QED
    BY <1>3, <2>1, <2>2, SessionIs, ComesTyped, ForgetTyped, FlushTyped
<1>4. CASE UNCHANGED vars
  BY <1>4 DEF vars, Typed, TypeOK, AllLoaded, NoneOut, OneEach, Own, PurseOf, BagOf, NoCells
<1>5. QED
  BY <1>1, <1>2, <1>3, <1>4 DEF Next

LEMMA InitTyped == Init => Typed
<1>1. Holds(NoCells, {NoRow})
  BY HoldsIf DEF NoCells
<1>2. QED
  BY <1>1 DEF Init, Typed, TypeOK, AllLoaded, NoneOut, OneEach, Entered

\* Every cell of the database, the journal and a player object has a value of its
\* kind, and PlayerManager has at most one object of a character, which has loaded
\* all it carries, whoever joins, drops and is flushed meanwhile.
THEOREM TypeCorrect == Spec => []TypeOK
<1>1. Spec => []Typed
  BY InitTyped, TypedStep, PTL DEF Spec
<1>2. QED
  BY <1>1, PTL DEF Typed

------------------------------------------------------------------------------
(* A copy that no other object has overtaken is what the account owns.       *)

\* What CopyTypeOK, Overtaken and Coherent say of a cell.
CellSound(k) ==
    /\ k \in rolled => k \in Vaults
    /\ wal[k] = NoRow => k \notin rolled /\ \A o \in Objects : k \notin behind[o]
    /\ k \notin rolled => Durable(k, db[k]) = Durable(k, Owned[k])
    /\ \A o \in Objects : mem[o][k] # NoRow /\ k \notin behind[o] =>
          Durable(k, mem[o][k]) = Durable(k, Owned[k])

LEMMA SoundCells == Typed /\ CopyTypeOK => (IInv <=> \A k \in Cells : CellSound(k))
  BY DEF IInv, CopyTypeOK, Overtaken, Coherent, CellSound

LEMMA SoundCellsNext ==
    ASSUME Typed', CopyTypeOK', \A k \in Cells : CellSound(k)'
    PROVE  IInv'
  BY DEF IInv, CopyTypeOK, Overtaken, Coherent, CellSound, Durable

LEMMA OwnedIs ==
    ASSUME NEW k \in Cells
    PROVE  /\ Owned[k] = IF wal[k] = NoRow THEN db[k] ELSE wal[k]
           /\ Owned'[k] = IF wal'[k] = NoRow THEN db'[k] ELSE wal'[k]
  BY DEF Owned, Recovered

LEMMA OwnedValue ==
    ASSUME Typed, NEW k \in Cells
    PROVE  Owned[k] \in Val(k)
  BY CellTypes DEF Typed, Owned

\* An operation, and the copies it overtakes.
LEMMA PerformKeeps ==
    ASSUME IInv, NEW o \in Objects, sess[o] \in Entered, NEW ch, ChangeOf(o, ch), Perform(o, ch),
           Changed(o, CellsOf(ch))
    PROVE  IInv'
<1>1. Typed /\ CopyTypeOK
  BY DEF IInv
<1>2. /\ ch.k1 \in Cells /\ ch.k2 \in Cells
      /\ \A k \in Cells :
            /\ mem'[o][k] = IF k = ch.k1 THEN ch.v1 ELSE IF k = ch.k2 THEN ch.v2 ELSE mem[o][k]
            /\ db'[k] = IF k = ch.k1 THEN Durable(k, ch.v1)
                        ELSE IF k = ch.k2 THEN Durable(k, ch.v2) ELSE db[k]
            /\ wal'[k] = IF k = ch.k1 THEN Durable(k, ch.v1)
                         ELSE IF k = ch.k2 THEN Durable(k, ch.v2) ELSE wal[k]
      /\ \A p \in Objects \ {o} : mem'[p] = mem[p]
      /\ mem' = [p \in Objects |-> mem'[p]]
      /\ mem'[o] = [k \in Cells |-> mem'[o][k]]
      /\ db' = [k \in Cells |-> db'[k]] /\ wal' = [k \in Cells |-> wal'[k]]
  BY <1>1, AfterMove
<1>3. Typed'
  BY <1>1, PerformTyped
<1>4. /\ rolled' = rolled \ {ch.k1, ch.k2}
      /\ behind'[o] = behind[o] \ {ch.k1, ch.k2}
      /\ \A p \in Objects \ {o} :
            behind'[p] = behind[p] \cup {k \in {ch.k1, ch.k2} : mem[p][k] # NoRow}
      /\ behind' = [p \in Objects |-> behind'[p]]
  BY DEF Changed, CellsOf
<1>5. CopyTypeOK'
  BY <1>1, <1>2, <1>4 DEF CopyTypeOK
<1>6. ASSUME NEW k \in Cells
      PROVE  CellSound(k)'
  <2>1. CellSound(k)
    BY SoundCells DEF IInv
  <2>2. CASE k \in {ch.k1, ch.k2}
    <3> DEFINE v == IF k = ch.k1 THEN ch.v1 ELSE ch.v2
    <3>1. mem'[o][k] = v /\ db'[k] = Durable(k, v) /\ wal'[k] = Durable(k, v) /\ v \in Val(k)
      BY <1>1, <1>2, <2>2, MovedValues
    <3> HIDE DEF v
    <3>2. wal'[k] # NoRow /\ Durable(k, Durable(k, v)) = Durable(k, v)
      BY <3>1, DurableVal, NoRowIsNoValue
    <3>3. Owned'[k] = Durable(k, v)
      BY <3>1, <3>2, OwnedIs
    <3>4. \A p \in Objects : mem'[p][k] # NoRow /\ k \notin behind'[p] => p = o
      BY <1>2, <1>4, <2>2
    <3>5. QED
      BY <1>4, <2>2, <3>1, <3>2, <3>3, <3>4 DEF CellSound, Durable
  <2>3. CASE k \notin {ch.k1, ch.k2}
    <3>1. db'[k] = db[k] /\ wal'[k] = wal[k] /\ \A p \in Objects : mem'[p][k] = mem[p][k]
      BY <1>2, <2>3
    <3>2. Owned'[k] = Owned[k]
      BY <3>1, OwnedIs
    <3>3. (k \in rolled' <=> k \in rolled) /\ \A p \in Objects : k \in behind'[p] <=> k \in behind[p]
      BY <1>4, <2>3
    <3>4. QED
      BY <2>1, <3>1, <3>2, <3>3 DEF CellSound, Durable
  <2>4. QED
    BY <2>2, <2>3
<1>7. QED
  BY <1>3, <1>5, <1>6, SoundCellsNext

LEMMA BootKeeps ==
    ASSUME IInv, NEW w, Holds(w, {NoRow}), Boot(w),
           behind' = [o \in Objects |-> {}], rolled' = {}
    PROVE  IInv'
<1>1. Typed'
  BY BootTyped DEF IInv
<1>2. \A k \in Cells : wal'[k] = NoRow /\ \A o \in Objects : mem'[o][k] = NoRow
  BY DEF Boot, NoCells
<1>3. CopyTypeOK'
  BY DEF CopyTypeOK
<1>4. ASSUME NEW k \in Cells PROVE CellSound(k)'
  <2>1. Owned'[k] = db'[k]
    BY <1>2, OwnedIs
  <2>2. QED
    BY <1>2, <2>1 DEF CellSound
<1>5. QED
  BY <1>1, <1>3, <1>4, SoundCellsNext

LEMMA LoadKeeps ==
    ASSUME IInv, NEW o \in Objects, CopyLoad(o)
    PROVE  IInv'
<1>0. Typed /\ CopyTypeOK
  BY DEF IInv
<1>1. PICK B, K : Query(o, B, K)
  BY LoadIsQuery DEF CopyLoad, Loads
<1>2. Typed'
  BY <1>0, <1>1, QueryTyped
<1>3. /\ \A k \in Cells : mem'[o][k] = IF k \in K THEN db[k] ELSE mem[o][k]
      /\ \A k \in K : mem[o][k] = NoRow
      /\ \A p \in Objects \ {o} : mem'[p] = mem[p]
      /\ db' = db /\ wal' = wal
  BY <1>0, <1>1, AfterQuery
<1>4. /\ rolled' = rolled /\ behind'[o] = behind[o] \cup (ReadBy(o) \cap rolled)
      /\ \A p \in Objects \ {o} : behind'[p] = behind[p]
      /\ behind' = [p \in Objects |-> behind'[p]]
  BY <1>0 DEF CopyLoad, CopyTypeOK
<1>5. CopyTypeOK'
  BY <1>0, <1>4 DEF CopyTypeOK
<1>6. ASSUME NEW k \in Cells
      PROVE  CellSound(k)'
  <2>1. CellSound(k) /\ Owned'[k] = Owned[k]
    BY <1>3, SoundCells, OwnedIs DEF IInv
  <2>2. mem[o][k] = NoRow /\ mem'[o][k] # NoRow /\ k \notin behind'[o] =>
            k \notin rolled /\ mem'[o][k] = db[k]
    BY <1>3, <1>4 DEF ReadBy
  <2>3. mem[o][k] # NoRow => mem'[o][k] = mem[o][k]
    BY <1>3
  <2>4. \A p \in Objects : k \notin behind[p] \/ k \in rolled \/ k \in behind[p]
    OBVIOUS
  <2>5. \A p \in Objects : (k \notin behind[p] /\ k \notin rolled => k \notin behind'[p])
                           /\ (k \notin behind'[p] => k \notin behind[p])
    BY <1>4
  <2>6. ASSUME NEW p \in Objects, mem'[p][k] # NoRow, k \notin behind'[p]
        PROVE  Durable(k, mem'[p][k]) = Durable(k, Owned[k])
    <3>1. CASE p # o
      BY <1>3, <2>1, <2>5, <2>6, <3>1 DEF CellSound
    <3>2. CASE p = o /\ mem[o][k] # NoRow
      BY <2>1, <2>3, <2>5, <2>6, <3>2 DEF CellSound
    <3>3. CASE p = o /\ mem[o][k] = NoRow
      BY <2>1, <2>2, <2>6, <3>3 DEF CellSound
    <3>4. QED
      BY <3>1, <3>2, <3>3
  <2>7. QED
    BY <1>3, <1>4, <2>1, <2>5, <2>6 DEF CellSound, Durable
<1>7. QED
  BY <1>2, <1>5, <1>6, SoundCellsNext

\* A flush writes what the account owns, unless its copy has been overtaken; and a
\* tab whose gold is not journaled has not been.
LEMMA FlushWrites ==
    ASSUME IInv, NEW o \in Objects, NEW t \in Tabs, FlushTab(o, t)
    PROVE  /\ Owned' = Owned
           /\ Vault(t) \notin behind[o] => db'[Vault(t)] = Owned[Vault(t)]
           /\ Vault(t) \notin behind[o] \cup rolled => db' = db
<1>0. Typed /\ CellSound(Vault(t)) /\ db = [k \in Cells |-> db[k]]
  BY SoundCells, OwnCells DEF IInv, Typed, TypeOK, Holds
<1>1. Vault(t) \in Own(o) /\ Vault(t) \in Cells /\ Vault(t) \in GoldCells
  BY OwnCells
<1>2. mem[o][Vault(t)] # NoRow
  BY <1>0, <1>1 DEF Typed, AllLoaded, FlushTab, Entered
<1>3. /\ db'[Vault(t)] = mem[o][Vault(t)] /\ wal' = wal
      /\ \A k \in Cells \ {Vault(t)} : db'[k] = db[k]
      /\ db' = [k \in Cells |-> db'[k]]
  BY <1>0, <1>1 DEF FlushTab
<1>4. Vault(t) \notin behind[o] => mem[o][Vault(t)] = Owned[Vault(t)]
  BY <1>0, <1>1, <1>2 DEF CellSound, Durable
<1>5. Vault(t) \notin rolled => db[Vault(t)] = Owned[Vault(t)]
  BY <1>0, <1>1 DEF CellSound, Durable
<1>6. ASSUME NEW k \in Cells PROVE Owned'[k] = Owned[k]
  <2>1. CASE k = Vault(t) /\ wal[k] = NoRow
    <3>1. Vault(t) \notin behind[o]
      BY <1>0, <2>1 DEF CellSound
    <3>2. QED
      BY <1>3, <1>4, <2>1, <3>1, OwnedIs
  <2>2. CASE k # Vault(t) \/ wal[k] # NoRow
    BY <1>3, <2>2, OwnedIs
  <2>3. QED
    BY <2>1, <2>2
<1>7. Owned' = Owned
  BY <1>6 DEF Owned, Recovered
<1>8. Vault(t) \notin behind[o] \cup rolled => db' = db
  <2>1. Vault(t) \notin behind[o] \cup rolled => \A k \in Cells : db'[k] = db[k]
    BY <1>3, <1>4, <1>5
  <2>2. QED
    BY <1>0, <1>3, <2>1
<1>9. QED
  BY <1>3, <1>4, <1>7, <1>8

LEMMA FlushKeeps ==
    ASSUME IInv, NEW o \in Objects, NEW t \in Tabs, CopyFlush(o, t)
    PROVE  IInv'
<1>0. Typed /\ CopyTypeOK /\ FlushTab(o, t)
  BY DEF IInv, CopyFlush
<1>1. Typed'
  BY <1>0, FlushTyped
<1>2. /\ mem' = mem /\ wal' = wal /\ behind' = behind
      /\ rolled' = IF Vault(t) \in behind[o] THEN rolled \cup {Vault(t)} ELSE rolled \ {Vault(t)}
      /\ Vault(t) \in Vaults /\ Vault(t) \in Cells
  BY OwnCells DEF CopyFlush, FlushTab, Vaults
<1>3. CopyTypeOK'
  BY <1>0, <1>2 DEF CopyTypeOK
<1>4. \A k \in Cells : k # Vault(t) => db'[k] = db[k]
  BY <1>0 DEF FlushTab, Typed, TypeOK, Holds
<1>5. ASSUME NEW k \in Cells
      PROVE  CellSound(k)'
  <2>1. CellSound(k) /\ CellSound(Vault(t)) /\ Owned'[k] = Owned[k]
    BY <1>0, <1>2, SoundCells, FlushWrites DEF IInv
  <2>2. k \in rolled' => k \in Vaults
    BY <1>2, <2>1 DEF CellSound
  <2>3. wal[k] = NoRow => k \notin rolled'
    BY <1>2, <2>1 DEF CellSound
  <2>4. k \notin rolled' => Durable(k, db'[k]) = Durable(k, Owned[k])
    <3>1. CASE k = Vault(t)
      BY <1>0, <1>2, <3>1, FlushWrites
    <3>2. CASE k # Vault(t)
      BY <1>2, <1>4, <2>1, <3>2 DEF CellSound
    <3>3. QED
      BY <3>1, <3>2
  <2>5. QED
    BY <1>2, <2>1, <2>2, <2>3, <2>4 DEF CellSound, Durable
<1>6. QED
  BY <1>1, <1>3, <1>5, SoundCellsNext

LEMMA ForgetKeeps ==
    ASSUME IInv, NEW o \in Objects, CopyForget(o)
    PROVE  IInv'
<1>0. Typed /\ CopyTypeOK /\ Forget(o)
  BY DEF IInv, CopyForget
<1>1. Typed'
  BY <1>0, ForgetTyped
<1>2. /\ db' = db /\ wal' = wal /\ rolled' = rolled /\ Owned' = Owned
      /\ \A k \in Cells : mem'[o][k] = NoRow
      /\ \A p \in Objects \ {o} : mem'[p] = mem[p] /\ behind'[p] = behind[p]
      /\ behind'[o] = {} /\ behind' = [p \in Objects |-> behind'[p]]
  <2>1. db' = db /\ wal' = wal /\ rolled' = rolled
    BY DEF CopyForget, Forget
  <2>2. Owned' = Owned
    BY <2>1 DEF Owned, Recovered
  <2>3. mem'[o] = NoCells /\ \A p \in Objects \ {o} : mem'[p] = mem[p]
    BY <1>0 DEF Forget, Typed, TypeOK
  <2>4. /\ behind'[o] = {} /\ behind' = [p \in Objects |-> behind'[p]]
        /\ \A p \in Objects \ {o} : behind'[p] = behind[p]
    BY <1>0 DEF CopyForget, CopyTypeOK
  <2>5. QED
    BY <2>1, <2>2, <2>3, <2>4 DEF NoCells
<1>3. CopyTypeOK'
  BY <1>0, <1>2 DEF CopyTypeOK
<1>4. ASSUME NEW k \in Cells
      PROVE  CellSound(k)'
  <2>1. CellSound(k)
    BY SoundCells DEF IInv
  <2>2. QED
    BY <1>2, <2>1 DEF CellSound, Durable
<1>5. QED
  BY <1>1, <1>3, <1>4, SoundCellsNext

LEMMA SameKeeps ==
    ASSUME IInv, Typed', UNCHANGED <<mem, db, wal, behind, rolled>>
    PROVE  IInv'
<1>1. Owned' = Owned
  BY DEF Owned, Recovered
<1>2. CopyTypeOK'
  BY DEF IInv, CopyTypeOK
<1>3. ASSUME NEW k \in Cells
      PROVE  CellSound(k)'
  <2>1. CellSound(k)
    BY SoundCells DEF IInv
  <2>2. QED
    BY <1>1, <2>1 DEF CellSound, Durable
<1>4. QED
  BY <1>2, <1>3, SoundCellsNext

LEMMA CopyIsBank == CopyNext => Next
  BY DEF CopyNext, CopyBank, CopySession, CopyBoot, CopyLoad, CopyForget, CopyEnter, CopyFlush,
         Next, Bank, Session

LEMMA InvStep == IInv /\ [CopyNext]_copyVars => IInv'
<1> SUFFICES ASSUME IInv, [CopyNext]_copyVars PROVE IInv'
  OBVIOUS
<1>1. Typed
  BY DEF IInv
<1>2. CASE CopyBank
  BY <1>1, <1>2, MoveIs, PerformKeeps DEF CopyBank
<1>3. CASE CopyBoot
  <2>1. CASE Crash
    BY <1>1, <1>3, <2>1, BootKeeps DEF CopyBoot, Crash, Typed, TypeOK
  <2>2. CASE KilledMidway
    BY <1>1, <1>3, <2>2, MoveIs, HalfwayHolds, BootKeeps DEF CopyBoot, KilledMidway, DieHalfway
  <2>3. QED
    BY <1>3, <2>1, <2>2 DEF CopyBoot
<1>4. CASE CopySession
  <2>1. ASSUME NEW o \in Objects, CopyEnter(o) PROVE IInv'
    <3>1. UNCHANGED <<mem, db, wal, behind, rolled>>
      BY <2>1 DEF CopyEnter, Join, Enter, SocketClosed, Leave
    <3>2. Typed'
      BY <1>1, <2>1, ComesTyped DEF CopyEnter, Comes
    <3>3. QED
      BY <3>1, <3>2, SameKeeps
  <2>2. QED
    BY <1>4, <2>1, LoadKeeps, ForgetKeeps, FlushKeeps DEF CopySession
<1>5. CASE UNCHANGED copyVars
  <2>1. UNCHANGED <<mem, db, wal, behind, rolled>> /\ UNCHANGED vars
    BY <1>5 DEF copyVars, vars
  <2>2. Typed'
    BY <1>1, <2>1, TypedStep
  <2>3. QED
    BY <2>1, <2>2, SameKeeps
<1>6. QED
  BY <1>2, <1>3, <1>4, <1>5 DEF CopyNext

LEMMA InvAlways == CopySpec => []IInv
<1>1. CopyInit => IInv
  <2> SUFFICES ASSUME CopyInit PROVE IInv
    OBVIOUS
  <2>1. Typed
    BY InitTyped DEF CopyInit
  <2>2. CopyTypeOK /\ rolled = {} /\ \A o \in Objects : behind[o] = {}
    BY DEF CopyInit, CopyTypeOK
  <2>3. ASSUME NEW k \in Cells PROVE CellSound(k)
    <3>1. Owned[k] = db[k]
      BY OwnedIs DEF CopyInit, Init, NoCells
    <3>2. QED
      BY <2>2, <3>1 DEF CellSound, CopyInit, Init, NoCells
  <2>4. QED
    BY <2>1, <2>2, <2>3, SoundCells
<1>2. QED
  BY <1>1, InvStep, PTL DEF CopySpec

\* A copy of purse, bag or bank is what the account owns unless another object of the
\* account has changed the cell since it was read, and so is the database unless a
\* flush with an overtaken copy has rolled it back: however many sessions of the
\* account join, overlap, drop and are flushed.
THEOREM CopiesAreCoherent == CopySpec => []Coherent
<1>1. IInv => Coherent
  BY DEF IInv
<1>2. QED
  BY <1>1, InvAlways, PTL

\* A flush changes a tab only with an overtaken copy, or to undo such a flush, and
\* never what the account owns.
THEOREM FlushesAreRedundant == CopySpec => FlushIsRedundant
<1>1. IInv => \A o \in Objects, t \in Tabs :
          FlushTab(o, t) => /\ Vault(t) \notin behind[o] \cup rolled => db' = db
                            /\ Owned' = Owned
  BY FlushWrites
<1>2. QED
  BY <1>1, InvAlways, PTL DEF FlushIsRedundant, CopySpec

------------------------------------------------------------------------------
(* Nothing is made or lost.                                                  *)

LEMMA CellsFinite == IsFiniteSet(ItemCells) /\ IsFiniteSet(GoldCells)
<1>1. IsFiniteSet(Slots) /\ IsFiniteSet(ChestSlots)
  BY FS_Interval, BagAssumption, BankAssumption
     DEF Slots, ChestSlots, BagAssumption, BankAssumption
<1>2. IsFiniteSet(Chars \X Slots) /\ IsFiniteSet(Tabs \X ChestSlots)
  BY <1>1, FS_Product, BankAssumption DEF BankAssumption
<1> DEFINE bags == {BagCell(x[1], x[2]) : x \in Chars \X Slots}
           chests == {ChestCell(x[1], x[2]) : x \in Tabs \X ChestSlots}
           purses == {Purse(c) : c \in Chars}
<1>3. IsFiniteSet(bags) /\ IsFiniteSet(chests)
  <2> DEFINE inBag == [x \in Chars \X Slots |-> BagCell(x[1], x[2])]
             inChest == [x \in Tabs \X ChestSlots |-> ChestCell(x[1], x[2])]
  <2>1. IsFiniteSet(bags)
    <3>1. bags = {inBag[x] : x \in Chars \X Slots}
      OBVIOUS
    <3> HIDE DEF inBag, bags
    <3>2. QED
      BY <1>2, <3>1, ImageFinite
  <2>2. IsFiniteSet(chests)
    <3>1. chests = {inChest[x] : x \in Tabs \X ChestSlots}
      OBVIOUS
    <3> HIDE DEF inChest, chests
    <3>2. QED
      BY <1>2, <3>1, ImageFinite
  <2>3. QED
    BY <2>1, <2>2
<1>4. IsFiniteSet(purses) /\ IsFiniteSet(Vaults)
  <2> DEFINE purse == [c \in Chars |-> Purse(c)]
             vault == [t \in Tabs |-> Vault(t)]
  <2>1. purses = {purse[c] : c \in Chars} /\ Vaults = {vault[t] : t \in Tabs}
    BY DEF Vaults
  <2> HIDE DEF purse, vault, purses
  <2>2. IsFiniteSet(Chars) /\ IsFiniteSet(Tabs)
    BY BankAssumption DEF BankAssumption
  <2>3. IsFiniteSet({purse[c] : c \in Chars})
    BY <2>2, ImageFinite
  <2>4. IsFiniteSet({vault[t] : t \in Tabs})
    BY <2>2, ImageFinite
  <2>5. QED
    BY <2>1, <2>3, <2>4
<1>5. ItemCells \in SUBSET (bags \cup chests)
  <2>1. ASSUME NEW c \in Chars, NEW s \in Slots
        PROVE  BagCell(c, s) \in bags
    <3>1. <<c, s>> \in Chars \X Slots /\ <<c, s>>[1] = c /\ <<c, s>>[2] = s
      OBVIOUS
    <3>2. QED
      BY <3>1
  <2>2. ASSUME NEW t \in Tabs, NEW s \in ChestSlots
        PROVE  ChestCell(t, s) \in chests
    <3>1. <<t, s>> \in Tabs \X ChestSlots /\ <<t, s>>[1] = t /\ <<t, s>>[2] = s
      OBVIOUS
    <3>2. QED
      BY <3>1
  <2> HIDE DEF bags, chests
  <2>3. QED
    BY <2>1, <2>2 DEF ItemCells, Chest
<1>6. GoldCells = purses \cup Vaults
  BY DEF GoldCells
<1> HIDE DEF bags, chests, purses
<1>7. IsFiniteSet(bags \cup chests)
  BY <1>3, FS_Union
<1>8. IsFiniteSet(purses \cup Vaults)
  BY <1>4, FS_Union
<1>9. QED
  BY <1>5, <1>6, <1>7, <1>8, FS_Subset

\* An operation gives the cells of its change their durable values, and one cut
\* short the first of them.
LEMMA CellAfter ==
    ASSUME Typed, NEW o \in Objects, NEW ch, ChangeOf(o, ch), NEW k \in Cells
    PROVE  /\ Perform(o, ch) =>
                Owned'[k] = IF k = ch.k1 THEN Durable(k, ch.v1)
                            ELSE IF k = ch.k2 THEN Durable(k, ch.v2) ELSE Owned[k]
           /\ DieHalfway(ch) =>
                Owned'[k] = IF k = ch.k1 THEN Durable(k, ch.v1) ELSE Owned[k]
<1>1. /\ ch.k1 \in Cells /\ ch.k2 \in Cells /\ ch.k1 # ch.k2
      /\ Durable(ch.k1, ch.v1) # NoRow /\ Durable(ch.k2, ch.v2) # NoRow
  BY OwnCells, MovedValues DEF ChangeOf
<1>2. /\ db = [j \in Cells |-> db[j]] /\ wal = [j \in Cells |-> wal[j]]
  BY DEF Typed, TypeOK, Holds
<1>3. ASSUME Perform(o, ch)
      PROVE  Owned'[k] = IF k = ch.k1 THEN Durable(k, ch.v1)
                         ELSE IF k = ch.k2 THEN Durable(k, ch.v2) ELSE Owned[k]
  <2>1. db' = Written(db, ch) /\ wal' = Written(wal, ch)
    BY <1>3 DEF Perform
  <2>2. /\ db'[ch.k1] = Durable(ch.k1, ch.v1) /\ db'[ch.k2] = Durable(ch.k2, ch.v2)
        /\ \A j \in Cells \ {ch.k1, ch.k2} : db'[j] = db[j]
    BY <1>2, <2>1, AfterChange
  <2>3. /\ wal'[ch.k1] = Durable(ch.k1, ch.v1) /\ wal'[ch.k2] = Durable(ch.k2, ch.v2)
        /\ \A j \in Cells \ {ch.k1, ch.k2} : wal'[j] = wal[j]
    BY <1>2, <2>1, AfterChange
  <2>4. QED
    BY <1>1, <2>2, <2>3, OwnedIs
<1>4. ASSUME DieHalfway(ch)
      PROVE  Owned'[k] = IF k = ch.k1 THEN Durable(k, ch.v1) ELSE Owned[k]
  <2> DEFINE v == Durable(ch.k1, ch.v1)
             w == [wal EXCEPT ![ch.k1] = v]
  <2>1. db' = Recovered(db, w) /\ wal' = NoCells
    BY <1>4 DEF DieHalfway, Boot
  <2> HIDE DEF v
  <2>2. w[k] = IF k = ch.k1 THEN v ELSE wal[k]
    BY <1>1, <1>2
  <2> HIDE DEF w
  <2>3. wal'[k] = NoRow /\ db'[k] = IF w[k] = NoRow THEN db[k] ELSE w[k]
    BY <2>1 DEF Recovered, NoCells
  <2>4. v # NoRow
    BY <1>1 DEF v
  <2>5. Owned'[k] = IF k = ch.k1 THEN v ELSE Owned[k]
    BY <2>2, <2>3, <2>4, OwnedIs
  <2>6. QED
    BY <2>5 DEF v
<1>5. QED
  BY <1>3, <1>4

\* What o holds in a cell nobody else has changed since it read it.
LEMMA HeldIsOwned ==
    ASSUME IInv, NEW o \in Objects, sess[o] \in Entered, NEW k \in Own(o), k \notin behind[o]
    PROVE  /\ k \in GoldCells => mem[o][k] = Owned[k]
           /\ k \in ItemCells => \A i : CountOf(Owned[k], i) = CountOf(mem[o][k], i)
<1>1. Typed /\ k \in Cells /\ mem[o][k] # NoRow
  BY OwnCells DEF IInv, Typed, AllLoaded
<1>2. Durable(k, mem[o][k]) = Durable(k, Owned[k])
  BY <1>1 DEF IInv, Coherent
<1>3. mem[o][k] \in Val(k) /\ Owned[k] \in Val(k)
  BY <1>1, OwnValues, OwnedValue
<1>4. k \in GoldCells => mem[o][k] = Owned[k]
  BY <1>2 DEF Durable
<1>5. ASSUME k \in ItemCells
      PROVE  \A i : CountOf(Owned[k], i) = CountOf(mem[o][k], i)
  <2>1. Persisted(mem[o][k]) = Persisted(Owned[k])
    BY <1>2, <1>5, KindsApart DEF Durable
  <2>2. mem[o][k] \in Stack /\ Owned[k] \in Stack
    BY <1>3, <1>5 DEF Val
  <2>3. QED
    BY <2>1, <2>2, CountPersisted
<1>6. QED
  BY <1>4, <1>5

\* The units of all cells but two are the same, or but one.
LEMMA UnitsOf ==
    ASSUME NEW r, NEW q, NEW i, \A k \in ItemCells : CountOf(r[k], i) \in Int /\ CountOf(q[k], i) \in Int,
           NEW x \in ItemCells, NEW z \in ItemCells, x # z,
           \A k \in ItemCells \ {x, z} : CountOf(q[k], i) = CountOf(r[k], i)
    PROVE  /\ CountOf(r[x], i) + CountOf(r[z], i) = CountOf(q[x], i) + CountOf(q[z], i)
                => Units(q, i) = Units(r, i)
           /\ CountOf(q[z], i) = CountOf(r[z], i) /\ CountOf(r[x], i) = 0
                => Units(q, i) = Units(r, i) + CountOf(q[x], i)
           /\ Units(r, i) \in Int
<1> DEFINE f == [k \in ItemCells |-> CountOf(r[k], i)]
           h == [k \in ItemCells |-> CountOf(q[k], i)]
<1>1. /\ \A k \in ItemCells : f[k] = CountOf(r[k], i) /\ h[k] = CountOf(q[k], i)
      /\ DOMAIN f = ItemCells /\ DOMAIN h = ItemCells
  OBVIOUS
<1>2. Units(r, i) = SumFunctionOnSet(f, DOMAIN f) /\ Units(q, i) = SumFunctionOnSet(h, DOMAIN h)
  BY DEF Units, SumFunction
<1> HIDE DEF f, h
<1>3. /\ \A k \in ItemCells : f[k] \in Int /\ h[k] \in Int
      /\ \A k \in ItemCells \ {x, z} : f[k] = h[k]
  BY <1>1
<1>4. ASSUME CountOf(r[x], i) + CountOf(r[z], i) = CountOf(q[x], i) + CountOf(q[z], i)
      PROVE  Units(q, i) = Units(r, i)
  <2>1. f[x] + f[z] = h[x] + h[z]
    BY <1>1, <1>4
  <2>2. SumFunctionOnSet(h, ItemCells) = SumFunctionOnSet(f, ItemCells)
    BY <1>3, <2>1, CellsFinite, SumMoved
  <2>3. QED
    BY <1>1, <1>2, <2>2
<1>5. SumFunctionOnSet(f, ItemCells) \in Int /\ SumFunctionOnSet(h, ItemCells) \in Int
  <2>1. (\A k \in ItemCells : f[k] \in Int) /\ (\A k \in ItemCells : h[k] \in Int)
    BY <1>3
  <2>2. QED
    BY <2>1, CellsFinite, SumUnfolds
<1>6. ASSUME CountOf(q[z], i) = CountOf(r[z], i), CountOf(r[x], i) = 0
      PROVE  Units(q, i) = Units(r, i) + CountOf(q[x], i)
  <2>1. \A k \in ItemCells \ {x} : f[k] = h[k]
    BY <1>1, <1>3, <1>6
  <2>2. SumFunctionOnSet(h, ItemCells) - SumFunctionOnSet(f, ItemCells) = h[x] - f[x]
    BY <1>3, <2>1, CellsFinite, SumChanged
  <2>3. h[x] \in Int /\ f[x] = 0 /\ h[x] = CountOf(q[x], i)
    BY <1>1, <1>3, <1>6
  <2>4. QED
    BY <1>1, <1>2, <1>5, <2>2, <2>3
<1>7. QED
  BY <1>1, <1>2, <1>4, <1>5, <1>6

\* The gold of all cells but two is the same, or but one.
LEMMA GoldOf ==
    ASSUME NEW r, NEW q, \A k \in GoldCells : r[k] \in Int /\ q[k] \in Int,
           NEW x \in GoldCells, NEW z \in GoldCells, x # z,
           \A k \in GoldCells \ {x, z} : q[k] = r[k]
    PROVE  /\ r[x] + r[z] = q[x] + q[z] => Gold(q) = Gold(r)
           /\ q[z] = r[z] => Gold(q) = Gold(r) + q[x] - r[x]
<1>1. ASSUME r[x] + r[z] = q[x] + q[z] PROVE Gold(q) = Gold(r)
  BY <1>1, CellsFinite, SumMoved DEF Gold
<1>2. ASSUME q[z] = r[z] PROVE Gold(q) = Gold(r) + q[x] - r[x]
  <2>1. \A k \in GoldCells \ {x} : r[k] = q[k]
    BY <1>2
  <2>2. Gold(q) - Gold(r) = q[x] - r[x]
    BY <2>1, CellsFinite, SumChanged DEF Gold
  <2>3. Gold(q) \in Int /\ Gold(r) \in Int
    <3>1. (\A k \in GoldCells : r[k] \in Int) /\ (\A k \in GoldCells : q[k] \in Int)
      OBVIOUS
    <3>2. QED
      BY <3>1, CellsFinite, SumUnfolds DEF Gold
  <2>4. QED
    BY <2>2, <2>3
<1>3. QED
  BY <1>1, <1>2

\* An operation on cells nobody else has changed since o read them.
LEMMA ItemsMove ==
    ASSUME IInv, NEW o \in Objects, NEW ch \in ItemMoves(o), CellsOf(ch) \cap behind[o] = {}
    PROVE  /\ Perform(o, ch) => Kept
           /\ DieHalfway(ch) =>
                /\ Gold(Owned') = Gold(Owned)
                /\ \A i \in ItemIds : Units(Owned', i) = Units(Owned, i) + CountOf(ch.v1, i)
<1>1. /\ Typed /\ sess[o] \in Entered /\ ChangeOf(o, ch) /\ ItemMove(o, ch)
      /\ ch.k1 \notin behind[o] /\ ch.k2 \notin behind[o]
  BY ItemMoveIs, MoveIs DEF IInv, Moves, CellsOf
<1>2. /\ ch.k1 \in ItemCells /\ ch.k2 \in ItemCells /\ ch.k1 # ch.k2
      /\ ch.k1 \in Own(o) /\ ch.k2 \in Own(o) /\ ch.v1 \in Stack /\ ch.v2 \in Stack
      /\ \A k \in ItemCells : k \in Cells /\ k \notin GoldCells
      /\ \A k \in GoldCells : k \in Cells /\ k # ch.k1 /\ k # ch.k2
  BY <1>1, KindsApart DEF ItemMove, Cells
<1>3. ASSUME Perform(o, ch) \/ DieHalfway(ch)
      PROVE  Gold(Owned') = Gold(Owned)
  <2>1. \A k \in GoldCells : Owned'[k] = Owned[k]
    BY <1>1, <1>2, <1>3, CellAfter
  <2>2. QED
    BY <2>1, CellsFinite, SumSame DEF Gold
<1>4. ASSUME NEW i \in ItemIds, Perform(o, ch) \/ DieHalfway(ch)
      PROVE  /\ Perform(o, ch) => Units(Owned', i) = Units(Owned, i)
             /\ DieHalfway(ch) => Units(Owned', i) = Units(Owned, i) + CountOf(ch.v1, i)
  <2>1. /\ \A k \in ItemCells : CountOf(Owned[k], i) \in Nat
        /\ CountOf(ch.v1, i) \in Nat /\ CountOf(ch.v2, i) \in Nat
        /\ CountOf(Durable(ch.k1, ch.v1), i) = CountOf(ch.v1, i)
        /\ CountOf(Durable(ch.k2, ch.v2), i) = CountOf(ch.v2, i)
    <3>1. \A k \in ItemCells : Owned[k] \in Stack
      BY <1>1, <1>2, OwnedValue DEF Val
    <3>2. QED
      BY <1>2, <3>1, CountPersisted DEF Durable
  <2>2. /\ CountOf(Owned[ch.k1], i) = 0
        /\ CountOf(Owned[ch.k2], i) = CountOf(ch.v1, i) + CountOf(ch.v2, i)
    <3>1. /\ CountOf(Owned[ch.k1], i) = CountOf(mem[o][ch.k1], i)
          /\ CountOf(Owned[ch.k2], i) = CountOf(mem[o][ch.k2], i)
      BY <1>1, <1>2, HeldIsOwned
    <3>2. CountOf(mem[o][ch.k1], i) = 0
      BY <1>1 DEF ItemMove, CountOf
    <3>3. CountOf(ch.v1, i) + CountOf(ch.v2, i) = CountOf(mem[o][ch.k2], i)
      BY <1>1 DEF ItemMove
    <3>4. QED
      BY <3>1, <3>2, <3>3
  <2>3. /\ \A k \in ItemCells \ {ch.k1, ch.k2} : Owned'[k] = Owned[k]
        /\ Owned'[ch.k1] = Durable(ch.k1, ch.v1)
        /\ Perform(o, ch) => Owned'[ch.k2] = Durable(ch.k2, ch.v2)
        /\ DieHalfway(ch) => Owned'[ch.k2] = Owned[ch.k2]
    BY <1>1, <1>2, <1>4, CellAfter
  <2>4. /\ CountOf(Owned'[ch.k1], i) = CountOf(ch.v1, i)
        /\ Perform(o, ch) => CountOf(Owned'[ch.k2], i) = CountOf(ch.v2, i)
        /\ \A k \in ItemCells \ {ch.k1, ch.k2} : CountOf(Owned'[k], i) = CountOf(Owned[k], i)
    BY <2>1, <2>3
  <2>5. \A k \in ItemCells : CountOf(Owned[k], i) \in Int /\ CountOf(Owned'[k], i) \in Int
    <3>1. CountOf(Owned'[ch.k2], i) \in Int
      BY <1>2, <1>4, <2>1, <2>3, <2>4
    <3>2. QED
      BY <1>2, <2>1, <2>4, <3>1
  <2>6. /\ CountOf(Owned[ch.k1], i) + CountOf(Owned[ch.k2], i)
                = CountOf(Owned'[ch.k1], i) + CountOf(Owned'[ch.k2], i)
              => Units(Owned', i) = Units(Owned, i)
        /\ CountOf(Owned'[ch.k2], i) = CountOf(Owned[ch.k2], i) /\ CountOf(Owned[ch.k1], i) = 0
              => Units(Owned', i) = Units(Owned, i) + CountOf(Owned'[ch.k1], i)
    BY <1>2, <2>4, <2>5, UnitsOf
  <2>7. CASE Perform(o, ch)
    <3>1. CountOf(Owned[ch.k1], i) + CountOf(Owned[ch.k2], i)
             = CountOf(Owned'[ch.k1], i) + CountOf(Owned'[ch.k2], i)
      BY <2>1, <2>2, <2>4, <2>7
    <3>2. Units(Owned', i) = Units(Owned, i)
      BY <2>6, <3>1
    <3>3. ~ DieHalfway(ch) \/ Units(Owned', i) = Units(Owned, i) + CountOf(ch.v1, i)
      <4>1. SUFFICES ASSUME DieHalfway(ch) PROVE Units(Owned', i) = Units(Owned, i) + CountOf(ch.v1, i)
        OBVIOUS
      <4>2. CountOf(Owned'[ch.k2], i) = CountOf(Owned[ch.k2], i)
        BY <2>3, <4>1
      <4>3. QED
        BY <2>2, <2>4, <2>6, <4>2
    <3>4. QED
      BY <3>2, <3>3
  <2>8. CASE ~ Perform(o, ch)
    BY <1>4, <2>2, <2>3, <2>4, <2>6, <2>8
  <2>9. QED
    BY <2>7, <2>8
<1>5. ASSUME Perform(o, ch) PROVE Kept
  BY <1>3, <1>4, <1>5 DEF Kept
<1>6. ASSUME DieHalfway(ch)
      PROVE  /\ Gold(Owned') = Gold(Owned)
             /\ \A i \in ItemIds : Units(Owned', i) = Units(Owned, i) + CountOf(ch.v1, i)
  BY <1>3, <1>4, <1>6
<1>7. QED
  BY <1>5, <1>6

LEMMA CoinsMove ==
    ASSUME IInv, NEW o \in Objects, NEW ch \in GoldMoves(o), CellsOf(ch) \cap behind[o] = {}
    PROVE  /\ Perform(o, ch) => Kept
           /\ DieHalfway(ch) =>
                /\ Gold(Owned') = Gold(Owned) + ch.v1 - mem[o][ch.k1]
                /\ \A i \in ItemIds : Units(Owned', i) = Units(Owned, i)
<1>1. /\ Typed /\ sess[o] \in Entered /\ ChangeOf(o, ch) /\ Playing(o)
      /\ ch.v1 \in Nat /\ ch.v2 \in Nat
      /\ ch.k1 \notin behind[o] /\ ch.k2 \notin behind[o]
  BY GoldMoveIs, MoveIs DEF IInv, Moves, CellsOf
<1>2. PICK t \in Tabs, n \in Amounts : PaidIn(o, ch, t, n) \/ PaidOut(o, ch, t, n)
  BY <1>1, GoldMoveIs
<1>3. /\ mem[o][ch.k1] \in Nat /\ mem[o][ch.k2] \in Nat
      /\ ch.k1 \in Own(o) \cap GoldCells /\ ch.k2 \in Own(o) \cap GoldCells /\ ch.k1 # ch.k2
      /\ \A k \in ItemCells : k \in Cells /\ k # ch.k1 /\ k # ch.k2
      /\ \A k \in GoldCells : k \in Cells
  BY <1>1, <1>2, GoldHeld, KindsApart DEF PaidIn, PaidOut, Cells
<1>4. mem[o][ch.k1] + mem[o][ch.k2] = ch.v1 + ch.v2
  <2>1. n \in Nat
    BY BankAssumption DEF BankAssumption
  <2>2. QED
    BY <1>2, <1>3, <2>1 DEF PaidIn, PaidOut
<1>5. /\ Owned[ch.k1] = mem[o][ch.k1] /\ Owned[ch.k2] = mem[o][ch.k2]
  BY <1>1, <1>3, HeldIsOwned
<1>6. ASSUME NEW i, Perform(o, ch) \/ DieHalfway(ch)
      PROVE  Units(Owned', i) = Units(Owned, i)
  <2>1. \A k \in ItemCells : Owned'[k] = Owned[k]
    BY <1>1, <1>3, <1>6, CellAfter
  <2>2. [k \in ItemCells |-> CountOf(Owned'[k], i)] = [k \in ItemCells |-> CountOf(Owned[k], i)]
    BY <2>1
  <2>3. QED
    BY <2>2 DEF Units
<1>7. ASSUME Perform(o, ch) \/ DieHalfway(ch)
      PROVE  /\ Perform(o, ch) => Gold(Owned') = Gold(Owned)
             /\ DieHalfway(ch) => Gold(Owned') = Gold(Owned) + ch.v1 - mem[o][ch.k1]
  <2>1. /\ \A k \in GoldCells \ {ch.k1, ch.k2} : Owned'[k] = Owned[k]
        /\ Owned'[ch.k1] = ch.v1
        /\ Perform(o, ch) => Owned'[ch.k2] = ch.v2
        /\ DieHalfway(ch) => Owned'[ch.k2] = Owned[ch.k2]
    BY <1>1, <1>3, <1>7, CellAfter DEF Durable
  <2>2. \A k \in GoldCells : Owned[k] \in Int
    BY <1>1, <1>3, OwnedValue DEF Val
  <2>3. \A k \in GoldCells : Owned[k] \in Int /\ Owned'[k] \in Int
    BY <1>1, <1>3, <1>7, <2>1, <2>2
  <2>4. /\ Owned[ch.k1] + Owned[ch.k2] = Owned'[ch.k1] + Owned'[ch.k2] => Gold(Owned') = Gold(Owned)
        /\ Owned'[ch.k2] = Owned[ch.k2] => Gold(Owned') = Gold(Owned) + Owned'[ch.k1] - Owned[ch.k1]
    BY <1>3, <2>1, <2>3, GoldOf
  <2>5. QED
    BY <1>4, <1>5, <2>1, <2>4
<1>8. QED
  BY <1>6, <1>7 DEF Kept

\* Sessions, flushes and crashes leave what the account owns.
LEMMA SessionOwns ==
    ASSUME IInv, Session
    PROVE  Owned' = Owned
<1>1. CASE Crash
  BY <1>1 DEF Crash, Boot, Owned, Recovered, NoCells
<1>2. ASSUME NEW o \in Objects, Comes(o) \/ Loads(o) \/ Forget(o)
      PROVE  Owned' = Owned
  <2>1. db' = db /\ wal' = wal
    BY <1>2 DEF Comes, Join, Enter, SocketClosed, Leave, Loads, LoadBag, LoadPurse, LoadChest,
                LoadGold, Query, Forget
  <2>2. QED
    BY <2>1 DEF Owned, Recovered
<1>3. QED
  BY <1>1, <1>2, SessionIs, FlushWrites

\* What the account owns is neither more nor less for its sessions, its flushes and
\* its crashes, however they overlap, nor for an operation on cells that no other
\* object has changed since they were read; and an operation of which only the first
\* row is recovered leaves the units it moved doubled, and of gold the sum it moved.
THEOREM UnitsAreKept == CopySpec => UnitsKept
<1>1. IInv /\ Session => Kept
  <2> SUFFICES ASSUME IInv, Session PROVE Kept
    OBVIOUS
  <2>1. QED
    BY SessionOwns DEF Kept
<1>2. ASSUME IInv, NEW o \in Objects, NEW ch \in Moves(o), CellsOf(ch) \cap behind[o] = {}
      PROVE  /\ Perform(o, ch) => Kept
             /\ DieHalfway(ch) /\ ch \in ItemMoves(o) =>
                  /\ Gold(Owned') = Gold(Owned)
                  /\ \A i \in ItemIds : Units(Owned', i) = Units(Owned, i) + CountOf(ch.v1, i)
             /\ DieHalfway(ch) /\ ch \in GoldMoves(o) =>
                  /\ Gold(Owned') = Gold(Owned) + ch.v1 - mem[o][ch.k1]
                  /\ \A i \in ItemIds : Units(Owned', i) = Units(Owned, i)
  BY <1>2, ItemsMove, CoinsMove DEF Moves
<1> DEFINE Step ==
       /\ Session => Kept
       /\ \A o \in Objects : \A ch \in Moves(o) :
             CellsOf(ch) \cap behind[o] = {} =>
               /\ Perform(o, ch) => Kept
               /\ DieHalfway(ch) /\ ch \in ItemMoves(o) =>
                    /\ Gold(Owned') = Gold(Owned)
                    /\ \A i \in ItemIds : Units(Owned', i) = Units(Owned, i) + CountOf(ch.v1, i)
               /\ DieHalfway(ch) /\ ch \in GoldMoves(o) =>
                    /\ Gold(Owned') = Gold(Owned) + ch.v1 - mem[o][ch.k1]
                    /\ \A i \in ItemIds : Units(Owned', i) = Units(Owned, i)
<1>3. IInv => Step
  BY <1>1, <1>2
<1>4. UnitsKept <=> [][Step]_vars
  BY DEF UnitsKept
<1> HIDE DEF Step
<1>5. QED
  BY <1>3, <1>4, InvAlways, PTL

------------------------------------------------------------------------------
(* The bank implements Account.                                              *)

\* The account as its owner would find it, and the copies that are out of date.
PurseGold == [c \in Chars |-> Owned[Purse(c)]]
VaultGold == [t \in Tabs |-> Owned[Vault(t)]]
Open == {o \in Objects : sess[o] # "out"}
OldPurses == {c \in Chars : \E o \in Objects : Purse(c) \in behind[o]}
OldTabs == {t \in Tabs : Vault(t) \in rolled \/ \E o \in Objects : Vault(t) \in behind[o]}

LEMMA AccountInit == CopyInit => A!Init
<1> SUFFICES ASSUME CopyInit PROVE A!Init
  OBVIOUS
<1>1. Typed
  BY InitTyped DEF CopyInit
<1>2. \A k \in GoldCells : Owned[k] \in Nat
  BY <1>1, OwnedValue DEF Cells, Val
<1>3. PurseGold \in [Chars -> Nat] /\ VaultGold \in [Tabs -> Nat]
  BY <1>2 DEF PurseGold, VaultGold, GoldCells, Vaults
<1>4. Open = {} /\ OldPurses = {} /\ OldTabs = {}
  BY DEF CopyInit, Init, Open, OldPurses, OldTabs
<1>5. QED
  BY <1>3, <1>4 DEF A!Init, PurseGold, VaultGold, Open, OldPurses, OldTabs

\* A step that changes no gold and overtakes no copy of it.
LEMMA SeenToCome ==
    ASSUME \A k \in GoldCells : Owned'[k] = Owned[k],
           OldPurses' \subseteq OldPurses, OldTabs' \subseteq OldTabs
    PROVE  A!Come
<1>1. PurseGold' = PurseGold /\ VaultGold' = VaultGold
  BY DEF PurseGold, VaultGold, GoldCells, Vaults
<1>2. QED
  BY <1>1 DEF A!Come, PurseGold, VaultGold, OldPurses, OldTabs

\* The copies a change leaves out of date are those of other open sessions.
LEMMA OvertakenBy ==
    ASSUME IInv, NEW o \in Objects, sess[o] \in Entered, NEW K, Changed(o, K), sess' = sess
    PROVE  /\ \A c \in Chars : c \in OldPurses' =>
                 c \in OldPurses \/ (Purse(c) \in K /\ \E p, q \in Open : p # q)
           /\ \A t \in Tabs : t \in OldTabs' =>
                 t \in OldTabs \/ (Vault(t) \in K /\ \E p, q \in Open : p # q)
           /\ Open' = Open
<1>1. o \in Open /\ Open' = Open
  BY DEF Open, Entered
<1>2. ASSUME NEW p \in Objects, NEW k \in behind'[p]
      PROVE  k \in behind[p] \/ (k \in K /\ p # o /\ mem[p][k] # NoRow)
  BY <1>2 DEF Changed
<1>3. ASSUME NEW p \in Objects, NEW k \in Cells, mem[p][k] # NoRow
      PROVE  p \in Open
  BY <1>3 DEF IInv, Typed, NoneOut, NoCells, Open
<1>4. \A c \in Chars : Purse(c) \in Cells
  BY DEF Cells, GoldCells
<1>5. \A t \in Tabs : Vault(t) \in Cells
  BY DEF Cells, GoldCells, Vaults
<1>6. rolled' \subseteq rolled
  BY DEF Changed
<1>7. ASSUME NEW c \in Chars, c \in OldPurses'
      PROVE  c \in OldPurses \/ (Purse(c) \in K /\ \E p, q \in Open : p # q)
  <2>1. PICK p \in Objects : Purse(c) \in behind'[p]
    BY <1>7 DEF OldPurses
  <2>2. QED
    BY <1>1, <1>2, <1>3, <1>4, <2>1 DEF OldPurses
<1>8. ASSUME NEW t \in Tabs, t \in OldTabs'
      PROVE  t \in OldTabs \/ (Vault(t) \in K /\ \E p, q \in Open : p # q)
  <2>1. CASE Vault(t) \in rolled'
    BY <1>6, <2>1 DEF OldTabs
  <2>2. CASE \E p \in Objects : Vault(t) \in behind'[p]
    BY <1>1, <1>2, <1>3, <1>5, <2>2 DEF OldTabs
  <2>3. QED
    BY <1>8, <2>1, <2>2 DEF OldTabs
<1>9. QED
  BY <1>1, <1>7, <1>8

LEMMA ItemsUnseen ==
    ASSUME IInv, NEW o \in Objects, NEW ch \in ItemMoves(o),
           \/ Perform(o, ch) /\ Changed(o, CellsOf(ch))
           \/ DieHalfway(ch) /\ behind' = [p \in Objects |-> {}] /\ rolled' = {}
    PROVE  A!Come
<1>1. /\ Typed /\ sess[o] \in Entered /\ ChangeOf(o, ch)
      /\ ch.k1 \in ItemCells /\ ch.k2 \in ItemCells
  BY ItemMoveIs, MoveIs DEF IInv, Moves, ItemMove
<1>2. \A k \in GoldCells : k \in Cells /\ k # ch.k1 /\ k # ch.k2
  BY <1>1, KindsApart DEF Cells
<1>3. \A k \in GoldCells : Owned'[k] = Owned[k]
  BY <1>1, <1>2, CellAfter
<1>4. OldPurses' \subseteq OldPurses /\ OldTabs' \subseteq OldTabs
  <2>1. CASE Perform(o, ch) /\ Changed(o, CellsOf(ch))
    <3>1. sess' = sess
      BY <2>1 DEF Perform
    <3>2. /\ \A c \in Chars : Purse(c) \notin CellsOf(ch)
          /\ \A t \in Tabs : Vault(t) \notin CellsOf(ch)
      BY <1>1, CellsApart DEF CellsOf
    <3>3. /\ \A c \in Chars : c \in OldPurses' => c \in OldPurses
          /\ \A t \in Tabs : t \in OldTabs' => t \in OldTabs
      BY <1>1, <2>1, <3>1, <3>2, OvertakenBy
    <3>4. QED
      BY <3>3 DEF OldPurses, OldTabs
  <2>2. CASE behind' = [p \in Objects |-> {}] /\ rolled' = {}
    BY <2>2 DEF OldPurses, OldTabs
  <2>3. QED
    BY <2>1, <2>2
<1>5. QED
  BY <1>3, <1>4, SeenToCome

\* A move of gold, whole or cut short, is one of Account's, or goes astray.
LEMMA GoldSeen ==
    ASSUME IInv, NEW o \in Objects, NEW ch \in GoldMoves(o),
           \/ Perform(o, ch) /\ Changed(o, CellsOf(ch))
           \/ DieHalfway(ch) /\ behind' = [p \in Objects |-> {}] /\ rolled' = {}
    PROVE  A!Next
<1> DEFINE c == CharOf[o]
<1>1. /\ Typed /\ sess[o] \in Entered /\ ChangeOf(o, ch) /\ Playing(o)
      /\ ch.v1 \in Nat /\ ch.v2 \in Nat /\ c \in Chars /\ PurseOf(o) = Purse(c)
  BY GoldMoveIs, MoveIs, OwnCells DEF IInv, Moves
<1>2. PICK t \in Tabs, n \in Amounts : PaidIn(o, ch, t, n) \/ PaidOut(o, ch, t, n)
  BY <1>1, GoldMoveIs
<1>3. ch.k1 = Purse(c) /\ ch.k2 = Vault(t) /\ n \in Nat
  BY <1>1, <1>2, BankAssumption DEF PaidIn, PaidOut, BankAssumption
<1>4. /\ \A d \in Chars : Purse(d) \in GoldCells /\ Purse(d) \in Cells
      /\ \A u \in Tabs : Vault(u) \in GoldCells /\ Vault(u) \in Cells
  BY DEF GoldCells, Vaults, Cells
<1> HIDE DEF c
<1>5. /\ PurseGold' = [PurseGold EXCEPT ![c] = ch.v1]
      /\ \A u \in Tabs \ {t} : VaultGold'[u] = VaultGold[u]
      /\ Perform(o, ch) => VaultGold' = [VaultGold EXCEPT ![t] = ch.v2]
      /\ DieHalfway(ch) => VaultGold' = VaultGold
  <2>1. \A d \in Chars : Owned'[Purse(d)] = IF d = c THEN ch.v1 ELSE Owned[Purse(d)]
    <3>1. TAKE d \in Chars
    <3>2. Purse(d) # ch.k2 /\ (Purse(d) = ch.k1 <=> d = c)
      BY <1>1, <1>3, CellsApart
    <3>3. QED
      BY <1>1, <1>4, <3>2, CellAfter DEF Durable
  <2>2. \A u \in Tabs : /\ Perform(o, ch) => Owned'[Vault(u)] = IF u = t THEN ch.v2 ELSE Owned[Vault(u)]
                        /\ DieHalfway(ch) => Owned'[Vault(u)] = Owned[Vault(u)]
    <3>1. TAKE u \in Tabs
    <3>2. Vault(u) # ch.k1 /\ (Vault(u) = ch.k2 <=> u = t)
      BY <1>1, <1>3, CellsApart
    <3>3. QED
      BY <1>1, <1>4, <3>2, CellAfter DEF Durable
  <2>3. PurseGold' = [PurseGold EXCEPT ![c] = ch.v1]
    BY <1>1, <2>1 DEF PurseGold
  <2>4. \A u \in Tabs \ {t} : VaultGold'[u] = VaultGold[u]
    BY <2>2 DEF VaultGold
  <2>5. Perform(o, ch) => VaultGold' = [VaultGold EXCEPT ![t] = ch.v2]
    BY <2>2 DEF VaultGold
  <2>6. DieHalfway(ch) => VaultGold' = VaultGold
    BY <2>2 DEF VaultGold
  <2>7. QED
    BY <2>3, <2>4, <2>5, <2>6
<1>6. \/ Perform(o, ch) /\ A!Overtaken(c, t)
      \/ DieHalfway(ch) /\ A!AllClosed
  <2>1. CASE Perform(o, ch) /\ Changed(o, CellsOf(ch))
    <3>1. sess' = sess
      BY <2>1 DEF Perform
    <3>2. /\ \A d \in Chars : Purse(d) \in CellsOf(ch) => d = c
          /\ \A u \in Tabs : Vault(u) \in CellsOf(ch) => u = t
      BY <1>1, <1>3, CellsApart DEF CellsOf
    <3>3. /\ \A d \in Chars : d \in OldPurses' =>
                d \in OldPurses \/ (d = c /\ \E p, q \in Open : p # q)
          /\ \A u \in Tabs : u \in OldTabs' =>
                u \in OldTabs \/ (u = t /\ \E p, q \in Open : p # q)
          /\ Open' = Open
      BY <1>1, <2>1, <3>1, <3>2, OvertakenBy
    <3>4. /\ OldPurses' \subseteq OldPurses \cup {x \in {c} : \E p, q \in Open : p # q}
          /\ OldTabs' \subseteq OldTabs \cup {x \in {t} : \E p, q \in Open : p # q}
      BY <3>3 DEF OldPurses, OldTabs
    <3>5. QED
      BY <2>1, <3>3, <3>4 DEF A!Overtaken, OldPurses, OldTabs, Open
  <2>2. CASE DieHalfway(ch) /\ behind' = [p \in Objects |-> {}] /\ rolled' = {}
    <3>1. Open' = {}
      BY <2>2 DEF DieHalfway, Boot, Open
    <3>2. OldPurses' = {} /\ OldTabs' = {}
      BY <2>2 DEF OldPurses, OldTabs
    <3>3. QED
      BY <2>2, <3>1, <3>2 DEF A!AllClosed, OldPurses, OldTabs, Open
  <2>3. QED
    BY <2>1, <2>2
<1>7. CASE Purse(c) \in behind[o] \/ Vault(t) \in behind[o]
  <2>1. c \in OldPurses \/ t \in OldTabs
    BY <1>1, <1>7 DEF OldPurses, OldTabs
  <2>2. \A d \in Chars \ {c} : PurseGold'[d] = PurseGold[d]
    BY <1>5 DEF PurseGold
  <2>3. A!Astray(c, t)
    BY <1>5, <1>6, <2>1, <2>2 DEF A!Astray, OldPurses, OldTabs, PurseGold, VaultGold
  <2>4. QED
    BY <1>1, <2>3 DEF A!Next
<1>8. CASE Purse(c) \notin behind[o] /\ Vault(t) \notin behind[o]
  <2>1. mem[o][PurseOf(o)] = PurseGold[c] /\ mem[o][Vault(t)] = VaultGold[t]
    <3>1. PurseOf(o) \in Own(o) \cap GoldCells /\ Vault(t) \in Own(o) \cap GoldCells
      BY OwnCells
    <3>2. mem[o][PurseOf(o)] = Owned[Purse(c)] /\ mem[o][Vault(t)] = Owned[Vault(t)]
      BY <1>1, <1>8, <3>1, HeldIsOwned
    <3>3. QED
      BY <1>1, <3>2 DEF PurseGold, VaultGold
  <2>2. CASE PaidIn(o, ch, t, n)
    <3>1. /\ n <= PurseGold[c] /\ VaultGold[t] + n <= MaxGold
          /\ ch.v1 = PurseGold[c] - n /\ ch.v2 = VaultGold[t] + n
      BY <2>1, <2>2 DEF PaidIn
    <3>2. PurseGold' = [PurseGold EXCEPT ![c] = @ - n]
      BY <1>5, <3>1
    <3>3. Perform(o, ch) => VaultGold' = [VaultGold EXCEPT ![t] = @ + n]
      BY <1>5, <3>1
    <3>4. A!PayIn(c, t, n)
      BY <1>5, <1>6, <3>1, <3>2, <3>3 DEF A!PayIn, PurseGold, VaultGold
    <3>5. QED
      BY <1>1, <3>4 DEF A!Next
  <2>3. CASE PaidOut(o, ch, t, n)
    <3>1. n <= VaultGold[t] /\ ch.v1 = PurseGold[c] + n /\ ch.v2 = VaultGold[t] - n
      BY <2>1, <2>3 DEF PaidOut
    <3>2. PurseGold' = [PurseGold EXCEPT ![c] = @ + n]
      BY <1>5, <3>1
    <3>3. Perform(o, ch) => VaultGold' = [VaultGold EXCEPT ![t] = @ - n]
      BY <1>5, <3>1
    <3>4. A!PayOut(c, t, n)
      BY <1>5, <1>6, <3>1, <3>2, <3>3 DEF A!PayOut, PurseGold, VaultGold
    <3>5. QED
      BY <1>1, <3>4 DEF A!Next
  <2>4. QED
    BY <1>2, <2>2, <2>3
<1>9. QED
  BY <1>7, <1>8

\* Sessions come and go: what they read of a row that was rolled back is out of date,
\* as the row was.
LEMMA SessionSeen ==
    ASSUME IInv, CopySession
    PROVE  A!Come
<1>1. Session
  BY DEF CopySession, CopyLoad, CopyForget, CopyEnter, CopyFlush, Session
<1>2. \A k \in GoldCells : Owned'[k] = Owned[k]
  BY <1>1, SessionOwns
<1>3. \A c \in Chars : Purse(c) \notin rolled
  BY CellsApart DEF IInv, Overtaken, Vaults
<1>4. ASSUME \/ \E o \in Objects : CopyLoad(o) \/ CopyForget(o) \/ CopyEnter(o)
             \/ \E o \in Objects, t \in Tabs : CopyFlush(o, t)
      PROVE  /\ \A p \in Objects : \A k \in behind'[p] : k \in behind[p] \cup rolled
             /\ \A k \in rolled' : k \in rolled \/ \E p \in Objects : k \in behind[p]
  BY <1>4 DEF CopyLoad, CopyForget, CopyEnter, CopyFlush, IInv, CopyTypeOK
<1>5. OldPurses' \subseteq OldPurses /\ OldTabs' \subseteq OldTabs
  BY <1>3, <1>4 DEF CopySession, OldPurses, OldTabs
<1>6. QED
  BY <1>2, <1>5, SeenToCome

LEMMA BootSeen ==
    ASSUME IInv, CopyBoot
    PROVE  A!Next
<1>1. CASE Crash
  <2>1. \A k \in GoldCells : Owned'[k] = Owned[k]
    BY <1>1 DEF Crash, Boot, Owned, Recovered, NoCells
  <2>2. OldPurses' = {} /\ OldTabs' = {}
    BY DEF CopyBoot, OldPurses, OldTabs
  <2>3. QED
    BY <2>1, <2>2, SeenToCome DEF A!Next
<1>2. CASE KilledMidway
  <2>1. PICK o \in Objects : \E ch \in Moves(o) : DieHalfway(ch)
    BY <1>2 DEF KilledMidway
  <2>2. PICK ch \in Moves(o) : DieHalfway(ch)
    BY <2>1
  <2>3. DieHalfway(ch) /\ behind' = [p \in Objects |-> {}] /\ rolled' = {}
    BY <2>2 DEF CopyBoot
  <2>4. QED
    BY <2>3, ItemsUnseen, GoldSeen DEF Moves, A!Next
<1>3. QED
  BY <1>1, <1>2 DEF CopyBoot

\* The bank implements Account: what a restart would find of the account's gold only
\* moves between a purse and a tab, through every overlap of its sessions, with the
\* two exceptions Account makes; one session at a time never leaves an overtaken copy.
THEOREM BankImplementsAccount == CopySpec => AccountSpec
<1>1. CopyInit => A!Init
  BY AccountInit
<1>2. IInv /\ [CopyNext]_copyVars => [A!Next]_(A!vars)
  <2> SUFFICES ASSUME IInv, [CopyNext]_copyVars PROVE [A!Next]_(A!vars)
    OBVIOUS
  <2>1. CASE CopyBank
    BY <2>1, ItemsUnseen, GoldSeen DEF CopyBank, Moves, A!Next
  <2>2. CASE CopySession
    BY <2>2, SessionSeen DEF A!Next
  <2>3. CASE CopyBoot
    BY <2>3, BootSeen
  <2>4. CASE UNCHANGED copyVars
    BY <2>4 DEF copyVars, vars, A!vars, Owned, Recovered
  <2>5. QED
    BY <2>1, <2>2, <2>3, <2>4 DEF CopyNext
<1>3. QED
  BY <1>1, <1>2, InvAlways, PTL DEF AccountSpec, A!Spec, CopySpec

------------------------------------------------------------------------------
(* The guild's bank: types, and the tables that follow memory.               *)

Chests == [GuildBankSlots -> Item \cup {Empty}]

\* A guild that memory or a table can hold.
Good(g) == g \in GuildState /\ g.gold <= MaxPool

\* The clauses of VaultInv, and that every image on its way to the tables is one a
\* restart could come back with.
AllGood == \A i \in 1 .. Len(disk) : Good(disk[i])
VInv == VaultTypeOK /\ AllGood /\ StoredAsLive

LEMMA RenumberedType ==
    ASSUME NEW x \in Item \cup {Empty}, NEW s \in Nat
    PROVE  /\ Renumbered(x, s) \in Item \cup {Empty}
           /\ Renumbered(x, s) = Empty <=> x = Empty
           /\ Renumbered(Renumbered(x, s), 0) = Renumbered(x, 0)
<1>1. CASE x = Empty
  BY <1>1 DEF Renumbered
<1>2. CASE x # Empty
  <2>1. x \in Item
    BY <1>2
  <2> DEFINE y == [x EXCEPT !.objid = s]
  <2>2. y \in Item /\ [y EXCEPT !.objid = 0] = [x EXCEPT !.objid = 0]
    BY <2>1 DEF Item
  <2>3. y # Empty
    BY <2>2, EmptyAssumption
  <2>4. Renumbered(x, s) = y
    BY <1>2 DEF Renumbered
  <2>5. Renumbered(y, 0) = [y EXCEPT !.objid = 0]
    BY <2>3 DEF Renumbered
  <2>6. Renumbered(x, 0) = [x EXCEPT !.objid = 0]
    BY <1>2 DEF Renumbered
  <2> HIDE DEF y
  <2>7. QED
    BY <1>2, <2>2, <2>3, <2>4, <2>5, <2>6
<1>3. QED
  BY <1>1, <1>2

\* Two guilds are the same, objids aside, when their fields are.
LEMMA BareIs ==
    ASSUME NEW t \in GuildState, NEW g \in GuildState
    PROVE  Bare(t) = Bare(g) <=>
             /\ t.gold = g.gold /\ t.pxp = g.pxp /\ t.level = g.level /\ t.roll = g.roll
             /\ \A s \in GuildBankSlots : Renumbered(t.chest[s], 0) = Renumbered(g.chest[s], 0)
<1> DEFINE B(x) == [s \in GuildBankSlots |-> Renumbered(x.chest[s], 0)]
<1>1. Bare(t) = [t EXCEPT !.chest = B(t)] /\ Bare(g) = [g EXCEPT !.chest = B(g)]
  BY DEF Bare
<1>2. B(t) = B(g) <=>
        \A s \in GuildBankSlots : Renumbered(t.chest[s], 0) = Renumbered(g.chest[s], 0)
  <2>1. \A s \in GuildBankSlots : B(t)[s] = Renumbered(t.chest[s], 0) /\ B(g)[s] = Renumbered(g.chest[s], 0)
    OBVIOUS
  <2>2. B(t) = [s \in GuildBankSlots |-> B(t)[s]] /\ B(g) = [s \in GuildBankSlots |-> B(g)[s]]
    OBVIOUS
  <2> HIDE DEF B
  <2>3. QED
    BY <2>1, <2>2
<1> HIDE DEF B
<1>3. /\ t = [gold |-> t.gold, pxp |-> t.pxp, level |-> t.level, roll |-> t.roll, chest |-> t.chest]
      /\ g = [gold |-> g.gold, pxp |-> g.pxp, level |-> g.level, roll |-> g.roll, chest |-> g.chest]
  BY DEF GuildState
<1> DEFINE bt == [gold |-> t.gold, pxp |-> t.pxp, level |-> t.level, roll |-> t.roll, chest |-> B(t)]
           bg == [gold |-> g.gold, pxp |-> g.pxp, level |-> g.level, roll |-> g.roll, chest |-> B(g)]
<1>4. [t EXCEPT !.chest = B(t)] = bt /\ [g EXCEPT !.chest = B(g)] = bg
  BY DEF GuildState
<1>5. bt = bg <=> /\ t.gold = g.gold /\ t.pxp = g.pxp /\ t.level = g.level /\ t.roll = g.roll
                  /\ B(t) = B(g)
  OBVIOUS
<1> HIDE DEF bt, bg
<1>6. QED
  BY <1>1, <1>2, <1>4, <1>5

\* Images issued after those under way: the tables end where the last leads.
Follows(images, g) ==
    /\ images \in Seq(GuildState) /\ images # << >>
    /\ \A i \in 1 .. Len(images) : Good(images[i])
    /\ Bare(images[Len(images)]) = Bare(g)

LEMMA WriteKeeps ==
    ASSUME VInv, NEW images, Issue(images), Good(guild'), Follows(images, guild'),
           gold' \in [Players -> 0 .. MaxPurse], bag' \in [Players -> Bags],
           latch' \in [swept : BOOLEAN, sent : BOOLEAN], hour' \in Hours, polled' \in BOOLEAN
    PROVE  VInv'
<1>1. /\ disk \in Seq(GuildState) /\ disk # << >> /\ disk' = disk \o images
      /\ images \in Seq(GuildState) /\ images # << >>
  BY DEF VInv, VaultTypeOK, Issue, Follows
<1>2. /\ disk' \in Seq(GuildState) /\ disk' # << >>
      /\ Len(disk') = Len(disk) + Len(images)
      /\ \A i \in 1 .. Len(disk') :
            disk'[i] = IF i <= Len(disk) THEN disk[i] ELSE images[i - Len(disk)]
  BY <1>1
<1>3. AllGood'
  <2>1. \A i \in 1 .. Len(disk') : Good(disk'[i])
    <3>1. TAKE i \in 1 .. Len(disk')
    <3>2. CASE i <= Len(disk)
      BY <1>1, <1>2, <3>2 DEF VInv, AllGood
    <3>3. CASE ~ (i <= Len(disk))
      <4>1. i - Len(disk) \in 1 .. Len(images)
        BY <1>1, <1>2, <3>3
      <4>2. QED
        BY <1>2, <3>3, <4>1 DEF Follows
    <3>4. QED
      BY <3>2, <3>3
  <2>2. QED
    BY <2>1 DEF AllGood, Good
<1>4. disk'[Len(disk')] = images[Len(images)]
  BY <1>1, <1>2
<1>5. StoredAsLive'
  BY <1>4 DEF StoredAsLive, Tables, Follows, Bare
<1>6. VaultTypeOK'
  BY <1>2 DEF VaultTypeOK, Good, Bags, BagsOn
<1>7. QED
  BY <1>3, <1>5, <1>6 DEF VInv

\* The image the next statement acts on.
LEMMA TablesGood ==
    ASSUME VInv
    PROVE  /\ Good(Tables) /\ Good(guild)
           /\ Tables.gold = guild.gold /\ Tables.pxp = guild.pxp /\ Tables.level = guild.level
           /\ Tables.roll = guild.roll
           /\ \A s \in GuildBankSlots : Renumbered(Tables.chest[s], 0) = Renumbered(guild.chest[s], 0)
<1>1. Len(disk) \in 1 .. Len(disk)
  BY DEF VInv, VaultTypeOK
<1>2. Good(Tables) /\ Good(guild)
  BY <1>1 DEF VInv, AllGood, Tables, VaultTypeOK, Good
<1>3. Bare(Tables) = Bare(guild)
  BY DEF VInv, StoredAsLive
<1>4. QED
  BY <1>2, <1>3, BareIs DEF Good

LEMMA OneImage ==
    ASSUME NEW t, NEW g, Good(t), Bare(t) = Bare(g)
    PROVE  Follows(<<t>>, g)
  BY DEF Follows, Good

LEMMA TwoImages ==
    ASSUME NEW t, NEW u, NEW g, Good(t), Good(u), Bare(u) = Bare(g)
    PROVE  Follows(<<t, u>>, g)
<1>1. /\ <<t, u>> \in Seq(GuildState) /\ Len(<<t, u>>) = 2 /\ <<t, u>># << >>
      /\ <<t, u>>[1] = t /\ <<t, u>>[2] = u
  BY DEF Good
<1>2. \A i \in 1 .. 2 : i = 1 \/ i = 2
  OBVIOUS
<1>3. QED
  BY <1>1, <1>2 DEF Follows

------------------------------------------------------------------------------
(* What the operations make of the guild and of its rows.                    *)

LEMMA MemberTypes ==
    ASSUME NEW g \in GuildState, NEW p \in Players
    PROVE  /\ g.roll[p] \in Member \cup {None}
           /\ g.roll[p] # None => g.roll[p] \in Member
           /\ None \notin Member
  BY MemberAssumption DEF GuildState

\* The statements of a change of the pool and of p's counters.
LEMMA CreditRowsFollow ==
    ASSUME VInv, NEW p \in Players, NEW t, NEW g, NEW h, Good(t), Good(g), Good(h),
           Bare(t) = Bare(h), g.roll[p] # None, h.roll[p] # None, g.chest = h.chest,
           \A q \in Players \ {p} : g.roll[q] = h.roll[q]
    PROVE  Follows(CreditRows(t, p, g), g)
<1> DEFINE u == GuildRow(t, g)
           roll == [q \in Players |-> IF q \in {p} /\ u.roll[q] # None THEN g.roll[q] ELSE u.roll[q]]
           w == [u EXCEPT !.roll = roll]
<1>1. /\ t \in GuildState /\ g \in GuildState /\ h \in GuildState /\ g.gold <= MaxPool
      /\ t.roll = h.roll
      /\ \A s \in GuildBankSlots : Renumbered(t.chest[s], 0) = Renumbered(h.chest[s], 0)
  BY BareIs DEF Good
<1>2. /\ u \in GuildState /\ u.gold = g.gold /\ u.pxp = g.pxp /\ u.level = g.level
      /\ u.roll = t.roll /\ u.chest = t.chest
  BY <1>1 DEF GuildRow, GuildState
<1> HIDE DEF u
<1>3. roll = g.roll
  <2>1. g.roll = [q \in Players |-> g.roll[q]]
    BY <1>1 DEF GuildState
  <2>2. \A q \in Players : (IF q \in {p} /\ u.roll[q] # None THEN g.roll[q] ELSE u.roll[q]) = g.roll[q]
    BY <1>1, <1>2
  <2>3. QED
    BY <2>1, <2>2
<1> HIDE DEF roll
<1>4. /\ w \in GuildState /\ w.gold = g.gold /\ w.pxp = g.pxp /\ w.level = g.level
      /\ w.roll = g.roll /\ w.chest = t.chest
  BY <1>1, <1>2, <1>3 DEF GuildState
<1> HIDE DEF w
<1>5. Bare(w) = Bare(g)
  BY <1>1, <1>4, BareIs
<1>6. Good(u) /\ Good(w)
  BY <1>1, <1>2, <1>4 DEF Good
<1>7. CreditRows(t, p, g) = <<u, w>>
  BY DEF CreditRows, MemberRows, u, w, roll
<1>8. QED
  BY <1>5, <1>6, <1>7, TwoImages

LEMMA LevelRows == \A j \in Levels : GuildTable[j] \in [pxp : Nat, penya : Nat]
<1> DEFINE Price == [pxp : Nat, penya : Nat]
<1>1. GuildTable \in Seq(Price)
  BY VaultAssumption DEF VaultAssumption
<1> HIDE DEF Price
<1>2. \A j \in 1 .. Len(GuildTable) : GuildTable[j] \in Price
  BY <1>1
<1>3. QED
  BY <1>2 DEF Levels, Price

\* A contribution that is admitted leaves a good guild of the same chest and
\* members, at most one level higher.
LEMMA CreditedGood ==
    ASSUME NEW g, Good(g), NEW p \in Players, g.roll[p] # None, NEW x \in Nat, NEW n \in Nat,
           g.gold + n <= MaxPool
    PROVE  /\ Good(Credited(g, p, x, n)) /\ Credited(g, p, x, n).roll[p] # None
           /\ Credited(g, p, x, n).chest = g.chest
           /\ \A q \in Players \ {p} : Credited(g, p, x, n).roll[q] = g.roll[q]
<1> DEFINE m == [g.roll[p] EXCEPT !.giveGold = g.roll[p].giveGold + n]
           roll == [g.roll EXCEPT ![p] = m]
           h == [g EXCEPT !.pxp = g.pxp + x, !.gold = g.gold + n, !.roll[p].giveGold = g.roll[p].giveGold + n]
<1>1. g \in GuildState /\ g.gold \in Nat /\ g.pxp \in Nat /\ g.level \in Levels
  BY DEF Good, GuildState
<1>2. m \in Member /\ m # None
  <2>1. g.roll[p] \in Member
    BY <1>1, MemberTypes
  <2>2. m \in Member
    BY <2>1 DEF Member
  <2>3. QED
    BY <2>2, MemberAssumption
<1> HIDE DEF m
<1>3. /\ roll \in [Players -> Member \cup {None}] /\ roll[p] # None
      /\ \A q \in Players \ {p} : roll[q] = g.roll[q]
  BY <1>1, <1>2 DEF GuildState
<1>4. h = [g EXCEPT !.pxp = g.pxp + x, !.gold = g.gold + n, !.roll = roll]
  BY <1>1 DEF m, GuildState
<1> HIDE DEF roll, h
<1>5. /\ h \in GuildState /\ h.gold = g.gold + n /\ h.pxp = g.pxp + x /\ h.level = g.level
      /\ h.roll = roll /\ h.chest = g.chest
  <2>1. g.gold + n \in Nat /\ g.pxp + x \in Nat
    BY <1>1
  <2>2. QED
    BY <1>1, <1>3, <1>4, <2>1 DEF GuildState
<1>6. Credited(g, p, x, n) = Leveled(h)
  BY DEF Credited, h
<1>7. CASE Leveled(h) = h
  BY <1>3, <1>5, <1>6, <1>7 DEF Good
<1>8. CASE Leveled(h) # h
  <2> DEFINE l == GuildTable[h.level + 1]
             k == [h EXCEPT !.level = h.level + 1, !.pxp = h.pxp - l.pxp, !.gold = h.gold - l.penya]
  <2>1. /\ h.level < Len(GuildTable) /\ h.pxp >= l.pxp /\ h.gold >= l.penya /\ Leveled(h) = k
    BY <1>8 DEF Leveled
  <2>2. h.level + 1 \in Levels /\ l.pxp \in Nat /\ l.penya \in Nat
    <3>1. h.level \in Nat \ {0} /\ Len(GuildTable) \in Nat
      <4>1. Len(GuildTable) \in Nat
        BY VaultAssumption DEF VaultAssumption
      <4>2. h.level \in Levels
        BY <1>5 DEF GuildState
      <4>3. QED
        BY <4>1, <4>2 DEF Levels
    <3>2. h.level + 1 \in 1 .. Len(GuildTable)
      BY <2>1, <3>1
    <3>3. l \in [pxp : Nat, penya : Nat]
      BY <3>2, LevelRows DEF Levels
    <3> HIDE DEF l
    <3>4. l.pxp \in Nat /\ l.penya \in Nat
      BY <3>3
    <3>5. QED
      BY <3>2, <3>4 DEF Levels
  <2> HIDE DEF l, k
  <2>3. h.pxp - l.pxp \in Nat /\ h.gold - l.penya \in Nat /\ h.gold - l.penya <= MaxPool
    <3>1. h.pxp \in Nat /\ h.gold \in Nat /\ h.gold <= MaxPool
      BY <1>1, <1>5
    <3>2. MaxPool \in Nat
      BY VaultAssumption DEF VaultAssumption
    <3>3. h.pxp >= l.pxp /\ h.gold >= l.penya
      BY <2>1
    <3>4. l.pxp \in Nat /\ l.penya \in Nat
      BY <2>2
    <3>5. QED
      BY <3>1, <3>2, <3>3, <3>4
  <2>4. /\ k \in GuildState /\ k.gold <= MaxPool /\ k.roll = h.roll /\ k.chest = h.chest
    BY <1>5, <2>2, <2>3 DEF GuildState, k
  <2>5. QED
    BY <1>3, <1>5, <1>6, <2>1, <2>4 DEF Good
<1>9. QED
  BY <1>7, <1>8

------------------------------------------------------------------------------
(* One lemma per operation.                                                  *)

LEMMA CarriedTypes ==
    ASSUME VInv, NEW p \in Players
    PROVE  /\ gold[p] \in 0 .. MaxPurse /\ MaxPurse \in Nat
           /\ bag[p] \in Bags
           /\ \A n \in 0 .. MaxPurse : [gold EXCEPT ![p] = n] \in [Players -> 0 .. MaxPurse]
           /\ \A b \in Bags : [bag EXCEPT ![p] = b] \in [Players -> Bags]
           /\ gold \in [Players -> 0 .. MaxPurse] /\ bag \in [Players -> Bags]
           /\ latch \in [swept : BOOLEAN, sent : BOOLEAN] /\ hour \in Hours /\ polled \in BOOLEAN
  BY VaultAssumption DEF VInv, VaultTypeOK, VaultAssumption, Bags, BagsOn

LEMMA ContributePenyaKeeps ==
    ASSUME VInv, NEW p \in Players, NEW n \in Nat, ContributePenya(p, n)
    PROVE  VInv'
<1> DEFINE g == Credited(guild, p, 0, n)
<1>1. Good(guild) /\ Good(Tables) /\ Bare(Tables) = Bare(guild) /\ guild.roll[p] # None
  BY TablesGood DEF ContributePenya, IsMember, VInv, StoredAsLive
<1>2. guild.gold + n <= MaxPool /\ guild.gold \in Nat
  BY <1>1 DEF ContributePenya, CanContribute, Good, GuildState
<1>3. /\ Good(g) /\ g.roll[p] # None /\ g.chest = guild.chest
      /\ \A q \in Players \ {p} : g.roll[q] = guild.roll[q]
  BY <1>1, <1>2, CreditedGood
<1>4. guild' = g /\ Issue(CreditRows(Tables, p, g)) /\ UNCHANGED <<bag, clock>>
  BY DEF ContributePenya
<1> HIDE DEF g
<1>5. Follows(CreditRows(Tables, p, g), g)
  BY <1>1, <1>3, CreditRowsFollow
<1>6. gold[p] - n \in 0 .. MaxPurse /\ gold' = [gold EXCEPT ![p] = gold[p] - n]
  BY CarriedTypes DEF ContributePenya
<1>7. QED
  BY <1>3, <1>4, <1>5, <1>6, CarriedTypes, WriteKeeps DEF clock

LEMMA WithdrawPenyaKeeps ==
    ASSUME VInv, NEW p \in Players, NEW n \in Nat, WithdrawPenya(p, n)
    PROVE  VInv'
<1> DEFINE m == [guild.roll[p] EXCEPT !.giveGold = guild.roll[p].giveGold - n]
           roll == [guild.roll EXCEPT ![p] = m]
           g == [guild EXCEPT !.gold = guild.gold - n, !.roll[p].giveGold = guild.roll[p].giveGold - n]
<1>1. /\ Good(guild) /\ Good(Tables) /\ Bare(Tables) = Bare(guild) /\ guild.roll[p] # None
      /\ guild \in GuildState /\ guild.gold \in Nat
  BY TablesGood DEF WithdrawPenya, IsMember, VInv, StoredAsLive, Good, GuildState
<1>2. m \in Member /\ m # None
  <2>1. guild.roll[p] \in Member
    BY <1>1, MemberTypes
  <2>2. m \in Member
    BY <2>1 DEF Member
  <2>3. QED
    BY <2>2, MemberAssumption
<1> HIDE DEF m
<1>3. /\ roll \in [Players -> Member \cup {None}] /\ roll[p] # None
      /\ \A q \in Players \ {p} : roll[q] = guild.roll[q]
  BY <1>1, <1>2 DEF GuildState
<1>4. g = [guild EXCEPT !.gold = guild.gold - n, !.roll = roll]
  BY <1>1 DEF m, GuildState
<1>5. guild' = g /\ Issue(CreditRows(Tables, p, g)) /\ UNCHANGED <<bag, clock>>
  BY DEF WithdrawPenya
<1> HIDE DEF roll, g
<1>6. /\ Good(g) /\ g.roll = roll /\ g.chest = guild.chest
  <2>1. guild.gold - n \in Nat /\ guild.gold - n <= MaxPool
    BY <1>1, VaultAssumption DEF WithdrawPenya, Good, VaultAssumption
  <2>2. QED
    BY <1>1, <1>3, <1>4, <2>1 DEF Good, GuildState
<1>7. Follows(CreditRows(Tables, p, g), g)
  BY <1>1, <1>3, <1>6, CreditRowsFollow
<1>8. gold[p] + n \in 0 .. MaxPurse /\ gold' = [gold EXCEPT ![p] = gold[p] + n]
  BY CarriedTypes DEF WithdrawPenya
<1>9. QED
  BY <1>5, <1>6, <1>7, <1>8, CarriedTypes, WriteKeeps DEF clock

\* A guild with another chest, and the image that says so, objids aside.
LEMMA ChestChanged ==
    ASSUME VInv, NEW chest \in Chests, NEW c \in Chests,
           \A r \in GuildBankSlots : Renumbered(c[r], 0) = Renumbered(chest[r], 0)
    PROVE  /\ Good([guild EXCEPT !.chest = chest])
           /\ Follows(<<[Tables EXCEPT !.chest = c]>>, [guild EXCEPT !.chest = chest])
<1> DEFINE g == [guild EXCEPT !.chest = chest]
           t == [Tables EXCEPT !.chest = c]
<1>1. /\ Good(guild) /\ Good(Tables) /\ guild \in GuildState /\ Tables \in GuildState
      /\ Tables.gold = guild.gold /\ Tables.pxp = guild.pxp /\ Tables.level = guild.level
      /\ Tables.roll = guild.roll
  BY TablesGood DEF Good
<1>2. /\ g \in GuildState /\ g.gold = guild.gold /\ g.pxp = guild.pxp /\ g.level = guild.level
      /\ g.roll = guild.roll /\ g.chest = chest
  BY <1>1 DEF GuildState, Chests
<1>3. /\ t \in GuildState /\ t.gold = Tables.gold /\ t.pxp = Tables.pxp /\ t.level = Tables.level
      /\ t.roll = Tables.roll /\ t.chest = c
  BY <1>1 DEF GuildState, Chests
<1> HIDE DEF g, t
<1>4. t.gold = g.gold /\ t.pxp = g.pxp /\ t.level = g.level /\ t.roll = g.roll
  BY <1>1, <1>2, <1>3
<1>5. Bare(t) = Bare(g)
  BY <1>2, <1>3, <1>4, BareIs
<1>6. Good(g) /\ Good(t)
  BY <1>1, <1>2, <1>3 DEF Good
<1>7. Follows(<<t>>, g)
  BY <1>5, <1>6, OneImage
<1>8. QED
  BY <1>6, <1>7 DEF g, t

\* One slot of the chest changed, and its row.
LEMMA SlotChanged ==
    ASSUME VInv, NEW s \in GuildBankSlots, NEW x \in Item \cup {Empty}, NEW g,
           g = [guild EXCEPT !.chest[s] = x]
    PROVE  Good(g) /\ Follows(<<SlotRow(Tables, s, g)>>, g)
<1> DEFINE chest == [guild.chest EXCEPT ![s] = x]
           c == [Tables.chest EXCEPT ![s] = x]
<1>1. /\ guild \in GuildState /\ Tables \in GuildState
      /\ \A r \in GuildBankSlots : Renumbered(Tables.chest[r], 0) = Renumbered(guild.chest[r], 0)
  BY TablesGood DEF Good
<1>2. /\ chest \in Chests /\ c \in Chests /\ chest[s] = x /\ c[s] = x
      /\ \A r \in GuildBankSlots \ {s} : chest[r] = guild.chest[r] /\ c[r] = Tables.chest[r]
  BY <1>1 DEF GuildState, Chests
<1>3. g = [guild EXCEPT !.chest = chest]
  OBVIOUS
<1>4. SlotRow(Tables, s, g) = [Tables EXCEPT !.chest[s] = g.chest[s]]
  BY DEF SlotRow
<1> HIDE DEF chest
<1>5. g.chest[s] = x
  BY <1>1, <1>2, <1>3 DEF GuildState, Chests
<1>6. SlotRow(Tables, s, g) = [Tables EXCEPT !.chest = c]
  BY <1>4, <1>5
<1> HIDE DEF c
<1>7. \A r \in GuildBankSlots : Renumbered(c[r], 0) = Renumbered(chest[r], 0)
  BY <1>1, <1>2
<1>8. QED
  BY <1>2, <1>3, <1>6, <1>7, ChestChanged

LEMMA PutItemKeeps ==
    ASSUME VInv, NEW p \in Players, NEW s \in Slots, NEW n \in Nat \ {0}, PutItem(p, s, n)
    PROVE  VInv'
<1> DEFINE item == bag[p][s]
           d == Least(FreeSlots)
           put == Smaller(n, item.count)
           x == [item EXCEPT !.count = put, !.objid = d]
           g == [guild EXCEPT !.chest[d] = x]
<1>1. item \in Item
  BY CarriedTypes DEF PutItem, Bags, BagsOn
<1>2. d \in GuildBankSlots /\ d \in Nat
  <2>1. FreeSlots \in SUBSET Nat
    BY VaultAssumption DEF VaultAssumption, FreeSlots, GuildBankSlots
  <2>2. QED
    BY <2>1, LeastOf DEF PutItem, FreeSlots
<1>3. put \in Nat \ {0}
  BY <1>1 DEF Smaller, Item
<1>4. guild' = g /\ Issue(<<SlotRow(Tables, d, g)>>) /\ UNCHANGED <<gold, clock>>
  BY DEF PutItem
<1>5. bag' = [bag EXCEPT ![p] = [bag[p] EXCEPT ![s] = Less(item, put)]]
  BY CarriedTypes DEF PutItem
<1> HIDE DEF item, d, put
<1>6. x \in Item
  BY <1>1, <1>2, <1>3 DEF Item
<1>7. Less(item, put) \in Item \cup {Empty}
  BY <1>1, <1>3, LessType
<1>8. [bag[p] EXCEPT ![s] = Less(item, put)] \in Bags
  BY <1>7, CarriedTypes DEF Bags, BagsOn
<1> HIDE DEF x
<1>9. Good(g) /\ Follows(<<SlotRow(Tables, d, g)>>, g)
  BY <1>2, <1>6, SlotChanged
<1> HIDE DEF g
<1>10. QED
  BY <1>4, <1>5, <1>8, <1>9, CarriedTypes, WriteKeeps DEF clock

LEMMA WithdrawItemKeeps ==
    ASSUME VInv, NEW p \in Players, NEW s \in GuildBankSlots, NEW n \in Nat \ {0},
           WithdrawItem(p, s, n)
    PROVE  VInv'
<1> DEFINE item == guild.chest[s]
           taken == Smaller(n, item.count)
           x == Less(item, taken)
           g == [guild EXCEPT !.chest[s] = x]
           b == AddUnits(bag[p], [y \in Slots |-> y], item.itemId, taken)
<1>1. item \in Item
  BY TablesGood DEF WithdrawItem, Good, GuildState
<1>2. taken \in Nat \ {0}
  BY <1>1 DEF Smaller, Item
<1>3. guild' = g /\ Issue(<<SlotRow(Tables, s, g)>>) /\ UNCHANGED <<gold, clock>>
  BY DEF WithdrawItem
<1>4. bag' = [bag EXCEPT ![p] = b]
  BY DEF WithdrawItem
<1> HIDE DEF item, taken
<1>5. x \in Item \cup {Empty}
  BY <1>1, <1>2, LessType
<1>6. b \in Bags
  <2>1. [y \in Slots |-> y] \in [Slots -> Nat] /\ item.itemId \in ItemIds /\ taken \in Nat
    BY <1>1, <1>2, SlotsAreNat DEF Item
  <2>2. QED
    BY <2>1, CarriedTypes, AddUnitsType
<1> HIDE DEF x, b
<1>7. Good(g) /\ Follows(<<SlotRow(Tables, s, g)>>, g)
  BY <1>5, SlotChanged
<1> HIDE DEF g
<1>8. QED
  BY <1>3, <1>4, <1>6, <1>7, CarriedTypes, WriteKeeps DEF clock

\* The rows exchange their places; in memory the objids follow, which Bare leaves out.
LEMMA MoveItemKeeps ==
    ASSUME VInv, NEW src \in GuildBankSlots, NEW dst \in GuildBankSlots, NEW p,
           MoveItem(p, src, dst)
    PROVE  VInv'
<1> DEFINE a == guild.chest[src]
           z == guild.chest[dst]
           chest == [guild.chest EXCEPT ![src] = Renumbered(z, src), ![dst] = Renumbered(a, dst)]
           c == [Tables.chest EXCEPT ![src] = Tables.chest[dst], ![dst] = Tables.chest[src]]
<1>1. /\ guild \in GuildState /\ Tables \in GuildState
      /\ \A r \in GuildBankSlots : Renumbered(Tables.chest[r], 0) = Renumbered(guild.chest[r], 0)
  BY TablesGood DEF Good
<1>2. src # dst /\ src \in Nat /\ dst \in Nat
  BY VaultAssumption DEF MoveItem, VaultAssumption, GuildBankSlots
<1>3. a \in Item \cup {Empty} /\ z \in Item \cup {Empty}
  BY <1>1 DEF GuildState
<1>4. /\ guild' = [guild EXCEPT !.chest = chest]
      /\ Issue(<<[Tables EXCEPT !.chest = c]>>)
      /\ UNCHANGED <<carried, clock>>
  BY <1>2 DEF MoveItem, RowsSwapped
<1> HIDE DEF a, z
<1>5. /\ Renumbered(z, src) \in Item \cup {Empty} /\ Renumbered(a, dst) \in Item \cup {Empty}
      /\ Renumbered(Renumbered(z, src), 0) = Renumbered(z, 0)
      /\ Renumbered(Renumbered(a, dst), 0) = Renumbered(a, 0)
  BY <1>2, <1>3, RenumberedType
<1>6. /\ chest \in Chests /\ c \in Chests
      /\ chest[src] = Renumbered(z, src) /\ chest[dst] = Renumbered(a, dst)
      /\ c[src] = Tables.chest[dst] /\ c[dst] = Tables.chest[src]
      /\ \A r \in GuildBankSlots \ {src, dst} : chest[r] = guild.chest[r] /\ c[r] = Tables.chest[r]
  BY <1>1, <1>2, <1>5 DEF GuildState, Chests
<1> HIDE DEF chest, c
<1>7. \A r \in GuildBankSlots : Renumbered(c[r], 0) = Renumbered(chest[r], 0)
  <2>1. TAKE r \in GuildBankSlots
  <2>2. CASE r = src
    BY <1>1, <1>5, <1>6, <2>2 DEF z
  <2>3. CASE r = dst
    BY <1>1, <1>5, <1>6, <2>3 DEF a
  <2>4. CASE r # src /\ r # dst
    BY <1>1, <1>6, <2>4
  <2>5. QED
    BY <2>2, <2>3, <2>4
<1> DEFINE g == [guild EXCEPT !.chest = chest]
           t == [Tables EXCEPT !.chest = c]
<1>8. Good(g) /\ Follows(<<t>>, g)
  BY <1>6, <1>7, ChestChanged
<1> HIDE DEF g
<1>9. Good(guild') /\ Follows(<<t>>, guild') /\ Issue(<<t>>)
  BY <1>4, <1>8 DEF g
<1> HIDE DEF t
<1>10. QED
  <2>1. /\ gold' \in [Players -> 0 .. MaxPurse] /\ bag' \in [Players -> Bags]
        /\ latch' \in [swept : BOOLEAN, sent : BOOLEAN] /\ hour' \in Hours /\ polled' \in BOOLEAN
    BY <1>4 DEF VInv, VaultTypeOK, carried, clock, Bags, BagsOn
  <2>2. QED
    BY <1>9, <2>1, WriteKeeps

LEMMA EnlistKeeps ==
    ASSUME VInv, NEW p \in Players, NEW member \in {None, NewMember}, Enlist(p, member)
    PROVE  VInv'
<1> DEFINE roll == [guild.roll EXCEPT ![p] = member]
           g == [guild EXCEPT !.roll = roll]
           t == [Tables EXCEPT !.roll = roll]
<1>1. /\ Good(guild) /\ Good(Tables) /\ guild \in GuildState /\ Tables \in GuildState
      /\ Tables.gold = guild.gold /\ Tables.pxp = guild.pxp /\ Tables.level = guild.level
      /\ Tables.roll = guild.roll
      /\ \A r \in GuildBankSlots : Renumbered(Tables.chest[r], 0) = Renumbered(guild.chest[r], 0)
  BY TablesGood DEF Good
<1>2. roll \in [Players -> Member \cup {None}]
  <2>1. member \in Member \cup {None}
    BY DEF Member, NewMember
  <2>2. QED
    BY <1>1, <2>1 DEF GuildState
<1>3. guild' = g /\ Issue(<<t>>) /\ UNCHANGED <<carried, clock>>
  BY <1>1 DEF Enlist
<1> HIDE DEF roll
<1>4. /\ g \in GuildState /\ g.gold = guild.gold /\ g.pxp = guild.pxp /\ g.level = guild.level
      /\ g.roll = roll /\ g.chest = guild.chest
  BY <1>1, <1>2 DEF GuildState
<1>5. /\ t \in GuildState /\ t.gold = Tables.gold /\ t.pxp = Tables.pxp /\ t.level = Tables.level
      /\ t.roll = roll /\ t.chest = Tables.chest
  BY <1>1, <1>2 DEF GuildState
<1> HIDE DEF g, t
<1>6. t.gold = g.gold /\ t.pxp = g.pxp /\ t.level = g.level /\ t.roll = g.roll
  BY <1>1, <1>4, <1>5
<1>7. Bare(t) = Bare(g)
  BY <1>1, <1>4, <1>5, <1>6, BareIs
<1>8. Good(g) /\ Good(t)
  BY <1>1, <1>4, <1>5 DEF Good
<1>9. Good(guild') /\ Follows(<<t>>, guild')
  BY <1>3, <1>7, <1>8, OneImage
<1>10. /\ gold' \in [Players -> 0 .. MaxPurse] /\ bag' \in [Players -> Bags]
       /\ latch' \in [swept : BOOLEAN, sent : BOOLEAN] /\ hour' \in Hours /\ polled' \in BOOLEAN
  BY <1>3 DEF VInv, VaultTypeOK, carried, clock, Bags, BagsOn
<1>11. QED
  BY <1>3, <1>9, <1>10, WriteKeeps

\* The images left once the first is written, or taken off.
LEMMA TailOf ==
    ASSUME NEW S, NEW q \in Seq(S), q # << >>
    PROVE  /\ Tail(q) \in Seq(S) /\ Len(Tail(q)) = Len(q) - 1 /\ Len(q) \in Nat \ {0}
           /\ \A i \in 1 .. Len(Tail(q)) : Tail(q)[i] = q[i + 1] /\ i + 1 \in 1 .. Len(q)
           /\ Len(q) # 1 => Tail(q) # << >> /\ Tail(q)[Len(Tail(q))] = q[Len(q)]
<1>1. /\ Tail(q) \in Seq(S) /\ Len(Tail(q)) = Len(q) - 1
      /\ \A i \in 1 .. Len(Tail(q)) : Tail(q)[i] = q[i + 1] /\ i + 1 \in 1 .. Len(q)
  OBVIOUS
<1>2. Len(q) \in Nat \ {0}
  OBVIOUS
<1>3. ASSUME Len(q) # 1
      PROVE  Tail(q) # << >> /\ Tail(q)[Len(Tail(q))] = q[Len(q)]
  <2>1. Len(Tail(q)) # 0 /\ Len(Tail(q)) \in 1 .. Len(Tail(q)) /\ Len(Tail(q)) + 1 = Len(q)
    BY <1>1, <1>2, <1>3
  <2>2. Tail(q) # << >>
    BY <2>1
  <2>3. Tail(q)[Len(Tail(q))] = q[Len(q)]
    BY <1>1, <2>1
  <2>4. QED
    BY <2>2, <2>3
<1>4. QED
  BY <1>1, <1>2, <1>3

------------------------------------------------------------------------------
(* The guild's bank: nothing is made or lost.                                *)

Cost(l) == SumFunction([j \in 1 .. l |-> GuildTable[j].penya])
Wages(g) == SumFunction([p \in Players |-> PayOf(g, p)])

\* The penya of purses c and guild g, and the units of k in bags b and chest of g.
Total(c, g) == SumFunction(c) + g.gold + Cost(g.level) + Wages(g)
InBags(b, k) == SumFunction([p \in Players |-> UnitsIn(b[p], k)])
Stock(b, g, k) == UnitsIn(g.chest, k) + InBags(b, k)

LEMMA LevelCosts ==
    ASSUME NEW l \in Levels
    PROVE  /\ Cost(l) \in Int
           /\ l + 1 \in Levels => Cost(l + 1) = Cost(l) + GuildTable[l + 1].penya
<1> DEFINE f(n) == [j \in 1 .. n |-> GuildTable[j].penya]
<1>1. l \in Nat /\ \A n \in Nat : IsFiniteSet(1 .. n)
  BY FS_Interval DEF Levels
<1>2. \A n \in Levels : \A j \in 1 .. n : f(n)[j] = GuildTable[j].penya /\ f(n)[j] \in Int
  <2>1. TAKE n \in Levels
  <2>2. \A j \in 1 .. n : j \in Levels
    BY DEF Levels
  <2>3. QED
    BY <2>2, LevelRows
<1>3. \A n \in Nat : Cost(n) = SumFunctionOnSet(f(n), 1 .. n)
  BY DEF Cost, SumFunction
<1> HIDE DEF f
<1>4. SumFunctionOnSet(f(l), 1 .. l) \in Int
  BY <1>1, <1>2, SumUnfolds
<1>5. ASSUME l + 1 \in Levels
      PROVE  Cost(l + 1) = Cost(l) + GuildTable[l + 1].penya
  <2> DEFINE S == 1 .. (l + 1)
             h == f(l + 1)
  <2>1. IsFiniteSet(S) /\ l + 1 \in S /\ \A j \in S : h[j] = GuildTable[j].penya /\ h[j] \in Int
    BY <1>1, <1>2, <1>5
  <2>2. Cost(l + 1) = SumFunctionOnSet(h, S)
    BY <1>1, <1>3
  <2>3. S \ {l + 1} = 1 .. l
    BY <1>1
  <2> HIDE DEF S, h
  <2>4. SumFunctionOnSet(h, S) = h[l + 1] + SumFunctionOnSet(h, S \ {l + 1})
    BY <2>1, SumUnfolds
  <2>5. SumFunctionOnSet(h, 1 .. l) = SumFunctionOnSet(f(l), 1 .. l)
    <3>1. \A j \in 1 .. l : h[j] = f(l)[j]
      BY <1>2, <2>1, <2>3
    <3>2. QED
      BY <1>1, <3>1, SumSame
  <2>6. Cost(l) = SumFunctionOnSet(f(l), 1 .. l)
    BY <1>1, <1>3
  <2>7. h[l + 1] = GuildTable[l + 1].penya /\ h[l + 1] \in Int
    BY <2>1
  <2>8. SumFunctionOnSet(h, S \ {l + 1}) = Cost(l)
    BY <2>3, <2>5, <2>6
  <2>9. Cost(l + 1) = GuildTable[l + 1].penya + Cost(l)
    BY <2>2, <2>4, <2>7, <2>8
  <2>10. Cost(l) \in Int
    BY <1>4, <2>6
  <2>11. QED
    BY <2>7, <2>9, <2>10
<1>6. QED
  BY <1>1, <1>3, <1>4, <1>5

LEMMA WagesType ==
    ASSUME NEW g \in GuildState
    PROVE  /\ \A p \in Players : PayOf(g, p) \in Nat
           /\ Wages(g) \in Nat
<1> DEFINE f == [p \in Players |-> PayOf(g, p)]
<1>1. ASSUME NEW p \in Players PROVE PayOf(g, p) \in Nat
  BY MemberTypes DEF PayOf, Member
<1>2. Wages(g) = SumFunctionOnSet(f, Players)
  BY DEF Wages, SumFunction
<1>3. \A p \in Players : f[p] \in Nat
  BY <1>1
<1> HIDE DEF f
<1>4. IsFiniteSet(Players)
  BY VaultAssumption DEF VaultAssumption
<1>5. QED
  BY <1>1, <1>2, <1>3, <1>4, SumNat

\* What the members have been paid is the same when each has been.
LEMMA WagesSame ==
    ASSUME NEW g \in GuildState, NEW h \in GuildState,
           \A p \in Players : PayOf(g, p) = PayOf(h, p)
    PROVE  Wages(g) = Wages(h)
<1>1. [p \in Players |-> PayOf(g, p)] = [p \in Players |-> PayOf(h, p)]
  OBVIOUS
<1>2. QED
  BY <1>1 DEF Wages

\* A member's pay does not depend on what it gave.
LEMMA GiveKeepsPay ==
    ASSUME NEW g \in GuildState, NEW h \in GuildState, NEW p \in Players,
           NEW n \in Int, g.roll[p] # None,
           h.roll = [g.roll EXCEPT ![p] = [g.roll[p] EXCEPT !.giveGold = n]]
    PROVE  Wages(h) = Wages(g)
<1>1. g.roll[p] \in Member
  BY MemberTypes
<1>2. /\ [g.roll[p] EXCEPT !.giveGold = n] \in Member
      /\ [g.roll[p] EXCEPT !.giveGold = n].pay = g.roll[p].pay
  BY <1>1 DEF Member
<1>3. [g.roll[p] EXCEPT !.giveGold = n] # None
  BY <1>2, MemberAssumption
<1>4. h.roll[p] = [g.roll[p] EXCEPT !.giveGold = n] /\ \A q \in Players \ {p} : h.roll[q] = g.roll[q]
  BY DEF GuildState
<1>5. \A q \in Players : PayOf(h, q) = PayOf(g, q)
  BY <1>2, <1>3, <1>4 DEF PayOf
<1>6. QED
  BY <1>5, WagesSame

\* A contribution is worth its penya to the guild, whatever level it buys.
LEMMA CreditedWorth ==
    ASSUME NEW g, Good(g), NEW p \in Players, g.roll[p] # None, NEW x \in Nat, NEW n \in Nat,
           g.gold + n <= MaxPool
    PROVE  LET c == Credited(g, p, x, n)
           IN  c.gold + Cost(c.level) + Wages(c) = g.gold + Cost(g.level) + Wages(g) + n
<1> DEFINE m == [g.roll[p] EXCEPT !.giveGold = g.roll[p].giveGold + n]
           roll == [g.roll EXCEPT ![p] = m]
           h == [g EXCEPT !.pxp = g.pxp + x, !.gold = g.gold + n, !.roll[p].giveGold = g.roll[p].giveGold + n]
           c == Leveled(h)
           l == GuildTable[h.level + 1]
<1>1. /\ g \in GuildState /\ g.gold \in Nat /\ g.pxp \in Nat /\ g.level \in Levels
      /\ g.roll[p] \in Member /\ g.roll[p].giveGold + n \in Int
  BY MemberTypes DEF Good, GuildState, Member
<1>2. h = [g EXCEPT !.pxp = g.pxp + x, !.gold = g.gold + n, !.roll = roll]
  BY <1>1 DEF GuildState
<1>3. roll \in [Players -> Member \cup {None}]
  <2>1. m \in Member
    BY <1>1 DEF Member
  <2> HIDE DEF m
  <2>2. QED
    BY <1>1, <2>1 DEF GuildState
<1>4. Credited(g, p, x, n) = c
  BY DEF Credited
<1> HIDE DEF h
<1>5. /\ h \in GuildState /\ h.gold = g.gold + n /\ h.level = g.level /\ h.roll = roll
      /\ h.pxp = g.pxp + x
  <2>1. g.gold + n \in Nat /\ g.pxp + x \in Nat
    BY <1>1
  <2> HIDE DEF roll
  <2>2. QED
    BY <1>1, <1>2, <1>3, <2>1 DEF GuildState
<1>6. Wages(h) = Wages(g) /\ Wages(g) \in Nat
  BY <1>1, <1>5, GiveKeepsPay, WagesType
<1>7. Cost(g.level) \in Int
  BY <1>1, LevelCosts
<1> HIDE DEF roll
<1>8. CASE c = h
  BY <1>1, <1>4, <1>5, <1>6, <1>7, <1>8
<1>9. CASE c # h
  <2>1. /\ h.level < Len(GuildTable)
        /\ c = [h EXCEPT !.level = h.level + 1, !.pxp = h.pxp - l.pxp, !.gold = h.gold - l.penya]
    BY <1>9 DEF Leveled
  <2>2. h.level + 1 \in Levels
    BY <1>1, <1>5, <2>1 DEF Levels
  <2>3. l.penya \in Nat
    BY <2>2, LevelRows
  <2>4. c.level = h.level + 1 /\ c.gold = h.gold - l.penya /\ c.roll = h.roll
    <3> HIDE DEF c, l
    <3>1. QED
      BY <1>5, <2>1 DEF GuildState
  <2>5. Wages(c) = Wages(h)
    BY <2>4 DEF Wages, PayOf
  <2>6. Cost(c.level) = Cost(h.level) + l.penya
    BY <1>1, <1>5, <2>2, <2>4, LevelCosts
  <2> HIDE DEF c, l
  <2>7. c.gold + Cost(c.level) + Wages(c) = g.gold + Cost(g.level) + Wages(g) + n
    BY <1>1, <1>5, <1>6, <1>7, <2>3, <2>4, <2>5, <2>6
  <2>8. QED
    BY <1>4, <2>7 DEF c
<1>10. QED
  BY <1>8, <1>9

\* Purses of which one has changed.
LEMMA PursesAfter ==
    ASSUME NEW c \in [Players -> 0 .. MaxPurse], NEW p \in Players, NEW n \in 0 .. MaxPurse
    PROVE  /\ SumFunction(c) \in Nat /\ SumFunction([c EXCEPT ![p] = n]) \in Nat
           /\ SumFunction([c EXCEPT ![p] = n]) - SumFunction(c) = n - c[p]
<1> DEFINE d == [c EXCEPT ![p] = n]
<1>1. IsFiniteSet(Players) /\ MaxPurse \in Nat
  BY VaultAssumption DEF VaultAssumption
<1>2. d \in [Players -> 0 .. MaxPurse] /\ d[p] = n /\ \A q \in Players \ {p} : c[q] = d[q]
  OBVIOUS
<1>3. SumFunction(c) = SumFunctionOnSet(c, Players) /\ SumFunction(d) = SumFunctionOnSet(d, Players)
  BY DEF SumFunction
<1> HIDE DEF d
<1>4. \A q \in Players : c[q] \in Nat /\ d[q] \in Nat
  BY <1>1, <1>2
<1>5. SumFunctionOnSet(c, Players) \in Nat /\ SumFunctionOnSet(d, Players) \in Nat
  BY <1>1, <1>4, SumNat
<1>6. SumFunctionOnSet(d, Players) - SumFunctionOnSet(c, Players) = d[p] - c[p]
  <2>1. \A q \in Players : c[q] \in Int /\ d[q] \in Int
    BY <1>4
  <2>2. QED
    BY <1>1, <1>2, <2>1, SumChanged
<1>7. QED
  BY <1>2, <1>3, <1>5, <1>6 DEF d

------------------------------------------------------------------------------
(* Units of an item in the chest and in the bags.                            *)

LEMMA BagUnits ==
    ASSUME NEW b \in Bags, NEW k
    PROVE  UnitsIn(b, k) = Held(b, k) /\ Held(b, k) \in Nat
<1>1. DOMAIN b = Slots
  BY DEF Bags, BagsOn
<1>2. UnitsIn(b, k) = Held(b, k)
  BY <1>1 DEF UnitsIn, Held
<1>3. QED
  BY <1>2, HeldType

\* A chest of which at most two slots have changed.
LEMMA ChestIs ==
    ASSUME NEW c \in Chests, NEW k
    PROVE  /\ UnitsIn(c, k) = SumFunctionOnSet([s \in GuildBankSlots |-> CountOf(c[s], k)], GuildBankSlots)
           /\ UnitsIn(c, k) \in Nat
           /\ \A s \in GuildBankSlots : CountOf(c[s], k) \in Nat
           /\ IsFiniteSet(GuildBankSlots)
<1> DEFINE f == [s \in GuildBankSlots |-> CountOf(c[s], k)]
<1>1. DOMAIN c = GuildBankSlots /\ \A s \in GuildBankSlots : c[s] \in Item \cup {Empty}
  BY DEF Chests
<1>2. UnitsIn(c, k) = SumFunctionOnSet(f, GuildBankSlots)
  BY <1>1 DEF UnitsIn, SumFunction
<1>3. \A s \in GuildBankSlots : f[s] \in Nat
  BY <1>1, CountType
<1>4. IsFiniteSet(GuildBankSlots)
  BY FS_Interval, VaultAssumption DEF GuildBankSlots, VaultAssumption
<1>5. \A s \in GuildBankSlots : CountOf(c[s], k) \in Nat
  BY <1>1, CountType
<1> HIDE DEF f
<1>6. SumFunctionOnSet(f, GuildBankSlots) \in Nat
  BY <1>3, <1>4, SumNat
<1>7. QED
  BY <1>2, <1>4, <1>5, <1>6 DEF f

LEMMA ChestAfter ==
    ASSUME NEW c \in Chests, NEW d \in Chests, NEW s \in GuildBankSlots,
           \A r \in GuildBankSlots \ {s} : c[r] = d[r], NEW k
    PROVE  UnitsIn(d, k) - UnitsIn(c, k) = CountOf(d[s], k) - CountOf(c[s], k)
<1> DEFINE f == [r \in GuildBankSlots |-> CountOf(c[r], k)]
           h == [r \in GuildBankSlots |-> CountOf(d[r], k)]
<1>1. /\ UnitsIn(c, k) = SumFunctionOnSet(f, GuildBankSlots)
      /\ UnitsIn(d, k) = SumFunctionOnSet(h, GuildBankSlots)
      /\ \A r \in GuildBankSlots : CountOf(c[r], k) \in Int /\ CountOf(d[r], k) \in Int
      /\ IsFiniteSet(GuildBankSlots)
  BY ChestIs
<1>2. /\ \A r \in GuildBankSlots : f[r] \in Int /\ h[r] \in Int
      /\ \A r \in GuildBankSlots \ {s} : f[r] = h[r]
      /\ f[s] = CountOf(c[s], k) /\ h[s] = CountOf(d[s], k)
  BY <1>1
<1> HIDE DEF f, h
<1>3. SumFunctionOnSet(h, GuildBankSlots) - SumFunctionOnSet(f, GuildBankSlots) = h[s] - f[s]
  BY <1>1, <1>2, SumChanged
<1>4. QED
  BY <1>1, <1>2, <1>3

LEMMA ChestMoved ==
    ASSUME NEW c \in Chests, NEW d \in Chests,
           NEW s \in GuildBankSlots, NEW z \in GuildBankSlots, s # z, NEW k,
           \A r \in GuildBankSlots \ {s, z} : c[r] = d[r],
           CountOf(d[s], k) = CountOf(c[z], k), CountOf(d[z], k) = CountOf(c[s], k)
    PROVE  UnitsIn(d, k) = UnitsIn(c, k)
<1> DEFINE f == [r \in GuildBankSlots |-> CountOf(c[r], k)]
           h == [r \in GuildBankSlots |-> CountOf(d[r], k)]
<1>1. /\ UnitsIn(c, k) = SumFunctionOnSet(f, GuildBankSlots)
      /\ UnitsIn(d, k) = SumFunctionOnSet(h, GuildBankSlots)
      /\ \A r \in GuildBankSlots : CountOf(c[r], k) \in Int /\ CountOf(d[r], k) \in Int
      /\ IsFiniteSet(GuildBankSlots)
  BY ChestIs
<1>2. /\ \A r \in GuildBankSlots : f[r] \in Int /\ h[r] \in Int
      /\ \A r \in GuildBankSlots \ {s, z} : f[r] = h[r]
      /\ f[s] = h[z] /\ f[z] = h[s]
  BY <1>1
<1> HIDE DEF f, h
<1>3. f[s] + f[z] = h[s] + h[z]
  BY <1>2
<1>4. SumFunctionOnSet(h, GuildBankSlots) = SumFunctionOnSet(f, GuildBankSlots)
  BY <1>1, <1>2, <1>3, SumMoved
<1>5. QED
  BY <1>1, <1>4

LEMMA BagsAfter ==
    ASSUME NEW b \in [Players -> Bags], NEW p \in Players, NEW c \in Bags, NEW k,
           NEW d, d = [b EXCEPT ![p] = c]
    PROVE  InBags(b, k) \in Nat /\ InBags(d, k) = InBags(b, k) + Held(c, k) - Held(b[p], k)
<1> DEFINE f == [q \in Players |-> UnitsIn(b[q], k)]
           h == [q \in Players |-> UnitsIn(d[q], k)]
<1>1. IsFiniteSet(Players)
  BY VaultAssumption DEF VaultAssumption
<1>2. d \in [Players -> Bags] /\ d[p] = c /\ \A q \in Players \ {p} : d[q] = b[q]
  OBVIOUS
<1>3. /\ \A q \in Players : f[q] \in Nat /\ h[q] \in Nat
      /\ \A q \in Players \ {p} : f[q] = h[q]
      /\ f[p] = Held(b[p], k) /\ h[p] = Held(c, k)
  <2>1. \A q \in Players : /\ UnitsIn(b[q], k) = Held(b[q], k) /\ Held(b[q], k) \in Nat
                           /\ UnitsIn(d[q], k) = Held(d[q], k) /\ Held(d[q], k) \in Nat
    BY <1>2, BagUnits
  <2>2. QED
    BY <1>2, <2>1
<1>4. SumFunction(f) = SumFunctionOnSet(f, Players) /\ SumFunction(h) = SumFunctionOnSet(h, Players)
  BY DEF SumFunction
<1> HIDE DEF f, h
<1>5. SumFunctionOnSet(f, Players) \in Nat /\ SumFunctionOnSet(h, Players) \in Nat
  BY <1>1, <1>3, SumNat
<1>6. SumFunctionOnSet(h, Players) - SumFunctionOnSet(f, Players) = h[p] - f[p]
  <2>1. \A q \in Players : f[q] \in Int /\ h[q] \in Int
    BY <1>3
  <2>2. QED
    BY <1>1, <1>3, <2>1, SumChanged
<1>7. h[p] \in Nat /\ f[p] \in Nat
  BY <1>3
<1>8. SumFunction(h) = SumFunction(f) + h[p] - f[p]
  BY <1>4, <1>5, <1>6, <1>7
<1>9. QED
  BY <1>3, <1>4, <1>5, <1>8 DEF f, h, InBags

------------------------------------------------------------------------------
(* The gems of a bag, one after the other.                                   *)

\* One step of GemsGiven.
Value(item) == IF item = Empty THEN 0 ELSE item.count * GemPxp[item.itemId]
GemStep(p, m, d) ==
    LET pxp == Value(bag[p][m - 1])
        g == Credited(d.g, p, pxp, 0)
    IN  IF pxp > 0 /\ CanContribute(d.g, p, pxp, 0)
        THEN [g |-> g, b |-> [d.b EXCEPT ![m - 1] = Empty],
              rows |-> d.rows \o CreditRows(d.rows[Len(d.rows)], p, g)]
        ELSE d
NothingGiven(p) == [g |-> guild, b |-> bag[p], rows |-> <<Tables>>]
Giving(f, p, j) ==
    f = [m \in 0 .. j |-> IF m = 0 THEN NothingGiven(p) ELSE GemStep(p, m, f[m - 1])]

LEMMA GemsDefined ==
    ASSUME NEW p, NEW n \in Nat
    PROVE  \E f : Giving(f, p, n)
<1> DEFINE good == {j \in 0 .. n : \E f : Giving(f, p, j)}
<1>1. 0 \in good
  <2>1. Giving([m \in 0 .. 0 |-> NothingGiven(p)], p, 0)
    BY DEF Giving
  <2>2. QED
    BY <2>1
<1>2. ASSUME NEW j \in 1 .. n, j - 1 \in good PROVE j \in good
  <2>1. PICK g : Giving(g, p, j - 1)
    BY <1>2
  <2> DEFINE x == GemStep(p, j, g[j - 1])
             h == [m \in 0 .. j |-> IF m = j THEN x ELSE g[m]]
  <2>2. \A m \in 0 .. (j - 1) : g[m] = IF m = 0 THEN NothingGiven(p) ELSE GemStep(p, m, g[m - 1])
    BY <2>1 DEF Giving
  <2> HIDE DEF x
  <2>3. /\ h[j] = x /\ \A m \in 0 .. (j - 1) : h[m] = g[m]
        /\ \A m \in 0 .. j : m # 0 => m - 1 \in 0 .. (j - 1)
        /\ h = [m \in 0 .. j |-> h[m]]
        /\ j # 0 /\ j - 1 \in 0 .. (j - 1)
    OBVIOUS
  <2> HIDE DEF h
  <2>4. ASSUME NEW m \in 0 .. j
        PROVE  h[m] = IF m = 0 THEN NothingGiven(p) ELSE GemStep(p, m, h[m - 1])
    <3>1. CASE m = j
      BY <2>3, <3>1 DEF x
    <3>2. CASE m # j
      <4>1. m \in 0 .. (j - 1)
        BY <3>2
      <4>2. QED
        BY <2>2, <2>3, <4>1
    <3>3. QED
      BY <3>1, <3>2
  <2>5. Giving(h, p, j)
    BY <2>3, <2>4 DEF Giving
  <2>6. QED
    BY <2>5
<1>3. n \in good
  <2> HIDE DEF good
  <2>1. QED
    BY <1>1, <1>2, UpTo
<1>4. QED
  BY <1>3

\* What holds of the guild, the bag and the images after any number of slots.
GivenRight(p, d) ==
    /\ d.b \in Bags
    /\ d.rows \in Seq(GuildState) /\ d.rows # << >>
    /\ \A i \in 1 .. Len(d.rows) : Good(d.rows[i])
    /\ Good(d.g) /\ d.g.roll[p] # None
    /\ Bare(d.rows[Len(d.rows)]) = Bare(d.g)
    /\ Len(d.rows) = 1 => d.b = bag[p]
    /\ d.g.chest = guild.chest
    /\ d.g.gold + Cost(d.g.level) + Wages(d.g) = guild.gold + Cost(guild.level) + Wages(guild)
    /\ \A s \in Slots : d.b[s] # bag[p][s] =>
          d.b[s] = Empty /\ bag[p][s] # Empty /\ GemPxp[bag[p][s].itemId] # 0

LEMMA GemStepRight ==
    ASSUME VInv, NEW p \in Players, NEW m \in 1 .. BagSize, NEW d, GivenRight(p, d)
    PROVE  GivenRight(p, GemStep(p, m, d))
<1> DEFINE pxp == Value(bag[p][m - 1])
           g == Credited(d.g, p, pxp, 0)
           last == d.rows[Len(d.rows)]
           new == CreditRows(last, p, g)
           rows == d.rows \o new
           b == [d.b EXCEPT ![m - 1] = Empty]
           e == [g |-> g, b |-> b, rows |-> rows]
<1>1. CASE ~ (pxp > 0 /\ CanContribute(d.g, p, pxp, 0))
  BY <1>1 DEF GemStep
<1>2. CASE pxp > 0 /\ CanContribute(d.g, p, pxp, 0)
  <2>1. GemStep(p, m, d) = e
    BY <1>2 DEF GemStep
  <2>2. /\ pxp \in Nat
        /\ bag[p][m - 1] # Empty /\ GemPxp[bag[p][m - 1].itemId] # 0
    <3>1. bag[p][m - 1] \in Item \cup {Empty}
      BY CarriedTypes, BagAssumption DEF Bags, BagsOn, Slots, BagAssumption
    <3>2. CASE bag[p][m - 1] = Empty
      BY <1>2, <3>2 DEF Value
    <3>3. CASE bag[p][m - 1] # Empty
      <4> DEFINE item == bag[p][m - 1]
      <4>1. item.count \in Nat /\ GemPxp[item.itemId] \in Nat
        BY <3>1, <3>3, VaultAssumption DEF Item, VaultAssumption
      <4>2. pxp = item.count * GemPxp[item.itemId]
        BY <3>3 DEF Value
      <4>3. pxp > 0
        BY <1>2
      <4> HIDE DEF item, pxp
      <4>4. pxp \in Nat /\ GemPxp[item.itemId] # 0
        BY <4>1, <4>2, <4>3
      <4>5. QED
        BY <3>3, <4>4 DEF item
    <3>4. QED
      BY <3>2, <3>3
  <2> HIDE DEF pxp
  <2>3. /\ Good(d.g) /\ d.g.roll[p] # None /\ d.g.gold + 0 <= MaxPool
        /\ Len(d.rows) \in 1 .. Len(d.rows) /\ Good(last) /\ Bare(last) = Bare(d.g)
    BY DEF GivenRight, Good, GuildState
  <2>4. /\ Good(g) /\ g.roll[p] # None /\ g.chest = d.g.chest
        /\ \A q \in Players \ {p} : g.roll[q] = d.g.roll[q]
    BY <2>2, <2>3, CreditedGood
  <2>5. g.gold + Cost(g.level) + Wages(g) = guild.gold + Cost(guild.level) + Wages(guild)
    <3>1. g.gold + Cost(g.level) + Wages(g) = d.g.gold + Cost(d.g.level) + Wages(d.g) + 0
      <4> DEFINE h == d.g
      <4>1. Good(h) /\ h.roll[p] # None /\ h.gold + 0 <= MaxPool
        BY <2>3
      <4> HIDE DEF h
      <4>2. LET c == Credited(h, p, pxp, 0)
            IN  c.gold + Cost(c.level) + Wages(c) = h.gold + Cost(h.level) + Wages(h) + 0
        BY <2>2, <4>1, CreditedWorth
      <4>3. QED
        BY <4>2 DEF h
    <3>2. d.g.gold \in Int /\ Cost(d.g.level) \in Int /\ Wages(d.g) \in Int
      <4> DEFINE h == d.g
      <4>1. h \in GuildState
        BY <2>3 DEF Good
      <4> HIDE DEF h
      <4>2. h.gold \in Int /\ h.level \in Levels
        BY <4>1 DEF GuildState
      <4>3. h.gold \in Int /\ Cost(h.level) \in Int /\ Wages(h) \in Int
        BY <4>1, <4>2, LevelCosts, WagesType
      <4>4. QED
        BY <4>3 DEF h
    <3> HIDE DEF g
    <3>3. QED
      BY <3>1, <3>2 DEF GivenRight
  <2> HIDE DEF g, last
  <2>6. Follows(new, g)
    BY <2>3, <2>4, CreditRowsFollow
  <2> HIDE DEF new
  <2>7. /\ d.rows \in Seq(GuildState) /\ d.rows # << >>
        /\ new \in Seq(GuildState) /\ new # << >>
        /\ \A i \in 1 .. Len(d.rows) : Good(d.rows[i])
        /\ \A i \in 1 .. Len(new) : Good(new[i])
        /\ Bare(new[Len(new)]) = Bare(g)
    BY <2>6 DEF GivenRight, Follows
  <2>8. /\ rows \in Seq(GuildState) /\ rows # << >> /\ Len(rows) = Len(d.rows) + Len(new)
        /\ \A i \in 1 .. Len(rows) :
              rows[i] = IF i <= Len(d.rows) THEN d.rows[i] ELSE new[i - Len(d.rows)]
        /\ rows[Len(rows)] = new[Len(new)]
        /\ Len(rows) # 1 /\ Len(d.rows) \in Nat /\ Len(new) \in Nat
    BY <2>7
  <2> HIDE DEF rows
  <2>9. \A i \in 1 .. Len(rows) : Good(rows[i])
    <3>1. TAKE i \in 1 .. Len(rows)
    <3>2. CASE i <= Len(d.rows)
      BY <2>7, <2>8, <3>2
    <3>3. CASE ~ (i <= Len(d.rows))
      <4>1. i - Len(d.rows) \in 1 .. Len(new)
        BY <2>8, <3>3
      <4>2. QED
        BY <2>7, <2>8, <3>3, <4>1
    <3>4. QED
      BY <3>2, <3>3
  <2>10. b \in Bags /\ \A s \in Slots : b[s] # bag[p][s] =>
                       b[s] = Empty /\ bag[p][s] # Empty /\ GemPxp[bag[p][s].itemId] # 0
    <3>1. /\ d.b \in [Slots -> Item \cup {Empty}]
          /\ \A s \in Slots : d.b[s] # bag[p][s] =>
                d.b[s] = Empty /\ bag[p][s] # Empty /\ GemPxp[bag[p][s].itemId] # 0
      BY DEF GivenRight, Bags, BagsOn
    <3>2. /\ b \in [Slots -> Item \cup {Empty}]
          /\ \A s \in Slots : b[s] = IF s = m - 1 THEN Empty ELSE d.b[s]
      BY <3>1
    <3> HIDE DEF b
    <3>3. QED
      BY <2>2, <3>1, <3>2 DEF Bags, BagsOn
  <2> HIDE DEF b
  <2>11. e.g = g /\ e.b = b /\ e.rows = rows
    OBVIOUS
  <2> HIDE DEF e
  <2>12. g.chest = guild.chest
    BY <2>4 DEF GivenRight
  <2>13. GivenRight(p, e)
    BY <2>4, <2>5, <2>7, <2>8, <2>9, <2>10, <2>11, <2>12 DEF GivenRight
  <2>14. QED
    BY <2>1, <2>13
<1>3. QED
  BY <1>1, <1>2

LEMMA GemsRight ==
    ASSUME VInv, NEW p \in Players, IsMember(p)
    PROVE  GivenRight(p, GemsGiven(p))
<1> DEFINE done == CHOOSE f : Giving(f, p, BagSize)
           right == {m \in 0 .. BagSize : GivenRight(p, done[m])}
<1>1. BagSize \in Nat
  BY BagAssumption DEF BagAssumption
<1>2. Giving(done, p, BagSize)
  <2>1. \E f : Giving(f, p, BagSize)
    BY <1>1, GemsDefined
  <2>2. QED
    BY <2>1
<1>3. GemsGiven(p) = done[BagSize]
  BY DEF GemsGiven, Giving, GemStep, NothingGiven, Value
<1> HIDE DEF done
<1>4. \A m \in 0 .. BagSize : done[m] = IF m = 0 THEN NothingGiven(p) ELSE GemStep(p, m, done[m - 1])
  BY <1>2 DEF Giving
<1>5. 0 \in right
  <2>1. GivenRight(p, NothingGiven(p))
    <3>1. /\ <<Tables>> \in Seq(GuildState) /\ <<Tables>> # << >> /\ Len(<<Tables>>) = 1
          /\ \A i \in 1 .. Len(<<Tables>>) : Good(<<Tables>>[i])
      BY TablesGood DEF Good
    <3>2. Bare(Tables) = Bare(guild)
      BY DEF VInv, StoredAsLive
    <3>3. QED
      BY <3>1, <3>2, TablesGood, CarriedTypes DEF GivenRight, NothingGiven, IsMember
  <2>2. QED
    BY <1>1, <1>4, <2>1
<1>6. ASSUME NEW m \in 1 .. BagSize, m - 1 \in right PROVE m \in right
  <2>1. m \in 0 .. BagSize /\ m # 0
    OBVIOUS
  <2>2. QED
    BY <1>4, <1>6, <2>1, GemStepRight
<1>7. BagSize \in right
  <2> HIDE DEF right
  <2>1. QED
    BY <1>1, <1>5, <1>6, UpTo
<1>8. QED
  BY <1>3, <1>7

LEMMA ContributeGemsKeeps ==
    ASSUME VInv, NEW p \in Players, ContributeGems(p)
    PROVE  VInv'
<1> DEFINE d == GemsGiven(p)
           images == Tail(d.rows)
<1>1. GivenRight(p, d)
  BY GemsRight DEF ContributeGems
<1>2. /\ d.b # bag[p] /\ guild' = d.g /\ bag' = [bag EXCEPT ![p] = d.b]
      /\ Issue(images) /\ UNCHANGED <<gold, clock>>
  BY DEF ContributeGems
<1> HIDE DEF d, images
<1>3. d.rows \in Seq(GuildState) /\ d.rows # << >> /\ Len(d.rows) # 1
  BY <1>1, <1>2 DEF GivenRight
<1>4. /\ images \in Seq(GuildState) /\ images # << >>
      /\ \A i \in 1 .. Len(images) : images[i] = d.rows[i + 1] /\ i + 1 \in 1 .. Len(d.rows)
      /\ images[Len(images)] = d.rows[Len(d.rows)]
  BY <1>3, TailOf DEF images
<1>5. Follows(images, guild') /\ Good(guild')
  BY <1>1, <1>2, <1>4 DEF Follows, GivenRight
<1>6. bag' \in [Players -> Bags]
  BY <1>1, <1>2, CarriedTypes DEF GivenRight
<1>7. QED
  BY <1>2, <1>5, <1>6, CarriedTypes, WriteKeeps DEF clock

------------------------------------------------------------------------------
(* The payroll, the clock, the writes and the process.                       *)

\* The members paid are some of the players, and what they are paid is a number.
LEMMA PayrollType ==
    ASSUME NEW g
    PROVE  Paid(g) \subseteq Players /\ Payroll(g) \in Nat
<1>1. Paid(g) \subseteq Players
  BY DEF Paid
<1>2. IsFiniteSet(Paid(g))
  BY <1>1, VaultAssumption, FS_Subset DEF VaultAssumption
<1>3. \A p \in Paid(g) : Salary[p] \in Nat
  BY <1>1, VaultAssumption DEF VaultAssumption
<1>4. SumFunctionOnSet(Salary, Paid(g)) \in Nat
  BY <1>2, <1>3, SumNat
<1>5. QED
  BY <1>1, <1>4 DEF Payroll

\* The members' counters are written first, the pool after them.
LEMMA PayKeeps ==
    ASSUME VInv, Pay, UNCHANGED <<carried, hour>>, polled' = TRUE,
           latch' \in [swept : BOOLEAN, sent : BOOLEAN]
    PROVE  VInv'
<1> DEFINE roll == [p \in Players |-> IF p \in Paid(guild)
                                      THEN [guild.roll[p] EXCEPT !.pay = guild.roll[p].pay + Salary[p]]
                                      ELSE guild.roll[p]]
           left == guild.gold - Payroll(guild)
           g == [guild EXCEPT !.gold = left, !.roll = roll]
           rows == [p \in Players |-> IF p \in Paid(guild) /\ Tables.roll[p] # None
                                      THEN g.roll[p] ELSE Tables.roll[p]]
           t == [Tables EXCEPT !.roll = rows]
           u == [t EXCEPT !.gold = g.gold, !.pxp = g.pxp, !.level = g.level]
<1>1. /\ Good(guild) /\ Good(Tables) /\ guild \in GuildState /\ Tables \in GuildState
      /\ Tables.gold = guild.gold /\ Tables.pxp = guild.pxp /\ Tables.level = guild.level
      /\ Tables.roll = guild.roll
      /\ \A r \in GuildBankSlots : Renumbered(Tables.chest[r], 0) = Renumbered(guild.chest[r], 0)
  BY TablesGood DEF Good
<1>2. roll \in [Players -> Member \cup {None}]
  <2>1. ASSUME NEW p \in Players
        PROVE  (IF p \in Paid(guild)
                THEN [guild.roll[p] EXCEPT !.pay = guild.roll[p].pay + Salary[p]]
                ELSE guild.roll[p]) \in Member \cup {None}
    <3>1. CASE p \in Paid(guild)
      <4>1. guild.roll[p] \in Member /\ Salary[p] \in Nat
        BY <1>1, <3>1, MemberTypes, VaultAssumption DEF Paid, VaultAssumption
      <4>2. [guild.roll[p] EXCEPT !.pay = guild.roll[p].pay + Salary[p]] \in Member
        BY <4>1 DEF Member
      <4>3. QED
        BY <3>1, <4>2
    <3>2. CASE p \notin Paid(guild)
      BY <1>1, <3>2 DEF GuildState
    <3>3. QED
      BY <3>1, <3>2
  <2>2. QED
    BY <2>1
<1>3. AfterPay(guild) = g
  BY DEF AfterPay
<1>4. left \in Nat /\ left <= MaxPool
  <2>1. Payroll(guild) \in Nat /\ Payroll(guild) <= guild.gold
    BY PayrollType DEF Pay, Pays
  <2>2. guild.gold \in Nat /\ guild.gold <= MaxPool /\ MaxPool \in Nat
    BY <1>1, VaultAssumption DEF Good, GuildState, VaultAssumption
  <2>3. QED
    BY <2>1, <2>2
<1>5. rows = [p \in Players |-> IF p \in Paid(guild) /\ guild.roll[p] # None
                                THEN g.roll[p] ELSE guild.roll[p]]
  BY <1>1
<1>6. Issue(<<t, u>>) /\ guild' = g
  BY <1>3 DEF Pay, MemberRows, GuildRow
<1>7. \A p \in Players : p \notin Paid(guild) => roll[p] = guild.roll[p]
  OBVIOUS
<1>8. \A p \in Players : p \in Paid(guild) => guild.roll[p] # None
  BY DEF Paid
<1> HIDE DEF roll, left
<1>9. /\ g \in GuildState /\ g.gold = left /\ g.pxp = guild.pxp /\ g.level = guild.level
      /\ g.roll = roll /\ g.chest = guild.chest
  BY <1>1, <1>2, <1>4 DEF GuildState
<1> HIDE DEF g
<1>10. rows = roll
  <2>1. roll = [p \in Players |-> roll[p]]
    BY <1>2
  <2>2. \A p \in Players :
           (IF p \in Paid(guild) /\ guild.roll[p] # None THEN g.roll[p] ELSE guild.roll[p]) = roll[p]
    BY <1>7, <1>8, <1>9
  <2>3. QED
    BY <1>5, <2>1, <2>2
<1> HIDE DEF rows
<1>11. /\ t \in GuildState /\ t.gold = guild.gold /\ t.pxp = guild.pxp /\ t.level = guild.level
       /\ t.roll = roll /\ t.chest = Tables.chest
  BY <1>1, <1>2, <1>10 DEF GuildState
<1> HIDE DEF t
<1>12. /\ u \in GuildState /\ u.gold = left /\ u.pxp = guild.pxp /\ u.level = guild.level
       /\ u.roll = roll /\ u.chest = Tables.chest
  BY <1>1, <1>4, <1>9, <1>11 DEF GuildState
<1> HIDE DEF u
<1>13. u.gold = g.gold /\ u.pxp = g.pxp /\ u.level = g.level /\ u.roll = g.roll
  BY <1>9, <1>12
<1>14. Bare(u) = Bare(g)
  BY <1>1, <1>9, <1>12, <1>13, BareIs
<1>15. Good(g) /\ Good(t) /\ Good(u)
  BY <1>1, <1>4, <1>9, <1>11, <1>12 DEF Good
<1>16. Good(guild') /\ Follows(<<t, u>>, guild')
  BY <1>6, <1>14, <1>15, TwoImages
<1>17. /\ gold' \in [Players -> 0 .. MaxPurse] /\ bag' \in [Players -> Bags]
       /\ hour' \in Hours /\ polled' \in BOOLEAN
  BY DEF VInv, VaultTypeOK, carried, Bags, BagsOn
<1>18. QED
  BY <1>6, <1>16, <1>17, WriteKeeps

\* Nothing but the clock moves.
LEMMA ClockKeeps ==
    ASSUME VInv, UNCHANGED <<carried, guild, disk>>,
           latch' \in [swept : BOOLEAN, sent : BOOLEAN], hour' \in Hours, polled' \in BOOLEAN
    PROVE  VInv'
<1>1. VaultTypeOK'
  BY DEF VInv, VaultTypeOK, carried
<1>2. AllGood' /\ StoredAsLive'
  BY DEF VInv, AllGood, Good, StoredAsLive, Tables, Bare
<1>3. QED
  BY <1>1, <1>2 DEF VInv

LEMMA PollKeeps == ASSUME VInv, Poll PROVE VInv'
<1>1. latch' \in [swept : BOOLEAN, sent : BOOLEAN]
  <2>1. latch \in [swept : BOOLEAN, sent : BOOLEAN] /\ Pays(guild) \in BOOLEAN
    BY DEF VInv, VaultTypeOK, Pays
  <2>2. Latched(Pays(guild)) \in [swept : BOOLEAN, sent : BOOLEAN]
    <3>1. (latch.sent \/ Pays(guild)) \in BOOLEAN
      OBVIOUS
    <3>2. QED
      BY <3>1 DEF Latched
  <2>3. Unlatched \in [swept : BOOLEAN, sent : BOOLEAN]
    BY DEF Unlatched
  <2>4. QED
    BY <2>1, <2>2, <2>3 DEF Poll
<1>2. UNCHANGED <<carried, hour>> /\ polled' = TRUE /\ hour' \in Hours /\ polled' \in BOOLEAN
  BY DEF Poll, VInv, VaultTypeOK
<1>3. CASE Pay
  BY <1>1, <1>2, <1>3, PayKeeps
<1>4. CASE NoPay
  BY <1>1, <1>2, <1>4, ClockKeeps DEF NoPay
<1>5. QED
  BY <1>3, <1>4 DEF Poll

LEMMA NextHourKeeps == ASSUME VInv, NextHour PROVE VInv'
<1>1. hour \in Hours /\ latch \in [swept : BOOLEAN, sent : BOOLEAN]
  BY DEF VInv, VaultTypeOK
<1>2. hour' = (IF hour = 22 THEN 20 ELSE hour + 1) /\ latch' = latch /\ polled' \in BOOLEAN
  BY DEF NextHour, SALARY_RESET_HOUR
<1>3. hour' \in Hours
  BY <1>1, <1>2 DEF Hours, SALARY_RESET_HOUR
<1>4. QED
  BY <1>1, <1>2, <1>3, ClockKeeps DEF NextHour

LEMMA VaultFlushKeeps == ASSUME VInv, Flush PROVE VInv'
<1>1. /\ Len(disk) > 1 /\ disk' = Tail(disk) /\ UNCHANGED <<carried, guild, clock>>
      /\ disk \in Seq(GuildState) /\ disk # << >>
  BY DEF Flush, VInv, VaultTypeOK
<1>2. /\ disk' \in Seq(GuildState) /\ disk' # << >> /\ Tables' = Tables
      /\ \A i \in 1 .. Len(disk') : disk'[i] = disk[i + 1] /\ i + 1 \in 1 .. Len(disk)
  BY <1>1, TailOf DEF Tables
<1>3. AllGood'
  BY <1>2 DEF VInv, AllGood, Good
<1>4. VaultTypeOK'
  BY <1>1, <1>2 DEF VInv, VaultTypeOK, carried, clock
<1>5. StoredAsLive'
  BY <1>1, <1>2 DEF VInv, StoredAsLive, Bare
<1>6. QED
  BY <1>3, <1>4, <1>5 DEF VInv

LEMMA VaultCrashKeeps == ASSUME VInv, VaultCrash PROVE VInv'
<1> DEFINE t == disk[1]
<1>1. Good(t) /\ Head(disk) = t
  <2>1. 1 \in 1 .. Len(disk) /\ Head(disk) = t
    BY DEF VInv, VaultTypeOK
  <2>2. QED
    BY <2>1 DEF VInv, AllGood
<1>2. /\ guild' = t /\ disk' = <<t>> /\ UNCHANGED <<carried, hour, polled>> /\ latch' = Unlatched
  BY <1>1 DEF VaultCrash
<1> HIDE DEF t
<1>3. /\ disk' \in Seq(GuildState) /\ disk' # << >> /\ Len(disk') = 1 /\ disk'[1] = t
  BY <1>1, <1>2 DEF Good
<1>4. AllGood'
  BY <1>1, <1>3 DEF AllGood, Good
<1>5. StoredAsLive'
  BY <1>2, <1>3 DEF StoredAsLive, Tables, Bare
<1>6. VaultTypeOK'
  BY <1>1, <1>2, <1>3 DEF VInv, VaultTypeOK, carried, Unlatched, Good
<1>7. QED
  BY <1>4, <1>5, <1>6 DEF VInv

LEMMA VaultInitKeeps == VaultInit => VInv
<1> SUFFICES ASSUME VaultInit PROVE VInv
  OBVIOUS
<1>1. disk = <<guild>> /\ Good(guild) /\ guild \in GuildState
  BY DEF VaultInit, Good
<1>2. /\ disk \in Seq(GuildState) /\ disk # << >> /\ Len(disk) = 1 /\ disk[1] = guild
  BY <1>1
<1>3. AllGood
  BY <1>1, <1>2 DEF AllGood
<1>4. StoredAsLive
  BY <1>2 DEF StoredAsLive, Tables
<1>5. VaultTypeOK
  <2>1. latch \in [swept : BOOLEAN, sent : BOOLEAN] /\ hour \in Hours /\ polled \in BOOLEAN
    <3>1. latch = Unlatched /\ hour = 20 /\ polled = FALSE
      BY DEF VaultInit
    <3>2. latch \in [swept : BOOLEAN, sent : BOOLEAN]
      BY <3>1 DEF Unlatched
    <3>3. hour \in Hours
      BY <3>1 DEF Hours, SALARY_RESET_HOUR
    <3>4. QED
      BY <3>1, <3>2, <3>3
  <2>2. /\ gold \in [Players -> 0 .. MaxPurse]
        /\ bag \in [Players -> [Slots -> Item \cup {Empty}]]
        /\ guild \in GuildState /\ guild.gold <= MaxPool
    BY DEF VaultInit
  <2>3. QED
    BY <1>2, <2>1, <2>2 DEF VaultTypeOK
<1>6. QED
  BY <1>3, <1>4, <1>5 DEF VInv

LEMMA VaultStep == VInv /\ [VaultNext]_vaultVars => VInv'
<1> SUFFICES ASSUME VInv, [VaultNext]_vaultVars PROVE VInv'
  OBVIOUS
<1>1. MaxPurse \in Nat /\ MaxStack \in Nat
  BY VaultAssumption, BagAssumption DEF VaultAssumption, BagAssumption
<1>2. ASSUME BankStep PROVE VInv'
  <2>1. PICK p \in Players :
           \/ \E n \in 1 .. MaxPurse : ContributePenya(p, n) \/ WithdrawPenya(p, n)
           \/ ContributeGems(p)
           \/ \E n \in 1 .. MaxStack :
                 \/ \E s \in Slots : PutItem(p, s, n)
                 \/ \E s \in GuildBankSlots : WithdrawItem(p, s, n)
           \/ \E src, dst \in GuildBankSlots : MoveItem(p, src, dst)
    BY <1>2 DEF BankStep
  <2>2. ASSUME NEW n \in 1 .. MaxPurse, ContributePenya(p, n) PROVE VInv'
    BY <1>1, <2>2, ContributePenyaKeeps
  <2>3. ASSUME NEW n \in 1 .. MaxPurse, WithdrawPenya(p, n) PROVE VInv'
    BY <1>1, <2>3, WithdrawPenyaKeeps
  <2>4. ASSUME NEW n \in 1 .. MaxStack, NEW s \in Slots, PutItem(p, s, n) PROVE VInv'
    BY <1>1, <2>4, PutItemKeeps
  <2>5. ASSUME NEW n \in 1 .. MaxStack, NEW s \in GuildBankSlots, WithdrawItem(p, s, n) PROVE VInv'
    BY <1>1, <2>5, WithdrawItemKeeps
  <2>6. ASSUME NEW src \in GuildBankSlots, NEW dst \in GuildBankSlots, MoveItem(p, src, dst)
        PROVE  VInv'
    BY <2>6, MoveItemKeeps
  <2>7. QED
    BY <2>1, <2>2, <2>3, <2>4, <2>5, <2>6, ContributeGemsKeeps
<1>3. ASSUME RosterStep PROVE VInv'
  BY <1>3, EnlistKeeps DEF RosterStep
<1>4. ASSUME UNCHANGED vaultVars PROVE VInv'
  <2>1. UNCHANGED <<carried, guild, disk>> /\ UNCHANGED clock
    BY <1>4 DEF vaultVars
  <2>2. latch' \in [swept : BOOLEAN, sent : BOOLEAN] /\ hour' \in Hours /\ polled' \in BOOLEAN
    BY <2>1 DEF VInv, VaultTypeOK, clock
  <2>3. QED
    BY <2>1, <2>2, ClockKeeps
<1>5. QED
  BY <1>2, <1>3, <1>4, PollKeeps, NextHourKeeps, VaultFlushKeeps, VaultCrashKeeps DEF VaultNext

\* Pool, purses and chest keep their types and their caps, and once the writes under
\* way are applied the tables hold what memory holds: for every order in which the
\* handlers of the bank, the roster and the payroll write, and every kill.
THEOREM TablesFollowTheGuild == VaultSpec => []VaultInv
<1>1. VaultSpec => []VInv
  BY VaultInitKeeps, VaultStep, PTL DEF VaultSpec
<1>2. VInv => VaultInv
  BY DEF VInv, VaultInv
<1>3. QED
  BY <1>1, <1>2, PTL

\* The payroll runs at 21 h, and once: whoever polls, and whatever else happens.
THEOREM PayrollOncePerEvening == VaultSpec => PaidOncePerEvening
<1>1. [VaultNext]_vaultVars =>
        [/\ Poll /\ guild' # guild => hour = SALARY_PAY_HOUR /\ ~ latch.sent /\ latch'.sent
         /\ latch.sent /\ ~ latch'.sent => hour = SALARY_RESET_HOUR \/ VaultCrash]_vaultVars
  <2> SUFFICES ASSUME VaultNext, ~ (UNCHANGED vaultVars)
               PROVE  /\ Poll /\ guild' # guild =>
                            hour = SALARY_PAY_HOUR /\ ~ latch.sent /\ latch'.sent
                      /\ latch.sent /\ ~ latch'.sent =>
                            hour = SALARY_RESET_HOUR \/ VaultCrash
    OBVIOUS
  <2>1. ASSUME Poll, guild' # guild
        PROVE  hour = SALARY_PAY_HOUR /\ ~ latch.sent /\ latch'.sent
    <3>1. Pay
      BY <2>1 DEF Poll, NoPay
    <3>2. Due /\ Pays(guild)
      BY <3>1 DEF Pay
    <3>3. latch' = Latched(Pays(guild))
      BY <2>1, <3>2 DEF Poll
    <3>4. latch'.sent
      BY <3>2, <3>3 DEF Latched
    <3>5. QED
      BY <3>2, <3>4 DEF Due, Pays
  <2>2. ASSUME latch.sent, ~ latch'.sent, Poll
        PROVE  hour = SALARY_RESET_HOUR
    <3>1. CASE Due
      <4>1. latch' = Latched(Pays(guild))
        BY <2>2, <3>1 DEF Poll
      <4>2. latch'.sent
        BY <2>2, <4>1 DEF Latched
      <4>3. QED
        BY <2>2, <4>2
    <3>2. CASE ~ Due
      BY <2>2, <3>2 DEF Poll, Reopens
    <3>3. QED
      BY <3>1, <3>2
  <2>3. ASSUME BankStep \/ RosterStep \/ NextHour \/ Flush
        PROVE  latch' = latch
    <3>1. CASE BankStep
      <4>1. ASSUME NEW p \in Players, NEW n, ContributePenya(p, n) \/ WithdrawPenya(p, n)
            PROVE  UNCHANGED clock
        BY <4>1 DEF ContributePenya, WithdrawPenya
      <4>2. ASSUME NEW p \in Players, ContributeGems(p) PROVE UNCHANGED clock
        BY <4>2 DEF ContributeGems
      <4>3. ASSUME NEW p \in Players, NEW s, NEW n, PutItem(p, s, n) PROVE UNCHANGED clock
        BY <4>3 DEF PutItem
      <4>4. ASSUME NEW p \in Players, NEW s, NEW n, WithdrawItem(p, s, n) PROVE UNCHANGED clock
        BY <4>4 DEF WithdrawItem
      <4>5. ASSUME NEW p \in Players, NEW src, NEW dst, MoveItem(p, src, dst) PROVE UNCHANGED clock
        BY <4>5 DEF MoveItem
      <4>6. UNCHANGED clock
        BY <3>1, <4>1, <4>2, <4>3, <4>4, <4>5 DEF BankStep
      <4>7. QED
        BY <4>6 DEF clock
    <3>2. CASE RosterStep \/ NextHour \/ Flush
      BY <3>2 DEF RosterStep, Enlist, NextHour, Flush, clock
    <3>3. QED
      BY <2>3, <3>1, <3>2
  <2>4. QED
    BY <2>1, <2>2, <2>3 DEF VaultNext
<1>2. QED
  BY <1>1, PTL DEF VaultSpec, PaidOncePerEvening

------------------------------------------------------------------------------
(* The guild's bank: what each operation moves.                              *)

\* No penya, and no unit of k, is made or lost.
Accounted(k) == /\ Total(gold', guild') = Total(gold, guild)
                /\ Stock(bag', guild', k) = Stock(bag, guild, k)

LEMMA PropertyOf ==
    /\ PenyaKept <=> Total(gold', guild') = Total(gold, guild)
    /\ \A k : GuildUnits(k) = Stock(bag, guild, k) /\ GuildUnits(k)' = Stock(bag', guild', k)
  BY DEF PenyaKept, Penya, Total, Cost, Wages, GuildUnits, Stock, InBags

LEMMA TotalTypes ==
    ASSUME NEW g, Good(g)
    PROVE  g.gold \in Nat /\ Cost(g.level) \in Int /\ Wages(g) \in Nat
  BY LevelCosts, WagesType DEF Good, GuildState

LEMMA BagMoves ==
    ASSUME VInv, NEW p \in Players, NEW c \in Bags, bag' = [bag EXCEPT ![p] = c], NEW k
    PROVE  InBags(bag, k) \in Nat /\ InBags(bag', k) = InBags(bag, k) + Held(c, k) - Held(bag[p], k)
<1>1. bag \in [Players -> Bags]
  BY CarriedTypes
<1>2. QED
  BY <1>1, BagsAfter

LEMMA ContributePenyaAccounts ==
    ASSUME VInv, NEW p \in Players, NEW n \in Nat, ContributePenya(p, n), NEW k
    PROVE  Accounted(k)
<1> DEFINE g == Credited(guild, p, 0, n)
<1>1. Good(guild) /\ guild.roll[p] # None /\ guild.gold + n <= MaxPool
  BY TablesGood DEF ContributePenya, IsMember, CanContribute
<1>2. Good(g) /\ g.chest = guild.chest
  BY <1>1, CreditedGood
<1>3. g.gold + Cost(g.level) + Wages(g) = guild.gold + Cost(guild.level) + Wages(guild) + n
  BY <1>1, CreditedWorth
<1>4. guild' = g /\ bag' = bag /\ n <= gold[p]
  BY DEF ContributePenya
<1> HIDE DEF g
<1>5. gold[p] \in 0 .. MaxPurse /\ gold[p] - n \in 0 .. MaxPurse /\ gold' = [gold EXCEPT ![p] = gold[p] - n]
  BY <1>4, CarriedTypes DEF ContributePenya
<1>6. /\ SumFunction(gold) \in Nat /\ SumFunction(gold') \in Nat
      /\ SumFunction(gold') - SumFunction(gold) = gold[p] - n - gold[p]
  BY <1>5, CarriedTypes, PursesAfter
<1>7. SumFunction(gold') + (g.gold + Cost(g.level) + Wages(g))
        = SumFunction(gold) + (guild.gold + Cost(guild.level) + Wages(guild))
  BY <1>1, <1>2, <1>3, <1>5, <1>6, TotalTypes
<1>8. Total(gold', guild') = Total(gold, guild)
  BY <1>1, <1>2, <1>4, <1>6, <1>7, TotalTypes DEF Total
<1>9. Stock(bag', guild', k) = Stock(bag, guild, k)
  BY <1>2, <1>4 DEF Stock
<1>10. QED
  BY <1>8, <1>9 DEF Accounted

LEMMA WithdrawPenyaAccounts ==
    ASSUME VInv, NEW p \in Players, NEW n \in Nat, WithdrawPenya(p, n), NEW k
    PROVE  Accounted(k)
<1> DEFINE m == [guild.roll[p] EXCEPT !.giveGold = guild.roll[p].giveGold - n]
           roll == [guild.roll EXCEPT ![p] = m]
           g == [guild EXCEPT !.gold = guild.gold - n, !.roll[p].giveGold = guild.roll[p].giveGold - n]
<1>1. /\ Good(guild) /\ guild \in GuildState /\ guild.roll[p] # None
      /\ guild.roll[p] \in Member /\ guild.roll[p].giveGold - n \in Int
      /\ n <= guild.gold /\ guild.gold \in Nat
  BY TablesGood, MemberTypes DEF WithdrawPenya, IsMember, Good, GuildState, Member
<1>2. m \in Member
  BY <1>1 DEF Member
<1>3. g = [guild EXCEPT !.gold = guild.gold - n, !.roll = roll]
  BY <1>1 DEF GuildState
<1>4. guild' = g /\ bag' = bag
  BY DEF WithdrawPenya
<1> HIDE DEF m, g
<1>5. roll \in [Players -> Member \cup {None}]
  BY <1>1, <1>2 DEF GuildState
<1> HIDE DEF roll
<1>6. /\ g \in GuildState /\ g.gold = guild.gold - n /\ g.level = guild.level /\ g.roll = roll
      /\ g.chest = guild.chest
  <2>1. guild.gold - n \in Nat
    BY <1>1
  <2>2. QED
    BY <1>1, <1>3, <1>5, <2>1 DEF GuildState
<1>7. Wages(g) = Wages(guild)
  BY <1>1, <1>6, GiveKeepsPay DEF roll, m
<1>8. gold[p] \in 0 .. MaxPurse /\ gold[p] + n \in 0 .. MaxPurse /\ gold' = [gold EXCEPT ![p] = gold[p] + n]
  BY CarriedTypes DEF WithdrawPenya
<1>9. SumFunction(gold) \in Nat /\ SumFunction(gold') = SumFunction(gold) + n
  <2> DEFINE v == gold[p] + n
  <2>1. v - gold[p] = n
    BY <1>8
  <2> HIDE DEF v
  <2>2. v \in 0 .. MaxPurse /\ gold' = [gold EXCEPT ![p] = v]
    BY <1>8 DEF v
  <2>3. /\ SumFunction(gold) \in Nat /\ SumFunction(gold') \in Nat
        /\ SumFunction(gold') - SumFunction(gold) = v - gold[p]
    BY <2>2, CarriedTypes, PursesAfter
  <2>4. QED
    BY <2>1, <2>3
<1>11. Total(gold', guild') = Total(gold, guild)
  BY <1>1, <1>4, <1>6, <1>7, <1>9, TotalTypes DEF Total
<1>12. Stock(bag', guild', k) = Stock(bag, guild, k)
  BY <1>4, <1>6 DEF Stock
<1>13. QED
  BY <1>11, <1>12 DEF Accounted

\* A stack of an item that is no gem stays in the bag.
LEMMA ContributeGemsAccounts ==
    ASSUME VInv, NEW p \in Players, ContributeGems(p), NEW k
    PROVE  /\ Total(gold', guild') = Total(gold, guild)
           /\ GemPxp[k] = 0 => Accounted(k)
<1> DEFINE d == GemsGiven(p)
<1>1. GivenRight(p, d) /\ guild' = d.g /\ bag' = [bag EXCEPT ![p] = d.b] /\ gold' = gold
  BY GemsRight DEF ContributeGems
<1> HIDE DEF d
<1>2. /\ Good(d.g) /\ d.b \in Bags /\ d.g.chest = guild.chest
      /\ d.g.gold + Cost(d.g.level) + Wages(d.g) = guild.gold + Cost(guild.level) + Wages(guild)
      /\ \A s \in Slots : d.b[s] # bag[p][s] =>
            d.b[s] = Empty /\ bag[p][s] # Empty /\ GemPxp[bag[p][s].itemId] # 0
  BY <1>1 DEF GivenRight
<1>3. Total(gold', guild') = Total(gold, guild)
  <2>1. SumFunction(gold) \in Nat
    <3>1. gold[p] \in 0 .. MaxPurse /\ gold \in [Players -> 0 .. MaxPurse]
      BY CarriedTypes
    <3>2. QED
      BY <3>1, PursesAfter
  <2>2. /\ guild.gold \in Nat /\ Cost(guild.level) \in Int /\ Wages(guild) \in Nat
        /\ d.g.gold \in Nat /\ Cost(d.g.level) \in Int /\ Wages(d.g) \in Nat
    BY <1>2, TablesGood, TotalTypes
  <2>3. SumFunction(gold) + (d.g.gold + Cost(d.g.level) + Wages(d.g))
          = SumFunction(gold) + (guild.gold + Cost(guild.level) + Wages(guild))
    BY <1>2
  <2>4. Total(gold, d.g) = Total(gold, guild)
    BY <2>1, <2>2, <2>3 DEF Total
  <2>5. QED
    BY <1>1, <2>4
<1>4. ASSUME GemPxp[k] = 0
      PROVE  Stock(bag', guild', k) = Stock(bag, guild, k)
  <2>1. \A s \in Slots : CountOf(d.b[s], k) = CountOf(bag[p][s], k)
    BY <1>2, <1>4 DEF CountOf
  <2>2. Held(d.b, k) = Held(bag[p], k)
    BY <2>1 DEF Held
  <2>3. Held(bag[p], k) \in Nat
    BY CarriedTypes, HeldType
  <2>4. /\ InBags(bag, k) \in Nat
        /\ InBags(bag', k) = InBags(bag, k) + Held(d.b, k) - Held(bag[p], k)
    BY <1>1, <1>2, BagMoves
  <2>5. QED
    BY <1>1, <1>2, <2>2, <2>3, <2>4 DEF Stock
<1>5. QED
  BY <1>3, <1>4 DEF Accounted

\* Only the chest of the guild has changed.
LEMMA ChestKeepsTotal ==
    ASSUME VInv, gold' = gold, NEW c \in Chests, guild' = [guild EXCEPT !.chest = c]
    PROVE  /\ Total(gold', guild') = Total(gold, guild)
           /\ guild'.chest = c /\ guild.chest \in Chests
<1>1. guild \in GuildState
  BY TablesGood DEF Good
<1>2. guild'.gold = guild.gold /\ guild'.level = guild.level /\ guild'.roll = guild.roll
      /\ guild'.chest = c /\ guild.chest \in Chests
  BY <1>1 DEF GuildState, Chests
<1>3. Wages(guild') = Wages(guild)
  BY <1>2 DEF Wages, PayOf
<1>4. QED
  BY <1>2, <1>3 DEF Total

LEMMA PutItemAccounts ==
    ASSUME VInv, NEW p \in Players, NEW s \in Slots, NEW n \in Nat \ {0}, PutItem(p, s, n), NEW k
    PROVE  Accounted(k)
<1> DEFINE item == bag[p][s]
           d == Least(FreeSlots)
           put == Smaller(n, item.count)
           x == [item EXCEPT !.count = put, !.objid = d]
           chest == [guild.chest EXCEPT ![d] = x]
           rest == [bag[p] EXCEPT ![s] = Less(item, put)]
<1>1. item \in Item /\ item # Empty /\ bag[p] \in Bags
  BY CarriedTypes DEF PutItem, Bags, BagsOn
<1>2. d \in GuildBankSlots /\ d \in Nat /\ guild.chest[d] = Empty
  <2>1. FreeSlots \in SUBSET Nat
    BY VaultAssumption DEF VaultAssumption, FreeSlots, GuildBankSlots
  <2>2. d \in FreeSlots
    BY <2>1, LeastOf DEF PutItem
  <2>3. QED
    BY <2>1, <2>2 DEF FreeSlots
<1>3. put \in Nat \ {0} /\ put <= item.count
  BY <1>1 DEF Smaller, Item
<1>4. /\ gold' = gold /\ guild' = [guild EXCEPT !.chest = chest]
      /\ bag' = [bag EXCEPT ![p] = rest]
  BY CarriedTypes DEF PutItem
<1> HIDE DEF item, d, put
<1>5. x \in Item /\ x.itemId = item.itemId /\ x.count = put
  BY <1>1, <1>2, <1>3 DEF Item
<1> HIDE DEF x
<1>6. rest \in Bags /\ rest[s] = Less(item, put) /\ \A y \in Slots \ {s} : bag[p][y] = rest[y]
  <2>1. Less(item, put) \in Item \cup {Empty}
    BY <1>1, <1>3, LessType
  <2>2. QED
    BY <1>1, <2>1 DEF Bags, BagsOn
<1>7. guild.chest \in Chests
  BY TablesGood DEF Good, GuildState, Chests
<1>8. chest \in Chests /\ chest[d] = x /\ \A r \in GuildBankSlots \ {d} : guild.chest[r] = chest[r]
  BY <1>2, <1>5, <1>7 DEF Chests
<1> HIDE DEF chest, rest
<1>9. Total(gold', guild') = Total(gold, guild) /\ guild'.chest = chest
  BY <1>4, <1>8, ChestKeepsTotal
<1>10. Held(rest, k) - Held(bag[p], k) = -(IF item.itemId = k THEN put ELSE 0)
  <2>1. Held(rest, k) - Held(bag[p], k) = CountOf(rest[s], k) - CountOf(bag[p][s], k)
    BY <1>1, <1>6, HeldAfter
  <2>2. CountOf(rest[s], k) = CountOf(item, k) - (IF item.itemId = k THEN put ELSE 0)
    BY <1>1, <1>3, <1>6, LessCount
  <2>3. CountOf(item, k) \in Nat
    BY <1>1, CountType
  <2>4. QED
    BY <1>3, <2>1, <2>2, <2>3 DEF item
<1>11. UnitsIn(chest, k) - UnitsIn(guild.chest, k) = IF item.itemId = k THEN put ELSE 0
  <2>1. UnitsIn(chest, k) - UnitsIn(guild.chest, k) = CountOf(chest[d], k) - CountOf(guild.chest[d], k)
    BY <1>2, <1>7, <1>8, ChestAfter
  <2>2. CountOf(chest[d], k) = IF item.itemId = k THEN put ELSE 0
    BY <1>5, <1>8, EmptyAssumption DEF CountOf
  <2>3. CountOf(guild.chest[d], k) = 0
    BY <1>2 DEF CountOf
  <2>4. QED
    BY <1>3, <2>1, <2>2, <2>3
<1>12. Stock(bag', guild', k) = Stock(bag, guild, k)
  <2>1. /\ InBags(bag, k) \in Nat
        /\ InBags(bag', k) = InBags(bag, k) + Held(rest, k) - Held(bag[p], k)
    BY <1>4, <1>6, BagMoves
  <2>2. Held(rest, k) \in Nat /\ Held(bag[p], k) \in Nat
    BY <1>1, <1>6, HeldType
  <2>3. UnitsIn(chest, k) \in Nat /\ UnitsIn(guild.chest, k) \in Nat
    BY <1>7, <1>8, ChestIs
  <2>4. QED
    BY <1>3, <1>9, <1>10, <1>11, <2>1, <2>2, <2>3 DEF Stock
<1>13. QED
  BY <1>9, <1>12 DEF Accounted

LEMMA RenumberedCount ==
    ASSUME NEW x \in Item \cup {Empty}, NEW s \in Nat, NEW k
    PROVE  CountOf(Renumbered(x, s), k) = CountOf(x, k)
<1>1. CASE x = Empty
  BY <1>1 DEF Renumbered
<1>2. CASE x # Empty
  <2> DEFINE y == [x EXCEPT !.objid = s]
  <2>1. y \in Item /\ y.itemId = x.itemId /\ y.count = x.count
    BY <1>2 DEF Item
  <2>2. y # Empty /\ Renumbered(x, s) = y
    BY <1>2, <2>1, EmptyAssumption DEF Renumbered
  <2> HIDE DEF y
  <2>3. QED
    BY <1>2, <2>1, <2>2 DEF CountOf
<1>3. QED
  BY <1>1, <1>2

LEMMA MoveItemAccounts ==
    ASSUME VInv, NEW src \in GuildBankSlots, NEW dst \in GuildBankSlots, NEW p,
           MoveItem(p, src, dst), NEW k
    PROVE  Accounted(k)
<1> DEFINE a == guild.chest[src]
           z == guild.chest[dst]
           chest == [guild.chest EXCEPT ![src] = Renumbered(z, src), ![dst] = Renumbered(a, dst)]
<1>1. guild.chest \in Chests /\ a \in Item \cup {Empty} /\ z \in Item \cup {Empty}
  BY TablesGood DEF Good, GuildState, Chests
<1>2. src # dst /\ src \in Nat /\ dst \in Nat
  BY VaultAssumption DEF MoveItem, VaultAssumption, GuildBankSlots
<1>3. gold' = gold /\ bag' = bag /\ guild' = [guild EXCEPT !.chest = chest]
  <2>1. gold' = gold /\ bag' = bag
    BY DEF MoveItem, carried
  <2>2. guild' = [guild EXCEPT !.chest[src] = Renumbered(z, src), !.chest[dst] = Renumbered(a, dst)]
    BY DEF MoveItem
  <2> HIDE DEF a, z
  <2>3. QED
    BY <1>2, <2>1, <2>2
<1> HIDE DEF a, z
<1>4. /\ Renumbered(z, src) \in Item \cup {Empty} /\ CountOf(Renumbered(z, src), k) = CountOf(z, k)
      /\ Renumbered(a, dst) \in Item \cup {Empty} /\ CountOf(Renumbered(a, dst), k) = CountOf(a, k)
  <2>1. CountOf(Renumbered(z, src), k) = CountOf(z, k) /\ CountOf(Renumbered(a, dst), k) = CountOf(a, k)
    BY <1>1, <1>2, RenumberedCount
  <2>2. Renumbered(z, src) \in Item \cup {Empty} /\ Renumbered(a, dst) \in Item \cup {Empty}
    BY <1>1, <1>2, RenumberedType
  <2>3. QED
    BY <2>1, <2>2
<1>5. /\ chest \in Chests
      /\ chest[src] = Renumbered(z, src) /\ chest[dst] = Renumbered(a, dst)
      /\ \A r \in GuildBankSlots \ {src, dst} : guild.chest[r] = chest[r]
  BY <1>1, <1>2, <1>4 DEF Chests
<1> HIDE DEF chest
<1>6. /\ CountOf(chest[src], k) = CountOf(guild.chest[dst], k)
      /\ CountOf(chest[dst], k) = CountOf(guild.chest[src], k)
  BY <1>4, <1>5 DEF a, z
<1>7. UnitsIn(chest, k) = UnitsIn(guild.chest, k)
  BY <1>1, <1>2, <1>5, <1>6, ChestMoved
<1>8. Total(gold', guild') = Total(gold, guild) /\ guild'.chest = chest
  BY <1>3, <1>5, ChestKeepsTotal
<1>9. QED
  BY <1>3, <1>7, <1>8 DEF Accounted, Stock

\* Unless the bag has room for a part of it only, what is taken is in the bag.
LEMMA WithdrawItemAccounts ==
    ASSUME VInv, NEW p \in Players, NEW s \in GuildBankSlots, NEW n \in 1 .. MaxStack,
           WithdrawItem(p, s, n), NEW k
    PROVE  Total(gold', guild') = Total(gold, guild) /\ (FallsShort(k) \/ ItemsKept(k))
<1> DEFINE item == guild.chest[s]
           taken == Smaller(n, item.count)
           room == SpaceFor(bag[p], item.itemId)
           put == Smaller(taken, room)
           left == Less(item, taken)
           chest == [guild.chest EXCEPT ![s] = left]
           ix == [y \in Slots |-> y]
           b == AddUnits(bag[p], ix, item.itemId, taken)
<1>1. /\ item \in Item /\ item # Empty /\ item.itemId \in ItemIds /\ item.count \in Nat \ {0}
      /\ bag[p] \in Bags /\ guild.chest \in Chests
  BY TablesGood, CarriedTypes DEF WithdrawItem, Good, GuildState, Chests, Item
<1>2. taken \in Nat \ {0} /\ taken <= item.count
  BY <1>1, BagAssumption DEF Smaller, BagAssumption
<1>3. /\ gold' = gold /\ guild' = [guild EXCEPT !.chest = chest] /\ bag' = [bag EXCEPT ![p] = b]
      /\ CanAddOne(bag[p], item.itemId)
  BY CarriedTypes DEF WithdrawItem, MayTake
<1>4. ix \in [Slots -> Nat]
  BY SlotsAreNat
<1> HIDE DEF taken, ix
<1>5. left \in Item \cup {Empty}
  BY <1>1, <1>2, LessType
<1>6. /\ chest \in Chests /\ chest[s] = left
      /\ \A r \in GuildBankSlots \ {s} : guild.chest[r] = chest[r]
  BY <1>1, <1>5 DEF Chests
<1>7. room \in Nat /\ room # 0
  BY <1>1, <1>3, HeldType, CanAddIsSpace
<1>8. b \in Bags /\ Held(b, k) = Held(bag[p], k) + (IF k = item.itemId THEN put ELSE 0)
  BY <1>1, <1>2, <1>4, AddUnitsType, AddUnitsCounts
<1>9. Total(gold', guild') = Total(gold, guild) /\ guild'.chest = chest
  BY <1>3, <1>6, ChestKeepsTotal
<1>10. UnitsIn(chest, k) - UnitsIn(guild.chest, k) = -(IF item.itemId = k THEN taken ELSE 0)
  <2>1. UnitsIn(chest, k) - UnitsIn(guild.chest, k) = CountOf(chest[s], k) - CountOf(item, k)
    <3> HIDE DEF chest, left
    <3>1. QED
      BY <1>1, <1>6, ChestAfter
  <2>2. CountOf(chest[s], k) = CountOf(item, k) - (IF item.itemId = k THEN taken ELSE 0)
    BY <1>1, <1>2, <1>6, LessCount
  <2>3. CountOf(item, k) \in Nat
    BY <1>1, CountType
  <2>4. QED
    BY <1>2, <2>1, <2>2, <2>3
<1> HIDE DEF item, chest, b, left, room, put
<1>11. InBags(bag, k) \in Nat /\ InBags(bag', k) = InBags(bag, k) + Held(b, k) - Held(bag[p], k)
  BY <1>3, <1>8, BagMoves
<1>12. /\ Held(b, k) \in Nat /\ Held(bag[p], k) \in Nat
       /\ UnitsIn(chest, k) \in Nat /\ UnitsIn(guild.chest, k) \in Nat
  BY <1>1, <1>6, <1>8, HeldType, ChestIs
<1>13. put \in Nat /\ put = IF taken <= room THEN taken ELSE room
  BY <1>2, <1>7 DEF put, Smaller
<1>14. Stock(bag', guild', k)
         = Stock(bag, guild, k) + (IF k = item.itemId THEN put - taken ELSE 0)
  BY <1>2, <1>8, <1>9, <1>10, <1>11, <1>12, <1>13 DEF Stock
<1>15. Stock(bag, guild, k) \in Nat
  BY <1>11, <1>12 DEF Stock
<1>16. CASE k = item.itemId /\ room < taken
  <2>1. room \in 1 .. (taken - 1)
    BY <1>2, <1>7, <1>16
  <2>2. /\ guild.chest[s].itemId = k
        /\ SpaceFor(bag[p], k) \in 1 .. (Smaller(n, guild.chest[s].count) - 1)
    BY <1>16, <2>1 DEF room, taken, item
  <2>3. QED
    BY <1>9, <2>2 DEF FallsShort
<1>17. CASE ~ (k = item.itemId /\ room < taken)
  <2>1. Stock(bag', guild', k) = Stock(bag, guild, k)
    BY <1>2, <1>7, <1>13, <1>14, <1>15, <1>17
  <2>2. QED
    BY <1>9, <2>1, PropertyOf DEF ItemsKept
<1>18. QED
  BY <1>16, <1>17

\* What leaves the pool is what the members paid have more.
LEMMA PayAccounts ==
    ASSUME VInv, Pay, gold' = gold
    PROVE  Total(gold', guild') = Total(gold, guild)
<1> DEFINE roll == [p \in Players |-> IF p \in Paid(guild)
                                      THEN [guild.roll[p] EXCEPT !.pay = guild.roll[p].pay + Salary[p]]
                                      ELSE guild.roll[p]]
           g == [guild EXCEPT !.gold = guild.gold - Payroll(guild), !.roll = roll]
           f == [p \in Players |-> PayOf(guild, p)]
           h == [p \in Players |-> IF p \in Paid(guild) THEN Salary[p] ELSE 0]
           e == [p \in Players |-> PayOf(g, p)]
<1>1. Good(guild) /\ guild \in GuildState /\ IsFiniteSet(Players) /\ Paid(guild) \subseteq Players
  BY TablesGood, PayrollType, VaultAssumption DEF Good, VaultAssumption
<1>2. guild' = g
  BY DEF Pay, AfterPay
<1>3. g.gold = guild.gold - Payroll(guild) /\ g.roll = roll /\ g.level = guild.level
  <2> HIDE DEF roll
  <2>1. QED
    BY <1>1 DEF GuildState
<1> HIDE DEF g
<1>4. ASSUME NEW p \in Players
      PROVE  f[p] \in Int /\ h[p] \in Int /\ e[p] = f[p] + h[p]
  <2>1. f[p] = PayOf(guild, p) /\ e[p] = PayOf(g, p) /\ PayOf(guild, p) \in Nat
    BY <1>1, WagesType
  <2>2. Salary[p] \in Nat
    BY VaultAssumption DEF VaultAssumption
  <2>3. CASE p \in Paid(guild)
    <3> DEFINE m == [guild.roll[p] EXCEPT !.pay = guild.roll[p].pay + Salary[p]]
    <3>1. guild.roll[p] # None /\ guild.roll[p] \in Member
      BY <1>1, <2>3, MemberTypes DEF Paid
    <3>2. m \in Member /\ m.pay = guild.roll[p].pay + Salary[p]
      BY <2>2, <3>1 DEF Member
    <3>3. m # None /\ g.roll[p] = m
      BY <1>3, <2>3, <3>2, MemberAssumption
    <3> HIDE DEF m
    <3>4. PayOf(g, p) = PayOf(guild, p) + Salary[p]
      BY <3>1, <3>2, <3>3 DEF PayOf
    <3>5. QED
      BY <2>1, <2>2, <2>3, <3>4
  <2>4. CASE p \notin Paid(guild)
    <3>1. g.roll[p] = guild.roll[p]
      BY <1>3, <2>4
    <3>2. PayOf(g, p) = PayOf(guild, p)
      BY <3>1 DEF PayOf
    <3>3. QED
      BY <2>1, <2>4, <3>2
  <2>5. QED
    BY <2>3, <2>4
<1>5. /\ Wages(guild) = SumFunctionOnSet(f, Players) /\ Wages(g) = SumFunctionOnSet(e, Players)
  BY DEF Wages, SumFunction
<1>6. /\ \A p \in Paid(guild) : h[p] = Salary[p]
      /\ \A p \in Players \ Paid(guild) : h[p] = 0
  BY <1>1
<1> HIDE DEF f, h, e
<1>7. SumFunctionOnSet(e, Players) = SumFunctionOnSet(f, Players) + SumFunctionOnSet(h, Players)
  BY <1>1, <1>4, SumPlus
<1>8. SumFunctionOnSet(h, Players) = Payroll(guild)
  <2>1. Paid(guild) \in SUBSET Players /\ \A p \in Players : h[p] \in Int
    BY <1>1, <1>4
  <2>2. SumFunctionOnSet(h, Players) = SumFunctionOnSet(Salary, Paid(guild))
    BY <1>1, <1>6, <2>1, SumOver
  <2>3. QED
    BY <2>2 DEF Payroll
<1>9. SumFunction(gold) \in Int
  <2>1. PICK p \in Players : TRUE
    <3>1. Payroll(guild) # 0
      BY DEF Pay, Pays
    <3>2. Paid(guild) # {}
      BY <3>1, SumEmpty DEF Payroll
    <3>3. QED
      BY <1>1, <3>2
  <2>2. gold[p] \in 0 .. MaxPurse /\ gold \in [Players -> 0 .. MaxPurse]
    BY CarriedTypes
  <2>3. QED
    BY <2>2, PursesAfter
<1>10. Payroll(guild) \in Nat
  BY PayrollType
<1>11. guild.gold \in Nat /\ Cost(guild.level) \in Int /\ Wages(guild) \in Nat
  BY <1>1, TotalTypes
<1>12. Wages(g) = Wages(guild) + Payroll(guild)
  BY <1>5, <1>7, <1>8
<1>13. Total(gold, g) = Total(gold, guild)
  BY <1>3, <1>9, <1>10, <1>11, <1>12 DEF Total
<1>14. QED
  BY <1>2, <1>13

\* A restart from tables no statement is on its way to.
LEMMA RestartAccounts ==
    ASSUME VInv, KilledAtRest, NEW k
    PROVE  Accounted(k)
<1> DEFINE t == Tables
<1>1. /\ guild' = t /\ gold' = gold /\ bag' = bag
  BY DEF KilledAtRest, VaultCrash, Tables, carried, VInv, VaultTypeOK
<1>2. t \in GuildState /\ guild \in GuildState /\ Bare(t) = Bare(guild)
  BY TablesGood DEF VInv, StoredAsLive, Good
<1> HIDE DEF t
<1>3. /\ t.gold = guild.gold /\ t.level = guild.level /\ t.roll = guild.roll
      /\ \A s \in GuildBankSlots : Renumbered(t.chest[s], 0) = Renumbered(guild.chest[s], 0)
  BY <1>2, BareIs
<1>4. t.chest \in Chests /\ guild.chest \in Chests
  BY <1>2 DEF GuildState, Chests
<1>5. \A s \in GuildBankSlots : CountOf(t.chest[s], k) = CountOf(guild.chest[s], k)
  BY <1>3, <1>4, RenumberedCount DEF Chests
<1>6. UnitsIn(t.chest, k) = UnitsIn(guild.chest, k)
  BY <1>4, <1>5 DEF UnitsIn, Chests
<1>7. Wages(t) = Wages(guild)
  BY <1>3 DEF Wages, PayOf
<1>8. QED
  BY <1>1, <1>3, <1>6, <1>7 DEF Accounted, Total, Stock

LEMMA StepAccounts ==
    ASSUME VInv, VaultNext
    PROVE  /\ BankStep \/ Poll \/ KilledAtRest => PenyaKept
           /\ \A k \in {x \in ItemIds : GemPxp[x] = 0} :
                 (BankStep /\ ~ FallsShort(k)) \/ KilledAtRest => ItemsKept(k)
<1>1. MaxPurse \in Nat /\ MaxStack \in Nat
  BY VaultAssumption, BagAssumption DEF VaultAssumption, BagAssumption
<1>2. ASSUME NEW k, Accounted(k) PROVE PenyaKept /\ ItemsKept(k)
  BY <1>2, PropertyOf DEF Accounted, ItemsKept
<1>3. ASSUME BankStep, NEW k
      PROVE  PenyaKept /\ (GemPxp[k] = 0 => FallsShort(k) \/ ItemsKept(k))
  <2>1. PICK p \in Players :
           \/ \E n \in 1 .. MaxPurse : ContributePenya(p, n) \/ WithdrawPenya(p, n)
           \/ ContributeGems(p)
           \/ \E n \in 1 .. MaxStack :
                 \/ \E s \in Slots : PutItem(p, s, n)
                 \/ \E s \in GuildBankSlots : WithdrawItem(p, s, n)
           \/ \E src, dst \in GuildBankSlots : MoveItem(p, src, dst)
    BY <1>3 DEF BankStep
  <2> DEFINE Fine == PenyaKept /\ (GemPxp[k] = 0 => FallsShort(k) \/ ItemsKept(k))
  <2>2. ASSUME NEW n \in 1 .. MaxPurse, ContributePenya(p, n) PROVE Fine
    BY <1>1, <1>2, <2>2, ContributePenyaAccounts
  <2>3. ASSUME NEW n \in 1 .. MaxPurse, WithdrawPenya(p, n) PROVE Fine
    BY <1>1, <1>2, <2>3, WithdrawPenyaAccounts
  <2>4. ASSUME NEW n \in 1 .. MaxStack, NEW s \in Slots, PutItem(p, s, n) PROVE Fine
    BY <1>1, <1>2, <2>4, PutItemAccounts
  <2>5. ASSUME NEW n \in 1 .. MaxStack, NEW s \in GuildBankSlots, WithdrawItem(p, s, n)
        PROVE  Fine
    BY <2>5, WithdrawItemAccounts, PropertyOf
  <2>6. ASSUME NEW src \in GuildBankSlots, NEW dst \in GuildBankSlots, MoveItem(p, src, dst)
        PROVE  Fine
    BY <1>2, <2>6, MoveItemAccounts
  <2>7. ASSUME ContributeGems(p) PROVE Fine
    BY <1>2, <2>7, ContributeGemsAccounts, PropertyOf
  <2> HIDE DEF Fine
  <2>8. Fine
    BY <2>1, <2>2, <2>3, <2>4, <2>5, <2>6, <2>7
  <2>9. QED
    BY <2>8 DEF Fine
<1>4. ASSUME Poll PROVE PenyaKept
  <2>1. gold' = gold
    BY <1>4 DEF Poll, carried
  <2>2. CASE Pay
    BY <2>1, <2>2, PayAccounts, PropertyOf
  <2>3. CASE NoPay
    <3>1. guild' = guild
      BY <2>3 DEF NoPay
    <3>2. QED
      BY <2>1, <3>1, PropertyOf
  <2>4. QED
    BY <1>4, <2>2, <2>3 DEF Poll
<1>5. ASSUME KilledAtRest, NEW k PROVE PenyaKept /\ ItemsKept(k)
  BY <1>2, <1>5, RestartAccounts
<1>6. BankStep \/ Poll \/ KilledAtRest => PenyaKept
  BY <1>3, <1>4, <1>5
<1>7. ASSUME NEW k \in ItemIds, GemPxp[k] = 0, (BankStep /\ ~ FallsShort(k)) \/ KilledAtRest
      PROVE  ItemsKept(k)
  BY <1>3, <1>5, <1>7
<1>8. QED
  BY <1>6, <1>7

\* No handler of the bank, the contributions or the payroll makes or burns penya, nor
\* a unit of an item that is no gem, unless the bag has room for only a part of what
\* is taken from the chest; nor does a kill, unless it catches statements under way.
THEOREM NothingLeavesTheChestUnseen == VaultSpec => ChestAccounted
<1>1. VaultSpec => []VInv
  BY VaultInitKeeps, VaultStep, PTL DEF VaultSpec
<1>2. VInv /\ [VaultNext]_vaultVars =>
        [/\ BankStep \/ Poll \/ KilledAtRest => PenyaKept
         /\ \A k \in {x \in ItemIds : GemPxp[x] = 0} :
               (BankStep /\ ~ FallsShort(k)) \/ KilledAtRest => ItemsKept(k)]_vaultVars
  BY StepAccounts
<1>3. QED
  BY <1>1, <1>2, PTL DEF VaultSpec, ChestAccounted
==============================================================================
