--------------------------- MODULE InventoryProofs ---------------------------
(* Facts about the operators of Inventory, and about sums over a finite     *)
(* set, for the proofs of the modules built on them.                        *)
EXTENDS Inventory, Functions, FiniteSetTheorems, TLAPS, WellFoundedInduction

\* Bags and rows over a set of slots D: the main bag, or with the equip parts.
BagsOn(D) == [D -> Item \cup {Empty}]
RowsOn(D) == [D -> DurableItem \cup {Empty}]

Bags == BagsOn(Slots)
DurableBags == RowsOn(Slots)

\* Taking units away leaves an item with a positive count, or nothing.
LEMMA LessType ==
    ASSUME NEW item \in Item, NEW n \in Nat
    PROVE  Less(item, n) \in Item \cup {Empty}
  BY DEF Less, Item

\* Slots are slot numbers.
LEMMA SlotsAreNat == Slots \in SUBSET Nat
  BY DEF Slots

\* A journal row holds a well-formed durable item.
LEMMA RowType ==
    ASSUME NEW x \in Item \cup {Empty}
    PROVE  Row(x) \in DurableItem \cup {Empty}
  BY BagAssumption DEF Row, Item, DurableItem, BagAssumption

\* Loading well-formed rows gives a well-formed bag.
LEMMA LoadType ==
    ASSUME NEW D \in SUBSET Nat, NEW b \in RowsOn(D)
    PROVE  Load(b) \in BagsOn(D)
  BY DEF Load, BagsOn, RowsOn, DurableItem, Item

\* The row of an item is an item's.
LEMMA RowOfItem ==
    ASSUME NEW x \in Item \cup {Empty}, x # Empty
    PROVE  Row(x) # Empty
<1>1. Row(x) \in DurableItem
  BY BagAssumption DEF Row, Item, DurableItem, BagAssumption
<1>2. QED
  BY <1>1, EmptyAssumption

\* Replaying a row again changes nothing more.
LEMMA RowIdempotent ==
    ASSUME NEW x
    PROVE  Row(Row(x)) = Row(x)
<1>1. CASE x = Empty
  BY <1>1 DEF Row
<1>2. CASE Row(x) = Empty
  BY <1>2 DEF Row
<1>3. CASE x # Empty /\ Row(x) # Empty
  BY <1>3 DEF Row
<1>4. QED
  BY <1>1, <1>2, <1>3

\* Loading changes no row.
LEMMA RowOfLoad ==
    ASSUME NEW D \in SUBSET Nat, NEW b \in RowsOn(D), NEW s \in D
    PROVE  Row(Load(b)[s]) = Row(b[s])
<1>1. CASE b[s] = Empty
  BY <1>1 DEF Load, Row, RowsOn
<1>2. CASE b[s] # Empty
  <2> DEFINE item == [itemId |-> b[s].itemId, objid |-> s, count |-> b[s].count, opt |-> b[s].opt]
  <2>1. Load(b)[s] = item
    BY <1>2 DEF Load, RowsOn
  <2>2. item \in Item
    <3>1. b[s] \in Item \cup DurableItem
      BY <1>2 DEF RowsOn
    <3>2. /\ b[s].itemId \in ItemIds /\ b[s].count \in Nat \ {0} /\ b[s].opt \in Opts
          /\ s \in Nat
      BY <3>1 DEF Item, DurableItem
    <3>3. QED
      BY <3>2 DEF Item
  <2>3. item # Empty
    BY <2>2, EmptyAssumption
  <2>4. QED
    BY <1>2, <2>1, <2>3 DEF Row
<1>3. QED
  BY <1>1, <1>2

\* What setItem and persist() write is well formed, and keeps the row.
LEMMA StoredType ==
    ASSUME NEW x \in Item \cup {Empty}
    PROVE  /\ Stored(x) \in DurableItem \cup {Empty}
           /\ Row(Stored(x)) = Row(x)
<1>1. CASE x = Empty
  BY <1>1 DEF Stored, Row
<1>2. CASE x # Empty
  <2>1. /\ x.itemId \in ItemIds /\ x.count \in Nat \ {0} /\ x.opt \in Opts
    BY <1>2 DEF Item
  <2>2. Stored(x) = [itemId |-> x.itemId, count |-> x.count, opt |-> x.opt]
    BY <1>2 DEF Stored
  <2>3. Stored(x) \in DurableItem
    BY <2>1, <2>2 DEF DurableItem
  <2>4. Stored(x) # Empty
    BY <2>3, EmptyAssumption
  <2>5. QED
    BY <1>2, <2>2, <2>3, <2>4 DEF Row
<1>3. QED
  BY <1>1, <1>2

LEMMA PersistedType ==
    ASSUME NEW x \in Item \cup {Empty}
    PROVE  /\ Persisted(x) \in DurableItem \cup {Empty}
           /\ Row(Persisted(x)) = Row(x)
<1> DEFINE y == [Stored(x) EXCEPT !.opt = Plain]
<1>1. CASE x # Empty /\ x.opt \in Elemental
  <2>1. Stored(x) \in DurableItem /\ Stored(x) # Empty
    <3>1. Stored(x) = [itemId |-> x.itemId, count |-> x.count, opt |-> x.opt]
      BY <1>1 DEF Stored
    <3>2. QED
      BY <1>1, <3>1, EmptyAssumption DEF Item, DurableItem
  <2>2. y \in DurableItem /\ y.itemId = Stored(x).itemId /\ y.count = Stored(x).count
    BY <2>1, BagAssumption DEF DurableItem, BagAssumption
  <2>3. y # Empty
    BY <2>2, EmptyAssumption
  <2>4. Persisted(x) = y
    BY <1>1 DEF Persisted
  <2>5. Row(y) = Row(Stored(x))
    BY <2>1, <2>2, <2>3 DEF Row
  <2>6. QED
    BY <2>2, <2>4, <2>5, StoredType
<1>2. CASE ~ (x # Empty /\ x.opt \in Elemental)
  BY <1>2, StoredType DEF Persisted
<1>3. QED
  BY <1>1, <1>2

\* moveItem leaves the rows well formed ...
LEMMA RowsMovedType ==
    ASSUME NEW D \in SUBSET Nat, NEW rows \in RowsOn(D), NEW src \in D, NEW dst \in D
    PROVE  RowsMoved(rows, src, dst) \in RowsOn(D)
<1>1. ASSUME NEW x \in DurableItem, NEW y \in DurableItem
      PROVE  [x EXCEPT !.opt = y.opt] \in DurableItem
  BY DEF DurableItem
<1>2. CASE rows[src] = Empty \/ rows[dst] = Empty
  BY <1>2 DEF RowsMoved, RowsOn
<1>3. CASE rows[src] # Empty /\ rows[dst] # Empty
  <2>1. rows[src] \in DurableItem /\ rows[dst] \in DurableItem
    BY <1>3 DEF RowsOn
  <2>2. QED
    BY <1>1, <1>3, <2>1 DEF RowsMoved, RowsOn
<1>4. QED
  BY <1>2, <1>3

\* ... and exchanges what they hold of item ids and counts.
LEMMA RowOfRowsMoved ==
    ASSUME NEW D \in SUBSET Nat, NEW rows \in RowsOn(D), NEW src \in D, NEW dst \in D,
           src # dst, rows[src] # Empty, NEW s \in D
    PROVE  Row(RowsMoved(rows, src, dst)[s]) =
             Row([rows EXCEPT ![src] = rows[dst], ![dst] = rows[src]][s])
<1>1. CASE rows[dst] = Empty
  BY <1>1 DEF RowsMoved, RowsOn
<1>2. CASE rows[dst] # Empty
  <2>1. rows[src] \in DurableItem /\ rows[dst] \in DurableItem
    BY <1>2 DEF RowsOn
  <2>2. ASSUME NEW x \in DurableItem, NEW o \in Opts, x # Empty
        PROVE  Row([x EXCEPT !.opt = o]) = Row(x)
    <3>1. [x EXCEPT !.opt = o] \in DurableItem
      BY DEF DurableItem
    <3>2. [x EXCEPT !.opt = o] # Empty
      BY <3>1, EmptyAssumption
    <3>3. [x EXCEPT !.opt = o].itemId = x.itemId /\ [x EXCEPT !.opt = o].count = x.count
      BY DEF DurableItem
    <3>4. QED
      BY <2>2, <3>2, <3>3 DEF Row
  <2>3. rows[src].opt \in Opts /\ rows[dst].opt \in Opts
    BY <2>1 DEF DurableItem
  <2>4. RowsMoved(rows, src, dst) =
          [rows EXCEPT ![src] = [rows[dst] EXCEPT !.opt = rows[src].opt],
                       ![dst] = [rows[src] EXCEPT !.opt = rows[dst].opt]]
    BY <1>2 DEF RowsMoved
  <2>5. CASE s = src
    BY <1>2, <2>1, <2>2, <2>3, <2>4, <2>5 DEF RowsOn
  <2>6. CASE s = dst
    BY <1>2, <2>1, <2>2, <2>3, <2>4, <2>6 DEF RowsOn
  <2>7. CASE s # src /\ s # dst
    BY <2>4, <2>7 DEF RowsOn
  <2>8. QED
    BY <2>5, <2>6, <2>7
<1>3. QED
  BY <1>1, <1>2

\* A non-empty set of numbers has a least element.
LEMMA HasLeast ==
    ASSUME NEW S \in SUBSET Nat, S # {}
    PROVE  \E x \in S : \A y \in S : x <= y
<1> DEFINE lt == {x \in Nat \X Nat : x[1] < x[2]}
<1>1. IsWellFoundedOn(lt, Nat)
  BY NatLessThanWellFounded DEF OpToRel
<1>0. \A u, v \in Nat : <<u, v>> \in lt <=> u < v
  OBVIOUS
<1> HIDE DEF lt
<1>2. PICK x \in S : \A y \in S : ~ (<<y, x>> \in lt)
  <2>1. S \subseteq Nat /\ S # {}
    OBVIOUS
  <2>2. QED
    BY <1>1, <2>1, WFMin
<1>3. \A y \in S : x <= y
  <2>1. TAKE y \in S
  <2>2. x \in Nat /\ y \in Nat
    OBVIOUS
  <2>3. ~ (y < x)
    BY <1>0, <1>2, <2>2
  <2>4. QED
    BY <2>2, <2>3
<1>4. QED
  BY <1>3

LEMMA LeastOf ==
    ASSUME NEW S \in SUBSET Nat, S # {}
    PROVE  Least(S) \in S
  BY HasLeast DEF Least

\* Induction along 0 .. n, for a set given by what is in it.
LEMMA UpTo ==
    ASSUME NEW n \in Nat, NEW S, 0 \in S, \A m \in 1 .. n : m - 1 \in S => m \in S
    PROVE  \A m \in 0 .. n : m \in S
<1> DEFINE bad == {m \in 0 .. n : m \notin S}
<1>1. ASSUME bad # {} PROVE FALSE
  <2>1. bad \in SUBSET Nat
    OBVIOUS
  <2>2. PICK j \in bad : \A i \in bad : j <= i
    <3> HIDE DEF bad
    <3>1. QED
      BY <1>1, <2>1, HasLeast
  <2>3. j \in 1 .. n
    BY <2>2
  <2>4. j - 1 \in 0 .. n /\ j - 1 \notin bad
    BY <2>2, <2>3
  <2>5. QED
    BY <2>2, <2>3, <2>4
<1>2. QED
  BY <1>1

------------------------------------------------------------------------------
(* addItem, unit by unit.                                                   *)

LEMMA AddOneType ==
    ASSUME NEW b \in Bags, NEW ix \in [Slots -> Nat], NEW k \in ItemIds
    PROVE  AddOne(b, ix, k) \in Bags
<1> DEFINE s == AddOneSlot(b, k)
<1>1. CASE s \in Slots /\ b[s] # Empty
  <2>1. [b[s] EXCEPT !.count = b[s].count + 1] \in Item
    BY <1>1 DEF Bags, BagsOn, Item
  <2>2. AddOne(b, ix, k) = [b EXCEPT ![s] = [b[s] EXCEPT !.count = b[s].count + 1]]
    BY <1>1 DEF AddOne
  <2>3. QED
    BY <1>1, <2>1, <2>2 DEF Bags, BagsOn
<1>2. CASE s \in Slots /\ b[s] = Empty
  <2>1. [itemId |-> k, objid |-> ix[s], count |-> 1, opt |-> Plain] \in Item
    BY <1>2, BagAssumption DEF Item, BagAssumption
  <2>2. QED
    BY <1>2, <2>1 DEF AddOne, Bags, BagsOn
<1>3. CASE s \notin Slots
  BY <1>3 DEF AddOne, Bags, BagsOn
<1>4. QED
  BY <1>1, <1>2, <1>3

\* No slot is emptied.
LEMMA AddOneKeepsItems ==
    ASSUME NEW b \in Bags, NEW ix \in [Slots -> Nat], NEW k \in ItemIds,
           NEW s \in Slots, b[s] # Empty
    PROVE  AddOne(b, ix, k)[s] # Empty
<1>1. CASE s = AddOneSlot(b, k)
  <2>1. [b[s] EXCEPT !.count = b[s].count + 1] \in Item
    BY DEF Bags, BagsOn, Item
  <2>2. AddOne(b, ix, k)[s] = [b[s] EXCEPT !.count = b[s].count + 1]
    BY <1>1 DEF AddOne, Bags, BagsOn
  <2>3. QED
    BY <2>1, <2>2, EmptyAssumption
<1>2. CASE s # AddOneSlot(b, k)
  BY <1>2 DEF AddOne, Bags, BagsOn
<1>3. QED
  BY <1>1, <1>2

\* The function AddUnits is defined by exists: it is built up unit by unit.
BuiltUp(f, b, ix, k, n) == f = [m \in 0 .. n |->
    IF m = 0 THEN b
    ELSE IF CanAddOne(f[m - 1], k) THEN AddOne(f[m - 1], ix, k) ELSE f[m - 1]]

LEMMA UnitsDefined ==
    ASSUME NEW b, NEW ix, NEW k, NEW n \in Nat
    PROVE  \E f : BuiltUp(f, b, ix, k, n)
<1> DEFINE Next1(x) == IF CanAddOne(x, k) THEN AddOne(x, ix, k) ELSE x
           Built(f, j) == f = [m \in 0 .. j |-> IF m = 0 THEN b ELSE Next1(f[m - 1])]
           good == {j \in 0 .. n : \E f : Built(f, j)}
<1>1. 0 \in good
  <2>1. Built([m \in 0 .. 0 |-> b], 0)
    OBVIOUS
  <2> HIDE DEF Built
  <2>2. \E f : Built(f, 0)
    BY <2>1
  <2>3. QED
    BY <2>2
<1>2. ASSUME NEW j \in 1 .. n, j - 1 \in good PROVE j \in good
  <2>1. PICK g : Built(g, j - 1)
    BY <1>2
  <2> DEFINE x == Next1(g[j - 1])
             h == [m \in 0 .. j |-> IF m = j THEN x ELSE g[m]]
  <2>2. \A m \in 0 .. (j - 1) : g[m] = IF m = 0 THEN b ELSE Next1(g[m - 1])
    BY <2>1
  <2> HIDE DEF Next1, x
  <2>3. /\ h[j] = x /\ \A m \in 0 .. (j - 1) : h[m] = g[m]
        /\ \A m \in 0 .. j : m # 0 => m - 1 \in 0 .. (j - 1)
        /\ h = [m \in 0 .. j |-> h[m]]
        /\ j # 0 /\ j - 1 \in 0 .. (j - 1)
    OBVIOUS
  <2> HIDE DEF h
  <2>4. ASSUME NEW m \in 0 .. j
        PROVE  h[m] = IF m = 0 THEN b ELSE Next1(h[m - 1])
    <3>1. CASE m = j
      BY <2>3, <3>1 DEF x
    <3>2. CASE m # j
      <4>1. m \in 0 .. (j - 1)
        BY <3>2
      <4>2. QED
        BY <2>2, <2>3, <4>1
    <3>3. QED
      BY <3>1, <3>2
  <2>5. Built(h, j)
    BY <2>3, <2>4
  <2> HIDE DEF Built
  <2>6. QED
    BY <2>5
<1>3. PICK f : Built(f, n)
  <2> HIDE DEF Built
  <2>1. n \in good
    <3> HIDE DEF good
    <3>1. n \in 0 .. n
      OBVIOUS
    <3>2. QED
      BY <1>1, <1>2, <3>1, UpTo
  <2>2. QED
    BY <2>1
<1>4. BuiltUp(f, b, ix, k, n)
  BY <1>3 DEF BuiltUp
<1>5. QED
  BY <1>4

\* All of n units, or as many as fit, make a well-formed bag, and empty no slot.
LEMMA AddUnitsType ==
    ASSUME NEW b \in Bags, NEW ix \in [Slots -> Nat], NEW k \in ItemIds, NEW n \in Nat
    PROVE  /\ AddUnits(b, ix, k, n) \in Bags
           /\ \A s \in Slots : b[s] # Empty => AddUnits(b, ix, k, n)[s] # Empty
<1> DEFINE Fine(x) == x \in Bags /\ \A s \in Slots : b[s] # Empty => x[s] # Empty
           one == CHOOSE f : BuiltUp(f, b, ix, k, n)
           bad == {j \in 0 .. n : ~ Fine(one[j])}
<1>1. one = [m \in 0 .. n |->
              IF m = 0 THEN b
              ELSE IF CanAddOne(one[m - 1], k) THEN AddOne(one[m - 1], ix, k) ELSE one[m - 1]]
  <2>1. BuiltUp(one, b, ix, k, n)
    BY UnitsDefined
  <2> HIDE DEF one
  <2>2. QED
    BY <2>1 DEF BuiltUp
<1>2. AddUnits(b, ix, k, n) = one[n]
  BY DEF AddUnits, BuiltUp
<1> HIDE DEF one
<1>3. bad = {}
  <2> SUFFICES ASSUME bad # {} PROVE FALSE
    OBVIOUS
  <2>1. PICK j \in bad : \A i \in bad : j <= i
    <3>1. bad \in SUBSET Nat
      OBVIOUS
    <3> HIDE DEF bad
    <3>2. QED
      BY <3>1, HasLeast
  <2>2. j # 0
    BY <1>1
  <2>3. j - 1 \in 0 .. n /\ j \in 0 .. n /\ Fine(one[j - 1])
    <3> HIDE DEF Fine
    <3>1. QED
      BY <2>1, <2>2
  <2>4. Fine(AddOne(one[j - 1], ix, k))
    BY <2>3, AddOneType, AddOneKeepsItems
  <2>5. one[j] = IF CanAddOne(one[j - 1], k) THEN AddOne(one[j - 1], ix, k) ELSE one[j - 1]
    BY <1>1, <2>2, <2>3
  <2> HIDE DEF Fine
  <2>6. QED
    BY <2>1, <2>3, <2>4, <2>5
<1>4. QED
  BY <1>2, <1>3

------------------------------------------------------------------------------
(* Sums over a finite set.                                                  *)

First(s) == CHOOSE x \in s : TRUE

\* The function SumFunctionOnSet is defined by: it takes one element after the
\* other out of a set.
IsSum(g, f, S) ==
    g = [s \in SUBSET S |-> IF s = {} THEN 0 ELSE f[First(s)] + g[s \ {First(s)}]]

LEMMA SumIs ==
    ASSUME NEW f, NEW S
    PROVE  SumFunctionOnSet(f, S) = (CHOOSE g : IsSum(g, f, S))[S]
  BY DEF SumFunctionOnSet, FoldFunctionOnSet, MapThenFoldSet, IsSum, First

\* The image of a finite set is finite.
LEMMA ImageFinite ==
    ASSUME NEW S, IsFiniteSet(S), NEW f
    PROVE  IsFiniteSet({f[x] : x \in S})
<1> DEFINE T == {f[x] : x \in S}
           g == [x \in S |-> f[x]]
<1>1. g \in [S -> T] /\ \A t \in T : \E x \in S : g[x] = t
  OBVIOUS
<1> HIDE DEF T, g
<1>2. g \in Surjection(S, T)
  BY <1>1 DEF Surjection
<1>3. IsFiniteSet(T)
  BY <1>2, FS_Surjection
<1>4. QED
  BY <1>3 DEF T

\* Among subsets of a finite set there is one with the fewest elements.
LEMMA HasFewest ==
    ASSUME NEW S, IsFiniteSet(S), NEW X \in SUBSET (SUBSET S), X # {}
    PROVE  \E s \in X : \A t \in X : Cardinality(s) <= Cardinality(t)
<1> DEFINE sizes == {Cardinality(s) : s \in X}
<1>1. sizes \in SUBSET Nat /\ sizes # {}
  <2>1. \A s \in X : Cardinality(s) \in Nat
    BY FS_Subset, FS_CardinalityType
  <2>2. QED
    BY <2>1
<1>2. PICK n \in sizes : \A m \in sizes : n <= m
  <2> HIDE DEF sizes
  <2>1. QED
    BY <1>1, HasLeast
<1>3. QED
  BY <1>2

\* Taking an element out of a set leaves one fewer.
LEMMA OneFewer ==
    ASSUME NEW S, IsFiniteSet(S), NEW s \in SUBSET S, NEW x \in s
    PROVE  /\ s \ {x} \in SUBSET S
           /\ Cardinality(s) \in Nat /\ Cardinality(s \ {x}) \in Nat
           /\ Cardinality(s \ {x}) = Cardinality(s) - 1
<1>1. IsFiniteSet(s)
  BY FS_Subset
<1>2. Cardinality(s \ {x}) = Cardinality(s) - 1 /\ IsFiniteSet(s \ {x})
  BY <1>1, FS_RemoveElement
<1>3. QED
  BY <1>1, <1>2, FS_CardinalityType

\* Induction over the subsets of a finite set, for a set Q of them.
LEMMA BySubsets ==
    ASSUME NEW S, IsFiniteSet(S), NEW Q, {} \in Q,
           \A s \in SUBSET S : \A x \in s : s \ {x} \in Q => s \in Q
    PROVE  S \in Q
<1> DEFINE bad == {s \in SUBSET S : s \notin Q}
<1>1. ASSUME bad # {} PROVE FALSE
  <2>1. PICK s \in bad : \A t \in bad : Cardinality(s) <= Cardinality(t)
    <3>1. bad \in SUBSET (SUBSET S)
      OBVIOUS
    <3> HIDE DEF bad
    <3>2. QED
      BY <1>1, <3>1, HasFewest
  <2>2. s \in SUBSET S /\ s \notin Q
    BY <2>1
  <2>3. PICK x \in s : TRUE
    BY <2>2
  <2>4. s \ {x} \in SUBSET S /\ s \ {x} \notin bad
    <3>1. /\ s \ {x} \in SUBSET S /\ Cardinality(s) \in Nat
          /\ Cardinality(s \ {x}) = Cardinality(s) - 1
      BY <2>2, OneFewer
    <3>2. ~ (Cardinality(s) <= Cardinality(s \ {x}))
      BY <3>1
    <3> HIDE DEF bad
    <3>3. QED
      BY <2>1, <3>1, <3>2
  <2>5. QED
    BY <2>2, <2>4
<1>2. QED
  BY <1>1

LEMMA FirstIn == ASSUME NEW s, s # {} PROVE First(s) \in s
  BY DEF First

LEMMA SumDefined ==
    ASSUME NEW f, NEW S, IsFiniteSet(S)
    PROVE  \E g : IsSum(g, f, S)
<1> DEFINE Small(j) == {s \in SUBSET S : Cardinality(s) <= j}
           Val(g, s) == IF s = {} THEN 0 ELSE f[First(s)] + g[s \ {First(s)}]
           Upto(g, j) == g = [s \in Small(j) |-> Val(g, s)]
           n == Cardinality(S)
           bad == {j \in 0 .. n : ~ \E g : Upto(g, j)}
<1>1. n \in Nat /\ Small(n) = SUBSET S
  BY FS_CardinalityType, FS_Subset
<1>2. \A s \in SUBSET S : Cardinality(s) \in Nat /\ (Cardinality(s) = 0 <=> s = {})
  BY FS_Subset, FS_CardinalityType, FS_EmptySet
<1>3. bad = {}
  <2> SUFFICES ASSUME bad # {} PROVE FALSE
    OBVIOUS
  <2>1. PICK j \in bad : \A i \in bad : j <= i
    <3>1. bad \in SUBSET Nat
      OBVIOUS
    <3> HIDE DEF bad
    <3>2. QED
      BY <3>1, HasLeast
  <2>2. j \in Nat /\ j <= n /\ ~ \E g : Upto(g, j)
    <3> HIDE DEF Upto, n
    <3>1. QED
      BY <1>1, <2>1
  <2>3. CASE j = 0
    <3> DEFINE g == [s \in Small(0) |-> 0]
    <3>1. \A s \in Small(0) : s = {}
      BY <1>2
    <3>2. Upto(g, 0)
      BY <3>1
    <3>3. QED
      BY <2>2, <2>3, <3>2
  <2>4. CASE j # 0
    <3>1. j - 1 \in 0 .. n /\ j - 1 \notin bad
      <4> HIDE DEF bad, n
      <4>1. j - 1 \in 0 .. n /\ ~ (j <= j - 1)
        BY <1>1, <2>2, <2>4
      <4>2. QED
        BY <2>1, <4>1
    <3>2. PICK g : Upto(g, j - 1)
      <4> HIDE DEF Upto
      <4>1. QED
        BY <3>1
    <3> DEFINE h == [s \in Small(j) |-> Val(g, s)]
    <3>3. ASSUME NEW s \in Small(j), s # {}
          PROVE  s \ {First(s)} \in Small(j - 1) /\ s \ {First(s)} \in Small(j)
      <4>1. First(s) \in s
        BY <3>3, FirstIn
      <4>2. QED
        BY <2>2, <4>1, OneFewer
    <3>4. \A s \in Small(j - 1) : s \in Small(j)
      BY <1>2, <2>2
    <3>5. \A s \in Small(j - 1) : g[s] = Val(g, s)
      <4> HIDE DEF Val, Small
      <4>1. QED
        BY <3>2
    <3>6. \A s \in Small(j) : h[s] = Val(g, s)
      <4> HIDE DEF Val, Small
      <4>1. QED
        OBVIOUS
    <3>7. \A s \in Small(j - 1) : h[s] = g[s]
      <4> HIDE DEF Val, Small, h
      <4>1. QED
        BY <3>4, <3>5, <3>6
    <3>8. \A s \in Small(j) : Val(h, s) = Val(g, s)
      <4> HIDE DEF Small, h
      <4>1. QED
        BY <3>3, <3>7
    <3>9. Upto(h, j)
      <4>1. h = [s \in Small(j) |-> h[s]]
        <5> HIDE DEF Val, Small
        <5>1. QED
          OBVIOUS
      <4> HIDE DEF Val, Small, h
      <4>2. QED
        BY <3>6, <3>8, <4>1
    <3>10. QED
      <4> HIDE DEF Upto, h
      <4>1. QED
        BY <2>2, <3>9
  <2>5. QED
    BY <2>3, <2>4
<1>4. PICK g : Upto(g, n)
  <2> HIDE DEF Upto
  <2>1. n \in 0 .. n
    BY <1>1
  <2>2. QED
    BY <1>3, <2>1
<1>5. IsSum(g, f, S)
  <2>1. g = [s \in Small(n) |-> IF s = {} THEN 0 ELSE f[First(s)] + g[s \ {First(s)}]]
    BY <1>4
  <2> HIDE DEF Small
  <2>2. QED
    BY <1>1, <2>1 DEF IsSum
<1>6. QED
  BY <1>5

\* Subset by subset: the sums are integers, and any element may be taken first.
LEMMA SumsUnfold ==
    ASSUME NEW f, NEW S, IsFiniteSet(S), \A x \in S : f[x] \in Int,
           NEW g, IsSum(g, f, S)
    PROVE  /\ g[{}] = 0
           /\ \A s \in SUBSET S : g[s] \in Int
           /\ \A s \in SUBSET S : \A x \in s : g[s] = f[x] + g[s \ {x}]
<1> DEFINE Fine(s) == g[s] \in Int /\ \A x \in s : g[s] = f[x] + g[s \ {x}]
           bad == {s \in SUBSET S : ~ Fine(s)}
<1>1. \A s \in SUBSET S : g[s] = IF s = {} THEN 0 ELSE f[First(s)] + g[s \ {First(s)}]
  BY DEF IsSum
<1>2. bad = {}
  <2> SUFFICES ASSUME bad # {} PROVE FALSE
    OBVIOUS
  <2>1. PICK s \in bad : \A t \in bad : Cardinality(s) <= Cardinality(t)
    <3>1. bad \in SUBSET (SUBSET S)
      OBVIOUS
    <3> HIDE DEF bad
    <3>2. QED
      BY <3>1, HasFewest
  <2>2. s \in SUBSET S /\ ~ Fine(s)
    BY <2>1
  <2>3. s # {}
    BY <1>1, <2>2
  <2> DEFINE c == First(s)
  <2>4. c \in s /\ g[s] = f[c] + g[s \ {c}]
    BY <1>1, <2>2, <2>3, FirstIn
  <2>5. ASSUME NEW x \in s
        PROVE  s \ {x} \in SUBSET S /\ Fine(s \ {x})
    <3>1. s \ {x} \in SUBSET S /\ s \ {x} \notin bad
      <4>1. /\ s \ {x} \in SUBSET S /\ Cardinality(s) \in Nat
            /\ Cardinality(s \ {x}) = Cardinality(s) - 1
        BY <2>2, OneFewer
      <4>2. ~ (Cardinality(s) <= Cardinality(s \ {x}))
        BY <4>1
      <4> HIDE DEF bad
      <4>3. QED
        BY <2>1, <4>1, <4>2
    <3> HIDE DEF Fine
    <3>2. QED
      BY <3>1
  <2> HIDE DEF c
  <2>6. g[s] \in Int
    <3>1. g[s \ {c}] \in Int /\ f[c] \in Int
      BY <2>2, <2>4, <2>5
    <3>2. QED
      BY <2>4, <3>1
  <2>7. ASSUME NEW x \in s
        PROVE  g[s] = f[x] + g[s \ {x}]
    <3>1. CASE x = c
      BY <2>4, <3>1
    <3>2. CASE x # c
      <4> DEFINE t == (s \ {c}) \ {x}
      <4>1. t = (s \ {x}) \ {c} /\ x \in s \ {c} /\ c \in s \ {x}
        BY <2>4, <3>2
      <4>2. g[s \ {c}] = f[x] + g[t]
        BY <2>4, <2>5, <4>1
      <4>3. g[s \ {x}] = f[c] + g[t]
        <5>1. g[s \ {x}] = f[c] + g[(s \ {x}) \ {c}]
          BY <2>5, <4>1
        <5>2. QED
          BY <4>1, <5>1
      <4>4. g[t] \in Int
        <5>1. t \in SUBSET S
          BY <2>2
        <5>2. t \notin bad
          <6>1. /\ Cardinality(s) \in Nat
                /\ Cardinality(s \ {c}) = Cardinality(s) - 1
                /\ Cardinality(t) = Cardinality(s \ {c}) - 1
            BY <2>2, <2>4, <4>1, OneFewer
          <6>2. ~ (Cardinality(s) <= Cardinality(t))
            BY <6>1
          <6> HIDE DEF bad, t
          <6>3. QED
            BY <2>1, <6>2
        <5>3. Fine(t)
          <6> HIDE DEF Fine, t
          <6>1. QED
            BY <5>1, <5>2
        <5>4. QED
          BY <5>3
      <4> HIDE DEF t
      <4>5. f[x] \in Int /\ f[c] \in Int
        BY <2>2, <2>4
      <4>6. QED
        BY <2>4, <4>2, <4>3, <4>4, <4>5
    <3>3. QED
      BY <3>1, <3>2
  <2>8. QED
    BY <2>2, <2>6, <2>7
<1>3. QED
  <2>1. \A s \in SUBSET S : Fine(s)
    <3> HIDE DEF Fine
    <3>1. QED
      BY <1>2
  <2>2. QED
    BY <1>1, <2>1

\* Two such functions agree wherever the functions summed do.
LEMMA SumsAgree ==
    ASSUME NEW f, NEW h, NEW S, IsFiniteSet(S), NEW T \in SUBSET S,
           \A x \in T : f[x] = h[x],
           NEW g, IsSum(g, f, S), NEW k, IsSum(k, h, T)
    PROVE  g[T] = k[T]
<1> DEFINE bad == {s \in SUBSET T : g[s] # k[s]}
<1>1. \A s \in SUBSET T : /\ g[s] = IF s = {} THEN 0 ELSE f[First(s)] + g[s \ {First(s)}]
                          /\ k[s] = IF s = {} THEN 0 ELSE h[First(s)] + k[s \ {First(s)}]
  BY DEF IsSum
<1>2. IsFiniteSet(T)
  BY FS_Subset
<1>3. bad = {}
  <2> SUFFICES ASSUME bad # {} PROVE FALSE
    OBVIOUS
  <2>1. PICK s \in bad : \A t \in bad : Cardinality(s) <= Cardinality(t)
    <3>1. bad \in SUBSET (SUBSET T)
      OBVIOUS
    <3> HIDE DEF bad
    <3>2. QED
      BY <1>2, <3>1, HasFewest
  <2>2. s \in SUBSET T /\ g[s] # k[s]
    BY <2>1
  <2>3. s # {} /\ First(s) \in s
    BY <1>1, <2>2, FirstIn
  <2>4. s \ {First(s)} \in SUBSET T /\ s \ {First(s)} \notin bad
    <3>1. /\ s \ {First(s)} \in SUBSET T /\ Cardinality(s) \in Nat
          /\ Cardinality(s \ {First(s)}) = Cardinality(s) - 1
      BY <1>2, <2>2, <2>3, OneFewer
    <3>2. ~ (Cardinality(s) <= Cardinality(s \ {First(s)}))
      BY <3>1
    <3> HIDE DEF bad
    <3>3. QED
      BY <2>1, <3>1, <3>2
  <2>5. QED
    BY <1>1, <2>2, <2>3, <2>4
<1>4. QED
  BY <1>3

LEMMA SumBy ==
    ASSUME NEW f, NEW S, IsFiniteSet(S)
    PROVE  \E g : IsSum(g, f, S) /\ SumFunctionOnSet(f, S) = g[S]
<1> DEFINE g == CHOOSE h : IsSum(h, f, S)
<1>1. IsSum(g, f, S)
  BY SumDefined
<1>2. SumFunctionOnSet(f, S) = g[S]
  BY SumIs
<1> HIDE DEF g
<1>3. QED
  BY <1>1, <1>2

\* A sum of integers is one; it is f's value at any element, and the sum of the rest.
LEMMA SumUnfolds ==
    ASSUME NEW f, NEW S, IsFiniteSet(S), \A x \in S : f[x] \in Int
    PROVE  /\ SumFunctionOnSet(f, S) \in Int
           /\ \A x \in S : SumFunctionOnSet(f, S) = f[x] + SumFunctionOnSet(f, S \ {x})
<1>1. PICK g : IsSum(g, f, S) /\ SumFunctionOnSet(f, S) = g[S]
  BY SumBy
<1>2. g[S] \in Int /\ \A x \in S : g[S] = f[x] + g[S \ {x}]
  BY <1>1, SumsUnfold
<1>3. ASSUME NEW x \in S
      PROVE  g[S \ {x}] = SumFunctionOnSet(f, S \ {x})
  <2>1. IsFiniteSet(S \ {x})
    BY FS_RemoveElement
  <2>2. PICK k : IsSum(k, f, S \ {x}) /\ SumFunctionOnSet(f, S \ {x}) = k[S \ {x}]
    BY <2>1, SumBy
  <2>3. S \ {x} \in SUBSET S /\ \A y \in S \ {x} : f[y] = f[y]
    OBVIOUS
  <2>4. g[S \ {x}] = k[S \ {x}]
    BY <1>1, <2>2, <2>3, SumsAgree
  <2>5. QED
    BY <2>2, <2>4
<1>4. QED
  BY <1>1, <1>2, <1>3

LEMMA SumEmpty ==
    ASSUME NEW f
    PROVE  SumFunctionOnSet(f, {}) = 0
<1>1. IsFiniteSet({})
  BY FS_EmptySet
<1>2. PICK g : IsSum(g, f, {}) /\ SumFunctionOnSet(f, {}) = g[{}]
  BY <1>1, SumBy
<1>3. QED
  BY <1>1, <1>2, SumsUnfold

\* Only the values on S count.
LEMMA SumSame ==
    ASSUME NEW f, NEW h, NEW S, IsFiniteSet(S), \A x \in S : f[x] = h[x]
    PROVE  SumFunctionOnSet(f, S) = SumFunctionOnSet(h, S)
<1>1. PICK g : IsSum(g, f, S) /\ SumFunctionOnSet(f, S) = g[S]
  BY SumBy
<1>2. PICK k : IsSum(k, h, S) /\ SumFunctionOnSet(h, S) = k[S]
  BY SumBy
<1>3. S \in SUBSET S
  OBVIOUS
<1>4. g[S] = k[S]
  BY <1>1, <1>2, <1>3, SumsAgree
<1>5. QED
  BY <1>1, <1>2, <1>4

\* A change of one value changes the sum by as much ...
LEMMA SumChanged ==
    ASSUME NEW f, NEW h, NEW S, IsFiniteSet(S), NEW x \in S,
           \A y \in S : f[y] \in Int /\ h[y] \in Int,
           \A y \in S \ {x} : f[y] = h[y]
    PROVE  SumFunctionOnSet(h, S) - SumFunctionOnSet(f, S) = h[x] - f[x]
<1> DEFINE rest == SumFunctionOnSet(f, S \ {x})
<1>1. IsFiniteSet(S \ {x})
  BY FS_RemoveElement
<1>2. SumFunctionOnSet(f, S) = f[x] + rest /\ rest \in Int
  BY <1>1, SumUnfolds
<1>3. SumFunctionOnSet(h, S) = h[x] + SumFunctionOnSet(h, S \ {x})
  BY SumUnfolds
<1>4. SumFunctionOnSet(h, S \ {x}) = rest
  BY <1>1, SumSame
<1> HIDE DEF rest
<1>5. f[x] \in Int /\ h[x] \in Int
  OBVIOUS
<1>6. QED
  BY <1>2, <1>3, <1>4, <1>5

\* ... and a change of two that leaves their sum alone changes nothing.
LEMMA SumMoved ==
    ASSUME NEW f, NEW h, NEW S, IsFiniteSet(S), NEW x \in S, NEW z \in S, x # z,
           \A y \in S : f[y] \in Int /\ h[y] \in Int,
           \A y \in S \ {x, z} : f[y] = h[y],
           f[x] + f[z] = h[x] + h[z]
    PROVE  SumFunctionOnSet(h, S) = SumFunctionOnSet(f, S)
<1> DEFINE Of(e) == SumFunctionOnSet(e, S)
           rest == S \ {x}
           ends == (S \ {x}) \ {z}
<1>1. IsFiniteSet(rest) /\ IsFiniteSet(ends)
  BY FS_RemoveElement
<1>2. z \in rest /\ \A y \in rest : f[y] \in Int /\ h[y] \in Int
  OBVIOUS
<1>3. Of(f) = f[x] + SumFunctionOnSet(f, rest) /\ Of(h) = h[x] + SumFunctionOnSet(h, rest)
  BY SumUnfolds
<1>4. /\ SumFunctionOnSet(f, rest) = f[z] + SumFunctionOnSet(f, ends)
      /\ SumFunctionOnSet(h, rest) = h[z] + SumFunctionOnSet(h, ends)
  <2> HIDE DEF rest
  <2>1. \A y \in rest : f[y] \in Int
    BY <1>2
  <2>2. \A y \in rest : h[y] \in Int
    BY <1>2
  <2>3. SumFunctionOnSet(f, rest) = f[z] + SumFunctionOnSet(f, rest \ {z})
    BY <1>1, <1>2, <2>1, SumUnfolds
  <2>4. SumFunctionOnSet(h, rest) = h[z] + SumFunctionOnSet(h, rest \ {z})
    BY <1>1, <1>2, <2>2, SumUnfolds
  <2>5. QED
    BY <2>3, <2>4 DEF rest
<1>5. SumFunctionOnSet(f, ends) = SumFunctionOnSet(h, ends)
  <2>1. \A y \in ends : f[y] = h[y]
    OBVIOUS
  <2> HIDE DEF ends
  <2>2. QED
    BY <1>1, <2>1, SumSame
<1>6. SumFunctionOnSet(f, ends) \in Int
  <2>1. \A y \in ends : f[y] \in Int
    OBVIOUS
  <2> HIDE DEF ends
  <2>2. QED
    BY <1>1, <2>1, SumUnfolds
<1>7. f[x] \in Int /\ f[z] \in Int /\ h[x] \in Int /\ h[z] \in Int
  OBVIOUS
<1> HIDE DEF ends, rest
<1>8. /\ Of(f) = f[x] + (f[z] + SumFunctionOnSet(f, ends))
      /\ Of(h) = h[x] + (h[z] + SumFunctionOnSet(f, ends))
  BY <1>3, <1>4, <1>5
<1> HIDE DEF Of
<1>9. Of(h) = Of(f)
  BY <1>6, <1>7, <1>8
<1>10. QED
  BY <1>9 DEF Of

\* A sum of natural numbers is one, and at least each of them.
LEMMA SumNat ==
    ASSUME NEW f, NEW S, IsFiniteSet(S), \A x \in S : f[x] \in Nat
    PROVE  /\ SumFunctionOnSet(f, S) \in Nat
           /\ \A x \in S : f[x] <= SumFunctionOnSet(f, S)
<1> DEFINE Q == {s \in SUBSET S : SumFunctionOnSet(f, s) \in Nat}
<1>1. \A s \in SUBSET S : IsFiniteSet(s)
  BY FS_Subset
<1>2. ASSUME NEW s \in SUBSET S, NEW x \in s
      PROVE  SumFunctionOnSet(f, s) = f[x] + SumFunctionOnSet(f, s \ {x})
  BY <1>1, SumUnfolds
<1>3. ASSUME NEW s \in SUBSET S PROVE s \in Q
  <2>1. {} \in Q
    BY SumEmpty
  <2>2. ASSUME NEW t \in SUBSET s, NEW x \in t, t \ {x} \in Q PROVE t \in Q
    <3>1. t \in SUBSET S /\ f[x] \in Nat /\ SumFunctionOnSet(f, t \ {x}) \in Nat
      BY <2>2
    <3>2. SumFunctionOnSet(f, t) = f[x] + SumFunctionOnSet(f, t \ {x})
      BY <1>2, <3>1
    <3>3. QED
      BY <3>1, <3>2
  <2> HIDE DEF Q
  <2>3. QED
    BY <1>1, <2>1, <2>2, BySubsets
<1>4. \A s \in SUBSET S : SumFunctionOnSet(f, s) \in Nat
  BY <1>3
<1>5. ASSUME NEW x \in S
      PROVE  f[x] <= SumFunctionOnSet(f, S)
  <2>1. SumFunctionOnSet(f, S \ {x}) \in Nat /\ f[x] \in Nat
    BY <1>4
  <2>2. SumFunctionOnSet(f, S) = f[x] + SumFunctionOnSet(f, S \ {x})
    BY <1>2
  <2>3. QED
    BY <2>1, <2>2
<1>6. QED
  BY <1>4, <1>5
\* Sums are added value by value.
LEMMA SumPlus ==
    ASSUME NEW f, NEW h, NEW e, NEW S, IsFiniteSet(S),
           \A x \in S : f[x] \in Int /\ h[x] \in Int /\ e[x] = f[x] + h[x]
    PROVE  SumFunctionOnSet(e, S) = SumFunctionOnSet(f, S) + SumFunctionOnSet(h, S)
<1> DEFINE Of(d, s) == SumFunctionOnSet(d, s)
           Q == {s \in SUBSET S : Of(e, s) = Of(f, s) + Of(h, s)}
<1>1. {} \in Q
  BY SumEmpty
<1>2. ASSUME NEW s \in SUBSET S, NEW x \in s, s \ {x} \in Q PROVE s \in Q
  <2>1. IsFiniteSet(s) /\ IsFiniteSet(s \ {x})
    BY FS_Subset
  <2>2. \A y \in s : f[y] \in Int /\ h[y] \in Int /\ e[y] \in Int
    OBVIOUS
  <2>3. Of(f, s) = f[x] + Of(f, s \ {x}) /\ Of(f, s \ {x}) \in Int
    BY <2>1, <2>2, SumUnfolds
  <2>4. Of(h, s) = h[x] + Of(h, s \ {x}) /\ Of(h, s \ {x}) \in Int
    BY <2>1, <2>2, SumUnfolds
  <2>5. Of(e, s) = e[x] + Of(e, s \ {x})
    BY <2>1, <2>2, SumUnfolds
  <2>6. Of(e, s \ {x}) = Of(f, s \ {x}) + Of(h, s \ {x})
    BY <1>2
  <2>7. e[x] = f[x] + h[x] /\ f[x] \in Int /\ h[x] \in Int
    OBVIOUS
  <2> HIDE DEF Of
  <2>8. Of(e, s) = Of(f, s) + Of(h, s)
    BY <2>3, <2>4, <2>5, <2>6, <2>7
  <2>9. QED
    BY <2>8
<1>3. S \in Q
  <2> HIDE DEF Q
  <2>1. QED
    BY <1>1, <1>2, BySubsets
<1>4. QED
  BY <1>3

LEMMA SumZero ==
    ASSUME NEW f, NEW S, IsFiniteSet(S), \A x \in S : f[x] = 0
    PROVE  SumFunctionOnSet(f, S) = 0
<1>0. \A x \in S : f[x] \in Int /\ f[x] = f[x] + f[x]
  OBVIOUS
<1>1. SumFunctionOnSet(f, S) = SumFunctionOnSet(f, S) + SumFunctionOnSet(f, S)
  BY <1>0, SumPlus
<1>2. SumFunctionOnSet(f, S) \in Int
  BY <1>0, SumUnfolds
<1> DEFINE n == SumFunctionOnSet(f, S)
<1> HIDE DEF n
<1>3. n = n + n /\ n \in Int
  BY <1>1, <1>2 DEF n
<1>4. n = 0
  BY <1>3
<1>5. QED
  BY <1>4 DEF n

\* A sum over some elements is one over all, the others counting nothing.
LEMMA SumOver ==
    ASSUME NEW f, NEW h, NEW S, IsFiniteSet(S), NEW T \in SUBSET S,
           \A x \in S : h[x] \in Int,
           \A x \in T : h[x] = f[x],
           \A x \in S \ T : h[x] = 0
    PROVE  SumFunctionOnSet(h, S) = SumFunctionOnSet(f, T)
<1> DEFINE Of(d, s) == SumFunctionOnSet(d, s)
           Q == {s \in SUBSET S : Of(h, s) = Of(f, s \cap T)}
<1>1. {} \in Q
  <2>1. {} \cap T = {}
    OBVIOUS
  <2>2. QED
    BY <2>1, SumEmpty
<1>2. ASSUME NEW s \in SUBSET S, NEW x \in s, s \ {x} \in Q PROVE s \in Q
  <2>1. IsFiniteSet(s) /\ IsFiniteSet(s \ {x}) /\ IsFiniteSet(s \cap T)
    BY FS_Subset
  <2>2. \A y \in s : h[y] \in Int
    OBVIOUS
  <2>3. Of(h, s) = h[x] + Of(h, s \ {x}) /\ Of(h, s \ {x}) \in Int
    BY <2>1, <2>2, SumUnfolds
  <2>4. Of(h, s \ {x}) = Of(f, (s \ {x}) \cap T)
    BY <1>2
  <2>5. CASE x \in T
    <3>1. \A y \in s \cap T : f[y] \in Int
      OBVIOUS
    <3>2. x \in s \cap T
      BY <2>5
    <3>3. Of(f, s \cap T) = f[x] + Of(f, (s \cap T) \ {x})
      <4> DEFINE u == s \cap T
      <4>1. IsFiniteSet(u) /\ x \in u /\ \A y \in u : f[y] \in Int
        BY <2>1, <3>1, <3>2
      <4> HIDE DEF u
      <4>2. SumFunctionOnSet(f, u) = f[x] + SumFunctionOnSet(f, u \ {x})
        BY <4>1, SumUnfolds
      <4>3. QED
        BY <4>2 DEF u
    <3>4. (s \cap T) \ {x} = (s \ {x}) \cap T /\ h[x] = f[x]
      BY <2>5
    <3>5. Of(f, (s \cap T) \ {x}) = Of(h, s \ {x})
      BY <2>4, <3>4
    <3>6. Of(h, s) = Of(f, s \cap T)
      BY <2>3, <3>3, <3>4, <3>5
    <3>7. QED
      BY <3>6
  <2>6. CASE x \notin T
    <3>1. (s \ {x}) \cap T = s \cap T /\ h[x] = 0
      BY <2>6
    <3>2. Of(f, (s \ {x}) \cap T) = Of(f, s \cap T)
      BY <3>1
    <3> HIDE DEF Of
    <3>3. Of(h, s) = Of(h, s \ {x})
      BY <2>3, <3>1
    <3>4. Of(h, s) = Of(f, s \cap T)
      BY <2>4, <3>2, <3>3
    <3>5. QED
      BY <3>4
  <2>7. QED
    BY <2>5, <2>6
<1>3. S \in Q
  <2> HIDE DEF Q
  <2>1. QED
    BY <1>1, <1>2, BySubsets
<1>4. S \cap T = T
  OBVIOUS
<1>5. QED
  BY <1>3, <1>4

\* Sums agree along a one-to-one correspondence of what is summed.
LEMMA SumThrough ==
    ASSUME NEW S, IsFiniteSet(S), NEW T, NEW f, NEW h, NEW m \in [S -> T],
           \A x, y \in S : m[x] = m[y] => x = y,
           \A z \in T : \E x \in S : m[x] = z,
           \A x \in S : f[x] \in Int /\ f[x] = h[m[x]]
    PROVE  SumFunctionOnSet(f, S) = SumFunctionOnSet(h, T)
<1> DEFINE Of(d, s) == SumFunctionOnSet(d, s)
           Image(s) == {m[x] : x \in s}
           Q == {s \in SUBSET S : Of(f, s) = Of(h, Image(s))}
<1>1. {} \in Q
  <2>1. Image({}) = {}
    OBVIOUS
  <2>2. QED
    BY <2>1, SumEmpty
<1>2. ASSUME NEW s \in SUBSET S, NEW x \in s, s \ {x} \in Q PROVE s \in Q
  <2>1. IsFiniteSet(s)
    BY FS_Subset
  <2>2. IsFiniteSet(Image(s))
    BY <2>1, ImageFinite
  <2>3. \A y \in s : f[y] \in Int
    OBVIOUS
  <2>4. \A z \in Image(s) : h[z] \in Int
    OBVIOUS
  <2>5. Of(f, s) = f[x] + Of(f, s \ {x})
    BY <2>1, <2>3, SumUnfolds
  <2>6. m[x] \in Image(s) /\ Image(s) \ {m[x]} = Image(s \ {x})
    OBVIOUS
  <2>7. Of(h, Image(s)) = h[m[x]] + Of(h, Image(s) \ {m[x]})
    <3> HIDE DEF Image
    <3>1. QED
      BY <2>2, <2>4, <2>6, SumUnfolds
  <2>8. Of(f, s \ {x}) = Of(h, Image(s \ {x})) /\ f[x] = h[m[x]]
    BY <1>2
  <2> HIDE DEF Of, Image
  <2>9. Of(f, s) = Of(h, Image(s))
    BY <2>5, <2>6, <2>7, <2>8
  <2>10. QED
    BY <2>9
<1>3. S \in Q
  <2> HIDE DEF Q
  <2>1. QED
    BY <1>1, <1>2, BySubsets
<1>4. Image(S) = T
  OBVIOUS
<1>5. QED
  BY <1>3, <1>4

------------------------------------------------------------------------------
(* The rank of an element: how many stand before it.                        *)

Orders(R, S) == /\ \A x \in S : <<x, x>> \notin R
                /\ \A x, y \in S : x # y => <<x, y>> \in R \/ <<y, x>> \in R
                /\ \A x, y, z \in S : <<x, y>> \in R /\ <<y, z>> \in R => <<x, z>> \in R

Below(R, S, x) == {y \in S : <<y, x>> \in R}

\* Ranks grow with the order, and number a finite set from 0 without a gap.
LEMMA Ranked ==
    ASSUME NEW R, NEW S, IsFiniteSet(S), Orders(R, S)
    PROVE  /\ Cardinality(S) \in Nat
           /\ \A x \in S : Cardinality(Below(R, S, x)) \in 0 .. (Cardinality(S) - 1)
           /\ \A x, y \in S : <<x, y>> \in R
                => Cardinality(Below(R, S, x)) < Cardinality(Below(R, S, y))
           /\ \A n \in 0 .. (Cardinality(S) - 1) :
                \E x \in S : Cardinality(Below(R, S, x)) = n
<1> DEFINE rank == [x \in S |-> Cardinality(Below(R, S, x))]
           ranks == 0 .. (Cardinality(S) - 1)
<1>1. \A s \in SUBSET S : IsFiniteSet(s) /\ Cardinality(s) \in Nat /\ Cardinality(s) <= Cardinality(S)
  BY FS_Subset, FS_CardinalityType
<1>2. \A x \in S : Below(R, S, x) \in SUBSET S
  BY DEF Below
<1>3. ASSUME NEW x \in S, NEW y \in S, <<x, y>> \in R
      PROVE  Cardinality(Below(R, S, x)) < Cardinality(Below(R, S, y))
  <2>1. Below(R, S, x) \in SUBSET (Below(R, S, y) \ {x}) /\ x \in Below(R, S, y)
    BY <1>3 DEF Below, Orders
  <2>2. /\ IsFiniteSet(Below(R, S, y)) /\ IsFiniteSet(Below(R, S, y) \ {x})
        /\ Cardinality(Below(R, S, y) \ {x}) = Cardinality(Below(R, S, y)) - 1
    BY <1>1, <1>2, <2>1, FS_RemoveElement
  <2>3. Cardinality(Below(R, S, x)) <= Cardinality(Below(R, S, y) \ {x})
    BY <2>1, <2>2, FS_Subset
  <2>4. Cardinality(Below(R, S, x)) \in Nat /\ Cardinality(Below(R, S, y)) \in Nat
    BY <1>1, <1>2
  <2>5. QED
    BY <2>2, <2>3, <2>4
<1>4. ASSUME NEW x \in S PROVE Cardinality(Below(R, S, x)) \in ranks
  <2>1. Below(R, S, x) \in SUBSET (S \ {x})
    BY DEF Below, Orders
  <2>2. IsFiniteSet(S \ {x}) /\ Cardinality(S \ {x}) = Cardinality(S) - 1
    BY FS_RemoveElement
  <2>3. Cardinality(Below(R, S, x)) <= Cardinality(S) - 1
    BY <2>1, <2>2, FS_Subset
  <2>4. Cardinality(Below(R, S, x)) \in Nat /\ Cardinality(S) \in Nat
    BY <1>1, <1>2
  <2>5. QED
    BY <2>3, <2>4
<1>5. rank \in Injection(S, ranks)
  <2>1. rank \in [S -> ranks]
    BY <1>4
  <2>2. ASSUME NEW x \in S, NEW y \in S, rank[x] = rank[y] PROVE x = y
    <3>1. rank[x] = Cardinality(Below(R, S, x)) /\ rank[y] = Cardinality(Below(R, S, y))
      OBVIOUS
    <3>2. ~ (<<x, y>> \in R) /\ ~ (<<y, x>> \in R)
      BY <1>1, <1>2, <1>3, <2>2, <3>1
    <3>3. QED
      BY <3>2 DEF Orders
  <2> HIDE DEF rank
  <2>3. QED
    BY <2>1, <2>2 DEF Injection, IsInjective
<1>6. Cardinality(S) \in Nat
  BY FS_CardinalityType
<1>7. IsFiniteSet(ranks) /\ Cardinality(ranks) = Cardinality(S)
  <2>1. 0 \in Int /\ Cardinality(S) - 1 \in Int
    BY <1>6
  <2>2. IsFiniteSet(ranks) /\ Cardinality(ranks) = IF 0 > Cardinality(S) - 1 THEN 0
                                                   ELSE (Cardinality(S) - 1) - 0 + 1
    BY <2>1, FS_Interval
  <2>3. QED
    BY <1>6, <2>2
<1>8. rank \in Surjection(S, ranks)
  <2> HIDE DEF rank, ranks
  <2>1. QED
    BY <1>5, <1>7, FS_Injection
<1>9. \A n \in ranks : \E x \in S : Cardinality(Below(R, S, x)) = n
  BY <1>8 DEF Surjection
<1>10. QED
  BY <1>3, <1>4, <1>6, <1>9

------------------------------------------------------------------------------
(* How many units a bag holds, and how many more it takes.                   *)

Held(b, k) == SumFunction([s \in Slots |-> CountOf(b[s], k)])

LEMMA SlotsFinite == IsFiniteSet(Slots)
  BY FS_Interval, BagAssumption DEF Slots, BagAssumption

LEMMA CountType ==
    ASSUME NEW x \in Item \cup {Empty}, NEW k
    PROVE  CountOf(x, k) \in Nat
  BY DEF CountOf, Item

LEMMA HeadroomType ==
    ASSUME NEW x \in Item \cup {Empty}, NEW k \in ItemIds
    PROVE  /\ Headroom(x, k) \in Nat
           /\ Headroom(x, k) # 0 <=> \/ x = Empty
                                     \/ /\ x.itemId = k /\ x.opt = Plain
                                        /\ x.count < StackSize[k]
<1>1. StackSize[k] \in Nat \ {0}
  BY BagAssumption DEF BagAssumption
<1>2. x # Empty => x.count \in Nat
  BY DEF Item
<1>3. QED
  BY <1>1, <1>2 DEF Headroom

LEMMA LessCount ==
    ASSUME NEW item \in Item, NEW n \in Nat \ {0}, n <= item.count, NEW k
    PROVE  CountOf(Less(item, n), k) = CountOf(item, k) - (IF item.itemId = k THEN n ELSE 0)
<1>1. item # Empty /\ item.count \in Nat
  BY EmptyAssumption DEF Item
<1>2. CASE item.count > n
  <2> DEFINE x == [item EXCEPT !.count = item.count - n]
  <2>1. x \in Item /\ x.itemId = item.itemId /\ x.count = item.count - n
    BY <1>1, <1>2 DEF Item
  <2>2. Less(item, n) = x /\ x # Empty
    BY <1>2, <2>1, EmptyAssumption DEF Less
  <2> HIDE DEF x
  <2>3. QED
    BY <1>1, <2>1, <2>2 DEF CountOf
<1>3. CASE ~ (item.count > n)
  <2>1. Less(item, n) = Empty /\ item.count = n
    BY <1>1, <1>3 DEF Less
  <2>2. QED
    BY <1>1, <2>1 DEF CountOf
<1>4. QED
  BY <1>2, <1>3

LEMMA HeldIs ==
    ASSUME NEW b, NEW k
    PROVE  Held(b, k) = SumFunctionOnSet([s \in Slots |-> CountOf(b[s], k)], Slots)
  BY DEF Held, SumFunction

LEMMA SpaceIs ==
    ASSUME NEW b, NEW k
    PROVE  SpaceFor(b, k) = SumFunctionOnSet([s \in Slots |-> Headroom(b[s], k)], Slots)
  BY DEF SpaceFor, SumFunction

\* A bag of which one slot has changed.
LEMMA HeldAfter ==
    ASSUME NEW b \in Bags, NEW c \in Bags, NEW s \in Slots,
           \A y \in Slots \ {s} : b[y] = c[y], NEW k
    PROVE  /\ Held(b, k) \in Nat /\ Held(c, k) \in Nat
           /\ Held(c, k) - Held(b, k) = CountOf(c[s], k) - CountOf(b[s], k)
<1> DEFINE f == [y \in Slots |-> CountOf(b[y], k)]
           h == [y \in Slots |-> CountOf(c[y], k)]
<1>1. \A y \in Slots : f[y] \in Nat /\ h[y] \in Nat
  <2>1. \A y \in Slots : b[y] \in Item \cup {Empty} /\ c[y] \in Item \cup {Empty}
    BY DEF Bags, BagsOn
  <2>2. QED
    BY <2>1, CountType
<1>2. /\ \A y \in Slots \ {s} : f[y] = h[y]
      /\ f[s] = CountOf(b[s], k) /\ h[s] = CountOf(c[s], k)
  OBVIOUS
<1>3. Held(b, k) = SumFunctionOnSet(f, Slots) /\ Held(c, k) = SumFunctionOnSet(h, Slots)
  BY HeldIs
<1> HIDE DEF f, h
<1>4. SumFunctionOnSet(f, Slots) \in Nat /\ SumFunctionOnSet(h, Slots) \in Nat
  BY <1>1, SlotsFinite, SumNat
<1>5. SumFunctionOnSet(h, Slots) - SumFunctionOnSet(f, Slots) = h[s] - f[s]
  <2>1. \A y \in Slots : f[y] \in Int /\ h[y] \in Int
    BY <1>1
  <2>2. QED
    BY <1>2, <2>1, SlotsFinite, SumChanged
<1>6. QED
  BY <1>2, <1>3, <1>4, <1>5

LEMMA SpaceAfter ==
    ASSUME NEW b \in Bags, NEW c \in Bags, NEW s \in Slots,
           \A y \in Slots \ {s} : b[y] = c[y], NEW k \in ItemIds
    PROVE  /\ SpaceFor(b, k) \in Nat /\ SpaceFor(c, k) \in Nat
           /\ SpaceFor(c, k) - SpaceFor(b, k) = Headroom(c[s], k) - Headroom(b[s], k)
<1> DEFINE f == [y \in Slots |-> Headroom(b[y], k)]
           h == [y \in Slots |-> Headroom(c[y], k)]
<1>1. \A y \in Slots : f[y] \in Nat /\ h[y] \in Nat
  <2>1. \A y \in Slots : b[y] \in Item \cup {Empty} /\ c[y] \in Item \cup {Empty}
    BY DEF Bags, BagsOn
  <2>2. QED
    BY <2>1, HeadroomType
<1>2. /\ \A y \in Slots \ {s} : f[y] = h[y]
      /\ f[s] = Headroom(b[s], k) /\ h[s] = Headroom(c[s], k)
  OBVIOUS
<1>3. SpaceFor(b, k) = SumFunctionOnSet(f, Slots) /\ SpaceFor(c, k) = SumFunctionOnSet(h, Slots)
  BY SpaceIs
<1> HIDE DEF f, h
<1>4. SumFunctionOnSet(f, Slots) \in Nat /\ SumFunctionOnSet(h, Slots) \in Nat
  BY <1>1, SlotsFinite, SumNat
<1>5. SumFunctionOnSet(h, Slots) - SumFunctionOnSet(f, Slots) = h[s] - f[s]
  <2>1. \A y \in Slots : f[y] \in Int /\ h[y] \in Int
    BY <1>1
  <2>2. QED
    BY <1>2, <2>1, SlotsFinite, SumChanged
<1>6. QED
  BY <1>2, <1>3, <1>4, <1>5

\* A unit can be added exactly when there is room for one.
LEMMA CanAddIsSpace ==
    ASSUME NEW b \in Bags, NEW k \in ItemIds
    PROVE  CanAddOne(b, k) <=> SpaceFor(b, k) # 0
<1> DEFINE f == [y \in Slots |-> Headroom(b[y], k)]
<1>1. \A y \in Slots : b[y] \in Item \cup {Empty}
  BY DEF Bags, BagsOn
<1>2. \A y \in Slots : f[y] \in Nat /\ (f[y] # 0 <=> y \in Partial(b, k) \cup EmptySlots(b))
  <2>1. TAKE y \in Slots
  <2>2. /\ Headroom(b[y], k) \in Nat
        /\ Headroom(b[y], k) # 0 <=> \/ b[y] = Empty
                                     \/ /\ b[y].itemId = k /\ b[y].opt = Plain
                                        /\ b[y].count < StackSize[k]
    BY <1>1, HeadroomType
  <2>3. QED
    BY <2>2 DEF Partial, EmptySlots
<1>3. Partial(b, k) \subseteq Slots /\ EmptySlots(b) \subseteq Slots
  BY DEF Partial, EmptySlots
<1>4. SpaceFor(b, k) = SumFunctionOnSet(f, Slots)
  BY SpaceIs
<1> HIDE DEF f
<1>5. CASE CanAddOne(b, k)
  <2>1. PICK y \in Slots : f[y] # 0
    BY <1>2, <1>3, <1>5 DEF CanAddOne
  <2>2. f[y] \in Nat /\ f[y] <= SumFunctionOnSet(f, Slots) /\ SumFunctionOnSet(f, Slots) \in Nat
    BY <1>2, SlotsFinite, SumNat
  <2>3. QED
    BY <1>4, <1>5, <2>1, <2>2
<1>6. CASE ~ CanAddOne(b, k)
  <2>1. \A y \in Slots : f[y] = 0
    BY <1>2, <1>6 DEF CanAddOne
  <2>2. SumFunctionOnSet(f, Slots) = 0
    BY <2>1, SlotsFinite, SumZero
  <2>3. QED
    BY <1>4, <1>6, <2>2
<1>7. QED
  BY <1>5, <1>6

\* Where there is room, addItem of one unit adds it and takes one unit of room.
LEMMA AddOneCounts ==
    ASSUME NEW b \in Bags, NEW ix \in [Slots -> Nat], NEW k \in ItemIds, SpaceFor(b, k) # 0
    PROVE  /\ SpaceFor(AddOne(b, ix, k), k) = SpaceFor(b, k) - 1
           /\ \A j : Held(AddOne(b, ix, k), j) = Held(b, j) + (IF j = k THEN 1 ELSE 0)
<1> DEFINE s == AddOneSlot(b, k)
           c == AddOne(b, ix, k)
           more == [b[s] EXCEPT !.count = b[s].count + 1]
           fresh == [itemId |-> k, objid |-> ix[s], count |-> 1, opt |-> Plain]
<1>1. c \in Bags
  BY AddOneType
<1>2. s \in Slots /\ (s \in Partial(b, k) \/ s \in EmptySlots(b))
  <2>1. Partial(b, k) \in SUBSET Nat /\ EmptySlots(b) \in SUBSET Nat
    BY SlotsAreNat DEF Partial, EmptySlots
  <2>2. Partial(b, k) # {} \/ EmptySlots(b) # {}
    BY CanAddIsSpace DEF CanAddOne
  <2>3. s \in Partial(b, k) \/ s \in EmptySlots(b)
    BY <2>1, <2>2, LeastOf DEF AddOneSlot
  <2>4. QED
    BY <2>3 DEF Partial, EmptySlots
<1>3. /\ \A y \in Slots \ {s} : b[y] = c[y]
      /\ c[s] = IF b[s] # Empty THEN more ELSE fresh
  BY <1>2 DEF AddOne, Bags, BagsOn
<1>4. StackSize[k] \in Nat \ {0}
  BY BagAssumption DEF BagAssumption
<1>5. /\ Headroom(c[s], k) - Headroom(b[s], k) = -1
      /\ \A j : CountOf(c[s], j) - CountOf(b[s], j) = IF j = k THEN 1 ELSE 0
  <2>1. CASE b[s] # Empty
    <3>1. b[s] \in Item /\ b[s].itemId = k /\ b[s].opt = Plain /\ b[s].count < StackSize[k]
      BY <1>2, <2>1 DEF Partial, EmptySlots, Bags, BagsOn
    <3>2. /\ more \in Item /\ more.itemId = k /\ more.opt = Plain /\ more.count = b[s].count + 1
          /\ b[s].count \in Nat
      BY <3>1 DEF Item
    <3>3. c[s] = more /\ more # Empty
      BY <1>3, <2>1, <3>2, EmptyAssumption
    <3> HIDE DEF more, s, c
    <3>4. Headroom(b[s], k) = StackSize[k] - b[s].count
      BY <2>1, <3>1 DEF Headroom
    <3>5. Headroom(c[s], k) = StackSize[k] - (b[s].count + 1)
      BY <1>4, <3>1, <3>2, <3>3 DEF Headroom
    <3>6. \A j : CountOf(c[s], j) - CountOf(b[s], j) = IF j = k THEN 1 ELSE 0
      BY <2>1, <3>1, <3>2, <3>3 DEF CountOf
    <3>7. QED
      BY <1>4, <3>2, <3>4, <3>5, <3>6
  <2>2. CASE b[s] = Empty
    <3>1. fresh \in Item /\ fresh.itemId = k /\ fresh.opt = Plain /\ fresh.count = 1
      BY <1>2, BagAssumption DEF Item, BagAssumption
    <3>2. c[s] = fresh /\ fresh # Empty
      BY <1>3, <2>2, <3>1, EmptyAssumption
    <3> HIDE DEF fresh, s, c
    <3>3. Headroom(b[s], k) = StackSize[k]
      BY <2>2 DEF Headroom
    <3>4. Headroom(c[s], k) = StackSize[k] - 1
      BY <1>4, <3>1, <3>2 DEF Headroom
    <3>5. \A j : CountOf(c[s], j) - CountOf(b[s], j) = IF j = k THEN 1 ELSE 0
      BY <2>2, <3>1, <3>2 DEF CountOf
    <3>6. QED
      BY <1>4, <3>3, <3>4, <3>5
  <2>3. QED
    BY <2>1, <2>2
<1> HIDE DEF s, c
<1>6. SpaceFor(c, k) = SpaceFor(b, k) - 1
  <2>1. /\ SpaceFor(b, k) \in Nat /\ SpaceFor(c, k) \in Nat
        /\ SpaceFor(c, k) - SpaceFor(b, k) = Headroom(c[s], k) - Headroom(b[s], k)
    BY <1>1, <1>2, <1>3, SpaceAfter
  <2>2. QED
    BY <1>5, <2>1
<1>7. ASSUME NEW j PROVE Held(c, j) = Held(b, j) + (IF j = k THEN 1 ELSE 0)
  <2>1. /\ Held(b, j) \in Nat /\ Held(c, j) \in Nat
        /\ Held(c, j) - Held(b, j) = CountOf(c[s], j) - CountOf(b[s], j)
    BY <1>1, <1>2, <1>3, HeldAfter
  <2>2. CountOf(c[s], j) - CountOf(b[s], j) = IF j = k THEN 1 ELSE 0
    BY <1>5
  <2>3. QED
    BY <2>1, <2>2
<1>8. QED
  BY <1>6, <1>7 DEF c

LEMMA HeldType ==
    ASSUME NEW b \in Bags
    PROVE  /\ \A j : Held(b, j) \in Nat
           /\ \A k \in ItemIds : SpaceFor(b, k) \in Nat
<1>1. 0 \in Slots /\ \A y \in Slots \ {0} : b[y] = b[y]
  BY BagAssumption DEF Slots, BagAssumption
<1>2. ASSUME NEW j PROVE Held(b, j) \in Nat
  BY <1>1, HeldAfter
<1>3. ASSUME NEW k \in ItemIds PROVE SpaceFor(b, k) \in Nat
  BY <1>1, SpaceAfter
<1>4. QED
  BY <1>2, <1>3

\* addItem of n units adds as many of them as there is room for, and nothing else.
LEMMA AddUnitsCounts ==
    ASSUME NEW b \in Bags, NEW ix \in [Slots -> Nat], NEW k \in ItemIds, NEW n \in Nat
    PROVE  \A j : Held(AddUnits(b, ix, k, n), j)
                = Held(b, j) + (IF j = k THEN Smaller(n, SpaceFor(b, k)) ELSE 0)
<1> DEFINE one == CHOOSE f : BuiltUp(f, b, ix, k, n)
           More(x, m) == /\ x \in Bags
                         /\ SpaceFor(x, k) = SpaceFor(b, k) - Smaller(m, SpaceFor(b, k))
                         /\ \A j : Held(x, j) = Held(b, j)
                                   + (IF j = k THEN Smaller(m, SpaceFor(b, k)) ELSE 0)
           right == {m \in 0 .. n : More(one[m], m)}
<1>1. BuiltUp(one, b, ix, k, n)
  <2>1. \E f : BuiltUp(f, b, ix, k, n)
    BY UnitsDefined
  <2>2. QED
    BY <2>1
<1>2. AddUnits(b, ix, k, n) = one[n]
  BY DEF AddUnits, BuiltUp
<1> HIDE DEF one
<1>3. \A m \in 0 .. n : one[m] = IF m = 0 THEN b
        ELSE IF CanAddOne(one[m - 1], k) THEN AddOne(one[m - 1], ix, k) ELSE one[m - 1]
  BY <1>1 DEF BuiltUp
<1>4. SpaceFor(b, k) \in Nat /\ \A j : Held(b, j) \in Nat
  BY HeldType
<1>5. 0 \in right
  <2>1. Smaller(0, SpaceFor(b, k)) = 0
    BY <1>4 DEF Smaller
  <2>2. More(b, 0)
    BY <1>4, <2>1
  <2>3. QED
    BY <1>3, <2>2
<1>6. ASSUME NEW m \in 1 .. n, m - 1 \in right PROVE m \in right
  <2> DEFINE x == one[m - 1]
             had == Smaller(m - 1, SpaceFor(b, k))
  <2>1. m \in 0 .. n /\ m # 0 /\ More(x, m - 1)
    BY <1>6
  <2>2. x \in Bags /\ SpaceFor(x, k) = SpaceFor(b, k) - had /\ SpaceFor(x, k) \in Nat
    BY <2>1, HeldType
  <2>3. \A j : Held(x, j) = Held(b, j) + (IF j = k THEN had ELSE 0)
    BY <2>1
  <2>4. one[m] = IF CanAddOne(x, k) THEN AddOne(x, ix, k) ELSE x
    BY <1>3, <2>1
  <2>5. CanAddOne(x, k) <=> SpaceFor(x, k) # 0
    BY <2>2, CanAddIsSpace
  <2> HIDE DEF x, More
  <2>6. CASE SpaceFor(x, k) # 0
    <3>1. one[m] = AddOne(x, ix, k) /\ one[m] \in Bags
      BY <2>2, <2>4, <2>5, <2>6, AddOneType
    <3>2. /\ SpaceFor(one[m], k) = SpaceFor(x, k) - 1
          /\ \A j : Held(one[m], j) = Held(x, j) + (IF j = k THEN 1 ELSE 0)
      BY <2>2, <2>6, <3>1, AddOneCounts
    <3>3. Smaller(m, SpaceFor(b, k)) = had + 1 /\ had \in Nat
      BY <1>4, <2>2, <2>6 DEF Smaller
    <3> HIDE DEF had
    <3>4. \A j : Held(one[m], j) = Held(b, j)
                  + (IF j = k THEN Smaller(m, SpaceFor(b, k)) ELSE 0)
      BY <1>4, <2>3, <3>2, <3>3
    <3>5. SpaceFor(one[m], k) = SpaceFor(b, k) - Smaller(m, SpaceFor(b, k))
      BY <1>4, <2>2, <3>2, <3>3
    <3>6. More(one[m], m)
      BY <3>1, <3>4, <3>5 DEF More
    <3>7. QED
      BY <2>1, <3>6
  <2>7. CASE SpaceFor(x, k) = 0
    <3>1. one[m] = x
      BY <2>4, <2>5, <2>7
    <3>2. Smaller(m, SpaceFor(b, k)) = had
      BY <1>4, <2>2, <2>7 DEF Smaller
    <3>3. More(x, m)
      BY <2>2, <2>3, <3>2 DEF More
    <3>4. QED
      BY <2>1, <3>1, <3>3
  <2>8. QED
    BY <2>6, <2>7
<1>7. n \in right
  <2> HIDE DEF right
  <2>1. n \in 0 .. n
    OBVIOUS
  <2>2. QED
    BY <1>5, <1>6, <2>1, UpTo
<1>8. QED
  BY <1>2, <1>7

\* addItem leaves what a slot holds, and takes nothing from it.
LEMMA AddUnitsKeeps ==
    ASSUME NEW b \in Bags, NEW ix \in [Slots -> Nat], NEW k \in ItemIds, NEW n \in Nat,
           NEW s \in Slots, b[s] # Empty
    PROVE  /\ AddUnits(b, ix, k, n)[s] \in Item
           /\ AddUnits(b, ix, k, n)[s].itemId = b[s].itemId
           /\ AddUnits(b, ix, k, n)[s].count >= b[s].count
<1> DEFINE one == CHOOSE f : BuiltUp(f, b, ix, k, n)
           More(x) == /\ x \in Bags /\ x[s] # Empty
                      /\ x[s].itemId = b[s].itemId /\ x[s].count >= b[s].count
           right == {m \in 0 .. n : More(one[m])}
<1>1. BuiltUp(one, b, ix, k, n)
  <2>1. \E f : BuiltUp(f, b, ix, k, n)
    BY UnitsDefined
  <2>2. QED
    BY <2>1
<1>2. AddUnits(b, ix, k, n) = one[n]
  BY DEF AddUnits, BuiltUp
<1> HIDE DEF one
<1>3. \A m \in 0 .. n : one[m] = IF m = 0 THEN b
        ELSE IF CanAddOne(one[m - 1], k) THEN AddOne(one[m - 1], ix, k) ELSE one[m - 1]
  BY <1>1 DEF BuiltUp
<1>4. \A x \in Bags : x[s] # Empty => x[s] \in Item /\ x[s].count \in Nat
  BY DEF Bags, BagsOn, Item
<1>5. 0 \in right
  <2>1. More(b)
    BY <1>4
  <2>2. QED
    BY <1>3, <2>1
<1>6. ASSUME NEW m \in 1 .. n, m - 1 \in right PROVE m \in right
  <2> DEFINE x == one[m - 1]
  <2>1. m \in 0 .. n /\ m # 0 /\ More(x)
    BY <1>6
  <2>2. one[m] = IF CanAddOne(x, k) THEN AddOne(x, ix, k) ELSE x
    BY <1>3, <2>1
  <2> HIDE DEF x
  <2>3. AddOne(x, ix, k) \in Bags /\ AddOne(x, ix, k)[s] # Empty
    BY <2>1, AddOneType, AddOneKeepsItems
  <2>4. AddOne(x, ix, k)[s] \in {x[s], [x[s] EXCEPT !.count = x[s].count + 1]}
    BY <2>1 DEF AddOne, Bags, BagsOn
  <2>5. /\ AddOne(x, ix, k)[s].itemId = x[s].itemId
        /\ AddOne(x, ix, k)[s].count >= x[s].count
    BY <1>4, <2>1, <2>4 DEF Item
  <2>6. AddOne(x, ix, k)[s].count \in Nat /\ x[s].count \in Nat /\ b[s].count \in Nat
    BY <1>4, <2>1, <2>3
  <2>7. More(AddOne(x, ix, k))
    BY <2>1, <2>3, <2>5, <2>6
  <2> HIDE DEF More
  <2>8. QED
    BY <2>1, <2>2, <2>7
<1>7. n \in right
  <2> HIDE DEF right
  <2>1. n \in 0 .. n
    OBVIOUS
  <2>2. QED
    BY <1>5, <1>6, <2>1, UpTo
<1>8. QED
  BY <1>2, <1>4, <1>7
==============================================================================
