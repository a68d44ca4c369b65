----------------------------- MODULE BankCopies -----------------------------
(***************************************************************************)
(* Bank with a record of which copies are out of date: the database has    *)
(* one copy of a cell, each player object that has loaded it another, and  *)
(* nothing tells the others when one is changed.  What the account owns is *)
(* what recovery would restore, the end state of the last operation on     *)
(* each cell.                                                              *)
(***************************************************************************)
EXTENDS Bank

VARIABLES
    behind,     \* of each object, the cells another one has changed since it read them
    rolled      \* the cells whose row an object that was behind has overwritten

copyVars == <<vars, behind, rolled>>

CopyTypeOK == behind \in [Objects -> SUBSET Cells] /\ rolled \in SUBSET Cells

\* Object o has changed the cells K, in the database too.
Changed(o, K) ==
    /\ behind' = [p \in Objects |->
          IF p = o THEN behind[p] \ K
          ELSE behind[p] \cup {k \in K : mem[p][k] # NoRow}]
    /\ rolled' = rolled \ K

CellsOf(ch) == {ch.k1, ch.k2}

CopyBank ==
    \E o \in Objects : \E ch \in Moves(o) : Perform(o, ch) /\ Changed(o, CellsOf(ch))

\* Rows that were rolled back are out of date when they are read.
ReadBy(o) == {k \in Cells : mem[o][k] = NoRow /\ mem'[o][k] # NoRow}
CopyLoad(o) ==
    /\ \/ LoadBag(o) \/ LoadPurse(o) \/ LoadChest(o)
       \/ \E t \in Tabs : LoadGold(o, t)
    /\ behind' = [behind EXCEPT ![o] = @ \cup (ReadBy(o) \cap rolled)]
    /\ UNCHANGED rolled

CopyFlush(o, t) ==
    /\ FlushTab(o, t)
    /\ rolled' = IF Vault(t) \in behind[o] THEN rolled \cup {Vault(t)}
                 ELSE rolled \ {Vault(t)}
    /\ UNCHANGED behind

CopyForget(o) ==
    /\ Forget(o)
    /\ behind' = [behind EXCEPT ![o] = {}]
    /\ UNCHANGED rolled

CopyEnter(o) ==
    /\ Join(o) \/ Enter(o) \/ SocketClosed(o) \/ Leave(o)
    /\ UNCHANGED <<behind, rolled>>

CopyBoot ==
    /\ Crash \/ KilledMidway
    /\ behind' = [o \in Objects |-> {}] /\ rolled' = {}

CopyInit == Init /\ behind = [o \in Objects |-> {}] /\ rolled = {}

CopySession ==
    \/ \E o \in Objects : CopyLoad(o) \/ CopyForget(o) \/ CopyEnter(o)
    \/ \E o \in Objects, t \in Tabs : CopyFlush(o, t)

CopyNext == CopyBank \/ CopySession \/ CopyBoot

CopySpec == CopyInit /\ [][CopyNext]_copyVars

------------------------------------------------------------------------------
(* Properties.                                                             *)

Owned == Recovered(db, wal)
\* An object's copy of purse, bag and bank is what the account owns, up to the
\* element of an item, which no row of these keeps, unless another object has
\* changed the cell since; and so is the database, unless it was rolled back.
Coherent ==
    \A k \in Cells :
        /\ k \notin rolled => Durable(k, db[k]) = Durable(k, Owned[k])
        /\ \A o \in Objects : mem[o][k] # NoRow /\ k \notin behind[o] =>
              Durable(k, mem[o][k]) = Durable(k, Owned[k])

\* A flush, of a checkpoint or of a disconnect, changes no tab but with a copy that
\* another object's deposits or withdrawals have overtaken, or to undo such a flush
\* (flushPlayer); and none, however late, changes what the account owns.
FlushIsRedundant ==
    [][\A o \in Objects, t \in Tabs :
          FlushTab(o, t) =>
            /\ Vault(t) \notin behind[o] \cup rolled => db' = db
            /\ Owned' = Owned]_vars

Units(f, i) == SumFunction([k \in ItemCells |-> CountOf(f[k], i)])
Gold(f) == SumFunctionOnSet(f, GoldCells)

Kept == Gold(Owned') = Gold(Owned) /\ \A i \in ItemIds : Units(Owned', i) = Units(Owned, i)

\* What the account owns survives its sessions however they overlap: joining, loading,
\* flushing, leaving and crashing between operations neither make nor lose a unit of
\* an item or a coin of it, nor does an operation unless another object has changed
\* one of its two cells since this one read it.  A process killed between the two
\* rows of such an operation leaves the units it moved doubled and no item lost; of
\* gold it moves, it makes or loses that sum.
UnitsKept ==
    [][/\ Session => Kept
       /\ \A o \in Objects : \A ch \in Moves(o) :
             CellsOf(ch) \cap behind[o] = {} =>
               /\ Perform(o, ch) => Kept
               /\ DieHalfway(ch) /\ ch \in ItemMoves(o) =>
                    /\ Gold(Owned') = Gold(Owned)
                    /\ \A i \in ItemIds : Units(Owned', i) = Units(Owned, i) + CountOf(ch.v1, i)
               /\ DieHalfway(ch) /\ ch \in GoldMoves(o) =>
                    /\ Gold(Owned') = Gold(Owned) + ch.v1 - mem[o][ch.k1]
                    /\ \A i \in ItemIds : Units(Owned', i) = Units(Owned, i)]_vars

\* The account's gold as its owner would find it after a restart only moves between a
\* purse and a tab, through sessions, checkpoints and crashes: the bank implements
\* Account, which lets a move go astray only where sessions overlap and one has
\* changed what the other had read.
A == INSTANCE Account WITH
        purse <- [c \in Chars |-> Owned[Purse(c)]],
        vault <- [t \in Tabs |-> Owned[Vault(t)]],
        open <- {o \in Objects : sess[o] # "out"},
        oldPurses <- {c \in Chars : \E o \in Objects : Purse(c) \in behind[o]},
        oldTabs <- {t \in Tabs : Vault(t) \in rolled \/ \E o \in Objects : Vault(t) \in behind[o]}
AccountSpec == A!Spec
==============================================================================
