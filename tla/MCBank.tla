------------------------------- MODULE MCBank -------------------------------
(* Bank on a small instance: two characters of one account, one of which may  *)
(* have two sessions, with a stack of a material and gold between them, and a *)
(* bank with room for one stack.                                              *)
EXTENDS BankCopies, TLC

CONSTANTS ann, bob, a1, a2, b1, stone, plain, fire, MaxKills, MaxJoins, MaxOpen

MCStackSize == stone :> 2
MCCharOf == [o \in Objects |-> IF o = b1 THEN bob ELSE ann]

\* Bounds the kills between two journal rows, the sessions, and those open at a time.
VARIABLES kills, joins
mcvars == <<copyVars, kills, joins>>

MCInit ==
    /\ sess = [o \in Objects |-> "out"]
    /\ player = [c \in Chars |-> NoOne]
    /\ mem = [o \in Objects |-> NoCells]
    /\ \/ db = [k \in Cells |->
              IF k \in GoldCells THEN (IF k = Purse(ann) THEN 2 ELSE 0) ELSE Empty]
       \/ db = [k \in Cells |->
              IF k \in GoldCells THEN 0
              ELSE IF k = BagCell(ann, 0) THEN [itemId |-> stone, count |-> 2, opt |-> fire]
              ELSE Empty]
    /\ wal = NoCells
    /\ behind = [o \in Objects |-> {}] /\ rolled = {}
    /\ kills = 0 /\ joins = 0

Joining == \E o \in Objects : sess[o] = "out" /\ sess'[o] = "joining"

MCNext ==
    \/ CopyBank /\ UNCHANGED <<kills, joins>>
    \/ /\ CopySession
       /\ UNCHANGED kills
       /\ joins' = IF Joining THEN joins + 1 ELSE joins
       /\ joins' <= MaxJoins /\ Cardinality({o \in Objects : sess'[o] # "out"}) <= MaxOpen
    \/ Crash /\ CopyBoot /\ UNCHANGED <<kills, joins>>
    \/ kills < MaxKills /\ KilledMidway /\ CopyBoot /\ kills' = kills + 1 /\ UNCHANGED joins

MCSpec == MCInit /\ [][MCNext]_mcvars
=============================================================================
