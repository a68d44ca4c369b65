-------------------------------- MODULE MCBag --------------------------------
(* Bag on a small instance: three bag slots, one equip part, a weapon that   *)
(* can be worn and enchanted, and a stackable material.                      *)
EXTENDS Bag, TLC

CONSTANTS sword, stone, plain, fire, MaxSteps

MCStackSize == sword :> 1 @@ stone :> 2
MCPartOf == sword :> 1 @@ stone :> 0
MCUpgrades == {<<stone, sword, plain, fire>>, <<stone, sword, fire, fire>>}
MCFragile == {<<stone, fire>>}

\* Bounds the length of a behaviour.
VARIABLE steps
mcvars == <<vars, steps>>

\* A plain sword and a full stack of the material.
MCInit ==
    /\ durBag = [s \in AllSlots |->
          IF s = 0 THEN [itemId |-> sword, count |-> 1, opt |-> plain]
          ELSE IF s = 1 THEN [itemId |-> stone, count |-> 2, opt |-> plain]
          ELSE Empty]
    /\ db = durBag /\ bag = Load(durBag) /\ index = LoadedIndex(durBag)
    /\ steps = 0

MCNext == steps < MaxSteps /\ steps' = steps + 1 /\ Next

MCSpec == MCInit /\ [][MCNext]_mcvars
=============================================================================
