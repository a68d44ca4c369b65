------------------------------ MODULE MCSession ------------------------------
(* Session on a small instance: two bag slots, one equip part, a weapon that *)
(* can be worn and enchanted, a stackable material, two connections and one  *)
(* letter.                                                                   *)
EXTENDS SessionRows, TLC

CONSTANTS sword, stone, plain, fire, MaxEvents

MCStackSize == sword :> 1 @@ stone :> 2
MCPartOf == sword :> 1 @@ stone :> 0
MCUpgrades == {<<stone, sword, plain, fire>>}
MCMailed == {<<stone, 2, TRUE>>}
MCFragile == {}

\* Bounds the operations on the bag, the mail requests and the kills of a behaviour.
VARIABLE events
mcvars == <<rowVars, events>>

\* A plain sword and a single unit of the material.
MCInit ==
    /\ durBag = [s \in AllSlots |->
          IF s = 0 THEN [itemId |-> sword, count |-> 1, opt |-> plain]
          ELSE IF s = 1 THEN [itemId |-> stone, count |-> 1, opt |-> plain]
          ELSE Empty]
    /\ db = durBag /\ bag = Load(durBag) /\ index = LoadedIndex(durBag)
    /\ socket = [s \in Sockets |-> "new"]
    /\ player = None /\ current = None /\ aside = [s \in Sockets |-> None]
    /\ calls = << >> /\ crowded = {}
    /\ letters = [m \in Letters |-> None]
    /\ news = [m \in Letters |-> "unwritten"]
    /\ box = FALSE
    /\ events = 0

MCNext ==
    /\ \/ events < MaxEvents /\ events' = events + 1 /\ (BagStep \/ Request \/ Kill)
       \/ ((SessionStep /\ ~Kill) \/ (MailStep /\ ~Request)) /\ UNCHANGED events
    /\ Crowd

MCSpec == MCInit /\ [][MCNext]_mcvars

Connections == Permutations(Sockets)
=============================================================================
