------------------------------- MODULE MCTrade -------------------------------
(* Trade on a small instance: two characters, two bag slots each.           *)
EXTENDS Trade, TLC

CONSTANTS alice, bob, sword, potion, plain, refined, MaxEvents

MCStackSize == sword :> 1 @@ potion :> 2

\* Bounds the openings of the window and everything that happens around it.
VARIABLE events
mcvars == <<vars, events>>

MCInit ==
    /\ online = Players /\ connected = Players /\ stale = {} /\ closing = {}
    /\ durGold = [p \in Players |-> IF p = alice THEN 1 ELSE 0]
    /\ durBag = [p \in Players |-> [s \in Slots |->
          IF s # 0 THEN Empty
          ELSE IF p = alice THEN [itemId |-> sword, count |-> 1, opt |-> refined]
          ELSE [itemId |-> potion, count |-> 2, opt |-> plain]]]
    /\ gold = durGold /\ db = durBag
    /\ bag = [p \in Players |-> Load(durBag[p])]
    /\ index = [p \in Players |-> Identity]
    /\ vt = [p \in Players |-> Idle]
    /\ events = 0

MCNext ==
    \/ WindowStep /\ UNCHANGED events
    \/ /\ events < MaxEvents
       /\ events' = events + 1
       /\ OpenStep \/ InventoryStep \/ SessionStep \/ CrashStep

MCSpec == MCInit /\ [][MCNext]_mcvars
=============================================================================
