------------------------------ MODULE MCMarket -------------------------------
(* Market on a small instance: alice keeps a shop, bob buys, trades and browses. *)
EXTENDS Market, TLC

CONSTANTS alice, bob, sword, potion, plain, refined, MaxEvents

MCStackSize == sword :> 1 @@ potion :> 2

\* Bounds sales, trades opened and everything else that reaches bags and sockets;
\* bob opens no shop.
VARIABLE events
mcvars == <<mvars, events>>

MCInit ==
    /\ online = Players /\ connected = Players /\ stale = {} /\ closing = {}
    /\ durGold = [p \in Players |-> IF p = bob THEN 3 ELSE 1]
    /\ durBag = [p \in Players |-> [s \in Slots |->
          IF p = alice THEN [itemId |-> potion, count |-> 2 - s, opt |-> plain]
          ELSE IF s = 0 THEN Empty ELSE [itemId |-> sword, count |-> 1, opt |-> refined]]]
    /\ gold = durGold /\ db = durBag
    /\ bag = [p \in Players |-> Load(durBag[p])]
    /\ index = [p \in Players |-> Identity]
    /\ vt = [p \in Players |-> Idle]
    /\ shop = [p \in Players |-> NoShop]
    /\ events = 0

MCNext ==
    \/ ShopStep /\ shop'[bob] = NoShop /\ UNCHANGED events
    \/ WindowStep /\ UNCHANGED <<shop, events>>
    \/ /\ events < MaxEvents
       /\ events' = events + 1
       /\ \/ BuyStep \/ (\E p \in Players : ShopJoin(p)) \/ ShopCrash
          \/ (OpenStep \/ InventoryStep \/ SocketStep) /\ UNCHANGED shop

MCSpec == MCInit /\ [][MCNext]_mcvars
==============================================================================
