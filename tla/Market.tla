------------------------------- MODULE Market --------------------------------
(***************************************************************************)
(* VendorService: private shops, composed with the trade windows of Trade. *)
(*                                                                         *)
(* A character's shop and its trade window live in one VTInfo and share    *)
(* otherId: a browsing buyer points at the vendor, a trader at its         *)
(* partner.  The wares stay in the vendor's bag, where every inventory     *)
(* handler still reaches them, and buying works on both bags and purses.   *)
(* Titles, packets, duels, combat and the quest-item test are left out:    *)
(* they only refuse.                                                       *)
(***************************************************************************)
EXTENDS Trade

CONSTANTS
    MaxListings,    \* MAX_VENDOR_REVISION: listings of a shop
    Costs,          \* prices a vendor may ask, per unit
    IntBound        \* 2^31: Math.imul keeps 32 bits

ASSUME MarketAssumption ==
    /\ MaxListings \in Nat
    /\ Costs \subseteq Nat \ {0}
    /\ IntBound \in Nat \ {0}

Listings == 0 .. (MaxListings - 1)

\* VendorListing.
Listing == [bagSlot : Slots, objid : Nat, itemId : ItemIds, count : Nat \ {0}, cost : Costs]

\* VTInfo, the shop half; `open' is a title that is not empty.
Shop == [open : BOOLEAN, listings : [Listings -> Listing \cup {None}]]
NoShop == [open |-> FALSE, listings |-> [i \in Listings |-> None]]

VARIABLE shop   \* title and listings of each m_vtInfo
mvars == <<vars, shop>>

MarketTypeOK == TypeOK /\ shop \in [Players -> Shop]

Listed(p) == {i \in Listings : shop[p].listings[i] # None}
ListedSlots(p) == {shop[p].listings[i].bagSlot : i \in Listed(p)}
Busy(p) == vt[p].otherId # None

------------------------------------------------------------------------------
(* Opening, closing and stocking a shop.                                   *)

OpenShop(p) ==
    /\ Acting(p) /\ ~ Busy(p)
    /\ shop' = [shop EXCEPT ![p].open = TRUE]
    /\ UNCHANGED vars

\* vendorClose releases otherId, whatever it stands for.
CloseShop(p) ==
    /\ Acting(p) /\ (shop[p].open \/ Listed(p) # {})
    /\ shop' = [shop EXCEPT ![p] = NoShop]
    /\ vt' = [vt EXCEPT ![p].otherId = None]
    /\ UNCHANGED <<session, goods, durable>>

\* PVENDOR_CLOSE of somebody else's shop: nothing asks whether otherId is a
\* vendor or a trade partner.
StopBrowsing(p, v) ==
    /\ Acting(p) /\ v # p /\ vt[p].otherId = v
    /\ vt' = [vt EXCEPT ![p].otherId = None]
    /\ UNCHANGED <<session, goods, durable, shop>>

MayStock(p) == Acting(p) /\ ~ Busy(p) /\ ~ shop[p].open

RegisterItem(p, i, objid, n, cost) ==
    LET s == FindSlotByObjId(bag[p], objid)
    IN  /\ MayStock(p)
        /\ s \in Slots /\ bag[p][s] # Empty
        /\ s \notin ListedSlots(p)
        /\ shop' = [shop EXCEPT ![p].listings[i] =
              [bagSlot |-> s, objid |-> bag[p][s].objid, itemId |-> bag[p][s].itemId,
               count |-> Smaller(n, bag[p][s].count), cost |-> cost]]
        /\ UNCHANGED vars

UnregisterItem(p, i) ==
    /\ MayStock(p) /\ shop[p].listings[i] # None
    /\ shop' = [shop EXCEPT ![p].listings[i] = None]
    /\ UNCHANGED vars

\* Nothing compares the vendor with the player itself.
Query(p, v) ==
    /\ Acting(p) /\ ~ Busy(p)
    /\ v \in online /\ shop[v].open
    /\ vt' = [vt EXCEPT ![p].otherId = v]
    /\ UNCHANGED <<session, goods, durable, shop>>

------------------------------------------------------------------------------
(* Buying.                                                                 *)

\* Math.imul.
Price(n, cost) ==
    LET low == (n * cost) % (2 * IntBound)
    IN  IF low < IntBound THEN low ELSE low - 2 * IntBound

\* hasSpace.
HasSpaceEmpty(b, k, n) ==           \* variant: counts a partial stack as a free slot
    n <= StackSize[k] * (Cardinality(EmptySlots(b)) + Cardinality(Partial(b, k)))
HasSpace(b, k, n) == n <= SpaceFor(b, k)

\* The listed item is still in its slot; its count is not looked at.
StillThere(v, i, k) ==
    LET listing == shop[v].listings[i] IN
    /\ listing # None
    /\ bag[v][listing.bagSlot] # Empty
    /\ bag[v][listing.bagSlot].itemId = k
    /\ bag[v][listing.bagSlot].objid = listing.objid

\* spendGold and addGold do nothing with an amount that is not positive.
SpentUnchecked(g, p, price) == [g EXCEPT ![p] = @ - price]  \* variant
Spent(g, p, price) == IF price > 0 THEN [g EXCEPT ![p] = @ - price] ELSE g
Earned(g, v, price) == IF price > 0 THEN [g EXCEPT ![v] = Smaller(MaxGold, @ + price)] ELSE g

\* removeItem refuses to take more than there is.
Taken(b, s, n) == IF n <= b[s].count THEN [b EXCEPT ![s] = Less(@, n)] ELSE b

Remaining(listing, n) ==
    IF listing.count > n THEN [listing EXCEPT !.count = @ - n] ELSE None

\* The bags once n of k are added to p's and taken from v's slot s.
Delivered(p, v, k, s, n) ==
    LET added == [bag EXCEPT ![p] = AddUnits(bag[p], index[p], k, n)]
    IN  [added EXCEPT ![v] = Taken(@, s, n)]

\* Units of listing i sold to p when it asks for m.
Sells(p, v, i, m) == Smaller(m, shop[v].listings[i].count)

CanBuy(p, v, i, k, m) ==
    /\ Acting(p) /\ v \in online /\ shop[v].open
    /\ StillThere(v, i, k)
    /\ gold[p] >= Price(Sells(p, v, i, m), shop[v].listings[i].cost)
    /\ HasSpace(bag[p], k, Sells(p, v, i, m))

ChangedButEmptied(b, p) ==          \* variant: forgets the emptied slots
    {s \in Slots : b[p][s] # bag[p][s] /\ b[p][s] # Empty}
Changed(b, p) == {s \in Slots : b[p][s] # bag[p][s]}

Buy(p, v, i, k, m) ==
    LET listing == shop[v].listings[i]
        n == Sells(p, v, i, m)
        price == Price(n, listing.cost)
        b == Delivered(p, v, k, listing.bagSlot, n)
    IN  /\ CanBuy(p, v, i, k, m)
        /\ bag' = b
        /\ durBag' = [x \in Players |-> [s \in Slots |->
              IF s \in Changed(b, x) THEN Row(b[x][s]) ELSE durBag[x][s]]]
        /\ db' = [x \in Players |-> [s \in Slots |->
              IF s \in Changed(b, x) THEN Persisted(b[x][s]) ELSE db[x][s]]]
        /\ gold' = Earned(Spent(gold, p, price), v, price)
        /\ durGold' = Earned(Spent(durGold, p, price), v, price)
        /\ shop' = [shop EXCEPT ![v].listings[i] = Remaining(listing, n)]
        /\ UNCHANGED <<session, index, vt>>

------------------------------------------------------------------------------
(* With the trades, the bags and the sockets of Trade.                     *)

\* A fresh CPlayer has no shop; a closed socket alone leaves it open.
ShopJoin(p) == Join(p) /\ shop' = [shop EXCEPT ![p] = NoShop]
ShopCrash == CrashStep /\ shop' = [p \in Players |-> NoShop]

ShopStep == \E p \in Players :
    \/ OpenShop(p) \/ CloseShop(p)
    \/ \E v \in Players : StopBrowsing(p, v) \/ Query(p, v)
    \/ \E i \in Listings :
          \/ UnregisterItem(p, i)
          \/ \E o \in Slots, n \in 1 .. MaxStack, cost \in Costs : RegisterItem(p, i, o, n, cost)

BuyStep == \E p, v \in Players, i \in Listings, k \in ItemIds, m \in 1 .. MaxStack :
    Buy(p, v, i, k, m)

SocketStep == \E p \in Players : SocketClosed(p) \/ StaleSocketClosed(p) \/ Leave(p)

MarketInit == Init /\ shop = [p \in Players |-> NoShop]

MarketNext ==
    \/ ShopStep \/ BuyStep
    \/ (OpenStep \/ WindowStep \/ InventoryStep \/ SocketStep) /\ UNCHANGED shop
    \/ (\E p \in Players : ShopJoin(p)) \/ ShopCrash

MarketSpec == MarketInit /\ [][MarketNext]_mvars

------------------------------------------------------------------------------
(* Properties.                                                             *)

\* With shops among the windows everything stays well typed, and journal and rows
\* follow both sides of every sale before it is acknowledged.
MarketInv == MarketTypeOK /\ JournalCurrent

\* A sale moves gold from the buyer to the vendor, the price asked for each unit
\* while that stays below 2^31, and mints none; only MAX_GOLD can burn some,
\* also of a purse that a refund had left above it.  A price that wraps to a
\* negative number moves nothing.
SoldAtPrice ==
    [][\A p, v \in Players, i \in Listings, k \in ItemIds, m \in 1 .. MaxStack :
          Buy(p, v, i, k, m) =>
            LET n == Sells(p, v, i, m)
                asked == n * shop[v].listings[i].cost
                paid == gold[p] - gold'[p]
            IN  p # v => /\ paid >= 0
                         /\ asked < IntBound => paid = asked
                         /\ \/ gold'[v] = gold[v] + paid
                            \/ gold[v] + paid > MaxGold /\ gold'[v] = MaxGold]_mvars

\* Units of k that player x carries in the bags b.
Carried(b, x, k) == SumFunction([s \in Slots |-> CountOf(b[x][s], k)])

\* A sale gives the buyer every unit it pays for and changes no other bag but the
\* vendor's; and if the slot still holds what is sold it makes and loses no unit of
\* any item, whoever else shares the bag and wherever the units go, also when a vendor
\* buys from its own shop.  From a stack that shrank under its listing the vendor
\* parts with nothing: of its bag nothing is claimed then.
SaleConserves ==
    [][\A p, v \in Players, i \in Listings, k \in ItemIds, m \in 1 .. MaxStack :
          Buy(p, v, i, k, m) =>
            LET n == Sells(p, v, i, m)
            IN  /\ \A x \in Players \ {v}, j \in ItemIds :
                      Carried(bag', x, j) = Carried(bag, x, j) + IF x = p /\ j = k THEN n ELSE 0
                /\ bag[v][shop[v].listings[i].bagSlot].count >= n
                      => \A j \in ItemIds : UnitsOf(bag', j) = UnitsOf(bag, j)]_mvars
==============================================================================
