-------------------------------- MODULE Trade --------------------------------
(***************************************************************************)
(* TradeService: the two-party trade window of the world server, with the  *)
(* bags, the purses and the journal it works on.                           *)
(*                                                                         *)
(* Every handler of the service is synchronous, so each is one step.  What *)
(* interleaves with them is everything else that reaches the two players   *)
(* between two packets of a trade: the other inventory opcodes, sockets    *)
(* that close, a second JOIN of a character that is still in the world,    *)
(* and the process being killed.                                           *)
(***************************************************************************)
EXTENDS Inventory, FiniteSets

CONSTANTS
    Players,    \* character ids
    None,       \* no partner / an empty trade window slot (null in the code)
    MaxGold,    \* MAX_GOLD
    GoldBound,  \* bounds the model: no income to a character that has this much
    MaxTrade,   \* MAX_TRADE: windows of a trade, per side
    Tradeable   \* item ids whose prop.tradeable is not false

ASSUME TradeAssumption ==
    /\ IsFiniteSet(Players) /\ None \notin Players
    /\ MaxGold \in Nat
    /\ GoldBound \in Nat
    /\ MaxTrade \in Nat
    /\ Tradeable \subseteq ItemIds

Windows == 0 .. (MaxTrade - 1)

\* TradeStake.  `opt' is not in the code: it remembers the instance state the
\* item had when it was staged, for the properties.
Stake == [slot : Slots, objid : Nat, itemId : ItemIds, count : Nat \ {0}, opt : Opts]

ASSUME NoneAssumption == None \notin Stake

\* VTInfo, the trade half.
VTInfo == [otherId : Players \cup {None},
           gold : Nat,
           items : [Windows -> Stake \cup {None}],
           state : {"ITEM", "OK", "CONFIRM"}]

Idle == [otherId |-> None, gold |-> 0,
         items |-> [i \in Windows |-> None], state |-> "ITEM"]

VARIABLES
    online,     \* characters in the PlayerManager
    connected,  \* characters whose current socket is open
    stale,      \* characters with an older socket still open (JOINed twice)
    closing,    \* characters whose disconnect flush is still awaited
    gold,       \* m_nGold
    bag,        \* m_Inventory, main-bag range
    index,      \* m_invIndex, main-bag range
    vt,         \* m_vtInfo
    db,         \* the inventory_item rows, every issued write settled
    durGold,    \* the gold boot recovery would restore
    durBag      \* the slots boot recovery would restore

session == <<online, connected, stale, closing>>
goods == <<gold, bag, index>>
durable == <<db, durGold, durBag>>
vars == <<session, goods, vt, durable>>

Identity == [s \in Slots |-> s]

TypeOK ==
    /\ online \subseteq Players
    /\ connected \subseteq Players
    /\ stale \subseteq Players
    /\ closing \subseteq Players
    /\ gold \in [Players -> Nat]
    /\ bag \in [Players -> [Slots -> Item \cup {Empty}]]
    /\ index \in [Players -> [Slots -> Nat]]
    /\ vt \in [Players -> VTInfo]
    /\ db \in [Players -> [Slots -> DurableItem \cup {Empty}]]
    /\ durGold \in [Players -> Nat]
    /\ durBag \in [Players -> [Slots -> DurableItem \cup {Empty}]]

------------------------------------------------------------------------------
(* Partners and their stakes.                                              *)

\* A handler runs for a registered player with a socket open, the older one
\* included: handlers look the player up by the character id of the socket.
Acting(p) == p \in online /\ (p \in connected \/ p \in stale)

\* partner(p) = q: the link is two-way and q is still registered.
Linked(p, q) == /\ vt[p].otherId = q /\ q \in online
                /\ vt[q].otherId = p

Staging(p) == vt[p].state = "ITEM"

\* put, pull and putGold: both sides must still be staging.
StagingOfSelfOnly(p, q) == Staging(p)   \* variant: forgets the partner
BothStaging(p, q) == Staging(p) /\ Staging(q)

Stakes(p) == {i \in Windows : vt[p].items[i] # None}
StakedSlots(p) == {vt[p].items[i].slot : i \in Stakes(p)}
StakeAt(p, s) == vt[p].items[CHOOSE i \in Stakes(p) : vt[p].items[i].slot = s]

\* VTInfo.clear.
ClearedButStakes(v) == [v EXCEPT !.otherId = None, !.state = "ITEM"] \* variant
Cleared(v) == Idle

\* clearSide of every player in S: the staged gold is refunded (and journaled)
\* before the VTInfo is cleared.
RefundForgotten(p) == gold[p]   \* variant: clear() without the refund
Refund(p) == Smaller(MaxGold, gold[p] + vt[p].gold)

RefundSides(S) ==
    LET refunded == {p \in S : vt[p].gold > 0}
    IN  /\ gold' = [p \in Players |-> IF p \in refunded THEN Refund(p) ELSE gold[p]]
        /\ durGold' = [p \in Players |-> IF p \in refunded THEN Refund(p) ELSE durGold[p]]
        /\ vt' = [p \in Players |-> IF p \in S THEN Cleared(vt[p]) ELSE vt[p]]

ClearSides(S) == RefundSides(S) /\ UNCHANGED <<session, bag, index, db, durBag>>

------------------------------------------------------------------------------
(* The trade handlers.                                                     *)

\* trade: the accept leg.  A duel (m_nDuel, DuelService) only refuses here.
\* Nothing compares the target with the player itself.
Open(p, t) ==
    /\ Acting(p) /\ t \in online
    /\ vt[p].otherId = None /\ vt[t].otherId = None
    /\ vt' = [vt EXCEPT ![p].otherId = t, ![p].state = "ITEM",
                       ![t].otherId = p, ![t].state = "ITEM"]
    /\ UNCHANGED <<session, goods, durable>>

\* partner() in every other handler: a player whose link is dead is cleared,
\* with its refund, and the handler stops there.
DeadLink(p) ==
    /\ Acting(p)
    /\ vt[p].otherId # None
    /\ ~ Linked(p, vt[p].otherId)
    /\ ClearSides({p})

Put(p, q, i, objid, count) ==
    LET s == FindSlotByObjId(bag[p], objid)
    IN  /\ Acting(p) /\ Linked(p, q)
        /\ BothStaging(p, q) /\ vt[p].items[i] = None
        /\ s \in Slots /\ bag[p][s] # Empty
        /\ bag[p][s].itemId \in Tradeable
        /\ s \notin StakedSlots(p)
        /\ vt' = [vt EXCEPT ![p].items[i] =
                     [slot |-> s, objid |-> bag[p][s].objid,
                      itemId |-> bag[p][s].itemId,
                      count |-> Smaller(count, bag[p][s].count),
                      opt |-> bag[p][s].opt]]
        /\ UNCHANGED <<session, goods, durable>>

Pull(p, q, i) ==
    /\ Acting(p) /\ Linked(p, q)
    /\ BothStaging(p, q)
    /\ vt[p].items[i] # None
    /\ vt' = [vt EXCEPT ![p].items[i] = None]
    /\ UNCHANGED <<session, goods, durable>>

\* putGold: the earlier stake is folded back before the new one is debited.
PutGold(p, q, amount) ==
    LET available == gold[p] + vt[p].gold
        staked == Smaller(amount, available)
    IN  /\ Acting(p) /\ Linked(p, q)
        /\ BothStaging(p, q)
        /\ gold' = [gold EXCEPT ![p] = available - staked]
        /\ durGold' = [durGold EXCEPT ![p] = available - staked]
        /\ vt' = [vt EXCEPT ![p].gold = staked]
        /\ UNCHANGED <<session, bag, index, db, durBag>>

Ok(p, q) ==
    /\ Acting(p) /\ Linked(p, q)
    /\ Staging(p)
    /\ vt' = [vt EXCEPT ![p].state = "OK"]
    /\ UNCHANGED <<session, goods, durable>>

\* lastConfirm of the first side.
FirstConfirm(p, q) ==
    /\ Acting(p) /\ Linked(p, q)
    /\ vt[p].state = "OK" /\ vt[q].state = "OK"
    /\ vt' = [vt EXCEPT ![p].state = "CONFIRM"]
    /\ UNCHANGED <<session, goods, durable>>

SecondConfirm(p, q) ==
    /\ Acting(p) /\ Linked(p, q)
    /\ vt[p].state = "OK" /\ vt[q].state = "CONFIRM"

Cancel(p, q) ==
    /\ Acting(p) /\ Linked(p, q)
    /\ ClearSides({p, q})
------------------------------------------------------------------------------
(* planSwap and commit.                                                    *)

\* collectOutgoing: every stake is still in its slot, and large enough.
StakesLive(p) ==
    \A i \in Stakes(p) :
        LET stake == vt[p].items[i]
            live == bag[p][stake.slot]
        IN  /\ live # Empty
            /\ live.itemId = stake.itemId
            /\ live.objid = stake.objid
            /\ live.count >= stake.count

\* What p's bag keeps, and the slots that leaves free.
Kept(p) == [s \in Slots |->
    IF s \in StakedSlots(p) THEN Less(bag[p][s], StakeAt(p, s).count) ELSE bag[p][s]]
FreeIfStaked(p) == EmptySlots(Kept(p)) \cup StakedSlots(p)  \* variant: forgets remainders
Free(p) == EmptySlots(Kept(p))

\* place: q's stakes in window order go to p's free slots in slot order, each
\* taking the slot number as its objid.
Rank(S, x) == Cardinality({y \in S : y < x})
Matches(p, q, s, i) == Rank(Stakes(q), i) = Rank(Free(p), s)
Filled(p, q) == {s \in Free(p) : \E i \in Stakes(q) : Matches(p, q, s, i)}
Incoming(p, q, s) ==
    LET stake == vt[q].items[CHOOSE i \in Stakes(q) : Matches(p, q, s, i)]
    IN  [bag[q][stake.slot] EXCEPT !.count = stake.count, !.objid = s]
Swapped(p, q) == [s \in Slots |->
    IF s \in Filled(p, q) THEN Incoming(p, q, s) ELSE Kept(p)[s]]

Fits(p, q) == Cardinality(Stakes(q)) <= Cardinality(Free(p))

CanSwap(p, q) ==
    /\ StakesLive(p) /\ StakesLive(q)
    /\ Fits(p, q) /\ Fits(q, p)
    /\ gold[p] + vt[q].gold <= MaxGold
    /\ gold[q] + vt[p].gold <= MaxGold

\* The slots a commit journals for p.
TouchedGiving(p, q) == StakedSlots(p)   \* variant: forgets the received slots
Touched(p, q) == StakedSlots(p) \cup Filled(p, q)

\* What recovery restores of p's slots once the rows of the slots S are journaled.
Journaled(p, q, S) == [s \in Slots |->
    IF s \in S THEN Row(Swapped(p, q)[s]) ELSE durBag[p][s]]
Written(p, q) == [s \in Slots |->
    IF s \in Touched(p, q) THEN Stored(Swapped(p, q)[s]) ELSE db[p][s]]

Commit(p, q) ==
    /\ SecondConfirm(p, q) /\ CanSwap(p, q)
    /\ bag' = [bag EXCEPT ![p] = Swapped(p, q), ![q] = Swapped(q, p)]
    /\ gold' = [gold EXCEPT ![p] = @ + vt[q].gold, ![q] = @ + vt[p].gold]
    /\ durBag' = [durBag EXCEPT ![p] = Journaled(p, q, Touched(p, q)),
                               ![q] = Journaled(q, p, Touched(q, p))]
    /\ db' = [db EXCEPT ![p] = Written(p, q), ![q] = Written(q, p)]
    /\ durGold' = [durGold EXCEPT ![p] = gold[p] + vt[q].gold,
                                 ![q] = gold[q] + vt[p].gold]
    /\ vt' = [vt EXCEPT ![p] = Idle, ![q] = Idle]
    /\ UNCHANGED <<session, index>>

AbortCommit(p, q) ==
    /\ SecondConfirm(p, q) /\ ~ CanSwap(p, q)
    /\ ClearSides({p, q})

OpenStep == \E p, q \in Players : Open(p, q)

WindowStep ==
    \E p \in Players :
        \/ DeadLink(p)
        \/ \E q \in Players :
              \/ \E i \in Windows, o \in Slots, n \in 1 .. MaxStack : Put(p, q, i, o, n)
              \/ \E i \in Windows : Pull(p, q, i)
              \/ \E n \in 1 .. GoldBound : PutGold(p, q, n)
              \/ Ok(p, q)
              \/ FirstConfirm(p, q)
              \/ Commit(p, q)
              \/ AbortCommit(p, q)
              \/ Cancel(p, q)

------------------------------------------------------------------------------
(* What else happens to the same bags: the inventory handlers, each        *)
(* allowed while a trade is open.                                          *)

JournalBag(p, b) ==
    /\ bag' = [bag EXCEPT ![p] = b]
    /\ durBag' = [durBag EXCEPT ![p] = [s \in Slots |->
          IF b[s] # bag[p][s] THEN Row(b[s]) ELSE durBag[p][s]]]
    /\ UNCHANGED <<session, gold, vt, durGold>>

PersistBag(p, b) ==
    db' = [db EXCEPT ![p] = [s \in Slots |->
        IF b[s] # bag[p][s] THEN Persisted(b[s]) ELSE db[p][s]]]

ChangeBag(p, b) == JournalBag(p, b) /\ PersistBag(p, b)

\* dropItem, removeItem, consume, a sale: n units leave the slot.
LoseItem(p, s, n) ==
    /\ Acting(p) /\ bag[p][s] # Empty
    /\ n <= bag[p][s].count
    /\ ChangeBag(p, [bag[p] EXCEPT ![s] = Less(@, n)])
    /\ UNCHANGED index

GainItem(p, k) ==
    /\ Acting(p) /\ CanAddOne(bag[p], k)
    /\ ChangeBag(p, AddOne(bag[p], index[p], k))
    /\ UNCHANGED index

MoveItem(p, src, dst) ==
    /\ Acting(p) /\ src # dst /\ bag[p][src] # Empty
    /\ JournalBag(p, Moved(bag[p], src, dst))
    /\ IF Pours(bag[p], src, dst) THEN PersistBag(p, Moved(bag[p], src, dst))
       ELSE db' = [db EXCEPT ![p] = RowsMoved(@, src, dst)]
    /\ index' = [index EXCEPT ![p] = MovedIndex(bag[p], @, src, dst)]

ChangeGold(p, g) ==
    /\ gold' = [gold EXCEPT ![p] = g]
    /\ durGold' = [durGold EXCEPT ![p] = g]
    /\ UNCHANGED <<session, bag, index, vt, db, durBag>>

SpendGold(p, n) == /\ Acting(p) /\ n <= gold[p]
                   /\ ChangeGold(p, gold[p] - n)

AddGold(p, n) == /\ Acting(p)
                 /\ gold[p] + vt[p].gold + n <= GoldBound
                 /\ ChangeGold(p, Smaller(MaxGold, gold[p] + n))

InventoryStep ==
    \E p \in Players :
        \/ \E s \in Slots, n \in 1 .. MaxStack : LoseItem(p, s, n)
        \/ \E k \in ItemIds : GainItem(p, k)
        \/ \E src, dst \in Slots : MoveItem(p, src, dst)
        \/ \E n \in 1 .. GoldBound : SpendGold(p, n) \/ AddGold(p, n)
------------------------------------------------------------------------------
(* Sockets, sessions and the process.                                      *)

\* index.ts onDisconnect: trade teardown at once, then the awaited flush of
\* disconnectByCharId; the player is looked up by character id, so the close
\* of an older socket acts on the newer session.
Teardown(p) ==
    IF p \in online
    THEN /\ closing' = closing \cup {p}
         /\ RefundSides({p} \cup {q \in Players : Linked(p, q)})
    ELSE UNCHANGED <<closing, gold, durGold, vt>>

SocketClosed(p) ==
    /\ p \in connected
    /\ connected' = connected \ {p}
    /\ Teardown(p)
    /\ UNCHANGED <<online, stale, bag, index, db, durBag>>

StaleSocketClosed(p) ==
    /\ p \in stale
    /\ stale' = stale \ {p}
    /\ Teardown(p)
    /\ UNCHANGED <<online, connected, bag, index, db, durBag>>

\* leave, once the flush resolves: removal from the PlayerManager, by id.
Leave(p) ==
    /\ p \in closing
    /\ closing' = closing \ {p}
    /\ online' = online \ {p}
    /\ UNCHANGED <<connected, stale, goods, vt, durable>>

\* join: a fresh CPlayer, loaded from the database, replaces whatever the
\* PlayerManager holds under that id.  At most one older socket is followed.
Join(p) ==
    /\ p \notin stale
    /\ online' = online \cup {p}
    /\ connected' = connected \cup {p}
    /\ stale' = IF p \in connected THEN stale \cup {p} ELSE stale
    /\ bag' = [bag EXCEPT ![p] = Load(db[p])]
    /\ index' = [index EXCEPT ![p] = Identity]
    /\ vt' = [vt EXCEPT ![p] = Idle]
    /\ UNCHANGED <<closing, gold, durable>>

\* The process is killed and started again: boot recovery replays the journal
\* and every character is loaded afresh from what that restored.
Restart(recoveredGold, recoveredBag) ==
    /\ online' = {} /\ connected' = {} /\ stale' = {} /\ closing' = {}
    /\ gold' = recoveredGold /\ durGold' = recoveredGold
    /\ bag' = [p \in Players |-> Load(recoveredBag[p])]
    /\ durBag' = recoveredBag /\ db' = recoveredBag
    /\ index' = [p \in Players |-> Identity]
    /\ vt' = [p \in Players |-> Idle]

Crash == Restart(durGold, durBag)

\* The order of p's rows in a commit: the slots it gives from, in window order,
\* then the slots it only receives into, then its gold.
RowOrder(p, q, s) ==
    IF s \in StakedSlots(p)
    THEN Rank(Stakes(p), CHOOSE i \in Stakes(p) : vt[p].items[i].slot = s)
    ELSE Cardinality(Stakes(p)) + Rank(Filled(p, q) \ StakedSlots(p), s)
FirstRows(p, q, n) == {s \in Touched(p, q) : RowOrder(p, q, s) < n}
AllRows(p, q) == Cardinality(Touched(p, q)) + 1

\* Killed while commit was appending its rows, one autocommitted insert each:
\* m of p's rows are there, and n of q's if all of p's are.
CrashInCommit(p, q, m, n) ==
    /\ SecondConfirm(p, q) /\ CanSwap(p, q)
    /\ m <= AllRows(p, q) /\ n < AllRows(q, p)
    /\ n = 0 \/ m = AllRows(p, q)
    /\ Restart([durGold EXCEPT ![p] = IF m = AllRows(p, q) THEN gold[p] + vt[q].gold ELSE @],
               [durBag EXCEPT ![p] = Journaled(p, q, FirstRows(p, q, m)),
                              ![q] = Journaled(q, p, FirstRows(q, p, n))])

SessionStep ==
    \E p \in Players : SocketClosed(p) \/ StaleSocketClosed(p) \/ Leave(p) \/ Join(p)

CrashStep ==
    \/ Crash
    \/ \E p, q \in Players, m, n \in 0 .. (BagSize + 1) : CrashInCommit(p, q, m, n)

------------------------------------------------------------------------------
(* Specification.  A character enters with what its rows hold.             *)

Init ==
    /\ online = {} /\ connected = {} /\ stale = {} /\ closing = {}
    /\ durGold \in [Players -> 0 .. MaxGold]
    /\ durBag \in [Players -> [Slots -> DurableItem \cup {Empty}]]
    /\ gold = durGold /\ db = durBag
    /\ bag = [p \in Players |-> Load(durBag[p])]
    /\ index = [p \in Players |-> Identity]
    /\ vt = [p \in Players |-> Idle]

Next == OpenStep \/ WindowStep \/ InventoryStep \/ SessionStep \/ CrashStep

Spec == Init /\ [][Next]_vars
------------------------------------------------------------------------------
(* Properties.                                                             *)

\* A stake exists only inside a link: the teardown of the link, which refunds
\* and forgets stakes (clearSide), always still knows where to find it.  VTInfo
\* is reused from one trade to the next and `trade' does not reset it.
StakesHaveLink ==
    \A p \in Players :
        vt[p].otherId = None => vt[p].gold = 0 /\ Stakes(p) = {}

\* Journal before ack: after every handler, what boot recovery would restore,
\* and what the next JOIN would load, is what the player carries -- the purse,
\* and every slot's item id and count.
JournalCurrent ==
    \A p \in Players :
        /\ durGold[p] = gold[p]
        /\ \A s \in Slots : /\ Row(durBag[p][s]) = Row(bag[p][s])
                           /\ Row(db[p][s]) = Row(bag[p][s])

\* Gold is in the purse or staked; nothing else holds any.
Wealth(p) == gold[p] + vt[p].gold

\* p keeps its gold, or is refunded up to MAX_GOLD.
KeepsWealth(p) ==
    \/ Wealth(p)' = Wealth(p)
    \/ Wealth(p) > MaxGold /\ gold'[p] = MaxGold /\ vt'[p].gold = 0

\* p and q pass gold between them, and only because both sides confirmed.
ExchangeWealth(p, q) ==
    /\ p # q /\ SecondConfirm(p, q)
    /\ Wealth(p)' + Wealth(q)' = Wealth(p) + Wealth(q)
    /\ \A x \in Players \ {p, q} : Wealth(x)' = Wealth(x)

\* Trading mints and burns no gold: a side keeps what it had, staked or not, or
\* exchanges it with its partner.  Only income, spending, a second JOIN over a
\* live character and the death of the process change anything else.
GoldConserved ==
    [][\/ \A p \in Players : KeepsWealth(p)
       \/ \E p, q \in Players : ExchangeWealth(p, q)
       \/ \E p \in Players : Join(p) \/ \E n \in 1 .. GoldBound : SpendGold(p, n) \/ AddGold(p, n)
       \/ CrashStep]_vars

\* Once one side has pressed OK the offers are final: while the link lives,
\* neither side's stakes nor gold can change, whatever both of them send.
OffersFrozen ==
    [][\A p, q \in Players :
          /\ Linked(p, q) /\ ~ Staging(p)
          /\ vt'[p].otherId = q /\ vt'[q].otherId = p
          => \A x \in {p, q} : /\ vt'[x].items = vt[x].items
                               /\ vt'[x].gold = vt[x].gold]_vars

\* The units of item k in all bags, and the part of the bags in instance state o.
UnitsOf(b, k) ==
    SumFunction([p \in Players |-> SumFunction([s \in Slots |-> CountOf(b[p][s], k)])])
InState(b, o) == [p \in Players |-> [s \in Slots |->
    IF b[p][s] # Empty /\ b[p][s].opt = o THEN b[p][s] ELSE Empty]]

\* No trade packet makes or loses a unit of any item, nor changes its instance
\* state: collectOutgoing, place and findFreeSlot never overwrite or skip a slot.
ItemsConserved ==
    [][bag' # bag /\ WindowStep => \A k \in ItemIds, o \in Opts :
          UnitsOf(InState(bag', o), k) = UnitsOf(InState(bag, o), k)]_vars

\* A process killed at any moment, and started again, neither loses nor repeats
\* anything: "Kill the process mid-trade and nothing duplicates or vanishes".
KillKeepsItems ==
    [][CrashStep => \A k \in ItemIds : UnitsOf(bag', k) = UnitsOf(bag, k)]_vars
==============================================================================
