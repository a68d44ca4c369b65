-------------------------------- MODULE Vault --------------------------------
(***************************************************************************)
(* GuildBankService and GuildContributionService: the chest and the pool   *)
(* of penya of one guild, its level, and the payroll of 21:00.             *)
(*                                                                         *)
(* Both sit between two stores.  What a member carries is journaled before *)
(* the handler returns, so a kill leaves it (Trade, Bag); what the guild   *)
(* holds is written by statements nobody waits for, applied in the order   *)
(* issued: `disk' is the queue of images the tables pass through, the      *)
(* first of which is durable, and a kill loses the others.                 *)
(*                                                                         *)
(* Ranks are Guild's: here a member has its powers and its salary.  The    *)
(* distance to the banker, the quest-item test, the windows that are open  *)
(* and the count of PXP given per member only refuse or inform.            *)
(***************************************************************************)
EXTENDS Inventory, Sequences, FiniteSets

CONSTANTS
    Players,        \* characters
    None,           \* not a member
    PenyaPower,     \* those whose rank has PF_PENYA
    ItemPower,      \* those whose rank has PF_ITEM
    Salary,         \* guild.penya of the rank of each
    MaxPurse,        \* MAX_GOLD
    MaxPool,        \* MAX_DWORD
    MaxGive,        \* MAX_INT32
    MaxGuildBank,      \* MAX_GUILDBANK
    GuildTable,     \* GUILD_TABLE, from level 1
    GemPxp,         \* PXP a unit of each item is worth, 0 when it is no gem
    Backlog         \* a handler that writes runs with at most this many images queued

ASSUME VaultAssumption ==
    /\ IsFiniteSet(Players)
    /\ PenyaPower \subseteq Players /\ ItemPower \subseteq Players
    /\ Salary \in [Players -> Nat]
    /\ MaxPurse \in Nat /\ MaxPool \in Nat /\ MaxGive \in Nat
    /\ MaxGuildBank \in Nat \ {0} /\ Backlog \in Nat \ {0}
    /\ GuildTable \in Seq([pxp : Nat, penya : Nat]) /\ GuildTable # << >>
    /\ GemPxp \in [ItemIds -> Nat]

GuildBankSlots == 0 .. (MaxGuildBank - 1)
Levels == 1 .. Len(GuildTable)

\* GuildMemberState: lifetime salary, and penya given less penya taken out.
Member == [pay : Nat, giveGold : Int]
NewMember == [pay |-> 0, giveGold |-> 0]

ASSUME MemberAssumption == None \notin Member

\* The guild's row, its roster, and the container of its bank.
GuildState == [gold : Nat, pxp : Nat, level : Levels,
               roll : [Players -> Member \cup {None}],
               chest : [GuildBankSlots -> Item \cup {Empty}]]

\* Of the day, the hours the payroll looks at and one for all the others.
SALARY_PAY_HOUR == 21
SALARY_RESET_HOUR == 22
Hours == 20 .. SALARY_RESET_HOUR

VARIABLES
    gold,       \* m_nGold, in memory and in the journal
    bag,        \* m_Inventory, main-bag range, in memory and in the journal
    guild,      \* the guild, in GuildManager and GuildBankService
    latch,      \* sweepLatched, and the guild's sentPay
    hour,       \* the hour of the wall clock
    polled,     \* the one-minute poll has run in this hour
    disk        \* the images of the tables: durable, then under way

carried == <<gold, bag>>
clock == <<latch, hour, polled>>
vaultVars == <<carried, guild, clock, disk>>

Unlatched == [swept |-> FALSE, sent |-> FALSE]

VaultTypeOK ==
    /\ gold \in [Players -> 0 .. MaxPurse]
    /\ bag \in [Players -> [Slots -> Item \cup {Empty}]]
    /\ guild \in GuildState /\ guild.gold <= MaxPool
    /\ latch \in [swept : BOOLEAN, sent : BOOLEAN]
    /\ hour \in Hours /\ polled \in BOOLEAN
    /\ disk \in Seq(GuildState) /\ disk # << >>

------------------------------------------------------------------------------
(* Table writes: what each statement makes of an image t, the guild being  *)
(* g in memory.                                                            *)

Tables == disk[Len(disk)]
Issue(images) == Len(disk) <= Backlog /\ disk' = disk \o images

GuildRow(t, g) == [t EXCEPT !.gold = g.gold, !.pxp = g.pxp, !.level = g.level]
MemberRows(t, S, g) ==
    [t EXCEPT !.roll = [p \in Players |->
        IF p \in S /\ t.roll[p] # None THEN g.roll[p] ELSE t.roll[p]]]

\* setSlot and clearSlot.
SlotRowKept(t, s, g) == IF g.chest[s] = Empty THEN t ELSE [t EXCEPT !.chest[s] = g.chest[s]] \* variant
SlotRow(t, s, g) == [t EXCEPT !.chest[s] = g.chest[s]]

\* moveSlot exchanges the slot numbers of two rows, and nothing else of them.
RowsSwapped(t, src, dst) ==
    [t EXCEPT !.chest[src] = t.chest[dst], !.chest[dst] = t.chest[src]]

Flush ==
    /\ Len(disk) > 1
    /\ disk' = Tail(disk)
    /\ UNCHANGED <<carried, guild, clock>>

------------------------------------------------------------------------------
(* Contributions.                                                          *)

IsMember(p) == guild.roll[p] # None

CanContribute(g, p, pxp, penya) ==
    /\ pxp > 0 => g.level < Len(GuildTable)
    /\ g.pxp + pxp <= MaxPool
    /\ g.gold + penya <= MaxPool
    /\ g.roll[p].giveGold + penya <= MaxGive

\* At most one level for one contribution; it consumes both pools.
Leveled(g) ==
    IF g.level < Len(GuildTable) /\ g.pxp >= GuildTable[g.level + 1].pxp
                                 /\ g.gold >= GuildTable[g.level + 1].penya
    THEN [g EXCEPT !.level = @ + 1,
                   !.pxp = @ - GuildTable[g.level + 1].pxp,
                   !.gold = @ - GuildTable[g.level + 1].penya]
    ELSE g
Credited(g, p, pxp, penya) ==
    Leveled([g EXCEPT !.pxp = @ + pxp, !.gold = @ + penya,
                      !.roll[p].giveGold = @ + penya])

CreditRows(t, p, g) == <<GuildRow(t, g), MemberRows(GuildRow(t, g), {p}, g)>>

ContributePenya(p, n) ==
    LET g == Credited(guild, p, 0, n)
    IN  /\ IsMember(p) /\ n <= gold[p]
        /\ CanContribute(guild, p, 0, n)
        /\ guild' = g
        /\ gold' = [gold EXCEPT ![p] = @ - n]
        /\ Issue(CreditRows(Tables, p, g))
        /\ UNCHANGED <<bag, clock>>

\* Every gem stack of the bag in slot order, each credited and then removed; one
\* that is refused stays.
GemsGiven(p) ==
    LET Value(item) == IF item = Empty THEN 0 ELSE item.count * GemPxp[item.itemId]
        done[m \in 0 .. BagSize] ==
            IF m = 0 THEN [g |-> guild, b |-> bag[p], rows |-> <<Tables>>]
            ELSE LET d == done[m - 1]
                     pxp == Value(bag[p][m - 1])
                     g == Credited(d.g, p, pxp, 0)
                 IN  IF pxp > 0 /\ CanContribute(d.g, p, pxp, 0)
                     THEN [g |-> g, b |-> [d.b EXCEPT ![m - 1] = Empty],
                           rows |-> d.rows \o CreditRows(d.rows[Len(d.rows)], p, g)]
                     ELSE d
    IN  done[BagSize]

ContributeGems(p) ==
    LET d == GemsGiven(p)
    IN  /\ IsMember(p) /\ d.b # bag[p]
        /\ guild' = d.g
        /\ bag' = [bag EXCEPT ![p] = d.b]
        /\ Issue(Tail(d.rows))
        /\ UNCHANGED <<gold, clock>>

------------------------------------------------------------------------------
(* The bank.                                                               *)

FreeSlots == {s \in GuildBankSlots : guild.chest[s] = Empty}

\* putItem: any member, into the first free slot; never onto a stack.
PutItem(p, s, n) ==
    LET item == bag[p][s]
        d == Least(FreeSlots)
        put == Smaller(n, item.count)
        g == [guild EXCEPT !.chest[d] = [item EXCEPT !.count = put, !.objid = d]]
    IN  /\ IsMember(p) /\ item # Empty /\ FreeSlots # {}
        /\ bag' = [bag EXCEPT ![p][s] = Less(@, put)]
        /\ guild' = g
        /\ Issue(<<SlotRow(Tables, d, g)>>)
        /\ UNCHANGED <<gold, clock>>

WithdrawPenya(p, n) ==
    LET g == [guild EXCEPT !.gold = @ - n, !.roll[p].giveGold = @ - n]
    IN  /\ IsMember(p) /\ p \in PenyaPower
        /\ gold[p] + n <= MaxPurse /\ n <= guild.gold
        /\ gold' = [gold EXCEPT ![p] = @ + n]
        /\ guild' = g
        /\ Issue(CreditRows(Tables, p, g))
        /\ UNCHANGED <<bag, clock>>

\* withdrawItem: the bag first, and a fresh item goes into it; addItem succeeds
\* as soon as one unit fits.
MayTakeAnyway(p, k) == TRUE     \* variant: the answer of addItem is not looked at
MayTake(p, k) == CanAddOne(bag[p], k)

WithdrawItem(p, s, n) ==
    LET item == guild.chest[s]
        taken == Smaller(n, item.count)
        g == [guild EXCEPT !.chest[s] = Less(@, taken)]
    IN  /\ IsMember(p) /\ p \in ItemPower
        /\ item # Empty /\ MayTake(p, item.itemId)
        /\ bag' = [bag EXCEPT ![p] = AddUnits(@, [x \in Slots |-> x], item.itemId, taken)]
        /\ guild' = g
        /\ Issue(<<SlotRow(Tables, s, g)>>)
        /\ UNCHANGED <<gold, clock>>

\* The objid an item has in slot s: it must follow the slot.
Renumbered(item, s) == IF item = Empty THEN Empty ELSE [item EXCEPT !.objid = s]
MoveItem(p, src, dst) ==
    /\ IsMember(p) /\ src # dst /\ guild.chest[src] # Empty
    /\ guild' = [guild EXCEPT !.chest[src] = Renumbered(guild.chest[dst], src),
                              !.chest[dst] = Renumbered(guild.chest[src], dst)]
    /\ Issue(<<RowsSwapped(Tables, src, dst)>>)
    /\ UNCHANGED <<carried, clock>>

------------------------------------------------------------------------------
(* The roster, the payroll and the process.                                *)

\* What Guild's Accept and LeaveOrKick mean here: the counters of a member
\* start at nothing and go with it.
Enlist(p, member) ==
    /\ (guild.roll[p] = None) # (member = None)
    /\ guild' = [guild EXCEPT !.roll[p] = member]
    /\ Issue(<<[Tables EXCEPT !.roll[p] = member]>>)
    /\ UNCHANGED <<carried, clock>>

Paid(g) == {p \in Players : g.roll[p] # None /\ Salary[p] > 0}
Payroll(g) == SumFunctionOnSet(Salary, Paid(g))

\* The whole payroll, or nobody.
Pays(g) == ~ latch.sent /\ 0 < Payroll(g) /\ Payroll(g) <= g.gold

AfterPay(g) ==
    [g EXCEPT !.gold = @ - Payroll(g),
              !.roll = [p \in Players |-> IF p \in Paid(g)
                                          THEN [g.roll[p] EXCEPT !.pay = @ + Salary[p]]
                                          ELSE g.roll[p]]]

Due == ~ latch.swept /\ hour = SALARY_PAY_HOUR
Latched(pays) == [swept |-> TRUE, sent |-> latch.sent \/ pays]
ReopensIfSent == latch.sent /\ hour = SALARY_RESET_HOUR     \* variant: only after a payment
ReopensEarly == latch.swept /\ hour >= SALARY_PAY_HOUR      \* variant: an hour too soon
Reopens == latch.swept /\ hour = SALARY_RESET_HOUR

\* tickSalary; the rows of the members paid count as one write.
Pay ==
    LET t == MemberRows(Tables, Paid(guild), AfterPay(guild))
    IN  /\ Due /\ Pays(guild)
        /\ guild' = AfterPay(guild)
        /\ Issue(<<t, GuildRow(t, AfterPay(guild))>>)
NoPay ==
    /\ Due => ~ Pays(guild)
    /\ UNCHANGED <<guild, disk>>

Poll ==
    /\ Pay \/ NoPay
    /\ latch' = IF Due THEN Latched(Pays(guild)) ELSE IF Reopens THEN Unlatched ELSE latch
    /\ polled' = TRUE
    /\ UNCHANGED <<carried, hour>>

\* The poll runs every minute, so no hour goes by without one.
NextHour ==
    /\ polled
    /\ hour' = IF hour = SALARY_RESET_HOUR THEN 20 ELSE hour + 1
    /\ polled' = FALSE
    /\ UNCHANGED <<carried, guild, latch, disk>>

\* Killed and started again: the guild is what its tables hold, nobody is
\* latched; the players keep what their journal holds.
VaultCrash ==
    /\ guild' = Head(disk) /\ disk' = <<Head(disk)>>
    /\ latch' = Unlatched
    /\ UNCHANGED <<carried, hour, polled>>

------------------------------------------------------------------------------
(* Specification.                                                          *)

BankStep == \E p \in Players :
    \/ \E n \in 1 .. MaxPurse : ContributePenya(p, n) \/ WithdrawPenya(p, n)
    \/ ContributeGems(p)
    \/ \E n \in 1 .. MaxStack :
          \/ \E s \in Slots : PutItem(p, s, n)
          \/ \E s \in GuildBankSlots : WithdrawItem(p, s, n)
    \/ \E src, dst \in GuildBankSlots : MoveItem(p, src, dst)

RosterStep == \E p \in Players, member \in {None, NewMember} : Enlist(p, member)

VaultInit ==
    /\ gold \in [Players -> 0 .. MaxPurse]
    /\ bag \in [Players -> [Slots -> Item \cup {Empty}]]
    /\ guild \in GuildState /\ guild.gold <= MaxPool
    /\ \A s \in GuildBankSlots : guild.chest[s] = Renumbered(guild.chest[s], s)
    /\ latch = Unlatched /\ hour = 20 /\ polled = FALSE
    /\ disk = <<guild>>

VaultNext == BankStep \/ RosterStep \/ Poll \/ NextHour \/ Flush \/ VaultCrash

\* The interval and the wall clock never stop; the database gets to every write.
Fairness == WF_vaultVars(Poll) /\ WF_vaultVars(NextHour) /\ WF_vaultVars(Flush)

VaultSpec == VaultInit /\ [][VaultNext]_vaultVars /\ Fairness

------------------------------------------------------------------------------
(* Properties.                                                             *)

\* Penya in the purses and in the pool, what the levels cost, and what was paid.
PayOf(g, p) == IF g.roll[p] = None THEN 0 ELSE g.roll[p].pay
Penya ==
    SumFunction(gold) + guild.gold
    + SumFunction([l \in 1 .. guild.level |-> GuildTable[l].penya])
    + SumFunction([p \in Players |-> PayOf(guild, p)])

PenyaKept == Penya' = Penya

UnitsIn(b, k) == SumFunction([s \in DOMAIN b |-> CountOf(b[s], k)])
GuildUnits(k) ==
    UnitsIn(guild.chest, k) + SumFunction([p \in Players |-> UnitsIn(bag[p], k)])

ItemsKept(k) == GuildUnits(k)' = GuildUnits(k)

\* A withdrawal of more of k than the bag has room for, though it has room for some.
FallsShort(k) ==
    \E p \in Players, s \in GuildBankSlots, n \in 1 .. MaxStack :
        /\ WithdrawItem(p, s, n) /\ guild.chest[s].itemId = k
        /\ SpaceFor(bag[p], k) \in 1 .. (Smaller(n, guild.chest[s].count) - 1)

\* A kill while no statement is under way.
KilledAtRest == VaultCrash /\ Len(disk) = 1

\* The pool is the bank's balance, the price of levels and the payroll at once, and
\* no handler of the three mints or burns penya: what leaves a purse or the pool is
\* in the other, in a level or in the members' pay.  Nor is any unit of an item made
\* or lost between bag and chest: a full bag loses none of the stack, and a bag with
\* room for all that is taken none either.  (One with room for a part loses the rest;
\* nothing is said of it.)  And a kill makes and loses none of either, unless it
\* catches statements that the purse or the bag, journaled at once, is ahead of.
ChestAccounted ==
    [][/\ BankStep \/ Poll \/ KilledAtRest => PenyaKept
       /\ \A k \in {x \in ItemIds : GemPxp[x] = 0} :
             (BankStep /\ ~ FallsShort(k)) \/ KilledAtRest => ItemsKept(k)]_vaultVars

\* A guild without its objids: clients are told them, the rows keep them.
Bare(g) ==
    [g EXCEPT !.chest = [s \in GuildBankSlots |-> Renumbered(g.chest[s], 0)]]

\* Once the writes under way are applied, the tables hold what memory holds: a
\* patch that one of the three writers of the pool forgets, or that overtakes a
\* move of the chest, would come back with the next restart.
StoredAsLive == Bare(Tables) = Bare(guild)

\* Nothing is typed wrong, pool and purses are within their caps, and the tables follow.
VaultInv == VaultTypeOK /\ StoredAsLive

\* The payroll runs at 21 h, once: what forbids a second payment that evening is
\* lifted at 22 h, or when the process dies with it.
PaidOncePerEvening ==
    [][/\ Poll /\ guild' # guild => hour = SALARY_PAY_HOUR /\ ~ latch.sent /\ latch'.sent
       /\ latch.sent /\ ~ latch'.sent => hour = SALARY_RESET_HOUR \/ VaultCrash]_vaultVars

\* Every day the payroll becomes possible again, whether or not it paid.
PayrollReopens == []<> ~ latch.swept

==============================================================================
