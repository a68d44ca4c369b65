# Verification of the node-flyff servers

TLA+ models of the parts of node-flyff whose correctness depends on the order in
which things happen: trades, shops and bags, the account bank, the sessions of a
character and its mail, parties, guilds with their wars and their vault, the
registration of servers and the handoff between them. Each model is checked with
TLC on a small instance, and every safety and action property TLC finds true there is
proved with TLAPS for every value of the constants.

`PROJECT.json` lists the components, the runs, the definitions with the source
lines they stand for, the hazards, the findings and the theorems. This file says
how to read them. All source paths are under `src/packages/` unless they begin
with another directory.

## 1. Inventory of the system

node-flyff is three kinds of processes, each a single-threaded Node.js event
loop: a **login server**, a **cluster server** (character selection) and **world
servers** (the game). They talk over TCP and a local bus. Every client is one TCP
connection to one of them at a time. A packet handler that does not `await` is
atomic; what interleaves are handlers of different packets, continuations after an
`await`, timers, socket events, frames of other processes, and the death of a process.

State lives in four places, and most of the correctness of the servers is the
agreement between them:

* the **live objects** of a world server (`CPlayer`, the party and guild managers);
* the **journal**, a local SQLite log of every change of an item, of gold or of
  experience, written before the client is answered and replayed at boot;
* the **database**, written by fire-and-forget repository calls, by the 30 s
  checkpoint and by the disconnect flush;
* the **client**, which addresses items by an object id the server has to mirror.

| component | state | operations | what is hard | what makes it correct |
| --- | --- | --- | --- | --- |
| trade windows (`inventory/…/trade.service.ts`, `VTInfo`) | partner, staged items, staged gold and ITEM/OK/CONFIRM per side | open, put, pull, gold, OK, two confirms, cancel, disconnect | items are not escrowed while gold is; every other opcode, an older socket or a flush acts on the same players | offers final after OK; nothing minted or lost; all or nothing; journal follows memory |
| private shops (`inventory/…/vendor.service.ts`) | a title and listings in the same `VTInfo` as a trade | open, stock, browse, buy, close | wares stay in a bag every other handler reaches; `otherId` stands for a browsed vendor or a trade partner; 32-bit prices | a sale moves the price and the units listed, and is journaled |
| bag, equipment, enchanting (`inventory/…`, `entities/…/player.ts`) | 42 bag slots and the equip parts, the mirrored client index, rows, journal | add, drop, remove, move/merge/swap, equip, unequip, enchant, load | two slots and four stores per operation; objids reused | canFit exact, rows current |
| bank (`npc/…/bank.service.ts`) | per-account tabs, one copy in each live character | deposit, withdraw, gold in and out, load, flush | copies of several characters and sessions, two journal rows per move, flushes that come late | gold only moves between purse and tab; a copy no other session overtook is right |
| join, leave, checkpoint, recovery (`world-server/…`) | player registry, sockets, unreplayed journal rows | JOIN, close, flush, replay | JOIN and the flush await between their queries; a close before JOIN is through; a kill anywhere | the next session carries what the last one left; nobody stays registered after a disconnect |
| mail (`mail/…`, `admin/app/api/mail`) | letters with attachments, the mailbox flag | read, claim item or penya, delete, post, push | every claim acts on a row read before an `await`; the flag is recounted by overlapping queries | the flag is right once the queries are through; bag and rows agree |
| party (`party/…`) | rosters, invites with timers, back-references, stored rosters | invite, answer, expire, leave, kick, hand over, disconnect, rejoin | answers long after the checks, flushes and pushes in between, unawaited roster writes | sane rosters, lawful authority, invites resolved, stored rosters that follow |
| guild rosters (`guild/…/guild.*.ts`) | guilds, name index, ranks and powers, invites, lockouts, three tables | create, disband, rename, invite, leave, kick, promote, hand over, powers, hydrate | late answers, unawaited statements cut by a kill, deleted characters | exclusive rosters and names, guilds led, leavers locked out, tables follow |
| guild wars (`guild/…/guildWar.*.ts`) | wars, war ids of guilds, marks on players, proposals, truces | declare, accept, surrender, truce, kill, absence, tick, hydrate | members log in and out and are invited meanwhile; two tables to relink at boot | registry, guilds and marks agree; sides frozen; wars end |
| guild vault and payroll (`guild/…/guildBank.*.ts`, `guildContribution.service.ts`) | pool of penya, chest, level, latches of the payroll | deposit, withdraw, move, contribute, pay | three writers of one pool; the bag is journaled, the guild's row is not | penya and units balance; one payment an evening |
| server registration (`cluster-server/src/ipc`, `world-server/src/ipc`, `login-server/src/ipc`) | one online entry per id, a socket map, a registrar per process | REGISTER, heartbeat, UNREGISTER, timeout, reconnect | silent drops, resets, closes that arrive after a new registration | entries tied to open sockets, no displacement, ghosts expire, registrars that run reconnect |
| local bus and handoff (`ipc/src/localBus.ts`, `world-server/src/ipc/clusterListener.ts`) | broker, subscriptions, streams, pending handoffs | publish, subscribe, fan out, consume once | double or missing delivery while brokers come and go | away from the broker handed once, in order and redeemed once; the bus heals |
| IPC requests (`ipc/src/IpcClient.ts`, `circuit.ts`) | pending requests, breaker state | request, answer, timeout | used by no server | each request resolved once |
| guild quests, friends, campus | a boss quest per guild, relations, points | start, end; add, delete | timers; two live ends of one relation | one arena; symmetric lists |
| skills, combat, quests | formulas, cooldowns, quest states | per player | little interleaving | mostly arithmetic |
| world-core, npc shops, dialogs, resources, core, gateway, admin | indexes, parsers, framing, consoles | – | – | pure functions and I/O |

How they interact: packets reach the world server's dispatcher and from there one
service; services share the live players; disconnects and joins call into trade,
party, guild and bank; every change goes to the journal and then to a repository;
world servers register with the cluster server and clusters with the login server; a
cluster hands a character to a world over the bus, and the world redeems it at JOIN;
the admin console writes to the database and tells the worlds over the same bus.

## 2. Modules

| module | what it is |
| --- | --- |
| `Inventory` | items, rows, and the pure operations on slots that Trade, Bag and Bank share: `Less`, `Poured`, `RowsMoved`, `Stored`, `Load`, `FindSlotByObjId` |
| `Trade` | TradeService with the bags, purses, sessions and journal it works on |
| `Bag` | InventoryService, EquipService, EnchantService and the client's slot index |
| `Account`, `Bank` | what an account is promised about its gold; BankService and JoinService, which implement it |
| `BankCopies` | `Bank` with two history variables: which copies another session has overtaken, and which rows a flush of such a copy has rolled back |
| `Market` | VendorService, over the windows, bags and purses of `Trade` (EXTENDS it) |
| `Session` | JOIN, disconnect, kill and the mailbox, around the bag of `Bag` (EXTENDS it) |
| `SessionRows` | `Session` with a history variable: the JOINs under way that have met a connected client of their character; that the others implement `Bag` |
| `Party` | PartyManager and PartyService with their stored rosters |
| `PartyTables` | `Party` with a history variable: has a character been in two parties, or been deleted |
| `Guild` | GuildService and GuildManager with the guild tables |
| `GuildRanks` | `Guild` with a history variable: has a restart loaded half a changeMaster |
| `GuildWar` | GuildWarService and its tick, over the rosters of `Guild` (EXTENDS it) |
| `Vault` | GuildBankService and GuildContributionService |
| `Registry` | WorldRegistry and ClusterRegistrar over TCP connections |
| `Handoff` | LocalBus, HandoffPublisher, ClusterListener and the JOIN's consumption |
| `MC…` | the instances TLC checks: values of the constants, initial states, counters that bound a behaviour |
| `…Proofs` | theorems and proofs about the module of that name; `InventoryProofs` holds the lemmas on slots, units and sums that several of them cite |

Every operation is one action: its guard collects the early returns, its primed
variables all that the handler and the calls it makes change. `map` in
`PROJECT.json` names the lines. Operators marked *variant* are not used by any
action: each is a plausible mistake, and replacing the operator of the code by it
makes one property fail.

### Inventory and the three stores

An item is an id, a count, an objid and `opt`, the whole instance state (flags,
refine, element, durability) as one value. `opt = Plain` is an item in its default
state; `Elemental` are the values with an element. `db` is what the
`inventory_item` rows hold once the issued writes have settled, `durBag` (`wal` in
Bank) what recovery would restore. `Stored`, `Persisted` and `Row` say what each
kind of write keeps: `setItem` everything, `InventoryService.persist` no element,
a journal row only the id and the count.

Two facts of the code are assumptions of the models: rows issued without `await`
are applied in the order issued (true of the default better-sqlite3 pool of one
connection, not of a larger pool), and a row is appended to the journal atomically
(each is an autocommitted insert).

### Trade and Market

Windows are positions of `VTInfo.items`; a stake remembers the instance state of
the item staged, for the properties only. `Open`, `Put`, `Pull`, `PutGold`, `Ok`,
`FirstConfirm`, `SecondConfirm`, `Cancel` are the packets; `DeadLink` is the
teardown when the partner is gone. `SecondConfirm` either commits (`Commit`, with
the plan of `collectOutgoing` and `planSwap`: stakes out, received items into the
slots left free in their order) or aborts. `InventoryStep` stands for every other
handler that can change a bag or a purse between two packets. `connected` and
`stale` distinguish the current and an older socket of the same character, since
handlers find the player by character id; `closing` are players whose disconnect
flush is awaited while they are still registered. `CrashInCommit` kills the process
after any number of the rows a commit writes.

`Market` adds `shop`, the other half of `VTInfo`, and keeps every step of `Trade`.
`CloseShop` and `StopBrowsing` release `otherId` whatever it stands for, as the code
does: a trade partner's too, so a trade can lose one end of its link, and that is why
`StakesHaveLink` is a property of `Trade` alone. A shop stays open during its
owner's disconnect flush; only the admin drain calls `VendorService.onDisconnect`.
`Price` is `Math.imul`. The buyer receives a plain item, whatever the vendor had.

### Bag and Session

One character, its bag and its equip parts. `Room` lists the units that still fit,
in the order addItem's two passes fill them, so that `Added` and `CanFit` are sets
instead of loops; `AddsAsPromised` checks this reading against a reference that adds
unit after unit. `index` is the client's slot index (`m_invIndex`). `Relog` loads
the rows, `Restart` first replays the journal: one step each.

`Session` takes these two apart. `calls` holds the continuations that await the
database, in the order in which they resume: `Join`, `FindItems`, `LoadInventory`,
`Enter` are JoinService.join between its awaits, `CloseInWorld`, `Save`, `Leave` the
disconnect. `CloseJoining` is a `'close'` that comes before the JOIN is through: the
hook finds no charId, and `Enter` registers the player all the same. `player` is the
connection of the CPlayer in the registry. Nothing in the servers keeps a character from
joining while an earlier session of it is connected, is being saved or awaits claims, and
nothing does here: the CPlayer that enters last takes the place of the one before,
`bag` is its bag (`current`), and a claim that began with a replaced CPlayer goes on with
that one's (`aside`, `AddAside`), whose rows are the same. A claim (`MarkRead`, `TakeItem`,
`TakeGold`, `RemoveLetter`) runs when the query of its row is answered, and acts on
that row; its mark is a write of its own, after which the mailbox flag is recounted
(`SyncMode`, `Synced`). `Post` and `MailPushed` are the admin console's insert and its
command, which may get lost.

Three simplifications: queries are answered in order, as over one connection; JOIN has
three awaits and the flush two, fewer than the code, all of the same kind; and a kill
leaves the marks of letters already issued applied. The
purse is not in this module, so of a claim of penya only the mark is.

### Bank

Purse, bag slots, tab gold and chest slots are cells, one per database column or
row; an operation changes two cells in memory, in the journal and in the database.
`Objects` are CPlayers, one per JOIN, several of which may be of one character and
all of which are of one account. `Join`, `LoadBag`, `LoadPurse`, `LoadChest`, `LoadGold` and
`Enter` are JoinService.join from query to query, `SocketClosed` and `Leave` the disconnect,
before or after the JOIN is through; `FlushTab` is one `setGold` of a checkpoint or a
disconnect flush, and a checkpoint's, which nobody awaits, may come after the leave, until
`Forget`. `KilledMidway` is a kill between an operation's two journal rows.

Two characters of an account, or two sessions of one, may be in the world together, each
with its own copy of the bank; nothing in the servers prevents it. `BankCopies` records
which copies are overtaken (`behind`) and which rows were overwritten from one (`rolled`),
so that the properties can say exactly which copies, flushes and moves stay right, and
claim nothing of the others.

### Party

`pending` and `timers` are PartyService's map and its `setTimeout`s, kept apart
because the code must keep them together. `SocketClosed` is the synchronous part of
a disconnect, `Leave` what follows its awaited flush; `Join` and `OnJoin` the JOIN
and its social push, which may come late or not at all (`JoinPushFailed`).
`DeleteCharacter` is the cluster server's deletion. `db` and `rows` are the stored
rosters with the constraints of `022_parties.ts`. Roster writes are promises nobody
awaits: `Persist` queues one in `writes`, `Flush` runs the next or lets it fail, and a
restart loses those under way. The tables follow the live ones only until a
character is in two parties or deleted, which `PartyTables` remembers in `doubled`. A character has one socket at a
time in this model: it rejoins only after its old socket has closed.

### Guild and GuildWar

Sessions are those of `Party`. Handlers are synchronous, and their table writes are
statements nobody waits for: `disk` is the queue of images the tables pass through,
the first of which is durable. `Issue` appends one image per statement, `Flush` drops
the first, and `Hydrate` restarts from it alone: a kill cuts a handler's writes
after any of its statements. `RemovedRows`, `HandedOver` and their like list the
statements of one handler in their order. `cooling` are the characters whose lockout
is running, `CooldownOver` its end; the lockout rows of a disband count as one write.
Ranks are numbers with powers as sets; `RankCapAssumption` is what the table of
`guildTable.ts:181` says of its ends: one master, and rookies up to the size of a guild.
`changeMaster` is three statements, and an image between them shows two masters or none;
`torn` of `GuildRanks` remembers that a restart has loaded one of these. Sub-grades, aliases, notice, logo, salaries and
chat are left out.

`GuildWar` fills in what `Guild` only reads, `link` and `wars`, and overrides none of
its actions: `WarNext` takes each of them and says what it does to the marks (`idWar`).
`Tick` is the tick's turn at one war, which may time it out; `Result` the statements
that end one. Level gates and win points are left out.

### Vault

One guild. `gold` and `bag` are what members carry, in memory and in the journal at
once (that is the subject of `Trade` and `Bag`), so a kill leaves them; the guild's side
is a queue of images, as in `Guild`, and a kill cuts it. `MayTake` is the `addItem` port
of `compose.ts:726`, which reports success when only part fits. `Leveled` pays a level
out of the pool. `Poll` is the payroll's one-minute interval with its two latches,
`NextHour` the wall clock in three hours: before, at and after the payroll.

### Registry

A connection has two ends, each open, closing (`destroy()` called, `'close'` still to
come) or closed, a queue in each direction and a flag for a silent drop. `entry` is
`#worlds` with the connection of each entry; `link[c].id` is `#socketMap` together
with the handler's `registeredServerId`; `late` are the entries older than the
timeout; `phase` and `registered` are the registrar's fields. Allowlist and token
are one set, `Admitted`. `Closed`, `HangUp` and `GiveUp` are the `'close'` events;
`SeesClose` says when an end learns that the other one closed (after reading what
was sent, or at once by a reset). Two processes may share one id by mistake
(`IdOf`). LoginRegistrar and ClusterRegistry run the same protocol with other
payloads, so the module speaks for them too. `ClusterRegistrar.shutdown` is an
action, although a running server never calls it; `WorldRegistry.stop` has no
caller and is not.

### Handoff

Of the two transports of the bus, this is LocalBus; Redis is a service outside.
`broker` is the process that bound the port; `link` the processes whose client socket
is up, the broker's own included. `Connect` and `Subscribe` are `openClient` with its
re-subscription, `Route` the broker's fan-out, `Deliver` a client's. The broker hears
a publication where it routes it and once more through its own socket. `Kill` ends a
process with its sockets; frames the others had already been sent are still read.
Nobody binds the port again but a process that starts. A publication without a socket
is dropped while the client is told to go on; an envelope may be found older than 30 s,
and an entry may run out.

## 3. Runs

| run | instance | distinct states | shows |
| --- | --- | --- | --- |
| `trade` | 2 players with 2 slots, a refined sword (stack 1) and potions (stack 2), 2 windows, MAX_GOLD 1, gold up to 3, 3 events around the window | 150,099 | `StakesHaveLink`, `JournalCurrent`, `GoldConserved`, `OffersFrozen`, `ItemsConserved` |
| `tradekill` | the same | – | a kill inside a commit recovers half a trade (finding) |
| `market` | 2 players with 2 slots, one shop of 1 listing, price 2, 32-bit bound 4, 1 trade step and 2 other events | @MARKET@ | `MarketInv` (typing, journal and rows current), `SoldAtPrice`, `SaleConserves` |
| `bag` | 3 bag slots, 1 equip part, a sword that can be worn and enchanted, a stone of stack 2, 6 operations | 19,674 | `RowsCurrent`, `AddsAsPromised` |
| `session` | 2 bag slots, 1 part, 2 interchangeable connections, 1 letter (two units and penya), 2 client calls in flight, 2 bag operations, mail requests or kills | @SESSION@ | `SessionInv`, `MailboxShown`, and that JOINs which meet no connected client implement `Bag` |
| `bank` | 2 characters of one account, one with two sessions, 1 tab, one bag and one chest slot, MAX_GOLD 1, amount 1, 3 JOINs, 2 sessions at a time, 1 kill midway | @BANK@ | `FlushIsRedundant`, `UnitsKept`, and that Bank implements `Account` |
| `party` | 4 characters, parties of up to 3, 2 party ids, 2 invites open, 1 roster write under way, 2 sockets opened or closed or 1 deletion | @PARTY@ | `RosterSane`, `IdPartyIsOwn`, `StoredAsLive`, `AuthorityKept`, `InviteResolved` |
| `guild` | 3 interchangeable characters, 2 names, 2 guild ids, guilds of up to 2, ranks 0, 1 and 4, 2 events | 160,241 | `RegistrySane`, `IdGuildIsOwn`, `GuildsAreLed`, `LeaversLocked`, `StoredAsLive`, `RanksSane` |
| `guildwar` | 3 characters, 2 guilds of up to 3, 2 war ids, counters up to 1, a war times out at its first tick, 1 event | @GUILDWAR@ | `WarInv`, `SidesFrozen`, `WarsEnd` |
| `vault` | 2 members, of whom one may take, bags of 1 slot, a chest of 2, purses up to 2, a pool up to 3, 2 writes queued, 3 bank or roster events | @VAULT@ | `VaultInv`, `ChestAccounted`, `PaidOncePerEvening`, `PayrollReopens` |
| `registry` | 2 processes that share an id, 3 connection names each, 2 events (crashes, cuts, stalls, shutdowns, restarts) | @REGISTRY@ | `NoTakeover`, `GhostsExpire`, `Reconnects` |
| `handoff` | the cluster and 2 worlds, 1 character, 2 handoffs, 2 kills | @HANDOFF@ | `BusInv`, `OnceAndInOrder`, `BusHeals` |

Each of `WarInv`, `MarketInv`, `VaultInv`, `BusInv` and `SessionInv` holds its module's
type invariant together with the relations it depends on; the type invariants of the
other modules are proved (section 5). All the properties named here but the six liveness
properties are theorems as well.

### Why the bounds are enough

* **Trade, Market.** Two slots and a stack of two are the least with a partial stake, a
  slot freed by the trade itself, a full bag and a replaced slot. `MaxEvents` counts
  openings of the window and everything around it, so that three cover a trade
  opened, disturbed, and opened again with the `VTInfo` left behind. `MaxGold` 1
  with wealth up to 3 has purses below, at and above the clamp. In `market` a stack of
  two costs 4, which wraps; one vendor and one buyer meet every order of listing,
  changing the bag, browsing and buying, and a vendor can buy from itself.
* **Bag, Session.** Three slots hold two partial stacks and a single; six operations wear
  an item, move another under it, relog and restart. Amounts go to twice the stack size,
  beyond what the bag can take. In `session` two connections are the least that
  overlap, in any phase of either: a JOIN over a live session, during its save, or with its
  claims in flight, and a ghost with its successor; two requests are two claims of the
  letter, or a claim and a deletion, in flight at once; the bag starts with room for one
  unit of the two attached, so that a claim may fit in part or, after a drop, whole.
* **Bank.** Two sessions at a time are the least with an overtaken copy; they are of one
  character or of two, and a third JOIN follows what they leave behind. `MaxGold` 1 with
  two coins reaches the cap; an item moves between two characters through the chest. One
  tab: tabs are loaded and flushed one after another and share nothing but the purse.
* **Party.** Two casts. Four characters who stay, one more than a party holds, contest the
  last place with two invites open at once. Three come and go, which is what a third one
  beside an invite's two, a kick and a succession need; `MaxId` 2 allows a party after a
  party. Invites, answers and restarts are unbounded, only sockets and deletions are
  counted. One roster write is under way at a time, and a kill may lose it.
* **Guild, GuildWar.** As for parties: three characters, two ids, two names. Guilds of
  two have a contested last place. `Backlog` 1 starts a handler only when the writes of
  the last are through; one handler's own statements, which is where a kill
  hurts, are all in flight at once. `Ranks` {0, 1, 4} has the master, one rank that is
  capped and the rookies. A war of `Duration` 0 can end before, at and after its first
  tick, and `MaxWars` 2 allows a war after a war. One of the wars' initial states has a
  guild that was never stored, because its founder was deleted while founding it: its
  war is the one a restart drops (`WithoutOrphans`).
* **Vault.** `Backlog` 2 mixes the statements of two handlers; a bag of one slot and a
  stack of two make a withdrawal fit, fit in part, or not at all; the pool reaches its cap
  and the price of a level.
* **Registry.** Two processes with one id contend for it in every phase; a process
  uses a new name only once its old connection is closed at its own end, so three
  names suffice: were there too few, a registrar would stay in `retry` and
  `Reconnects` would fail. Two events combine any two of a cut, a stall, a
  crash, a shutdown and a restart. Heartbeats are bounded by having at most one in
  flight; its acknowledgement changes nothing and is left out.
* **Handoff.** Two kills take down the broker and what was started after it; two handoffs of
  one character are the least that can come out of order. Two worlds are one that is the
  broker and one that is not, and with the cluster as broker, none.

`CHECK_DEADLOCK FALSE` stands where the counters, or a client that does nothing more,
let a behaviour end (all but `bank` and `vault`).

### Fairness

The safety properties need none, and no client and no operator is ever assumed to act.

* `Party`: an armed `setTimeout` fires (`WF` of `ExpireInvite`).
* `Registry`: event loops run, TCP delivers on a link that works, intervals and timeouts
  fire and time passes. No fairness makes an operator start a process, an end notice
  a silent drop over which it has nothing unacknowledged (`Notice`), or a link drop
  or come back. `Reconnects` is about registrars that go on running and are answered: one
  that was refused does not dial again, and one whose REGISTER got through a link that then
  dropped silently waits for ever, since nothing is owed to it and no timer of the code
  covers the wait. Of these two the property claims nothing (section 4).
* `GuildWar`: the one-second tick reaches each war and the database gets to the writes
  issued (`WF` of `Tick`, `Flush`). `WarsEnd` excepts a war whose timeout latch a restart
  brought back already set, which the tick passes over for ever.
* `Vault`: the payroll's interval runs, the clock advances, writes are applied (`WF` of
  `Poll`, `NextHour`, `Flush`).
* `Handoff`: a client redials, the broker reads and routes, clients read, and a world that
  is connected subscribes (`WF` of `Connect`, `Route`, `Deliver`, `Subscribe`). `BusHeals`
  is about behaviours in which every process stays up in the end; none is started by
  fairness.

## 4. Findings

One run is a violation: *a kill inside a commit recovers half a trade*
(`trade.service.ts:363`), against `README.md:34-37`.

The code also departs from what its own texts say in the places below. The models follow
the code there; the properties claim nothing of these cases, so a run that passes says
nothing for them:

* *stale copies of the bank.* A flush "is a redundant overwrite, never a dupe or rollback"
  (`join.service.ts:326-330`): a copy that another session of the account has overtaken
  rolls tab gold back, and deposits and withdrawals from it dupe and lose items
  (`FlushIsRedundant`, `UnitsKept` and `Account` except such copies);
* *ghosts.* Entries are removed on disconnect (`player.manager.ts:4-5`), no ghost leaks
  (`join.service.ts:298-300`): a connection that closes before its JOIN is through leaves a
  player registered, until the character joins again (`SessionInv` excepts it); and a late
  leave removes by id whoever is registered by then (`:279`);
* *rosters after a kill.* "A hard kill cannot roll a roster back" (`party.repo.ts:60-62`): the
  writes are not awaited, and a kill loses those under way (`StoredAsLive` speaks of the
  time when they are through);
* *double delivery.* There is none (`localBus.ts:199-200`), and handoffs are single-use
  (`clusterListener.ts:10-11`, `:117-118`): the broker's own process hears a publication
  twice and may redeem it twice (`OnceAndInOrder` and `SingleUse` except the broker). Every
  world takes every handoff, whoever it is for;
* *reconnecting.* The registrar "auto-reconnects" (`clusterRegistrar.ts:5-9`): not when its link
  drops silently before the ACK, and not after it was refused as a duplicate of its own old
  connection, which it takes for a policy decision (`:273`); and a late `'close'` of the
  old connection takes the new one off the list (`Reconnects` excepts the first two and
  does not speak of the list);
* *partial fits.* "A full bag cannot destroy the stack" (`guildBank.service.ts:301-302`, `:110`): a
  withdrawal from the guild chest that fits only in part loses the rest, `compose.ts:726`
  (`ChestAccounted` excepts it);
* *shrunken wares.* A listing is re-validated at the sale (`vendor.service.ts:237-238`): not its
  count, so a stack that shrank is sold as it was listed, and the vendor keeps the rest
  (`:258`, `:281`; `SaleConserves` claims nothing of the vendor's bag then).

Other behaviour a reader may not expect, of which no text says otherwise:

* a trade delivers what lies in the slot: id, objid and count are compared, not the
  instance state (`trade.service.ts:459`), and objids are reused (`player.ts:823`);
* a shop's close, or a browser's, releases a trade partner too (`vendor.service.ts`,
  `VTInfo.ts:18-22`), and what was staged stays in a window without a partner;
* a relog after a swap of rows exchanges refinements (`inventory.repo.ts:240`); a deposit
  strips the element (`bank.service.ts:247`);
* an attachment is delivered twice when two claims are in flight
  (`mail.service.ts:95-103`), and one that fits only in part is marked taken; penya
  posted as `00` counts as pending for ever (`mail.repo.ts:166-167`, `route.ts:37`);
* a JOIN over a live session of its character may load rows that session then changes
  (`join.service.ts:181`);
* a character is accepted into two parties (`party.service.ts:157`);
* moves in the guild chest tell clients one objid and store another
  (`guildBank.service.ts:364`).

## 5. Proofs

The proof modules state, for every value of the constants that satisfies the named
assumptions (`TradeAssumption`, `BagAssumption`, `BankAssumption`, …):

| module | theorems | argument |
| --- | --- | --- |
| `TradeProofs` | of `Trade`: `TypeCorrect`, `StakesLinked`, `OffersAreFinal`, `TradeConservesGold`, `TradeConservesItems`, `JournalIsCurrent`; of `Market`: `MarketIsSound`, `SalesMoveThePrice`, `SalesConserveItems` | `TypeOK`, then `StakesHaveLink` beside it, are inductive; each step's effect on `vt` is classified once (`VtOfStep`) and the two-way link gives the action properties. `JournalCurrent` is inductive with `TypeOK`: every handler journals exactly the slots it changes. A commit conserves items because no two windows of a side hold the same slot (`StakesApart`, inductive too), because the received items and the slots they get are paired by rank, one to one, and because a sum over slots is then moved term by term. A step of `Market` is one of `Trade`, one that leaves the goods alone, or a sale; a sale's bags stay well formed since adding units empties no slot (`AddUnitsType`), and its units balance since `AddUnits` of n units adds exactly n where they fit (`AddUnitsCounts`) |
| `BagProofs` | of `Bag`: `TypeCorrect`, `RowsAreCurrent`, `AddsWhatWasPromised`; of `Session`: `SessionIsSound`, `MailboxIsShown`; of `SessionRows`: `SessionImplementsBag` | `TypeOK /\ RowsCurrent` is inductive; the lemmas say that a move of rows is the move of the items as far as a row shows them. `canFit` is exact because the units `Room` lists are numbered by the rank of their slot, so that adding n + 1 units is adding n and then one (`AddedNext`). `SInv` says what the calls in flight may be, whatever sessions overlap, and that a registered player whose connection closed has a save or a leave in the queue. A JOIN that meets no connected client enters with the rows as they are (`RInv`): claims begin with a connected client, so those in flight are ahead of it, and it reads its rows after them. The mailbox flag is right because a change that has been told of is followed in the queue by a recount, and of two recounts the later counts later rows (`MailInv`) |
| `BankProofs` | of `Bank`: `TypeCorrect`; of `BankCopies`: `CopiesAreCoherent`, `FlushesAreRedundant`, `UnitsAreKept`, `BankImplementsAccount`; of `Vault`: `TablesFollowTheGuild`, `PayrollOncePerEvening`, `NothingLeavesTheChestUnseen` | `IInv == Typed /\ CopyTypeOK /\ Overtaken /\ Coherent`: an object that has entered has loaded its cells, only tabs are rolled back, a cell without a journal row has no overtaken copy, and every other copy is what recovery would restore. No assumption is made on how sessions overlap. Each step maps to a step of `Account` or to a stutter under `purse`/`vault` = what recovery would restore; a move on such a copy changes two cells, and what one gains the other loses. For `Vault`, `VInv` adds to the clauses of `VaultInv` that every image in the queue is a guild a restart could load; each handler appends one image that agrees with memory, objids aside. Units and penya balance per handler, by what the sums over bags, chest and members gain or lose in the one or two places it writes |
| `PartyProofs` | of `Party`: `TypeCorrect`, `RostersAreSane`, `TimersMatchInvites`, `BackReferencesHold`, `AuthorityIsKept`; of `PartyTables`: `TablesFollow` | `IInv` adds to the properties that stored rosters are well formed, since a restart makes them the live ones, that party ids from `nextId` on are unused, and that nobody invites itself. The tables follow (`Synced`) because, while nobody is in two parties and nobody deleted, the constraints of the tables refuse no write: the writes under way, applied in order, lead from the stored rosters to the live ones, through rosters in each of which nobody is in two parties, and a restart that loses them starts from one of these |
| `GuildProofs` | of `Guild`: `TypeCorrect`, `RegistryIsSane`, `BackReferences`, `GuildsLed`, `LeaversAreLocked`, `TablesFollow`; of `GuildRanks`: `RanksAreSane`; of `GuildWar`: `WarsAreSound`, `SidesStayFrozen`, `GuildsOutlastWars` | `IInv == TypeOK /\ Live /\ Durable /\ Own`. `Live` says the registry is sane, below `nextId`, led and indexed; `Durable` says the same of every image in the queue, that consecutive images lock out whoever leaves, and that the last agrees with the registry: a restart may make any of them the live one. Each handler is a sequence of images, and one lemma per kind of statement says that appending it keeps `Durable`. `RanksInv` and `WInv` are described below |
| `RegistryProofs` | `TypeCorrect`, `EntriesAreOpen`, `RegistrationsAreAccepted`, `NoDisplacement` | `IInv` says which queues can be in flight with which ends (`LinkOK`: an ACK in flight or a registered registrar means the registry's end, if open, is mapped to the id; a REGISTER in flight means it is not), that a process has one socket (`OneSocket`) and that only connected or leaving registrars are registered |
| `HandoffProofs` | `BusIsSound`, `HandedOnceInOrder` | `IInv` says who may have frames in flight, that the publications in a stream and those behind it are in the order issued and above everything the reader was handed, that an entry was received more often than redeemed, and, where the world is not the broker, received once |

Why strengthenings are needed, by example: an online registry entry belonging to an
open connection (`EntryIsOpen`) is not preserved by a
`'close'`, which takes the entry off by id, unless the closing connection's id is the
id of its entry and of its dialer; and `GuildsAreLed` of the live guilds is not preserved
by a restart unless every image of the tables is led, which handing over the
mastership keeps only because its three statements come in the order they do.

*Ranks.* `RanksInv` is assumed of a state that is not `torn`: in memory exactly the
master holds the master's rank and no rank is over its cap, and no *image* is over a
cap either, the half-written ones included, because a restart that loads a whole image
must find them kept. That a promotion cannot push an image over its cap follows from
comparing holders rank by rank (`Lesser`): every statement of a handler leaves the holders
of a rank other than the rookies among those of the image before it or of the registry,
and rookies fit because a roster does. A master who is on no roster was deleted and has
left the world, so no invite brings it back under its old rank.

*Wars.* `WInv` is `IInv` with the types of the war variables and: the registry of wars and
the war ids of guilds lead to each other (`Linkage`), both guilds of a war are there
(`Fielded`), the last image has the wars memory has, in every image no guild is in two wars
and, until a character is deleted, each side is as strong as when its war began (`Warlike`,
of all images for the same reason as above), and who is marked is a member of a guild that
fights (`Marked`). TLC finds `WInv` invariant on the instance of `guildwar`. A step of `Guild`
that deletes nobody leaves the guilds alone, in memory and in the images it issues, but for
some that are in no war (`Steady`, `Harmless`). A handler of a war is a `Course` of images
like those of `Guild`; `WarSettled` and `WarKept` say what is left to show of it. Hydration
is the case that is easy to get wrong: it drops the wars whose guild was never stored and
links the rest (`HydrateKeeps`).

*Sums and recursion.* The theorems of the library on induction take an operator as a
parameter and cannot be used. `InventoryProofs` states what the proofs need of it as
lemmas over sets: counting up to a number (`UpTo`), over the subsets of a finite set
(`BySubsets`), by the least counterexample (`HasLeast`). From these it derives that the
library's sum of a function may take off any of its terms first (`SumUnfolds`), what it
does when one or two of its terms change (`SumChanged`, `SumMoved`), that sums agree
through a one-to-one map (`SumThrough`), that a finite set of numbers is in one-to-one order with its ranks
(`Ranked`), and what the recursive `AddUnits` adds (`AddUnitsCounts`, `AddUnitsType`). Conservation
therefore holds for any finite number of players, slots, tabs and ids: the sets over which
a property sums are assumed finite (`TradeAssumption`, `BankAssumption`, `VaultAssumption`,
`GuildAssumption`), as the characters of a server are.

*Histories.* `doubled`, `torn`, `crowded`, `behind` and `rolled` are history variables, each in
a module of its own over the specification it observes; they occur in no guard, so they
restrict no behaviour.

Only model-checked is liveness (`InviteResolved`, `GhostsExpire`, `Reconnects`,
`WarsEnd`, `PayrollReopens`, `BusHeals`): it needs fairness and ENABLED, which are out of
the prover's reach. `KillKeepsItems`, of `tradekill`, is false of the code (section 4).

## 6. Not modelled, and why

Player position, vitals, buffs, quests and presence; levels, loot and experience
shares of a party; sub-grades, salaries by rank and chat of a guild; item use, pets,
collecting; the bank password and distances; the formats of packets; every payload
that no property speaks of.

* *Writes that fail or are reordered.* All models apply the writes to the database in
  the order issued, as a pool of one connection does; a pool of ten may not, and a
  failed write is only logged. This needs a model of its own (below).
* *The race at boot.* `compose.ts` starts the hydration of guilds and parties and
  does not wait for it before the port is opened; the models hydrate in one step.
* *Initial members of a guild.* `GuildService.create` takes `memberIds`, seated without a
  check; its one caller, the GM command (`command.service.ts:336`), passes none, and
  neither does `Create`.
* *Friends and campus, guild quests, duels, requests over IPC*: planned below.
* Combat and skill formulas, spatial indexes, spawns, parsers, dialogs, packet
  serializers, the login's passwords, the gateway and the admin console are pure
  functions or I/O, which unit tests serve better. They are most of the lines.

## 7. Plan

Done, in this order: `Inventory` and `Trade`, `Bag`, `Account` and `Bank`, `Party`,
`Registry`, each with its proofs; then `Guild` with its proofs, `GuildWar`, `Market`,
`Vault`, `Handoff` with its proofs, and `Session` with the mailbox; then the proofs
about `Session` and `Market`, about `GuildWar`, `Vault` and the histories, and of all that
is conserved.

Next, in order:

1. `Journal`: the journal refined to a database whose writes may fail or be applied
   out of order (a pool larger than one), with checkpoints that prune it. Abstract
   specification: a restart gives back the last acknowledged state.
2. `Session` with a bag per player object, so that what a JOIN over a live session goes on
   to do with stale rows can be followed; a purse, for the penya of a mail; a letter more.
3. `GuildQuest` over `Guild`, then friends and duels: relations with two live ends.
4. `Circuit` and `Requests`: the breaker of IpcClient and the pairing of requests,
   answers and timeouts, once a server uses them.
5. Proofs: that every step of `GuildWar` implements one of `Guild`, stated as a refinement;
   an abstract specification of a trade (two bags exchange what was offered, or nothing)
   and of the vault (one ledger), with the proofs that `Trade` and `Vault` implement them.
