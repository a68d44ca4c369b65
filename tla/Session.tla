------------------------------- MODULE Session -------------------------------
(***************************************************************************)
(* The sessions of one character -- JOIN, disconnect, kill -- and its      *)
(* mailbox, around the bag of module Bag: JoinService, the dispatcher's    *)
(* 'close' hook, PlayerManager, MailService and MailHandler.               *)
(*                                                                         *)
(* What awaits the database runs in pieces.  Queries are answered and      *)
(* their callers resumed in the order issued, as over one connection; a    *)
(* query's answer is what the writes issued before it left.  Nothing stops *)
(* a character from joining while an earlier session of it is connected,   *)
(* is being saved or awaits claims: the CPlayer that enters last is the    *)
(* one registered, and a claim goes on with the CPlayer it began with.     *)
(***************************************************************************)
EXTENDS Bag, Sequences

CONSTANTS
    Sockets,    \* client connections, each joining once
    Letters,    \* ids of mail rows
    Mailed,     \* <<item or Empty, count, penya attached>> a letter may carry
    None,       \* no connection, no row
    MaxCalls    \* bounds the calls a client has in flight

ASSUME SessionAssumption ==
    /\ None \notin Sockets \cup Letters
    /\ Mailed \subseteq (ItemIds \cup {Empty}) \X (1 .. MaxStack) \X BOOLEAN

VARIABLES
    socket,     \* session.state of each connection, and how it ended
    player,     \* PlayerManager: the connection of the CPlayer registered
    current,    \* the connection of the CPlayer entered last, whose bag `bag' is
    aside,      \* the bags of the CPlayers entered before it that had claims in flight
    calls,      \* the callers that await the database, in the order of resumption
    letters,    \* the character's rows of the mail table
    news,       \* of each letter, the admin's mail_pushed command
    box         \* MODE_MAILBOX of the registered CPlayer

live == <<socket, player, current, aside, calls>>
mail == <<letters, news, box>>
allVars == <<vars, live, mail>>

Letter == [item : ItemIds \cup {Empty}, count : 1 .. MaxStack, gold : BOOLEAN,
           read : BOOLEAN, takenItem : BOOLEAN, takenGold : BOOLEAN]
Claims == {"read", "item", "gold", "delete"}
Steps == Claims \cup {"character", "items", "rest", "save", "leave",
                      "marked", "list", "count"}
Calls == [of : Sockets, step : Steps, mail : Letters \cup {None},
          row : Letter \cup {None}, rows : Rows \cup {None}, pending : BOOLEAN]

Carried == [bag : Contents, index : [AllSlots -> ObjIds \cup {NullId}]]

SessionTypeOK ==
    /\ socket \in [Sockets -> {"new", "joining", "dropped", "inWorld", "closed"}]
    /\ current \in Sockets \cup {None} /\ player \in {None, current}
    /\ aside \in [Sockets -> Carried \cup {None}]
    /\ \A i \in DOMAIN calls : calls[i] \in Calls
    /\ letters \in [Letters -> Letter \cup {None}]
    /\ news \in [Letters -> {"unwritten", "untold", "told"}]
    /\ box \in BOOLEAN

------------------------------------------------------------------------------
(* Calls.                                                                  *)

Call(s, step) == [of |-> s, step |-> step, mail |-> None, row |-> None,
                  rows |-> None, pending |-> FALSE]

\* MailRepository.countPending # 0.
Pending ==
    \E m \in Letters :
        /\ letters[m] # None
        /\ \/ ~letters[m].read
           \/ letters[m].item # Empty /\ ~letters[m].takenItem
           \/ letters[m].gold /\ ~letters[m].takenGold
CountPending(s) == [Call(s, "count") EXCEPT !.pending = Pending]

Resumed(step) == calls # << >> /\ Head(calls).step = step
Caller == Head(calls).of
Await(c) == calls' = Append(Tail(calls), c)
Done == calls' = Tail(calls)

HasClaim(s) == \E i \in DOMAIN calls : calls[i].of = s /\ calls[i].step \in Claims

------------------------------------------------------------------------------
(* JOIN: the character row, then the inventory rows, then the rest.        *)

Connected == {s \in Sockets : socket[s] = "inWorld"}

Join(s) ==
    /\ socket[s] = "new"
    /\ socket' = [socket EXCEPT ![s] = "joining"]
    /\ calls' = Append(calls, Call(s, "character"))
    /\ UNCHANGED <<vars, player, current, aside, mail>>

FoundPlain == [x \in AllSlots |-> Row(db[x])]     \* variant: without instance state
Found == db

FindItems ==
    /\ Resumed("character")
    /\ Await([Call(Caller, "items") EXCEPT !.rows = Found])
    /\ UNCHANGED <<vars, socket, player, current, aside, mail>>

LoadInventory ==
    /\ Resumed("items")
    /\ Await([Head(calls) EXCEPT !.step = "rest"])
    /\ UNCHANGED <<vars, socket, player, current, aside, mail>>

\* The player is registered whatever has become of the connection, in the place of
\* an earlier one of the character; the mailbox is sent, and MODE_MAILBOX with it.
EnteredSilently(s) == << >>     \* variant: no mailbox on JOIN
Entered(s) == <<Call(s, "list")>>

Enter ==
    /\ Resumed("rest")
    /\ LoadFrom(Head(calls).rows)
    /\ player' = Caller /\ current' = Caller
    /\ aside' = [s \in Sockets |->
          IF s = current /\ HasClaim(s) THEN [bag |-> bag, index |-> index] ELSE aside[s]]
    /\ socket' = [socket EXCEPT ![Caller] = IF @ = "joining" THEN "inWorld" ELSE @]
    /\ calls' = Tail(calls) \o Entered(Caller)
    /\ box' = FALSE
    /\ UNCHANGED <<db, durBag, letters, news>>

------------------------------------------------------------------------------
(* The 'close' of a connection, and the flush that leave waits for.        *)

\* The hook goes by character id: it saves, and removes, whoever is registered.
CloseInWorld(s) ==
    /\ socket[s] = "inWorld"
    /\ socket' = [socket EXCEPT ![s] = "closed"]
    /\ calls' = IF player = None THEN calls ELSE Append(calls, Call(s, "save"))
    /\ UNCHANGED <<vars, player, current, aside, mail>>

\* Before JOIN has resolved the hook finds no charId, and the JOIN goes on.
CloseJoining(s) ==
    /\ socket[s] = "joining"
    /\ socket' = [socket EXCEPT ![s] = "dropped"]
    /\ UNCHANGED <<vars, player, current, aside, calls, mail>>

Save ==
    /\ Resumed("save")
    /\ Await(Call(Caller, "leave"))
    /\ UNCHANGED <<vars, socket, player, current, aside, mail>>

RemovedIfSaved == IF Resumed("save") THEN player ELSE None     \* variant: leave in the try
Removed == None

\* A write of the flush is refused: leave comes all the same.
SaveFailed ==
    /\ Resumed("save")
    /\ player' = Removed
    /\ Done
    /\ UNCHANGED <<vars, socket, current, aside, mail>>

Leave ==
    /\ Resumed("leave")
    /\ player' = Removed
    /\ Done
    /\ UNCHANGED <<vars, socket, current, aside, mail>>

\* The process is killed and recovers its journal; the bag is the recovered one.
Kill ==
    /\ Restart
    /\ socket' = [s \in Sockets |-> IF socket[s] = "new" THEN "new" ELSE "closed"]
    /\ player' = None /\ current' = None /\ aside' = [s \in Sockets |-> None]
    /\ calls' = << >>
    /\ box' = FALSE
    /\ UNCHANGED <<letters, news>>

------------------------------------------------------------------------------
(* The mailbox.                                                            *)

MayAsk == Connected # {} /\ player # None /\ Len(calls) < MaxCalls

Ask(kind, m) ==
    /\ MayAsk
    /\ calls' = Append(calls, [Call(player, kind) EXCEPT !.mail = m, !.row = letters[m]])
    /\ UNCHANGED <<vars, socket, player, current, aside, mail>>

QueryMailBox ==
    /\ MayAsk
    /\ calls' = Append(calls, Call(player, "list"))
    /\ UNCHANGED <<vars, socket, player, current, aside, mail>>

\* listForPlayer, or the mark of a claim, is through: MODE_MAILBOX is worked out anew.
SyncMode ==
    /\ Resumed("list") \/ Resumed("marked")
    /\ Await(CountPending(Caller))
    /\ UNCHANGED <<vars, socket, player, current, aside, mail>>

Synced ==
    /\ Resumed("count")
    /\ box' = IF player = Caller THEN Head(calls).pending ELSE box
    /\ Done
    /\ UNCHANGED <<vars, socket, player, current, aside, letters, news>>

Row1 == Head(calls).row
Claim(kind) == Resumed(kind) /\ Row1 # None

\* The row may be gone by now.
Marked(field) ==
    LET m == Head(calls).mail
    IN  IF letters[m] = None THEN letters ELSE [letters EXCEPT ![m][field] = TRUE]

MarkRead ==
    /\ Claim("read")
    /\ IF Row1.read THEN Await(CountPending(Caller)) /\ UNCHANGED letters
       ELSE Await(Call(Caller, "marked")) /\ letters' = Marked("read")
    /\ UNCHANGED <<vars, socket, player, current, aside, news, box>>

\* addItem to the bag of a CPlayer that another one has replaced.
AddAside(s, k, n) ==
    LET old == aside[s]
        b == Added(old.bag, old.index, k, n)
        S == {x \in AllSlots : b[x] # old.bag[x]}
    IN  /\ Room(old.bag, k) # {}
        /\ aside' = [aside EXCEPT ![s].bag = b]
        /\ durBag' = Journaled(b, S) /\ db' = Saved(b, S)
        /\ UNCHANGED <<bag, index>>

TakeItem ==
    /\ Claim("item")
    /\ Row1.item # Empty /\ ~Row1.takenItem
    /\ \/ Caller = current /\ AddItem(Row1.item, Row1.count) /\ UNCHANGED aside
       \/ Caller # current /\ AddAside(Caller, Row1.item, Row1.count)
    /\ Await(Call(Caller, "marked"))
    /\ letters' = Marked("takenItem")
    /\ UNCHANGED <<socket, player, current, news, box>>

TakeGold ==
    /\ Claim("gold")
    /\ Row1.gold /\ ~Row1.takenGold
    /\ Await(Call(Caller, "marked"))
    /\ letters' = Marked("takenGold")
    /\ UNCHANGED <<vars, socket, player, current, aside, news, box>>

RemoveLetter ==
    /\ Claim("delete")
    /\ Await(Call(Caller, "marked"))
    /\ letters' = [letters EXCEPT ![Head(calls).mail] = None]
    /\ UNCHANGED <<vars, socket, player, current, aside, news, box>>

BagOf(s) == IF s = current THEN bag ELSE aside[s].bag

\* No such letter, nothing attached, taken already, or no room in the bag.
Refused ==
    \/ \E kind \in Claims : Resumed(kind) /\ Row1 = None
    \/ Claim("item") /\ (Row1.item # Empty => Row1.takenItem \/ Room(BagOf(Caller), Row1.item) = {})
    \/ Claim("gold") /\ (~Row1.gold \/ Row1.takenGold)

Reject ==
    /\ Refused
    /\ Done
    /\ UNCHANGED <<vars, socket, player, current, aside, mail>>

\* The admin console inserts a row, then publishes mail_pushed, which may get lost.
Post(m, item, n, gold) ==
    /\ news[m] = "unwritten"
    /\ letters' = [letters EXCEPT ![m] =
          [item |-> item, count |-> n, gold |-> gold,
           read |-> FALSE, takenItem |-> FALSE, takenGold |-> FALSE]]
    /\ news' = [news EXCEPT ![m] = "untold"]
    /\ UNCHANGED <<vars, live, box>>

MailPushed(m) ==
    /\ news[m] = "untold"
    /\ news' = [news EXCEPT ![m] = "told"]
    /\ calls' = IF player = None THEN calls ELSE Append(calls, Call(player, "list"))
    /\ UNCHANGED <<vars, socket, player, current, aside, letters, box>>

------------------------------------------------------------------------------
SessionInit ==
    /\ Init
    /\ socket = [s \in Sockets |-> "new"]
    /\ player = None /\ current = None /\ aside = [s \in Sockets |-> None]
    /\ calls = << >>
    /\ letters = [m \in Letters |-> None]
    /\ news = [m \in Letters |-> "unwritten"]
    /\ box = FALSE

BagStep == Connected # {} /\ player # None /\ Operation /\ UNCHANGED <<live, mail>>

SessionStep ==
    \/ \E s \in Sockets : Join(s) \/ CloseInWorld(s) \/ CloseJoining(s)
    \/ FindItems \/ LoadInventory \/ Enter
    \/ Save \/ SaveFailed \/ Leave
    \/ Kill

Request == QueryMailBox \/ \E m \in Letters, kind \in Claims : Ask(kind, m)

MailStep ==
    \/ Request \/ SyncMode \/ Synced
    \/ MarkRead \/ TakeItem \/ TakeGold \/ RemoveLetter \/ Reject
    \/ \E m \in Letters, x \in Mailed : Post(m, x[1], x[2], x[3])
    \/ \E m \in Letters : MailPushed(m)

SessionNext == BagStep \/ SessionStep \/ MailStep

SessionSpec == SessionInit /\ [][SessionNext]_allVars

------------------------------------------------------------------------------
(* Properties.                                                             *)

\* Once its connection has closed no CPlayer stays registered but while it is being
\* saved, whether the save goes through or not (PlayerManager; disconnectByCharId).
\* Of the CPlayer of a connection that closed before its JOIN had resolved nothing
\* is claimed: no close is left to remove it.
SessionInv ==
    /\ SessionTypeOK
    /\ player # None /\ socket[player] = "closed" =>
          \E i \in DOMAIN calls : calls[i].step \in {"save", "leave"}

\* With no query under way and every letter announced, MODE_MAILBOX shows whether
\* a letter is unread or has something to be taken, whatever claims, deletions and
\* arrivals overlapped (syncMailboxMode).
MailboxShown ==
    player # None /\ calls = << >> /\ (\A m \in Letters : news[m] # "untold")
        => box = Pending
==============================================================================
