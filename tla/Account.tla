------------------------------- MODULE Account -------------------------------
(***************************************************************************)
(* What an account is promised about its gold, as its owner would put it:  *)
(* it lies in the purses of the account's characters and in the tabs of    *)
(* the account's bank, and it only moves between the two.  There are two   *)
(* exceptions: a process killed between a move's two journal rows, of      *)
(* which only the first, the purse's, is recovered; and a move by a        *)
(* session that read the purse or the tab before another session of the    *)
(* account changed it.  An account whose sessions never overlap is spared  *)
(* the second.  Logging in and out, checkpoints and other crashes change   *)
(* no gold.                                                                *)
(***************************************************************************)
EXTENDS Integers

CONSTANTS
    Chars,      \* the characters of the account
    Tabs,       \* the tabs of its bank
    MaxGold,    \* MAX_GOLD: no deposit takes a tab above it
    Amounts     \* the sums of gold moved at a time

VARIABLES
    purse,      \* the gold each character would log in with
    vault,      \* the gold each tab would be loaded with
    open,       \* the account's sessions
    oldPurses,  \* the purses of which a session has an overtaken copy
    oldTabs     \* the tabs of which a session, or the database, has one

vars == <<purse, vault, open, oldPurses, oldTabs>>

Init ==
    /\ purse \in [Chars -> Nat] /\ vault \in [Tabs -> Nat]
    /\ open = {} /\ oldPurses = {} /\ oldTabs = {}

\* A move overtakes the copies of the other sessions, if there are any.
Overtaken(c, t) ==
    /\ open' = open
    /\ oldPurses' \subseteq oldPurses \cup {x \in {c} : \E o, p \in open : o # p}
    /\ oldTabs' \subseteq oldTabs \cup {x \in {t} : \E o, p \in open : o # p}

AllClosed == open' = {} /\ oldPurses' = {} /\ oldTabs' = {}

PayIn(c, t, n) ==
    /\ n <= purse[c] /\ vault[t] + n <= MaxGold
    /\ purse' = [purse EXCEPT ![c] = @ - n]
    /\ \/ vault' = [vault EXCEPT ![t] = @ + n] /\ Overtaken(c, t)
       \/ UNCHANGED vault /\ AllClosed                  \* killed halfway: lost

PayOut(c, t, n) ==
    /\ n <= vault[t]
    /\ purse' = [purse EXCEPT ![c] = @ + n]
    /\ \/ vault' = [vault EXCEPT ![t] = @ - n] /\ Overtaken(c, t)
       \/ UNCHANGED vault /\ AllClosed                  \* killed halfway: doubled

\* A move on an overtaken copy, which puts anything in the purse and the tab.
Astray(c, t) ==
    /\ c \in oldPurses \/ t \in oldTabs
    /\ \A d \in Chars \ {c} : purse'[d] = purse[d]
    /\ \A u \in Tabs \ {t} : vault'[u] = vault[u]
    /\ Overtaken(c, t) \/ AllClosed

\* Sessions begin and end.
Come == purse' = purse /\ vault' = vault /\ oldPurses' \subseteq oldPurses /\ oldTabs' \subseteq oldTabs

Next ==
    \/ \E c \in Chars, t \in Tabs :
          \/ \E n \in Amounts : PayIn(c, t, n) \/ PayOut(c, t, n)
          \/ Astray(c, t)
    \/ Come

Spec == Init /\ [][Next]_vars
==============================================================================
