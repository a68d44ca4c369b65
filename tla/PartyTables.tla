----------------------------- MODULE PartyTables -----------------------------
(***************************************************************************)
(* Party with a record of whether its stored rosters can still follow the  *)
(* live ones.                                                              *)
(***************************************************************************)
EXTENDS Party

VARIABLE doubled    \* whether a character has been in two parties, or been deleted
tableVars == <<vars, doubled>>

Doubled == exists # Players \/ ~ OneParty
Noted == doubled' = (doubled \/ Doubled')

TablesSpec == Init /\ doubled = FALSE /\ [][Next /\ Noted]_tableVars

\* Until some character is in two parties, or is deleted, the stored rosters are the
\* live ones as soon as the writes under way are through: none of them is refused.  A
\* kill before that loses them, and the restart comes back to what is stored.
StoredAsLive == ~ doubled /\ writes = << >> => db = parties
==============================================================================
