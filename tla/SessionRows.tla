----------------------------- MODULE SessionRows -----------------------------
(***************************************************************************)
(* Session with a record of the JOINs that overlapped with a connection of *)
(* the same character in the world.  A JOIN reads the inventory rows, then *)
(* awaits several queries more; what a connected client does meanwhile its *)
(* CPlayer never learns.                                                   *)
(***************************************************************************)
EXTENDS Session

VARIABLES crowded   \* the JOINs under way that have met a connected client

rowVars == <<allVars, crowded>>

Joining(q) ==
    {s \in Sockets : \E i \in DOMAIN q :
        q[i].of = s /\ q[i].step \in {"character", "items", "rest"}}

RowInit == SessionInit /\ crowded = {}

Crowd == crowded' = {s \in Joining(calls') : s \in crowded \/ Connected' # {}}

RowSpec == RowInit /\ [][SessionNext /\ Crowd]_rowVars

------------------------------------------------------------------------------
\* A JOIN during which no client of the character is in the world loads what the
\* sessions before it left, whatever claims, saves, leaves, kills and JOINs that were
\* dropped it overlaps with; and until a JOIN does meet one, the bag, the rows and the
\* journal only take the steps of Bag.  Nothing is claimed of what a crowded JOIN
\* loads, nor of a claim that goes on with a CPlayer another one has replaced.
BagSpec ==
    /\ Init
    /\ [][(Enter => Caller \notin crowded) /\ (TakeItem => Caller = current)
             => vars' = vars \/ Next]_vars
==============================================================================
