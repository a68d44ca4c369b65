----------------------------- MODULE MCRegistry -----------------------------
(***************************************************************************)
(* Instances of Registry for TLC: two processes configured with one id,    *)
(* three names for the connections of each; or one process alone.          *)
(***************************************************************************)
EXTENDS Registry
CONSTANTS p, q, w
MCIdOf == [x \in Procs |-> w]
MCDialer == [c \in Conns |-> IF c <= 3 THEN p ELSE q]
=============================================================================
