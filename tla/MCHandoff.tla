------------------------------ MODULE MCHandoff ------------------------------
(* Handoff on a small instance: a cluster, two worlds and a character. *)
EXTENDS Handoff

CONSTANTS MaxKills

\* Bounds the processes killed.
VARIABLE kills

mcvars == <<vars, kills>>

MCInit == Init /\ kills = 0

Steady ==
    \/ BusStep
    \/ \E p \in Procs : Start(p)
    \/ \E c \in Chars : Prejoin(c) \/ \E w \in Worlds : Join(w, c) \/ Expire(w, c)

MCNext ==
    \/ Steady /\ UNCHANGED kills
    \/ kills < MaxKills /\ kills' = kills + 1 /\ \E p \in Procs : Kill(p)

MCSpec == MCInit /\ [][MCNext]_mcvars /\ Fairness
==============================================================================
