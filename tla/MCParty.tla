------------------------------- MODULE MCParty -------------------------------
(***************************************************************************)
(* Party on a small instance, of two casts: three characters who come and  *)
(* go, as many as a party may hold; or four who stay, one more than that,  *)
(* and have one party id left, of parties disbanded before.                *)
(***************************************************************************)
EXTENDS PartyTables, FiniteSets

CONSTANTS ann, bob, cat, dan, MaxEvents, MaxOpen

VARIABLE events     \* bounds the sockets that open and close, or a deletion in their place
mcvars == <<tableVars, events>>

MCInit ==
    /\ \/ connected = Players \ {dan} /\ events = 0 /\ nextId = 1
       \/ connected = Players /\ events = MaxEvents /\ nextId = MaxId
    /\ online = connected
    /\ closing = {} /\ joining = {} /\ exists = Players
    /\ idParty = [p \in Players |-> None]
    /\ parties = [id \in Ids |-> << >>]
    /\ rows = {} /\ db = parties /\ writes = << >>
    /\ pending = [p \in Players |-> None]
    /\ timers = [p \in Players |-> 0]
    /\ doubled = FALSE

\* The invites open at once are bounded.
Open == {m \in Players : pending[m] # None}

MCNext ==
    /\ \/ (PartyStep \/ PendingStep) /\ UNCHANGED events
       \/ /\ events < MaxEvents /\ events' = events + 1
          /\ SocketStep /\ dan \notin connected' \ connected
       \/ /\ events = 0 /\ events' = MaxEvents
          /\ \E p \in Players : DeleteCharacter(p)
       \/ Restart /\ UNCHANGED events
    /\ Cardinality(Open') <= MaxOpen
    /\ Noted

MCSpec == MCInit /\ [][MCNext]_mcvars /\ Fairness
=============================================================================
