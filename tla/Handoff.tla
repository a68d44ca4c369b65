------------------------------- MODULE Handoff -------------------------------
(***************************************************************************)
(* The way into a world: the cluster's PRE_JOIN publishes `player:handoff' *)
(* on LocalBus, every world's ClusterListener keeps it, and the JOIN of    *)
(* the client redeems it, once.                                            *)
(*                                                                         *)
(* LocalBus is one broker, the process that bound the port, and a client   *)
(* socket in every process, the broker's included.  A socket is two FIFO   *)
(* streams; it dies with either end, and what was in flight then is lost   *)
(* or still read.  Nobody binds the port again but a process that starts.  *)
(*                                                                         *)
(* The 30 s freshness of an envelope and the 90 s TTL of a handoff are     *)
(* choices: a frame may be found stale, an entry may run out.              *)
(***************************************************************************)
EXTENDS Naturals, Sequences, SequencesExt, FiniteSets

CONSTANTS
    Cluster,        \* the cluster server
    Worlds,         \* the world servers
    Chars,          \* characters
    None,           \* no broker; no handoff
    MaxHandoffs     \* bound on the PRE_JOINs of a behaviour

ASSUME HandoffAssumption ==
    Cluster \notin Worlds /\ MaxHandoffs \in Nat /\ None \notin Worlds \cup {Cluster} \cup Nat

Procs == Worlds \cup {Cluster}
Handoffs == 1 .. MaxHandoffs

\* A frame is the subscription to the channel, or the envelope of a handoff.
Sub == 0
Frames == {Sub} \cup Handoffs

VARIABLES
    up,         \* processes that run
    broker,     \* the one whose `server' listens, None when there is none
    link,       \* clientReady, of each
    localSubs,  \* worlds whose ClusterListener has started
    remoteSubs, \* the broker's remoteSubs: connections subscribed, by their process
    upstream,   \* frames from each process to the broker
    downstream, \* frames from the broker to each process
    issued,     \* the character of every handoff published or dropped, in order
    pending,    \* ClusterListener.pending: character -> handoff
    received,   \* times the listener of each world was handed each handoff
    redeemed    \* times each world let a JOIN in on each handoff

streams == <<upstream, downstream>>
sockets == <<broker, link, remoteSubs, streams>>
counts == <<received, redeemed>>
vars == <<up, sockets, localSubs, issued, pending, counts>>

BusTypeOK ==
    /\ up \subseteq Procs /\ broker \in up \cup {None}
    /\ link \subseteq up /\ localSubs \subseteq up \cap Worlds
    /\ remoteSubs \subseteq link \cap localSubs
    /\ broker = None => link = {}
    /\ upstream \in [Procs -> Seq(Frames)] /\ downstream \in [Procs -> Seq(Handoffs)]
    /\ \A p \in Procs \ link : Sub \notin ToSet(upstream[p])
    /\ issued \in Seq(Chars) /\ Len(issued) <= MaxHandoffs
    /\ \A w \in Worlds, c \in Chars : pending[w][c] # None => issued[pending[w][c]] = c
    /\ received \in [Worlds -> [Handoffs -> Nat]] /\ redeemed \in [Worlds -> [Handoffs -> Nat]]

Nothing == [c \in Chars |-> None]

Init ==
    /\ up = {} /\ broker = None /\ link = {} /\ localSubs = {} /\ remoteSubs = {}
    /\ upstream = [p \in Procs |-> << >>] /\ downstream = [p \in Procs |-> << >>]
    /\ issued = << >>
    /\ pending = [w \in Worlds |-> Nothing]
    /\ received = [w \in Worlds |-> [n \in Handoffs |-> 0]]
    /\ redeemed = [w \in Worlds |-> [n \in Handoffs |-> 0]]

------------------------------------------------------------------------------
(* Processes and sockets. *)

\* LocalBus.start: whoever finds the port free is the broker.
Start(p) ==
    /\ p \notin up
    /\ up' = up \cup {p}
    /\ broker' = IF broker = None THEN p ELSE broker
    /\ UNCHANGED <<link, remoteSubs, streams, localSubs, issued, pending, counts>>

\* The client socket connects, now or after the loss of another, and subscribes again.
GreetingNone(p) == << >>   \* variant: only `subscribe' sends
Greeting(p) == IF p \in localSubs THEN <<Sub>> ELSE << >>

Connect(p) ==
    /\ p \in up \ link /\ broker # None
    /\ link' = link \cup {p}
    /\ upstream' = [upstream EXCEPT ![p] = @ \o Greeting(p)]
    /\ UNCHANGED <<up, broker, remoteSubs, downstream, localSubs, issued, pending, counts>>

\* ClusterListener.start, once the bus is there, its socket connected or not.
Subscribe(w) ==
    /\ w \in (up \cap Worlds) \ localSubs
    /\ localSubs' = localSubs \cup {w}
    /\ upstream' = IF w \in link THEN [upstream EXCEPT ![w] = Append(@, Sub)] ELSE upstream
    /\ UNCHANGED <<up, broker, link, remoteSubs, downstream, issued, pending, counts>>

\* Subscriptions are of the connection, and go with it.
Closed(S, p) == S \ {p}

\* What a process had sent before it died and the broker may still read: nothing
\* that outlives the connection but publications, and only the cluster's are here.
Published(p) == IF p = Cluster THEN upstream[p] ELSE << >>

\* A process is killed.  With the broker every connection closes; what it had
\* written may still be read, what it had not read is gone.
Kill(p) ==
    /\ p \in up
    /\ up' = up \ {p} /\ localSubs' = localSubs \ {p}
    /\ pending' = IF p \in Worlds THEN [pending EXCEPT ![p] = Nothing] ELSE pending
    /\ IF p = broker
       THEN /\ broker' = None /\ link' = {} /\ remoteSubs' = {}
            /\ upstream' = [q \in Procs |-> << >>]
            /\ \E lost \in SUBSET Procs : downstream' =
                  [q \in Procs |-> IF q \in lost \cup {p} THEN << >> ELSE downstream[q]]
       ELSE /\ broker' = broker /\ link' = link \ {p} /\ remoteSubs' = Closed(remoteSubs, p)
            /\ \E read \in {<< >>, Published(p)} : upstream' = [upstream EXCEPT ![p] = read]
            /\ downstream' = [downstream EXCEPT ![p] = << >>]
    /\ UNCHANGED <<issued, counts>>

------------------------------------------------------------------------------
(* Handoffs. *)

\* CharSelectService.prejoin, the character being the account's: without a
\* connected socket the publication is dropped, and the client told to go on.
Prejoin(c) ==
    /\ Cluster \in up /\ Len(issued) < MaxHandoffs
    /\ issued' = Append(issued, c)
    /\ upstream' = IF Cluster \in link
                   THEN [upstream EXCEPT ![Cluster] = Append(@, Len(issued'))] ELSE upstream
    /\ UNCHANGED <<up, broker, link, remoteSubs, downstream, localSubs, pending, counts>>

\* onHandoff: the newest to arrive replaces the entry of its character.
Received(w, n) ==
    /\ pending' = [pending EXCEPT ![w][issued[n]] = n]
    /\ received' = [received EXCEPT ![w][n] = @ + 1]

\* Those the broker writes a publication of p to.
Subscribers(p) == remoteSubs \ {p}

\* variant of Written: a reconnect left a second connection of each process open
WrittenTwice(p, n) == [q \in Procs |-> IF q \in Subscribers(p) THEN downstream[q] \o <<n, n>>
                                       ELSE downstream[q]]
Written(p, n) == [q \in Procs |-> IF q \in Subscribers(p) THEN Append(downstream[q], n)
                                  ELSE downstream[q]]

\* The broker reads the next frame of a connection: it notes a subscription, or
\* writes a publication to every other subscribed one and to its own listener.
Route(p) ==
    /\ broker # None /\ upstream[p] # << >>
    /\ upstream' = [upstream EXCEPT ![p] = Tail(@)]
    /\ LET n == Head(upstream[p]) IN
       IF n = Sub
       THEN remoteSubs' = remoteSubs \cup {p} /\ UNCHANGED <<downstream, pending, received>>
       ELSE /\ downstream' = Written(p, n)
            /\ \/ broker \in localSubs /\ Received(broker, n)
               \/ UNCHANGED <<pending, received>>      \* not subscribed, or stale
            /\ UNCHANGED remoteSubs
    /\ UNCHANGED <<up, broker, link, localSubs, issued, redeemed>>

\* The head of a process's stream reaches its IpcBus, and the listener unless it is stale.
Deliver(q) ==
    /\ q \in up /\ downstream[q] # << >>
    /\ downstream' = [downstream EXCEPT ![q] = Tail(@)]
    /\ \/ q \in localSubs /\ Received(q, Head(downstream[q]))
       \/ UNCHANGED <<pending, received>>
    /\ UNCHANGED <<up, broker, link, remoteSubs, upstream, localSubs, issued, redeemed>>

\* What is left in the map by the JOIN of c: the entry is deleted on read.
ConsumedLater(w, c) == pending   \* variant: left for sweepExpired
Consumed(w, c) == [pending EXCEPT ![w][c] = None]

\* JoinService.join redeems the handoff before it awaits the row; without one the
\* client is refused and nothing changes.
Join(w, c) ==
    /\ w \in up /\ pending[w][c] # None
    /\ redeemed' = [redeemed EXCEPT ![w][pending[w][c]] = @ + 1]
    /\ pending' = Consumed(w, c)
    /\ UNCHANGED <<up, sockets, localSubs, issued, received>>

\* The TTL runs out: whatever reads the map next sweeps the entry first.
Expire(w, c) ==
    /\ w \in up /\ pending[w][c] # None
    /\ pending' = [pending EXCEPT ![w][c] = None]
    /\ UNCHANGED <<up, sockets, localSubs, issued, counts>>

BusStep ==
    \/ \E p \in Procs : Connect(p) \/ Route(p) \/ Deliver(p)
    \/ \E w \in Worlds : Subscribe(w)

Next ==
    \/ BusStep
    \/ \E p \in Procs : Start(p) \/ Kill(p)
    \/ \E c \in Chars : Prejoin(c) \/ \E w \in Worlds : Join(w, c) \/ Expire(w, c)

\* A client connects again 500 ms after it lost its socket, for as long as it runs;
\* sockets are read; a world subscribes when its bus is made.
Fairness ==
    /\ \A p \in Procs : WF_vars(Connect(p)) /\ WF_vars(Route(p)) /\ WF_vars(Deliver(p))
    /\ \A w \in Worlds : WF_vars(Subscribe(w))

Spec == Init /\ [][Next]_vars /\ Fairness

------------------------------------------------------------------------------
(* Properties. *)

\* A world that is not the broker is handed each handoff once, and never one older
\* than it was handed already, so an entry is only replaced by a newer one (onHandoff,
\* broker fan-out).  Nothing is claimed of the broker's own listener: it hears a
\* publication where it is routed and again through its client socket.
OnceAndInOrder ==
    [][\A w \in Worlds \ {broker}, n \in Handoffs :
          received'[w][n] > received[w][n] =>
            \A m \in n .. MaxHandoffs : received[w][m] = 0]_vars

\* The handoff a world holds for a character has let nobody into that world yet: it
\* is single-use (consumeByCharId).  The broker's second copy is no exception to the
\* code's promise but breaks it, so nothing is claimed of the broker.
SingleUse ==
    \A w \in Worlds \ {broker}, c \in Chars :
        pending[w][c] # None => redeemed[w][pending[w][c]] = 0

\* Streams, subscriptions and entries belong to processes that run, connected where
\* they must be, and no entry of a world but the broker lets two JOINs in.
BusInv == BusTypeOK /\ SingleUse

\* When every process stays up, every one is connected in the end and every world
\* subscribed, whoever is the broker and whoever died before (openClient's
\* reconnect and its re-subscription).
BusHeals ==
    <>[](up = Procs) => <>[](link = Procs /\ remoteSubs = Worlds)
==============================================================================
