---------------------------- MODULE HandoffProofs ----------------------------
(* Theorems of Handoff, for any number of worlds, characters and handoffs: *)
(* a world that is not the broker redeems no handoff twice, and is handed  *)
(* each one once and in order.                                             *)
EXTENDS Handoff, SequenceTheorems, TLAPS

------------------------------------------------------------------------------
(* The inductive invariant.                                                *)

\* The values of the variables, whatever holds between them.
Typed ==
    /\ up \subseteq Procs /\ broker \in up \cup {None}
    /\ link \subseteq up /\ localSubs \subseteq up \cap Worlds
    /\ remoteSubs \subseteq link \cap localSubs
    /\ broker = None => link = {}
    /\ upstream \in [Procs -> Seq(Frames)] /\ downstream \in [Procs -> Seq(Handoffs)]
    /\ issued \in Seq(Chars) /\ Len(issued) <= MaxHandoffs
    /\ pending \in [Worlds -> [Chars -> Handoffs \cup {None}]]
    /\ received \in [Worlds -> [Handoffs -> Nat]] /\ redeemed \in [Worlds -> [Handoffs -> Nat]]

\* A subscription in flight is of a connected world; publications are of the
\* cluster; nobody has frames to read who does not run.
InFlight ==
    /\ \A p \in Procs : \A i \in DOMAIN upstream[p] :
          IF upstream[p][i] = Sub THEN p \in link \cap localSubs ELSE p = Cluster
    /\ \A p \in Procs : downstream[p] # << >> => p \in up

Increasing(s) == \A i, j \in DOMAIN s : i < j => s[i] < s[j]
Above(n, s) == \A i \in DOMAIN s : n < s[i]
AtMost(n, s) == \A i \in DOMAIN s : s[i] <= n

\* Handoffs are numbered as they are issued and travel in that order: what was
\* received is older than what a process has still to read, and that is older than
\* what the broker has still to read.
Ordered ==
    /\ Increasing(upstream[Cluster]) /\ AtMost(Len(issued), upstream[Cluster])
    /\ \A p \in Procs :
          /\ Increasing(downstream[p]) /\ AtMost(Len(issued), downstream[p])
          /\ \A i \in DOMAIN downstream[p] : Above(downstream[p][i], upstream[Cluster])
    /\ \A w \in Worlds, n \in Handoffs : received[w][n] > 0 =>
          /\ n <= Len(issued) /\ Above(n, upstream[Cluster])
          /\ w # broker => Above(n, downstream[w])

\* The broker's own listener has heard once what its client socket has still to read.
HeardOnce ==
    \A w \in Worlds : \A i \in DOMAIN downstream[w] : received[w][downstream[w][i]] <= 1

\* A world has let in no more JOINs on a handoff than times it was handed it.
RedeemedAsReceived ==
    \A w \in Worlds, n \in Handoffs : redeemed[w][n] <= received[w][n]

\* An entry is a handoff of its character, received more often than redeemed, and
\* received once where the world is not the broker.
Entries ==
    \A w \in Worlds, c \in Chars : pending[w][c] # None =>
        LET n == pending[w][c]
        IN  /\ n <= Len(issued) /\ issued[n] = c /\ redeemed[w][n] < received[w][n]
            /\ w # broker => received[w][n] = 1

IInv == Typed /\ InFlight /\ Ordered /\ HeardOnce /\ Entries /\ RedeemedAsReceived

------------------------------------------------------------------------------
(* Sequences.                                                              *)

LEMMA TailOf ==
    ASSUME NEW S, NEW s \in Seq(S), s # << >>
    PROVE  /\ Tail(s) \in Seq(S)
           /\ 1 \in DOMAIN s /\ Head(s) = s[1] /\ s[1] \in S
           /\ \A i \in DOMAIN Tail(s) : i \in Nat \ {0} /\ i + 1 \in DOMAIN s /\ Tail(s)[i] = s[i + 1]
OBVIOUS

LEMMA AppendOf ==
    ASSUME NEW S, NEW s \in Seq(S), NEW e \in S
    PROVE  /\ Append(s, e) \in Seq(S)
           /\ Len(s) \in Nat /\ DOMAIN s = 1 .. Len(s)
           /\ DOMAIN Append(s, e) = 1 .. (Len(s) + 1)
           /\ \A i \in DOMAIN s : Append(s, e)[i] = s[i]
           /\ Append(s, e)[Len(s) + 1] = e
OBVIOUS

\* The head of an increasing sequence is below the rest of it.
LEMMA TailIncreases ==
    ASSUME NEW s \in Seq(Nat), s # << >>, Increasing(s)
    PROVE  Increasing(Tail(s)) /\ Above(Head(s), Tail(s))
<1>1. ASSUME NEW i \in DOMAIN Tail(s), NEW j \in DOMAIN Tail(s), i < j
      PROVE  Tail(s)[i] < Tail(s)[j]
  BY <1>1, TailOf DEF Increasing
<1>2. ASSUME NEW i \in DOMAIN Tail(s) PROVE Head(s) < Tail(s)[i]
  BY <1>2, TailOf DEF Increasing
<1>3. QED
  BY <1>1, <1>2 DEF Increasing, Above

\* A sequence stays increasing when something above all of it is appended.
LEMMA AppendIncreases ==
    ASSUME NEW s \in Seq(Nat), NEW e \in Nat, Increasing(s),
           \A i \in DOMAIN s : s[i] < e
    PROVE  Increasing(Append(s, e))
<1>1. ASSUME NEW i \in DOMAIN Append(s, e), NEW j \in DOMAIN Append(s, e), i < j
      PROVE  Append(s, e)[i] < Append(s, e)[j]
  <2>1. i \in DOMAIN s /\ j \in 1 .. (Len(s) + 1)
    BY <1>1, AppendOf
  <2>2. CASE j = Len(s) + 1
    BY <2>1, <2>2, AppendOf
  <2>3. CASE j \in DOMAIN s
    BY <1>1, <2>1, <2>3, AppendOf DEF Increasing
  <2>4. QED
    BY <2>1, <2>2, <2>3, AppendOf
<1>2. QED
  BY <1>1 DEF Increasing

------------------------------------------------------------------------------
(* The initial state and the actions that move no publication.             *)

LEMMA InitIInv == Init => IInv
<1> SUFFICES ASSUME Init PROVE IInv
  OBVIOUS
<1>1. \A p \in Procs : upstream[p] = << >> /\ downstream[p] = << >>
  BY DEF Init
<1>2. Cluster \in Procs /\ Worlds \subseteq Procs
  BY DEF Procs
<1>3. \A w \in Worlds, n \in Handoffs : received[w][n] = 0 /\ redeemed[w][n] = 0
  BY DEF Init
<1>4. Typed
  BY HandoffAssumption DEF Init, Typed, Nothing, Procs
<1>5. InFlight /\ HeardOnce
  BY <1>1, <1>2 DEF InFlight, HeardOnce
<1>6. Ordered
  BY <1>1, <1>2, <1>3 DEF Ordered, Increasing, AtMost, Above
<1>7. Entries
  BY DEF Init, Entries, Nothing
<1>8. RedeemedAsReceived
  BY <1>3 DEF RedeemedAsReceived
<1>9. QED
  BY <1>4, <1>5, <1>6, <1>7, <1>8 DEF IInv

LEMMA StartKeeps == ASSUME NEW p \in Procs, IInv, Start(p) PROVE IInv'
<1>1. /\ UNCHANGED <<link, remoteSubs, upstream, downstream, localSubs, issued, pending,
                      received, redeemed>>
      /\ up \subseteq up'
      /\ broker' = broker \/ broker = None
  BY DEF Start, streams, counts
<1>2. Typed'
  BY <1>1 DEF IInv, Typed, Start
<1>3. InFlight'
  BY <1>1 DEF IInv, InFlight
<1>4. Ordered'
  BY <1>1, HandoffAssumption DEF IInv, Ordered, Increasing, AtMost, Above
<1>5. HeardOnce' /\ Entries' /\ RedeemedAsReceived'
  BY <1>1, HandoffAssumption DEF IInv, HeardOnce, Entries, RedeemedAsReceived
<1>6. QED
  BY <1>2, <1>3, <1>4, <1>5 DEF IInv

\* Only the queue of p to the broker changes, by a subscription: p is a world.
LEMMA SubSentKeeps ==
    ASSUME NEW p \in Worlds, IInv,
           upstream' = [upstream EXCEPT ![p] = Append(@, Sub)] \/ upstream' = upstream,
           upstream' # upstream => p \in link' \cap localSubs',
           link \subseteq link', localSubs \subseteq localSubs',
           UNCHANGED <<up, broker, downstream, issued, pending, received, redeemed>>
    PROVE  InFlight' /\ Ordered' /\ HeardOnce' /\ Entries' /\ RedeemedAsReceived'
<1>1. p \in Procs /\ p # Cluster /\ upstream \in [Procs -> Seq(Frames)]
  BY HandoffAssumption DEF IInv, Typed, Procs
<1>2. upstream'[Cluster] = upstream[Cluster]
  BY <1>1 DEF Procs
<1>3. InFlight'
  <2>1. ASSUME NEW q \in Procs, NEW i \in DOMAIN upstream'[q]
        PROVE  IF upstream'[q][i] = Sub THEN q \in link' \cap localSubs' ELSE q = Cluster
    <3>1. CASE upstream'[q] = upstream[q]
      BY <2>1, <3>1 DEF IInv, InFlight
    <3>2. CASE q = p /\ upstream'[q] = Append(upstream[q], Sub) /\ upstream' # upstream
      <4>1. upstream[q] \in Seq(Frames) /\ Sub \in Frames
        BY <1>1 DEF Frames
      <4>2. i \in DOMAIN upstream[q] \/ upstream'[q][i] = Sub
        BY <2>1, <3>2, <4>1, AppendOf
      <4>3. i \in DOMAIN upstream[q] => upstream'[q][i] = upstream[q][i]
        BY <3>2, <4>1, AppendOf
      <4>4. QED
        BY <3>2, <4>2, <4>3 DEF IInv, InFlight
    <3>3. QED
      BY <1>1, <3>1, <3>2
  <2>2. QED
    BY <2>1 DEF IInv, InFlight
<1>4. Ordered'
  BY <1>2 DEF IInv, Ordered, Increasing, AtMost, Above
<1>5. HeardOnce' /\ Entries' /\ RedeemedAsReceived'
  BY DEF IInv, HeardOnce, Entries, RedeemedAsReceived
<1>6. QED
  BY <1>3, <1>4, <1>5

LEMMA SubscribeKeeps == ASSUME NEW w \in Worlds, IInv, Subscribe(w) PROVE IInv'
<1>1. w \in Procs /\ Sub \in Frames /\ upstream \in [Procs -> Seq(Frames)]
  BY DEF IInv, Typed, Procs, Frames
<1>2. /\ UNCHANGED <<up, broker, link, remoteSubs, downstream, issued, pending, received, redeemed>>
      /\ localSubs' = localSubs \cup {w} /\ w \in up
      /\ \/ upstream' = [upstream EXCEPT ![w] = Append(@, Sub)] /\ w \in link
         \/ upstream' = upstream
  BY DEF Subscribe, counts
<1>3. upstream' \in [Procs -> Seq(Frames)]
  <2>1. Append(upstream[w], Sub) \in Seq(Frames)
    BY <1>1, AppendOf
  <2>2. QED
    BY <1>1, <1>2, <2>1
<1>4. Typed'
  BY <1>2, <1>3 DEF IInv, Typed
<1>5. InFlight' /\ Ordered' /\ HeardOnce' /\ Entries' /\ RedeemedAsReceived'
  BY <1>2, SubSentKeeps
<1>6. QED
  BY <1>4, <1>5 DEF IInv

LEMMA ConnectKeeps == ASSUME NEW p \in Procs, IInv, Connect(p) PROVE IInv'
<1>1. /\ UNCHANGED <<up, broker, remoteSubs, downstream, localSubs, issued, pending, received, redeemed>>
      /\ link' = link \cup {p} /\ p \in up /\ broker # None
      /\ upstream' = [upstream EXCEPT ![p] = @ \o Greeting(p)]
  BY DEF Connect, counts
<1>2. upstream \in [Procs -> Seq(Frames)] /\ localSubs \subseteq Worlds /\ Cluster \notin Worlds
  BY HandoffAssumption DEF IInv, Typed
<1>3. CASE p \in localSubs
  <2>1. upstream[p] \o Greeting(p) = Append(upstream[p], Sub) /\ Sub \in Frames
    BY <1>2, <1>3 DEF Greeting, Frames
  <2>2. upstream' = [upstream EXCEPT ![p] = Append(@, Sub)]
    BY <1>1, <1>2, <2>1
  <2>3. upstream' \in [Procs -> Seq(Frames)]
    BY <1>2, <2>1, <2>2, AppendOf
  <2>4. Typed'
    BY <1>1, <2>3 DEF IInv, Typed
  <2>5. p \in Worlds
    BY <1>2, <1>3
  <2>6. InFlight' /\ Ordered' /\ HeardOnce' /\ Entries' /\ RedeemedAsReceived'
    BY <1>1, <1>3, <2>2, <2>5, SubSentKeeps
  <2>7. QED
    BY <2>4, <2>6 DEF IInv
<1>4. CASE p \notin localSubs
  <2>1. upstream[p] \o Greeting(p) = upstream[p]
    BY <1>2, <1>4 DEF Greeting
  <2>2. upstream' = upstream
    BY <1>1, <1>2, <2>1
  <2>3. Typed'
    BY <1>1, <2>2 DEF IInv, Typed
  <2>4. InFlight' /\ Ordered' /\ HeardOnce' /\ Entries' /\ RedeemedAsReceived'
    BY <1>1, <2>2 DEF IInv, InFlight, Ordered, HeardOnce, Entries, RedeemedAsReceived,
                      Increasing, AtMost, Above
  <2>5. QED
    BY <2>3, <2>4 DEF IInv
<1>5. QED
  BY <1>3, <1>4

LEMMA ExpireKeeps == ASSUME NEW w \in Worlds, NEW c \in Chars, IInv, Expire(w, c) PROVE IInv'
<1>1. /\ UNCHANGED <<up, broker, link, remoteSubs, upstream, downstream, localSubs, issued,
                      received, redeemed>>
      /\ pending' = [pending EXCEPT ![w][c] = None]
  BY DEF Expire, sockets, streams, counts
<1>2. pending \in [Worlds -> [Chars -> Handoffs \cup {None}]]
  BY DEF IInv, Typed
<1>3. pending' \in [Worlds -> [Chars -> Handoffs \cup {None}]]
  BY <1>1, <1>2
<1>4. Typed'
  BY <1>1, <1>3 DEF IInv, Typed
<1>5. InFlight' /\ Ordered' /\ HeardOnce' /\ RedeemedAsReceived'
  BY <1>1 DEF IInv, InFlight, Ordered, HeardOnce, RedeemedAsReceived, Increasing, AtMost, Above
<1>6. \A v \in Worlds, d \in Chars : pending'[v][d] # None => pending'[v][d] = pending[v][d]
  BY <1>1, <1>2
<1>7. Entries'
  BY <1>1, <1>6 DEF IInv, Entries
<1>8. QED
  BY <1>4, <1>5, <1>7 DEF IInv

LEMMA JoinKeeps == ASSUME NEW w \in Worlds, NEW c \in Chars, IInv, Join(w, c) PROVE IInv'
<1> DEFINE n == pending[w][c]
<1>1. /\ UNCHANGED <<up, broker, link, remoteSubs, upstream, downstream, localSubs, issued, received>>
      /\ n # None
      /\ redeemed' = [redeemed EXCEPT ![w][n] = @ + 1]
      /\ pending' = [pending EXCEPT ![w][c] = None]
  BY DEF Join, Consumed, sockets, streams
<1>2. /\ pending \in [Worlds -> [Chars -> Handoffs \cup {None}]] /\ n \in Handoffs
      /\ received \in [Worlds -> [Handoffs -> Nat]] /\ redeemed \in [Worlds -> [Handoffs -> Nat]]
  BY <1>1 DEF IInv, Typed
<1>3. /\ pending' \in [Worlds -> [Chars -> Handoffs \cup {None}]]
      /\ redeemed' \in [Worlds -> [Handoffs -> Nat]]
  BY <1>1, <1>2
<1>4. Typed'
  BY <1>1, <1>3 DEF IInv, Typed
<1>5. InFlight' /\ Ordered' /\ HeardOnce'
  BY <1>1 DEF IInv, InFlight, Ordered, HeardOnce, Increasing, AtMost, Above
<1>6. issued[n] = c /\ redeemed[w][n] < received[w][n]
  BY <1>1 DEF IInv, Entries
<1>7. \A v \in Worlds, m \in Handoffs :
         redeemed'[v][m] = IF v = w /\ m = n THEN redeemed[w][n] + 1 ELSE redeemed[v][m]
  BY <1>1, <1>2
<1>8. RedeemedAsReceived'
  BY <1>1, <1>2, <1>6, <1>7 DEF IInv, RedeemedAsReceived
<1>9. Entries'
  <2>1. ASSUME NEW v \in Worlds, NEW d \in Chars, pending'[v][d] # None
        PROVE  /\ pending'[v][d] = pending[v][d] /\ pending[v][d] \in Handoffs
               /\ ~ (v = w /\ d = c)
    BY <1>1, <1>2, <2>1
  <2>2. ASSUME NEW v \in Worlds, NEW d \in Chars, pending'[v][d] # None
        PROVE  ~ (v = w /\ pending[v][d] = n)
    BY <1>1, <1>6, <2>1, <2>2 DEF IInv, Entries
  <2>3. QED
    BY <1>1, <1>7, <2>1, <2>2 DEF IInv, Entries
<1>10. QED
  BY <1>4, <1>5, <1>8, <1>9 DEF IInv

------------------------------------------------------------------------------
(* Kills and publications.                                                 *)

\* Every queue of a world is empty or what it was.
LEMMA KillKeeps == ASSUME NEW p \in Procs, IInv, Kill(p) PROVE IInv'
<1>1. /\ UNCHANGED <<issued, received, redeemed>>
      /\ up' = up \ {p} /\ localSubs' = localSubs \ {p}
      /\ pending' = IF p \in Worlds THEN [pending EXCEPT ![p] = Nothing] ELSE pending
  BY DEF Kill, counts
<1>2. /\ upstream \in [Procs -> Seq(Frames)] /\ downstream \in [Procs -> Seq(Handoffs)]
      /\ pending \in [Worlds -> [Chars -> Handoffs \cup {None}]]
      /\ Cluster \in Procs /\ Worlds \subseteq Procs /\ Cluster \notin Worlds /\ None \notin Procs
      /\ << >> \in Seq(Frames) /\ << >> \in Seq(Handoffs)
  BY HandoffAssumption DEF IInv, Typed, Procs
<1>3. /\ upstream' \in [Procs -> Seq(Frames)]
      /\ \A q \in Procs : upstream'[q] \in {<< >>, upstream[q]}
      /\ upstream'[p] # << >> => p = Cluster
      /\ link' # {} => broker' # None
      /\ \A q \in Procs \ {p} : upstream'[q] # << >> /\ q \in link => q \in link'
  <2>1. CASE p = broker
    BY <1>2, <2>1 DEF Kill
  <2>2. CASE p # broker
    <3>1. PICK read \in {<< >>, Published(p)} : upstream' = [upstream EXCEPT ![p] = read]
      BY <2>2 DEF Kill
    <3>2. link' = link \ {p} /\ broker' = broker
      BY <2>2 DEF Kill
    <3>3. read \in Seq(Frames) /\ read \in {<< >>, upstream[p]} /\ (read # << >> => p = Cluster)
      <4>1. upstream[p] \in Seq(Frames)
        BY <1>2
      <4>2. CASE p = Cluster
        BY <1>2, <3>1, <4>1, <4>2 DEF Published
      <4>3. CASE p # Cluster
        BY <1>2, <3>1, <4>3 DEF Published
      <4>4. QED
        BY <4>2, <4>3
    <3>4. QED
      BY <1>2, <3>1, <3>2, <3>3 DEF IInv, Typed
  <2>3. QED
    BY <2>1, <2>2
<1>4. /\ downstream' \in [Procs -> Seq(Handoffs)]
      /\ \A q \in Procs : downstream'[q] \in {<< >>, downstream[q]}
      /\ downstream'[p] = << >>
  <2>1. CASE p = broker
    <3>1. PICK lost \in SUBSET Procs : downstream' =
             [q \in Procs |-> IF q \in lost \cup {p} THEN << >> ELSE downstream[q]]
      BY <2>1 DEF Kill
    <3>2. QED
      BY <1>2, <3>1
  <2>2. CASE p # broker
    <3>1. downstream' = [downstream EXCEPT ![p] = << >>]
      BY <2>2 DEF Kill
    <3>2. QED
      BY <1>2, <3>1
  <2>3. QED
    BY <2>1, <2>2
<1>5. /\ broker' \in (up \ {p}) \cup {None} /\ link' \subseteq link \ {p}
      /\ remoteSubs' \subseteq link' \cap (remoteSubs \ {p})
      /\ broker' \in {broker, None}
      /\ broker = p \/ broker' = broker
  <2>1. CASE p = broker
    BY <2>1 DEF Kill
  <2>2. CASE p # broker
    <3>1. broker' = broker /\ link' = link \ {p} /\ remoteSubs' = remoteSubs \ {p}
      BY <2>2 DEF Kill, Closed
    <3>2. QED
      BY <2>2, <3>1 DEF IInv, Typed
  <2>3. QED
    BY <2>1, <2>2
<1>6. /\ pending' \in [Worlds -> [Chars -> Handoffs \cup {None}]]
      /\ \A w \in Worlds, c \in Chars : pending'[w][c] \in {None, pending[w][c]}
  BY <1>1, <1>2 DEF Nothing
<1>7. Typed'
  BY <1>1, <1>3, <1>4, <1>5, <1>6 DEF IInv, Typed
<1>8. InFlight'
  <2>1. ASSUME NEW q \in Procs, NEW i \in DOMAIN upstream'[q]
        PROVE  IF upstream'[q][i] = Sub THEN q \in link' \cap localSubs' ELSE q = Cluster
    <3>1. upstream'[q] # << >> /\ upstream'[q] = upstream[q]
      BY <1>3, <2>1
    <3>2. IF upstream[q][i] = Sub THEN q \in link \cap localSubs ELSE q = Cluster
      BY <2>1, <3>1 DEF IInv, InFlight
    <3>3. q = p => q = Cluster
      BY <1>3, <3>1
    <3>4. Cluster \notin localSubs
      BY <1>2 DEF IInv, Typed
    <3>5. QED
      BY <1>1, <1>3, <3>1, <3>2, <3>3, <3>4
  <2>2. ASSUME NEW q \in Procs, downstream'[q] # << >> PROVE q \in up'
    BY <1>1, <1>4, <2>2 DEF IInv, InFlight
  <2>3. QED
    BY <2>1, <2>2 DEF InFlight
<1>9. Ordered'
  <2>1. Increasing(upstream'[Cluster]) /\ AtMost(Len(issued'), upstream'[Cluster])
    BY <1>1, <1>2, <1>3 DEF IInv, Ordered, Increasing, AtMost
  <2>2. ASSUME NEW q \in Procs
        PROVE  /\ Increasing(downstream'[q]) /\ AtMost(Len(issued'), downstream'[q])
               /\ \A i \in DOMAIN downstream'[q] : Above(downstream'[q][i], upstream'[Cluster])
    <3>1. /\ Increasing(downstream[q]) /\ AtMost(Len(issued), downstream[q])
          /\ \A i \in DOMAIN downstream[q] : Above(downstream[q][i], upstream[Cluster])
      BY DEF IInv, Ordered
    <3>2. \A n : Above(n, upstream[Cluster]) => Above(n, upstream'[Cluster])
      BY <1>2, <1>3 DEF Above
    <3>3. CASE downstream'[q] = << >>
      BY <3>3 DEF Increasing, AtMost
    <3>4. CASE downstream'[q] = downstream[q]
      BY <1>1, <3>1, <3>2, <3>4
    <3>5. QED
      BY <1>4, <3>3, <3>4
  <2>3. ASSUME NEW w \in Worlds, NEW n \in Handoffs, received'[w][n] > 0
        PROVE  /\ n <= Len(issued') /\ Above(n, upstream'[Cluster])
               /\ w # broker' => Above(n, downstream'[w])
    <3>1. n <= Len(issued) /\ Above(n, upstream[Cluster])
      BY <1>1, <2>3 DEF IInv, Ordered
    <3>2. w = broker => w = p \/ broker' = w
      BY <1>5
    <3>3. w # broker => Above(n, downstream[w])
      BY <1>1, <2>3 DEF IInv, Ordered
    <3>4. Above(n, upstream'[Cluster])
      BY <1>2, <1>3, <3>1 DEF Above
    <3>5. w # broker' => Above(n, downstream'[w])
      <4>1. w \in Procs /\ Above(n, << >>)
        BY <1>2 DEF Above
      <4>2. CASE downstream'[w] = << >>
        BY <4>1, <4>2
      <4>3. CASE downstream'[w] = downstream[w] /\ w # p
        BY <3>2, <3>3, <4>3
      <4>4. QED
        BY <1>4, <4>1, <4>2, <4>3
    <3>6. QED
      BY <1>1, <3>1, <3>4, <3>5
  <2>4. QED
    BY <2>1, <2>2, <2>3 DEF Ordered
<1>10. HeardOnce'
  BY <1>1, <1>2, <1>4 DEF IInv, HeardOnce
<1>11. Entries'
  <2>1. ASSUME NEW w \in Worlds, NEW c \in Chars, pending'[w][c] # None
        PROVE  pending'[w][c] = pending[w][c] /\ (w # broker' => w # broker)
    <3>1. w = p => pending'[w][c] = None
      BY <1>1, <1>2 DEF Nothing
    <3>2. QED
      BY <1>5, <1>6, <2>1, <3>1
  <2>2. QED
    BY <1>1, <2>1 DEF IInv, Entries
<1>12. RedeemedAsReceived'
  BY <1>1 DEF IInv, RedeemedAsReceived
<1>13. QED
  BY <1>7, <1>8, <1>9, <1>10, <1>11, <1>12 DEF IInv

LEMMA PrejoinKeeps == ASSUME NEW c \in Chars, IInv, Prejoin(c) PROVE IInv'
<1> DEFINE k == Len(issued) + 1
<1>1. /\ UNCHANGED <<up, broker, link, remoteSubs, downstream, localSubs, pending, received, redeemed>>
      /\ issued' = Append(issued, c) /\ Len(issued) < MaxHandoffs
      /\ upstream' = IF Cluster \in link
                     THEN [upstream EXCEPT ![Cluster] = Append(@, Len(issued'))] ELSE upstream
  BY DEF Prejoin, counts
<1>2. /\ upstream \in [Procs -> Seq(Frames)] /\ issued \in Seq(Chars)
      /\ downstream \in [Procs -> Seq(Handoffs)]
      /\ MaxHandoffs \in Nat /\ Cluster \in Procs /\ Worlds \subseteq Procs
      /\ pending \in [Worlds -> [Chars -> Handoffs \cup {None}]]
  BY HandoffAssumption DEF IInv, Typed, Procs
<1>3. /\ issued' \in Seq(Chars) /\ Len(issued') = k /\ Len(issued) \in Nat
      /\ \A n \in 1 .. Len(issued) : issued'[n] = issued[n]
      /\ k \in Handoffs /\ k \in Frames /\ k # Sub /\ k \in Nat
  BY <1>1, <1>2 DEF Handoffs, Frames, Sub
<1> HIDE DEF k
<1>4. Append(upstream[Cluster], k) \in Seq(Frames)
  BY <1>2, <1>3, AppendOf
<1>5. \/ upstream' = upstream
      \/ upstream' = [upstream EXCEPT ![Cluster] = Append(@, k)]
  BY <1>1, <1>3
<1>6. upstream' \in [Procs -> Seq(Frames)]
  BY <1>2, <1>4, <1>5
<1>7. Typed'
  BY <1>1, <1>2, <1>3, <1>6 DEF IInv, Typed, k
<1>8. \A q \in Procs : q # Cluster => upstream'[q] = upstream[q]
  BY <1>2, <1>5
<1>9. /\ Increasing(upstream'[Cluster]) /\ AtMost(k, upstream'[Cluster])
      /\ \A i \in DOMAIN upstream'[Cluster] :
            \/ i \in DOMAIN upstream[Cluster] /\ upstream'[Cluster][i] = upstream[Cluster][i]
            \/ upstream'[Cluster][i] = k
  <2> DEFINE s == upstream[Cluster]
  <2>1. s \in Seq(Frames) /\ Frames \subseteq Nat
    BY <1>2 DEF Frames, Handoffs, Sub
  <2>2. s \in Seq(Nat)
    BY <2>1, SeqMonotonic
  <2>3. Increasing(s) /\ \A i \in DOMAIN s : s[i] <= Len(issued)
    BY DEF IInv, Ordered, AtMost
  <2>4. \A i \in DOMAIN s : s[i] \in Nat /\ s[i] < k
    BY <1>3, <2>2, <2>3, ElementOfSeq, LenProperties DEF k
  <2>5. Increasing(Append(s, k))
    BY <1>3, <2>2, <2>3, <2>4, AppendIncreases
  <2>6. \A i \in DOMAIN Append(s, k) :
           \/ i \in DOMAIN s /\ Append(s, k)[i] = s[i]
           \/ Append(s, k)[i] = k
    BY <1>3, <2>2, AppendOf
  <2>7. upstream'[Cluster] \in {s, Append(s, k)}
    BY <1>2, <1>5
  <2>8. AtMost(k, s) /\ AtMost(k, Append(s, k))
    BY <1>3, <2>4, <2>6 DEF AtMost
  <2>9. QED
    BY <2>3, <2>5, <2>6, <2>7, <2>8
<1>10. InFlight'
  <2>1. ASSUME NEW q \in Procs, NEW i \in DOMAIN upstream'[q]
        PROVE  IF upstream'[q][i] = Sub THEN q \in link' \cap localSubs' ELSE q = Cluster
    BY <1>1, <1>3, <1>8, <1>9, <2>1 DEF IInv, InFlight
  <2>2. QED
    BY <1>1, <2>1 DEF IInv, InFlight
<1>11. Ordered'
  <2>1. ASSUME NEW q \in Procs
        PROVE  /\ Increasing(downstream'[q]) /\ AtMost(Len(issued'), downstream'[q])
               /\ \A i \in DOMAIN downstream'[q] : Above(downstream'[q][i], upstream'[Cluster])
    <3>1. \A i \in DOMAIN downstream[q] : downstream[q][i] \in Nat /\ downstream[q][i] < k
      <4>1. \A i \in DOMAIN downstream[q] : downstream[q][i] \in Handoffs
        BY <1>2, ElementOfSeq, LenProperties
      <4>2. \A i \in DOMAIN downstream[q] : downstream[q][i] <= Len(issued)
        BY DEF IInv, Ordered, AtMost
      <4>3. QED
        BY <1>3, <4>1, <4>2 DEF k, Handoffs
    <3>2. \A i \in DOMAIN downstream[q] : Above(downstream[q][i], upstream[Cluster])
      BY DEF IInv, Ordered
    <3>3. Increasing(downstream'[q])
      BY <1>1 DEF IInv, Ordered
    <3>4. AtMost(Len(issued'), downstream'[q])
      BY <1>1, <1>3, <3>1 DEF AtMost
    <3>5. QED
      BY <1>1, <1>9, <3>1, <3>2, <3>3, <3>4 DEF Above
  <2>2. ASSUME NEW w \in Worlds, NEW n \in Handoffs, received'[w][n] > 0
        PROVE  /\ n <= Len(issued') /\ Above(n, upstream'[Cluster])
               /\ w # broker' => Above(n, downstream'[w])
    <3>1. n <= Len(issued) /\ Above(n, upstream[Cluster]) /\ (w # broker => Above(n, downstream[w]))
      BY <1>1, <2>2 DEF IInv, Ordered
    <3>2. n < k
      BY <1>3, <3>1 DEF k, Handoffs
    <3>3. QED
      BY <1>1, <1>3, <1>9, <3>1, <3>2 DEF Above, Handoffs
  <2>3. QED
    BY <1>3, <1>9, <2>1, <2>2 DEF Ordered
<1>12. HeardOnce' /\ RedeemedAsReceived'
  BY <1>1 DEF IInv, HeardOnce, RedeemedAsReceived
<1>13. Entries'
  <2>1. ASSUME NEW w \in Worlds, NEW d \in Chars, pending[w][d] # None
        PROVE  LET n == pending[w][d]
               IN  /\ n <= Len(issued') /\ issued'[n] = d /\ redeemed[w][n] < received[w][n]
                   /\ w # broker => received[w][n] = 1
    <3>1. pending[w][d] \in Handoffs
      BY <1>2, <2>1
    <3>2. pending[w][d] <= Len(issued) /\ issued[pending[w][d]] = d
          /\ redeemed[w][pending[w][d]] < received[w][pending[w][d]]
          /\ (w # broker => received[w][pending[w][d]] = 1)
      BY <2>1 DEF IInv, Entries
    <3>3. QED
      BY <1>3, <3>1, <3>2 DEF Handoffs, k
  <2>2. QED
    BY <1>1, <2>1 DEF Entries
<1>14. QED
  BY <1>7, <1>10, <1>11, <1>12, <1>13 DEF IInv

------------------------------------------------------------------------------
(* Arrivals.                                                               *)

\* What a listener makes of handoff n: at most one counter moves, and the entry
\* of its character may become n.
LEMMA ReceivedKeeps ==
    ASSUME NEW w \in Worlds, NEW n \in Handoffs, IInv, n <= Len(issued),
           Received(w, n), UNCHANGED <<broker, issued, redeemed>>,
           w # broker => received[w][n] = 0
    PROVE  /\ pending' \in [Worlds -> [Chars -> Handoffs \cup {None}]]
           /\ received' \in [Worlds -> [Handoffs -> Nat]]
           /\ \A v \in Worlds, m \in Handoffs :
                 received'[v][m] = IF v = w /\ m = n THEN received[w][n] + 1 ELSE received[v][m]
           /\ Entries' /\ RedeemedAsReceived'
<1>1. /\ pending \in [Worlds -> [Chars -> Handoffs \cup {None}]]
      /\ received \in [Worlds -> [Handoffs -> Nat]] /\ redeemed \in [Worlds -> [Handoffs -> Nat]]
      /\ issued \in Seq(Chars)
  BY DEF IInv, Typed
<1>2. issued[n] \in Chars
  BY <1>1, ElementOfSeq DEF Handoffs
<1>3. /\ pending' = [pending EXCEPT ![w][issued[n]] = n]
      /\ received' = [received EXCEPT ![w][n] = @ + 1]
  BY DEF Received
<1>4. pending' \in [Worlds -> [Chars -> Handoffs \cup {None}]]
  BY <1>1, <1>2, <1>3
<1>5. received' \in [Worlds -> [Handoffs -> Nat]]
  BY <1>1, <1>3
<1>6. \A v \in Worlds, m \in Handoffs :
         received'[v][m] = IF v = w /\ m = n THEN received[w][n] + 1 ELSE received[v][m]
  BY <1>1, <1>3
<1>7. \A v \in Worlds, d \in Chars :
         pending'[v][d] = IF v = w /\ d = issued[n] THEN n ELSE pending[v][d]
  BY <1>1, <1>2, <1>3
<1>8. \A v \in Worlds, m \in Handoffs : redeemed[v][m] <= received[v][m]
  BY DEF IInv, RedeemedAsReceived
<1>9. RedeemedAsReceived'
  <2>1. ASSUME NEW v \in Worlds, NEW m \in Handoffs PROVE redeemed'[v][m] <= received'[v][m]
    <3>1. received[v][m] \in Nat /\ redeemed[v][m] \in Nat /\ redeemed'[v][m] = redeemed[v][m]
      BY <1>1
    <3>2. received'[v][m] \in {received[v][m], received[v][m] + 1}
      BY <1>6
    <3>3. QED
      BY <1>8, <3>1, <3>2
  <2>2. QED
    BY <2>1 DEF RedeemedAsReceived
<1>10. ASSUME NEW v \in Worlds, NEW d \in Chars, pending'[v][d] # None
       PROVE  LET m == pending'[v][d]
              IN  /\ m <= Len(issued) /\ issued[m] = d /\ redeemed[v][m] < received'[v][m]
                  /\ v # broker => received'[v][m] = 1
  <2>1. CASE v = w /\ d = issued[n]
    <3>1. pending'[v][d] = n /\ received'[v][n] = received[v][n] + 1
      BY <1>6, <1>7, <2>1
    <3>2. redeemed[v][n] <= received[v][n] /\ redeemed[v][n] \in Nat /\ received[v][n] \in Nat
      BY <1>1, <1>8
    <3>3. QED
      BY <2>1, <3>1, <3>2
  <2>2. CASE ~ (v = w /\ d = issued[n])
    <3>1. pending'[v][d] = pending[v][d] /\ pending[v][d] \in Handoffs
      BY <1>1, <1>7, <1>10, <2>2
    <3>2. issued[pending[v][d]] = d /\ pending[v][d] <= Len(issued)
          /\ redeemed[v][pending[v][d]] < received[v][pending[v][d]]
          /\ (v # broker => received[v][pending[v][d]] = 1)
      BY <1>10, <3>1 DEF IInv, Entries
    <3>3. received'[v][pending[v][d]] = received[v][pending[v][d]]
      BY <1>6, <2>2, <3>1, <3>2
    <3>4. QED
      BY <3>1, <3>2, <3>3
  <2>3. QED
    BY <2>1, <2>2
<1>11. Entries'
  BY <1>10 DEF Entries
<1>12. QED
  BY <1>4, <1>5, <1>6, <1>9, <1>11

\* The head of a process's stream, and what is behind it.
LEMMA DeliverKeeps == ASSUME NEW q \in Procs, IInv, Deliver(q) PROVE IInv'
<1> DEFINE s == downstream[q]
           n == Head(s)
<1>1. /\ UNCHANGED <<up, broker, link, remoteSubs, upstream, localSubs, issued, redeemed>>
      /\ s # << >> /\ downstream' = [downstream EXCEPT ![q] = Tail(s)]
      /\ \/ q \in localSubs /\ Received(q, n)
         \/ UNCHANGED <<pending, received>>
  BY DEF Deliver
<1>2. /\ downstream \in [Procs -> Seq(Handoffs)] /\ s \in Seq(Handoffs) /\ s \in Seq(Nat)
      /\ upstream \in [Procs -> Seq(Frames)] /\ Worlds \subseteq Procs /\ localSubs \subseteq Worlds
      /\ received \in [Worlds -> [Handoffs -> Nat]]
  <2>1. /\ downstream \in [Procs -> Seq(Handoffs)] /\ upstream \in [Procs -> Seq(Frames)]
        /\ Worlds \subseteq Procs /\ localSubs \subseteq Worlds
        /\ received \in [Worlds -> [Handoffs -> Nat]]
    BY DEF IInv, Typed, Procs
  <2>2. s \in Seq(Handoffs) /\ Handoffs \subseteq Nat
    BY <2>1 DEF Handoffs
  <2>3. QED
    BY <2>1, <2>2, SeqMonotonic
<1>3. /\ Tail(s) \in Seq(Handoffs) /\ n \in Handoffs
      /\ 1 \in DOMAIN s /\ n = s[1]
      /\ \A i \in DOMAIN Tail(s) : i + 1 \in DOMAIN s /\ Tail(s)[i] = s[i + 1] /\ Tail(s)[i] \in Handoffs
  <2>1. Tail(s) \in Seq(Handoffs) /\ n \in Handoffs /\ 1 \in DOMAIN s /\ n = s[1]
    BY <1>1, <1>2, TailOf
  <2>2. \A i \in DOMAIN Tail(s) : i + 1 \in DOMAIN s /\ Tail(s)[i] = s[i + 1]
    BY <1>1, <1>2, TailOf
  <2>3. \A i \in DOMAIN Tail(s) : Tail(s)[i] \in Handoffs
    BY <2>1, ElementOfSeq, LenProperties
  <2>4. QED
    BY <2>1, <2>2, <2>3
<1>4. Increasing(Tail(s)) /\ Above(n, Tail(s)) /\ n <= Len(issued)
  <2>1. Increasing(s) /\ AtMost(Len(issued), s)
    BY DEF IInv, Ordered
  <2>2. QED
    BY <1>1, <1>2, <1>3, <2>1, TailIncreases DEF AtMost
<1>5. /\ pending' \in [Worlds -> [Chars -> Handoffs \cup {None}]]
      /\ received' \in [Worlds -> [Handoffs -> Nat]]
      /\ Entries' /\ RedeemedAsReceived'
      /\ \A v \in Worlds, m \in Handoffs :
            \/ received'[v][m] = received[v][m]
            \/ v = q /\ m = n
  <2>1. CASE q \in localSubs /\ Received(q, n)
    <3>1. q \in Worlds /\ received[q][n] \in Nat
      BY <1>2, <1>3, <2>1
    <3>2. q # broker /\ received[q][n] > 0 => n < s[1]
      BY <1>3, <3>1 DEF IInv, Ordered, Above
    <3>3. q # broker => received[q][n] = 0
      BY <1>3, <3>1, <3>2 DEF Handoffs
    <3>4. Received(q, n) /\ UNCHANGED <<broker, issued, redeemed>> /\ n \in Handoffs /\ n <= Len(issued)
      BY <1>1, <1>3, <1>4, <2>1
    <3> HIDE DEF n, s
    <3>5. QED
      BY <3>1, <3>3, <3>4, ReceivedKeeps
  <2>2. CASE UNCHANGED <<pending, received>>
    BY <1>1, <2>2 DEF IInv, Typed, Entries, RedeemedAsReceived
  <2>3. QED
    BY <1>1, <2>1, <2>2
<1>6. downstream' \in [Procs -> Seq(Handoffs)] /\ downstream'[q] = Tail(s)
      /\ \A p \in Procs \ {q} : downstream'[p] = downstream[p]
  BY <1>1, <1>2, <1>3
<1> HIDE DEF s, n
<1>7. Typed'
  BY <1>1, <1>5, <1>6 DEF IInv, Typed
<1>8. InFlight'
  BY <1>1, <1>6 DEF IInv, InFlight, s
<1>9. Ordered'
  <2>1. Increasing(upstream'[Cluster]) /\ AtMost(Len(issued'), upstream'[Cluster])
    BY <1>1 DEF IInv, Ordered
  <2>2. ASSUME NEW p \in Procs
        PROVE  /\ Increasing(downstream'[p]) /\ AtMost(Len(issued'), downstream'[p])
               /\ \A i \in DOMAIN downstream'[p] : Above(downstream'[p][i], upstream'[Cluster])
    <3>1. /\ Increasing(downstream[p]) /\ AtMost(Len(issued), downstream[p])
          /\ \A i \in DOMAIN downstream[p] : Above(downstream[p][i], upstream[Cluster])
      BY DEF IInv, Ordered
    <3>2. CASE p = q
      BY <1>1, <1>3, <1>4, <1>6, <3>1, <3>2 DEF AtMost, Above, s
    <3>3. CASE p # q
      BY <1>1, <1>6, <3>1, <3>3
    <3>4. QED
      BY <3>2, <3>3
  <2>3. ASSUME NEW w \in Worlds, NEW m \in Handoffs, received'[w][m] > 0
        PROVE  /\ m <= Len(issued') /\ Above(m, upstream'[Cluster])
               /\ w # broker' => Above(m, downstream'[w])
    <3>1. CASE w = q /\ m = n
      <4>1. Above(n, upstream[Cluster])
        BY <1>3 DEF IInv, Ordered, s
      <4>2. QED
        BY <1>1, <1>4, <1>6, <3>1, <4>1
    <3>2. CASE received'[w][m] = received[w][m]
      <4>1. m <= Len(issued) /\ Above(m, upstream[Cluster]) /\ (w # broker => Above(m, downstream[w]))
        BY <2>3, <3>2 DEF IInv, Ordered
      <4>2. w = q /\ w # broker => Above(m, Tail(s))
        BY <1>3, <4>1 DEF Above, s
      <4>3. QED
        BY <1>1, <1>2, <1>6, <4>1, <4>2
    <3>3. QED
      BY <1>5, <3>1, <3>2
  <2>4. QED
    BY <2>1, <2>2, <2>3 DEF Ordered
<1>10. HeardOnce'
  <2>1. ASSUME NEW w \in Worlds, NEW i \in DOMAIN downstream'[w]
        PROVE  received'[w][downstream'[w][i]] <= 1
    <3>1. CASE w = q
      <4>1. downstream'[w][i] \in Handoffs /\ downstream'[w][i] # n
        BY <1>3, <1>4, <1>6, <2>1, <3>1 DEF Above, Handoffs
      <4>2. received'[w][downstream'[w][i]] = received[w][downstream'[w][i]]
        BY <1>5, <4>1
      <4>3. i + 1 \in DOMAIN downstream[w] /\ downstream'[w][i] = downstream[w][i + 1]
        BY <1>3, <1>6, <2>1, <3>1 DEF s
      <4>4. QED
        BY <4>2, <4>3 DEF IInv, HeardOnce
    <3>2. CASE w # q
      <4>1. downstream'[w] = downstream[w] /\ downstream[w] \in Seq(Handoffs)
        BY <1>2, <1>6, <3>2
      <4>2. downstream[w][i] \in Handoffs
        BY <2>1, <4>1, ElementOfSeq, LenProperties
      <4>3. received'[w][downstream[w][i]] = received[w][downstream[w][i]]
        BY <1>5, <3>2, <4>2
      <4>4. received[w][downstream[w][i]] <= 1
        BY <2>1, <4>1 DEF IInv, HeardOnce
      <4>5. QED
        BY <4>1, <4>3, <4>4
    <3>3. QED
      BY <3>1, <3>2
  <2>2. QED
    BY <2>1 DEF HeardOnce
<1>11. QED
  BY <1>5, <1>7, <1>8, <1>9, <1>10 DEF IInv

\* A subscription read by the broker.
LEMMA SubRoutedKeeps ==
    ASSUME NEW p \in Procs, IInv, Route(p), Head(upstream[p]) = Sub PROVE IInv'
<1>1. /\ UNCHANGED <<up, broker, link, localSubs, issued, redeemed, downstream, pending, received>>
      /\ upstream[p] # << >> /\ upstream' = [upstream EXCEPT ![p] = Tail(@)]
      /\ remoteSubs' = remoteSubs \cup {p}
  BY DEF Route
<1>2. /\ upstream \in [Procs -> Seq(Frames)] /\ upstream[p] \in Seq(Frames) /\ Cluster \in Procs
      /\ localSubs \subseteq Worlds /\ Cluster \notin Worlds
  BY HandoffAssumption DEF IInv, Typed, Procs
<1>3. p \in link \cap localSubs /\ p # Cluster
  <2>1. 1 \in DOMAIN upstream[p] /\ upstream[p][1] = Sub
    BY <1>1, <1>2, TailOf
  <2>2. QED
    BY <1>2, <2>1 DEF IInv, InFlight
<1>4. Tail(upstream[p]) \in Seq(Frames)
      /\ \A i \in DOMAIN Tail(upstream[p]) :
            i + 1 \in DOMAIN upstream[p] /\ Tail(upstream[p])[i] = upstream[p][i + 1]
  BY <1>1, <1>2, TailOf
<1>5. /\ upstream' \in [Procs -> Seq(Frames)] /\ upstream'[p] = Tail(upstream[p])
      /\ \A q \in Procs \ {p} : upstream'[q] = upstream[q]
  BY <1>1, <1>2, <1>4
<1>6. Typed'
  BY <1>1, <1>3, <1>5 DEF IInv, Typed
<1>7. InFlight'
  <2>1. ASSUME NEW q \in Procs, NEW i \in DOMAIN upstream'[q]
        PROVE  IF upstream'[q][i] = Sub THEN q \in link' \cap localSubs' ELSE q = Cluster
    <3>1. CASE q = p
      BY <1>1, <1>4, <1>5, <2>1, <3>1 DEF IInv, InFlight
    <3>2. CASE q # p
      BY <1>1, <1>5, <2>1, <3>2 DEF IInv, InFlight
    <3>3. QED
      BY <3>1, <3>2
  <2>2. QED
    BY <1>1, <2>1 DEF IInv, InFlight
<1>8. upstream'[Cluster] = upstream[Cluster]
  BY <1>2, <1>3, <1>5
<1>9. Ordered'
  BY <1>1, <1>8 DEF IInv, Ordered, Increasing, AtMost, Above
<1>10. HeardOnce' /\ Entries' /\ RedeemedAsReceived'
  BY <1>1 DEF IInv, HeardOnce, Entries, RedeemedAsReceived
<1>11. QED
  BY <1>6, <1>7, <1>9, <1>10 DEF IInv

\* A publication read by the broker: it is newer than all that has passed.
LEMMA HandoffRoutedKeeps ==
    ASSUME NEW p \in Procs, IInv, Route(p), Head(upstream[p]) # Sub PROVE IInv'
<1> DEFINE s == upstream[p]
           n == Head(s)
<1>1. /\ UNCHANGED <<up, broker, link, localSubs, issued, redeemed, remoteSubs>>
      /\ s # << >> /\ upstream' = [upstream EXCEPT ![p] = Tail(s)]
      /\ downstream' = Written(p, n)
      /\ \/ broker \in localSubs /\ Received(broker, n)
         \/ UNCHANGED <<pending, received>>
  BY DEF Route
<1>2. /\ upstream \in [Procs -> Seq(Frames)] /\ downstream \in [Procs -> Seq(Handoffs)]
      /\ localSubs \subseteq Worlds /\ Worlds \subseteq Procs /\ Cluster \in Procs
      /\ received \in [Worlds -> [Handoffs -> Nat]]
      /\ remoteSubs \subseteq up
      /\ s \in Seq(Frames) /\ s \in Seq(Nat)
  <2>1. /\ upstream \in [Procs -> Seq(Frames)] /\ downstream \in [Procs -> Seq(Handoffs)]
        /\ localSubs \subseteq Worlds /\ Worlds \subseteq Procs /\ Cluster \in Procs
        /\ received \in [Worlds -> [Handoffs -> Nat]] /\ remoteSubs \subseteq up
    BY DEF IInv, Typed, Procs
  <2>2. s \in Seq(Frames) /\ Frames \subseteq Nat
    BY <2>1 DEF Frames, Handoffs, Sub
  <2>3. QED
    BY <2>1, <2>2, SeqMonotonic
<1>3. /\ Tail(s) \in Seq(Frames) /\ 1 \in DOMAIN s /\ n = s[1] /\ n \in Frames
      /\ \A i \in DOMAIN Tail(s) : i + 1 \in DOMAIN s /\ Tail(s)[i] = s[i + 1]
  BY <1>1, <1>2, TailOf
<1>4. p = Cluster /\ n \in Handoffs /\ n \in Nat
  BY <1>3 DEF IInv, InFlight, Frames, Handoffs, Sub
<1>5. /\ Increasing(Tail(s)) /\ Above(n, Tail(s)) /\ n <= Len(issued) /\ AtMost(Len(issued), Tail(s))
  <2>1. Increasing(s) /\ AtMost(Len(issued), s)
    BY <1>4 DEF IInv, Ordered
  <2>2. QED
    BY <1>1, <1>2, <1>3, <2>1, TailIncreases DEF AtMost
<1>6. /\ \A q \in Procs : \A i \in DOMAIN downstream[q] : downstream[q][i] < n
      /\ \A w \in Worlds, m \in Handoffs : received[w][m] > 0 => m < n
  BY <1>3, <1>4 DEF IInv, Ordered, Above
<1>7. \A w \in Worlds : received[w][n] = 0
  <2>1. ASSUME NEW w \in Worlds PROVE received[w][n] = 0
    <3>1. received[w][n] \in Nat
      BY <1>2, <1>4
    <3>2. ~ (received[w][n] > 0)
      BY <1>4, <1>6
    <3>3. QED
      BY <3>1, <3>2
  <2>2. QED
    BY <2>1
<1>8. upstream' \in [Procs -> Seq(Frames)] /\ upstream'[Cluster] = Tail(s)
      /\ \A q \in Procs \ {Cluster} : upstream'[q] = upstream[q]
  BY <1>1, <1>2, <1>3, <1>4
<1>9. /\ downstream' \in [Procs -> Seq(Handoffs)]
      /\ \A q \in Procs :
            \/ downstream'[q] = downstream[q]
            \/ (downstream'[q] = Append(downstream[q], n) /\ q \in up)
  <2>1. \A q \in Procs : Append(downstream[q], n) \in Seq(Handoffs)
    BY <1>2, <1>4, AppendOf
  <2>2. downstream' = [q \in Procs |-> IF q \in remoteSubs \ {p} THEN Append(downstream[q], n)
                                       ELSE downstream[q]]
    BY <1>1 DEF Written, Subscribers
  <2>3. QED
    BY <1>2, <2>1, <2>2
<1>10. \A q \in Procs : \A i \in DOMAIN downstream'[q] :
          \/ i \in DOMAIN downstream[q] /\ downstream'[q][i] = downstream[q][i]
             /\ downstream[q][i] \in Handoffs
          \/ downstream'[q][i] = n
  <2>1. ASSUME NEW q \in Procs, NEW i \in DOMAIN downstream'[q]
        PROVE  \/ i \in DOMAIN downstream[q] /\ downstream'[q][i] = downstream[q][i]
                  /\ downstream[q][i] \in Handoffs
               \/ downstream'[q][i] = n
    <3>1. downstream[q] \in Seq(Handoffs)
      BY <1>2
    <3>2. \A k \in DOMAIN downstream[q] : downstream[q][k] \in Handoffs
      BY <3>1, ElementOfSeq, LenProperties
    <3>3. CASE downstream'[q] = downstream[q]
      BY <2>1, <3>2, <3>3
    <3>4. CASE downstream'[q] = Append(downstream[q], n)
      BY <1>4, <2>1, <3>1, <3>2, <3>4, AppendOf
    <3>5. QED
      BY <1>9, <3>3, <3>4
  <2>2. QED
    BY <2>1
<1>11. /\ pending' \in [Worlds -> [Chars -> Handoffs \cup {None}]]
       /\ received' \in [Worlds -> [Handoffs -> Nat]]
       /\ Entries' /\ RedeemedAsReceived'
       /\ \A v \in Worlds, m \in Handoffs :
             \/ received'[v][m] = received[v][m]
             \/ v = broker /\ m = n /\ received'[v][m] = 1
  <2>1. CASE broker \in localSubs /\ Received(broker, n)
    <3>1. /\ pending' \in [Worlds -> [Chars -> Handoffs \cup {None}]]
          /\ received' \in [Worlds -> [Handoffs -> Nat]]
          /\ Entries' /\ RedeemedAsReceived'
          /\ \A v \in Worlds, m \in Handoffs :
                received'[v][m] = IF v = broker /\ m = n THEN received[broker][n] + 1 ELSE received[v][m]
      <4>1. broker \in Worlds /\ UNCHANGED <<broker, issued, redeemed>> /\ n <= Len(issued) /\ n \in Handoffs
        BY <1>1, <1>2, <1>4, <1>5, <2>1
      <4>2. Received(broker, n)
        BY <2>1
      <4> HIDE DEF n
      <4>3. QED
        BY <4>1, <4>2, ReceivedKeeps
    <3>2. received[broker][n] = 0
      BY <1>2, <1>7, <2>1
    <3>3. QED
      BY <3>1, <3>2
  <2>2. CASE UNCHANGED <<pending, received>>
    BY <1>1, <2>2 DEF IInv, Typed, Entries, RedeemedAsReceived
  <2>3. QED
    BY <1>1, <2>1, <2>2
<1> HIDE DEF n
<1>12. Typed'
  BY <1>1, <1>8, <1>9, <1>11 DEF IInv, Typed
<1>13. InFlight'
  <2>1. ASSUME NEW q \in Procs, NEW i \in DOMAIN upstream'[q]
        PROVE  IF upstream'[q][i] = Sub THEN q \in link' \cap localSubs' ELSE q = Cluster
    <3>1. CASE q = Cluster
      BY <1>1, <1>3, <1>4, <1>8, <2>1, <3>1 DEF IInv, InFlight
    <3>2. CASE q # Cluster
      BY <1>1, <1>8, <2>1, <3>2 DEF IInv, InFlight
    <3>3. QED
      BY <3>1, <3>2
  <2>2. ASSUME NEW q \in Procs, downstream'[q] # << >> PROVE q \in up'
    BY <1>1, <1>9, <2>2 DEF IInv, InFlight
  <2>3. QED
    BY <2>1, <2>2 DEF InFlight
<1>14. Ordered'
  <2>1. Increasing(upstream'[Cluster]) /\ AtMost(Len(issued'), upstream'[Cluster])
    BY <1>1, <1>5, <1>8
  <2>2. ASSUME NEW q \in Procs
        PROVE  /\ Increasing(downstream'[q]) /\ AtMost(Len(issued'), downstream'[q])
               /\ \A i \in DOMAIN downstream'[q] : Above(downstream'[q][i], upstream'[Cluster])
    <3>1. /\ Increasing(downstream[q]) /\ AtMost(Len(issued), downstream[q])
          /\ \A i \in DOMAIN downstream[q] : Above(downstream[q][i], s)
      BY <1>4 DEF IInv, Ordered
    <3>2. Increasing(downstream'[q])
      <4>1. downstream[q] \in Seq(Handoffs) /\ Handoffs \subseteq Nat
        BY <1>2 DEF Handoffs
      <4>2. downstream[q] \in Seq(Nat)
        BY <4>1, SeqMonotonic
      <4>3. Increasing(Append(downstream[q], n))
        BY <1>4, <1>6, <3>1, <4>2, AppendIncreases
      <4>4. QED
        BY <1>9, <3>1, <4>3
    <3>3. AtMost(Len(issued'), downstream'[q])
      BY <1>1, <1>5, <1>10, <3>1 DEF AtMost
    <3>4. ASSUME NEW i \in DOMAIN downstream'[q] PROVE Above(downstream'[q][i], Tail(s))
      <4>1. CASE downstream'[q][i] = n
        BY <1>5, <4>1
      <4>2. CASE i \in DOMAIN downstream[q] /\ downstream'[q][i] = downstream[q][i]
        BY <1>3, <3>1, <4>2 DEF Above
      <4>3. QED
        BY <1>10, <3>4, <4>1, <4>2
    <3>5. QED
      BY <1>8, <3>2, <3>3, <3>4
  <2>3. ASSUME NEW w \in Worlds, NEW m \in Handoffs, received'[w][m] > 0
        PROVE  /\ m <= Len(issued') /\ Above(m, upstream'[Cluster])
               /\ w # broker' => Above(m, downstream'[w])
    <3>1. CASE w = broker /\ m = n
      BY <1>1, <1>5, <1>8, <3>1
    <3>2. CASE received'[w][m] = received[w][m]
      <4>1. /\ m <= Len(issued) /\ Above(m, s) /\ (w # broker => Above(m, downstream[w]))
            /\ m < n
        BY <1>4, <1>6, <2>3, <3>2 DEF IInv, Ordered
      <4>2. Above(m, Tail(s))
        BY <1>3, <4>1 DEF Above
      <4>3. w # broker => Above(m, downstream'[w])
        BY <1>2, <1>10, <4>1 DEF Above
      <4>4. QED
        BY <1>1, <1>8, <4>1, <4>2, <4>3
    <3>3. QED
      BY <1>11, <3>1, <3>2
  <2>4. QED
    BY <2>1, <2>2, <2>3 DEF Ordered
<1>15. HeardOnce'
  <2>1. ASSUME NEW w \in Worlds, NEW i \in DOMAIN downstream'[w]
        PROVE  received'[w][downstream'[w][i]] <= 1
    <3>1. w \in Procs
      BY <1>2
    <3>2. CASE downstream'[w][i] = n
      <4>1. received'[w][n] \in {received[w][n], 1}
        BY <1>4, <1>11
      <4>2. QED
        BY <1>7, <3>2, <4>1
    <3>3. CASE i \in DOMAIN downstream[w] /\ downstream'[w][i] = downstream[w][i]
               /\ downstream[w][i] \in Handoffs
      <4>1. received[w][downstream[w][i]] <= 1
        BY <3>3 DEF IInv, HeardOnce
      <4>2. received'[w][downstream[w][i]] \in {received[w][downstream[w][i]], 1}
        BY <1>11, <3>3
      <4>3. QED
        BY <3>3, <4>1, <4>2
    <3>4. QED
      BY <1>10, <2>1, <3>1, <3>2, <3>3
  <2>2. QED
    BY <2>1 DEF HeardOnce
<1>16. QED
  BY <1>11, <1>12, <1>13, <1>14, <1>15 DEF IInv

------------------------------------------------------------------------------
(* Theorems.                                                               *)

LEMMA StepKeeps == IInv /\ [Next]_vars => IInv'
<1> SUFFICES ASSUME IInv, [Next]_vars PROVE IInv'
  OBVIOUS
<1>1. ASSUME NEW p \in Procs, Connect(p) \/ Route(p) \/ Deliver(p) PROVE IInv'
  BY <1>1, ConnectKeeps, SubRoutedKeeps, HandoffRoutedKeeps, DeliverKeeps
<1>2. ASSUME NEW w \in Worlds, Subscribe(w) PROVE IInv'
  BY <1>2, SubscribeKeeps
<1>3. ASSUME NEW p \in Procs, Start(p) \/ Kill(p) PROVE IInv'
  BY <1>3, StartKeeps, KillKeeps
<1>4. ASSUME NEW c \in Chars, Prejoin(c) PROVE IInv'
  BY <1>4, PrejoinKeeps
<1>5. ASSUME NEW c \in Chars, NEW w \in Worlds, Join(w, c) \/ Expire(w, c) PROVE IInv'
  BY <1>5, JoinKeeps, ExpireKeeps
<1>6. CASE UNCHANGED vars
  BY <1>6 DEF vars, sockets, streams, counts, IInv, Typed, InFlight, Ordered, HeardOnce, Entries,
              RedeemedAsReceived, Increasing, AtMost, Above
<1>7. QED
  BY <1>1, <1>2, <1>3, <1>4, <1>5, <1>6 DEF Next, BusStep

\* The inductive invariant holds in every reachable state.
LEMMA Invariance == Spec => []IInv
<1>1. QED
  BY InitIInv, StepKeeps, PTL DEF Spec

\* Streams and subscriptions belong to processes that run, an entry is a handoff of
\* its character, and what a world other than the broker holds has let nobody in yet,
\* whatever is killed, delayed, lost or found stale.
THEOREM BusIsSound == Spec => []BusInv
<1>1. IInv => BusInv
  <2> SUFFICES ASSUME IInv PROVE BusInv
    OBVIOUS
  <2>1. \A p \in Procs \ link : Sub \notin ToSet(upstream[p])
    BY DEF IInv, InFlight, ToSet
  <2>2. \A w \in Worlds, c \in Chars : pending[w][c] # None => issued[pending[w][c]] = c
    BY DEF IInv, Entries
  <2>3. BusTypeOK
    BY <2>1, <2>2 DEF IInv, Typed, BusTypeOK
  <2>4. SingleUse
    <3>1. ASSUME NEW w \in Worlds \ {broker}, NEW c \in Chars, pending[w][c] # None
          PROVE  redeemed[w][pending[w][c]] = 0
      <4>1. pending[w][c] \in Handoffs /\ redeemed[w][pending[w][c]] \in Nat
        BY <3>1 DEF IInv, Typed
      <4>2. redeemed[w][pending[w][c]] < received[w][pending[w][c]]
            /\ received[w][pending[w][c]] = 1
        BY <3>1 DEF IInv, Entries
      <4>3. QED
        BY <4>1, <4>2
    <3>2. QED
      BY <3>1 DEF SingleUse
  <2>5. QED
    BY <2>3, <2>4 DEF BusInv
<1>2. QED
  BY <1>1, Invariance, PTL

\* A world that is not the broker is handed each handoff once and in the order of
\* issue, over any number of reconnections.
THEOREM HandedOnceInOrder == Spec => OnceAndInOrder
<1> DEFINE Moved(w, n) ==
       received'[w][n] > received[w][n] => \A m \in n .. MaxHandoffs : received[w][m] = 0
<1>1. IInv /\ [Next]_vars => \A w \in Worlds \ {broker}, n \in Handoffs : Moved(w, n)
  <2> SUFFICES ASSUME IInv, [Next]_vars, NEW w \in Worlds \ {broker}, NEW n \in Handoffs,
                      received'[w][n] > received[w][n]
               PROVE  \A m \in n .. MaxHandoffs : received[w][m] = 0
    OBVIOUS
  <2>1. /\ w \in Procs /\ received \in [Worlds -> [Handoffs -> Nat]]
        /\ downstream \in [Procs -> Seq(Handoffs)] /\ upstream \in [Procs -> Seq(Frames)]
        /\ MaxHandoffs \in Nat
    BY HandoffAssumption DEF IInv, Typed, Procs
  <2>2. ~ (UNCHANGED received)
    BY <2>1
  <2>3. ASSUME NEW v \in Worlds, NEW k, Received(v, k) PROVE v = w /\ (k \in Handoffs => k = n)
    BY <2>1, <2>2, <2>3 DEF Received
  <2>4. ASSUME NEW q \in Procs, Deliver(q)
        PROVE  \A m \in n .. MaxHandoffs : received[w][m] = 0
    <3>1. q \in localSubs /\ Received(q, Head(downstream[q])) /\ downstream[q] # << >>
      BY <2>2, <2>4 DEF Deliver
    <3>2. q \in Worlds /\ 1 \in DOMAIN downstream[q] /\ Head(downstream[q]) = downstream[q][1]
          /\ downstream[q][1] \in Handoffs
      BY <2>1, <3>1, TailOf DEF IInv, Typed
    <3>3. q = w /\ downstream[w][1] = n
      BY <2>3, <3>1, <3>2
    <3>4. ASSUME NEW m \in n .. MaxHandoffs PROVE received[w][m] = 0
      <4>1. m \in Handoffs /\ received[w][m] \in Nat
        BY <2>1, <3>4 DEF Handoffs
      <4>2. received[w][m] > 0 => m < n
        BY <3>2, <3>3, <4>1 DEF IInv, Ordered, Above
      <4>3. QED
        BY <3>4, <4>1, <4>2 DEF Handoffs
    <3>5. QED
      BY <3>4
  <2>5. ~ \E p \in Procs : Route(p)
    <3> SUFFICES ASSUME NEW p \in Procs, Route(p) PROVE FALSE
      OBVIOUS
    <3>1. broker \in localSubs /\ Received(broker, Head(upstream[p]))
      BY <2>2 DEF Route
    <3>2. broker \in Worlds
      BY <3>1 DEF IInv, Typed
    <3>3. QED
      BY <2>3, <3>1, <3>2
  <2>6. CASE \E p \in Procs : Connect(p) \/ Start(p) \/ Kill(p)
    BY <2>2, <2>6 DEF Connect, Start, Kill, counts
  <2>7. CASE \E v \in Worlds : Subscribe(v) \/ \E c \in Chars : Join(v, c) \/ Expire(v, c)
    BY <2>2, <2>7 DEF Subscribe, Join, Expire, counts
  <2>8. CASE \E c \in Chars : Prejoin(c)
    BY <2>2, <2>8 DEF Prejoin, counts
  <2>9. QED
    BY <2>2, <2>4, <2>5, <2>6, <2>7, <2>8 DEF Next, BusStep, vars, counts
<1>2. QED
  BY <1>1, Invariance, PTL DEF Spec, OnceAndInOrder

==============================================================================
