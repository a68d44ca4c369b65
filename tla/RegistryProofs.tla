--------------------------- MODULE RegistryProofs ---------------------------
(***************************************************************************)
(* Proofs about Registry.  The inductive invariant says what may be in     *)
(* flight on a connection together with what its two ends believe, and     *)
(* that a process has one socket at a time.                                *)
(***************************************************************************)
EXTENDS Registry, SequenceTheorems, TLAPS

\* What can be in flight.
Ups   == {<<>>, <<"REGISTER">>, <<"HEARTBEAT">>, <<"UNREGISTER">>,
          <<"HEARTBEAT", "UNREGISTER">>}
Downs == {<<>>, <<"ACK">>, <<"NACK">>}
Links == [top : Ends, bottom : Ends, up : Ups, down : Downs, cut : BOOLEAN,
          id : Ids \cup {None}]

Typed ==
  /\ entry \in [Ids -> Conns \cup {None}]
  /\ late \subseteq {i \in Ids : entry[i] # None}
  /\ link \in [Conns -> Links]
  /\ phase \in [Procs -> Phases]
  /\ registered \subseteq Procs
  /\ events \in 0..MaxEvents

\* What the ends of c, its frames and its process have to do with each other.
LinkOK(c) ==
  /\ link[c].id \in {None, IdOn(c)}
  /\ link[c].bottom = "open" => phase[Dialer[c]] \in {"dialled", "leaving"}
  /\ link[c].bottom = "closing" => phase[Dialer[c]] \in {"rejected", "stopped"}
  /\ link[c].bottom # "closed" /\ phase[Dialer[c]] = "dialled"
       => link[c].up \in {<<>>, <<"REGISTER">>, <<"HEARTBEAT">>}
  /\ link[c].up = <<"REGISTER">> => link[c].down = <<>> /\ link[c].id = None
  /\ link[c].bottom = "open" /\ (link[c].up = <<"REGISTER">> \/ link[c].down # <<>>)
       => Dialer[c] \notin registered
  /\ link[c].bottom = "open" /\ link[c].top = "open"
       /\ (Dialer[c] \in registered \/ link[c].down = <<"ACK">>)
       => link[c].id = IdOn(c)

\* A process has at most one connection its own end of which is not closed.
OneSocket ==
  \A c, d \in Conns : Dialer[c] = Dialer[d] /\ link[c].bottom # "closed"
                        /\ link[d].bottom # "closed" => c = d

\* Only a registrar with a connection, or on its way out, is registered.
RegisteredPhase == \A p \in registered : phase[p] \in {"dialled", "leaving"}

IInv ==
  /\ Typed
  /\ EntryIsOpen
  /\ \A c \in Conns : LinkOK(c)
  /\ OneSocket
  /\ RegisteredPhase

-----------------------------------------------------------------------------
(* Queues. *)

\* The one queue of two frames.
LEMMA TwoFrames ==
  Append(<<"HEARTBEAT">>, "UNREGISTER") = <<"HEARTBEAT", "UNREGISTER">>
<1> DEFINE s == <<"HEARTBEAT">>
           t == <<"HEARTBEAT", "UNREGISTER">>
           u == Append(s, "UNREGISTER")
           Q == {"HEARTBEAT", "UNREGISTER"}
<1>1. s \in Seq(Q) /\ Len(s) = 1 /\ s[1] = "HEARTBEAT"
  OBVIOUS
<1>2. t \in Seq(Q) /\ Len(t) = 2 /\ t[1] = "HEARTBEAT" /\ t[2] = "UNREGISTER"
  OBVIOUS
<1>3. "UNREGISTER" \in Q
  OBVIOUS
<1>4. u \in Seq(Q) /\ Len(u) = 2 /\ u[1] = "HEARTBEAT" /\ u[2] = "UNREGISTER"
  BY <1>1, <1>3, AppendProperties
<1> HIDE DEF s, t, u, Q
<1>5. \A i \in 1 .. 2 : u[i] = t[i]
  <2> SUFFICES ASSUME NEW i \in 1 .. 2 PROVE u[i] = t[i]
    OBVIOUS
  <2>1. i = 1 \/ i = 2
    OBVIOUS
  <2> QED
    BY <2>1, <1>2, <1>4
<1>6. u = t
  BY <1>2, <1>4, <1>5, SeqEqual
<1> QED
  BY <1>6 DEF u, t, s

\* What the next frame of a queue to the registry says about the queue.
LEMMA UpQueues ==
  ASSUME NEW s \in Ups, s # <<>>
  PROVE  /\ Head(s) = "REGISTER" => s = <<"REGISTER">>
         /\ Head(s) = "HEARTBEAT"
              => s \in {<<"HEARTBEAT">>, <<"HEARTBEAT", "UNREGISTER">>}
         /\ Head(s) = "UNREGISTER" => s = <<"UNREGISTER">>
<1>1. Head(<<"HEARTBEAT", "UNREGISTER">>) = "HEARTBEAT"
  OBVIOUS
<1> QED
  BY <1>1 DEF Ups

LEMMA DownQueues ==
  ASSUME NEW s \in Downs, s # <<>>
  PROVE  /\ Head(s) = "ACK" => s = <<"ACK">>
         /\ Head(s) = "NACK" => s = <<"NACK">>
BY DEF Downs

\* Queues after a frame is read or sent.
LEMMA Frames ==
  /\ Tail(<<"REGISTER">>) = <<>> /\ Tail(<<"HEARTBEAT">>) = <<>>
  /\ Tail(<<"UNREGISTER">>) = <<>>
  /\ Tail(<<"HEARTBEAT", "UNREGISTER">>) = <<"UNREGISTER">>
  /\ Tail(<<"ACK">>) = <<>> /\ Tail(<<"NACK">>) = <<>>
  /\ Append(<<>>, "ACK") = <<"ACK">> /\ Append(<<>>, "NACK") = <<"NACK">>
  /\ Append(<<>>, "UNREGISTER") = <<"UNREGISTER">>
  /\ Append(<<"HEARTBEAT">>, "UNREGISTER") = <<"HEARTBEAT", "UNREGISTER">>
<1>1. Tail(<<"HEARTBEAT", "UNREGISTER">>) = <<"UNREGISTER">>
  OBVIOUS
<1> QED
  BY <1>1, TwoFrames

\* The queues are different.
LEMMA Distinct ==
  /\ <<"REGISTER">> \notin {<<>>, <<"HEARTBEAT">>, <<"UNREGISTER">>,
                            <<"HEARTBEAT", "UNREGISTER">>}
  /\ <<"HEARTBEAT">> \notin {<<>>, <<"UNREGISTER">>, <<"HEARTBEAT", "UNREGISTER">>}
  /\ <<"UNREGISTER">> \notin {<<>>, <<"HEARTBEAT", "UNREGISTER">>}
  /\ <<"HEARTBEAT", "UNREGISTER">> # <<>>
  /\ <<"ACK">> # <<>> /\ <<"NACK">> # <<>> /\ <<"ACK">> # <<"NACK">>
OBVIOUS

-----------------------------------------------------------------------------
(* What a step leaves alone. *)

\* A connection nothing happens to stays as LinkOK says.
LEMMA LinkKept ==
  ASSUME NEW d \in Conns, LinkOK(d), link'[d] = link[d],
         phase'[Dialer[d]] = phase[Dialer[d]],
         Dialer[d] \in registered' => Dialer[d] \in registered
  PROVE  LinkOK(d)'
BY DEF LinkOK, IdOn

\* No connection's registrar end opens: still one socket per process.
LEMMA SocketsKept ==
  ASSUME OneSocket, \A d \in Conns : link'[d].bottom # "closed"
                                        => link[d].bottom # "closed"
  PROVE  OneSocket'
BY DEF OneSocket

\* Entries stay or go, and the connections of those that stay keep top and id.
LEMMA EntriesKept ==
  ASSUME EntryIsOpen,
         \A i \in Ids : entry'[i] # None =>
           /\ entry'[i] = entry[i]
           /\ link[entry[i]].top = "open" => link'[entry[i]].top = "open"
           /\ link'[entry[i]].id = link[entry[i]].id
  PROVE  EntryIsOpen'
BY DEF EntryIsOpen

\* The registry's end of d closes.
LEMMA TopClosed ==
  ASSUME NEW d \in Conns, link[d] \in Links, LinkOK(d),
         link'[d] = Tidied([link[d] EXCEPT !.top = "closed", !.id = None]),
         UNCHANGED <<phase, registered>>
  PROVE  /\ link'[d] \in Links
         /\ link'[d].bottom # "closed" => link[d].bottom # "closed"
         /\ LinkOK(d)'
<1> DEFINE l == [link[d] EXCEPT !.top = "closed", !.id = None]
<1>1. /\ l \in Links /\ l.bottom = link[d].bottom /\ l.up = link[d].up
      /\ l.down = link[d].down /\ l.id = None /\ l.top = "closed"
  BY DEF Links, Ends
<1>2. link'[d] = Tidied(l)
  OBVIOUS
<1> HIDE DEF l
<1>3. /\ NoLink \in Links /\ NoLink.bottom = "closed" /\ NoLink.up = <<>>
      /\ NoLink.id = None /\ NoLink.down = <<>>
  BY DEF NoLink, Links, Ends, Ups, Downs
<1>4. CASE link'[d] = NoLink
  BY <1>3, <1>4, Distinct DEF LinkOK
<1>5. CASE link'[d] = l
  BY <1>1, <1>5 DEF LinkOK, IdOn
<1> QED
  BY <1>2, <1>4, <1>5 DEF Tidied

\* The registrar's end of d closes.
LEMMA BottomClosed ==
  ASSUME NEW d \in Conns, link[d] \in Links, LinkOK(d),
         link'[d] = Tidied([link[d] EXCEPT !.bottom = "closed"])
  PROVE  /\ link'[d] \in Links
         /\ link'[d].bottom = "closed"
         /\ LinkOK(d)'
         /\ link[d].top = "open" => link'[d].top = "open" /\ link'[d].id = link[d].id
<1> DEFINE l == [link[d] EXCEPT !.bottom = "closed"]
<1>1. /\ l \in Links /\ l.bottom = "closed" /\ l.up = link[d].up
      /\ l.down = link[d].down /\ l.id = link[d].id /\ l.top = link[d].top
  BY DEF Links, Ends
<1>2. link'[d] = Tidied(l)
  OBVIOUS
<1> HIDE DEF l
<1>3. /\ NoLink \in Links /\ NoLink.bottom = "closed" /\ NoLink.up = <<>>
      /\ NoLink.id = None /\ NoLink.down = <<>>
  BY DEF NoLink, Links, Ends, Ups, Downs
<1>4. CASE link'[d] = NoLink /\ l.top = "closed"
  BY <1>1, <1>3, <1>4, Distinct DEF LinkOK
<1>5. CASE link'[d] = l
  BY <1>1, <1>5 DEF LinkOK, IdOn
<1> QED
  BY <1>2, <1>4, <1>5 DEF Tidied

\* The registrar destroys its socket d.
LEMMA BottomClosing ==
  ASSUME NEW d \in Conns, link[d] \in Links, LinkOK(d),
         link'[d] = Tidied([link[d] EXCEPT !.bottom = "closing"]),
         phase'[Dialer[d]] \in {"rejected", "stopped"}
  PROVE  /\ link'[d] \in Links
         /\ LinkOK(d)'
         /\ link'[d].top = link[d].top /\ link'[d].id = link[d].id
<1> DEFINE l == [link[d] EXCEPT !.bottom = "closing"]
<1>1. /\ l \in Links /\ l.bottom = "closing" /\ l.up = link[d].up
      /\ l.down = link[d].down /\ l.id = link[d].id /\ l.top = link[d].top
  BY DEF Links, Ends
<1>2. link'[d] = Tidied(l)
  OBVIOUS
<1> HIDE DEF l
<1>3. link'[d] = l
  BY <1>1, <1>2 DEF Tidied
<1> QED
  BY <1>1, <1>3 DEF LinkOK, IdOn

\* A connection whose registrar end is closed does not mind what its process does.
LEMMA ShutKept ==
  ASSUME NEW d \in Conns, LinkOK(d), link[d].bottom = "closed", link'[d] = link[d]
  PROVE  LinkOK(d)'
BY DEF LinkOK, IdOn

-----------------------------------------------------------------------------
(* Steps of the registry. *)

LEMMA AcceptStep ==
  ASSUME IInv, NEW c \in Conns, Accept(c)
  PROVE  IInv'
<1> USE RegistryAssumption
<1>1. link[c].up = <<"REGISTER">> /\ link[c].down = <<>> /\ link[c].top = "open"
  BY UpQueues DEF IInv, Typed, Links, LinkOK, Accept, Reads
<1>2. link' = [link EXCEPT ![c] = [@ EXCEPT !.up = <<>>, !.down = <<"ACK">>, !.id = IdOn(c)]]
  <2>1. link' = [d \in Conns |-> IF d = c
                  THEN Tidied([link[d] EXCEPT !.up = Tail(@), !.down = Append(@, "ACK"),
                                              !.id = IdOn(c)])
                  ELSE link[d]]
    BY DEF Accept, Relink
  <2>2. Tidied([link[c] EXCEPT !.up = Tail(@), !.down = Append(@, "ACK"), !.id = IdOn(c)])
          = [link[c] EXCEPT !.up = <<>>, !.down = <<"ACK">>, !.id = IdOn(c)]
    BY <1>1, Frames DEF Tidied, IInv, Typed, Links
  <2> QED
    BY <2>1, <2>2 DEF IInv, Typed
<1>3. Typed'
  <2>1. entry' \in [Ids -> Conns \cup {None}]
    BY DEF IInv, Typed, Accept
  <2>2. late' \subseteq {i \in Ids : entry'[i] # None}
    BY DEF IInv, Typed, Accept, Refreshed, IdOn
  <2>3. link' \in [Conns -> Links]
    <3>1. IdOn(c) \in Ids
      BY DEF IdOn
    <3>2. <<>> \in Ups /\ <<"ACK">> \in Downs
      BY DEF Ups, Downs
    <3> QED
      BY <1>2, <3>1, <3>2 DEF IInv, Typed, Links
  <2> QED
    BY <2>1, <2>2, <2>3 DEF IInv, Typed, Accept
<1>4. EntryIsOpen'
  BY <1>1, <1>2 DEF IInv, Typed, Links, LinkOK, EntryIsOpen, Accept, IdOn
<1>5. \A d \in Conns : LinkOK(d)'
  BY <1>1, <1>2, Distinct DEF IInv, Typed, Links, LinkOK, Accept, IdOn
<1>6. OneSocket'
  BY <1>2 DEF IInv, Typed, Links, OneSocket, Accept
<1> QED
  BY <1>3, <1>4, <1>5, <1>6 DEF IInv, Accept, RegisteredPhase

LEMMA RejectStep ==
  ASSUME IInv, NEW c \in Conns, Reject(c)
  PROVE  IInv'
<1> USE RegistryAssumption
<1>1. link[c].up = <<"REGISTER">> /\ link[c].down = <<>> /\ link[c].id = None
  BY UpQueues DEF IInv, Typed, Links, LinkOK, Reject, Reads
<1>2. link' = [link EXCEPT ![c] = [@ EXCEPT !.up = <<>>, !.down = <<"NACK">>,
                                            !.top = "closing"]]
  <2>1. link' = [d \in Conns |-> IF d = c
                  THEN Tidied([link[d] EXCEPT !.up = Tail(@), !.down = Append(@, "NACK"),
                                              !.top = "closing"])
                  ELSE link[d]]
    BY DEF Reject, Relink
  <2>2. Tidied([link[c] EXCEPT !.up = Tail(@), !.down = Append(@, "NACK"), !.top = "closing"])
          = [link[c] EXCEPT !.up = <<>>, !.down = <<"NACK">>, !.top = "closing"]
    BY <1>1, Frames DEF Tidied, IInv, Typed, Links
  <2> QED
    BY <2>1, <2>2 DEF IInv, Typed
<1>3. Typed'
  <2>1. <<>> \in Ups /\ <<"NACK">> \in Downs /\ "closing" \in Ends
    BY DEF Ups, Downs, Ends
  <2>2. link' \in [Conns -> Links]
    BY <1>2, <2>1 DEF IInv, Typed, Links
  <2> QED
    BY <2>2 DEF IInv, Typed, Reject
<1>4. EntryIsOpen'
  BY <1>1, <1>2 DEF IInv, Typed, Links, EntryIsOpen, Reject
<1>5. \A d \in Conns : LinkOK(d)'
  BY <1>1, <1>2, Distinct DEF IInv, Typed, Links, LinkOK, Reject, IdOn
<1>6. OneSocket'
  BY <1>2 DEF IInv, Typed, Links, OneSocket, Reject
<1> QED
  BY <1>3, <1>4, <1>5, <1>6 DEF IInv, Reject, RegisteredPhase

LEMMA HeartbeatStep ==
  ASSUME IInv, NEW c \in Conns, Heartbeat(c)
  PROVE  IInv'
<1> USE RegistryAssumption
<1> DEFINE rest == Tail(link[c].up)
<1>1. /\ link[c].up \in {<<"HEARTBEAT">>, <<"HEARTBEAT", "UNREGISTER">>}
      /\ link[c].top = "open"
  BY UpQueues DEF IInv, Typed, Links, Heartbeat, Reads
<1>2. /\ rest \in {<<>>, <<"UNREGISTER">>}
      /\ link[c].up = <<"HEARTBEAT">> => rest = <<>>
  BY <1>1, Frames, Distinct
<1>3. link' = [link EXCEPT ![c] = [@ EXCEPT !.up = rest]]
  <2>1. link' = [d \in Conns |-> IF d = c
                  THEN Tidied([link[d] EXCEPT !.up = Tail(@)]) ELSE link[d]]
    BY DEF Heartbeat, Relink
  <2>2. Tidied([link[c] EXCEPT !.up = Tail(@)]) = [link[c] EXCEPT !.up = rest]
    BY <1>1 DEF Tidied, IInv, Typed, Links
  <2> QED
    BY <2>1, <2>2 DEF IInv, Typed
<1> HIDE DEF rest
<1>4. Typed'
  <2>1. rest \in Ups
    BY <1>2 DEF Ups
  <2>2. link' \in [Conns -> Links]
    BY <1>3, <2>1 DEF IInv, Typed, Links
  <2> QED
    BY <2>2 DEF IInv, Typed, Heartbeat, Refreshed
<1>5. EntryIsOpen'
  BY <1>3 DEF IInv, Typed, Links, EntryIsOpen, Heartbeat
<1>6. \A d \in Conns : LinkOK(d)'
  <2>1. ASSUME NEW d \in Conns, d # c PROVE LinkOK(d)'
    BY <1>3, <2>1, LinkKept DEF IInv, Typed, Heartbeat
  <2>2. link'[c] = [link[c] EXCEPT !.up = rest]
    BY <1>3 DEF IInv, Typed
  <2>3. /\ link'[c].up = rest /\ link'[c].top = link[c].top
        /\ link'[c].bottom = link[c].bottom /\ link'[c].down = link[c].down
        /\ link'[c].id = link[c].id
    BY <2>2 DEF IInv, Typed, Links
  <2>4. LinkOK(c)'
    BY <1>1, <1>2, <2>3, Distinct DEF IInv, LinkOK, Heartbeat, IdOn
  <2> QED
    BY <2>1, <2>4
<1>7. OneSocket'
  BY <1>3 DEF IInv, Typed, Links, OneSocket, Heartbeat
<1> QED
  BY <1>4, <1>5, <1>6, <1>7 DEF IInv, Heartbeat, RegisteredPhase

LEMMA UnregisterStep ==
  ASSUME IInv, NEW c \in Conns, Unregister(c)
  PROVE  IInv'
<1> USE RegistryAssumption
<1>1. link[c].up = <<"UNREGISTER">>
  BY UpQueues DEF IInv, Typed, Links, Unregister, Reads
<1>2. link' = [link EXCEPT ![c] = [@ EXCEPT !.up = <<>>, !.id = None, !.top = "closing"]]
  <2>1. link' = [d \in Conns |-> IF d = c
                  THEN Tidied([link[d] EXCEPT !.up = Tail(@), !.id = None,
                                              !.top = "closing"])
                  ELSE link[d]]
    BY DEF Unregister, Relink
  <2>2. Tidied([link[c] EXCEPT !.up = Tail(@), !.id = None, !.top = "closing"])
          = [link[c] EXCEPT !.up = <<>>, !.id = None, !.top = "closing"]
    BY <1>1, Frames DEF Tidied, IInv, Typed, Links
  <2> QED
    BY <2>1, <2>2 DEF IInv, Typed
<1>3. Typed'
  <2>1. <<>> \in Ups /\ "closing" \in Ends
    BY DEF Ups, Ends
  <2>2. link' \in [Conns -> Links]
    BY <1>2, <2>1 DEF IInv, Typed, Links
  <2>3. /\ entry' \in [Ids -> Conns \cup {None}]
        /\ late' \subseteq {i \in Ids : entry'[i] # None}
    BY DEF IInv, Typed, Unregister, MarkedOffline, Refreshed
  <2> QED
    BY <2>2, <2>3 DEF IInv, Typed, Unregister
<1>4. EntryIsOpen'
  BY <1>2 DEF IInv, Typed, Links, LinkOK, EntryIsOpen, Unregister, MarkedOffline
<1>5. \A d \in Conns : LinkOK(d)'
  <2>1. ASSUME NEW d \in Conns, d # c PROVE LinkOK(d)'
    BY <1>2, <2>1, LinkKept DEF IInv, Typed, Unregister
  <2>2. link'[c] = [link[c] EXCEPT !.up = <<>>, !.id = None, !.top = "closing"]
    BY <1>2 DEF IInv, Typed
  <2>3. /\ link'[c].up = <<>> /\ link'[c].top = "closing"
        /\ link'[c].bottom = link[c].bottom /\ link'[c].down = link[c].down
        /\ link'[c].id = None
    BY <2>2 DEF IInv, Typed, Links
  <2>4. LinkOK(c)'
    BY <1>1, <2>3, Distinct DEF IInv, LinkOK, Unregister, IdOn
  <2> QED
    BY <2>1, <2>4
<1>6. OneSocket'
  BY <1>2 DEF IInv, Typed, Links, OneSocket, Unregister
<1> QED
  BY <1>3, <1>4, <1>5, <1>6 DEF IInv, Unregister, RegisteredPhase

LEMMA ClosedStep ==
  ASSUME IInv, NEW c \in Conns, Closed(c)
  PROVE  IInv'
<1> USE RegistryAssumption
<1>1. link' = [d \in Conns |-> IF d = c
                THEN Tidied([link[d] EXCEPT !.top = "closed", !.id = None])
                ELSE link[d]]
  BY DEF Closed, Relink
<1>2. /\ link[c] \in Links /\ LinkOK(c)
      /\ link'[c] = Tidied([link[c] EXCEPT !.top = "closed", !.id = None])
      /\ UNCHANGED <<phase, registered>>
  BY <1>1 DEF IInv, Typed, Closed
<1>3. /\ link'[c] \in Links /\ LinkOK(c)'
      /\ link'[c].bottom # "closed" => link[c].bottom # "closed"
  BY <1>2, TopClosed
<1>4. \A d \in Conns : d # c => link'[d] = link[d]
  BY <1>1
<1>5. Typed'
  <2>1. link' \in [Conns -> Links]
    BY <1>1, <1>3, <1>4 DEF IInv, Typed
  <2>2. /\ entry' \in [Ids -> Conns \cup {None}]
        /\ late' \subseteq {i \in Ids : entry'[i] # None}
    BY DEF IInv, Typed, Closed, MarkedOffline, Refreshed
  <2> QED
    BY <2>1, <2>2 DEF IInv, Typed, Closed
<1>6. EntryIsOpen'
  <2>1. \A i \in Ids : entry'[i] # None => entry'[i] = entry[i] /\ i # link[c].id
    BY DEF IInv, Typed, Closed, MarkedOffline
  <2>2. \A i \in Ids : entry'[i] # None => entry[i] \in Conns /\ entry[i] # c
    BY <2>1 DEF IInv, Typed, EntryIsOpen
  <2> QED
    BY <2>1, <2>2, <1>4, EntriesKept DEF IInv
<1>7. \A d \in Conns : LinkOK(d)'
  BY <1>2, <1>3, <1>4, LinkKept DEF IInv
<1>8. OneSocket'
  BY <1>3, <1>4, SocketsKept DEF IInv
<1> QED
  BY <1>5, <1>6, <1>7, <1>8 DEF IInv, Closed, RegisteredPhase

LEMMA OverdueStep ==
  ASSUME IInv, NEW i \in Ids, Overdue(i)
  PROVE  IInv'
<1>1. Typed'
  BY RegistryAssumption DEF IInv, Typed, Overdue, Event
<1>2. UNCHANGED <<entry, link, phase, registered>>
  BY DEF Overdue
<1>3. \A d \in Conns : LinkOK(d)'
  BY <1>2, LinkKept DEF IInv
<1> QED
  BY <1>1, <1>2, <1>3 DEF IInv, EntryIsOpen, OneSocket, RegisteredPhase

LEMMA MonitorStep ==
  ASSUME IInv, Monitor
  PROVE  IInv'
<1> USE RegistryAssumption
<1> DEFINE S == {c \in Conns : \E i \in late : entry[i] = c}
<1>1. link' = [d \in Conns |-> IF d \in S
                THEN Tidied([link[d] EXCEPT !.top = "closing"]) ELSE link[d]]
  BY DEF Monitor, Relink, Expired
<1>2. ASSUME NEW d \in Conns
      PROVE  /\ link'[d] \in Links /\ LinkOK(d)'
             /\ link'[d].bottom = link[d].bottom /\ link'[d].id = link[d].id
             /\ d \notin S => link'[d] = link[d]
  <2>1. CASE d \notin S
    BY <1>1, <2>1, LinkKept DEF IInv, Typed, Monitor
  <2>2. CASE d \in S
    <3> DEFINE l == [link[d] EXCEPT !.top = "closing"]
    <3>1. /\ l \in Links /\ l.bottom = link[d].bottom /\ l.up = link[d].up
          /\ l.down = link[d].down /\ l.id = link[d].id /\ l.top = "closing"
      BY DEF Links, Ends, IInv, Typed
    <3>2. link'[d] = Tidied(l)
      BY <1>1, <2>2
    <3> HIDE DEF l
    <3>3. link'[d] = l
      BY <3>1, <3>2 DEF Tidied
    <3> QED
      BY <3>1, <3>3, <2>2 DEF IInv, LinkOK, IdOn, Monitor
  <2> QED
    BY <2>1, <2>2
<1>3. Typed'
  <2>1. link' \in [Conns -> Links]
    BY <1>1, <1>2
  <2>2. /\ entry' \in [Ids -> Conns \cup {None}]
        /\ late' \subseteq {i \in Ids : entry'[i] # None}
    BY DEF IInv, Typed, Monitor, MarkedOffline, Refreshed, Expired
  <2> QED
    BY <2>1, <2>2 DEF IInv, Typed, Monitor
<1>4. EntryIsOpen'
  <2>1. \A i \in Ids : entry'[i] # None => entry'[i] = entry[i] /\ i \notin late
    BY DEF IInv, Typed, Monitor, MarkedOffline, Expired
  <2>2. \A i, j \in Ids : entry[i] # None /\ entry[j] = entry[i] => i = j
    BY DEF IInv, EntryIsOpen
  <2>3. \A i \in Ids : entry'[i] # None => entry[i] \in Conns /\ entry[i] \notin S
    BY <2>1, <2>2 DEF IInv, Typed
  <2> QED
    BY <2>1, <2>3, <1>2, EntriesKept DEF IInv
<1>5. OneSocket'
  BY <1>2, SocketsKept DEF IInv
<1> QED
  BY <1>2, <1>3, <1>4, <1>5 DEF IInv, Monitor, RegisteredPhase

LEMMA RegistryRestartStep ==
  ASSUME IInv, RegistryRestart
  PROVE  IInv'
<1> USE RegistryAssumption
<1>1. link' = [d \in Conns |->
                Tidied([link[d] EXCEPT !.top = "closed", !.id = None])]
  BY DEF RegistryRestart, Relink
<1>2. ASSUME NEW d \in Conns
      PROVE  /\ link'[d] \in Links /\ LinkOK(d)'
             /\ link'[d].bottom # "closed" => link[d].bottom # "closed"
  BY <1>1, TopClosed DEF IInv, Typed, RegistryRestart
<1>3. Typed'
  <2>1. link' \in [Conns -> Links]
    BY <1>1, <1>2
  <2> QED
    BY <2>1 DEF IInv, Typed, RegistryRestart, Event
<1>4. EntryIsOpen'
  BY DEF EntryIsOpen, RegistryRestart
<1>5. OneSocket'
  BY <1>2, SocketsKept DEF IInv
<1> QED
  BY <1>2, <1>3, <1>4, <1>5 DEF IInv, RegistryRestart, RegisteredPhase

-----------------------------------------------------------------------------
(* Steps of the registrar. *)

LEMMA DialStep ==
  ASSUME IInv, NEW p \in Procs, Dial(p)
  PROVE  IInv'
<1> USE RegistryAssumption
<1> DEFINE new == [NoLink EXCEPT !.top = "open", !.bottom = "open", !.up = <<"REGISTER">>]
<1>1. PICK c \in Conns : /\ c = CHOOSE x \in Conns : Dialer[x] = p /\ Free(x)
                         /\ Dialer[c] = p /\ Free(c)
  BY DEF Dial
<1>2. /\ new \in Links /\ new.top = "open" /\ new.bottom = "open" /\ new.id = None
      /\ new.up = <<"REGISTER">> /\ new.down = <<>>
  BY DEF NoLink, Links, Ends, Ups, Downs
<1>3. link' = [d \in Conns |-> IF d = c THEN Tidied(new) ELSE link[d]]
  BY <1>1 DEF Dial, Relink
<1> HIDE DEF new
<1>4. /\ link' = [d \in Conns |-> IF d = c THEN new ELSE link[d]]
      /\ link'[c] = new
  BY <1>1, <1>2, <1>3 DEF Tidied
<1>5. /\ phase[p] \in {"down", "retry"} /\ phase' = [phase EXCEPT ![p] = "dialled"]
      /\ UNCHANGED <<entry, late, registered, events>>
  BY DEF Dial
<1>6. p \notin registered
  BY <1>5 DEF IInv, RegisteredPhase
<1>7. \A d \in Conns : Dialer[d] = p => link[d].bottom = "closed"
  BY <1>5 DEF IInv, Typed, Links, Ends, LinkOK
<1>8. Typed'
  <2>1. link' \in [Conns -> Links]
    BY <1>2, <1>4 DEF IInv, Typed
  <2>2. phase' \in [Procs -> Phases]
    BY <1>5 DEF IInv, Typed, Phases
  <2> QED
    BY <2>1, <2>2, <1>5 DEF IInv, Typed
<1>9. EntryIsOpen'
  <2>1. \A i \in Ids : entry[i] # None => entry[i] \in Conns /\ entry[i] # c
    BY <1>1 DEF IInv, Typed, EntryIsOpen, Free
  <2> QED
    BY <2>1, <1>4, <1>5, EntriesKept DEF IInv
<1>10. \A d \in Conns : LinkOK(d)'
  <2>1. ASSUME NEW d \in Conns, Dialer[d] # p PROVE LinkOK(d)'
    BY <2>1, <1>1, <1>4, <1>5, LinkKept DEF IInv, Typed
  <2>2. ASSUME NEW d \in Conns, Dialer[d] = p, d # c PROVE LinkOK(d)'
    BY <2>2, <1>4, <1>7, ShutKept DEF IInv
  <2>3. phase'[Dialer[c]] = "dialled"
    BY <1>1, <1>5 DEF IInv, Typed
  <2>4. /\ link'[c].bottom = "open" /\ link'[c].id = None
        /\ link'[c].up = <<"REGISTER">> /\ link'[c].down = <<>>
        /\ Dialer[c] \notin registered'
    BY <1>1, <1>2, <1>4, <1>5, <1>6
  <2>5. LinkOK(c)'
    BY <2>3, <2>4, Distinct DEF LinkOK
  <2> QED
    BY <2>1, <2>2, <2>5
<1>11. OneSocket'
  BY <1>1, <1>4, <1>7 DEF IInv, OneSocket
<1>12. RegisteredPhase'
  BY <1>5, <1>6 DEF IInv, Typed, RegisteredPhase
<1> QED
  BY <1>8, <1>9, <1>10, <1>11, <1>12 DEF IInv

LEMMA OnAckStep ==
  ASSUME IInv, NEW c \in Conns, OnAck(c)
  PROVE  IInv'
<1> USE RegistryAssumption
<1>1. link[c].down = <<"ACK">> /\ link[c].bottom = "open"
  BY DownQueues DEF IInv, Typed, Links, OnAck, Gets
<1>2. link' = [link EXCEPT ![c] = [@ EXCEPT !.down = <<>>]]
  <2>1. link' = [d \in Conns |-> IF d = c
                  THEN Tidied([link[d] EXCEPT !.down = Tail(@)]) ELSE link[d]]
    BY DEF OnAck, Relink
  <2>2. Tidied([link[c] EXCEPT !.down = Tail(@)]) = [link[c] EXCEPT !.down = <<>>]
    BY <1>1, Frames DEF Tidied, IInv, Typed, Links
  <2> QED
    BY <2>1, <2>2 DEF IInv, Typed
<1>3. /\ link'[c].up = link[c].up /\ link'[c].top = link[c].top
      /\ link'[c].bottom = link[c].bottom /\ link'[c].down = <<>>
      /\ link'[c].id = link[c].id
  BY <1>2 DEF IInv, Typed, Links
<1>4. Typed'
  <2>1. <<>> \in Downs
    BY DEF Downs
  <2>2. link' \in [Conns -> Links]
    BY <1>2, <2>1 DEF IInv, Typed, Links
  <2> QED
    BY <2>2 DEF IInv, Typed, OnAck
<1>5. EntryIsOpen'
  BY <1>2, <1>3, EntriesKept DEF IInv, Typed, OnAck
<1>6. \A d \in Conns : LinkOK(d)'
  <2>1. ASSUME NEW d \in Conns, Dialer[d] # Dialer[c] PROVE LinkOK(d)'
    BY <2>1, <1>2, LinkKept DEF IInv, Typed, OnAck
  <2>2. ASSUME NEW d \in Conns, Dialer[d] = Dialer[c], d # c PROVE LinkOK(d)'
    <3>1. link[d].bottom = "closed" /\ link'[d] = link[d]
      BY <2>2, <1>1, <1>2 DEF IInv, Typed, OneSocket
    <3> QED
      BY <3>1, ShutKept DEF IInv
  <2>3. LinkOK(c)'
    BY <1>1, <1>3, Distinct DEF IInv, LinkOK, OnAck, IdOn
  <2> QED
    BY <2>1, <2>2, <2>3
<1>7. OneSocket'
  BY <1>2, <1>3, SocketsKept DEF IInv, Typed
<1>8. RegisteredPhase'
  BY <1>1 DEF IInv, LinkOK, RegisteredPhase, OnAck
<1> QED
  BY <1>4, <1>5, <1>6, <1>7, <1>8 DEF IInv

LEMMA OnNackStep ==
  ASSUME IInv, NEW c \in Conns, OnNack(c)
  PROVE  IInv'
<1> USE RegistryAssumption
<1>1. link[c].down = <<"NACK">> /\ link[c].bottom = "open"
  BY DownQueues DEF IInv, Typed, Links, OnNack, Gets
<1>2. link' = [link EXCEPT ![c] = [@ EXCEPT !.down = <<>>, !.bottom = "closing"]]
  <2>1. link' = [d \in Conns |-> IF d = c
                  THEN Tidied([link[d] EXCEPT !.down = Tail(@), !.bottom = "closing"])
                  ELSE link[d]]
    BY DEF OnNack, Relink
  <2>2. Tidied([link[c] EXCEPT !.down = Tail(@), !.bottom = "closing"])
          = [link[c] EXCEPT !.down = <<>>, !.bottom = "closing"]
    BY <1>1, Frames DEF Tidied, IInv, Typed, Links
  <2> QED
    BY <2>1, <2>2 DEF IInv, Typed
<1>3. /\ link'[c].up = link[c].up /\ link'[c].top = link[c].top
      /\ link'[c].bottom = "closing" /\ link'[c].down = <<>>
      /\ link'[c].id = link[c].id
  BY <1>2 DEF IInv, Typed, Links
<1>4. Dialer[c] \notin registered
  BY <1>1, Distinct DEF IInv, LinkOK
<1>5. Typed'
  <2>1. <<>> \in Downs /\ "closing" \in Ends
    BY DEF Downs, Ends
  <2>2. link' \in [Conns -> Links]
    BY <1>2, <2>1 DEF IInv, Typed, Links
  <2> QED
    BY <2>2 DEF IInv, Typed, OnNack, Phases
<1>6. EntryIsOpen'
  BY <1>2, <1>3, EntriesKept DEF IInv, Typed, OnNack
<1>7. phase'[Dialer[c]] = "rejected"
  BY DEF IInv, Typed, OnNack
<1>8. \A d \in Conns : LinkOK(d)'
  <2>1. ASSUME NEW d \in Conns, Dialer[d] # Dialer[c] PROVE LinkOK(d)'
    BY <2>1, <1>2, LinkKept DEF IInv, Typed, OnNack
  <2>2. ASSUME NEW d \in Conns, Dialer[d] = Dialer[c], d # c PROVE LinkOK(d)'
    <3>1. link[d].bottom = "closed" /\ link'[d] = link[d]
      BY <2>2, <1>1, <1>2 DEF IInv, Typed, OneSocket
    <3> QED
      BY <3>1, ShutKept DEF IInv
  <2>3. LinkOK(c)'
    BY <1>1, <1>3, <1>7, Distinct DEF IInv, LinkOK, OnNack, IdOn
  <2> QED
    BY <2>1, <2>2, <2>3
<1>9. OneSocket'
  BY <1>1, <1>2, <1>3, SocketsKept DEF IInv, Typed
<1>10. RegisteredPhase'
  BY <1>4 DEF IInv, Typed, RegisteredPhase, OnNack
<1> QED
  BY <1>5, <1>6, <1>8, <1>9, <1>10 DEF IInv

LEMMA BeatStep ==
  ASSUME IInv, NEW c \in Conns, Beat(c)
  PROVE  IInv'
<1> USE RegistryAssumption
<1>1. link' = [link EXCEPT ![c] = [@ EXCEPT !.up = <<"HEARTBEAT">>]]
  <2>1. link' = [d \in Conns |-> IF d = c
                  THEN Tidied([link[d] EXCEPT !.up = <<"HEARTBEAT">>]) ELSE link[d]]
    BY DEF Beat, Relink
  <2>2. Tidied([link[c] EXCEPT !.up = <<"HEARTBEAT">>])
          = [link[c] EXCEPT !.up = <<"HEARTBEAT">>]
    BY DEF Beat, Tidied, IInv, Typed, Links
  <2> QED
    BY <2>1, <2>2 DEF IInv, Typed
<1>2. /\ link'[c].up = <<"HEARTBEAT">> /\ link'[c].top = link[c].top
      /\ link'[c].bottom = link[c].bottom /\ link'[c].down = link[c].down
      /\ link'[c].id = link[c].id
  BY <1>1 DEF IInv, Typed, Links
<1>3. Typed'
  <2>1. <<"HEARTBEAT">> \in Ups
    BY DEF Ups
  <2>2. link' \in [Conns -> Links]
    BY <1>1, <2>1 DEF IInv, Typed, Links
  <2> QED
    BY <2>2 DEF IInv, Typed, Beat
<1>4. EntryIsOpen'
  BY <1>1, <1>2, EntriesKept DEF IInv, Typed, Beat
<1>5. \A d \in Conns : LinkOK(d)'
  <2>1. ASSUME NEW d \in Conns, d # c PROVE LinkOK(d)'
    BY <2>1, <1>1, LinkKept DEF IInv, Typed, Beat
  <2>2. LinkOK(c)'
    BY <1>2, Distinct DEF IInv, LinkOK, Beat, IdOn
  <2> QED
    BY <2>1, <2>2
<1>6. OneSocket'
  BY <1>1, <1>2, SocketsKept DEF IInv, Typed
<1> QED
  BY <1>3, <1>4, <1>5, <1>6 DEF IInv, RegisteredPhase, Beat

LEMMA LinkClosedStep ==
  ASSUME IInv, NEW c \in Conns, link[c].bottom # "closed", LinkClosed(c)
  PROVE  IInv'
<1> USE RegistryAssumption
<1>1. link' = [d \in Conns |-> IF d = c
                THEN Tidied([link[d] EXCEPT !.bottom = "closed"]) ELSE link[d]]
  BY DEF LinkClosed, Relink
<1>2. /\ link'[c] \in Links /\ LinkOK(c)' /\ link'[c].bottom = "closed"
      /\ link[c].top = "open" => link'[c].top = "open" /\ link'[c].id = link[c].id
  BY <1>1, BottomClosed DEF IInv, Typed
<1>3. \A d \in Conns : d # c => link'[d] = link[d]
  BY <1>1
<1>4. /\ registered' = registered \ {Dialer[c]}
      /\ UNCHANGED <<entry, late, events>>
      /\ \A p \in Procs : p # Dialer[c] => phase'[p] = phase[p]
      /\ phase' \in [Procs -> Phases]
  BY DEF IInv, Typed, LinkClosed, Lapsed, AfterClose, Phases
<1>5. Typed'
  <2>1. link' \in [Conns -> Links]
    BY <1>1, <1>2, <1>3 DEF IInv, Typed
  <2> QED
    BY <2>1, <1>4 DEF IInv, Typed
<1>6. EntryIsOpen'
  BY <1>2, <1>3, <1>4 DEF IInv, Typed, EntryIsOpen
<1>7. \A d \in Conns : LinkOK(d)'
  <2>1. ASSUME NEW d \in Conns, Dialer[d] # Dialer[c] PROVE LinkOK(d)'
    BY <2>1, <1>3, <1>4, LinkKept DEF IInv
  <2>2. ASSUME NEW d \in Conns, Dialer[d] = Dialer[c], d # c PROVE LinkOK(d)'
    <3>1. link[d].bottom = "closed" /\ link'[d] = link[d]
      BY <2>2, <1>3 DEF IInv, OneSocket
    <3> QED
      BY <3>1, ShutKept DEF IInv
  <2> QED
    BY <2>1, <2>2, <1>2
<1>8. OneSocket'
  BY <1>2, <1>3, SocketsKept DEF IInv
<1>9. RegisteredPhase'
  BY <1>4 DEF IInv, Typed, RegisteredPhase
<1> QED
  BY <1>5, <1>6, <1>7, <1>8, <1>9 DEF IInv

\* A registered registrar says goodbye.
LEMMA GoodbyeStep ==
  ASSUME IInv, NEW p \in Procs, Shutdown(p), p \in registered
  PROVE  IInv'
<1> USE RegistryAssumption
<1> DEFINE longer(d) == [link[d] EXCEPT !.up = Append(@, "UNREGISTER")]
<1>1. link' = [d \in Conns |-> IF d \in Mine(p) THEN Tidied(longer(d)) ELSE link[d]]
  BY DEF Shutdown, Relink
<1>2. /\ phase' = [phase EXCEPT ![p] = "leaving"] /\ phase[p] = "dialled"
      /\ events' \in 0..MaxEvents /\ UNCHANGED <<entry, late, registered>>
  BY DEF IInv, Typed, RegisteredPhase, Shutdown, Event
<1>3. ASSUME NEW d \in Mine(p)
      PROVE  /\ d \in Conns /\ Dialer[d] = p /\ link[d].bottom = "open"
             /\ link[d].up \in {<<>>, <<"HEARTBEAT">>}
  <2>1. /\ d \in Conns /\ Dialer[d] = p /\ link[d].bottom # "closed"
        /\ LinkOK(d) /\ link[d] \in Links
    BY DEF Mine, IInv, Typed
  <2>2. link[d].bottom = "open"
    BY <2>1, <1>2 DEF LinkOK, Links, Ends
  <2> QED
    BY <2>1, <2>2, <1>2 DEF LinkOK
<1>4. ASSUME NEW d \in Mine(p)
      PROVE  /\ link'[d] \in Links
             /\ link'[d].up \in {<<"UNREGISTER">>, <<"HEARTBEAT", "UNREGISTER">>}
             /\ link'[d].top = link[d].top /\ link'[d].bottom = link[d].bottom
             /\ link'[d].down = link[d].down /\ link'[d].id = link[d].id
  <2>1. /\ d \in Conns /\ link[d] \in Links /\ link[d].bottom = "open"
        /\ link[d].up \in {<<>>, <<"HEARTBEAT">>}
    BY <1>3 DEF IInv, Typed
  <2> DEFINE u == Append(link[d].up, "UNREGISTER")
  <2>2. u \in {<<"UNREGISTER">>, <<"HEARTBEAT", "UNREGISTER">>}
    BY <2>1, Frames
  <2>3. longer(d) = [link[d] EXCEPT !.up = u]
    OBVIOUS
  <2>4. u \in Ups
    BY <2>2 DEF Ups
  <2> HIDE DEF u, longer
  <2>5. /\ longer(d) \in Links /\ longer(d).up = u /\ longer(d).top = link[d].top
        /\ longer(d).bottom = link[d].bottom /\ longer(d).down = link[d].down
        /\ longer(d).id = link[d].id
    BY <2>1, <2>3, <2>4 DEF Links
  <2>6. link'[d] = longer(d)
    BY <1>1, <2>1, <2>5 DEF Tidied
  <2> QED
    BY <2>2, <2>5, <2>6
<1> HIDE DEF longer
<1>5. \A d \in Conns : d \notin Mine(p) => link'[d] = link[d]
  BY <1>1
<1>6. Typed'
  <2>1. link' \in [Conns -> Links]
    BY <1>1, <1>4, <1>5 DEF IInv, Typed
  <2>2. phase' \in [Procs -> Phases]
    BY <1>2 DEF IInv, Typed, Phases
  <2> QED
    BY <2>1, <2>2, <1>2 DEF IInv, Typed
<1>7. EntryIsOpen'
  BY <1>2, <1>4, <1>5 DEF IInv, Typed, EntryIsOpen
<1>8. \A d \in Conns : LinkOK(d)'
  <2>1. ASSUME NEW d \in Conns, d \in Mine(p) PROVE LinkOK(d)'
    <3>1. LinkOK(d) /\ Dialer[d] = p /\ link[d].bottom = "open" /\ phase'[p] = "leaving"
      BY <2>1, <1>2, <1>3 DEF IInv, Typed
    <3> QED
      BY <2>1, <3>1, <1>2, <1>4, Distinct DEF LinkOK, IdOn
  <2>2. ASSUME NEW d \in Conns, d \notin Mine(p), Dialer[d] = p PROVE LinkOK(d)'
    BY <2>2, <1>5, ShutKept DEF IInv, Mine
  <2>3. ASSUME NEW d \in Conns, Dialer[d] # p PROVE LinkOK(d)'
    BY <2>3, <1>2, <1>5, LinkKept DEF IInv, Typed, Mine
  <2> QED
    BY <2>1, <2>2, <2>3
<1>9. OneSocket'
  BY <1>4, <1>5, SocketsKept DEF IInv
<1>10. RegisteredPhase'
  BY <1>2 DEF IInv, Typed, RegisteredPhase
<1> QED
  BY <1>6, <1>7, <1>8, <1>9, <1>10 DEF IInv

\* A process destroys its socket and reconnects no more.
LEMMA StopStep ==
  ASSUME IInv, NEW p \in Procs, p \notin registered',
         registered' \subseteq registered,
         Relink(Mine(p), LAMBDA d : [link[d] EXCEPT !.bottom = "closing"]),
         phase' = [phase EXCEPT ![p] = "stopped"],
         events' \in 0..MaxEvents, UNCHANGED <<entry, late>>
  PROVE  IInv'
<1> USE RegistryAssumption
<1>1. link' = [d \in Conns |-> IF d \in Mine(p)
                THEN Tidied([link[d] EXCEPT !.bottom = "closing"]) ELSE link[d]]
  BY DEF Relink
<1>2. \A d \in Conns : d \notin Mine(p) => link'[d] = link[d]
  BY <1>1
<1>3. ASSUME NEW d \in Mine(p)
      PROVE  /\ link'[d] \in Links /\ LinkOK(d)'
             /\ link'[d].top = link[d].top /\ link'[d].id = link[d].id
             /\ link[d].bottom # "closed"
  BY <1>1, BottomClosing DEF IInv, Typed, Mine
<1>4. Typed'
  <2>1. link' \in [Conns -> Links]
    BY <1>1, <1>2, <1>3 DEF IInv, Typed
  <2>2. phase' \in [Procs -> Phases]
    BY DEF IInv, Typed, Phases
  <2> QED
    BY <2>1, <2>2 DEF IInv, Typed
<1>5. EntryIsOpen'
  BY <1>2, <1>3 DEF IInv, Typed, EntryIsOpen
<1>6. \A d \in Conns : LinkOK(d)'
  <2>1. ASSUME NEW d \in Conns, d \notin Mine(p), Dialer[d] = p PROVE LinkOK(d)'
    BY <2>1, <1>2, ShutKept DEF IInv, Mine
  <2>2. ASSUME NEW d \in Conns, Dialer[d] # p PROVE LinkOK(d)'
    BY <2>2, <1>2, LinkKept DEF IInv, Typed, Mine
  <2> QED
    BY <2>1, <2>2, <1>3
<1>7. OneSocket'
  BY <1>2, <1>3, SocketsKept DEF IInv
<1>8. RegisteredPhase'
  BY DEF IInv, Typed, RegisteredPhase
<1> QED
  BY <1>4, <1>5, <1>6, <1>7, <1>8 DEF IInv

LEMMA ShutdownStep ==
  ASSUME IInv, NEW p \in Procs, Shutdown(p)
  PROVE  IInv'
<1>1. events' \in 0..MaxEvents
  BY RegistryAssumption DEF IInv, Typed, Shutdown, Event
<1>2. CASE p \in registered
  BY <1>2, GoodbyeStep
<1>3. CASE p \notin registered
  BY <1>1, <1>3, StopStep DEF Shutdown
<1> QED
  BY <1>2, <1>3

LEMMA ShutdownDoneStep ==
  ASSUME IInv, NEW p \in Procs, ShutdownDone(p)
  PROVE  IInv'
<1>1. p \notin registered' /\ registered' \subseteq registered
  BY DEF ShutdownDone, Lapsed
<1> QED
  BY <1>1, StopStep DEF ShutdownDone, IInv, Typed

LEMMA CrashStep ==
  ASSUME IInv, NEW p \in Procs, Crash(p)
  PROVE  IInv'
<1> USE RegistryAssumption
<1>1. link' = [d \in Conns |-> IF d \in Mine(p)
                THEN Tidied([link[d] EXCEPT !.bottom = "closed"]) ELSE link[d]]
  BY DEF Crash, Relink
<1>2. \A d \in Conns : d \notin Mine(p) => link'[d] = link[d]
  BY <1>1
<1>3. ASSUME NEW d \in Mine(p)
      PROVE  /\ link'[d] \in Links /\ LinkOK(d)' /\ link'[d].bottom = "closed"
             /\ link[d].top = "open" => link'[d].top = "open" /\ link'[d].id = link[d].id
  BY <1>1, BottomClosed DEF IInv, Typed, Mine
<1>4. /\ phase' = [phase EXCEPT ![p] = "down"] /\ registered' = registered \ {p}
      /\ events' \in 0..MaxEvents /\ UNCHANGED <<entry, late>>
  BY DEF IInv, Typed, Crash, Event, Lapsed
<1>5. Typed'
  <2>1. link' \in [Conns -> Links]
    BY <1>1, <1>2, <1>3 DEF IInv, Typed
  <2>2. phase' \in [Procs -> Phases]
    BY <1>4 DEF IInv, Typed, Phases
  <2> QED
    BY <2>1, <2>2, <1>4 DEF IInv, Typed
<1>6. EntryIsOpen'
  BY <1>2, <1>3, <1>4 DEF IInv, Typed, EntryIsOpen
<1>7. \A d \in Conns : LinkOK(d)'
  <2>1. ASSUME NEW d \in Conns, d \notin Mine(p), Dialer[d] = p PROVE LinkOK(d)'
    BY <2>1, <1>2, ShutKept DEF IInv, Mine
  <2>2. ASSUME NEW d \in Conns, Dialer[d] # p PROVE LinkOK(d)'
    BY <2>2, <1>2, <1>4, LinkKept DEF IInv, Typed, Mine
  <2> QED
    BY <2>1, <2>2, <1>3
<1>8. OneSocket'
  BY <1>2, <1>3, SocketsKept DEF IInv
<1>9. RegisteredPhase'
  BY <1>4 DEF IInv, Typed, RegisteredPhase
<1> QED
  BY <1>5, <1>6, <1>7, <1>8, <1>9 DEF IInv

LEMMA CutStep ==
  ASSUME IInv, NEW c \in Conns, Cut(c)
  PROVE  IInv'
<1>1. ASSUME NEW d \in Conns
      PROVE  /\ link'[d] \in Links
             /\ link'[d].up = link[d].up /\ link'[d].top = link[d].top
             /\ link'[d].bottom = link[d].bottom /\ link'[d].down = link[d].down
             /\ link'[d].id = link[d].id
  BY DEF IInv, Typed, Links, Cut
<1>2. UNCHANGED <<entry, late, phase, registered>>
  BY DEF Cut
<1>3. Typed'
  <2>1. link' \in [Conns -> Links]
    BY <1>1 DEF IInv, Typed, Cut
  <2> QED
    BY <2>1, RegistryAssumption DEF IInv, Typed, Cut, Event
<1>4. EntryIsOpen'
  BY <1>1, <1>2, RegistryAssumption DEF IInv, Typed, EntryIsOpen
<1>5. \A d \in Conns : LinkOK(d)'
  BY <1>1, <1>2 DEF IInv, LinkOK, IdOn
<1>6. OneSocket'
  BY <1>1, SocketsKept DEF IInv
<1> QED
  BY <1>2, <1>3, <1>4, <1>5, <1>6 DEF IInv, RegisteredPhase

-----------------------------------------------------------------------------
(* The invariant. *)

LEMMA InitEstablishes == Init => IInv
<1> SUFFICES ASSUME Init PROVE IInv
  OBVIOUS
<1>1. NoLink \in Links
  BY DEF NoLink, Links, Ends, Ups, Downs
<1>2. Typed
  BY <1>1, RegistryAssumption DEF Init, Typed, Phases
<1>3. \A c \in Conns : LinkOK(c)
  BY Distinct DEF Init, NoLink, LinkOK
<1> QED
  BY <1>2, <1>3, RegistryAssumption
     DEF Init, IInv, EntryIsOpen, OneSocket, RegisteredPhase, NoLink

LEMMA NextPreserves == IInv /\ [Next]_vars => IInv'
<1> SUFFICES ASSUME IInv, [Next]_vars PROVE IInv'
  OBVIOUS
<1>1. ASSUME NEW c \in Conns, Accept(c) \/ Reject(c) \/ Heartbeat(c)
                               \/ Unregister(c) \/ Closed(c)
      PROVE  IInv'
  BY <1>1, AcceptStep, RejectStep, HeartbeatStep, UnregisterStep, ClosedStep
<1>2. ASSUME NEW i \in Ids, Overdue(i) PROVE IInv'
  BY <1>2, OverdueStep
<1>3. CASE Monitor \/ RegistryRestart
  BY <1>3, MonitorStep, RegistryRestartStep
<1>4. ASSUME NEW p \in Procs, Dial(p) \/ Shutdown(p) \/ ShutdownDone(p) \/ Crash(p)
      PROVE  IInv'
  BY <1>4, DialStep, ShutdownStep, ShutdownDoneStep, CrashStep
<1>5. ASSUME NEW c \in Conns, OnAck(c) \/ OnNack(c) \/ Beat(c)
      PROVE  IInv'
  BY <1>5, OnAckStep, OnNackStep, BeatStep
<1>6. ASSUME NEW c \in Conns, HangUp(c) \/ GiveUp(c) \/ Notice(c)
      PROVE  IInv'
  BY <1>6, LinkClosedStep DEF HangUp, GiveUp, Notice
<1>7. ASSUME NEW c \in Conns, Cut(c) PROVE IInv'
  BY <1>7, CutStep
<1>8. CASE UNCHANGED vars
  BY <1>8 DEF vars, IInv, Typed, EntryIsOpen, LinkOK, IdOn, OneSocket, RegisteredPhase
<1> QED
  BY <1>1, <1>2, <1>3, <1>4, <1>5, <1>6, <1>7, <1>8
     DEF Next, RegistryNext, RegistrarNext

LEMMA Invariant == Spec => []IInv
BY InitEstablishes, NextPreserves, PTL DEF Spec

\* The types say less than Typed: any frames may be in flight.
LEMMA TypedImplies == Typed => TypeOK
<1>1. Ups \subseteq Seq(Requests)
  BY DEF Ups, Requests
<1>2. Downs \subseteq Seq(Answers)
  BY DEF Downs, Answers
<1>3. Links \subseteq Link
  BY <1>1, <1>2 DEF Links, Link
<1> QED
  BY <1>3 DEF Typed, TypeOK

-----------------------------------------------------------------------------
(* Theorems. *)

\* Every variable keeps to its type, for any processes, ids and connections.
THEOREM TypeCorrect == Spec => []TypeOK
<1>1. IInv => TypeOK
  BY TypedImplies DEF IInv
<1> QED
  BY <1>1, Invariant, PTL

\* An online entry always belongs to a connection the registry holds open and has
\* mapped to that id.
THEOREM EntriesAreOpen == Spec => []EntryIsOpen
<1>1. IInv => EntryIsOpen
  BY DEF IInv
<1> QED
  BY <1>1, Invariant, PTL

\* A registrar that reports itself registered was accepted on the connection it
\* holds.
THEOREM RegistrationsAreAccepted == Spec => []RegisteredWasAccepted
<1>1. IInv => RegisteredWasAccepted
  BY DEF IInv, LinkOK, RegisteredWasAccepted
<1> QED
  BY <1>1, Invariant, PTL

\* No step puts another connection in the place of an online one.
THEOREM NoDisplacement == Spec => NoTakeover
<1>1. ASSUME IInv, [Next]_vars, NEW i \in Ids, entry[i] # None, entry'[i] # None
      PROVE  entry'[i] = entry[i]
  <2> USE <1>1, RegistryAssumption DEF IInv, Typed
  <2>1. ASSUME NEW c \in Conns, Accept(c) PROVE entry'[i] = entry[i]
    BY <2>1 DEF Accept, Duplicate
  <2>2. ASSUME NEW S, entry' = MarkedOffline(S) PROVE entry'[i] = entry[i]
    BY <2>2 DEF MarkedOffline
  <2>3. ASSUME NEW c \in Conns, Unregister(c) \/ Closed(c) PROVE entry'[i] = entry[i]
    BY <2>2, <2>3 DEF Unregister, Closed
  <2>4. CASE Monitor
    BY <2>2, <2>4 DEF Monitor
  <2>5. CASE RegistryRestart
    BY <2>5 DEF RegistryRestart
  <2>6. CASE UNCHANGED entry
    BY <2>6
  <2>7. ASSUME NEW c \in Conns, Reject(c) \/ Heartbeat(c) \/ Cut(c) \/ OnAck(c)
                 \/ OnNack(c) \/ Beat(c) \/ HangUp(c) \/ GiveUp(c) \/ Notice(c)
        PROVE  UNCHANGED entry
    BY <2>7 DEF Reject, Heartbeat, Cut, OnAck, OnNack, Beat, HangUp, GiveUp, Notice,
                LinkClosed
  <2>8. ASSUME NEW p \in Procs, Dial(p) \/ Shutdown(p) \/ ShutdownDone(p) \/ Crash(p)
        PROVE  UNCHANGED entry
    BY <2>8 DEF Dial, Shutdown, ShutdownDone, Crash
  <2>9. ASSUME NEW j \in Ids, Overdue(j) PROVE UNCHANGED entry
    BY <2>9 DEF Overdue
  <2>10. UNCHANGED vars => UNCHANGED entry
    BY DEF vars
  <2> QED
    BY <2>1, <2>3, <2>4, <2>5, <2>6, <2>7, <2>8, <2>9, <2>10
       DEF Next, RegistryNext, RegistrarNext
<1>2. IInv /\ [Next]_vars
        => [\A i \in Ids : entry[i] # None /\ entry'[i] # None
                           => entry'[i] = entry[i]]_vars
  BY <1>1
<1> QED
  BY <1>2, Invariant, PTL DEF Spec, NoTakeover
=============================================================================
