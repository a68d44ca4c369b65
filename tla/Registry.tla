------------------------------ MODULE Registry ------------------------------
(***************************************************************************)
(* The registration of servers with the server above them: world servers   *)
(* (ClusterRegistrar) with the cluster server (WorldRegistry).  Cluster    *)
(* servers register with the login server through the same code with other *)
(* payloads (LoginRegistrar, ClusterRegistry).                             *)
(*                                                                         *)
(* A registrar dials the registry, sends REGISTER, beats once acknowledged *)
(* and dials again when its connection closes.  The registry keeps one     *)
(* entry per server id and takes it off when its connection closes, when   *)
(* it unregisters, or when no heartbeat has come for too long.             *)
(*                                                                         *)
(* Connections are TCP: each end has its own view, frames keep their       *)
(* order, a link may drop silently, and a close may reset the connection   *)
(* and lose what was not read.                                             *)
(***************************************************************************)
EXTENDS Naturals, Sequences, FiniteSets

CONSTANTS
  Procs,      \* processes with a registrar
  Ids,        \* server ids
  IdOf,       \* the id a process is configured with; two may share one by mistake
  Admitted,   \* processes whose id is in allowedWorlds and whose token verifies
  Conns,      \* names of connections, used again once both ends have closed
  Dialer,     \* the process whose connections have that name
  None,
  MaxEvents   \* bound: crashes, cuts, stalls and shutdowns in a behaviour

ASSUME RegistryAssumption ==
  /\ IdOf \in [Procs -> Ids]
  /\ Dialer \in [Conns -> Procs]
  /\ Admitted \subseteq Procs
  /\ None \notin Conns \cup Ids \cup Procs
  /\ MaxEvents \in Nat

VARIABLES
  entry,       \* #worlds: the connection of an id's online entry, or None
  late,        \* ids whose entry's last heartbeat is older than the timeout
  link,        \* the connections: see Link
  phase,       \* where a registrar is: see Phases
  registered,  \* processes whose registrar has #registered
  events       \* crashes, cuts, stalls and shutdowns so far

vars == <<entry, late, link, phase, registered, events>>

\* closing: destroy() has been called, the 'close' event is still to come.
Ends     == {"open", "closing", "closed"}
Requests == {"REGISTER", "HEARTBEAT", "UNREGISTER"}
Answers  == {"ACK", "NACK"}   \* heartbeat ACKs change nothing and are left out

Link == [top    : Ends,                \* the registry's end
         bottom : Ends,                \* the registrar's end
         up     : Seq(Requests),       \* sent to the registry, not read yet
         down   : Seq(Answers),        \* sent to the registrar, not read yet
         cut    : BOOLEAN,             \* silently dropped
         id     : Ids \cup {None}]     \* #socketMap (and registeredServerId)

NoLink == [top |-> "closed", bottom |-> "closed", up |-> <<>>, down |-> <<>>,
           cut |-> FALSE, id |-> None]

\* retry: the reconnect timer is armed; leaving: shutdown() gives its UNREGISTER
\* 100 ms; rejected, stopped: #destroyed, by a refusal or by shutdown().
Phases == {"down", "dialled", "retry", "leaving", "rejected", "stopped"}

TypeOK ==
  /\ entry \in [Ids -> Conns \cup {None}]
  /\ late \subseteq {i \in Ids : entry[i] # None}
  /\ link \in [Conns -> Link]
  /\ phase \in [Procs -> Phases]
  /\ registered \subseteq Procs
  /\ events \in 0..MaxEvents

Init ==
  /\ entry = [i \in Ids |-> None]
  /\ late = {}
  /\ link = [c \in Conns |-> NoLink]
  /\ phase = [p \in Procs |-> "down"]
  /\ registered = {}
  /\ events = 0

-----------------------------------------------------------------------------
(* Connections. *)

Free(c) == link[c].top = "closed" /\ link[c].bottom = "closed"

\* Every frame on a connection carries the id of the process that opened it.
IdOn(c) == IdOf[Dialer[c]]

\* A connection closed at both ends is forgotten.
Tidied(l) == IF l.top = "closed" /\ l.bottom = "closed" THEN NoLink ELSE l

\* The connections of set S become new(c), the others stay.
Relink(S, new(_)) ==
  link' = [c \in Conns |-> IF c \in S THEN Tidied(new(c)) ELSE link[c]]

\* The next frame the registry, or the registrar, reads on c is op.
Reads(c, op) ==
  /\ link[c].top = "open" /\ ~link[c].cut
  /\ link[c].up # <<>> /\ Head(link[c].up) = op
Gets(c, op) ==
  /\ link[c].bottom = "open" /\ ~link[c].cut
  /\ link[c].down # <<>> /\ Head(link[c].down) = op

\* An end learns that the other has closed once it has read what was sent before,
\* or at once if frames of its own were left unread (a reset).
SeesClose(other, unread, own) == other # "open" /\ (unread = <<>> \/ own # <<>>)

\* No frame can come up c any more.
Dead(c) == link[c].cut \/ link[c].bottom # "open"

\* One more crash, cut, stall or shutdown.
Event == events < MaxEvents /\ events' = events + 1

-----------------------------------------------------------------------------
(* The registry: WorldRegistry. *)

\* markOffline goes by id, whatever connection the entry is for.
MarkedOffline(S) == [i \in Ids |-> IF i \in S THEN None ELSE entry[i]]

\* lastHeartbeatMs is set anew, or goes with the entry.
Refreshed(S) == late \ S

\* variant of Duplicate: a newcomer replaces whoever is there.
DuplicateNever(i) == FALSE

\* The duplicate check: an online entry is in the way.
Duplicate(i) == entry[i] # None

\* A registration is accepted: entry, socketMap and the answer.
Accept(c) ==
  /\ Reads(c, "REGISTER")
  /\ Dialer[c] \in Admitted /\ ~Duplicate(IdOn(c))
  /\ entry' = [entry EXCEPT ![IdOn(c)] = c]
  /\ late' = Refreshed({IdOn(c)})
  /\ Relink({c}, LAMBDA d : [link[d] EXCEPT
       !.up = Tail(@), !.down = Append(@, "ACK"), !.id = IdOn(c)])
  /\ UNCHANGED <<phase, registered, events>>

\* reject: the refusal is written and the socket destroyed.
Reject(c) ==
  /\ Reads(c, "REGISTER")
  /\ Dialer[c] \notin Admitted \/ Duplicate(IdOn(c))
  /\ Relink({c}, LAMBDA d : [link[d] EXCEPT
       !.up = Tail(@), !.down = Append(@, "NACK"), !.top = "closing"])
  /\ UNCHANGED <<entry, late, phase, registered, events>>

\* The entry is looked up by id; without one the heartbeat is ignored.
Heartbeat(c) ==
  /\ Reads(c, "HEARTBEAT")
  /\ late' = Refreshed({IdOn(c)})
  /\ Relink({c}, LAMBDA d : [link[d] EXCEPT !.up = Tail(@)])
  /\ UNCHANGED <<entry, phase, registered, events>>

Unregister(c) ==
  /\ Reads(c, "UNREGISTER")
  /\ entry' = MarkedOffline({IdOn(c)})
  /\ late' = Refreshed({IdOn(c)})
  /\ Relink({c}, LAMBDA d : [link[d] EXCEPT
       !.up = Tail(@), !.id = None, !.top = "closing"])
  /\ UNCHANGED <<phase, registered, events>>

\* The 'close' event: after destroy(), after the other end has closed, or when
\* TCP gives a silent link up.
Closed(c) ==
  /\ \/ link[c].top = "closing"
     \/ /\ link[c].top = "open"
        /\ link[c].cut \/ SeesClose(link[c].bottom, link[c].up, link[c].down)
  /\ entry' = MarkedOffline({link[c].id})
  /\ late' = Refreshed({link[c].id})
  /\ Relink({c}, LAMBDA d : [link[d] EXCEPT !.top = "closed", !.id = None])
  /\ UNCHANGED <<phase, registered, events>>

\* Too long without a heartbeat: because none can come, or because a stall of one
\* of the two processes held them up.
Overdue(i) ==
  /\ entry[i] # None /\ i \notin late
  /\ \/ Dead(entry[i]) /\ UNCHANGED events
     \/ Event
  /\ late' = late \cup {i}
  /\ UNCHANGED <<entry, link, phase, registered>>

\* variant of Expired: the comparison never holds.
ExpiredNever == {}

\* What the timeout monitor finds expired.
Expired == late

\* A tick of the monitor destroys the sockets and marks offline at once; the
\* 'close' events of those sockets come later.
Monitor ==
  /\ Expired # {}
  /\ entry' = MarkedOffline(Expired)
  /\ late' = Refreshed(Expired)
  /\ Relink({c \in Conns : \E i \in Expired : entry[i] = c},
            LAMBDA d : [link[d] EXCEPT !.top = "closing"])
  /\ UNCHANGED <<phase, registered, events>>

\* The registry's process restarts: an empty map, every connection reset.
RegistryRestart ==
  /\ Event
  /\ entry' = [i \in Ids |-> None]
  /\ late' = {}
  /\ Relink(Conns, LAMBDA d : [link[d] EXCEPT !.top = "closed", !.id = None])
  /\ UNCHANGED <<phase, registered>>

-----------------------------------------------------------------------------
(* The registrar: ClusterRegistrar. *)

\* start() and the reconnect timer: a connection, and REGISTER on it.  While the
\* registry is down the attempt fails and the timer is armed again: no change.
Dial(p) ==
  /\ phase[p] \in {"down", "retry"}
  /\ \E c \in Conns : Dialer[c] = p /\ Free(c)
  /\ Relink({CHOOSE c \in Conns : Dialer[c] = p /\ Free(c)},
            LAMBDA d : [NoLink EXCEPT
              !.top = "open", !.bottom = "open", !.up = <<"REGISTER">>])
  /\ phase' = [phase EXCEPT ![p] = "dialled"]
  /\ UNCHANGED <<entry, late, registered, events>>

\* onRegisterAck, accepted: the heartbeat interval starts.
OnAck(c) ==
  /\ Gets(c, "ACK")
  /\ registered' = registered \cup {Dialer[c]}
  /\ Relink({c}, LAMBDA d : [link[d] EXCEPT !.down = Tail(@)])
  /\ UNCHANGED <<entry, late, phase, events>>

\* onRegisterAck, refused: #destroyed, "will not reconnect".
OnNack(c) ==
  /\ Gets(c, "NACK")
  /\ phase' = [phase EXCEPT ![Dialer[c]] = "rejected"]
  /\ Relink({c}, LAMBDA d : [link[d] EXCEPT !.down = Tail(@), !.bottom = "closing"])
  /\ UNCHANGED <<entry, late, registered, events>>

\* The heartbeat interval.  At most one heartbeat is in flight: more add nothing.
Beat(c) ==
  /\ link[c].bottom = "open" /\ link[c].up = <<>>
  /\ Dialer[c] \in registered /\ phase[Dialer[c]] = "dialled"
  /\ Relink({c}, LAMBDA d : [link[d] EXCEPT !.up = <<"HEARTBEAT">>])
  /\ UNCHANGED <<entry, late, phase, registered, events>>

\* variant of AfterClose: the loss is noted and no timer armed.
AfterCloseIdle(ph) == ph

\* The 'close' handler arms the reconnect timer, unless #destroyed.
AfterClose(ph) == IF ph = "dialled" THEN "retry" ELSE ph

\* #registered of a process is taken back.
Lapsed(p) == registered \ {p}

LinkClosed(c) ==
  /\ registered' = Lapsed(Dialer[c])
  /\ phase' = [phase EXCEPT ![Dialer[c]] = AfterClose(@)]
  /\ Relink({c}, LAMBDA d : [link[d] EXCEPT !.bottom = "closed"])
  /\ UNCHANGED <<entry, late, events>>

\* The 'close' event: after destroy(), and after the other end has closed.
HangUp(c) ==
  /\ \/ link[c].bottom = "closing"
     \/ /\ link[c].bottom = "open" /\ ~link[c].cut
        /\ SeesClose(link[c].top, link[c].down, link[c].up)
  /\ LinkClosed(c)

\* TCP gives a silent link up when what was sent over it stays unacknowledged.
GiveUp(c) ==
  /\ link[c].bottom = "open" /\ link[c].cut /\ link[c].up # <<>>
  /\ LinkClosed(c)

\* With nothing sent the host may still notice (its interface goes down).
Notice(c) ==
  /\ link[c].bottom = "open" /\ link[c].cut /\ link[c].up = <<>>
  /\ LinkClosed(c)

\* A process' own connection, while its end is not closed.
Mine(p) == {c \in Conns : Dialer[c] = p /\ link[c].bottom # "closed"}

\* shutdown(): a registered registrar sends UNREGISTER and waits 100 ms, any other
\* destroys its socket at once.
Shutdown(p) ==
  /\ phase[p] \in {"dialled", "retry"}
  /\ Event
  /\ \/ /\ p \in registered
        /\ phase' = [phase EXCEPT ![p] = "leaving"]
        /\ Relink(Mine(p), LAMBDA d : [link[d] EXCEPT !.up = Append(@, "UNREGISTER")])
        /\ UNCHANGED registered
     \/ /\ p \notin registered
        /\ phase' = [phase EXCEPT ![p] = "stopped"]
        /\ Relink(Mine(p), LAMBDA d : [link[d] EXCEPT !.bottom = "closing"])
        /\ UNCHANGED registered
  /\ UNCHANGED <<entry, late>>

\* The 100 ms are over.
ShutdownDone(p) ==
  /\ phase[p] = "leaving"
  /\ phase' = [phase EXCEPT ![p] = "stopped"]
  /\ registered' = Lapsed(p)
  /\ Relink(Mine(p), LAMBDA d : [link[d] EXCEPT !.bottom = "closing"])
  /\ UNCHANGED <<entry, late, events>>

\* The process dies; its operating system closes the connection.
Crash(p) ==
  /\ phase[p] # "down"
  /\ Event
  /\ phase' = [phase EXCEPT ![p] = "down"]
  /\ registered' = Lapsed(p)
  /\ Relink(Mine(p), LAMBDA d : [link[d] EXCEPT !.bottom = "closed"])
  /\ UNCHANGED <<entry, late>>

-----------------------------------------------------------------------------

\* A link drops silently: nothing, not even a close, gets through any more.
Cut(c) ==
  /\ ~Free(c) /\ ~link[c].cut
  /\ Event
  /\ link' = [link EXCEPT ![c].cut = TRUE]
  /\ UNCHANGED <<entry, late, phase, registered>>

RegistryNext ==
  \/ \E c \in Conns : \/ Accept(c) \/ Reject(c) \/ Heartbeat(c)
                      \/ Unregister(c) \/ Closed(c)
  \/ \E i \in Ids : Overdue(i)
  \/ Monitor
  \/ RegistryRestart

RegistrarNext ==
  \/ \E p \in Procs : Dial(p) \/ Shutdown(p) \/ ShutdownDone(p) \/ Crash(p)
  \/ \E c \in Conns : \/ OnAck(c) \/ OnNack(c) \/ Beat(c)
                      \/ HangUp(c) \/ GiveUp(c) \/ Notice(c)

Next == RegistryNext \/ RegistrarNext \/ \E c \in Conns : Cut(c)

\* What an event loop is called for on connection c: a frame, or a 'close' that is
\* due.  On a silent link it is due to an end with unacknowledged data only.
RegistryDue(c) ==
  \/ Accept(c) \/ Reject(c) \/ Heartbeat(c) \/ Unregister(c)
  \/ (link[c].top = "closing" \/ ~link[c].cut) /\ Closed(c)
RegistrarDue(c) == OnAck(c) \/ OnNack(c) \/ HangUp(c) \/ GiveUp(c)

\* Event loops run, TCP delivers, intervals and timeouts fire and time passes.
\* Nothing makes an operator start a process.
Fairness ==
  /\ \A c \in Conns :
       WF_vars(RegistryDue(c)) /\ WF_vars(RegistrarDue(c)) /\ WF_vars(Beat(c))
  /\ \A i \in Ids : WF_vars(Overdue(i) /\ Dead(entry[i]))
  /\ WF_vars(Monitor)
  /\ \A p \in Procs : WF_vars((phase[p] = "retry" /\ Dial(p)) \/ ShutdownDone(p))

Spec == Init /\ [][Next]_vars /\ Fairness

-----------------------------------------------------------------------------
(* Properties. *)

\* An online entry belongs to a connection the registry holds open and has mapped
\* to that id: the world list offers no server whose socket is gone.
EntryIsOpen ==
  \A i \in Ids : entry[i] # None =>
    link[entry[i]].top = "open" /\ link[entry[i]].id = i

\* A registrar that reports itself registered was accepted on the very connection
\* it holds: while the registry's end is open, socketMap has its id.
RegisteredWasAccepted ==
  \A c \in Conns :
    /\ link[c].bottom = "open" /\ link[c].top = "open"
    /\ Dialer[c] \in registered
    => link[c].id = IdOn(c)

\* An online server is never displaced by another connection with its id: the
\* entry goes offline first.
NoTakeover ==
  [][\A i \in Ids : entry[i] # None /\ entry'[i] # None => entry'[i] = entry[i]]_vars

\* An id none of whose connections can bring a heartbeat any more does not stay
\* listed.
Ghost(i) == entry[i] # None /\ \A c \in Conns :
              c = entry[i] \/ link[c].id = i => Dead(c)
GhostsExpire == \A i \in Ids : Ghost(i) ~> ~Ghost(i)

\* A registrar at work: neither shut down nor, after a refusal, #destroyed.
Running(p) == phase[p] \in {"dialled", "retry"}

\* REGISTER was acknowledged by TCP and nothing else will come over a silent link:
\* nobody owes the registrar a close, and no timer of its own covers the wait.
Unanswered(p) ==
  p \notin registered /\ phase[p] = "dialled"
    /\ \E c \in Mine(p) : link[c].cut /\ link[c].up = <<>>

\* Whatever links drop, resets or late closes it meets, a registrar that goes on
\* running ends up registered in its own eyes (isRegistered): it dials again after
\* every close (#scheduleReconnect), and none is kept dialling by a process that
\* shares its id.  The property is about runs in which the registrar is not destroyed
\* by a refusal and not left unanswered; of the others, where "auto-reconnects" fails,
\* it claims nothing.  Nor does it say that the registry lists the server: the late
\* close of an older connection takes the id off the list and nobody tells.
Reconnects ==
  \A p \in Procs :
    <>[](Running(p) /\ ~Unanswered(p)) => <>[](p \in registered)

=============================================================================
