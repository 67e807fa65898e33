--------------------------- MODULE ServiceSocket ---------------------------
(***************************************************************************)
(* How the processes of the remote service take over from each other       *)
(* (remote_agent_service.py:148-184, 463-484): the lock file, the socket a *)
(* dead service has left, and the end of a service, which gives up socket  *)
(* and lock while the next one is being started.                           *)
(***************************************************************************)
EXTENDS Naturals

CONSTANTS
  Services,        \* processes; one that has ended may be started again
  Nobody           \* no process

ASSUME ServiceAssumption == Nobody \notin Services

VARIABLES
  at,              \* where a process is in run()
  lock,            \* who holds the lock on the lock file
  socket,          \* whose socket the path of the socket leads to
  listening        \* the processes that accept connections

vars == <<at, lock, socket, listening>>

TypeOK ==
  /\ at \in [Services -> {"off", "locking", "probing", "binding", "serving", "stopping", "unlocking"}]
  /\ lock \in Services \union {Nobody}
  /\ socket \in Services \union {Nobody}
  /\ listening \subseteq {p \in Services : at[p] = "serving"}

Init ==
  /\ at = [p \in Services |-> "off"]
  /\ lock = Nobody /\ socket = Nobody /\ listening = {}

Goes(p, place) == at' = [at EXCEPT ![p] = place]

Start(p) ==
  /\ at[p] = "off"
  /\ Goes(p, "locking")
  /\ UNCHANGED <<lock, socket, listening>>

\* flock without waiting; a process that does not get the lock ends.
MayLock(p) == lock = Nobody

AcquireLock(p) ==
  /\ at[p] = "locking"
  /\ IF MayLock(p) THEN lock' = p /\ Goes(p, "probing")
                   ELSE lock' = lock /\ Goes(p, "off")
  /\ UNCHANGED <<socket, listening>>

Released(p) == IF lock = p THEN Nobody ELSE lock

\* A connection is tried: a socket that refuses it is removed, an active one is an error.
ProbeSocket(p) ==
  /\ at[p] = "probing"
  /\ IF socket \in listening
     THEN lock' = Released(p) /\ Goes(p, "off") /\ UNCHANGED socket
     ELSE socket' = Nobody /\ Goes(p, "binding") /\ UNCHANGED lock
  /\ UNCHANGED listening

Bind(p) ==
  /\ at[p] = "binding"
  /\ socket' = p
  /\ listening' = listening \union {p}
  /\ Goes(p, "serving")
  /\ UNCHANGED lock

Closed(p) == listening \ {p}

\* Mutant: the lock is given up before the socket is removed.
HeldWhileStopping_Not(p) == Released(p)
HeldWhileStopping(p) == lock

\* The process is interrupted: serve_forever closes the listener (and removes its socket,
\* in the later versions of asyncio), then the agents are shut down.
Interrupt(p) ==
  /\ at[p] = "serving"
  /\ listening' = Closed(p)
  /\ \/ UNCHANGED socket
     \/ socket = p /\ socket' = Nobody
  /\ Goes(p, "stopping")
  /\ lock' = HeldWhileStopping(p)

\* Whoever's socket lies at the path is removed.
RemoveSocket(p) ==
  /\ at[p] = "stopping"
  /\ socket' = Nobody
  /\ Goes(p, "unlocking")
  /\ UNCHANGED <<lock, listening>>

ReleaseLock(p) ==
  /\ at[p] = "unlocking"
  /\ lock' = Released(p)
  /\ Goes(p, "off")
  /\ UNCHANGED <<socket, listening>>

\* A process dies; the kernel closes its lock and its listener, the path stays.
Crash(p) ==
  /\ at[p] # "off"
  /\ Goes(p, "off")
  /\ lock' = Released(p)
  /\ listening' = listening \ {p}
  /\ UNCHANGED socket

Next == \E p \in Services :
  \/ Start(p) \/ AcquireLock(p) \/ ProbeSocket(p) \/ Bind(p)
  \/ Interrupt(p) \/ RemoveSocket(p) \/ ReleaseLock(p) \/ Crash(p)

Spec == Init /\ [][Next]_vars

(***************************************************************************)
(* Properties.                                                             *)
(***************************************************************************)
\* remote_agent_service.py:149 "Lock service ownership": two processes never serve at a
\* time, also when the lock file outlives its holder or two are started together.
OneService == \A p, q \in Services : at[p] = "serving" /\ at[q] = "serving" => p = q

\* remote_agent_service.py:149 "remove only a stale Unix socket": a service that serves can
\* be reached; neither its successor's start nor its predecessor's end removes its socket.
ServingIsReachable == \A p \in Services : at[p] = "serving" => socket = p
=============================================================================
