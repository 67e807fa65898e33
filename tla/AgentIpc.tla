------------------------------ MODULE AgentIpc ------------------------------
(***************************************************************************)
(* The JSON-RPC connection between the controller and one agent's worker   *)
(* (agent_ipc.py): AgentControlServer serves one connection at a time and  *)
(* one request after the other; AgentWorkerClient numbers its requests,    *)
(* waits for each answer and closes the connection when it waits in vain.  *)
(* Peers are the processes of the sandbox that connect to the socket.      *)
(* Requests are known by their number; both ends may close at any time.    *)
(***************************************************************************)
EXTENDS Naturals, Sequences

CONSTANTS
  Peers,        \* processes that connect
  None,         \* no connection
  MaxRequests   \* bound: requests of a peer

ASSUME IpcAssumption == None \notin Peers /\ MaxRequests \in Nat

VARIABLES
  client,    \* the client's end: "new", "open", "closed"
  server,    \* the server's end: "none", "accepted", "served", "shut" (writer closed), "closed"
  connected, \* the server's _connected
  writer,    \* the server's _connection_writer
  closing,   \* stop has begun: _closing, the listener is closed
  number,    \* the client's _request_id
  waiting,   \* the client waits for the answer to that request
  requests,  \* on the way to the server
  answers,   \* on the way to the client
  handling   \* request whose handler runs, 0 for none

vars == <<client, server, connected, writer, closing, number, waiting, requests, answers, handling>>

Numbers == 1 .. MaxRequests

TypeOK ==
  /\ client \in [Peers -> {"new", "open", "closed"}]
  /\ server \in [Peers -> {"none", "accepted", "served", "shut", "closed"}]
  /\ connected \in BOOLEAN /\ writer \in Peers \cup {None} /\ closing \in BOOLEAN
  /\ number \in [Peers -> 0 .. MaxRequests] /\ waiting \in [Peers -> BOOLEAN]
  /\ requests \in [Peers -> Seq(Numbers)] /\ answers \in [Peers -> Seq(Numbers)]
  /\ handling \in [Peers -> 0 .. MaxRequests]

Init ==
  /\ client = [p \in Peers |-> "new"] /\ server = [p \in Peers |-> "none"]
  /\ connected = FALSE /\ writer = None /\ closing = FALSE
  /\ number = [p \in Peers |-> 0] /\ waiting = [p \in Peers |-> FALSE]
  /\ requests = [p \in Peers |-> <<>>] /\ answers = [p \in Peers |-> <<>>]
  /\ handling = [p \in Peers |-> 0]

-----------------------------------------------------------------------------
(* The server *)

Connect(p) ==
  /\ client[p] = "new" /\ ~closing
  /\ client' = [client EXCEPT ![p] = "open"] /\ server' = [server EXCEPT ![p] = "accepted"]
  /\ UNCHANGED <<connected, writer, closing, number, waiting, requests, answers, handling>>

MayServe == ~connected /\ ~closing

Serve(p) ==
  /\ server[p] = "accepted" /\ MayServe
  /\ connected' = TRUE /\ writer' = p /\ server' = [server EXCEPT ![p] = "served"]
  /\ UNCHANGED <<client, closing, number, waiting, requests, answers, handling>>

TurnAway(p) ==
  /\ server[p] = "accepted" /\ ~MayServe
  /\ server' = [server EXCEPT ![p] = "closed"]
  /\ UNCHANGED <<client, connected, writer, closing, number, waiting, requests, answers, handling>>

\* _serve_peer takes the next line.  A line that has arrived may still be taken while
\* the server closes: the check of _closing comes before the read.
ReadRequest(p) ==
  /\ server[p] \in {"served", "shut"} /\ handling[p] = 0 /\ requests[p] # <<>>
  /\ handling' = [handling EXCEPT ![p] = Head(requests[p])]
  /\ requests' = [requests EXCEPT ![p] = Tail(requests[p])]
  /\ UNCHANGED <<client, server, connected, writer, closing, number, waiting, answers>>

\* The finally clause of _client_connected
Disconnected(p) ==
  connected' = FALSE /\ writer' = None /\ server' = [server EXCEPT ![p] = "closed"]

\* A result, an error of the handler, an unknown method or an expired time limit: each
\* is an answer with the request's number.  Writing it fails when the connection is gone.
Answer(p) ==
  /\ handling[p] # 0 /\ handling' = [handling EXCEPT ![p] = 0]
  /\ IF server[p] = "served" /\ client[p] = "open"
     THEN /\ answers' = [answers EXCEPT ![p] = Append(@, handling[p])]
          /\ UNCHANGED <<connected, writer, server>>
     ELSE Disconnected(p) /\ UNCHANGED answers
  /\ UNCHANGED <<client, closing, number, waiting, requests>>

HandlerReturns(p) == Answer(p)
HandlerTimesOut_Never(p) == FALSE /\ Answer(p)
HandlerTimesOut(p) == Answer(p)

\* The loop finds the connection closed by either end, or the server closing.
ServeEnds(p) ==
  /\ server[p] \in {"served", "shut"} /\ handling[p] = 0
  /\ (client[p] = "closed" /\ requests[p] = <<>>) \/ server[p] = "shut" \/ closing
  /\ Disconnected(p)
  /\ UNCHANGED <<client, closing, number, waiting, requests, answers, handling>>

ShutWriter == server' = [p \in Peers |-> IF p = writer /\ server[p] = "served" THEN "shut" ELSE server[p]]

\* close_worker: stop_agent and failed starts
CloseWorker ==
  /\ writer # None /\ ShutWriter /\ server' # server
  /\ UNCHANGED <<client, connected, writer, closing, number, waiting, requests, answers, handling>>

Stop ==
  /\ ~closing /\ closing' = TRUE /\ ShutWriter
  /\ UNCHANGED <<client, connected, writer, number, waiting, requests, answers, handling>>

-----------------------------------------------------------------------------
(* The client *)

SendRequest(p) ==
  /\ client[p] = "open" /\ ~waiting[p] /\ number[p] < MaxRequests
  /\ number' = [number EXCEPT ![p] = @ + 1] /\ waiting' = [waiting EXCEPT ![p] = TRUE]
  /\ requests' = [requests EXCEPT ![p] = Append(@, number[p] + 1)]
  /\ UNCHANGED <<client, server, connected, writer, closing, answers, handling>>

\* A result, or the error "Mismatched JSON-RPC response": either ends the request.
ReceiveAnswer(p) ==
  /\ waiting[p] /\ answers[p] # <<>>
  /\ waiting' = [waiting EXCEPT ![p] = FALSE] /\ answers' = [answers EXCEPT ![p] = Tail(@)]
  /\ UNCHANGED <<client, server, connected, writer, closing, number, requests, handling>>

ConnectionLost(p) ==
  /\ waiting[p] /\ answers[p] = <<>> /\ server[p] \in {"shut", "closed"}
  /\ waiting' = [waiting EXCEPT ![p] = FALSE]
  /\ UNCHANGED <<client, server, connected, writer, closing, number, requests, answers, handling>>

AfterTimeout_Open(p) == client
AfterTimeout(p) == [client EXCEPT ![p] = "closed"]
ClientTimesOut(p) ==
  /\ waiting[p] /\ waiting' = [waiting EXCEPT ![p] = FALSE] /\ client' = AfterTimeout(p)
  /\ UNCHANGED <<server, connected, writer, closing, number, requests, answers, handling>>

\* close, or the end of the process
Close(p) ==
  /\ client[p] = "open" /\ client' = [client EXCEPT ![p] = "closed"]
  /\ waiting' = [waiting EXCEPT ![p] = FALSE]
  /\ UNCHANGED <<server, connected, writer, closing, number, requests, answers, handling>>

Next ==
  \/ CloseWorker \/ Stop
  \/ \E p \in Peers :
       \/ Connect(p) \/ Serve(p) \/ TurnAway(p) \/ ReadRequest(p) \/ HandlerReturns(p)
       \/ HandlerTimesOut(p) \/ ServeEnds(p) \/ SendRequest(p) \/ ReceiveAnswer(p)
       \/ ConnectionLost(p) \/ ClientTimesOut(p) \/ Close(p)

Spec == Init /\ [][Next]_vars

\* Both time limits (request_timeout_seconds) expire, and the server's loop runs; no
\* handler and no peer is assumed to do anything in time.
Fairness ==
  \A p \in Peers : /\ WF_vars(HandlerTimesOut(p)) /\ WF_vars(ClientTimesOut(p))
                   /\ WF_vars(ServeEnds(p))
FairSpec == Spec /\ Fairness

-----------------------------------------------------------------------------
(* Properties *)

\* Two handlers of one agent never run at the same time, also when the worker has given
\* up a request and another process connects: the handlers of agent_controller.py are
\* written as those of one sequential worker.
OneHandler == \A p, q \in Peers : handling[p] # 0 /\ handling[q] # 0 => p = q

\* A client that goes on using its connection never meets the answer to an earlier
\* request ("connection closed to avoid response desynchronization").
InStep ==
  \A p \in Peers : client[p] = "open" =>
    \A i \in DOMAIN answers[p] : waiting[p] /\ answers[p][i] = number[p]

\* worker_connected, which start_agent waits for, is true of exactly the time a
\* connection is served, and close_worker closes that connection.
ConnectedIsServed ==
  /\ connected <=> \E p \in Peers : server[p] \in {"served", "shut"}
  /\ \A p \in Peers : server[p] \in {"served", "shut"} <=> writer = p

\* Every request of a client ends, whatever its handler does.
RequestEnds == \A p \in Peers : waiting[p] ~> ~waiting[p]

\* A server that is stopped ends the connection it serves, whatever its handler does.
StopDisconnects == closing ~> ~connected
=============================================================================
