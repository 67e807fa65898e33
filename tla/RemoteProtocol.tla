--------------------------- MODULE RemoteProtocol ---------------------------
(***************************************************************************)
(* One request from a client to the remote agent service and back:         *)
(* RemoteAgentClient.request runs "ssh host remote_agent_service           *)
(* --stdio-v1", the proxy there forwards one line to the service's socket, *)
(* the service validates it again, runs the handler and answers, and the   *)
(* answer is checked at each hop.  Requests share nothing but the service, *)
(* so one request among everything a client can send is the whole system.  *)
(*                                                                         *)
(* The values of fields are abstracted to within or out of their bounds.   *)
(***************************************************************************)
EXTENDS Naturals, FiniteSets

CONSTANT Limit   \* MAX_REQUEST_BYTES

LimitAssumption == Limit \in Nat \ {0}

\* The fields of each operation besides schema_version, operation and request_id.
Expected ==
  [ prepare_upload |-> {"upload_id"}, finalize_upload |-> {"upload_id"},
    prepare_sync |-> {"sync_id", "agent_id"},
    finalize_sync |-> {"sync_id", "agent_id", "size", "sha256", "base_commit"},
    start |-> {"upload_id", "request"},
    status |-> {"agent_id"}, history |-> {"agent_id", "limit"},
    continue |-> {"agent_id", "messages"}, stop |-> {"agent_id"}, stop_agents |-> {},
    restart_agents |-> {"agent_ids"}, reap_agents |-> {"agent_ids"},
    logs |-> {"agent_id", "max_bytes"}, reap |-> {"agent_id"}, patches |-> {"agent_id"},
    acknowledge_patch_applied |-> {"agent_id"}, nack_patch |-> {"agent_id", "reason"},
    list_agents |-> {}, pending_patches |-> {},
    set_tools |-> {"agent_id", "tools"}, agent_tools |-> {"agent_id"},
    summarize_history |-> {"agent_id"},
    review_replies |-> {"repo_path", "unacknowledged_only"} ]

Operations == DOMAIN Expected
FieldNames == UNION {Expected[op] : op \in Operations}

\* The operations whose branch of validate_request looks for no agent_id.
WithoutAgent == {"prepare_upload", "finalize_upload", "start", "review_replies",
                 "list_agents", "stop_agents", "pending_patches"}

\* The fields the branch of an operation gives to a check.
Checked(op) ==
  IF op \in WithoutAgent THEN Expected[op]
  ELSE Expected[op] \cup {"agent_id"}

\* validate_request: the exact fields, then a check of each; what is absent fails it.
Validate(m) ==
  /\ m.operation \in Operations
  /\ m.fields = Expected[m.operation]
  /\ Checked(m.operation) \subseteq m.fields \ m.bad

\* What the adapter sends: the fields of its method.
AdapterFields ==
  [ op \in Operations |->
      CASE op \in {"prepare_upload", "finalize_upload"} -> {"upload_id"}
        [] op = "start" -> {"upload_id", "request"}
        [] op \in {"restart_agents", "reap_agents"} -> {"agent_ids"}
        [] op \in {"list_agents", "stop_agents", "pending_patches"} -> {}
        [] op = "history" -> {"agent_id", "limit"}
        [] op = "continue" -> {"agent_id", "messages"}
        [] op = "logs" -> {"agent_id", "max_bytes"}
        [] op = "nack_patch" -> {"agent_id", "reason"}
        [] op = "set_tools" -> {"agent_id", "tools"}
        [] op = "prepare_sync" -> {"sync_id", "agent_id"}
        [] op = "finalize_sync" -> {"sync_id", "agent_id", "size", "sha256", "base_commit"}
        [] op = "review_replies" -> {"repo_path", "unacknowledged_only"}
        [] OTHER -> {"agent_id"} ]

\* What the handler of an operation takes out of the request, by name.
Reads ==
  [ op \in Operations |->
      CASE op = "history" -> {"agent_id", "limit"}
        [] op = "continue" -> {"agent_id", "messages"}
        [] op = "logs" -> {"agent_id", "max_bytes"}
        [] op = "nack_patch" -> {"agent_id", "reason"}
        [] op = "set_tools" -> {"agent_id", "tools"}
        [] op \in {"restart_agents", "reap_agents"} -> {"agent_ids"}
        [] op = "review_replies" -> {"repo_path", "unacknowledged_only"}
        [] op = "prepare_sync" -> {"agent_id", "sync_id"}
        [] op = "finalize_sync" -> {"agent_id", "sync_id", "size", "sha256", "base_commit"}
        [] op \in {"prepare_upload", "finalize_upload"} -> {"upload_id"}
        [] op = "start" -> {"upload_id", "request"}
        [] op \in {"stop_agents", "list_agents", "pending_patches"} -> {}
        [] OTHER -> {"agent_id"} ]

\* Messages: right, with one field too few or too many, or with one value out of
\* bounds; of a length at the limit or next to it; alone on their line or not.
Message(op, fields, bad) ==
  [operation : {op}, fields : {fields}, bad : {bad},
   size : {Limit - 1, Limit, Limit + 1}, more : BOOLEAN, idOk : BOOLEAN]

Messages ==
  UNION { Message(op, AdapterFields[op], {}) \cup Message("unknown", {}, {})
          \cup (UNION {Message(op, AdapterFields[op] \ {f}, {}) \cup
                       Message(op, AdapterFields[op], {f}) : f \in AdapterFields[op]})
          \cup (UNION {Message(op, AdapterFields[op] \cup {f}, {}) : f \in FieldNames})
          : op \in Operations }

VARIABLES
  message,   \* the request
  checks,    \* it is sent by RemoteAgentClient, not by hand through ssh
  pc,        \* the client: "new", "waiting", "ok", "failed", "raised"
  proxy,     \* proxy_stdio: "idle", "reading", "waiting", "ended"
  service,   \* "idle", "queued", "running", "done", "failed", "gone"
  reply,     \* what the service sends: "none", "ok", "error", "error-noid", "closed"
  response   \* what the proxy writes, in the same terms
vars == <<message, checks, pc, proxy, service, reply, response>>

Replies == {"none", "ok", "error", "error-noid", "closed"}

TypeOK ==
  /\ message.operation \in Operations \cup {"unknown"}
  /\ message.fields \subseteq FieldNames /\ message.bad \subseteq message.fields
  /\ checks \in BOOLEAN
  /\ pc \in {"new", "waiting", "ok", "failed", "raised"}
  /\ proxy \in {"idle", "reading", "waiting", "ended"}
  /\ service \in {"idle", "queued", "running", "done", "failed", "gone"}
  /\ reply \in Replies /\ response \in Replies \ {"closed"}

\* A client object sends one JSON line with an id it made.
Init ==
  /\ message \in Messages /\ checks \in BOOLEAN
  /\ checks => message.idOk /\ ~message.more
  /\ pc = "new" /\ proxy = "idle" /\ service = "idle"
  /\ reply = "none" /\ response = "none"
-----------------------------------------------------------------------------
\* RemoteAgentClient.request up to subprocess.run.  The length is that without the
\* newline.
ClientSends ==
  /\ pc = "new"
  /\ IF checks /\ ~(Validate(message) /\ message.size <= Limit)
     THEN pc' = "raised" /\ UNCHANGED proxy
     ELSE pc' = "waiting" /\ proxy' = "reading"
  /\ UNCHANGED <<message, checks, service, reply, response>>

\* proxy_stdio reads one line and looks for more; then it connects.
ProxyReads ==
  /\ proxy = "reading"
  /\ \/ /\ message.size + 1 <= Limit + 1 /\ ~message.more
        /\ proxy' = "waiting" /\ service' = "queued"
        /\ UNCHANGED response
     \/ \* refused here, or nothing listens on the socket
        /\ proxy' = "ended" /\ response' = "error-noid"
        /\ UNCHANGED service
  /\ UNCHANGED <<message, checks, pc, reply>>

\* _client_connected counts the newline.
FitsLine == message.size + 1 <= Limit

ServiceReads ==
  /\ service = "queued"
  /\ IF ~FitsLine THEN service' = "failed" /\ reply' = "error-noid"
     ELSE IF Validate(message) /\ message.idOk
     THEN service' = "running" /\ UNCHANGED reply
     ELSE service' = "failed" /\ reply' = IF message.idOk THEN "error" ELSE "error-noid"
  /\ UNCHANGED <<message, checks, pc, proxy, response>>

\* The handler returns; its result may be no JSON, or too long for a response.
HandlerReturns ==
  /\ service = "running"
  /\ service' = "done"
  /\ reply' \in {"ok", "error"}
  /\ UNCHANGED <<message, checks, pc, proxy, response>>

\* What a handler has done before it raises is unknown to everybody.
AfterRaise == "error"
HandlerRaises ==
  /\ service = "running"
  /\ service' = "failed" /\ reply' = AfterRaise
  /\ UNCHANGED <<message, checks, pc, proxy, response>>

\* The process dies: the connection closes without a line.
ServiceDies ==
  /\ service \in {"queued", "running"}
  /\ service' = "gone" /\ reply' = "closed"
  /\ UNCHANGED <<message, checks, pc, proxy, response>>

\* A complete line goes on; anything else becomes an error without an id.
Forwarded_Id == IF reply = "closed" THEN "error" ELSE reply
Forwarded == IF reply = "closed" THEN "error-noid" ELSE reply

ProxyForwards ==
  /\ proxy = "waiting" /\ reply # "none"
  /\ proxy' = "ended" /\ response' = Forwarded
  /\ UNCHANGED <<message, checks, pc, service, reply>>

\* 60 seconds without a byte; the handler runs on.
ProxyTimesOut_Never == FALSE /\ UNCHANGED vars
ProxyTimesOut ==
  /\ proxy = "waiting" /\ reply = "none"
  /\ proxy' = "ended" /\ response' = "error-noid"
  /\ UNCHANGED <<message, checks, pc, service, reply>>

\* The checks of the response; an error without an id is raised.
ClientReceives ==
  /\ pc = "waiting" /\ response # "none"
  /\ pc' = CASE response = "ok" -> "ok" [] response = "error" -> "failed"
             [] response = "error-noid" -> "raised"
  /\ UNCHANGED <<message, checks, proxy, service, reply, response>>

\* 30 seconds, or ssh fails; what was sent may have arrived or not.
ClientTimesOut ==
  /\ pc = "waiting"
  /\ pc' = "raised"
  /\ proxy' \in IF proxy = "reading" THEN {"reading", "ended"} ELSE {proxy}
  /\ UNCHANGED <<message, checks, service, reply, response>>

Next ==
  \/ ClientSends \/ ProxyReads \/ ServiceReads \/ HandlerReturns \/ HandlerRaises
  \/ ServiceDies \/ ProxyForwards \/ ProxyTimesOut \/ ClientReceives \/ ClientTimesOut

Spec == Init /\ [][Next]_vars

\* Timers fire and the processes run; a handler may run for ever.
Fairness == /\ WF_vars(ProxyReads) /\ WF_vars(ServiceReads) /\ WF_vars(ProxyForwards)
            /\ WF_vars(ProxyTimesOut) /\ WF_vars(ClientReceives)
FairSpec == Spec /\ Fairness
-----------------------------------------------------------------------------
\* A handler is only given requests with every field it reads, each within bounds
\* (validate_request against the handlers of remote_agent_service).
HandlerInputsChecked ==
  service \in {"running", "done"} =>
    Reads[message.operation] \subseteq message.fields \ message.bad

\* A client that has an "ok" has it from a handler that returned.
OkIsExecuted == pc = "ok" => service = "done"

\* An error that names the request is the service's last word on it: nothing of it is
\* still running, unlike after an error without an id or a time-out.
FailedIsOver == pc = "failed" => service \in {"done", "failed"}

\* What a client object has let through, no hop refuses for its form.
AcceptedAtEveryHop ==
  checks /\ service = "failed" => reply # "error-noid"

\* "Bulk reap through one remote protocol request", "Bulk restart eligible agents
\* through one request": what the adapter builds from good values is a request.
AdapterIsUnderstood ==
  checks /\ pc = "raised" /\ proxy = "idle" =>
    \/ message.size > Limit \/ message.bad # {}
    \/ message.operation \notin Operations
    \/ message.fields # AdapterFields[message.operation]

\* A proxy that has been given the line always answers, so its client need not time out.
ProxyAnswers == proxy = "reading" ~> proxy = "ended"
=============================================================================
