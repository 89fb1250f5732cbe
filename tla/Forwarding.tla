----------------------------- MODULE Forwarding -----------------------------
(***************************************************************************)
(* A request on its way from a browser to a microservice: through vhoster, *)
(* "edge" (ServeHTTP and its relays), and the gateway (makeAuthedRelay and *)
(* its relays), or to the gateway alone.  Each hop makes a request of its  *)
(* own, waits for its reply, answers, and writes its access log.           *)
(*                                                                         *)
(* The method "LIVE" is a GET that the service answers with a              *)
(* multipart/x-mixed-replace stream, which the gateway relays part by part *)
(* (relayStreamHandler).  The body of a reply is "whole"; "broken" if its  *)
(* reader sees that it is not all; "cut" if part of it looks like all;     *)
(* "empty"; or a "page" of a hop.  Bounds: MaxRetries of Go's transport,   *)
(* MaxParts of a stream.                                                   *)
(***************************************************************************)
EXTENDS Routes

CONSTANTS
  Requests, None,
  MayAsk,               \* MayAsk[r]: the methods and first hops of the request r
  Hosts, Redirects,     \* host names of requests; the hosts vhoster is configured for
  MaxRetries, MaxParts

Hops == {"edge", "gateway"}
Nodes == Hops \union {"service"}
Methods == {"GET", "LIVE", "POST", "PUT", "DELETE"}
\* What the gateway makes of a request: its url holds a banned text, its token is not
\* the current one of an account, or neither.
Accesses == {"banned", "noSession", "granted"}

ASSUME AskAssumption == MayAsk \in [Requests -> SUBSET [method : Methods, via : Hops]]
ASSUME BoundAssumption == MaxRetries \in Nat /\ MaxParts \in Nat
ASSUME NoneAssumption ==
  /\ None \notin Requests
  /\ None \notin [method : Methods, via : Hops, host : Hosts,
                 access : Accesses, complete : BOOLEAN]

VARIABLES
  request,    \* what was asked for, or None
  at,         \* at[n][r]: the step of the request r at the node n
  reply,      \* reply[n][r]: what n answers
  executed,   \* how often the service has begun to execute the request
  tries,      \* repetitions of the request by the hops' transports
  mutex, buffer, file, sticky,   \* vhoster's access log and its writer's error
  lines, position,               \* the gateway's, and where a handler is writing
  produced, relayed,             \* parts of a stream
  body,       \* body[r]: the upstream connection of a stream
  watcher,    \* the goroutine that waits for the end of the request
  left        \* the browser has left

links == <<request, at, reply, executed, tries>>
edgeLog == <<mutex, buffer, file, sticky>>
gatewayLog == <<lines, position>>
live == <<produced, relayed, body, watcher, left>>
vars == <<links, edgeLog, gatewayLog, live>>

Upstream(h) == IF h = "edge" THEN "gateway" ELSE "service"
Method(r) == IF request[r].method = "LIVE" THEN "GET" ELSE request[r].method

Reply(status, b) == [status |-> status, body |-> b]
Lost == Reply("lost", "empty")
Overwritten == "overwritten"

Init ==
  /\ request = [r \in Requests |-> None]
  /\ at = [n \in Nodes |-> [r \in Requests |-> "idle"]]
  /\ reply = [n \in Nodes |-> [r \in Requests |-> Lost]]
  /\ executed = [r \in Requests |-> 0]
  /\ tries = [r \in Requests |-> 0]
  /\ mutex = None /\ buffer = <<>> /\ file = <<>> /\ sticky = FALSE
  /\ lines = <<>> /\ position = [r \in Requests |-> 0]
  /\ produced = [r \in Requests |-> 0] /\ relayed = [r \in Requests |-> 0]
  /\ body = [r \in Requests |-> "none"]
  /\ watcher = [r \in Requests |-> "none"]
  /\ left = [r \in Requests |-> FALSE]

\* The recover of makeAuthedRelay shows a page, that of ServeHTTP breaks the connection.
FailurePage == Reply("failure", "page")
Panicked(h) == IF h = "edge" THEN Lost ELSE FailurePage

Go(n, r, step) == at' = [at EXCEPT ![n][r] = step]
Answer(n, r, a, step) == reply' = [reply EXCEPT ![n][r] = a] /\ Go(n, r, step)

\* A request arrives at vhoster, or at the gateway, which has routes for GET, POST
\* and PUT only.  "complete": its body comes to its end.
Send(r) ==
  /\ request[r] = None
  /\ \E ask \in MayAsk[r], host \in Hosts, access \in Accesses, complete \in BOOLEAN :
       /\ ask.via = "gateway" => ask.method # "DELETE" /\ host = CHOOSE h \in Hosts : TRUE
       /\ ~complete => ask.method \in {"POST", "PUT"}
       /\ request' = [request EXCEPT ![r] =
            [method |-> ask.method, via |-> ask.via, host |-> host,
             access |-> access, complete |-> complete]]
       /\ Go(ask.via, r, "arrived")
  /\ UNCHANGED <<reply, executed, tries, edgeLog, gatewayLog, live>>

\* ServeHTTP has a relay for three methods and the hosts of its redirects.
EdgeAdmits(r) == Method(r) # "DELETE" /\ Route(request[r].host, Redirects) # 0
GatewayAdmits(r) == request[r].access = "granted"
Admitted(h, r) == IF h = "edge" THEN EdgeAdmits(r) ELSE GatewayAdmits(r)

\* vhoster refuses with an error status, and so does the gateway a banned url; to a
\* request without a session it shows the login page, and sets no status.
LoginPage == Reply("ok", "page")
Refusal(h, r) ==
  IF h = "gateway" /\ request[r].access = "noSession" THEN LoginPage
  ELSE Reply("refused", "page")

\* A handler reads the body before it asks its upstream: POST panics if it gets no
\* more than a part, PUT drops the error and sends that part on.
PanicsOnPart(m) == m = "POST"
PartOnly(h, r) == request[r].via = h /\ ~request[r].complete

Arrive(h, r) ==
  /\ at[h][r] = "arrived"
  /\ \/ /\ ~Admitted(h, r)
        /\ Answer(h, r, Refusal(h, r), "done")
     \/ /\ Admitted(h, r) /\ PartOnly(h, r) /\ PanicsOnPart(Method(r))
        /\ Answer(h, r, Panicked(h), "done")
     \/ /\ Admitted(h, r) /\ ~(PartOnly(h, r) /\ PanicsOnPart(Method(r)))
        /\ Go(h, r, "do") /\ UNCHANGED reply
  /\ UNCHANGED <<request, executed, tries, edgeLog, gatewayLog, live>>

-----------------------------------------------------------------------------
\* The exchange with the upstream

\* The gateway's relays.  GET drops the error of reading the reply, PUT panics; POST
\* sends no status, and nothing at all if it got no reply.
GatewayGet(o) ==
  {IF o = Lost THEN FailurePage
   ELSE Reply(o.status, IF o.body = "broken" THEN "cut" ELSE o.body)}
GatewayPost(o) ==
  {IF o = Lost THEN Reply("ok", "empty")
   ELSE IF o.body = "broken" THEN FailurePage
   ELSE Reply("ok", o.body)}
PutWithoutStatus(o) ==
  {IF o = Lost \/ o.body = "broken" THEN FailurePage ELSE Reply("ok", o.body)}
GatewayPut(o) == {IF o = Lost \/ o.body = "broken" THEN FailurePage ELSE o}

\* vhoster's relays.  GET drops the error of reading the reply, and its part shows as
\* one only if the length was copied with the other headers; POST and PUT send no
\* status.
EdgeGet(o) ==
  IF o = Lost THEN {Lost}
  ELSE {Reply(o.status, b) : b \in IF o.body = "broken" THEN {"broken", "cut"} ELSE {o.body}}
EdgePost(o) ==
  {IF o = Lost THEN Reply("ok", "empty")
   ELSE IF o.body = "broken" THEN Lost
   ELSE Reply("ok", o.body)}
EdgePut(o) == {IF o = Lost \/ o.body = "broken" THEN Lost ELSE Reply("ok", o.body)}

Answers(h, m, o) ==
  CASE m = "GET" -> IF h = "edge" THEN EdgeGet(o) ELSE GatewayGet(o)
    [] m = "POST" -> IF h = "edge" THEN EdgePost(o) ELSE GatewayPost(o)
    [] m = "PUT" -> IF h = "edge" THEN EdgePut(o) ELSE GatewayPut(o)

\* A handler that got this from its upstream comes to the line of its access log.
Logged(m, o) == o # Lost /\ (m = "GET" \/ o.body # "broken")

\* client.Do reaches the upstream, or not.
Do(h, r) ==
  /\ at[h][r] = "do"
  /\ \/ /\ at' = [at EXCEPT ![h][r] = "wait",
                            ![Upstream(h)][r] = IF h = "edge" THEN "arrived" ELSE "busy"]
        /\ executed' = IF h = "gateway" THEN [executed EXCEPT ![r] = @ + 1] ELSE executed
        /\ UNCHANGED reply
     \/ /\ \E a \in Answers(h, Method(r), Lost) : Answer(h, r, a, "done")
        /\ UNCHANGED executed
  /\ UNCHANGED <<request, tries, edgeLog, gatewayLog, live>>

\* What the upstream has answered can be lost on the way, or a part of it.
Observed(o) == {o, Lost, [o EXCEPT !.body = "broken"]}

Relay(h, r) ==
  /\ at[h][r] = "wait" /\ at[Upstream(h)][r] = "done"
  /\ \E o \in Observed(reply[Upstream(h)][r]) : \E a \in Answers(h, Method(r), o) :
       Answer(h, r, a, IF Logged(Method(r), o) THEN "log" ELSE "done")
  /\ UNCHANGED <<request, executed, tries, edgeLog, gatewayLog, live>>

AnyMethod(r) == request[r].method # "LIVE"
\* Go's transport repeats a request without a body if the connection that it reused
\* was closed before the reply.
Repeatable(r) == request[r].method = "GET"

Retry(h, r) ==
  /\ at[h][r] = "wait" /\ at[Upstream(h)][r] = "done"
  /\ Repeatable(r) /\ tries[r] < MaxRetries
  /\ at' = [at EXCEPT ![h][r] = "do", ![Upstream(h)][r] = "idle"]
  /\ tries' = [tries EXCEPT ![r] = @ + 1]
  /\ UNCHANGED <<request, reply, executed, edgeLog, gatewayLog, live>>

\* The microservice answers, when and with what it likes; it may never.
Serve(r) ==
  /\ at["service"][r] = "busy"
  /\ \/ \E status \in {"ok", "error"} : Answer("service", r, Reply(status, "whole"), "done")
     \/ request[r].method = "LIVE" /\ Answer("service", r, Reply("ok", "whole"), "live")
  /\ UNCHANGED <<request, executed, tries, edgeLog, gatewayLog, live>>

-----------------------------------------------------------------------------
\* The access logs

\* vhoster's handler has answered: it locks, writes and flushes its line.  An error
\* stays in the bufio.Writer, and the panic breaks the connection to the browser.
LockLog(r) ==
  /\ at["edge"][r] = "log" /\ mutex = None
  /\ mutex' = r /\ Go("edge", r, "write")
  /\ UNCHANGED <<request, reply, executed, tries, buffer, file, sticky, gatewayLog, live>>

AbortEdge(r) ==
  /\ mutex' = None
  /\ \E a \in {Lost, [reply["edge"][r] EXCEPT !.body = "broken"]} : Answer("edge", r, a, "done")

WriteLog(r) ==
  /\ at["edge"][r] = "write"
  /\ \/ /\ ~sticky
        /\ buffer' = Append(buffer, r) /\ Go("edge", r, "flush")
        /\ UNCHANGED <<mutex, reply>>
     \/ sticky /\ AbortEdge(r) /\ UNCHANGED buffer
  /\ UNCHANGED <<request, executed, tries, file, sticky, gatewayLog, live>>

KeepAnswer(r) == mutex' = None /\ Go("edge", r, "done") /\ UNCHANGED reply
FlushFails(r) == AbortEdge(r)
FlushLog(r) ==
  /\ at["edge"][r] = "flush"
  /\ \/ /\ file' = file \o buffer /\ buffer' = <<>> /\ mutex' = None
        /\ Go("edge", r, "done")
        /\ UNCHANGED <<reply, sticky>>
     \/ sticky' = TRUE /\ FlushFails(r) /\ UNCHANGED <<buffer, file>>
  /\ UNCHANGED <<request, executed, tries, gatewayLog, live>>

\* The gateway's handlers share a bufio.Writer without a lock: two that write at once
\* can take the same place in its buffer.  Nothing flushes it.
PlaceLine(r) ==
  /\ at["gateway"][r] = "log"
  /\ position' = [position EXCEPT ![r] = Len(lines) + 1] /\ Go("gateway", r, "copy")
  /\ UNCHANGED <<request, reply, executed, tries, edgeLog, lines, live>>

CopyLine(r) ==
  /\ at["gateway"][r] = "copy"
  /\ lines' = [Append(lines, Overwritten) EXCEPT ![position[r]] = r]
  /\ position' = [position EXCEPT ![r] = 0] /\ Go("gateway", r, "done")
  /\ UNCHANGED <<request, reply, executed, tries, edgeLog, live>>

-----------------------------------------------------------------------------
\* relayStreamHandler

StreamStart(r) ==
  /\ at["gateway"][r] = "wait" /\ at["service"][r] = "live"
  /\ Go("gateway", r, "stream")
  /\ body' = [body EXCEPT ![r] = "open"]
  /\ watcher' = [watcher EXCEPT ![r] = "waiting"]
  /\ UNCHANGED <<request, reply, executed, tries, edgeLog, gatewayLog, produced, relayed, left>>

\* The deferred Close, the line in the access log, the end of the request.
StreamEnds(r) ==
  /\ Answer("gateway", r,
       Reply("ok", IF body[r] = "ended" /\ produced[r] = relayed[r] THEN "whole" ELSE "cut"), "log")
  /\ body' = [body EXCEPT ![r] = "closed"]

StreamRead(r) ==
  /\ at["gateway"][r] = "stream"
  /\ \/ /\ produced[r] > relayed[r] /\ body[r] # "closed"
        /\ Go("gateway", r, "streamWrite")
        /\ UNCHANGED <<reply, body>>
     \/ /\ body[r] = "closed" \/ (body[r] \in {"ended", "lost"} /\ produced[r] = relayed[r])
        /\ StreamEnds(r)
  /\ UNCHANGED <<request, executed, tries, edgeLog, gatewayLog, produced, relayed, watcher, left>>

\* A write to a browser that has left may still seem to succeed.
StreamWrite(r) ==
  /\ at["gateway"][r] = "streamWrite"
  /\ \/ /\ relayed' = [relayed EXCEPT ![r] = @ + 1]
        /\ Go("gateway", r, "stream")
        /\ UNCHANGED <<reply, body>>
     \/ left[r] /\ StreamEnds(r) /\ UNCHANGED relayed
  /\ UNCHANGED <<request, executed, tries, edgeLog, gatewayLog, produced, watcher, left>>

AtReturn(r) == at["gateway"][r] = "done"
\* ctx.Done: the browser has left or the handler has returned.
RequestOver(r) == left[r] \/ at["gateway"][r] = "done"

Watch(r) ==
  /\ watcher[r] = "waiting" /\ RequestOver(r)
  /\ watcher' = [watcher EXCEPT ![r] = "ended"]
  /\ body' = [body EXCEPT ![r] = "closed"]
  /\ UNCHANGED <<links, edgeLog, gatewayLog, produced, relayed, left>>

Produce(r) ==
  /\ at["service"][r] = "live" /\ body[r] = "open" /\ produced[r] < MaxParts
  /\ produced' = [produced EXCEPT ![r] = @ + 1]
  /\ UNCHANGED <<links, edgeLog, gatewayLog, relayed, body, watcher, left>>

\* The service ends the stream, its connection is lost, or the gateway has closed it.
LiveOver(r) ==
  /\ at["service"][r] = "live" /\ body[r] # "none"
  /\ Go("service", r, "done")
  /\ \E how \in {"ended", "lost"} :
       body' = IF body[r] = "open" THEN [body EXCEPT ![r] = how] ELSE body
  /\ UNCHANGED <<request, reply, executed, tries, edgeLog, gatewayLog, produced, relayed, watcher, left>>

\* Only the connection of a browser to the gateway can tell it: vhoster's own request
\* does not end with its browser's.
Leave(r) ==
  /\ request[r] # None /\ ~left[r]
  /\ request[r].via = "gateway" /\ at["gateway"][r] \in {"stream", "streamWrite"}
  /\ left' = [left EXCEPT ![r] = TRUE]
  /\ UNCHANGED <<links, edgeLog, gatewayLog, produced, relayed, body, watcher>>

-----------------------------------------------------------------------------
Hop(h, r) == Arrive(h, r) \/ Do(h, r) \/ Relay(h, r) \/ Retry(h, r)
EdgeLog(r) == LockLog(r) \/ WriteLog(r) \/ FlushLog(r)
GatewayLog(r) == PlaceLine(r) \/ CopyLine(r)
Stream(r) == StreamStart(r) \/ StreamRead(r) \/ StreamWrite(r)
Handlers(r) == (\E h \in Hops : Hop(h, r)) \/ EdgeLog(r) \/ GatewayLog(r) \/ Stream(r)
Others(r) == Send(r) \/ Serve(r) \/ Produce(r) \/ LiveOver(r) \/ Leave(r)

Done(r) == request[r] # None /\ at[request[r].via][r] = "done"
Finished == (\A r \in Requests : Done(r)) /\ UNCHANGED vars

Next == (\E r \in Requests : Handlers(r) \/ Watch(r) \/ Others(r)) \/ Finished

Spec == Init /\ [][Next]_vars

\* The handlers of both hops run, and the lock of the log is fair; the browsers and
\* the service need not do anything.
FairSpec ==
  /\ Spec
  /\ \A r \in Requests :
       WF_vars(Handlers(r)) /\ WF_vars(Watch(r)) /\ SF_vars(LockLog(r))
=============================================================================
