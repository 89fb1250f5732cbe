------------------------ MODULE ForwardingProperties ------------------------
(***************************************************************************)
(* What Forwarding promises to browsers, services and operators.           *)
(***************************************************************************)
EXTENDS Forwarding

Steps == {"idle", "arrived", "do", "wait", "busy", "live", "stream", "streamWrite",
          "log", "write", "flush", "copy", "done"}
Replies == [status : {"ok", "error", "failure", "refused", "lost"},
            body : {"whole", "broken", "cut", "empty", "page"}]

LinksOK ==
  /\ request \in [Requests -> [method : Methods, via : Hops, host : Hosts,
                               access : Accesses, complete : BOOLEAN] \union {None}]
  /\ at \in [Nodes -> [Requests -> Steps]]
  /\ reply \in [Nodes -> [Requests -> Replies]]
  /\ executed \in [Requests -> Nat] /\ tries \in [Requests -> 0 .. MaxRetries]
EdgeLogOK ==
  /\ buffer \in Seq(Requests) /\ file \in Seq(Requests) /\ sticky \in BOOLEAN
  /\ \A r \in Requests : at["edge"][r] \in {"write", "flush"} <=> mutex = r
GatewayLogOK ==
  lines \in Seq(Requests \union {Overwritten}) /\ position \in [Requests -> Nat]
LiveOK ==
  /\ body \in [Requests -> {"none", "open", "ended", "lost", "closed"}]
  /\ watcher \in [Requests -> {"none", "waiting", "ended"}]
  /\ left \in [Requests -> BOOLEAN]
  /\ \A r \in Requests : relayed[r] <= produced[r] /\ produced[r] <= MaxParts

\* Types of all variables; a stream relays no part that was not produced, and the
\* log's mutex is held by the handler that writes.
ForwardingTypeOK == LinksOK /\ EdgeLogOK /\ GatewayLogOK /\ LiveOK

AnswerTo(r) == reply[request[r].via][r]

\* A browser that is told of success was served: for a GET through both hops and a
\* PUT through the gateway, the status is one that the service gave, or it is that of
\* the login page, which is all that a request without a session gets.  (The other
\* relays do not pass on a status, so this is all that can be said.)
SuccessWasServed ==
  \A r \in Requests :
    Done(r) /\ AnswerTo(r).status = "ok"
    /\ (Method(r) = "GET" \/ (Method(r) = "PUT" /\ request[r].via = "gateway"))
    => \/ executed[r] > 0 /\ reply["service"][r].status = "ok"
       \/ request[r].access = "noSession"

\* No service executes a request with a banned text in its url or without a session,
\* whatever its method and its first hop (makeAuthedRelay).
OnlyGrantedServed ==
  \A r \in Requests : executed[r] > 0 => request[r].access = "granted"

\* The variables are typed; what a GET, or a PUT at the gateway, is told of success is
\* the service's word or the login page; and a session is needed to be served.
AnsweredTruly == ForwardingTypeOK /\ SuccessWasServed /\ OnlyGrantedServed

\* A POST or a PUT reaches the service at most once, although two hops may each repeat
\* requests whose reply is lost; and a POST of which only a part came does not reach it
\* (of a PUT, the hop sends that part on).
ChangesOnce ==
  \A r \in Requests :
    /\ executed[r] > 1 => Method(r) = "GET"
    /\ executed[r] > 0 /\ Method(r) = "POST" => request[r].complete

\* The reply to a POST or a PUT is never a part that looks like all of it: the hops
\* read it to its end before they answer.
ChangesAnsweredWhole ==
  \A r \in Requests : Done(r) /\ Method(r) \in {"POST", "PUT"} => AnswerTo(r).body # "cut"

\* POST and PUT are not repeated and their replies not cut (relayPostHandler,
\* relayPutHandler).
ChangesSafe == ChangesOnce /\ ChangesAnsweredWhole

\* SPEC.md "Logs access in Common Log Format": the line of a reply that vhoster has
\* passed on is in the file before the browser has all of the reply.
AnsweredIsLogged ==
  \A r \in Requests :
    Done(r) /\ request[r].via = "edge" /\ at["gateway"][r] = "done"
    /\ AnswerTo(r).body \in {"whole", "cut", "page"}
    => \E i \in DOMAIN file : file[i] = r

\* Before a request comes, for every configuration without a host that hides a later
\* one: the route that is taken is the most specific of those that match.
MostSpecificRoute ==
  (\A r \in Requests : request[r] = None) =>
    LET Names == UNION {[1 .. k -> {"a", "b"}] : k \in 1 .. 3} IN
    \A c \in Names \X Names \X Names : WellOrdered(c) =>
      \A host \in Names : \A i \in Matching(host, c) :
        Route(host, c) # 0 /\ Len(c[i]) <= Len(c[Route(host, c)])

\* A segment of a configured pattern, as it is given and as http.ServeMux wants it.
GivenSegment(s) ==
  CASE s = "word" -> <<"/", "a", "b">> [] s = "name" -> <<"/", ":", "a", "b">>
    [] s = "rest" -> <<"/", "*", "a">>
WantedSegment(s) ==
  CASE s = "word" -> <<"/", "a", "b">> [] s = "name" -> <<"/", "{", "a", "b", "}">>
    [] s = "rest" -> <<"/", "{", "a", "...", "}">>
Patterns ==
  LET Without == UNION {[1 .. k -> {"word", "name"}] : k \in 0 .. 3}
  IN Without \union {Append(p, "rest") : p \in Without}

\* Of every pattern of plain, ":" and final "*" segments, each segment is converted
\* and no other is touched.
PatternsConverted ==
  (\A r \in Requests : request[r] = None) =>
    \A p \in Patterns :
      Convert(FlattenSeq([i \in DOMAIN p |-> GivenSegment(p[i])]))
        = FlattenSeq([i \in DOMAIN p |-> WantedSegment(p[i])])

\* A request goes where the configuration says (ServeHTTP of vhoster, main).
RoutesAsConfigured == MostSpecificRoute /\ PatternsConverted

\* Once the service has answered, so does every hop (or the request is repeated): no
\* handler keeps the mutex of the log, and a panic ends no more than its request.
AnswersArrive ==
  \A r \in Requests :
    at["service"][r] = "done" ~> (Done(r) \/ at["service"][r] \in {"busy", "live"})

\* A browser that leaves a stream frees its connection to the service, its handler and
\* the watcher, also while the handler waits for a silent camera.
LeavingFreesStream ==
  \A r \in Requests :
    left[r] ~> (body[r] = "closed" /\ watcher[r] = "ended" /\ at["gateway"][r] = "done")

\* Every request ends: answered, or left by its browser.
EndsInTime == AnswersArrive /\ LeavingFreesStream
=============================================================================
