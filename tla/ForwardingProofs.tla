-------------------------- MODULE ForwardingProofs --------------------------
(***************************************************************************)
(* AnsweredTruly, ChangesSafe and AnsweredIsLogged hold for any number of  *)
(* requests, whatever they ask for, any configuration of vhoster and any   *)
(* number of retries and parts.                                            *)
(*                                                                         *)
(* RoutesAsConfigured holds too, of any redirects and of route patterns of *)
(* any length.                                                             *)
(***************************************************************************)
EXTENDS ForwardingInduction, SequenceFacts

(* What a step does to one cell of a table of nodes and requests.          *)

\* In the table f the cell of r at n becomes v, and no other changes.
Put(f, g, n, r, v) ==
  /\ g[n][r] = v
  /\ \A m \in Nodes, q \in Requests : m # n \/ q # r => g[m][q] = f[m][q]

LEMMA PutEffect ==
  ASSUME NEW A, NEW f \in [Nodes -> [Requests -> A]], NEW n \in Nodes, NEW r \in Requests,
         NEW v \in A
  PROVE  LET g == [f EXCEPT ![n][r] = v]
         IN g \in [Nodes -> [Requests -> A]] /\ Put(f, g, n, r, v)
<1> DEFINE g == [f EXCEPT ![n] = [f[n] EXCEPT ![r] = v]]
<1>1. g \in [Nodes -> [Requests -> A]] /\ Put(f, g, n, r, v)
  BY DEF Put
<1> QED BY <1>1

\* Go moves r at n, and keeps the steps typed.
LEMMA GoEffect ==
  ASSUME at \in [Nodes -> [Requests -> Steps]],
         NEW n \in Nodes, NEW r \in Requests, NEW step \in Steps, Go(n, r, step)
  PROVE  at' \in [Nodes -> [Requests -> Steps]] /\ Put(at, at', n, r, step)
  BY PutEffect DEF Go

\* Answer does so too, with the reply of n to r.
LEMMA AnswerEffect ==
  ASSUME at \in [Nodes -> [Requests -> Steps]], reply \in [Nodes -> [Requests -> Replies]],
         NEW n \in Nodes, NEW r \in Requests, NEW a \in Replies, NEW step \in Steps,
         Answer(n, r, a, step)
  PROVE  /\ at' \in [Nodes -> [Requests -> Steps]] /\ Put(at, at', n, r, step)
         /\ reply' \in [Nodes -> [Requests -> Replies]] /\ Put(reply, reply', n, r, a)
<1>1. at' \in [Nodes -> [Requests -> Steps]] /\ Put(at, at', n, r, step)
  BY GoEffect DEF Answer
<1>2. reply' \in [Nodes -> [Requests -> Replies]] /\ Put(reply, reply', n, r, a)
  BY PutEffect DEF Answer
<1> QED BY <1>1, <1>2

\* Two hops move at once when one asks the next.
GoBoth(n, s, m, t, r) == at' = [at EXCEPT ![n][r] = s, ![m][r] = t]
LEMMA TwoGo ==
  ASSUME at \in [Nodes -> [Requests -> Steps]],
         NEW n \in Nodes, NEW m \in Nodes, n # m, NEW r \in Requests,
         NEW s \in Steps, NEW t \in Steps, GoBoth(n, s, m, t, r)
  PROVE  /\ at' \in [Nodes -> [Requests -> Steps]]
         /\ at'[n][r] = s /\ at'[m][r] = t
         /\ \A k \in Nodes, q \in Requests : (k # n /\ k # m) \/ q # r => at'[k][q] = at[k][q]
<1> DEFINE f == [at EXCEPT ![n][r] = s]
           g == [f EXCEPT ![m][r] = t]
<1>1. f \in [Nodes -> [Requests -> Steps]] /\ Put(at, f, n, r, s)
  BY PutEffect
<1>2. at' = g
  BY DEF GoBoth
<1> HIDE DEF f
<1>3. g \in [Nodes -> [Requests -> Steps]] /\ Put(f, g, m, r, t)
  BY <1>1, PutEffect
<1> HIDE DEF g
<1>4. /\ g[n][r] = s /\ g[m][r] = t
      /\ \A k \in Nodes, q \in Requests : (k # n /\ k # m) \/ q # r => g[k][q] = at[k][q]
  BY <1>1, <1>3 DEF Put
<1> QED BY <1>2, <1>3, <1>4

-----------------------------------------------------------------------------
(* What a hop answers.                                                     *)

LEMMA ObservedType ==
  ASSUME NEW o \in Replies, NEW p \in Observed(o)
  PROVE  /\ p \in Replies
         /\ p.status = "ok" => o.status = "ok"
         /\ o.body # "cut" => p.body # "cut"
  BY DEF Observed, Replies, Lost, Reply

LEMMA GetAnswers ==
  ASSUME NEW o \in Replies, NEW a \in EdgeGet(o) \union GatewayGet(o)
  PROVE  a \in Replies /\ (a.status = "ok" => o.status = "ok")
<1>1. CASE a \in EdgeGet(o)
  <2>1. CASE o = Lost
    BY <1>1, <2>1 DEF EdgeGet
  <2>2. CASE o # Lost
    <3>1. PICK b \in {"broken", "cut", o.body} : a = Reply(o.status, b)
      BY <1>1, <2>2 DEF EdgeGet
    <3> QED BY <3>1 DEF Replies, Reply
  <2> QED BY <2>1, <2>2
<1>2. CASE a \in GatewayGet(o)
  BY <1>2 DEF GatewayGet, Replies, Lost, Reply, FailurePage
<1> QED BY <1>1, <1>2

LEMMA PostAnswers ==
  ASSUME NEW o \in Replies, NEW a \in EdgePost(o) \union GatewayPost(o)
  PROVE  a \in Replies /\ (o.body # "cut" => a.body # "cut")
  BY DEF EdgePost, GatewayPost, Replies, Lost, Reply, FailurePage

LEMMA PutAnswers ==
  ASSUME NEW o \in Replies, NEW a \in EdgePut(o) \union GatewayPut(o)
  PROVE  /\ a \in Replies /\ (o.body # "cut" => a.body # "cut")
         /\ a \in GatewayPut(o) /\ a.status = "ok" => o.status = "ok"
  BY DEF EdgePut, GatewayPut, Replies, Lost, Reply, FailurePage

\* What any relay answers to what it observed of its upstream: success is passed on
\* by GET and by the gateway's PUT, POST and PUT never cut, and vhoster answers
\* nothing but an empty reply when it writes no line.
LEMMA AnswersAre ==
  ASSUME NEW h \in Hops, NEW m \in {"GET", "POST", "PUT"}, NEW o \in Replies,
         NEW a \in Answers(h, m, o)
  PROVE  /\ a \in Replies
         /\ m = "GET" \/ (m = "PUT" /\ h = "gateway") => (a.status = "ok" => o.status = "ok")
         /\ m # "GET" /\ o.body # "cut" => a.body # "cut"
         /\ h = "edge" /\ ~Logged(m, o) => a.body = "empty"
<1>1. CASE m = "GET"
  <2>1. a \in IF h = "edge" THEN EdgeGet(o) ELSE GatewayGet(o)
    BY <1>1 DEF Answers
  <2>2. h = "edge" /\ ~Logged(m, o) => a.body = "empty"
    BY <1>1, <2>1 DEF Logged, EdgeGet, Lost, Reply
  <2> QED BY <1>1, <2>1, <2>2, GetAnswers
<1>2. CASE m = "POST"
  <2>1. a \in IF h = "edge" THEN EdgePost(o) ELSE GatewayPost(o)
    BY <1>2 DEF Answers
  <2>2. h = "edge" /\ ~Logged(m, o) => a.body = "empty"
    BY <1>2, <2>1 DEF Logged, EdgePost, Lost, Reply
  <2> QED BY <1>2, <2>1, <2>2, PostAnswers
<1>3. CASE m = "PUT"
  <2>1. a \in IF h = "edge" THEN EdgePut(o) ELSE GatewayPut(o)
    BY <1>3 DEF Answers
  <2>2. h = "edge" /\ ~Logged(m, o) => a.body = "empty"
    BY <1>3, <2>1 DEF Logged, EdgePut, Lost, Reply
  <2>3. h = "gateway" => a \in GatewayPut(o)
    BY <2>1
  <2> QED BY <1>3, <2>1, <2>2, <2>3, PutAnswers
<1> QED BY <1>1, <1>2, <1>3

-----------------------------------------------------------------------------
(* Initially, and what follows.                                            *)

LEMMA InitEstablishes == Init => ForwardingInv
<1> SUFFICES ASSUME Init PROVE ForwardingInv
  OBVIOUS
<1> USE DEF Init
<1>1. ForwardingTypeOK
  <2>1. LinksOK
    <3>1. Lost \in Replies /\ 0 \in 0 .. MaxRetries /\ "idle" \in Steps
      BY BoundAssumption DEF Lost, Reply, Replies, Steps
    <3> QED BY <3>1 DEF LinksOK
  <2>2. EdgeLogOK
    <3>1. \A r \in Requests : at["edge"][r] = "idle" /\ None # r
      BY NoneAssumption DEF Nodes, Hops
    <3>2. \A r \in Requests : at["edge"][r] \in {"write", "flush"} <=> mutex = r
      BY <3>1
    <3>3. buffer = <<>> /\ file = <<>> /\ sticky = FALSE
      OBVIOUS
    <3>4. <<>> \in Seq(Requests)
      OBVIOUS
    <3> QED BY <3>2, <3>3, <3>4, Zenon DEF EdgeLogOK
  <2>3. GatewayLogOK
    BY DEF GatewayLogOK
  <2>4. LiveOK
    BY BoundAssumption DEF LiveOK
  <2> QED BY <2>1, <2>2, <2>3, <2>4 DEF ForwardingTypeOK
<1>2. Counted
  BY DEF Counted, Nodes, Hops
<1>3. ASSUME NEW r \in Requests PROVE RequestInv(r)
  <2>1. request[r] = None /\ executed[r] = 0
        /\ \A n \in Nodes : at[n][r] = "idle" /\ reply[n][r] = Lost
    OBVIOUS
  <2>2. at["edge"][r] = "idle" /\ at["gateway"][r] = "idle" /\ at["service"][r] = "idle"
    BY <2>1 DEF Nodes, Hops
  <2>3. reply["service"][r].body = "empty"
    BY <2>1 DEF Lost, Reply, Nodes
  <2>4. StepsOf(r) /\ InTurn(r) /\ OnceAtMost(r)
    BY <2>1, <2>2 DEF StepsOf, InTurn, OnceAtMost, EdgeSteps, GatewaySteps, ServiceSteps, Answered
  <2>5. TruthOf(r)
    BY <2>1, <2>2 DEF TruthOf, Streaming
  <2>6. WholeOf(r) /\ LineOf(r)
    BY <2>1, <2>2, <2>3 DEF WholeOf, LineOf
  <2> QED BY <2>4, <2>5, <2>6 DEF RequestInv
<1> QED BY <1>1, <1>2, <1>3 DEF ForwardingInv

LEMMA InvImplies ==
  ForwardingInv => AnsweredTruly /\ ChangesSafe /\ AnsweredIsLogged
<1> SUFFICES ASSUME ForwardingInv PROVE AnsweredTruly /\ ChangesSafe /\ AnsweredIsLogged
  OBVIOUS
<1>0. \A r \in Requests :
        /\ TruthOf(r) /\ OnceAtMost(r) /\ WholeOf(r) /\ LineOf(r) /\ InTurn(r)
        /\ request[r] # None => request[r].via \in Hops
  BY DEF ForwardingInv, RequestInv, ForwardingTypeOK, LinksOK
<1>1. SuccessWasServed
  <2> SUFFICES ASSUME NEW r \in Requests, Done(r), AnswerTo(r).status = "ok",
                      Method(r) = "GET" \/ (Method(r) = "PUT" /\ request[r].via = "gateway"),
                      request[r].access # "noSession"
               PROVE  executed[r] > 0 /\ reply["service"][r].status = "ok"
    BY DEF SuccessWasServed
  <2>1. Told("gateway", r) /\ (Method(r) = "GET" => Told("edge", r))
    BY <1>0 DEF TruthOf, Done
  <2> QED BY <1>0, <2>1 DEF Told, Done, AnswerTo, Answered, Hops
<1>5. OnlyGrantedServed
  <2> SUFFICES ASSUME NEW r \in Requests, executed[r] > 0
               PROVE  request[r].access = "granted"
    BY DEF OnlyGrantedServed
  <2>1. request[r] = None => executed[r] = 0
    BY <1>0 DEF InTurn
  <2>2. request[r] # None /\ request[r].access # "granted" => executed[r] = 0
    BY <1>0 DEF OnceAtMost
  <2> QED BY <2>1, <2>2
<1>2. ChangesOnce
  <2> SUFFICES ASSUME NEW r \in Requests
               PROVE  /\ executed[r] > 1 => Method(r) = "GET"
                      /\ executed[r] > 0 /\ Method(r) = "POST" => request[r].complete
    BY DEF ChangesOnce
  <2>1. executed[r] \in Nat
    BY DEF ForwardingInv, ForwardingTypeOK, LinksOK
  <2>2. request[r] = None => executed[r] = 0
    BY <1>0 DEF InTurn
  <2>3. ASSUME request[r] # None
        PROVE  /\ Method(r) # "GET" => executed[r] <= 1
               /\ Method(r) = "POST" /\ ~request[r].complete => executed[r] = 0
    BY <1>0, <2>3 DEF OnceAtMost
  <2> QED BY <2>1, <2>2, <2>3
<1>3. ChangesAnsweredWhole
  BY <1>0 DEF ChangesAnsweredWhole, WholeOf, Done, AnswerTo, Nodes
<1>4. AnsweredIsLogged
  BY <1>0 DEF AnsweredIsLogged, LineOf, Done, AnswerTo
<1> QED BY <1>1, <1>2, <1>3, <1>4, <1>5 DEF AnsweredTruly, ChangesSafe, ForwardingInv

-----------------------------------------------------------------------------
(* A step of one request leaves the others alone.                          *)

LEMMA OthersKeep ==
  ASSUME ForwardingInv, NEW q \in Requests,
         request'[q] = request[q], executed'[q] = executed[q],
         \A n \in Nodes : at'[n][q] = at[n][q] /\ reply'[n][q] = reply[n][q],
         at["edge"][q] = "flush" /\ (\E i \in DOMAIN buffer : buffer[i] = q)
           => \E i \in DOMAIN buffer' : buffer'[i] = q,
         (\E i \in DOMAIN file : file[i] = q) => \E i \in DOMAIN file' : file'[i] = q
  PROVE  RequestInv(q)'
<1>1. RequestInv(q)
  BY DEF ForwardingInv
<1>2. /\ at'["edge"][q] = at["edge"][q] /\ reply'["edge"][q] = reply["edge"][q]
      /\ at'["gateway"][q] = at["gateway"][q] /\ reply'["gateway"][q] = reply["gateway"][q]
      /\ at'["service"][q] = at["service"][q] /\ reply'["service"][q] = reply["service"][q]
  BY DEF Nodes, Hops
<1>3. StepsOf(q)'
  BY <1>1, <1>2 DEF RequestInv, StepsOf
<1>4. InTurn(q)'
  <2>1. request[q] # None => request[q].via \in Nodes
    BY DEF ForwardingInv, ForwardingTypeOK, LinksOK, Nodes
  <2> QED BY <1>1, <1>2, <2>1 DEF RequestInv, InTurn
<1>5. TruthOf(q)'
  BY <1>1, <1>2 DEF RequestInv, TruthOf, Told, Method
<1>6. OnceAtMost(q)'
  <2>1. request[q] # None => request[q].via \in Nodes
    BY DEF ForwardingInv, ForwardingTypeOK, LinksOK, Nodes
  <2> QED BY <1>1, <1>2, <2>1 DEF RequestInv, OnceAtMost, Method
<1>7. WholeOf(q)'
  BY <1>1, <1>2 DEF RequestInv, WholeOf, Method
<1>8. LineOf(q)'
  BY <1>1, <1>2 DEF RequestInv, LineOf
<1> QED BY <1>3, <1>4, <1>5, <1>6, <1>7, <1>8 DEF RequestInv

\* A step of r along its way that touches neither log nor stream.
LEMMA LinksStep ==
  ASSUME ForwardingInv, NEW r \in Requests, LinksOK', RequestInv(r)',
         UNCHANGED <<edgeLog, gatewayLog, live>>,
         \A q \in Requests : q # r =>
           /\ request'[q] = request[q] /\ executed'[q] = executed[q]
           /\ \A n \in Nodes : at'[n][q] = at[n][q] /\ reply'[n][q] = reply[n][q],
         at["edge"][r] \notin {"write", "flush"}, at'["edge"][r] \notin {"write", "flush"},
         at'["gateway"][r] = "streamWrite" => at["gateway"][r] = "streamWrite"
  PROVE  ForwardingInv'
<1>1. EdgeLogOK'
  <2>1. ASSUME NEW q \in Requests
        PROVE  at'["edge"][q] \in {"write", "flush"} <=> at["edge"][q] \in {"write", "flush"}
    BY DEF Nodes, Hops
  <2> QED BY <2>1 DEF edgeLog, EdgeLogOK, ForwardingInv, ForwardingTypeOK
<1>2. (GatewayLogOK /\ LiveOK)'
  BY DEF gatewayLog, live, GatewayLogOK, LiveOK, ForwardingInv, ForwardingTypeOK
<1>3. Counted'
  BY DEF live, Counted, ForwardingInv, Nodes, Hops
<1>4. ASSUME NEW q \in Requests PROVE RequestInv(q)'
  <2>1. CASE q = r
    BY <2>1
  <2>2. CASE q # r
    BY <2>2, OthersKeep DEF edgeLog
  <2> QED BY <2>1, <2>2
<1> QED BY <1>1, <1>2, <1>3, <1>4 DEF ForwardingInv, ForwardingTypeOK

\* Steps of the stream's data, of its watcher and of the browser that leaves it.
LEMMA LinksStay ==
  ASSUME ForwardingInv, UNCHANGED <<links, edgeLog>>
  PROVE  LinksOK' /\ EdgeLogOK' /\ \A q \in Requests : RequestInv(q)'
<1>1. LinksOK' /\ EdgeLogOK'
  BY DEF ForwardingInv, ForwardingTypeOK, LinksOK, EdgeLogOK, links, edgeLog
<1>2. ASSUME NEW q \in Requests PROVE RequestInv(q)'
  BY OthersKeep DEF links, edgeLog
<1> QED BY <1>1, <1>2

LEMMA WatchKeeps ==
  ASSUME ForwardingInv, NEW r \in Requests, Watch(r)
  PROVE  ForwardingInv'
<1> USE DEF Watch
<1>1. LinksOK' /\ EdgeLogOK' /\ \A q \in Requests : RequestInv(q)'
  BY LinksStay
<1>2. (GatewayLogOK /\ LiveOK)'
  BY DEF gatewayLog, GatewayLogOK, LiveOK, ForwardingInv, ForwardingTypeOK
<1>3. Counted'
  BY DEF links, Counted, ForwardingInv
<1> QED BY <1>1, <1>2, <1>3 DEF ForwardingInv, ForwardingTypeOK

LEMMA ProduceKeeps ==
  ASSUME ForwardingInv, NEW r \in Requests, Produce(r)
  PROVE  ForwardingInv'
<1> USE DEF Produce
<1>1. LinksOK' /\ EdgeLogOK' /\ \A q \in Requests : RequestInv(q)'
  BY LinksStay
<1>2. produced' \in [Requests -> Nat] /\ \A q \in Requests : produced[q] <= produced'[q]
  BY DEF Counted, ForwardingInv
<1>3. \A q \in Requests : relayed'[q] <= produced'[q] /\ produced'[q] <= MaxParts
  BY BoundAssumption DEF Counted, LiveOK, ForwardingInv, ForwardingTypeOK
<1>4. (GatewayLogOK /\ LiveOK)'
  BY <1>3 DEF gatewayLog, GatewayLogOK, LiveOK, ForwardingInv, ForwardingTypeOK
<1>5. Counted'
  BY <1>2 DEF links, Counted, ForwardingInv
<1> QED BY <1>1, <1>4, <1>5 DEF ForwardingInv, ForwardingTypeOK

LEMMA LeaveKeeps ==
  ASSUME ForwardingInv, NEW r \in Requests, Leave(r)
  PROVE  ForwardingInv'
<1> USE DEF Leave
<1>1. LinksOK' /\ EdgeLogOK' /\ \A q \in Requests : RequestInv(q)'
  BY LinksStay
<1>2. (GatewayLogOK /\ LiveOK)'
  BY DEF gatewayLog, GatewayLogOK, LiveOK, ForwardingInv, ForwardingTypeOK
<1>3. Counted'
  BY DEF links, Counted, ForwardingInv
<1> QED BY <1>1, <1>2, <1>3 DEF ForwardingInv, ForwardingTypeOK

-----------------------------------------------------------------------------
(* Steps of a request along its way.                                       *)

\* A request comes to the hop that it is sent to, and to no other.
LEMMA SendKeeps ==
  ASSUME ForwardingInv, NEW r \in Requests, Send(r)
  PROVE  ForwardingInv'
<1>1. PICK ask \in MayAsk[r], host \in Hosts, access \in Accesses, complete \in BOOLEAN :
        /\ ask.via = "gateway" => ask.method # "DELETE"
        /\ request' = [request EXCEPT ![r] =
             [method |-> ask.method, via |-> ask.via, host |-> host,
              access |-> access, complete |-> complete]]
        /\ Go(ask.via, r, "arrived")
  BY DEF Send
<1>2. /\ request[r] = None /\ UNCHANGED <<reply, executed, tries>>
      /\ UNCHANGED <<edgeLog, gatewayLog, live>>
  BY DEF Send
<1>3. ask.method \in Methods /\ ask.via \in Hops
  BY AskAssumption
<1> DEFINE q == [method |-> ask.method, via |-> ask.via, host |-> host,
                 access |-> access, complete |-> complete]
<1>4. /\ q \in [method : Methods, via : Hops, host : Hosts,
                access : Accesses, complete : BOOLEAN]
      /\ q.method = ask.method /\ q.via = ask.via
  BY <1>3
<1>5. q # None
  BY <1>4, NoneAssumption
<1> HIDE DEF q
<1>6. LinksOK /\ RequestInv(r)
  BY DEF ForwardingInv, ForwardingTypeOK
<1>7. at' \in [Nodes -> [Requests -> Steps]] /\ Put(at, at', ask.via, r, "arrived")
  BY <1>1, <1>3, <1>6, GoEffect DEF LinksOK, Nodes, Steps
<1>8. LinksOK' /\ request'[r] = q
  BY <1>1, <1>2, <1>4, <1>6, <1>7 DEF LinksOK, q
<1>9. /\ executed'[r] = 0 /\ reply'["edge"][r] = Lost
      /\ reply'["gateway"][r] = Lost /\ reply'["service"][r] = Lost
  BY <1>2, <1>6 DEF RequestInv, InTurn, WholeOf, Nodes, Hops
<1>10. /\ at["edge"][r] = "idle" /\ at'["service"][r] = "idle"
       /\ at'["edge"][r] = IF ask.via = "edge" THEN "arrived" ELSE "idle"
       /\ at'["gateway"][r] = IF ask.via = "gateway" THEN "arrived" ELSE "idle"
  BY <1>2, <1>3, <1>6, <1>7 DEF RequestInv, InTurn, Nodes, Hops, Put
<1>11. RequestInv(r)'
  <2>1. StepsOf(r)'
    BY <1>10 DEF StepsOf, EdgeSteps, GatewaySteps, ServiceSteps
  <2>2. InTurn(r)'
    BY <1>3, <1>4, <1>5, <1>8, <1>10 DEF InTurn, Answered, Hops
  <2>3. TruthOf(r)'
    BY <1>10 DEF TruthOf, Told, Streaming, Answered
  <2>4. OnceAtMost(r)'
    BY <1>1, <1>3, <1>4, <1>8, <1>9, <1>10 DEF OnceAtMost, Method, Hops, Methods
  <2>5. WholeOf(r)'
    BY <1>5, <1>8, <1>9 DEF WholeOf, Lost, Reply, Nodes, Hops
  <2>6. LineOf(r)'
    BY <1>10 DEF LineOf
  <2> QED BY <2>1, <2>2, <2>3, <2>4, <2>5, <2>6 DEF RequestInv
<1> QED
  <2>1. ASSUME NEW p \in Requests, p # r
        PROVE  /\ request'[p] = request[p] /\ executed'[p] = executed[p]
               /\ \A n \in Nodes : at'[n][p] = at[n][p] /\ reply'[n][p] = reply[n][p]
    BY <1>1, <1>2, <1>6, <1>7, <2>1 DEF LinksOK, Put
  <2>2. at'["edge"][r] \notin {"write", "flush"} /\ at'["gateway"][r] # "streamWrite"
    BY <1>10
  <2> QED BY <1>2, <1>8, <1>10, <1>11, <2>1, <2>2, LinksStep

\* A hop that works on a request was asked, with a method that it has a relay for
\* once it has admitted it.
LEMMA Asked ==
  ASSUME ForwardingInv, NEW r \in Requests, NEW h \in Hops, at[h][r] # "idle"
  PROVE  /\ request[r] # None /\ request[r].via \in Hops
         /\ request[r].method \in Methods
         /\ at[h][r] \notin {"arrived", "done"} => Method(r) \in {"GET", "POST", "PUT"}
<1>1. LinksOK /\ RequestInv(r)
  BY DEF ForwardingInv, ForwardingTypeOK
<1>2. request[r] # None
  BY <1>1 DEF RequestInv, InTurn, Nodes
<1>3. request[r].via \in Hops /\ request[r].method \in Methods
  BY <1>1, <1>2 DEF LinksOK
<1>4. at[h][r] \notin {"arrived", "done"} => Method(r) # "DELETE"
  BY <1>1, <1>2 DEF RequestInv, OnceAtMost, Hops
<1>5. Method(r) \in {"GET", "POST", "PUT", "DELETE"}
  BY <1>3 DEF Method, Methods
<1> QED BY <1>2, <1>3, <1>4, <1>5

\* A hop refuses a request, panics over the part it got of it, or goes on to its client.
LEMMA ArriveKeeps ==
  ASSUME ForwardingInv, NEW r \in Requests, NEW h \in Hops, Arrive(h, r)
  PROVE  ForwardingInv'
<1>1. LinksOK /\ RequestInv(r) /\ at[h][r] = "arrived"
      /\ UNCHANGED <<request, executed, tries>> /\ UNCHANGED <<edgeLog, gatewayLog, live>>
  BY DEF ForwardingInv, ForwardingTypeOK, Arrive
<1>2. request[r] # None /\ request[r].via \in Hops /\ request[r].method \in Methods
  BY <1>1, Asked
<1>3. h \in Nodes /\ "done" \in Steps /\ "do" \in Steps
  BY DEF Nodes, Steps
<1>4. h = "edge" => at["gateway"][r] = "idle"
  BY <1>1 DEF RequestInv, InTurn
<1>5. h = "gateway" => at["edge"][r] \in {"idle", "wait"}
  BY <1>1 DEF RequestInv, InTurn, StepsOf, EdgeSteps, Answered
<1>6. ASSUME NEW a \in Replies, a.body # "cut", Answer(h, r, a, "done"),
             a.status = "ok" => h = "gateway" /\ request[r].access = "noSession"
      PROVE  ForwardingInv'
  <2>1. /\ at' \in [Nodes -> [Requests -> Steps]] /\ Put(at, at', h, r, "done")
        /\ reply' \in [Nodes -> [Requests -> Replies]] /\ Put(reply, reply', h, r, a)
    BY <1>1, <1>3, <1>6, AnswerEffect DEF LinksOK
  <2>2. LinksOK'
    BY <1>1, <2>1 DEF LinksOK
  <2>3. /\ at'["edge"][r] = IF h = "edge" THEN "done" ELSE at["edge"][r]
        /\ at'["gateway"][r] = IF h = "gateway" THEN "done" ELSE at["gateway"][r]
        /\ at'["service"][r] = at["service"][r]
    BY <2>1 DEF Put, Nodes, Hops
  <2>4. /\ reply'["edge"][r] = IF h = "edge" THEN a ELSE reply["edge"][r]
        /\ reply'["gateway"][r] = IF h = "gateway" THEN a ELSE reply["gateway"][r]
        /\ reply'["service"][r] = reply["service"][r]
    BY <2>1 DEF Put, Nodes, Hops
  <2>5. StepsOf(r)'
    BY <1>1, <2>3 DEF RequestInv, StepsOf, EdgeSteps, GatewaySteps
  <2>6. InTurn(r)'
    BY <1>1, <1>2, <1>4, <1>5, <2>3 DEF RequestInv, InTurn, Answered, Hops
  <2>7. TruthOf(r)'
    <3>1. /\ Method(r)' = Method(r) /\ request'[r] = request[r]
          /\ executed'[r] = executed[r]
      BY <1>1 DEF Method
    <3>2. ASSUME request[r] # None, Method(r) \in {"GET", "PUT"}
          PROVE  Told("gateway", r)'
      BY <1>1, <1>6, <2>3, <2>4, <3>1, <3>2 DEF RequestInv, TruthOf, Told
    <3>3. ASSUME request[r] # None, Method(r) = "GET"
          PROVE  Told("edge", r)'
      BY <1>1, <1>6, <2>3, <2>4, <3>1, <3>3 DEF RequestInv, TruthOf, Told
    <3> QED BY <1>1, <2>3, <2>4, <3>1, <3>2, <3>3 DEF RequestInv, TruthOf, Streaming
  <2>8. OnceAtMost(r)'
    <3>1. Method(r)' = Method(r) /\ request'[r] = request[r]
      BY <1>1 DEF Method
    <3> QED BY <1>1, <1>2, <1>4, <1>5, <2>3, <3>1 DEF RequestInv, OnceAtMost, Hops
  <2>9. WholeOf(r)'
    BY <1>1, <1>2, <1>6, <2>4 DEF RequestInv, WholeOf, Method, Nodes, Hops
  <2>10. LineOf(r)'
    BY <1>1, <1>4, <1>5, <2>3 DEF RequestInv, LineOf, Hops
  <2>11. RequestInv(r)'
    BY <2>5, <2>6, <2>7, <2>8, <2>9, <2>10 DEF RequestInv
  <2>12. ASSUME NEW p \in Requests, p # r
         PROVE  /\ request'[p] = request[p] /\ executed'[p] = executed[p]
                /\ \A n \in Nodes : at'[n][p] = at[n][p] /\ reply'[n][p] = reply[n][p]
    BY <1>1, <2>1, <2>12 DEF Put
  <2>13. /\ at["edge"][r] \notin {"write", "flush"} /\ at'["edge"][r] \notin {"write", "flush"}
         /\ at'["gateway"][r] = "streamWrite" => at["gateway"][r] = "streamWrite"
    BY <1>1, <1>5, <2>3 DEF Hops
  <2> QED BY <1>1, <2>2, <2>11, <2>12, <2>13, LinksStep
<1>7. ASSUME Admitted(h, r), ~(PartOnly(h, r) /\ PanicsOnPart(Method(r))),
             Go(h, r, "do"), UNCHANGED reply
      PROVE  ForwardingInv'
  <2>1. at' \in [Nodes -> [Requests -> Steps]] /\ Put(at, at', h, r, "do")
    BY <1>1, <1>3, <1>7, GoEffect DEF LinksOK
  <2>2. LinksOK'
    BY <1>1, <1>7, <2>1 DEF LinksOK
  <2>3. /\ at'["edge"][r] = IF h = "edge" THEN "do" ELSE at["edge"][r]
        /\ at'["gateway"][r] = IF h = "gateway" THEN "do" ELSE at["gateway"][r]
        /\ at'["service"][r] = at["service"][r]
    BY <2>1 DEF Put, Nodes, Hops
  <2>4. StepsOf(r)'
    BY <1>1, <2>3 DEF RequestInv, StepsOf, EdgeSteps, GatewaySteps
  <2>5. InTurn(r)'
    BY <1>1, <1>2, <1>4, <1>5, <2>3 DEF RequestInv, InTurn, Answered, Hops
  <2>6. TruthOf(r)'
    BY <1>1, <1>7, <2>3 DEF RequestInv, TruthOf, Told, Method, Streaming, Answered, Hops
  <2>7. OnceAtMost(r)'
    <3>1. Method(r)' = Method(r) /\ request'[r] = request[r]
      BY <1>1 DEF Method
    <3>2. Method(r) # "DELETE"
      BY <1>1, <1>2, <1>7 DEF RequestInv, OnceAtMost, Admitted, EdgeAdmits, Hops
    <3>3. ~(Method(r) = "POST" /\ ~request[r].complete)
      <4> SUFFICES ASSUME Method(r) = "POST", ~request[r].complete PROVE FALSE
        OBVIOUS
      <4>1. request[r].via # h
        BY <1>7 DEF PartOnly, PanicsOnPart
      <4>2. h = "gateway" /\ request[r].via = "edge"
        BY <1>1, <1>2, <4>1 DEF RequestInv, InTurn, Hops
      <4> QED BY <1>1, <1>2, <4>2 DEF RequestInv, OnceAtMost
    <3>4. h = "gateway" => request[r].access = "granted"
      BY <1>7 DEF Admitted, GatewayAdmits
    <3> QED BY <1>1, <1>2, <2>3, <3>1, <3>2, <3>3, <3>4 DEF RequestInv, OnceAtMost, Hops
  <2>8. WholeOf(r)'
    <3>1. WholeOf(r) /\ request' = request /\ reply' = reply
      BY <1>1, <1>7 DEF RequestInv
    <3> QED BY <3>1, Zenon DEF WholeOf, Method
  <2>9. LineOf(r)'
    BY <1>1, <1>5, <2>3 DEF LineOf, Hops
  <2>10. RequestInv(r)'
    BY <2>4, <2>5, <2>6, <2>7, <2>8, <2>9 DEF RequestInv
  <2>11. ASSUME NEW p \in Requests, p # r
         PROVE  /\ request'[p] = request[p] /\ executed'[p] = executed[p]
                /\ \A n \in Nodes : at'[n][p] = at[n][p] /\ reply'[n][p] = reply[n][p]
    BY <1>1, <1>7, <2>1, <2>11 DEF Put
  <2>12. /\ at["edge"][r] \notin {"write", "flush"} /\ at'["edge"][r] \notin {"write", "flush"}
         /\ at'["gateway"][r] = "streamWrite" => at["gateway"][r] = "streamWrite"
    BY <1>1, <1>5, <2>3 DEF Hops
  <2> QED BY <1>1, <2>2, <2>10, <2>11, <2>12, LinksStep
<1>8. \A a \in {Refusal(h, r), Panicked(h)} :
        /\ a \in Replies /\ a.body # "cut"
        /\ a.status = "ok" => h = "gateway" /\ request[r].access = "noSession"
  BY DEF Refusal, LoginPage, Panicked, FailurePage, Lost, Reply, Replies
<1> QED BY <1>6, <1>7, <1>8 DEF Arrive

\* While the gateway works on a request, vhoster has not answered it.
LEMMA EdgeWaits ==
  ASSUME NEW r \in Requests, RequestInv(r), at["gateway"][r] \notin {"idle", "done"}
  PROVE  at["edge"][r] \in {"idle", "wait"}
  BY DEF RequestInv, InTurn, StepsOf, EdgeSteps, Answered

\* A POST of which only a part came gets no further than the hop that it came to.
LEMMA AskedWhole ==
  ASSUME NEW r \in Requests, RequestInv(r), request[r] # None, request[r].via \in Hops,
         NEW h \in Hops, at[h][r] \notin {"idle", "arrived", "done"}
  PROVE  ~(Method(r) = "POST" /\ ~request[r].complete)
<1> SUFFICES ASSUME Method(r) = "POST", ~request[r].complete PROVE FALSE
  OBVIOUS
<1>1. request[r].via # h
  BY DEF RequestInv, OnceAtMost
<1>2. h = "gateway" /\ request[r].via = "edge"
  BY <1>1 DEF RequestInv, InTurn, Hops
<1> QED BY <1>2 DEF RequestInv, OnceAtMost

\* A hop whose client did not reach the upstream answers what its relay makes of that.
LEMMA DoFailsKeeps ==
  ASSUME ForwardingInv, NEW r \in Requests, NEW h \in Hops, at[h][r] = "do",
         UNCHANGED <<request, executed, tries>>, UNCHANGED <<edgeLog, gatewayLog, live>>,
         NEW a \in Answers(h, Method(r), Lost), Answer(h, r, a, "done")
  PROVE  ForwardingInv'
<1>1. LinksOK /\ RequestInv(r)
  BY DEF ForwardingInv, ForwardingTypeOK
<1>2. request[r] # None /\ request[r].via \in Hops /\ Method(r) \in {"GET", "POST", "PUT"}
  BY Asked
<1>3. h = "edge" => at["gateway"][r] = "idle"
  BY <1>1 DEF RequestInv, InTurn
<1>4. h = "gateway" => at["edge"][r] \in {"idle", "wait"}
  BY <1>1, EdgeWaits
<1>5. /\ a \in Replies
      /\ Method(r) = "GET" \/ (Method(r) = "PUT" /\ h = "gateway") => a.status # "ok"
      /\ Method(r) # "GET" => a.body # "cut"
  <2>1. Lost \in Replies /\ Lost.status # "ok" /\ Lost.body # "cut"
    BY DEF Lost, Reply, Replies
  <2> QED BY <1>2, <2>1, AnswersAre
<1>6. /\ at' \in [Nodes -> [Requests -> Steps]] /\ Put(at, at', h, r, "done")
      /\ reply' \in [Nodes -> [Requests -> Replies]] /\ Put(reply, reply', h, r, a)
  <2>1. h \in Nodes /\ "done" \in Steps
    BY DEF Nodes, Steps
  <2> QED BY <1>1, <1>5, <2>1, AnswerEffect DEF LinksOK
<1>7. LinksOK'
  BY <1>1, <1>6 DEF LinksOK
<1>8. /\ at'["edge"][r] = IF h = "edge" THEN "done" ELSE at["edge"][r]
      /\ at'["gateway"][r] = IF h = "gateway" THEN "done" ELSE at["gateway"][r]
      /\ at'["service"][r] = at["service"][r]
  BY <1>6 DEF Put, Nodes, Hops
<1>9. /\ reply'["edge"][r] = IF h = "edge" THEN a ELSE reply["edge"][r]
      /\ reply'["gateway"][r] = IF h = "gateway" THEN a ELSE reply["gateway"][r]
      /\ reply'["service"][r] = reply["service"][r]
  BY <1>6 DEF Put, Nodes, Hops
<1>10. request'[r] = request[r] /\ Method(r)' = Method(r) /\ executed'[r] = executed[r]
  BY DEF Method
<1>11. RequestInv(r)'
  <2>1. StepsOf(r)'
    BY <1>1, <1>8 DEF RequestInv, StepsOf, EdgeSteps, GatewaySteps
  <2>2. InTurn(r)'
    BY <1>1, <1>2, <1>3, <1>4, <1>8, <1>10 DEF RequestInv, InTurn, Answered, Hops
  <2>3. TruthOf(r)'
    BY <1>1, <1>2, <1>4, <1>5, <1>8, <1>9, <1>10
       DEF RequestInv, TruthOf, Told, Streaming, Answered, Hops
  <2>4. OnceAtMost(r)'
    BY <1>1, <1>2, <1>8, <1>10 DEF RequestInv, OnceAtMost, Hops
  <2>5. WholeOf(r)'
    BY <1>1, <1>2, <1>5, <1>9, <1>10 DEF RequestInv, WholeOf, Nodes, Hops
  <2>6. LineOf(r)'
    BY <1>3, <1>4, <1>8 DEF LineOf, Hops
  <2> QED BY <2>1, <2>2, <2>3, <2>4, <2>5, <2>6 DEF RequestInv
<1> QED
  <2>1. ASSUME NEW p \in Requests, p # r
        PROVE  /\ request'[p] = request[p] /\ executed'[p] = executed[p]
               /\ \A n \in Nodes : at'[n][p] = at[n][p] /\ reply'[n][p] = reply[n][p]
    BY <1>6, <2>1 DEF Put
  <2>2. /\ at["edge"][r] \notin {"write", "flush"} /\ at'["edge"][r] \notin {"write", "flush"}
        /\ at'["gateway"][r] = "streamWrite" => at["gateway"][r] = "streamWrite"
    BY <1>4, <1>8 DEF Hops
  <2> QED BY <1>7, <1>11, <2>1, <2>2, LinksStep

\* A hop's client asks the upstream, and the service begins to execute.
LEMMA DoReachesKeeps ==
  ASSUME ForwardingInv, NEW r \in Requests, NEW h \in Hops, at[h][r] = "do",
         GoBoth(h, "wait", Upstream(h), IF h = "edge" THEN "arrived" ELSE "busy", r),
         executed' = (IF h = "gateway" THEN [executed EXCEPT ![r] = @ + 1] ELSE executed),
         UNCHANGED <<request, reply, tries>>, UNCHANGED <<edgeLog, gatewayLog, live>>
  PROVE  ForwardingInv'
<1>1. LinksOK /\ RequestInv(r)
  BY DEF ForwardingInv, ForwardingTypeOK
<1>2. request[r] # None /\ request[r].via \in Hops /\ Method(r) \in {"GET", "POST", "PUT"}
  BY Asked
<1>3. h = "edge" => at["gateway"][r] = "idle"
  BY <1>1 DEF RequestInv, InTurn
<1>4. h = "gateway" => at["edge"][r] \in {"idle", "wait"}
  BY <1>1, EdgeWaits
<1> DEFINE u == Upstream(h)
           t == IF h = "edge" THEN "arrived" ELSE "busy"
<1>5. /\ at' \in [Nodes -> [Requests -> Steps]] /\ at'[h][r] = "wait" /\ at'[u][r] = t
      /\ \A k \in Nodes, p \in Requests : (k # h /\ k # u) \/ p # r => at'[k][p] = at[k][p]
  <2>1. h \in Nodes /\ u \in Nodes /\ h # u /\ "wait" \in Steps /\ t \in Steps
    BY DEF Nodes, Hops, Steps, Upstream
  <2>2. GoBoth(h, "wait", u, t, r)
    OBVIOUS
  <2> HIDE DEF u, t
  <2> QED BY <1>1, <2>1, <2>2, TwoGo DEF LinksOK
<1>6. /\ executed' \in [Requests -> Nat]
      /\ executed'[r] = IF h = "gateway" THEN executed[r] + 1 ELSE executed[r]
      /\ \A p \in Requests : p # r => executed'[p] = executed[p]
  BY <1>1 DEF LinksOK
<1>7. LinksOK' /\ executed[r] \in Nat
  BY <1>1, <1>5, <1>6 DEF LinksOK
<1>8. /\ at'["edge"][r] = IF h = "edge" THEN "wait" ELSE at["edge"][r]
      /\ at'["gateway"][r] = IF h = "gateway" THEN "wait" ELSE "arrived"
      /\ at'["service"][r] = IF h = "gateway" THEN "busy" ELSE at["service"][r]
  BY <1>5 DEF Nodes, Hops, Upstream
<1>9. request'[r] = request[r] /\ Method(r)' = Method(r)
  BY DEF Method
<1>10. RequestInv(r)'
  <2>1. StepsOf(r)'
    BY <1>1, <1>8 DEF RequestInv, StepsOf, EdgeSteps, GatewaySteps, ServiceSteps
  <2>2. InTurn(r)'
    BY <1>1, <1>2, <1>3, <1>4, <1>8, <1>9 DEF RequestInv, InTurn, Answered, Hops
  <2>3. TruthOf(r)'
    BY <1>1, <1>2, <1>4, <1>6, <1>7, <1>8, <1>9
       DEF RequestInv, TruthOf, Told, Streaming, Answered, Hops
  <2>4. OnceAtMost(r)'
    <3>1. ~(Method(r) = "POST" /\ ~request[r].complete)
      BY <1>1, <1>2, AskedWhole
    <3>2. h = "edge" /\ Method(r) # "GET" => executed[r] = 0
      BY <1>1, <1>2, <1>3 DEF RequestInv, OnceAtMost
    <3>3. h = "gateway" /\ Method(r) # "GET" => executed[r] = 0
      BY <1>1, <1>2 DEF RequestInv, OnceAtMost
    <3>4. request[r].access # "granted" => h = "edge" /\ executed[r] = 0
      BY <1>1, <1>2 DEF RequestInv, OnceAtMost, Hops
    <3>5. executed'[r] = IF h = "gateway" THEN executed[r] + 1 ELSE executed[r]
      BY <1>6
    <3>6. /\ Method(r) # "DELETE" /\ (Method(r) # "GET" => executed'[r] <= 1)
          /\ h = "edge" /\ Method(r) # "GET" => executed'[r] = 0
      BY <1>2, <1>7, <3>2, <3>3, <3>5 DEF Hops
    <3> QED BY <1>8, <1>9, <3>1, <3>4, <3>5, <3>6 DEF OnceAtMost, Hops
  <2>5. WholeOf(r)'
    BY <1>1, <1>9, Zenon DEF RequestInv, WholeOf
  <2>6. LineOf(r)'
    BY <1>4, <1>8 DEF LineOf, Hops
  <2> QED BY <2>1, <2>2, <2>3, <2>4, <2>5, <2>6 DEF RequestInv
<1> QED
  <2>1. ASSUME NEW p \in Requests, p # r
        PROVE  /\ request'[p] = request[p] /\ executed'[p] = executed[p]
               /\ \A n \in Nodes : at'[n][p] = at[n][p] /\ reply'[n][p] = reply[n][p]
    BY <1>5, <1>6, <2>1
  <2>2. /\ at["edge"][r] \notin {"write", "flush"} /\ at'["edge"][r] \notin {"write", "flush"}
        /\ at'["gateway"][r] # "streamWrite"
    BY <1>4, <1>8 DEF Hops
  <2> QED BY <1>7, <1>10, <2>1, <2>2, LinksStep

LEMMA DoKeeps ==
  ASSUME ForwardingInv, NEW r \in Requests, NEW h \in Hops, Do(h, r)
  PROVE  ForwardingInv'
  BY DoFailsKeeps, DoReachesKeeps DEF Do, GoBoth

\* A hop passes on what it observed of its upstream's answer, and comes to its log.
LEMMA RelayKeeps ==
  ASSUME ForwardingInv, NEW r \in Requests, NEW h \in Hops, Relay(h, r)
  PROVE  ForwardingInv'
<1> DEFINE u == Upstream(h)
<1>0. PICK o \in Observed(reply[u][r]) :
        \E a \in Answers(h, Method(r), o) :
          Answer(h, r, a, IF Logged(Method(r), o) THEN "log" ELSE "done")
  BY DEF Relay
<1>1. PICK a \in Answers(h, Method(r), o) :
        Answer(h, r, a, IF Logged(Method(r), o) THEN "log" ELSE "done")
  BY <1>0
<1> DEFINE s == IF Logged(Method(r), o) THEN "log" ELSE "done"
<1>2. /\ LinksOK /\ RequestInv(r) /\ at[h][r] = "wait" /\ at[u][r] = "done"
      /\ UNCHANGED <<request, executed, tries>> /\ UNCHANGED <<edgeLog, gatewayLog, live>>
  BY DEF ForwardingInv, ForwardingTypeOK, Relay
<1>3. request[r] # None /\ request[r].via \in Hops /\ Method(r) \in {"GET", "POST", "PUT"}
  BY <1>2, Asked
<1>4. h \in Nodes /\ u \in Nodes /\ s \in Steps /\ s \in {"log", "done"}
  BY DEF Nodes, Hops, Upstream, Steps
<1>5. /\ o \in Replies
      /\ o.status = "ok" => reply[u][r].status = "ok"
      /\ reply[u][r].body # "cut" => o.body # "cut"
  BY <1>2, <1>4, ObservedType DEF LinksOK
<1>6. /\ a \in Replies
      /\ Method(r) = "GET" \/ (Method(r) = "PUT" /\ h = "gateway")
           => (a.status = "ok" => reply[u][r].status = "ok")
      /\ Method(r) # "GET" /\ reply[u][r].body # "cut" => a.body # "cut"
      /\ h = "edge" /\ s = "done" => a.body = "empty"
  <2>1. s = "done" => ~Logged(Method(r), o)
    OBVIOUS
  <2> HIDE DEF s, u
  <2> QED BY <1>3, <1>5, <2>1, AnswersAre
<1>7. Answer(h, r, a, s)
  BY <1>1
<1> HIDE DEF s
<1>8. /\ at' \in [Nodes -> [Requests -> Steps]] /\ Put(at, at', h, r, s)
      /\ reply' \in [Nodes -> [Requests -> Replies]] /\ Put(reply, reply', h, r, a)
  BY <1>2, <1>4, <1>6, <1>7, AnswerEffect DEF LinksOK
<1>9. LinksOK'
  BY <1>2, <1>8 DEF LinksOK
<1>10. /\ at'["edge"][r] = IF h = "edge" THEN s ELSE at["edge"][r]
       /\ at'["gateway"][r] = IF h = "gateway" THEN s ELSE at["gateway"][r]
       /\ at'["service"][r] = at["service"][r]
  BY <1>8 DEF Put, Nodes, Hops
<1>11. /\ reply'["edge"][r] = IF h = "edge" THEN a ELSE reply["edge"][r]
       /\ reply'["gateway"][r] = IF h = "gateway" THEN a ELSE reply["gateway"][r]
       /\ reply'["service"][r] = reply["service"][r]
  BY <1>8 DEF Put, Nodes, Hops
<1>12. request'[r] = request[r] /\ Method(r)' = Method(r) /\ executed'[r] = executed[r]
  BY <1>2 DEF Method
<1>13. /\ h = "edge" => at["gateway"][r] = "done" /\ u = "gateway"
       /\ h = "gateway" => at["service"][r] = "done" /\ u = "service"
                           /\ at["edge"][r] \in {"idle", "wait"}
  BY <1>2, EdgeWaits DEF Upstream
<1>14. RequestInv(r)'
  <2>1. StepsOf(r)'
    BY <1>2, <1>4, <1>10 DEF RequestInv, StepsOf, EdgeSteps, GatewaySteps
  <2>2. InTurn(r)'
    BY <1>2, <1>3, <1>4, <1>10, <1>12, <1>13 DEF RequestInv, InTurn, Answered, Hops
  <2>3. TruthOf(r)'
    <3>1. CASE h = "edge"
      <4>1. Method(r) = "GET" => Told("edge", r)'
        BY <1>2, <1>3, <1>6, <1>11, <1>12, <1>13, <3>1
           DEF RequestInv, TruthOf, Told, Answered
      <4> QED BY <1>2, <1>3, <1>10, <1>11, <1>12, <3>1, <4>1 DEF RequestInv, TruthOf, Told
    <3>2. CASE h = "gateway"
      <4>1. executed[r] > 0
        BY <1>2, <1>13, <3>2 DEF RequestInv, TruthOf
      <4>2. Method(r) \in {"GET", "PUT"} => Told("gateway", r)'
        BY <1>6, <1>11, <1>12, <1>13, <3>2, <4>1 DEF Told
      <4>3. Told("edge", r)'
        BY <1>10, <1>13, <3>2 DEF Told, Answered
      <4>4. at'["gateway"][r] \notin Streaming
        BY <1>4, <1>10, <3>2 DEF Streaming
      <4> QED BY <1>2, <1>10, <1>11, <1>12, <3>2, <4>1, <4>2, <4>3, <4>4
              DEF RequestInv, TruthOf
    <3> QED BY <3>1, <3>2 DEF Hops
  <2>4. OnceAtMost(r)'
    <3>1. ~(Method(r) = "POST" /\ ~request[r].complete)
      BY <1>2, <1>3, AskedWhole
    <3> QED BY <1>2, <1>3, <1>4, <1>10, <1>12, <3>1 DEF RequestInv, OnceAtMost
  <2>5. WholeOf(r)'
    BY <1>2, <1>3, <1>4, <1>6, <1>11, <1>12 DEF RequestInv, WholeOf, Nodes, Hops
  <2>6. LineOf(r)'
    BY <1>2, <1>4, <1>6, <1>10, <1>11, <1>13 DEF LineOf, edgeLog, Hops
  <2> QED BY <2>1, <2>2, <2>3, <2>4, <2>5, <2>6 DEF RequestInv
<1> QED
  <2>1. ASSUME NEW p \in Requests, p # r
        PROVE  /\ request'[p] = request[p] /\ executed'[p] = executed[p]
               /\ \A n \in Nodes : at'[n][p] = at[n][p] /\ reply'[n][p] = reply[n][p]
    BY <1>2, <1>8, <2>1 DEF Put
  <2>2. /\ at["edge"][r] \notin {"write", "flush"} /\ at'["edge"][r] \notin {"write", "flush"}
        /\ at'["gateway"][r] = "streamWrite" => at["gateway"][r] = "streamWrite"
    BY <1>2, <1>4, <1>10, <1>13 DEF Hops
  <2> QED BY <1>2, <1>9, <1>14, <2>1, <2>2, LinksStep

\* Only what may be asked again is: a hop whose connection was closed starts afresh.
LEMMA RetryKeeps ==
  ASSUME ForwardingInv, NEW r \in Requests, NEW h \in Hops, at[h][r] = "wait",
         at[Upstream(h)][r] = "done", Repeatable(r), tries[r] < MaxRetries,
         GoBoth(h, "do", Upstream(h), "idle", r), tries' = [tries EXCEPT ![r] = @ + 1],
         UNCHANGED <<request, reply, executed>>, UNCHANGED <<edgeLog, gatewayLog, live>>
  PROVE  ForwardingInv'
<1>1. LinksOK /\ RequestInv(r)
  BY DEF ForwardingInv, ForwardingTypeOK
<1>2. request[r] # None /\ request[r].via \in Hops /\ Method(r) = "GET"
  BY Asked DEF Repeatable, Method
<1> DEFINE u == Upstream(h)
<1>3. /\ at' \in [Nodes -> [Requests -> Steps]] /\ at'[h][r] = "do" /\ at'[u][r] = "idle"
      /\ \A k \in Nodes, p \in Requests : (k # h /\ k # u) \/ p # r => at'[k][p] = at[k][p]
  <2>1. h \in Nodes /\ u \in Nodes /\ h # u /\ "do" \in Steps /\ "idle" \in Steps
    BY DEF Nodes, Hops, Steps, Upstream
  <2> HIDE DEF u
  <2> QED BY <1>1, <2>1, TwoGo DEF LinksOK, u
<1>4. LinksOK'
  <2>1. tries' \in [Requests -> 0 .. MaxRetries]
    BY <1>1, BoundAssumption DEF LinksOK
  <2> QED BY <1>1, <1>3, <2>1 DEF LinksOK
<1>5. /\ at'["edge"][r] = IF h = "edge" THEN "do" ELSE at["edge"][r]
      /\ at'["gateway"][r] = IF h = "gateway" THEN "do" ELSE "idle"
      /\ at'["service"][r] = IF h = "gateway" THEN "idle" ELSE at["service"][r]
  BY <1>3 DEF Nodes, Hops, Upstream
<1>6. request'[r] = request[r] /\ Method(r)' = Method(r)
  BY DEF Method
<1>7. /\ h = "edge" => at["gateway"][r] = "done" /\ at["service"][r] # "busy"
      /\ h = "gateway" => at["edge"][r] \in {"idle", "wait"}
  BY <1>1, EdgeWaits DEF Upstream, RequestInv, InTurn
<1>8. RequestInv(r)'
  <2>1. StepsOf(r)'
    BY <1>1, <1>5 DEF RequestInv, StepsOf, EdgeSteps, GatewaySteps, ServiceSteps
  <2>2. InTurn(r)'
    BY <1>1, <1>2, <1>5, <1>6, <1>7 DEF RequestInv, InTurn, Answered, Hops
  <2>3. TruthOf(r)'
    BY <1>1, <1>2, <1>5, <1>6, <1>7 DEF RequestInv, TruthOf, Told, Streaming, Answered, Hops
  <2>4. OnceAtMost(r)'
    <3>1. request[r].access # "granted" => h = "edge" /\ executed[r] = 0
      BY <1>1, <1>2 DEF RequestInv, OnceAtMost, Hops
    <3> QED BY <1>2, <1>5, <1>6, <3>1 DEF OnceAtMost
  <2>5. WholeOf(r)'
    BY <1>1, <1>6, Zenon DEF RequestInv, WholeOf
  <2>6. LineOf(r)'
    BY <1>5, <1>7 DEF LineOf, Hops
  <2> QED BY <2>1, <2>2, <2>3, <2>4, <2>5, <2>6 DEF RequestInv
<1> QED
  <2>1. ASSUME NEW p \in Requests, p # r
        PROVE  /\ request'[p] = request[p] /\ executed'[p] = executed[p]
               /\ \A n \in Nodes : at'[n][p] = at[n][p] /\ reply'[n][p] = reply[n][p]
    BY <1>3, <2>1
  <2>2. /\ at["edge"][r] \notin {"write", "flush"} /\ at'["edge"][r] \notin {"write", "flush"}
        /\ at'["gateway"][r] # "streamWrite"
    BY <1>5, <1>7 DEF Hops
  <2> QED BY <1>4, <1>8, <2>1, <2>2, LinksStep

\* The service answers at once, or begins a stream.
LEMMA ServeKeeps ==
  ASSUME ForwardingInv, NEW r \in Requests, Serve(r)
  PROVE  ForwardingInv'
<1>1. LinksOK /\ RequestInv(r) /\ at["service"][r] = "busy"
      /\ UNCHANGED <<request, executed, tries>> /\ UNCHANGED <<edgeLog, gatewayLog, live>>
  BY DEF ForwardingInv, ForwardingTypeOK, Serve
<1>2. PICK a \in Replies, s \in {"done", "live"} :
        /\ Answer("service", r, a, s) /\ a.body = "whole"
        /\ s = "live" => request[r].method = "LIVE" /\ a.status = "ok"
  <2>1. \A status \in {"ok", "error"} :
          Reply(status, "whole") \in Replies /\ Reply(status, "whole").body = "whole"
          /\ Reply(status, "whole").status = status
    BY DEF Reply, Replies
  <2> QED BY <2>1 DEF Serve
<1>3. /\ at' \in [Nodes -> [Requests -> Steps]] /\ Put(at, at', "service", r, s)
      /\ reply' \in [Nodes -> [Requests -> Replies]] /\ Put(reply, reply', "service", r, a)
  <2>1. "service" \in Nodes /\ s \in Steps /\ Answer("service", r, a, s)
    BY <1>2 DEF Nodes, Steps
  <2> QED BY <1>1, <2>1, AnswerEffect DEF LinksOK
<1>4. LinksOK'
  BY <1>1, <1>3 DEF LinksOK
<1>5. /\ at'["service"][r] = s /\ reply'["service"][r] = a
      /\ at'["edge"][r] = at["edge"][r] /\ reply'["edge"][r] = reply["edge"][r]
      /\ at'["gateway"][r] = at["gateway"][r] /\ reply'["gateway"][r] = reply["gateway"][r]
  BY <1>3 DEF Put, Nodes, Hops
<1>6. request'[r] = request[r] /\ Method(r)' = Method(r) /\ executed'[r] = executed[r]
  BY <1>1 DEF Method
<1>7. at["gateway"][r] = "wait" /\ at["edge"][r] \in {"idle", "wait"}
  BY <1>1, EdgeWaits DEF RequestInv, InTurn
<1>8. request[r] # None /\ request[r].via \in Hops
  BY <1>7, Asked DEF Hops
<1>9. RequestInv(r)'
  <2>1. StepsOf(r)'
    BY <1>1, <1>5 DEF RequestInv, StepsOf, ServiceSteps
  <2>2. InTurn(r)'
    BY <1>1, <1>5, <1>6, <1>7, <1>8 DEF RequestInv, InTurn, Answered, Hops
  <2>3. TruthOf(r)'
    BY <1>1, <1>2, <1>5, <1>6, <1>7 DEF RequestInv, TruthOf, Told, Streaming, Answered
  <2>4. OnceAtMost(r)'
    BY <1>1, <1>5, <1>6, <1>8 DEF RequestInv, OnceAtMost, Hops
  <2>5. WholeOf(r)'
    BY <1>1, <1>2, <1>5, <1>6, <1>8 DEF RequestInv, WholeOf, Nodes, Hops
  <2>6. LineOf(r)'
    BY <1>5, <1>7 DEF LineOf
  <2> QED BY <2>1, <2>2, <2>3, <2>4, <2>5, <2>6 DEF RequestInv
<1> QED
  <2>1. ASSUME NEW p \in Requests, p # r
        PROVE  /\ request'[p] = request[p] /\ executed'[p] = executed[p]
               /\ \A n \in Nodes : at'[n][p] = at[n][p] /\ reply'[n][p] = reply[n][p]
    BY <1>1, <1>3, <2>1 DEF Put
  <2>2. /\ at["edge"][r] \notin {"write", "flush"} /\ at'["edge"][r] \notin {"write", "flush"}
        /\ at'["gateway"][r] # "streamWrite"
    BY <1>5, <1>7
  <2> QED BY <1>1, <1>4, <1>9, <2>1, <2>2, LinksStep

-----------------------------------------------------------------------------
(* The access log of vhoster.                                              *)

\* What a step at the log leaves to prove about its own request: it has answered, and
\* its answer stays, or is broken off.
LEMMA EdgeLogs ==
  ASSUME ForwardingInv, NEW r \in Requests, at["edge"][r] \in {"log", "write", "flush"},
         NEW s \in {"write", "flush", "done"}, Put(at, at', "edge", r, s),
         UNCHANGED <<request, executed>>,
         \A n \in {"gateway", "service"} : reply'[n][r] = reply[n][r],
         \/ reply'["edge"][r] = reply["edge"][r]
         \/ reply'["edge"][r].status \in {reply["edge"][r].status, "lost"}
            /\ reply'["edge"][r].body \in {"broken", "empty"},
         LineOf(r)'
  PROVE  RequestInv(r)'
<1>1. RequestInv(r)
  BY DEF ForwardingInv
<1>2. request[r] # None /\ request[r].via \in Hops
      /\ Method(r) \in {"GET", "POST", "PUT"}
  BY Asked DEF Hops
<1>3. /\ at'["edge"][r] = s /\ at'["gateway"][r] = at["gateway"][r]
      /\ at'["service"][r] = at["service"][r] /\ reply'["service"][r] = reply["service"][r]
      /\ reply'["gateway"][r] = reply["gateway"][r]
  BY DEF Put, Nodes, Hops
<1>4. request'[r] = request[r] /\ Method(r)' = Method(r) /\ executed'[r] = executed[r]
  BY DEF Method
<1>5. s \in Answered("edge") /\ s \in EdgeSteps /\ s # "idle" /\ at["edge"][r] \in Answered("edge")
  BY DEF Answered, EdgeSteps
<1>6. StepsOf(r)'
  BY <1>1, <1>3, <1>5 DEF RequestInv, StepsOf
<1>7. InTurn(r)'
  BY <1>1, <1>2, <1>3, <1>4, <1>5 DEF RequestInv, InTurn, Answered, Hops
<1>8. TruthOf(r)'
  <2>1. Method(r) \in {"GET", "PUT"} => Told("gateway", r)'
    BY <1>1, <1>2, <1>3, <1>4 DEF RequestInv, TruthOf, Told
  <2>2. Method(r) = "GET" => Told("edge", r)'
    BY <1>1, <1>2, <1>3, <1>4, <1>5 DEF RequestInv, TruthOf, Told
  <2>3. TruthOf(r)
    BY <1>1 DEF RequestInv
  <2> QED BY <1>2, <1>3, <1>4, <2>1, <2>2, <2>3 DEF TruthOf
<1>9. OnceAtMost(r)'
  <2>1. ~(Method(r) = "POST" /\ ~request[r].complete)
    BY <1>1, <1>2, AskedWhole DEF Hops
  <2> QED BY <1>1, <1>2, <1>3, <1>4, <2>1 DEF RequestInv, OnceAtMost
<1>10. WholeOf(r)'
  BY <1>1, <1>2, <1>4 DEF RequestInv, WholeOf, Nodes, Hops
<1> QED BY <1>6, <1>7, <1>8, <1>9, <1>10 DEF RequestInv

\* A step at the log moves nobody but its request, and loses no line of another.
LEMMA EdgeLogStep ==
  ASSUME ForwardingInv, NEW r \in Requests, at["edge"][r] \in {"log", "write", "flush"},
         NEW s \in {"write", "flush", "done"}, Put(at, at', "edge", r, s),
         UNCHANGED <<request, executed, tries>>, UNCHANGED <<gatewayLog, live>>,
         LinksOK', EdgeLogOK', RequestInv(r)',
         \A n \in Nodes, q \in Requests : q # r => reply'[n][q] = reply[n][q],
         \A q \in Requests :
           q # r /\ at["edge"][q] = "flush" /\ (\E i \in DOMAIN buffer : buffer[i] = q)
             => \E i \in DOMAIN buffer' : buffer'[i] = q,
         \A q \in Requests :
           (\E i \in DOMAIN file : file[i] = q) => \E i \in DOMAIN file' : file'[i] = q
  PROVE  ForwardingInv'
<1>1. (GatewayLogOK /\ LiveOK)'
  BY DEF gatewayLog, live, GatewayLogOK, LiveOK, ForwardingInv, ForwardingTypeOK
<1>2. Counted'
  BY DEF live, Counted, ForwardingInv, Nodes, Hops, Put
<1>3. ASSUME NEW q \in Requests PROVE RequestInv(q)'
  <2>1. CASE q = r
    BY <2>1
  <2>2. CASE q # r
    <3>1. \A n \in Nodes : at'[n][q] = at[n][q] /\ reply'[n][q] = reply[n][q]
      BY <2>2 DEF Put
    <3> QED BY <2>2, <3>1, OthersKeep
  <2> QED BY <2>1, <2>2
<1> QED BY <1>1, <1>2, <1>3 DEF ForwardingInv, ForwardingTypeOK

LEMMA LockLogKeeps ==
  ASSUME ForwardingInv, NEW r \in Requests, LockLog(r)
  PROVE  ForwardingInv'
<1>1. /\ LinksOK /\ EdgeLogOK /\ at["edge"][r] = "log" /\ mutex = None /\ mutex' = r
      /\ UNCHANGED <<request, reply, executed, tries, buffer, file, sticky, gatewayLog, live>>
      /\ Go("edge", r, "write")
  BY DEF ForwardingInv, ForwardingTypeOK, LockLog
<1>2. at' \in [Nodes -> [Requests -> Steps]] /\ Put(at, at', "edge", r, "write")
  <2>1. "edge" \in Nodes /\ "write" \in Steps
    BY DEF Nodes, Hops, Steps
  <2> QED BY <1>1, <2>1, GoEffect DEF LinksOK
<1>3. LinksOK'
  BY <1>1, <1>2 DEF LinksOK
<1>4. EdgeLogOK'
  <2>1. ASSUME NEW q \in Requests
        PROVE  at'["edge"][q] \in {"write", "flush"} <=> q = r
    BY <1>1, <1>2, NoneAssumption DEF EdgeLogOK, Put, Nodes, Hops
  <2> QED BY <1>1, <2>1 DEF EdgeLogOK
<1>5. LineOf(r)'
  BY <1>2 DEF LineOf, Put
<1>6. RequestInv(r)'
  BY <1>1, <1>2, <1>5, EdgeLogs
<1> QED BY <1>1, <1>2, <1>3, <1>4, <1>6, EdgeLogStep

\* A panic at the log breaks the answer off, and gives up the mutex.
LEMMA AbortEdgeKeeps ==
  ASSUME ForwardingInv, NEW r \in Requests, at["edge"][r] \in {"write", "flush"}, AbortEdge(r),
         UNCHANGED <<request, executed, tries, buffer, file, gatewayLog, live>>,
         sticky' \in BOOLEAN
  PROVE  ForwardingInv'
<1>1. LinksOK /\ EdgeLogOK /\ mutex' = None
  BY DEF ForwardingInv, ForwardingTypeOK, AbortEdge
<1>2. PICK a \in {Lost, [reply["edge"][r] EXCEPT !.body = "broken"]} :
        Answer("edge", r, a, "done")
  BY DEF AbortEdge
<1>3. "edge" \in Nodes /\ "done" \in Steps
  BY DEF Nodes, Hops, Steps
<1>4. reply["edge"][r] \in Replies
  BY <1>1, <1>3 DEF LinksOK
<1>5. a \in Replies /\ a.status \in {reply["edge"][r].status, "lost"}
      /\ a.body \in {"broken", "empty"}
  BY <1>4 DEF Replies, Lost, Reply
<1>6. /\ at' \in [Nodes -> [Requests -> Steps]] /\ Put(at, at', "edge", r, "done")
      /\ reply' \in [Nodes -> [Requests -> Replies]] /\ Put(reply, reply', "edge", r, a)
  BY <1>1, <1>2, <1>3, <1>5, AnswerEffect DEF LinksOK
<1>7. LinksOK'
  BY <1>1, <1>6 DEF LinksOK
<1>8. EdgeLogOK'
  <2>1. \A q \in Requests : at["edge"][q] \in {"write", "flush"} => q = r
    BY <1>1 DEF EdgeLogOK
  <2>2. ASSUME NEW q \in Requests
        PROVE  at'["edge"][q] \notin {"write", "flush"} /\ None # q
    BY <1>3, <1>6, <2>1, NoneAssumption DEF Put
  <2> QED BY <1>1, <2>2 DEF EdgeLogOK
<1>9. /\ at'["edge"][r] = "done" /\ reply'["edge"][r] = a
      /\ reply'["gateway"][r] = reply["gateway"][r] /\ reply'["service"][r] = reply["service"][r]
  BY <1>6 DEF Put, Nodes, Hops
<1>10. LineOf(r)'
  BY <1>5, <1>9 DEF LineOf
<1>11. RequestInv(r)'
  BY <1>5, <1>6, <1>9, <1>10, EdgeLogs
<1> QED BY <1>6, <1>7, <1>8, <1>11, EdgeLogStep DEF Put

\* The holder of the mutex writes his line, or panics.
LEMMA WriteLogKeeps ==
  ASSUME ForwardingInv, NEW r \in Requests, WriteLog(r)
  PROVE  ForwardingInv'
<1>1. LinksOK /\ EdgeLogOK /\ at["edge"][r] = "write"
      /\ UNCHANGED <<request, executed, tries, file, sticky, gatewayLog, live>>
  BY DEF ForwardingInv, ForwardingTypeOK, WriteLog
<1>2. CASE buffer' = Append(buffer, r) /\ Go("edge", r, "flush") /\ UNCHANGED <<mutex, reply>>
  <2>1. at' \in [Nodes -> [Requests -> Steps]] /\ Put(at, at', "edge", r, "flush")
    <3>1. "edge" \in Nodes /\ "flush" \in Steps
      BY DEF Nodes, Hops, Steps
    <3> QED BY <1>1, <1>2, <3>1, GoEffect DEF LinksOK
  <2>2. LinksOK'
    BY <1>1, <1>2, <2>1 DEF LinksOK
  <2>3. buffer \in Seq(Requests)
    BY <1>1 DEF EdgeLogOK
  <2>4. /\ buffer' \in Seq(Requests)
        /\ \A q \in Requests :
             q = r \/ (\E i \in DOMAIN buffer : buffer[i] = q)
               => \E i \in DOMAIN buffer' : buffer'[i] = q
    <3>1. /\ buffer' \in Seq(Requests) /\ DOMAIN buffer' = 1 .. Len(buffer) + 1
          /\ buffer'[Len(buffer) + 1] = r /\ Len(buffer) + 1 \in DOMAIN buffer'
          /\ \A i \in DOMAIN buffer : i \in DOMAIN buffer' /\ buffer'[i] = buffer[i]
      BY <1>2, <2>3
    <3> QED BY <3>1
  <2>5. EdgeLogOK'
    <3>1. ASSUME NEW q \in Requests
          PROVE  at'["edge"][q] \in {"write", "flush"} <=> mutex' = q
      BY <1>1, <1>2, <2>1 DEF EdgeLogOK, Put, Nodes, Hops
    <3> QED BY <1>1, <2>4, <3>1 DEF EdgeLogOK
  <2>6. LineOf(r)'
    BY <2>1, <2>4 DEF LineOf, Put, Nodes, Hops
  <2>7. RequestInv(r)'
    BY <1>1, <1>2, <2>1, <2>6, EdgeLogs
  <2> QED BY <1>1, <1>2, <2>1, <2>2, <2>4, <2>5, <2>7, EdgeLogStep
<1>3. CASE AbortEdge(r) /\ UNCHANGED buffer
  <2>1. sticky' \in BOOLEAN
    BY <1>1 DEF EdgeLogOK
  <2> QED BY <1>1, <1>3, <2>1, AbortEdgeKeeps
<1> QED BY <1>2, <1>3 DEF WriteLog

\* The lines in the buffer go to the file, or the writer fails for good.
LEMMA FlushLogKeeps ==
  ASSUME ForwardingInv, NEW r \in Requests, FlushLog(r)
  PROVE  ForwardingInv'
<1>1. LinksOK /\ EdgeLogOK /\ LineOf(r) /\ at["edge"][r] = "flush"
      /\ UNCHANGED <<request, executed, tries, gatewayLog, live>>
  BY DEF ForwardingInv, ForwardingTypeOK, RequestInv, FlushLog
<1>2. CASE /\ file' = file \o buffer /\ buffer' = <<>> /\ mutex' = None
           /\ Go("edge", r, "done") /\ UNCHANGED <<reply, sticky>>
  <2>1. at' \in [Nodes -> [Requests -> Steps]] /\ Put(at, at', "edge", r, "done")
    <3>1. "edge" \in Nodes /\ "done" \in Steps
      BY DEF Nodes, Hops, Steps
    <3> QED BY <1>1, <1>2, <3>1, GoEffect DEF LinksOK
  <2>2. LinksOK'
    BY <1>1, <1>2, <2>1 DEF LinksOK
  <2>3. buffer \in Seq(Requests) /\ file \in Seq(Requests)
    BY <1>1 DEF EdgeLogOK
  <2>4. /\ file' \in Seq(Requests)
        /\ \A q : (\E i \in DOMAIN buffer : buffer[i] = q) \/ (\E i \in DOMAIN file : file[i] = q)
             => \E i \in DOMAIN file' : file'[i] = q
    <3>1. /\ file' \in Seq(Requests)
          /\ \A i \in DOMAIN file : i \in DOMAIN file' /\ file'[i] = file[i]
          /\ \A i \in DOMAIN buffer :
               Len(file) + i \in DOMAIN file' /\ file'[Len(file) + i] = buffer[i]
      BY <1>2, <2>3
    <3> QED BY <3>1
  <2>5. \A q \in Requests : at["edge"][q] \in {"write", "flush"} => q = r
    BY <1>1 DEF EdgeLogOK
  <2>6. EdgeLogOK'
    <3>1. ASSUME NEW q \in Requests
          PROVE  at'["edge"][q] \notin {"write", "flush"} /\ None # q
      BY <2>1, <2>5, NoneAssumption DEF Put, Nodes, Hops
    <3>2. buffer' \in Seq(Requests) /\ sticky' \in BOOLEAN
      BY <1>1, <1>2 DEF EdgeLogOK
    <3> QED BY <1>2, <2>4, <3>1, <3>2 DEF EdgeLogOK
  <2>7. LineOf(r)'
    BY <1>1, <2>1, <2>4 DEF LineOf, Put, Nodes, Hops
  <2>8. RequestInv(r)'
    BY <1>1, <1>2, <2>1, <2>7, EdgeLogs
  <2> QED BY <1>1, <1>2, <2>1, <2>2, <2>4, <2>5, <2>6, <2>8, EdgeLogStep
<1>3. CASE sticky' = TRUE /\ FlushFails(r) /\ UNCHANGED <<buffer, file>>
  BY <1>1, <1>3, AbortEdgeKeeps DEF FlushFails
<1> QED BY <1>2, <1>3 DEF FlushLog

-----------------------------------------------------------------------------
(* The access log of the gateway, and its streams.                         *)

\* The request is a stream that the service has begun to send.
Flowing(r) ==
  request[r].method = "LIVE" /\ executed[r] > 0 /\ reply["service"][r].status = "ok"

\* A step of the gateway's handler after its upstream has answered: at its log, where it
\* keeps its answer, or in a stream.
GatewayMoves(r, s) ==
  /\ Put(at, at', "gateway", r, s)
  /\ \/ at["gateway"][r] \in {"log", "copy"} /\ s \in {"copy", "done"} /\ reply' = reply
     \/ /\ at["gateway"][r] \in {"wait", "stream", "streamWrite"} /\ s \in Streaming \union {"log"}
        /\ at["service"][r] # "busy" /\ Flowing(r)

LEMMA GatewayStep ==
  ASSUME ForwardingInv, NEW r \in Requests, NEW s, GatewayMoves(r, s), LinksOK',
         UNCHANGED <<request, executed>>, UNCHANGED edgeLog,
         \A n \in Nodes, q \in Requests : n # "gateway" \/ q # r => reply'[n][q] = reply[n][q]
  PROVE  EdgeLogOK' /\ \A q \in Requests : RequestInv(q)'
<1>1. RequestInv(r) /\ EdgeLogOK
  BY DEF ForwardingInv, ForwardingTypeOK
<1>2. /\ at'["gateway"][r] = s /\ at'["edge"][r] = at["edge"][r]
      /\ at'["service"][r] = at["service"][r]
      /\ reply'["edge"][r] = reply["edge"][r] /\ reply'["service"][r] = reply["service"][r]
  BY DEF GatewayMoves, Put, Nodes, Hops
<1>3. /\ at["gateway"][r] \in {"log", "copy", "wait", "stream", "streamWrite"}
      /\ s \in {"copy", "done", "stream", "streamWrite", "log"}
  BY DEF GatewayMoves, Streaming
<1>4. at["edge"][r] \in {"idle", "wait"}
  BY <1>1, <1>3, EdgeWaits
<1>5. request[r] # None /\ request[r].via \in Hops /\ Method(r) \in {"GET", "POST", "PUT"}
  BY <1>3, Asked DEF Hops
<1>6. request'[r] = request[r] /\ Method(r)' = Method(r) /\ executed'[r] = executed[r]
  BY DEF Method
<1>7. at["service"][r] # "busy"
  BY <1>1 DEF GatewayMoves, RequestInv, InTurn
<1>8. Flowing(r) => Method(r) = "GET"
  BY DEF Flowing, Method
<1>9. StepsOf(r)'
  BY <1>1, <1>2, <1>3 DEF RequestInv, StepsOf, GatewaySteps
<1>10. InTurn(r)'
  BY <1>1, <1>2, <1>3, <1>4, <1>5, <1>6, <1>7 DEF RequestInv, InTurn, Answered, Hops
<1>11. TruthOf(r)'
  <2>1. Told("edge", r)'
    BY <1>2, <1>4 DEF Told, Answered
  <2>2. Method(r) \in {"GET", "PUT"} => Told("gateway", r)'
    <3>1. CASE at["gateway"][r] \in {"log", "copy"} /\ s \in {"copy", "done"} /\ reply' = reply
      <4>1. Method(r) \in {"GET", "PUT"} => Told("gateway", r)
        BY <1>1, <1>5 DEF RequestInv, TruthOf
      <4>2. reply'["gateway"][r] = reply["gateway"][r] /\ at["gateway"][r] \in Answered("gateway")
        BY <3>1 DEF Answered
      <4> QED BY <1>2, <1>6, <4>1, <4>2 DEF Told
    <3>2. CASE Flowing(r)
      BY <1>2, <1>6, <3>2 DEF Flowing, Told
    <3> QED BY <3>1, <3>2 DEF GatewayMoves
  <2>3. s \in Streaming => Flowing(r)
    BY DEF GatewayMoves, Streaming
  <2>4. TruthOf(r)
    BY <1>1 DEF RequestInv
  <2> QED BY <1>2, <1>5, <1>6, <2>1, <2>2, <2>3, <2>4 DEF TruthOf, Flowing
<1>12. OnceAtMost(r)'
  <2>1. ~(Method(r) = "POST" /\ ~request[r].complete)
    BY <1>1, <1>3, <1>5, AskedWhole DEF Hops
  <2> QED BY <1>1, <1>2, <1>3, <1>5, <1>6, <2>1 DEF RequestInv, OnceAtMost
<1>13. WholeOf(r)'
  <2>1. Method(r) # "GET" => reply' = reply
    BY <1>8 DEF GatewayMoves
  <2> QED BY <1>1, <1>2, <1>5, <1>6, <2>1 DEF RequestInv, WholeOf
<1>14. LineOf(r)'
  BY <1>2, <1>4 DEF LineOf
<1>15. RequestInv(r)'
  BY <1>9, <1>10, <1>11, <1>12, <1>13, <1>14 DEF RequestInv
<1>16. ASSUME NEW q \in Requests, q # r PROVE RequestInv(q)'
  BY <1>16, OthersKeep DEF GatewayMoves, Put, edgeLog
<1>17. EdgeLogOK'
  <2>1. ASSUME NEW q \in Requests PROVE at'["edge"][q] = at["edge"][q]
    BY DEF GatewayMoves, Put, Nodes, Hops
  <2> QED BY <1>1, <2>1 DEF EdgeLogOK, edgeLog
<1> QED BY <1>15, <1>16, <1>17

LEMMA ExceptOfSeq ==
  ASSUME NEW S, NEW t \in Seq(S), NEW i, NEW e \in S
  PROVE  [t EXCEPT ![i] = e] \in Seq(S)
<1>1. t \in [1 .. Len(t) -> S] /\ Len(t) \in Nat
  OBVIOUS
<1> DEFINE n == Len(t)
<1>2. [t EXCEPT ![i] = e] \in [1 .. n -> S]
  <2> HIDE DEF n
  <2> QED BY <1>1 DEF n
<1>3. [1 .. n -> S] \subseteq Seq(S)
  OBVIOUS
<1> QED BY <1>2, <1>3

\* Two handlers may take the same place: the one that copies last has it.
LEMMA GatewayLogKeeps ==
  ASSUME ForwardingInv, NEW r \in Requests, GatewayLog(r)
  PROVE  ForwardingInv'
<1>1. LinksOK /\ GatewayLogOK /\ LiveOK /\ Counted
      /\ UNCHANGED <<request, reply, executed, tries>> /\ UNCHANGED <<edgeLog, live>>
  BY DEF ForwardingInv, ForwardingTypeOK, GatewayLog, PlaceLine, CopyLine
<1>2. \/ at["gateway"][r] = "log" /\ Go("gateway", r, "copy")
      \/ at["gateway"][r] = "copy" /\ Go("gateway", r, "done")
  BY DEF GatewayLog, PlaceLine, CopyLine
<1>3. PICK s \in {"copy", "done"} : Go("gateway", r, s)
  BY <1>2
<1>4. at["gateway"][r] \in {"log", "copy"}
  BY <1>2
<1>5. at' \in [Nodes -> [Requests -> Steps]] /\ Put(at, at', "gateway", r, s)
  <2>1. "gateway" \in Nodes /\ s \in Steps
    BY DEF Nodes, Hops, Steps
  <2> QED BY <1>1, <1>3, <2>1, GoEffect DEF LinksOK
<1>6. LinksOK' /\ GatewayMoves(r, s)
  BY <1>1, <1>4, <1>5 DEF LinksOK, GatewayMoves
<1>7. EdgeLogOK' /\ \A q \in Requests : RequestInv(q)'
  BY <1>1, <1>6, GatewayStep
<1>8. GatewayLogOK'
  <2>1. CASE PlaceLine(r)
    BY <1>1, <2>1 DEF PlaceLine, GatewayLogOK
  <2>2. CASE CopyLine(r)
    <3>1. Append(lines, Overwritten) \in Seq(Requests \union {Overwritten})
      BY <1>1 DEF GatewayLogOK
    <3>2. lines' \in Seq(Requests \union {Overwritten})
      BY <2>2, <3>1, ExceptOfSeq DEF CopyLine
    <3> QED BY <1>1, <2>2, <3>2 DEF CopyLine, GatewayLogOK
  <2> QED BY <2>1, <2>2 DEF GatewayLog
<1>9. LiveOK' /\ Counted'
  BY <1>1, <1>5 DEF LiveOK, Counted, live, Put, Nodes, Hops
<1> QED BY <1>6, <1>7, <1>8, <1>9 DEF ForwardingInv, ForwardingTypeOK

\* The gateway's handler reads and writes the parts of a stream until its end.
LEMMA StreamKeeps ==
  ASSUME ForwardingInv, NEW r \in Requests, Stream(r)
  PROVE  ForwardingInv'
<1>1. LinksOK /\ GatewayLogOK /\ LiveOK /\ Counted /\ RequestInv(r)
      /\ UNCHANGED <<request, executed, tries>> /\ UNCHANGED <<edgeLog, gatewayLog>>
  BY DEF ForwardingInv, ForwardingTypeOK, Stream, StreamStart, StreamRead, StreamWrite
<1>2. /\ at["gateway"][r] \in {"wait", "stream", "streamWrite"}
      /\ at["service"][r] # "busy" /\ Flowing(r)
  BY <1>1 DEF Stream, StreamStart, StreamRead, StreamWrite, RequestInv, InTurn, TruthOf,
              Streaming, Flowing
<1>3. ASSUME NEW s \in Streaming \union {"log"}, at' \in [Nodes -> [Requests -> Steps]],
             Put(at, at', "gateway", r, s), reply' \in [Nodes -> [Requests -> Replies]],
             \A n \in Nodes, q \in Requests : n # "gateway" \/ q # r => reply'[n][q] = reply[n][q],
             LiveOK', Counted'
      PROVE  ForwardingInv'
  <2>1. LinksOK' /\ GatewayMoves(r, s)
    BY <1>1, <1>2, <1>3 DEF LinksOK, GatewayMoves
  <2>2. EdgeLogOK' /\ \A q \in Requests : RequestInv(q)'
    BY <1>1, <1>3, <2>1, GatewayStep
  <2>3. GatewayLogOK'
    BY <1>1 DEF GatewayLogOK, gatewayLog
  <2> QED BY <1>3, <2>1, <2>2, <2>3 DEF ForwardingInv, ForwardingTypeOK
<1>4. "gateway" \in Nodes /\ {"stream", "streamWrite", "log"} \subseteq Steps
      /\ {"stream", "streamWrite", "log"} = Streaming \union {"log"}
  BY DEF Nodes, Hops, Steps, Streaming
<1>5. ASSUME StreamEnds(r), UNCHANGED <<produced, relayed, watcher, left>> PROVE ForwardingInv'
  <2>1. PICK a \in Replies : Answer("gateway", r, a, "log")
    <3>1. Reply("ok", "whole") \in Replies /\ Reply("ok", "cut") \in Replies
      BY DEF Reply, Replies
    <3> QED BY <1>5, <3>1 DEF StreamEnds
  <2>2. /\ at' \in [Nodes -> [Requests -> Steps]] /\ Put(at, at', "gateway", r, "log")
        /\ reply' \in [Nodes -> [Requests -> Replies]] /\ Put(reply, reply', "gateway", r, a)
    BY <1>1, <1>4, <2>1, AnswerEffect DEF LinksOK
  <2>3. LiveOK'
    BY <1>1, <1>5 DEF LiveOK, StreamEnds
  <2>4. Counted'
    BY <1>1, <1>4, <1>5, <2>2 DEF Counted, Put
  <2> QED BY <1>3, <1>4, <2>2, <2>3, <2>4 DEF Put
<1>6. ASSUME NEW s \in Streaming, Go("gateway", r, s), reply' = reply, LiveOK', Counted'
      PROVE  ForwardingInv'
  <2>1. at' \in [Nodes -> [Requests -> Steps]] /\ Put(at, at', "gateway", r, s)
    BY <1>1, <1>4, <1>6, GoEffect DEF LinksOK, Streaming
  <2> QED BY <1>1, <1>3, <1>6, <2>1 DEF LinksOK
<1>7. ASSUME NEW s \in Streaming, Go("gateway", r, s)
      PROVE  /\ at'["gateway"][r] = s
             /\ \A q \in Requests : q # r => at'["gateway"][q] = at["gateway"][q]
  BY <1>1, <1>4, <1>7, GoEffect DEF LinksOK, Streaming, Put
<1>8. CASE StreamStart(r)
  <2>1. LiveOK' /\ Counted'
    BY <1>1, <1>7, <1>8 DEF StreamStart, LiveOK, Counted, Streaming
  <2> QED BY <1>6, <1>8, <2>1 DEF StreamStart, Streaming
<1>9. CASE StreamRead(r)
  <2>1. CASE produced[r] > relayed[r] /\ Go("gateway", r, "streamWrite") /\ UNCHANGED <<reply, body>>
    <3>1. LiveOK' /\ Counted'
      BY <1>1, <1>7, <1>9, <2>1 DEF StreamRead, LiveOK, Counted, Streaming
    <3> QED BY <1>6, <2>1, <3>1 DEF Streaming
  <2>2. CASE StreamEnds(r)
    BY <1>5, <1>9, <2>2 DEF StreamRead
  <2> QED BY <1>9, <2>1, <2>2 DEF StreamRead
<1>10. CASE StreamWrite(r)
  <2>1. CASE relayed' = [relayed EXCEPT ![r] = @ + 1] /\ Go("gateway", r, "stream")
             /\ UNCHANGED <<reply, body>>
    <3>1. /\ relayed' \in [Requests -> Nat] /\ relayed'[r] = relayed[r] + 1
          /\ \A q \in Requests : q # r => relayed'[q] = relayed[q]
      BY <1>1, <2>1 DEF Counted
    <3>2. relayed[r] < produced[r] /\ relayed[r] \in Nat /\ produced[r] \in Nat
      BY <1>1, <1>10 DEF StreamWrite, Counted
    <3>3. LiveOK'
      BY <1>1, <1>10, <2>1, <3>1, <3>2 DEF StreamWrite, LiveOK
    <3>4. Counted'
      BY <1>1, <1>7, <1>10, <2>1, <3>1 DEF StreamWrite, Counted, Streaming
    <3> QED BY <1>6, <2>1, <3>3, <3>4 DEF Streaming
  <2>2. CASE StreamEnds(r) /\ UNCHANGED relayed
    BY <1>5, <1>10, <2>2 DEF StreamWrite
  <2> QED BY <1>10, <2>1, <2>2 DEF StreamWrite
<1> QED BY <1>8, <1>9, <1>10 DEF Stream

\* The service ends its stream; what the gateway was told of it stays.
LEMMA LiveOverKeeps ==
  ASSUME ForwardingInv, NEW r \in Requests, LiveOver(r)
  PROVE  ForwardingInv'
<1>1. /\ LinksOK /\ EdgeLogOK /\ GatewayLogOK /\ LiveOK /\ Counted /\ RequestInv(r)
      /\ at["service"][r] = "live" /\ Go("service", r, "done")
      /\ UNCHANGED <<request, reply, executed, tries>> /\ UNCHANGED <<edgeLog, gatewayLog>>
      /\ UNCHANGED <<produced, relayed, watcher, left>>
  BY DEF ForwardingInv, ForwardingTypeOK, LiveOver
<1>2. at' \in [Nodes -> [Requests -> Steps]] /\ Put(at, at', "service", r, "done")
  <2>1. "service" \in Nodes /\ "done" \in Steps
    BY DEF Nodes, Steps
  <2> QED BY <1>1, <2>1, GoEffect DEF LinksOK
<1>3. LinksOK' /\ GatewayLogOK'
  BY <1>1, <1>2 DEF LinksOK, GatewayLogOK, gatewayLog
<1>4. \A q \in Requests :
        at'["edge"][q] = at["edge"][q] /\ at'["gateway"][q] = at["gateway"][q]
  BY <1>2 DEF Put, Nodes, Hops
<1>5. EdgeLogOK' /\ Counted'
  BY <1>1, <1>4 DEF EdgeLogOK, Counted, edgeLog
<1>6. LiveOK'
  <2>1. PICK how \in {"ended", "lost"} :
          body' = IF body[r] = "open" THEN [body EXCEPT ![r] = how] ELSE body
    BY DEF LiveOver
  <2> QED BY <1>1, <2>1 DEF LiveOK
<1>7. RequestInv(r)'
  <2>1. at'["service"][r] = "done"
    BY <1>2 DEF Put
  <2>2. request[r] # None => request[r].via \in Hops
    BY <1>1 DEF LinksOK
  <2>3. request[r] # None
    BY <1>1 DEF RequestInv, InTurn, Nodes
  <2>4. StepsOf(r)' /\ LineOf(r)'
    BY <1>1, <1>4, <2>1 DEF RequestInv, StepsOf, ServiceSteps, LineOf, edgeLog
  <2>5. InTurn(r)'
    BY <1>1, <1>4, <2>1, <2>2, <2>3 DEF RequestInv, InTurn, Answered, Hops
  <2>6. TruthOf(r)'
    BY <1>1, <1>4, <2>1 DEF RequestInv, TruthOf, Told, Method
  <2>7. OnceAtMost(r)'
    BY <1>1, <1>4, <2>2 DEF RequestInv, OnceAtMost, Method, Hops
  <2>8. WholeOf(r)'
    BY <1>1, Zenon DEF RequestInv, WholeOf, Method
  <2> QED BY <2>4, <2>5, <2>6, <2>7, <2>8 DEF RequestInv
<1>8. ASSUME NEW q \in Requests, q # r PROVE RequestInv(q)'
  BY <1>1, <1>2, <1>8, OthersKeep DEF Put, edgeLog
<1> QED BY <1>3, <1>5, <1>6, <1>7, <1>8 DEF ForwardingInv, ForwardingTypeOK

-----------------------------------------------------------------------------
(* Every step.                                                             *)

LEMMA HopKeeps ==
  ASSUME ForwardingInv, NEW r \in Requests, NEW h \in Hops, Hop(h, r)
  PROVE  ForwardingInv'
<1>1. CASE Retry(h, r)
  BY <1>1, RetryKeeps DEF Retry, GoBoth
<1> QED BY <1>1, ArriveKeeps, DoKeeps, RelayKeeps DEF Hop

LEMMA StutterKeeps ==
  ASSUME ForwardingInv, UNCHANGED vars
  PROVE  ForwardingInv'
<1>1. LinksOK' /\ EdgeLogOK' /\ \A q \in Requests : RequestInv(q)'
  BY LinksStay DEF vars
<1>2. (GatewayLogOK /\ LiveOK)' /\ Counted'
  BY DEF vars, links, gatewayLog, live, GatewayLogOK, LiveOK, Counted, ForwardingInv, ForwardingTypeOK
<1> QED BY <1>1, <1>2 DEF ForwardingInv, ForwardingTypeOK

LEMMA NextKeeps == ForwardingInv /\ [Next]_vars => ForwardingInv'
<1> SUFFICES ASSUME ForwardingInv, [Next]_vars PROVE ForwardingInv'
  OBVIOUS
<1>1. ASSUME NEW r \in Requests, Handlers(r) PROVE ForwardingInv'
  <2>1. CASE EdgeLog(r)
    BY <2>1, LockLogKeeps, WriteLogKeeps, FlushLogKeeps DEF EdgeLog
  <2> QED BY <1>1, <2>1, HopKeeps, GatewayLogKeeps, StreamKeeps DEF Handlers
<1>2. ASSUME NEW r \in Requests, Others(r) PROVE ForwardingInv'
  BY <1>2, SendKeeps, ServeKeeps, ProduceKeeps, LiveOverKeeps, LeaveKeeps DEF Others
<1> QED BY <1>1, <1>2, WatchKeeps, StutterKeeps DEF Next, Finished

\* The steps of a request at its hops always fit together as ForwardingInv says, for
\* every method, ban and session, however connections break.
THEOREM Forwards == Spec => []ForwardingInv
<1>1. Init => ForwardingInv
  BY InitEstablishes
<1>2. ForwardingInv /\ [Next]_vars => ForwardingInv'
  BY NextKeeps
<1> QED BY <1>1, <1>2, PTL DEF Spec

\* Who shows a valid session and is told that a GET, or a PUT that he sent to the gateway,
\* has succeeded was served with that status by the service; the login page, whose status
\* is 200 too, goes to the others (makeAuthedRelay, relayGetHandler, relayPutHandler).
THEOREM AnswersAreTrue == Spec => []AnsweredTruly
<1>1. ForwardingInv => AnsweredTruly
  BY InvImplies
<1> QED BY <1>1, Forwards, PTL

\* A POST or a PUT is executed once at most, although both hops may repeat requests, and
\* is never answered with a part that looks like all; a POST of which only a part came is
\* not executed (relayPostHandler, relayPutHandler).
THEOREM ChangesAreSafe == Spec => []ChangesSafe
<1>1. ForwardingInv => ChangesSafe
  BY InvImplies
<1> QED BY <1>1, Forwards, PTL

\* Who has all of a reply through vhoster finds its line in the log file (ServeHTTP).
THEOREM AnswersAreLogged == Spec => []AnsweredIsLogged
<1>1. ForwardingInv => AnsweredIsLogged
  BY InvImplies
<1> QED BY <1>1, Forwards, PTL

-----------------------------------------------------------------------------
(* Which upstream vhoster takes, for names and configurations of any size. *)

\* Of two ends of one name, the shorter one is an end of the longer one.
LEMMA EndsOfOneName ==
  ASSUME NEW host, NEW s, NEW t, Len(host) \in Nat, Len(s) \in Nat, Len(t) \in Nat,
         HasSuffix(host, s), HasSuffix(host, t), Len(s) <= Len(t)
  PROVE  HasSuffix(t, s)
<1> SUFFICES ASSUME NEW i \in 1 .. Len(s) PROVE s[i] = t[Len(t) - Len(s) + i]
  BY DEF HasSuffix
<1>1. s[i] = host[Len(host) - Len(s) + i]
  BY DEF HasSuffix
<1> DEFINE k == Len(t) - Len(s) + i
<1>2. k \in 1 .. Len(t) /\ Len(host) - Len(t) + k = Len(host) - Len(s) + i
  OBVIOUS
<1>3. t[k] = host[Len(host) - Len(t) + k]
  BY <1>2 DEF HasSuffix
<1> QED BY <1>1, <1>2, <1>3

\* The loop of ServeHTTP stops at the first host that matches.
LEMMA FirstMatch ==
  ASSUME NEW host, NEW redirects, Len(redirects) \in Nat, DOMAIN redirects = 1 .. Len(redirects),
         NEW i \in Matching(host, redirects)
  PROVE  /\ Route(host, redirects) \in Matching(host, redirects)
         /\ \A j \in Matching(host, redirects) : Route(host, redirects) <= j
<1> DEFINE m == Matching(host, redirects)
<1>1. m \subseteq Nat /\ i \in m
  BY DEF Matching
<1>2. \E k \in m : \A j \in m : k <= j
  BY <1>1, SmallestOf
<1> QED BY <1>1, <1>2 DEF Route

\* Of any configuration in which no host hides one that follows it, a host name that
\* matches at all takes the longest entry that it matches (ServeHTTP).
THEOREM MostSpecificIsTaken ==
  ASSUME NEW redirects, Len(redirects) \in Nat, DOMAIN redirects = 1 .. Len(redirects),
         \A i \in DOMAIN redirects : Len(redirects[i]) \in Nat,
         WellOrdered(redirects),
         NEW host, Len(host) \in Nat, NEW i \in Matching(host, redirects)
  PROVE  /\ Route(host, redirects) \in Matching(host, redirects)
         /\ Len(redirects[i]) <= Len(redirects[Route(host, redirects)])
<1> DEFINE k == Route(host, redirects)
<1>1. k \in Matching(host, redirects) /\ k <= i
  BY FirstMatch
<1>2. /\ i \in DOMAIN redirects /\ HasSuffix(host, redirects[i])
      /\ k \in DOMAIN redirects /\ HasSuffix(host, redirects[k])
  BY <1>1 DEF Matching
<1>3. Len(redirects[i]) \in Nat /\ Len(redirects[k]) \in Nat
  BY <1>2
<1>4. CASE Len(redirects[i]) > Len(redirects[k])
  <2>1. HasSuffix(redirects[i], redirects[k])
    BY <1>2, <1>3, <1>4, EndsOfOneName
  <2>2. k < i
    BY <1>1, <1>2, <1>3, <1>4
  <2> QED BY <1>2, <2>1, <2>2 DEF WellOrdered
<1> QED BY <1>1, <1>3, <1>4

\* In particular for the names that the run tries.
THEOREM RouteIsMostSpecific == Spec => []MostSpecificRoute
<1>1. MostSpecificRoute
  <2> DEFINE Names == UNION {[1 .. k -> {"a", "b"}] : k \in 1 .. 3}
  <2> SUFFICES ASSUME NEW c \in Names \X Names \X Names, WellOrdered(c), NEW host \in Names,
                      NEW i \in Matching(host, c)
               PROVE  Route(host, c) # 0 /\ Len(c[i]) <= Len(c[Route(host, c)])
    BY DEF MostSpecificRoute
  <2>1. \A name \in Names : Len(name) \in Nat
    <3> SUFFICES ASSUME NEW k \in 1 .. 3, NEW name \in [1 .. k -> {"a", "b"}]
                 PROVE  Len(name) \in Nat
      OBVIOUS
    <3>1. name \in Seq({"a", "b"})
      OBVIOUS
    <3> QED BY <3>1
  <2>2. c = <<c[1], c[2], c[3]>> /\ c[1] \in Names /\ c[2] \in Names /\ c[3] \in Names
    <3> HIDE DEF Names
    <3> QED OBVIOUS
  <2> HIDE DEF Names
  <2>3. Len(c) = 3 /\ DOMAIN c = 1 .. 3
    BY <2>2
  <2>4. Len(c) \in Nat /\ \A j \in DOMAIN c : Len(c[j]) \in Nat
    BY <2>1, <2>2, <2>3
  <2>5. /\ Route(host, c) \in Matching(host, c)
        /\ Len(c[i]) <= Len(c[Route(host, c)])
    BY <2>1, <2>3, <2>4, MostSpecificIsTaken
  <2> QED BY <2>3, <2>5 DEF Matching
<1> QED BY <1>1, PTL

-----------------------------------------------------------------------------
(* The patterns that http.ServeMux is given (main): Wildcard takes care of *)
(* the "*" segment, each round of the loop of the next ":" segment.        *)

\* The first of some characters in a sequence: at the place that none of them precedes.
LEMMA IndexIs ==
  ASSUME NEW s, Len(s) \in Nat, NEW i \in Nat, NEW S, NEW k \in Nat,
         i <= k, k <= Len(s) + 1, k <= Len(s) => s[k] \in S,
         \A j \in i .. k - 1 : s[j] \notin S
  PROVE  IndexFrom(s, i, S) = k
<1> DEFINE found == {j \in i .. Len(s) : s[j] \in S}
<1>1. CASE k <= Len(s)
  <2>1. k \in found /\ \A j \in found : k <= j
    BY <1>1
  <2>2. \A l \in found : (\A j \in found : l <= j) => l = k
    BY <2>1
  <2>3. (CHOOSE l \in found : \A j \in found : l <= j) = k
    <3> HIDE DEF found
    <3> QED BY <2>1, <2>2
  <2> QED BY <2>1, <2>3 DEF IndexFrom
<1>2. CASE k = Len(s) + 1
  <2>1. found = {}
    BY <1>2
  <2> QED BY <1>2, <2>1 DEF IndexFrom
<1> QED BY <1>1, <1>2

\* A pattern that is empty or starts with a "/".
StartsSegment(s) == s # <<>> => s[1] = "/"

\* A pattern with a parameter after w, called name: where it starts and where it ends.
HasParameter(s, w, n, l) ==
  /\ Len(s) = l /\ w + 1 + n <= l
  /\ s[w + 1] = ":" /\ \A i \in 1 .. w : s[i] # ":"
  /\ \A i \in 1 .. n : s[w + 1 + i] # "/"
  /\ w + 1 + n < l => s[w + 1 + n + 1] = "/"

\* The loop finds its start and its end.
LEMMA ParameterAt ==
  ASSUME NEW s, NEW w \in Nat, NEW n \in Nat, NEW l \in Nat, HasParameter(s, w, n, l)
  PROVE  /\ IndexFrom(s, 1, {":"}) = w + 1
         /\ EndOfName(s, w + 1) = w + 1 + n + 1
<1> USE DEF HasParameter
<1>1. IndexFrom(s, 1, {":"}) = w + 1
  <2>1. \A j \in 1 .. (w + 1) - 1 : s[j] \notin {":"}
    OBVIOUS
  <2>2. /\ Len(s) \in Nat /\ w + 1 \in Nat /\ 1 \in Nat /\ 1 <= w + 1 /\ w + 1 <= Len(s) + 1
        /\ s[w + 1] \in {":"}
    OBVIOUS
  <2> QED BY <2>1, <2>2, IndexIs, Zenon
<1>2. EndOfName(s, w + 1) = w + 1 + n + 1
  <2>1. ASSUME NEW j \in w + 1 .. (w + 1 + n + 1) - 1 PROVE s[j] \notin {"/"}
    <3>1. CASE j = w + 1
      BY <3>1
    <3>2. CASE j # w + 1
      <4>1. j - (w + 1) \in 1 .. n /\ w + 1 + (j - (w + 1)) = j
        BY <3>2
      <4> QED BY <4>1
    <3> QED BY <3>1, <3>2
  <2>2. w + 1 + n + 1 <= Len(s) => s[w + 1 + n + 1] \in {"/"}
    OBVIOUS
  <2>3. w + 1 \in Nat /\ w + 1 + n + 1 \in Nat /\ w + 1 <= w + 1 + n + 1 /\ Len(s) \in Nat
        /\ w + 1 + n + 1 <= Len(s) + 1
    OBVIOUS
  <2> QED BY <2>1, <2>2, <2>3, IndexIs, Zenon DEF EndOfName
<1> QED BY <1>1, <1>2

\* One round of the loop, at the first parameter of a pattern.
LEMMA ParameterConverted ==
  ASSUME NEW C, NEW w \in Seq(C), NEW name \in Seq(C), NEW g \in Seq(C),
         ":" \in C, Lacks(w, ":"), Lacks(name, "/"), StartsSegment(g)
  PROVE  LET s == ((w \o <<":">>) \o name) \o g IN
         /\ OneParameter(s) = w \o <<"{">> \o name \o <<"}">> \o g
         /\ ~(IndexFrom(s, 1, {":"}) > Len(s))
<1>0. PICK s : Exactly(s, ((w \o <<":">>) \o name) \o g)
  BY DEF Exactly
<1>1. /\ s \in Seq(C) /\ Len(w) \in Nat /\ Len(name) \in Nat /\ Len(g) \in Nat
      /\ Len(s) = Len(w) + 1 + Len(name) + Len(g)
      /\ \A i \in 1 .. Len(w) : s[i] = w[i]
      /\ s[Len(w) + 1] = ":"
      /\ \A i \in 1 .. Len(name) : s[Len(w) + 1 + i] = name[i]
      /\ \A i \in 1 .. Len(g) : s[Len(w) + 1 + Len(name) + i] = g[i]
  BY <1>0, FourParts
<1>2. PICK lw \in Nat, ln \in Nat, lg \in Nat, ls \in Nat :
        /\ lw = Len(w) /\ ln = Len(name) /\ lg = Len(g) /\ ls = Len(s)
  BY <1>1
<1>3. /\ IndexFrom(s, 1, {":"}) = lw + 1
      /\ EndOfName(s, lw + 1) = lw + 1 + ln + 1
      /\ ls = lw + 1 + ln + lg
  <2>1. ls = lw + 1 + ln + lg /\ s[lw + 1] = ":"
    BY <1>1, <1>2, Zenon
  <2>2. ASSUME NEW i \in 1 .. lw PROVE s[i] # ":"
    <3>1. i \in 1 .. Len(w)
      BY <1>2, Zenon
    <3> QED BY <1>1, <3>1, Zenon DEF Lacks
  <2>3. ASSUME NEW i \in 1 .. ln PROVE s[lw + 1 + i] # "/"
    <3>1. i \in 1 .. Len(name) /\ lw + 1 + i = Len(w) + 1 + i
      BY <1>2, Zenon
    <3>2. s[Len(w) + 1 + i] = name[i]
      BY <1>1, <3>1, Zenon
    <3>3. name[i] # "/"
      BY <3>1 DEF Lacks
    <3> QED BY <3>1, <3>2, <3>3, Zenon
  <2>4. ASSUME lw + 1 + ln < ls PROVE s[lw + 1 + ln + 1] = "/"
    <3>1. lg # 0 /\ 1 \in 1 .. lg
      BY <2>1, <2>4
    <3>2. 1 \in 1 .. Len(g) /\ Len(g) # 0
      BY <1>2, <3>1, Zenon
    <3>3. g # <<>>
      BY <3>2
    <3>4. s[Len(w) + 1 + Len(name) + 1] = g[1]
      BY <1>1, <3>2, Zenon
    <3> QED BY <1>2, <3>3, <3>4, Zenon DEF StartsSegment
  <2>5. lw + 1 + ln <= ls
    BY <2>1
  <2>6. Len(s) = ls
    BY <1>2, Zenon
  <2>7. HasParameter(s, lw, ln, ls)
    BY <2>1, <2>2, <2>3, <2>4, <2>5, <2>6, Zenon DEF HasParameter
  <2>8. IndexFrom(s, 1, {":"}) = lw + 1 /\ EndOfName(s, lw + 1) = lw + 1 + ln + 1
    BY <2>7, ParameterAt
  <2> QED BY <2>1, <2>8, Zenon
<1>4. PICK o, a, b : o = <<":">> /\ a = w \o o /\ b = a \o name
  OBVIOUS
<1>5. s = b \o g
  BY <1>0, <1>4 DEF Exactly
<1>6. /\ o \in Seq(C)
  BY <1>4, OneOf, Zenon
<1>7. a \in Seq(C) /\ b \in Seq(C) /\ Len(a) = lw + 1 /\ Len(b) = lw + 1 + ln
  <2>1. w \o o \in Seq(C) /\ Len(w \o o) = Len(w) + 1
    BY <1>4, OneMore, Zenon
  <2>2. a \in Seq(C) /\ Len(a) = lw + 1
    BY <1>2, <1>4, <2>1, Zenon
  <2>3. a \o name \in Seq(C) /\ Len(a \o name) = Len(a) + Len(name)
    BY <2>2, JoinedFacts, Zenon
  <2> QED BY <1>2, <1>4, <2>2, <2>3, Zenon
<1>8. SubSeq(s, 1, (lw + 1) - 1) = w
  <2>1. name \o g \in Seq(C) /\ o \o (name \o g) \in Seq(C)
    BY <1>6, JoinedFacts, Zenon
  <2>0. a \in Seq(C)
    BY <1>7, Zenon
  <2>2. InThree(a, name, g) /\ InThree(w, o, name \o g)
    BY <1>6, <2>0, <2>1, JoinedInAnyOrder, Zenon
  <2>3. /\ (a \o name) \o g = a \o (name \o g)
        /\ (w \o o) \o (name \o g) = w \o (o \o (name \o g))
    BY <2>2, Zenon DEF InThree
  <2>4. SubSeq(w \o (o \o (name \o g)), 1, Len(w)) = w
    BY <2>1, Before, Zenon
  <2>5. (lw + 1) - 1 = lw
    BY <1>2
  <2> QED BY <1>2, <1>4, <1>5, <2>3, <2>4, <2>5, Zenon
<1>9. SubSeq(s, (lw + 1) + 1, (lw + 1 + ln + 1) - 1) = name
  <2>1. (lw + 1 + ln + 1) - 1 = lw + 1 + ln
    OBVIOUS
  <2>2. SubSeq((a \o name) \o g, Len(a) + 1, Len(a) + Len(name)) = name
    BY <1>7, Between, Zenon
  <2> QED BY <1>2, <1>4, <1>5, <1>7, <2>1, <2>2, Zenon
<1>10. SubSeq(s, lw + 1 + ln + 1, ls) = g
  <2>1. SubSeq(b \o g, Len(b) + 1, Len(b \o g)) = g
    BY <1>7, Follows, Zenon
  <2> QED BY <1>2, <1>5, <1>7, <2>1, Zenon
<1>11. OneParameter(s) = w \o <<"{">> \o name \o <<"}">> \o g
  BY <1>2, <1>3, <1>8, <1>9, <1>10, Zenon DEF OneParameter
<1>12. ~(IndexFrom(s, 1, {":"}) > Len(s))
  <2>1. ~(lw + 1 > ls)
    BY <1>3
  <2> QED BY <1>2, <1>3, <2>1, Zenon
<1> QED BY <1>0, <1>11, <1>12, Zenon DEF Exactly

\* f counts the rounds of the loop: f[k] is the pattern after k of them.
Rounds(f, pattern, k) == f[k] = IF k = 0 THEN Wildcard(pattern) ELSE OneParameter(f[k - 1])

Over(f, k) == IndexFrom(f[k], 1, {":"}) > Len(f[k])

LastRound(f, m) == CHOOSE k \in 0 .. m : Over(f, k) /\ \A j \in 0 .. k - 1 : ~Over(f, j)

\* The rounds that Convert counts are there, and it takes the pattern after the last.
LEMMA RoundsExist ==
  ASSUME NEW pattern, NEW n \in Nat, n = Len(pattern)
  PROVE  \E f : /\ \A k \in 0 .. n : Rounds(f, pattern, k)
                /\ Convert(pattern) = f[LastRound(f, n)]
<1> DEFINE After(f) == [k \in 0 .. n |-> IF k = 0 THEN Wildcard(pattern) ELSE OneParameter(f[k - 1])]
           UpTo == {m \in Nat : \E f : \A k \in 0 .. n : k <= m => Rounds(f, pattern, k)}
<1>1. 0 \in UpTo
  <2>1. \A k \in 0 .. n : k <= 0 => Rounds([j \in 0 .. n |-> Wildcard(pattern)], pattern, k)
    BY DEF Rounds
  <2> QED BY <2>1
<1>2. ASSUME NEW m \in Nat, m \in UpTo PROVE m + 1 \in UpTo
  <2>1. PICK f : \A k \in 0 .. n : k <= m => Rounds(f, pattern, k)
    BY <1>2
  <2>2. \A k \in 0 .. n : After(f)[k] = IF k = 0 THEN Wildcard(pattern) ELSE OneParameter(f[k - 1])
    OBVIOUS
  <2> PICK h : h = After(f)
    OBVIOUS
  <2>3. \A k \in 0 .. n : k <= m => h[k] = f[k]
    BY <2>1, <2>2 DEF Rounds
  <2>4. ASSUME NEW k \in 0 .. n, k <= m + 1 PROVE Rounds(h, pattern, k)
    <3>1. k # 0 => k - 1 \in 0 .. n /\ k - 1 <= m
      BY <2>4
    <3>2. k # 0 => h[k - 1] = f[k - 1]
      BY <2>3, <3>1
    <3> QED BY <2>2, <3>2 DEF Rounds
  <2>5. \E e : \A k \in 0 .. n : k <= m + 1 => Rounds(e, pattern, k)
    BY <2>4, Zenon
  <2>6. m + 1 \in Nat
    OBVIOUS
  <2> QED BY <2>5, <2>6, Zenon
<1>3. n \in UpTo
  <2> HIDE DEF UpTo
  <2>1. Nat \subseteq UpTo
    BY <1>1, <1>2, AllNumbers
  <2> QED BY <2>1
<1>4. PICK f : \A k \in 0 .. n : Rounds(f, pattern, k)
  BY <1>3
<1>5. PICK h : h = After(f)
  OBVIOUS
<1>6. \A k \in 0 .. n : h[k] = f[k]
  BY <1>4, <1>5 DEF Rounds
<1>7. After(f) = After(h)
  <2>1. \A k \in 0 .. n : k # 0 => k - 1 \in 0 .. n
    OBVIOUS
  <2>2. \A k \in 0 .. n : k # 0 => h[k - 1] = f[k - 1]
    BY <1>6, <2>1
  <2> QED BY <2>2
<1> DEFINE Is0(e) == e = [k \in 0 .. n |-> IF k = 0 THEN Wildcard(pattern) ELSE OneParameter(e[k - 1])]
           rounds == CHOOSE e : Is0(e)
<1>8. Is0(h)
  BY <1>5, <1>7
<1>9. Is0(rounds)
  <2> HIDE DEF Is0
  <2> QED BY <1>8
<1>10. \A k \in 0 .. n : Rounds(rounds, pattern, k)
  <2>1. PICK e : e = rounds
    OBVIOUS
  <2>2. e = After(e)
    BY <1>9, <2>1
  <2>3. \A k \in 0 .. n : Rounds(e, pattern, k)
    BY <2>2 DEF Rounds
  <2> QED BY <2>1, <2>3
<1>11. Convert(pattern) = rounds[LastRound(rounds, n)]
  BY Zenon DEF Convert, Over, LastRound
<1> QED BY <1>10, <1>11

\* The first round at which the loop is over is the one that it stops at.
LEMMA StopsAt ==
  ASSUME NEW m \in Nat, NEW f, NEW k \in 0 .. m, Over(f, k), \A j \in 0 .. k - 1 : ~Over(f, j)
  PROVE  LastRound(f, m) = k
<1> DEFINE First(l) == Over(f, l) /\ \A j \in 0 .. l - 1 : ~Over(f, j)
<1>1. First(k)
  OBVIOUS
<1>2. ASSUME NEW l \in 0 .. m, First(l) PROVE l = k
  <2>1. ~(l < k)
    BY <1>2
  <2>2. ~(k < l)
    BY <1>2
  <2> QED BY <2>1, <2>2
<1>3. (CHOOSE l \in 0 .. m : First(l)) = k
  <2> HIDE DEF First
  <2> QED BY <1>1, <1>2
<1> QED BY <1>3 DEF LastRound

\* b is what the loop makes of a part a of a pattern: the same, or the parameter that a
\* ends with in braces.
Marks == {":", "/", "{", "}", "*", "..."}

Rewritten(a, b, C) ==
  \/ a = b
  \/ \E u \in Seq(C \ {":"}), name \in Seq(C \ {"/"}) :
       /\ a = (u \o <<":">>) \o name
       /\ b = ((u \o <<"{">>) \o name) \o <<"}">>

\* The segments before i converted, those from i on as they were: the next segment is
\* as it should be, or the next round makes it so.
Advances(done, a, b, rest) ==
  \/ done \o (a \o rest) = (done \o b) \o rest
  \/ /\ OneParameter(done \o (a \o rest)) = (done \o b) \o rest
     /\ ~(IndexFrom(done \o (a \o rest), 1, {":"}) > Len(done \o (a \o rest)))

\* The next segment, with its parameter if it has one, is converted by at most one round.
LEMMA NextSegment ==
  ASSUME NEW C, Marks \subseteq C,
         NEW done \in Seq(C \ {":"}), NEW a \in Seq(C), NEW b \in Seq(C \ {":"}),
         NEW rest \in Seq(C), StartsSegment(rest), Rewritten(a, b, C)
  PROVE  Advances(done, a, b, rest)
<1>0. PICK S : S = Seq(C) /\ Joinable(S)
  BY SequencesJoin, Zenon
<1>03. ":" \in C /\ "{" \in C /\ "}" \in C
  BY Zenon DEF Marks
<1>01. Joinable(S)
  BY <1>0, Zenon
<1>02. \A v, w, x, y, z \in S : InAnyOrder(v, w, x, y, z)
  BY <1>01, FiveParts, Zenon
<1>00. done \in Seq(C)
  BY LackingIn
<1>1. CASE a = b
  <2>1. done \in S /\ a \in S /\ rest \in S
    BY <1>0, <1>00, Zenon
  <2>2. Cat(done, Cat(a, rest)) = Cat(Cat(done, a), rest)
    BY <1>01, <2>1 DEF Joinable
  <2> QED BY <1>1, <2>2, Zenon DEF Cat, Advances
<1>2. CASE a # b
  <2>1. PICK u \in Seq(C \ {":"}), name \in Seq(C \ {"/"}) :
          /\ a = (u \o <<":">>) \o name
          /\ b = ((u \o <<"{">>) \o name) \o <<"}">>
    BY <1>2 DEF Rewritten
  <2>2. PICK w : w = done \o u
    OBVIOUS
  <2>3. w \in Seq(C \ {":"})
    BY <2>2, JoinedFacts
  <2>4. w \in Seq(C) /\ Lacks(w, ":") /\ name \in Seq(C) /\ Lacks(name, "/") /\ u \in Seq(C)
    BY <2>3, LackingIn
  <2>5. PICK o, l, r : /\ o = <<":">> /\ l = <<"{">> /\ r = <<"}">>
                       /\ o \in Seq(C) /\ l \in Seq(C) /\ r \in Seq(C)
    BY <1>03, OneOf, Zenon
  <2>6. /\ OneParameter(((w \o o) \o name) \o rest) = w \o l \o name \o r \o rest
        /\ ~(IndexFrom(((w \o o) \o name) \o rest, 1, {":"}) > Len(((w \o o) \o name) \o rest))
    <3>1. /\ OneParameter(((w \o <<":">>) \o name) \o rest) = w \o <<"{">> \o name \o <<"}">> \o rest
          /\ ~(IndexFrom(((w \o <<":">>) \o name) \o rest, 1, {":"})
                  > Len(((w \o <<":">>) \o name) \o rest))
      BY <1>03, <2>4, ParameterConverted, Zenon
    <3> QED BY <2>5, <3>1, Zenon
  <2>7. /\ done \in S /\ u \in S /\ o \in S /\ l \in S /\ r \in S /\ name \in S /\ rest \in S
    BY <1>0, <1>00, <2>4, <2>5, Zenon
  <2>8. done \o (a \o rest) = ((w \o o) \o name) \o rest
    <3>1. a = (u \o o) \o name
      BY <2>1, <2>5, Zenon
    <3>2. InAnyOrder(done, u, o, name, rest)
      BY <1>02, <2>7, Zenon
    <3> QED BY <2>2, <3>1, <3>2, Zenon DEF InAnyOrder
  <2>9. w \o l \o name \o r \o rest = (done \o b) \o rest
    <3>1. b = ((u \o l) \o name) \o r
      BY <2>1, <2>5, Zenon
    <3>2. InAnyOrder(done, u, l, name, r)
      BY <1>02, <2>7, Zenon
    <3> QED BY <2>2, <3>1, <3>2, Zenon DEF InAnyOrder
  <2> QED BY <2>6, <2>8, <2>9, Zenon DEF Advances
<1> QED BY <1>1, <1>2

\* The loop converts the segments one after the other.
Convertible(a, b, n, C) ==
  /\ a \in Seq(Seq(C)) /\ b \in Seq(Seq(C \ {":"})) /\ Len(a) = n /\ Len(b) = n
  /\ \A i \in 1 .. n : a[i] # <<>> /\ a[i][1] = "/" /\ Rewritten(a[i], b[i], C)

LoopStarts(pattern, m, a) ==
  Len(pattern) = m /\ Wildcard(pattern) = FlattenSeq(a)

\* A loop that starts with the segments a ends with the segments b.
LEMMA LoopConverts ==
  ASSUME NEW C, Marks \subseteq C,
         NEW a, NEW b, NEW n \in Nat, Convertible(a, b, n, C),
         NEW pattern, NEW m \in Nat, n <= m, LoopStarts(pattern, m, a)
  PROVE  Convert(pattern) = FlattenSeq(b)
<1>0. a \in Seq(Seq(C)) /\ b \in Seq(Seq(C \ {":"}))
  BY DEF Convertible
<1>01. Len(a) = n /\ Len(b) = n
  BY DEF Convertible
<1>02. Len(pattern) = m
  BY DEF LoopStarts
<1>1. PICK f : /\ \A k \in 0 .. m : Rounds(f, pattern, k)
               /\ Convert(pattern) = f[LastRound(f, m)]
  BY <1>02, RoundsExist, Zenon
<1> DEFINE done(i) == FlattenSeq(SubSeq(b, 1, i))
           rest(i) == FlattenSeq(SubSeq(a, i + 1, n))
           Reached(i) == \E k \in 0 .. i : f[k] = done(i) \o rest(i) /\ \A j \in 0 .. k - 1 : ~Over(f, j)
           Good == {i \in Nat : i <= n => Reached(i)}
<1>2. 0 \in Good
  <2>1. SubSeq(b, 1, 0) = <<>> /\ SubSeq(a, 0 + 1, n) = a
    <3>1. SubSeq(a, 1, Len(a)) = a
      BY <1>0, NothingCut, Zenon
    <3>2. 0 + 1 = 1
      OBVIOUS
    <3>3. SubSeq(b, 1, 0) = <<>>
      BY SubSeqEmpty
    <3> QED BY <1>01, <3>1, <3>2, <3>3, Zenon
  <2>2. done(0) = <<>> /\ rest(0) = FlattenSeq(a)
    BY <2>1, FlattenEmpty, Zenon
  <2>3. FlattenSeq(a) \in Seq(C)
    BY <1>0, FlattenType, Zenon
  <2>4. <<>> \o FlattenSeq(a) = FlattenSeq(a)
    BY <2>3, ConcatEmptySeq
  <2>5. f[0] = FlattenSeq(a)
    <3>1. 0 \in 0 .. m
      OBVIOUS
    <3>2. Rounds(f, pattern, 0)
      BY <1>1, <3>1, Zenon
    <3> QED BY <3>2 DEF Rounds, LoopStarts
  <2>6. f[0] = done(0) \o rest(0)
    BY <2>2, <2>4, <2>5, Zenon
  <2>7. 0 \in 0 .. 0 /\ \A j \in 0 .. 0 - 1 : ~Over(f, j)
    OBVIOUS
  <2> HIDE DEF done, rest
  <2> QED BY <2>6, <2>7
<1>3. ASSUME NEW i \in Nat, i \in Good PROVE i + 1 \in Good
  <2> SUFFICES ASSUME i + 1 <= n PROVE Reached(i + 1)
    OBVIOUS
  <2>0. i < n /\ i <= n /\ i + 1 \in 1 .. n /\ (i + 1) + 1 = i + 2
    OBVIOUS
  <2>00. i < Len(a) /\ i < Len(b)
    BY <1>01, <2>0, Zenon
  <2>1. PICK k \in 0 .. i : f[k] = done(i) \o rest(i) /\ \A j \in 0 .. k - 1 : ~Over(f, j)
    BY <1>3, <2>0
  <2>2. /\ done(i) \in Seq(C \ {":"}) /\ b[i + 1] \in Seq(C \ {":"})
        /\ done(i + 1) = done(i) \o b[i + 1]
    BY <1>0, <1>01, <2>00, FlattenCut, Zenon
  <2>3. /\ a[i + 1] \in Seq(C) /\ rest(i + 1) \in Seq(C) /\ rest(i) = a[i + 1] \o rest(i + 1)
    <3>1. /\ a[i + 1] \in Seq(C) /\ FlattenSeq(SubSeq(a, i + 2, n)) \in Seq(C)
          /\ FlattenSeq(SubSeq(a, i + 1, n)) = a[i + 1] \o FlattenSeq(SubSeq(a, i + 2, n))
      BY <1>0, <1>01, <2>00, FlattenCut, Zenon
    <3> QED BY <2>0, <3>1, Zenon
  <2>4. StartsSegment(rest(i + 1))
    <3>1. CASE i + 1 = n
      <4>1. SubSeq(a, (i + 1) + 1, n) = <<>>
        BY <3>1, SubSeqEmpty
      <4>2. rest(i + 1) = <<>>
        BY <4>1, FlattenEmpty, Zenon
      <4> QED BY <4>2 DEF StartsSegment
    <3>2. CASE i + 1 # n
      <4>1. i + 1 \in Nat /\ i + 1 < n /\ (i + 1) + 1 \in 1 .. n
        BY <2>0, <3>2
      <4>0. i + 1 < Len(a)
        BY <1>01, <4>1, Zenon
      <4>6. /\ a[(i + 1) + 1] \in Seq(C) /\ FlattenSeq(SubSeq(a, (i + 1) + 2, Len(a))) \in Seq(C)
            /\ FlattenSeq(SubSeq(a, (i + 1) + 1, Len(a)))
                 = a[(i + 1) + 1] \o FlattenSeq(SubSeq(a, (i + 1) + 2, Len(a)))
        BY <1>0, <4>0, <4>1, FlattenCut, Zenon
      <4>2. PICK x, y : /\ x = a[(i + 1) + 1] /\ y = FlattenSeq(SubSeq(a, (i + 1) + 2, n))
                        /\ x \in Seq(C) /\ y \in Seq(C) /\ rest(i + 1) = x \o y
        BY <1>01, <4>6, Zenon
      <4>3. x # <<>> /\ x[1] = "/"
        BY <4>1, <4>2 DEF Convertible
      <4>4. Len(x) # 0
        BY <4>2, <4>3
      <4>5. (x \o y)[1] = x[1]
        BY <4>2, <4>4, StartOf, Zenon
      <4> QED BY <4>2, <4>3, <4>5, Zenon DEF StartsSegment
    <3> QED BY <3>1, <3>2
  <2>5. Rewritten(a[i + 1], b[i + 1], C)
    BY <2>0 DEF Convertible
  <2>6. PICK d, x, y, r : d = done(i) /\ x = a[i + 1] /\ y = b[i + 1] /\ r = rest(i + 1)
    OBVIOUS
  <2>07. Marks \subseteq C
    OBVIOUS
  <2>7. \/ d \o (x \o r) = (d \o y) \o r
        \/ /\ OneParameter(d \o (x \o r)) = (d \o y) \o r
           /\ ~(IndexFrom(d \o (x \o r), 1, {":"}) > Len(d \o (x \o r)))
    <3>1. /\ d \in Seq(C \ {":"}) /\ x \in Seq(C) /\ y \in Seq(C \ {":"}) /\ r \in Seq(C)
          /\ StartsSegment(r) /\ Rewritten(x, y, C)
      BY <2>2, <2>3, <2>4, <2>5, <2>6, Zenon
    <3>2. Advances(d, x, y, r)
      BY <2>07, <3>1, NextSegment
    <3> QED BY <3>2, Zenon DEF Advances
  <2>8. f[k] = d \o (x \o r) /\ done(i + 1) \o rest(i + 1) = (d \o y) \o r
    BY <2>1, <2>2, <2>3, <2>6, Zenon
  <2> HIDE DEF done, rest
  <2>9. CASE d \o (x \o r) = (d \o y) \o r
    <3>1. k \in 0 .. i + 1
      OBVIOUS
    <3>2. f[k] = done(i + 1) \o rest(i + 1)
      BY <2>8, <2>9, Zenon
    <3> QED BY <2>1, <3>1, <3>2, Zenon
  <2>10. CASE /\ OneParameter(d \o (x \o r)) = (d \o y) \o r
              /\ ~(IndexFrom(d \o (x \o r), 1, {":"}) > Len(d \o (x \o r)))
    <3>1. /\ k + 1 \in 0 .. i + 1 /\ k + 1 \in 0 .. m /\ k + 1 # 0 /\ (k + 1) - 1 = k
          /\ \A j \in 0 .. (k + 1) - 1 : j \in 0 .. k - 1 \/ j = k
      OBVIOUS
    <3>2. f[k + 1] = OneParameter(f[k])
      BY <1>1, <3>1 DEF Rounds
    <3>3. f[k + 1] = done(i + 1) \o rest(i + 1)
      BY <2>8, <2>10, <3>2, Zenon
    <3>4. ~Over(f, k)
      BY <2>8, <2>10, Zenon DEF Over
    <3>5. \A j \in 0 .. (k + 1) - 1 : ~Over(f, j)
      BY <2>1, <3>1, <3>4, Zenon
    <3> QED BY <3>1, <3>3, <3>5, Zenon
  <2> QED BY <2>7, <2>9, <2>10
<1>4. n \in Good
  <2> HIDE DEF Good
  <2>1. Nat \subseteq Good
    BY <1>2, <1>3, AllNumbers
  <2> QED BY <2>1
<1>5. PICK k \in 0 .. n : /\ f[k] = done(n) \o rest(n)
                               /\ \A j \in 0 .. k - 1 : ~Over(f, j)
  BY <1>4
<1>6. f[k] = FlattenSeq(b)
  <2>1. SubSeq(b, 1, n) = b /\ SubSeq(a, n + 1, n) = <<>>
    <3>1. SubSeq(b, 1, Len(b)) = b
      BY <1>0, NothingCut, Zenon
    <3>2. n + 1 \in Int /\ n \in Int /\ n < n + 1
      OBVIOUS
    <3> QED BY <1>01, <3>1, <3>2, SubSeqEmpty, Zenon
  <2>2. done(n) = FlattenSeq(b) /\ rest(n) = <<>>
    BY <2>1, FlattenEmpty, Zenon
  <2>3. FlattenSeq(b) \in Seq(C \ {":"})
    BY <1>0, FlattenType, Zenon
  <2>4. FlattenSeq(b) \o <<>> = FlattenSeq(b)
    BY <2>3, ConcatEmptySeq
  <2> QED BY <1>5, <2>2, <2>4, Zenon
<1>7. Over(f, k)
  <2>1. PICK s : s = FlattenSeq(b)
    OBVIOUS
  <2>2. s \in Seq(C \ {":"})
    BY <1>0, <2>1, FlattenType, Zenon
  <2>3. Len(s) \in Nat /\ \A j \in 1 .. Len(s) : s[j] \notin {":"}
    BY <2>2
  <2>4. IndexFrom(s, 1, {":"}) = Len(s) + 1
    <3>1. \A j \in 1 .. (Len(s) + 1) - 1 : s[j] \notin {":"}
      BY <2>3
    <3>2. /\ Len(s) + 1 \in Nat /\ 1 \in Nat /\ 1 <= Len(s) + 1 /\ Len(s) + 1 <= Len(s) + 1
          /\ ~(Len(s) + 1 <= Len(s))
      BY <2>3
    <3> QED BY <2>3, <3>1, <3>2, IndexIs, Zenon
  <2>5. Len(s) + 1 > Len(s)
    BY <2>3
  <2> QED BY <1>6, <2>1, <2>4, <2>5, Zenon DEF Over
<1> HIDE DEF done, rest
<1>8. k \in 0 .. m
  OBVIOUS
<1>9. Convert(pattern) = f[k]
  <2>1. LastRound(f, m) = k
    BY <1>5, <1>7, <1>8, StopsAt
  <2> QED BY <1>1, <2>1, Zenon
<1> QED BY <1>6, <1>9, Zenon

\* A segment of a configured pattern: a word, a parameter, or the rest of the path; as it
\* is given and as http.ServeMux wants it.
Kinds == {"word", "name", "rest"}

GivenAs(s) ==
  IF s.kind = "word" THEN <<"/">> \o s.text
  ELSE IF s.kind = "name" THEN (<<"/">> \o <<":">>) \o s.text
  ELSE (<<"/">> \o <<"*">>) \o s.text

WantedAs(s) ==
  IF s.kind = "word" THEN <<"/">> \o s.text
  ELSE IF s.kind = "name" THEN ((<<"/">> \o <<"{">>) \o s.text) \o <<"}">>
  ELSE ((<<"/">> \o <<"{">>) \o s.text) \o <<"...", "}">>

\* The rest of the path converted, and nothing else.
HalfAs(s) == IF s.kind = "rest" THEN WantedAs(s) ELSE GivenAs(s)

\* The first o of a sequence, and the sequence with l in its place.
Replaced(w, o, l, name) ==
  /\ IndexFrom((w \o <<o>>) \o name, 1, {o}) = Len(w) + 1
  /\ ~(Len(w) + 1 > Len((w \o <<o>>) \o name))
  /\ ReplaceAt((w \o <<o>>) \o name, Len(w) + 1, l) = (w \o <<l>>) \o name

\* Of w, o and name, where w has no o, the first o is replaced.
LEMMA FirstReplaced ==
  ASSUME NEW C, NEW w \in Seq(C), NEW name \in Seq(C), NEW o \in C, NEW l \in C, Lacks(w, o)
  PROVE  Replaced(w, o, l, name)
<1>1. PICK s, t : Exactly(s, (w \o <<o>>) \o name) /\ Exactly(t, (w \o <<l>>) \o name)
  BY Zenon DEF Exactly
<1>2. s = (w \o <<o>>) \o name /\ t = (w \o <<l>>) \o name
  BY <1>1, Zenon DEF Exactly
<1>3. /\ s \in Seq(C) /\ Len(w) \in Nat /\ Len(name) \in Nat
      /\ Len(s) = Len(w) + 1 + Len(name)
      /\ \A i \in 1 .. Len(w) : s[i] = w[i]
      /\ s[Len(w) + 1] = o
      /\ \A i \in 1 .. Len(name) : s[Len(w) + 1 + i] = name[i]
  BY <1>1, ThreeParts
<1>4. /\ t \in Seq(C)
      /\ Len(t) = Len(w) + 1 + Len(name)
      /\ \A i \in 1 .. Len(w) : t[i] = w[i]
      /\ t[Len(w) + 1] = l
      /\ \A i \in 1 .. Len(name) : t[Len(w) + 1 + i] = name[i]
  BY <1>1, ThreeParts
<1>5. PICK k, n, m : k = Len(w) /\ n = Len(name) /\ m = Len(s) /\ k \in Nat /\ n \in Nat /\ m \in Nat
  <2>1. Len(s) \in Nat
    BY <1>3
  <2> QED BY <1>3, <2>1, Zenon
<1>6. m = k + 1 + n /\ Len(t) = m
  <2>1. Len(s) = k + 1 + n
    BY <1>3, <1>5, Zenon
  <2>2. Len(t) = k + 1 + n
    BY <1>4, <1>5, Zenon
  <2> QED BY <1>5, <2>1, <2>2, Zenon
<1>7. ReplaceAt(s, k + 1, l) = t
  <2>1. PICK e : e = ReplaceAt(s, k + 1, l)
    OBVIOUS
  <2>2. e \in Seq(C) /\ Len(e) = m /\ \A i \in 1 .. m : e[i] = IF i = k + 1 THEN l ELSE s[i]
    BY <1>3, <1>5, <2>1 DEF ReplaceAt
  <2>3. ASSUME NEW i \in 1 .. m PROVE e[i] = t[i]
    <3>1. CASE i = k + 1
      BY <1>4, <1>5, <2>2, <3>1, Zenon
    <3>2. CASE i \in 1 .. k
      <4>1. i \in 1 .. Len(w) /\ i # k + 1
        BY <1>5, <3>2
      <4> QED BY <1>3, <1>4, <2>2, <4>1, Zenon
    <3>3. CASE i # k + 1 /\ i \notin 1 .. k
      <4>1. PICK j \in 1 .. n : k + 1 + j = i
        <5>1. i - (k + 1) \in 1 .. n /\ k + 1 + (i - (k + 1)) = i
          BY <1>5, <1>6, <3>3
        <5> QED BY <5>1
      <4>2. j \in 1 .. Len(name) /\ Len(w) + 1 + j = i
        BY <1>5, <4>1, Zenon
      <4>3. s[Len(w) + 1 + j] = name[j] /\ t[Len(w) + 1 + j] = name[j]
        BY <1>3, <1>4, <4>2, Zenon
      <4> QED BY <2>2, <3>3, <4>2, <4>3, Zenon
    <3> QED BY <3>1, <3>2, <3>3
  <2>4. Len(e) = Len(t) /\ \A i \in 1 .. Len(e) : e[i] = t[i]
    BY <1>6, <2>2, <2>3, Zenon
  <2> QED BY <1>4, <2>1, <2>2, <2>4, SeqEqual, Zenon
<1>8. IndexFrom(s, 1, {o}) = k + 1
  <2>1. \A j \in 1 .. (k + 1) - 1 : s[j] \notin {o}
    <3> SUFFICES ASSUME NEW j \in 1 .. (k + 1) - 1 PROVE s[j] # o
      OBVIOUS
    <3>1. j \in 1 .. Len(w)
      BY <1>5
    <3>2. s[j] = w[j]
      BY <1>3, <3>1, Zenon
    <3>3. w[j] # o
      BY <3>1 DEF Lacks
    <3> QED BY <3>2, <3>3, Zenon
  <2>2. s[k + 1] \in {o}
    BY <1>3, <1>5, Zenon
  <2>3. k + 1 \in Nat /\ 1 \in Nat /\ 1 <= k + 1 /\ k + 1 <= m + 1 /\ Len(s) \in Nat /\ Len(s) = m
    BY <1>5, <1>6
  <2> QED BY <2>1, <2>2, <2>3, IndexIs, Zenon
<1>9. ~(k + 1 > Len(s))
  BY <1>5, <1>6
<1> QED BY <1>2, <1>5, <1>7, <1>8, <1>9, Zenon DEF Replaced

\* The first "*" of a pattern, and what becomes of it (strings.Replace).
Closed(s) == s \o <<"...", "}">>

Starred(w, name) == (w \o <<"*">>) \o name

Braced(w, name) == (w \o <<"{">>) \o name

\* With one "*", after w, Wildcard opens a brace there and closes it at the end.
LEMMA WildcardConverted ==
  ASSUME NEW C, Marks \subseteq C, NEW w \in Seq(C), NEW name \in Seq(C), Lacks(w, "*")
  PROVE  Wildcard(Starred(w, name)) = Closed(Braced(w, name))
<1>0. "*" \in C /\ "{" \in C
  BY Zenon DEF Marks
<1>1. Replaced(w, "*", "{", name)
  BY <1>0, FirstReplaced, Zenon
<1> QED BY <1>1, Zenon DEF Wildcard, Starred, Braced, Closed, Replaced

\* A pattern without a "*" stays as it is.
LEMMA NoWildcard ==
  ASSUME NEW C, NEW s \in Seq(C), Lacks(s, "*")
  PROVE  Wildcard(s) = s
<1>1. IndexFrom(s, 1, {"*"}) = Len(s) + 1
  <2>1. \A j \in 1 .. (Len(s) + 1) - 1 : s[j] \notin {"*"}
    BY DEF Lacks
  <2>2. /\ Len(s) \in Nat /\ Len(s) + 1 \in Nat /\ 1 \in Nat /\ 1 <= Len(s) + 1
        /\ Len(s) + 1 <= Len(s) + 1 /\ ~(Len(s) + 1 <= Len(s))
    OBVIOUS
  <2> QED BY <2>1, <2>2, IndexIs, Zenon
<1>2. Len(s) + 1 > Len(s)
  OBVIOUS
<1> QED BY <1>1, <1>2, Zenon DEF Wildcard

\* A sequence that starts with a "/", and stays one when more is joined to it.
Slashed(x, C) == x \in Seq(C) /\ x # <<>> /\ x[1] = "/"

\* A "/" is one.
LEMMA SlashedFirst ==
  ASSUME NEW C, "/" \in C
  PROVE  Slashed(<<"/">>, C)
  BY DEF Slashed

\* It stays one with y after it.
LEMMA SlashedMore ==
  ASSUME NEW C, NEW x, Slashed(x, C), NEW y \in Seq(C)
  PROVE  Slashed(x \o y, C)
<1>1. x \in Seq(C) /\ Len(x) \in Nat /\ Len(x) # 0 /\ x[1] = "/"
  BY DEF Slashed
<1>2. PICK z : z = x \o y
  OBVIOUS
<1>3. z \in Seq(C) /\ Len(z) = Len(x) + Len(y) /\ Len(y) \in Nat /\ \A i \in 1 .. Len(x) : z[i] = x[i]
  BY <1>1, <1>2
<1>4. z # <<>> /\ z[1] = "/"
  BY <1>1, <1>3
<1> QED BY <1>2, <1>3, <1>4, Zenon DEF Slashed

\* The letters of which the segments are made, and the characters of the patterns.
Plain(Letters) == ":" \notin Letters /\ "/" \notin Letters /\ "*" \notin Letters

\* Every form that a segment takes is one.
LEMMA SegmentForms ==
  ASSUME NEW D, "/" \in D, NEW text \in Seq(D)
  PROVE  /\ Slashed(<<"/">> \o text, D)
         /\ ":" \in D => Slashed((<<"/">> \o <<":">>) \o text, D)
         /\ "*" \in D => Slashed((<<"/">> \o <<"*">>) \o text, D)
         /\ "{" \in D /\ "}" \in D => Slashed(((<<"/">> \o <<"{">>) \o text) \o <<"}">>, D)
         /\ "{" \in D /\ "}" \in D /\ "..." \in D =>
              Slashed(((<<"/">> \o <<"{">>) \o text) \o <<"...", "}">>, D)
<1>1. Slashed(<<"/">>, D)
  BY SlashedFirst, Zenon
<1>2. Slashed(<<"/">> \o text, D)
  BY <1>1, SlashedMore, Zenon
<1>3. ASSUME NEW c \in D PROVE Slashed((<<"/">> \o <<c>>) \o text, D)
  <2>1. <<c>> \in Seq(D)
    BY OneOf, Zenon
  <2>2. Slashed(<<"/">> \o <<c>>, D)
    BY <1>1, <2>1, SlashedMore, Zenon
  <2> QED BY <2>2, SlashedMore, Zenon
<1>4. ASSUME NEW c \in D, NEW y \in Seq(D) PROVE Slashed(((<<"/">> \o <<c>>) \o text) \o y, D)
  BY <1>3, SlashedMore, Zenon
<1>5. "{" \in D /\ "}" \in D => Slashed(((<<"/">> \o <<"{">>) \o text) \o <<"}">>, D)
  <2>1. "}" \in D => <<"}">> \in Seq(D)
    BY OneOf, Zenon
  <2> QED BY <1>4, <2>1, Zenon
<1>6. "{" \in D /\ "}" \in D /\ "..." \in D =>
        Slashed(((<<"/">> \o <<"{">>) \o text) \o <<"...", "}">>, D)
  <2>1. "}" \in D /\ "..." \in D => <<"...", "}">> \in Seq(D)
    BY TwoOf, Zenon
  <2> QED BY <1>4, <2>1, Zenon
<1>7. ":" \in D => Slashed((<<"/">> \o <<":">>) \o text, D)
  BY <1>3, Zenon
<1>8. "*" \in D => Slashed((<<"/">> \o <<"*">>) \o text, D)
  BY <1>3, Zenon
<1> QED BY <1>2, <1>5, <1>6, <1>7, <1>8, Zenon

Segments(Letters) == [kind : Kinds, text : Seq(Letters)]

\* What is to be known of a segment, of characters in C.
Segment(s, C) ==
  /\ Slashed(GivenAs(s), C) /\ Slashed(HalfAs(s), C)
  /\ WantedAs(s) \in Seq(C \ {":"}) /\ Rewritten(HalfAs(s), WantedAs(s), C)
  /\ s.kind # "rest" => GivenAs(s) = HalfAs(s) /\ GivenAs(s) \in Seq(C \ {"*"})
  /\ s.kind = "rest" => \E t \in Seq(C) : /\ GivenAs(s) = Starred(<<"/">>, t)
                                          /\ HalfAs(s) = Closed(Braced(<<"/">>, t))

\* It is so of every segment of plain letters.
LEMMA SegmentFacts ==
  ASSUME NEW Letters, Plain(Letters), NEW C, C = Letters \union Marks, NEW s \in Segments(Letters)
  PROVE  Segment(s, C)
<1>1. s.kind \in Kinds /\ s.text \in Seq(Letters)
  BY DEF Segments
<1>2. PICK text : text = s.text
  OBVIOUS
<1>3. text \in Seq(Letters)
  BY <1>1, <1>2, Zenon
<1>4. PICK D, E, F : D = C \ {":"} /\ E = C \ {"*"} /\ F = C \ {"/"}
  OBVIOUS
<1>5. Letters \subseteq C /\ Letters \subseteq D /\ Letters \subseteq E /\ Letters \subseteq F
  BY <1>4, Zenon DEF Plain
<1>6. text \in Seq(C) /\ text \in Seq(D) /\ text \in Seq(E) /\ text \in Seq(F)
  BY <1>3, <1>5, Within, Zenon
<1>7. /\ "/" \in C /\ ":" \in C /\ "*" \in C /\ "{" \in C /\ "}" \in C /\ "..." \in C
      /\ "/" \in D /\ "{" \in D /\ "}" \in D /\ "..." \in D
      /\ "/" \in E /\ ":" \in E
  BY <1>4, Zenon DEF Marks
<1>8. <<"/">> \in Seq(D)
  BY <1>7, OneOf, Zenon
<1>9. CASE s.kind = "word"
  <2>1. /\ GivenAs(s) = <<"/">> \o text /\ WantedAs(s) = <<"/">> \o text
        /\ HalfAs(s) = <<"/">> \o text /\ s.kind # "rest"
    BY <1>2, <1>9, Zenon DEF GivenAs, WantedAs, HalfAs
  <2>2. /\ Slashed(<<"/">> \o text, C) /\ Slashed(<<"/">> \o text, D)
        /\ Slashed(<<"/">> \o text, E)
    BY <1>6, <1>7, SegmentForms, Zenon
  <2>3. Slashed(GivenAs(s), C) /\ Slashed(HalfAs(s), C) /\ GivenAs(s) = HalfAs(s)
    BY <2>1, <2>2, Zenon
  <2>4. WantedAs(s) \in Seq(C \ {":"}) /\ GivenAs(s) \in Seq(C \ {"*"})
    BY <1>4, <2>1, <2>2, Zenon DEF Slashed
  <2>5. Rewritten(HalfAs(s), WantedAs(s), C)
    BY <2>1, Zenon DEF Rewritten
  <2> QED BY <2>1, <2>3, <2>4, <2>5, Zenon DEF Segment
<1>10. CASE s.kind = "name"
  <2>1. /\ GivenAs(s) = (<<"/">> \o <<":">>) \o text /\ HalfAs(s) = (<<"/">> \o <<":">>) \o text
        /\ WantedAs(s) = ((<<"/">> \o <<"{">>) \o text) \o <<"}">> /\ s.kind # "rest"
    BY <1>2, <1>10, Zenon DEF GivenAs, WantedAs, HalfAs
  <2>2. /\ Slashed((<<"/">> \o <<":">>) \o text, C) /\ Slashed((<<"/">> \o <<":">>) \o text, E)
        /\ Slashed(((<<"/">> \o <<"{">>) \o text) \o <<"}">>, D)
    BY <1>6, <1>7, SegmentForms, Zenon
  <2>3. Rewritten((<<"/">> \o <<":">>) \o text, ((<<"/">> \o <<"{">>) \o text) \o <<"}">>, C)
    BY <1>4, <1>6, <1>8, Zenon DEF Rewritten
  <2>4. Slashed(GivenAs(s), C) /\ Slashed(HalfAs(s), C) /\ GivenAs(s) = HalfAs(s)
    BY <2>1, <2>2, Zenon
  <2>5. WantedAs(s) \in Seq(C \ {":"}) /\ GivenAs(s) \in Seq(C \ {"*"})
    BY <1>4, <2>1, <2>2, Zenon DEF Slashed
  <2>6. Rewritten(HalfAs(s), WantedAs(s), C)
    BY <2>1, <2>3, Zenon
  <2> QED BY <2>1, <2>4, <2>5, <2>6, Zenon DEF Segment
<1>11. CASE s.kind = "rest"
  <2>1. /\ GivenAs(s) = (<<"/">> \o <<"*">>) \o text /\ HalfAs(s) = WantedAs(s)
        /\ WantedAs(s) = ((<<"/">> \o <<"{">>) \o text) \o <<"...", "}">>
    BY <1>2, <1>11, Zenon DEF GivenAs, WantedAs, HalfAs
  <2>2. /\ Slashed((<<"/">> \o <<"*">>) \o text, C)
        /\ Slashed(((<<"/">> \o <<"{">>) \o text) \o <<"...", "}">>, C)
        /\ Slashed(((<<"/">> \o <<"{">>) \o text) \o <<"...", "}">>, D)
    BY <1>6, <1>7, SegmentForms, Zenon
  <2>3. /\ (<<"/">> \o <<"*">>) \o text = Starred(<<"/">>, text)
        /\ ((<<"/">> \o <<"{">>) \o text) \o <<"...", "}">> = Closed(Braced(<<"/">>, text))
    BY Zenon DEF Starred, Braced, Closed
  <2>4. Slashed(GivenAs(s), C) /\ Slashed(HalfAs(s), C)
    BY <2>1, <2>2, Zenon
  <2>5. WantedAs(s) \in Seq(C \ {":"})
    BY <1>4, <2>1, <2>2, Zenon DEF Slashed
  <2>6. Rewritten(HalfAs(s), WantedAs(s), C)
    BY <2>1, Zenon DEF Rewritten
  <2>7. GivenAs(s) = Starred(<<"/">>, text) /\ HalfAs(s) = Closed(Braced(<<"/">>, text))
    BY <2>1, <2>3, Zenon
  <2> QED BY <1>6, <1>11, <2>4, <2>5, <2>6, <2>7, Zenon DEF Segment
<1> QED BY <1>1, <1>9, <1>10, <1>11, Zenon DEF Kinds

\* Without a "*" segment Wildcard changes nothing.
LEMMA WildcardLeaves ==
  ASSUME NEW C, NEW g \in Seq(Seq(C \ {"*"}))
  PROVE  Wildcard(FlattenSeq(g)) = FlattenSeq(g)
<1>1. FlattenSeq(g) \in Seq(C \ {"*"})
  BY FlattenType, Zenon
<1>2. FlattenSeq(g) \in Seq(C) /\ Lacks(FlattenSeq(g), "*")
  BY <1>1, LackingIn, Zenon
<1> QED BY <1>2, NoWildcard, Zenon

\* A "*" segment at the end is converted.
LEMMA WildcardLast ==
  ASSUME NEW C, Marks \subseteq C, NEW f \in Seq(Seq(C \ {"*"})), NEW t \in Seq(C)
  PROVE  Wildcard(FlattenSeq(Append(f, Starred(<<"/">>, t))))
           = FlattenSeq(Append(f, Closed(Braced(<<"/">>, t))))
<1>1. PICK v, w : v = FlattenSeq(f) /\ w = v \o <<"/">>
  OBVIOUS
<1>2. "/" \in C /\ "/" \in C \ {"*"} /\ "*" \in C /\ "{" \in C /\ "}" \in C /\ "..." \in C
  BY Zenon DEF Marks
<1>3. v \in Seq(C \ {"*"})
  BY <1>1, FlattenType, Zenon
<1>4. w \in Seq(C \ {"*"})
  <2>1. <<"/">> \in Seq(C \ {"*"})
    BY <1>2, OneOf, Zenon
  <2>2. v \o <<"/">> \in Seq(C \ {"*"})
    BY <1>3, <2>1, JoinedFacts, Zenon
  <2> QED BY <1>1, <2>2, Zenon
<1>5. v \in Seq(C) /\ w \in Seq(C) /\ Lacks(w, "*")
  BY <1>3, <1>4, LackingIn, Zenon
<1>6. <<"/">> \in Seq(C) /\ <<"*">> \in Seq(C) /\ <<"{">> \in Seq(C) /\ <<"...", "}">> \in Seq(C)
  BY <1>2, OneOf, TwoOf, Zenon
<1>7. f \in Seq(Seq(C))
  <2>1. Seq(C \ {"*"}) \subseteq Seq(C)
    BY LackingIn, Zenon
  <2> QED BY <2>1, Within, Zenon
<1>8. /\ v \o Starred(<<"/">>, t) = Starred(w, t)
      /\ v \o Closed(Braced(<<"/">>, t)) = Closed(Braced(w, t))
  <2>1. /\ Gathers(v, <<"/">>, <<"*">>, t, <<"...", "}">>)
        /\ Gathers(v, <<"/">>, <<"{">>, t, <<"...", "}">>)
    BY <1>5, <1>6, Gathered, Zenon
  <2> QED BY <1>1, <2>1, Zenon DEF Starred, Braced, Closed, Gathers
<1>9. Starred(<<"/">>, t) \in Seq(C) /\ Closed(Braced(<<"/">>, t)) \in Seq(C)
  <2>1. <<"/">> \o <<"*">> \in Seq(C) /\ <<"/">> \o <<"{">> \in Seq(C)
    BY <1>6, JoinedFacts, Zenon
  <2>2. (<<"/">> \o <<"*">>) \o t \in Seq(C) /\ (<<"/">> \o <<"{">>) \o t \in Seq(C)
    BY <2>1, JoinedFacts, Zenon
  <2>3. ((<<"/">> \o <<"{">>) \o t) \o <<"...", "}">> \in Seq(C)
    BY <1>6, <2>2, JoinedFacts, Zenon
  <2> QED BY <2>2, <2>3, Zenon DEF Starred, Braced, Closed
<1>10. /\ FlattenSeq(Append(f, Starred(<<"/">>, t))) = Starred(w, t)
       /\ FlattenSeq(Append(f, Closed(Braced(<<"/">>, t)))) = Closed(Braced(w, t))
  <2>1. /\ FlattenSeq(Append(f, Starred(<<"/">>, t))) = FlattenSeq(f) \o Starred(<<"/">>, t)
        /\ FlattenSeq(Append(f, Closed(Braced(<<"/">>, t))))
             = FlattenSeq(f) \o Closed(Braced(<<"/">>, t))
    BY <1>7, <1>9, FlattenAppend, Zenon
  <2> QED BY <1>1, <1>8, <2>1, Zenon
<1>11. Wildcard(Starred(w, t)) = Closed(Braced(w, t))
  BY <1>5, WildcardConverted, Zenon
<1> QED BY <1>10, <1>11, Zenon

\* Of every pattern of plain, ":" and final "*" segments, of whatever letters, each
\* segment is converted and no other is touched.
THEOREM PatternIsConverted ==
  ASSUME NEW Letters, Plain(Letters), NEW p \in Seq(Segments(Letters)),
         \A i \in 1 .. Len(p) : p[i].kind = "rest" => i = Len(p)
  PROVE  Convert(FlattenSeq([i \in DOMAIN p |-> GivenAs(p[i])]))
           = FlattenSeq([i \in DOMAIN p |-> WantedAs(p[i])])
<1>1. PICK C : C = Letters \union Marks
  OBVIOUS
<1>2. PICK n \in Nat : n = Len(p)
  OBVIOUS
<1>3. DOMAIN p = 1 .. n /\ \A i \in 1 .. n : p[i] \in Segments(Letters)
  BY <1>2
<1>4. \A i \in 1 .. n : Segment(p[i], C)
  BY <1>1, <1>3, SegmentFacts, Zenon
<1>5. PICK given, half, wanted : /\ given = [i \in 1 .. n |-> GivenAs(p[i])]
                                 /\ half = [i \in 1 .. n |-> HalfAs(p[i])]
                                 /\ wanted = [i \in 1 .. n |-> WantedAs(p[i])]
  OBVIOUS
<1>6. \A i \in 1 .. n : given[i] = GivenAs(p[i]) /\ half[i] = HalfAs(p[i]) /\ wanted[i] = WantedAs(p[i])
  BY <1>5, Zenon
<1>7. given \in Seq(Seq(C)) /\ Len(given) = n
  <2>1. given \in [1 .. n -> Seq(C)]
    BY <1>4, <1>5, Zenon DEF Segment, Slashed
  <2> QED BY <2>1, Listed, Zenon
<1>8. half \in Seq(Seq(C)) /\ Len(half) = n
  <2>1. half \in [1 .. n -> Seq(C)]
    BY <1>4, <1>5, Zenon DEF Segment, Slashed
  <2> QED BY <2>1, Listed, Zenon
<1>9. wanted \in Seq(Seq(C \ {":"})) /\ Len(wanted) = n
  <2>1. wanted \in [1 .. n -> Seq(C \ {":"})]
    BY <1>4, <1>5, Zenon DEF Segment
  <2> QED BY <2>1, Listed, Zenon
<1>10. ASSUME NEW i \in 1 .. n, i # n \/ p[n].kind # "rest"
       PROVE  given[i] = half[i] /\ given[i] \in Seq(C \ {"*"})
  <2>1. p[i].kind # "rest"
    BY <1>2, <1>10, Zenon
  <2> QED BY <1>4, <1>6, <2>1, Zenon DEF Segment
<1>11. Marks \subseteq C
  BY <1>1, Zenon
<1>12. Wildcard(FlattenSeq(given)) = FlattenSeq(half)
  <2>1. CASE p[n].kind # "rest"
    <3>1. given = half /\ given \in [1 .. n -> Seq(C \ {"*"})]
      <4>1. \A i \in 1 .. n : GivenAs(p[i]) = HalfAs(p[i]) /\ GivenAs(p[i]) \in Seq(C \ {"*"})
        BY <1>6, <1>10, <2>1, Zenon
      <4> QED BY <1>5, <4>1, Zenon
    <3>2. given \in Seq(Seq(C \ {"*"}))
      BY <3>1, Listed, Zenon
    <3> QED BY <3>1, <3>2, WildcardLeaves, Zenon
  <2>2. CASE n = 0
    <3>1. given = half /\ given \in [1 .. n -> Seq(C \ {"*"})]
      <4>1. \A i \in 1 .. n : FALSE
        BY <2>2
      <4> QED BY <1>5, <4>1, Zenon
    <3>2. given \in Seq(Seq(C \ {"*"}))
      BY <3>1, Listed, Zenon
    <3> QED BY <3>1, <3>2, WildcardLeaves, Zenon
  <2>3. CASE n # 0 /\ p[n].kind = "rest"
    <3>1. PICK k \in Nat : n = k + 1
      <4>1. n - 1 \in Nat /\ n = (n - 1) + 1
        BY <2>3
      <4> QED BY <4>1
    <3>2. \A i \in 1 .. k : i \in 1 .. n /\ i # n
      BY <3>1
    <3>3. \A i \in 1 .. k : given[i] = half[i] /\ given[i] \in Seq(C \ {"*"})
      BY <1>10, <3>2, Zenon
    <3>4. Len(given) = k + 1 /\ Len(half) = k + 1
      BY <1>7, <1>8, <3>1, Zenon
    <3>5. PICK f \in Seq(Seq(C \ {"*"})) : Ends(f, given, half, k)
      BY <1>7, <1>8, <3>3, <3>4, LastApart, Zenon
    <3>6. n \in 1 .. n
      BY <2>3
    <3>7. PICK t \in Seq(C) : /\ GivenAs(p[n]) = Starred(<<"/">>, t)
                              /\ HalfAs(p[n]) = Closed(Braced(<<"/">>, t))
      BY <1>4, <2>3, <3>6, Zenon DEF Segment
    <3>8. given[k + 1] = Starred(<<"/">>, t) /\ half[k + 1] = Closed(Braced(<<"/">>, t))
      BY <1>6, <3>1, <3>6, <3>7, Zenon
    <3>9. Wildcard(FlattenSeq(Append(f, Starred(<<"/">>, t))))
            = FlattenSeq(Append(f, Closed(Braced(<<"/">>, t))))
      BY <1>11, WildcardLast, Zenon
    <3> QED BY <3>5, <3>8, <3>9, Zenon DEF Ends
  <2> QED BY <2>1, <2>2, <2>3, Zenon
<1>13. PICK m : m = Len(FlattenSeq(given))
  OBVIOUS
<1>14. m \in Nat /\ n <= m
  <2>1. FlattenSeq(given) \in Seq(C)
    BY <1>7, FlattenType, Zenon
  <2>2. Len(FlattenSeq(given)) \in Nat
    BY <2>1
  <2>3. \A i \in 1 .. n : given[i] # <<>>
    BY <1>4, <1>6, Zenon DEF Segment, Slashed
  <2>4. \A i \in 1 .. Len(given) : given[i] # <<>>
    BY <1>7, <2>3, Zenon
  <2>5. Len(given) <= Len(FlattenSeq(given))
    BY <1>7, <2>4, FlattenLength, Zenon
  <2> QED BY <1>7, <1>13, <2>2, <2>5, Zenon
<1>15. Convertible(half, wanted, n, C)
  BY <1>4, <1>6, <1>8, <1>9, Zenon DEF Convertible, Segment, Slashed
<1>16. LoopStarts(FlattenSeq(given), m, half)
  BY <1>12, <1>13, Zenon DEF LoopStarts
<1>17. Convert(FlattenSeq(given)) = FlattenSeq(wanted)
  BY <1>11, <1>14, <1>15, <1>16, LoopConverts
<1> QED BY <1>3, <1>5, <1>17, Zenon

\* The patterns that the run tries are of this kind.
SegmentOf(kind) ==
  [kind |-> kind, text |-> IF kind = "rest" THEN <<"a">> ELSE <<"a", "b">>]

\* z is x, of n elements, with c at its end.
Longer(x, c, z, n) ==
  /\ Len(x) = n /\ Len(z) = n + 1 /\ z[n + 1] = c
  /\ \A i \in 1 .. n : z[i] = x[i]

\* Then it is the two of them joined.
LEMMA OneLonger ==
  ASSUME NEW D, NEW n, NEW x \in Seq(D), NEW c \in D, NEW z \in Seq(D), Longer(x, c, z, n)
  PROVE  Exactly(x \o <<c>>, z)
<1>1. PICK r : Exactly(r, x \o <<c>>)
  BY Zenon DEF Exactly
<1>2. r = x \o <<c>>
  BY <1>1, Zenon DEF Exactly
<1>3. /\ r \in Seq(D) /\ n \in Nat /\ Len(r) = n + 1 /\ r[n + 1] = c
      /\ \A i \in 1 .. n : r[i] = x[i]
  BY <1>2 DEF Longer
<1>4. Len(r) = Len(z) /\ \A i \in 1 .. Len(r) : r[i] = z[i]
  BY <1>3 DEF Longer
<1>5. r = z
  BY <1>3, <1>4, SeqEqual
<1> QED BY <1>2, <1>5, Zenon DEF Exactly

\* Three, four and five elements, joined one by one.
ThreeToFive(a, b, c, d, e) ==
  /\ <<a>> \o <<b, c>> = <<a, b, c>>
  /\ (<<a>> \o <<b>>) \o <<c, d>> = <<a, b, c, d>>
  /\ (<<a>> \o <<b>>) \o <<c>> = <<a, b, c>>
  /\ ((<<a>> \o <<b>>) \o <<c, d>>) \o <<e>> = <<a, b, c, d, e>>
  /\ ((<<a>> \o <<b>>) \o <<c>>) \o <<d, e>> = <<a, b, c, d, e>>

\* They are as one expects.
LEMMA Joined ==
  ASSUME NEW a, NEW b, NEW c, NEW d, NEW e
  PROVE  ThreeToFive(a, b, c, d, e)
<1>1. PICK D : D = {a, b, c, d, e}
  OBVIOUS
<1>2. a \in D /\ b \in D /\ c \in D /\ d \in D /\ e \in D
  BY <1>1, Zenon
<1>3. ASSUME NEW u \in D, NEW v \in D PROVE <<u>> \o <<v>> = <<u, v>>
  <2>1. <<u>> \in Seq(D) /\ <<u, v>> \in Seq(D)
    OBVIOUS
  <2>2. /\ Len(<<u>>) = 1 /\ Len(<<u, v>>) = 1 + 1 /\ <<u, v>>[1 + 1] = v
        /\ \A i \in 1 .. 1 : <<u, v>>[i] = <<u>>[i]
    OBVIOUS
  <2>3. Longer(<<u>>, v, <<u, v>>, 1)
    BY <2>2, Zenon DEF Longer
  <2>4. Exactly(<<u>> \o <<v>>, <<u, v>>)
    BY <2>1, <2>3, OneLonger, Zenon
  <2> QED BY <2>4, Zenon DEF Exactly
<1>4. <<a, b>> \o <<c>> = <<a, b, c>>
  <2>1. <<a, b>> \in Seq(D) /\ <<a, b, c>> \in Seq(D)
    BY <1>2
  <2>2. /\ Len(<<a, b>>) = 2 /\ Len(<<a, b, c>>) = 2 + 1 /\ <<a, b, c>>[2 + 1] = c
        /\ \A i \in 1 .. 2 : <<a, b, c>>[i] = <<a, b>>[i]
    OBVIOUS
  <2>3. Longer(<<a, b>>, c, <<a, b, c>>, 2)
    BY <2>2, Zenon DEF Longer
  <2>4. Exactly(<<a, b>> \o <<c>>, <<a, b, c>>)
    BY <1>2, <2>1, <2>3, OneLonger, Zenon
  <2> QED BY <2>4, Zenon DEF Exactly
<1>5. <<a, b, c>> \o <<d>> = <<a, b, c, d>>
  <2>1. <<a, b, c>> \in Seq(D) /\ <<a, b, c, d>> \in Seq(D)
    BY <1>2
  <2>2. /\ Len(<<a, b, c>>) = 3 /\ Len(<<a, b, c, d>>) = 3 + 1 /\ <<a, b, c, d>>[3 + 1] = d
        /\ \A i \in 1 .. 3 : <<a, b, c, d>>[i] = <<a, b, c>>[i]
    OBVIOUS
  <2>3. Longer(<<a, b, c>>, d, <<a, b, c, d>>, 3)
    BY <2>2, Zenon DEF Longer
  <2>4. Exactly(<<a, b, c>> \o <<d>>, <<a, b, c, d>>)
    BY <1>2, <2>1, <2>3, OneLonger, Zenon
  <2> QED BY <2>4, Zenon DEF Exactly
<1>6. <<a, b, c, d>> \o <<e>> = <<a, b, c, d, e>>
  <2>1. <<a, b, c, d>> \in Seq(D) /\ <<a, b, c, d, e>> \in Seq(D)
    BY <1>2
  <2>2. /\ Len(<<a, b, c, d>>) = 4 /\ Len(<<a, b, c, d, e>>) = 4 + 1 /\ <<a, b, c, d, e>>[4 + 1] = e
        /\ \A i \in 1 .. 4 : <<a, b, c, d, e>>[i] = <<a, b, c, d>>[i]
    OBVIOUS
  <2>3. Longer(<<a, b, c, d>>, e, <<a, b, c, d, e>>, 4)
    BY <2>2, Zenon DEF Longer
  <2>4. Exactly(<<a, b, c, d>> \o <<e>>, <<a, b, c, d, e>>)
    BY <1>2, <2>1, <2>3, OneLonger, Zenon
  <2> QED BY <2>4, Zenon DEF Exactly
<1>7. /\ <<a>> \in Seq(D) /\ <<b>> \in Seq(D) /\ <<c>> \in Seq(D) /\ <<d>> \in Seq(D)
      /\ <<e>> \in Seq(D) /\ <<a, b>> \in Seq(D) /\ <<a, b, c>> \in Seq(D)
  BY <1>2
<1>8. <<a>> \o <<b, c>> = <<a, b, c>>
  <2>1. InThree(<<a>>, <<b>>, <<c>>)
    BY <1>7, JoinedInAnyOrder, Zenon
  <2>2. <<b>> \o <<c>> = <<b, c>> /\ <<a>> \o <<b>> = <<a, b>>
    BY <1>2, <1>3, Zenon
  <2> QED BY <1>4, <2>1, <2>2, Zenon DEF InThree
<1>9. (<<a>> \o <<b>>) \o <<c, d>> = <<a, b, c, d>>
  <2>1. InThree(<<a, b>>, <<c>>, <<d>>)
    BY <1>7, JoinedInAnyOrder, Zenon
  <2>2. <<c>> \o <<d>> = <<c, d>> /\ <<a>> \o <<b>> = <<a, b>>
    BY <1>2, <1>3, Zenon
  <2> QED BY <1>4, <1>5, <2>1, <2>2, Zenon DEF InThree
<1>10. (<<a>> \o <<b>>) \o <<c>> = <<a, b, c>>
  <2>1. <<a>> \o <<b>> = <<a, b>>
    BY <1>2, <1>3, Zenon
  <2> QED BY <1>4, <2>1, Zenon
<1>11. ((<<a>> \o <<b>>) \o <<c, d>>) \o <<e>> = <<a, b, c, d, e>>
  BY <1>6, <1>9, Zenon
<1>12. ((<<a>> \o <<b>>) \o <<c>>) \o <<d, e>> = <<a, b, c, d, e>>
  <2>1. InThree(<<a, b, c>>, <<d>>, <<e>>)
    BY <1>7, JoinedInAnyOrder, Zenon
  <2>2. <<d>> \o <<e>> = <<d, e>>
    BY <1>2, <1>3, Zenon
  <2> QED BY <1>5, <1>6, <1>10, <2>1, <2>2, Zenon DEF InThree
<1> QED BY <1>8, <1>9, <1>10, <1>11, <1>12, Zenon DEF ThreeToFive

\* Its segments are, as they are given and as they are wanted.
LEMMA SegmentOfKind ==
  ASSUME NEW kind \in Kinds
  PROVE  /\ SegmentOf(kind) \in Segments({"a", "b"}) /\ SegmentOf(kind).kind = kind
         /\ GivenAs(SegmentOf(kind)) = GivenSegment(kind)
         /\ WantedAs(SegmentOf(kind)) = WantedSegment(kind)
<1>1. SegmentOf(kind) \in Segments({"a", "b"}) /\ SegmentOf(kind).kind = kind
  <2>1. <<"a">> \in Seq({"a", "b"}) /\ <<"a", "b">> \in Seq({"a", "b"})
    BY OneOf, TwoOf, Zenon
  <2>2. SegmentOf(kind).text \in Seq({"a", "b"})
    BY <2>1 DEF SegmentOf
  <2> QED BY <2>2 DEF SegmentOf, Segments
<1>2. CASE kind = "word"
  <2>1. SegmentOf(kind).kind = "word" /\ SegmentOf(kind).text = <<"a", "b">>
    BY <1>2 DEF SegmentOf
  <2>2. <<"/">> \o <<"a", "b">> = <<"/", "a", "b">>
    <3>1. ThreeToFive("/", "a", "b", "a", "b")
      BY Joined, Zenon
    <3> QED BY <3>1, Zenon DEF ThreeToFive
  <2>3. GivenSegment(kind) = <<"/", "a", "b">> /\ WantedSegment(kind) = <<"/", "a", "b">>
    BY <1>2, Zenon DEF GivenSegment, WantedSegment
  <2> QED BY <1>1, <2>1, <2>2, <2>3, Zenon DEF GivenAs, WantedAs
<1>3. CASE kind = "name"
  <2>1. SegmentOf(kind).kind = "name" /\ SegmentOf(kind).text = <<"a", "b">>
    BY <1>3 DEF SegmentOf
  <2>2. /\ (<<"/">> \o <<":">>) \o <<"a", "b">> = <<"/", ":", "a", "b">>
        /\ ((<<"/">> \o <<"{">>) \o <<"a", "b">>) \o <<"}">> = <<"/", "{", "a", "b", "}">>
    <3>1. ThreeToFive("/", ":", "a", "b", "a") /\ ThreeToFive("/", "{", "a", "b", "}")
      BY Joined, Zenon
    <3> QED BY <3>1, Zenon DEF ThreeToFive
  <2>3. /\ GivenSegment(kind) = <<"/", ":", "a", "b">>
        /\ WantedSegment(kind) = <<"/", "{", "a", "b", "}">>
    BY <1>3, Zenon DEF GivenSegment, WantedSegment
  <2>4. "name" # "word" /\ "name" # "rest"
    BY Zenon
  <2> QED BY <1>1, <2>1, <2>2, <2>3, <2>4, Zenon DEF GivenAs, WantedAs
<1>4. CASE kind = "rest"
  <2>1. SegmentOf(kind).kind = "rest" /\ SegmentOf(kind).text = <<"a">>
    BY <1>4 DEF SegmentOf
  <2>2. /\ (<<"/">> \o <<"*">>) \o <<"a">> = <<"/", "*", "a">>
        /\ ((<<"/">> \o <<"{">>) \o <<"a">>) \o <<"...", "}">> = <<"/", "{", "a", "...", "}">>
    <3>1. ThreeToFive("/", "*", "a", "a", "a") /\ ThreeToFive("/", "{", "a", "...", "}")
      BY Joined, Zenon
    <3> QED BY <3>1, Zenon DEF ThreeToFive
  <2>3. /\ GivenSegment(kind) = <<"/", "*", "a">>
        /\ WantedSegment(kind) = <<"/", "{", "a", "...", "}">>
    BY <1>4, Zenon DEF GivenSegment, WantedSegment
  <2>4. "rest" # "word" /\ "rest" # "name"
    BY Zenon
  <2> QED BY <1>1, <2>1, <2>2, <2>3, <2>4, Zenon DEF GivenAs, WantedAs
<1> QED BY <1>2, <1>3, <1>4, Zenon DEF Kinds

\* They have at most four segments, and the rest of the path at their end.
LEMMA PatternForm ==
  ASSUME NEW p \in Patterns
  PROVE  \E n \in Nat : p \in [1 .. n -> Kinds] /\ \A i \in 1 .. n : p[i] = "rest" => i = n
<1>1. ASSUME NEW k \in Nat, NEW q \in [1 .. k -> {"word", "name"}]
      PROVE  /\ q \in [1 .. k -> Kinds]
             /\ \A i \in 1 .. k : q[i] # "rest"
  BY DEF Kinds
<1>2. CASE p \in UNION {[1 .. k -> {"word", "name"}] : k \in 0 .. 3}
  <2>1. PICK k \in 0 .. 3 : p \in [1 .. k -> {"word", "name"}]
    BY <1>2
  <2> QED BY <1>1, <2>1
<1>3. ASSUME NEW q \in UNION {[1 .. k -> {"word", "name"}] : k \in 0 .. 3}, p = Append(q, "rest")
      PROVE  \E n \in Nat : p \in [1 .. n -> Kinds] /\ \A i \in 1 .. n : p[i] = "rest" => i = n
  <2>1. PICK k \in 0 .. 3 : q \in [1 .. k -> {"word", "name"}]
    OBVIOUS
  <2>2. q \in [1 .. k -> Kinds] /\ \A i \in 1 .. k : q[i] # "rest"
    BY <1>1, <2>1
  <2>3. q \in Seq(Kinds) /\ Len(q) = k /\ "rest" \in Kinds
    BY <2>2 DEF Kinds
  <2>4. /\ p \in Seq(Kinds) /\ Len(p) = k + 1
        /\ \A i \in 1 .. k : p[i] = q[i]
    BY <1>3, <2>3
  <2>5. p \in [1 .. k + 1 -> Kinds] /\ k + 1 \in Nat
    BY <2>4
  <2>6. \A i \in 1 .. k + 1 : p[i] = "rest" => i = k + 1
    BY <2>2, <2>4
  <2> QED BY <2>5, <2>6
<1> QED BY <1>2, <1>3 DEF Patterns

\* RoutesAsConfigured of the run: requests go to the most specific entry of vhoster, and
\* the gateway's patterns are converted segment by segment.
THEOREM RoutesStayAsConfigured == Spec => []RoutesAsConfigured
<1>1. PatternsConverted
  <2> SUFFICES ASSUME NEW p \in Patterns
               PROVE  Convert(FlattenSeq([i \in DOMAIN p |-> GivenSegment(p[i])]))
                        = FlattenSeq([i \in DOMAIN p |-> WantedSegment(p[i])])
    BY Zenon DEF PatternsConverted
  <2>1. PICK n \in Nat : p \in [1 .. n -> Kinds] /\ \A i \in 1 .. n : p[i] = "rest" => i = n
    BY PatternForm, Zenon
  <2>2. PICK q : q = [i \in 1 .. n |-> SegmentOf(p[i])]
    OBVIOUS
  <2>3. \A i \in 1 .. n : p[i] \in Kinds
    BY <2>1, Zenon
  <2>4. q \in [1 .. n -> Segments({"a", "b"})]
    BY <2>2, <2>3, SegmentOfKind, Zenon
  <2>5. q \in Seq(Segments({"a", "b"})) /\ Len(q) = n /\ DOMAIN q = 1 .. n
    BY <2>4, Listed, Zenon
  <2>6. \A i \in 1 .. n : q[i] = SegmentOf(p[i]) /\ q[i].kind = p[i]
    BY <2>2, <2>3, SegmentOfKind, Zenon
  <2>7. \A i \in 1 .. Len(q) : q[i].kind = "rest" => i = Len(q)
    BY <2>1, <2>5, <2>6, Zenon
  <2>8. Plain({"a", "b"})
    BY Zenon DEF Plain
  <2>9. Convert(FlattenSeq([i \in DOMAIN q |-> GivenAs(q[i])]))
          = FlattenSeq([i \in DOMAIN q |-> WantedAs(q[i])])
    BY <2>5, <2>7, <2>8, PatternIsConverted
  <2>10. \A i \in 1 .. n : /\ GivenAs(q[i]) = GivenSegment(p[i])
                           /\ WantedAs(q[i]) = WantedSegment(p[i])
    BY <2>3, <2>6, SegmentOfKind, Zenon
  <2>11. DOMAIN p = 1 .. n
    BY <2>1, Zenon
  <2>12. [i \in DOMAIN q |-> GivenAs(q[i])] = [i \in DOMAIN p |-> GivenSegment(p[i])]
    BY <2>5, <2>10, <2>11, Zenon
  <2>13. [i \in DOMAIN q |-> WantedAs(q[i])] = [i \in DOMAIN p |-> WantedSegment(p[i])]
    BY <2>5, <2>10, <2>11, Zenon
  <2> QED BY <2>9, <2>12, <2>13, Zenon
<1>2. Spec => []MostSpecificRoute
  BY RouteIsMostSpecific
<1> QED BY <1>1, <1>2, PTL DEF RoutesAsConfigured
=============================================================================
