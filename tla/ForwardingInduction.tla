------------------------- MODULE ForwardingInduction -------------------------
(***************************************************************************)
(* The inductive invariant behind AnsweredTruly, ChangesSafe and           *)
(* AnsweredIsLogged.  It says, for one request at a time, how its steps at *)
(* the three nodes fit together: which hop waits for which, so that no     *)
(* answer is changed after somebody has relied on it.                      *)
(***************************************************************************)
EXTENDS ForwardingProperties

EdgeSteps == {"idle", "arrived", "do", "wait", "log", "write", "flush", "done"}
GatewaySteps ==
  {"idle", "arrived", "do", "wait", "stream", "streamWrite", "log", "copy", "done"}
ServiceSteps == {"idle", "busy", "live", "done"}

Streaming == {"stream", "streamWrite"}
Answered(h) == IF h = "edge" THEN {"log", "write", "flush", "done"} ELSE {"log", "copy", "done"}

\* The steps that a node takes, and what is counted.
Counted ==
  /\ produced \in [Requests -> Nat] /\ relayed \in [Requests -> Nat]
  /\ \A r \in Requests : at["gateway"][r] = "streamWrite" => relayed[r] < produced[r]

StepsOf(r) ==
  /\ at["edge"][r] \in EdgeSteps
  /\ at["gateway"][r] \in GatewaySteps
  /\ at["service"][r] \in ServiceSteps

\* A hop moves only while the one before it waits.
InTurn(r) ==
  /\ request[r] = None =>
       (\A n \in Nodes : at[n][r] = "idle") /\ executed[r] = 0
  /\ request[r] # None => at[request[r].via][r] # "idle"
  /\ request[r] # None /\ request[r].via = "gateway" => at["edge"][r] = "idle"
  /\ at["edge"][r] \in {"arrived", "do"} => at["gateway"][r] = "idle"
  /\ at["edge"][r] \in Answered("edge") => at["gateway"][r] \in {"idle", "done"}
  /\ at["service"][r] = "busy" => at["gateway"][r] = "wait"

\* Nothing waits for a service that was not asked, and what a browser with a session is
\* told of a GET, or of a PUT at the gateway, is the status of the service.
Told(h, r) ==
  at[h][r] \in Answered(h) /\ reply[h][r].status = "ok" /\ request[r].access # "noSession"
    => executed[r] > 0 /\ reply["service"][r].status = "ok"
TruthOf(r) ==
  /\ at["service"][r] # "idle" => executed[r] > 0
  /\ at["service"][r] = "live" =>
       request[r].method = "LIVE" /\ reply["service"][r].status = "ok"
  /\ at["gateway"][r] \in Streaming =>
       /\ request[r].method = "LIVE"
       /\ executed[r] > 0 /\ reply["service"][r].status = "ok"
  /\ request[r] # None /\ Method(r) \in {"GET", "PUT"} => Told("gateway", r)
  /\ request[r] # None /\ Method(r) = "GET" => Told("edge", r)

\* What is not a GET is asked for once; what was not read whole, or has no session,
\* never.
OnceAtMost(r) ==
  request[r] # None =>
    /\ Method(r) = "DELETE" => request[r].via = "edge"
                               /\ at["edge"][r] \in {"arrived", "done"} /\ at["gateway"][r] = "idle"
    /\ Method(r) # "GET" =>
         /\ executed[r] <= 1
         /\ at["gateway"][r] \in {"idle", "arrived", "do"} => executed[r] = 0
    /\ Method(r) = "POST" /\ ~request[r].complete =>
         /\ at[request[r].via][r] \in {"arrived", "done"} /\ executed[r] = 0
         /\ request[r].via = "edge" => at["gateway"][r] = "idle"
    /\ request[r].access # "granted" =>
         executed[r] = 0 /\ at["gateway"][r] \in {"idle", "arrived", "done"}

\* No reply of the service is cut, and no hop's to a request that is read whole.
WholeOf(r) ==
  /\ reply["service"][r].body # "cut"
  /\ request[r] = None => \A n \in Nodes : reply[n][r] = Lost
  /\ request[r] # None /\ Method(r) # "GET" => \A n \in Nodes : reply[n][r].body # "cut"

\* A line on its way to the file of vhoster's log.
LineOf(r) ==
  /\ at["edge"][r] = "flush" => \E i \in DOMAIN buffer : buffer[i] = r
  /\ at["edge"][r] = "done" /\ at["gateway"][r] = "done"
     /\ reply["edge"][r].body \in {"whole", "cut", "page"}
     => \E i \in DOMAIN file : file[i] = r

RequestInv(r) ==
  StepsOf(r) /\ InTurn(r) /\ TruthOf(r) /\ OnceAtMost(r) /\ WholeOf(r) /\ LineOf(r)

ForwardingInv == ForwardingTypeOK /\ Counted /\ \A r \in Requests : RequestInv(r)
=============================================================================
