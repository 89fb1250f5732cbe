--------------------------- MODULE WebSocketRelay ---------------------------
(***************************************************************************)
(* One WebSocket request of the gateway (websocket.go): upgradeAndHandle   *)
(* dials the upstream, upgrades the browser, and copies messages in both   *)
(* directions, one in the handler and one in a helper goroutine, until one *)
(* of them ends.                                                           *)
(*                                                                         *)
(* A message is two frames; frame i of a side is the end of a message iff  *)
(* i is even.  A pump copies a message as it arrives and ends it with      *)
(* writer.Close, whatever ended the copy.  A side may leave in order       *)
(* ("gone": what it sent can still be read) or not ("reset"), or stop      *)
(* reading and sending without a sign ("stalled").  Bounds: MaxFrames sent *)
(* by a side, Window messages on their way to it before a write blocks.    *)
(***************************************************************************)
EXTENDS Naturals, Sequences, SequencesExt

CONSTANTS
  MaxFrames, Window,
  Protocols,    \* the subprotocols that the browser or the upstream know
  NoProtocol

ASSUME BoundsAssumption == MaxFrames \in Nat /\ Window \in Nat \ {0}
ASSUME ProtocolAssumption == NoProtocol \notin Protocols

VARIABLES
  handler,   \* step of upgradeAndHandle
  helper,    \* step of the goroutine that it starts
  conn,      \* conn[c]: the gateway's connection to side c
  answer,    \* what the browser was answered
  offered,   \* subprotocols that the browser asks for
  protocol,  \* protocol[c]: the one selected on the connection to c
  pump,      \* pump[c]: step of relayWebSocketMessages from c to the other side
  parts,     \* parts[c]: frames of the current message that the pump has copied
  taken,     \* taken[c]: frames of c that the gateway has read
  written,   \* written[c]: messages written to c, with the frames they have
  peer, sent, seen  \* the sides: state, frames sent, messages read

gateway == <<handler, helper, conn, answer, offered, protocol>>
pumps == <<pump, parts, taken, written>>
sides == <<peer, sent, seen>>
vars == <<gateway, pumps, sides>>

Sides == {"browser", "upstream"}
Other(c) == IF c = "browser" THEN "upstream" ELSE "browser"
Left(c) == peer[c] \in {"gone", "reset"}

Init ==
  /\ handler = "dial" /\ helper = "none"
  /\ conn = [c \in Sides |-> "none"]
  /\ answer = "none"
  /\ offered \in SUBSET Protocols
  /\ protocol = [c \in Sides |-> NoProtocol]
  /\ pump = [c \in Sides |-> "off"]
  /\ parts = [c \in Sides |-> 0] /\ taken = [c \in Sides |-> 0]
  /\ written = [c \in Sides |-> <<>>]
  /\ peer = [c \in Sides |-> "live"]
  /\ sent = [c \in Sides |-> 0] /\ seen = [c \in Sides |-> 0]

-----------------------------------------------------------------------------
\* upgradeAndHandle

\* websocketClientConn offers the browser's subprotocols to the upstream, which may
\* select any or none.
UpstreamProtocols == Protocols \union {NoProtocol}

\* Without an upstream connection the browser gets a 502 and is not upgraded.
Dial ==
  /\ handler = "dial"
  /\ \/ /\ ~Left("upstream")
        /\ \E p \in UpstreamProtocols :
             protocol' = [protocol EXCEPT !["upstream"] = p]
        /\ conn' = [conn EXCEPT !["upstream"] = "open"]
        /\ handler' = "upgrade"
        /\ UNCHANGED answer
     \/ /\ answer' = "badGateway" /\ handler' = "done"
        /\ UNCHANGED <<conn, protocol>>
  /\ UNCHANGED <<helper, offered, pumps, sides>>

UpstreamChoice == protocol["upstream"]
\* The upgrader takes the upstream's subprotocol if the browser has asked for it.
Selected == IF protocol["upstream"] \in offered THEN protocol["upstream"] ELSE NoProtocol

Upgrade ==
  /\ handler = "upgrade" /\ ~Left("browser")
  /\ conn' = [conn EXCEPT !["browser"] = "open"]
  /\ protocol' = [protocol EXCEPT !["browser"] = Selected]
  /\ answer' = "upgraded"
  /\ handler' = "relay" /\ helper' = "relay"
  /\ pump' = [c \in Sides |-> "next"]
  /\ UNCHANGED <<offered, parts, taken, written, sides>>

LeaveOpen == "done"
\* The upgrader has answered itself, or could not reach the browser; the deferred
\* socket.Close runs.
AfterUpgradeError == "closeUpstream"
UpgradeFails ==
  /\ handler = "upgrade"
  /\ \/ answer' = "refused"
     \/ Left("browser") /\ UNCHANGED answer
  /\ handler' = AfterUpgradeError
  /\ UNCHANGED <<helper, conn, offered, protocol, pumps, sides>>

\* The handler's own direction, from the upstream to the browser, has ended.
HandlerReturns ==
  /\ handler = "relay" /\ pump["upstream"] = "returned"
  /\ conn' = [conn EXCEPT !["browser"] = "closed"]
  /\ handler' = "closeUpstream"
  /\ UNCHANGED <<helper, answer, offered, protocol, pumps, sides>>

CloseUpstream ==
  /\ handler = "closeUpstream"
  /\ conn' = [conn EXCEPT !["upstream"] = "closed"]
  /\ handler' = "wait"
  /\ UNCHANGED <<helper, answer, offered, protocol, pumps, sides>>

\* <-clientDone; without an upgrade there is no helper to wait for.
HelperOver == helper \in {"none", "exited"}
Wait ==
  /\ handler = "wait" /\ HelperOver
  /\ handler' = "done"
  /\ UNCHANGED <<helper, conn, answer, offered, protocol, pumps, sides>>

OwnSide == "browser"
\* The deferred calls of the goroutine, last first.
ClosedByHelper == "upstream"
HelperReturns ==
  /\ helper = "relay" /\ pump["browser"] = "returned"
  /\ conn' = [conn EXCEPT ![ClosedByHelper] = "closed"]
  /\ helper' = "closeBrowser"
  /\ UNCHANGED <<handler, answer, offered, protocol, pumps, sides>>

HelperCloses ==
  /\ helper = "closeBrowser"
  /\ conn' = [conn EXCEPT !["browser"] = "closed"]
  /\ helper' = "exited"
  /\ UNCHANGED <<handler, answer, offered, protocol, pumps, sides>>

-----------------------------------------------------------------------------
\* relayWebSocketMessages(source, destination) with source c

Readable(c) == taken[c] < sent[c] /\ peer[c] # "reset"
SourceEnded(c) ==
  conn[c] = "closed" \/ peer[c] = "reset" \/ (peer[c] = "gone" /\ taken[c] = sent[c])
Room(c) == Len(written[c]) - seen[c] < Window

\* NextReader waits for a message; NextWriter fails only after an earlier write to
\* its connection has failed or has said goodbye.
NextMessage(c) ==
  /\ pump[c] = "next"
  /\ \/ /\ Readable(c)
        /\ pump' = [pump EXCEPT ![c] = "copy"]
        /\ parts' = [parts EXCEPT ![c] = 0]
     \/ /\ SourceEnded(c) \/ (Readable(c) /\ Left(Other(c)))
        /\ pump' = [pump EXCEPT ![c] = "returned"]
        /\ UNCHANGED parts
  /\ UNCHANGED <<taken, written, gateway, sides>>

EveryFrame(i) == TRUE
\* io.Copy reads up to the end of the message, or of the connection.
EndsMessage(i) == i % 2 = 0
Copy(c) ==
  /\ pump[c] = "copy"
  /\ \/ /\ Readable(c)
        /\ taken' = [taken EXCEPT ![c] = @ + 1]
        /\ parts' = [parts EXCEPT ![c] = @ + 1]
        /\ pump' = [pump EXCEPT ![c] = IF EndsMessage(taken[c] + 1) THEN "close" ELSE "copy"]
     \/ /\ SourceEnded(c)
        /\ pump' = [pump EXCEPT ![c] = "closeAfterError"]
        /\ UNCHANGED <<taken, parts>>
  /\ UNCHANGED <<written, gateway, sides>>

AfterClose(c) == IF pump[c] = "close" THEN "next" ELSE "returned"

\* writer.Close sends what was copied as a finished message.  A write to a side
\* that has left fails, or goes nowhere.
CloseWriter(c) ==
  LET d == Other(c) IN
  /\ pump[c] \in {"close", "closeAfterError"}
  /\ \/ /\ conn[d] = "open" /\ ~Left(d) /\ Room(d)
        /\ written' = [written EXCEPT ![d] =
             Append(@, [message |-> (taken[c] - parts[c]) \div 2 + 1, parts |-> parts[c]])]
        /\ pump' = [pump EXCEPT ![c] = AfterClose(c)]
     \/ /\ conn[d] = "open" /\ Left(d)
        /\ pump' = [pump EXCEPT ![c] = AfterClose(c)]
        /\ UNCHANGED written
     \/ /\ conn[d] = "closed" \/ Left(d)
        /\ pump' = [pump EXCEPT ![c] = "returned"]
        /\ UNCHANGED written
  /\ UNCHANGED <<parts, taken, gateway, sides>>

-----------------------------------------------------------------------------
\* The browser and the upstream

Send(c) ==
  /\ peer[c] = "live" /\ conn[c] = "open" /\ sent[c] < MaxFrames
  /\ sent' = [sent EXCEPT ![c] = @ + 1]
  /\ UNCHANGED <<peer, seen, gateway, pumps>>

Receive(c) ==
  /\ peer[c] = "live" /\ seen[c] < Len(written[c])
  /\ seen' = [seen EXCEPT ![c] = @ + 1]
  /\ UNCHANGED <<peer, sent, gateway, pumps>>

Stall(c) ==
  /\ peer[c] = "live"
  /\ peer' = [peer EXCEPT ![c] = "stalled"]
  /\ UNCHANGED <<sent, seen, gateway, pumps>>

Leave(c) ==
  /\ ~Left(c)
  /\ \E how \in {"gone", "reset"} : peer' = [peer EXCEPT ![c] = how]
  /\ UNCHANGED <<sent, seen, gateway, pumps>>

-----------------------------------------------------------------------------
Handler == Dial \/ Upgrade \/ UpgradeFails \/ HandlerReturns \/ CloseUpstream \/ Wait
Helper == HelperReturns \/ HelperCloses
Pump(c) == NextMessage(c) \/ Copy(c) \/ CloseWriter(c)
Environment(c) == Send(c) \/ Receive(c) \/ Stall(c) \/ Leave(c)
Finished == handler = "done" /\ UNCHANGED vars

Next ==
  \/ Handler \/ Helper
  \/ \E c \in Sides : Pump(c) \/ Environment(c)
  \/ Finished

Spec == Init /\ [][Next]_vars

\* Goroutines run, the dialer gives up after its timeout, and a live side reads what
\* it is sent.  Nobody has to send, stall or leave.
Fairness ==
  /\ WF_vars(Handler) /\ WF_vars(Helper)
  /\ \A c \in Sides : WF_vars(Pump(c)) /\ WF_vars(Receive(c))

FairSpec == Spec /\ Fairness

-----------------------------------------------------------------------------
\* newWebSocketRequest: the offset in the escaped path at which the route suffix
\* starts, when the decoded path has n bytes before it.  An escape is three
\* characters, of which the first is "%".
EscapeWidth == 3
RawOffset(raw, n) ==
  LET offset[i \in 0 .. n] ==
        IF i = 0 THEN 0
        ELSE offset[i - 1] + IF raw[offset[i - 1] + 1] = "%" THEN EscapeWidth ELSE 1
  IN offset[n]

RawSuffix(raw, n) == SubSeq(raw, RawOffset(raw, n) + 1, Len(raw))
=============================================================================
