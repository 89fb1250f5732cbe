------------------------ MODULE WebSocketProperties ------------------------
(***************************************************************************)
(* What WebSocketRelay promises (SPEC.md, WebSocket Forwarding).           *)
(***************************************************************************)
EXTENDS WebSocketRelay

PumpSteps == {"off", "next", "copy", "close", "closeAfterError", "returned"}

\* Types of all variables; nothing is read that was not sent or written.
RelayTypeOK ==
  /\ handler \in {"dial", "upgrade", "relay", "closeUpstream", "wait", "done"}
  /\ helper \in {"none", "relay", "closeBrowser", "exited"}
  /\ conn \in [Sides -> {"none", "open", "closed"}]
  /\ answer \in {"none", "upgraded", "refused", "badGateway"}
  /\ offered \subseteq Protocols
  /\ protocol \in [Sides -> Protocols \union {NoProtocol}]
  /\ pump \in [Sides -> PumpSteps]
  /\ parts \in [Sides -> 0 .. 2] /\ taken \in [Sides -> Nat]
  /\ written \in [Sides -> Seq([message : Nat, parts : 0 .. 2])]
  /\ peer \in [Sides -> {"live", "stalled", "gone", "reset"}]
  /\ sent \in [Sides -> Nat] /\ seen \in [Sides -> Nat]
  /\ \A c \in Sides : taken[c] <= sent[c] /\ seen[c] <= Len(written[c])

\* SPEC.md "Text and binary messages are streamed in both directions": a side is
\* written the other side's messages in their order, none left out and none twice,
\* while both stay; only the last one can be cut, and only when its sender's
\* connection has ended.
InOrderUntilTheEnd ==
  \A c \in Sides :
    LET w == written[Other(c)] IN
    \A i \in DOMAIN w :
      /\ w[i].message = i
      /\ w[i].parts < 2 => i = Len(w) /\ pump[c] = "returned" /\ SourceEnded(c)

\* upgradeAndHandle leaves nothing behind: when it returns no connection is open and
\* its goroutine has ended, on every path, the refused upgrade included.
NothingLeftOpen ==
  handler = "done" => helper \in {"none", "exited"} /\ \A c \in Sides : conn[c] # "open"

\* SPEC.md "the selected upstream subprotocol is returned to the browser", and the
\* browser never gets one that it did not ask for.
SubprotocolAgreed ==
  answer = "upgraded" =>
    protocol["browser"] = IF protocol["upstream"] \in offered THEN protocol["upstream"]
                          ELSE NoProtocol

\* SPEC.md "WebSocket requests preserve [...] the client's escaped route suffix": the
\* upstream that is dialled is given, for every path of plain and escaped bytes cut
\* at every byte, exactly the escaped form of what follows.
PathsUpTo == 4
EscapedSuffixKept ==
  handler = "dial" =>
  \A path \in UNION {[1 .. k -> {<<"a">>, <<"/">>, <<"%", "2", "F">>}] : k \in 0 .. PathsUpTo} :
    \A n \in 0 .. Len(path) :
      RawSuffix(FlattenSeq(path), n) = FlattenSeq(SubSeq(path, n + 1, Len(path)))

\* What the relay leaves in every state: typed variables, messages in order up to the
\* end of a connection, and nothing open when its handler has returned.
RelayInv == RelayTypeOK /\ InOrderUntilTheEnd /\ NothingLeftOpen

\* The browser's handshake reaches the upstream, and the upstream's choice the browser,
\* as SPEC.md has it (newWebSocketRequest, websocketClientConn).
HandshakeKept == SubprotocolAgreed /\ EscapedSuffixKept

\* SPEC.md "When either direction ends, both connections close": and the handler
\* returns, whatever the browser and the upstream do.
EitherEndsBoth ==
  (\E c \in Sides : pump[c] = "returned") ~> handler = "done" /\ NothingLeftOpen

\* A side that leaves ends the relay, unless the other one has stopped reading: the
\* write to that one has no deadline.
LeavingEndsRelay ==
  \A c \in Sides :
    (conn[c] = "open" /\ Left(c)) ~> (handler = "done" \/ peer[Other(c)] = "stalled")

\* However a relay ends, by a pump or by a side that leaves, both of its ends are closed
\* and its handler returns (upgradeAndHandle).
EndsTogether == EitherEndsBoth /\ LeavingEndsRelay

\* The two connections behave as one pair: SPEC.md "The upstream handshake completes
\* before the browser connection is accepted", and neither outlives the other.
Pair == INSTANCE ConnectionPair WITH
  carried <- [c \in Sides |-> Len(written[c])]
ClosesAsPair == Pair!Spec
=============================================================================
