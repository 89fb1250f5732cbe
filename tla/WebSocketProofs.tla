--------------------------- MODULE WebSocketProofs ---------------------------
(***************************************************************************)
(* The relay of a WebSocket keeps RelayInv, and its two connections are a  *)
(* ConnectionPair, for messages of any number, windows of any size and any *)
(* subprotocols.  The inductive invariant has two parts: which connections *)
(* are open at each step of the handler and of its goroutine, and how many *)
(* messages each pump has written.                                         *)
(***************************************************************************)
EXTENDS WebSocketProperties, SequenceFacts

\* The handler and its goroutine: whoever ends closes both connections, and the second
\* one to end finds them closed.
RelayStages ==
  /\ handler = "dial" => conn["upstream"] = "none"
  /\ handler = "upgrade" => conn["upstream"] = "open"
  /\ handler \in {"dial", "upgrade"} => helper = "none"
  /\ handler = "relay" => helper # "none"
  /\ helper = "none" => conn["browser"] = "none"
  /\ helper # "none" => \A c \in Sides : conn[c] # "none"
  /\ handler = "closeUpstream" => conn["upstream"] # "none"
  /\ handler \in {"closeUpstream", "wait", "done"} => conn["browser"] # "open"
  /\ handler \in {"wait", "done"} => conn["upstream"] # "open"
  /\ handler = "done" => HelperOver
  /\ helper \in {"closeBrowser", "exited"} => conn["upstream"] # "open"
  /\ helper = "exited" => conn["browser"] # "open"
  /\ \A c \in Sides : pump[c] = "off" <=> helper = "none"

\* A pump: the frames that it has taken are those of the messages it has written, and
\* of the one it is copying, as long as the side it writes to stays.
Even(n) == n % 2 = 0
PumpCount(c) ==
  LET w == written[Other(c)] IN
  /\ pump[c] = "off" => w = <<>> /\ taken[c] = 0
  /\ pump[c] = "next" =>
       Even(taken[c]) /\ (~Left(Other(c)) => 2 * Len(w) = taken[c])
  /\ pump[c] \in {"copy", "close", "closeAfterError"} =>
       /\ Even(taken[c] - parts[c]) /\ parts[c] <= taken[c]
       /\ ~Left(Other(c)) => 2 * Len(w) = taken[c] - parts[c]
  /\ pump[c] \in {"copy", "closeAfterError"} => parts[c] < 2
  /\ pump[c] = "close" => parts[c] = 2
  /\ pump[c] = "closeAfterError" => SourceEnded(c)
PumpCounts == \A c \in Sides : PumpCount(c)

\* Messages are numbered as they were sent, and a cut one is the last.
Order(c) ==
  LET w == written[Other(c)] IN
  \A i \in 1 .. Len(w) :
    /\ w[i].message = i
    /\ w[i].parts < 2 => i = Len(w) /\ pump[c] = "returned" /\ SourceEnded(c)
Orders == \A c \in Sides : Order(c)

RelayIInv == RelayTypeOK /\ RelayStages /\ PumpCounts /\ Orders

-----------------------------------------------------------------------------
(* Each part of the invariant is kept by each action.                      *)

\* One more message is two more frames.
LEMMA TwiceNext == \A n, t \in Nat : 2 * n = t - 2 => 2 * (n + 1) = t
  OBVIOUS

\* CloseWriter: the message that it sends is the next one of its direction.
LEMMA CloseWriterSteps ==
  ASSUME RelayIInv, NEW c \in Sides, CloseWriter(c)
  PROVE  LET d == Other(c) IN
         /\ d \in Sides /\ d # c /\ Other(d) = c
         /\ pump[c] \in {"close", "closeAfterError"}
         /\ UNCHANGED <<parts, taken, gateway, sides>>
         /\ \E step \in {"next", "returned"} :
              /\ pump' = [pump EXCEPT ![c] = step]
              /\ \/ /\ ~Left(d) /\ (step = "next" <=> pump[c] = "close")
                    /\ written' = [written EXCEPT ![d] =
                         Append(written[d], [message |-> Len(written[d]) + 1, parts |-> parts[c]])]
                 \/ /\ step = "returned" \/ (Left(d) /\ pump[c] = "close")
                    /\ written' = written
<1> USE DEF Sides, gateway, sides
<1> DEFINE d == Other(c)
<1>1. d \in Sides /\ d # c /\ Other(d) = c
  BY DEF Other
<1>2. pump[c] \in {"close", "closeAfterError"} /\ UNCHANGED <<parts, taken, gateway, sides>>
  BY DEF CloseWriter
<1>3. AfterClose(c) = IF pump[c] = "close" THEN "next" ELSE "returned"
  BY DEF AfterClose
<1>4. /\ Len(written[d]) \in Nat /\ taken[c] \in Nat /\ parts[c] \in Nat
      /\ ~Left(d) => 2 * Len(written[d]) = taken[c] - parts[c]
  <2>1. written[d] \in Seq([message : Nat, parts : 0 .. 2]) /\ taken[c] \in Nat /\ parts[c] \in 0 .. 2
    BY <1>1 DEF RelayIInv, RelayTypeOK
  <2>2. PumpCount(c)
    BY DEF RelayIInv, PumpCounts
  <2> QED BY <1>2, <2>1, <2>2 DEF PumpCount
<1>5. ~Left(d) => (taken[c] - parts[c]) \div 2 + 1 = Len(written[d]) + 1
  BY <1>4
<1>6. CASE /\ ~Left(d)
           /\ written' = [written EXCEPT ![d] =
                Append(@, [message |-> (taken[c] - parts[c]) \div 2 + 1, parts |-> parts[c]])]
           /\ pump' = [pump EXCEPT ![c] = AfterClose(c)]
  BY <1>1, <1>2, <1>3, <1>5, <1>6
<1>7. CASE Left(d) /\ pump' = [pump EXCEPT ![c] = AfterClose(c)] /\ written' = written
  BY <1>1, <1>2, <1>3, <1>7
<1>8. CASE pump' = [pump EXCEPT ![c] = "returned"] /\ written' = written
  BY <1>1, <1>2, <1>8
<1> QED BY <1>6, <1>7, <1>8 DEF CloseWriter

\* The types, and that nothing is read before it was sent.
LEMMA TypesKept == RelayIInv /\ [Next]_vars => RelayTypeOK'
<1> SUFFICES ASSUME RelayIInv, [Next]_vars PROVE RelayTypeOK'
  OBVIOUS
<1> USE BoundsAssumption, ProtocolAssumption DEF RelayIInv, PumpCounts, Orders, RelayTypeOK, Sides, gateway, pumps, sides
<1>1. CASE UNCHANGED vars
  BY <1>1 DEF vars, PumpSteps, Other, Left
<1>2. ASSUME Dial PROVE RelayTypeOK'
  BY <1>2 DEF Dial, UpstreamProtocols, PumpSteps, Other, Left
<1>3. ASSUME Upgrade PROVE RelayTypeOK'
  BY <1>3 DEF Upgrade, Selected, PumpSteps, Other, Left
<1>4. ASSUME UpgradeFails PROVE RelayTypeOK'
  BY <1>4 DEF UpgradeFails, AfterUpgradeError, PumpSteps, Other, Left
<1>5. ASSUME HandlerReturns PROVE RelayTypeOK'
  BY <1>5 DEF HandlerReturns, PumpSteps, Other, Left
<1>6. ASSUME CloseUpstream PROVE RelayTypeOK'
  BY <1>6 DEF CloseUpstream, PumpSteps, Other, Left
<1>7. ASSUME Wait PROVE RelayTypeOK'
  BY <1>7 DEF Wait, HelperOver, PumpSteps, Other, Left
<1>8. ASSUME HelperReturns PROVE RelayTypeOK'
  BY <1>8 DEF HelperReturns, ClosedByHelper, PumpSteps, Other, Left
<1>9. ASSUME HelperCloses PROVE RelayTypeOK'
  BY <1>9 DEF HelperCloses, PumpSteps, Other, Left
<1>10. ASSUME NEW c \in Sides, NextMessage(c) PROVE RelayTypeOK'
  BY <1>10 DEF NextMessage, Readable, SourceEnded, PumpSteps, Other, Left
<1>11. ASSUME NEW c \in Sides, Copy(c) PROVE RelayTypeOK'
  <2>1. (parts[c] < 2 /\ taken[c] < sent[c]) \/ UNCHANGED <<taken, parts>>
    BY <1>11 DEF Copy, PumpCount, Readable
  <2> QED BY <1>11, <2>1 DEF Copy, PumpSteps
<1>12. ASSUME NEW c \in Sides, CloseWriter(c) PROVE RelayTypeOK'
  <2> DEFINE d == Other(c)
  <2>1. /\ d \in Sides /\ d # c /\ Other(d) = c
        /\ pump[c] \in {"close", "closeAfterError"}
        /\ UNCHANGED <<parts, taken, gateway, sides>>
    BY <1>12, CloseWriterSteps
  <2>2. PICK step \in {"next", "returned"} :
          /\ pump' = [pump EXCEPT ![c] = step]
          /\ \/ /\ ~Left(d) /\ (step = "next" <=> pump[c] = "close")
                /\ written' = [written EXCEPT ![d] =
                     Append(written[d], [message |-> Len(written[d]) + 1, parts |-> parts[c]])]
             \/ /\ step = "returned" \/ (Left(d) /\ pump[c] = "close")
                /\ written' = written
    BY <1>12, CloseWriterSteps
  <2>3. pump' \in [Sides -> PumpSteps]
    BY <2>2 DEF PumpSteps
  <2>4. CASE written' = written
    BY <2>1, <2>3, <2>4
  <2>5. CASE written' = [written EXCEPT ![d] =
               Append(written[d], [message |-> Len(written[d]) + 1, parts |-> parts[c]])]
    <3>1. written[d] \in Seq([message : Nat, parts : 0 .. 2]) /\ Len(written[d]) \in Nat
      BY <2>1
    <3>2. [message |-> Len(written[d]) + 1, parts |-> parts[c]] \in [message : Nat, parts : 0 .. 2]
      BY <3>1
    <3>3. /\ written'[d] \in Seq([message : Nat, parts : 0 .. 2])
          /\ Len(written'[d]) = Len(written[d]) + 1
      <4>1. written'[d] = Append(written[d], [message |-> Len(written[d]) + 1, parts |-> parts[c]])
        BY <2>1, <2>5
      <4> HIDE DEF d
      <4> QED BY <3>1, <3>2, <4>1, AppendProperties
    <3>4. written' \in [Sides -> Seq([message : Nat, parts : 0 .. 2])]
      BY <2>1, <2>5, <3>3
    <3>5. \A e \in Sides : seen[e] <= Len(written'[e])
      BY <2>1, <2>5, <3>1, <3>3
    <3> QED BY <2>1, <2>3, <3>4, <3>5
  <2> QED BY <2>2, <2>4, <2>5
<1>13. ASSUME NEW c \in Sides, Send(c) PROVE RelayTypeOK'
  BY <1>13 DEF Send, PumpSteps, Other, Left
<1>14. ASSUME NEW c \in Sides, Receive(c) PROVE RelayTypeOK'
  BY <1>14 DEF Receive, PumpSteps, Other, Left
<1>15. ASSUME NEW c \in Sides, Stall(c) PROVE RelayTypeOK'
  BY <1>15 DEF Stall, PumpSteps, Other, Left
<1>16. ASSUME NEW c \in Sides, Leave(c) PROVE RelayTypeOK'
  BY <1>16 DEF Leave, PumpSteps, Other, Left
<1> QED BY <1>1, <1>2, <1>3, <1>4, <1>5, <1>6, <1>7, <1>8, <1>9,
           <1>10, <1>11, <1>12, <1>13, <1>14, <1>15, <1>16
        DEF Next, Handler, Helper, Pump, Environment, Finished

\* Who has closed what.
LEMMA StagesKept == RelayIInv /\ [Next]_vars => RelayStages'
<1> SUFFICES ASSUME RelayIInv, [Next]_vars PROVE RelayStages'
  OBVIOUS
<1> USE BoundsAssumption, ProtocolAssumption DEF RelayIInv, PumpCounts, Orders, RelayTypeOK, Sides, gateway, pumps, sides
<1>1. CASE UNCHANGED vars
  BY <1>1 DEF vars, RelayStages, HelperOver, PumpSteps
<1>2. ASSUME Dial PROVE RelayStages'
  BY <1>2 DEF Dial, UpstreamProtocols, RelayStages, HelperOver, PumpSteps
<1>3. ASSUME Upgrade PROVE RelayStages'
  BY <1>3 DEF Upgrade, Selected, RelayStages, HelperOver, PumpSteps
<1>4. ASSUME UpgradeFails PROVE RelayStages'
  BY <1>4 DEF UpgradeFails, AfterUpgradeError, RelayStages, HelperOver, PumpSteps
<1>5. ASSUME HandlerReturns PROVE RelayStages'
  BY <1>5 DEF HandlerReturns, RelayStages, HelperOver, PumpSteps
<1>6. ASSUME CloseUpstream PROVE RelayStages'
  BY <1>6 DEF CloseUpstream, RelayStages, HelperOver, PumpSteps
<1>7. ASSUME Wait PROVE RelayStages'
  BY <1>7 DEF Wait, HelperOver, RelayStages, PumpSteps
<1>8. ASSUME HelperReturns PROVE RelayStages'
  BY <1>8 DEF HelperReturns, ClosedByHelper, RelayStages, HelperOver, PumpSteps
<1>9. ASSUME HelperCloses PROVE RelayStages'
  BY <1>9 DEF HelperCloses, RelayStages, HelperOver, PumpSteps
<1>10. ASSUME NEW c \in Sides, NextMessage(c) PROVE RelayStages'
  BY <1>10 DEF NextMessage, Readable, SourceEnded, RelayStages, HelperOver, PumpSteps
<1>11. ASSUME NEW c \in Sides, Copy(c) PROVE RelayStages'
  BY <1>11 DEF Copy, Readable, SourceEnded, EndsMessage, RelayStages, HelperOver, PumpSteps
<1>12. ASSUME NEW c \in Sides, CloseWriter(c) PROVE RelayStages'
  BY <1>12 DEF CloseWriter, AfterClose, RelayStages, HelperOver, PumpSteps
<1>13. ASSUME NEW c \in Sides, Send(c) PROVE RelayStages'
  BY <1>13 DEF Send, RelayStages, HelperOver, PumpSteps
<1>14. ASSUME NEW c \in Sides, Receive(c) PROVE RelayStages'
  BY <1>14 DEF Receive, RelayStages, HelperOver, PumpSteps
<1>15. ASSUME NEW c \in Sides, Stall(c) PROVE RelayStages'
  BY <1>15 DEF Stall, RelayStages, HelperOver, PumpSteps
<1>16. ASSUME NEW c \in Sides, Leave(c) PROVE RelayStages'
  BY <1>16 DEF Leave, RelayStages, HelperOver, PumpSteps
<1> QED BY <1>1, <1>2, <1>3, <1>4, <1>5, <1>6, <1>7, <1>8, <1>9,
           <1>10, <1>11, <1>12, <1>13, <1>14, <1>15, <1>16
        DEF Next, Handler, Helper, Pump, Environment, Finished

\* The count of what a pump has written.
LEMMA CountKept == RelayIInv /\ [Next]_vars => PumpCounts'
<1> SUFFICES ASSUME RelayIInv, [Next]_vars PROVE PumpCounts'
  OBVIOUS
<1> USE BoundsAssumption, ProtocolAssumption DEF RelayIInv, PumpCounts, Orders, RelayTypeOK, Sides, gateway, pumps, sides
<1>1. CASE UNCHANGED vars
  BY <1>1 DEF vars, PumpCount, RelayStages, Even, Other, Left, SourceEnded
<1>2. ASSUME Dial PROVE PumpCounts'
  BY <1>2
     DEF Dial, UpstreamProtocols, PumpCount, RelayStages, Even, Other, Left, SourceEnded
<1>3. ASSUME Upgrade PROVE PumpCounts'
  BY <1>3 DEF Upgrade, Selected, PumpCount, RelayStages, Even, Other, Left, SourceEnded
<1>4. ASSUME UpgradeFails PROVE PumpCounts'
  BY <1>4 DEF UpgradeFails, AfterUpgradeError, PumpCount, RelayStages, Even, Other, Left,
         SourceEnded
<1>5. ASSUME HandlerReturns PROVE PumpCounts'
  BY <1>5 DEF HandlerReturns, PumpCount, RelayStages, Even, Other, Left, SourceEnded
<1>6. ASSUME CloseUpstream PROVE PumpCounts'
  BY <1>6 DEF CloseUpstream, PumpCount, RelayStages, Even, Other, Left, SourceEnded
<1>7. ASSUME Wait PROVE PumpCounts'
  BY <1>7 DEF Wait, HelperOver, PumpCount, RelayStages, Even, Other, Left, SourceEnded
<1>8. ASSUME HelperReturns PROVE PumpCounts'
  BY <1>8 DEF HelperReturns, ClosedByHelper, PumpCount, RelayStages, Even, Other, Left,
         SourceEnded
<1>9. ASSUME HelperCloses PROVE PumpCounts'
  BY <1>9 DEF HelperCloses, PumpCount, RelayStages, Even, Other, Left, SourceEnded
<1>10. ASSUME NEW c \in Sides, NextMessage(c) PROVE PumpCounts'
  BY <1>10 DEF NextMessage, SourceEnded, PumpCount, Other, Left
<1>11. ASSUME NEW c \in Sides, Copy(c) PROVE PumpCounts'
  <2>1. ASSUME NEW d \in Sides PROVE PumpCount(d)'
    <3>1. PumpCount(d)
      OBVIOUS
    <3>2. CASE d # c
      BY <1>11, <3>1, <3>2 DEF Copy, PumpCount, Even, Left, SourceEnded
    <3>3. CASE d = c
      <4>1. taken[c] \in Nat /\ parts[c] \in 0 .. 1 /\ Even(taken[c] - parts[c]) /\ parts[c] <= taken[c]
        BY <1>11, <3>1, <3>3 DEF Copy, PumpCount
      <4>2. CASE /\ taken' = [taken EXCEPT ![c] = @ + 1]
                 /\ parts' = [parts EXCEPT ![c] = @ + 1]
                 /\ pump' = [pump EXCEPT ![c] = IF EndsMessage(taken[c] + 1) THEN "close" ELSE "copy"]
        <5>1. /\ taken'[c] = taken[c] + 1 /\ parts'[c] = parts[c] + 1
              /\ taken'[c] - parts'[c] = taken[c] - parts[c]
          BY <4>1, <4>2
        <5>2. EndsMessage(taken[c] + 1) <=> parts[c] = 1
          BY <4>1 DEF Even, EndsMessage
        <5>3. pump'[c] = IF parts[c] = 1 THEN "close" ELSE "copy"
          BY <4>2, <5>2
        <5>4. written' = written /\ peer' = peer
          BY <1>11 DEF Copy
        <5> QED BY <1>11, <3>1, <3>3, <4>1, <5>1, <5>3, <5>4 DEF Copy, PumpCount, Left
      <4>3. CASE /\ SourceEnded(c) /\ pump' = [pump EXCEPT ![c] = "closeAfterError"]
                 /\ UNCHANGED <<taken, parts>>
        BY <1>11, <3>1, <3>3, <4>1, <4>3 DEF Copy, PumpCount, Left, SourceEnded
      <4> QED BY <1>11, <4>2, <4>3 DEF Copy
    <3> QED BY <3>2, <3>3
  <2> QED BY <2>1
<1>12. ASSUME NEW c \in Sides, CloseWriter(c) PROVE PumpCounts'
  <2> DEFINE d == Other(c)
  <2>1. /\ d \in Sides /\ d # c /\ Other(d) = c
        /\ pump[c] \in {"close", "closeAfterError"}
        /\ UNCHANGED <<parts, taken, gateway, sides>>
    BY <1>12, CloseWriterSteps
  <2>2. PICK step \in {"next", "returned"} :
          /\ pump' = [pump EXCEPT ![c] = step]
          /\ \/ /\ ~Left(d) /\ (step = "next" <=> pump[c] = "close")
                /\ written' = [written EXCEPT ![d] =
                     Append(written[d], [message |-> Len(written[d]) + 1, parts |-> parts[c]])]
             \/ /\ step = "returned" \/ (Left(d) /\ pump[c] = "close")
                /\ written' = written
    BY <1>12, CloseWriterSteps
  <2>3. ASSUME NEW e \in Sides PROVE PumpCount(e)'
    <3>1. PumpCount(e) /\ PumpCount(c)
      OBVIOUS
    <3>2. CASE e # c
      <4>1. /\ written'[Other(e)] = written[Other(e)] /\ pump'[e] = pump[e]
            /\ taken'[e] = taken[e] /\ parts'[e] = parts[e] /\ SourceEnded(e)' = SourceEnded(e)
            /\ Left(Other(e))' = Left(Other(e))
        BY <2>1, <2>2, <3>2 DEF Other, SourceEnded, Left
      <4> QED BY <3>1, <4>1 DEF PumpCount
    <3>3. CASE e = c
      <4>1. CASE step = "returned"
        BY <2>1, <2>2, <3>3, <4>1 DEF PumpCount
      <4>2. CASE step = "next"
        <5>1. /\ pump[c] = "close" /\ pump'[c] = "next" /\ taken'[c] = taken[c] /\ Left(d)' = Left(d)
              /\ taken[c] \in Nat /\ parts[c] = 2 /\ Even(taken[c] - parts[c])
              /\ (~Left(d) => 2 * Len(written[d]) = taken[c] - parts[c])
          <6>1. pump[c] = "close" /\ pump'[c] = "next"
            BY <2>1, <2>2, <4>2
          <6> QED BY <2>1, <3>1, <6>1 DEF PumpCount, Left
        <5>2. Even(taken[c])
          BY <5>1 DEF Even
        <5>3. ~Left(d) => Len(written'[d]) = Len(written[d]) + 1 /\ Len(written[d]) \in Nat
          <6> SUFFICES ASSUME ~Left(d) PROVE Len(written'[d]) = Len(written[d]) + 1 /\ Len(written[d]) \in Nat
            OBVIOUS
          <6>1. written'[d] = Append(written[d], [message |-> Len(written[d]) + 1, parts |-> parts[c]])
            BY <2>1, <2>2, <4>2
          <6>2. /\ written[d] \in Seq([message : Nat, parts : 0 .. 2])
                /\ [message |-> Len(written[d]) + 1, parts |-> parts[c]] \in [message : Nat, parts : 0 .. 2]
            BY <2>1
          <6> HIDE DEF d
          <6> QED BY <6>1, <6>2, AppendProperties
        <5>4. ~Left(d) => 2 * Len(written'[d]) = taken[c]
          <6> SUFFICES ASSUME ~Left(d) PROVE 2 * Len(written'[d]) = taken[c]
            OBVIOUS
          <6>1. 2 * Len(written[d]) = taken[c] - 2 /\ Len(written[d]) \in Nat
            BY <5>1, <5>3
          <6>2. Len(written'[d]) = Len(written[d]) + 1
            BY <5>3
          <6> HIDE DEF d
          <6>3. taken[c] \in Nat
            BY <5>1
          <6> QED BY <6>1, <6>2, <6>3, TwiceNext
        <5> QED BY <3>3, <5>1, <5>2, <5>4 DEF PumpCount
      <4> QED BY <4>1, <4>2
    <3> QED BY <3>2, <3>3
  <2> QED BY <2>3
<1>13. ASSUME NEW c \in Sides, Send(c) PROVE PumpCounts'
  BY <1>13 DEF Send, PumpCount, RelayStages, Even, Other, Left, SourceEnded
<1>14. ASSUME NEW c \in Sides, Receive(c) PROVE PumpCounts'
  BY <1>14 DEF Receive, PumpCount, RelayStages, Even, Other, Left, SourceEnded
<1>15. ASSUME NEW c \in Sides, Stall(c) PROVE PumpCounts'
  BY <1>15 DEF Stall, PumpCount, RelayStages, Even, Other, Left, SourceEnded
<1>16. ASSUME NEW c \in Sides, Leave(c) PROVE PumpCounts'
  BY <1>16 DEF Leave, PumpCount, RelayStages, Even, Other, Left, SourceEnded
<1> QED BY <1>1, <1>2, <1>3, <1>4, <1>5, <1>6, <1>7, <1>8, <1>9,
           <1>10, <1>11, <1>12, <1>13, <1>14, <1>15, <1>16
        DEF Next, Handler, Helper, Pump, Environment, Finished

\* The order of what a pump has written.
LEMMA OrderKept == RelayIInv /\ [Next]_vars => Orders'
<1> SUFFICES ASSUME RelayIInv, [Next]_vars PROVE Orders'
  OBVIOUS
<1> USE BoundsAssumption, ProtocolAssumption DEF RelayIInv, PumpCounts, Orders, RelayTypeOK, Sides, gateway, pumps, sides
<1>1. CASE UNCHANGED vars
  BY <1>1 DEF vars, Order, SourceEnded, Other, Left
<1>2. ASSUME Dial PROVE Orders'
  <2>1. \A d \in Sides : written[d] = <<>> /\ written'[d] = <<>>
    BY <1>2 DEF Dial, RelayStages, PumpCount, Other
  <2> QED BY <2>1 DEF Order, Other
<1>3. ASSUME Upgrade PROVE Orders'
  <2>1. \A d \in Sides : written[d] = <<>> /\ written'[d] = <<>>
    BY <1>3 DEF Upgrade, RelayStages, PumpCount, Other
  <2> QED BY <2>1 DEF Order, Other
<1>4. ASSUME UpgradeFails PROVE Orders'
  BY <1>4 DEF UpgradeFails, AfterUpgradeError, Order, SourceEnded, Other, Left
<1>5. ASSUME HandlerReturns PROVE Orders'
  BY <1>5 DEF HandlerReturns, Order, SourceEnded, Other, Left
<1>6. ASSUME CloseUpstream PROVE Orders'
  BY <1>6 DEF CloseUpstream, Order, SourceEnded, Other, Left
<1>7. ASSUME Wait PROVE Orders'
  BY <1>7 DEF Wait, HelperOver, Order, SourceEnded, Other, Left
<1>8. ASSUME HelperReturns PROVE Orders'
  BY <1>8 DEF HelperReturns, ClosedByHelper, Order, SourceEnded, Other, Left
<1>9. ASSUME HelperCloses PROVE Orders'
  BY <1>9 DEF HelperCloses, Order, SourceEnded, Other, Left
<1>10. ASSUME NEW c \in Sides, NextMessage(c) PROVE Orders'
  <2>1. ASSUME NEW d \in Sides PROVE Order(d)'
    <3>1. Order(d) /\ written' = written /\ Other(d) \in Sides
      BY <1>10 DEF NextMessage, Other
    <3>2. pump[d] = "returned" /\ SourceEnded(d) => pump'[d] = "returned" /\ SourceEnded(d)'
      BY <1>10 DEF NextMessage, SourceEnded
    <3> QED BY <3>1, <3>2 DEF Order
  <2> QED BY <2>1
<1>11. ASSUME NEW c \in Sides, Copy(c) PROVE Orders'
  <2>1. ASSUME NEW d \in Sides PROVE Order(d)'
    <3>1. Order(d) /\ written' = written /\ Other(d) \in Sides
      BY <1>11 DEF Copy, Other
    <3>2. pump[d] = "returned" /\ SourceEnded(d) => pump'[d] = "returned" /\ SourceEnded(d)'
      BY <1>11 DEF Copy, SourceEnded, Readable
    <3> QED BY <3>1, <3>2 DEF Order
  <2> QED BY <2>1
<1>12. ASSUME NEW c \in Sides, CloseWriter(c) PROVE Orders'
  <2> DEFINE d == Other(c)
  <2>1. /\ d \in Sides /\ d # c /\ Other(d) = c
        /\ pump[c] \in {"close", "closeAfterError"}
        /\ UNCHANGED <<parts, taken, gateway, sides>>
    BY <1>12, CloseWriterSteps
  <2>2. PICK step \in {"next", "returned"} :
          /\ pump' = [pump EXCEPT ![c] = step]
          /\ \/ /\ ~Left(d) /\ (step = "next" <=> pump[c] = "close")
                /\ written' = [written EXCEPT ![d] =
                     Append(written[d], [message |-> Len(written[d]) + 1, parts |-> parts[c]])]
             \/ /\ step = "returned" \/ (Left(d) /\ pump[c] = "close")
                /\ written' = written
    BY <1>12, CloseWriterSteps
  <2>3. ASSUME NEW e \in Sides PROVE Order(e)'
    <3>1. Order(e) /\ PumpCount(c) /\ Order(c)
      OBVIOUS
    <3>2. CASE written' = written
      <4>1. pump[e] = "returned" /\ SourceEnded(e) => pump'[e] = "returned" /\ SourceEnded(e)'
        BY <2>1, <2>2 DEF SourceEnded
      <4> QED BY <3>1, <3>2, <4>1 DEF Order
    <3>3. CASE e # c
      <4>1. written'[Other(e)] = written[Other(e)] /\ pump'[e] = pump[e] /\ SourceEnded(e)' = SourceEnded(e)
        BY <2>1, <2>2, <3>3 DEF Other, SourceEnded
      <4> QED BY <3>1, <4>1 DEF Order
    <3>4. CASE e = c /\ written' # written
      <4> DEFINE n == Len(written[d])
      <4>1. /\ written'[d] = Append(written[d], [message |-> n + 1, parts |-> parts[c]])
            /\ n \in Nat /\ written[d] \in Seq([message : Nat, parts : 0 .. 2])
            /\ parts[c] \in 0 .. 2 /\ (step = "next" <=> pump[c] = "close")
        BY <2>1, <2>2, <3>4
      <4>2. /\ Len(written'[d]) = n + 1
            /\ \A i \in 1 .. n : written'[d][i] = written[d][i]
            /\ written'[d][n + 1] = [message |-> n + 1, parts |-> parts[c]]
        <5>1. [message |-> n + 1, parts |-> parts[c]] \in [message : Nat, parts : 0 .. 2]
          BY <4>1
        <5> HIDE DEF n
        <5> QED BY <4>1, <5>1, AppendProperties DEF n
      <4>3. ASSUME NEW i \in 1 .. n PROVE written[d][i].message = i /\ written[d][i].parts = 2
        <5>1. written[d][i] \in [message : Nat, parts : 0 .. 2]
          BY <4>1, ElementOfSeq
        <5>2. written[d][i].message = i /\ ~(written[d][i].parts < 2)
          BY <2>1, <3>1, <3>4 DEF Order
        <5> QED BY <5>1, <5>2
      <4>4. parts[c] < 2 => pump'[c] = "returned" /\ SourceEnded(c)'
        BY <2>1, <2>2, <3>1, <4>1 DEF PumpCount, SourceEnded
      <4> HIDE DEF n
      <4>5. ASSUME NEW i \in 1 .. n + 1
            PROVE  /\ written'[d][i].message = i
                   /\ written'[d][i].parts < 2 => i = n + 1 /\ pump'[c] = "returned" /\ SourceEnded(c)'
        <5>1. CASE i = n + 1
          BY <4>1, <4>2, <4>4, <5>1
        <5>2. CASE i \in 1 .. n
          <6>1. written'[d][i] = written[d][i]
            BY <4>2, <5>2
          <6>2. written[d][i].message = i /\ written[d][i].parts = 2
            BY <4>3, <5>2
          <6>3. ~(2 < 2)
            OBVIOUS
          <6> QED BY <6>1, <6>2, <6>3, Zenon
        <5>3. n \in Nat
          BY <4>1
        <5> QED BY <5>1, <5>2, <5>3
      <4> QED BY <2>1, <3>4, <4>2, <4>5 DEF Order, n
    <3> QED BY <3>2, <3>3, <3>4
  <2> QED BY <2>3
<1>13. ASSUME NEW c \in Sides, Send(c) PROVE Orders'
  <2>1. ASSUME NEW d \in Sides PROVE Order(d)'
    <3>1. Order(d) /\ written' = written /\ Other(d) \in Sides
      BY <1>13 DEF Send, Other
    <3>2. pump[d] = "returned" /\ SourceEnded(d) => pump'[d] = "returned" /\ SourceEnded(d)'
      BY <1>13 DEF Send, SourceEnded
    <3> QED BY <3>1, <3>2 DEF Order
  <2> QED BY <2>1
<1>14. ASSUME NEW c \in Sides, Receive(c) PROVE Orders'
  BY <1>14 DEF Receive, Order, SourceEnded, Other, Left
<1>15. ASSUME NEW c \in Sides, Stall(c) PROVE Orders'
  BY <1>15 DEF Stall, Order, SourceEnded, Other, Left
<1>16. ASSUME NEW c \in Sides, Leave(c) PROVE Orders'
  <2>1. UNCHANGED <<written, pump>>
    BY <1>16 DEF Leave
  <2>2. ASSUME NEW d \in Sides, SourceEnded(d) PROVE SourceEnded(d)'
    BY <1>16, <2>2 DEF Leave, SourceEnded, Left
  <2>3. ASSUME NEW d \in Sides PROVE Order(d)'
    <3>1. Order(d)
      OBVIOUS
    <3> QED BY <2>1, <2>2, <3>1 DEF Order
  <2> QED BY <2>3
<1> QED BY <1>1, <1>2, <1>3, <1>4, <1>5, <1>6, <1>7, <1>8, <1>9,
           <1>10, <1>11, <1>12, <1>13, <1>14, <1>15, <1>16
        DEF Next, Handler, Helper, Pump, Environment, Finished

-----------------------------------------------------------------------------
(* The theorems.                                                           *)

\* Nothing is open and nothing has been sent.
LEMMA RelayInit == Init => RelayIInv
<1> SUFFICES ASSUME Init PROVE RelayIInv
  OBVIOUS
<1> USE BoundsAssumption, ProtocolAssumption DEF Init, Sides
<1>1. RelayTypeOK
  BY DEF RelayTypeOK, PumpSteps
<1>2. RelayStages
  BY DEF RelayStages
<1>3. \A c \in Sides : written[Other(c)] = <<>>
  BY DEF Other
<1>4. \A c \in Sides : PumpCount(c) /\ Order(c)
  BY <1>3 DEF PumpCount, Order
<1> QED BY <1>1, <1>2, <1>4 DEF RelayIInv, PumpCounts, Orders

\* The inductive invariant holds at every step.
THEOREM RelayInvariant == Spec => []RelayIInv
<1>1. RelayIInv /\ [Next]_vars => RelayIInv'
  BY TypesKept, StagesKept, CountKept, OrderKept DEF RelayIInv
<1> QED BY RelayInit, <1>1, PTL DEF Spec

\* Each side is written the messages of the other one in their order, none twice and
\* none left out, only the last can be cut and only by the end of its connection; and
\* a handler that has returned leaves neither a connection nor a goroutine behind.
THEOREM RelayKept == Spec => []RelayInv
<1>1. RelayIInv => InOrderUntilTheEnd
  <2> SUFFICES ASSUME RelayIInv, NEW c \in Sides, NEW i \in DOMAIN written[Other(c)]
               PROVE  /\ written[Other(c)][i].message = i
                      /\ written[Other(c)][i].parts < 2 =>
                           i = Len(written[Other(c)]) /\ pump[c] = "returned" /\ SourceEnded(c)
    BY DEF InOrderUntilTheEnd
  <2>1. written[Other(c)] \in Seq([message : Nat, parts : 0 .. 2])
    BY DEF RelayIInv, RelayTypeOK, Other, Sides
  <2>2. i \in 1 .. Len(written[Other(c)])
    BY <2>1
  <2> QED BY <2>2 DEF RelayIInv, Orders, Order
<1>2. RelayIInv => NothingLeftOpen
  BY DEF RelayIInv, RelayStages, NothingLeftOpen, HelperOver, Sides
<1>3. RelayIInv => RelayInv
  BY <1>1, <1>2 DEF RelayIInv, RelayInv
<1> QED BY RelayInvariant, <1>3, PTL

\* The two connections behave as one pair: the upstream is connected before the browser
\* is accepted, a closed connection is not opened again, and no message goes to a
\* connection before there are two, or after it was closed.
THEOREM RelayIsPair == Spec => Pair!Safety
<1> USE DEF Sides, Pair!Sides
<1>1. Init => Pair!Init
  <2> SUFFICES ASSUME Init PROVE Pair!Init
    OBVIOUS
  <2>1. \A c \in Sides : Len(written[c]) = 0
    BY DEF Init
  <2> QED BY <2>1 DEF Init, Pair!Init
<1>2. RelayIInv /\ [Next]_vars => [Pair!Next]_Pair!vars
  <2> SUFFICES ASSUME RelayIInv, [Next]_vars PROVE [Pair!Next]_Pair!vars
    OBVIOUS
  <2> USE DEF Pair!vars
  <2>1. CASE UNCHANGED <<conn, written>>
    BY <2>1
  <2>2. CASE Dial
    <3>1. UNCHANGED written
      BY <2>2 DEF Dial, pumps
    <3>2. conn["upstream"] = "none"
      BY <2>2 DEF Dial, RelayIInv, RelayStages
    <3> QED BY <2>2, <3>1, <3>2 DEF Dial, Pair!Next, Pair!Connect
  <2>3. CASE Upgrade
    <3>1. conn["upstream"] = "open" /\ conn["browser"] = "none"
      BY <2>3 DEF Upgrade, RelayIInv, RelayStages
    <3> QED BY <2>3, <3>1 DEF Upgrade, Pair!Next, Pair!Accept
  <2>4. CASE CloseUpstream \/ HelperReturns \/ HandlerReturns \/ HelperCloses
    <3>1. PICK c \in Sides : /\ conn[c] # "none" /\ UNCHANGED written
                             /\ conn' = [conn EXCEPT ![c] = "closed"]
      BY <2>4
         DEF CloseUpstream, HelperReturns, ClosedByHelper, HandlerReturns, HelperCloses,
                  pumps, RelayIInv, RelayStages
    <3>2. CASE conn[c] = "open"
      BY <3>1, <3>2 DEF Pair!Next, Pair!Close
    <3>3. CASE conn[c] = "closed"
      <4>1. conn' = conn
        BY <3>1, <3>3 DEF RelayIInv, RelayTypeOK
      <4> QED BY <3>1, <4>1
    <3>4. conn[c] \in {"none", "open", "closed"}
      BY DEF RelayIInv, RelayTypeOK
    <3> QED BY <3>1, <3>2, <3>3, <3>4
  <2>5. ASSUME NEW c \in Sides, CloseWriter(c) PROVE [Pair!Next]_Pair!vars
    <3> DEFINE d == Other(c)
    <3>1. d \in Sides /\ conn[Pair!Other(d)] # "none" /\ UNCHANGED conn
      BY <2>5 DEF CloseWriter, Other, Pair!Other, gateway, RelayIInv, RelayStages
    <3>2. CASE written' = written
      BY <3>1, <3>2
    <3>3. CASE /\ conn[d] = "open"
               /\ \E m \in [message : Nat, parts : 0 .. 2] :
                    written' = [written EXCEPT ![d] = Append(written[d], m)]
      <4>1. PICK m \in [message : Nat, parts : 0 .. 2] :
              written' = [written EXCEPT ![d] = Append(written[d], m)]
        BY <3>3
      <4>2. written \in [Sides -> Seq([message : Nat, parts : 0 .. 2])]
        BY DEF RelayIInv, RelayTypeOK
      <4>3. Len(written'[d]) = Len(written[d]) + 1
        BY <3>1, <4>1, <4>2, AppendProperties
      <4>4. \A e \in Sides : e # d => written'[e] = written[e]
        BY <4>1, <4>2
      <4>5. [e \in Sides |-> Len(written'[e])]
              = [[e \in Sides |-> Len(written[e])] EXCEPT ![d] = @ + 1]
        BY <3>1, <4>3, <4>4
      <4> QED BY <3>1, <3>3, <4>5 DEF Pair!Next, Pair!Carry
    <3> QED
      <4>1. CASE written' # written
        <5>1. PICK step \in {"next", "returned"} :
                written' = [written EXCEPT ![d] =
                  Append(written[d], [message |-> Len(written[d]) + 1, parts |-> parts[c]])]
          BY <2>5, <4>1, CloseWriterSteps
        <5>2. [message |-> Len(written[d]) + 1, parts |-> parts[c]]
                \in [message : Nat, parts : 0 .. 2]
          BY <3>1 DEF RelayIInv, RelayTypeOK
        <5>3. conn[d] = "open"
          BY <2>5, <4>1 DEF CloseWriter
        <5> QED BY <3>3, <5>1, <5>2, <5>3
      <4> QED BY <3>2, <4>1
  <2>6. CASE UpgradeFails \/ Wait \/ UNCHANGED vars
    <3>1. UNCHANGED <<conn, written>> \/ UNCHANGED vars
      BY <2>6 DEF UpgradeFails, Wait, pumps, vars, gateway
    <3> QED BY <2>1, <2>6, <3>1 DEF vars, gateway, pumps
  <2>7. ASSUME NEW c \in Sides, NextMessage(c) \/ Copy(c) \/ Environment(c)
        PROVE  [Pair!Next]_Pair!vars
    <3>1. UNCHANGED <<conn, written>>
      BY <2>7
         DEF NextMessage, Copy, Environment, Send, Receive, Stall, Leave, gateway, pumps
    <3> QED BY <2>1, <3>1
  <2> QED BY <2>2, <2>3, <2>4, <2>5, <2>6, <2>7
        DEF Next, Handler, Helper, Pump, Finished
<1> QED BY RelayInvariant, <1>1, <1>2, PTL DEF Spec, Pair!Safety

\* The browser is told the subprotocol that the upstream has selected, and none that it
\* did not ask for: the upstream is asked first, and neither selection changes later
\* (websocketClientConn, upgradeAndHandle).
THEOREM SubprotocolKept == Spec => []SubprotocolAgreed
<1> DEFINE Inv == SubprotocolAgreed /\ (handler \in {"dial", "upgrade"} => answer # "upgraded")
<1>1. Init => Inv
  BY DEF Init, SubprotocolAgreed
<1>2. RelayIInv /\ Inv /\ [Next]_vars => Inv'
  <2> SUFFICES ASSUME RelayIInv, Inv, [Next]_vars PROVE Inv'
    OBVIOUS
  <2> USE DEF SubprotocolAgreed
  <2>1. protocol \in [Sides -> Protocols \union {NoProtocol}] /\ "browser" \in Sides
    BY DEF RelayIInv, RelayTypeOK, Sides
  <2>2. ASSUME Dial PROVE Inv'
    BY <2>2 DEF Dial
  <2>3. ASSUME Upgrade PROVE Inv'
    BY <2>1, <2>3 DEF Upgrade, Selected
  <2>4. ASSUME UpgradeFails PROVE Inv'
    BY <2>4 DEF UpgradeFails, AfterUpgradeError
  <2>5. ASSUME HandlerReturns \/ CloseUpstream \/ Wait PROVE Inv'
    BY <2>5 DEF HandlerReturns, CloseUpstream, Wait
  <2>6. ASSUME HelperReturns \/ HelperCloses PROVE Inv'
    BY <2>6 DEF HelperReturns, HelperCloses
  <2>7. ASSUME NEW c \in Sides, Pump(c) PROVE Inv'
    BY <2>7 DEF Pump, NextMessage, Copy, CloseWriter, gateway
  <2>8. ASSUME NEW c \in Sides, Environment(c) PROVE Inv'
    BY <2>8 DEF Environment, Send, Receive, Stall, Leave, gateway
  <2>9. ASSUME UNCHANGED vars PROVE Inv'
    BY <2>9 DEF vars, gateway
  <2> QED BY <2>2, <2>3, <2>4, <2>5, <2>6, <2>7, <2>8, <2>9 DEF Next, Handler, Helper, Finished
<1>3. Inv => SubprotocolAgreed
  OBVIOUS
<1> QED BY <1>1, <1>2, <1>3, RelayInvariant, PTL DEF Spec

-----------------------------------------------------------------------------
(* The escaped suffix of a path.                                           *)

\* f counts the bytes of the escaped path, one byte of the decoded one after the other.
Steps(f, raw, i) ==
  f[i] = IF i = 0 THEN 0 ELSE f[i - 1] + IF raw[f[i - 1] + 1] = "%" THEN EscapeWidth ELSE 1

LEMMA OffsetExists ==
  ASSUME NEW raw, NEW n \in Nat
  PROVE  \E f : (\A i \in 0 .. n : Steps(f, raw, i)) /\ RawOffset(raw, n) = f[n]
<1> DEFINE After(f) == [i \in 0 .. n |->
                         IF i = 0 THEN 0
                         ELSE f[i - 1] + IF raw[f[i - 1] + 1] = "%" THEN EscapeWidth ELSE 1]
           UpTo == {m \in Nat : \E f : \A i \in 0 .. n : i <= m => Steps(f, raw, i)}
<1>1. 0 \in UpTo
  <2>1. \A i \in 0 .. n : i <= 0 => Steps([j \in 0 .. n |-> 0], raw, i)
    BY DEF Steps
  <2> QED BY <2>1
<1>2. ASSUME NEW m \in Nat, m \in UpTo PROVE m + 1 \in UpTo
  <2>1. PICK f : \A i \in 0 .. n : i <= m => Steps(f, raw, i)
    BY <1>2
  <2>2. \A i \in 0 .. n : After(f)[i] = IF i = 0 THEN 0
                                        ELSE f[i - 1] + IF raw[f[i - 1] + 1] = "%" THEN EscapeWidth ELSE 1
    OBVIOUS
  <2> PICK h : h = After(f)
    OBVIOUS
  <2>3. \A i \in 0 .. n : i <= m => h[i] = f[i]
    BY <2>1, <2>2 DEF Steps
  <2>4. ASSUME NEW i \in 0 .. n, i <= m + 1 PROVE Steps(h, raw, i)
    <3>1. i # 0 => i - 1 \in 0 .. n /\ i - 1 <= m
      BY <2>4
    <3>2. i # 0 => h[i - 1] = f[i - 1]
      BY <2>3, <3>1
    <3> QED BY <2>2, <3>2 DEF Steps
  <2>5. \E k : \A i \in 0 .. n : i <= m + 1 => Steps(k, raw, i)
    BY <2>4, Zenon
  <2>6. m + 1 \in Nat
    OBVIOUS
  <2> QED BY <2>5, <2>6, Zenon
<1>3. n \in UpTo
  <2> HIDE DEF UpTo
  <2>1. Nat \subseteq UpTo
    BY <1>1, <1>2, AllNumbers
  <2> QED BY <2>1
<1>4. PICK f : \A i \in 0 .. n : Steps(f, raw, i)
  BY <1>3
<1>5. PICK h : h = After(f)
  OBVIOUS
<1>6. \A i \in 0 .. n : h[i] = f[i]
  BY <1>4, <1>5 DEF Steps
<1>7. After(f) = After(h)
  <2>1. \A i \in 0 .. n : i # 0 => i - 1 \in 0 .. n
    OBVIOUS
  <2>2. \A i \in 0 .. n : i # 0 => h[i - 1] = f[i - 1]
    BY <1>6, <2>1
  <2> QED BY <2>2
<1> DEFINE Is(k) == k = [i \in 0 .. n |->
                          IF i = 0 THEN 0
                          ELSE k[i - 1] + IF raw[k[i - 1] + 1] = "%" THEN EscapeWidth ELSE 1]
           offset == CHOOSE k : Is(k)
<1>8. Is(h)
  BY <1>5, <1>7
<1>9. Is(offset)
  <2> HIDE DEF Is
  <2> QED BY <1>8
<1>10. \A i \in 0 .. n : Steps(offset, raw, i)
  <2>1. PICK k : k = offset
    OBVIOUS
  <2>2. k = After(k)
    BY <1>9, <2>1
  <2>3. \A i \in 0 .. n : Steps(k, raw, i)
    BY <2>2 DEF Steps
  <2> QED BY <2>1, <2>3
<1>11. RawOffset(raw, n) = offset[n]
  BY DEF RawOffset
<1> QED BY <1>10, <1>11

\* The escaped form of the first n bytes is counted by RawOffset.
LEMMA OffsetOfPrefix ==
  ASSUME NEW C, NEW path \in Seq(Seq(C)), NEW n \in 0 .. Len(path),
         \A i \in 1 .. Len(path) : Len(path[i]) = IF path[i][1] = "%" THEN EscapeWidth ELSE 1
  PROVE  RawOffset(FlattenSeq(path), n) = Len(FlattenSeq(SubSeq(path, 1, n)))
<1> DEFINE escaped(k) == FlattenSeq(SubSeq(path, 1, k))
           raw == FlattenSeq(path)
<1>0. Len(path) \in Nat /\ n \in Nat /\ n <= Len(path)
  OBVIOUS
<1>1. PICK f : (\A i \in 0 .. n : Steps(f, raw, i)) /\ RawOffset(raw, n) = f[n]
  BY <1>0, OffsetExists
<1> DEFINE Good == {k \in Nat : k <= n => f[k] = Len(escaped(k))}
<1>2. 0 \in Good
  <2>1. SubSeq(path, 1, 0) = <<>>
    BY SubSeqEmpty
  <2>2. Len(escaped(0)) = 0
    <3>1. escaped(0) = <<>>
      BY <2>1, FlattenEmpty, Zenon
    <3>2. \A s : s = <<>> => Len(s) = 0
      OBVIOUS
    <3> QED BY <3>1, <3>2, Zenon
  <2>3. f[0] = 0
    BY <1>0, <1>1 DEF Steps
  <2> QED BY <2>2, <2>3
<1>3. ASSUME NEW k \in Nat, k \in Good PROVE k + 1 \in Good
  <2> SUFFICES ASSUME k + 1 <= n PROVE f[k + 1] = Len(escaped(k + 1))
    OBVIOUS
  <2>1. /\ k \in 0 .. Len(path) /\ k < Len(path) /\ k <= n /\ k + 1 \in 0 .. n /\ k + 1 # 0
        /\ k + 1 - 1 = k /\ k + 1 \in 1 .. Len(path)
    BY <1>0
  <2>2. f[k] = Len(escaped(k))
    BY <1>3, <2>1
  <2>0. /\ path[k + 1] \in Seq(C)
        /\ SubSeq(path, 1, k + 1) = Append(SubSeq(path, 1, k), path[k + 1])
        /\ path = SubSeq(path, 1, k) \o SubSeq(path, k + 1, Len(path))
        /\ SubSeq(path, k + 1, Len(path)) = <<path[k + 1]>> \o SubSeq(path, k + 2, Len(path))
    BY <2>1, CutAt, Zenon
  <2> PICK a, b, d, x : /\ a = SubSeq(path, 1, k) /\ b = SubSeq(path, k + 1, Len(path))
                        /\ d = SubSeq(path, k + 2, Len(path)) /\ x = path[k + 1]
    OBVIOUS
  <2>3. /\ x \in Seq(C) /\ SubSeq(path, 1, k + 1) = Append(a, x) /\ path = a \o b /\ b = <<x>> \o d
    BY <2>0
  <2>4. a \in Seq(Seq(C)) /\ b \in Seq(Seq(C))
    BY <2>1, Halves, Zenon
  <2>5. d \in Seq(Seq(C))
    <3>1. k + 1 \in 0 .. Len(path) /\ (k + 1) + 1 = k + 2
      BY <2>1
    <3> QED BY <3>1, Halves, Zenon
  <2> PICK fa, fb, fd : fa = FlattenSeq(a) /\ fb = FlattenSeq(b) /\ fd = FlattenSeq(d)
    OBVIOUS
  <2>6. fa \in Seq(C) /\ fb \in Seq(C) /\ fd \in Seq(C)
    BY <2>4, <2>5, FlattenType, Zenon
  <2>7. raw = fa \o fb
    BY <2>3, <2>4, FlattenJoin, Zenon
  <2>8. fb = x \o fd
    <3>1. <<x>> \in Seq(Seq(C))
      BY <2>3, OneOf, Zenon
    <3>2. FlattenSeq(<<x>>) = x
      BY <2>3, FlattenOne, Zenon
    <3> QED BY <2>3, <2>5, <3>1, <3>2, FlattenJoin, Zenon
  <2>9. escaped(k + 1) = fa \o x
    BY <2>3, <2>4, FlattenAppend, Zenon
  <2>10. Len(x) = IF x[1] = "%" THEN EscapeWidth ELSE 1
    BY <2>1
  <2>11. raw[f[k] + 1] = x[1]
    <3>1. Len(x) # 0
      BY <2>10 DEF EscapeWidth
    <3>2. x \in Seq(C) /\ fd \in Seq(C)
      BY <2>3, <2>6, Zenon
    <3>3. fb[1] = x[1] /\ fb # <<>>
      <4>1. (x \o fd)[1] = x[1] /\ x \o fd # <<>>
        BY <3>1, <3>2, StartOf
      <4> QED BY <2>8, <4>1, Zenon
    <3>4. (fa \o fb)[Len(fa) + 1] = fb[1]
      BY <2>6, <3>3, Follows, Zenon
    <3>5. f[k] = Len(fa)
      BY <2>2
    <3> QED BY <2>7, <3>3, <3>4, <3>5, Zenon
  <2>12. f[k + 1] = f[k] + IF raw[f[k] + 1] = "%" THEN EscapeWidth ELSE 1
    <3> HIDE DEF raw
    <3> QED BY <1>1, <2>1 DEF Steps
  <2>13. Len(fa \o x) = Len(fa) + Len(x)
    BY <2>3, <2>6, ConcatProperties, Zenon
  <2>14. Len(escaped(k + 1)) = Len(fa) + Len(x) /\ f[k] = Len(fa)
    BY <2>2, <2>9, <2>13, Zenon
  <2> HIDE DEF raw, escaped
  <2> QED BY <2>10, <2>11, <2>12, <2>14
<1>4. n \in Good
  <2> HIDE DEF Good
  <2>1. Nat \subseteq Good
    BY <1>2, <1>3, AllNumbers
  <2> QED BY <1>0, <2>1
<1> QED BY <1>0, <1>1, <1>4

\* newWebSocketRequest cuts the escaped path where the decoded one is cut: whatever the
\* path, and wherever its route ends.
THEOREM SuffixStaysEscaped ==
  ASSUME NEW C, NEW path \in Seq(Seq(C)), NEW n \in 0 .. Len(path),
         \A i \in 1 .. Len(path) : Len(path[i]) = IF path[i][1] = "%" THEN EscapeWidth ELSE 1
  PROVE  RawSuffix(FlattenSeq(path), n) = FlattenSeq(SubSeq(path, n + 1, Len(path)))
<1> PICK a, b : a = SubSeq(path, 1, n) /\ b = SubSeq(path, n + 1, Len(path))
  OBVIOUS
<1>1. a \in Seq(Seq(C)) /\ b \in Seq(Seq(C))
  BY Halves, Zenon
<1>2. path = a \o b
  BY Together, Zenon
<1> PICK fa, fb : fa = FlattenSeq(a) /\ fb = FlattenSeq(b)
  OBVIOUS
<1>3. fa \in Seq(C) /\ fb \in Seq(C)
  BY <1>1, FlattenType, Zenon
<1>4. FlattenSeq(path) = fa \o fb
  BY <1>1, <1>2, FlattenJoin, Zenon
<1>5. RawOffset(FlattenSeq(path), n) = Len(fa)
  BY OffsetOfPrefix, Zenon
<1>6. SubSeq(fa \o fb, Len(fa) + 1, Len(fa \o fb)) = fb
  BY <1>3, Follows, Zenon
<1>7. RawSuffix(FlattenSeq(path), n) = SubSeq(fa \o fb, Len(fa) + 1, Len(fa \o fb))
  BY <1>4, <1>5 DEF RawSuffix
<1> QED BY <1>6, <1>7, Zenon

\* The paths that the run tries are paths of plain and of escaped bytes: each of them is
\* dialled with the escaped form of what follows, wherever it is cut.
LEMMA EscapedPaths ==
  ASSUME NEW m \in Nat, NEW path \in [1 .. m -> {<<"a">>, <<"/">>, <<"%", "2", "F">>}],
         NEW n \in 0 .. Len(path)
  PROVE  RawSuffix(FlattenSeq(path), n) = FlattenSeq(SubSeq(path, n + 1, Len(path)))
<1> DEFINE C == {"a", "/", "%", "2", "F"}
           Bytes == {<<"a">>, <<"/">>, <<"%", "2", "F">>}
<1>1. Bytes \subseteq Seq(C)
  OBVIOUS
<1>2. \A b \in Bytes : Len(b) = IF b[1] = "%" THEN EscapeWidth ELSE 1
  BY DEF EscapeWidth
<1>3. path \in Seq(Seq(C)) /\ Len(path) = m /\ \A i \in 1 .. m : path[i] \in Bytes
  <2> HIDE DEF C, Bytes
  <2>1. path \in [1 .. m -> Bytes]
    BY DEF Bytes
  <2>2. path \in [1 .. m -> Seq(C)]
    BY <1>1, <2>1
  <2> QED BY <2>1, <2>2
<1> HIDE DEF C, Bytes
<1>4. \A i \in 1 .. Len(path) : Len(path[i]) = IF path[i][1] = "%" THEN EscapeWidth ELSE 1
  BY <1>2, <1>3, Zenon
<1> QED BY <1>3, <1>4, SuffixStaysEscaped, Zenon

\* The handshake is kept, in both directions: the upstream gets the escaped suffix, the
\* browser the upstream's subprotocol (newWebSocketRequest, websocketClientConn).
THEOREM HandshakeAlwaysKept == Spec => []HandshakeKept
<1>1. EscapedSuffixKept
  <2>1. PathsUpTo \in Nat
    BY DEF PathsUpTo
  <2> SUFFICES ASSUME NEW m \in 0 .. PathsUpTo,
                      NEW path \in [1 .. m -> {<<"a">>, <<"/">>, <<"%", "2", "F">>}],
                      NEW n \in 0 .. Len(path)
               PROVE  RawSuffix(FlattenSeq(path), n) = FlattenSeq(SubSeq(path, n + 1, Len(path)))
    BY DEF EscapedSuffixKept
  <2>2. m \in Nat
    BY <2>1
  <2> QED BY <2>2, EscapedPaths, Zenon
<1> QED BY <1>1, SubprotocolKept, PTL DEF HandshakeKept
=============================================================================
