---------------------------- MODULE CameraProofs ----------------------------
(***************************************************************************)
(* The safety of the shared camera streams, for any number of viewers and  *)
(* chunks and any capacity of a queue.  The inductive invariant relates    *)
(* the three parties that end a stream or a viewer independently: the      *)
(* stream's goroutine, the viewer's handler and its watcher.               *)
(***************************************************************************)
EXTENDS CameraProperties, SequenceTheorems, TLAPS

InService == {"waiting", "streaming", "writing"}
Done == {"leaving", "cancel", "done"}

\* A stream is closed exactly when it has nobody left; the manager's stream is the one
\* that still has somebody, and its goroutine has not removed it.
StreamStage(s) ==
  /\ pump[s] = "none" <=> at[s] = "idle" \/ stream[s] # s
  /\ pump[s] = "none" => subscribers[s] = {} /\ ~closed[s]
  /\ pump[s] \in {"none", "opening"} <=> startup[s] = "pending"
  /\ startup[s] \in {"refused", "interrupted"} => pump[s] \in {"remove", "closeAll", "ended"}
  /\ startup[s] = "interrupted" => closed[s]
  /\ cancelled[s] => closed[s]
  /\ pump[s] \in {"cancel", "ended"} => closed[s]
  /\ closed[s] => subscribers[s] = {}
  /\ pump[s] # "none" /\ subscribers[s] = {} => closed[s]
  /\ current = s => pump[s] \notin {"none", "closeAll", "ended"}
StreamStages == \A s \in Streams : StreamStage(s)

\* A viewer in service is subscribed, unless its channel was closed.
ViewerStage(v) ==
  /\ at[v] = "idle" => stream[v] = None /\ ~shut[v] /\ answer[v] = "none" /\ watcher[v] = "none"
  /\ at[v] # "idle" => stream[v] \in Streams /\ pump[stream[v]] # "none"
  /\ at[v] \in InService => v \in subscribers[stream[v]] \/ shut[v]
  /\ at[v] = "waiting" => startup[stream[v]] # "interrupted"
  /\ at[v] = "cancel" => closed[stream[v]]
  /\ evicted[v] => shut[v]
  /\ shut[v] => pump[stream[v]] # "opening"
ViewerStages == \A v \in Viewers : ViewerStage(v)
Subscribed ==
  \A s \in Streams : \A v \in subscribers[s] :
    stream[v] = s /\ ~shut[v] /\ at[v] \in InService \union {"leaving"}

\* Why a handler is returning, and what its watcher has seen to.
Ending(v) ==
  /\ at[v] \in Done =>
       gone[v] \/ deadline[v] \/ shut[v] \/ answer[v] = "badGateway"
  /\ at[v] \in {"cancel", "done"} => watcher[v] = "ended" /\ v \notin subscribers[stream[v]]
  /\ watcher[v] = "ended" => deadline[v] \/ at[v] \in Done
  /\ watcher[v] = "ended" /\ evicted[v] => deadline[v] \/ gone[v]
Endings == \A v \in Viewers : Ending(v)

\* A queue continues what its viewer has, without a gap, and up to the last chunk
\* that was broadcast while the viewer is subscribed.
Last(v) == IF at[v] = "writing" THEN held[v] ELSE got[v]
Queue(v) ==
  /\ at[v] = "idle" => chunks[v] = <<>>
  /\ at[v] \in InService =>
    /\ \A k \in 1 .. Len(chunks[v]) : chunks[v][k] = Last(v) + k
    /\ v \in subscribers[stream[v]] => Last(v) + Len(chunks[v]) = sent[stream[v]]
Queues == \A v \in Viewers : Queue(v)

CameraInv ==
  /\ CameraTypeOK /\ StreamStages /\ ViewerStages /\ Subscribed /\ Endings /\ Queues
  /\ UninterruptedPrefix /\ OneUpstream /\ BadGatewayMeansRefused

-----------------------------------------------------------------------------
(* The actions, as what they do to the invariant.                          *)

\* Join, as getOrStart's two branches.
LEMMA JoinSteps ==
  ASSUME CameraInv, NEW v \in Viewers, Join(v)
  PROVE  \E s \in Streams :
           /\ current' = s /\ at[v] = "idle"
           /\ \/ s = current /\ ~closed[s] /\ pump' = pump
              \/ /\ s = v /\ (current = None \/ closed[current])
                 /\ pump' = [pump EXCEPT ![v] = "opening"]
           /\ subscribers' = [subscribers EXCEPT ![s] = @ \union {v}]
           /\ stream' = [stream EXCEPT ![v] = s]
           /\ got' = [got EXCEPT ![v] = sent[s]]
<1> USE CameraAssumption DEF CameraInv, CameraTypeOK, Streams
<1>1. pump[v] = "none" /\ current # v
  BY DEF Join, StreamStages, StreamStage
<1>2. CASE Active(current)
  BY <1>1, <1>2 DEF Join, Active
<1>3. CASE ~Active(current)
  BY <1>1, <1>3 DEF Join, Active
<1> QED BY <1>2, <1>3

\* AwaitReady, as the three ways it can go.
LEMMA AwaitReadySteps ==
  ASSUME CameraInv, NEW v \in Viewers, AwaitReady(v)
  PROVE  \E step \in {"leaving", "streaming"} :
           /\ at[v] = "waiting" /\ at' = [at EXCEPT ![v] = step]
           /\ \/ step = "leaving" /\ gone[v] /\ answer' = answer
              \/ /\ step = "leaving" /\ startup[stream[v]] = "refused"
                 /\ answer' = [answer EXCEPT ![v] = "badGateway"]
              \/ step = "streaming" /\ answer' = [answer EXCEPT ![v] = "ok"]
<1>1. startup[stream[v]] # "interrupted"
  BY DEF CameraInv, AwaitReady, ViewerStages, ViewerStage
<1> QED BY <1>1, Zenon DEF AwaitReady, Goto

\* Broadcast, viewer by viewer.
LEMMA BroadcastSteps ==
  ASSUME CameraInv, NEW s \in Streams, Broadcast(s)
  PROVE  /\ pump[s] = "broadcast"
         /\ \A t \in Streams \ {s} : subscribers'[t] = subscribers[t] /\ closed'[t] = closed[t]
         /\ closed'[s] = (closed[s] \/ subscribers'[s] = {})
         /\ subscribers'[s] \subseteq subscribers[s]
         /\ \A u \in Viewers :
              \/ /\ u \in subscribers'[s]
                 /\ chunks'[u] = Append(chunks[u], sent[s] + 1)
                 /\ shut'[u] = shut[u] /\ evicted'[u] = evicted[u]
              \/ /\ u \in subscribers[s] /\ u \notin subscribers'[s]
                 /\ chunks'[u] = chunks[u] /\ shut'[u] /\ evicted'[u]
              \/ /\ u \notin subscribers[s]
                 /\ chunks'[u] = chunks[u]
                 /\ shut'[u] = shut[u] /\ evicted'[u] = evicted[u]
<1> USE DEF Streams
<1>1. subscribers' = [subscribers EXCEPT ![s] = subscribers[s] \ Full(s)] /\ Full(s) \subseteq subscribers[s]
  BY DEF Broadcast, Deliver, Remaining, Full
<1>2. closed' = [closed EXCEPT ![s] = closed[s] \/ subscribers'[s] = {}] /\ pump[s] = "broadcast"
  BY DEF Broadcast, ClosedIfEmpty
<1>3. ASSUME NEW u \in Viewers
      PROVE  /\ shut'[u] = (shut[u] \/ u \in Full(s)) /\ evicted'[u] = (evicted[u] \/ u \in Full(s))
             /\ chunks'[u] = IF u \in subscribers[s] \ Full(s)
                             THEN Append(chunks[u], sent[s] + 1) ELSE chunks[u]
  BY DEF Broadcast, Deliver
<1>4. /\ subscribers'[s] = subscribers[s] \ Full(s)
      /\ \A t \in Streams \ {s} : subscribers'[t] = subscribers[t] /\ closed'[t] = closed[t]
      /\ closed'[s] = (closed[s] \/ subscribers'[s] = {})
  BY <1>1, <1>2 DEF CameraInv, CameraTypeOK
<1>5. shut \in [Viewers -> BOOLEAN] /\ evicted \in [Viewers -> BOOLEAN]
  BY DEF CameraInv, CameraTypeOK
<1>6. ASSUME NEW u \in Viewers
      PROVE  \/ /\ u \in subscribers'[s]
                /\ chunks'[u] = Append(chunks[u], sent[s] + 1)
                /\ shut'[u] = shut[u] /\ evicted'[u] = evicted[u]
             \/ /\ u \in subscribers[s] /\ u \notin subscribers'[s]
                /\ chunks'[u] = chunks[u] /\ shut'[u] /\ evicted'[u]
             \/ /\ u \notin subscribers[s]
                /\ chunks'[u] = chunks[u]
                /\ shut'[u] = shut[u] /\ evicted'[u] = evicted[u]
  <2>1. CASE u \in subscribers[s] \ Full(s)
    <3>1. u \in subscribers'[s]
      BY <1>4, <2>1
    <3>2. chunks'[u] = Append(chunks[u], sent[s] + 1)
      BY <1>3, <2>1
    <3>3. shut'[u] = shut[u] /\ evicted'[u] = evicted[u]
      BY <1>3, <1>5, <2>1
    <3> QED BY <3>1, <3>2, <3>3
  <2>2. CASE u \in Full(s)
    BY <1>1, <1>3, <1>4, <1>5, <2>2
  <2>3. CASE u \notin subscribers[s]
    BY <1>1, <1>3, <1>4, <1>5, <2>3
  <2> QED BY <2>1, <2>2, <2>3
<1>7. subscribers'[s] \subseteq subscribers[s]
  BY <1>4
<1> QED BY <1>2, <1>4, <1>6, <1>7

\* A queue with room for one more chunk.
LEMMA AppendWithin ==
  ASSUME NEW q \in Seq(Nat), NEW n \in Nat, Len(q) < QueueSize
  PROVE  Append(q, n) \in Seq(Nat) /\ Len(Append(q, n)) <= QueueSize
  BY CameraAssumption

\* The types, and that no queue exceeds its capacity.
LEMMA CameraTypeOKKept == CameraInv /\ [Next]_vars => CameraTypeOK'
<1> SUFFICES ASSUME CameraInv, [Next]_vars PROVE CameraTypeOK'
  OBVIOUS
<1> USE CameraAssumption DEF Streams, feed, source, queue, client, guard, CameraInv, CameraTypeOK
<1>1. CASE UNCHANGED vars
  BY <1>1 DEF vars, Steps, PumpSteps
<1>2. ASSUME NEW v \in Viewers, Join(v) PROVE CameraTypeOK'
  BY <1>2 DEF Join, Goto, Active, Steps, PumpSteps
<1>3. ASSUME NEW v \in Viewers, AwaitReady(v) PROVE CameraTypeOK'
  <2>1. at' \in [Viewers -> Steps]
    <3>1. \E step \in {"leaving", "streaming"} : at' = [at EXCEPT ![v] = step]
      BY <1>3, Zenon DEF AwaitReady, Goto
    <3> QED BY <3>1 DEF Steps
  <2>2. answer' \in [Viewers -> {"none", "ok", "badGateway"}]
    BY <1>3 DEF AwaitReady
  <2> QED BY <1>3, <2>1, <2>2 DEF AwaitReady
<1>4. ASSUME NEW v \in Viewers, Take(v) PROVE CameraTypeOK'
  <2>1. chunks[v] \in Seq(Nat) /\ chunks[v] # <<>> /\ Len(chunks[v]) <= QueueSize
    BY <1>4 DEF Take
  <2>2. Head(chunks[v]) \in Nat /\ Tail(chunks[v]) \in Seq(Nat) /\ Len(Tail(chunks[v])) <= QueueSize
    BY <2>1
  <2>3. chunks' \in [Viewers -> Seq(Nat)] /\ \A u \in Viewers : Len(chunks'[u]) <= QueueSize
    BY <1>4, <2>2 DEF Take
  <2>4. held' \in [Viewers -> Nat] /\ at' \in [Viewers -> Steps]
    BY <1>4, <2>2 DEF Take, Goto, Steps
  <2> QED BY <1>4, <2>3, <2>4 DEF Take
<1>5. ASSUME NEW v \in Viewers, EndStream(v) PROVE CameraTypeOK'
  BY <1>5 DEF EndStream, Goto, Over, Steps, PumpSteps
<1>6. ASSUME NEW v \in Viewers, WriteDone(v) PROVE CameraTypeOK'
  BY <1>6 DEF WriteDone, Goto, Steps, PumpSteps
<1>7. ASSUME NEW v \in Viewers, WriteFails(v) PROVE CameraTypeOK'
  BY <1>7 DEF WriteFails, Goto, Steps, PumpSteps
<1>8. ASSUME NEW v \in Viewers, Unsubscribe(v) PROVE CameraTypeOK'
  <2>1. subscribers' \in [Streams -> SUBSET Viewers] /\ closed' \in [Streams -> BOOLEAN]
    BY <1>8 DEF Unsubscribe, ClosedIfEmpty
  <2>2. chunks' \in [Viewers -> Seq(Nat)] /\ \A u \in Viewers : Len(chunks'[u]) <= QueueSize
    BY <1>8 DEF Unsubscribe, Forget
  <2>3. got' \in [Viewers -> Nat] /\ at' \in [Viewers -> Steps]
    BY <1>8 DEF Unsubscribe, Forget, Goto, Steps
  <2> QED BY <1>8, <2>1, <2>2, <2>3 DEF Unsubscribe
<1>9. ASSUME NEW v \in Viewers, CancelLast(v) PROVE CameraTypeOK'
  BY <1>9 DEF CancelLast, Goto, Steps, PumpSteps
<1>10. ASSUME NEW v \in Viewers, Watch(v) PROVE CameraTypeOK'
  BY <1>10 DEF Watch, Stopped, Interrupted, Alarmed, Steps, PumpSteps
<1>11. ASSUME NEW v \in Viewers, Disconnect(v) PROVE CameraTypeOK'
  BY <1>11 DEF Disconnect, Steps, PumpSteps
<1>12. ASSUME NEW v \in Viewers, Open(v) PROVE CameraTypeOK'
  BY <1>12 DEF Open, Steps, PumpSteps
<1>13. ASSUME NEW v \in Viewers, Read(v) PROVE CameraTypeOK'
  BY <1>13 DEF Read, Steps, PumpSteps
<1>14. ASSUME NEW v \in Viewers, ReadEnd(v) PROVE CameraTypeOK'
  BY <1>14 DEF ReadEnd, Steps, PumpSteps
<1>15. ASSUME NEW v \in Viewers, Broadcast(v) PROVE CameraTypeOK'
  <2>1. subscribers' \in [Streams -> SUBSET Viewers] /\ closed' \in [Streams -> BOOLEAN]
    BY <1>15 DEF Broadcast, Deliver, Remaining, ClosedIfEmpty
  <2>2. shut' \in [Viewers -> BOOLEAN] /\ evicted' \in [Viewers -> BOOLEAN]
    BY <1>15 DEF Broadcast, Deliver
  <2>3. sent' \in [Streams -> Nat] /\ pump' \in [Streams -> PumpSteps]
    BY <1>15 DEF Broadcast, PumpSteps
  <2>4. ASSUME NEW u \in Viewers
        PROVE  chunks'[u] \in Seq(Nat) /\ Len(chunks'[u]) <= QueueSize
    <3>1. CASE u \in subscribers[v] \ Full(v)
      <4>1. chunks'[u] = Append(chunks[u], sent[v] + 1) /\ Len(chunks[u]) < QueueSize
        BY <1>15, <3>1 DEF Broadcast, Deliver, Full
      <4>2. chunks[u] \in Seq(Nat) /\ sent[v] + 1 \in Nat
        OBVIOUS
      <4> QED BY <4>1, <4>2, AppendWithin
    <3>2. CASE u \notin subscribers[v] \ Full(v)
      BY <1>15, <3>2 DEF Broadcast, Deliver
    <3> QED BY <3>1, <3>2
  <2>5. chunks' = [u \in Viewers |-> chunks'[u]]
    BY <1>15 DEF Broadcast, Deliver
  <2> QED BY <1>15, <2>1, <2>2, <2>3, <2>4, <2>5 DEF Broadcast
<1>16. ASSUME NEW v \in Viewers, Cancel(v) PROVE CameraTypeOK'
  BY <1>16 DEF Cancel, Steps, PumpSteps
<1>17. ASSUME NEW v \in Viewers, Remove(v) PROVE CameraTypeOK'
  BY <1>17 DEF Remove, Owns, Steps, PumpSteps
<1>18. ASSUME NEW v \in Viewers, CloseAll(v) PROVE CameraTypeOK'
  BY <1>18 DEF CloseAll, Steps, PumpSteps
<1> QED BY <1>1, <1>2, <1>3, <1>4, <1>5, <1>6, <1>7, <1>8, <1>9,
           <1>10, <1>11, <1>12, <1>13, <1>14, <1>15, <1>16, <1>17, <1>18
        DEF Next, Handle, Run, Outside, Rest

-----------------------------------------------------------------------------
(* Each part of the invariant is kept by each action.                      *)

\* How far a stream is, and whether it takes viewers.
LEMMA StreamStagesKept == CameraInv /\ [Next]_vars => StreamStages'
<1> SUFFICES ASSUME CameraInv, [Next]_vars PROVE StreamStages'
  OBVIOUS
<1> USE CameraAssumption DEF Streams, feed, source, queue, client, guard
<1>1. CASE UNCHANGED vars
  BY <1>1
     DEF vars, StreamStages, StreamStage, ViewerStages, ViewerStage, Subscribed, InService,
         CameraInv, CameraTypeOK
<1>2. ASSUME NEW v \in Viewers, Join(v) PROVE StreamStages'
  <2>1. PICK s \in Streams :
           /\ current' = s /\ at[v] = "idle"
           /\ \/ s = current /\ ~closed[s] /\ pump' = pump
              \/ /\ s = v /\ (current = None \/ closed[current])
                 /\ pump' = [pump EXCEPT ![v] = "opening"]
           /\ subscribers' = [subscribers EXCEPT ![s] = @ \union {v}]
           /\ stream' = [stream EXCEPT ![v] = s]
           /\ got' = [got EXCEPT ![v] = sent[s]]
    BY <1>2, JoinSteps
  <2>2. /\ at' = [at EXCEPT ![v] = "waiting"] /\ watcher' = [watcher EXCEPT ![v] = "watching"]
        /\ UNCHANGED <<closed, cancelled, startup, connected, sent, queue, held, answer, deadline, gone>>
    BY <1>2 DEF Join, Goto
  <2>3. StreamStage(v) /\ StreamStage(s) /\ ViewerStage(v)
    BY DEF CameraInv, StreamStages, ViewerStages
  <2>4. ASSUME NEW t \in Streams PROVE StreamStage(t)'
    <3>1. StreamStage(t)
      BY DEF CameraInv, StreamStages
    <3>2. /\ at'[t] = (IF t = v THEN "waiting" ELSE at[t])
          /\ stream'[t] = (IF t = v THEN s ELSE stream[t])
      BY <2>1, <2>2 DEF CameraInv, CameraTypeOK
    <3>3. CASE t # s
      <4>1. subscribers'[t] = subscribers[t] /\ pump'[t] = pump[t]
        BY <2>1, <3>3 DEF CameraInv, CameraTypeOK
      <4> QED BY <2>1, <2>2, <3>1, <3>2, <3>3, <4>1 DEF StreamStage
    <3>4. CASE t = s
      <4>1. subscribers'[t] = subscribers[t] \union {v}
        BY <2>1, <3>4 DEF CameraInv, CameraTypeOK
      <4>2. CASE s = current /\ ~closed[s] /\ pump' = pump
        BY <2>1, <2>2, <2>3, <3>1, <3>2, <3>4, <4>1, <4>2 DEF StreamStage
      <4>3. CASE s = v /\ pump' = [pump EXCEPT ![v] = "opening"]
        <5>1. pump'[t] = "opening" /\ pump[t] = "none"
          BY <2>1, <2>3, <3>4, <4>3 DEF CameraInv, CameraTypeOK, StreamStage
        <5> QED BY <2>1, <2>2, <3>1, <3>2, <3>4, <4>1, <4>3, <5>1 DEF StreamStage
      <4> QED BY <2>1, <4>2, <4>3
    <3> QED BY <3>3, <3>4
  <2> QED BY <2>4 DEF StreamStages
<1>3. ASSUME NEW v \in Viewers, AwaitReady(v) PROVE StreamStages'
  <2>1. PICK step \in {"leaving", "streaming"} :
          /\ at[v] = "waiting" /\ at' = [at EXCEPT ![v] = step]
          /\ \/ step = "leaving" /\ gone[v] /\ answer' = answer
             \/ /\ step = "leaving" /\ startup[stream[v]] = "refused"
                /\ answer' = [answer EXCEPT ![v] = "badGateway"]
             \/ step = "streaming" /\ answer' = [answer EXCEPT ![v] = "ok"]
    BY <1>3, AwaitReadySteps
  <2>2. UNCHANGED <<feed, source, queue, stream, held, got, guard>>
    BY <1>3 DEF AwaitReady
  <2>3. ASSUME NEW t \in Streams PROVE StreamStage(t)'
    <3>1. StreamStage(t)
      BY DEF CameraInv, StreamStages
    <3> QED BY <2>1, <2>2, <3>1 DEF StreamStage
  <2> QED BY <2>3 DEF StreamStages
<1>4. ASSUME NEW v \in Viewers, Take(v) PROVE StreamStages'
  BY <1>4 DEF Take, Goto, StreamStages, StreamStage, ViewerStages, ViewerStage,
     InService, CameraInv
<1>5. ASSUME NEW v \in Viewers, EndStream(v) PROVE StreamStages'
  BY <1>5 DEF EndStream, Goto, StreamStages, StreamStage, ViewerStages, CameraInv
<1>6. ASSUME NEW v \in Viewers, WriteDone(v) PROVE StreamStages'
  BY <1>6
     DEF WriteDone, Goto, StreamStages, StreamStage, ViewerStages, ViewerStage, Subscribed,
         InService, CameraInv, CameraTypeOK
<1>7. ASSUME NEW v \in Viewers, WriteFails(v) PROVE StreamStages'
  BY <1>7
     DEF WriteFails, Goto, StreamStages, StreamStage, ViewerStages, ViewerStage, Subscribed,
         InService, CameraInv, CameraTypeOK
<1>8. ASSUME NEW v \in Viewers, Unsubscribe(v) PROVE StreamStages'
  <2>1. stream[v] \in Streams /\ at[v] = "leaving" /\ pump[stream[v]] # "none"
    BY <1>8 DEF Unsubscribe, Stopped, CameraInv, ViewerStages, ViewerStage
  <2>2. PICK s \in Streams : s = stream[v]
    BY <2>1
  <2>3. PICK step \in {"cancel", "done"} :
          /\ at' = [at EXCEPT ![v] = step]
          /\ step = "cancel" => subscribers'[s] = {}
    BY <1>8, <2>2 DEF Unsubscribe, Goto
  <2>4. /\ subscribers' = [subscribers EXCEPT ![s] = @ \ {v}] /\ watcher[v] = "ended"
        /\ closed' = [closed EXCEPT ![s] = @ \/ subscribers'[s] = {}]
        /\ UNCHANGED <<current, cancelled, source, shut, evicted, stream, held, answer, guard>>
    BY <1>8, <2>2 DEF Unsubscribe, ClosedIfEmpty
  <2>5. ASSUME NEW t \in Streams PROVE StreamStage(t)'
    <3>1. StreamStage(t)
      BY DEF CameraInv, StreamStages
    <3> QED BY <2>1, <2>2, <2>3, <2>4, <3>1 DEF CameraInv, CameraTypeOK, StreamStage
  <2> QED BY <2>5 DEF StreamStages
<1>9. ASSUME NEW v \in Viewers, CancelLast(v) PROVE StreamStages'
  <2>1. stream[v] \in Streams /\ at[v] = "cancel" /\ closed[stream[v]]
    BY <1>9 DEF CancelLast, CameraInv, ViewerStages, ViewerStage
  <2>2. ASSUME NEW t \in Streams PROVE StreamStage(t)'
    <3>1. StreamStage(t)
      BY DEF CameraInv, StreamStages
    <3> QED BY <1>9, <2>1, <3>1 DEF CameraInv, CameraTypeOK, CancelLast, Goto, StreamStage
  <2> QED BY <2>2 DEF StreamStages
<1>10. ASSUME NEW v \in Viewers, Watch(v) PROVE StreamStages'
  BY <1>10
     DEF Watch, Stopped, Interrupted, Alarmed, StreamStages, StreamStage, ViewerStages,
         ViewerStage, Subscribed, InService, CameraInv, CameraTypeOK
<1>11. ASSUME NEW v \in Viewers, Disconnect(v) PROVE StreamStages'
  BY <1>11 DEF Disconnect, StreamStages, StreamStage, ViewerStages, ViewerStage, Subscribed,
         InService, CameraInv, CameraTypeOK
<1>12. ASSUME NEW v \in Viewers, Open(v) PROVE StreamStages'
  BY <1>12 DEF Open, StreamStages, StreamStage, Subscribed, InService, CameraInv,
     CameraTypeOK
<1>13. ASSUME NEW v \in Viewers, Read(v) PROVE StreamStages'
  BY <1>13 DEF Read, StreamStages, StreamStage, ViewerStage, Subscribed, CameraInv
<1>14. ASSUME NEW v \in Viewers, ReadEnd(v) PROVE StreamStages'
  BY <1>14 DEF ReadEnd, StreamStages, StreamStage, Subscribed, CameraInv
<1>15. ASSUME NEW v \in Viewers, Broadcast(v) PROVE StreamStages'
  <2>1. /\ pump' = [pump EXCEPT ![v] = IF subscribers'[v] = {} THEN "cancel" ELSE "reading"]
        /\ sent' = [sent EXCEPT ![v] = @ + 1]
        /\ UNCHANGED <<current, cancelled, startup, connected, client, guard>>
    BY <1>15 DEF Broadcast
  <2>2. ASSUME NEW t \in Streams PROVE StreamStage(t)'
    <3>1. StreamStage(t)
      BY DEF CameraInv, StreamStages
    <3>2. /\ pump[v] = "broadcast" /\ closed'[v] = (closed[v] \/ subscribers'[v] = {})
          /\ subscribers'[v] \subseteq subscribers[v]
          /\ t # v => subscribers'[t] = subscribers[t] /\ closed'[t] = closed[t]
      BY <1>15, BroadcastSteps
    <3> QED BY <2>1, <3>1, <3>2 DEF CameraInv, CameraTypeOK, StreamStage
  <2> QED BY <2>2 DEF StreamStages
<1>16. ASSUME NEW v \in Viewers, Cancel(v) PROVE StreamStages'
  BY <1>16 DEF Cancel, StreamStages, StreamStage, Subscribed, InService, CameraInv
<1>17. ASSUME NEW v \in Viewers, Remove(v) PROVE StreamStages'
  BY <1>17 DEF Remove, Owns, StreamStages, StreamStage, Subscribed, InService, CameraInv
<1>18. ASSUME NEW v \in Viewers, CloseAll(v) PROVE StreamStages'
  <2>1. /\ subscribers' = [subscribers EXCEPT ![v] = {}] /\ closed' = [closed EXCEPT ![v] = TRUE]
        /\ cancelled' = [cancelled EXCEPT ![v] = TRUE] /\ pump' = [pump EXCEPT ![v] = "ended"]
        /\ pump[v] = "closeAll" /\ UNCHANGED <<current, startup, at, stream>>
    BY <1>18 DEF CloseAll
  <2>2. ASSUME NEW t \in Streams PROVE StreamStage(t)'
    <3>1. StreamStage(t) /\ StreamStage(v)
      BY DEF CameraInv, StreamStages
    <3> QED BY <2>1, <3>1 DEF CameraInv, CameraTypeOK, StreamStage
  <2> QED BY <2>2 DEF StreamStages
<1> QED BY <1>1, <1>2, <1>3, <1>4, <1>5, <1>6, <1>7, <1>8, <1>9,
           <1>10, <1>11, <1>12, <1>13, <1>14, <1>15, <1>16, <1>17, <1>18
        DEF Next, Handle, Run, Outside, Rest

\* How far a viewer is, and what it can count on.
LEMMA ViewerStagesKept == CameraInv /\ [Next]_vars => ViewerStages'
<1> SUFFICES ASSUME CameraInv, [Next]_vars PROVE ViewerStages'
  OBVIOUS
<1> USE CameraAssumption DEF Streams, feed, source, queue, client, guard
<1>1. CASE UNCHANGED vars
  BY <1>1
     DEF vars, StreamStages, StreamStage, ViewerStages, ViewerStage, Subscribed, InService,
         CameraInv, CameraTypeOK
<1>2. ASSUME NEW v \in Viewers, Join(v) PROVE ViewerStages'
  <2>1. PICK s \in Streams :
           /\ current' = s /\ at[v] = "idle"
           /\ \/ s = current /\ ~closed[s] /\ pump' = pump
              \/ /\ s = v /\ (current = None \/ closed[current])
                 /\ pump' = [pump EXCEPT ![v] = "opening"]
           /\ subscribers' = [subscribers EXCEPT ![s] = @ \union {v}]
           /\ stream' = [stream EXCEPT ![v] = s]
           /\ got' = [got EXCEPT ![v] = sent[s]]
    BY <1>2, JoinSteps
  <2>2. /\ at' = [at EXCEPT ![v] = "waiting"] /\ watcher' = [watcher EXCEPT ![v] = "watching"]
        /\ UNCHANGED <<closed, cancelled, startup, connected, sent, queue, held, answer, deadline, gone>>
    BY <1>2 DEF Join, Goto
  <2>3. StreamStage(v) /\ StreamStage(s) /\ ViewerStage(v)
    BY DEF CameraInv, StreamStages, ViewerStages
  <2>4. ASSUME NEW u \in Viewers PROVE ViewerStage(u)'
    <3>1. ViewerStage(u)
      BY DEF CameraInv, ViewerStages
    <3>2. CASE u = v
      BY <2>1, <2>2, <2>3, <3>1, <3>2
         DEF CameraInv, CameraTypeOK, StreamStage, ViewerStage, InService
    <3>3. CASE u # v
      <4>1. /\ at'[u] = at[u] /\ stream'[u] = stream[u] /\ watcher'[u] = watcher[u]
            /\ \A t \in Streams : /\ u \in subscribers[t] => u \in subscribers'[t]
                                  /\ pump[t] = pump'[t]
                                     \/ (t = v /\ pump'[t] = "opening")
        <5>1. at'[u] = at[u] /\ stream'[u] = stream[u] /\ watcher'[u] = watcher[u]
          BY <2>1, <2>2, <3>3 DEF CameraInv, CameraTypeOK
        <5>2. ASSUME NEW t \in Streams PROVE u \in subscribers[t] => u \in subscribers'[t]
          BY <2>1 DEF CameraInv, CameraTypeOK
        <5>3. ASSUME NEW t \in Streams
              PROVE  pump[t] = pump'[t] \/ (t = v /\ pump'[t] = "opening")
          BY <2>1 DEF CameraInv, CameraTypeOK
        <5> QED BY <5>1, <5>2, <5>3
      <4>2. at[u] # "idle" => stream[u] \in Streams /\ pump'[stream[u]] = pump[stream[u]]
        BY <2>1, <2>3, <3>1, <4>1 DEF StreamStage, ViewerStage
      <4> QED BY <2>2, <3>1, <4>1, <4>2 DEF ViewerStage, InService
    <3> QED BY <3>2, <3>3
  <2> QED BY <2>4 DEF ViewerStages
<1>3. ASSUME NEW v \in Viewers, AwaitReady(v) PROVE ViewerStages'
  <2>1. PICK step \in {"leaving", "streaming"} :
          /\ at[v] = "waiting" /\ at' = [at EXCEPT ![v] = step]
          /\ \/ step = "leaving" /\ gone[v] /\ answer' = answer
             \/ /\ step = "leaving" /\ startup[stream[v]] = "refused"
                /\ answer' = [answer EXCEPT ![v] = "badGateway"]
             \/ step = "streaming" /\ answer' = [answer EXCEPT ![v] = "ok"]
    BY <1>3, AwaitReadySteps
  <2>2. UNCHANGED <<feed, source, queue, stream, held, got, guard>>
    BY <1>3 DEF AwaitReady
  <2>3. ASSUME NEW u \in Viewers PROVE ViewerStage(u)'
    <3>1. ViewerStage(u)
      BY DEF CameraInv, ViewerStages
    <3>2. CASE u = v
      BY <2>1, <2>2, <3>1, <3>2 DEF CameraInv, CameraTypeOK, ViewerStage, InService, Steps
    <3>3. CASE u # v
      BY <2>1, <2>2, <3>1, <3>3 DEF CameraInv, CameraTypeOK, ViewerStage, InService
    <3> QED BY <3>2, <3>3
  <2> QED BY <2>3 DEF ViewerStages
<1>4. ASSUME NEW v \in Viewers, Take(v) PROVE ViewerStages'
  BY <1>4 DEF Take, Goto, StreamStages, StreamStage, ViewerStages, ViewerStage,
     Subscribed, InService, CameraInv
<1>5. ASSUME NEW v \in Viewers, EndStream(v) PROVE ViewerStages'
  BY <1>5 DEF EndStream, Goto, ViewerStages, ViewerStage, InService, CameraInv
<1>6. ASSUME NEW v \in Viewers, WriteDone(v) PROVE ViewerStages'
  BY <1>6 DEF WriteDone, Goto, StreamStages, StreamStage, ViewerStages, ViewerStage,
     Subscribed, InService, CameraInv
<1>7. ASSUME NEW v \in Viewers, WriteFails(v) PROVE ViewerStages'
  BY <1>7 DEF WriteFails, Goto, ViewerStages, ViewerStage, Subscribed, InService,
     CameraInv
<1>8. ASSUME NEW v \in Viewers, Unsubscribe(v) PROVE ViewerStages'
  <2>1. stream[v] \in Streams /\ at[v] = "leaving" /\ pump[stream[v]] # "none"
    BY <1>8 DEF Unsubscribe, Stopped, CameraInv, ViewerStages, ViewerStage
  <2>2. PICK s \in Streams : s = stream[v]
    BY <2>1
  <2>3. PICK step \in {"cancel", "done"} :
          /\ at' = [at EXCEPT ![v] = step]
          /\ step = "cancel" => subscribers'[s] = {}
    BY <1>8, <2>2 DEF Unsubscribe, Goto
  <2>4. /\ subscribers' = [subscribers EXCEPT ![s] = @ \ {v}] /\ watcher[v] = "ended"
        /\ closed' = [closed EXCEPT ![s] = @ \/ subscribers'[s] = {}]
        /\ UNCHANGED <<current, cancelled, source, shut, evicted, stream, held, answer, guard>>
    BY <1>8, <2>2 DEF Unsubscribe, ClosedIfEmpty
  <2>5. ASSUME NEW u \in Viewers PROVE ViewerStage(u)'
    <3>1. ViewerStage(u)
      BY DEF CameraInv, ViewerStages
    <3> QED BY <2>1, <2>2, <2>3, <2>4, <3>1
               DEF CameraInv, CameraTypeOK, ViewerStage, InService
  <2> QED BY <2>5 DEF ViewerStages
<1>9. ASSUME NEW v \in Viewers, CancelLast(v) PROVE ViewerStages'
  BY <1>9 DEF CancelLast, Goto, StreamStages, StreamStage, ViewerStages, ViewerStage,
     InService, CameraInv
<1>10. ASSUME NEW v \in Viewers, Watch(v) PROVE ViewerStages'
  BY <1>10 DEF Watch, Interrupted, Alarmed, StreamStages, StreamStage, ViewerStages,
     ViewerStage, Subscribed, InService, CameraInv
<1>11. ASSUME NEW v \in Viewers, Disconnect(v) PROVE ViewerStages'
  BY <1>11 DEF Disconnect, ViewerStages, ViewerStage, CameraInv
<1>12. ASSUME NEW v \in Viewers, Open(v) PROVE ViewerStages'
  BY <1>12 DEF Open, StreamStages, StreamStage, ViewerStages, ViewerStage, InService,
     CameraInv
<1>13. ASSUME NEW v \in Viewers, Read(v) PROVE ViewerStages'
  BY <1>13 DEF Read, StreamStage, ViewerStages, ViewerStage, CameraInv
<1>14. ASSUME NEW v \in Viewers, ReadEnd(v) PROVE ViewerStages'
  BY <1>14 DEF ReadEnd, ViewerStages, ViewerStage, CameraInv
<1>15. ASSUME NEW v \in Viewers, Broadcast(v) PROVE ViewerStages'
  <2>1. /\ pump' = [pump EXCEPT ![v] = IF subscribers'[v] = {} THEN "cancel" ELSE "reading"]
        /\ sent' = [sent EXCEPT ![v] = @ + 1]
        /\ UNCHANGED <<current, cancelled, startup, connected, client, guard>>
    BY <1>15 DEF Broadcast
  <2>2. ASSUME NEW u \in Viewers PROVE ViewerStage(u)'
    <3>1. ViewerStage(u)
      BY DEF CameraInv, ViewerStages
    <3>2. /\ pump[v] = "broadcast" /\ closed'[v] = (closed[v] \/ subscribers'[v] = {})
          /\ \A t \in Streams \ {v} : subscribers'[t] = subscribers[t] /\ closed'[t] = closed[t]
          /\ \/ /\ u \in subscribers'[v]
                /\ chunks'[u] = Append(chunks[u], sent[v] + 1)
                /\ shut'[u] = shut[u] /\ evicted'[u] = evicted[u]
             \/ /\ u \in subscribers[v] /\ u \notin subscribers'[v]
                /\ chunks'[u] = chunks[u] /\ shut'[u] /\ evicted'[u]
             \/ /\ u \notin subscribers[v]
                /\ chunks'[u] = chunks[u]
                /\ shut'[u] = shut[u] /\ evicted'[u] = evicted[u]
          /\ subscribers'[v] \subseteq subscribers[v]
      BY <1>15, BroadcastSteps
    <3>3. /\ u \in subscribers[v] => stream[u] = v /\ ~shut[u] /\ at[u] \in InService \union {"leaving"}
          /\ StreamStage(v)
          /\ at[u] # "idle" => stream[u] \in Streams
      BY DEF CameraInv, Subscribed, StreamStages, ViewerStages, ViewerStage
    <3> QED BY <2>1, <3>1, <3>2, <3>3
               DEF CameraInv, CameraTypeOK, StreamStage, ViewerStage, InService, Done
  <2> QED BY <2>2 DEF ViewerStages
<1>16. ASSUME NEW v \in Viewers, Cancel(v) PROVE ViewerStages'
  BY <1>16 DEF Cancel, StreamStage, ViewerStages, ViewerStage, CameraInv
<1>17. ASSUME NEW v \in Viewers, Remove(v) PROVE ViewerStages'
  BY <1>17
     DEF Remove, Owns, StreamStages, StreamStage, ViewerStages, ViewerStage, Subscribed,
         InService, CameraInv, CameraTypeOK
<1>18. ASSUME NEW v \in Viewers, CloseAll(v) PROVE ViewerStages'
  <2>1. /\ subscribers' = [subscribers EXCEPT ![v] = {}] /\ closed' = [closed EXCEPT ![v] = TRUE]
        /\ shut' = [u \in Viewers |-> shut[u] \/ u \in subscribers[v]]
        /\ pump' = [pump EXCEPT ![v] = "ended"]
        /\ pump[v] = "closeAll" /\ UNCHANGED <<startup, evicted, at, stream, answer, watcher>>
    BY <1>18 DEF CloseAll
  <2>2. ASSUME NEW u \in Viewers PROVE ViewerStage(u)'
    <3>1. ViewerStage(u) /\ (u \in subscribers[v] => stream[u] = v /\ at[u] # "idle")
      BY DEF CameraInv, ViewerStages, Subscribed, InService
    <3>2. /\ shut'[u] = (shut[u] \/ u \in subscribers[v])
          /\ stream[u] # v => subscribers'[stream[u]] = subscribers[stream[u]]
      BY <2>1 DEF CameraInv, CameraTypeOK
    <3> QED BY <2>1, <3>1, <3>2 DEF CameraInv, CameraTypeOK, ViewerStage, InService
  <2> QED BY <2>2 DEF ViewerStages
<1> QED BY <1>1, <1>2, <1>3, <1>4, <1>5, <1>6, <1>7, <1>8, <1>9,
           <1>10, <1>11, <1>12, <1>13, <1>14, <1>15, <1>16, <1>17, <1>18
        DEF Next, Handle, Run, Outside, Rest

\* Who is in a stream's map.
LEMMA SubscribedKept == CameraInv /\ [Next]_vars => Subscribed'
<1> SUFFICES ASSUME CameraInv, [Next]_vars PROVE Subscribed'
  OBVIOUS
<1> USE CameraAssumption DEF Streams, feed, source, queue, client, guard
<1>1. CASE UNCHANGED vars
  BY <1>1
     DEF vars, ViewerStages, ViewerStage, Subscribed, InService, CameraInv, CameraTypeOK
<1>2. ASSUME NEW v \in Viewers, Join(v) PROVE Subscribed'
  BY <1>2
     DEF Join, Goto, Active, ViewerStages, ViewerStage, Subscribed, InService, CameraInv,
         CameraTypeOK
<1>3. ASSUME NEW v \in Viewers, AwaitReady(v) PROVE Subscribed'
  <2>1. PICK step \in {"leaving", "streaming"} :
          /\ at[v] = "waiting" /\ at' = [at EXCEPT ![v] = step]
          /\ \/ step = "leaving" /\ gone[v] /\ answer' = answer
             \/ /\ step = "leaving" /\ startup[stream[v]] = "refused"
                /\ answer' = [answer EXCEPT ![v] = "badGateway"]
             \/ step = "streaming" /\ answer' = [answer EXCEPT ![v] = "ok"]
    BY <1>3, AwaitReadySteps
  <2>2. UNCHANGED <<feed, source, queue, stream, held, got, guard>>
    BY <1>3 DEF AwaitReady
  <2> QED BY <2>1, <2>2 DEF CameraInv, CameraTypeOK, Subscribed, InService, Steps
<1>4. ASSUME NEW v \in Viewers, Take(v) PROVE Subscribed'
  BY <1>4 DEF Take, Goto, ViewerStages, ViewerStage, Subscribed, InService, CameraInv,
         CameraTypeOK
<1>5. ASSUME NEW v \in Viewers, EndStream(v) PROVE Subscribed'
  BY <1>5
     DEF EndStream, Goto, Over, ViewerStages, ViewerStage, Subscribed, InService, CameraInv,
         CameraTypeOK
<1>6. ASSUME NEW v \in Viewers, WriteDone(v) PROVE Subscribed'
  BY <1>6 DEF WriteDone, Goto, ViewerStages, ViewerStage, Subscribed, InService, CameraInv,
         CameraTypeOK
<1>7. ASSUME NEW v \in Viewers, WriteFails(v) PROVE Subscribed'
  BY <1>7 DEF WriteFails, Goto, ViewerStages, ViewerStage, Subscribed, InService, CameraInv,
         CameraTypeOK
<1>8. ASSUME NEW v \in Viewers, Unsubscribe(v) PROVE Subscribed'
  BY <1>8 DEF Unsubscribe, Goto, Stopped, ClosedIfEmpty, Forget, ViewerStages, ViewerStage,
         Subscribed, InService, CameraInv, CameraTypeOK
<1>9. ASSUME NEW v \in Viewers, CancelLast(v) PROVE Subscribed'
  BY <1>9 DEF CancelLast, Goto, ViewerStages, ViewerStage, Subscribed, InService, CameraInv,
         CameraTypeOK
<1>10. ASSUME NEW v \in Viewers, Watch(v) PROVE Subscribed'
  BY <1>10 DEF Watch, Stopped, Interrupted, Alarmed, ViewerStages, ViewerStage, Subscribed,
         InService, CameraInv, CameraTypeOK
<1>11. ASSUME NEW v \in Viewers, Disconnect(v) PROVE Subscribed'
  BY <1>11 DEF Disconnect, ViewerStages, ViewerStage, Subscribed, InService, CameraInv,
         CameraTypeOK
<1>12. ASSUME NEW v \in Viewers, Open(v) PROVE Subscribed'
  BY <1>12
     DEF Open, ViewerStages, ViewerStage, Subscribed, InService, CameraInv, CameraTypeOK
<1>13. ASSUME NEW v \in Viewers, Read(v) PROVE Subscribed'
  BY <1>13
     DEF Read, ViewerStages, ViewerStage, Subscribed, InService, CameraInv, CameraTypeOK
<1>14. ASSUME NEW v \in Viewers, ReadEnd(v) PROVE Subscribed'
  BY <1>14
     DEF ReadEnd, ViewerStages, ViewerStage, Subscribed, InService, CameraInv, CameraTypeOK
<1>15. ASSUME NEW v \in Viewers, Broadcast(v) PROVE Subscribed'
  BY <1>15
     DEF Broadcast, Deliver, Full, Remaining, ClosedIfEmpty, ViewerStages, ViewerStage,
         Subscribed, InService, CameraInv, CameraTypeOK
<1>16. ASSUME NEW v \in Viewers, Cancel(v) PROVE Subscribed'
  BY <1>16
     DEF Cancel, ViewerStages, ViewerStage, Subscribed, InService, CameraInv, CameraTypeOK
<1>17. ASSUME NEW v \in Viewers, Remove(v) PROVE Subscribed'
  BY <1>17 DEF Remove, Owns, ViewerStages, ViewerStage, Subscribed, InService, CameraInv,
         CameraTypeOK
<1>18. ASSUME NEW v \in Viewers, CloseAll(v) PROVE Subscribed'
  BY <1>18
     DEF CloseAll, ViewerStages, ViewerStage, Subscribed, InService, CameraInv, CameraTypeOK
<1> QED BY <1>1, <1>2, <1>3, <1>4, <1>5, <1>6, <1>7, <1>8, <1>9,
           <1>10, <1>11, <1>12, <1>13, <1>14, <1>15, <1>16, <1>17, <1>18
        DEF Next, Handle, Run, Outside, Rest

\* Why a viewer ends, and that its watcher saw to it.
LEMMA EndingsKept == CameraInv /\ [Next]_vars => Endings'
<1> SUFFICES ASSUME CameraInv, [Next]_vars PROVE Endings'
  OBVIOUS
<1> USE CameraAssumption DEF Streams, feed, source, queue, client, guard
<1>1. CASE UNCHANGED vars
  BY <1>1 DEF vars, ViewerStages, ViewerStage, Endings, Ending, Subscribed,
         BadGatewayMeansRefused, InService, Done, CameraInv, CameraTypeOK
<1>2. ASSUME NEW v \in Viewers, Join(v) PROVE Endings'
  BY <1>2 DEF Join, Goto, Active, ViewerStages, ViewerStage, Endings, Ending, Subscribed,
         BadGatewayMeansRefused, InService, Done, CameraInv, CameraTypeOK
<1>3. ASSUME NEW v \in Viewers, AwaitReady(v) PROVE Endings'
  <2>1. PICK step \in {"leaving", "streaming"} :
          /\ at[v] = "waiting" /\ at' = [at EXCEPT ![v] = step]
          /\ \/ step = "leaving" /\ gone[v] /\ answer' = answer
             \/ /\ step = "leaving" /\ startup[stream[v]] = "refused"
                /\ answer' = [answer EXCEPT ![v] = "badGateway"]
             \/ step = "streaming" /\ answer' = [answer EXCEPT ![v] = "ok"]
    BY <1>3, AwaitReadySteps
  <2>2. UNCHANGED <<feed, source, queue, stream, held, got, guard>>
    BY <1>3 DEF AwaitReady
  <2> QED BY <2>1, <2>2
             DEF CameraInv, CameraTypeOK, Endings, Ending, BadGatewayMeansRefused, Done,
                 Steps
<1>4. ASSUME NEW v \in Viewers, Take(v) PROVE Endings'
  BY <1>4 DEF Take, Goto, Endings, Ending, Done, CameraInv
<1>5. ASSUME NEW v \in Viewers, EndStream(v) PROVE Endings'
  BY <1>5 DEF EndStream, Goto, Over, ViewerStages, ViewerStage, Endings, Ending, Done,
     CameraInv
<1>6. ASSUME NEW v \in Viewers, WriteDone(v) PROVE Endings'
  BY <1>6 DEF WriteDone, Goto, ViewerStages, ViewerStage, Endings, Ending, Subscribed,
         BadGatewayMeansRefused, InService, Done, CameraInv, CameraTypeOK
<1>7. ASSUME NEW v \in Viewers, WriteFails(v) PROVE Endings'
  BY <1>7 DEF WriteFails, Goto, ViewerStages, ViewerStage, Endings, Ending, Subscribed,
         BadGatewayMeansRefused, InService, Done, CameraInv, CameraTypeOK
<1>8. ASSUME NEW v \in Viewers, Unsubscribe(v) PROVE Endings'
  <2>1. stream[v] \in Streams /\ at[v] = "leaving" /\ pump[stream[v]] # "none"
    BY <1>8 DEF Unsubscribe, Stopped, CameraInv, ViewerStages, ViewerStage
  <2>2. PICK s \in Streams : s = stream[v]
    BY <2>1
  <2>3. PICK step \in {"cancel", "done"} :
          /\ at' = [at EXCEPT ![v] = step]
          /\ step = "cancel" => subscribers'[s] = {}
    BY <1>8, <2>2 DEF Unsubscribe, Goto
  <2>4. /\ subscribers' = [subscribers EXCEPT ![s] = @ \ {v}] /\ watcher[v] = "ended"
        /\ closed' = [closed EXCEPT ![s] = @ \/ subscribers'[s] = {}]
        /\ UNCHANGED <<current, cancelled, source, shut, evicted, stream, held, answer, guard>>
    BY <1>8, <2>2 DEF Unsubscribe, ClosedIfEmpty
  <2>5. ASSUME NEW u \in Viewers PROVE Ending(u)'
    <3>1. Ending(u) /\ ViewerStage(u)
      BY DEF CameraInv, Endings, ViewerStages
    <3>2. watcher[v] = "ended"
      BY <1>8 DEF Unsubscribe
    <3> QED BY <2>1, <2>2, <2>3, <2>4, <3>1, <3>2
               DEF CameraInv, CameraTypeOK, Ending, ViewerStage, Done
  <2> QED BY <2>5 DEF Endings
<1>9. ASSUME NEW v \in Viewers, CancelLast(v) PROVE Endings'
  BY <1>9 DEF CancelLast, Goto, ViewerStage, Endings, Ending, InService, Done, CameraInv
<1>10. ASSUME NEW v \in Viewers, Watch(v) PROVE Endings'
  BY <1>10
     DEF Watch, Stopped, Interrupted, Alarmed, ViewerStages, ViewerStage, Endings, Ending,
         Subscribed, BadGatewayMeansRefused, InService, Done, CameraInv, CameraTypeOK
<1>11. ASSUME NEW v \in Viewers, Disconnect(v) PROVE Endings'
  BY <1>11 DEF Disconnect, ViewerStages, ViewerStage, Endings, Ending, Subscribed,
         BadGatewayMeansRefused, InService, Done, CameraInv, CameraTypeOK
<1>12. ASSUME NEW v \in Viewers, Open(v) PROVE Endings'
  BY <1>12 DEF Open, ViewerStages, ViewerStage, Endings, Ending, Subscribed,
         BadGatewayMeansRefused, InService, Done, CameraInv, CameraTypeOK
<1>13. ASSUME NEW v \in Viewers, Read(v) PROVE Endings'
  BY <1>13 DEF Read, ViewerStages, ViewerStage, Endings, Ending, Subscribed,
         BadGatewayMeansRefused, InService, Done, CameraInv, CameraTypeOK
<1>14. ASSUME NEW v \in Viewers, ReadEnd(v) PROVE Endings'
  BY <1>14 DEF ReadEnd, ViewerStages, ViewerStage, Endings, Ending, Subscribed,
         BadGatewayMeansRefused, InService, Done, CameraInv, CameraTypeOK
<1>15. ASSUME NEW v \in Viewers, Broadcast(v) PROVE Endings'
  <2>1. /\ pump' = [pump EXCEPT ![v] = IF subscribers'[v] = {} THEN "cancel" ELSE "reading"]
        /\ sent' = [sent EXCEPT ![v] = @ + 1]
        /\ UNCHANGED <<current, cancelled, startup, connected, client, guard>>
    BY <1>15 DEF Broadcast
  <2>2. ASSUME NEW u \in Viewers PROVE Ending(u)'
    <3>1. Ending(u) /\ ViewerStage(u)
      BY DEF CameraInv, Endings, ViewerStages
    <3>2. /\ pump[v] = "broadcast" /\ closed'[v] = (closed[v] \/ subscribers'[v] = {})
          /\ \A t \in Streams \ {v} : subscribers'[t] = subscribers[t] /\ closed'[t] = closed[t]
          /\ \/ /\ u \in subscribers'[v]
                /\ chunks'[u] = Append(chunks[u], sent[v] + 1)
                /\ shut'[u] = shut[u] /\ evicted'[u] = evicted[u]
             \/ /\ u \in subscribers[v] /\ u \notin subscribers'[v]
                /\ chunks'[u] = chunks[u] /\ shut'[u] /\ evicted'[u]
             \/ /\ u \notin subscribers[v]
                /\ chunks'[u] = chunks[u]
                /\ shut'[u] = shut[u] /\ evicted'[u] = evicted[u]
          /\ subscribers'[v] \subseteq subscribers[v]
      BY <1>15, BroadcastSteps
    <3>3. /\ u \in subscribers[v] => stream[u] = v /\ ~shut[u] /\ at[u] \in InService \union {"leaving"}
          /\ StreamStage(v)
          /\ at[u] # "idle" => stream[u] \in Streams
      BY DEF CameraInv, Subscribed, StreamStages, ViewerStages, ViewerStage
    <3>4. answer[u] = "badGateway" => startup[stream[u]] = "refused"
      BY DEF CameraInv, BadGatewayMeansRefused
    <3>5. u \in subscribers[v] /\ watcher[u] = "ended" => deadline[u] \/ gone[u]
      BY <3>1, <3>2, <3>3, <3>4 DEF StreamStage, Ending, InService, Done
    <3>6. evicted'[u] => evicted[u] \/ u \in subscribers[v]
      BY <3>2
    <3>7. (shut[u] => shut'[u]) /\ (evicted[u] => evicted'[u])
      BY <3>2
    <3> QED BY <2>1, <3>1, <3>2, <3>3, <3>5, <3>6, <3>7
               DEF CameraInv, CameraTypeOK, StreamStage, Ending, ViewerStage, InService,
                   Done
  <2> QED BY <2>2 DEF Endings
<1>16. ASSUME NEW v \in Viewers, Cancel(v) PROVE Endings'
  BY <1>16 DEF Cancel, ViewerStages, ViewerStage, Endings, Ending, Subscribed,
         BadGatewayMeansRefused, InService, Done, CameraInv, CameraTypeOK
<1>17. ASSUME NEW v \in Viewers, Remove(v) PROVE Endings'
  BY <1>17 DEF Remove, Owns, ViewerStages, ViewerStage, Endings, Ending, Subscribed,
         BadGatewayMeansRefused, InService, Done, CameraInv, CameraTypeOK
<1>18. ASSUME NEW v \in Viewers, CloseAll(v) PROVE Endings'
  BY <1>18 DEF CloseAll, ViewerStages, ViewerStage, Endings, Ending, Subscribed,
         BadGatewayMeansRefused, InService, Done, CameraInv, CameraTypeOK
<1> QED BY <1>1, <1>2, <1>3, <1>4, <1>5, <1>6, <1>7, <1>8, <1>9,
           <1>10, <1>11, <1>12, <1>13, <1>14, <1>15, <1>16, <1>17, <1>18
        DEF Next, Handle, Run, Outside, Rest

\* A stream that takes viewers is the manager's.
LEMMA OneUpstreamKept == CameraInv /\ [Next]_vars => OneUpstream'
<1> SUFFICES ASSUME CameraInv, [Next]_vars PROVE OneUpstream'
  OBVIOUS
<1> USE CameraAssumption DEF Streams, feed, source, queue, client, guard
<1>1. CASE UNCHANGED vars
  BY <1>1
     DEF vars, StreamStages, StreamStage, ViewerStages, ViewerStage, OneUpstream, CameraInv,
         CameraTypeOK
<1>2. ASSUME NEW v \in Viewers, Join(v) PROVE OneUpstream'
  BY <1>2 DEF Join, Goto, Active, StreamStages, StreamStage, ViewerStages, ViewerStage,
         OneUpstream, CameraInv, CameraTypeOK
<1>3. ASSUME NEW v \in Viewers, AwaitReady(v) PROVE OneUpstream'
  BY <1>3 DEF AwaitReady, Goto, StreamStages, StreamStage, ViewerStages, ViewerStage,
         OneUpstream, CameraInv, CameraTypeOK
<1>4. ASSUME NEW v \in Viewers, Take(v) PROVE OneUpstream'
  BY <1>4 DEF Take, Goto, StreamStages, StreamStage, ViewerStages, ViewerStage, OneUpstream,
         CameraInv, CameraTypeOK
<1>5. ASSUME NEW v \in Viewers, EndStream(v) PROVE OneUpstream'
  BY <1>5 DEF EndStream, Goto, Over, StreamStages, StreamStage, ViewerStages, ViewerStage,
         OneUpstream, CameraInv, CameraTypeOK
<1>6. ASSUME NEW v \in Viewers, WriteDone(v) PROVE OneUpstream'
  BY <1>6
     DEF WriteDone, Goto, StreamStages, StreamStage, ViewerStages, ViewerStage, OneUpstream,
         CameraInv, CameraTypeOK
<1>7. ASSUME NEW v \in Viewers, WriteFails(v) PROVE OneUpstream'
  BY <1>7 DEF WriteFails, Goto, StreamStages, StreamStage, ViewerStages, ViewerStage,
         OneUpstream, CameraInv, CameraTypeOK
<1>8. ASSUME NEW v \in Viewers, Unsubscribe(v) PROVE OneUpstream'
  BY <1>8 DEF Unsubscribe, Goto, Stopped, ClosedIfEmpty, Forget, StreamStages,
     StreamStage, ViewerStages, ViewerStage, OneUpstream, CameraInv
<1>9. ASSUME NEW v \in Viewers, CancelLast(v) PROVE OneUpstream'
  BY <1>9 DEF CancelLast, Goto, StreamStages, StreamStage, ViewerStages, ViewerStage,
         OneUpstream, CameraInv, CameraTypeOK
<1>10. ASSUME NEW v \in Viewers, Watch(v) PROVE OneUpstream'
  BY <1>10
     DEF Watch, Stopped, Interrupted, Alarmed, StreamStages, StreamStage, ViewerStages,
         ViewerStage, OneUpstream, CameraInv, CameraTypeOK
<1>11. ASSUME NEW v \in Viewers, Disconnect(v) PROVE OneUpstream'
  BY <1>11
     DEF Disconnect, StreamStages, StreamStage, ViewerStages, ViewerStage, OneUpstream,
         CameraInv, CameraTypeOK
<1>12. ASSUME NEW v \in Viewers, Open(v) PROVE OneUpstream'
  BY <1>12
     DEF Open, StreamStages, StreamStage, ViewerStages, ViewerStage, OneUpstream, CameraInv,
         CameraTypeOK
<1>13. ASSUME NEW v \in Viewers, Read(v) PROVE OneUpstream'
  BY <1>13
     DEF Read, StreamStages, StreamStage, ViewerStages, ViewerStage, OneUpstream, CameraInv,
         CameraTypeOK
<1>14. ASSUME NEW v \in Viewers, ReadEnd(v) PROVE OneUpstream'
  BY <1>14 DEF ReadEnd, StreamStages, StreamStage, ViewerStages, ViewerStage, OneUpstream,
         CameraInv, CameraTypeOK
<1>15. ASSUME NEW v \in Viewers, Broadcast(v) PROVE OneUpstream'
  BY <1>15 DEF Broadcast, Deliver, Full, Remaining, ClosedIfEmpty, OneUpstream,
     CameraInv, CameraTypeOK
<1>16. ASSUME NEW v \in Viewers, Cancel(v) PROVE OneUpstream'
  BY <1>16 DEF Cancel, StreamStages, StreamStage, ViewerStages, ViewerStage, OneUpstream,
         CameraInv, CameraTypeOK
<1>17. ASSUME NEW v \in Viewers, Remove(v) PROVE OneUpstream'
  BY <1>17
     DEF Remove, Owns, StreamStages, StreamStage, ViewerStages, ViewerStage, OneUpstream,
         CameraInv, CameraTypeOK
<1>18. ASSUME NEW v \in Viewers, CloseAll(v) PROVE OneUpstream'
  BY <1>18 DEF CloseAll, StreamStages, StreamStage, ViewerStages, ViewerStage, OneUpstream,
         CameraInv, CameraTypeOK
<1> QED BY <1>1, <1>2, <1>3, <1>4, <1>5, <1>6, <1>7, <1>8, <1>9,
           <1>10, <1>11, <1>12, <1>13, <1>14, <1>15, <1>16, <1>17, <1>18
        DEF Next, Handle, Run, Outside, Rest

\* A viewer is told of a failure only by the stream that it waits for.
LEMMA BadGatewayMeansRefusedKept == CameraInv /\ [Next]_vars => BadGatewayMeansRefused'
<1> SUFFICES ASSUME CameraInv, [Next]_vars PROVE BadGatewayMeansRefused'
  OBVIOUS
<1> USE CameraAssumption DEF Streams, feed, source, queue, client, guard
<1>1. CASE UNCHANGED vars
  BY <1>1
     DEF vars, StreamStages, StreamStage, ViewerStages, ViewerStage, BadGatewayMeansRefused,
         CameraInv, CameraTypeOK
<1>2. ASSUME NEW v \in Viewers, Join(v) PROVE BadGatewayMeansRefused'
  BY <1>2 DEF Join, Goto, Active, StreamStages, StreamStage, ViewerStages, ViewerStage,
         BadGatewayMeansRefused, CameraInv, CameraTypeOK
<1>3. ASSUME NEW v \in Viewers, AwaitReady(v) PROVE BadGatewayMeansRefused'
  BY <1>3 DEF AwaitReady, Goto, StreamStages, StreamStage, ViewerStages, ViewerStage,
         BadGatewayMeansRefused, CameraInv, CameraTypeOK
<1>4. ASSUME NEW v \in Viewers, Take(v) PROVE BadGatewayMeansRefused'
  BY <1>4 DEF Take, Goto, StreamStages, StreamStage, ViewerStages, ViewerStage,
         BadGatewayMeansRefused, CameraInv, CameraTypeOK
<1>5. ASSUME NEW v \in Viewers, EndStream(v) PROVE BadGatewayMeansRefused'
  BY <1>5 DEF EndStream, Goto, Over, StreamStages, StreamStage, ViewerStages, ViewerStage,
         BadGatewayMeansRefused, CameraInv, CameraTypeOK
<1>6. ASSUME NEW v \in Viewers, WriteDone(v) PROVE BadGatewayMeansRefused'
  BY <1>6 DEF WriteDone, Goto, StreamStages, StreamStage, ViewerStages, ViewerStage,
         BadGatewayMeansRefused, CameraInv, CameraTypeOK
<1>7. ASSUME NEW v \in Viewers, WriteFails(v) PROVE BadGatewayMeansRefused'
  BY <1>7 DEF WriteFails, Goto, StreamStages, StreamStage, ViewerStages, ViewerStage,
         BadGatewayMeansRefused, CameraInv, CameraTypeOK
<1>8. ASSUME NEW v \in Viewers, Unsubscribe(v) PROVE BadGatewayMeansRefused'
  BY <1>8 DEF Unsubscribe, Goto, Stopped, ClosedIfEmpty, Forget, StreamStages, StreamStage,
         ViewerStages, ViewerStage, BadGatewayMeansRefused, CameraInv, CameraTypeOK
<1>9. ASSUME NEW v \in Viewers, CancelLast(v) PROVE BadGatewayMeansRefused'
  BY <1>9 DEF CancelLast, Goto, StreamStages, StreamStage, ViewerStages, ViewerStage,
         BadGatewayMeansRefused, CameraInv, CameraTypeOK
<1>10. ASSUME NEW v \in Viewers, Watch(v) PROVE BadGatewayMeansRefused'
  BY <1>10
     DEF Watch, Stopped, Interrupted, Alarmed, StreamStages, StreamStage, ViewerStages,
         ViewerStage, BadGatewayMeansRefused, CameraInv, CameraTypeOK
<1>11. ASSUME NEW v \in Viewers, Disconnect(v) PROVE BadGatewayMeansRefused'
  BY <1>11 DEF Disconnect, StreamStages, StreamStage, ViewerStages, ViewerStage,
         BadGatewayMeansRefused, CameraInv, CameraTypeOK
<1>12. ASSUME NEW v \in Viewers, Open(v) PROVE BadGatewayMeansRefused'
  BY <1>12
     DEF Open, StreamStages, StreamStage, ViewerStages, ViewerStage, BadGatewayMeansRefused,
         CameraInv, CameraTypeOK
<1>13. ASSUME NEW v \in Viewers, Read(v) PROVE BadGatewayMeansRefused'
  BY <1>13
     DEF Read, StreamStages, StreamStage, ViewerStages, ViewerStage, BadGatewayMeansRefused,
         CameraInv, CameraTypeOK
<1>14. ASSUME NEW v \in Viewers, ReadEnd(v) PROVE BadGatewayMeansRefused'
  BY <1>14 DEF ReadEnd, StreamStages, StreamStage, ViewerStages, ViewerStage,
         BadGatewayMeansRefused, CameraInv, CameraTypeOK
<1>15. ASSUME NEW v \in Viewers, Broadcast(v) PROVE BadGatewayMeansRefused'
  BY <1>15
     DEF Broadcast, Deliver, Full, Remaining, ClosedIfEmpty, StreamStages, StreamStage,
         ViewerStages, ViewerStage, BadGatewayMeansRefused, CameraInv, CameraTypeOK
<1>16. ASSUME NEW v \in Viewers, Cancel(v) PROVE BadGatewayMeansRefused'
  BY <1>16 DEF Cancel, StreamStages, StreamStage, ViewerStages, ViewerStage,
         BadGatewayMeansRefused, CameraInv, CameraTypeOK
<1>17. ASSUME NEW v \in Viewers, Remove(v) PROVE BadGatewayMeansRefused'
  BY <1>17 DEF Remove, Owns, StreamStages, StreamStage, ViewerStages, ViewerStage,
         BadGatewayMeansRefused, CameraInv, CameraTypeOK
<1>18. ASSUME NEW v \in Viewers, CloseAll(v) PROVE BadGatewayMeansRefused'
  BY <1>18 DEF CloseAll, StreamStages, StreamStage, ViewerStages, ViewerStage,
         BadGatewayMeansRefused, CameraInv, CameraTypeOK
<1> QED BY <1>1, <1>2, <1>3, <1>4, <1>5, <1>6, <1>7, <1>8, <1>9,
           <1>10, <1>11, <1>12, <1>13, <1>14, <1>15, <1>16, <1>17, <1>18
        DEF Next, Handle, Run, Outside, Rest

\* A handler writes the chunk after the one before.
LEMMA UninterruptedPrefixKept == CameraInv /\ [Next]_vars => UninterruptedPrefix'
<1> SUFFICES ASSUME CameraInv, [Next]_vars PROVE UninterruptedPrefix'
  OBVIOUS
<1> USE CameraAssumption DEF Streams, feed, source, queue, client, guard
<1>1. CASE UNCHANGED vars
  BY <1>1 DEF vars, UninterruptedPrefix, CameraInv, CameraTypeOK
<1>2. ASSUME NEW v \in Viewers, Join(v) PROVE UninterruptedPrefix'
  BY <1>2 DEF Join, Goto, Active, UninterruptedPrefix, CameraInv, CameraTypeOK
<1>3. ASSUME NEW v \in Viewers, AwaitReady(v) PROVE UninterruptedPrefix'
  BY <1>3 DEF AwaitReady, Goto, UninterruptedPrefix, CameraInv, CameraTypeOK
<1>4. ASSUME NEW v \in Viewers, Take(v) PROVE UninterruptedPrefix'
  <2>1. at[v] = "streaming" /\ chunks[v] # <<>> /\ chunks[v] \in Seq(Nat)
    BY <1>4 DEF Take, CameraInv, CameraTypeOK
  <2>2. chunks[v][1] = got[v] + 1 /\ \A k \in 1 .. Len(chunks[v]) : chunks[v][k] = got[v] + k
    BY <2>1 DEF CameraInv, Queues, Queue, Last, InService
  <2>3. held' = [held EXCEPT ![v] = got[v] + 1]
    <3>1. Head(chunks[v]) = got[v] + 1
      BY <2>1, <2>2
    <3> QED BY <1>4, <3>1 DEF Take
  <2>4. at' = [at EXCEPT ![v] = "writing"] /\ got' = got
    BY <1>4 DEF Take, Goto
  <2> QED BY <2>3, <2>4 DEF CameraInv, CameraTypeOK, UninterruptedPrefix
<1>5. ASSUME NEW v \in Viewers, EndStream(v) PROVE UninterruptedPrefix'
  BY <1>5 DEF EndStream, Goto, Over, UninterruptedPrefix, CameraInv, CameraTypeOK
<1>6. ASSUME NEW v \in Viewers, WriteDone(v) PROVE UninterruptedPrefix'
  BY <1>6 DEF WriteDone, Goto, UninterruptedPrefix, CameraInv, CameraTypeOK
<1>7. ASSUME NEW v \in Viewers, WriteFails(v) PROVE UninterruptedPrefix'
  BY <1>7 DEF WriteFails, Goto, UninterruptedPrefix, CameraInv, CameraTypeOK
<1>8. ASSUME NEW v \in Viewers, Unsubscribe(v) PROVE UninterruptedPrefix'
  BY <1>8
     DEF Unsubscribe, Goto, Stopped, ClosedIfEmpty, Forget, UninterruptedPrefix, CameraInv,
         CameraTypeOK
<1>9. ASSUME NEW v \in Viewers, CancelLast(v) PROVE UninterruptedPrefix'
  BY <1>9 DEF CancelLast, Goto, UninterruptedPrefix, CameraInv, CameraTypeOK
<1>10. ASSUME NEW v \in Viewers, Watch(v) PROVE UninterruptedPrefix'
  BY <1>10
     DEF Watch, Stopped, Interrupted, Alarmed, UninterruptedPrefix, CameraInv, CameraTypeOK
<1>11. ASSUME NEW v \in Viewers, Disconnect(v) PROVE UninterruptedPrefix'
  BY <1>11 DEF Disconnect, UninterruptedPrefix, CameraInv, CameraTypeOK
<1>12. ASSUME NEW v \in Viewers, Open(v) PROVE UninterruptedPrefix'
  BY <1>12 DEF Open, UninterruptedPrefix, CameraInv, CameraTypeOK
<1>13. ASSUME NEW v \in Viewers, Read(v) PROVE UninterruptedPrefix'
  BY <1>13 DEF Read, UninterruptedPrefix, CameraInv, CameraTypeOK
<1>14. ASSUME NEW v \in Viewers, ReadEnd(v) PROVE UninterruptedPrefix'
  BY <1>14 DEF ReadEnd, UninterruptedPrefix, CameraInv, CameraTypeOK
<1>15. ASSUME NEW v \in Viewers, Broadcast(v) PROVE UninterruptedPrefix'
  BY <1>15
     DEF Broadcast, Deliver, Full, Remaining, ClosedIfEmpty, UninterruptedPrefix, CameraInv,
         CameraTypeOK
<1>16. ASSUME NEW v \in Viewers, Cancel(v) PROVE UninterruptedPrefix'
  BY <1>16 DEF Cancel, UninterruptedPrefix, CameraInv, CameraTypeOK
<1>17. ASSUME NEW v \in Viewers, Remove(v) PROVE UninterruptedPrefix'
  BY <1>17 DEF Remove, Owns, UninterruptedPrefix, CameraInv, CameraTypeOK
<1>18. ASSUME NEW v \in Viewers, CloseAll(v) PROVE UninterruptedPrefix'
  BY <1>18 DEF CloseAll, UninterruptedPrefix, CameraInv, CameraTypeOK
<1> QED BY <1>1, <1>2, <1>3, <1>4, <1>5, <1>6, <1>7, <1>8, <1>9,
           <1>10, <1>11, <1>12, <1>13, <1>14, <1>15, <1>16, <1>17, <1>18
        DEF Next, Handle, Run, Outside, Rest

\* A queue has no gap.
LEMMA QueuesKept == CameraInv /\ [Next]_vars => Queues'
<1> SUFFICES ASSUME CameraInv, [Next]_vars PROVE Queues'
  OBVIOUS
<1> USE CameraAssumption DEF Streams, feed, source, queue, client, guard
<1>1. CASE UNCHANGED vars
  BY <1>1 DEF vars, ViewerStages, ViewerStage, Queues, Queue, Last, InService, CameraInv,
         CameraTypeOK
<1>2. ASSUME NEW v \in Viewers, Join(v) PROVE Queues'
  <2>1. PICK s \in Streams :
           /\ current' = s /\ at[v] = "idle"
           /\ \/ s = current /\ ~closed[s] /\ pump' = pump
              \/ /\ s = v /\ (current = None \/ closed[current])
                 /\ pump' = [pump EXCEPT ![v] = "opening"]
           /\ subscribers' = [subscribers EXCEPT ![s] = @ \union {v}]
           /\ stream' = [stream EXCEPT ![v] = s]
           /\ got' = [got EXCEPT ![v] = sent[s]]
    BY <1>2, JoinSteps
  <2>2. /\ at' = [at EXCEPT ![v] = "waiting"] /\ watcher' = [watcher EXCEPT ![v] = "watching"]
        /\ UNCHANGED <<closed, cancelled, startup, connected, sent, queue, held, answer, deadline, gone>>
    BY <1>2 DEF Join, Goto
  <2>3. ASSUME NEW u \in Viewers PROVE Queue(u)'
    <3>1. Queue(u) /\ ViewerStage(u)
      BY DEF CameraInv, Queues, ViewerStages
    <3>2. CASE u = v
      <4>1. /\ chunks'[v] = <<>> /\ stream'[v] = s /\ at'[v] = "waiting"
            /\ got'[v] = sent[s] /\ sent[s] \in Nat /\ sent'[s] = sent[s]
        BY <2>1, <2>2, <3>1, <3>2 DEF CameraInv, CameraTypeOK, Queue
      <4> QED BY <3>2, <4>1 DEF Queue, Last
    <3>3. CASE u # v
      BY <2>1, <2>2, <3>1, <3>3 DEF Queue, Last
    <3> QED BY <3>2, <3>3
  <2> QED BY <2>3 DEF Queues
<1>3. ASSUME NEW v \in Viewers, AwaitReady(v) PROVE Queues'
  <2>1. PICK step \in {"leaving", "streaming"} :
          /\ at[v] = "waiting" /\ at' = [at EXCEPT ![v] = step]
          /\ \/ step = "leaving" /\ gone[v] /\ answer' = answer
             \/ /\ step = "leaving" /\ startup[stream[v]] = "refused"
                /\ answer' = [answer EXCEPT ![v] = "badGateway"]
             \/ step = "streaming" /\ answer' = [answer EXCEPT ![v] = "ok"]
    BY <1>3, AwaitReadySteps
  <2>2. UNCHANGED <<feed, source, queue, stream, held, got, guard>>
    BY <1>3 DEF AwaitReady
  <2>3. \A u \in Viewers : Queue(u)
    BY DEF CameraInv, Queues
  <2>4. \A u \in Viewers : 
           at'[u] \in InService =>
             (at[u] \in InService /\ at'[u] # "writing") \/ at'[u] = at[u]
    BY <2>1 DEF CameraInv, CameraTypeOK, InService
  <2> QED BY <2>1, <2>2, <2>3, <2>4 DEF Queues, Queue, Last, InService
<1>4. ASSUME NEW v \in Viewers, Take(v) PROVE Queues'
  <2>1. at[v] = "streaming" /\ chunks[v] # <<>> /\ chunks[v] \in Seq(Nat)
    BY <1>4 DEF Take, CameraInv, CameraTypeOK
  <2>2. chunks[v][1] = got[v] + 1 /\ \A k \in 1 .. Len(chunks[v]) : chunks[v][k] = got[v] + k
    BY <2>1 DEF CameraInv, Queues, Queue, Last, InService
  <2>3. held' = [held EXCEPT ![v] = got[v] + 1]
    <3>1. Head(chunks[v]) = got[v] + 1
      BY <2>1, <2>2
    <3> QED BY <1>4, <3>1 DEF Take
  <2>4. /\ at' = [at EXCEPT ![v] = "writing"] /\ UNCHANGED <<got, subscribers, stream, sent>>
        /\ chunks' = [chunks EXCEPT ![v] = Tail(chunks[v])]
    BY <1>4 DEF Take, Goto
  <2>5. /\ Len(Tail(chunks[v])) = Len(chunks[v]) - 1
        /\ \A k \in 1 .. Len(Tail(chunks[v])) : Tail(chunks[v])[k] = got[v] + 1 + k
    <3>1. /\ Len(Tail(chunks[v])) = Len(chunks[v]) - 1 /\ Len(chunks[v]) \in Nat \ {0}
          /\ \A k \in 1 .. Len(Tail(chunks[v])) : Tail(chunks[v])[k] = chunks[v][k + 1]
      BY <2>1, HeadTailProperties
    <3>2. got[v] \in Nat
      BY DEF CameraInv, CameraTypeOK
    <3> QED BY <2>2, <3>1, <3>2
  <2>6. ASSUME NEW u \in Viewers PROVE Queue(u)'
    <3>1. Queue(u)
      BY DEF CameraInv, Queues
    <3>2. CASE u = v
      <4>1. /\ at'[v] = "writing" /\ held'[v] = got[v] + 1 /\ chunks'[v] = Tail(chunks[v])
            /\ got[v] \in Nat /\ Last(v) = got[v] /\ Last(v)' = got[v] + 1
        BY <2>1, <2>3, <2>4 DEF CameraInv, CameraTypeOK, Last
      <4>2. v \in subscribers[stream[v]] => got[v] + Len(chunks[v]) = sent[stream[v]]
        BY <2>1, <3>1, <3>2, <4>1 DEF Queue, InService
      <4>3. v \in subscribers[stream[v]] => Last(v)' + Len(chunks'[v]) = sent[stream[v]]
        BY <2>1, <2>5, <4>1, <4>2
      <4> QED BY <2>4, <2>5, <3>2, <4>1, <4>3 DEF Queue
    <3>3. CASE u # v
      BY <2>3, <2>4, <3>1, <3>3 DEF CameraInv, CameraTypeOK, Queue, Last, InService
    <3> QED BY <3>2, <3>3
  <2> QED BY <2>6 DEF Queues
<1>5. ASSUME NEW v \in Viewers, EndStream(v) PROVE Queues'
  <2>9. ASSUME NEW u \in Viewers PROVE Queue(u)'
    <3>1. Queue(u)
      BY DEF CameraInv, Queues
    <3> QED BY <1>5, <3>1
               DEF CameraInv, CameraTypeOK, Queue, Last, InService, EndStream, Goto, Over
  <2> QED BY <2>9 DEF Queues
<1>6. ASSUME NEW v \in Viewers, WriteDone(v) PROVE Queues'
  <2>9. ASSUME NEW u \in Viewers PROVE Queue(u)'
    <3>1. Queue(u)
      BY DEF CameraInv, Queues
    <3> QED BY <1>6, <3>1
               DEF CameraInv, CameraTypeOK, Queue, Last, InService, WriteDone, Goto
  <2> QED BY <2>9 DEF Queues
<1>7. ASSUME NEW v \in Viewers, WriteFails(v) PROVE Queues'
  <2>9. ASSUME NEW u \in Viewers PROVE Queue(u)'
    <3>1. Queue(u)
      BY DEF CameraInv, Queues
    <3> QED BY <1>7, <3>1
               DEF CameraInv, CameraTypeOK, Queue, Last, InService, WriteFails, Goto
  <2> QED BY <2>9 DEF Queues
<1>8. ASSUME NEW v \in Viewers, Unsubscribe(v) PROVE Queues'
  <2>1. stream[v] \in Streams /\ at[v] = "leaving" /\ pump[stream[v]] # "none"
    BY <1>8 DEF Unsubscribe, Stopped, CameraInv, ViewerStages, ViewerStage
  <2>2. PICK s \in Streams : s = stream[v]
    BY <2>1
  <2>3. PICK step \in {"cancel", "done"} :
          /\ at' = [at EXCEPT ![v] = step]
          /\ step = "cancel" => subscribers'[s] = {}
    BY <1>8, <2>2 DEF Unsubscribe, Goto
  <2>4. /\ subscribers' = [subscribers EXCEPT ![s] = @ \ {v}] /\ watcher[v] = "ended"
        /\ closed' = [closed EXCEPT ![s] = @ \/ subscribers'[s] = {}]
        /\ UNCHANGED <<current, cancelled, source, shut, evicted, stream, held, answer, guard>>
    BY <1>8, <2>2 DEF Unsubscribe, ClosedIfEmpty
  <2>5. chunks' = [chunks EXCEPT ![v] = <<>>] /\ got' = [got EXCEPT ![v] = 0]
    BY <1>8 DEF Unsubscribe, Forget
  <2>6. ASSUME NEW u \in Viewers PROVE Queue(u)'
    <3>1. Queue(u) /\ ViewerStage(u)
      BY DEF CameraInv, Queues, ViewerStages
    <3> QED BY <2>1, <2>2, <2>3, <2>4, <2>5, <3>1
               DEF CameraInv, CameraTypeOK, ViewerStage, Queue, Last, InService
  <2> QED BY <2>6 DEF Queues
<1>9. ASSUME NEW v \in Viewers, CancelLast(v) PROVE Queues'
  BY <1>9 DEF CancelLast, Goto, ViewerStages, ViewerStage, Queues, Queue, Last, InService,
         CameraInv, CameraTypeOK
<1>10. ASSUME NEW v \in Viewers, Watch(v) PROVE Queues'
  BY <1>10 DEF Watch, Alarmed, Queues, Queue, Last, CameraInv
<1>11. ASSUME NEW v \in Viewers, Disconnect(v) PROVE Queues'
  BY <1>11 DEF Disconnect, Queues, Queue, Last, CameraInv
<1>12. ASSUME NEW v \in Viewers, Open(v) PROVE Queues'
  BY <1>12 DEF Open, ViewerStage, Queues, Queue, Last, InService, CameraInv
<1>13. ASSUME NEW v \in Viewers, Read(v) PROVE Queues'
  <2>1. UNCHANGED <<at, held, got, stream, chunks, subscribers, sent>>
    BY <1>13 DEF Read
  <2> QED BY <2>1 DEF CameraInv, Queues, Queue, Last
<1>14. ASSUME NEW v \in Viewers, ReadEnd(v) PROVE Queues'
  BY <1>14 DEF ReadEnd, ViewerStage, Queues, Queue, Last, CameraInv
<1>15. ASSUME NEW v \in Viewers, Broadcast(v) PROVE Queues'
  <2>1. /\ pump' = [pump EXCEPT ![v] = IF subscribers'[v] = {} THEN "cancel" ELSE "reading"]
        /\ sent' = [sent EXCEPT ![v] = @ + 1]
        /\ UNCHANGED <<current, cancelled, startup, connected, client, guard>>
    BY <1>15 DEF Broadcast
  <2>2. ASSUME NEW u \in Viewers PROVE Queue(u)'
    <3>1. Queue(u) /\ ViewerStage(u)
      BY DEF CameraInv, Queues, ViewerStages
    <3>2. /\ pump[v] = "broadcast" /\ closed'[v] = (closed[v] \/ subscribers'[v] = {})
          /\ \A t \in Streams \ {v} : subscribers'[t] = subscribers[t] /\ closed'[t] = closed[t]
          /\ \/ /\ u \in subscribers'[v]
                /\ chunks'[u] = Append(chunks[u], sent[v] + 1)
                /\ shut'[u] = shut[u] /\ evicted'[u] = evicted[u]
             \/ /\ u \in subscribers[v] /\ u \notin subscribers'[v]
                /\ chunks'[u] = chunks[u] /\ shut'[u] /\ evicted'[u]
             \/ /\ u \notin subscribers[v]
                /\ chunks'[u] = chunks[u]
                /\ shut'[u] = shut[u] /\ evicted'[u] = evicted[u]
          /\ subscribers'[v] \subseteq subscribers[v]
      BY <1>15, BroadcastSteps
    <3>3. /\ u \in subscribers[v] => stream[u] = v /\ ~shut[u] /\ at[u] \in InService \union {"leaving"}
          /\ StreamStage(v)
          /\ at[u] # "idle" => stream[u] \in Streams
      BY DEF CameraInv, Subscribed, StreamStages, ViewerStages, ViewerStage
    <3>4. /\ chunks[u] \in Seq(Nat) /\ sent[v] \in Nat /\ sent'[v] = sent[v] + 1
          /\ held[u] \in Nat /\ got[u] \in Nat
          /\ \A t \in Streams \ {v} : sent'[t] = sent[t]
      BY <2>1 DEF CameraInv, CameraTypeOK
    <3>5. CASE u \in subscribers'[v]
      <4>1. chunks'[u] = Append(chunks[u], sent[v] + 1) /\ stream[u] = v
        BY <3>2, <3>3, <3>5
      <4>2. /\ Len(chunks'[u]) = Len(chunks[u]) + 1 /\ Len(chunks[u]) \in Nat
            /\ chunks'[u][Len(chunks[u]) + 1] = sent[v] + 1
            /\ \A k \in 1 .. Len(chunks[u]) : chunks'[u][k] = chunks[u][k]
        BY <3>4, <4>1
      <4>3. /\ u \in subscribers[v] /\ UNCHANGED <<at, held, got, stream>> /\ at[u] # "idle"
            /\ Last(u) \in Nat
        BY <2>1, <3>2, <3>3, <3>4, <3>5 DEF Last, InService
      <4>4. Last(u)' = Last(u)
        BY <4>3 DEF Last
      <4>5. ASSUME at[u] \in InService
            PROVE  /\ Last(u) + Len(chunks[u]) = sent[v]
                   /\ \A k \in 1 .. Len(chunks[u]) : chunks[u][k] = Last(u) + k
        BY <3>1, <4>1, <4>3, <4>5 DEF Queue
      <4>6. ASSUME at[u] \in InService, NEW k \in 1 .. Len(chunks'[u])
            PROVE  chunks'[u][k] = Last(u) + k
        <5>1. CASE k \in 1 .. Len(chunks[u])
          BY <4>2, <4>5, <4>6, <5>1
        <5>2. CASE k = Len(chunks[u]) + 1
          BY <3>4, <4>2, <4>3, <4>5, <4>6, <5>2
        <5> QED BY <4>2, <5>1, <5>2
      <4>7. at[u] \in InService => Last(u) + Len(chunks'[u]) = sent'[v]
        BY <3>4, <4>2, <4>3, <4>5
      <4> QED BY <4>1, <4>3, <4>4, <4>6, <4>7 DEF Queue
    <3>6. CASE u \notin subscribers'[v]
      BY <2>1, <3>1, <3>2, <3>3, <3>4, <3>6 DEF Queue, ViewerStage, Last, InService
    <3> QED BY <3>5, <3>6
  <2> QED BY <2>2 DEF Queues
<1>16. ASSUME NEW v \in Viewers, Cancel(v) PROVE Queues'
  BY <1>16 DEF Cancel, Queues, Queue, Last, CameraInv
<1>17. ASSUME NEW v \in Viewers, Remove(v) PROVE Queues'
  BY <1>17 DEF Remove, Queues, Queue, Last, InService, CameraInv
<1>18. ASSUME NEW v \in Viewers, CloseAll(v) PROVE Queues'
  BY <1>18 DEF CloseAll, Queues, Queue, Last, InService, CameraInv
<1> QED BY <1>1, <1>2, <1>3, <1>4, <1>5, <1>6, <1>7, <1>8, <1>9,
           <1>10, <1>11, <1>12, <1>13, <1>14, <1>15, <1>16, <1>17, <1>18
        DEF Next, Handle, Run, Outside, Rest

-----------------------------------------------------------------------------
(* The theorems.                                                           *)

\* Nobody has come yet.
LEMMA CameraInit == Init => CameraInv
<1> SUFFICES ASSUME Init PROVE CameraInv
  OBVIOUS
<1> USE CameraAssumption DEF Init, Streams
<1>1. CameraTypeOK
  BY DEF CameraTypeOK, Steps, PumpSteps
<1>2. StreamStages /\ ViewerStages /\ Subscribed
  BY DEF StreamStages, StreamStage, ViewerStages, ViewerStage, Subscribed, InService
<1>3. Endings /\ Queues
  BY DEF Endings, Ending, Queues, Queue, InService, Done
<1>4. UninterruptedPrefix /\ OneUpstream /\ BadGatewayMeansRefused
  BY DEF UninterruptedPrefix, OneUpstream, BadGatewayMeansRefused
<1> QED BY <1>1, <1>2, <1>3, <1>4 DEF CameraInv

\* The inductive invariant holds at every step.
THEOREM CameraInvariant == Spec => []CameraInv
<1>1. CameraInv /\ [Next]_vars => CameraInv'
  BY CameraTypeOKKept, StreamStagesKept, ViewerStagesKept, SubscribedKept, EndingsKept,
     OneUpstreamKept, BadGatewayMeansRefusedKept, UninterruptedPrefixKept, QueuesKept
     DEF CameraInv
<1> QED BY CameraInit, <1>1, PTL DEF Spec

\* Every viewer in service and subscribed has the stream from where he joined, without
\* a gap: the numbers in his queue are exactly those that are missing.
LEMMA InvWhole == CameraInv => NothingSkipped
<1> SUFFICES ASSUME CameraInv, NEW v \in Viewers, stream[v] # None,
                    v \in subscribers[stream[v]], at[v] \in InService
             PROVE  chunks[v] = [k \in 1 .. sent[stream[v]] - Last(v) |-> Last(v) + k]
  BY DEF NothingSkipped, InService, Last
<1>1. /\ \A k \in 1 .. Len(chunks[v]) : chunks[v][k] = Last(v) + k
      /\ Last(v) + Len(chunks[v]) = sent[stream[v]]
  BY DEF CameraInv, Queues, Queue
<1>2. /\ Last(v) \in Nat /\ chunks[v] \in Seq(Nat) /\ Len(chunks[v]) \in Nat
  BY DEF CameraInv, CameraTypeOK, Last
<1>3. sent[stream[v]] - Last(v) = Len(chunks[v])
  BY <1>1, <1>2
<1>4. chunks[v] = [k \in 1 .. Len(chunks[v]) |-> chunks[v][k]]
  BY <1>2
<1> QED BY <1>1, <1>3, <1>4

\* What a viewer's client is written is the camera's stream, whole from where the viewer
\* joined to where he was cut off, however slow he is and whoever else comes and goes.
THEOREM StreamsAreWhole == Spec => []WholeStream
<1>1. CameraInv => WholeStream
  BY InvWhole DEF CameraInv, WholeStream
<1> QED BY CameraInvariant, <1>1, PTL

\* No channel is sent to or closed after it was closed, which would be a panic of the
\* stream's goroutine, and with it of the whole module.
THEOREM NoClosedChannel == Spec => []SubscribedChannelsOpen
<1>1. CameraInv => SubscribedChannelsOpen
  BY DEF CameraInv, CameraTypeOK, Subscribed, ViewerStages, ViewerStage,
     SubscribedChannelsOpen, Streams
<1> QED BY CameraInvariant, <1>1, PTL

\* All viewers of a camera have one connection to it.
THEOREM SharedUpstream == Spec => []OneUpstream
<1>1. CameraInv => OneUpstream
  BY DEF CameraInv
<1> QED BY CameraInvariant, <1>1, PTL

\* A viewer is not told of a failure that the camera did not have.
THEOREM TruthfulGateway == Spec => []BadGatewayMeansRefused
<1>1. CameraInv => BadGatewayMeansRefused
  BY DEF CameraInv
<1> QED BY CameraInvariant, <1>1, PTL

\* A viewer whose stream has ended is told: he is not left to wait for chunks.
THEOREM NobodyLeftBehind == Spec => []NoViewerLeftBehind
<1>1. CameraInv => NoViewerLeftBehind
  <2> SUFFICES ASSUME CameraInv, NEW v \in Viewers, at[v] = "streaming", pump[stream[v]] = "ended"
               PROVE  shut[v] \/ evicted[v]
    BY DEF NoViewerLeftBehind
  <2>1. stream[v] \in Streams /\ (v \in subscribers[stream[v]] \/ shut[v])
    BY DEF CameraInv, ViewerStages, ViewerStage, InService
  <2>2. subscribers[stream[v]] = {}
    BY <2>1 DEF CameraInv, StreamStages, StreamStage
  <2> QED BY <2>1, <2>2
<1> QED BY CameraInvariant, <1>1, PTL

\* A viewer that was evicted has lost its connection by the time its handler is done,
\* wherever the handler was when the stream's goroutine evicted it.
THEOREM EvictedAreCutOff == Spec => []EvictedDisconnected
<1>1. CameraInv => EvictedDisconnected
  BY DEF CameraInv, Endings, Ending, EvictedDisconnected
<1> QED BY CameraInvariant, <1>1, PTL

=============================================================================
