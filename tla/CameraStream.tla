---------------------------- MODULE CameraStream ----------------------------
(***************************************************************************)
(* The cameraview module (modules/cameraview/main.go): the viewers of one  *)
(* camera share one connection to it.  The pump of a stream reads chunks   *)
(* from the camera and puts them into a bounded queue of each viewer; the  *)
(* handler of a viewer writes them to its client.                          *)
(*                                                                         *)
(* The cameras of the manager have nothing in common but m.mu, which is    *)
(* never held while waiting; one camera is modelled.  A stream is named by *)
(* the viewer that starts it.  A step is one critical section of m.mu or   *)
(* s.mu, or what a goroutine does between two of them.                     *)
(***************************************************************************)
EXTENDS Naturals, Sequences, FiniteSets, FiniteSetsExt

CONSTANTS
  Viewers,    \* requests to watch the camera; also the streams they start
  QueueSize,  \* capacity of a viewer's chunk channel (8 in the code)
  MaxLoad,    \* bound on the viewers that came and the chunks sent, together
  None        \* no stream

ASSUME CameraAssumption ==
  QueueSize \in Nat \ {0} /\ MaxLoad \in Nat /\ None \notin Viewers

VARIABLES
  current,      \* manager.streams[camIdx]
  subscribers,  \* stream -> the viewers in its map
  closed,       \* stream -> s.closed
  cancelled,    \* stream -> its context is cancelled
  startup,      \* stream -> "pending" until ready is closed, then how it went
  connected,    \* stream -> the connection to the camera is open
  sent,         \* stream -> chunks broadcast so far
  pump,         \* stream -> the next step of its goroutine
  stream,       \* viewer -> the stream it watches
  chunks,       \* viewer -> the queue of its channel; chunks are numbered
  held,         \* viewer -> the chunk its handler is writing, or 0
  got,          \* viewer -> the last chunk before it joined or that its client
                \* got (history)
  shut,         \* viewer -> viewer.chunks is closed
  evicted,      \* viewer -> viewer.evicted is closed
  at,           \* viewer -> the next step of its handler
  answer,       \* viewer -> the status of its response
  watcher,      \* viewer -> the goroutine of watchViewer
  deadline,     \* viewer -> the write deadline of its connection has passed
  gone          \* viewer -> its client is gone; the request's context is done

feed   == <<current, subscribers, closed, cancelled>>
source == <<startup, connected, sent, pump>>
queue  == <<chunks, shut, evicted>>
client == <<stream, held, got, at, answer>>
guard  == <<watcher, deadline, gone>>
vars   == <<feed, source, queue, client, guard>>

Streams == Viewers

Init ==
  /\ current = None
  /\ subscribers = [s \in Streams |-> {}]
  /\ closed = [s \in Streams |-> FALSE]
  /\ cancelled = [s \in Streams |-> FALSE]
  /\ startup = [s \in Streams |-> "pending"]
  /\ connected = [s \in Streams |-> FALSE]
  /\ sent = [s \in Streams |-> 0]
  /\ pump = [s \in Streams |-> "none"]
  /\ stream = [v \in Viewers |-> None]
  /\ chunks = [v \in Viewers |-> <<>>]
  /\ held = [v \in Viewers |-> 0]
  /\ got = [v \in Viewers |-> 0]
  /\ shut = [v \in Viewers |-> FALSE]
  /\ evicted = [v \in Viewers |-> FALSE]
  /\ at = [v \in Viewers |-> "idle"]
  /\ answer = [v \in Viewers |-> "none"]
  /\ watcher = [v \in Viewers |-> "none"]
  /\ deadline = [v \in Viewers |-> FALSE]
  /\ gone = [v \in Viewers |-> FALSE]

-----------------------------------------------------------------------------
(* The handler of a viewer: streamHandler.                                 *)

Goto(v, step) == at' = [at EXCEPT ![v] = step]

\* subscribe: a stream that is closing takes no more viewers.
Active(s) == s # None /\ ~closed[s]

\* getOrStart subscribes to the active stream, or starts one; both with m.mu
\* held.  Then watchViewer starts its goroutine.
Join(v) ==
  /\ at[v] = "idle"
  /\ LET s == IF Active(current) THEN current ELSE v IN
     /\ current' = s
     /\ subscribers' = [subscribers EXCEPT ![s] = @ \union {v}]
     /\ pump' = IF s = current THEN pump ELSE [pump EXCEPT ![s] = "opening"]
     /\ stream' = [stream EXCEPT ![v] = s]
     /\ got' = [got EXCEPT ![v] = sent[s]]
  /\ watcher' = [watcher EXCEPT ![v] = "watching"]
  /\ Goto(v, "waiting")
  /\ UNCHANGED <<closed, cancelled, startup, connected, sent, queue, held,
                 answer, deadline, gone>>

\* The select on the client's context and stream.ready.
AwaitReady(v) ==
  /\ at[v] = "waiting"
  /\ \/ gone[v] /\ Goto(v, "leaving") /\ UNCHANGED answer
     \/ /\ startup[stream[v]] \in {"refused", "interrupted"}
        /\ answer' = [answer EXCEPT ![v] = "badGateway"]
        /\ Goto(v, "leaving")
     \/ /\ startup[stream[v]] = "ok"
        /\ answer' = [answer EXCEPT ![v] = "ok"]
        /\ Goto(v, "streaming")
  /\ UNCHANGED <<feed, source, queue, stream, held, got, guard>>

\* The select on the client's context, viewer.evicted and viewer.chunks, and
\* the write of the chunk that it took.
Take(v) ==
  /\ at[v] = "streaming" /\ chunks[v] # <<>>
  /\ held' = [held EXCEPT ![v] = Head(chunks[v])]
  /\ chunks' = [chunks EXCEPT ![v] = Tail(@)]
  /\ Goto(v, "writing")
  /\ UNCHANGED <<feed, source, shut, evicted, stream, got, answer, guard>>

Drained(v) == evicted[v] \/ (shut[v] /\ chunks[v] = <<>>)      \* mutant
Over(v) == gone[v] \/ evicted[v] \/ (shut[v] /\ chunks[v] = <<>>)

EndStream(v) ==
  /\ at[v] = "streaming" /\ Over(v)
  /\ Goto(v, "leaving")
  /\ UNCHANGED <<feed, source, queue, stream, held, got, answer, guard>>

\* The client reads; a client that does not blocks the write.
WriteDone(v) ==
  /\ at[v] = "writing"
  /\ got' = [got EXCEPT ![v] = held[v]]
  /\ held' = [held EXCEPT ![v] = 0]
  /\ Goto(v, "streaming")
  /\ UNCHANGED <<feed, source, queue, stream, answer, guard>>

WriteFails(v) ==
  /\ at[v] = "writing" /\ (gone[v] \/ deadline[v])
  /\ held' = [held EXCEPT ![v] = 0]
  /\ Goto(v, "leaving")
  /\ UNCHANGED <<feed, source, queue, stream, got, answer, guard>>

\* The handler returns: the deferred stopWatching closes stop and waits for the
\* watcher to end ...
Stopped(v) == at[v] = "leaving"

\* ... and unsub; the last viewer closes the stream, and cancels its context
\* after s.mu.Unlock().
NeverClosed(s) == closed                                        \* mutant
ClosedIfEmpty(s) == [closed EXCEPT ![s] = @ \/ subscribers'[s] = {}]

\* The rest of the queue is garbage; the history has served its purpose.
Forget(v) ==
  /\ chunks' = [chunks EXCEPT ![v] = <<>>]
  /\ got' = [got EXCEPT ![v] = 0]

Unsubscribe(v) ==
  /\ Stopped(v) /\ watcher[v] = "ended"
  /\ LET s == stream[v] IN
     /\ subscribers' = [subscribers EXCEPT ![s] = @ \ {v}]
     /\ closed' = ClosedIfEmpty(s)
     /\ Goto(v, IF subscribers'[s] = {} THEN "cancel" ELSE "done")
  /\ Forget(v)
  /\ UNCHANGED <<current, cancelled, source, shut, evicted, stream, held, answer, guard>>

JustLeave(v) ==                                                 \* mutant
  /\ at[v] = "cancel" /\ Goto(v, "done")
  /\ UNCHANGED <<feed, source, queue, stream, held, got, answer, guard>>
CancelLast(v) ==
  /\ at[v] = "cancel"
  /\ cancelled' = [cancelled EXCEPT ![stream[v]] = TRUE]
  /\ Goto(v, "done")
  /\ UNCHANGED <<current, subscribers, closed, source, queue, stream, held, got, answer, guard>>

\* watchViewer: a viewer that leaves, or is evicted while its handler is blocked
\* in a write, has the write interrupted.
Unwatched(v) == FALSE                                           \* mutant
Interrupted(v) == evicted[v]

OnlyGone(v) == gone[v]                                          \* mutant
Alarmed(v) == gone[v] \/ evicted[v]

Watch(v) ==
  /\ watcher[v] = "watching"
  /\ \/ /\ Alarmed(v) \/ (Stopped(v) /\ Interrupted(v))
        /\ deadline' = [deadline EXCEPT ![v] = TRUE]
     \/ Stopped(v) /\ ~Interrupted(v) /\ UNCHANGED deadline
  /\ watcher' = [watcher EXCEPT ![v] = "ended"]
  /\ UNCHANGED <<feed, source, queue, client, gone>>

\* The client leaves.  (Once the handler is returning it makes no difference.)
Disconnect(v) ==
  /\ at[v] \in {"waiting", "streaming", "writing"} /\ ~gone[v]
  /\ gone' = [gone EXCEPT ![v] = TRUE]
  /\ UNCHANGED <<feed, source, queue, client, watcher, deadline>>

-----------------------------------------------------------------------------
(* The goroutine of a stream.                                              *)

\* openCamera: the camera answers as it should, or it does not, or the context
\* is cancelled first.
Open(s) ==
  /\ pump[s] = "opening"
  /\ \E result \in {"ok", "refused"} \union
                    (IF cancelled[s] THEN {"interrupted"} ELSE {}) :
       /\ startup' = [startup EXCEPT ![s] = result]
       /\ connected' = [connected EXCEPT ![s] = result = "ok"]
       /\ pump' = [pump EXCEPT ![s] = IF result = "ok" THEN "reading" ELSE "remove"]
  /\ UNCHANGED <<feed, sent, queue, client, guard>>

\* resp.Body.Read returns a chunk.  (If the end of the stream comes with it, ReadEnd
\* follows the broadcast.)
Load == Cardinality({v \in Viewers : stream[v] # None})
          + MapThenSumSet(LAMBDA s : sent[s], Streams)

Read(s) ==
  /\ pump[s] = "reading" /\ Load < MaxLoad
  /\ pump' = [pump EXCEPT ![s] = "broadcast"]
  /\ UNCHANGED <<feed, startup, connected, sent, queue, client, guard>>

\* The camera ends the stream, the read fails, or the context is cancelled.
ReadEnd(s) ==
  /\ pump[s] = "reading"
  /\ pump' = [pump EXCEPT ![s] = "remove"]
  /\ UNCHANGED <<feed, startup, connected, sent, queue, client, guard>>

\* The viewers whose queue is full are evicted.
Full(s) == {v \in subscribers[s] : Len(chunks[v]) >= QueueSize}

NobodyRemoved(s, full) == subscribers                           \* mutant
Remaining(s, full) == [subscribers EXCEPT ![s] = @ \ full]

SkipChunk(s, full) ==                                           \* mutant
  /\ subscribers' = subscribers /\ UNCHANGED <<evicted, shut>>
  /\ chunks' = [v \in Viewers |->
       IF v \in subscribers[s] \ full THEN Append(chunks[v], sent[s] + 1) ELSE chunks[v]]
Deliver(s, full) ==
  /\ subscribers' = Remaining(s, full)
  /\ evicted' = [v \in Viewers |-> evicted[v] \/ v \in full]
  /\ shut' = [v \in Viewers |-> shut[v] \/ v \in full]
  /\ chunks' = [v \in Viewers |->
       IF v \in subscribers[s] \ full THEN Append(chunks[v], sent[s] + 1) ELSE chunks[v]]

Broadcast(s) ==
  /\ pump[s] = "broadcast"
  /\ Deliver(s, Full(s))
  /\ closed' = ClosedIfEmpty(s)
  /\ sent' = [sent EXCEPT ![s] = @ + 1]
  /\ pump' = [pump EXCEPT ![s] = IF subscribers'[s] = {} THEN "cancel" ELSE "reading"]
  /\ UNCHANGED <<current, cancelled, startup, connected, client, guard>>

\* broadcast calls cancel after s.mu.Unlock() when nobody is left.
Cancel(s) ==
  /\ pump[s] = "cancel"
  /\ cancelled' = [cancelled EXCEPT ![s] = TRUE]
  /\ pump' = [pump EXCEPT ![s] = "reading"]
  /\ UNCHANGED <<current, subscribers, closed, startup, connected, sent, queue,
                 client, guard>>

\* The deferred calls: resp.Body.Close and the removal from the manager, then
\* closeAll and cancel.
AnyOwner(s) == TRUE                                             \* mutant
Owns(s) == current = s

Remove(s) ==
  /\ pump[s] = "remove"
  /\ connected' = [connected EXCEPT ![s] = FALSE]
  /\ current' = IF Owns(s) THEN None ELSE current
  /\ pump' = [pump EXCEPT ![s] = "closeAll"]
  /\ UNCHANGED <<subscribers, closed, cancelled, startup, sent, queue, client, guard>>

CancelOnly(s) ==                                                \* mutant
  /\ pump[s] = "closeAll"
  /\ closed' = [closed EXCEPT ![s] = TRUE]
  /\ cancelled' = [cancelled EXCEPT ![s] = TRUE]
  /\ pump' = [pump EXCEPT ![s] = "ended"]
  /\ UNCHANGED <<current, subscribers, shut, startup, connected, sent, chunks, evicted,
                 client, guard>>
CloseAll(s) ==
  /\ pump[s] = "closeAll"
  /\ closed' = [closed EXCEPT ![s] = TRUE]
  /\ shut' = [v \in Viewers |-> shut[v] \/ v \in subscribers[s]]
  /\ subscribers' = [subscribers EXCEPT ![s] = {}]
  /\ cancelled' = [cancelled EXCEPT ![s] = TRUE]
  /\ pump' = [pump EXCEPT ![s] = "ended"]
  /\ UNCHANGED <<current, startup, connected, sent, chunks, evicted, client, guard>>

-----------------------------------------------------------------------------
\* Every viewer has been served.
Rest == /\ \A v \in Viewers : at[v] = "done" /\ pump[v] \in {"none", "ended"}
        /\ UNCHANGED vars

\* What goroutines do by themselves.
Handle(v) == AwaitReady(v) \/ Take(v) \/ EndStream(v) \/ WriteFails(v)
             \/ Unsubscribe(v) \/ CancelLast(v)
Run(s) == Open(s) \/ Broadcast(s) \/ Cancel(s) \/ Remove(s) \/ CloseAll(s)

\* What clients and the camera do.
Outside(v) == Join(v) \/ Disconnect(v) \/ WriteDone(v) \/ Read(v) \/ ReadEnd(v)

Next == (\E v \in Viewers : Handle(v) \/ Watch(v) \/ Run(v) \/ Outside(v)) \/ Rest

Spec == Init /\ [][Next]_vars

\* Goroutines are scheduled, openCamera has timeouts, and a read ends when its
\* context is cancelled.  Neither clients nor the camera need do anything.
FairSpec ==
  /\ Spec
  /\ \A v \in Viewers :
       /\ WF_vars(Handle(v)) /\ WF_vars(Watch(v)) /\ WF_vars(Run(v))
       /\ WF_vars(cancelled[v] /\ ReadEnd(v))
=============================================================================
