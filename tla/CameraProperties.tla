-------------------------- MODULE CameraProperties --------------------------
(***************************************************************************)
(* What CameraStream promises (SPEC.md, Camera Streaming).                 *)
(***************************************************************************)
EXTENDS CameraStream

Steps == {"idle", "waiting", "streaming", "writing", "leaving",
          "cancel", "done"}
PumpSteps == {"none", "opening", "reading", "broadcast", "cancel", "remove",
              "closeAll", "ended"}

\* Types of all variables; a channel holds no more than its capacity.
CameraTypeOK ==
  /\ current \in Streams \union {None}
  /\ subscribers \in [Streams -> SUBSET Viewers]
  /\ closed \in [Streams -> BOOLEAN] /\ cancelled \in [Streams -> BOOLEAN]
  /\ startup \in [Streams -> {"pending", "ok", "refused", "interrupted"}]
  /\ connected \in [Streams -> BOOLEAN]
  /\ sent \in [Streams -> Nat]
  /\ pump \in [Streams -> PumpSteps]
  /\ stream \in [Viewers -> Streams \union {None}]
  /\ chunks \in [Viewers -> Seq(Nat)] /\ \A v \in Viewers : Len(chunks[v]) <= QueueSize
  /\ held \in [Viewers -> Nat] /\ got \in [Viewers -> Nat]
  /\ shut \in [Viewers -> BOOLEAN] /\ evicted \in [Viewers -> BOOLEAN]
  /\ at \in [Viewers -> Steps]
  /\ answer \in [Viewers -> {"none", "ok", "badGateway"}]
  /\ watcher \in [Viewers -> {"none", "watching", "ended"}]
  /\ deadline \in [Viewers -> BOOLEAN]
  /\ gone \in [Viewers -> BOOLEAN]

\* SPEC.md "an uninterrupted prefix of the stream up to disconnection": a chunk is
\* written right after the one before it, also to a viewer that has been evicted.
UninterruptedPrefix == \A v \in Viewers : at[v] = "writing" => held[v] = got[v] + 1

\* SPEC.md "Other viewers continue receiving the shared stream": a viewer that is
\* subscribed has had, or has in its queue, every chunk since it joined.
NothingSkipped ==
  \A v \in Viewers :
    stream[v] # None /\ v \in subscribers[stream[v]]
    /\ at[v] \in {"waiting", "streaming", "writing"} =>
      LET last == IF at[v] = "writing" THEN held[v] ELSE got[v] IN
      chunks[v] = [k \in 1 .. sent[stream[v]] - last |-> last + k]

\* What a viewer is written is the camera's stream, whole from where he joined to
\* where he was cut off (broadcast, streamHandler); the types hold with it.
WholeStream == CameraTypeOK /\ UninterruptedPrefix /\ NothingSkipped

\* broadcast and closeAll send on and close only open channels: a channel is
\* closed once, and never sent to after it.
SubscribedChannelsOpen ==
  \A s \in Streams : \A v \in subscribers[s] :
    stream[v] = s /\ ~shut[v] /\ ~evicted[v]

\* SPEC.md "Camera viewers share one upstream connection": a stream that takes
\* viewers and is not ending is the one that the next viewer will find, so no two
\* connections to the camera serve viewers.
OneUpstream ==
  \A s \in Streams :
    subscribers[s] # {} /\ ~closed[s] /\ pump[s] # "closeAll" => current = s

\* A viewer is told that the camera failed only if it did, not because viewers
\* that came earlier have left.
BadGatewayMeansRefused ==
  \A v \in Viewers : answer[v] = "badGateway" => startup[stream[v]] = "refused"

\* No viewer waits for chunks of a stream whose goroutine has ended, also if it
\* joined while the stream was ending.
NoViewerLeftBehind ==
  \A v \in Viewers :
    at[v] = "streaming" /\ pump[stream[v]] = "ended" => shut[v] \/ evicted[v]

\* SPEC.md "disconnected, including when its response is blocked writing": the
\* connection of a viewer that was evicted is broken when its handler is done.
EvictedDisconnected ==
  \A v \in Viewers : at[v] = "done" /\ evicted[v] => deadline[v] \/ gone[v]

\* The handler of a viewer that was evicted, or whose client is gone, returns, also
\* if its client does not read.
LeaversLeave == \A v \in Viewers : evicted[v] \/ gone[v] ~> at[v] = "done"

\* SPEC.md "When the final viewer leaves, the upstream connection closes": a
\* stream whose viewers are all done ends.
UpstreamEnds ==
  \A s \in Streams :
    (pump[s] # "none" /\ \A v \in Viewers : stream[v] = s => at[v] = "done")
      ~> pump[s] = "ended"
=============================================================================
