------------------------- MODULE PresenceProperties -------------------------
(***************************************************************************)
(* What the presence module promises.                                      *)
(***************************************************************************)
EXTENDS Presence

Questions == UNION {MayAskFor[p] : p \in Participants}
Names == {NameOf(a) : a \in Questions}

\* Types of all variables; a handler that has a room to work on has its reference.
PresenceTypeOK ==
  /\ doing \in [Participants -> {"sleep", "lock", "find", "make", "record", "render",
                                 "write", "panicked"}]
  /\ ask \in [Participants -> Questions \union {None}]
  /\ room_lock \in Participants \union {None}
  /\ ref \in [Participants -> Maps \union {None}]
  /\ Rooms \in [Ids -> Maps \union {None}]
  /\ Users \in [Maps -> SUBSET Names]
  /\ listed \in [Participants -> SUBSET Names] /\ before \in [Participants -> SUBSET Names]
  /\ stalled \subseteq Browsers /\ changes \in 0 .. MaxChanges
  /\ {exeFile, homeFile} \subseteq Tokens
  /\ \A p \in Participants :
       doing[p] \in {"record", "render", "write"} => ref[p] \in Maps

\* Whoever has had an answer is in the room he asked for, whoever else made or filled
\* rooms meanwhile (get_data works on references to the maps).
NobodyIsLost ==
  \A p \in Participants :
    doing[p] \in {"write", "sleep"} /\ ask[p] # None
      => NameOf(ask[p]) \in Present(RoomId(ask[p]))

\* A page lists the one who asked and everyone who was there when he did.
PageHasEarlier ==
  \A p \in Participants :
    doing[p] = "write" => before[p] \union {NameOf(ask[p])} \subseteq listed[p]

\* The rooms are typed, nobody drops out of one, and every page has all of its room.
PresenceInv == PresenceTypeOK /\ NobodyIsLost /\ PageHasEarlier

-----------------------------------------------------------------------------
\* A page that does not fit its connection, to a browser that does not read: the lock
\* is held until that browser goes, and the rooms only grow.
Stuck == \E p \in stalled : doing[p] = "write" /\ ~Fits(p)

\* Every request is answered, unless the lock is stuck: the handlers' deferred Unlock.
AnswersCome ==
  \A p \in Participants : doing[p] = "lock" ~> (doing[p] = "sleep" \/ Stuck)

\* A client that runs and can read a good token, however it got there, is recorded
\* again and again, unless the lock is stuck (main, getWrapper of the client).
GoodToken == exeFile = "good" \/ (exeFile = "none" /\ homeFile = "good")
ReportsGoOn ==
  \A p \in Clients :
    <>[](GoodToken /\ doing[p] # "panicked" /\ ~Stuck) => []<>(doing[p] = "render")
=============================================================================
