------------------------------ MODULE Presence ------------------------------
(***************************************************************************)
(* The presence module: rooms, and in each the users who have ever asked   *)
(* for it, in the memory of one process behind one lock; the browsers      *)
(* whose page asks every three seconds; and the client program, which      *)
(* reports its host every ten seconds with a token it reads from a file.   *)
(*                                                                         *)
(* A room is a map, and a handler works on a reference to it, which is     *)
(* here the participant who made the map and the id he made it for.        *)
(* Bounds: a page of BigPage users does not fit the buffers of a           *)
(* connection; MaxChanges of what is outside: the token's files, browsers  *)
(* that stall, restarts of clients.                                        *)
(***************************************************************************)
EXTENDS Naturals, FiniteSets

CONSTANTS
  Browsers, Clients, None,
  MayAskFor,            \* MayAskFor[p]: what the participant p may ask for
  BigPage, MaxChanges

Participants == Browsers \union Clients
Ids == {"0", "1"}
Maps == Participants \X Ids

ASSUME PresenceAssumption ==
  /\ Browsers \intersect Clients = {} /\ None \notin Participants \union Maps
  /\ BigPage \in Nat /\ MaxChanges \in Nat

VARIABLES
  doing,      \* doing[p]: the step of p's request, or of the client's loop
  ask,        \* what p asks for
  room_lock,  \* who holds it, or None
  Rooms,      \* the room of each id, or None
  Users,      \* Users[room]: who is in it
  ref,        \* the room that p's handler works on
  listed,     \* the users on p's page
  before,     \* those who were in the room when p asked
  stalled,    \* browsers that have stopped reading
  exeFile, homeFile,    \* presence.token beside the program and .presence.token
  changes

asking == <<doing, ask>>
rooms == <<room_lock, Rooms, Users>>
pages == <<ref, listed, before>>
outside == <<stalled, exeFile, homeFile, changes>>
presenceVars == <<asking, rooms, pages, outside>>

Tokens == {"none", "good", "revoked"}

\* get_data: a host in the query goes before a user, and that before the identity the
\* gateway has set; a room id that is no number is 0.
NameOf(a) == IF a.host # None THEN a.host ELSE IF a.user # None THEN a.user ELSE a.header
RoomId(a) == IF a.id \in Ids THEN a.id ELSE "0"

PresenceInit ==
  /\ doing = [p \in Participants |-> "sleep"]
  /\ ask = [p \in Participants |-> None]
  /\ room_lock = None
  /\ Rooms = [i \in Ids |-> None]
  /\ Users = [m \in Maps |-> {}]
  /\ ref = [p \in Participants |-> None]
  /\ listed = [p \in Participants |-> {}] /\ before = [p \in Participants |-> {}]
  /\ stalled = {}
  /\ exeFile \in Tokens /\ homeFile \in Tokens /\ changes = 0

Step(p, from, to) == doing[p] = from /\ doing' = [doing EXCEPT ![p] = to]
Present(i) == IF Rooms[i] = None THEN {} ELSE Users[Rooms[i]]

\* A request reaches the server.
Arrives(p, from) ==
  /\ Step(p, from, "lock")
  /\ \E a \in MayAskFor[p] :
       /\ ask' = [ask EXCEPT ![p] = a]
       /\ before' = [before EXCEPT ![p] = Present(RoomId(a))]
  /\ UNCHANGED <<ref, listed>>

BrowserAsks(p) ==
  /\ p \in Browsers \ stalled /\ Arrives(p, "sleep") /\ UNCHANGED <<rooms, outside>>

-----------------------------------------------------------------------------
\* handle_users and handle_room

TakeAnyway(p) ==
  /\ Step(p, "lock", "find") /\ room_lock' = p
  /\ UNCHANGED <<ask, Rooms, Users, pages, outside>>
Lock(p) ==
  /\ room_lock = None /\ room_lock' = p
  /\ Step(p, "lock", "find")
  /\ UNCHANGED <<ask, Rooms, Users, pages, outside>>

\* A room is made by the first who asks for it.
FindRoom(p) ==
  /\ Step(p, "find", IF Rooms[RoomId(ask[p])] = None THEN "make" ELSE "record")
  /\ ref' = [ref EXCEPT ![p] = Rooms[RoomId(ask[p])]]
  /\ UNCHANGED <<ask, rooms, listed, before, outside>>
MakeRoom(p) ==
  LET new == <<p, RoomId(ask[p])>> IN
  /\ Step(p, "make", "record")
  /\ Rooms' = [Rooms EXCEPT ![RoomId(ask[p])] = new]
  /\ Users' = [Users EXCEPT ![new] = {}]
  /\ ref' = [ref EXCEPT ![p] = new]
  /\ UNCHANGED <<ask, room_lock, listed, before, outside>>

Record(p) ==
  /\ Step(p, "record", "render")
  /\ Users' = [Users EXCEPT ![ref[p]] = @ \union {NameOf(ask[p])}]
  /\ UNCHANGED <<ask, room_lock, Rooms, pages, outside>>

Render(p) ==
  /\ Step(p, "render", "write")
  /\ listed' = [listed EXCEPT ![p] = Users[ref[p]]]
  /\ UNCHANGED <<ask, rooms, ref, before, outside>>

\* The page is written with the lock held; the deferred Unlock comes after it, also
\* when the connection has broken.
Fits(p) == Cardinality(listed[p]) < BigPage
UnlockUnlessStalled(p) == IF p \in stalled THEN p ELSE None
UnlockBy(p) == None
Write(p) ==
  /\ Step(p, "write", "sleep")
  /\ p \in stalled => Fits(p)
  /\ room_lock' = UnlockBy(p)
  /\ ref' = [ref EXCEPT ![p] = None]
  /\ listed' = [listed EXCEPT ![p] = {}] /\ before' = [before EXCEPT ![p] = {}]
  /\ UNCHANGED <<ask, Rooms, Users, outside>>

-----------------------------------------------------------------------------
\* The client program

\* The file beside the program goes before the one in the home directory.
HomeFirst == IF homeFile # "none" THEN homeFile ELSE exeFile
TokenFile == IF exeFile # "none" THEN exeFile ELSE homeFile

\* One round of its loop: without a token it panics.  A round with a revoked one
\* changes nothing: the gateway answers it, and the answer is not looked at.
ClientAsks(p) ==
  /\ p \in Clients
  /\ \/ TokenFile = "none" /\ Step(p, "sleep", "panicked") /\ UNCHANGED <<ask, pages>>
     \/ TokenFile = "good" /\ Arrives(p, "sleep")
  /\ UNCHANGED <<rooms, outside>>

\* systemd starts it again, but gives up soon (presence.service).
Restart(p) ==
  /\ Step(p, "panicked", "sleep")
  /\ changes < MaxChanges /\ changes' = changes + 1
  /\ UNCHANGED <<ask, rooms, pages, stalled, exeFile, homeFile>>

\* Outside: the user changes a file, the token is rotated away, a browser stalls.
Change(p) ==
  /\ changes < MaxChanges /\ changes' = changes + 1
  /\ \/ exeFile' \in Tokens \ {exeFile} /\ UNCHANGED <<homeFile, stalled>>
     \/ homeFile' \in Tokens \ {homeFile} /\ UNCHANGED <<exeFile, stalled>>
     \/ p \in Browsers /\ stalled' = stalled \union {p} /\ UNCHANGED <<exeFile, homeFile>>
  /\ UNCHANGED <<asking, rooms, pages>>

HandleRoom(p) ==
  Lock(p) \/ FindRoom(p) \/ MakeRoom(p) \/ Record(p) \/ Render(p) \/ Write(p)

PresenceNext ==
  \E p \in Participants : BrowserAsks(p) \/ HandleRoom(p) \/ ClientAsks(p) \/ Restart(p) \/ Change(p)

PresenceSpec == PresenceInit /\ [][PresenceNext]_presenceVars
=============================================================================
