------------------------------- MODULE Mailbox -------------------------------
(***************************************************************************)
(* The menu module's mailboxes: one message for each user, in a bolt       *)
(* database, that one device of the user sends or uploads and another one  *)
(* checks (and empties) or looks at.  Every access is a transaction of its *)
(* own.  What a handler writes to a device waits in a buffer until it has  *)
(* returned; a Large message goes out at once, and only the end of the     *)
(* answer waits.  The connection to the device may break at any time, and  *)
(* its handler runs on.                                                    *)
(*                                                                         *)
(* A user who TakesTurns asks when his last request is answered, or has    *)
(* broken off.  A message is named by the request that brought it.         *)
(* Bounds: a request happens once, and so does a crash, and a commit that  *)
(* fails.                                                                  *)
(***************************************************************************)
EXTENDS Naturals, Sequences, FiniteSets

CONSTANTS
  Mails,                \* the requests
  NoMail,               \* no request, and no message
  MayMail,              \* MayMail[m]: the user and the operation of m
  MailUsers, NoId,      \* the users; a request that came without an identity
  TakesTurns,           \* users who wait for one request before the next
  Fragile,              \* requests whose connection may break
  Large, Short          \* the mails whose message is large, or of a byte or less

MailOps == {"check", "image", "send", "upload", "noFile", "shutdown"}

ASSUME MailAssumption ==
  /\ NoMail \notin Mails \union [user : MailUsers, op : MailOps, turn : Nat]
  /\ NoId \in MailUsers /\ TakesTurns \subseteq MailUsers \ {NoId}
  /\ Fragile \union Large \union Short \subseteq Mails /\ Large \intersect Short = {}
  /\ MayMail \in [Mails -> SUBSET [user : MailUsers, op : MailOps]]

VARIABLES
  mail,       \* mail[m]: what was asked for, and its turn, or NoMail
  steps,      \* what is left of its handler
  fetched,    \* the message it has read
  received,   \* the message that its device has got, if not yet the end of the answer
  answered,   \* requests whose device has got the whole answer
  gone,       \* requests whose connection broke before
  bucket,     \* the database has the bucket, which the first Put makes
  message,    \* message[u]: u's message, or NoMail ("none")
  mishaps     \* which of the faults have happened

requests == <<mail, steps, fetched, received, answered, gone>>
mailVars == <<requests, bucket, message, mishaps>>

\* uploadHandler reads a file that was not sent from nil.
MailHandler(op) ==
  CASE op = "check" -> <<"fetch", "reply", "clear", "return">>
    [] op = "image" -> <<"fetch", "reply", "return">>
    [] op \in {"send", "upload"} -> <<"store", "return">>
    [] op = "noFile" -> <<"panic">>
    [] op = "shutdown" -> <<"exit">>

MailInit ==
  /\ mail = [m \in Mails |-> NoMail]
  /\ steps = [m \in Mails |-> <<>>]
  /\ fetched = [m \in Mails |-> NoMail] /\ received = [m \in Mails |-> NoMail]
  /\ answered = {} /\ gone = {}
  /\ bucket = FALSE
  /\ message = [u \in MailUsers |-> NoMail]
  /\ mishaps = {}

Owner(m) == mail[m].user
Doing(m, step) == steps[m] # <<>> /\ Head(steps[m]) = step
Done(m) == steps' = [steps EXCEPT ![m] = Tail(@)]
Panic(m) == steps' = [steps EXCEPT ![m] = <<>>]

AskMail(m) ==
  /\ mail[m] = NoMail
  /\ \E a \in MayMail[m] :
       /\ a.user \in TakesTurns => \A n \in Mails \ gone : steps[n] # <<>> => Owner(n) # a.user
       /\ mail' = [mail EXCEPT ![m] =
            [user |-> a.user, op |-> a.op,
             turn |-> Cardinality({n \in Mails : mail[n] # NoMail})]]
       /\ steps' = [steps EXCEPT ![m] = MailHandler(a.op)]
  /\ UNCHANGED <<fetched, received, answered, gone, bucket, message, mishaps>>

\* The device has left, or its connection has broken: nobody tells the handler.
Disconnect(m) ==
  /\ m \in Fragile \ gone /\ steps[m] # <<>> /\ gone' = gone \union {m}
  /\ UNCHANGED <<mail, steps, fetched, received, answered, bucket, message, mishaps>>

\* Get: without a bucket it panics, and a message of a byte is "not found".
Fetch(m) ==
  /\ Doing(m, "fetch")
  /\ IF bucket
     THEN /\ fetched' = [fetched EXCEPT ![m] =
               IF message[Owner(m)] \in Short THEN NoMail ELSE message[Owner(m)]]
          /\ Done(m)
     ELSE Panic(m) /\ UNCHANGED fetched
  /\ UNCHANGED <<mail, received, answered, gone, bucket, message, mishaps>>

\* The error of the write is dropped.
WriteReply(m) ==
  /\ Doing(m, "reply") /\ Done(m)
  /\ received' = [received EXCEPT ![m] =
       IF fetched[m] \in Large /\ m \notin gone THEN fetched[m] ELSE @]
  /\ UNCHANGED <<mail, fetched, answered, gone, bucket, message, mishaps>>

\* Put: bolt panics on an empty key; storeMessage drops the error of a commit.
KeepMessage(m, new) ==
  /\ bucket' = TRUE /\ Done(m) /\ UNCHANGED mishaps
  /\ message' = [message EXCEPT ![Owner(m)] = IF new = NoMail THEN @ ELSE new]
Put(m, new) ==
  \/ /\ Owner(m) = NoId /\ Panic(m) /\ UNCHANGED <<bucket, message, mishaps>>
  \/ /\ Owner(m) # NoId /\ Done(m)
     /\ bucket' = TRUE /\ message' = [message EXCEPT ![Owner(m)] = new]
     /\ UNCHANGED mishaps
  \/ /\ Owner(m) # NoId /\ Done(m)
     /\ "commit" \notin mishaps /\ mishaps' = mishaps \union {"commit"}
     /\ UNCHANGED <<bucket, message>>
Store(m) == Doing(m, "store") /\ Put(m, m) /\ UNCHANGED <<mail, fetched, received, answered, gone>>
Clear(m) ==
  Doing(m, "clear") /\ Put(m, NoMail) /\ UNCHANGED <<mail, fetched, received, answered, gone>>

\* The server sends what is left of the answer, if somebody is there to get it.
ReturnMail(m) ==
  /\ Doing(m, "return") /\ Done(m)
  /\ IF m \in gone
     THEN UNCHANGED <<received, answered>>
     ELSE /\ received' = [received EXCEPT ![m] = fetched[m]]
          /\ answered' = answered \union {m}
  /\ UNCHANGED <<mail, fetched, gone, bucket, message, mishaps>>

NoFile(m) ==
  /\ Doing(m, "panic") /\ Panic(m)
  /\ UNCHANGED <<mail, fetched, received, answered, gone, bucket, message, mishaps>>

\* The process ends, by itself or by shutdownHandler, and is started again.
Exit ==
  /\ \/ "crash" \notin mishaps
     \/ \E m \in Mails : Doing(m, "exit")
  /\ mishaps' = mishaps \union {"crash"}
  /\ steps' = [m \in Mails |-> <<>>]
  /\ UNCHANGED <<mail, fetched, received, answered, gone, bucket, message>>

MailNext ==
  \/ Exit
  \/ \E m \in Mails :
       \/ AskMail(m) \/ Disconnect(m)
       \/ Fetch(m) \/ WriteReply(m) \/ Store(m) \/ Clear(m) \/ ReturnMail(m) \/ NoFile(m)

MailSpec == MailInit /\ [][MailNext]_mailVars
=============================================================================
