---------------------------- MODULE ModulesProofs ----------------------------
(***************************************************************************)
(* Two modules that share nothing: the menu's mailboxes, and presence.     *)
(*                                                                         *)
(* MailboxInv holds for any requests of any users, of whom some take       *)
(* turns, and any of whose connections may break.  The inductive           *)
(* invariant, MailInv, follows a message from the handler that stores it   *)
(* to the check that fetches it, and on to its device.                     *)
(*                                                                         *)
(* PresenceInv holds for any number of browsers and clients, whatever they *)
(* ask for.  The inductive invariant says who may touch a room: only the   *)
(* holder of room_lock has a reference, it is to the room of his own id,   *)
(* and two ids never have the same room, so the map that MakeRoom empties  *)
(* is nobody's.                                                            *)
(***************************************************************************)
EXTENDS MailboxInduction, PresenceProperties, FiniteSetTheorems, TLAPS

-----------------------------------------------------------------------------
(* The mailboxes.                                                          *)

\* What is left of a handler before and after a step of it.
Left == {ToFetch, ToReply, ToClear, ToReturn, ToLook, ToShow, ToStore, <<"panic">>, <<"exit">>}

LEMMA LeftHeads ==
  /\ Head(ToFetch) = "fetch" /\ Head(ToReply) = "reply" /\ Head(ToClear) = "clear"
  /\ Head(ToReturn) = "return" /\ Head(ToLook) = "fetch" /\ Head(ToShow) = "reply"
  /\ Head(ToStore) = "store" /\ Head(<<"panic">>) = "panic" /\ Head(<<"exit">>) = "exit"
  BY DEF ToFetch, ToReply, ToClear, ToReturn, ToLook, ToShow, ToStore

LEMMA LeftTails ==
  /\ Tail(ToFetch) = ToReply /\ Tail(ToReply) = ToClear /\ Tail(ToClear) = ToReturn
  /\ Tail(ToLook) = ToShow /\ Tail(ToShow) = ToReturn /\ Tail(ToStore) = ToReturn
  /\ Tail(ToReturn) = <<>> /\ Tail(<<"panic">>) = <<>> /\ Tail(<<"exit">>) = <<>>
  BY DEF ToFetch, ToReply, ToClear, ToReturn, ToLook, ToShow, ToStore

LEMMA LeftSome == \A s \in Left : s # <<>>
  BY DEF Left, ToFetch, ToReply, ToClear, ToReturn, ToLook, ToShow, ToStore

LEMMA LeftDiffer ==
  /\ ToFetch # ToLook /\ ToReply # ToShow
  /\ ToReturn # ToFetch /\ ToReturn # ToReply /\ ToReturn # ToClear /\ ToReturn # ToLook
  /\ ToReturn # ToShow /\ ToReturn # ToStore
  /\ ToClear # ToFetch /\ ToClear # ToReply /\ ToClear # ToLook /\ ToClear # ToShow
  /\ ToReply # ToFetch /\ ToReply # ToLook /\ ToShow # ToFetch /\ ToShow # ToLook
<1>1. ToFetch # ToLook /\ ToReply # ToShow
  BY DEF ToFetch, ToReply, ToLook, ToShow
<1> QED BY <1>1, LeftHeads

\* Which handlers come to a step, and what is left of them then.
LEMMA DoingIs ==
  ASSUME Handling, NEW m \in Mails, NEW s, Doing(m, s)
  PROVE  /\ m \in Asked /\ steps[m] \in Rests(mail[m].op)
         /\ steps[m] # <<>> /\ Head(steps[m]) = s
  BY DEF Handling, Doing, Asked

LEMMA RestsAre ==
  ASSUME NEW op \in MailOps, NEW t \in Rests(op), t # <<>>
  PROVE  /\ t \in Left /\ Tail(t) \in Rests(op)
         /\ Head(t) = "fetch" => (op = "check" /\ t = ToFetch) \/ (op = "image" /\ t = ToLook)
         /\ Head(t) = "reply" => (op = "check" /\ t = ToReply) \/ (op = "image" /\ t = ToShow)
         /\ Head(t) = "clear" => op = "check" /\ t = ToClear
         /\ Head(t) = "store" => op \in {"send", "upload"} /\ t = ToStore
         /\ Head(t) = "return" => t = ToReturn
         /\ Head(t) = "panic" => op = "noFile"
<1> USE LeftHeads, LeftTails DEF Rests, Left
<1>1. CASE op = "check"
  BY <1>1
<1>2. CASE op = "image"
  BY <1>2
<1>3. CASE op \in {"send", "upload"}
  BY <1>3
<1>4. CASE op = "noFile"
  BY <1>4
<1>5. CASE op = "shutdown"
  BY <1>5
<1> QED BY <1>1, <1>2, <1>3, <1>4, <1>5 DEF MailOps

-----------------------------------------------------------------------------
(* What follows from MailInv, and what starts it.                          *)

LEMMA MailInvImplies == MailInv => MailboxInv
<1> SUFFICES ASSUME MailInv PROVE MailboxInv
  OBVIOUS
<1>1. MailTypeOK
  <2>1. \A m \in Mails : steps[m] # <<>> => mail[m] # NoMail
    BY DEF MailInv, Handling
  <2>2. gone \subseteq Mails
    BY DEF MailInv, MailTyped, Asked
  <2> QED BY <2>1, <2>2 DEF MailInv, MailTyped, MailTypeOK
<1>2. OwnMailOnly
  <2> SUFFICES ASSUME NEW m \in Mails, received[m] # NoMail
               PROVE  Owner(received[m]) = Owner(m)
    BY DEF OwnMailOnly
  <2> QED BY DEF MailInv, Carried, Stored
<1>3. NeverTwice
  <2> SUFFICES ASSUME NEW u \in TakesTurns, NEW m \in Checks(u), NEW n \in Checks(u), m # n,
                      received[m] # NoMail, received[m] = received[n]
               PROVE  "commit" \in mishaps
                      \/ (received[m] \in Large /\ (CutShort(m) \/ CutShort(n)))
    BY DEF NeverTwice
  <2>1. received[m] \in Mails
    BY DEF MailInv, MailTyped, Checks
  <2> QED BY <2>1 DEF MailInv, Once, Has
<1>4. NeverLost
  <2> SUFFICES ASSUME NEW x \in answered \ Short, mail[x].op \in Stores,
                      Owner(x) \in TakesTurns, "commit" \notin mishaps
               PROVE  \/ message[Owner(x)] = x
                      \/ Superseded(x) \/ Overtook(x)
                      \/ \E m \in Checks(Owner(x)) : Takes(m, x)
    BY DEF NeverLost
  <2>1. x \in Asked \ Short /\ Promised(x)
    BY DEF MailInv, MailTyped, Handling, Asked, Promised
  <2>2. ASSUME NEW m \in Checks(Owner(x)), fetched[m] = x PROVE Takes(m, x)
    <3>1. /\ m \in Asked /\ m \in Mails /\ mail[m].op = "check"
          /\ Owner(m) # NoId /\ fetched[m] # NoMail
      BY <2>1, <2>2, MailAssumption DEF Checks, Asked
    <3>2. steps[m] = <<>> => m \in answered \/ CutShort(m)
      BY <3>1 DEF MailInv, Ended
    <3>3. m \in answered => received[m] = fetched[m]
      BY <3>1 DEF MailInv, Handling
    <3> QED BY <2>2, <3>2, <3>3 DEF Takes
  <2> QED BY <2>1, <2>2 DEF MailInv, Kept
<1> QED BY <1>1, <1>2, <1>3, <1>4 DEF MailboxInv

LEMMA MailInitEstablishes == MailInit => MailInv
<1> SUFFICES ASSUME MailInit PROVE MailInv
  OBVIOUS
<1> USE DEF MailInit
<1>1. Asked = {}
  BY DEF Asked
<1>2. MailTyped
  BY MailAssumption DEF MailTyped
<1>3. \A m \in Mails :
        steps[m] = <<>> /\ mail[m] = NoMail /\ fetched[m] = NoMail /\ received[m] = NoMail
  OBVIOUS
<1>4. Handling
  BY <1>3 DEF Handling
<1>5. Counted /\ InTurns
  BY <1>1, FS_EmptySet DEF Counted, InTurns
<1>6. Carried
  <2>1. \A m \in Mails : steps[m] \notin {ToFetch, ToLook, ToReply, ToShow, ToClear}
    BY <1>3, LeftSome DEF Left
  <2> QED BY <1>3, <2>1 DEF Carried
<1>7. Cleared /\ Ended /\ Reading /\ Kept
  BY <1>1 DEF Cleared, Ended, Reading, Kept
<1>8. Once
  BY <1>3 DEF Once, Checks
<1> QED BY <1>2, <1>4, <1>5, <1>6, <1>7, <1>8 DEF MailInv

-----------------------------------------------------------------------------
(* Steps of a handler.                                                     *)

\* Of a user who takes turns one device at a time waits for a handler.
LEMMA OneAtATime ==
  ASSUME MailTyped, InTurns, NEW m \in Asked, NEW n \in Asked, Owner(m) = Owner(n),
         Owner(m) \in TakesTurns, steps[m] # <<>>, steps[n] # <<>>,
         m \notin gone, n \notin gone
  PROVE  m = n
<1> SUFFICES ASSUME m # n PROVE FALSE
  OBVIOUS
<1>1. mail[n].turn < mail[m].turn /\ mail[m].turn < mail[n].turn
  BY DEF InTurns
<1>2. mail[n].turn \in Nat /\ mail[m].turn \in Nat
  BY DEF MailTyped, Asked
<1> QED BY <1>1, <1>2

\* Two requests have their turns one after the other.
LEMMA TurnsDiffer ==
  ASSUME MailTyped, Counted, NEW m \in Asked, NEW n \in Asked, m # n
  PROVE  /\ mail[m].turn \in Nat /\ mail[n].turn \in Nat
         /\ mail[m].turn < mail[n].turn \/ mail[n].turn < mail[m].turn
<1>1. mail[m].turn \in Nat /\ mail[n].turn \in Nat
  BY DEF MailTyped, Asked
<1>2. mail[m].turn # mail[n].turn
  BY DEF Counted
<1> QED BY <1>1, <1>2

\* The handler of m goes on, or ends; the mail of the requests stays.
Advances(m, t) ==
  /\ mail' = mail /\ gone' = gone /\ steps' = [steps EXCEPT ![m] = t]
  /\ \A q \in Mails \ {m} : fetched'[q] = fetched[q] /\ received'[q] = received[q]
  /\ answered' = answered \/ (/\ answered' = answered \union {m} /\ t = <<>> /\ m \notin gone
                              /\ received'[m] = fetched'[m])

LEMMA AdvanceKeeps ==
  ASSUME MailInv, NEW m \in Asked, steps[m] # <<>>,
         NEW t, t \in Rests(mail[m].op), Advances(m, t)
  PROVE  /\ Handling' /\ Counted' /\ InTurns' /\ Asked' = Asked
         /\ m \in Mails /\ steps'[m] = t /\ \A q \in Mails : q # m => steps'[q] = steps[q]
         /\ \A q \in Mails : steps'[q] # <<>> => steps[q] # <<>>
<1>1. Asked' = Asked /\ m \in Mails /\ mail[m] # NoMail /\ m \notin answered
  BY DEF Asked, Advances, MailInv, Handling
<1>2. steps'[m] = t /\ \A q \in Mails : q # m => steps'[q] = steps[q]
  BY <1>1 DEF MailInv, MailTyped, Advances
<1>3. \A q \in Mails : steps'[q] # <<>> => steps[q] # <<>>
  BY <1>2
<1>4. Handling'
  <2> SUFFICES ASSUME NEW q \in Mails
               PROVE  /\ mail'[q] = NoMail =>
                           /\ steps'[q] = <<>> /\ fetched'[q] = NoMail /\ received'[q] = NoMail
                           /\ q \notin answered'
                      /\ mail'[q] # NoMail => steps'[q] \in Rests(mail'[q].op)
                      /\ q \in answered' =>
                           steps'[q] = <<>> /\ q \notin gone' /\ received'[q] = fetched'[q]
    BY DEF Handling
  <2>1. CASE q = m
    BY <1>1, <1>2, <2>1 DEF Advances
  <2>2. CASE q # m
    BY <1>1, <1>2, <2>2 DEF MailInv, Handling, Advances
  <2> QED BY <2>1, <2>2
<1>5. Counted'
  BY <1>1 DEF MailInv, Counted, Advances
<1>6. InTurns'
  BY <1>1, <1>3 DEF MailInv, InTurns, Advances, Owner, Asked
<1> QED BY <1>1, <1>2, <1>3, <1>4, <1>5, <1>6

HasAfter(m, x) == received'[m] = x \/ (steps'[m] # <<>> /\ m \notin gone' /\ fetched'[m] = x)
\* Nothing happens to the requests and their faults but what may be added.
Grows ==
  mail' = mail /\ mishaps \subseteq mishaps' /\ gone \subseteq gone' /\ answered \subseteq answered'

\* Nobody is given a message by a step that gives none to his handler.
LEMMA OnceStays ==
  ASSUME Once, Grows, \A m \in Mails, x \in Mails : HasAfter(m, x) => Has(m, x)
  PROVE  Once'
<1> SUFFICES ASSUME NEW u \in TakesTurns, NEW p \in Checks(u)', NEW q \in Checks(u)',
                    NEW x \in Mails, p # q, HasAfter(p, x), HasAfter(q, x)
             PROVE  "commit" \in mishaps' \/ (x \in Large /\ (CutShort(p)' \/ CutShort(q)'))
  BY DEF Once, HasAfter, Has
<1>1. p \in Checks(u) /\ q \in Checks(u) /\ p \in Mails /\ q \in Mails
  BY DEF Checks, Owner, Grows
<1>2. Has(p, x) /\ Has(q, x)
  BY <1>1
<1>3. "commit" \in mishaps \/ (x \in Large /\ (CutShort(p) \/ CutShort(q)))
  BY <1>1, <1>2 DEF Once
<1> QED BY <1>3 DEF CutShort, Grows

\* A check ends answered, or cut short, or without a message.
LEMMA EndedStays ==
  ASSUME Ended, Asked' = Asked, Grows,
         \A m \in Asked : mail[m].op = "check" /\ steps'[m] = <<>> =>
           \/ steps[m] = <<>> /\ fetched'[m] = fetched[m]
           \/ m \in answered' \/ CutShort(m)' \/ Owner(m) = NoId \/ fetched'[m] = NoMail
  PROVE  Ended'
<1> SUFFICES ASSUME NEW m \in Asked, mail[m].op = "check", Owner(m) # NoId,
                    fetched'[m] # NoMail, steps'[m] = <<>>
             PROVE  m \in answered' \/ CutShort(m)'
  BY DEF Ended, Owner, Grows
<1> QED BY DEF Ended, CutShort, Grows

\* The other messages of the checks, by a step that leaves the mailboxes.
LEMMA ReadingStays ==
  ASSUME Reading, Asked' = Asked, Grows, message' = message,
         \A m \in Asked : mail[m].op = "check" /\ steps'[m] \in {ToReply, ToClear} =>
           steps[m] \in {ToReply, ToClear} /\ fetched'[m] = fetched[m]
  PROVE  Reading'
<1> SUFFICES ASSUME NEW m \in Asked, NEW x \in Asked \ (Short \union gone),
                    mail[m].op = "check", steps'[m] \in {ToReply, ToClear},
                    Owner(m) = Owner(x), Owner(x) \in TakesTurns,
                    mail[x].turn < mail[m].turn, message[Owner(x)] = x
             PROVE  fetched'[m] = x
  BY DEF Reading, Owner, Grows
<1> QED BY DEF Reading

\* What is asked for stays asked for, whatever else happens.
LEMMA ExcusesStay ==
  ASSUME Grows, NEW x
  PROVE  /\ Owner(x)' = Owner(x) /\ Checks(Owner(x))' = Checks(Owner(x))
         /\ Superseded(x) => Superseded(x)'
         /\ Overtook(x) => Overtook(x)'
  BY DEF Grows, Owner, Checks, Superseded, Overtook

\* Nothing is lost by a step that leaves the mailboxes and takes nothing from a handler.
LEMMA KeptStays ==
  ASSUME Kept, Grows, Asked' = Asked, message' = message,
         \A m \in Mails : fetched'[m] = fetched[m] \/ fetched[m] = NoMail,
         \A x \in Asked : mail[x].op \in Stores => (Promised(x)' => Promised(x))
  PROVE  Kept'
<1> SUFFICES ASSUME NEW x \in Asked \ Short, mail[x].op \in Stores,
                    Owner(x) \in TakesTurns, Promised(x)', "commit" \notin mishaps'
             PROVE  \/ message[Owner(x)] = x
                    \/ Superseded(x)' \/ Overtook(x)'
                    \/ \E m \in Checks(Owner(x)) : fetched'[m] = x
  <2>1. \A x \in Asked : Owner(x)' = Owner(x) /\ Checks(Owner(x))' = Checks(Owner(x))
    BY ExcusesStay
  <2>2. \A x \in Asked : mail'[x] = mail[x]
    BY DEF Grows
  <2> QED BY <2>1, <2>2 DEF Kept
<1>1. x \in Mails /\ x # NoMail /\ \A m \in Checks(Owner(x)) : m \in Mails
  BY MailAssumption DEF Asked, Checks
<1>2. \/ message[Owner(x)] = x
      \/ Superseded(x) \/ Overtook(x)
      \/ \E m \in Checks(Owner(x)) : fetched[m] = x
  BY DEF Kept, Grows
<1> QED BY <1>1, <1>2, ExcusesStay

\* A handler reads its user's message.
LEMMA FetchKeeps ==
  ASSUME MailInv, NEW m \in Mails, Fetch(m), bucket
  PROVE  MailInv'
<1>1. m \in Asked /\ steps[m] \in Rests(mail[m].op) /\ steps[m] # <<>> /\ Head(steps[m]) = "fetch"
  BY DoingIs DEF MailInv, Fetch
<1>2. mail[m].op \in MailOps /\ Owner(m) \in MailUsers
  BY <1>1 DEF MailInv, MailTyped, Asked, Owner
<1>3. /\ steps[m] \in {ToFetch, ToLook} /\ Tail(steps[m]) \in Rests(mail[m].op)
      /\ Tail(steps[m]) \in {ToReply, ToShow} /\ Tail(steps[m]) # <<>>
      /\ mail[m].op \notin {"send", "upload"}
  BY <1>1, <1>2, RestsAre, LeftTails, LeftSome DEF Left
<1> DEFINE t == Tail(steps[m])
           got == IF message[Owner(m)] \in Short THEN NoMail ELSE message[Owner(m)]
<1>4. /\ fetched' = [fetched EXCEPT ![m] = got] /\ mail' = mail /\ steps' = [steps EXCEPT ![m] = t]
      /\ UNCHANGED <<mail, received, answered, gone, bucket, message, mishaps>>
  BY DEF Fetch, Done
<1>5. Advances(m, t) /\ Grows
  BY <1>4 DEF Advances, Grows, MailInv, MailTyped
<1>6. /\ Handling' /\ Counted' /\ InTurns' /\ Asked' = Asked
      /\ steps'[m] = t /\ \A q \in Mails : q # m => steps'[q] = steps[q]
      /\ \A q \in Mails : steps'[q] # <<>> => steps[q] # <<>>
  BY <1>1, <1>3, <1>5, AdvanceKeeps
<1> HIDE DEF t
<1>7. fetched[m] = NoMail /\ received[m] = NoMail /\ got \in Mails \union {NoMail}
      /\ (got # NoMail => Stored(got, Owner(m)) /\ got = message[Owner(m)] /\ got \notin Short)
      /\ (message[Owner(m)] \notin Short => got = message[Owner(m)])
  BY <1>2, <1>3 DEF MailInv, Carried, MailTyped
<1> HIDE DEF got
<1>8. fetched'[m] = got /\ \A q \in Mails : q # m => fetched'[q] = fetched[q]
  BY <1>4, <1>7 DEF MailInv, MailTyped
<1>9. MailTyped'
  BY <1>4, <1>6, <1>7 DEF MailInv, MailTyped
<1>10. Carried'
  <2>1. \A x \in Asked : steps[x] # ToStore => steps'[x] # ToStore
    BY <1>3, <1>6, LeftHeads DEF Asked, t
  <2>3. t \in {ToReply, ToShow}
    BY <1>3 DEF t
  <2>4. t \notin {ToFetch, ToLook, ToClear}
    BY <2>3, LeftDiffer
  <2>5. (\A u \in MailUsers : message[u] # NoMail => Stored(message[u], u))'
    BY <1>4, <1>6, <2>1 DEF MailInv, Carried, Stored, Owner
  <2>6. (\A q \in Mails : fetched[q] # NoMail => Stored(fetched[q], Owner(q)))'
    BY <1>4, <1>6, <1>7, <1>8, <2>1 DEF MailInv, Carried, Stored, Owner
  <2> QED BY <1>4, <1>6, <1>7, <1>8, <2>4, <2>5, <2>6 DEF MailInv, Carried
<1>11. Cleared' /\ Ended'
  <2>1. ASSUME NEW q \in Asked, q # m PROVE steps'[q] = steps[q] /\ fetched'[q] = fetched[q]
    BY <1>6, <1>8, <2>1 DEF Asked
  <2>2. t \notin {ToReturn, <<>>}
    BY <1>3, LeftDiffer DEF t
  <2>3. Cleared'
    BY <1>4, <1>6, <1>8, <2>1, <2>2 DEF MailInv, Cleared, Owner
  <2>4. Ended'
    BY <1>5, <1>6, <2>1, <2>2, EndedStays DEF MailInv
  <2> QED BY <2>3, <2>4
<1>12. Once'
  <2> SUFFICES ASSUME NEW u \in TakesTurns, NEW p \in Checks(u), NEW q \in Checks(u),
                      NEW x \in Mails, p # q, HasAfter(p, x), HasAfter(q, x)
               PROVE  "commit" \in mishaps \/ (x \in Large /\ (CutShort(p) \/ CutShort(q)))
    BY <1>4 DEF Once, HasAfter, Has, Checks, Owner, CutShort
  <2>0. x # NoMail
    BY MailAssumption
  <2>1. ASSUME NEW n \in Checks(u), n # m, Owner(m) = u, x = got, m \notin gone, Has(n, x)
        PROVE  "commit" \in mishaps \/ (x \in Large /\ CutShort(n))
    <3>1. n \in Asked /\ n \in Mails /\ Owner(n) = u /\ mail[n].op = "check"
      BY DEF Checks, Asked
    <3>2. steps[n] = <<>> \/ n \in gone
      BY <1>1, <2>1, <3>1, OneAtATime DEF MailInv
    <3>3. received[n] = x /\ fetched[n] = x /\ message[u] = x
      BY <1>7, <2>0, <2>1, <3>1, <3>2 DEF Has, MailInv, Carried
    <3>4. steps[n] \in {<<>>, ToFetch, ToReply, ToClear, ToReturn}
      BY <3>1 DEF MailInv, Handling, Asked, Rests
    <3>5. CASE steps[n] \in {<<>>, ToReturn}
      BY <2>0, <3>1, <3>3, <3>5 DEF MailInv, Cleared, CutShort
    <3>6. CASE steps[n] = ToClear
      BY <2>0, <3>1, <3>2, <3>3, <3>6, LeftSome DEF Left, MailInv, Carried, CutShort
    <3>7. CASE steps[n] \in {ToFetch, ToReply}
      BY <2>0, <3>1, <3>3, <3>7 DEF MailInv, Carried
    <3> QED BY <3>4, <3>5, <3>6, <3>7
  <2>2. p \in Mails /\ q \in Mails /\ Owner(p) = u /\ Owner(q) = u
    BY DEF Checks
  <2>3. \A n \in Mails : n # m /\ HasAfter(n, x) => Has(n, x)
    BY <1>4, <1>6, <1>8 DEF Has, HasAfter
  <2>4. HasAfter(m, x) => x = got /\ m \notin gone
    BY <1>4, <1>7, <1>8, <2>0 DEF HasAfter
  <2>5. CASE p = m
    BY <2>1, <2>2, <2>3, <2>4, <2>5
  <2>6. CASE q = m
    BY <2>1, <2>2, <2>3, <2>4, <2>6
  <2>7. CASE p # m /\ q # m
    BY <2>2, <2>3, <2>7 DEF MailInv, Once
  <2> QED BY <2>5, <2>6, <2>7
<1>13. Reading'
  <2> SUFFICES ASSUME NEW p \in Asked, NEW x \in Asked \ (Short \union gone),
                      mail[p].op = "check", steps'[p] \in {ToReply, ToClear},
                      Owner(p) = Owner(x), Owner(x) \in TakesTurns,
                      mail[x].turn < mail[p].turn, message[Owner(x)] = x
               PROVE  fetched'[p] = x
    BY <1>4, <1>6 DEF Reading, Owner
  <2>1. CASE p = m
    BY <1>7, <1>8, <2>1
  <2>2. CASE p # m
    BY <1>6, <1>8, <2>2 DEF MailInv, Reading, Asked
  <2> QED BY <2>1, <2>2
<1>14. Kept'
  <2>1. \A q \in Mails : fetched'[q] = fetched[q] \/ fetched[q] = NoMail
    BY <1>7, <1>8
  <2>2. \A x \in Asked : mail[x].op \in Stores => (Promised(x)' => Promised(x))
    BY <1>3, <1>4, <1>6 DEF Asked, Promised, Stores
  <2> QED BY <1>4, <1>5, <1>6, <2>1, <2>2, KeptStays DEF MailInv
<1> QED BY <1>6, <1>9, <1>10, <1>11, <1>12, <1>13, <1>14 DEF MailInv

\* A handler panics, over no message or over a user without an identity.
LEMMA PanicKeeps ==
  ASSUME MailInv, NEW m \in Asked, steps[m] # <<>>, Panic(m),
         UNCHANGED <<mail, fetched, received, answered, gone, bucket, message, mishaps>>,
         fetched[m] = NoMail \/ mail[m].op # "check" \/ Owner(m) = NoId
  PROVE  MailInv'
<1>1. <<>> \in Rests(mail[m].op) /\ Advances(m, <<>>) /\ Grows
  <2>1. mail[m].op \in MailOps
    BY DEF MailInv, MailTyped, Asked
  <2> QED BY <2>1 DEF Rests, MailOps, Advances, Panic, Grows
<1>2. /\ Handling' /\ Counted' /\ InTurns' /\ Asked' = Asked /\ m \in Mails
      /\ steps'[m] = <<>> /\ \A q \in Mails : q # m => steps'[q] = steps[q]
      /\ \A q \in Mails : steps'[q] # <<>> => steps[q] # <<>>
  BY <1>1, AdvanceKeeps
<1>3. MailTyped'
  BY <1>2 DEF MailInv, MailTyped, Panic
<1>4. <<>> \notin {ToFetch, ToReply, ToClear, ToReturn, ToLook, ToShow, ToStore}
  BY LeftSome DEF Left
<1>5. Carried'
  <2>1. \A x \in Asked : steps[x] # ToStore => steps'[x] # ToStore
    BY <1>2, <1>4 DEF Asked
  <2>2. (\A u \in MailUsers : message[u] # NoMail => Stored(message[u], u))'
    BY <1>2, <2>1 DEF MailInv, Carried, Stored, Owner
  <2>3. (\A q \in Mails : fetched[q] # NoMail => Stored(fetched[q], Owner(q)))'
    BY <1>2, <2>1 DEF MailInv, Carried, Stored, Owner
  <2> QED BY <1>2, <1>4, <2>2, <2>3 DEF MailInv, Carried
<1>6. \A q \in Asked : q # m => steps'[q] = steps[q]
  BY <1>2 DEF Asked
<1>7. Cleared'
  <2>1. Owner(m) = NoId => message[Owner(m)] = NoMail
    BY DEF MailInv, MailTyped
  <2> QED BY <1>2, <1>4, <1>6, <2>1 DEF MailInv, Cleared, Owner
<1>8. Ended'
  BY <1>1, <1>2, <1>6, EndedStays DEF MailInv
<1>9. Once'
  <2>1. \A q \in Mails, x \in Mails : HasAfter(q, x) => Has(q, x)
    BY <1>2 DEF Has, HasAfter
  <2> QED BY <1>1, <2>1, OnceStays DEF MailInv
<1>10. Reading'
  BY <1>1, <1>2, <1>4, <1>6, ReadingStays DEF MailInv
<1>11. Kept'
  <2>1. \A x \in Asked : mail[x].op \in Stores => (Promised(x)' => Promised(x))
    BY <1>2, <1>4, <1>6 DEF Promised
  <2> QED BY <1>1, <1>2, <2>1, KeptStays DEF MailInv
<1> QED BY <1>2, <1>3, <1>5, <1>7, <1>8, <1>9, <1>10, <1>11 DEF MailInv

\* A large message goes on to the device before it is cleared, if the device is there.
LEMMA WriteReplyKeeps ==
  ASSUME MailInv, NEW m \in Mails, WriteReply(m)
  PROVE  MailInv'
<1>1. m \in Asked /\ steps[m] \in Rests(mail[m].op) /\ steps[m] # <<>> /\ Head(steps[m]) = "reply"
  BY DoingIs DEF MailInv, WriteReply
<1>2. mail[m].op \in MailOps
  BY <1>1 DEF MailInv, MailTyped, Asked
<1> DEFINE t == Tail(steps[m])
           got == IF fetched[m] \in Large /\ m \notin gone THEN fetched[m] ELSE received[m]
<1>3. /\ t \in Rests(mail[m].op) /\ mail[m].op \notin {"send", "upload"}
      /\ \/ mail[m].op = "check" /\ steps[m] = ToReply /\ t = ToClear
         \/ mail[m].op = "image" /\ steps[m] = ToShow /\ t = ToReturn
  BY <1>1, <1>2, RestsAre, LeftTails
<1>4. /\ received' = [received EXCEPT ![m] = got] /\ steps' = [steps EXCEPT ![m] = t]
      /\ UNCHANGED <<mail, fetched, answered, gone, bucket, message, mishaps>>
  BY DEF WriteReply, Done
<1>5. Advances(m, t) /\ Grows
  BY <1>4 DEF Advances, Grows, MailInv, MailTyped
<1>6. /\ Handling' /\ Counted' /\ InTurns' /\ Asked' = Asked
      /\ steps'[m] = t /\ \A q \in Mails : q # m => steps'[q] = steps[q]
      /\ \A q \in Mails : steps'[q] # <<>> => steps[q] # <<>>
  BY <1>1, <1>3, <1>5, AdvanceKeeps
<1> HIDE DEF t
<1>7. /\ received[m] = NoMail /\ got \in Mails \union {NoMail}
      /\ got = IF fetched[m] \in Large /\ m \notin gone THEN fetched[m] ELSE NoMail
  BY <1>3 DEF MailInv, Carried, MailTyped
<1> HIDE DEF got
<1>8. received'[m] = got /\ \A q \in Mails : q # m => received'[q] = received[q]
  BY <1>4, <1>7 DEF MailInv, MailTyped
<1>9. MailTyped'
  BY <1>4, <1>6, <1>7 DEF MailInv, MailTyped
<1>10. t \in Left /\ t # <<>> /\ t \notin {ToFetch, ToLook, ToReply, ToShow, ToStore}
  BY <1>3, LeftSome, LeftDiffer, LeftHeads DEF Left
<1>11. Carried'
  <2>1. \A x \in Asked : steps[x] # ToStore => steps'[x] # ToStore
    BY <1>6, <1>10 DEF Asked
  <2>2. (\A u \in MailUsers : message[u] # NoMail => Stored(message[u], u))'
    BY <1>4, <1>6, <2>1 DEF MailInv, Carried, Stored, Owner
  <2>3. (\A q \in Mails : fetched[q] # NoMail => Stored(fetched[q], Owner(q)))'
    BY <1>4, <1>6, <2>1 DEF MailInv, Carried, Stored, Owner
  <2> QED BY <1>4, <1>6, <1>7, <1>8, <1>10, <2>2, <2>3 DEF MailInv, Carried
<1>12. \A q \in Asked : q # m => steps'[q] = steps[q] /\ received'[q] = received[q]
  BY <1>6, <1>8 DEF Asked
<1>13. /\ mail[m].op = "check" => t = ToClear /\ steps[m] = ToReply
       /\ ToClear # ToReturn /\ ToReturn # ToReply
  BY <1>3, LeftDiffer
<1>14. Cleared' /\ Ended'
  <2>1. Cleared'
    BY <1>4, <1>6, <1>7, <1>8, <1>10, <1>12, <1>13 DEF MailInv, Cleared, Owner
  <2>2. Ended'
    BY <1>4, <1>5, <1>6, <1>10, <1>12, EndedStays DEF MailInv
  <2> QED BY <2>1, <2>2
<1>15. Once'
  <2>1. \A q \in Mails, x \in Mails : HasAfter(q, x) => Has(q, x)
    BY <1>1, <1>4, <1>6, <1>7, <1>8, MailAssumption DEF Has, HasAfter
  <2> QED BY <1>5, <2>1, OnceStays DEF MailInv
<1>16. Reading'
  <2>1. \A q \in Asked : mail[q].op = "check" /\ steps'[q] \in {ToReply, ToClear} =>
          steps[q] \in {ToReply, ToClear} /\ fetched'[q] = fetched[q]
    BY <1>4, <1>12, <1>13
  <2> QED BY <1>4, <1>5, <1>6, <2>1, ReadingStays DEF MailInv
<1>17. Kept'
  <2>1. \A x \in Asked : mail[x].op \in Stores => (Promised(x)' => Promised(x))
    BY <1>3, <1>4, <1>12 DEF Promised, Stores
  <2> QED BY <1>4, <1>5, <1>6, <2>1, KeptStays DEF MailInv
<1> QED BY <1>6, <1>9, <1>11, <1>14, <1>15, <1>16, <1>17 DEF MailInv

\* The rest of the answer goes to the device when the handler returns, if it is there.
LEMMA ReturnKeeps ==
  ASSUME MailInv, NEW m \in Mails, ReturnMail(m)
  PROVE  MailInv'
<1>1. m \in Asked /\ steps[m] \in Rests(mail[m].op) /\ steps[m] # <<>> /\ Head(steps[m]) = "return"
  BY DoingIs DEF MailInv, ReturnMail
<1>2. mail[m].op \in MailOps
  BY <1>1 DEF MailInv, MailTyped, Asked
<1>3. steps[m] = ToReturn /\ Tail(steps[m]) = <<>> /\ <<>> \in Rests(mail[m].op)
  BY <1>1, <1>2, RestsAre, LeftTails
<1>4. /\ steps' = [steps EXCEPT ![m] = <<>>]
      /\ UNCHANGED <<mail, fetched, gone, bucket, message, mishaps>>
  BY <1>3 DEF ReturnMail, Done
<1>5. \/ m \in gone /\ UNCHANGED <<received, answered>>
      \/ /\ m \notin gone /\ received' = [received EXCEPT ![m] = fetched[m]]
         /\ answered' = answered \union {m}
  BY DEF ReturnMail
<1>6. /\ received'[m] = IF m \in gone THEN received[m] ELSE fetched[m]
      /\ \A q \in Mails : q # m => received'[q] = received[q]
      /\ received' \in [Mails -> Mails \union {NoMail}]
      /\ m \in gone \/ m \in answered'
      /\ \A q \in Mails : q # m => (q \in answered' <=> q \in answered)
  BY <1>5 DEF MailInv, MailTyped
<1>7. Advances(m, <<>>) /\ Grows
  BY <1>4, <1>5, <1>6 DEF Advances, Grows
<1>8. /\ Handling' /\ Counted' /\ InTurns' /\ Asked' = Asked
      /\ steps'[m] = <<>> /\ \A q \in Mails : q # m => steps'[q] = steps[q]
      /\ \A q \in Mails : steps'[q] # <<>> => steps[q] # <<>>
  BY <1>1, <1>3, <1>7, AdvanceKeeps
<1>9. MailTyped'
  BY <1>4, <1>5, <1>6, <1>8 DEF MailInv, MailTyped
<1>10. <<>> \notin {ToFetch, ToReply, ToClear, ToReturn, ToLook, ToShow, ToStore}
  BY LeftSome DEF Left
<1>11. Carried'
  <2>1. \A x \in Asked : steps[x] # ToStore => steps'[x] # ToStore
    BY <1>8, <1>10 DEF Asked
  <2>2. (\A u \in MailUsers : message[u] # NoMail => Stored(message[u], u))'
    BY <1>4, <1>8, <2>1 DEF MailInv, Carried, Stored, Owner
  <2>3. (\A q \in Mails : fetched[q] # NoMail => Stored(fetched[q], Owner(q)))'
    BY <1>4, <1>8, <2>1 DEF MailInv, Carried, Stored, Owner
  <2> QED BY <1>4, <1>6, <1>8, <1>10, <2>2, <2>3 DEF MailInv, Carried
<1>12. \A q \in Asked : q # m => steps'[q] = steps[q] /\ received'[q] = received[q]
  BY <1>6, <1>8 DEF Asked
<1>13. Cleared'
  <2>1. steps[m] # <<>>
    BY <1>1
  <2> QED BY <1>3, <1>4, <1>6, <1>8, <1>10, <1>12, <2>1 DEF MailInv, Cleared, Owner
<1>14. Ended'
  <2>1. m \in answered' \/ CutShort(m)'
    BY <1>4, <1>6 DEF CutShort
  <2> QED BY <1>4, <1>7, <1>8, <1>12, <2>1, EndedStays DEF MailInv
<1>15. Once'
  <2>1. \A q \in Mails, x \in Mails : HasAfter(q, x) => Has(q, x)
    BY <1>1, <1>4, <1>6, <1>8 DEF Has, HasAfter
  <2> QED BY <1>7, <2>1, OnceStays DEF MailInv
<1>16. Reading'
  BY <1>4, <1>7, <1>8, <1>10, <1>12, ReadingStays DEF MailInv
<1>17. Kept'
  <2>1. \A x \in Asked : mail[x].op \in Stores => (Promised(x)' => Promised(x))
    <3>1. ASSUME NEW x \in Asked, x # m, Promised(x)' PROVE Promised(x)
      BY <1>4, <1>6, <1>12, <3>1 DEF Promised, Asked
    <3>2. m \in gone => m \notin answered
      BY DEF MailInv, Handling
    <3>3. Promised(m)' => Promised(m)
      BY <1>3, <1>4, <1>5, <1>8, <1>10, <3>2 DEF Promised
    <3> QED BY <3>1, <3>3
  <2> QED BY <1>4, <1>7, <1>8, <2>1, KeptStays DEF MailInv
<1> QED BY <1>8, <1>9, <1>11, <1>13, <1>14, <1>15, <1>16, <1>17 DEF MailInv

\* A handler that finds no bucket, no file, or no identity to keep a message for.
LEMMA FetchPanicKeeps ==
  ASSUME MailInv, NEW m \in Mails, Fetch(m), ~bucket
  PROVE  MailInv'
<1>1. m \in Asked /\ steps[m] \in Rests(mail[m].op) /\ steps[m] # <<>> /\ Head(steps[m]) = "fetch"
  BY DoingIs DEF MailInv, Fetch
<1>2. mail[m].op \in MailOps
  BY <1>1 DEF MailInv, MailTyped, Asked
<1>3. steps[m] \in {ToFetch, ToLook}
  BY <1>1, <1>2, RestsAre, LeftHeads
<1>4. fetched[m] = NoMail
  BY <1>3 DEF MailInv, Carried
<1>5. Panic(m) /\ UNCHANGED <<mail, fetched, received, answered, gone, bucket, message, mishaps>>
  BY DEF Fetch
<1> QED BY <1>1, <1>4, <1>5, PanicKeeps

LEMMA NoFileKeeps ==
  ASSUME MailInv, NEW m \in Mails, NoFile(m)
  PROVE  MailInv'
<1>1. m \in Asked /\ steps[m] \in Rests(mail[m].op) /\ steps[m] # <<>> /\ Head(steps[m]) = "panic"
  BY DoingIs DEF MailInv, NoFile
<1>2. mail[m].op \in MailOps
  BY <1>1 DEF MailInv, MailTyped, Asked
<1>3. mail[m].op # "check"
  BY <1>1, <1>2, RestsAre, LeftHeads
<1>4. Panic(m) /\ UNCHANGED <<mail, fetched, received, answered, gone, bucket, message, mishaps>>
  BY DEF NoFile
<1> QED BY <1>1, <1>3, <1>4, PanicKeeps

LEMMA PutPanicKeeps ==
  ASSUME MailInv, NEW m \in Asked, steps[m] # <<>>, Owner(m) = NoId, Panic(m),
         UNCHANGED <<mail, fetched, received, answered, gone, bucket, message, mishaps>>
  PROVE  MailInv'
  BY PanicKeeps

-----------------------------------------------------------------------------
(* Requests come and break off, and the server dies.                       *)

LEMMA AskMailKeeps ==
  ASSUME MailInv, NEW m \in Mails, AskMail(m)
  PROVE  MailInv'
<1> DEFINE c == Cardinality(Asked)
<1>1. PICK a \in MayMail[m] :
        /\ a.user \in TakesTurns => \A n \in Mails \ gone : steps[n] # <<>> => Owner(n) # a.user
        /\ mail' = [mail EXCEPT ![m] = [user |-> a.user, op |-> a.op, turn |-> c]]
        /\ steps' = [steps EXCEPT ![m] = MailHandler(a.op)]
  BY DEF AskMail, Asked
<1>2. /\ mail[m] = NoMail
      /\ UNCHANGED <<fetched, received, answered, gone, bucket, message, mishaps>>
  BY DEF AskMail
<1>3. a.user \in MailUsers /\ a.op \in MailOps
  BY <1>1, MailAssumption
<1>4. IsFiniteSet(Asked) /\ c \in Nat
  BY FS_CardinalityType DEF MailInv, Counted
<1> HIDE DEF c
<1> DEFINE r == [user |-> a.user, op |-> a.op, turn |-> c]
           h == MailHandler(a.op)
<1>5. r \in [user : MailUsers, op : MailOps, turn : Nat]
  BY <1>3, <1>4
<1>6. r # NoMail /\ r.user = a.user /\ r.op = a.op /\ r.turn = c
  BY <1>5, MailAssumption
<1>7. h \in {ToFetch, ToLook, ToStore, <<"panic">>, <<"exit">>} /\ h \in Rests(a.op)
  BY <1>3 DEF MailHandler, MailOps, Rests, ToFetch, ToLook, ToStore
<1>8. h \in Left /\ h # <<>> /\ h \notin {ToReply, ToClear, ToReturn, ToShow}
  BY <1>7, LeftSome, LeftHeads, LeftDiffer DEF Left
<1> HIDE DEF r, h
<1>9. mail' = [mail EXCEPT ![m] = r] /\ steps' = [steps EXCEPT ![m] = h]
  BY <1>1 DEF r, h
<1>10. /\ mail'[m] = r /\ steps'[m] = h
       /\ \A q \in Mails : q # m => mail'[q] = mail[q] /\ steps'[q] = steps[q]
  BY <1>9 DEF MailInv, MailTyped
<1>11. Asked' = Asked \union {m} /\ m \notin Asked /\ Asked \subseteq Mails
  BY <1>2, <1>6, <1>10 DEF Asked
<1>12. \A q \in Asked : q \in Mails /\ q # m /\ mail'[q] = mail[q] /\ steps'[q] = steps[q]
  BY <1>10, <1>11
<1>13. /\ steps[m] = <<>> /\ fetched[m] = NoMail /\ received[m] = NoMail
       /\ m \notin answered /\ m \notin gone
  BY <1>2 DEF MailInv, Handling, MailTyped, Asked
<1>14. MailTyped'
  BY <1>2, <1>5, <1>9, <1>11 DEF MailInv, MailTyped
<1>15. Handling'
  <2> SUFFICES ASSUME NEW q \in Mails
               PROVE  /\ mail'[q] = NoMail =>
                           /\ steps'[q] = <<>> /\ fetched'[q] = NoMail /\ received'[q] = NoMail
                           /\ q \notin answered'
                      /\ mail'[q] # NoMail => steps'[q] \in Rests(mail'[q].op)
                      /\ q \in answered' =>
                           steps'[q] = <<>> /\ q \notin gone' /\ received'[q] = fetched'[q]
    BY DEF Handling
  <2>1. CASE q = m
    BY <1>2, <1>6, <1>7, <1>10, <1>13, <2>1 DEF h
  <2>2. CASE q # m
    BY <1>2, <1>10, <2>2 DEF MailInv, Handling
  <2> QED BY <2>1, <2>2
<1>16. Counted'
  <2>1. IsFiniteSet(Asked \union {m}) /\ Cardinality(Asked \union {m}) = c + 1
    BY <1>4, <1>11, FS_AddElement DEF c
  <2>2. \A q \in Asked : mail'[q].turn < c /\ mail'[q].turn \in Nat
    BY <1>12 DEF MailInv, Counted, c, MailTyped, Asked
  <2>3. \A q \in Asked \union {m} : mail'[q].turn < c + 1
    BY <1>4, <1>6, <1>10, <2>2
  <2>4. ASSUME NEW p \in Asked, NEW q \in Asked, p # q
        PROVE  mail'[p].turn # mail'[q].turn
    BY <1>12, <2>4 DEF MailInv, Counted
  <2>5. \A q \in Asked : mail'[q].turn # mail'[m].turn
    BY <1>4, <1>6, <1>10, <2>2
  <2> QED BY <1>11, <2>1, <2>3, <2>4, <2>5 DEF Counted
<1>17. InTurns'
  <2> SUFFICES ASSUME NEW p \in Asked \union {m}, NEW q \in Asked \union {m}, p # q,
                      mail'[p].user = mail'[q].user, mail'[p].user \in TakesTurns, steps'[p] # <<>>,
                      p \notin gone
               PROVE  mail'[q].turn < mail'[p].turn
    BY <1>2, <1>11 DEF InTurns, Owner
  <2>1. CASE p = m
    <3>1. q \in Asked
      BY <2>1
    <3> QED BY <1>6, <1>10, <1>12, <2>1, <3>1 DEF MailInv, Counted, c
  <2>2. CASE q = m
    <3>1. p \in Asked
      BY <2>2
    <3>2. steps[p] # <<>> /\ Owner(p) = a.user /\ a.user \in TakesTurns
      BY <1>6, <1>10, <1>12, <2>2, <3>1 DEF Owner
    <3> QED BY <1>1, <1>12, <3>1, <3>2
  <2>3. CASE p # m /\ q # m
    BY <1>12, <2>3 DEF MailInv, InTurns, Owner
  <2> QED BY <2>1, <2>2, <2>3
<1>18. Carried'
  <2>2. ASSUME NEW u \in MailUsers, message[u] # NoMail PROVE Stored(message[u], u)'
    <3>1. message[u] \in Asked /\ Stored(message[u], u)
      BY <2>2 DEF MailInv, Carried, Stored
    <3> QED BY <1>2, <1>11, <1>12, <3>1 DEF Stored, Owner
  <2>3. ASSUME NEW q \in Mails, fetched[q] # NoMail PROVE Stored(fetched[q], Owner(q))'
    <3>1. fetched[q] \in Asked /\ Stored(fetched[q], Owner(q)) /\ q # m
      BY <1>13, <2>3 DEF MailInv, Carried, Stored
    <3> QED BY <1>2, <1>10, <1>11, <1>12, <3>1 DEF Stored, Owner
  <2> QED BY <1>2, <1>8, <1>10, <1>13, <2>2, <2>3 DEF MailInv, Carried
<1>19. Cleared' /\ Ended'
  <2>1. \A q \in Asked : mail'[q] = mail[q] /\ steps'[q] = steps[q]
    BY <1>12
  <2>2. Cleared'
    BY <1>2, <1>8, <1>10, <1>11, <1>13, <2>1 DEF MailInv, Cleared, Owner
  <2>3. Ended'
    BY <1>2, <1>8, <1>10, <1>11, <1>13, <2>1 DEF MailInv, Ended, CutShort, Owner
  <2> QED BY <2>2, <2>3
<1>20. Once'
  <2>1. ASSUME NEW q \in Mails, NEW x \in Mails, HasAfter(q, x) PROVE q # m /\ Has(q, x)
    BY <1>2, <1>10, <1>13, <2>1, MailAssumption DEF Has, HasAfter
  <2> SUFFICES ASSUME NEW u \in TakesTurns, NEW p \in Checks(u)', NEW q \in Checks(u)',
                      NEW x \in Mails, p # q, HasAfter(p, x), HasAfter(q, x)
               PROVE  "commit" \in mishaps' \/ (x \in Large /\ (CutShort(p)' \/ CutShort(q)'))
    BY DEF Once, HasAfter, Has
  <2>2. p \in Mails /\ q \in Mails
    BY DEF Checks
  <2>3. p # m /\ q # m /\ Has(p, x) /\ Has(q, x)
    BY <2>1, <2>2
  <2>4. p \in Checks(u) /\ q \in Checks(u)
    BY <1>10, <2>2, <2>3 DEF Checks, Owner
  <2>5. "commit" \in mishaps \/ (x \in Large /\ (CutShort(p) \/ CutShort(q)))
    BY <2>3, <2>4 DEF MailInv, Once
  <2> QED BY <1>2, <2>5 DEF CutShort
<1>21. Reading'
  <2> SUFFICES ASSUME NEW p \in Asked', NEW x \in Asked' \ (Short \union gone),
                      mail'[p].op = "check", steps'[p] \in {ToReply, ToClear},
                      Owner(p)' = Owner(x)', Owner(x)' \in TakesTurns,
                      mail'[x].turn < mail'[p].turn, message[Owner(x)'] = x
               PROVE  fetched[p] = x
    BY <1>2 DEF Reading
  <2>1. p \in Asked
    BY <1>8, <1>10, <1>11
  <2>2. x # m
    <3>1. ASSUME x = m PROVE FALSE
      <4>1. Owner(x)' \in MailUsers /\ x # NoMail
        BY <1>3, <1>6, <1>10, <3>1, MailAssumption DEF Owner
      <4>2. x \in Asked
        BY <4>1 DEF MailInv, Carried, Stored
      <4> QED BY <1>11, <3>1, <4>2
    <3> QED BY <3>1
  <2>3. x \in Asked
    BY <1>11, <2>2
  <2> QED BY <1>12, <2>1, <2>3 DEF MailInv, Reading, Owner
<1>22. Kept'
  <2> SUFFICES ASSUME NEW x \in Asked' \ Short, mail'[x].op \in Stores,
                      Owner(x)' \in TakesTurns, Promised(x)', "commit" \notin mishaps'
               PROVE  \/ message'[Owner(x)'] = x
                      \/ Superseded(x)' \/ Overtook(x)'
                      \/ \E q \in Checks(Owner(x))' : fetched'[q] = x
    BY DEF Kept
  <2>1. x \in Asked
    BY <1>2, <1>8, <1>10, <1>11, <1>13 DEF Promised
  <2>2. mail'[x] = mail[x] /\ steps'[x] = steps[x] /\ Owner(x)' = Owner(x)
    BY <1>12, <2>1 DEF Owner
  <2>3. Superseded(x) => Superseded(x)'
    <3>1. \A q \in Mails : mail[q] # NoMail => mail'[q] = mail[q]
      BY <1>12 DEF Asked
    <3> QED BY <2>2, <3>1 DEF Superseded, Owner
  <2>4. Overtook(x) => Overtook(x)'
    <3>1. gone' = gone /\ \A q \in gone : mail'[q] = mail[q]
      BY <1>2, <1>12 DEF MailInv, MailTyped
    <3> QED BY <2>2, <3>1 DEF Overtook, Owner
  <2>5. ASSUME NEW q \in Checks(Owner(x))
        PROVE  q \in Checks(Owner(x))'
    <3>1. q \in Asked
      BY DEF Checks, Asked
    <3>2. q \in Mails /\ mail'[q] = mail[q] /\ mail'[q] # NoMail
      BY <1>12, <3>1 DEF Asked
    <3> QED BY <2>2, <3>2 DEF Checks, Owner
  <2>6. Promised(x)
    BY <1>2, <2>2 DEF Promised
  <2>7. \/ message[Owner(x)] = x
        \/ Superseded(x) \/ Overtook(x)
        \/ \E q \in Checks(Owner(x)) : fetched[q] = x
    BY <1>2, <2>1, <2>2, <2>6 DEF MailInv, Kept
  <2> QED BY <1>2, <2>2, <2>3, <2>4, <2>5, <2>7
<1> QED BY <1>14, <1>15, <1>16, <1>17, <1>18, <1>19, <1>20, <1>21, <1>22 DEF MailInv

\* A device leaves: its handler does not know, but less is promised from now on.
LEMMA DisconnectKeeps ==
  ASSUME MailInv, NEW m \in Mails, Disconnect(m)
  PROVE  MailInv'
<1>1. /\ steps[m] # <<>> /\ gone' = gone \union {m}
      /\ UNCHANGED <<mail, steps, fetched, received, answered, bucket, message, mishaps>>
  BY DEF Disconnect
<1>2. m \in Asked /\ m \notin answered /\ Asked' = Asked
  BY <1>1 DEF MailInv, Handling, Asked
<1>3. Grows
  BY <1>1 DEF Grows
<1>4. MailTyped'
  BY <1>1, <1>2 DEF MailInv, MailTyped
<1>5. Handling'
  BY <1>1, <1>2 DEF MailInv, Handling
<1>6. Counted' /\ InTurns'
  BY <1>1, <1>2 DEF MailInv, Counted, InTurns, Owner
<1>7. Carried'
  BY <1>1, <1>2 DEF MailInv, Carried, Stored, Owner
<1>8. Cleared'
  BY <1>1, <1>2 DEF MailInv, Cleared, Owner
<1>9. Ended'
  BY <1>1, <1>2, <1>3, EndedStays DEF MailInv
<1>10. Once'
  <2>1. \A q \in Mails, x \in Mails : HasAfter(q, x) => Has(q, x)
    BY <1>1 DEF Has, HasAfter
  <2> QED BY <1>3, <2>1, OnceStays DEF MailInv
<1>11. Reading'
  BY <1>1, <1>2, <1>3, ReadingStays DEF MailInv
<1>12. Kept'
  <2>1. \A x \in Asked : mail[x].op \in Stores => (Promised(x)' => Promised(x))
    BY <1>1 DEF Promised
  <2> QED BY <1>1, <1>2, <1>3, <2>1, KeptStays DEF MailInv
<1> QED BY <1>4, <1>5, <1>6, <1>7, <1>8, <1>9, <1>10, <1>11, <1>12 DEF MailInv

LEMMA ExitKeeps ==
  ASSUME MailInv, Exit
  PROVE  MailInv'
<1>1. /\ steps' = [m \in Mails |-> <<>>] /\ mishaps' = mishaps \union {"crash"}
      /\ UNCHANGED <<mail, fetched, received, answered, gone, bucket, message>>
  BY DEF Exit
<1>2. /\ \A q \in Mails : steps'[q] = <<>>
      /\ Grows /\ "crash" \in mishaps'
      /\ "commit" \in mishaps' => "commit" \in mishaps
  BY <1>1 DEF Grows
<1>3. Asked' = Asked /\ Asked \subseteq Mails
  BY <1>1 DEF Asked
<1>4. <<>> \notin {ToFetch, ToReply, ToClear, ToReturn, ToLook, ToShow, ToStore}
  BY LeftSome DEF Left
<1>5. MailTyped'
  BY <1>1, <1>3 DEF MailInv, MailTyped
<1>6. Handling'
  <2>1. \A op \in MailOps : <<>> \in Rests(op)
    BY DEF Rests, MailOps
  <2>2. \A q \in Mails : mail[q] # NoMail => mail[q].op \in MailOps
    BY DEF MailInv, MailTyped
  <2> QED BY <1>1, <1>2, <2>1, <2>2 DEF MailInv, Handling
<1>7. Counted' /\ InTurns'
  BY <1>1, <1>2, <1>3 DEF MailInv, Counted, InTurns
<1>8. Carried'
  <2>1. (\A u \in MailUsers : message[u] # NoMail => Stored(message[u], u))'
    BY <1>1, <1>2, <1>3, <1>4 DEF MailInv, Carried, Stored, Owner
  <2>2. (\A q \in Mails : fetched[q] # NoMail => Stored(fetched[q], Owner(q)))'
    BY <1>1, <1>2, <1>3, <1>4 DEF MailInv, Carried, Stored, Owner
  <2> QED BY <1>1, <1>2, <1>4, <2>1, <2>2 DEF MailInv, Carried
<1>9. \A q \in Asked : mail[q].op = "check" => steps[q] \in {<<>>, ToFetch, ToReply, ToClear, ToReturn}
  BY DEF MailInv, Handling, Asked, Rests
<1>10. Cleared'
  <2> SUFFICES ASSUME NEW q \in Asked, mail[q].op = "check",
                      fetched[q] # NoMail, "commit" \notin mishaps, received[q] # NoMail
               PROVE  message[Owner(q)] # fetched[q] \/ fetched[q] \in Large
    BY <1>1, <1>2, <1>3, <1>4 DEF Cleared, Owner
  <2>1. steps[q] \notin {ToFetch, ToReply} /\ (steps[q] = ToClear => received[q] \in Large)
        /\ received[q] = fetched[q]
    BY <1>3 DEF MailInv, Carried
  <2>2. CASE steps[q] = ToClear
    BY <2>1, <2>2
  <2>3. CASE steps[q] \in {ToReturn, <<>>}
    BY <2>3 DEF MailInv, Cleared
  <2> QED BY <1>9, <2>1, <2>2, <2>3
<1>11. Ended'
  BY <1>2, <1>3, EndedStays DEF MailInv, CutShort
<1>12. Once'
  <2>1. \A q \in Mails, x \in Mails : HasAfter(q, x) => Has(q, x)
    BY <1>1, <1>2 DEF Has, HasAfter
  <2> QED BY <1>2, <2>1, OnceStays DEF MailInv
<1>13. Reading'
  BY <1>1, <1>2, <1>3, <1>4, ReadingStays DEF MailInv
<1>14. Kept'
  <2>1. \A x \in Asked : mail[x].op \in Stores => (Promised(x)' => Promised(x))
    BY <1>1, <1>2, <1>3, <1>4 DEF Promised
  <2> QED BY <1>1, <1>2, <1>3, <2>1, KeptStays DEF MailInv
<1> QED BY <1>5, <1>6, <1>7, <1>8, <1>10, <1>11, <1>12, <1>13, <1>14 DEF MailInv

-----------------------------------------------------------------------------
(* A message is kept, or cleared.                                          *)

LEMMA PutGoesOn ==
  ASSUME MailInv, NEW m \in Asked, steps[m] # <<>>, Head(steps[m]) \in {"store", "clear"}, Done(m),
         UNCHANGED <<mail, fetched, received, answered, gone>>, mishaps \subseteq mishaps'
  PROVE  /\ Handling' /\ Counted' /\ InTurns' /\ Asked' = Asked /\ m \in Mails /\ Grows
         /\ steps'[m] = ToReturn /\ \A q \in Mails : q # m => steps'[q] = steps[q]
         /\ ToReturn \notin {<<>>, ToFetch, ToReply, ToClear, ToLook, ToShow, ToStore}
         /\ DOMAIN steps' = Mails
         /\ \/ Head(steps[m]) = "clear" /\ mail[m].op = "check" /\ steps[m] = ToClear
            \/ Head(steps[m]) = "store" /\ mail[m].op \in {"send", "upload"} /\ steps[m] = ToStore
         /\ Once' /\ Ended'
<1>1. mail[m].op \in MailOps /\ steps[m] \in Rests(mail[m].op) /\ m \in Mails
  BY DEF MailInv, MailTyped, Handling, Asked
<1>2. /\ \/ Head(steps[m]) = "clear" /\ mail[m].op = "check" /\ steps[m] = ToClear
         \/ Head(steps[m]) = "store" /\ mail[m].op \in {"send", "upload"} /\ steps[m] = ToStore
      /\ Tail(steps[m]) = ToReturn /\ ToReturn \in Rests(mail[m].op)
  BY <1>1, RestsAre, LeftTails, LeftHeads
<1>3. Advances(m, ToReturn) /\ Grows
  BY <1>2 DEF Advances, Done, Grows
<1>4. /\ Handling' /\ Counted' /\ InTurns' /\ Asked' = Asked
      /\ steps'[m] = ToReturn /\ \A q \in Mails : q # m => steps'[q] = steps[q]
  BY <1>2, <1>3, AdvanceKeeps
<1>5. ToReturn \notin {<<>>, ToFetch, ToReply, ToClear, ToLook, ToShow, ToStore}
  BY LeftDiffer, LeftSome DEF Left
<1>6. DOMAIN steps' = Mails
  BY DEF Done, MailInv, MailTyped
<1>7. Once'
  <2>1. \A q \in Mails, x \in Mails : HasAfter(q, x) => Has(q, x)
    BY <1>4, <1>5 DEF Has, HasAfter
  <2> QED BY <1>3, <2>1, OnceStays DEF MailInv
<1>8. Ended'
  <2>1. \A q \in Asked : steps'[q] = <<>> => steps[q] = <<>>
    BY <1>4, <1>5 DEF Asked
  <2> QED BY <1>3, <1>4, <2>1, EndedStays DEF MailInv
<1> QED BY <1>1, <1>2, <1>3, <1>4, <1>5, <1>6, <1>7, <1>8

\* What is carried, when the mailbox of u gets the message new, of its own or none.
LEMMA PutCarries ==
  ASSUME MailInv, NEW m \in Asked, UNCHANGED <<mail, fetched, received>>, Asked' = Asked,
         steps'[m] = ToReturn, \A q \in Mails : q # m => steps'[q] = steps[q],
         ToReturn \notin {<<>>, ToFetch, ToReply, ToClear, ToLook, ToShow, ToStore},
         message' \in [MailUsers -> Mails \union {NoMail}],
         \A u \in MailUsers :
           message'[u] # NoMail => message'[u] = message[u] \/ (message'[u] = m /\ u = Owner(m))
  PROVE  Carried'
<1>1. \A x \in Asked : x # m => steps'[x] = steps[x]
  BY DEF Asked
<1>2. (\A u \in MailUsers : message[u] # NoMail => Stored(message[u], u))'
  <2> SUFFICES ASSUME NEW u \in MailUsers, message'[u] # NoMail
               PROVE  /\ message'[u] \in Asked /\ mail[message'[u]].user = u
                      /\ steps'[message'[u]] # ToStore
    BY DEF Stored, Owner
  <2>1. CASE message'[u] = message[u]
    BY <1>1, <2>1 DEF MailInv, Carried, Stored, Owner
  <2>2. CASE message'[u] = m /\ u = Owner(m)
    BY <2>2 DEF Owner
  <2> QED BY <2>1, <2>2
<1>3. (\A q \in Mails : fetched[q] # NoMail => Stored(fetched[q], Owner(q)))'
  BY <1>1 DEF MailInv, Carried, Stored, Owner
<1>4. \A q \in Mails : steps'[q] \in {ToFetch, ToLook, ToReply, ToShow, ToClear} => steps'[q] = steps[q]
  OBVIOUS
<1> QED BY <1>2, <1>3, <1>4 DEF MailInv, Carried

\* A handler has kept a message, and the one of its user before is superseded: unless
\* it was stored after this handler's device had left.
LEMMA StoreKeeps ==
  ASSUME MailInv, NEW m \in Asked, steps[m] # <<>>, Head(steps[m]) = "store", Done(m),
         UNCHANGED <<mail, fetched, received, answered, gone, mishaps>>, Owner(m) # NoId,
         bucket' = TRUE, message' = [message EXCEPT ![Owner(m)] = m]
  PROVE  MailInv'
<1>1. /\ Handling' /\ Counted' /\ InTurns' /\ Asked' = Asked /\ m \in Mails /\ Grows
      /\ steps'[m] = ToReturn /\ \A q \in Mails : q # m => steps'[q] = steps[q]
      /\ ToReturn \notin {<<>>, ToFetch, ToReply, ToClear, ToLook, ToShow, ToStore}
      /\ DOMAIN steps' = Mails /\ mail[m].op \in {"send", "upload"} /\ steps[m] = ToStore
      /\ Once' /\ Ended'
  BY PutGoesOn
<1>2. Owner(m) \in MailUsers
  BY DEF MailInv, MailTyped, Asked, Owner
<1>3. message'[Owner(m)] = m /\ \A u \in MailUsers : u # Owner(m) => message'[u] = message[u]
  BY <1>2 DEF MailInv, MailTyped
<1>4. MailTyped'
  BY <1>1, <1>2, MailAssumption DEF MailInv, MailTyped
<1>5. Carried'
  <2>1. message' \in [MailUsers -> Mails \union {NoMail}]
    BY <1>4 DEF MailTyped
  <2> QED BY <1>1, <1>3, <2>1, PutCarries
<1>6. \A q \in Asked : /\ Owner(q) \in MailUsers /\ q \in Mails
                       /\ q # m => steps'[q] = steps[q]
  BY <1>1 DEF MailInv, MailTyped, Asked, Owner
<1>7. \A q \in Asked : fetched[q] # m
  <2>1. m # NoMail
    BY <1>1, MailAssumption
  <2> QED BY <1>1, <1>6, <2>1 DEF MailInv, Carried, Stored
<1>8. Cleared'
  <2> SUFFICES ASSUME NEW q \in Asked, mail[q].op = "check", fetched[q] # NoMail,
                      "commit" \notin mishaps,
                      steps'[q] = ToReturn \/ (steps'[q] = <<>> /\ received[q] # NoMail)
               PROVE  message'[Owner(q)] # fetched[q]
                      \/ (steps'[q] = <<>> /\ fetched[q] \in Large /\ "crash" \in mishaps)
    BY <1>1 DEF Cleared, Owner
  <2>1. q # m /\ steps'[q] = steps[q]
    BY <1>1, <1>6
  <2>2. message'[Owner(q)] = message[Owner(q)] \/ message'[Owner(q)] = m
    BY <1>3, <1>6
  <2> QED BY <1>7, <2>1, <2>2 DEF MailInv, Cleared
<1>9. ASSUME NEW q \in Asked, q # m, Owner(q) = Owner(m), Owner(m) \in TakesTurns, m \notin gone
      PROVE  mail[q].turn \in Nat /\ mail[m].turn \in Nat /\ mail[q].turn < mail[m].turn
  BY <1>9 DEF MailInv, InTurns, MailTyped, Asked
<1>10. Reading'
  <2> SUFFICES ASSUME NEW p \in Asked, NEW x \in Asked \ (Short \union gone),
                      mail[p].op = "check", steps'[p] \in {ToReply, ToClear},
                      Owner(p) = Owner(x), Owner(x) \in TakesTurns,
                      mail[x].turn < mail[p].turn, message'[Owner(x)] = x
               PROVE  fetched[p] = x
    BY <1>1 DEF Reading, Owner
  <2>1. p # m /\ steps'[p] = steps[p]
    BY <1>1, <1>6
  <2>2. x # m
    <3>1. ASSUME x = m PROVE FALSE
      <4>1. mail[p].turn < mail[m].turn /\ mail[m].turn < mail[p].turn
            /\ mail[p].turn \in Nat /\ mail[m].turn \in Nat
        BY <1>9, <2>1, <3>1
      <4> QED BY <4>1
    <3> QED BY <3>1
  <2>3. message[Owner(x)] = x
    BY <1>3, <1>6, <2>2
  <2> QED BY <2>1, <2>3 DEF MailInv, Reading
<1>11. Kept'
  <2> SUFFICES ASSUME NEW x \in Asked \ Short, mail[x].op \in Stores,
                      Owner(x) \in TakesTurns, Promised(x)', "commit" \notin mishaps
               PROVE  \/ message'[Owner(x)] = x
                      \/ Superseded(x) \/ Overtook(x)
                      \/ \E q \in Checks(Owner(x)) : fetched[q] = x
    BY <1>1 DEF Kept, Checks, Superseded, Overtook, Owner
  <2>1. CASE x = m
    BY <1>3, <2>1
  <2>2. CASE x # m /\ Owner(x) = Owner(m)
    <3>1. CASE mail[x].turn < mail[m].turn
      <4>1. mail[m].turn > mail[x].turn /\ mail[m] # NoMail /\ mail[m].op \in Stores
        BY <1>1, <3>1, TurnsDiffer, <2>2 DEF MailInv, Asked, Stores
      <4> QED BY <1>1, <2>2, <4>1 DEF Superseded
    <3>2. CASE mail[m].turn < mail[x].turn
      <4>1. ASSUME m \notin gone PROVE FALSE
        <5>1. mail[x].turn < mail[m].turn /\ mail[x].turn \in Nat /\ mail[m].turn \in Nat
          BY <1>9, <2>2, <4>1
        <5> QED BY <3>2, <5>1
      <4>2. m \in gone
        BY <4>1
      <4> QED BY <2>2, <3>2, <4>2 DEF Overtook
    <3> QED BY <2>2, <3>1, <3>2, TurnsDiffer DEF MailInv
  <2>3. CASE x # m /\ Owner(x) # Owner(m)
    <3>1. message'[Owner(x)] = message[Owner(x)] /\ steps'[x] = steps[x]
      BY <1>3, <1>6, <2>3
    <3>2. Promised(x)
      BY <3>1 DEF Promised
    <3> QED BY <3>1, <3>2 DEF MailInv, Kept
  <2> QED BY <2>1, <2>2, <2>3
<1> QED BY <1>1, <1>4, <1>5, <1>8, <1>10, <1>11 DEF MailInv

\* A check has emptied its user's mailbox: it has fetched what was in it, unless that
\* was stored after its device had left.
LEMMA ClearKeeps ==
  ASSUME MailInv, NEW m \in Asked, steps[m] # <<>>, Head(steps[m]) = "clear", Done(m),
         UNCHANGED <<mail, fetched, received, answered, gone, mishaps>>, Owner(m) # NoId,
         bucket' = TRUE, message' = [message EXCEPT ![Owner(m)] = NoMail]
  PROVE  MailInv'
<1>1. /\ Handling' /\ Counted' /\ InTurns' /\ Asked' = Asked /\ m \in Mails /\ Grows
      /\ steps'[m] = ToReturn /\ \A q \in Mails : q # m => steps'[q] = steps[q]
      /\ ToReturn \notin {<<>>, ToFetch, ToReply, ToClear, ToLook, ToShow, ToStore}
      /\ DOMAIN steps' = Mails /\ mail[m].op = "check" /\ steps[m] = ToClear
      /\ Once' /\ Ended'
  BY PutGoesOn
<1>2. Owner(m) \in MailUsers
  BY DEF MailInv, MailTyped, Asked, Owner
<1>3. message'[Owner(m)] = NoMail /\ \A u \in MailUsers : u # Owner(m) => message'[u] = message[u]
  BY <1>2 DEF MailInv, MailTyped
<1>4. MailTyped'
  BY <1>1, <1>2, MailAssumption DEF MailInv, MailTyped
<1>5. Carried'
  <2>1. message' \in [MailUsers -> Mails \union {NoMail}]
    BY <1>4 DEF MailTyped
  <2> QED BY <1>1, <1>3, <2>1, PutCarries
<1>6. \A q \in Asked : /\ Owner(q) \in MailUsers /\ q \in Mails
                       /\ q # m => steps'[q] = steps[q]
  BY <1>1 DEF MailInv, MailTyped, Asked, Owner
<1>7. Cleared'
  <2> SUFFICES ASSUME NEW q \in Asked, mail[q].op = "check", fetched[q] # NoMail,
                      "commit" \notin mishaps,
                      steps'[q] = ToReturn \/ (steps'[q] = <<>> /\ received[q] # NoMail)
               PROVE  message'[Owner(q)] # fetched[q]
                      \/ (steps'[q] = <<>> /\ fetched[q] \in Large /\ "crash" \in mishaps)
    BY <1>1 DEF Cleared, Owner
  <2>1. CASE Owner(q) = Owner(m)
    BY <1>3, <2>1
  <2>2. CASE Owner(q) # Owner(m)
    BY <1>3, <1>6, <2>2 DEF MailInv, Cleared
  <2> QED BY <2>1, <2>2
<1>8. Reading'
  <2> SUFFICES ASSUME NEW p \in Asked, NEW x \in Asked \ (Short \union gone),
                      mail[p].op = "check", steps'[p] \in {ToReply, ToClear},
                      Owner(p) = Owner(x), Owner(x) \in TakesTurns,
                      mail[x].turn < mail[p].turn, message'[Owner(x)] = x
               PROVE  fetched[p] = x
    BY <1>1 DEF Reading, Owner
  <2>1. x # NoMail /\ p # m
    BY <1>1, <1>6, MailAssumption
  <2> QED BY <1>3, <1>6, <2>1 DEF MailInv, Reading
<1>9. Kept'
  <2> SUFFICES ASSUME NEW x \in Asked \ Short, mail[x].op \in Stores,
                      Owner(x) \in TakesTurns, Promised(x)', "commit" \notin mishaps
               PROVE  \/ message'[Owner(x)] = x
                      \/ Superseded(x) \/ Overtook(x)
                      \/ \E q \in Checks(Owner(x)) : fetched[q] = x
    BY <1>1 DEF Kept, Checks, Superseded, Overtook, Owner
  <2>1. x # m /\ steps'[x] = steps[x] /\ x \notin gone /\ Promised(x)
    <3>1. x # m
      BY <1>1 DEF Stores
    <3>2. steps'[x] = steps[x] /\ (x \in answered => x \notin gone)
      BY <1>6, <3>1 DEF MailInv, Handling
    <3> QED BY <3>1, <3>2 DEF Promised
  <2>2. CASE message[Owner(x)] = x /\ Owner(x) = Owner(m)
    <3>1. CASE mail[x].turn < mail[m].turn
      <4>1. fetched[m] = x
        BY <1>1, <2>1, <2>2, <3>1 DEF MailInv, Reading
      <4>2. m \in Checks(Owner(x))
        BY <1>1, <2>2 DEF Checks, Asked
      <4> QED BY <4>1, <4>2
    <3>2. CASE mail[m].turn < mail[x].turn
      <4>1. ASSUME m \notin gone PROVE FALSE
        <5>1. mail[x].turn < mail[m].turn /\ mail[x].turn \in Nat /\ mail[m].turn \in Nat
          BY <2>1, <2>2, <4>1 DEF MailInv, InTurns, MailTyped, Asked
        <5> QED BY <3>2, <5>1
      <4>2. m \in gone
        BY <4>1
      <4> QED BY <2>2, <3>2, <4>2 DEF Overtook
    <3> QED BY <2>1, <3>1, <3>2, TurnsDiffer DEF MailInv
  <2>3. CASE message[Owner(x)] = x /\ Owner(x) # Owner(m)
    BY <1>3, <1>6, <2>3
  <2> QED BY <2>1, <2>2, <2>3 DEF MailInv, Kept
<1> QED BY <1>1, <1>4, <1>5, <1>7, <1>8, <1>9 DEF MailInv

\* The commit of a message, or of its end, has failed: the handler goes on.
LEMMA FailedPutKeeps ==
  ASSUME MailInv, NEW m \in Asked, steps[m] # <<>>, Head(steps[m]) \in {"store", "clear"}, Done(m),
         UNCHANGED <<mail, fetched, received, answered, gone, bucket, message>>,
         mishaps' = mishaps \union {"commit"}
  PROVE  MailInv'
<1>1. /\ Handling' /\ Counted' /\ InTurns' /\ Asked' = Asked /\ m \in Mails /\ Grows
      /\ steps'[m] = ToReturn /\ \A q \in Mails : q # m => steps'[q] = steps[q]
      /\ ToReturn \notin {<<>>, ToFetch, ToReply, ToClear, ToLook, ToShow, ToStore}
      /\ DOMAIN steps' = Mails /\ Once' /\ Ended'
  BY PutGoesOn
<1>2. MailTyped'
  BY <1>1 DEF MailInv, MailTyped
<1>3. Carried'
  <2>1. message' \in [MailUsers -> Mails \union {NoMail}]
    BY <1>2 DEF MailTyped
  <2> QED BY <1>1, <2>1, PutCarries
<1>4. Cleared' /\ Kept'
  BY DEF Cleared, Kept
<1>5. Reading'
  <2>1. \A q \in Asked : mail[q].op = "check" /\ steps'[q] \in {ToReply, ToClear} =>
          steps[q] \in {ToReply, ToClear} /\ fetched'[q] = fetched[q]
    BY <1>1 DEF Asked
  <2> QED BY <1>1, <2>1, ReadingStays DEF MailInv
<1> QED BY <1>1, <1>2, <1>3, <1>4, <1>5 DEF MailInv

-----------------------------------------------------------------------------
(* The mailboxes keep their promise.                                       *)

LEMMA PutKeeps ==
  ASSUME MailInv, NEW m \in Mails, Store(m) \/ Clear(m)
  PROVE  MailInv'
<1>1. CASE Store(m)
  <2>1. m \in Asked /\ steps[m] # <<>> /\ Head(steps[m]) = "store"
    BY <1>1, DoingIs DEF MailInv, Store
  <2>2. Put(m, m) /\ UNCHANGED <<mail, fetched, received, answered, gone>>
    BY <1>1 DEF Store
  <2> QED BY <2>1, <2>2, PutPanicKeeps, StoreKeeps, FailedPutKeeps DEF Put
<1>2. CASE Clear(m)
  <2>1. m \in Asked /\ steps[m] # <<>> /\ Head(steps[m]) = "clear"
    BY <1>2, DoingIs DEF MailInv, Clear
  <2>2. Put(m, NoMail) /\ UNCHANGED <<mail, fetched, received, answered, gone>>
    BY <1>2 DEF Clear
  <2> QED BY <2>1, <2>2, PutPanicKeeps, ClearKeeps, FailedPutKeeps DEF Put
<1> QED BY <1>1, <1>2

LEMMA MailStepKeeps == MailInv /\ [MailNext]_mailVars => MailInv'
<1> SUFFICES ASSUME MailInv, [MailNext]_mailVars PROVE MailInv'
  OBVIOUS
<1>1. CASE Exit
  BY <1>1, ExitKeeps
<1>2. ASSUME NEW m \in Mails, AskMail(m) \/ Disconnect(m) PROVE MailInv'
  BY <1>2, AskMailKeeps, DisconnectKeeps
<1>3. ASSUME NEW m \in Mails, Fetch(m) PROVE MailInv'
  BY <1>3, FetchKeeps, FetchPanicKeeps
<1>4. ASSUME NEW m \in Mails, WriteReply(m) \/ ReturnMail(m) \/ NoFile(m) PROVE MailInv'
  BY <1>4, WriteReplyKeeps, ReturnKeeps, NoFileKeeps
<1>5. ASSUME NEW m \in Mails, Store(m) \/ Clear(m) PROVE MailInv'
  BY <1>5, PutKeeps
<1>6. CASE UNCHANGED mailVars
  <2>1. UNCHANGED <<mail, steps, fetched, received, answered, gone, bucket, message, mishaps>>
    BY <1>6 DEF mailVars, requests
  <2>2. MailTyped' /\ Handling' /\ Counted' /\ InTurns'
    BY <2>1 DEF MailInv, MailTyped, Handling, Counted, InTurns, Asked, Owner
  <2>3. Carried' /\ Cleared' /\ Ended'
    BY <2>1 DEF MailInv, Carried, Stored, Cleared, Ended, CutShort, Asked, Owner
  <2>4. Once' /\ Reading'
    BY <2>1 DEF MailInv, Once, Reading, Has, CutShort, Checks, Asked, Owner
  <2>5. Kept'
    BY <2>1 DEF MailInv, Kept, Promised, Superseded, Overtook, Checks, Asked, Owner
  <2> QED BY <2>2, <2>3, <2>4, <2>5 DEF MailInv
<1> QED BY <1>1, <1>2, <1>3, <1>4, <1>5, <1>6 DEF MailNext

\* Whatever the devices of all the users ask, whenever their connections break and the
\* server dies: a device gets its own user's messages only; and of a user whose devices
\* take turns none is repeated and none is lost, but for the commits, crashes and broken
\* connections that MailboxInv names, at the steps that it names (checkHandler,
\* storeMessage).
THEOREM MailboxKept == MailSpec => []MailboxInv
<1>1. MailSpec => []MailInv
  BY MailInitEstablishes, MailStepKeeps, PTL DEF MailSpec
<1> QED BY <1>1, MailInvImplies, PTL

-----------------------------------------------------------------------------
(* Presence.                                                               *)

Holding == {"find", "make", "record", "render", "write"}
HasRoom == {"record", "render", "write"}

\* The handlers: who has the lock, what he asked for and the room that he works on.
HoldersAlone == \A p \in Participants : doing[p] \in Holding => room_lock = p
AskersAsked ==
  \A p \in Participants : doing[p] \in Holding \union {"lock"} =>
    ask[p] \in MayAskFor[p] /\ before[p] \subseteq Present(RoomId(ask[p]))
OwnRoom ==
  \A p \in Participants :
    /\ doing[p] = "make" => Rooms[RoomId(ask[p])] = None
    /\ doing[p] \in HasRoom => ref[p] \in Maps /\ ref[p] = Rooms[RoomId(ask[p])]
    /\ doing[p] \in {"render", "write"} => NameOf(ask[p]) \in Users[ref[p]]
    /\ doing[p] = "write" => listed[p] = Users[ref[p]]
\* The rooms: one map for each id, and in it everyone who has had an answer.
RoomsApart == \A i \in Ids : Rooms[i] # None => Rooms[i] \in Maps /\ Rooms[i][2] = i
Answered ==
  \A p \in Participants :
    doing[p] \in {"sleep", "panicked"} /\ ask[p] # None
      => NameOf(ask[p]) \in Present(RoomId(ask[p]))

RoomInv ==
  PresenceTypeOK /\ HoldersAlone /\ AskersAsked /\ OwnRoom /\ RoomsApart /\ Answered

LEMMA RoomIdIsId == \A a : RoomId(a) \in Ids
  BY DEF RoomId, Ids

LEMMA NamesAreNames ==
  ASSUME NEW p \in Participants, NEW a \in MayAskFor[p]
  PROVE  NameOf(a) \in Names
  BY DEF Names, Questions

LEMMA InvImplies == RoomInv => PresenceInv
<1> SUFFICES ASSUME RoomInv PROVE PresenceInv
  OBVIOUS
<1> USE DEF RoomInv
<1>1. NobodyIsLost
  <2> SUFFICES ASSUME NEW p \in Participants, doing[p] \in {"write", "sleep"}, ask[p] # None
               PROVE  NameOf(ask[p]) \in Present(RoomId(ask[p]))
    BY DEF NobodyIsLost
  <2>1. CASE doing[p] = "write"
    BY <2>1, PresenceAssumption DEF OwnRoom, HasRoom, Present
  <2>2. CASE doing[p] = "sleep"
    BY <2>2 DEF Answered
  <2> QED BY <2>1, <2>2
<1>2. PageHasEarlier
  <2> SUFFICES ASSUME NEW p \in Participants, doing[p] = "write"
               PROVE  before[p] \union {NameOf(ask[p])} \subseteq listed[p]
    BY DEF PageHasEarlier
  <2>1. before[p] \subseteq Present(RoomId(ask[p]))
    BY DEF AskersAsked, Holding
  <2>2. Present(RoomId(ask[p])) = Users[ref[p]]
    BY PresenceAssumption DEF OwnRoom, HasRoom, Present
  <2> QED BY <2>1, <2>2 DEF OwnRoom
<1> QED BY <1>1, <1>2 DEF PresenceInv

LEMMA InitEstablishes == PresenceInit => RoomInv
<1> SUFFICES ASSUME PresenceInit PROVE RoomInv
  OBVIOUS
<1> USE DEF PresenceInit
<1>1. PresenceTypeOK
  BY PresenceAssumption DEF PresenceTypeOK, Tokens
<1>2. HoldersAlone /\ AskersAsked /\ OwnRoom
  BY DEF HoldersAlone, AskersAsked, OwnRoom, Holding, HasRoom
<1>3. RoomsApart /\ Answered
  BY DEF RoomsApart, Answered
<1> QED BY <1>1, <1>2, <1>3 DEF RoomInv

-----------------------------------------------------------------------------
(* Steps that change no room.                                              *)

LEMMA ArrivesKeeps ==
  ASSUME RoomInv, NEW p \in Participants, Arrives(p, "sleep"), UNCHANGED <<rooms, outside>>
  PROVE  RoomInv'
<1> USE DEF RoomInv, Arrives, Step, rooms, outside
<1> PICK a \in MayAskFor[p] :
      ask' = [ask EXCEPT ![p] = a] /\ before' = [before EXCEPT ![p] = Present(RoomId(a))]
  OBVIOUS
<1>1. Present(RoomId(a)) \in SUBSET Names /\ a \in Questions
  BY RoomIdIsId DEF PresenceTypeOK, Present, Questions
<1>2. PresenceTypeOK'
  BY <1>1 DEF PresenceTypeOK
<1>3. HoldersAlone'
  BY DEF HoldersAlone, Holding, PresenceTypeOK
<1>4. AskersAsked'
  BY DEF AskersAsked, Holding, Present, PresenceTypeOK
<1>5. OwnRoom'
  BY DEF OwnRoom, HasRoom, PresenceTypeOK
<1>6. (RoomsApart /\ Answered)'
  BY DEF RoomsApart, Answered, Present, PresenceTypeOK
<1> QED BY <1>2, <1>3, <1>4, <1>5, <1>6

LEMMA LockKeeps ==
  ASSUME RoomInv, NEW p \in Participants, Lock(p)
  PROVE  RoomInv'
<1> USE DEF RoomInv, Lock, Step, pages, outside
<1>1. PresenceTypeOK'
  BY DEF PresenceTypeOK
<1>2. HoldersAlone'
  BY PresenceAssumption DEF HoldersAlone, Holding, PresenceTypeOK
<1>3. (AskersAsked /\ OwnRoom)'
  BY DEF AskersAsked, OwnRoom, Holding, HasRoom, Present, PresenceTypeOK
<1>4. (RoomsApart /\ Answered)'
  BY DEF RoomsApart, Answered, Present, PresenceTypeOK
<1> QED BY <1>1, <1>2, <1>3, <1>4

LEMMA FindRoomKeeps ==
  ASSUME RoomInv, NEW p \in Participants, FindRoom(p)
  PROVE  RoomInv'
<1> USE DEF RoomInv, FindRoom, Step, rooms, outside
<1>1. RoomId(ask[p]) \in Ids
  BY RoomIdIsId
<1>2. PresenceTypeOK'
  BY <1>1 DEF PresenceTypeOK
<1>3. HoldersAlone'
  BY DEF HoldersAlone, Holding, PresenceTypeOK
<1>4. AskersAsked'
  BY DEF AskersAsked, Holding, Present, PresenceTypeOK
<1>5. OwnRoom'
  BY <1>1 DEF OwnRoom, HasRoom, PresenceTypeOK
<1>6. (RoomsApart /\ Answered)'
  BY DEF RoomsApart, Answered, Present, PresenceTypeOK
<1> QED BY <1>2, <1>3, <1>4, <1>5, <1>6

LEMMA RenderKeeps ==
  ASSUME RoomInv, NEW p \in Participants, Render(p)
  PROVE  RoomInv'
<1> USE DEF RoomInv, Render, Step, rooms, outside
<1>1. Users[ref[p]] \in SUBSET Names
  BY DEF PresenceTypeOK
<1>2. PresenceTypeOK'
  BY <1>1 DEF PresenceTypeOK
<1>3. HoldersAlone'
  BY DEF HoldersAlone, Holding, PresenceTypeOK
<1>4. AskersAsked'
  BY DEF AskersAsked, Holding, Present, PresenceTypeOK
<1>5. OwnRoom'
  BY DEF OwnRoom, HasRoom, PresenceTypeOK
<1>6. (RoomsApart /\ Answered)'
  BY DEF RoomsApart, Answered, Present, PresenceTypeOK
<1> QED BY <1>2, <1>3, <1>4, <1>5, <1>6

LEMMA WriteKeeps ==
  ASSUME RoomInv, NEW p \in Participants, Write(p)
  PROVE  RoomInv'
<1> USE DEF RoomInv, Write, UnlockBy, Step, outside
<1>1. room_lock = p
  BY DEF HoldersAlone, Holding
<1>2. PresenceTypeOK'
  BY DEF PresenceTypeOK
<1>3. HoldersAlone'
  BY <1>1 DEF HoldersAlone, Holding, PresenceTypeOK
<1>4. AskersAsked'
  BY DEF AskersAsked, Holding, Present, PresenceTypeOK
<1>5. OwnRoom'
  BY DEF OwnRoom, HasRoom, PresenceTypeOK
<1>6. NameOf(ask[p]) \in Present(RoomId(ask[p]))
  BY PresenceAssumption DEF OwnRoom, HasRoom, Present
<1>7. (RoomsApart /\ Answered)'
  BY <1>6 DEF RoomsApart, Answered, Present, PresenceTypeOK
<1> QED BY <1>2, <1>3, <1>4, <1>5, <1>7

\* The client panics or is started again, or something outside changes.
LEMMA OutsideKeeps ==
  ASSUME RoomInv, NEW p \in Participants, UNCHANGED <<ask, rooms, pages>>,
         PresenceTypeOK',
         doing' = doing \/ Step(p, "sleep", "panicked") \/ Step(p, "panicked", "sleep")
  PROVE  RoomInv'
<1> USE DEF RoomInv, Step, rooms, pages
<1>1. HoldersAlone'
  BY DEF HoldersAlone, Holding, PresenceTypeOK
<1>2. AskersAsked'
  BY DEF AskersAsked, Holding, Present, PresenceTypeOK
<1>3. OwnRoom'
  BY DEF OwnRoom, HasRoom, PresenceTypeOK
<1>4. (RoomsApart /\ Answered)'
  BY DEF RoomsApart, Answered, Present, PresenceTypeOK
<1> QED BY <1>1, <1>2, <1>3, <1>4

-----------------------------------------------------------------------------
(* Steps that change a room: only its holder of the lock has it.           *)

\* The map that is made is the room of no other id, so emptying it empties no room.
LEMMA MakeRoomKeeps ==
  ASSUME RoomInv, NEW p \in Participants, MakeRoom(p)
  PROVE  RoomInv'
<1> DEFINE i == RoomId(ask[p])
           new == <<p, i>>
<1> USE DEF RoomInv, MakeRoom, Step, outside
<1>1. i \in Ids /\ new \in Maps /\ new # None /\ new[2] = i
  BY RoomIdIsId, PresenceAssumption DEF Maps
<1>2. Rooms[i] = None
  BY DEF OwnRoom
<1>3. \A j \in Ids : Rooms[j] # new
  BY <1>1, <1>2 DEF RoomsApart
<1>4. \A q \in Participants : q # p => doing[q] \notin Holding
  BY DEF HoldersAlone, Holding
<1> HIDE DEF new
<1>5. \A j \in Ids : Present(j) \subseteq Present(j)'
  <2> SUFFICES ASSUME NEW j \in Ids, Rooms[j] # None
               PROVE  Rooms'[j] = Rooms[j] /\ Users'[Rooms[j]] = Users[Rooms[j]]
    BY <1>1 DEF Present
  <2> QED BY <1>1, <1>2, <1>3 DEF PresenceTypeOK, new
<1>6. PresenceTypeOK'
  BY <1>1 DEF PresenceTypeOK, new
<1>7. HoldersAlone'
  BY DEF HoldersAlone, Holding, PresenceTypeOK
<1>8. AskersAsked'
  BY <1>5, RoomIdIsId DEF AskersAsked, Holding, PresenceTypeOK
<1>9. OwnRoom'
  BY <1>1, <1>4 DEF OwnRoom, HasRoom, Holding, PresenceTypeOK, new
<1>10. RoomsApart'
  BY <1>1 DEF RoomsApart, PresenceTypeOK, new
<1>11. Answered'
  BY <1>5, RoomIdIsId DEF Answered, PresenceTypeOK
<1> QED BY <1>6, <1>7, <1>8, <1>9, <1>10, <1>11

LEMMA RecordKeeps ==
  ASSUME RoomInv, NEW p \in Participants, Record(p)
  PROVE  RoomInv'
<1> USE DEF RoomInv, Record, Step, pages, outside
<1>1. NameOf(ask[p]) \in Names
  BY NamesAreNames DEF AskersAsked, Holding
<1>2. ref[p] \in Maps
  BY DEF OwnRoom, HasRoom
<1>3. \A m \in Maps : Users[m] \subseteq Users'[m]
  BY <1>2 DEF PresenceTypeOK
<1>4. \A j \in Ids : Present(j) \subseteq Present(j)'
  BY <1>3 DEF Present, PresenceTypeOK
<1>5. \A q \in Participants : q # p => doing[q] \notin Holding
  BY DEF HoldersAlone, Holding
<1>6. PresenceTypeOK'
  BY <1>1, <1>2 DEF PresenceTypeOK
<1>7. HoldersAlone'
  BY DEF HoldersAlone, Holding, PresenceTypeOK
<1>8. AskersAsked'
  BY <1>4, RoomIdIsId DEF AskersAsked, Holding, PresenceTypeOK
<1>9. OwnRoom'
  BY <1>2, <1>5 DEF OwnRoom, HasRoom, Holding, PresenceTypeOK
<1>10. RoomsApart'
  BY DEF RoomsApart, PresenceTypeOK
<1>11. Answered'
  BY <1>4, RoomIdIsId DEF Answered, PresenceTypeOK
<1> QED BY <1>6, <1>7, <1>8, <1>9, <1>10, <1>11

-----------------------------------------------------------------------------
LEMMA StepKeeps == RoomInv /\ [PresenceNext]_presenceVars => RoomInv'
<1> SUFFICES ASSUME RoomInv, [PresenceNext]_presenceVars PROVE RoomInv'
  OBVIOUS
<1>1. CASE UNCHANGED presenceVars
  BY <1>1 DEF presenceVars, asking, rooms, pages, outside, RoomInv, PresenceTypeOK,
       HoldersAlone, AskersAsked, OwnRoom, RoomsApart, Answered, Present
<1>2. ASSUME NEW p \in Participants, BrowserAsks(p) PROVE RoomInv'
  BY <1>2, ArrivesKeeps DEF BrowserAsks
<1>3. ASSUME NEW p \in Participants, HandleRoom(p) PROVE RoomInv'
  BY <1>3, LockKeeps, FindRoomKeeps, MakeRoomKeeps, RecordKeeps, RenderKeeps, WriteKeeps
     DEF HandleRoom
<1>4. ASSUME NEW p \in Participants, ClientAsks(p) PROVE RoomInv'
  <2>1. CASE Arrives(p, "sleep")
    BY <1>4, <2>1, ArrivesKeeps DEF ClientAsks
  <2>2. CASE Step(p, "sleep", "panicked") /\ UNCHANGED <<ask, pages>>
    <3>1. PresenceTypeOK'
      BY <1>4, <2>2 DEF ClientAsks, RoomInv, PresenceTypeOK, Step, rooms, pages, outside
    <3> QED BY <1>4, <2>2, <3>1, OutsideKeeps DEF ClientAsks
  <2> QED BY <1>4, <2>1, <2>2 DEF ClientAsks
<1>5. ASSUME NEW p \in Participants, Restart(p) PROVE RoomInv'
  <2>1. PresenceTypeOK'
    BY <1>5, PresenceAssumption
       DEF Restart, RoomInv, PresenceTypeOK, Step, rooms, pages
  <2> QED BY <1>5, <2>1, OutsideKeeps DEF Restart
<1>6. ASSUME NEW p \in Participants, Change(p) PROVE RoomInv'
  <2>1. PresenceTypeOK'
    BY <1>6, PresenceAssumption
       DEF Change, RoomInv, PresenceTypeOK, asking, rooms, pages
  <2> QED BY <1>6, <2>1, OutsideKeeps DEF Change, asking
<1> QED BY <1>1, <1>2, <1>3, <1>4, <1>5, <1>6 DEF PresenceNext

\* get_data, handle_users and handle_room: nobody who has had an answer drops out of his
\* room, and a page has everyone who was there, for all participants and requests.
THEOREM PresenceKept == PresenceSpec => []PresenceInv
<1>1. RoomInv => PresenceInv
  BY InvImplies
<1> QED BY <1>1, InitEstablishes, StepKeeps, PTL DEF PresenceSpec
=============================================================================
