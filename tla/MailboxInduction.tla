-------------------------- MODULE MailboxInduction --------------------------
(***************************************************************************)
(* The inductive invariant behind MailboxInv.  Of a user who takes turns,  *)
(* no handler starts while another one is at work whose connection is      *)
(* whole.  So what a check has taken is no longer in the mailbox, unless a *)
(* commit failed or the server died in between; and what was stored while  *)
(* no earlier request was left behind is changed by later requests only:   *)
(* those that store, and checks that have fetched it.                      *)
(***************************************************************************)
EXTENDS MailboxProperties

\* What is left of a handler.
ToFetch == <<"fetch", "reply", "clear", "return">>
ToReply == <<"reply", "clear", "return">>
ToClear == <<"clear", "return">>
ToReturn == <<"return">>
ToLook == <<"fetch", "reply", "return">>
ToShow == <<"reply", "return">>
ToStore == <<"store", "return">>
Rests(op) ==
  CASE op = "check" -> {<<>>, ToFetch, ToReply, ToClear, ToReturn}
    [] op = "image" -> {<<>>, ToLook, ToShow, ToReturn}
    [] op \in {"send", "upload"} -> {<<>>, ToStore, ToReturn}
    [] op = "noFile" -> {<<>>, <<"panic">>}
    [] op = "shutdown" -> {<<>>, <<"exit">>}

Asked == {m \in Mails : mail[m] # NoMail}
MailTyped ==
  /\ mail \in [Mails -> [user : MailUsers, op : MailOps, turn : Nat] \union {NoMail}]
  /\ DOMAIN steps = Mails
  /\ fetched \in [Mails -> Mails \union {NoMail}]
  /\ received \in [Mails -> Mails \union {NoMail}]
  /\ answered \subseteq Mails /\ mishaps \subseteq {"crash", "commit"}
  /\ gone \subseteq Asked
  /\ bucket \in BOOLEAN
  /\ message \in [MailUsers -> Mails \union {NoMail}] /\ message[NoId] = NoMail
\* A request that has not come has done nothing; one that is answered has ended, and
\* its device has got what its handler has read.
Handling ==
  \A m \in Mails :
    /\ mail[m] = NoMail => steps[m] = <<>> /\ fetched[m] = NoMail /\ received[m] = NoMail
                           /\ m \notin answered
    /\ mail[m] # NoMail => steps[m] \in Rests(mail[m].op)
    /\ m \in answered => steps[m] = <<>> /\ m \notin gone /\ received[m] = fetched[m]

\* Turns are counted up, and of a user who takes turns only the last request is handled
\* with a device that waits for it.
Counted ==
  /\ IsFiniteSet(Asked)
  /\ \A m \in Asked : mail[m].turn < Cardinality(Asked)
  /\ \A m, n \in Asked : m # n => mail[m].turn # mail[n].turn
InTurns ==
  \A m, n \in Asked :
    (/\ m # n /\ Owner(m) = Owner(n) /\ Owner(m) \in TakesTurns
     /\ steps[m] # <<>> /\ m \notin gone) => mail[n].turn < mail[m].turn

\* x is a message of the user u that has been stored.
Stored(x, u) == x \in Asked /\ Owner(x) = u /\ steps[x] # ToStore
Carried ==
  /\ \A u \in MailUsers : message[u] # NoMail => Stored(message[u], u)
  /\ \A m \in Mails : fetched[m] # NoMail => Stored(fetched[m], Owner(m))
  /\ \A m \in Mails : received[m] # NoMail => received[m] = fetched[m]
  /\ \A m \in Mails :
       /\ steps[m] \in {ToFetch, ToLook} => fetched[m] = NoMail
       /\ steps[m] \in {ToReply, ToShow} => received[m] = NoMail
       /\ steps[m] = ToClear /\ received[m] # NoMail => received[m] \in Large

\* A check that has come to its clear, and one that is over.
Cleared ==
  \A m \in Asked :
    (/\ mail[m].op = "check" /\ fetched[m] # NoMail /\ "commit" \notin mishaps
     /\ steps[m] = ToReturn \/ (steps[m] = <<>> /\ received[m] # NoMail))
    => message[Owner(m)] # fetched[m]
       \/ (steps[m] = <<>> /\ fetched[m] \in Large /\ "crash" \in mishaps)
Ended ==
  \A m \in Asked :
    (mail[m].op = "check" /\ Owner(m) # NoId /\ fetched[m] # NoMail /\ steps[m] = <<>>) =>
      m \in answered \/ CutShort(m)

\* The check m has given x to its device, or is about to.
Has(m, x) == received[m] = x \/ (steps[m] # <<>> /\ m \notin gone /\ fetched[m] = x)
Once ==
  \A u \in TakesTurns : \A m, n \in Checks(u) : \A x \in Mails :
    m # n /\ Has(m, x) /\ Has(n, x) =>
      "commit" \in mishaps \/ (x \in Large /\ (CutShort(m) \/ CutShort(n)))

\* A check that comes after x was stored, and is about to clear it, has fetched it.
Reading ==
  \A m \in Asked : \A x \in Asked \ (Short \union gone) :
    (/\ mail[m].op = "check" /\ steps[m] \in {ToReply, ToClear}
     /\ Owner(m) = Owner(x) /\ Owner(x) \in TakesTurns
     /\ mail[x].turn < mail[m].turn /\ message[Owner(x)] = x) => fetched[m] = x

\* x is stored, and its device is told so, or is about to be.
Promised(x) == x \in answered \/ (steps[x] = ToReturn /\ x \notin gone)
Kept ==
  \A x \in Asked \ Short :
    (/\ mail[x].op \in Stores /\ Owner(x) \in TakesTurns /\ Promised(x)
     /\ "commit" \notin mishaps) =>
      \/ message[Owner(x)] = x
      \/ Superseded(x) \/ Overtook(x)
      \/ \E m \in Checks(Owner(x)) : fetched[m] = x

MailInv ==
  /\ MailTyped /\ Handling /\ Counted /\ InTurns /\ Carried
  /\ Cleared /\ Ended /\ Once /\ Reading /\ Kept
=============================================================================
