------------------------- MODULE MailboxProperties -------------------------
(***************************************************************************)
(* What the mailboxes promise.                                             *)
(***************************************************************************)
EXTENDS Mailbox

\* Types of all variables; nobody without an identity has a mailbox.
MailTypeOK ==
  /\ fetched \in [Mails -> Mails \union {NoMail}]
  /\ received \in [Mails -> Mails \union {NoMail}]
  /\ answered \subseteq Mails /\ gone \subseteq Mails /\ mishaps \subseteq {"crash", "commit"}
  /\ message \in [MailUsers -> Mails \union {NoMail}] /\ message[NoId] = NoMail
  /\ \A m \in Mails : steps[m] # <<>> => mail[m] # NoMail

\* A device gets only what was stored for its own user.
OwnMailOnly ==
  \A m \in Mails : received[m] # NoMail => Owner(received[m]) = Owner(m)

\* A user whose devices take turns takes a message from his mailbox once: twice only
\* if the commit that clears it has failed or, for a message that is sent on before
\* it is cleared, if its connection or the server has broken down in between, with the
\* end of the answer still to be sent (checkHandler).
Checks(u) == {m \in Mails : mail[m] # NoMail /\ Owner(m) = u /\ mail[m].op = "check"}
CutShort(m) == m \in gone \/ "crash" \in mishaps
NeverTwice ==
  \A u \in TakesTurns : \A m, n \in Checks(u) :
    (m # n /\ received[m] # NoMail /\ received[m] = received[n]) =>
      "commit" \in mishaps \/ (received[m] \in Large /\ (CutShort(m) \/ CutShort(n)))

\* What such a user was told is stored stays until he stores something else, or a
\* check of his has fetched it.  That check brings it to its device, and all of it,
\* unless its own connection or the server breaks down: checkHandler clears the message
\* all the same.  Nothing is promised if a request of his broke off before, which may
\* still clear or store when it is thought to be over; nor of a message of one byte,
\* which Get takes for none.
Stores == {"send", "upload"}
Superseded(x) ==
  \E y \in Mails : /\ mail[y] # NoMail /\ Owner(y) = Owner(x)
                    /\ mail[y].op \in Stores /\ mail[y].turn > mail[x].turn
Overtook(x) ==
  \E y \in gone : Owner(y) = Owner(x) /\ mail[y].turn < mail[x].turn
Takes(m, x) ==
  fetched[m] = x /\ (steps[m] # <<>> \/ CutShort(m) \/ (m \in answered /\ received[m] = x))
NeverLost ==
  \A x \in answered \ Short :
    (mail[x].op \in Stores /\ Owner(x) \in TakesTurns /\ "commit" \notin mishaps) =>
      \/ message[Owner(x)] = x
      \/ Superseded(x) \/ Overtook(x)
      \/ \E m \in Checks(Owner(x)) : Takes(m, x)

\* The mailboxes are typed, each user's own, and a message is neither repeated nor lost.
MailboxInv == MailTypeOK /\ OwnMailOnly /\ NeverTwice /\ NeverLost
=============================================================================
