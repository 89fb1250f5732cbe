------------------------- MODULE GatewayProperties -------------------------
(***************************************************************************)
(* What the account and session store of Gateway promises.                 *)
(***************************************************************************)
EXTENDS Gateway

\* The record of account i is readable and t is its token.
CurrentToken(i, t) == Readable(users[i]) /\ users[i].token = t

\* Request r called handler h and was answered "ok".
Succeeded(r, h) == req[r].handler = h /\ answer[r].status = "ok"

\* Types of all variables (the Go types of authDB, userData_t, pendingStore).
TypeOK ==
  /\ users \in [Ids -> User \union {None, Torn}]
  /\ sessionTokens \in [Tokens -> Ids \union {None, Torn}]
  /\ foreignIDs \in [AllForeign -> Ids \union {None, Torn}]
  /\ userNames \in [Names -> Ids \union {None, Torn}]
  /\ pending \in Entries \union {Empty, Garbled}
  /\ approvals \subseteq Requests
  /\ mu \in Requests \union {None}
  /\ at \in [Requests -> Steps]
  /\ req \in [Requests -> Request]
  /\ id \in [Requests -> Ids \union {None}]
  /\ user \in [Requests -> User \union {None}]
  /\ snap \in [Requests -> Entries \union {None}]
  /\ answer \in [Requests -> Answer]
  /\ faults \in Nat

-----------------------------------------------------------------------------
(* Sessions.                                                               *)

\* SPEC.md "an old mapping cannot authenticate after rotation": once a token
\* that was given to a client stops authenticating, nothing (no request that
\* was under way, no failed write, no restart) makes it authenticate again.
RevokedForGood ==
  [][\A t \in Tokens :
       t \in Cookies /\ ~Authenticates(t) => ~Authenticates(t)']_vars

\* rotateUserTokenLocked saves the mapping before the record: the current
\* token of an account always has its mapping, or one that the unchecked
\* Set of setupNewUser left unreadable.
CurrentTokenIsMapped ==
  \A i \in Ids, t \in Tokens :
    CurrentToken(i, t) => sessionTokens[t] \in {i, Torn}

\* The file of the mapping of a current token stays readable as long as no
\* storage write fails: a cookie is rejected only because it was revoked.
CurrentTokenAuthenticates ==
  \A i \in Ids, t \in Tokens : CurrentToken(i, t) => Authenticates(t)

\* SPEC.md "a request authenticated before rotation cannot subsequently update
\* the account with the revoked token": an account that has a token changes
\* only by the holder of b.mu, and only if it presented that very token.
OnlyCurrentTokenChangesAccount ==
  [][\A i \in Ids :
       Readable(users[i]) /\ users[i].token # None /\ users'[i] # users[i] =>
         \E r \in Requests : mu = r /\ req[r].token = users[i].token]_vars

\* newTokenHandler: of all requests that present the same token, however they
\* interleave, at most one is answered with a new token.
OneRotationPerToken ==
  \A r, q \in Requests :
    /\ Succeeded(r, "newToken") /\ Succeeded(q, "newToken")
    /\ req[r].token = req[q].token
    => r = q

\* newTokenHandler answers with the token that is current at that moment, and
\* no longer with one that a concurrent rotation has replaced.
RotationReplyIsCurrent ==
  [][\A r \in Requests :
       Succeeded(r, "newToken")' /\ ~Succeeded(r, "newToken") =>
         Authenticates(answer[r].token)']_vars

\* rotateUserTokenLocked keeps the enrollment: a readable record that changes
\* its token to another token keeps its name, foreign id and secret.
RotationKeepsEnrollment ==
  [][\A i \in Ids :
       Readable(users[i]) /\ Readable(users'[i])
       /\ users[i].token \notin {None, users'[i].token} =>
         users'[i] = [users[i] EXCEPT !.token = users'[i].token]]_vars

\* newTokenHandler, rotateUserTokenLocked: a rotation replaces the token and nothing
\* else, and its answer has the token that is current then.
RotationComplete == RotationReplyIsCurrent /\ RotationKeepsEnrollment

-----------------------------------------------------------------------------
(* Accounts.                                                               *)

\* setupTOTPUser and setupNewUser index an account only when it has a token
\* and a secret: no index leads a login to a half-made account.
IndexedAccountsComplete ==
  \A i \in Ids :
    i \in {userNames[n] : n \in Names} \union {foreignIDs[f] : f \in AllForeign} =>
      \/ users[i] = Torn
      \/ Readable(users[i]) /\ users[i].token # None /\ users[i].otp # None

\* totploginHandler: a successful login presented a code of the authenticator
\* of the account whose token it was given.
LoginProvesSecret ==
  \A r \in Requests :
    Succeeded(r, "totplogin") =>
      users[answer[r].id] = Torn \/ users[answer[r].id].otp = req[r].secret

\* totploginHandler makes an account of a signup only after the operator has
\* approved that signup, not an earlier or a later one under the same name.
PromotionNeedsApproval ==
  \A i \in Ids \ Settled :
    Readable(users[i]) /\ req[i].handler = "totplogin" => users[i].otp \in approvals

\* main.go "Username already exists", "Check username not already taken by a
\* full user": no two accounts have the same user name.
NamesUnique ==
  \A i, j \in Ids :
    Readable(users[i]) /\ Readable(users[j])
    /\ users[i].name = users[j].name /\ users[i].name # None => i = j

\* SPEC.md "removes the old mapping": between critical sections no mapping
\* leads to an account whose current token is another one.
NoObsoleteMapping ==
  mu = None => \A t \in Tokens : sessionTokens[t] \in Ids => Authenticates(t)

\* The mappings are exactly the current tokens as long as no storage write fails: a
\* cookie is rejected only because it was revoked, and no other is accepted
\* (rotateUserTokenLocked, sessionTokenToId).
ExactMappings == CurrentTokenAuthenticates /\ NoObsoleteMapping

\* README.md "A unique user id. It never changes": an OAuth identity has one
\* account.
OneAccountPerForeignID ==
  \A i, j \in Ids :
    Readable(users[i]) /\ Readable(users[j])
    /\ users[i].foreign = users[j].foreign /\ users[i].foreign # None => i = j

\* totpsignupHandler "Once scanned, wait for approval before logging in": the
\* secret of a successful signup is pending or has become an account's.
SignupKept ==
  \A r \in Requests :
    Succeeded(r, "totpsignup") /\ pending \in Entries =>
      \/ pending[req[r].name] # None /\ pending[req[r].name].otp = r
      \/ \E i \in Ids : Readable(users[i]) /\ users[i].otp = r

-----------------------------------------------------------------------------
(* Progress.                                                               *)

\* Request r is reading its client's form.
ReadsForm(r) == at[r] = "readForm"

\* Request r reads its form, or is about to take b.mu, which is held by a
\* request that reads its form (updateUserHandler, below b.mu.Lock()).
HeldUp(r) ==
  \/ ReadsForm(r)
  \/ /\ at[r] \in {"authenticate", "recheck", "load", "create", "newToken"}
     /\ \E q \in Requests : mu = q /\ ReadsForm(q)

\* No handler returns or panics with b.mu held, and none waits for another that
\* waits for it: a request is answered unless a client that does not send its form
\* holds it up (updateUserHandler), and every request is answered if
\* each form is sent or given up at last.
EveryRequestAnswered ==
  /\ \A r \in Requests : at[r] # "idle" ~> at[r] = "done" \/ HeldUp(r)
  /\ (\A q \in Requests : []<>~ReadsForm(q)) =>
       \A r \in Requests : at[r] # "idle" ~> at[r] = "done"
=============================================================================
