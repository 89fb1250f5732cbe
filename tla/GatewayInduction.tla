-------------------------- MODULE GatewayInduction --------------------------
(***************************************************************************)
(* The inductive invariants behind the properties of Gateway: SessionInv,  *)
(* what each step of a request may rely on, which GatewaySessionProofs     *)
(* proves, and AccountInv, what requests have shown for themselves, which  *)
(* GatewayAccountProofs proves.                                            *)
(***************************************************************************)
EXTENDS GatewayRefinement

FirstLogin == {"totplogin", "callback", "develop"}

\* A request that makes an account knows what the account is made of.
Applicant(r) ==
  \/ /\ req[r].handler = "totplogin"
     /\ req[r].name \in Names
     /\ snap[r] \in Entries
     /\ snap[r][req[r].name] # None
  \/ req[r].handler \in {"callback", "develop"} /\ req[r].foreign \in AllForeign

\* The handler of r and what it has at hand, at each step.
Prepared(r) ==
  /\ at[r] \in {"forward", "recheck", "load", "newToken", "index", "remap", "send"}
       \union Locked => id[r] \in Ids
  /\ at[r] \in {"index", "remap", "send"} \union Locked => user[r] \in User
  /\ at[r] = "authenticate" => req[r].handler \in ManagementHandlers \union {"relay"}
  /\ at[r] \in {"recheck", "show"} => req[r].handler \in ManagementHandlers
  /\ at[r] = "recheck" => req[r].token # None
  /\ at[r] = "readForm" => req[r].handler = "updateUser"
  /\ at[r] \in {"checkName", "saveName", "indexName"} =>
       req[r].handler = "updateUser" /\ req[r].name \in Names
  /\ at[r] \in {"loginLookup", "loginPending"} => req[r].handler = "totplogin"
  /\ at[r] \in {"signupLookup", "signupPending"} => req[r].handler = "totpsignup"
  /\ at[r] \in {"loginPending", "signupPending"} => req[r].name \in Names
  /\ at[r] = "lookupForeign" =>
       req[r].handler = "callback" /\ req[r].foreign \in AllForeign
  /\ at[r] = "load" => req[r].handler \in {"totplogin", "callback"}
  /\ at[r] \in {"create", "newToken", "index"} => Applicant(r)
  /\ at[r] \in {"mapToken", "saveToken", "dropOld"} =>
       req[r].handler = "newToken" \/ Applicant(r)
  /\ at[r] = "remap" => req[r].handler \in {"callback", "develop"}
  /\ at[r] \in {"truncate", "fill"} =>
       /\ req[r].name \in Names /\ snap[r] \in Entries
       /\ \/ req[r].handler = "totpsignup"
          \/ req[r].handler = "totplogin" /\ id[r] \in Ids /\ user[r] \in User
  /\ at[r] = "send" => req[r].handler \in FirstLogin

TypeInv == TypeOK /\ \A r \in Requests : Prepared(r)

-----------------------------------------------------------------------------
(* What holds of a request by itself.                                      *)

\* b.mu is held exactly during the steps of critical sections.
Mutex(r) == at[r] \in Locked <=> mu = r

\* Until it rotates the token, the holder of b.mu has the record that the store
\* has; it presented its token, or it is making the account and there is none.
HoldsRecord(r) ==
  at[r] \in Locked \ {"dropOld"} =>
    /\ users[id[r]] = user[r]
    /\ \/ /\ req[r].handler \in ManagementHandlers
          /\ user[r].token = req[r].token /\ req[r].token # None
       \/ /\ req[r].handler \in FirstLogin
          /\ at[r] \in {"mapToken", "saveToken"}
          /\ id[r] = r /\ user[r].token = None

\* Only request r makes account r, and nobody else finds it before r indexes it.
NewAccount(r) ==
  /\ at[r] \in {"idle", "lookupForeign", "loginLookup", "loginPending", "create"}
       => users[r] = None
  /\ at[r] = "newToken" =>
       id[r] = r /\ Readable(users[r]) /\ users[r].token = None

\* Token t is not the fresh token of a request that has yet to save it.
Spent(t) == t = None \/ at[t] \in PastSave

\* What request r has loaded or answered is no fresh token.
HoldsSpent(r) ==
  /\ user[r] # None => Spent(user[r].token)
  /\ Spent(answer[r].token)
  /\ r \in Settled => at[r] = "done"

\* The steps of a rotation: the new mapping, then the record, then the old
\* mapping, which no account needs any more.
RotationOrder(r) ==
  /\ at[r] = "saveToken" => sessionTokens[r] = id[r]
  /\ at[r] = "dropOld" =>
       /\ users[id[r]] = Rotated(r)
       /\ sessionTokens[r] = id[r]
       /\ \A i \in Ids : ~(user[r].token # None /\ CurrentToken(i, user[r].token))
       /\ user[r].token # r
       /\ req[r].handler \in FirstLogin => id[r] = r
  /\ at[r] \in {"index", "remap"} =>
       /\ id[r] = r /\ user[r].token = r
       /\ sessionTokens[r] # Torn
       /\ \A i \in Ids : CurrentToken(i, r) => i = r

\* An account with a token and a secret, or a record that cannot be read.
Complete(i) ==
  \/ users[i] = Torn
  \/ Readable(users[i]) /\ users[i].token # None /\ users[i].otp # None

RequestInv(r) ==
  /\ Mutex(r) /\ HoldsRecord(r) /\ NewAccount(r) /\ HoldsSpent(r)
  /\ RotationOrder(r)
  /\ at[r] = "index" => Complete(r)

-----------------------------------------------------------------------------
(* What holds of the store.                                                *)

SpentRecords == \A i \in Ids : Readable(users[i]) => Spent(users[i].token)

\* A token is the current token of at most one account.
OneAccountPerToken ==
  \A i, j \in Ids, t \in Tokens : CurrentToken(i, t) /\ CurrentToken(j, t) => i = j

\* An account has a secret as soon as it has a token, and both before it is
\* indexed.
AccountsComplete ==
  /\ \A i \in Ids : Readable(users[i]) /\ users[i].token # None => Complete(i)
  /\ \A n \in Names : userNames[n] \in Ids => Complete(userNames[n])
  /\ \A f \in AllForeign : foreignIDs[f] \in Ids => Complete(foreignIDs[f])

StoreInv ==
  /\ SpentRecords /\ OneAccountPerToken /\ CurrentTokenIsMapped
  /\ AccountsComplete

\* Together they are inductive: what a client holds is spent, the holder of b.mu
\* mirrors its record, and so no write brings an older token back.
SessionInv ==
  /\ TypeInv
  /\ \A r \in Requests : RequestInv(r)
  /\ StoreInv

-----------------------------------------------------------------------------
(* What a request has shown for itself.                                    *)

\* A request that is under way has not been answered; a token that is presented has
\* been given out; two pages are for one handler only.
Served(r) ==
  /\ answer[r].status = "ok" => at[r] = "done"
  /\ Spent(req[r].token)
  /\ at[r] = "forward" => req[r].handler = "relay"
  /\ at[r] = "show" => req[r].handler = "tokenShow"

\* A rotation that has saved the record has taken the token it presented out of use,
\* and nobody else has.
Rotates(r) ==
  req[r].handler = "newToken" /\ (at[r] = "dropOld" \/ answer[r].status = "ok")
TokenUsedUp(r) ==
  Rotates(r) =>
    req[r].token # None /\ \A i \in Ids : ~CurrentToken(i, req[r].token)
RotatedOnce ==
  \A r, q \in Requests : Rotates(r) /\ Rotates(q) /\ req[r].token = req[q].token => r = q

\* The authenticator of account i has secret s; nothing changes it any more.
HasSecret(i, s) ==
  users[i] = Torn \/ (Readable(users[i]) /\ users[i].otp = s /\ s \in Requests)

\* What a login knows of the account, at each step of both ways it can take.
SecretShown(r) ==
  req[r].handler = "totplogin" =>
    /\ at[r] = "load" => Complete(id[r])
    /\ at[r] = "create" => snap[r][req[r].name].otp = req[r].secret
    /\ at[r] \in {"newToken", "mapToken", "saveToken", "dropOld", "index", "truncate",
                  "fill", "send"} => HasSecret(id[r], req[r].secret)
    /\ answer[r].status = "ok" =>
         answer[r].id \in Ids /\ HasSecret(answer[r].id, req[r].secret)

\* Only the operator approves: entries of the file, and of every snapshot of it.
ApprovedByOperator(entries) ==
  \A n \in Names : entries[n] # None /\ entries[n].approved => entries[n].otp \in approvals
Promotable(r) ==
  /\ snap[r] # None => ApprovedByOperator(snap[r])
  /\ at[r] = "create" /\ req[r].handler = "totplogin" => snap[r][req[r].name].approved

AccountInv ==
  /\ SessionInv
  /\ \A r \in Requests : Served(r) /\ TokenUsedUp(r) /\ SecretShown(r) /\ Promotable(r)
  /\ RotatedOnce
  /\ pending \in Entries => ApprovedByOperator(pending)
  /\ PromotionNeedsApproval

-----------------------------------------------------------------------------
(* What holds of the mappings until something fails, where no handler maps *)
(* a token outside the critical section, as setupNewUser does.             *)

NoRemaps == Handlers \intersect {"callback", "develop"} = {}

\* r has mapped its token t and has yet to save the record, or has saved the record
\* and has yet to drop the old token t.
Replacing(r, t) ==
  \/ at[r] = "saveToken" /\ t = r
  \/ at[r] = "dropOld" /\ t = user[r].token

ExactInv ==
  /\ \A r \in Requests : req[r].handler \in Handlers \union {None}
  /\ faults = 0 =>
       \A t \in Tokens :
         /\ sessionTokens[t] # Torn
         /\ sessionTokens[t] \in Ids =>
              Authenticates(t) \/ \E r \in Requests : Replacing(r, t)

-----------------------------------------------------------------------------
(* What holds of the names until something fails.                          *)

MadeByLogin(i) == req[i].handler = "totplogin"
Named(i, n) == Readable(users[i]) /\ users[i].name = n /\ n # None

\* b.mu keeps two renames apart and the index keeps a later one from an earlier one,
\* but a TOTP login makes its account without a look at either.
SharedNamesAreLogins ==
  \A i, j \in Ids, n \in Names :
    Named(i, n) /\ Named(j, n) /\ i # j => MadeByLogin(i) \/ MadeByLogin(j)

\* The name is in the index, or the request that saved it is about to put it there.
Claimed(n) ==
  userNames[n] # None \/ \E r \in Requests : at[r] = "indexName" /\ req[r].name = n

\* Only requests that can rename, sign up or log in present a name.
NamesPresented ==
  \A r \in Requests : req[r].handler \in {None, "callback", "develop"} => req[r].name = None

NamesInv ==
  /\ NamesPresented
  /\ faults = 0 =>
       /\ SharedNamesAreLogins
       /\ \A i \in Ids, n \in Names : Named(i, n) /\ ~MadeByLogin(i) => Claimed(n)
       /\ \A r \in Requests, i \in Ids :
            at[r] = "saveName" /\ Named(i, req[r].name) => MadeByLogin(i)

\* Where nobody signs up no entry is ever approved, and no login makes an account.
NoSignups == "totpsignup" \notin Handlers

NoPromotions ==
  /\ \A r \in Requests : req[r].handler \in Handlers \union {None}
  /\ pending = NoEntries
  /\ \A r \in Requests : snap[r] = None
  /\ \A r \in Requests : MadeByLogin(r) => users[r] = None
=============================================================================
