------------------------------ MODULE Gateway ------------------------------
(***************************************************************************)
(* The account and session store of the gateway (main.go, auth_tokens.go,  *)
(* io.go, keyval.go, totp_pending.go) and every handler that uses it.      *)
(*                                                                         *)
(* net/http runs each request in a goroutine of its own.  A request is     *)
(* served once, in the steps between which other goroutines can observe or *)
(* change what it uses: one access to a store, to the mutex b.mu, or to    *)
(* the file totp_pending.json.  A request mints at most one account id,    *)
(* one session token and one authenticator secret, all of them random and  *)
(* never repeated, so each is named by the request that mints it.          *)
(***************************************************************************)
EXTENDS Naturals

CONSTANTS
  Requests,    \* HTTP requests; also the ids, tokens and secrets they mint
  Settled,     \* the requests that created the accounts found at start
  Names,       \* user names
  Foreigners,  \* provider name + provider id, as callbackHandler joins them
  DevForeign,  \* the foreign id "1" of developCallbackHandler
  Handlers,    \* the handlers that clients call
  MaxFaults,   \* bound on storage faults and crashes together
  None,        \* absent: no record, no entry, "" or nil
  Torn,        \* a record whose file cannot be decoded
  Empty,       \* totp_pending.json between its truncation and its write
  Garbled      \* totp_pending.json with text that is not JSON

VARIABLES
  users,          \* b.Users: id -> record
  sessionTokens,  \* b.SessionTokens: token -> id
  foreignIDs,     \* b.ForeignIDs: foreign id -> id
  userNames,      \* b.UserNames: name -> id
  pending,        \* the contents of totp_pending.json
  approvals,      \* history: the secrets whose signup the operator approved
  mu,             \* b.mu: the request that holds it, or None
  at,             \* the step each request is about to take
  req,            \* what each request presented
  id,             \* the handler's local id ...
  user,           \* ... its *userData_t ...
  snap,           \* ... and the entries of its *pendingStore
  answer,         \* what each request was answered
  faults          \* faults and crashes so far

tables == <<users, sessionTokens, foreignIDs, userNames>>
file   == <<pending, approvals>>
locals == <<id, user, snap>>
vars   == <<users, sessionTokens, foreignIDs, userNames, pending, approvals,
            mu, at, req, id, user, snap, answer, faults>>

Ids    == Requests
Tokens == Requests
AllForeign == Foreigners \union {DevForeign}

\* userData_t; the QR code is a function of otp and name and is left out.
User == [token : Tokens \union {None}, otp : Requests \union {None},
         name : Names \union {None}, foreign : AllForeign \union {None}]
Entry   == [otp : Requests, approved : BOOLEAN]       \* pendingUser
Entries == [Names -> Entry \union {None}]             \* pendingStore.Users
NoEntries == [n \in Names |-> None]

ManagementHandlers == {"tokenShow", "updateUser", "newToken"}
AllHandlers == ManagementHandlers \union
                 {"relay", "totplogin", "totpsignup", "callback", "develop"}
Request == [handler : AllHandlers \union {None}, token : Tokens \union {None},
            name : Names \union {None}, secret : Requests \union {None},
            foreign : AllForeign \union {None}]
Blank == [handler |-> None, token |-> None, name |-> None, secret |-> None,
          foreign |-> None]

Statuses == {"ok", "frontPage", "stale", "form", "taken", "awaiting",
             "rejected", "failed", "lost", "none"}
Answer == [status : Statuses, id : Ids \union {None},
           token : Tokens \union {None}, secret : Requests \union {None}]
Status(s) == [status |-> s, id |-> None, token |-> None, secret |-> None]

\* Steps a request takes with b.mu held, and all its steps.
Locked == {"readForm", "checkName", "saveName", "indexName", "show",
           "mapToken", "saveToken", "dropOld"}
Steps  == Locked \union
          {"idle", "authenticate", "forward", "recheck", "loginLookup",
           "signupLookup", "load", "lookupForeign", "loginPending",
           "signupPending", "create", "newToken", "index", "remap",
           "truncate", "fill", "send", "done"}

ASSUME GatewayAssumption ==
  /\ Settled \subseteq Requests
  /\ Handlers \subseteq AllHandlers
  /\ MaxFaults \in Nat
  /\ DevForeign \notin Foreigners
  /\ None \notin Requests \union Names \union AllForeign \union User
                   \union Entry \union Entries \union AllHandlers
  /\ Torn \notin Requests \union User \union {None}
  /\ {Empty, Garbled} \intersect Entries = {}
  /\ Empty # Garbled

Readable(u) == u \notin {None, Torn}

\* sessionTokenToId finds an account for token t.
Authenticates(t) ==
  /\ t # None
  /\ sessionTokens[t] \in Ids
  /\ Readable(users[sessionTokens[t]])
  /\ users[sessionTokens[t]].token = t

\* sessionTokenToId panics on token t: the mapping or the record is unreadable.
Undecodable(t) ==
  /\ t # None
  /\ \/ sessionTokens[t] = Torn
     \/ sessionTokens[t] \in Ids /\ users[sessionTokens[t]] = Torn

\* What clients hold: the cookies and the QR codes that answers carried.
Cookies == Settled \union ({answer[r].token : r \in Requests} \ {None})
Authenticators == Settled \union ({answer[r].secret : r \in Requests} \ {None})

-----------------------------------------------------------------------------
(* The store starts with one account for each settled request: an OAuth    *)
(* account, with or without a user name, or a promoted TOTP account.       *)

Distinct(f) == \A s, t \in Settled : f[s] = f[t] /\ f[s] # None => s = t

Found(foreign, name) ==
  /\ Distinct(foreign) /\ Distinct(name)
  /\ \A s \in Settled : foreign[s] # None \/ name[s] # None
  /\ users = [i \in Ids |-> IF i \in Settled
                THEN [token |-> i, otp |-> i, name |-> name[i],
                      foreign |-> foreign[i]]
                ELSE None]
  /\ sessionTokens = [t \in Tokens |-> IF t \in Settled THEN t ELSE None]
  /\ foreignIDs = [f \in AllForeign |->
                     IF \E s \in Settled : foreign[s] = f
                       THEN CHOOSE s \in Settled : foreign[s] = f ELSE None]
  /\ userNames = [n \in Names |->
                    IF \E s \in Settled : name[s] = n
                      THEN CHOOSE s \in Settled : name[s] = n ELSE None]

Init ==
  /\ \E foreign \in [Settled -> Foreigners \union {None}],
        name \in [Settled -> Names \union {None}] : Found(foreign, name)
  /\ pending = NoEntries
  /\ approvals = {}
  /\ mu = None
  /\ at = [r \in Requests |-> IF r \in Settled THEN "done" ELSE "idle"]
  /\ req = [r \in Requests |-> Blank]
  /\ id = [r \in Requests |-> None]
  /\ user = [r \in Requests |-> None]
  /\ snap = [r \in Requests |-> None]
  /\ answer = [r \in Requests |-> Status("none")]
  /\ faults = 0

-----------------------------------------------------------------------------
(* How a request goes on, and how it ends.  Every return and every panic   *)
(* runs the deferred b.mu.Unlock().                                        *)

Step(r, step) == at' = [at EXCEPT ![r] = step] /\ UNCHANGED <<req, answer>>
Goto(r, step) == Step(r, step) /\ UNCHANGED <<mu, id, user, snap>>
NeverReleased(r) == mu                                          \* mutant
Released(r) == IF mu = r THEN None ELSE mu
Reply(r, a) ==
  /\ at' = [at EXCEPT ![r] = "done"]
  /\ answer' = [answer EXCEPT ![r] = a]
  /\ mu' = Released(r)
  /\ id' = [id EXCEPT ![r] = None]
  /\ user' = [user EXCEPT ![r] = None]
  /\ snap' = [snap EXCEPT ![r] = None]
  /\ UNCHANGED req

\* A gokv file write: it happens, or it fails with the old text, the new text
\* or a part of the new text in the file.
Outcomes(old, new) ==
  {[value |-> new, ok |-> TRUE]} \union
    (IF faults < MaxFaults THEN [value : {old, new, Torn}, ok : {FALSE}] ELSE {})
Count(o) == faults' = IF o.ok THEN faults ELSE faults + 1

\* An error of a write that the code checks is a panic.
IgnoreError(r, o, step) == Goto(r, step)                        \* mutant
Continue(r, o, step) ==
  IF o.ok THEN Goto(r, step) ELSE Reply(r, Status("failed"))

\* b.mu.Lock() returns.
NoLock == TRUE                                                  \* mutant
LockFree == mu = None

-----------------------------------------------------------------------------
(* Requests arrive.  A client presents a token, a code or a foreign id it  *)
(* has been given; a code is the secret it was computed from, and None is  *)
(* a code of no account's secret.                                          *)

Receive(r, request, step) ==
  /\ at[r] = "idle"
  /\ request.handler \in Handlers
  /\ at' = [at EXCEPT ![r] = step]
  /\ req' = [req EXCEPT ![r] = request]
  /\ UNCHANGED <<tables, file, mu, locals, answer, faults>>

ManageRequest(r) ==
  \E h \in ManagementHandlers \union {"relay"}, t \in Cookies \union {None},
     n \in Names \union {None} :
    /\ h # "updateUser" => n = None
    /\ Receive(r, [Blank EXCEPT !.handler = h, !.token = t, !.name = n],
               "authenticate")

LoginRequest(r) ==
  \E n \in Names \union {None}, s \in Authenticators \union {None} :
    Receive(r, [Blank EXCEPT !.handler = "totplogin", !.name = n, !.secret = s],
            "loginLookup")

SignupRequest(r) ==
  \E n \in Names \union {None} :
    Receive(r, [Blank EXCEPT !.handler = "totpsignup", !.name = n], "signupLookup")

CallbackRequest(r) ==
  \E f \in Foreigners :
    Receive(r, [Blank EXCEPT !.handler = "callback", !.foreign = f],
            "lookupForeign")

\* b.Exists("users", "1") looks for an id that no UUID equals: every develop
\* login goes on to setupNewUser.
DevelopRequest(r) ==
  Receive(r, [Blank EXCEPT !.handler = "develop", !.foreign = DevForeign],
          "create")

-----------------------------------------------------------------------------
(* makeAuthedRelay and the account management handlers.                    *)

\* sessionTokenToId reads the mapping and the record in one critical section.
Authenticate(r) ==
  /\ at[r] = "authenticate" /\ LockFree
  /\ \/ /\ Authenticates(req[r].token)
        /\ id' = [id EXCEPT ![r] = sessionTokens[req[r].token]]
        /\ Step(r, IF req[r].handler = "relay" THEN "forward" ELSE "recheck")
        /\ UNCHANGED <<mu, user, snap>>
     \/ /\ ~Authenticates(req[r].token)
        /\ Reply(r, Status(IF Undecodable(req[r].token)
                             THEN "failed" ELSE "frontPage"))
  /\ UNCHANGED <<tables, file, faults>>

\* The relay handler forwards the request with the id it was admitted under.
Forward(r) ==
  /\ at[r] = "forward"
  /\ Reply(r, [Status("ok") EXCEPT !.id = id[r]])
  /\ UNCHANGED <<tables, file, faults>>

\* currentManagementUserLocked: the presented token is the account's token.
NotRechecked(u, r) == Readable(u)                               \* mutant
StillCurrent(u, r) == Readable(u) /\ u.token = req[r].token

\* The account management handlers load the record after b.mu.Lock().
Recheck(r) ==
  /\ at[r] = "recheck" /\ LockFree
  /\ LET u == users[id[r]] IN
     \/ /\ StillCurrent(u, r)
        /\ mu' = r
        /\ user' = [user EXCEPT ![r] = u]
        /\ Step(r, CASE req[r].handler = "tokenShow"  -> "show"
                     [] req[r].handler = "newToken"   -> "mapToken"
                     [] req[r].handler = "updateUser" -> "readForm")
        /\ UNCHANGED <<id, snap>>
     \/ /\ ~StillCurrent(u, r)
        /\ Reply(r, Status(IF u = Torn THEN "failed" ELSE "stale"))
  /\ UNCHANGED <<tables, file, faults>>

\* displayUserTokenPage shows the QR code of an account that has a name.
Shown(u) == IF u.name = None THEN None ELSE u.otp

\* tokenShowHandler saves the record again, for its QR code.
Show(r) ==
  /\ at[r] = "show"
  /\ \/ user[r].name = None /\ UNCHANGED <<users, faults>>
        /\ Reply(r, Status("ok"))
     \/ /\ user[r].name # None
        /\ \E o \in Outcomes(users[id[r]], user[r]) :
             /\ users' = [users EXCEPT ![id[r]] = o.value]
             /\ Count(o)
             /\ Reply(r, IF o.ok THEN [Status("ok") EXCEPT !.secret = Shown(user[r])]
                                 ELSE Status("failed"))
  /\ UNCHANGED <<sessionTokens, foreignIDs, userNames, file>>

\* updateUserHandler waits for the form, which may be in the request's body.
ReadForm(r) ==
  /\ at[r] = "readForm"
  /\ IF req[r].name = None THEN Reply(r, Status("form")) ELSE Goto(r, "checkName")
  /\ UNCHANGED <<tables, file, faults>>

AnyName(n) == FALSE                                             \* mutant
NameTaken(n) == userNames[n] # None

CheckName(r) ==
  /\ at[r] = "checkName"
  /\ IF NameTaken(req[r].name)
       THEN Reply(r, Status(IF userNames[req[r].name] = Torn
                              THEN "failed" ELSE "taken"))
       ELSE Goto(r, "saveName")
  /\ UNCHANGED <<tables, file, faults>>

SaveName(r) ==
  /\ at[r] = "saveName"
  /\ LET u == [user[r] EXCEPT !.name = req[r].name] IN
     \E o \in Outcomes(users[id[r]], u) :
       /\ users' = [users EXCEPT ![id[r]] = o.value]
       /\ Count(o)
       /\ IF o.ok THEN /\ user' = [user EXCEPT ![r] = u]
                       /\ Step(r, "indexName") /\ UNCHANGED <<mu, id, snap>>
                  ELSE Reply(r, Status("failed"))
  /\ UNCHANGED <<sessionTokens, foreignIDs, userNames, file>>

\* The error of this UserNames.Set is ignored.
IndexName(r) ==
  /\ at[r] = "indexName"
  /\ \E o \in Outcomes(userNames[req[r].name], id[r]) :
       userNames' = [userNames EXCEPT ![req[r].name] = o.value] /\ Count(o)
  /\ Reply(r, [Status("ok") EXCEPT !.secret = Shown(user[r])])
  /\ UNCHANGED <<users, sessionTokens, foreignIDs, file>>

-----------------------------------------------------------------------------
(* rotateUserTokenLocked, in the critical section of newTokenHandler or of *)
(* newToken: first the new mapping, then the record, then the old mapping. *)

SameToken(r) == [user[r] EXCEPT !.otp = IF @ = None THEN r ELSE @]  \* mutant
Rotated(r) ==
  [user[r] EXCEPT !.token = r, !.otp = IF @ = None THEN r ELSE @]

MapToken(r) ==
  /\ at[r] = "mapToken"
  /\ \E o \in Outcomes(sessionTokens[r], id[r]) :
       /\ sessionTokens' = [sessionTokens EXCEPT ![r] = o.value]
       /\ Count(o)
       /\ Continue(r, o, "saveToken")
  /\ UNCHANGED <<users, foreignIDs, userNames, file>>

SaveToken(r) ==
  /\ at[r] = "saveToken"
  /\ \E o \in Outcomes(users[id[r]], Rotated(r)) :
       /\ users' = [users EXCEPT ![id[r]] = o.value]
       /\ Count(o)
       /\ Continue(r, o, "dropOld")
  /\ UNCHANGED <<sessionTokens, foreignIDs, userNames, file>>

\* newTokenHandler sets the cookie and shows the page of the new token.
NewTokenPage(r) ==
  [Status("ok") EXCEPT !.token = r, !.secret = Shown(Rotated(r))]

NoMapping(r) == None                                            \* mutant
OldToken(r) == user[r].token

\* A failed Delete leaves the old mapping; it is only logged.
DropOld(r) ==
  /\ at[r] = "dropOld"
  /\ LET old == OldToken(r) IN
     \/ old = None /\ UNCHANGED <<sessionTokens, faults>>
     \/ /\ old # None
        /\ \E o \in Outcomes(sessionTokens[old], None) :
             /\ o.value # Torn
             /\ sessionTokens' = [sessionTokens EXCEPT ![old] = o.value]
             /\ Count(o)
  /\ IF req[r].handler = "newToken"
       THEN Reply(r, NewTokenPage(r))
       ELSE /\ mu' = None
            /\ user' = [user EXCEPT ![r] = Rotated(r)]
            /\ Step(r, "index") /\ UNCHANGED <<id, snap>>
  /\ UNCHANGED <<users, foreignIDs, userNames, file>>

-----------------------------------------------------------------------------
(* totploginHandler, totpsignupHandler and callbackHandler.                *)

LoginLookup(r) ==
  /\ at[r] = "loginLookup"
  /\ LET n == req[r].name
         i == IF n = None THEN None ELSE userNames[n] IN
     \/ n = None /\ Reply(r, Status("form"))
     \/ n # None /\ i = Torn /\ Reply(r, Status("failed"))
     \/ n # None /\ i = None /\ Goto(r, "loginPending")
     \/ /\ i \in Ids
        /\ id' = [id EXCEPT ![r] = i]
        /\ Step(r, "load") /\ UNCHANGED <<mu, user, snap>>
  /\ UNCHANGED <<tables, file, faults>>

SignupLookup(r) ==
  /\ at[r] = "signupLookup"
  /\ LET n == req[r].name IN
     \/ n = None /\ Reply(r, Status("form"))
     \/ n # None /\ NameTaken(n)
        /\ Reply(r, Status(IF userNames[n] = Torn THEN "failed" ELSE "taken"))
     \/ n # None /\ ~NameTaken(n) /\ Goto(r, "signupPending")
  /\ UNCHANGED <<tables, file, faults>>

\* foreignIdToId takes a failed read for a foreign id it has not seen.
LookupForeign(r) ==
  /\ at[r] = "lookupForeign"
  /\ LET i == foreignIDs[req[r].foreign] IN
     \/ i = Torn /\ Reply(r, Status("failed")) /\ UNCHANGED faults
     \/ i = None /\ Goto(r, "create") /\ UNCHANGED faults
     \/ /\ i \in Ids
        /\ id' = [id EXCEPT ![r] = i]
        /\ Step(r, "load") /\ UNCHANGED <<mu, user, snap, faults>>
     \/ faults < MaxFaults /\ faults' = faults + 1 /\ Goto(r, "create")
  /\ UNCHANGED <<tables, file>>

\* totp.Verify: the code was computed from the secret.
AnyCode(secret, r) == TRUE                                      \* mutant
Verified(secret, r) == secret = req[r].secret

\* LoadUser, and the check of the code by totploginHandler.
NoDecodeError(r) ==                                             \* mutant
  /\ at[r] = "load" /\ LockFree /\ req[r].handler = "callback"
  /\ user' = [user EXCEPT ![r] = users[id[r]]]
  /\ Step(r, "send") /\ UNCHANGED <<mu, id, snap, tables, file, faults>>
Load(r) ==
  /\ at[r] = "load" /\ LockFree
  /\ LET u == users[id[r]]
         login == req[r].handler = "totplogin" IN
     \/ u = None /\ Reply(r, Status(IF login THEN "rejected" ELSE "failed"))
     \/ u = Torn /\ Reply(r, Status("failed"))
     \/ /\ Readable(u) /\ login /\ ~Verified(u.otp, r)
        /\ Reply(r, Status("rejected"))
     \/ /\ Readable(u) /\ (login => Verified(u.otp, r))
        /\ user' = [user EXCEPT ![r] = u]
        /\ Step(r, "send") /\ UNCHANGED <<mu, id, snap>>
  /\ UNCHANGED <<tables, file, faults>>

\* displayLoginSuccessfulPage sends the token that was loaded or minted.
Send(r) ==
  /\ at[r] = "send"
  /\ Reply(r, [Status("ok") EXCEPT !.token = user[r].token, !.id = id[r]])
  /\ UNCHANGED <<tables, file, faults>>

\* What loadPending returns: nothing if the file cannot be parsed or read.
Parsed == IF pending \in {Empty, Garbled} THEN NoEntries ELSE pending
Loaded == {[entries |-> Parsed, ok |-> TRUE]} \union
          (IF faults < MaxFaults THEN {[entries |-> NoEntries, ok |-> FALSE]} ELSE {})
KeepSnap(r, entries, step) ==
  /\ snap' = [snap EXCEPT ![r] = entries]
  /\ Step(r, step) /\ UNCHANGED <<mu, id, user>>

AnySignup(entry) == TRUE                                        \* mutant
Approved(entry) == entry.approved

LoginPending(r) ==
  /\ at[r] = "loginPending"
  /\ \E ps \in Loaded :
       LET entry == ps.entries[req[r].name] IN
       /\ Count(ps)
       /\ \/ entry = None /\ Reply(r, Status("rejected"))
          \/ entry # None /\ ~Approved(entry) /\ Reply(r, Status("awaiting"))
          \/ entry # None /\ Approved(entry) /\ ~Verified(entry.otp, r)
             /\ Reply(r, Status("rejected"))
          \/ entry # None /\ Approved(entry) /\ Verified(entry.otp, r)
             /\ KeepSnap(r, ps.entries, "create")
  /\ UNCHANGED <<tables, file>>

SignupPending(r) ==
  /\ at[r] = "signupPending"
  /\ \E ps \in Loaded :
       /\ Count(ps)
       /\ IF ps.entries[req[r].name] = None THEN KeepSnap(r, ps.entries, "truncate")
                                            ELSE Reply(r, Status("taken"))
  /\ UNCHANGED <<tables, file>>

-----------------------------------------------------------------------------
(* setupTOTPUser and setupNewUser.                                         *)

NewUser(r) ==
  [token |-> None, name |-> req[r].name, foreign |-> req[r].foreign,
   otp |-> IF req[r].handler = "totplogin" THEN snap[r][req[r].name].otp ELSE None]

Create(r) ==
  /\ at[r] = "create" /\ LockFree
  /\ \E o \in Outcomes(users[r], NewUser(r)) :
       /\ users' = [users EXCEPT ![r] = o.value]
       /\ Count(o)
       /\ IF o.ok THEN /\ id' = [id EXCEPT ![r] = r]
                       /\ Step(r, "newToken") /\ UNCHANGED <<mu, user, snap>>
                  ELSE Reply(r, Status("failed"))
  /\ UNCHANGED <<sessionTokens, foreignIDs, userNames, file>>

\* newToken loads the record that its caller saved, and rotates its token.
NewToken(r) ==
  /\ at[r] = "newToken" /\ LockFree
  /\ IF Readable(users[id[r]])
       THEN /\ mu' = r
            /\ user' = [user EXCEPT ![r] = users[id[r]]]
            /\ Step(r, "mapToken") /\ UNCHANGED <<id, snap>>
       ELSE Reply(r, Status("failed"))
  /\ UNCHANGED <<tables, file, faults>>

\* The errors of these Sets, made without b.mu, are ignored.
Index(r) ==
  /\ at[r] = "index"
  /\ \/ /\ req[r].handler = "totplogin"
        /\ \E o \in Outcomes(userNames[req[r].name], id[r]) :
             userNames' = [userNames EXCEPT ![req[r].name] = o.value] /\ Count(o)
        /\ Goto(r, "truncate") /\ UNCHANGED foreignIDs
     \/ /\ req[r].handler \in {"callback", "develop"}
        /\ \E o \in Outcomes(foreignIDs[req[r].foreign], id[r]) :
             foreignIDs' = [foreignIDs EXCEPT ![req[r].foreign] = o.value] /\ Count(o)
        /\ Goto(r, "remap") /\ UNCHANGED userNames
  /\ UNCHANGED <<users, sessionTokens, file>>

\* setupNewUser sets the mapping that rotateUserTokenLocked has set.
Remap(r) ==
  /\ at[r] = "remap"
  /\ \E o \in Outcomes(sessionTokens[user[r].token], id[r]) :
       /\ sessionTokens' = [sessionTokens EXCEPT ![user[r].token] = o.value]
       /\ Count(o)
  /\ Goto(r, "send")
  /\ UNCHANGED <<users, foreignIDs, userNames, file>>

-----------------------------------------------------------------------------
(* pendingStore.add and remove write all entries of the handler's snapshot *)
(* with os.WriteFile, which truncates the file and then writes it.  Each   *)
(* loadPending makes a store with a mutex of its own, so nothing keeps two *)
(* handlers apart, and neither sees what the other writes.                 *)

\* The entries that add or remove leaves in the handler's snapshot.
Written(r) ==
  [snap[r] EXCEPT ![req[r].name] =
     IF req[r].handler = "totpsignup" THEN [otp |-> r, approved |-> FALSE] ELSE None]

\* A failed remove is only logged.
AfterSave(r, ok) ==
  IF req[r].handler = "totpsignup"
    THEN Reply(r, IF ok THEN [Status("ok") EXCEPT !.secret = r] ELSE Status("failed"))
    ELSE Goto(r, "send")

Truncate(r) ==
  /\ at[r] = "truncate"
  /\ \/ pending' = Empty /\ Goto(r, "fill") /\ UNCHANGED faults
     \/ /\ faults < MaxFaults /\ faults' = faults + 1
        /\ AfterSave(r, FALSE) /\ UNCHANGED pending
  /\ UNCHANGED <<tables, approvals>>

\* The text goes over what another handler wrote since the truncation: the
\* end of a longer text stays behind.
Fill(r) ==
  /\ at[r] = "fill"
  /\ \/ /\ pending' \in {Written(r)} \union
             (IF pending \in {Empty, Written(r)} THEN {} ELSE {Garbled})
        /\ AfterSave(r, TRUE) /\ UNCHANGED faults
     \/ /\ faults < MaxFaults /\ faults' = faults + 1
        /\ pending' \in {pending, Garbled}
        /\ AfterSave(r, FALSE)
  /\ UNCHANGED <<tables, approvals>>

\* The operator approves a signup by editing the file.
Approve(n) ==
  /\ pending \in Entries
  /\ pending[n] # None
  /\ ~pending[n].approved
  /\ pending' = [pending EXCEPT ![n].approved = TRUE]
  /\ approvals' = approvals \union {pending[n].otp}
  /\ UNCHANGED <<tables, mu, at, req, locals, answer, faults>>

-----------------------------------------------------------------------------
\* The process dies with every request it is serving, and is started again.
\* A write it is making is cut short: a failed write followed by a crash.
Crash ==
  /\ faults < MaxFaults /\ faults' = faults + 1
  /\ \E r \in Requests : at[r] \notin {"idle", "done"}
  /\ LET live == {r \in Requests : at[r] \notin {"idle", "done"}} IN
     /\ at' = [r \in Requests |-> IF r \in live THEN "done" ELSE at[r]]
     /\ answer' = [r \in Requests |-> IF r \in live THEN Status("lost") ELSE answer[r]]
  /\ mu' = None
  /\ id' = [r \in Requests |-> None]
  /\ user' = [r \in Requests |-> None]
  /\ snap' = [r \in Requests |-> None]
  /\ UNCHANGED <<tables, file, req>>

\* Every request has been served.
Rest == (\A r \in Requests : at[r] = "done") /\ UNCHANGED vars

Arrive(r) == \/ ManageRequest(r) \/ LoginRequest(r) \/ SignupRequest(r)
             \/ CallbackRequest(r) \/ DevelopRequest(r)

\* The steps that the goroutine of r takes by itself; for ReadForm it waits for
\* its client.
Serve(r) ==
  \/ Authenticate(r) \/ Forward(r)
  \/ Recheck(r) \/ Show(r) \/ CheckName(r) \/ SaveName(r) \/ IndexName(r)
  \/ MapToken(r) \/ SaveToken(r) \/ DropOld(r)
  \/ LoginLookup(r) \/ SignupLookup(r) \/ LookupForeign(r)
  \/ LoginPending(r) \/ SignupPending(r) \/ Load(r) \/ Send(r)
  \/ Create(r) \/ NewToken(r) \/ Index(r) \/ Remap(r)
  \/ Truncate(r) \/ Fill(r)

Next == \/ \E r \in Requests : Arrive(r) \/ Serve(r) \/ ReadForm(r)
        \/ \E n \in Names : Approve(n)
        \/ Crash
        \/ Rest

Spec == Init /\ [][Next]_vars

\* Goroutines are scheduled.  No server has a read timeout, so nothing makes a
\* client send the form that it announced.
FairSpec == Spec /\ \A r \in Requests : WF_vars(Serve(r))
=============================================================================
