--------------------------- MODULE GatewayProofs ---------------------------
(***************************************************************************)
(* Proofs about Gateway, for every set of requests, names, foreign ids and *)
(* handlers, and every number of faults: every state is typed, SessionInv  *)
(* is an invariant, and with it the session properties hold, that revoked  *)
(* tokens stay revoked and an account changes only by its current token.   *)
(***************************************************************************)
EXTENDS GatewayInduction, TLAPS

USE GatewayAssumption DEF Ids, Tokens

-----------------------------------------------------------------------------
(* Type correctness.  TypeOK in parts: what the stores hold, how far the   *)
(* requests are, and the rest.                                             *)

TablesOK ==
  /\ users \in [Ids -> User \union {None, Torn}]
  /\ sessionTokens \in [Tokens -> Ids \union {None, Torn}]
  /\ foreignIDs \in [AllForeign -> Ids \union {None, Torn}]
  /\ userNames \in [Names -> Ids \union {None, Torn}]

FileOK ==
  /\ pending \in Entries \union {Empty, Garbled}
  /\ approvals \subseteq Requests

ProgressOK ==
  /\ mu \in Requests \union {None}
  /\ at \in [Requests -> Steps]
  /\ id \in [Requests -> Ids \union {None}]
  /\ user \in [Requests -> User \union {None}]
  /\ snap \in [Requests -> Entries \union {None}]
  /\ answer \in [Requests -> Answer]

\* A step of request r leaves the progress of the others alone.
Framed(r) ==
  \A q \in Requests \ {r} :
    /\ at'[q] = at[q] /\ req'[q] = req[q] /\ answer'[q] = answer[q]
    /\ id'[q] = id[q] /\ user'[q] = user[q] /\ snap'[q] = snap[q]

\* TypeOK in its parts, now and after a step.
LEMMA Parts ==
  TypeOK <=> /\ TablesOK /\ FileOK /\ ProgressOK
             /\ req \in [Requests -> Request] /\ faults \in Nat
  BY DEF TypeOK, TablesOK, FileOK, ProgressOK

\* The same of the next state.
LEMMA PartsNext ==
  TypeOK' <=> /\ TablesOK' /\ FileOK' /\ ProgressOK'
              /\ (req \in [Requests -> Request])' /\ (faults \in Nat)'
  BY DEF TypeOK, TablesOK, FileOK, ProgressOK

\* An answer made of a status, and one with what a client is given.
LEMMA AnswerType ==
  /\ \A s \in Statuses : Status(s) \in Answer
  /\ \A t, i, x \in Requests \union {None} :
       /\ [Status("ok") EXCEPT !.id = i] \in Answer
       /\ [Status("ok") EXCEPT !.secret = x] \in Answer
       /\ [Status("ok") EXCEPT !.token = t, !.id = i] \in Answer
       /\ [Status("ok") EXCEPT !.token = t, !.secret = x] \in Answer
  BY DEF Status, Statuses, Answer

\* A reply ends the request.
LEMMA ReplyType ==
  ASSUME ProgressOK, req \in [Requests -> Request],
         NEW r \in Requests, NEW a \in Answer, Reply(r, a)
  PROVE  ProgressOK' /\ Prepared(r)' /\ Framed(r) /\ req' = req
<1>1. ProgressOK' /\ req' = req /\ at'[r] = "done"
  BY DEF ProgressOK, Reply, Released, Steps
<1>2. Prepared(r)'
  BY <1>1 DEF Prepared, Locked
<1>3. Framed(r)
  BY DEF Framed, Reply, ProgressOK
<1>. QED
  BY <1>1, <1>2, <1>3

\* A request goes on to another step.
LEMMA StepType ==
  ASSUME ProgressOK, NEW r \in Requests, NEW s \in Steps, Step(r, s)
  PROVE  /\ (at \in [Requests -> Steps])' /\ at'[r] = s
         /\ \A q \in Requests \ {r} : at'[q] = at[q]
         /\ answer' = answer /\ req' = req
  BY DEF ProgressOK, Step

\* Goto changes only the step.
LEMMA GotoType ==
  ASSUME ProgressOK, NEW r \in Requests, NEW s \in Steps, Goto(r, s)
  PROVE  /\ ProgressOK' /\ Framed(r)
         /\ at'[r] = s /\ req' = req /\ id' = id /\ user' = user /\ snap' = snap
  BY DEF ProgressOK, Goto, Step, Framed

\* A write leaves the old value, the new value or an unreadable record.
LEMMA OutcomeType ==
  ASSUME NEW old, NEW new, NEW o \in Outcomes(old, new)
  PROVE  /\ o.value \in {old, new, Torn} /\ o.ok \in BOOLEAN
         /\ o.ok => o.value = new
<1>1. CASE o = [value |-> new, ok |-> TRUE]
  BY <1>1
<1>2. CASE o # [value |-> new, ok |-> TRUE]
  <2>1. o \in [value : {old, new, Torn}, ok : {FALSE}]
    BY <1>2 DEF Outcomes
  <2>. QED
    BY <2>1
<1>. QED
  BY <1>1, <1>2

\* A fault counts one.
LEMMA CountType ==
  ASSUME faults \in Nat, NEW o, Count(o)
  PROVE  faults' \in Nat
  BY DEF Count

\* After a write: the next step, or the reply of a panic.
LEMMA ContinueType ==
  ASSUME ProgressOK, req \in [Requests -> Request],
         NEW r \in Requests, NEW s \in Steps, NEW o, Continue(r, o, s)
  PROVE  /\ ProgressOK' /\ Framed(r) /\ req' = req
         /\ \/ Prepared(r)'
            \/ at'[r] = s /\ id' = id /\ user' = user /\ snap' = snap
<1>1. CASE o.ok
  BY <1>1, GotoType DEF Continue
<1>2. CASE ~o.ok
  BY <1>2, ReplyType, AnswerType DEF Continue, Statuses
<1>. QED
  BY <1>1, <1>2

\* What a page shows of the authenticator is a secret or nothing.
LEMMA ShownType ==
  ASSUME NEW u \in User
  PROVE  Shown(u) \in Requests \union {None}
  BY DEF Shown, User

\* A rotated record has the fresh token, a secret, and the rest of its enrollment.
LEMMA RotatedType ==
  ASSUME NEW r \in Requests, user[r] \in User
  PROVE  /\ Rotated(r) \in User
         /\ Rotated(r).token = r /\ Rotated(r).otp # None
         /\ Rotated(r).name = user[r].name
         /\ Rotated(r).foreign = user[r].foreign
         /\ user[r].otp # None => Rotated(r).otp = user[r].otp
  BY DEF Rotated, User
-----------------------------------------------------------------------------
(* Every step of a request keeps the types, and prepares its next step.    *)

\* Authenticate keeps the types.
LEMMA AuthenticateType ==
  ASSUME TypeInv, NEW r \in Requests, Authenticate(r)
  PROVE  TypeOK' /\ Prepared(r)' /\ Framed(r)
<1>1. TypeOK /\ TablesOK' /\ FileOK' /\ UNCHANGED faults
  BY DEF Authenticate, tables, file, TablesOK, FileOK, TypeInv, TypeOK
<1>2. CASE ~Authenticates(req[r].token)
  BY <1>1, <1>2, Parts, PartsNext, ReplyType, AnswerType DEF Authenticate, Statuses
<1>3. CASE Authenticates(req[r].token)
  <2>1. sessionTokens[req[r].token] \in Ids
    BY <1>3 DEF Authenticates
  <2>2. Prepared(r) /\ at[r] = "authenticate"
    BY DEF Authenticate, TypeInv
  <2>3. PICK s \in {"forward", "recheck"} :
          /\ Step(r, s) /\ UNCHANGED <<mu, user, snap>>
          /\ id' = [id EXCEPT ![r] = sessionTokens[req[r].token]]
          /\ s = "recheck" => req[r].handler # "relay"
    BY <1>3 DEF Authenticate
  <2>4. ProgressOK' /\ Framed(r) /\ req' = req /\ at'[r] = s /\ id'[r] \in Ids
    BY <1>1, Parts, <2>1, <2>3, StepType DEF ProgressOK, Framed, Steps
  <2>. QED
    BY <1>1, <1>3, <2>2, <2>3, <2>4, Parts, PartsNext
       DEF Prepared, Locked, Authenticates
<1>. QED
  BY <1>2, <1>3

\* Forward keeps the types.
LEMMA ForwardType ==
  ASSUME TypeInv, NEW r \in Requests, Forward(r)
  PROVE  TypeOK' /\ Prepared(r)' /\ Framed(r)
<1>1. TypeOK /\ TablesOK' /\ FileOK' /\ UNCHANGED faults /\ id[r] \in Ids
  BY DEF Forward, tables, file, TablesOK, FileOK, TypeInv, TypeOK, Prepared
<1>. QED
  BY <1>1, Parts, PartsNext, ReplyType, AnswerType DEF Forward

\* Recheck keeps the types.
LEMMA RecheckType ==
  ASSUME TypeInv, NEW r \in Requests, Recheck(r)
  PROVE  TypeOK' /\ Prepared(r)' /\ Framed(r)
<1>1. TypeOK /\ TablesOK' /\ FileOK' /\ UNCHANGED faults
  BY DEF Recheck, tables, file, TablesOK, FileOK, TypeInv, TypeOK
<1>2. at[r] = "recheck" /\ id[r] \in Ids /\ req[r].handler \in ManagementHandlers
  BY DEF Recheck, TypeInv, Prepared
<1>3. CASE ~StillCurrent(users[id[r]], r)
  BY <1>1, <1>3, Parts, PartsNext, ReplyType, AnswerType DEF Recheck, Statuses
<1>4. CASE StillCurrent(users[id[r]], r)
  <2>1. users[id[r]] \in User
    BY <1>1, <1>2, <1>4, Parts DEF StillCurrent, Readable, TablesOK
  <2>2. PICK s \in {"show", "mapToken", "readForm"} :
          /\ Step(r, s) /\ UNCHANGED <<id, snap>>
          /\ user' = [user EXCEPT ![r] = users[id[r]]] /\ mu' = r
          /\ s = "mapToken" => req[r].handler = "newToken"
          /\ s = "readForm" => req[r].handler = "updateUser"
    BY <1>2, <1>4 DEF Recheck, ManagementHandlers
  <2>3. ProgressOK' /\ Framed(r) /\ req' = req /\ at'[r] = s /\ user'[r] \in User
    BY <1>1, Parts, <2>1, <2>2, StepType DEF ProgressOK, Framed, Steps, Locked
  <2>. QED
    BY <1>1, <1>2, <2>2, <2>3, Parts, PartsNext DEF Prepared, Locked
<1>. QED
  BY <1>3, <1>4

\* Show keeps the types.
LEMMA ShowType ==
  ASSUME TypeInv, NEW r \in Requests, Show(r)
  PROVE  TypeOK' /\ Prepared(r)' /\ Framed(r)
<1>1. TypeOK /\ FileOK' /\ user[r] \in User /\ id[r] \in Ids
  BY DEF Show, file, FileOK, TypeInv, TypeOK, Prepared, Locked
<1>2. CASE user[r].name = None
  BY <1>1, <1>2, Parts, PartsNext, ReplyType, AnswerType DEF Show, TablesOK, Statuses
<1>3. CASE user[r].name # None
  <2>1. PICK o \in Outcomes(users[id[r]], user[r]) :
          /\ users' = [users EXCEPT ![id[r]] = o.value]
          /\ Count(o)
          /\ Reply(r, IF o.ok THEN [Status("ok") EXCEPT !.secret = Shown(user[r])]
                              ELSE Status("failed"))
          /\ UNCHANGED <<sessionTokens, foreignIDs, userNames>>
    BY <1>3 DEF Show
  <2>2. TablesOK'
    BY <1>1, <2>1, OutcomeType, Parts DEF TablesOK
  <2>3. \E a \in Answer : Reply(r, a)
    BY <1>1, <2>1, AnswerType, ShownType DEF Statuses
  <2>. QED
    BY <1>1, <2>1, <2>2, <2>3, CountType, Parts, PartsNext, ReplyType
<1>. QED
  BY <1>2, <1>3

\* ReadForm keeps the types.
LEMMA ReadFormType ==
  ASSUME TypeInv, NEW r \in Requests, ReadForm(r)
  PROVE  TypeOK' /\ Prepared(r)' /\ Framed(r)
<1>1. TypeOK /\ TablesOK' /\ FileOK' /\ UNCHANGED faults
  BY DEF ReadForm, tables, file, TablesOK, FileOK, TypeInv, TypeOK
<1>2. CASE req[r].name = None
  BY <1>1, <1>2, Parts, PartsNext, ReplyType, AnswerType DEF ReadForm, Statuses
<1>3. CASE req[r].name # None
  <2>1. Goto(r, "checkName") /\ at[r] = "readForm" /\ Prepared(r)
    BY <1>3 DEF ReadForm, TypeInv
  <2>2. /\ ProgressOK' /\ Framed(r) /\ req' = req
        /\ at'[r] = "checkName" /\ id' = id /\ user' = user
    BY <1>1, <2>1, Parts, GotoType DEF Steps, Locked
  <2>3. req[r].name \in Names
    BY <1>1, <1>3, Parts DEF Request
  <2>. QED
    BY <1>1, <2>1, <2>2, <2>3, Parts, PartsNext DEF Prepared, Locked
<1>. QED
  BY <1>2, <1>3

\* CheckName keeps the types.
LEMMA CheckNameType ==
  ASSUME TypeInv, NEW r \in Requests, CheckName(r)
  PROVE  TypeOK' /\ Prepared(r)' /\ Framed(r)
<1>1. TypeOK /\ TablesOK' /\ FileOK' /\ UNCHANGED faults
  BY DEF CheckName, tables, file, TablesOK, FileOK, TypeInv, TypeOK
<1>2. CASE NameTaken(req[r].name)
  BY <1>1, <1>2, Parts, PartsNext, ReplyType, AnswerType DEF CheckName, Statuses
<1>3. CASE ~NameTaken(req[r].name)
  <2>1. Goto(r, "saveName") /\ at[r] = "checkName" /\ Prepared(r)
    BY <1>3 DEF CheckName, TypeInv
  <2>2. /\ ProgressOK' /\ Framed(r) /\ req' = req
        /\ at'[r] = "saveName" /\ id' = id /\ user' = user
    BY <1>1, <2>1, Parts, GotoType DEF Steps, Locked
  <2>. QED
    BY <1>1, <2>1, <2>2, Parts, PartsNext DEF Prepared, Locked
<1>. QED
  BY <1>2, <1>3

\* SaveName keeps the types.
LEMMA SaveNameType ==
  ASSUME TypeInv, NEW r \in Requests, SaveName(r)
  PROVE  TypeOK' /\ Prepared(r)' /\ Framed(r)
<1> DEFINE u == [user[r] EXCEPT !.name = req[r].name]
<1>1. /\ TypeOK /\ FileOK' /\ Prepared(r) /\ at[r] = "saveName"
      /\ id[r] \in Ids /\ user[r] \in User /\ req[r].name \in Names
  BY DEF SaveName, file, FileOK, TypeInv, TypeOK, Prepared, Locked
<1>2. u \in User
  BY <1>1 DEF User
<1>3. PICK o \in Outcomes(users[id[r]], u) :
        /\ users' = [users EXCEPT ![id[r]] = o.value]
        /\ Count(o)
        /\ IF o.ok THEN /\ user' = [user EXCEPT ![r] = u]
                        /\ Step(r, "indexName") /\ UNCHANGED <<mu, id, snap>>
                   ELSE Reply(r, Status("failed"))
        /\ UNCHANGED <<sessionTokens, foreignIDs, userNames>>
  BY DEF SaveName
<1>4. TablesOK' /\ (faults \in Nat)'
  BY <1>1, <1>2, <1>3, OutcomeType, CountType, Parts DEF TablesOK
<1>5. CASE ~o.ok
  BY <1>1, <1>3, <1>4, <1>5, Parts, PartsNext, ReplyType, AnswerType DEF Statuses
<1>6. CASE o.ok
  <2>1. /\ Step(r, "indexName") /\ UNCHANGED <<mu, id, snap>>
        /\ user' = [user EXCEPT ![r] = u]
    BY <1>3, <1>6
  <2>2. ProgressOK' /\ Framed(r) /\ req' = req /\ at'[r] = "indexName" /\ user'[r] \in User
    BY <1>1, <1>2, <2>1, Parts, StepType DEF ProgressOK, Framed, Steps, Locked
  <2>. QED
    BY <1>1, <1>4, <2>1, <2>2, Parts, PartsNext DEF Prepared, Locked
<1>. QED
  BY <1>5, <1>6

\* IndexName keeps the types.
LEMMA IndexNameType ==
  ASSUME TypeInv, NEW r \in Requests, IndexName(r)
  PROVE  TypeOK' /\ Prepared(r)' /\ Framed(r)
<1>1. TypeOK /\ FileOK' /\ user[r] \in User /\ id[r] \in Ids
  BY DEF IndexName, file, FileOK, TypeInv, TypeOK, Prepared, Locked
<1>2. PICK o \in Outcomes(userNames[req[r].name], id[r]) :
        userNames' = [userNames EXCEPT ![req[r].name] = o.value] /\ Count(o)
  BY DEF IndexName
<1>3. req[r].name \in Names
  BY DEF IndexName, TypeInv, Prepared
<1>4. TablesOK'
  BY <1>1, <1>2, <1>3, OutcomeType, Parts DEF TablesOK, IndexName
<1>. QED
  BY <1>1, <1>2, <1>4, CountType, ShownType, AnswerType, Parts, PartsNext, ReplyType
     DEF IndexName

\* MapToken keeps the types.
LEMMA MapTokenType ==
  ASSUME TypeInv, NEW r \in Requests, MapToken(r)
  PROVE  TypeOK' /\ Prepared(r)' /\ Framed(r)
<1>1. TypeOK /\ FileOK' /\ Prepared(r) /\ at[r] = "mapToken" /\ id[r] \in Ids
  BY DEF MapToken, file, FileOK, TypeInv, TypeOK, Prepared, Locked
<1>2. PICK o \in Outcomes(sessionTokens[r], id[r]) :
        /\ sessionTokens' = [sessionTokens EXCEPT ![r] = o.value]
        /\ Count(o) /\ Continue(r, o, "saveToken")
        /\ UNCHANGED <<users, foreignIDs, userNames>>
  BY DEF MapToken
<1>3. TablesOK' /\ (faults \in Nat)'
  BY <1>1, <1>2, OutcomeType, CountType, Parts DEF TablesOK
<1>4. /\ ProgressOK' /\ Framed(r) /\ req' = req
      /\ \/ Prepared(r)'
         \/ at'[r] = "saveToken" /\ id' = id /\ user' = user /\ snap' = snap
  BY <1>1, <1>2, ContinueType, Parts DEF Steps, Locked
<1>5. Prepared(r)'
  BY <1>1, <1>4 DEF Prepared, Locked, Applicant
<1>. QED
  BY <1>1, <1>3, <1>4, <1>5, Parts, PartsNext

\* SaveToken keeps the types.
LEMMA SaveTokenType ==
  ASSUME TypeInv, NEW r \in Requests, SaveToken(r)
  PROVE  TypeOK' /\ Prepared(r)' /\ Framed(r)
<1>1. /\ TypeOK /\ FileOK' /\ Prepared(r) /\ at[r] = "saveToken"
      /\ id[r] \in Ids /\ user[r] \in User
  BY DEF SaveToken, file, FileOK, TypeInv, TypeOK, Prepared, Locked
<1>2. PICK o \in Outcomes(users[id[r]], Rotated(r)) :
        /\ users' = [users EXCEPT ![id[r]] = o.value]
        /\ Count(o) /\ Continue(r, o, "dropOld")
        /\ UNCHANGED <<sessionTokens, foreignIDs, userNames>>
  BY DEF SaveToken
<1>3. TablesOK' /\ (faults \in Nat)'
  BY <1>1, <1>2, OutcomeType, RotatedType, CountType, Parts DEF TablesOK
<1>4. /\ ProgressOK' /\ Framed(r) /\ req' = req
      /\ \/ Prepared(r)'
         \/ at'[r] = "dropOld" /\ id' = id /\ user' = user /\ snap' = snap
  BY <1>1, <1>2, ContinueType, Parts DEF Steps, Locked
<1>5. Prepared(r)'
  BY <1>1, <1>4 DEF Prepared, Locked, Applicant
<1>. QED
  BY <1>1, <1>3, <1>4, <1>5, Parts, PartsNext

\* DropOld keeps the types.
LEMMA DropOldType ==
  ASSUME TypeInv, NEW r \in Requests, DropOld(r)
  PROVE  TypeOK' /\ Prepared(r)' /\ Framed(r)
<1>1. /\ TypeOK /\ FileOK' /\ Prepared(r) /\ at[r] = "dropOld"
      /\ id[r] \in Ids /\ user[r] \in User
  BY DEF DropOld, file, FileOK, TypeInv, TypeOK, Prepared, Locked
<1>2. TablesOK' /\ (faults \in Nat)'
  <2>1. CASE OldToken(r) = None
    BY <1>1, <2>1, Parts DEF DropOld, TablesOK
  <2>2. CASE OldToken(r) # None
    <3>1. OldToken(r) \in Tokens
      BY <1>1, <2>2 DEF OldToken, User
    <3>2. PICK o \in Outcomes(sessionTokens[OldToken(r)], None) :
            /\ sessionTokens' = [sessionTokens EXCEPT ![OldToken(r)] = o.value]
            /\ Count(o)
      BY <2>2 DEF DropOld
    <3>. QED
      BY <1>1, <3>1, <3>2, OutcomeType, CountType, Parts DEF DropOld, TablesOK
  <2>. QED
    BY <2>1, <2>2
<1>3. CASE req[r].handler = "newToken"
  <2>1. NewTokenPage(r) \in Answer
    BY <1>1, RotatedType, ShownType, AnswerType DEF NewTokenPage
  <2>. QED
    BY <1>1, <1>2, <1>3, <2>1, Parts, PartsNext, ReplyType DEF DropOld
<1>4. CASE req[r].handler # "newToken"
  <2>1. /\ Step(r, "index") /\ UNCHANGED <<id, snap>> /\ mu' = None
        /\ user' = [user EXCEPT ![r] = Rotated(r)]
    BY <1>4 DEF DropOld
  <2>2. ProgressOK' /\ Framed(r) /\ req' = req /\ at'[r] = "index" /\ user'[r] \in User
    BY <1>1, <2>1, RotatedType, Parts, StepType DEF ProgressOK, Framed, Steps
  <2>3. Prepared(r)'
    BY <1>1, <1>4, <2>1, <2>2 DEF Prepared, Locked, Applicant
  <2>. QED
    BY <1>1, <1>2, <2>2, <2>3, Parts, PartsNext
<1>. QED
  BY <1>3, <1>4

\* LoginLookup keeps the types.
LEMMA LoginLookupType ==
  ASSUME TypeInv, NEW r \in Requests, LoginLookup(r)
  PROVE  TypeOK' /\ Prepared(r)' /\ Framed(r)
<1>1. /\ TypeOK /\ TablesOK' /\ FileOK' /\ UNCHANGED faults
      /\ at[r] = "loginLookup" /\ req[r].handler = "totplogin"
  BY DEF LoginLookup, tables, file, TablesOK, FileOK, TypeInv, TypeOK, Prepared
<1> DEFINE i == IF req[r].name = None THEN None ELSE userNames[req[r].name]
<1>2. CASE \E s \in Statuses : Reply(r, Status(s))
  BY <1>1, <1>2, Parts, PartsNext, ReplyType, AnswerType
<1>3. CASE req[r].name # None /\ Goto(r, "loginPending")
  <2>1. /\ ProgressOK' /\ Framed(r) /\ req' = req /\ at'[r] = "loginPending"
        /\ req[r].name \in Names
    BY <1>1, <1>3, Parts, GotoType DEF Steps, Request
  <2>. QED
    BY <1>1, <2>1, Parts, PartsNext DEF Prepared, Locked
<1>4. CASE /\ i \in Ids /\ id' = [id EXCEPT ![r] = i]
           /\ Step(r, "load") /\ UNCHANGED <<mu, user, snap>>
  <2>1. ProgressOK' /\ Framed(r) /\ req' = req /\ at'[r] = "load" /\ id'[r] \in Ids
    BY <1>1, <1>4, Parts, StepType DEF ProgressOK, Framed, Steps
  <2>. QED
    BY <1>1, <2>1, Parts, PartsNext DEF Prepared, Locked
<1>. QED
  BY <1>2, <1>3, <1>4 DEF LoginLookup, Statuses

\* SignupLookup keeps the types.
LEMMA SignupLookupType ==
  ASSUME TypeInv, NEW r \in Requests, SignupLookup(r)
  PROVE  TypeOK' /\ Prepared(r)' /\ Framed(r)
<1>1. /\ TypeOK /\ TablesOK' /\ FileOK' /\ UNCHANGED faults
      /\ at[r] = "signupLookup" /\ req[r].handler = "totpsignup"
  BY DEF SignupLookup, tables, file, TablesOK, FileOK, TypeInv, TypeOK, Prepared
<1>2. CASE \E s \in Statuses : Reply(r, Status(s))
  BY <1>1, <1>2, Parts, PartsNext, ReplyType, AnswerType
<1>3. CASE req[r].name # None /\ Goto(r, "signupPending")
  <2>1. /\ ProgressOK' /\ Framed(r) /\ req' = req /\ at'[r] = "signupPending"
        /\ req[r].name \in Names
    BY <1>1, <1>3, Parts, GotoType DEF Steps, Request
  <2>. QED
    BY <1>1, <2>1, Parts, PartsNext DEF Prepared, Locked
<1>. QED
  BY <1>2, <1>3 DEF SignupLookup, Statuses

\* LookupForeign keeps the types.
LEMMA LookupForeignType ==
  ASSUME TypeInv, NEW r \in Requests, LookupForeign(r)
  PROVE  TypeOK' /\ Prepared(r)' /\ Framed(r)
<1>1. /\ TypeOK /\ TablesOK' /\ FileOK'
      /\ at[r] = "lookupForeign" /\ req[r].handler = "callback"
      /\ req[r].foreign \in AllForeign
  BY DEF LookupForeign, tables, file, TablesOK, FileOK, TypeInv, TypeOK, Prepared
<1>2. (faults \in Nat)'
  BY <1>1, Parts DEF LookupForeign
<1>3. CASE Reply(r, Status("failed"))
  BY <1>1, <1>2, <1>3, Parts, PartsNext, ReplyType, AnswerType DEF Statuses
<1>4. CASE Goto(r, "create")
  <2>1. ProgressOK' /\ Framed(r) /\ req' = req /\ at'[r] = "create"
    BY <1>1, <1>4, Parts, GotoType DEF Steps
  <2>. QED
    BY <1>1, <1>2, <2>1, Parts, PartsNext DEF Prepared, Locked, Applicant
<1>5. CASE /\ foreignIDs[req[r].foreign] \in Ids
           /\ id' = [id EXCEPT ![r] = foreignIDs[req[r].foreign]]
           /\ Step(r, "load") /\ UNCHANGED <<mu, user, snap>>
  <2>1. ProgressOK' /\ Framed(r) /\ req' = req /\ at'[r] = "load" /\ id'[r] \in Ids
    BY <1>1, <1>5, Parts, StepType DEF ProgressOK, Framed, Steps
  <2>. QED
    BY <1>1, <1>2, <2>1, Parts, PartsNext DEF Prepared, Locked
<1>. QED
  BY <1>3, <1>4, <1>5 DEF LookupForeign

\* Load keeps the types.
LEMMA LoadType ==
  ASSUME TypeInv, NEW r \in Requests, Load(r)
  PROVE  TypeOK' /\ Prepared(r)' /\ Framed(r)
<1>1. /\ TypeOK /\ TablesOK' /\ FileOK' /\ UNCHANGED faults
      /\ at[r] = "load" /\ id[r] \in Ids /\ req[r].handler \in {"totplogin", "callback"}
  BY DEF Load, tables, file, TablesOK, FileOK, TypeInv, TypeOK, Prepared
<1>2. CASE \E s \in Statuses : Reply(r, Status(s))
  BY <1>1, <1>2, Parts, PartsNext, ReplyType, AnswerType
<1>3. CASE /\ Readable(users[id[r]])
           /\ user' = [user EXCEPT ![r] = users[id[r]]]
           /\ Step(r, "send") /\ UNCHANGED <<mu, id, snap>>
  <2>1. users[id[r]] \in User
    BY <1>1, <1>3, Parts DEF TablesOK, Readable
  <2>2. ProgressOK' /\ Framed(r) /\ req' = req /\ at'[r] = "send" /\ user'[r] \in User
    BY <1>1, <1>3, <2>1, Parts, StepType DEF ProgressOK, Framed, Steps
  <2>. QED
    BY <1>1, <1>3, <2>2, Parts, PartsNext DEF Prepared, Locked, FirstLogin
<1>. QED
  BY <1>2, <1>3 DEF Load, Statuses

\* Send keeps the types.
LEMMA SendType ==
  ASSUME TypeInv, NEW r \in Requests, Send(r)
  PROVE  TypeOK' /\ Prepared(r)' /\ Framed(r)
<1>1. /\ TypeOK /\ TablesOK' /\ FileOK' /\ UNCHANGED faults
      /\ id[r] \in Ids /\ user[r] \in User
  BY DEF Send, tables, file, TablesOK, FileOK, TypeInv, TypeOK, Prepared
<1>2. user[r].token \in Requests \union {None}
  BY <1>1 DEF User
<1>. QED
  BY <1>1, <1>2, Parts, PartsNext, ReplyType, AnswerType DEF Send

\* loadPending returns a well-typed store, whatever the file holds.
LEMMA LoadedType ==
  ASSUME FileOK, faults \in Nat, NEW ps \in Loaded, Count(ps)
  PROVE  ps.entries \in Entries /\ (faults \in Nat)'
<1>1. Parsed \in Entries /\ NoEntries \in Entries
  BY DEF Parsed, FileOK, NoEntries, Entries
<1>2. \/ ps = [entries |-> Parsed, ok |-> TRUE]
      \/ ps = [entries |-> NoEntries, ok |-> FALSE]
  BY DEF Loaded
<1>. QED
  BY <1>1, <1>2, CountType

\* LoginPending keeps the types.
LEMMA LoginPendingType ==
  ASSUME TypeInv, NEW r \in Requests, LoginPending(r)
  PROVE  TypeOK' /\ Prepared(r)' /\ Framed(r)
<1>1. /\ TypeOK /\ TablesOK' /\ FileOK' /\ at[r] = "loginPending"
      /\ req[r].handler = "totplogin" /\ req[r].name \in Names
  BY DEF LoginPending, tables, file, TablesOK, FileOK, TypeInv, TypeOK, Prepared
<1>2. PICK ps \in Loaded :
        /\ Count(ps)
        /\ \/ \E s \in Statuses : Reply(r, Status(s))
           \/ ps.entries[req[r].name] # None /\ KeepSnap(r, ps.entries, "create")
  BY DEF LoginPending, Statuses
<1>3. ps.entries \in Entries /\ (faults \in Nat)'
  BY <1>1, <1>2, LoadedType, Parts
<1>4. CASE \E s \in Statuses : Reply(r, Status(s))
  BY <1>1, <1>3, <1>4, Parts, PartsNext, ReplyType, AnswerType
<1>5. CASE ps.entries[req[r].name] # None /\ KeepSnap(r, ps.entries, "create")
  <2>1. /\ ProgressOK' /\ Framed(r) /\ req' = req /\ at'[r] = "create"
        /\ snap'[r] = ps.entries
    BY <1>1, <1>3, <1>5, Parts, StepType DEF ProgressOK, Framed, Steps, KeepSnap
  <2>. QED
    BY <1>1, <1>3, <1>5, <2>1, Parts, PartsNext DEF Prepared, Locked, Applicant
<1>. QED
  BY <1>2, <1>4, <1>5

\* SignupPending keeps the types.
LEMMA SignupPendingType ==
  ASSUME TypeInv, NEW r \in Requests, SignupPending(r)
  PROVE  TypeOK' /\ Prepared(r)' /\ Framed(r)
<1>1. /\ TypeOK /\ TablesOK' /\ FileOK' /\ at[r] = "signupPending"
      /\ req[r].handler = "totpsignup" /\ req[r].name \in Names
  BY DEF SignupPending, tables, file, TablesOK, FileOK, TypeInv, TypeOK, Prepared
<1>2. PICK ps \in Loaded :
        /\ Count(ps)
        /\ KeepSnap(r, ps.entries, "truncate") \/ Reply(r, Status("taken"))
  BY DEF SignupPending
<1>3. ps.entries \in Entries /\ (faults \in Nat)'
  BY <1>1, <1>2, LoadedType, Parts
<1>4. CASE Reply(r, Status("taken"))
  BY <1>1, <1>3, <1>4, Parts, PartsNext, ReplyType, AnswerType DEF Statuses
<1>5. CASE KeepSnap(r, ps.entries, "truncate")
  <2>1. /\ ProgressOK' /\ Framed(r) /\ req' = req /\ at'[r] = "truncate"
        /\ snap'[r] = ps.entries
    BY <1>1, <1>3, <1>5, Parts, StepType DEF ProgressOK, Framed, Steps, KeepSnap
  <2>. QED
    BY <1>1, <1>3, <2>1, Parts, PartsNext DEF Prepared, Locked
<1>. QED
  BY <1>2, <1>4, <1>5

\* The record of a new account is a user's, without a token.
LEMMA NewUserType ==
  ASSUME TypeOK, NEW r \in Requests, Applicant(r)
  PROVE  /\ NewUser(r) \in User /\ NewUser(r).token = None
         /\ NewUser(r) \notin {None, Torn}
<1>1. req[r] \in Request
  BY DEF TypeOK
<1>2. CASE req[r].handler = "totplogin"
  <2>1. snap[r][req[r].name] \in Entry
    BY <1>2 DEF Applicant, Entries
  <2>. QED
    BY <1>1, <1>2, <2>1 DEF NewUser, User, Entry, Request
<1>3. CASE req[r].handler # "totplogin"
  BY <1>1, <1>3 DEF NewUser, User, Request
<1>. QED
  BY <1>2, <1>3

\* Create keeps the types.
LEMMA CreateType ==
  ASSUME TypeInv, NEW r \in Requests, Create(r)
  PROVE  TypeOK' /\ Prepared(r)' /\ Framed(r)
<1>1. TypeOK /\ FileOK' /\ Applicant(r)
  BY DEF Create, file, FileOK, TypeInv, TypeOK, Prepared
<1>2. PICK o \in Outcomes(users[r], NewUser(r)) :
        /\ users' = [users EXCEPT ![r] = o.value]
        /\ Count(o)
        /\ IF o.ok THEN /\ id' = [id EXCEPT ![r] = r]
                        /\ Step(r, "newToken") /\ UNCHANGED <<mu, user, snap>>
                   ELSE Reply(r, Status("failed"))
        /\ UNCHANGED <<sessionTokens, foreignIDs, userNames>>
  BY DEF Create
<1>3. TablesOK' /\ (faults \in Nat)'
  BY <1>1, <1>2, OutcomeType, NewUserType, CountType, Parts DEF TablesOK
<1>4. CASE ~o.ok
  BY <1>1, <1>2, <1>3, <1>4, Parts, PartsNext, ReplyType, AnswerType DEF Statuses
<1>5. CASE o.ok
  <2>1. /\ ProgressOK' /\ Framed(r) /\ req' = req /\ at'[r] = "newToken"
        /\ id'[r] \in Ids /\ snap' = snap
    BY <1>1, <1>2, <1>5, Parts, StepType DEF ProgressOK, Framed, Steps
  <2>. QED
    BY <1>1, <1>3, <2>1, Parts, PartsNext DEF Prepared, Locked, Applicant
<1>. QED
  BY <1>4, <1>5

\* NewToken keeps the types.
LEMMA NewTokenType ==
  ASSUME TypeInv, NEW r \in Requests, NewToken(r)
  PROVE  TypeOK' /\ Prepared(r)' /\ Framed(r)
<1>1. /\ TypeOK /\ TablesOK' /\ FileOK' /\ UNCHANGED faults
      /\ Applicant(r) /\ id[r] \in Ids
  BY DEF NewToken, tables, file, TablesOK, FileOK, TypeInv, TypeOK, Prepared
<1>2. CASE ~Readable(users[id[r]])
  BY <1>1, <1>2, Parts, PartsNext, ReplyType, AnswerType DEF NewToken, Statuses
<1>3. CASE Readable(users[id[r]])
  <2>1. /\ users[id[r]] \in User /\ mu' = r
        /\ user' = [user EXCEPT ![r] = users[id[r]]]
        /\ Step(r, "mapToken") /\ UNCHANGED <<id, snap>>
    BY <1>1, <1>3, Parts DEF NewToken, TablesOK, Readable
  <2>2. ProgressOK' /\ Framed(r) /\ req' = req /\ at'[r] = "mapToken" /\ user'[r] \in User
    BY <1>1, <2>1, Parts, StepType DEF ProgressOK, Framed, Steps, Locked
  <2>. QED
    BY <1>1, <2>1, <2>2, Parts, PartsNext DEF Prepared, Locked, Applicant
<1>. QED
  BY <1>2, <1>3

\* Index keeps the types.
LEMMA IndexType ==
  ASSUME TypeInv, NEW r \in Requests, Index(r)
  PROVE  TypeOK' /\ Prepared(r)' /\ Framed(r)
<1>1. /\ TypeOK /\ FileOK' /\ Applicant(r) /\ at[r] = "index"
      /\ id[r] \in Ids /\ user[r] \in User /\ UNCHANGED <<users, sessionTokens>>
  BY DEF Index, file, FileOK, TypeInv, TypeOK, Prepared
<1>2. CASE req[r].handler = "totplogin"
  <2>1. PICK o \in Outcomes(userNames[req[r].name], id[r]) :
          userNames' = [userNames EXCEPT ![req[r].name] = o.value] /\ Count(o)
    BY <1>2 DEF Index
  <2>2. /\ req[r].name \in Names /\ snap[r] \in Entries
        /\ Goto(r, "truncate") /\ UNCHANGED foreignIDs
    BY <1>1, <1>2 DEF Index, Applicant
  <2>3. TablesOK' /\ (faults \in Nat)'
    BY <1>1, <2>1, <2>2, OutcomeType, CountType, Parts DEF TablesOK
  <2>4. /\ ProgressOK' /\ Framed(r) /\ req' = req /\ at'[r] = "truncate"
        /\ id' = id /\ user' = user /\ snap' = snap
    BY <1>1, <2>2, GotoType, Parts DEF Steps
  <2>. QED
    BY <1>1, <1>2, <2>2, <2>3, <2>4, Parts, PartsNext DEF Prepared, Locked
<1>3. CASE req[r].handler \in {"callback", "develop"}
  <2>1. PICK o \in Outcomes(foreignIDs[req[r].foreign], id[r]) :
          foreignIDs' = [foreignIDs EXCEPT ![req[r].foreign] = o.value] /\ Count(o)
    BY <1>3 DEF Index
  <2>2. /\ req[r].foreign \in AllForeign
        /\ Goto(r, "remap") /\ UNCHANGED userNames
    BY <1>1, <1>3 DEF Index, Applicant
  <2>3. TablesOK' /\ (faults \in Nat)'
    BY <1>1, <2>1, <2>2, OutcomeType, CountType, Parts DEF TablesOK
  <2>4. /\ ProgressOK' /\ Framed(r) /\ req' = req /\ at'[r] = "remap"
        /\ id' = id /\ user' = user
    BY <1>1, <2>2, GotoType, Parts DEF Steps
  <2>. QED
    BY <1>1, <1>3, <2>3, <2>4, Parts, PartsNext DEF Prepared, Locked
<1>. QED
  BY <1>2, <1>3 DEF Index

\* Remap keeps the types.
LEMMA RemapType ==
  ASSUME TypeInv, NEW r \in Requests, Remap(r)
  PROVE  TypeOK' /\ Prepared(r)' /\ Framed(r)
<1> DEFINE t == user[r].token
<1>1. /\ TypeOK /\ FileOK' /\ at[r] = "remap"
      /\ id[r] \in Ids /\ user[r] \in User
      /\ req[r].handler \in {"callback", "develop"}
      /\ Goto(r, "send") /\ UNCHANGED <<users, foreignIDs, userNames>>
  BY DEF Remap, file, FileOK, TypeInv, TypeOK, Prepared
<1>2. PICK o \in Outcomes(sessionTokens[t], id[r]) :
        sessionTokens' = [sessionTokens EXCEPT ![t] = o.value] /\ Count(o)
  BY DEF Remap
<1>3. TablesOK' /\ (faults \in Nat)'
  <2>1. t \in Tokens => o.value \in Ids \union {None, Torn}
    BY <1>1, <1>2, OutcomeType, Parts DEF TablesOK
  <2>. QED
    BY <1>1, <1>2, <2>1, CountType, Parts DEF TablesOK
<1>4. /\ ProgressOK' /\ Framed(r) /\ req' = req /\ at'[r] = "send"
      /\ id' = id /\ user' = user
  BY <1>1, GotoType, Parts DEF Steps
<1>. QED
  BY <1>1, <1>3, <1>4, Parts, PartsNext DEF Prepared, Locked, FirstLogin

\* What follows the saving of totp_pending.json.
LEMMA AfterSaveType ==
  ASSUME TypeInv, NEW r \in Requests, at[r] \in {"truncate", "fill"},
         NEW ok \in BOOLEAN, AfterSave(r, ok)
  PROVE  ProgressOK' /\ Prepared(r)' /\ Framed(r) /\ req' = req
<1>1. ProgressOK /\ req \in [Requests -> Request] /\ Prepared(r)
  BY Parts DEF TypeInv
<1>2. CASE req[r].handler = "totpsignup"
  <2>1. \E a \in Answer : Reply(r, a)
    BY <1>2, AnswerType DEF AfterSave, Statuses
  <2>. QED
    BY <1>1, <2>1, ReplyType
<1>3. CASE req[r].handler # "totpsignup"
  <2>1. Goto(r, "send")
    BY <1>3 DEF AfterSave
  <2>. QED
    BY <1>1, <1>3, <2>1, GotoType DEF Prepared, Locked, Steps, FirstLogin
<1>. QED
  BY <1>2, <1>3

\* Truncate keeps the types.
LEMMA TruncateType ==
  ASSUME TypeInv, NEW r \in Requests, Truncate(r)
  PROVE  TypeOK' /\ Prepared(r)' /\ Framed(r)
<1>1. TypeOK /\ TablesOK' /\ FileOK' /\ (faults \in Nat)' /\ at[r] = "truncate"
  <2>1. TypeOK /\ TablesOK' /\ approvals' = approvals /\ at[r] = "truncate"
    BY DEF Truncate, tables, TablesOK, TypeInv, TypeOK
  <2>2. pending' \in {pending, Empty} /\ faults' \in {faults, faults + 1}
    BY DEF Truncate
  <2>. QED
    BY <2>1, <2>2, Parts DEF FileOK
<1>2. CASE Goto(r, "fill")
  <2>1. /\ ProgressOK' /\ Framed(r) /\ req' = req /\ at'[r] = "fill"
        /\ id' = id /\ user' = user /\ snap' = snap
    BY <1>1, <1>2, GotoType, Parts DEF Steps
  <2>2. Prepared(r)'
    BY <1>1, <2>1 DEF TypeInv, Prepared, Locked
  <2>. QED
    BY <1>1, <2>1, <2>2, Parts, PartsNext
<1>3. CASE AfterSave(r, FALSE)
  BY <1>1, <1>3, AfterSaveType, Parts, PartsNext
<1>. QED
  BY <1>2, <1>3 DEF Truncate

\* Fill keeps the types.
LEMMA FillType ==
  ASSUME TypeInv, NEW r \in Requests, Fill(r)
  PROVE  TypeOK' /\ Prepared(r)' /\ Framed(r)
<1>1. /\ TypeOK /\ at[r] = "fill" /\ req[r].name \in Names /\ snap[r] \in Entries
      /\ TablesOK' /\ approvals' = approvals
  BY DEF Fill, tables, TablesOK, TypeInv, TypeOK, Prepared
<1>2. Written(r) \in Entries
  BY <1>1 DEF Written, Entries, Entry
<1>3. FileOK' /\ (faults \in Nat)'
  <2>1. pending' \in {pending, Written(r), Garbled}
    BY DEF Fill
  <2>2. faults' \in {faults, faults + 1}
    BY DEF Fill
  <2>. QED
    BY <1>1, <1>2, <2>1, <2>2, Parts DEF FileOK
<1>4. AfterSave(r, TRUE) \/ AfterSave(r, FALSE)
  BY DEF Fill
<1>. QED
  BY <1>1, <1>3, <1>4, AfterSaveType, Parts, PartsNext

\* A request that arrives has what its handler needs for its first step.
LEMMA ReceiveType ==
  ASSUME TypeOK, NEW r \in Requests, NEW a \in Request, NEW s \in Steps,
         Receive(r, a, s)
  PROVE  /\ TypeOK' /\ Framed(r) /\ req'[r] = a /\ at'[r] = s
         /\ snap' = snap /\ user' = user /\ id' = id
<1>1. TablesOK' /\ FileOK' /\ (faults \in Nat)'
  BY Parts DEF Receive, tables, file, TablesOK, FileOK
<1>2. /\ ProgressOK' /\ (req \in [Requests -> Request])' /\ Framed(r)
      /\ req'[r] = a /\ at'[r] = s /\ snap' = snap /\ user' = user /\ id' = id
  BY Parts DEF Receive, locals, ProgressOK, Framed
<1>. QED
  BY <1>1, <1>2, PartsNext

\* Arrive keeps the types and prepares the first step of the request.
LEMMA ArriveType ==
  ASSUME TypeInv, NEW r \in Requests, Arrive(r)
  PROVE  TypeOK' /\ Prepared(r)' /\ Framed(r)
<1> USE DEF TypeInv
<1>0. /\ Cookies \subseteq Tokens \union {None}
      /\ Authenticators \subseteq Requests \union {None}
  BY DEF Cookies, Authenticators, TypeOK, Answer
<1>1. CASE ManageRequest(r)
  <2>1. PICK h \in ManagementHandlers \union {"relay"}, t \in Cookies \union {None},
             n \in Names \union {None} :
          /\ h # "updateUser" => n = None
          /\ Receive(r, [Blank EXCEPT !.handler = h, !.token = t, !.name = n],
                     "authenticate")
    BY <1>1 DEF ManageRequest
  <2> DEFINE a == [Blank EXCEPT !.handler = h, !.token = t, !.name = n]
  <2>2. a \in Request /\ a.handler = h
    BY <1>0 DEF Blank, Request, AllHandlers, ManagementHandlers
  <2>3. TypeOK' /\ Framed(r) /\ req'[r] = a /\ at'[r] = "authenticate"
    BY <2>1, <2>2, ReceiveType DEF Steps
  <2>. QED
    BY <2>2, <2>3 DEF Prepared, Locked
<1>2. CASE LoginRequest(r)
  <2>1. PICK n \in Names \union {None}, s \in Authenticators \union {None} :
          Receive(r, [Blank EXCEPT !.handler = "totplogin", !.name = n, !.secret = s],
                  "loginLookup")
    BY <1>2 DEF LoginRequest
  <2> DEFINE a == [Blank EXCEPT !.handler = "totplogin", !.name = n, !.secret = s]
  <2>2. a \in Request /\ a.handler = "totplogin"
    BY <1>0 DEF Blank, Request, AllHandlers
  <2>3. TypeOK' /\ Framed(r) /\ req'[r] = a /\ at'[r] = "loginLookup"
    BY <2>1, <2>2, ReceiveType DEF Steps
  <2>. QED
    BY <2>2, <2>3 DEF Prepared, Locked
<1>3. CASE SignupRequest(r)
  <2>1. PICK n \in Names \union {None} :
          Receive(r, [Blank EXCEPT !.handler = "totpsignup", !.name = n],
                  "signupLookup")
    BY <1>3 DEF SignupRequest
  <2> DEFINE a == [Blank EXCEPT !.handler = "totpsignup", !.name = n]
  <2>2. a \in Request /\ a.handler = "totpsignup"
    BY DEF Blank, Request, AllHandlers
  <2>3. TypeOK' /\ Framed(r) /\ req'[r] = a /\ at'[r] = "signupLookup"
    BY <2>1, <2>2, ReceiveType DEF Steps
  <2>. QED
    BY <2>2, <2>3 DEF Prepared, Locked
<1>4. CASE CallbackRequest(r)
  <2>1. PICK f \in Foreigners :
          Receive(r, [Blank EXCEPT !.handler = "callback", !.foreign = f],
                  "lookupForeign")
    BY <1>4 DEF CallbackRequest
  <2> DEFINE a == [Blank EXCEPT !.handler = "callback", !.foreign = f]
  <2>2. a \in Request /\ a.handler = "callback" /\ a.foreign = f
    BY DEF Blank, Request, AllHandlers, AllForeign
  <2>3. TypeOK' /\ Framed(r) /\ req'[r] = a /\ at'[r] = "lookupForeign"
    BY <2>1, <2>2, ReceiveType DEF Steps
  <2>. QED
    BY <2>2, <2>3 DEF Prepared, Locked, AllForeign
<1>5. CASE DevelopRequest(r)
  <2> DEFINE a == [Blank EXCEPT !.handler = "develop", !.foreign = DevForeign]
  <2>1. Receive(r, a, "create")
    BY <1>5 DEF DevelopRequest
  <2>2. a \in Request /\ a.handler = "develop" /\ a.foreign = DevForeign
    BY DEF Blank, Request, AllHandlers, AllForeign
  <2>3. TypeOK' /\ Framed(r) /\ req'[r] = a /\ at'[r] = "create"
    BY <2>1, <2>2, ReceiveType DEF Steps
  <2>. QED
    BY <2>2, <2>3 DEF Prepared, Locked, Applicant, AllForeign
<1>. QED
  BY <1>1, <1>2, <1>3, <1>4, <1>5 DEF Arrive

\* A step that leaves another request's progress alone leaves it prepared.
LEMMA OthersPrepared ==
  ASSUME TypeInv, NEW r \in Requests, Framed(r), Prepared(r)'
  PROVE  \A q \in Requests : Prepared(q)'
<1> SUFFICES ASSUME NEW q \in Requests \ {r}
             PROVE  Prepared(q)'
  OBVIOUS
<1>1. /\ Prepared(q) /\ at'[q] = at[q] /\ req'[q] = req[q]
      /\ id'[q] = id[q] /\ user'[q] = user[q] /\ snap'[q] = snap[q]
  BY DEF TypeInv, Framed
<1>. QED
  BY <1>1 DEF Prepared, Applicant

\* The operator's edit of the file, and a restart, keep the types.
LEMMA ApproveType ==
  ASSUME TypeInv, NEW n \in Names, Approve(n)
  PROVE  TypeInv'
<1>1. /\ pending[n] \in Entry /\ pending \in Entries
      /\ pending' = [pending EXCEPT ![n].approved = TRUE]
      /\ approvals' = approvals \union {pending[n].otp}
  BY DEF Approve, Entries
<1>2. FileOK'
  <2>1. [pending[n] EXCEPT !.approved = TRUE] \in Entry
    BY <1>1 DEF Entry
  <2>2. pending' = [pending EXCEPT ![n] = [pending[n] EXCEPT !.approved = TRUE]]
    BY <1>1 DEF Entries
  <2>3. pending' \in Entries
    BY <1>1, <2>1, <2>2 DEF Entries
  <2>4. pending[n].otp \in Requests
    BY <1>1 DEF Entry
  <2>. QED
    BY <1>1, <2>3, <2>4 DEF FileOK, TypeInv, TypeOK
<1>3. TypeOK'
  BY <1>2, Parts, PartsNext
     DEF TypeInv, Approve, tables, locals, TablesOK, ProgressOK
<1>4. \A r \in Requests : Prepared(r)'
  BY DEF TypeInv, Approve, locals, Prepared, Applicant
<1>. QED
  BY <1>3, <1>4 DEF TypeInv

\* A restart forgets what the handlers held.
LEMMA CrashType ==
  ASSUME TypeInv, Crash
  PROVE  TypeInv'
<1>1. /\ \A r \in Requests : at'[r] \in {"idle", "done"}
      /\ (at \in [Requests -> Steps])'
  BY DEF Crash, TypeInv, TypeOK, Steps
<1>2. (answer \in [Requests -> Answer])'
  BY AnswerType DEF Crash, TypeInv, TypeOK, Statuses
<1>3. TypeOK'
  BY <1>1, <1>2 DEF Crash, TypeInv, TypeOK, tables, file
<1>4. \A r \in Requests : Prepared(r)'
  BY <1>1 DEF Prepared, Locked
<1>. QED
  BY <1>3, <1>4 DEF TypeInv

\* A step that changes nothing keeps the types.
LEMMA StutterType ==
  ASSUME TypeInv, UNCHANGED vars
  PROVE  TypeInv'
BY DEF vars, TypeInv, TypeOK, Prepared, Applicant

\* The stores found at start are well typed.
LEMMA InitType ==
  ASSUME Init
  PROVE  TypeInv
<1>1. PICK foreign \in [Settled -> Foreigners \union {None}],
           name \in [Settled -> Names \union {None}] : Found(foreign, name)
  BY DEF Init
<1>2. \A i \in Settled : [token |-> i, otp |-> i, name |-> name[i],
                          foreign |-> foreign[i]] \in User
  BY <1>1 DEF User, AllForeign
<1>3. \A r \in Requests : at[r] \in {"done", "idle"}
  BY DEF Init
<1>4. TablesOK
  <2>1. users \in [Ids -> User \union {None, Torn}]
    BY <1>1, <1>2 DEF Found
  <2>2. sessionTokens \in [Tokens -> Ids \union {None, Torn}]
    BY <1>1 DEF Found
  <2>3. foreignIDs \in [AllForeign -> Ids \union {None, Torn}]
    BY <1>1 DEF Found
  <2>4. userNames \in [Names -> Ids \union {None, Torn}]
    BY <1>1 DEF Found
  <2>. QED
    BY <2>1, <2>2, <2>3, <2>4 DEF TablesOK
<1>5. FileOK
  BY DEF Init, FileOK, NoEntries, Entries
<1>6. ProgressOK
  <2>1. Status("none") \in Answer
    BY AnswerType DEF Statuses
  <2>. QED
    BY <2>1 DEF Init, ProgressOK, Steps
<1>7. req \in [Requests -> Request] /\ faults \in Nat
  BY DEF Init, Blank, Request
<1>8. \A r \in Requests : Prepared(r)
  BY <1>3 DEF Prepared, Locked
<1>. QED
  BY <1>4, <1>5, <1>6, <1>7, <1>8, Parts DEF TypeInv

\* Every step of a request keeps the types.
LEMMA ServeType ==
  ASSUME TypeInv, NEW r \in Requests, Serve(r) \/ ReadForm(r)
  PROVE  TypeOK' /\ Prepared(r)' /\ Framed(r)
BY AuthenticateType, ForwardType, RecheckType, ShowType, ReadFormType,
   CheckNameType, SaveNameType, IndexNameType, MapTokenType, SaveTokenType,
   DropOldType, LoginLookupType, SignupLookupType, LookupForeignType, LoadType,
   SendType, LoginPendingType, SignupPendingType, CreateType, NewTokenType,
   IndexType, RemapType, TruncateType, FillType
   DEF Serve

\* TypeInv is inductive.
LEMMA TypeStep ==
  ASSUME TypeInv, [Next]_vars
  PROVE  TypeInv'
<1>1. ASSUME NEW r \in Requests, Arrive(r) \/ Serve(r) \/ ReadForm(r)
      PROVE  TypeInv'
  <2>1. TypeOK' /\ Prepared(r)' /\ Framed(r)
    BY <1>1, ArriveType, ServeType
  <2>2. \A q \in Requests : Prepared(q)'
    BY <2>1, OthersPrepared
  <2>. QED
    BY <2>1, <2>2 DEF TypeInv
<1>2. ASSUME NEW n \in Names, Approve(n)
      PROVE  TypeInv'
  BY <1>2, ApproveType
<1>3. CASE Crash
  BY <1>3, CrashType
<1>4. CASE Rest \/ UNCHANGED vars
  BY <1>4, StutterType DEF Rest
<1>. QED
  BY <1>1, <1>2, <1>3, <1>4 DEF Next

\* Every value in every store, the file and every handler has its Go type, and
\* every handler has at each step what it is going to use there.
THEOREM TypeCorrect == Spec => [](TypeOK /\ TypeInv)
<1>1. Init => TypeInv
  BY InitType
<1>2. TypeInv /\ [Next]_vars => TypeInv'
  BY TypeStep
<1>3. TypeInv => TypeOK /\ TypeInv
  BY DEF TypeInv
<1>. QED
  BY <1>1, <1>2, <1>3, PTL DEF Spec

-----------------------------------------------------------------------------
(* What SessionInv takes: each part of it, for each step.                  *)

\* What the other requests rely on when r takes a step: r writes the record it
\* holds under b.mu or the account it makes, gives no account a token other
\* than r, spoils no account, and writes no mapping but that of r, except to
\* delete one under b.mu.  It does not repair the mapping of a token it saved.
StoreStep(r) ==
  /\ \A q \in Requests \ {r} : mu = q <=> mu' = q
  /\ at[r] \in PastSave => at'[r] \in PastSave
  /\ \A i \in Ids : users'[i] # users[i] =>
       \/ at[r] \in Locked \ {"dropOld"} /\ i = id[r]
       \/ at[r] = "create" /\ i = r
  /\ \A i \in Ids, t \in Tokens \ {r} : CurrentToken(i, t)' => CurrentToken(i, t)
  /\ \A i \in Ids : Complete(i) => Complete(i)'
  /\ \A t \in Tokens \ {r} :
       sessionTokens'[t] # sessionTokens[t] => mu = r /\ sessionTokens'[t] = None
  /\ at[r] \in PastSave /\ sessionTokens[r] = Torn => sessionTokens'[r] = Torn

\* A spent token stays spent.
LEMMA SpentStays ==
  ASSUME NEW r \in Requests, Framed(r), StoreStep(r),
         NEW t \in Tokens \union {None}, Spent(t)
  PROVE  Spent(t)'
<1>1. CASE t = r
  BY <1>1 DEF Spent, StoreStep
<1>2. CASE t # r
  BY <1>2 DEF Spent, Framed
<1>. QED
  BY <1>1, <1>2

\* A readable record is a user's, and so is its token.
LEMMA RecordType ==
  ASSUME TypeOK, NEW i \in Ids, Readable(users[i])
  PROVE  users[i] \in User /\ users[i].token \in Tokens \union {None}
BY DEF TypeOK, Readable, User

\* Whoever holds b.mu, or makes an account, is not disturbed by r.
LEMMA OthersUndisturbed ==
  ASSUME SessionInv, TypeInv', NEW r \in Requests, Framed(r), StoreStep(r)
  PROVE  \A q \in Requests \ {r} : RequestInv(q)'
<1> SUFFICES ASSUME NEW q \in Requests \ {r}
             PROVE  RequestInv(q)'
  OBVIOUS
<1> DEFINE same == /\ at'[q] = at[q] /\ req'[q] = req[q] /\ answer'[q] = answer[q]
                   /\ id'[q] = id[q] /\ user'[q] = user[q]
<1>1. same /\ RequestInv(q) /\ RequestInv(r) /\ Prepared(q) /\ Prepared(r) /\ TypeOK
  BY DEF Framed, SessionInv, TypeInv
<1>2. Mutex(q)'
  BY <1>1 DEF Mutex, RequestInv, StoreStep
<1>3. at[q] \in Locked => at[r] \notin Locked /\ users'[id[q]] = users[id[q]]
  <2> SUFFICES ASSUME at[q] \in Locked
               PROVE  at[r] \notin Locked /\ users'[id[q]] = users[id[q]]
    OBVIOUS
  <2>1. mu = q /\ mu # r /\ at[r] \notin Locked
    BY <1>1 DEF RequestInv, Mutex
  <2>2. id[q] \in Ids /\ user[q] \in User
    BY <1>1 DEF Prepared
  <2>3. users[id[q]] # None
    <3>1. CASE at[q] = "dropOld"
      BY <1>1, <2>2, <3>1, RotatedType DEF RequestInv, RotationOrder
    <3>2. CASE at[q] # "dropOld"
      BY <1>1, <2>2, <3>2 DEF RequestInv, HoldsRecord
    <3>. QED
      BY <3>1, <3>2
  <2>4. at[r] = "create" => users[r] = None
    BY <1>1 DEF RequestInv, NewAccount
  <2>. QED
    BY <2>1, <2>2, <2>3, <2>4 DEF StoreStep
<1>4. HoldsRecord(q)'
  BY <1>1, <1>3 DEF HoldsRecord, RequestInv
<1>5. NewAccount(q)'
  <2>1. at[q] \in {"idle", "lookupForeign", "loginLookup", "loginPending", "create",
                   "newToken"} => users'[q] = users[q]
    <3> SUFFICES ASSUME at[q] \in {"idle", "lookupForeign", "loginLookup",
                                   "loginPending", "create", "newToken"},
                        users'[q] # users[q]
                 PROVE  FALSE
      OBVIOUS
    <3>1. at[r] \in Locked \ {"dropOld"} /\ id[r] = q
      BY DEF StoreStep
    <3>2. users[q] = user[r] /\ user[r] \in User
      BY <1>1, <3>1 DEF RequestInv, HoldsRecord, Prepared
    <3>3. Readable(users[q]) /\ users[q].token # None
      BY <1>1, <3>1, <3>2 DEF RequestInv, HoldsRecord, Readable
    <3>. QED
      BY <1>1, <3>3 DEF RequestInv, NewAccount, Readable
  <2>. QED
    BY <1>1, <2>1 DEF RequestInv, NewAccount, Readable
<1>6. HoldsSpent(q)'
  <2>1. answer[q].token \in Tokens \union {None}
    BY <1>1 DEF TypeOK, Answer
  <2>2. user[q] # None => user[q].token \in Tokens \union {None}
    BY <1>1 DEF TypeOK, User
  <2>3. \A t \in Tokens \union {None} : Spent(t) => Spent(t)'
    BY SpentStays
  <2>4. Spent(answer[q].token)'
    BY <1>1, <2>1, <2>3 DEF RequestInv, HoldsSpent, Spent
  <2>5. user[q] # None => Spent(user[q].token)'
    BY <1>1, <2>2, <2>3 DEF RequestInv, HoldsSpent, Spent
  <2>. QED
    BY <1>1, <2>4, <2>5 DEF RequestInv, HoldsSpent
<1>7. RotationOrder(q)'
  <2>1. at[q] \in Locked => sessionTokens'[q] = sessionTokens[q]
    BY <1>1 DEF StoreStep, RequestInv, Mutex
  <2>2. \A i \in Ids : CurrentToken(i, q)' => CurrentToken(i, q)
    BY DEF StoreStep
  <2>3. at[q] = "saveToken" => (sessionTokens[q] = id[q])'
    BY <1>1, <2>1 DEF RequestInv, RotationOrder, Locked
  <2>4. at[q] = "dropOld" =>
          /\ (users[id[q]] = Rotated(q))'
          /\ (sessionTokens[q] = id[q])'
          /\ (user[q].token # q /\ (req[q].handler \in FirstLogin => id[q] = q))'
    BY <1>1, <1>3, <2>1 DEF RequestInv, RotationOrder, Locked, Rotated
  <2>5. at[q] = "dropOld" =>
          \A i \in Ids : ~(user[q].token # None /\ CurrentToken(i, user[q].token))'
    <3> SUFFICES ASSUME at[q] = "dropOld", user[q].token # None, NEW i \in Ids
                 PROVE  ~CurrentToken(i, user[q].token)'
      BY <1>1
    <3>1. user[q] \in User /\ user[q].token \in Tokens
      BY <1>1 DEF Prepared, Locked, User
    <3>2. ~CurrentToken(i, user[q].token)
      BY <1>1 DEF RequestInv, RotationOrder
    <3>3. users'[i] # users[i] => users[i] = None
      <4>1. at[r] \notin Locked
        BY <1>3 DEF Locked
      <4>. QED
        BY <1>1, <4>1 DEF StoreStep, RequestInv, NewAccount
    <3>4. CASE user[q].token # r
      BY <1>1, <3>1, <3>2, <3>4 DEF StoreStep, CurrentToken
    <3>5. CASE user[q].token = r
      <4>1. at[r] \in PastSave
        BY <1>1, <3>1, <3>5 DEF RequestInv, HoldsSpent, Spent
      <4>2. at[r] # "create"
        BY <4>1 DEF PastSave
      <4>3. at[r] \notin Locked
        BY <1>3 DEF Locked
      <4>4. users'[i] = users[i]
        BY <4>2, <4>3 DEF StoreStep
      <4>. QED
        BY <1>1, <3>2, <4>4 DEF CurrentToken
    <3>. QED
      BY <3>4, <3>5
  <2>6. at[q] \in {"index", "remap"} =>
          /\ (id[q] = q /\ user[q].token = q /\ sessionTokens[q] # Torn)'
          /\ \A i \in Ids : CurrentToken(i, q)' => i = q
    BY <1>1, <2>2 DEF RequestInv, RotationOrder, StoreStep
  <2>. QED
    BY <1>1, <2>3, <2>4, <2>5, <2>6 DEF RotationOrder
<1>8. (at[q] = "index" => Complete(q))'
  BY <1>1 DEF RequestInv, StoreStep
<1>. QED
  BY <1>2, <1>4, <1>5, <1>6, <1>7, <1>8 DEF RequestInv

\* A step by which no account gets another token keeps what holds of tokens.
LEMMA TokensKept ==
  ASSUME SessionInv, TypeInv', NEW r \in Requests, Framed(r), StoreStep(r),
         \A i \in Ids, t \in Tokens : CurrentToken(i, t)' => CurrentToken(i, t)
  PROVE  /\ SpentRecords' /\ OneAccountPerToken'
         /\ (\A i \in Ids : Readable(users[i]) /\ users[i].token # None => Complete(i))'
<1>1. \A i \in Ids : Readable(users[i])' =>
        users'[i].token \in Tokens \union {None}
  BY DEF TypeInv, TypeOK, Readable, User
<1>2. \A t \in Tokens \union {None} : Spent(t) => Spent(t)'
  BY SpentStays
<1>3. SpentRecords'
  <2> SUFFICES ASSUME NEW i \in Ids, Readable(users[i])', users'[i].token # None
               PROVE  Spent(users[i].token)'
    BY DEF SpentRecords, Spent
  <2>1. users'[i].token \in Tokens /\ CurrentToken(i, users'[i].token)
    BY <1>1 DEF CurrentToken
  <2>2. Spent(users'[i].token)
    BY <2>1 DEF CurrentToken, SessionInv, StoreInv, SpentRecords
  <2>. QED
    BY <1>2, <2>1, <2>2 DEF Spent
<1>4. OneAccountPerToken'
  BY DEF SessionInv, StoreInv, OneAccountPerToken
<1>5. (\A i \in Ids : Readable(users[i]) /\ users[i].token # None => Complete(i))'
  <2> SUFFICES ASSUME NEW i \in Ids, Readable(users[i])', users'[i].token # None
               PROVE  Complete(i)'
    OBVIOUS
  <2>1. CurrentToken(i, users'[i].token) /\ users'[i].token # None
    BY <1>1 DEF CurrentToken
  <2>2. Complete(i)
    BY <2>1 DEF CurrentToken, SessionInv, StoreInv, AccountsComplete
  <2>. QED
    BY <2>2 DEF StoreStep
<1>. QED
  BY <1>3, <1>4, <1>5

\* A reply leaves nothing behind: the request is done and holds nothing.
LEMMA RepliedInv ==
  ASSUME SessionInv, NEW r \in Requests, NEW a \in Answer, Reply(r, a),
         Spent(a.token)'
  PROVE  /\ RequestInv(r)' /\ at'[r] = "done"
         /\ \A q \in Requests \ {r} : mu = q <=> mu' = q
<1>1. at'[r] = "done" /\ user'[r] = None /\ answer'[r] = a /\ mu' # r
  BY DEF Reply, Released, SessionInv, TypeInv, TypeOK
<1>2. \A q \in Requests \ {r} : mu = q <=> mu' = q
  BY DEF Reply, Released
<1>3. Mutex(r)'
  BY <1>1 DEF Mutex, Locked
<1>4. HoldsRecord(r)' /\ NewAccount(r)' /\ RotationOrder(r)'
  BY <1>1 DEF HoldsRecord, NewAccount, RotationOrder, Locked
<1>5. HoldsSpent(r)'
  BY <1>1 DEF HoldsSpent, Spent
<1>. QED
  BY <1>1, <1>2, <1>3, <1>4, <1>5 DEF RequestInv

\* The answers without a token.
LEMMA PlainAnswer ==
  /\ \A s \in Statuses : Status(s) \in Answer /\ Spent(Status(s).token)'
  /\ \A i, x \in Requests \union {None} :
       /\ [Status("ok") EXCEPT !.id = i] \in Answer
       /\ [Status("ok") EXCEPT !.secret = x] \in Answer
       /\ Spent([Status("ok") EXCEPT !.id = i].token)'
       /\ Spent([Status("ok") EXCEPT !.secret = x].token)'
BY DEF Status, Statuses, Answer, Spent

\* A step that changes no store disturbs nothing but the request itself.
LEMMA QuietStep ==
  ASSUME SessionInv, TypeInv', NEW r \in Requests, Framed(r), UNCHANGED tables,
         \A q \in Requests \ {r} : mu = q <=> mu' = q,
         at[r] \in PastSave => at'[r] \in PastSave
  PROVE  StoreStep(r) /\ StoreInv'
<1>1. StoreStep(r)
  BY DEF StoreStep, tables, CurrentToken, Complete
<1>2. \A i \in Ids, t \in Tokens : CurrentToken(i, t)' => CurrentToken(i, t)
  BY DEF tables, CurrentToken
<1>3. CurrentTokenIsMapped'
  BY DEF SessionInv, StoreInv, CurrentTokenIsMapped, CurrentToken, tables
<1>4. /\ \A n \in Names : (userNames[n] \in Ids => Complete(userNames[n]))'
      /\ \A f \in AllForeign : (foreignIDs[f] \in Ids => Complete(foreignIDs[f]))'
  BY DEF SessionInv, StoreInv, AccountsComplete, Complete, tables
<1>. QED
  BY <1>1, <1>2, <1>3, <1>4, TokensKept DEF StoreInv, AccountsComplete

-----------------------------------------------------------------------------
(* Each step keeps what holds of its own request.  The first ones change   *)
(* no store.                                                               *)

\* A step after which r is at a step without duties, with nothing new at hand.
LEMMA IdleInv ==
  ASSUME SessionInv, NEW r \in Requests, Framed(r), StoreStep(r),
         at'[r] \in {"authenticate", "forward", "recheck", "send",
                     "signupLookup", "signupPending", "load", "truncate", "fill"},
         mu' = mu \/ mu' = None, at[r] \notin Locked \/ mu' = None,
         at[r] # "done", answer'[r] = answer[r],
         user'[r] # None => Spent(user[r].token)'
  PROVE  RequestInv(r)'
<1>1. RequestInv(r) /\ answer[r].token \in Tokens \union {None} /\ TypeOK
  BY DEF SessionInv, TypeInv, TypeOK, Answer
<1>2. Mutex(r)'
  BY <1>1 DEF RequestInv, Mutex, Locked
<1>3. /\ at'[r] \notin Locked /\ at'[r] \notin {"index", "remap"}
      /\ at'[r] \notin {"idle", "lookupForeign", "loginPending", "create", "newToken"}
  BY DEF Locked
<1>4. HoldsRecord(r)' /\ RotationOrder(r)'
  BY <1>3 DEF HoldsRecord, RotationOrder, Locked
<1>5. NewAccount(r)'
  BY <1>3 DEF NewAccount
<1>6. HoldsSpent(r)'
  <2>1. Spent(answer[r].token)
    BY <1>1 DEF RequestInv, HoldsSpent
  <2>2. Spent(answer[r].token)'
    BY <1>1, <2>1, SpentStays DEF Spent
  <2>. QED
    BY <1>1, <2>2 DEF HoldsSpent, RequestInv
<1>. QED
  BY <1>1, <1>2, <1>3, <1>4, <1>5, <1>6 DEF RequestInv

\* What is proved of every step of request r.
Keeps(r) == StoreStep(r) /\ RequestInv(r)' /\ StoreInv'

\* Every step of a request keeps the types and leaves the others alone.
LEMMA FramedStep ==
  ASSUME TypeInv, NEW r \in Requests, Arrive(r) \/ Serve(r) \/ ReadForm(r)
  PROVE  TypeInv' /\ Framed(r)
<1>1. TypeOK' /\ Prepared(r)' /\ Framed(r)
  BY ArriveType, ServeType
<1>. QED
  BY <1>1, OthersPrepared DEF TypeInv

\* A reply that changes no store.
LEMMA QuietReply ==
  ASSUME SessionInv, TypeInv', NEW r \in Requests, Framed(r), UNCHANGED tables,
         NEW a \in Answer, Reply(r, a), Spent(a.token)'
  PROVE  Keeps(r)
<1>1. /\ RequestInv(r)' /\ at'[r] = "done"
      /\ \A q \in Requests \ {r} : mu = q <=> mu' = q
  BY RepliedInv
<1>2. StoreStep(r) /\ StoreInv'
  BY <1>1, QuietStep DEF PastSave
<1>. QED
  BY <1>1, <1>2 DEF Keeps

\* A reply without a token.
LEMMA QuietStatus ==
  ASSUME SessionInv, TypeInv', NEW r \in Requests, Framed(r), UNCHANGED tables,
         NEW s \in Statuses, Reply(r, Status(s))
  PROVE  Keeps(r)
BY QuietReply, PlainAnswer

\* A step outside b.mu, to a step without duties, that changes no store.
LEMMA QuietGoto ==
  ASSUME SessionInv, TypeInv', NEW r \in Requests, Framed(r), UNCHANGED tables,
         at'[r] \in {"authenticate", "forward", "recheck", "send",
                     "signupLookup", "signupPending", "load", "truncate", "fill"},
         mu' = mu, at[r] \notin Locked, at[r] # "done", answer'[r] = answer[r],
         at[r] \in PastSave => at'[r] \in PastSave,
         user'[r] = user[r]
  PROVE  Keeps(r)
<1>1. StoreStep(r) /\ StoreInv'
  BY QuietStep
<1>2. user'[r] # None => Spent(user[r].token)'
  <2>1. user[r] # None => user[r].token \in Tokens \union {None} /\ Spent(user[r].token)
    BY DEF SessionInv, TypeInv, TypeOK, User, RequestInv, HoldsSpent
  <2>. QED
    BY <1>1, <2>1, SpentStays DEF Spent
<1>3. RequestInv(r)'
  BY <1>1, <1>2, IdleInv
<1>. QED
  BY <1>1, <1>3 DEF Keeps

\* The steps to "loginLookup", "loginPending", "lookupForeign" and "create":
\* the account that r may make does not exist yet.
LEMMA ApplicantGoto ==
  ASSUME SessionInv, TypeInv', NEW r \in Requests, Framed(r), UNCHANGED tables,
         at'[r] \in {"loginLookup", "loginPending", "lookupForeign", "create"},
         at[r] \in {"idle", "loginLookup", "loginPending", "lookupForeign"},
         mu' = mu, answer'[r] = answer[r], user'[r] = user[r]
  PROVE  Keeps(r)
<1>1. at[r] \notin PastSave /\ at[r] \notin Locked /\ at'[r] \notin Locked
  BY DEF PastSave, Locked
<1>2. StoreStep(r) /\ StoreInv'
  BY <1>1, QuietStep
<1>3. Mutex(r)' /\ NewAccount(r)'
  BY <1>1 DEF SessionInv, RequestInv, Mutex, NewAccount, tables
<1>4. HoldsRecord(r)' /\ RotationOrder(r)'
  BY <1>1 DEF HoldsRecord, RotationOrder, Locked
<1>5. HoldsSpent(r)'
  <2>1. /\ user[r] # None => user[r].token \in Tokens \union {None}
        /\ answer[r].token \in Tokens \union {None}
    BY DEF SessionInv, TypeInv, TypeOK, User, Answer
  <2>2. HoldsSpent(r) /\ at[r] # "done"
    BY DEF SessionInv, RequestInv
  <2>3. \A t \in Tokens \union {None} : Spent(t) => Spent(t)'
    BY <1>2, SpentStays
  <2>. QED
    BY <2>1, <2>2, <2>3 DEF HoldsSpent, Spent
<1>. QED
  BY <1>2, <1>3, <1>4, <1>5 DEF Keeps, RequestInv

\* Arrive: an arriving request has minted nothing yet.
LEMMA ArriveKeeps ==
  ASSUME SessionInv, NEW r \in Requests, Arrive(r)
  PROVE  Keeps(r)
<1>1. TypeInv' /\ Framed(r)
  BY FramedStep DEF SessionInv
<1>2. PICK a \in {req'[r]}, s \in {"authenticate", "loginLookup", "signupLookup",
                                   "lookupForeign", "create"} : Receive(r, a, s)
  <2>1. \E a, s : Receive(r, a, s) /\
          s \in {"authenticate", "loginLookup", "signupLookup", "lookupForeign", "create"}
    BY DEF Arrive, ManageRequest, LoginRequest, SignupRequest, CallbackRequest,
           DevelopRequest
  <2>. QED
    BY <2>1 DEF Receive, SessionInv, TypeInv, TypeOK
<1>3. /\ at[r] = "idle" /\ at'[r] = s /\ mu' = mu /\ answer' = answer /\ user' = user
      /\ UNCHANGED tables
  BY <1>2 DEF Receive, locals, SessionInv, TypeInv, TypeOK
<1>4. CASE s \in {"authenticate", "signupLookup"}
  <2>1. at[r] \notin Locked /\ at[r] \notin PastSave /\ at[r] # "done"
    BY <1>3 DEF Locked, PastSave
  <2>2. answer'[r] = answer[r] /\ user'[r] = user[r]
    BY <1>3
  <2>. QED
    BY <1>1, <1>3, <1>4, <2>1, <2>2, QuietGoto
<1>5. CASE s \notin {"authenticate", "signupLookup"}
  BY <1>1, <1>3, <1>5, ApplicantGoto
<1>. QED
  BY <1>4, <1>5

\* Authenticate.
LEMMA AuthenticateKeeps ==
  ASSUME SessionInv, NEW r \in Requests, Authenticate(r)
  PROVE  Keeps(r)
<1>1. TypeInv' /\ Framed(r)
  BY FramedStep DEF SessionInv, Serve
<1>2. UNCHANGED tables /\ at[r] = "authenticate"
  BY DEF Authenticate
<1>3. CASE Authenticates(req[r].token)
  <2>1. /\ at'[r] \in {"forward", "recheck"} /\ mu' = mu /\ user' = user
        /\ answer' = answer
    BY <1>3 DEF Authenticate, Step, SessionInv, TypeInv, TypeOK
  <2>2. at[r] \notin Locked /\ at[r] \notin PastSave /\ at[r] # "done"
    BY <1>2 DEF Locked, PastSave
  <2>3. answer'[r] = answer[r] /\ user'[r] = user[r]
    BY <2>1
  <2>. QED
    BY <1>1, <1>2, <2>1, <2>2, <2>3, QuietGoto
<1>4. CASE ~Authenticates(req[r].token)
  <2>1. \E s \in {"failed", "frontPage"} : Reply(r, Status(s))
    BY <1>4 DEF Authenticate
  <2>. QED
    BY <1>1, <1>2, <2>1, QuietStatus DEF Statuses
<1>. QED
  BY <1>3, <1>4

\* Forward.
LEMMA ForwardKeeps ==
  ASSUME SessionInv, NEW r \in Requests, Forward(r)
  PROVE  Keeps(r)
<1>1. TypeInv' /\ Framed(r)
  BY FramedStep DEF SessionInv, Serve
<1>2. id[r] \in Ids /\ UNCHANGED tables
      /\ Reply(r, [Status("ok") EXCEPT !.id = id[r]])
  BY DEF Forward, SessionInv, TypeInv, Prepared
<1>. QED
  BY <1>1, <1>2, QuietReply, PlainAnswer

\* Recheck takes b.mu and the record together.
LEMMA RecheckKeeps ==
  ASSUME SessionInv, NEW r \in Requests, Recheck(r)
  PROVE  Keeps(r)
<1>1. TypeInv' /\ Framed(r)
  BY FramedStep DEF SessionInv, Serve
<1>2. /\ UNCHANGED tables /\ at[r] = "recheck" /\ mu = None /\ id[r] \in Ids
      /\ req[r].handler \in ManagementHandlers /\ TypeOK
  BY DEF Recheck, LockFree, SessionInv, TypeInv, Prepared
<1>3. CASE StillCurrent(users[id[r]], r)
  <2>1. /\ at'[r] \in {"show", "mapToken", "readForm"} /\ mu' = r /\ id' = id
        /\ user'[r] = users[id[r]] /\ answer' = answer /\ req' = req
    BY <1>2, <1>3 DEF Recheck, Step, TypeOK, ManagementHandlers
  <2>2. StoreStep(r) /\ StoreInv'
    BY <1>1, <1>2, <2>1, QuietStep DEF PastSave
  <2>3. Mutex(r)' /\ NewAccount(r)' /\ RotationOrder(r)'
    BY <2>1 DEF Mutex, NewAccount, RotationOrder, Locked
  <2>4. HoldsRecord(r)'
    <3>1. users[id[r]].token = req[r].token /\ users[id[r]] \in User
      BY <1>2, <1>3, RecordType DEF StillCurrent
    <3>2. req[r].token # None
      BY <1>2 DEF SessionInv, TypeInv, Prepared
    <3>. QED
      BY <1>2, <2>1, <3>1, <3>2 DEF HoldsRecord, tables
  <2>5. HoldsSpent(r)'
    <3>1. users[id[r]].token \in Tokens \union {None} /\ Spent(users[id[r]].token)
      BY <1>2, <1>3, RecordType
         DEF StillCurrent, SessionInv, StoreInv, SpentRecords
    <3>2. answer[r].token \in Tokens \union {None} /\ Spent(answer[r].token)
          /\ r \notin Settled
      BY <1>2 DEF TypeOK, Answer, SessionInv, RequestInv, HoldsSpent
    <3>3. \A t \in Tokens \union {None} : Spent(t) => Spent(t)'
      BY <1>1, <2>2, SpentStays
    <3>. QED
      BY <2>1, <3>1, <3>2, <3>3 DEF HoldsSpent, Spent
  <2>. QED
    BY <2>1, <2>2, <2>3, <2>4, <2>5 DEF Keeps, RequestInv
<1>4. CASE ~StillCurrent(users[id[r]], r)
  <2>1. \E s \in {"failed", "stale"} : Reply(r, Status(s))
    BY <1>4 DEF Recheck
  <2>. QED
    BY <1>1, <1>2, <2>1, QuietStatus DEF Statuses
<1>. QED
  BY <1>3, <1>4

\* The steps of updateUserHandler that change nothing keep the record it holds.
LEMMA HolderGoto ==
  ASSUME SessionInv, TypeInv', NEW r \in Requests, Framed(r), UNCHANGED tables,
         at[r] \in {"readForm", "checkName"}, NEW s \in {"checkName", "saveName"},
         Goto(r, s)
  PROVE  Keeps(r)
<1>1. /\ at'[r] = s /\ mu' = mu /\ id' = id /\ user' = user /\ req' = req
      /\ answer' = answer
  BY DEF Goto, Step, SessionInv, TypeInv, TypeOK
<1>2. at[r] \in Locked /\ s \in Locked /\ at[r] \notin PastSave
  BY DEF Locked, PastSave
<1>3. StoreStep(r) /\ StoreInv'
  BY <1>1, <1>2, QuietStep
<1>4. Mutex(r)' /\ NewAccount(r)' /\ RotationOrder(r)'
  BY <1>1, <1>2 DEF Mutex, NewAccount, RotationOrder, SessionInv, RequestInv
<1>5. HoldsRecord(r)'
  BY <1>1, <1>2 DEF HoldsRecord, SessionInv, RequestInv, tables
<1>6. HoldsSpent(r)'
  <2>1. /\ user[r] # None => user[r].token \in Tokens \union {None}
        /\ answer[r].token \in Tokens \union {None}
    BY DEF SessionInv, TypeInv, TypeOK, User, Answer
  <2>2. HoldsSpent(r) /\ at[r] # "done"
    BY DEF SessionInv, RequestInv
  <2>3. \A t \in Tokens \union {None} : Spent(t) => Spent(t)'
    BY <1>3, SpentStays
  <2>. QED
    BY <1>1, <2>1, <2>2, <2>3 DEF HoldsSpent, Spent
<1>. QED
  BY <1>1, <1>3, <1>4, <1>5, <1>6 DEF Keeps, RequestInv

\* ReadForm.
LEMMA ReadFormKeeps ==
  ASSUME SessionInv, NEW r \in Requests, ReadForm(r)
  PROVE  Keeps(r)
<1>1. TypeInv' /\ Framed(r) /\ UNCHANGED tables /\ at[r] = "readForm"
  BY FramedStep DEF SessionInv, ReadForm
<1>2. CASE req[r].name = None
  BY <1>1, <1>2, QuietStatus DEF ReadForm, Statuses
<1>3. CASE req[r].name # None
  BY <1>1, <1>3, HolderGoto DEF ReadForm
<1>. QED
  BY <1>2, <1>3

\* CheckName.
LEMMA CheckNameKeeps ==
  ASSUME SessionInv, NEW r \in Requests, CheckName(r)
  PROVE  Keeps(r)
<1>1. TypeInv' /\ Framed(r) /\ UNCHANGED tables /\ at[r] = "checkName"
  BY FramedStep DEF SessionInv, CheckName, Serve
<1>2. CASE NameTaken(req[r].name)
  <2>1. \E s \in {"failed", "taken"} : Reply(r, Status(s))
    BY <1>2 DEF CheckName
  <2>. QED
    BY <1>1, <2>1, QuietStatus DEF Statuses
<1>3. CASE ~NameTaken(req[r].name)
  BY <1>1, <1>3, HolderGoto DEF CheckName
<1>. QED
  BY <1>2, <1>3

\* LoginLookup: an account that the index leads to, or a pending signup.
LEMMA LoginLookupKeeps ==
  ASSUME SessionInv, NEW r \in Requests, LoginLookup(r)
  PROVE  Keeps(r)
<1>1. TypeInv' /\ Framed(r) /\ UNCHANGED tables /\ at[r] = "loginLookup"
  BY FramedStep DEF SessionInv, LoginLookup, Serve
<1>2. CASE \E s \in {"form", "failed"} : Reply(r, Status(s))
  BY <1>1, <1>2, QuietStatus DEF Statuses
<1>3. CASE Goto(r, "loginPending")
  <2>1. at'[r] = "loginPending" /\ mu' = mu /\ answer' = answer /\ user' = user
    BY <1>3 DEF Goto, Step, SessionInv, TypeInv, TypeOK
  <2>. QED
    BY <1>1, <2>1, ApplicantGoto
<1>4. CASE Step(r, "load") /\ UNCHANGED <<mu, user, snap>>
  <2>1. /\ at'[r] = "load" /\ mu' = mu /\ answer'[r] = answer[r]
        /\ user'[r] = user[r]
    BY <1>4 DEF Step, SessionInv, TypeInv, TypeOK
  <2>2. at[r] \notin Locked /\ at[r] \notin PastSave /\ at[r] # "done"
    BY <1>1 DEF Locked, PastSave
  <2>. QED
    BY <1>1, <2>1, <2>2, QuietGoto
<1>. QED
  BY <1>2, <1>3, <1>4 DEF LoginLookup

\* SignupLookup.
LEMMA SignupLookupKeeps ==
  ASSUME SessionInv, NEW r \in Requests, SignupLookup(r)
  PROVE  Keeps(r)
<1>1. TypeInv' /\ Framed(r) /\ UNCHANGED tables /\ at[r] = "signupLookup"
  BY FramedStep DEF SessionInv, SignupLookup, Serve
<1>2. CASE \E s \in {"form", "failed", "taken"} : Reply(r, Status(s))
  BY <1>1, <1>2, QuietStatus DEF Statuses
<1>3. CASE Goto(r, "signupPending")
  <2>1. /\ at'[r] = "signupPending" /\ mu' = mu /\ answer'[r] = answer[r]
        /\ user'[r] = user[r]
    BY <1>3 DEF Goto, Step, SessionInv, TypeInv, TypeOK
  <2>2. at[r] \notin Locked /\ at[r] \notin PastSave /\ at[r] # "done"
    BY <1>1 DEF Locked, PastSave
  <2>. QED
    BY <1>1, <2>1, <2>2, QuietGoto
<1>. QED
  BY <1>2, <1>3 DEF SignupLookup

\* LookupForeign: an account that the index leads to, or a new one.
LEMMA LookupForeignKeeps ==
  ASSUME SessionInv, NEW r \in Requests, LookupForeign(r)
  PROVE  Keeps(r)
<1>1. TypeInv' /\ Framed(r) /\ UNCHANGED tables /\ at[r] = "lookupForeign"
  BY FramedStep DEF SessionInv, LookupForeign, Serve
<1>2. CASE Reply(r, Status("failed"))
  BY <1>1, <1>2, QuietStatus DEF Statuses
<1>3. CASE Goto(r, "create")
  <2>1. at'[r] = "create" /\ mu' = mu /\ answer' = answer /\ user' = user
    BY <1>3 DEF Goto, Step, SessionInv, TypeInv, TypeOK
  <2>. QED
    BY <1>1, <2>1, ApplicantGoto
<1>4. CASE Step(r, "load") /\ UNCHANGED <<mu, user, snap, faults>>
  <2>1. /\ at'[r] = "load" /\ mu' = mu /\ answer'[r] = answer[r]
        /\ user'[r] = user[r]
    BY <1>4 DEF Step, SessionInv, TypeInv, TypeOK
  <2>2. at[r] \notin Locked /\ at[r] \notin PastSave /\ at[r] # "done"
    BY <1>1 DEF Locked, PastSave
  <2>. QED
    BY <1>1, <2>1, <2>2, QuietGoto
<1>. QED
  BY <1>2, <1>3, <1>4 DEF LookupForeign

\* Load: the token it is going to send is the account's, and spent.
LEMMA LoadKeeps ==
  ASSUME SessionInv, NEW r \in Requests, Load(r)
  PROVE  Keeps(r)
<1>1. /\ TypeInv' /\ Framed(r) /\ UNCHANGED tables /\ at[r] = "load"
      /\ id[r] \in Ids /\ TypeOK
  BY FramedStep DEF SessionInv, TypeInv, Prepared, Load, Serve
<1>2. CASE \E s \in {"rejected", "failed"} : Reply(r, Status(s))
  BY <1>1, <1>2, QuietStatus DEF Statuses
<1>3. CASE /\ Readable(users[id[r]])
           /\ user' = [user EXCEPT ![r] = users[id[r]]]
           /\ Step(r, "send") /\ UNCHANGED <<mu, id, snap>>
  <2>1. /\ at'[r] = "send" /\ mu' = mu /\ answer'[r] = answer[r]
        /\ user'[r] = users[id[r]]
    BY <1>1, <1>3 DEF Step, TypeOK
  <2>2. at[r] \notin Locked /\ at[r] \notin PastSave /\ at[r] # "done"
    BY <1>1 DEF Locked, PastSave
  <2>3. StoreStep(r) /\ StoreInv'
    BY <1>1, <2>1, <2>2, QuietStep
  <2>4. users[id[r]].token \in Tokens \union {None} /\ Spent(users[id[r]].token)
    BY <1>1, <1>3, RecordType DEF SessionInv, StoreInv, SpentRecords
  <2>5. Spent(user[r].token)'
    BY <1>1, <2>1, <2>3, <2>4, SpentStays DEF Spent
  <2>6. RequestInv(r)'
    BY <1>1, <2>1, <2>2, <2>3, <2>5, IdleInv
  <2>. QED
    BY <2>3, <2>6 DEF Keeps
<1>. QED
  <2>1. \/ \E s \in {"rejected", "failed"} : Reply(r, Status(s))
        \/ /\ Readable(users[id[r]])
           /\ user' = [user EXCEPT ![r] = users[id[r]]]
           /\ Step(r, "send") /\ UNCHANGED <<mu, id, snap>>
    BY DEF Load
  <2>. QED
    BY <1>2, <1>3, <2>1

\* Send.
LEMMA SendKeeps ==
  ASSUME SessionInv, NEW r \in Requests, Send(r)
  PROVE  Keeps(r)
<1>1. /\ TypeInv' /\ Framed(r) /\ UNCHANGED tables /\ at[r] = "send"
      /\ id[r] \in Ids /\ user[r] \in User
  BY FramedStep DEF SessionInv, TypeInv, Prepared, Send, Serve
<1>2. PICK a \in Answer :
        a = [Status("ok") EXCEPT !.token = user[r].token, !.id = id[r]]
  BY <1>1 DEF Status, Statuses, Answer, User
<1>3. a.token = user[r].token /\ user[r].token \in Tokens \union {None}
  BY <1>1, <1>2 DEF Status, User
<1>4. Reply(r, a)
  BY <1>2 DEF Send
<1>5. at'[r] = "done"
  <2>1. at \in [Requests -> Steps]
    BY DEF SessionInv, TypeInv, TypeOK
  <2>. QED
    BY <1>4, <2>1 DEF Reply
<1>6. a.token = None \/ at[a.token] \in PastSave
  BY <1>1, <1>3 DEF SessionInv, RequestInv, HoldsSpent, Spent
<1>7. Spent(a.token)'
  BY <1>1, <1>3, <1>5, <1>6 DEF Framed, PastSave, Spent
<1>. QED
  BY <1>1, <1>4, <1>7, QuietReply

\* LoginPending: an approved signup goes on to its account.
LEMMA LoginPendingKeeps ==
  ASSUME SessionInv, NEW r \in Requests, LoginPending(r)
  PROVE  Keeps(r)
<1>1. TypeInv' /\ Framed(r) /\ UNCHANGED tables /\ at[r] = "loginPending"
  BY FramedStep DEF SessionInv, LoginPending, Serve
<1>2. CASE \E s \in {"rejected", "awaiting"} : Reply(r, Status(s))
  BY <1>1, <1>2, QuietStatus DEF Statuses
<1>3. CASE \E ps \in Loaded : KeepSnap(r, ps.entries, "create")
  <2>1. at'[r] = "create" /\ mu' = mu /\ answer' = answer /\ user' = user
    BY <1>3 DEF KeepSnap, Step, SessionInv, TypeInv, TypeOK
  <2>. QED
    BY <1>1, <2>1, ApplicantGoto
<1>. QED
  BY <1>2, <1>3 DEF LoginPending

\* SignupPending.
LEMMA SignupPendingKeeps ==
  ASSUME SessionInv, NEW r \in Requests, SignupPending(r)
  PROVE  Keeps(r)
<1>1. TypeInv' /\ Framed(r) /\ UNCHANGED tables /\ at[r] = "signupPending"
  BY FramedStep DEF SessionInv, SignupPending, Serve
<1>2. CASE Reply(r, Status("taken"))
  BY <1>1, <1>2, QuietStatus DEF Statuses
<1>3. CASE \E ps \in Loaded : KeepSnap(r, ps.entries, "truncate")
  <2>1. /\ at'[r] = "truncate" /\ mu' = mu /\ answer'[r] = answer[r]
        /\ user'[r] = user[r]
    BY <1>3 DEF KeepSnap, Step, SessionInv, TypeInv, TypeOK
  <2>2. at[r] \notin Locked /\ at[r] \notin PastSave /\ at[r] # "done"
    BY <1>1 DEF Locked, PastSave
  <2>. QED
    BY <1>1, <2>1, <2>2, QuietGoto
<1>. QED
  BY <1>2, <1>3 DEF SignupPending

\* NewToken takes b.mu and the record that r has just made.
LEMMA NewTokenKeeps ==
  ASSUME SessionInv, NEW r \in Requests, NewToken(r)
  PROVE  Keeps(r)
<1>1. /\ TypeInv' /\ Framed(r) /\ UNCHANGED tables /\ at[r] = "newToken"
      /\ mu = None /\ id[r] = r /\ Readable(users[r]) /\ users[r].token = None
      /\ Applicant(r) /\ TypeOK
  BY FramedStep DEF SessionInv, TypeInv, Prepared, RequestInv, NewAccount,
                    NewToken, LockFree, Serve
<1>2. /\ at'[r] = "mapToken" /\ mu' = r /\ id' = id /\ user'[r] = users[r]
      /\ answer' = answer /\ req' = req
  BY <1>1 DEF NewToken, Step, TypeOK
<1>3. StoreStep(r) /\ StoreInv'
  BY <1>1, <1>2, QuietStep DEF PastSave
<1>4. Mutex(r)' /\ NewAccount(r)' /\ RotationOrder(r)'
  BY <1>2 DEF Mutex, NewAccount, RotationOrder, Locked
<1>5. HoldsRecord(r)'
  <2>1. req[r].handler \in FirstLogin
    BY <1>1 DEF Applicant, FirstLogin
  <2>. QED
    BY <1>1, <1>2, <2>1 DEF HoldsRecord, tables
<1>6. HoldsSpent(r)'
  <2>1. answer[r].token \in Tokens \union {None} /\ Spent(answer[r].token)
        /\ r \notin Settled
    BY <1>1 DEF TypeOK, Answer, SessionInv, RequestInv, HoldsSpent
  <2>2. Spent(answer[r].token)'
    BY <1>1, <1>2, <1>3, <2>1, SpentStays DEF Spent
  <2>. QED
    BY <1>1, <1>2, <2>1, <2>2 DEF HoldsSpent, Spent
<1>. QED
  BY <1>2, <1>3, <1>4, <1>5, <1>6 DEF Keeps, RequestInv

\* The steps that write totp_pending.json.
LEMMA AfterSaveKeeps ==
  ASSUME SessionInv, TypeInv', NEW r \in Requests, Framed(r), UNCHANGED tables,
         at[r] \in {"truncate", "fill"}, NEW ok \in BOOLEAN, AfterSave(r, ok)
  PROVE  Keeps(r)
<1>1. CASE req[r].handler = "totpsignup"
  <2>1. PICK a \in Answer : Reply(r, a) /\ a.token = None
    BY <1>1, PlainAnswer DEF AfterSave, Status, Statuses
  <2>2. Spent(a.token)'
    BY <2>1 DEF Spent
  <2>. QED
    BY <2>1, <2>2, QuietReply
<1>2. CASE req[r].handler # "totpsignup"
  <2>1. /\ at'[r] = "send" /\ mu' = mu /\ answer'[r] = answer[r]
        /\ user'[r] = user[r]
    BY <1>2 DEF AfterSave, Goto, Step, SessionInv, TypeInv, TypeOK
  <2>2. at[r] \notin Locked /\ at'[r] \in PastSave /\ at[r] # "done"
    BY <2>1 DEF Locked, PastSave
  <2>. QED
    BY <2>1, <2>2, QuietGoto
<1>. QED
  BY <1>1, <1>2

\* Truncate.
LEMMA TruncateKeeps ==
  ASSUME SessionInv, NEW r \in Requests, Truncate(r)
  PROVE  Keeps(r)
<1>1. TypeInv' /\ Framed(r) /\ UNCHANGED tables /\ at[r] = "truncate"
  BY FramedStep DEF SessionInv, Truncate, Serve
<1>2. CASE Goto(r, "fill")
  <2>1. /\ at'[r] = "fill" /\ mu' = mu /\ answer'[r] = answer[r]
        /\ user'[r] = user[r]
    BY <1>2 DEF Goto, Step, SessionInv, TypeInv, TypeOK
  <2>2. at[r] \notin Locked /\ at'[r] \in PastSave /\ at[r] # "done"
    BY <1>1, <2>1 DEF Locked, PastSave
  <2>. QED
    BY <1>1, <2>1, <2>2, QuietGoto
<1>3. CASE AfterSave(r, FALSE)
  BY <1>1, <1>3, AfterSaveKeeps
<1>. QED
  BY <1>2, <1>3 DEF Truncate

\* Fill.
LEMMA FillKeeps ==
  ASSUME SessionInv, NEW r \in Requests, Fill(r)
  PROVE  Keeps(r)
<1>1. TypeInv' /\ Framed(r) /\ UNCHANGED tables /\ at[r] = "fill"
  BY FramedStep DEF SessionInv, Fill, Serve
<1>2. \E ok \in BOOLEAN : AfterSave(r, ok)
  BY DEF Fill
<1>. QED
  BY <1>1, <1>2, AfterSaveKeeps

-----------------------------------------------------------------------------
(* The steps that write a record.                                          *)

\* A write of a record by the holder of b.mu that keeps its token and secret, or
\* spoils it.
LEMMA SameTokenWrite ==
  ASSUME SessionInv, TypeInv', NEW r \in Requests, Framed(r),
         at[r] \in Locked \ {"dropOld"}, at'[r] \in Locked \union {"done"},
         \A q \in Requests \ {r} : mu = q <=> mu' = q,
         NEW v \in User \union {Torn},
         users' = [users EXCEPT ![id[r]] = v],
         v # Torn => v.token = user[r].token /\ v.otp = user[r].otp,
         UNCHANGED <<sessionTokens, foreignIDs, userNames>>
  PROVE  StoreStep(r) /\ StoreInv'
<1>1. /\ id[r] \in Ids /\ user[r] \in User /\ users[id[r]] = user[r] /\ TypeOK
      /\ Readable(user[r])
  BY DEF SessionInv, RequestInv, HoldsRecord, TypeInv, Prepared, Readable
<1>2. /\ \A i \in Ids \ {id[r]} : users'[i] = users[i]
      /\ users'[id[r]] = v
  BY <1>1 DEF TypeOK
<1>3. \A i \in Ids, t \in Tokens : CurrentToken(i, t)' => CurrentToken(i, t)
  BY <1>1, <1>2 DEF CurrentToken, Readable
<1>4. \A i \in Ids : Complete(i) => Complete(i)'
  BY <1>1, <1>2 DEF Complete, Readable
<1>5. at[r] \notin PastSave
  BY DEF Locked, PastSave
<1>6. StoreStep(r)
  BY <1>2, <1>3, <1>4, <1>5 DEF StoreStep
<1>7. CurrentTokenIsMapped'
  BY <1>3 DEF SessionInv, StoreInv, CurrentTokenIsMapped
<1>8. /\ \A n \in Names : (userNames[n] \in Ids => Complete(userNames[n]))'
      /\ \A f \in AllForeign : (foreignIDs[f] \in Ids => Complete(foreignIDs[f]))'
  BY <1>4 DEF SessionInv, StoreInv, AccountsComplete, Complete
<1>. QED
  BY <1>3, <1>6, <1>7, <1>8, TokensKept DEF StoreInv, AccountsComplete

\* Show.
LEMMA ShowKeeps ==
  ASSUME SessionInv, NEW r \in Requests, Show(r)
  PROVE  Keeps(r)
<1>1. /\ TypeInv' /\ Framed(r) /\ at[r] = "show" /\ TypeOK /\ user[r] \in User
      /\ id[r] \in Ids /\ UNCHANGED <<sessionTokens, foreignIDs, userNames>>
  BY FramedStep DEF SessionInv, TypeInv, Prepared, Show, Serve, Locked
<1>2. PICK a \in Answer : Reply(r, a) /\ a.token = None
  <2>1. Shown(user[r]) \in Requests \union {None}
    BY <1>1, ShownType
  <2>2. \E s \in {Status("ok"), Status("failed"),
                  [Status("ok") EXCEPT !.secret = Shown(user[r])]} : Reply(r, s)
    BY DEF Show
  <2>. QED
    BY <2>1, <2>2 DEF Status, Statuses, Answer
<1>3. Spent(a.token)'
  BY <1>2 DEF Spent
<1>4. /\ RequestInv(r)' /\ at'[r] = "done"
      /\ \A q \in Requests \ {r} : mu = q <=> mu' = q
  BY <1>2, <1>3, RepliedInv
<1>5. CASE UNCHANGED users
  BY <1>1, <1>2, <1>3, <1>5, QuietReply DEF tables
<1>6. CASE \E o \in Outcomes(users[id[r]], user[r]) :
             users' = [users EXCEPT ![id[r]] = o.value]
  <2>1. PICK o \in Outcomes(users[id[r]], user[r]) :
          users' = [users EXCEPT ![id[r]] = o.value]
    BY <1>6
  <2>2. o.value \in {users[id[r]], user[r], Torn}
    BY OutcomeType
  <2>3. users[id[r]] = user[r]
    BY <1>1 DEF SessionInv, RequestInv, HoldsRecord, Locked
  <2>4. o.value \in User \union {Torn} /\ (o.value # Torn => o.value = user[r])
    BY <1>1, <2>2, <2>3
  <2>5. at[r] \in Locked \ {"dropOld"}
    BY <1>1 DEF Locked
  <2>6. StoreStep(r) /\ StoreInv'
    BY <1>1, <1>4, <2>1, <2>4, <2>5, SameTokenWrite
  <2>. QED
    BY <1>4, <2>6 DEF Keeps
<1>. QED
  BY <1>5, <1>6 DEF Show

\* SaveName.
LEMMA SaveNameKeeps ==
  ASSUME SessionInv, NEW r \in Requests, SaveName(r)
  PROVE  Keeps(r)
<1> DEFINE u == [user[r] EXCEPT !.name = req[r].name]
<1>1. /\ TypeInv' /\ Framed(r) /\ at[r] = "saveName" /\ TypeOK /\ user[r] \in User
      /\ id[r] \in Ids /\ UNCHANGED <<sessionTokens, foreignIDs, userNames>>
      /\ req[r].name \in Names /\ users[id[r]] = user[r]
      /\ HoldsRecord(r) /\ HoldsSpent(r)
  BY FramedStep DEF SessionInv, TypeInv, Prepared, RequestInv, HoldsRecord,
                    SaveName, Serve, Locked
<1>2. /\ u \in User /\ u.token = user[r].token /\ u.otp = user[r].otp
  BY <1>1 DEF User
<1>3. PICK o \in Outcomes(users[id[r]], u) :
        /\ users' = [users EXCEPT ![id[r]] = o.value]
        /\ IF o.ok THEN /\ user' = [user EXCEPT ![r] = u]
                        /\ Step(r, "indexName") /\ UNCHANGED <<mu, id, snap>>
                   ELSE Reply(r, Status("failed"))
  BY DEF SaveName
<1>4. o.value \in {users[id[r]], u, Torn} /\ (o.ok => o.value = u)
  BY OutcomeType
<1>5. /\ o.value \in User \union {Torn}
      /\ o.value # Torn => o.value.token = user[r].token /\ o.value.otp = user[r].otp
  BY <1>1, <1>2, <1>4
<1>6. at[r] \in Locked \ {"dropOld"}
  BY <1>1 DEF Locked
<1>7. CASE o.ok
  <2>1. /\ at'[r] = "indexName" /\ mu' = mu /\ id' = id /\ user'[r] = u
        /\ answer' = answer /\ req' = req
    BY <1>1, <1>3, <1>7 DEF Step, TypeOK
  <2>2. at'[r] \in Locked
    BY <2>1 DEF Locked
  <2>3. StoreStep(r) /\ StoreInv'
    BY <1>1, <1>3, <1>5, <1>6, <2>1, <2>2, SameTokenWrite
  <2>4. Mutex(r)' /\ NewAccount(r)' /\ RotationOrder(r)'
    BY <1>6, <2>1, <2>2 DEF Mutex, NewAccount, RotationOrder, SessionInv, RequestInv
  <2>5. HoldsRecord(r)'
    <3>1. users'[id[r]] = u
      BY <1>1, <1>3, <1>4, <1>7 DEF TypeOK
    <3>2. /\ req[r].handler \in ManagementHandlers /\ req[r].token # None
          /\ user[r].token = req[r].token
      BY <1>1, <1>6 DEF HoldsRecord
    <3>. QED
      BY <1>2, <2>1, <3>1, <3>2 DEF HoldsRecord
  <2>6. HoldsSpent(r)'
    <3>1. /\ Spent(u.token) /\ u.token \in Tokens \union {None}
          /\ Spent(answer[r].token) /\ answer[r].token \in Tokens \union {None}
          /\ r \notin Settled
      BY <1>1, <1>2 DEF HoldsSpent, TypeOK, Answer, User
    <3>2. \A t \in Tokens \union {None} : Spent(t) => Spent(t)'
      BY <1>1, <2>3, SpentStays
    <3>. QED
      BY <2>1, <3>1, <3>2 DEF HoldsSpent, Spent
  <2>. QED
    BY <2>1, <2>3, <2>4, <2>5, <2>6 DEF Keeps, RequestInv
<1>8. CASE ~o.ok
  <2>1. PICK a \in Answer : Reply(r, a) /\ a.token = None
    BY <1>3, <1>8 DEF Status, Statuses, Answer
  <2>2. Spent(a.token)'
    BY <2>1 DEF Spent
  <2>3. /\ RequestInv(r)' /\ at'[r] = "done"
        /\ \A q \in Requests \ {r} : mu = q <=> mu' = q
    BY <2>1, <2>2, RepliedInv
  <2>4. StoreStep(r) /\ StoreInv'
    BY <1>1, <1>3, <1>5, <1>6, <2>3, SameTokenWrite
  <2>. QED
    BY <2>3, <2>4 DEF Keeps
<1>. QED
  BY <1>7, <1>8

\* A write of an index: only complete accounts are indexed.
LEMMA IndexWrite ==
  ASSUME SessionInv, TypeInv', NEW r \in Requests, Framed(r),
         UNCHANGED <<users, sessionTokens>>,
         \A q \in Requests \ {r} : mu = q <=> mu' = q,
         at[r] \in PastSave => at'[r] \in PastSave,
         NEW i \in Ids, Complete(i),
         \A n \in Names : userNames'[n] \in {userNames[n], i, Torn},
         \A f \in AllForeign : foreignIDs'[f] \in {foreignIDs[f], i, Torn}
  PROVE  StoreStep(r) /\ StoreInv'
<1>1. StoreStep(r)
  BY DEF StoreStep, CurrentToken, Complete
<1>2. \A j \in Ids, t \in Tokens : CurrentToken(j, t)' => CurrentToken(j, t)
  BY DEF CurrentToken
<1>3. CurrentTokenIsMapped'
  BY DEF SessionInv, StoreInv, CurrentTokenIsMapped, CurrentToken
<1>4. Torn \notin Ids /\ \A j \in Ids : Complete(j) => Complete(j)'
  BY DEF Complete
<1>5. \A n \in Names : (userNames[n] \in Ids => Complete(userNames[n]))'
  BY <1>4 DEF SessionInv, StoreInv, AccountsComplete, Complete
<1>6. \A f \in AllForeign : (foreignIDs[f] \in Ids => Complete(foreignIDs[f]))'
  BY <1>4 DEF SessionInv, StoreInv, AccountsComplete, Complete
<1>. QED
  BY <1>1, <1>2, <1>3, <1>5, <1>6, TokensKept DEF StoreInv, AccountsComplete

\* IndexName.
LEMMA IndexNameKeeps ==
  ASSUME SessionInv, NEW r \in Requests, IndexName(r)
  PROVE  Keeps(r)
<1>1. /\ TypeInv' /\ Framed(r) /\ at[r] = "indexName" /\ TypeOK /\ user[r] \in User
      /\ id[r] \in Ids /\ UNCHANGED <<users, sessionTokens, foreignIDs>>
      /\ req[r].name \in Names
  BY FramedStep DEF SessionInv, TypeInv, Prepared, IndexName, Serve, Locked
<1>2. PICK a \in Answer : Reply(r, a) /\ a.token = None
  <2>1. Shown(user[r]) \in Requests \union {None}
    BY <1>1, ShownType
  <2>. QED
    BY <2>1 DEF IndexName, Status, Statuses, Answer
<1>3. Spent(a.token)'
  BY <1>2 DEF Spent
<1>4. /\ RequestInv(r)' /\ at'[r] = "done"
      /\ \A q \in Requests \ {r} : mu = q <=> mu' = q
  BY <1>2, <1>3, RepliedInv
<1>5. Complete(id[r])
  <2>1. users[id[r]] = user[r] /\ user[r].token # None
    BY <1>1 DEF SessionInv, RequestInv, HoldsRecord, Locked
  <2>2. Readable(users[id[r]])
    BY <1>1, <2>1 DEF Readable
  <2>. QED
    BY <1>1, <2>1, <2>2 DEF SessionInv, StoreInv, AccountsComplete
<1>6. PICK o \in Outcomes(userNames[req[r].name], id[r]) :
        userNames' = [userNames EXCEPT ![req[r].name] = o.value]
  BY DEF IndexName
<1>7. o.value \in {userNames[req[r].name], id[r], Torn}
  BY OutcomeType
<1>8. \A n \in Names : userNames'[n] \in {userNames[n], id[r], Torn}
  BY <1>1, <1>6, <1>7 DEF TypeOK
<1>9. StoreStep(r) /\ StoreInv'
  BY <1>1, <1>4, <1>5, <1>8, IndexWrite DEF PastSave
<1>. QED
  BY <1>4, <1>9 DEF Keeps

-----------------------------------------------------------------------------
(* The rotation.                                                           *)

\* A token that no request has saved yet is no account's token.
LEMMA FreshToken ==
  ASSUME SessionInv, NEW r \in Requests, at[r] \notin PastSave
  PROVE  \A i \in Ids : ~CurrentToken(i, r)
BY DEF SessionInv, StoreInv, SpentRecords, Spent, CurrentToken

\* MapToken: the mapping of a fresh token is nobody's.
LEMMA MapTokenKeeps ==
  ASSUME SessionInv, NEW r \in Requests, MapToken(r)
  PROVE  Keeps(r)
<1>1. /\ TypeInv' /\ Framed(r) /\ at[r] = "mapToken" /\ TypeOK /\ user[r] \in User
      /\ id[r] \in Ids /\ UNCHANGED <<users, foreignIDs, userNames>>
      /\ RequestInv(r)
  BY FramedStep DEF SessionInv, TypeInv, Prepared, MapToken, Serve, Locked
<1>2. PICK o \in Outcomes(sessionTokens[r], id[r]) :
        /\ sessionTokens' = [sessionTokens EXCEPT ![r] = o.value]
        /\ Continue(r, o, "saveToken")
  BY DEF MapToken
<1>3. o.ok => o.value = id[r]
  BY OutcomeType
<1>4. at[r] \notin PastSave /\ at[r] \in Locked
  BY <1>1 DEF PastSave, Locked
<1>5. \A i \in Ids : ~CurrentToken(i, r)
  BY <1>4, FreshToken
<1>6. ASSUME \A q \in Requests \ {r} : mu = q <=> mu' = q
      PROVE  StoreStep(r) /\ StoreInv'
  <2>1. StoreStep(r)
    BY <1>1, <1>2, <1>4, <1>6 DEF StoreStep, CurrentToken, Complete, TypeOK
  <2>2. \A i \in Ids, t \in Tokens : CurrentToken(i, t)' => CurrentToken(i, t)
    BY <1>1 DEF CurrentToken
  <2>3. CurrentTokenIsMapped'
    <3> SUFFICES ASSUME NEW i \in Ids, NEW t \in Tokens, CurrentToken(i, t)'
                 PROVE  sessionTokens'[t] \in {i, Torn}
      BY DEF CurrentTokenIsMapped
    <3>1. CurrentToken(i, t) /\ t # r
      BY <1>5, <2>2
    <3>. QED
      BY <1>1, <1>2, <3>1 DEF TypeOK, SessionInv, StoreInv, CurrentTokenIsMapped
  <2>4. /\ \A n \in Names : (userNames[n] \in Ids => Complete(userNames[n]))'
        /\ \A f \in AllForeign : (foreignIDs[f] \in Ids => Complete(foreignIDs[f]))'
    BY <1>1 DEF SessionInv, StoreInv, AccountsComplete, Complete
  <2>. QED
    BY <1>1, <2>1, <2>2, <2>3, <2>4, TokensKept DEF StoreInv, AccountsComplete
<1>7. CASE o.ok
  <2>1. /\ at'[r] = "saveToken" /\ mu' = mu /\ id' = id /\ user' = user
        /\ answer' = answer /\ req' = req
    BY <1>1, <1>2, <1>7 DEF Continue, Goto, Step, TypeOK
  <2>2. at'[r] \in Locked
    BY <2>1 DEF Locked
  <2>3. StoreStep(r) /\ StoreInv'
    BY <1>6, <2>1
  <2>4. Mutex(r)' /\ NewAccount(r)'
    BY <1>1, <1>4, <2>1, <2>2 DEF Mutex, NewAccount, RequestInv
  <2>5. HoldsRecord(r)'
    BY <1>1, <1>4, <2>1 DEF HoldsRecord, RequestInv
  <2>6. RotationOrder(r)'
    <3>1. sessionTokens'[r] = id[r]
      BY <1>1, <1>2, <1>3, <1>7 DEF TypeOK
    <3>. QED
      BY <2>1, <3>1 DEF RotationOrder
  <2>7. HoldsSpent(r)'
    <3>1. /\ Spent(user[r].token) /\ user[r].token \in Tokens \union {None}
          /\ Spent(answer[r].token) /\ answer[r].token \in Tokens \union {None}
          /\ r \notin Settled
      BY <1>1 DEF RequestInv, HoldsSpent, TypeOK, Answer, User
    <3>2. \A t \in Tokens \union {None} : Spent(t) => Spent(t)'
      BY <1>1, <2>3, SpentStays
    <3>. QED
      BY <2>1, <3>1, <3>2 DEF HoldsSpent, Spent
  <2>. QED
    BY <2>1, <2>3, <2>4, <2>5, <2>6, <2>7 DEF Keeps, RequestInv
<1>8. CASE ~o.ok
  <2>1. PICK a \in Answer : Reply(r, a) /\ a.token = None
    BY <1>2, <1>8 DEF Continue, Status, Statuses, Answer
  <2>2. Spent(a.token)'
    BY <2>1 DEF Spent
  <2>3. /\ RequestInv(r)' /\ at'[r] = "done"
        /\ \A q \in Requests \ {r} : mu = q <=> mu' = q
    BY <2>1, <2>2, RepliedInv
  <2>. QED
    BY <1>6, <2>3 DEF Keeps
<1>. QED
  BY <1>7, <1>8

\* The record gets the fresh token, whose mapping has been saved.
LEMMA RotatedWrite ==
  ASSUME SessionInv, TypeInv', NEW r \in Requests, Framed(r), at[r] = "saveToken",
         at'[r] \in {"dropOld", "done"},
         \A q \in Requests \ {r} : mu = q <=> mu' = q,
         users' = [users EXCEPT ![id[r]] = Rotated(r)],
         UNCHANGED <<sessionTokens, foreignIDs, userNames>>
  PROVE  StoreStep(r) /\ StoreInv'
<1>1. /\ id[r] \in Ids /\ user[r] \in User /\ TypeOK /\ sessionTokens[r] = id[r]
      /\ users[id[r]] = user[r]
  BY DEF SessionInv, TypeInv, Prepared, RequestInv, RotationOrder, HoldsRecord, Locked
<1>2. Rotated(r) \in User /\ Rotated(r).token = r /\ Rotated(r).otp # None
  BY <1>1, RotatedType
<1>3. /\ \A i \in Ids \ {id[r]} : users'[i] = users[i]
      /\ users'[id[r]] = Rotated(r) /\ Readable(Rotated(r))
  BY <1>1, <1>2 DEF TypeOK, Readable
<1>4. \A i \in Ids : ~CurrentToken(i, r)
  BY FreshToken DEF PastSave
<1>5. \A i \in Ids, t \in Tokens :
        CurrentToken(i, t)' => \/ i # id[r] /\ t # r /\ CurrentToken(i, t)
                               \/ i = id[r] /\ t = r
  BY <1>2, <1>3, <1>4 DEF CurrentToken
<1>6. \A i \in Ids : Complete(i) => Complete(i)'
  BY <1>2, <1>3 DEF Complete
<1>7. StoreStep(r)
  BY <1>3, <1>5, <1>6 DEF StoreStep, Locked, PastSave
<1>8. SpentRecords'
  <2> SUFFICES ASSUME NEW i \in Ids, Readable(users[i])'
               PROVE  Spent(users[i].token)'
    BY DEF SpentRecords
  <2>1. CASE i = id[r]
    BY <1>2, <1>3, <2>1 DEF Spent, PastSave
  <2>2. CASE i # id[r]
    <3>1. /\ users'[i] = users[i] /\ Readable(users[i]) /\ Spent(users[i].token)
          /\ users[i].token \in Tokens \union {None}
      BY <1>1, <1>3, <2>2, RecordType DEF SessionInv, StoreInv, SpentRecords
    <3>2. \A t \in Tokens \union {None} : Spent(t) => Spent(t)'
      BY <1>7, SpentStays
    <3>. QED
      BY <3>1, <3>2 DEF Spent
  <2>. QED
    BY <2>1, <2>2
<1>9. OneAccountPerToken'
  BY <1>5 DEF SessionInv, StoreInv, OneAccountPerToken
<1>10. CurrentTokenIsMapped'
  BY <1>1, <1>5 DEF SessionInv, StoreInv, CurrentTokenIsMapped
<1>11. AccountsComplete'
  <2>1. \A i \in Ids : (Readable(users[i]) /\ users[i].token # None => Complete(i))'
    BY <1>2, <1>3 DEF SessionInv, StoreInv, AccountsComplete, Complete
  <2>2. /\ \A n \in Names : (userNames[n] \in Ids => Complete(userNames[n]))'
        /\ \A f \in AllForeign : (foreignIDs[f] \in Ids => Complete(foreignIDs[f]))'
    BY <1>6 DEF SessionInv, StoreInv, AccountsComplete, Complete
  <2>. QED
    BY <2>1, <2>2 DEF AccountsComplete
<1>. QED
  BY <1>7, <1>8, <1>9, <1>10, <1>11 DEF StoreInv

\* SaveToken: also when it fails, with the old, the new or no readable record.
LEMMA SaveTokenKeeps ==
  ASSUME SessionInv, NEW r \in Requests, SaveToken(r)
  PROVE  Keeps(r)
<1>1. /\ TypeInv' /\ Framed(r) /\ at[r] = "saveToken" /\ TypeOK /\ user[r] \in User
      /\ id[r] \in Ids /\ UNCHANGED <<sessionTokens, foreignIDs, userNames>>
      /\ RequestInv(r) /\ users[id[r]] = user[r]
  BY FramedStep DEF SessionInv, TypeInv, Prepared, RequestInv, HoldsRecord,
                    SaveToken, Serve, Locked
<1>2. PICK o \in Outcomes(users[id[r]], Rotated(r)) :
        /\ users' = [users EXCEPT ![id[r]] = o.value]
        /\ Continue(r, o, "dropOld")
  BY DEF SaveToken
<1>3. o.value \in {user[r], Rotated(r), Torn} /\ (o.ok => o.value = Rotated(r))
  BY <1>1, OutcomeType
<1>4. ASSUME at'[r] \in {"dropOld", "done"}, \A q \in Requests \ {r} : mu = q <=> mu' = q
      PROVE  StoreStep(r) /\ StoreInv'
  <2>1. CASE o.value = Rotated(r)
    BY <1>1, <1>2, <1>4, <2>1, RotatedWrite
  <2>2. CASE o.value \in {user[r], Torn}
    <3>1. o.value \in User \union {Torn}
      BY <1>1, <2>2
    <3>2. o.value # Torn => o.value.token = user[r].token /\ o.value.otp = user[r].otp
      BY <2>2
    <3>3. at[r] \in Locked \ {"dropOld"} /\ at'[r] \in Locked \union {"done"}
      BY <1>1, <1>4 DEF Locked
    <3>. QED
      BY <1>1, <1>2, <1>4, <3>1, <3>2, <3>3, SameTokenWrite
  <2>. QED
    BY <1>3, <2>1, <2>2
<1>5. CASE o.ok
  <2>1. /\ at'[r] = "dropOld" /\ mu' = mu /\ id' = id /\ user' = user
        /\ answer' = answer /\ req' = req
    BY <1>1, <1>2, <1>5 DEF Continue, Goto, Step, TypeOK
  <2>2. StoreStep(r) /\ StoreInv'
    BY <1>4, <2>1
  <2>3. Mutex(r)' /\ NewAccount(r)' /\ HoldsRecord(r)'
    BY <1>1, <2>1 DEF Mutex, NewAccount, HoldsRecord, RequestInv, Locked
  <2>4. HoldsSpent(r)' /\ user[r].token # r
    <3>1. /\ Spent(user[r].token) /\ user[r].token \in Tokens \union {None}
          /\ Spent(answer[r].token) /\ answer[r].token \in Tokens \union {None}
          /\ r \notin Settled /\ user[r].token # r
      BY <1>1 DEF RequestInv, HoldsSpent, TypeOK, Answer, User, Spent, PastSave
    <3>2. \A t \in Tokens \union {None} : Spent(t) => Spent(t)'
      BY <1>1, <2>2, SpentStays
    <3>. QED
      BY <2>1, <3>1, <3>2 DEF HoldsSpent, Spent
  <2>5. users'[id[r]] = Rotated(r) /\ Rotated(r)' = Rotated(r)
    BY <1>1, <1>2, <1>3, <1>5, <2>1 DEF TypeOK, Rotated
  <2>6. \A i \in Ids : ~(user[r].token # None /\ CurrentToken(i, user[r].token))'
    <3> SUFFICES ASSUME NEW i \in Ids, NEW t \in Tokens, t = user[r].token,
                        CurrentToken(i, t)'
                 PROVE  FALSE
      BY <1>1, <2>1 DEF CurrentToken, User
    <3>1. CurrentToken(id[r], t)
      BY <1>1 DEF CurrentToken, Readable
    <3>2. i # id[r]
      BY <1>1, <2>4, <2>5, RotatedType DEF CurrentToken
    <3>3. CurrentToken(i, t)
      BY <1>1, <1>2, <3>2 DEF CurrentToken, TypeOK
    <3>. QED
      BY <1>1, <3>1, <3>2, <3>3 DEF SessionInv, StoreInv, OneAccountPerToken
  <2>7. req[r].handler \in FirstLogin => id[r] = r
    BY <1>1 DEF RequestInv, HoldsRecord, FirstLogin, ManagementHandlers, Locked
  <2>8. RotationOrder(r)'
    <3>1. sessionTokens'[r] = id[r]
      BY <1>1 DEF RequestInv, RotationOrder
    <3>. QED
      BY <2>1, <2>4, <2>5, <2>6, <2>7, <3>1 DEF RotationOrder
  <2>. QED
    BY <2>1, <2>2, <2>3, <2>4, <2>8 DEF Keeps, RequestInv
<1>6. CASE ~o.ok
  <2>1. PICK a \in Answer : Reply(r, a) /\ a.token = None
    BY <1>2, <1>6 DEF Continue, Status, Statuses, Answer
  <2>2. Spent(a.token)'
    BY <2>1 DEF Spent
  <2>3. /\ RequestInv(r)' /\ at'[r] = "done"
        /\ \A q \in Requests \ {r} : mu = q <=> mu' = q
    BY <2>1, <2>2, RepliedInv
  <2>. QED
    BY <1>4, <2>3 DEF Keeps
<1>. QED
  BY <1>5, <1>6

\* The deletion of a mapping that no account needs.
LEMMA MappingDropped ==
  ASSUME SessionInv, TypeInv', NEW r \in Requests, Framed(r), at[r] = "dropOld",
         at'[r] \in {"index", "done"},
         \A q \in Requests \ {r} : mu = q <=> mu' = q,
         DropOld(r)
  PROVE  /\ StoreStep(r) /\ StoreInv'
         /\ sessionTokens'[r] = sessionTokens[r]
<1>1. /\ user[r] \in User /\ TypeOK /\ mu = r /\ user[r].token # r
      /\ \A i \in Ids : ~(user[r].token # None /\ CurrentToken(i, user[r].token))
      /\ UNCHANGED <<users, foreignIDs, userNames>>
  BY DEF SessionInv, TypeInv, Prepared, RequestInv, RotationOrder, Mutex, Locked, DropOld
<1>2. \A t \in Tokens : sessionTokens'[t] # sessionTokens[t] =>
        t = user[r].token /\ sessionTokens'[t] = None
  <2>1. CASE user[r].token = None
    BY <2>1 DEF DropOld, OldToken
  <2>2. CASE user[r].token # None
    <3>1. PICK o \in Outcomes(sessionTokens[user[r].token], None) :
            /\ o.value # Torn
            /\ sessionTokens' = [sessionTokens EXCEPT ![user[r].token] = o.value]
      BY <2>2 DEF DropOld, OldToken
    <3>2. o.value \in {sessionTokens[user[r].token], None}
      BY <3>1, OutcomeType
    <3>. QED
      BY <1>1, <3>1, <3>2 DEF TypeOK
  <2>. QED
    BY <2>1, <2>2
<1>3. None # Torn
  OBVIOUS
<1>4. StoreStep(r)
  BY <1>1, <1>2, <1>3 DEF StoreStep, CurrentToken, Complete, PastSave
<1>5. \A i \in Ids, t \in Tokens : CurrentToken(i, t)' => CurrentToken(i, t)
  BY <1>1 DEF CurrentToken
<1>6. CurrentTokenIsMapped'
  <2> SUFFICES ASSUME NEW i \in Ids, NEW t \in Tokens, CurrentToken(i, t)'
               PROVE  sessionTokens'[t] \in {i, Torn}
    BY DEF CurrentTokenIsMapped
  <2>1. CurrentToken(i, t)
    BY <1>5
  <2>2. t # user[r].token
    BY <1>1, <2>1
  <2>. QED
    BY <1>2, <2>1, <2>2 DEF SessionInv, StoreInv, CurrentTokenIsMapped
<1>7. /\ \A n \in Names : (userNames[n] \in Ids => Complete(userNames[n]))'
      /\ \A f \in AllForeign : (foreignIDs[f] \in Ids => Complete(foreignIDs[f]))'
  BY <1>1 DEF SessionInv, StoreInv, AccountsComplete, Complete
<1>. QED
  BY <1>1, <1>2, <1>4, <1>5, <1>6, <1>7, TokensKept DEF StoreInv, AccountsComplete

\* DropOld.
LEMMA DropOldKeeps ==
  ASSUME SessionInv, NEW r \in Requests, DropOld(r)
  PROVE  Keeps(r)
<1>1. /\ TypeInv' /\ Framed(r) /\ at[r] = "dropOld" /\ TypeOK /\ user[r] \in User
      /\ id[r] \in Ids /\ RequestInv(r)
      /\ req[r].handler = "newToken" \/ Applicant(r)
  BY FramedStep DEF SessionInv, TypeInv, Prepared, DropOld, Serve, Locked
<1>2. /\ Rotated(r) \in User /\ Rotated(r).token = r /\ Rotated(r).otp # None
  BY <1>1, RotatedType
<1>3. CASE req[r].handler = "newToken"
  <2>1. PICK a \in Answer : Reply(r, a) /\ a.token = r
    <3>1. Shown(Rotated(r)) \in Requests \union {None}
      BY <1>2, ShownType
    <3>2. Reply(r, NewTokenPage(r))
      BY <1>3 DEF DropOld
    <3>3. NewTokenPage(r) \in Answer /\ NewTokenPage(r).token = r
      BY <3>1 DEF NewTokenPage, Status, Statuses, Answer
    <3>. QED
      BY <3>2, <3>3
  <2>2. at'[r] = "done"
    BY <1>1, <2>1 DEF Reply, TypeOK
  <2>3. Spent(a.token)'
    BY <2>1, <2>2 DEF Spent, PastSave
  <2>4. RequestInv(r)' /\ \A q \in Requests \ {r} : mu = q <=> mu' = q
    BY <2>1, <2>3, RepliedInv
  <2>5. StoreStep(r) /\ StoreInv'
    BY <1>1, <2>2, <2>4, MappingDropped
  <2>. QED
    BY <2>4, <2>5 DEF Keeps
<1>4. CASE req[r].handler # "newToken"
  <2>1. /\ at'[r] = "index" /\ mu' = None /\ id' = id /\ user'[r] = Rotated(r)
        /\ answer' = answer /\ req' = req /\ users' = users
    BY <1>1, <1>4 DEF DropOld, Step, TypeOK
  <2>2. \A q \in Requests \ {r} : mu = q <=> mu' = q
    BY <1>1, <2>1 DEF RequestInv, Mutex, Locked
  <2>3. StoreStep(r) /\ StoreInv' /\ sessionTokens'[r] = sessionTokens[r]
    BY <1>1, <2>1, <2>2, MappingDropped
  <2>4. id[r] = r /\ users[r] = Rotated(r) /\ sessionTokens[r] = r
    BY <1>1, <1>4 DEF RequestInv, RotationOrder, Applicant, FirstLogin
  <2>5. Mutex(r)' /\ NewAccount(r)' /\ HoldsRecord(r)'
    BY <2>1 DEF Mutex, NewAccount, HoldsRecord, Locked
  <2>6. HoldsSpent(r)'
    <3>1. /\ Spent(answer[r].token) /\ answer[r].token \in Tokens \union {None}
          /\ r \notin Settled
      BY <1>1 DEF RequestInv, HoldsSpent, TypeOK, Answer
    <3>2. Spent(answer[r].token)'
      BY <1>1, <2>1, <2>3, <3>1, SpentStays DEF Spent
    <3>. QED
      BY <1>2, <2>1, <3>1, <3>2 DEF HoldsSpent, Spent, PastSave
  <2>7. RotationOrder(r)'
    <3>1. \A i \in Ids : CurrentToken(i, r) => i = r
      <4>1. CurrentToken(r, r)
        BY <1>2, <2>4 DEF CurrentToken, Readable
      <4>. QED
        BY <4>1 DEF SessionInv, StoreInv, OneAccountPerToken
    <3>2. \A i \in Ids : CurrentToken(i, r)' => i = r
      BY <2>1, <3>1 DEF CurrentToken
    <3>. QED
      BY <1>2, <2>1, <2>3, <2>4, <3>2 DEF RotationOrder
  <2>8. Complete(r)'
    BY <1>2, <2>1, <2>4 DEF Complete, Readable
  <2>. QED
    BY <2>3, <2>5, <2>6, <2>7, <2>8 DEF Keeps, RequestInv
<1>. QED
  BY <1>3, <1>4

-----------------------------------------------------------------------------
(* The making of an account.                                               *)

\* Create: the record of an account that does not exist yet, without a token.
LEMMA CreateKeeps ==
  ASSUME SessionInv, NEW r \in Requests, Create(r)
  PROVE  Keeps(r)
<1>1. /\ TypeInv' /\ Framed(r) /\ at[r] = "create" /\ TypeOK /\ RequestInv(r)
      /\ UNCHANGED <<sessionTokens, foreignIDs, userNames>> /\ Applicant(r)
      /\ users[r] = None
  BY FramedStep DEF SessionInv, TypeInv, Prepared, RequestInv, NewAccount, Create, Serve
<1>2. NewUser(r) \in User /\ NewUser(r).token = None
  BY <1>1, NewUserType
<1>3. PICK o \in Outcomes(users[r], NewUser(r)) :
        /\ users' = [users EXCEPT ![r] = o.value]
        /\ IF o.ok THEN /\ id' = [id EXCEPT ![r] = r]
                        /\ Step(r, "newToken") /\ UNCHANGED <<mu, user, snap>>
                   ELSE Reply(r, Status("failed"))
  BY DEF Create
<1>4. o.value \in {None, NewUser(r), Torn} /\ (o.ok => o.value = NewUser(r))
  BY <1>1, OutcomeType
<1>5. users'[r] = o.value /\ \A i \in Ids \ {r} : users'[i] = users[i]
  BY <1>1, <1>3 DEF TypeOK
<1>6. at[r] \notin PastSave /\ at[r] \notin Locked
  BY <1>1 DEF PastSave, Locked
<1>7. \A i \in Ids, t \in Tokens : CurrentToken(i, t)' => CurrentToken(i, t)
  BY <1>2, <1>4, <1>5 DEF CurrentToken, Readable
<1>8. \A i \in Ids : Complete(i) => Complete(i)'
  BY <1>1, <1>5 DEF Complete, Readable
<1>9. ASSUME \A q \in Requests \ {r} : mu = q <=> mu' = q
      PROVE  StoreStep(r) /\ StoreInv'
  <2>1. StoreStep(r)
    BY <1>1, <1>5, <1>6, <1>7, <1>8, <1>9 DEF StoreStep
  <2>2. CurrentTokenIsMapped'
    BY <1>1, <1>7 DEF SessionInv, StoreInv, CurrentTokenIsMapped
  <2>3. /\ \A n \in Names : (userNames[n] \in Ids => Complete(userNames[n]))'
        /\ \A f \in AllForeign : (foreignIDs[f] \in Ids => Complete(foreignIDs[f]))'
    BY <1>1, <1>8 DEF SessionInv, StoreInv, AccountsComplete, Complete
  <2>. QED
    BY <1>1, <1>7, <2>1, <2>2, <2>3, TokensKept DEF StoreInv, AccountsComplete
<1>10. CASE o.ok
  <2>1. /\ at'[r] = "newToken" /\ mu' = mu /\ id'[r] = r /\ user' = user
        /\ answer' = answer
    BY <1>1, <1>3, <1>10 DEF Step, TypeOK
  <2>2. StoreStep(r) /\ StoreInv'
    BY <1>9, <2>1
  <2>3. Mutex(r)' /\ HoldsRecord(r)' /\ RotationOrder(r)'
    BY <1>1, <1>6, <2>1 DEF Mutex, HoldsRecord, RotationOrder, RequestInv, Locked
  <2>4. NewAccount(r)'
    BY <1>2, <1>4, <1>5, <1>10, <2>1 DEF NewAccount, Readable
  <2>5. HoldsSpent(r)'
    <3>1. /\ user[r] # None => /\ user[r].token \in Tokens \union {None}
                               /\ Spent(user[r].token)
          /\ answer[r].token \in Tokens \union {None} /\ Spent(answer[r].token)
          /\ r \notin Settled
      BY <1>1 DEF TypeOK, User, Answer, RequestInv, HoldsSpent
    <3>2. \A t \in Tokens \union {None} : Spent(t) => Spent(t)'
      BY <1>1, <2>2, SpentStays
    <3>. QED
      BY <2>1, <3>1, <3>2 DEF HoldsSpent, Spent
  <2>. QED
    BY <2>1, <2>2, <2>3, <2>4, <2>5 DEF Keeps, RequestInv
<1>11. CASE ~o.ok
  <2>1. PICK a \in Answer : Reply(r, a) /\ a.token = None
    BY <1>3, <1>11 DEF Status, Statuses, Answer
  <2>2. Spent(a.token)'
    BY <2>1 DEF Spent
  <2>3. /\ RequestInv(r)' /\ \A q \in Requests \ {r} : mu = q <=> mu' = q
    BY <2>1, <2>2, RepliedInv
  <2>. QED
    BY <1>9, <2>3 DEF Keeps
<1>. QED
  BY <1>10, <1>11

\* Index: the account is complete when the index leads to it.
LEMMA IndexKeeps ==
  ASSUME SessionInv, NEW r \in Requests, Index(r)
  PROVE  Keeps(r)
<1>1. /\ TypeInv' /\ Framed(r) /\ at[r] = "index" /\ TypeOK /\ RequestInv(r)
      /\ UNCHANGED <<users, sessionTokens>> /\ Applicant(r) /\ user[r] \in User
      /\ id[r] = r /\ Complete(r)
  BY FramedStep DEF SessionInv, TypeInv, Prepared, RequestInv, RotationOrder, Index, Serve
<1>2. /\ Spent(user[r].token) /\ user[r].token \in Tokens \union {None}
      /\ Spent(answer[r].token) /\ answer[r].token \in Tokens \union {None}
      /\ r \notin Settled
  BY <1>1 DEF RequestInv, HoldsSpent, TypeOK, Answer, User
<1>3. CASE req[r].handler = "totplogin"
  <2>1. PICK o \in Outcomes(userNames[req[r].name], r) :
          userNames' = [userNames EXCEPT ![req[r].name] = o.value]
    BY <1>1, <1>3 DEF Index
  <2>2. UNCHANGED foreignIDs /\ Goto(r, "truncate") /\ req[r].name \in Names
    BY <1>1, <1>3 DEF Index, Applicant
  <2>3. /\ \A n \in Names : userNames'[n] \in {userNames[n], r, Torn}
        /\ \A f \in AllForeign : foreignIDs'[f] \in {foreignIDs[f], r, Torn}
    BY <1>1, <2>1, <2>2, OutcomeType DEF TypeOK
  <2>4. /\ at'[r] = "truncate" /\ mu' = mu /\ user' = user /\ answer' = answer
        /\ at[r] \notin Locked /\ at'[r] \in PastSave
    BY <1>1, <2>2 DEF Goto, Step, TypeOK, Locked, PastSave
  <2>5. StoreStep(r) /\ StoreInv'
    BY <1>1, <2>3, <2>4, IndexWrite
  <2>6. Spent(user[r].token)'
    BY <1>1, <1>2, <2>4, <2>5, SpentStays DEF Spent
  <2>7. RequestInv(r)'
    BY <1>1, <2>4, <2>5, <2>6, IdleInv
  <2>. QED
    BY <2>5, <2>7 DEF Keeps
<1>4. CASE req[r].handler \in {"callback", "develop"}
  <2>1. PICK o \in Outcomes(foreignIDs[req[r].foreign], r) :
          foreignIDs' = [foreignIDs EXCEPT ![req[r].foreign] = o.value]
    BY <1>1, <1>4 DEF Index
  <2>2. UNCHANGED userNames /\ Goto(r, "remap") /\ req[r].foreign \in AllForeign
    BY <1>1, <1>4 DEF Index, Applicant
  <2>3. /\ \A n \in Names : userNames'[n] \in {userNames[n], r, Torn}
        /\ \A f \in AllForeign : foreignIDs'[f] \in {foreignIDs[f], r, Torn}
    BY <1>1, <2>1, <2>2, OutcomeType DEF TypeOK
  <2>4. /\ at'[r] = "remap" /\ mu' = mu /\ user' = user /\ answer' = answer
        /\ id' = id /\ at[r] \notin Locked /\ at'[r] \notin Locked
        /\ at'[r] \in PastSave
    BY <1>1, <2>2 DEF Goto, Step, TypeOK, Locked, PastSave
  <2>5. StoreStep(r) /\ StoreInv'
    BY <1>1, <2>3, <2>4, IndexWrite
  <2>6. Mutex(r)' /\ HoldsRecord(r)' /\ NewAccount(r)'
    BY <1>1, <2>4 DEF Mutex, HoldsRecord, NewAccount, RequestInv
  <2>7. RotationOrder(r)'
    <3>1. \A i \in Ids : CurrentToken(i, r)' => i = r
      BY <1>1 DEF CurrentToken, RequestInv, RotationOrder
    <3>. QED
      BY <1>1, <2>4, <3>1 DEF RequestInv, RotationOrder
  <2>8. HoldsSpent(r)'
    <3>1. \A t \in Tokens \union {None} : Spent(t) => Spent(t)'
      BY <1>1, <2>5, SpentStays
    <3>. QED
      BY <1>2, <2>4, <3>1 DEF HoldsSpent, Spent
  <2>. QED
    BY <2>4, <2>5, <2>6, <2>7, <2>8 DEF Keeps, RequestInv
<1>. QED
  BY <1>3, <1>4 DEF Index

\* Remap: the mapping is that of r, or of nobody, already.
LEMMA RemapKeeps ==
  ASSUME SessionInv, NEW r \in Requests, Remap(r)
  PROVE  Keeps(r)
<1>1. /\ TypeInv' /\ Framed(r) /\ at[r] = "remap" /\ TypeOK /\ RequestInv(r)
      /\ UNCHANGED <<users, foreignIDs, userNames>> /\ user[r] \in User
      /\ id[r] = r /\ user[r].token = r /\ Goto(r, "send")
      /\ sessionTokens[r] # Torn /\ \A i \in Ids : CurrentToken(i, r) => i = r
  BY FramedStep DEF SessionInv, TypeInv, Prepared, RequestInv, RotationOrder, Remap, Serve
<1>2. PICK o \in Outcomes(sessionTokens[r], r) :
        sessionTokens' = [sessionTokens EXCEPT ![r] = o.value]
  BY <1>1 DEF Remap
<1>3. o.value \in {sessionTokens[r], r, Torn}
  BY OutcomeType
<1>4. /\ at'[r] = "send" /\ mu' = mu /\ user' = user /\ answer' = answer
      /\ at[r] \notin Locked /\ at'[r] \in PastSave
  BY <1>1 DEF Goto, Step, TypeOK, Locked, PastSave
<1>5. /\ \A t \in Tokens \ {r} : sessionTokens'[t] = sessionTokens[t]
      /\ sessionTokens'[r] = o.value
  BY <1>1, <1>2 DEF TypeOK
<1>6. StoreStep(r)
  BY <1>1, <1>4, <1>5 DEF StoreStep, CurrentToken, Complete
<1>7. \A i \in Ids, t \in Tokens : CurrentToken(i, t)' => CurrentToken(i, t)
  BY <1>1 DEF CurrentToken
<1>8. CurrentTokenIsMapped'
  BY <1>1, <1>3, <1>5, <1>7 DEF SessionInv, StoreInv, CurrentTokenIsMapped
<1>9. /\ \A n \in Names : (userNames[n] \in Ids => Complete(userNames[n]))'
      /\ \A f \in AllForeign : (foreignIDs[f] \in Ids => Complete(foreignIDs[f]))'
  BY <1>1 DEF SessionInv, StoreInv, AccountsComplete, Complete
<1>10. StoreInv'
  BY <1>1, <1>6, <1>7, <1>8, <1>9, TokensKept DEF StoreInv, AccountsComplete
<1>11. Spent(user[r].token)'
  BY <1>1, <1>4 DEF Spent
<1>12. RequestInv(r)'
  BY <1>1, <1>4, <1>6, <1>11, IdleInv
<1>. QED
  BY <1>6, <1>10, <1>12 DEF Keeps

-----------------------------------------------------------------------------
(* SessionInv is invariant.                                                *)

\* The accounts found at start are complete and mapped.
LEMMA InitSession ==
  ASSUME Init
  PROVE  SessionInv
<1>1. TypeInv
  BY InitType
<1>2. PICK foreign \in [Settled -> Foreigners \union {None}],
           name \in [Settled -> Names \union {None}] : Found(foreign, name)
  BY DEF Init
<1>3. /\ \A i \in Settled : /\ users[i] \in User /\ Readable(users[i])
                            /\ users[i].token = i /\ users[i].otp = i
      /\ \A i \in Ids \ Settled : users[i] = None
      /\ \A t \in Settled : sessionTokens[t] = t
  <2>1. \A i \in Settled : [token |-> i, otp |-> i, name |-> name[i],
                            foreign |-> foreign[i]] \in User
    BY <1>2 DEF User, AllForeign
  <2>2. \A i \in Settled : users[i] = [token |-> i, otp |-> i, name |-> name[i],
                                       foreign |-> foreign[i]]
    BY <1>2 DEF Found
  <2>3. /\ \A i \in Ids \ Settled : users[i] = None
        /\ \A t \in Settled : sessionTokens[t] = t
    BY <1>2 DEF Found
  <2>4. ASSUME NEW i \in Settled
        PROVE  users[i] \in User /\ users[i].token = i /\ users[i].otp = i
    <3>1. users[i] = [token |-> i, otp |-> i, name |-> name[i],
                      foreign |-> foreign[i]]
      BY <2>2
    <3>. QED
      BY <2>1, <3>1
  <2>5. \A u \in User : Readable(u)
    BY DEF Readable
  <2>. QED
    BY <2>3, <2>4, <2>5
<1>4. /\ \A s \in Settled : at[s] = "done"
      /\ \A r \in Requests \ Settled : at[r] = "idle"
      /\ \A r \in Requests : user[r] = None /\ answer[r].token = None
      /\ mu = None
  BY DEF Init, Status
<1>5. \A i \in Ids, t \in Tokens : CurrentToken(i, t) => i = t /\ t \in Settled
  BY <1>3 DEF CurrentToken, Readable
<1>6. \A i \in Settled : Complete(i)
  BY <1>3 DEF Complete
<1>7. StoreInv
  <2>1. SpentRecords
    BY <1>3, <1>4 DEF SpentRecords, Spent, Readable, PastSave
  <2>2. OneAccountPerToken /\ CurrentTokenIsMapped
    BY <1>3, <1>5 DEF OneAccountPerToken, CurrentTokenIsMapped
  <2>3. /\ \A n \in Names : userNames[n] \in Settled \union {None}
        /\ \A f \in AllForeign : foreignIDs[f] \in Settled \union {None}
    BY <1>2 DEF Found
  <2>4. None \notin Ids
    OBVIOUS
  <2>. QED
    BY <1>3, <1>6, <2>1, <2>2, <2>3, <2>4 DEF StoreInv, AccountsComplete, Readable
<1>8. \A r \in Requests : RequestInv(r)
  <2> SUFFICES ASSUME NEW r \in Requests
               PROVE  RequestInv(r)
    OBVIOUS
  <2>1. at[r] \in {"idle", "done"} /\ (at[r] = "idle" => users[r] = None)
    BY <1>3, <1>4
  <2>2. Mutex(r)
    BY <1>4, <2>1 DEF Mutex, Locked
  <2>3. HoldsRecord(r) /\ NewAccount(r) /\ RotationOrder(r)
    BY <2>1 DEF HoldsRecord, NewAccount, RotationOrder, Locked
  <2>4. HoldsSpent(r)
    BY <1>4 DEF HoldsSpent, Spent
  <2>. QED
    BY <2>1, <2>2, <2>3, <2>4 DEF RequestInv
<1>. QED
  BY <1>1, <1>7, <1>8 DEF SessionInv

\* Every step of a request.
LEMMA RequestKeeps ==
  ASSUME SessionInv, NEW r \in Requests, Arrive(r) \/ Serve(r) \/ ReadForm(r)
  PROVE  Keeps(r)
BY ArriveKeeps, AuthenticateKeeps, ForwardKeeps, RecheckKeeps, ShowKeeps,
   ReadFormKeeps, CheckNameKeeps, SaveNameKeeps, IndexNameKeeps, MapTokenKeeps,
   SaveTokenKeeps, DropOldKeeps, LoginLookupKeeps, SignupLookupKeeps,
   LookupForeignKeeps, LoginPendingKeeps, SignupPendingKeeps, LoadKeeps, SendKeeps,
   CreateKeeps, NewTokenKeeps, IndexKeeps, RemapKeeps, TruncateKeeps, FillKeeps
   DEF Serve

\* A restart frees b.mu and forgets what the handlers held; the stores stay.
LEMMA CrashKeeps ==
  ASSUME SessionInv, Crash
  PROVE  SessionInv'
<1>1. TypeInv' /\ UNCHANGED tables /\ TypeOK /\ mu' = None
  BY CrashType DEF SessionInv, TypeInv, Crash
<1>2. \A r \in Requests :
        /\ at'[r] = IF at[r] = "idle" THEN "idle" ELSE "done"
        /\ user'[r] = None
        /\ answer'[r] = answer[r] \/ answer'[r] = Status("lost")
  BY DEF Crash, SessionInv, TypeInv, TypeOK
<1>3. \A t \in Tokens \union {None} : Spent(t) => Spent(t)'
  BY <1>2 DEF Spent, PastSave
<1>4. StoreInv'
  <2>1. SpentRecords'
    <3> SUFFICES ASSUME NEW i \in Ids, Readable(users[i])'
                 PROVE  Spent(users[i].token)'
      BY DEF SpentRecords
    <3>1. /\ Readable(users[i]) /\ Spent(users[i].token) /\ users' = users
          /\ users[i].token \in Tokens \union {None}
      BY <1>1, RecordType DEF tables, SessionInv, StoreInv, SpentRecords
    <3>. QED
      BY <1>3, <3>1 DEF Spent
  <2>2. OneAccountPerToken' /\ CurrentTokenIsMapped'
    BY <1>1 DEF SessionInv, StoreInv, OneAccountPerToken, CurrentTokenIsMapped,
                CurrentToken, tables
  <2>3. AccountsComplete'
    BY <1>1 DEF SessionInv, StoreInv, AccountsComplete, Complete, tables
  <2>. QED
    BY <2>1, <2>2, <2>3 DEF StoreInv
<1>5. \A r \in Requests : RequestInv(r)'
  <2> SUFFICES ASSUME NEW r \in Requests
               PROVE  RequestInv(r)'
    OBVIOUS
  <2>1. /\ at'[r] \in {"idle", "done"} /\ (at'[r] = "idle" => at[r] = "idle")
        /\ at'[r] # "done" => r \notin Settled
    BY <1>2 DEF SessionInv, RequestInv, HoldsSpent
  <2>2. Mutex(r)'
    BY <1>1, <2>1 DEF Mutex, Locked
  <2>3. HoldsRecord(r)' /\ RotationOrder(r)'
    BY <2>1 DEF HoldsRecord, RotationOrder, Locked
  <2>4. NewAccount(r)'
    BY <1>1, <2>1 DEF NewAccount, SessionInv, RequestInv, tables
  <2>5. HoldsSpent(r)'
    <3>1. Spent(answer[r].token) /\ answer[r].token \in Tokens \union {None}
      BY <1>1 DEF SessionInv, RequestInv, HoldsSpent, TypeOK, Answer
    <3>2. answer'[r].token \in Tokens \union {None} /\ Spent(answer'[r].token)
      BY <1>2, <3>1 DEF Status, Spent
    <3>. QED
      BY <1>2, <1>3, <2>1, <3>2 DEF HoldsSpent, Spent
  <2>. QED
    BY <2>1, <2>2, <2>3, <2>4, <2>5 DEF RequestInv
<1>. QED
  BY <1>1, <1>4, <1>5 DEF SessionInv

\* A step that touches neither the tables nor a request keeps SessionInv.
LEMMA UntouchedKeeps ==
  ASSUME SessionInv, TypeInv', UNCHANGED <<tables, mu, at, req, locals, answer>>
  PROVE  SessionInv'
<1>1. StoreInv'
  BY DEF SessionInv, StoreInv, SpentRecords, Spent, OneAccountPerToken,
         CurrentTokenIsMapped, CurrentToken, AccountsComplete, Complete, tables
<1>2. \A r \in Requests : RequestInv(r)'
  <2> SUFFICES ASSUME NEW r \in Requests
               PROVE  RequestInv(r)'
    OBVIOUS
  <2>1. RequestInv(r)
    BY DEF SessionInv
  <2>2. Mutex(r)' /\ HoldsRecord(r)' /\ NewAccount(r)'
    BY <2>1 DEF RequestInv, Mutex, HoldsRecord, NewAccount, tables, locals
  <2>3. HoldsSpent(r)' /\ (at[r] = "index" => Complete(r))'
    BY <2>1 DEF RequestInv, HoldsSpent, Spent, Complete, tables, locals
  <2>4. RotationOrder(r)'
    BY <2>1 DEF RequestInv, RotationOrder, CurrentToken, Rotated, tables, locals
  <2>. QED
    BY <2>2, <2>3, <2>4 DEF RequestInv
<1>. QED
  BY <1>1, <1>2 DEF SessionInv

\* SessionInv is inductive.
LEMMA SessionStep ==
  ASSUME SessionInv, [Next]_vars
  PROVE  SessionInv'
<1>1. ASSUME NEW r \in Requests, Arrive(r) \/ Serve(r) \/ ReadForm(r)
      PROVE  SessionInv'
  <2>1. Keeps(r) /\ TypeInv' /\ Framed(r)
    BY <1>1, RequestKeeps, FramedStep DEF SessionInv
  <2>2. \A q \in Requests \ {r} : RequestInv(q)'
    BY <2>1, OthersUndisturbed DEF Keeps
  <2>. QED
    BY <2>1, <2>2 DEF Keeps, SessionInv
<1>2. ASSUME NEW n \in Names, Approve(n)
      PROVE  SessionInv'
  <2>1. TypeInv'
    BY <1>2, ApproveType DEF SessionInv
  <2>. QED
    BY <1>2, <2>1, UntouchedKeeps DEF Approve
<1>3. CASE Crash
  BY <1>3, CrashKeeps
<1>4. CASE Rest \/ UNCHANGED vars
  <2>1. TypeInv'
    BY <1>4, StutterType DEF Rest, SessionInv
  <2>. QED
    BY <1>4, <2>1, UntouchedKeeps DEF Rest, vars, tables, locals
<1>. QED
  BY <1>1, <1>2, <1>3, <1>4 DEF Next

\* What each step of a handler relies on holds in every reachable state.
THEOREM SessionInvariant == Spec => []SessionInv
<1>1. Init => SessionInv
  BY InitSession
<1>2. SessionInv /\ [Next]_vars => SessionInv'
  BY SessionStep
<1>. QED
  BY <1>1, <1>2, PTL DEF Spec

-----------------------------------------------------------------------------
(* What it is for.                                                         *)

\* Every current token has its mapping, or one whose file cannot be read, with
\* failures of the store at every step of a rotation.
THEOREM MappedTokens == Spec => []CurrentTokenIsMapped
<1>1. SessionInv => CurrentTokenIsMapped
  BY DEF SessionInv, StoreInv
<1>. QED
  BY <1>1, SessionInvariant, PTL

\* An index never leads a login to an account without a token and a secret.
THEOREM IndexedComplete == Spec => []IndexedAccountsComplete
<1>1. SessionInv => IndexedAccountsComplete
  BY DEF SessionInv, StoreInv, AccountsComplete, Complete, IndexedAccountsComplete
<1>. QED
  BY <1>1, SessionInvariant, PTL

\* Crash and Approve leave the stores alone.
LEMMA RequestsChangeTables ==
  ASSUME [Next]_vars
  PROVE  \/ \E r \in Requests : Arrive(r) \/ Serve(r) \/ ReadForm(r)
         \/ UNCHANGED tables
BY DEF Next, Approve, Crash, Rest, vars, tables

\* A step of request r does not make a client's token authenticate that did not.
LEMMA NoRevival ==
  ASSUME SessionInv, NEW r \in Requests, Arrive(r) \/ Serve(r) \/ ReadForm(r),
         NEW t \in Tokens, t \in Cookies, Authenticates(t)'
  PROVE  Authenticates(t)
<1>1. PICK i \in Ids : sessionTokens'[t] = i /\ CurrentToken(i, t)'
  BY DEF Authenticates, CurrentToken
<1>2. Spent(t) /\ StoreStep(r)
  BY RequestKeeps
     DEF Keeps, Cookies, SessionInv, RequestInv, HoldsSpent, Spent, PastSave
<1>3. CurrentToken(i, t)
  <2>1. CASE t # r
    BY <1>1, <1>2, <2>1 DEF StoreStep
  <2>2. CASE t = r
    <3>1. at[r] \in PastSave
      BY <1>2, <2>2 DEF Spent
    <3>2. users'[i] = users[i]
      BY <1>2, <3>1 DEF StoreStep, PastSave, Locked
    <3>. QED
      BY <1>1, <3>2 DEF CurrentToken
  <2>. QED
    BY <2>1, <2>2
<1>4. sessionTokens[t] \in {i, Torn}
  BY <1>3 DEF SessionInv, StoreInv, CurrentTokenIsMapped
<1>5. sessionTokens[t] # Torn
  <2>1. i # Torn /\ i # None
    OBVIOUS
  <2>2. CASE t # r
    BY <1>1, <1>2, <2>1, <2>2 DEF StoreStep
  <2>3. CASE t = r
    BY <1>1, <1>2, <2>1, <2>3 DEF StoreStep, Spent
  <2>. QED
    BY <2>2, <2>3
<1>. QED
  BY <1>3, <1>4, <1>5 DEF Authenticates, CurrentToken

\* A token that was given to a client and does not authenticate never does
\* again: no handler, however long it waited, and no failure brings it back.
THEOREM RevokedStaysRevoked == Spec => RevokedForGood
<1> DEFINE A == \A t \in Tokens :
                  t \in Cookies /\ ~Authenticates(t) => ~Authenticates(t)'
<1>1. SessionInv /\ [Next]_vars => [A]_vars
  <2> SUFFICES ASSUME SessionInv, [Next]_vars, NEW t \in Tokens, t \in Cookies,
                      Authenticates(t)'
               PROVE  Authenticates(t)
    OBVIOUS
  <2>1. CASE \E r \in Requests : Arrive(r) \/ Serve(r) \/ ReadForm(r)
    BY <2>1, NoRevival
  <2>2. CASE UNCHANGED tables
    BY <2>2 DEF tables, Authenticates
  <2>. QED
    BY <2>1, <2>2, RequestsChangeTables
<1>. QED
  BY <1>1, SessionInvariant, PTL DEF Spec, RevokedForGood

\* A request changes an account that has a token only while it holds b.mu and if
\* it presented the token that the account has at that moment.
THEOREM ChangesNeedToken == Spec => OnlyCurrentTokenChangesAccount
<1> DEFINE A == \A i \in Ids :
                  Readable(users[i]) /\ users[i].token # None /\ users'[i] # users[i] =>
                    \E r \in Requests : mu = r /\ req[r].token = users[i].token
<1>1. SessionInv /\ [Next]_vars => [A]_vars
  <2> SUFFICES ASSUME SessionInv, [Next]_vars, NEW i \in Ids, Readable(users[i]),
                      users[i].token # None, users'[i] # users[i]
               PROVE  \E r \in Requests : mu = r /\ req[r].token = users[i].token
    OBVIOUS
  <2>1. PICK r \in Requests : Arrive(r) \/ Serve(r) \/ ReadForm(r)
    BY RequestsChangeTables DEF tables
  <2>2. StoreStep(r) /\ RequestInv(r)
    BY <2>1, RequestKeeps DEF Keeps, SessionInv
  <2>3. at[r] \in Locked \ {"dropOld"} /\ i = id[r]
    BY <2>2 DEF StoreStep, RequestInv, NewAccount, Readable
  <2>4. users[i] = user[r] /\ mu = r
    BY <2>2, <2>3 DEF RequestInv, HoldsRecord, Mutex
  <2>. QED
    BY <2>2, <2>3, <2>4 DEF RequestInv, HoldsRecord
<1>. QED
  BY <1>1, SessionInvariant, PTL DEF Spec, OnlyCurrentTokenChangesAccount
=============================================================================
