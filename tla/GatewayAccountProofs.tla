------------------------ MODULE GatewayAccountProofs ------------------------
(***************************************************************************)
(* What SessionInv is for: Gateway implements RevocableTokens, a rotation  *)
(* is complete and happens once for a token, logins prove a secret, and    *)
(* promotions were approved; for every value of the constants.             *)
(***************************************************************************)
EXTENDS GatewayProofs

USE GatewayAssumption DEF Ids, Tokens

-----------------------------------------------------------------------------
(* Gateway implements RevocableTokens.                                     *)

\* An account is opened by its current token, if the mapping of that can be read.
OpenedByToken ==
  \A i \in Ids :
    /\ \A t \in Tokens : OpenedBy(i) = t <=> CurrentToken(i, t) /\ sessionTokens[t] = i
    /\ OpenedBy(i) \in Tokens \union {None}

\* sessionTokenToId finds an account by its current token and no other.
LEMMA OpenedByTokenHolds == SessionInv => OpenedByToken
<1> SUFFICES ASSUME TypeOK, StoreInv, NEW i \in Ids
             PROVE  /\ \A t \in Tokens :
                         OpenedBy(i) = t <=> CurrentToken(i, t) /\ sessionTokens[t] = i
                    /\ OpenedBy(i) \in Tokens \union {None}
  BY DEF SessionInv, TypeInv, OpenedByToken
<1>1. Readable(users[i]) => users[i].token \in Tokens \union {None}
  BY RecordType
<1>2. ASSUME NEW t \in Tokens
      PROVE  OpenedBy(i) = t <=> CurrentToken(i, t) /\ sessionTokens[t] = i
  <2>1. t # None /\ i # Torn
    OBVIOUS
  <2>2. CASE CurrentToken(i, t)
    <3>1. sessionTokens[t] \in {i, Torn} /\ Readable(users[i]) /\ users[i].token = t
      BY <2>2 DEF StoreInv, CurrentTokenIsMapped, CurrentToken
    <3>2. Authenticates(t) <=> sessionTokens[t] = i
      BY <2>1, <3>1 DEF Authenticates
    <3>. QED
      BY <2>1, <2>2, <3>1, <3>2 DEF OpenedBy
  <2>3. CASE ~CurrentToken(i, t)
    BY <2>1, <2>3 DEF OpenedBy, CurrentToken
  <2>. QED
    BY <2>2, <2>3
<1>3. OpenedBy(i) \in Tokens \union {None}
  BY <1>1 DEF OpenedBy
<1>. QED
  BY <1>2, <1>3

\* A step of r moves at most one account, to the token r that was never saved before,
\* or to none.
Moves(r, i) ==
  \/ OpenedBy(i)' = None
  \/ OpenedBy(i)' = r /\ at[r] \notin PastSave /\ at'[r] \in PastSave

\* What a step of r does to an account.
LEMMA OpenedByStep ==
  ASSUME SessionInv, SessionInv', NEW r \in Requests, StoreStep(r),
         NEW i \in Ids, OpenedBy(i)' # OpenedBy(i)
  PROVE  /\ Moves(r, i)
         /\ \/ CurrentToken(i, r) /\ at[r] \in PastSave
            \/ at[r] \in Locked \ {"dropOld"} /\ i = id[r]
            \/ at[r] = "create" /\ i = r
<1>1. /\ TypeOK /\ StoreInv /\ TypeOK' /\ StoreInv'
      /\ OpenedBy(i) \in Tokens \union {None} /\ OpenedBy(i)' \in Tokens \union {None}
      /\ \A t \in Tokens : OpenedBy(i) = t <=> CurrentToken(i, t) /\ sessionTokens[t] = i
      /\ \A t \in Tokens :
           OpenedBy(i)' = t <=> CurrentToken(i, t)' /\ sessionTokens'[t] = i
  <2>1. OpenedByToken /\ OpenedByToken'
    BY OpenedByTokenHolds, PTL
  <2>. QED
    BY <2>1 DEF SessionInv, TypeInv, OpenedByToken
<1>2. None \notin Ids /\ Torn \notin Ids
  OBVIOUS
<1>3. ASSUME NEW t \in Tokens \ {r}, OpenedBy(i)' = t
      PROVE  FALSE
  <2>1. CurrentToken(i, t) /\ sessionTokens'[t] = i
    BY <1>1, <1>3 DEF StoreStep
  <2>2. sessionTokens[t] = i
    BY <1>2, <2>1 DEF StoreStep
  <2>. QED
    BY <1>1, <1>3, <2>1, <2>2
<1>4. OpenedBy(i)' \in {None, r}
  BY <1>1, <1>3
<1>5. CASE users'[i] # users[i]
  <2>1. \/ at[r] \in Locked \ {"dropOld"} /\ i = id[r]
        \/ at[r] = "create" /\ i = r
    BY <1>5 DEF StoreStep
  <2>2. at[r] \notin PastSave
    BY <2>1 DEF PastSave, Locked
  <2>3. OpenedBy(i)' = r => at'[r] \in PastSave
    BY <1>1, <1>2 DEF StoreInv, SpentRecords, CurrentToken, Spent
  <2>. QED
    BY <1>4, <2>1, <2>2, <2>3 DEF Moves
<1>6. CASE users'[i] = users[i]
  <2>1. \A t \in Tokens : CurrentToken(i, t)' <=> CurrentToken(i, t)
    BY <1>6 DEF CurrentToken
  <2>2. ASSUME OpenedBy(i) = None, OpenedBy(i)' = r
        PROVE  FALSE
    <3>1. CurrentToken(i, r) /\ sessionTokens'[r] = i
      BY <1>1, <2>1, <2>2
    <3>2. sessionTokens[r] \in {i, Torn} /\ at[r] \in PastSave
      BY <1>1, <1>2, <3>1 DEF StoreInv, CurrentTokenIsMapped, SpentRecords, CurrentToken, Spent
    <3>3. sessionTokens[r] = i
      BY <1>2, <3>1, <3>2 DEF StoreStep
    <3>. QED
      BY <1>1, <1>2, <2>2, <3>1, <3>3
  <2>3. PICK t \in Tokens : OpenedBy(i) = t
    BY <1>1, <1>4, <2>2
  <2>4. CurrentToken(i, t) /\ sessionTokens[t] = i /\ CurrentToken(i, t)'
    BY <1>1, <2>1, <2>3
  <2>5. sessionTokens'[t] \in {i, Torn}
    BY <1>1, <2>4 DEF StoreInv, CurrentTokenIsMapped
  <2>6. t = r
    <3>1. ASSUME t # r
          PROVE  sessionTokens'[t] = sessionTokens[t]
      BY <1>2, <2>5, <3>1 DEF StoreStep
    <3>. QED
      BY <1>1, <2>3, <2>4, <3>1
  <2>7. at[r] \in PastSave
    BY <1>1, <1>2, <2>4, <2>6 DEF StoreInv, SpentRecords, CurrentToken, Spent
  <2>8. OpenedBy(i)' = None
    BY <1>4, <2>3, <2>6
  <2>. QED
    BY <2>4, <2>6, <2>7, <2>8 DEF Moves
<1>. QED
  BY <1>5, <1>6

\* A step of r moves one account at most.
LEMMA OneMoves ==
  ASSUME SessionInv, SessionInv', NEW r \in Requests, StoreStep(r),
         NEW i \in Ids, NEW j \in Ids,
         OpenedBy(i)' # OpenedBy(i), OpenedBy(j)' # OpenedBy(j)
  PROVE  i = j
<1>1. CurrentToken(i, r) /\ CurrentToken(j, r) => i = j
  BY DEF SessionInv, StoreInv, OneAccountPerToken
<1>. QED
  BY <1>1, OpenedByStep DEF PastSave, Locked

\* A step of a request moves the token of one account, or only wastes tokens.
LEMMA RequestMoves ==
  ASSUME SessionInv, SessionInv', NEW r \in Requests,
         Arrive(r) \/ Serve(r) \/ ReadForm(r)
  PROVE  Promise!Next
<1> DEFINE spent == {t \in Tokens : at[t] \in PastSave}
           current == [i \in Ids |-> OpenedBy(i)]
<1>1. StoreStep(r) /\ Framed(r)
  BY RequestKeeps, FramedStep DEF Keeps, SessionInv
<1>2. PICK ts \in SUBSET Tokens :
        /\ spent' = spent \union ts
        /\ at[r] \notin PastSave /\ at'[r] \in PastSave => ts = {r}
  <2> DEFINE ts == IF at[r] \notin PastSave /\ at'[r] \in PastSave THEN {r} ELSE {}
  <2>1. \A t \in Tokens \ {r} : at'[t] = at[t]
    BY <1>1 DEF Framed
  <2>2. at[r] \in PastSave => at'[r] \in PastSave
    BY <1>1 DEF StoreStep
  <2>3. spent' = spent \union ts
    BY <2>1, <2>2
  <2>. QED
    BY <2>3
<1>3. CASE \A i \in Ids : OpenedBy(i)' = OpenedBy(i)
  BY <1>2, <1>3 DEF Promise!Next, Promise!Waste
<1>4. ASSUME NEW i \in Ids, OpenedBy(i)' # OpenedBy(i)
      PROVE  Promise!Next
  <2>1. \A j \in Ids \ {i} : OpenedBy(j)' = OpenedBy(j)
    BY <1>1, <1>4, OneMoves
  <2>2. current' = [current EXCEPT ![i] = OpenedBy(i)']
    BY <2>1
  <2>3. CASE OpenedBy(i)' = None
    <3>1. Promise!Lose(i, ts)
      BY <1>2, <2>2, <2>3 DEF Promise!Lose
    <3>. QED
      BY <3>1 DEF Promise!Next
  <2>4. CASE OpenedBy(i)' # None
    <3>1. OpenedBy(i)' = r /\ at[r] \notin PastSave /\ at'[r] \in PastSave
      BY <1>1, <1>4, <2>4, OpenedByStep DEF Moves
    <3>2. Promise!Issue(i, r)
      BY <1>2, <2>2, <3>1 DEF Promise!Issue
    <3>. QED
      BY <3>2 DEF Promise!Next
  <2>. QED
    BY <2>3, <2>4
<1>. QED
  BY <1>3, <1>4

\* The tokens that open accounts at start.
LEMMA InitPromise ==
  ASSUME Init
  PROVE  Promise!Init
<1> DEFINE spent == {t \in Tokens : at[t] \in PastSave}
           current == [i \in Ids |-> OpenedBy(i)]
<1>1. SessionInv /\ OpenedByToken
  BY InitSession, OpenedByTokenHolds
<1>2. \A i \in Ids : current[i] \in Tokens \union {None}
  BY <1>1 DEF OpenedByToken
<1>3. ASSUME NEW i \in Ids, NEW j \in Ids, current[i] = current[j], current[i] # None
      PROVE  i = j
  <2>1. PICK t \in Tokens : OpenedBy(i) = t /\ OpenedBy(j) = t
    BY <1>2, <1>3
  <2>2. sessionTokens[t] = i /\ sessionTokens[t] = j
    BY <1>1, <2>1 DEF OpenedByToken
  <2>. QED
    BY <2>2
<1>4. ASSUME NEW i \in Ids
      PROVE  current[i] \in spent \union {None}
  <2>1. CASE OpenedBy(i) # None
    <3>1. PICK t \in Tokens : OpenedBy(i) = t /\ CurrentToken(i, t)
      BY <1>1, <2>1 DEF OpenedByToken
    <3>2. at[t] \in PastSave
      BY <1>1, <3>1 DEF SessionInv, StoreInv, SpentRecords, CurrentToken, Spent
    <3>. QED
      BY <3>1, <3>2
  <2>. QED
    BY <2>1
<1>. QED
  BY <1>2, <1>3, <1>4 DEF Promise!Init

\* SPEC.md "Token Rotation": an account is opened by one token at a time, a token opens
\* one account at most, and one that was replaced or lost opens none ever again; so
\* rotateUserTokenLocked, setupNewUser and every other handler keep it, whatever
\* interleaves, fails or restarts.
THEOREM KeepsPromise == Spec => TokensAreRevocable
<1>1. Init => Promise!Init
  BY InitPromise
<1>2. SessionInv /\ SessionInv' /\ [Next]_vars =>
        [Promise!Next]_<<[i \in Ids |-> OpenedBy(i)], {t \in Tokens : at[t] \in PastSave}>>
  <2> SUFFICES ASSUME SessionInv, SessionInv', [Next]_vars
               PROVE  Promise!Next \/ UNCHANGED <<[i \in Ids |-> OpenedBy(i)],
                                                {t \in Tokens : at[t] \in PastSave}>>
    OBVIOUS
  <2>1. CASE \E r \in Requests : Arrive(r) \/ Serve(r) \/ ReadForm(r)
    BY <2>1, RequestMoves
  <2>2. ASSUME UNCHANGED tables, \A t \in Tokens : at[t] \in PastSave => at'[t] \in PastSave
        PROVE  Promise!Next
    <3>1. \A i \in Ids : OpenedBy(i)' = OpenedBy(i)
      BY <2>2 DEF tables, OpenedBy, Authenticates
    <3>2. PICK ts \in SUBSET Tokens : ts = {t \in Tokens : at'[t] \in PastSave}
      OBVIOUS
    <3>3. Promise!Waste(ts)
      BY <2>2, <3>1, <3>2 DEF Promise!Waste
    <3>. QED
      BY <3>3 DEF Promise!Next
  <2>3. CASE Crash
    <3>1. ASSUME NEW t \in Tokens, at[t] \in PastSave
          PROVE  at'[t] \in PastSave
      <4>1. at[t] # "idle" /\ "done" \in PastSave
        BY <3>1 DEF PastSave
      <4>2. at'[t] = at[t] \/ at'[t] = "done"
        BY <2>3 DEF Crash
      <4>. QED
        BY <3>1, <4>1, <4>2
    <3>2. UNCHANGED tables
      BY <2>3 DEF Crash
    <3>. QED
      BY <2>2, <3>1, <3>2
  <2>4. CASE (\E n \in Names : Approve(n)) \/ Rest \/ UNCHANGED vars
    <3>1. UNCHANGED tables /\ UNCHANGED at
      BY <2>4 DEF Approve, Rest, vars, tables
    <3>. QED
      BY <2>2, <3>1
  <2>. QED
    BY <2>1, <2>3, <2>4 DEF Next
<1>. QED
  BY <1>1, <1>2, SessionInvariant, PTL DEF Spec, TokensAreRevocable, Promise!Spec

-----------------------------------------------------------------------------
(* How requests go on.                                                     *)

\* The step a request takes after another one.
Follows(from, to) ==
  \/ from = "authenticate" /\ to \in {"forward", "recheck"}
  \/ from = "recheck" /\ to \in {"show", "mapToken", "readForm"}
  \/ from = "readForm" /\ to = "checkName"
  \/ from = "checkName" /\ to = "saveName"
  \/ from = "saveName" /\ to = "indexName"
  \/ from = "mapToken" /\ to = "saveToken"
  \/ from = "saveToken" /\ to = "dropOld"
  \/ from = "dropOld" /\ to = "index"
  \/ from = "loginLookup" /\ to \in {"loginPending", "load"}
  \/ from = "signupLookup" /\ to = "signupPending"
  \/ from = "lookupForeign" /\ to \in {"load", "create"}
  \/ from = "loginPending" /\ to = "create"
  \/ from = "signupPending" /\ to = "truncate"
  \/ from = "load" /\ to = "send"
  \/ from = "create" /\ to = "newToken"
  \/ from = "newToken" /\ to = "mapToken"
  \/ from = "index" /\ to \in {"truncate", "remap"}
  \/ from = "remap" /\ to = "send"
  \/ from = "truncate" /\ to \in {"fill", "send"}
  \/ from = "fill" /\ to = "send"

\* The steps at which request r may be answered "ok".
MayEnd(r) ==
  \/ at[r] \in {"forward", "show", "indexName"}
  \/ at[r] = "dropOld" /\ req[r].handler = "newToken"
  \/ at[r] = "fill" /\ req[r].handler = "totpsignup"
  \/ at[r] = "send" /\ answer'[r].id = id[r]

\* A step of r leads to the next one, or to an answer.
Course(r) ==
  /\ req' = req
  /\ \/ Follows(at[r], at'[r]) /\ answer' = answer
     \/ /\ at[r] \notin {"idle", "done"} /\ at'[r] = "done"
        /\ answer'[r].status = "ok" => MayEnd(r)

\* A reply that is not "ok".
LEMMA RefusalCourse ==
  ASSUME TypeOK, NEW r \in Requests, NEW s \in Statuses \ {"ok"}, Reply(r, Status(s)),
         at[r] \notin {"idle", "done"}
  PROVE  Course(r)
BY DEF TypeOK, Reply, Course, Status

\* Goto leads to the next step.
LEMMA GotoCourse ==
  ASSUME TypeOK, NEW r \in Requests, NEW s, Step(r, s), Follows(at[r], s)
  PROVE  Course(r)
BY DEF TypeOK, Step, Course

\* After a write: the next step, or the reply of a panic.
LEMMA ContinueCourse ==
  ASSUME TypeOK, NEW r \in Requests, NEW s, NEW o, Continue(r, o, s),
         Follows(at[r], s), at[r] \notin {"idle", "done"}
  PROVE  Course(r)
<1>1. "failed" \in Statuses \ {"ok"}
  BY DEF Statuses
<1>. QED
  BY <1>1, RefusalCourse, GotoCourse DEF Continue, Goto

\* The handlers of accounts that need no lock, or take b.mu.
LEMMA ManagementCourse ==
  ASSUME SessionInv, NEW r \in Requests,
         Authenticate(r) \/ Forward(r) \/ Recheck(r) \/ ReadForm(r) \/ CheckName(r)
  PROVE  Course(r)
<1>1. TypeOK /\ Prepared(r) /\ {"failed", "frontPage", "stale", "form", "taken"} \subseteq Statuses \ {"ok"}
  BY DEF SessionInv, TypeInv, Statuses
<1>2. CASE Authenticate(r)
  BY <1>1, <1>2, RefusalCourse, GotoCourse DEF Authenticate, Follows
<1>3. CASE Forward(r)
  BY <1>1, <1>3 DEF Forward, Reply, Course, MayEnd, TypeOK
<1>4. CASE Recheck(r)
  <2>1. req[r].handler \in ManagementHandlers
    BY <1>1, <1>4 DEF Recheck, Prepared
  <2>. QED
    BY <1>1, <1>4, <2>1, RefusalCourse, GotoCourse DEF Recheck, Follows, ManagementHandlers
<1>5. CASE ReadForm(r)
  BY <1>1, <1>5, RefusalCourse, GotoCourse DEF ReadForm, Follows, Goto
<1>6. CASE CheckName(r)
  BY <1>1, <1>6, RefusalCourse, GotoCourse DEF CheckName, Follows, Goto
<1>. QED
  BY <1>2, <1>3, <1>4, <1>5, <1>6

\* The steps that write under b.mu.
LEMMA LockedCourse ==
  ASSUME SessionInv, NEW r \in Requests,
         Show(r) \/ SaveName(r) \/ IndexName(r) \/ MapToken(r) \/ SaveToken(r) \/ DropOld(r)
  PROVE  Course(r)
<1>1. TypeOK /\ "failed" \in Statuses \ {"ok"}
  BY DEF SessionInv, TypeInv, Statuses
<1>2. CASE Show(r)
  BY <1>1, <1>2 DEF Show, Reply, Course, MayEnd, TypeOK
<1>3. CASE SaveName(r)
  <2>1. \/ Step(r, "indexName") \/ Reply(r, Status("failed"))
    BY <1>3 DEF SaveName
  <2>2. at[r] = "saveName"
    BY <1>3 DEF SaveName
  <2>. QED
    BY <1>1, <2>1, <2>2, RefusalCourse, GotoCourse DEF Follows
<1>4. CASE IndexName(r)
  BY <1>1, <1>4 DEF IndexName, Reply, Course, MayEnd, TypeOK
<1>5. CASE MapToken(r)
  <2>1. at[r] = "mapToken" /\ \E o : Continue(r, o, "saveToken")
    BY <1>5 DEF MapToken
  <2>. QED
    BY <1>1, <2>1, ContinueCourse DEF Follows
<1>6. CASE SaveToken(r)
  <2>1. at[r] = "saveToken" /\ \E o : Continue(r, o, "dropOld")
    BY <1>6 DEF SaveToken
  <2>. QED
    BY <1>1, <2>1, ContinueCourse DEF Follows
<1>7. CASE DropOld(r)
  <2>1. /\ at[r] = "dropOld"
        /\ \/ req[r].handler = "newToken" /\ Reply(r, NewTokenPage(r))
           \/ Step(r, "index")
    BY <1>7 DEF DropOld
  <2>2. CASE req[r].handler = "newToken" /\ Reply(r, NewTokenPage(r))
    BY <1>1, <2>1, <2>2 DEF Reply, Course, MayEnd, TypeOK
  <2>3. CASE Step(r, "index")
    BY <1>1, <2>1, <2>3, GotoCourse DEF Follows
  <2>. QED
    BY <2>1, <2>2, <2>3
<1>. QED
  BY <1>2, <1>3, <1>4, <1>5, <1>6, <1>7

\* Logins and signups, up to the account.
LEMMA LoginCourse ==
  ASSUME SessionInv, NEW r \in Requests,
         \/ LoginLookup(r) \/ SignupLookup(r) \/ LookupForeign(r)
         \/ LoginPending(r) \/ SignupPending(r) \/ Load(r) \/ Send(r)
  PROVE  Course(r)
<1>1. TypeOK /\ {"failed", "form", "taken", "rejected", "awaiting"} \subseteq Statuses \ {"ok"}
  BY DEF SessionInv, TypeInv, Statuses
<1>2. CASE LoginLookup(r)
  BY <1>1, <1>2, RefusalCourse, GotoCourse DEF LoginLookup, Follows, Goto
<1>3. CASE SignupLookup(r)
  BY <1>1, <1>3, RefusalCourse, GotoCourse DEF SignupLookup, Follows, Goto
<1>4. CASE LookupForeign(r)
  BY <1>1, <1>4, RefusalCourse, GotoCourse DEF LookupForeign, Follows, Goto
<1>5. CASE LoginPending(r)
  <2>1. /\ at[r] = "loginPending"
        /\ \/ \E s \in {"rejected", "awaiting"} : Reply(r, Status(s))
           \/ Step(r, "create")
    BY <1>5 DEF LoginPending, KeepSnap
  <2>. QED
    BY <1>1, <2>1, RefusalCourse, GotoCourse DEF Follows
<1>6. CASE SignupPending(r)
  <2>1. /\ at[r] = "signupPending"
        /\ Reply(r, Status("taken")) \/ Step(r, "truncate")
    BY <1>6 DEF SignupPending, KeepSnap
  <2>. QED
    BY <1>1, <2>1, RefusalCourse, GotoCourse DEF Follows
<1>7. CASE Load(r)
  BY <1>1, <1>7, RefusalCourse, GotoCourse DEF Load, Follows
<1>8. CASE Send(r)
  <2>1. answer'[r] = [Status("ok") EXCEPT !.token = user[r].token, !.id = id[r]]
    BY <1>1, <1>8 DEF Send, Reply, TypeOK
  <2>2. answer'[r].id = id[r]
    BY <2>1 DEF Status
  <2>. QED
    BY <1>1, <1>8, <2>2 DEF Send, Reply, Course, MayEnd, TypeOK
<1>. QED
  BY <1>2, <1>3, <1>4, <1>5, <1>6, <1>7, <1>8

\* The making of an account, and the file of the signups.
LEMMA SetupCourse ==
  ASSUME SessionInv, NEW r \in Requests,
         Create(r) \/ NewToken(r) \/ Index(r) \/ Remap(r) \/ Truncate(r) \/ Fill(r)
  PROVE  Course(r)
<1>1. TypeOK /\ "failed" \in Statuses \ {"ok"}
  BY DEF SessionInv, TypeInv, Statuses
<1>2. CASE Create(r)
  <2>1. at[r] = "create" /\ (Step(r, "newToken") \/ Reply(r, Status("failed")))
    BY <1>2 DEF Create
  <2>. QED
    BY <1>1, <2>1, RefusalCourse, GotoCourse DEF Follows
<1>3. CASE NewToken(r)
  BY <1>1, <1>3, RefusalCourse, GotoCourse DEF NewToken, Follows
<1>4. CASE Index(r)
  <2>1. at[r] = "index" /\ (Step(r, "truncate") \/ Step(r, "remap"))
    BY <1>4 DEF Index, Goto
  <2>. QED
    BY <1>1, <2>1, GotoCourse DEF Follows
<1>5. CASE Remap(r)
  BY <1>1, <1>5, GotoCourse DEF Remap, Follows, Goto
<1>6. ASSUME NEW ok \in BOOLEAN, AfterSave(r, ok), at[r] = "fill" \/ (at[r] = "truncate" /\ ~ok)
      PROVE  Course(r)
  <2>1. CASE req[r].handler = "totpsignup" /\ ok
    BY <1>1, <1>6, <2>1 DEF AfterSave, Reply, Course, MayEnd, TypeOK
  <2>2. CASE req[r].handler = "totpsignup" /\ ~ok
    BY <1>1, <1>6, <2>2, RefusalCourse DEF AfterSave
  <2>3. CASE req[r].handler # "totpsignup"
    BY <1>1, <1>6, <2>3, GotoCourse DEF AfterSave, Follows, Goto
  <2>. QED
    BY <2>1, <2>2, <2>3
<1>7. CASE Truncate(r)
  <2>1. at[r] = "truncate" /\ (Goto(r, "fill") \/ AfterSave(r, FALSE))
    BY <1>7 DEF Truncate
  <2>. QED
    BY <1>1, <1>6, <2>1, GotoCourse DEF Follows, Goto
<1>8. CASE Fill(r)
  BY <1>6, <1>8 DEF Fill
<1>. QED
  BY <1>2, <1>3, <1>4, <1>5, <1>7, <1>8

\* Every step of a request that has arrived.
LEMMA ServeCourse ==
  ASSUME SessionInv, NEW r \in Requests, Serve(r) \/ ReadForm(r)
  PROVE  Course(r)
BY ManagementCourse, LockedCourse, LoginCourse, SetupCourse DEF Serve

\* The step a request is at is the only one it can take.
LEMMA StepTaken ==
  ASSUME NEW r \in Requests, Serve(r) \/ ReadForm(r)
  PROVE  /\ at[r] = "authenticate" => Authenticate(r)
         /\ at[r] = "recheck" => Recheck(r)
         /\ at[r] = "readForm" => ReadForm(r)
         /\ at[r] = "checkName" => CheckName(r)
         /\ at[r] = "saveName" => SaveName(r)
         /\ at[r] = "indexName" => IndexName(r)
         /\ at[r] = "mapToken" => MapToken(r)
         /\ at[r] = "show" => Show(r)
         /\ at[r] = "saveToken" => SaveToken(r)
         /\ at[r] = "dropOld" => DropOld(r)
         /\ at[r] = "loginLookup" => LoginLookup(r)
         /\ at[r] = "loginPending" => LoginPending(r)
         /\ at[r] = "signupPending" => SignupPending(r)
         /\ at[r] = "load" => Load(r)
         /\ at[r] = "send" => Send(r)
         /\ at[r] = "create" => Create(r)
         /\ at[r] = "newToken" => NewToken(r)
         /\ at[r] = "index" => Index(r)
         /\ at[r] = "remap" => Remap(r)
         /\ at[r] = "truncate" => Truncate(r)
         /\ at[r] = "fill" => Fill(r)
<1>1. /\ Authenticate(r) => at[r] = "authenticate"
      /\ Forward(r) => at[r] = "forward"
      /\ Recheck(r) => at[r] = "recheck"
      /\ ReadForm(r) => at[r] = "readForm"
      /\ CheckName(r) => at[r] = "checkName"
      /\ SaveName(r) => at[r] = "saveName"
      /\ IndexName(r) => at[r] = "indexName"
      /\ Show(r) => at[r] = "show"
      /\ MapToken(r) => at[r] = "mapToken"
      /\ SaveToken(r) => at[r] = "saveToken"
      /\ DropOld(r) => at[r] = "dropOld"
      /\ LoginLookup(r) => at[r] = "loginLookup"
  BY DEF Authenticate, Forward, Recheck, ReadForm, CheckName, SaveName, IndexName, Show,
         MapToken, SaveToken, DropOld, LoginLookup
<1>2. /\ SignupLookup(r) => at[r] = "signupLookup"
      /\ LookupForeign(r) => at[r] = "lookupForeign"
      /\ LoginPending(r) => at[r] = "loginPending"
      /\ SignupPending(r) => at[r] = "signupPending"
      /\ Load(r) => at[r] = "load"
      /\ Send(r) => at[r] = "send"
      /\ Create(r) => at[r] = "create"
      /\ NewToken(r) => at[r] = "newToken"
      /\ Index(r) => at[r] = "index"
      /\ Remap(r) => at[r] = "remap"
      /\ Truncate(r) => at[r] = "truncate"
      /\ Fill(r) => at[r] = "fill"
  BY DEF SignupLookup, LookupForeign, LoginPending, SignupPending, Load,
         Send, Create, NewToken, Index, Remap, Truncate, Fill
<1>. QED
  BY <1>1, <1>2 DEF Serve

\* How request r has arrived.
Arrived(r) ==
  /\ at[r] = "idle" /\ req'[r].token \in Cookies \union {None}
  /\ req'[r].handler \in Handlers
  /\ answer' = answer /\ UNCHANGED <<tables, file, locals>>
  /\ at'[r] \in {"authenticate", "loginLookup", "signupLookup", "lookupForeign", "create"}
  /\ at'[r] = "create" => req'[r].handler = "develop"

\* A request that is received has arrived.
LEMMA ReceiveArrives ==
  ASSUME TypeOK, NEW r \in Requests, NEW q,
         NEW s \in {"authenticate", "loginLookup", "signupLookup", "lookupForeign", "create"},
         Receive(r, q, s), q.token \in Cookies \union {None},
         s = "create" => q.handler = "develop"
  PROVE  Arrived(r)
BY DEF Receive, TypeOK, Arrived

\* A request arrives with a token that was given out, or with none.
LEMMA ArrivalCourse ==
  ASSUME TypeOK, NEW r \in Requests, Arrive(r)
  PROVE  Arrived(r)
<1>1. CASE ManageRequest(r)
  <2>1. PICK h \in ManagementHandlers \union {"relay"}, t \in Cookies \union {None},
             n \in Names \union {None} :
          Receive(r, [Blank EXCEPT !.handler = h, !.token = t, !.name = n], "authenticate")
    BY <1>1 DEF ManageRequest
  <2> DEFINE q == [Blank EXCEPT !.handler = h, !.token = t, !.name = n]
  <2>2. Receive(r, q, "authenticate") /\ q.token \in Cookies \union {None}
    BY <2>1 DEF Blank
  <2>. HIDE DEF q
  <2>. QED
    BY <2>2, ReceiveArrives
<1>2. CASE LoginRequest(r)
  <2>1. PICK n \in Names \union {None}, x \in Authenticators \union {None} :
          Receive(r, [Blank EXCEPT !.handler = "totplogin", !.name = n, !.secret = x],
                  "loginLookup")
    BY <1>2 DEF LoginRequest
  <2> DEFINE q == [Blank EXCEPT !.handler = "totplogin", !.name = n, !.secret = x]
  <2>2. Receive(r, q, "loginLookup") /\ q.token = None
    BY <2>1 DEF Blank
  <2>. HIDE DEF q
  <2>. QED
    BY <2>2, ReceiveArrives
<1>3. CASE SignupRequest(r)
  <2>1. PICK n \in Names \union {None} :
          Receive(r, [Blank EXCEPT !.handler = "totpsignup", !.name = n], "signupLookup")
    BY <1>3 DEF SignupRequest
  <2> DEFINE q == [Blank EXCEPT !.handler = "totpsignup", !.name = n]
  <2>2. Receive(r, q, "signupLookup") /\ q.token = None
    BY <2>1 DEF Blank
  <2>. HIDE DEF q
  <2>. QED
    BY <2>2, ReceiveArrives
<1>4. CASE CallbackRequest(r)
  <2>1. PICK f \in Foreigners :
          Receive(r, [Blank EXCEPT !.handler = "callback", !.foreign = f], "lookupForeign")
    BY <1>4 DEF CallbackRequest
  <2> DEFINE q == [Blank EXCEPT !.handler = "callback", !.foreign = f]
  <2>2. Receive(r, q, "lookupForeign") /\ q.token = None
    BY <2>1 DEF Blank
  <2>. HIDE DEF q
  <2>. QED
    BY <2>2, ReceiveArrives
<1>5. CASE DevelopRequest(r)
  <2> DEFINE q == [Blank EXCEPT !.handler = "develop", !.foreign = DevForeign]
  <2>1. Receive(r, q, "create") /\ q.token = None /\ q.handler = "develop"
    BY <1>5 DEF DevelopRequest, Blank
  <2>. HIDE DEF q
  <2>. QED
    BY <2>1, ReceiveArrives
<1>. QED
  BY <1>1, <1>2, <1>3, <1>4, <1>5 DEF Arrive

-----------------------------------------------------------------------------
(* Rotations.                                                              *)

\* A token that has been given out and is not current does not become so.
LEMMA UsedUpStays ==
  ASSUME SessionInv, NEW r \in Requests, StoreStep(r),
         NEW t \in Tokens, Spent(t), NEW i \in Ids, CurrentToken(i, t)'
  PROVE  CurrentToken(i, t)
<1>1. CASE t # r
  BY <1>1 DEF StoreStep
<1>2. CASE t = r
  <2>1. at[r] \in PastSave
    BY <1>2 DEF Spent
  <2>2. users'[i] = users[i]
    BY <2>1 DEF StoreStep, PastSave, Locked
  <2>. QED
    BY <2>2 DEF CurrentToken
<1>. QED
  BY <1>1, <1>2

\* A request that has arrived presents what it presented.
LEMMA Presented ==
  ASSUME SessionInv, NEW r \in Requests, Arrive(r) \/ Serve(r) \/ ReadForm(r),
         NEW q \in Requests, at[q] # "idle"
  PROVE  req'[q] = req[q]
<1>1. Framed(r)
  BY FramedStep DEF SessionInv
<1>2. CASE q # r
  BY <1>1, <1>2 DEF Framed
<1>3. CASE q = r
  BY <1>3, ServeCourse, ArrivalCourse DEF Course, Arrived, SessionInv, TypeInv
<1>. QED
  BY <1>2, <1>3

\* What clients hold is no fresh token.
LEMMA CookiesSpent ==
  ASSUME SessionInv, NEW t \in Cookies
  PROVE  Spent(t)
<1>1. \A r \in Requests : Spent(answer[r].token) /\ (r \in Settled => at[r] = "done")
  BY DEF SessionInv, RequestInv, HoldsSpent
<1>. QED
  BY <1>1 DEF Cookies, Spent, PastSave

\* Served is kept.
LEMMA ServedStep ==
  ASSUME SessionInv, SessionInv', \A q \in Requests : Served(q), NEW r \in Requests,
         Arrive(r) \/ Serve(r) \/ ReadForm(r)
  PROVE  \A q \in Requests : Served(q)'
<1>1. Framed(r) /\ StoreStep(r) /\ TypeOK
  BY RequestKeeps, FramedStep DEF Keeps, SessionInv, TypeInv
<1>2. \A q \in Requests : req[q].token \in Tokens \union {None}
  BY <1>1 DEF TypeOK, Request
<1>3. \A t \in Tokens \union {None} : Spent(t) => Spent(t)'
  BY <1>1, SpentStays
<1>4. ASSUME NEW q \in Requests \ {r}
      PROVE  Served(q)'
  <2>1. Spent(req[q].token)'
    BY <1>1, <1>2, <1>3 DEF Served, Framed, Spent
  <2>. QED
    BY <1>1, <2>1 DEF Served, Framed
<1>5. CASE Arrive(r)
  <2>1. /\ at[r] = "idle" /\ req'[r].token \in Cookies \union {None}
        /\ answer'[r] = answer[r] /\ at'[r] \notin {"forward", "show"}
    BY <1>1, <1>5, ArrivalCourse DEF Arrived
  <2>2. Spent(req'[r].token)
    BY <1>1, <2>1, CookiesSpent DEF Spent
  <2>3. req'[r].token \in Tokens \union {None}
    BY DEF SessionInv, TypeInv, TypeOK, Request
  <2>4. Spent(req[r].token)'
    BY <1>3, <2>2, <2>3 DEF Spent
  <2>. QED
    BY <1>4, <2>1, <2>4 DEF Served
<1>6. CASE Serve(r) \/ ReadForm(r)
  <2>1. Course(r) /\ Prepared(r) /\ Served(r)
    BY <1>6, ServeCourse DEF SessionInv, TypeInv
  <2>2. Spent(req[r].token)'
    BY <1>2, <1>3, <2>1 DEF Course, Served, Spent
  <2>3. answer'[r].status = "ok" => at'[r] = "done"
    BY <2>1 DEF Course, Served, Follows
  <2>4. /\ at'[r] = "forward" => Authenticate(r)
        /\ at'[r] = "show" => Recheck(r)
    BY <1>6, <2>1, StepTaken DEF Course, Follows
  <2>5. at'[r] = "forward" => req[r].handler = "relay"
    BY <1>1, <2>4 DEF Authenticate, Step, Reply, TypeOK
  <2>6. at'[r] = "show" => req[r].handler = "tokenShow"
    <3>1. Recheck(r) => req[r].handler \in ManagementHandlers
      BY <2>1 DEF Recheck, Prepared
    <3>2. Recheck(r) /\ req[r].handler = "newToken" => at'[r] \in {"done", "mapToken"}
      BY <1>1 DEF Recheck, Step, Reply, TypeOK
    <3>3. Recheck(r) /\ req[r].handler = "updateUser" => at'[r] \in {"done", "readForm"}
      BY <1>1 DEF Recheck, Step, Reply, TypeOK
    <3>. QED
      BY <2>4, <3>1, <3>2, <3>3 DEF ManagementHandlers
  <2>. QED
    BY <1>4, <2>1, <2>2, <2>3, <2>5, <2>6 DEF Served, Course
<1>. QED
  BY <1>5, <1>6

\* A step of r rotates only when it saves the record; then the token that r
\* presented is the account's until then, and no account's afterwards.
LEMMA NewRotation ==
  ASSUME SessionInv, SessionInv', NEW r \in Requests, Served(r),
         Arrive(r) \/ Serve(r) \/ ReadForm(r), Rotates(r)', ~Rotates(r)
  PROVE  /\ req'[r] = req[r] /\ req[r].token # None
         /\ id[r] \in Ids /\ CurrentToken(id[r], req[r].token)
         /\ \A i \in Ids : ~CurrentToken(i, req[r].token)'
<1>1. /\ TypeOK /\ Prepared(r) /\ RequestInv(r)
      /\ TypeOK' /\ Prepared(r)' /\ RequestInv(r)'
  BY DEF SessionInv, TypeInv
<1>2. CASE Arrive(r)
  BY <1>1, <1>2, ArrivalCourse DEF Arrived, Served, Rotates
<1>3. CASE Serve(r) \/ ReadForm(r)
  <2>1. Course(r) /\ req'[r].handler = "newToken" /\ req'[r] = req[r]
    BY <1>3, ServeCourse DEF Course, Rotates
  <2>2. at[r] = "saveToken" /\ at'[r] = "dropOld"
    <3>1. CASE at'[r] = "dropOld"
      BY <2>1, <3>1 DEF Course, Follows
    <3>2. CASE at'[r] # "dropOld"
      <4>1. answer'[r].status = "ok" /\ answer[r].status # "ok" /\ at[r] # "dropOld"
        BY <2>1, <3>2 DEF Rotates
      <4>2. MayEnd(r)
        BY <2>1, <4>1 DEF Course
      <4>. QED
        BY <1>1, <2>1, <4>1, <4>2 DEF MayEnd, Served, Prepared, FirstLogin
    <3>. QED
      BY <3>1, <3>2
  <2>3. id[r] \in Ids /\ user[r] \in User
    BY <1>1, <2>2 DEF Prepared, Locked
  <2>4. users[id[r]] = user[r] /\ user[r].token = req[r].token /\ req[r].token # None
    BY <1>1, <2>1, <2>2 DEF RequestInv, HoldsRecord, Locked, FirstLogin
  <2>5. CurrentToken(id[r], req[r].token)
    BY <1>1, <2>3, <2>4 DEF CurrentToken, Readable, TypeOK
  <2>6. user'[r] = user[r]
    <3>1. SaveToken(r)
      BY <1>3, <2>2, StepTaken
    <3>. QED
      BY <1>1, <2>2, <3>1 DEF SaveToken, Continue, Goto, Reply, TypeOK
  <2>7. \A i \in Ids : ~CurrentToken(i, req[r].token)'
    BY <1>1, <2>1, <2>2, <2>4, <2>6 DEF RequestInv, RotationOrder, CurrentToken
  <2>. QED
    BY <2>1, <2>3, <2>4, <2>5, <2>7
<1>. QED
  BY <1>2, <1>3

\* TokenUsedUp and RotatedOnce are kept.
LEMMA RotationStep ==
  ASSUME SessionInv, SessionInv', \A q \in Requests : Served(q) /\ TokenUsedUp(q),
         RotatedOnce, NEW r \in Requests, Arrive(r) \/ Serve(r) \/ ReadForm(r)
  PROVE  (\A q \in Requests : TokenUsedUp(q))' /\ RotatedOnce'
<1>1. Framed(r) /\ StoreStep(r) /\ TypeOK
  BY RequestKeeps, FramedStep DEF Keeps, SessionInv, TypeInv
<1>2. \A q \in Requests \ {r} : Rotates(q)' => Rotates(q) /\ req'[q] = req[q]
  BY <1>1 DEF Framed, Rotates
<1>3. Rotates(r)' /\ Rotates(r) => req'[r] = req[r]
  <2>1. Rotates(r) => at[r] # "idle"
    BY DEF Rotates, Served
  <2>. QED
    BY <2>1, Presented
<1>4. ASSUME NEW q \in Requests, Rotates(q)', Rotates(q)
      PROVE  TokenUsedUp(q)'
  <2>1. /\ req'[q] = req[q] /\ req[q].token # None /\ Spent(req[q].token)
        /\ \A i \in Ids : ~CurrentToken(i, req[q].token)
    BY <1>2, <1>3, <1>4 DEF TokenUsedUp, Served
  <2>2. req[q].token \in Tokens
    BY <1>1, <2>1 DEF TypeOK, Request
  <2>3. \A i \in Ids : ~CurrentToken(i, req[q].token)'
    BY <1>1, <2>1, <2>2, UsedUpStays
  <2>. QED
    BY <2>1, <2>3 DEF TokenUsedUp, CurrentToken
<1>5. Rotates(r)' /\ ~Rotates(r) => TokenUsedUp(r)'
  BY NewRotation DEF TokenUsedUp, CurrentToken
<1>6. \A q \in Requests : TokenUsedUp(q)'
  BY <1>2, <1>4, <1>5 DEF TokenUsedUp
<1>7. ASSUME NEW q \in Requests \ {r}, Rotates(q)', Rotates(r)',
             req'[q].token = req'[r].token
      PROVE  FALSE
  <2>1. Rotates(q) /\ req'[q] = req[q]
    BY <1>2, <1>7
  <2>2. CASE Rotates(r)
    BY <1>3, <1>7, <2>1, <2>2 DEF RotatedOnce
  <2>3. CASE ~Rotates(r)
    BY <1>7, <2>1, <2>3, NewRotation DEF TokenUsedUp
  <2>. QED
    BY <2>2, <2>3
<1>8. ASSUME NEW p \in Requests, NEW q \in Requests, Rotates(p)', Rotates(q)',
             req'[p].token = req'[q].token
      PROVE  p = q
  BY <1>1, <1>2, <1>7, <1>8 DEF RotatedOnce
<1>9. RotatedOnce'
  BY <1>8 DEF RotatedOnce
<1>. QED
  BY <1>6, <1>9

-----------------------------------------------------------------------------
(* Records.                                                                *)

\* What a step of r can make of account i: a handler that holds b.mu writes the
\* record it has with another name, or with a new token.
Rewritten(r, i) ==
  \/ users'[i] \in {users[i], Torn}
  \/ i = r /\ at[r] = "create" /\ users[i] = None /\ users'[i] = NewUser(r)
  \/ users[i] = user[r] /\ user[r] \in User
     /\ users'[i] \in {[user[r] EXCEPT !.name = req[r].name], Rotated(r)}

\* Every step of a request.
LEMMA RecordStep ==
  ASSUME SessionInv, NEW r \in Requests, Arrive(r) \/ Serve(r) \/ ReadForm(r),
         NEW i \in Ids
  PROVE  Rewritten(r, i)
<1>1. TypeOK /\ Prepared(r) /\ RequestInv(r) /\ StoreStep(r)
  BY RequestKeeps DEF SessionInv, TypeInv, Keeps
<1>2. CASE Arrive(r)
  BY <1>1, <1>2, ArrivalCourse DEF Arrived, tables, Rewritten
<1>3. CASE Serve(r) \/ ReadForm(r)
  <2>1. CASE at[r] = "create" /\ i = r
    <3>1. PICK o \in Outcomes(users[r], NewUser(r)) : users' = [users EXCEPT ![r] = o.value]
      BY <1>3, <2>1, StepTaken DEF Create
    <3>2. users'[i] \in {users[i], NewUser(r), Torn} /\ users[i] = None
      BY <1>1, <2>1, <3>1, OutcomeType DEF TypeOK, RequestInv, NewAccount
    <3>. QED
      BY <2>1, <3>2 DEF Rewritten
  <2>2. CASE at[r] \in {"show", "saveName", "saveToken"} /\ i = id[r]
    <3>1. users[i] = user[r] /\ user[r] \in User
      BY <1>1, <2>2 DEF RequestInv, HoldsRecord, Prepared, Locked
    <3>2. PICK u \in {user[r], [user[r] EXCEPT !.name = req[r].name], Rotated(r)} :
            \/ users' = users
            \/ \E o \in Outcomes(users[id[r]], u) : users' = [users EXCEPT ![id[r]] = o.value]
      BY <1>3, <2>2, StepTaken DEF Show, SaveName, SaveToken
    <3>3. users'[i] \in {users[i], u, Torn}
      BY <1>1, <2>2, <3>2, OutcomeType DEF TypeOK
    <3>. QED
      BY <3>1, <3>3 DEF Rewritten
  <2>3. CASE at[r] \in {"readForm", "checkName", "indexName", "mapToken"}
    <3>1. users' = users
      BY <1>3, <2>3, StepTaken DEF ReadForm, CheckName, IndexName, MapToken, tables
    <3>. QED
      BY <3>1 DEF Rewritten
  <2>. QED
    BY <1>1, <2>1, <2>2, <2>3 DEF StoreStep, Rewritten, Locked
<1>. QED
  BY <1>2, <1>3

\* The secret of an account is that of its authenticator for good.
LEMMA SecretStays ==
  ASSUME SessionInv, NEW r \in Requests, Arrive(r) \/ Serve(r) \/ ReadForm(r),
         NEW i \in Ids, NEW s, HasSecret(i, s)
  PROVE  HasSecret(i, s)'
<1>1. Rewritten(r, i) /\ req[r] \in Request
  BY RecordStep DEF SessionInv, TypeInv, TypeOK
<1>2. CASE users'[i] \in {users[i], Torn}
  BY <1>2 DEF HasSecret
<1>3. CASE users[i] = user[r] /\ user[r] \in User
  <2>1. Readable(user[r]) /\ user[r].otp = s /\ s \in Requests
    BY <1>3 DEF HasSecret, Readable
  <2>2. /\ [user[r] EXCEPT !.name = req[r].name] \in User
        /\ [user[r] EXCEPT !.name = req[r].name].otp = s
    BY <1>1, <1>3, <2>1 DEF User, Request
  <2>3. Rotated(r) \in User /\ Rotated(r).otp = s
    BY <1>3, <2>1 DEF User, Rotated
  <2>4. \A u \in User : Readable(u)
    BY DEF Readable
  <2>. QED
    BY <1>1, <1>2, <1>3, <2>1, <2>2, <2>3, <2>4 DEF Rewritten, HasSecret
<1>4. CASE users[i] = None
  BY <1>4 DEF HasSecret, Readable
<1>. QED
  BY <1>1, <1>2, <1>3, <1>4 DEF Rewritten

\* A request that makes an account, or has one, goes on with it.
LEMMA IdKept ==
  ASSUME TypeOK, NEW r \in Requests, Serve(r) \/ ReadForm(r), at'[r] # "done",
         at[r] \in {"load", "newToken", "mapToken", "saveToken", "dropOld", "index",
                    "truncate", "fill"}
  PROVE  id' = id
<1>1. \A a : Reply(r, a) => at'[r] = "done"
  BY DEF Reply, TypeOK
<1>2. CASE at[r] \in {"load", "newToken"}
  BY <1>1, <1>2, StepTaken DEF Load, NewToken
<1>3. CASE at[r] \in {"mapToken", "saveToken"}
  BY <1>1, <1>3, StepTaken DEF MapToken, SaveToken, Continue, Goto
<1>4. CASE at[r] \in {"dropOld", "index"}
  BY <1>1, <1>4, StepTaken DEF DropOld, Index, Goto
<1>5. CASE at[r] \in {"truncate", "fill"}
  BY <1>1, <1>5, StepTaken DEF Truncate, Fill, AfterSave, Goto
<1>. QED
  BY <1>2, <1>3, <1>4, <1>5

\* The steps of a login by which it comes to know an account.
LEMMA SecretLearned ==
  ASSUME SessionInv, NEW r \in Requests, Served(r), SecretShown(r),
         Serve(r) \/ ReadForm(r), req[r].handler = "totplogin"
  PROVE  /\ at'[r] = "load" => Complete(id[r])'
         /\ at'[r] = "create" => snap'[r][req[r].name].otp = req[r].secret
         /\ at[r] = "create" /\ at'[r] = "newToken" => HasSecret(id[r], req[r].secret)'
         /\ at[r] = "load" /\ at'[r] = "send" => HasSecret(id[r], req[r].secret)'
<1>1. TypeOK /\ Prepared(r) /\ Course(r) /\ \A a : Reply(r, a) => at'[r] = "done"
  BY ServeCourse DEF SessionInv, TypeInv, Reply, TypeOK
<1>2. ASSUME at'[r] = "load"
      PROVE  Complete(id[r])'
  <2>1. LoginLookup(r)
    BY <1>1, <1>2, StepTaken DEF Course, Follows, Prepared
  <2>2. /\ userNames[req[r].name] \in Ids /\ req[r].name # None
        /\ id' = [id EXCEPT ![r] = userNames[req[r].name]] /\ users' = users
    BY <1>1, <1>2, <2>1 DEF LoginLookup, Goto, Step, tables, TypeOK
  <2>3. req[r].name \in Names
    BY <1>1, <2>2 DEF TypeOK, Request
  <2>4. Complete(userNames[req[r].name])
    BY <2>2, <2>3 DEF SessionInv, StoreInv, AccountsComplete
  <2>. QED
    BY <1>1, <2>2, <2>4 DEF Complete, TypeOK
<1>3. ASSUME at'[r] = "create"
      PROVE  snap'[r][req[r].name].otp = req[r].secret
  <2>1. LoginPending(r)
    BY <1>1, <1>3, StepTaken DEF Course, Follows, Prepared
  <2>2. PICK ps : /\ ps.entries[req[r].name].otp = req[r].secret
                  /\ KeepSnap(r, ps.entries, "create")
    BY <1>1, <1>3, <2>1 DEF LoginPending, Verified
  <2>. QED
    BY <1>1, <2>2 DEF KeepSnap, TypeOK
<1>4. ASSUME at[r] = "create", at'[r] = "newToken"
      PROVE  HasSecret(id[r], req[r].secret)'
  <2>1. PICK o \in Outcomes(users[r], NewUser(r)) :
          users' = [users EXCEPT ![r] = o.value] /\ id' = [id EXCEPT ![r] = r] /\ o.ok
    BY <1>1, <1>4, StepTaken DEF Create
  <2>2. users'[r] = NewUser(r) /\ id'[r] = r
    BY <1>1, <2>1, OutcomeType DEF TypeOK
  <2>3. /\ NewUser(r) \in User
        /\ NewUser(r).otp = req[r].secret
    BY <1>1, <1>4, NewUserType DEF NewUser, SecretShown, Prepared
  <2>4. req[r].secret \in Requests
    <3>1. req[r].name \in Names /\ snap[r] \in Entries /\ snap[r][req[r].name] # None
      BY <1>1, <1>4 DEF Prepared, Applicant
    <3>2. snap[r][req[r].name] \in Entry
      BY <3>1 DEF Entries
    <3>. QED
      BY <1>4, <3>2 DEF Entry, SecretShown
  <2>5. None \notin User /\ Torn \notin User
    OBVIOUS
  <2>6. req' = req
    BY <1>1 DEF Course
  <2>. QED
    BY <2>2, <2>3, <2>4, <2>5, <2>6 DEF HasSecret, Readable
<1>5. ASSUME at[r] = "load", at'[r] = "send"
      PROVE  HasSecret(id[r], req[r].secret)'
  <2>1. id' = id
    BY <1>1, <1>5, IdKept
  <2>2. users' = users /\ Readable(users[id[r]]) /\ users[id[r]].otp = req[r].secret
    BY <1>1, <1>5, StepTaken DEF Load, Verified, tables
  <2>3. id[r] \in Ids /\ Complete(id[r])
    BY <1>1, <1>5 DEF Prepared, SecretShown
  <2>4. users[id[r]].otp \in Requests
    BY <1>1, <2>2, <2>3, RecordType DEF Complete, Readable, User
  <2>. QED
    BY <1>1, <2>1, <2>2, <2>4 DEF HasSecret, Course
<1>. QED
  BY <1>2, <1>3, <1>4, <1>5

\* SecretShown is kept.
LEMMA SecretStep ==
  ASSUME SessionInv, SessionInv', \A q \in Requests : Served(q) /\ SecretShown(q),
         NEW r \in Requests, Arrive(r) \/ Serve(r) \/ ReadForm(r)
  PROVE  \A q \in Requests : SecretShown(q)'
<1>1. /\ Framed(r) /\ StoreStep(r) /\ TypeOK
      /\ \A q \in Requests : Prepared(q) /\ Served(q) /\ SecretShown(q)
  BY RequestKeeps, FramedStep DEF Keeps, SessionInv, TypeInv
<1>2. ASSUME NEW i \in Ids, NEW s, HasSecret(i, s)
      PROVE  HasSecret(i, s)'
  BY <1>2, SecretStays
<1>3. ASSUME NEW q \in Requests \ {r}
      PROVE  SecretShown(q)'
  <2> SUFFICES ASSUME req[q].handler = "totplogin"
               PROVE  SecretShown(q)'
    <3>1. req'[q] = req[q]
      BY <1>1 DEF Framed
    <3>. QED
      BY <3>1 DEF SecretShown
  <2>1. /\ at'[q] = at[q] /\ req'[q] = req[q] /\ answer'[q] = answer[q]
        /\ id'[q] = id[q] /\ snap'[q] = snap[q]
    BY <1>1 DEF Framed
  <2>2. (at[q] = "load" => Complete(id[q]))'
    <3>1. at[q] = "load" => id[q] \in Ids /\ Complete(id[q])
      BY <1>1 DEF SecretShown, Prepared
    <3>. QED
      BY <1>1, <2>1, <3>1 DEF StoreStep, Complete
  <2>3. (at[q] \in {"newToken", "mapToken", "saveToken", "dropOld", "index", "truncate",
                    "fill", "send"} => HasSecret(id[q], req[q].secret))'
    <3>1. at[q] \in {"newToken", "mapToken", "saveToken", "dropOld", "index", "truncate",
                     "fill", "send"} => id[q] \in Ids /\ HasSecret(id[q], req[q].secret)
      BY <1>1 DEF SecretShown, Prepared, Locked
    <3>. QED
      BY <1>2, <2>1, <3>1 DEF HasSecret
  <2>4. (answer[q].status = "ok" =>
           answer[q].id \in Ids /\ HasSecret(answer[q].id, req[q].secret))'
    BY <1>1, <1>2, <2>1 DEF SecretShown, HasSecret
  <2>5. (at[q] = "create" => snap[q][req[q].name].otp = req[q].secret)'
    BY <1>1, <2>1 DEF SecretShown
  <2>. QED
    BY <2>2, <2>3, <2>4, <2>5 DEF SecretShown
<1>. SUFFICES SecretShown(r)'
  BY <1>3
<1>4. CASE Arrive(r)
  <2>1. /\ at[r] = "idle" /\ answer'[r] = answer[r]
        /\ at'[r] \in {"authenticate", "loginLookup", "signupLookup", "lookupForeign", "create"}
        /\ at'[r] = "create" => req'[r].handler = "develop"
    BY <1>1, <1>4, ArrivalCourse DEF Arrived
  <2>2. answer[r].status # "ok"
    BY <1>1, <2>1 DEF Served
  <2>. QED
    BY <2>1, <2>2 DEF SecretShown
<1>5. CASE (Serve(r) \/ ReadForm(r)) /\ req[r].handler = "totplogin"
  <2>1. Course(r) /\ req' = req
    BY <1>5, ServeCourse DEF Course
  <2>2. /\ at'[r] = "load" => Complete(id[r])'
        /\ at'[r] = "create" => snap'[r][req[r].name].otp = req[r].secret
        /\ at[r] = "create" /\ at'[r] = "newToken" => HasSecret(id[r], req[r].secret)'
        /\ at[r] = "load" /\ at'[r] = "send" => HasSecret(id[r], req[r].secret)'
    BY <1>1, <1>5, SecretLearned
  <2>3. ASSUME at'[r] \in {"newToken", "mapToken", "saveToken", "dropOld", "index",
                           "truncate", "fill", "send"}
        PROVE  HasSecret(id[r], req[r].secret)'
    <3>1. CASE at[r] \in {"create", "load"}
      BY <2>1, <2>2, <2>3, <3>1 DEF Course, Follows
    <3>2. CASE at[r] \notin {"create", "load"}
      <4>1. at[r] \in {"newToken", "mapToken", "saveToken", "dropOld", "index",
                       "truncate", "fill"}
        BY <1>1, <1>5, <2>1, <2>3, <3>2 DEF Course, Follows, Prepared, ManagementHandlers
      <4>2. id' = id /\ id[r] \in Ids
        BY <1>1, <1>5, <2>3, <4>1, IdKept DEF Prepared, Locked
      <4>3. HasSecret(id[r], req[r].secret)
        BY <1>1, <1>5, <4>1 DEF SecretShown
      <4>. QED
        BY <1>2, <2>1, <4>2, <4>3 DEF HasSecret
    <3>. QED
      BY <3>1, <3>2
  <2>4. ASSUME answer'[r].status = "ok"
        PROVE  answer'[r].id \in Ids /\ HasSecret(answer[r].id, req[r].secret)'
    <3>1. at[r] # "done" /\ answer'[r] # answer[r]
      BY <1>1, <2>1, <2>4 DEF Course, Served, Follows
    <3>2. MayEnd(r)
      BY <2>1, <2>4, <3>1 DEF Course
    <3>3. at[r] = "send" /\ answer'[r].id = id[r]
      BY <1>1, <1>5, <3>2 DEF MayEnd, Served, Prepared, Locked
    <3>4. id[r] \in Ids /\ HasSecret(id[r], req[r].secret)
      BY <1>1, <1>5, <3>3 DEF Prepared, SecretShown
    <3>. QED
      BY <1>2, <2>1, <3>3, <3>4 DEF HasSecret
  <2>5. (at[r] = "create" => snap[r][req[r].name].otp = req[r].secret)'
    BY <2>1, <2>2
  <2>. QED
    BY <2>2, <2>3, <2>4, <2>5 DEF SecretShown
<1>6. CASE (Serve(r) \/ ReadForm(r)) /\ req[r].handler # "totplogin"
  BY <1>6, ServeCourse DEF Course, SecretShown
<1>. QED
  BY <1>4, <1>5, <1>6

-----------------------------------------------------------------------------
(* Approvals.                                                              *)

\* What a step of r does to the file of the signups and to its copy of it.
FileStep(r) ==
  /\ approvals' = approvals
  /\ pending' \in {pending, Empty, Garbled} \/ (at[r] = "fill" /\ pending' = Written(r))
  /\ snap'[r] \in {None, snap[r], Parsed, NoEntries}

\* A reply forgets the copy; the other steps keep it.
LEMMA ReplySnap ==
  ASSUME TypeOK, NEW r \in Requests, NEW a, Reply(r, a)
  PROVE  snap'[r] = None
BY DEF Reply, TypeOK

\* The handlers of accounts, and the lookups.
LEMMA QuietFileStep ==
  ASSUME TypeOK, NEW r \in Requests,
         \/ Arrive(r) \/ Authenticate(r) \/ Forward(r) \/ Recheck(r) \/ ReadForm(r)
         \/ CheckName(r) \/ SaveName(r) \/ IndexName(r) \/ Show(r) \/ MapToken(r)
         \/ SaveToken(r) \/ DropOld(r) \/ LoginLookup(r) \/ SignupLookup(r)
         \/ LookupForeign(r) \/ Load(r) \/ Send(r) \/ Create(r) \/ NewToken(r)
         \/ Index(r) \/ Remap(r)
  PROVE  UNCHANGED file /\ snap'[r] \in {None, snap[r]}
<1> SUFFICES UNCHANGED file /\ (snap' = snap \/ \E a : Reply(r, a))
  BY ReplySnap
<1>1. CASE Arrive(r)
  BY <1>1, ArrivalCourse DEF Arrived, locals
<1>2. CASE Authenticate(r) \/ Forward(r) \/ Recheck(r) \/ ReadForm(r) \/ CheckName(r)
  BY <1>2 DEF Authenticate, Forward, Recheck, ReadForm, CheckName, Goto
<1>3. CASE SaveName(r) \/ IndexName(r) \/ Show(r)
  BY <1>3 DEF SaveName, IndexName, Show
<1>4. CASE MapToken(r) \/ SaveToken(r) \/ DropOld(r)
  BY <1>4 DEF MapToken, SaveToken, DropOld, Continue, Goto
<1>5. CASE LoginLookup(r) \/ SignupLookup(r) \/ LookupForeign(r) \/ Load(r) \/ Send(r)
  BY <1>5 DEF LoginLookup, SignupLookup, LookupForeign, Load, Send, Goto
<1>6. CASE Create(r) \/ NewToken(r) \/ Index(r) \/ Remap(r)
  BY <1>6 DEF Create, NewToken, Index, Remap, Goto
<1>. QED
  BY <1>1, <1>2, <1>3, <1>4, <1>5, <1>6

\* Every step of a request.
LEMMA EveryFileStep ==
  ASSUME TypeOK, NEW r \in Requests, Arrive(r) \/ Serve(r) \/ ReadForm(r)
  PROVE  FileStep(r)
<1>1. CASE LoginPending(r) \/ SignupPending(r)
  <2>1. PICK ps \in Loaded : (\E a : Reply(r, a)) \/ \E s : KeepSnap(r, ps.entries, s)
    BY <1>1 DEF LoginPending, SignupPending
  <2>2. ps.entries \in {Parsed, NoEntries}
    BY DEF Loaded
  <2>3. snap'[r] \in {None, Parsed, NoEntries}
    BY <2>1, <2>2, ReplySnap DEF KeepSnap, TypeOK
  <2>4. UNCHANGED file
    BY <1>1 DEF LoginPending, SignupPending
  <2>. QED
    BY <2>3, <2>4 DEF FileStep, file
<1>2. ASSUME NEW ok, AfterSave(r, ok)
      PROVE  snap'[r] \in {None, snap[r]}
  BY <1>2, ReplySnap DEF AfterSave, Goto
<1>3. CASE Truncate(r)
  BY <1>2, <1>3 DEF Truncate, FileStep, Goto
<1>4. CASE Fill(r)
  BY <1>2, <1>4 DEF Fill, FileStep
<1>5. CASE UNCHANGED file /\ snap'[r] \in {None, snap[r]}
  BY <1>5 DEF FileStep, file
<1>. QED
  BY <1>1, <1>3, <1>4, <1>5, QuietFileStep DEF Serve

\* A login makes an account only of an entry that it found approved.
LEMMA PromotesApproved ==
  ASSUME SessionInv, NEW r \in Requests, Serve(r) \/ ReadForm(r),
         req[r].handler = "totplogin", at'[r] = "create"
  PROVE  snap'[r][req[r].name].approved
<1>1. TypeOK /\ Prepared(r) /\ Course(r) /\ \A a : Reply(r, a) => at'[r] = "done"
  BY ServeCourse DEF SessionInv, TypeInv, Reply, TypeOK
<1>2. LoginPending(r)
  BY <1>1, StepTaken DEF Course, Follows, Prepared
<1>3. PICK ps : ps.entries[req[r].name].approved /\ KeepSnap(r, ps.entries, "create")
  BY <1>1, <1>2 DEF LoginPending, Approved
<1>. QED
  BY <1>1, <1>3 DEF KeepSnap, TypeOK

\* What is proved of approvals.
ApprovalInv ==
  /\ \A r \in Requests : Promotable(r)
  /\ pending \in Entries => ApprovedByOperator(pending)
  /\ PromotionNeedsApproval

\* ApprovalInv is kept.
LEMMA ApprovalStep ==
  ASSUME SessionInv, SessionInv', ApprovalInv, NEW r \in Requests,
         Arrive(r) \/ Serve(r) \/ ReadForm(r)
  PROVE  ApprovalInv'
<1>1. /\ TypeOK /\ Prepared(r) /\ RequestInv(r) /\ Framed(r) /\ FileStep(r)
      /\ approvals' = approvals /\ {Empty, Garbled} \intersect Entries = {}
  BY FramedStep, EveryFileStep DEF SessionInv, TypeInv, FileStep
<1>2. /\ ApprovedByOperator(Parsed) /\ ApprovedByOperator(NoEntries)
      /\ snap[r] # None => ApprovedByOperator(snap[r])
  BY <1>1 DEF ApprovalInv, Promotable, Parsed, NoEntries, ApprovedByOperator, TypeOK
<1>3. at[r] = "fill" => ApprovedByOperator(Written(r))
  <2> SUFFICES ASSUME at[r] = "fill", NEW n \in Names, Written(r)[n] # None,
                      Written(r)[n].approved
               PROVE  Written(r)[n].otp \in approvals
    BY DEF ApprovedByOperator
  <2>1. snap[r] \in Entries /\ snap[r] # None
    BY <1>1 DEF Prepared, Entries
  <2>2. n # req[r].name
    BY <2>1 DEF Written, Entries
  <2>. QED
    BY <1>2, <2>1, <2>2 DEF Written, Entries, ApprovedByOperator
<1>4. (pending \in Entries => ApprovedByOperator(pending))'
  <2>1. pending' \in Entries => ApprovedByOperator(pending')
    BY <1>1, <1>3 DEF FileStep, ApprovalInv
  <2>. QED
    BY <1>1, <2>1 DEF ApprovedByOperator
<1>5. ASSUME NEW q \in Requests
      PROVE  Promotable(q)'
  <2>1. CASE q # r
    BY <1>1, <2>1 DEF Framed, ApprovalInv, Promotable, ApprovedByOperator
  <2>2. (snap[r] # None => ApprovedByOperator(snap[r]))'
    <3>1. snap'[r] # None => ApprovedByOperator(snap'[r])
      BY <1>1, <1>2 DEF FileStep
    <3>. QED
      BY <1>1, <3>1 DEF ApprovedByOperator
  <2>3. (at[r] = "create" /\ req[r].handler = "totplogin" =>
           snap[r][req[r].name].approved)'
    <3>1. CASE Arrive(r)
      BY <1>1, <3>1, ArrivalCourse DEF Arrived
    <3>2. CASE Serve(r) \/ ReadForm(r)
      BY <3>2, ServeCourse, PromotesApproved DEF Course
    <3>. QED
      BY <3>1, <3>2
  <2>. QED
    BY <2>1, <2>2, <2>3 DEF Promotable
<1>6. PromotionNeedsApproval'
  <2> SUFFICES ASSUME NEW i \in Ids \ Settled, Readable(users'[i]),
                      req'[i].handler = "totplogin"
               PROVE  users'[i].otp \in approvals
    BY <1>1 DEF PromotionNeedsApproval
  <2>1. Rewritten(r, i) /\ approvals \subseteq Requests
    BY <1>1, RecordStep DEF TypeOK
  <2>2. CASE users[i] = None
    <3>1. i = r /\ at[r] = "create" /\ users'[i] = NewUser(r)
      <4>1. users'[i] # None /\ users'[i] # Torn /\ None \notin User
        BY DEF Readable
      <4>. QED
        BY <2>1, <2>2, <4>1 DEF Rewritten
    <3>2. req' = req
      <4>1. ~Arrive(r)
        BY <1>1, <2>2, <3>1, ArrivalCourse DEF Arrived
      <4>. QED
        BY <4>1, ServeCourse DEF Course
    <3>3. /\ snap[r] \in Entries /\ req[r].name \in Names
          /\ snap[r][req[r].name] # None /\ snap[r][req[r].name].approved
      BY <1>1, <3>1, <3>2 DEF Prepared, Applicant, ApprovalInv, Promotable
    <3>4. snap[r] # None
      BY <3>3 DEF Entries
    <3>. QED
      BY <1>2, <3>1, <3>2, <3>3, <3>4 DEF ApprovedByOperator, NewUser
  <2>3. CASE users[i] # None
    <3>1. req'[i] = req[i]
      <4>1. at[i] # "idle"
        BY <2>3 DEF SessionInv, RequestInv, NewAccount
      <4>. QED
        BY <4>1, Presented
    <3>2. Readable(users[i])
      <4>1. Torn \notin User /\ None # Torn /\ users'[i] # Torn
        BY DEF Readable
      <4>2. users[i] # Torn
        BY <2>1, <4>1 DEF Rewritten
      <4>. QED
        BY <2>3, <4>2 DEF Readable
    <3>3. users[i].otp \in approvals
      BY <3>1, <3>2 DEF ApprovalInv, PromotionNeedsApproval
    <3>4. HasSecret(i, users[i].otp)
      BY <2>1, <3>2, <3>3 DEF HasSecret
    <3>5. PICK s : s = users[i].otp
      OBVIOUS
    <3>6. HasSecret(i, s)'
      BY <3>4, <3>5, SecretStays
    <3>. QED
      BY <3>3, <3>5, <3>6 DEF HasSecret, Readable
  <2>. QED
    BY <2>2, <2>3
<1>. QED
  BY <1>4, <1>5, <1>6 DEF ApprovalInv

-----------------------------------------------------------------------------
(* AccountInv.                                                             *)

\* A crash forgets what requests were doing, and answers none of them.
LEMMA CrashAccount ==
  ASSUME AccountInv, SessionInv', Crash
  PROVE  AccountInv'
<1>1. /\ UNCHANGED <<users, pending, approvals, req>> /\ TypeOK
      /\ \A r \in Requests : Served(r) /\ TokenUsedUp(r) /\ SecretShown(r)
      /\ RotatedOnce /\ PromotionNeedsApproval
      /\ pending \in Entries => ApprovedByOperator(pending)
  BY DEF Crash, tables, file, AccountInv, SessionInv, TypeInv
<1>2. \A r \in Requests :
        /\ at'[r] = (IF at[r] = "idle" THEN "idle" ELSE "done") /\ snap'[r] = None
        /\ answer'[r].status = "ok" => answer'[r] = answer[r] /\ at'[r] = "done"
  BY <1>1 DEF Crash, Status, Served
<1>3. \A r \in Requests : Rotates(r)' => Rotates(r)
  BY <1>1, <1>2 DEF Rotates
<1>4. ASSUME NEW r \in Requests
      PROVE  (Served(r) /\ TokenUsedUp(r) /\ SecretShown(r) /\ Promotable(r))'
  <2>1. Served(r)'
    <3>1. Spent(req[r].token) /\ req[r].token \in Tokens \union {None}
      BY <1>1 DEF Served, TypeOK, Request
    <3>2. Spent(req[r].token)'
      BY <1>1, <1>2, <3>1 DEF Spent, PastSave
    <3>. QED
      BY <1>2, <3>2 DEF Served
  <2>2. TokenUsedUp(r)'
    BY <1>1, <1>3 DEF TokenUsedUp, CurrentToken
  <2>3. SecretShown(r)'
    BY <1>1, <1>2 DEF SecretShown, HasSecret
  <2>4. Promotable(r)'
    BY <1>2 DEF Promotable
  <2>. QED
    BY <2>1, <2>2, <2>3, <2>4
<1>5. RotatedOnce' /\ PromotionNeedsApproval'
  BY <1>1, <1>3 DEF RotatedOnce, PromotionNeedsApproval
<1>6. (pending \in Entries => ApprovedByOperator(pending))'
  BY <1>1 DEF ApprovedByOperator
<1>. QED
  BY <1>4, <1>5, <1>6 DEF AccountInv

\* The operator's step, and steps that change nothing.
LEMMA OperatorAccount ==
  ASSUME AccountInv, SessionInv',
         (\E n \in Names : Approve(n)) \/ UNCHANGED vars
  PROVE  AccountInv'
<1>1. /\ UNCHANGED <<users, at, req, id, user, snap, answer>>
      /\ approvals \subseteq approvals' /\ TypeOK
  BY DEF Approve, vars, tables, locals, AccountInv, SessionInv, TypeInv
<1>2. \A r \in Requests : (Served(r) /\ TokenUsedUp(r) /\ SecretShown(r))'
  <2> SUFFICES ASSUME NEW r \in Requests
               PROVE  (Served(r) /\ TokenUsedUp(r) /\ SecretShown(r))'
    OBVIOUS
  <2>1. Served(r)'
    BY <1>1 DEF AccountInv, Served, Spent
  <2>2. TokenUsedUp(r)'
    BY <1>1 DEF AccountInv, TokenUsedUp, Rotates, CurrentToken
  <2>3. SecretShown(r)'
    <3>1. SecretShown(r)
      BY DEF AccountInv
    <3>. QED
      BY <1>1, <3>1 DEF SecretShown, HasSecret, Complete
  <2>. QED
    BY <2>1, <2>2, <2>3
<1>3. \A r \in Requests : Promotable(r)'
  BY <1>1 DEF AccountInv, Promotable, ApprovedByOperator
<1>4. RotatedOnce' /\ PromotionNeedsApproval'
  <2>1. RotatedOnce /\ PromotionNeedsApproval
    BY DEF AccountInv
  <2>2. \A i \in Ids \ Settled :
          Readable(users'[i]) /\ req'[i].handler = "totplogin" => users'[i].otp \in approvals'
    BY <1>1, <2>1 DEF PromotionNeedsApproval
  <2>. QED
    BY <1>1, <2>1, <2>2 DEF RotatedOnce, Rotates, PromotionNeedsApproval
<1>5. (pending \in Entries => ApprovedByOperator(pending))'
  <2>1. CASE \E n \in Names : Approve(n)
    <3>1. PICK n \in Names : Approve(n)
      BY <2>1
    <3>2. /\ pending \in Entries /\ pending[n] \in Entry
          /\ pending' = [pending EXCEPT ![n].approved = TRUE]
          /\ approvals' = approvals \union {pending[n].otp}
      BY <3>1 DEF Approve, Entries
    <3>3. pending'[n].otp \in approvals'
      BY <3>2 DEF Entries, Entry
    <3>4. \A m \in Names \ {n} : pending'[m] = pending[m]
      BY <3>2 DEF Entries
    <3>. QED
      BY <1>1, <3>2, <3>3, <3>4 DEF AccountInv, ApprovedByOperator
  <2>2. CASE UNCHANGED vars
    BY <2>2 DEF vars, AccountInv, ApprovedByOperator
  <2>. QED
    BY <2>1, <2>2
<1>. QED
  BY <1>2, <1>3, <1>4, <1>5 DEF AccountInv

\* AccountInv is inductive.
LEMMA AccountStep ==
  ASSUME AccountInv, [Next]_vars
  PROVE  AccountInv'
<1>1. SessionInv /\ SessionInv'
  BY SessionStep DEF AccountInv
<1>2. ASSUME NEW r \in Requests, Arrive(r) \/ Serve(r) \/ ReadForm(r)
      PROVE  AccountInv'
  <2>1. /\ \A q \in Requests : Served(q) /\ TokenUsedUp(q) /\ SecretShown(q)
        /\ RotatedOnce /\ ApprovalInv
    BY DEF AccountInv, ApprovalInv
  <2>2. \A q \in Requests : Served(q)'
    BY <1>1, <1>2, <2>1, ServedStep
  <2>3. (\A q \in Requests : TokenUsedUp(q))' /\ RotatedOnce'
    BY <1>1, <1>2, <2>1, RotationStep
  <2>4. \A q \in Requests : SecretShown(q)'
    BY <1>1, <1>2, <2>1, SecretStep
  <2>5. ApprovalInv'
    BY <1>1, <1>2, <2>1, ApprovalStep
  <2>. QED
    BY <1>1, <2>2, <2>3, <2>4, <2>5 DEF AccountInv, ApprovalInv
<1>3. CASE Crash
  BY <1>1, <1>3, CrashAccount
<1>4. CASE (\E n \in Names : Approve(n)) \/ Rest \/ UNCHANGED vars
  BY <1>1, <1>4, OperatorAccount DEF Rest
<1>. QED
  BY <1>2, <1>3, <1>4 DEF Next

\* No request has shown anything at start.
LEMMA InitAccount ==
  ASSUME Init
  PROVE  AccountInv
<1>1. /\ SessionInv /\ approvals = {} /\ pending = NoEntries
      /\ \A r \in Requests :
           /\ at[r] \in {"idle", "done"} /\ req[r] = Blank /\ snap[r] = None
           /\ answer[r] = Status("none")
  BY InitSession DEF Init
<1>2. /\ Blank.token = None /\ Blank.handler \notin {"totplogin", "newToken"}
      /\ Status("none").status # "ok"
  BY DEF Blank, Status, AllHandlers, ManagementHandlers
<1>3. \A r \in Requests : Served(r) /\ ~Rotates(r) /\ SecretShown(r) /\ Promotable(r)
  BY <1>1, <1>2 DEF Served, Rotates, SecretShown, Promotable, Spent
<1>4. pending \in Entries => ApprovedByOperator(pending)
  BY <1>1 DEF NoEntries, ApprovedByOperator
<1>5. PromotionNeedsApproval
  BY <1>1, <1>2 DEF PromotionNeedsApproval
<1>. QED
  BY <1>1, <1>3, <1>4, <1>5 DEF AccountInv, TokenUsedUp, RotatedOnce

\* What requests have shown for themselves, at every step of every handler.
THEOREM AccountInvariant == Spec => []AccountInv
<1>1. Init => AccountInv
  BY InitAccount
<1>2. AccountInv /\ [Next]_vars => AccountInv'
  BY AccountStep
<1>. QED
  BY <1>1, <1>2, PTL DEF Spec

\* totploginHandler, setupTOTPUser: whoever is logged in with a code has the secret of
\* the account whose token it is given, also when the account was made meanwhile.
THEOREM LoginsProveSecret == Spec => []LoginProvesSecret
<1>1. AccountInv => LoginProvesSecret
  BY DEF AccountInv, SecretShown, HasSecret, LoginProvesSecret, Succeeded
<1>. QED
  BY <1>1, AccountInvariant, PTL

\* newTokenHandler: however many requests present one token, one of them at most is
\* answered with a new one, because that takes the old one out of use.
THEOREM RotatesOnce == Spec => []OneRotationPerToken
<1>1. AccountInv => OneRotationPerToken
  BY DEF AccountInv, RotatedOnce, Rotates, OneRotationPerToken, Succeeded
<1>. QED
  BY <1>1, AccountInvariant, PTL

\* setupTOTPUser: every account that was made of a signup is made of one that the
\* operator approved, whatever became of the file of the signups.
THEOREM PromotionsApproved == Spec => []PromotionNeedsApproval
<1>1. AccountInv => PromotionNeedsApproval
  BY DEF AccountInv
<1>. QED
  BY <1>1, AccountInvariant, PTL

\* newTokenHandler, rotateUserTokenLocked: the answer of a rotation has the token that is
\* current then, and the record has kept all else; also while writes fail and the
\* process restarts.
THEOREM RotationsComplete == Spec => RotationComplete
<1> DEFINE Current == \A r \in Requests :
                        Succeeded(r, "newToken")' /\ ~Succeeded(r, "newToken") =>
                          Authenticates(answer[r].token)'
           Kept == \A i \in Ids :
                     Readable(users[i]) /\ Readable(users'[i])
                     /\ users[i].token \notin {None, users'[i].token} =>
                       users'[i] = [users[i] EXCEPT !.token = users'[i].token]
<1>1. AccountInv /\ AccountInv' /\ [Next]_vars => [Current]_vars
  <2> SUFFICES ASSUME AccountInv, AccountInv', [Next]_vars, NEW r \in Requests,
                      Succeeded(r, "newToken")', ~Succeeded(r, "newToken")
               PROVE  Authenticates(answer[r].token)'
    OBVIOUS
  <2>1. ASSUME NEW q \in Requests, Arrive(q) \/ Serve(q) \/ ReadForm(q)
        PROVE  Authenticates(answer[r].token)'
    <3>1. Framed(q) /\ TypeOK /\ Prepared(r) /\ Served(r) /\ Served(r)' /\ RotationOrder(r)
      BY <2>1, FramedStep DEF AccountInv, SessionInv, TypeInv, RequestInv
    <3>2. q = r
      BY <3>1 DEF Framed, Succeeded
    <3>3. ~Arrive(r)
      BY <3>1, ArrivalCourse DEF Arrived, Succeeded, Served
    <3>4. Course(r) /\ (Serve(r) \/ ReadForm(r)) /\ at'[r] = "done"
      BY <2>1, <3>1, <3>2, <3>3, ServeCourse DEF AccountInv, Succeeded, Served
    <3>5. answer'[r] # answer[r] /\ req[r].handler = "newToken" /\ MayEnd(r)
      BY <3>4 DEF Course, Succeeded, Follows
    <3>6. at[r] = "dropOld"
      BY <3>1, <3>5 DEF MayEnd, Served, Prepared, FirstLogin, Locked
    <3>7. DropOld(r)
      BY <3>4, <3>6, StepTaken
    <3>8. answer'[r].token = r
      <4>1. Reply(r, NewTokenPage(r)) /\ NewTokenPage(r).token = r
        BY <3>5, <3>7 DEF DropOld, NewTokenPage, Status
      <4>. QED
        BY <3>1, <4>1 DEF Reply, TypeOK
    <3>9. sessionTokens'[r] = sessionTokens[r] /\ users' = users
      <4>1. user[r].token # r
        BY <3>1, <3>6 DEF RotationOrder
      <4>. QED
        BY <3>1, <3>7, <4>1 DEF DropOld, OldToken, TypeOK
    <3>10. /\ id[r] \in Ids /\ user[r] \in User /\ users[id[r]] = Rotated(r)
           /\ sessionTokens[r] = id[r]
      BY <3>1, <3>6 DEF RotationOrder, Prepared, Locked
    <3>11. Rotated(r) \in User /\ Rotated(r).token = r
      BY <3>10 DEF Rotated, User
    <3>12. None \notin User /\ Torn \notin User /\ r # None
      OBVIOUS
    <3>. QED
      BY <3>8, <3>9, <3>10, <3>11, <3>12 DEF Authenticates, Readable
  <2>2. CASE UNCHANGED <<answer, req>>
    BY <2>2 DEF Succeeded
  <2>3. CASE Crash
    BY <2>3 DEF Crash, Succeeded, Status
  <2>. QED
    BY <2>1, <2>2, <2>3 DEF Next, Approve, Rest, vars
<1>2. AccountInv /\ AccountInv' /\ [Next]_vars => [Kept]_vars
  <2> SUFFICES ASSUME AccountInv, [Next]_vars, NEW i \in Ids,
                      Readable(users[i]), Readable(users'[i]),
                      users[i].token \notin {None, users'[i].token}
               PROVE  users'[i] = [users[i] EXCEPT !.token = users'[i].token]
    OBVIOUS
  <2>1. PICK r \in Requests : Arrive(r) \/ Serve(r) \/ ReadForm(r)
    BY RequestsChangeTables DEF tables
  <2>2. Rewritten(r, i) /\ Complete(i) /\ req[r] \in Request
    BY <2>1, RecordStep
       DEF AccountInv, SessionInv, TypeInv, TypeOK, StoreInv, AccountsComplete
  <2>3. users[i].otp # None
    BY <2>2 DEF Complete, Readable
  <2>4. users[i] = user[r] /\ user[r] \in User
        /\ users'[i] \in {[user[r] EXCEPT !.name = req[r].name], Rotated(r)}
    BY <2>2 DEF Rewritten, Readable
  <2>5. users'[i] # [user[r] EXCEPT !.name = req[r].name]
    BY <2>4 DEF User
  <2>. QED
    BY <2>3, <2>4, <2>5 DEF Rotated, User
<1>. QED
  BY <1>1, <1>2, AccountInvariant, PTL
     DEF Spec, RotationComplete, RotationReplyIsCurrent, RotationKeepsEnrollment

-----------------------------------------------------------------------------
(* Exact mappings.                                                         *)

\* The steps that change neither a record nor a mapping.
LEMMA QuietTables ==
  ASSUME TypeOK, NEW r \in Requests, Arrive(r) \/ Serve(r) \/ ReadForm(r),
         at[r] \notin {"show", "saveName", "mapToken", "saveToken", "dropOld", "create",
                       "remap"}
  PROVE  UNCHANGED <<users, sessionTokens>>
<1>1. CASE Arrive(r)
  BY <1>1, ArrivalCourse DEF Arrived, tables
<1>2. CASE Authenticate(r) \/ Forward(r) \/ Recheck(r) \/ ReadForm(r) \/ CheckName(r)
  BY <1>2 DEF Authenticate, Forward, Recheck, ReadForm, CheckName, tables
<1>3. CASE LoginLookup(r) \/ SignupLookup(r) \/ LookupForeign(r) \/ Load(r) \/ Send(r)
  BY <1>3 DEF LoginLookup, SignupLookup, LookupForeign, Load, Send, tables
<1>4. CASE LoginPending(r) \/ SignupPending(r) \/ Truncate(r) \/ Fill(r)
  BY <1>4 DEF LoginPending, SignupPending, Truncate, Fill, tables
<1>5. CASE IndexName(r) \/ NewToken(r) \/ Index(r)
  BY <1>5 DEF IndexName, NewToken, Index, tables
<1>6. CASE Show(r) \/ SaveName(r) \/ MapToken(r) \/ SaveToken(r) \/ DropOld(r) \/ Create(r)
           \/ Remap(r)
  BY <1>6 DEF Show, SaveName, MapToken, SaveToken, DropOld, Create, Remap
<1>. QED
  BY <1>1, <1>2, <1>3, <1>4, <1>5, <1>6 DEF Serve

\* A write that counts no fault has been made.
LEMMA MadeWrite ==
  ASSUME faults \in Nat, NEW old, NEW new, NEW o \in Outcomes(old, new), Count(o),
         faults' = 0
  PROVE  o.ok /\ o.value = new /\ faults = 0
BY OutcomeType DEF Count

\* Every step counts one fault at most.
LEMMA FaultsCount ==
  ASSUME TypeOK, NEW r \in Requests, Arrive(r) \/ Serve(r) \/ ReadForm(r)
  PROVE  faults' \in {faults, faults + 1}
<1>1. \A o : Count(o) => faults' \in {faults, faults + 1}
  BY Zenon DEF Count
<1>2. CASE Arrive(r)
  BY <1>2 DEF Arrive, ManageRequest, LoginRequest, SignupRequest, CallbackRequest,
              DevelopRequest, Receive
<1>3. CASE Authenticate(r) \/ Forward(r) \/ Recheck(r) \/ ReadForm(r) \/ CheckName(r)
  BY <1>3 DEF Authenticate, Forward, Recheck, ReadForm, CheckName
<1>4. CASE LoginLookup(r) \/ SignupLookup(r) \/ LookupForeign(r) \/ Load(r) \/ Send(r)
  BY <1>4 DEF LoginLookup, SignupLookup, LookupForeign, Load, Send
<1>5. CASE LoginPending(r) \/ SignupPending(r) \/ Truncate(r) \/ Fill(r)
  BY <1>1, <1>5 DEF LoginPending, SignupPending, Truncate, Fill
<1>6. CASE Show(r) \/ SaveName(r) \/ IndexName(r) \/ MapToken(r) \/ SaveToken(r) \/ DropOld(r)
  BY <1>1, <1>6 DEF Show, SaveName, IndexName, MapToken, SaveToken, DropOld
<1>7. CASE Create(r) \/ NewToken(r) \/ Index(r) \/ Remap(r)
  BY <1>1, <1>7 DEF Create, NewToken, Index, Remap
<1>. QED
  BY <1>2, <1>3, <1>4, <1>5, <1>6, <1>7 DEF Serve

\* Where a step leaves the mappings, it leaves them exact if it keeps the tokens that
\* open accounts.
LEMMA MappingsKept ==
  ASSUME SessionInv, ExactInv, NEW r \in Requests, Framed(r), faults = 0,
         at[r] \notin {"saveToken", "dropOld"}, sessionTokens' = sessionTokens,
         \A i \in Ids : Readable(users[i]) =>
           Readable(users'[i]) /\ users'[i].token = users[i].token,
         NEW t \in Tokens
  PROVE  /\ sessionTokens'[t] # Torn
         /\ sessionTokens'[t] \in Ids =>
              Authenticates(t)' \/ \E q \in Requests : Replacing(q, t)'
<1>1. Authenticates(t) => Authenticates(t)'
  BY DEF Authenticates
<1>2. \A q \in Requests : Replacing(q, t) => Replacing(q, t)'
  BY DEF Replacing, Framed
<1>. QED
  BY <1>1, <1>2 DEF ExactInv

\* As long as nothing fails, a request leaves a mapping only to a current token, or to
\* one that it is about to replace or to drop.
LEMMA MappingStep ==
  ASSUME SessionInv, NoRemaps, ExactInv, NEW r \in Requests,
         Arrive(r) \/ Serve(r) \/ ReadForm(r), faults' = 0, NEW t \in Tokens
  PROVE  /\ sessionTokens'[t] # Torn
         /\ sessionTokens'[t] \in Ids =>
              Authenticates(t)' \/ \E q \in Requests : Replacing(q, t)'
<1>1. /\ TypeOK /\ Prepared(r) /\ RequestInv(r) /\ Framed(r)
      /\ \A a : Reply(r, a) => at'[r] = "done"
  BY FramedStep DEF SessionInv, TypeInv, Reply, TypeOK
<1>2. faults = 0
  <2>1. faults' \in {faults, faults + 1}
    BY <1>1, FaultsCount
  <2>. QED
    BY <1>1, <2>1 DEF TypeOK
<1>3. /\ None \notin Ids /\ Torn \notin Ids /\ None # Torn
      /\ None \notin User /\ Torn \notin User
  OBVIOUS
<1>4. /\ sessionTokens[t] # Torn
      /\ sessionTokens[t] \in Ids => Authenticates(t) \/ \E q \in Requests : Replacing(q, t)
  BY <1>2 DEF ExactInv
<1>5. CASE at[r] \notin {"show", "saveName", "mapToken", "saveToken", "dropOld", "create",
                         "remap"}
  BY <1>1, <1>2, <1>5, QuietTables, MappingsKept
<1>6. Arrive(r) => at[r] = "idle"
  BY <1>1, ArrivalCourse DEF Arrived
<1>7. CASE at[r] = "create"
  <2>1. /\ sessionTokens' = sessionTokens /\ users[r] = None
        /\ \E v : users' = [users EXCEPT ![r] = v]
    BY <1>1, <1>6, <1>7, StepTaken DEF Create, RequestInv, NewAccount
  <2>2. \A i \in Ids : Readable(users[i]) =>
          Readable(users'[i]) /\ users'[i].token = users[i].token
    BY <1>1, <2>1 DEF Readable, TypeOK
  <2>. QED
    BY <1>1, <1>2, <1>7, <2>1, <2>2, MappingsKept
<1>8. CASE at[r] \in {"show", "saveName"}
  <2>1. users[id[r]] = user[r] /\ user[r] \in User /\ id[r] \in Ids /\ req[r] \in Request
    BY <1>1, <1>8 DEF RequestInv, HoldsRecord, Prepared, Locked, TypeOK
  <2>2. sessionTokens' = sessionTokens
    BY <1>6, <1>8, StepTaken DEF Show, SaveName
  <2>3. PICK u \in {user[r], [user[r] EXCEPT !.name = req[r].name]} :
          \/ users' = users
          \/ \E o \in Outcomes(users[id[r]], u) :
               users' = [users EXCEPT ![id[r]] = o.value] /\ Count(o)
    BY <1>6, <1>8, StepTaken DEF Show, SaveName
  <2>4. users' = users \/ users' = [users EXCEPT ![id[r]] = u]
    BY <1>1, <2>3, MadeWrite DEF TypeOK
  <2>5. u \in User /\ u.token = user[r].token
    BY <2>1, <2>3 DEF User, Request
  <2>6. \A i \in Ids : Readable(users[i]) =>
          Readable(users'[i]) /\ users'[i].token = users[i].token
    BY <1>1, <1>3, <2>1, <2>4, <2>5 DEF Readable, TypeOK
  <2>. QED
    BY <1>1, <1>2, <1>8, <2>2, <2>6, MappingsKept
<1>9. CASE at[r] = "mapToken"
  <2>1. PICK o \in Outcomes(sessionTokens[r], id[r]) :
          /\ sessionTokens' = [sessionTokens EXCEPT ![r] = o.value] /\ Count(o)
          /\ Continue(r, o, "saveToken") /\ users' = users
    BY <1>6, <1>9, StepTaken DEF MapToken
  <2>2. faults \in Nat /\ id[r] \in Ids
    BY <1>1, <1>9 DEF Prepared, Locked, TypeOK
  <2>3. o.ok /\ o.value = id[r]
    BY <2>1, <2>2, MadeWrite
  <2>4. at'[r] = "saveToken"
    BY <1>1, <2>1, <2>3 DEF Continue, Goto, Step, TypeOK
  <2>5. CASE t = r
    BY <1>1, <1>3, <2>1, <2>2, <2>3, <2>5, <2>4 DEF Replacing, TypeOK
  <2>6. CASE t # r
    <3>1. sessionTokens'[t] = sessionTokens[t]
      BY <1>1, <2>1, <2>6 DEF TypeOK
    <3>2. Authenticates(t) => Authenticates(t)'
      BY <2>1, <3>1 DEF Authenticates
    <3>3. \A q \in Requests : Replacing(q, t) => Replacing(q, t)'
      BY <1>1, <1>9 DEF Replacing, Framed
    <3>. QED
      BY <1>4, <3>1, <3>2, <3>3
  <2>. QED
    BY <2>5, <2>6
<1>10. CASE at[r] = "saveToken"
  <2>1. PICK o \in Outcomes(users[id[r]], Rotated(r)) :
          /\ users' = [users EXCEPT ![id[r]] = o.value] /\ Count(o)
          /\ Continue(r, o, "dropOld") /\ sessionTokens' = sessionTokens
    BY <1>6, <1>10, StepTaken DEF SaveToken
  <2>2. /\ users[id[r]] = user[r] /\ user[r] \in User /\ id[r] \in Ids
        /\ sessionTokens[r] = id[r]
    BY <1>1, <1>10 DEF RequestInv, HoldsRecord, RotationOrder, Prepared, Locked
  <2>3. users' = [users EXCEPT ![id[r]] = Rotated(r)] /\ o.ok
    BY <1>1, <2>1, MadeWrite DEF TypeOK
  <2>4. at'[r] = "dropOld" /\ user' = user
    BY <1>1, <2>1, <2>3 DEF Continue, Goto, Step, TypeOK
  <2>5. Rotated(r) \in User /\ Rotated(r).token = r
    BY <2>2 DEF Rotated, User
  <2>6. CASE t = r
    BY <1>1, <1>3, <2>1, <2>2, <2>3, <2>5, <2>6 DEF Authenticates, Readable, TypeOK
  <2>7. CASE t # r
    <3>1. Authenticates(t) => Authenticates(t)' \/ Replacing(r, t)'
      <4>1. CASE sessionTokens[t] = id[r]
        BY <2>2, <2>4, <4>1 DEF Authenticates, Replacing
      <4>2. CASE sessionTokens[t] # id[r]
        BY <1>1, <2>1, <2>3, <4>2 DEF Authenticates, TypeOK
      <4>. QED
        BY <4>1, <4>2
    <3>2. \A q \in Requests : Replacing(q, t) => Replacing(q, t)'
      BY <1>1, <1>10, <2>7 DEF Replacing, Framed
    <3>. QED
      BY <1>4, <2>1, <3>1, <3>2
  <2>. QED
    BY <2>6, <2>7
<1>11. CASE at[r] = "dropOld"
  <2>1. /\ users' = users
        /\ \/ user[r].token = None /\ sessionTokens' = sessionTokens
           \/ /\ user[r].token # None
              /\ \E o \in Outcomes(sessionTokens[user[r].token], None) :
                   /\ sessionTokens' = [sessionTokens EXCEPT ![user[r].token] = o.value]
                   /\ Count(o)
    BY <1>6, <1>11, StepTaken DEF DropOld, OldToken
  <2>2. \/ user[r].token = None /\ sessionTokens' = sessionTokens
        \/ sessionTokens' = [sessionTokens EXCEPT ![user[r].token] = None]
    BY <1>1, <2>1, MadeWrite DEF TypeOK
  <2>3. CASE t = user[r].token
    BY <1>1, <1>3, <2>2, <2>3 DEF TypeOK
  <2>4. CASE t # user[r].token
    <3>1. sessionTokens'[t] = sessionTokens[t]
      BY <1>1, <2>2, <2>4 DEF TypeOK
    <3>2. Authenticates(t) => Authenticates(t)'
      BY <2>1, <3>1 DEF Authenticates
    <3>3. \A q \in Requests : Replacing(q, t) => Replacing(q, t)'
      BY <1>1, <1>11, <2>4 DEF Replacing, Framed
    <3>. QED
      BY <1>4, <3>1, <3>2, <3>3
  <2>. QED
    BY <2>3, <2>4
<1>12. CASE at[r] = "remap"
  <2>1. req[r].handler \in {"callback", "develop"} \intersect (Handlers \union {None})
    BY <1>1, <1>12 DEF Prepared, ExactInv
  <2>2. None \notin {"callback", "develop"}
    BY DEF AllHandlers
  <2>. QED
    BY <2>1, <2>2 DEF NoRemaps
<1>. QED
  BY <1>5, <1>7, <1>8, <1>9, <1>10, <1>11, <1>12

\* The mappings found at start.
LEMMA FoundMappings ==
  ASSUME Init
  PROVE  /\ \A r \in Requests : req[r].handler = None
         /\ \A t \in Tokens :
              IF t \in Settled
                THEN sessionTokens[t] = t /\ Readable(users[t]) /\ users[t].token = t
                ELSE sessionTokens[t] = None
<1>1. PICK foreign \in [Settled -> Foreigners \union {None}],
           name \in [Settled -> Names \union {None}] : Found(foreign, name)
  BY DEF Init
<1>2. ASSUME NEW t \in Settled
      PROVE  sessionTokens[t] = t /\ Readable(users[t]) /\ users[t].token = t
  <2>1. /\ sessionTokens[t] = t
        /\ users[t] = [token |-> t, otp |-> t, name |-> name[t], foreign |-> foreign[t]]
    BY <1>1 DEF Found
  <2>2. users[t] \in User
    BY <1>1, <2>1 DEF User, AllForeign
  <2>3. None \notin User /\ Torn \notin User
    OBVIOUS
  <2>. QED
    BY <2>1, <2>2, <2>3 DEF Readable
<1>3. \A t \in Tokens \ Settled : sessionTokens[t] = None
  BY <1>1 DEF Found
<1>4. \A r \in Requests : req[r].handler = None
  BY DEF Init, Blank
<1>. QED
  BY <1>2, <1>3, <1>4

\* Clients call handlers that there are.
LEMMA HandlerStep ==
  ASSUME SessionInv, \A q \in Requests : req[q].handler \in Handlers \union {None},
         [Next]_vars
  PROVE  \A q \in Requests : req'[q].handler \in Handlers \union {None}
<1>1. ASSUME NEW r \in Requests, Arrive(r) \/ Serve(r) \/ ReadForm(r), NEW q \in Requests
      PROVE  req'[q].handler \in Handlers \union {None}
  <2>1. Framed(r) /\ TypeOK
    BY <1>1, FramedStep DEF SessionInv, TypeInv
  <2>2. req'[r] = req[r] \/ req'[r].handler \in Handlers
    BY <1>1, <2>1, ArrivalCourse, ServeCourse DEF Arrived, Course
  <2>. QED
    BY <2>1, <2>2 DEF Framed
<1>2. CASE UNCHANGED req
  BY <1>2
<1>. QED
  BY <1>1, <1>2 DEF Next, Approve, Crash, Rest, vars

\* SPEC.md "Token Rotation": without storage failures and restarts, and without the
\* handlers that map a token a second time when b.mu is free again, a cookie is accepted
\* between critical sections if and only if it is the current token of an account.
THEOREM MappingsExact ==
  ASSUME NoRemaps
  PROVE  Spec => [](faults = 0 => ExactMappings)
<1>1. Init => ExactInv
  <2> SUFFICES ASSUME Init
               PROVE  ExactInv
    OBVIOUS
  <2>1. /\ \A r \in Requests : req[r].handler = None
        /\ \A t \in Tokens :
             IF t \in Settled
               THEN sessionTokens[t] = t /\ Readable(users[t]) /\ users[t].token = t
               ELSE sessionTokens[t] = None
    BY FoundMappings
  <2>. QED
    BY <2>1 DEF ExactInv, Authenticates
<1>2. SessionInv /\ ExactInv /\ [Next]_vars => ExactInv'
  <2> SUFFICES ASSUME SessionInv, ExactInv, [Next]_vars
               PROVE  ExactInv'
    OBVIOUS
  <2>1. (\A r \in Requests : req[r].handler \in Handlers \union {None})'
    BY HandlerStep DEF SessionInv, TypeInv, ExactInv
  <2>2. ASSUME faults' = 0, NEW t \in Tokens
        PROVE  /\ sessionTokens'[t] # Torn
               /\ sessionTokens'[t] \in Ids =>
                    Authenticates(t)' \/ \E r \in Requests : Replacing(r, t)'
    <3>1. ASSUME NEW r \in Requests, Arrive(r) \/ Serve(r) \/ ReadForm(r)
          PROVE  /\ sessionTokens'[t] # Torn
                 /\ sessionTokens'[t] \in Ids =>
                      Authenticates(t)' \/ \E q \in Requests : Replacing(q, t)'
      BY <2>2, <3>1, MappingStep
    <3>2. CASE UNCHANGED <<users, sessionTokens, at, user, faults>>
      BY <2>2, <3>2 DEF ExactInv, Authenticates, Replacing
    <3>3. ~Crash
      BY <2>2 DEF Crash, SessionInv, TypeInv, TypeOK
    <3>. QED
      BY <3>1, <3>2, <3>3 DEF Next, Approve, Rest, vars, tables, locals
  <2>. QED
    BY <2>1, <2>2 DEF ExactInv
<1>3. SessionInv /\ ExactInv => (faults = 0 => ExactMappings)
  <2> SUFFICES ASSUME SessionInv, ExactInv, faults = 0
               PROVE  ExactMappings
    OBVIOUS
  <2>1. CurrentTokenAuthenticates
    BY DEF SessionInv, StoreInv, CurrentTokenIsMapped, CurrentToken, ExactInv, Authenticates,
           CurrentTokenAuthenticates
  <2>2. NoObsoleteMapping
    <3> SUFFICES ASSUME mu = None, NEW t \in Tokens, sessionTokens[t] \in Ids
                 PROVE  Authenticates(t)
      BY DEF NoObsoleteMapping
    <3>1. \A r \in Requests : at[r] \notin Locked
      BY DEF SessionInv, RequestInv, Mutex
    <3>. QED
      BY <3>1 DEF ExactInv, Replacing, Locked
  <2>. QED
    BY <2>1, <2>2 DEF ExactMappings
<1>. QED
  BY <1>1, <1>2, <1>3, SessionInvariant, PTL DEF Spec

-----------------------------------------------------------------------------
(* Names.                                                                  *)

\* A request that is received has what it presented.
LEMMA ReceivedName ==
  ASSUME TypeOK, NamesPresented, NEW r \in Requests, NEW q, NEW s, Receive(r, q, s),
         q.handler \in {None, "callback", "develop"} => q.name = None
  PROVE  NamesPresented'
BY DEF Receive, TypeOK, NamesPresented

\* Callbacks come without a name.
LEMMA NamesArrive ==
  ASSUME TypeOK, NamesPresented, NEW r \in Requests, Arrive(r)
  PROVE  NamesPresented'
<1>0. None \notin AllHandlers
  OBVIOUS
<1>1. CASE ManageRequest(r)
  <2>1. PICK h \in ManagementHandlers \union {"relay"}, t \in Cookies \union {None},
             n \in Names \union {None} :
          Receive(r, [Blank EXCEPT !.handler = h, !.token = t, !.name = n], "authenticate")
    BY <1>1 DEF ManageRequest
  <2> DEFINE q == [Blank EXCEPT !.handler = h, !.token = t, !.name = n]
  <2>2. q.handler = h /\ h \notin {None, "callback", "develop"}
    BY <1>0 DEF Blank, ManagementHandlers, AllHandlers
  <2>3. Receive(r, q, "authenticate")
    BY <2>1
  <2>. HIDE DEF q
  <2>. QED
    BY <2>2, <2>3, ReceivedName
<1>2. CASE LoginRequest(r)
  <2>1. PICK n \in Names \union {None}, x \in Authenticators \union {None} :
          Receive(r, [Blank EXCEPT !.handler = "totplogin", !.name = n, !.secret = x],
                  "loginLookup")
    BY <1>2 DEF LoginRequest
  <2> DEFINE q == [Blank EXCEPT !.handler = "totplogin", !.name = n, !.secret = x]
  <2>2. q.handler = "totplogin" /\ "totplogin" \notin {None, "callback", "develop"}
    BY <1>0 DEF Blank, AllHandlers
  <2>3. Receive(r, q, "loginLookup")
    BY <2>1
  <2>. HIDE DEF q
  <2>. QED
    BY <2>2, <2>3, ReceivedName
<1>3. CASE SignupRequest(r)
  <2>1. PICK n \in Names \union {None} :
          Receive(r, [Blank EXCEPT !.handler = "totpsignup", !.name = n], "signupLookup")
    BY <1>3 DEF SignupRequest
  <2> DEFINE q == [Blank EXCEPT !.handler = "totpsignup", !.name = n]
  <2>2. q.handler = "totpsignup" /\ "totpsignup" \notin {None, "callback", "develop"}
    BY <1>0 DEF Blank, AllHandlers
  <2>3. Receive(r, q, "signupLookup")
    BY <2>1
  <2>. HIDE DEF q
  <2>. QED
    BY <2>2, <2>3, ReceivedName
<1>4. CASE CallbackRequest(r)
  <2>1. PICK f \in Foreigners :
          Receive(r, [Blank EXCEPT !.handler = "callback", !.foreign = f], "lookupForeign")
    BY <1>4 DEF CallbackRequest
  <2> DEFINE q == [Blank EXCEPT !.handler = "callback", !.foreign = f]
  <2>2. Receive(r, q, "lookupForeign") /\ q.name = None
    BY <2>1 DEF Blank
  <2>. HIDE DEF q
  <2>. QED
    BY <2>2, ReceivedName
<1>5. CASE DevelopRequest(r)
  <2> DEFINE q == [Blank EXCEPT !.handler = "develop", !.foreign = DevForeign]
  <2>1. Receive(r, q, "create") /\ q.name = None
    BY <1>5 DEF DevelopRequest, Blank
  <2>. HIDE DEF q
  <2>. QED
    BY <2>1, ReceivedName
<1>. QED
  BY <1>1, <1>2, <1>3, <1>4, <1>5 DEF Arrive

\* How an account comes to a name, as long as nothing fails.
LEMMA NameComes ==
  ASSUME SessionInv, NamesPresented, NEW r \in Requests,
         Arrive(r) \/ Serve(r) \/ ReadForm(r), faults' = 0,
         NEW i \in Ids, NEW n \in Names, Named(i, n)'
  PROVE  \/ Named(i, n)
         \/ at[r] = "saveName" /\ i = id[r] /\ n = req[r].name /\ at'[r] = "indexName"
         \/ at[r] = "create" /\ i = r /\ MadeByLogin(r)
<1>1. /\ TypeOK /\ Prepared(r) /\ RequestInv(r)
      /\ None # Torn /\ None \notin User /\ Torn \notin User /\ None \notin Names
  BY DEF SessionInv, TypeInv
<1>2. users'[i] # None /\ users'[i] # Torn /\ users'[i].name = n
  BY DEF Named, Readable
<1>3. CASE at[r] \notin {"show", "saveName", "mapToken", "saveToken", "dropOld", "create",
                         "remap"}
  BY <1>1, <1>3, QuietTables DEF Named
<1>4. Arrive(r) => at[r] = "idle"
  BY <1>1, ArrivalCourse DEF Arrived
<1>5. CASE at[r] \in {"mapToken", "dropOld", "remap"}
  <2>1. users' = users
    BY <1>4, <1>5, StepTaken DEF MapToken, DropOld, Remap
  <2>. QED
    BY <2>1 DEF Named
<1>6. CASE at[r] = "create"
  <2>1. PICK o \in Outcomes(users[r], NewUser(r)) :
          users' = [users EXCEPT ![r] = o.value] /\ Count(o)
    BY <1>4, <1>6, StepTaken DEF Create
  <2>2. users' = [users EXCEPT ![r] = NewUser(r)]
    BY <1>1, <2>1, MadeWrite DEF TypeOK
  <2>3. CASE i # r
    BY <1>1, <2>2, <2>3 DEF Named, TypeOK
  <2>4. CASE i = r
    <3>1. req[r].name = n
      BY <1>1, <1>2, <2>2, <2>4 DEF NewUser, TypeOK
    <3>2. req[r].handler \in FirstLogin
      BY <1>1, <1>6 DEF Prepared, Applicant, FirstLogin
    <3>. QED
      BY <1>1, <1>6, <2>4, <3>1, <3>2 DEF NamesPresented, FirstLogin, MadeByLogin
  <2>. QED
    BY <2>3, <2>4
<1>7. CASE at[r] \in {"show", "saveName", "saveToken"}
  <2>1. users[id[r]] = user[r] /\ user[r] \in User /\ id[r] \in Ids /\ req[r] \in Request
    BY <1>1, <1>7 DEF RequestInv, HoldsRecord, Prepared, Locked, TypeOK
  <2>2. CASE at[r] = "show"
    <3>1. \/ users' = users
          \/ \E o \in Outcomes(users[id[r]], user[r]) :
               users' = [users EXCEPT ![id[r]] = o.value] /\ Count(o)
      BY <1>4, <2>2, StepTaken DEF Show
    <3>2. users' = users
      BY <1>1, <2>1, <3>1, MadeWrite DEF TypeOK
    <3>. QED
      BY <3>2 DEF Named
  <2>3. CASE at[r] = "saveToken"
    <3>1. PICK o \in Outcomes(users[id[r]], Rotated(r)) :
            users' = [users EXCEPT ![id[r]] = o.value] /\ Count(o)
      BY <1>4, <2>3, StepTaken DEF SaveToken
    <3>2. users' = [users EXCEPT ![id[r]] = Rotated(r)]
      BY <1>1, <3>1, MadeWrite DEF TypeOK
    <3>3. Rotated(r).name = user[r].name
      BY <2>1 DEF Rotated, User
    <3>. QED
      BY <1>1, <1>2, <2>1, <3>2, <3>3 DEF Named, Readable, TypeOK
  <2>4. CASE at[r] = "saveName"
    <3> DEFINE u == [user[r] EXCEPT !.name = req[r].name]
    <3>1. PICK o \in Outcomes(users[id[r]], u) :
            /\ users' = [users EXCEPT ![id[r]] = o.value] /\ Count(o)
            /\ o.ok => Step(r, "indexName")
      BY <1>4, <2>4, StepTaken DEF SaveName
    <3>2. u.name = req[r].name
      BY <2>1 DEF User
    <3>. HIDE DEF u
    <3>3. users' = [users EXCEPT ![id[r]] = u] /\ o.ok
      BY <1>1, <3>1, MadeWrite DEF TypeOK
    <3>4. at'[r] = "indexName"
      BY <1>1, <3>1, <3>3 DEF Step, TypeOK
    <3>5. CASE i = id[r]
      BY <1>1, <1>2, <2>1, <2>4, <3>2, <3>3, <3>4, <3>5 DEF TypeOK
    <3>6. CASE i # id[r]
      BY <1>1, <3>3, <3>6 DEF Named, TypeOK
    <3>. QED
      BY <3>5, <3>6
  <2>. QED
    BY <1>7, <2>2, <2>3, <2>4
<1>. QED
  BY <1>3, <1>5, <1>6, <1>7

\* Nothing is removed from the index of names.
LEMMA IndexGrows ==
  ASSUME SessionInv, NEW r \in Requests, Arrive(r) \/ Serve(r) \/ ReadForm(r), faults' = 0,
         NEW n \in Names
  PROVE  /\ userNames[n] # None => userNames'[n] # None
         /\ at[r] = "indexName" /\ req[r].name = n => userNames'[n] # None
<1>1. TypeOK /\ Prepared(r) /\ None \notin Ids
  BY DEF SessionInv, TypeInv
<1>2. ASSUME at[r] \in {"indexName", "index"},
             NEW o \in Outcomes(userNames[req[r].name], id[r]),
             userNames' = [userNames EXCEPT ![req[r].name] = o.value], Count(o)
      PROVE  /\ userNames[n] # None => userNames'[n] # None
             /\ req[r].name = n => userNames'[n] # None
  <2>1. o.value = id[r] /\ id[r] \in Ids
    BY <1>1, <1>2, MadeWrite DEF Prepared, Locked, TypeOK
  <2>. QED
    BY <1>1, <1>2, <2>1 DEF TypeOK
<1>3. CASE IndexName(r)
  BY <1>2, <1>3 DEF IndexName
<1>4. CASE Index(r)
  BY <1>2, <1>4 DEF Index
<1>5. CASE UNCHANGED userNames /\ at[r] # "indexName"
  BY <1>5
<1>6. CASE Arrive(r)
  BY <1>1, <1>5, <1>6, ArrivalCourse DEF Arrived, tables
<1>7. CASE Authenticate(r) \/ Forward(r) \/ Recheck(r) \/ ReadForm(r) \/ CheckName(r)
  BY <1>5, <1>7 DEF Authenticate, Forward, Recheck, ReadForm, CheckName, tables
<1>8. CASE LoginLookup(r) \/ SignupLookup(r) \/ LookupForeign(r) \/ Load(r) \/ Send(r)
  BY <1>5, <1>8 DEF LoginLookup, SignupLookup, LookupForeign, Load, Send, tables
<1>9. CASE LoginPending(r) \/ SignupPending(r) \/ Truncate(r) \/ Fill(r)
  BY <1>5, <1>9 DEF LoginPending, SignupPending, Truncate, Fill, tables
<1>10. CASE Show(r) \/ SaveName(r) \/ MapToken(r) \/ SaveToken(r) \/ DropOld(r)
            \/ Create(r) \/ NewToken(r) \/ Remap(r)
  BY <1>5, <1>10 DEF Show, SaveName, MapToken, SaveToken, DropOld, Create, NewToken, Remap,
                     tables
<1>. QED
  BY <1>3, <1>4, <1>6, <1>7, <1>8, <1>9, <1>10 DEF Serve

\* A name that is claimed stays so.
LEMMA ClaimedStays ==
  ASSUME SessionInv, NEW r \in Requests, Arrive(r) \/ Serve(r) \/ ReadForm(r), faults' = 0,
         NEW n \in Names, Claimed(n)
  PROVE  Claimed(n)'
<1>1. Framed(r)
  BY FramedStep DEF SessionInv
<1>2. CASE userNames[n] # None
  BY <1>2, IndexGrows DEF Claimed
<1>3. CASE \E q \in Requests : at[q] = "indexName" /\ req[q].name = n
  <2>1. PICK q \in Requests : at[q] = "indexName" /\ req[q].name = n
    BY <1>3
  <2>2. CASE q = r
    BY <2>1, <2>2, IndexGrows DEF Claimed
  <2>3. CASE q # r
    BY <1>1, <2>1, <2>3 DEF Framed, Claimed
  <2>. QED
    BY <2>2, <2>3
<1>. QED
  BY <1>2, <1>3 DEF Claimed

\* Who made an account that has a name is settled.
LEMMA MakerStays ==
  ASSUME SessionInv, NEW r \in Requests, Arrive(r) \/ Serve(r) \/ ReadForm(r),
         NEW i \in Ids, at[i] # "idle"
  PROVE  MadeByLogin(i)' <=> MadeByLogin(i)
<1>1. Framed(r) /\ TypeOK
  BY FramedStep DEF SessionInv, TypeInv
<1>2. CASE i = r
  BY <1>1, <1>2, ServeCourse, ArrivalCourse DEF Arrived, Course, MadeByLogin
<1>3. CASE i # r
  BY <1>1, <1>3 DEF Framed, MadeByLogin
<1>. QED
  BY <1>2, <1>3

\* A request that is about to save a name has found it in no account but those that
\* logins made.
LEMMA NameChecked ==
  ASSUME SessionInv, NamesInv, faults = 0, NEW r \in Requests,
         Arrive(r) \/ Serve(r) \/ ReadForm(r), at'[r] = "saveName",
         NEW i \in Ids, Named(i, req[r].name)
  PROVE  MadeByLogin(i)
<1>1. TypeOK /\ Prepared(r) /\ \A q \in Requests : Mutex(q)
  BY DEF SessionInv, TypeInv, RequestInv
<1>2. ~Arrive(r) /\ Course(r)
  BY <1>1, ServeCourse, ArrivalCourse DEF Arrived
<1>3. at[r] = "checkName"
  BY <1>2 DEF Course, Follows
<1>4. CheckName(r)
  BY <1>2, <1>3, StepTaken
<1>5. ~NameTaken(req[r].name)
  BY <1>1, <1>4 DEF CheckName, Reply, TypeOK
<1>6. \A q \in Requests : at[q] # "indexName"
  BY <1>1, <1>3 DEF Mutex, Locked
<1>7. ~Claimed(req[r].name) /\ req[r].name \in Names
  BY <1>1, <1>3, <1>5, <1>6 DEF Claimed, NameTaken, Prepared
<1>. QED
  BY <1>7 DEF NamesInv

\* The step of a request keeps what the invariant says of names.
LEMMA NamesStep ==
  ASSUME SessionInv, NamesInv, NEW r \in Requests, Arrive(r) \/ Serve(r) \/ ReadForm(r),
         faults' = 0
  PROVE  /\ SharedNamesAreLogins'
         /\ \A i \in Ids, n \in Names :
              Named(i, n)' /\ ~MadeByLogin(i)' => Claimed(n)'
         /\ \A q \in Requests, i \in Ids :
              at'[q] = "saveName" /\ Named(i, req[q].name)' => MadeByLogin(i)'
<1>1. /\ TypeOK /\ Prepared(r) /\ Framed(r) /\ \A q \in Requests : RequestInv(q)
      /\ None # Torn /\ None \notin User
  BY FramedStep DEF SessionInv, TypeInv
<1>2. faults = 0
  BY <1>1, FaultsCount DEF TypeOK
<1>3. NamesPresented
  BY DEF NamesInv
<1>4. /\ SharedNamesAreLogins
      /\ \A i \in Ids, n \in Names : Named(i, n) /\ ~MadeByLogin(i) => Claimed(n)
      /\ \A q \in Requests, i \in Ids :
           at[q] = "saveName" /\ Named(i, req[q].name) => MadeByLogin(i)
  BY <1>2 DEF NamesInv
<1> DEFINE Saved(i, n) == at[r] = "saveName" /\ i = id[r] /\ n = req[r].name
                          /\ at'[r] = "indexName"
<1>5. ASSUME NEW i \in Ids, NEW n \in Names, Named(i, n)'
      PROVE  Named(i, n) \/ Saved(i, n) \/ MadeByLogin(i)'
  <2>1. CASE at[r] = "create" /\ i = r /\ MadeByLogin(r)
    <3>1. req' = req
      BY <1>1, <2>1, ServeCourse, ArrivalCourse DEF Course, Arrived
    <3>. QED
      BY <2>1, <3>1 DEF MadeByLogin
  <2>. QED
    BY <1>3, <1>5, <2>1, NameComes
<1>6. ASSUME NEW i \in Ids, NEW n, Named(i, n)
      PROVE  MadeByLogin(i)' <=> MadeByLogin(i)
  <2>1. at[i] # "idle"
    BY <1>1, <1>6 DEF RequestInv, NewAccount, Named, Readable
  <2>. QED
    BY <2>1, MakerStays
<1>7. ASSUME NEW i \in Ids, NEW j \in Ids, NEW n \in Names, Named(i, n)', Named(j, n)',
             i # j
      PROVE  MadeByLogin(i)' \/ MadeByLogin(j)'
  <2>1. CASE Named(i, n) /\ Named(j, n)
    BY <1>4, <1>6, <1>7, <2>1 DEF SharedNamesAreLogins
  <2>2. CASE Named(i, n) /\ Saved(j, n)
    BY <1>4, <1>6, <2>2
  <2>3. CASE Saved(i, n) /\ Named(j, n)
    BY <1>4, <1>6, <2>3
  <2>. QED
    BY <1>5, <1>7, <2>1, <2>2, <2>3
<1>8. ASSUME NEW i \in Ids, NEW n \in Names, Named(i, n)', ~MadeByLogin(i)'
      PROVE  Claimed(n)'
  <2>1. CASE Named(i, n)
    BY <1>4, <1>6, <1>8, <2>1, ClaimedStays
  <2>2. CASE Saved(i, n)
    <3>1. req' = req
      BY <1>1, <2>2, ServeCourse, ArrivalCourse DEF Course, Arrived
    <3>. QED
      BY <2>2, <3>1 DEF Claimed
  <2>. QED
    BY <1>5, <1>8, <2>1, <2>2
<1>9. ASSUME NEW q \in Requests, NEW i \in Ids, at'[q] = "saveName",
             Named(i, req[q].name)'
      PROVE  MadeByLogin(i)'
  <2>1. CASE q = r
    <3>1. req' = req /\ users' = users
      BY <1>1, <2>1, <1>9, ServeCourse, ArrivalCourse, StepTaken
         DEF Course, Arrived, Follows, CheckName, tables
    <3>2. Named(i, req[q].name)
      BY <1>9, <3>1 DEF Named
    <3>. QED
      BY <1>2, <1>6, <1>9, <2>1, <3>2, NameChecked
  <2>2. CASE q # r
    <3>1. at[q] = "saveName" /\ req'[q] = req[q]
      BY <1>1, <1>9, <2>2 DEF Framed
    <3>2. at[r] # "saveName" /\ req[q].name \in Names
      BY <1>1, <2>2, <3>1 DEF RequestInv, Mutex, Locked, SessionInv, TypeInv, Prepared
    <3>3. PICK n \in Names : n = req[q].name
      BY <3>2
    <3>4. Named(i, n)'
      BY <1>9, <3>1, <3>3 DEF Named
    <3>. QED
      BY <1>4, <1>5, <1>6, <3>1, <3>2, <3>3, <3>4
  <2>. QED
    BY <2>1, <2>2
<1>. QED
  BY <1>7, <1>8, <1>9 DEF SharedNamesAreLogins

\* Where nobody signs up the file of the signups stays empty, and a login makes no
\* account.
LEMMA NoPromotionStep ==
  ASSUME NoSignups, SessionInv, NoPromotions, NEW r \in Requests,
         Arrive(r) \/ Serve(r) \/ ReadForm(r)
  PROVE  /\ pending' = NoEntries
         /\ \A q \in Requests : snap'[q] = None
         /\ \A q \in Requests : MadeByLogin(q)' => users'[q] = None
<1>1. /\ TypeOK /\ Prepared(r) /\ RequestInv(r) /\ Framed(r) /\ StoreStep(r)
      /\ None \notin Entries /\ None \notin AllHandlers /\ None \notin User
  BY FramedStep, RequestKeeps DEF SessionInv, TypeInv, Keeps
<1>2. /\ pending = NoEntries /\ snap[r] = None
      /\ req[r].handler # "totpsignup"
  BY DEF NoPromotions, NoSignups, AllHandlers
<1>3. at[r] \notin {"signupPending", "truncate", "fill"}
  BY <1>1, <1>2 DEF Prepared
<1>4. pending' = NoEntries /\ snap'[r] = None
  <2>1. CASE LoginPending(r)
    <3>1. PICK ps \in Loaded :
            \/ \E a : Reply(r, a)
            \/ ps.entries[req[r].name] # None
      BY <2>1 DEF LoginPending
    <3>2. ps.entries = NoEntries
      BY <1>2 DEF Loaded, Parsed
    <3>3. req[r].name \in Names
      BY <1>1, <2>1 DEF Prepared, LoginPending
    <3>4. ps.entries[req[r].name] = None
      BY <3>2, <3>3 DEF NoEntries
    <3>. QED
      BY <1>1, <1>2, <2>1, <3>1, <3>4, ReplySnap DEF LoginPending, file
  <2>2. ~SignupPending(r) /\ ~Truncate(r) /\ ~Fill(r)
    BY <1>3 DEF SignupPending, Truncate, Fill
  <2>. QED
    BY <1>1, <1>2, <2>1, <2>2, QuietFileStep DEF Serve, file
<1>5. ASSUME NEW q \in Requests, users[q] = None, users'[q] # None
      PROVE  at[q] = "create" /\ ~MadeByLogin(q)
  <2>1. ~(at[r] \in Locked \ {"dropOld"} /\ q = id[r])
    BY <1>1, <1>5 DEF RequestInv, HoldsRecord, Prepared
  <2>2. at[r] = "create" /\ q = r
    BY <1>1, <1>5, <2>1 DEF StoreStep
  <2>. QED
    BY <1>1, <1>2, <2>2 DEF Prepared, Applicant, MadeByLogin
<1>6. ASSUME NEW q \in Requests, MadeByLogin(q)'
      PROVE  users'[q] = None
  <2>1. CASE at[q] = "idle"
    BY <1>5, <2>1 DEF SessionInv, RequestInv, NewAccount
  <2>2. CASE at[q] # "idle"
    BY <1>5, <1>6, <2>2, MakerStays DEF NoPromotions
  <2>. QED
    BY <2>1, <2>2
<1>. QED
  BY <1>1, <1>4, <1>6 DEF NoPromotions, Framed

\* The accounts found at start have names of their own, and requests have none.
LEMMA FoundNames ==
  ASSUME Init
  PROVE  NamesInv /\ NoPromotions
<1>1. PICK foreign \in [Settled -> Foreigners \union {None}],
           name \in [Settled -> Names \union {None}] : Found(foreign, name)
  BY DEF Init
<1>2. /\ \A r \in Requests : req[r].handler = None /\ req[r].name = None /\ snap[r] = None
      /\ \A r \in Requests : at[r] \in {"done", "idle"}
      /\ pending = NoEntries /\ None \notin AllHandlers
  BY DEF Init, Blank
<1>3. ASSUME NEW i \in Ids, NEW n \in Names, Named(i, n)
      PROVE  i \in Settled /\ name[i] = n
  BY <1>1, <1>3 DEF Found, Named, Readable
<1>4. ASSUME NEW i \in Ids, NEW n \in Names, Named(i, n)
      PROVE  Claimed(n)
  <2>1. \E s \in Settled : name[s] = n
    BY <1>3, <1>4
  <2>2. userNames[n] \in Settled
    BY <1>1, <2>1 DEF Found
  <2>. QED
    BY <2>2 DEF Claimed
<1>5. SharedNamesAreLogins
  <2> SUFFICES ASSUME NEW i \in Ids, NEW j \in Ids, NEW n \in Names, Named(i, n),
                      Named(j, n)
               PROVE  i = j
    BY DEF SharedNamesAreLogins
  <2>1. i \in Settled /\ j \in Settled /\ name[i] = name[j] /\ name[i] # None
    BY <1>3
  <2>. QED
    BY <1>1, <2>1 DEF Found, Distinct
<1>6. \A r \in Requests : at[r] # "saveName" /\ ~MadeByLogin(r)
  BY <1>2 DEF MadeByLogin, AllHandlers
<1>7. NamesInv
  BY <1>2, <1>4, <1>5, <1>6 DEF NamesInv, NamesPresented
<1>. QED
  BY <1>2, <1>6, <1>7 DEF NoPromotions

\* main.go "Username already exists": as long as nothing fails, renames never give two
\* accounts one name, and of two accounts that share one a TOTP login made at least one.
THEOREM RenamesKeepNamesApart == Spec => [](faults = 0 => SharedNamesAreLogins)
<1>1. Init => NamesInv
  BY FoundNames
<1>2. SessionInv /\ NamesInv /\ [Next]_vars => NamesInv'
  <2> SUFFICES ASSUME SessionInv, NamesInv, [Next]_vars
               PROVE  NamesInv'
    OBVIOUS
  <2>1. NamesPresented'
    <3>1. NamesPresented /\ TypeOK
      BY DEF NamesInv, SessionInv, TypeInv
    <3>2. CASE UNCHANGED req
      BY <3>1, <3>2 DEF NamesPresented
    <3>3. ASSUME NEW r \in Requests, Serve(r) \/ ReadForm(r)
          PROVE  UNCHANGED req
      BY <3>3, ServeCourse DEF Course
    <3>. QED
      BY <3>1, <3>2, <3>3, NamesArrive DEF Next, Approve, Crash, Rest, vars
  <2>2. ASSUME faults' = 0
        PROVE  /\ SharedNamesAreLogins'
               /\ \A i \in Ids, n \in Names :
                    Named(i, n)' /\ ~MadeByLogin(i)' => Claimed(n)'
               /\ \A r \in Requests, i \in Ids :
                    at'[r] = "saveName" /\ Named(i, req[r].name)' => MadeByLogin(i)'
    <3>1. CASE UNCHANGED <<users, userNames, at, req, faults>>
      <4>1. /\ SharedNamesAreLogins' <=> SharedNamesAreLogins
            /\ \A i, n : Named(i, n)' <=> Named(i, n)
            /\ \A n : Claimed(n)' <=> Claimed(n)
            /\ \A i : MadeByLogin(i)' <=> MadeByLogin(i)
        BY <3>1 DEF SharedNamesAreLogins, Named, Claimed, MadeByLogin
      <4>2. \A r, i : Named(i, req[r].name)' <=> Named(i, req[r].name)
        BY <3>1 DEF Named
      <4>. QED
        BY <2>2, <3>1, <4>1, <4>2 DEF NamesInv
    <3>2. ~Crash
      BY <2>2 DEF Crash, SessionInv, TypeInv, TypeOK
    <3>. QED
      BY <2>2, <3>1, <3>2, NamesStep DEF Next, Approve, Rest, vars, tables
  <2>. QED
    BY <2>1, <2>2 DEF NamesInv
<1>3. NamesInv => (faults = 0 => SharedNamesAreLogins)
  BY DEF NamesInv
<1>. QED
  BY <1>1, <1>2, <1>3, SessionInvariant, PTL DEF Spec

\* main.go "Check username not already taken by a full user": as long as nothing fails,
\* user names are unique where nobody signs up.
THEOREM NamesAreUnique ==
  ASSUME NoSignups
  PROVE  Spec => [](faults = 0 => NamesUnique)
<1>1. Init => NoPromotions
  BY FoundNames
<1>2. SessionInv /\ NoPromotions /\ [Next]_vars => NoPromotions'
  <2> SUFFICES ASSUME SessionInv, NoPromotions, [Next]_vars
               PROVE  NoPromotions'
    OBVIOUS
  <2>1. \A r \in Requests : req'[r].handler \in Handlers \union {None}
    BY HandlerStep DEF NoPromotions
  <2>2. CASE /\ UNCHANGED <<users, pending, req>>
             /\ \A r \in Requests : snap'[r] \in {None, snap[r]}
    BY <2>1, <2>2 DEF NoPromotions, MadeByLogin
  <2>3. ~\E n \in Names : Approve(n)
    BY DEF Approve, NoPromotions, NoEntries
  <2>. QED
    BY <2>1, <2>2, <2>3, NoPromotionStep
       DEF Next, Crash, Rest, vars, tables, file, NoPromotions
<1>3. SharedNamesAreLogins /\ NoPromotions /\ TypeInv => NamesUnique
  <2> SUFFICES ASSUME SharedNamesAreLogins, NoPromotions, TypeInv, NEW i \in Ids, NEW j \in Ids,
                      Readable(users[i]), Readable(users[j]),
                      users[i].name = users[j].name, users[i].name # None
               PROVE  i = j
    BY DEF NamesUnique
  <2>1. users[i].name \in Names
    BY DEF TypeInv, TypeOK, Readable, User
  <2>2. Named(i, users[i].name) /\ Named(j, users[i].name)
    BY DEF Named
  <2>3. ~MadeByLogin(i) /\ ~MadeByLogin(j)
    BY DEF NoPromotions, Readable
  <2>. QED
    BY <2>1, <2>2, <2>3 DEF SharedNamesAreLogins
<1>4. SessionInv => TypeInv
  BY DEF SessionInv
<1>. QED
  BY <1>1, <1>2, <1>3, <1>4, SessionInvariant, RenamesKeepNamesApart, PTL DEF Spec
=============================================================================
