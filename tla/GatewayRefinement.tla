------------------------- MODULE GatewayRefinement -------------------------
(***************************************************************************)
(* The gateway keeps the promise of RevocableTokens.                       *)
(***************************************************************************)
EXTENDS GatewayProperties

\* The token with which sessionTokenToId finds account i.
OpenedBy(i) ==
  IF Readable(users[i]) /\ Authenticates(users[i].token)
    THEN users[i].token ELSE None

\* A request past rotateUserTokenLocked has saved its token; one that skips it
\* never will.
PastSave == {"dropOld", "index", "remap", "truncate", "fill", "send", "done"}

Promise == INSTANCE RevocableTokens WITH
  Accounts <- Ids, NoToken <- None,
  current <- [i \in Ids |-> OpenedBy(i)],
  spent <- {t \in Tokens : at[t] \in PastSave}

\* SPEC.md "Token Rotation": every step of every handler, with failures of the
\* store and restarts, changes the token of at most one account, to a token
\* that never opened an account before, or to none.
TokensAreRevocable == Promise!Spec
=============================================================================
