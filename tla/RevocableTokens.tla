-------------------------- MODULE RevocableTokens --------------------------
(***************************************************************************)
(* What the gateway promises of session tokens (SPEC.md, Token Rotation),  *)
(* without locks, files or handlers: an account is opened by at most one   *)
(* token at a time; a token opens at most one account, and when it is      *)
(* replaced or lost it never opens an account again.                       *)
(***************************************************************************)
CONSTANTS Accounts, Tokens, NoToken

VARIABLES
  current,  \* the token that opens each account
  spent     \* the tokens that have been current or never will be

Init ==
  /\ current \in [Accounts -> Tokens \union {NoToken}]
  /\ \A a, b \in Accounts : current[a] = current[b] /\ current[a] # NoToken => a = b
  /\ spent \in SUBSET Tokens
  /\ \A a \in Accounts : current[a] \in spent \union {NoToken}

\* The account gets its first token, or a new one in place of its old one.
Issue(a, t) ==
  /\ t \in Tokens \ spent
  /\ current' = [current EXCEPT ![a] = t]
  /\ spent' = spent \union {t}

\* The token of the account is lost, while tokens are minted in vain.
Lose(a, ts) ==
  /\ current' = [current EXCEPT ![a] = NoToken]
  /\ spent' = spent \union ts

\* Tokens are minted in vain.
Waste(ts) == spent' = spent \union ts /\ UNCHANGED current

Next ==
  \/ \E a \in Accounts, t \in Tokens : Issue(a, t)
  \/ \E a \in Accounts, ts \in SUBSET Tokens : Lose(a, ts)
  \/ \E ts \in SUBSET Tokens : Waste(ts)

Spec == Init /\ [][Next]_<<current, spent>>
=============================================================================
