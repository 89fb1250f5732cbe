----------------------------- MODULE MCGateway -----------------------------
(* Small instances of Gateway for TLC.                                     *)
EXTENDS GatewayInduction, TLC

\* Requests that have not arrived are interchangeable, and so are the user
\* names and the foreign ids; settled requests own the accounts of Init.
Interchangeable ==
  Permutations(Requests \ Settled) \union Permutations(Names)
    \union Permutations(Foreigners)
=============================================================================
