--------------------------- MODULE ConnectionPair ---------------------------
(***************************************************************************)
(* What SPEC.md (WebSocket Forwarding) promises of the two connections of  *)
(* a relayed WebSocket: "The upstream handshake completes before the       *)
(* browser connection is accepted"; "When either direction ends, both      *)
(* connections close".                                                     *)
(***************************************************************************)
EXTENDS Naturals

Sides == {"browser", "upstream"}
Other(c) == IF c = "browser" THEN "upstream" ELSE "browser"

VARIABLES
  conn,     \* conn[c]: the gateway's connection to side c
  carried   \* carried[c]: messages written to side c

vars == <<conn, carried>>

Init ==
  /\ conn = [c \in Sides |-> "none"]
  /\ carried = [c \in Sides |-> 0]

Connect ==
  /\ conn["upstream"] = "none"
  /\ conn' = [conn EXCEPT !["upstream"] = "open"]
  /\ UNCHANGED carried

Accept ==
  /\ conn["upstream"] = "open" /\ conn["browser"] = "none"
  /\ conn' = [conn EXCEPT !["browser"] = "open"]
  /\ UNCHANGED carried

\* A message goes to a connection that is open, once both have been.
Carry(c) ==
  /\ conn[c] = "open" /\ conn[Other(c)] # "none"
  /\ carried' = [carried EXCEPT ![c] = @ + 1]
  /\ UNCHANGED conn

Close(c) ==
  /\ conn[c] = "open"
  /\ conn' = [conn EXCEPT ![c] = "closed"]
  /\ UNCHANGED carried

Next == Connect \/ Accept \/ \E c \in Sides : Carry(c) \/ Close(c)

\* A connection follows the other one when that is closed, and the upstream does
\* not stay open without a browser.
Follow(c) == conn[Other(c)] = "closed" /\ Close(c)
Settle == Accept \/ (conn["browser"] = "none" /\ Close("upstream"))

Safety == Init /\ [][Next]_vars
Spec == Safety /\ WF_vars(Settle) /\ \A c \in Sides : WF_vars(Follow(c))
=============================================================================
