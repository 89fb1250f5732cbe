---------------------------- MODULE MCForwarding ----------------------------
(* Small instances of Forwarding for TLC: one host that is configured and  *)
(* one that is not; a request of any kind, and one that meets it at the    *)
(* access logs.                                                            *)
EXTENDS ForwardingProperties

CONSTANTS r1, r2

MCHosts == {<<"w", "a">>, <<"b">>}
MCRedirects == <<<<"a">>>>
MCMayAsk ==
  (r1 :> [method : Methods, via : Hops])
  @@ (r2 :> {[method |-> "POST", via |-> "edge"], [method |-> "GET", via |-> "gateway"]})
=============================================================================
