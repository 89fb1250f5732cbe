----------------------------- MODULE MCModules -----------------------------
(* Small instances of the menu's mailboxes and of the presence module.     *)
(* They share nothing, so a behaviour exercises one of them: interleaving  *)
(* both would only multiply their states.  The client's two token files    *)
(* start out in four ways, from which a change leads to every other.       *)
EXTENDS MailboxProperties, PresenceProperties, TLC

CONSTANTS m1, m2, m3, m4, a, b, b1, b2, c1

VARIABLE part

Init ==
  /\ MailInit /\ PresenceInit /\ part \in {"menu", "presence"}
  /\ <<exeFile, homeFile>> \in {<<"none", "none">>} \union
       IF part = "menu" THEN {}
       ELSE {<<"none", "good">>, <<"good", "revoked">>, <<"revoked", "good">>}

Menu == part = "menu" /\ MailNext /\ UNCHANGED <<part, presenceVars>>
Presents == part = "presence" /\ PresenceNext /\ UNCHANGED <<part, mailVars>>
Next == Menu \/ Presents

\* Handlers run on; Go's mutexes are starvation-free; the client's loop goes round.
Runs(A) == A /\ part = "presence" /\ UNCHANGED <<part, mailVars>>
Spec ==
  /\ Init /\ [][Next]_<<part, mailVars, presenceVars>>
  /\ \A p \in Participants :
       /\ SF_presenceVars(Runs(Lock(p)))
       /\ WF_presenceVars(Runs(FindRoom(p) \/ MakeRoom(p) \/ Record(p) \/ Render(p) \/ Write(p)))
       /\ WF_presenceVars(Runs(ClientAsks(p)))

MCMayMail ==
  LET by(u, ops) == {[user |-> u, op |-> op] : op \in ops} IN
  (m1 :> by(a, {"upload"}))
  @@ (m2 :> by(a, {"send", "check"}) \union by(NoId, {"send"}))
  @@ (m3 :> by(a, {"send", "check"}))
  @@ (m4 :> by(a, {"check"}) \union by(b, {"image", "noFile", "shutdown"}))

MCAsk(id, host, user, header) == [id |-> id, host |-> host, user |-> user, header |-> header]
MCMayAskFor ==
  (b1 :> {MCAsk("0", None, None, a), MCAsk("1", None, b, a)})
  @@ (b2 :> {MCAsk("x", None, None, b)})
  @@ (c1 :> {MCAsk("0", c1, None, a)})
=============================================================================
