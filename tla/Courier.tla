------------------------------ MODULE Courier -------------------------------
(***************************************************************************)
(* What the callers of send_message may rely on                            *)
(* (owlnest/src/net/p2p/protocols/messaging.rs), whatever connections,     *)
(* streams and timers do: a message is delivered at most once; Ok is only  *)
(* said of a message that has been delivered; a message that was refused   *)
(* is never delivered.  A message whose call failed may or may not arrive. *)
(***************************************************************************)
EXTENDS Sequences

CONSTANT Messages

VARIABLES
  answer,     \* answer[m]: what the caller of m knows
  arrived     \* the messages delivered, in order

vars == <<answer, arrived>>

Arrived(m) == \E i \in DOMAIN arrived : arrived[i] = m

Init ==
  /\ answer = [m \in Messages |-> "none"]
  /\ arrived = <<>>

Accept(m) ==
  /\ answer[m] = "none"
  /\ answer' = [answer EXCEPT ![m] = "open"]
  /\ UNCHANGED arrived

Deliver(m) ==
  /\ answer[m] \in {"open", "failed"} /\ ~Arrived(m)
  /\ arrived' = Append(arrived, m)
  /\ UNCHANGED answer

Confirm(m) ==
  /\ answer[m] = "open" /\ Arrived(m)
  /\ answer' = [answer EXCEPT ![m] = "ok"]
  /\ UNCHANGED arrived

Refuse(m) ==
  /\ answer[m] = "open" /\ ~Arrived(m)
  /\ answer' = [answer EXCEPT ![m] = "refused"]
  /\ UNCHANGED arrived

(* Several calls may fail together, when a connection goes away.           *)
Fail(ms) ==
  /\ ms # {} /\ \A m \in ms : answer[m] = "open"
  /\ answer' = [m \in Messages |-> IF m \in ms THEN "failed" ELSE answer[m]]
  /\ UNCHANGED arrived

Next ==
  \/ \E m \in Messages : Accept(m) \/ Deliver(m) \/ Confirm(m) \/ Refuse(m)
  \/ \E ms \in SUBSET Messages : Fail(ms)

Spec == Init /\ [][Next]_vars
=============================================================================
