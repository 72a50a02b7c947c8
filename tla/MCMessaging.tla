---------------------------- MODULE MCMessaging -----------------------------
(***************************************************************************)
(* Instances of Messaging for TLC: two messages of the same bytes.         *)
(***************************************************************************)
EXTENDS Messaging, TLC

CONSTANTS hi, again, c1, c2

MCContent == (hi :> "hi") @@ (again :> "hi")
=============================================================================
