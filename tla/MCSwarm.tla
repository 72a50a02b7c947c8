------------------------------ MODULE MCSwarm -------------------------------
(***************************************************************************)
(* Instances of Swarm for TLC: one remote peer with two addresses, two     *)
(* callers.                                                                *)
(***************************************************************************)
EXTENDS Swarm, TLC

CONSTANTS ann, ben, remote, near, far

(* ann looks things up, ben changes them. *)
MCDoes == (ann :> {"PeerLookup", "SetMode", "SwarmOp"})
            @@ (ben :> {"InsertNode", "BootStrap", "MdnsOp", "AutonatTell",
                      "GetNatStatus"})
=============================================================================
