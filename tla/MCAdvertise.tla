---------------------------- MODULE MCAdvertise -----------------------------
(***************************************************************************)
(* Instances of Advertise for TLC: ann has two connections to the relay    *)
(* and queries it, ben has one.                                            *)
(***************************************************************************)
EXTENDS Advertise, TLC

CONSTANTS ann, ben, k1, k2, k3, t1, t2

MCOwner == (k1 :> ann) @@ (k2 :> ann) @@ (k3 :> ben)
MCHome  == (t1 :> ann) @@ (t2 :> ann)

(* ann's connections are alike, and so are her tasks. *)
MCSymmetry == Permutations({k1, k2}) \cup Permutations({t1, t2})
=============================================================================
