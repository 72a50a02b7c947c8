------------------------------ MODULE MCStores ------------------------------
(***************************************************************************)
(* Instances of Stores for TLC.                                            *)
(***************************************************************************)
EXTENDS Stores, TLC

(* Tasks are alike, and so are messages. *)
MCSymmetry == Permutations(Tasks) \cup Permutations(Messages)
=============================================================================
