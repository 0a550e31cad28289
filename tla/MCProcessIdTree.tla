----------------------------- MODULE MCProcessIdTree -----------------------------
(* A small instance of ProcessIdTree for TLC: enough pids for a node with two   *)
(* subtrees, each of them deeper than one node.                                 *)
EXTENDS ProcessIdTree

AddressSymmetry == Permutations(Addresses)
================================================================================
