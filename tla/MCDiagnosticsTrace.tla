---------------------------- MODULE MCDiagnosticsTrace ----------------------------
(* A small instance of DiagnosticsTrace for TLC. *)
EXTENDS DiagnosticsTrace, TLC

FileSymmetry == Permutations(Files) \union Permutations(Getters)
================================================================================
