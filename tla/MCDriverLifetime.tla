----------------------------- MODULE MCDriverLifetime -----------------------------
(* Small instances of DriverLifetime for TLC. *)
EXTENDS DriverLifetime
================================================================================
