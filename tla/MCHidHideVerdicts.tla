--------------------------- MODULE MCHidHideVerdicts ---------------------------
(* Small instances of HidHideVerdicts for TLC. *)
EXTENDS HidHideVerdicts, TLC

CONSTANTS game, d1

Plain(d)    == [path |-> d, jail |-> 0]
Jail(d, s)  == [path |-> d, jail |-> s]

\* The device free, hidden, and named twice, in which case only the first entry
\* counts: it is hidden from every session but the first.
MCBlacklists == {<<>>, <<Plain(d1)>>, <<Jail(d1, 1), Plain(d1)>>}
GameWhitelists == {{}, {game}}
TwoSessions == {0, 1}
================================================================================
