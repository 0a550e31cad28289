---------------------------- MODULE MCHidHideDriver ----------------------------
(* Small instances of HidHideDriver for TLC. *)
EXTENDS HidHideDriver, TLC

CONSTANTS p1, p2, game, tool, dll, d1, d2, c1, c2, c3

Plain(d)    == [path |-> d, jail |-> 0]
Jail(d, s)  == [path |-> d, jail |-> s]

\* The device free, hidden, and hidden from every session but the first; then
\* two entries for one device, of which only the first counts.
MCBlacklists == {<<>>, <<Plain(d1)>>, <<Jail(d1, 1)>>, <<Jail(d1, 1), Plain(d1)>>}
NoBlacklist == {<<>>}
OneWhitelist == {{game}}
ShortBlacklists == {<<>>, <<Plain(d1)>>}
GameWhitelists == {{}, {game}}
AllWhitelists  == SUBSET {game, dll}
OneSession  == {1}
TwoSessions == {0, 1}

DriverSymmetry == Permutations(Setters) \union Permutations(Requests)
================================================================================
