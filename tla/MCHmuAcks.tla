------------------------------ MODULE MCHmuAcks ------------------------------
(* HmuAcks for TLC.                                                          *)
EXTENDS HmuAcks, TLC

CONSTANTS s1, s2, c1, c2, c3, n1, n2

MCSlots == {s1, s2}
MCConns == {c1, c2, c3}
MCCnts  == {n1, n2}

\* Once mixed, the properties claim nothing.
Unmixed == ~mixed

Symmetric == Permutations(MCSlots) \cup Permutations(MCConns) \cup Permutations(MCCnts)
=============================================================================
