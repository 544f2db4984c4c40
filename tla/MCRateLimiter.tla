---------------------------- MODULE MCRateLimiter ----------------------------
(* Small instances of RateLimiter for TLC. *)
EXTENDS RateLimiter, TLC

CONSTANTS k1, k2, k3, p1, p2

TwoKeys == {k1, k2}
ThreeKeys == {k1, k2, k3}
OneProc == {p1}
TwoProcs == {p1, p2}

Symmetry == Permutations(Keys) \cup Permutations(Procs)
=============================================================================
