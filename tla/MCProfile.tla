------------------------------ MODULE MCProfile ------------------------------
(* Small instances of Profile for TLC. *)
EXTENDS Profile

CONSTANTS c1, c2, c3, climbing, music

TwoCalls == {c1, c2}
ThreeCalls == {c1, c2, c3}
TwoInterests == {climbing, music}

\* None, or two elements in either order, one of them twice.
ListsSent == {<<>>, <<climbing, music>>, <<music, climbing, music>>}
\* Two lists with nothing in common.
DisjointLists == {<<climbing>>, <<music>>}
=============================================================================
