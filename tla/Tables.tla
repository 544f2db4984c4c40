------------------------------- MODULE Tables -------------------------------
(***************************************************************************)
(* Tables and in-memory maps as functions from the keys present to rows.   *)
(***************************************************************************)

EmptyTable == [k \in {} |-> k]

\* t with the row of key k inserted or overwritten.
Put(t, k, row) == [j \in DOMAIN t \cup {k} |-> IF j = k THEN row ELSE t[j]]

\* t without the rows of the keys in S.
Drop(t, S) == [j \in DOMAIN t \ S |-> t[j]]
=============================================================================
