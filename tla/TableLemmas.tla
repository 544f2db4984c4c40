----------------------------- MODULE TableLemmas -----------------------------
(* What inserting into and deleting from a table does to its rows. *)
EXTENDS Tables, TLAPS

\* An inserted row is there, the others are as they were.
LEMMA PutRows ==
    ASSUME NEW t, NEW k, NEW row
    PROVE  /\ DOMAIN Put(t, k, row) = DOMAIN t \cup {k}
           /\ Put(t, k, row)[k] = row
           /\ \A j \in DOMAIN t : j # k => Put(t, k, row)[j] = t[j]
BY DEF Put

\* Inserting a row of the right type keeps a table's type.
LEMMA PutType ==
    ASSUME NEW Row, NEW Keys, NEW t, DOMAIN t \subseteq Keys, t \in [DOMAIN t -> Row],
           NEW k \in Keys, NEW row \in Row
    PROVE  /\ DOMAIN Put(t, k, row) \subseteq Keys
           /\ Put(t, k, row) \in [DOMAIN Put(t, k, row) -> Row]
BY DEF Put

\* Deleting takes the rows named and leaves the others as they were.
LEMMA DropRows ==
    ASSUME NEW t, NEW S
    PROVE  /\ DOMAIN Drop(t, S) = DOMAIN t \ S
           /\ \A j \in DOMAIN Drop(t, S) : Drop(t, S)[j] = t[j]
BY DEF Drop

\* Deleting keeps a table's type.
LEMMA DropType ==
    ASSUME NEW Row, NEW Keys, NEW t, DOMAIN t \subseteq Keys, t \in [DOMAIN t -> Row],
           NEW S
    PROVE  /\ DOMAIN Drop(t, S) \subseteq Keys
           /\ Drop(t, S) \in [DOMAIN Drop(t, S) -> Row]
BY DEF Drop
=============================================================================
