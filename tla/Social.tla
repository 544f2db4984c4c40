------------------------------- MODULE Social -------------------------------
(***************************************************************************)
(* Accounts and friendships (internal/friend/friend.go), and the calls in  *)
(* flight that the modules above this one share.                           *)
(*                                                                         *)
(* A call of several statements is a record that names its next statement  *)
(* and holds what the earlier ones read; every statement is a step of its  *)
(* own and commits by itself.  A call of one statement is one step.  The   *)
(* caller may be gone: an access token outlives its account.               *)
(***************************************************************************)
EXTENDS Integers, Sequences, FiniteSets, Tables

CONSTANTS
    People,     \* accounts that sign in
    Demo,       \* the seeded climbers; nobody signs in to them
    Asked,      \* pairs of one who asks or accepts and the other (bound)
    Workers,    \* requests served at once
    None

Everyone == People \cup Demo

ASSUME PeopleAssumption == People \cap Demo = {} /\ None \notin People \cup Demo
ASSUME AskedAssumption == Asked \subseteq People \X Everyone

VARIABLES
    users,          \* the accounts there are
    friendships,    \* rows by <<user_id, other_id>>: the status
    call,           \* call[w]: the statement worker w runs next
    befriended      \* history: {u, v} of every accepted row there was

socialVars == <<users, friendships, call, befriended>>

Idle == [at |-> "idle"]

SocialInit ==
    /\ users = Everyone
    /\ friendships = EmptyTable
    /\ call = [w \in Workers |-> Idle]
    /\ befriended = {}

At(w, statement) == call[w].at = statement
Go(w, statement) == call' = [call EXCEPT ![w] = statement]
Answer(w) == Go(w, Idle)

\* A statement fails, or the client goes: 500, and nothing of it is stored.
Fail(w) ==
    /\ ~At(w, "idle")
    /\ Answer(w)
    /\ UNCHANGED <<users, friendships, befriended>>

-----------------------------------------------------------------------------
\* Mutant: a request that was not accepted is enough.
CanViewRequested(viewer, target) ==
    \/ target \in Demo
    \/ \E p \in {<<viewer, target>>, <<target, viewer>>} : p \in DOMAIN friendships

\* Mutant: the demo climbers are forgotten.
CanViewFriends(viewer, target) ==
    \E p \in {<<viewer, target>>, <<target, viewer>>} :
       p \in DOMAIN friendships /\ friendships[p] = "FOLLOWING"

\* Demo climbers, and an accepted row in either direction.
CanViewUser(viewer, target) ==
    \/ target \in Demo \cap users
    \/ \E p \in {<<viewer, target>>, <<target, viewer>>} :
          p \in DOMAIN friendships /\ friendships[p] = "FOLLOWING"

\* The friends list of u: demo climbers only, with the status of u's own row.
FriendsOf(u) ==
    [v \in (Demo \cap users) \ {u} |->
       IF <<u, v>> \in DOMAIN friendships THEN friendships[<<u, v>>]
       ELSE "SUGGESTED"]

\* Those of the list whose phone hash is in u's contacts.
MatchContacts(u, contacts) ==
    [v \in DOMAIN FriendsOf(u) \cap contacts |-> FriendsOf(u)[v]]

\* The upsert, which looks at no earlier status; the foreign keys need both.
SetStatus(u, other, status) ==
    /\ {u, other} \subseteq users
    /\ friendships' = Put(friendships, <<u, other>>, status)
    /\ befriended' = IF status = "FOLLOWING" THEN befriended \cup {{u, other}}
                     ELSE befriended
    /\ UNCHANGED <<users, call>>

Request(u, other) == SetStatus(u, other, "REQUESTED")
Accept(u, other) == SetStatus(u, other, "FOLLOWING")

\* DELETE FROM users and what it cascades to here.
SocialDelete(u) ==
    /\ u \in users
    /\ users' = users \ {u}
    /\ friendships' = Drop(friendships, {p \in DOMAIN friendships :
                                           u \in {p[1], p[2]}})
    /\ UNCHANGED <<call, befriended>>
=============================================================================
