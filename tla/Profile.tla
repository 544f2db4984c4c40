------------------------------- MODULE Profile -------------------------------
(***************************************************************************)
(* One account's profile: internal/user/user.go over the tables users,     *)
(* user_hobbies and user_interests.  SetHobbies and CompleteOnboarding     *)
(* replace a list of rows in one transaction of several statements;        *)
(* UpdateName and Delete are transactions of one statement.                *)
(*                                                                         *)
(* PostgreSQL runs them READ COMMITTED: a statement sees the rows that     *)
(* were committed when it began, waits for a transaction that holds a row  *)
(* or key it is about to change, and goes on with what that one left.  A   *)
(* DELETE of a list is one step for its snapshot and one for each row; an  *)
(* INSERT one for the row and one for the foreign key to the account.      *)
(*                                                                         *)
(* A call stands for the transaction it runs.  What a call wrote and has   *)
(* not committed is its draft; a key in a draft is locked by that call.    *)
(* Themes are written with the position and not told apart from it.        *)
(***************************************************************************)
EXTENDS Integers, Sequences, FiniteSets, Functions, Tables

CONSTANTS
    Calls,      \* requests (bound: each is made at most once)
    Interests,  \* the catalog's interest ids
    Lists,      \* the lists a client may send
    None        \* not a call

ASSUME ListsAssumption == Lists \subseteq Seq(Interests)
ASSUME NoneAssumption == None \notin Calls

VARIABLES
    account,    \* the row of users is there
    name,       \* who wrote its name
    rows,       \* the committed rows of the two lists
    draft,      \* draft[c]: what c has written, Gone where it deleted
    userLock,   \* the call that has written or deleted the row of users
    call,       \* call[c]: the request c and where it stands
    last,       \* history: the last call to commit a list, for each table
    before      \* history: the calls committed at c's DELETE snapshot

vars == <<account, name, rows, draft, userLock, call, last, before>>

ListTables == {"user_hobbies", "user_interests"}
Keys == ListTables \X Interests

\* A row: the call that inserted it (its identity), the last to write it, and
\* its place in the list, from 1.
Row == [id : Calls, by : Calls, position : Nat]
Gone == [id |-> None, by |-> None, position |-> 0]

Kinds == {"hobbies", "onboarding", "rename", "deletion"}
Steps == {"idle", "users", "snapshot", "delete", "insert", "check", "done",
          "failed"}
Call == [step : Steps, kind : Kinds, list : Lists \cup {<<>>},
         next : Nat,                    \* the list's next element
         seen : SUBSET (Keys \X Calls), \* rows the DELETE has yet to visit
         share : BOOLEAN]               \* holds the users row FOR KEY SHARE

Running(c) == call[c].step \notin {"idle", "done", "failed"}

\* The types, and that only a call that runs holds anything.
TypeOK ==
    /\ account \in BOOLEAN
    /\ name \in Calls \cup {None}
    /\ DOMAIN rows \subseteq Keys
    /\ rows \in [DOMAIN rows -> Row]
    /\ DOMAIN draft = Calls
    /\ \A c \in Calls :
          /\ DOMAIN draft[c] \subseteq Keys
          /\ draft[c] \in [DOMAIN draft[c] -> Row \cup {Gone}]
    /\ userLock \in Calls \cup {None}
    /\ call \in [Calls -> Call]
    /\ last \in [ListTables -> Calls \cup {None}]
    /\ before \in [Calls -> SUBSET Calls]
    /\ \A c \in Calls :
          ~Running(c) => /\ draft[c] = EmptyTable
                         /\ userLock # c
                         /\ ~call[c].share

NotMade ==
    [step |-> "idle", kind |-> "rename", list |-> <<>>, next |-> 1,
     seen |-> {}, share |-> FALSE]

Init ==
    /\ account = TRUE
    /\ name = None
    /\ rows = EmptyTable
    /\ draft = [c \in Calls |-> EmptyTable]
    /\ userLock = None
    /\ call = [c \in Calls |-> NotMade]
    /\ last = [t \in ListTables |-> None]
    /\ before = [c \in Calls |-> {}]

-----------------------------------------------------------------------------
(* Locks.                                                                  *)

TableOf(c) ==
    IF call[c].kind = "hobbies" THEN "user_hobbies" ELSE "user_interests"

LockersOf(k) == {d \in Calls : k \in DOMAIN draft[d]}

NextKey(c) == <<TableOf(c), call[c].list[call[c].next]>>

Inserting(c) == call[c].step = "insert" /\ call[c].next <= Len(call[c].list)

\* Whoever holds the row of users, against the locks a statement needs: FOR
\* KEY SHARE (a foreign key) goes with an update of the name, not with a
\* deletion; a deletion goes with neither.
UserHolders(c) ==
    ({userLock} \ {None})
      \cup (IF call[c].kind = "deletion"
            THEN {d \in Calls : call[d].share} ELSE {})

Deleter == {d \in {userLock} \ {None} : call[d].kind = "deletion"}

\* The calls that c waits for, or would meet next in its DELETE.
Blockers(c) ==
    (CASE call[c].step = "users" -> UserHolders(c)
       [] call[c].step = "delete" ->
             UNION {LockersOf(s[1]) : s \in call[c].seen}
       [] Inserting(c) -> LockersOf(NextKey(c))
       [] call[c].step = "check" -> Deleter
       [] OTHER -> {}) \ {c}

\* c waits for itself, through others.
InDeadlock(c) ==
    /\ Blockers(c) # {}
    /\ \E S \in SUBSET Calls :
          /\ c \in S
          /\ \E next \in [S -> S] :
                /\ Range(next) = S
                /\ \A d \in S : next[d] \in Blockers(d)

-----------------------------------------------------------------------------
(* A transaction ends.                                                     *)

Apply(c) ==
    LET all == [k \in DOMAIN rows \cup DOMAIN draft[c] |->
                  IF k \in DOMAIN draft[c] THEN draft[c][k] ELSE rows[k]]
    IN  Drop(all, {k \in DOMAIN all : all[k] = Gone})

\* c's locks and draft are gone; s is "done" or "failed".
Release(c, s) ==
    /\ draft' = [draft EXCEPT ![c] = EmptyTable]
    /\ userLock' = IF userLock = c THEN None ELSE userLock
    /\ call' = [call EXCEPT ![c].step = s, ![c].share = FALSE,
                            ![c].seen = {}]

\* Mutant: without the deferred Rollback the transaction stays open.
RollbackForgotten(c) ==
    /\ call' = [call EXCEPT ![c].step = "failed"]
    /\ UNCHANGED <<account, name, rows, draft, userLock, last, before>>

\* The deferred tx.Rollback.
Rollback(c) ==
    /\ Release(c, "failed")
    /\ UNCHANGED <<account, name, rows, last, before>>

Committed == {d \in Calls : call[d].step = "done"}

Commit(c) ==
    /\ call[c].step = "insert" /\ call[c].next > Len(call[c].list)
    /\ rows' = Apply(c)
    /\ account' = (account /\ ~(userLock = c /\ call[c].kind = "deletion"))
    /\ name' = IF userLock # c THEN name
               ELSE IF call[c].kind = "deletion" THEN None ELSE c
    /\ last' = IF call[c].kind \in {"hobbies", "onboarding"}
               THEN [last EXCEPT ![TableOf(c)] = c] ELSE last
    /\ Release(c, "done")
    /\ UNCHANGED before

-----------------------------------------------------------------------------
(* The statements.                                                         *)

Request(c, kind, list, step) ==
    /\ call[c].step = "idle"
    /\ call' = [call EXCEPT ![c].step = step, ![c].kind = kind,
                            ![c].list = list]
    /\ UNCHANGED <<account, name, rows, draft, userLock, last, before>>

SetHobbies(c, list) == Request(c, "hobbies", list, "snapshot")
CompleteOnboarding(c, list) == Request(c, "onboarding", list, "users")
UpdateName(c) == Request(c, "rename", <<>>, "users")
Delete(c) == Request(c, "deletion", <<>>, "users")

\* Mutant: onboarding leaves the row of users until its rows are written.
LockUserLate(c) ==
    /\ call[c].step = "users"
    /\ call' = [call EXCEPT ![c].step =
                  IF call[c].kind = "rename" THEN "insert" ELSE "snapshot"]
    /\ UNCHANGED <<account, name, rows, draft, userLock, last, before>>

\* UPDATE users or DELETE FROM users, of no row when the account is gone.
LockUser(c) ==
    /\ call[c].step = "users"
    /\ Blockers(c) = {}
    /\ userLock' = IF account THEN c ELSE userLock
    /\ call' = [call EXCEPT ![c].step =
                  IF call[c].kind = "onboarding"
                     \/ (call[c].kind = "deletion" /\ account)
                  THEN "snapshot" ELSE "insert"]
    /\ UNCHANGED <<account, name, rows, draft, last, before>>

\* Mutant: SetHobbies only inserts.
FoundByOthers(c) ==
    {<<k, rows[k].id>> : k \in
        {j \in DOMAIN rows : \/ call[c].kind = "deletion"
                             \/ call[c].kind = "onboarding" /\ j[1] = TableOf(c)}}

\* The rows that a DELETE of call c finds: its own list's, or all of them by
\* the cascade from users.
Found(c) ==
    {<<k, rows[k].id>> : k \in
        {j \in DOMAIN rows : call[c].kind = "deletion" \/ j[1] = TableOf(c)}}

\* What is left to delete decides where c goes.
Deleting(c, seen) ==
    call' = [call EXCEPT ![c].seen = seen,
                         ![c].step = IF seen = {} THEN "insert" ELSE "delete"]

Snapshot(c) ==
    /\ call[c].step = "snapshot"
    /\ Deleting(c, Found(c))
    /\ before' = [before EXCEPT ![c] = Committed]
    /\ UNCHANGED <<account, name, rows, draft, userLock, last>>

\* A row found in the snapshot is deleted, in whatever version it has now,
\* unless it was deleted meanwhile; a new row under its key is not touched.
DeleteRow(c) ==
    /\ call[c].step = "delete"
    /\ \E s \in call[c].seen :
          /\ LockersOf(s[1]) \subseteq {c}
          /\ draft' = IF s[1] \in DOMAIN rows /\ rows[s[1]].id = s[2]
                      THEN [draft EXCEPT ![c] = Put(@, s[1], Gone)] ELSE draft
          /\ Deleting(c, call[c].seen \ {s})
    /\ UNCHANGED <<account, name, rows, userLock, last, before>>

\* The row an INSERT of c conflicts with, or Gone.
Current(c, k) ==
    IF k \in DOMAIN draft[c] THEN draft[c][k]
    ELSE IF k \in DOMAIN rows THEN rows[k] ELSE Gone

\* Mutant: hobbies DO NOTHING as well.
DoNothing(c, k) == UNCHANGED draft

\* ON CONFLICT: hobbies DO UPDATE, interests DO NOTHING.
OnConflict(c, k) ==
    draft' = IF call[c].kind = "hobbies"
             THEN [draft EXCEPT ![c] =
                     Put(@, k, [Current(c, k) EXCEPT !.by = c,
                                                     !.position = call[c].next])]
             ELSE draft

\* INSERT: waits for whoever holds the key.
InsertRow(c) ==
    /\ Inserting(c)
    /\ LockersOf(NextKey(c)) \subseteq {c}
    /\ LET k == NextKey(c) IN
       \/ /\ Current(c, k) = Gone
          /\ draft' = [draft EXCEPT ![c] =
                         Put(@, k, [id |-> c, by |-> c,
                                    position |-> call[c].next])]
          /\ call' = [call EXCEPT ![c].step = "check"]
       \/ /\ Current(c, k) # Gone
          /\ OnConflict(c, k)
          /\ call' = [call EXCEPT ![c].next = @ + 1]
    /\ UNCHANGED <<account, name, rows, userLock, last, before>>

\* Mutant: the column has no foreign key.
AlwaysThere == TRUE

\* The foreign key of the row inserted: the row of users is locked FOR KEY
\* SHARE, or it is gone and the statement fails.
AccountThere == account

CheckUser(c) ==
    /\ call[c].step = "check"
    /\ Blockers(c) = {}
    /\ \/ /\ AccountThere
          /\ call' = [call EXCEPT ![c].step = "insert", ![c].share = TRUE,
                                  ![c].next = @ + 1]
          /\ UNCHANGED <<account, name, rows, draft, userLock, last, before>>
       \/ ~AccountThere /\ Rollback(c)

\* A statement fails, or the client, the process or the connection goes.
Fail(c) == Running(c) /\ Rollback(c)

\* PostgreSQL finds a cycle of waiting transactions and cancels one of them.
CancelDeadlocked(c) == InDeadlock(c) /\ Rollback(c)

Advance(c) ==
    \/ LockUser(c) \/ Snapshot(c) \/ DeleteRow(c) \/ InsertRow(c)
    \/ CheckUser(c) \/ Commit(c) \/ CancelDeadlocked(c)

Next ==
    \E c \in Calls :
       \/ \E list \in Lists : SetHobbies(c, list) \/ CompleteOnboarding(c, list)
       \/ UpdateName(c)
       \/ Delete(c)
       \/ LockUser(c)
       \/ Snapshot(c)
       \/ DeleteRow(c)
       \/ InsertRow(c)
       \/ CheckUser(c)
       \/ Commit(c)
       \/ Fail(c)
       \/ CancelDeadlocked(c)

Spec == Init /\ [][Next]_vars

\* A call goes on where it can: its handler runs, a lock that is free is
\* granted, and PostgreSQL ends a deadlock.
FairSpec == Spec /\ \A c \in Calls : WF_vars(Advance(c))

-----------------------------------------------------------------------------
(* Properties.                                                             *)

RowsOf(t) == {k \in DOMAIN rows : k[1] = t}

\* The list that call c sent is stored in table t as c sent it: each of its
\* elements is there, written by c, at the last place c gave it.
Stored(c, t) ==
    \A i \in Range(call[c].list) :
       /\ <<t, i>> \in DOMAIN rows
       /\ rows[<<t, i>>].by = c
       /\ \/ t = "user_interests"
          \/ rows[<<t, i>>].position =
                CHOOSE n \in DOMAIN call[c].list :
                   /\ call[c].list[n] = i
                   /\ \A m \in DOMAIN call[c].list :
                         call[c].list[m] = i => m <= n

\* The hobbies of the last SetHobbies to commit are all there, in its order,
\* whatever overlapped it (the upsert, user.go:182).
HobbiesStored ==
    account /\ last["user_hobbies"] # None
      => Stored(last["user_hobbies"], "user_hobbies")

\* Hobbies of another call than the last to commit survive it only if that
\* call was still uncommitted when the last one's DELETE began (user.go:171).
SurvivorsOverlapped ==
    LET c == last["user_hobbies"] IN
    \A k \in RowsOf("user_hobbies") :
       rows[k].by = c \/ rows[k].by \notin before[c]

\* What SetHobbies is documented to do (user.go:163): replace the hobbies.
HobbiesReplaced ==
    \A k \in RowsOf("user_hobbies") : rows[k].by = last["user_hobbies"]

\* Onboarding is atomic and exclusive: the interests are exactly those of the
\* last onboarding to commit, and a name from an onboarding is from that one,
\* for the update of users comes first and keeps others out (user.go:85).
OnboardingAtomic ==
    LET c == last["user_interests"] IN
    /\ account /\ c # None =>
          /\ Stored(c, "user_interests")
          /\ {k[2] : k \in RowsOf("user_interests")} = Range(call[c].list)
    /\ name # None /\ call[name].kind = "onboarding" => name = c

\* An onboarding is never party to a deadlock, for it takes the row of users
\* before any other (user.go:85).
OnboardingNeverDeadlocks ==
    \A c \in Calls : call[c].kind = "onboarding" => ~InDeadlock(c)

\* Nothing of a deleted account is stored, whatever was writing to it when it
\* was deleted (user.go:195, the foreign keys and their cascade).
NothingWithoutAccount ==
    ~account => rows = EmptyTable /\ name = None

\* Every request ends: no wait for a lock is for ever (user.go:83, :169).
EveryCallEnds ==
    \A c \in Calls : Running(c) ~> ~Running(c)
=============================================================================
