---------------------------- MODULE ProfileProofs ----------------------------
(***************************************************************************)
(* Proofs about the transactions of a profile, for any number of calls, of *)
(* interests and of lists: PInv is inductive, and the invariants the runs  *)
(* check follow from it.                                                   *)
(***************************************************************************)
EXTENDS Profile, TableLemmas

\* The statements of a call that come after its lock of the account.
Past == {"snapshot", "delete", "insert", "check"}

\* A key is locked by one call at a time.
Disjoint ==
    \A c, d \in Calls : c # d => DOMAIN draft[c] \cap DOMAIN draft[d] = {}

\* Where a call stands fits what it was asked: only lists are inserted, and
\* nothing is written before the snapshot or deleted but what it found.
InOrder(c) ==
    /\ call[c].kind \in {"rename", "deletion"} => call[c].list = <<>>
    /\ call[c].kind = "rename" => call[c].step \notin {"snapshot", "delete"}
    /\ call[c].kind = "hobbies" => call[c].step # "users"
    /\ call[c].next >= 1
    /\ call[c].step \in {"idle", "users", "snapshot", "delete"} => call[c].next = 1
    /\ call[c].step = "check" => call[c].next <= Len(call[c].list)
    /\ call[c].step # "delete" => call[c].seen = {}
    /\ call[c].step \in {"users", "snapshot"} => draft[c] = EmptyTable
    /\ call[c].kind = "deletion" \/ \A s \in call[c].seen : s[1][1] = TableOf(c)
    /\ call[c].share => /\ call[c].kind \in {"hobbies", "onboarding"}
                        /\ call[c].step \in {"insert", "check"}

\* What a call may write: rows of its own list, or, to delete the account, none.
OwnKeys(c) ==
    \A k \in DOMAIN draft[c] :
       \/ call[c].kind \in {"hobbies", "onboarding"} /\ k[1] = TableOf(c)
       \/ call[c].kind = "deletion" /\ draft[c][k] = Gone

\* A row in a draft is the call's own insert, whose foreign key has been checked
\* or is just being checked, or an update of a committed row.
Drafted(c) ==
    \A k \in DOMAIN draft[c] : draft[c][k] # Gone =>
       /\ draft[c][k].by = c
       /\ \/ draft[c][k].id = c /\ (call[c].share \/ call[c].step = "check")
          \/ k \in DOMAIN rows /\ rows[k].id = draft[c][k].id

\* Onboardings and deletions have the row of users before they write a list.
LockFirst(c) ==
    /\ userLock = c => /\ account /\ call[c].step \in Past
                       /\ call[c].kind # "hobbies"
    /\ call[c].kind \in {"onboarding", "deletion"} =>
          /\ account /\ call[c].step \in Past => userLock = c
          /\ \/ call[c].step = "delete"
             \/ call[c].kind = "deletion" /\ call[c].step = "snapshot"
             \/ \E k \in DOMAIN draft[c] : draft[c][k] = Gone
             => userLock = c

\* A foreign key and a deletion keep each other out.
ShareOrDelete ==
    \A c \in Calls : call[c].share =>
       account /\ (userLock # None => call[userLock].kind # "deletion")

\* Whoever has the row of users finds every row that it is to delete.
Covered(c) ==
    userLock = c /\ call[c].step \in {"delete", "insert", "check"} =>
       \A k \in DOMAIN rows :
          call[c].kind = "deletion"
             \/ (call[c].kind = "onboarding" /\ k[1] = "user_interests") =>
             k \in DOMAIN draft[c] \/ <<k, rows[k].id>> \in call[c].seen

\* The elements of c's list that are inserted.
Inserted(c) ==
    {m \in DOMAIN call[c].list :
       m < call[c].next \/ (m = call[c].next /\ call[c].step = "check")}

\* What is inserted is in the draft, and nothing else; hobbies at the last place
\* that the list gives them.
Written(c) ==
    Running(c) =>
       /\ \A m \in Inserted(c) :
             LET k == <<TableOf(c), call[c].list[m]>> IN
             k \in DOMAIN draft[c] /\ draft[c][k] # Gone
       /\ \A k \in DOMAIN draft[c] : draft[c][k] # Gone =>
             \E m \in Inserted(c) :
                /\ call[c].list[m] = k[2]
                /\ call[c].kind = "hobbies" =>
                      /\ draft[c][k].position = m
                      /\ \A n \in Inserted(c) : call[c].list[n] = k[2] => n <= m

\* A SetHobbies has found what was committed before its snapshot.
FoundBefore(c) ==
    /\ before[c] \subseteq Committed
    /\ call[c].kind = "hobbies" /\ call[c].step \in {"delete", "insert", "check"} =>
          \A k \in RowsOf("user_hobbies") : rows[k].by \in before[c] =>
             k \in DOMAIN draft[c] \/ <<k, rows[k].id>> \in call[c].seen

\* A deleted account is gone for good.
Deleted ==
    ~account => /\ rows = EmptyTable /\ name = None /\ userLock = None
                /\ \A c \in Calls : ~call[c].share

\* What is remembered of the calls that committed.
Remembered ==
    /\ name # None => call[name].step = "done"
    /\ \A t \in ListTables : last[t] # None =>
          call[last[t]].step = "done" /\ TableOf(last[t]) = t
            /\ call[last[t]].kind \in {"hobbies", "onboarding"}
    /\ last["user_hobbies"] = None => RowsOf("user_hobbies") = {}

\* What holds of each call.
CallInv(c) ==
    /\ InOrder(c) /\ OwnKeys(c) /\ Drafted(c) /\ LockFirst(c) /\ Covered(c)
    /\ Written(c) /\ FoundBefore(c)

\* The inductive invariant: the properties, and what makes them inductive.
PInv ==
    /\ TypeOK
    /\ Disjoint /\ ShareOrDelete /\ Deleted /\ Remembered
    /\ \A c \in Calls : CallInv(c)
    /\ HobbiesStored /\ SurvivorsOverlapped /\ OnboardingAtomic

-----------------------------------------------------------------------------
(* What the steps do.                                                      *)

\* The call and the draft of c may change, those of the others do not.
OnlyOf(c) ==
    \A d \in Calls \ {c} :
       call'[d] = call[d] /\ draft'[d] = draft[d] /\ before'[d] = before[d]

\* A call keeps what it was asked.
SameRequest(c) ==
    call'[c].kind = call[c].kind /\ call'[c].list = call[c].list

SameDraft(c) ==
    draft'[c] = draft[c] /\ before'[c] = before[c]

LEMMA RequestEffect ==
    ASSUME TypeOK, NEW c \in Calls, NEW kind \in Kinds, NEW list \in Lists \cup {<<>>},
           NEW step \in {"users", "snapshot"}, Request(c, kind, list, step)
    PROVE  /\ call[c].step = "idle" /\ call' \in [Calls -> Call]
           /\ call'[c].step = step /\ call'[c].kind = kind /\ call'[c].list = list
           /\ call'[c].next = call[c].next /\ call'[c].seen = call[c].seen
           /\ call'[c].share = call[c].share
           /\ OnlyOf(c) /\ SameDraft(c)
           /\ UNCHANGED <<account, name, rows, draft, userLock, last, before>>
<1>. DEFINE r == call[c]
            x == [r EXCEPT !.step = step, !.kind = kind, !.list = list]
<1>1. call' = [call EXCEPT ![c] = x]
  BY DEF Request
<1>2. /\ x \in Call
      /\ x.step = step /\ x.kind = kind /\ x.list = list
      /\ x.next = r.next /\ x.seen = r.seen /\ x.share = r.share
  BY DEF TypeOK, Call, Steps
<1>. QED
  BY <1>1, <1>2 DEF Request, TypeOK, OnlyOf, SameDraft

LEMMA LockUserEffect ==
    ASSUME TypeOK, NEW c \in Calls, LockUser(c)
    PROVE  /\ call[c].step = "users" /\ call' \in [Calls -> Call]
           /\ call'[c].step = IF call[c].kind = "onboarding"
                                 \/ (call[c].kind = "deletion" /\ account)
                              THEN "snapshot" ELSE "insert"
           /\ call'[c].next = call[c].next /\ call'[c].seen = call[c].seen
           /\ call'[c].share = call[c].share
           /\ SameRequest(c) /\ OnlyOf(c) /\ SameDraft(c)
           /\ userLock' = IF account THEN c ELSE userLock
           /\ userLock \in {None, c}
           /\ call[c].kind = "deletion" =>
                 \A d \in Calls \ {c} : ~call[d].share
           /\ UNCHANGED <<account, name, rows, draft, last, before>>
<1>. DEFINE r == call[c]
            s == IF r.kind = "onboarding" \/ (r.kind = "deletion" /\ account)
                 THEN "snapshot" ELSE "insert"
            x == [r EXCEPT !.step = s]
<1>1. call' = [call EXCEPT ![c] = x]
  BY DEF LockUser
<1>2. /\ x \in Call
      /\ x.step = s /\ x.kind = r.kind /\ x.list = r.list
      /\ x.next = r.next /\ x.seen = r.seen /\ x.share = r.share
  BY DEF TypeOK, Call, Steps
<1>3. UserHolders(c) \ {c} = {}
  <2>1. r.step = "users" /\ Blockers(c) = {}
    BY DEF LockUser
  <2>2. Blockers(c) = UserHolders(c) \ {c}
    BY <2>1 DEF Blockers, Inserting
  <2>. QED
    BY <2>1, <2>2
<1>. QED
  BY <1>1, <1>2, <1>3 DEF LockUser, UserHolders, TypeOK, OnlyOf, SameRequest, SameDraft

LEMMA DeletingEffect ==
    ASSUME TypeOK, NEW c \in Calls, NEW seen \in SUBSET (Keys \X Calls),
           Deleting(c, seen)
    PROVE  /\ call' \in [Calls -> Call]
           /\ call'[c].step = (IF seen = {} THEN "insert" ELSE "delete")
           /\ call'[c].seen = seen
           /\ call'[c].next = call[c].next /\ call'[c].share = call[c].share
           /\ SameRequest(c)
           /\ \A d \in Calls \ {c} : call'[d] = call[d]
<1>. DEFINE r == call[c]
            s == IF seen = {} THEN "insert" ELSE "delete"
            x == [r EXCEPT !.seen = seen, !.step = s]
<1>1. call' = [call EXCEPT ![c] = x]
  BY DEF Deleting
<1>2. /\ x \in Call
      /\ x.step = s /\ x.kind = r.kind /\ x.list = r.list
      /\ x.next = r.next /\ x.seen = seen /\ x.share = r.share
  BY DEF TypeOK, Call, Steps
<1>. QED
  BY <1>1, <1>2 DEF TypeOK, SameRequest

LEMMA SnapshotEffect ==
    ASSUME TypeOK, NEW c \in Calls, Snapshot(c)
    PROVE  /\ call[c].step = "snapshot" /\ call' \in [Calls -> Call]
           /\ call'[c].step = (IF Found(c) = {} THEN "insert" ELSE "delete")
           /\ call'[c].seen = Found(c)
           /\ call'[c].next = call[c].next /\ call'[c].share = call[c].share
           /\ SameRequest(c) /\ OnlyOf(c)
           /\ draft'[c] = draft[c] /\ before'[c] = Committed
           /\ UNCHANGED <<account, name, rows, draft, userLock, last>>
           /\ before' \in [Calls -> SUBSET Calls]
<1>1. Found(c) \in SUBSET (Keys \X Calls)
  BY DEF Found, TypeOK, Row
<1>2. Committed \in SUBSET Calls
  BY DEF Committed
<1>. QED
  BY <1>1, <1>2, DeletingEffect DEF Snapshot, OnlyOf, TypeOK

\* The row that a DELETE visits goes to the draft as Gone, unless another row is
\* there by now.
LEMMA DeleteRowEffect ==
    ASSUME TypeOK, NEW c \in Calls, DeleteRow(c)
    PROVE  /\ call[c].step = "delete" /\ call' \in [Calls -> Call]
           /\ call'[c].next = call[c].next /\ call'[c].share = call[c].share
           /\ SameRequest(c) /\ OnlyOf(c) /\ before'[c] = before[c]
           /\ \E s \in call[c].seen :
                /\ LockersOf(s[1]) \subseteq {c}
                /\ call'[c].seen = call[c].seen \ {s}
                /\ call'[c].step = (IF call'[c].seen = {} THEN "insert" ELSE "delete")
                /\ IF s[1] \in DOMAIN rows /\ rows[s[1]].id = s[2]
                   THEN draft'[c] = Put(draft[c], s[1], Gone)
                   ELSE draft'[c] = draft[c]
           /\ DOMAIN draft' = Calls
           /\ UNCHANGED <<account, name, rows, userLock, last, before>>
<1>1. PICK s \in call[c].seen :
        /\ LockersOf(s[1]) \subseteq {c}
        /\ draft' = IF s[1] \in DOMAIN rows /\ rows[s[1]].id = s[2]
                    THEN [draft EXCEPT ![c] = Put(draft[c], s[1], Gone)] ELSE draft
        /\ Deleting(c, call[c].seen \ {s})
  BY DEF DeleteRow
<1>2. call[c].seen \ {s} \in SUBSET (Keys \X Calls)
  BY DEF TypeOK, Call
<1>3. /\ call' \in [Calls -> Call]
      /\ call'[c].step = (IF call[c].seen \ {s} = {} THEN "insert" ELSE "delete")
      /\ call'[c].seen = call[c].seen \ {s}
      /\ call'[c].next = call[c].next /\ call'[c].share = call[c].share
      /\ SameRequest(c)
      /\ \A d \in Calls \ {c} : call'[d] = call[d]
  BY <1>1, <1>2, DeletingEffect
<1>4. /\ DOMAIN draft' = Calls
      /\ \A d \in Calls \ {c} : draft'[d] = draft[d]
      /\ IF s[1] \in DOMAIN rows /\ rows[s[1]].id = s[2]
         THEN draft'[c] = Put(draft[c], s[1], Gone)
         ELSE draft'[c] = draft[c]
  BY <1>1 DEF TypeOK
<1>5. /\ call[c].step = "delete"
      /\ UNCHANGED <<account, name, rows, userLock, last, before>>
  BY DEF DeleteRow
<1>. QED
  BY <1>1, <1>3, <1>4, <1>5 DEF OnlyOf

\* The next element of the list is inserted, its foreign key yet to be checked,
\* or the row in its way is written again or left.
LEMMA InsertRowEffect ==
    ASSUME TypeOK, NEW c \in Calls, InsertRow(c)
    PROVE  /\ Inserting(c) /\ LockersOf(NextKey(c)) \subseteq {c}
           /\ call' \in [Calls -> Call] /\ DOMAIN draft' = Calls
           /\ call'[c].seen = call[c].seen /\ call'[c].share = call[c].share
           /\ SameRequest(c) /\ OnlyOf(c) /\ before'[c] = before[c]
           /\ \/ /\ Current(c, NextKey(c)) = Gone
                 /\ call'[c].step = "check" /\ call'[c].next = call[c].next
                 /\ draft'[c] = Put(draft[c], NextKey(c),
                                    [id |-> c, by |-> c, position |-> call[c].next])
              \/ /\ Current(c, NextKey(c)) # Gone
                 /\ call'[c].step = "insert" /\ call'[c].next = call[c].next + 1
                 /\ IF call[c].kind = "hobbies"
                    THEN draft'[c] = Put(draft[c], NextKey(c),
                            [Current(c, NextKey(c)) EXCEPT !.by = c,
                                !.position = call[c].next])
                    ELSE draft'[c] = draft[c]
           /\ UNCHANGED <<account, name, rows, userLock, last, before>>
<1>. DEFINE r == call[c]
            k == NextKey(c)
            new == [id |-> c, by |-> c, position |-> r.next]
            old == [Current(c, k) EXCEPT !.by = c, !.position = r.next]
<1>1. /\ Inserting(c) /\ LockersOf(k) \subseteq {c}
      /\ r.step = "insert" /\ r.next \in Nat
      /\ UNCHANGED <<account, name, rows, userLock, last, before>>
  BY DEF InsertRow, Inserting, TypeOK, Call
<1>2. CASE /\ Current(c, k) = Gone
           /\ draft' = [draft EXCEPT ![c] = Put(draft[c], k, new)]
           /\ call' = [call EXCEPT ![c].step = "check"]
  <2>. DEFINE x == [r EXCEPT !.step = "check"]
  <2>1. call' = [call EXCEPT ![c] = x]
    BY <1>2
  <2>2. /\ x \in Call
        /\ x.step = "check" /\ x.kind = r.kind /\ x.list = r.list
        /\ x.next = r.next /\ x.seen = r.seen /\ x.share = r.share
    BY DEF TypeOK, Call, Steps
  <2>3. draft'[c] = Put(draft[c], k, new) /\ DOMAIN draft' = Calls
    BY <1>2 DEF TypeOK
  <2>. HIDE DEF x, new, k
  <2>4. OnlyOf(c) /\ SameRequest(c) /\ call' \in [Calls -> Call] /\ before'[c] = before[c]
    BY <1>1, <1>2, <2>1, <2>2 DEF TypeOK, OnlyOf, SameRequest
  <2>5. call'[c] = x
    BY <2>1 DEF TypeOK
  <2>. QED
    BY <1>1, <1>2, <2>2, <2>3, <2>4, <2>5 DEF k, new
<1>3. CASE /\ Current(c, k) # Gone /\ OnConflict(c, k)
           /\ call' = [call EXCEPT ![c].next = r.next + 1]
  <2>. DEFINE n == r.next + 1
              x == [r EXCEPT !.next = n]
  <2>1. call' = [call EXCEPT ![c] = x]
    BY <1>3
  <2>0. r \in Call /\ n \in Nat
    BY DEF TypeOK, Call
  <2>. HIDE DEF n
  <2>2. /\ x \in Call
        /\ x.step = "insert" /\ x.kind = r.kind /\ x.list = r.list
        /\ x.next = n /\ x.seen = r.seen /\ x.share = r.share
    BY <1>1, <2>0 DEF Call, Steps
  <2>3. draft' = IF r.kind = "hobbies"
                 THEN [draft EXCEPT ![c] = Put(draft[c], k, old)] ELSE draft
    BY <1>3 DEF OnConflict
  <2>. HIDE DEF x, old, k
  <2>. USE DEF n
  <2>4. OnlyOf(c) /\ SameRequest(c) /\ call' \in [Calls -> Call] /\ before'[c] = before[c]
    BY <1>1, <2>1, <2>2, <2>3 DEF TypeOK, OnlyOf, SameRequest
  <2>5. call'[c] = x
    BY <2>1 DEF TypeOK
  <2>6. /\ DOMAIN draft' = Calls
        /\ IF r.kind = "hobbies" THEN draft'[c] = Put(draft[c], k, old)
           ELSE draft'[c] = draft[c]
    BY <2>3 DEF TypeOK
  <2>. QED
    BY <1>1, <1>3, <2>2, <2>4, <2>5, <2>6 DEF k, old
<1>. QED
  BY <1>2, <1>3 DEF InsertRow

\* c ends without a trace but its own state.
LEMMA ReleaseEffect ==
    ASSUME TypeOK, NEW c \in Calls, NEW s \in {"done", "failed"}, Release(c, s),
           UNCHANGED before
    PROVE  /\ call' \in [Calls -> Call] /\ DOMAIN draft' = Calls
           /\ call'[c].step = s /\ call'[c].next = call[c].next
           /\ call'[c].seen = {} /\ call'[c].share = FALSE
           /\ draft'[c] = EmptyTable /\ before'[c] = before[c]
           /\ SameRequest(c) /\ OnlyOf(c)
           /\ userLock' = IF userLock = c THEN None ELSE userLock
<1>. DEFINE r == call[c]
            x == [r EXCEPT !.step = s, !.share = FALSE, !.seen = {}]
<1>1. call' = [call EXCEPT ![c] = x]
  BY DEF Release
<1>2. /\ x \in Call
      /\ x.step = s /\ x.kind = r.kind /\ x.list = r.list
      /\ x.next = r.next /\ x.seen = {} /\ x.share = FALSE
  BY DEF TypeOK, Call, Steps
<1>3. /\ DOMAIN draft' = Calls /\ draft'[c] = EmptyTable
      /\ \A d \in Calls \ {c} : draft'[d] = draft[d]
      /\ userLock' = IF userLock = c THEN None ELSE userLock
  BY DEF Release, TypeOK
<1>. HIDE DEF x
<1>. QED
  BY <1>1, <1>2, <1>3 DEF TypeOK, OnlyOf, SameRequest

\* The account is there and can no longer be deleted, or the call fails.
LEMMA CheckUserEffect ==
    ASSUME TypeOK, NEW c \in Calls, CheckUser(c)
    PROVE  /\ call[c].step = "check" /\ Deleter \ {c} = {}
           /\ \/ Rollback(c)
              \/ /\ account /\ call' \in [Calls -> Call]
                 /\ call'[c].step = "insert" /\ call'[c].next = call[c].next + 1
                 /\ call'[c].seen = call[c].seen /\ call'[c].share = TRUE
                 /\ SameRequest(c) /\ OnlyOf(c) /\ SameDraft(c)
                 /\ UNCHANGED <<account, name, rows, draft, userLock, last, before>>
<1>. DEFINE r == call[c]
            n == r.next + 1
            x == [r EXCEPT !.step = "insert", !.share = TRUE, !.next = n]
<1>1. r.step = "check" /\ Blockers(c) = {}
  BY DEF CheckUser
<1>2. Blockers(c) = Deleter \ {c}
  BY <1>1 DEF Blockers, Inserting
<1>3. CASE /\ account /\ call' = [call EXCEPT ![c] = x]
           /\ UNCHANGED <<account, name, rows, draft, userLock, last, before>>
  <2>1. r \in Call /\ n \in Nat
    BY DEF TypeOK, Call
  <2>. HIDE DEF n
  <2>2. /\ x \in Call
        /\ x.step = "insert" /\ x.kind = r.kind /\ x.list = r.list
        /\ x.next = n /\ x.seen = r.seen /\ x.share = TRUE
    BY <2>1 DEF Call, Steps
  <2>. HIDE DEF x
  <2>. USE DEF n
  <2>. QED
    BY <1>1, <1>2, <1>3, <2>2 DEF TypeOK, OnlyOf, SameRequest, SameDraft
<1>4. CASE Rollback(c)
  BY <1>1, <1>2, <1>4
<1>5. \/ Rollback(c)
      \/ /\ account /\ call' = [call EXCEPT ![c] = x]
         /\ UNCHANGED <<account, name, rows, draft, userLock, last, before>>
  BY DEF CheckUser, AccountThere
<1>. QED
  BY <1>3, <1>4, <1>5

-----------------------------------------------------------------------------
(* A step that commits nothing.                                            *)

\* Whoever is not c keeps the row of users, and c gets it only when it is free.
UserLockStep(c) ==
    \/ userLock' = userLock
    \/ userLock = None /\ userLock' = c /\ account
    \/ userLock = c /\ userLock' = None

Quiet(c) ==
    /\ OnlyOf(c) /\ UserLockStep(c)
    /\ call[c].step # "done" /\ call'[c].step # "done"
    /\ UNCHANGED <<account, name, rows, last>>

\* What the state of the calls that do not run is left with.
Idle(c) == draft[c] = EmptyTable /\ userLock # c /\ ~call[c].share

LEMMA QuietTypes ==
    ASSUME TypeOK, NEW c \in Calls, Quiet(c),
           call' \in [Calls -> Call], DOMAIN draft' = Calls,
           DOMAIN draft'[c] \subseteq Keys,
           draft'[c] \in [DOMAIN draft'[c] -> Row \cup {Gone}],
           before' \in [Calls -> SUBSET Calls],
           Running(c)' \/ Idle(c)'
    PROVE  TypeOK'
<1>1. userLock' \in Calls \cup {None}
  BY DEF Quiet, UserLockStep, TypeOK
<1>2. \A d \in Calls :
         /\ DOMAIN draft'[d] \subseteq Keys
         /\ draft'[d] \in [DOMAIN draft'[d] -> Row \cup {Gone}]
  BY DEF TypeOK, Quiet, OnlyOf
<1>3. \A d \in Calls : Running(d)' \/ Idle(d)'
  <2>. SUFFICES ASSUME NEW d \in Calls, d # c
                PROVE  Running(d)' \/ Idle(d)'
    OBVIOUS
  <2>1. call'[d] = call[d] /\ draft'[d] = draft[d]
    BY DEF Quiet, OnlyOf
  <2>2. Running(d) \/ Idle(d)
    BY DEF TypeOK, Idle
  <2>3. userLock' = d => userLock = d
    BY NoneAssumption DEF Quiet, UserLockStep
  <2>. QED
    BY <2>1, <2>2, <2>3 DEF Running, Idle
<1>. QED
  BY <1>1, <1>2, <1>3 DEF TypeOK, Quiet, Idle

LEMMA OthersKeep ==
    ASSUME TypeOK, NEW c \in Calls, Quiet(c), NEW d \in Calls \ {c}, CallInv(d)
    PROVE  CallInv(d)'
<1>1. /\ call'[d] = call[d] /\ draft'[d] = draft[d] /\ before'[d] = before[d]
      /\ account' = account /\ rows' = rows
  BY DEF Quiet, OnlyOf
<1>2. userLock' = d <=> userLock = d
  BY NoneAssumption DEF Quiet, UserLockStep
<1>3. InOrder(d)' /\ OwnKeys(d)' /\ Drafted(d)'
  BY <1>1 DEF CallInv, InOrder, OwnKeys, Drafted, TableOf
<1>4. LockFirst(d)' /\ Covered(d)'
  BY <1>1, <1>2 DEF CallInv, LockFirst, Covered
<1>5. Written(d)'
  BY <1>1 DEF CallInv, Written, Inserted, Running, TableOf
<1>6. FoundBefore(d)'
  <2>1. Committed \subseteq Committed'
    BY DEF Committed, Quiet, OnlyOf
  <2>2. before[d] \subseteq Committed /\ RowsOf("user_hobbies")' = RowsOf("user_hobbies")
    BY <1>1 DEF CallInv, FoundBefore, RowsOf
  <2>. QED
    BY <1>1, <2>1, <2>2 DEF CallInv, FoundBefore
<1>. QED
  BY <1>3, <1>4, <1>5, <1>6 DEF CallInv

LEMMA QuietStep ==
    ASSUME PInv, NEW c \in Calls, Quiet(c), TypeOK', CallInv(c)',
           \A d \in Calls \ {c} : DOMAIN draft'[c] \cap DOMAIN draft[d] = {},
           ShareOrDelete'
    PROVE  PInv'
<1>. USE DEF PInv
<1>1. \A d \in Calls : CallInv(d)'
  BY OthersKeep
<1>2. Disjoint'
  BY DEF Disjoint, Quiet, OnlyOf
<1>3. Deleted'
  BY DEF Deleted, ShareOrDelete, Quiet, UserLockStep
<1>4. \A d \in Calls : call[d].step = "done" => d # c /\ call'[d] = call[d]
                          /\ before'[d] = before[d]
  BY DEF Quiet, OnlyOf
<1>5. /\ account' = account /\ name' = name /\ rows' = rows /\ last' = last
      /\ \A t \in ListTables : RowsOf(t)' = RowsOf(t)
  BY DEF Quiet, RowsOf
<1>6. /\ last \in [ListTables -> Calls \cup {None}] /\ name \in Calls \cup {None}
      /\ "user_hobbies" \in ListTables /\ "user_interests" \in ListTables
  BY DEF TypeOK, ListTables
<1>7. Remembered'
  BY <1>4, <1>5, <1>6 DEF Remembered, TableOf
<1>8. ASSUME NEW t \in ListTables, last[t] # None
      PROVE  Stored(last[t], t)' <=> Stored(last[t], t)
  BY <1>4, <1>5, <1>6, <1>8 DEF Remembered, Stored
<1>9. HobbiesStored'
  BY <1>5, <1>6, <1>8 DEF HobbiesStored
<1>10. SurvivorsOverlapped'
  <2>1. CASE last["user_hobbies"] = None
    BY <1>5, <1>6, <2>1 DEF Remembered, SurvivorsOverlapped
  <2>2. CASE last["user_hobbies"] # None
    BY <1>4, <1>5, <1>6, <2>2 DEF Remembered, SurvivorsOverlapped
  <2>. QED
    BY <2>1, <2>2
<1>11. OnboardingAtomic'
  BY <1>4, <1>5, <1>6, <1>8 DEF Remembered, OnboardingAtomic
<1>. QED
  BY <1>1, <1>2, <1>3, <1>7, <1>9, <1>10, <1>11

-----------------------------------------------------------------------------
(* Each step keeps PInv.                                                   *)

\* Without a draft there is nothing to fit.
LEMMA NothingDrafted ==
    ASSUME NEW d, d = EmptyTable
    PROVE  DOMAIN d = {} /\ \A S : d \in [DOMAIN d -> S]
BY DEF EmptyTable

LEMMA ListType ==
    ASSUME TypeOK, NEW c \in Calls
    PROVE  /\ call[c].list \in Seq(Interests)
           /\ DOMAIN call[c].list = 1..Len(call[c].list)
           /\ call[c].next \in Nat /\ Len(call[c].list) \in Nat
<1>1. <<>> \in Seq(Interests)
  OBVIOUS
<1>2. call[c].list \in Lists \cup {<<>>} /\ call[c].next \in Nat
  BY DEF TypeOK, Call
<1>3. call[c].list \in Seq(Interests)
  BY <1>1, <1>2, ListsAssumption
<1>. QED
  BY <1>2, <1>3

LEMMA NothingInserted ==
    ASSUME TypeOK, NEW c \in Calls, call[c].next = 1, call[c].step # "check"
    PROVE  Inserted(c) = {}
BY ListType DEF Inserted

\* The same of the state after a step.
LEMMA NothingInsertedNext ==
    ASSUME TypeOK', NEW c \in Calls, call'[c].next = 1, call'[c].step # "check"
    PROVE  Inserted(c)' = {}
<1>0. <<>> \in Seq(Interests)
  OBVIOUS
<1>1. call'[c].list \in Seq(Interests)
  <2>1. call'[c].list \in Lists \cup {<<>>}
    BY DEF TypeOK, Call
  <2>. QED
    BY <1>0, <2>1, ListsAssumption
<1>. QED
  BY <1>1 DEF Inserted

LEMMA RequestKeeps ==
    ASSUME PInv, NEW c \in Calls, NEW kind \in Kinds, NEW list \in Lists \cup {<<>>},
           NEW step \in {"users", "snapshot"}, Request(c, kind, list, step),
           kind \in {"rename", "deletion"} => list = <<>>,
           kind = "hobbies" <=> step = "snapshot"
    PROVE  PInv'
<1>. USE DEF PInv
<1>1. /\ call[c].step = "idle" /\ call' \in [Calls -> Call]
      /\ call'[c].step = step /\ call'[c].kind = kind /\ call'[c].list = list
      /\ call'[c].next = call[c].next /\ call'[c].seen = call[c].seen
      /\ call'[c].share = call[c].share
      /\ OnlyOf(c) /\ SameDraft(c)
      /\ UNCHANGED <<account, name, rows, draft, userLock, last, before>>
  BY RequestEffect
<1>2. Quiet(c)
  BY <1>1 DEF Quiet, UserLockStep
<1>3. draft[c] = EmptyTable /\ DOMAIN draft[c] = {} /\ userLock # c /\ ~call[c].share
  BY <1>1, NothingDrafted DEF TypeOK, Running
<1>4. TypeOK'
  <2>1. Running(c)'
    BY <1>1 DEF Running
  <2>. QED
    BY <1>1, <1>2, <2>1, QuietTypes DEF TypeOK
<1>5. CallInv(c)'
  <2>1. InOrder(c) /\ FoundBefore(c)
    BY DEF CallInv
  <2>2. InOrder(c)'
    BY <1>1, <1>3, <2>1 DEF InOrder
  <2>3. OwnKeys(c)' /\ Drafted(c)' /\ LockFirst(c)' /\ Covered(c)'
    BY <1>1, <1>3 DEF OwnKeys, Drafted, LockFirst, Covered, Past
  <2>4. Written(c)'
    <3>1. Inserted(c)' = {}
      BY <1>1, <1>4, <2>1, NothingInsertedNext DEF InOrder
    <3>. QED
      BY <1>1, <1>3, <3>1 DEF Written
  <2>5. FoundBefore(c)'
    <3>1. Committed \subseteq Committed'
      BY <1>1 DEF Committed, OnlyOf
    <3>. QED
      BY <1>1, <2>1, <3>1 DEF FoundBefore
  <2>. QED
    BY <2>2, <2>3, <2>4, <2>5 DEF CallInv
<1>6. ShareOrDelete'
  BY <1>1, <1>3 DEF ShareOrDelete, OnlyOf, TypeOK
<1>7. \A d \in Calls \ {c} : DOMAIN draft'[c] \cap DOMAIN draft[d] = {}
  BY <1>1, <1>3
<1>. QED
  BY <1>2, <1>4, <1>5, <1>6, <1>7, QuietStep

LEMMA LockUserKeeps ==
    ASSUME PInv, NEW c \in Calls, LockUser(c)
    PROVE  PInv'
<1>. USE DEF PInv
<1>1. /\ call[c].step = "users" /\ call' \in [Calls -> Call]
      /\ call'[c].step = IF call[c].kind = "onboarding"
                            \/ (call[c].kind = "deletion" /\ account)
                         THEN "snapshot" ELSE "insert"
      /\ call'[c].next = call[c].next /\ call'[c].seen = call[c].seen
      /\ call'[c].share = call[c].share
      /\ SameRequest(c) /\ OnlyOf(c) /\ SameDraft(c)
      /\ userLock' = IF account THEN c ELSE userLock
      /\ userLock \in {None, c}
      /\ call[c].kind = "deletion" => \A d \in Calls \ {c} : ~call[d].share
      /\ UNCHANGED <<account, name, rows, draft, last, before>>
  BY LockUserEffect
<1>2. InOrder(c) /\ LockFirst(c) /\ FoundBefore(c)
  BY DEF CallInv
<1>3. /\ draft[c] = EmptyTable /\ DOMAIN draft[c] = {} /\ userLock = None
      /\ call[c].kind \in Kinds
  BY <1>1, <1>2, NothingDrafted DEF InOrder, LockFirst, Past, TypeOK, Call
<1>4. Quiet(c)
  BY <1>1, <1>3 DEF Quiet, UserLockStep
<1>5. Running(c)' /\ TypeOK'
  <2>1. Running(c)'
    BY <1>1 DEF Running
  <2>. QED
    BY <1>1, <1>4, <2>1, QuietTypes DEF TypeOK
<1>6. CallInv(c)'
  <2>1. InOrder(c)'
    BY <1>1, <1>2, <1>3 DEF InOrder, SameRequest, Kinds, TableOf
  <2>2. OwnKeys(c)' /\ Drafted(c)'
    BY <1>1, <1>3 DEF OwnKeys, Drafted
  <2>3. LockFirst(c)'
    BY <1>1, <1>2, <1>3, NoneAssumption DEF LockFirst, Past, SameRequest, Kinds, InOrder
  <2>4. Covered(c)'
    BY <1>1, <1>3, NoneAssumption DEF Covered, SameRequest, Kinds
  <2>5. Written(c)'
    <3>1. Inserted(c)' = {}
      BY <1>1, <1>2, <1>5, NothingInsertedNext DEF InOrder
    <3>. QED
      BY <1>1, <1>3, <3>1 DEF Written
  <2>6. FoundBefore(c)'
    <3>1. Committed \subseteq Committed'
      BY <1>1 DEF Committed, OnlyOf
    <3>. QED
      BY <1>1, <1>2, <3>1 DEF FoundBefore, SameRequest, InOrder
  <2>. QED
    BY <2>1, <2>2, <2>3, <2>4, <2>5, <2>6 DEF CallInv
<1>7. ShareOrDelete'
  BY <1>1, <1>2, <1>3 DEF ShareOrDelete, OnlyOf, InOrder, SameRequest
<1>8. \A d \in Calls \ {c} : DOMAIN draft'[c] \cap DOMAIN draft[d] = {}
  BY <1>1, <1>3
<1>. QED
  BY <1>4, <1>5, <1>6, <1>7, <1>8, QuietStep

LEMMA RollbackKeeps ==
    ASSUME PInv, NEW c \in Calls, call[c].step # "done", Rollback(c)
    PROVE  PInv'
<1>. USE DEF PInv
<1>1. Release(c, "failed") /\ UNCHANGED <<account, name, rows, last, before>>
  BY DEF Rollback
<1>2. /\ call' \in [Calls -> Call] /\ DOMAIN draft' = Calls
      /\ call'[c].step = "failed" /\ call'[c].next = call[c].next
      /\ call'[c].seen = {} /\ call'[c].share = FALSE
      /\ draft'[c] = EmptyTable /\ before'[c] = before[c]
      /\ SameRequest(c) /\ OnlyOf(c)
      /\ userLock' = IF userLock = c THEN None ELSE userLock
  BY <1>1, ReleaseEffect
<1>3. Quiet(c)
  BY <1>1, <1>2 DEF Quiet, UserLockStep
<1>4. /\ DOMAIN draft'[c] = {} /\ userLock' # c
      /\ draft'[c] \in [DOMAIN draft'[c] -> Row \cup {Gone}]
  BY <1>2, NothingDrafted, NoneAssumption
<1>5. TypeOK'
  <2>1. Idle(c)'
    BY <1>2, <1>4 DEF Idle
  <2>. QED
    BY <1>1, <1>2, <1>3, <1>4, <2>1, QuietTypes DEF TypeOK
<1>6. CallInv(c)'
  <2>1. InOrder(c) /\ FoundBefore(c)
    BY DEF CallInv
  <2>2. InOrder(c)'
    BY <1>2, <2>1 DEF InOrder, SameRequest
  <2>3. OwnKeys(c)' /\ Drafted(c)' /\ LockFirst(c)' /\ Covered(c)' /\ Written(c)'
    BY <1>2, <1>4 DEF OwnKeys, Drafted, LockFirst, Covered, Past, Written, Running
  <2>4. FoundBefore(c)'
    <3>1. Committed \subseteq Committed'
      BY <1>2, <1>3 DEF Committed, OnlyOf, Quiet
    <3>. QED
      BY <1>2, <2>1, <3>1 DEF FoundBefore
  <2>. QED
    BY <2>2, <2>3, <2>4 DEF CallInv
<1>7. ShareOrDelete'
  <2>1. \A d \in Calls \ {c} : call'[d] = call[d]
    BY <1>2 DEF OnlyOf
  <2>2. userLock' # None => userLock' = userLock /\ userLock # c
    BY <1>2
  <2>3. userLock \in Calls \cup {None}
    BY DEF TypeOK
  <2>. QED
    BY <1>1, <1>2, <2>1, <2>2, <2>3 DEF ShareOrDelete
<1>8. \A d \in Calls \ {c} : DOMAIN draft'[c] \cap DOMAIN draft[d] = {}
  BY <1>4
<1>. QED
  BY <1>3, <1>5, <1>6, <1>7, <1>8, QuietStep

LEMMA SnapshotKeeps ==
    ASSUME PInv, NEW c \in Calls, Snapshot(c)
    PROVE  PInv'
<1>. USE DEF PInv
<1>1. /\ call[c].step = "snapshot" /\ call' \in [Calls -> Call]
      /\ call'[c].step = (IF Found(c) = {} THEN "insert" ELSE "delete")
      /\ call'[c].seen = Found(c)
      /\ call'[c].next = call[c].next /\ call'[c].share = call[c].share
      /\ SameRequest(c) /\ OnlyOf(c)
      /\ draft'[c] = draft[c] /\ before'[c] = Committed
      /\ UNCHANGED <<account, name, rows, draft, userLock, last>>
      /\ before' \in [Calls -> SUBSET Calls]
  BY SnapshotEffect
<1>2. InOrder(c) /\ LockFirst(c)
  BY DEF CallInv
<1>3. draft[c] = EmptyTable /\ DOMAIN draft[c] = {} /\ call[c].kind \in Kinds
  BY <1>1, <1>2, NothingDrafted DEF InOrder, TypeOK, Call
<1>4. Quiet(c)
  BY <1>1 DEF Quiet, UserLockStep
<1>5. TypeOK'
  <2>1. Running(c)'
    BY <1>1 DEF Running
  <2>. QED
    BY <1>1, <1>4, <2>1, QuietTypes DEF TypeOK
<1>6. CallInv(c)'
  <2>1. \A s \in Found(c) : call[c].kind = "deletion" \/ s[1][1] = TableOf(c)
    BY DEF Found
  <2>2. InOrder(c)'
    BY <1>1, <1>2, <1>3, <2>1 DEF InOrder, SameRequest, TableOf
  <2>3. OwnKeys(c)' /\ Drafted(c)'
    BY <1>1, <1>3 DEF OwnKeys, Drafted
  <2>4. LockFirst(c)'
    <3>1. ~account => Found(c) = {}
      BY NothingDrafted DEF Deleted, Found
    <3>. QED
      BY <1>1, <1>2, <1>3, <3>1 DEF LockFirst, SameRequest, Past
  <2>5. Covered(c)' /\ \A k \in RowsOf("user_hobbies") :
                          call[c].kind = "hobbies" => <<k, rows[k].id>> \in Found(c)
    BY <1>1 DEF Covered, SameRequest, Found, TableOf, RowsOf
  <2>6. Written(c)'
    <3>1. Inserted(c)' = {}
      BY <1>1, <1>2, <1>5, NothingInsertedNext DEF InOrder
    <3>. QED
      BY <1>1, <1>3, <3>1 DEF Written
  <2>7. FoundBefore(c)'
    <3>1. Committed \subseteq Committed'
      BY <1>1 DEF Committed, OnlyOf
    <3>2. RowsOf("user_hobbies")' = RowsOf("user_hobbies")
      BY <1>1 DEF RowsOf
    <3>. QED
      BY <1>1, <2>5, <3>1, <3>2 DEF FoundBefore, SameRequest
  <2>. QED
    BY <2>2, <2>3, <2>4, <2>5, <2>6, <2>7 DEF CallInv
<1>7. ShareOrDelete'
  BY <1>1, <1>2 DEF ShareOrDelete, OnlyOf, SameRequest, TypeOK
<1>8. \A d \in Calls \ {c} : DOMAIN draft'[c] \cap DOMAIN draft[d] = {}
  BY <1>1, <1>3
<1>. QED
  BY <1>4, <1>5, <1>6, <1>7, <1>8, QuietStep

\* A key that only c locks is in no other draft.
LEMMA NobodyElses ==
    ASSUME NEW c \in Calls, NEW k, LockersOf(k) \subseteq {c}, Disjoint
    PROVE  \A d \in Calls \ {c} :
              (DOMAIN draft[c] \cup {k}) \cap DOMAIN draft[d] = {}
BY DEF LockersOf, Disjoint

LEMMA DeleteRowKeeps ==
    ASSUME PInv, NEW c \in Calls, DeleteRow(c)
    PROVE  PInv'
<1>. USE DEF PInv
<1>1. /\ call[c].step = "delete" /\ call' \in [Calls -> Call]
      /\ call'[c].next = call[c].next /\ call'[c].share = call[c].share
      /\ SameRequest(c) /\ OnlyOf(c) /\ before'[c] = before[c]
      /\ DOMAIN draft' = Calls
      /\ UNCHANGED <<account, name, rows, userLock, last, before>>
  BY DeleteRowEffect
<1>2. PICK s \in call[c].seen :
        /\ LockersOf(s[1]) \subseteq {c}
        /\ call'[c].seen = call[c].seen \ {s}
        /\ call'[c].step = (IF call'[c].seen = {} THEN "insert" ELSE "delete")
        /\ IF s[1] \in DOMAIN rows /\ rows[s[1]].id = s[2]
           THEN draft'[c] = Put(draft[c], s[1], Gone)
           ELSE draft'[c] = draft[c]
  BY DeleteRowEffect
<1>3. InOrder(c) /\ LockFirst(c) /\ OwnKeys(c) /\ Drafted(c) /\ Written(c)
        /\ Covered(c) /\ FoundBefore(c)
  BY DEF CallInv
<1>4. s[1] \in Keys /\ call[c].kind \in Kinds
  BY DEF TypeOK, Call
<1>5. /\ DOMAIN draft[c] \subseteq DOMAIN draft'[c]
      /\ DOMAIN draft'[c] \subseteq DOMAIN draft[c] \cup {s[1]}
      /\ \A k \in DOMAIN draft'[c] :
            draft'[c][k] = Gone \/ (k \in DOMAIN draft[c] /\ draft'[c][k] = draft[c][k])
      /\ \A k \in DOMAIN draft'[c] : k = s[1] \/ k \in DOMAIN draft[c]
      /\ s[1] \in DOMAIN rows /\ rows[s[1]].id = s[2] => s[1] \in DOMAIN draft'[c]
      /\ \A k \in DOMAIN draft[c] : k # s[1] => draft'[c][k] = draft[c][k]
      /\ s[1] \in DOMAIN draft'[c] \ DOMAIN draft[c] => draft'[c][s[1]] = Gone
  <2>1. CASE s[1] \in DOMAIN rows /\ rows[s[1]].id = s[2]
    <3>. DEFINE d == Put(draft[c], s[1], Gone)
    <3>1. draft'[c] = d
      BY <1>2, <2>1
    <3>2. /\ DOMAIN d = DOMAIN draft[c] \cup {s[1]} /\ d[s[1]] = Gone
          /\ \A k \in DOMAIN draft[c] : k # s[1] => d[k] = draft[c][k]
      BY DEF Put
    <3>. HIDE DEF d
    <3>. QED
      BY <3>1, <3>2
  <2>2. CASE ~(s[1] \in DOMAIN rows /\ rows[s[1]].id = s[2])
    <3>1. draft'[c] = draft[c]
      BY <1>2, <2>2
    <3>. QED
      BY <2>2, <3>1
  <2>. QED
    BY <2>1, <2>2
<1>6. Quiet(c)
  BY <1>1, <1>2 DEF Quiet, UserLockStep
<1>7. TypeOK'
  <2>1. Running(c)'
    BY <1>2 DEF Running
  <2>2. /\ DOMAIN draft'[c] \subseteq Keys
        /\ draft'[c] \in [DOMAIN draft'[c] -> Row \cup {Gone}]
    <3>1. /\ DOMAIN draft[c] \subseteq Keys
          /\ draft[c] \in [DOMAIN draft[c] -> Row \cup {Gone}]
      BY DEF TypeOK
    <3>. QED
      BY <1>2, <1>4, <3>1 DEF Put
  <2>. QED
    BY <1>1, <1>6, <2>1, <2>2, QuietTypes DEF TypeOK
<1>8. CallInv(c)'
  <2>1. InOrder(c)'
    BY <1>1, <1>2, <1>3 DEF InOrder, SameRequest, TableOf
  <2>2. OwnKeys(c)'
    <3>1. call[c].kind = "deletion" \/
            (call[c].kind \in {"hobbies", "onboarding"} /\ s[1][1] = TableOf(c))
      BY <1>1, <1>3, <1>4 DEF InOrder, Kinds
    <3>2. TableOf(c)' = TableOf(c)
      BY <1>1 DEF SameRequest, TableOf
    <3>3. CASE call[c].kind = "deletion"
      BY <1>1, <1>3, <1>5, <3>3 DEF OwnKeys, SameRequest
    <3>4. CASE call[c].kind \in {"hobbies", "onboarding"} /\ s[1][1] = TableOf(c)
      BY <1>1, <1>3, <1>5, <3>2, <3>4 DEF OwnKeys, SameRequest
    <3>. QED
      BY <3>1, <3>3, <3>4
  <2>3. Drafted(c)'
    BY <1>1, <1>3, <1>5 DEF Drafted
  <2>4. LockFirst(c)'
    BY <1>1, <1>2, <1>3 DEF LockFirst, SameRequest, Past
  <2>5. ASSUME NEW k \in DOMAIN rows,
               k \in DOMAIN draft[c] \/ <<k, rows[k].id>> \in call[c].seen
        PROVE  k \in DOMAIN draft'[c] \/ <<k, rows[k].id>> \in call'[c].seen
    BY <1>2, <1>5, <2>5
  <2>6. Covered(c)'
    BY <1>1, <1>3, <2>5 DEF Covered, SameRequest
  <2>7. Written(c)'
    <3>1. Inserted(c) = {}
      BY <1>1, <1>3, NothingInserted DEF InOrder
    <3>2. \A k \in DOMAIN draft[c] : draft[c][k] = Gone
      BY <1>1, <1>3, <3>1 DEF Written, Running
    <3>3. Inserted(c)' = {}
      BY <1>1, <1>2, <1>3, <1>7, NothingInsertedNext DEF InOrder
    <3>. QED
      BY <1>5, <3>2, <3>3 DEF Written
  <2>8. FoundBefore(c)'
    <3>1. Committed \subseteq Committed'
      BY <1>1 DEF Committed, OnlyOf
    <3>2. RowsOf("user_hobbies")' = RowsOf("user_hobbies")
             /\ RowsOf("user_hobbies") \subseteq DOMAIN rows
      BY <1>1 DEF RowsOf
    <3>. QED
      BY <1>1, <1>3, <2>5, <3>1, <3>2 DEF FoundBefore, SameRequest
  <2>. QED
    BY <2>1, <2>2, <2>3, <2>4, <2>6, <2>7, <2>8 DEF CallInv
<1>9. ShareOrDelete'
  BY <1>1 DEF ShareOrDelete, OnlyOf, SameRequest, TypeOK
<1>10. \A d \in Calls \ {c} : DOMAIN draft'[c] \cap DOMAIN draft[d] = {}
  <2>. HIDE DEF PInv
  <2>1. Disjoint
    BY DEF PInv
  <2>. QED
    BY <1>2, <1>5, <2>1, NobodyElses
<1>. QED
  BY <1>6, <1>7, <1>8, <1>9, <1>10, QuietStep

\* After an INSERT the next key is in the draft, for an onboarding that leaves a
\* row in its way has written that row itself.
LEMMA InsertRowDraft ==
    ASSUME PInv, NEW c \in Calls, InsertRow(c)
    PROVE  LET k == NextKey(c) IN
           /\ DOMAIN draft'[c] = DOMAIN draft[c] \cup {k}
           /\ \A j \in DOMAIN draft[c] : j # k => draft'[c][j] = draft[c][j]
           /\ draft'[c][k] \in Row /\ draft'[c][k].by = c
           /\ call[c].kind = "hobbies" => draft'[c][k].position = call[c].next
           /\ \/ draft'[c][k].id = c /\ (call'[c].share \/ call'[c].step = "check")
              \/ k \in DOMAIN rows /\ rows[k].id = draft'[c][k].id
<1>. USE DEF PInv
<1>. DEFINE k == NextKey(c)
            n == call[c].next
            new == [id |-> c, by |-> c, position |-> n]
            old == [Current(c, k) EXCEPT !.by = c, !.position = n]
<1>1. /\ Inserting(c) /\ call'[c].share = call[c].share
      /\ call[c].step = "insert" /\ n \in Nat /\ call[c].kind \in Kinds
  BY InsertRowEffect DEF Inserting, TypeOK, Call
<1>2. InOrder(c) /\ LockFirst(c) /\ Drafted(c) /\ Covered(c)
  BY DEF CallInv
<1>3. /\ draft[c] \in [DOMAIN draft[c] -> Row \cup {Gone}]
      /\ rows \in [DOMAIN rows -> Row]
  BY DEF TypeOK
<1>4. ASSUME NEW x \in Row, draft'[c] = Put(draft[c], k, x), x.by = c, x.position = n,
             \/ x.id = c /\ (call'[c].share \/ call'[c].step = "check")
             \/ k \in DOMAIN rows /\ rows[k].id = x.id
      PROVE  /\ DOMAIN draft'[c] = DOMAIN draft[c] \cup {k}
             /\ \A j \in DOMAIN draft[c] : j # k => draft'[c][j] = draft[c][j]
             /\ draft'[c][k] = x
  <2>. HIDE DEF k
  <2>. QED
    BY <1>4 DEF Put
<1>5. CASE /\ Current(c, k) = Gone
           /\ call'[c].step = "check"
           /\ draft'[c] = Put(draft[c], k, new)
  <2>1. new \in Row /\ new.by = c /\ new.position = n /\ new.id = c
    BY <1>1 DEF Row
  <2>. HIDE DEF new, k
  <2>. QED
    BY <1>4, <1>5, <2>1 DEF k
<1>6. CASE /\ Current(c, k) # Gone /\ call'[c].step = "insert"
           /\ call[c].kind = "hobbies" /\ draft'[c] = Put(draft[c], k, old)
  <2>. HIDE DEF k
  <2>1. /\ Current(c, k) \in Row
        /\ \/ Current(c, k).id = c /\ call[c].share
           \/ k \in DOMAIN rows /\ rows[k].id = Current(c, k).id
    BY <1>1, <1>2, <1>3, <1>6 DEF Current, Drafted
  <2>2. old \in Row /\ old.by = c /\ old.position = n /\ old.id = Current(c, k).id
    BY <1>1, <2>1 DEF Row
  <2>. HIDE DEF old
  <2>. QED
    BY <1>1, <1>4, <1>6, <2>1, <2>2 DEF k
<1>7. CASE /\ Current(c, k) # Gone /\ call'[c].step = "insert"
           /\ call[c].kind # "hobbies" /\ draft'[c] = draft[c]
  <2>1. call[c].kind = "onboarding"
    BY <1>1, <1>2, <1>7 DEF InOrder, Inserting, Kinds
  <2>2. k[1] = "user_interests"
    BY <2>1 DEF NextKey, TableOf
  <2>. HIDE DEF k
  <2>3. k \in DOMAIN draft[c]
    <3>1. CASE account
      <4>1. userLock = c
        BY <1>1, <1>2, <2>1, <3>1 DEF LockFirst, Past
      <4>2. call[c].seen = {}
        BY <1>1, <1>2 DEF InOrder
      <4>. QED
        BY <1>1, <1>2, <1>7, <2>1, <2>2, <4>1, <4>2 DEF Covered, Current
    <3>2. CASE ~account
      BY <1>7, <3>2, NothingDrafted DEF Current, Deleted
    <3>. QED
      BY <3>1, <3>2
  <2>4. draft[c][k] # Gone /\ draft[c][k] \in Row
    BY <1>3, <1>7, <2>3 DEF Current
  <2>. QED
    BY <1>1, <1>2, <1>7, <2>3, <2>4 DEF Drafted, k
<1>8. \/ /\ Current(c, k) = Gone
         /\ call'[c].step = "check"
         /\ draft'[c] = Put(draft[c], k, new)
      \/ /\ Current(c, k) # Gone /\ call'[c].step = "insert"
         /\ IF call[c].kind = "hobbies" THEN draft'[c] = Put(draft[c], k, old)
            ELSE draft'[c] = draft[c]
  BY InsertRowEffect
<1>. QED
  BY <1>5, <1>6, <1>7, <1>8

LEMMA InsertRowKeeps ==
    ASSUME PInv, NEW c \in Calls, InsertRow(c)
    PROVE  PInv'
<1>. USE DEF PInv
<1>. DEFINE k == NextKey(c)
            n == call[c].next
<1>1. /\ Inserting(c) /\ LockersOf(k) \subseteq {c}
      /\ call' \in [Calls -> Call] /\ DOMAIN draft' = Calls
      /\ call'[c].seen = call[c].seen /\ call'[c].share = call[c].share
      /\ SameRequest(c) /\ OnlyOf(c) /\ before'[c] = before[c]
      /\ \/ call'[c].step = "check" /\ call'[c].next = n
         \/ call'[c].step = "insert" /\ call'[c].next = n + 1
      /\ UNCHANGED <<account, name, rows, userLock, last, before>>
  BY InsertRowEffect
<1>2. /\ DOMAIN draft'[c] = DOMAIN draft[c] \cup {k}
      /\ \A j \in DOMAIN draft[c] : j # k => draft'[c][j] = draft[c][j]
      /\ draft'[c][k] \in Row /\ draft'[c][k].by = c
      /\ call[c].kind = "hobbies" => draft'[c][k].position = n
      /\ \/ draft'[c][k].id = c /\ (call'[c].share \/ call'[c].step = "check")
         \/ k \in DOMAIN rows /\ rows[k].id = draft'[c][k].id
  BY InsertRowDraft
<1>3. InOrder(c) /\ LockFirst(c) /\ OwnKeys(c) /\ Drafted(c) /\ Written(c)
        /\ Covered(c) /\ FoundBefore(c)
  BY DEF CallInv
<1>4. /\ call[c].step = "insert" /\ n \in DOMAIN call[c].list
      /\ call[c].list \in Seq(Interests) /\ n \in Nat /\ n >= 1
      /\ DOMAIN call[c].list = 1..Len(call[c].list)
      /\ call[c].kind \in {"hobbies", "onboarding"}
  BY <1>1, <1>3, ListType DEF Inserting, InOrder, TypeOK, Call, Kinds
<1>5. /\ k \in Keys /\ k = <<TableOf(c), call[c].list[n]>>
      /\ Gone \notin Row
  BY <1>4, NoneAssumption DEF NextKey, Keys, TableOf, ListTables, Row, Gone
<1>6. Quiet(c) /\ TableOf(c)' = TableOf(c)
  BY <1>1, <1>4 DEF Quiet, UserLockStep, SameRequest, TableOf
<1>7. TypeOK'
  <2>1. Running(c)'
    BY <1>1 DEF Running
  <2>2. /\ DOMAIN draft'[c] \subseteq Keys
        /\ draft'[c] \in [DOMAIN draft'[c] -> Row \cup {Gone}]
    <3>1. /\ DOMAIN draft[c] \subseteq Keys
          /\ draft[c] \in [DOMAIN draft[c] -> Row \cup {Gone}]
          /\ draft[c][k] \in Row \cup {Gone} \/ k \notin DOMAIN draft[c]
      BY DEF TypeOK
    <3>2. draft'[c] = [j \in DOMAIN draft'[c] |-> draft'[c][j]]
      <4>. DEFINE new == [id |-> c, by |-> c, position |-> n]
                  old == [Current(c, k) EXCEPT !.by = c, !.position = n]
      <4>0. \/ draft'[c] = Put(draft[c], k, new) \/ draft'[c] = Put(draft[c], k, old)
            \/ draft'[c] = draft[c]
        BY InsertRowEffect
      <4>. HIDE DEF new, old, k
      <4>1. (\E x : draft'[c] = Put(draft[c], k, x)) \/ draft'[c] = draft[c]
        BY <4>0
      <4>2. \A x : Put(draft[c], k, x) = [j \in DOMAIN Put(draft[c], k, x) |->
                                            Put(draft[c], k, x)[j]]
        BY DEF Put
      <4>. QED
        BY <3>1, <4>1, <4>2
    <3>. HIDE DEF k
    <3>. QED
      BY <1>2, <1>5, <3>1, <3>2
  <2>. QED
    BY <1>1, <1>6, <2>1, <2>2, QuietTypes DEF TypeOK
<1>. HIDE DEF k
<1>8. CallInv(c)'
  <2>1. InOrder(c)'
    BY <1>1, <1>3, <1>4, <1>6 DEF InOrder, SameRequest
  <2>2. OwnKeys(c)'
    BY <1>1, <1>2, <1>3, <1>4, <1>5, <1>6 DEF OwnKeys, SameRequest
  <2>3. Drafted(c)'
    <3>. SUFFICES ASSUME NEW j \in DOMAIN draft'[c], draft'[c][j] # Gone
                  PROVE  /\ draft'[c][j].by = c
                         /\ \/ draft'[c][j].id = c
                                 /\ (call'[c].share \/ call'[c].step = "check")
                            \/ j \in DOMAIN rows /\ rows[j].id = draft'[c][j].id
      BY <1>1 DEF Drafted
    <3>1. CASE j = k
      BY <1>2, <3>1
    <3>2. CASE j # k
      BY <1>1, <1>2, <1>3, <1>4, <3>2 DEF Drafted
    <3>. QED
      BY <3>1, <3>2
  <2>4. LockFirst(c)'
    <3>1. (\E j \in DOMAIN draft'[c] : draft'[c][j] = Gone)
            => \E j \in DOMAIN draft[c] : draft[c][j] = Gone
      BY <1>2, <1>5
    <3>. QED
      BY <1>1, <1>3, <1>4, <3>1 DEF LockFirst, SameRequest, Past
  <2>5. Covered(c)'
    BY <1>1, <1>2, <1>3, <1>4 DEF Covered, SameRequest
  <2>6. Written(c)'
    <3>1. Inserted(c)' = Inserted(c) \cup {n} /\ \A m \in Inserted(c) : m <= n
      BY <1>1, <1>4 DEF Inserted, SameRequest
    <3>2. ASSUME NEW m \in Inserted(c)'
          PROVE  LET j == <<TableOf(c)', call'[c].list[m]>> IN
                 j \in DOMAIN draft'[c] /\ draft'[c][j] # Gone
      <4>. DEFINE j == <<TableOf(c), call[c].list[m]>>
      <4>1. CASE j = k
        BY <1>1, <1>2, <1>5, <1>6, <4>1 DEF SameRequest
      <4>2. CASE j # k
        <5>1. m \in Inserted(c)
          BY <1>5, <3>1, <4>2
        <5>2. j \in DOMAIN draft[c] /\ draft[c][j] # Gone
          BY <1>3, <1>4, <5>1 DEF Written, Running
        <5>. QED
          BY <1>1, <1>2, <1>6, <4>2, <5>2 DEF SameRequest
      <4>. QED
        BY <4>1, <4>2
    <3>3. ASSUME NEW j \in DOMAIN draft'[c], draft'[c][j] # Gone
          PROVE  \E m \in Inserted(c)' :
                    /\ call[c].list[m] = j[2]
                    /\ call[c].kind = "hobbies" =>
                          /\ draft'[c][j].position = m
                          /\ \A i \in Inserted(c)' : call[c].list[i] = j[2] => i <= m
      <4>1. CASE j = k
        BY <1>2, <1>4, <1>5, <3>1, <4>1
      <4>2. CASE j # k
        <5>1. j \in DOMAIN draft[c] /\ draft[c][j] # Gone /\ draft'[c][j] = draft[c][j]
          BY <1>2, <3>3, <4>2
        <5>2. PICK m \in Inserted(c) :
                 /\ call[c].list[m] = j[2]
                 /\ call[c].kind = "hobbies" =>
                       /\ draft[c][j].position = m
                       /\ \A i \in Inserted(c) : call[c].list[i] = j[2] => i <= m
          BY <1>3, <1>4, <5>1 DEF Written, Running
        <5>3. call[c].list[n] # j[2]
          <6>1. j \in Keys /\ j[1] = TableOf(c)
            BY <1>3, <1>4, <5>1 DEF OwnKeys, TypeOK
          <6>. QED
            BY <1>5, <4>2, <6>1 DEF Keys
        <5>. QED
          BY <3>1, <5>1, <5>2, <5>3
      <4>. QED
        BY <4>1, <4>2
    <3>. QED
      BY <1>1, <3>2, <3>3 DEF Written, SameRequest
  <2>7. FoundBefore(c)'
    <3>1. Committed \subseteq Committed'
      BY <1>1, <1>4 DEF Committed, OnlyOf
    <3>2. RowsOf("user_hobbies")' = RowsOf("user_hobbies")
      BY <1>1 DEF RowsOf
    <3>. QED
      BY <1>1, <1>2, <1>3, <1>4, <3>1, <3>2 DEF FoundBefore, SameRequest
  <2>. QED
    BY <2>1, <2>2, <2>3, <2>4, <2>5, <2>6, <2>7 DEF CallInv
<1>9. ShareOrDelete'
  BY <1>1 DEF ShareOrDelete, OnlyOf, SameRequest, TypeOK
<1>10. \A d \in Calls \ {c} : DOMAIN draft'[c] \cap DOMAIN draft[d] = {}
  <2>. HIDE DEF PInv
  <2>1. Disjoint
    BY DEF PInv
  <2>. QED
    BY <1>1, <1>2, <2>1, NobodyElses
<1>. QED
  BY <1>6, <1>7, <1>8, <1>9, <1>10, QuietStep

LEMMA CheckUserKeeps ==
    ASSUME PInv, NEW c \in Calls, CheckUser(c)
    PROVE  PInv'
<1>. USE DEF PInv
<1>1. call[c].step = "check" /\ Deleter \ {c} = {}
  BY CheckUserEffect
<1>2. CASE Rollback(c)
  BY <1>1, <1>2, RollbackKeeps
<1>3. CASE /\ account /\ call' \in [Calls -> Call]
           /\ call'[c].step = "insert" /\ call'[c].next = call[c].next + 1
           /\ call'[c].seen = call[c].seen /\ call'[c].share = TRUE
           /\ SameRequest(c) /\ OnlyOf(c) /\ SameDraft(c)
           /\ UNCHANGED <<account, name, rows, draft, userLock, last, before>>
  <2>1. InOrder(c) /\ LockFirst(c) /\ OwnKeys(c) /\ Drafted(c) /\ Written(c)
          /\ Covered(c) /\ FoundBefore(c)
    BY DEF CallInv
  <2>2. /\ call[c].list \in Seq(Interests) /\ call[c].next \in Nat
        /\ call[c].next >= 1 /\ call[c].next <= Len(call[c].list)
        /\ call[c].kind \in {"hobbies", "onboarding"}
    BY <1>1, <2>1, ListType DEF InOrder, TypeOK, Call, Kinds
  <2>3. Quiet(c) /\ TableOf(c)' = TableOf(c)
    BY <1>1, <1>3 DEF Quiet, UserLockStep, SameRequest, TableOf
  <2>4. TypeOK'
    <3>1. Running(c)'
      BY <1>3 DEF Running
    <3>. QED
      BY <1>3, <2>3, <3>1, QuietTypes DEF TypeOK
  <2>5. CallInv(c)'
    <3>1. InOrder(c)'
      BY <1>1, <1>3, <2>1, <2>2, <2>3 DEF InOrder, SameRequest
    <3>2. OwnKeys(c)' /\ Drafted(c)'
      BY <1>1, <1>3, <2>1, <2>3 DEF OwnKeys, Drafted, SameRequest
    <3>3. LockFirst(c)' /\ Covered(c)'
      BY <1>1, <1>3, <2>1 DEF LockFirst, Covered, SameRequest, Past
    <3>4. Written(c)'
      <4>1. Inserted(c)' = Inserted(c)
        BY <1>1, <1>3, <2>2 DEF Inserted, SameRequest
      <4>. QED
        BY <1>1, <1>3, <2>1, <2>3, <4>1 DEF Written, SameRequest, Running
    <3>5. FoundBefore(c)'
      <4>1. Committed \subseteq Committed'
        BY <1>1, <1>3 DEF Committed, OnlyOf
      <4>2. RowsOf("user_hobbies")' = RowsOf("user_hobbies")
        BY <1>3 DEF RowsOf
      <4>. QED
        BY <1>1, <1>3, <2>1, <4>1, <4>2 DEF FoundBefore, SameRequest
    <3>. QED
      BY <3>1, <3>2, <3>3, <3>4, <3>5 DEF CallInv
  <2>6. ShareOrDelete'
    <3>1. userLock # None => call[userLock].kind # "deletion"
      BY <1>1, <2>2, NoneAssumption DEF Deleter, TypeOK
    <3>2. \A d \in Calls : call'[d].kind = call[d].kind
      BY <1>3 DEF SameRequest, OnlyOf
    <3>. QED
      BY <1>3, <3>1, <3>2 DEF ShareOrDelete, TypeOK
  <2>7. \A d \in Calls \ {c} : DOMAIN draft'[c] \cap DOMAIN draft[d] = {}
    BY <1>3 DEF Disjoint
  <2>. QED
    BY <2>3, <2>4, <2>5, <2>6, <2>7, QuietStep
<1>. QED
  BY <1>2, <1>3, CheckUserEffect

\* What is committed is what the call wrote, and the rest as it was.
LEMMA ApplyRows ==
    ASSUME TypeOK, NEW c \in Calls
    PROVE  LET wrote(k) == k \in DOMAIN draft[c]
               all == DOMAIN rows \cup DOMAIN draft[c] IN
           /\ DOMAIN Apply(c) =
                {k \in all : IF wrote(k) THEN draft[c][k] # Gone ELSE TRUE}
           /\ \A k \in DOMAIN Apply(c) :
                 Apply(c)[k] = IF wrote(k) THEN draft[c][k] ELSE rows[k]
           /\ Apply(c) = [k \in DOMAIN Apply(c) |-> Apply(c)[k]]
<1>. DEFINE all == [k \in DOMAIN rows \cup DOMAIN draft[c] |->
                      IF k \in DOMAIN draft[c] THEN draft[c][k] ELSE rows[k]]
            gone == {k \in DOMAIN all : all[k] = Gone}
<1>1. Apply(c) = Drop(all, gone)
  BY DEF Apply
<1>2. \A k \in DOMAIN rows : rows[k] # Gone
  BY NoneAssumption DEF TypeOK, Row, Gone
<1>3. /\ DOMAIN all = DOMAIN rows \cup DOMAIN draft[c]
      /\ \A k \in DOMAIN all :
            all[k] = IF k \in DOMAIN draft[c] THEN draft[c][k] ELSE rows[k]
  OBVIOUS
<1>. HIDE DEF all
<1>4. /\ DOMAIN Drop(all, gone) = DOMAIN all \ gone
      /\ \A k \in DOMAIN all \ gone : Drop(all, gone)[k] = all[k]
      /\ Drop(all, gone) = [k \in DOMAIN Drop(all, gone) |-> Drop(all, gone)[k]]
  BY DEF Drop
<1>5. DOMAIN all \ gone = {k \in DOMAIN rows \cup DOMAIN draft[c] :
                             IF k \in DOMAIN draft[c] THEN draft[c][k] # Gone ELSE TRUE}
  BY <1>2, <1>3
<1>. QED
  BY <1>1, <1>3, <1>4, <1>5

LEMMA CommitEffect ==
    ASSUME TypeOK, NEW c \in Calls, Commit(c)
    PROVE  /\ call[c].step = "insert" /\ call[c].next > Len(call[c].list)
           /\ call' \in [Calls -> Call] /\ DOMAIN draft' = Calls
           /\ call'[c].step = "done" /\ call'[c].next = call[c].next
           /\ call'[c].seen = {} /\ call'[c].share = FALSE
           /\ draft'[c] = EmptyTable /\ SameRequest(c) /\ OnlyOf(c)
           /\ before' = before
           /\ userLock' = IF userLock = c THEN None ELSE userLock
           /\ account' = (account /\ ~(userLock = c /\ call[c].kind = "deletion"))
           /\ name' = IF userLock # c THEN name
                      ELSE IF call[c].kind = "deletion" THEN None ELSE c
           /\ last' = IF call[c].kind \in {"hobbies", "onboarding"}
                      THEN [last EXCEPT ![TableOf(c)] = c] ELSE last
           /\ \A k : k \in DOMAIN rows' <=>
                        \/ k \in DOMAIN draft[c] /\ draft[c][k] # Gone
                        \/ k \in DOMAIN rows /\ k \notin DOMAIN draft[c]
           /\ \A k \in DOMAIN rows' :
                 rows'[k] = IF k \in DOMAIN draft[c] THEN draft[c][k] ELSE rows[k]
           /\ rows' = [k \in DOMAIN rows' |-> rows'[k]]
<1>1. /\ call[c].step = "insert" /\ call[c].next > Len(call[c].list)
      /\ rows' = Apply(c) /\ Release(c, "done") /\ before' = before
      /\ account' = (account /\ ~(userLock = c /\ call[c].kind = "deletion"))
      /\ name' = IF userLock # c THEN name
                 ELSE IF call[c].kind = "deletion" THEN None ELSE c
      /\ last' = IF call[c].kind \in {"hobbies", "onboarding"}
                 THEN [last EXCEPT ![TableOf(c)] = c] ELSE last
  BY DEF Commit
<1>2. /\ call' \in [Calls -> Call] /\ DOMAIN draft' = Calls
      /\ call'[c].step = "done" /\ call'[c].next = call[c].next
      /\ call'[c].seen = {} /\ call'[c].share = FALSE
      /\ draft'[c] = EmptyTable /\ SameRequest(c) /\ OnlyOf(c)
      /\ userLock' = IF userLock = c THEN None ELSE userLock
  BY <1>1, ReleaseEffect
<1>3. /\ \A k : k \in DOMAIN rows' <=>
                   \/ k \in DOMAIN draft[c] /\ draft[c][k] # Gone
                   \/ k \in DOMAIN rows /\ k \notin DOMAIN draft[c]
      /\ \A k \in DOMAIN rows' :
            rows'[k] = IF k \in DOMAIN draft[c] THEN draft[c][k] ELSE rows[k]
      /\ rows' = [k \in DOMAIN rows' |-> rows'[k]]
  BY <1>1, ApplyRows
<1>. QED
  BY <1>1, <1>2, <1>3

-----------------------------------------------------------------------------
(* A commit.                                                               *)

\* A call that inserts and has the row of users has found all that it deletes.
LEMMA CommitHas ==
    ASSUME PInv, NEW c \in Calls, Commit(c)
    PROVE  /\ InOrder(c) /\ OwnKeys(c) /\ Drafted(c) /\ LockFirst(c) /\ Covered(c)
           /\ Written(c) /\ FoundBefore(c)
           /\ call[c].seen = {} /\ call[c].kind \in Kinds
           /\ call[c].kind = "onboarding" /\ account => userLock = c
           /\ DOMAIN draft[c] \subseteq Keys
           /\ \A k \in DOMAIN draft[c] : draft[c][k] # Gone =>
                 \/ draft[c][k].id = c /\ call[c].share
                 \/ k \in DOMAIN rows /\ rows[k].id = draft[c][k].id
           /\ \A k \in DOMAIN draft[c] : draft[c][k] \in Row \cup {Gone}
<1>1. call[c].step = "insert"
  BY DEF Commit
<1>2. /\ InOrder(c) /\ OwnKeys(c) /\ Drafted(c) /\ LockFirst(c) /\ Covered(c)
      /\ Written(c) /\ FoundBefore(c)
  BY DEF PInv, CallInv
<1>3. call[c].kind \in Kinds /\ DOMAIN draft[c] \subseteq Keys
        /\ \A k \in DOMAIN draft[c] : draft[c][k] \in Row \cup {Gone}
  BY DEF PInv, TypeOK, Call
<1>4. call[c].seen = {} /\ (call[c].kind = "onboarding" /\ account => userLock = c)
  BY <1>1, <1>2 DEF InOrder, LockFirst, Past
<1>5. \A k \in DOMAIN draft[c] : draft[c][k] # Gone =>
         \/ draft[c][k].id = c /\ call[c].share
         \/ k \in DOMAIN rows /\ rows[k].id = draft[c][k].id
  BY <1>1, <1>2 DEF Drafted
<1>. QED
  BY <1>2, <1>3, <1>4, <1>5

\* The deletion of an account leaves no row.
LEMMA DeletionEmpties ==
    ASSUME PInv, NEW c \in Calls, Commit(c), userLock = c, call[c].kind = "deletion"
    PROVE  DOMAIN rows' = {}
<1>1. \A k \in DOMAIN rows : k \in DOMAIN draft[c]
  BY CommitHas, CommitEffect DEF Covered, PInv
<1>2. \A k \in DOMAIN draft[c] : draft[c][k] = Gone
  BY CommitHas DEF OwnKeys
<1>3. \A k : k \in DOMAIN rows' <=>
               \/ k \in DOMAIN draft[c] /\ draft[c][k] # Gone
               \/ k \in DOMAIN rows /\ k \notin DOMAIN draft[c]
  BY CommitEffect DEF PInv
<1>. QED
  BY <1>1, <1>2, <1>3

\* Another commit leaves every list alone but its own.
LEMMA OtherListsKept ==
    ASSUME PInv, NEW c \in Calls, Commit(c), account', NEW t \in ListTables,
           call[c].kind \in {"hobbies", "onboarding"} => TableOf(c) # t
    PROVE  /\ RowsOf(t)' = RowsOf(t)
           /\ \A k \in RowsOf(t) : rows'[k] = rows[k]
<1>1. /\ account /\ ~(userLock = c /\ call[c].kind = "deletion")
      /\ \A k : k \in DOMAIN rows' <=>
                   \/ k \in DOMAIN draft[c] /\ draft[c][k] # Gone
                   \/ k \in DOMAIN rows /\ k \notin DOMAIN draft[c]
      /\ \A k \in DOMAIN rows' :
            rows'[k] = IF k \in DOMAIN draft[c] THEN draft[c][k] ELSE rows[k]
  BY CommitEffect DEF PInv
<1>2. \A k \in DOMAIN draft[c] : k[1] # t
  <2>. SUFFICES ASSUME NEW k \in DOMAIN draft[c], k[1] = t
                PROVE  FALSE
    OBVIOUS
  <2>1. call[c].kind = "deletion" /\ draft[c][k] = Gone
    BY CommitHas DEF OwnKeys
  <2>. QED
    BY <1>1, <2>1, CommitHas DEF LockFirst
<1>. QED
  BY <1>1, <1>2 DEF RowsOf

LEMMA CommitTypes ==
    ASSUME PInv, NEW c \in Calls, Commit(c)
    PROVE  TypeOK'
<1>. USE DEF PInv
<1>1. /\ call' \in [Calls -> Call] /\ DOMAIN draft' = Calls
      /\ call'[c].step = "done" /\ call'[c].share = FALSE
      /\ draft'[c] = EmptyTable /\ OnlyOf(c) /\ before' = before
      /\ userLock' = IF userLock = c THEN None ELSE userLock
      /\ account' = (account /\ ~(userLock = c /\ call[c].kind = "deletion"))
      /\ name' = IF userLock # c THEN name
                 ELSE IF call[c].kind = "deletion" THEN None ELSE c
      /\ last' = IF call[c].kind \in {"hobbies", "onboarding"}
                 THEN [last EXCEPT ![TableOf(c)] = c] ELSE last
  BY CommitEffect
<1>2. /\ account' \in BOOLEAN /\ name' \in Calls \cup {None}
      /\ userLock' \in Calls \cup {None}
      /\ last' \in [ListTables -> Calls \cup {None}]
      /\ before' \in [Calls -> SUBSET Calls]
  BY <1>1 DEF TypeOK
<1>3. DOMAIN rows' \subseteq Keys /\ rows' \in [DOMAIN rows' -> Row]
  <2>1. /\ DOMAIN rows \subseteq Keys /\ \A k \in DOMAIN rows : rows[k] \in Row
        /\ DOMAIN draft[c] \subseteq Keys
        /\ \A k \in DOMAIN draft[c] : draft[c][k] \in Row \cup {Gone}
    BY DEF TypeOK
  <2>2. /\ \A k : k \in DOMAIN rows' <=>
                     \/ k \in DOMAIN draft[c] /\ draft[c][k] # Gone
                     \/ k \in DOMAIN rows /\ k \notin DOMAIN draft[c]
        /\ \A k \in DOMAIN rows' :
              rows'[k] = IF k \in DOMAIN draft[c] THEN draft[c][k] ELSE rows[k]
        /\ rows' = [k \in DOMAIN rows' |-> rows'[k]]
    BY CommitEffect
  <2>. QED
    BY <2>1, <2>2
<1>4. \A d \in Calls :
         /\ DOMAIN draft'[d] \subseteq Keys
         /\ draft'[d] \in [DOMAIN draft'[d] -> Row \cup {Gone}]
  BY <1>1, NothingDrafted DEF TypeOK, OnlyOf
<1>5. \A d \in Calls : Running(d)' \/ Idle(d)'
  <2>1. Idle(c)'
    BY <1>1, NoneAssumption DEF Idle
  <2>2. ASSUME NEW d \in Calls \ {c}
        PROVE  Running(d)' \/ Idle(d)'
    <3>1. call'[d] = call[d] /\ draft'[d] = draft[d]
      BY <1>1 DEF OnlyOf
    <3>2. Running(d) \/ Idle(d)
      BY DEF TypeOK, Idle
    <3>3. userLock' = d => userLock = d
      BY <1>1, NoneAssumption
    <3>. QED
      BY <3>1, <3>2, <3>3 DEF Running, Idle
  <2>. QED
    BY <2>1, <2>2
<1>. QED
  BY <1>1, <1>2, <1>3, <1>4, <1>5 DEF TypeOK, Idle

\* Whoever still runs finds its rows where it left them: its keys are its own, a
\* new row is only committed in a list that it is not deleting by its lock.
LEMMA CommitOthers ==
    ASSUME PInv, NEW c \in Calls, Commit(c), NEW d \in Calls \ {c}
    PROVE  CallInv(d)'
<1>. USE DEF PInv
<1>1. /\ call[c].step = "insert" /\ call'[c].step = "done" /\ OnlyOf(c)
      /\ before' = before
      /\ userLock' = IF userLock = c THEN None ELSE userLock
      /\ account' = (account /\ ~(userLock = c /\ call[c].kind = "deletion"))
      /\ \A k : k \in DOMAIN rows' <=>
                   \/ k \in DOMAIN draft[c] /\ draft[c][k] # Gone
                   \/ k \in DOMAIN rows /\ k \notin DOMAIN draft[c]
      /\ \A k \in DOMAIN rows' :
            rows'[k] = IF k \in DOMAIN draft[c] THEN draft[c][k] ELSE rows[k]
  BY CommitEffect
<1>2. /\ call'[d] = call[d] /\ draft'[d] = draft[d] /\ before'[d] = before[d]
      /\ userLock' = d <=> userLock = d
  BY <1>1, NoneAssumption DEF OnlyOf
<1>3. /\ InOrder(d) /\ OwnKeys(d) /\ Drafted(d) /\ LockFirst(d) /\ Covered(d)
      /\ Written(d) /\ FoundBefore(d)
  BY DEF CallInv
<1>4. InOrder(d)' /\ OwnKeys(d)' /\ Written(d)'
  BY <1>2, <1>3 DEF InOrder, OwnKeys, Written, Inserted, Running, TableOf
<1>5. Drafted(d)'
  <2>1. \A k \in DOMAIN draft[d] \cap DOMAIN rows :
           k \in DOMAIN rows' /\ rows'[k] = rows[k]
    BY <1>1 DEF Disjoint
  <2>. QED
    BY <1>2, <1>3, <2>1 DEF Drafted
<1>6. LockFirst(d)'
  BY <1>1, <1>2, <1>3 DEF LockFirst
<1>7. Covered(d)'
  <2>. SUFFICES ASSUME userLock = d, call[d].step \in {"delete", "insert", "check"},
                       NEW k \in DOMAIN rows',
                       call[d].kind = "deletion"
                         \/ (call[d].kind = "onboarding" /\ k[1] = "user_interests")
                PROVE  k \in DOMAIN draft[d] \/ <<k, rows'[k].id>> \in call[d].seen
    BY <1>2 DEF Covered
  <2>1. k \in DOMAIN rows /\ rows'[k].id = rows[k].id
    <3>1. CASE k \notin DOMAIN draft[c]
      BY <1>1, <3>1
    <3>2. CASE k \in DOMAIN draft[c]
      <4>1. draft[c][k] # Gone /\ rows'[k] = draft[c][k]
        BY <1>1, <3>2
      <4>2. k \in DOMAIN rows /\ rows[k].id = draft[c][k].id
        <5>. SUFFICES ASSUME draft[c][k].id = c, call[c].share
                      PROVE  FALSE
          BY <3>2, <4>1, CommitHas
        <5>1. call[d].kind = "onboarding" /\ k[1] = "user_interests"
          BY NoneAssumption DEF ShareOrDelete
        <5>2. call[c].kind = "onboarding"
          BY <3>2, <4>1, <5>1, CommitHas DEF OwnKeys, TableOf
        <5>. QED
          BY <1>3, <5>2, CommitHas DEF LockFirst
      <4>. QED
        BY <4>1, <4>2
    <3>. QED
      BY <3>1, <3>2
  <2>. QED
    BY <1>3, <2>1 DEF Covered
<1>8. FoundBefore(d)'
  <2>1. Committed \subseteq Committed'
    BY <1>1 DEF Committed, OnlyOf
  <2>2. before[d] \subseteq Committed /\ c \notin Committed
    BY <1>1, <1>3 DEF FoundBefore, Committed
  <2>3. ASSUME NEW k \in RowsOf("user_hobbies")', rows'[k].by \in before[d]
        PROVE  k \in RowsOf("user_hobbies") /\ rows'[k] = rows[k]
    <3>1. k \in DOMAIN rows' /\ k[1] = "user_hobbies"
      BY DEF RowsOf
    <3>2. k \notin DOMAIN draft[c]
      <4>. SUFFICES ASSUME k \in DOMAIN draft[c]
                    PROVE  rows'[k].by = c
        BY <2>2, <2>3
      <4>. QED
        BY <1>1, <3>1, CommitHas DEF Drafted
    <3>. QED
      BY <1>1, <3>1, <3>2 DEF RowsOf
  <2>. QED
    BY <1>2, <1>3, <2>1, <2>2, <2>3 DEF FoundBefore
<1>. QED
  BY <1>4, <1>5, <1>6, <1>7, <1>8 DEF CallInv

LEMMA CommitSelf ==
    ASSUME PInv, NEW c \in Calls, Commit(c)
    PROVE  CallInv(c)'
<1>1. /\ call'[c].step = "done" /\ call'[c].next = call[c].next
      /\ call'[c].seen = {} /\ call'[c].share = FALSE
      /\ draft'[c] = EmptyTable /\ SameRequest(c) /\ OnlyOf(c) /\ before' = before
      /\ userLock' = IF userLock = c THEN None ELSE userLock
  BY CommitEffect DEF PInv
<1>2. DOMAIN draft'[c] = {} /\ userLock' # c
  BY <1>1, NothingDrafted, NoneAssumption
<1>3. InOrder(c) /\ FoundBefore(c)
  BY CommitHas
<1>4. InOrder(c)'
  BY <1>1, <1>3 DEF InOrder, SameRequest
<1>5. OwnKeys(c)' /\ Drafted(c)' /\ LockFirst(c)' /\ Covered(c)' /\ Written(c)'
  BY <1>1, <1>2 DEF OwnKeys, Drafted, LockFirst, Covered, Past, Written, Running
<1>6. FoundBefore(c)'
  <2>1. Committed \subseteq Committed'
    BY <1>1 DEF Committed, OnlyOf
  <2>. QED
    BY <1>1, <1>3, <2>1 DEF FoundBefore
<1>. QED
  BY <1>4, <1>5, <1>6 DEF CallInv

LEMMA CommitDeleted ==
    ASSUME PInv, NEW c \in Calls, Commit(c)
    PROVE  Deleted' /\ ShareOrDelete' /\ Disjoint'
<1>. USE DEF PInv
<1>1. /\ call'[c].share = FALSE /\ draft'[c] = EmptyTable /\ OnlyOf(c)
      /\ SameRequest(c)
      /\ userLock' = IF userLock = c THEN None ELSE userLock
      /\ account' = (account /\ ~(userLock = c /\ call[c].kind = "deletion"))
      /\ name' = IF userLock # c THEN name
                 ELSE IF call[c].kind = "deletion" THEN None ELSE c
      /\ \A k : k \in DOMAIN rows' <=>
                   \/ k \in DOMAIN draft[c] /\ draft[c][k] # Gone
                   \/ k \in DOMAIN rows /\ k \notin DOMAIN draft[c]
      /\ rows' = [k \in DOMAIN rows' |-> rows'[k]]
  BY CommitEffect
<1>2. userLock \in Calls \cup {None}
  BY DEF TypeOK
<1>3. ShareOrDelete'
  BY <1>1, <1>2, NoneAssumption DEF ShareOrDelete, OnlyOf, SameRequest
<1>4. Disjoint'
  BY <1>1, NothingDrafted DEF Disjoint, OnlyOf
<1>5. Deleted'
  <2>. SUFFICES ASSUME ~account'
                PROVE  /\ DOMAIN rows' = {} /\ name' = None /\ userLock' = None
                       /\ \A d \in Calls : ~call'[d].share
    BY <1>1 DEF Deleted, EmptyTable
  <2>1. \A d \in Calls : ~call'[d].share
    BY <1>3 DEF ShareOrDelete
  <2>2. CASE account
    <3>1. userLock = c /\ call[c].kind = "deletion"
      BY <1>1, <2>2
    <3>. QED
      BY <1>1, <2>1, <3>1, DeletionEmpties
  <2>3. CASE ~account
    <3>1. /\ DOMAIN rows = {} /\ name = None /\ userLock = None
          /\ ~call[c].share
      BY <2>3, NothingDrafted DEF Deleted
    <3>2. \A k \in DOMAIN draft[c] : draft[c][k] = Gone
      BY <3>1, CommitHas
    <3>. QED
      BY <1>1, <2>1, <3>1, <3>2, NoneAssumption
  <2>. QED
    BY <2>2, <2>3
<1>. QED
  BY <1>3, <1>4, <1>5

\* Who was the last to commit a list, after a commit.
LEMMA CommitLast ==
    ASSUME PInv, NEW c \in Calls, Commit(c)
    PROVE  /\ "user_hobbies" \in ListTables /\ "user_interests" \in ListTables
           /\ last'["user_hobbies"] =
                IF call[c].kind = "hobbies" THEN c ELSE last["user_hobbies"]
           /\ last'["user_interests"] =
                IF call[c].kind = "onboarding" THEN c ELSE last["user_interests"]
           /\ \A d \in Calls : call[d].step = "done" =>
                 d # c /\ call'[d] = call[d] /\ before'[d] = before[d]
<1>1. /\ last \in [ListTables -> Calls \cup {None}]
      /\ last' = IF call[c].kind \in {"hobbies", "onboarding"}
                 THEN [last EXCEPT ![TableOf(c)] = c] ELSE last
      /\ call[c].step = "insert" /\ OnlyOf(c) /\ before' = before
  BY CommitEffect DEF PInv, TypeOK
<1>. QED
  BY <1>1 DEF TableOf, ListTables, OnlyOf

\* A list that is done is what its draft was: all of it is inserted.
LEMMA AllInserted ==
    ASSUME PInv, NEW c \in Calls, Commit(c)
    PROVE  Inserted(c) = DOMAIN call[c].list /\ call[c].list \in Seq(Interests)
<1>1. /\ call[c].list \in Seq(Interests) /\ call[c].next \in Nat
      /\ DOMAIN call[c].list = 1..Len(call[c].list)
      /\ Len(call[c].list) \in Nat
  BY ListType DEF PInv
<1>2. call[c].next > Len(call[c].list) /\ call[c].step = "insert"
  BY DEF Commit
<1>. QED
  BY <1>1, <1>2 DEF Inserted

\* The last place of i in a list.
LastPlace(list, i) ==
    CHOOSE n \in DOMAIN list :
       /\ list[n] = i
       /\ \A m \in DOMAIN list : list[m] = i => m <= n

\* Stored, of any table, call and list.
Keeps(tab, c, list, t) ==
    \A i \in Range(list) :
       /\ <<t, i>> \in DOMAIN tab
       /\ tab[<<t, i>>].by = c
       /\ \/ t = "user_interests"
          \/ tab[<<t, i>>].position = LastPlace(list, i)

LEMMA StoredIsKept ==
    ASSUME NEW t
    PROVE  /\ Stored(last[t], t) <=> Keeps(rows, last[t], call[last[t]].list, t)
           /\ Stored(last[t], t)' <=> Keeps(rows', last'[t], call'[last'[t]].list, t)
BY DEF Stored, Keeps, LastPlace

\* The list of c is stored when it commits.
LEMMA StoresList ==
    ASSUME PInv, NEW c \in Calls, Commit(c), call[c].kind \in {"hobbies", "onboarding"}
    PROVE  Keeps(rows', c, call[c].list, TableOf(c))
<1>. DEFINE t == TableOf(c)
            list == call[c].list
<1>1. /\ call'[c].list = list /\ TableOf(c)' = t
      /\ \A k \in DOMAIN draft[c] : draft[c][k] # Gone =>
            k \in DOMAIN rows' /\ rows'[k] = draft[c][k] /\ draft[c][k].by = c
  <2>1. /\ SameRequest(c)
        /\ \A k : k \in DOMAIN rows' <=>
                     \/ k \in DOMAIN draft[c] /\ draft[c][k] # Gone
                     \/ k \in DOMAIN rows /\ k \notin DOMAIN draft[c]
        /\ \A k \in DOMAIN rows' :
              rows'[k] = IF k \in DOMAIN draft[c] THEN draft[c][k] ELSE rows[k]
    BY CommitEffect DEF PInv
  <2>2. Drafted(c)
    BY CommitHas
  <2>. QED
    BY <2>1, <2>2 DEF SameRequest, TableOf, Drafted
<1>2. Inserted(c) = DOMAIN list /\ list \in Seq(Interests)
  BY AllInserted
<1>3. Written(c) /\ Running(c)
  BY CommitHas DEF Commit, Running
<1>. SUFFICES ASSUME NEW i \in Range(list)
              PROVE  /\ <<t, i>> \in DOMAIN rows'
                     /\ rows'[<<t, i>>].by = c
                     /\ \/ t = "user_interests"
                        \/ rows'[<<t, i>>].position = LastPlace(list, i)
  BY DEF Keeps
<1>. DEFINE k == <<t, i>>
<1>4. PICK j \in DOMAIN list : list[j] = i
  BY DEF Range
<1>5. k \in DOMAIN draft[c] /\ draft[c][k] # Gone
  BY <1>2, <1>3, <1>4 DEF Written
<1>6. ASSUME t # "user_interests"
      PROVE  draft[c][k].position = LastPlace(list, i)
  <2>1. call[c].kind = "hobbies"
    BY <1>6 DEF TableOf
  <2>2. PICK p \in DOMAIN list :
           /\ list[p] = i /\ draft[c][k].position = p
           /\ \A n \in DOMAIN list : list[n] = i => n <= p
    BY <1>2, <1>3, <1>5, <2>1 DEF Written
  <2>. DEFINE Best(n) == list[n] = i /\ \A m \in DOMAIN list : list[m] = i => m <= n
  <2>3. \A n \in DOMAIN list : Best(n) => n = p
    BY <1>2, <2>2
  <2>4. Best(p)
    BY <2>2
  <2>. HIDE DEF Best
  <2>5. p = CHOOSE n \in DOMAIN list : Best(n)
    BY <2>3, <2>4
  <2>. QED
    BY <2>2, <2>5 DEF Best, LastPlace
<1>. QED
  BY <1>1, <1>5, <1>6

LEMMA CommitRemembered ==
    ASSUME PInv, NEW c \in Calls, Commit(c)
    PROVE  Remembered'
<1>. USE DEF PInv
<1>1. /\ call'[c].step = "done" /\ SameRequest(c)
      /\ name' = IF userLock # c THEN name
                 ELSE IF call[c].kind = "deletion" THEN None ELSE c
      /\ \A k : k \in DOMAIN rows' <=>
                   \/ k \in DOMAIN draft[c] /\ draft[c][k] # Gone
                   \/ k \in DOMAIN rows /\ k \notin DOMAIN draft[c]
  BY CommitEffect
<1>2. /\ last'["user_hobbies"] =
            IF call[c].kind = "hobbies" THEN c ELSE last["user_hobbies"]
      /\ last'["user_interests"] =
            IF call[c].kind = "onboarding" THEN c ELSE last["user_interests"]
      /\ \A d \in Calls : call[d].step = "done" => d # c /\ call'[d] = call[d]
  BY CommitLast
<1>3. /\ last \in [ListTables -> Calls \cup {None}] /\ name \in Calls \cup {None}
  BY DEF TypeOK
<1>4. name' # None => call'[name'].step = "done"
  BY <1>1, <1>2, <1>3 DEF Remembered
<1>5. ASSUME NEW t \in ListTables, last'[t] # None
      PROVE  /\ call'[last'[t]].step = "done" /\ TableOf(last[t])' = t
             /\ call'[last'[t]].kind \in {"hobbies", "onboarding"}
  <2>1. CASE last'[t] = last[t]
    BY <1>2, <1>3, <1>5, <2>1 DEF Remembered, TableOf
  <2>2. CASE last'[t] # last[t]
    BY <1>1, <1>2, <1>5, <2>2 DEF SameRequest, TableOf, ListTables
  <2>. QED
    BY <2>1, <2>2
<1>6. last'["user_hobbies"] = None => RowsOf("user_hobbies")' = {}
  <2>. SUFFICES ASSUME last'["user_hobbies"] = None, NEW k \in DOMAIN rows',
                       k[1] = "user_hobbies"
                PROVE  FALSE
    BY DEF RowsOf
  <2>1. call[c].kind # "hobbies" /\ k \notin DOMAIN rows
    BY <1>2, NoneAssumption DEF Remembered, RowsOf
  <2>2. k \in DOMAIN draft[c] /\ draft[c][k] # Gone
    BY <1>1, <2>1
  <2>. QED
    BY <2>1, <2>2, CommitHas DEF OwnKeys, TableOf
<1>. QED
  BY <1>4, <1>5, <1>6 DEF Remembered

LEMMA CommitStored ==
    ASSUME PInv, NEW c \in Calls, Commit(c)
    PROVE  HobbiesStored'
<1>. USE DEF PInv
<1>. SUFFICES ASSUME account', last'["user_hobbies"] # None
              PROVE  Stored(last["user_hobbies"], "user_hobbies")'
  BY DEF HobbiesStored
<1>1. CASE call[c].kind = "hobbies"
  <2>1. last'["user_hobbies"] = c /\ TableOf(c) = "user_hobbies"
    BY <1>1, CommitLast DEF TableOf
  <2>2. Keeps(rows', c, call[c].list, TableOf(c)) /\ call'[c].list = call[c].list
    BY <1>1, StoresList, CommitEffect DEF SameRequest
  <2>. QED
    BY <2>1, <2>2, StoredIsKept
<1>2. CASE call[c].kind # "hobbies"
  <2>. DEFINE e == last["user_hobbies"]
  <2>1. /\ last'["user_hobbies"] = e /\ "user_hobbies" \in ListTables
        /\ e \in Calls /\ call[e].step = "done" /\ call'[e] = call[e]
    BY <1>2, CommitLast DEF Remembered, TypeOK
  <2>2. Stored(e, "user_hobbies")
    BY <2>1, CommitEffect DEF HobbiesStored
  <2>3. /\ RowsOf("user_hobbies")' = RowsOf("user_hobbies")
        /\ \A k \in RowsOf("user_hobbies") : rows'[k] = rows[k]
    <3>1. call[c].kind \in {"hobbies", "onboarding"} => TableOf(c) # "user_hobbies"
      BY <1>2 DEF TableOf
    <3>. QED
      BY <2>1, <3>1, OtherListsKept
  <2>4. \A i \in Range(call[e].list) :
           /\ <<"user_hobbies", i>> \in DOMAIN rows
           /\ <<"user_hobbies", i>> \in DOMAIN rows'
           /\ rows'[<<"user_hobbies", i>>] = rows[<<"user_hobbies", i>>]
    BY <2>2, <2>3 DEF Stored, RowsOf
  <2>5. Keeps(rows, e, call[e].list, "user_hobbies")
    BY <2>2, StoredIsKept
  <2>6. Keeps(rows', e, call[e].list, "user_hobbies")
    BY <2>4, <2>5 DEF Keeps
  <2>. QED
    BY <2>1, <2>6, StoredIsKept
<1>. QED
  BY <1>1, <1>2

LEMMA CommitSurvivors ==
    ASSUME PInv, NEW c \in Calls, Commit(c)
    PROVE  SurvivorsOverlapped'
<1>. USE DEF PInv
<1>0. before' = before
  BY CommitEffect
<1>1. CASE call[c].kind = "hobbies"
  <2>1. last'["user_hobbies"] = c
    BY <1>1, CommitLast
  <2>. SUFFICES ASSUME NEW k \in DOMAIN rows', k[1] = "user_hobbies"
                PROVE  rows'[k].by = c \/ rows'[k].by \notin before[c]
    BY <1>0, <2>1 DEF SurvivorsOverlapped, RowsOf
  <2>2. CASE k \in DOMAIN draft[c]
    <3>1. draft[c][k] # Gone /\ rows'[k] = draft[c][k]
      BY <2>2, CommitEffect
    <3>. QED
      BY <2>2, <3>1, CommitHas DEF Drafted
  <2>3. CASE k \notin DOMAIN draft[c]
    <3>1. k \in RowsOf("user_hobbies") /\ rows'[k] = rows[k]
      BY <2>3, CommitEffect DEF RowsOf
    <3>2. call[c].step = "insert" /\ call[c].seen = {} /\ FoundBefore(c)
      BY CommitHas DEF Commit
    <3>. QED
      BY <1>1, <2>3, <3>1, <3>2 DEF FoundBefore
  <2>. QED
    BY <2>2, <2>3
<1>2. CASE call[c].kind # "hobbies" /\ account'
  <2>1. last'["user_hobbies"] = last["user_hobbies"] /\ "user_hobbies" \in ListTables
    BY <1>2, CommitLast
  <2>2. call[c].kind \in {"hobbies", "onboarding"} => TableOf(c) # "user_hobbies"
    BY <1>2 DEF TableOf
  <2>3. /\ RowsOf("user_hobbies")' = RowsOf("user_hobbies")
        /\ \A k \in RowsOf("user_hobbies") : rows'[k] = rows[k]
    BY <1>2, <2>1, <2>2, OtherListsKept
  <2>. QED
    BY <1>0, <2>1, <2>3 DEF SurvivorsOverlapped
<1>3. CASE ~account'
  <2>1. DOMAIN rows' = {}
    BY <1>3, CommitDeleted, NothingDrafted DEF Deleted
  <2>. QED
    BY <2>1 DEF SurvivorsOverlapped, RowsOf
<1>. QED
  BY <1>1, <1>2, <1>3

LEMMA CommitAtomic ==
    ASSUME PInv, NEW c \in Calls, Commit(c)
    PROVE  OnboardingAtomic'
<1>. USE DEF PInv
<1>. DEFINE e == last["user_interests"]
            list == call[c].list
<1>1. /\ last'["user_interests"] = IF call[c].kind = "onboarding" THEN c ELSE e
      /\ "user_interests" \in ListTables
      /\ \A d \in Calls : call[d].step = "done" => call'[d] = call[d]
  BY CommitLast
<1>2. /\ call'[c].list = list /\ call'[c].kind = call[c].kind
      /\ account' => account
      /\ name' = IF userLock # c THEN name
                 ELSE IF call[c].kind = "deletion" THEN None ELSE c
  BY CommitEffect DEF SameRequest
<1>3. e \in Calls \cup {None} /\ name \in Calls \cup {None}
  BY <1>1 DEF TypeOK
<1>4. ASSUME account', last'["user_interests"] # None
      PROVE  /\ Stored(last["user_interests"], "user_interests")'
             /\ {k[2] : k \in RowsOf("user_interests")'} =
                   Range(call'[last'["user_interests"]].list)
  <2>1. CASE call[c].kind = "onboarding"
    <3>1. last'["user_interests"] = c /\ TableOf(c) = "user_interests"
      BY <1>1, <2>1 DEF TableOf
    <3>2. Stored(last["user_interests"], "user_interests")'
      BY <1>2, <2>1, <3>1, StoresList, StoredIsKept
    <3>3. ASSUME NEW k \in RowsOf("user_interests")'
          PROVE  k[2] \in Range(list)
      <4>1. k \in DOMAIN rows' /\ k[1] = "user_interests"
        BY DEF RowsOf
      <4>2. k \in DOMAIN draft[c] /\ draft[c][k] # Gone
        <5>1. k \in DOMAIN rows => k \in DOMAIN draft[c]
          BY <1>2, <1>4, <2>1, <4>1, CommitHas, CommitEffect DEF Covered
        <5>. QED
          BY <4>1, <5>1, CommitEffect
      <4>3. \E m \in Inserted(c) : list[m] = k[2]
        <5>1. Written(c) /\ Running(c)
          BY CommitHas DEF Commit, Running
        <5>. QED
          BY <4>2, <5>1 DEF Written
      <4>. QED
        BY <4>3, AllInserted DEF Range
    <3>4. ASSUME NEW i \in Range(list)
          PROVE  \E k \in RowsOf("user_interests")' : k[2] = i
      <4>1. <<"user_interests", i>> \in DOMAIN rows'
        BY <1>2, <3>1, <3>2 DEF Stored
      <4>. QED
        BY <4>1 DEF RowsOf
    <3>. QED
      BY <1>2, <3>1, <3>2, <3>3, <3>4
  <2>2. CASE call[c].kind # "onboarding"
    <3>1. /\ last'["user_interests"] = e /\ e \in Calls /\ call[e].step = "done"
          /\ call'[e] = call[e]
      BY <1>1, <1>3, <1>4, <2>2 DEF Remembered
    <3>2. /\ RowsOf("user_interests")' = RowsOf("user_interests")
          /\ \A k \in RowsOf("user_interests") : rows'[k] = rows[k]
      <4>1. call[c].kind \in {"hobbies", "onboarding"} => TableOf(c) # "user_interests"
        BY <2>2 DEF TableOf
      <4>. QED
        BY <1>1, <1>4, <4>1, OtherListsKept
    <3>3. Stored(e, "user_interests")
             /\ {k[2] : k \in RowsOf("user_interests")} = Range(call[e].list)
      BY <1>2, <1>4, <3>1, NoneAssumption DEF OnboardingAtomic
    <3>. QED
      BY <3>1, <3>2, <3>3 DEF Stored, RowsOf
  <2>. QED
    BY <2>1, <2>2
<1>5. name' # None /\ call'[name'].kind = "onboarding" => name' = last'["user_interests"]
  <2>1. CASE userLock = c
    BY <1>1, <1>2, <2>1
  <2>2. CASE userLock # c
    <3>. SUFFICES ASSUME name # None, call'[name].kind = "onboarding"
                  PROVE  name = last'["user_interests"]
      BY <1>2, <2>2
    <3>1. account /\ call'[name] = call[name]
      BY <1>1, <1>3 DEF Deleted, Remembered
    <3>2. call[c].kind # "onboarding"
      BY <2>2, <3>1, CommitHas
    <3>. QED
      BY <1>1, <3>1, <3>2 DEF OnboardingAtomic
  <2>. QED
    BY <2>1, <2>2
<1>. QED
  BY <1>4, <1>5 DEF OnboardingAtomic

LEMMA CommitKeeps ==
    ASSUME PInv, NEW c \in Calls, Commit(c)
    PROVE  PInv'
<1>1. \A d \in Calls : CallInv(d)'
  BY CommitSelf, CommitOthers
<1>. QED
  BY <1>1, CommitTypes, CommitDeleted, CommitRemembered, CommitStored,
     CommitSurvivors, CommitAtomic DEF PInv

-----------------------------------------------------------------------------
(* Waiting.                                                                *)

\* What a call waits for, by its step.
LEMMA BlockersOf ==
    ASSUME NEW c \in Calls
    PROVE  /\ call[c].step = "users" => Blockers(c) = UserHolders(c) \ {c}
           /\ call[c].step = "delete" =>
                 \A d \in Blockers(c) :
                    d # c /\ \E s \in call[c].seen : d \in LockersOf(s[1])
           /\ Inserting(c) => Blockers(c) = LockersOf(NextKey(c)) \ {c}
           /\ call[c].step = "check" => Blockers(c) = Deleter \ {c}
           /\ call[c].step \notin {"users", "delete", "check"} /\ ~Inserting(c) =>
                 Blockers(c) = {}
<1>1. ASSUME call[c].step = "users" PROVE Blockers(c) = UserHolders(c) \ {c}
  BY <1>1 DEF Blockers, Inserting
<1>2. ASSUME call[c].step = "delete"
      PROVE  \A d \in Blockers(c) :
                d # c /\ \E s \in call[c].seen : d \in LockersOf(s[1])
  <2>. DEFINE locked == UNION {LockersOf(s[1]) : s \in call[c].seen}
  <2>1. Blockers(c) =
          (CASE call[c].step = "users" -> UserHolders(c)
             [] call[c].step = "delete" -> locked
             [] Inserting(c) -> LockersOf(NextKey(c))
             [] call[c].step = "check" -> Deleter
             [] OTHER -> {}) \ {c}
    BY DEF Blockers
  <2>. HIDE DEF locked
  <2>2. Blockers(c) = locked \ {c}
    BY <1>2, <2>1 DEF Inserting
  <2>. QED
    BY <2>2 DEF locked
<1>3. ASSUME Inserting(c) PROVE Blockers(c) = LockersOf(NextKey(c)) \ {c}
  <2>1. call[c].step = "insert"
    BY <1>3 DEF Inserting
  <2>. QED
    BY <1>3, <2>1 DEF Blockers
<1>4. ASSUME call[c].step = "check" PROVE Blockers(c) = Deleter \ {c}
  BY <1>4 DEF Blockers, Inserting
<1>5. ASSUME call[c].step \notin {"users", "delete", "check"}, ~Inserting(c)
      PROVE  Blockers(c) = {}
  BY <1>5 DEF Blockers
<1>. QED
  BY <1>1, <1>2, <1>3, <1>4, <1>5

\* Whom somebody waits for holds something.
LEMMA BlockersHold ==
    ASSUME TypeOK, NEW c \in Calls, NEW d \in Blockers(c)
    PROVE  /\ d \in Calls /\ d # c
           /\ userLock = d \/ call[d].share \/ DOMAIN draft[d] # {}
<1>1. userLock \in Calls \cup {None}
  BY DEF TypeOK
<1>2. ASSUME NEW k, NEW e \in LockersOf(k) PROVE e \in Calls /\ DOMAIN draft[e] # {}
  BY <1>2 DEF LockersOf
<1>3. CASE call[c].step = "users"
  BY <1>1, <1>3, BlockersOf DEF UserHolders
<1>4. CASE call[c].step = "delete"
  BY <1>2, <1>4, BlockersOf
<1>5. CASE Inserting(c)
  BY <1>2, <1>5, BlockersOf
<1>6. CASE call[c].step = "check"
  BY <1>1, <1>6, BlockersOf DEF Deleter
<1>7. CASE call[c].step \notin {"users", "delete", "check"} /\ ~Inserting(c)
  BY <1>7, BlockersOf
<1>. QED
  BY <1>3, <1>4, <1>5, <1>6, <1>7

\* While an onboarding has the row of users, nobody else writes interests.
LEMMA InterestsFree ==
    ASSUME PInv, NEW c \in Calls, call[c].kind = "onboarding", userLock \in {c, None},
           NEW d \in Calls \ {c}, NEW k \in DOMAIN draft[d], k[1] = "user_interests"
    PROVE  ~account /\ userLock = None /\ call[d].step = "check"
<1>1. /\ OwnKeys(d) /\ LockFirst(d) /\ InOrder(d) /\ Drafted(d) /\ TypeOK
  BY DEF PInv, CallInv
<1>2. userLock # d
  BY NoneAssumption
<1>3. call[d].kind \in {"onboarding", "deletion"} /\ draft[d][k] # Gone
  BY <1>1, <1>2 DEF OwnKeys, TableOf, LockFirst
<1>4. call[d].step \in Past
  <2>1. call[d].step \in Steps /\ Running(d)
    BY <1>1, NothingDrafted DEF TypeOK, Call
  <2>2. call[d].step # "users"
    BY <1>1, NothingDrafted DEF InOrder
  <2>. QED
    BY <2>1, <2>2 DEF Steps, Running, Past
<1>5. ~account
  BY <1>1, <1>2, <1>3, <1>4 DEF LockFirst
<1>6. DOMAIN rows = {} /\ userLock = None /\ ~call[d].share
  BY <1>5, NothingDrafted DEF PInv, Deleted
<1>. QED
  BY <1>1, <1>3, <1>5, <1>6 DEF Drafted

\* Everyone in a cycle waits, and is waited for.
LEMMA Cycle ==
    ASSUME TypeOK, NEW c \in Calls, InDeadlock(c)
    PROVE  /\ \E d \in Calls : c \in Blockers(d)
           /\ \E d \in Blockers(c) : Blockers(d) # {}
<1>1. PICK S \in SUBSET Calls :
        c \in S /\ \E next \in [S -> S] :
                      Range(next) = S /\ \A d \in S : next[d] \in Blockers(d)
  BY DEF InDeadlock
<1>2. PICK next \in [S -> S] : Range(next) = S /\ \A d \in S : next[d] \in Blockers(d)
  BY <1>1
<1>3. PICK d \in S : next[d] = c
  BY <1>1, <1>2 DEF Range
<1>4. next[c] \in Blockers(c) /\ next[next[c]] \in Blockers(next[c])
  BY <1>1, <1>2
<1>. QED
  BY <1>2, <1>3, <1>4

\* An onboarding at the row of users holds nothing; past it, it has the row, and
\* waits for nobody; or the account is gone, and who it waits for waits for nobody.
LEMMA NoDeadlock ==
    ASSUME PInv
    PROVE  OnboardingNeverDeadlocks
<1>. SUFFICES ASSUME NEW c \in Calls, call[c].kind = "onboarding", InDeadlock(c)
              PROVE  FALSE
  BY DEF OnboardingNeverDeadlocks
<1>0. TypeOK /\ call[c].step \in Steps /\ userLock \in Calls \cup {None}
  BY DEF PInv, TypeOK, Call
<1>1. InOrder(c) /\ LockFirst(c)
  BY DEF PInv, CallInv
<1>2. PICK d \in Calls : c \in Blockers(d)
  BY <1>0, Cycle
<1>3. PICK e \in Blockers(c) : Blockers(e) # {}
  BY <1>0, Cycle
<1>4. userLock = c \/ call[c].share \/ DOMAIN draft[c] # {}
  BY <1>0, <1>2, BlockersHold
<1>5. call[c].step \in Past
  <2>1. call[c].step # "users"
    BY <1>1, <1>4, NothingDrafted DEF InOrder, LockFirst, Past
  <2>2. Running(c)
    BY <1>0, <1>4, NothingDrafted DEF TypeOK
  <2>. QED
    BY <1>0, <2>1, <2>2 DEF Running, Past, Steps
<1>6. userLock \in {c, None}
  BY <1>1, <1>5 DEF LockFirst, PInv, Deleted
<1>7. ASSUME NEW k, k[1] = "user_interests", e \in LockersOf(k)
      PROVE  FALSE
  <2>1. e \in Calls \ {c} /\ k \in DOMAIN draft[e]
    BY <1>0, <1>7, BlockersHold DEF LockersOf
  <2>2. call[e].step = "check" /\ userLock = None
    BY <1>6, <1>7, <2>1, InterestsFree
  <2>3. Blockers(e) = {}
    BY <2>1, <2>2, BlockersOf DEF Deleter
  <2>. QED
    BY <1>3, <2>3
<1>8. CASE call[c].step = "snapshot"
  BY <1>3, <1>8, BlockersOf DEF Inserting
<1>9. CASE call[c].step = "delete"
  <2>1. \A s \in call[c].seen : s[1][1] = "user_interests"
    BY <1>1 DEF InOrder, TableOf
  <2>. QED
    BY <1>3, <1>7, <1>9, <2>1, BlockersOf
<1>10. CASE call[c].step = "insert"
  <2>1. CASE Inserting(c)
    <3>1. NextKey(c)[1] = "user_interests"
      BY DEF NextKey, TableOf
    <3>. QED
      BY <1>3, <1>7, <2>1, <3>1, BlockersOf
  <2>2. CASE ~Inserting(c)
    BY <1>3, <1>10, <2>2, BlockersOf
  <2>. QED
    BY <2>1, <2>2
<1>11. CASE call[c].step = "check"
  BY <1>3, <1>6, <1>11, BlockersOf DEF Deleter
<1>. QED
  BY <1>5, <1>8, <1>9, <1>10, <1>11 DEF Past

-----------------------------------------------------------------------------
(* The theorems.                                                           *)

\* PInv holds at the start, and no step leads out of it.
LEMMA Start ==
    ASSUME Init
    PROVE  PInv
<1>. USE DEF Init
<1>1. TypeOK
  <2>1. NotMade \in Call
    BY DEF NotMade, Call, Kinds, Steps
  <2>2. DOMAIN EmptyTable = {} /\ \A S : EmptyTable \in [DOMAIN EmptyTable -> S]
    BY NothingDrafted
  <2>3. \A c \in Calls : ~call[c].share
    BY DEF NotMade
  <2>. QED
    BY <2>1, <2>2, <2>3, NoneAssumption DEF TypeOK, ListTables
<1>2. /\ DOMAIN rows = {} /\ \A c \in Calls : DOMAIN draft[c] = {}
      /\ \A c \in Calls : call[c] = NotMade
  BY NothingDrafted
<1>3. Disjoint /\ ShareOrDelete /\ Deleted
  BY <1>2 DEF Disjoint, ShareOrDelete, Deleted, NotMade
<1>4. /\ last["user_hobbies"] = None /\ last["user_interests"] = None
      /\ \A t \in ListTables : last[t] = None
  BY DEF ListTables
<1>5. Remembered /\ HobbiesStored /\ SurvivorsOverlapped /\ OnboardingAtomic
  BY <1>2, <1>4 DEF Remembered, HobbiesStored, SurvivorsOverlapped, OnboardingAtomic,
                    RowsOf
<1>6. ASSUME NEW c \in Calls PROVE CallInv(c)
  <2>1. Inserted(c) = {}
    BY <1>1, <1>2, NothingInserted DEF NotMade
  <2>. QED
    BY <1>2, <2>1, NoneAssumption DEF CallInv, InOrder, OwnKeys, Drafted, LockFirst,
       Covered, Written, FoundBefore, NotMade, Past
<1>. QED
  BY <1>1, <1>3, <1>5, <1>6 DEF PInv

LEMMA StutterKeeps ==
    ASSUME PInv, UNCHANGED vars
    PROVE  PInv'
BY DEF vars, PInv, TypeOK, Running, Disjoint, ShareOrDelete, Deleted, Remembered,
   TableOf, RowsOf, CallInv, InOrder, OwnKeys, Drafted, LockFirst, Covered, Written,
   Inserted, FoundBefore, Committed, HobbiesStored, SurvivorsOverlapped,
   OnboardingAtomic, Stored

LEMMA NextKeeps ==
    ASSUME PInv, Next
    PROVE  PInv'
<1>. PICK c \in Calls :
       \/ \E list \in Lists : SetHobbies(c, list) \/ CompleteOnboarding(c, list)
       \/ UpdateName(c) \/ Delete(c) \/ LockUser(c) \/ Snapshot(c) \/ DeleteRow(c)
       \/ InsertRow(c) \/ CheckUser(c) \/ Commit(c) \/ Fail(c) \/ CancelDeadlocked(c)
  BY DEF Next
<1>1. ASSUME NEW list \in Lists, SetHobbies(c, list) PROVE PInv'
  BY <1>1, RequestKeeps DEF SetHobbies, Kinds
<1>2. ASSUME NEW list \in Lists, CompleteOnboarding(c, list) PROVE PInv'
  BY <1>2, RequestKeeps DEF CompleteOnboarding, Kinds
<1>3. CASE UpdateName(c)
  BY <1>3, RequestKeeps DEF UpdateName, Kinds
<1>4. CASE Delete(c)
  BY <1>4, RequestKeeps DEF Delete, Kinds
<1>5. CASE Fail(c)
  BY <1>5, RollbackKeeps DEF Fail, Running
<1>6. CASE CancelDeadlocked(c)
  <2>1. Rollback(c) /\ Blockers(c) # {}
    BY <1>6 DEF CancelDeadlocked, InDeadlock
  <2>2. call[c].step # "done"
    BY <2>1, BlockersOf DEF Inserting
  <2>. QED
    BY <2>1, <2>2, RollbackKeeps
<1>. QED
  BY <1>1, <1>2, <1>3, <1>4, <1>5, <1>6, LockUserKeeps, SnapshotKeeps, DeleteRowKeeps,
     InsertRowKeeps, CheckUserKeeps, CommitKeeps

\* PInv is inductive.
LEMMA Invariance == Spec => []PInv
<1>1. Init => PInv
  BY Start
<1>2. PInv /\ [Next]_vars => PInv'
  BY NextKeeps, StutterKeeps
<1>. QED
  BY <1>1, <1>2, PTL DEF Spec

\* Every variable keeps its type, and a call that does not run holds nothing
\* (user.go:85, :171, :195: every return commits or rolls back).
THEOREM ProfileTypeCorrect == Spec => []TypeOK
<1>1. PInv => TypeOK
  BY DEF PInv
<1>. QED
  BY <1>1, Invariance, PTL

\* The list of the last SetHobbies to commit is stored as it sent it, whatever
\* ran beside it (user.go:182).
THEOREM LastHobbiesStored == Spec => []HobbiesStored
<1>1. PInv => HobbiesStored
  BY DEF PInv
<1>. QED
  BY <1>1, Invariance, PTL

\* What SetHobbies left of another call's hobbies was not committed when its
\* DELETE began (user.go:171).
THEOREM OnlyOverlappedSurvive == Spec => []SurvivorsOverlapped
<1>1. PInv => SurvivorsOverlapped
  BY DEF PInv
<1>. QED
  BY <1>1, Invariance, PTL

\* The interests and the name of an onboarding are those of one onboarding, the
\* last to commit (user.go:85).
THEOREM OnboardingIsAtomic == Spec => []OnboardingAtomic
<1>1. PInv => OnboardingAtomic
  BY DEF PInv
<1>. QED
  BY <1>1, Invariance, PTL

\* No onboarding is in a cycle of waits, of any length (user.go:85).
THEOREM OnboardingIsFree == Spec => []OnboardingNeverDeadlocks
<1>1. PInv => OnboardingNeverDeadlocks
  BY NoDeadlock
<1>. QED
  BY <1>1, Invariance, PTL

\* A deleted account leaves nothing (user.go:195).
THEOREM DeletionIsComplete == Spec => []NothingWithoutAccount
<1>1. PInv => NothingWithoutAccount
  BY DEF PInv, Deleted, NothingWithoutAccount
<1>. QED
  BY <1>1, Invariance, PTL

=============================================================================
