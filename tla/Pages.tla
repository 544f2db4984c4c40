-------------------------------- MODULE Pages --------------------------------
(***************************************************************************)
(* The lists that are read page by page (httpx.Pagination and NextCursor,  *)
(* and the queries of internal/ascent that take a limit and a cursor), by  *)
(* a client that follows the cursors while rows are inserted and deleted.  *)
(*                                                                         *)
(* Rows are stamped in microseconds, when their transaction begins; the    *)
(* cursor is the last row's time in whole milliseconds.                    *)
(***************************************************************************)
EXTENDS Integers, Sequences, FiniteSets, FiniteSetsExt

CONSTANTS
    RowIds,
    PerMs,          \* microseconds in a millisecond
    MaxMicros,      \* bound on the clock
    Lists,          \* the paged lists
    DefLimit, MaxLimit,     \* of each list
    Asks            \* limits a client may ask for; 0 stands for none

ASSUME PagesAssumption ==
    /\ PerMs \in Nat \ {0} /\ MaxMicros \in Nat /\ PerMs <= MaxMicros
    /\ DefLimit \in [Lists -> Nat \ {0}] /\ MaxLimit \in [Lists -> Nat \ {0}]
    /\ Asks \subseteq Nat

VARIABLES
    micros,         \* the clock
    rows,           \* rows[r]: "unborn", "pending", "there" or "gone"
    created,        \* created[r]
    walk            \* the client's walk through a list

pageVars == <<micros, rows, created, walk>>

NoCursor == -1
NoWalk == [list |-> "none", limit |-> 0, before |-> NoCursor, seen |-> <<>>,
           lasts |-> {}, since |-> {}, ended |-> FALSE]

Ms(t) == t \div PerMs

PagesInit ==
    /\ micros = PerMs
    /\ rows = [r \in RowIds |-> "unborn"]
    /\ created = [r \in RowIds |-> 0]
    /\ walk = NoWalk

There == {r \in RowIds : rows[r] = "there"}

-----------------------------------------------------------------------------
BeginRow(r) ==
    /\ rows[r] = "unborn"
    /\ rows' = [rows EXCEPT ![r] = "pending"]
    /\ created' = [created EXCEPT ![r] = micros]
    /\ UNCHANGED <<micros, walk>>

CommitRow(r) ==
    /\ rows[r] = "pending"
    /\ rows' = [rows EXCEPT ![r] = "there"]
    /\ UNCHANGED <<micros, created, walk>>

\* The row goes with the account of its author.
DeleteRow(r) ==
    /\ rows[r] = "there"
    /\ rows' = [rows EXCEPT ![r] = "gone"]
    /\ walk' = [walk EXCEPT !.since = @ \ {r}]
    /\ UNCHANGED <<micros, created>>

PagesTick ==
    /\ micros < MaxMicros
    /\ micros' = micros + 1
    /\ UNCHANGED <<rows, created, walk>>

-----------------------------------------------------------------------------
\* The limit that a request gets.
Pagination(list, ask) ==
    IF ask = 0 THEN DefLimit[list]
    ELSE IF ask < MaxLimit[list] THEN ask ELSE MaxLimit[list]

\* Mutant: the rows of the cursor's millisecond come again.
UpToCursor(before) ==
    {r \in There : before = NoCursor \/ Ms(created[r]) <= before}

\* The rows older than the cursor, which is the beginning of its millisecond.
OlderThan(before) ==
    {r \in There : before = NoCursor \/ created[r] < before * PerMs}

\* The pages that ORDER BY created_at DESC LIMIT can give: rows of the same time
\* come in any order.
Pagings(candidates, limit) ==
    LET n == IF Cardinality(candidates) < limit THEN Cardinality(candidates) ELSE limit
    IN  {page \in [1..n -> candidates] :
           /\ \A i, j \in 1..n : i < j => /\ page[i] # page[j]
                                          /\ created[page[i]] >= created[page[j]]
           /\ \A r \in candidates : (\A i \in 1..n : page[i] # r) =>
                 \A i \in 1..n : created[r] <= created[page[i]]}

\* The cursor of the next page: the last row's time, if the page was full.
NextCursor(page, limit) ==
    IF page # <<>> /\ Len(page) = limit /\ Ms(created[page[Len(page)]]) > 0
    THEN Ms(created[page[Len(page)]]) ELSE NoCursor

\* A page is asked for, the first of a list or the next, and its rows come.
ReadPage(list, limit, before, seen, lasts, since) ==
    \E page \in Pagings(OlderThan(before), limit) :
       walk' = [list |-> list, limit |-> limit, before |-> NextCursor(page, limit),
                seen |-> seen \o page, since |-> since,
                lasts |-> IF page = <<>> THEN lasts ELSE lasts \cup {page[Len(page)]},
                ended |-> NextCursor(page, limit) = NoCursor]

FirstPage(list, ask) ==
    /\ walk = NoWalk \/ walk.ended
    /\ ReadPage(list, Pagination(list, ask), NoCursor, <<>>, {}, There)
    /\ UNCHANGED <<micros, rows, created>>

NextPage ==
    /\ walk.before # NoCursor
    /\ ReadPage(walk.list, walk.limit, walk.before, walk.seen, walk.lasts, walk.since)
    /\ UNCHANGED <<micros, rows, created>>

PagesNext ==
    \/ \E r \in RowIds : BeginRow(r) \/ CommitRow(r) \/ DeleteRow(r)
    \/ PagesTick
    \/ \E list \in Lists, ask \in Asks : FirstPage(list, ask)
    \/ NextPage

-----------------------------------------------------------------------------
(* Properties.                                                             *)

\* A walk shows no row twice and goes from new to old, and when it has ended it
\* has shown every row that was there all the time, but for those of the
\* millisecond in which a page ended, which the cursor passes over; all this
\* whatever is inserted, committed late or deleted meanwhile (httpx.go:80).
WalkShowsAll ==
    LET seen == walk.seen IN
    /\ \A i, j \in DOMAIN seen : i < j =>
          seen[i] # seen[j] /\ created[seen[i]] >= created[seen[j]]
    /\ walk.ended =>
          \A r \in walk.since : (\A i \in DOMAIN seen : seen[i] # r) =>
             \E l \in walk.lasts : Ms(created[r]) = Ms(created[l])
=============================================================================
