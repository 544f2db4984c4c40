----------------------------- MODULE RateLimiter -----------------------------
(***************************************************************************)
(* The in-memory rate limiter of internal/httpx/ratelimit.go.              *)
(*                                                                         *)
(* Allow reads the clock, then takes the mutex, sweeps expired entries     *)
(* when the map has grown past a threshold, and opens or counts a window.  *)
(* Between the reading and the mutex other requests run, so a caller may   *)
(* come to the map with a clock reading older than the ones already stored *)
(* there: the reading and the locked section are two steps.                *)
(***************************************************************************)
EXTENDS Integers, Sequences, FiniteSets, Functions

CONSTANTS
    Keys,       \* client addresses, or phone numbers
    Procs,      \* requests in flight
    Limit,      \* hits a window admits (300, 30, 3 and 10 in the code)
    Window,     \* length of a window, in ticks
    CleanupAt,  \* entries above which a call sweeps the map (10_000)
    MaxWait,    \* bound: ticks a request waits for the mutex
    MaxHits,    \* bound: hits counted in one window
    MaxTime     \* bound: the clock stops here

ASSUME LimitAssumption   == Limit \in Nat \ {0}
ASSUME WindowAssumption  == Window \in Nat \ {0}
ASSUME CleanupAssumption == CleanupAt \in Nat
ASSUME MaxWaitAssumption == MaxWait \in Nat

VARIABLES
    clock,      \* time
    waiting,    \* the requests between clock and mutex: key and reading of each
    hits,       \* the map, from the keys present to their windows
    window,     \* history: the latest window of each key, swept or not
    recent      \* history: when each key was last let through

vars == <<clock, waiting, hits, window, recent>>

WindowCount == [start : Nat, n : Nat \ {0}]

NoWindow == [start |-> 0, used |-> 0]

TypeOK ==
    /\ clock \in Nat
    /\ DOMAIN waiting \subseteq Procs
    /\ waiting \in [DOMAIN waiting -> [key : Keys, now : Nat]]
    /\ DOMAIN hits \subseteq Keys
    /\ hits \in [DOMAIN hits -> WindowCount]
    /\ window \in [Keys -> [start : Nat, used : 0..Limit]]

-----------------------------------------------------------------------------

Empty == [x \in {} |-> x]

Init ==
    /\ clock = 0
    /\ waiting = Empty
    /\ hits = Empty
    /\ window = [k \in Keys |-> NoWindow]
    /\ recent = [k \in Keys |-> <<>>]

\* now.Sub(w.start) > l.window
Expired(w, t) == t - w.start > Window

\* Mutant: the cleanup drops a window at its last tick.
SweptEarly(t) ==
    IF Cardinality(DOMAIN hits) > CleanupAt
    THEN Restrict(hits, {k \in DOMAIN hits : t - hits[k].start < Window})
    ELSE hits

\* Mutant: the cleanup never runs.
SweptNever(t) == hits

\* The map after the lazy cleanup of a call whose clock reading is t.
Swept(t) ==
    IF Cardinality(DOMAIN hits) > CleanupAt
    THEN Restrict(hits, {k \in DOMAIN hits : ~Expired(hits[k], t)})
    ELSE hits

\* Mutant: one hit too many.
AllowedOneMore(n) == n <= Limit + 1

\* w.n <= l.limit
Allowed(n) == n <= Limit

\* The key has no window the call can count in.
NeedsWindow(m, k, t) == k \in DOMAIN m => Expired(m[k], t)

\* Mutant: the hit that opens a window is not counted.
FirstHitFree(t) == [start |-> t, n |-> 0]

\* A window opened at reading t: the opening hit is its first.
FirstHit(t) == [start |-> t, n |-> 1]

\* A request reads the clock, before it takes the mutex.
ReadClock(p, k) ==
    /\ p \notin DOMAIN waiting
    /\ waiting' = [q \in DOMAIN waiting \cup {p} |->
                     IF q = p THEN [key |-> k, now |-> clock] ELSE waiting[q]]
    /\ UNCHANGED <<clock, hits, window, recent>>

\* Allow returns: the mutex is free again.
Return(p) ==
    /\ waiting' = Restrict(waiting, DOMAIN waiting \ {p})
    /\ UNCHANGED clock

\* History: key k was let through now; what was more than Span ago is forgotten.
Span == Window - MaxWait
Granted(k) ==
    LET r == recent[k]
    IN  \E n \in 0..Len(r) :
           /\ \A i \in 1..n : clock - r[i] > Span
           /\ n < Len(r) => clock - r[n + 1] <= Span
           /\ recent' = [recent EXCEPT ![k] = Append(SubSeq(r, n + 1, Len(r)), clock)]

\* The locked section when there is no window, or an expired one: a new window
\* starts at the caller's reading, and the call is let through.
OpenWindow(p) ==
    /\ p \in DOMAIN waiting
    /\ LET k == waiting[p].key
           t == waiting[p].now
           m == Swept(t)
       IN  /\ NeedsWindow(m, k, t)
           /\ hits' = [j \in DOMAIN m \cup {k} |->
                         IF j = k THEN FirstHit(t) ELSE m[j]]
           /\ window' = [window EXCEPT ![k] = [start |-> t, used |-> 1]]
           /\ Granted(k)
    /\ Return(p)

\* The locked section inside a window: the hit is counted, and let through
\* while the count is within the limit.
CountHit(p) ==
    /\ p \in DOMAIN waiting
    /\ LET k == waiting[p].key
           t == waiting[p].now
           m == Swept(t)
       IN  /\ ~NeedsWindow(m, k, t)
           /\ m[k].n < MaxHits
           /\ hits' = [m EXCEPT ![k].n = @ + 1]
           /\ IF Allowed(m[k].n + 1)
              THEN /\ window' = [window EXCEPT ![k].used = @ + 1]
                   /\ Granted(k)
              ELSE UNCHANGED <<window, recent>>
    /\ Return(p)

\* Nothing of the limiter survives the process.
Restart ==
    /\ waiting' = Empty
    /\ hits' = Empty
    /\ window' = [k \in Keys |-> NoWindow]
    /\ recent' = [k \in Keys |-> <<>>]
    /\ UNCHANGED clock

\* Time passes, but nobody waits for the mutex longer than MaxWait.
Tick ==
    /\ clock < MaxTime
    /\ \A p \in DOMAIN waiting : clock - waiting[p].now < MaxWait
    /\ clock' = clock + 1
    /\ UNCHANGED <<waiting, hits, window, recent>>

Next ==
    \/ \E p \in Procs, k \in Keys : ReadClock(p, k)
    \/ \E p \in Procs : OpenWindow(p) \/ CountHit(p)
    \/ Restart
    \/ Tick

Spec == Init /\ [][Next]_vars

-----------------------------------------------------------------------------

\* The map, together with what has been swept out of it, tells the truth about
\* every window: an entry is the latest window of its key, its count says how
\* many hits were let through, and a key without an entry has no window that
\* is still running.  This is what makes the cleanup invisible to callers.
MapTellsWindows ==
    /\ \A k \in DOMAIN hits :
          /\ window[k].start = hits[k].start
          /\ window[k].used = IF hits[k].n <= Limit THEN hits[k].n ELSE Limit
    /\ \A k \in Keys \ DOMAIN hits :
          window[k].used = 0 \/ clock - window[k].start > Window

\* A clock reading is never ahead of the clock, nor too far behind it.
ReadingsPast ==
    /\ \A p \in DOMAIN waiting : waiting[p].now \in 0..clock /\ clock - waiting[p].now <= MaxWait
    /\ \A k \in Keys : window[k].start <= clock

\* The inductive invariant of RateLimiterProofs.
IInv == TypeOK /\ ReadingsPast /\ MapTellsWindows

\* However requests interleave with the sweep, a key is never let through more
\* than 2 * Limit - 1 times in a span of Window ticks less the longest wait for
\* the mutex (fixed windows allow two bursts back to back, never three).
BurstBound == \A k \in Keys : Len(recent[k]) < 2 * Limit

\* Past the threshold, the map holds only windows that were still running for
\* the call that saw it last, plus that call's own: what the cleanup achieves.
\* In ticks of the clock: running no more than MaxWait ago.
OverThresholdAllRunning ==
    [][Cardinality(DOMAIN hits') > CleanupAt + 1 /\ hits' # hits =>
         \A k \in DOMAIN hits' : clock - hits'[k].start <= Window + MaxWait]_vars

\* The limiter implements the fixed windows its callers rely on.
Windows == INSTANCE FixedWindow
ImplementsWindows == Windows!Spec
=============================================================================
