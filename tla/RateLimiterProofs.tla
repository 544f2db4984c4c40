-------------------------- MODULE RateLimiterProofs --------------------------
(***************************************************************************)
(* Proofs about the rate limiter, for every set of keys and requests and   *)
(* every limit, window and cleanup threshold: the map with its lazy        *)
(* cleanup is a faithful record of the windows (IInv is inductive), the    *)
(* limiter implements FixedWindow, bursts are bounded (Bursts), and the    *)
(* sweep leaves only what was running.                                     *)
(***************************************************************************)
EXTENDS RateLimiter, SequenceTheorems, FiniteSetTheorems, TLAPS

USE LimitAssumption, WindowAssumption, MaxWaitAssumption

\* Sweeping keeps entries as they are, and what it drops has expired for the
\* caller's reading.
LEMMA SweptFacts ==
    ASSUME hits \in [DOMAIN hits -> WindowCount], NEW t
    PROVE  /\ DOMAIN Swept(t) \subseteq DOMAIN hits
           /\ Swept(t) \in [DOMAIN Swept(t) -> WindowCount]
           /\ \A k \in DOMAIN Swept(t) : Swept(t)[k] = hits[k]
           /\ \A k \in DOMAIN hits \ DOMAIN Swept(t) : Expired(hits[k], t)
<1>. DEFINE S == {k \in DOMAIN hits : ~Expired(hits[k], t)}
<1>1. CASE Swept(t) = hits
  BY <1>1
<1>2. CASE Swept(t) = [k \in S |-> hits[k]]
  <2>1. DOMAIN Swept(t) = S
    BY <1>2
  <2>. QED
    BY <1>2, <2>1
<1>. QED
  BY <1>1, <1>2 DEF Swept, Restrict

-----------------------------------------------------------------------------

LEMMA InitIInv == Init => IInv
BY DEF Init, IInv, TypeOK, ReadingsPast, MapTellsWindows, NoWindow, Empty

\* A request leaves the mutex.
LEMMA ReturnFacts ==
    ASSUME TypeOK, NEW p, Return(p)
    PROVE  /\ DOMAIN waiting' = DOMAIN waiting \ {p}
           /\ waiting' \in [DOMAIN waiting' -> [key : Keys, now : Nat]]
           /\ \A q \in DOMAIN waiting' : waiting'[q] = waiting[q]
           /\ clock' = clock
BY DEF Return, Restrict, TypeOK

\* What the two locked sections do to the map, the waiting requests and the
\* windows of other keys, in the form the proofs below use.
LEMMA OpenWindowFacts ==
    ASSUME TypeOK, NEW p \in Procs, OpenWindow(p)
    PROVE  LET k == waiting[p].key
               t == waiting[p].now
           IN  /\ p \in DOMAIN waiting /\ k \in Keys /\ t \in Nat
               /\ NeedsWindow(Swept(t), k, t)
               /\ DOMAIN hits' = DOMAIN Swept(t) \cup {k}
               /\ hits' \in [DOMAIN hits' -> WindowCount]
               /\ hits'[k] = [start |-> t, n |-> 1]
               /\ \A j \in DOMAIN hits' \ {k} : j \in DOMAIN hits /\ hits'[j] = hits[j]
               /\ window' = [window EXCEPT ![k] = [start |-> t, used |-> 1]]
<1>. DEFINE k == waiting[p].key
            t == waiting[p].now
            m == Swept(t)
<1>1. p \in DOMAIN waiting /\ k \in Keys /\ t \in Nat
  BY DEF OpenWindow, TypeOK
<1>2. /\ DOMAIN m \subseteq DOMAIN hits
      /\ m \in [DOMAIN m -> WindowCount]
      /\ \A j \in DOMAIN m : m[j] = hits[j]
  BY SweptFacts DEF TypeOK
<1>3. /\ NeedsWindow(m, k, t)
      /\ hits' = [j \in DOMAIN m \cup {k} |-> IF j = k THEN FirstHit(t) ELSE m[j]]
      /\ window' = [window EXCEPT ![k] = [start |-> t, used |-> 1]]
  BY DEF OpenWindow
<1>4. FirstHit(t) = [start |-> t, n |-> 1] /\ FirstHit(t) \in WindowCount
  BY <1>1 DEF FirstHit, WindowCount
<1>5. DOMAIN hits' = DOMAIN m \cup {k}
  BY <1>3
<1>6. hits' \in [DOMAIN hits' -> WindowCount]
  BY <1>2, <1>3, <1>4, <1>5
<1>. QED
  BY <1>1, <1>2, <1>3, <1>4, <1>5, <1>6

LEMMA CountHitFacts ==
    ASSUME TypeOK, NEW p \in Procs, CountHit(p)
    PROVE  LET k == waiting[p].key
               t == waiting[p].now
               n == hits[k].n + 1
           IN  /\ p \in DOMAIN waiting /\ t \in Nat
               /\ k \in DOMAIN hits /\ ~Expired(hits[k], t)
               /\ DOMAIN hits' = DOMAIN Swept(t)
               /\ hits' \in [DOMAIN hits' -> WindowCount]
               /\ hits'[k] = [start |-> hits[k].start, n |-> n]
               /\ \A j \in DOMAIN hits' \ {k} : j \in DOMAIN hits /\ hits'[j] = hits[j]
               /\ n <= Limit => window' = [window EXCEPT ![k].used = @ + 1]
               /\ ~(n <= Limit) => window' = window
<1>. DEFINE k == waiting[p].key
            t == waiting[p].now
            m == Swept(t)
<1>1. p \in DOMAIN waiting /\ k \in Keys /\ t \in Nat
  BY DEF CountHit, TypeOK
<1>2. /\ DOMAIN m \subseteq DOMAIN hits
      /\ m \in [DOMAIN m -> WindowCount]
      /\ \A j \in DOMAIN m : m[j] = hits[j]
  BY SweptFacts DEF TypeOK
<1>3. k \in DOMAIN m /\ ~Expired(m[k], t)
  BY DEF CountHit, NeedsWindow
<1>4. /\ hits' = [m EXCEPT ![k].n = @ + 1]
      /\ IF m[k].n + 1 <= Limit
         THEN window' = [window EXCEPT ![k].used = @ + 1]
         ELSE window' = window
  BY DEF CountHit, Allowed
<1>5. m[k] = hits[k] /\ hits[k] \in WindowCount
  BY <1>2, <1>3
<1>6. DOMAIN hits' = DOMAIN m
  BY <1>4
<1>7. hits'[k] = [start |-> hits[k].start, n |-> hits[k].n + 1] /\ hits'[k] \in WindowCount
  BY <1>3, <1>4, <1>5 DEF WindowCount
<1>8. \A j \in DOMAIN hits' \ {k} : hits'[j] = m[j]
  BY <1>4, <1>6
<1>9. hits' \in [DOMAIN hits' -> WindowCount]
  <2>1. hits' = [j \in DOMAIN hits' |-> hits'[j]]
    BY <1>4, <1>6
  <2>2. \A j \in DOMAIN hits' : hits'[j] \in WindowCount
    BY <1>2, <1>6, <1>7, <1>8
  <2>. QED
    BY <2>1, <2>2
<1>. QED
  BY <1>1, <1>2, <1>3, <1>4, <1>5, <1>6, <1>7, <1>8, <1>9

-----------------------------------------------------------------------------

LEMMA ReadClockStep ==
    ASSUME IInv, NEW p \in Procs, NEW k \in Keys, ReadClock(p, k)
    PROVE  IInv'
<1>1. TypeOK'
  BY DEF IInv, TypeOK, ReadClock
<1>2. ReadingsPast'
  BY DEF IInv, TypeOK, ReadingsPast, ReadClock
<1>3. MapTellsWindows'
  BY DEF IInv, MapTellsWindows, ReadClock, Expired
<1>. QED
  BY <1>1, <1>2, <1>3 DEF IInv

\* A sweep drops a key only when its window is over for a reading of the past,
\* hence over now.
LEMMA OpenWindowStep ==
    ASSUME IInv, NEW p \in Procs, OpenWindow(p)
    PROVE  IInv'
<1>. DEFINE k == waiting[p].key
            t == waiting[p].now
<1>1. /\ p \in DOMAIN waiting /\ k \in Keys /\ t \in Nat
      /\ DOMAIN hits' = DOMAIN Swept(t) \cup {k}
      /\ hits' \in [DOMAIN hits' -> WindowCount]
      /\ hits'[k] = [start |-> t, n |-> 1]
      /\ \A j \in DOMAIN hits' \ {k} : j \in DOMAIN hits /\ hits'[j] = hits[j]
      /\ window' = [window EXCEPT ![k] = [start |-> t, used |-> 1]]
  BY OpenWindowFacts DEF IInv
<1>2. /\ DOMAIN Swept(t) \subseteq DOMAIN hits
      /\ \A j \in DOMAIN hits \ DOMAIN Swept(t) : Expired(hits[j], t)
  BY SweptFacts DEF IInv, TypeOK
<1>3. /\ DOMAIN waiting' \subseteq DOMAIN waiting
      /\ waiting' \in [DOMAIN waiting' -> [key : Keys, now : Nat]]
      /\ \A q \in DOMAIN waiting' : waiting'[q] = waiting[q]
      /\ clock' = clock
  BY ReturnFacts DEF OpenWindow, IInv
<1>4. t <= clock /\ clock \in Nat
  BY <1>1 DEF IInv, TypeOK, ReadingsPast
<1>5. /\ window'[k] = [start |-> t, used |-> 1]
      /\ \A j \in Keys \ {k} : window'[j] = window[j]
      /\ window' \in [Keys -> [start : Nat, used : 0..Limit]]
  BY <1>1 DEF IInv, TypeOK
<1>6. TypeOK'
  BY <1>1, <1>2, <1>3, <1>4, <1>5 DEF IInv, TypeOK
<1>7. ReadingsPast'
  BY <1>3, <1>4, <1>5 DEF IInv, ReadingsPast
<1>8. MapTellsWindows'
  <2>1. ASSUME NEW j \in DOMAIN hits'
        PROVE  /\ window'[j].start = hits'[j].start
               /\ window'[j].used = IF hits'[j].n <= Limit THEN hits'[j].n ELSE Limit
    <3>1. CASE j = k
      BY <1>1, <1>5, <3>1
    <3>2. CASE j # k
      BY <1>1, <1>5, <3>2 DEF IInv, TypeOK, MapTellsWindows
    <3>. QED
      BY <3>1, <3>2
  <2>2. ASSUME NEW j \in Keys \ DOMAIN hits'
        PROVE  window'[j].used = 0 \/ clock' - window'[j].start > Window
    <3>1. j # k /\ window'[j] = window[j]
      BY <1>1, <1>5
    <3>2. CASE j \in DOMAIN hits
      <4>1. Expired(hits[j], t) /\ window[j].start = hits[j].start
        BY <1>1, <1>2, <3>2 DEF IInv, MapTellsWindows
      <4>2. hits[j].start \in Nat
        BY <3>2 DEF IInv, TypeOK, WindowCount
      <4>. QED
        BY <1>1, <1>3, <1>4, <3>1, <4>1, <4>2 DEF Expired
    <3>3. CASE j \notin DOMAIN hits
      BY <1>3, <3>1, <3>3 DEF IInv, MapTellsWindows
    <3>. QED
      BY <3>2, <3>3
  <2>. QED
    BY <2>1, <2>2 DEF MapTellsWindows
<1>. QED
  BY <1>6, <1>7, <1>8 DEF IInv

LEMMA CountHitStep ==
    ASSUME IInv, NEW p \in Procs, CountHit(p)
    PROVE  IInv'
<1>. DEFINE k == waiting[p].key
            t == waiting[p].now
            n == hits[k].n + 1
<1>1. /\ p \in DOMAIN waiting /\ t \in Nat
      /\ k \in DOMAIN hits /\ ~Expired(hits[k], t)
      /\ DOMAIN hits' = DOMAIN Swept(t)
      /\ hits' \in [DOMAIN hits' -> WindowCount]
      /\ hits'[k] = [start |-> hits[k].start, n |-> n]
      /\ \A j \in DOMAIN hits' \ {k} : j \in DOMAIN hits /\ hits'[j] = hits[j]
      /\ n <= Limit => window' = [window EXCEPT ![k].used = @ + 1]
      /\ ~(n <= Limit) => window' = window
  BY CountHitFacts DEF IInv
<1>2. /\ DOMAIN Swept(t) \subseteq DOMAIN hits
      /\ \A j \in DOMAIN hits \ DOMAIN Swept(t) : Expired(hits[j], t)
  BY SweptFacts DEF IInv, TypeOK
<1>3. /\ DOMAIN waiting' \subseteq DOMAIN waiting
      /\ waiting' \in [DOMAIN waiting' -> [key : Keys, now : Nat]]
      /\ \A q \in DOMAIN waiting' : waiting'[q] = waiting[q]
      /\ clock' = clock
  BY ReturnFacts DEF CountHit, IInv
<1>4. t <= clock /\ clock \in Nat
  BY <1>1 DEF IInv, TypeOK, ReadingsPast
<1>5. /\ k \in Keys
      /\ hits[k].n \in Nat \ {0} /\ hits[k].start \in Nat
      /\ window[k] \in [start : Nat, used : 0..Limit]
      /\ window[k].start = hits[k].start
      /\ window[k].used = IF hits[k].n <= Limit THEN hits[k].n ELSE Limit
  BY <1>1 DEF IInv, TypeOK, WindowCount, MapTellsWindows
<1>6. /\ window' \in [Keys -> [start : Nat, used : 0..Limit]]
      /\ window'[k].start = hits[k].start
      /\ window'[k].used = IF n <= Limit THEN n ELSE Limit
      /\ \A j \in Keys \ {k} : window'[j] = window[j]
  <2>1. CASE n <= Limit
    <3>1. window[k].used = hits[k].n /\ window[k].used + 1 \in 0..Limit
      BY <1>5, <2>1
    <3>2. window' = [window EXCEPT ![k] = [start |-> window[k].start,
                                           used |-> window[k].used + 1]]
      BY <1>1, <1>5, <2>1 DEF IInv, TypeOK
    <3>. QED
      BY <1>5, <2>1, <3>1, <3>2 DEF IInv, TypeOK
  <2>2. CASE ~(n <= Limit)
    <3>1. window' = window
      BY <1>1, <2>2
    <3>2. window[k].used = Limit
      BY <1>5, <2>2
    <3>. QED
      BY <1>5, <2>2, <3>1, <3>2 DEF IInv, TypeOK
  <2>. QED
    BY <2>1, <2>2
<1>7. TypeOK'
  BY <1>1, <1>2, <1>3, <1>4, <1>6 DEF IInv, TypeOK
<1>8. ReadingsPast'
  BY <1>3, <1>4, <1>5, <1>6 DEF IInv, ReadingsPast
<1>9. MapTellsWindows'
  <2>1. ASSUME NEW j \in DOMAIN hits'
        PROVE  /\ window'[j].start = hits'[j].start
               /\ window'[j].used = IF hits'[j].n <= Limit THEN hits'[j].n ELSE Limit
    <3>1. CASE j = k
      BY <1>1, <1>6, <3>1
    <3>2. CASE j # k
      BY <1>1, <1>6, <3>2 DEF IInv, TypeOK, MapTellsWindows
    <3>. QED
      BY <3>1, <3>2
  <2>2. ASSUME NEW j \in Keys \ DOMAIN hits'
        PROVE  window'[j].used = 0 \/ clock' - window'[j].start > Window
    <3>1. j # k /\ window'[j] = window[j]
      BY <1>1, <1>2, <1>6
    <3>2. CASE j \in DOMAIN hits
      <4>1. Expired(hits[j], t) /\ window[j].start = hits[j].start
        BY <1>1, <1>2, <3>2 DEF IInv, MapTellsWindows
      <4>2. hits[j].start \in Nat
        BY <3>2 DEF IInv, TypeOK, WindowCount
      <4>. QED
        BY <1>1, <1>3, <1>4, <3>1, <4>1, <4>2 DEF Expired
    <3>3. CASE j \notin DOMAIN hits
      BY <1>3, <3>1, <3>3 DEF IInv, MapTellsWindows
    <3>. QED
      BY <3>2, <3>3
  <2>. QED
    BY <2>1, <2>2 DEF MapTellsWindows
<1>. QED
  BY <1>7, <1>8, <1>9 DEF IInv

LEMMA RestartStep == ASSUME IInv, Restart PROVE IInv'
BY DEF IInv, TypeOK, ReadingsPast, MapTellsWindows, Restart, Empty, NoWindow

LEMMA TickStep == ASSUME IInv, Tick PROVE IInv'
<1>1. TypeOK'
  BY DEF IInv, TypeOK, Tick
<1>2. ReadingsPast'
  BY DEF IInv, TypeOK, ReadingsPast, Tick
<1>3. MapTellsWindows'
  BY DEF IInv, TypeOK, MapTellsWindows, Tick
<1>. QED
  BY <1>1, <1>2, <1>3 DEF IInv

LEMMA StepIInv == IInv /\ [Next]_vars => IInv'
<1>. SUFFICES ASSUME IInv, [Next]_vars PROVE IInv'
  OBVIOUS
<1>1. CASE UNCHANGED vars
  BY <1>1 DEF vars, IInv, TypeOK, ReadingsPast, MapTellsWindows
<1>. QED
  BY <1>1, ReadClockStep, OpenWindowStep, CountHitStep, RestartStep, TickStep DEF Next

\* Types, readings and map are right in every state.
THEOREM Safety == Spec => []IInv
BY InitIInv, StepIInv, PTL DEF Spec

\* ratelimit.go:35-42: the lazy cleanup never loses a window that still counts;
\* map and history agree whatever the callers' interleaving.
THEOREM CleanupIsInvisible == Spec => []MapTellsWindows
<1>1. IInv => MapTellsWindows
  BY DEF IInv
<1>. QED
  BY <1>1, Safety, PTL

\* The map, the windows and the readings keep to their types, and no window lets
\* more than Limit hits through, whoever is counting (ratelimit.go:28).
THEOREM TypeCorrect == Spec => []TypeOK
<1>1. IInv => TypeOK
  BY DEF IInv
<1>. QED
  BY <1>1, Safety, PTL

-----------------------------------------------------------------------------
(***************************************************************************)
(* The limiter implements FixedWindow: opening a window in the map is      *)
(* opening one there, a counted hit within the limit is an admission, and  *)
(* readings, refused hits and sweeps change nothing a caller can see.      *)
(***************************************************************************)

LEMMA OpenWindowMaps ==
    ASSUME IInv, NEW p \in Procs, OpenWindow(p)
    PROVE  Windows!Open(waiting[p].key)
<1>. DEFINE k == waiting[p].key
            t == waiting[p].now
<1>1. /\ p \in DOMAIN waiting /\ k \in Keys /\ t \in Nat
      /\ NeedsWindow(Swept(t), k, t)
      /\ window' = [window EXCEPT ![k] = [start |-> t, used |-> 1]]
  BY OpenWindowFacts DEF IInv
<1>2. /\ DOMAIN Swept(t) \subseteq DOMAIN hits
      /\ \A j \in DOMAIN Swept(t) : Swept(t)[j] = hits[j]
      /\ \A j \in DOMAIN hits \ DOMAIN Swept(t) : Expired(hits[j], t)
  BY SweptFacts DEF IInv, TypeOK
<1>3. t \in 0..clock /\ clock - t <= MaxWait /\ clock \in Nat /\ clock' = clock
  BY <1>1 DEF IInv, TypeOK, ReadingsPast, OpenWindow, Return
<1>4. Windows!MayOpen(window[k], clock)
  <2>1. CASE k \in DOMAIN hits
    <3>1. Expired(hits[k], t) /\ window[k].start = hits[k].start
      BY <1>1, <1>2, <2>1 DEF NeedsWindow, IInv, MapTellsWindows
    <3>2. hits[k].start \in Nat
      BY <2>1 DEF IInv, TypeOK, WindowCount
    <3>. QED
      BY <1>1, <1>3, <3>1, <3>2 DEF Expired, Windows!MayOpen
  <2>2. CASE k \notin DOMAIN hits
    BY <1>1, <2>2 DEF IInv, MapTellsWindows, Windows!MayOpen
  <2>. QED
    BY <2>1, <2>2
<1>. QED
  BY <1>1, <1>3, <1>4 DEF Windows!Open

LEMMA CountHitMaps ==
    ASSUME IInv, NEW p \in Procs, CountHit(p)
    PROVE  Windows!Admit(waiting[p].key) \/ UNCHANGED <<clock, window>>
<1>. DEFINE k == waiting[p].key
            n == hits[k].n + 1
<1>1. /\ k \in DOMAIN hits
      /\ n <= Limit => window' = [window EXCEPT ![k].used = @ + 1]
      /\ ~(n <= Limit) => window' = window
  BY CountHitFacts DEF IInv
<1>2. clock' = clock
  BY DEF CountHit, Return
<1>3. /\ hits[k].n \in Nat \ {0}
      /\ window[k].used = IF hits[k].n <= Limit THEN hits[k].n ELSE Limit
  BY <1>1 DEF IInv, TypeOK, WindowCount, MapTellsWindows
<1>4. CASE n <= Limit
  <2>1. window[k].used \in 1..(Limit - 1)
    BY <1>3, <1>4
  <2>2. clock - window[k].start <= Window + MaxWait
    <3>1. hits[k].start \in Nat /\ window[k].start = hits[k].start
      BY <1>1 DEF IInv, TypeOK, WindowCount, MapTellsWindows
    <3>2. p \in DOMAIN waiting /\ ~Expired(hits[k], waiting[p].now)
      BY CountHitFacts DEF IInv
    <3>3. /\ clock \in Nat /\ waiting[p].now \in Nat
          /\ clock - waiting[p].now <= MaxWait
      BY <3>2 DEF IInv, ReadingsPast, TypeOK
    <3>. QED
      BY <3>1, <3>2, <3>3 DEF Expired
  <2>. QED
    BY <1>1, <1>2, <1>4, <2>1, <2>2 DEF Windows!Admit
<1>5. CASE ~(n <= Limit)
  BY <1>1, <1>2, <1>5
<1>. QED
  BY <1>4, <1>5

\* ratelimit.go:30-50: what callers of Allow rely on, proved of the map, the
\* sweep and the clock reading outside the lock.
THEOREM Refinement == Spec => ImplementsWindows
<1>1. Init => Windows!Init
  BY DEF Init, Windows!Init, NoWindow, Windows!NoWindow
<1>2. IInv /\ [Next]_vars => [Windows!Next]_(Windows!vars)
  <2>. SUFFICES ASSUME IInv, [Next]_vars
                PROVE  Windows!Next \/ UNCHANGED <<clock, window>>
    BY DEF Windows!vars
  <2>1. ASSUME NEW p \in Procs, NEW k \in Keys, ReadClock(p, k)
        PROVE  UNCHANGED <<clock, window>>
    BY <2>1 DEF ReadClock
  <2>2. ASSUME NEW p \in Procs, OpenWindow(p) PROVE Windows!Next
    <3>1. waiting[p].key \in Keys
      BY <2>2, OpenWindowFacts DEF IInv
    <3>. QED
      BY <2>2, <3>1, OpenWindowMaps DEF Windows!Next
  <2>3. ASSUME NEW p \in Procs, CountHit(p)
        PROVE  Windows!Next \/ UNCHANGED <<clock, window>>
    <3>1. waiting[p].key \in Keys
      BY <2>3, CountHitFacts DEF IInv, TypeOK
    <3>. QED
      BY <2>3, <3>1, CountHitMaps DEF Windows!Next
  <2>4. CASE Restart
    BY <2>4 DEF Restart, Windows!Next, Windows!Restart, NoWindow, Windows!NoWindow
  <2>5. CASE Tick
    BY <2>5 DEF Tick, Windows!Next, Windows!Tick
  <2>6. CASE UNCHANGED vars
    BY <2>6 DEF vars
  <2>. QED
    BY <2>1, <2>2, <2>3, <2>4, <2>5, <2>6 DEF Next
<1>. QED
  BY <1>1, <1>2, Safety, PTL DEF Spec, ImplementsWindows, Windows!Spec

-----------------------------------------------------------------------------
(***************************************************************************)
(* Bursts.  What is remembered of a key is at most what its window let     *)
(* through, and Limit - 1 grants of the window before: by the time that a  *)
(* window opens the first grant of the one before it is forgotten, since   *)
(* it was made no later than MaxWait after that window's reading.          *)
(***************************************************************************)

\* What r, the grants remembered of a key, says of its window w: of those before w
\* fewer than Limit are left, and these and the first of w were let through by the
\* time that w's reading was MaxWait old.
InBurst(w, r) ==
    /\ w.used = 0 => r = <<>>
    /\ w.used > 0 => Len(r) < w.used + Limit
    /\ \A i \in 1..Len(r) : i <= Len(r) - w.used + 1 => r[i] <= w.start + MaxWait

\* What is remembered of each key was let through by now, as the windows allow.
Bursts ==
    /\ recent \in [Keys -> Seq(Nat)]
    /\ \A k \in Keys : \A i \in 1..Len(recent[k]) : recent[k][i] <= clock
    /\ \A k \in Keys : InBurst(window[k], recent[k])

\* Where the elements go when the first n of a are dropped and one is appended.
LEMMA Shifted ==
    ASSUME NEW a \in Nat, NEW b \in Nat, NEW n \in 0..a, b = a - n + 1
    PROVE  /\ \A i \in 1..b : i # b => n + i \in 1..a /\ i \in 1..(b - 1)
           /\ \A i \in 1..(b - 1) : i \in 1..b /\ i \in 1..(a - n) /\ n + i \in 1..a
           /\ \A u \in Nat, i \in 1..b : i <= b - (u + 1) + 1 => n + i <= a - u + 1
           /\ \A u \in Nat \ {0}, i \in 1..b : i <= b - (u + 1) + 1 => i # b
OBVIOUS

\* What the grant at time c makes of r, the grants remembered of a key, when the
\* first n of them are forgotten.
Remembers(r, n, c, s) ==
    /\ n < Len(r) => c - r[n + 1] <= Span
    /\ Len(s) = Len(r) - n + 1
    /\ s[Len(s)] = c
    /\ \A i \in 1..(Len(s) - 1) : s[i] = r[n + i]

\* What a grant remembers of the ones before it, and what it has forgotten.
LEMMA GrantedFacts ==
    ASSUME recent \in [Keys -> Seq(Nat)], clock \in Nat, NEW k \in Keys, Granted(k)
    PROVE  \E n \in 0..Len(recent[k]) :
              /\ Remembers(recent[k], n, clock, recent'[k])
              /\ recent' \in [Keys -> Seq(Nat)]
              /\ \A j \in Keys \ {k} : recent'[j] = recent[j]
<1>. DEFINE r == recent[k]
            s == recent'[k]
<1>1. PICK n \in 0..Len(r) :
         /\ n < Len(r) => clock - r[n + 1] <= Span
         /\ recent' = [recent EXCEPT ![k] = Append(SubSeq(r, n + 1, Len(r)), clock)]
  BY DEF Granted
<1>2. r \in Seq(Nat) /\ Len(r) \in Nat /\ \A i \in 1..Len(r) : r[i] \in Nat
  BY ElementOfSeq, LenProperties
<1>. DEFINE q == SubSeq(r, n + 1, Len(r))
<1>3. /\ q \in Seq(Nat)
      /\ Len(q) = Len(r) - n
      /\ \A i \in 1..(Len(r) - n) : q[i] = r[n + i]
  <2>1. n + 1 \in Int /\ Len(r) \in Int /\ \A i \in (n + 1)..Len(r) : r[i] \in Nat
    BY <1>2
  <2>2. /\ q \in Seq(Nat)
        /\ Len(q) = IF n + 1 <= Len(r) THEN Len(r) - (n + 1) + 1 ELSE 0
        /\ \A i \in 1..(Len(r) - (n + 1) + 1) : q[i] = r[(n + 1) + i - 1]
    BY <2>1, SubSeqProperties
  <2>. QED
    BY <1>2, <2>2
<1>4. s = Append(q, clock)
  BY <1>1
<1>. HIDE DEF q
<1>5. /\ s \in Seq(Nat) /\ Len(s) = Len(q) + 1 /\ s[Len(q) + 1] = clock
      /\ \A i \in 1..Len(q) : s[i] = q[i]
  <2>1. q \in Seq(Nat) /\ clock \in Nat
    BY <1>3
  <2>2. /\ Append(q, clock) \in Seq(Nat) /\ Len(Append(q, clock)) = Len(q) + 1
        /\ Append(q, clock)[Len(q) + 1] = clock
        /\ \A i \in 1..Len(q) : Append(q, clock)[i] = q[i]
    BY <2>1, AppendProperties
  <2>. QED
    BY <1>4, <2>2
<1>6. recent' \in [Keys -> Seq(Nat)] /\ \A j \in Keys \ {k} : recent'[j] = recent[j]
  BY <1>1, <1>4, <1>5
<1>. HIDE DEF r, s
<1>7. Len(s) = Len(r) - n + 1
  BY <1>2, <1>3, <1>5
<1>8. s[Len(s)] = clock
  BY <1>5
<1>9. \A i \in 1..(Len(s) - 1) : s[i] = r[n + i]
  <2>1. Len(s) \in Nat /\ Len(q) = Len(r) - n
    BY <1>2, <1>3, <1>5, LenProperties
  <2>2. \A i \in 1..(Len(s) - 1) : i \in 1..Len(q)
    BY <1>2, <1>7, <2>1, Shifted, Zenon
  <2>. QED
    BY <1>3, <1>5, <2>1, <2>2, Zenon
<1>10. Remembers(r, n, clock, s)
  BY <1>1, <1>7, <1>8, <1>9, Zenon DEF Remembers
<1>. QED
  BY <1>6, <1>10 DEF r, s

\* Among at least Limit that are left is the first of a window's u.
LEMMA FirstIsLeft ==
    ASSUME NEW a \in Nat, NEW n \in 0..a, NEW u \in 0..Limit, a - n >= Limit
    PROVE  n + 1 \in 1..a /\ n + 1 <= a - u + 1 /\ n < a
OBVIOUS

\* Nothing is remembered of the future.
LEMMA RememberedPast ==
    ASSUME NEW r \in Seq(Nat), NEW s \in Seq(Nat), NEW n \in 0..Len(r), NEW c \in Nat,
           Remembers(r, n, c, s), \A i \in 1..Len(r) : r[i] <= c
    PROVE  \A i \in 1..Len(s) : s[i] <= c
<1>. SUFFICES ASSUME NEW i \in 1..Len(s) PROVE s[i] <= c
  OBVIOUS
<1>1. Len(r) \in Nat /\ Len(s) = Len(r) - n + 1
  BY LenProperties DEF Remembers
<1>2. CASE i = Len(s)
  BY <1>2 DEF Remembers
<1>3. CASE i # Len(s)
  <2>1. n + i \in 1..Len(r) /\ i \in 1..(Len(s) - 1)
    BY <1>1, <1>3, LenProperties, Shifted, Zenon
  <2>. QED
    BY <2>1 DEF Remembers
<1>. QED
  BY <1>2, <1>3

\* Opening a window forgets all but Limit - 1 grants: among more than that would be
\* the first of the old window.
LEMMA OpenedInBurst ==
    ASSUME NEW w \in [start : Nat, used : 0..Limit], NEW c \in Nat, NEW t \in Nat,
           NEW r \in Seq(Nat), NEW s \in Seq(Nat), NEW n \in 0..Len(r),
           Remembers(r, n, c, s), InBurst(w, r),
           \A i \in 1..Len(s) : s[i] <= c,
           c - t <= MaxWait, w.used = 0 \/ c - w.start > Window
    PROVE  InBurst([start |-> t, used |-> 1], s)
<1>1. /\ Len(r) \in Nat /\ Len(s) \in Nat /\ Len(s) = Len(r) - n + 1
      /\ \A i \in 1..Len(s) : s[i] \in Nat
  BY ElementOfSeq, LenProperties DEF Remembers
<1>2. Len(s) <= Limit
  <2>1. CASE w.used = 0
    <3>1. Len(r) = 0
      BY <2>1 DEF InBurst
    <3>. QED
      BY <1>1, <3>1
  <2>2. CASE w.used > 0
    <3>1. SUFFICES ASSUME Len(r) - n >= Limit PROVE FALSE
      BY <1>1
    <3>2. Len(r) \in Nat /\ w.used \in 0..Limit
      BY <1>1
    <3>3. /\ n + 1 \in 1..Len(r) /\ n + 1 <= Len(r) - w.used + 1 /\ n < Len(r)
      BY <3>1, <3>2, FirstIsLeft, Zenon
    <3>4. r[n + 1] <= w.start + MaxWait /\ c - r[n + 1] <= Span
      BY <3>3 DEF InBurst, Remembers
    <3>5. r[n + 1] \in Nat
      BY <3>3, ElementOfSeq
    <3>6. c - w.start > Window /\ w.start \in Nat
      BY <2>2
    <3>. QED
      BY <3>4, <3>5, <3>6 DEF Span
  <2>. QED
    BY <2>1, <2>2
<1>3. \A i \in 1..Len(s) : s[i] <= t + MaxWait
  BY <1>1
<1>. QED
  BY <1>1, <1>2, <1>3 DEF InBurst

\* A hit let through in a running window is one more of that window's.
LEMMA CountedInBurst ==
    ASSUME NEW w \in [start : Nat, used : 0..Limit], NEW v \in [start : Nat, used : 0..Limit],
           NEW c \in Nat, NEW r \in Seq(Nat), NEW s \in Seq(Nat), NEW n \in 0..Len(r),
           Remembers(r, n, c, s), InBurst(w, r), w.used > 0,
           v.start = w.start, v.used = w.used + 1
    PROVE  InBurst(v, s)
<1>1. Len(r) \in Nat /\ Len(s) \in Nat /\ Len(s) = Len(r) - n + 1 /\ w.used \in Nat
  BY LenProperties DEF Remembers
<1>2. Len(s) < v.used + Limit
  BY <1>1 DEF InBurst
<1>3. ASSUME NEW i \in 1..Len(s), i <= Len(s) - v.used + 1
      PROVE  s[i] <= v.start + MaxWait
  <2>1. i <= Len(s) - (w.used + 1) + 1 /\ w.used \in Nat \ {0}
    BY <1>1, <1>3
  <2>2. i # Len(s) /\ n + i <= Len(r) - w.used + 1
    BY <1>1, <2>1, Shifted, Zenon
  <2>3. /\ i \in 1..(Len(s) - 1) /\ n + i \in 1..Len(r)
    BY <1>1, <2>2, Shifted, Zenon
  <2>4. s[i] = r[n + i]
    BY <2>3 DEF Remembers
  <2>. QED
    BY <2>2, <2>3, <2>4 DEF InBurst
<1>. QED
  BY <1>1, <1>2, <1>3 DEF InBurst

LEMMA OpenWindowBursts ==
    ASSUME IInv, Bursts, NEW p \in Procs, OpenWindow(p)
    PROVE  Bursts'
<1>. DEFINE k == waiting[p].key
            t == waiting[p].now
            w == window[k]
<1>1. /\ p \in DOMAIN waiting /\ k \in Keys /\ t \in Nat
      /\ NeedsWindow(Swept(t), k, t)
      /\ window' = [window EXCEPT ![k] = [start |-> t, used |-> 1]]
  BY OpenWindowFacts DEF IInv
<1>2. /\ DOMAIN Swept(t) \subseteq DOMAIN hits
      /\ \A j \in DOMAIN Swept(t) : Swept(t)[j] = hits[j]
      /\ \A j \in DOMAIN hits \ DOMAIN Swept(t) : Expired(hits[j], t)
  BY SweptFacts DEF IInv, TypeOK
<1>3. t \in 0..clock /\ clock - t <= MaxWait /\ clock \in Nat /\ clock' = clock
  BY <1>1 DEF IInv, TypeOK, ReadingsPast, OpenWindow, Return
<1>4. w \in [start : Nat, used : 0..Limit] /\ (w.used = 0 \/ clock - w.start > Window)
  <2>1. CASE k \in DOMAIN hits
    <3>1. Expired(hits[k], t) /\ w.start = hits[k].start
      BY <1>1, <1>2, <2>1 DEF NeedsWindow, IInv, MapTellsWindows
    <3>2. hits[k].start \in Nat
      BY <2>1 DEF IInv, TypeOK, WindowCount
    <3>. QED
      BY <1>1, <1>3, <3>1, <3>2 DEF Expired, IInv, TypeOK
  <2>2. CASE k \notin DOMAIN hits
    BY <1>1, <2>2 DEF IInv, MapTellsWindows, TypeOK
  <2>. QED
    BY <2>1, <2>2
<1>5. PICK n \in 0..Len(recent[k]) :
         /\ Remembers(recent[k], n, clock, recent'[k])
         /\ recent' \in [Keys -> Seq(Nat)]
         /\ \A j \in Keys \ {k} : recent'[j] = recent[j]
  <2>1. Granted(k)
    BY DEF OpenWindow
  <2>. QED
    BY <1>1, <1>3, <2>1, GrantedFacts DEF Bursts
<1>6. /\ window'[k] = [start |-> t, used |-> 1]
      /\ \A j \in Keys \ {k} : window'[j] = window[j]
  BY <1>1 DEF IInv, TypeOK
<1>. HIDE DEF w
<1>7. /\ recent[k] \in Seq(Nat) /\ recent'[k] \in Seq(Nat)
      /\ \A i \in 1..Len(recent[k]) : recent[k][i] <= clock
      /\ InBurst(w, recent[k])
  BY <1>1, <1>5 DEF Bursts, w
<1>8. \A i \in 1..Len(recent'[k]) : recent'[k][i] <= clock
  BY <1>3, <1>5, <1>7, RememberedPast, Zenon
<1>9. InBurst([start |-> t, used |-> 1], recent'[k])
  BY <1>1, <1>3, <1>4, <1>5, <1>7, <1>8, OpenedInBurst, Zenon
<1>. QED
  BY <1>3, <1>5, <1>6, <1>8, <1>9 DEF Bursts

LEMMA CountHitBursts ==
    ASSUME IInv, Bursts, NEW p \in Procs, CountHit(p)
    PROVE  Bursts'
<1>. DEFINE k == waiting[p].key
            w == window[k]
<1>1. /\ p \in DOMAIN waiting /\ k \in Keys
      /\ k \in DOMAIN hits
      /\ hits[k].n + 1 <= Limit => window' = [window EXCEPT ![k].used = @ + 1]
      /\ ~(hits[k].n + 1 <= Limit) => window' = window
  BY CountHitFacts DEF IInv, TypeOK
<1>2. /\ hits[k].n \in Nat \ {0}
      /\ w \in [start : Nat, used : 0..Limit]
      /\ w.used = IF hits[k].n <= Limit THEN hits[k].n ELSE Limit
  BY <1>1 DEF IInv, TypeOK, WindowCount, MapTellsWindows
<1>3. clock' = clock /\ clock \in Nat
  BY DEF CountHit, Return, IInv, TypeOK
<1>4. Swept(waiting[p].now)[k] = hits[k]
  <2>1. k \in DOMAIN Swept(waiting[p].now)
    BY DEF CountHit, NeedsWindow
  <2>. QED
    BY <2>1, SweptFacts DEF IInv, TypeOK
<1>5. CASE hits[k].n + 1 <= Limit
  <2>1. Granted(k)
    BY <1>4, <1>5 DEF CountHit, Allowed
  <2>2. PICK n \in 0..Len(recent[k]) :
           /\ Remembers(recent[k], n, clock, recent'[k])
           /\ recent' \in [Keys -> Seq(Nat)]
           /\ \A j \in Keys \ {k} : recent'[j] = recent[j]
    BY <1>1, <1>3, <2>1, GrantedFacts DEF Bursts
  <2>3. window' = [window EXCEPT ![k].used = @ + 1]
    BY <1>1, <1>5
  <2>4. /\ window'[k] \in [start : Nat, used : 0..Limit]
        /\ window'[k].start = w.start /\ window'[k].used = w.used + 1
        /\ \A j \in Keys \ {k} : window'[j] = window[j]
    <3>1. w.used + 1 \in 0..Limit
      BY <1>2, <1>5
    <3>2. window' = [window EXCEPT ![k] = [start |-> w.start, used |-> w.used + 1]]
      BY <1>1, <1>2, <2>3
    <3>. QED
      BY <1>1, <1>2, <3>1, <3>2 DEF IInv, TypeOK
  <2>. HIDE DEF w
  <2>5. /\ recent[k] \in Seq(Nat) /\ recent'[k] \in Seq(Nat)
        /\ \A i \in 1..Len(recent[k]) : recent[k][i] <= clock
        /\ InBurst(w, recent[k])
    BY <1>1, <2>2 DEF Bursts, w
  <2>6. \A i \in 1..Len(recent'[k]) : recent'[k][i] <= clock
    BY <1>3, <2>2, <2>5, RememberedPast, Zenon
  <2>7. w.used > 0
    BY <1>2, <1>5
  <2>8. InBurst(window'[k], recent'[k])
    BY <1>2, <1>3, <2>2, <2>4, <2>5, <2>7, CountedInBurst, Zenon
  <2>. QED
    BY <1>3, <2>2, <2>4, <2>6, <2>8 DEF Bursts
<1>6. CASE ~(hits[k].n + 1 <= Limit)
  <2>1. window' = window /\ recent' = recent
    BY <1>1, <1>4, <1>6 DEF CountHit, Allowed
  <2>. QED
    BY <1>3, <2>1 DEF Bursts
<1>. QED
  BY <1>5, <1>6

LEMMA BurstsStep == IInv /\ Bursts /\ [Next]_vars => Bursts'
<1>. SUFFICES ASSUME IInv, Bursts, [Next]_vars PROVE Bursts'
  OBVIOUS
<1>1. ASSUME NEW p \in Procs, NEW k \in Keys, ReadClock(p, k) PROVE Bursts'
  BY <1>1 DEF ReadClock, Bursts
<1>2. CASE Restart
  <2>1. <<>> \in Seq(Nat) /\ Len(<<>>) = 0
    OBVIOUS
  <2>2. recent' = [k \in Keys |-> <<>>] /\ window' = [k \in Keys |-> NoWindow]
    BY <1>2 DEF Restart
  <2>3. recent' \in [Keys -> Seq(Nat)] /\ \A k \in Keys : recent'[k] = <<>>
    BY <2>1, <2>2
  <2>4. \A k \in Keys : InBurst(window'[k], recent'[k])
    BY <2>1, <2>2, <2>3 DEF NoWindow, InBurst
  <2>. QED
    BY <2>1, <2>3, <2>4 DEF Bursts
<1>3. CASE Tick
  <2>1. UNCHANGED <<window, recent>> /\ clock' = clock + 1 /\ clock \in Nat
    BY <1>3 DEF Tick, IInv, TypeOK
  <2>2. \A k \in Keys : \A i \in 1..Len(recent[k]) : recent[k][i] \in Nat
    BY ElementOfSeq DEF Bursts
  <2>3. \A k \in Keys : \A i \in 1..Len(recent[k]) : recent[k][i] <= clock + 1
    BY <2>1, <2>2 DEF Bursts
  <2>. QED
    BY <2>1, <2>3 DEF Bursts
<1>4. CASE UNCHANGED vars
  BY <1>4 DEF vars, Bursts
<1>. QED
  BY <1>1, <1>2, <1>3, <1>4, OpenWindowBursts, CountHitBursts DEF Next

\* ratelimit.go:48: a key's bursts are bounded across two windows, for every
\* limit and however late requests reach the mutex.
THEOREM BurstsBounded == Spec => []BurstBound
<1>1. Init => Bursts
  <2>1. <<>> \in Seq(Nat) /\ Len(<<>>) = 0
    OBVIOUS
  <2>2. ASSUME Init
        PROVE  /\ recent \in [Keys -> Seq(Nat)]
               /\ \A k \in Keys : recent[k] = <<>> /\ window[k] = NoWindow
    BY <2>1, <2>2 DEF Init
  <2>. QED
    BY <2>1, <2>2 DEF Bursts, InBurst, NoWindow
<1>2. IInv /\ Bursts => BurstBound
  <2>. SUFFICES ASSUME IInv, Bursts, NEW k \in Keys PROVE Len(recent[k]) < 2 * Limit
    BY DEF BurstBound
  <2>1. window[k].used \in 0..Limit /\ Len(recent[k]) \in Nat
    BY LenProperties DEF IInv, TypeOK, Bursts
  <2>2. CASE window[k].used = 0
    <3>1. recent[k] = <<>>
      BY <2>2 DEF Bursts, InBurst
    <3>. QED
      BY <3>1
  <2>3. CASE window[k].used > 0
    BY <2>1, <2>3 DEF Bursts, InBurst
  <2>. QED
    BY <2>1, <2>2, <2>3
<1>. QED
  BY <1>1, <1>2, Safety, BurstsStep, PTL DEF Spec

-----------------------------------------------------------------------------
(***************************************************************************)
(* What the sweep achieves.  The map holds finitely many entries, for each *)
(* call adds one at most; so a map past the threshold was swept just now.  *)
(***************************************************************************)

\* The map has finitely many entries, so that it has a size.
FiniteHits == IsFiniteSet(DOMAIN hits)

LEMMA RanLately ==
    ASSUME NEW s \in Nat, NEW t \in Nat, NEW c \in Nat, c - t <= MaxWait, ~(t - s > Window)
    PROVE  c - s <= Window + MaxWait
OBVIOUS

\* An entry that a sweep leaves was running for the caller's reading, and a map
\* that is not swept is within the threshold.
LEMMA SweptRuns ==
    ASSUME TypeOK, FiniteHits, NEW t \in Nat, t <= clock, clock - t <= MaxWait
    PROVE  /\ IsFiniteSet(DOMAIN Swept(t))
           /\ \/ Cardinality(DOMAIN Swept(t)) <= CleanupAt
              \/ \A k \in DOMAIN Swept(t) : clock - Swept(t)[k].start <= Window + MaxWait
<1>1. DOMAIN Swept(t) \subseteq DOMAIN hits
  BY SweptFacts DEF TypeOK
<1>2. IsFiniteSet(DOMAIN Swept(t))
  BY <1>1, FS_Subset DEF FiniteHits
<1>3. CASE Cardinality(DOMAIN hits) > CleanupAt
  <2>1. ASSUME NEW k \in DOMAIN Swept(t)
        PROVE  clock - Swept(t)[k].start <= Window + MaxWait
    <3>1. /\ k \in DOMAIN hits /\ ~Expired(hits[k], t)
          /\ Swept(t)[k] = hits[k]
      BY <1>3, <2>1 DEF Swept, Restrict
    <3>2. hits[k].start \in Nat /\ clock \in Nat
      BY <3>1 DEF TypeOK, WindowCount
    <3>3. clock - hits[k].start <= Window + MaxWait
      <4>1. ~(t - hits[k].start > Window)
        BY <3>1 DEF Expired
      <4>. QED
        BY <3>2, <4>1, RanLately
    <3>. QED
      BY <3>1, <3>3
  <2>. QED
    BY <1>2, <2>1
<1>4. CASE ~(Cardinality(DOMAIN hits) > CleanupAt)
  <2>1. Cardinality(DOMAIN hits) \in Nat
    BY FS_CardinalityType DEF FiniteHits
  <2>2. Swept(t) = hits
    BY <1>4 DEF Swept
  <2>. QED
    BY <1>2, <1>4, <2>1, <2>2, CleanupAssumption
<1>. QED
  BY <1>3, <1>4

\* Past the threshold and one more, what is in the map was running.
SweptPast ==
    Cardinality(DOMAIN hits') > CleanupAt + 1 /\ hits' # hits =>
       \A k \in DOMAIN hits' : clock - hits'[k].start <= Window + MaxWait

LEMMA OpenWindowPast ==
    ASSUME IInv, FiniteHits, NEW p \in Procs, OpenWindow(p)
    PROVE  FiniteHits' /\ SweptPast
<1>. DEFINE k == waiting[p].key
            t == waiting[p].now
            S == DOMAIN Swept(t)
<1>1. /\ p \in DOMAIN waiting /\ k \in Keys /\ t \in Nat
      /\ DOMAIN hits' = S \cup {k}
      /\ hits'[k] = [start |-> t, n |-> 1]
      /\ \A j \in S : j # k => hits'[j] = Swept(t)[j]
  <2>1. TypeOK /\ hits \in [DOMAIN hits -> WindowCount]
    BY DEF IInv, TypeOK
  <2>2. /\ p \in DOMAIN waiting /\ k \in Keys /\ t \in Nat
        /\ DOMAIN hits' = S \cup {k}
        /\ hits'[k] = [start |-> t, n |-> 1]
        /\ \A j \in DOMAIN hits' \ {k} : hits'[j] = hits[j]
    BY <2>1, OpenWindowFacts
  <2>3. \A j \in S : Swept(t)[j] = hits[j]
    BY <2>1, SweptFacts
  <2>. QED
    BY <2>2, <2>3
<1>2. t <= clock /\ clock - t <= MaxWait /\ clock \in Nat
  BY <1>1 DEF IInv, TypeOK, ReadingsPast
<1>3. /\ IsFiniteSet(S)
      /\ \/ Cardinality(S) <= CleanupAt
         \/ \A j \in S : clock - Swept(t)[j].start <= Window + MaxWait
  BY <1>1, <1>2, SweptRuns DEF IInv
<1>4. IsFiniteSet(S \cup {k}) /\ Cardinality(S \cup {k}) \in {Cardinality(S), Cardinality(S) + 1}
  BY <1>3, FS_AddElement
<1>5. Cardinality(S) \in Nat
  BY <1>3, FS_CardinalityType
<1>6. SweptPast
  <2>1. ASSUME \A j \in S : clock - Swept(t)[j].start <= Window + MaxWait, NEW j \in S \cup {k}
        PROVE  clock - hits'[j].start <= Window + MaxWait
    <3>1. CASE j = k
      <4>1. hits'[j].start = t
        BY <1>1, <3>1
      <4>2. clock - t <= Window + MaxWait
        BY <1>1, <1>2
      <4>. QED
        BY <4>1, <4>2
    <3>2. CASE j # k
      BY <1>1, <2>1, <3>2
    <3>. QED
      BY <3>1, <3>2
  <2>. HIDE DEF S
  <2>. QED
    BY <1>1, <1>3, <1>4, <1>5, <2>1, CleanupAssumption DEF SweptPast
<1>. QED
  BY <1>1, <1>4, <1>6 DEF FiniteHits

LEMMA CountHitPast ==
    ASSUME IInv, FiniteHits, NEW p \in Procs, CountHit(p)
    PROVE  FiniteHits' /\ SweptPast
<1>. DEFINE k == waiting[p].key
            t == waiting[p].now
            S == DOMAIN Swept(t)
<1>1. p \in DOMAIN waiting /\ t \in Nat /\ clock \in Nat
      /\ t <= clock /\ clock - t <= MaxWait
  BY DEF CountHit, IInv, TypeOK, ReadingsPast
<1>2. hits' = [Swept(t) EXCEPT ![k].n = @ + 1]
  BY DEF CountHit
<1>3. /\ IsFiniteSet(S)
      /\ \/ Cardinality(S) <= CleanupAt
         \/ \A j \in S : clock - Swept(t)[j].start <= Window + MaxWait
  BY <1>1, SweptRuns DEF IInv
<1>4. DOMAIN hits' = S /\ \A j \in S : hits'[j].start = Swept(t)[j].start
  <2>1. Swept(t) \in [S -> WindowCount]
    BY SweptFacts DEF IInv, TypeOK
  <2>. QED
    BY <1>2, <2>1 DEF WindowCount
<1>5. Cardinality(S) \in Nat
  BY <1>3, FS_CardinalityType
<1>6. SweptPast
  <2>. HIDE DEF S
  <2>. QED
    BY <1>3, <1>4, <1>5, CleanupAssumption DEF SweptPast
<1>. QED
  BY <1>3, <1>4, <1>6 DEF FiniteHits

\* ratelimit.go:35: for every threshold and however stale the readings, no call
\* leaves a map past the threshold with a window that was over when it read the
\* clock.
THEOREM OnlyRunningPastThreshold == Spec => OverThresholdAllRunning
<1>1. Init => FiniteHits
  BY FS_EmptySet DEF Init, Empty, FiniteHits
<1>2. IInv /\ FiniteHits /\ [Next]_vars => FiniteHits' /\ [SweptPast]_vars
  <2>. SUFFICES ASSUME IInv, FiniteHits, [Next]_vars
                PROVE  FiniteHits' /\ SweptPast
    OBVIOUS
  <2>1. CASE hits' = hits
    BY <2>1 DEF FiniteHits, SweptPast
  <2>2. CASE Restart
    <3>1. DOMAIN hits' = {}
      BY <2>2 DEF Restart, Empty
    <3>. QED
      BY <3>1, FS_EmptySet DEF FiniteHits, SweptPast
  <2>3. ASSUME NEW p \in Procs, OpenWindow(p) \/ CountHit(p)
        PROVE  FiniteHits' /\ SweptPast
    BY <2>3, OpenWindowPast, CountHitPast
  <2>. QED
    BY <2>1, <2>2, <2>3 DEF Next, ReadClock, Tick, vars
<1>3. Spec => [][SweptPast]_vars
  BY <1>1, <1>2, Safety, PTL DEF Spec
<1>. QED
  BY <1>3 DEF OverThresholdAllRunning, SweptPast
=============================================================================
