----------------------------- MODULE FixedWindow -----------------------------
(***************************************************************************)
(* What a rate limiter of internal/httpx promises to its callers: every    *)
(* key has at most one window at a time, a window admits at most Limit     *)
(* hits, and the next window of a key cannot open before more than Window  *)
(* ticks have gone by since the start of the previous one.  A refused hit  *)
(* changes nothing: it neither uses up nor prolongs anything.              *)
(*                                                                         *)
(* RateLimiter.tla, the map with its lazy cleanup and its clock reading    *)
(* taken outside the lock, is shown to implement this module; Auth.tla     *)
(* uses the same definitions for its two per-phone limiters.               *)
(***************************************************************************)
EXTENDS Integers

CONSTANTS
    Keys,       \* what is limited: an address or a phone number
    Limit,      \* hits a window admits
    Window,     \* length of a window, in ticks
    MaxWait,    \* bound: ticks between a caller's clock reading and its hit
    MaxTime     \* bound: the clock stops here

VARIABLES
    clock,      \* time
    window      \* window[k]: the latest window of k and what it admitted

vars == <<clock, window>>

\* No window since the process started.
NoWindow == [start |-> 0, used |-> 0]

\* A window may be opened at time t.
MayOpen(w, t) == w.used = 0 \/ t - w.start > Window

Init ==
    /\ clock = 0
    /\ window = [k \in Keys |-> NoWindow]

\* The first hit of a window is admitted and counted.  The start written is a
\* clock reading of the caller, which may be older than the current time.
Open(k) ==
    /\ MayOpen(window[k], clock)
    /\ \E s \in {t \in 0..clock : clock - t <= MaxWait} :
          window' = [window EXCEPT ![k] = [start |-> s, used |-> 1]]
    /\ UNCHANGED clock

\* A later hit of the window, within the limit, and before the window expires
\* for the caller's clock reading.
Admit(k) ==
    /\ window[k].used \in 1..(Limit - 1)
    /\ clock - window[k].start <= Window + MaxWait
    /\ window' = [window EXCEPT ![k].used = @ + 1]
    /\ UNCHANGED clock

Tick ==
    /\ clock < MaxTime
    /\ clock' = clock + 1
    /\ UNCHANGED window

\* The counters live in memory: a restart forgets every window.
Restart ==
    /\ window' = [k \in Keys |-> NoWindow]
    /\ UNCHANGED clock

Next ==
    \/ \E k \in Keys : Open(k) \/ Admit(k)
    \/ Tick
    \/ Restart

Spec == Init /\ [][Next]_vars
=============================================================================
