------------------------------- MODULE Service -------------------------------
(***************************************************************************)
(* What serves the members but keeps nothing of theirs, together: the      *)
(* clients of the upstreams with their caches, the explore feed and its    *)
(* cards, the start of processes with the migrations, and the paged lists. *)
(* The parts share no state.                                               *)
(***************************************************************************)
EXTENDS Content, Explore, Boot, Pages

vars == <<contentVars, feedVars, cardVars, bootVars, pageVars>>

Init == ContentInit /\ ExploreInit /\ BootInit /\ PagesInit

ContentActs ==
    ContentNext /\ UNCHANGED <<feedVars, cardVars, bootVars, pageVars>>

FeedActs ==
    FeedNext /\ UNCHANGED <<contentVars, cardVars, bootVars, pageVars>>

CardActs ==
    CardNext /\ UNCHANGED <<contentVars, feedVars, bootVars, pageVars>>

BootActs ==
    BootNext /\ UNCHANGED <<contentVars, feedVars, cardVars, pageVars>>

PagesActs ==
    PagesNext /\ UNCHANGED <<contentVars, feedVars, cardVars, bootVars>>

Next == ContentActs \/ FeedActs \/ CardActs \/ BootActs \/ PagesActs

\* Nothing keeps a feed from going on: a search ends by its client's timeout, the
\* channel has room, and the Go scheduler runs every goroutine.
Fairness ==
    /\ WF_vars(SearchRail /\ FeedActs)
    /\ \A i \in 1..N : WF_vars(SearchPart(i) /\ FeedActs)
    /\ WF_vars(UnwindItems /\ FeedActs)

Spec == Init /\ [][Next]_vars /\ Fairness

-----------------------------------------------------------------------------
Item == Range(Categories) \X Nat
Entry == [val : Result, expires : Nat]
Call ==
    [at : {"upstream"}, service : Services, key : Keys, host : 1..2, since : 0..MaxTime]
  \cup [at : {"reply"}, service : Services, key : Keys, host : 1..2,
        since : 0..MaxTime, val : Result,
        reply : {"found", "nothing", "refused"}]

\* The types of what every part keeps.
TypeOK ==
    /\ clock \in 0..MaxTime
    /\ \A s \in Services :
          /\ DOMAIN cache[s] \subseteq Keys
          /\ cache[s] \in [DOMAIN cache[s] -> Entry]
    /\ asking \in [Callers -> Call \cup {NotAsking}]
    /\ feed.at \in {"idle", "rails", "mosaic", "answered"}
    /\ part \in [1..N -> {"none", "searching", "sent", "taken"}]
    /\ \A i \in 1..N : \A item \in Range(found[i]) \cup Range(ordered[i]) : item \in Item
    /\ Len(ch) <= N
    /\ trails \subseteq TrailIds /\ shown \subseteq TrailIds
    /\ Range(writing) \subseteq TrailIds
    /\ opened.status \in {"none", "ok", "blank", "bad gateway", "not found"}
    /\ opened.status = "ok" => opened.image \in Pictures \cup {"own", Stock}
    /\ \A p \in Processes : proc[p].i \in 1..Len(Files[p]) + 1
    /\ versions \subseteq Migrations
    /\ rows \in [RowIds -> {"unborn", "pending", "there", "gone"}]
    /\ created \in [RowIds -> 0..MaxMicros]
=============================================================================
