------------------------------- MODULE Content -------------------------------
(***************************************************************************)
(* The clients of the upstreams that content comes from: Google            *)
(* (internal/places: search, details, geocode) and the free providers      *)
(* (internal/providers: wiki, commons, elevation, trails).  Each looks in  *)
(* its own cache, asks upstream on a miss without holding anything, and    *)
(* puts back what its own rule says is worth keeping.                      *)
(*                                                                         *)
(* Upstream is unreliable: it may say something, say there is nothing,     *)
(* refuse (Google's status, a 2xx body that does not parse), or fail (no   *)
(* answer in time, a status that is not 2xx, the client that asked is      *)
(* gone).  What it says is any content: it may change between two calls.   *)
(***************************************************************************)
EXTENDS Cache

CONSTANTS
    Callers,        \* requests that may ask at once
    Keys,           \* keys of a cache: a query and a cell, an id, a title
    Contents,       \* what an upstream may say of a key
    Nothing,        \* an empty result
    Timeout,        \* of a call upstream
    Ttl,            \* of each service's cache
    MaxTime         \* bound on the clock

Services == {"search", "details", "geocode", "wiki", "commons", "elevation", "trails"}

ASSUME ContentAssumption ==
    /\ Nothing \notin Contents
    /\ Timeout \in Nat \ {0}
    /\ Ttl \in [Services -> Nat]
    /\ MaxTime \in Nat

VARIABLES
    clock,
    cache,          \* cache[s]: the entries of service s
    asking          \* asking[c]: the call caller c waits for

contentVars == <<clock, cache, asking>>

\* That an upstream said something of a key, and when.
Saying == [service : Services, key : Keys, content : Contents \cup {Nothing},
           at : 0..MaxTime]

\* A result, with the saying it comes from, if any: a history that travels with
\* the result, and which no step reads.
Result == [content : Contents \cup {Nothing}, said : SUBSET Saying]
Empty == [content |-> Nothing, said |-> {}]

NotAsking == [at |-> "idle"]

ContentInit ==
    /\ clock = 0
    /\ cache = [s \in Services |-> EmptyTable]
    /\ asking = [c \in Callers |-> NotAsking]

-----------------------------------------------------------------------------
(* What each client keeps of a reply, found or nothing or refused.         *)

\* Mutant: every status is kept.
TextSearchAll(reply) == TRUE

TextSearch(reply) == reply # "refused"

Details(reply) == reply = "found"

ReverseGeocode(reply) == reply # "refused"

\* A body that does not parse counts as no images, and is kept.
Images(reply) == TRUE

Lookup(reply) == reply = "found"

\* As with images: what does not parse is kept as no trails.
Nearby(reply) == TRUE

Keeps(s, reply) ==
    CASE s = "search" -> TextSearch(reply)
      [] s = "details" -> Details(reply)
      [] s = "geocode" -> ReverseGeocode(reply)
      [] s = "commons" -> Images(reply)
      [] s = "elevation" -> Lookup(reply)
      [] s = "trails" -> Nearby(reply)

-----------------------------------------------------------------------------
(* Steps.  A hit answers at once and changes nothing.                      *)

Asking == {c \in Callers : asking[c].at # "idle"}

Settle(c) == asking' = [asking EXCEPT ![c] = NotAsking]

Ask(c, s, k, host) ==
    asking' = [asking EXCEPT ![c] = [at |-> "upstream", service |-> s, key |-> k,
                                     host |-> host, since |-> clock]]

Hear(c, v, reply) ==
    LET q == asking[c] IN
    asking' = [asking EXCEPT ![c] =
                  [at |-> "reply", service |-> q.service, key |-> q.key,
                   host |-> q.host, since |-> q.since, val |-> v, reply |-> reply]]

\* A miss: the caller goes upstream.
Miss(c, s, k) ==
    /\ asking[c].at = "idle"
    /\ k \notin Live(cache[s], clock)
    /\ Ask(c, s, k, 1)
    /\ UNCHANGED <<clock, cache>>

\* Upstream says v, which may be nothing; the caller has yet to read it.
Say(c, v) ==
    /\ asking[c].at = "upstream"
    /\ Hear(c, [content |-> v,
                said |-> {[service |-> asking[c].service, key |-> asking[c].key,
                           content |-> v, at |-> clock]}],
            IF v = Nothing THEN "nothing" ELSE "found")
    /\ UNCHANGED <<clock, cache>>

\* A reply that is no answer.
Refuse(c) ==
    /\ asking[c].at = "upstream"
    /\ Hear(c, Empty, "refused")
    /\ UNCHANGED <<clock, cache>>

\* Mutant: what was said of one key is kept for any.
StoreForAnyKey(c, v) ==
    LET q == asking[c] IN
    \E k \in Keys : \E kept \in AfterPut(cache[q.service], k, v, clock, Ttl[q.service]) :
       cache' = [cache EXCEPT ![q.service] = kept]

Store(c, v) ==
    LET q == asking[c] IN
    \E kept \in AfterPut(cache[q.service], q.key, v, clock, Ttl[q.service]) :
       cache' = [cache EXCEPT ![q.service] = kept]

\* The caller has read the reply: it puts what is worth keeping, and answers.
Receive(c) ==
    LET q == asking[c] IN
    /\ q.at = "reply" /\ q.service # "wiki"
    /\ IF Keeps(q.service, q.reply) THEN Store(c, q.val) ELSE UNCHANGED cache
    /\ Settle(c)
    /\ UNCHANGED clock

\* No answer in time, or none that can be read: an error or an empty result to
\* the caller, nothing to the cache.
NoAnswer(c, services) ==
    /\ asking[c].at # "idle" /\ asking[c].service \in services
    /\ Settle(c)
    /\ UNCHANGED <<clock, cache>>

Get(c) == NoAnswer(c, {"search", "details", "geocode"})
GetBytes(c) == NoAnswer(c, {"commons", "elevation"})
PostBytes(c) == NoAnswer(c, {"trails"})

-----------------------------------------------------------------------------
(* Wiki asks Wikipedia and then Wikivoyage, and keeps a miss as well, also *)
(* when there was no answer at all.                                        *)

Summary(c) ==
    LET q == asking[c]
        page == q.at = "reply" /\ q.reply = "found"
    IN
    /\ q.at # "idle" /\ q.service = "wiki"
    /\ \/ /\ page
          /\ Store(c, q.val)
          /\ Settle(c)
       \/ /\ q.host = 1 /\ ~page
          /\ Ask(c, "wiki", q.key, 2)
          /\ UNCHANGED cache
       \/ /\ q.host = 2 /\ ~page
          /\ Store(c, Empty)
          /\ Settle(c)
    /\ UNCHANGED clock

\* Time passes, but not beyond the timeout of a call under way, which covers
\* the reading of its body.
ContentTick ==
    /\ clock < MaxTime
    /\ \A c \in Asking : clock < asking[c].since + Timeout
    /\ clock' = clock + 1
    /\ UNCHANGED <<cache, asking>>

ContentNext ==
    \/ \E c \in Callers :
          \/ \E s \in Services, k \in Keys : Miss(c, s, k)
          \/ \E v \in Contents \cup {Nothing} : Say(c, v)
          \/ Refuse(c)
          \/ Receive(c)
          \/ Get(c) \/ GetBytes(c) \/ PostBytes(c)
          \/ Summary(c)
    \/ ContentTick

-----------------------------------------------------------------------------
(* Properties.                                                             *)

\* What a hit answers is just what that upstream said of that key, at most the
\* TTL and one timeout ago, however calls overlap: no answer is kept for another
\* key or in another service's cache, and a failed call or a refusal is never
\* taken for an answer.  Except that wiki, commons and trails keep empty results
\* of calls that failed or did not parse, and only those may be unsaid
\* (wiki.go:104, places.go:135).
CachedWasSaid ==
    \A s \in Services : \A k \in Live(cache[s], clock) :
       LET v == cache[s][k].val IN
       \/ \E saying \in v.said :
             /\ saying.service = s /\ saying.key = k
             /\ saying.content = v.content
             /\ clock - saying.at <= Ttl[s] + Timeout
       \/ v = Empty /\ s \in {"wiki", "commons", "trails"}

\* No cache outgrows its limit, however many misses are put back at once
\* (cache.go:44).
CachesBounded == \A s \in Services : Cardinality(DOMAIN cache[s]) <= CacheMax
=============================================================================
