------------------------------- MODULE Explore -------------------------------
(***************************************************************************)
(* The explore feed and its cards (internal/explore).                      *)
(*                                                                         *)
(* A feed is four searches one after the other and then one search per     *)
(* category at once, in goroutines that send what they found on a channel  *)
(* with room for all of them.  A search is one step that finds some places *)
(* or none: a search that failed and one that found nothing look the same. *)
(* Trail cards are written to the trails table by a goroutine that nobody  *)
(* waits for, and a card that is opened is looked up there.  The table of  *)
(* places that searches fill in the same way is left out: no query reads   *)
(* it.                                                                     *)
(***************************************************************************)
EXTENDS Integers, Sequences, FiniteSets, SequencesExt

CONSTANTS
    Rails,          \* the searched sections, in order
    Categories,     \* the categories of the unwind section, in order
    PerCategory,    \* places shown of one category
    Found,          \* places that a search may find (bound)
    HobbyRows,      \* what the hobby and interest tables may hold of a user
    NoHobby,
    Defaults,       \* the hobbies of who has none
    Trek,           \* the hobby that trending always has
    TrailIds,       \* OpenStreetMap elements, ids with a slash in them
    NearYou,        \* trail cards shown at most
    Cards,          \* the cards that are not trails
    Curated,        \* of these, the treks that Detail knows itself
    Pictures, Stock, CommonsUrl, NoUrl

N == Len(Categories)

ASSUME CategoriesAssumption == Categories \in Seq(STRING) /\ N # 0
ASSUME SearchAssumption == Found \subseteq Nat /\ PerCategory \in Nat

\* The popular section comes first; no section is named twice, or like the last.
ASSUME RailsAssumption ==
    /\ Rails \in Seq(STRING) /\ Rails # <<>> /\ Rails[1] = "popular"
    /\ \A i, j \in DOMAIN Rails : Rails[i] = Rails[j] => i = j
    /\ \A i \in DOMAIN Rails : Rails[i] # "unwind"

ASSUME HobbiesAssumption ==
    \A ids \in HobbyRows \cup {Defaults} : ids \in Seq(Range(ids))

ASSUME CardsAssumption == NearYou \in Nat /\ IsFiniteSet(TrailIds)

VARIABLES
    feed,           \* the feed request: where it is and its sections so far
    part,           \* part[i]: what goroutine i is doing
    found,          \* found[i]: what goroutine i has found
    ch,             \* the channel
    ordered,        \* ordered[i]: the part of category i, once it is in
    trails,         \* the trails table: the ids it has
    writing,        \* what the goroutine of persistTrails has yet to write
    shown,          \* trail cards on the app's screens
    opened          \* the answer to the last card that was opened

feedVars == <<feed, part, found, ch, ordered>>
cardVars == <<trails, writing, shown, opened>>

NoFeed == [at |-> "idle", sections |-> <<>>]
NotOpened == [status |-> "none", written |-> FALSE]

ExploreInit ==
    /\ feed = NoFeed
    /\ part = [i \in 1..N |-> "none"]
    /\ found = [i \in 1..N |-> <<>>]
    /\ ch = <<>>
    /\ ordered = [i \in 1..N |-> <<>>]
    /\ trails = {} /\ writing = <<>> /\ shown = {}
    /\ opened = NotOpened

-----------------------------------------------------------------------------
(* The feed.                                                               *)

Rail(name) == [rail |-> name, hobby |-> NoHobby]
Trending(id) == [rail |-> "trending", hobby |-> id]

\* The hobbies of a signed-in user: those chosen, or the interests, or the
\* defaults.  A query that fails finds none, and so does a guest.
HobbyIDs(hobbies, interests) ==
    IF hobbies # <<>> THEN hobbies
    ELSE IF interests # <<>> THEN interests
    ELSE Defaults

\* Mutant: a hobby that is named twice counts twice.
NamedHobbies(ids) == SelectSeq(ids, LAMBDA id : id # NoHobby)

AppendUnique(list, v) == IF Contains(list, v) THEN list ELSE Append(list, v)

\* The first four different hobbies.
FirstHobbies(ids) ==
    LET seen[n \in 0..Len(ids)] ==
          IF n = 0 THEN <<>>
          ELSE IF ids[n] = NoHobby \/ Len(seen[n - 1]) >= 4 THEN seen[n - 1]
          ELSE AppendUnique(seen[n - 1], ids[n])
    IN  seen[Len(ids)]

\* The sections without Google: a row per hobby, and one for trekking unless it is
\* one of them.
FallbackFeed(ids) ==
    LET seen == FirstHobbies(ids)
    IN  <<Rail("popular"), Rail("world")>>
          \o [i \in DOMAIN seen |-> Trending(seen[i])]
          \o (IF Contains(seen, Trek) THEN <<>> ELSE <<Trending(Trek)>>)
          \o <<Rail("unwind")>>

Take(items, n) == SubSeq(items, 1, IF Len(items) > n THEN n ELSE Len(items))

\* What a search for a category may give: places tagged with it.
SearchItems(category) == {[j \in 1..n |-> <<category, j>>] : n \in Found}

\* A feed is asked for, by a client that may be anywhere, or nowhere.
StartFeed(enabled, hobbies, interests) ==
    /\ feed.at \in {"idle", "answered"}
    /\ feed' = IF enabled THEN [at |-> "rails", sections |-> <<>>]
               ELSE [at |-> "answered",
                     sections |-> FallbackFeed(HobbyIDs(hobbies, interests))]
    /\ part' = [i \in 1..N |-> "none"]
    /\ found' = [i \in 1..N |-> <<>>]
    /\ ordered' = [i \in 1..N |-> <<>>]
    /\ UNCHANGED ch

\* One more of the sections in order; after the last the goroutines start.
SearchRail ==
    LET done == Len(feed.sections) + 1 IN
    /\ feed.at = "rails"
    /\ feed' = [at |-> IF done = Len(Rails) THEN "mosaic" ELSE "rails",
                sections |-> Append(feed.sections, Rail(Rails[done]))]
    /\ part' = IF done = Len(Rails) THEN [i \in 1..N |-> "searching"] ELSE part
    /\ UNCHANGED <<found, ch, ordered>>

\* Mutant: a goroutine that found nothing has nothing to send.
SendFound(i, items) ==
    ch' = IF items = <<>> THEN ch ELSE Append(ch, [i |-> i, items |-> items])

\* Every goroutine sends, also an empty part.
SendPart(i, items) == ch' = Append(ch, [i |-> i, items |-> items])

SearchPart(i) ==
    /\ part[i] = "searching" /\ Len(ch) < N
    /\ \E items \in SearchItems(Categories[i]) :
          LET some == Take(items, PerCategory) IN
          SendPart(i, some) /\ found' = [found EXCEPT ![i] = some]
    /\ part' = [part EXCEPT ![i] = "sent"]
    /\ UNCHANGED <<feed, ordered>>

\* Mutant: parts are placed as they come in.
SlotOfArrival(p) == CHOOSE i \in 1..N : ordered[i] = <<>>

\* A part goes to the place of its category, whenever it comes in.
Slot(p) == p.i

\* The handler takes one part off the channel; with the last it answers.
UnwindItems ==
    LET p == Head(ch)
        in == Cardinality({i \in 1..N : part[i] = "taken"}) + 1
    IN  /\ feed.at = "mosaic" /\ ch # <<>>
        /\ ch' = Tail(ch)
        /\ ordered' = [ordered EXCEPT ![Slot(p)] = p.items]
        /\ part' = [part EXCEPT ![p.i] = "taken"]
        /\ feed' = IF in = N
                   THEN [at |-> "answered", sections |-> Append(feed.sections, Rail("unwind"))]
                   ELSE feed
        /\ UNCHANGED found

-----------------------------------------------------------------------------
(* Cards.                                                                  *)

\* Mutant: the picture that is there already stays where it is, too.
PrependOnly(list, v) == <<v>> \o list

\* v in front, and of the list what is not v.
DedupePrepend(list, v) ==
    LET out[n \in 0..Len(list)] ==
          IF n = 0 THEN <<v>>
          ELSE IF list[n] = v THEN out[n - 1]
          ELSE Append(out[n - 1], list[n])
    IN  out[Len(list)]

\* The pictures, and then the images that are not among them.
AppendImages(photos, images) ==
    LET all[n \in 0..Len(images)] ==
          IF n = 0 THEN photos ELSE AppendUnique(all[n - 1], images[n])
    IN  all[Len(images)]

NoSummary == [extract |-> FALSE, thumb |-> NoUrl, url |-> NoUrl]

\* What the title and its variant without " Trek" find on Wikipedia, in order.
TitleCandidates == UNION {[1..n -> {NoSummary} \cup
                             [extract : {TRUE}, thumb : Pictures \cup {NoUrl},
                              url : {NoUrl, "wiki"}]] : n \in 1..2}

\* A detail with the first summary there is and up to three more pictures; what
\* the providers do not have stays as the catalog says.
Enrich(d, summaries, images) ==
    LET hits == {i \in DOMAIN summaries : summaries[i].extract}
        s == IF hits = {} THEN NoSummary ELSE summaries[Min(hits)]
        photos == IF s.thumb = NoUrl THEN d.photos ELSE DedupePrepend(d.photos, s.thumb)
        sources == IF s.url = NoUrl THEN d.sources ELSE AppendUnique(d.sources, s.url)
    IN  [d EXCEPT
           !.text = IF s.extract THEN "wiki" ELSE @,
           !.image = IF s.thumb = NoUrl THEN @ ELSE s.thumb,
           !.photos = AppendImages(photos, images),
           !.sources = IF images = <<>> THEN sources ELSE AppendUnique(sources, CommonsUrl)]

\* The trek rows, with what OpenStreetMap has nearby: the first cards are shown,
\* and a goroutine writes all trails to the table one by one (one goroutine at a
\* time is a bound).
Treks(nearby) ==
    /\ writing = <<>>
    /\ writing' = nearby
    /\ shown' = shown \cup Range(Take(nearby, NearYou))
    /\ UNCHANGED <<trails, opened>>

PersistTrails ==
    /\ writing # <<>>
    /\ trails' = trails \cup {Head(writing)}
    /\ writing' = Tail(writing)
    /\ UNCHANGED <<shown, opened>>

\* The statement fails or the ten seconds are over: the rest is not written.
PersistFails ==
    /\ writing # <<>>
    /\ writing' = <<>>
    /\ UNCHANGED <<trails, shown, opened>>

\* The id that the handler gets of a trail card.  The router matches the escaped
\* path and hands out the segment as it is, so the slash arrives as "%2F"; a bare
\* slash does not match the route at all.
PathParam(t) == <<"%2F", t>>

TrailItemByID(id) == id \in trails

Detail(card) == [status |-> "ok", written |-> card \in trails, text |-> "own",
                 image |-> "own", photos |-> <<"own">>, sources |-> <<>>]

\* Mutant: no picture stands in for those a place does not have.
PlaceDetailBare(card, pictures) ==
    [Detail(card) EXCEPT !.text = "google", !.photos = pictures,
                         !.image = IF pictures = <<>> THEN NoUrl ELSE pictures[1]]

\* What Google's details make: an id it does not know, or any other refusal, is
\* answered with a card of nothing.
PlaceDetail(card, pictures) ==
    [Detail(card) EXCEPT !.text = "google", !.photos = pictures,
                         !.image = IF pictures = <<>> THEN Stock ELSE pictures[1]]

Lookups(card, enabled) ==
    [status : IF enabled THEN {"blank", "bad gateway"} ELSE {"not found"},
     written : {card \in trails}]

\* A trek is opened, or, where Google is not enabled, a card of the built-in
\* catalog.
OpenCard(card, enabled, summaries, images) ==
    /\ card \in Curated \/ ~enabled
    /\ opened' = Enrich(Detail(card), summaries, images)
    /\ UNCHANGED <<trails, writing, shown>>

\* Any other card: Google is asked, or it is not found.
OpenPlace(card, enabled, pictures) ==
    /\ card \notin Curated
    /\ \/ enabled /\ opened' = PlaceDetail(card, pictures)
       \/ opened' \in Lookups(card, enabled)
    /\ UNCHANGED <<trails, writing, shown>>

\* A trail card: from the table, or else looked for among Google's places.
OpenTrail(t, enabled, summaries, images) ==
    /\ t \in shown
    /\ IF TrailItemByID(PathParam(t))
       THEN opened' = Enrich(Detail(t), summaries, images)
       ELSE opened' \in Lookups(t, enabled)
    /\ UNCHANGED <<trails, writing, shown>>

-----------------------------------------------------------------------------
FeedNext ==
    \/ \E enabled \in BOOLEAN, h, i \in HobbyRows : StartFeed(enabled, h, i)
    \/ SearchRail
    \/ \E i \in 1..N : SearchPart(i)
    \/ UnwindItems

CardNext ==
    \/ \E nearby \in SetToAllKPermutations(TrailIds) : Treks(nearby)
    \/ PersistTrails
    \/ PersistFails
    \/ \E enabled \in BOOLEAN, s \in TitleCandidates, images \in SeqOf(Pictures, 2) :
          \/ \E card \in Cards : OpenCard(card, enabled, s, images)
          \/ \E t \in TrailIds : OpenTrail(t, enabled, s, images)
    \/ \E enabled \in BOOLEAN, card \in Cards, pictures \in SeqOf(Pictures, 2) :
          OpenPlace(card, enabled, pictures)

-----------------------------------------------------------------------------
(* Properties.                                                             *)

\* An answered feed has every section once, from the popular to the unwind one,
\* whatever the tables say of the user and with Google or without
\* (explore.go:210, fallback.go:53).
SectionsOrdered ==
    feed.at = "answered" =>
       /\ \A i, j \in DOMAIN feed.sections :
             feed.sections[i] = feed.sections[j] => i = j
       /\ Head(feed.sections) = Rail("popular")
       /\ Last(feed.sections) = Rail("unwind")

\* Whatever the order the seven searches end in, the mosaic of an answered feed
\* holds for each category, in the curated order, just what its own search found
\* (explore.go:233).
MosaicOrdered == feed.at = "answered" => ordered = found

\* Both: a feed is answered in order, its sections and the mosaic of the last of
\* them, although seven searches end in any order (explore.go:188).
FeedOrdered == SectionsOrdered /\ MosaicOrdered

\* A feed is answered, whatever its searches find or fail at: the handler waits
\* for exactly as many parts as are sent (explore.go:233).
FeedAnswers == feed.at \in {"rails", "mosaic"} ~> feed.at = "answered"

\* A card that opens shows its picture first and no picture or source twice,
\* whatever the two providers agree or fail on (enrich.go:95).
HeroFirst ==
    opened.status = "ok" =>
       /\ opened.photos # <<>> => Head(opened.photos) = opened.image
       /\ opened.text # "google" =>
             Cardinality(Range(opened.photos)) = Len(opened.photos)
       /\ Cardinality(Range(opened.sources)) = Len(opened.sources)

\* What the doc says of a trail card (enrich.go:127): tapping it opens a detail
\* page from the trails table, once the trail is written there.
TrailCardOpens ==
    opened.written => opened.status = "ok"
=============================================================================
