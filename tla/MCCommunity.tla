---------------------------- MODULE MCCommunity ----------------------------
(* Small instances of Community for TLC. *)
EXTENDS Community, TLC

CONSTANTS ann, ben, aria, w1, w2, a0, a1, a2, l0, l1, d1, i1, i2, trek, peak,
          running, s1, s2, p1, p2, strava, phone, run50

TwoPeople == {ann, ben}
OneClimber == {aria}
EachOther == {<<ann, ben>>, <<ben, ann>>}
TwoWorkers == {w1, w2}
ThreeAscents == {a0, a1, a2}
TwoLogs == {l0, l1}
OneDuel == {d1}
OneItem == {trek}
NoItem == {}
OneInterest == {running}
ParentOrNone == {None, a1}
NoParent == {None}
BenOrAria == {ben, aria}
OneChallenge == {run50}
RunInterest == run50 :> running
RunTarget == run50 :> 2
RunBase == run50 :> 1
TwoWishes == {i1, i2}
TwoItems == {trek, peak}
TwoSnapshots == {s1, s2}
TwoPlans == {p1, p2}
OneApp == {strava}
OneToken == {phone}

\* What one behaviour is about, for the tables of unrelated parts are not all
\* filled at once.  Two calls at once where calls can meet each other; where they
\* only meet calls of one statement, one at a time.
Busy == {w \in Workers : ~At(w, "idle")}
AtMost(n) == Cardinality(Busy) <= n
Only(statements) == \A w \in Busy : call[w].at \in statements
Ranging == {"insert", "log"}

NoSources ==
    /\ \A a \in DOMAIN ascents : ascents[a].source = None
    /\ \A w \in Busy : At(w, "insert") => call[w].source = None
NoInterests ==
    /\ \A a \in DOMAIN ascents : ascents[a].interest = None
    /\ \A w \in Busy : At(w, "insert") => call[w].interest = None
NoSummits == \A a \in DOMAIN ascents : ascents[a].status = "ACTIVE"
NoFriends == friendships = EmptyTable
NoKudos == reactions = {} /\ invites = {}
NoDuels == duels = EmptyTable
NoChallenges == joined = EmptyTable
NoBelongings ==
    wished = {} /\ integrations = {} /\ devices = {} /\ avatars = {}

RangeFocus ==
    /\ AtMost(2) /\ Only(Ranging)
    /\ NoInterests /\ NoFriends /\ NoKudos /\ NoDuels /\ NoChallenges
    /\ NoBelongings /\ now = 0
KudosFocus ==
    /\ AtMost(1)
    /\ Only(Ranging \cup {"visible", "react", "unreact", "invite"})
    /\ NoSources /\ NoInterests /\ NoSummits /\ NoDuels /\ NoChallenges
    /\ NoBelongings /\ now = 0 /\ a2 \notin spent
    /\ Cardinality(invites) + Cardinality(reactions) <= 1
DuelFocus ==
    /\ AtMost(1) /\ Only({"demo", "duel", "listed"})
    /\ NoSources /\ NoInterests /\ NoSummits /\ NoKudos /\ NoChallenges
    /\ NoBelongings /\ now <= 1
ScoreFocus ==
    /\ AtMost(1) /\ Only(Ranging \cup {"demo", "duel", "listed"})
    /\ NoSources /\ NoSummits /\ NoKudos /\ NoChallenges /\ NoBelongings
    /\ NoFriends /\ a2 \notin spent
ChallengeFocus ==
    /\ AtMost(1) /\ Only(Ranging)
    /\ NoSources /\ NoFriends /\ NoKudos /\ NoDuels
    /\ NoBelongings /\ now = 0
BelongFocus ==
    /\ AtMost(2) /\ Only({"apps"})
    /\ spent = {a0, l0} /\ NoFriends /\ NoChallenges /\ now = 0
    /\ Cardinality(integrations) + Cardinality(devices) + Cardinality(avatars)
          + Cardinality(wished) <= 3

VARIABLE focus      \* what a behaviour is about, chosen at the start

MCInit ==
    Init /\ focus \in {"range", "kudos", "duel", "score", "challenge", "belongings"}

MCNext == Next /\ UNCHANGED focus

MCSpec == MCInit /\ [][MCNext]_<<vars, focus>>

Focus ==
    CASE focus = "range" -> RangeFocus
      [] focus = "kudos" -> KudosFocus
      [] focus = "duel" -> DuelFocus
      [] focus = "score" -> ScoreFocus
      [] focus = "challenge" -> ChallengeFocus
      [] focus = "belongings" -> BelongFocus

Alike == Permutations(TwoWorkers)
=============================================================================
