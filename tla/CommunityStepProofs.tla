------------------------- MODULE CommunityStepProofs -------------------------
(***************************************************************************)
(* Proofs about the members' side: what no step ever does.  Each follows   *)
(* from IInv, which holds before every step.                               *)
(***************************************************************************)
EXTENDS CommunityProofs

-----------------------------------------------------------------------------
\* The feed, the friends and the contacts show only whom u may view, and the
\* pages of u's ascents show between them just u's logs: since logs are of their
\* ascent's owner, the query by ascent and the one by author agree.
THEOREM ShownIsVisible == Spec => []ShownCanBeViewed
<1>1. ASSUME IInv, NEW u \in users \cap People
      PROVE  UNION {DetailOf(u, a).logs : a \in AscentIds} = LogsOf(u)
  <2>1. ASSUME NEW l \in LogsOf(u)
        PROVE  \E a \in AscentIds : l \in DetailOf(u, a).logs
    <3>. DEFINE a == logs[l].ascent
    <3>1. l \in DOMAIN logs /\ a \in DOMAIN ascents /\ ascents[a].user = u
      BY <1>1, <2>1 DEF LogsOf, IInv, RowsBelong, LogRows
    <3>2. a \in AscentIds /\ a \in AscentsOf(u) /\ l \in LogsUnder(a)
      BY <1>1, <3>1 DEF IInv, TypeOK, AscentTypes, AscentsOf, LogsUnder
    <3>. QED
      BY <3>2 DEF DetailOf
  <2>2. ASSUME NEW a \in AscentIds, NEW l \in DetailOf(u, a).logs
        PROVE  l \in LogsOf(u)
    <3>1. a \in AscentsOf(u) /\ l \in LogsUnder(a)
      BY <2>2 DEF DetailOf
    <3>. QED
      BY <1>1, <3>1 DEF AscentsOf, LogsUnder, LogsOf, IInv, RowsBelong, LogRows
  <2>. QED
    BY <2>1, <2>2
<1>2. ASSUME NEW u, NEW v \in DOMAIN FriendsOf(u) \cup DOMAIN MatchContacts(u, Demo)
      PROVE  CanViewUser(u, v) /\ MayDuel(u, v)
  BY DEF FriendsOf, MatchContacts, CanViewUser, MayDuel
<1>3. ASSUME NEW u, NEW f \in FeedOf(u)
      PROVE  f.author = u \/ CanViewUser(u, f.author)
  <2>. DEFINE shown == {k \in DOMAIN logs : logs[k].user \in {u} \cup (Demo \cap users)}
              item(l) == [log |-> l, author |-> logs[l].user,
                          reactions |-> Cardinality({r \in reactions : r[1] = l}),
                          mine |-> <<l, u>> \in reactions]
  <2>1. f \in {item(l) : l \in shown}
    BY <1>3, Zenon DEF FeedOf
  <2>2. PICK l \in shown : f = item(l)
    BY <2>1, Zenon
  <2>3. f.author = logs[l].user
    BY <2>2, Zenon
  <2>. QED
    BY <2>3 DEF CanViewUser
<1>4. IInv => ShownCanBeViewed
  BY <1>1, <1>2, <1>3 DEF ShownCanBeViewed
<1>. QED
  BY <1>4, Invariance, PTL

-----------------------------------------------------------------------------
(* Deletion.                                                               *)

\* The logs of an account that stays are there after a step as they were, under
\* the same ascents.
LEMMA LogsStay ==
    ASSUME IInv, [Next]_vars, NEW v \in users', NEW l \in LogsOf(v)
    PROVE  /\ l \in DOMAIN logs' /\ logs'[l] = logs[l]
           /\ Alike(logs[l].ascent)
<1>. DEFINE a == logs[l].ascent
<1>1. /\ l \in DOMAIN logs /\ logs[l].user = v
      /\ a \in DOMAIN ascents /\ ascents[a].user = v
      /\ l \in spent /\ a \in spent
  BY DEF LogsOf, IInv, RowsBelong, LogRows, TypeOK, AscentTypes
<1>2. l \in DOMAIN logs'
  <2>1. ASSUME NEW w \in Workers, InsertLog(w)
        PROVE  l \in DOMAIN logs'
    BY <1>1, <2>1 DEF InsertLog, Put
  <2>2. ASSUME NEW u \in People, DeleteAccount(u)
        PROVE  l \in DOMAIN logs'
    <3>1. v # u
      BY <2>2 DEF DeleteAccount, SocialDelete
    <3>. QED
      BY <1>1, <2>2, <3>1, DeletedLogs DEF DeleteAccount, AscentsOf
  <2>. QED
    BY <1>1, <2>1, <2>2, LogSteps
<1>3. logs'[l] = logs[l]
  BY <1>1, <1>2, RowsKeptStep DEF RowsKept, IInv
<1>4. a \in DOMAIN ascents'
  BY <1>2, <1>3, IInvStep DEF IInv, RowsBelong, LogRows
<1>. QED
  BY <1>1, <1>2, <1>3, <1>4, RowsKeptStep DEF RowsKept, IInv

\* Deleting an account takes nobody else's ascents and logs (user.go:195).
THEOREM OthersKeepTheirs == Spec => DeletionKeepsOthers
<1>. DEFINE Kept ==
       /\ \A a \in DOMAIN ascents \ DOMAIN ascents' :
             ascents[a].user \in users \ users'
       /\ \A l \in DOMAIN logs \ DOMAIN logs' :
             logs[l].user \in users \ users'
<1>1. ASSUME IInv, [Next]_vars
      PROVE  Kept
  <2>1. ASSUME NEW a \in DOMAIN ascents, a \notin DOMAIN ascents'
        PROVE  ascents[a].user \in users \ users'
    <3>1. ASSUME NEW w \in Workers, InsertAscent(w)
          PROVE  FALSE
      BY <2>1, <3>1 DEF InsertAscent, Put
    <3>2. ASSUME NEW u \in People, DeleteAccount(u)
          PROVE  ascents[a].user \in users \ users'
      <4>1. ascents[a].user = u
        BY <1>1, <2>1, <3>2, DeletedAscents DEF DeleteAccount, IInv, TypeOK
      <4>. QED
        BY <3>2, <4>1 DEF DeleteAccount, SocialDelete
    <3>. QED
      BY <1>1, <2>1, <3>1, <3>2, AscentSteps DEF AscentsAlike, IInv
  <2>2. ASSUME NEW l \in DOMAIN logs, l \notin DOMAIN logs'
        PROVE  logs[l].user \in users \ users'
    <3>1. logs[l].user \in users
      BY <1>1 DEF IInv, RowsBelong, LogRows, OwnerRows
    <3>2. logs[l].user \notin users'
      BY <1>1, <2>2, LogsStay DEF LogsOf
    <3>. QED
      BY <3>1, <3>2
  <2>. QED
    BY <2>1, <2>2
<1>2. IInv /\ [Next]_vars => [Kept]_vars
  BY <1>1
<1>. QED
  BY <1>2, Invariance, PTL DEF Spec, DeletionKeepsOthers

-----------------------------------------------------------------------------
(* Scores.                                                                 *)

\* The logs that count for v in duel d, and those that count in challenge c.
CountedIn(d, v) ==
    {l \in LogsOf(v) :
       /\ InWindow(d, l)
       /\ duels[d].interest \in {None, ascents[logs[l].ascent].interest}}

CountedFor(v, c) ==
    {l \in LogsOf(v) : ascents[logs[l].ascent].interest = ChallengeInterest[c]}

\* A duel that stays keeps its sides, its interest and its window.
LEMMA DuelStays ==
    ASSUME IInv, [Next]_vars, NEW d \in DOMAIN duels \cap DOMAIN duels'
    PROVE  /\ duels'[d].challenger = duels[d].challenger
           /\ duels'[d].opponent = duels[d].opponent
           /\ duels'[d].interest = duels[d].interest
           /\ duels'[d].starts = duels[d].starts
           /\ duels'[d].ends = duels[d].ends
<1>1. ASSUME NEW w \in Workers, InsertDuel(w)
      PROVE  duels'[d] = duels[d]
  <2>1. PICK e \in DuelIds \ spent, row \in Duel : duels' = Put(duels, e, row)
    BY <1>1, InsertedDuel DEF IInv, TypeOK
  <2>2. d # e
    BY DEF IInv, TypeOK, DuelTypes
  <2>. QED
    BY <2>1, <2>2 DEF Put
<1>2. ASSUME NEW u \in People, NEW e \in DuelIds, NEW s \in {"ACTIVE", "DECLINED"},
             Respond(u, e, s)
      PROVE  duels'[d] = duels[d] \/ duels'[d] = [duels[d] EXCEPT !.status = s]
  <2>1. duels' = [duels EXCEPT ![e] = [duels[e] EXCEPT !.status = s]]
    BY <1>2 DEF Respond
  <2>. QED
    BY <2>1 DEF IInv, TypeOK, DuelTypes
<1>3. ASSUME NEW u \in People, DeleteAccount(u)
      PROVE  duels'[d] = duels[d]
  BY <1>3 DEF DeleteAccount, DuelDelete, Drop
<1>4. duels[d] \in Duel
  BY DEF IInv, TypeOK, DuelTypes
<1>5. duels'[d] = duels[d]
        \/ \E s \in {"ACTIVE", "DECLINED"} : duels'[d] = [duels[d] EXCEPT !.status = s]
  BY <1>1, <1>2, <1>3, DuelSteps
<1>6. ASSUME NEW s
      PROVE  /\ [duels[d] EXCEPT !.status = s].challenger = duels[d].challenger
             /\ [duels[d] EXCEPT !.status = s].opponent = duels[d].opponent
             /\ [duels[d] EXCEPT !.status = s].interest = duels[d].interest
             /\ [duels[d] EXCEPT !.status = s].starts = duels[d].starts
             /\ [duels[d] EXCEPT !.status = s].ends = duels[d].ends
  BY <1>4 DEF Duel
<1>. QED
  BY <1>5, <1>6

\* What has counted goes on counting, as long as the author stays.
LEMMA CountedStays ==
    ASSUME IInv, [Next]_vars, NEW v \in users'
    PROVE  /\ \A d \in DOMAIN duels \cap DOMAIN duels' :
                CountedIn(d, v) \subseteq CountedIn(d, v)'
           /\ \A c \in Challenges : CountedFor(v, c) \subseteq CountedFor(v, c)'
<1>1. ASSUME NEW l \in LogsOf(v)
      PROVE  /\ l \in DOMAIN logs' /\ logs'[l].user = v /\ logs'[l] = logs[l]
             /\ ascents'[logs'[l].ascent].interest = ascents[logs[l].ascent].interest
  <2>1. l \in DOMAIN logs' /\ logs'[l] = logs[l] /\ Alike(logs[l].ascent)
    BY LogsStay
  <2>. QED
    BY <2>1 DEF LogsOf, Alike
<1>2. ASSUME NEW d \in DOMAIN duels \cap DOMAIN duels', NEW l \in CountedIn(d, v)
      PROVE  l \in CountedIn(d, v)'
  <2>1. l \in LogsOf(v)
    BY DEF CountedIn
  <2>. QED
    BY <1>1, <2>1, DuelStays DEF CountedIn, InWindow, LogsOf
<1>3. ASSUME NEW c \in Challenges, NEW l \in CountedFor(v, c)
      PROVE  l \in CountedFor(v, c)'
  <2>1. l \in LogsOf(v)
    BY DEF CountedFor
  <2>. QED
    BY <1>1, <2>1 DEF CountedFor, LogsOf
<1>. QED
  BY <1>2, <1>3

\* After the end of a duel, and without a log in flight stamped before it, no
\* log begins to count.
LEMMA NoneBeginsToCount ==
    ASSUME IInv, [Next]_vars, NEW d \in DOMAIN duels \cap DOMAIN duels', NEW v,
           now > duels[d].ends,
           \A w \in Workers : At(w, "log") => call[w].stamp > duels[d].ends
    PROVE  CountedIn(d, v)' \subseteq CountedIn(d, v)
<1>. SUFFICES ASSUME NEW l \in CountedIn(d, v)'
              PROVE  l \in CountedIn(d, v)
  OBVIOUS
<1>1. /\ l \in DOMAIN logs' /\ logs'[l].user = v
      /\ logs'[l].at \in duels'[d].starts..duels'[d].ends
      /\ duels'[d].interest \in {None, ascents'[logs'[l].ascent].interest}
  BY DEF CountedIn, LogsOf, InWindow
<1>2. duels[d].starts \in Int /\ duels[d].ends \in Int
  BY TimeAssumption, DaysAssumption DEF IInv, TypeOK, DuelTypes, Duel
<1>3. l \in DOMAIN logs
  <2>1. ASSUME l \notin DOMAIN logs, NEW w \in Workers, InsertLog(w)
        PROVE  FALSE
    <3>1. PICK k \in LogIds \ spent, row \in Log :
             row.at = call[w].stamp /\ logs' = Put(logs, k, row)
      BY <2>1, InsertedLog DEF IInv, TypeOK
    <3>2. logs'[l].at = call[w].stamp
      BY <1>1, <2>1, <3>1 DEF Put
    <3>3. call[w].stamp > duels[d].ends /\ row.at \in Int
      BY <2>1, TimeAssumption DEF InsertLog, Log
    <3>. QED
      BY <1>1, <1>2, <3>1, <3>2, <3>3, DuelStays
  <2>2. ASSUME NEW u \in People, DeleteAccount(u)
        PROVE  l \in DOMAIN logs
    BY <1>1, <2>2, DeletedLogs DEF DeleteAccount
  <2>. QED
    BY <1>1, <2>1, <2>2, LogSteps
<1>4. logs'[l] = logs[l]
  BY <1>1, <1>3, RowsKeptStep DEF RowsKept, IInv, TypeOK, AscentTypes
<1>5. Alike(logs[l].ascent)
  <2>1. logs[l].ascent \in DOMAIN ascents' /\ logs[l].ascent \in spent
    BY <1>1, <1>3, <1>4, IInvStep DEF IInv, RowsBelong, LogRows, TypeOK, AscentTypes
  <2>. QED
    BY <2>1, RowsKeptStep DEF RowsKept, IInv
<1>. QED
  BY <1>1, <1>3, <1>4, <1>5, DuelStays DEF CountedIn, LogsOf, InWindow, Alike

\* Once a duel is over, and what was being written has been written, its scores
\* stand for as long as both sides are there (duel.go:85).
THEOREM ScoresAreFinal == Spec => FinalScores
<1>. DEFINE Stand ==
       \A d \in DOMAIN duels \cap DOMAIN duels' :
          (/\ now > duels[d].ends
           /\ \A w \in Workers : At(w, "log") => call[w].stamp > duels[d].ends)
          => \A u \in {duels[d].challenger, duels[d].opponent} :
                SeenBy(d, u)' = SeenBy(d, u)
<1>1. ASSUME IInv, [Next]_vars, NEW d \in DOMAIN duels \cap DOMAIN duels',
             now > duels[d].ends,
             \A w \in Workers : At(w, "log") => call[w].stamp > duels[d].ends,
             NEW u \in {duels[d].challenger, duels[d].opponent}
      PROVE  SeenBy(d, u)' = SeenBy(d, u)
  <2>1. ASSUME NEW v \in {duels[d].challenger, duels[d].opponent}
        PROVE  Score(d, v)' = Score(d, v)
    <3>1. v \in users'
      BY <1>1, <2>1, IInvStep, DuelStays DEF IInv, RowsBelong, DuelRows
    <3>2. CountedIn(d, v)' = CountedIn(d, v)
      BY <1>1, <3>1, CountedStays, NoneBeginsToCount
    <3>. QED
      BY <3>2 DEF Score, CountedIn
  <2>2. PICK v \in {duels[d].challenger, duels[d].opponent} : v = Them(d, u)
    BY DEF Them
  <2>3. Them(d, u)' = v
    BY <1>1, <2>2, DuelStays DEF Them
  <2>4. SeenBy(d, u) = [you |-> Score(d, u), them |-> Score(d, v)]
    BY <2>2 DEF SeenBy
  <2>5. SeenBy(d, u)' = [you |-> Score(d, u)', them |-> Score(d, v)']
    BY <2>3 DEF SeenBy, Score, LogsOf
  <2>. QED
    BY <1>1, <2>1, <2>4, <2>5
<1>2. IInv /\ [Next]_vars => [Stand]_vars
  BY <1>1
<1>. QED
  BY <1>2, Invariance, PTL DEF Spec, FinalScores

\* A set of logs that only grows is not counted lower.
LEMMA CountGrows ==
    ASSUME NEW S, IsFiniteSet(S), NEW T \in SUBSET S
    PROVE  /\ Cardinality(S) \in Nat /\ Cardinality(T) \in Nat
           /\ Cardinality(T) <= Cardinality(S)
BY FS_Subset, FS_CardinalityType

LEMMA CountedFinite ==
    ASSUME IInv, [Next]_vars, NEW v
    PROVE  /\ \A d : IsFiniteSet(CountedIn(d, v)')
           /\ \A c : IsFiniteSet(CountedFor(v, c)')
<1>1. IsFiniteSet(DOMAIN logs')
  BY IInvStep DEF IInv, LogsFinite
<1>2. \A d : CountedIn(d, v)' \in SUBSET DOMAIN logs'
  BY DEF CountedIn, LogsOf
<1>3. \A c : CountedFor(v, c)' \in SUBSET DOMAIN logs'
  BY DEF CountedFor, LogsOf
<1>. QED
  BY <1>1, <1>2, <1>3, FS_Subset

\* Scores and progress are counted anew for every answer, and never fall for
\* those who stay (challenge.go:24, duel.go:2).
THEOREM NoCountFalls == Spec => CountsNeverFall
<1>. DEFINE Rise ==
       \A u \in users' \cap People :
          /\ \A d \in DuelsOf(u) \cap DuelsOf(u)' :
                SeenBy(d, u)'.you >= SeenBy(d, u).you
                /\ SeenBy(d, u)'.them >= SeenBy(d, u).them
          /\ \A c \in Challenges :
                /\ Progress(u, c)' >= Progress(u, c)
                /\ Progress(u, c)' <= Target[c]
<1>1. ASSUME IInv, [Next]_vars, NEW u \in users' \cap People,
             NEW d \in DuelsOf(u) \cap DuelsOf(u)'
      PROVE  SeenBy(d, u)'.you >= SeenBy(d, u).you
             /\ SeenBy(d, u)'.them >= SeenBy(d, u).them
  <2>1. /\ d \in DOMAIN duels \cap DOMAIN duels'
        /\ {duels[d].challenger, duels[d].opponent} \subseteq users'
    <3>1. d \in DOMAIN duels \cap DOMAIN duels'
      BY DEF DuelsOf
    <3>. QED
      BY <1>1, <3>1, IInvStep, DuelStays DEF IInv, RowsBelong, DuelRows
  <2>2. ASSUME NEW v \in users'
        PROVE  Score(d, v)' >= Score(d, v)
    <3>1. CountedIn(d, v) \in SUBSET CountedIn(d, v)'
      BY <1>1, <2>1, CountedStays
    <3>2. IsFiniteSet(CountedIn(d, v)')
      BY <1>1, CountedFinite
    <3>3. /\ Cardinality(CountedIn(d, v)') \in Nat /\ Cardinality(CountedIn(d, v)) \in Nat
          /\ Cardinality(CountedIn(d, v)) <= Cardinality(CountedIn(d, v)')
      BY <3>1, <3>2, CountGrows
    <3>4. /\ Score(d, v) = Cardinality(CountedIn(d, v))
          /\ Score(d, v)' = Cardinality(CountedIn(d, v)')
      BY DEF Score, CountedIn
    <3>. QED
      BY <3>3, <3>4
  <2>3. PICK v \in users' : v = Them(d, u)
    BY <2>1 DEF Them
  <2>4. Them(d, u)' = v
    BY <1>1, <2>1, <2>3, DuelStays DEF Them
  <2>5. SeenBy(d, u) = [you |-> Score(d, u), them |-> Score(d, v)]
    BY <2>3 DEF SeenBy
  <2>6. SeenBy(d, u)' = [you |-> Score(d, u)', them |-> Score(d, v)']
    BY <2>4 DEF SeenBy, Score, LogsOf
  <2>. QED
    BY <2>2, <2>5, <2>6
<1>2. ASSUME IInv, [Next]_vars, NEW u \in users' \cap People, NEW c \in Challenges
      PROVE  Progress(u, c)' >= Progress(u, c) /\ Progress(u, c)' <= Target[c]
  <2>. DEFINE upto(n) == IF BaseProgress[c] + n > Target[c] THEN Target[c]
                         ELSE BaseProgress[c] + n
              before == Cardinality(CountedFor(u, c))
              after == Cardinality(CountedFor(u, c)')
  <2>1. CountedFor(u, c) \in SUBSET CountedFor(u, c)'
    BY <1>2, CountedStays
  <2>2. IsFiniteSet(CountedFor(u, c)')
    BY <1>2, CountedFinite
  <2>3. after \in Nat /\ before \in Nat /\ before <= after
    BY <2>1, <2>2, CountGrows
  <2>4. BaseProgress[c] \in Nat /\ Target[c] \in Nat
    BY CatalogAssumption
  <2>5. Progress(u, c) = upto(before) /\ Progress(u, c)' = upto(after)
    BY DEF Progress, CountedFor
  <2>6. ASSUME NEW m \in Nat, NEW n \in Nat, m <= n
        PROVE  upto(n) >= upto(m) /\ upto(n) <= Target[c]
    BY <2>4, <2>6
  <2>. QED
    BY <2>3, <2>5, <2>6
<1>3. IInv /\ [Next]_vars => [Rise]_vars
  BY <1>1, <1>2
<1>. QED
  BY <1>3, Invariance, PTL DEF Spec, CountsNeverFall

-----------------------------------------------------------------------------
\* Only the owner's own update changes a plan: saving the place again with a
\* newer snapshot does not (wishlist.go:41).
THEOREM PlansAreKept == Spec => PlanKept
<1>. DEFINE Kept ==
       \A i \in DOMAIN wishlists \cap DOMAIN wishlists' :
          \/ wishlists'[i].plan = wishlists[i].plan
          \/ UpdatePlan(wishlists[i].user, i, wishlists'[i].plan)
<1>1. ASSUME TypeOK, BelongWrite, NEW i \in DOMAIN wishlists \cap DOMAIN wishlists'
      PROVE  \/ wishlists'[i].plan = wishlists[i].plan
             \/ UpdatePlan(wishlists[i].user, i, wishlists'[i].plan)
  <2>1. ASSUME NEW u \in People, NEW item \in Items, NEW s \in Snapshots,
               AddWish(u, item, s)
        PROVE  wishlists'[i].plan = wishlists[i].plan
    <3>1. ASSUME NEW j \in WishesOf(u),
                 wishlists' = [wishlists EXCEPT ![j] = UpdatedWish(u, j, s)]
          PROVE  wishlists'[i].plan = wishlists[i].plan
      <4>1. j \in DOMAIN wishlists /\ UpdatedWish(u, j, s).plan = wishlists[j].plan
        BY <1>1 DEF WishesOf, UpdatedWish, TypeOK, BelongTypes, Wish
      <4>. QED
        BY <1>1, <3>1, <4>1 DEF TypeOK, BelongTypes
    <3>2. ASSUME NEW j \in WishIds \ wished,
                 wishlists' = Put(wishlists, j, NewWish(u, item, s))
          PROVE  wishlists'[i].plan = wishlists[i].plan
      BY <1>1, <3>2 DEF Put, TypeOK, BelongTypes
    <3>. QED
      BY <2>1, <3>1, <3>2 DEF AddWish
  <2>2. ASSUME NEW u \in People, NEW j \in WishIds, NEW p \in Plans \cup {NoPlan},
               UpdatePlan(u, j, p)
        PROVE  \/ wishlists'[i].plan = wishlists[i].plan
               \/ UpdatePlan(wishlists[i].user, i, wishlists'[i].plan)
    <3>1. /\ wishlists' = [wishlists EXCEPT ![j] = [wishlists[j] EXCEPT !.plan = p]]
          /\ j \in DOMAIN wishlists /\ wishlists[j].user = u
      BY <2>2 DEF UpdatePlan, UpdatedPlan, WishesOf
    <3>2. [wishlists[j] EXCEPT !.plan = p].plan = p
      BY <1>1, <3>1 DEF TypeOK, BelongTypes, Wish
    <3>3. CASE i = j
      BY <1>1, <2>2, <3>1, <3>2, <3>3 DEF TypeOK, BelongTypes
    <3>4. CASE i # j
      BY <1>1, <3>1, <3>4 DEF TypeOK, BelongTypes
    <3>. QED
      BY <3>3, <3>4
  <2>3. ASSUME NEW u \in People, NEW j \in WishIds, RemoveWish(u, j)
        PROVE  wishlists'[i] = wishlists[i]
    BY <1>1, <2>3 DEF RemoveWish, Drop
  <2>4. ASSUME NEW u \in People,
               \/ \E w \in Workers, p \in Apps : Connect(w, u, p) \/ Disconnect(w, u, p)
               \/ \E t \in Tokens : RegisterDevice(u, t)
               \/ SetAvatar(u)
        PROVE  wishlists' = wishlists
    BY <2>4 DEF Connect, Disconnect, RegisterDevice, SetAvatar
  <2>. QED
    BY <1>1, <2>1, <2>2, <2>3, <2>4 DEF BelongWrite
<1>2. ASSUME NEW u \in People, DeleteAccount(u),
             NEW i \in DOMAIN wishlists \cap DOMAIN wishlists'
      PROVE  wishlists'[i] = wishlists[i]
  BY <1>2 DEF DeleteAccount, BelongDelete, Drop
<1>3. ASSUME Quiet \/ FriendWrite \/ AscentWrite \/ DuelWrite
      PROVE  wishlists' = wishlists
  BY <1>3 DEF Quiet, FriendWrite, AscentWrite, DuelWrite, belongVars
<1>4. TypeOK /\ [Next]_vars => [Kept]_vars
  BY <1>1, <1>2, <1>3, StepCases
<1>. QED
  BY <1>4, CommunityTypeCorrect, PTL DEF Spec, PlanKept
=============================================================================
