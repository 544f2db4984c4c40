--------------------------- MODULE CommunityProofs ---------------------------
(***************************************************************************)
(* Proofs about the members' side: IInv is inductive, and the invariants   *)
(* the runs check of Community follow from it.                             *)
(***************************************************************************)
EXTENDS CommunityTypeProofs, FiniteSetTheorems

\* Two accounts between whom one accepted the other once, or one of them a demo
\* climber that the other looks at; or an account and itself.
Met(u, v) == u = v \/ v \in Demo \/ {u, v} \in befriended

\* An accepted row is remembered.
FollowingMet ==
    \A p \in DOMAIN friendships :
       friendships[p] = "FOLLOWING" => {p[1], p[2]} \in befriended

\* What a call has checked still holds when it comes to write, as far as the row
\* it has read is still there: nobody takes over a row, and no id comes back.
Entitled(c) ==
    /\ c.at = "log" =>
          /\ c.ascent \in spent
          /\ c.ascent \in DOMAIN ascents => ascents[c.ascent].user = c.user
    /\ c.at \in {"visible", "react", "unreact"} =>
          /\ c.log \in spent
          /\ c.log \in DOMAIN logs => logs[c.log].user = c.owner
    /\ c.at = "react" => Met(c.user, c.owner)
    /\ c.at = "invite" => Met(c.user, c.friend)
    /\ c.at \in {"demo", "duel"} => Met(c.user, c.opponent)
    /\ c.at = "duel" /\ c.status = "ACTIVE" => c.opponent \in Demo

CallsEntitled == \A w \in Workers : Entitled(call[w])

\* The partial unique index.
OnePerSource ==
    \A a, b \in DOMAIN ascents :
       /\ ascents[a].user = ascents[b].user
       /\ ascents[a].source = ascents[b].source
       /\ ascents[a].source # None
       => a = b

\* The ascent a create has answered with is on the range as long as its account.
AnswersStand ==
    \A x \in answered : x[3] # None /\ x[1] \in users =>
       /\ x[3] \in DOMAIN ascents
       /\ ascents[x[3]].user = x[1]
       /\ ascents[x[3]].source = x[2]

\* A duel that was never inserted was never answered.
FreshUnanswered == \A d \in DuelIds \ spent : replies[d] = <<>>

\* There are finitely many logs, so that they can be counted.
LogsFinite == IsFiniteSet(DOMAIN logs)

\* The inductive invariant: the properties, and what makes them inductive.
IInv ==
    /\ TypeOK /\ LogsFinite /\ RowsBelong
    /\ FollowingMet /\ CallsEntitled /\ ContactNeedsFriendship
    /\ OnePerSource /\ AnswersStand /\ SameAscent
    /\ FreshUnanswered /\ AnsweredOnce

-----------------------------------------------------------------------------
(* Rows that stay are the rows they were.                                  *)

\* Nothing but the status and the parent of an ascent ever changes.
Alike(a) ==
    /\ ascents'[a].user = ascents[a].user
    /\ ascents'[a].source = ascents[a].source
    /\ ascents'[a].interest = ascents[a].interest

\* The ascents are the same ones.
AscentsAlike ==
    users' = users /\ DOMAIN ascents' = DOMAIN ascents /\ \A a \in DOMAIN ascents : Alike(a)

\* The ascents: the same ones, one more, or those of a deleted account gone.
LEMMA AscentSteps ==
    ASSUME TypeOK, [Next]_vars
    PROVE  \/ AscentsAlike
           \/ users' = users /\ \E w \in Workers : InsertAscent(w)
           \/ \E u \in People : DeleteAccount(u)
<1>1. ASSUME NEW u \in People, NEW a \in AscentIds, Summit(u, a)
      PROVE  AscentsAlike
  <2>1. ascents' = [ascents EXCEPT ![a] = [ascents[a] EXCEPT !.status = "SUMMITED"]]
    BY <1>1 DEF Summit
  <2>2. /\ [ascents[a] EXCEPT !.status = "SUMMITED"].user = ascents[a].user
        /\ [ascents[a] EXCEPT !.status = "SUMMITED"].source = ascents[a].source
        /\ [ascents[a] EXCEPT !.status = "SUMMITED"].interest = ascents[a].interest
        /\ a \in DOMAIN ascents
    BY <1>1 DEF Summit, AscentsOf, TypeOK, AscentTypes, Ascent
  <2>3. users' = users
    BY <1>1 DEF Summit, socialVars
  <2>. QED
    BY <2>1, <2>2, <2>3 DEF AscentsAlike, Alike, TypeOK, AscentTypes
<1>2. ASSUME ascents' = ascents, users' = users
      PROVE  AscentsAlike
  BY <1>2 DEF AscentsAlike, Alike
<1>3. ASSUME AscentWrite
      PROVE  AscentsAlike \/ (users' = users /\ \E w \in Workers : InsertAscent(w))
  <2>1. ASSUME NEW w \in Workers, \/ InsertConflicts(w) \/ InsertLog(w)
                                  \/ React(w) \/ Unreact(w) \/ InsertInvite(w)
        PROVE  ascents' = ascents
    BY <2>1 DEF InsertConflicts, InsertLog, React, Unreact, InsertInvite
  <2>2. ASSUME Tick \/ \E u \in People, s \in Sources : CreateAgain(u, s)
        PROVE  ascents' = ascents
    BY <2>2 DEF Tick, CreateAgain
  <2>3. users' = users
    BY <1>3 DEF AscentWrite
  <2>4. \/ \E u \in People, a \in AscentIds : Summit(u, a)
        \/ \E w \in Workers : InsertAscent(w)
        \/ ascents' = ascents
    BY <1>3, <2>1, <2>2 DEF AscentWrite
  <2>. QED
    BY <1>1, <1>2, <2>3, <2>4
<1>4. ASSUME Quiet \/ FriendWrite \/ DuelWrite \/ BelongWrite
      PROVE  users' = users /\ ascents' = ascents
  BY <1>4 DEF Quiet, FriendWrite, DuelWrite, BelongWrite, ascentVars, SetStatus
<1>. QED
  BY <1>2, <1>3, <1>4, StepCases

\* The logs: the same ones, one more, or those of a deleted account gone.
LEMMA LogSteps ==
    ASSUME [Next]_vars
    PROVE  \/ logs' = logs /\ users' = users
           \/ /\ users' = users /\ UNCHANGED duelVars
              /\ \E w \in Workers : InsertLog(w)
           \/ \E u \in People : DeleteAccount(u)
<1>1. ASSUME AscentWrite
      PROVE  logs' = logs \/ \E w \in Workers : InsertLog(w)
  BY <1>1 DEF AscentWrite, InsertAscent, CreateAgain, InsertConflicts, React, Unreact,
     InsertInvite, Tick, Summit
<1>2. ASSUME AscentWrite
      PROVE  users' = users /\ UNCHANGED duelVars
  BY <1>2 DEF AscentWrite
<1>3. ASSUME Quiet \/ FriendWrite \/ DuelWrite \/ BelongWrite
      PROVE  users' = users /\ logs' = logs
  BY <1>3 DEF Quiet, FriendWrite, DuelWrite, BelongWrite, ascentVars, SetStatus
<1>. QED
  BY <1>1, <1>2, <1>3, StepCases

\* The duels: the same ones, one more, one answered, or those of a deleted
\* account gone.
LEMMA DuelSteps ==
    ASSUME [Next]_vars
    PROVE  \/ UNCHANGED <<users, duels, replies>>
           \/ users' = users /\ \E w \in Workers : InsertDuel(w)
           \/ /\ users' = users
              /\ \E u \in People, d \in DuelIds, s \in {"ACTIVE", "DECLINED"} :
                    Respond(u, d, s)
           \/ \E u \in People : DeleteAccount(u)
<1>1. ASSUME DuelWrite
      PROVE  \/ UNCHANGED <<duels, replies>> \/ \E w \in Workers : InsertDuel(w)
             \/ \E u \in People, d \in DuelIds, s \in {"ACTIVE", "DECLINED"} :
                   Respond(u, d, s)
  BY <1>1 DEF DuelWrite, SetJoined
<1>2. ASSUME DuelWrite
      PROVE  users' = users
  BY <1>2 DEF DuelWrite
<1>3. ASSUME Quiet \/ FriendWrite \/ AscentWrite \/ BelongWrite
      PROVE  UNCHANGED <<users, duels, replies>>
  BY <1>3 DEF Quiet, FriendWrite, AscentWrite, BelongWrite, duelVars, SetStatus
<1>. QED
  BY <1>1, <1>2, <1>3, StepCases

\* What a deletion leaves of the logs.
LEMMA DeletedLogs ==
    ASSUME NEW u \in People, AscentDelete(u)
    PROVE  /\ DOMAIN logs' = {l \in DOMAIN logs :
                                logs[l].user # u /\ logs[l].ascent \notin AscentsOf(u)}
           /\ \A l \in DOMAIN logs' : logs'[l] = logs[l]
BY DEF AscentDelete, Drop

\* Nobody takes over a row: a row with an id handed out before was there before,
\* with the same owner and content.  What was handed out, answered and befriended
\* stays so, and no account comes back.
RowsKept ==
    /\ users' \subseteq users
    /\ spent \subseteq spent'
    /\ befriended \subseteq befriended'
    /\ \A a \in DOMAIN ascents' \cap spent : a \in DOMAIN ascents /\ Alike(a)
    /\ \A l \in DOMAIN logs' \cap spent : l \in DOMAIN logs /\ logs'[l] = logs[l]

LEMMA RowsKeptStep ==
    ASSUME TypeOK, [Next]_vars
    PROVE  RowsKept
<1>1. users' \subseteq users
  BY StepCases DEF Quiet, FriendWrite, AscentWrite, DuelWrite, BelongWrite, SetStatus,
     DeleteAccount, SocialDelete
<1>2. befriended \subseteq befriended'
  BY StepCases DEF Quiet, FriendWrite, AscentWrite, DuelWrite, BelongWrite, SetStatus,
     DeleteAccount, SocialDelete
<1>3. spent \subseteq spent'
  BY StepCases DEF Quiet, FriendWrite, AscentWrite, DuelWrite, BelongWrite, ascentVars,
     DeleteAccount, AscentDelete, CreateAgain, Summit, InsertAscent, InsertConflicts,
     InsertLog, React, Unreact, InsertInvite, Tick, InsertDuel, Respond, SetJoined
<1>4. ASSUME NEW a \in DOMAIN ascents' \cap spent
      PROVE  a \in DOMAIN ascents /\ Alike(a)
  <2>1. CASE AscentsAlike
    BY <2>1 DEF AscentsAlike
  <2>2. ASSUME NEW w \in Workers, InsertAscent(w)
        PROVE  a \in DOMAIN ascents /\ Alike(a)
    <3>1. PICK b \in AscentIds \ spent, row \in Ascent : ascents' = Put(ascents, b, row)
      BY <2>2, InsertedAscent DEF TypeOK
    <3>2. a # b /\ a \in DOMAIN ascents /\ ascents'[a] = ascents[a]
      BY <3>1 DEF Put
    <3>. QED
      BY <3>2 DEF Alike
  <2>3. ASSUME NEW u \in People, DeleteAccount(u)
        PROVE  a \in DOMAIN ascents /\ Alike(a)
    BY <2>3, DeletedAscents DEF DeleteAccount, Alike, TypeOK
  <2>. QED
    BY <2>1, <2>2, <2>3, AscentSteps
<1>5. ASSUME NEW l \in DOMAIN logs' \cap spent
      PROVE  l \in DOMAIN logs /\ logs'[l] = logs[l]
  <2>1. ASSUME NEW w \in Workers, InsertLog(w)
        PROVE  l \in DOMAIN logs /\ logs'[l] = logs[l]
    <3>1. PICK k \in LogIds \ spent, row \in Log : logs' = Put(logs, k, row)
      BY <2>1, InsertedLog DEF TypeOK
    <3>. QED
      BY <3>1 DEF Put
  <2>2. ASSUME NEW u \in People, DeleteAccount(u)
        PROVE  l \in DOMAIN logs /\ logs'[l] = logs[l]
    BY <2>2, DeletedLogs DEF DeleteAccount
  <2>. QED
    BY <2>1, <2>2, LogSteps
<1>. QED
  BY <1>1, <1>2, <1>3, <1>4, <1>5 DEF RowsKept

-----------------------------------------------------------------------------
(* Every row is of accounts that exist.                                    *)

LEMMA FriendRowsStep ==
    ASSUME FriendRows, FollowingMet, [Next]_vars
    PROVE  FriendRows' /\ FollowingMet'
<1>1. CASE UNCHANGED <<users, friendships, befriended>>
  BY <1>1 DEF FriendRows, FollowingMet
<1>2. ASSUME NEW p \in Asked, NEW s \in {"REQUESTED", "FOLLOWING"},
             SetStatus(p[1], p[2], s)
      PROVE  FriendRows' /\ FollowingMet'
  <2>1. p = <<p[1], p[2]>>
    BY AskedAssumption
  <2>2. /\ DOMAIN friendships' = DOMAIN friendships \cup {p}
        /\ friendships'[p] = s
        /\ \A q \in DOMAIN friendships : q # p => friendships'[q] = friendships[q]
    BY <1>2, <2>1 DEF SetStatus, Put
  <2>3. FriendRows'
    BY <1>2, <2>2 DEF SetStatus, FriendRows
  <2>4. /\ befriended \subseteq befriended'
        /\ s = "FOLLOWING" => {p[1], p[2]} \in befriended'
    BY <1>2 DEF SetStatus
  <2>. QED
    BY <2>2, <2>3, <2>4 DEF FollowingMet
<1>3. ASSUME NEW u \in People, SocialDelete(u)
      PROVE  FriendRows' /\ FollowingMet'
  BY <1>3 DEF SocialDelete, FriendRows, FollowingMet, Drop
<1>. QED
  BY <1>1, <1>2, <1>3, StepCases
     DEF Quiet, FriendWrite, AscentWrite, DuelWrite, BelongWrite, DeleteAccount

LEMMA OwnerRowsStep ==
    ASSUME TypeOK, OwnerRows, [Next]_vars
    PROVE  OwnerRows'
<1>1. CASE AscentsAlike
  BY <1>1 DEF AscentsAlike, Alike, OwnerRows
<1>2. ASSUME users' = users, NEW w \in Workers, InsertAscent(w)
      PROVE  OwnerRows'
  <2>1. PICK b \in AscentIds \ spent, row \in Ascent :
           row.user \in users /\ ascents' = Put(ascents, b, row)
    BY <1>2, InsertedAscent DEF TypeOK
  <2>. QED
    BY <1>2, <2>1 DEF OwnerRows, Put
<1>3. ASSUME NEW u \in People, DeleteAccount(u)
      PROVE  OwnerRows'
  BY <1>3, DeletedAscents DEF DeleteAccount, SocialDelete, TypeOK, OwnerRows
<1>. QED
  BY <1>1, <1>2, <1>3, AscentSteps

LEMMA LogRowsStep ==
    ASSUME TypeOK, LogRows, CallsEntitled, [Next]_vars
    PROVE  LogRows'
<1>1. ASSUME NEW l \in DOMAIN logs, l \in DOMAIN logs', ~\E u \in People : DeleteAccount(u)
      PROVE  /\ logs'[l].ascent \in DOMAIN ascents'
             /\ logs'[l].user = ascents'[logs'[l].ascent].user
  <2>1. logs[l].ascent \in DOMAIN ascents /\ logs[l].user = ascents[logs[l].ascent].user
    BY DEF LogRows
  <2>2. logs'[l] = logs[l]
    BY <1>1, RowsKeptStep DEF RowsKept, TypeOK, AscentTypes
  <2>3. DOMAIN ascents \subseteq DOMAIN ascents'
    <3>1. ASSUME NEW w \in Workers, InsertAscent(w)
          PROVE  DOMAIN ascents \subseteq DOMAIN ascents'
      BY <3>1 DEF InsertAscent, Put
    <3>. QED
      BY <1>1, <3>1, AscentSteps DEF AscentsAlike
  <2>4. ascents'[logs[l].ascent].user = ascents[logs[l].ascent].user
    BY <2>1, <2>3, RowsKeptStep DEF RowsKept, Alike, TypeOK, AscentTypes
  <2>. QED
    BY <2>1, <2>2, <2>3, <2>4
<1>2. CASE logs' = logs /\ ~\E u \in People : DeleteAccount(u)
  BY <1>1, <1>2 DEF LogRows
<1>3. ASSUME NEW w \in Workers, InsertLog(w), ~\E u \in People : DeleteAccount(u)
      PROVE  LogRows'
  <2>1. PICK k \in LogIds \ spent, row \in Log :
           /\ row.ascent = call[w].ascent /\ row.ascent \in DOMAIN ascents
           /\ row.user = call[w].user
           /\ logs' = Put(logs, k, row)
           /\ ascents' = ascents
    BY <1>3, InsertedLog DEF TypeOK
  <2>2. row.user = ascents[row.ascent].user
    BY <1>3, <2>1 DEF CallsEntitled, Entitled, InsertLog, At
  <2>3. /\ DOMAIN logs' = DOMAIN logs \cup {k} /\ logs'[k] = row
    BY <2>1 DEF Put
  <2>. QED
    BY <1>1, <1>3, <2>1, <2>2, <2>3 DEF LogRows
<1>4. ASSUME NEW u \in People, DeleteAccount(u)
      PROVE  LogRows'
  <2>1. ASSUME NEW l \in DOMAIN logs'
        PROVE  /\ logs'[l].ascent \in DOMAIN ascents'
               /\ logs'[l].user = ascents'[logs'[l].ascent].user
    <3>1. /\ l \in DOMAIN logs /\ logs'[l] = logs[l]
          /\ logs[l].ascent \notin AscentsOf(u)
      BY <1>4, <2>1, DeletedLogs DEF DeleteAccount
    <3>2. /\ DOMAIN ascents' = {a \in DOMAIN ascents : ascents[a].user # u}
          /\ \A a \in DOMAIN ascents' : ascents'[a].user = ascents[a].user
      BY <1>4, DeletedAscents DEF DeleteAccount, TypeOK
    <3>. QED
      BY <3>1, <3>2 DEF LogRows, AscentsOf
  <2>. QED
    BY <2>1 DEF LogRows
<1>. QED
  BY <1>2, <1>3, <1>4, LogSteps

LEMMA KudosRowsStep ==
    ASSUME TypeOK, KudosRows, LogRows, [Next]_vars
    PROVE  KudosRows'
<1>1. ASSUME users' = users, DOMAIN logs \subseteq DOMAIN logs',
             DOMAIN ascents \subseteq DOMAIN ascents',
             \A r \in reactions' \ reactions : r[1] \in DOMAIN logs /\ r[2] \in users,
             \A i \in invites' \ invites :
                {i[1], i[2]} \subseteq users /\ i[3] \in DOMAIN ascents
      PROVE  KudosRows'
  BY <1>1 DEF KudosRows
<1>2. ASSUME NEW w \in Workers, React(w), users' = users
      PROVE  KudosRows'
  BY <1>1, <1>2 DEF React
<1>3. ASSUME NEW w \in Workers, Unreact(w), users' = users
      PROVE  KudosRows'
  BY <1>1, <1>3 DEF Unreact
<1>4. ASSUME NEW w \in Workers, InsertInvite(w), users' = users
      PROVE  KudosRows'
  BY <1>1, <1>4 DEF InsertInvite
<1>5. ASSUME NEW w \in Workers, InsertAscent(w), users' = users
      PROVE  KudosRows'
  BY <1>1, <1>5 DEF InsertAscent, Put
<1>6. ASSUME NEW w \in Workers, InsertLog(w), users' = users
      PROVE  KudosRows'
  BY <1>1, <1>6 DEF InsertLog, Put
<1>7. ASSUME NEW w \in Workers, InsertConflicts(w), users' = users
      PROVE  KudosRows'
  BY <1>1, <1>7 DEF InsertConflicts
<1>8. ASSUME NEW u \in People, NEW a \in AscentIds, Summit(u, a), users' = users
      PROVE  KudosRows'
  BY <1>1, <1>8 DEF Summit
<1>9. ASSUME NEW u \in People, NEW s \in Sources, CreateAgain(u, s), users' = users
      PROVE  KudosRows'
  BY <1>1, <1>9 DEF CreateAgain
<1>10. ASSUME users' = users, UNCHANGED <<ascents, logs, reactions, invites>>
       PROVE  KudosRows'
  BY <1>10 DEF KudosRows
<1>11. ASSUME AscentWrite
       PROVE  KudosRows'
  <2>1. users' = users
    BY <1>11 DEF AscentWrite
  <2>2. Tick => UNCHANGED <<ascents, logs, reactions, invites>>
    BY DEF Tick
  <2>. QED
    BY <1>2, <1>3, <1>4, <1>5, <1>6, <1>7, <1>8, <1>9, <1>10, <1>11, <2>1, <2>2
       DEF AscentWrite
<1>12. ASSUME NEW u \in People, DeleteAccount(u)
       PROVE  KudosRows'
  <2>. DEFINE lost == {l \in DOMAIN logs : logs[l].user = u
                                             \/ logs[l].ascent \in AscentsOf(u)}
  <2>1. /\ users' = users \ {u}
        /\ DOMAIN logs' = DOMAIN logs \ lost
        /\ DOMAIN ascents' = DOMAIN ascents \ AscentsOf(u)
        /\ reactions' = {r \in reactions : r[1] \notin lost /\ r[2] # u}
        /\ invites' = {i \in invites : u \notin {i[1], i[2]}
                                         /\ i[3] \notin AscentsOf(u)}
    BY <1>12, DeletedAscents
       DEF DeleteAccount, SocialDelete, AscentDelete, Drop, AscentsOf, TypeOK
  <2>. QED
    BY <2>1 DEF KudosRows
<1>13. ASSUME Quiet \/ FriendWrite \/ DuelWrite \/ BelongWrite
       PROVE  KudosRows'
  <2>1. users' = users /\ UNCHANGED <<ascents, logs, reactions, invites>>
    BY <1>13 DEF Quiet, FriendWrite, SetStatus, DuelWrite, BelongWrite, ascentVars
  <2>. QED
    BY <1>10, <2>1
<1>. QED
  BY <1>11, <1>12, <1>13, StepCases

LEMMA DuelRowsStep ==
    ASSUME TypeOK, DuelRows, [Next]_vars
    PROVE  DuelRows'
<1>1. ASSUME users' = users, NEW w \in Workers, InsertDuel(w)
      PROVE  DuelRows'
  <2>1. PICK d \in DuelIds \ spent, row \in Duel :
           {row.challenger, row.opponent} \subseteq users /\ duels' = Put(duels, d, row)
    BY <1>1, InsertedDuel DEF TypeOK
  <2>. QED
    BY <1>1, <2>1 DEF DuelRows, Put
<1>2. ASSUME users' = users, NEW u \in People, NEW d \in DuelIds,
             NEW s \in {"ACTIVE", "DECLINED"}, Respond(u, d, s)
      PROVE  DuelRows'
  <2>1. duels' = [duels EXCEPT ![d] = [duels[d] EXCEPT !.status = s]]
    BY <1>2 DEF Respond
  <2>2. /\ [duels[d] EXCEPT !.status = s].challenger = duels[d].challenger
        /\ [duels[d] EXCEPT !.status = s].opponent = duels[d].opponent
        /\ d \in DOMAIN duels
    BY <1>2 DEF Respond, TypeOK, DuelTypes, Duel
  <2>. QED
    BY <1>2, <2>1, <2>2 DEF DuelRows, TypeOK, DuelTypes
<1>3. ASSUME NEW u \in People, DeleteAccount(u)
      PROVE  DuelRows'
  BY <1>3 DEF DeleteAccount, SocialDelete, DuelDelete, Drop, DuelRows
<1>4. CASE UNCHANGED <<users, duels, replies>>
  BY <1>4 DEF DuelRows
<1>. QED
  BY <1>1, <1>2, <1>3, <1>4, DuelSteps

LEMMA OwnRowsStep ==
    ASSUME TypeOK, OwnRows, [Next]_vars
    PROVE  OwnRows'
<1>. DEFINE Joined == \A k \in DOMAIN joined : k[1] \in users
            Wished == \A i \in DOMAIN wishlists : wishlists[i].user \in users
            Others == /\ \A k \in integrations \cup devices : k[1] \in users
                      /\ avatars \subseteq users
<1>1. (OwnRows <=> Joined /\ Wished /\ Others) /\ (OwnRows' <=> Joined' /\ Wished' /\ Others')
  BY DEF OwnRows
<1>2. Joined /\ Wished /\ Others
  BY <1>1
<1>3. Joined'
  <2>1. ASSUME DuelWrite
        PROVE  Joined'
    <3>1. users' = users
      BY <2>1 DEF DuelWrite
    <3>2. joined' = joined \/ \E u \in People, c \in Challenges, yes \in BOOLEAN :
                                 SetJoined(u, c, yes)
      BY <2>1 DEF DuelWrite, InsertDuel, Respond
    <3>3. ASSUME NEW u \in People, NEW c \in Challenges, NEW yes \in BOOLEAN,
                 SetJoined(u, c, yes)
          PROVE  Joined'
      BY <1>2, <3>1, <3>3 DEF SetJoined, Put
    <3>. QED
      BY <1>2, <3>1, <3>2, <3>3
  <2>2. ASSUME Quiet \/ FriendWrite \/ AscentWrite \/ BelongWrite
        PROVE  Joined'
    <3>1. users' = users /\ joined' = joined
      BY <2>2 DEF Quiet, FriendWrite, SetStatus, AscentWrite, BelongWrite, duelVars
    <3>. QED
      BY <1>2, <3>1
  <2>3. ASSUME NEW u \in People, DeleteAccount(u)
        PROVE  Joined'
    BY <1>2, <2>3 DEF DeleteAccount, SocialDelete, DuelDelete, Drop
  <2>. QED
    BY <2>1, <2>2, <2>3, StepCases
<1>4. Wished' /\ Others'
  <2>1. ASSUME BelongWrite
        PROVE  Wished' /\ Others'
    <3>1. users' = users
      BY <2>1 DEF BelongWrite
    <3>2. ASSUME NEW u \in People, NEW item \in Items, NEW s \in Snapshots,
                 AddWish(u, item, s)
          PROVE  Wished' /\ Others'
      <4>1. ASSUME NEW i \in WishesOf(u),
                   wishlists' = [wishlists EXCEPT ![i] = UpdatedWish(u, i, s)]
            PROVE  Wished'
        <5>1. i \in DOMAIN wishlists /\ UpdatedWish(u, i, s).user = wishlists[i].user
          BY DEF WishesOf, UpdatedWish, TypeOK, BelongTypes, Wish
        <5>. QED
          BY <1>2, <3>1, <4>1, <5>1 DEF TypeOK, BelongTypes
      <4>2. ASSUME NEW i \in WishIds \ wished,
                   wishlists' = Put(wishlists, i, NewWish(u, item, s))
            PROVE  Wished'
        BY <1>2, <3>1, <3>2, <4>2 DEF AddWish, Put, NewWish
      <4>. QED
        BY <1>2, <3>1, <3>2, <4>1, <4>2 DEF AddWish
    <3>3. ASSUME NEW u \in People, NEW i \in WishIds, NEW p \in Plans \cup {NoPlan},
                 UpdatePlan(u, i, p)
          PROVE  Wished' /\ Others'
      <4>1. i \in DOMAIN wishlists /\ UpdatedPlan(i, p).user = wishlists[i].user
        BY <3>3 DEF UpdatePlan, WishesOf, UpdatedPlan, TypeOK, BelongTypes, Wish
      <4>. QED
        BY <1>2, <3>1, <3>3, <4>1 DEF UpdatePlan, TypeOK, BelongTypes
    <3>4. ASSUME NEW u \in People, NEW i \in WishIds, RemoveWish(u, i)
          PROVE  Wished' /\ Others'
      BY <1>2, <3>1, <3>4 DEF RemoveWish, Drop
    <3>5. ASSUME NEW u \in People,
                 \/ \E w \in Workers, p \in Apps : Connect(w, u, p) \/ Disconnect(w, u, p)
                 \/ \E t \in Tokens : RegisterDevice(u, t)
                 \/ SetAvatar(u)
          PROVE  Wished' /\ Others'
      BY <1>2, <3>1, <3>5 DEF Connect, Disconnect, RegisterDevice, SetAvatar
    <3>. QED
      BY <2>1, <3>2, <3>3, <3>4, <3>5 DEF BelongWrite
  <2>2. ASSUME Quiet \/ FriendWrite \/ AscentWrite \/ DuelWrite
        PROVE  Wished' /\ Others'
    <3>1. users' = users /\ UNCHANGED belongVars
      BY <2>2 DEF Quiet, FriendWrite, SetStatus, AscentWrite, DuelWrite
    <3>. QED
      BY <1>2, <3>1 DEF belongVars
  <2>3. ASSUME NEW u \in People, DeleteAccount(u)
        PROVE  Wished' /\ Others'
    BY <1>2, <2>3 DEF DeleteAccount, SocialDelete, BelongDelete, Drop, WishesOf
  <2>. QED
    BY <2>1, <2>2, <2>3, StepCases
<1>. QED
  BY <1>1, <1>3, <1>4

-----------------------------------------------------------------------------
(* What a call has checked, and what it writes.                            *)

\* A call that waits stays entitled, whatever step is taken meanwhile.
LEMMA EntitledStays ==
    ASSUME TypeOK, NEW c, Entitled(c), [Next]_vars
    PROVE  Entitled(c)'
<1>1. RowsKept
  BY RowsKeptStep
<1>2. c.at = "log" =>
         /\ c.ascent \in spent'
         /\ c.ascent \in DOMAIN ascents' => ascents'[c.ascent].user = c.user
  BY <1>1 DEF Entitled, RowsKept, Alike
<1>3. c.at \in {"visible", "react", "unreact"} =>
         /\ c.log \in spent'
         /\ c.log \in DOMAIN logs' => logs'[c.log].user = c.owner
  BY <1>1 DEF Entitled, RowsKept
<1>4. \A u, v : Met(u, v) => Met(u, v)'
  BY <1>1 DEF RowsKept, Met
<1>. QED
  BY <1>2, <1>3, <1>4 DEF Entitled

LEMMA FollowingIsMet ==
    ASSUME FollowingMet, NEW u, NEW v,
           \/ v \in Demo
           \/ \E p \in {<<u, v>>, <<v, u>>} :
                 p \in DOMAIN friendships /\ friendships[p] = "FOLLOWING"
    PROVE  Met(u, v)
<1>1. CASE <<u, v>> \in DOMAIN friendships /\ friendships[<<u, v>>] = "FOLLOWING"
  BY <1>1 DEF FollowingMet, Met
<1>2. CASE <<v, u>> \in DOMAIN friendships /\ friendships[<<v, u>>] = "FOLLOWING"
  <2>1. {v, u} \in befriended /\ {v, u} = {u, v}
    BY <1>2 DEF FollowingMet
  <2>. QED
    BY <2>1 DEF Met
<1>. QED
  BY <1>1, <1>2 DEF Met

LEMMA CallsEntitledStep ==
    ASSUME TypeOK, FollowingMet, CallsEntitled, [Next]_vars
    PROVE  CallsEntitled'
<1>1. ASSUME NEW w \in Workers, NEW c, Entitled(c), Go(w, c)
      PROVE  CallsEntitled'
  <2>1. ASSUME NEW v \in Workers, NEW d, d = call'[v]
        PROVE  Entitled(d)'
    <3>1. d = c \/ d = call[v]
      BY <1>1, <2>1 DEF Go, TypeOK, CallTypes
    <3>2. CASE d = c
      BY <1>1, <3>2, EntitledStays
    <3>3. CASE d = call[v]
      <4>1. Entitled(d)
        BY <3>3 DEF CallsEntitled
      <4>. QED
        BY <4>1, EntitledStays
    <3>. QED
      BY <3>1, <3>2, <3>3
  <2>. QED
    BY <2>1 DEF CallsEntitled, Entitled, Met
<1>2. ASSUME NEW w \in Workers, Answer(w)
      PROVE  CallsEntitled'
  <2>1. Entitled(Idle)
    BY DEF Entitled, Idle
  <2>. QED
    BY <1>1, <1>2, <2>1 DEF Answer
<1>3. ASSUME NEW w \in Workers, NEW u \in People, NEW s \in Sources \cup {None},
             NEW i \in Interests \cup {None}, NEW p \in Parents, Create(w, u, s, i, p)
      PROVE  CallsEntitled'
  <2>. DEFINE c == [at |-> "insert", user |-> u, source |-> s, interest |-> i,
                    parent |-> p]
  <2>1. Entitled(c)
    BY DEF Entitled
  <2>. QED
    BY <1>1, <1>3, <2>1 DEF Create
<1>4. ASSUME NEW w \in Workers, NEW u \in People, NEW a \in AscentIds, AddLog(w, u, a)
      PROVE  CallsEntitled'
  <2>. DEFINE c == [at |-> "log", user |-> u, ascent |-> a, stamp |-> now]
  <2>1. a \in spent /\ ascents[a].user = u
    BY <1>4 DEF AddLog, Owns, AscentsOf, TypeOK, AscentTypes
  <2>2. Entitled(c)
    BY <2>1 DEF Entitled
  <2>. QED
    BY <1>1, <1>4, <2>2 DEF AddLog
<1>5. ASSUME NEW w \in Workers, NEW u \in People, NEW l \in LogIds,
             NEW op \in {"react", "unreact"}, MutateReaction(w, u, l, op)
      PROVE  CallsEntitled'
  <2>. DEFINE c == [at |-> IF logs[l].user = u THEN op ELSE "visible", user |-> u,
                    log |-> l, owner |-> logs[l].user, op |-> op]
  <2>1. l \in spent /\ (c.at = "react" => u = logs[l].user)
    BY <1>5 DEF MutateReaction, TypeOK, AscentTypes
  <2>2. c.at \in {"visible", "react", "unreact"} /\ c.user = u /\ c.log = l
          /\ c.owner = logs[l].user
    OBVIOUS
  <2>3. Entitled(c)
    BY <2>1, <2>2 DEF Entitled, Met
  <2>. QED
    BY <1>1, <1>5, <2>3 DEF MutateReaction
<1>6. ASSUME NEW w \in Workers, NEW u \in People, NEW f \in Everyone,
             NEW a \in AscentIds, Invite(w, u, f, a)
      PROVE  CallsEntitled'
  <2>. DEFINE c == [at |-> "invite", user |-> u, friend |-> f, ascent |-> a]
  <2>1. Met(u, f)
    BY <1>6, FollowingIsMet DEF Invite, CanViewUser
  <2>2. Entitled(c)
    BY <2>1 DEF Entitled
  <2>. QED
    BY <1>1, <1>6, <2>2 DEF Invite
<1>7. ASSUME NEW w \in Workers, NEW u \in People, NEW o \in Opponents,
             NEW i \in Interests \cup {None}, CreateDuel(w, u, o, i)
      PROVE  CallsEntitled'
  <2>. DEFINE c == [at |-> "demo", user |-> u, opponent |-> o, interest |-> i]
  <2>1. Met(u, o)
    BY <1>7, FollowingIsMet DEF CreateDuel, MayDuel
  <2>2. Entitled(c)
    BY <2>1 DEF Entitled
  <2>. QED
    BY <1>1, <1>7, <2>2 DEF CreateDuel
<1>8. ASSUME NEW w \in Workers, NEW u \in People, Go(w, [at |-> "apps", user |-> u])
      PROVE  CallsEntitled'
  <2>1. Entitled([at |-> "apps", user |-> u])
    BY DEF Entitled
  <2>. QED
    BY <1>1, <1>8, <2>1
<1>9. ASSUME NEW w \in Workers, RequireFriend(w)
      PROVE  CallsEntitled'
  <2>. DEFINE b == call[w]
              c == [b EXCEPT !.at = b.op]
  <2>1. /\ b \in [at : {"visible", "react", "unreact"}, user : People, log : LogIds,
                  owner : Everyone, op : {"react", "unreact"}]
        /\ b.at = "visible"
    BY <1>9 DEF RequireFriend, At, TypeOK, CallTypes, Calls, Idle
  <2>2. /\ c.at \in {"react", "unreact"} /\ c.user = b.user /\ c.log = b.log
        /\ c.owner = b.owner
    BY <2>1
  <2>3. Met(b.user, b.owner)
    BY <1>9, FollowingIsMet DEF RequireFriend, CanViewUser
  <2>4. b.log \in spent /\ (b.log \in DOMAIN logs => logs[b.log].user = b.owner)
    BY <2>1 DEF CallsEntitled, Entitled
  <2>5. Entitled(c)
    BY <2>2, <2>3, <2>4 DEF Entitled
  <2>. QED
    BY <1>1, <1>9, <2>5 DEF RequireFriend
<1>10. ASSUME NEW w \in Workers, CheckDemo(w)
       PROVE  CallsEntitled'
  <2>. DEFINE b == call[w]
  <2>1. PICK status \in {"PENDING"} \cup (IF b.opponent \in Demo THEN {"ACTIVE"} ELSE {}) :
             Go(w, [at |-> "duel", user |-> b.user, status |-> status,
                    opponent |-> b.opponent, interest |-> b.interest])
    BY <1>10 DEF CheckDemo
  <2>2. Met(b.user, b.opponent)
    BY <1>10 DEF CheckDemo, At, CallsEntitled, Entitled
  <2>3. Entitled([at |-> "duel", user |-> b.user, status |-> status,
                  opponent |-> b.opponent, interest |-> b.interest])
    BY <2>1, <2>2 DEF Entitled
  <2>. QED
    BY <1>1, <2>1, <2>3
<1>11. ASSUME NEW w \in Workers, InsertDuel(w)
       PROVE  CallsEntitled'
  <2>1. PICK d \in DuelIds : Go(w, [at |-> "listed", user |-> call[w].user, duel |-> d])
    BY <1>11 DEF InsertDuel
  <2>2. Entitled([at |-> "listed", user |-> call[w].user, duel |-> d])
    BY DEF Entitled
  <2>. QED
    BY <1>1, <2>1, <2>2
<1>12. CASE UNCHANGED call
  <2>1. ASSUME NEW v \in Workers, NEW d, d = call'[v]
        PROVE  Entitled(d)'
    <3>1. Entitled(d)
      BY <1>12, <2>1 DEF CallsEntitled
    <3>. QED
      BY <3>1, EntitledStays
  <2>. QED
    BY <2>1 DEF CallsEntitled, Entitled, Met
<1>. QED
  BY <1>2, <1>3, <1>4, <1>5, <1>6, <1>7, <1>8, <1>9, <1>10, <1>11, <1>12, CallCases

\* ContactNeedsFriendship, with its LET named.
LEMMA ContactMet ==
    ContactNeedsFriendship <=>
       /\ \A r \in reactions : Met(r[2], logs[r[1]].user)
       /\ \A i \in invites : Met(i[1], i[2])
       /\ \A d \in DOMAIN duels : Met(duels[d].challenger, duels[d].opponent)
BY DEF ContactNeedsFriendship, Met

LEMMA ContactStep ==
    ASSUME TypeOK, KudosRows, LogRows, CallsEntitled, ContactNeedsFriendship, [Next]_vars
    PROVE  ContactNeedsFriendship'
<1>1. /\ \A r \in reactions : Met(r[2], logs[r[1]].user)
      /\ \A i \in invites : Met(i[1], i[2])
      /\ \A d \in DOMAIN duels : Met(duels[d].challenger, duels[d].opponent)
  BY ContactMet
<1>2. befriended \subseteq befriended'
  BY RowsKeptStep DEF RowsKept
<1>3. ASSUME KudosRows', NEW r \in reactions'
      PROVE  Met(r[2], logs[r[1]].user)'
  <2>1. ASSUME r \in reactions
        PROVE  Met(r[2], logs[r[1]].user)'
    <3>1. r[1] \in DOMAIN logs \cap DOMAIN logs' /\ r[1] \in spent
      BY <1>3, <2>1 DEF KudosRows, TypeOK, AscentTypes
    <3>2. logs'[r[1]] = logs[r[1]]
      BY <3>1, RowsKeptStep DEF RowsKept
    <3>. QED
      BY <1>1, <1>2, <2>1, <3>2 DEF Met
  <2>2. ASSUME NEW w \in Workers, React(w), r \notin reactions
        PROVE  Met(r[2], logs[r[1]].user)'
    <3>. DEFINE c == call[w]
    <3>1. /\ c.at = "react" /\ c.log \in DOMAIN logs /\ r = <<c.log, c.user>>
          /\ logs' = logs
      BY <2>2 DEF React, At
    <3>2. logs[c.log].user = c.owner /\ Met(c.user, c.owner)
      BY <3>1 DEF CallsEntitled, Entitled
    <3>. QED
      BY <1>2, <3>1, <3>2 DEF Met
  <2>3. ASSUME r \notin reactions
        PROVE  \E w \in Workers : React(w)
    <3>1. CASE AscentWrite
      BY <1>3, <2>3, <3>1 DEF AscentWrite, InsertAscent, CreateAgain, InsertConflicts,
         InsertLog, Unreact, InsertInvite, Tick, Summit
    <3>2. ASSUME Quiet \/ FriendWrite \/ DuelWrite \/ BelongWrite
          PROVE  reactions' = reactions
      BY <3>2 DEF Quiet, FriendWrite, DuelWrite, BelongWrite, ascentVars
    <3>3. ASSUME NEW u \in People, DeleteAccount(u)
          PROVE  reactions' \subseteq reactions
      BY <3>3 DEF DeleteAccount, AscentDelete
    <3>. QED
      BY <1>3, <2>3, <3>1, <3>2, <3>3, StepCases
  <2>. QED
    BY <2>1, <2>2, <2>3
<1>4. ASSUME NEW i \in invites'
      PROVE  Met(i[1], i[2])'
  <2>1. ASSUME NEW w \in Workers, InsertInvite(w), i \notin invites
        PROVE  Met(i[1], i[2])
    <3>. DEFINE c == call[w]
    <3>1. c.at = "invite" /\ i = <<c.user, c.friend, c.ascent>>
      BY <2>1 DEF InsertInvite, At
    <3>. QED
      BY <3>1 DEF CallsEntitled, Entitled
  <2>2. ASSUME i \notin invites
        PROVE  \E w \in Workers : InsertInvite(w)
    <3>1. CASE AscentWrite
      BY <1>4, <2>2, <3>1 DEF AscentWrite, InsertAscent, CreateAgain, InsertConflicts,
         InsertLog, React, Unreact, Tick, Summit
    <3>2. ASSUME Quiet \/ FriendWrite \/ DuelWrite \/ BelongWrite
          PROVE  invites' = invites
      BY <3>2 DEF Quiet, FriendWrite, DuelWrite, BelongWrite, ascentVars
    <3>3. ASSUME NEW u \in People, DeleteAccount(u)
          PROVE  invites' \subseteq invites
      BY <3>3 DEF DeleteAccount, AscentDelete
    <3>. QED
      BY <1>4, <2>2, <3>1, <3>2, <3>3, StepCases
  <2>3. Met(i[1], i[2])
    BY <1>1, <2>1, <2>2
  <2>. QED
    BY <1>2, <2>3 DEF Met
<1>5. ASSUME NEW d \in DOMAIN duels'
      PROVE  Met(duels[d].challenger, duels[d].opponent)'
  <2>1. ASSUME NEW w \in Workers, InsertDuel(w)
        PROVE  Met(duels'[d].challenger, duels'[d].opponent)
    <3>1. PICK e \in DuelIds \ spent, row \in Duel :
             /\ row.challenger = call[w].user /\ row.opponent = call[w].opponent
             /\ duels' = Put(duels, e, row)
      BY <2>1, InsertedDuel DEF TypeOK
    <3>2. Met(row.challenger, row.opponent)
      BY <2>1, <3>1 DEF InsertDuel, At, CallsEntitled, Entitled
    <3>3. duels'[d] = row \/ (d \in DOMAIN duels /\ duels'[d] = duels[d])
      BY <3>1 DEF Put
    <3>. QED
      BY <1>1, <3>2, <3>3
  <2>2. ASSUME NEW u \in People, NEW e \in DuelIds, NEW s \in {"ACTIVE", "DECLINED"},
               Respond(u, e, s)
        PROVE  Met(duels'[d].challenger, duels'[d].opponent)
    <3>1. duels' = [duels EXCEPT ![e] = [duels[e] EXCEPT !.status = s]]
      BY <2>2 DEF Respond
    <3>2. /\ [duels[e] EXCEPT !.status = s].challenger = duels[e].challenger
          /\ [duels[e] EXCEPT !.status = s].opponent = duels[e].opponent
          /\ e \in DOMAIN duels
      BY <2>2 DEF Respond, TypeOK, DuelTypes, Duel
    <3>3. /\ d \in DOMAIN duels
          /\ duels'[d].challenger = duels[d].challenger
          /\ duels'[d].opponent = duels[d].opponent
      BY <3>1, <3>2 DEF TypeOK, DuelTypes
    <3>. QED
      BY <1>1, <3>3
  <2>3. ASSUME NEW u \in People, DeleteAccount(u)
        PROVE  Met(duels'[d].challenger, duels'[d].opponent)
    BY <1>1, <2>3 DEF DeleteAccount, DuelDelete, Drop
  <2>4. ASSUME duels' = duels
        PROVE  Met(duels'[d].challenger, duels'[d].opponent)
    BY <1>1, <2>4
  <2>5. Met(duels'[d].challenger, duels'[d].opponent)
    BY <2>1, <2>2, <2>3, <2>4, DuelSteps
  <2>. QED
    BY <1>2, <2>5 DEF Met
<1>. QED
  BY <1>3, <1>4, <1>5, KudosRowsStep DEF ContactNeedsFriendship, Met

-----------------------------------------------------------------------------
(* One ascent per item.                                                    *)

LEMMA OnePerSourceStep ==
    ASSUME TypeOK, OnePerSource, [Next]_vars
    PROVE  OnePerSource'
<1>1. CASE AscentsAlike
  BY <1>1 DEF AscentsAlike, Alike, OnePerSource
<1>2. ASSUME NEW w \in Workers, InsertAscent(w)
      PROVE  OnePerSource'
  <2>1. PICK b \in AscentIds \ spent, row \in Ascent :
           ~Taken(row.user, row.source) /\ ascents' = Put(ascents, b, row)
    BY <1>2, InsertedAscent DEF TypeOK
  <2>2. /\ DOMAIN ascents' = DOMAIN ascents \cup {b} /\ ascents'[b] = row
        /\ \A a \in DOMAIN ascents : a # b /\ ascents'[a] = ascents[a]
    BY <2>1 DEF Put, TypeOK, AscentTypes
  <2>3. \A a \in DOMAIN ascents :
           ~(ascents[a].user = row.user /\ ascents[a].source = row.source
               /\ row.source # None)
    BY <2>1 DEF Taken, BySource, AscentsOf
  <2>. QED
    BY <2>2, <2>3 DEF OnePerSource
<1>3. ASSUME NEW u \in People, DeleteAccount(u)
      PROVE  OnePerSource'
  <2>1. \A a \in DOMAIN ascents' : /\ a \in DOMAIN ascents
                                   /\ ascents'[a].user = ascents[a].user
                                   /\ ascents'[a].source = ascents[a].source
    BY <1>3, DeletedAscents DEF DeleteAccount, TypeOK
  <2>. QED
    BY <2>1 DEF OnePerSource
<1>. QED
  BY <1>1, <1>2, <1>3, AscentSteps

\* What a step adds to the answers: a refusal, or an ascent that is there of
\* that user and item.
LEMMA NewAnswer ==
    ASSUME TypeOK, [Next]_vars, NEW x \in answered', x \notin answered, x[3] # None
    PROVE  /\ users' = users /\ x[2] # None
           /\ \/ /\ ascents' = ascents /\ x[3] \in DOMAIN ascents
                 /\ ascents[x[3]].user = x[1] /\ ascents[x[3]].source = x[2]
              \/ /\ BySource(x[1], x[2]) = {} /\ x[1] \in users
                 /\ DOMAIN ascents' = DOMAIN ascents \cup {x[3]}
                 /\ ascents'[x[3]].user = x[1] /\ ascents'[x[3]].source = x[2]
<1>1. AscentWrite
  <2>1. ASSUME NEW u \in People, DeleteAccount(u)
        PROVE  FALSE
    BY <2>1 DEF DeleteAccount, AscentDelete
  <2>2. ASSUME Quiet \/ FriendWrite \/ DuelWrite \/ BelongWrite
        PROVE  FALSE
    BY <2>2 DEF Quiet, FriendWrite, DuelWrite, BelongWrite, ascentVars
  <2>. QED
    BY <2>1, <2>2, StepCases
<1>2. users' = users
  BY <1>1 DEF AscentWrite
<1>3. ASSUME NEW u \in People, NEW s \in Sources, CreateAgain(u, s)
      PROVE  /\ ascents' = ascents /\ x[3] \in DOMAIN ascents /\ x[2] # None
             /\ ascents[x[3]].user = x[1] /\ ascents[x[3]].source = x[2]
  <2>1. PICK a \in BySource(u, s) : answered' = answered \cup {<<u, s, a>>}
    BY <1>3 DEF CreateAgain
  <2>2. x = <<u, s, a>>
    BY <2>1
  <2>. QED
    BY <1>3, <2>2, SourceAssumption DEF CreateAgain, BySource, AscentsOf
<1>4. ASSUME NEW w \in Workers, InsertAscent(w)
      PROVE  /\ BySource(x[1], x[2]) = {} /\ x[1] \in users /\ x[2] # None
             /\ DOMAIN ascents' = DOMAIN ascents \cup {x[3]}
             /\ ascents'[x[3]].user = x[1] /\ ascents'[x[3]].source = x[2]
  <2>1. PICK b \in AscentIds \ spent, row \in Ascent :
           /\ row.user \in users
           /\ ~Taken(row.user, row.source)
           /\ ascents' = Put(ascents, b, row)
           /\ answered' = IF row.source = None THEN answered
                          ELSE answered \cup {<<row.user, row.source, b>>}
    BY <1>4, InsertedAscent DEF TypeOK
  <2>2. row.source # None /\ x = <<row.user, row.source, b>>
    BY <2>1
  <2>. QED
    BY <2>1, <2>2 DEF Put, Taken
<1>5. ASSUME NEW w \in Workers, InsertConflicts(w)
      PROVE  FALSE
  BY <1>5 DEF InsertConflicts
<1>6. (\E u \in People, s \in Sources : CreateAgain(u, s))
        \/ (\E w \in Workers : InsertAscent(w) \/ InsertConflicts(w))
  BY <1>1 DEF AscentWrite, InsertLog, React, Unreact, InsertInvite, Tick, Summit
<1>. QED
  BY <1>2, <1>3, <1>4, <1>5, <1>6

LEMMA SameAscentStep ==
    ASSUME TypeOK, OwnerRows, OnePerSource, AnswersStand, SameAscent, [Next]_vars
    PROVE  SameAscent'
\* An answer of now and one of before.
<1>1. ASSUME NEW x \in answered', x \notin answered, NEW y \in answered,
             x[1] = y[1], x[2] = y[2], x[3] # None, y[3] # None
      PROVE  x[3] = y[3]
  <2>1. CASE /\ ascents' = ascents /\ x[3] \in DOMAIN ascents
             /\ ascents[x[3]].user = x[1] /\ ascents[x[3]].source = x[2]
    <3>1. x[1] \in users /\ x[2] # None
      BY <1>1, <2>1, NewAnswer DEF OwnerRows
    <3>2. /\ y[3] \in DOMAIN ascents
          /\ ascents[y[3]].user = x[1] /\ ascents[y[3]].source = x[2]
      BY <1>1, <3>1 DEF AnswersStand
    <3>. QED
      BY <2>1, <3>1, <3>2 DEF OnePerSource
  <2>2. CASE BySource(x[1], x[2]) = {} /\ x[1] \in users
    <3>1. y[3] \in BySource(x[1], x[2])
      BY <1>1, <2>2 DEF AnswersStand, BySource, AscentsOf
    <3>. QED
      BY <2>2, <3>1
  <2>. QED
    BY <1>1, <2>1, <2>2, NewAnswer
\* Two answers of now are one.
<1>2. ASSUME NEW x \in answered', x \notin answered, NEW y \in answered',
             y \notin answered, x[3] # None, y[3] # None, x[1] = y[1], x[2] = y[2]
      PROVE  x[3] = y[3]
  <2>1. CASE ascents' = ascents
    <3>1. /\ {x[3], y[3]} \subseteq DOMAIN ascents /\ x[2] # None
          /\ ascents[x[3]].user = x[1] /\ ascents[x[3]].source = x[2]
          /\ ascents[y[3]].user = y[1] /\ ascents[y[3]].source = y[2]
      BY <1>2, <2>1, NewAnswer DEF BySource, AscentsOf
    <3>. QED
      BY <1>2, <3>1 DEF OnePerSource
  <2>2. CASE ascents' # ascents
    <3>1. /\ BySource(x[1], x[2]) = {}
          /\ DOMAIN ascents' = DOMAIN ascents \cup {x[3]}
          /\ x[2] # None
          /\ DOMAIN ascents' = DOMAIN ascents \cup {y[3]}
          /\ ascents'[x[3]].user = x[1] /\ ascents'[x[3]].source = x[2]
          /\ ascents'[y[3]].user = y[1] /\ ascents'[y[3]].source = y[2]
      BY <1>2, <2>2, NewAnswer
    <3>2. OnePerSource'
      BY OnePerSourceStep
    <3>. QED
      BY <1>2, <3>1, <3>2 DEF OnePerSource
  <2>. QED
    BY <2>1, <2>2
<1>. QED
  BY <1>1, <1>2 DEF SameAscent

LEMMA AnswersStandStep ==
    ASSUME TypeOK, OwnerRows, AnswersStand, [Next]_vars
    PROVE  AnswersStand'
<1>. SUFFICES ASSUME NEW x \in answered', x[3] # None, x[1] \in users'
              PROVE  /\ x[3] \in DOMAIN ascents'
                     /\ ascents'[x[3]].user = x[1] /\ ascents'[x[3]].source = x[2]
  BY DEF AnswersStand
<1>1. CASE x \notin answered
  BY <1>1, NewAnswer
<1>2. CASE x \in answered
  <2>1. x[1] \in users
    BY RowsKeptStep DEF RowsKept
  <2>2. /\ x[3] \in DOMAIN ascents /\ x[3] \in spent
        /\ ascents[x[3]].user = x[1] /\ ascents[x[3]].source = x[2]
    BY <1>2, <2>1 DEF AnswersStand, TypeOK, AscentTypes
  <2>3. x[3] \in DOMAIN ascents'
    <3>1. ASSUME NEW w \in Workers, InsertAscent(w)
          PROVE  DOMAIN ascents \subseteq DOMAIN ascents'
      BY <3>1 DEF InsertAscent, Put
    <3>2. ASSUME NEW u \in People, DeleteAccount(u)
          PROVE  x[3] \in DOMAIN ascents'
      <4>1. users' = users \ {u}
        BY <3>2 DEF DeleteAccount, SocialDelete
      <4>. QED
        BY <2>2, <3>2, <4>1, DeletedAscents DEF DeleteAccount, TypeOK
    <3>. QED
      BY <2>2, <3>1, <3>2, AscentSteps DEF AscentsAlike
  <2>. QED
    BY <2>2, <2>3, RowsKeptStep DEF RowsKept, Alike
<1>. QED
  BY <1>1, <1>2

-----------------------------------------------------------------------------
(* One answer per duel.                                                    *)

LEMMA AnsweredOnceStep ==
    ASSUME TypeOK, CallsEntitled, FreshUnanswered, AnsweredOnce, [Next]_vars
    PROVE  FreshUnanswered' /\ AnsweredOnce'
<1>1. spent \subseteq spent'
  BY RowsKeptStep DEF RowsKept
<1>2. ASSUME NEW w \in Workers, InsertDuel(w)
      PROVE  FreshUnanswered' /\ AnsweredOnce'
  <2>1. PICK e \in DuelIds \ spent, row \in Duel :
           /\ row.opponent = call[w].opponent /\ row.status = call[w].status
           /\ duels' = Put(duels, e, row)
           /\ spent' = spent \cup {e} /\ replies' = replies
    BY <1>2, InsertedDuel DEF TypeOK
  <2>2. /\ DOMAIN duels' = DOMAIN duels \cup {e} /\ duels'[e] = row
        /\ \A d \in DOMAIN duels : d # e /\ duels'[d] = duels[d]
    BY <2>1 DEF Put, TypeOK, DuelTypes
  <2>3. replies[e] = <<>>
    BY <2>1 DEF FreshUnanswered
  <2>4. row.status = "PENDING" \/ (row.status = "ACTIVE" /\ row.opponent \in Demo)
    <3>1. call[w].at = "duel" /\ call[w] \in Calls \cup {Idle}
      BY <1>2 DEF InsertDuel, At, TypeOK, CallTypes
    <3>2. call[w].status \in {"PENDING", "ACTIVE"}
      BY <3>1, CallFields
    <3>. QED
      BY <2>1, <3>1, <3>2 DEF CallsEntitled, Entitled
  <2>5. AnsweredOnce'
    BY <2>1, <2>2, <2>3, <2>4 DEF AnsweredOnce
  <2>. QED
    BY <2>1, <2>5 DEF FreshUnanswered
<1>3. ASSUME NEW u \in People, NEW e \in DuelIds, NEW s \in {"ACTIVE", "DECLINED"},
             Respond(u, e, s)
      PROVE  FreshUnanswered' /\ AnsweredOnce'
  <2>1. /\ e \in DOMAIN duels /\ duels[e].status = "PENDING" /\ e \in spent
        /\ duels' = [duels EXCEPT ![e] = [duels[e] EXCEPT !.status = s]]
        /\ replies' = [replies EXCEPT ![e] = Append(replies[e], s)]
    BY <1>3 DEF Respond, Answerable, TypeOK, DuelTypes
  <2>2. replies[e] \in Seq({"ACTIVE", "DECLINED"})
    BY DEF TypeOK, DuelTypes
  <2>3. replies[e] = <<>>
    <3>1. Len(replies[e]) = 1 => replies[e][1] \in {"ACTIVE", "DECLINED"}
      BY <2>2
    <3>. QED
      BY <2>1, <3>1 DEF AnsweredOnce
  <2>4. /\ duels'[e].status = s
        /\ \A d \in DOMAIN duels \ {e} : duels'[d] = duels[d]
        /\ DOMAIN duels' = DOMAIN duels
    BY <2>1 DEF TypeOK, DuelTypes, Duel
  <2>5. /\ replies'[e] = <<s>>
        /\ \A d \in DuelIds \ {e} : replies'[d] = replies[d]
    BY <2>1, <2>3 DEF TypeOK, DuelTypes
  <2>6. DOMAIN duels \subseteq DuelIds
    BY DEF TypeOK, DuelTypes
  <2>7. AnsweredOnce'
    <3>1. ASSUME NEW d \in DOMAIN duels'
          PROVE  \/ Len(replies'[d]) = 1 /\ duels'[d].status = replies'[d][1]
                 \/ /\ replies'[d] = <<>>
                    /\ \/ duels'[d].status = "PENDING"
                       \/ duels'[d].status = "ACTIVE" /\ duels'[d].opponent \in Demo
      <4>1. CASE d = e
        <5>1. Len(replies'[d]) = 1 /\ replies'[d][1] = s
          BY <2>5, <4>1
        <5>. QED
          BY <2>4, <4>1, <5>1
      <4>2. CASE d # e
        BY <2>4, <2>5, <2>6, <4>2 DEF AnsweredOnce
      <4>. QED
        BY <4>1, <4>2
    <3>. QED
      BY <3>1 DEF AnsweredOnce
  <2>. QED
    BY <1>1, <2>1, <2>5, <2>7 DEF FreshUnanswered
<1>4. ASSUME NEW u \in People, DeleteAccount(u)
      PROVE  FreshUnanswered' /\ AnsweredOnce'
  BY <1>1, <1>4 DEF DeleteAccount, DuelDelete, Drop, FreshUnanswered, AnsweredOnce
<1>5. CASE UNCHANGED <<users, duels, replies>>
  BY <1>1, <1>5 DEF FreshUnanswered, AnsweredOnce
<1>. QED
  BY <1>2, <1>3, <1>4, <1>5, DuelSteps

LEMMA LogsFiniteStep ==
    ASSUME LogsFinite, TypeOK, [Next]_vars
    PROVE  LogsFinite'
<1>1. ASSUME NEW w \in Workers, InsertLog(w)
      PROVE  LogsFinite'
  <2>1. PICK l \in LogIds \ spent, row \in Log : logs' = Put(logs, l, row)
    BY <1>1, InsertedLog DEF TypeOK
  <2>2. DOMAIN logs' = DOMAIN logs \cup {l}
    BY <2>1 DEF Put
  <2>. QED
    BY <2>2, FS_AddElement DEF LogsFinite
<1>2. ASSUME NEW u \in People, DeleteAccount(u)
      PROVE  LogsFinite'
  <2>1. DOMAIN logs' \subseteq DOMAIN logs
    BY <1>2, DeletedLogs DEF DeleteAccount
  <2>. QED
    BY <2>1, FS_Subset DEF LogsFinite
<1>. QED
  BY <1>1, <1>2, LogSteps DEF LogsFinite

-----------------------------------------------------------------------------
LEMMA InitIInv == Init => IInv
<1>. SUFFICES ASSUME Init PROVE IInv
  OBVIOUS
<1>1. TypeOK
  BY InitTypeOK
<1>2. PICK d \in Demo :
        /\ ascents = Put(EmptyTable, Seeded,
                         [user |-> d, source |-> None, interest |-> None,
                          parent |-> None, status |-> "ACTIVE"])
        /\ logs = Put(EmptyTable, SeededLog, [ascent |-> Seeded, user |-> d, at |-> 0])
  BY DEF Init, AscentInit
<1>3. /\ DOMAIN ascents = {Seeded} /\ ascents[Seeded].user = d
      /\ ascents[Seeded].source = None
      /\ DOMAIN logs = {SeededLog} /\ logs[SeededLog].ascent = Seeded
      /\ logs[SeededLog].user = d
  BY <1>2 DEF Put, EmptyTable
<1>4. /\ users = Everyone /\ reactions = {} /\ invites = {} /\ answered = {}
      /\ avatars = {} /\ integrations = {} /\ devices = {}
      /\ DOMAIN friendships = {} /\ DOMAIN duels = {} /\ DOMAIN joined = {}
      /\ DOMAIN wishlists = {}
      /\ \A e \in DuelIds : replies[e] = <<>>
      /\ \A w \in Workers : call[w].at = "idle"
  BY DEF Init, SocialInit, AscentInit, DuelInit, BelongInit, EmptyTable, Idle
<1>5. LogsFinite
  BY <1>3, FS_Singleton DEF LogsFinite
<1>6. RowsBelong
  BY <1>3, <1>4 DEF RowsBelong, FriendRows, OwnerRows, LogRows, KudosRows, DuelRows,
     OwnRows, Everyone
<1>7. FollowingMet /\ CallsEntitled
  BY <1>4 DEF FollowingMet, CallsEntitled, Entitled
<1>8. ContactNeedsFriendship
  BY <1>4, ContactMet
<1>9. OnePerSource /\ AnswersStand /\ SameAscent
  BY <1>3, <1>4 DEF OnePerSource, AnswersStand, SameAscent
<1>10. FreshUnanswered /\ AnsweredOnce
  BY <1>4 DEF FreshUnanswered, AnsweredOnce
<1>. QED
  BY <1>1, <1>5, <1>6, <1>7, <1>8, <1>9, <1>10 DEF IInv

LEMMA IInvStep ==
    ASSUME IInv, [Next]_vars
    PROVE  IInv'
<1>1. TypeOK'
  BY TypeOKStep DEF IInv
<1>2. LogsFinite'
  BY LogsFiniteStep DEF IInv
<1>3. RowsBelong'
  BY FriendRowsStep, OwnerRowsStep, LogRowsStep, KudosRowsStep, DuelRowsStep, OwnRowsStep
     DEF IInv, RowsBelong
<1>4. FollowingMet' /\ CallsEntitled' /\ ContactNeedsFriendship'
  BY FriendRowsStep, CallsEntitledStep, ContactStep DEF IInv, RowsBelong
<1>5. OnePerSource' /\ AnswersStand' /\ SameAscent'
  BY OnePerSourceStep, AnswersStandStep, SameAscentStep DEF IInv, RowsBelong
<1>6. FreshUnanswered' /\ AnsweredOnce'
  BY AnsweredOnceStep DEF IInv
<1>. QED
  BY <1>1, <1>2, <1>3, <1>4, <1>5, <1>6 DEF IInv

LEMMA Invariance == Spec => []IInv
BY InitIInv, IInvStep, PTL DEF Spec

\* However many taps create an ascent of one explore item at once, and whatever
\* is deleted meanwhile, they are answered with one ascent (ascent.go:394).
THEOREM OneAscentPerItem == Spec => []SameAscent
<1>1. IInv => SameAscent
  BY DEF IInv
<1>. QED
  BY <1>1, Invariance, PTL

\* No row outlives the accounts it is of, and a log is its ascent's owner's,
\* although the check and the insert are statements apart (ascent.go:95).
THEOREM RowsOfAccounts == Spec => []RowsBelong
<1>1. IInv => RowsBelong
  BY DEF IInv
<1>. QED
  BY <1>1, Invariance, PTL

\* Kudos, invites and duels are only between people one of whom has accepted
\* the other, or with a demo climber (ascent.go:547, :568, duel.go:36).
THEOREM MetBeforeContact == Spec => []ContactNeedsFriendship
<1>1. IInv => ContactNeedsFriendship
  BY DEF IInv
<1>. QED
  BY <1>1, Invariance, PTL

\* A duel keeps its first answer (duel.go:129).
THEOREM OneAnswerPerDuel == Spec => []AnsweredOnce
<1>1. IInv => AnsweredOnce
  BY DEF IInv
<1>. QED
  BY <1>1, Invariance, PTL
=============================================================================
