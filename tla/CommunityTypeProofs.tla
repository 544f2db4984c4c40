------------------------- MODULE CommunityTypeProofs -------------------------
(***************************************************************************)
(* Proofs about the members' side, for all sets of accounts, items and ids *)
(* and any number of workers: what each step writes, and that every table  *)
(* and every call keeps its type.                                          *)
(***************************************************************************)
EXTENDS Community, TableLemmas

-----------------------------------------------------------------------------
(* What a step writes.                                                     *)

\* Steps that write no table: only a call goes on.
Quiet ==
    /\ UNCHANGED <<users, friendships, befriended>>
    /\ UNCHANGED ascentVars /\ UNCHANGED duelVars /\ UNCHANGED belongVars

AscentWrite ==
    /\ \/ \E u \in People : \/ \E s \in Sources : CreateAgain(u, s)
                            \/ \E a \in AscentIds : Summit(u, a)
       \/ \E w \in Workers :
             \/ InsertAscent(w) \/ InsertConflicts(w) \/ InsertLog(w)
             \/ React(w) \/ Unreact(w) \/ InsertInvite(w)
       \/ Tick
    /\ UNCHANGED <<users, friendships, befriended>>
    /\ UNCHANGED duelVars /\ UNCHANGED belongVars

DuelWrite ==
    /\ \/ \E w \in Workers : InsertDuel(w)
       \/ \E u \in People, d \in DuelIds, s \in {"ACTIVE", "DECLINED"} :
             Respond(u, d, s)
       \/ \E u \in People, c \in Challenges, yes \in BOOLEAN :
             SetJoined(u, c, yes)
    /\ UNCHANGED <<users, friendships, befriended>>
    /\ UNCHANGED <<ascents, logs, reactions, invites, now, answered>>
    /\ UNCHANGED belongVars

BelongWrite ==
    /\ \E u \in People :
          \/ \E i \in Items, s \in Snapshots : AddWish(u, i, s)
          \/ \E i \in WishIds : RemoveWish(u, i)
          \/ \E i \in WishIds, p \in Plans \cup {NoPlan} : UpdatePlan(u, i, p)
          \/ \E w \in Workers, p \in Apps : Connect(w, u, p) \/ Disconnect(w, u, p)
          \/ \E t \in Tokens : RegisterDevice(u, t)
          \/ SetAvatar(u)
    /\ UNCHANGED <<users, friendships, befriended>>
    /\ UNCHANGED ascentVars /\ UNCHANGED duelVars

FriendWrite ==
    /\ \E p \in Asked, s \in {"REQUESTED", "FOLLOWING"} : SetStatus(p[1], p[2], s)
    /\ UNCHANGED ascentVars /\ UNCHANGED duelVars /\ UNCHANGED belongVars

\* Every step writes the tables of one part, or none, or deletes an account.
LEMMA StepCases ==
    ASSUME [Next]_vars
    PROVE  \/ Quiet \/ FriendWrite \/ AscentWrite \/ DuelWrite \/ BelongWrite
           \/ \E u \in People : DeleteAccount(u)
<1>1. CASE SocialActs
  BY <1>1 DEF SocialActs, Request, Accept, Fail, FriendWrite, Quiet
<1>2. CASE AscentActs
  <2>1. ASSUME NEW w \in Workers, AscentStep(w)
        PROVE  Quiet \/ AscentWrite
    BY <1>2, <2>1 DEF AscentActs, AscentStep, InsertAscent, InsertConflicts,
       InsertLog, React, Unreact, InsertInvite, RequireFriend, Quiet, AscentWrite
  <2>2. ASSUME NEW u \in People,
               \/ \E a \in AscentIds : Summit(u, a)
               \/ \E s \in Sources : CreateAgain(u, s)
        PROVE  AscentWrite
    BY <1>2, <2>2 DEF AscentActs, AscentWrite, Summit, CreateAgain, socialVars
  <2>3. ASSUME NEW w \in Workers, NEW u \in People,
               \/ \E s \in Sources \cup {None}, i \in Interests \cup {None},
                     p \in Parents : Create(w, u, s, i, p)
               \/ \E a \in AscentIds : AddLog(w, u, a)
        PROVE  Quiet
    BY <1>2, <2>3 DEF AscentActs, Quiet, Create, AddLog
  <2>. QED
    BY <1>2, <2>1, <2>2, <2>3 DEF AscentActs
<1>3. CASE KudosActs
  BY <1>3 DEF KudosActs, MutateReaction, Invite, Quiet
<1>4. CASE DuelActs
  <2>1. ASSUME NEW w \in Workers,
               \/ \E u \in People, o \in Opponents, i \in Interests \cup {None} :
                     CreateDuel(w, u, o, i)
               \/ DuelStep(w)
        PROVE  Quiet \/ DuelWrite
    BY <1>4, <2>1 DEF DuelActs, DuelStep, CreateDuel, CheckDemo, ListCreated,
       InsertDuel, Quiet, DuelWrite
  <2>2. ASSUME NEW u \in People,
               \/ \E d \in DuelIds, s \in {"ACTIVE", "DECLINED"} : Respond(u, d, s)
               \/ \E c \in Challenges, yes \in BOOLEAN : SetJoined(u, c, yes)
        PROVE  DuelWrite
    BY <1>4, <2>2 DEF DuelActs, Respond, SetJoined, socialVars, ascentVars, DuelWrite
  <2>. QED
    BY <1>4, <2>1, <2>2 DEF DuelActs
<1>5. CASE TimeActs
  BY <1>5 DEF TimeActs, Tick, socialVars, AscentWrite
<1>6. CASE BelongActs
  BY <1>6 DEF BelongActs, AddWish, RemoveWish, UpdatePlan, Connect, Disconnect,
     ListApps, RegisterDevice, SetAvatar, socialVars, BelongWrite, Quiet
<1>7. CASE UNCHANGED vars
  BY <1>7 DEF vars, socialVars, Quiet, ascentVars, duelVars, belongVars
<1>. QED
  BY <1>1, <1>2, <1>3, <1>4, <1>5, <1>6, <1>7 DEF Next

\* What a step does to the calls: at most one worker goes on, to one of the
\* statements named here, or is idle again.
LEMMA CallCases ==
    ASSUME [Next]_vars
    PROVE  \/ UNCHANGED call
           \/ \E w \in Workers :
                 \/ Answer(w)
                 \/ \E u \in People :
                       \/ \E s \in Sources \cup {None}, i \in Interests \cup {None},
                             p \in Parents : Create(w, u, s, i, p)
                       \/ \E a \in AscentIds : AddLog(w, u, a)
                       \/ \E l \in LogIds, op \in {"react", "unreact"} :
                             MutateReaction(w, u, l, op)
                       \/ \E f \in Everyone, a \in AscentIds : Invite(w, u, f, a)
                       \/ \E o \in Opponents, i \in Interests \cup {None} :
                             CreateDuel(w, u, o, i)
                       \/ Go(w, [at |-> "apps", user |-> u])
                 \/ RequireFriend(w) \/ CheckDemo(w) \/ InsertDuel(w)
<1>1. CASE SocialActs
  BY <1>1 DEF SocialActs, Request, Accept, SetStatus, Fail
<1>2. CASE AscentActs
  BY <1>2 DEF AscentActs, AscentStep, InsertAscent, InsertConflicts, InsertLog,
     React, Unreact, InsertInvite, Summit, CreateAgain, socialVars
<1>3. CASE KudosActs
  BY <1>3 DEF KudosActs
<1>4. CASE DuelActs
  BY <1>4 DEF DuelActs, DuelStep, ListCreated, Respond, SetJoined, socialVars
<1>5. CASE TimeActs
  BY <1>5 DEF TimeActs, Tick, socialVars
<1>6. CASE BelongActs
  BY <1>6 DEF BelongActs, AddWish, RemoveWish, UpdatePlan, Connect, Disconnect,
     ListApps, RegisterDevice, SetAvatar, socialVars
<1>7. CASE UNCHANGED vars
  BY <1>7 DEF vars, socialVars
<1>8. CASE \E u \in People : DeleteAccount(u)
  BY <1>8 DEF DeleteAccount, SocialDelete
<1>. QED
  BY <1>1, <1>2, <1>3, <1>4, <1>5, <1>6, <1>7, <1>8 DEF Next

-----------------------------------------------------------------------------
(* Types.                                                                  *)

LEMMA SocialTypesStep ==
    ASSUME SocialTypes, [Next]_vars
    PROVE  SocialTypes'
<1>1. CASE UNCHANGED <<users, friendships, befriended>>
  BY <1>1 DEF SocialTypes
<1>2. ASSUME NEW p \in Asked, NEW s \in {"REQUESTED", "FOLLOWING"},
             SetStatus(p[1], p[2], s)
      PROVE  SocialTypes'
  <2>1. <<p[1], p[2]>> \in People \X Everyone /\ {p[1], p[2]} \in SUBSET Everyone
    BY AskedAssumption DEF Everyone
  <2>. DEFINE left == Put(friendships, <<p[1], p[2]>>, s)
  <2>2. /\ DOMAIN left \subseteq People \X Everyone
        /\ left \in [DOMAIN left -> {"REQUESTED", "FOLLOWING"}]
    BY <2>1 DEF SocialTypes, Put
  <2>3. users' = users /\ befriended' \subseteq SUBSET Everyone
    BY <1>2, <2>1 DEF SetStatus, SocialTypes
  <2>4. friendships' = left
    BY <1>2 DEF SetStatus
  <2>. QED
    BY <2>2, <2>3, <2>4 DEF SocialTypes
<1>3. ASSUME NEW u \in People, SocialDelete(u)
      PROVE  SocialTypes'
  <2>1. /\ DOMAIN friendships' \subseteq People \X Everyone
        /\ friendships' \in [DOMAIN friendships' -> {"REQUESTED", "FOLLOWING"}]
    BY <1>3, DropType DEF SocialDelete, SocialTypes
  <2>. QED
    BY <1>3, <2>1 DEF SocialDelete, SocialTypes
<1>. QED
  BY <1>1, <1>2, <1>3, StepCases
     DEF Quiet, FriendWrite, AscentWrite, DuelWrite, BelongWrite, DeleteAccount

\* The fields of the calls at each statement.
LEMMA CallFields ==
    ASSUME NEW c \in Calls \cup {Idle}
    PROVE  /\ c.at = "insert" =>
                /\ c.user \in People /\ c.source \in Sources \cup {None}
                /\ c.interest \in Interests \cup {None}
                /\ c.parent \in AscentIds \cup {None}
           /\ c.at = "log" =>
                c.user \in People /\ c.ascent \in AscentIds /\ c.stamp \in 0..MaxTime
           /\ c.at \in {"visible", "react", "unreact"} =>
                /\ c.user \in People /\ c.log \in LogIds /\ c.owner \in Everyone
                /\ c.op \in {"react", "unreact"}
           /\ c.at = "invite" =>
                c.user \in People /\ c.friend \in Everyone /\ c.ascent \in AscentIds
           /\ c.at \in {"demo", "duel"} =>
                /\ c.user \in People /\ c.opponent \in Everyone
                /\ c.interest \in Interests \cup {None}
           /\ c.at = "duel" => c.status \in {"PENDING", "ACTIVE"}
BY DEF Calls, Idle

LEMMA CallTypesStep ==
    ASSUME SocialTypes, CallTypes, AscentTypes, [Next]_vars
    PROVE  CallTypes'
<1>1. ASSUME NEW w \in Workers, NEW c \in Calls \cup {Idle}, Go(w, c)
      PROVE  CallTypes'
  BY <1>1 DEF CallTypes, Go
<1>2. ASSUME NEW w \in Workers, Answer(w)
      PROVE  CallTypes'
  BY <1>1, <1>2 DEF Answer
<1>3. ASSUME NEW w \in Workers, NEW u \in People, NEW s \in Sources \cup {None},
             NEW i \in Interests \cup {None}, NEW p \in Parents, Create(w, u, s, i, p)
      PROVE  CallTypes'
  <2>1. [at |-> "insert", user |-> u, source |-> s, interest |-> i, parent |-> p]
           \in Calls
    BY ParentAssumption DEF Calls
  <2>. QED
    BY <1>1, <1>3, <2>1 DEF Create
<1>4. ASSUME NEW w \in Workers, NEW u \in People, NEW a \in AscentIds, AddLog(w, u, a)
      PROVE  CallTypes'
  <2>1. [at |-> "log", user |-> u, ascent |-> a, stamp |-> now] \in Calls
    BY DEF Calls, AscentTypes
  <2>. QED
    BY <1>1, <1>4, <2>1 DEF AddLog
<1>5. ASSUME NEW w \in Workers, NEW u \in People, NEW l \in LogIds,
             NEW op \in {"react", "unreact"}, MutateReaction(w, u, l, op)
      PROVE  CallTypes'
  <2>1. logs[l].user \in Everyone
    BY <1>5 DEF MutateReaction, AscentTypes, Log
  <2>2. [at |-> IF logs[l].user = u THEN op ELSE "visible", user |-> u, log |-> l,
         owner |-> logs[l].user, op |-> op] \in Calls
    BY <2>1 DEF Calls
  <2>. QED
    BY <1>1, <1>5, <2>2 DEF MutateReaction
<1>6. ASSUME NEW w \in Workers, NEW u \in People, NEW f \in Everyone,
             NEW a \in AscentIds, Invite(w, u, f, a)
      PROVE  CallTypes'
  <2>1. [at |-> "invite", user |-> u, friend |-> f, ascent |-> a] \in Calls
    BY DEF Calls
  <2>. QED
    BY <1>1, <1>6, <2>1 DEF Invite
<1>7. ASSUME NEW w \in Workers, NEW u \in People, NEW o \in Opponents,
             NEW i \in Interests \cup {None}, CreateDuel(w, u, o, i)
      PROVE  CallTypes'
  <2>1. [at |-> "demo", user |-> u, opponent |-> o, interest |-> i] \in Calls
    BY OpponentAssumption DEF Calls
  <2>. QED
    BY <1>1, <1>7, <2>1 DEF CreateDuel
<1>8. ASSUME NEW w \in Workers, NEW u \in People, Go(w, [at |-> "apps", user |-> u])
      PROVE  CallTypes'
  <2>1. [at |-> "apps", user |-> u] \in Calls
    BY DEF Calls
  <2>. QED
    BY <1>1, <1>8, <2>1
<1>9. ASSUME NEW w \in Workers, RequireFriend(w)
      PROVE  CallTypes'
  <2>. DEFINE c == call[w]
  <2>1. c \in [at : {"visible", "react", "unreact"}, user : People, log : LogIds,
               owner : Everyone, op : {"react", "unreact"}]
    BY <1>9 DEF RequireFriend, At, CallTypes, Calls, Idle
  <2>2. [c EXCEPT !.at = c.op] \in Calls
    BY <2>1 DEF Calls
  <2>. QED
    BY <1>1, <1>9, <2>2 DEF RequireFriend
<1>10. ASSUME NEW w \in Workers, CheckDemo(w)
       PROVE  CallTypes'
  <2>. DEFINE c == call[w]
  <2>1. c \in Calls \cup {Idle} /\ c.at = "demo"
    BY <1>10 DEF CallTypes, CheckDemo, At
  <2>2. PICK status \in {"PENDING", "ACTIVE"} :
             Go(w, [at |-> "duel", user |-> c.user, status |-> status,
                    opponent |-> c.opponent, interest |-> c.interest])
    BY <1>10 DEF CheckDemo
  <2>3. [at |-> "duel", user |-> c.user, status |-> status,
         opponent |-> c.opponent, interest |-> c.interest] \in Calls
    BY <2>1, CallFields DEF Calls
  <2>. QED
    BY <1>1, <2>2, <2>3
<1>11. ASSUME NEW w \in Workers, InsertDuel(w)
       PROVE  CallTypes'
  <2>. DEFINE c == call[w]
  <2>1. c \in Calls \cup {Idle} /\ c.at = "duel"
    BY <1>11 DEF CallTypes, InsertDuel, At
  <2>2. PICK d \in DuelIds : Go(w, [at |-> "listed", user |-> c.user, duel |-> d])
    BY <1>11 DEF InsertDuel
  <2>3. [at |-> "listed", user |-> c.user, duel |-> d] \in Calls
    BY <2>1, CallFields DEF Calls
  <2>. QED
    BY <1>1, <2>2, <2>3
<1>12. CASE UNCHANGED call
  BY <1>12 DEF CallTypes
<1>. QED
  BY <1>2, <1>3, <1>4, <1>5, <1>6, <1>7, <1>8, <1>9, <1>10, <1>11, <1>12, CallCases

\* The row that the INSERT of a create stores.
LEMMA InsertedAscent ==
    ASSUME CallTypes, NEW w \in Workers, InsertAscent(w)
    PROVE  \E a \in AscentIds \ spent, row \in Ascent :
              /\ row.user = call[w].user /\ row.user \in users \cap People
              /\ row.source = call[w].source
              /\ ~Taken(row.user, row.source)
              /\ ascents' = Put(ascents, a, row)
              /\ spent' = spent \cup {a}
              /\ answered' = IF row.source = None THEN answered
                             ELSE answered \cup {<<row.user, row.source, a>>}
              /\ UNCHANGED <<logs, reactions, invites, now>>
<1>. DEFINE c == call[w]
            row == [user |-> c.user, source |-> c.source, interest |-> c.interest,
                    parent |-> c.parent, status |-> "ACTIVE"]
<1>1. c \in Calls \cup {Idle} /\ c.at = "insert"
  BY DEF CallTypes, InsertAscent, At
<1>2. row \in Ascent /\ c.user \in People
  BY <1>1, CallFields DEF Ascent, Statuses, Everyone
<1>3. row.user = c.user /\ row.source = c.source
  OBVIOUS
<1>4. \E a \in AscentIds \ spent :
         /\ ascents' = Put(ascents, a, row)
         /\ spent' = spent \cup {a}
         /\ answered' = IF c.source = None THEN answered
                        ELSE answered \cup {<<c.user, c.source, a>>}
  BY DEF InsertAscent
<1>5. /\ c.user \in users /\ ~Taken(c.user, c.source)
      /\ UNCHANGED <<logs, reactions, invites, now>>
  BY DEF InsertAscent
<1>. QED
  BY <1>2, <1>3, <1>4, <1>5

\* The row that the INSERT of a log stores.
LEMMA InsertedLog ==
    ASSUME CallTypes, NEW w \in Workers, InsertLog(w)
    PROVE  \E l \in LogIds \ spent, row \in Log :
              /\ row.ascent = call[w].ascent /\ row.ascent \in DOMAIN ascents
              /\ row.user = call[w].user /\ row.user \in users \cap People
              /\ row.at = call[w].stamp
              /\ logs' = Put(logs, l, row)
              /\ spent' = spent \cup {l}
              /\ UNCHANGED <<ascents, reactions, invites, now, answered>>
<1>. DEFINE c == call[w]
            row == [ascent |-> c.ascent, user |-> c.user, at |-> c.stamp]
<1>1. c \in Calls \cup {Idle} /\ c.at = "log"
  BY DEF CallTypes, InsertLog, At
<1>2. row \in Log /\ c.user \in People
  BY <1>1, CallFields DEF Log, Everyone
<1>3. row.ascent = c.ascent /\ row.user = c.user /\ row.at = c.stamp
  OBVIOUS
<1>. QED
  BY <1>2, <1>3 DEF InsertLog

\* The row that the INSERT of a duel stores, and its window.
LEMMA InsertedDuel ==
    ASSUME CallTypes, AscentTypes, NEW w \in Workers, InsertDuel(w)
    PROVE  \E d \in DuelIds \ spent, row \in Duel :
              /\ row.challenger = call[w].user /\ row.opponent = call[w].opponent
              /\ {row.challenger, row.opponent} \subseteq users
              /\ row.status = call[w].status
              /\ row.starts = now /\ row.ends = now + Days
              /\ duels' = Put(duels, d, row)
              /\ spent' = spent \cup {d}
              /\ UNCHANGED <<joined, replies>>
<1>. DEFINE c == call[w]
            row == [challenger |-> c.user, opponent |-> c.opponent,
                    interest |-> c.interest, starts |-> now, ends |-> Ends,
                    status |-> c.status]
<1>1. c \in Calls \cup {Idle} /\ c.at = "duel"
  BY DEF CallTypes, InsertDuel, At
<1>2. Ends \in 0..(MaxTime + Days) /\ now \in 0..MaxTime /\ Ends = now + Days
  BY TimeAssumption, DaysAssumption DEF AscentTypes, Ends
<1>3. row \in Duel
  BY <1>1, <1>2, CallFields DEF Duel, Everyone
<1>4. /\ row.challenger = c.user /\ row.opponent = c.opponent
      /\ row.status = c.status /\ row.starts = now /\ row.ends = now + Days
  BY <1>2
<1>5. \E d \in DuelIds \ spent : duels' = Put(duels, d, row) /\ spent' = spent \cup {d}
  BY DEF InsertDuel
<1>6. {c.user, c.opponent} \subseteq users /\ UNCHANGED <<joined, replies>>
  BY DEF InsertDuel
<1>. QED
  BY <1>3, <1>4, <1>5, <1>6

\* What the deletion of u leaves of the ascents: all but u's own, without the
\* parents that went.
LEMMA DeletedAscents ==
    ASSUME AscentTypes, NEW u \in People, AscentDelete(u)
    PROVE  /\ DOMAIN ascents' = {a \in DOMAIN ascents : ascents[a].user # u}
           /\ ascents' \in [DOMAIN ascents' -> Ascent]
           /\ \A a \in DOMAIN ascents' : /\ ascents'[a].user = ascents[a].user
                                         /\ ascents'[a].source = ascents[a].source
                                         /\ ascents'[a].interest = ascents[a].interest
<1>. DEFINE gone == AscentsOf(u)
            left == Drop(ascents, gone)
            cut == [a \in DOMAIN left |->
                      IF left[a].parent \in gone
                      THEN [left[a] EXCEPT !.parent = None] ELSE left[a]]
<1>1. /\ DOMAIN left = {a \in DOMAIN ascents : ascents[a].user # u}
      /\ \A a \in DOMAIN left : left[a] = ascents[a] /\ left[a] \in Ascent
  BY DEF Drop, AscentTypes, AscentsOf
<1>2. ASSUME NEW a \in DOMAIN left
      PROVE  /\ cut[a] \in Ascent /\ cut[a].user = left[a].user
             /\ cut[a].source = left[a].source /\ cut[a].interest = left[a].interest
  <2>1. left[a] \in Ascent
    BY <1>1
  <2>2. /\ [left[a] EXCEPT !.parent = None] \in Ascent
        /\ [left[a] EXCEPT !.parent = None].user = left[a].user
        /\ [left[a] EXCEPT !.parent = None].source = left[a].source
        /\ [left[a] EXCEPT !.parent = None].interest = left[a].interest
    BY <2>1 DEF Ascent
  <2>. QED
    BY <2>1, <2>2
<1>3. ascents' = cut
  BY DEF AscentDelete
<1>4. DOMAIN cut = DOMAIN left /\ cut \in [DOMAIN cut -> Ascent]
  BY <1>2
<1>. QED
  BY <1>1, <1>2, <1>3, <1>4

LEMMA AscentTypesStep ==
    ASSUME CallTypes, AscentTypes, [Next]_vars
    PROVE  AscentTypes'
<1>1. ASSUME NEW w \in Workers, InsertAscent(w)
      PROVE  AscentTypes'
  <2>1. PICK a \in AscentIds \ spent, row \in Ascent :
           /\ row.user = call[w].user /\ row.user \in users \cap People
           /\ row.source = call[w].source
           /\ ~Taken(row.user, row.source)
           /\ ascents' = Put(ascents, a, row)
           /\ spent' = spent \cup {a}
           /\ answered' = IF row.source = None THEN answered
                          ELSE answered \cup {<<row.user, row.source, a>>}
           /\ UNCHANGED <<logs, reactions, invites, now>>
    BY <1>1, InsertedAscent
  <2>2. /\ DOMAIN Put(ascents, a, row) \subseteq AscentIds \cap spent'
        /\ Put(ascents, a, row) \in [DOMAIN Put(ascents, a, row) -> Ascent]
    BY <2>1 DEF AscentTypes, Put
  <2>3. row.source # None => row.source \in Sources
    BY DEF Ascent
  <2>. QED
    BY <2>1, <2>2, <2>3 DEF AscentTypes
<1>2. ASSUME NEW w \in Workers, InsertLog(w)
      PROVE  AscentTypes'
  <2>1. PICK l \in LogIds \ spent, row \in Log :
           /\ logs' = Put(logs, l, row)
           /\ spent' = spent \cup {l}
           /\ UNCHANGED <<ascents, reactions, invites, now, answered>>
    BY <1>2, InsertedLog
  <2>2. /\ DOMAIN Put(logs, l, row) \subseteq LogIds \cap spent'
        /\ Put(logs, l, row) \in [DOMAIN Put(logs, l, row) -> Log]
    BY <2>1 DEF AscentTypes, Put
  <2>. QED
    BY <2>1, <2>2 DEF AscentTypes
<1>3. ASSUME NEW w \in Workers, InsertConflicts(w)
      PROVE  AscentTypes'
  <2>. DEFINE c == call[w]
  <2>1. c \in Calls \cup {Idle} /\ c.at = "insert" /\ c.source # None
    BY <1>3 DEF CallTypes, InsertConflicts, At, Taken
  <2>2. <<c.user, c.source, None>> \in People \X Sources \X (AscentIds \cup {None})
    BY <2>1, CallFields
  <2>3. /\ answered' = answered \cup {<<c.user, c.source, None>>}
        /\ UNCHANGED <<ascents, logs, reactions, invites, spent, now>>
    BY <1>3 DEF InsertConflicts
  <2>. QED
    BY <2>2, <2>3 DEF AscentTypes
<1>4. ASSUME NEW w \in Workers, React(w) \/ Unreact(w)
      PROVE  AscentTypes'
  <2>. DEFINE c == call[w]
  <2>1. c \in Calls \cup {Idle} /\ c.at \in {"react", "unreact"}
    BY <1>4 DEF CallTypes, React, Unreact, At
  <2>2. <<c.log, c.user>> \in LogIds \X People
    BY <2>1, CallFields
  <2>3. /\ reactions' \subseteq reactions \cup {<<c.log, c.user>>}
        /\ UNCHANGED <<ascents, logs, invites, spent, now, answered>>
    BY <1>4 DEF React, Unreact
  <2>. QED
    BY <2>2, <2>3 DEF AscentTypes
<1>5. ASSUME NEW w \in Workers, InsertInvite(w)
      PROVE  AscentTypes'
  <2>. DEFINE c == call[w]
  <2>1. c \in Calls \cup {Idle} /\ c.at = "invite"
    BY <1>5 DEF CallTypes, InsertInvite, At
  <2>2. <<c.user, c.friend, c.ascent>> \in People \X Everyone \X AscentIds
    BY <2>1, CallFields
  <2>3. /\ invites' = invites \cup {<<c.user, c.friend, c.ascent>>}
        /\ UNCHANGED <<ascents, logs, reactions, spent, now, answered>>
    BY <1>5 DEF InsertInvite
  <2>. QED
    BY <2>2, <2>3 DEF AscentTypes
<1>6. ASSUME NEW u \in People, NEW a \in AscentIds, Summit(u, a)
      PROVE  AscentTypes'
  <2>1. a \in DOMAIN ascents
    BY <1>6 DEF Summit, AscentsOf
  <2>2. [ascents[a] EXCEPT !.status = "SUMMITED"] \in Ascent
    BY <2>1 DEF AscentTypes, Ascent, Statuses
  <2>3. ascents' = [ascents EXCEPT ![a] = [ascents[a] EXCEPT !.status = "SUMMITED"]]
    BY <1>6 DEF Summit
  <2>4. DOMAIN ascents' = DOMAIN ascents /\ ascents' \in [DOMAIN ascents' -> Ascent]
    BY <2>1, <2>2, <2>3 DEF AscentTypes
  <2>. QED
    BY <1>6, <2>4 DEF Summit, AscentTypes
<1>7. ASSUME NEW u \in People, NEW s \in Sources, CreateAgain(u, s)
      PROVE  AscentTypes'
  <2>1. PICK a \in BySource(u, s) : answered' = answered \cup {<<u, s, a>>}
    BY <1>7 DEF CreateAgain
  <2>2. <<u, s, a>> \in People \X Sources \X (AscentIds \cup {None})
    BY DEF BySource, AscentsOf, AscentTypes
  <2>. QED
    BY <1>7, <2>1, <2>2 DEF CreateAgain, AscentTypes
<1>8. CASE Tick
  <2>1. now' \in 0..MaxTime
    BY <1>8, TimeAssumption DEF Tick, AscentTypes
  <2>. QED
    BY <1>8, <2>1 DEF Tick, AscentTypes
<1>9. ASSUME NEW w \in Workers, InsertDuel(w),
             UNCHANGED <<ascents, logs, reactions, invites, now, answered>>
      PROVE  AscentTypes'
  BY <1>9 DEF InsertDuel, AscentTypes
<1>10. ASSUME NEW u \in People, AscentDelete(u)
       PROVE  AscentTypes'
  <2>1. /\ DOMAIN ascents' \subseteq DOMAIN ascents
        /\ ascents' \in [DOMAIN ascents' -> Ascent]
    BY <1>10, DeletedAscents
  <2>2. /\ DOMAIN logs' \subseteq DOMAIN logs
        /\ logs' \in [DOMAIN logs' -> Log]
    BY <1>10 DEF AscentDelete, AscentTypes, Drop
  <2>3. reactions' \subseteq reactions /\ invites' \subseteq invites
        /\ UNCHANGED <<spent, now, answered>>
    BY <1>10 DEF AscentDelete
  <2>. QED
    BY <2>1, <2>2, <2>3 DEF AscentTypes
<1>11. ASSUME UNCHANGED ascentVars
       PROVE  AscentTypes'
  BY <1>11 DEF ascentVars, AscentTypes
<1>12. ASSUME DuelWrite
       PROVE  AscentTypes'
  BY <1>9, <1>11, <1>12 DEF DuelWrite, Respond, SetJoined, ascentVars
<1>13. ASSUME AscentWrite
       PROVE  AscentTypes'
  BY <1>1, <1>2, <1>3, <1>4, <1>5, <1>6, <1>7, <1>8, <1>13 DEF AscentWrite
<1>. QED
  BY <1>10, <1>11, <1>12, <1>13, StepCases
     DEF Quiet, FriendWrite, BelongWrite, DeleteAccount

LEMMA DuelTypesStep ==
    ASSUME CallTypes, AscentTypes, DuelTypes, [Next]_vars
    PROVE  DuelTypes'
<1>1. spent \subseteq spent'
  BY StepCases DEF Quiet, FriendWrite, AscentWrite, DuelWrite, BelongWrite, ascentVars,
     DeleteAccount, AscentDelete, CreateAgain, Summit, InsertAscent, InsertConflicts,
     InsertLog, React, Unreact, InsertInvite, Tick, InsertDuel, Respond, SetJoined
<1>2. ASSUME NEW w \in Workers, InsertDuel(w)
      PROVE  DuelTypes'
  <2>1. PICK d \in DuelIds \ spent, row \in Duel :
           /\ duels' = Put(duels, d, row)
           /\ spent' = spent \cup {d}
           /\ UNCHANGED <<joined, replies>>
    BY <1>2, InsertedDuel
  <2>2. /\ DOMAIN Put(duels, d, row) \subseteq DuelIds \cap spent'
        /\ Put(duels, d, row) \in [DOMAIN Put(duels, d, row) -> Duel]
    BY <2>1 DEF DuelTypes, Put
  <2>. QED
    BY <2>1, <2>2 DEF DuelTypes
<1>3. ASSUME NEW u \in People, NEW d \in DuelIds, NEW s \in {"ACTIVE", "DECLINED"},
             Respond(u, d, s)
      PROVE  DuelTypes'
  <2>1. [duels[d] EXCEPT !.status = s] \in Duel /\ d \in DOMAIN duels
    BY <1>3 DEF Respond, DuelTypes, Duel
  <2>2. duels' = [duels EXCEPT ![d] = [duels[d] EXCEPT !.status = s]]
    BY <1>3 DEF Respond
  <2>3. DOMAIN duels' = DOMAIN duels /\ duels' \in [DOMAIN duels' -> Duel]
    BY <2>1, <2>2 DEF DuelTypes
  <2>4. replies' \in [DuelIds -> Seq({"ACTIVE", "DECLINED"})]
    BY <1>3 DEF Respond, DuelTypes
  <2>5. spent' = spent /\ joined' = joined
    BY <1>3 DEF Respond, ascentVars
  <2>. QED
    BY <2>3, <2>4, <2>5 DEF DuelTypes
<1>4. ASSUME NEW u \in People, NEW c \in Challenges, NEW yes \in BOOLEAN,
             SetJoined(u, c, yes)
      PROVE  DuelTypes'
  <2>. DEFINE t == Put(joined, <<u, c>>, yes)
  <2>1. DOMAIN t \subseteq People \X Challenges /\ t \in [DOMAIN t -> BOOLEAN]
    BY DEF DuelTypes, Put
  <2>2. joined' = t
    BY <1>4 DEF SetJoined
  <2>3. UNCHANGED <<duels, replies, spent>>
    BY <1>4 DEF SetJoined, ascentVars
  <2>. QED
    BY <2>1, <2>2, <2>3 DEF DuelTypes
<1>5. ASSUME NEW u \in People, DuelDelete(u)
      PROVE  DuelTypes'
  BY <1>1, <1>5 DEF DuelDelete, DuelTypes, Drop
<1>6. ASSUME UNCHANGED duelVars
      PROVE  DuelTypes'
  BY <1>1, <1>6 DEF duelVars, DuelTypes
<1>. QED
  BY <1>2, <1>3, <1>4, <1>5, <1>6, StepCases
     DEF Quiet, FriendWrite, AscentWrite, BelongWrite, DuelWrite, DeleteAccount

LEMMA BelongTypesStep ==
    ASSUME BelongTypes, [Next]_vars
    PROVE  BelongTypes'
<1>1. ASSUME NEW i \in DOMAIN wishlists, NEW row \in Wish,
             wishlists' = [wishlists EXCEPT ![i] = row],
             UNCHANGED <<wished, integrations, devices, avatars>>
      PROVE  BelongTypes'
  BY <1>1 DEF BelongTypes
<1>2. ASSUME NEW u \in People, NEW item \in Items, NEW s \in Snapshots,
             AddWish(u, item, s)
      PROVE  BelongTypes'
  <2>1. ASSUME NEW i \in WishesOf(u),
               wishlists' = [wishlists EXCEPT ![i] = UpdatedWish(u, i, s)],
               UNCHANGED wished
        PROVE  BelongTypes'
    <3>1. i \in DOMAIN wishlists /\ UpdatedWish(u, i, s) \in Wish
      BY DEF WishesOf, UpdatedWish, BelongTypes, Wish
    <3>. QED
      BY <1>1, <1>2, <2>1, <3>1 DEF AddWish
  <2>2. ASSUME NEW i \in WishIds \ wished,
               wishlists' = Put(wishlists, i, NewWish(u, item, s)),
               wished' = wished \cup {i}
        PROVE  BelongTypes'
    <3>. DEFINE row == NewWish(u, item, s)
    <3>1. row \in Wish
      BY DEF NewWish, Wish
    <3>2. /\ DOMAIN Put(wishlists, i, row) \subseteq wished'
          /\ Put(wishlists, i, row) \in [DOMAIN Put(wishlists, i, row) -> Wish]
      BY <2>2, <3>1 DEF BelongTypes, Put
    <3>. QED
      BY <1>2, <2>2, <3>2 DEF AddWish, BelongTypes
  <2>. QED
    BY <1>2, <2>1, <2>2 DEF AddWish
<1>3. ASSUME NEW u \in People, NEW i \in WishIds, NEW p \in Plans \cup {NoPlan},
             UpdatePlan(u, i, p)
      PROVE  BelongTypes'
  <2>1. i \in DOMAIN wishlists /\ UpdatedPlan(i, p) \in Wish
    BY <1>3 DEF UpdatePlan, WishesOf, UpdatedPlan, BelongTypes, Wish
  <2>. QED
    BY <1>1, <1>3, <2>1 DEF UpdatePlan
<1>4. ASSUME NEW u \in People, NEW i \in WishIds, RemoveWish(u, i)
      PROVE  BelongTypes'
  BY <1>4 DEF RemoveWish, BelongTypes, Drop
<1>5. ASSUME NEW u \in People, NEW w \in Workers, NEW p \in Apps,
             Connect(w, u, p) \/ Disconnect(w, u, p)
      PROVE  BelongTypes'
  BY <1>5 DEF Connect, Disconnect, BelongTypes
<1>6. ASSUME NEW u \in People, NEW t \in Tokens, RegisterDevice(u, t)
      PROVE  BelongTypes'
  BY <1>6 DEF RegisterDevice, BelongTypes
<1>7. ASSUME NEW u \in People, SetAvatar(u)
      PROVE  BelongTypes'
  BY <1>7 DEF SetAvatar, BelongTypes
<1>8. ASSUME NEW u \in People, BelongDelete(u)
      PROVE  BelongTypes'
  BY <1>8 DEF BelongDelete, BelongTypes, Drop
<1>9. ASSUME UNCHANGED belongVars
      PROVE  BelongTypes'
  BY <1>9 DEF belongVars, BelongTypes
<1>. QED
  BY <1>2, <1>3, <1>4, <1>5, <1>6, <1>7, <1>8, <1>9, StepCases
     DEF Quiet, FriendWrite, AscentWrite, DuelWrite, BelongWrite, DeleteAccount

LEMMA InitTypeOK == Init => TypeOK
<1>. SUFFICES ASSUME Init PROVE TypeOK
  OBVIOUS
<1>1. SocialTypes
  BY DEF Init, SocialInit, SocialTypes, EmptyTable
<1>2. CallTypes
  BY DEF Init, SocialInit, CallTypes
<1>3. AscentTypes
  <2>1. PICK d \in Demo :
          /\ ascents = Put(EmptyTable, Seeded,
                           [user |-> d, source |-> None, interest |-> None,
                            parent |-> None, status |-> "ACTIVE"])
          /\ logs = Put(EmptyTable, SeededLog,
                        [ascent |-> Seeded, user |-> d, at |-> 0])
    BY DEF Init, AscentInit
  <2>2. /\ DOMAIN ascents = {Seeded}
        /\ ascents \in [{Seeded} -> Ascent]
    BY <2>1 DEF Put, EmptyTable, Ascent, Statuses, Everyone
  <2>3. /\ DOMAIN logs = {SeededLog}
        /\ logs \in [{SeededLog} -> Log]
    BY <2>1, SeedAssumption, TimeAssumption DEF Put, EmptyTable, Log, Everyone
  <2>. QED
    BY <2>2, <2>3, SeedAssumption, TimeAssumption DEF Init, AscentInit, AscentTypes
<1>4. DuelTypes
  BY DEF Init, DuelInit, DuelTypes, EmptyTable
<1>5. BelongTypes
  BY DEF Init, BelongInit, BelongTypes, EmptyTable
<1>. QED
  BY <1>1, <1>2, <1>3, <1>4, <1>5 DEF TypeOK

LEMMA TypeOKStep ==
    ASSUME TypeOK, [Next]_vars
    PROVE  TypeOK'
BY SocialTypesStep, CallTypesStep, AscentTypesStep, DuelTypesStep, BelongTypesStep
   DEF TypeOK

\* Every table holds rows of its type, and every call is at a statement of its
\* handler with what that needs: for any accounts, ids and workers.
THEOREM CommunityTypeCorrect == Spec => []TypeOK
BY InitTypeOK, TypeOKStep, PTL DEF Spec
=============================================================================
