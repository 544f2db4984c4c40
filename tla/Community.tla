------------------------------ MODULE Community ------------------------------
(***************************************************************************)
(* The members' side of the service in one specification: friendships,     *)
(* ascents, duels and belongings, joined by the deletion of accounts,      *)
(* which cascades through every table in one statement.                    *)
(***************************************************************************)
EXTENDS Duels, Belongings

vars == <<socialVars, ascentVars, duelVars, belongVars>>

Init == SocialInit /\ AscentInit /\ DuelInit /\ BelongInit

Calls ==
    [at : {"insert"}, user : People, source : Sources \cup {None},
     interest : Interests \cup {None}, parent : AscentIds \cup {None}]
  \cup [at : {"log"}, user : People, ascent : AscentIds, stamp : 0..MaxTime]
  \cup [at : {"visible", "react", "unreact"}, user : People, log : LogIds,
        owner : Everyone, op : {"react", "unreact"}]
  \cup [at : {"invite"}, user : People, friend : Everyone, ascent : AscentIds]
  \cup [at : {"demo"}, user : People, opponent : Everyone,
        interest : Interests \cup {None}]
  \cup [at : {"duel"}, user : People, opponent : Everyone,
        interest : Interests \cup {None}, status : {"PENDING", "ACTIVE"}]
  \cup [at : {"listed"}, user : People, duel : DuelIds]
  \cup [at : {"apps"}, user : People]

SocialTypes ==
    /\ users \subseteq Everyone
    /\ DOMAIN friendships \subseteq People \X Everyone
    /\ friendships \in [DOMAIN friendships -> {"REQUESTED", "FOLLOWING"}]
    /\ befriended \subseteq SUBSET Everyone

CallTypes == call \in [Workers -> Calls \cup {Idle}]

AscentTypes ==
    /\ DOMAIN ascents \subseteq AscentIds \cap spent
    /\ ascents \in [DOMAIN ascents -> Ascent]
    /\ DOMAIN logs \subseteq LogIds \cap spent
    /\ logs \in [DOMAIN logs -> Log]
    /\ reactions \subseteq LogIds \X People
    /\ invites \subseteq People \X Everyone \X AscentIds
    /\ spent \subseteq AscentIds \cup LogIds \cup DuelIds
    /\ now \in 0..MaxTime
    /\ answered \subseteq People \X Sources \X (AscentIds \cup {None})

DuelTypes ==
    /\ DOMAIN duels \subseteq DuelIds \cap spent
    /\ duels \in [DOMAIN duels -> Duel]
    /\ DOMAIN joined \subseteq People \X Challenges
    /\ joined \in [DOMAIN joined -> BOOLEAN]
    /\ replies \in [DuelIds -> Seq({"ACTIVE", "DECLINED"})]

BelongTypes ==
    /\ wished \subseteq WishIds
    /\ DOMAIN wishlists \subseteq wished
    /\ wishlists \in [DOMAIN wishlists -> Wish]
    /\ integrations \subseteq People \X Apps
    /\ devices \subseteq People \X Tokens
    /\ avatars \subseteq People

\* The types of every table and of every statement a call can be at.
TypeOK == SocialTypes /\ CallTypes /\ AscentTypes /\ DuelTypes /\ BelongTypes

-----------------------------------------------------------------------------
DeleteAccount(u) ==
    SocialDelete(u) /\ AscentDelete(u) /\ DuelDelete(u) /\ BelongDelete(u)

\* The parts, each leaving the tables of the others alone.
SocialActs ==
    /\ \/ \E p \in Asked : Request(p[1], p[2]) \/ Accept(p[1], p[2])
       \/ \E w \in Workers : Fail(w)
    /\ UNCHANGED ascentVars /\ UNCHANGED duelVars /\ UNCHANGED belongVars

AscentActs ==
    /\ \/ \E w \in Workers, u \in People :
             \/ \E s \in Sources \cup {None}, i \in Interests \cup {None},
                   p \in Parents : Create(w, u, s, i, p)
             \/ \E a \in AscentIds : AddLog(w, u, a)
       \/ \E u \in People :
             (\E a \in AscentIds : Summit(u, a))
               \/ (\E s \in Sources : CreateAgain(u, s))
       \/ \E w \in Workers : AscentStep(w)
    /\ UNCHANGED duelVars /\ UNCHANGED belongVars

KudosActs ==
    /\ \E w \in Workers, u \in People :
          \/ \E l \in LogIds, op \in {"react", "unreact"} :
                MutateReaction(w, u, l, op)
          \/ \E f \in Everyone, a \in AscentIds : Invite(w, u, f, a)
    /\ UNCHANGED duelVars /\ UNCHANGED belongVars

DuelActs ==
    /\ \/ \E w \in Workers, u \in People, o \in Opponents,
             i \in Interests \cup {None} : CreateDuel(w, u, o, i)
       \/ \E w \in Workers : DuelStep(w)
       \/ \E u \in People, d \in DuelIds, s \in {"ACTIVE", "DECLINED"} :
             Respond(u, d, s)
       \/ \E u \in People, c \in Challenges, yes \in BOOLEAN :
             SetJoined(u, c, yes)
    /\ UNCHANGED belongVars

TimeActs == Tick /\ UNCHANGED duelVars /\ UNCHANGED belongVars

BelongActs ==
    /\ \E u \in People :
          \/ \E i \in Items, s \in Snapshots : AddWish(u, i, s)
          \/ \E i \in WishIds : RemoveWish(u, i)
          \/ \E i \in WishIds, p \in Plans \cup {NoPlan} : UpdatePlan(u, i, p)
          \/ \E w \in Workers, p \in Apps : Connect(w, u, p) \/ Disconnect(w, u, p)
          \/ \E w \in Workers : ListApps(w)
          \/ \E t \in Tokens : RegisterDevice(u, t)
          \/ SetAvatar(u)
    /\ UNCHANGED ascentVars /\ UNCHANGED duelVars

Next ==
    \/ SocialActs \/ AscentActs \/ KudosActs \/ DuelActs \/ TimeActs
    \/ BelongActs
    \/ \E u \in People : DeleteAccount(u)

Spec == Init /\ [][Next]_vars

-----------------------------------------------------------------------------
(* Properties.                                                             *)

\* Whatever creates of one explore item answer with, found or inserted, by
\* however many taps at once, is one and the same ascent (ascent.go:394).
SameAscent ==
    \A x, y \in answered :
       x[1] = y[1] /\ x[2] = y[2] /\ None \notin {x[3], y[3]} => x[3] = y[3]

\* What the doc says of a create (ascent.go:394): an item that is on the range
\* is returned, it never makes the insert fail.
DedupReturnsExisting == \A x \in answered : x[3] # None

FriendRows == \A p \in DOMAIN friendships : {p[1], p[2]} \subseteq users

OwnerRows == \A a \in DOMAIN ascents : ascents[a].user \in users

LogRows ==
    \A l \in DOMAIN logs : /\ logs[l].ascent \in DOMAIN ascents
                           /\ logs[l].user = ascents[logs[l].ascent].user

KudosRows ==
    /\ \A r \in reactions : r[1] \in DOMAIN logs /\ r[2] \in users
    /\ \A i \in invites : {i[1], i[2]} \subseteq users /\ i[3] \in DOMAIN ascents

DuelRows ==
    \A d \in DOMAIN duels : {duels[d].challenger, duels[d].opponent} \subseteq users

OwnRows ==
    {k[1] : k \in DOMAIN joined \cup integrations \cup devices}
       \cup avatars \cup {wishlists[i].user : i \in DOMAIN wishlists}
       \subseteq users

\* Every row is of accounts that exist, and a log is of its ascent's owner,
\* whoever was deleted while the row was on its way (ascent.go:95, user.go:198).
RowsBelong ==
    FriendRows /\ OwnerRows /\ LogRows /\ KudosRows /\ DuelRows /\ OwnRows

\* Ascents and logs go only with the account of their author: nobody's deletion
\* takes what another has written (user.go:195).
DeletionKeepsOthers ==
    [][/\ \A a \in DOMAIN ascents \ DOMAIN ascents' :
             ascents[a].user \in users \ users'
       /\ \A l \in DOMAIN logs \ DOMAIN logs' :
             logs[l].user \in users \ users']_vars

\* Kudos, invites and duels are between people one of whom has accepted the
\* other, or with a demo climber; a friendship that ended while the call was
\* under way is enough (ascent.go:547, :568, duel.go:36).
ContactNeedsFriendship ==
    LET met(u, v) == u = v \/ v \in Demo \/ {u, v} \in befriended
    IN  /\ \A r \in reactions : met(r[2], logs[r[1]].user)
        /\ \A i \in invites : met(i[1], i[2])
        /\ \A d \in DOMAIN duels : met(duels[d].challenger, duels[d].opponent)

\* Whoever the friends list, the contacts or the feed show to u, u may view and
\* may challenge: the three queries agree with the checks that guard kudos,
\* invites and duels (friend.go:28, ascent.go:185, :236, duel.go:36).  And the
\* pages of u's ascents, whose logs are read by ascent alone, show between them
\* just the logs that are read by author (ascent.go:66, :138).
ShownCanBeViewed ==
    \A u \in users \cap People :
       /\ \A v \in DOMAIN FriendsOf(u) \cup DOMAIN MatchContacts(u, Demo) :
             CanViewUser(u, v) /\ MayDuel(u, v)
       /\ \A f \in FeedOf(u) : f.author = u \/ CanViewUser(u, f.author)
       /\ UNION {DetailOf(u, a).logs : a \in AscentIds} = LogsOf(u)

\* At most one answer to a duel is stored, and its status tells which; without
\* one, a duel is active only against a demo climber (duel.go:129).
AnsweredOnce ==
    \A d \in DOMAIN duels :
       \/ Len(replies[d]) = 1 /\ duels[d].status = replies[d][1]
       \/ /\ replies[d] = <<>>
          /\ \/ duels[d].status = "PENDING"
             \/ duels[d].status = "ACTIVE" /\ duels[d].opponent \in Demo

\* Once a duel is over its scores stand, except for logs that were being
\* written when it ended, and as long as both sides are there (duel.go:85).
FinalScores ==
    [][\A d \in DOMAIN duels \cap DOMAIN duels' :
          (/\ now > duels[d].ends
           /\ \A w \in Workers : At(w, "log") => call[w].stamp > duels[d].ends)
          => \A u \in {duels[d].challenger, duels[d].opponent} :
                SeenBy(d, u)' = SeenBy(d, u)]_vars

\* The counts are not stored, and yet they never go back: neither the scores of
\* a duel nor the progress in a challenge, which stays within its target
\* (challenge.go:24, duel.go:2).
CountsNeverFall ==
    [][\A u \in users' \cap People :
          /\ \A d \in DuelsOf(u) \cap DuelsOf(u)' :
                SeenBy(d, u)'.you >= SeenBy(d, u).you
                /\ SeenBy(d, u)'.them >= SeenBy(d, u).them
          /\ \A c \in Challenges :
                /\ Progress(u, c)' >= Progress(u, c)
                /\ Progress(u, c)' <= Target[c]]_vars

\* Saving a place again never touches a plan: a plan changes only by the
\* owner's own update or with its row (wishlist.go:41).
PlanKept ==
    [][\A i \in DOMAIN wishlists \cap DOMAIN wishlists' :
          \/ wishlists'[i].plan = wishlists[i].plan
          \/ UpdatePlan(wishlists[i].user, i, wishlists'[i].plan)]_vars
=============================================================================
