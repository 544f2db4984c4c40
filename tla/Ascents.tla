------------------------------- MODULE Ascents -------------------------------
(***************************************************************************)
(* Ascents, logs, reactions and invites: internal/ascent/ascent.go over    *)
(* the tables ascents, logs, log_reactions and ascent_invites.  Ids are    *)
(* random and are never used twice.  Titles, images, places, moods and     *)
(* metrics are left out; so are duplicates of one invite.                  *)
(***************************************************************************)
EXTENDS Social

CONSTANTS
    AscentIds, LogIds,  \* ids the database hands out (bounds)
    Sources,            \* explore items
    Interests,
    Parents,            \* parents a client names (bound)
    Seeded, SeededLog,  \* the ascent and log of a demo climber (migration 3)
    MaxTime             \* bound of the clock

ASSUME SeedAssumption == Seeded \in AscentIds /\ SeededLog \in LogIds
ASSUME TimeAssumption == MaxTime \in Nat
ASSUME SourceAssumption == None \notin Sources
ASSUME ParentAssumption == Parents \subseteq AscentIds \cup {None}

VARIABLES
    ascents, logs,
    reactions,      \* <<log_id, user_id>>
    invites,        \* <<from_user, to_user, ascent_id>>
    spent,          \* ids handed out so far
    now,
    answered        \* history: <<user, source, ascent or None>>, the answers of
                    \* creates, None where the unique index refused one

ascentVars == <<ascents, logs, reactions, invites, spent, now, answered>>

Statuses == {"ACTIVE", "SUMMITED"}
Ascent == [user : Everyone, source : Sources \cup {None},
           interest : Interests \cup {None}, parent : AscentIds \cup {None},
           status : Statuses]
Log == [ascent : AscentIds, user : Everyone, at : 0..MaxTime]

AscentInit ==
    /\ \E d \in Demo :
          /\ ascents = Put(EmptyTable, Seeded,
                           [user |-> d, source |-> None, interest |-> None,
                            parent |-> None, status |-> "ACTIVE"])
          /\ logs = Put(EmptyTable, SeededLog,
                        [ascent |-> Seeded, user |-> d, at |-> 0])
    /\ reactions = {}
    /\ invites = {}
    /\ spent = {Seeded, SeededLog}
    /\ now = 0
    /\ answered = {}

-----------------------------------------------------------------------------
(* Reads.                                                                  *)

AscentsOf(u) == {a \in DOMAIN ascents : ascents[a].user = u}
BySource(u, source) == {a \in AscentsOf(u) : ascents[a].source = source}
LogsOf(u) == {l \in DOMAIN logs : logs[l].user = u}
LogsUnder(a) == {l \in DOMAIN logs : logs[l].ascent = a}

\* The page of an ascent: looked for among u's own, and then all logs under it.
DetailOf(u, a) ==
    IF a \in AscentsOf(u) THEN [found |-> TRUE, logs |-> LogsUnder(a)]
    ELSE [found |-> FALSE, logs |-> {}]

\* The feed of u: own logs and the demo climbers', with their reactions.
FeedOf(u) ==
    {[log |-> l, author |-> logs[l].user,
      reactions |-> Cardinality({r \in reactions : r[1] = l}),
      mine |-> <<l, u>> \in reactions] :
       l \in {k \in DOMAIN logs : logs[k].user \in {u} \cup (Demo \cap users)}}

-----------------------------------------------------------------------------
(* Create: look for the source, then insert.                               *)

\* The insert that follows when nothing is found, when no source is given, and
\* when the query fails; or 400 for an item without title that is not known.
Create(w, u, source, interest, parent) ==
    /\ At(w, "idle")
    /\ Go(w, [at |-> "insert", user |-> u, source |-> source,
              interest |-> interest, parent |-> parent])
    /\ UNCHANGED <<users, friendships, befriended>> /\ UNCHANGED ascentVars

\* Found: the answer.
CreateAgain(u, source) ==
    /\ \E a \in BySource(u, source) : answered' = answered \cup {<<u, source, a>>}
    /\ UNCHANGED socialVars
    /\ UNCHANGED <<ascents, logs, reactions, invites, spent, now>>

\* Mutant: there is no unique index.
NeverTaken(u, source) == FALSE

\* The partial unique index on (user_id, source_item_id).
Taken(u, source) == source # None /\ BySource(u, source) # {}

\* The INSERT, under the index and the foreign keys.
InsertAscent(w) ==
    /\ At(w, "insert")
    /\ LET c == call[w] IN
       /\ c.user \in users
       /\ c.parent \in DOMAIN ascents \cup {None}
       /\ ~Taken(c.user, c.source)
       /\ \E a \in AscentIds \ spent :
             /\ ascents' = Put(ascents, a,
                               [user |-> c.user, source |-> c.source,
                                interest |-> c.interest, parent |-> c.parent,
                                status |-> "ACTIVE"])
             /\ spent' = spent \cup {a}
             /\ answered' = IF c.source = None THEN answered
                            ELSE answered \cup {<<c.user, c.source, a>>}
    /\ Answer(w)
    /\ UNCHANGED <<users, friendships, befriended>>
    /\ UNCHANGED <<logs, reactions, invites, now>>

\* The INSERT meets the index: 500.
InsertConflicts(w) ==
    /\ At(w, "insert")
    /\ LET c == call[w] IN
       /\ Taken(c.user, c.source)
       /\ answered' = answered \cup {<<c.user, c.source, None>>}
    /\ Answer(w)
    /\ UNCHANGED <<users, friendships, befriended>>
    /\ UNCHANGED <<ascents, logs, reactions, invites, spent, now>>

Summit(u, a) ==
    /\ a \in AscentsOf(u)
    /\ ascents' = [ascents EXCEPT ![a].status = "SUMMITED"]
    /\ UNCHANGED socialVars
    /\ UNCHANGED <<logs, reactions, invites, spent, now, answered>>

-----------------------------------------------------------------------------
(* AddLog: ownership, then an insert stamped when it starts.               *)

\* Mutant: any ascent will do.
OwnsAny(u, a) == a \in DOMAIN ascents

Owns(u, a) == a \in AscentsOf(u)

\* 404 unless u owns a.
AddLog(w, u, a) ==
    /\ At(w, "idle")
    /\ Owns(u, a)
    /\ Go(w, [at |-> "log", user |-> u, ascent |-> a, stamp |-> now])
    /\ UNCHANGED <<users, friendships, befriended>> /\ UNCHANGED ascentVars

\* The row becomes visible, later than its created_at; the foreign keys.
InsertLog(w) ==
    /\ At(w, "log")
    /\ call[w].user \in users
    /\ call[w].ascent \in DOMAIN ascents
    /\ \E l \in LogIds \ spent :
          /\ logs' = Put(logs, l, [ascent |-> call[w].ascent,
                                   user |-> call[w].user, at |-> call[w].stamp])
          /\ spent' = spent \cup {l}
    /\ Answer(w)
    /\ UNCHANGED <<users, friendships, befriended>>
    /\ UNCHANGED <<ascents, reactions, invites, now, answered>>

-----------------------------------------------------------------------------
(* Reactions: the log's owner, the friendship, then the row.  Invites: the *)
(* friendship, then the row.                                               *)

\* The owner of log l; op is "react" or "unreact".
MutateReaction(w, u, l, op) ==
    /\ At(w, "idle")
    /\ l \in DOMAIN logs
    /\ Go(w, [at |-> IF logs[l].user = u THEN op ELSE "visible", user |-> u,
              log |-> l, owner |-> logs[l].user, op |-> op])
    /\ UNCHANGED <<users, friendships, befriended>> /\ UNCHANGED ascentVars

\* requireFriend; 403 unless it holds.
RequireFriend(w) ==
    /\ At(w, "visible")
    /\ CanViewUser(call[w].user, call[w].owner)
    /\ Go(w, [call[w] EXCEPT !.at = call[w].op])
    /\ UNCHANGED <<users, friendships, befriended>> /\ UNCHANGED ascentVars

React(w) ==
    /\ At(w, "react")
    /\ call[w].user \in users /\ call[w].log \in DOMAIN logs
    /\ reactions' = reactions \cup {<<call[w].log, call[w].user>>}
    /\ Answer(w)
    /\ UNCHANGED <<users, friendships, befriended>>
    /\ UNCHANGED <<ascents, logs, invites, spent, now, answered>>

Unreact(w) ==
    /\ At(w, "unreact")
    /\ reactions' = reactions \ {<<call[w].log, call[w].user>>}
    /\ Answer(w)
    /\ UNCHANGED <<users, friendships, befriended>>
    /\ UNCHANGED <<ascents, logs, invites, spent, now, answered>>

\* requireFriend; the ascent may be anybody's.
Invite(w, u, friend, a) ==
    /\ At(w, "idle")
    /\ CanViewUser(u, friend)
    /\ Go(w, [at |-> "invite", user |-> u, friend |-> friend, ascent |-> a])
    /\ UNCHANGED <<users, friendships, befriended>> /\ UNCHANGED ascentVars

InsertInvite(w) ==
    /\ At(w, "invite")
    /\ LET c == call[w] IN
       /\ {c.user, c.friend} \subseteq users /\ c.ascent \in DOMAIN ascents
       /\ invites' = invites \cup {<<c.user, c.friend, c.ascent>>}
    /\ Answer(w)
    /\ UNCHANGED <<users, friendships, befriended>>
    /\ UNCHANGED <<ascents, logs, reactions, spent, now, answered>>

-----------------------------------------------------------------------------
\* What the deletion of u cascades to here; a lost parent becomes NULL.
AscentDelete(u) ==
    LET gone == AscentsOf(u)
        lost == {l \in DOMAIN logs : logs[l].user = u \/ logs[l].ascent \in gone}
        left == Drop(ascents, gone)
    IN  /\ ascents' = [a \in DOMAIN left |->
                         IF left[a].parent \in gone
                         THEN [left[a] EXCEPT !.parent = None] ELSE left[a]]
        /\ logs' = Drop(logs, lost)
        /\ reactions' = {r \in reactions : r[1] \notin lost /\ r[2] # u}
        /\ invites' = {i \in invites : u \notin {i[1], i[2]} /\ i[3] \notin gone}
        /\ UNCHANGED <<spent, now, answered>>

Tick ==
    /\ now < MaxTime
    /\ now' = now + 1
    /\ UNCHANGED socialVars
    /\ UNCHANGED <<ascents, logs, reactions, invites, spent, answered>>

\* The statements of calls under way.
AscentStep(w) ==
    \/ InsertAscent(w) \/ InsertConflicts(w) \/ InsertLog(w)
    \/ RequireFriend(w) \/ React(w) \/ Unreact(w) \/ InsertInvite(w)
=============================================================================
