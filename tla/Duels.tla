-------------------------------- MODULE Duels --------------------------------
(***************************************************************************)
(* Duels (internal/duel/duel.go) and challenges                            *)
(* (internal/challenge/challenge.go): both are scored by counting logs.    *)
(***************************************************************************)
EXTENDS Ascents

CONSTANTS
    DuelIds,        \* ids the database hands out (bound)
    Opponents,      \* who is challenged (bound)
    Days,           \* the length of a duel
    Challenges,     \* the catalog
    ChallengeInterest, Target, BaseProgress     \* its columns

ASSUME DaysAssumption == Days \in Nat
ASSUME OpponentAssumption == Opponents \subseteq Everyone
ASSUME CatalogAssumption ==
    /\ ChallengeInterest \in [Challenges -> Interests]
    /\ Target \in [Challenges -> Nat]
    /\ BaseProgress \in [Challenges -> Nat]

VARIABLES
    duels,
    joined,     \* user_challenges: joined, by <<user, challenge>>
    replies     \* history: replies[d], the answers to d that were stored

duelVars == <<duels, joined, replies>>

Duel == [challenger : Everyone, opponent : Everyone,
         interest : Interests \cup {None}, starts : 0..MaxTime,
         ends : 0..(MaxTime + Days), status : {"PENDING", "ACTIVE", "DECLINED"}]

DuelInit ==
    /\ duels = EmptyTable
    /\ joined = EmptyTable
    /\ replies = [d \in DuelIds |-> <<>>]

-----------------------------------------------------------------------------
(* Reads.                                                                  *)

\* Mutant: logs go on counting after the end.
InWindowOpen(d, l) == logs[l].at >= duels[d].starts

InWindow(d, l) == logs[l].at \in duels[d].starts..duels[d].ends

Score(d, u) ==
    Cardinality({l \in LogsOf(u) :
        /\ InWindow(d, l)
        /\ duels[d].interest \in {None, ascents[logs[l].ascent].interest}})

\* The list of u: what was not declined, scores seen from u's side.
DuelsOf(u) ==
    {d \in DOMAIN duels :
       /\ u \in {duels[d].challenger, duels[d].opponent}
       /\ {duels[d].challenger, duels[d].opponent} \subseteq users
       /\ duels[d].status # "DECLINED"}

Them(d, u) ==
    IF duels[d].challenger = u THEN duels[d].opponent ELSE duels[d].challenger

SeenBy(d, u) == [you |-> Score(d, u), them |-> Score(d, Them(d, u))]

\* Mutant: only logs under ascents that are not summited count.
ProgressActive(u, c) ==
    LET logged == Cardinality({l \in LogsOf(u) :
                     /\ ascents[logs[l].ascent].interest = ChallengeInterest[c]
                     /\ ascents[logs[l].ascent].status = "ACTIVE"})
    IN  BaseProgress[c] + logged

\* Progress of u, seeded and logged; the column progress is never written.
Progress(u, c) ==
    LET logged == Cardinality({l \in LogsOf(u) :
                     ascents[logs[l].ascent].interest = ChallengeInterest[c]})
        sum == BaseProgress[c] + logged
    IN  IF sum > Target[c] THEN Target[c] ELSE sum

-----------------------------------------------------------------------------
(* Create: friendship, kind of opponent, insert, list.                     *)

\* The same question that kudos ask, in a query of its own.
MayDuel(challenger, opponent) ==
    \/ opponent \in Demo \cap users
    \/ \E p \in {<<challenger, opponent>>, <<opponent, challenger>>} :
          p \in DOMAIN friendships /\ friendships[p] = "FOLLOWING"

\* 403 unless they are friends; nobody duels with themselves.
CreateDuel(w, u, opponent, interest) ==
    /\ At(w, "idle")
    /\ opponent # u
    /\ MayDuel(u, opponent)
    /\ Go(w, [at |-> "demo", user |-> u, opponent |-> opponent,
              interest |-> interest])
    /\ UNCHANGED <<users, friendships, befriended>>
    /\ UNCHANGED ascentVars /\ UNCHANGED duelVars

\* An error of this query is dropped: a demo climber then passes for another.
CheckDemo(w) ==
    /\ At(w, "demo")
    /\ \E status \in {"PENDING"} \cup
             (IF call[w].opponent \in Demo THEN {"ACTIVE"} ELSE {}) :
          Go(w, [at |-> "duel", user |-> call[w].user, status |-> status,
                 opponent |-> call[w].opponent, interest |-> call[w].interest])
    /\ UNCHANGED <<users, friendships, befriended>>
    /\ UNCHANGED ascentVars /\ UNCHANGED duelVars

\* Mutant: a day too many.
EndsLate == now + Days + 1

\* ends_at
Ends == now + Days

InsertDuel(w) ==
    /\ At(w, "duel")
    /\ LET c == call[w] IN
       /\ {c.user, c.opponent} \subseteq users
       /\ \E d \in DuelIds \ spent :
             /\ duels' = Put(duels, d,
                   [challenger |-> c.user, opponent |-> c.opponent,
                    interest |-> c.interest, starts |-> now,
                    ends |-> Ends, status |-> c.status])
             /\ spent' = spent \cup {d}
             /\ Go(w, [at |-> "listed", user |-> c.user, duel |-> d])
    /\ UNCHANGED <<users, friendships, befriended>>
    /\ UNCHANGED <<ascents, logs, reactions, invites, now, answered>>
    /\ UNCHANGED <<joined, replies>>

\* 201 with the duel as listed, or 500 when it was declined meanwhile.
ListCreated(w) ==
    /\ At(w, "listed")
    /\ Answer(w)
    /\ UNCHANGED <<users, friendships, befriended>>
    /\ UNCHANGED ascentVars /\ UNCHANGED duelVars

\* Mutant: a duel can be answered again.
AnswerableAgain(d, u) == duels[d].opponent = u

\* The UPDATE's conditions, checked again under the row's lock.
Answerable(d, u) == duels[d].opponent = u /\ duels[d].status = "PENDING"

\* Accept and Decline: one UPDATE; 404 when it finds no row.  The end of the
\* duel is not looked at.
Respond(u, d, status) ==
    /\ d \in DOMAIN duels
    /\ Answerable(d, u)
    /\ duels' = [duels EXCEPT ![d].status = status]
    /\ replies' = [replies EXCEPT ![d] = Append(@, status)]
    /\ UNCHANGED socialVars /\ UNCHANGED ascentVars /\ UNCHANGED joined

\* Join and Leave; challenges are never deleted.
SetJoined(u, c, yes) ==
    /\ u \in users
    /\ joined' = Put(joined, <<u, c>>, yes)
    /\ UNCHANGED socialVars /\ UNCHANGED ascentVars
    /\ UNCHANGED <<duels, replies>>

\* What the deletion of u cascades to here.
DuelDelete(u) ==
    /\ duels' = Drop(duels, {d \in DOMAIN duels :
                               u \in {duels[d].challenger, duels[d].opponent}})
    /\ joined' = Drop(joined, {k \in DOMAIN joined : k[1] = u})
    /\ UNCHANGED replies

DuelStep(w) ==
    \/ CheckDemo(w) \/ InsertDuel(w) \/ ListCreated(w)
=============================================================================
