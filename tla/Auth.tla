-------------------------------- MODULE Auth --------------------------------
(***************************************************************************)
(* Sign-in by one-time code and rotating refresh tokens: the service and   *)
(* repository of internal/auth/auth.go, its periodic cleanup (started by   *)
(* cmd/api/main.go) and account deletion (internal/user/user.go), over the *)
(* tables otp_codes, users and refresh_tokens.                             *)
(*                                                                         *)
(* A handler is a goroutine that issues one SQL statement after another,   *)
(* each its own transaction; a call is one step per statement.  The two    *)
(* statements that consume a code or a token are UPDATE ... WHERE id =     *)
(* (SELECT ...): PostgreSQL (READ COMMITTED) evaluates the subquery on the *)
(* statement's snapshot, then locks the row found; if another transaction  *)
(* changed the row meanwhile, only `id = <the id found>` is checked again. *)
(* Each is therefore two steps, a select and an update.                    *)
(*                                                                         *)
(* Phones are normalised, valid numbers: others are refused before any     *)
(* state is touched.  Codes and tokens stand for themselves: rows hold     *)
(* their hashes, which are equal exactly when they are.                    *)
(***************************************************************************)
EXTENDS Integers, FiniteSets, Functions, Tables

CONSTANTS
    Phones, Codes,      \* normalised phone numbers, six-digit codes
    Workers,            \* handler goroutines
    OtpIds, UserIds,    \* row ids (bound: each is used at most once)
    Tokens,             \* refresh tokens (bound: each is minted at most once)
    OtpTTL,             \* lifetime of a code (5 minutes)
    OtpGrace,           \* how long a stale code is kept (1 day)
    RefreshTTL,         \* lifetime of a refresh token
    RequestLimit, RequestWindow,    \* 3 an hour per phone
    VerifyLimit, VerifyWindow,      \* 10 in ten minutes per phone
    DevCode, ReviewPhone, Dev,      \* ServiceOpts
    None,               \* not a phone, a row id or "dev"
    MaxTime             \* bound: the clock stops here

ASSUME TimeAssumption ==
    /\ OtpTTL \in Nat /\ OtpGrace \in Nat /\ RefreshTTL \in Nat
ASSUME LimitAssumption ==
    /\ RequestLimit \in Nat \ {0} /\ RequestWindow \in Nat \ {0}
    /\ VerifyLimit \in Nat \ {0} /\ VerifyWindow \in Nat \ {0}
ASSUME NoneAssumption ==
    None \notin Phones \cup OtpIds \cup {"dev"} /\ "dev" \notin OtpIds

VARIABLES
    clock,          \* the time now()
    otp_codes,      \* table: from ids to rows
    users,          \* table: from phones (UNIQUE) to user ids
    refresh_tokens, \* table: from tokens (UNIQUE) to rows
    requests,       \* requestLimit, as its callers see it
    attempts,       \* verifyLimit, as its callers see it
    calls,          \* calls[w]: the request worker w is serving
    sweeper,        \* the cleanup goroutine: "idle", or its next statement
    codePhone,      \* history: the phone a code was sent to
    userPhone,      \* history: the phone an account was created for
    login,          \* history: the sign-in a token descends from
    tries,          \* history: attempts admitted for a phone while a code lived
    uses,           \* history: times each worker was granted a code
    rotations       \* history: times each worker was granted a token

tables == <<otp_codes, users, refresh_tokens>>
limits == <<requests, attempts>>
origins == <<codePhone, userPhone, login>>
counts == <<tries, uses, rotations>>
vars == <<clock, tables, limits, calls, sweeper, origins, counts>>

OtpRow == [phone : Phones, code : Codes, created : Nat, expires : Nat,
           consumed : BOOLEAN]
RefreshRow == [user : UserIds, expires : Nat, revoked : BOOLEAN]

\* The sign-in a session goes back to: a code's row, or the dev code.
Logins == OtpIds \cup {"dev"}

Idle == [step |-> "idle"]
Call ==
    {Idle, [step |-> "sendSMS"]}
      \cup [step : {"saveOTP"}, phone : Phones]
      \cup [step : {"selectOTP"}, phone : Phones, code : Codes]
      \cup [step : {"consumeOTP"}, phone : Phones, row : OtpIds]
      \cup [step : {"upsertUser"}, phone : Phones, login : Logins]
      \cup [step : {"selectRefresh"}, token : Tokens]
      \cup [step : {"consumeRefresh"}, token : Tokens]
      \cup [step : {"saveRefresh"}, user : UserIds, login : Logins]

TypeOK ==
    /\ clock \in Nat
    /\ DOMAIN otp_codes \subseteq OtpIds
    /\ otp_codes \in [DOMAIN otp_codes -> OtpRow]
    /\ DOMAIN users \subseteq Phones
    /\ users \in [DOMAIN users -> UserIds]
    /\ DOMAIN refresh_tokens \subseteq Tokens
    /\ refresh_tokens \in [DOMAIN refresh_tokens -> RefreshRow]
    /\ requests \in [Phones -> [start : Nat, used : 0..RequestLimit]]
    /\ attempts \in [Phones -> [start : Nat, used : 0..VerifyLimit]]
    /\ calls \in [Workers -> Call]
    /\ sweeper \in {"idle", "otp", "refresh"}
    /\ codePhone \in [OtpIds -> Phones \cup {None}]
    /\ userPhone \in [UserIds -> Phones \cup {None}]
    /\ login \in [Tokens -> Logins \cup {None}]
    /\ tries \in [OtpIds -> Nat]
    /\ uses \in [OtpIds -> [Workers -> Nat]]
    /\ rotations \in [Tokens -> [Workers -> Nat]]

-----------------------------------------------------------------------------
(* The limiters, by the contract RateLimiter is proved to implement.       *)

RequestLimiter == INSTANCE FixedWindow WITH
    Keys <- Phones, Limit <- RequestLimit, Window <- RequestWindow,
    MaxWait <- 0, window <- requests
VerifyLimiter == INSTANCE FixedWindow WITH
    Keys <- Phones, Limit <- VerifyLimit, Window <- VerifyWindow,
    MaxWait <- 0, window <- attempts

\* Mutant: attempts are counted but never refused.
AllowVerifyAlways(p) ==
    /\ attempts' = [attempts EXCEPT ![p].used = @ + 1]
    /\ UNCHANGED clock

\* Allow(phone) returned true.  When it returns false the handler answers 429
\* and nothing changes.
AllowRequest(p) == RequestLimiter!Open(p) \/ RequestLimiter!Admit(p)
AllowVerify(p) == VerifyLimiter!Open(p) \/ VerifyLimiter!Admit(p)

NoCalls == [w \in Workers |-> Idle]
NoUses == [w \in Workers |-> 0]

Init ==
    /\ clock = 0
    /\ otp_codes = EmptyTable
    /\ users = EmptyTable
    /\ refresh_tokens = EmptyTable
    /\ requests = [p \in Phones |-> RequestLimiter!NoWindow]
    /\ attempts = [p \in Phones |-> VerifyLimiter!NoWindow]
    /\ calls = NoCalls
    /\ sweeper = "otp"
    /\ codePhone = [i \in OtpIds |-> None]
    /\ userPhone = [u \in UserIds |-> None]
    /\ login = [t \in Tokens |-> None]
    /\ tries = [i \in OtpIds |-> 0]
    /\ uses = [i \in OtpIds |-> NoUses]
    /\ rotations = [t \in Tokens |-> NoUses]

\* Worker w goes on to what c says.
Continue(w, c) == calls' = [calls EXCEPT ![w] = c]

At(w, step) == calls[w].step = step

-----------------------------------------------------------------------------
(* RequestOTP: a code is stored, then handed to the SMS gateway.           *)

RequestOTP(w, p) ==
    /\ At(w, "idle")
    /\ AllowRequest(p)
    /\ Continue(w, [step |-> "saveOTP", phone |-> p])
    /\ UNCHANGED <<tables, attempts, sweeper, origins, counts>>

SaveOTP(w) ==
    /\ At(w, "saveOTP")
    /\ \E i \in OtpIds, c \in Codes :
          /\ codePhone[i] = None
          /\ otp_codes' = Put(otp_codes, i,
                [phone |-> calls[w].phone, code |-> c, created |-> clock,
                 expires |-> clock + OtpTTL, consumed |-> FALSE])
          /\ codePhone' = [codePhone EXCEPT ![i] = calls[w].phone]
    /\ Continue(w, [step |-> "sendSMS"])
    /\ UNCHANGED <<clock, users, refresh_tokens, limits, sweeper,
                   userPhone, login, counts>>

\* Whether the gateway takes the message or not, the stored code stays.
SendSMS(w) ==
    /\ At(w, "sendSMS")
    /\ Continue(w, Idle)
    /\ UNCHANGED <<clock, tables, limits, sweeper, origins, counts>>

-----------------------------------------------------------------------------
(* VerifyOTP: limiter, dev code or stored code, account, tokens.           *)

\* Mutant: without consumed = FALSE.
LiveOrUsedCode(i) ==
    /\ i \in DOMAIN otp_codes
    /\ otp_codes[i].expires > clock

\* A code that ConsumeOTP's subquery accepts.
LiveCode(i) ==
    /\ i \in DOMAIN otp_codes
    /\ ~otp_codes[i].consumed
    /\ otp_codes[i].expires > clock

\* Mutant: the dev code works for every phone, outside dev too.
DevCodeAnywhere(p, c) == c = DevCode

DevCodeMatches(p, c) == c = DevCode /\ (Dev \/ p = ReviewPhone)

VerifyOTP(w, p, c) ==
    /\ At(w, "idle")
    /\ AllowVerify(p)
    /\ IF DevCodeMatches(p, c)
       THEN Continue(w, [step |-> "upsertUser", phone |-> p, login |-> "dev"])
       ELSE Continue(w, [step |-> "selectOTP", phone |-> p, code |-> c])
    /\ tries' = [i \in OtpIds |->
                    IF LiveCode(i) /\ otp_codes[i].phone = p THEN tries[i] + 1 ELSE tries[i]]
    /\ UNCHANGED <<tables, requests, sweeper, origins, uses, rotations>>

\* Mutant: the code of any phone will do.
CodesOfAnyPhone(p, c) ==
    {i \in DOMAIN otp_codes : otp_codes[i].code = c /\ LiveCode(i)}

\* The rows that match a phone and a code.
MatchingCodes(p, c) ==
    {i \in DOMAIN otp_codes :
        otp_codes[i].phone = p /\ otp_codes[i].code = c /\ LiveCode(i)}

\* The subquery of ConsumeOTP: the newest live code that matches.
SelectOTP(w) ==
    /\ At(w, "selectOTP")
    /\ LET found == MatchingCodes(calls[w].phone, calls[w].code)
       IN  \/ found = {} /\ Continue(w, Idle)
           \/ \E i \in found :
                 /\ \A j \in found : otp_codes[j].created <= otp_codes[i].created
                 /\ Continue(w, [step |-> "consumeOTP", phone |-> calls[w].phone,
                                 row |-> i])
    /\ UNCHANGED <<clock, tables, limits, sweeper, origins, counts>>

\* The update of ConsumeOTP, the row locked: it fails to find the row only if
\* that was deleted.  The server may not learn that the update was committed.
ConsumeOTP(w) ==
    /\ At(w, "consumeOTP")
    /\ LET i == calls[w].row
       IN  \/ /\ i \notin DOMAIN otp_codes
              /\ Continue(w, Idle)
              /\ UNCHANGED <<otp_codes, uses>>
           \/ /\ i \in DOMAIN otp_codes
              /\ otp_codes' = [otp_codes EXCEPT ![i].consumed = TRUE]
              /\ \/ /\ Continue(w, [step |-> "upsertUser",
                                    phone |-> calls[w].phone, login |-> i])
                    /\ uses' = [uses EXCEPT ![i][w] = @ + 1]
                 \/ Continue(w, Idle) /\ UNCHANGED uses
    /\ UNCHANGED <<clock, users, refresh_tokens, limits, sweeper, origins,
                   tries, rotations>>

\* UpsertUserByPhone.  Its second query may fail with the account created.
UpsertUser(w) ==
    /\ At(w, "upsertUser")
    /\ LET p == calls[w].phone
       IN  \E u \in UserIds :
              /\ \/ /\ p \in DOMAIN users /\ users[p] = u
                    /\ UNCHANGED <<users, userPhone>>
                 \/ /\ p \notin DOMAIN users /\ userPhone[u] = None
                    /\ users' = Put(users, p, u)
                    /\ userPhone' = [userPhone EXCEPT ![u] = p]
              /\ \/ Continue(w, [step |-> "saveRefresh", user |-> u,
                                 login |-> calls[w].login])
                 \/ Continue(w, Idle)
    /\ UNCHANGED <<clock, otp_codes, refresh_tokens, limits, sweeper,
                   codePhone, login, counts>>

-----------------------------------------------------------------------------
(* Refresh: the token is consumed, a new pair issued.                      *)

Refresh(w, t) ==
    /\ At(w, "idle")
    /\ Continue(w, [step |-> "selectRefresh", token |-> t])
    /\ UNCHANGED <<clock, tables, limits, sweeper, origins, counts>>

\* Mutant: without revoked = FALSE.
LiveOrRevokedToken(t) ==
    /\ t \in DOMAIN refresh_tokens
    /\ refresh_tokens[t].expires > clock

\* A token that ConsumeRefresh's subquery accepts.
LiveToken(t) ==
    /\ t \in DOMAIN refresh_tokens
    /\ ~refresh_tokens[t].revoked
    /\ refresh_tokens[t].expires > clock

SelectRefresh(w) ==
    /\ At(w, "selectRefresh")
    /\ LET t == calls[w].token
       IN  IF LiveToken(t)
           THEN Continue(w, [step |-> "consumeRefresh", token |-> t])
           ELSE Continue(w, Idle)
    /\ UNCHANGED <<clock, tables, limits, sweeper, origins, counts>>

ConsumeRefresh(w) ==
    /\ At(w, "consumeRefresh")
    /\ LET t == calls[w].token
       IN  \/ /\ t \notin DOMAIN refresh_tokens
              /\ Continue(w, Idle)
              /\ UNCHANGED <<refresh_tokens, rotations>>
           \/ /\ t \in DOMAIN refresh_tokens
              /\ refresh_tokens' = [refresh_tokens EXCEPT ![t].revoked = TRUE]
              /\ \/ /\ Continue(w, [step |-> "saveRefresh",
                                    user |-> refresh_tokens[t].user,
                                    login |-> login[t]])
                    /\ rotations' = [rotations EXCEPT ![t][w] = @ + 1]
                 \/ Continue(w, Idle) /\ UNCHANGED rotations
    /\ UNCHANGED <<clock, otp_codes, users, limits, sweeper, origins,
                   tries, uses>>

\* Mutant: no foreign key.
AnyUser(u) == TRUE

\* refresh_tokens.user_id REFERENCES users(id).
UserExists(u) == u \in Range(users)

\* issueTokens stores the new token; the foreign key refuses a user deleted
\* meanwhile, and then only FailCall is left.  Ends VerifyOTP and Refresh.
SaveRefresh(w) ==
    /\ At(w, "saveRefresh")
    /\ UserExists(calls[w].user)
    /\ \E t \in Tokens :
          /\ login[t] = None
          /\ refresh_tokens' = Put(refresh_tokens, t,
                [user |-> calls[w].user, expires |-> clock + RefreshTTL,
                 revoked |-> FALSE])
          /\ login' = [login EXCEPT ![t] = calls[w].login]
    /\ Continue(w, Idle)
    /\ UNCHANGED <<clock, otp_codes, users, limits, sweeper, codePhone,
                   userPhone, counts>>

\* A statement fails: the handler answers 500.  What earlier statements of the
\* call did stays done.
FailCall(w) ==
    /\ ~At(w, "idle")
    /\ Continue(w, Idle)
    /\ UNCHANGED <<clock, tables, limits, sweeper, origins, counts>>

-----------------------------------------------------------------------------
(* The cleanup goroutine: two statements, at start and then every hour; an *)
(* error ends the round.                                                   *)

\* Mutant: codes are swept before they expire.
ExpiringCode(i) == otp_codes[i].expires <= clock + 1

StaleCode(i) == otp_codes[i].expires < clock - OtpGrace

\* Mutant: revoked tokens are left to expire.
ExpiredToken(t) == refresh_tokens[t].expires < clock

\* Mutant: tokens are swept before they expire.
ExpiringToken(t) == refresh_tokens[t].expires <= clock + 1

DeadToken(t) == refresh_tokens[t].expires < clock \/ refresh_tokens[t].revoked

SweepTick ==
    /\ sweeper = "idle"
    /\ sweeper' = "otp"
    /\ UNCHANGED <<clock, tables, limits, calls, origins, counts>>

SweepOTP ==
    /\ sweeper = "otp"
    /\ otp_codes' = Drop(otp_codes, {i \in DOMAIN otp_codes : StaleCode(i)})
    /\ sweeper' = "refresh"
    /\ UNCHANGED <<clock, users, refresh_tokens, limits, calls, origins,
                   counts>>

SweepRefresh ==
    /\ sweeper = "refresh"
    /\ refresh_tokens' =
          Drop(refresh_tokens, {t \in DOMAIN refresh_tokens : DeadToken(t)})
    /\ sweeper' = "idle"
    /\ UNCHANGED <<clock, otp_codes, users, limits, calls, origins, counts>>

SweepFails ==
    /\ sweeper # "idle"
    /\ sweeper' = "idle"
    /\ UNCHANGED <<clock, tables, limits, calls, origins, counts>>

-----------------------------------------------------------------------------

\* DELETE FROM users: refresh_tokens.user_id cascades; otp_codes has no user.
DeleteAccount(p) ==
    /\ p \in DOMAIN users
    /\ users' = Drop(users, {p})
    /\ refresh_tokens' = Drop(refresh_tokens,
          {t \in DOMAIN refresh_tokens : refresh_tokens[t].user = users[p]})
    /\ UNCHANGED <<clock, otp_codes, limits, calls, sweeper, origins, counts>>

\* Requests in flight and limiters are lost; every statement done is kept.
Restart ==
    /\ calls' = NoCalls
    /\ requests' = [p \in Phones |-> RequestLimiter!NoWindow]
    /\ attempts' = [p \in Phones |-> VerifyLimiter!NoWindow]
    /\ sweeper' = "otp"
    /\ tries' = [i \in OtpIds |-> 0]
    /\ UNCHANGED <<clock, tables, origins, uses, rotations>>

Tick ==
    /\ clock < MaxTime
    /\ clock' = clock + 1
    /\ UNCHANGED <<tables, limits, calls, sweeper, origins, counts>>

Statement(w) ==
    \/ SaveOTP(w) \/ SendSMS(w)
    \/ SelectOTP(w) \/ ConsumeOTP(w) \/ UpsertUser(w)
    \/ SelectRefresh(w) \/ ConsumeRefresh(w) \/ SaveRefresh(w)
    \/ FailCall(w)

Next ==
    \/ \E w \in Workers, p \in Phones : RequestOTP(w, p)
    \/ \E w \in Workers, p \in Phones, c \in Codes : VerifyOTP(w, p, c)
    \/ \E w \in Workers, t \in Tokens : Refresh(w, t)
    \/ \E w \in Workers : Statement(w)
    \/ SweepTick \/ SweepOTP \/ SweepRefresh \/ SweepFails
    \/ \E p \in Phones : DeleteAccount(p)
    \/ Restart
    \/ Tick

Spec == Init /\ [][Next]_vars

\* The cleanup goroutine keeps being scheduled, and a statement it reaches again
\* and again is not refused by the database every time.
FairSpec ==
    Spec /\ WF_vars(SweepTick) /\ SF_vars(SweepOTP) /\ SF_vars(SweepRefresh)

-----------------------------------------------------------------------------

\* Codes: a row and a call about to consume it know the phone the code was sent
\* to; a code that was granted is consumed for good, and not about to be granted
\* again to the same worker.
CodesTracked ==
    /\ \A i \in DOMAIN otp_codes : codePhone[i] = otp_codes[i].phone
    /\ \A i \in OtpIds, w \in Workers :
          /\ uses[i][w] \in {0, 1}
          /\ uses[i][w] = 1 =>
                /\ codePhone[i] # None
                /\ i \in DOMAIN otp_codes => otp_codes[i].consumed
    /\ \A w \in Workers : At(w, "consumeOTP") =>
          /\ codePhone[calls[w].row] = calls[w].phone
          /\ uses[calls[w].row][w] = 0

\* Tokens, likewise.
TokensTracked ==
    /\ \A t \in DOMAIN refresh_tokens : login[t] # None
    /\ \A t \in Tokens, w \in Workers :
          /\ rotations[t][w] \in {0, 1}
          /\ rotations[t][w] = 1 =>
                /\ login[t] # None
                /\ t \in DOMAIN refresh_tokens => refresh_tokens[t].revoked
    /\ \A w \in Workers : At(w, "consumeRefresh") =>
          /\ login[calls[w].token] # None
          /\ rotations[calls[w].token][w] = 0

AccountsTracked == \A p \in DOMAIN users : userPhone[users[p]] = p

\* Sign-in l entitles to the account of phone p: by a code sent to p and
\* granted, or by the dev code.
Backed(l, p) ==
    IF l = "dev" THEN Dev \/ p = ReviewPhone
    ELSE l \in OtpIds /\ codePhone[l] = p /\ \E w \in Workers : uses[l][w] > 0

\* A call past the check of its code or token is entitled to what it will store.
CallsBacked ==
    \A w \in Workers :
        /\ At(w, "upsertUser") => Backed(calls[w].login, calls[w].phone)
        /\ At(w, "saveRefresh") =>
              /\ userPhone[calls[w].user] \in Phones
              /\ Backed(calls[w].login, userPhone[calls[w].user])

\* A worker is never granted the same code, or the same token, twice: whatever
\* is running, a statement that starts after a row was consumed does not find
\* it.  (Two statements running at once both may: OtpSingleUse.)
OncePerWorker ==
    /\ \A i \in OtpIds, w \in Workers : uses[i][w] <= 1
    /\ \A t \in Tokens, w \in Workers : rotations[t][w] <= 1

\* Every stored token leads back, through any number of rotations, to a code
\* that was sent to, and granted for, the very phone its account was created
\* for; or, from the dev code, to a phone the dev code is for.
SessionBacked ==
    \A t \in DOMAIN refresh_tokens :
        Backed(login[t], userPhone[refresh_tokens[t].user])

\* Deleting an account ends its sessions for good: no call still in flight puts
\* a token of a deleted user back.
NoTokenOfDeletedUser ==
    \A t \in DOMAIN refresh_tokens : refresh_tokens[t].user \in Range(users)

\* The inductive invariant of AuthProofs.
IInv ==
    /\ TypeOK
    /\ CodesTracked
    /\ TokensTracked
    /\ AccountsTracked
    /\ CallsBacked
    /\ SessionBacked
    /\ NoTokenOfDeletedUser

\* A live token dies only by being presented, by expiry, or with its account;
\* a live code only by being presented or by expiry.  In particular the cleanup
\* never changes the answer to a client.
DiesOnlyByUse ==
    [][/\ \A t \in DOMAIN refresh_tokens :
             LiveToken(t) /\ ~LiveToken(t)' =>
                \/ clock' # clock
                \/ \E w \in Workers : At(w, "consumeRefresh") /\ calls[w].token = t
                                        /\ calls'[w] # calls[w]
                \/ refresh_tokens[t].user \notin Range(users')
       /\ \A i \in DOMAIN otp_codes :
             LiveCode(i) /\ ~LiveCode(i)' =>
                \/ clock' # clock
                \/ \E w \in Workers : At(w, "consumeOTP") /\ calls[w].row = i
                                        /\ calls'[w] # calls[w]
      ]_vars

SingleUse(count) ==
    \A v, w \in Workers : count[v] + count[w] <= 1 \/ (v = w /\ count[v] <= 1)

\* auth_test.go:120: "Single use: same code must not verify twice."
OtpSingleUse == \A i \in OtpIds : SingleUse(uses[i])

\* auth.go:114: "revokes it (single-use rotation)".
RefreshSingleUse == \A t \in Tokens : SingleUse(rotations[t])

\* Rotation keeps one session per sign-in: of the tokens descending from one
\* code at most one is not revoked.
OneTokenPerLogin ==
    \A l \in OtpIds :
        Cardinality({t \in DOMAIN refresh_tokens :
                        login[t] = l /\ ~refresh_tokens[t].revoked}) <= 1

\* A code can be tried a bounded number of times while it works: the two limits
\* on attempts its life can touch, less one.  (10 in ten minutes, against a
\* life of five; the count starts again when the process does.)
TriesBounded ==
    OtpTTL <= VerifyWindow => \A i \in OtpIds : tries[i] < 2 * VerifyLimit

\* auth.go:134: the tables do not "grow without bound": a token that was
\* revoked or has expired is eventually gone, whatever rounds fail before.
DeadTokensSwept ==
    \A t \in Tokens :
        (/\ t \in DOMAIN refresh_tokens
         /\ refresh_tokens[t].revoked \/ refresh_tokens[t].expires < clock)
          ~> t \notin DOMAIN refresh_tokens
=============================================================================
