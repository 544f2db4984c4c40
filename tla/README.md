# Verification of the Ascent backend

TLA+ models, TLC runs and TLAPS proofs for the Go service in `src/`. Modules are
in this directory; `PROJECT.json` maps every definition to the lines it models.

    tlc -workers 2 -config MCAuth.cfg MCAuth       # any run, see "Runs"
    tlapm AuthProofs.tla                           # any proof module

## 1. The system

One Go process (`cmd/api/main.go`) in front of one PostgreSQL database. Every
request is a goroutine; handlers share nothing but the database (READ COMMITTED,
mostly one transaction per statement), a few in-memory rate limiters and a few
in-memory caches. Components, with the state they keep and what makes them right:

| Component | State | Operations | Hard behaviour | Correct when |
|---|---|---|---|---|
| Rate limiter `httpx/ratelimit.go` | map key -> window, mutex | `Allow` | clock read outside the mutex, cleanup inside other keys' calls, lost on restart | a key is let through at most `limit` times a window; the cleanup is invisible |
| Sign-in `auth/*.go` | tables `otp_codes`, `users`, `refresh_tokens`; two limiters | `RequestOTP`, `VerifyOTP`, `Refresh`, `CleanupExpired` | calls of several statements; select-then-update; failures half way; cleanup, deletion and restart at any point | codes and tokens are single use; sessions belong to whoever received the code; dead rows go, live ones do not |
| Process `cmd/api/main.go` | cleanup goroutine, server | start, hourly cleanup, shutdown | background work at shutdown | cleanup goes on for ever; shutdown ends |
| Migrations `db/db.go` | `schema_migrations`, schema | `Migrate` | two instances at once; a crash at any step; an older release beside a newer | in order, each file once; who serves has all it knows |
| Profile `user/user.go` | `users`, `user_interests`, `user_hobbies`, `device_tokens` | onboarding, `GetHobbies`, `SetHobbies`, avatar, `Delete` | delete-then-insert transactions side by side | the result is one caller's list |
| Ascents `ascent/ascent.go` | `ascents`, `logs`, `log_reactions`, `ascent_invites` | create (deduplicated), log, summit, react, feeds | check then act on rows others change | one ascent per explore item; only friends react |
| Friends `friend/friend.go` | `friendships` | request, accept | overwriting upsert | lists and checks agree on who may be seen |
| Duels `duel/duel.go` | `duels` | create, accept, decline, score | two answers at once; answers after the end | one answer; scores of the duel's window |
| Challenges, wishlist, integrations | upsert tables | join, add, plan, remove, connect | concurrent upsert and delete | idempotent; last write wins |
| Places client, providers `places/`, `providers/` | bounded TTL maps | `get`, an upstream call, `put` | expiry, eviction at the limit, failures cached | bounded; never stale beyond the lifetime; a failure is no answer |
| Explore `explore/*.go` | `trails`, `places_catalog` | feed, search, treks, detail | seven searches over one channel; unawaited writes | answers complete and in category order |
| Pagination `httpx/httpx.go` | none | `Pagination`, `NextCursor` | list changes between pages; millisecond cursor | no row repeated, none skipped beyond the cursor's precision |
| Catalog, discovery, hobby, domain, config, router | none or read-only | queries, static data, wiring | - | not modelled, see section 7 |

How they interact: the router puts per-address limiters (`RateLimiter`) before
the handlers; sign-in holds two more, keyed by phone. `RequireAuth` passes the
user id of the access token, a signature only, on to every other component.
Deleting a user cascades into every table with a `user_id`; `otp_codes` has
none. Reactions, feeds and duels read the rows `friend` writes. `ascent.Create`
asks `explore` for an item; `explore` calls `places` and `providers` through
their caches.

`PROJECT.json` "hazards" lists what is hard to test, line by line, with the
properties that cover it, or why none does.

## 2. Modules

| Module | Models |
|---|---|
| `FixedWindow` | what callers may rely on: one window per key, at most `Limit` hits in it, none after it expired |
| `RateLimiter` | `ratelimit.go`: the map, the mutex, the lazy cleanup |
| `MCRateLimiter` | its instance for TLC |
| `RateLimiterProofs` | inductive invariant, refinement, bursts, and what the sweep leaves |
| `Tables`, `TableLemmas` | rows by key: insert, delete; lemmas |
| `Auth` | `auth.go`, the cleanup of `main.go`, account deletion of `user.go` |
| `MCAuth` | its instances for TLC |
| `AuthProofs` | inductive invariant and its corollaries; guesses, deaths of rows, one token per sign-in |
| `Profile` | `user.go`: onboarding, `SetHobbies`, `UpdateName`, `Delete` as transactions side by side |
| `MCProfile` | its instances for TLC |
| `ProfileProofs` | what its calls leave, for any number of them |
| `Social` | accounts, `friend.go`, and the calls in flight that the next three share |
| `Ascents` | `ascent.go`; extends `Social` |
| `Duels` | `duel.go`, `challenge.go`; extends `Ascents` |
| `Belongings` | `wishlist.go`, `integration.go`, devices and avatars of `user.go`; extends `Social` |
| `Community` | these four and the deletion of accounts, with their properties |
| `MCCommunity` | its instances for TLC |
| `CommunityTypeProofs` | what each step writes, and types |
| `CommunityProofs` | inductive invariant and the invariants of the run |
| `CommunityStepProofs` | what no step ever does, and what the queries show |
| `Cache` | the TTL map of `places/cache.go` and `providers/cache.go`, as operators |
| `Content` | `places.go` and the providers, each with a cache; extends `Cache` |
| `Explore` | `explore/*.go`: the feed and its cards |
| `Boot` | `db.go` and the start, exit and shutdown of `main.go` |
| `Pages` | limits and cursors of `httpx.go` with the paged queries of `ascent.go` |
| `Service` | the last four, which share no state, and the fairness of the feed |
| `MCService` | its instances for TLC |
| `ServiceProofs` | all of its invariants: migrations, caches, walks, mosaic, feeds, cards, types |

`RateLimiter` implements `FixedWindow` (checked, and proved); `Auth` composes two
instances of `FixedWindow` for `requestLimit` and `verifyLimit`. There
`MaxWait` is 0: what `Allow` decides is a step at one reading of the clock.

### Limiter

| Code | Model |
|---|---|
| `hits map[string]*windowCount` | `hits`, a function on the keys present |
| `now := time.Now()` before `mu.Lock()` | `ReadClock(p, k)` puts request `p` and its reading into `waiting` |
| the locked section | one step: `OpenWindow(p)` or `CountHit(p)`, each with the sweep (`Swept`) first |
| `limit`, `window`, `10_000` | `Limit`, `Window`, `CleanupAt` |
| process restart | `Restart` |

`window` and `recent` are history: each key's latest window, swept from the map or
not, and when it was let through. A request may wait for the mutex for up to
`MaxWait` ticks, so readings arrive there out of order. `MaxWait` is a parameter,
not a promise of the code; every property that depends on it names it.

### Sign-in

A call is one step per SQL statement; `calls[w]` holds the next statement of the
request worker `w` serves and the Go locals it needs.

| Code | Model |
|---|---|
| `Service.RequestOTP` | `RequestOTP` (limiter), `SaveOTP`, `SendSMS` |
| `Service.VerifyOTP` | `VerifyOTP` (limiter, dev code), `SelectOTP` and `ConsumeOTP`, `UpsertUser`, `SaveRefresh` |
| `Service.Refresh` | `Refresh`, `SelectRefresh` and `ConsumeRefresh`, `SaveRefresh` |
| any statement fails, `500` | `FailCall`; a lost commit answer is inside `ConsumeOTP`, `UpsertUser`, `ConsumeRefresh` |
| cleanup goroutine | `SweepTick`, `SweepOTP`, `SweepRefresh`, `SweepFails` |
| `DELETE FROM users`, cascade | `DeleteAccount` |
| crash and start | `Restart` |

**The two statements of `ConsumeOTP` and `ConsumeRefresh`.** Both are `UPDATE t
SET flag WHERE id = (SELECT id FROM t WHERE ... flag = FALSE ...)`. Under READ
COMMITTED, the default, which the code does not change, the uncorrelated subquery is
evaluated once, on the statement's snapshot. If another transaction holds the
row, the update waits, and then re-checks its own condition on the new version of
the row: `id = <value found>`, which is still true. Hence two steps, and the
second tests nothing but that the row still exists.

Abstractions: codes and tokens stand for their hashes; phones are normalised and
valid (others are refused before any state changes); the database's clock and
the process's are one; HTTP bodies, JSON and access tokens are left out. An unset
`DevCode` or `ReviewPhone` is `None`, which is no code and no phone. The history
variables record where a row came from (`codePhone`, `userPhone`, `login`) and
what was granted (`uses`, `rotations`, `tries`); no guard of an action reads them but
to keep ids fresh (as random ids are).

### Profile

A call stands for the transaction it runs on one account's rows. What it wrote and
has not committed is `draft[c]`; a key in it is locked by `c`.

| Code | Model |
|---|---|
| `SetHobbies` | `SetHobbies`, then `Snapshot` and `DeleteRow` (the `DELETE`), `InsertRow` and `CheckUser` (each `INSERT` and its foreign key), `Commit` |
| `CompleteOnboarding` | `CompleteOnboarding`, `LockUser` (the `UPDATE users`), then as above |
| `UpdateName` | `UpdateName`, `LockUser`, `Commit` |
| `Delete`, cascade | `Delete`, `LockUser`, `Snapshot` and `DeleteRow` over both tables, `Commit` |
| `defer tx.Rollback` | `Rollback`, in `Fail`, `CancelDeadlocked` and where a foreign key fails |

Under READ COMMITTED a `DELETE` visits the rows committed when it began (`seen`, with
each row's identity, the call that inserted it); it waits for a row another call
has locked, deletes the version that call left, and skips a row that is gone. An
`INSERT` waits for the holder of its key and then meets what that one committed: a row
(`OnConflict`) or none. A new row takes the row of `users` FOR KEY SHARE (`share`), which goes
with an update of the name but not with a deletion. `Blockers(c)` is whom a call waits
for; a cycle of them is a deadlock, of which PostgreSQL cancels one. A `DELETE` visits rows
in any order, and so may wait for any row it has left. Positions start at 1; a
theme is written together with its position. A process that dies is a `Fail` of each
of its calls.

### Community

A call of several statements is a record `call[w]` that names the next statement and
holds what earlier ones read; a call of one statement is one step. Any call may `Fail`.

| Code | Model |
|---|---|
| `friend.SetStatus` | `Request`, `Accept`: the upsert |
| `ascent.Create` | `CreateAgain` (found), or `Create` (not found, no source, or the lookup failed), then `InsertAscent` or `InsertConflicts` |
| `ascent.AddLog` | `AddLog` (ownership), `InsertLog` |
| `React`, `Unreact` | `MutateReaction` (owner), `RequireFriend`, `React` or `Unreact` |
| `Invite`, `Summit` | `Invite` (friendship), `InsertInvite`; `Summit` |
| `duel.Create` | `CreateDuel` (`MayDuel`), `CheckDemo`, `InsertDuel`, `ListCreated` |
| `Accept`, `Decline` of a duel | `Respond`: one `UPDATE`, atomic on its row |
| `challenge.SetJoined` | `SetJoined` |
| wishlist, apps, devices, avatar | the actions of `Belongings` of the same names |
| lists, feeds, pages, scores, progress | `FriendsOf`, `MatchContacts`, `FeedOf`, `DetailOf`, `DuelsOf`, `SeenBy`, `Progress`: functions of the tables |
| `DELETE FROM users`, cascade | `DeleteAccount`: the parts' `...Delete` in one step |

Foreign keys and unique indices are guards of the inserting step: where they fail the
call can only fail. An access token outlives its account, so the caller of any action may
be gone. A log is stamped when its statement starts and seen when it commits.
`answered`, `replies` and `befriended` are histories.

### Service

| Code | Model |
|---|---|
| `ttlCache.get`, `put` | `Live`, `Evictions` and `AfterPut`: one step each, under the mutex |
| a provider or Google call | `Miss`; `Say`, `Refuse` or no answer; `Receive` with the provider's own rule of what to keep; `Summary` for wiki, which tries two hosts |
| `Handler.Feed` | `StartFeed`, `SearchRail` for each section, then `SearchPart(i)` side by side and `UnwindItems` per part taken off the channel |
| `fallbackFeed`, `hobbyIDs` | functions of the same names |
| `Handler.Treks`, `persistTrails` | `Treks`; `PersistTrails` row by row, `PersistFails` |
| `Handler.Detail`, `enrich` | `OpenCard`, `OpenPlace`, `OpenTrail`; `Enrich` |
| `Migrate`, per file | `EnsureTable`, `Check`, `Apply`, `Record`, `CommitFile`; `Exit` rolls back |
| `main` | `Connect`, `Migrate`, `Shutdown`, `Exit` |
| `Pagination`, `NextCursor` | functions of the same names; `FirstPage` and `NextPage` are a client that follows the cursors |

`Record` waits for another transaction that has inserted the same version, since the
version is the primary key, and fails once that one has committed. `said` is a history: the saying
(of which upstream, of which key, what and when) that a result comes from. A page is any that `ORDER BY created_at DESC LIMIT` allows.

## 3. Runs

| Run | Question | Instance |
|---|---|---|
| `rate_limiter` | do cleanup and stale readings show? | 3 keys, 2 requests, `Limit` 2, `Window` 2, threshold 1, `MaxWait` 1, `MaxHits` 3, time 0-4 |
| `auth_concurrent` | two requests at once, with everything else that can happen | 2 workers, 1 phone, 1 code row, 2 accounts, 2 tokens, lives of 1, grace 0, limit 2, time 0-2 |
| `auth_phones` | do rows of two phones mix? | 2 workers, 2 phones, one of them the review phone, 2 code rows with one code (the dev code), 2 accounts, 2 tokens, time stands still, cleanup away |
| `auth_sequential` | one request at a time; are dead rows deleted in the end? | 1 worker, 1 phone, 2 codes, 1 account, 2 tokens, code life = window = 2, limit 2, time 0-3, fairness |
| `otp_single_use` | is a code single use when requests overlap? No | 2 workers, 1 phone, 2 codes, 1 code row, 2 accounts, 2 tokens, time 0-1 |
| `refresh_single_use` | is a token? No | as `otp_single_use` |
| `profile` | what do overlapping profile calls leave, and do they end? | 3 calls, 2 interests, lists `<<>>`, `<<a, b>>`, `<<b, a, b>>`, fairness |
| `set_hobbies_replaces` | does `SetHobbies` replace the list? Not when calls overlap | 2 calls, lists `<<a>>`, `<<b>>` |
| `community` | do members' calls and deletions leave the tables and the counts right? | 2 members, 1 demo climber, 2 workers, 3 ascents, 2 logs, 1 duel of 1 day, 1 challenge, 2 wishes, time 0-2 |
| `create_twice` | does a create return what is there? Not when two overlap | as `community` |
| `service` | caches, feed, cards, migrations and pages | 2 callers, 2 keys, 2 contents, `CacheMax` 1, time 0-4; 4 categories; 2 trails, a trek, another card; 2 processes of two releases, 3 starts each; 3 rows, 2 microseconds a millisecond |
| `trail_card` | does a stored trail's card open? No | as `service` |

What they show:

- `MapTellsWindows`: an entry is its key's latest window and counts it; a key
  without an entry has no running window. `OverThresholdAllRunning`: above the
  threshold only windows are left that were running a moment ago.
- `BurstBound`: a key is let through at most `2 * Limit - 1` times in any
  `Window - MaxWait` ticks.
- `ImplementsWindows`: refinement of `FixedWindow`, under the history variable `window`.
- `SessionBacked`: each stored token goes back, over rotations, to a code that was
  sent to, and granted for, the phone its account was created for, or to the dev
  code where that applies. With two phones whose rows hold the same code, only the phone in `ConsumeOTP`'s
  subquery keeps one from signing in with what was sent to the other. `NoTokenOfDeletedUser`: no call in flight revives a
  deleted account. `DiesOnlyByUse`: a live code or token dies only by being
  presented, by expiry or, for a token, with its account; so the cleanup never costs a session.
- `OncePerWorker`: a statement that starts after a row was consumed does not find it.
- `OtpSingleUse`, `RefreshSingleUse`, `OneTokenPerLogin`: true one request at a time.
- `TriesBounded`: while a code lives (and the process does), it can be tried at most
  `2 * VerifyLimit - 1` times, if it lives no longer than a window. The instance reaches that
  number.
- `DeadTokensSwept`: revoked and expired tokens are deleted eventually.
- `HobbiesStored`, `SurvivorsOverlapped`: the list of the last `SetHobbies` to commit is
  stored whole and in order; other calls' hobbies survive it only if those calls
  overlapped it. `OnboardingAtomic`: interests and name are always those of one onboarding.
  `OnboardingNeverDeadlocks`: nor does one ever wait in a circle. `NothingWithoutAccount`:
  no call in flight writes to a deleted account. `EveryCallEnds`.
- `SameAscent`: creates of one item that succeed answer with one ascent, however many race.
- `RowsBelong`: no insert that was on its way when an account went leaves a row behind, and
  a log is its ascent's owner's. `DeletionKeepsOthers`: a deletion takes only what its own
  account wrote, although logs go by ascent.
- `ContactNeedsFriendship`: reactions, invites and duels are between those who are, or
  were while it was asked for, friends. `ShownCanBeViewed`: the queries that show people and logs agree
  with the checks that guard what can be done with them.
- `AnsweredOnce`: one answer per duel. `FinalScores`: after the end scores stand.
  `CountsNeverFall`: scores and progress, counted anew each time, only rise.
- `PlanKept`: saving a place again leaves its plan alone.
- `CachedWasSaid`: a hit is just what that upstream said of that key, no older than lifetime and timeout; only
  wiki, commons and trails may keep an empty result nobody said. `CachesBounded`: a put at the limit
  makes room (the theorem covers every limit and every choice of what to evict).
- `FeedOrdered`: an answered feed has each section once, from the popular to the unwind one
  (`SectionsOrdered`), and whatever the order of the searches, its mosaic holds for each category what its own
  search found (`MosaicOrdered`). `FeedAnswers`: a feed is answered.
- `HeroFirst`: pictures and sources of a card appear once, its image first.
- `MigratedInOrder`: files are committed once and in order, `schema_migrations` says just that, and who
  serves has all its binary knows.
- `WalkShowsAll`: a walk repeats nothing and passes over nothing that was there all the time, but for rows
  of the millisecond in which a page ended.

Bounds and why they are enough. `rate_limiter`: with a threshold of 1, two
entries start the cleanup, and the third key is one whose entry another key's call
drops; five ticks hold a window, its expiry and the next; two requests give every
order of two readings and two locked sections. `auth_concurrent`: the races are
between two calls on one row, or between a call and the cleanup or a deletion; the second
account id is what a phone gets when it signs in again after deletion; two tokens
are one rotation; with lives of one tick, three clock values let codes and tokens expire while in use,
and at time 2 those of time 0 have been expired for a tick and are swept. `auth_phones`: mixing two phones
takes a row of each, a call of each, an account of each and a rotation. Phone `p1` is the review phone, for
which the dev code is enough; the other needs a row. One code value is the worst case,
since then only the phone tells the rows apart. Deletion of a row gives nobody a session, so the cleanup is kept away by a
state constraint (`CleanupAway`), and time, which only takes rows away, stands still. `auth_sequential`:
four clock values are the fewest in which a code's life touches two windows of
attempts, and with two codes a guess can be wrong. Ids and tokens are used once each; when they run out calls can only
fail. `community` and `service`: a variable `focus`, chosen at the start, says what a behaviour is
about, since the product of parts that do not meet each other is out of reach. In `community` a state
constraint keeps each focus (`MCCommunity`) to its tables and to two calls at once where calls race with
calls (creates and logs; apps), to one where they race only with single statements; acceptance,
deletion and failure go on beside every one. Two members and a demo climber are
every pair the checks tell apart; three ascents are the seeded one and two that race; a duel of
one day over three days has a day before, at and after its end; a challenge has a target one log above its base. In `service` one part moves at a
time (they share nothing); a cache of one entry and two keys evicts on every second
put (which entry goes when there are several is left to `CachesStayBounded`), and two contents tell an
old answer from a new one; a tick is the timeout of
a call, and lifetimes are 1 or 2; two processes, one of which knows a file more, three starts each, allow a
crash at every step of both; two microseconds a millisecond give rows of one
millisecond and rows of two. `profile`: two calls
overlap, the third has left rows for them to find or deletes the account; each call is made
once; with two interests inserts can cross, and a list can name one twice. `MaxHits` caps the count of refused hits, `MaxTime` the clock. Symmetry:
keys, requests, workers, row ids and tokens are interchangeable; it is never used with a
liveness property.

Fairness (`FairSpec`). `profile`: a call goes on where it can (`WF(Advance(c))`): its handler
runs, a free lock is granted, and PostgreSQL's detector, which is always on, ends a deadlock. No
request is ever obliged to start or to fail. `auth_sequential`: the cleanup goroutine loops for ever, so
its next round is scheduled (`WF(SweepTick)`), and a statement it reaches again and
again is not refused each time (`SF(SweepOTP)`, `SF(SweepRefresh)`). Strong fairness
is needed: a failure of the first statement ends the round, so the second is reached
only now and then. Nothing is assumed of requests, clients or time.
`service`: a feed that was started goes on (`WF` of `SearchRail`, each `SearchPart` and `UnwindItems`):
a search ends by its client's timeout, the channel has room for every part, and
Go schedules every goroutine.

`CHECK_DEADLOCK FALSE` where ids, starts or time run out and a behaviour may end.

## 4. Findings

- `otp_single_use`: `auth_test.go:120` says "Single use: same code must not verify
  twice." Two verifications that overlap are both granted (section 2).
- `refresh_single_use`: `auth.go:114` promises single-use rotation. Two refreshes with
  one token that overlap both succeed, and both new tokens are live.
- `set_hobbies_replaces`: `user.go:163` says `SetHobbies` replaces the hobbies. Two that
  overlap leave the union of both lists. Locking the row of `users` first, as onboarding
  does, would keep them apart.
- `create_twice`: `ascent.go:394` says an item that is on the range is returned. Of two creates that overlap
  the second answers 500.
- `trail_card`: `enrich.go:127` says a trail card resolves to its detail page. Its id has a slash in it; the
  router hands the segment on as `osm_way%2F123`, which is no row's id.

`AND consumed = FALSE` (`revoked = FALSE`) in the outer `WHERE` would make the
re-check after the lock wait refuse the second.

## 5. Proofs

TLAPS checks these for every value of the constants. Every invariant and every action property
that a passing run checks is a theorem; the runs show that their instances meet the cases the
proofs speak of. Each proof module is laid out alike: an inductive invariant, what each action
writes, one lemma per action (or per conjunct, where that is shorter), the theorems.

**`RateLimiterProofs`.** `Safety`, from `IInv == TypeOK /\ ReadingsPast /\ MapTellsWindows`.
`MapTellsWindows` needs `ReadingsPast`: what the sweep drops has expired for the reading of a caller,
hence by the clock, which is not behind it. `CleanupIsInvisible` and `TypeCorrect` follow.
`Refinement`: each step opens, counts, or stutters. `BurstsBounded`, from `Bursts`: what is
remembered of a key are the hits its window let through and fewer than `Limit` of the window before, since
by the time a window opens the first hit of the one before it is forgotten. `OnlyRunningPastThreshold`: the call
that takes the map past the threshold sweeps first, and what its reading finds running ran
at most `MaxWait` ago (`RanLately`, `SweptPast`).

**`AuthProofs`.** `Safety`, from `IInv`: types; `CodesTracked` and `TokensTracked` (a row
that was granted stays marked, and nobody who was granted it is about to be again);
`AccountsTracked`; `CallsBacked` (a call past its check is entitled to what it will
store), which is what makes `SessionBacked` inductive; `NoTokenOfDeletedUser`. From it
`GrantedOncePerWorker`, `SessionsBacked`, `DeletionEndsSessions`. Three more stand on it:

- `GuessesBounded`, from `TriesIInv`: a code's tries fall into the limiter's current window for its
  phone and the one before it, since a code that lives no longer than a window touches no third.
- `LiveUntilUsed`, an action property: no action but `ConsumeOTP` and `ConsumeRefresh` changes a row that is
  live (`TokenFate`, `CodeFate`); the cleanup deletes only what has expired or is marked.
- `SequentialOtpSingleUse`, `SequentialRefreshSingleUse` and `SequentialOneToken`, where there is
  at most one worker: overlap is the only cause of the findings on codes and tokens. `OneIInv`: while the worker is between the
  revocation of a token and the insert of its successor, its sign-in has no token that works.

**`CommunityTypeProofs`, `CommunityProofs`, `CommunityStepProofs`.** `IInv` joins the properties with what
makes them inductive: `CallsEntitled` (what a call has checked still holds when it writes, as far as
the row is there: ids are handed out once and no row changes its owner), without which
an insert on its way could be of another's ascent; `FollowingMet` (an accepted row is
remembered in `befriended`); `OnePerSource` (the partial unique index) and `AnswersStand`
(an ascent a create answered with is there as long as its account), from which `SameAscent`;
`FreshUnanswered`, from which `AnsweredOnce`; `LogsFinite`, without which nothing could be counted.
The step properties follow from `IInv` before the step: `OthersKeepTheirs` needs that a log is its ascent's
owner's; `ScoresAreFinal` and `NoCountFalls` that logs are stamped by the clock, never
change, and go with their account only.

**`ProfileProofs`.** `PInv`, for any number of transactions: a key is locked by one call at a time
(`Disjoint`); onboardings and deletions have the row of `users` before they write a list (`LockFirst`),
which a foreign key and a deletion cannot both hold (`ShareOrDelete`), so no insert passes a deletion
(`Deleted`); who has that row finds all it is to delete (`Covered`); what a call has inserted is in its draft, at the last
place its list names it (`Written`); and a `SetHobbies` finds what was committed before its `DELETE`
began (`FoundBefore`). From it `LastHobbiesStored`, `OnlyOverlappedSurvive`, `OnboardingIsAtomic`,
`DeletionIsComplete`. `OnboardingIsFree`: an onboarding at the row of `users` holds nothing; past it, it has the row
and waits for nobody, or the account is gone and whoever it waits for waits for nobody; so it is in no
cycle of any length.

**`ServiceProofs`.** The parts share no state, so each has an invariant of its own:

- `MigrationsInOrder`, from `BootIInv`: a process has passed only what is
  committed (`PassedCommitted`), and who is about to commit a version is alone with it
  (`CommitsAlone`, which the primary key gives); `RecordedIsBehind` turns that into the order.
- `CachesStayBounded`, from `CacheIInv`: whatever `put` evicts leaves room for one more
  (`EvictionsMakeRoom`), so the limit holds with any number of callers between a miss and a put.
- `HitsWereSaid`, from `SaidIInv`: a call has lasted no longer than the timeout and its reply was said
  meanwhile (`Timely`), of the service and key the call is about (`Said`), under which it is put; so an entry expires no
  later than a lifetime and a timeout after it was said (`Dated`).
- `WalksShowAll`, from `PagesIInv`: what of the rows there at the beginning was neither shown nor passed over
  is what the cursor leads to (`AllAhead`), and nothing shown is older than the cursor (`NoneOlder`).
- `MosaicsInOrder`, from `FeedIInv`: a part on the channel is its goroutine's and there once (`PartsSent`); when all
  are taken, none is left (`LastPart`).
- `FeedsInOrder`, from that and from `SectionsIInv`: with Google the sections so far are the first rails; without,
  `FallbackInOrder` shows that the four parts of `FallbackFeed` name nothing twice, for which the hobbies must be different
  (`FirstHobbiesDistinct`).
- `HeroesComeFirst`, from `CardIInv`: `EnrichKeepsHero`, from what `DedupePrepend`, `AppendImages` and
  `AppendUnique` keep.
- `TypesHold`, from the invariants above and `ContentTypes`, `InFiles`, `Bounds`.

The loops of the code that the feed and the cards depend on (`FirstHobbies`, `DedupePrepend`, `AppendImages`) are recursive functions. That
such a function has values is shown without an induction scheme: of the rounds up to which there is no
function, there would be a least one (`LeastNumber`, `UpTo`, `LoopExists`).

`TableLemmas`: inserting and deleting rows.

Assumed, each by name in the module that declares the constant:

- limits, windows, page limits, timeouts and cache sizes are positive; lifetimes, bounds on time and what clients ask
  for are natural numbers;
- `None`, `NoPlan` and `Nothing` are none of what they stand in for (`NoneAssumption`, `SourceAssumption`,
  `PlanAssumption`, `ContentAssumption`); `ParentAssumption`, `OpponentAssumption` and
  `CatalogAssumption` type what requests and the catalog name;
- `FilesAssumption`: a release adds files after those there were, and no two files have one name;
- `CategoriesAssumption`, `RailsAssumption`: the code's lists are not empty, and no section is named twice;
- `SearchAssumption`, `HobbiesAssumption`, `CardsAssumption`: results and hobbies are lists, trails finitely many.

Only model-checked: `DeadTokensSwept`, `EveryCallEnds` and `FeedAnswers`, since liveness under
fairness is beyond the prover; and the five properties of section 4, which do not hold.

## 6. Plan

What is left, in order of importance:

1. `Session`: an abstract specification of sign-in (an account is signed in by a code and stays so
   through rotations) that `Auth` with one worker implements, checked and proved.
2. Abstract specifications of `Profile` (a list that is replaced at once), for calls that do not overlap, and of
   the feed (an answer that appears), and their refinements.
3. `Community` without `focus` on instances TLC can still finish, to see parts meet that now do only in the proofs.

## 7. Not modelled

- Access tokens: a signature, no state. What they allow after a deletion is that the caller of any
  action of `Community` may be gone.
- `places_catalog`: searches and cards write it, nothing reads it, so no property can tell what is in
  it. The same unawaited write into `trails`, which is read, is modelled.
- Explore's text search, the discovery feed, the catalog, hobby content, `GetHobbies` and the curated treks and places:
  they read tables that nothing here writes, or data in the code, and keep nothing.
- Google's photo proxy: it passes bytes through and keeps nothing.
- The classification of titles into categories (`domain/category.go`): keyword lists, whose only
  specification is themselves.
- Configuration loading and validation: once, before any state exists.
- Router wiring, JSON, CORS, request ids, logging, SMS formatting, JWT signatures, SQL types and
  indices other than the unique and foreign keys the modules name.
