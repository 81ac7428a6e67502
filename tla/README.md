# Formal model of e-syrians-api

This directory models the core logic of the e-Syrians API, a Laravel
application, in TLA+; it checks the model with TLC and proves parts of it with
TLAPS. `Service.php:10-20` refers to a file of the repository's `app`
directory unless a longer path is given.

Modelled are **peer verification**, which decides who is a verified member;
**polls**, in which verified members vote, and who a poll is for; the **limits**
of profile updates; **account deletion**; the **fan-out** of notifications and
their **push** to devices; and the votes on **feature requests**. Sections 1
and 2 are the inventory and how the modules divide it, sections 3 to 10
describe the modules, 11 the disagreements between the code and what is written
about it, 12 what is left out.

## 1. Inventory

A request is executed by one PHP worker (PHP-FPM; queued jobs by Horizon
workers). Workers share one MySQL database and one cache. A request is a
sequence of SQL statements, each committed on its own unless the code opens a
transaction, and rows are locked in few places (`PollService::vote` and
`updatePoll`, feature votes, device registration and the push jobs). What is
hard to test therefore lies *between* two statements of a request, or between a
request and a scheduled job.

| Component | State | Operations | What is hard | What makes it correct |
|---|---|---|---|---|
| Peer verification (`VerificationService`, `CanVerify`, `CheckUserVerificationStatus`, `User::canVerify`) | `users.verified_at`, `verification_reason`, `marked_as_fake_at`; `user_verifications` | verify, cancel, invalidation by a profile update, administrator's edit | the check is a middleware, the insertion comes after a call to a third party; the threshold is tested with `===`; models go stale | verified exactly at the threshold; quota; no repeated or mutual verification; all trust descends from first registrants |
| Polls (`PollService`, `PollController`, the poll form requests) | `polls`, `poll_options`, `poll_audience_rules`, `poll_votes`; a cached audience answer | create, edit, close, reopen, vote | an edit against a vote in flight; an edit against an edit; checks before the lock | valid and unique ballots; a poll with ballots is frozen; one source of eligibility |
| Saved audiences (`AudienceService`) | `audiences`, `audience_entries`, `audience_audits` | create, rename, add and remove entries, resolve, delete | deletion against polls that start, reopen or attach it; unlocked deduplication | an audience in use is never deleted; every edit that touches a running poll is audited |
| Poll audience (`User::isInAudience`, `Poll::isVisibleTo`, `scopeVisibleTo`, `audienceCheckFor`) | none (rules and profile) | eligibility to vote, visibility in a list and of one poll | separate evaluations, one of them in SQL | they agree |
| Poll reactions (`PollService::react`, `PollReaction`) | `poll_reactions`, counters cached for 60 s | react, withdraw | delete-then-create without a lock; a mass delete runs no hook | one reaction per member; counters catch up |
| Profile updates (`ProfileService`, `ProfileUpdate`) | `users` columns, `profile_updates` | basic info, address, census, email, avatar, language | count-then-record limits; daily pruning of what is counted | bounded changes; nobody refused who has not reached a limit |
| Account deletion (`AccountDeletionService`, `HardDeleteExpiredAccountsJob`) | `deletion_requested_at`, `deletion_scheduled_for` | request, cancel, daily sweep | a sweep that crashes, fails or meets an Apple outage; requests under way while their account is erased | nobody is erased before the grace period ran out; every expired account is erased in the end; no grant is forgotten |
| Feature requests (`FeatureRequestService`) | `feature_requests`, `feature_request_votes`, cached counts | vote, unvote, timeline, delete, restore | unique-key collision with one retry; two-save deletion; caches dropped after the commit | a click acts once; counts settle; a deletion leaves the reason it was given |
| Two-factor and recovery codes | secrets, code lists, cached challenges | set up, confirm, disable, verify, redeem | read-then-remove on arrays and cache keys | a code or challenge is redeemed once |
| Login, social login, password | `users`, tokens, cached codes | register, log in, set and reset a password | a code read, used and forgotten in three steps | a code is used once and not after its replacement |
| Platform notifications (`FanOutPlatformNotificationJob`, observer, `PlatformNotificationService`) | `notifications`, `invitations_dispatched_at`, `closure_notified_at` | fan out in batches of 200, minute schedules | crash between batches; chains started again each minute; flags read by long-lived workers | everyone eligible is told, once per event |
| Devices and Expo push | `devices`, queued pushes and receipts | register, send, process receipts | retries, late receipts, a token that changes owner | only routable devices get a push; a dead token is dropped |
| Preferences, delivery settings, feature flags | one row or cached value each | read, write | none alone; guards of every delivery | - |
| Statistics | forever caches, daily command | refresh on an event, recompute daily | concurrent increments of a cached array | counts match the tables after a recompute |
| Weekly newsletter, BigQuery mirror | none, external tables | scheduled and queued jobs | a crash half way; order of mirrored copies | no member skipped; the last copy wins |
| Panel assets and front-end build files (`public/js/filament`, `resources/js`, `*.config.js`) | none | third-party minified scripts, build settings | no code of this application | - |
| Reports, suspicious activity, security events, donation settings, file uploads, registration, locale, reCAPTCHA, response helpers | one row each, or none | single insertions, upserts and reads | nothing beyond one statement | - |
| Admin panel (Filament) | the tables above | generic forms | pages that hold old values | modelled: the user form's verification columns (section 3) and a feature request's deletion reason (10); the forms for polls and verification rows are left out (12) |

`PROJECT.json` lists every component with its sources, and under `hazards`
the places in the code where these difficulties bite, with the properties that
would catch each; section 12 names those that no property covers.

## 2. The modules

| Component module | Abstract specification it implements | Proofs |
|---|---|---|
| `Verification` (section 3) | `TrustRegister` | `VerificationProofs` |
| `PollVoting` (4) | `BallotBox` | `PollVotingProofs` |
| `PollAudience` (5) | - | `PollAudienceProofs` |
| `ProfileLimits` (6) | - | `ProfileLimitsProofs` |
| `AccountDeletion` (7) | - | `AccountDeletionProofs` |
| `FanOut` (8) | `DeliveryLedger` | `FanOutProofs` |
| `PushDelivery` (9) | - | `PushDeliveryProofs` |
| `FeatureVotes` (10) | `VoteBoard` | `FeatureVotesProofs` |

`MC<module>` gives a module's constants their values. A worker (PHP worker,
queue worker, sweeper) executes one request or job at a time; `request[w]`,
`jobs[j]` or `sweep[q]` holds where it is (`pc`) and what it has read. One
action is one statement that others can observe, with the reads before it.
Names of the form `Definition_Variant`, beside the definition, are plausible
mistakes: each property is known to be violated when the variant takes the
definition's place.

The modules meet in a few places, and each has the other's part as a free
choice: `Verification` has the rows `ProfileService::updateBasicInfo` cancels
and the limits are in `ProfileLimits`; `AccountDeletion` has the rows that other
requests insert; `FanOut` takes "who is to be told" as a set that changes, since
`PollAudience` says who that is; `PushDelivery` begins where `FanOut`'s
transaction has queued a push.

## 3. Peer verification

### `Verification.tla`

| Model | Code |
|---|---|
| `verifications`: a sequence of rows `[verifier, user, cancelled]`, the index is the id | table `user_verifications` |
| `verified`, `firstRegistrants`, `banned` | `users.verified_at`, `verification_reason = first_registrant`, `marked_as_fake_at` |
| `complete` | the profile fields `verifyUser` requires are filled |
| `request[w]`: what worker `w` is executing and what it read earlier | the local variables and loaded models of a request |
| `VerifyCheck`, `VerifyInsert`, `VerifyReject`, `VerifyCount`, `VerifyGrant` | `CanVerify` middleware, `VerificationService::verifyUser`, and the listener that runs in the same request |
| `CancelLoad`, `CancelMark`, `CancelRead`, `CancelRevoke` | route binding, `cancelVerificationByVerifier` and its recount |
| `BasicLoad`, `BasicCancel`, `BasicRevoke` | `ProfileService::updateBasicInfo`: the rows *given* are cancelled in one UPDATE, then `markAsUnverified` |
| `AdminSave` | the administrator's user form, which writes whatever the page holds |

Nothing in these requests runs in a transaction, so every statement that
others can observe is an action, together with the reads before it. Reads that
a request uses later are in `request` (for instance `loaded` in `BasicLoad`: a
model loaded with a null `verified_at` is not dirty when it is set to null, so
nothing is written). Left out: soft deletion of rows by an administrator's
generic form, mails, IP addresses, wording. The hard deletion of an account
removes rows and accounts; it belongs to `AccountDeletion`, and the properties
here are about API requests.

Three next-state relations share the actions: `PeerSpec` (verify, cancel),
`MemberSpec` (and profile updates), `Spec` (and the administrator, who may write
the verification columns of the accounts in `Edited`). `Roots` are the accounts
whose trust comes from no verification: the first registrants and `Edited`.

### `TrustRegister.tla`

What peer verification promises, without requests: a set of pairs "v vouches
for u", and the trusted members are exactly the first registrants and those
with enough vouchers. `ImplementsRegister` (at the end of `Verification`'s
actions) maps `trusted` to `verified` and the rows to pairs, with one
correction: a row shows once the request that inserted it has ended
(`Settled`), and a cancelled one until the request that cancelled it has
(`Standing`). So the last statement of a request is the register's step.

### Runs

Bounds: three or four users, two workers at most, a table of two to five rows.
`MaxRows` limits how many requests are admitted, never what an admitted one
does, and a run stops when the table is full; `CHECK_DEADLOCK FALSE` is for
that. The thresholds are scaled down (1 or 2 verifiers where the configuration
has 3), so that three or four users reach them, pass them and fall below them.

| Run | Shows |
|---|---|
| `verification_serial` | one request at a time: `ThresholdExact` (verified iff enough verifiers), `NoDuplicateActive`, `NoMutual`, `QuotaAtGrant`, the refinement `ImplementsRegister`, the types, and `SettlesOnThreshold`: under fairness the status settles on the threshold after every request |
| `verification_members` | two workers, profile updates and an administrator included: `TrustRooted`, `OverrunBounded`, `AuditTrail` |
| `verification_race_threshold` | violation: two workers step over the `===` and the user stays unverified |
| `verification_profile_revoke` | violation with one worker: a profile update cancels what its author gave and leaves the recipients verified |

Two workers and two or three rows suffice for the races: each needs two
requests and the rows they insert.

**Fairness.** `FairPeerSpec` has weak fairness of `Proceed(w)`, the remaining
statements of a request already under way: PHP runs a started request to its
end. It does not oblige anyone to start a request, and it does not cover a
worker killed half way (such a crash can leave a member verified or not as the
last statement left them; that is not claimed to settle).

### Proofs (`VerificationProofs.tla`)

For every set of users and workers and all thresholds allowed by
`UsersAssumption`:

- `TypeCorrect`: `TypeOK` is inductive.
- `AuditTrailKept`: rows are only appended, and cancelled only by their
  verifier. The invariant `MarksOwnRow` says that a request about to mark a row
  acts for the member who gave it; it is needed because that check was made one
  statement earlier.
- `TrustAlwaysRooted`, under the full `Spec`: the invariant `TrustInv` adds to
  `TrustRooted` that the actor of a pending insertion is one of `Roots` or has
  received a row, which stays true although the status it was admitted on may
  be lost.
- `OverrunAlwaysBounded`: the invariant `LoadBounded` counts active rows
  *plus* pending insertions of the other workers. A check bounds the rows
  alone, so it may admit one insertion per other worker and no more.
- `OneWorkerNoDuplicate`: its instance for one worker.
- `OneWorkerNoMutual`: for one worker; the invariant `MutualInv` adds to
  `NoMutual` that what the middleware read about the pair still holds while the
  insertion is pending, which needs that no other request can insert meanwhile.
- `OneWorkerQuota`: `QuotaAtGrant` for one worker under `MemberSpec`. The
  invariant `CheckHolds` says that all the middleware checked is still true at
  the insertion; an administrator, who could ban or demote the member in
  between, is therefore excluded. The theorem covers profile updates too, which
  the run of the property does not.
- `OneWorkerExact`: `ThresholdExact` for one worker under `PeerSpec`. Between
  the statements of a request the status of its recipient lags behind the rows;
  `SerialInv` says by how much (`CountLag`: a row is in and the listener has not
  written; `CancelLag`: a row is cancelled and nobody has recounted) and that
  everybody else's status is exact. The listener's `===` is enough because
  `CountLag` includes that the count is not above the minimum. A profile update
  breaks the property, which is the run `verification_profile_revoke`.
- `OneWorkerRegister`: `ImplementsRegister` for one worker under `PeerSpec`.
  `RegisterInv` joins the invariants above and adds that a row about to take
  effect is active and was given by a verified member within the quota
  (`GivingHeld`), and that a row about to be withdrawn was its pair's only
  active one (`WithdrawalHeld`). As no pair has two active rows, as many members
  vouch for a user as active rows name them (`VouchersCounted`, by a bijection);
  with `SerialInv` this makes `verified` what the register trusts whenever a
  request has ended.

With two workers the last three do not hold: `verification_race_threshold`
shows it for the threshold, and `OverrunAlwaysBounded` says what remains of the
quota.

## 4. Polls and voting

### `PollVoting.tla`

| Model | Code |
|---|---|
| `polls[p]`: status, window in days, `max`, `generation`, `audience`, `rules` | `polls` (with `deleted_at` as status), `poll_options` and `poll_audience_rules`. An edit replaces all options, so a poll's options are its current generation; `rules` holds whether there are demographic and `allowed_voter` rules |
| `ballots[p]`: one entry per vote request | the `poll_votes` rows of each request |
| `audiences[a]` | an audience, whether it is deleted, and the members its entries match |
| `CreateValidate`, `CreateResolve`, `CreateSave` | `StorePollRequest`, then `createPoll`'s transaction, which looks the audience up again |
| `UpdateAuthorize`, `UpdateLock`, `UpdateSave` | `UpdatePollRequest`, then `updatePoll`'s transaction |
| `VoteLock`, `VoteSave` | `PollService::vote` |
| `ToggleLoad`, `ToggleSave` | `PollController::status`, `toggleStatus` |
| `EditEntries`, `AudienceDetect`, `AudienceDelete` | the entry endpoints and `softDelete` of `AudienceService` |
| `Tick` | the passing of a day |

`vote` and `updatePoll` begin with `SELECT ... FOR UPDATE` on the poll's row.
Their other reads come from the snapshot fixed by the first plain read after
the lock, so lock and reads are one action and write and commit another;
`Locked` keeps every other writer of the row waiting, also the `UPDATE` of a
toggle. The form requests run before the transaction, without a lock. MySQL's
default isolation is assumed.

Abstractions: time in whole days, as the forms take it; the demographic rules
of a poll are one rule that some members match; `Payloads` and `Patches` are
the requests clients send in a run. Left out: private polls, question and
display settings, BigQuery dispatches, reads (with the cached answer of
`GET /polls/audience`, which no edit invalidates). The audiences of a run exist at
its start; one that does not exist yet is referred to by nobody. The profile
data a rule looks at does not change in a run.

### `BallotBox.tla`

What a poll promises to its voters: its terms change only while the box is
empty, a ballot is cast under the terms in force, once per voter, in an open
poll, and never altered. `ImplementsBox` maps `terms` to a poll's columns but
the status, `cast` to `ballots`, `open` to "not deleted".

### Runs

One poll, one audience, two members (one matches the poll's rule, the other is
named by the old allowed-voter rule), two options, two workers, two days, one
replacement of the options (`Replacements`). The properties are per poll; two
workers are an edit against a vote, a vote against a vote, an edit against an
edit, or any of them against a toggle or a deletion; two days are before and
within a window that starts on day 1, or within and after one that starts on
day 0. Five patches cover new options, a new window, attaching, detaching and
restricting.

The run `poll_voting` starts with no poll or with one of the old kind, whose
voters are named. It checks `BallotsCurrent` (no ballot refers to a replaced
option), `OneBallotEach`, `Exclusive` (one source of eligibility), `LegacyKept`
(an edit does not open an old poll to others), the types, and the refinement
`ImplementsBox`.

Deadlock is checked: some request is always possible, and
nobody waits for a lock whose holder cannot go on (a transaction holds one
poll's row and waits for nothing).

The module claims no liveness: each request ends after at most two waits for
the same row, and nothing in this part is scheduled.

### Proofs (`PollVotingProofs.tla`)

For every set of polls, members, audiences and workers, all payloads and
patches of the declared types, and any number of days:

- `TypeCorrect`: `TypeOK` is inductive.
- `Invariance`: `IInv` is inductive. `LockExclusive` says that one transaction
  at most holds a poll's row; `CreateExclusive` that one request at most makes
  a poll; `Ready` that what a transaction read under the lock is still true: a
  vote about to be saved can still be cast, an edit about to be saved still
  meets an open poll with no ballots, and the audience an edit means to keep is
  still the poll's. `AbsentEmpty`, `BallotsCurrent`, `OneBallotEach` and
  `Exclusive` complete it. None of the four would be inductive alone: each
  save acts on what the lock step saw.
- `BallotsStayCurrent`, `VotersAreUnique`, `SourcesExclusive`: parts of `IInv`.
- `Refinement`: `Spec => ImplementsBox`. Saving a poll or an edit is
  `SetTerms`, saving a vote is `Cast`, a toggle is `OpenOrClose` or, when two
  clicks loaded the same status, nothing; every other step changes no box.
- `VotesFreeze`: an action property that follows from the refinement, since
  `SetTerms` needs an empty box.
- `AllowedVotersStay`: `LegacyKept`. Besides `IInv` it needs that a poll which
  does not exist yet has no rules (`AbsentBare`), so that creating it drops
  none.

## 5. Who a poll is for: `PollAudience.tla`

| Model | Code |
|---|---|
| `poll`: creator, `audience_only`, whether it has a saved audience, allowed voters, ages and rules | `polls` and `poll_audience_rules` |
| `profile[u]`: birth, answers; `audience`; `voters` | `users`, `audiences` and their entries, `poll_votes` |
| `IsInAudience` | the gate of a vote, `User::isInAudience` |
| `IsVisibleTo`, `AudienceCheckFor`, `Listed` | `Poll::isVisibleTo`, `audienceCheckFor`, and the SQL of `scopeVisibleTo` |
| `Edit` | `updatePoll` as far as the audience is concerned, in one step: what it overlaps is the subject of `PollVoting` |
| `Vote`, `UpdateProfile`, `EditEntries`, `DeleteAudience`, `Tick` | what changes underneath; time, by which people grow older |

The run `poll_audience` has one poll, two users and a guest, seven profiles,
six kinds of rules (no criteria, one, two, lower and upper limits, alone and
together), and years of two units, so that ages with a fraction occur. It
checks that the listing shows what its reader may open (`ListsTheVisible`) and
hides the rest (`HidesTheRest`), that the flag announces the gate
(`FlagIsGate`), and that no edit shuts out those who voted
(`EditsShutNobodyOut`). Each of the first three is stated with the exceptions
without which it does not hold; section 11 names them.

`PollAudienceProofs` proves all four and the types for every set of users,
criteria, values, profiles, ages and lengths of a year. `ListsTheVisible` and
its converse compare two pure expressions over a poll and a profile and need
only the types; `VotersKept` needs that an edit of a poll with votes leaves its
rules alone.

## 6. Limits of profile updates: `ProfileLimits.tla`

| Model | Code |
|---|---|
| `trail`: rows by the number of their request | `profile_updates` |
| `Check`, `Save`, `Record`, `Block` | the count, the change, its row, and the row of a blocked attempt, in `updateBasicInfo`, `updateAddress`, `updateCensusData` |
| `Counted` | `getBasicInfoUpdatesCount`, `getCountryUpdatesCount`, `getReligionUpdatesCount`: which rows, and of which days, differ |
| `Prune`, `Tick` | the daily `model:prune` with `ProfileUpdate::prunable`; days |
| `Die` | a request that ends between two statements |
| `changes`, `died` | history only: what was changed when, and who died |

`profile_limits`: one user (users share nothing but workers), two workers, four
requests, four days with a year of two and rows kept for one day, one death;
the address may change twice, the rest once. `TrailComplete`: recent changes
are in the trail unless their request is about to leave the row or died.
`ChangesBounded`: within the days for which rows are kept there are fewer
changes than the limit plus one for each worker, plus those of dead requests.
`BlockedDeserved`: nobody is refused who never reached the limit.
`profile_yearly_limit` is a violation: with one worker and nobody dying, a row
is pruned and the yearly limit forgotten with it. Both scale the year and the
retention down and keep the retention the shorter; `MaxRequests` ends a run,
therefore `CHECK_DEADLOCK FALSE`.

`ProfileLimitsProofs` proves the three invariants and the types for every
number of users and workers and all limits. The invariant says of each request
in flight what it has done so far, and counts, with the changes, the requests
that were allowed and have not saved: a request counts rows only, so each other
worker can add one change that the count did not see.

## 7. Account deletion: `AccountDeletion.tla`

| Model | Code |
|---|---|
| `live`, `scheduled`, `rows` | `users`, `deletion_scheduled_for`, and the rows of other tables that name accounts |
| `stored`, `authorized` | `apple_refresh_tokens`; the grants Apple still honours |
| `RequestLoad`, `RequestSave`, `CancelLoad`, `CancelSave` | `requestDeletion`, `cancelDeletion` on the model the request was authenticated with |
| `ActLoad`, `ActSave` | any other request, admitted by `EnsureAccountNotPendingDeletion`, which inserts its row later |
| `SignIn` | Apple sign-in, which stores a grant |
| `SweepStart`, `SweepPage`, `SweepRevoke`, `SweepRevokeFails`, `SweepErase`, `SweepEraseFails`, `SweepEnd`, `SweepCrash` | `HardDeleteExpiredAccountsJob`: pages by id, Apple's revocations by HTTP, one transaction for each account |
| `Night` | a day passes and the scheduler queues a sweep |

`account_deletion`: three accounts, one of which makes every transaction fail
and one of which signs in with Apple; pages of one account, so that paging over
deleted rows happens; one PHP worker, one queue worker, one fault (a crash, an
outage or a lost connection). `ErasedServedGrace`: only accounts whose grace
period ran out while the deletion was pending are erased. `SweepComplete`: a
sweep that ends has left no expired account it did not log. `OrphansBounded`:
rows that outlive the account they name are at most one for each worker.
`NoGrantForgotten`: a grant that Apple honours is lost only if it was stored
after the sweep read them. `ExpiredAreErased`: every expired account is erased
in the end or its deletion cancelled. Deadlock is checked.

**Fairness.** The scheduler fires every night (`WF_vars(Night)`) and a queue
worker goes on with its job (`WF_vars(SweepOn(q))`). Crashes and outages are
bounded by `MaxFaults`: the claim is about sweeps that are not always
interrupted.

`AccountDeletionProofs` proves the types and all the safety properties for any
number of accounts, workers, sweepers, faults and any page size. The invariant
says of a page that its accounts were expired when it was loaded, and of the
sweep that whatever was expired at its beginning lies ahead of the cursor, is
in the page or was logged.

## 8. Fan-out: `FanOut.tla` and `DeliveryLedger.tla`

| Model | Code |
|---|---|
| `kind`, `due`, `enabled`, `marked` | the subject: a poll that opens or closes, an announcement, an update; its dates; the flag; the mark on its row |
| `queried`, `audience`, `barred` | whom the job's query selects, `isInAudience` or `isVisibleTo` accepts, pending deletion or marked as fake |
| `ledger`, `received` | `notification_deliveries`, notifications |
| `jobs[j]` | a queued or running `FanOutPlatformNotificationJob` |
| `jobs[j].chosen` | whom `isInAudience` or `isVisibleTo` accepts by the profile loaded with the batch |
| `Start`, `StartStale`, `Tell`, `Continue`, `Mark`, `Acknowledge` | `handle`: the batch, `PlatformNotificationService::send` for each user, the next job or the mark |
| `Fail`, `FailAfterDispatch` | an exception, a time-out or a crash; the last one after the next job was queued, so that two chains go on |
| `Minute` | the schedule that starts one more chain for a poll not marked |
| `Turn`, `Switch`, `Change` | the subject, the flag and the members change meanwhile |

A poll's rules are judged by the users as they were loaded with the batch, a
saved audience by its entries at the moment a user's turn comes, and whether a
user is barred by the locked row; `Tell` allows either of the first two.

`DeliveryLedger` is the promise: each user is decided once, and told then or
never. `fan_out` has three users in batches of two, one of whom changes, two
jobs at a time, two tries and two faults: a batch and its successor, two chains
side by side, a retry, and a job that uses up its tries. It checks
`ChainComplete` (a chain that ends has decided everyone who was to be told all
the time), `ToldOnce` (the refinement) and `EventuallyMarked`. Deadlock is
checked.

**Fairness.** Queue workers go on with their jobs and the schedule fires each
minute. For an announcement nothing starts a second chain, and
`EventuallyMarked` says no more than "marked, or failed for good".

`FanOutProofs` proves the types, `ChainComplete` and `ToldOnce` for every batch
size and any number of users, jobs, tries and faults. The invariant says that
whoever has to be told and has been throughout is in the ledger, in the batch
and chosen, or behind the cursor of the job that is to follow.

## 9. Push: `PushDelivery.tla`

| Model | Code |
|---|---|
| `devices`, `sessions`, `held` | `devices` (unique by installation and by token), personal access tokens, the row locks |
| `Begin`, `FindDevice`, `FindPrevious`, `Save`, `SaveOrphan`, `Collide`, `RollBack` | `DeviceService::register`: two locked reads, the save, the unique key's and the deadlock's retries |
| `Unregister`, `Logout`, `Uninstall` | the endpoints; the app is removed, which Expo notices |
| `Notify`, `Send`, `Skip`, `Accepted`, `Rejected` | `SendExpoPushJob`: the row lock held during the HTTP call, the cached key, the answer |
| `Ask`, `Fine`, `NotYet`, `NotRegistered`, `RateExceeded` | `ProcessExpoPushReceiptJob`: the receipt, a later attempt, the disabled device, the next generation of the push |
| `Fail`, `FailAfterDispatch` | an exception or crash, the latter after the follow-up job was queued; `Later` is the receipt job released to ask again |

One free `Skip` stands for flags, preferences, the age of a session and the
state of a user; cached keys do not expire; ids are numbered for each
installation; locks of gaps, and the deadlocks of first insertions they lead
to, are left out. `push_delivery` has two installations, two tokens, two users,
two registrations, two jobs, two generations and four events from outside
(registrations, notifications, logouts, failures), so that tokens are
exchanged and devices change hands while a push or its receipt is under way.
It checks `HolderOnly` (a push goes to the registration it was meant for, whose
token nobody else has), `DisablesOnlyDead` (a late receipt disables no newer
registration), `SentOnce` (no push is repeated but for lost answers),
`NoneRefused` (both registrations come through within their attempts; one whose
session is logged out meanwhile ends with the foreign key's error, `SaveOrphan`,
and is not counted as refused),
`Settles` and the types. With three registrations at once the model, which
grants locks in any order, can refuse one; the property is about two.
Requests and events are bounded, so the system stops: `CHECK_DEADLOCK FALSE`.

**Fairness.** `WF_vars(Progress)` for servers and database together: some
request or job that can go on does. It rests on MySQL breaking the deadlocks
and on the time-out of the HTTP client.

### Proofs (`PushDeliveryProofs.tla`)

For any number of installations, tokens, sessions, registrations and jobs, all
limits, and any number of events from outside. `NothingAssumption` says that
NULL is no row, registration or job. `PushInv` is inductive; its parts are

- `LockInv`: a registration about to look for its token's former row, or to
  save, holds the rows it found, and a job that waits for Expo holds its
  device's row (`LocksHeld`). Nobody else writes a locked row, so what was read
  under the lock is true at the write.
- `KeysInv`: a row's number and version only grow past those in the keys of
  jobs and pushes, so that a key that is current names the registration it was
  made for, even after the row was deleted and made anew.
- `TokensUnique`, `HttpInv`: one row for each token, and a push under way goes
  to the token of the row its job holds. With `LockInv` they give `HolderAlone`.
- `ReceiptInv`: as long as the registration a receipt is about is current, its
  token is the one the push went to, or it was taken away. This gives
  `DeadAlone` (`DisablesOnlyDead`).
- `SentInv`: what was sent is in the cache, under way, of a registration that
  is over, or of a disabled device. This gives `PushedOnce` (`SentOnce`).

`BothComeThrough` is `NoneRefused` for at most two registrations (`AtMostTwo`)
with at least two attempts in each loop; the code has three. `OnceInv` says why:
a registration starts again only because it collides with what the other has
saved, or because it was rolled back and waits for the other (`Behind`), which
then holds all its locks; and the other is answered before either can happen
again.

## 10. Votes on feature requests: `FeatureVotes.tla` and `VoteBoard.tla`

| Model | Code |
|---|---|
| `vote[m]` | the row of `feature_request_votes`, unique by member |
| `cached`, `reading` | the key `feature_request_{id}_ups_count`; a reader between its count and its `put` |
| `trashed`, `reason` | `deleted_at`, `deletion_reason` |
| `Click`, `LockedRead`, `Commit`, `Retry`, `Fail`, `Forget` | `vote`, `executeVote`, `forgetVoteCaches` |
| `Unclick`, `Unvote` | `unvote` |
| `Count`, `Put`, `Expire` | `getUpsCountAttribute`, remembered for a minute |
| `Delete`, `DeleteMark`, `DeleteRow`, `Restore`, `RestoreRow`, `RestoreClear`, `AdminForget` | `softDelete`, `restore` |
| `BulkRestore`, `PanelEdit`, `PanelSave` | the panel's bulk action; its form, which shows the reason of a deleted request as an editable field |
| `Die`, `AdminDie` | a worker is killed; its transaction is rolled back |

`VoteBoard` is the promise: a click takes effect at most once and at one
moment, against the member's vote of that moment, and is answered by what it
did. `feature_votes` has two members, two workers (a double click, a click and
a withdrawal, and clicks of two members), an administrator and a reader. It
checks the refinement `ImplementsBoard`, `ReasonFollows` and `CountSettles`:
when voting has ceased, the cached count is right from some time on.
`ReasonFollows` is an action property: the last write of a deletion leaves the
reason it was given, and that of a restoration leaves none. Both are two saves,
and a save writes only what differs from the loaded row, on which a request that
died between its saves, the panel's form or its bulk restoration may have left
any reason or none. It does not say that a deleted request has a reason
for ever: the panel can empty it afterwards (section 11). The run has one
reason, so it tells a reason from none; the theorem tells reasons apart. New
requests come at any time but need not: `CHECK_DEADLOCK FALSE` only says that
the system may rest.

**Fairness.** The cache drops an entry when its minute is over
(`WF_vars(Expire)`) and a reader that has counted goes on to put the count
(`WF_vars(Put(r))`). No fairness of workers is assumed: a worker that dies
before it drops the caches is exactly why the minute matters.

`FeatureVotesProofs` proves the types, the refinement, for every number of
members, workers and readers, and `ReasonFollows` under the assumption
`OneAdmin`. The refinement rests on `LockHeld`: between a locked read that found
a row and its commit, the row is what was read and no other worker holds it; a
read that found nothing locks nothing, and there the unique key decides.
`ReasonRecorded` needs that what an administrator loaded is still what the row
holds, since a save writes only what differs from the loaded model (`AdminInv`).

## 11. Disagreements between the code and what is written about it

Three are runs marked `violation`, quoted in `PROJECT.json` under `findings`:
the `===` of the listener can be stepped over; a basic-info update leaves the
recipients of the verifications it cancels as verified as they were; limits
documented per year are counted over rows that are pruned after a month.

The modules have these behaviours too, without a run of their own.

*Verification.*
- Two workers insert two active rows for one pair, and two members who verify
  each other at the same time both pass `VerificationService.php:43` ("Circular
  verification is not allowed"); `NoDuplicateActive` and `NoMutual` are claims
  about one request at a time.
- A cancellation that recounts between the listener's count and its save
  (`CheckUserVerificationStatus.php:30-31`) leaves a verified user below the
  threshold.
- `ProfileService.php:51` says "Cancel all active verifications when basic info
  changes"; the rows the user *received*, which vouch for the replaced data,
  stay active. The next verification then counts one more than the minimum,
  and `===` never verifies the user again.
- `canVerify` tests the balance before the insertion, so it admits one
  verification more than the example in `config/e-syrians.php:13`
  (`QuotaAtGrant` states what the code ensures).

*Polls.*
- An audience deleted between the two lookups of a creation leaves the new poll
  open to everyone.
- `AudienceService.php:221` says the service refuses to delete an audience that
  an active poll refers to; a poll that starts tomorrow, is reopened, or
  attaches it a moment later is not active then, and runs with nobody eligible.
- A start sent alone does not move the end (`PollService.php:255`), although
  the comment above it promises the formula of `createPoll`; the number of days
  is signed, and the window of the poll can become empty.
- Criteria accepted by `UpdatePollRequest` before the lock are dropped when
  another edit attaches an audience in between, the case
  `UpdatePollRequest.php:172` describes as fixed.
- `UpdatePollRequest.php:71` says "once any vote lands, the poll is immutable".
  The panel's form (`PollForm.php:22-50`) writes the window, the number of
  selections, the creator and `audience_only` of any poll, and its bulk actions
  delete and restore polls. `PollVoting` and `PollAudience` are about the API
  and leave the panel out; with it, `ImplementsBox` and `EditsShutNobodyOut`
  would not hold.
- The cached criteria (`PollController.php:328`) are never invalidated by an
  edit; not modelled, since it is one write that nothing forgets.

*Who a poll is for.*
- `Poll.php:311` says "only polls visible to the given user"; the listing knows
  nothing of saved audiences and lists such a poll for everyone signed in.
- The ages of the listing are negative (`Poll.php:321`): a poll with a lower
  limit is listed for nobody it is meant for, and an upper limit alone admits
  everyone with a birth date.
- With allowed voters and criteria together (old and new rules mixed) the gate
  asks for the allowed voters alone, the listing for both.
- The creator is shown as in the audience but refused by the gate, and with a
  saved audience everyone is shown as in it.
- The age compared with the upper limit has its fraction: one day after the
  birthday that reaches the limit, a member is too old.

*Profile updates.*
- Blocked attempts leave rows that later counts include, so that each attempt
  to get around a limit prolongs it; once the limit has been reached, refusals
  can rest on refusals alone.
- `updateCensus` does not catch `UpdateLimitReachedException`, which
  `ProfileController.php:36` does for the basic data.

*Account deletion.*
- A cancellation that arrives while the sweep works through its page is
  answered with success and not honoured; `User.php:209` says that
  `HardDeleteExpiredAccountsJob` reads `hasPendingDeletion` before it deletes,
  which it does not.
- `docs/apple-account-deletion.md:38` says all grants are revoked before local
  data is removed; one stored by a sign-in during the revocations is not.
- The purge removes the verifications an account gave and recounts nobody.

*Notifications.*
- The marks of a poll are not reset when it is edited: whoever votes after a
  closing that was announced for earlier dates is never told of the new one.
- An announcement whose chain has used up its tries is never taken up again,
  and one user whose notification always fails keeps the users after it from
  being told.

*Feature requests.*
- The panel's bulk action (`FeatureRequestsTable.php:218`) restores requests
  without clearing the reason, although line 188 says "Restoring it later will
  clear the reason".
- `FeatureRequestService.php:136` says "soft-delete with a required reason for
  the audit trail", and `FeatureRequestsTable.php:179` "never lose the "why" from
  the audit trail". The panel's form (`FeatureRequestForm.php:57-65`) shows the
  reason of a deleted request as a field that is not required, so that one
  administrator can leave a deleted request without a reason (`PanelSave`); and
  two can, one deleting while the other restores.
- `FeatureRequestService.php:72` describes two insertions of which the loser
  meets the unique key and is retried. On MySQL both locked reads lock the gap,
  and the loser may instead be ended as a deadlock, which nothing catches.
- `FeatureRequest.php:80` says the cached count is "invalidated by the service
  on every vote mutation"; a reader that counted before can put the old count
  afterwards, for a minute.

Two more were met while reading and concern no modelled state:
`PollService.php:362` keeps the public scope that `PollController.php:168-170`
says is bypassed, so a creator cannot close a private poll;
`PollService.php:264-267` speaks of a unique constraint on `(poll_id,
option_text)` that no migration creates.

## 12. What is only model-checked, and what is not modelled

- Only model-checked: what needs fairness, that is `SettlesOnThreshold`,
  `ExpiredAreErased`, `EventuallyMarked`, `Settles` and `CountSettles`: TLAPS
  cannot do liveness under weak fairness. Every other property of a passing run
  is stated by a theorem. The violations are counterexamples of TLC.
- Only proved: the type invariants of `PollAudience`, `ProfileLimits`,
  `AccountDeletion`, `FanOut` and `FeatureVotes`, and `FrozenByVotes`, which
  follows from the refinement of `BallotBox`.
- Assumed in the proofs: the named assumptions on the constants of each module,
  which TLC also evaluates in every run; one worker in the theorems whose names
  begin with `OneWorker`; `AtMostTwo` and `Attempts >= 2` in `BothComeThrough`;
  and `OneAdmin` in `ReasonRecorded`.
- Hazards that no property covers, besides those `PROJECT.json` lists with a
  note: a verification granted during a profile update survives it
  (`User.php:470`, modelled by `BasicRevoke`); two toggles on a poll that load
  the same status count as one (`PollService.php:362`, modelled); a crash
  between a push's cached key and its commit leaves no receipt job
  (`SendExpoPushJob.php:72`, modelled); two reactions of one member and their
  cached counters (`PollService.php:453`, `Poll.php:75`), a batch of audience
  entries that meets the unique key (`AudienceService.php:360`), the
  read-then-forget of codes and challenges (`TwoFactorService.php:100`,
  `TwoFactorChallengeService.php:49`, `PasswordService.php:52`), which are not
  modelled.
- Not modelled: the components marked so in `PROJECT.json`, each with its
  reason. Cryptography, mail, object storage, BigQuery and Expo's and Apple's
  own workings are external. The JavaScript in the repository is the panel
  framework's published assets and the front-end build; the application is PHP,
  and none of that JavaScript is modelled.
- The admin panel's forms write single rows with none of the API's checks. Two
  are modelled: the verification columns of users and the deletion reason of
  feature requests. Left out are the form for polls (section 11), the one for
  verification rows (`UserVerificationForm.php:19-31`, which may create, redirect,
  cancel and revive any row, so that `AuditTrail` and `TrustRooted` are about what
  members' requests and the user form do), the deletion of users and all
  permanent deletions.
- A crash of a worker is an action of the modules where it leaves something
  behind (`ProfileLimits`, `AccountDeletion`, `FanOut`, `PushDelivery`,
  `FeatureVotes`). In `Verification` and `PollVoting` a worker that never takes
  another step stands for it; there a lock of a dead transaction stays held,
  which only removes behaviours in which it is rolled back, as if the request
  had not begun.

## 13. Running

`tlc -config X.cfg MC<module>` runs a configuration, named after its module
(`Verification*.cfg` with `MCVerification`, `ProfileYearlyLimit.cfg` with
`MCProfileLimits`); `tlapm <module>Proofs.tla` checks proofs. `PROJECT.json`
names the property, configuration and expected result of every run, the mutated
definitions that each property detects, and the source lines of every
definition.
