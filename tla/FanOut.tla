------------------------------- MODULE FanOut -------------------------------
(***************************************************************************)
(* Telling members of one subject: a poll that opened or closed, an        *)
(* announcement, or an update that concerns a single row.  A queued job    *)
(* takes a batch of recipients by id, tells them one by one and queues the *)
(* job for the next batch; the job of the last batch marks the subject.    *)
(* Jobs fail and are retried, and every minute the scheduler starts one    *)
(* more chain for a poll that is not marked.                               *)
(***************************************************************************)
EXTENDS Naturals, FiniteSets

CONSTANTS
    Users,          \* user ids
    Fickle,         \* users whose profile, preferences or votes change meanwhile
    Jobs,           \* slots for jobs: queued or running
    NoJob,          \* an empty slot
    BatchSize,      \* users per batch (200)
    Tries,          \* FanOutPlatformNotificationJob::$tries
    MaxFaults       \* bound on failures and crashes

\* A job that waits, tells the users of its batch, or has done its work.
\* "chosen" are the users whom isInAudience or isVisibleTo accepts as they were
\* loaded with the batch.
\* "kept" is history: the users who were to be told when the job's chain
\* began, and still are.
Job == [pc : {"queued", "send", "ack"}, after : Nat, tries : 0..(Tries - 1),
        batch : SUBSET Users, chosen : SUBSET Users, last : Nat, full : BOOLEAN,
        kept : SUBSET Users]

ASSUME FanOutAssumption ==
    /\ Users \subseteq Nat \ {0} /\ IsFiniteSet(Users)
    /\ Fickle \subseteq Users
    /\ BatchSize \in Nat \ {0}
    /\ Tries \in Nat \ {0}
    /\ MaxFaults \in Nat
    /\ NoJob \notin Job

VARIABLES
    kind,           \* what is told
    due,            \* the subject is still to be told: a poll's dates, ...
    enabled,        \* the platform flag notification-events
    marked,         \* invitations_dispatched_at, closure_notified_at, processed_at
    queried,        \* users the event's query selects
    audience,       \* users isInAudience or isVisibleTo accepts (of a poll)
    barred,         \* users pending deletion or marked as fake
    ledger,         \* notification_deliveries of the subject
    received,       \* notifications each user was sent
    jobs,           \* the jobs in each slot
    failed,         \* a job of the subject used up its tries
    faults          \* faults so far

subject == <<kind, due, enabled>>
members == <<queried, audience, barred>>
deliveries == <<ledger, received>>
vars == <<subject, marked, members, deliveries, jobs, failed, faults>>

Kinds == {"poll", "announcement", "update"}

TypeOK ==
    /\ kind \in Kinds
    /\ due \in BOOLEAN /\ enabled \in BOOLEAN /\ marked \in BOOLEAN
    /\ queried \subseteq Users /\ audience \subseteq Users /\ barred \subseteq Users
    /\ ledger \subseteq Users
    /\ received \in [Users -> Nat]
    /\ jobs \in [Jobs -> Job \cup {NoJob}]
    /\ failed \in BOOLEAN
    /\ faults \in 0..MaxFaults

\* A job waiting for a queue worker.
Queued(after, tries, kept) ==
    [pc |-> "queued", after |-> after, tries |-> tries, batch |-> {}, chosen |-> {},
     last |-> after, full |-> FALSE, kept |-> kept]

\* The observer or the admin's page queues the first job; a poll that opens
\* later has none yet.
Init ==
    /\ kind \in Kinds
    /\ due = TRUE /\ enabled = TRUE /\ marked = FALSE
    /\ queried = Users /\ audience = Users /\ barred = {}
    /\ ledger = {} /\ received = [u \in Users |-> 0]
    /\ \/ kind = "poll" /\ jobs = [j \in Jobs |-> NoJob]
       \/ \E j \in Jobs : jobs = [k \in Jobs |-> IF k = j THEN Queued(0, 0, {}) ELSE NoJob]
    /\ failed = FALSE /\ faults = 0

-----------------------------------------------------------------------------
(***************************************************************************)
(* The job                                                                 *)
(***************************************************************************)
At(j, pc) == jobs[j] # NoJob /\ jobs[j].pc = pc
SetJob(j, job) == jobs' = [jobs EXCEPT ![j] = job]
Drop(j) == SetJob(j, NoJob)

Wanted == (queried \cap audience) \ barred

\* The job finds the subject gone, marked, out of its dates or in another
\* state, and returns.
Stale == ~due \/ (marked /\ kind # "update")

StartStale(j) ==
    /\ At(j, "queued") /\ Stale
    /\ Drop(j)
    /\ UNCHANGED <<subject, marked, members, deliveries, failed, faults>>

Listed(after) == {u \in queried \ barred : u > after}

\* ORDER BY id LIMIT BatchSize
IsBatch(batch, found) ==
    /\ batch \subseteq found
    /\ \A u \in batch, v \in found \ batch : u < v
    /\ \/ Cardinality(batch) = BatchSize
       \/ Cardinality(batch) < BatchSize /\ batch = found

Full_UpTo(batch) == Cardinality(batch) <= BatchSize
Full(batch) == Cardinality(batch) = BatchSize

\* The cursor of the next batch: the last id of this one.
IsLast_PastEnd(last, batch) == \E u \in batch : last = u + 1 /\ \A v \in batch : v <= u
IsLast(last, batch) == last \in batch /\ \A v \in batch : v <= last

Start(j) ==
    /\ At(j, "queued") /\ ~Stale
    /\ \E batch \in SUBSET Listed(jobs[j].after) :
          /\ IsBatch(batch, Listed(jobs[j].after))
          /\ \E last \in Users \cup {jobs[j].after} :
                /\ IF batch = {} THEN last = jobs[j].after ELSE IsLast(last, batch)
                /\ SetJob(j, [jobs[j] EXCEPT
                       !.pc = "send", !.batch = batch, !.chosen = batch \cap audience,
                       !.last = last, !.full = Full(batch),
                       !.kept = IF jobs[j].after = 0 THEN Wanted ELSE @])
    /\ UNCHANGED <<subject, marked, members, deliveries, failed, faults>>

(***************************************************************************)
(* PlatformNotificationService::send in one transaction, under a lock on   *)
(* the user's row.  Settings and preferences, which change as the job goes *)
(* on, decide whether the user is sent anything; the ledger records the    *)
(* decision either way.                                                    *)
(***************************************************************************)
Known_ByDelivery(u) == received[u] > 0
Known(u) == u \in ledger

\* A poll's rules are judged by the profile loaded with the batch, a saved
\* audience by its entries as they are by now.
Accepts(j, u) == u \in jobs[j].chosen \/ u \in audience
Rejects(j, u) == u \notin jobs[j].chosen \/ u \notin audience

\* The locked row tells whether the user is barred by now.
Admits(u) == u \notin barred /\ ~Known(u)

Send(u) ==
    /\ ledger' = ledger \cup {u}
    /\ \/ received' = [received EXCEPT ![u] = @ + 1]
       \/ u \in Fickle /\ received' = received

InTurn(j, u) == u \in jobs[j].batch /\ \A v \in jobs[j].batch : u <= v

Tell(j, u) ==
    /\ At(j, "send") /\ InTurn(j, u)
    /\ \/ Accepts(j, u) /\ Admits(u) /\ Send(u)
       \/ (Rejects(j, u) \/ ~Admits(u)) /\ UNCHANGED deliveries
    /\ SetJob(j, [jobs[j] EXCEPT !.batch = @ \ {u}, !.chosen = @ \ {u}])
    /\ UNCHANGED <<subject, marked, members, failed, faults>>

BatchDone(j) == At(j, "send") /\ jobs[j].batch = {}

\* The chain goes on with the next batch.
Continue(j) ==
    /\ BatchDone(j) /\ jobs[j].full
    /\ SetJob(j, Queued(jobs[j].last, 0, jobs[j].kept))
    /\ UNCHANGED <<subject, marked, members, deliveries, failed, faults>>

\* It ends: the subject is marked, whatever has become of it meanwhile.
Mark(j) ==
    /\ BatchDone(j) /\ ~jobs[j].full
    /\ marked' = (marked \/ kind # "update")
    /\ SetJob(j, [jobs[j] EXCEPT !.pc = "ack"])
    /\ UNCHANGED <<subject, members, deliveries, failed, faults>>

Acknowledge(j) ==
    /\ At(j, "ack")
    /\ Drop(j)
    /\ UNCHANGED <<subject, marked, members, deliveries, failed, faults>>

-----------------------------------------------------------------------------
(***************************************************************************)
(* Failures: an exception, a timeout or the death of the worker returns    *)
(* the job to the queue from its first statement, until its tries are used *)
(* up.                                                                     *)
(***************************************************************************)
Fault == faults < MaxFaults /\ faults' = faults + 1

TriesLeft(job) == job.tries + 1 < Tries

Retried(job) ==
    IF TriesLeft(job) THEN Queued(job.after, job.tries + 1, job.kept) ELSE NoJob

Fail(j) ==
    /\ At(j, "send") \/ At(j, "ack")
    /\ Fault
    /\ SetJob(j, Retried(jobs[j]))
    /\ failed' = (failed \/ ~TriesLeft(jobs[j]))
    /\ UNCHANGED <<subject, marked, members, deliveries>>

\* The worker dies after it queued the next batch: the job runs again and
\* two chains go on from here.
FailAfterDispatch(j, k) ==
    /\ BatchDone(j) /\ jobs[j].full
    /\ jobs[k] = NoJob
    /\ Fault
    /\ jobs' = [jobs EXCEPT ![j] = Retried(jobs[j]),
                            ![k] = Queued(jobs[j].last, 0, jobs[j].kept)]
    /\ failed' = (failed \/ ~TriesLeft(jobs[j]))
    /\ UNCHANGED <<subject, marked, members, deliveries>>

-----------------------------------------------------------------------------
(***************************************************************************)
(* The scheduler, and what else happens meanwhile                          *)
(***************************************************************************)
Minute(j) ==
    /\ kind = "poll" /\ enabled /\ due /\ ~marked
    /\ jobs[j] = NoJob
    /\ SetJob(j, Queued(0, 0, {}))
    /\ UNCHANGED <<subject, marked, members, deliveries, failed, faults>>

\* A poll's dates pass or are edited, it is withdrawn or restored; the row
\* an update is about changes again.
Turn ==
    /\ kind # "announcement"
    /\ due' = ~due
    /\ UNCHANGED <<kind, enabled, marked, members, deliveries, jobs, failed, faults>>

\* Only the schedule of polls reads the flag from here on.
Switch ==
    /\ kind = "poll"
    /\ enabled' = ~enabled
    /\ UNCHANGED <<kind, due, marked, members, deliveries, jobs, failed, faults>>

Toggled(S, u) == IF u \in S THEN S \ {u} ELSE S \cup {u}

\* A user is verified, votes, opts out, requests deletion, ...
Change(u) ==
    /\ \/ queried' = Toggled(queried, u) /\ UNCHANGED <<audience, barred>>
       \/ kind = "poll" /\ audience' = Toggled(audience, u) /\ UNCHANGED <<queried, barred>>
       \/ barred' = Toggled(barred, u) /\ UNCHANGED <<queried, audience>>
    /\ jobs' = [j \in Jobs |-> IF jobs[j] = NoJob THEN NoJob
                               ELSE [jobs[j] EXCEPT !.kept = @ \cap Wanted']]
    /\ UNCHANGED <<subject, marked, deliveries, failed, faults>>

-----------------------------------------------------------------------------
Work(j) ==
    \/ StartStale(j) \/ Start(j)
    \/ \E u \in Users : Tell(j, u)
    \/ Continue(j) \/ Mark(j) \/ Acknowledge(j)

Break(j) == Fail(j) \/ \E k \in Jobs : FailAfterDispatch(j, k)

Next ==
    \/ \E j \in Jobs : Work(j) \/ Break(j) \/ Minute(j)
    \/ Turn \/ Switch
    \/ \E u \in Fickle : Change(u)

Spec == Init /\ [][Next]_vars

\* Queue workers go on with their jobs and the scheduler fires every minute.
Fairness ==
    /\ \A j \in Jobs : WF_vars(Work(j))
    /\ WF_vars(\E j \in Jobs : Minute(j))

FairSpec == Spec /\ Fairness

-----------------------------------------------------------------------------
\* A chain that is about to mark its subject, or has just done so, has decided
\* every user who was to be told when it began and was so throughout: neither
\* retries, nor users who leave the batches, nor the chains that run beside it
\* make it pass one over (FanOutPlatformNotificationJob.php:94-112).
ChainComplete ==
    \A j \in Jobs :
        jobs[j] # NoJob /\ jobs[j].pc \in {"send", "ack"} /\ ~jobs[j].full
            => jobs[j].kept \subseteq ledger \cup jobs[j].batch

\* Each user is decided once, and told then or never, however many jobs run,
\* fail and are repeated ("retrying the same event after re-enabling a flag
\* cannot replay it", docs/notification-delivery-flags.md:48-50).
Ledger == INSTANCE DeliveryLedger WITH decided <- ledger
ToldOnce == Ledger!Spec

\* A due poll is marked in the end unless it stops being due or the flag is
\* switched off, since the scheduler starts chains until one comes through; an
\* announcement, which has only its first chain, may also have failed for good.
EventuallyMarked ==
    /\ (kind = "poll" /\ due /\ enabled) ~> (marked \/ ~due \/ ~enabled)
    /\ (kind = "announcement") ~> (marked \/ failed)

=============================================================================
