-------------------------- MODULE AccountDeletion --------------------------
(***************************************************************************)
(* Deleting an account: the request and its cancellation, the daily sweep  *)
(* that erases the accounts whose grace period has run out, and what other *)
(* requests do to an account meanwhile.                                    *)
(*                                                                         *)
(* A request loads its models when it is authenticated and writes later.   *)
(* The sweep is a queued job: it loads a page of accounts and then takes   *)
(* them one by one, first revoking Apple's grants by HTTP, then deleting   *)
(* the rows in one transaction that does not look at the account again.    *)
(***************************************************************************)
EXTENDS Integers, FiniteSets

CONSTANTS
    Users,          \* account ids
    Malformed,      \* accounts whose rows make every transaction fail
    Workers,        \* PHP workers, one request each at a time
    Sweepers,       \* queue workers
    AppleUsers,     \* accounts that sign in with Apple
    Tokens,         \* refresh tokens Apple issues in a run
    Writes,         \* <<actor, target>>: rows members' requests write in a run
    GraceDays,      \* AccountDeletionService::GRACE_DAYS
    ChunkSize,      \* accounts per page of the sweep
    None,           \* a null timestamp
    LastDay,        \* bound on the calendar: later days all look alike
    MaxQueued,      \* bound on the sweep jobs waiting at a time
    MaxFaults       \* bound on crashes, Apple outages and lost connections

Days == 0..(LastDay + GraceDays)

ASSUME DeletionAssumption ==
    /\ IsFiniteSet(Users) /\ Users \subseteq Nat \ {0}
    /\ Malformed \subseteq Users /\ AppleUsers \subseteq Users
    /\ IsFiniteSet(Workers)
    /\ Writes \subseteq Users \X Users
    /\ GraceDays \in Nat \ {0}
    /\ ChunkSize \in Nat \ {0}
    /\ None \notin Int
    /\ LastDay \in Nat /\ MaxQueued \in Nat /\ MaxFaults \in Nat

VARIABLES
    day,            \* now
    live,           \* accounts that exist
    scheduled,      \* users.deletion_scheduled_for (set with deletion_requested_at)
    rows,           \* rows that name accounts: user_verifications, poll_votes, ...
    stored,         \* apple_refresh_tokens, by account
    authorized,     \* tokens Apple still honours
    request,        \* what each PHP worker is executing
    queue,          \* sweep jobs waiting
    sweep,          \* what each queue worker is executing
    faults,         \* faults so far
    lapsed          \* history: accounts whose grace period ran out while pending

tables == <<live, scheduled, rows>>
apple == <<stored, authorized>>
jobs == <<queue, sweep, faults>>
vars == <<day, tables, apple, request, jobs, lapsed>>

-----------------------------------------------------------------------------
Pending(u) == scheduled[u] # None

Idle == [pc |-> "idle"]
Request ==
    {Idle} \cup [pc : {"request_save", "cancel_save"}, actor : Users]
           \cup [pc : {"act_save"}, row : Writes]

NoSweep == [pc |-> "idle", cutoff |-> 0, last |-> 0, batch |-> {}, more |-> FALSE,
            read |-> {}, failed |-> {}]
Sweep == [pc : {"idle", "page", "revoke", "erase", "done"}, cutoff : 0..LastDay,
          last : Nat, batch : SUBSET Users, more : BOOLEAN,
          read : SUBSET Tokens, failed : SUBSET Users]

At(w, pc) == request[w].pc = pc
Goto(w, r) == request' = [request EXCEPT ![w] = r]
Finish(w) == Goto(w, Idle)

Names(u, r) == u \in {r[1], r[2]}

TypeOK ==
    /\ day \in 0..LastDay
    /\ live \subseteq Users
    /\ scheduled \in [Users -> Days \cup {None}]
    /\ rows \subseteq Writes
    /\ stored \in [Users -> SUBSET Tokens]
    /\ authorized \subseteq Tokens
    /\ request \in [Workers -> Request]
    /\ queue \in 0..MaxQueued
    /\ sweep \in [Sweepers -> Sweep]
    /\ faults \in 0..MaxFaults
    /\ lapsed \subseteq Users

Init ==
    /\ day = 0
    /\ live = Users
    /\ scheduled = [u \in Users |-> None]
    /\ rows = {}
    /\ stored = [u \in Users |-> {}]
    /\ authorized = {}
    /\ request = [w \in Workers |-> Idle]
    /\ queue = 0
    /\ sweep = [q \in Sweepers |-> NoSweep]
    /\ faults = 0
    /\ lapsed = {}

-----------------------------------------------------------------------------
(***************************************************************************)
(* Requests of the account's owner.  The password check and the early      *)
(* returns are judged on the model loaded at authentication; a save of an  *)
(* account erased since then updates no row.                               *)
(***************************************************************************)
RequestLoad(w, u) ==
    /\ At(w, "idle")
    /\ u \in live /\ ~Pending(u)
    /\ Goto(w, [pc |-> "request_save", actor |-> u])
    /\ UNCHANGED <<day, tables, apple, jobs, lapsed>>

CancelLoad(w, u) ==
    /\ At(w, "idle")
    /\ u \in live /\ Pending(u)
    /\ Goto(w, [pc |-> "cancel_save", actor |-> u])
    /\ UNCHANGED <<day, tables, apple, jobs, lapsed>>

\* deletion_scheduled_for as an UPDATE of the account's row writes it.
Saved(u, value) == IF u \in live THEN [scheduled EXCEPT ![u] = value] ELSE scheduled

RequestSave(w) ==
    /\ At(w, "request_save")
    /\ scheduled' = Saved(request[w].actor, day + GraceDays)
    /\ Finish(w)
    /\ UNCHANGED <<day, live, rows, apple, jobs, lapsed>>

CancelSave(w) ==
    /\ At(w, "cancel_save")
    /\ scheduled' = Saved(request[w].actor, None)
    /\ Finish(w)
    /\ UNCHANGED <<day, live, rows, apple, jobs, lapsed>>

(***************************************************************************)
(* Any other request: EnsureAccountNotPendingDeletion admits it, the       *)
(* service loads the account it is about, and a row naming both is         *)
(* inserted later, with no foreign key to users.                           *)
(***************************************************************************)
Admitted_Anyone(u) == u \in Users
Admitted(u) == u \in live /\ ~Pending(u)

ActLoad(w, r) ==
    /\ At(w, "idle")
    /\ Admitted(r[1]) /\ r[2] \in live
    /\ Goto(w, [pc |-> "act_save", row |-> r])
    /\ UNCHANGED <<day, tables, apple, jobs, lapsed>>

ActSave(w) ==
    /\ At(w, "act_save")
    /\ rows' = rows \cup {request[w].row}
    /\ Finish(w)
    /\ UNCHANGED <<day, live, scheduled, apple, jobs, lapsed>>

\* Signing in with Apple, also during the grace period, stores a new grant.
SignIn(u) ==
    /\ u \in live
    /\ \E t \in Tokens \ (authorized \cup UNION {stored[v] : v \in Users}) :
          /\ \A q \in Sweepers : t \notin sweep[q].read
          /\ authorized' = authorized \cup {t}
          /\ stored' = [stored EXCEPT ![u] = @ \cup {t}]
    /\ UNCHANGED <<day, tables, request, jobs, lapsed>>

-----------------------------------------------------------------------------
(***************************************************************************)
(* HardDeleteExpiredAccountsJob                                            *)
(***************************************************************************)

\* The scheduler queues a sweep every night.
Night ==
    /\ day' = IF day < LastDay THEN day + 1 ELSE day
    /\ queue' = IF queue < MaxQueued THEN queue + 1 ELSE queue
    /\ lapsed' = lapsed \cup {u \in live : Pending(u) /\ scheduled[u] <= day'}
    /\ UNCHANGED <<tables, apple, request, sweep, faults>>

SetSweep(q, s) == sweep' = [sweep EXCEPT ![q] = s]

SweepStart(q) ==
    /\ sweep[q].pc = "idle" /\ queue > 0
    /\ queue' = queue - 1
    /\ SetSweep(q, [NoSweep EXCEPT !.pc = "page", !.cutoff = day])
    /\ UNCHANGED <<day, tables, apple, request, faults, lapsed>>

Expired_AnyPending(cutoff) == {u \in live : Pending(u)}
Expired(cutoff) == {u \in live : Pending(u) /\ scheduled[u] <= cutoff}

\* chunkById: the accounts after the last id seen, a page at a time.
After_Offset(cutoff, last) ==
    {u \in Expired(cutoff) : Cardinality({v \in Expired(cutoff) : v < u}) >= last}
After(cutoff, last) == {u \in Expired(cutoff) : u > last}

\* LIMIT: the first ChunkSize of those found, by id.
IsPage(page, found) ==
    /\ \A u \in page, v \in found \ page : u < v
    /\ Cardinality(page) <= ChunkSize
    /\ page # found => Cardinality(page) = ChunkSize

SweepPage(q) ==
    LET found == After(sweep[q].cutoff, sweep[q].last)
    IN  /\ sweep[q].pc = "page"
        /\ \/ /\ found = {}
              /\ SetSweep(q, [sweep[q] EXCEPT !.pc = "done"])
           \/ \E page \in SUBSET found, l \in found :
              /\ l \in page /\ \A u \in page : u <= l
              /\ IsPage(page, found)
              /\ SetSweep(q, [sweep[q] EXCEPT
                     !.pc = "revoke", !.batch = page, !.last = l,
                     !.more = Cardinality(page) = ChunkSize])
        /\ UNCHANGED <<day, tables, apple, request, queue, faults, lapsed>>

\* The accounts of a page are taken in the order of their ids.
InTurn(q, u) == u \in sweep[q].batch /\ \A v \in sweep[q].batch : u <= v

\* The record of the sweep once account u is dealt with.
Passed(s, u, failed) ==
    [s EXCEPT !.batch = @ \ {u}, !.read = {}, !.failed = failed,
              !.pc = IF s.batch # {u} THEN "revoke"
                     ELSE IF s.more THEN "page" ELSE "done"]

Skipped_StopsBatch(s, u) == [s EXCEPT !.pc = "done", !.batch = {}, !.read = {},
                                      !.failed = @ \cup {u}]
Skipped(s, u) == Passed(s, u, s.failed \cup {u})
Handled(s, u) == Passed(s, u, s.failed)

\* Every grant read is revoked; Apple's answer is the same for one that was.
SweepRevoke(q, u) ==
    /\ sweep[q].pc = "revoke" /\ InTurn(q, u)
    /\ authorized' = authorized \ stored[u]
    /\ SetSweep(q, [sweep[q] EXCEPT !.pc = "erase", !.read = stored[u]])
    /\ UNCHANGED <<day, tables, stored, request, queue, faults, lapsed>>

\* Apple fails at some grant, after others were revoked: the transaction
\* rolls back, which revives none of them, and the account is left alone.
Abandoned_Continues(s, u) == [s EXCEPT !.pc = "erase", !.read = stored[u]]
Abandoned(s, u) == Skipped(s, u)

SweepRevokeFails(q, u) ==
    /\ sweep[q].pc = "revoke" /\ InTurn(q, u)
    /\ faults < MaxFaults /\ faults' = faults + 1
    /\ \E done \in SUBSET stored[u] :
          done # stored[u] /\ authorized' = authorized \ done
    /\ SetSweep(q, Abandoned(sweep[q], u))
    /\ UNCHANGED <<day, tables, stored, request, queue, lapsed>>

\* The rows deleted with the account.
Owned_AsActor(u) == {r \in rows : r[1] = u}
Owned(u) == {r \in rows : Names(u, r)}

\* The account and everything it owns, in one transaction.  Its tokens go
\* with the row of the account (ON DELETE CASCADE).
SweepErase(q, u) ==
    /\ sweep[q].pc = "erase" /\ InTurn(q, u)
    /\ u \notin Malformed
    /\ live' = live \ {u}
    /\ rows' = rows \ Owned(u)
    /\ stored' = [stored EXCEPT ![u] = {}]
    /\ SetSweep(q, Handled(sweep[q], u))
    /\ UNCHANGED <<day, scheduled, authorized, request, queue, faults, lapsed>>

\* A malformed row, or a lost connection: rolled back, logged, passed over.
SweepEraseFails(q, u) ==
    /\ sweep[q].pc = "erase" /\ InTurn(q, u)
    /\ \/ u \in Malformed /\ UNCHANGED faults
       \/ faults < MaxFaults /\ faults' = faults + 1
    /\ SetSweep(q, Skipped(sweep[q], u))
    /\ UNCHANGED <<day, tables, apple, request, queue, lapsed>>

SweepEnd(q) ==
    /\ sweep[q].pc = "done"
    /\ SetSweep(q, NoSweep)
    /\ UNCHANGED <<day, tables, apple, request, queue, faults, lapsed>>

\* The queue worker dies.  The job has one try and is not run again.
SweepCrash(q) ==
    /\ sweep[q].pc # "idle"
    /\ faults < MaxFaults /\ faults' = faults + 1
    /\ SetSweep(q, NoSweep)
    /\ UNCHANGED <<day, tables, apple, request, queue, lapsed>>

-----------------------------------------------------------------------------
Serve(w) ==
    \/ \E u \in Users : RequestLoad(w, u) \/ CancelLoad(w, u)
    \/ RequestSave(w)
    \/ CancelSave(w)
    \/ \E r \in Writes : ActLoad(w, r)
    \/ ActSave(w)

SweepOn(q) ==
    \/ SweepStart(q)
    \/ SweepPage(q)
    \/ \E u \in Users :
          \/ SweepRevoke(q, u) \/ SweepRevokeFails(q, u)
          \/ SweepErase(q, u) \/ SweepEraseFails(q, u)
    \/ SweepEnd(q)

Next ==
    \/ \E w \in Workers : Serve(w)
    \/ \E u \in AppleUsers : SignIn(u)
    \/ \E q \in Sweepers : SweepOn(q) \/ SweepCrash(q)
    \/ Night

Spec == Init /\ [][Next]_vars

\* The scheduler fires every night and a queue worker goes on with its job.
Fairness == WF_vars(Night) /\ \A q \in Sweepers : WF_vars(SweepOn(q))

FairSpec == Spec /\ Fairness

-----------------------------------------------------------------------------
\* An account is only ever erased after its grace period ran out while the
\* deletion was pending, whatever pages and requests the sweep's long look at
\* it overlaps (AccountDeletionService.php:34-36).
ErasedServedGrace == Users \ live \subseteq lapsed

\* A sweep that ends has dealt with every account that was due when it began:
\* erased, cancelled or logged as failed.  Erasing the accounts of a page does
\* not make the next page skip any (HardDeleteExpiredAccountsJob.php:39-48).
SweepComplete ==
    \A q \in Sweepers :
        sweep[q].pc = "done" => Expired(sweep[q].cutoff) \subseteq sweep[q].failed

\* The rows that still name an erased account were inserted by requests that
\* were under way when it was erased: at most one for each worker.
OrphansBounded ==
    \A u \in Users \ live :
        Cardinality({r \in rows : Names(u, r)}) <= Cardinality(Workers)

\* A grant that Apple still honours is forgotten with its account only if it
\* was stored after the sweep had read the grants it revoked: a failed
\* revocation keeps them all (AppleAuthService.php:134-138).
NoGrantForgotten ==
    [][\A u \in Users : \A t \in (stored[u] \ stored'[u]) \cap authorized' :
          \E q \in Sweepers : /\ sweep[q].pc = "erase"
                              /\ InTurn(q, u)
                              /\ t \notin sweep[q].read]_vars

\* An account whose grace period has run out is erased or its deletion
\* cancelled, although sweeps crash and fail, and although a malformed account
\* fails in every one of them (HardDeleteExpiredAccountsJob.php:22-25).
ExpiredAreErased ==
    \A u \in Users \ Malformed :
        (u \in Expired(day)) ~> (u \notin live \/ ~Pending(u))

=============================================================================
