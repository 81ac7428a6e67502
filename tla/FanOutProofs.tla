---------------------------- MODULE FanOutProofs ----------------------------
(***************************************************************************)
(* Proofs about FanOut, for every set of users, batch size, number of      *)
(* tries and number of failures.                                           *)
(***************************************************************************)
EXTENDS FanOut, FiniteSetTheorems, TLAPS

USE FanOutAssumption

LEMMA QueuedType ==
    ASSUME NEW after \in Nat, NEW tries \in 0..(Tries - 1), NEW kept \in SUBSET Users
    PROVE  Queued(after, tries, kept) \in Job
BY DEF Queued, Job

LEMMA RetriedType ==
    ASSUME NEW job \in Job
    PROVE  Retried(job) \in Job \cup {NoJob}
<1>1. job.after \in Nat /\ job.tries \in 0..(Tries - 1) /\ job.kept \in SUBSET Users
  BY DEF Job
<1>2. CASE TriesLeft(job)
  <2>1. job.tries + 1 \in 0..(Tries - 1)
    BY <1>1, <1>2 DEF TriesLeft
  <2>. QED  BY <1>1, <1>2, <2>1, QueuedType DEF Retried
<1>3. CASE ~TriesLeft(job)
  BY <1>3 DEF Retried
<1>. QED  BY <1>2, <1>3

LEMMA SetJobType ==
    ASSUME TypeOK, NEW j \in Jobs, NEW job \in Job \cup {NoJob}, SetJob(j, job)
    PROVE  jobs' \in [Jobs -> Job \cup {NoJob}]
BY DEF TypeOK, SetJob

LEMMA AtType ==
    ASSUME TypeOK, NEW j \in Jobs, jobs[j] # NoJob
    PROVE  jobs[j] \in Job
BY DEF TypeOK

LEMMA WorkType ==
    ASSUME TypeOK, NEW j \in Jobs, Work(j)
    PROVE  TypeOK'
<1>. DEFINE s == jobs[j]
<1>0. jobs[j] # NoJob /\ jobs[j] \in Job
  <2>1. jobs[j] # NoJob
    BY DEF Work, StartStale, Start, Tell, Continue, Mark, Acknowledge, BatchDone, At
  <2>. QED  BY <2>1, AtType
<1>1. CASE StartStale(j) \/ Acknowledge(j)
  <2>1. jobs' \in [Jobs -> Job \cup {NoJob}]
    BY <1>1, SetJobType DEF StartStale, Acknowledge, Drop
  <2>. QED
    BY <1>1, <2>1 DEF StartStale, Acknowledge, TypeOK, subject, members, deliveries
<1>2. CASE Start(j)
  <2>1. PICK batch \in SUBSET Listed(s.after), last \in Users \cup {s.after} :
            SetJob(j, [s EXCEPT
                !.pc = "send", !.batch = batch, !.chosen = batch \cap audience,
                !.last = last, !.full = Full(batch),
                !.kept = IF s.after = 0 THEN Wanted ELSE @])
    BY <1>2 DEF Start
  <2>. DEFINE full == Full(batch)
              kept == IF s.after = 0 THEN Wanted ELSE s.kept
              chosen == batch \cap audience
              r == [s EXCEPT !.pc = "send", !.batch = batch, !.chosen = chosen,
                             !.last = last, !.full = full, !.kept = kept]
  <2>2. /\ batch \in SUBSET Users /\ last \in Nat /\ full \in BOOLEAN
        /\ kept \in SUBSET Users /\ chosen \in SUBSET Users
    BY <1>0 DEF Listed, TypeOK, Full, Wanted, Job
  <2>. HIDE DEF full, kept, chosen
  <2>3. r \in Job
    BY <1>0, <2>2 DEF Job
  <2>4. jobs' \in [Jobs -> Job \cup {NoJob}]
    BY <2>1, <2>3, SetJobType DEF full, kept, chosen
  <2>. QED  BY <1>2, <2>4 DEF Start, TypeOK, subject, members, deliveries
<1>3. ASSUME NEW u \in Users, Tell(j, u) PROVE TypeOK'
  <2>1. [s EXCEPT !.batch = @ \ {u}, !.chosen = @ \ {u}] \in Job
    BY <1>0 DEF Job
  <2>2. jobs' \in [Jobs -> Job \cup {NoJob}]
    BY <1>3, <2>1, SetJobType DEF Tell
  <2>3. ledger' \subseteq Users /\ received' \in [Users -> Nat]
    BY <1>3 DEF Tell, Send, TypeOK, deliveries
  <2>. QED  BY <1>3, <2>2, <2>3 DEF Tell, TypeOK, subject, members
<1>4. CASE Continue(j)
  <2>1. s.last \in Nat /\ s.kept \in SUBSET Users /\ 0 \in 0..(Tries - 1)
    BY <1>0 DEF Job
  <2>2. jobs' \in [Jobs -> Job \cup {NoJob}]
    BY <1>4, <2>1, QueuedType, SetJobType DEF Continue
  <2>. QED  BY <1>4, <2>2 DEF Continue, TypeOK, subject, members, deliveries
<1>5. CASE Mark(j)
  <2>1. [s EXCEPT !.pc = "ack"] \in Job
    BY <1>0 DEF Job
  <2>2. jobs' \in [Jobs -> Job \cup {NoJob}]
    BY <1>5, <2>1, SetJobType DEF Mark
  <2>3. marked' \in BOOLEAN
    BY <1>5 DEF Mark
  <2>. QED  BY <1>5, <2>2, <2>3 DEF Mark, TypeOK, subject, members, deliveries
<1>. QED  BY <1>1, <1>2, <1>3, <1>4, <1>5 DEF Work

LEMMA BreakType ==
    ASSUME TypeOK, NEW j \in Jobs, Break(j)
    PROVE  TypeOK'
<1>0. jobs[j] \in Job
  BY AtType DEF Break, Fail, FailAfterDispatch, BatchDone, At
<1>1. Retried(jobs[j]) \in Job \cup {NoJob}
  BY <1>0, RetriedType
<1>2. ASSUME Fault PROVE faults' \in 0..MaxFaults
  BY <1>2 DEF Fault, TypeOK
<1>3. CASE Fail(j)
  <2>1. jobs' \in [Jobs -> Job \cup {NoJob}]
    BY <1>1, <1>3, SetJobType DEF Fail
  <2>2. failed' \in BOOLEAN
    BY <1>3 DEF Fail
  <2>. QED  BY <1>2, <1>3, <2>1, <2>2 DEF Fail, TypeOK, subject, members, deliveries
<1>4. ASSUME NEW k \in Jobs, FailAfterDispatch(j, k) PROVE TypeOK'
  <2>1. Queued(jobs[j].last, 0, jobs[j].kept) \in Job
    <3>1. jobs[j].last \in Nat /\ jobs[j].kept \in SUBSET Users /\ 0 \in 0..(Tries - 1)
      BY <1>0 DEF Job
    <3>. QED  BY <3>1, QueuedType
  <2>2. jobs' \in [Jobs -> Job \cup {NoJob}]
    BY <1>1, <1>4, <2>1 DEF FailAfterDispatch, TypeOK
  <2>3. failed' \in BOOLEAN
    BY <1>4 DEF FailAfterDispatch
  <2>. QED
    BY <1>2, <1>4, <2>2, <2>3 DEF FailAfterDispatch, TypeOK, subject, members, deliveries
<1>. QED  BY <1>3, <1>4 DEF Break

LEMMA ChangeType ==
    ASSUME TypeOK, NEW u \in Fickle, Change(u)
    PROVE  TypeOK'
<1>1. \A S \in SUBSET Users : Toggled(S, u) \subseteq Users
  BY DEF Toggled
<1>2. queried' \subseteq Users /\ audience' \subseteq Users /\ barred' \subseteq Users
  BY <1>1 DEF Change, TypeOK
<1>3. ASSUME NEW j \in Jobs, jobs[j] # NoJob, NEW W
      PROVE  [jobs[j] EXCEPT !.kept = @ \cap W] \in Job
  <2>1. jobs[j] \in Job
    BY <1>3, AtType
  <2>. QED  BY <2>1 DEF Job
<1>4. jobs' \in [Jobs -> Job \cup {NoJob}]
  <2>1. jobs' = [j \in Jobs |-> IF jobs[j] = NoJob THEN NoJob
                               ELSE [jobs[j] EXCEPT !.kept = @ \cap Wanted']]
    BY DEF Change
  <2>. QED  BY <1>3, <2>1
<1>. QED  BY <1>2, <1>4 DEF Change, TypeOK, subject, deliveries

LEMMA NextType == TypeOK /\ [Next]_vars => TypeOK'
<1> SUFFICES ASSUME TypeOK, [Next]_vars PROVE TypeOK'
  OBVIOUS
<1>1. ASSUME NEW j \in Jobs, Minute(j) PROVE TypeOK'
  <2>1. Queued(0, 0, {}) \in Job
    BY QueuedType
  <2>2. jobs' \in [Jobs -> Job \cup {NoJob}]
    BY <1>1, <2>1, SetJobType DEF Minute
  <2>. QED  BY <1>1, <2>2 DEF Minute, TypeOK, subject, members, deliveries
<1>2. CASE Turn
  BY <1>2 DEF Turn, TypeOK, members, deliveries
<1>3. CASE Switch
  BY <1>3 DEF Switch, TypeOK, members, deliveries
<1>4. CASE UNCHANGED vars
  BY <1>4 DEF vars, subject, members, deliveries, TypeOK
<1>. QED  BY <1>1, <1>2, <1>3, <1>4, WorkType, BreakType, ChangeType DEF Next

\* Jobs, members and deliveries have their types in every run.
THEOREM TypeCorrect == Spec => []TypeOK
<1>1. Init => TypeOK
  <2>1. Queued(0, 0, {}) \in Job
    BY QueuedType
  <2>2. Init => jobs \in [Jobs -> Job \cup {NoJob}]
    BY <2>1 DEF Init
  <2>3. Init => received \in [Users -> Nat]
    BY DEF Init
  <2>4. Init => /\ queried \subseteq Users /\ audience \subseteq Users
                /\ barred \subseteq Users /\ ledger \subseteq Users
                /\ faults \in 0..MaxFaults
    BY DEF Init
  <2>5. Init => /\ kind \in Kinds /\ due \in BOOLEAN /\ enabled \in BOOLEAN
                /\ marked \in BOOLEAN /\ failed \in BOOLEAN
    BY Zenon DEF Init
  <2>. QED  BY <2>2, <2>3, <2>4, <2>5 DEF TypeOK
<1>2. TypeOK /\ [Next]_vars => TypeOK'
  BY NextType
<1>. QED  BY <1>1, <1>2, PTL DEF Spec

-----------------------------------------------------------------------------
(***************************************************************************)
(* Chains: what a job has behind it is decided, what it has not decided of *)
(* its batch is in it and was accepted, and the rest comes after its last  *)
(* id.                                                                     *)
(***************************************************************************)
Sound(job) ==
    /\ job.kept \subseteq Wanted
    /\ \A u \in job.kept : u <= job.after => u \in ledger
    /\ \A u \in job.kept : u \in job.batch => u \in job.chosen
    /\ job.pc # "queued" =>
          \A u \in job.kept : \/ u \in ledger
                              \/ u \in job.batch
                              \/ job.full /\ u > job.last

ChainsSound == \A j \in Jobs : jobs[j] # NoJob => Sound(jobs[j])

\* Deciding more users keeps a job sound.
LEMMA SoundStays ==
    ASSUME NEW job, Sound(job), UNCHANGED members, ledger \subseteq ledger'
    PROVE  Sound(job)'
BY DEF Sound, Wanted, members

\* A step that leaves the members alone and undecides no one needs only be
\* checked at the jobs it sets.
LEMMA OneJobSet ==
    ASSUME TypeOK, ChainsSound, UNCHANGED members, ledger \subseteq ledger',
           NEW j \in Jobs, NEW job, SetJob(j, job), job = NoJob \/ Sound(job)'
    PROVE  ChainsSound'
<1> SUFFICES ASSUME NEW k \in Jobs, jobs'[k] # NoJob PROVE Sound(jobs[k])'
  BY DEF ChainsSound
<1>1. CASE k = j
  <2>1. jobs'[k] = job
    BY <1>1 DEF SetJob, TypeOK
  <2>. QED  BY <2>1 DEF Sound
<1>2. CASE k # j
  <2>1. jobs'[k] = jobs[k]
    BY <1>2 DEF SetJob, TypeOK
  <2>2. ASSUME NEW r, r = jobs[k] PROVE Sound(r)'
    BY <2>1, <2>2, SoundStays DEF ChainsSound
  <2>. QED  BY <2>1, <2>2 DEF Sound
<1>. QED  BY <1>1, <1>2

\* A batch and its last id leave no one out.
LEMMA BatchCovers ==
    ASSUME NEW after \in Nat, NEW found \in SUBSET Users, NEW batch, IsBatch(batch, found),
           NEW last, IF batch = {} THEN last = after ELSE IsLast(last, batch),
           NEW u \in found
    PROVE  u \in batch \/ (Full(batch) /\ u > last)
<1> SUFFICES ASSUME u \notin batch PROVE Full(batch) /\ u > last
  OBVIOUS
<1>1. Cardinality(batch) = BatchSize
  BY DEF IsBatch
<1>2. batch # {}
  BY <1>1, FS_EmptySet
<1>3. last \in batch /\ batch \subseteq Nat /\ u \in Nat
  BY <1>2 DEF IsLast, IsBatch
<1>. QED  BY <1>1, <1>3 DEF Full, IsBatch

\* A job that is run again stays sound.
LEMMA RetriedSound ==
    ASSUME NEW job \in Job, Sound(job)
    PROVE  Retried(job) = NoJob \/ Sound(Retried(job))
BY DEF Retried, Queued, Sound

\* So is the job of the next batch.
LEMMA NextSound ==
    ASSUME NEW job \in Job, Sound(job), job.pc = "send", job.batch = {}
    PROVE  Sound(Queued(job.last, 0, job.kept))
<1>1. ASSUME NEW u \in job.kept, u <= job.last PROVE u \in ledger
  <2>1. u \in Nat /\ job.last \in Nat
    BY DEF Job
  <2>. QED  BY <1>1, <2>1 DEF Sound
<1>. QED  BY <1>1 DEF Queued, Sound

LEMMA StartSound ==
    ASSUME TypeOK, ChainsSound, NEW j \in Jobs, Start(j)
    PROVE  ChainsSound'
<1>1. ASSUME NEW s, s = jobs[j] PROVE ChainsSound'
  <2>0. s \in Job /\ Sound(s) /\ s.after \in Nat /\ s.kept \in SUBSET Users
    <3>1. s # NoJob
      BY <1>1 DEF Start, At
    <3>2. s \in Job /\ Sound(s)
      BY <1>1, <3>1, AtType DEF ChainsSound
    <3>. QED  BY <3>2 DEF Job
  <2>1. PICK batch \in SUBSET Listed(s.after), last \in Users \cup {s.after} :
           /\ IsBatch(batch, Listed(s.after))
           /\ IF batch = {} THEN last = s.after ELSE IsLast(last, batch)
           /\ SetJob(j, [s EXCEPT
                !.pc = "send", !.batch = batch, !.chosen = batch \cap audience,
                !.last = last, !.full = Full(batch),
                !.kept = IF s.after = 0 THEN Wanted ELSE @])
    BY <1>1 DEF Start
  <2>2. ASSUME NEW kept, kept = IF s.after = 0 THEN Wanted ELSE s.kept PROVE ChainsSound'
    <3>. DEFINE full == Full(batch)
                chosen == batch \cap audience
                r == [s EXCEPT !.pc = "send", !.batch = batch, !.chosen = chosen,
                               !.last = last, !.full = full, !.kept = kept]
    <3>1. /\ kept \subseteq Wanted /\ kept \subseteq Users /\ kept \subseteq audience
          /\ \A u \in kept : u <= s.after => u \in ledger
      <4>1. Wanted \subseteq Users /\ Wanted \subseteq audience /\ \A u \in Users : ~(u <= 0)
        BY DEF Wanted, TypeOK
      <4>2. CASE s.after = 0
        BY <2>2, <4>1, <4>2
      <4>3. CASE s.after # 0
        BY <2>0, <2>2, <4>1, <4>3 DEF Sound
      <4>. QED  BY <4>2, <4>3
    <3>2. Listed(s.after) \subseteq Users
      BY DEF Listed, TypeOK
    <3>3. ASSUME NEW u \in kept PROVE u \in ledger \/ u \in batch \/ (full /\ u > last)
      <4>1. CASE u <= s.after
        BY <3>1, <4>1
      <4>2. CASE u > s.after
        <5>1. u \in Listed(s.after)
          BY <3>1, <4>2 DEF Listed, Wanted
        <5>2. ASSUME NEW found \in SUBSET Users, u \in found, IsBatch(batch, found)
              PROVE  u \in batch \/ (Full(batch) /\ u > last)
          BY <2>0, <2>1, <5>2, BatchCovers
        <5>. QED  BY <2>1, <3>2, <5>1, <5>2
      <4>3. u \in Nat
        BY <3>1
      <4>. QED  BY <2>0, <4>1, <4>2, <4>3
    <3>a. \A u \in kept : u \in batch => u \in chosen
      BY <3>1
    <3>. HIDE DEF full, chosen
    <3>4. /\ r.kept = kept /\ r.after = s.after /\ r.batch = batch /\ r.full = full
          /\ r.chosen = chosen
          /\ r.last = last /\ r.pc = "send"
      BY <2>0 DEF Job
    <3>. HIDE DEF r
    <3>5. Sound(r)
      BY <3>1, <3>3, <3>4, <3>a DEF Sound
    <3>6. SetJob(j, r)
      BY <2>1, <2>2 DEF r, full, chosen
    <3>7. UNCHANGED members /\ ledger' = ledger
      BY DEF Start, deliveries
    <3>8. ASSUME NEW q, q = r PROVE ChainsSound'
      <4>1. Sound(q)'
        BY <3>5, <3>7, <3>8, SoundStays
      <4>. QED  BY <3>6, <3>7, <3>8, <4>1, OneJobSet
    <3>. QED  BY <3>8
  <2>. QED  BY <2>2
<1>. QED  BY <1>1

LEMMA TellSound ==
    ASSUME TypeOK, ChainsSound, NEW j \in Jobs, NEW u \in Users, Tell(j, u)
    PROVE  ChainsSound'
<1>1. ASSUME NEW s, s = jobs[j] PROVE ChainsSound'
  <2>0. s \in Job /\ Sound(s)
    BY <1>1, AtType DEF Tell, At, ChainsSound
  <2>. DEFINE r == [s EXCEPT !.batch = s.batch \ {u}, !.chosen = s.chosen \ {u}]
  <2>1. /\ r.kept = s.kept /\ r.after = s.after /\ r.batch = s.batch \ {u}
        /\ r.chosen = s.chosen \ {u}
        /\ r.full = s.full /\ r.last = s.last /\ r.pc = s.pc
    BY <2>0 DEF Job
  <2>2. SetJob(j, r)
    BY <1>1 DEF Tell
  <2>. HIDE DEF r
  <2>3. UNCHANGED members /\ ledger \subseteq ledger'
    BY DEF Tell, Send, deliveries
  <2>4. ASSUME u \in s.kept PROVE u \in ledger'
    <3>1. u \in audience /\ u \notin barred
      BY <2>0, <2>4 DEF Sound, Wanted
    <3>2. u \in s.chosen
      BY <1>1, <2>0, <2>4 DEF Tell, InTurn, Sound
    <3>. QED  BY <1>1, <3>1, <3>2 DEF Tell, Rejects, Admits, Known, Send, deliveries
  <2>5. Sound(r)'
    BY <2>0, <2>1, <2>3, <2>4 DEF Sound, Wanted, members
  <2>. QED  BY <2>2, <2>3, <2>5, OneJobSet
<1>. QED  BY <1>1

LEMMA ChainsSoundStays == TypeOK /\ ChainsSound /\ [Next]_vars => ChainsSound'
<1> SUFFICES ASSUME TypeOK, ChainsSound, [Next]_vars PROVE ChainsSound'
  OBVIOUS
<1>1. ASSUME NEW j \in Jobs, NEW job, UNCHANGED <<members, ledger>>, SetJob(j, job),
             job = NoJob \/ Sound(job)
      PROVE  ChainsSound'
  <2>1. job = NoJob \/ Sound(job)'
    BY <1>1, SoundStays
  <2>. QED  BY <1>1, <2>1, OneJobSet
<1>2. ASSUME NEW j \in Jobs, StartStale(j) \/ Acknowledge(j) PROVE ChainsSound'
  BY <1>1, <1>2 DEF StartStale, Acknowledge, Drop, deliveries
<1>3. ASSUME NEW j \in Jobs, Continue(j) PROVE ChainsSound'
  <2>1. jobs[j] \in Job /\ Sound(jobs[j])
    BY <1>3, AtType DEF Continue, BatchDone, At, ChainsSound
  <2>2. Sound(Queued(jobs[j].last, 0, jobs[j].kept))
    BY <1>3, <2>1, NextSound DEF Continue, BatchDone, At
  <2>. QED  BY <1>1, <1>3, <2>2 DEF Continue, deliveries
<1>4. ASSUME NEW j \in Jobs, Mark(j) PROVE ChainsSound'
  <2>1. jobs[j] \in Job /\ Sound(jobs[j]) /\ jobs[j].pc = "send"
    BY <1>4, AtType DEF Mark, BatchDone, At, ChainsSound
  <2>2. Sound([jobs[j] EXCEPT !.pc = "ack"])
    BY <2>1 DEF Sound, Job
  <2>. QED  BY <1>1, <1>4, <2>2 DEF Mark, deliveries
<1>5. ASSUME NEW j \in Jobs, Fail(j) PROVE ChainsSound'
  <2>1. jobs[j] \in Job /\ Sound(jobs[j])
    BY <1>5, AtType DEF Fail, At, ChainsSound
  <2>2. Retried(jobs[j]) = NoJob \/ Sound(Retried(jobs[j]))
    BY <2>1, RetriedSound
  <2>. QED  BY <1>1, <1>5, <2>2 DEF Fail, deliveries
<1>6. ASSUME NEW j \in Jobs, NEW k \in Jobs, FailAfterDispatch(j, k) PROVE ChainsSound'
  <2>1. jobs[j] \in Job /\ Sound(jobs[j]) /\ j # k
    BY <1>6, AtType DEF FailAfterDispatch, BatchDone, At, ChainsSound
  <2>2. ASSUME NEW r, r = Retried(jobs[j]), NEW n, n = Queued(jobs[j].last, 0, jobs[j].kept)
        PROVE  ChainsSound'
    <3>1. r = NoJob \/ Sound(r)
      BY <2>1, <2>2, RetriedSound
    <3>2. Sound(n)
      BY <1>6, <2>1, <2>2, NextSound DEF FailAfterDispatch, BatchDone, At
    <3>3. UNCHANGED members /\ ledger' = ledger
      BY <1>6 DEF FailAfterDispatch, deliveries
    <3>4. ASSUME NEW i \in Jobs, jobs'[i] # NoJob PROVE Sound(jobs[i])'
      <4>1. jobs'[i] = IF i = j THEN r ELSE IF i = k THEN n ELSE jobs[i]
        BY <1>6, <2>1, <2>2 DEF FailAfterDispatch, TypeOK
      <4>2. ASSUME NEW q, q = jobs'[i] PROVE Sound(q)
        BY <3>1, <3>2, <3>4, <4>1, <4>2 DEF ChainsSound
      <4>3. ASSUME NEW q, q = jobs'[i] PROVE Sound(q)'
        BY <3>3, <4>2, <4>3, SoundStays
      <4>. QED  BY <4>3 DEF Sound
    <3>. QED  BY <3>4 DEF ChainsSound
  <2>. QED  BY <2>2
<1>7. ASSUME NEW j \in Jobs, Minute(j) PROVE ChainsSound'
  <2>1. Sound(Queued(0, 0, {}))
    BY DEF Queued, Sound
  <2>. QED  BY <1>1, <1>7, <2>1 DEF Minute, deliveries
<1>8. ASSUME NEW u \in Fickle, Change(u) PROVE ChainsSound'
  <2> SUFFICES ASSUME NEW j \in Jobs, jobs'[j] # NoJob PROVE Sound(jobs[j])'
    BY DEF ChainsSound
  <2>1. ledger' = ledger
    BY <1>8 DEF Change, deliveries
  <2>2. jobs[j] # NoJob /\ jobs'[j] = [jobs[j] EXCEPT !.kept = @ \cap Wanted']
    BY <1>8 DEF Change
  <2>3. jobs[j] \in Job /\ Sound(jobs[j])
    BY <2>2, AtType DEF ChainsSound
  <2>4. /\ jobs'[j].kept = jobs[j].kept \cap Wanted'
        /\ jobs'[j].after = jobs[j].after /\ jobs'[j].batch = jobs[j].batch
        /\ jobs'[j].full = jobs[j].full /\ jobs'[j].last = jobs[j].last
        /\ jobs'[j].pc = jobs[j].pc /\ jobs'[j].chosen = jobs[j].chosen
    BY <2>2, <2>3 DEF Job
  <2>. QED  BY <2>1, <2>3, <2>4 DEF Sound
<1>9. CASE Turn \/ Switch \/ UNCHANGED vars
  <2>1. UNCHANGED <<members, ledger, jobs>>
    BY <1>9 DEF Turn, Switch, vars, deliveries
  <2>. QED  BY <2>1 DEF ChainsSound, Sound, Wanted, members
<1>. QED
  BY <1>2, <1>3, <1>4, <1>5, <1>6, <1>7, <1>8, <1>9, StartSound, TellSound
     DEF Next, Work, Break

\* A chain that ends has decided everyone who was to be told when it began
\* and was so throughout, whatever failed and ran beside it.
THEOREM ChainsComplete == Spec => []ChainComplete
<1>1. Init => ChainsSound
  BY DEF Init, ChainsSound, Sound, Queued
<1>2. ChainsSound => ChainComplete
  BY DEF ChainsSound, ChainComplete, Sound
<1>3. TypeOK /\ ChainsSound /\ [Next]_vars => ChainsSound'
  BY ChainsSoundStays
<1>. QED  BY <1>1, <1>2, <1>3, TypeCorrect, PTL DEF Spec

-----------------------------------------------------------------------------
\* Who has no row in the ledger was sent nothing.
UndecidedUntold == \A u \in Users \ ledger : received[u] = 0

LEMMA StepIsLedgerStep ==
    TypeOK /\ UndecidedUntold /\ [Next]_vars
        => UndecidedUntold' /\ [Ledger!Next]_<<ledger, received>>
<1> SUFFICES ASSUME TypeOK, UndecidedUntold, [Next]_vars
             PROVE  UndecidedUntold' /\ [Ledger!Next]_<<ledger, received>>
  OBVIOUS
<1>1. CASE UNCHANGED deliveries
  BY <1>1 DEF deliveries, UndecidedUntold
<1>2. ASSUME NEW u \in Users, Send(u), Admits(u)
      PROVE  UndecidedUntold' /\ [Ledger!Next]_<<ledger, received>>
  <2>1. u \notin ledger /\ received[u] = 0 /\ received \in [Users -> Nat]
    BY <1>2 DEF Admits, Known, UndecidedUntold, TypeOK
  <2>2. received' = received \/ received' = [received EXCEPT ![u] = 1]
    BY <1>2, <2>1 DEF Send
  <2>3. Ledger!Decide(u)
    BY <1>2, <2>1, <2>2 DEF Send, Ledger!Decide
  <2>4. UndecidedUntold'
    BY <1>2, <2>1, <2>2 DEF Send, UndecidedUntold
  <2>. QED  BY <2>3, <2>4 DEF Ledger!Next
<1>3. UNCHANGED deliveries \/ \E u \in Users : Send(u) /\ Admits(u)
  BY DEF Next, vars, Work, Break, StartStale, Start, Tell, Continue, Mark, Acknowledge,
         Fail, FailAfterDispatch, Minute, Turn, Switch, Change
<1>. QED  BY <1>1, <1>2, <1>3

\* The fan-out implements the delivery ledger: each user is decided once, and
\* told then or never.
THEOREM DecidedOnce == Spec => ToldOnce
<1>1. Init => UndecidedUntold /\ Ledger!Init
  BY DEF Init, UndecidedUntold, Ledger!Init
<1>2. TypeOK /\ UndecidedUntold /\ [Next]_vars => UndecidedUntold'
  BY StepIsLedgerStep
<1>3. TypeOK /\ UndecidedUntold /\ [Next]_vars => [Ledger!Next]_<<ledger, received>>
  BY StepIsLedgerStep
<1>. QED  BY <1>1, <1>2, <1>3, TypeCorrect, PTL DEF Spec, ToldOnce, Ledger!Spec

=============================================================================
