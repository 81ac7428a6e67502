------------------------- MODULE PushDeliveryProofs -------------------------
(***************************************************************************)
(* Proofs about PushDelivery for any number of installations, tokens,      *)
(* sessions, registrations and jobs: type correctness, what the row locks  *)
(* protect, and what a registration's version tells a job.                 *)
(***************************************************************************)
EXTENDS PushDelivery, TLAPS

-----------------------------------------------------------------------------
(***************************************************************************)
(* Types and locks.  A registration changes the rows it has found without  *)
(* looking again, so the types rest on its locks: a locked row exists, and *)
(* whoever found it holds it still.                                        *)
(***************************************************************************)
LockReg(r) ==
    /\ Step(r, "prev") \/ Step(r, "save") =>
          (regs[r].found => held[regs[r].asked.at] = r)
    /\ Step(r, "save") =>
          (regs[r].prev # Nothing => held[regs[r].prev] = r)

LockJob(j) == At(j, "http") => held[jobs[j].key.at] = j

LockInv ==
    /\ \A i \in Installations : held[i] # Nothing => Exists(i)
    /\ \A r \in Regs : LockReg(r)
    /\ \A j \in Jobs : LockJob(j)

-----------------------------------------------------------------------------
(***************************************************************************)
(* What a key says.  The row of an installation carries a number that is   *)
(* never reused and a version that only grows: a key that is current names *)
(* the registration it was made for.                                       *)
(***************************************************************************)
Current(key) ==
    /\ Exists(key.at)
    /\ devices[key.at].id = key.id
    /\ devices[key.at].version = key.version

KnownKey(key) ==
    /\ key.id <= ids[key.at]
    /\ Exists(key.at) /\ devices[key.at].id = key.id =>
          key.version <= devices[key.at].version

KeysInv ==
    /\ \A i \in Installations : Exists(i) => devices[i].id <= ids[i]
    /\ \A j \in Jobs : jobs[j] # Nothing => KnownKey(jobs[j].key)
    /\ \A key \in sent : KnownKey(key)

\* A token is on one row at most (its column is unique).
TokensUnique ==
    \A a, b \in Installations :
        Exists(a) /\ Exists(b) /\ devices[a].token = devices[b].token
        /\ devices[a].token # Nothing => a = b

\* A push under way goes to the token of the row its job holds.
HttpInv ==
    \A j \in Jobs : At(j, "http") =>
        Names(jobs[j]) /\ jobs[j].to = devices[jobs[j].key.at].token

\* A registration with the version of a push that was sent still has the token
\* it was sent to, or has lost it to another and is disabled.
SameToken(job) ==
    Current(job.key) =>
        \/ devices[job.key.at].token = job.to
        \/ devices[job.key.at].token = Nothing /\ devices[job.key.at].disabled

ReceiptInv == \A j \in Jobs : At(j, "receipt") \/ At(j, "ask") => SameToken(jobs[j])

\* A push is not sent again: its key is cached, it is under way, or its
\* registration is over.
Spent(key) ==
    \/ key \in cached
    \/ \E j \in Jobs : At(j, "http") /\ jobs[j].key = key
    \/ ~Current(key)
    \/ devices[key.at].disabled

SentInv == \A key \in sent : Spent(key)

PushInv ==
    TypeOK /\ LockInv /\ KeysInv /\ TokensUnique /\ HttpInv /\ ReceiptInv /\ SentInv

-----------------------------------------------------------------------------
(***************************************************************************)
(* Types                                                                   *)
(***************************************************************************)
\* A row, a registration and a job that are there are what they should be.
LEMMA Present ==
    ASSUME TypeOK
    PROVE  /\ \A i \in Installations : Exists(i) => devices[i] \in Device
           /\ \A r \in Regs : regs[r] # Nothing => regs[r] \in Reg
           /\ \A j \in Jobs : jobs[j] # Nothing => jobs[j] \in Job
  BY DEF TypeOK, Maybe, Exists

\* What requests ask for.
LEMMA Asked ==
    ASSUME NEW asked \in Requests
    PROVE  /\ asked.at \in Installations
           /\ asked.token \in Tokens
           /\ asked.session \in Sessions
  BY PushAssumption

\* Storing a registration, or its end, keeps the types.
LEMMA RegStored ==
    ASSUME TypeOK, NEW r \in Regs, NEW reg \in Maybe(Reg), SetReg(r, reg)
    PROVE  /\ regs' \in [Regs -> Maybe(Reg)]
           /\ regs'[r] = reg
           /\ \A q \in Regs \ {r} : regs'[q] = regs[q]
  BY DEF TypeOK, SetReg

LEMMA JobStored ==
    ASSUME TypeOK, NEW j \in Jobs, NEW job \in Maybe(Job), SetJob(j, job)
    PROVE  /\ jobs' \in [Jobs -> Maybe(Job)]
           /\ jobs'[j] = job
           /\ \A k \in Jobs \ {j} : jobs'[k] = jobs[k]
  BY DEF TypeOK, SetJob

\* Giving the locks of one to another, or back, keeps the types.
LEMMA Freed ==
    ASSUME TypeOK, NEW p, NEW q \in Maybe(Regs \cup Jobs),
           held' = [i \in Installations |-> IF held[i] = p THEN q ELSE held[i]]
    PROVE  held' \in [Installations -> Maybe(Regs \cup Jobs)]
  BY DEF TypeOK

\* The fields of a registration that is there.
LEMMA RegFields ==
    ASSUME TypeOK, NEW r \in Regs, regs[r] # Nothing
    PROVE  /\ regs[r] \in Reg
           /\ regs[r].asked \in Requests
           /\ regs[r].asked.at \in Installations
           /\ regs[r].asked.token \in Tokens
           /\ regs[r].asked.session \in Sessions
           /\ regs[r].prev \in Maybe(Installations)
           /\ regs[r].found \in BOOLEAN
<1>1. regs[r] \in Reg
  BY Present
<1>2. regs[r].asked \in Requests
  BY <1>1 DEF Reg
<1> QED
  BY <1>1, <1>2, Asked DEF Reg

\* The fields of a job that is there.
LEMMA JobFields ==
    ASSUME TypeOK, NEW j \in Jobs, jobs[j] # Nothing
    PROVE  /\ jobs[j] \in Job
           /\ jobs[j].key \in Key
           /\ jobs[j].key.at \in Installations
           /\ jobs[j].key.id \in Nat
           /\ jobs[j].key.version \in Nat
           /\ jobs[j].key.generation \in 0..Generations
           /\ jobs[j].user \in Users
           /\ jobs[j].tries \in Nat
           /\ jobs[j].to \in Maybe(Tokens)
<1>1. jobs[j] \in Job
  BY Present
<1>2. jobs[j].key \in Key
  BY <1>1 DEF Job
<1> QED
  BY <1>1, <1>2 DEF Job, Key

\* A registration that starts again counts one attempt more.
LEMMA AgainType ==
    ASSUME NEW reg \in Reg
    PROVE  /\ MoreAttempts(reg.outer) =>
                 [reg EXCEPT !.pc = "find", !.outer = @ + 1, !.inner = 0] \in Reg
           /\ MoreAttempts(reg.inner) =>
                 [reg EXCEPT !.pc = "find", !.inner = @ + 1] \in Reg
<1> USE PushAssumption
<1>1. /\ Attempts \in Nat /\ Attempts > 0
      /\ reg.outer \in 0..(Attempts - 1)
      /\ reg.inner \in 0..(Attempts - 1)
  BY DEF Reg
<1>2. ASSUME NEW n \in 0..(Attempts - 1), NEW m \in 0..(Attempts - 1)
      PROVE  /\ [reg EXCEPT !.pc = "find", !.outer = n, !.inner = m] \in Reg
             /\ [reg EXCEPT !.pc = "find", !.inner = m] \in Reg
  BY DEF Reg
<1>3. 0 \in 0..(Attempts - 1)
  BY <1>1
<1>4. MoreAttempts(reg.outer) => reg.outer + 1 \in 0..(Attempts - 1)
  BY <1>1 DEF MoreAttempts
<1>5. MoreAttempts(reg.inner) => reg.inner + 1 \in 0..(Attempts - 1)
  BY <1>1 DEF MoreAttempts
<1> QED
  BY <1>2, <1>3, <1>4, <1>5

\* The row a registration stores.
LEMMA SavedType ==
    ASSUME TypeOK, LockInv, NEW r \in Regs, Step(r, "save")
    PROVE  /\ Saved(regs[r]) \in Device
           /\ regs[r].found => Exists(regs[r].asked.at)
           /\ regs[r].prev # Nothing =>
                 regs[r].prev \in Installations /\ Exists(regs[r].prev)
<1> USE PushAssumption
<1>1. regs[r] # Nothing
  BY DEF Step
<1>2. regs[r].found => Exists(regs[r].asked.at)
  BY <1>1, RegFields DEF LockInv, LockReg
<1>3. regs[r].prev # Nothing => regs[r].prev \in Installations /\ Exists(regs[r].prev)
  BY <1>1, RegFields DEF LockInv, LockReg, Maybe
<1>4. ASSUME NEW n \in Nat, NEW v \in Nat
      PROVE  [id |-> n, token |-> regs[r].asked.token, session |-> regs[r].asked.session,
              version |-> v, disabled |-> FALSE] \in Device
  BY <1>1, RegFields DEF Device, Maybe
<1>5. CASE ~regs[r].found
  <2>0. regs[r].asked.at \in Installations
    BY <1>1, RegFields
  <2>1. ids[regs[r].asked.at] + 1 \in Nat
    BY <2>0 DEF TypeOK
  <2>2. Saved(regs[r]) =
           [id |-> ids[regs[r].asked.at] + 1, token |-> regs[r].asked.token,
            session |-> regs[r].asked.session, version |-> 1, disabled |-> FALSE]
    BY <1>5 DEF Saved, Registered
  <2> QED
    BY <1>2, <1>3, <1>4, <2>1, <2>2
<1>6. CASE regs[r].found
  <2> DEFINE row == devices[regs[r].asked.at]
  <2>1. row \in Device
    BY <1>1, <1>2, <1>6, RegFields, Present
  <2>2. row.id \in Nat /\ row.version \in Nat /\ row.version + 1 \in Nat
    BY <2>1 DEF Device
  <2> QED
    BY <1>2, <1>3, <1>4, <1>6, <2>2 DEF Saved, Registered
<1> QED
  BY <1>5, <1>6

\* Every step of a registration keeps the types.
LEMMA RegisterType ==
    ASSUME TypeOK, LockInv, NEW r \in Regs, Register(r) \/ RollBack(r)
    PROVE  TypeOK'
<1> USE PushAssumption
<1>1. regs[r] # Nothing
  BY DEF Register, FindDevice, FindPrevious, Save, SaveOrphan, Collide, RollBack,
         Circular, WaitsFor, Step
<1>2. /\ regs[r] \in Reg
      /\ regs[r].asked \in Requests
      /\ regs[r].asked.at \in Installations
  BY <1>1, RegFields
<1>3. /\ \A n \in {"prev", "save"}, f \in BOOLEAN, p \in Maybe(Installations) :
            /\ [regs[r] EXCEPT !.pc = n, !.found = f] \in Maybe(Reg)
            /\ [regs[r] EXCEPT !.pc = n, !.prev = p] \in Maybe(Reg)
      /\ Nothing \in Maybe(Reg)
  BY <1>2 DEF Reg, Maybe
<1>4. CASE FindDevice(r)
  <2>1. SetReg(r, [regs[r] EXCEPT !.pc = "prev", !.found = Exists(regs[r].asked.at)])
    BY <1>4 DEF FindDevice
  <2>2. Exists(regs[r].asked.at) \in BOOLEAN
    BY DEF Exists
  <2>3. regs' \in [Regs -> Maybe(Reg)]
    <3>1. [regs[r] EXCEPT !.pc = "prev", !.found = Exists(regs[r].asked.at)] \in Maybe(Reg)
      BY <1>2, <2>2 DEF Reg, Maybe
    <3> QED
      BY <2>1, <3>1, RegStored
  <2>4. held' \in [Installations -> Maybe(Regs \cup Jobs)]
    BY <1>2, <1>4 DEF FindDevice, TypeOK, Maybe
  <2> QED
    BY <1>4, <2>3, <2>4 DEF FindDevice, TypeOK, table, provider
<1>5. CASE FindPrevious(r)
  <2>1. PICK p \in Maybe(Installations) :
           /\ SetReg(r, [regs[r] EXCEPT !.pc = "save", !.prev = p])
           /\ held' = held \/ (p \in Installations /\ held' = [held EXCEPT ![p] = r])
    BY <1>5 DEF FindPrevious, Maybe, Holders
  <2>2. regs' \in [Regs -> Maybe(Reg)]
    BY <1>3, <2>1, RegStored
  <2>3. held' \in [Installations -> Maybe(Regs \cup Jobs)]
    BY <2>1 DEF TypeOK, Maybe
  <2> QED
    BY <1>5, <2>2, <2>3 DEF FindPrevious, TypeOK, table, provider
<1>6. CASE Save(r)
  <2>1. Step(r, "save")
    BY <1>6 DEF Save
  <2>2. regs' \in [Regs -> Maybe(Reg)]
    BY <1>3, <1>6, RegStored DEF Save, Answer
  <2>3. held' \in [Installations -> Maybe(Regs \cup Jobs)]
    BY <1>6, Freed DEF Save, Release, Maybe
  <2>4. ids' \in [Installations -> Nat]
    BY <1>2, <1>6 DEF Save, TypeOK
  <2>5. devices' \in [Installations -> Maybe(Device)]
    <3>1. Saved(regs[r]) \in Maybe(Device)
      BY <2>1, SavedType DEF Maybe
    <3>2. ASSUME NEW i \in Installations, i = regs[r].prev
          PROVE  Ousted(devices[i]) \in Maybe(Device)
      <4>1. devices[i] \in Device
        BY <2>1, <3>2, SavedType, Present
      <4> QED
        BY <4>1 DEF Ousted, Device, Maybe
    <3> QED
      BY <1>6, <3>1, <3>2 DEF Save, TypeOK
  <2>6. answered' \subseteq Regs /\ refused' \subseteq answered'
    BY <1>6 DEF Save, Answer, TypeOK
  <2> QED
    BY <1>6, <2>2, <2>3, <2>4, <2>5, <2>6 DEF Save, TypeOK, provider
<1>7. CASE SaveOrphan(r)
  <2>1. regs' \in [Regs -> Maybe(Reg)]
    BY <1>3, <1>7, RegStored DEF SaveOrphan, Answer
  <2>2. held' \in [Installations -> Maybe(Regs \cup Jobs)]
    BY <1>7, Freed DEF SaveOrphan, Release, Maybe
  <2>3. answered' \subseteq Regs /\ refused' \subseteq answered'
    BY <1>7 DEF SaveOrphan, Answer, TypeOK
  <2> QED
    BY <1>7, <2>1, <2>2, <2>3 DEF SaveOrphan, TypeOK, table, provider
<1>8. CASE Collide(r)
  <2>1. held' \in [Installations -> Maybe(Regs \cup Jobs)]
    BY <1>8, Freed DEF Collide, Release, Maybe
  <2>2. /\ regs' \in [Regs -> Maybe(Reg)]
        /\ answered' \subseteq Regs /\ refused' \subseteq answered'
    <3>1. CASE MoreAttempts(regs[r].outer)
      <4>1. [regs[r] EXCEPT !.pc = "find", !.outer = @ + 1, !.inner = 0] \in Maybe(Reg)
        BY <1>2, <3>1, AgainType DEF Maybe
      <4> QED
        BY <1>8, <3>1, <4>1, RegStored DEF Collide, Repeat, TypeOK
    <3>2. CASE ~MoreAttempts(regs[r].outer)
      <4>1. Refuse(r)
        BY <1>8, <3>2 DEF Collide
      <4>2. SetReg(r, Nothing) /\ answered' = answered \cup {r} /\ refused' = refused \cup {r}
        BY <4>1 DEF Refuse, Answer
      <4>3. regs' \in [Regs -> Maybe(Reg)]
        BY <1>3, <4>2, RegStored
      <4> QED
        BY <4>2, <4>3 DEF TypeOK
    <3> QED
      BY <3>1, <3>2
  <2> QED
    BY <1>8, <2>1, <2>2 DEF Collide, TypeOK, table, provider
<1>9. CASE RollBack(r)
  <2>1. held' \in [Installations -> Maybe(Regs \cup Jobs)]
    <3>1. PICK q \in Regs :
             held' = [i \in Installations |-> IF held[i] = r THEN q ELSE held[i]]
      BY <1>9 DEF RollBack
    <3> QED
      BY <3>1, Freed DEF Maybe
  <2>2. /\ regs' \in [Regs -> Maybe(Reg)]
        /\ answered' \subseteq Regs /\ refused' \subseteq answered'
    <3>1. CASE MoreAttempts(regs[r].inner)
      <4>1. [regs[r] EXCEPT !.pc = "find", !.inner = @ + 1] \in Maybe(Reg)
        BY <1>2, <3>1, AgainType DEF Maybe
      <4> QED
        <5>1. Repeat(r, [regs[r] EXCEPT !.pc = "find", !.inner = @ + 1])
          BY <1>9, <3>1 DEF RollBack
        <5> QED
          BY <4>1, <5>1, RegStored DEF Repeat, TypeOK
    <3>2. CASE ~MoreAttempts(regs[r].inner)
      <4>1. Refuse(r)
        BY <1>9, <3>2 DEF RollBack
      <4> QED
        BY <1>3, <4>1, RegStored DEF Refuse, Answer, TypeOK
    <3> QED
      BY <3>1, <3>2
  <2> QED
    BY <1>9, <2>1, <2>2 DEF RollBack, TypeOK, table, provider
<1> QED
  BY <1>4, <1>5, <1>6, <1>7, <1>8, <1>9 DEF Register

\* What a job becomes when it has sent, tries again, or sends once more.
LEMMA JobNext ==
    ASSUME NEW job \in Job
    PROVE  /\ \A pc \in {"send", "http", "receipt", "ask"}, to \in Maybe(Tokens),
                 n \in Nat :
                 /\ [job EXCEPT !.pc = pc] \in Job
                 /\ [job EXCEPT !.pc = pc, !.to = to] \in Job
                 /\ [job EXCEPT !.pc = pc, !.tries = n] \in Job
                 /\ [job EXCEPT !.pc = pc, !.to = to, !.tries = n] \in Job
           /\ [job EXCEPT !.pc = "send", !.to = Nothing, !.tries = @ + 1] \in Job
           /\ Later(job) \in Maybe(Job)
           /\ MoreGenerations(job.key) => NextSend(job) \in Job
<1> USE PushAssumption
<1>1. /\ job.key \in Key
      /\ job.key.generation \in 0..Generations
      /\ job.user \in Users
      /\ job.tries \in Nat
  BY DEF Job, Key
<1>2. \A pc \in {"send", "http", "receipt", "ask"}, to \in Maybe(Tokens), n \in Nat :
          /\ [job EXCEPT !.pc = pc] \in Job
          /\ [job EXCEPT !.pc = pc, !.to = to] \in Job
          /\ [job EXCEPT !.pc = pc, !.tries = n] \in Job
          /\ [job EXCEPT !.pc = pc, !.to = to, !.tries = n] \in Job
  BY DEF Job
<1>3. ASSUME MoreGenerations(job.key) PROVE NextSend(job) \in Job
  <2>1. job.key.generation + 1 \in 0..Generations
    BY <1>1, <1>3 DEF MoreGenerations
  <2>2. [job.key EXCEPT !.generation = @ + 1] \in Key
    BY <1>1, <2>1 DEF Key
  <2> QED
    BY <1>1, <2>2 DEF NextSend, SendJob, Job, Maybe
<1>4. job.tries + 1 \in Nat
  BY <1>1
<1>5. /\ [job EXCEPT !.pc = "receipt", !.tries = job.tries + 1] \in Job
      /\ [job EXCEPT !.pc = "send", !.to = Nothing, !.tries = job.tries + 1] \in Job
  BY <1>4 DEF Job, Maybe
<1>6. Later(job) \in Maybe(Job)
  BY <1>5 DEF Later, Maybe
<1> QED
  BY <1>2, <1>3, <1>5, <1>6

\* Every step of a job, and every failure, keeps the types.
LEMMA JobType ==
    ASSUME TypeOK, LockInv, NEW j \in Jobs,
           Work(j) \/ Fail(j) \/ \E k \in Jobs : FailAfterDispatch(j, k)
    PROVE  TypeOK'
<1> USE PushAssumption
<1> DEFINE job == jobs[j]
<1>1. job # Nothing
  BY DEF Work, Send, Skip, Accepted, Rejected, Ask, Fine, NotYet, NotRegistered,
         RateExceeded, Fail, FailAfterDispatch, At
<1>2. job \in Job /\ job.key \in Key /\ job.key.at \in Installations
  BY <1>1, JobFields
<1>3. Nothing \in Maybe(Job) /\ Nothing \in Maybe(Tokens)
  BY DEF Maybe
<1>4. ASSUME NEW i \in Installations, Exists(i)
      PROVE  [devices EXCEPT ![i].disabled = TRUE] \in [Installations -> Maybe(Device)]
  <2>1. devices[i] \in Device
    BY <1>4, Present
  <2>2. [devices[i] EXCEPT !.disabled = TRUE] \in Device
    BY <2>1 DEF Device
  <2> QED
    BY <2>2 DEF TypeOK, Maybe
<1>5. Release(j) \in [Installations -> Maybe(Regs \cup Jobs)]
  BY DEF TypeOK, Release, Maybe
<1>6. CASE Send(j)
  <2>1. devices[job.key.at] \in Device
    BY <1>2, <1>6, Present DEF Send, Names, Live
  <2>2. [job EXCEPT !.pc = "http", !.to = devices[job.key.at].token] \in Maybe(Job)
    BY <1>2, <2>1, JobNext DEF Device, Maybe
  <2>3. SetJob(j, [job EXCEPT !.pc = "http", !.to = devices[job.key.at].token])
    BY <1>6 DEF Send
  <2>4. jobs' \in [Jobs -> Maybe(Job)]
    BY <2>2, <2>3, JobStored
  <2>5. held' \in [Installations -> Maybe(Regs \cup Jobs)]
    BY <1>2, <1>6 DEF Send, Locked, TypeOK, Maybe
  <2> QED
    BY <1>2, <1>6, <2>4, <2>5 DEF Send, TypeOK, table, requests
<1>7. CASE Accepted(j)
  <2>1. [job EXCEPT !.pc = "receipt", !.tries = 0] \in Maybe(Job)
    BY <1>2, JobNext DEF Maybe
  <2>2. SetJob(j, [job EXCEPT !.pc = "receipt", !.tries = 0])
    BY <1>7 DEF Accepted
  <2>3. jobs' \in [Jobs -> Maybe(Job)]
    BY <2>1, <2>2, JobStored
  <2> QED
    BY <1>2, <1>5, <1>7, <2>3 DEF Accepted, TypeOK, table, requests
<1>8. CASE Rejected(j)
  <2>1. Exists(job.key.at)
    BY <1>1, <1>2, <1>8 DEF Rejected, LockInv, LockJob
  <2>2. jobs' \in [Jobs -> Maybe(Job)]
    BY <1>3, <1>8, JobStored DEF Rejected, Drop
  <2>3. devices' \in [Installations -> Maybe(Device)]
    BY <1>2, <1>4, <1>8, <2>1 DEF Rejected
  <2> QED
    BY <1>5, <1>8, <2>2, <2>3 DEF Rejected, TypeOK, requests, provider
<1>9. CASE Skip(j) \/ Ask(j) \/ Fine(j) \/ NotYet(j) \/ RateExceeded(j)
  <2>1. jobs' \in [Jobs -> Maybe(Job)]
    <3>1. PICK next \in Maybe(Job) : SetJob(j, next)
      <4>1. CASE Skip(j) \/ Fine(j)
        BY <1>3, <4>1 DEF Skip, Fine, Drop
      <4>2. CASE Ask(j)
        BY <1>2, <4>2, JobNext DEF Ask, Maybe
      <4>3. CASE NotYet(j)
        BY <1>2, <4>3, JobNext DEF NotYet
      <4>4. CASE RateExceeded(j)
        BY <1>2, <1>3, <4>4, JobNext DEF RateExceeded, Drop, Maybe
      <4> QED
        BY <1>9, <4>1, <4>2, <4>3, <4>4
    <3> QED
      BY <3>1, JobStored
  <2> QED
    BY <1>9, <2>1 DEF Skip, Ask, Fine, NotYet, RateExceeded, TypeOK, table, requests,
                      provider
<1>10. CASE NotRegistered(j)
  <2>1. jobs' \in [Jobs -> Maybe(Job)]
    BY <1>3, <1>10, JobStored DEF NotRegistered, Drop
  <2>2. devices' \in [Installations -> Maybe(Device)]
    <3>1. CASE Registration(job)
      BY <1>2, <1>4, <1>10, <3>1 DEF NotRegistered, Registration
    <3>2. CASE ~Registration(job)
      BY <1>10, <3>2 DEF NotRegistered, TypeOK
    <3> QED
      BY <3>1, <3>2
  <2> QED
    BY <1>10, <2>1, <2>2 DEF NotRegistered, TypeOK, requests, provider
<1>11. CASE Fail(j)
  <2>1. jobs' \in [Jobs -> Maybe(Job)]
    <3>1. PICK next \in Maybe(Job) : SetJob(j, next)
      BY <1>2, <1>3, <1>11, JobNext DEF Fail, Drop, Maybe
    <3> QED
      BY <3>1, JobStored
  <2>2. events' \in 0..MaxEvents
    BY <1>11 DEF Fail, Event, TypeOK
  <2> QED
    BY <1>2, <1>5, <1>11, <2>1, <2>2 DEF Fail, TypeOK, table, requests
<1>12. ASSUME NEW k \in Jobs, FailAfterDispatch(j, k)
       PROVE  TypeOK'
  <2>1. NextSend(job) \in Maybe(Job)
    BY <1>2, <1>12, JobNext DEF FailAfterDispatch, Maybe
  <2>2. Later(job) \in Maybe(Job)
    BY <1>2, JobNext
  <2>3. jobs' \in [Jobs -> Maybe(Job)]
    BY <1>12, <2>1, <2>2 DEF FailAfterDispatch, TypeOK
  <2>4. events' \in 0..MaxEvents
    BY <1>12 DEF FailAfterDispatch, Event, TypeOK
  <2> QED
    BY <1>12, <2>3, <2>4 DEF FailAfterDispatch, TypeOK, table, requests, provider
<1> QED
  BY <1>6, <1>7, <1>8, <1>9, <1>10, <1>11, <1>12 DEF Work

\* What comes from outside keeps the types.
LEMMA OutsideType ==
    ASSUME TypeOK, LockInv, Outside
    PROVE  TypeOK'
<1> USE PushAssumption
<1>0. ASSUME Event PROVE events' \in 0..MaxEvents
  BY <1>0 DEF Event, TypeOK
<1>1. ASSUME NEW r \in Regs, NEW asked \in Requests, Begin(r, asked)
      PROVE  TypeOK'
  <2> DEFINE reg == [pc |-> "find", asked |-> asked, found |-> FALSE, prev |-> Nothing,
                     inner |-> 0, outer |-> 0]
  <2>1. reg \in Maybe(Reg)
    BY DEF Reg, Maybe
  <2>2. SetReg(r, reg)
    BY <1>1 DEF Begin
  <2>3. regs' \in [Regs -> Maybe(Reg)]
    BY <2>1, <2>2, RegStored
  <2> QED
    BY <1>0, <1>1, <2>3 DEF Begin, TypeOK, table, provider
<1>2. ASSUME NEW i \in Installations, Unregister(i)
      PROVE  TypeOK'
  <2>1. devices[i] \in Device
    BY <1>2, Present DEF Unregister
  <2>2. [devices[i] EXCEPT !.disabled = TRUE] \in Maybe(Device)
    BY <2>1 DEF Device, Maybe
  <2>3. devices' \in [Installations -> Maybe(Device)]
    BY <1>2, <2>2 DEF Unregister, TypeOK
  <2> QED
    BY <1>0, <1>2, <2>3 DEF Unregister, TypeOK, requests, provider
<1>3. ASSUME NEW user \in Users, Logout(user)
      PROVE  TypeOK'
  <2>1. devices' \in [Installations -> Maybe(Device)]
    BY <1>3 DEF Logout, TypeOK, Maybe
  <2> QED
    BY <1>0, <1>3, <2>1 DEF Logout, TypeOK, requests, provider
<1>4. ASSUME NEW token \in Tokens, Uninstall(token)
      PROVE  TypeOK'
  BY <1>0, <1>4 DEF Uninstall, TypeOK, table, requests
<1>5. ASSUME NEW j \in Jobs, NEW i \in Installations, Notify(j, i)
      PROVE  TypeOK'
  <2> DEFINE key == [at |-> i, id |-> devices[i].id, version |-> devices[i].version,
                     generation |-> 0]
  <2>1. devices[i] \in Device
    BY <1>5, Present DEF Notify, Live
  <2>2. key \in Key /\ Owner[devices[i].session] \in Users
    BY <2>1 DEF Key, Device
  <2>3. SendJob(Owner[devices[i].session], key) \in Maybe(Job)
    BY <2>2 DEF SendJob, Job, Maybe
  <2>4. SetJob(j, SendJob(Owner[devices[i].session], key))
    BY <1>5 DEF Notify
  <2>5. jobs' \in [Jobs -> Maybe(Job)]
    BY <2>3, <2>4, JobStored
  <2> QED
    BY <1>0, <1>5, <2>5 DEF Notify, TypeOK, table, requests, provider
<1> QED
  BY <1>1, <1>2, <1>3, <1>4, <1>5, JobType DEF Outside

LEMMA TypeStep == TypeOK /\ LockInv /\ [Next]_vars => TypeOK'
<1> SUFFICES ASSUME TypeOK, LockInv, [Next]_vars PROVE TypeOK'
  OBVIOUS
<1>1. CASE UNCHANGED vars
  BY <1>1 DEF vars, table, requests, provider, TypeOK
<1> QED
  BY <1>1, RegisterType, JobType, OutsideType DEF Next, Progress

-----------------------------------------------------------------------------
(***************************************************************************)
(* Locks                                                                   *)
(***************************************************************************)
\* A step of p changes no lock of another, nor what the other knows of it.
LEMMA OthersLocks ==
    ASSUME TypeOK, LockInv, NEW p \in Regs \cup Jobs,
           \A i \in Installations : held[i] \in Maybe({p}) \/ held'[i] = held[i],
           \A q \in Regs \ {p} : regs'[q] = regs[q],
           NEW moved, \A j \in Jobs \ {moved} : jobs'[j] = jobs[j] \/ ~At(j, "http")'
    PROVE  /\ \A q \in Regs \ {p} : LockReg(q)'
           /\ \A j \in Jobs \ {p, moved} : LockJob(j)'
<1> USE PushAssumption
<1>1. ASSUME NEW q \in Regs \ {p}, regs[q] # Nothing PROVE LockReg(q)'
  <2>1. regs[q].asked.at \in Installations /\ regs[q].prev \in Maybe(Installations)
    BY <1>1, RegFields
  <2>2. q \notin Maybe({p})
    BY DEF Maybe
  <2>3. \A i \in Installations : held[i] = q => held'[i] = q
    BY <2>2
  <2> QED
    BY <2>1, <2>3 DEF LockInv, LockReg, Step, Maybe
<1>2. ASSUME NEW q \in Regs \ {p}, regs[q] = Nothing PROVE LockReg(q)'
  BY <1>2 DEF LockReg, Step
<1>3. ASSUME NEW j \in Jobs \ {p, moved}, At(j, "http")' PROVE LockJob(j)'
  <2>1. jobs'[j] = jobs[j] /\ jobs[j] # Nothing /\ At(j, "http")
    BY <1>3 DEF At
  <2>2. jobs[j].key.at \in Installations
    BY <2>1, JobFields
  <2>3. held[jobs[j].key.at] = j
    BY <2>1 DEF LockInv, LockJob
  <2>4. j \notin Maybe({p})
    BY DEF Maybe
  <2> QED
    BY <2>1, <2>2, <2>3, <2>4 DEF LockJob
<1> QED
  BY <1>1, <1>2, <1>3 DEF LockJob

\* A registration that is rolled back or collides starts again, counting an
\* attempt more in one of its loops, or is refused.
LEMMA StartsAgain ==
    ASSUME TypeOK, NEW r \in Regs, regs[r] # Nothing, Collide(r) \/ RollBack(r)
    PROVE  /\ \A q \in Regs \ {r} : regs'[q] = regs[q]
           /\ \/ /\ regs'[r] = Nothing
                 /\ refused' = refused \cup {r}
                 /\ answered' = answered \cup {r}
                 /\ Collide(r) => ~MoreAttempts(regs[r].outer)
                 /\ RollBack(r) /\ ~Collide(r) => ~MoreAttempts(regs[r].inner)
              \/ /\ regs'[r] # Nothing
                 /\ regs'[r].pc = "find"
                 /\ regs'[r].asked = regs[r].asked
                 /\ UNCHANGED <<answered, refused>>
                 /\ \/ /\ Collide(r)
                       /\ regs'[r].outer = regs[r].outer + 1
                       /\ regs'[r].inner = 0
                    \/ /\ RollBack(r)
                       /\ regs'[r].outer = regs[r].outer
                       /\ regs'[r].inner = regs[r].inner + 1
<1>1. regs[r] \in Reg
  BY RegFields
<1>2. CASE Collide(r)
  <2>1. CASE MoreAttempts(regs[r].outer)
    <3> DEFINE next == [regs[r] EXCEPT !.pc = "find", !.outer = @ + 1, !.inner = 0]
    <3>1. Repeat(r, next)
      BY <1>2, <2>1 DEF Collide
    <3>2. next \in Reg
      BY <1>1, <2>1, AgainType
    <3>3. /\ next.pc = "find" /\ next.asked = regs[r].asked
          /\ next.outer = regs[r].outer + 1 /\ next.inner = 0
      BY <1>1 DEF Reg
    <3> HIDE DEF next
    <3>4. regs'[r] = next /\ next # Nothing /\ \A q \in Regs \ {r} : regs'[q] = regs[q]
      BY <3>1, <3>2, RegStored, NothingAssumption DEF Repeat, Maybe
    <3> QED
      BY <1>2, <3>1, <3>3, <3>4 DEF Repeat
  <2>2. CASE ~MoreAttempts(regs[r].outer)
    <3>1. Refuse(r)
      BY <1>2, <2>2 DEF Collide
    <3>2. regs'[r] = Nothing /\ \A q \in Regs \ {r} : regs'[q] = regs[q]
      BY <3>1, RegStored DEF Refuse, Answer, Maybe
    <3> QED
      BY <1>2, <2>2, <3>1, <3>2 DEF Refuse, Answer
  <2> QED
    BY <2>1, <2>2
<1>3. CASE RollBack(r) /\ ~Collide(r)
  <2>1. CASE MoreAttempts(regs[r].inner)
    <3> DEFINE next == [regs[r] EXCEPT !.pc = "find", !.inner = @ + 1]
    <3>1. Repeat(r, next)
      BY <1>3, <2>1 DEF RollBack
    <3>2. next \in Reg
      BY <1>1, <2>1, AgainType
    <3>3. /\ next.pc = "find" /\ next.asked = regs[r].asked
          /\ next.outer = regs[r].outer /\ next.inner = regs[r].inner + 1
      BY <1>1 DEF Reg
    <3> HIDE DEF next
    <3>4. regs'[r] = next /\ next # Nothing /\ \A q \in Regs \ {r} : regs'[q] = regs[q]
      BY <3>1, <3>2, RegStored, NothingAssumption DEF Repeat, Maybe
    <3> QED
      BY <1>3, <3>1, <3>3, <3>4 DEF Repeat
  <2>2. CASE ~MoreAttempts(regs[r].inner)
    <3>1. Refuse(r)
      BY <1>3, <2>2 DEF RollBack
    <3>2. regs'[r] = Nothing /\ \A q \in Regs \ {r} : regs'[q] = regs[q]
      BY <3>1, RegStored DEF Refuse, Answer, Maybe
    <3> QED
      BY <1>3, <2>2, <3>1, <3>2 DEF Refuse, Answer
  <2> QED
    BY <2>1, <2>2
<1> QED
  BY <1>2, <1>3

\* A registration holds what it has found, and disturbs no other.
LEMMA RegisterLock ==
    ASSUME TypeOK, TypeOK', LockInv, NEW r \in Regs, Register(r) \/ RollBack(r)
    PROVE  LockInv'
<1> USE PushAssumption
<1>1. regs[r] # Nothing
  BY DEF Register, FindDevice, FindPrevious, Save, SaveOrphan, Collide, RollBack,
         Circular, WaitsFor, Step
<1>2. /\ regs[r] \in Reg
      /\ regs[r].asked.at \in Installations
  BY <1>1, RegFields
<1>3. /\ \A q \in Regs \ {r} : regs'[q] = regs[q]
      /\ jobs' = jobs
  <2>1. CASE FindDevice(r)
    BY <2>1 DEF FindDevice, SetReg, TypeOK
  <2>2. CASE FindPrevious(r)
    BY <2>2 DEF FindPrevious, SetReg, TypeOK
  <2>3. CASE Save(r) \/ SaveOrphan(r)
    BY <2>3 DEF Save, SaveOrphan, Answer, SetReg, TypeOK
  <2>4. CASE Collide(r)
    BY <2>4 DEF Collide, Repeat, Refuse, Answer, SetReg, TypeOK
  <2>5. CASE RollBack(r)
    BY <2>5 DEF RollBack, Repeat, Refuse, Answer, SetReg, TypeOK
  <2> QED
    BY <2>1, <2>2, <2>3, <2>4, <2>5 DEF Register
<1>4. \A i \in Installations : held[i] \in Maybe({r}) \/ held'[i] = held[i]
  <2>1. CASE FindDevice(r)
    BY <1>2, <2>1 DEF FindDevice, CanLock, TypeOK, Maybe
  <2>2. CASE FindPrevious(r)
    BY <2>2 DEF FindPrevious, CanLock, TypeOK, Maybe
  <2>3. CASE Save(r) \/ SaveOrphan(r) \/ Collide(r)
    BY <2>3 DEF Save, SaveOrphan, Collide, Release, Maybe
  <2>4. CASE RollBack(r)
    BY <2>4 DEF RollBack, Maybe
  <2> QED
    BY <2>1, <2>2, <2>3, <2>4 DEF Register
<1>5. /\ \A q \in Regs \ {r} : LockReg(q)'
      /\ \A j \in Jobs : LockJob(j)'
  BY <1>3, <1>4, OthersLocks DEF At
<1>6. LockReg(r)'
  <2>1. CASE FindDevice(r)
    <3>1. regs'[r] = [regs[r] EXCEPT !.pc = "prev", !.found = Exists(regs[r].asked.at)]
      BY <2>1 DEF FindDevice, SetReg, TypeOK
    <3>2. regs'[r].pc = "prev" /\ regs'[r].asked = regs[r].asked
          /\ (regs'[r].found <=> Exists(regs[r].asked.at))
      BY <1>2, <3>1 DEF Reg
    <3>3. Exists(regs[r].asked.at) => held'[regs[r].asked.at] = r
      BY <1>2, <2>1 DEF FindDevice, TypeOK
    <3> QED
      BY <3>2, <3>3 DEF LockReg, Step
  <2>2. CASE FindPrevious(r)
    <3>1. PICK p \in Maybe(Installations) :
             /\ regs'[r] = [regs[r] EXCEPT !.pc = "save", !.prev = p]
             /\ \/ p = Nothing /\ held' = held
                \/ p \in Installations /\ held' = [held EXCEPT ![p] = r]
      BY <2>2 DEF FindPrevious, SetReg, TypeOK, Maybe, Holders
    <3>2. regs'[r].asked = regs[r].asked /\ regs'[r].found = regs[r].found
          /\ regs'[r].prev = p
      BY <1>2, <3>1 DEF Reg
    <3>3. regs[r].found => held[regs[r].asked.at] = r
      BY <2>2 DEF FindPrevious, LockInv, LockReg
    <3> QED
      BY <1>2, <3>1, <3>2, <3>3 DEF LockReg, TypeOK
  <2>3. CASE Save(r) \/ SaveOrphan(r)
    BY <2>3, RegStored DEF Save, SaveOrphan, Answer, LockReg, Step, Maybe
  <2>4. CASE Collide(r) \/ RollBack(r)
    BY <1>1, <2>4, StartsAgain DEF LockReg, Step
  <2> QED
    BY <2>1, <2>2, <2>3, <2>4 DEF Register
<1>7. ASSUME NEW i \in Installations, held'[i] # Nothing PROVE Exists(i)'
  <2>1. CASE FindDevice(r)
    <3>1. devices' = devices /\ (held'[i] = held[i] \/ Exists(i))
      BY <1>2, <2>1 DEF FindDevice, TypeOK, table
    <3> QED
      BY <1>7, <3>1 DEF LockInv, Exists
  <2>2. CASE FindPrevious(r)
    <3>1. devices' = devices /\ (held'[i] = held[i] \/ Exists(i))
      BY <2>2 DEF FindPrevious, TypeOK, table, Holders
    <3> QED
      BY <1>7, <3>1 DEF LockInv, Exists
  <2>3. CASE Save(r)
    <3>1. held[i] # Nothing /\ Exists(i)
      BY <1>7, <2>3 DEF Save, Release, LockInv
    <3>2. Saved(regs[r]) # Nothing /\ Ousted(devices[i]) # Nothing
      <4>1. devices[i] \in Device
        BY <3>1, Present
      <4>2. Ousted(devices[i]) \in Device
        BY <4>1 DEF Ousted, Device, Maybe
      <4> QED
        BY <2>3, <4>2, SavedType, NothingAssumption DEF Save
    <3> QED
      BY <2>3, <3>1, <3>2 DEF Save, Exists
  <2>4. CASE SaveOrphan(r) \/ Collide(r)
    BY <1>7, <2>4 DEF SaveOrphan, Collide, Release, LockInv, Exists, table
  <2>5. CASE RollBack(r)
    BY <1>7, <2>5 DEF RollBack, LockInv, Exists, table
  <2> QED
    BY <2>1, <2>2, <2>3, <2>4, <2>5 DEF Register
<1> QED
  BY <1>5, <1>6, <1>7 DEF LockInv

-----------------------------------------------------------------------------
(***************************************************************************)
(* What a step may do to the row of an installation.  It stays the row it  *)
(* is, and then its version grows or nothing that a job relies on changes; *)
(* or it is deleted, which no one can do while it is locked; or a new one  *)
(* is made, with a number no row has had.                                  *)
(***************************************************************************)
SameVersion(i) ==
    /\ devices'[i].version = devices[i].version
    /\ devices'[i].session = devices[i].session
    /\ devices[i].disabled => devices'[i].disabled
    /\ \/ devices'[i].token = devices[i].token
       \/ devices'[i].token = Nothing /\ devices'[i].disabled

Kept(i) ==
    /\ Exists(i) /\ Exists(i)'
    /\ devices'[i].id = devices[i].id /\ ids'[i] = ids[i]
    /\ SameVersion(i) \/ devices'[i].version = devices[i].version + 1

Removed(i) == Exists(i) /\ ~Exists(i)' /\ held[i] = Nothing /\ ids'[i] = ids[i]

Created(i) ==
    /\ ~Exists(i) /\ Exists(i)'
    /\ devices'[i].id = ids[i] + 1 /\ ids'[i] = ids[i] + 1

Missing(i) == ~Exists(i) /\ ~Exists(i)' /\ ids'[i] = ids[i]

RowStep(i) == Kept(i) \/ Removed(i) \/ Created(i) \/ Missing(i)

\* Disabling a row changes nothing else of it.
LEMMA RowDisabled ==
    ASSUME TypeOK, NEW i \in Installations, Exists(i),
           devices' = [devices EXCEPT ![i].disabled = TRUE]
    PROVE  /\ Exists(i)'
           /\ devices'[i].id = devices[i].id
           /\ devices'[i].disabled
           /\ devices'[i].token = devices[i].token
           /\ SameVersion(i)
           /\ \A k \in Installations \ {i} : devices'[k] = devices[k]
<1>1. devices[i] \in Device
  BY Present
<1>2. devices'[i] = [devices[i] EXCEPT !.disabled = TRUE]
  BY DEF TypeOK
<1>3. devices'[i] \in Device
  <2>1. [devices[i] EXCEPT !.disabled = TRUE] \in Device
    BY <1>1 DEF Device
  <2> QED
    BY <1>2, <2>1
<1>4. /\ devices'[i].id = devices[i].id
      /\ devices'[i].version = devices[i].version
      /\ devices'[i].session = devices[i].session
      /\ devices'[i].token = devices[i].token
      /\ devices'[i].disabled
  BY <1>1, <1>2 DEF Device
<1>5. Exists(i)'
  BY <1>3, NothingAssumption DEF Exists
<1>6. \A k \in Installations \ {i} : devices'[k] = devices[k]
  BY DEF TypeOK
<1> QED
  BY <1>4, <1>5, <1>6 DEF SameVersion

\* A row that does not change.
LEMMA RowSame ==
    ASSUME NEW i, devices'[i] = devices[i], ids'[i] = ids[i]
    PROVE  RowStep(i)
  BY DEF RowStep, Kept, Missing, SameVersion, Exists

\* The row an installation's own registration writes.
LEMMA RowSaved ==
    ASSUME TypeOK, LockInv, NEW r \in Regs, Save(r), NEW i, i = regs[r].asked.at
    PROVE  /\ RowStep(i)
           /\ Exists(i)'
           /\ devices'[i].token = regs[r].asked.token
<1>1. regs[r] # Nothing /\ Step(r, "save")
  BY DEF Save, Step
<1>2. i \in Installations /\ regs[r].asked.token \in Tokens
  BY <1>1, RegFields
<1>3. Saved(regs[r]) \in Device
  BY <1>1, SavedType
<1>4. devices'[i] = Saved(regs[r])
  BY <1>2 DEF Save
<1>5. Exists(i)'
  BY <1>3, <1>4, NothingAssumption DEF Exists
<1>6. CASE ~regs[r].found
  <2>1. ~Exists(i)
    BY <1>6 DEF Save, Duplicate
  <2>2. ids'[i] = ids[i] + 1
    BY <1>2, <1>6 DEF Save, TypeOK
  <2>3. devices'[i].id = ids[i] + 1 /\ devices'[i].token = regs[r].asked.token
    BY <1>4, <1>6 DEF Saved, Registered
  <2> QED
    BY <1>5, <2>1, <2>2, <2>3 DEF RowStep, Created
<1>7. CASE regs[r].found
  <2> DEFINE row == devices[i]
             asked == regs[r].asked
  <2>1. Exists(i) /\ row \in Device
    BY <1>1, <1>2, <1>7, SavedType, Present
  <2>2. ids'[i] = ids[i]
    BY <1>7 DEF Save
  <2>3. devices'[i] =
           [id |-> row.id, token |-> asked.token, session |-> asked.session,
            version |-> IF Changed(row, asked) THEN row.version + 1 ELSE row.version,
            disabled |-> FALSE]
    BY <1>4, <1>7 DEF Saved, Registered
  <2>4. /\ devices'[i].id = row.id
        /\ devices'[i].token = asked.token
        /\ devices'[i].session = asked.session
        /\ devices'[i].version = IF Changed(row, asked) THEN row.version + 1
                                 ELSE row.version
    BY <2>3
  <2>5. CASE Changed(row, asked)
    BY <1>5, <2>1, <2>2, <2>4, <2>5 DEF RowStep, Kept
  <2>6. CASE ~Changed(row, asked)
    <3>1. SameVersion(i)
      BY <2>4, <2>6 DEF Changed, SameVersion
    <3> QED
      BY <1>5, <2>1, <2>2, <2>4, <3>1 DEF RowStep, Kept
  <2> QED
    BY <2>5, <2>6
<1>8. regs[r].found \in BOOLEAN
  BY <1>1, RegFields
<1> QED
  BY <1>5, <1>6, <1>7, <1>8

\* The row that loses its token to another.
LEMMA RowOusted ==
    ASSUME TypeOK, LockInv, NEW r \in Regs, Save(r),
           NEW i \in Installations, i = regs[r].prev, i # regs[r].asked.at
    PROVE  /\ RowStep(i)
           /\ Exists(i)'
           /\ devices'[i].token = Nothing
<1> USE PushAssumption
<1>1. Step(r, "save") /\ i # Nothing
  BY DEF Save
<1>2. Exists(i) /\ devices[i] \in Device
  BY <1>1, SavedType, Present
<1>3. regs[r] # Nothing /\ regs[r].asked.at \in Installations
  BY <1>1, RegFields DEF Step
<1>4. devices'[i] = Ousted(devices[i])
  BY DEF Save
<1>5. ids'[i] = ids[i]
  BY <1>3 DEF Save, TypeOK
<1>6. Ousted(devices[i]) \in Device
  BY <1>2 DEF Ousted, Device, Maybe
<1>7. Exists(i)'
  BY <1>4, <1>6, NothingAssumption DEF Exists
<1>8. /\ devices'[i].id = devices[i].id
      /\ devices'[i].version = devices[i].version
      /\ devices'[i].session = devices[i].session
      /\ devices'[i].token = Nothing
      /\ devices'[i].disabled
  BY <1>2, <1>4 DEF Ousted, Device
<1> QED
  BY <1>2, <1>5, <1>7, <1>8 DEF RowStep, Kept, SameVersion

\* Every step treats every row as said.
LEMMA RowSteps ==
    ASSUME TypeOK, LockInv, [Next]_vars, NEW i \in Installations
    PROVE  RowStep(i)
<1>1. CASE UNCHANGED <<devices, ids>>
  BY <1>1, RowSame
<1>2. ASSUME NEW r \in Regs, Save(r) PROVE RowStep(i)
  <2>1. regs[r].asked.at \in Installations
    BY <1>2, RegFields DEF Save, Step
  <2>2. CASE i = regs[r].asked.at
    BY <1>2, <2>2, RowSaved
  <2>3. CASE i # regs[r].asked.at /\ i = regs[r].prev
    BY <1>2, <2>3, RowOusted
  <2>4. CASE i # regs[r].asked.at /\ i # regs[r].prev
    <3>1. devices'[i] = devices[i] /\ ids'[i] = ids[i]
      BY <1>2, <2>1, <2>4 DEF Save, TypeOK
    <3> QED
      BY <3>1, RowSame
  <2> QED
    BY <2>2, <2>3, <2>4
<1>3. ASSUME NEW k \in Installations, Exists(k), ids' = ids,
             devices' = [devices EXCEPT ![k].disabled = TRUE]
      PROVE  RowStep(i)
  <2>1. CASE i = k
    BY <1>3, <2>1, RowDisabled DEF RowStep, Kept
  <2>2. CASE i # k
    BY <1>3, <2>2, RowDisabled, RowSame
  <2> QED
    BY <2>1, <2>2
<1>4. ASSUME NEW k \in Installations, Unregister(k) PROVE RowStep(i)
  BY <1>3, <1>4 DEF Unregister
<1>5. ASSUME NEW j \in Jobs, Rejected(j) \/ NotRegistered(j) PROVE RowStep(i)
  <2>1. jobs[j] # Nothing
    BY <1>5 DEF Rejected, NotRegistered, At
  <2>2. jobs[j].key.at \in Installations
    BY <2>1, JobFields
  <2>3. CASE Rejected(j)
    <3>1. held[jobs[j].key.at] = j
      BY <2>3 DEF Rejected, LockInv, LockJob
    <3>2. Exists(jobs[j].key.at)
      BY <2>2, <3>1, PushAssumption DEF LockInv
    <3> QED
      BY <1>3, <2>2, <2>3, <3>2 DEF Rejected
  <2>4. CASE NotRegistered(j)
    BY <1>1, <1>3, <2>2, <2>4 DEF NotRegistered, Registration
  <2> QED
    BY <1>5, <2>3, <2>4
<1>6. ASSUME NEW user \in Users, Logout(user) PROVE RowStep(i)
  <2>1. \/ devices'[i] = devices[i]
        \/ Exists(i) /\ held[i] = Nothing /\ devices'[i] = Nothing
    BY <1>6 DEF Logout
  <2>2. ids'[i] = ids[i]
    BY <1>6 DEF Logout
  <2> QED
    BY <2>1, <2>2, RowSame DEF RowStep, Removed, Exists
<1> QED
  BY <1>1, <1>2, <1>4, <1>5, <1>6
     DEF Next, Progress, Outside, Register, Work, FindDevice, FindPrevious, SaveOrphan,
         Collide, RollBack, Begin, Uninstall, Notify, Fail, FailAfterDispatch, Send, Skip,
         Accepted, Ask, Fine, NotYet, RateExceeded, table, vars

\* Rows that were locked are there after any step: only free ones are deleted.
LEMMA LockedStays ==
    ASSUME TypeOK, LockInv, [Next]_vars, NEW i \in Installations, held[i] # Nothing
    PROVE  Exists(i)'
<1>1. Exists(i)
  BY DEF LockInv
<1> QED
  BY <1>1, RowSteps DEF RowStep, Kept, Removed, Created, Missing

\* A job holds the row it sends from, and disturbs no other.
LEMMA JobLock ==
    ASSUME TypeOK, LockInv, [Next]_vars, NEW j \in Jobs,
           Work(j) \/ Fail(j) \/ \E k \in Jobs : FailAfterDispatch(j, k)
    PROVE  LockInv'
<1> USE PushAssumption
<1>1. jobs[j] # Nothing
  BY DEF Work, Send, Skip, Accepted, Rejected, Ask, Fine, NotYet, NotRegistered,
         RateExceeded, Fail, FailAfterDispatch, At
<1>2. jobs[j] \in Job /\ jobs[j].key.at \in Installations
  BY <1>1, JobFields
<1>3. regs' = regs
  BY DEF Work, Send, Skip, Accepted, Rejected, Ask, Fine, NotYet, NotRegistered,
         RateExceeded, Fail, FailAfterDispatch, requests
<1>4. \A k \in Jobs \ {j} : jobs'[k] = jobs[k] \/ ~At(k, "http")'
  <2>1. CASE Work(j) \/ Fail(j)
    BY <2>1 DEF Work, Send, Skip, Accepted, Rejected, Ask, Fine, NotYet, NotRegistered,
                RateExceeded, Fail, SetJob, Drop, TypeOK
  <2>2. ASSUME NEW k \in Jobs, FailAfterDispatch(j, k)
        PROVE  \A h \in Jobs \ {j} : jobs'[h] = jobs[h] \/ ~At(h, "http")'
    <3>1. \A h \in Jobs \ {j, k} : jobs'[h] = jobs[h]
      BY <2>2 DEF FailAfterDispatch, TypeOK
    <3>2. k # j => jobs'[k] = NextSend(jobs[j])
      BY <2>2 DEF FailAfterDispatch, TypeOK
    <3>3. NextSend(jobs[j]).pc = "send"
      BY DEF NextSend, SendJob
    <3> QED
      BY <3>1, <3>2, <3>3 DEF At
  <2> QED
    BY <2>1, <2>2
<1>5. /\ \A i \in Installations : held[i] \in Maybe({j}) \/ held'[i] = held[i]
      /\ \A i \in Installations : held'[i] # Nothing =>
            held[i] # Nothing \/ (Send(j) /\ i = jobs[j].key.at)
  BY <1>2 DEF Work, Send, Skip, Accepted, Rejected, Ask, Fine, NotYet, NotRegistered,
              RateExceeded, Fail, FailAfterDispatch, CanLock, Locked, Release, Maybe, TypeOK
<1>6. /\ \A r \in Regs : LockReg(r)'
      /\ \A k \in Jobs \ {j} : LockJob(k)'
  BY <1>3, <1>4, <1>5, OthersLocks
<1>7. LockJob(j)'
  <2>1. CASE Send(j)
    <3>1. jobs'[j].key = jobs[j].key
      BY <1>2, <2>1 DEF Send, SetJob, TypeOK, Job
    <3>2. held'[jobs[j].key.at] = j
      BY <1>2, <2>1 DEF Send, Locked, TypeOK
    <3> QED
      BY <3>1, <3>2 DEF LockJob
  <2>2. CASE ~Send(j)
    <3>1. ~At(j, "http")'
      <4>1. CASE Skip(j) \/ Fine(j) \/ Rejected(j) \/ NotRegistered(j)
        BY <4>1 DEF Skip, Fine, Rejected, NotRegistered, Drop, SetJob, At, TypeOK
      <4>2. CASE Accepted(j) \/ Ask(j)
        <5>1. \/ jobs'[j] = [jobs[j] EXCEPT !.pc = "receipt", !.tries = 0]
              \/ jobs'[j] = [jobs[j] EXCEPT !.pc = "ask"]
          BY <4>2 DEF Accepted, Ask, SetJob, TypeOK
        <5>2. jobs'[j].pc # "http"
          BY <1>2, <5>1 DEF Job
        <5> QED
          BY <5>2 DEF At
      <4>3. CASE NotYet(j)
        BY <1>2, <4>3 DEF NotYet, Later, SetJob, At, TypeOK, Job
      <4>4. CASE RateExceeded(j)
        BY <4>4 DEF RateExceeded, NextSend, SendJob, Drop, SetJob, At, TypeOK
      <4>5. CASE Fail(j)
        <5>1. \/ SetJob(j, Nothing)
              \/ SetJob(j, [jobs[j] EXCEPT !.pc = "send", !.to = Nothing, !.tries = @ + 1])
          BY <4>5 DEF Fail, Drop
        <5>2. \/ jobs'[j] = Nothing
              \/ jobs'[j] = [jobs[j] EXCEPT !.pc = "send", !.to = Nothing, !.tries = @ + 1]
          BY <5>1 DEF SetJob, TypeOK
        <5>3. jobs'[j] = Nothing \/ jobs'[j].pc # "http"
          BY <1>2, <5>2 DEF Job
        <5> QED
          BY <5>3 DEF At
      <4>6. ASSUME NEW k \in Jobs, FailAfterDispatch(j, k) PROVE ~At(j, "http")'
        <5>1. jobs'[j] = Later(jobs[j])
          BY <4>6 DEF FailAfterDispatch, TypeOK
        <5> QED
          BY <1>2, <5>1 DEF Later, At, Job
      <4> QED
        BY <2>2, <4>1, <4>2, <4>3, <4>4, <4>5, <4>6 DEF Work
    <3> QED
      BY <3>1 DEF LockJob
  <2> QED
    BY <2>1, <2>2
<1>8. ASSUME NEW i \in Installations, held'[i] # Nothing PROVE Exists(i)'
  <2>1. CASE held[i] # Nothing
    BY <2>1, LockedStays
  <2>2. CASE Send(j) /\ i = jobs[j].key.at
    BY <2>2 DEF Send, Names, Live, Exists, table
  <2> QED
    BY <1>5, <1>8, <2>1, <2>2
<1> QED
  BY <1>6, <1>7, <1>8 DEF LockInv

\* Nothing from outside takes a lock.
LEMMA LockStep == TypeOK /\ TypeOK' /\ LockInv /\ [Next]_vars => LockInv'
<1> SUFFICES ASSUME TypeOK, TypeOK', LockInv, [Next]_vars PROVE LockInv'
  OBVIOUS
<1> USE PushAssumption
<1>1. ASSUME held' = held, jobs' = jobs,
             \A r \in Regs : regs'[r] = regs[r] \/ Step(r, "find")'
      PROVE  LockInv'
  <2>1. \A i \in Installations : held'[i] # Nothing => Exists(i)'
    BY <1>1, LockedStays
  <2>2. \A r \in Regs : LockReg(r)'
    BY <1>1 DEF LockInv, LockReg, Step
  <2>3. \A j \in Jobs : LockJob(j)'
    BY <1>1 DEF LockInv, LockJob, At
  <2> QED
    BY <2>1, <2>2, <2>3 DEF LockInv
<1>2. ASSUME NEW r \in Regs, NEW asked \in Requests, Begin(r, asked)
      PROVE  LockInv'
  <2>1. Step(r, "find")' /\ \A q \in Regs \ {r} : regs'[q] = regs[q]
    <3> DEFINE reg == [pc |-> "find", asked |-> asked, found |-> FALSE, prev |-> Nothing,
                       inner |-> 0, outer |-> 0]
    <3>1. regs' = [regs EXCEPT ![r] = reg]
      BY <1>2 DEF Begin, SetReg
    <3>2. regs'[r] = reg /\ \A q \in Regs \ {r} : regs'[q] = regs[q]
      BY <3>1 DEF TypeOK
    <3>3. reg \in Reg /\ reg.pc = "find"
      BY DEF Reg, Maybe
    <3> HIDE DEF reg
    <3> QED
      BY <3>2, <3>3, NothingAssumption DEF Step
  <2> QED
    BY <1>1, <1>2, <2>1 DEF Begin
<1>3. ASSUME NEW j \in Jobs, NEW i \in Installations, Notify(j, i)
      PROVE  LockInv'
  <2>1. ~At(j, "http")' /\ \A k \in Jobs \ {j} : jobs'[k] = jobs[k]
    BY <1>3 DEF Notify, SetJob, SendJob, At, TypeOK
  <2>2. held' = held /\ regs' = regs
    BY <1>3 DEF Notify, requests
  <2>3. \A h \in Installations : held'[h] # Nothing => Exists(h)'
    BY <2>2, LockedStays
  <2>4. \A r \in Regs : LockReg(r)'
    BY <2>2 DEF LockInv, LockReg, Step
  <2>5. \A k \in Jobs : LockJob(k)'
    BY <2>1, <2>2 DEF LockInv, LockJob, At
  <2> QED
    BY <2>3, <2>4, <2>5 DEF LockInv
<1>4. CASE \/ \E i \in Installations : Unregister(i)
           \/ \E user \in Users : Logout(user)
           \/ \E token \in Tokens : Uninstall(token)
           \/ UNCHANGED vars
  BY <1>1, <1>4 DEF Unregister, Logout, Uninstall, vars, requests
<1> QED
  BY <1>2, <1>3, <1>4, RegisterLock, JobLock DEF Next, Progress, Outside

\* At first nobody holds anything and the rows are those of their requests.
LEMMA InitTypes == Init => TypeOK /\ LockInv
<1> SUFFICES ASSUME Init PROVE TypeOK /\ LockInv
  OBVIOUS
<1> USE PushAssumption
<1>1. PICK asked \in SUBSET Requests :
         /\ ids = [i \in Installations |-> IF \E x \in asked : x.at = i THEN 1 ELSE 0]
         /\ devices = [i \in Installations |->
               IF ids[i] = 1 THEN Registered(1, CHOOSE x \in asked : x.at = i) ELSE Nothing]
  BY DEF Init
<1>2. ids \in [Installations -> Nat]
  BY <1>1
<1>3. ASSUME NEW i \in Installations, ids[i] = 1
      PROVE  Registered(1, CHOOSE x \in asked : x.at = i) \in Device
  <2>1. \E x \in asked : x.at = i
    BY <1>1, <1>3
  <2>2. PICK x \in Requests : x = (CHOOSE y \in asked : y.at = i)
    BY <2>1
  <2>3. Registered(1, x) \in Device
    BY Asked DEF Registered, Device, Maybe
  <2> QED
    BY <2>2, <2>3
<1>4. devices \in [Installations -> Maybe(Device)]
  BY <1>1, <1>3 DEF Maybe
<1>5. TypeOK
  BY <1>2, <1>4 DEF Init, TypeOK, Maybe
<1>6. LockInv
  BY DEF Init, LockInv, LockReg, LockJob, Step, At
<1> QED
  BY <1>5, <1>6

\* The row locks: whoever found a row holds it, and a locked row is there.
THEOREM LocksHeld == Spec => [](TypeOK /\ LockInv)
  BY InitTypes, TypeStep, LockStep, PTL DEF Spec

\* Whatever registers, sends, fails or goes away, the rows, registrations and
\* jobs are what they should be: no step touches a row it does not have.
THEOREM TypeCorrect == Spec => []TypeOK
  BY LocksHeld, PTL

-----------------------------------------------------------------------------
(***************************************************************************)
(* Keys                                                                    *)
(***************************************************************************)
\* A key that is current after a step was so before, and names a row that kept
\* what a job relies on.
LEMMA CurrentStep ==
    ASSUME TypeOK, TypeOK', LockInv, KeysInv, [Next]_vars, NEW key \in Key,
           KnownKey(key)
    PROVE  /\ KnownKey(key)'
           /\ Current(key)' => Current(key) /\ SameVersion(key.at)
<1> DEFINE i == key.at
<1>1. i \in Installations /\ key.id \in Nat /\ key.version \in Nat
  BY DEF Key
<1>2. ids[i] \in Nat /\ ids'[i] \in Nat
  BY <1>1 DEF TypeOK
<1>3. Exists(i) => devices[i].id \in Nat /\ devices[i].version \in Nat
                   /\ devices[i].id <= ids[i]
  BY <1>1, Present DEF Device, KeysInv
<1>4. RowStep(i)
  BY <1>1, RowSteps
<1>5. CASE Kept(i)
  <2>1. /\ Exists(i) /\ Exists(i)' /\ ids'[i] = ids[i]
        /\ devices'[i].id = devices[i].id
        /\ \/ SameVersion(i) /\ devices'[i].version = devices[i].version
           \/ devices'[i].version = devices[i].version + 1
    BY <1>5 DEF Kept, SameVersion
  <2>2. key.id <= ids'[i] /\ devices'[i].version >= devices[i].version
    BY <1>1, <1>2, <1>3, <2>1 DEF KnownKey
  <2>3. KnownKey(key)'
    BY <1>1, <1>3, <2>1, <2>2 DEF KnownKey
  <2>4. Current(key)' => Current(key) /\ SameVersion(i)
    BY <1>1, <1>3, <2>1 DEF Current, KnownKey
  <2> QED
    BY <2>3, <2>4
<1>6. CASE Removed(i) \/ Missing(i)
  <2>1. ids'[i] = ids[i] /\ ~Exists(i)'
    BY <1>6 DEF Removed, Missing
  <2> QED
    BY <2>1 DEF KnownKey, Current, Exists
<1>7. CASE Created(i)
  <2>1. key.id <= ids[i] /\ devices'[i].id # key.id
    BY <1>1, <1>2, <1>7 DEF Created, KnownKey
  <2> QED
    BY <1>1, <1>2, <1>7, <2>1 DEF Created, KnownKey, Current
<1> QED
  BY <1>4, <1>5, <1>6, <1>7 DEF RowStep

SameKey(k, l) == k.at = l.at /\ k.id = l.id /\ k.version = l.version

\* The ways of a job.
JobMove(j) ==
    \/ jobs'[j] = jobs[j]
    \/ /\ jobs'[j] = Nothing
       /\ At(j, "http") => Rejected(j) \/ Fail(j)
    \/ \E i \in Installations :
          /\ Live(i) /\ UNCHANGED <<devices, ids>>
          /\ jobs[j] = Nothing
          /\ jobs'[j].pc = "send"
          /\ jobs'[j].key = [at |-> i, id |-> devices[i].id,
                             version |-> devices[i].version, generation |-> 0]
    \/ /\ Send(j)
       /\ jobs'[j].pc = "http"
       /\ jobs'[j].key = jobs[j].key
       /\ jobs'[j].user = jobs[j].user
       /\ jobs'[j].to = devices[jobs[j].key.at].token
    \/ /\ Accepted(j)
       /\ jobs'[j].pc = "receipt"
       /\ jobs'[j].key = jobs[j].key
       /\ jobs'[j].to = jobs[j].to
    \/ /\ Fail(j)
       /\ jobs'[j].pc = "send"
       /\ jobs'[j].key = jobs[j].key
    \/ /\ At(j, "receipt") \/ At(j, "ask")
       /\ jobs'[j].pc \in {"receipt", "ask"}
       /\ jobs'[j].key = jobs[j].key
       /\ jobs'[j].to = jobs[j].to
    \/ \E k \in Jobs :
          /\ At(k, "ask")
          /\ jobs[j] = Nothing \/ j = k
          /\ jobs'[j].pc = "send"
          /\ SameKey(jobs'[j].key, jobs[k].key)

\* What the next generation of a push keeps of its key.
LEMMA NextSendKey ==
    ASSUME NEW job \in Job
    PROVE  NextSend(job).pc = "send" /\ SameKey(NextSend(job).key, job.key)
  BY DEF NextSend, SendJob, SameKey, Job, Key

\* What a later attempt to ask keeps of its job.
LEMMA LaterKeeps ==
    ASSUME NEW job \in Job
    PROVE  \/ Later(job) = Nothing
           \/ /\ Later(job).pc = "receipt"
              /\ Later(job).key = job.key /\ Later(job).to = job.to
  BY DEF Later, Job

\* Every step of a job is one of its ways.
LEMMA WorkMoves ==
    ASSUME TypeOK, NEW j \in Jobs, Work(j) \/ Fail(j)
    PROVE  JobMove(j) /\ \A k \in Jobs \ {j} : jobs'[k] = jobs[k]
<1>1. jobs[j] # Nothing
  BY DEF Work, Send, Skip, Accepted, Rejected, Ask, Fine, NotYet, NotRegistered,
         RateExceeded, Fail, At
<1>2. jobs[j] \in Job
  BY <1>1, JobFields
<1>3. \A k \in Jobs \ {j} : jobs'[k] = jobs[k]
  BY DEF Work, Send, Skip, Accepted, Rejected, Ask, Fine, NotYet, NotRegistered,
         RateExceeded, Fail, SetJob, Drop, TypeOK
<1>4. CASE Send(j)
  <2>1. jobs'[j] = [jobs[j] EXCEPT !.pc = "http", !.to = devices[jobs[j].key.at].token]
    BY <1>4 DEF Send, SetJob, TypeOK
  <2>2. /\ jobs'[j].pc = "http"
        /\ jobs'[j].key = jobs[j].key
        /\ jobs'[j].user = jobs[j].user
        /\ jobs'[j].to = devices[jobs[j].key.at].token
    BY <1>2, <2>1 DEF Job
  <2> QED
    BY <1>3, <1>4, <2>2 DEF JobMove
<1>5. CASE Accepted(j)
  <2>1. jobs'[j] = [jobs[j] EXCEPT !.pc = "receipt", !.tries = 0]
    BY <1>5 DEF Accepted, SetJob, TypeOK
  <2>2. /\ jobs'[j].pc = "receipt"
        /\ jobs'[j].key = jobs[j].key
        /\ jobs'[j].to = jobs[j].to
    BY <1>2, <2>1 DEF Job
  <2> QED
    BY <1>3, <1>5, <2>2 DEF JobMove
<1>6. CASE Skip(j) \/ Fine(j) \/ Rejected(j) \/ NotRegistered(j)
  <2>1. jobs'[j] = Nothing
    BY <1>6 DEF Skip, Fine, Rejected, NotRegistered, Drop, SetJob, TypeOK
  <2>2. At(j, "http") => Rejected(j)
    BY <1>6 DEF Skip, Fine, NotRegistered, At
  <2> QED
    BY <1>3, <2>1, <2>2 DEF JobMove
<1>7. CASE Ask(j)
  <2>1. jobs'[j] = [jobs[j] EXCEPT !.pc = "ask"] /\ At(j, "receipt")
    BY <1>7 DEF Ask, SetJob, TypeOK
  <2>2. jobs'[j].pc = "ask" /\ jobs'[j].key = jobs[j].key /\ jobs'[j].to = jobs[j].to
    BY <1>2, <2>1 DEF Job
  <2> QED
    BY <1>3, <2>1, <2>2 DEF JobMove
<1>8. CASE NotYet(j)
  <2>1. jobs'[j] = Later(jobs[j]) /\ At(j, "ask")
    BY <1>8 DEF NotYet, SetJob, TypeOK
  <2> QED
    BY <1>2, <1>3, <2>1, LaterKeeps DEF JobMove, At
<1>9. CASE RateExceeded(j)
  <2>1. At(j, "ask") /\ (jobs'[j] = NextSend(jobs[j]) \/ jobs'[j] = Nothing)
    BY <1>9 DEF RateExceeded, Drop, SetJob, TypeOK
  <2> QED
    BY <1>2, <1>3, <2>1, NextSendKey DEF JobMove, At
<1>10. CASE Fail(j)
  <2>1. \/ jobs'[j] = Nothing
        \/ jobs'[j] = [jobs[j] EXCEPT !.pc = "send", !.to = Nothing, !.tries = @ + 1]
    <3>1. \/ SetJob(j, Nothing)
          \/ SetJob(j, [jobs[j] EXCEPT !.pc = "send", !.to = Nothing, !.tries = @ + 1])
      BY <1>10 DEF Fail, Drop
    <3> QED
      BY <3>1 DEF SetJob, TypeOK
  <2>2. \/ jobs'[j] = Nothing
        \/ jobs'[j].pc = "send" /\ jobs'[j].key = jobs[j].key
    BY <1>2, <2>1 DEF Job
  <2> QED
    BY <1>3, <1>10, <2>2 DEF JobMove
<1> QED
  BY <1>4, <1>5, <1>6, <1>7, <1>8, <1>9, <1>10 DEF Work

LEMMA JobMoves ==
    ASSUME TypeOK, [Next]_vars, NEW j \in Jobs
    PROVE  JobMove(j)
<1>1. CASE UNCHANGED jobs
  BY <1>1 DEF JobMove
<1>2. ASSUME NEW k \in Jobs, Work(k) \/ Fail(k) PROVE JobMove(j)
  <2>1. CASE j = k
    BY <1>2, <2>1, WorkMoves
  <2>2. CASE j # k
    BY <1>2, <2>2, WorkMoves DEF JobMove
  <2> QED
    BY <2>1, <2>2
<1>3. ASSUME NEW k \in Jobs, NEW i \in Installations, Notify(k, i) PROVE JobMove(j)
  <2> DEFINE key == [at |-> i, id |-> devices[i].id, version |-> devices[i].version,
                     generation |-> 0]
  <2>1. /\ Live(i) /\ UNCHANGED <<devices, ids>> /\ jobs[k] = Nothing
        /\ jobs'[k].pc = "send" /\ jobs'[k].key = key
        /\ \A h \in Jobs \ {k} : jobs'[h] = jobs[h]
    BY <1>3 DEF Notify, SetJob, SendJob, TypeOK, table
  <2> QED
    BY <2>1 DEF JobMove
<1>4. ASSUME NEW k \in Jobs, NEW l \in Jobs, FailAfterDispatch(k, l) PROVE JobMove(j)
  <2>1. At(k, "ask") /\ jobs[k] \in Job /\ jobs[l] = Nothing /\ k # l
    BY <1>4, JobFields DEF FailAfterDispatch, At
  <2>2. /\ jobs'[l] = NextSend(jobs[k])
        /\ jobs'[k] = Later(jobs[k])
        /\ \A h \in Jobs \ {k, l} : jobs'[h] = jobs[h]
    BY <1>4, <2>1 DEF FailAfterDispatch, TypeOK
  <2> QED
    BY <2>1, <2>2, NextSendKey, LaterKeeps DEF JobMove, At
<1> QED
  BY <1>1, <1>2, <1>3, <1>4
     DEF Next, Progress, Outside, Register, FindDevice, FindPrevious, Save, SaveOrphan,
         Collide, RollBack, Begin, Unregister, Logout, Uninstall, vars

\* Only a send adds to what has been sent.
LEMMA SentMoves ==
    ASSUME TypeOK, [Next]_vars, NEW key \in sent', key \notin sent
    PROVE  \E j \in Jobs : Send(j) /\ key = jobs[j].key
  BY DEF Next, Progress, Outside, Register, FindDevice, FindPrevious, Save, SaveOrphan,
         Collide, RollBack, Begin, Unregister, Logout, Uninstall, Work, Send, Skip,
         Accepted, Rejected, Ask, Fine, NotYet, NotRegistered, RateExceeded, Fail,
         FailAfterDispatch, Notify, vars, provider

\* Keys of jobs and of pushes name rows that are or have been there.
LEMMA KeysStep ==
    ASSUME TypeOK, TypeOK', LockInv, KeysInv, [Next]_vars
    PROVE  KeysInv'
<1>1. ASSUME NEW i \in Installations, Exists(i)' PROVE devices'[i].id <= ids'[i]
  <2>1. ids[i] \in Nat /\ RowStep(i)
    BY RowSteps DEF TypeOK
  <2>2. CASE Kept(i)
    BY <2>2 DEF Kept, KeysInv
  <2>3. CASE Created(i)
    BY <2>1, <2>3 DEF Created
  <2> QED
    BY <1>1, <2>1, <2>2, <2>3 DEF RowStep, Removed, Missing
<1>2. \A key \in Key : KnownKey(key) => KnownKey(key)'
  BY CurrentStep
<1>3. ASSUME NEW j \in Jobs, jobs'[j] # Nothing PROVE KnownKey(jobs[j].key)'
  <2>1. CASE jobs[j] # Nothing /\ jobs'[j].key = jobs[j].key
    <3>1. PICK key \in Key : key = jobs[j].key
      BY <2>1, JobFields
    <3>2. KnownKey(key)'
      BY <2>1, <3>1, <1>2 DEF KeysInv
    <3> QED
      BY <2>1, <3>1, <3>2 DEF KnownKey
  <2>2. ASSUME NEW k \in Jobs, jobs[k] # Nothing, SameKey(jobs'[j].key, jobs[k].key)
        PROVE  KnownKey(jobs[j].key)'
    <3>1. PICK key \in Key : key = jobs[k].key
      BY <2>2, JobFields
    <3>2. KnownKey(key)'
      BY <2>2, <3>1, <1>2 DEF KeysInv
    <3> QED
      BY <2>2, <3>1, <3>2 DEF KnownKey, SameKey
  <2>3. ASSUME NEW i \in Installations, Live(i), UNCHANGED <<devices, ids>>,
               jobs'[j].key = [at |-> i, id |-> devices[i].id,
                               version |-> devices[i].version, generation |-> 0]
        PROVE  KnownKey(jobs[j].key)'
    <3>1. /\ jobs'[j].key.at = i /\ jobs'[j].key.id = devices[i].id
          /\ jobs'[j].key.version = devices[i].version
      BY <2>3
    <3>2. devices[i].id <= ids[i] /\ devices[i].version \in Nat
      BY <2>3, Present DEF Live, KeysInv, Device
    <3> QED
      BY <2>3, <3>1, <3>2 DEF KnownKey
  <2> QED
    BY <1>3, <2>1, <2>2, <2>3, JobMoves
       DEF JobMove, Send, Accepted, Fail, At
<1>4. ASSUME NEW key \in sent' PROVE KnownKey(key)'
  <2>1. key \in Key
    BY <1>4 DEF TypeOK
  <2>2. CASE key \in sent
    BY <1>2, <2>1, <2>2 DEF KeysInv
  <2>3. CASE key \notin sent
    <3>1. PICK j \in Jobs : Send(j) /\ key = jobs[j].key
      BY <1>4, <2>3, SentMoves
    <3>2. KnownKey(key)
      BY <3>1 DEF Send, At, KeysInv
    <3> QED
      BY <1>2, <2>1, <3>2
  <2> QED
    BY <2>2, <2>3
<1> QED
  BY <1>1, <1>3, <1>4 DEF KeysInv

-----------------------------------------------------------------------------
(***************************************************************************)
(* Tokens and pushes under way                                             *)
(***************************************************************************)
\* Who changes a row: a registration that saves, the job that holds it, or
\* something that finds it free.
LEMMA RowActors ==
    ASSUME TypeOK, LockInv, [Next]_vars, NEW i \in Installations
    PROVE  \/ devices'[i] = devices[i]
           \/ \E r \in Regs : Save(r) /\ i \in {regs[r].asked.at, regs[r].prev}
           \/ Exists(i) /\ held[i] = Nothing /\ devices'[i] = Nothing
           \/ /\ Exists(i) /\ Exists(i)' /\ devices'[i].token = devices[i].token
              /\ \/ held[i] = Nothing
                 \/ \E j \in Jobs : Rejected(j) /\ i = jobs[j].key.at
<1>1. ASSUME NEW r \in Regs, Save(r), i \notin {regs[r].asked.at, regs[r].prev}
      PROVE  devices'[i] = devices[i]
  BY <1>1 DEF Save
<1>2. ASSUME NEW k \in Installations, Exists(k),
             devices' = [devices EXCEPT ![k].disabled = TRUE]
      PROVE  \/ devices'[i] = devices[i]
             \/ i = k /\ Exists(i) /\ Exists(i)' /\ devices'[i].token = devices[i].token
  BY <1>2, RowDisabled
<1>3. ASSUME NEW k \in Installations, Unregister(k)
      PROVE  \/ devices'[i] = devices[i]
             \/ /\ Exists(i) /\ Exists(i)' /\ devices'[i].token = devices[i].token
                /\ held[i] = Nothing
  BY <1>2, <1>3 DEF Unregister
<1>4. ASSUME NEW j \in Jobs, Rejected(j)
      PROVE  \/ devices'[i] = devices[i]
             \/ /\ Exists(i) /\ Exists(i)' /\ devices'[i].token = devices[i].token
                /\ i = jobs[j].key.at
  <2>1. At(j, "http") /\ jobs[j].key.at \in Installations
    BY <1>4, JobFields DEF Rejected, At
  <2>2. Exists(jobs[j].key.at)
    BY <2>1, PushAssumption DEF LockInv, LockJob
  <2> QED
    BY <1>2, <1>4, <2>1, <2>2 DEF Rejected
<1>5. ASSUME NEW j \in Jobs, NotRegistered(j)
      PROVE  \/ devices'[i] = devices[i]
             \/ /\ Exists(i) /\ Exists(i)' /\ devices'[i].token = devices[i].token
                /\ held[i] = Nothing
  <2>1. jobs[j].key.at \in Installations
    BY <1>5, JobFields DEF NotRegistered, At
  <2> QED
    BY <1>2, <1>5, <2>1 DEF NotRegistered, Registration
<1>6. ASSUME NEW user \in Users, Logout(user)
      PROVE  \/ devices'[i] = devices[i]
             \/ Exists(i) /\ held[i] = Nothing /\ devices'[i] = Nothing
  BY <1>6 DEF Logout
<1> QED
  BY <1>1, <1>3, <1>4, <1>5, <1>6
     DEF Next, Progress, Outside, Register, Work, FindDevice, FindPrevious, SaveOrphan,
         Collide, RollBack, Begin, Uninstall, Notify, Fail, FailAfterDispatch, Send, Skip,
         Accepted, Ask, Fine, NotYet, RateExceeded, table, vars

\* The row a job holds while Expo is asked stays as it is until the job lets go.
LEMMA HeldByJob ==
    ASSUME TypeOK, LockInv, [Next]_vars, NEW j \in Jobs, NEW i \in Installations,
           held[i] = j, ~Rejected(j)
    PROVE  devices'[i] = devices[i]
<1> USE PushAssumption
<1>1. held[i] # Nothing /\ Exists(i)
  BY DEF LockInv
<1>2. ASSUME NEW r \in Regs, Save(r), i \in {regs[r].asked.at, regs[r].prev} PROVE FALSE
  <2>1. regs[r] # Nothing /\ LockReg(r) /\ Step(r, "save") /\ regs[r].found \in BOOLEAN
    BY <1>2, RegFields DEF Save, Step, LockInv
  <2>2. ~regs[r].found => i # regs[r].asked.at
    BY <1>1, <1>2 DEF Save, Duplicate
  <2>3. held[i] = r
    BY <1>2, <2>1, <2>2 DEF LockReg
  <2> QED
    BY <2>3
<1>3. ASSUME NEW k \in Jobs, Rejected(k), i = jobs[k].key.at PROVE FALSE
  BY <1>3 DEF Rejected, LockInv, LockJob
<1> QED
  BY <1>1, <1>2, <1>3, RowActors

\* No token comes to a second row.
LEMMA UniqueStep ==
    ASSUME TypeOK, LockInv, TokensUnique, [Next]_vars
    PROVE  TokensUnique'
<1> USE PushAssumption
<1>1. ASSUME NEW r \in Regs, Save(r) PROVE TokensUnique'
  <2> DEFINE at == regs[r].asked.at
             token == regs[r].asked.token
  <2>1. regs[r] # Nothing /\ at \in Installations /\ token \in Tokens
    BY <1>1, RegFields DEF Save, Step
  <2>2. devices'[at].token = token
    BY <1>1, <2>1, RowSaved
  <2>3. ASSUME NEW a \in Installations, a # at, Exists(a)', devices'[a].token # Nothing
        PROVE  Exists(a) /\ devices'[a].token = devices[a].token /\ a # regs[r].prev
    <3>1. a # regs[r].prev
      BY <1>1, <2>3, RowOusted
    <3>2. devices'[a] = devices[a]
      BY <1>1, <2>3, <3>1 DEF Save
    <3> QED
      BY <2>3, <3>1, <3>2 DEF Exists
  <2>4. \A a \in Installations \ {at, regs[r].prev} : Exists(a) => devices[a].token # token
    BY <1>1 DEF Save, Duplicate, Holders
  <2> HIDE DEF at, token
  <2> SUFFICES ASSUME NEW a \in Installations, NEW b \in Installations,
                      Exists(a)', Exists(b)', devices'[a].token = devices'[b].token,
                      devices'[a].token # Nothing, a # b
               PROVE  FALSE
    BY DEF TokensUnique
  <2>5. CASE a = at
    BY <2>2, <2>3, <2>4, <2>5
  <2>6. CASE b = at
    BY <2>2, <2>3, <2>4, <2>6
  <2>7. CASE a # at /\ b # at
    BY <2>3, <2>7 DEF TokensUnique
  <2> QED
    BY <2>5, <2>6, <2>7
<1>2. CASE ~\E r \in Regs : Save(r)
  <2>1. \A a \in Installations : Exists(a)' =>
            Exists(a) /\ devices'[a].token = devices[a].token
    BY <1>2, RowActors DEF Exists
  <2> QED
    BY <2>1 DEF TokensUnique
<1> QED
  BY <1>1, <1>2

\* A push under way is for the row its job holds.
LEMMA HttpStep ==
    ASSUME TypeOK, LockInv, HttpInv, [Next]_vars
    PROVE  HttpInv'
<1> SUFFICES ASSUME NEW j \in Jobs, At(j, "http")'
             PROVE  (Names(jobs[j]) /\ jobs[j].to = devices[jobs[j].key.at].token)'
  BY DEF HttpInv
<1> USE PushAssumption
<1>1. CASE Send(j)
  <2>1. /\ jobs[j] # Nothing /\ jobs[j].key.at \in Installations
        /\ devices' = devices /\ Names(jobs[j])
    BY <1>1, JobFields DEF Send, At, table
  <2>2. /\ jobs'[j].key = jobs[j].key /\ jobs'[j].user = jobs[j].user
        /\ jobs'[j].to = devices[jobs[j].key.at].token
    BY <1>1, JobMoves DEF JobMove, Send, At, Accepted, Fail
  <2> QED
    BY <2>1, <2>2 DEF Names, Live, Exists
<1>2. CASE ~Send(j)
  <2>1. jobs'[j] = jobs[j] /\ At(j, "http")
    BY <1>2, JobMoves DEF JobMove, At
  <2>2. jobs[j].key.at \in Installations /\ held[jobs[j].key.at] = j
    BY <2>1, JobFields DEF At, LockInv, LockJob
  <2>3. ~Rejected(j)
    BY <2>1 DEF Rejected, Drop, SetJob, TypeOK, At
  <2>4. devices'[jobs[j].key.at] = devices[jobs[j].key.at]
    BY <2>2, <2>3, HeldByJob
  <2> QED
    BY <2>1, <2>2, <2>4 DEF HttpInv, Names, Live, Exists
<1> QED
  BY <1>1, <1>2

\* The unique token and the lock together are what the claim rests on.
LEMMA HolderHolds == TypeOK /\ TokensUnique /\ HttpInv => HolderOnly
<1> SUFFICES ASSUME TypeOK, TokensUnique, HttpInv, NEW j \in Jobs, At(j, "http")
             PROVE  Holders(jobs[j].to) = {jobs[j].key.at}
  BY DEF HolderOnly, HttpInv
<1>1. jobs[j].key.at \in Installations
  BY JobFields DEF At
<1> QED
  BY <1>1 DEF HttpInv, TokensUnique, Names, Live, Holders

-----------------------------------------------------------------------------
(***************************************************************************)
(* Answers that come later, and pushes that are repeated                   *)
(***************************************************************************)
\* A registration a receipt is about keeps the token, or is disabled.
LEMMA ReceiptStep ==
    ASSUME TypeOK, TypeOK', LockInv, KeysInv, HttpInv, ReceiptInv, [Next]_vars
    PROVE  ReceiptInv'
<1> SUFFICES ASSUME NEW j \in Jobs, At(j, "receipt")' \/ At(j, "ask")'
             PROVE  SameToken(jobs[j])'
  BY DEF ReceiptInv
<1>1. CASE Accepted(j)
  <2>1. At(j, "http") /\ devices' = devices
    BY <1>1 DEF Accepted, table
  <2>2. jobs'[j].key = jobs[j].key /\ jobs'[j].to = jobs[j].to
    BY <1>1, JobMoves DEF JobMove, Send, Accepted, At, Fail
  <2> QED
    BY <2>1, <2>2 DEF HttpInv, SameToken
<1>2. CASE ~Accepted(j)
  <2>1. /\ At(j, "receipt") \/ At(j, "ask")
        /\ jobs'[j].key = jobs[j].key /\ jobs'[j].to = jobs[j].to
    BY <1>2, JobMoves DEF JobMove, At
  <2>2. PICK key \in Key : key = jobs[j].key
    BY <2>1, JobFields DEF At
  <2>3. KnownKey(key) /\ SameToken(jobs[j])
    BY <2>1, <2>2 DEF KeysInv, ReceiptInv, At
  <2>4. SUFFICES ASSUME Current(key)'
                 PROVE  \/ devices'[key.at].token = jobs[j].to
                        \/ devices'[key.at].token = Nothing /\ devices'[key.at].disabled
    BY <2>1, <2>2 DEF SameToken, Current, Exists
  <2>5. Current(key) /\ SameVersion(key.at)
    BY <2>3, <2>4, CurrentStep
  <2> QED
    BY <2>2, <2>3, <2>5 DEF SameToken, SameVersion
<1> QED
  BY <1>1, <1>2

\* A key that is cached, or whose registration is over, stays spent: a row that is
\* disabled under a version stays so.
LEMMA SpentStays ==
    ASSUME TypeOK, TypeOK', LockInv, KeysInv, [Next]_vars, NEW key \in Key, KnownKey(key),
           \/ key \in cached'
           \/ \E j \in Jobs : At(j, "http")' /\ jobs'[j].key = key
           \/ ~Current(key)
           \/ devices[key.at].disabled
    PROVE  Spent(key)'
<1>1. SUFFICES ASSUME ~Current(key) \/ devices[key.at].disabled, Current(key)'
               PROVE  devices'[key.at].disabled
  BY DEF Spent
<1>2. Current(key) /\ SameVersion(key.at)
  BY <1>1, CurrentStep
<1> QED
  BY <1>1, <1>2 DEF SameVersion

LEMMA CachedStays ==
    ASSUME [Next]_vars
    PROVE  cached \subseteq cached'
  BY DEF Next, Progress, Outside, Register, FindDevice, FindPrevious, Save, SaveOrphan,
         Collide, RollBack, Begin, Unregister, Logout, Uninstall, Work, Send, Skip,
         Accepted, Rejected, Ask, Fine, NotYet, NotRegistered, RateExceeded, Fail,
         FailAfterDispatch, Notify, vars, provider

\* What has been sent is cached or under way unless it is over; only a lost
\* answer takes it back.
LEMMA SentStep ==
    ASSUME TypeOK, TypeOK', LockInv, KeysInv, SentInv, [Next]_vars
    PROVE  SentInv'
<1> SUFFICES ASSUME NEW key \in sent' PROVE Spent(key)'
  BY DEF SentInv
<1>1. key \in Key
  BY DEF TypeOK
<1>2. CASE key \notin sent
  <2>1. PICK j \in Jobs : Send(j) /\ key = jobs[j].key
    BY <1>2, SentMoves
  <2>2. At(j, "http")' /\ jobs'[j].key = jobs[j].key
    <3> DEFINE next == [jobs[j] EXCEPT !.pc = "http", !.to = devices[jobs[j].key.at].token]
    <3>1. /\ jobs[j] \in Job /\ jobs[j].key.at \in Installations
          /\ Exists(jobs[j].key.at)
      BY <2>1, JobFields DEF Send, At, Names, Live
    <3>2. devices[jobs[j].key.at].token \in Maybe(Tokens)
      BY <3>1, Present DEF Device
    <3>3. next \in Job
      BY <3>1, <3>2, JobNext
    <3>4. next.pc = "http" /\ next.key = jobs[j].key
      BY <3>1 DEF Job
    <3>5. jobs'[j] = next
      BY <2>1 DEF Send, SetJob, TypeOK
    <3> HIDE DEF next
    <3> QED
      BY <3>3, <3>4, <3>5, NothingAssumption DEF At
  <2> QED
    BY <2>1, <2>2 DEF Spent
<1>3. CASE key \in sent
  <2>1. KnownKey(key) /\ Spent(key)
    BY <1>3 DEF KeysInv, SentInv
  <2>2. CASE key \in cached
    BY <1>1, <2>1, <2>2, CachedStays, SpentStays
  <2>3. ASSUME NEW j \in Jobs, At(j, "http"), jobs[j].key = key PROVE Spent(key)'
    <3>1. CASE jobs'[j] = jobs[j]
      BY <2>3, <3>1 DEF Spent, At
    <3>2. CASE Accepted(j)
      BY <2>3, <3>2 DEF Spent, Accepted
    <3>3. CASE Fail(j)
      BY <2>3, <3>3 DEF Spent, Fail
    <3>4. CASE Rejected(j)
      <4>1. key.at \in Installations /\ Exists(key.at)
        BY <1>1, <2>3, PushAssumption DEF LockInv, LockJob, Key
      <4> QED
        BY <2>3, <3>4, <4>1, RowDisabled DEF Rejected, Spent
    <3> QED
      BY <2>3, <3>1, <3>2, <3>3, <3>4, JobMoves DEF JobMove, At, Send
  <2>4. CASE ~Current(key) \/ devices[key.at].disabled
    BY <1>1, <2>1, <2>4, SpentStays
  <2> QED
    BY <2>1, <2>2, <2>3, <2>4 DEF Spent
<1> QED
  BY <1>2, <1>3

-----------------------------------------------------------------------------
(***************************************************************************)
(* The invariant and what it is for                                        *)
(***************************************************************************)
\* The rows there are at first are those of requests with tokens of their own.
LEMMA InitPush == Init => PushInv
<1> SUFFICES ASSUME Init PROVE PushInv
  OBVIOUS
<1>1. TypeOK /\ LockInv
  BY InitTypes
<1>2. PICK asked \in SUBSET Requests :
         /\ \A x, y \in asked : x # y => x.at # y.at /\ x.token # y.token
         /\ ids = [i \in Installations |-> IF \E x \in asked : x.at = i THEN 1 ELSE 0]
         /\ devices = [i \in Installations |->
               IF ids[i] = 1 THEN Registered(1, CHOOSE x \in asked : x.at = i) ELSE Nothing]
  BY DEF Init
<1>3. ASSUME NEW i \in Installations, Exists(i)
      PROVE  /\ ids[i] = 1
             /\ \E x \in asked : x.at = i /\ devices[i] = Registered(1, x)
  <2>1. ids[i] = 1 /\ devices[i] = Registered(1, CHOOSE x \in asked : x.at = i)
    BY <1>2, <1>3 DEF Exists
  <2>2. \E x \in asked : x.at = i
    BY <1>2, <2>1
  <2> QED
    BY <2>1, <2>2
<1>4. KeysInv
  <2>1. \A i \in Installations : Exists(i) => devices[i].id <= ids[i]
    <3>1. \A x : Registered(1, x).id = 1
      BY DEF Registered
    <3> QED
      BY <1>3, <3>1
  <2>2. sent = {} /\ \A j \in Jobs : jobs[j] = Nothing
    BY DEF Init
  <2> QED
    BY <2>1, <2>2 DEF KeysInv
<1>5. TokensUnique
  <2> SUFFICES ASSUME NEW a \in Installations, NEW b \in Installations,
                      Exists(a), Exists(b), devices[a].token = devices[b].token
               PROVE  a = b
    BY DEF TokensUnique
  <2>1. PICK x \in asked : x.at = a /\ devices[a] = Registered(1, x)
    BY <1>3
  <2>2. PICK y \in asked : y.at = b /\ devices[b] = Registered(1, y)
    BY <1>3
  <2>3. x.token = y.token
    BY <2>1, <2>2 DEF Registered
  <2> QED
    BY <1>2, <2>1, <2>2, <2>3
<1>6. HttpInv /\ ReceiptInv /\ SentInv
  BY DEF Init, HttpInv, ReceiptInv, SentInv, At
<1> QED
  BY <1>1, <1>4, <1>5, <1>6 DEF PushInv

LEMMA PushStep == PushInv /\ [Next]_vars => PushInv'
<1> SUFFICES ASSUME PushInv, [Next]_vars PROVE PushInv'
  OBVIOUS
<1>1. TypeOK' /\ LockInv'
  BY TypeStep, LockStep DEF PushInv
<1>2. KeysInv' /\ TokensUnique' /\ HttpInv'
  BY <1>1, KeysStep, UniqueStep, HttpStep DEF PushInv
<1>3. ReceiptInv' /\ SentInv'
  BY <1>1, ReceiptStep, SentStep DEF PushInv
<1> QED
  BY <1>1, <1>2, <1>3 DEF PushInv

LEMMA PushInvariant == Spec => []PushInv
  BY InitPush, PushStep, PTL DEF Spec

\* However registrations, logouts and pushes interleave, Expo is asked to push
\* to the one row that has the token, and it is the registration meant.
THEOREM HolderAlone == Spec => []HolderOnly
<1>1. PushInv => HolderOnly
  BY HolderHolds DEF PushInv
<1> QED
  BY <1>1, PushInvariant, PTL

\* No answer, however late, disables a row with a token that Expo did not
\* report as gone.
THEOREM DeadAlone == Spec => DisablesOnlyDead
<1>1. ASSUME PushInv, [Next]_vars, NEW j \in Jobs, NEW i \in Installations,
             jobs'[j] # jobs[j], devices'[i] # devices[i]
      PROVE  devices[i].token \in dead
  <2>1. TypeOK /\ LockInv
    BY <1>1 DEF PushInv
  <2>2. ASSUME NEW k \in Jobs, Rejected(k) PROVE devices[i].token \in dead
    <3>1. i = jobs[k].key.at
      BY <1>1, <2>1, <2>2 DEF Rejected, TypeOK
    <3> QED
      BY <1>1, <2>2, <3>1 DEF Rejected, PushInv, HttpInv
  <2>3. ASSUME NEW k \in Jobs, NotRegistered(k) PROVE devices[i].token \in dead
    <3>1. /\ i = jobs[k].key.at /\ Registration(jobs[k])
          /\ devices'[i] = [devices[i] EXCEPT !.disabled = TRUE]
      BY <1>1, <2>1, <2>3 DEF NotRegistered, TypeOK
    <3>2. devices[i] \in Device
      BY <2>1, <3>1, Present DEF Registration
    <3>3. ~devices[i].disabled
      <4> SUFFICES ASSUME devices[i].disabled PROVE FALSE
        OBVIOUS
      <4>1. PICK d \in Device : d = devices[i]
        BY <3>2
      <4>2. d.disabled = TRUE
        BY <4>1 DEF Device
      <4>3. [d EXCEPT !.disabled = TRUE] = d
        BY <4>2 DEF Device
      <4> QED
        BY <1>1, <3>1, <4>1, <4>3
    <3>4. SameToken(jobs[k]) /\ Current(jobs[k].key)
      BY <1>1, <2>3, <3>1 DEF NotRegistered, PushInv, ReceiptInv, Registration, Current
    <3> QED
      BY <2>3, <3>1, <3>3, <3>4 DEF SameToken, NotRegistered
  <2>4. devices' # devices /\ jobs' # jobs
    BY <1>1
  <2>5. \E k \in Jobs : Work(k)
    BY <1>1, <2>4
       DEF Next, Progress, Outside, Register, FindDevice, FindPrevious, Save, SaveOrphan,
           Collide, RollBack, Begin, Unregister, Logout, Uninstall, Notify, Fail,
           FailAfterDispatch, table, vars
  <2> QED
    BY <2>2, <2>3, <2>4, <2>5
       DEF Work, Send, Skip, Accepted, Ask, Fine, NotYet, RateExceeded, table
<1>2. PushInv /\ [Next]_vars =>
         \A j \in Jobs, i \in Installations :
            jobs'[j] # jobs[j] /\ devices'[i] # devices[i] => devices[i].token \in dead
  BY <1>1
<1> QED
  BY <1>2, PushInvariant, PTL DEF Spec, DisablesOnlyDead

\* No push is repeated within a generation unless its answer was lost.
THEOREM PushedOnce == Spec => SentOnce
<1>1. ASSUME PushInv, [Next]_vars, NEW j \in Jobs, At(j, "send"), At(j, "http")',
             jobs[j].key \in sent
      PROVE  FALSE
  <2>1. TypeOK /\ Spent(jobs[j].key)
    BY <1>1 DEF PushInv, SentInv
  <2>2. Send(j)
    BY <1>1, <2>1, JobMoves DEF JobMove, At
  <2>3. PICK k \in Jobs : At(k, "http") /\ jobs[k].key = jobs[j].key
    BY <2>1, <2>2 DEF Spent, Send, Names, Live, Current
  <2>4. held[jobs[j].key.at] = k /\ k # j /\ k # Nothing
    BY <1>1, <2>3, PushAssumption DEF PushInv, LockInv, LockJob, At
  <2> QED
    BY <2>2, <2>4 DEF Send, CanLock
<1>2. PushInv /\ [Next]_vars =>
         \A j \in Jobs : At(j, "send") /\ At(j, "http")' => jobs[j].key \notin sent
  BY <1>1
<1> QED
  BY <1>2, PushInvariant, PTL DEF Spec, SentOnce

-----------------------------------------------------------------------------
(***************************************************************************)
(* Two registrations at once.  A registration starts again only because of *)
(* the other one: it collides with what the other has saved by then, or it *)
(* is rolled back and waits until the other, which has all its locks now,  *)
(* is answered.  Neither can happen to it a second time.                   *)
(***************************************************************************)
AtMostTwo == \A p, q, r \in Regs : p = q \/ q = r \/ p = r

Pending(r) == regs[r] # Nothing

\* Who holds a row has found one.
HoldsFound(r) ==
    \A i \in Installations : held[i] = r =>
        Step(r, "save") \/ (Step(r, "prev") /\ regs[r].found)

\* What a registration has looked up is true until the other is answered.
Overtaken(r) ==
    \/ Step(r, "prev") /\ ~regs[r].found /\ Exists(regs[r].asked.at)
    \/ Step(r, "save") /\ Duplicate(r)

\* Rolled back, a registration waits for its row, which the other has.
Behind(r, q) ==
    /\ Step(r, "find")
    /\ held[regs[r].asked.at] = q
    /\ Step(q, "prev") \/ Step(q, "save")

OnceInv(r) ==
    /\ Overtaken(r) => regs[r].outer = 0
    /\ Overtaken(r) \/ (Pending(r) /\ regs[r].outer # 0) =>
          \E q \in Regs \ {r} : q \in answered
    /\ Pending(r) /\ regs[r].inner # 0 =>
          \E q \in Regs \ {r} : q \in answered \/ Behind(r, q)

TwoInv ==
    /\ refused = {}
    /\ \A r \in Regs : r \in answered => ~Pending(r)
    /\ \A r \in Regs : HoldsFound(r)
    /\ \A r \in Regs : OnceInv(r)

\* The look-ups of a registration, field by field.
LEMMA LookUps ==
    ASSUME TypeOK, NEW r \in Regs, FindDevice(r) \/ FindPrevious(r)
    PROVE  /\ Pending(r) /\ Pending(r)'
           /\ regs'[r].asked = regs[r].asked
           /\ regs'[r].outer = regs[r].outer
           /\ regs'[r].inner = regs[r].inner
           /\ FindDevice(r) =>
                 /\ regs'[r].pc = "prev"
                 /\ regs'[r].found <=> Exists(regs[r].asked.at)
           /\ FindPrevious(r) => regs'[r].pc = "save" /\ regs'[r].found = regs[r].found
           /\ \A q \in Regs \ {r} : regs'[q] = regs[q]
           /\ \A i \in Installations :
                 held'[i] = held[i] \/ (held'[i] = r /\ held[i] \in {Nothing, r})
<1>1. Pending(r) /\ regs[r] \in Reg
  BY RegFields DEF FindDevice, FindPrevious, Step, Pending
<1>2. CASE FindDevice(r)
  <2> DEFINE reg == [regs[r] EXCEPT !.pc = "prev", !.found = Exists(regs[r].asked.at)]
  <2>1. /\ reg \in Reg /\ reg.pc = "prev" /\ reg.asked = regs[r].asked
        /\ reg.outer = regs[r].outer /\ reg.inner = regs[r].inner
        /\ reg.found <=> Exists(regs[r].asked.at)
    BY <1>1 DEF Reg, Exists
  <2>2. regs' = [regs EXCEPT ![r] = reg]
    BY <1>2 DEF FindDevice, SetReg
  <2> HIDE DEF reg
  <2>3. regs'[r] = reg /\ \A q \in Regs \ {r} : regs'[q] = regs[q]
    BY <2>2 DEF TypeOK
  <2>4. Step(r, "find") /\ ~FindPrevious(r)
    BY <1>2 DEF FindDevice, FindPrevious, Step
  <2>5. \A i \in Installations :
           held'[i] = held[i] \/ (held'[i] = r /\ held[i] \in {Nothing, r})
    BY <1>2 DEF FindDevice, CanLock, TypeOK
  <2> QED
    BY <1>1, <2>1, <2>3, <2>4, <2>5, NothingAssumption DEF Pending
<1>3. CASE FindPrevious(r)
  <2>1. PICK prev \in Maybe(Installations) :
           SetReg(r, [regs[r] EXCEPT !.pc = "save", !.prev = prev])
    BY <1>3 DEF FindPrevious, Maybe, Holders
  <2> DEFINE reg == [regs[r] EXCEPT !.pc = "save", !.prev = prev]
  <2>2. /\ reg \in Reg /\ reg.pc = "save" /\ reg.asked = regs[r].asked
        /\ reg.outer = regs[r].outer /\ reg.inner = regs[r].inner
        /\ reg.found = regs[r].found
    BY <1>1 DEF Reg
  <2>3. regs' = [regs EXCEPT ![r] = reg]
    BY <2>1 DEF SetReg
  <2> HIDE DEF reg
  <2>4. regs'[r] = reg /\ \A q \in Regs \ {r} : regs'[q] = regs[q]
    BY <2>3 DEF TypeOK
  <2>5. Step(r, "prev") /\ ~FindDevice(r)
    BY <1>3 DEF FindDevice, FindPrevious, Step
  <2>6. \A i \in Installations :
           held'[i] = held[i] \/ (held'[i] = r /\ held[i] \in {Nothing, r})
    BY <1>3 DEF FindPrevious, CanLock, TypeOK
  <2> QED
    BY <1>1, <2>2, <2>4, <2>5, <2>6, NothingAssumption DEF Pending
<1> QED
  BY <1>2, <1>3

\* Only what a registration saves can overtake another.
LEMMA NotOvertaken ==
    ASSUME TypeOK, LockInv, [Next]_vars, ~\E q \in Regs : Save(q),
           NEW r \in Regs, regs'[r] = regs[r], Overtaken(r)'
    PROVE  Overtaken(r)
<1>1. \A i \in Installations : Exists(i)' =>
          Exists(i) /\ devices'[i].token = devices[i].token
  BY RowActors DEF Exists
<1>2. Holders(regs[r].asked.token)' \subseteq Holders(regs[r].asked.token)
  BY <1>1 DEF Holders
<1>3. regs[r].asked.at \in Installations
  BY RegFields DEF Overtaken, Step
<1> QED
  BY <1>1, <1>2, <1>3 DEF Overtaken, Step, Duplicate

\* Whatever else happens leaves the registrations where they are.
LEMMA OthersAside ==
    ASSUME TypeOK, LockInv, TwoInv, [Next]_vars, ~\E q \in Regs : Save(q),
           regs' = regs, answered' = answered, refused' = refused,
           \A i \in Installations :
              held'[i] = held[i] \/ (held[i] \notin Regs /\ held'[i] \notin Regs)
    PROVE  TwoInv'
<1>1. \A r \in Regs : OnceInv(r)'
  <2> SUFFICES ASSUME NEW r \in Regs PROVE OnceInv(r)'
    OBVIOUS
  <2>1. Overtaken(r)' => Overtaken(r)
    BY NotOvertaken
  <2>2. OnceInv(r)
    BY DEF TwoInv
  <2>3. ASSUME NEW q \in Regs, Pending(r), Behind(r, q) PROVE Behind(r, q)'
    BY <2>3, RegFields DEF Behind, Step, Pending
  <2> QED
    BY <2>1, <2>2, <2>3 DEF OnceInv, Pending
<1>2. \A r \in Regs : HoldsFound(r)'
  BY DEF TwoInv, HoldsFound, Step
<1> QED
  BY <1>1, <1>2 DEF TwoInv, Pending

\* A registration that begins has looked up nothing and holds nothing.
LEMMA BeginsClean ==
    ASSUME TypeOK, LockInv, TwoInv, [Next]_vars, NEW r \in Regs, NEW asked \in Requests,
           Begin(r, asked)
    PROVE  TwoInv'
<1> DEFINE reg == [pc |-> "find", asked |-> asked, found |-> FALSE, prev |-> Nothing,
                   inner |-> 0, outer |-> 0]
<1>1. /\ regs'[r].pc = "find" /\ regs'[r].inner = 0 /\ regs'[r].outer = 0
      /\ \A q \in Regs \ {r} : regs'[q] = regs[q]
  <2>1. regs' = [regs EXCEPT ![r] = reg]
    BY DEF Begin, SetReg
  <2>2. reg.pc = "find" /\ reg.inner = 0 /\ reg.outer = 0
    OBVIOUS
  <2> HIDE DEF reg
  <2>3. regs'[r] = reg /\ \A q \in Regs \ {r} : regs'[q] = regs[q]
    BY <2>1 DEF TypeOK
  <2> QED
    BY <2>2, <2>3
<1>2. /\ ~Pending(r) /\ r \notin answered
      /\ UNCHANGED <<held, answered, refused, devices>>
  BY DEF Begin, Fresh, Pending, table
<1>3. ~\E q \in Regs : Save(q)
  <2> SUFFICES ASSUME NEW q \in Regs, Save(q) PROVE FALSE
    OBVIOUS
  <2>1. answered' = answered \cup {q} /\ q \notin answered
    BY DEF Save, Answer, Step, TwoInv, Pending
  <2> QED
    BY <1>2, <2>1
<1>4. ASSUME NEW q \in Regs \ {r} PROVE OnceInv(q)'
  <2>1. Overtaken(q)' => Overtaken(q)
    BY <1>1, <1>3, NotOvertaken
  <2>2. ASSUME NEW p \in Regs, Pending(q), Behind(q, p) PROVE Behind(q, p)'
    BY <1>1, <1>2, <2>2 DEF Behind, Step, Pending
  <2> QED
    BY <1>1, <1>2, <2>1, <2>2 DEF TwoInv, OnceInv, Pending
<1>5. OnceInv(r)'
  BY <1>1 DEF OnceInv, Overtaken, Step
<1>6. \A q \in Regs : HoldsFound(q)'
  BY <1>1, <1>2 DEF TwoInv, HoldsFound, Step, Pending
<1>7. \A q \in Regs : q \in answered' => ~Pending(q)'
  BY <1>1, <1>2 DEF TwoInv, Pending
<1> QED
  BY <1>2, <1>4, <1>5, <1>6, <1>7 DEF TwoInv

\* A registration that looks up sees the rows as they are, and no one that is
\* behind another can.
LEMMA LooksUp ==
    ASSUME TypeOK, LockInv, TokensUnique, TwoInv, [Next]_vars, NEW r \in Regs,
           FindDevice(r) \/ FindPrevious(r)
    PROVE  TwoInv'
<1> USE PushAssumption
<1>1. UNCHANGED <<answered, refused, devices>>
  BY DEF FindDevice, FindPrevious, table
<1>2. ~\E q \in Regs : Save(q)
  <2> SUFFICES ASSUME NEW q \in Regs, Save(q) PROVE FALSE
    OBVIOUS
  <2>1. answered' = answered \cup {q} /\ q \notin answered
    BY DEF Save, Answer, Step, TwoInv, Pending
  <2> QED
    BY <1>1, <2>1
<1>3. regs[r].asked.at \in Installations /\ regs[r].asked.token \in Tokens
  BY LookUps, RegFields DEF Pending
<1>4. ASSUME NEW q \in Regs \ {r} PROVE OnceInv(q)' /\ HoldsFound(q)'
  <2>1. Overtaken(q)' => Overtaken(q)
    BY <1>2, LookUps, NotOvertaken
  <2>2. ASSUME NEW p \in Regs, Pending(q), Behind(q, p) PROVE Behind(q, p)'
    <3>1. regs[q].asked.at \in Installations
      BY <2>2, RegFields DEF Pending
    <3>2. p # r => regs'[p] = regs[p]
      BY LookUps
    <3>3. p = r => ~FindDevice(r)
      BY <2>2 DEF Behind, FindDevice, Step
    <3>4. p = r => Step(r, "save")'
      BY <3>3, LookUps DEF Step, Pending
    <3>5. held'[regs[q].asked.at] = p
      BY <2>2, <3>1, LookUps DEF Behind
    <3> QED
      BY <2>2, <3>2, <3>4, <3>5, LookUps DEF Behind, Step
  <2>3. OnceInv(q)'
    BY <1>1, <2>1, <2>2, LookUps DEF TwoInv, OnceInv, Pending
  <2>4. HoldsFound(q)'
    BY LookUps DEF TwoInv, HoldsFound, Step
  <2> QED
    BY <2>3, <2>4
<1>5. ~\E q \in Regs \ {r} : Behind(r, q)
  BY <1>3 DEF Behind, FindDevice, FindPrevious, CanLock, Step
<1>6. Overtaken(r)' => Overtaken(r)
  <2>1. CASE FindDevice(r)
    BY <1>1, <2>1, LookUps DEF Overtaken, Step, Exists
  <2>2. CASE FindPrevious(r)
    <3> SUFFICES ASSUME Duplicate(r)', ~Overtaken(r) PROVE FALSE
      BY <2>2, LookUps DEF Overtaken, Step
    <3>1. ~(~regs'[r].found /\ Exists(regs[r].asked.at))
      BY <2>2, LookUps DEF Overtaken, FindPrevious
    <3>2. PICK i \in Holders(regs[r].asked.token) : i # regs'[r].prev
      BY <1>1, <3>1, LookUps DEF Duplicate, Holders, Exists
    <3>3. PICK k \in Holders(regs[r].asked.token) : regs'[r].prev = k
      <4>1. PICK k \in Holders(regs[r].asked.token) :
               SetReg(r, [regs[r] EXCEPT !.pc = "save", !.prev = k])
        BY <2>2, <3>2 DEF FindPrevious
      <4>2. regs[r] \in Reg /\ k \in Installations
        BY LookUps, RegFields DEF Pending, Holders
      <4> QED
        BY <4>1, <4>2 DEF SetReg, TypeOK, Reg
    <3> QED
      BY <1>3, <3>2, <3>3 DEF TokensUnique, Holders
  <2> QED
    BY <2>1, <2>2
<1>7. OnceInv(r)'
  BY <1>1, <1>5, <1>6, LookUps DEF TwoInv, OnceInv, Pending
<1>8. HoldsFound(r)'
  <2>1. CASE FindDevice(r)
    <3>1. \A i \in Installations : held[i] # r
      BY <2>1 DEF TwoInv, HoldsFound, FindDevice, Step
    <3>2. \A i \in Installations : held'[i] = r => Exists(regs[r].asked.at)
      BY <2>1, <3>1 DEF FindDevice
    <3> QED
      BY <2>1, <3>2, LookUps DEF HoldsFound, Step, Pending
  <2>2. CASE FindPrevious(r)
    BY <2>2, LookUps DEF HoldsFound, Step, Pending
  <2> QED
    BY <2>1, <2>2
<1>9. \A q \in Regs : q \in answered' => ~Pending(q)'
  BY <1>1, LookUps DEF TwoInv, Pending
<1> QED
  BY <1>1, <1>4, <1>7, <1>8, <1>9 DEF TwoInv

\* One that is answered sets the other free.
LEMMA SetsFree ==
    ASSUME TypeOK, TwoInv, AtMostTwo, NEW r \in Regs, Save(r) \/ SaveOrphan(r)
    PROVE  TwoInv'
<1> USE PushAssumption
<1>1. /\ Pending(r) /\ regs'[r] = Nothing
      /\ \A q \in Regs \ {r} : regs'[q] = regs[q]
      /\ answered' = answered \cup {r} /\ refused' = refused
      /\ held' = Release(r)
  BY DEF Save, SaveOrphan, Answer, SetReg, Step, Pending, TypeOK
<1>2. ASSUME NEW q \in Regs \ {r} PROVE OnceInv(q)'
  <2>1. r \notin answered /\ \A p \in Regs \ {q} : p = r
    BY <1>1 DEF TwoInv, AtMostTwo
  <2>2. Pending(q) => regs[q].outer = 0
    BY <2>1 DEF TwoInv, OnceInv
  <2> QED
    BY <1>1, <2>2 DEF OnceInv, Overtaken, Step, Pending
<1>3. OnceInv(r)'
  BY <1>1 DEF OnceInv, Overtaken, Step, Pending
<1>4. \A q \in Regs : HoldsFound(q)'
  BY <1>1 DEF TwoInv, HoldsFound, Step, Release
<1>5. \A q \in Regs : q \in answered' => ~Pending(q)'
  BY <1>1 DEF TwoInv, Pending
<1> QED
  BY <1>1, <1>2, <1>3, <1>4, <1>5 DEF TwoInv

\* One that collides does so because the other has been answered: it is alone
\* when it starts again.
LEMMA CollidesOnce ==
    ASSUME TypeOK, TwoInv, AtMostTwo, Attempts >= 2, NEW r \in Regs, Collide(r)
    PROVE  TwoInv'
<1> USE PushAssumption
<1>1. Pending(r) /\ Overtaken(r) /\ regs[r].outer = 0
  BY DEF Collide, Step, Pending, Overtaken, TwoInv, OnceInv
<1>2. PICK q \in Regs \ {r} : q \in answered
  BY <1>1 DEF TwoInv, OnceInv
<1>3. ~Pending(q) /\ \A p \in Regs \ {r} : p = q
  BY <1>2 DEF TwoInv, AtMostTwo
<1>4. /\ regs'[r].pc = "find" /\ regs'[r].outer = 1 /\ regs'[r].inner = 0
      /\ Pending(r)'
      /\ \A p \in Regs \ {r} : regs'[p] = regs[p]
      /\ UNCHANGED <<answered, refused>>
  <2>1. MoreAttempts(regs[r].outer)
    BY <1>1 DEF MoreAttempts
  <2>2. ~RollBack(r)
    BY DEF Collide, RollBack, Circular, WaitsFor, Step
  <2> QED
    BY <1>1, <2>1, <2>2, StartsAgain DEF Pending
<1>5. held' = Release(r)
  BY DEF Collide
<1>6. OnceInv(r)'
  BY <1>2, <1>4 DEF OnceInv, Overtaken, Step
<1>7. \A p \in Regs \ {r} : OnceInv(p)'
  BY <1>3, <1>4 DEF OnceInv, Overtaken, Step, Pending
<1>8. \A p \in Regs : HoldsFound(p)'
  BY <1>4, <1>5 DEF TwoInv, HoldsFound, Step, Release
<1>9. \A p \in Regs : p \in answered' => ~Pending(p)'
  BY <1>1, <1>4 DEF TwoInv, Pending
<1> QED
  BY <1>4, <1>6, <1>7, <1>8, <1>9 DEF TwoInv

\* Two that wait for one another have both found their rows; the one that is
\* rolled back leaves its own to the other.
LEMMA RollsBackOnce ==
    ASSUME TypeOK, LockInv, TwoInv, AtMostTwo, Attempts >= 2, [Next]_vars,
           NEW r \in Regs, RollBack(r)
    PROVE  TwoInv'
<1> USE PushAssumption
<1>1. PICK q \in Regs \ {r} :
         /\ WaitsFor(q, r)
         /\ held' = [i \in Installations |-> IF held[i] = r THEN q ELSE held[i]]
  BY DEF RollBack
<1>2. \A p \in Regs \ {r} : p = q
  BY DEF AtMostTwo
<1>3. WaitsFor(r, q)
  BY <1>2 DEF RollBack, Circular
<1>4. /\ Pending(r) /\ Pending(q)
      /\ Step(r, "find") \/ Step(r, "prev")
      /\ Step(q, "find") \/ Step(q, "prev")
  BY <1>1, <1>3 DEF WaitsFor, Step, Pending
<1>5. (\E i \in Installations : held[i] = r) /\ (\E i \in Installations : held[i] = q)
  BY <1>1, <1>3, <1>4, RegFields DEF WaitsFor, Holders, Pending
<1>6. /\ Step(r, "prev") /\ regs[r].found
      /\ Step(q, "prev") /\ regs[q].found
  BY <1>4, <1>5 DEF TwoInv, HoldsFound, Step
<1>7. held[regs[r].asked.at] = r /\ regs[r].asked.at \in Installations
  BY <1>4, <1>6, RegFields DEF LockInv, LockReg, Pending
<1>8. r \notin answered /\ q \notin answered
  BY <1>4 DEF TwoInv
<1>9. regs[r].inner = 0 /\ regs[q].inner = 0
  BY <1>2, <1>4, <1>6, <1>8 DEF TwoInv, OnceInv, Behind, Step
<1>10. /\ regs'[r].pc = "find" /\ regs'[r].asked = regs[r].asked
       /\ regs'[r].outer = regs[r].outer
       /\ Pending(r)'
       /\ \A p \in Regs \ {r} : regs'[p] = regs[p]
       /\ UNCHANGED <<answered, refused>>
  <2>1. MoreAttempts(regs[r].inner)
    BY <1>9 DEF MoreAttempts
  <2>2. ~Collide(r)
    BY <1>6 DEF Collide, Step
  <2> QED
    BY <1>4, <2>1, <2>2, StartsAgain DEF Pending
<1>11. Behind(r, q)'
  BY <1>1, <1>6, <1>7, <1>10 DEF Behind, Step, Pending
<1>12. OnceInv(r)'
  BY <1>10, <1>11, <1>4 DEF TwoInv, OnceInv, Overtaken, Step
<1>13. OnceInv(q)'
  <2>1. ~\E p \in Regs : Save(p)
    BY <1>4, <1>6, <1>2 DEF Save, Step
  <2>2. Overtaken(q)' => Overtaken(q)
    BY <1>10, <2>1, NotOvertaken
  <2> QED
    BY <1>9, <1>10, <2>2 DEF TwoInv, OnceInv, Pending
<1>14. HoldsFound(r)' /\ HoldsFound(q)'
  BY <1>1, <1>6, <1>10 DEF HoldsFound, Step
<1>15. \A p \in Regs : p \in answered' => ~Pending(p)'
  BY <1>10, <1>8, <1>2
<1> QED
  BY <1>2, <1>10, <1>12, <1>13, <1>14, <1>15 DEF TwoInv

\* Neither starts again twice.
LEMMA TwoStep ==
    ASSUME AtMostTwo, Attempts >= 2
    PROVE  PushInv /\ TwoInv /\ [Next]_vars => TwoInv'
<1> SUFFICES ASSUME PushInv, TwoInv, [Next]_vars PROVE TwoInv'
  OBVIOUS
<1> USE PushAssumption
<1>1. TypeOK /\ LockInv /\ TokensUnique
  BY DEF PushInv
<1>2. ASSUME NEW r \in Regs, Register(r) \/ RollBack(r) PROVE TwoInv'
  BY <1>1, <1>2, LooksUp, SetsFree, CollidesOnce, RollsBackOnce DEF Register
<1>3. ASSUME NEW r \in Regs, NEW asked \in Requests, Begin(r, asked) PROVE TwoInv'
  BY <1>1, <1>3, BeginsClean
<1>4. CASE /\ UNCHANGED requests
           /\ \A i \in Installations :
                 held'[i] = held[i] \/ (held[i] \notin Regs /\ held'[i] \notin Regs)
  <2>1. ~\E r \in Regs : Save(r)
    BY <1>4 DEF Save, Answer, Step, TwoInv, Pending, requests
  <2> QED
    BY <1>1, <1>4, <2>1, OthersAside DEF requests
<1>5. ASSUME NEW j \in Jobs, Work(j) \/ Fail(j) PROVE TwoInv'
  <2>1. jobs[j].key.at \in Installations
    BY <1>1, <1>5, JobFields
       DEF Work, Send, Skip, Accepted, Rejected, Ask, Fine, NotYet, NotRegistered,
           RateExceeded, Fail, At
  <2>2. UNCHANGED requests
    BY <1>5 DEF Work, Send, Skip, Accepted, Rejected, Ask, Fine, NotYet, NotRegistered,
                RateExceeded, Fail
  <2>3. \A i \in Installations :
           held'[i] = held[i] \/ (held[i] \notin Regs /\ held'[i] \notin Regs)
    BY <1>1, <1>5, <2>1
       DEF Work, Send, Skip, Accepted, Rejected, Ask, Fine, NotYet, NotRegistered,
           RateExceeded, Fail, CanLock, Locked, Release, TypeOK
  <2> QED
    BY <1>4, <2>2, <2>3
<1>6. CASE \/ \E i \in Installations : Unregister(i)
           \/ \E user \in Users : Logout(user)
           \/ \E token \in Tokens : Uninstall(token)
           \/ \E j \in Jobs, i \in Installations : Notify(j, i)
           \/ \E j, k \in Jobs : FailAfterDispatch(j, k)
           \/ UNCHANGED vars
  BY <1>4, <1>6 DEF Unregister, Logout, Uninstall, Notify, FailAfterDispatch, vars
<1> QED
  BY <1>2, <1>3, <1>5, <1>6 DEF Next, Progress, Outside

\* Two registrations, whatever they exchange and whatever happens around them,
\* are never refused: two attempts of each loop are enough.
THEOREM BothComeThrough ==
    ASSUME AtMostTwo, Attempts >= 2
    PROVE  Spec => []NoneRefused
<1>1. Init => TwoInv
  <2> SUFFICES ASSUME Init PROVE TwoInv
    OBVIOUS
  <2>1. /\ refused = {} /\ answered = {}
        /\ \A r \in Regs : regs[r] = Nothing
        /\ \A i \in Installations : held[i] = Nothing
    BY DEF Init
  <2> QED
    BY <2>1, PushAssumption DEF TwoInv, HoldsFound, OnceInv, Overtaken, Step, Pending
<1>2. PushInv /\ TwoInv /\ [Next]_vars => TwoInv'
  BY TwoStep
<1>3. TwoInv => NoneRefused
  BY DEF TwoInv, NoneRefused
<1> QED
  BY <1>1, <1>2, <1>3, PushInvariant, PTL DEF Spec

=============================================================================
