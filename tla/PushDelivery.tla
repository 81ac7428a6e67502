---------------------------- MODULE PushDelivery ----------------------------
(***************************************************************************)
(* Devices and the pushes sent to them.  An installation of the app        *)
(* registers its push token under the session it is logged in with; a      *)
(* token moves between installations, a device between users.  Queued jobs *)
(* send one notification to a registered device through Expo, and a job    *)
(* of its own asks later what has become of the push.                      *)
(***************************************************************************)
EXTENDS Naturals, FiniteSets

CONSTANTS
    Installations,  \* installation ids
    Tokens,         \* Expo push tokens
    Sessions,       \* personal access tokens
    Users,
    Owner,          \* the user of each session
    Requests,       \* what an app may ask to register: [at, token, session]
    Regs,           \* requests that register a device
    Jobs,           \* slots for jobs: queued or running
    Nothing,        \* no row, no token, no job, no lock
    Attempts,       \* of a registration, in each of its two loops
    SendTries,      \* SendExpoPushJob::$tries
    ReceiptTries,   \* ProcessExpoPushReceiptJob::$tries
    Generations,    \* the last one (2)
    MaxEvents       \* bound on all that comes from outside

ASSUME PushAssumption ==
    /\ Owner \in [Sessions -> Users]
    /\ Requests \subseteq [at : Installations, token : Tokens, session : Sessions]
    /\ {Attempts, SendTries, ReceiptTries} \subseteq Nat \ {0}
    /\ {Generations, MaxEvents} \subseteq Nat
    /\ Nothing \notin Installations \cup Tokens \cup Regs \cup Jobs
    /\ Regs \cap Jobs = {}

VARIABLES
    devices,        \* the row of each installation (installation_id is unique)
    ids,            \* how many rows each installation has had
    sessions,       \* sessions that have not been logged out
    held,           \* who has locked the row of each installation
    regs,           \* registrations on their way
    answered,       \* those that have been answered
    refused,        \* with 409, or the error of the last deadlock
    jobs,           \* jobs for the notification
    cached,         \* keys expo-push:... in the cache
    sent,           \* keys whose push Expo was asked to send, but for lost answers
    dead,           \* tokens of which Expo knows that the app is gone
    events          \* registrations, notifications, logouts, failures, ... so far

table == <<devices, ids, sessions>>
requests == <<regs, answered, refused>>
provider == <<cached, sent, dead>>
vars == <<table, held, requests, jobs, provider, events>>

Maybe(S) == S \cup {Nothing}

\* The rows of an installation are numbered: an id tells a new row from the
\* deleted one.
Device == [id : Nat, token : Maybe(Tokens), session : Sessions, version : Nat,
           disabled : BOOLEAN]

\* "found" and "prev" are the rows a registration has locked: that of its
\* installation, and the one of the installation that has its token.
Reg == [pc : {"find", "prev", "save"},
        asked : Requests,
        found : BOOLEAN, prev : Maybe(Installations),
        inner : 0..(Attempts - 1), outer : 0..(Attempts - 1)]

\* The key of a push: nothing else tells it apart from another.
Key == [at : Installations, id : Nat, version : Nat, generation : 0..Generations]

\* "to" is the token the push was sent to, which Expo's receipt is about.
Job == [pc : {"send", "http", "receipt", "ask"}, user : Users,
        key : Key, to : Maybe(Tokens), tries : Nat]

\* NULL is told from every row and record.
ASSUME NothingAssumption == Nothing \notin Device /\ Nothing \notin Reg /\ Nothing \notin Job

TypeOK ==
    /\ devices \in [Installations -> Maybe(Device)]
    /\ ids \in [Installations -> Nat]
    /\ sessions \subseteq Sessions
    /\ held \in [Installations -> Maybe(Regs \cup Jobs)]
    /\ regs \in [Regs -> Maybe(Reg)]
    /\ answered \subseteq Regs /\ refused \subseteq answered
    /\ jobs \in [Jobs -> Maybe(Job)]
    /\ cached \subseteq Key /\ sent \subseteq Key
    /\ dead \subseteq Tokens
    /\ events \in 0..MaxEvents

Exists(i) == devices[i] # Nothing
Live(i) == Exists(i) /\ ~devices[i].disabled /\ devices[i].token # Nothing

\* Some installations are registered, each with a token of its own.
Registered(id, asked) ==
    [id |-> id, token |-> asked.token, session |-> asked.session, version |-> 1,
     disabled |-> FALSE]

Init ==
    /\ \E asked \in SUBSET Requests :
          /\ \A x, y \in asked : x # y => x.at # y.at /\ x.token # y.token
          /\ ids = [i \in Installations |-> IF \E x \in asked : x.at = i THEN 1 ELSE 0]
          /\ devices = [i \in Installations |->
                IF ids[i] = 1 THEN Registered(1, CHOOSE x \in asked : x.at = i) ELSE Nothing]
    /\ sessions = Sessions
    /\ held = [i \in Installations |-> Nothing]
    /\ regs = [r \in Regs |-> Nothing] /\ answered = {} /\ refused = {}
    /\ jobs = [j \in Jobs |-> Nothing]
    /\ cached = {} /\ sent = {} /\ dead = {}
    /\ events = 0

Event == events < MaxEvents /\ events' = events + 1

-----------------------------------------------------------------------------
(***************************************************************************)
(* DeviceService::registerDevice.  Its transaction locks up to two rows    *)
(* one after the other and keeps them to its end.                          *)
(***************************************************************************)
Step(r, pc) == regs[r] # Nothing /\ regs[r].pc = pc
SetReg(r, reg) == regs' = [regs EXCEPT ![r] = reg]
CanLock_Any(i, p) == TRUE
CanLock(i, p) == held[i] \in {Nothing, p}
Release(p) == [i \in Installations |-> IF held[i] = p THEN Nothing ELSE held[i]]

\* Requests that have not come yet are all alike: it is the first one's turn.
Fresh(r) == r \notin answered /\ regs[r] = Nothing

Begin(r, asked) ==
    /\ Fresh(r) /\ r = (CHOOSE q \in Regs : Fresh(q))
    /\ Event
    /\ asked.session \in sessions
    /\ SetReg(r, [pc |-> "find", asked |-> asked, found |-> FALSE, prev |-> Nothing,
                  inner |-> 0, outer |-> 0])
    /\ UNCHANGED <<table, held, answered, refused, jobs, provider>>

FindDevice(r) ==
    /\ Step(r, "find")
    /\ LET i == regs[r].asked.at IN
       /\ CanLock(i, r)
       /\ held' = IF Exists(i) THEN [held EXCEPT ![i] = r] ELSE held
       /\ SetReg(r, [regs[r] EXCEPT !.pc = "prev", !.found = Exists(i)])
    /\ UNCHANGED <<table, answered, refused, jobs, provider, events>>

Holders(token) == {i \in Installations : Exists(i) /\ devices[i].token = token}

FindPrevious(r) ==
    /\ Step(r, "prev")
    /\ \/ /\ Holders(regs[r].asked.token) = {}
          /\ SetReg(r, [regs[r] EXCEPT !.pc = "save", !.prev = Nothing])
          /\ held' = held
       \/ \E i \in Holders(regs[r].asked.token) :
             /\ CanLock(i, r)
             /\ SetReg(r, [regs[r] EXCEPT !.pc = "save", !.prev = i])
             /\ held' = [held EXCEPT ![i] = r]
    /\ UNCHANGED <<table, answered, refused, jobs, provider, events>>

\* A unique key stops the insertion or the update: since the look-up another
\* request has created the installation's row or stored the token.
Duplicate(r) ==
    \/ ~regs[r].found /\ Exists(regs[r].asked.at)
    \/ Holders(regs[r].asked.token) \ {regs[r].asked.at, regs[r].prev} # {}

\* What another registration of the same device would not change.
Changed_SameToken(row, asked) == row.session # asked.session \/ row.disabled
Changed(row, asked) ==
    row.session # asked.session \/ row.disabled \/ row.token # asked.token

Saved(reg) ==
    IF ~reg.found THEN Registered(ids[reg.asked.at] + 1, reg.asked)
    ELSE LET row == devices[reg.asked.at] IN
         [Registered(row.id, reg.asked) EXCEPT
             !.version = IF Changed(row, reg.asked) THEN row.version + 1 ELSE row.version]

\* The installation that had the token loses it.
Ousted(row) == [row EXCEPT !.disabled = TRUE, !.token = Nothing]

Answer(r) == SetReg(r, Nothing) /\ answered' = answered \cup {r}

Save(r) ==
    /\ Step(r, "save") /\ ~Duplicate(r)
    /\ regs[r].asked.session \in sessions
    /\ devices' = [i \in Installations |->
          IF i = regs[r].asked.at THEN Saved(regs[r])
          ELSE IF i = regs[r].prev THEN Ousted(devices[i])
          ELSE devices[i]]
    /\ ids' = IF regs[r].found THEN ids ELSE [ids EXCEPT ![regs[r].asked.at] = @ + 1]
    /\ held' = Release(r)
    /\ Answer(r) /\ UNCHANGED refused
    /\ UNCHANGED <<sessions, jobs, provider, events>>

\* The session was logged out meanwhile: its foreign key stops the save, an
\* error that no loop catches.  It is not counted as refused: there is no
\* session left to register the device for.
SaveOrphan(r) ==
    /\ Step(r, "save") /\ ~Duplicate(r)
    /\ regs[r].asked.session \notin sessions
    /\ held' = Release(r)
    /\ Answer(r) /\ UNCHANGED refused
    /\ UNCHANGED <<table, jobs, provider, events>>

Repeat(r, reg) == SetReg(r, reg) /\ UNCHANGED <<answered, refused>>
Refuse(r) == Answer(r) /\ refused' = refused \cup {r}

\* The loop around the transaction, which starts it again: 409 at its end.
MoreAttempts_None(n) == FALSE
MoreAttempts(n) == n + 1 < Attempts

Collide(r) ==
    /\ Step(r, "save") /\ Duplicate(r)
    /\ held' = Release(r)
    /\ IF MoreAttempts(regs[r].outer)
       THEN Repeat(r, [regs[r] EXCEPT !.pc = "find", !.outer = @ + 1, !.inner = 0])
       ELSE Refuse(r)
    /\ UNCHANGED <<table, jobs, provider, events>>

\* The database sees registrations wait for one another in a circle and rolls
\* one of them back; the lock it had goes to one that waits for it.
\* DB::transaction repeats the transaction.
WaitsFor(r, p) ==
    \/ Step(r, "find") /\ held[regs[r].asked.at] = p
    \/ Step(r, "prev") /\ \E i \in Holders(regs[r].asked.token) : held[i] = p

Circular(r) ==
    \E circle \in SUBSET Regs :
        /\ r \in circle
        /\ \A q \in circle : /\ \E p \in circle \ {q} : WaitsFor(q, p)
                             /\ \E p \in circle \ {q} : WaitsFor(p, q)

RollBack(r) ==
    /\ Circular(r)
    /\ \E q \in Regs \ {r} :
          /\ WaitsFor(q, r)
          /\ held' = [i \in Installations |-> IF held[i] = r THEN q ELSE held[i]]
    /\ IF MoreAttempts(regs[r].inner)
       THEN Repeat(r, [regs[r] EXCEPT !.pc = "find", !.inner = @ + 1])
       ELSE Refuse(r)
    /\ UNCHANGED <<table, jobs, provider, events>>

-----------------------------------------------------------------------------
(***************************************************************************)
(* What else happens to a device: DELETE /devices/{id}, a logout, which    *)
(* deletes all sessions of the user and with them their devices, and the   *)
(* removal of the app.                                                     *)
(***************************************************************************)
Unregister(i) ==
    /\ Exists(i) /\ ~devices[i].disabled /\ held[i] = Nothing
    /\ Event
    /\ devices' = [devices EXCEPT ![i].disabled = TRUE]
    /\ UNCHANGED <<ids, sessions, held, requests, jobs, provider>>

Logout(user) ==
    LET own == {s \in sessions : Owner[s] = user}
        gone == {i \in Installations : Exists(i) /\ devices[i].session \in own} IN
    /\ own # {} /\ Event
    /\ \A i \in gone : held[i] = Nothing
    /\ sessions' = sessions \ own
    /\ devices' = [i \in Installations |-> IF i \in gone THEN Nothing ELSE devices[i]]
    /\ UNCHANGED <<ids, held, requests, jobs, provider>>

Uninstall(token) ==
    /\ token \notin dead /\ Event
    /\ dead' = dead \cup {token}
    /\ UNCHANGED <<table, held, requests, jobs, cached, sent>>

-----------------------------------------------------------------------------
(***************************************************************************)
(* The jobs                                                                *)
(***************************************************************************)
At(j, pc) == jobs[j] # Nothing /\ jobs[j].pc = pc
SetJob(j, job) == jobs' = [jobs EXCEPT ![j] = job]
Drop(j) == SetJob(j, Nothing)

SendJob(user, key) ==
    [pc |-> "send", user |-> user, key |-> key, to |-> Nothing, tries |-> 0]

\* ExpoPushChannel, which may itself run again, queues a job per device.
Notify(j, i) ==
    /\ jobs[j] = Nothing /\ j = (CHOOSE k \in Jobs : jobs[k] = Nothing)
    /\ Event
    /\ Live(i)
    /\ SetJob(j, SendJob(Owner[devices[i].session],
                         [at |-> i, id |-> devices[i].id, version |-> devices[i].version,
                          generation |-> 0]))
    /\ UNCHANGED <<table, held, requests, provider>>

\* The very registration the job was queued for.
Names(job) == LET i == job.key.at IN
    /\ Live(i) /\ devices[i].id = job.key.id
    /\ devices[i].version = job.key.version /\ Owner[devices[i].session] = job.user

Locked_Shared(j, i) == UNCHANGED held
Locked(j, i) == held' = [held EXCEPT ![i] = j]

\* The job holds the row while Expo answers.
Send(j) ==
    /\ At(j, "send")
    /\ LET i == jobs[j].key.at IN
       /\ Names(jobs[j]) /\ CanLock(i, j)
       /\ jobs[j].key \notin cached
       /\ Locked(j, i)
       /\ SetJob(j, [jobs[j] EXCEPT !.pc = "http", !.to = devices[i].token])
    /\ sent' = sent \cup {jobs[j].key}
    /\ UNCHANGED <<table, requests, cached, dead, events>>

\* No push and no question: the row is not that registration any more, the key
\* is cached, or flags, preferences, the session's age or the user's state
\* forbid it.
Skip(j) ==
    /\ At(j, "send") \/ At(j, "receipt")
    /\ Drop(j)
    /\ UNCHANGED <<table, held, requests, provider, events>>

\* Expo takes the push, whether or not the app is still there.
Accepted(j) ==
    /\ At(j, "http")
    /\ cached' = cached \cup {jobs[j].key}
    /\ held' = Release(j)
    /\ SetJob(j, [jobs[j] EXCEPT !.pc = "receipt", !.tries = 0])
    /\ UNCHANGED <<table, requests, sent, dead, events>>

Rejected(j) ==
    /\ At(j, "http") /\ jobs[j].to \in dead
    /\ devices' = [devices EXCEPT ![jobs[j].key.at].disabled = TRUE]
    /\ held' = Release(j)
    /\ Drop(j)
    /\ UNCHANGED <<ids, sessions, requests, provider, events>>

\* ProcessExpoPushReceiptJob reads the device without a lock.
Ask(j) ==
    /\ At(j, "receipt") /\ Names(jobs[j])
    /\ SetJob(j, [jobs[j] EXCEPT !.pc = "ask"])
    /\ UNCHANGED <<table, held, requests, provider, events>>

\* A receipt of which there is nothing to do.
Fine(j) ==
    /\ At(j, "ask")
    /\ Drop(j)
    /\ UNCHANGED <<table, held, requests, provider, events>>

\* The job is released to ask later, unless this was its last attempt.
Later_Forever(job) == [job EXCEPT !.pc = "receipt"]
Later(job) ==
    IF job.tries + 1 < ReceiptTries
    THEN [job EXCEPT !.pc = "receipt", !.tries = @ + 1] ELSE Nothing

\* No receipt yet, or no answer.
NotYet(j) ==
    /\ At(j, "ask")
    /\ SetJob(j, Later(jobs[j]))
    /\ UNCHANGED <<table, held, requests, provider, events>>

\* Disabled or not, the row is updated if it is still that registration.
Registration(job) == LET i == job.key.at IN
    /\ Exists(i) /\ devices[i].id = job.key.id
    /\ devices[i].version = job.key.version /\ Owner[devices[i].session] = job.user

NotRegistered(j) ==
    /\ At(j, "ask") /\ jobs[j].to \in dead
    /\ LET i == jobs[j].key.at IN
       IF Registration(jobs[j])
       THEN held[i] = Nothing /\ devices' = [devices EXCEPT ![i].disabled = TRUE]
       ELSE UNCHANGED devices
    /\ Drop(j)
    /\ UNCHANGED <<ids, sessions, held, requests, provider, events>>

\* The push was one too many: it is sent again as the next generation.
MoreGenerations_OneMore(key) == key.generation <= Generations
MoreGenerations(key) == key.generation < Generations

NextSend(job) == SendJob(job.user, [job.key EXCEPT !.generation = @ + 1])

RateExceeded(j) ==
    /\ At(j, "ask")
    /\ IF MoreGenerations(jobs[j].key) THEN SetJob(j, NextSend(jobs[j])) ELSE Drop(j)
    /\ UNCHANGED <<table, held, requests, provider, events>>

-----------------------------------------------------------------------------
(***************************************************************************)
(* Failures                                                                *)
(***************************************************************************)
\* The answer to a push is lost with the transaction; what was put into the
\* cache before stays there.
Fail(j) ==
    /\ At(j, "http") /\ Event
    /\ \/ cached' = cached /\ sent' = sent \ {jobs[j].key}
       \/ cached' = cached \cup {jobs[j].key} /\ sent' = sent
    /\ held' = Release(j)
    /\ IF jobs[j].tries + 1 < SendTries
       THEN SetJob(j, [jobs[j] EXCEPT !.pc = "send", !.to = Nothing, !.tries = @ + 1])
       ELSE Drop(j)
    /\ UNCHANGED <<table, requests, dead>>

\* The worker dies after it queued the next generation, and asks again.
FailAfterDispatch(j, k) ==
    /\ At(j, "ask") /\ MoreGenerations(jobs[j].key)
    /\ jobs[k] = Nothing /\ Event
    /\ jobs' = [jobs EXCEPT ![k] = NextSend(jobs[j]), ![j] = Later(jobs[j])]
    /\ UNCHANGED <<table, held, requests, provider>>

-----------------------------------------------------------------------------
Register(r) ==
    FindDevice(r) \/ FindPrevious(r) \/ Save(r) \/ SaveOrphan(r) \/ Collide(r)

Work(j) ==
    \/ Send(j) \/ Skip(j) \/ Accepted(j) \/ Rejected(j)
    \/ Ask(j) \/ Fine(j) \/ NotYet(j) \/ NotRegistered(j) \/ RateExceeded(j)

\* What the servers and the database do of themselves.
Progress ==
    \/ \E r \in Regs : Register(r) \/ RollBack(r)
    \/ \E j \in Jobs : Work(j)

Outside ==
    \/ \E r \in Regs, asked \in Requests : Begin(r, asked)
    \/ \E i \in Installations : Unregister(i)
    \/ \E user \in Users : Logout(user)
    \/ \E token \in Tokens : Uninstall(token)
    \/ \E j \in Jobs, i \in Installations : Notify(j, i)
    \/ \E j \in Jobs : Fail(j) \/ \E k \in Jobs : FailAfterDispatch(j, k)

Next == Progress \/ Outside

Spec == Init /\ [][Next]_vars

\* Some request or queue worker that can go on does: they share no lock for
\* ever, since the database looks for deadlocks and Expo answers or times out.
Fairness == WF_vars(Progress)

FairSpec == Spec /\ Fairness

-----------------------------------------------------------------------------
\* While Expo is asked to push to a token, no other row has that token, and
\* the row it was read from is the registration the notification was meant
\* for: its user and its session have not been exchanged meanwhile ("the same
\* native token must never remain routable for two installs/users",
\* DeviceService.php:28).
HolderOnly ==
    \A j \in Jobs : At(j, "http") =>
        /\ Names(jobs[j])
        /\ Holders(jobs[j].to) = {jobs[j].key.at}

\* What a job's answer disables is a registration of the very token Expo spoke
\* of: an answer about a push that was sent before the device was registered
\* anew never disables the new registration (ProcessExpoPushReceiptJob.php:55-58).
DisablesOnlyDead ==
    [][\A j \in Jobs, i \in Installations :
          jobs'[j] # jobs[j] /\ devices'[i] # devices[i] => devices[i].token \in dead]_vars

\* A notification is pushed to a registration once per generation, and once
\* more only for each answer that was lost: neither a channel that runs twice
\* nor a receipt that is processed twice repeats it (SendExpoPushJob.php:58-71).
SentOnce ==
    [][\A j \in Jobs :
          At(j, "send") /\ At(j, "http")' => jobs[j].key \notin sent]_vars

\* Two requests that register at once both come through, whichever devices
\* and tokens they exchange (DeviceService.php:21, :46-50).
NoneRefused == refused = {}

\* Registrations and jobs all end once nothing comes from outside, although they
\* wait for one another's rows.
Settles ==
    <>[](\A r \in Regs : regs[r] = Nothing) /\ <>[](\A j \in Jobs : jobs[j] = Nothing)

=============================================================================
