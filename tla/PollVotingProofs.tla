-------------------------- MODULE PollVotingProofs --------------------------
(***************************************************************************)
(* Proofs about PollVoting for any number of polls, members and workers:   *)
(* type correctness, the inductive invariant behind the row lock, that the *)
(* ballots of a poll stay valid and unique, and that the polls implement   *)
(* BallotBox.                                                              *)
(***************************************************************************)
EXTENDS PollVoting, TLAPS

-----------------------------------------------------------------------------
(***************************************************************************)
(* Types                                                                   *)
(***************************************************************************)
\* Creating a poll, or holding its row, means one of two stages of a request.
Holds(r) == r.pc \in {"update_save", "vote_save"}
Makes(r) == r.pc \in {"create_resolve", "create_save"}

\* What a request is made of, by its stage.
LEMMA RequestFields ==
    ASSUME NEW r \in Request
    PROVE  /\ r.pc \in {"idle", "create_resolve", "create_save", "update_lock",
                        "update_save", "vote_save", "toggle_save", "audience_delete"}
           /\ r.pc \notin {"idle", "audience_delete"} => r.poll \in Polls
           /\ Makes(r) => r.payload \in Payloads
           /\ r.pc \in {"create_save", "update_save"} =>
                 r.audience \in Audiences \cup {NoAudience}
           /\ r.pc \in {"update_lock", "update_save"} => r.patch \in Patches
           /\ r.pc = "vote_save" => r.ballot \in Ballot
           /\ r.pc = "toggle_save" => r.loaded \in {"live", "closed"}
           /\ r.pc = "audience_delete" => r.audience \in Audiences
  BY DEF Request, Idle, Makes

\* A deleted or absent audience resolves to none, any other to itself.
LEMMA ResolvedType ==
    ASSUME NEW a
    PROVE  Resolved(a) \in Audiences \cup {NoAudience}
  BY DEF Resolved

\* Every record a worker stores is a request, so the requests stay typed.
LEMMA GotoType ==
    ASSUME TypeOK, NEW w \in Workers, NEW r \in Request, Goto(w, r)
    PROVE  request' \in [Workers -> Request]
  BY DEF TypeOK, Goto

\* A finished request is idle.
LEMMA FinishType ==
    ASSUME TypeOK, NEW w \in Workers, Finish(w)
    PROVE  request' \in [Workers -> Request]
  BY GotoType DEF Finish, Request

\* Every step of a worker keeps the types.
LEMMA WorkerType ==
    ASSUME TypeOK, NEW w \in Workers, Worker(w)
    PROVE  TypeOK'
<1> USE PollsAssumption
<1> DEFINE r == request[w]
<1>0. r \in Request
  BY DEF TypeOK
<1>1. ASSUME NEW p \in Polls, CreateValidate(w, p)
      PROVE  TypeOK'
  <2>1. PICK payload \in Payloads :
           Goto(w, [pc |-> "create_resolve", poll |-> p, payload |-> payload])
    BY <1>1 DEF CreateValidate
  <2>2. [pc |-> "create_resolve", poll |-> p, payload |-> payload] \in Request
    BY DEF Request
  <2>3. request' \in [Workers -> Request]
    BY <2>1, <2>2, GotoType
  <2>. QED  BY <1>1, <2>3 DEF CreateValidate, TypeOK
<1>2. ASSUME NEW p \in Polls, UpdateAuthorize(w, p)
      PROVE  TypeOK'
  <2>1. PICK patch \in Patches :
           Goto(w, [pc |-> "update_lock", poll |-> p, patch |-> patch])
    BY <1>2 DEF UpdateAuthorize
  <2>2. [pc |-> "update_lock", poll |-> p, patch |-> patch] \in Request
    BY DEF Request
  <2>3. request' \in [Workers -> Request]
    BY <2>1, <2>2, GotoType
  <2>. QED  BY <1>2, <2>3 DEF UpdateAuthorize, TypeOK
<1>3. ASSUME NEW p \in Polls, VoteLock(w, p)
      PROVE  TypeOK'
  <2>1. PICK u \in Members, choice \in SUBSET Choices, g \in 1..polls[p].generation :
           Goto(w, [pc |-> "vote_save", poll |-> p,
                    ballot |-> [voter |-> u, generation |-> g, choice |-> choice]])
    BY <1>3 DEF VoteLock
  <2>2. polls[p].generation \in Nat
    BY DEF TypeOK, Poll
  <2>3. [voter |-> u, generation |-> g, choice |-> choice] \in Ballot
    BY <2>2 DEF Ballot
  <2>4. [pc |-> "vote_save", poll |-> p,
         ballot |-> [voter |-> u, generation |-> g, choice |-> choice]] \in Request
    BY <2>3 DEF Request
  <2>5. request' \in [Workers -> Request]
    BY <2>1, <2>4, GotoType
  <2>. QED  BY <1>3, <2>5 DEF VoteLock, TypeOK
<1>4. ASSUME NEW p \in Polls, ToggleLoad(w, p)
      PROVE  TypeOK'
  <2>1. polls[p].status \in {"live", "closed"}
    BY <1>4 DEF ToggleLoad, TypeOK, Poll
  <2>2. [pc |-> "toggle_save", poll |-> p, loaded |-> polls[p].status] \in Request
    BY <2>1 DEF Request
  <2>3. request' \in [Workers -> Request]
    BY <1>4, <2>2, GotoType DEF ToggleLoad
  <2>. QED  BY <1>4, <2>3 DEF ToggleLoad, TypeOK
<1>5. ASSUME NEW a \in Audiences, AudienceDetect(w, a)
      PROVE  TypeOK'
  <2>1. [pc |-> "audience_delete", audience |-> a] \in Request
    BY DEF Request
  <2>2. request' \in [Workers -> Request]
    BY <1>5, <2>1, GotoType DEF AudienceDetect
  <2>. QED  BY <1>5, <2>2 DEF AudienceDetect, TypeOK
<1>6. CASE CreateResolve(w)
  <2> DEFINE q == [pc |-> "create_save", poll |-> r.poll, payload |-> r.payload,
                   audience |-> Resolved(r.payload.audience)]
  <2>1. r.poll \in Polls /\ r.payload \in Payloads
    BY <1>0, <1>6, RequestFields DEF CreateResolve, At, Makes
  <2>2. q \in Request
    BY <2>1, ResolvedType DEF Request
  <2>3. request' \in [Workers -> Request]
    BY <1>6, <2>2, GotoType DEF CreateResolve
  <2>. QED  BY <1>6, <2>3 DEF CreateResolve, TypeOK
<1>7. CASE CreateSave(w)
  <2>1. /\ r.poll \in Polls
        /\ r.payload \in PayloadType
        /\ r.audience \in Audiences \cup {NoAudience}
    BY <1>0, <1>7, RequestFields DEF CreateSave, At, Makes
  <2>2. /\ r.payload.start \in Int
        /\ r.payload.start + r.payload.duration \in Int
        /\ r.payload.max \in Nat
    BY <2>1 DEF PayloadType, Days
  <2> DEFINE rules == IF r.audience = NoAudience /\ r.payload.inline = "given"
                      THEN {"inline"} ELSE {}
  <2>3. rules \in SUBSET Criteria
    BY DEF Criteria
  <2>4. [status |-> "live", opens |-> r.payload.start,
         closes |-> r.payload.start + r.payload.duration, max |-> r.payload.max,
         generation |-> 1, audience |-> r.audience, rules |-> rules] \in Poll
    BY <2>1, <2>2, <2>3 DEF Poll
  <2>5. polls' \in [Polls -> Poll]
    BY <1>7, <2>1, <2>4 DEF CreateSave, TypeOK
  <2>. QED  BY <1>7, <2>5, FinishType DEF CreateSave, TypeOK
<1>8. CASE UpdateLock(w)
  <2>1. r.poll \in Polls /\ r.patch \in Patches
    BY <1>0, <1>8, RequestFields DEF UpdateLock, At
  <2>2. Effective(r.poll, r.patch) \in Audiences \cup {NoAudience}
    BY <2>1, ResolvedType DEF Effective, TypeOK, Poll
  <2>3. [pc |-> "update_save", poll |-> r.poll, patch |-> r.patch,
         audience |-> Effective(r.poll, r.patch)] \in Request
    BY <2>1, <2>2 DEF Request
  <2>4. request' \in [Workers -> Request]
    BY <1>8, <2>3, GotoType, FinishType DEF UpdateLock
  <2>. QED  BY <1>8, <2>4 DEF UpdateLock, TypeOK
<1>9. CASE UpdateSave(w)
  <2> DEFINE p == r.poll
             patch == r.patch
             new == [status |-> polls[p].status, opens |-> NewOpens(p, patch),
                     closes |-> NewCloses(p, patch),
                     max |-> IF patch.max = Unsent THEN polls[p].max ELSE patch.max,
                     generation |-> IF patch.options THEN polls[p].generation + 1
                                    ELSE polls[p].generation,
                     audience |-> r.audience, rules |-> NewRules(p, patch, r.audience)]
  <2>1. p \in Polls /\ patch \in PatchType /\ r.audience \in Audiences \cup {NoAudience}
    BY <1>0, <1>9, RequestFields DEF UpdateSave, At
  <2>2. polls[p] \in Poll
    BY <2>1 DEF TypeOK
  <2>3. NewOpens(p, patch) \in Int
    BY <2>1, <2>2 DEF NewOpens, Poll, PatchType, Days
  <2>4. NewCloses(p, patch) \in Int
    BY <2>1, <2>2, <2>3 DEF NewCloses, Poll, PatchType
  <2>5. NewRules(p, patch, r.audience) \in SUBSET Criteria
    BY <2>2 DEF NewRules, Poll
  <2>6. (IF patch.max = Unsent THEN polls[p].max ELSE patch.max) \in Nat
    BY <2>1, <2>2 DEF Poll, PatchType
  <2>7. (IF patch.options THEN polls[p].generation + 1 ELSE polls[p].generation) \in Nat
    BY <2>2 DEF Poll
  <2>8. new \in Poll
    BY <2>1, <2>2, <2>3, <2>4, <2>5, <2>6, <2>7 DEF Poll
  <2>9. polls' = [polls EXCEPT ![p] = new]
    BY <1>9 DEF UpdateSave
  <2>10. polls' \in [Polls -> Poll]
    BY <2>8, <2>9 DEF TypeOK
  <2>. QED  BY <1>9, <2>10, FinishType DEF UpdateSave, TypeOK
<1>10. CASE VoteSave(w)
  <2>1. r.poll \in Polls /\ r.ballot \in Ballot
    BY <1>0, <1>10, RequestFields DEF VoteSave, At
  <2>2. Append(ballots[r.poll], r.ballot) \in Seq(Ballot)
    BY <2>1 DEF TypeOK
  <2>3. ballots' \in [Polls -> Seq(Ballot)]
    BY <1>10, <2>1, <2>2 DEF VoteSave, TypeOK
  <2>. QED  BY <1>10, <2>3, FinishType DEF VoteSave, TypeOK
<1>11. CASE ToggleSave(w)
  <2> DEFINE s == IF r.loaded = "live" THEN "closed" ELSE "live"
  <2>1. r.poll \in Polls
    BY <1>0, <1>11, RequestFields DEF ToggleSave, At
  <2>2. [polls[r.poll] EXCEPT !.status = s] \in Poll
    <3>1. polls[r.poll] \in Poll
      BY <2>1 DEF TypeOK
    <3>2. s \in {"absent", "live", "closed"}
      OBVIOUS
    <3>. QED  BY <3>1, <3>2 DEF Poll
  <2>3. polls' = [polls EXCEPT ![r.poll] = [polls[r.poll] EXCEPT !.status = s]]
    BY <1>11 DEF ToggleSave
  <2>4. polls' \in [Polls -> Poll]
    BY <2>2, <2>3 DEF TypeOK
  <2>. QED  BY <1>11, <2>4, FinishType DEF ToggleSave, TypeOK
<1>12. CASE AudienceDelete(w)
  <2>1. r.audience \in Audiences
    BY <1>0, <1>12, RequestFields DEF AudienceDelete, At
  <2>2. [audiences[r.audience] EXCEPT !.live = FALSE] \in Audience
    BY <2>1 DEF TypeOK, Audience
  <2>3. audiences' = [audiences EXCEPT ![r.audience] =
                        [audiences[r.audience] EXCEPT !.live = FALSE]]
    BY <1>12 DEF AudienceDelete
  <2>4. audiences' \in [Audiences -> Audience]
    BY <2>2, <2>3 DEF TypeOK
  <2>. QED  BY <1>12, <2>4, FinishType DEF AudienceDelete, TypeOK
<1>. QED
  BY <1>1, <1>2, <1>3, <1>4, <1>5, <1>6, <1>7, <1>8, <1>9, <1>10, <1>11, <1>12
  DEF Worker

\* The tables, their caches and the requests always have their types.
THEOREM TypeCorrect == Spec => []TypeOK
<1>1. Init => TypeOK
  <2> SUFFICES ASSUME Init PROVE TypeOK
    OBVIOUS
  <2>1. day \in Days
    BY PollsAssumption DEF Init, Days
  <2>2. Absent \in Poll /\ Legacy \in Poll
    BY DEF Absent, Legacy, Poll, Criteria
  <2>3. polls \in [Polls -> Poll]
    BY <2>2 DEF Init
  <2>4. ballots \in [Polls -> Seq(Ballot)]
    BY DEF Init
  <2>5. audiences \in [Audiences -> Audience]
    BY DEF Init, Audience
  <2>6. request \in [Workers -> Request]
    BY DEF Init, Request
  <2>. QED  BY <2>1, <2>3, <2>4, <2>5, <2>6 DEF TypeOK
<1>2. TypeOK /\ [Next]_vars => TypeOK'
  <2> SUFFICES ASSUME TypeOK, [Next]_vars PROVE TypeOK'
    OBVIOUS
  <2>1. ASSUME NEW w \in Workers, Worker(w) PROVE TypeOK'
    BY <2>1, WorkerType
  <2>2. ASSUME NEW a \in Audiences, EditEntries(a) PROVE TypeOK'
    <3>1. PICK ms \in SUBSET Members :
             audiences' = [audiences EXCEPT ![a].members = ms]
      <4>1. PICK us \in SUBSET Members :
               \/ audiences' = [audiences EXCEPT ![a].members = @ \cup us]
               \/ audiences' = [audiences EXCEPT ![a].members = @ \ us]
        BY <2>2 DEF EditEntries
      <4>2. audiences[a].members \in SUBSET Members
        BY DEF TypeOK, Audience
      <4>3. CASE audiences' = [audiences EXCEPT ![a].members = @ \cup us]
        BY <4>2, <4>3
      <4>4. CASE audiences' = [audiences EXCEPT ![a].members = @ \ us]
        BY <4>2, <4>4
      <4>. QED  BY <4>1, <4>3, <4>4
    <3>2. audiences[a] \in Audience
      BY DEF TypeOK
    <3>3. [audiences[a] EXCEPT !.members = ms] \in Audience
      BY <3>2 DEF Audience
    <3>4. audiences' = [audiences EXCEPT ![a] = [audiences[a] EXCEPT !.members = ms]]
      BY <3>1
    <3>5. audiences' \in [Audiences -> Audience]
      BY <3>3, <3>4 DEF TypeOK
    <3>. QED  BY <2>2, <3>5 DEF EditEntries, TypeOK
  <2>3. CASE Tick
    BY <2>3, PollsAssumption DEF Tick, TypeOK, Days
  <2>4. CASE UNCHANGED vars
    BY <2>4 DEF vars, TypeOK
  <2>. QED  BY <2>1, <2>2, <2>3, <2>4 DEF Next
<1>. QED  BY <1>1, <1>2, PTL DEF Spec

-----------------------------------------------------------------------------
(***************************************************************************)
(* The invariant behind the row lock: at most one transaction holds a      *)
(* poll's row, and what it read about the poll under the lock still holds. *)
(***************************************************************************)
CanCast(p, b) ==
    /\ polls[p].status = "live"
    /\ ~HasVoted(p, b.voter)
    /\ Box!Admitted(polls[p], b.voter)
    /\ b.choice # {}
    /\ Cardinality(b.choice) <= polls[p].max
    /\ b.generation = polls[p].generation

ReadyFor(r) ==
    /\ r.pc = "vote_save" => CanCast(r.poll, r.ballot)
    /\ r.pc = "update_save" =>
          /\ polls[r.poll].status = "live"
          /\ ballots[r.poll] = <<>>
          /\ r.patch.audience = Unsent => r.audience = polls[r.poll].audience
    /\ r.pc = "toggle_save" => polls[r.poll].status # "absent"
    /\ Makes(r) => polls[r.poll].status = "absent"

LockExclusive ==
    \A v, w \in Workers :
        Holds(request[v]) /\ Holds(request[w]) /\ request[v].poll = request[w].poll
        => v = w

CreateExclusive ==
    \A v, w \in Workers :
        Makes(request[v]) /\ Makes(request[w]) /\ request[v].poll = request[w].poll
        => v = w

Ready == \A w \in Workers : ReadyFor(request[w])

AbsentEmpty ==
    \A p \in Polls :
        /\ polls[p].status = "absent" <=> polls[p].generation = 0
        /\ polls[p].status = "absent" => ballots[p] = <<>>

IInv ==
    /\ LockExclusive
    /\ CreateExclusive
    /\ Ready
    /\ AbsentEmpty
    /\ BallotsCurrent
    /\ OneBallotEach
    /\ Exclusive

\* The part of the invariant about the tables depends on nothing else.
LEMMA TablesKept ==
    ASSUME IInv, UNCHANGED <<polls, ballots>>
    PROVE  AbsentEmpty' /\ BallotsCurrent' /\ OneBallotEach' /\ Exclusive'
  BY DEF IInv, AbsentEmpty, BallotsCurrent, OneBallotEach, Exclusive

\* A request that only reads keeps the invariant, if what it stores is ready,
\* takes a lock only when it is free and a new poll only when no one has it.
LEMMA Reading ==
    ASSUME TypeOK, IInv, NEW w \in Workers, NEW r, Goto(w, r), ReadyFor(r),
           Holds(r) => ~Locked(r.poll),
           Makes(r) => \A v \in Workers \ {w} : ~Creating(v, r.poll),
           UNCHANGED <<day, polls, ballots, audiences>>
    PROVE  IInv'
<1>1. /\ request'[w] = r
      /\ \A v \in Workers \ {w} : request'[v] = request[v]
  BY DEF Goto, TypeOK
<1>2. LockExclusive'
  BY <1>1 DEF IInv, LockExclusive, Locked, Holds
<1>3. CreateExclusive'
  BY <1>1 DEF IInv, CreateExclusive, Creating, Makes
<1>4. Ready'
  <2>1. ASSUME NEW q, ReadyFor(q) PROVE ReadyFor(q)'
    BY <2>1 DEF ReadyFor, CanCast, HasVoted, Box!Admitted, Makes
  <2>. QED  BY <1>1, <2>1 DEF IInv, Ready
<1>. QED  BY <1>2, <1>3, <1>4, TablesKept DEF IInv

\* A request that writes one poll and ends keeps its own part of the
\* invariant, if no other holds that poll's row or is creating it.
LEMMA Saving ==
    ASSUME TypeOK, IInv, NEW w \in Workers, NEW p \in Polls, Finish(w),
           \A q \in Polls \ {p} : polls'[q] = polls[q] /\ ballots'[q] = ballots[q],
           polls'[p].status # "absent",
           \A v \in Workers \ {w} :
              request[v].poll = p => ~Holds(request[v]) /\ ~Makes(request[v])
    PROVE  LockExclusive' /\ CreateExclusive' /\ Ready'
<1>1. /\ request'[w] = Idle
      /\ \A v \in Workers \ {w} : request'[v] = request[v]
  BY DEF Finish, Goto, TypeOK
<1>2. ~Holds(Idle) /\ ~Makes(Idle) /\ Idle.pc # "toggle_save"
  BY DEF Holds, Makes, Idle
<1>3. LockExclusive'
  BY <1>1, <1>2 DEF IInv, LockExclusive, Holds
<1>4. CreateExclusive'
  BY <1>1, <1>2 DEF IInv, CreateExclusive, Makes
<1>5. Ready'
  <2>1. ReadyFor(Idle)'
    BY <1>2 DEF ReadyFor, Holds, Makes
  <2>2. ASSUME NEW q \in Request, ReadyFor(q),
               q.poll = p => ~Holds(q) /\ ~Makes(q)
        PROVE  ReadyFor(q)'
    <3>1. CASE q.poll = p
      BY <3>1, <2>2 DEF ReadyFor, Holds, Makes
    <3>2. CASE q.poll # p
      <4>1. q.pc \in {"vote_save", "update_save", "toggle_save"} \/ Makes(q)
            => q.poll \in Polls \ {p}
        BY <3>2, RequestFields DEF Makes
      <4>. QED
        BY <2>2, <4>1 DEF ReadyFor, CanCast, HasVoted, Box!Admitted, Makes
    <3>. QED  BY <3>1, <3>2
  <2>3. \A v \in Workers : request[v] \in Request /\ ReadyFor(request[v])
    BY DEF IInv, Ready, TypeOK
  <2>. QED  BY <1>1, <2>1, <2>2, <2>3 DEF Ready
<1>. QED  BY <1>3, <1>4, <1>5

\* A worker that holds a poll's row excludes every other from holding it or
\* creating the poll.
LEMMA Exclusion ==
    ASSUME TypeOK, IInv, NEW w \in Workers, NEW v \in Workers \ {w},
           request[v].poll = request[w].poll,
           \/ Holds(request[w])
           \/ Makes(request[w])
           \/ request[w].pc = "toggle_save" /\ ~Locked(request[w].poll)
    PROVE  ~Holds(request[v]) /\ ~Makes(request[v])
<1>1. ReadyFor(request[v]) /\ ReadyFor(request[w])
  BY DEF IInv, Ready
<1>2. CASE Holds(request[w])
  BY <1>1, <1>2 DEF IInv, LockExclusive, ReadyFor, Holds, Makes, CanCast
<1>3. CASE Makes(request[w])
  BY <1>1, <1>3 DEF IInv, CreateExclusive, ReadyFor, Holds, Makes, CanCast
<1>4. CASE request[w].pc = "toggle_save" /\ ~Locked(request[w].poll)
  BY <1>1, <1>4 DEF ReadyFor, Holds, Makes, Locked
<1>. QED  BY <1>2, <1>3, <1>4

\* What each worker's step does to the tables and to its request.
LEMMA WorkerInv ==
    ASSUME TypeOK, IInv, NEW w \in Workers, Worker(w)
    PROVE  IInv'
<1> DEFINE r == request[w]
<1>0. r \in Request /\ ReadyFor(r)
  BY DEF TypeOK, IInv, Ready
<1>1. ASSUME NEW p \in Polls, CreateValidate(w, p)
      PROVE  IInv'
  <2>1. PICK payload \in Payloads :
           Goto(w, [pc |-> "create_resolve", poll |-> p, payload |-> payload])
    BY <1>1 DEF CreateValidate
  <2> DEFINE q == [pc |-> "create_resolve", poll |-> p, payload |-> payload]
  <2>2. ReadyFor(q) /\ ~Holds(q)
    BY <1>1 DEF ReadyFor, CreateValidate, Holds
  <2>. QED  BY <1>1, <2>1, <2>2, Reading DEF CreateValidate
<1>2. ASSUME NEW p \in Polls, UpdateAuthorize(w, p)
      PROVE  IInv'
  <2>1. PICK patch \in Patches :
           Goto(w, [pc |-> "update_lock", poll |-> p, patch |-> patch])
    BY <1>2 DEF UpdateAuthorize
  <2> DEFINE q == [pc |-> "update_lock", poll |-> p, patch |-> patch]
  <2>2. ReadyFor(q) /\ ~Holds(q) /\ ~Makes(q)
    BY DEF ReadyFor, Holds, Makes
  <2>. QED  BY <1>2, <2>1, <2>2, Reading DEF UpdateAuthorize
<1>3. ASSUME NEW p \in Polls, VoteLock(w, p)
      PROVE  IInv'
  <2>1. PICK u \in Members, choice \in (SUBSET Choices) \ {{}},
             g \in 1..polls[p].generation :
           /\ Admissible(p, [voter |-> u, generation |-> g, choice |-> choice])
           /\ Goto(w, [pc |-> "vote_save", poll |-> p,
                       ballot |-> [voter |-> u, generation |-> g, choice |-> choice]])
    BY <1>3 DEF VoteLock
  <2> DEFINE b == [voter |-> u, generation |-> g, choice |-> choice]
             q == [pc |-> "vote_save", poll |-> p, ballot |-> b]
  <2>2. Box!Admitted(polls[p], b.voter)
    BY <2>1 DEF Admissible, IsInAudience, Box!Admitted
  <2>3. CanCast(p, b)
    <3>1. b.choice # {}
      BY <2>1
    <3>2. /\ polls[p].status = "live"
          /\ ~HasVoted(p, b.voter)
          /\ Cardinality(b.choice) <= polls[p].max
          /\ b.generation = polls[p].generation
      BY <2>1 DEF Admissible, OptionsValid
    <3>. QED  BY <2>2, <3>1, <3>2 DEF CanCast
  <2>4. ReadyFor(q) /\ ~Makes(q)
    BY <2>3 DEF ReadyFor, Makes
  <2>5. ~Locked(q.poll)
    BY <1>3 DEF VoteLock
  <2>. QED  BY <1>3, <2>1, <2>4, <2>5, Reading DEF VoteLock
<1>4. ASSUME NEW p \in Polls, ToggleLoad(w, p)
      PROVE  IInv'
  <2> DEFINE q == [pc |-> "toggle_save", poll |-> p, loaded |-> polls[p].status]
  <2>1. ReadyFor(q) /\ ~Holds(q) /\ ~Makes(q)
    BY <1>4 DEF ToggleLoad, ReadyFor, Holds, Makes
  <2>. QED  BY <1>4, <2>1, Reading DEF ToggleLoad
<1>5. ASSUME NEW a \in Audiences, AudienceDetect(w, a)
      PROVE  IInv'
  <2> DEFINE q == [pc |-> "audience_delete", audience |-> a]
  <2>1. ReadyFor(q) /\ ~Holds(q) /\ ~Makes(q)
    BY DEF ReadyFor, Holds, Makes
  <2>. QED  BY <1>5, <2>1, Reading DEF AudienceDetect
<1>6. CASE CreateResolve(w)
  <2> DEFINE q == [pc |-> "create_save", poll |-> r.poll, payload |-> r.payload,
                   audience |-> Resolved(r.payload.audience)]
  <2>1. r.pc = "create_resolve" /\ Makes(r) /\ Goto(w, q)
    BY <1>6 DEF CreateResolve, At, Makes
  <2>2. ReadyFor(q) /\ ~Holds(q)
    BY <1>0, <2>1 DEF ReadyFor, Holds, Makes
  <2>3. \A v \in Workers \ {w} : ~Creating(v, q.poll)
    BY <2>1 DEF IInv, CreateExclusive, Creating, Makes
  <2>. QED  BY <1>6, <2>1, <2>2, <2>3, Reading DEF CreateResolve
<1>7. CASE UpdateLock(w)
  <2> DEFINE q == [pc |-> "update_save", poll |-> r.poll, patch |-> r.patch,
                   audience |-> Effective(r.poll, r.patch)]
  <2>1. CASE StillEditable(r.poll) /\ Goto(w, q)
    <3>1. ReadyFor(q) /\ ~Makes(q)
      BY <2>1 DEF ReadyFor, StillEditable, Effective, Makes
    <3>2. ~Locked(q.poll)
      BY <1>7 DEF UpdateLock
    <3>. QED  BY <1>7, <2>1, <3>1, <3>2, Reading DEF UpdateLock
  <2>2. CASE Finish(w)
    <3>1. ReadyFor(Idle) /\ ~Holds(Idle) /\ ~Makes(Idle)
      BY DEF ReadyFor, Holds, Makes, Idle
    <3>. QED  BY <1>7, <2>2, <3>1, Reading DEF UpdateLock, Finish
  <2>. QED  BY <1>7, <2>1, <2>2 DEF UpdateLock
<1>8. CASE CreateSave(w)
  <2>1. r.pc = "create_save" /\ Makes(r) /\ r.poll \in Polls
    BY <1>0, <1>8, RequestFields DEF CreateSave, At, Makes
  <2>2. polls[r.poll].status = "absent" /\ ballots[r.poll] = <<>>
    BY <1>0, <2>1 DEF ReadyFor, IInv, AbsentEmpty
  <2>3. /\ polls'[r.poll].status = "live"
        /\ polls'[r.poll].generation = 1
        /\ \A q \in Polls \ {r.poll} : polls'[q] = polls[q]
        /\ polls'[r.poll].audience # NoAudience => polls'[r.poll].rules = {}
        /\ ballots' = ballots
        /\ Finish(w)
    BY <1>8, <2>1 DEF CreateSave, TypeOK
  <2>4. LockExclusive' /\ CreateExclusive' /\ Ready'
    BY <2>1, <2>3, Saving, Exclusion
  <2>5. AbsentEmpty' /\ BallotsCurrent' /\ OneBallotEach' /\ Exclusive'
    BY <2>2, <2>3 DEF IInv, AbsentEmpty, BallotsCurrent, OneBallotEach, Exclusive
  <2>. QED  BY <2>4, <2>5 DEF IInv
<1>9. CASE UpdateSave(w)
  <2>1. r.pc = "update_save" /\ Holds(r) /\ r.poll \in Polls
    BY <1>0, <1>9, RequestFields DEF UpdateSave, At, Holds
  <2>2. polls[r.poll].status = "live" /\ ballots[r.poll] = <<>>
    BY <1>0, <2>1 DEF ReadyFor
  <2>3. /\ polls'[r.poll].status = polls[r.poll].status
        /\ polls'[r.poll].generation = IF r.patch.options THEN polls[r.poll].generation + 1
                                       ELSE polls[r.poll].generation
        /\ polls'[r.poll].audience = r.audience
        /\ polls'[r.poll].rules = NewRules(r.poll, r.patch, r.audience)
        /\ \A q \in Polls \ {r.poll} : polls'[q] = polls[q]
        /\ ballots' = ballots
        /\ Finish(w)
    BY <1>9, <2>1 DEF UpdateSave, TypeOK
  <2>4. polls[r.poll].generation \in Nat
    BY <2>1 DEF TypeOK, Poll
  <2>5. polls[r.poll].generation # 0 /\ polls'[r.poll].generation # 0
    BY <2>1, <2>2, <2>3, <2>4 DEF IInv, AbsentEmpty
  <2>6. LockExclusive' /\ CreateExclusive' /\ Ready'
    BY <2>1, <2>2, <2>3, Saving, Exclusion
  <2>7. AbsentEmpty' /\ BallotsCurrent' /\ OneBallotEach'
    BY <2>2, <2>3, <2>5 DEF IInv, AbsentEmpty, BallotsCurrent, OneBallotEach
  <2>8. polls'[r.poll].audience # NoAudience => polls'[r.poll].rules = {}
    <3>1. CASE r.patch.audience = Unsent /\ r.patch.inline = "unsent"
      BY <1>0, <2>1, <2>3, <3>1 DEF ReadyFor, NewRules, IInv, Exclusive
    <3>2. CASE ~(r.patch.audience = Unsent /\ r.patch.inline = "unsent")
      BY <2>3, <3>2 DEF NewRules
    <3>. QED  BY <3>1, <3>2
  <2>9. Exclusive'
    BY <2>3, <2>8 DEF IInv, Exclusive
  <2>. QED  BY <2>6, <2>7, <2>9 DEF IInv
<1>10. CASE VoteSave(w)
  <2> DEFINE p == r.poll
             b == r.ballot
  <2>1. r.pc = "vote_save" /\ Holds(r) /\ p \in Polls /\ b \in Ballot
    BY <1>0, <1>10, RequestFields DEF VoteSave, At, Holds
  <2>2. CanCast(p, b)
    BY <1>0, <2>1 DEF ReadyFor
  <2>3. /\ polls' = polls
        /\ ballots'[p] = Append(ballots[p], b)
        /\ \A q \in Polls \ {p} : ballots'[q] = ballots[q]
        /\ Finish(w)
    BY <1>10, <2>1 DEF VoteSave, TypeOK
  <2>4. LockExclusive' /\ CreateExclusive' /\ Ready'
    BY <2>1, <2>2, <2>3, Saving, Exclusion DEF CanCast
  <2>5. ballots[p] \in Seq(Ballot)
    BY <2>1 DEF TypeOK
  <2>6. /\ DOMAIN ballots'[p] = 1..(Len(ballots[p]) + 1)
        /\ DOMAIN ballots[p] = 1..Len(ballots[p])
        /\ \A i \in DOMAIN ballots[p] : ballots'[p][i] = ballots[p][i]
        /\ ballots'[p][Len(ballots[p]) + 1] = b
    BY <2>1, <2>3, <2>5
  <2>7. Len(ballots[p]) \in Nat
    BY <2>5
  <2> DEFINE n == Len(ballots[p]) + 1
  <2>8. \A i \in DOMAIN ballots'[p] : i \in DOMAIN ballots[p] \/ i = n
    BY <2>6, <2>7
  <2>9. n \notin DOMAIN ballots[p] /\ ballots'[p][n] = b
    BY <2>6, <2>7
  <2>10. AbsentEmpty'
    BY <2>2, <2>3 DEF CanCast, IInv, AbsentEmpty
  <2>11. BallotsCurrent'
    <3> SUFFICES ASSUME NEW q \in Polls, NEW i \in DOMAIN ballots'[q]
                 PROVE  /\ ballots'[q][i].generation = polls[q].generation
                        /\ Cardinality(ballots'[q][i].choice) <= polls[q].max
      BY <2>3 DEF BallotsCurrent
    <3>1. \A j \in DOMAIN ballots[q] :
             /\ ballots[q][j].generation = polls[q].generation
             /\ Cardinality(ballots[q][j].choice) <= polls[q].max
      BY DEF IInv, BallotsCurrent
    <3>2. CASE q # p
      BY <2>3, <3>1, <3>2
    <3>3. CASE q = p /\ i \in DOMAIN ballots[p]
      BY <2>6, <3>1, <3>3
    <3>4. CASE q = p /\ i = n
      BY <2>2, <2>9, <3>4 DEF CanCast
    <3>. QED  BY <2>8, <3>2, <3>3, <3>4
  <2>12. OneBallotEach'
    <3> SUFFICES ASSUME NEW q \in Polls,
                        NEW i \in DOMAIN ballots'[q], NEW j \in DOMAIN ballots'[q],
                        ballots'[q][i].voter = ballots'[q][j].voter
                 PROVE  i = j
      BY DEF OneBallotEach
    <3>1. \A k, l \in DOMAIN ballots[q] : ballots[q][k].voter = ballots[q][l].voter => k = l
      BY DEF IInv, OneBallotEach
    <3>2. CASE q # p
      BY <2>3, <3>1, <3>2
    <3>3. CASE q = p
      <4>1. \A k \in DOMAIN ballots[p] : ballots[p][k].voter # b.voter
        BY <2>2 DEF CanCast, HasVoted
      <4>2. CASE i \in DOMAIN ballots[p] /\ j \in DOMAIN ballots[p]
        BY <2>6, <3>1, <3>3, <4>2
      <4>3. CASE i = n /\ j = n
        BY <4>3
      <4>4. CASE i = n /\ j \in DOMAIN ballots[p]
        BY <2>6, <2>9, <3>3, <4>1, <4>4
      <4>5. CASE i \in DOMAIN ballots[p] /\ j = n
        BY <2>6, <2>9, <3>3, <4>1, <4>5
      <4>. QED  BY <2>8, <3>3, <4>2, <4>3, <4>4, <4>5
    <3>. QED  BY <3>2, <3>3
  <2>13. Exclusive'
    BY <2>3 DEF IInv, Exclusive
  <2>. QED  BY <2>4, <2>10, <2>11, <2>12, <2>13 DEF IInv
<1>11. CASE ToggleSave(w)
  <2>1. r.pc = "toggle_save" /\ r.poll \in Polls /\ ~Locked(r.poll)
    BY <1>0, <1>11, RequestFields DEF ToggleSave, At
  <2>2. polls[r.poll].status # "absent" /\ polls[r.poll] \in Poll
    BY <1>0, <2>1 DEF ReadyFor, TypeOK
  <2>3. /\ polls'[r.poll].status \in {"closed", "live"}
        /\ polls'[r.poll].generation = polls[r.poll].generation
        /\ polls'[r.poll].max = polls[r.poll].max
        /\ polls'[r.poll].audience = polls[r.poll].audience
        /\ polls'[r.poll].rules = polls[r.poll].rules
        /\ \A q \in Polls \ {r.poll} : polls'[q] = polls[q]
        /\ ballots' = ballots
        /\ Finish(w)
    BY <1>11, <2>1, <2>2 DEF ToggleSave, TypeOK, Poll
  <2>4. LockExclusive' /\ CreateExclusive' /\ Ready'
    BY <2>1, <2>3, Saving, Exclusion
  <2>5. AbsentEmpty' /\ BallotsCurrent' /\ OneBallotEach' /\ Exclusive'
    BY <2>1, <2>2, <2>3 DEF IInv, AbsentEmpty, BallotsCurrent, OneBallotEach, Exclusive
  <2>. QED  BY <2>4, <2>5 DEF IInv
<1>12. CASE AudienceDelete(w)
  <2>1. /\ request'[w] = Idle
        /\ \A v \in Workers \ {w} : request'[v] = request[v]
        /\ UNCHANGED <<polls, ballots>>
    BY <1>12 DEF AudienceDelete, Finish, Goto, TypeOK
  <2>2. LockExclusive' /\ CreateExclusive'
    BY <2>1 DEF IInv, LockExclusive, CreateExclusive, Holds, Makes, Idle
  <2>3. Ready'
    BY <2>1 DEF IInv, Ready, ReadyFor, CanCast, HasVoted, Box!Admitted, Makes, Idle
  <2>. QED  BY <2>1, <2>2, <2>3, TablesKept DEF IInv
<1>. QED
  BY <1>1, <1>2, <1>3, <1>4, <1>5, <1>6, <1>7, <1>8, <1>9, <1>10, <1>11, <1>12
  DEF Worker

\* The invariant holds at first.
LEMMA InitInv == Init => IInv
<1> SUFFICES ASSUME Init PROVE IInv
  OBVIOUS
<1>1. \A w \in Workers : request[w] = Idle
  BY DEF Init
<1>2. LockExclusive /\ CreateExclusive /\ Ready
  BY <1>1 DEF LockExclusive, CreateExclusive, Ready, ReadyFor, Holds, Makes, Idle
<1>3. \A p \in Polls : polls[p] \in {Absent, Legacy} /\ ballots[p] = <<>>
  BY DEF Init
<1>4. AbsentEmpty
  BY <1>3 DEF AbsentEmpty, Absent, Legacy
<1>5. BallotsCurrent /\ OneBallotEach
  BY <1>3 DEF BallotsCurrent, OneBallotEach
<1>6. Exclusive
  BY <1>3 DEF Exclusive, Absent, Legacy
<1>. QED  BY <1>2, <1>4, <1>5, <1>6 DEF IInv

\* Every step keeps the invariant.
LEMMA NextInv == TypeOK /\ IInv /\ [Next]_vars => IInv'
<1> SUFFICES ASSUME TypeOK, IInv, [Next]_vars PROVE IInv'
  OBVIOUS
<1>1. ASSUME NEW w \in Workers, Worker(w) PROVE IInv'
  BY <1>1, WorkerInv
<1>2. ASSUME UNCHANGED <<polls, ballots, request>> PROVE IInv'
  <2>1. LockExclusive' /\ CreateExclusive'
    BY <1>2 DEF IInv, LockExclusive, CreateExclusive
  <2>2. Ready'
    BY <1>2 DEF IInv, Ready, ReadyFor, CanCast, HasVoted, Box!Admitted
  <2>. QED  BY <1>2, <2>1, <2>2, TablesKept DEF IInv
<1>3. CASE \E a \in Audiences : EditEntries(a)
  BY <1>2, <1>3 DEF EditEntries
<1>4. CASE Tick
  BY <1>2, <1>4 DEF Tick
<1>5. CASE UNCHANGED vars
  BY <1>2, <1>5 DEF vars
<1>. QED  BY <1>1, <1>3, <1>4, <1>5 DEF Next

\* The row lock keeps at most one transaction on a poll and what it read true.
THEOREM Invariance == Spec => []IInv
<1>1. Init => IInv
  BY InitInv
<1>2. TypeOK /\ IInv /\ [Next]_vars => IInv'
  BY NextInv
<1>. QED  BY <1>1, <1>2, TypeCorrect, PTL DEF Spec

\* No ballot ever refers to a replaced option or exceeds the selections its
\* poll allows, for any number of workers.
THEOREM BallotsStayCurrent == Spec => []BallotsCurrent
<1>1. IInv => BallotsCurrent
  BY DEF IInv
<1>. QED  BY <1>1, Invariance, PTL

\* No member ever has two ballots in a poll, for any number of workers.
THEOREM VotersAreUnique == Spec => []OneBallotEach
<1>1. IInv => OneBallotEach
  BY DEF IInv
<1>. QED  BY <1>1, Invariance, PTL

\* A poll gated by a saved audience never has rules of its own, for any
\* number of workers editing it.
THEOREM SourcesExclusive == Spec => []Exclusive
<1>1. IInv => Exclusive
  BY DEF IInv
<1>. QED  BY <1>1, Invariance, PTL

-----------------------------------------------------------------------------
(***************************************************************************)
(* The refinement                                                          *)
(***************************************************************************)
boxTerms == [p \in Polls |-> TermsOf(polls[p])]
boxOpen == [p \in Polls |-> polls[p].status = "live"]

\* The terms of a poll are its columns but for the status.
LEMMA TermsFields ==
    ASSUME NEW q \in Poll
    PROVE  /\ TermsOf(q).generation = q.generation
           /\ TermsOf(q).max = q.max
           /\ TermsOf(q).audience = q.audience
           /\ TermsOf(q).rules = q.rules
           /\ \A s : TermsOf([q EXCEPT !.status = s]) = TermsOf(q)
  BY DEF TermsOf, Poll

\* A write of one poll that leaves it live sets the terms of its box.
LEMMA SetsTerms ==
    ASSUME TypeOK, TypeOK', NEW p \in Polls,
           ballots[p] = <<>>,
           polls[p].status = "live" \/ polls[p].generation = 0,
           polls'[p].status = "live",
           polls'[p].generation # 0,
           \A q \in Polls \ {p} : polls'[q] = polls[q],
           ballots' = ballots
    PROVE  Box!SetTerms(p)
<1>1. polls[p] \in Poll /\ polls'[p] \in Poll
  BY DEF TypeOK
<1>2. boxOpen[p] \/ boxTerms[p].generation = 0
  BY <1>1, TermsFields DEF boxOpen, boxTerms
<1>3. \A q \in Polls \ {p} : boxTerms'[q] = boxTerms[q]
  BY DEF boxTerms
<1>4. boxTerms'[p].generation > 0
  BY <1>1, TermsFields DEF boxTerms, Poll
<1>5. boxOpen' = [boxOpen EXCEPT ![p] = TRUE]
  BY Zenon DEF boxOpen
<1>. QED
  BY <1>2, <1>3, <1>4, <1>5 DEF Box!SetTerms, boxTerms, boxOpen

\* Every step of a worker is a step of one box or leaves all as they are.
LEMMA WorkerBox ==
    ASSUME TypeOK, TypeOK', IInv, NEW w \in Workers, Worker(w)
    PROVE  \/ \E p \in Polls : Box!SetTerms(p) \/ Box!OpenOrClose(p) \/ Box!Cast(p)
           \/ /\ boxTerms' = boxTerms
              /\ ballots' = ballots
              /\ boxOpen' = boxOpen
<1> DEFINE r == request[w]
<1>0. r \in Request /\ ReadyFor(r)
  BY DEF TypeOK, IInv, Ready
<1>1. CASE UNCHANGED <<polls, ballots>>
  BY <1>1 DEF boxTerms, boxOpen
<1>2. CASE CreateSave(w)
  <2>1. r.pc = "create_save" /\ Makes(r) /\ r.poll \in Polls
    BY <1>0, <1>2, RequestFields DEF CreateSave, At, Makes
  <2> PICK p \in Polls : p = r.poll
    BY <2>1
  <2>2. ballots[p] = <<>> /\ polls[p].generation = 0
    BY <1>0, <2>1 DEF ReadyFor, IInv, AbsentEmpty
  <2>3. /\ polls'[p].status = "live"
        /\ polls'[p].generation = 1
        /\ \A q \in Polls \ {p} : polls'[q] = polls[q]
        /\ ballots' = ballots
    BY <1>2, <2>1 DEF CreateSave, TypeOK
  <2>4. Box!SetTerms(p)
    BY <2>2, <2>3, SetsTerms
  <2>. QED  BY <2>4
<1>3. CASE UpdateSave(w)
  <2>1. r.pc = "update_save" /\ r.poll \in Polls
    BY <1>0, <1>3, RequestFields DEF UpdateSave, At
  <2> PICK p \in Polls : p = r.poll
    BY <2>1
  <2>2. polls[p].status = "live" /\ ballots[p] = <<>>
    BY <1>0, <2>1 DEF ReadyFor
  <2>3. /\ polls'[p].status = polls[p].status
        /\ polls'[p].generation = IF r.patch.options THEN polls[p].generation + 1
                                       ELSE polls[p].generation
        /\ \A q \in Polls \ {p} : polls'[q] = polls[q]
        /\ ballots' = ballots
    BY <1>3, <2>1 DEF UpdateSave, TypeOK
  <2>4. polls[p].generation \in Nat /\ polls[p].generation # 0
    BY <2>1, <2>2 DEF TypeOK, Poll, IInv, AbsentEmpty
  <2>5. polls'[p].generation # 0
    BY <2>3, <2>4
  <2>6. Box!SetTerms(p)
    BY <2>2, <2>3, <2>5, SetsTerms
  <2>. QED  BY <2>6
<1>4. CASE VoteSave(w)
  <2>0. r.pc = "vote_save" /\ r.poll \in Polls /\ r.ballot \in Ballot
    BY <1>0, <1>4, RequestFields DEF VoteSave, At
  <2>1. PICK p \in Polls, b \in Ballot : r.pc = "vote_save" /\ p = r.poll /\ b = r.ballot
    BY <2>0
  <2>2. CanCast(p, b) /\ polls[p] \in Poll
    BY <1>0, <2>1 DEF ReadyFor, TypeOK
  <2>3. boxTerms[p] = TermsOf(polls[p]) /\ (boxOpen[p] <=> polls[p].status = "live")
    BY <2>1 DEF boxTerms, boxOpen
  <2>4. b = [voter |-> b.voter, generation |-> boxTerms[p].generation, choice |-> b.choice]
    BY <2>1, <2>2, <2>3, TermsFields DEF CanCast, Ballot
  <2>5. Box!Admitted(boxTerms[p], b.voter)
    BY <2>2, <2>3, TermsFields DEF CanCast, Box!Admitted
  <2>6. /\ b.voter \in Members
        /\ b.choice \in (SUBSET Choices) \ {{}}
        /\ \A i \in DOMAIN ballots[p] : ballots[p][i].voter # b.voter
        /\ Cardinality(b.choice) <= boxTerms[p].max
    BY <2>1, <2>2, <2>3, TermsFields DEF CanCast, HasVoted, Ballot
  <2>7. ballots' = [ballots EXCEPT ![p] = Append(@, b)] /\ polls' = polls
    BY <1>4, <2>1 DEF VoteSave
  <2>8. boxOpen[p] /\ boxTerms' = boxTerms /\ boxOpen' = boxOpen
    BY <2>2, <2>3, <2>7 DEF CanCast, boxTerms, boxOpen
  <2>9. ballots' = [ballots EXCEPT ![p] =
           Append(@, [voter |-> b.voter, generation |-> boxTerms[p].generation,
                      choice |-> b.choice])]
    BY <2>4, <2>7
  <2>10. Box!Cardinality(b.choice) = Cardinality(b.choice)
    BY DEF Box!Cardinality, Cardinality
  <2>11. Box!Cast(p)
    BY <2>5, <2>6, <2>8, <2>9, <2>10 DEF Box!Cast, boxTerms, boxOpen
  <2>. QED  BY <2>11
<1>5. CASE ToggleSave(w)
  <2> DEFINE s == IF r.loaded = "live" THEN "closed" ELSE "live"
  <2>0. r.pc = "toggle_save" /\ r.poll \in Polls
    BY <1>0, <1>5, RequestFields DEF ToggleSave, At
  <2>1. PICK p \in Polls : r.pc = "toggle_save" /\ p = r.poll
    BY <2>0
  <2>2. polls[p] \in Poll /\ polls[p].status # "absent"
    BY <1>0, <2>1 DEF ReadyFor, TypeOK
  <2>3. polls' = [polls EXCEPT ![p] = [polls[p] EXCEPT !.status = s]] /\ ballots' = ballots
    BY <1>5, <2>1 DEF ToggleSave
  <2>4. polls'[p] = [polls[p] EXCEPT !.status = s]
    BY <2>1, <2>3 DEF TypeOK
  <2>5. boxTerms' = boxTerms
    <3>1. TermsOf(polls'[p]) = TermsOf(polls[p])
      BY <2>2, <2>4, TermsFields
    <3>2. \A q \in Polls : TermsOf(polls'[q]) = TermsOf(polls[q])
      BY <2>3, <3>1 DEF TypeOK
    <3>. QED  BY <3>2 DEF boxTerms
  <2>6. boxTerms[p].generation > 0
    <3>1. polls[p].generation \in Nat /\ polls[p].generation # 0
      BY <2>1, <2>2 DEF IInv, AbsentEmpty, Poll
    <3>. QED  BY <2>1, <2>2, <3>1, TermsFields DEF boxTerms
  <2>7. \A q \in Polls \ {p} : polls'[q] = polls[q]
    BY <2>3 DEF TypeOK
  <2>8. polls'[p].status = s /\ s \in {"live", "closed"}
    BY <2>2, <2>4 DEF Poll
  <2>9. CASE polls[p].status = s
    <3>1. boxOpen' = boxOpen
      BY <2>7, <2>8, <2>9, Zenon DEF boxOpen
    <3>. QED  BY <2>3, <2>5, <3>1
  <2>10. CASE polls[p].status # s
    <3>1. (polls'[p].status = "live") <=> ~(polls[p].status = "live")
      BY <2>2, <2>8, <2>10 DEF Poll
    <3>2. boxOpen' = [boxOpen EXCEPT ![p] = ~@]
      BY <2>7, <3>1, Zenon DEF boxOpen
    <3>3. Box!OpenOrClose(p)
      BY <2>3, <2>5, <2>6, <3>2 DEF Box!OpenOrClose, boxTerms, boxOpen
    <3>. QED  BY <3>3
  <2>. QED  BY <2>9, <2>10
<1>. QED
  BY <1>1, <1>2, <1>3, <1>4, <1>5
  DEF Worker, CreateValidate, UpdateAuthorize, VoteLock, ToggleLoad, AudienceDetect,
      CreateResolve, UpdateLock, AudienceDelete

\* Every step of the system is a step of one box or leaves all as they are.
LEMMA NextBox ==
    TypeOK /\ TypeOK' /\ IInv /\ [Next]_vars => [Box!Next]_<<boxTerms, ballots, boxOpen>>
<1> SUFFICES ASSUME TypeOK, TypeOK', IInv, [Next]_vars
             PROVE  [Box!Next]_<<boxTerms, ballots, boxOpen>>
  OBVIOUS
<1>1. ASSUME NEW w \in Workers, Worker(w)
      PROVE  [Box!Next]_<<boxTerms, ballots, boxOpen>>
  BY <1>1, WorkerBox DEF Box!Next
<1>2. CASE UNCHANGED <<polls, ballots>>
  BY <1>2 DEF boxTerms, boxOpen
<1>. QED
  BY <1>1, <1>2 DEF Next, EditEntries, Tick, vars

\* The polls, voted in and edited by any number of workers at a time, are
\* ballot boxes: an edit meets an empty box, and a ballot is cast once per
\* voter, under the terms in force, in a poll that is open.
THEOREM Refinement == Spec => ImplementsBox
<1>1. Init => Box!Init
  <2> SUFFICES ASSUME Init PROVE Box!Init
    OBVIOUS
  <2>1. ballots = [p \in Polls |-> <<>>]
    BY DEF Init
  <2>2. ASSUME NEW p \in Polls, boxOpen[p] PROVE boxTerms[p].generation > 0
    <3>1. polls[p] \in {Absent, Legacy}
      BY <2>2 DEF Init
    <3>2. polls[p].status = "live"
      BY <2>2 DEF boxOpen
    <3>3. polls[p] = Legacy
      BY <3>1, <3>2 DEF Absent
    <3>4. TermsOf(Legacy).generation = 1
      BY DEF TermsOf, Legacy
    <3>. QED  BY <2>2, <3>3, <3>4 DEF boxTerms
  <2>. QED  BY <2>1, <2>2 DEF Box!Init, boxTerms, boxOpen
<1>2. TypeOK /\ TypeOK' /\ IInv /\ [Next]_vars => [Box!Next]_(Box!boxVars)
  BY NextBox DEF Box!boxVars, boxTerms, boxOpen
<1>. QED
  BY <1>1, <1>2, TypeCorrect, Invariance, PTL DEF Spec, ImplementsBox, Box!Spec

\* A poll with a ballot is never edited, whatever the interleaving.
THEOREM VotesFreeze == Spec => FrozenByVotes
<1>1. TypeOK /\ TypeOK' /\ IInv /\ [Next]_vars =>
         [\A p \in Polls : ballots[p] # <<>> => TermsOf(polls'[p]) = TermsOf(polls[p])]_vars
  <2> SUFFICES ASSUME TypeOK, TypeOK', IInv, [Next]_vars,
                      NEW p \in Polls, ballots[p] # <<>>
               PROVE  TermsOf(polls'[p]) = TermsOf(polls[p])
    OBVIOUS
  <2>1. boxTerms[p] = TermsOf(polls[p]) /\ boxTerms'[p] = TermsOf(polls'[p])
    BY DEF boxTerms
  <2>2. [Box!Next]_<<boxTerms, ballots, boxOpen>>
    BY NextBox
  <2>3. ASSUME NEW q \in Polls, Box!SetTerms(q)
        PROVE  boxTerms'[p] = boxTerms[p]
    BY <2>3 DEF Box!SetTerms, boxTerms
  <2>4. ASSUME NEW q \in Polls, Box!OpenOrClose(q) \/ Box!Cast(q)
        PROVE  boxTerms'[p] = boxTerms[p]
    BY <2>4 DEF Box!OpenOrClose, Box!Cast, boxTerms
  <2>5. boxTerms'[p] = boxTerms[p]
    BY <2>2, <2>3, <2>4 DEF Box!Next
  <2>. QED  BY <2>1, <2>5
<1>. QED
  BY <1>1, TypeCorrect, Invariance, PTL DEF Spec, FrozenByVotes

-----------------------------------------------------------------------------
(***************************************************************************)
(* Allowed voters                                                          *)
(***************************************************************************)
\* A poll that does not exist yet has no rules that its creation could drop.
AbsentBare == \A p \in Polls : polls[p].status = "absent" => polls[p].rules = {}

KeepsLegacy(p) ==
    "legacy" \in polls[p].rules =>
        "legacy" \in polls'[p].rules \/ polls'[p].audience # NoAudience

\* Each step keeps the allowed voters of a poll, or gates it by an audience.
LEMMA LegacyStep ==
    ASSUME TypeOK, IInv, AbsentBare, [Next]_vars
    PROVE  AbsentBare' /\ \A p \in Polls : KeepsLegacy(p)
<1>1. CASE UNCHANGED polls
  BY <1>1 DEF AbsentBare, KeepsLegacy
<1>2. ASSUME NEW w \in Workers, CreateSave(w) \/ UpdateSave(w) \/ ToggleSave(w)
      PROVE  AbsentBare' /\ \A p \in Polls : KeepsLegacy(p)
  <2> DEFINE r == request[w]
             p == r.poll
  <2>0. r \in Request /\ ReadyFor(r)
    BY DEF TypeOK, IInv, Ready
  <2>1. p \in Polls
    BY <1>2, <2>0, RequestFields DEF CreateSave, UpdateSave, ToggleSave, At
  <2>2. /\ \A q \in Polls \ {p} : polls'[q] = polls[q]
        /\ polls'[p].status # "absent"
    <3>1. CASE CreateSave(w)
      BY <2>1, <3>1 DEF CreateSave, TypeOK
    <3>2. CASE UpdateSave(w)
      BY <2>0, <2>1, <3>2 DEF UpdateSave, TypeOK, ReadyFor, At
    <3>3. CASE ToggleSave(w)
      BY <2>1, <3>3 DEF ToggleSave, TypeOK, Poll
    <3>. QED  BY <1>2, <3>1, <3>2, <3>3
  <2>3. KeepsLegacy(p)
    <3>1. CASE CreateSave(w)
      BY <2>0, <2>1, <3>1 DEF CreateSave, At, Makes, ReadyFor, AbsentBare, KeepsLegacy
    <3>2. CASE UpdateSave(w)
      <4>1. /\ polls'[p].audience = r.audience
            /\ polls'[p].rules = NewRules(p, r.patch, r.audience)
        BY <2>1, <3>2 DEF UpdateSave, TypeOK
      <4>. QED  BY <4>1 DEF NewRules, Criteria, KeepsLegacy
    <3>3. CASE ToggleSave(w)
      BY <2>1, <3>3 DEF ToggleSave, TypeOK, Poll, KeepsLegacy
    <3>. QED  BY <1>2, <3>1, <3>2, <3>3
  <2>4. AbsentBare'
    BY <2>1, <2>2 DEF AbsentBare
  <2>. QED  BY <2>2, <2>3, <2>4 DEF KeepsLegacy
<1>. QED
  BY <1>1, <1>2
     DEF Next, Worker, CreateValidate, UpdateAuthorize, VoteLock, ToggleLoad,
         AudienceDetect, CreateResolve, UpdateLock, VoteSave, AudienceDelete,
         EditEntries, Tick, vars

\* No edit, and no interleaving of edits, drops the allowed voters of an old
\* poll but for a saved audience, however many workers there are.
THEOREM AllowedVotersStay == Spec => LegacyKept
<1>1. Init => AbsentBare
  BY DEF Init, AbsentBare, Absent, Legacy
<1>2. TypeOK /\ IInv /\ AbsentBare /\ [Next]_vars => AbsentBare'
  BY LegacyStep
<1>3. TypeOK /\ IInv /\ AbsentBare /\ [Next]_vars =>
         [\A p \in Polls : "legacy" \in polls[p].rules =>
             "legacy" \in polls'[p].rules \/ polls'[p].audience # NoAudience]_vars
  BY LegacyStep DEF KeepsLegacy
<1>. QED
  BY <1>1, <1>2, <1>3, TypeCorrect, Invariance, PTL DEF Spec, LegacyKept
=============================================================================
