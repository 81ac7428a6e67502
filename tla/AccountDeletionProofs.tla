----------------------- MODULE AccountDeletionProofs -----------------------
(***************************************************************************)
(* Proofs about AccountDeletion, for every set of accounts, workers and    *)
(* queue workers, every page size and every number of faults.              *)
(***************************************************************************)
EXTENDS AccountDeletion, FiniteSetTheorems, TLAPS

USE DeletionAssumption

-----------------------------------------------------------------------------
(***************************************************************************)
(* Types                                                                   *)
(***************************************************************************)
LEMMA NoSweepType == NoSweep \in Sweep
BY DEF NoSweep, Sweep

\* Setting one sweep's record keeps their type.
LEMMA SetSweepType ==
    ASSUME TypeOK, NEW q \in Sweepers, NEW s \in Sweep, SetSweep(q, s)
    PROVE  sweep' \in [Sweepers -> Sweep]
BY DEF TypeOK, SetSweep

\* So does setting one worker's record.
LEMMA GotoType ==
    ASSUME TypeOK, NEW w \in Workers, NEW r \in Request, Goto(w, r)
    PROVE  request' \in [Workers -> Request]
BY DEF TypeOK, Goto

LEMMA FinishType ==
    ASSUME TypeOK, NEW w \in Workers, Finish(w)
    PROVE  request' \in [Workers -> Request]
BY DEF TypeOK, Goto, Finish, Request, Idle

\* The record after an account of the batch is dealt with.
LEMMA PassedType ==
    ASSUME NEW s \in Sweep, NEW u \in Users, NEW failed \in SUBSET Users
    PROVE  Passed(s, u, failed) \in Sweep
BY DEF Passed, Sweep

LEMMA SkippedType ==
    ASSUME NEW s \in Sweep, NEW u \in Users
    PROVE  Skipped(s, u) \in Sweep /\ Handled(s, u) \in Sweep
<1>1. s.failed \in SUBSET Users /\ s.failed \cup {u} \in SUBSET Users
  BY DEF Sweep
<1>. QED  BY <1>1, PassedType DEF Skipped, Handled

LEMMA ServeType ==
    ASSUME TypeOK, NEW w \in Workers, Serve(w)
    PROVE  TypeOK'
<1>1. ASSUME NEW u \in Users, RequestLoad(w, u) PROVE TypeOK'
  <2>1. [pc |-> "request_save", actor |-> u] \in Request
    BY DEF Request
  <2>2. request' \in [Workers -> Request]
    BY <1>1, <2>1, GotoType DEF RequestLoad
  <2>. QED  BY <1>1, <2>2 DEF RequestLoad, TypeOK, tables, apple, jobs
<1>2. ASSUME NEW u \in Users, CancelLoad(w, u) PROVE TypeOK'
  <2>1. [pc |-> "cancel_save", actor |-> u] \in Request
    BY DEF Request
  <2>2. request' \in [Workers -> Request]
    BY <1>2, <2>1, GotoType DEF CancelLoad
  <2>. QED  BY <1>2, <2>2 DEF CancelLoad, TypeOK, tables, apple, jobs
<1>3. ASSUME NEW u \in Users, NEW x \in Days \cup {None}
      PROVE  Saved(u, x) \in [Users -> Days \cup {None}]
  BY DEF Saved, TypeOK
<1>4. CASE RequestSave(w)
  <2>1. request[w].actor \in Users
    BY <1>4 DEF RequestSave, TypeOK, Request, At, Idle
  <2>2. day + GraceDays \in Days
    BY DEF TypeOK, Days
  <2>. QED  BY <1>3, <1>4, <2>1, <2>2, FinishType DEF RequestSave, TypeOK, apple, jobs
<1>5. CASE CancelSave(w)
  <2>1. request[w].actor \in Users
    BY <1>5 DEF CancelSave, TypeOK, Request, At, Idle
  <2>. QED  BY <1>3, <1>5, <2>1, FinishType DEF CancelSave, TypeOK, apple, jobs
<1>6. ASSUME NEW r \in Writes, ActLoad(w, r) PROVE TypeOK'
  <2>1. [pc |-> "act_save", row |-> r] \in Request
    BY DEF Request
  <2>2. request' \in [Workers -> Request]
    BY <1>6, <2>1, GotoType DEF ActLoad
  <2>. QED  BY <1>6, <2>2 DEF ActLoad, TypeOK, tables, apple, jobs
<1>7. CASE ActSave(w)
  <2>1. request[w].row \in Writes
    BY <1>7 DEF ActSave, TypeOK, Request, At, Idle
  <2>. QED  BY <1>7, <2>1, FinishType DEF ActSave, TypeOK, apple, jobs
<1>. QED  BY <1>1, <1>2, <1>4, <1>5, <1>6, <1>7 DEF Serve

LEMMA SweepType ==
    ASSUME TypeOK, NEW q \in Sweepers, SweepOn(q) \/ SweepCrash(q)
    PROVE  TypeOK'
<1>. DEFINE s == sweep[q]
<1>0. s \in Sweep
  BY DEF TypeOK
<1>1. CASE SweepStart(q)
  <2>1. [NoSweep EXCEPT !.pc = "page", !.cutoff = day] \in Sweep
    BY DEF NoSweep, Sweep, TypeOK
  <2>2. sweep' \in [Sweepers -> Sweep]
    BY <1>1, <2>1, SetSweepType DEF SweepStart
  <2>3. queue' \in 0..MaxQueued
    BY <1>1 DEF SweepStart, TypeOK
  <2>. QED  BY <1>1, <2>2, <2>3 DEF SweepStart, TypeOK, tables, apple
<1>2. CASE SweepPage(q)
  <2>. DEFINE found == After(s.cutoff, s.last)
  <2>0. found \subseteq Users
    BY DEF After, Expired, TypeOK
  <2>1. CASE SetSweep(q, [s EXCEPT !.pc = "done"])
    <3>1. [s EXCEPT !.pc = "done"] \in Sweep
      BY <1>0 DEF Sweep
    <3>2. sweep' \in [Sweepers -> Sweep]
      BY <2>1, <3>1, SetSweepType
    <3>. QED  BY <1>2, <3>2 DEF SweepPage, TypeOK, tables, apple
  <2>2. ASSUME NEW page \in SUBSET found, NEW l \in found,
               SetSweep(q, [s EXCEPT !.pc = "revoke", !.batch = page, !.last = l,
                                     !.more = Cardinality(page) = ChunkSize])
        PROVE  TypeOK'
    <3>. DEFINE more == Cardinality(page) = ChunkSize
    <3>1. l \in Nat /\ page \in SUBSET Users /\ more \in BOOLEAN
      BY <2>0
    <3>. HIDE DEF more
    <3>2. [s EXCEPT !.pc = "revoke", !.batch = page, !.last = l, !.more = more] \in Sweep
      BY <1>0, <3>1 DEF Sweep
    <3>3. sweep' \in [Sweepers -> Sweep]
      BY <2>2, <3>2, SetSweepType DEF more
    <3>. QED  BY <1>2, <3>3 DEF SweepPage, TypeOK, tables, apple
  <2>. QED  BY <1>2, <2>1, <2>2 DEF SweepPage
<1>3. ASSUME NEW u \in Users, SweepRevoke(q, u) PROVE TypeOK'
  <2>1. [s EXCEPT !.pc = "erase", !.read = stored[u]] \in Sweep
    BY <1>0 DEF Sweep, TypeOK
  <2>2. sweep' \in [Sweepers -> Sweep]
    BY <1>3, <2>1, SetSweepType DEF SweepRevoke
  <2>3. authorized' \subseteq Tokens
    BY <1>3 DEF SweepRevoke, TypeOK
  <2>. QED  BY <1>3, <2>2, <2>3 DEF SweepRevoke, TypeOK, tables
<1>4. ASSUME NEW u \in Users, SweepRevokeFails(q, u) PROVE TypeOK'
  <2>1. sweep' \in [Sweepers -> Sweep]
    BY <1>0, <1>4, SkippedType, SetSweepType DEF SweepRevokeFails, Abandoned
  <2>2. authorized' \subseteq Tokens
    BY <1>4 DEF SweepRevokeFails, TypeOK
  <2>3. faults' \in 0..MaxFaults
    BY <1>4 DEF SweepRevokeFails, TypeOK
  <2>. QED  BY <1>4, <2>1, <2>2, <2>3 DEF SweepRevokeFails, TypeOK, tables
<1>5. ASSUME NEW u \in Users, SweepErase(q, u) PROVE TypeOK'
  <2>1. sweep' \in [Sweepers -> Sweep]
    BY <1>0, <1>5, SkippedType, SetSweepType DEF SweepErase
  <2>2. live' \subseteq Users /\ rows' \subseteq Writes
    BY <1>5 DEF SweepErase, TypeOK
  <2>3. stored' \in [Users -> SUBSET Tokens]
    BY <1>5 DEF SweepErase, TypeOK
  <2>. QED  BY <1>5, <2>1, <2>2, <2>3 DEF SweepErase, TypeOK
<1>6. ASSUME NEW u \in Users, SweepEraseFails(q, u) PROVE TypeOK'
  <2>1. sweep' \in [Sweepers -> Sweep]
    BY <1>0, <1>6, SkippedType, SetSweepType DEF SweepEraseFails
  <2>2. faults' \in 0..MaxFaults
    BY <1>6 DEF SweepEraseFails, TypeOK
  <2>. QED  BY <1>6, <2>1, <2>2 DEF SweepEraseFails, TypeOK, tables, apple
<1>7. CASE SweepEnd(q)
  <2>1. sweep' \in [Sweepers -> Sweep]
    BY <1>7, NoSweepType, SetSweepType DEF SweepEnd
  <2>. QED  BY <1>7, <2>1 DEF SweepEnd, TypeOK, tables, apple
<1>8. CASE SweepCrash(q)
  <2>1. sweep' \in [Sweepers -> Sweep]
    BY <1>8, NoSweepType, SetSweepType DEF SweepCrash
  <2>2. faults' \in 0..MaxFaults
    BY <1>8 DEF SweepCrash, TypeOK
  <2>. QED  BY <1>8, <2>1, <2>2 DEF SweepCrash, TypeOK, tables, apple
<1>. QED  BY <1>1, <1>2, <1>3, <1>4, <1>5, <1>6, <1>7, <1>8 DEF SweepOn

LEMMA NextType == TypeOK /\ [Next]_vars => TypeOK'
<1> SUFFICES ASSUME TypeOK, [Next]_vars PROVE TypeOK'
  OBVIOUS
<1>1. ASSUME NEW w \in Workers, Serve(w) PROVE TypeOK'
  BY <1>1, ServeType
<1>2. ASSUME NEW u \in AppleUsers, SignIn(u) PROVE TypeOK'
  <2>1. u \in Users
    OBVIOUS
  <2>2. PICK t \in Tokens : /\ authorized' = authorized \cup {t}
                            /\ stored' = [stored EXCEPT ![u] = @ \cup {t}]
    BY <1>2 DEF SignIn
  <2>3. stored[u] \cup {t} \in SUBSET Tokens
    BY <2>1 DEF TypeOK
  <2>4. authorized' \subseteq Tokens /\ stored' \in [Users -> SUBSET Tokens]
    BY <2>2, <2>3 DEF TypeOK
  <2>. QED  BY <1>2, <2>4 DEF SignIn, TypeOK, tables, jobs
<1>3. ASSUME NEW q \in Sweepers, SweepOn(q) \/ SweepCrash(q) PROVE TypeOK'
  BY <1>3, SweepType
<1>4. CASE Night
  <2>1. day' \in 0..LastDay /\ queue' \in 0..MaxQueued
    BY <1>4 DEF Night, TypeOK
  <2>2. lapsed' \subseteq Users
    BY <1>4 DEF Night, TypeOK
  <2>. QED  BY <1>4, <2>1, <2>2 DEF Night, TypeOK, tables, apple
<1>5. CASE UNCHANGED vars
  BY <1>5 DEF vars, tables, apple, jobs, TypeOK
<1>. QED  BY <1>1, <1>2, <1>3, <1>4, <1>5 DEF Next

\* Accounts, tokens, requests and sweeps have their types in every run.
THEOREM TypeCorrect == Spec => []TypeOK
<1>1. Init => TypeOK
  BY NoSweepType DEF Init, TypeOK, Days, Request, Idle
<1>2. TypeOK /\ [Next]_vars => TypeOK'
  BY NextType
<1>. QED  BY <1>1, <1>2, PTL DEF Spec

-----------------------------------------------------------------------------
(***************************************************************************)
(* The sweep: what it holds has lapsed, and what it has not yet seen comes *)
(* after the last id it saw.                                               *)
(***************************************************************************)
Covered(s, u) ==
    \/ u \in s.failed
    \/ u \in s.batch
    \/ /\ u > s.last
       /\ s.pc = "page" \/ (s.pc \in {"revoke", "erase"} /\ s.more)

SweepSound(s) ==
    /\ s.cutoff <= day
    /\ s.batch \subseteq lapsed
    /\ s.pc \in {"idle", "page", "done"} => s.batch = {}
    /\ s.pc # "idle" => \A u \in Expired(s.cutoff) : Covered(s, u)

DueLapsed == Expired(day) \subseteq lapsed

SweepInv ==
    /\ DueLapsed
    /\ \A q \in Sweepers : SweepSound(sweep[q])
    /\ ErasedServedGrace

\* No step makes an account due on a day already past: a deletion requested
\* now is due at the end of its grace period.
LEMMA ExpiredShrinks ==
    ASSUME TypeOK, TypeOK', [Next]_vars, NEW c \in Int, c <= day
    PROVE  Expired(c)' \subseteq Expired(c)
<1>1. ASSUME NEW w \in Workers, Serve(w) PROVE Expired(c)' \subseteq Expired(c)
  <2>1. CASE UNCHANGED <<live, scheduled>>
    BY <2>1 DEF Expired, Pending
  <2>2. CASE RequestSave(w)
    <3>1. request[w].actor \in Users
      BY <2>2 DEF RequestSave, TypeOK, Request, At, Idle
    <3>2. day \in Int /\ day + GraceDays > c
      BY DEF TypeOK
    <3>3. live' = live /\ scheduled \in [Users -> Days \cup {None}] /\ live \subseteq Users
      BY <2>2 DEF RequestSave, TypeOK
    <3>4. scheduled' = scheduled
          \/ scheduled' = [scheduled EXCEPT ![request[w].actor] = day + GraceDays]
      BY <2>2 DEF RequestSave, Saved
    <3>. SUFFICES ASSUME NEW u \in live, scheduled'[u] # None, scheduled'[u] <= c
                  PROVE  scheduled'[u] = scheduled[u]
      BY <3>3 DEF Expired, Pending
    <3>5. CASE scheduled' = scheduled
      BY <3>5
    <3>6. CASE scheduled' = [scheduled EXCEPT ![request[w].actor] = day + GraceDays]
      <4>1. scheduled'[u] # day + GraceDays
        BY <3>2
      <4>. QED  BY <3>3, <3>6, <4>1
    <3>. QED  BY <3>4, <3>5, <3>6
  <2>3. CASE CancelSave(w)
    <3>1. scheduled' = scheduled
          \/ scheduled' = [scheduled EXCEPT ![request[w].actor] = None]
      BY <2>3 DEF CancelSave, Saved
    <3>2. live' = live /\ scheduled \in [Users -> Days \cup {None}] /\ live \subseteq Users
      BY <2>3 DEF CancelSave, TypeOK
    <3>. QED  BY <3>1, <3>2 DEF Expired, Pending
  <2>. QED
    BY <1>1, <2>1, <2>2, <2>3 DEF Serve, RequestLoad, CancelLoad, ActLoad, ActSave, tables
<1>2. ASSUME NEW u \in AppleUsers, SignIn(u) PROVE Expired(c)' \subseteq Expired(c)
  BY <1>2 DEF SignIn, tables, Expired, Pending
<1>3. ASSUME NEW q \in Sweepers, SweepOn(q) \/ SweepCrash(q)
      PROVE  Expired(c)' \subseteq Expired(c)
  <2>1. live' \subseteq live /\ scheduled' = scheduled
    BY <1>3 DEF SweepOn, SweepCrash, SweepStart, SweepPage, SweepRevoke,
                SweepRevokeFails, SweepErase, SweepEraseFails, SweepEnd, tables
  <2>. QED  BY <2>1 DEF Expired, Pending
<1>4. CASE Night
  BY <1>4 DEF Night, tables, Expired, Pending
<1>5. CASE UNCHANGED vars
  BY <1>5 DEF vars, tables, Expired, Pending
<1>. QED  BY <1>1, <1>2, <1>3, <1>4, <1>5 DEF Next

\* Time and the record of lapsed accounts only grow, and accounts that are
\* due are on that record.
LEMMA TimeGrows ==
    ASSUME TypeOK, TypeOK', DueLapsed, [Next]_vars
    PROVE  day <= day' /\ lapsed \subseteq lapsed' /\ DueLapsed'
<1>1. CASE Night
  <2>1. Expired(day)' \subseteq lapsed'
    BY <1>1 DEF Night, tables, Expired, Pending
  <2>2. day <= day'
    BY <1>1 DEF Night, TypeOK
  <2>. QED  BY <1>1, <2>1, <2>2 DEF Night, DueLapsed
<1>2. CASE UNCHANGED <<day, lapsed>>
  <2>1. day \in Int
    BY DEF TypeOK
  <2>2. Expired(day)' \subseteq Expired(day)
    BY <1>2, <2>1, ExpiredShrinks DEF Expired, Pending
  <2>. QED  BY <1>2, <2>1, <2>2 DEF DueLapsed
<1>3. Night \/ UNCHANGED <<day, lapsed>>
  BY DEF Next, vars, Serve, RequestLoad, RequestSave, CancelLoad, CancelSave,
         ActLoad, ActSave, SignIn, SweepOn, SweepStart, SweepPage, SweepRevoke,
         SweepRevokeFails, SweepErase, SweepEraseFails, SweepEnd, SweepCrash
<1>. QED  BY <1>1, <1>2, <1>3

\* A sound record stays sound while others act.
LEMMA SoundStays ==
    ASSUME TypeOK, TypeOK', DueLapsed, [Next]_vars,
           NEW s \in Sweep, SweepSound(s)
    PROVE  SweepSound(s)'
<1>1. s.cutoff \in Int /\ day \in Int /\ day' \in Int
  BY DEF Sweep, TypeOK
<1>2. day <= day' /\ lapsed \subseteq lapsed'
  BY TimeGrows
<1>3. Expired(s.cutoff)' \subseteq Expired(s.cutoff)
  BY <1>1, ExpiredShrinks DEF SweepSound
<1>. QED  BY <1>1, <1>2, <1>3 DEF SweepSound, Covered

\* Dealing with one account of the batch uncovers no other.
LEMMA PassedCovers ==
    ASSUME NEW s \in Sweep, SweepSound(s), s.pc \in {"revoke", "erase"},
           NEW u \in s.batch, NEW failed \in SUBSET Users, s.failed \subseteq failed
    PROVE  LET r == Passed(s, u, failed)
           IN  /\ r \in Sweep
               /\ r.cutoff = s.cutoff /\ r.failed = failed
               /\ r.batch \subseteq s.batch
               /\ r.pc \in {"idle", "page", "done"} => r.batch = {}
               /\ \A v \in Expired(s.cutoff) : v # u => Covered(r, v)
<1>. DEFINE r == Passed(s, u, failed)
<1>0. u \in Users
  BY DEF Sweep
<1>1. r \in Sweep
  BY <1>0, PassedType
<1>2. /\ r.cutoff = s.cutoff /\ r.failed = failed /\ r.last = s.last /\ r.more = s.more
      /\ r.batch = s.batch \ {u}
      /\ r.pc = IF s.batch # {u} THEN "revoke" ELSE IF s.more THEN "page" ELSE "done"
  BY DEF Passed, Sweep
<1>. HIDE DEF r
<1>3. r.pc \in {"idle", "page", "done"} => r.batch = {}
  BY <1>2
<1>4. ASSUME NEW v \in Expired(s.cutoff), v # u PROVE Covered(r, v)
  <2>1. Covered(s, v)
    BY <1>4 DEF SweepSound
  <2>. QED  BY <1>2, <1>4, <2>1 DEF Covered
<1>. QED  BY <1>1, <1>2, <1>3, <1>4 DEF r

\* Nor does erasing it: no sweep has to deal with it any more.
LEMMA ErasedSound ==
    ASSUME TypeOK, NEW q \in Sweepers, NEW u \in Users, SweepErase(q, u),
           NEW r \in Sweep, SetSweep(q, r),
           r.cutoff <= day, r.batch \subseteq lapsed,
           r.pc \in {"idle", "page", "done"} => r.batch = {},
           \A v \in Expired(r.cutoff) : v # u => Covered(r, v)
    PROVE  SweepSound(sweep[q])'
<1>1. Expired(r.cutoff)' \subseteq Expired(r.cutoff) \ {u}
  BY DEF SweepErase, Expired, Pending
<1>2. day' = day /\ lapsed' = lapsed
  BY DEF SweepErase
<1>3. SweepSound(r)'
  BY <1>1, <1>2 DEF SweepSound, Covered
<1>4. sweep'[q] = r
  BY DEF SetSweep, TypeOK
<1>. QED  BY <1>3, <1>4 DEF SweepSound, Covered

\* A sweep's own step keeps its record sound.
LEMMA SweepStaysSound ==
    ASSUME TypeOK, TypeOK', SweepInv, [Next]_vars,
           NEW q \in Sweepers, SweepOn(q) \/ SweepCrash(q)
    PROVE  SweepSound(sweep[q])'
<1>. DEFINE s == sweep[q]
<1>1. s \in Sweep /\ SweepSound(s) /\ DueLapsed
  BY DEF TypeOK, SweepInv
<1>2. ASSUME NEW r \in Sweep, SweepSound(r), SetSweep(q, r) PROVE SweepSound(sweep[q])'
  <2>1. sweep'[q] = r
    BY <1>2 DEF SetSweep, TypeOK
  <2>2. SweepSound(r)'
    BY <1>1, <1>2, SoundStays
  <2>. QED  BY <2>1, <2>2 DEF SweepSound, Covered
<1>3. CASE SweepStart(q)
  <2>. DEFINE r == [NoSweep EXCEPT !.pc = "page", !.cutoff = day]
  <2>1. r \in Sweep
    BY DEF NoSweep, Sweep, TypeOK
  <2>2. \A u \in Expired(day) : u > 0
    BY DEF Expired, TypeOK
  <2>3. SweepSound(r)
    BY <2>2 DEF SweepSound, Covered, NoSweep, TypeOK
  <2>. QED  BY <1>2, <1>3, <2>1, <2>3 DEF SweepStart
<1>4. CASE SweepPage(q)
  <2>. DEFINE found == After(s.cutoff, s.last)
  <2>1. s.pc = "page" /\ s.batch = {}
    BY <1>1, <1>4 DEF SweepPage, SweepSound
  <2>2. s.cutoff \in Nat /\ s.last \in Nat /\ s.cutoff <= day /\ day \in Nat
    BY <1>1 DEF Sweep, SweepSound, TypeOK
  <2>3. \A u \in Expired(s.cutoff) : u \in s.failed \/ u \in found
    BY <1>1, <2>1 DEF SweepSound, Covered, After
  <2>4. found \subseteq Users /\ found \subseteq lapsed
    <3>1. ASSUME NEW c \in Nat, c <= day PROVE Expired(c) \subseteq Expired(day)
      <4>1. SUFFICES ASSUME NEW u \in live, scheduled[u] # None, scheduled[u] <= c
                     PROVE  scheduled[u] <= day
        BY DEF Expired, Pending
      <4>2. scheduled[u] \in Int /\ day \in Int
        BY <4>1 DEF TypeOK, Days
      <4>. QED  BY <3>1, <4>1, <4>2
    <3>2. Expired(s.cutoff) \subseteq lapsed
      BY <1>1, <2>2, <3>1 DEF DueLapsed
    <3>. QED  BY <3>2 DEF After, Expired, TypeOK
  <2>5. CASE found = {} /\ SetSweep(q, [s EXCEPT !.pc = "done"])
    <3>. DEFINE r == [s EXCEPT !.pc = "done"]
    <3>1. r \in Sweep
      BY <1>1 DEF Sweep
    <3>2. r.cutoff = s.cutoff /\ r.batch = s.batch /\ r.failed = s.failed /\ r.pc = "done"
      BY <1>1 DEF Sweep
    <3>. HIDE DEF r
    <3>3. SweepSound(r)
      BY <1>1, <2>1, <2>3, <2>5, <3>2 DEF SweepSound, Covered
    <3>. QED  BY <1>2, <2>5, <3>1, <3>3 DEF r
  <2>6. ASSUME NEW page \in SUBSET found, NEW l \in found,
               l \in page, \A u \in page : u <= l, IsPage(page, found),
               SetSweep(q, [s EXCEPT !.pc = "revoke", !.batch = page, !.last = l,
                                     !.more = Cardinality(page) = ChunkSize])
        PROVE  SweepSound(sweep[q])'
    <3>. DEFINE more == Cardinality(page) = ChunkSize
                r == [s EXCEPT !.pc = "revoke", !.batch = page, !.last = l, !.more = more]
    <3>1. l \in Nat /\ page \in SUBSET Users /\ more \in BOOLEAN
      BY <2>4
    <3>2. \A u \in found \ page : u > l /\ more
      <4>1. ASSUME NEW u \in found \ page PROVE u > l /\ more
        BY <2>6, <4>1 DEF IsPage
      <4>. QED  BY <4>1
    <3>. HIDE DEF more
    <3>3. r \in Sweep
      BY <1>1, <3>1 DEF Sweep
    <3>4. /\ r.cutoff = s.cutoff /\ r.batch = page /\ r.failed = s.failed
          /\ r.pc = "revoke" /\ r.last = l /\ r.more = more
      BY <1>1 DEF Sweep
    <3>. HIDE DEF r
    <3>5. \A u \in Expired(r.cutoff) : Covered(r, u)
      BY <2>3, <3>2, <3>4 DEF Covered
    <3>6. SweepSound(r)
      BY <2>2, <2>4, <3>4, <3>5 DEF SweepSound
    <3>. QED  BY <1>2, <2>6, <3>3, <3>6 DEF r, more
  <2>. QED  BY <1>4, <2>5, <2>6 DEF SweepPage
<1>5. ASSUME NEW u \in Users, SweepRevoke(q, u) PROVE SweepSound(sweep[q])'
  <2>. DEFINE r == [s EXCEPT !.pc = "erase", !.read = stored[u]]
  <2>1. r \in Sweep
    BY <1>1 DEF Sweep, TypeOK
  <2>2. /\ r.cutoff = s.cutoff /\ r.batch = s.batch /\ r.failed = s.failed
        /\ r.pc = "erase" /\ r.last = s.last /\ r.more = s.more
    BY <1>1 DEF Sweep
  <2>. HIDE DEF r
  <2>3. s.pc = "revoke"
    BY <1>5 DEF SweepRevoke
  <2>4. SweepSound(r)
    BY <1>1, <2>2, <2>3 DEF SweepSound, Covered
  <2>. QED  BY <1>2, <1>5, <2>1, <2>4 DEF SweepRevoke, r
<1>6. ASSUME NEW u \in Users, SweepRevokeFails(q, u) \/ SweepEraseFails(q, u)
      PROVE  SweepSound(sweep[q])'
  <2>1. u \in s.batch /\ s.pc \in {"revoke", "erase"} /\ SetSweep(q, Skipped(s, u))
    BY <1>6 DEF SweepRevokeFails, SweepEraseFails, InTurn, Abandoned
  <2>. DEFINE failed == s.failed \cup {u}
              r == Passed(s, u, failed)
  <2>2. failed \in SUBSET Users
    BY <1>1 DEF Sweep
  <2>. HIDE DEF r
  <2>3. /\ r \in Sweep
        /\ r.cutoff = s.cutoff /\ r.failed = failed
        /\ r.batch \subseteq s.batch
        /\ r.pc \in {"idle", "page", "done"} => r.batch = {}
        /\ \A v \in Expired(s.cutoff) : v # u => Covered(r, v)
    <3>1. s.failed \subseteq failed
      OBVIOUS
    <3>. HIDE DEF s, failed
    <3>. QED  BY <1>1, <2>1, <2>2, <3>1, PassedCovers DEF r
  <2>4. Covered(r, u)
    BY <2>3 DEF Covered
  <2>5. SweepSound(r)
    BY <1>1, <2>3, <2>4 DEF SweepSound
  <2>. QED  BY <1>2, <2>1, <2>3, <2>5 DEF r, Skipped
<1>7. ASSUME NEW u \in Users, SweepErase(q, u) PROVE SweepSound(sweep[q])'
  <2>1. u \in s.batch /\ s.pc = "erase" /\ SetSweep(q, Handled(s, u))
    BY <1>7 DEF SweepErase, InTurn
  <2>. DEFINE r == Passed(s, u, s.failed)
  <2>2. s.failed \in SUBSET Users
    BY <1>1 DEF Sweep
  <2>. HIDE DEF r
  <2>3. /\ r \in Sweep
        /\ r.cutoff = s.cutoff /\ r.failed = s.failed
        /\ r.batch \subseteq s.batch
        /\ r.pc \in {"idle", "page", "done"} => r.batch = {}
        /\ \A v \in Expired(s.cutoff) : v # u => Covered(r, v)
    BY <1>1, <2>1, <2>2, PassedCovers DEF r
  <2>. QED  BY <1>1, <1>7, <2>1, <2>3, ErasedSound DEF r, Handled, SweepSound
<1>8. CASE SweepEnd(q) \/ SweepCrash(q)
  <2>1. SweepSound(NoSweep)
    BY DEF NoSweep, SweepSound, TypeOK
  <2>. QED  BY <1>2, <1>8, <2>1, NoSweepType DEF SweepEnd, SweepCrash
<1>. QED  BY <1>3, <1>4, <1>5, <1>6, <1>7, <1>8 DEF SweepOn

\* What the sweeps and the record of lapsed accounts rest on is inductive.
LEMMA SweepInvStays == TypeOK /\ TypeOK' /\ SweepInv /\ [Next]_vars => SweepInv'
<1> SUFFICES ASSUME TypeOK, TypeOK', SweepInv, [Next]_vars PROVE SweepInv'
  OBVIOUS
<1>1. lapsed \subseteq lapsed' /\ DueLapsed'
  BY TimeGrows DEF SweepInv
<1>2. ASSUME NEW q \in Sweepers PROVE SweepSound(sweep[q])'
  <2>1. CASE SweepOn(q) \/ SweepCrash(q)
    BY <2>1, SweepStaysSound
  <2>2. CASE sweep'[q] = sweep[q]
    <3>1. ASSUME NEW r \in Sweep, SweepSound(r), sweep'[q] = r PROVE SweepSound(sweep[q])'
      <4>1. SweepSound(r)'
        BY <3>1, SoundStays DEF SweepInv
      <4>. QED  BY <3>1, <4>1 DEF SweepSound, Covered
    <3>. QED  BY <2>2, <3>1 DEF SweepInv, TypeOK
  <2>3. SweepOn(q) \/ SweepCrash(q) \/ sweep'[q] = sweep[q]
    <3>1. CASE \E p \in Sweepers : SweepOn(p) \/ SweepCrash(p)
      <4>1. PICK p \in Sweepers : SweepOn(p) \/ SweepCrash(p)
        BY <3>1
      <4>2. p = q \/ sweep'[q] = sweep[q]
        BY <4>1 DEF SweepOn, SweepCrash, SweepStart, SweepPage, SweepRevoke,
                    SweepRevokeFails, SweepErase, SweepEraseFails, SweepEnd, SetSweep, TypeOK
      <4>. QED  BY <4>1, <4>2
    <3>2. CASE ~ \E p \in Sweepers : SweepOn(p) \/ SweepCrash(p)
      BY <3>2 DEF Next, vars, jobs, Night, Serve, RequestLoad, RequestSave, CancelLoad,
                  CancelSave, ActLoad, ActSave, SignIn
    <3>. QED  BY <3>1, <3>2
  <2>. QED  BY <2>1, <2>2, <2>3
<1>3. ErasedServedGrace'
  <2>1. CASE \E q \in Sweepers, u \in Users : SweepErase(q, u)
    <3>1. PICK q \in Sweepers, u \in Users : SweepErase(q, u)
      BY <2>1
    <3>2. u \in lapsed /\ live' = live \ {u} /\ lapsed' = lapsed
      BY <3>1 DEF SweepErase, InTurn, SweepInv, SweepSound
    <3>. QED  BY <3>2 DEF SweepInv, ErasedServedGrace
  <2>2. CASE live' = live
    BY <1>1, <2>2 DEF SweepInv, ErasedServedGrace
  <2>3. live' = live \/ \E q \in Sweepers, u \in Users : SweepErase(q, u)
    BY DEF Next, vars, tables, Night, Serve, RequestLoad, RequestSave, CancelLoad,
           CancelSave, ActLoad, ActSave, SignIn, SweepOn, SweepCrash, SweepStart,
           SweepPage, SweepRevoke, SweepRevokeFails, SweepEraseFails, SweepEnd
  <2>. QED  BY <2>1, <2>2, <2>3
<1>. QED  BY <1>1, <1>2, <1>3 DEF SweepInv

LEMMA SweepInvHolds == Spec => [](TypeOK /\ SweepInv)
<1>1. Init => SweepInv
  BY DEF Init, SweepInv, DueLapsed, Expired, Pending, SweepSound, NoSweep,
         ErasedServedGrace
<1>2. SweepInv /\ TypeOK /\ TypeOK' /\ [Next]_vars => SweepInv'
  BY SweepInvStays
<1>. QED  BY <1>1, <1>2, TypeCorrect, PTL DEF Spec

\* No account is erased before its grace period ran out while the deletion
\* was pending, for any number of sweeps, requests, crashes and outages.
THEOREM GraceServed == Spec => []ErasedServedGrace
<1>1. SweepInv => ErasedServedGrace
  BY DEF SweepInv
<1>. QED  BY <1>1, SweepInvHolds, PTL

\* A sweep that ends has dealt with every account that was due when it began,
\* for every page size.
THEOREM SweepsAreComplete == Spec => []SweepComplete
<1>1. TypeOK /\ SweepInv => SweepComplete
  <2>. SUFFICES ASSUME TypeOK, SweepInv, NEW q \in Sweepers, sweep[q].pc = "done",
                       NEW u \in Expired(sweep[q].cutoff)
                PROVE  u \in sweep[q].failed
    BY DEF SweepComplete
  <2>1. SweepSound(sweep[q])
    BY DEF SweepInv
  <2>. QED  BY <2>1 DEF SweepSound, Covered
<1>. QED  BY <1>1, SweepInvHolds, PTL

-----------------------------------------------------------------------------
(***************************************************************************)
(* Grants: what a sweep has read and revoked, Apple no longer honours.     *)
(***************************************************************************)
ReadRevoked ==
    \A q \in Sweepers : sweep[q].pc = "erase" => sweep[q].read \cap authorized = {}

LEMMA ReadRevokedStays == TypeOK /\ ReadRevoked /\ [Next]_vars => ReadRevoked'
<1> SUFFICES ASSUME TypeOK, ReadRevoked, [Next]_vars, NEW q \in Sweepers,
                    sweep'[q].pc = "erase"
             PROVE  sweep'[q].read \cap authorized' = {}
  BY DEF ReadRevoked
<1>1. CASE sweep' = sweep /\ authorized' \subseteq authorized
  BY <1>1 DEF ReadRevoked
<1>2. ASSUME NEW u \in AppleUsers, SignIn(u) PROVE sweep'[q].read \cap authorized' = {}
  BY <1>2 DEF SignIn, jobs, ReadRevoked
<1>3. ASSUME NEW p \in Sweepers, SweepOn(p) \/ SweepCrash(p)
      PROVE  sweep'[q].read \cap authorized' = {}
  <2>1. authorized' \subseteq authorized
    BY <1>3 DEF SweepOn, SweepCrash, SweepStart, SweepPage, SweepRevoke,
                SweepRevokeFails, SweepErase, SweepEraseFails, SweepEnd, apple
  <2>2. CASE sweep'[q] = sweep[q]
    BY <2>1, <2>2 DEF ReadRevoked
  <2>3. CASE p = q /\ \E u \in Users : SweepRevoke(q, u)
    <3>1. PICK u \in Users : SweepRevoke(q, u)
      BY <2>3
    <3>2. sweep'[q] = [sweep[q] EXCEPT !.pc = "erase", !.read = stored[u]]
      BY <3>1 DEF SweepRevoke, SetSweep, TypeOK
    <3>3. sweep[q] \in Sweep
      BY DEF TypeOK
    <3>4. sweep'[q].read = stored[u]
      BY <3>2, <3>3 DEF Sweep
    <3>. QED  BY <3>1, <3>4 DEF SweepRevoke
  <2>4. CASE p = q /\ sweep'[q].pc # "erase"
    BY <2>4
  <2>5. ASSUME p = q, ~ \E u \in Users : SweepRevoke(q, u) PROVE sweep'[q].pc # "erase"
    <3>1. sweep[q] \in Sweep /\ sweep \in [Sweepers -> Sweep]
      BY DEF TypeOK
    <3>2. \A s \in Sweep : \A u, failed : Passed(s, u, failed).pc # "erase"
      BY DEF Passed, Sweep
    <3>3. ASSUME NEW u \in Users, SweepErase(q, u) \/ SweepEraseFails(q, u) \/ SweepRevokeFails(q, u)
          PROVE  sweep'[q].pc # "erase"
      BY <3>1, <3>2, <3>3 DEF SweepErase, SweepEraseFails, SweepRevokeFails, Abandoned,
                         Skipped, Handled, SetSweep
    <3>4. CASE SweepStart(q) \/ SweepEnd(q) \/ SweepCrash(q)
      <4>1. CASE SetSweep(q, NoSweep)
        BY <3>1, <4>1 DEF SetSweep, NoSweep
      <4>2. CASE SetSweep(q, [NoSweep EXCEPT !.pc = "page", !.cutoff = day])
        BY <3>1, <4>2 DEF SetSweep, NoSweep
      <4>. QED  BY <3>4, <4>1, <4>2 DEF SweepStart, SweepEnd, SweepCrash
    <3>5. CASE SweepPage(q)
      <4>1. ASSUME NEW page, NEW l, NEW more,
                   SetSweep(q, [sweep[q] EXCEPT !.pc = "revoke", !.batch = page,
                                                !.last = l, !.more = more])
            PROVE  sweep'[q].pc # "erase"
        BY <3>1, <4>1 DEF SetSweep, Sweep
      <4>2. CASE SetSweep(q, [sweep[q] EXCEPT !.pc = "done"])
        BY <3>1, <4>2 DEF SetSweep, Sweep
      <4>. QED  BY <3>5, <4>1, <4>2 DEF SweepPage
    <3>. QED  BY <1>3, <2>5, <3>3, <3>4, <3>5 DEF SweepOn
  <2>6. p = q \/ sweep'[q] = sweep[q]
    BY <1>3 DEF SweepOn, SweepCrash, SweepStart, SweepPage, SweepRevoke,
                SweepRevokeFails, SweepErase, SweepEraseFails, SweepEnd, SetSweep, TypeOK
  <2>. QED  BY <2>2, <2>3, <2>4, <2>5, <2>6
<1>4. \/ sweep' = sweep /\ authorized' = authorized
      \/ \E u \in AppleUsers : SignIn(u)
      \/ \E p \in Sweepers : SweepOn(p) \/ SweepCrash(p)
  BY DEF Next, vars, apple, jobs, Night, Serve, RequestLoad, RequestSave, CancelLoad,
         CancelSave, ActLoad, ActSave
<1>. QED  BY <1>1, <1>2, <1>3, <1>4

\* A grant that Apple still honours goes with its account only if it was
\* stored after the sweep had read the grants it revoked.
THEOREM GrantsKept == Spec => NoGrantForgotten
<1>. DEFINE Kept == \A u \in Users : \A t \in (stored[u] \ stored'[u]) \cap authorized' :
                       \E q \in Sweepers : /\ sweep[q].pc = "erase"
                                           /\ InTurn(q, u)
                                           /\ t \notin sweep[q].read
<1>1. Init => ReadRevoked
  BY DEF Init, ReadRevoked, NoSweep
<1>2. TypeOK /\ ReadRevoked /\ [Next]_vars => [Kept]_vars
  <2> SUFFICES ASSUME TypeOK, ReadRevoked, [Next]_vars, NEW u \in Users,
                      NEW t \in (stored[u] \ stored'[u]) \cap authorized'
               PROVE  \E q \in Sweepers : /\ sweep[q].pc = "erase"
                                          /\ InTurn(q, u)
                                          /\ t \notin sweep[q].read
    OBVIOUS
  <2>1. \E q \in Sweepers, v \in Users : SweepErase(q, v)
    <3>1. CASE stored' = stored
      BY <3>1
    <3>2. ASSUME NEW v \in AppleUsers, SignIn(v) PROVE FALSE
      <4>1. PICK s \in Tokens : stored' = [stored EXCEPT ![v] = @ \cup {s}]
        BY <3>2 DEF SignIn
      <4>. QED  BY <4>1 DEF TypeOK
    <3>3. \/ stored' = stored
          \/ \E v \in AppleUsers : SignIn(v)
          \/ \E q \in Sweepers, v \in Users : SweepErase(q, v)
      BY DEF Next, vars, apple, Night, Serve, RequestLoad, RequestSave, CancelLoad,
             CancelSave, ActLoad, ActSave, SweepOn, SweepCrash, SweepStart,
             SweepPage, SweepRevoke, SweepRevokeFails, SweepEraseFails, SweepEnd
    <3>. QED  BY <3>1, <3>2, <3>3
  <2>2. PICK q \in Sweepers, v \in Users : SweepErase(q, v)
    BY <2>1
  <2>3. v = u
    BY <2>2 DEF SweepErase, TypeOK
  <2>. QED  BY <2>2, <2>3 DEF SweepErase, ReadRevoked
<1>3. TypeOK /\ ReadRevoked /\ [Next]_vars => ReadRevoked'
  BY ReadRevokedStays
<1>4. Spec => [][Kept]_vars
  <2>. HIDE DEF Kept
  <2>. QED  BY <1>1, <1>2, <1>3, TypeCorrect, PTL DEF Spec
<1>. QED  BY <1>4 DEF NoGrantForgotten

-----------------------------------------------------------------------------
(***************************************************************************)
(* Orphans: the rows that name an erased account and the workers that have *)
(* one to insert are together no more than the workers.                    *)
(***************************************************************************)
Naming(u) == {r \in rows : Names(u, r)}
Coming(u) == {w \in Workers : At(w, "act_save") /\ Names(u, request[w].row)}

OrphansCounted ==
    \A u \in Users \ live :
        Cardinality(Naming(u)) + Cardinality(Coming(u)) <= Cardinality(Workers)

LEMMA CountsFinite ==
    ASSUME TypeOK, NEW u
    PROVE  /\ IsFiniteSet(Naming(u)) /\ Cardinality(Naming(u)) \in Nat
           /\ IsFiniteSet(Coming(u)) /\ Cardinality(Coming(u)) \in Nat
           /\ Cardinality(Workers) \in Nat
           /\ Cardinality(Coming(u)) <= Cardinality(Workers)
<1>1. IsFiniteSet(Users \X Users)
  BY FS_Product
<1>2. Naming(u) \in SUBSET (Users \X Users)
  BY DEF Naming, TypeOK
<1>3. Coming(u) \in SUBSET Workers
  BY DEF Coming
<1>4. IsFiniteSet(Workers)
  OBVIOUS
<1>5. IsFiniteSet(Naming(u))
  BY <1>1, <1>2, FS_Subset
<1>6. IsFiniteSet(Coming(u)) /\ Cardinality(Coming(u)) <= Cardinality(Workers)
  BY <1>3, <1>4, FS_Subset
<1>. QED  BY <1>4, <1>5, <1>6, FS_CardinalityType

\* Neither rows nor requests that name an erased account are added, except
\* that a request under way inserts its own.
LEMMA OrphansFall ==
    ASSUME TypeOK, TypeOK', OrphansCounted, NEW u \in Users \ live,
           Naming(u)' \subseteq Naming(u), Coming(u)' \subseteq Coming(u)
    PROVE  Cardinality(Naming(u)') + Cardinality(Coming(u)') <= Cardinality(Workers)
<1>1. /\ Cardinality(Naming(u)') <= Cardinality(Naming(u))
      /\ Cardinality(Coming(u)') <= Cardinality(Coming(u))
  BY CountsFinite, FS_Subset
<1>2. /\ Cardinality(Naming(u)') \in Nat /\ Cardinality(Coming(u)') \in Nat
  BY CountsFinite, FS_Subset, FS_CardinalityType
<1>3. /\ Cardinality(Naming(u)) \in Nat /\ Cardinality(Coming(u)) \in Nat
      /\ Cardinality(Workers) \in Nat
  BY CountsFinite
<1>4. Cardinality(Naming(u)) + Cardinality(Coming(u)) <= Cardinality(Workers)
  BY DEF OrphansCounted
<1>. QED  BY <1>1, <1>2, <1>3, <1>4

LEMMA OrphanInserted ==
    ASSUME TypeOK, OrphansCounted, NEW u \in Users \ live,
           NEW w \in Workers, ActSave(w)
    PROVE  Cardinality(Naming(u)') + Cardinality(Coming(u)') <= Cardinality(Workers)
<1>. DEFINE r == request[w].row
<1>1. request' = [request EXCEPT ![w] = Idle] /\ rows' = rows \cup {r}
      /\ request[w].pc = "act_save"
  BY DEF ActSave, Finish, Goto, At
<1>2. Coming(u)' = Coming(u) \ {w}
  BY <1>1 DEF Coming, At, TypeOK, Idle
<1>3. /\ IsFiniteSet(Naming(u)) /\ Cardinality(Naming(u)) \in Nat
      /\ IsFiniteSet(Coming(u)) /\ Cardinality(Coming(u)) \in Nat
      /\ Cardinality(Workers) \in Nat
  BY CountsFinite
<1>4. Cardinality(Naming(u)) + Cardinality(Coming(u)) <= Cardinality(Workers)
  BY DEF OrphansCounted
<1>5. CASE Names(u, r)
  <2>1. Naming(u)' = Naming(u) \cup {r}
    BY <1>1, <1>5 DEF Naming, Names
  <2>2. w \in Coming(u)
    BY <1>1, <1>5 DEF Coming, At
  <2>3. Cardinality(Coming(u)') = Cardinality(Coming(u)) - 1
    BY <1>2, <1>3, <2>2, FS_RemoveElement
  <2>. HIDE DEF r
  <2>4. \/ Cardinality(Naming(u)') = Cardinality(Naming(u))
        \/ Cardinality(Naming(u)') = Cardinality(Naming(u)) + 1
    BY <1>3, <2>1, FS_AddElement
  <2>. QED  BY <1>3, <1>4, <2>3, <2>4
<1>6. CASE ~ Names(u, r)
  <2>1. Naming(u)' = Naming(u)
    BY <1>1, <1>6 DEF Naming, Names
  <2>2. w \notin Coming(u)
    BY <1>6 DEF Coming
  <2>. QED  BY <1>2, <1>4, <2>1, <2>2
<1>. QED  BY <1>5, <1>6

LEMMA OrphansCountedStays ==
    TypeOK /\ TypeOK' /\ OrphansCounted /\ [Next]_vars => OrphansCounted'
<1> SUFFICES ASSUME TypeOK, TypeOK', OrphansCounted, [Next]_vars,
                    NEW u \in Users, u \notin live'
             PROVE  Cardinality(Naming(u)') + Cardinality(Coming(u)') <= Cardinality(Workers)
  BY DEF OrphansCounted
<1>1. ASSUME NEW w \in Workers, ActSave(w)
      PROVE  Cardinality(Naming(u)') + Cardinality(Coming(u)') <= Cardinality(Workers)
  BY <1>1, OrphanInserted DEF ActSave
<1>2. ASSUME NEW w \in Workers, Serve(w), ~ ActSave(w)
      PROVE  Cardinality(Naming(u)') + Cardinality(Coming(u)') <= Cardinality(Workers)
  <2>1. live' = live /\ rows' = rows
    BY <1>2 DEF Serve, RequestLoad, RequestSave, CancelLoad, CancelSave, ActLoad, tables
  <2>2. request'[w].pc = "act_save" => ~ Names(u, request'[w].row)
    <3>1. ASSUME NEW r \in Writes, ActLoad(w, r) PROVE ~ Names(u, request'[w].row)
      <4>1. r[1] \in live /\ r[2] \in live
        BY <3>1 DEF ActLoad, Admitted
      <4>2. request'[w].row = r
        BY <3>1 DEF ActLoad, Goto, TypeOK
      <4>. QED  BY <2>1, <4>1, <4>2 DEF Names
    <3>2. CASE ~ \E r \in Writes : ActLoad(w, r)
      BY <1>2, <3>2 DEF Serve, RequestLoad, RequestSave, CancelLoad, CancelSave,
                        Finish, Goto, Idle, TypeOK
    <3>. QED  BY <3>1, <3>2
  <2>3. \A p \in Workers : p # w => request'[p] = request[p]
    BY <1>2 DEF Serve, RequestLoad, RequestSave, CancelLoad, CancelSave, ActLoad,
                Finish, Goto, TypeOK
  <2>4. Coming(u)' \subseteq Coming(u) /\ Naming(u)' \subseteq Naming(u)
    BY <2>1, <2>2, <2>3 DEF Coming, Naming, At
  <2>. QED  BY <2>1, <2>4, OrphansFall
<1>3. ASSUME NEW q \in Sweepers, SweepErase(q, u)
      PROVE  Cardinality(Naming(u)') + Cardinality(Coming(u)') <= Cardinality(Workers)
  <2>1. Naming(u)' = {}
    BY <1>3 DEF SweepErase, Owned, Naming, Names
  <2>2. Cardinality(Naming(u)') = 0
    BY <2>1, FS_EmptySet
  <2>3. Coming(u)' = Coming(u)
    BY <1>3 DEF SweepErase, Coming, At
  <2>. QED  BY <2>2, <2>3, CountsFinite
<1>4. CASE /\ request' = request /\ rows' \subseteq rows
           /\ u \notin live
  <2>1. Coming(u)' \subseteq Coming(u) /\ Naming(u)' \subseteq Naming(u)
    BY <1>4 DEF Coming, Naming, At
  <2>. QED  BY <1>4, <2>1, OrphansFall
<1>5. \/ \E w \in Workers : Serve(w)
      \/ \E q \in Sweepers : SweepErase(q, u)
      \/ request' = request /\ rows' \subseteq rows /\ u \notin live
  <2>1. CASE \E q \in Sweepers, v \in Users : SweepErase(q, v)
    <3>1. PICK q \in Sweepers, v \in Users : SweepErase(q, v)
      BY <2>1
    <3>2. CASE v = u
      BY <3>1, <3>2
    <3>3. CASE v # u
      BY <3>1, <3>3 DEF SweepErase
    <3>. QED  BY <3>2, <3>3
  <2>2. CASE UNCHANGED <<live, request, rows>>
    BY <2>2
  <2>3. \/ \E w \in Workers : Serve(w)
        \/ \E q \in Sweepers, v \in Users : SweepErase(q, v)
        \/ UNCHANGED <<live, request, rows>>
    BY DEF Next, vars, tables, Night, SignIn, SweepOn, SweepCrash, SweepStart,
           SweepPage, SweepRevoke, SweepRevokeFails, SweepEraseFails, SweepEnd
  <2>. QED  BY <2>1, <2>2, <2>3
<1>. QED  BY <1>1, <1>2, <1>3, <1>4, <1>5

\* At most one row for each worker names an erased account, however many
\* requests and sweeps there were.
THEOREM FewOrphans == Spec => []OrphansBounded
<1>1. Init => OrphansCounted
  BY DEF Init, OrphansCounted
<1>2. TypeOK /\ OrphansCounted => OrphansBounded
  <2>. SUFFICES ASSUME TypeOK, OrphansCounted, NEW u \in Users \ live
                PROVE  Cardinality(Naming(u)) <= Cardinality(Workers)
    BY DEF OrphansBounded, Naming
  <2>. QED  BY CountsFinite DEF OrphansCounted
<1>3. OrphansCounted /\ TypeOK /\ TypeOK' /\ [Next]_vars => OrphansCounted'
  BY OrphansCountedStays
<1>. QED  BY <1>1, <1>2, <1>3, TypeCorrect, PTL DEF Spec

=============================================================================
