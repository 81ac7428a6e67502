-------------------------- MODULE FeatureVotesProofs --------------------------
(***************************************************************************)
(* Proofs about FeatureVotes, for every number of members, workers and     *)
(* readers.  The refinement rests on the row lock: from a locked read to   *)
(* the commit the row is what was read, and only where there was no row    *)
(* can the unique key have to decide.                                      *)
(***************************************************************************)
EXTENDS FeatureVotes, FiniteSetTheorems, TLAPS

Holds(w) == At(w, "write") /\ request[w].seen # NoVote

\* A row that was found is locked until the commit, by one worker.
LockHeld ==
    \A w \in Workers : Holds(w) =>
        /\ vote[request[w].member] = request[w].seen
        /\ \A x \in Workers :
              Holds(x) /\ request[x].member = request[w].member => x = w

IInv == TypeOK /\ LockHeld

\* One administrator at a time (what ReasonFollows is stated for).
OneAdmin == \A a, b \in Admins : a = b

\* How far a deletion or a restoration has come; the row has not changed
\* behind the administrator's back.
AdminInv ==
    \A a \in Admins :
       /\ admin[a].pc \in {"mark", "restore", "clear"} => admin[a].loaded = reason
       /\ AdminAt(a, "delete") => reason = admin[a].reason
       /\ AdminAt(a, "clear") => ~trashed

-----------------------------------------------------------------------------
\* The cached counts are counts of members.
LEMMA TallyType == \A d : Tally(d) \in Counts
  <1> TAKE d
  <1> DEFINE S == {m \in Members : vote[m] = d}
  <1>1. IsFiniteSet(Members) /\ S \subseteq Members
    BY VotersAssumption
  <1>2. IsFiniteSet(S) /\ Cardinality(S) <= Cardinality(Members)
    BY <1>1, FS_Subset
  <1>3. Cardinality(S) \in Nat /\ Cardinality(Members) \in Nat
    BY <1>1, <1>2, FS_CardinalityType
  <1> QED
    BY <1>2, <1>3 DEF Tally, Counts

\* What a request carries, by where it is.
LEMMA RequestType ==
    ASSUME TypeOK, NEW w \in Workers
    PROVE  /\ request[w].pc \in {"read", "write", "forget"} =>
                 request[w].member \in Members /\ request[w].direction \in Direction
           /\ request[w].pc \in {"read", "write"} => request[w].tries \in 0..1
           /\ At(w, "write") => request[w].seen \in Vote
           /\ At(w, "unvote") => request[w].member \in Members
  BY DEF TypeOK, Request, Idle, At

\* A member's row is changed to a vote again.
LEMMA VoteType ==
    ASSUME NEW v \in Vote, NEW d \in Direction
    PROVE  NewVote(v, d) \in Vote /\ Outcome(v, d) \in {"added", "removed", "switched"}
  BY DEF NewVote, Outcome, Vote

-----------------------------------------------------------------------------
\* The types are kept by every action.
LEMMA TypeStep == TypeOK /\ [Next]_vars => TypeOK'
  <1> SUFFICES ASSUME TypeOK, [Next]_vars PROVE TypeOK'
    OBVIOUS
  <1> USE DEF TypeOK
  <1>1. ASSUME NEW w \in Workers, NEW m \in Members, NEW d \in Direction, Click(w, m, d)
        PROVE  TypeOK'
    BY <1>1 DEF Click, Goto, Request, row
  <1>2. ASSUME NEW w \in Workers, NEW m \in Members, Unclick(w, m)
        PROVE  TypeOK'
    BY <1>2 DEF Unclick, Goto, Request, row
  <1>3. ASSUME NEW w \in Workers, LockedRead(w) PROVE TypeOK'
    <2>1. /\ request[w].member \in Members /\ request[w].direction \in Direction
          /\ request[w].tries \in 0..1 /\ vote[request[w].member] \in Vote
      BY <1>3, RequestType DEF LockedRead, At
    <2>2. request' \in [Workers -> Request]
      BY <1>3, <2>1 DEF LockedRead, Goto, Request
    <2> QED
      BY <1>3, <2>2 DEF LockedRead, row
  <1>4. ASSUME NEW w \in Workers, Commit(w) PROVE TypeOK'
    <2>1. /\ request[w].member \in Members /\ request[w].direction \in Direction
          /\ request[w].seen \in Vote
      BY <1>4, RequestType DEF Commit, At
    <2>2. /\ NewVote(request[w].seen, request[w].direction) \in Vote
          /\ Outcome(request[w].seen, request[w].direction)
                \in {"added", "removed", "switched"}
      BY <2>1, VoteType
    <2>3. request' \in [Workers -> Request]
      BY <1>4, <2>1, <2>2 DEF Commit, Goto, Request
    <2>4. vote' \in [Members -> Vote]
      BY <1>4, <2>1, <2>2 DEF Commit
    <2> QED
      BY <1>4, <2>3, <2>4 DEF Commit, row
  <1>5. ASSUME NEW w \in Workers, Retry(w) PROVE TypeOK'
    <2>1. /\ request[w].member \in Members /\ request[w].direction \in Direction
          /\ request[w].tries \in 0..1
      BY <1>5, RequestType DEF Retry, At
    <2>2. request[w].tries - 1 \in 0..1
      BY <1>5, <2>1 DEF Retry, MayRetry
    <2>3. request' \in [Workers -> Request]
      BY <1>5, <2>1, <2>2 DEF Retry, Goto, Request
    <2> QED
      BY <1>5, <2>3 DEF Retry, row
  <1>6. ASSUME NEW w \in Workers, Fail(w) \/ Forget(w) \/ Die(w) PROVE TypeOK'
    BY <1>6 DEF Fail, Forget, Die, Finish, Goto, Request, row
  <1>7. ASSUME NEW w \in Workers, Unvote(w) PROVE TypeOK'
    <2>1. request[w].member \in Members
      BY <1>7, RequestType DEF Unvote, At
    <2>2. request' \in [Workers -> Request]
      BY <1>7, <2>1 DEF Unvote, Goto, Finish, Request
    <2>3. vote' \in [Members -> Vote]
      BY <1>7 DEF Unvote, Vote
    <2> QED
      BY <1>7, <2>2, <2>3 DEF Unvote, row
  <1>8. ASSUME NEW r \in Readers, Count(r) PROVE TypeOK'
    BY <1>8, TallyType DEF Count, votes, row
  <1>9. ASSUME NEW r \in Readers, Put(r) PROVE TypeOK'
    BY <1>9 DEF Put, votes, row
  <1>10. CASE Expire
    BY <1>10 DEF Expire, votes, row
  <1>11. ASSUME NEW a \in Admins, NEW why \in Reasons, Delete(a, why) PROVE TypeOK'
    BY <1>11 DEF Delete, AdminGoto, AdminRequest, votes, row
  <1>12. ASSUME NEW a \in Admins, DeleteMark(a) PROVE TypeOK'
    <2>1. admin[a].reason \in Reasons
      BY <1>12 DEF DeleteMark, AdminAt, AdminRequest, Idle
    <2>2. reason' \in Reason
      BY <1>12, <2>1 DEF DeleteMark, Marked, Reason
    <2>3. admin' \in [Admins -> AdminRequest]
      BY <1>12, <2>1 DEF DeleteMark, AdminGoto, AdminRequest
    <2> QED
      BY <1>12, <2>2, <2>3 DEF DeleteMark, votes
  <1>13. ASSUME NEW a \in Admins, DeleteRow(a) PROVE TypeOK'
    BY <1>13 DEF DeleteRow, AdminGoto, AdminRequest, votes
  <1>14. ASSUME NEW a \in Admins, Restore(a) PROVE TypeOK'
    BY <1>14 DEF Restore, AdminGoto, AdminRequest, votes, row
  <1>15. ASSUME NEW a \in Admins, RestoreRow(a) PROVE TypeOK'
    <2>1. admin[a].loaded \in Reason
      BY <1>15 DEF RestoreRow, AdminAt, AdminRequest, Idle
    <2> QED
      BY <1>15, <2>1 DEF RestoreRow, AdminGoto, AdminRequest, votes
  <1>16. ASSUME NEW a \in Admins, RestoreClear(a) PROVE TypeOK'
    BY <1>16 DEF RestoreClear, AdminGoto, AdminRequest, Reason, votes
  <1>17. ASSUME NEW a \in Admins, AdminForget(a) \/ BulkRestore(a) \/ AdminDie(a)
         PROVE  TypeOK'
    BY <1>17 DEF AdminForget, BulkRestore, AdminDie, AdminGoto, AdminRequest, votes, row
  <1>18. ASSUME NEW a \in Admins, NEW text \in Reason, PanelEdit(a, text) PROVE TypeOK'
    BY <1>18 DEF PanelEdit, AdminGoto, AdminRequest, votes, row
  <1>19. ASSUME NEW a \in Admins, PanelSave(a) PROVE TypeOK'
    <2>1. admin[a].reason \in Reason
      BY <1>19 DEF PanelSave, AdminAt, AdminRequest, Idle
    <2> QED
      BY <1>19, <2>1 DEF PanelSave, Marked, AdminGoto, AdminRequest, votes
  <1>20. CASE UNCHANGED vars
    BY <1>20 DEF vars
  <1> QED
    BY <1>1, <1>2, <1>3, <1>4, <1>5, <1>6, <1>7, <1>8, <1>9, <1>10, <1>11, <1>12,
       <1>13, <1>14, <1>15, <1>16, <1>17, <1>18, <1>19, <1>20
    DEF Next, Proceed

\* Every variable keeps its type (the rows, caches and requests of
\* FeatureRequestService), for any number of members, workers and readers.
THEOREM TypeCorrect == Spec => []TypeOK
  <1>1. Init => TypeOK
    BY DEF Init, TypeOK, Vote, Request, AdminRequest, Reason
  <1> QED
    BY <1>1, TypeStep, PTL DEF Spec

-----------------------------------------------------------------------------
\* A worker that moves to where it holds no lock, while the votes stay, or a
\* row that nobody holds changes, leaves the locks in order.
LEMMA LockKept ==
    ASSUME IInv, TypeOK', NEW w \in Workers,
           request' = [request EXCEPT ![w] = request'[w]],
           request'[w].pc # "write",
           \A m \in Members : Locked(m)' => vote'[m] = vote[m]
    PROVE  LockHeld'
  <1> SUFFICES ASSUME NEW x \in Workers, Holds(x)'
               PROVE  /\ vote'[request'[x].member] = request'[x].seen
                      /\ \A y \in Workers :
                            Holds(y)' /\ request'[y].member = request'[x].member => y = x
    BY DEF LockHeld
  <1>1. \A y \in Workers : Holds(y)' => y # w /\ request'[y] = request[y] /\ Holds(y)
    BY DEF Holds, At, IInv, TypeOK
  <1>2. PICK k \in Members : k = request[x].member
    BY <1>1, RequestType DEF Holds, At, IInv
  <1>3. Locked(k)'
    BY <1>1, <1>2 DEF Locked, Holds, At
  <1>4. vote'[k] = vote[k]
    BY <1>3
  <1> QED
    BY <1>1, <1>2, <1>4 DEF IInv, LockHeld

\* The lock is kept by every action.
LEMMA LockStep == IInv /\ TypeOK' /\ [Next]_vars => LockHeld'
  <1> SUFFICES ASSUME IInv, TypeOK', [Next]_vars PROVE LockHeld'
    OBVIOUS
  <1>0. TypeOK /\ request \in [Workers -> Request] /\ vote \in [Members -> Vote]
    BY DEF IInv, TypeOK
  <1>1. ASSUME NEW w \in Workers, NEW m \in Members,
               Unclick(w, m) \/ \E d \in Direction : Click(w, m, d)
        PROVE  LockHeld'
    <2>1. /\ vote' = vote /\ request' = [request EXCEPT ![w] = request'[w]]
          /\ request'[w].pc # "write"
      BY <1>0, <1>1 DEF Unclick, Click, Goto
    <2> QED
      BY <2>1, LockKept
  <1>2. ASSUME NEW w \in Workers, Retry(w) \/ Fail(w) \/ Forget(w) \/ Die(w)
        PROVE  LockHeld'
    <2>1. /\ vote' = vote /\ request' = [request EXCEPT ![w] = request'[w]]
          /\ request'[w].pc # "write"
      BY <1>0, <1>2 DEF Retry, Fail, Forget, Die, Finish, Goto, Idle
    <2> QED
      BY <2>1, LockKept
  <1>3. ASSUME NEW w \in Workers, LockedRead(w) PROVE LockHeld'
    <2> DEFINE k == request[w].member
    <2>1. k \in Members
      BY <1>0, <1>3, RequestType DEF LockedRead, At
    <2>2. /\ vote' = vote
          /\ \A x \in Workers \ {w} : request'[x] = request[x]
          /\ request'[w].member = k /\ request'[w].seen = vote[k]
          /\ request'[w].pc = "write"
      BY <1>0, <1>3 DEF LockedRead, Goto
    <2>3. \A x \in Workers : ~(Holds(x) /\ request[x].member = k)
      BY <1>3 DEF LockedRead, Locked, Holds
    <2>4. \A x \in Workers \ {w} : Holds(x)' <=> Holds(x)
      BY <2>2 DEF Holds, At
    <2> QED
      BY <2>2, <2>3, <2>4 DEF LockHeld, IInv
  <1>4. ASSUME NEW w \in Workers, Commit(w) PROVE LockHeld'
    <2>0. PICK k \in Members : k = request[w].member
      BY <1>0, <1>4, RequestType DEF Commit, At
    <2>1. At(w, "write")
      BY <1>4 DEF Commit
    <2>2. /\ \A m \in Members \ {k} : vote'[m] = vote[m]
          /\ request' = [request EXCEPT ![w] = request'[w]]
          /\ \A x \in Workers \ {w} : request'[x] = request[x]
          /\ request'[w].pc # "write"
          /\ request[w].seen = NoVote => vote[k] = NoVote
      BY <1>0, <1>4, <2>0 DEF Commit, Goto
    <2>3. ~Locked(k)'
      <3> SUFFICES ASSUME NEW x \in Workers, Holds(x)', request'[x].member = k
                   PROVE  FALSE
        BY DEF Locked, Holds
      <3>1. x # w /\ request'[x] = request[x] /\ Holds(x) /\ request[x].member = k
        BY <2>2 DEF Holds, At
      <3>2. vote[k] = request[x].seen /\ request[x].seen # NoVote
        BY <3>1 DEF IInv, LockHeld, Holds
      <3>3. Holds(w)
        BY <2>1, <2>2, <3>2 DEF Holds
      <3> QED
        BY <2>0, <3>1, <3>3 DEF IInv, LockHeld
    <2> QED
      BY <2>2, <2>3, LockKept
  <1>5. ASSUME NEW w \in Workers, Unvote(w) PROVE LockHeld'
    <2>0. PICK k \in Members : k = request[w].member
      BY <1>0, <1>5, RequestType DEF Unvote, At
    <2>1. /\ \A m \in Members \ {k} : vote'[m] = vote[m]
          /\ request' = [request EXCEPT ![w] = request'[w]]
          /\ \A x \in Workers \ {w} : request'[x] = request[x]
          /\ request'[w].pc # "write"
      BY <1>0, <1>5, <2>0 DEF Unvote, Goto, Finish, Idle
    <2>2. ~Locked(k)'
      BY <1>5, <2>0, <2>1 DEF Unvote, Locked, At
    <2> QED
      BY <2>1, <2>2, LockKept
  <1>6. ASSUME UNCHANGED votes PROVE LockHeld'
    BY <1>6 DEF votes, IInv, LockHeld, Holds, At
  <1>7. ASSUME NEW r \in Readers, Count(r) \/ Put(r) PROVE LockHeld'
    BY <1>6, <1>7 DEF Count, Put
  <1>8. CASE Expire
    BY <1>6, <1>8 DEF Expire
  <1>9. ASSUME NEW a \in Admins,
               \/ \E why \in Reasons : Delete(a, why)
               \/ DeleteMark(a) \/ DeleteRow(a)
               \/ Restore(a) \/ RestoreRow(a) \/ RestoreClear(a)
               \/ \E text \in Reason : PanelEdit(a, text)
               \/ PanelSave(a)
               \/ AdminForget(a) \/ BulkRestore(a) \/ AdminDie(a)
        PROVE  LockHeld'
    BY <1>6, <1>9
    DEF Delete, DeleteMark, DeleteRow, Restore, RestoreRow, RestoreClear,
        PanelEdit, PanelSave, AdminForget, BulkRestore, AdminDie, votes
  <1>10. CASE UNCHANGED vars
    BY <1>6, <1>10 DEF vars, votes
  <1> QED
    BY <1>1, <1>2, <1>3, <1>4, <1>5, <1>7, <1>8, <1>9, <1>10 DEF Next, Proceed

\* Types and locks together are inductive.
LEMMA Invariance == Spec => []IInv
  <1>1. Init => LockHeld
    BY DEF Init, LockHeld, Holds, At, Idle
  <1> QED
    BY <1>1, LockStep, TypeCorrect, PTL DEF Spec, IInv

-----------------------------------------------------------------------------
click == [w \in Workers |-> ClickOf(w)]

\* A worker's step shows in its own click and in no other.
LEMMA ClickOfOne ==
    ASSUME NEW w \in Workers, TypeOK,
           request' = [request EXCEPT ![w] = request'[w]]
    PROVE  click' = [click EXCEPT ![w] = ClickOf(w)']
  <1>1. \A x \in Workers \ {w} : request'[x] = request[x]
    BY DEF TypeOK
  <1>2. \A x \in Workers \ {w} : ClickOf(x)' = ClickOf(x)
    BY <1>1 DEF ClickOf
  <1> QED
    BY <1>2 DEF click

\* Every step is a step of the board or changes nothing there.
LEMMA BoardStep == IInv /\ [Next]_vars => [Board!Next]_<<vote, click>>
  <1> SUFFICES ASSUME IInv, [Next]_vars PROVE [Board!Next]_<<vote, click>>
    OBVIOUS
  <1>0. TypeOK /\ request \in [Workers -> Request] /\ vote \in [Members -> Vote]
    BY DEF IInv, TypeOK
  <1>a. \A w \in Workers : click[w] = ClickOf(w)
    BY DEF click
  <1>1. ASSUME NEW w \in Workers, NEW m \in Members, NEW d \in Direction, Click(w, m, d)
        PROVE  Board!Come(w)
    <2>1. click[w] = NoClick
      BY <1>1, <1>a DEF Click, At, ClickOf
    <2>2. /\ request' = [request EXCEPT ![w] = request'[w]]
          /\ ClickOf(w)' = [member |-> m, direction |-> d, outcome |-> "pending"]
      BY <1>0, <1>1 DEF Click, Goto, ClickOf
    <2>3. click' = [click EXCEPT ![w] = [member |-> m, direction |-> d,
                                         outcome |-> "pending"]]
      BY <1>0, <2>2, ClickOfOne
    <2> QED
      BY <1>1, <2>1, <2>3 DEF Board!Come, Click, click
  <1>2. ASSUME NEW w \in Workers, request' = [request EXCEPT ![w] = request'[w]],
               ClickOf(w)' = ClickOf(w)
        PROVE  click' = click
    BY <1>0, <1>2, ClickOfOne DEF click
  <1>3. ASSUME NEW w \in Workers, NEW m \in Members, Unclick(w, m)
        PROVE  UNCHANGED <<vote, click>>
    <2>1. /\ request' = [request EXCEPT ![w] = request'[w]]
          /\ ClickOf(w)' = ClickOf(w)
      BY <1>0, <1>3 DEF Unclick, Goto, ClickOf, At
    <2> QED
      BY <1>2, <1>3, <2>1 DEF Unclick
  <1>4. ASSUME NEW w \in Workers, LockedRead(w) \/ Retry(w)
        PROVE  UNCHANGED <<vote, click>>
    <2>1. /\ request' = [request EXCEPT ![w] = request'[w]]
          /\ ClickOf(w)' = ClickOf(w)
      BY <1>0, <1>4 DEF LockedRead, Retry, Goto, ClickOf, At
    <2> QED
      BY <1>2, <1>4, <2>1 DEF LockedRead, Retry
  <1>5. ASSUME NEW w \in Workers, Commit(w) PROVE Board!Act(w)
    <2> DEFINE k == request[w].member
               d == request[w].direction
               s == request[w].seen
    <2>1. k \in Members /\ d \in Direction /\ s \in Vote /\ At(w, "write")
      BY <1>0, <1>5, RequestType DEF Commit, At
    <2>2. vote[k] = s
      BY <1>5, <2>1 DEF Commit, IInv, LockHeld, Holds
    <2>3. click[w] = [member |-> k, direction |-> d, outcome |-> "pending"]
      BY <1>a, <2>1 DEF ClickOf, At
    <2>4. /\ request' = [request EXCEPT ![w] = request'[w]]
          /\ ClickOf(w)' = [member |-> k, direction |-> d, outcome |-> Outcome(s, d)]
      BY <1>0, <1>5 DEF Commit, Goto, ClickOf
    <2>5. click' = [click EXCEPT ![w] = [member |-> k, direction |-> d,
                                         outcome |-> Outcome(s, d)]]
      BY <1>0, <2>4, ClickOfOne
    <2>6. vote' = [vote EXCEPT ![k] = NewVote(s, d)]
      BY <1>5 DEF Commit
    <2>7. CASE s = NoVote
      BY <2>1, <2>2, <2>3, <2>5, <2>6, <2>7
      DEF Board!Act, NewVote, Outcome, Direction, NoVote, click
    <2>8. CASE s = d
      BY <2>1, <2>2, <2>3, <2>5, <2>6, <2>8
      DEF Board!Act, NewVote, Outcome, Direction, NoVote, click
    <2>9. CASE s # NoVote /\ s # d
      BY <2>1, <2>2, <2>3, <2>5, <2>6, <2>9
      DEF Board!Act, NewVote, Outcome, Direction, NoVote, click
    <2> QED
      BY <2>7, <2>8, <2>9
  <1>6. ASSUME NEW w \in Workers, Fail(w) \/ Forget(w) \/ Die(w) PROVE Board!Leave(w)
    <2>1. /\ request' = [request EXCEPT ![w] = request'[w]]
          /\ ClickOf(w)' = NoClick
      BY <1>0, <1>6 DEF Fail, Forget, Die, Finish, Goto, ClickOf, Idle
    <2>2. click' = [click EXCEPT ![w] = NoClick]
      BY <1>0, <2>1, ClickOfOne
    <2> QED
      BY <1>6, <2>2 DEF Board!Leave, Fail, Forget, Die, click
  <1>7. ASSUME NEW w \in Workers, Unvote(w) PROVE \E m \in Members : Board!Withdraw(m)
    <2>1. request[w].member \in Members
      BY <1>0, <1>7, RequestType DEF Unvote, At
    <2>2. /\ request' = [request EXCEPT ![w] = request'[w]]
          /\ ClickOf(w)' = ClickOf(w)
      BY <1>0, <1>7 DEF Unvote, Goto, Finish, ClickOf, Idle, At
    <2> QED
      BY <1>2, <1>7, <2>1, <2>2 DEF Board!Withdraw, Unvote, click
  <1>8. ASSUME UNCHANGED votes PROVE UNCHANGED <<vote, click>>
    BY <1>8 DEF votes, click, ClickOf
  <1>9. ASSUME NEW r \in Readers, Count(r) \/ Put(r) PROVE UNCHANGED <<vote, click>>
    BY <1>8, <1>9 DEF Count, Put
  <1>10. ASSUME Expire \/ UNCHANGED vars PROVE UNCHANGED <<vote, click>>
    BY <1>8, <1>10 DEF Expire, vars, votes
  <1>11. ASSUME NEW a \in Admins,
                \/ \E why \in Reasons : Delete(a, why)
                \/ DeleteMark(a) \/ DeleteRow(a)
                \/ Restore(a) \/ RestoreRow(a) \/ RestoreClear(a)
                \/ \E text \in Reason : PanelEdit(a, text)
                \/ PanelSave(a)
                \/ AdminForget(a) \/ BulkRestore(a) \/ AdminDie(a)
         PROVE  UNCHANGED <<vote, click>>
    BY <1>8, <1>11
    DEF Delete, DeleteMark, DeleteRow, Restore, RestoreRow, RestoreClear,
        PanelEdit, PanelSave, AdminForget, BulkRestore, AdminDie, votes
  <1> QED
    BY <1>1, <1>3, <1>4, <1>5, <1>6, <1>7, <1>9, <1>10, <1>11
    DEF Next, Proceed, Board!Next

\* However clicks race, deadlock, are retried or die, each takes effect at most
\* once, at one moment, and is answered by what it did (executeVote).
THEOREM Refinement == Spec => ImplementsBoard
  <1>1. Init => Board!Init
    BY DEF Init, Board!Init, ClickOf, Idle
  <1>2. IInv /\ [Next]_vars => [Board!Next]_(Board!boardVars)
    BY BoardStep DEF Board!boardVars, click
  <1> QED
    BY <1>1, <1>2, Invariance, PTL DEF Spec, ImplementsBoard, Board!Spec

-----------------------------------------------------------------------------
\* With one administrator, what was loaded is still what the row holds.
LEMMA AdminStep ==
    ASSUME OneAdmin, TypeOK, AdminInv, [Next]_vars PROVE AdminInv'
  <1> USE DEF AdminInv, AdminAt
  <1>1. ASSUME UNCHANGED <<trashed, reason, admin>> PROVE AdminInv'
    BY <1>1
  <1>2. ASSUME NEW a \in Admins, admin' = [admin EXCEPT ![a] = admin'[a]],
               admin'[a].pc \in {"mark", "restore", "clear"} => admin'[a].loaded = reason',
               admin'[a].pc = "delete" => reason' = admin'[a].reason,
               admin'[a].pc = "clear" => ~trashed'
        PROVE  AdminInv'
    BY <1>2 DEF OneAdmin, TypeOK
  <1>3. ASSUME NEW a \in Admins, \E why \in Reasons : Delete(a, why) PROVE AdminInv'
    BY <1>2, <1>3 DEF Delete, AdminGoto, row, TypeOK
  <1>4. ASSUME NEW a \in Admins, DeleteMark(a) PROVE AdminInv'
    <2>1. reason' = admin[a].reason
      BY <1>4 DEF DeleteMark, Marked
    <2> QED
      BY <1>2, <1>4, <2>1 DEF DeleteMark, AdminGoto, TypeOK
  <1>5. ASSUME NEW a \in Admins, DeleteRow(a) PROVE AdminInv'
    BY <1>2, <1>5 DEF DeleteRow, AdminGoto, TypeOK
  <1>6. ASSUME NEW a \in Admins,
               Restore(a) \/ RestoreRow(a) \/ RestoreClear(a)
        PROVE  AdminInv'
    BY <1>2, <1>6 DEF Restore, RestoreRow, RestoreClear, AdminGoto, row, TypeOK
  <1>7. ASSUME NEW a \in Admins,
               \/ \E text \in Reason : PanelEdit(a, text)
               \/ PanelSave(a) \/ AdminForget(a) \/ AdminDie(a)
        PROVE  AdminInv'
    BY <1>2, <1>7
    DEF PanelEdit, PanelSave, AdminForget, AdminDie, AdminGoto, Idle, row, TypeOK
  <1>8. ASSUME NEW a \in Admins, BulkRestore(a) PROVE AdminInv'
    BY <1>8 DEF BulkRestore
  <1>9. ASSUME NEW w \in Workers,
               \/ \E m \in Members, d \in Direction : Click(w, m, d)
               \/ \E m \in Members : Unclick(w, m)
               \/ Proceed(w) \/ Die(w)
        PROVE  AdminInv'
    BY <1>1, <1>9
    DEF Click, Unclick, Proceed, LockedRead, Commit, Retry, Fail, Forget, Unvote, Die, row
  <1>10. ASSUME NEW r \in Readers, Count(r) \/ Put(r) PROVE AdminInv'
    BY <1>1, <1>10 DEF Count, Put, row
  <1>11. ASSUME Expire \/ UNCHANGED vars PROVE AdminInv'
    BY <1>1, <1>11 DEF Expire, vars, row
  <1> QED
    BY <1>3, <1>4, <1>5, <1>6, <1>7, <1>8, <1>9, <1>10, <1>11 DEF Next

\* The last write of a deletion or a restoration finds the reason as it was
\* loaded or has just been saved.
LEMMA ReasonStep ==
    ASSUME TypeOK, AdminInv, [Next]_vars, NEW a \in Admins, admin'[a].pc = "forget"
    PROVE  /\ AdminAt(a, "delete") => trashed' /\ reason' = admin[a].reason
           /\ AdminAt(a, "clear") => ~trashed' /\ reason' = NoReason
  <1> USE DEF AdminAt
  <1>1. CASE admin'[a] = admin[a]
    BY <1>1
  <1>2. CASE DeleteRow(a)
    BY <1>2 DEF DeleteRow, AdminInv
  <1>3. CASE RestoreClear(a)
    BY <1>3 DEF RestoreClear, AdminInv
  <1>4. CASE \/ \E why \in Reasons : Delete(a, why)
             \/ DeleteMark(a) \/ Restore(a) \/ RestoreRow(a)
             \/ \E text \in Reason : PanelEdit(a, text)
             \/ PanelSave(a) \/ AdminForget(a) \/ AdminDie(a)
    BY <1>4
    DEF Delete, DeleteMark, Restore, RestoreRow, PanelEdit, PanelSave, AdminForget,
        AdminDie, AdminGoto, Idle, TypeOK
  <1>5. ASSUME NEW b \in Admins, b # a,
               \/ \E why \in Reasons : Delete(b, why)
               \/ DeleteMark(b) \/ DeleteRow(b)
               \/ Restore(b) \/ RestoreRow(b) \/ RestoreClear(b)
               \/ \E text \in Reason : PanelEdit(b, text)
               \/ PanelSave(b) \/ AdminForget(b) \/ AdminDie(b)
        PROVE  admin'[a] = admin[a]
    BY <1>5
    DEF Delete, DeleteMark, DeleteRow, Restore, RestoreRow, RestoreClear, PanelEdit,
        PanelSave, AdminForget, AdminDie, AdminGoto, TypeOK
  <1>6. ASSUME NEW w \in Workers,
               \/ \E m \in Members, d \in Direction : Click(w, m, d)
               \/ \E m \in Members : Unclick(w, m)
               \/ Proceed(w) \/ Die(w)
        PROVE  admin' = admin
    BY <1>6
    DEF Click, Unclick, Proceed, LockedRead, Commit, Retry, Fail, Forget, Unvote, Die
  <1>7. ASSUME \/ \E r \in Readers : Count(r) \/ Put(r)
               \/ \E b \in Admins : BulkRestore(b)
               \/ Expire \/ UNCHANGED vars
        PROVE  admin' = admin
    BY <1>7 DEF Count, Put, BulkRestore, Expire, vars
  <1> QED
    BY <1>1, <1>2, <1>3, <1>4, <1>5, <1>6, <1>7 DEF Next

\* With one administrator at a time, a deletion that has gone through leaves the
\* reason it was given and a restoration none, whatever had died, been emptied
\* or been restored in bulk before (softDelete, restore).
THEOREM ReasonRecorded ==
    ASSUME OneAdmin PROVE Spec => ReasonFollows
  <1>1. Init => AdminInv
    BY DEF Init, AdminInv, AdminAt, Idle
  <1>2. TypeOK /\ AdminInv /\ [Next]_vars => AdminInv'
    BY AdminStep
  <1>3. TypeOK /\ AdminInv /\ [Next]_vars =>
           \A a \in Admins :
              admin'[a].pc = "forget" =>
                 /\ AdminAt(a, "delete") => trashed' /\ reason' = admin[a].reason
                 /\ AdminAt(a, "clear") => ~trashed' /\ reason' = NoReason
    BY ReasonStep
  <1> QED
    BY <1>1, <1>2, <1>3, TypeCorrect, PTL DEF Spec, ReasonFollows
=============================================================================
