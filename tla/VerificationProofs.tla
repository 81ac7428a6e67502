------------------------- MODULE VerificationProofs -------------------------
(***************************************************************************)
(* Theorems about Verification for every set of users and workers and      *)
(* every value of the thresholds.                                          *)
(***************************************************************************)
EXTENDS Verification, SequenceTheorems, FiniteSetTheorems, TLAPS

(***************************************************************************)
(* What an action may do to the table: nothing, append a row, or cancel    *)
(* rows in place.                                                          *)
(***************************************************************************)
RowsKept ==
    /\ DOMAIN verifications \subseteq DOMAIN verifications'
    /\ \A i \in DOMAIN verifications :
         /\ verifications'[i].verifier = verifications[i].verifier
         /\ verifications'[i].user = verifications[i].user
         /\ verifications[i].cancelled => verifications'[i].cancelled

\* Appending a typed row keeps the type and every earlier row.
LEMMA InsertRow ==
    ASSUME verifications \in Seq(Row), NEW r \in Row,
           verifications' = Append(verifications, r)
    PROVE  /\ verifications' \in Seq(Row)
           /\ RowsKept
           /\ DOMAIN verifications' = DOMAIN verifications \cup {Len(verifications) + 1}
           /\ \A i \in DOMAIN verifications : verifications'[i] = verifications[i]
           /\ verifications'[Len(verifications) + 1] = r
           /\ Len(verifications') = Len(verifications) + 1
  BY DEF RowsKept

\* Cancelling one row keeps the type, the length and every endpoint.
LEMMA CancelRow ==
    ASSUME verifications \in Seq(Row), NEW k \in DOMAIN verifications,
           verifications' = [verifications EXCEPT ![k].cancelled = TRUE]
    PROVE  /\ verifications' \in Seq(Row)
           /\ RowsKept
           /\ DOMAIN verifications' = DOMAIN verifications
           /\ Len(verifications') = Len(verifications)
           /\ \A i \in DOMAIN verifications :
                i # k => verifications'[i] = verifications[i]
<1> DEFINE n == Len(verifications)
<1>1. n \in Nat /\ verifications \in [1..n -> Row] /\ DOMAIN verifications = 1..n
  BY LenProperties
<1>2. [verifications[k] EXCEPT !.cancelled = TRUE] \in Row
  BY <1>1 DEF Row
<1>3. verifications' = [verifications EXCEPT ![k] = [@ EXCEPT !.cancelled = TRUE]]
  OBVIOUS
<1>4. verifications' \in [1..n -> Row]
  BY <1>1, <1>2, <1>3
<1>5. verifications' \in Seq(Row) /\ DOMAIN verifications' = 1..n
  BY <1>1, <1>4, IsASeq
<1>6. Len(verifications') = n
  BY <1>1, <1>5, LenProperties
<1>7. /\ verifications'[k] = [verifications[k] EXCEPT !.cancelled = TRUE]
      /\ \A i \in DOMAIN verifications :
           i # k => verifications'[i] = verifications[i]
  BY <1>1, <1>3
<1>8. /\ verifications'[k].verifier = verifications[k].verifier
      /\ verifications'[k].user = verifications[k].user
      /\ verifications'[k].cancelled
  BY <1>1, <1>7 DEF Row
<1> QED
  BY <1>1, <1>5, <1>6, <1>7, <1>8 DEF RowsKept

\* So does cancelling every row of one verifier.
LEMMA CancelGiven ==
    ASSUME verifications \in Seq(Row), NEW u,
           verifications' =
               [i \in DOMAIN verifications |->
                   IF verifications[i].verifier = u
                   THEN [verifications[i] EXCEPT !.cancelled = TRUE]
                   ELSE verifications[i]]
    PROVE  /\ verifications' \in Seq(Row)
           /\ RowsKept
           /\ DOMAIN verifications' = DOMAIN verifications
           /\ Len(verifications') = Len(verifications)
           /\ \A i \in DOMAIN verifications :
                verifications[i].verifier # u => verifications'[i] = verifications[i]
<1> DEFINE n == Len(verifications)
<1>1. n \in Nat /\ verifications \in [1..n -> Row] /\ DOMAIN verifications = 1..n
  BY LenProperties
<1>2. \A i \in 1..n : [verifications[i] EXCEPT !.cancelled = TRUE] \in Row
  BY <1>1 DEF Row
<1>3. verifications' \in [1..n -> Row]
  BY <1>1, <1>2
<1>4. verifications' \in Seq(Row) /\ DOMAIN verifications' = 1..n
  BY <1>1, <1>3, IsASeq
<1>5. Len(verifications') = n
  BY <1>1, <1>4, LenProperties
<1>6. \A i \in 1..n :
         verifications'[i] = IF verifications[i].verifier = u
                             THEN [verifications[i] EXCEPT !.cancelled = TRUE]
                             ELSE verifications[i]
  BY <1>1
<1>7. RowsKept
  BY <1>1, <1>4, <1>6 DEF RowsKept, Row
<1> QED
  BY <1>1, <1>4, <1>5, <1>6, <1>7

\* A request that is well typed stays so when the table keeps its rows.
LEMMA RequestKept ==
    ASSUME RowsKept, NEW r \in Request
    PROVE  r \in Request'
  BY DEF RowsKept, Request, Idle

(***************************************************************************)
(* Type correctness                                                        *)
(***************************************************************************)
\* The seeded accounts, the empty table and the idle workers are well typed.
LEMMA InitType == Init => TypeOK
  BY UsersAssumption DEF Init, TypeOK, Request

\* Every statement of every request, and every edit of an administrator,
\* keeps the types.
LEMMA TypeStep == TypeOK /\ [Next]_vars => TypeOK'
<1> SUFFICES ASSUME TypeOK, [Next]_vars PROVE TypeOK'
  OBVIOUS
<1> USE DEF TypeOK, Goto, Finish, At, accounts
<1>0. Idle \in Request'
  BY DEF Request
<1>1. ASSUME NEW w \in Workers, NEW v \in Users, NEW t \in Users, VerifyCheck(w, v, t)
      PROVE  TypeOK'
  BY <1>1 DEF VerifyCheck, Request
<1>2. ASSUME NEW w \in Workers, VerifyInsert(w)
      PROVE  TypeOK'
  <2> DEFINE row == NewRow(request[w].actor, request[w].target)
  <2>1. request[w].actor \in Users /\ request[w].target \in Users
    BY <1>2 DEF VerifyInsert, Request, Idle
  <2>2. row \in Row
    BY <2>1 DEF Row, NewRow
  <2>3. verifications' = Append(verifications, row)
    BY <1>2 DEF VerifyInsert
  <2> HIDE DEF row
  <2>4. /\ verifications' \in Seq(Row)
        /\ RowsKept
        /\ NewId \in DOMAIN verifications'
    BY <2>2, <2>3, InsertRow DEF NewId
  <2>5. \A x \in Workers : request[x] \in Request'
    BY <2>4, RequestKept
  <2>6. [pc |-> "verify_count", actor |-> request[w].actor, row |-> NewId] \in Request'
    BY <2>1, <2>4 DEF Request
  <2>7. request' \in [Workers -> Request']
    BY <1>2, <1>0, <2>5, <2>6 DEF VerifyInsert
  <2> QED
    BY <1>2, <2>4, <2>7 DEF VerifyInsert
<1>3. ASSUME NEW w \in Workers, VerifyReject(w)
      PROVE  TypeOK'
  BY <1>0, <1>3 DEF VerifyReject, Request
<1>4. ASSUME NEW w \in Workers, VerifyCount(w)
      PROVE  TypeOK'
  BY <1>0, <1>4 DEF VerifyCount, Request, Idle
<1>5. ASSUME NEW w \in Workers, VerifyGrant(w)
      PROVE  TypeOK'
  <2>1. request[w].row \in DOMAIN verifications
    BY <1>5 DEF VerifyGrant, Request, Idle
  <2>2. verifications[request[w].row] \in Row
    BY <2>1, LenProperties
  <2>3. verifications[request[w].row].user \in Users
    BY <2>2 DEF Row
  <2> QED
    BY <1>0, <1>5, <2>3 DEF VerifyGrant, Request
<1>6. ASSUME NEW w \in Workers, NEW v \in Users, NEW i \in DOMAIN verifications,
             CancelLoad(w, v, i)
      PROVE  TypeOK'
  BY <1>6 DEF CancelLoad, Request
<1>7. ASSUME NEW w \in Workers, CancelMark(w)
      PROVE  TypeOK'
  <2>1. request[w].row \in DOMAIN verifications /\ request[w].actor \in Users
    BY <1>7 DEF CancelMark, Request, Idle
  <2>2. verifications' \in Seq(Row) /\ RowsKept
    BY <1>7, <2>1, CancelRow DEF CancelMark
  <2>3. \A x \in Workers : request[x] \in Request'
    BY <2>2, RequestKept
  <2>4. [request[w] EXCEPT !.pc = "cancel_read"] \in Request'
    <3>1. request[w] \in [pc : {"cancel_mark"}, actor : Users, row : DOMAIN verifications]
      BY <1>7 DEF CancelMark, Request, Idle
    <3>2. [request[w] EXCEPT !.pc = "cancel_read"]
            \in [pc : {"cancel_read"}, actor : Users, row : DOMAIN verifications]
      BY <3>1
    <3> QED
      BY <2>2, <3>2 DEF RowsKept, Request
  <2>5. request' \in [Workers -> Request']
    BY <1>7, <2>3, <2>4 DEF CancelMark
  <2> QED
    BY <1>7, <2>2, <2>5 DEF CancelMark
<1>8. ASSUME NEW w \in Workers, CancelRead(w)
      PROVE  TypeOK'
  BY <1>0, <1>8 DEF CancelRead, Request, Idle
<1>9. ASSUME NEW w \in Workers, CancelRevoke(w)
      PROVE  TypeOK'
  BY <1>0, <1>9 DEF CancelRevoke, Request
<1>10. ASSUME NEW w \in Workers, NEW u \in Users, BasicLoad(w, u)
       PROVE  TypeOK'
  BY <1>10 DEF BasicLoad, Request
<1>11. ASSUME NEW w \in Workers, BasicCancel(w)
       PROVE  TypeOK'
  <2>1. request[w].actor \in Users
    BY <1>11 DEF BasicCancel, Request, Idle
  <2>2. verifications' \in Seq(Row) /\ RowsKept
    BY <1>11, CancelGiven DEF BasicCancel
  <2>3. \A x \in Workers : request[x] \in Request'
    BY <2>2, RequestKept
  <2>4. [request[w] EXCEPT !.pc = "basic_revoke"] \in Request'
    <3>1. request[w] \in [pc : {"basic_cancel"}, actor : Users,
                          loaded : {"verified", "unverified"}]
      BY <1>11 DEF BasicCancel, Request, Idle
    <3>2. [request[w] EXCEPT !.pc = "basic_revoke"]
            \in [pc : {"basic_revoke"}, actor : Users,
                 loaded : {"verified", "unverified"}]
      BY <3>1
    <3> QED
      BY <3>2 DEF Request
  <2>5. request' \in [Workers -> Request']
    BY <1>11, <2>3, <2>4 DEF BasicCancel
  <2> QED
    BY <1>11, <2>1, <2>2, <2>5 DEF BasicCancel
<1>12. ASSUME NEW w \in Workers, BasicRevoke(w)
       PROVE  TypeOK'
  BY <1>0, <1>12 DEF BasicRevoke, Request
<1>13. ASSUME NEW u \in Edited, AdminSave(u)
       PROVE  TypeOK'
  BY <1>13, UsersAssumption DEF AdminSave, Request
<1>14. CASE UNCHANGED vars
  BY <1>14 DEF vars, Request
<1> QED
  BY <1>1, <1>2, <1>3, <1>4, <1>5, <1>6, <1>7, <1>8, <1>9, <1>10, <1>11, <1>12,
     <1>13, <1>14
     DEF Next, MemberNext, Verify, Cancel, UpdateBasicInfo

\* The table holds rows between accounts and every request refers to an
\* account or a row that exists, whatever requests and edits interleave.
THEOREM TypeCorrect == Spec => []TypeOK
  BY InitType, TypeStep, PTL DEF Spec

(***************************************************************************)
(* The audit trail                                                         *)
(***************************************************************************)

\* No step removes or redirects a row, or makes a cancelled one active.
LEMMA RowsAlwaysKept ==
    TypeOK /\ [Next]_vars => RowsKept /\ Len(verifications') >= Len(verifications)
<1> SUFFICES ASSUME TypeOK, [Next]_vars
             PROVE  RowsKept /\ Len(verifications') >= Len(verifications)
  OBVIOUS
<1>0. verifications \in Seq(Row) /\ Len(verifications) \in Nat
  BY LenProperties DEF TypeOK
<1>1. CASE UNCHANGED verifications
  BY <1>0, <1>1 DEF RowsKept
<1>2. ASSUME NEW w \in Workers, VerifyInsert(w)
      PROVE  RowsKept /\ Len(verifications') >= Len(verifications)
  <2>1. NewRow(request[w].actor, request[w].target) \in Row
    BY <1>2 DEF VerifyInsert, At, TypeOK, Request, Idle, Row, NewRow
  <2> QED
    BY <1>0, <1>2, <2>1, InsertRow DEF VerifyInsert
<1>3. ASSUME NEW w \in Workers, CancelMark(w)
      PROVE  RowsKept /\ Len(verifications') >= Len(verifications)
  <2>1. request[w].row \in DOMAIN verifications
    BY <1>3 DEF CancelMark, At, TypeOK, Request, Idle
  <2>2. verifications' = [verifications EXCEPT ![request[w].row].cancelled = TRUE]
    BY <1>3 DEF CancelMark
  <2>3. RowsKept /\ Len(verifications') = Len(verifications)
    BY <1>0, <2>1, <2>2, CancelRow
  <2> QED
    BY <1>0, <2>3
<1>4. ASSUME NEW w \in Workers, BasicCancel(w)
      PROVE  RowsKept /\ Len(verifications') >= Len(verifications)
  <2>1. RowsKept /\ Len(verifications') = Len(verifications)
    BY <1>0, <1>4, CancelGiven DEF BasicCancel
  <2> QED
    BY <1>0, <2>1
<1> QED
  BY <1>1, <1>2, <1>3, <1>4
     DEF Next, MemberNext, Verify, Cancel, UpdateBasicInfo, VerifyCheck, VerifyReject,
         VerifyCount, VerifyGrant, CancelLoad, CancelRead, CancelRevoke, BasicLoad,
         BasicRevoke, AdminSave, vars

\* A cancellation under way concerns a row its actor gave: what the service
\* checked when it loaded the row cannot change before it saves.
MarksOwnRow ==
    \A w \in Workers :
        At(w, "cancel_mark") => verifications[request[w].row].verifier = request[w].actor

\* Only loading a cancellation puts a worker at "cancel_mark".
LEMMA ReachesMark ==
    ASSUME TypeOK, [Next]_vars, NEW x \in Workers, At(x, "cancel_mark")'
    PROVE  \/ request'[x] = request[x]
           \/ \E v \in Users, i \in DOMAIN verifications : CancelLoad(x, v, i)
<1> USE DEF TypeOK, At, Goto, Finish, Idle
<1>1. ASSUME NEW w \in Workers, Verify(w)
      PROVE  request'[x] = request[x]
  BY <1>1 DEF Verify, VerifyCheck, VerifyInsert, VerifyReject, VerifyCount, VerifyGrant,
              Request
<1>2. ASSUME NEW w \in Workers, Cancel(w)
      PROVE  \/ request'[x] = request[x]
             \/ \E v \in Users, i \in DOMAIN verifications : CancelLoad(x, v, i)
  <2>1. ASSUME NEW v \in Users, NEW i \in DOMAIN verifications, CancelLoad(w, v, i)
        PROVE  request'[x] = request[x] \/ CancelLoad(x, v, i)
    BY <2>1 DEF CancelLoad
  <2>2. CASE CancelMark(w) \/ CancelRead(w) \/ CancelRevoke(w)
    BY <2>2 DEF CancelMark, CancelRead, CancelRevoke, Request
  <2> QED
    BY <1>2, <2>1, <2>2 DEF Cancel
<1>3. ASSUME NEW w \in Workers, UpdateBasicInfo(w)
      PROVE  request'[x] = request[x]
  BY <1>3 DEF UpdateBasicInfo, BasicLoad, BasicCancel, BasicRevoke, Request
<1>4. CASE (\E u \in Edited : AdminSave(u)) \/ UNCHANGED vars
  BY <1>4 DEF AdminSave, vars
<1> QED
  BY <1>1, <1>2, <1>3, <1>4 DEF Next, MemberNext

\* No cancellation is under way at first.
LEMMA MarksOwnRowInit == Init => MarksOwnRow
  BY DEF Init, MarksOwnRow, At, Idle

\* No step redirects a row a cancellation has loaded, and a cancellation only
\* loads a row of its actor.
LEMMA MarksOwnRowStep == TypeOK /\ MarksOwnRow /\ [Next]_vars => MarksOwnRow'
<1> SUFFICES ASSUME TypeOK, MarksOwnRow, [Next]_vars,
                    NEW x \in Workers, At(x, "cancel_mark")'
             PROVE  verifications'[request'[x].row].verifier = request'[x].actor
  BY DEF MarksOwnRow, At
<1>1. RowsKept
  BY RowsAlwaysKept
<1>2. CASE request'[x] = request[x]
  <2>1. At(x, "cancel_mark")
    BY <1>2 DEF At
  <2>2. request[x].row \in DOMAIN verifications
    BY <2>1 DEF At, TypeOK, Request, Idle
  <2> QED
    BY <1>1, <1>2, <2>1, <2>2 DEF MarksOwnRow, RowsKept
<1>3. ASSUME NEW v \in Users, NEW i \in DOMAIN verifications, CancelLoad(x, v, i)
      PROVE  verifications'[request'[x].row].verifier = request'[x].actor
  BY <1>3 DEF CancelLoad, Goto, TypeOK
<1> QED
  BY <1>2, <1>3, ReachesMark

\* One step of the audit trail.
TrailStep ==
    /\ Len(verifications') >= Len(verifications)
    /\ \A i \in DOMAIN verifications :
          /\ verifications'[i].verifier = verifications[i].verifier
          /\ verifications'[i].user = verifications[i].user
          /\ verifications[i].cancelled => verifications'[i].cancelled
          /\ verifications'[i].cancelled # verifications[i].cancelled =>
                \E w \in Workers :
                    /\ request[w].pc \in {"cancel_mark", "basic_cancel"}
                    /\ request[w].actor = verifications[i].verifier

\* Each step keeps the audit trail.
LEMMA TrailNext == TypeOK /\ MarksOwnRow /\ [Next]_vars => TrailStep
<1> SUFFICES ASSUME TypeOK, MarksOwnRow, [Next]_vars PROVE TrailStep
  OBVIOUS
<1>1. RowsKept /\ Len(verifications') >= Len(verifications)
  BY RowsAlwaysKept
<1>2. verifications \in Seq(Row)
  BY DEF TypeOK
<1> SUFFICES ASSUME NEW i \in DOMAIN verifications,
                    verifications'[i].cancelled # verifications[i].cancelled
             PROVE  \E w \in Workers :
                        /\ request[w].pc \in {"cancel_mark", "basic_cancel"}
                        /\ request[w].actor = verifications[i].verifier
  BY <1>1 DEF TrailStep, RowsKept
<1>3. ASSUME NEW w \in Workers, VerifyInsert(w)
      PROVE  FALSE
  <2>1. NewRow(request[w].actor, request[w].target) \in Row
    BY <1>3 DEF VerifyInsert, At, TypeOK, Request, Idle, Row, NewRow
  <2>2. verifications'[i] = verifications[i]
    BY <1>2, <1>3, <2>1, InsertRow DEF VerifyInsert
  <2> QED
    BY <2>2
<1>4. ASSUME NEW w \in Workers, CancelMark(w)
      PROVE  request[w].pc = "cancel_mark" /\ request[w].actor = verifications[i].verifier
  <2>1. At(w, "cancel_mark") /\ request[w].row \in DOMAIN verifications
    BY <1>4 DEF CancelMark, At, TypeOK, Request, Idle
  <2>2. i = request[w].row
    BY <1>2, <1>4, <2>1, CancelRow DEF CancelMark
  <2> QED
    BY <2>1, <2>2 DEF MarksOwnRow, At
<1>5. ASSUME NEW w \in Workers, BasicCancel(w)
      PROVE  request[w].pc = "basic_cancel" /\ request[w].actor = verifications[i].verifier
  BY <1>2, <1>5, CancelGiven DEF BasicCancel, At
<1>6. CASE UNCHANGED verifications
  BY <1>6
<1> QED
  BY <1>3, <1>4, <1>5, <1>6
     DEF Next, MemberNext, Verify, Cancel, UpdateBasicInfo, VerifyCheck, VerifyReject,
         VerifyCount, VerifyGrant, CancelLoad, CancelRead, CancelRevoke, BasicLoad,
         BasicRevoke, AdminSave, vars

\* No interleaving of requests and edits erases or rewrites a verification,
\* revives a cancelled one, or cancels one in the name of another member.
THEOREM AuditTrailKept == Spec => AuditTrail
<1>1. Init => TypeOK /\ MarksOwnRow
  BY InitType, MarksOwnRowInit
<1>2. TypeOK /\ MarksOwnRow /\ [Next]_vars => (TypeOK /\ MarksOwnRow)'
  BY TypeStep, MarksOwnRowStep
<1>3. TypeOK /\ MarksOwnRow /\ [Next]_vars => [TrailStep]_vars
  BY TrailNext
<1>4. Spec => [][TrailStep]_vars
  BY <1>1, <1>2, <1>3, PTL DEF Spec
<1> QED
  BY <1>4 DEF AuditTrail, TrailStep

(***************************************************************************)
(* The chain of trust                                                      *)
(***************************************************************************)
RootedUser(u) == u \in Roots \/ Verifiers(u) # {}

\* TrustRooted is not inductive: a row is inserted for a verifier who was
\* verified when the middleware ran, and may not be any more.  What remains
\* true of that verifier is the row they once received.
TrustInv ==
    /\ TypeOK
    /\ TrustRooted
    /\ \A w \in Workers : At(w, "verify_insert") => RootedUser(request[w].actor)

\* The seeded users are first registrants, and there is no row.
LEMMA TrustInit == Init => TrustInv
<1> SUFFICES ASSUME Init PROVE TrustInv
  OBVIOUS
<1>1. TypeOK
  BY InitType
<1>2. TrustRooted
  BY DEF Init, TrustRooted, Roots
<1>3. \A w \in Workers : ~At(w, "verify_insert")
  BY DEF Init, At, Idle
<1> QED
  BY <1>1, <1>2, <1>3 DEF TrustInv

\* Rows are kept, so a rooted user stays rooted.
LEMMA RootedKept ==
    ASSUME RowsKept, Roots' = Roots, NEW u, RootedUser(u)
    PROVE  RootedUser(u)'
  BY DEF RowsKept, RootedUser, Verifiers

\* When no row is added, the rows that were rooted are.
LEMMA RowsRooted ==
    ASSUME RowsKept, Roots' = Roots, TrustRooted, TypeOK,
           DOMAIN verifications' = DOMAIN verifications,
           NEW i \in DOMAIN verifications'
    PROVE  \/ verifications'[i].verifier \in Roots'
           \/ \E j \in 1..(i - 1) : verifications'[j].user = verifications'[i].verifier
<1>1. DOMAIN verifications = 1..Len(verifications) /\ Len(verifications) \in Nat
  BY LenProperties DEF TypeOK
<1>2. CASE verifications[i].verifier \in Roots
  BY <1>2 DEF RowsKept
<1>3. ASSUME NEW j \in 1..(i - 1), verifications[j].user = verifications[i].verifier
      PROVE  verifications'[j].user = verifications'[i].verifier
  <2>1. j \in DOMAIN verifications
    BY <1>1
  <2> QED
    BY <1>3, <2>1 DEF RowsKept
<1> QED
  BY <1>2, <1>3 DEF TrustRooted

\* A step that adds no row, verifies nobody and admits no request.
LEMMA QuietStep ==
    ASSUME TrustInv, TypeOK', RowsKept, Roots' = Roots,
           DOMAIN verifications' = DOMAIN verifications,
           \A u \in verified' : u \in verified \/ RootedUser(u),
           \A x \in Workers :
               At(x, "verify_insert")' =>
                   request'[x] = request[x] \/ RootedUser(request'[x].actor)
    PROVE  TrustInv'
<1>1. TrustRooted'
  <2>1. \A u \in verified : RootedUser(u)
    BY DEF TrustInv, TrustRooted, RootedUser
  <2>2. \A u \in verified' : RootedUser(u)'
    BY <2>1, RootedKept
  <2>3. \A i \in DOMAIN verifications' :
          \/ verifications'[i].verifier \in Roots'
          \/ \E j \in 1..(i - 1) : verifications'[j].user = verifications'[i].verifier
    BY RowsRooted DEF TrustInv
  <2> QED
    BY <2>2, <2>3 DEF TrustRooted, RootedUser
<1>2. ASSUME NEW x \in Workers, At(x, "verify_insert")'
      PROVE  RootedUser(request[x].actor)'
  <2>1. RootedUser(request'[x].actor)
    BY <1>2 DEF TrustInv, At
  <2>2. \A u : RootedUser(u) => RootedUser(u)'
    BY RootedKept
  <2> QED
    BY <2>1, <2>2 DEF RootedUser, Verifiers
<1> QED
  BY <1>1, <1>2 DEF TrustInv

\* The row of an admitted request has a rooted verifier, and makes its
\* recipient rooted.
LEMMA TrustInsert ==
    ASSUME TrustInv, TypeOK', NEW w \in Workers, VerifyInsert(w)
    PROVE  TrustInv'
<1> DEFINE v == request[w].actor
           t == request[w].target
           n == Len(verifications)
<1>0. /\ verifications \in Seq(Row)
      /\ n \in Nat
      /\ DOMAIN verifications = 1..n
  BY LenProperties DEF TrustInv, TypeOK
<1>1. v \in Users /\ t \in Users /\ RootedUser(v)
  BY DEF TrustInv, VerifyInsert, At, TypeOK, Request, Idle
<1>2. NewRow(v, t) \in Row
  BY <1>1 DEF NewRow, Row
<1>3. verifications' = Append(verifications, NewRow(v, t))
  BY DEF VerifyInsert
<1>4. /\ RowsKept
      /\ DOMAIN verifications' = 1..(n + 1)
      /\ \A i \in 1..n : verifications'[i] = verifications[i]
      /\ verifications'[n + 1] = NewRow(v, t)
  <2>1. DOMAIN verifications' = DOMAIN verifications \cup {n + 1}
    BY <1>0, <1>2, <1>3, InsertRow
  <2>2. DOMAIN verifications' = 1..(n + 1)
    BY <1>0, <2>1
  <2> QED
    BY <1>0, <1>2, <1>3, <2>2, InsertRow
<1>5. Roots' = Roots /\ verified' = verified
  BY DEF VerifyInsert, accounts, Roots
<1>6. ASSUME NEW i \in DOMAIN verifications'
      PROVE  \/ verifications'[i].verifier \in Roots'
             \/ \E j \in 1..(i - 1) : verifications'[j].user = verifications'[i].verifier
  <2>1. CASE i = n + 1
    <3>1. verifications'[i].verifier = v
      BY <1>4, <2>1 DEF NewRow
    <3>2. CASE v \in Roots
      BY <1>5, <3>1, <3>2
    <3>3. CASE Verifiers(v) # {}
      <4>1. PICK j \in 1..n : verifications[j].user = v
        BY <1>0, <3>3 DEF Verifiers
      <4>2. j \in 1..(i - 1) /\ verifications'[j].user = v
        BY <1>0, <1>4, <2>1, <4>1
      <4> QED
        BY <3>1, <4>2
    <3> QED
      BY <1>1, <3>2, <3>3 DEF RootedUser
  <2>2. CASE i \in 1..n
    <3>1. verifications'[i] = verifications[i]
      BY <1>4, <2>2
    <3>2. \A j \in 1..(i - 1) : verifications'[j] = verifications[j]
      BY <1>0, <1>4, <2>2
    <3> QED
      BY <1>0, <1>5, <2>2, <3>1, <3>2 DEF TrustInv, TrustRooted
  <2> QED
    BY <1>0, <1>4, <2>1, <2>2
<1>7. ASSUME NEW u \in verified' \ Roots'
      PROVE  Verifiers(u)' # {}
  <2>1. RootedUser(u)
    BY <1>5, <1>7 DEF TrustInv, TrustRooted, RootedUser
  <2> QED
    BY <1>4, <1>5, <1>7, <2>1, RootedKept DEF RootedUser
<1>8. ASSUME NEW x \in Workers, At(x, "verify_insert")'
      PROVE  RootedUser(request[x].actor)'
  <2>1. x # w /\ request'[x] = request[x]
    BY <1>8 DEF VerifyInsert, At, Goto, Finish, Idle, TrustInv, TypeOK
  <2>2. RootedUser(request[x].actor)
    BY <1>8, <2>1 DEF TrustInv, At
  <2>3. \A u : RootedUser(u) => RootedUser(u)'
    BY <1>4, <1>5, RootedKept
  <2> QED
    BY <2>1, <2>2, <2>3 DEF RootedUser, Verifiers
<1>9. TrustRooted'
  BY <1>6, <1>7 DEF TrustRooted
<1> QED
  BY <1>8, <1>9 DEF TrustInv

\* Every request of a member keeps trust rooted.
LEMMA TrustStep == TrustInv /\ [Next]_vars => TrustInv'
<1> SUFFICES ASSUME TrustInv, [Next]_vars PROVE TrustInv'
  OBVIOUS
<1>0. TypeOK /\ TypeOK' /\ RowsKept
  BY TypeStep, RowsAlwaysKept DEF TrustInv
<1>1. verifications \in Seq(Row)
  BY <1>0 DEF TypeOK
<1>2. \A u \in verified : RootedUser(u)
  BY DEF TrustInv, TrustRooted, RootedUser
<1> USE DEF At, Goto, Finish, accounts, Roots
<1>3. ASSUME NEW w \in Workers, NEW v \in Users, NEW t \in Users, VerifyCheck(w, v, t)
      PROVE  TrustInv'
  <2>1. RootedUser(v)
    BY <1>2, <1>3 DEF VerifyCheck, CanUserVerify, CanVerify
  <2>2. \A x \in Workers :
          request'[x] = request[x] \/ RootedUser(request'[x].actor)
    BY <1>0, <1>3, <2>1 DEF VerifyCheck, TypeOK
  <2> QED
    BY <1>0, <1>3, <2>2, QuietStep DEF VerifyCheck
<1>4. ASSUME NEW w \in Workers, VerifyInsert(w)
      PROVE  TrustInv'
  BY <1>0, <1>4, TrustInsert
<1>5. ASSUME NEW w \in Workers, VerifyReject(w) \/ VerifyCount(w)
      PROVE  TrustInv'
  <2>1. \A x \in Workers : At(x, "verify_insert")' => request'[x] = request[x]
    BY <1>0, <1>5 DEF VerifyReject, VerifyCount, TypeOK, Request, Idle
  <2> QED
    BY <1>0, <1>5, <2>1, QuietStep DEF VerifyReject, VerifyCount
<1>6. ASSUME NEW w \in Workers, VerifyGrant(w)
      PROVE  TrustInv'
  <2>1. \A x \in Workers : At(x, "verify_insert")' => request'[x] = request[x]
    BY <1>0, <1>6 DEF VerifyGrant, TypeOK, Idle
  <2>2. request[w].row \in DOMAIN verifications
    BY <1>0, <1>6 DEF VerifyGrant, TypeOK, Request, Idle
  <2>3. RootedUser(verifications[request[w].row].user)
    BY <2>2 DEF RootedUser, Verifiers
  <2> QED
    BY <1>0, <1>6, <2>1, <2>3, QuietStep DEF VerifyGrant
<1>7. ASSUME NEW w \in Workers, NEW v \in Users, NEW i \in DOMAIN verifications,
             CancelLoad(w, v, i)
      PROVE  TrustInv'
  <2>1. \A x \in Workers : At(x, "verify_insert")' => request'[x] = request[x]
    BY <1>0, <1>7 DEF CancelLoad, TypeOK
  <2> QED
    BY <1>0, <1>7, <2>1, QuietStep DEF CancelLoad
<1>8. ASSUME NEW w \in Workers, CancelMark(w)
      PROVE  TrustInv'
  <2>1. \A x \in Workers : At(x, "verify_insert")' => request'[x] = request[x]
    BY <1>0, <1>8 DEF CancelMark, TypeOK, Request, Idle
  <2>2. request[w].row \in DOMAIN verifications
    BY <1>0, <1>8 DEF CancelMark, TypeOK, Request, Idle
  <2>3. verifications' = [verifications EXCEPT ![request[w].row].cancelled = TRUE]
    BY <1>8 DEF CancelMark
  <2>4. DOMAIN verifications' = DOMAIN verifications
    BY <2>3
  <2> QED
    BY <1>0, <1>8, <2>1, <2>4, QuietStep DEF CancelMark
<1>9. ASSUME NEW w \in Workers, CancelRead(w) \/ CancelRevoke(w)
      PROVE  TrustInv'
  <2>1. \A x \in Workers : At(x, "verify_insert")' => request'[x] = request[x]
    BY <1>0, <1>9 DEF CancelRead, CancelRevoke, TypeOK, Request, Idle
  <2> QED
    BY <1>0, <1>9, <2>1, QuietStep DEF CancelRead, CancelRevoke
<1>10. ASSUME NEW w \in Workers, NEW u \in Users, BasicLoad(w, u)
       PROVE  TrustInv'
  <2>1. \A x \in Workers : At(x, "verify_insert")' => request'[x] = request[x]
    BY <1>0, <1>10 DEF BasicLoad, TypeOK
  <2> QED
    BY <1>0, <1>10, <2>1, QuietStep DEF BasicLoad
<1>11. ASSUME NEW w \in Workers, BasicCancel(w)
       PROVE  TrustInv'
  <2>1. \A x \in Workers : At(x, "verify_insert")' => request'[x] = request[x]
    BY <1>0, <1>11 DEF BasicCancel, TypeOK, Request, Idle
  <2>2. DOMAIN verifications' = DOMAIN verifications
    BY <1>11 DEF BasicCancel
  <2> QED
    BY <1>0, <1>11, <2>1, <2>2, QuietStep DEF BasicCancel
<1>12. ASSUME NEW w \in Workers, BasicRevoke(w)
       PROVE  TrustInv'
  <2>1. \A x \in Workers : At(x, "verify_insert")' => request'[x] = request[x]
    BY <1>0, <1>12 DEF BasicRevoke, TypeOK, Idle
  <2> QED
    BY <1>0, <1>12, <2>1, QuietStep DEF BasicRevoke
<1>13. ASSUME NEW u \in Edited, AdminSave(u)
       PROVE  TrustInv'
  <2>1. Roots' = Roots
    BY <1>13 DEF AdminSave
  <2>2. \A x \in verified' : x \in verified \/ RootedUser(x)
    BY <1>13 DEF AdminSave, RootedUser
  <2> QED
    BY <1>0, <1>13, <2>1, <2>2, QuietStep DEF AdminSave
<1>14. CASE UNCHANGED vars
  BY <1>0, <1>14, QuietStep DEF vars
<1> QED
  BY <1>3, <1>4, <1>5, <1>6, <1>7, <1>8, <1>9, <1>10, <1>11, <1>12, <1>13, <1>14
     DEF Next, MemberNext, Verify, Cancel, UpdateBasicInfo

\* However many requests overlap, and whatever profile updates cancel and
\* administrators write, every verification and every verified status descends
\* through earlier rows from a first registrant or an edited member.
THEOREM TrustAlwaysRooted == Spec => []TrustRooted
<1>1. TrustInv => TrustRooted
  BY DEF TrustInv
<1> QED
  BY <1>1, TrustInit, TrustStep, PTL DEF Spec

-----------------------------------------------------------------------------
(***************************************************************************)
(* How far concurrent requests can exceed what canUserVerify checks.       *)
(***************************************************************************)

(***************************************************************************)
(* Active rows of v for users in T, and the requests admitted for them     *)
(* whose row is still to come.                                             *)
(***************************************************************************)
RowsOf(v, T) == {i \in ActiveVerifications(v) : verifications[i].user \in T}

PendingOf(v, T) ==
    {w \in Workers : /\ At(w, "verify_insert")
                     /\ request[w].actor = v
                     /\ request[w].target \in T}

Load(v, T) == Cardinality(RowsOf(v, T)) + Cardinality(PendingOf(v, T))

\* The sets that are counted are finite.
LEMMA Finite ==
    ASSUME TypeOK, NEW v, NEW T
    PROVE  /\ IsFiniteSet(RowsOf(v, T)) /\ Cardinality(RowsOf(v, T)) \in Nat
           /\ IsFiniteSet(PendingOf(v, T)) /\ Cardinality(PendingOf(v, T)) \in Nat
           /\ Cardinality(PendingOf(v, T)) <= Cardinality(Workers)
           /\ Cardinality(Workers) \in Nat \ {0}
<1>1. DOMAIN verifications = 1..Len(verifications) /\ Len(verifications) \in Nat
  BY LenProperties DEF TypeOK
<1>2. IsFiniteSet(1..Len(verifications))
  BY <1>1, FS_Interval
<1>3. RowsOf(v, T) \subseteq 1..Len(verifications)
  BY <1>1 DEF RowsOf, ActiveVerifications
<1>4. PendingOf(v, T) \subseteq Workers
  BY DEF PendingOf
<1>5. IsFiniteSet(Workers) /\ Workers # {}
  BY UsersAssumption
<1> QED
  BY <1>2, <1>3, <1>4, <1>5, FS_Subset, FS_CardinalityType, FS_EmptySet

\* A load is a natural number.
LEMMA LoadNat == TypeOK => \A v, T : Load(v, T) \in Nat
<1> SUFFICES ASSUME TypeOK, NEW v, NEW T PROVE Load(v, T) \in Nat
  OBVIOUS
<1>1. Cardinality(RowsOf(v, T)) \in Nat /\ Cardinality(PendingOf(v, T)) \in Nat
  BY Finite
<1> QED
  BY <1>1 DEF Load

\* A step that adds no row and admits no request cannot raise the load.
LEMMA LoadFalls ==
    ASSUME TypeOK, TypeOK', NEW v, NEW T,
           RowsOf(v, T)' \subseteq RowsOf(v, T),
           PendingOf(v, T)' \subseteq PendingOf(v, T)
    PROVE  Load(v, T)' <= Load(v, T)
<1>1. /\ Cardinality(RowsOf(v, T)') <= Cardinality(RowsOf(v, T))
      /\ Cardinality(PendingOf(v, T)') <= Cardinality(PendingOf(v, T))
  BY Finite, FS_Subset
<1>2. /\ Cardinality(RowsOf(v, T)) \in Nat /\ Cardinality(PendingOf(v, T)) \in Nat
      /\ Cardinality(RowsOf(v, T)') \in Nat /\ Cardinality(PendingOf(v, T)') \in Nat
  BY Finite, <1>1, FS_Subset, FS_CardinalityType
<1> QED
  BY <1>1, <1>2 DEF Load

\* Keeping rows and adding none, a step can only take active rows away.
LEMMA RowsOfFall ==
    ASSUME RowsKept, DOMAIN verifications' = DOMAIN verifications, TypeOK, TypeOK',
           NEW v, NEW T
    PROVE  RowsOf(v, T)' \subseteq RowsOf(v, T)
<1>1. \A i \in DOMAIN verifications :
         /\ verifications[i] \in Row
         /\ verifications'[i] \in Row
  BY LenProperties DEF TypeOK, Row
<1> QED
  BY <1>1 DEF RowsKept, RowsOf, ActiveVerifications, Active, Row

\* The insertion turns a pending request into a row: the load is unchanged.
LEMMA LoadMoves ==
    ASSUME TypeOK, TypeOK', NEW w \in Workers, VerifyInsert(w), NEW v, NEW T
    PROVE  Load(v, T)' <= Load(v, T)
<1> DEFINE u == request[w].actor
           t == request[w].target
           n == Len(verifications)
<1>1. verifications \in Seq(Row) /\ n \in Nat /\ DOMAIN verifications = 1..n
  BY LenProperties DEF TypeOK
<1>2. u \in Users /\ t \in Users /\ At(w, "verify_insert")
  BY DEF VerifyInsert, At, TypeOK, Request, Idle
<1>3. NewRow(u, t) \in Row
  BY <1>2 DEF NewRow, Row
<1>4. verifications' = Append(verifications, NewRow(u, t))
  BY DEF VerifyInsert
<1>5. /\ DOMAIN verifications' = 1..n \cup {n + 1}
      /\ \A i \in 1..n : verifications'[i] = verifications[i]
      /\ verifications'[n + 1] = NewRow(u, t)
  BY <1>1, <1>3, <1>4, InsertRow
<1>6. /\ request'[w].pc # "verify_insert"
      /\ \A x \in Workers : x # w => request'[x] = request[x]
  BY DEF VerifyInsert, At, Goto, Finish, Idle, TypeOK
<1>7. CASE u = v /\ t \in T
  <2>1. RowsOf(v, T)' = RowsOf(v, T) \cup {n + 1}
    BY <1>1, <1>5, <1>7 DEF RowsOf, ActiveVerifications, Active, NewRow
  <2>2. n + 1 \notin RowsOf(v, T)
    BY <1>1 DEF RowsOf, ActiveVerifications
  <2>3. PendingOf(v, T)' = PendingOf(v, T) \ {w}
    BY <1>6 DEF PendingOf, At
  <2>4. w \in PendingOf(v, T)
    BY <1>2, <1>7 DEF PendingOf
  <2>5. Cardinality(RowsOf(v, T)') = Cardinality(RowsOf(v, T)) + 1
    BY <2>1, <2>2, Finite, FS_AddElement
  <2>6. Cardinality(PendingOf(v, T)') = Cardinality(PendingOf(v, T)) - 1
    BY <2>3, <2>4, Finite, FS_RemoveElement
  <2> QED
    BY <2>5, <2>6, Finite DEF Load
<1>8. CASE ~(u = v /\ t \in T)
  <2>1. RowsOf(v, T)' \subseteq RowsOf(v, T)
    BY <1>1, <1>5, <1>8 DEF RowsOf, ActiveVerifications, Active, NewRow
  <2>2. PendingOf(v, T)' \subseteq PendingOf(v, T)
    BY <1>6 DEF PendingOf, At
  <2> QED
    BY <2>1, <2>2, LoadFalls
<1> QED
  BY <1>7, <1>8

\* Only the middleware admits work: every other step keeps or lowers the load.
LEMMA LoadStep ==
    ASSUME TypeOK, [Next]_vars, NEW v, NEW T
    PROVE  \/ Load(v, T)' <= Load(v, T)
           \/ \E w \in Workers, t \in Users : VerifyCheck(w, v, t) /\ t \in T
<1>0. TypeOK' /\ RowsKept
  BY TypeStep, RowsAlwaysKept
<1> USE DEF At, Goto, Finish, Idle
<1>1. ASSUME NEW w \in Workers, NEW u \in Users, NEW t \in Users, VerifyCheck(w, u, t),
             ~(u = v /\ t \in T)
      PROVE  Load(v, T)' <= Load(v, T)
  <2>1. PendingOf(v, T)' \subseteq PendingOf(v, T)
    BY <1>1 DEF VerifyCheck, PendingOf, TypeOK
  <2>2. RowsOf(v, T)' \subseteq RowsOf(v, T)
    BY <1>0, <1>1, RowsOfFall DEF VerifyCheck
  <2> QED
    BY <1>0, <2>1, <2>2, LoadFalls
<1>2. ASSUME NEW w \in Workers, VerifyInsert(w)
      PROVE  Load(v, T)' <= Load(v, T)
  BY <1>0, <1>2, LoadMoves
<1>3. ASSUME NEW w \in Workers, VerifyReject(w) \/ VerifyCount(w) \/ VerifyGrant(w)
      PROVE  Load(v, T)' <= Load(v, T)
  <2>1. PendingOf(v, T)' \subseteq PendingOf(v, T)
    BY <1>3 DEF VerifyReject, VerifyCount, VerifyGrant, PendingOf, TypeOK, Request
  <2>2. RowsOf(v, T)' \subseteq RowsOf(v, T)
    BY <1>0, <1>3, RowsOfFall DEF VerifyReject, VerifyCount, VerifyGrant
  <2> QED
    BY <1>0, <2>1, <2>2, LoadFalls
<1>4. ASSUME NEW w \in Workers, Cancel(w)
      PROVE  Load(v, T)' <= Load(v, T)
  <2>1. PendingOf(v, T)' \subseteq PendingOf(v, T)
    BY <1>4 DEF Cancel, CancelLoad, CancelMark, CancelRead, CancelRevoke, PendingOf,
                TypeOK, Request
  <2>2. DOMAIN verifications' = DOMAIN verifications
    BY <1>4 DEF Cancel, CancelLoad, CancelMark, CancelRead, CancelRevoke
  <2> QED
    BY <1>0, <2>1, <2>2, RowsOfFall, LoadFalls
<1>5. ASSUME NEW w \in Workers, UpdateBasicInfo(w)
      PROVE  Load(v, T)' <= Load(v, T)
  <2>1. PendingOf(v, T)' \subseteq PendingOf(v, T)
    BY <1>5 DEF UpdateBasicInfo, BasicLoad, BasicCancel, BasicRevoke, PendingOf,
                TypeOK, Request
  <2>2. DOMAIN verifications' = DOMAIN verifications
    BY <1>5 DEF UpdateBasicInfo, BasicLoad, BasicCancel, BasicRevoke
  <2> QED
    BY <1>0, <2>1, <2>2, RowsOfFall, LoadFalls
<1>6. CASE (\E u \in Edited : AdminSave(u)) \/ UNCHANGED vars
  <2>1. UNCHANGED <<verifications, request>>
    BY <1>6 DEF AdminSave, vars
  <2>2. PendingOf(v, T)' \subseteq PendingOf(v, T)
    BY <2>1 DEF PendingOf
  <2>3. DOMAIN verifications' = DOMAIN verifications
    BY <2>1
  <2> QED
    BY <1>0, <2>2, <2>3, RowsOfFall, LoadFalls
<1> QED
  BY <1>1, <1>2, <1>3, <1>4, <1>5, <1>6 DEF Next, MemberNext, Verify

(***************************************************************************)
(* The bound on rows alone is not inductive: every admitted request still  *)
(* has the right to one row.  The bound on the load is.                    *)
(***************************************************************************)
LoadBounded ==
    \A v \in Users :
        /\ Load(v, Users) <= MaxGiven - 1 + Cardinality(Workers)
        /\ \A t \in Users : Load(v, {t}) <= Cardinality(Workers)

QuotaInv == TypeOK /\ LoadBounded

\* Nobody has given a row at first.
LEMMA QuotaInit == Init => QuotaInv
<1> SUFFICES ASSUME Init PROVE LoadBounded
  BY InitType DEF QuotaInv
<1>1. TypeOK
  BY InitType
<1>2. \A v, T : RowsOf(v, T) = {} /\ PendingOf(v, T) = {}
  BY DEF Init, RowsOf, ActiveVerifications, PendingOf, At, Idle
<1>3. \A v, T : Load(v, T) = 0
  BY <1>2, FS_EmptySet DEF Load
<1>4. Cardinality(Workers) \in Nat \ {0}
  BY <1>1, Finite
<1> QED
  BY <1>3, <1>4, UsersAssumption DEF LoadBounded

\* The check finds room, so what it admits fits with one row per worker.
LEMMA CheckRoom ==
    ASSUME TypeOK, NEW w \in Workers, NEW v \in Users, NEW t \in Users,
           VerifyCheck(w, v, t)
    PROVE  /\ Load(v, Users)' <= MaxGiven - 1 + Cardinality(Workers)
           /\ Load(v, {t})' <= Cardinality(Workers)
<1>1. TypeOK'
  BY TypeStep DEF Next, MemberNext, Verify
<1>2. UNCHANGED verifications
  BY DEF VerifyCheck
<1>3. \A i \in DOMAIN verifications : verifications[i].user \in Users
  <2>1. \A i \in DOMAIN verifications : verifications[i] \in Row
    BY LenProperties DEF TypeOK
  <2> QED
    BY <2>1 DEF Row
<1>4. RowsOf(v, Users)' = ActiveVerifications(v)
  BY <1>2, <1>3 DEF RowsOf, ActiveVerifications, Active
<1>5. Cardinality(RowsOf(v, Users)') < MaxGiven
  BY <1>4 DEF VerifyCheck, CanUserVerify, CanVerify, Given
<1>6. RowsOf(v, {t})' = {}
  BY <1>2 DEF VerifyCheck, CanUserVerify, RowsOf, ActiveVerifications, Active
<1>7. Cardinality(RowsOf(v, {t})') = 0
  BY <1>6, FS_EmptySet
<1>8. /\ Cardinality(PendingOf(v, Users)') <= Cardinality(Workers)
      /\ Cardinality(PendingOf(v, {t})') <= Cardinality(Workers)
      /\ Cardinality(PendingOf(v, Users)') \in Nat
      /\ Cardinality(PendingOf(v, {t})') \in Nat
      /\ Cardinality(RowsOf(v, Users)') \in Nat
      /\ Cardinality(Workers) \in Nat
  <2>1. /\ PendingOf(v, Users)' \subseteq Workers
        /\ PendingOf(v, {t})' \subseteq Workers
    BY DEF PendingOf
  <2>2. IsFiniteSet(RowsOf(v, Users)')
    <3>1. RowsOf(v, Users)' = RowsOf(v, Users)
      BY <1>2 DEF RowsOf, ActiveVerifications, Active
    <3> QED
      BY <3>1, Finite
  <2> QED
    BY <2>1, <2>2, UsersAssumption, FS_Subset, FS_CardinalityType
<1> QED
  BY <1>5, <1>7, <1>8, UsersAssumption DEF Load

\* No step takes a load beyond what the check allows plus one per worker.
LEMMA QuotaStep == QuotaInv /\ [Next]_vars => QuotaInv'
<1> SUFFICES ASSUME QuotaInv, [Next]_vars PROVE QuotaInv'
  OBVIOUS
<1>1. TypeOK /\ TypeOK'
  BY TypeStep DEF QuotaInv
<1>2. (TypeOK => \A v, T : Load(v, T) \in Nat)'
  BY LoadNat, PTL
<1>3. /\ Cardinality(Workers) \in Nat \ {0}
      /\ MaxGiven \in Nat
  BY <1>1, Finite, UsersAssumption
<1>4. ASSUME NEW v \in Users
      PROVE  Load(v, Users)' <= MaxGiven - 1 + Cardinality(Workers)
  <2>1. CASE Load(v, Users)' <= Load(v, Users)
    <3>1. Load(v, Users) \in Nat /\ Load(v, Users)' \in Nat
      BY <1>1, <1>2, LoadNat
    <3>2. Load(v, Users) <= MaxGiven - 1 + Cardinality(Workers)
      BY <1>4 DEF QuotaInv, LoadBounded
    <3> QED
      BY <1>3, <2>1, <3>1, <3>2
  <2>2. ASSUME NEW w \in Workers, NEW t \in Users, VerifyCheck(w, v, t)
        PROVE  Load(v, Users)' <= MaxGiven - 1 + Cardinality(Workers)
    BY <1>1, <2>2, CheckRoom
  <2> QED
    BY <1>1, <2>1, <2>2, LoadStep
<1>5. ASSUME NEW v \in Users, NEW t \in Users
      PROVE  Load(v, {t})' <= Cardinality(Workers)
  <2>1. CASE Load(v, {t})' <= Load(v, {t})
    <3>1. Load(v, {t}) \in Nat /\ Load(v, {t})' \in Nat
      BY <1>1, <1>2, LoadNat
    <3>2. Load(v, {t}) <= Cardinality(Workers)
      BY <1>5 DEF QuotaInv, LoadBounded
    <3> QED
      BY <1>3, <2>1, <3>1, <3>2
  <2>2. ASSUME NEW w \in Workers, VerifyCheck(w, v, t)
        PROVE  Load(v, {t})' <= Cardinality(Workers)
    BY <1>1, <2>2, CheckRoom
  <2> QED
    BY <1>1, <2>1, <2>2, LoadStep
<1> QED
  BY <1>1, <1>4, <1>5 DEF QuotaInv, LoadBounded

\* Active rows are a part of the load.
LEMMA QuotaSuffices == QuotaInv => OverrunBounded
<1> SUFFICES ASSUME QuotaInv, NEW v \in Users
             PROVE  /\ Given(v) <= MaxGiven + Cardinality(Workers) - 1
                    /\ \A t \in Users :
                         Cardinality({i \in ActiveVerifications(v) :
                                        verifications[i].user = t})
                           <= Cardinality(Workers)
  BY DEF OverrunBounded
<1>1. TypeOK
  BY DEF QuotaInv
<1>2. \A i \in DOMAIN verifications : verifications[i].user \in Users
  <2>1. \A i \in DOMAIN verifications : verifications[i] \in Row
    BY <1>1, LenProperties DEF TypeOK
  <2> QED
    BY <2>1 DEF Row
<1>3. RowsOf(v, Users) = ActiveVerifications(v)
  BY <1>2 DEF RowsOf, ActiveVerifications
<1>4. \A t : RowsOf(v, {t}) = {i \in ActiveVerifications(v) : verifications[i].user = t}
  BY DEF RowsOf
<1>5. Given(v) <= MaxGiven + Cardinality(Workers) - 1
  BY <1>1, <1>3, Finite, UsersAssumption DEF QuotaInv, LoadBounded, Load, Given
<1>6. ASSUME NEW t \in Users
      PROVE  Cardinality(RowsOf(v, {t})) <= Cardinality(Workers)
  BY <1>1, <1>6, Finite DEF QuotaInv, LoadBounded, Load
<1> QED
  BY <1>4, <1>5, <1>6

\* The check in the middleware and the insertion after it are not atomic, but
\* the damage is bounded by the number of workers, whatever interleaves.
THEOREM OverrunAlwaysBounded == Spec => []OverrunBounded
  BY QuotaInit, QuotaStep, QuotaSuffices, PTL DEF Spec

\* A set with at most one element has no two different ones.
LEMMA AtMostOne ==
    ASSUME NEW S, IsFiniteSet(S), Cardinality(S) <= 1, NEW i \in S, NEW j \in S
    PROVE  i = j
<1> SUFFICES ASSUME i # j PROVE FALSE
  OBVIOUS
<1>1. Cardinality({i}) = 1 /\ IsFiniteSet({i})
  BY FS_Singleton
<1>2. Cardinality({i} \cup {j}) = 2 /\ IsFiniteSet({i} \cup {j})
  BY <1>1, FS_AddElement
<1>3. {i} \cup {j} \subseteq S
  OBVIOUS
<1>4. Cardinality({i} \cup {j}) <= Cardinality(S) /\ Cardinality(S) \in Nat
  BY <1>3, FS_Subset, FS_CardinalityType
<1> QED
  BY <1>2, <1>4

\* With one worker, two active rows for one pair would be a load of two.
LEMMA OneWorkerNoRepeat ==
    ASSUME Cardinality(Workers) = 1, QuotaInv
    PROVE  NoDuplicateActive
<1> SUFFICES ASSUME NEW i \in DOMAIN verifications, NEW j \in DOMAIN verifications,
                    Active(i), Active(j), i # j,
                    verifications[i].verifier = verifications[j].verifier,
                    verifications[i].user = verifications[j].user
             PROVE  FALSE
  BY DEF NoDuplicateActive
<1> DEFINE v == verifications[i].verifier
           t == verifications[i].user
<1>1. TypeOK
  BY DEF QuotaInv
<1>2. v \in Users /\ t \in Users
  <2>1. verifications[i] \in Row
    BY <1>1, LenProperties DEF TypeOK
  <2> QED
    BY <2>1 DEF Row
<1>3. i \in RowsOf(v, {t}) /\ j \in RowsOf(v, {t})
  BY DEF RowsOf, ActiveVerifications
<1>4. /\ IsFiniteSet(RowsOf(v, {t})) /\ Cardinality(RowsOf(v, {t})) \in Nat
      /\ Cardinality(PendingOf(v, {t})) \in Nat
  BY <1>1, Finite
<1>5. Load(v, {t}) <= 1
  BY <1>2 DEF QuotaInv, LoadBounded
<1>6. Cardinality(RowsOf(v, {t})) <= 1
  BY <1>4, <1>5 DEF Load
<1> QED
  BY <1>3, <1>4, <1>6, AtMostOne

\* With a single worker the check and the insertion cannot be separated by
\* another request, and nobody verifies the same user twice.
THEOREM OneWorkerNoDuplicate ==
    Cardinality(Workers) = 1 => (Spec => []NoDuplicateActive)
<1> SUFFICES ASSUME Cardinality(Workers) = 1 PROVE Spec => []NoDuplicateActive
  OBVIOUS
<1>1. QuotaInv => NoDuplicateActive
  BY OneWorkerNoRepeat
<1> QED
  BY <1>1, QuotaInit, QuotaStep, PTL DEF Spec

(***************************************************************************)
(* Mutual verification, cancelled rows included: what canUserVerify read   *)
(* about the pair must still hold when the row is inserted.  The invariant *)
(* adds that to NoMutual.                                                  *)
(***************************************************************************)
Unanswered(v, t) ==
    /\ v # t
    /\ \A i \in DOMAIN verifications :
          ~ (verifications[i].verifier = t /\ verifications[i].user = v)

MutualInv ==
    /\ TypeOK
    /\ NoMutual
    /\ \A w \in Workers :
          At(w, "verify_insert") => Unanswered(request[w].actor, request[w].target)

\* No rows and no requests at first.
LEMMA MutualInit == Init => MutualInv
  BY InitType DEF Init, MutualInv, NoMutual, At, Idle

\* A step that adds no row and admits only unanswered pairs.
LEMMA MutualQuiet ==
    ASSUME MutualInv, TypeOK', RowsKept, DOMAIN verifications' = DOMAIN verifications,
           \A x \in Workers :
               At(x, "verify_insert")' =>
                   \/ request'[x] = request[x]
                   \/ Unanswered(request'[x].actor, request'[x].target)
    PROVE  MutualInv'
<1>1. NoMutual'
  BY DEF MutualInv, NoMutual, RowsKept
<1>2. ASSUME NEW x \in Workers, At(x, "verify_insert")'
      PROVE  Unanswered(request[x].actor, request[x].target)'
  <2>1. Unanswered(request'[x].actor, request'[x].target)
    BY <1>2 DEF MutualInv, At
  <2> QED
    BY <2>1 DEF Unanswered, RowsKept
<1> QED
  BY <1>1, <1>2 DEF MutualInv

\* The new row answers no other, and the only worker is no longer inserting.
LEMMA MutualInsert ==
    ASSUME MutualInv, TypeOK', NEW w \in Workers, \A x \in Workers : x = w,
           VerifyInsert(w)
    PROVE  MutualInv'
<1> DEFINE v == request[w].actor
           t == request[w].target
           n == Len(verifications) + 1
<1>1. At(w, "verify_insert") /\ Unanswered(v, t)
  BY DEF VerifyInsert, MutualInv
<1>2. NewRow(v, t) \in Row
  BY <1>1 DEF At, MutualInv, TypeOK, Request, Idle, NewRow, Row
<1>3. /\ DOMAIN verifications' = DOMAIN verifications \cup {n}
      /\ \A i \in DOMAIN verifications : verifications'[i] = verifications[i]
      /\ verifications'[n].verifier = v /\ verifications'[n].user = t
  BY <1>2, InsertRow DEF VerifyInsert, MutualInv, TypeOK, NewRow
<1>4. NoMutual'
  BY <1>1, <1>3 DEF MutualInv, NoMutual, Unanswered
<1>5. \A x \in Workers : ~At(x, "verify_insert")'
  BY <1>1 DEF VerifyInsert, At, Goto, Finish, Idle, MutualInv, TypeOK
<1> QED
  BY <1>4, <1>5 DEF MutualInv

\* With one worker every step keeps the invariant.
LEMMA MutualStep ==
    ASSUME \A w, x \in Workers : w = x
    PROVE  MutualInv /\ [Next]_vars => MutualInv'
<1> SUFFICES ASSUME MutualInv, [Next]_vars PROVE MutualInv'
  OBVIOUS
<1>0. TypeOK /\ TypeOK' /\ RowsKept
  BY TypeStep, RowsAlwaysKept DEF MutualInv
<1> USE DEF At, Goto, Finish, Idle
<1>1. ASSUME NEW w \in Workers, NEW v \in Users, NEW t \in Users, VerifyCheck(w, v, t)
      PROVE  MutualInv'
  <2>1. Unanswered(v, t)
    BY <1>1 DEF VerifyCheck, CanUserVerify, Verifiers, Unanswered
  <2> QED
    BY <1>0, <1>1, <2>1, MutualQuiet DEF VerifyCheck, TypeOK
<1>2. ASSUME NEW w \in Workers, VerifyInsert(w)
      PROVE  MutualInv'
  <2>1. \A x \in Workers : x = w
    OBVIOUS
  <2> QED
    BY <1>0, <1>2, <2>1, MutualInsert
<1>3. ASSUME NEW w \in Workers, VerifyReject(w) \/ VerifyCount(w) \/ VerifyGrant(w)
      PROVE  MutualInv'
  BY <1>0, <1>3, MutualQuiet
     DEF VerifyReject, VerifyCount, VerifyGrant, TypeOK, Request
<1>4. ASSUME NEW w \in Workers, Cancel(w)
      PROVE  MutualInv'
  <2>1. DOMAIN verifications' = DOMAIN verifications
    BY <1>4 DEF Cancel, CancelLoad, CancelMark, CancelRead, CancelRevoke
  <2>2. \A x \in Workers : At(x, "verify_insert")' => request'[x] = request[x]
    BY <1>0, <1>4 DEF Cancel, CancelLoad, CancelMark, CancelRead, CancelRevoke,
                      TypeOK, Request
  <2> QED
    BY <1>0, <2>1, <2>2, MutualQuiet
<1>5. ASSUME NEW w \in Workers, UpdateBasicInfo(w)
      PROVE  MutualInv'
  <2>1. DOMAIN verifications' = DOMAIN verifications
    BY <1>5 DEF UpdateBasicInfo, BasicLoad, BasicCancel, BasicRevoke
  <2>2. \A x \in Workers : At(x, "verify_insert")' => request'[x] = request[x]
    BY <1>0, <1>5 DEF UpdateBasicInfo, BasicLoad, BasicCancel, BasicRevoke,
                      TypeOK, Request
  <2> QED
    BY <1>0, <2>1, <2>2, MutualQuiet
<1>6. CASE (\E u \in Edited : AdminSave(u)) \/ UNCHANGED vars
  <2>1. UNCHANGED <<verifications, request>>
    BY <1>6 DEF AdminSave, vars
  <2> QED
    BY <1>0, <2>1, MutualQuiet
<1> QED
  BY <1>1, <1>2, <1>3, <1>4, <1>5, <1>6 DEF Next, MemberNext, Verify

\* With a single worker, whatever members and administrators do, no two users
\* verify each other: canUserVerify reads cancelled rows in this direction.
THEOREM OneWorkerNoMutual ==
    Cardinality(Workers) = 1 => (Spec => []NoMutual)
<1> SUFFICES ASSUME Cardinality(Workers) = 1 PROVE Spec => []NoMutual
  OBVIOUS
<1>1. \A w, x \in Workers : w = x
  BY UsersAssumption, AtMostOne
<1>2. MutualInv /\ [Next]_vars => MutualInv'
  BY <1>1, MutualStep
<1>3. MutualInv => NoMutual
  BY DEF MutualInv
<1> QED
  BY <1>2, <1>3, MutualInit, PTL DEF Spec

-----------------------------------------------------------------------------
(***************************************************************************)
(* Requests executed one at a time.  What a statement does to the counts   *)
(* of active rows.                                                         *)
(***************************************************************************)
\* Counts of active rows are natural numbers.
LEMMA CountsFinite ==
    ASSUME TypeOK, NEW u
    PROVE  /\ IsFiniteSet(ActiveVerifiers(u)) /\ Received(u) \in Nat
           /\ IsFiniteSet(ActiveVerifications(u)) /\ Given(u) \in Nat
<1>1. DOMAIN verifications = 1..Len(verifications) /\ Len(verifications) \in Nat
  BY LenProperties DEF TypeOK
<1>2. IsFiniteSet(1..Len(verifications))
  BY <1>1, FS_Interval
<1>3. /\ ActiveVerifiers(u) \subseteq 1..Len(verifications)
      /\ ActiveVerifications(u) \subseteq 1..Len(verifications)
  BY <1>1 DEF ActiveVerifiers, Verifiers, ActiveVerifications
<1> QED
  BY <1>2, <1>3, FS_Subset, FS_CardinalityType DEF Received, Given

\* An insertion counts once for the member who gives it and once for the one
\* who receives it.
LEMMA InsertCounts ==
    ASSUME TypeOK, NEW w \in Workers, VerifyInsert(w),
           NEW v, v = request[w].actor, NEW t, t = request[w].target
    PROVE  /\ v \in Users /\ t \in Users
           /\ NewId \notin DOMAIN verifications
           /\ DOMAIN verifications' = DOMAIN verifications \cup {NewId}
           /\ \A i \in DOMAIN verifications : verifications'[i] = verifications[i]
           /\ verifications'[NewId] = NewRow(v, t)
           /\ \A u : Received(u)' = IF u = t THEN Received(u) + 1 ELSE Received(u)
           /\ \A u : Given(u)' = IF u = v THEN Given(u) + 1 ELSE Given(u)
<1>1. v \in Users /\ t \in Users
  BY DEF VerifyInsert, At, TypeOK, Request, Idle
<1>2. NewRow(v, t) \in Row
  BY <1>1 DEF NewRow, Row
<1>3. /\ DOMAIN verifications' = DOMAIN verifications \cup {NewId}
      /\ \A i \in DOMAIN verifications : verifications'[i] = verifications[i]
      /\ verifications'[NewId] = NewRow(v, t)
  BY <1>2, InsertRow DEF VerifyInsert, TypeOK, NewId
<1>4. NewId \notin DOMAIN verifications
  BY LenProperties DEF NewId, TypeOK
<1>5. /\ verifications'[NewId].verifier = v
      /\ verifications'[NewId].user = t
      /\ ~verifications'[NewId].cancelled
  BY <1>3 DEF NewRow
<1>6. ASSUME NEW u PROVE Received(u)' = IF u = t THEN Received(u) + 1 ELSE Received(u)
  <2>1. ActiveVerifiers(u)' = IF u = t THEN ActiveVerifiers(u) \cup {NewId}
                              ELSE ActiveVerifiers(u)
    BY <1>3, <1>4, <1>5 DEF ActiveVerifiers, Verifiers, Active
  <2>2. NewId \notin ActiveVerifiers(u) /\ IsFiniteSet(ActiveVerifiers(u))
    BY <1>4, CountsFinite DEF ActiveVerifiers, Verifiers
  <2> QED
    BY <2>1, <2>2, FS_AddElement DEF Received
<1>7. ASSUME NEW u PROVE Given(u)' = IF u = v THEN Given(u) + 1 ELSE Given(u)
  <2>1. ActiveVerifications(u)' = IF u = v THEN ActiveVerifications(u) \cup {NewId}
                                  ELSE ActiveVerifications(u)
    BY <1>3, <1>4, <1>5 DEF ActiveVerifications, Active
  <2>2. NewId \notin ActiveVerifications(u) /\ IsFiniteSet(ActiveVerifications(u))
    BY <1>4, CountsFinite DEF ActiveVerifications
  <2> QED
    BY <2>1, <2>2, FS_AddElement DEF Given
<1> QED
  BY <1>1, <1>3, <1>4, <1>6, <1>7

\* A cancelled row counts no longer.
LEMMA CancelCounts ==
    ASSUME TypeOK, NEW w \in Workers, CancelMark(w),
           NEW k, k = request[w].row, Active(k)
    PROVE  /\ k \in DOMAIN verifications /\ verifications[k] \in Row
           /\ verifications' \in Seq(Row) /\ RowsKept
           /\ DOMAIN verifications' = DOMAIN verifications
           /\ \A i \in DOMAIN verifications \ {k} : verifications'[i] = verifications[i]
           /\ verifications'[k].cancelled
           /\ \A u : Received(u)' = IF u = verifications[k].user THEN Received(u) - 1
                                    ELSE Received(u)
<1>1. k \in DOMAIN verifications
  BY DEF CancelMark, At, TypeOK, Request, Idle
<1>2. verifications[k] \in Row
  BY <1>1, LenProperties DEF TypeOK
<1>3. verifications' = [verifications EXCEPT ![k].cancelled = TRUE]
  BY DEF CancelMark
<1>4. /\ verifications' \in Seq(Row) /\ RowsKept
      /\ DOMAIN verifications' = DOMAIN verifications
      /\ \A i \in DOMAIN verifications \ {k} : verifications'[i] = verifications[i]
  BY <1>1, <1>3, CancelRow DEF TypeOK
<1>5. verifications'[k].cancelled
  BY <1>1, <1>2, <1>3 DEF Row
<1>6. ASSUME NEW u
      PROVE  Received(u)' = IF u = verifications[k].user THEN Received(u) - 1
                            ELSE Received(u)
  <2>1. ActiveVerifiers(u)' = ActiveVerifiers(u) \ {k}
    BY <1>1, <1>4, <1>5 DEF ActiveVerifiers, Verifiers, Active, RowsKept
  <2>2. k \in ActiveVerifiers(u) <=> u = verifications[k].user
    BY <1>1 DEF ActiveVerifiers, Verifiers
  <2>3. IsFiniteSet(ActiveVerifiers(u))
    BY CountsFinite
  <2> QED
    BY <2>1, <2>2, <2>3, FS_RemoveElement DEF Received
<1> QED
  BY <1>1, <1>2, <1>4, <1>5, <1>6

(***************************************************************************)
(* With one worker, nothing comes between the check and the insertion, so  *)
(* what was checked still holds.  An administrator could come between: the *)
(* quota is kept for what members do.                                      *)
(***************************************************************************)
CheckHolds ==
    \A w \in Workers :
        At(w, "verify_insert") => CanUserVerify(request[w].actor, request[w].target)

\* What canUserVerify reads has not changed.
LEMMA SameCheck ==
    ASSUME UNCHANGED <<accounts, verifications>>, NEW v, NEW t
    PROVE  CanUserVerify(v, t)' <=> CanUserVerify(v, t)
<1>1. /\ ActiveVerifications(v)' = ActiveVerifications(v)
      /\ ActiveVerifiers(v)' = ActiveVerifiers(v)
      /\ Verifiers(v)' = Verifiers(v)
  BY DEF ActiveVerifications, ActiveVerifiers, Verifiers, Active
<1>2. Given(v)' = Given(v) /\ Received(v)' = Received(v)
  BY <1>1 DEF Given, Received
<1> QED
  BY <1>1, <1>2 DEF CanUserVerify, CanVerify, accounts

\* Only admitting a request puts a worker at "verify_insert".
LEMMA ReachesInsert ==
    ASSUME TypeOK, NEW w \in Workers, Verify(w) \/ Cancel(w) \/ UpdateBasicInfo(w),
           At(w, "verify_insert")'
    PROVE  \E v, t \in Users : VerifyCheck(w, v, t)
<1> USE DEF TypeOK, At, Goto, Finish, Idle
<1>1. CASE Verify(w)
  BY <1>1 DEF Verify, VerifyInsert, VerifyReject, VerifyCount, VerifyGrant, Request
<1>2. CASE Cancel(w)
  BY <1>2 DEF Cancel, CancelLoad, CancelMark, CancelRead, CancelRevoke, Request
<1>3. CASE UpdateBasicInfo(w)
  BY <1>3 DEF UpdateBasicInfo, BasicLoad, BasicCancel, BasicRevoke, Request
<1> QED
  BY <1>1, <1>2, <1>3

LEMMA CheckHoldsStep ==
    ASSUME \A w, x \in Workers : w = x
    PROVE  TypeOK /\ CheckHolds /\ [MemberNext]_vars => CheckHolds'
<1> SUFFICES ASSUME TypeOK, CheckHolds, [MemberNext]_vars,
                    NEW w \in Workers, At(w, "verify_insert")'
             PROVE  CanUserVerify(request[w].actor, request[w].target)'
  BY DEF CheckHolds
<1>1. CASE UNCHANGED vars
  <2>1. UNCHANGED <<accounts, verifications>> /\ request' = request
    BY <1>1 DEF vars, accounts
  <2>2. CanUserVerify(request[w].actor, request[w].target)
    BY <2>1 DEF CheckHolds, At
  <2>3. PICK v, t : v = request[w].actor /\ t = request[w].target
    OBVIOUS
  <2>4. CanUserVerify(v, t)'
    BY <2>1, <2>2, <2>3, SameCheck
  <2> QED
    BY <2>1, <2>3, <2>4 DEF CanUserVerify
<1>2. CASE MemberNext
  <2>1. PICK v, t \in Users : VerifyCheck(w, v, t)
    BY <1>2, ReachesInsert DEF MemberNext
  <2>2. request'[w].actor = v /\ request'[w].target = t
    BY <2>1 DEF VerifyCheck, Goto, TypeOK
  <2>3. CanUserVerify(v, t)'
    BY <2>1, SameCheck DEF VerifyCheck
  <2> QED
    BY <2>2, <2>3 DEF CanUserVerify
<1> QED
  BY <1>1, <1>2

\* Only an insertion gives.
LEMMA GivenRises ==
    ASSUME TypeOK, [Next]_vars, NEW v, Given(v)' > Given(v)
    PROVE  \E w \in Workers : VerifyInsert(w) /\ v = request[w].actor
<1>1. TypeOK' /\ RowsKept
  BY TypeStep, RowsAlwaysKept
<1>2. DOMAIN verifications' # DOMAIN verifications
  <2> SUFFICES ASSUME DOMAIN verifications' = DOMAIN verifications PROVE FALSE
    OBVIOUS
  <2>1. \A i \in DOMAIN verifications :
           verifications[i] \in Row /\ verifications'[i] \in Row
    BY <1>1, LenProperties DEF TypeOK
  <2>2. ActiveVerifications(v)' \subseteq ActiveVerifications(v)
    BY <1>1, <2>1 DEF RowsKept, ActiveVerifications, Active, Row
  <2>3. Given(v)' <= Given(v) /\ Given(v)' \in Nat /\ Given(v) \in Nat
    BY <2>2, CountsFinite, FS_Subset, FS_CardinalityType DEF Given
  <2> QED
    BY <2>3
<1>3. PICK w \in Workers : VerifyInsert(w)
  <2>1. ASSUME NEW w \in Workers, CancelMark(w) PROVE FALSE
    BY <1>2, <2>1 DEF CancelMark
  <2>2. ASSUME NEW w \in Workers, BasicCancel(w) PROVE FALSE
    BY <1>2, <2>2 DEF BasicCancel
  <2> QED
    BY <1>2, <2>1, <2>2
       DEF Next, MemberNext, Verify, Cancel, UpdateBasicInfo, VerifyCheck, VerifyReject,
           VerifyCount, VerifyGrant, CancelLoad, CancelRead, CancelRevoke, BasicLoad,
           BasicRevoke, AdminSave, vars
<1>4. v = request[w].actor
  <2> SUFFICES ASSUME v # request[w].actor PROVE FALSE
    OBVIOUS
  <2>1. Given(v)' = Given(v)
    BY <1>3, InsertCounts
  <2> QED
    BY <2>1, CountsFinite
<1> QED
  BY <1>3, <1>4

\* Whoever gives a verification is within the maximum and the balance after it.
LEMMA QuotaKept ==
    ASSUME TypeOK, CheckHolds, [Next]_vars, NEW v \in Users, Given(v)' > Given(v)
    PROVE  /\ Given(v)' <= MaxGiven
           /\ v \in firstRegistrants \/ Given(v)' <= Received(v)' - MinDiff + 1
<1>1. PICK w \in Workers : VerifyInsert(w) /\ v = request[w].actor
  BY GivenRises
<1>2. PICK t : t = request[w].target
  OBVIOUS
<1>3. CanUserVerify(v, t)
  BY <1>1, <1>2 DEF CheckHolds, VerifyInsert
<1>4. Given(v)' = Given(v) + 1 /\ Received(v)' = Received(v)
  BY <1>1, <1>2, <1>3, InsertCounts DEF CanUserVerify
<1>5. Given(v) \in Nat /\ Received(v) \in Nat
  BY CountsFinite
<1> QED
  BY <1>3, <1>4, <1>5, UsersAssumption DEF CanUserVerify, CanVerify

\* With one worker no verification exceeds the maximum or the balance of the
\* member who gives it, whatever members do in between.
THEOREM OneWorkerQuota ==
    Cardinality(Workers) = 1 => (MemberSpec => QuotaAtGrant)
<1> SUFFICES ASSUME Cardinality(Workers) = 1 PROVE MemberSpec => QuotaAtGrant
  OBVIOUS
<1>1. Init => TypeOK /\ CheckHolds
  BY InitType DEF Init, CheckHolds, At, Idle
<1>2. [MemberNext]_vars => [Next]_vars
  BY DEF Next
<1>3. TypeOK /\ CheckHolds /\ [MemberNext]_vars => (TypeOK /\ CheckHolds)'
  BY <1>2, TypeStep, CheckHoldsStep, UsersAssumption, AtMostOne
<1>4. TypeOK /\ CheckHolds /\ [MemberNext]_vars =>
         \A v \in Users : Given(v)' > Given(v) =>
            /\ Given(v)' <= MaxGiven
            /\ v \in firstRegistrants \/ Given(v)' <= Received(v)' - MinDiff + 1
  BY <1>2, QuotaKept
<1> QED
  BY <1>1, <1>3, <1>4, PTL DEF MemberSpec, QuotaAtGrant

(***************************************************************************)
(* The threshold.  Between two statements of the one request under way the *)
(* recipient's status may lag behind their rows; the invariant says by how *)
(* much, and that everybody else's is exact.                               *)
(***************************************************************************)
Exact(u) == u \in verified <=> EnoughVerifiers(u)

Recipient(w) == verifications[request[w].row].user

OthersExact(w) == \A u \in Users \ firstRegistrants : u # Recipient(w) => Exact(u)

\* A row has been inserted, and the listener has not written yet.
CountLag(w) ==
    At(w, "verify_count") \/ At(w, "verify_grant") =>
        /\ OthersExact(w)
        /\ Recipient(w) \notin verified
        /\ Received(Recipient(w)) <= MinVerifiers
        /\ At(w, "verify_grant") => Received(Recipient(w)) = MinVerifiers

\* A row has been cancelled, and the status has not been recomputed.
CancelLag(w) ==
    At(w, "cancel_read") \/ At(w, "cancel_revoke") =>
        /\ OthersExact(w)
        /\ Recipient(w) \notin firstRegistrants =>
              (Recipient(w) \in verified <=> Received(Recipient(w)) + 1 >= MinVerifiers)
        /\ At(w, "cancel_revoke") => FallsBelowThreshold(Recipient(w))

NoLag(w) ==
    request[w].pc \in {"idle", "verify_insert", "cancel_mark"} =>
        /\ \A u \in Users \ firstRegistrants : Exact(u)
        /\ At(w, "cancel_mark") => Active(request[w].row)

SerialInv ==
    /\ TypeOK
    /\ firstRegistrants = Registrants /\ Registrants \subseteq verified
    /\ \A w \in Workers :
          /\ request[w].pc \notin {"basic_cancel", "basic_revoke"}
          /\ CountLag(w) /\ CancelLag(w) /\ NoLag(w)

\* Nobody is verified at first but the first registrants, and no rows exist.
LEMMA SerialInit == Init => SerialInv
<1> SUFFICES ASSUME Init PROVE SerialInv
  OBVIOUS
<1>1. TypeOK
  BY InitType
<1>2. \A u : Received(u) = 0
  <2>1. \A u : ActiveVerifiers(u) = {}
    BY DEF Init, ActiveVerifiers, Verifiers
  <2> QED
    BY <2>1, FS_EmptySet DEF Received
<1>3. /\ \A w \in Workers : request[w].pc = "idle"
      /\ firstRegistrants = Registrants /\ verified = Registrants
  BY DEF Init, Idle
<1>4. \A u \in Users \ firstRegistrants : Exact(u)
  BY <1>2, <1>3, UsersAssumption DEF Exact, EnoughVerifiers
<1> QED
  BY <1>1, <1>3, <1>4 DEF SerialInv, CountLag, CancelLag, NoLag, At

\* While the table is the same, so are the counts.
LEMMA SameCounts ==
    ASSUME UNCHANGED verifications
    PROVE  \A u : Received(u)' = Received(u) /\ Given(u)' = Given(u)
<1>1. \A u : /\ ActiveVerifiers(u)' = ActiveVerifiers(u)
             /\ ActiveVerifications(u)' = ActiveVerifications(u)
  BY DEF ActiveVerifications, ActiveVerifiers, Verifiers, Active
<1> QED
  BY <1>1 DEF Given, Received

\* Requests that begin or are refused change no status and no count.
LEMMA QuietSerial ==
    ASSUME SerialInv, TypeOK', NEW w \in Workers, \A x \in Workers : x = w,
           UNCHANGED <<accounts, verifications>>, NoLag(w)',
           request'[w].pc \in {"idle", "verify_insert", "cancel_mark"}
    PROVE  SerialInv'
  BY DEF SerialInv, CountLag, CancelLag, At, accounts

\* An insertion raises one count, of a recipient who is verified already, or
\* of one who is below the threshold.
LEMMA InsertSerial ==
    ASSUME SerialInv, TypeOK', NEW w \in Workers, \A x \in Workers : x = w,
           VerifyInsert(w)
    PROVE  SerialInv'
<1> USE UsersAssumption
<1>1. PICK v, t : v = request[w].actor /\ t = request[w].target
  OBVIOUS
<1>2. /\ v \in Users /\ t \in Users
      /\ verifications'[NewId].user = t
      /\ \A u : Received(u)' = IF u = t THEN Received(u) + 1 ELSE Received(u)
  <2>1. NewRow(v, t).user = t
    BY DEF NewRow
  <2>2. TypeOK
    BY DEF SerialInv
  <2> QED
    BY <1>1, <2>1, <2>2, InsertCounts
<1>3. /\ \A u \in Users \ firstRegistrants : Exact(u)
      /\ UNCHANGED <<verified, firstRegistrants>>
  BY DEF VerifyInsert, SerialInv, NoLag, At, accounts
<1>4. \A u : Received(u) \in Nat
  BY CountsFinite DEF SerialInv
<1>5. CASE t \in verified
  <2>1. request'[w].pc = "idle"
    BY <1>1, <1>5 DEF VerifyInsert, Finish, Goto, Idle, SerialInv, TypeOK
  <2>2. \A u \in Users \ firstRegistrants : Exact(u)'
    BY <1>2, <1>3, <1>4, <1>5 DEF Exact, EnoughVerifiers
  <2> QED
    BY <1>3, <2>1, <2>2 DEF SerialInv, CountLag, CancelLag, NoLag, At
<1>6. CASE t \notin verified
  <2>1. request'[w] = [pc |-> "verify_count", actor |-> v, row |-> NewId]
    BY <1>1, <1>6 DEF VerifyInsert, Goto, SerialInv, TypeOK
  <2>2. request'[w].pc = "verify_count" /\ Recipient(w)' = t
    BY <1>2, <2>1 DEF Recipient
  <2>3. t \notin firstRegistrants /\ Received(t) < MinVerifiers
    BY <1>2, <1>3, <1>4, <1>6 DEF SerialInv, Exact, EnoughVerifiers
  <2>4. Received(t)' <= MinVerifiers
    BY <1>2, <1>4, <2>3
  <2>5. \A u \in Users \ firstRegistrants : u # t => Exact(u)'
    BY <1>2, <1>3 DEF Exact, EnoughVerifiers
  <2>6. OthersExact(w)'
    BY <1>3, <2>2, <2>5 DEF OthersExact
  <2>7. CountLag(w)'
    BY <1>3, <1>6, <2>2, <2>4, <2>6 DEF CountLag, At
  <2> QED
    BY <1>3, <2>2, <2>7 DEF SerialInv, CancelLag, NoLag, At
<1> QED
  BY <1>5, <1>6

\* The listener's equality test is enough: below the threshold one row less
\* than it leads there.
LEMMA CountSerial ==
    ASSUME SerialInv, TypeOK', NEW w \in Workers, \A x \in Workers : x = w,
           VerifyCount(w)
    PROVE  SerialInv'
<1> USE UsersAssumption
<1>1. /\ UNCHANGED <<verified, firstRegistrants, verifications>>
      /\ \A u : Received(u)' = Received(u)
  BY SameCounts DEF VerifyCount, accounts
<1>2. /\ OthersExact(w) /\ Recipient(w) \notin verified
      /\ Received(Recipient(w)) <= MinVerifiers
      /\ Received(Recipient(w)) \in Nat
  BY CountsFinite DEF VerifyCount, SerialInv, CountLag
<1>3. \A u : Exact(u)' <=> Exact(u)
  BY <1>1 DEF Exact, EnoughVerifiers
<1>4. CASE ReachesThreshold(Recipient(w))
  <2>1. request'[w] = [request[w] EXCEPT !.pc = "verify_grant"]
    BY <1>4 DEF VerifyCount, Goto, SerialInv, TypeOK, Recipient
  <2>2. request'[w].pc = "verify_grant" /\ request'[w].row = request[w].row
    BY <2>1 DEF VerifyCount, At, SerialInv, TypeOK, Request, Idle
  <2>3. Recipient(w)' = Recipient(w)
    BY <1>1, <2>2 DEF Recipient
  <2>4. Received(Recipient(w))' = MinVerifiers
    BY <1>1, <1>4, <2>3 DEF ReachesThreshold
  <2>5. CountLag(w)'
    BY <1>1, <1>2, <1>3, <2>2, <2>3, <2>4 DEF CountLag, OthersExact
  <2> QED
    BY <1>1, <2>2, <2>5 DEF SerialInv, CancelLag, NoLag, At
<1>5. CASE ~ReachesThreshold(Recipient(w))
  <2>1. request'[w].pc = "idle"
    BY <1>5 DEF VerifyCount, Finish, Goto, Idle, SerialInv, TypeOK, Recipient
  <2>2. Exact(Recipient(w))
    BY <1>2, <1>5 DEF ReachesThreshold, Exact, EnoughVerifiers
  <2>3. \A u \in Users \ firstRegistrants : Exact(u)'
    BY <1>1, <1>2, <1>3, <2>2 DEF OthersExact
  <2> QED
    BY <1>1, <2>1, <2>3 DEF SerialInv, CountLag, CancelLag, NoLag, At
<1> QED
  BY <1>4, <1>5

LEMMA GrantSerial ==
    ASSUME SerialInv, TypeOK', NEW w \in Workers, \A x \in Workers : x = w,
           VerifyGrant(w)
    PROVE  SerialInv'
<1> USE UsersAssumption
<1>1. /\ UNCHANGED <<firstRegistrants, verifications>>
      /\ verified' = verified \cup {Recipient(w)}
      /\ \A u : Received(u)' = Received(u)
  BY SameCounts DEF VerifyGrant, Recipient
<1>2. OthersExact(w) /\ Received(Recipient(w)) = MinVerifiers
  BY DEF VerifyGrant, SerialInv, CountLag
<1>3. request'[w].pc = "idle"
  BY DEF VerifyGrant, Finish, Goto, Idle, SerialInv, TypeOK
<1>4. \A u \in Users \ firstRegistrants : Exact(u)'
  BY <1>1, <1>2 DEF OthersExact, Exact, EnoughVerifiers
<1> QED
  BY <1>1, <1>3, <1>4 DEF SerialInv, CountLag, CancelLag, NoLag, At

\* A cancellation takes one count down by one.
LEMMA MarkSerial ==
    ASSUME SerialInv, TypeOK', NEW w \in Workers, \A x \in Workers : x = w,
           CancelMark(w)
    PROVE  SerialInv'
<1> USE UsersAssumption
<1>1. PICK k : k = request[w].row
  OBVIOUS
<1>2. /\ \A u \in Users \ firstRegistrants : Exact(u)
      /\ Active(k) /\ TypeOK
  BY <1>1 DEF CancelMark, SerialInv, NoLag, At
<1>3. /\ k \in DOMAIN verifications /\ verifications[k] \in Row
      /\ verifications'[k].user = verifications[k].user
      /\ \A u : Received(u)' = IF u = verifications[k].user THEN Received(u) - 1
                               ELSE Received(u)
  BY <1>1, <1>2, CancelCounts DEF RowsKept
<1>4. UNCHANGED <<verified, firstRegistrants>>
  BY DEF CancelMark, accounts
<1>5. request'[w].pc = "cancel_read" /\ request'[w].row = k
  <2>1. request'[w] = [request[w] EXCEPT !.pc = "cancel_read"]
    BY <1>2 DEF CancelMark, Goto, TypeOK
  <2> QED
    BY <1>1, <1>2, <2>1 DEF CancelMark, At, TypeOK, Request, Idle
<1>6. Recipient(w)' = verifications[k].user /\ verifications[k].user \in Users
  BY <1>3, <1>5 DEF Recipient, Row
<1>7. \A u : Received(u) \in Nat
  BY <1>2, CountsFinite
<1>8. OthersExact(w)'
  BY <1>2, <1>3, <1>4, <1>6 DEF OthersExact, Exact, EnoughVerifiers
<1>9. Recipient(w)' \notin firstRegistrants =>
         (Recipient(w)' \in verified <=> Received(Recipient(w))' + 1 >= MinVerifiers)
  BY <1>2, <1>3, <1>6, <1>7 DEF Exact, EnoughVerifiers
<1>10. CancelLag(w)'
  BY <1>4, <1>5, <1>8, <1>9 DEF CancelLag, At
<1> QED
  BY <1>4, <1>5, <1>10 DEF SerialInv, CountLag, NoLag, At

\* The recomputation finds whether that took the recipient below the threshold.
LEMMA ReadSerial ==
    ASSUME SerialInv, TypeOK', NEW w \in Workers, \A x \in Workers : x = w,
           CancelRead(w)
    PROVE  SerialInv'
<1> USE UsersAssumption
<1>1. /\ UNCHANGED <<verified, firstRegistrants, verifications>>
      /\ \A u : Received(u)' = Received(u)
  BY SameCounts DEF CancelRead, accounts
<1>2. /\ OthersExact(w)
      /\ Recipient(w) \notin firstRegistrants =>
            (Recipient(w) \in verified <=> Received(Recipient(w)) + 1 >= MinVerifiers)
      /\ Received(Recipient(w)) \in Nat
  BY CountsFinite DEF CancelRead, SerialInv, CancelLag
<1>3. \A u : Exact(u)' <=> Exact(u)
  BY <1>1 DEF Exact, EnoughVerifiers
<1>4. CASE FallsBelowThreshold(Recipient(w))
  <2>1. request'[w] = [request[w] EXCEPT !.pc = "cancel_revoke"]
    BY <1>4 DEF CancelRead, Goto, SerialInv, TypeOK, Recipient
  <2>2. request'[w].pc = "cancel_revoke" /\ request'[w].row = request[w].row
    BY <2>1 DEF CancelRead, At, SerialInv, TypeOK, Request, Idle
  <2>3. Recipient(w)' = Recipient(w)
    BY <1>1, <2>2 DEF Recipient
  <2>4. FallsBelowThreshold(Recipient(w))'
    BY <1>1, <1>4, <2>3 DEF FallsBelowThreshold
  <2>5. CancelLag(w)'
    BY <1>1, <1>2, <1>3, <2>2, <2>3, <2>4 DEF CancelLag, OthersExact
  <2> QED
    BY <1>1, <2>2, <2>5 DEF SerialInv, CountLag, NoLag, At
<1>5. CASE ~FallsBelowThreshold(Recipient(w))
  <2>1. request'[w].pc = "idle"
    BY <1>5 DEF CancelRead, Finish, Goto, Idle, SerialInv, TypeOK, Recipient
  <2>2. Recipient(w) \notin firstRegistrants => Exact(Recipient(w))
    BY <1>2, <1>5 DEF FallsBelowThreshold, Exact, EnoughVerifiers
  <2>3. \A u \in Users \ firstRegistrants : Exact(u)'
    BY <1>1, <1>2, <1>3, <2>2 DEF OthersExact
  <2> QED
    BY <1>1, <2>1, <2>3 DEF SerialInv, CountLag, CancelLag, NoLag, At
<1> QED
  BY <1>4, <1>5

LEMMA RevokeSerial ==
    ASSUME SerialInv, TypeOK', NEW w \in Workers, \A x \in Workers : x = w,
           CancelRevoke(w)
    PROVE  SerialInv'
<1> USE UsersAssumption
<1>1. /\ UNCHANGED <<firstRegistrants, verifications>>
      /\ verified' = verified \ {Recipient(w)}
      /\ \A u : Received(u)' = Received(u)
  BY SameCounts DEF CancelRevoke, Recipient
<1>2. OthersExact(w) /\ FallsBelowThreshold(Recipient(w))
  BY DEF CancelRevoke, SerialInv, CancelLag
<1>3. request'[w].pc = "idle"
  BY DEF CancelRevoke, Finish, Goto, Idle, SerialInv, TypeOK
<1>4. Received(Recipient(w)) \in Nat
  BY CountsFinite DEF SerialInv
<1>5. \A u \in Users \ firstRegistrants : Exact(u)'
  BY <1>1, <1>2, <1>4 DEF OthersExact, Exact, EnoughVerifiers, FallsBelowThreshold
<1>6. Registrants \subseteq verified'
  BY <1>1, <1>2 DEF SerialInv, FallsBelowThreshold
<1> QED
  BY <1>1, <1>3, <1>5, <1>6 DEF SerialInv, CountLag, CancelLag, NoLag, At

\* One after the other, requests keep the invariant.
LEMMA SerialStep ==
    ASSUME \A w, x \in Workers : w = x
    PROVE  SerialInv /\ [PeerNext]_vars => SerialInv'
<1> SUFFICES ASSUME SerialInv, [PeerNext]_vars PROVE SerialInv'
  OBVIOUS
<1>1. TypeOK'
  BY TypeStep DEF SerialInv, PeerNext, MemberNext, Next
<1>2. CASE UNCHANGED vars
  <2>1. \A u : Received(u)' = Received(u)
    BY <1>2, SameCounts DEF vars
  <2> QED
    BY <1>1, <1>2, <2>1
       DEF vars, SerialInv, CountLag, CancelLag, NoLag, At, OthersExact, Exact, Recipient,
           EnoughVerifiers, FallsBelowThreshold, Active
<1>3. ASSUME NEW w \in Workers, Verify(w) \/ Cancel(w) PROVE SerialInv'
  <2>0. \A x \in Workers : x = w
    OBVIOUS
  <2>1. ASSUME NEW v \in Users, NEW t \in Users, VerifyCheck(w, v, t) PROVE SerialInv'
    <3>1. request'[w].pc = "verify_insert" /\ UNCHANGED <<accounts, verifications>>
      BY <2>1 DEF VerifyCheck, Goto, SerialInv, TypeOK
    <3>2. \A u : Received(u)' = Received(u)
      BY <3>1, SameCounts
    <3>3. NoLag(w)'
      BY <2>1, <3>1, <3>2
         DEF VerifyCheck, SerialInv, NoLag, At, Exact, EnoughVerifiers, accounts
    <3> QED
      BY <1>1, <2>0, <3>1, <3>3, QuietSerial
  <2>2. ASSUME VerifyReject(w) PROVE SerialInv'
    <3>1. request'[w].pc = "idle" /\ UNCHANGED <<accounts, verifications>>
      BY <2>2 DEF VerifyReject, Finish, Goto, Idle, SerialInv, TypeOK
    <3>2. \A u : Received(u)' = Received(u)
      BY <3>1, SameCounts
    <3>3. NoLag(w)'
      BY <2>2, <3>1, <3>2
         DEF VerifyReject, SerialInv, NoLag, At, Exact, EnoughVerifiers, accounts
    <3> QED
      BY <1>1, <2>0, <3>1, <3>3, QuietSerial
  <2>3. ASSUME NEW v \in Users, NEW i \in DOMAIN verifications, CancelLoad(w, v, i)
        PROVE  SerialInv'
    <3>1. /\ request'[w] = [pc |-> "cancel_mark", actor |-> v, row |-> i]
          /\ UNCHANGED <<accounts, verifications>>
      BY <2>3 DEF CancelLoad, Goto, SerialInv, TypeOK
    <3>2. request'[w].pc = "cancel_mark" /\ request'[w].row = i /\ Active(i)'
      BY <2>3, <3>1 DEF CancelLoad, Active
    <3>3. \A u : Received(u)' = Received(u)
      BY <3>1, SameCounts
    <3>4. NoLag(w)'
      BY <2>3, <3>1, <3>2, <3>3
         DEF CancelLoad, SerialInv, NoLag, At, Exact, EnoughVerifiers, accounts, Active
    <3> QED
      BY <1>1, <2>0, <3>1, <3>2, <3>4, QuietSerial
  <2> QED
    BY <1>1, <1>3, <2>0, <2>1, <2>2, <2>3, InsertSerial, CountSerial, GrantSerial,
       MarkSerial, ReadSerial, RevokeSerial DEF Verify, Cancel
<1> QED
  BY <1>2, <1>3 DEF PeerNext

\* With one worker, whenever it is idle, everybody's status is exactly what
\* their active rows make of it.
THEOREM OneWorkerExact ==
    Cardinality(Workers) = 1 => (PeerSpec => []ThresholdExact)
<1> SUFFICES ASSUME Cardinality(Workers) = 1 PROVE PeerSpec => []ThresholdExact
  OBVIOUS
<1>1. SerialInv /\ [PeerNext]_vars => SerialInv'
  BY SerialStep, UsersAssumption, AtMostOne
<1>2. SerialInv => ThresholdExact
  BY UsersAssumption DEF SerialInv, ThresholdExact, Quiescent, NoLag, At, Exact
<1> QED
  BY <1>1, <1>2, SerialInit, PTL DEF PeerSpec
(***************************************************************************)
(* The register of trust.  A row about to take effect, and one about to be *)
(* withdrawn, are not yet as the register shows them; the invariant keeps  *)
(* what the step they end in needs.                                        *)
(***************************************************************************)
\* The row just inserted is active, and its verifier was entitled to give it.
GivingHeld(w) ==
    LET k == request[w].row
    IN  At(w, "verify_count") \/ At(w, "verify_grant") =>
            /\ Active(k)
            /\ verifications[k].verifier \in verified
            /\ Given(verifications[k].verifier) <= MaxGiven

\* The row just cancelled was the only active one of its pair.
WithdrawalHeld(w) ==
    LET k == request[w].row
    IN  At(w, "cancel_read") \/ At(w, "cancel_revoke") =>
            /\ ~Active(k)
            /\ \A i \in DOMAIN verifications : Active(i) => Pair(i) # Pair(k)

RegisterInv ==
    /\ SerialInv /\ CheckHolds /\ QuotaInv /\ MutualInv
    /\ \A w \in Workers : GivingHeld(w) /\ WithdrawalHeld(w)

LEMMA RegisterInit == Init => RegisterInv
<1> SUFFICES ASSUME Init PROVE RegisterInv
  OBVIOUS
<1>1. SerialInv /\ QuotaInv /\ MutualInv
  BY SerialInit, QuotaInit, MutualInit
<1>2. \A w \in Workers : request[w].pc = "idle"
  BY DEF Init, Idle
<1> QED
  BY <1>1, <1>2 DEF RegisterInv, CheckHolds, GivingHeld, WithdrawalHeld, At

\* The middleware's check entitles the verifier of the row that is inserted.
LEMMA InsertHeld ==
    ASSUME RegisterInv, NEW w \in Workers, \A x \in Workers : x = w, VerifyInsert(w)
    PROVE  GivingHeld(w)' /\ WithdrawalHeld(w)'
<1>1. PICK v, t : v = request[w].actor /\ t = request[w].target
  OBVIOUS
<1>2. TypeOK /\ CanUserVerify(v, t)
  BY <1>1 DEF RegisterInv, SerialInv, CheckHolds, VerifyInsert
<1>3. /\ verifications'[NewId].verifier = v /\ ~verifications'[NewId].cancelled
      /\ Given(v)' = Given(v) + 1
  <2>1. NewRow(v, t).verifier = v /\ ~NewRow(v, t).cancelled
    BY DEF NewRow
  <2> QED
    BY <1>1, <1>2, <2>1, InsertCounts
<1>4. v \in verified' /\ Given(v) < MaxGiven
  BY <1>2 DEF VerifyInsert, CanUserVerify, CanVerify, accounts
<1>5. Given(v)' <= MaxGiven
  BY <1>2, <1>3, <1>4, CountsFinite, UsersAssumption
<1>6. \/ request'[w].pc = "idle"
      \/ request'[w].pc = "verify_count" /\ request'[w].row = NewId
  BY <1>2 DEF VerifyInsert, Finish, Goto, Idle, TypeOK
<1> QED
  BY <1>3, <1>4, <1>5, <1>6 DEF GivingHeld, WithdrawalHeld, At, Active

\* Two active rows for one pair cannot be, so the cancelled one was the only.
LEMMA MarkHeld ==
    ASSUME Cardinality(Workers) = 1, RegisterInv, NEW w \in Workers, CancelMark(w)
    PROVE  GivingHeld(w)' /\ WithdrawalHeld(w)'
<1>1. PICK k : k = request[w].row
  OBVIOUS
<1>2. TypeOK /\ Active(k) /\ NoDuplicateActive
  BY <1>1, OneWorkerNoRepeat DEF RegisterInv, SerialInv, NoLag, CancelMark, At
<1>3. /\ k \in DOMAIN verifications /\ RowsKept
      /\ DOMAIN verifications' = DOMAIN verifications
      /\ \A i \in DOMAIN verifications \ {k} : verifications'[i] = verifications[i]
      /\ verifications'[k].cancelled
  BY <1>1, <1>2, CancelCounts
<1>4. request'[w].pc = "cancel_read" /\ request'[w].row = k
  <2>1. request'[w] = [request[w] EXCEPT !.pc = "cancel_read"]
    BY <1>2 DEF CancelMark, Goto, TypeOK
  <2> QED
    BY <1>1, <1>2, <2>1 DEF CancelMark, At, TypeOK, Request, Idle
<1>5. ASSUME NEW i \in DOMAIN verifications, ~verifications'[i].cancelled
      PROVE  Pair(i)' # Pair(k)'
  <2>1. i # k /\ Active(i)
    BY <1>3, <1>5 DEF Active
  <2>2. Pair(i) # Pair(k)
    BY <1>2, <1>3, <2>1 DEF NoDuplicateActive, Pair
  <2> QED
    BY <1>3, <2>2 DEF RowsKept, Pair
<1> QED
  BY <1>3, <1>4, <1>5 DEF GivingHeld, WithdrawalHeld, At, Active

\* Every other statement leaves the rows as they are.
LEMMA OthersHeld ==
    ASSUME RegisterInv, UNCHANGED verifications, NEW w \in Workers,
           \/ request'[w].pc \in {"idle", "verify_insert", "cancel_mark"}
           \/ /\ request'[w].row = request[w].row
              /\ \/ /\ request'[w].pc \in {"verify_count", "verify_grant"}
                    /\ request[w].pc \in {"verify_count", "verify_grant"}
                    /\ verified' = verified
                 \/ /\ request'[w].pc \in {"cancel_read", "cancel_revoke"}
                    /\ request[w].pc \in {"cancel_read", "cancel_revoke"}
    PROVE  GivingHeld(w)' /\ WithdrawalHeld(w)'
<1>1. \A u : Given(u)' = Given(u)
  BY SameCounts
<1>2. GivingHeld(w) /\ WithdrawalHeld(w)
  BY DEF RegisterInv
<1>3. GivingHeld(w)'
  BY <1>1, <1>2 DEF GivingHeld, At, Active
<1>4. WithdrawalHeld(w)'
  BY <1>2 DEF WithdrawalHeld, At, Active, Pair
<1> QED
  BY <1>3, <1>4

LEMMA RegisterInvStep ==
    ASSUME Cardinality(Workers) = 1
    PROVE  RegisterInv /\ [PeerNext]_vars => RegisterInv'
<1> SUFFICES ASSUME RegisterInv, [PeerNext]_vars PROVE RegisterInv'
  OBVIOUS
<1>1. \A w, x \in Workers : w = x
  BY UsersAssumption, AtMostOne
<1>2. [MemberNext]_vars /\ [Next]_vars /\ TypeOK
  BY DEF PeerNext, MemberNext, Next, RegisterInv, SerialInv
<1>3. SerialInv' /\ CheckHolds' /\ QuotaInv' /\ MutualInv'
  BY <1>1, <1>2, SerialStep, CheckHoldsStep, QuotaStep, MutualStep DEF RegisterInv
<1>4. ASSUME NEW w \in Workers PROVE GivingHeld(w)' /\ WithdrawalHeld(w)'
  <2>1. CASE UNCHANGED vars
    BY <2>1, OthersHeld DEF vars, RegisterInv, GivingHeld, WithdrawalHeld, At, Active, Pair
  <2>2. CASE \E v, t \in Users : VerifyCheck(w, v, t)
    BY <1>2, <2>2, OthersHeld DEF VerifyCheck, Goto, TypeOK
  <2>3. CASE VerifyInsert(w)
    BY <1>1, <2>3, InsertHeld
  <2>4. CASE VerifyReject(w) \/ VerifyGrant(w) \/ CancelRevoke(w)
    BY <1>2, <2>4, OthersHeld
       DEF VerifyReject, VerifyGrant, CancelRevoke, Finish, Goto, Idle, TypeOK
  <2>5. CASE VerifyCount(w)
    <3>1. \/ request'[w].pc = "idle"
          \/ request'[w].pc = "verify_grant" /\ request'[w].row = request[w].row
      BY <1>2, <2>5 DEF VerifyCount, Finish, Goto, At, Idle, TypeOK, Request
    <3> QED
      BY <2>5, <3>1, OthersHeld DEF VerifyCount, At, accounts
  <2>6. CASE \E v \in Users, i \in DOMAIN verifications : CancelLoad(w, v, i)
    BY <1>2, <2>6, OthersHeld DEF CancelLoad, Goto, TypeOK
  <2>7. CASE CancelMark(w)
    BY <2>7, MarkHeld
  <2>8. CASE CancelRead(w)
    <3>1. \/ request'[w].pc = "idle"
          \/ request'[w].pc = "cancel_revoke" /\ request'[w].row = request[w].row
      BY <1>2, <2>8 DEF CancelRead, Finish, Goto, At, Idle, TypeOK, Request
    <3> QED
      BY <2>8, <3>1, OthersHeld DEF CancelRead, At, accounts
  <2> QED
    BY <1>1, <2>1, <2>2, <2>3, <2>4, <2>5, <2>6, <2>7, <2>8 DEF PeerNext, Verify, Cancel
<1> QED
  BY <1>3, <1>4 DEF RegisterInv

\* What the register shows follows from what the only worker is doing.
ShownBy(w) ==
    LET giving == request[w].pc \in {"verify_count", "verify_grant"}
        withdrawing == request[w].pc \in {"cancel_read", "cancel_revoke"}
        k == request[w].row
    IN  /\ Settled = IF giving THEN DOMAIN verifications \ {k} ELSE DOMAIN verifications
        /\ Standing = {i \in Settled : Active(i) \/ (withdrawing /\ i = k)}

LEMMA Shown ==
    ASSUME NEW w \in Workers, \A x \in Workers : x = w
    PROVE  ShownBy(w) /\ ShownBy(w)'
<1>1. ShownBy(w)
  <2>1. \A i : Giving(i) <=> request[w].pc \in {"verify_count", "verify_grant"}
                            /\ request[w].row = i
    BY DEF Giving
  <2>2. \A i : Withdrawing(i) <=> request[w].pc \in {"cancel_read", "cancel_revoke"}
                                 /\ request[w].row = i
    BY DEF Withdrawing
  <2> QED
    BY <2>1, <2>2 DEF ShownBy, Settled, Standing
<1>2. ShownBy(w)'
  <2>1. \A i : Giving(i)' <=> request'[w].pc \in {"verify_count", "verify_grant"}
                             /\ request'[w].row = i
    BY DEF Giving
  <2>2. \A i : Withdrawing(i)' <=> request'[w].pc \in {"cancel_read", "cancel_revoke"}
                                  /\ request'[w].row = i
    BY DEF Withdrawing
  <2> QED
    BY <2>1, <2>2 DEF ShownBy, Settled, Standing
<1> QED
  BY <1>1, <1>2

\* A step that shows the same rows leaves the register as it is.
LEMMA SamePairs ==
    ASSUME RowsKept, Settled' = Settled, Standing' = Standing
    PROVE  Vouched' = Vouched /\ EverVouched' = EverVouched
<1>1. Settled \subseteq DOMAIN verifications /\ Standing \subseteq Settled
  BY DEF Settled, Standing
<1>2. \A i \in Settled : Pair(i)' = Pair(i)
  BY <1>1 DEF RowsKept, Pair
<1> QED
  BY <1>1, <1>2 DEF Vouched, EverVouched

\* A row that takes effect adds its pair.
LEMMA PairAdded ==
    ASSUME RowsKept, NEW k, Settled' = Settled \cup {k}, Standing' = Standing \cup {k}
    PROVE  /\ Vouched' = Vouched \cup {Pair(k)'}
           /\ EverVouched' = EverVouched \cup {Pair(k)'}
<1>1. Settled \subseteq DOMAIN verifications /\ Standing \subseteq Settled
  BY DEF Settled, Standing
<1>2. \A i \in Settled : Pair(i)' = Pair(i)
  BY <1>1 DEF RowsKept, Pair
<1> QED
  BY <1>1, <1>2 DEF Vouched, EverVouched

\* A row that is withdrawn takes its pair with it, if it was the only one.
LEMMA PairRemoved ==
    ASSUME RowsKept, NEW k \in Standing, Settled' = Settled, Standing' = Standing \ {k},
           \A i \in Standing \ {k} : Pair(i) # Pair(k)
    PROVE  Vouched' = Vouched \ {Pair(k)} /\ EverVouched' = EverVouched
<1>1. Settled \subseteq DOMAIN verifications /\ Standing \subseteq Settled
  BY DEF Settled, Standing
<1>2. \A i \in Settled : Pair(i)' = Pair(i)
  BY <1>1 DEF RowsKept, Pair
<1> QED
  BY <1>1, <1>2 DEF Vouched, EverVouched

\* As many members vouch for a user as active rows name them, when no pair
\* has two of them.
LEMMA VouchersCounted ==
    ASSUME TypeOK, NoDuplicateActive, Standing = {i \in DOMAIN verifications : Active(i)},
           NEW u \in Users
    PROVE  Cardinality(Register!VouchersIn(Vouched, u)) = Received(u)
<1> DEFINE V == Register!VouchersIn(Vouched, u)
           f == [i \in ActiveVerifiers(u) |-> verifications[i].verifier]
<1>1. \A i \in DOMAIN verifications :
         verifications[i].verifier \in Users /\ verifications[i].user \in Users
  <2>1. \A i \in DOMAIN verifications : verifications[i] \in Row
    BY LenProperties DEF TypeOK
  <2> QED
    BY <2>1 DEF Row
<1>2. ASSUME NEW v
      PROVE  v \in V <=> \E i \in ActiveVerifiers(u) : verifications[i].verifier = v
  BY <1>1 DEF Register!VouchersIn, Vouched, Pair, ActiveVerifiers, Verifiers
<1>3. f \in [ActiveVerifiers(u) -> V]
  BY <1>2
<1>4. f \in Surjection(ActiveVerifiers(u), V)
  BY <1>2, <1>3 DEF Surjection
<1>5. f \in Injection(ActiveVerifiers(u), V)
  BY <1>3 DEF Injection, IsInjective, NoDuplicateActive, ActiveVerifiers, Verifiers
<1>6. IsFiniteSet(ActiveVerifiers(u))
  BY CountsFinite
<1> HIDE DEF f, V
<1>7. Cardinality(V) = Cardinality(ActiveVerifiers(u))
  BY <1>4, <1>5, <1>6, FS_Surjection
<1> QED
  BY <1>7 DEF Received, V

\* A member vouches for no more users than the rows it gives.
LEMMA VouchedFor ==
    ASSUME TypeOK, NEW v \in Users, NEW R \in SUBSET ActiveVerifications(v),
           \A i \in Standing : verifications[i].verifier = v => i \in R
    PROVE  /\ Cardinality({x \in Users : <<v, x>> \in Vouched}) \in Nat
           /\ Cardinality({x \in Users : <<v, x>> \in Vouched}) <= Cardinality(R)
<1> DEFINE X == {x \in Users : <<v, x>> \in Vouched}
           S == {i \in Standing : verifications[i].verifier = v}
           f == [i \in S |-> verifications[i].user]
<1>1. \A i \in DOMAIN verifications : verifications[i].user \in Users
  <2>1. \A i \in DOMAIN verifications : verifications[i] \in Row
    BY LenProperties DEF TypeOK
  <2> QED
    BY <2>1 DEF Row
<1>2. Standing \subseteq DOMAIN verifications
  BY DEF Standing, Settled
<1>3. \A x : x \in X <=> \E i \in S : verifications[i].user = x
  BY <1>1, <1>2 DEF Vouched, Pair
<1>4. f \in Surjection(S, X)
  BY <1>3 DEF Surjection
<1>5. IsFiniteSet(R)
  BY CountsFinite, FS_Subset
<1>6. S \subseteq R
  OBVIOUS
<1>7. IsFiniteSet(S) /\ Cardinality(S) <= Cardinality(R) /\ Cardinality(R) \in Nat
  BY <1>5, <1>6, FS_Subset, FS_CardinalityType
<1> HIDE DEF f, X, S
<1>8. IsFiniteSet(X) /\ Cardinality(X) <= Cardinality(S)
  BY <1>4, <1>7, FS_Surjection
<1>9. Cardinality(X) \in Nat /\ Cardinality(S) \in Nat
  BY <1>7, <1>8, FS_CardinalityType
<1> QED
  BY <1>7, <1>8, <1>9 DEF X

\* Between requests, the members trusted are those the register trusts.
TrustExact ==
    SerialInv /\ NoDuplicateActive /\ Quiescent => verified = Register!TrustedBy(Vouched)

LEMMA TrustIsExact == TrustExact
<1> SUFFICES ASSUME SerialInv, NoDuplicateActive, Quiescent
             PROVE  verified = Register!TrustedBy(Vouched)
  BY DEF TrustExact
<1>1. Standing = {i \in DOMAIN verifications : Active(i)}
  BY DEF Quiescent, At, Standing, Settled, Giving, Withdrawing
<1>2. TypeOK /\ firstRegistrants = Registrants /\ Registrants \subseteq verified
  BY DEF SerialInv
<1>3. \A u \in Users : Cardinality(Register!VouchersIn(Vouched, u)) = Received(u)
  BY <1>1, <1>2, VouchersCounted
<1>4. \A u \in Users \ Registrants : u \in verified <=> Received(u) >= MinVerifiers
  <2>1. PICK w \in Workers : NoLag(w) /\ request[w].pc = "idle"
    BY UsersAssumption DEF SerialInv, Quiescent, At
  <2> QED
    BY <1>2, <2>1 DEF NoLag, Exact, EnoughVerifiers
<1>5. \A S : Register!Cardinality(S) = Cardinality(S)
  BY DEF Register!Cardinality, Cardinality
<1> QED
  BY <1>2, <1>3, <1>4, <1>5, UsersAssumption DEF Register!TrustedBy, TypeOK

\* The last statement of a verification whose recipient was not verified.
LEMMA VouchesAtEnd ==
    ASSUME RegisterInv, RegisterInv', NoDuplicateActive, NoDuplicateActive',
           NEW w \in Workers, \A x \in Workers : x = w,
           request[w].pc \in {"verify_count", "verify_grant"}, request'[w].pc = "idle",
           UNCHANGED verifications
    PROVE  \E v, u \in Users : Register!Vouch(v, u)
<1>1. PICK k : k = request[w].row
  OBVIOUS
<1>2. /\ TypeOK /\ NoMutual /\ k \in DOMAIN verifications /\ Active(k)
      /\ verifications[k].verifier \in verified
      /\ Given(verifications[k].verifier) <= MaxGiven
  <2>1. TypeOK /\ NoMutual /\ GivingHeld(w)
    BY DEF RegisterInv, MutualInv
  <2>2. k \in DOMAIN verifications
    BY <1>1, <2>1 DEF TypeOK, Request, Idle
  <2> QED
    BY <1>1, <2>1, <2>2 DEF GivingHeld, At
<1>3. PICK v, u : v = verifications[k].verifier /\ u = verifications[k].user
  OBVIOUS
<1>4. v \in Users /\ u \in Users /\ u # v
  <2>1. verifications[k] \in Row
    BY <1>2, LenProperties DEF TypeOK
  <2> QED
    BY <1>2, <1>3, <2>1 DEF Row, NoMutual
<1>5. /\ Settled = DOMAIN verifications \ {k} /\ Settled' = DOMAIN verifications
      /\ Standing = {i \in DOMAIN verifications \ {k} : Active(i)}
      /\ Standing' = {i \in DOMAIN verifications : Active(i)}
  <2>1. ShownBy(w) /\ ShownBy(w)'
    BY Shown
  <2>2. \A i : Active(i)' <=> Active(i)
    BY DEF Active
  <2> QED
    BY <1>1, <2>1, <2>2 DEF ShownBy
<1>6. <<v, u>> \notin Vouched
  BY <1>2, <1>3, <1>5 DEF Vouched, Pair, NoDuplicateActive
<1>7. <<u, v>> \notin EverVouched
  BY <1>2, <1>3, <1>5 DEF EverVouched, Pair, NoMutual
<1>8. Cardinality({x \in Users : <<v, x>> \in Vouched}) < MaxGiven
  <2> DEFINE R == ActiveVerifications(v) \ {k}
  <2>1. k \in ActiveVerifications(v) /\ IsFiniteSet(ActiveVerifications(v))
    BY <1>2, <1>3, CountsFinite DEF ActiveVerifications
  <2>2. Cardinality(R) = Given(v) - 1 /\ IsFiniteSet(R)
    BY <2>1, FS_RemoveElement DEF Given
  <2>3. \A i \in Standing : verifications[i].verifier = v => i \in R
    BY <1>5 DEF ActiveVerifications
  <2> HIDE DEF R
  <2>4. R \subseteq ActiveVerifications(v)
    BY DEF R
  <2>5. /\ Cardinality({x \in Users : <<v, x>> \in Vouched}) \in Nat
        /\ Cardinality({x \in Users : <<v, x>> \in Vouched}) <= Cardinality(R)
    BY <1>2, <1>4, <2>3, <2>4, VouchedFor
  <2>6. Given(v) \in Nat
    BY <1>2, CountsFinite
  <2> QED
    BY <1>2, <1>3, <2>2, <2>5, <2>6, UsersAssumption
<1>9. Vouched' = Vouched \cup {<<v, u>>} /\ EverVouched' = EverVouched \cup {<<v, u>>}
  <2>1. RowsKept /\ Settled' = Settled \cup {k} /\ Standing' = Standing \cup {k}
    BY <1>2, <1>5 DEF RowsKept
  <2>2. Pair(k)' = <<v, u>>
    BY <1>3 DEF Pair
  <2> QED
    BY <2>1, <2>2, PairAdded
<1>10. verified' = Register!TrustedBy(Vouched')
  <2>1. TrustExact'
    BY TrustIsExact, PTL
  <2>2. SerialInv' /\ Quiescent'
    BY DEF RegisterInv, Quiescent, At
  <2> QED
    BY <2>1, <2>2 DEF TrustExact
<1>11. Register!Cardinality({x \in Users : <<v, x>> \in Vouched})
          = Cardinality({x \in Users : <<v, x>> \in Vouched})
  BY DEF Register!Cardinality, Cardinality
<1>12. Register!Vouch(v, u)
  BY <1>2, <1>3, <1>4, <1>6, <1>7, <1>8, <1>9, <1>10, <1>11 DEF Register!Vouch
<1> QED
  BY <1>4, <1>12

\* An insertion for a recipient who is verified already ends its request.
LEMMA VouchesAtOnce ==
    ASSUME RegisterInv, RegisterInv', NoDuplicateActive',
           NEW w \in Workers, \A x \in Workers : x = w,
           VerifyInsert(w), request'[w].pc = "idle"
    PROVE  \E v, u \in Users : Register!Vouch(v, u)
<1>1. PICK v, u : v = request[w].actor /\ u = request[w].target
  OBVIOUS
<1>2. TypeOK /\ CanUserVerify(v, u) /\ request[w].pc = "verify_insert"
  BY <1>1 DEF RegisterInv, SerialInv, CheckHolds, VerifyInsert, At
<1>3. /\ v \in Users /\ u \in Users
      /\ DOMAIN verifications' = DOMAIN verifications \cup {NewId}
      /\ \A i \in DOMAIN verifications : verifications'[i] = verifications[i]
      /\ verifications'[NewId] = NewRow(v, u)
  BY <1>1, <1>2, InsertCounts
<1>4. /\ Settled = DOMAIN verifications /\ Settled' = DOMAIN verifications'
      /\ Standing = {i \in DOMAIN verifications : Active(i)}
      /\ Standing' = {i \in DOMAIN verifications' : Active(i)'}
  <2>1. ShownBy(w) /\ ShownBy(w)'
    BY Shown
  <2> QED
    BY <1>2, <2>1 DEF ShownBy
<1>5. <<v, u>> \notin Vouched
  BY <1>2, <1>4 DEF Vouched, Pair, CanUserVerify, ActiveVerifications
<1>6. <<u, v>> \notin EverVouched
  BY <1>2, <1>4 DEF EverVouched, Pair, CanUserVerify, Verifiers
<1>7. Cardinality({x \in Users : <<v, x>> \in Vouched}) < MaxGiven
  <2>1. \A i \in Standing : verifications[i].verifier = v => i \in ActiveVerifications(v)
    BY <1>4 DEF ActiveVerifications
  <2>2. /\ Cardinality({x \in Users : <<v, x>> \in Vouched}) \in Nat
        /\ Cardinality({x \in Users : <<v, x>> \in Vouched}) <= Given(v)
    BY <1>2, <1>3, <2>1, VouchedFor DEF Given
  <2>3. Given(v) < MaxGiven /\ Given(v) \in Nat
    BY <1>2, CountsFinite DEF CanUserVerify, CanVerify
  <2> QED
    BY <2>2, <2>3, UsersAssumption
<1>8. Vouched' = Vouched \cup {<<v, u>>} /\ EverVouched' = EverVouched \cup {<<v, u>>}
  <2>1. RowsKept /\ Settled' = Settled \cup {NewId}
    BY <1>3, <1>4 DEF RowsKept
  <2>2. Standing' = Standing \cup {NewId}
    BY <1>3, <1>4 DEF Active, NewRow
  <2>3. verifications'[NewId].verifier = v /\ verifications'[NewId].user = u
    BY <1>3 DEF NewRow
  <2>4. PICK k : k = NewId
    OBVIOUS
  <2>5. Pair(k)' = <<v, u>>
    BY <2>3, <2>4 DEF Pair
  <2> QED
    BY <2>1, <2>2, <2>4, <2>5, PairAdded
<1>9. verified' = Register!TrustedBy(Vouched')
  <2>1. TrustExact'
    BY TrustIsExact, PTL
  <2>2. SerialInv' /\ Quiescent'
    BY DEF RegisterInv, Quiescent, At
  <2> QED
    BY <2>1, <2>2 DEF TrustExact
<1>10. Register!Cardinality({x \in Users : <<v, x>> \in Vouched})
          = Cardinality({x \in Users : <<v, x>> \in Vouched})
  BY DEF Register!Cardinality, Cardinality
<1>11. v \in verified /\ u # v
  BY <1>2 DEF CanUserVerify, CanVerify
<1>12. Register!Vouch(v, u)
  BY <1>5, <1>6, <1>7, <1>8, <1>9, <1>10, <1>11 DEF Register!Vouch
<1> QED
  BY <1>3, <1>12

\* The last statement of a cancellation, whether or not it revokes.
LEMMA WithdrawsAtEnd ==
    ASSUME RegisterInv, RegisterInv', NoDuplicateActive',
           NEW w \in Workers, \A x \in Workers : x = w,
           request[w].pc \in {"cancel_read", "cancel_revoke"}, request'[w].pc = "idle",
           UNCHANGED verifications
    PROVE  \E v, u \in Users : Register!Withdraw(v, u)
<1>1. PICK k : k = request[w].row
  OBVIOUS
<1>2. /\ TypeOK /\ k \in DOMAIN verifications /\ ~Active(k)
      /\ \A i \in DOMAIN verifications : Active(i) => Pair(i) # Pair(k)
  <2>1. TypeOK /\ WithdrawalHeld(w)
    BY DEF RegisterInv, MutualInv
  <2>2. k \in DOMAIN verifications
    BY <1>1, <2>1 DEF TypeOK, Request, Idle
  <2> QED
    BY <1>1, <2>1, <2>2 DEF WithdrawalHeld, At
<1>3. PICK v, u : v = verifications[k].verifier /\ u = verifications[k].user
  OBVIOUS
<1>4. v \in Users /\ u \in Users
  <2>1. verifications[k] \in Row
    BY <1>2, LenProperties DEF TypeOK
  <2> QED
    BY <1>3, <2>1 DEF Row
<1>5. /\ Settled = DOMAIN verifications /\ Settled' = DOMAIN verifications
      /\ Standing = {i \in DOMAIN verifications : Active(i)} \cup {k}
      /\ Standing' = {i \in DOMAIN verifications : Active(i)}
  <2>1. ShownBy(w) /\ ShownBy(w)'
    BY Shown
  <2>2. \A i : Active(i)' <=> Active(i)
    BY DEF Active
  <2> QED
    BY <1>1, <1>2, <2>1, <2>2 DEF ShownBy
<1>6. Vouched' = Vouched \ {Pair(k)} /\ EverVouched' = EverVouched
  <2>1. RowsKept /\ k \in Standing /\ Settled' = Settled /\ Standing' = Standing \ {k}
    BY <1>2, <1>5 DEF RowsKept
  <2>2. \A i \in Standing \ {k} : Pair(i) # Pair(k)
    BY <1>2, <1>5
  <2> QED
    BY <2>1, <2>2, PairRemoved
<1>7. Pair(k) = <<v, u>> /\ <<v, u>> \in Vouched
  BY <1>3, <1>5 DEF Pair, Vouched
<1>8. verified' = Register!TrustedBy(Vouched')
  <2>1. TrustExact'
    BY TrustIsExact, PTL
  <2>2. SerialInv' /\ Quiescent'
    BY DEF RegisterInv, Quiescent, At
  <2> QED
    BY <2>1, <2>2 DEF TrustExact
<1>9. Register!Withdraw(v, u)
  BY <1>6, <1>7, <1>8 DEF Register!Withdraw
<1> QED
  BY <1>4, <1>9

\* A statement in the middle of a request, seen from the register.
LEMMA Unseen ==
    ASSUME NEW w \in Workers, \A x \in Workers : x = w, UNCHANGED <<verifications, verified>>,
           \/ /\ request[w].pc \in {"idle", "verify_insert", "cancel_mark"}
              /\ request'[w].pc \in {"idle", "verify_insert", "cancel_mark"}
           \/ /\ request'[w].row = request[w].row
              /\ \/ /\ request[w].pc \in {"verify_count", "verify_grant"}
                    /\ request'[w].pc \in {"verify_count", "verify_grant"}
                 \/ /\ request[w].pc \in {"cancel_read", "cancel_revoke"}
                    /\ request'[w].pc \in {"cancel_read", "cancel_revoke"}
    PROVE  UNCHANGED <<Vouched, EverVouched, verified>>
<1>1. ShownBy(w) /\ ShownBy(w)'
  BY Shown
<1>2. \A i : Active(i)' <=> Active(i)
  BY DEF Active
<1>3. Settled' = Settled /\ Standing' = Standing
  BY <1>1, <1>2 DEF ShownBy
<1> QED
  BY <1>3, SamePairs DEF RowsKept

\* The row just inserted is not shown yet.
LEMMA InsertUnseen ==
    ASSUME RegisterInv, NEW w \in Workers, \A x \in Workers : x = w,
           VerifyInsert(w), request'[w].pc = "verify_count", request'[w].row = NewId
    PROVE  UNCHANGED <<Vouched, EverVouched, verified>>
<1>1. PICK v, t : v = request[w].actor /\ t = request[w].target
  OBVIOUS
<1>2. TypeOK /\ request[w].pc = "verify_insert" /\ verified' = verified
  BY DEF RegisterInv, SerialInv, VerifyInsert, At, accounts
<1>3. /\ NewId \notin DOMAIN verifications
      /\ DOMAIN verifications' = DOMAIN verifications \cup {NewId}
      /\ \A i \in DOMAIN verifications : verifications'[i] = verifications[i]
  BY <1>1, <1>2, InsertCounts
<1>4. ShownBy(w) /\ ShownBy(w)'
  BY Shown
<1>5. Settled' = Settled /\ Standing' = Standing
  BY <1>2, <1>3, <1>4 DEF ShownBy, Active
<1> QED
  BY <1>2, <1>3, <1>5, SamePairs DEF RowsKept

\* The row just cancelled is shown until its request ends.
LEMMA MarkUnseen ==
    ASSUME RegisterInv, NEW w \in Workers, \A x \in Workers : x = w, CancelMark(w)
    PROVE  UNCHANGED <<Vouched, EverVouched, verified>>
<1>1. PICK k : k = request[w].row
  OBVIOUS
<1>2. TypeOK /\ Active(k) /\ request[w].pc = "cancel_mark" /\ verified' = verified
  BY <1>1 DEF RegisterInv, SerialInv, NoLag, CancelMark, At, accounts
<1>3. /\ k \in DOMAIN verifications /\ RowsKept
      /\ DOMAIN verifications' = DOMAIN verifications
      /\ \A i \in DOMAIN verifications \ {k} : verifications'[i] = verifications[i]
  BY <1>1, <1>2, CancelCounts
<1>4. request'[w].pc = "cancel_read" /\ request'[w].row = k
  <2>1. request'[w] = [request[w] EXCEPT !.pc = "cancel_read"]
    BY <1>2 DEF CancelMark, Goto, TypeOK
  <2> QED
    BY <1>1, <1>2, <2>1 DEF TypeOK, Request, Idle
<1>5. ShownBy(w) /\ ShownBy(w)'
  BY Shown
<1>6. Settled' = Settled /\ Standing' = Standing
  BY <1>2, <1>3, <1>4, <1>5 DEF ShownBy, Active
<1> QED
  BY <1>2, <1>3, <1>6, SamePairs

\* Every statement is a step of the register or is not seen there.
LEMMA RegisterNext ==
    ASSUME Cardinality(Workers) = 1, RegisterInv, RegisterInv',
           NoDuplicateActive, NoDuplicateActive', [PeerNext]_vars
    PROVE  [Register!Next]_<<Vouched, EverVouched, verified>>
<1>1. \A w, x \in Workers : w = x
  BY UsersAssumption, AtMostOne
<1>2. TypeOK
  BY DEF RegisterInv, MutualInv
<1>3. CASE UNCHANGED vars
  <2>1. PICK w \in Workers : TRUE
    BY UsersAssumption
  <2>2. UNCHANGED <<verifications, verified>> /\ request'[w] = request[w]
    BY <1>3 DEF vars
  <2>3. request[w].pc \notin {"basic_cancel", "basic_revoke"}
    BY DEF RegisterInv, SerialInv
  <2>4. request[w].pc \in {"idle", "verify_insert", "cancel_mark", "verify_count",
                           "verify_grant", "cancel_read", "cancel_revoke"}
    BY <1>2, <2>3 DEF TypeOK, Request, Idle
  <2>5. UNCHANGED <<Vouched, EverVouched, verified>>
    BY <1>1, <2>2, <2>4, Unseen
  <2> QED
    BY <2>5
<1>4. ASSUME NEW w \in Workers, Verify(w) \/ Cancel(w)
      PROVE  \/ UNCHANGED <<Vouched, EverVouched, verified>>
             \/ \E v, u \in Users : Register!Vouch(v, u) \/ Register!Withdraw(v, u)
  <2>1. CASE \/ \E v, t \in Users : VerifyCheck(w, v, t)
             \/ VerifyReject(w)
             \/ \E v \in Users, i \in DOMAIN verifications : CancelLoad(w, v, i)
    <3>1. /\ request[w].pc \in {"idle", "verify_insert"}
          /\ request'[w].pc \in {"idle", "verify_insert", "cancel_mark"}
          /\ UNCHANGED <<verifications, verified>>
      BY <1>2, <2>1 DEF VerifyCheck, VerifyReject, CancelLoad, Goto, Finish, Idle, At,
                        TypeOK, accounts
    <3> QED
      BY <1>1, <3>1, Unseen
  <2>2. CASE VerifyInsert(w)
    <3>1. \/ request'[w].pc = "idle"
          \/ request'[w].pc = "verify_count" /\ request'[w].row = NewId
      BY <1>2, <2>2 DEF VerifyInsert, Finish, Goto, Idle, TypeOK
    <3> QED
      BY <1>1, <2>2, <3>1, VouchesAtOnce, InsertUnseen
  <2>3. CASE VerifyCount(w)
    <3>1. /\ request[w].pc = "verify_count" /\ UNCHANGED <<verifications, verified>>
          /\ \/ request'[w].pc = "idle"
             \/ request'[w].pc = "verify_grant" /\ request'[w].row = request[w].row
      BY <1>2, <2>3 DEF VerifyCount, Finish, Goto, At, Idle, TypeOK, Request, accounts
    <3> QED
      BY <1>1, <3>1, VouchesAtEnd, Unseen
  <2>4. CASE VerifyGrant(w)
    <3>1. /\ request[w].pc = "verify_grant" /\ request'[w].pc = "idle"
          /\ UNCHANGED verifications
      BY <1>2, <2>4 DEF VerifyGrant, Finish, Goto, At, Idle, TypeOK
    <3> QED
      BY <1>1, <3>1, VouchesAtEnd
  <2>5. CASE CancelMark(w)
    BY <1>1, <2>5, MarkUnseen
  <2>6. CASE CancelRead(w)
    <3>1. /\ request[w].pc = "cancel_read" /\ UNCHANGED <<verifications, verified>>
          /\ \/ request'[w].pc = "idle"
             \/ request'[w].pc = "cancel_revoke" /\ request'[w].row = request[w].row
      BY <1>2, <2>6 DEF CancelRead, Finish, Goto, At, Idle, TypeOK, Request, accounts
    <3> QED
      BY <1>1, <3>1, WithdrawsAtEnd, Unseen
  <2>7. CASE CancelRevoke(w)
    <3>1. /\ request[w].pc = "cancel_revoke" /\ request'[w].pc = "idle"
          /\ UNCHANGED verifications
      BY <1>2, <2>7 DEF CancelRevoke, Finish, Goto, At, Idle, TypeOK
    <3> QED
      BY <1>1, <3>1, WithdrawsAtEnd
  <2> QED
    BY <1>4, <2>1, <2>2, <2>3, <2>4, <2>5, <2>6, <2>7 DEF Verify, Cancel
<1>5. CASE PeerNext
  BY <1>4, <1>5 DEF PeerNext, Register!Next
<1> QED
  BY <1>3, <1>5

\* With one worker, the requests that give and cancel verifications implement
\* the register of trust: each takes effect in one step, on a member who was
\* free to vouch, and the members trusted are those enough others vouch for.
THEOREM OneWorkerRegister ==
    Cardinality(Workers) = 1 => (PeerSpec => ImplementsRegister)
<1> SUFFICES ASSUME Cardinality(Workers) = 1 PROVE PeerSpec => ImplementsRegister
  OBVIOUS
<1>1. Init => Register!Init
  <2> SUFFICES ASSUME Init PROVE Register!Init
    OBVIOUS
  <2>1. Settled = {} /\ Standing = {}
    BY DEF Init, Settled, Standing
  <2> QED
    BY <2>1 DEF Register!Init, Vouched, EverVouched, Init
<1>2. RegisterInv => NoDuplicateActive
  BY OneWorkerNoRepeat DEF RegisterInv
<1>3. RegisterInv /\ [PeerNext]_vars => RegisterInv'
  BY RegisterInvStep
<1>4. /\ RegisterInv /\ RegisterInv' /\ NoDuplicateActive /\ NoDuplicateActive'
      /\ [PeerNext]_vars
      => [Register!Next]_(Register!registerVars)
  BY RegisterNext DEF Register!registerVars
<1> QED
  BY <1>1, <1>2, <1>3, <1>4, RegisterInit, PTL
     DEF PeerSpec, ImplementsRegister, Register!Spec


=============================================================================
