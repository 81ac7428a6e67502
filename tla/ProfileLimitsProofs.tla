------------------------ MODULE ProfileLimitsProofs ------------------------
(***************************************************************************)
(* Proofs about ProfileLimits, for every number of users and workers and   *)
(* all limits.  The invariant says of each request in flight what it has   *)
(* done so far; the bound on the changes then follows from what a request  *)
(* counts at the moment it is allowed to save.                             *)
(***************************************************************************)
EXTENDS ProfileLimits, FiniteSetTheorems, TLAPS

Busy(w) == ~At(w, "idle")

\* A request saves once, under its own number, before it leaves its row.
Flight ==
    \A w \in Workers :
        /\ Busy(w) => request[w].number \in 1..started
        /\ request[w].pc \in {"save", "block"} =>
              request[w].number \notin DOMAIN changes
        /\ At(w, "record") =>
              /\ request[w].number \in DOMAIN changes
              /\ changes[request[w].number].user = request[w].user
              /\ changes[request[w].number].kind = request[w].kind

Distinct ==
    \A w, x \in Workers :
        Busy(w) /\ Busy(x) /\ request[w].number = request[x].number => w = x

\* What was changed was changed before now.
Past == \A i \in DOMAIN changes : changes[i].at <= day

Exhausted(u, k) == Cardinality(Of(u, k)) >= Limit[k]

\* A row that is not of a blocked attempt is of a change.
RowsAreChanges ==
    \A i \in DOMAIN trail, u \in Users, k \in Kinds :
        ~trail[i].blocked /\ trail[i].user = u /\ trail[i].kind = k => i \in Of(u, k)

\* BlockedDeserved, and as much of the requests that are about to be refused.
Refused ==
    \A i \in DOMAIN trail, u \in Users, k \in Kinds :
        trail[i].blocked /\ trail[i].user = u /\ trail[i].kind = k => Exhausted(u, k)

Refusing ==
    \A w \in Workers, u \in Users, k \in Kinds :
        At(w, "block") /\ request[w].user = u /\ request[w].kind = k => Exhausted(u, k)

IInv == /\ TypeOK /\ Flight /\ Distinct /\ Past
        /\ TrailComplete /\ RowsAreChanges
        /\ Refused /\ Refusing

-----------------------------------------------------------------------------
\* With adds one pair to a function.
LEMMA WithOne ==
    ASSUME NEW f, NEW i, NEW e
    PROVE  /\ DOMAIN With(f, i, e) = DOMAIN f \cup {i}
           /\ With(f, i, e)[i] = e
           /\ \A j \in DOMAIN f \ {i} : With(f, i, e)[j] = f[j]
  BY DEF With

\* It keeps the type of the function's values.
LEMMA WithType ==
    ASSUME NEW T, NEW f, f \in [DOMAIN f -> T], NEW i, NEW e \in T
    PROVE  With(f, i, e) \in [DOMAIN With(f, i, e) -> T]
  BY DEF With

\* A request in flight has a number, a user and a kind.
LEMMA RequestType ==
    ASSUME TypeOK, NEW w \in Workers, Busy(w)
    PROVE  /\ request[w].number \in Numbers
           /\ request[w].user \in Users
           /\ request[w].kind \in Kinds
           /\ request[w].pc \in {"save", "record", "block"}
           /\ request[w] = [pc |-> request[w].pc, number |-> request[w].number,
                            user |-> request[w].user, kind |-> request[w].kind]
  BY DEF TypeOK, Busy, At, Request, Idle

\* Saving moves the request on and lets the others be.
LEMMA Saved ==
    ASSUME TypeOK, NEW w \in Workers, Save(w)
    PROVE  /\ Busy(w)
           /\ request'[w] = [pc |-> "record", number |-> request[w].number,
                             user |-> request[w].user, kind |-> request[w].kind]
           /\ request' = [request EXCEPT ![w] = request'[w]]
           /\ \A x \in Workers \ {w} : request'[x] = request[x]
           /\ DOMAIN changes' = DOMAIN changes \cup {request[w].number}
           /\ changes'[request[w].number] =
                 [user |-> request[w].user, kind |-> request[w].kind, at |-> day]
           /\ \A j \in DOMAIN changes \ {request[w].number} : changes'[j] = changes[j]
           /\ UNCHANGED <<day, trail, started, died>>
  <1> DEFINE q(pc) == [pc |-> pc, number |-> request[w].number,
                       user |-> request[w].user, kind |-> request[w].kind]
  <1>1. Busy(w)
    BY DEF Save, At, Busy
  <1>2. request[w] = q(request[w].pc)
    BY <1>1, RequestType
  <1>3. [q(request[w].pc) EXCEPT !.pc = "record"] = q("record")
    OBVIOUS
  <1>4. [request[w] EXCEPT !.pc = "record"] = q("record")
    BY <1>2, <1>3
  <1>5. request' = [request EXCEPT ![w] = q("record")]
    BY <1>4 DEF Save, Goto
  <1>6. /\ request'[w] = q("record")
        /\ request' = [request EXCEPT ![w] = request'[w]]
        /\ \A x \in Workers \ {w} : request'[x] = request[x]
    BY <1>5 DEF TypeOK
  <1> DEFINE e == [user |-> request[w].user, kind |-> request[w].kind, at |-> day]
  <1>7. changes' = With(changes, request[w].number, e)
    BY DEF Save
  <1>8. /\ DOMAIN changes' = DOMAIN changes \cup {request[w].number}
        /\ changes'[request[w].number] = e
        /\ \A j \in DOMAIN changes \ {request[w].number} : changes'[j] = changes[j]
    <2> HIDE DEF e
    <2> QED
      BY <1>7 DEF With
  <1> QED
    BY <1>1, <1>6, <1>8 DEF Save

-----------------------------------------------------------------------------
\* Nothing is in flight at first.
LEMMA InitInv == Init => IInv
  <1> SUFFICES ASSUME Init PROVE IInv
    OBVIOUS
  <1>1. DOMAIN trail = {} /\ DOMAIN changes = {}
    BY DEF Init
  <1>2. \A w \in Workers : request[w] = Idle
    BY DEF Init
  <1>3. TypeOK
    <2>1. trail \in [DOMAIN trail -> Row] /\ changes \in [DOMAIN changes -> Change]
      BY <1>1 DEF Init
    <2> QED
      BY <1>1, <2>1, LimitsAssumption DEF Init, TypeOK, Request
  <1> QED
    BY <1>1, <1>2, <1>3
    DEF IInv, Flight, Distinct, Past, TrailComplete, RowsAreChanges,
        Refused, Refusing, Busy, At, Idle

\* The types are kept.
LEMMA TypeStep == TypeOK /\ Flight /\ [Next]_vars => TypeOK'
  <1> SUFFICES ASSUME TypeOK, Flight, [Next]_vars PROVE TypeOK'
    OBVIOUS
  <1>1. ASSUME NEW w \in Workers, NEW u \in Users, NEW k \in Kinds, Check(w, u, k)
        PROVE  TypeOK'
    <2>1. started' = started + 1 /\ started' \in 0..MaxRequests
          /\ NewNumber \in Numbers
      BY <1>1, LimitsAssumption DEF Check, TypeOK, Numbers, NewNumber
    <2>2. request' \in [Workers -> Request]
      BY <1>1, <2>1 DEF Check, Goto, TypeOK, Request
    <2>3. 1..started \subseteq 1..started'
      BY <2>1 DEF TypeOK
    <2> QED
      BY <1>1, <2>1, <2>2, <2>3 DEF Check, TypeOK
  <1>2. ASSUME NEW w \in Workers, Save(w) PROVE TypeOK'
    <2>1. Busy(w)
      BY <1>2 DEF Save, At, Busy
    <2> DEFINE e == [user |-> request[w].user, kind |-> request[w].kind, at |-> day]
    <2>2. e \in Change
      BY <2>1, RequestType DEF Change, TypeOK
    <2>3. changes' = With(changes, request[w].number, e)
      BY <1>2 DEF Save
    <2>4. changes' \in [DOMAIN changes' -> Change]
      BY <2>2, <2>3, WithType DEF TypeOK
    <2>5. DOMAIN changes' \subseteq 1..started
      <3>1. DOMAIN changes' = DOMAIN changes \cup {request[w].number}
        BY <1>2, Saved
      <3>2. request[w].number \in 1..started
        BY <2>1 DEF Flight
      <3> QED
        BY <3>1, <3>2 DEF TypeOK
    <2>6. request' \in [Workers -> Request]
      <3> DEFINE r == [pc |-> "record", number |-> request[w].number,
                       user |-> request[w].user, kind |-> request[w].kind]
      <3>1. request'[w] = r
        BY <1>2, Saved
      <3>2. r \in Request
        BY <2>1, RequestType DEF Request
      <3>3. request' = [request EXCEPT ![w] = request'[w]]
        BY <1>2, Saved
      <3> QED
        BY <3>1, <3>2, <3>3 DEF TypeOK
    <2> QED
      BY <1>2, <2>4, <2>5, <2>6 DEF Save, TypeOK
  <1>3. ASSUME NEW w \in Workers, NEW b \in BOOLEAN, Busy(w), Leave(w, b), Finish(w),
               UNCHANGED <<day, started, changes, died>>
        PROVE  TypeOK'
    <2> DEFINE e == [user |-> request[w].user, kind |-> request[w].kind,
                     at |-> day, blocked |-> b]
    <2>2. e \in Row
      BY <1>3, RequestType DEF Row, TypeOK
    <2>3. trail' = With(trail, request[w].number, e)
      BY <1>3 DEF Leave
    <2>4. trail' \in [DOMAIN trail' -> Row]
      BY <2>2, <2>3, WithType DEF TypeOK
    <2>5. DOMAIN trail' \subseteq 1..started
      <3>1. DOMAIN trail' = DOMAIN trail \cup {request[w].number}
        BY <2>3 DEF With
      <3>2. request[w].number \in 1..started
        BY <1>3 DEF Flight
      <3> QED
        BY <3>1, <3>2 DEF TypeOK
    <2>6. request' \in [Workers -> Request]
      BY <1>3 DEF Finish, Goto, TypeOK, Request
    <2> QED
      BY <1>3, <2>4, <2>5, <2>6 DEF TypeOK
  <1>4. ASSUME NEW w \in Workers, Die(w) PROVE TypeOK'
    <2>1. request[w].number \in 1..started
      BY <1>4 DEF Die, Flight, Busy
    <2>2. request' \in [Workers -> Request]
      BY <1>4 DEF Die, Finish, Goto, TypeOK, Request
    <2> QED
      BY <1>4, <2>1, <2>2 DEF Die, TypeOK
  <1>5. CASE Prune
    <2>1. DOMAIN trail' \subseteq DOMAIN trail
      BY <1>5 DEF Prune
    <2>2. trail' \in [DOMAIN trail' -> Row]
      BY <1>5 DEF Prune, TypeOK
    <2> QED
      BY <1>5, <2>1, <2>2 DEF Prune, TypeOK
  <1>6. CASE Tick
    BY <1>6, LimitsAssumption DEF Tick, TypeOK
  <1>7. CASE UNCHANGED vars
    BY <1>7 DEF vars, TypeOK
  <1> QED
    BY <1>1, <1>2, <1>3, <1>4, <1>5, <1>6, <1>7 DEF Next, Record, Block, Busy, At

\* Requests keep their numbers apart and save before they leave a row.
LEMMA FlightStep ==
    TypeOK /\ TypeOK' /\ Flight /\ Distinct /\ [Next]_vars => Flight' /\ Distinct'
  <1> SUFFICES ASSUME TypeOK, TypeOK', Flight, Distinct, [Next]_vars
               PROVE  Flight' /\ Distinct'
    OBVIOUS
  <1>1. ASSUME NEW w \in Workers, NEW u \in Users, NEW k \in Kinds, Check(w, u, k)
        PROVE  Flight' /\ Distinct'
    <2>1. /\ request'[w] = [pc |-> IF Allowed(u, k) THEN "save" ELSE "block",
                            number |-> NewNumber, user |-> u, kind |-> k]
          /\ \A x \in Workers \ {w} : request'[x] = request[x]
          /\ UNCHANGED <<changes>> /\ started' = started + 1
      BY <1>1 DEF Check, Goto, TypeOK
    <2>2. NewNumber \notin 1..started /\ NewNumber \in 1..started'
          /\ 1..started \subseteq 1..started'
      BY <2>1 DEF TypeOK, NewNumber
    <2>3. Flight'
      BY <2>1, <2>2 DEF Flight, Busy, At, TypeOK
    <2>4. Distinct'
      BY <2>1, <2>2 DEF Distinct, Flight, Busy, At
    <2> QED
      BY <2>3, <2>4
  <1>2. ASSUME NEW w \in Workers, Save(w) PROVE Flight' /\ Distinct'
    <2> DEFINE n == request[w].number
    <2>0. /\ Busy(w)
          /\ request'[w] = [pc |-> "record", number |-> n,
                            user |-> request[w].user, kind |-> request[w].kind]
          /\ \A x \in Workers \ {w} : request'[x] = request[x]
          /\ DOMAIN changes' = DOMAIN changes \cup {n}
          /\ changes'[n] =
                [user |-> request[w].user, kind |-> request[w].kind, at |-> day]
          /\ \A j \in DOMAIN changes \ {n} : changes'[j] = changes[j]
          /\ started' = started
      BY <1>2, Saved
    <2>1. n \in 1..started
      BY <2>0 DEF Flight
    <2>2. \A x \in Workers \ {w} : Busy(x) => request[x].number # n
      BY <2>0 DEF Distinct
    <2>3. Flight'
      <3>1. /\ n \in DOMAIN changes'
            /\ changes'[n].user = request[w].user
            /\ changes'[n].kind = request[w].kind
        BY <2>0
      <3>2. /\ request'[w].pc = "record"
            /\ request'[w].number = n
            /\ request'[w].user = request[w].user
            /\ request'[w].kind = request[w].kind
        BY <2>0
      <3> HIDE DEF n
      <3>3. \A x \in Workers \ {w} : Busy(x) =>
               /\ request'[x] = request[x]
               /\ request[x].number # n
        BY <2>0, <2>2
      <3>4. ASSUME NEW x \in Workers, x # w
            PROVE  /\ Busy(x)' => request'[x].number \in 1..started'
                   /\ request'[x].pc \in {"save", "block"} =>
                         request'[x].number \notin DOMAIN changes'
                   /\ At(x, "record")' =>
                         /\ request'[x].number \in DOMAIN changes'
                         /\ changes'[request'[x].number].user = request'[x].user
                         /\ changes'[request'[x].number].kind = request'[x].kind
        BY <2>0, <3>3, <3>4 DEF Flight, Busy, At
      <3>5. /\ Busy(w)' => request'[w].number \in 1..started'
            /\ request'[w].pc \in {"save", "block"} =>
                  request'[w].number \notin DOMAIN changes'
            /\ At(w, "record")' =>
                  /\ request'[w].number \in DOMAIN changes'
                  /\ changes'[request'[w].number].user = request'[w].user
                  /\ changes'[request'[w].number].kind = request'[w].kind
        BY <2>0, <2>1, <3>1, <3>2
      <3> QED
        BY <3>4, <3>5 DEF Flight
    <2>4. Distinct'
      BY <2>0, <2>2 DEF Distinct, Busy, At
    <2> QED
      BY <2>3, <2>4
  <1>3. ASSUME NEW w \in Workers, Finish(w), UNCHANGED <<started, changes>>
        PROVE  Flight' /\ Distinct'
    <2>1. /\ request'[w] = Idle
          /\ \A x \in Workers \ {w} : request'[x] = request[x]
      BY <1>3 DEF Finish, Goto, TypeOK
    <2> QED
      BY <1>3, <2>1 DEF Flight, Distinct, Busy, At, Idle
  <1>4. CASE Prune \/ Tick \/ UNCHANGED vars
    BY <1>4 DEF Prune, Tick, vars, Flight, Distinct, Busy, At
  <1> QED
    BY <1>1, <1>2, <1>3, <1>4 DEF Next, Record, Block, Die

-----------------------------------------------------------------------------
\* The numbers of the requests are finitely many.
LEMMA UpTo ==
    ASSUME NEW n \in Int
    PROVE  IsFiniteSet(1..n)
  BY FS_Interval

\* The changes of a kind are finite in number.
LEMMA OfFinite ==
    ASSUME TypeOK, NEW u, NEW k
    PROVE  IsFiniteSet(Of(u, k)) /\ Of(u, k) \subseteq 1..started
  <1>1. Of(u, k) \subseteq 1..started
    BY DEF Of, TypeOK
  <1>2. IsFiniteSet(1..started)
    BY UpTo DEF TypeOK
  <1> QED
    BY <1>1, <1>2, FS_Subset

\* So are the rows that a request counts.
LEMMA CountedFinite ==
    ASSUME TypeOK, NEW u, NEW k
    PROVE  IsFiniteSet(Counted(u, k))
  <1>1. Counted(u, k) \subseteq 1..started
    BY DEF Counted, TypeOK
  <1>2. IsFiniteSet(1..started)
    BY UpTo DEF TypeOK
  <1> QED
    BY <1>1, <1>2, FS_Subset

\* What a step of the trail does not touch the changes of.
LEMMA SavedOf ==
    ASSUME TypeOK, Flight, NEW w \in Workers, Save(w), NEW u, NEW k
    PROVE  /\ Of(u, k) \subseteq Of(u, k)'
           /\ Of(u, k)' \subseteq Of(u, k) \cup {request[w].number}
           /\ request[w].number \in Of(u, k)' =>
                 u = request[w].user /\ k = request[w].kind
  <1> DEFINE n == request[w].number
  <1>1. /\ DOMAIN changes' = DOMAIN changes \cup {n}
        /\ changes'[n] =
              [user |-> request[w].user, kind |-> request[w].kind, at |-> day]
        /\ \A j \in DOMAIN changes \ {n} : changes'[j] = changes[j]
    BY Saved
  <1>2. n \notin DOMAIN changes
    BY DEF Flight, Save, At
  <1>3. changes'[n].user = request[w].user /\ changes'[n].kind = request[w].kind
    BY <1>1
  <1> HIDE DEF n
  <1>4. /\ Of(u, k) \subseteq Of(u, k)'
        /\ Of(u, k)' \subseteq Of(u, k) \cup {n}
        /\ n \in Of(u, k)' => u = request[w].user /\ k = request[w].kind
    BY <1>1, <1>2, <1>3 DEF Of
  <1> QED
    BY <1>4 DEF n

\* No step takes a change back.
LEMMA OfGrows ==
    ASSUME TypeOK, Flight, [Next]_vars, NEW u, NEW k
    PROVE  Of(u, k) \subseteq Of(u, k)'
  <1>1. ASSUME NEW w \in Workers, Save(w) PROVE Of(u, k) \subseteq Of(u, k)'
    BY <1>1, SavedOf
  <1>2. ASSUME changes' = changes PROVE Of(u, k) \subseteq Of(u, k)'
    BY <1>2 DEF Of
  <1> QED
    BY <1>1, <1>2 DEF Next, Check, Record, Block, Die, Prune, Tick, vars

\* Whoever has made all the changes that are allowed has made them for good.
LEMMA ExhaustedStays ==
    ASSUME TypeOK, TypeOK', Flight, [Next]_vars, NEW u, NEW k \in Kinds,
           Exhausted(u, k)
    PROVE  Exhausted(u, k)'
  <1>1. Of(u, k) \subseteq Of(u, k)'
    BY OfGrows
  <1>2. IsFiniteSet(Of(u, k)') /\ IsFiniteSet(Of(u, k))
    <2>1. Of(u, k)' \subseteq 1..started'
      BY DEF Of, TypeOK
    <2>2. IsFiniteSet(1..started')
      BY UpTo DEF TypeOK
    <2> QED
      BY <2>1, <2>2, FS_Subset, OfFinite
  <1>3. /\ Cardinality(Of(u, k)) <= Cardinality(Of(u, k)')
        /\ Cardinality(Of(u, k)) \in Nat /\ Cardinality(Of(u, k)') \in Nat
    BY <1>1, <1>2, FS_Subset, FS_CardinalityType
  <1> QED
    BY <1>3, LimitsAssumption DEF Exhausted

\* What was changed stays in the past.
LEMMA PastStep == TypeOK /\ Past /\ [Next]_vars => Past'
  <1> SUFFICES ASSUME TypeOK, Past, [Next]_vars PROVE Past'
    OBVIOUS
  <1>1. ASSUME NEW w \in Workers, Save(w) PROVE Past'
    <2> DEFINE n == request[w].number
    <2>1. /\ DOMAIN changes' = DOMAIN changes \cup {n}
          /\ changes'[n] =
                [user |-> request[w].user, kind |-> request[w].kind, at |-> day]
          /\ \A j \in DOMAIN changes \ {n} : changes'[j] = changes[j]
          /\ day' = day
      BY <1>1, Saved
    <2>2. changes'[n].at = day
      BY <2>1
    <2> HIDE DEF n
    <2> QED
      BY <2>1, <2>2 DEF Past, TypeOK
  <1>2. CASE Tick
    BY <1>2 DEF Tick, Past, TypeOK, Change
  <1>3. ASSUME UNCHANGED <<changes, day>> PROVE Past'
    BY <1>3 DEF Past
  <1> QED
    BY <1>1, <1>2, <1>3 DEF Next, Check, Record, Block, Die, Prune, vars

\* What a step of a worker that ends its request leaves in flight.
LEMMA Finished ==
    ASSUME TypeOK, NEW w \in Workers, Finish(w)
    PROVE  /\ request'[w] = Idle
           /\ \A x \in Workers \ {w} : request'[x] = request[x]
  BY DEF Finish, Goto, TypeOK

\* A row that a request leaves, and the rows it leaves alone.
LEMMA Left ==
    ASSUME NEW w \in Workers, NEW b \in BOOLEAN, Leave(w, b)
    PROVE  /\ DOMAIN trail' = DOMAIN trail \cup {request[w].number}
           /\ trail'[request[w].number].user = request[w].user
           /\ trail'[request[w].number].kind = request[w].kind
           /\ trail'[request[w].number].at = day
           /\ trail'[request[w].number].blocked = b
           /\ \A j \in DOMAIN trail \ {request[w].number} : trail'[j] = trail[j]
  <1> DEFINE e == [user |-> request[w].user, kind |-> request[w].kind,
                   at |-> day, blocked |-> b]
             n == request[w].number
  <1>1. trail' = With(trail, n, e)
    BY DEF Leave
  <1>2. /\ e.user = request[w].user /\ e.kind = request[w].kind
        /\ e.at = day /\ e.blocked = b
    OBVIOUS
  <1> HIDE DEF e, n
  <1>3. /\ DOMAIN trail' = DOMAIN trail \cup {n}
        /\ trail'[n] = e
        /\ \A j \in DOMAIN trail \ {n} : trail'[j] = trail[j]
    BY <1>1 DEF With
  <1> QED
    BY <1>2, <1>3 DEF n

-----------------------------------------------------------------------------
\* Where a recent change can be.
InTrail(i) ==
    /\ i \in DOMAIN trail
    /\ trail[i].user = changes[i].user
    /\ trail[i].kind = changes[i].kind
    /\ trail[i].at >= changes[i].at

Recording(i) == \E w \in Workers : At(w, "record") /\ request[w].number = i

LEMMA TrailForms ==
    TrailComplete <=>
        \A i \in DOMAIN changes :
            Recent(i) => InTrail(i) \/ Recording(i) \/ i \in died
  BY DEF TrailComplete, InTrail, Recording

\* No step loses a recent change from the trail.
LEMMA TrailStep ==
    TypeOK /\ TypeOK' /\ Flight /\ Distinct /\ Past /\ TrailComplete
        /\ [Next]_vars => TrailComplete'
  <1> SUFFICES ASSUME TypeOK, TypeOK', Flight, Distinct, Past, TrailComplete,
                      [Next]_vars
               PROVE  TrailComplete'
    OBVIOUS
  <1> SUFFICES ASSUME NEW i \in DOMAIN changes', Recent(i)'
               PROVE  InTrail(i)' \/ Recording(i)' \/ i \in died'
    BY DEF TrailComplete, InTrail, Recording
  <1>1. ASSUME NEW w \in Workers, NEW u \in Users, NEW k \in Kinds, Check(w, u, k)
        PROVE  InTrail(i)' \/ Recording(i)' \/ i \in died'
    <2>1. /\ UNCHANGED <<day, trail, changes, died>>
          /\ At(w, "idle")
          /\ \A x \in Workers \ {w} : request'[x] = request[x]
      BY <1>1 DEF Check, Goto, TypeOK
    <2>2. InTrail(i) \/ Recording(i) \/ i \in died
      BY <2>1, TrailForms DEF Recent
    <2> QED
      BY <2>1, <2>2 DEF InTrail, Recording, At
  <1>2. ASSUME NEW w \in Workers, Save(w)
        PROVE  InTrail(i)' \/ Recording(i)' \/ i \in died'
    <2> DEFINE n == request[w].number
    <2>1. /\ At(w, "save")
          /\ request'[w] = [pc |-> "record", number |-> n,
                            user |-> request[w].user, kind |-> request[w].kind]
          /\ \A x \in Workers \ {w} : request'[x] = request[x]
          /\ DOMAIN changes' = DOMAIN changes \cup {n}
          /\ \A j \in DOMAIN changes \ {n} : changes'[j] = changes[j]
          /\ UNCHANGED <<day, trail, died>>
      BY <1>2, Saved DEF Save
    <2>2. CASE i = n
      <3>1. request'[w].pc = "record" /\ request'[w].number = n
        BY <2>1
      <3> QED
        BY <2>2, <3>1 DEF Recording, At
    <2>3. CASE i # n
      <3>1. i \in DOMAIN changes /\ changes'[i] = changes[i]
        BY <2>1, <2>3
      <3>2. InTrail(i) \/ Recording(i) \/ i \in died
        BY <2>1, <3>1, TrailForms DEF Recent
      <3> QED
        BY <2>1, <3>1, <3>2 DEF InTrail, Recording, At
    <2> QED
      BY <2>2, <2>3
  <1>3. ASSUME NEW w \in Workers, NEW b \in BOOLEAN, Busy(w), Leave(w, b), Finish(w),
               b <=> At(w, "block"), b \/ At(w, "record"),
               UNCHANGED <<day, started, changes, died>>
        PROVE  InTrail(i)' \/ Recording(i)' \/ i \in died'
    <2> DEFINE n == request[w].number
    <2>1. /\ DOMAIN trail' = DOMAIN trail \cup {n}
          /\ trail'[n].user = request[w].user
          /\ trail'[n].kind = request[w].kind
          /\ trail'[n].at = day
          /\ \A j \in DOMAIN trail \ {n} : trail'[j] = trail[j]
      BY <1>3, Left
    <2>2. \A x \in Workers \ {w} : request'[x] = request[x]
      BY <1>3, Finished
    <2>3. CASE i = n
      <3>1. n \in DOMAIN changes
        BY <1>3, <2>3
      <3>2. At(w, "record")
        BY <1>3, <3>1 DEF Flight, At
      <3>3. /\ changes[n].user = request[w].user
            /\ changes[n].kind = request[w].kind
        BY <3>2 DEF Flight
      <3>4. day >= changes[n].at
        BY <3>1 DEF Past, TypeOK, Change
      <3> QED
        BY <1>3, <2>1, <2>3, <3>3, <3>4 DEF InTrail
    <2>4. CASE i # n
      <3>1. InTrail(i) \/ Recording(i) \/ i \in died
        BY <1>3, TrailForms DEF Recent
      <3> HIDE DEF n
      <3>2. CASE InTrail(i)
        BY <1>3, <2>1, <2>4, <3>2 DEF InTrail
      <3>3. CASE Recording(i)
        BY <2>2, <2>4, <3>3 DEF Recording, At, n
      <3> QED
        BY <1>3, <3>1, <3>2, <3>3
    <2> QED
      BY <2>3, <2>4
  <1>4. ASSUME NEW w \in Workers, Die(w)
        PROVE  InTrail(i)' \/ Recording(i)' \/ i \in died'
    <2>1. /\ UNCHANGED <<day, trail, changes>>
          /\ died' = died \cup {request[w].number}
          /\ \A x \in Workers \ {w} : request'[x] = request[x]
      BY <1>4, Finished DEF Die
    <2>2. InTrail(i) \/ Recording(i) \/ i \in died
      BY <2>1, TrailForms DEF Recent
    <2> QED
      BY <2>1, <2>2 DEF InTrail, Recording, At
  <1>5. CASE Prune
    <2>1. /\ UNCHANGED <<day, request, changes, died>>
          /\ DOMAIN trail' = {j \in DOMAIN trail : ~Prunable(j)}
          /\ \A j \in DOMAIN trail' : trail'[j] = trail[j]
      BY <1>5 DEF Prune
    <2>2. InTrail(i) \/ Recording(i) \/ i \in died
      BY <2>1, TrailForms DEF Recent
    <2>3. CASE InTrail(i)
      <3>1. /\ changes[i].at > day - Retention
            /\ trail[i].at \in Int /\ changes[i].at \in Int
            /\ day \in Int
        BY <2>1, <2>3 DEF Recent, InTrail, TypeOK, Row, Change
      <3>2. ~Prunable(i)
        BY <2>3, <3>1, LimitsAssumption DEF Prunable, InTrail
      <3> QED
        BY <2>1, <2>3, <3>2 DEF InTrail
    <2> QED
      BY <2>1, <2>2, <2>3 DEF Recording, At
  <1>6. CASE Tick
    <2>1. Recent(i)
      BY <1>6, LimitsAssumption DEF Tick, Recent, TypeOK, Change
    <2>2. InTrail(i) \/ Recording(i) \/ i \in died
      BY <1>6, <2>1, TrailForms DEF Tick
    <2> QED
      BY <1>6, <2>2 DEF Tick, InTrail, Recording, At
  <1>7. CASE UNCHANGED vars
    <2>1. InTrail(i) \/ Recording(i) \/ i \in died
      BY <1>7, TrailForms DEF vars, Recent
    <2> QED
      BY <1>7, <2>1 DEF vars, InTrail, Recording, At
  <1> QED
    BY <1>1, <1>2, <1>3, <1>4, <1>5, <1>6, <1>7
    DEF Next, Record, Block, Busy, At

-----------------------------------------------------------------------------
\* What a row says of its change stays true.
LEMMA RowsStep ==
    TypeOK /\ TypeOK' /\ Flight /\ RowsAreChanges /\ [Next]_vars => RowsAreChanges'
  <1> SUFFICES ASSUME TypeOK, TypeOK', Flight, RowsAreChanges, [Next]_vars,
                      NEW i \in DOMAIN trail', NEW u \in Users, NEW k \in Kinds,
                      ~trail'[i].blocked, trail'[i].user = u, trail'[i].kind = k
               PROVE  i \in Of(u, k)'
    BY DEF RowsAreChanges
  <1>1. ASSUME i \in DOMAIN trail, trail'[i] = trail[i]
        PROVE  i \in Of(u, k)'
    <2>1. i \in Of(u, k)
      BY <1>1 DEF RowsAreChanges
    <2> QED
      BY <2>1, OfGrows
  <1>2. ASSUME NEW w \in Workers, NEW b \in BOOLEAN, Busy(w), Leave(w, b),
               b \/ At(w, "record"), UNCHANGED changes
        PROVE  i \in Of(u, k)'
    <2> DEFINE n == request[w].number
    <2>1. /\ DOMAIN trail' = DOMAIN trail \cup {n}
          /\ trail'[n].user = request[w].user
          /\ trail'[n].kind = request[w].kind
          /\ trail'[n].blocked = b
          /\ \A j \in DOMAIN trail \ {n} : trail'[j] = trail[j]
      BY <1>2, Left
    <2>2. CASE i # n
      BY <1>1, <2>1, <2>2
    <2>3. CASE i = n
      <3>1. At(w, "record")
        BY <1>2, <2>1, <2>3
      <3>2. /\ n \in DOMAIN changes
            /\ changes[n].user = request[w].user
            /\ changes[n].kind = request[w].kind
        BY <3>1 DEF Flight
      <3> QED
        BY <1>2, <2>1, <2>3, <3>2 DEF Of
    <2> QED
      BY <2>2, <2>3
  <1>3. ASSUME Prune \/ UNCHANGED trail
        PROVE  i \in DOMAIN trail /\ trail'[i] = trail[i]
    BY <1>3 DEF Prune
  <1> QED
    BY <1>1, <1>2, <1>3
    DEF Next, Check, Save, Record, Block, Die, Tick, vars, Busy, At

\* Whoever is refused has counted rows of changes, or of an earlier refusal.
LEMMA RefusalDeserved ==
    ASSUME TypeOK, RowsAreChanges, Refused,
           NEW u \in Users, NEW k \in Kinds, ~Allowed(u, k)
    PROVE  Exhausted(u, k)
  <1>1. CASE \E i \in Counted(u, k) : trail[i].blocked
    BY <1>1 DEF Refused, Counted
  <1>2. CASE \A i \in Counted(u, k) : ~trail[i].blocked
    <2>1. Counted(u, k) \subseteq Of(u, k)
      BY <1>2 DEF RowsAreChanges, Counted
    <2>2. /\ IsFiniteSet(Of(u, k)) /\ IsFiniteSet(Counted(u, k))
          /\ Cardinality(Counted(u, k)) <= Cardinality(Of(u, k))
          /\ Cardinality(Counted(u, k)) \in Nat /\ Cardinality(Of(u, k)) \in Nat
      BY <2>1, OfFinite, FS_Subset, FS_CardinalityType
    <2> QED
      BY <2>2, LimitsAssumption DEF Allowed, Exhausted
  <1> QED
    BY <1>1, <1>2

\* Whoever was refused had it coming.
LEMMA RefusedStep ==
    TypeOK /\ TypeOK' /\ Flight /\ Refused /\ Refusing /\ [Next]_vars => Refused'
  <1> SUFFICES ASSUME TypeOK, TypeOK', Flight, Refused, Refusing, [Next]_vars,
                      NEW i \in DOMAIN trail', NEW u \in Users, NEW k \in Kinds,
                      trail'[i].blocked, trail'[i].user = u, trail'[i].kind = k
               PROVE  Exhausted(u, k)'
    BY DEF Refused
  <1> SUFFICES Exhausted(u, k)
    BY ExhaustedStays
  <1>1. ASSUME i \in DOMAIN trail, trail'[i] = trail[i]
        PROVE  Exhausted(u, k)
    BY <1>1 DEF Refused
  <1>2. ASSUME NEW w \in Workers, NEW b \in BOOLEAN, Busy(w), Leave(w, b),
               b => At(w, "block")
        PROVE  Exhausted(u, k)
    <2> DEFINE n == request[w].number
    <2>1. /\ DOMAIN trail' = DOMAIN trail \cup {n}
          /\ trail'[n].user = request[w].user
          /\ trail'[n].kind = request[w].kind
          /\ trail'[n].blocked = b
          /\ \A j \in DOMAIN trail \ {n} : trail'[j] = trail[j]
      BY <1>2, Left
    <2>2. CASE i # n
      BY <1>1, <2>1, <2>2
    <2>3. CASE i = n
      BY <1>2, <2>1, <2>3 DEF Refusing
    <2> QED
      BY <2>2, <2>3
  <1>3. ASSUME Prune \/ UNCHANGED trail
        PROVE  i \in DOMAIN trail /\ trail'[i] = trail[i]
    BY <1>3 DEF Prune
  <1> QED
    BY <1>1, <1>2, <1>3
    DEF Next, Check, Save, Record, Block, Die, Tick, vars, Busy, At

\* So has whoever is about to be refused.
LEMMA RefusingStep ==
    TypeOK /\ TypeOK' /\ Flight /\ RowsAreChanges /\ Refused /\ Refusing
        /\ [Next]_vars => Refusing'
  <1> SUFFICES ASSUME TypeOK, TypeOK', Flight, RowsAreChanges, Refused, Refusing,
                      [Next]_vars,
                      NEW w \in Workers, NEW u \in Users, NEW k \in Kinds,
                      At(w, "block")', request'[w].user = u, request'[w].kind = k
               PROVE  Exhausted(u, k)'
    BY DEF Refusing
  <1> SUFFICES Exhausted(u, k)
    BY ExhaustedStays
  <1>1. CASE request'[w] = request[w]
    BY <1>1 DEF Refusing, At
  <1>2. ASSUME NEW v \in Users, NEW l \in Kinds, Check(w, v, l)
        PROVE  Exhausted(u, k)
    <2>1. request'[w] = [pc |-> IF Allowed(v, l) THEN "save" ELSE "block",
                         number |-> NewNumber, user |-> v, kind |-> l]
      BY <1>2 DEF Check, Goto, TypeOK
    <2>2. u = v /\ k = l
      BY <2>1
    <2>3. ~Allowed(v, l)
      BY <2>1 DEF At
    <2> QED
      BY <2>2, <2>3, RefusalDeserved
  <1>3. ASSUME Save(w) PROVE FALSE
    <2>1. request'[w] = [pc |-> "record", number |-> request[w].number,
                         user |-> request[w].user, kind |-> request[w].kind]
      BY <1>3, Saved
    <2> QED
      BY <2>1 DEF At
  <1>4. ASSUME Finish(w) PROVE FALSE
    BY <1>4, Finished DEF At, Idle
  <1>5. ASSUME NEW x \in Workers, x # w,
               \/ \E v \in Users, l \in Kinds : Check(x, v, l)
               \/ Save(x) \/ Finish(x)
        PROVE  request'[w] = request[w]
    BY <1>5 DEF Check, Save, Finish, Goto, TypeOK
  <1> QED
    BY <1>1, <1>2, <1>3, <1>4, <1>5
    DEF Next, Record, Block, Die, Prune, Tick, vars

-----------------------------------------------------------------------------
LEMMA InvStep == IInv /\ [Next]_vars => IInv'
  <1> SUFFICES ASSUME IInv, [Next]_vars PROVE IInv'
    OBVIOUS
  <1>1. TypeOK'
    BY TypeStep DEF IInv
  <1> QED
    BY <1>1, FlightStep, PastStep, TrailStep, RowsStep,
       RefusedStep, RefusingStep
    DEF IInv

LEMMA InvAlways == Spec => []IInv
  BY InitInv, InvStep, PTL DEF Spec

\* Requests, rows and changes keep their types.
THEOREM TypeCorrect == Spec => []TypeOK
  <1>1. IInv => TypeOK
    BY DEF IInv
  <1> QED
    BY <1>1, InvAlways, PTL

\* The trail is complete for as long as its rows are kept.
THEOREM TrailKept == Spec => []TrailComplete
  <1>1. IInv => TrailComplete
    BY DEF IInv
  <1> QED
    BY <1>1, InvAlways, PTL

\* Nobody is refused who did not reach the limit.
THEOREM RefusedRightly == Spec => []BlockedDeserved
  <1>1. IInv => BlockedDeserved
    BY DEF IInv, Refused, Exhausted, BlockedDeserved, TypeOK, Row
  <1> QED
    BY <1>1, InvAlways, PTL

-----------------------------------------------------------------------------
(***************************************************************************)
(* The bound.  The changes that count now and those that are allowed and   *)
(* not yet made grow only when a request is allowed to save; at that moment*)
(* each of them has a row that the request counts, belongs to a request in *)
(* flight, or died.                                                        *)
(***************************************************************************)
Saving(u, k) ==
    {i \in 1..started :
        \E w \in Workers : /\ At(w, "save")
                           /\ request[w].number = i
                           /\ request[w].user = u
                           /\ request[w].kind = k}

Counting(u, k) == {i \in Of(u, k) : Recent(i)}

Active(u, k) == Counting(u, k) \cup Saving(u, k)

Lost(u, k) == died \cap Of(u, k)

Within(u, k) ==
    Cardinality(Active(u, k))
        < Limit[k] + Cardinality(Workers) + Cardinality(Lost(u, k))

Bounded == \A u \in Users, k \in Kinds : Within(u, k)

InFlight == {request[w].number : w \in {x \in Workers : Busy(x)}}

\* The sets the bound speaks of are finite.
LEMMA ActiveFinite ==
    ASSUME TypeOK, NEW u, NEW k
    PROVE  /\ IsFiniteSet(Active(u, k)) /\ IsFiniteSet(Lost(u, k))
           /\ IsFiniteSet(Counting(u, k))
           /\ Cardinality(Active(u, k)) \in Nat /\ Cardinality(Lost(u, k)) \in Nat
           /\ Cardinality(Counting(u, k)) \in Nat
  <1>1. /\ Active(u, k) \subseteq 1..started
        /\ Lost(u, k) \subseteq 1..started
        /\ Counting(u, k) \subseteq 1..started
    BY OfFinite DEF Active, Lost, Counting, Saving
  <1>2. IsFiniteSet(1..started)
    BY UpTo DEF TypeOK
  <1> QED
    BY <1>1, <1>2, FS_Subset, FS_CardinalityType

\* No more numbers are in flight than there are workers.
LEMMA InFlightFew ==
    /\ IsFiniteSet(InFlight)
    /\ Cardinality(InFlight) <= Cardinality(Workers)
    /\ Cardinality(InFlight) \in Nat /\ Cardinality(Workers) \in Nat
  <1> DEFINE B == {x \in Workers : Busy(x)}
             f == [w \in B |-> request[w].number]
  <1>1. /\ IsFiniteSet(B) /\ Cardinality(B) <= Cardinality(Workers)
        /\ Cardinality(B) \in Nat /\ Cardinality(Workers) \in Nat
    BY FS_Subset, FS_CardinalityType, LimitsAssumption
  <1>2. f \in Surjection(B, InFlight)
    BY DEF InFlight, Surjection
  <1>3. IsFiniteSet(InFlight) /\ Cardinality(InFlight) <= Cardinality(B)
    BY <1>1, <1>2, FS_Surjection
  <1> QED
    BY <1>1, <1>3, FS_CardinalityType

\* What three finite sets cover is no more than they are together.
LEMMA Covered ==
    ASSUME NEW A, NEW B, NEW C, NEW X,
           IsFiniteSet(A), IsFiniteSet(B), IsFiniteSet(C),
           X \subseteq (A \cup B) \cup C
    PROVE  Cardinality(X) <= Cardinality(A) + Cardinality(B) + Cardinality(C)
  <1>1. /\ IsFiniteSet(A \cup B)
        /\ Cardinality(A \cup B) <= Cardinality(A) + Cardinality(B)
        /\ Cardinality(A) \in Nat /\ Cardinality(B) \in Nat /\ Cardinality(C) \in Nat
        /\ Cardinality(A \cup B) \in Nat
    <2>1. Cardinality(A) \in Nat /\ Cardinality(B) \in Nat /\ Cardinality(C) \in Nat
      BY FS_CardinalityType
    <2>2. IsFiniteSet(A \cap B)
      BY FS_Subset
    <2>3. Cardinality(A \cap B) \in Nat
      BY <2>2, FS_CardinalityType
    <2>4. /\ IsFiniteSet(A \cup B)
          /\ Cardinality(A \cup B)
                = Cardinality(A) + Cardinality(B) - Cardinality(A \cap B)
      BY FS_Union
    <2>5. Cardinality(A \cup B) \in Nat
      BY <2>4, FS_CardinalityType
    <2> QED
      BY <2>1, <2>3, <2>4, <2>5
  <1>2. /\ IsFiniteSet((A \cup B) \cup C)
        /\ Cardinality((A \cup B) \cup C) <= Cardinality(A \cup B) + Cardinality(C)
    <2> DEFINE D == A \cup B
    <2> HIDE DEF D
    <2>1. IsFiniteSet(D) /\ Cardinality(D) \in Nat
      BY <1>1 DEF D
    <2>2. IsFiniteSet(D \cap C)
      BY <2>1, FS_Subset
    <2>3. Cardinality(D \cap C) \in Nat
      BY <2>2, FS_CardinalityType
    <2>4. /\ IsFiniteSet(D \cup C)
          /\ Cardinality(D \cup C)
                = Cardinality(D) + Cardinality(C) - Cardinality(D \cap C)
      BY <2>1, FS_Union
    <2>5. Cardinality(D \cup C) \in Nat
      BY <2>4, FS_CardinalityType
    <2>6. Cardinality(D \cup C) <= Cardinality(D) + Cardinality(C)
      BY <1>1, <2>1, <2>3, <2>4, <2>5
    <2> QED
      BY <2>4, <2>6 DEF D
  <1>3. /\ Cardinality(X) <= Cardinality((A \cup B) \cup C)
        /\ Cardinality(X) \in Nat /\ Cardinality((A \cup B) \cup C) \in Nat
    BY <1>2, FS_Subset, FS_CardinalityType
  <1> QED
    BY <1>1, <1>2, <1>3

\* A step that lets nothing new count keeps the bound.
LEMMA KeptWithin ==
    ASSUME TypeOK, TypeOK', NEW u \in Users, NEW k \in Kinds, Within(u, k),
           Active(u, k)' \subseteq Active(u, k), Lost(u, k) \subseteq Lost(u, k)'
    PROVE  Within(u, k)'
  <1>1. /\ IsFiniteSet(Active(u, k)) /\ Cardinality(Active(u, k)) \in Nat
        /\ Cardinality(Lost(u, k)) \in Nat
    BY ActiveFinite
  <1>2. /\ IsFiniteSet(Lost(u, k)')
        /\ Cardinality(Lost(u, k)') \in Nat
    <2>1. Lost(u, k)' \subseteq 1..started'
      BY DEF Lost, TypeOK
    <2>2. IsFiniteSet(1..started')
      BY UpTo DEF TypeOK
    <2> QED
      BY <2>1, <2>2, FS_Subset, FS_CardinalityType
  <1>3. /\ Cardinality(Active(u, k)') <= Cardinality(Active(u, k))
        /\ Cardinality(Active(u, k)') \in Nat
    BY <1>1, FS_Subset, FS_CardinalityType
  <1>4. Cardinality(Lost(u, k)) <= Cardinality(Lost(u, k)')
    BY <1>2, FS_Subset
  <1>5. Cardinality(Workers) \in Nat /\ Limit[k] \in Nat
    BY InFlightFew, LimitsAssumption
  <1> QED
    BY <1>1, <1>2, <1>3, <1>4, <1>5 DEF Within

\* When a request is allowed to save, the bound has room for it.
LEMMA RoomFor ==
    ASSUME IInv, NEW w \in Workers, NEW u \in Users, NEW k \in Kinds,
           TypeOK', Check(w, u, k), Allowed(u, k)
    PROVE  Within(u, k)'
  <1>1. /\ request'[w] = [pc |-> "save", number |-> NewNumber, user |-> u, kind |-> k]
        /\ \A x \in Workers \ {w} : request'[x] = request[x]
        /\ At(w, "idle")
        /\ UNCHANGED <<day, trail, changes, died>>
    BY DEF IInv, Check, Goto, TypeOK
  <1>2. Counting(u, k)' = Counting(u, k) /\ Lost(u, k)' = Lost(u, k)
    BY <1>1 DEF Counting, Lost, Of, Recent
  <1>3. Counting(u, k) \subseteq (Counted(u, k) \cup InFlight') \cup Lost(u, k)
    <2> SUFFICES ASSUME NEW i \in Counting(u, k)
                 PROVE  i \in Counted(u, k) \/ i \in InFlight' \/ i \in Lost(u, k)
      OBVIOUS
    <2>1. /\ i \in DOMAIN changes /\ Recent(i)
          /\ changes[i].user = u /\ changes[i].kind = k
      BY DEF Counting, Of
    <2>2. CASE InTrail(i)
      <3>1. trail[i].at \in Int /\ changes[i].at \in Int /\ day \in Int
        BY <2>1, <2>2 DEF IInv, TypeOK, Row, Change, InTrail
      <3>2. trail[i].at >= day - Year
        BY <2>1, <2>2, <3>1, LimitsAssumption DEF Recent, InTrail
      <3> QED
        BY <2>1, <2>2, <3>2 DEF InTrail, Counted
    <2>3. CASE Recording(i)
      BY <1>1, <2>3 DEF Recording, InFlight, Busy, At
    <2>4. CASE i \in died
      BY <2>4 DEF Lost, Counting
    <2> QED
      BY <2>1, <2>2, <2>3, <2>4, TrailForms DEF IInv
  <1>4. Saving(u, k)' \subseteq InFlight'
    BY DEF Saving, InFlight, Busy, At
  <1>5. Active(u, k)' \subseteq (Counted(u, k) \cup InFlight') \cup Lost(u, k)
    BY <1>2, <1>3, <1>4 DEF Active
  <1>6. /\ IsFiniteSet(InFlight') /\ Cardinality(InFlight') \in Nat
        /\ Cardinality(InFlight') <= Cardinality(Workers)
        /\ Cardinality(Workers) \in Nat
    <2>1. (/\ IsFiniteSet(InFlight)
           /\ Cardinality(InFlight) <= Cardinality(Workers)
           /\ Cardinality(InFlight) \in Nat /\ Cardinality(Workers) \in Nat)'
      BY InFlightFew, PTL
    <2> QED
      BY <2>1
  <1>7. /\ IsFiniteSet(Counted(u, k)) /\ Cardinality(Counted(u, k)) \in Nat
        /\ IsFiniteSet(Lost(u, k)) /\ Cardinality(Lost(u, k)) \in Nat
    BY CountedFinite, ActiveFinite, FS_CardinalityType DEF IInv
  <1>8. Cardinality(Active(u, k)')
           <= Cardinality(Counted(u, k)) + Cardinality(InFlight') + Cardinality(Lost(u, k))
    BY <1>5, <1>6, <1>7, Covered
  <1>9. Cardinality(Active(u, k)') \in Nat
    <2>1. /\ Active(u, k)' \subseteq 1..started'
      BY DEF Active, Counting, Saving, Of, TypeOK
    <2>2. IsFiniteSet(1..started')
      BY UpTo DEF TypeOK
    <2> QED
      BY <2>1, <2>2, FS_Subset, FS_CardinalityType
  <1> QED
    BY <1>2, <1>6, <1>7, <1>8, <1>9, LimitsAssumption DEF Within, Allowed

\* Every step keeps the bound.
LEMMA BoundStep == IInv /\ IInv' /\ Bounded /\ [Next]_vars => Bounded'
  <1> SUFFICES ASSUME IInv, IInv', Bounded, [Next]_vars,
                      NEW u \in Users, NEW k \in Kinds
               PROVE  Within(u, k)'
    BY DEF Bounded
  <1> USE DEF IInv
  <1>1. Within(u, k)
    BY DEF Bounded
  <1>2. Lost(u, k) \subseteq Lost(u, k)'
    <2>1. died \subseteq died'
      BY DEF Next, Check, Save, Record, Block, Die, Prune, Tick, vars
    <2> QED
      BY <2>1, OfGrows DEF Lost
  <1>3. ASSUME NEW w \in Workers, NEW v \in Users, NEW l \in Kinds, Check(w, v, l)
        PROVE  Within(u, k)'
    <2>1. /\ request'[w] = [pc |-> IF Allowed(v, l) THEN "save" ELSE "block",
                            number |-> NewNumber, user |-> v, kind |-> l]
          /\ \A x \in Workers \ {w} : request'[x] = request[x]
          /\ UNCHANGED <<day, trail, changes, died>>
      BY <1>3 DEF Check, Goto, TypeOK
    <2>2. CASE u = v /\ k = l /\ Allowed(v, l)
      BY <1>3, <2>2, RoomFor
    <2>3. CASE ~(u = v /\ k = l /\ Allowed(v, l))
      <3>1. Counting(u, k)' = Counting(u, k)
        BY <2>1 DEF Counting, Of, Recent
      <3>2. Saving(u, k)' \subseteq Saving(u, k)
        <4> SUFFICES ASSUME NEW x \in Workers, At(x, "save")',
                            request'[x].user = u, request'[x].kind = k
                     PROVE  request'[x].number \in Saving(u, k)
          BY DEF Saving
        <4>1. x # w
          <5>1. /\ request'[w].user = v /\ request'[w].kind = l
                /\ request'[w].pc = "save" => Allowed(v, l)
            BY <2>1
          <5> QED
            BY <2>3, <5>1 DEF At
        <4>2. request'[x] = request[x]
          BY <2>1, <4>1
        <4> QED
          BY <4>2 DEF Saving, Flight, At, Busy
      <3> QED
        BY <1>1, <1>2, <3>1, <3>2, KeptWithin DEF Active
    <2> QED
      BY <2>2, <2>3
  <1>4. ASSUME NEW w \in Workers, Save(w) PROVE Within(u, k)'
    <2> DEFINE n == request[w].number
    <2>1. /\ At(w, "save") /\ Busy(w)
          /\ request'[w] = [pc |-> "record", number |-> n,
                            user |-> request[w].user, kind |-> request[w].kind]
          /\ \A x \in Workers \ {w} : request'[x] = request[x]
          /\ DOMAIN changes' = DOMAIN changes \cup {n}
          /\ \A j \in DOMAIN changes \ {n} : changes'[j] = changes[j]
          /\ UNCHANGED <<day, started>>
      BY <1>4, Saved DEF Save
    <2>2. /\ Of(u, k)' \subseteq Of(u, k) \cup {n}
          /\ n \in Of(u, k)' => u = request[w].user /\ k = request[w].kind
      BY <1>4, SavedOf
    <2>3. n \in 1..started
      BY <2>1 DEF Flight
    <2>4. Counting(u, k)' \subseteq Active(u, k)
      <3> SUFFICES ASSUME NEW i \in Counting(u, k)'
                   PROVE  i \in Active(u, k)
        OBVIOUS
      <3>1. CASE i = n
        BY <2>1, <2>2, <2>3, <3>1 DEF Active, Saving, Counting
      <3>2. CASE i # n
        <4>1. i \in Of(u, k) /\ changes'[i] = changes[i]
          BY <2>1, <2>2, <3>2 DEF Counting, Of
        <4> QED
          BY <2>1, <4>1 DEF Active, Counting, Recent
      <3> QED
        BY <3>1, <3>2
    <2>5. Saving(u, k)' \subseteq Saving(u, k)
      <3> SUFFICES ASSUME NEW x \in Workers, At(x, "save")',
                          request'[x].user = u, request'[x].kind = k
                   PROVE  request'[x].number \in Saving(u, k)
        BY DEF Saving
      <3>1. x # w
        BY <2>1 DEF At
      <3>2. request'[x] = request[x]
        BY <2>1, <3>1
      <3> QED
        BY <3>2 DEF Saving, Flight, At, Busy
    <2> QED
      BY <1>1, <1>2, <2>4, <2>5, KeptWithin DEF Active
  <1>5. ASSUME NEW w \in Workers, Finish(w), UNCHANGED <<day, started, changes>>
        PROVE  Within(u, k)'
    <2>1. Counting(u, k)' = Counting(u, k)
      BY <1>5 DEF Counting, Of, Recent
    <2>2. Saving(u, k)' \subseteq Saving(u, k)
      BY <1>5, Finished DEF Saving, At, Idle
    <2> QED
      BY <1>1, <1>2, <2>1, <2>2, KeptWithin DEF Active
  <1>6. CASE Prune \/ UNCHANGED vars
    <2>1. UNCHANGED <<day, changes, request, started>>
      BY <1>6 DEF Prune, vars
    <2>2. Active(u, k)' = Active(u, k)
      BY <2>1 DEF Active, Counting, Saving, Of, Recent, At
    <2> QED
      BY <1>1, <1>2, <2>2, KeptWithin
  <1>7. CASE Tick
    <2>1. Counting(u, k)' \subseteq Counting(u, k)
      BY <1>7, LimitsAssumption DEF Tick, Counting, Of, Recent, TypeOK, Change
    <2>2. Saving(u, k)' = Saving(u, k)
      BY <1>7 DEF Tick, Saving, At
    <2> QED
      BY <1>1, <1>2, <2>1, <2>2, KeptWithin DEF Active
  <1> QED
    BY <1>3, <1>4, <1>5, <1>6, <1>7 DEF Next, Record, Block, Die

\* A history without changes is within every bound.
LEMMA InitBound == Init => Bounded
  <1> SUFFICES ASSUME Init, NEW u \in Users, NEW k \in Kinds PROVE Within(u, k)
    BY DEF Bounded
  <1>1. Active(u, k) = {} /\ Lost(u, k) = {}
    BY DEF Init, Active, Counting, Saving, Lost, Of, At, Idle
  <1>2. Cardinality(Workers) \in Nat \ {0}
    BY InFlightFew, FS_EmptySet, LimitsAssumption
  <1>3. Limit[k] \in Nat
    BY LimitsAssumption
  <1> QED
    BY <1>1, <1>2, <1>3, FS_EmptySet DEF Within

\* The bound on recent changes, for any number of workers.
THEOREM ChangesLimited == Spec => []ChangesBounded
  <1>1. ASSUME IInv, Bounded PROVE ChangesBounded
    <2> SUFFICES ASSUME NEW u \in Users, NEW k \in Kinds
                 PROVE  Cardinality(Counting(u, k))
                           < Limit[k] + Cardinality(Workers)
                                + Cardinality(Lost(u, k))
      BY DEF ChangesBounded, Counting, Lost
    <2>1. Within(u, k)
      BY <1>1 DEF Bounded
    <2>2. Counting(u, k) \subseteq Active(u, k)
      BY DEF Active
    <2>3. /\ IsFiniteSet(Active(u, k))
          /\ Cardinality(Active(u, k)) \in Nat /\ Cardinality(Lost(u, k)) \in Nat
          /\ Cardinality(Counting(u, k)) \in Nat
      BY <1>1, ActiveFinite DEF IInv
    <2>4. Cardinality(Counting(u, k)) <= Cardinality(Active(u, k))
      BY <2>2, <2>3, FS_Subset
    <2>5. Cardinality(Workers) \in Nat /\ Limit[k] \in Nat
      BY InFlightFew, LimitsAssumption
    <2> QED
      BY <2>1, <2>3, <2>4, <2>5 DEF Within
  <1> QED
    BY <1>1, InitBound, BoundStep, InvAlways, PTL DEF Spec

=============================================================================
