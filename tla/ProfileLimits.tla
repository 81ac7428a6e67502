---------------------------- MODULE ProfileLimits ----------------------------
(***************************************************************************)
(* How often a profile may change.  updateBasicInfo, updateAddress and     *)
(* updateCensusData (for the religion) each count the rows that earlier    *)
(* updates left in profile_updates, and leave a row of their own, one that *)
(* says "blocked" when the count had reached the limit.  Nothing locks the *)
(* rows and no transaction joins the change to its row, so requests        *)
(* overtake each other and may die in between; and a daily command prunes  *)
(* the rows the count depends on.                                          *)
(*                                                                         *)
(* Census updates that leave the religion alone are not limited; they and  *)
(* the second row that every census update leaves are counted by nobody    *)
(* and are not modelled.  What a change of the basic data does to          *)
(* verifications is part of Verification.                                  *)
(***************************************************************************)
EXTENDS Integers, FiniteSets

CONSTANTS
    Users,
    Workers,        \* PHP workers, one request each at a time
    Limit,          \* the updates allowed of each kind
    Year,           \* what the windowed counts look back on
    Retention,      \* the days after which a row may be pruned
    MaxRequests,    \* bound on the requests of a run
    MaxDeaths,      \* bound on the requests of a run that die
    LastDay         \* bound on the days of a run

Kinds == {"basic", "address", "religion"}
Windowed == {"address", "religion"}     \* the basic data are limited for life

ASSUME LimitsAssumption ==
    /\ IsFiniteSet(Workers)
    /\ Workers # {}
    /\ Limit \in [Kinds -> Nat]
    /\ Year \in Nat
    /\ Retention \in Nat
    /\ Retention <= Year
    /\ MaxRequests \in Nat
    /\ MaxDeaths \in Nat
    /\ LastDay \in Nat

VARIABLES
    day,        \* now, in days
    trail,      \* profile_updates: the row of each request that has one
    request,    \* what each worker is executing
    started,    \* how many requests there were; each has its number
    changes,    \* history: the change each request made to its user
    died        \* the requests that ended before leaving their row

vars == <<day, trail, request, started, changes, died>>

-----------------------------------------------------------------------------
Numbers == 1..MaxRequests
Row == [user : Users, kind : Kinds, at : 0..LastDay, blocked : BOOLEAN]
Change == [user : Users, kind : Kinds, at : 0..LastDay]

Idle == [pc |-> "idle"]
Request ==
    {Idle} \cup [pc : {"save", "record", "block"}, number : Numbers,
                 user : Users, kind : Kinds]

TypeOK ==
    /\ day \in 0..LastDay
    /\ started \in 0..MaxRequests
    /\ DOMAIN trail \subseteq 1..started
    /\ trail \in [DOMAIN trail -> Row]
    /\ DOMAIN changes \subseteq 1..started
    /\ changes \in [DOMAIN changes -> Change]
    /\ request \in [Workers -> Request]
    /\ died \subseteq 1..started

Init ==
    /\ day = 0
    /\ trail = <<>>
    /\ request = [w \in Workers |-> Idle]
    /\ started = 0
    /\ changes = <<>>
    /\ died = {}

At(w, pc) == request[w].pc = pc
Goto(w, r) == request' = [request EXCEPT ![w] = r]
Finish(w) == Goto(w, Idle)

\* f with one more pair.
With(f, i, e) == [j \in DOMAIN f \cup {i} |-> IF j = i THEN e ELSE f[j]]

-----------------------------------------------------------------------------
(***************************************************************************)
(* A request.  The counts do not tell blocked attempts from changes.       *)
(***************************************************************************)
Counted_AnyKind(u, k) ==
    {i \in DOMAIN trail :
        trail[i].user = u /\ (k \in Windowed => trail[i].at >= day - Year)}
Counted(u, k) ==
    {i \in DOMAIN trail :
        /\ trail[i].user = u
        /\ trail[i].kind = k
        /\ k \in Windowed => trail[i].at >= day - Year}

Allowed_OneMore(u, k) == Cardinality(Counted(u, k)) <= Limit[k]
Allowed(u, k) == Cardinality(Counted(u, k)) < Limit[k]

NewNumber == started + 1

Check(w, u, k) ==
    /\ At(w, "idle")
    /\ started < MaxRequests
    /\ started' = started + 1
    /\ Goto(w, [pc |-> IF Allowed(u, k) THEN "save" ELSE "block",
                number |-> NewNumber, user |-> u, kind |-> k])
    /\ UNCHANGED <<day, trail, changes, died>>

\* $user->update($data)
Save(w) ==
    /\ At(w, "save")
    /\ changes' = With(changes, request[w].number,
                       [user |-> request[w].user, kind |-> request[w].kind,
                        at |-> day])
    /\ Goto(w, [request[w] EXCEPT !.pc = "record"])
    /\ UNCHANGED <<day, trail, started, died>>

Leave(w, blocked) ==
    trail' = With(trail, request[w].number,
                  [user |-> request[w].user, kind |-> request[w].kind,
                   at |-> day, blocked |-> blocked])

\* createAuditRecord
Record(w) ==
    /\ At(w, "record")
    /\ Leave(w, FALSE)
    /\ Finish(w)
    /\ UNCHANGED <<day, started, changes, died>>

\* logBlockedAttempt
Block(w) ==
    /\ At(w, "block")
    /\ Leave(w, TRUE)
    /\ Finish(w)
    /\ UNCHANGED <<day, started, changes, died>>

\* A worker is killed, or the database refuses a statement.
Die(w) ==
    /\ ~At(w, "idle")
    /\ Cardinality(died) < MaxDeaths
    /\ died' = died \cup {request[w].number}
    /\ Finish(w)
    /\ UNCHANGED <<day, trail, started, changes>>

-----------------------------------------------------------------------------
(***************************************************************************)
(* model:prune, once a day; a day may pass without it                      *)
(***************************************************************************)
Prunable_Newest(i) == trail[i].at <= day
Prunable(i) == trail[i].at <= day - Retention

Prune ==
    /\ trail' = [i \in {j \in DOMAIN trail : ~Prunable(j)} |-> trail[i]]
    /\ UNCHANGED <<day, request, started, changes, died>>

Tick ==
    /\ day < LastDay
    /\ day' = day + 1
    /\ UNCHANGED <<trail, request, started, changes, died>>

Next ==
    \/ \E w \in Workers :
          \/ \E u \in Users, k \in Kinds : Check(w, u, k)
          \/ Save(w) \/ Record(w) \/ Block(w) \/ Die(w)
    \/ Prune
    \/ Tick

Spec == Init /\ [][Next]_vars

-----------------------------------------------------------------------------
(***************************************************************************)
(* What should hold                                                        *)
(***************************************************************************)
Of(u, k) == {i \in DOMAIN changes : changes[i].user = u /\ changes[i].kind = k}

Recent(i) == changes[i].at > day - Retention

\* A recent change is in the trail with its user and kind, unless its request
\* is about to leave the row or died before it could: pruning takes no row that
\* a count for the last Retention days depends on, whenever it runs.
TrailComplete ==
    \A i \in DOMAIN changes :
        Recent(i) =>
            \/ /\ i \in DOMAIN trail
               /\ trail[i].user = changes[i].user
               /\ trail[i].kind = changes[i].kind
               /\ trail[i].at >= changes[i].at
            \/ \E w \in Workers : At(w, "record") /\ request[w].number = i
            \/ i \in died

\* Within the days for which rows are kept, a user makes no more changes of a
\* kind than the limit, but for those that concurrent requests check before
\* any of them leaves its row and those whose row was never left.
ChangesBounded ==
    \A u \in Users, k \in Kinds :
        Cardinality({i \in Of(u, k) : Recent(i)})
            < Limit[k] + Cardinality(Workers) + Cardinality(died \cap Of(u, k))

\* Nobody is told that a limit is reached who never reached it: whoever has a
\* blocked attempt has made as many changes of that kind as are allowed.
BlockedDeserved ==
    \A i \in DOMAIN trail :
        trail[i].blocked =>
            Cardinality(Of(trail[i].user, trail[i].kind)) >= Limit[trail[i].kind]

-----------------------------------------------------------------------------
(***************************************************************************)
(* What a document says, and the code does not ensure                      *)
(***************************************************************************)

\* "max 2 updates per 365 days" of the address, and as many of the religion
\* (docs/audit-detection-plan.md, config/e-syrians.php).
YearlyLimit ==
    \A u \in Users, k \in Windowed :
        Cardinality({i \in Of(u, k) : changes[i].at >= day - Year}) <= Limit[k]

=============================================================================
