---------------------------- MODULE Verification ----------------------------
(***************************************************************************)
(* Peer-to-peer identity verification: the requests that give, cancel and  *)
(* invalidate verifications, as the PHP workers execute them.              *)
(*                                                                         *)
(* A request is a sequence of SQL statements outside any transaction, so   *)
(* each action below is one statement that other workers can observe,      *)
(* with the reads that precede it.  What a request read earlier and uses   *)
(* later is kept in its record in "request".                               *)
(*                                                                         *)
(* Of the admin panel it has the user form's verification columns; its     *)
(* form for the rows of user_verifications is left out.                    *)
(***************************************************************************)
EXTENDS Integers, Sequences, FiniteSets

CONSTANTS
    Users,          \* registered accounts
    Registrants,    \* those seeded as first registrants
    Incomplete,     \* those whose profile lacks a field verifyUser requires
    Edited,         \* those an administrator edits in a run
    Workers,        \* PHP workers, one request each at a time
    MinVerifiers,   \* e-syrians.verification.min
    MaxGiven,       \* e-syrians.verification.max
    MinDiff,        \* e-syrians.verification.diff
    MaxRows         \* bound on user_verifications rows in a run

ASSUME UsersAssumption ==
    /\ IsFiniteSet(Workers) /\ Workers # {}
    /\ Registrants \subseteq Users
    /\ Incomplete \subseteq Users
    /\ Edited \subseteq Users
    /\ MinVerifiers \in Nat \ {0}
    /\ MaxGiven \in Nat
    /\ MinDiff \in Int
    /\ MaxRows \in Nat

VARIABLES
    verified,           \* users whose verified_at is set
    firstRegistrants,   \* users whose verification_reason is first_registrant
    banned,             \* users whose marked_as_fake_at is set
    complete,           \* users whose required profile fields are filled
    verifications,      \* the user_verifications table, in id order
    request             \* what each worker is executing

accounts == <<verified, firstRegistrants, banned, complete>>
vars == <<verified, firstRegistrants, banned, complete, verifications, request>>

-----------------------------------------------------------------------------
(***************************************************************************)
(* Queries                                                                 *)
(***************************************************************************)
Row == [verifier : Users, user : Users, cancelled : BOOLEAN]

Active(i) == ~verifications[i].cancelled

Verifiers(u) == {i \in DOMAIN verifications : verifications[i].user = u}

ActiveVerifiers(u) == {i \in Verifiers(u) : Active(i)}

ActiveVerifications(v) ==
    {i \in DOMAIN verifications : verifications[i].verifier = v /\ Active(i)}

Received(u) == Cardinality(ActiveVerifiers(u))
Given(v) == Cardinality(ActiveVerifications(v))

CanVerify_QuotaOffByOne(v) ==
    /\ v \notin banned
    /\ v \in verified
    /\ Given(v) <= MaxGiven
    /\ v \in firstRegistrants \/ Received(v) >= MinVerifiers

CanVerify(v) ==
    /\ v \notin banned
    /\ v \in verified
    /\ Given(v) < MaxGiven
    /\ \/ v \in firstRegistrants
       \/ /\ Received(v) >= MinVerifiers
          /\ Received(v) - Given(v) >= MinDiff

CanUserVerify_CircularActiveOnly(v, t) ==
    /\ CanVerify(v)
    /\ t \notin banned
    /\ v # t
    /\ \A i \in ActiveVerifiers(v) : verifications[i].verifier # t
    /\ \A i \in ActiveVerifications(v) : verifications[i].user # t

CanUserVerify_RepeatAllowed(v, t) ==
    /\ CanVerify(v)
    /\ t \notin banned
    /\ v # t
    /\ \A i \in Verifiers(v) : verifications[i].verifier # t

CanUserVerify(v, t) ==
    /\ CanVerify(v)
    /\ t \notin banned
    /\ v # t
    /\ \A i \in Verifiers(v) : verifications[i].verifier # t
    /\ \A i \in ActiveVerifications(v) : verifications[i].user # t

\* The listener's test, and the recount's.
ReachesThreshold_Exceeded(u) == Received(u) > MinVerifiers
ReachesThreshold(u) == Received(u) = MinVerifiers

FallsBelowThreshold_OneLate(u) ==
    u \in verified \ firstRegistrants /\ Received(u) + 1 < MinVerifiers
FallsBelowThreshold(u) ==
    u \in verified \ firstRegistrants /\ Received(u) < MinVerifiers

NewRow_Swapped(v, t) == [verifier |-> t, user |-> v, cancelled |-> FALSE]
NewRow(v, t) == [verifier |-> v, user |-> t, cancelled |-> FALSE]

\* The auto-increment id the insertion returns.
NewId_BeforeInsert == Len(verifications)
NewId == Len(verifications) + 1

-----------------------------------------------------------------------------
(***************************************************************************)
(* Requests                                                                *)
(***************************************************************************)
Idle == [pc |-> "idle"]

Request ==
    {Idle}
    \cup [pc : {"verify_insert"}, actor : Users, target : Users]
    \cup [pc : {"verify_count", "verify_grant",
                "cancel_mark", "cancel_read", "cancel_revoke"},
          actor : Users, row : DOMAIN verifications]
    \cup [pc : {"basic_cancel", "basic_revoke"}, actor : Users,
          loaded : {"verified", "unverified"}]

At(w, pc) == request[w].pc = pc
Goto(w, r) == request' = [request EXCEPT ![w] = r]
Finish(w) == Goto(w, Idle)

TypeOK ==
    /\ verified \subseteq Users
    /\ firstRegistrants \subseteq Users
    /\ banned \subseteq Users
    /\ complete \subseteq Users
    /\ verifications \in Seq(Row)
    /\ request \in [Workers -> Request]

Init ==
    /\ verified = Registrants
    /\ firstRegistrants = Registrants
    /\ banned = {}
    /\ complete = Users \ Incomplete
    /\ verifications = <<>>
    /\ request = [w \in Workers |-> Idle]

-----------------------------------------------------------------------------
(***************************************************************************)
(* POST /users/verify: the CanVerify middleware, the recaptcha middleware  *)
(* (an HTTP call to a third party), then VerificationService::verifyUser   *)
(* and, in the same request, the CheckUserVerificationStatus listener.     *)
(***************************************************************************)

\* Bound of the runs: no request is admitted that could overfill the table.
RoomForRow ==
    Len(verifications) + Cardinality({x \in Workers : At(x, "verify_insert")}) < MaxRows

\* The middleware admits the request; nothing it read is locked.
VerifyCheck(w, v, t) ==
    /\ At(w, "idle")
    /\ RoomForRow
    /\ CanUserVerify(v, t)
    /\ Goto(w, [pc |-> "verify_insert", actor |-> v, target |-> t])
    /\ UNCHANGED <<accounts, verifications>>

\* verifyUser loads the target and inserts the row.  A target loaded as
\* verified makes the listener skip the threshold check.
VerifyInsert(w) ==
    LET v == request[w].actor
        t == request[w].target
    IN  /\ At(w, "verify_insert")
        /\ t \in complete
        /\ verifications' = Append(verifications, NewRow(v, t))
        /\ IF t \in verified
           THEN Finish(w)
           ELSE Goto(w, [pc |-> "verify_count", actor |-> v, row |-> NewId])
        /\ UNCHANGED accounts

\* target_user_data_not_filled
VerifyReject(w) ==
    /\ At(w, "verify_insert")
    /\ request[w].target \notin complete
    /\ Finish(w)
    /\ UNCHANGED <<accounts, verifications>>

\* The listener counts the active verifiers of the recipient.
VerifyCount(w) ==
    LET r == request[w]
    IN  /\ At(w, "verify_count")
        /\ IF ReachesThreshold(verifications[r.row].user)
           THEN Goto(w, [r EXCEPT !.pc = "verify_grant"])
           ELSE Finish(w)
        /\ UNCHANGED <<accounts, verifications>>

VerifyGrant(w) ==
    /\ At(w, "verify_grant")
    /\ verified' = verified \cup {verifications[request[w].row].user}
    /\ Finish(w)
    /\ UNCHANGED <<firstRegistrants, banned, complete, verifications>>

-----------------------------------------------------------------------------
(***************************************************************************)
(* POST /users/verifications/{verification}/cancel                         *)
(***************************************************************************)

CancelLoad_AnyMember(w, v, i) ==
    /\ At(w, "idle")
    /\ Active(i)
    /\ Goto(w, [pc |-> "cancel_mark", actor |-> v, row |-> i])
    /\ UNCHANGED <<accounts, verifications>>

\* Route binding loads the row; the service checks it belongs to the caller.
CancelLoad(w, v, i) ==
    /\ At(w, "idle")
    /\ verifications[i].verifier = v
    /\ Active(i)
    /\ Goto(w, [pc |-> "cancel_mark", actor |-> v, row |-> i])
    /\ UNCHANGED <<accounts, verifications>>

CancelMark(w) ==
    LET r == request[w]
    IN  /\ At(w, "cancel_mark")
        /\ verifications' = [verifications EXCEPT ![r.row].cancelled = TRUE]
        /\ Goto(w, [r EXCEPT !.pc = "cancel_read"])
        /\ UNCHANGED accounts

\* The recipient is read with the number of its active verifiers.
CancelRead(w) ==
    LET r == request[w]
    IN  /\ At(w, "cancel_read")
        /\ IF FallsBelowThreshold(verifications[r.row].user)
           THEN Goto(w, [r EXCEPT !.pc = "cancel_revoke"])
           ELSE Finish(w)
        /\ UNCHANGED <<accounts, verifications>>

CancelRevoke(w) ==
    /\ At(w, "cancel_revoke")
    /\ verified' = verified \ {verifications[request[w].row].user}
    /\ Finish(w)
    /\ UNCHANGED <<firstRegistrants, banned, complete, verifications>>

-----------------------------------------------------------------------------
(***************************************************************************)
(* ProfileService::updateBasicInfo, past its limit check                   *)
(***************************************************************************)

BasicLoad(w, u) ==
    /\ At(w, "idle")
    /\ Goto(w, [pc |-> "basic_cancel", actor |-> u,
                loaded |-> IF u \in verified THEN "verified" ELSE "unverified"])
    /\ UNCHANGED <<accounts, verifications>>

\* The profile is saved (it is complete afterwards unless the country, which
\* this form does not carry, is missing) and the verifications GIVEN by the
\* user are cancelled in one UPDATE.
BasicCancel(w) ==
    LET u == request[w].actor
    IN  /\ At(w, "basic_cancel")
        /\ \E c \in {complete, complete \cup {u}} : complete' = c
        /\ verifications' =
               [i \in DOMAIN verifications |->
                   IF verifications[i].verifier = u
                   THEN [verifications[i] EXCEPT !.cancelled = TRUE]
                   ELSE verifications[i]]
        /\ Goto(w, [request[w] EXCEPT !.pc = "basic_revoke"])
        /\ UNCHANGED <<verified, firstRegistrants, banned>>

\* markAsUnverified saves only a dirty column: a model loaded with a null
\* verified_at writes nothing.
BasicRevoke(w) ==
    LET r == request[w]
    IN  /\ At(w, "basic_revoke")
        /\ verified' = IF r.loaded = "verified" THEN verified \ {r.actor} ELSE verified
        /\ Finish(w)
        /\ UNCHANGED <<firstRegistrants, banned, complete, verifications>>

-----------------------------------------------------------------------------
(***************************************************************************)
(* The admin panel's user form writes verified_at, verification_reason and *)
(* marked_as_fake_at as the page holds them, which may be long out of      *)
(* date: any combination can be written.                                   *)
(***************************************************************************)
AdminSave(u) ==
    /\ \E ver, first, fake \in BOOLEAN :
           /\ verified' = IF ver THEN verified \cup {u} ELSE verified \ {u}
           /\ firstRegistrants' =
                  IF first THEN firstRegistrants \cup {u} ELSE firstRegistrants \ {u}
           /\ banned' = IF fake THEN banned \cup {u} ELSE banned \ {u}
    /\ UNCHANGED <<complete, verifications, request>>

-----------------------------------------------------------------------------
Verify(w) ==
    \/ \E v, t \in Users : VerifyCheck(w, v, t)
    \/ VerifyInsert(w)
    \/ VerifyReject(w)
    \/ VerifyCount(w)
    \/ VerifyGrant(w)

Cancel(w) ==
    \/ \E v \in Users, i \in DOMAIN verifications : CancelLoad(w, v, i)
    \/ CancelMark(w)
    \/ CancelRead(w)
    \/ CancelRevoke(w)

UpdateBasicInfo(w) ==
    \/ \E u \in Users : BasicLoad(w, u)
    \/ BasicCancel(w)
    \/ BasicRevoke(w)

PeerNext == \E w \in Workers : Verify(w) \/ Cancel(w)

MemberNext == \E w \in Workers : Verify(w) \/ Cancel(w) \/ UpdateBasicInfo(w)

Next == MemberNext \/ \E u \in Edited : AdminSave(u)

\* A worker that has started a request executes its remaining statements.
Proceed(w) ==
    \/ VerifyInsert(w) \/ VerifyReject(w) \/ VerifyCount(w) \/ VerifyGrant(w)
    \/ CancelMark(w) \/ CancelRead(w) \/ CancelRevoke(w)
    \/ BasicCancel(w) \/ BasicRevoke(w)

PeerSpec == Init /\ [][PeerNext]_vars
MemberSpec == Init /\ [][MemberNext]_vars
Spec == Init /\ [][Next]_vars

FairPeerSpec == PeerSpec /\ \A w \in Workers : WF_vars(Proceed(w))

-----------------------------------------------------------------------------
(***************************************************************************)
(* Properties of requests executed one at a time                           *)
(***************************************************************************)
Quiescent == \A w \in Workers : At(w, "idle")

EnoughVerifiers(u) == Received(u) >= MinVerifiers

\* Whenever no request is under way, a user who is not a first registrant is
\* verified exactly when at least MinVerifiers active rows name them: the
\* equality test of the listener and the recount of a cancellation, taken
\* together, never miss the threshold (CheckUserVerificationStatus,
\* cancelVerificationByVerifier).
ThresholdExact ==
    Quiescent =>
        \A u \in Users \ firstRegistrants : u \in verified <=> EnoughVerifiers(u)

\* No verifier has two active rows for one user ("Cannot verify the same user
\* more than once", canUserVerify).
NoDuplicateActive ==
    \A i, j \in DOMAIN verifications :
        /\ i # j /\ Active(i) /\ Active(j)
        /\ verifications[i].verifier = verifications[j].verifier
        => verifications[i].user # verifications[j].user

\* No two users ever verify each other, even when one of the rows has been
\* cancelled ("Circular verification is not allowed", canUserVerify).
NoMutual ==
    \A i, j \in DOMAIN verifications :
        ~ /\ verifications[i].verifier = verifications[j].user
          /\ verifications[i].user = verifications[j].verifier

\* A row added for a member v leaves v within the maximum and within one of
\* the balance the configuration documents: what was read by the middleware
\* still holds when verifyUser inserts (User::canVerify).
QuotaAtGrant ==
    [][\A v \in Users : Given(v)' > Given(v) =>
          /\ Given(v)' <= MaxGiven
          /\ v \in firstRegistrants \/ Given(v)' <= Received(v)' - MinDiff + 1]_vars

\* A user's verified status always settles on the threshold again after a
\* row is added or cancelled: a request that counts also writes what it
\* concluded.
SettlesOnThreshold ==
    \A u \in Users \ Registrants :
        []<>(u \in verified <=> EnoughVerifiers(u))

-----------------------------------------------------------------------------
(***************************************************************************)
(* What the requests implement: the register of trust.  A verification     *)
(* takes effect when its request ends, and so does a cancellation: until   *)
(* then the register shows the row as it was.                              *)
(***************************************************************************)
Giving(i) ==
    \E w \in Workers :
        request[w].pc \in {"verify_count", "verify_grant"} /\ request[w].row = i

Withdrawing(i) ==
    \E w \in Workers :
        request[w].pc \in {"cancel_read", "cancel_revoke"} /\ request[w].row = i

Pair(i) == <<verifications[i].verifier, verifications[i].user>>

Settled == {i \in DOMAIN verifications : ~Giving(i)}

Standing == {i \in Settled : Active(i) \/ Withdrawing(i)}

Vouched == {Pair(i) : i \in Standing}

EverVouched == {Pair(i) : i \in Settled}

Register == INSTANCE TrustRegister WITH
    vouches <- Vouched, past <- EverVouched, trusted <- verified

\* Requests executed one at a time implement the register: each has the
\* effect of one step, which leaves verified_at exactly at the threshold.
ImplementsRegister == Register!Spec

-----------------------------------------------------------------------------
(***************************************************************************)
(* Properties of concurrent requests                                       *)
(***************************************************************************)

\* Where trust may come from: the panel can make and unmake first registrants.
Roots == firstRegistrants \cup Edited

\* Every verification descends from a first registrant or from a member whom
\* an administrator edited: its verifier is one, or received an earlier row;
\* and so does every verified status.  A request admitted on a status since
\* lost does not break the chain.
TrustRooted ==
    /\ \A i \in DOMAIN verifications :
          \/ verifications[i].verifier \in Roots
          \/ \E j \in 1..(i - 1) :
                verifications[j].user = verifications[i].verifier
    /\ \A u \in verified \ Roots : Verifiers(u) # {}

\* What the middleware checked may be false when the row is inserted, so
\* concurrent requests exceed the maximum and repeat a verification, but never
\* by more than one row per other worker (CanVerify, verifyUser).
OverrunBounded ==
    \A v \in Users :
        /\ Given(v) <= MaxGiven + Cardinality(Workers) - 1
        /\ \A t \in Users :
              Cardinality({i \in ActiveVerifications(v) : verifications[i].user = t})
                <= Cardinality(Workers)

\* The audit trail: rows are never removed or redirected, a cancelled row
\* stays cancelled, and only a request of the member who gave it cancels it.
AuditTrail ==
    [][/\ Len(verifications') >= Len(verifications)
       /\ \A i \in DOMAIN verifications :
             /\ verifications'[i].verifier = verifications[i].verifier
             /\ verifications'[i].user = verifications[i].user
             /\ verifications[i].cancelled => verifications'[i].cancelled
             /\ verifications'[i].cancelled # verifications[i].cancelled =>
                   \E w \in Workers :
                       /\ request[w].pc \in {"cancel_mark", "basic_cancel"}
                       /\ request[w].actor = verifications[i].verifier]_vars

-----------------------------------------------------------------------------
(***************************************************************************)
(* What comments and the configuration say, and the code does not ensure   *)
(***************************************************************************)

\* "a peer-verified user who drops below the active-verifier threshold" must
\* not keep verified_at (VerificationService, comment on the recompute).
VerifiedMeetsThreshold ==
    Quiescent => \A u \in verified \ firstRegistrants : EnoughVerifiers(u)

\* "The number of registrants required to verify a profile": that many
\* verifiers suffice (config/e-syrians.php).
ThresholdSuffices ==
    Quiescent => \A u \in Users : EnoughVerifiers(u) => u \in verified

=============================================================================
