---------------------------- MODULE FeatureVotes ----------------------------
(***************************************************************************)
(* One feature request: its votes, the cached count of one direction (the  *)
(* other is kept alike), and its deletion and restoration.                 *)
(*                                                                         *)
(* A vote is a transaction that locks the member's row, if there is one,   *)
(* and inserts, changes or deletes it; two insertions conflict on the      *)
(* unique key, and the loser is tried once more.  The caches are dropped   *)
(* after the transaction, the deletion saves the row twice, and any of     *)
(* these processes may die in between.                                     *)
(*                                                                         *)
(* Of the panel's edit form only the deletion's reason is modelled.  The   *)
(* timeline stamps and the permanent deletion are left out.                *)
(***************************************************************************)
EXTENDS Integers, FiniteSets

CONSTANTS
    Members,    \* users who may vote
    Workers,    \* PHP workers with members' requests, one at a time each
    Admins,     \* administrators, with one request at a time each
    Readers,    \* requests that show the request without aggregate counts
    Reasons,    \* reasons for a deletion
    NoClick     \* a worker without a click

Direction == {"up", "down"}
NoVote == "none"
NoReason == "none"
Missing == -1       \* no cache entry

ASSUME VotersAssumption ==
    /\ IsFiniteSet(Members)
    /\ NoReason \notin Reasons

VARIABLES
    vote,       \* feature_request_votes: the row of each member, by direction
    request,    \* what each worker is executing
    cached,     \* the cached count of the upvotes
    reading,    \* the count each reader took and has yet to cache
    trashed,    \* deleted_at is set
    reason,     \* deletion_reason
    admin       \* what each administrator's request is executing

votes == <<vote, request>>
row == <<trashed, reason>>
vars == <<vote, request, cached, reading, trashed, reason, admin>>

-----------------------------------------------------------------------------
Vote == Direction \cup {NoVote}
Counts == 0..Cardinality(Members)

Tally(d) == Cardinality({m \in Members : vote[m] = d})

Idle == [pc |-> "idle"]

\* "tries" counts the attempts that remain after this one.
Request ==
    {Idle}
    \cup [pc : {"read"}, member : Members, direction : Direction, tries : 0..1]
    \cup [pc : {"write"}, member : Members, direction : Direction, tries : 0..1,
          seen : Vote]
    \cup [pc : {"forget"}, member : Members, direction : Direction,
          outcome : {"added", "removed", "switched"}]
    \cup [pc : {"unvote", "forget_unvote"}, member : Members]

Reason == Reasons \cup {NoReason}

\* "reason" is what the administrator gave, "loaded" what the row held.
AdminRequest ==
    {Idle}
    \cup [pc : {"mark"}, reason : Reasons, loaded : Reason]
    \cup [pc : {"delete"}, reason : Reasons]
    \cup [pc : {"restore", "clear"}, loaded : Reason]
    \cup [pc : {"forget"}]
    \cup [pc : {"edit"}, reason : Reason, loaded : Reason]

TypeOK ==
    /\ vote \in [Members -> Vote]
    /\ request \in [Workers -> Request]
    /\ cached \in Counts \cup {Missing}
    /\ reading \in [Readers -> Counts \cup {Missing}]
    /\ trashed \in BOOLEAN
    /\ reason \in Reason
    /\ admin \in [Admins -> AdminRequest]

Init ==
    /\ vote = [m \in Members |-> NoVote]
    /\ request = [w \in Workers |-> Idle]
    /\ cached = Missing
    /\ reading = [r \in Readers |-> Missing]
    /\ trashed = FALSE
    /\ reason = NoReason
    /\ admin = [a \in Admins |-> Idle]

At(w, pc) == request[w].pc = pc
Goto(w, r) == request' = [request EXCEPT ![w] = r]
Finish(w) == Goto(w, Idle)

AdminAt(a, pc) == admin[a].pc = pc
AdminGoto(a, r) == admin' = [admin EXCEPT ![a] = r]

-----------------------------------------------------------------------------
(***************************************************************************)
(* A click on a direction                                                  *)
(***************************************************************************)

\* lockForUpdate locks the row it finds; where there is none, any number of
\* workers find none.
Locked_Never(m) == FALSE
Locked(m) ==
    \E w \in Workers :
        At(w, "write") /\ request[w].member = m /\ request[w].seen # NoVote

Outcome(seen, d) ==
    IF seen = NoVote THEN "added" ELSE IF seen = d THEN "removed" ELSE "switched"

NewVote(seen, d) == IF seen = d THEN NoVote ELSE d

MayRetry(r) == r.tries > 0

Click(w, m, d) ==
    /\ At(w, "idle")
    /\ ~trashed
    /\ Goto(w, [pc |-> "read", member |-> m, direction |-> d, tries |-> 1])
    /\ UNCHANGED <<vote, cached, reading, row, admin>>

LockedRead(w) ==
    /\ At(w, "read")
    /\ ~Locked(request[w].member)
    /\ Goto(w, [pc |-> "write", member |-> request[w].member,
                direction |-> request[w].direction, tries |-> request[w].tries,
                seen |-> vote[request[w].member]])
    /\ UNCHANGED <<vote, cached, reading, row, admin>>

\* The row is inserted, changed or deleted, and the transaction committed.
Commit(w) ==
    LET r == request[w]
    IN  /\ At(w, "write")
        /\ r.seen = NoVote => vote[r.member] = NoVote
        /\ vote' = [vote EXCEPT ![r.member] = NewVote(r.seen, r.direction)]
        /\ Goto(w, [pc |-> "forget", member |-> r.member, direction |-> r.direction,
                    outcome |-> Outcome(r.seen, r.direction)])
        /\ UNCHANGED <<cached, reading, row, admin>>

\* The row exists by now: UniqueConstraintViolationException, once.
Retry(w) ==
    LET r == request[w]
    IN  /\ At(w, "write")
        /\ r.seen = NoVote /\ vote[r.member] # NoVote
        /\ MayRetry(r)
        /\ Goto(w, [pc |-> "read", member |-> r.member, direction |-> r.direction,
                    tries |-> r.tries - 1])
        /\ UNCHANGED <<vote, cached, reading, row, admin>>

\* The second violation is not caught; nor is the deadlock by which MySQL
\* decides between two insertions into the gap that both transactions locked.
Fail(w) ==
    LET r == request[w]
    IN  /\ At(w, "write")
        /\ r.seen = NoVote
        /\ \/ vote[r.member] # NoVote /\ ~MayRetry(r)
           \/ \E x \in Workers \ {w} :
                 /\ At(x, "write")
                 /\ request[x].member = r.member
                 /\ request[x].seen = NoVote
        /\ Finish(w)
        /\ UNCHANGED <<vote, cached, reading, row, admin>>

\* forgetVoteCaches, then the answer.
Forget(w) ==
    /\ At(w, "forget") \/ At(w, "forget_unvote")
    /\ cached' = Missing
    /\ Finish(w)
    /\ UNCHANGED <<vote, reading, row, admin>>

-----------------------------------------------------------------------------
(***************************************************************************)
(* DELETE /feature-requests/vote/{id}: one statement, which waits for the  *)
(* row's lock                                                              *)
(***************************************************************************)
Unclick(w, m) ==
    /\ At(w, "idle")
    /\ ~trashed
    /\ Goto(w, [pc |-> "unvote", member |-> m])
    /\ UNCHANGED <<vote, cached, reading, row, admin>>

Unvote(w) ==
    LET m == request[w].member
    IN  /\ At(w, "unvote")
        /\ ~Locked(m)
        /\ vote' = [vote EXCEPT ![m] = NoVote]
        /\ IF vote[m] # NoVote
           THEN Goto(w, [pc |-> "forget_unvote", member |-> m])
           ELSE Finish(w)
        /\ UNCHANGED <<cached, reading, row, admin>>

\* A worker is killed; an open transaction is rolled back.
Die(w) ==
    /\ ~At(w, "idle")
    /\ Finish(w)
    /\ UNCHANGED <<vote, cached, reading, row, admin>>

-----------------------------------------------------------------------------
(***************************************************************************)
(* The count is remembered for a minute: looked up, counted and put.       *)
(***************************************************************************)
Count(r) ==
    /\ reading[r] = Missing
    /\ cached = Missing
    /\ reading' = [reading EXCEPT ![r] = Tally("up")]
    /\ UNCHANGED <<votes, cached, row, admin>>

Put(r) ==
    /\ reading[r] # Missing
    /\ cached' = reading[r]
    /\ reading' = [reading EXCEPT ![r] = Missing]
    /\ UNCHANGED <<votes, row, admin>>

Expires_Never == FALSE
Expires == cached # Missing

Expire ==
    /\ Expires
    /\ cached' = Missing
    /\ UNCHANGED <<votes, reading, row, admin>>

-----------------------------------------------------------------------------
(***************************************************************************)
(* Deletion and restoration.  A save writes what differs from the loaded   *)
(* model, and the deletion writes deleted_at whatever it is by then.       *)
(***************************************************************************)
Delete(a, why) ==
    /\ AdminAt(a, "idle")
    /\ ~trashed
    /\ AdminGoto(a, [pc |-> "mark", reason |-> why, loaded |-> reason])
    /\ UNCHANGED <<votes, cached, reading, row>>

Marked_NotSaved(r) == r.loaded
Marked(r) == IF r.reason = r.loaded THEN reason ELSE r.reason

DeleteMark(a) ==
    /\ AdminAt(a, "mark")
    /\ reason' = Marked(admin[a])
    /\ AdminGoto(a, [pc |-> "delete", reason |-> admin[a].reason])
    /\ UNCHANGED <<votes, cached, reading, trashed>>

DeleteRow(a) ==
    /\ AdminAt(a, "delete")
    /\ trashed' = TRUE
    /\ AdminGoto(a, [pc |-> "forget"])
    /\ UNCHANGED <<votes, cached, reading, reason>>

Restore(a) ==
    /\ AdminAt(a, "idle")
    /\ trashed
    /\ AdminGoto(a, [pc |-> "restore", loaded |-> reason])
    /\ UNCHANGED <<votes, cached, reading, row>>

RestoreRow(a) ==
    /\ AdminAt(a, "restore")
    /\ trashed' = FALSE
    /\ AdminGoto(a, [pc |-> "clear", loaded |-> admin[a].loaded])
    /\ UNCHANGED <<votes, cached, reading, reason>>

RestoreClear(a) ==
    /\ AdminAt(a, "clear")
    /\ reason' = IF admin[a].loaded = NoReason THEN reason ELSE NoReason
    /\ AdminGoto(a, [pc |-> "forget"])
    /\ UNCHANGED <<votes, cached, reading, trashed>>

AdminForget(a) ==
    /\ AdminAt(a, "forget")
    /\ cached' = Missing
    /\ AdminGoto(a, Idle)
    /\ UNCHANGED <<votes, reading, row>>

\* The panel's bulk restoration does not go through the service.
BulkRestore(a) ==
    /\ AdminAt(a, "idle")
    /\ trashed
    /\ trashed' = FALSE
    /\ UNCHANGED <<votes, cached, reading, reason, admin>>

\* The panel's form: on a deleted request the reason may be edited, or emptied.
PanelEdit(a, text) ==
    /\ AdminAt(a, "idle")
    /\ trashed
    /\ AdminGoto(a, [pc |-> "edit", reason |-> text, loaded |-> reason])
    /\ UNCHANGED <<votes, cached, reading, row>>

PanelSave(a) ==
    /\ AdminAt(a, "edit")
    /\ reason' = Marked(admin[a])
    /\ AdminGoto(a, Idle)
    /\ UNCHANGED <<votes, cached, reading, trashed>>

AdminDie(a) ==
    /\ ~AdminAt(a, "idle")
    /\ AdminGoto(a, Idle)
    /\ UNCHANGED <<votes, cached, reading, row>>

-----------------------------------------------------------------------------
Proceed(w) ==
    LockedRead(w) \/ Commit(w) \/ Retry(w) \/ Fail(w) \/ Forget(w) \/ Unvote(w)

Next ==
    \/ \E w \in Workers :
          \/ \E m \in Members, d \in Direction : Click(w, m, d)
          \/ \E m \in Members : Unclick(w, m)
          \/ Proceed(w)
          \/ Die(w)
    \/ \E r \in Readers : Count(r) \/ Put(r)
    \/ Expire
    \/ \E a \in Admins :
          \/ \E why \in Reasons : Delete(a, why)
          \/ DeleteMark(a) \/ DeleteRow(a)
          \/ Restore(a) \/ RestoreRow(a) \/ RestoreClear(a)
          \/ \E text \in Reason : PanelEdit(a, text)
          \/ PanelSave(a)
          \/ AdminForget(a) \/ BulkRestore(a) \/ AdminDie(a)

Spec == Init /\ [][Next]_vars

\* The cache drops an entry when its minute is over, and a reader that has
\* counted goes on to put what it counted.
FairSpec == Spec /\ WF_vars(Expire) /\ \A r \in Readers : WF_vars(Put(r))

-----------------------------------------------------------------------------
(***************************************************************************)
(* What should hold                                                        *)
(***************************************************************************)

\* A deletion that has gone through leaves the reason it was given ("required
\* reason for the audit trail") and a restoration leaves none ("Cleared on
\* restore"), although both write twice and only what differs from the row they
\* loaded, and whatever dead requests, the panel's form and its bulk restoration
\* have left there; with one administrator at a time.
ReasonFollows ==
    [][\A a \in Admins :
          admin'[a].pc = "forget" =>
             /\ AdminAt(a, "delete") => trashed' /\ reason' = admin[a].reason
             /\ AdminAt(a, "clear") => ~trashed' /\ reason' = NoReason]_vars

\* When voting has ceased, the cached count is right from some time on: what a
\* reader put after the caches were dropped, or a worker that died left
\* behind, does not outlive its minute.
CountSettles ==
    <>[][FALSE]_vote => <>[](cached \in {Missing, Tally("up")})

-----------------------------------------------------------------------------
(***************************************************************************)
(* A click is pending until its transaction commits, and then shows what   *)
(* its answer will say.                                                    *)
(***************************************************************************)
ClickOf(w) ==
    LET r == request[w]
    IN  IF r.pc \in {"read", "write"}
        THEN [member |-> r.member, direction |-> r.direction, outcome |-> "pending"]
        ELSE IF r.pc = "forget"
        THEN [member |-> r.member, direction |-> r.direction, outcome |-> r.outcome]
        ELSE NoClick

Board == INSTANCE VoteBoard WITH click <- [w \in Workers |-> ClickOf(w)]

\* However clicks of one member race, deadlock and are retried, each takes
\* effect at most once, at one moment, and is answered by what it did
\* (FeatureRequestService::vote, executeVote).
ImplementsBoard == Board!Spec
=============================================================================
