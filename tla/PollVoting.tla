----------------------------- MODULE PollVoting -----------------------------
(***************************************************************************)
(* Polls from creation to the last ballot: creating, editing, closing and  *)
(* reopening a poll, voting, and deleting the saved audience that gates    *)
(* it, as PHP workers execute them.                                        *)
(*                                                                         *)
(* PollService::vote and PollService::updatePoll run in a transaction that *)
(* locks the poll's row (SELECT ... FOR UPDATE); everything else they read *)
(* comes from the transaction's snapshot, which its first plain SELECT,    *)
(* right after the lock, fixes.  So each is two steps, one that takes the  *)
(* lock and reads and one that writes and commits, preceded for an update  *)
(* by the checks of the form request, made before the transaction.         *)
(*                                                                         *)
(* The module is about the API.  The admin panel's form for polls, which   *)
(* checks neither votes nor locks, is left out.                            *)
(***************************************************************************)
EXTENDS Integers, Sequences, FiniteSets

CONSTANTS
    Polls,
    LegacyPolls,    \* those that may exist with allowed_voter rules, never used yet
    Members,        \* accounts that pass UserIsVerified
    Matching,       \* those who match a poll's demographic rules
    Listed,         \* those the allowed_voter rules name
    Audiences,      \* saved audiences of the polls' creator
    Workers,        \* PHP workers, one request each at a time
    Choices,        \* positions in a poll's list of options
    Replacements,   \* bound on replacements of a poll's options
    Payloads,       \* poll creations clients send in a run
    Patches,        \* poll updates clients send in a run
    NoAudience,     \* a null audience_id
    Unsent,         \* a field absent from an update
    LastDay         \* bound on the days of a run

Days == 0..LastDay
PayloadType ==
    [start : Days, duration : Nat \ {0}, max : Nat \ {0},
     audience : Audiences \cup {NoAudience}, inline : {"empty", "given"}]
PatchType ==
    [start : Days \cup {Unsent}, duration : (Nat \ {0}) \cup {Unsent},
     max : (Nat \ {0}) \cup {Unsent}, options : BOOLEAN,
     audience : Audiences \cup {NoAudience, Unsent},
     inline : {"unsent", "empty", "given"}]

ASSUME PollsAssumption ==
    /\ LegacyPolls \subseteq Polls
    /\ NoAudience \notin Audiences
    /\ Unsent \notin Audiences \cup {NoAudience}
    /\ Unsent \notin Int
    /\ LastDay \in Nat
    /\ Replacements \in Nat
    /\ Payloads \subseteq PayloadType
    /\ Patches \subseteq PatchType

VARIABLES
    day,        \* now, in days
    polls,      \* the polls table, with each poll's audience rules
    ballots,    \* poll_votes: the rows of each vote request, by poll
    audiences,  \* the audiences table and its entries
    request     \* what each worker is executing

vars == <<day, polls, ballots, audiences, request>>

-----------------------------------------------------------------------------
(***************************************************************************)
(* Tables                                                                  *)
(***************************************************************************)
Criteria == {"inline", "legacy"}   \* demographic and allowed_voter rules

\* updatePoll replaces the options wholesale, so the options of a poll are
\* those of its current generation; earlier ones are soft-deleted.
Poll ==
    [status : {"absent", "live", "closed"}, opens : Int, closes : Int,
     max : Nat, generation : Nat,
     audience : Audiences \cup {NoAudience}, rules : SUBSET Criteria]

Ballot == [voter : Members, generation : Nat, choice : SUBSET Choices]

Audience == [live : BOOLEAN, members : SUBSET Members]

Absent == [status |-> "absent", opens |-> 0, closes |-> 0, max |-> 0,
           generation |-> 0, audience |-> NoAudience, rules |-> {}]
Legacy == [status |-> "live", opens |-> 0, closes |-> 1, max |-> 1,
           generation |-> 1, audience |-> NoAudience, rules |-> {"legacy"}]

InWindow(p) == polls[p].opens <= day /\ day < polls[p].closes

HasVoted(p, u) == \E i \in DOMAIN ballots[p] : ballots[p][i].voter = u

\* User::isInAudience
IsInAudience_LegacyIgnored(p, u) ==
    LET a == polls[p].audience
    IN  \/ a # NoAudience /\ audiences[a].live /\ u \in audiences[a].members
        \/ a = NoAudience /\ ("inline" \in polls[p].rules => u \in Matching)
IsInAudience(p, u) ==
    LET a == polls[p].audience
    IN  \/ /\ a # NoAudience
           /\ audiences[a].live
           /\ u \in audiences[a].members
        \/ /\ a = NoAudience
           /\ "legacy" \in polls[p].rules
           /\ u \in Listed
        \/ /\ a = NoAudience
           /\ "legacy" \notin polls[p].rules
           /\ "inline" \in polls[p].rules => u \in Matching

\* resolveOwnedUuidToId: a deleted audience resolves to null.
Resolved(a) == IF a \in Audiences /\ audiences[a].live THEN a ELSE NoAudience

\* detectActivePolls
ActivePolls(a) ==
    {p \in Polls : polls[p].status = "live" /\ polls[p].audience = a /\ InWindow(p)}

-----------------------------------------------------------------------------
(***************************************************************************)
(* Requests                                                                *)
(***************************************************************************)
Idle == [pc |-> "idle"]

Request ==
    {Idle}
    \cup [pc : {"create_resolve"}, poll : Polls, payload : Payloads]
    \cup [pc : {"create_save"}, poll : Polls, payload : Payloads,
          audience : Audiences \cup {NoAudience}]
    \cup [pc : {"update_lock"}, poll : Polls, patch : Patches]
    \cup [pc : {"update_save"}, poll : Polls, patch : Patches,
          audience : Audiences \cup {NoAudience}]
    \cup [pc : {"vote_save"}, poll : Polls, ballot : Ballot]
    \cup [pc : {"toggle_save"}, poll : Polls, loaded : {"live", "closed"}]
    \cup [pc : {"audience_delete"}, audience : Audiences]

At(w, pc) == request[w].pc = pc
Goto(w, r) == request' = [request EXCEPT ![w] = r]
Finish(w) == Goto(w, Idle)

\* Some transaction holds the lock of the poll's row.
Locked_Never(p) == FALSE
Locked(p) ==
    \E w \in Workers : /\ request[w].pc \in {"update_save", "vote_save"}
                       /\ request[w].poll = p

TypeOK ==
    /\ day \in Days
    /\ polls \in [Polls -> Poll]
    /\ ballots \in [Polls -> Seq(Ballot)]
    /\ audiences \in [Audiences -> Audience]
    /\ request \in [Workers -> Request]

Init ==
    /\ day = 0
    /\ \E old \in SUBSET LegacyPolls :
          polls = [p \in Polls |-> IF p \in old THEN Legacy ELSE Absent]
    /\ ballots = [p \in Polls |-> <<>>]
    /\ audiences \in [Audiences -> [live : {TRUE}, members : SUBSET Members]]
    /\ request = [w \in Workers |-> Idle]

-----------------------------------------------------------------------------
(***************************************************************************)
(* Creating a poll.  StorePollRequest looks the audience up, the           *)
(* transaction of createPoll looks it up again and then inserts.           *)
(***************************************************************************)
Creating(w, p) ==
    request[w].pc \in {"create_resolve", "create_save"} /\ request[w].poll = p

CreateValidate(w, p) ==
    /\ At(w, "idle")
    /\ polls[p].status = "absent"
    /\ \A v \in Workers : ~Creating(v, p)
    /\ \E payload \in Payloads :
          /\ payload.start >= day
          /\ payload.audience \in Audiences =>
                payload.inline = "empty" /\ audiences[payload.audience].live
          /\ Goto(w, [pc |-> "create_resolve", poll |-> p, payload |-> payload])
    /\ UNCHANGED <<day, polls, ballots, audiences>>

CreateResolve(w) ==
    /\ At(w, "create_resolve")
    /\ Goto(w, [pc |-> "create_save", poll |-> request[w].poll,
                payload |-> request[w].payload,
                audience |-> Resolved(request[w].payload.audience)])
    /\ UNCHANGED <<day, polls, ballots, audiences>>

CreateSave(w) ==
    /\ At(w, "create_save")
    /\ LET payload == request[w].payload
           a == request[w].audience
       IN  polls' = [polls EXCEPT ![request[w].poll] =
              [status |-> "live", opens |-> payload.start,
               closes |-> payload.start + payload.duration, max |-> payload.max,
               generation |-> 1, audience |-> a,
               rules |-> IF a = NoAudience /\ payload.inline = "given"
                         THEN {"inline"} ELSE {}]]
    /\ Finish(w)
    /\ UNCHANGED <<day, ballots, audiences>>

-----------------------------------------------------------------------------
(***************************************************************************)
(* Editing a poll.  UpdatePollRequest judges the poll the route found and  *)
(* the audience the client names; updatePoll locks the poll's row and      *)
(* looks again at the votes and the audience, and at nothing else.         *)
(***************************************************************************)
Attaches(patch) == patch.audience \in Audiences

UpdateAuthorize(w, p) ==
    /\ At(w, "idle")
    /\ polls[p].status = "live"
    /\ ballots[p] = <<>>
    /\ \E patch \in Patches :
          /\ patch.start # Unsent => patch.start >= day
          /\ patch.options => polls[p].generation <= Replacements
          /\ \/ patch.inline # "given"
             \/ polls[p].audience = NoAudience /\ ~Attaches(patch)
             \/ patch.audience = NoAudience
          /\ Attaches(patch) => audiences[patch.audience].live
          /\ Goto(w, [pc |-> "update_lock", poll |-> p, patch |-> patch])
    /\ UNCHANGED <<day, polls, ballots, audiences>>

StillEditable(p) == polls[p].status = "live" /\ ballots[p] = <<>>

\* The saved audience after the edit: as it was when the client sent none.
Effective_AsSent(p, patch) == patch.audience
Effective(p, patch) ==
    IF patch.audience = Unsent THEN polls[p].audience ELSE Resolved(patch.audience)

UpdateLock(w) ==
    /\ At(w, "update_lock")
    /\ LET p == request[w].poll
           patch == request[w].patch
       IN  /\ ~Locked(p)
           /\ \/ /\ StillEditable(p)
                 /\ Goto(w, [pc |-> "update_save", poll |-> p, patch |-> patch,
                             audience |-> Effective(p, patch)])
              \/ ~StillEditable(p) /\ Finish(w)
    /\ UNCHANGED <<day, polls, ballots, audiences>>

\* A start sent alone keeps the end date: the duration is what is left of it.
NewOpens(p, patch) == IF patch.start = Unsent THEN polls[p].opens ELSE patch.start
NewCloses(p, patch) ==
    IF patch.duration = Unsent THEN polls[p].closes
    ELSE NewOpens(p, patch) + patch.duration

\* The rules are rebuilt when the audience or a criterion is sent: none with
\* a saved audience, otherwise the criteria sent and the allowed voters kept.
NewRules_Rebuilt(p, patch, a) ==
    IF patch.audience = Unsent /\ patch.inline = "unsent" THEN polls[p].rules
    ELSE {c \in Criteria : a = NoAudience /\ c = "inline" /\ patch.inline = "given"}
NewRules_UnlessSent(p, patch, a) ==
    IF patch.inline = "unsent" THEN polls[p].rules
    ELSE {c \in Criteria :
            /\ a = NoAudience
            /\ c = "inline" => patch.inline = "given"
            /\ c = "legacy" => "legacy" \in polls[p].rules}
NewRules(p, patch, a) ==
    IF patch.audience = Unsent /\ patch.inline = "unsent" THEN polls[p].rules
    ELSE {c \in Criteria :
            /\ a = NoAudience
            /\ c = "inline" => patch.inline = "given"
            /\ c = "legacy" => "legacy" \in polls[p].rules}

UpdateSave(w) ==
    /\ At(w, "update_save")
    /\ LET p == request[w].poll
           patch == request[w].patch
           a == request[w].audience
       IN  polls' = [polls EXCEPT ![p] =
              [status |-> @.status, opens |-> NewOpens(p, patch),
               closes |-> NewCloses(p, patch),
               max |-> IF patch.max = Unsent THEN @.max ELSE patch.max,
               generation |-> IF patch.options THEN @.generation + 1
                              ELSE @.generation,
               audience |-> a, rules |-> NewRules(p, patch, a)]]
    /\ Finish(w)
    /\ UNCHANGED <<day, ballots, audiences>>

-----------------------------------------------------------------------------
(***************************************************************************)
(* Voting.  The options a client sends may be those of a list that an edit *)
(* has replaced since the client read it.                                  *)
(***************************************************************************)
OptionsValid_AnyOfPoll(p, b) == b.generation \in 1..polls[p].generation
OptionsValid(p, b) == b.generation = polls[p].generation

Admissible(p, b) ==
    /\ polls[p].status = "live"
    /\ InWindow(p)
    /\ ~HasVoted(p, b.voter)
    /\ IsInAudience(p, b.voter)
    /\ Cardinality(b.choice) <= polls[p].max
    /\ OptionsValid(p, b)

VoteLock(w, p) ==
    /\ At(w, "idle")
    /\ ~Locked(p)
    /\ \E u \in Members, choice \in (SUBSET Choices) \ {{}}, g \in 1..polls[p].generation :
          LET b == [voter |-> u, generation |-> g, choice |-> choice]
          IN  /\ Admissible(p, b)
              /\ Goto(w, [pc |-> "vote_save", poll |-> p, ballot |-> b])
    /\ UNCHANGED <<day, polls, ballots, audiences>>

VoteSave(w) ==
    /\ At(w, "vote_save")
    /\ ballots' = [ballots EXCEPT ![request[w].poll] = Append(@, request[w].ballot)]
    /\ Finish(w)
    /\ UNCHANGED <<day, polls, audiences>>

-----------------------------------------------------------------------------
(***************************************************************************)
(* Closing and reopening: a soft delete or its undoing, by what was loaded *)
(***************************************************************************)
ToggleLoad(w, p) ==
    /\ At(w, "idle")
    /\ polls[p].status # "absent"
    /\ Goto(w, [pc |-> "toggle_save", poll |-> p, loaded |-> polls[p].status])
    /\ UNCHANGED <<day, polls, ballots, audiences>>

ToggleSave(w) ==
    /\ At(w, "toggle_save")
    /\ ~Locked(request[w].poll)
    /\ polls' = [polls EXCEPT ![request[w].poll].status =
                    IF request[w].loaded = "live" THEN "closed" ELSE "live"]
    /\ Finish(w)
    /\ UNCHANGED <<day, ballots, audiences>>

-----------------------------------------------------------------------------
(***************************************************************************)
(* Saved audiences: editing the entries, and deleting one that no active   *)
(* poll refers to.                                                         *)
(***************************************************************************)
EditEntries(a) ==
    /\ audiences[a].live
    /\ \E us \in SUBSET Members :
          \/ audiences' = [audiences EXCEPT ![a].members = @ \cup us]
          \/ audiences' = [audiences EXCEPT ![a].members = @ \ us]
    /\ UNCHANGED <<day, polls, ballots, request>>

AudienceDetect(w, a) ==
    /\ At(w, "idle")
    /\ audiences[a].live
    /\ ActivePolls(a) = {}
    /\ Goto(w, [pc |-> "audience_delete", audience |-> a])
    /\ UNCHANGED <<day, polls, ballots, audiences>>

AudienceDelete(w) ==
    /\ At(w, "audience_delete")
    /\ audiences' = [audiences EXCEPT ![request[w].audience].live = FALSE]
    /\ Finish(w)
    /\ UNCHANGED <<day, polls, ballots>>

Tick ==
    /\ day < LastDay
    /\ day' = day + 1
    /\ UNCHANGED <<polls, ballots, audiences, request>>

-----------------------------------------------------------------------------
Worker(w) ==
    \/ \E p \in Polls :
          \/ CreateValidate(w, p)
          \/ UpdateAuthorize(w, p)
          \/ VoteLock(w, p)
          \/ ToggleLoad(w, p)
    \/ \E a \in Audiences : AudienceDetect(w, a)
    \/ CreateResolve(w)
    \/ CreateSave(w)
    \/ UpdateLock(w)
    \/ UpdateSave(w)
    \/ VoteSave(w)
    \/ ToggleSave(w)
    \/ AudienceDelete(w)

Next ==
    \/ \E w \in Workers : Worker(w)
    \/ \E a \in Audiences : EditEntries(a)
    \/ Tick

Spec == Init /\ [][Next]_vars

-----------------------------------------------------------------------------
(***************************************************************************)
(* What holds                                                              *)
(***************************************************************************)
\* Every ballot names options that are still on the poll and no more of them
\* than it allows: what the row lock of PollService::vote and updatePoll is
\* for (PollService.php:179-189, 373-381).
BallotsCurrent ==
    \A p \in Polls : \A i \in DOMAIN ballots[p] :
        /\ ballots[p][i].generation = polls[p].generation
        /\ Cardinality(ballots[p][i].choice) <= polls[p].max

\* No member has two ballots in one poll, though poll_votes has no unique key.
OneBallotEach ==
    \A p \in Polls : \A i, j \in DOMAIN ballots[p] :
        ballots[p][i].voter = ballots[p][j].voter => i = j

\* What an edit may change of a poll.
TermsOf(poll) == [poll EXCEPT !.status = "live"]

\* A poll that has a ballot keeps its window, options and audience
\* ("once any vote lands, the poll is immutable", UpdatePollRequest.php:71).
FrozenByVotes ==
    [][\A p \in Polls : ballots[p] # <<>> => TermsOf(polls'[p]) = TermsOf(polls[p])]_vars

\* A poll gated by a saved audience has no rules of its own, so that the
\* audience shown is the one enforced (PollService.php:151-156, 290-294).
Exclusive == \A p \in Polls : polls[p].audience # NoAudience => polls[p].rules = {}

\* An edit drops the allowed voters of an old poll only for a saved audience
\* (PollService.php:302-321).
LegacyKept ==
    [][\A p \in Polls : "legacy" \in polls[p].rules =>
          "legacy" \in polls'[p].rules \/ polls'[p].audience # NoAudience]_vars

\* The life of the polls is that of a ballot box per poll.
Box == INSTANCE BallotBox WITH
          terms <- [p \in Polls |-> TermsOf(polls[p])],
          cast <- ballots,
          open <- [p \in Polls |-> polls[p].status = "live"]
ImplementsBox == Box!Spec

=============================================================================
