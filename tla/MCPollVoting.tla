---------------------------- MODULE MCPollVoting ----------------------------
(***************************************************************************)
(* Instances of PollVoting for TLC: one poll, one saved audience and the   *)
(* requests that clients send in a run.                                    *)
(***************************************************************************)
EXTENDS PollVoting, TLC

CONSTANTS poll, list

MCPolls == {poll}
MCAudiences == {list}

NoPatch == [start |-> Unsent, duration |-> Unsent, max |-> Unsent,
            options |-> FALSE, audience |-> Unsent, inline |-> "unsent"]

NewPoll(start, a, inline) ==
    [start |-> start, duration |-> 1, max |-> 1, audience |-> a, inline |-> inline]

\* A poll open to all, one by criteria, one by a saved audience.
MCPayloads ==
    {NewPoll(0, NoAudience, "empty"), NewPoll(1, NoAudience, "given"),
     NewPoll(1, list, "empty")}

\* New options, a longer window, and each way to change the audience.
MCPatches ==
    {[NoPatch EXCEPT !.options = TRUE, !.max = 2],
     [NoPatch EXCEPT !.start = 1, !.duration = 2],
     [NoPatch EXCEPT !.audience = list],
     [NoPatch EXCEPT !.audience = NoAudience, !.inline = "given"],
     [NoPatch EXCEPT !.inline = "given"]}

Alike == Permutations(Workers)
=============================================================================
