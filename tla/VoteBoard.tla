------------------------------ MODULE VoteBoard ------------------------------
(***************************************************************************)
(* What voting on a feature request promises, with no rows, locks,         *)
(* retries or caches: a click takes effect at most once and at one moment, *)
(* against the vote its member has at that moment, and is answered by what *)
(* it did; a member's vote changes in no other way but by being withdrawn. *)
(***************************************************************************)
CONSTANTS Members, Workers, Direction, NoVote, NoClick

VARIABLES
    vote,   \* the vote of each member
    click   \* the click each worker is handling, with what it did

boardVars == <<vote, click>>

Init ==
    /\ vote = [m \in Members |-> NoVote]
    /\ click = [w \in Workers |-> NoClick]

Come(w) ==
    /\ click[w] = NoClick
    /\ \E m \in Members, d \in Direction :
          click' = [click EXCEPT ![w] = [member |-> m, direction |-> d,
                                         outcome |-> "pending"]]
    /\ UNCHANGED vote

\* The same direction takes the vote back; the other one replaces it.
Act(w) ==
    \E m \in Members, d \in Direction :
        LET done(outcome, v) ==
                /\ click' = [click EXCEPT ![w] = [member |-> m, direction |-> d,
                                                  outcome |-> outcome]]
                /\ vote' = [vote EXCEPT ![m] = v]
        IN  /\ click[w] = [member |-> m, direction |-> d, outcome |-> "pending"]
            /\ \/ vote[m] = NoVote /\ done("added", d)
               \/ vote[m] = d /\ done("removed", NoVote)
               \/ vote[m] \notin {NoVote, d} /\ done("switched", d)

\* Answered, refused or lost.
Leave(w) ==
    /\ click' = [click EXCEPT ![w] = NoClick]
    /\ UNCHANGED vote

Withdraw(m) ==
    /\ vote' = [vote EXCEPT ![m] = NoVote]
    /\ UNCHANGED click

Next ==
    \/ \E w \in Workers : Come(w) \/ Act(w) \/ Leave(w)
    \/ \E m \in Members : Withdraw(m)

Spec == Init /\ [][Next]_boardVars
=============================================================================
