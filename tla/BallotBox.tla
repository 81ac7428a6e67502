------------------------------ MODULE BallotBox ------------------------------
(***************************************************************************)
(* What a poll promises to those who vote in it, with no workers, locks or *)
(* requests: its terms can change only while the box is empty, a ballot is *)
(* cast under the terms in force, once per voter, in an open poll, and     *)
(* ballots are never altered or removed.                                   *)
(***************************************************************************)
EXTENDS Naturals, Sequences, FiniteSets

CONSTANTS Polls, Members, Matching, Listed, Choices, NoAudience

VARIABLES
    terms,  \* window, options, limits and audience of each poll
    cast,   \* the ballots of each poll, in order
    open    \* whether each poll takes ballots

boxVars == <<terms, cast, open>>

Init ==
    /\ cast = [p \in Polls |-> <<>>]
    /\ \A p \in Polls : open[p] => terms[p].generation > 0

\* A poll without a saved audience admits whom its rules admit; the entries
\* of a saved audience are the audience owner's to change at any time.
Admitted(t, u) ==
    t.audience = NoAudience =>
        IF "legacy" \in t.rules THEN u \in Listed
        ELSE "inline" \in t.rules => u \in Matching

\* The terms are set while the box is empty, when the poll opens first or later.
SetTerms(p) ==
    /\ cast[p] = <<>>
    /\ open[p] \/ terms[p].generation = 0
    /\ \A q \in Polls \ {p} : terms'[q] = terms[q]
    /\ terms'[p].generation > 0
    /\ open' = [open EXCEPT ![p] = TRUE]
    /\ UNCHANGED cast

OpenOrClose(p) ==
    /\ terms[p].generation > 0
    /\ open' = [open EXCEPT ![p] = ~@]
    /\ UNCHANGED <<terms, cast>>

Cast(p) ==
    /\ open[p]
    /\ \E u \in Members, choice \in (SUBSET Choices) \ {{}} :
          /\ \A i \in DOMAIN cast[p] : cast[p][i].voter # u
          /\ Admitted(terms[p], u)
          /\ Cardinality(choice) <= terms[p].max
          /\ cast' = [cast EXCEPT ![p] =
                Append(@, [voter |-> u, generation |-> terms[p].generation,
                           choice |-> choice])]
    /\ UNCHANGED <<terms, open>>

Next == \E p \in Polls : SetTerms(p) \/ OpenOrClose(p) \/ Cast(p)

Spec == Init /\ [][Next]_boxVars
=============================================================================
