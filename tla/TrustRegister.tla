---------------------------- MODULE TrustRegister ----------------------------
(***************************************************************************)
(* What peer verification promises, without requests, rows or counters: a  *)
(* register of who vouches for whom.  A member vouches and withdraws in    *)
(* one step, and the members trusted at any time are exactly the first     *)
(* registrants and those enough others vouch for.                          *)
(***************************************************************************)
EXTENDS Integers, FiniteSets

CONSTANTS Users, Registrants, MinVerifiers, MaxGiven

VARIABLES
    vouches,    \* pairs <<v, u>>: v vouches for u
    past,       \* every pair that ever was in vouches
    trusted     \* the members who may vote, create polls and vouch

registerVars == <<vouches, past, trusted>>

VouchersIn(V, u) == {v \in Users : <<v, u>> \in V}

\* The members trusted on the word of the pairs in V.
TrustedBy(V) ==
    Registrants
    \cup {u \in Users : Cardinality(VouchersIn(V, u)) >= MinVerifiers}

Init == vouches = {} /\ past = {} /\ trusted = Registrants

\* A trusted member vouches for someone new, who never vouched for them.
Vouch(v, u) ==
    /\ v \in trusted
    /\ u # v
    /\ <<v, u>> \notin vouches
    /\ <<u, v>> \notin past
    /\ Cardinality({x \in Users : <<v, x>> \in vouches}) < MaxGiven
    /\ vouches' = vouches \cup {<<v, u>>}
    /\ past' = past \cup {<<v, u>>}
    /\ trusted' = TrustedBy(vouches')

Withdraw(v, u) ==
    /\ <<v, u>> \in vouches
    /\ vouches' = vouches \ {<<v, u>>}
    /\ trusted' = TrustedBy(vouches')
    /\ UNCHANGED past

Next == \E v, u \in Users : Vouch(v, u) \/ Withdraw(v, u)

Spec == Init /\ [][Next]_registerVars
=============================================================================
