--------------------------- MODULE MCPollAudience ---------------------------
(* An instance of PollAudience for TLC.                                    *)
EXTENDS PollAudience, TLC

CONSTANTS u, v, gender, country, x, y

MCUsers == {u, v}
MCCriteria == {gender, country}
MCValues == {x, y}

\* A year is two units, so that ages with a fraction occur.
Ask(g, c) == (gender :> g) @@ (country :> c)
MCDemographics ==
    [min : {Nothing}, max : {Nothing},
     rules : {Ask({}, {}), Ask({x}, {}), Ask({x}, {x, y})}]
    \cup [min : {DefaultMin, 2}, max : {Nothing, 3}, rules : {Ask({}, {})}]
    \cup [min : {Nothing}, max : {2, DefaultMax}, rules : {Ask({}, {x})}]
MCProfiles ==
    {[birth |-> -5, answers |-> Ask(g, c)] : g \in {x, Nothing}, c \in {x, y}}
    \cup {[birth |-> Nothing, answers |-> Ask(x, x)],
          [birth |-> -3, answers |-> Ask(y, x)],
          [birth |-> 1, answers |-> Ask(x, x)]}
=============================================================================
