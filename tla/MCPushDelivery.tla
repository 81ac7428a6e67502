-------------------------- MODULE MCPushDelivery --------------------------
(***************************************************************************)
(* An instance of PushDelivery for TLC: two installations, two tokens and  *)
(* two users with a session each.                                          *)
(***************************************************************************)
EXTENDS PushDelivery

CONSTANTS i1, i2, t1, t2, u1, u2

MCOwner == [s \in Sessions |-> s]

\* Two apps that may exchange their tokens; one device changes hands.
MCRequests ==
    {[at |-> i, token |-> t, session |-> IF i = i1 /\ t = t1 THEN u2 ELSE u1] :
        i \in {i1, i2}, t \in {t1, t2}}
=============================================================================
