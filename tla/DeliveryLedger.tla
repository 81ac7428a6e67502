--------------------------- MODULE DeliveryLedger ---------------------------
(***************************************************************************)
(* What the delivery of one subject's notifications promises: each member  *)
(* is decided once, and is notified then or never.  A retry after settings *)
(* or preferences have changed replays nothing.                            *)
(***************************************************************************)
EXTENDS Naturals

CONSTANT Users      \* user ids

VARIABLES
    decided,        \* users with a row in the delivery ledger
    received        \* notifications each user was sent

Init ==
    /\ decided = {}
    /\ received = [u \in Users |-> 0]

Decide(u) ==
    /\ u \notin decided
    /\ decided' = decided \cup {u}
    /\ received' \in {received, [received EXCEPT ![u] = 1]}

Next == \E u \in Users : Decide(u)

Spec == Init /\ [][Next]_<<decided, received>>
=============================================================================
