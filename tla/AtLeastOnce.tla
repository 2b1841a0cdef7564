---------------------------- MODULE AtLeastOnce ----------------------------
(***************************************************************************)
(* What QoS 1 publishing promises the application: a publish is refused,   *)
(* and then its message is never delivered, or accepted, and then it is    *)
(* delivered one or more times and settled only after a delivery.          *)
(***************************************************************************)
CONSTANT Msgs

VARIABLES status, delivered

vars == <<status, delivered>>

Init ==
    /\ status = [m \in Msgs |-> "new"]
    /\ delivered = {}

Decide(m, verdict) ==
    /\ status[m] = "new"
    /\ status' = [status EXCEPT ![m] = verdict]
    /\ UNCHANGED delivered

Accept(m) == Decide(m, "pending")

Refuse(m) == Decide(m, "refused")

\* A second delivery of the same message changes nothing.
Deliver(m) ==
    /\ status[m] \in {"pending", "settled"}
    /\ delivered' = delivered \cup {m}
    /\ UNCHANGED status

Settle(m) ==
    /\ status[m] = "pending"
    /\ m \in delivered
    /\ status' = [status EXCEPT ![m] = "settled"]
    /\ UNCHANGED delivered

Next == \E m \in Msgs : Accept(m) \/ Refuse(m) \/ Deliver(m) \/ Settle(m)

Spec == Init /\ [][Next]_vars
=============================================================================
