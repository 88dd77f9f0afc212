---------------------------- MODULE InterceptGate ----------------------------
(***************************************************************************)
(* What an interceptor promises, independent of threads, queues and        *)
(* windows: an item (a request, a WebSocket frame) that was put on hold    *)
(* leaves the machine only after the user approved it, and never once the  *)
(* user rejected it.  HttpIntercept and WsTunnel implement it.             *)
(***************************************************************************)
CONSTANT Items

VARIABLE stage          \* how far each item has come

Stages == {"expected", "arrived", "held", "approved", "rejected", "sent", "refused"}

Move(R, from, to) ==
    /\ R # {}
    /\ \A r \in R : stage[r] = from
    /\ stage' = [r \in Items |-> IF r \in R THEN to ELSE stage[r]]

Init == stage = [r \in Items |-> "expected"]

Arrive(r)  == Move({r}, "expected", "arrived")
Pass(r)    == Move({r}, "arrived", "sent")       \* the gate is open for r
Hold(r)    == Move({r}, "arrived", "held")
Approve(R) == Move(R, "held", "approved")        \* one click may decide many
Reject(R)  == Move(R, "held", "rejected")
Send(r)    == Move({r}, "approved", "sent")
Refuse(r)  == Move({r}, "rejected", "refused")

Next ==
    \/ \E r \in Items : Arrive(r) \/ Pass(r) \/ Hold(r) \/ Send(r) \/ Refuse(r)
    \/ \E R \in SUBSET Items : Approve(R) \/ Reject(R)

Spec == Init /\ [][Next]_stage

TypeOK == stage \in [Items -> Stages]

\* Every decision of the user is carried out in the end.
DecisionsAreCarriedOut ==
    \A r \in Items : /\ stage[r] = "approved" ~> stage[r] = "sent"
                     /\ stage[r] = "rejected" ~> stage[r] = "refused"
=============================================================================
