------------------------------ MODULE MCWsTunnel ------------------------------
(***************************************************************************)
(* WsTunnel on small instances, and a claim of a comment that the code     *)
(* does not keep.                                                          *)
(***************************************************************************)
EXTENDS WsTunnel

CONSTANT t1     \* the only tunnel

\* A tunnel whose client sends c frames and whose server sends s, next to a repeater
\* that sends r.
Tunnel(tls, c, s, r, ops, edits) ==
    [tls |-> tls, ops |-> ops, edits |-> edits, repeats |-> r,
     load |-> [t \in {t1} \X {"c2s", "s2c"} |-> IF t[2] = "c2s" THEN c ELSE s]]

\* One frame each way, where the two threads meet in the queue and in the windows; two
\* frames one way, for order and loss, and one of the repeater, which fills a history
\* that holds two; and a frame of every kind.
SafetySetups ==
    {Tunnel({t1}, 1, 1, 0, {"data"}, {"data"}), Tunnel({}, 0, 2, 1, {"data"}, {"data"}),
     Tunnel({t1}, 0, 1, 0, Ops, {"data", "close"}), Tunnel({}, 0, 1, 0, Ops, {"data", "close"})}

LivenessSetups == {Tunnel({t1}, 0, 1, 0, {"data", "ping", "close"}, {"data"})}

OffSetups == {Tunnel({t1}, 0, 1, 0, {"data"}, {"data"})}

\* ui/websocket/intercept.rs:79: "If turned OFF, flush any pending frames in queue so
\* proxy threads unblock".  A thread that waits while the toggle is off stops waiting,
\* unless the toggle is turned on again.
OffUnblocksThreads ==
    \A t \in Threads : pc[t] = "recv" /\ ~enabled ~> pc[t] # "recv" \/ enabled
=============================================================================
