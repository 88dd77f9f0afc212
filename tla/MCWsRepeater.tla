----------------------------- MODULE MCWsRepeater -----------------------------
(***************************************************************************)
(* WsRepeater on small instances.                                          *)
(***************************************************************************)
EXTENDS WsRepeater

CONSTANTS p1, p2, t1    \* two ws:// connections and one to a wss:// target

Setup(can_open, tabs_opened, tabs_closed, targets, clicks, served_frames) ==
    [conns |-> can_open, opened |-> tabs_opened, closes |-> tabs_closed,
     choices |-> targets, sends |-> clicks, frames |-> served_frames]

\* Two frames in both directions of one connection while tabs come and go, and two
\* connections of which one takes the place of the other.
SafetySetups ==
    {Setup({p1}, 2, 1, 1, 1, 2), Setup({t1}, 2, 1, 0, 2, 1), Setup({p1, t1}, 2, 0, 1, 1, 0)}

\* A frame each way while a tab closes before or behind the one that is connected; a
\* captured tunnel as target, also while a tab closes; two connections of one tab.
LivenessSetups ==
    {Setup({p1}, 2, 1, 0, 1, 1), Setup({p1}, 1, 0, 2, 1, 1), Setup({p1}, 2, 1, 1, 0, 0),
     Setup({p1, p2}, 1, 0, 0, 1, 0)}

ClosedTabSetups == {Setup({p1}, 3, 1, 0, 1, 0)}
=============================================================================
