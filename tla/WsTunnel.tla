------------------------------- MODULE WsTunnel -------------------------------
(***************************************************************************)
(* WebSocket tunnels with their interceptor: the two relay threads of      *)
(* every tunnel (proxy/websocket/tunnel.rs, the TLS and the plain variant),*)
(* check_and_intercept_frame (proxy/websocket/intercept.rs), the shared    *)
(* state of proxy/store.rs they use, the interceptor window                *)
(* (ui/websocket/intercept.rs), the buttons of the history window that     *)
(* close a tunnel and clear the history (ui/websocket/history/mod.rs), and *)
(* the repeater window where it writes into that history.                  *)
(*                                                                         *)
(* A frame is its kind, its position in what its sender sent, whether it   *)
(* is masked and who made it; payloads and fragments are abstracted away.  *)
(* A queued frame is identified by its direction and position, standing    *)
(* for the fresh id the code draws from NEXT_WS_FRAME_ID.                  *)
(***************************************************************************)
EXTENDS Naturals, Sequences

CONSTANTS
    Conns,        \* tunnels
    MaxFrames,    \* bound: frames a peer sends
    Capacity,     \* MAX_STORE_ENTRIES, frames the history holds (5000 in the code)
    Drained,      \* frames a full history gives up at once (1000 in the code)
    Setups        \* what the tunnels start from, see SetupsAssumption

Ops == {"data", "ping", "pong", "close"}

Threads == Conns \X {"c2s", "s2c"}

ASSUME FramesAssumption == MaxFrames \in Nat \ {0}
ASSUME NamesAssumption  == {"idle", "flush", "clear", "none"} \cap Conns = {}
ASSUME CapacityAssumption ==
    Capacity \in Nat /\ Drained \in Nat /\ 0 < Drained /\ Drained <= Capacity

\* tls: the tunnels run by run_tls_websocket_tunnel_loop, the others are run by
\* run_plain_websocket_tunnel_loop; load: how many frames each peer sends at most;
\* ops: the kinds of frame they send; edits: those the user turns a held frame into;
\* repeats: how many frames the user sends from the repeater at most.
ASSUME SetupsAssumption ==
    Setups \subseteq [tls : SUBSET Conns, load : [Threads -> 0 .. MaxFrames],
                      ops : SUBSET Ops, edits : SUBSET Ops, repeats : 0 .. MaxFrames]

Slots   == Threads \X (1 .. MaxFrames)
Frames  == [op : Ops, n : 1 .. MaxFrames, masked : BOOLEAN, by : {"peer", "proxy"}]

\* A frame of the repeater is shown under the tunnel whose URL it was sent to, or,
\* without one, under connection id 0, here "none".
Entries == [dir : Threads, op : Ops, n : 1 .. MaxFrames, by : {"peer", "proxy"}]
             \cup [dir : (Conns \cup {"none"}) \X {"c2s"}, op : Ops, n : 1 .. MaxFrames,
                   by : {"repeater"}]

\* The other direction of the same tunnel.
Reverse(t) == <<t[1], IF t[2] = "c2s" THEN "s2c" ELSE "c2s">>

VARIABLES
    setup,       \* the element of Setups this run of the program is in
    \* the peers: what the sender of direction t sent, and whether its socket is gone
    sent, gone,
    \* what was written to the socket at the far end of direction t
    wire,
    \* relay thread t: place, frames read so far, the frame in hand, its channel
    pc, taken, cur, responder,
    \* proxy/store.rs
    flag,        \* WS_INTERCEPT_ENABLED
    scope,       \* tunnels whose host is_ws_host_in_scope accepts
    pending,     \* PENDING_WS_FRAMES
    forced,      \* FORCED_CLOSED_WS_CONNS
    status,      \* WsConnection.status, "unlisted" once the history was cleared
    logged,      \* WS_FRAMES, oldest first
    \* ui/websocket/intercept.rs and the history window
    enabled,     \* WsInterceptState.enabled, the label of the toggle
    ui,          \* "idle", "flush", "clear", or the tunnel being closed
    \* ui/websocket/repeater.rs
    repeated,    \* frames the user sent from the repeater
    \* history: what the user decided about a held frame, and whether a write to the
    \* far end of direction t ever failed
    verdict, failed

peers   == <<setup, sent, gone>>
thread  == <<pc, taken, cur, responder>>
gate    == <<flag, scope, pending>>
conns   == <<forced, status>>
window  == <<enabled, ui, repeated>>
links   == <<wire, failed>>
vars    == <<peers, links, thread, gate, conns, logged, window, verdict>>

Places    == {"loop", "read", "eof", "close", "log_control", "pong", "log_pong", "relay_close",
              "gate", "push", "recv", "log", "write", "done"}
Decisions == {"Forward", "Drop"}

TypeOK ==
    /\ setup \in Setups
    /\ sent \in [Threads -> Seq(Frames)]
    /\ \A t \in Threads : Len(sent[t]) <= MaxFrames
    /\ gone \in [Threads -> BOOLEAN]
    /\ wire \in [Threads -> Seq(Frames)]
    /\ pc \in [Threads -> Places]
    /\ taken \in [Threads -> 0 .. MaxFrames]
    /\ cur \in [Threads -> Frames]
    /\ responder \in [Threads -> {"none", "open", "Drop"} \cup Ops]
    /\ flag \in BOOLEAN
    /\ scope \in SUBSET Conns
    /\ pending \in SUBSET Slots
    /\ forced \in SUBSET Conns
    /\ status \in [Conns -> {"Active", "Manual", "EOF", "Closed", "unlisted"}]
    /\ logged \in Seq(Entries)
    /\ enabled \in BOOLEAN
    /\ ui \in {"idle", "flush", "clear"} \cup Conns
    /\ repeated \in 0 .. MaxFrames
    /\ verdict \in [Slots -> {"none"} \cup Decisions]
    /\ failed \in [Threads -> BOOLEAN]

Init ==
    /\ setup \in Setups
    /\ sent = [t \in Threads |-> <<>>]
    /\ gone = [t \in Threads |-> FALSE]
    /\ wire = [t \in Threads |-> <<>>]
    /\ pc = [t \in Threads |-> "loop"]
    /\ taken = [t \in Threads |-> 0]
    /\ cur = [t \in Threads |-> [op |-> "data", n |-> 1, masked |-> FALSE, by |-> "peer"]]
    /\ responder = [t \in Threads |-> "none"]
    /\ flag = FALSE             \* "DEFAULT OFF!"
    /\ scope = Conns            \* no scope host: everything is in scope
    /\ pending = {} /\ forced = {}
    /\ status = [c \in Conns |-> "Active"]
    /\ logged = <<>>
    /\ enabled = FALSE
    /\ ui = "idle" /\ repeated = 0
    /\ verdict = [s \in Slots |-> "none"]
    /\ failed = [t \in Threads |-> FALSE]

-----------------------------------------------------------------------------
(* The peers *)

\* Browsers mask what they send, servers do not.
PeerSends(t) ==
    /\ ~gone[t] /\ Len(sent[t]) < setup.load[t]
    /\ \E op \in setup.ops :
         sent' = [sent EXCEPT ![t] = Append(@, [op |-> op, n |-> Len(@) + 1,
                                                masked |-> t[2] = "c2s", by |-> "peer"])]
    /\ UNCHANGED <<setup, gone, links, thread, gate, conns, logged, window, verdict>>

PeerGoes(t) ==
    /\ ~gone[t]
    /\ gone' = [gone EXCEPT ![t] = TRUE]
    /\ UNCHANGED <<setup, sent, links, thread, gate, conns, logged, window, verdict>>

-----------------------------------------------------------------------------
(* The relay threads *)

Goto(t, place) == pc' = [pc EXCEPT ![t] = place]

\* Broken: identifies a held frame by the one after it.
NextSlot(t) == <<t, cur[t].n + 1>>

SlotOf(t) == <<t, cur[t].n>>

\* push_ws_frame: a full history first gives up its oldest frames.
Log(dir, op, n, by) ==
    logged' = Append(IF Len(logged) >= Capacity THEN SubSeq(logged, Drained + 1, Len(logged))
                                                ELSE logged,
                     [dir |-> dir, op |-> op, n |-> n, by |-> by])

\* update_ws_conn_status: nothing happens to a connection that is not listed.
SetStatus(c, new) ==
    status' = [status EXCEPT ![c] = IF @ = "unlisted" THEN @ ELSE new]

InScope(c) == c \in scope \/ status[c] = "unlisted"

\* Broken: only the thread that reads the client looks at FORCED_CLOSED_WS_CONNS.
ClientSideChecks(t) == t[2] = "c2s"

\* The loop over the server of a plain tunnel never looks at FORCED_CLOSED_WS_CONNS.
ChecksForcedClose(t) == t[1] \in setup.tls \/ t[2] = "c2s"
SeesForcedClose(t) == ChecksForcedClose(t) /\ t[1] \in forced

Deliver(t, f) ==
    /\ ~gone[Reverse(t)]
    /\ wire' = [wire EXCEPT ![t] = Append(@, f)]
    /\ UNCHANGED failed

\* A write fails when the peer is gone, or when it does not read for the 200 ms of
\* the write timeout.
Fail(t) == failed' = [failed EXCEPT ![t] = TRUE] /\ UNCHANGED wire

Write(t, f) == Deliver(t, f) \/ Fail(t)

\* Top of the loop; a read that timed out comes back here through the same check.
LoopTop(t) ==
    /\ pc[t] = "loop"
    /\ Goto(t, IF SeesForcedClose(t) THEN "done" ELSE "read")
    /\ UNCHANGED <<peers, links, taken, cur, responder, gate, conns, logged, window, verdict>>

ReadTimesOut(t) ==
    /\ pc[t] = "read"
    /\ taken[t] = Len(sent[t]) /\ ~gone[t]
    /\ Goto(t, "loop")
    /\ UNCHANGED <<peers, links, taken, cur, responder, gate, conns, logged, window, verdict>>

\* Broken: hands control frames to the interceptor like any other.
ReadFrameAllToGate(t) ==
    /\ pc[t] = "read"
    /\ taken[t] < Len(sent[t])
    /\ taken' = [taken EXCEPT ![t] = @ + 1]
    /\ cur' = [cur EXCEPT ![t] = sent[t][taken[t] + 1]]
    /\ Goto(t, "gate")
    /\ UNCHANGED <<peers, links, responder, gate, conns, logged, window, verdict>>

\* The loop over the server of a plain tunnel has no branch for pongs.
LogsPong(t) == t[1] \in setup.tls \/ t[2] = "c2s"

\* read_ws_frame returned a frame.
ReadFrame(t) ==
    /\ pc[t] = "read"
    /\ taken[t] < Len(sent[t])
    /\ taken' = [taken EXCEPT ![t] = @ + 1]
    /\ cur' = [cur EXCEPT ![t] = sent[t][taken[t] + 1]]
    /\ Goto(t, CASE cur'[t].op = "ping" -> "log_control"
                 [] cur'[t].op = "pong" -> IF LogsPong(t) THEN "log_control" ELSE "write"
                 [] cur'[t].op = "close" -> "close"
                 [] cur'[t].op = "data" -> "gate")
    /\ UNCHANGED <<peers, links, responder, gate, conns, logged, window, verdict>>

\* End of stream, or a reset that discards what was not read yet.  The status is
\* written only if the tunnel was not closed by hand, but test and write are two
\* steps, and the server side of a plain tunnel does not test.
ReadEof(t) ==
    /\ pc[t] = "read"
    /\ gone[t]
    /\ Goto(t, IF SeesForcedClose(t) THEN "done" ELSE "eof")
    /\ UNCHANGED <<peers, links, taken, cur, responder, gate, conns, logged, window, verdict>>

SetEofStatus(t) ==
    /\ pc[t] = "eof"
    /\ SetStatus(t[1], "EOF")
    /\ Goto(t, "done")
    /\ UNCHANGED <<peers, links, taken, cur, responder, gate, forced, logged, window, verdict>>

\* Broken: passes a close frame on without logging it.
SetCloseStatusUnlogged(t) ==
    /\ pc[t] = "close"
    /\ SetStatus(t[1], "Closed")
    /\ Goto(t, "relay_close")
    /\ UNCHANGED <<peers, links, taken, cur, responder, gate, forced, logged, window, verdict>>

\* A close frame: status, log, pass it on, leave.
SetCloseStatus(t) ==
    /\ pc[t] = "close"
    /\ SetStatus(t[1], "Closed")
    /\ Goto(t, "log_control")
    /\ UNCHANGED <<peers, links, taken, cur, responder, gate, forced, logged, window, verdict>>

\* Control frames are logged, never held, and passed on.  A ping of the server
\* is also answered by the proxy itself.
LogControl(t) ==
    /\ pc[t] = "log_control"
    /\ Log(t, cur[t].op, cur[t].n, "peer")
    /\ Goto(t, CASE cur[t].op = "close" -> "relay_close"
                 [] cur[t].op = "ping" /\ t[2] = "s2c" -> "pong"
                 [] OTHER -> "write")
    /\ UNCHANGED <<peers, links, taken, cur, responder, gate, conns, window, verdict>>

\* Broken: always answers on the socket it does not read, as plain tunnels do.
WritePongToClient(t) ==
    /\ pc[t] = "pong"
    /\ Write(t, [op |-> "pong", n |-> cur[t].n, masked |-> FALSE, by |-> "proxy"])
    /\ Goto(t, "log_pong")
    /\ UNCHANGED <<peers, taken, cur, responder, gate, conns, logged, window, verdict>>

\* build_pong_frame.  The TLS loop writes it to the server, the plain loop to
\* client_stream; write errors are ignored.
WritePong(t) ==
    /\ pc[t] = "pong"
    /\ Write(IF t[1] \in setup.tls THEN Reverse(t) ELSE t,
             [op |-> "pong", n |-> cur[t].n, masked |-> FALSE, by |-> "proxy"])
    /\ Goto(t, "log_pong")
    /\ UNCHANGED <<peers, taken, cur, responder, gate, conns, logged, window, verdict>>

LogPong(t) ==
    /\ pc[t] = "log_pong"
    /\ Log(<<t[1], "c2s">>, "pong", cur[t].n, "proxy")
    /\ Goto(t, "write")
    /\ UNCHANGED <<peers, links, taken, cur, responder, gate, conns, window, verdict>>

RelayClose(t) ==
    /\ pc[t] = "relay_close"
    /\ Write(t, cur[t])
    /\ Goto(t, "done")
    /\ UNCHANGED <<peers, taken, cur, responder, gate, conns, logged, window, verdict>>

\* check_and_intercept_frame: the test of flag and scope ...
CheckGate(t) ==
    /\ pc[t] = "gate"
    /\ Goto(t, IF flag /\ InScope(t[1]) THEN "push" ELSE "log")
    /\ UNCHANGED <<peers, links, taken, cur, responder, gate, conns, logged, window, verdict>>

\* ... and then, whatever became of the flag, the queue.
PushFrame(t) ==
    /\ pc[t] = "push"
    /\ pending' = pending \cup {SlotOf(t)}
    /\ responder' = [responder EXCEPT ![t] = "open"]
    /\ Goto(t, "recv")
    /\ UNCHANGED <<peers, links, taken, cur, flag, scope, conns, logged, window, verdict>>

\* Broken: takes a forwarded frame for a dropped one.
ReceiveForwardForgets(t) ==
    /\ pc[t] = "recv" /\ responder[t] \in Ops
    /\ responder' = [responder EXCEPT ![t] = "none"]
    /\ Goto(t, "loop")
    /\ UNCHANGED <<peers, links, taken, cur, gate, conns, logged, window, verdict>>

\* rx.recv() returned the frame that build_raw_frame made: of the kind the user
\* chose, and not masked.
ReceiveForward(t) ==
    /\ pc[t] = "recv" /\ responder[t] \in Ops
    /\ cur' = [cur EXCEPT ![t].masked = FALSE, ![t].op = responder[t]]
    /\ responder' = [responder EXCEPT ![t] = "none"]
    /\ Goto(t, "log")
    /\ UNCHANGED <<peers, links, taken, gate, conns, logged, window, verdict>>

\* Broken: sends the frame it held, whatever recv returned.
ReceiveDropForwards(t) ==
    /\ pc[t] = "recv" /\ responder[t] = "Drop"
    /\ responder' = [responder EXCEPT ![t] = "none"]
    /\ Goto(t, "log")
    /\ UNCHANGED <<peers, links, taken, cur, gate, conns, logged, window, verdict>>

\* rx.recv() returned None: back to the top of the loop.
ReceiveDrop(t) ==
    /\ pc[t] = "recv" /\ responder[t] = "Drop"
    /\ responder' = [responder EXCEPT ![t] = "none"]
    /\ Goto(t, "loop")
    /\ UNCHANGED <<peers, links, taken, cur, gate, conns, logged, window, verdict>>

\* What left the interceptor is logged, unless the user made a control frame of it.
LogData(t) ==
    /\ pc[t] = "log"
    /\ IF cur[t].op = "data" THEN Log(t, "data", cur[t].n, "peer") ELSE UNCHANGED logged
    /\ Goto(t, "write")
    /\ UNCHANGED <<peers, links, taken, cur, responder, gate, conns, window, verdict>>

\* Broken: takes a write that was slow for one that did nothing, and repeats it.
WriteFrameRetries(t) ==
    /\ pc[t] = "write"
    /\ Deliver(t, cur[t])
    /\ Goto(t, "loop") \/ Goto(t, "write")
    /\ UNCHANGED <<peers, taken, cur, responder, gate, conns, logged, window, verdict>>

\* An error ends the thread; a write into a dead socket may go unnoticed at first.
WriteFrame(t) ==
    /\ pc[t] = "write"
    /\ \/ Deliver(t, cur[t]) /\ Goto(t, "loop")
       \/ Fail(t) /\ Goto(t, "done")
       \/ Fail(t) /\ gone[Reverse(t)] /\ Goto(t, "loop")
    /\ UNCHANGED <<peers, taken, cur, responder, gate, conns, logged, window, verdict>>

-----------------------------------------------------------------------------
(* The windows *)

Decide(S, d) == verdict' = [s \in Slots |-> IF s \in S THEN d ELSE verdict[s]]

\* Broken: empties the queue but answers only the frames that are still in scope.
DrainInScope(answer, d) ==
    /\ pending' = {}
    /\ responder' = [t \in Threads |-> IF InScope(t[1]) /\ \E s \in pending : s[1] = t
                                         THEN answer ELSE responder[t]]
    /\ Decide(pending, d)

\* Every queued frame gets the same answer, under the lock of the queue.
Drain(answer, d) ==
    /\ pending' = {}
    /\ responder' = [t \in Threads |-> IF \E s \in pending : s[1] = t
                                         THEN answer ELSE responder[t]]
    /\ Decide(pending, d)

\* The toggle writes the flag; turning it off also forwards the queue, a little
\* later in the same frame.
ClickToggle ==
    /\ ui = "idle"
    /\ enabled' = ~enabled
    /\ flag' = ~enabled
    /\ ui' = IF enabled THEN "flush" ELSE "idle"
    /\ UNCHANGED <<peers, links, thread, scope, pending, conns, logged, repeated, verdict>>

Flush ==
    /\ ui = "flush"
    /\ Drain("data", "Forward")
    /\ ui' = "idle"
    /\ UNCHANGED <<peers, links, pc, taken, cur, flag, scope, conns, logged, enabled, repeated>>

\* Forward All, Drop All: the buttons exist only while the label says ON.
ClickForwardAll ==
    /\ ui = "idle" /\ enabled /\ pending # {}
    /\ Drain("data", "Forward")
    /\ UNCHANGED <<peers, links, pc, taken, cur, flag, scope, conns, logged, window>>

ClickDropAll ==
    /\ ui = "idle" /\ enabled /\ pending # {}
    /\ Drain("Drop", "Drop")
    /\ UNCHANGED <<peers, links, pc, taken, cur, flag, scope, conns, logged, window>>

\* The code removes the frame and then sends: one step here, since only this window
\* removes frames and the thread looks at nothing but its channel.
Answer(s, answer, d) ==
    /\ ui = "idle" /\ enabled
    /\ pending' = pending \ {s}
    /\ responder' = [responder EXCEPT ![s[1]] = answer]
    /\ Decide({s}, d)
    /\ UNCHANGED <<peers, links, pc, taken, cur, flag, scope, conns, logged, window>>

\* Forward Selected, perhaps as a frame of another kind; likewise only while ON.
ClickForward(s) ==
    /\ s \in pending
    /\ \E op \in setup.edits : Answer(s, op, "Forward")

\* Broken: removes the selected frame, but answers the other direction.
ClickDropWrongThread(s) ==
    /\ s \in pending /\ pc[Reverse(s[1])] = "recv"
    /\ ui = "idle" /\ enabled
    /\ pending' = pending \ {s}
    /\ responder' = [responder EXCEPT ![Reverse(s[1])] = "Drop"]
    /\ Decide({s}, "Drop")
    /\ UNCHANGED <<peers, links, pc, taken, cur, flag, scope, conns, logged, window>>

ClickDrop(s) ==
    /\ s \in pending
    /\ Answer(s, "Drop", "Drop")

\* Scope hosts are added and removed one by one: any set of tunnels may result.
ChangeScope ==
    /\ ui = "idle"
    /\ scope' \in SUBSET Conns
    /\ UNCHANGED <<peers, links, thread, flag, pending, conns, logged, window, verdict>>

\* close_ws_connection: two locks, one after the other.
ClickCloseTunnel(c) ==
    /\ ui = "idle"
    /\ status[c] = "Active"
    /\ forced' = forced \cup {c}
    /\ ui' = c
    /\ UNCHANGED <<peers, links, thread, gate, status, logged, enabled, repeated, verdict>>

SetManualStatus ==
    /\ ui \in Conns
    /\ SetStatus(ui, "Manual")
    /\ ui' = "idle"
    /\ UNCHANGED <<peers, links, thread, gate, forced, logged, enabled, repeated, verdict>>

\* clear_ws_history: the connections first, live ones too ...
ClickClearHistory ==
    /\ ui = "idle"
    /\ status' = [c \in Conns |-> "unlisted"]
    /\ ui' = "clear"
    /\ UNCHANGED <<peers, links, thread, gate, forced, logged, enabled, repeated, verdict>>

\* ... and then the frames.
ClearFrames ==
    /\ ui = "clear"
    /\ logged' = <<>>
    /\ ui' = "idle"
    /\ UNCHANGED <<peers, links, thread, gate, conns, enabled, repeated, verdict>>

\* Send Frame of the repeater: whatever became of the frame, it joins the history of
\* the listed tunnel c with the same URL, or of none.
ClickRepeaterSend(c) ==
    /\ ui = "idle" /\ repeated < setup.repeats
    /\ c # "none" => status[c] # "unlisted"
    /\ \E op \in setup.ops : Log(<<c, "c2s">>, op, repeated + 1, "repeater")
    /\ repeated' = repeated + 1
    /\ UNCHANGED <<peers, links, thread, gate, conns, enabled, ui, verdict>>

-----------------------------------------------------------------------------
RelayStep(t) ==
    \/ LoopTop(t) \/ ReadTimesOut(t) \/ ReadFrame(t) \/ ReadEof(t) \/ SetEofStatus(t)
    \/ SetCloseStatus(t) \/ LogControl(t) \/ WritePong(t) \/ LogPong(t) \/ RelayClose(t)
    \/ CheckGate(t) \/ PushFrame(t) \/ ReceiveForward(t) \/ ReceiveDrop(t) \/ LogData(t)
    \/ WriteFrame(t)

Click ==
    \/ ClickToggle \/ ClickForwardAll \/ ClickDropAll \/ ChangeScope \/ ClickClearHistory
    \/ \E s \in Slots : ClickForward(s) \/ ClickDrop(s)
    \/ \E c \in Conns : ClickCloseTunnel(c)
    \/ \E c \in Conns \cup {"none"} : ClickRepeaterSend(c)

\* What the windows do by themselves after a click.
Finish == Flush \/ SetManualStatus \/ ClearFrames

Next ==
    \/ \E t \in Threads : PeerSends(t) \/ PeerGoes(t) \/ RelayStep(t)
    \/ Click \/ Finish

Spec == Init /\ [][Next]_vars

\* The operating system schedules the relay threads, reads time out after 200 ms,
\* and a window finishes what a click started.  Peers and user owe nothing.
FairSpec == Spec /\ (\A t \in Threads : WF_vars(RelayStep(t))) /\ WF_vars(Finish)

-----------------------------------------------------------------------------
(* Properties *)

\* The frames the history shows.
History == {logged[k] : k \in DOMAIN logged}

\* Frame n of the sender of direction t is in the history, or had to make room in a
\* full one, and then only newer frames of its direction are left.
Remembered(t, op, n) ==
    \/ [dir |-> t, op |-> op, n |-> n, by |-> "peer"] \in History
    \/ /\ Len(logged) > Capacity - Drained
       /\ \A e \in History : e.dir = t /\ e.by = "peer" => e.n > n

\* Frame n of the sender of direction t reached the other peer.
Relayed(t, n) == \E i \in DOMAIN wire[t] : wire[t][i].by = "peer" /\ wire[t][i].n = n

\* Each direction delivers what its sender sent in order and without repetition;
\* only what the user forwarded may have changed its kind.
RelayedInOrder ==
    \A t \in Threads : \A i \in DOMAIN wire[t] :
        wire[t][i].by = "peer" =>
            /\ \A j \in 1 .. i - 1 : wire[t][j].by = "peer" => wire[t][j].n < wire[t][i].n
            /\ \/ wire[t][i].op = sent[t][wire[t][i].n].op
               \/ verdict[<<t, wire[t][i].n>>] = "Forward"

\* A thread that went back to reading, or ended, has left no frame behind: each one
\* it read was delivered, dropped by the user, or lost in a write that failed.
NothingIsLost ==
    \A t \in Threads : \A n \in 1 .. taken[t] :
        \/ Relayed(t, n)
        \/ verdict[<<t, n>>] = "Drop"
        \/ failed[t]
        \/ n = taken[t] /\ pc[t] \notin {"loop", "read", "eof", "done"}

\* A frame the user dropped leaves no trace, on the wire or in the history, and a
\* waiting thread is told what the user decided about its own frame.
TheUserDecides ==
    \A t \in Threads :
        /\ \A n \in 1 .. MaxFrames : verdict[<<t, n>>] = "Drop" =>
             /\ ~Relayed(t, n)
             /\ \A e \in History : ~(e.dir = t /\ e.n = n /\ e.by = "peer")
        /\ responder[t] = "Drop" => verdict[SlotOf(t)] = "Drop"
        /\ responder[t] \in Ops => verdict[SlotOf(t)] = "Forward"

\* A thread blocked in recv can always be woken: its frame is queued, or the answer
\* is already in the channel.
NoLostWaiter ==
    \A t \in Threads : pc[t] = "recv" =>
        responder[t] \in {"Drop"} \cup Ops \/ SlotOf(t) \in pending

\* The history of a listed tunnel misses nothing that was delivered, but for what it
\* drains when full (store.rs:192-194): its oldest frames, and no more of them than
\* leave it holding over Capacity - Drained.  Two more exceptions: a data frame that the
\* user turned into a control frame, and the pongs of the server of a plain tunnel
\* (tunnel.rs:420-475 has no branch for them).
HistoryIsComplete ==
    \A t \in Threads : status[t[1]] # "unlisted" =>
        \A i \in DOMAIN wire[t] :
            LET f == wire[t][i]
                unseen == f.op = "pong" /\ t[1] \notin setup.tls /\ t[2] = "s2c"
            IN  f.by = "peer" /\ (f.op = "data" \/ f.op = sent[t][f.n].op) /\ ~unseen =>
                  Remembered(t, f.op, f.n)

\* What the history shows in one direction of a tunnel went that way: it was written
\* there, or is about to be, or writing that way failed.  Two exceptions: frames sent
\* from the repeater, which ui/websocket/repeater.rs:373-392 shows under the tunnel of
\* the same URL though they had a connection of their own, or none; and the pong a plain
\* tunnel makes itself, which tunnel.rs:434-440 writes to the client and shows on the way
\* to the server.
HistoryIsTruthful ==
    \A e \in History :
        \/ e.by = "repeater"
        \/ e.by = "proxy" /\ e.dir[1] \notin setup.tls
        \/ \E i \in DOMAIN wire[e.dir] : /\ wire[e.dir][i].op = e.op
                                         /\ wire[e.dir][i].n = e.n
                                         /\ wire[e.dir][i].by = e.by
        \/ failed[e.dir]
        \/ e.by = "peer" /\ e.n = cur[e.dir].n /\ e.op = cur[e.dir].op
             /\ pc[e.dir] \in {"pong", "log_pong", "write", "relay_close"}

\* Closing a tunnel by hand ends both of its threads, unless one waits for the user.
ForcedTunnelEnds ==
    \A t \in Threads : t[1] \in forced ~> pc[t] \in {"done", "recv"}

\* proxy/websocket/intercept.rs:16, "Do not block heartbeat or closure control
\* frames": once read, a control frame is dealt with, whatever the user does.
ControlFramesPass ==
    \A t \in Threads :
        pc[t] \notin {"loop", "read", "eof", "done"} /\ sent[t][taken[t]].op # "data"
            ~> pc[t] \in {"loop", "read", "eof", "done"}

-----------------------------------------------------------------------------
(* The abstract gate *)

Stage(s) ==
    LET t == s[1]
        n == s[2]
    IN  CASE n > taken[t] -> "expected"
          [] n <= taken[t] /\ Relayed(t, n) -> "sent"
          [] n <= taken[t] /\ ~Relayed(t, n) /\ verdict[s] = "Forward" -> "approved"
          [] n <= taken[t] /\ ~Relayed(t, n) /\ verdict[s] = "Drop" ->
               IF n = taken[t] /\ pc[t] = "recv" THEN "rejected" ELSE "refused"
          [] n <= taken[t] /\ ~Relayed(t, n) /\ verdict[s] = "none" ->
               IF n = taken[t] /\ pc[t] = "recv" THEN "held" ELSE "arrived"

Gate == INSTANCE InterceptGate WITH
          Items <- Slots,
          stage <- [s \in Slots |-> Stage(s)]

\* Tunnels, store and window together implement the abstract gate.
ImplementsGate == Gate!Spec
=============================================================================
