------------------------------ MODULE WsRepeater ------------------------------
(***************************************************************************)
(* The WebSocket repeater: the tabs of ui/websocket/repeater.rs with the   *)
(* three global tables they share with background threads                  *)
(* (REPEATER_CLIENT_HANDLES, REPEATER_INCOMING_QUEUE and                   *)
(* REPEATER_DISCONNECT_QUEUE, all keyed by the POSITION of a tab), and the *)
(* receiver and sender thread spawn_repeater_client starts for each        *)
(* connection (proxy/websocket/repeater_client.rs).                        *)
(*                                                                         *)
(* Frames are numbers; payloads, opcodes and the lines the window writes   *)
(* into a log about connecting are left out.  A tab has an identity, who,  *)
(* that the program does not know: it tells a tab from the next one at its *)
(* position.  Only the window's thread touches the tabs and the handles,   *)
(* so a click is one step, but for a click that connects: it blocks the    *)
(* window until the server has answered the handshake, perhaps for ever.   *)
(* The copy of a sent frame in the history is modelled in WsTunnel.        *)
(***************************************************************************)
EXTENDS Naturals, Sequences, SequencesExt

CONSTANTS
    Plain, Tls,    \* connections, to ws:// and to wss:// targets
    None,          \* "no connection"
    MaxTabs,       \* bound: tabs open at a time
    MaxOpened,     \* bound: tabs ever opened
    MaxSends,      \* bound: clicks on "Send Frame"
    MaxFrames,     \* bound: frames a server sends on a connection
    Setups         \* what the user and the servers have in store, see SetupsAssumption

Conns == Plain \cup Tls

ASSUME ConnsAssumption == Plain \cap Tls = {} /\ None \notin Conns
ASSUME BoundsAssumption ==
    /\ MaxTabs \in Nat \ {0} /\ MaxOpened \in Nat \ {0}
    /\ MaxSends \in Nat /\ MaxFrames \in Nat

\* conns: the connections that can be opened; the other fields bound how many tabs are
\* ever opened and closed, how often a captured tunnel is chosen as target, how often
\* "Send Frame" is clicked, and how many frames each server sends.
ASSUME SetupsAssumption ==
    Setups \subseteq [conns : SUBSET Conns, opened : 1 .. MaxOpened, closes : Nat,
                      choices : Nat, sends : 0 .. MaxSends, frames : 0 .. MaxFrames]

VARIABLES
    \* the window
    tabs,          \* repeater_tabs: identity, is_connected, log_messages
    opened, closes, choices, sends,
    ui,            \* "idle", "drained" (incoming frames drained), "frame"; or the click
                   \* that is connecting, "connect" or "resend"
    calling,       \* the position that click is for, else 0
    \* the tables, by position of a tab
    handles, incoming, disconnects,
    setup,         \* the element of Setups this run of the program is in
    \* each connection: the tab and the position it was opened for, its threads,
    \* the channel to the sender thread and the frame in that thread's hands
    owner, tab_idx, receiver, received, sender, chan, hand,
    \* its server: frames sent, frames it got, and whether it closed
    served, written, gone,
    \* history: the frames given to each connection's channel
    queued

window  == <<tabs, opened, closes, choices, sends, ui, calling>>
tables  == <<handles, incoming, disconnects>>
opening == <<setup, owner, tab_idx>>
reading == <<receiver, received>>
writing == <<sender, chan, hand>>
servers == <<served, written, gone>>
vars    == <<window, tables, opening, reading, writing, servers, queued>>

Positions == 1 .. MaxTabs
Sends     == 1 .. MaxSends
Entries   == [kind : {"received"}, conn : Conns, n : 1 .. MaxFrames]
               \cup [kind : {"sent"}, conn : Conns \cup {None}, n : Sends]
               \cup [kind : {"lost"}, conn : Conns \cup {None}, n : {0}]
NewTab(who, online) == [who |-> who, online |-> online, log |-> <<>>]

TypeOK ==
    /\ setup \in Setups
    /\ Len(tabs) \in Positions
    /\ tabs \in Seq([who : 1 .. MaxOpened, online : BOOLEAN, log : Seq(Entries)])
    /\ opened \in 1 .. MaxOpened /\ closes \in 0 .. setup.closes
    /\ choices \in 0 .. setup.choices /\ sends \in 0 .. MaxSends
    /\ ui \in {"idle", "drained", "frame", "connect", "resend"}
    /\ calling \in 0 .. Len(tabs) /\ (calling # 0 <=> ui \in {"connect", "resend"})
    /\ handles \in [Positions -> Conns \cup {None}]
    /\ incoming \in Seq([idx : Positions, conn : Conns, n : 1 .. MaxFrames])
    /\ disconnects \in Seq(Positions)
    /\ owner \in [Conns -> 0 .. MaxOpened] /\ tab_idx \in [Conns -> 0 .. MaxTabs]
    /\ receiver \in [Conns -> {"none", "lock", "reading", "push", "notify", "ended"}]
    /\ received \in [Conns -> 0 .. MaxFrames] /\ served \in [Conns -> 0 .. MaxFrames]
    /\ sender \in [Conns -> {"none", "idle", "write", "ended"}]
    /\ chan \in [Conns -> Seq(Sends)] /\ hand \in [Conns -> Seq(Sends)]
    /\ written \in [Conns -> Seq(Sends)] /\ queued \in [Conns -> Seq(Sends)]
    /\ gone \in [Conns -> BOOLEAN]

Init ==
    /\ setup \in Setups
    /\ tabs = <<NewTab(1, FALSE)>>
    /\ opened = 1 /\ closes = 0 /\ choices = 0 /\ sends = 0
    /\ ui = "idle" /\ calling = 0
    /\ handles = [i \in Positions |-> None]
    /\ incoming = <<>> /\ disconnects = <<>>
    /\ owner = [c \in Conns |-> 0] /\ tab_idx = [c \in Conns |-> 0]
    /\ receiver = [c \in Conns |-> "none"] /\ sender = [c \in Conns |-> "none"]
    /\ received = [c \in Conns |-> 0] /\ served = [c \in Conns |-> 0]
    /\ chan = [c \in Conns |-> <<>>] /\ hand = [c \in Conns |-> <<>>]
    /\ written = [c \in Conns |-> <<>>] /\ queued = [c \in Conns |-> <<>>]
    /\ gone = [c \in Conns |-> FALSE]

-----------------------------------------------------------------------------
(* The threads of a connection, and its server *)

ServerSends(c) ==
    /\ owner[c] # 0 /\ ~gone[c] /\ served[c] < setup.frames
    /\ served' = [served EXCEPT ![c] = @ + 1]
    /\ UNCHANGED <<window, tables, opening, reading, writing, written, gone, queued>>

ServerCloses(c) ==
    /\ owner[c] # 0 /\ ~gone[c]
    /\ gone' = [gone EXCEPT ![c] = TRUE]
    /\ UNCHANGED <<window, tables, opening, reading, writing, served, written, queued>>

Receiver(c, from, to) == receiver[c] = from /\ receiver' = [receiver EXCEPT ![c] = to]

\* The receiver of a wss:// connection locks the stream and reads while it holds
\* the lock; that of a ws:// connection reads a clone of the socket.
StartRead(c) ==
    /\ Receiver(c, "lock", "reading")
    /\ UNCHANGED <<window, tables, opening, received, writing, servers, queued>>

ReadFrame(c) ==
    /\ received[c] < served[c]
    /\ received' = [received EXCEPT ![c] = @ + 1]
    /\ Receiver(c, "reading", "push")
    /\ UNCHANGED <<window, tables, opening, writing, servers, queued>>

\* on_frame_received: the queue remembers the position the connection was opened at.
PushIncoming(c) ==
    /\ Receiver(c, "push", "lock")
    /\ incoming' = Append(incoming, [idx |-> tab_idx[c], conn |-> c, n |-> received[c]])
    /\ UNCHANGED <<window, handles, disconnects, opening, received, writing, servers, queued>>

\* End of stream, or a reset that discards what was not read yet.  Nothing but the
\* server's end makes the read fail: nobody here shuts the socket down.
ReadFails(c) ==
    /\ gone[c]
    /\ Receiver(c, "reading", "notify")
    /\ UNCHANGED <<window, tables, opening, received, writing, servers, queued>>

\* on_disconnect, once
NotifyDisconnect(c) ==
    /\ Receiver(c, "notify", "ended")
    /\ disconnects' = Append(disconnects, tab_idx[c])
    /\ UNCHANGED <<window, handles, incoming, opening, received, writing, servers, queued>>

\* rx.recv() of the sender thread
TakeFrame(c) ==
    /\ sender[c] = "idle" /\ chan[c] # <<>>
    /\ sender' = [sender EXCEPT ![c] = "write"]
    /\ hand' = [hand EXCEPT ![c] = <<Head(chan[c])>>]
    /\ chan' = [chan EXCEPT ![c] = Tail(@)]
    /\ UNCHANGED <<window, tables, opening, reading, servers, queued>>

\* write_ws_frame; to a server that is gone it fails or vanishes, sooner or later.
Transmit(c) ==
    /\ sender[c] = "write"
    /\ hand' = [hand EXCEPT ![c] = <<>>]
    /\ IF gone[c]
         THEN /\ UNCHANGED written
              /\ \E then \in {"idle", "ended"} : sender' = [sender EXCEPT ![c] = then]
         ELSE /\ written' = [written EXCEPT ![c] = @ \o hand[c]]
              /\ sender' = [sender EXCEPT ![c] = "idle"]
    /\ UNCHANGED <<window, tables, opening, reading, chan, served, gone, queued>>

\* Broken: gives a frame up when the stream is locked.
WriteFrameTryLock(c) ==
    \/ ~(c \in Tls /\ receiver[c] = "reading") /\ Transmit(c)
    \/ /\ c \in Tls /\ receiver[c] = "reading" /\ sender[c] = "write"
       /\ hand' = [hand EXCEPT ![c] = <<>>]
       /\ sender' = [sender EXCEPT ![c] = "idle"]
       /\ UNCHANGED <<window, tables, opening, reading, chan, servers, queued>>

\* Broken: shares one locked stream also for ws:// connections.
WriteFrameLocked(c) == receiver[c] # "reading" /\ Transmit(c)

\* The sender of a wss:// connection needs the lock.
WriteFrame(c) == ~(c \in Tls /\ receiver[c] = "reading") /\ Transmit(c)

\* The handle was removed, and with it the last Sender of the channel.
SenderEnds(c) ==
    /\ sender[c] = "idle" /\ chan[c] = <<>>
    /\ \A i \in Positions : handles[i] # c
    /\ sender' = [sender EXCEPT ![c] = "ended"]
    /\ UNCHANGED <<window, tables, opening, reading, chan, hand, servers, queued>>

-----------------------------------------------------------------------------
(* The window: two drains at the start of a frame, then at most one click *)

Threads == <<opening, reading, writing, servers, queued>>
LogAt(ts, i, e) == [ts EXCEPT ![i].log = Append(@, e)]
AsEntry(m) == [kind |-> "received", conn |-> m.conn, n |-> m.n]

\* The loop over the queue: a frame goes to the log of the tab at its position, if that
\* is one of open.
Delivered(queue, open) ==
    LET after[k \in 0 .. Len(queue)] ==
            IF k = 0 THEN tabs
            ELSE IF queue[k].idx \in open
                   THEN LogAt(after[k - 1], queue[k].idx, AsEntry(queue[k]))
                   ELSE after[k - 1]
    IN  after[Len(queue)]

\* Broken: pops the queue from its end.
DrainIncomingByPop ==
    /\ ui = "idle" /\ ui' = "drained"
    /\ tabs' = Delivered(Reverse(incoming), DOMAIN tabs)
    /\ incoming' = <<>>
    /\ UNCHANGED <<opened, closes, choices, sends, calling, handles, disconnects, Threads>>

\* Broken: has no ear for tabs that are not connected.
DrainIncomingOnline ==
    /\ ui = "idle" /\ ui' = "drained"
    /\ tabs' = Delivered(incoming, {i \in DOMAIN tabs : tabs[i].online})
    /\ incoming' = <<>>
    /\ UNCHANGED <<opened, closes, choices, sends, calling, handles, disconnects, Threads>>

\* Frames for a position beyond the last tab are discarded.
DrainIncoming ==
    /\ ui = "idle" /\ ui' = "drained"
    /\ tabs' = Delivered(incoming, DOMAIN tabs)
    /\ incoming' = <<>>
    /\ UNCHANGED <<opened, closes, choices, sends, calling, handles, disconnects, Threads>>

\* Positions in the queue whose tab believes it is connected.
Lost == {i \in DOMAIN tabs : tabs[i].online /\ \E k \in DOMAIN disconnects : disconnects[k] = i}
MarkLost ==
    /\ ui = "drained" /\ ui' = "frame"
    /\ tabs' = [i \in DOMAIN tabs |->
                  IF i \in Lost
                    THEN [tabs[i] EXCEPT !.online = FALSE,
                              !.log = Append(@, [kind |-> "lost", conn |-> handles[i], n |-> 0])]
                    ELSE tabs[i]]
    /\ disconnects' = <<>>
    /\ UNCHANGED <<opened, closes, choices, sends, calling, incoming, Threads>>

\* Broken: leaves the handle of a lost connection in the table.
DrainDisconnectsKeepHandle == MarkLost /\ UNCHANGED handles

DrainDisconnects ==
    /\ MarkLost
    /\ handles' = [i \in Positions |-> IF i \in Lost THEN None ELSE handles[i]]

EndFrame ==
    /\ ui = "frame" /\ ui' = "idle"
    /\ UNCHANGED <<tabs, opened, closes, choices, sends, calling, tables, Threads>>

IsOnline(i) == tabs[i].online \/ handles[i] # None

\* spawn_repeater_client connects, and reads the answer to its handshake without a
\* timeout, on the window's thread: no repaint and no click until it returns.
Call(i, click) == ui = "frame" /\ ui' = click /\ calling' = i
Return == ui' = "idle" /\ calling' = 0

\* It succeeded; frames is what the channel holds from the start.  Frames of the server
\* that the read of its answer returned as well are thrown away.
Connect(i, c, frames) ==
    /\ owner[c] = 0 /\ c \in setup.conns
    /\ UNCHANGED setup
    /\ owner' = [owner EXCEPT ![c] = tabs[i].who]
    /\ tab_idx' = [tab_idx EXCEPT ![c] = i]
    /\ receiver' = [receiver EXCEPT ![c] = "lock"]
    /\ sender' = [sender EXCEPT ![c] = "idle"]
    /\ \E k \in 0 .. setup.frames : /\ served' = [served EXCEPT ![c] = k]
                                   /\ received' = [received EXCEPT ![c] = k]
    /\ chan' = [chan EXCEPT ![c] = frames]
    /\ queued' = [queued EXCEPT ![c] = frames]
    /\ handles' = [handles EXCEPT ![i] = c]

ConnectFails == UNCHANGED <<handles, opening, reading, sender, chan, served, queued>>

\* "Reconnect / Connect Socket"
ClickConnect(i) ==
    /\ i \in DOMAIN tabs /\ ~IsOnline(i)
    /\ Call(i, "connect")
    /\ UNCHANGED <<tabs, opened, closes, choices, sends, tables, Threads>>

ConnectReturns ==
    /\ ui = "connect" /\ Return
    /\ \/ /\ \E c \in Conns : Connect(calling, c, <<>>)
          /\ tabs' = [tabs EXCEPT ![calling].online = TRUE]
       \/ ConnectFails /\ UNCHANGED tabs
    /\ UNCHANGED <<opened, closes, choices, sends, incoming, disconnects, hand, written, gone>>

\* "Disconnect" removes the handle; the socket is left to the receiver thread.
ClickDisconnect(i) ==
    /\ ui = "frame" /\ ui' = "idle"
    /\ i \in DOMAIN tabs /\ IsOnline(i)
    /\ handles' = [handles EXCEPT ![i] = None]
    /\ tabs' = [tabs EXCEPT ![i].online = FALSE]
    /\ UNCHANGED <<opened, closes, choices, sends, calling, incoming, disconnects, Threads>>

\* Through the handle at the tab's position.  A channel whose sender thread ended
\* takes nothing, which nobody notices.
SendOverHandle(i, n) ==
    LET c == handles[i]
        alive == sender[c] # "ended"
    IN  /\ c # None
        /\ ui' = "idle" /\ sends' = n
        /\ chan' = IF alive THEN [chan EXCEPT ![c] = Append(@, n)] ELSE chan
        /\ queued' = IF alive THEN [queued EXCEPT ![c] = Append(@, n)] ELSE queued
        /\ tabs' = LogAt(tabs, i, [kind |-> "sent", conn |-> c, n |-> n])
        /\ UNCHANGED <<calling, handles, opening, reading, sender, served>>

\* Without a handle the click connects first ...
SendConnecting(i) ==
    /\ handles[i] = None
    /\ Call(i, "resend")
    /\ UNCHANGED <<sends, tabs, handles, opening, reading, sender, chan, served, queued>>

ClickSend(i) ==
    /\ ui = "frame"
    /\ i \in DOMAIN tabs /\ sends < setup.sends
    /\ SendOverHandle(i, sends + 1) \/ SendConnecting(i)
    /\ UNCHANGED <<opened, closes, choices, incoming, disconnects, hand, written, gone>>

\* ... and if that fails the frame is logged all the same.
SendReturns ==
    LET n == sends + 1
    IN  /\ ui = "resend" /\ Return /\ sends' = n
        /\ \/ \E c \in Conns :
                /\ Connect(calling, c, <<n>>)
                /\ tabs' = LogAt([tabs EXCEPT ![calling].online = TRUE], calling,
                                 [kind |-> "sent", conn |-> c, n |-> n])
           \/ /\ ConnectFails
              /\ tabs' = LogAt(tabs, calling, [kind |-> "sent", conn |-> None, n |-> n])
        /\ UNCHANGED <<opened, closes, choices, incoming, disconnects, hand, written, gone>>

ClickClearLog(i) ==
    /\ ui = "frame" /\ ui' = "idle"
    /\ i \in DOMAIN tabs
    /\ tabs' = [tabs EXCEPT ![i].log = <<>>]
    /\ UNCHANGED <<opened, closes, choices, sends, calling, tables, Threads>>

\* Broken: puts the new tab first.
ClickNewTabFirst ==
    /\ ui = "frame" /\ ui' = "idle"
    /\ Len(tabs) < MaxTabs /\ opened < setup.opened
    /\ opened' = opened + 1
    /\ tabs' = <<NewTab(opened + 1, FALSE)>> \o tabs
    /\ UNCHANGED <<closes, choices, sends, calling, tables, Threads>>

ClickNewTab ==
    /\ ui = "frame" /\ ui' = "idle"
    /\ Len(tabs) < MaxTabs /\ opened < setup.opened
    /\ opened' = opened + 1
    /\ tabs' = Append(tabs, NewTab(opened + 1, FALSE))
    /\ UNCHANGED <<closes, choices, sends, calling, tables, Threads>>

\* "Repeater" in the history and in the interceptor window opens a tab that believes
\* it is connected.
ClickSendToRepeater ==
    /\ ui = "idle"
    /\ Len(tabs) < MaxTabs /\ opened < setup.opened
    /\ opened' = opened + 1
    /\ tabs' = Append(tabs, NewTab(opened + 1, TRUE))
    /\ UNCHANGED <<closes, choices, sends, ui, calling, tables, Threads>>

\* A captured tunnel, open or closed, becomes the target: is_connected is set from the
\* status of that tunnel, whatever connection the tab has itself.
ClickChooseTunnel(i) ==
    /\ ui = "frame" /\ ui' = "idle"
    /\ i \in DOMAIN tabs /\ choices < setup.choices
    /\ choices' = choices + 1
    /\ \E active \in BOOLEAN : tabs' = [tabs EXCEPT ![i].online = active]
    /\ UNCHANGED <<opened, closes, sends, calling, tables, Threads>>

RemoveTab(i) ==
    /\ ui = "frame" /\ ui' = "idle"
    /\ i \in DOMAIN tabs /\ closes < setup.closes
    /\ closes' = closes + 1
    /\ handles' = [handles EXCEPT ![i] = None]
    /\ tabs' = RemoveAt(tabs, i)
    /\ UNCHANGED <<opened, choices, sends, calling, incoming, disconnects, Threads>>

\* Broken: offers the button also on the only tab.
ClickCloseAnyTab(i) == RemoveTab(i)

\* The tabs behind i move up; handles, queues and threads keep their positions.
ClickCloseTab(i) == Len(tabs) > 1 /\ RemoveTab(i)

-----------------------------------------------------------------------------
ReceiverStep(c) ==
    StartRead(c) \/ ReadFrame(c) \/ PushIncoming(c) \/ ReadFails(c) \/ NotifyDisconnect(c)
SenderStep(c) == TakeFrame(c) \/ WriteFrame(c) \/ SenderEnds(c)

Click(i) ==
    \/ ClickConnect(i) \/ ClickDisconnect(i) \/ ClickSend(i) \/ ClickClearLog(i)
    \/ ClickCloseTab(i) \/ ClickChooseTunnel(i)

Repaint == DrainIncoming \/ DrainDisconnects \/ EndFrame

Next ==
    \/ \E c \in Conns : ServerSends(c) \/ ServerCloses(c) \/ ReceiverStep(c) \/ SenderStep(c)
    \/ \E i \in Positions : Click(i)
    \/ ClickNewTab \/ ClickSendToRepeater \/ ConnectReturns \/ SendReturns \/ Repaint

Spec == Init /\ [][Next]_vars

\* Both threads of each connection are scheduled, and the window, while shown and not
\* blocked in a click, repaints.  Servers and user owe nothing, and neither does a
\* call that connects.
FairSpec ==
    /\ Spec
    /\ \A c \in Conns : WF_vars(ReceiverStep(c)) /\ WF_vars(SenderStep(c))
    /\ WF_vars(Repaint)

-----------------------------------------------------------------------------
(* Properties *)

\* What a connection was given to send is sent in order, once, with nothing left
\* out as long as the server is there; tabs may come, go and move meanwhile.
FramesAreSentOnceInOrder ==
    \A c \in Conns : IF gone[c] THEN IsPrefix(written[c], queued[c])
                                ELSE queued[c] = written[c] \o hand[c] \o chan[c]

\* In whatever tab they end up, the frames of one connection are shown in the
\* order the server sent them, each once.
LogKeepsOrder ==
    \A i \in DOMAIN tabs : \A j, k \in DOMAIN tabs[i].log :
        LET a == tabs[i].log[j]
            b == tabs[i].log[k]
        IN  j < k /\ a.kind = "received" /\ b.kind = "received" /\ a.conn = b.conn => a.n < b.n

\* "Send to active repeater socket connection if available" (repeater.rs:366): a
\* frame sent from a tab goes over a connection opened from that tab.
SentOverOwnConnection ==
    \A i \in DOMAIN tabs : \A k \in DOMAIN tabs[i].log :
        LET e == tabs[i].log[k]
        IN  e.kind = "sent" /\ e.conn # None => owner[e.conn] = tabs[i].who

\* As long as no tab was closed that holds, however often tabs are connected,
\* disconnected, lost and given other targets.
OwnConnectionUntilTabsClose == closes = 0 => SentOverOwnConnection

\* The window does not stay blocked for ever in a click that connects.
CallsReturn == []<>(ui \notin {"connect", "resend"})

\* If so, every frame a receiver reads is shown at the position its connection was
\* opened at, also when it comes after the tab there disconnected: in the tab that opened
\* the connection, or, once tabs were closed, in the one that took its position, if any.
ReceivedFramesAreShown ==
    CallsReturn => \A c \in Conns : \A n \in 1 .. MaxFrames :
        receiver[c] = "push" /\ received[c] = n ~>
            \/ closes > 0 /\ tab_idx[c] \notin DOMAIN tabs
            \/ \E i \in DOMAIN tabs :
                 /\ i = tab_idx[c] /\ (closes = 0 => tabs[i].who = owner[c])
                 /\ \E k \in DOMAIN tabs[i].log :
                      tabs[i].log[k] = [kind |-> "received", conn |-> c, n |-> n]

\* "Process disconnect notifications from background threads" (repeater.rs:26): if calls
\* return, a connection whose server closed leaves the table.  Where tabs were closed or
\* given captured tunnels as targets, the tab at its position may not believe in the
\* connection, or not be there any more: then the notice is discarded (repeater.rs:31).
ServerCloseIsNoticed ==
    CallsReturn => \A c \in Conns :
        gone[c] /\ receiver[c] # "ended" ~>
            \/ \A i \in Positions : handles[i] # c
            \/ /\ closes + choices > 0
               /\ \A i \in DOMAIN tabs : i = tab_idx[c] => ~tabs[i].online

\* src/README.md:85, "construct and transmit custom WebSocket frames": what a ws://
\* connection was given is transmitted, or its server is gone.  Over wss:// the sender
\* can wait for ever for a receiver that reads from a silent server under the lock.
FramesAreTransmitted ==
    \A c \in Plain : \A n \in Sends :
        (\E k \in DOMAIN queued[c] : queued[c][k] = n)
          ~> gone[c] \/ \E k \in DOMAIN written[c] : written[c][k] = n
=============================================================================
