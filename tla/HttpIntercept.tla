---------------------------- MODULE HttpIntercept ----------------------------
(***************************************************************************)
(* The HTTP/HTTPS path of the proxy with its interceptor: the handler      *)
(* threads of proxy/forwarder.rs (one request per connection) and          *)
(* proxy/mitm.rs (a keep-alive loop), the shared state of proxy/store.rs   *)
(* (INTERCEPT_ENABLED, NEXT_ID, PENDING_INTERCEPTS, the responder          *)
(* channels), and the user interface thread of ui/intercept.rs that lists  *)
(* the paused requests and resolves them.                                  *)
(*                                                                         *)
(* Each access of a thread to shared state is a step of its own, because   *)
(* the code holds no lock across two of them.  Requests, hosts and bodies  *)
(* are abstracted to <<connection, number>>; what matters of a request is  *)
(* its kind: does the noise filter exempt it, does it ask for a WebSocket. *)
(***************************************************************************)
EXTENDS Naturals

CONSTANTS
    Plain,          \* connections served by forward_http_request
    Mitm,           \* connections served by handle_https_connect_mitm
    MaxRequests,    \* bound: requests a client sends on one Mitm connection
    IdSpace,        \* NEXT_ID is a u32: 2^32 in the program
    None            \* "no connection"

ASSUME ConnectionsAssumption ==
    /\ Plain \cap Mitm = {}
    /\ None \notin Plain \cup Mitm
ASSUME BoundsAssumption == MaxRequests \in Nat \ {0} /\ IdSpace \in Nat \ {0}

Conn     == Plain \cup Mitm
Requests == Conn \X (1 .. MaxRequests)
Ids      == 1 .. IdSpace

\* "http": subject to interception, "noise": is_filtered_noise_request holds,
\* "upgrade": is_websocket_upgrade holds (whatever the noise filter says).
Kinds     == {"http", "noise", "upgrade"}
Decisions == {"Forward", "Drop"}
Rows      == [id : Ids, conn : Conn, req : 1 .. MaxRequests]   \* PendingIntercept
Replies   == [conn : Conn, req : 1 .. MaxRequests,
              kind : {"response", "dropped", "error", "switching"}]

VARIABLES
    \* proxy/store.rs
    intercept_enabled,   \* INTERCEPT_ENABLED
    next_id,             \* NEXT_ID
    pending_intercepts,  \* PENDING_INTERCEPTS (its order is only for display)
    \* one handler thread per connection
    pc, req, kind, entry_id,
    responder,           \* the mpsc channel on which the thread waits
    \* ui/intercept.rs
    ui,                  \* "idle", "frame" (render is running) or "resolving"
    enabled,             \* InterceptState.enabled, the label of the toggle
    intercept_requests,  \* AppSettings.intercept_requests, the check box
    pending_list,        \* the snapshot render works on
    todo,                \* rows still to resolve by the click being handled
    decision,            \* what that click decided
    sender,              \* connection whose sender the UI has taken
    \* history of what the outside world sees, and of what the user decided
    verdict, upstream, replies, captured,
    guarded              \* has interception been on since the request came in?

store   == <<intercept_enabled, next_id, pending_intercepts>>
threads == <<pc, req, kind, entry_id, responder>>
window  == <<ui, enabled, intercept_requests, pending_list, todo, decision, sender>>
outside == <<verdict, upstream, replies, captured>>
vars    == <<store, threads, window, outside, guarded>>

Places == {"read", "upgrade", "check", "take_id", "push", "recv", "send", "fallback",
           "respond", "failed", "take_entry_id", "record", "tunnel", "closed"}

TypeOK ==
    /\ intercept_enabled \in BOOLEAN
    /\ next_id \in Ids
    /\ pending_intercepts \in SUBSET Rows
    /\ pc \in [Conn -> Places]
    /\ req \in [Conn -> 0 .. MaxRequests]
    /\ kind \in [Conn -> Kinds]
    /\ entry_id \in [Conn -> 0 .. IdSpace]
    /\ responder \in [Conn -> {"none", "open"} \cup Decisions]
    /\ ui \in {"idle", "frame", "resolving"}
    /\ enabled \in BOOLEAN /\ intercept_requests \in BOOLEAN
    /\ pending_list \in SUBSET Rows /\ todo \in SUBSET Rows
    /\ decision \in Decisions
    /\ sender \in Conn \cup {None}
    /\ verdict \in [Requests -> {"none"} \cup Decisions]
    /\ upstream \in SUBSET Requests
    /\ replies \in SUBSET Replies
    /\ captured \in SUBSET Rows
    /\ guarded \in [Conn -> BOOLEAN]

\* Broken variants of some definitions, each a bug one could make in this code,
\* stand before the definition they vary; a property that could not tell them
\* from the real ones would say nothing.

InitIdsFromZero ==
    /\ intercept_enabled = FALSE
    /\ next_id = 0
    /\ pending_intercepts = {}
    /\ pc = [c \in Conn |-> "read"]
    /\ req = [c \in Conn |-> 0]
    /\ kind = [c \in Conn |-> "http"]
    /\ entry_id = [c \in Conn |-> 0]
    /\ responder = [c \in Conn |-> "none"]
    /\ ui = "idle"
    /\ enabled = FALSE
    /\ intercept_requests = TRUE
    /\ pending_list = {} /\ todo = {}
    /\ decision = "Forward"
    /\ sender = None
    /\ verdict = [r \in Requests |-> "none"]
    /\ upstream = {} /\ replies = {} /\ captured = {}
    /\ guarded = [c \in Conn |-> FALSE]

Init ==
    /\ intercept_enabled = FALSE        \* "DEFAULT OFF!"
    /\ next_id = 1
    /\ pending_intercepts = {}
    /\ pc = [c \in Conn |-> "read"]
    /\ req = [c \in Conn |-> 0]
    /\ kind = [c \in Conn |-> "http"]
    /\ entry_id = [c \in Conn |-> 0]
    /\ responder = [c \in Conn |-> "none"]
    /\ ui = "idle"
    /\ enabled = FALSE
    /\ intercept_requests = TRUE        \* AppSettings::default
    /\ pending_list = {} /\ todo = {}
    /\ decision = "Forward"
    /\ sender = None
    /\ verdict = [r \in Requests |-> "none"]
    /\ upstream = {} /\ replies = {} /\ captured = {}
    /\ guarded = [c \in Conn |-> FALSE]

-----------------------------------------------------------------------------
(* Handler threads *)

Current(c) == <<c, req[c]>>
Goto(c, place) == pc' = [pc EXCEPT ![c] = place]

\* What the peer of connection c gets to see of the current request.
Reply(c, k) == replies' = replies \cup {[conn |-> c, req |-> req[c], kind |-> k]}

\* next_entry_id(), one fetch_add.  The bound IdSpace is where the u32 would
\* wrap; the model stops there.
TakeEntryId(c) ==
    /\ next_id < IdSpace
    /\ entry_id' = [entry_id EXCEPT ![c] = next_id]
    /\ next_id' = next_id + 1

\* read_full_http_request succeeded and the request line is usable.
ReadRequest(c) ==
    /\ pc[c] = "read"
    /\ req[c] < (IF c \in Mitm THEN MaxRequests ELSE 1)
    /\ req' = [req EXCEPT ![c] = @ + 1]
    /\ guarded' = [guarded EXCEPT ![c] = intercept_enabled]
    /\ \E k \in Kinds :
         /\ kind' = [kind EXCEPT ![c] = k]
         /\ Goto(c, IF k = "upgrade" THEN "upgrade" ELSE "check")
    /\ UNCHANGED <<store, entry_id, responder, window, outside>>

\* EOF, a timeout of the keep-alive connection, or an unusable request line.
ReadFails(c) ==
    /\ pc[c] = "read"
    /\ Goto(c, "closed")
    /\ UNCHANGED <<store, req, kind, entry_id, responder, window, outside, guarded>>

\* handle_*_websocket_tunnel connected, sent the handshake on, and copied the
\* server's answer to the client.
UpgradeConnects(c) ==
    /\ pc[c] = "upgrade"
    /\ upstream' = upstream \cup {Current(c)}
    /\ Reply(c, "switching")
    /\ Goto(c, "take_entry_id")
    /\ UNCHANGED <<store, req, kind, entry_id, responder, window, verdict, captured, guarded>>

\* The connection to the server fails: forward_http_request treats the request
\* as an ordinary one, the MITM loop gives the client connection up.
UpgradeFails(c) ==
    /\ pc[c] = "upgrade"
    /\ IF c \in Plain
         THEN /\ Goto(c, "check")
              /\ \E k \in {"http", "noise"} : kind' = [kind EXCEPT ![c] = k]
         ELSE Goto(c, "closed") /\ UNCHANGED kind
    /\ UNCHANGED <<store, req, entry_id, responder, window, outside, guarded>>

\* Broken: asks the label of the toggle instead of INTERCEPT_ENABLED.
CheckGateByLabel(c) ==
    /\ pc[c] = "check"
    /\ Goto(c, IF enabled /\ kind[c] # "noise" THEN "take_id" ELSE "send")
    /\ UNCHANGED <<store, req, kind, entry_id, responder, window, outside, guarded>>

\* is_intercept_enabled() && !is_filtered_noise_request(..)
CheckGate(c) ==
    /\ pc[c] = "check"
    /\ Goto(c, IF intercept_enabled /\ kind[c] # "noise" THEN "take_id" ELSE "send")
    /\ UNCHANGED <<store, req, kind, entry_id, responder, window, outside, guarded>>

\* channel() and next_entry_id()
TakePendingId(c) ==
    /\ pc[c] = "take_id"
    /\ TakeEntryId(c)
    /\ responder' = [responder EXCEPT ![c] = "open"]
    /\ Goto(c, "push")
    /\ UNCHANGED <<intercept_enabled, pending_intercepts, req, kind, window, outside, guarded>>

PushPending(c) ==
    /\ pc[c] = "push"
    /\ pending_intercepts' =
         pending_intercepts \cup {[id |-> entry_id[c], conn |-> c, req |-> req[c]]}
    /\ Goto(c, "recv")
    /\ UNCHANGED <<intercept_enabled, next_id, req, kind, entry_id, responder,
                   window, outside, guarded>>

\* Broken: whatever recv returns counts as Forward.
ReceiveAnyAsForward(c) ==
    /\ pc[c] = "recv" /\ responder[c] \in Decisions
    /\ responder' = [responder EXCEPT ![c] = "none"]
    /\ Goto(c, "send")
    /\ UNCHANGED <<store, req, kind, entry_id, window, outside, guarded>>

\* rx.recv() returned Forward
ReceiveForward(c) ==
    /\ pc[c] = "recv" /\ responder[c] = "Forward"
    /\ responder' = [responder EXCEPT ![c] = "none"]
    /\ Goto(c, "send")
    /\ UNCHANGED <<store, req, kind, entry_id, window, outside, guarded>>

\* Broken: "continue" where the loop must break.
ReceiveDropContinues(c) ==
    /\ pc[c] = "recv" /\ responder[c] = "Drop"
    /\ responder' = [responder EXCEPT ![c] = "none"]
    /\ Reply(c, "dropped")
    /\ Goto(c, "read")
    /\ UNCHANGED <<store, req, kind, entry_id, window, verdict, upstream, captured, guarded>>

\* rx.recv() returned Drop: 502 with "Connection: close", then return or break
ReceiveDrop(c) ==
    /\ pc[c] = "recv" /\ responder[c] = "Drop"
    /\ responder' = [responder EXCEPT ![c] = "none"]
    /\ Reply(c, "dropped")
    /\ Goto(c, "closed")
    /\ UNCHANGED <<store, req, kind, entry_id, window, verdict, upstream, captured, guarded>>

\* The request goes to the server; the call returns a response (any status), a
\* transport error or, on TLS connections, "the port does not speak TLS".
SendUpstream(c) ==
    /\ pc[c] = "send"
    /\ upstream' = upstream \cup {Current(c)}
    /\ \/ Goto(c, "respond")
       \/ Goto(c, "failed")
       \/ c \in Mitm /\ Goto(c, "fallback")
    /\ UNCHANGED <<store, req, kind, entry_id, responder, window, verdict, replies,
                   captured, guarded>>

\* The same request once more over http://
SendFallback(c) ==
    /\ pc[c] = "fallback"
    /\ Goto(c, "respond") \/ Goto(c, "failed")
    /\ UNCHANGED <<store, req, kind, entry_id, responder, window, outside, guarded>>

\* process_and_send_response up to its last write
Respond(c) ==
    /\ pc[c] = "respond"
    /\ Reply(c, "response")
    /\ Goto(c, "take_entry_id")
    /\ UNCHANGED <<store, req, kind, entry_id, responder, window, verdict, upstream,
                   captured, guarded>>

\* The MITM loop answers 502 with "Connection: close" and breaks; the forwarder
\* returns without a word.
UpstreamError(c) ==
    /\ pc[c] = "failed"
    /\ Goto(c, "closed")
    /\ IF c \in Mitm THEN Reply(c, "error") ELSE UNCHANGED replies
    /\ UNCHANGED <<store, req, kind, entry_id, responder, window, verdict, upstream,
                   captured, guarded>>

\* Broken: records the exchange under the id it was paused under.
ReusePendingId(c) ==
    /\ pc[c] = "take_entry_id"
    /\ Goto(c, "record")
    /\ UNCHANGED <<store, req, kind, entry_id, responder, window, outside, guarded>>

\* The HttpEntry gets an id of its own, not the one it was paused under.
TakeCaptureId(c) ==
    /\ pc[c] = "take_entry_id"
    /\ TakeEntryId(c)
    /\ Goto(c, "record")
    /\ UNCHANGED <<intercept_enabled, pending_intercepts, req, kind, responder,
                   window, outside, guarded>>

\* push_captured_entry, then the next request, the end, or the tunnel loop
PushCaptured(c) ==
    /\ pc[c] = "record"
    /\ captured' = captured \cup {[id |-> entry_id[c], conn |-> c, req |-> req[c]]}
    /\ Goto(c, CASE kind[c] = "upgrade" -> "tunnel"
                 [] kind[c] # "upgrade" /\ c \in Mitm -> "read"
                 [] OTHER -> "closed")
    /\ UNCHANGED <<store, req, kind, entry_id, responder, window, verdict, upstream,
                   replies, guarded>>

-----------------------------------------------------------------------------
(* The user interface thread *)

\* set_intercept_enabled(on)
SetInterceptEnabled(on) ==
    /\ intercept_enabled' = on
    /\ guarded' = [c \in Conn |-> guarded[c] /\ on]

\* render starts with a clone of the pending list.
BeginFrame ==
    /\ ui = "idle"
    /\ ui' = "frame"
    /\ pending_list' = pending_intercepts
    /\ UNCHANGED <<store, threads, enabled, intercept_requests, todo, decision, sender,
                   outside, guarded>>

\* No click in this frame.
EndFrame ==
    /\ ui = "frame"
    /\ ui' = "idle"
    /\ pending_list' = {}
    /\ UNCHANGED <<store, threads, enabled, intercept_requests, todo, decision, sender,
                   outside, guarded>>

\* The "Intercept IS ON / OFF" button.  Paused requests stay paused.
ClickToggle ==
    /\ ui = "frame"
    /\ enabled' = ~enabled
    /\ SetInterceptEnabled(~enabled)
    /\ ui' = "idle"
    /\ pending_list' = {}
    /\ UNCHANGED <<next_id, pending_intercepts, threads, intercept_requests, todo,
                   decision, sender, outside>>

\* The check box of the rules window.
ClickCheckbox ==
    /\ ui = "frame"
    /\ intercept_requests' = ~intercept_requests
    /\ SetInterceptEnabled(~intercept_requests)
    /\ ui' = "idle"
    /\ pending_list' = {}
    /\ UNCHANGED <<next_id, pending_intercepts, threads, enabled, todo, decision, sender,
                   outside>>

\* A click that decides the requests of rows; the user has seen those requests.
Decide(rows, d) ==
    /\ ui = "frame"
    /\ ui' = "resolving"
    /\ todo' = rows
    /\ decision' = d
    /\ verdict' = [r \in Requests |->
                     IF \E row \in rows : r = <<row.conn, row.req>> THEN d ELSE verdict[r]]
    /\ UNCHANGED <<store, threads, enabled, intercept_requests, pending_list, sender,
                   upstream, replies, captured, guarded>>

\* A Forward or Drop button: of a row, of the selected request, of the menu.
ClickDecision == \E row \in pending_list, d \in Decisions : Decide({row}, d)

\* "Forward All" walks the snapshot.
ClickForwardAll == pending_list # {} /\ Decide(pending_list, "Forward")

ResolveTakeFrame ==
    UNCHANGED <<intercept_enabled, next_id, threads, ui, enabled, intercept_requests,
                pending_list, decision, outside, guarded>>

\* Broken: resolves by position, which later requests have shifted.
ResolveTakeByPosition ==
    /\ ui = "resolving" /\ sender = None
    /\ \E row \in todo, item \in pending_intercepts :
         /\ todo' = todo \ {row}
         /\ pending_intercepts' = pending_intercepts \ {item}
         /\ sender' = item.conn
    /\ ResolveTakeFrame

\* Broken: writes the snapshot without the row back as the new list.
ResolveTakeFromSnapshot ==
    /\ ui = "resolving" /\ sender = None
    /\ \E row \in todo, item \in pending_intercepts :
         /\ item.id = row.id
         /\ todo' = todo \ {row}
         /\ pending_intercepts' = (pending_intercepts \cap pending_list) \ {item}
         /\ sender' = item.conn
    /\ ResolveTakeFrame

\* Broken: takes the sender and leaves the item listed.
ResolveTakeKeepsItem ==
    /\ ui = "resolving" /\ sender = None
    /\ \E row \in todo, item \in pending_intercepts :
         /\ item.id = row.id
         /\ todo' = todo \ {row}
         /\ sender' = item.conn
    /\ UNCHANGED pending_intercepts
    /\ ResolveTakeFrame

\* Broken: "Forward All" stops after its first row.
ResolveTakeOnlyFirst ==
    /\ ui = "resolving" /\ sender = None
    /\ \E row \in todo, item \in pending_intercepts :
         /\ item.id = row.id
         /\ todo' = {}
         /\ pending_intercepts' = pending_intercepts \ {item}
         /\ sender' = item.conn
    /\ ResolveTakeFrame

\* resolve_pending_intercept, under the lock: find the id, remove, take the sender.
ResolveTake ==
    /\ ui = "resolving" /\ sender = None
    /\ \E row \in todo :
         /\ todo' = todo \ {row}
         /\ \/ \E item \in pending_intercepts :
                 /\ item.id = row.id
                 /\ pending_intercepts' = pending_intercepts \ {item}
                 /\ sender' = item.conn
            \/ /\ \A item \in pending_intercepts : item.id # row.id
               /\ UNCHANGED <<pending_intercepts, sender>>
    /\ ResolveTakeFrame

\* ... and after the unlock: send.
ResolveSend ==
    /\ ui = "resolving" /\ sender # None
    /\ responder' = [responder EXCEPT ![sender] = decision]
    /\ sender' = None
    /\ UNCHANGED <<store, pc, req, kind, entry_id, ui, enabled, intercept_requests,
                   pending_list, todo, decision, outside, guarded>>

ResolveDone ==
    /\ ui = "resolving" /\ sender = None /\ todo = {}
    /\ ui' = "idle"
    /\ pending_list' = {}
    /\ UNCHANGED <<store, threads, enabled, intercept_requests, todo, decision, sender,
                   outside, guarded>>

-----------------------------------------------------------------------------
\* What a handler thread does by itself once it has a request.
ThreadStep(c) ==
    \/ UpgradeConnects(c) \/ UpgradeFails(c) \/ CheckGate(c) \/ TakePendingId(c)
    \/ PushPending(c) \/ ReceiveForward(c) \/ ReceiveDrop(c) \/ SendUpstream(c)
    \/ SendFallback(c) \/ Respond(c) \/ UpstreamError(c) \/ TakeCaptureId(c)
    \/ PushCaptured(c)

\* What the user interface does by itself after a click.
Resolve == ResolveTake \/ ResolveSend \/ ResolveDone

Click == ClickToggle \/ ClickCheckbox \/ ClickDecision \/ ClickForwardAll

Next ==
    \/ \E c \in Conn : ReadRequest(c) \/ ReadFails(c) \/ ThreadStep(c)
    \/ BeginFrame \/ EndFrame \/ Click \/ Resolve

Spec == Init /\ [][Next]_vars

\* Threads are scheduled fairly, calls upstream return (the agent has a 60 s
\* timeout) and the window finishes what a click started.  Nothing is assumed
\* of clients, nor of the user, who may never click.
FairSpec == Spec /\ (\A c \in Conn : WF_vars(ThreadStep(c))) /\ WF_vars(Resolve)

-----------------------------------------------------------------------------
(* Properties *)

\* A paused request goes upstream only if the user forwarded the row that showed
\* it, and is answered "dropped" only if the user dropped that row; whatever the
\* interleaving of pushes, snapshots and resolutions.
TheUserDecides ==
    /\ \A r \in upstream : verdict[r] # "Drop"
    /\ \A p \in replies : p.kind = "dropped" => verdict[<<p.conn, p.req>>] = "Drop"
    /\ \A c \in Conn : responder[c] \in Decisions => verdict[Current(c)] = responder[c]

\* A thread blocked in recv can always be woken: its request is in the list, or
\* the window holds its sender, or the answer is already in the channel.
NoLostWaiter ==
    \A c \in Conn : pc[c] = "recv" =>
        \/ responder[c] \in Decisions
        \/ sender = c
        \/ \E row \in pending_intercepts :
              row = [id |-> entry_id[c], conn |-> c, req |-> req[c]]

\* An id names one request: paused requests and history entries never share one.
IdsAreUnique ==
    /\ \A a, b \in pending_intercepts \cup captured : a.id = b.id => a = b
    /\ \A a, b \in captured : a.conn = b.conn /\ a.req = b.req => a = b

\* "Connection: close" is kept: after such an answer (drop, upstream error) the
\* connection carries neither another request nor another answer; and no request
\* is answered twice.
CloseIsFinal ==
    \A p \in replies :
        /\ \A q \in replies : q.conn = p.conn /\ q.req = p.req => q = p
        /\ p.kind \in {"dropped", "error"} =>
             /\ \A q \in replies : q.conn = p.conn => q.req <= p.req
             /\ \A r \in upstream : r[1] = p.conn => r[2] <= p.req

\* While interception stays on from the arrival of a request that is neither noise
\* nor an upgrade, that request leaves only after the user forwarded it.
NothingSlipsThrough ==
    [][\A c \in Conn :
         guarded[c] /\ kind[c] = "http" /\ Current(c) \in upstream' \ upstream
           => verdict[Current(c)] = "Forward"]_vars

\* A decision is never revised: no row is offered for a second decision.
VerdictIsFinal ==
    [][\A r \in Requests : verdict[r] # "none" => verdict'[r] = verdict[r]]_vars

-----------------------------------------------------------------------------
(* The abstract gate *)

AnsweredDropped(r) ==
    \E p \in replies : p.conn = r[1] /\ p.req = r[2] /\ p.kind = "dropped"

Stage(r) ==
    IF r \in upstream THEN "sent"
    ELSE IF AnsweredDropped(r) THEN "refused"
    ELSE IF verdict[r] = "Forward" THEN "approved"
    ELSE IF verdict[r] = "Drop" THEN "rejected"
    ELSE IF r[2] = req[r[1]] /\ pc[r[1]] = "recv" THEN "held"
    ELSE IF r[2] <= req[r[1]] THEN "arrived"
    ELSE "expected"

Gate == INSTANCE InterceptGate WITH
          Items <- Requests,
          stage <- [r \in Requests |-> Stage(r)]

\* Handlers, store and window together implement the abstract gate.
ImplementsGate == Gate!Spec

\* What the user decided is done in the end, though the user may never click
\* again: the gate's liveness, seen through the same mapping.
GateDecisionsAreCarriedOut == Gate!DecisionsAreCarriedOut
=============================================================================
