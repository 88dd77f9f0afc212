------------------------------- MODULE Listeners -------------------------------
(***************************************************************************)
(* The proxy's listeners (proxy/listener.rs, the listener section of       *)
(* ui/settings.rs): the window thread stops and starts accept threads as   *)
(* the user edits the one configured listener, keystroke by keystroke;     *)
(* sync_listeners blocks it meanwhile.                                     *)
(*                                                                         *)
(* A thread blocked in accept() cannot see that its flag was lowered, so   *)
(* sync_listeners knocks: it connects to the thread's own address.  With   *)
(* SO_REUSEPORT several sockets may share an address, and the kernel picks *)
(* the one that gets a connection.                                         *)
(***************************************************************************)
EXTENDS Naturals, Sequences

CONSTANTS
    MaxThreads,    \* bound: accept threads ever started
    Wildcards,     \* addresses "0.0.0.0:port"
    Specifics,     \* the other addresses one may bind
    Covered,       \* Covered[w]: the addresses a socket bound to the wildcard w hears
    Loopback,      \* Loopback[w]: of these, 127.0.0.1 and the port of w
    Default,       \* the address of the first start, 127.0.0.1:8080
    None,
    Edits,         \* what the user may make of the listener's configuration
    Backlog        \* connections the kernel queues at a socket, 128 in the program

Addrs   == Wildcards \cup Specifics
Threads == 1 .. MaxThreads
Configs == [enabled : BOOLEAN, addr : Addrs \cup {None}, spaced : BOOLEAN]

ASSUME ListenersAssumption ==
    /\ Wildcards \cap Specifics = {}
    /\ Covered \in [Wildcards -> SUBSET Specifics]
    /\ Loopback \in [Wildcards -> Specifics]
    /\ \A w \in Wildcards : Loopback[w] \in Covered[w]
    /\ Default \in Specifics
    /\ None \notin Addrs /\ None \notin Nat /\ None \notin {"early", "late"}
    /\ Edits \subseteq Configs /\ MaxThreads \in Nat
    /\ Backlog \in Nat \ {0}

VARIABLES
    config,        \* settings.listeners[0]; None: text that is no IP address
    active,        \* ACTIVE_LISTENERS
    ui,            \* where sync_listeners is, or "frame"
    target,        \* the listener just stopped, yet to be knocked at
    place,         \* where an accept thread is
    addr, running_flag,  \* its parameters
    backlog,       \* connections queued at its socket: is it one that came too late?
    stream,        \* the connection it has accepted
    shared,        \* history: stopped threads whose knock may have gone to another socket
    served         \* history: the connections handed to handle_client

vars == <<config, active, ui, target, place, addr, running_flag, backlog, stream,
          shared, served>>

Calls == {"early", "late"}

TypeOK ==
    /\ config \in Configs
    /\ active \in [Addrs -> Threads \cup {None}]
    /\ ui \in {"frame", "stop", "knock", "start"}
    /\ target \in Threads \cup {None}
    /\ place \in [Threads -> {"unborn", "accept", "check", "recheck", "ended"}]
    /\ addr \in [Threads -> Addrs] /\ running_flag \in [Threads -> BOOLEAN]
    /\ backlog \in [Threads -> Seq(Calls)] /\ stream \in [Threads -> Calls \cup {None}]
    /\ shared \in SUBSET Threads /\ served \in SUBSET Calls

\* AJProxyApp::new calls sync_listeners with the default settings.
Init ==
    /\ config = [enabled |-> TRUE, addr |-> Default, spaced |-> FALSE]
    /\ active = [a \in Addrs |-> None]
    /\ ui = "stop" /\ target = None
    /\ place = [t \in Threads |-> "unborn"]
    /\ addr = [t \in Threads |-> Default]
    /\ running_flag = [t \in Threads |-> FALSE]
    /\ backlog = [t \in Threads |-> <<>>]
    /\ stream = [t \in Threads |-> None]
    /\ shared = {} /\ served = {}

-----------------------------------------------------------------------------
(* Sockets *)

Open(t) == place[t] \notin {"unborn", "ended"}

\* The sockets a connection to an address may reach: those bound to it, or else those
\* bound to a wildcard.
Bound(to)   == {t \in Threads : Open(t) /\ addr[t] = to}
Reached(to) ==
    IF Bound(to) # {} THEN Bound(to)
                      ELSE UNION {Bound(w) : w \in {v \in Wildcards : to \in Covered[v]}}

\* A full queue takes no more: the connection attempt times out.
Queued(t) ==
    LET call == IF running_flag[t] THEN "early" ELSE "late"
    IN  IF Len(backlog[t]) < Backlog
          THEN [backlog EXCEPT ![t] = Append(@, call)] ELSE backlog

-----------------------------------------------------------------------------
(* sync_listeners *)

\* One configuration: the passes over a list of them, and its deduplication, come to this.
Desired == IF config.enabled /\ config.addr # None THEN {config.addr} ELSE {}

\* Any change of the checkbox, the address or the port starts a sync.
Edit(c) ==
    /\ ui = "frame"
    /\ c # config
    /\ config' = c
    /\ ui' = "stop"
    /\ UNCHANGED <<active, target, place, addr, running_flag, backlog, stream, shared, served>>

StopFrame == UNCHANGED <<config, place, addr, backlog, stream, shared, served>>

\* Broken: lowers the flag and leaves the thread to notice.
StopSilently ==
    /\ ui = "stop"
    /\ \/ \E a \in Addrs \ Desired :
            /\ active[a] # None
            /\ active' = [active EXCEPT ![a] = None]
            /\ running_flag' = [running_flag EXCEPT ![active[a]] = FALSE]
            /\ UNCHANGED <<ui, target>>
       \/ /\ \A a \in Addrs \ Desired : active[a] = None
          /\ ui' = "start"
          /\ UNCHANGED <<active, running_flag, target>>
    /\ StopFrame

Stop ==
    /\ ui = "stop"
    /\ \/ \E a \in Addrs \ Desired :
            /\ active[a] # None
            /\ active' = [active EXCEPT ![a] = None]
            /\ running_flag' = [running_flag EXCEPT ![active[a]] = FALSE]
            /\ target' = active[a]
            /\ ui' = "knock"
       \/ /\ \A a \in Addrs \ Desired : active[a] = None
          /\ ui' = "start"
          /\ UNCHANGED <<active, running_flag, target>>
    /\ StopFrame

KnockFrame == UNCHANGED <<config, active, place, addr, running_flag, stream, served>>

Door(t) == IF addr[t] \in Wildcards THEN Loopback[addr[t]] ELSE addr[t]

\* The dummy connection that unblocks the thread just stopped.
Knock ==
    /\ ui = "knock"
    /\ \/ \E t \in Reached(Door(target)) : backlog' = Queued(t)
       \/ Reached(Door(target)) = {} /\ UNCHANGED backlog
    /\ shared' = IF Reached(Door(target)) = {target} THEN shared ELSE shared \cup {target}
    /\ target' = None /\ ui' = "stop"
    /\ KnockFrame

StartFrame == UNCHANGED <<config, target, backlog, stream, shared, served>>

\* start_listener_thread: create_reuse_listener may fail; the flag is raised before.
Spawn(t, a) ==
    /\ place[t] = "unborn" /\ \A u \in 1 .. t - 1 : place[u] # "unborn"
    /\ place' = [place EXCEPT ![t] = "accept"]
    /\ addr' = [addr EXCEPT ![t] = a]
    /\ running_flag' = [running_flag EXCEPT ![t] = TRUE]

\* Broken: keeps the entry though the address could not be bound.
StartUnbound ==
    /\ ui = "start"
    /\ \E a \in Desired : \E t \in Threads :
            /\ active[a] = None
            /\ \/ Spawn(t, a)
               \/ /\ place[t] = "unborn" /\ UNCHANGED <<place, addr>>
                  /\ running_flag' = [running_flag EXCEPT ![t] = TRUE]
            /\ active' = [active EXCEPT ![a] = t]
    /\ ui' = "frame"
    /\ StartFrame

\* The desired listener is started, unless it runs already or cannot be bound.
Start ==
    /\ ui = "start"
    /\ \/ \E a \in Desired, t \in Threads :
            /\ active[a] = None
            /\ Spawn(t, a)
            /\ active' = [active EXCEPT ![a] = t]
       \/ UNCHANGED <<active, place, addr, running_flag>>
    /\ ui' = "frame"
    /\ StartFrame

\* is_listener_running takes the text as it is; the map holds it trimmed.
Badge ==
    IF /\ config.enabled /\ ~config.spaced /\ config.addr # None
       /\ active[config.addr] # None /\ running_flag[active[config.addr]]
      THEN "Running" ELSE "Stopped"

-----------------------------------------------------------------------------
(* The accept threads and who connects to them *)

Connect(to) ==
    /\ \E t \in Reached(to) : Len(backlog[t]) < Backlog /\ backlog' = Queued(t)
    /\ UNCHANGED <<config, active, ui, target, place, addr, running_flag, stream, shared, served>>

ThreadFrame == UNCHANGED <<config, active, ui, target, running_flag>>

Accept(t) ==
    /\ place[t] = "accept" /\ backlog[t] # <<>>
    /\ stream' = [stream EXCEPT ![t] = Head(backlog[t])]
    /\ backlog' = [backlog EXCEPT ![t] = Tail(@)]
    /\ place' = [place EXCEPT ![t] = "check"]
    /\ UNCHANGED <<addr, shared, served>>
    /\ ThreadFrame

\* The loop is left: the socket is closed, and with it every connection queued there.
Leave(t) ==
    /\ place' = [place EXCEPT ![t] = "ended"]
    /\ backlog' = [backlog EXCEPT ![t] = <<>>] /\ stream' = [stream EXCEPT ![t] = None]
    /\ addr' = [addr EXCEPT ![t] = Default] /\ shared' = shared \ {t}
    /\ UNCHANGED served

Check(t) ==
    /\ place[t] = "check"
    /\ \/ /\ running_flag[t]
          /\ place' = [place EXCEPT ![t] = "recheck"]
          /\ UNCHANGED <<backlog, stream, addr, shared, served>>
       \/ ~running_flag[t] /\ Leave(t)
    /\ ThreadFrame

\* The connection goes to a handler thread of its own.
HandOver(t) ==
    /\ place' = [place EXCEPT ![t] = "accept"]
    /\ served' = served \cup {stream[t]} /\ stream' = [stream EXCEPT ![t] = None]
    /\ UNCHANGED <<backlog, addr, shared>>

\* Broken: hands over whatever it has accepted.
RecheckNothing(t) ==
    /\ place[t] \in {"check", "recheck"}
    /\ HandOver(t)
    /\ ThreadFrame

\* The flag is looked at once more before that.
Recheck(t) ==
    /\ place[t] = "recheck"
    /\ \/ running_flag[t] /\ HandOver(t)
       \/ ~running_flag[t] /\ Leave(t)
    /\ ThreadFrame

ThreadStep(t) == Accept(t) \/ Check(t) \/ Recheck(t)
SyncStep == Stop \/ Knock \/ Start

Next ==
    \/ \E c \in Edits : Edit(c)
    \/ SyncStep
    \/ \E to \in Specifics : Connect(to)
    \/ \E t \in Threads : ThreadStep(t)

Spec == Init /\ [][Next]_vars

\* Threads run, and the window finishes a sync; nobody has to connect or edit.
FairSpec == Spec /\ WF_vars(SyncStep) /\ \A t \in Threads : WF_vars(ThreadStep(t))

-----------------------------------------------------------------------------
(* Properties *)

\* A connection that came after the user had stopped its listener is never handed to
\* handle_client, however late the thread wakes.
NoServiceAfterStop == "late" \notin served

\* "Running" is shown only if a thread listens on the address and serves who connects.
BadgeIsTrue ==
    Badge = "Running" => \E t \in Threads : /\ Open(t) /\ running_flag[t]
                                            /\ addr[t] = config.addr

\* The knock ends the thread it is meant for, unless another socket could be hit instead.
StoppedSocketsClose ==
    \A t \in Threads :
        Open(t) /\ ~running_flag[t] ~> ~Open(t) \/ t \in shared
=============================================================================
