# A formal model of AJProxy

AJProxy is an intercepting HTTP/HTTPS/WebSocket proxy written in Rust: an egui
desktop program whose proxy side runs one operating system thread per client
connection (two more per WebSocket tunnel) and whose window is the main thread.
All of them meet in global, mutex-protected state (`proxy/store.rs`) and in the
file system. There is no async runtime and the locks of the store are never held across
two accesses, so the hard part of the program is what happens *between* two accesses: a
request is tested against the interceptor flag, given an id, queued, shown, decided and
woken by different threads at different times.

This directory holds TLA+ models of that machinery, TLC configurations that check
them on small instances, and machine-checked TLAPS proofs for arbitrary instances.
Paths below are relative to `src/src/` of the repository unless they start with
`src/README.md`.

    tlc -config HttpIntercept.cfg HttpIntercept      # one run
    tlapm HttpInterceptProofs.tla                    # the proofs of one component

## 1. Inventory

| Component | Source | State it keeps | Operations |
|---|---|---|---|
| HTTP interceptor | `proxy/forwarder.rs`, `proxy/mitm.rs`, `proxy/store.rs`, `ui/intercept.rs` | `INTERCEPT_ENABLED`, `NEXT_ID`, `PENDING_INTERCEPTS` (each item with the sender of its thread's channel); the window's snapshot, toggle label and check box | read, gate, pause, forward, drop, send, retry over http, answer, record; toggle, check box, Forward, Drop, Forward All |
| WebSocket tunnels and interceptor | `proxy/websocket/{handshake,tunnel,intercept,protocol}.rs`, `ui/websocket/*` | two relay threads per tunnel, `WS_INTERCEPT_ENABLED`, `PENDING_WS_FRAMES`, `FORCED_CLOSED_WS_CONNS`, `WS_CONNECTIONS`, `WS_FRAMES`, scope hosts | relay data, ping, pong and close frames, answer pings, hold, edit, forward, drop, flush, force a tunnel closed, clear |
| Traffic store and its view | `proxy/store.rs`, `app.rs` | `TRAFFIC_STORE`, the window's copy `http_entries` | push with drain, clear, sync |
| Request reader, response writer | `proxy/http_stream.rs` | a buffer per connection | read a request, answer buffered or streamed, record |
| Listeners | `proxy/listener.rs`, `ui/settings.rs` | `ACTIVE_LISTENERS` with the stop flags, the sockets, the configuration being edited | edit, sync (stop, knock, start), accept, check the flag, hand over |
| Certificate engine | `proxy/cert.rs`, `proxy/cert_installer/linux.rs`, `ui/settings.rs`, `main.rs` | two CA files, the cached key, the cache of leaf certificates, the certificate the browsers trust | ensure, generate, install, leaf; regenerate, export, trust, import |
| Frame reassembly | `proxy/websocket/reassembly.rs` | one buffer per direction | feed a fragment |
| WebSocket repeater | `proxy/websocket/repeater_client.rs`, `ui/websocket/repeater.rs` | handle and queue per tab index | connect, send, receive, drain, close a tab |
| Intruder | `intruder/mod.rs`, `ui/bruteforce.rs` | template, payload sets, their assignment to positions, the queue and results of the attack | edit, assign, build combinations (a label and the payload tried), start, stop, one batch per drawn frame |
| HTTP repeater | `proxy/repeater_engine.rs`, `ui/repeater.rs` | a row of tabs, the index of the one in front | edit, send (the window waits), open, move, close |
| Filters and rules | `proxy/filters.rs` | none (pure) | noise test, pass-through test, match and replace, header injection |
| Shell, settings, other windows | `app.rs`, `models/app.rs`, `ui/*` | the panel that is drawn, preferences | turn to a panel, send a request to another panel, presentation |
| Certificate installers | `proxy/cert_installer*` | the browsers' and the system's certificate stores | operating system tools |

How they interact: a listener accepts a connection and spawns a handler thread
(`handle_client`), which becomes a forwarder (one request) or, after `CONNECT`, a
MITM loop (many requests). Either may turn into a tunnel (a WebSocket upgrade), which
spawns the second relay thread. Handlers talk to the window only through the
store: they push an item holding an `mpsc` sender and block in `recv`; the window
clones the list every frame, and a click takes the sender out by id and sends. What
a handler finished is pushed to a store of bounded size; the window copies it when
it notices a difference. A MITM handler makes its leaf certificate with the key file that
the window's buttons may be replacing. Requests travel from the history and the interceptor
to the repeater and the intruder, which live in the window thread alone: the intruder
advances in the frames that draw its panel, the HTTP repeater blocks the window.

What is hard about it, and what makes each component correct:

* *Interleavings around the gate.* The flag, the id, the push and the `recv` are
  four steps; the window's snapshot, the removal and the send are three.
  Correct: the user's decision reaches its own request and no other, once; no thread
  is left in `recv` with nobody able to wake it; nothing passes a closed gate.
* *Failures in the middle.* Upstream errors, the fallback to `http://`, a dropped
  request on a keep-alive connection. Correct: one answer per request, nothing after
  `Connection: close`.
* *Two threads per tunnel.* They relay, answer pings, log, and write the same
  status. Correct: order and completeness in both directions, a history that tells
  the truth, a tunnel that ends when told to.
* *Timeouts.* Tunnels read with a timeout of 200 ms to look at the forced-close
  flag; keep-alive connections time out.
* *Bounded stores.* 5000 entries, the oldest 1000 go at once. Correct: the newest
  are kept without a gap and the window catches up.
* *A window that can block.* The repeaters connect on the window's thread, that of WebSockets
  without a timeout. Correct, if the call returns: what arrived meanwhile is still shown.
* *Stale state.* The window's snapshots, two controls for one flag, a leaf cache
  that outlives its CA, queues indexed by tab position, payload sets by number. Correct: a run
  signs with one key, the tab in front stays there, an attack keeps to its plan.
* *Files and restarts.* Two files make a CA; they are written one after the other, by
  whoever finds one missing. Correct: they belong together, and what browsers trust signs
  what they are served.
* *Threads that cannot see a flag.* An accept thread is told to stop while it is blocked in
  `accept`. Correct: it serves nobody after that, and it ends.

`PROJECT.json` lists the same hazards line by line, with the properties that
cover each.

## 2. Modules

| Module | What it models |
|---|---|
| `InterceptGate` | the promise of an interceptor, without threads, queues or windows: an item is passed while the gate is open, or held until the user approves or rejects it; only approved items leave |
| `HttpIntercept` | handler threads, store and window of the HTTP interceptor; implements `InterceptGate` |
| `WsTunnel` | tunnels (TLS and plain), store and windows of the WebSocket interceptor; implements `InterceptGate` as well |
| `TrafficStore` | the bounded history and the window's copy of it |
| `WsRepeater` | the tabs of the WebSocket repeater, the tables they share with the two threads of each connection, and the servers |
| `CertStore` | the CA's files, caches and installed copy, the handlers and buttons that use them, failed writes and restarts |
| `Listeners` | the accept threads, their sockets, and the window that stops and starts them |
| `Intruder` | template, payload sets, combinations and the batch engine |
| `HttpRepeater` | the row of tabs of the HTTP repeater |
| `Workbench` | the window that draws one panel at a time and carries requests between them: `Intruder` and `HttpRepeater` composed |
| `MCWsTunnel`, `MCWsRepeater`, `MCListeners`, `MCWorkbench` | what the runs start from and let the user do; claims of the repository that the code does not keep |
| `HttpInterceptProofs`, `WsTunnelProofs`, `TrafficStoreProofs`, `WsRepeaterProofs`, `CertStoreProofs`, `ListenersProofs`, `WorkbenchProofs` | inductive invariants and theorems |
| `ListLemmas` | what the proofs of the repeater and of the intruder need about lists: folds unrolled, lists joined, an element removed |

### HttpIntercept

A thread's `pc` names the place in the code it has reached (`check` is the test of
the flag in `forwarder.rs:54` / `mitm.rs:192`, `recv` the blocking receive, and so on).
`Plain` connections end after one request, `Mitm` connections loop. A request is
`<<connection, number>>` with a kind: `http`, `noise` (exempt by
`is_filtered_noise_request`) or `upgrade`. Rewriting rules, headers and bodies are
abstracted: no decision in this part of the code depends on them otherwise. A failed
upgrade of a plain connection falls through to ordinary forwarding, as in
the code; of a MITM connection, it closes.

The window is one thread: `BeginFrame` is the clone of the pending list, a click
decides rows of that snapshot, `ResolveTake` is what `resolve_pending_intercept` does
under the lock and `ResolveSend` the send after the unlock. Both controls of the
flag are there: the toggle with its label (`enabled`) and the check box of the
rules window (`intercept_requests`).

`verdict`, `upstream`, `replies`, `captured` and `guarded` are history variables:
what the user decided, what the outside saw, and whether interception was on since a
request arrived. No guard reads them.

### WsTunnel

Both directions of a tunnel run the same actions; where the two variants of the
code differ, the action says so: only TLS tunnels answer a server's ping towards
the server (`WritePong`), the server loop of a plain tunnel ignores a forced
close (`ChecksForcedClose`) and does not log the server's pongs (`LogsPong`). Every
write to a peer may fail (`Write`, `Fail`), which ends the loop that tried; `failed`
remembers which direction failed, so that `NothingIsLost` can say what may be missing. Frames are read whole. A queued frame is its slot
`<<thread, position>>`, standing for the fresh id the code draws. A drain of the queue
happens under its lock and is one step; the toggle and its flush are two, as are the
two locks of `close_ws_connection` and of `clear_ws_history`. Peers send the kinds of
frame their setup allows (`setup.ops`), may vanish at any time, and discard what was not read.

The history (`logged`, written by `Log`) is bounded: a full one gives up its `Drained` oldest
frames before the push. It has a writer besides the relay threads: "Send Frame" of the
WebSocket repeater puts a copy of its frame under the id of the first listed tunnel with the same URL
(`ClickRepeaterSend`), although the frame went over a connection of the repeater's own, or
over none. Entries carry who made the frame (`by`: a peer, the proxy, the repeater), which the
program does not keep. The count of messages of a tunnel is left out: it is shown, and makes
the window copy, nothing else.

### TrafficStore

An entry is its id; a thread takes the id and pushes later. The window compares
lengths and copies. `history` and `cleared` are history variables.

### WsRepeater

The program keys a connection's handle, its incoming frames and the notice of its
end by the *position* of a tab, and closing a tab moves the ones behind it. The model
gives each tab an identity the program does not have (`who`), and each connection the tab
and position it was opened for, so that properties can tell a tab from its successor at
the same position. The window is one thread: a repaint drains the incoming frames
(`DrainIncoming`; `Delivered` is the fold that puts a queue of messages into the tabs they
name), then the notices (`DrainDisconnects`), then handles at most one click. A click that
connects blocks it: `ClickConnect` and `SendConnecting` begin the call, `ConnectReturns` and
`SendReturns` are its return, with a connection or an error, and until then nothing is drained.
Frames of the server that come in the same read as its answer to the handshake are thrown away
(`Connect` starts with some frames received and never shown).
The receiver of a `wss://` connection holds the stream's mutex while it reads
(`receiver = "reading"`), the sender needs it to write.

### CertStore

A key pair is a number. The certificate made of it, the key, and whatever was signed with it
are that number, so "belongs to" and "is trusted" are equality. `fs::write` is an open that
truncates and a write, either of which may fail; a file cut short is `Torn`.
`ensure_ca_cert_exists` only looks whether both files are there (`Ensure`), and anyone who
finds one missing makes a new pair: main at startup, a button, or several handlers at once,
each unaware of the others. `NssDelete` and `NssAdd` are the two calls of
`certutil` in the Linux installer, on a database of the browsers that is taken to exist.
`ReadKey` runs under the key cache's mutex and keeps what it first found. `Restart` may come
between any two steps; files and databases stay, caches go.

`hurt`, `alone` and `regenerated` are history variables: they say when the program cannot
keep its promise (an import replaces the certificate alone; two writers; a write that ended
halfway with both files there; a button that asked for another CA), so that the properties
hold it to everything else.

### Listeners

The window edits one configuration; `sync_listeners` runs in the window thread after every
change, keystrokes included. A thread lowers nothing itself: `Stop` takes it from the map and
lowers its flag, `Knock` connects to its address to wake it. With `SO_REUSEPORT` an old and a
new socket may share an address, and a specific address takes connections from the wildcard:
`Reached` is the set of sockets the kernel may pick, and a knock may hit any of them. `shared`
remembers which stopped threads may have missed theirs. A thread looks at its flag twice
between `accept` and the hand-over (`Check`, `Recheck`); in between, the window may stop it.
A connection is `early` or `late` by the flag at the moment it connects. Binding
may fail, and the queue of a socket is bounded.

### Intruder, HttpRepeater and Workbench

A template is the number of its `§` marks, two of which make a position; a payload set is one
of `Lists`. `build_combinations` is translated mode by mode, the nested recursion of the
cluster bomb as a recursive function (`Cartesian`). As in the code a combination is a pair: the
label its row will show (`Labels`), and the one payload that is tried (`Tried`), which for all types
but Sniper is the first of the label. `EachCombinationOnce` compares the labels with a reference
definition by sets (`Wanted`) and says of the payloads what is left of them. The queue is popped from its end, hence reversed at the start. Before a
frame's widgets are drawn it adjusts the assignments (`Pad`) and takes a batch
(`TakeBatch`); a click is possible only after that (`Drawn`). `plan` is a history variable.

A repeater tab has an identity the program does not give it, so that "the same tab" can be
told from "the same index". Sending blocks the window: it is one step, with an answer or an
error.

`Workbench` draws one panel at a time: only its actions are enabled, and a running attack
stands still while its panel is out of view. `AddMarksPanics` is what the "Add" button does when a
byte offset falls inside a mark: the program ends, and starts anew.

### How each module is varied

Beside a definition stand broken variants of it, marked `Broken:`, each a mistake one
could make in this code (a dropped guard, a stale snapshot, a swapped order). For every
property of every passing run `PROJECT.json` names the variant that violates it.

## 3. Runs

| Run | Checks | Shows |
|---|---|---|
| `http` | types, `TheUserDecides`, `NoLostWaiter`, `IdsAreUnique`, `CloseIsFinal`, `NothingSlipsThrough`, `VerdictIsFinal`, `ImplementsGate`, `GateDecisionsAreCarriedOut` | the interceptor is safe with a plain and a keep-alive connection of two requests and any clicks, and a decided request is sent or refused in the end |
| `ws_safety` | types, `TheUserDecides`, `NoLostWaiter`, `RelayedInOrder`, `NothingIsLost`, `HistoryIsComplete`, `HistoryIsTruthful`, `ImplementsGate` | TLS and plain tunnels in four setups, writes that fail, a history that drains, and a frame of the repeater included |
| `ws_liveness` | `ForcedTunnelEnds`, `ControlFramesPass` | a TLS tunnel closed by hand ends; control frames never wait for the user |
| `traffic` | `StoreKeepsNewest`, `ViewIsASnapshot`, `ClearedStaysCleared`, `UndrainedEntriesAppear` | two recorders, several drains and clears; as long as nothing was drained the window always catches up |
| `repeater_safety` | types, `LogKeepsOrder`, `FramesAreSentOnceInOrder`, `OwnConnectionUntilTabsClose` | frames both ways while tabs open, close, move, disconnect and reconnect, and clicks that connect block the window, in three setups |
| `repeater_liveness` | `ReceivedFramesAreShown`, `ServerCloseIsNoticed`, `FramesAreTransmitted` | `ws://` connections carry frames both ways, and their end is noticed, in four setups: a tab closed before or behind the connected one, captured tunnels chosen as targets, both, and a connection that takes the place of another |
| `certs` | `OneSigner`, `FilesMatch`, `LeavesAreTrusted` | two handlers that need a leaf, every certificate button, failed writes and a restart anywhere |
| `listeners` | `NoServiceAfterStop`, `BadgeIsTrue`, `StoppedSocketsClose` | wildcard and local address of one port, stopped and started with every edit while clients connect |
| `workbench` | `AttackFollowsPlan`, `EachCombinationOnce`, `FrontTabStays`, `AttackEnds` | an attack that comes and goes from view while everything is edited; what its rows are labelled with and what they try; repeater tabs opened from elsewhere, moved and closed |

Three runs end in a violation, each of something the repository says of itself:

| Run | Claim | What the code does |
|---|---|---|
| `ws_off` | "If turned OFF, flush any pending frames in queue so proxy threads unblock" (`ui/websocket/intercept.rs:79`) | a frame that passed the test of the flag just before is queued after the flush, and its thread waits for good |
| `traffic_drained` | captured traffic is shown "in real time" (`src/README.md:53`) | only lengths are compared: a drained store that grows back to the length of the copy is not copied |
| `repeater_closed_tab` | "Send to active repeater socket connection" (`ui/websocket/repeater.rs:366`) | after a tab was closed, its successor at the position finds another tab's handle there |

The models also contain, without a run of their own, other places where code and
documents differ. They are exempted by name in the property concerned, or lie outside
what the properties promise:

* the check box of the rules window writes `INTERCEPT_ENABLED` and leaves the toggle's
  label alone (`ui/intercept.rs:307`);
* "modify method, URI, headers, or body" of a paused request (`src/README.md:56`): the text shown is
  a copy made anew in every frame (`ui/intercept.rs:281`), edits of it go nowhere, and a decision
  carries nothing but Forward or Drop;
* dropped and failed requests never enter the history (`mitm.rs:214`, `forwarder.rs:75`);
* the server loop of a plain tunnel ignores a forced close (`tunnel.rs:405`), logs
  no pongs of the server (`tunnel.rs:420`), and writes its own pong to the client while
  showing it on the way to the server (`tunnel.rs:434`);
* a full history of frames loses its oldest 1000, of whichever tunnels (`store.rs:192-194`), and no
  document speaks of a limit;
* a frame sent from the repeater is shown as one of the captured tunnel with the same URL
  (`ui/websocket/repeater.rs:373-392`);
* a client frame that went through the interceptor is sent unmasked
  (`ui/websocket/intercept.rs:36`);
* the receiver of a `wss://` repeater connection waits for the server with the stream
  locked, and a frame to send waits with it (`repeater_client.rs:88`);
* the late notice of a replaced repeater connection takes the handle of the new one
  (`ui/websocket/repeater.rs:30`), and a notice for a tab whose target was meanwhile set to a
  closed tunnel is discarded (`ui/websocket/repeater.rs:31`);
* a frame received for the position of a closed tab is shown in its successor, or, if there is
  none, discarded (`ui/websocket/repeater.rs:20`);
* connecting a repeater tab blocks the window without a timeout (`repeater_client.rs:43,73,142`), and
  frames that arrive together with the server's answer are thrown away;
* disconnecting a repeater tab leaves socket and receiver thread to the server;
* an imported CA is announced as "imported & activated" (`ui/settings.rs:203`), but its key is
  not imported, and leaves go on being signed with the old one until the program restarts, and
  after that with a key that does not belong to the certificate;
* a key file read while another thread writes it is cached for the rest of the run
  (`cert.rs:152`), and every later leaf fails;
* the badge compares the address as typed with the map that holds it trimmed
  (`listener.rs:47`), so a listener typed with a space runs and is shown as stopped;
* the dummy connection exists "so OS frees the port immediately" (`listener.rs:99`), but may
  reach another socket that shares the address, and the stopped thread waits for
  the next stranger;
* the intruder makes its results up on the spot and sends no request
  (`ui/bruteforce.rs:42-48`), while `src/README.md:77` speaks of a "Streamed execution engine
  that yields live results"; and an attack stands still while another panel is drawn;
* of a combination only the first payload is tried (`intruder/mod.rs:73,100`), the others are in
  its label alone, so "1-to-1 matching across positions" (`src/README.md:69`) and the cartesian
  product try the payloads of the first position, some of them many times;
* a Sniper attack takes for each position the set assigned to it (`intruder/mod.rs:46`), not "a
  single payload set" (`src/README.md:67`);
* deleting a payload set shifts the sets behind it and leaves the positions' indices as they
  were (`ui/bruteforce.rs:279`);
* `add_marker` slices bytes at character positions (`intruder/mod.rs:111`): behind a mark it
  marks the wrong text, or panics;
* closing a repeater tab left of the one in front brings another one to the front
  (`ui/repeater.rs:192`).

The interceptor of HTTP requests has the same gap between flag and queue as
`ws_off`, but nothing in the repository promises that turning it off releases
anything, so there it is modelled and not counted a defect.

### Bounds, and why they are enough

* `MaxRequests = 2`: the second request on a keep-alive connection is where a
  forgotten close, a reused id or a stale row shows. With one plain and one keep-alive
  connection two threads can be in `recv` while a snapshot is stale, which is what
  "Forward All" and resolution by id can get wrong.
* `IdSpace = 20` is beyond what the threads can draw; the wrap of the `u32` is not
  modelled.
* `MaxFrames` and `Setups` of `WsTunnel`: one frame in each direction for the races between
  the two threads and the window, two in one direction for order and loss, and one frame of
  every kind for each variant of the tunnel. A setup says which tunnels are TLS, how many
  frames each peer sends, of which kinds, what the user turns held frames into, and how many frames
  the repeater sends; a run explores every setup of its set (`MCWsTunnel`).
* `Capacity = 2`, `Drained = 1` in `WsTunnel`: two relayed frames and one of the repeater, or the
  pings, pongs and frames of the last two setups, fill the history and drain it, with something
  left over.
* `Capacity = 3`, `Drained = 2`, `MaxEntries = 6` let the store fill and drain twice, with
  entries left over and a clear anywhere; one entry
  more than fits after a drain is what hides entries from the window.
* `MaxPairs = 3`, `MaxRuns = 2`, two handlers and one domain in `CertStore`: a pair that is
  found, one that replaces it and one made at the same time by a second writer; one restart is
  what separates what was written from what was cached. When the pairs are used up nothing
  more can happen, so deadlock is not checked there.
* `MaxThreads = 3`, `Backlog = 1` in `Listeners`: a listener, its successor at the same or
  the other address, and a third that finds both; one queued connection is what a knock can be lost
  behind. The program's backlog is 128.
* `MaxMarks = 4` (two positions), `MaxSets = 2`, lists of two and three payloads, one of which
  has a payload twice, `Typed = {0, 3}`: sets of unequal length, a deleted set, a batch of nothing and one larger than what
  is left. `MaxRepeaterTabs = 3` puts a tab on both sides of the one in front. `Views` keeps the user of
  `Workbench` to one of two sets of panels, because intruder and repeater otherwise
  multiply without meeting: a request is carried to each in one of them.
* `MaxTabs = 2` tabs at a time and one close are what it takes for a position to change
  hands, two connections for one to replace the other, two frames for order. A setup of
  `WsRepeater` bounds what could go on for ever: tabs opened, tabs closed, targets
  chosen, clicks on "Send Frame", frames served, connections opened (`MCWsRepeater`). Each of
  what excuses the code in the liveness properties, a closed tab and a target chosen, happens
  in a setup, alone and together;
  `MaxOpened`, `MaxSends` and `MaxFrames` bound the setups.

No symmetry is used: the instances have one connection of each sort.

### Fairness

Weak fairness of each thread's own steps (`ThreadStep`, `RelayStep`): the operating
system schedules threads; the upstream agent has a timeout of 60 s, a tunnel's reads
one of 200 ms, and writes return or fail. Weak fairness of what the window does after a
click (`Resolve`, `Finish`) and of its sync: the window repaints at least every 100 ms
and a click handler runs to its end. In `WsRepeater` both threads of a connection
are scheduled, and the repeater's window is shown and repaints: its notices wait
while another window is open. No fairness is given to the return of a call that connects, since the code sets no
timeout: it may block the window for ever, and then no repaint is enabled. `ReceivedFramesAreShown` and
`ServerCloseIsNoticed` say so: their premise `CallsReturn` is that the window is unblocked again and
again. `FramesAreTransmitted` needs no window and has no such premise. In `Listeners` accept threads are scheduled and a sync is finished
once begun (its connect has a timeout). In `Workbench` a running attack asks for its next
repaint itself (`ui/bruteforce.rs:63-70`), and its delay is assumed to pass: "inf" typed there
parses as a number that never does. Nothing is assumed of clients, servers or the
user: requests need not come, nobody has to connect, and no click need ever happen.

## 4. Proofs

Every theorem holds for any sets of threads, connections, tunnels or tabs and any bounds; it
rests on the named assumptions about constants in the module it is about (sizes are
numbers, sets that must differ do) and on nothing else.

| Module | Theorem | States |
|---|---|---|
| `HttpInterceptProofs` | `TypeCorrect` | `Spec => []TypeOK` |
| | `UserDecides` | `Spec => []TheUserDecides` |
| | `NoWaiterIsLost` | `Spec => []NoLostWaiter` |
| | `IdsNameOneRequest` | `Spec => []IdsAreUnique` |
| | `NothingFollowsClose` | `Spec => []CloseIsFinal` |
| | `InterceptionIsComplete` | `Spec => NothingSlipsThrough` |
| | `VerdictsAreFinal` | `Spec => VerdictIsFinal` |
| | `HandlersImplementGate` | `Spec => ImplementsGate` |
| `WsTunnelProofs` | `TypeCorrect` | `Spec => []TypeOK` |
| | `UserDecides`, `NoWaiterIsLost` | `Spec => []TheUserDecides`, `[]NoLostWaiter` |
| | `OrderIsKept`, `NoFrameIsLost` | `Spec => []RelayedInOrder`, `[]NothingIsLost` |
| | `HistoryMissesNothing`, `HistoryTellsTheTruth` | `Spec => []HistoryIsComplete`, `[]HistoryIsTruthful` |
| | `ControlFramesNeverWait` | who tests the gate, queues a frame or waits has read a data frame |
| | `FramesAreDecidedOnce` | no click, drain or flush decides a frame again |
| | `TunnelsImplementGate` | `Spec => ImplementsGate` |
| `TrafficStoreProofs` | `TypeCorrect` | `Spec => []TypeOK` |
| | `StoreIsComplete`, `ViewIsAPiece`, `ClearedIsGone` | `Spec => []StoreKeepsNewest`, `[]ViewIsASnapshot`, `[]ClearedStaysCleared` |
| | `LengthsTellCopies` | before anything is drained, a copy as long as the store is the store |
| `WsRepeaterProofs` | `TypeCorrect` | `Spec => []TypeOK` |
| | `ChannelsAreFaithful`, `LogsKeepOrder` | `Spec => []FramesAreSentOnceInOrder`, `[]LogKeepsOrder` |
| | `OwnConnections` | `Spec => []OwnConnectionUntilTabsClose` |
| `CertStoreProofs` | `TypeCorrect` | `Spec => []TypeOK` |
| | `OneSignerInEachRun`, `FilesBelongTogether`, `LeavesTrusted` | `Spec => []OneSigner`, `[]FilesMatch`, `[]LeavesAreTrusted` |
| `ListenersProofs` | `TypeCorrect` | `Spec => []TypeOK` |
| | `StoppedServesNobody`, `BadgeTellsTheTruth` | `Spec => []NoServiceAfterStop`, `[]BadgeIsTrue` |
| | `StoppedThreadsAreWoken` | a stopped thread in `accept` has something to accept or is about to be knocked at, unless another socket could be hit |
| `WorkbenchProofs` | `AttackIsPlanned` | `Spec => []AttackFollowsPlan` |
| | `PlansAreComplete` | `Spec => []EachCombinationOnce` |
| | `AttackProceeds` | no step lengthens the queue of a running attack or changes its plan, and a batch always takes some of it |
| | `SelectedSetExists` | the selected payload set is there, so deleting it cannot panic (`ui/bruteforce.rs:279`) |
| | `TabsStayApart` | `Spec => []RepeaterTypeOK`: a tab in front, and no two mixed up |
| | `FrontTabIsKept` | `Spec => FrontTabStays` |

Each module proves that an invariant `Inv` holds initially and is kept by every step, action
by action and conjunct by conjunct, and draws the theorems from it.

### The HTTP interceptor

None of the properties is inductive. `Inv` adds what the argument needs:

* `PendingInv`: a pending row belongs to a thread in `recv` with an open channel, and
  is exactly that thread's id, connection and request. Without it a click could wake
  a thread about another request.
* `IdInv` (with `HoldsId`): ids in use are below `next_id`, and no two holders (a
  thread between taking an id and giving it up, a history entry) share one. So
  a resolution by id finds the row that was shown.
* `WindowInv`: the window alone removes rows, so what a click still has to resolve, and
  every row of the snapshot a click starts from, is still listed.
* `VerdictInv`, `UpstreamInv`, `RepliesInv`: where a thread stands, and whether its row is
  listed or its sender taken, determines what the user decided about its request, and what
  the outside has seen of it.
* `GuardInv`: a guarded thread past the gate has its request approved.

`InvIsInductive` goes through `Next` action by action and conjunct by conjunct. The safety
properties follow from `Inv`; the action properties from `Inv` and one step; the
refinement by showing which stage the step moves: one request for a thread's step, a set
of requests for a click, none otherwise.

### WebSocket tunnels

The safety properties speak of wires and histories, and follow only once the frame in a
thread's hands is tied to what it sent, queued and logged:

* `HandInv` and `SentInv`: the frame in hand is the last one read, of the kind it had unless the
  user changed it.
* `DecisionInv` and `PendingInv`: a queued frame is undecided and its thread waits with it; what
  a channel holds is what the user decided.
* `WireInv`: only frames a thread is done with are on the wire.
* `LoggedInv` and `SeenInv`: where a thread stands tells whether its frame is in the history
  yet (`Early`) or already (`Late`). `ClearInv`: while the history is being cleared no tunnel
  is listed, so nothing can be missed.
* `PongInv`: a pong the proxy made is on the wire it was logged for, or about to be.
* `SeenInv` says `Remembered`, not "is there": a drain takes the oldest. That only newer frames of
  the direction are then left needs `LoggedOrder`: the frames of one direction are logged in the order
  their sender sent them, whatever others are logged between them.

`TunnelsImplementGate` maps a slot `<<thread, position>>` to an item of the gate: the step of a
relay thread moves the frame in its hand, a click the queued frames it decides, a toggle the gate.

### Traffic store

`StoreInv` says entry by entry that the store is the end of what was recorded; `ViewInv` that
the window's copy is a piece of it that lies behind the last clear, which is what
`ClearedStaysCleared` needs together with `IdInv`: no id is recorded twice. `LengthsTellCopies`
follows: a piece behind the last clear that is as long as all there is can only be all there is.
After a drain it need not be, which is the violation `traffic_drained` ends in.

### WebSocket repeater

The senders, the readers and the tabs meet only in the channels, the queue of incoming frames
and the table of handles; the invariant has a part for each, and a lemma lists the few ways in
which any step touches it (`StepOnChannels`, `StepOnReaders`, `StepOnTabs`).

* `FramesAreSentOnceInOrder` is nearly inductive: what was queued is what was written, what is
  in the sender's hand and what the channel holds, in this order. `QuietInv` adds that a sender
  that is not writing has nothing in its hand.
* `LogKeepsOrder` is not: a frame is put behind a log that knows nothing of the queue. `QueueInv`
  says that the queue is in order and holds nothing beyond what each receiver has pushed
  (`Pushed`: what it read, less the frame it may still hold), `ReaderInv` that a receiver numbers
  upwards (and has read nothing before it is opened), and `LogInv` that every log is in order, within those marks, and behind nothing still
  in the queue. The last is needed for *every* log, since a closed tab's frames go to
  its successor. `Delivered` is a fold over the queue; `DeliveredFacts` goes up
  the queue frame by frame with logs that are in order before what is left of it (`Before`).
* `OwnConnectionUntilTabsClose` needs `HandlesInv`: until a tab is closed, the handle at a
  position was opened by the tab at that position. `CallInv` adds that a click that connects
  finds its tab still there when it returns. A lost connection, a reconnection or a late
  notice may take a handle away, but no step before the first close puts one elsewhere.

### Certificate engine

`WriterInv` is the heart of it: while the files are not hurt whoever writes is alone, and has the
certificate of its own pair in place when it comes to the key. `FileInv` says that files nobody
is changing match. `KeyInv` ties the cached key to the file, and `SignerInv` every leaf to the
cached key; `TrustInv` says that files in order are installed, or about to be. The three
theorems are conjuncts of these, read at rest.

### Listeners

`LateInv`: a connection that came too late waits only at a thread that was told to stop, where
it meets a lowered flag; `ActiveInv`: what the map holds is open, serves, and has that
address. `WokenInv` is the safety half of `StoppedSocketsClose`: what a knock puts into the queue
of the stopped thread stays there until that thread takes it, and a full queue wakes it just
as well.

### Intruder and HTTP repeater

`SettingsOK` and `AttackOK` say what settings and attacks are made of; `AttackFollowsPlan` is
inductive with them.

`EachCombinationOnce` is a fact about `build_combinations` in any state with good settings
(`PlanIsComplete`): `LabelsAreComplete` for what the rows show, from one lemma for each type of attack, and
`TriedIsAssigned` for the payloads they try. Two of the types rest on recursive
functions, `FlattenSeq` and `Cartesian`. The library's induction theorems take an operator as a
parameter, so `ListLemmas` puts induction over *sets* of numbers in their place (`Upward`, from a
least counterexample), shows that a function recursive on `0 .. n` exists and what its values are
(`Recursion`), and from these what joining a sequence of lists has for elements and when it
repeats none (`FlattenFacts`). `Cartesian` is then followed from the last position to the first:
what it yields from a position on is every choice for the positions from there on
(`CombinationsFrom`), and each once since different heads make different rows (`RowsApart`).
Nothing keeps a user from entering a payload twice. Then it is tried twice, and only
the count in `EachCombinationOnce` is conditional on that (`NoRepeats`), not its coverage.

That a free identity for a new tab exists is the pigeonhole principle (`FreshIdExists`).

### Only model-checked

Every invariant and every action property that a passing run checks is also a theorem. What is left
is liveness, since fairness and `ENABLED` are beyond the prover:

| Property | What of it is proved |
|---|---|
| `GateDecisionsAreCarriedOut` | what was decided is decided for good, and who waits was not forgotten (`VerdictsAreFinal`, `NoWaiterIsLost`) |
| `ControlFramesPass` | a control frame never comes to where its thread could wait (`ControlFramesNeverWait`) |
| `ForcedTunnelEnds` | nothing: it rests on each thread running and each read timing out |
| `UndrainedEntriesAppear` | while an undrained store differs from its copy, their lengths do (`LengthsTellCopies`) |
| `ReceivedFramesAreShown`, `ServerCloseIsNoticed`, `FramesAreTransmitted` | nothing is lost, doubled or reordered on the way (`ChannelsAreFaithful`, `LogsKeepOrder`), not that it gets there; the first two are claimed only if clicks that connect return |
| `StoppedSocketsClose` | a stopped thread has something to wake it (`StoppedThreadsAreWoken`) |
| `AttackEnds` | every batch takes some of the queue and nothing adds to it (`AttackProceeds`) |

## 5. Not modelled, and the plan

Not modelled in `HttpIntercept`: the text of requests and responses, the rewriting rules,
streaming of responses, and the wrap of ids. In `WsTunnel`: partial frames, fragments, the count of
messages, and the mutexes around TLS streams (no thread takes one while it holds another, so they order
steps and cannot block them for good); that a click takes a frame out of the queue and then
sends its answer is one step, since nobody else can reach a frame taken out. In `WsRepeater`: a part of a frame that comes with the answer to the handshake,
after which the receiver would read from the middle of it, and an answer longer than one read. In `CertStore`: what certificates contain besides their key,
the system's certificate store, and the installers for Windows and macOS. In `Listeners`: lists of
several listeners (the window edits one) and `start_single_listener`, which nothing calls. In
`Workbench`: the delay between batches, the filter of the result table, the names and target fields
of tabs. Presentation, string matching (filters, rules, codecs, the comparer) and the
export dialogs are left out altogether: they decide nothing that another part relies on.

The hazards in `PROJECT.json` that no property covers say why there. What is left,
in order of what the behaviour is worth:

1. `WsFraming`: a read of `read_exact` under a timeout of 200 ms loses the bytes it already had
   (`websocket/protocol.rs:76`). Composed with `WsTunnel` it would show which of
   its properties survive.
2. `Reassembly`: fragments against a reference definition, over all short sequences of
   fragments and decisions (`websocket/reassembly.rs:17`).
3. `HttpStream`: the request reader with partial reads; framing of answers.
4. Proofs: that two tabs of the WebSocket repeater never share an identity and logs only
   grow; how many choices a plan has when lists repeat payloads.
