------------------------ MODULE HttpInterceptProofs ------------------------
(***************************************************************************)
(* Proofs about HttpIntercept for any number of connections, requests and  *)
(* ids: the inductive invariant, the safety properties that follow from    *)
(* it, and the refinement of InterceptGate.                                *)
(***************************************************************************)
EXTENDS HttpIntercept, TLAPS

\* A listed request belongs to a thread that waits for exactly that id.
PendingInv ==
    \A row \in pending_intercepts :
        /\ pc[row.conn] = "recv"
        /\ responder[row.conn] = "open"
        /\ entry_id[row.conn] = row.id
        /\ req[row.conn] = row.req
        /\ sender # row.conn

\* Ids handed out and not yet recorded, or recorded, are below the counter and
\* pairwise different.
HoldsId(c) == pc[c] \in {"push", "recv", "record"}

IdInv ==
    /\ \A c \in Conn : HoldsId(c) => entry_id[c] \in Ids /\ entry_id[c] < next_id
    /\ \A c, d \in Conn : HoldsId(c) /\ HoldsId(d) /\ entry_id[c] = entry_id[d] => c = d
    /\ \A e \in captured :
         /\ e.id < next_id
         /\ \A c \in Conn : HoldsId(c) => entry_id[c] # e.id
         /\ e.req <= req[e.conn]
         /\ e.req = req[e.conn] => pc[e.conn] \in {"read", "closed", "tunnel"}
    /\ \A a, b \in captured : a.id = b.id \/ (a.conn = b.conn /\ a.req = b.req) => a = b

\* The window resolves only what is still listed: it alone removes rows.
WindowInv ==
    /\ todo \subseteq pending_intercepts
    /\ ui # "resolving" => todo = {} /\ sender = None
    /\ ui = "frame" => pending_list \subseteq pending_intercepts

\* Where a thread is after ReadRequest and before the gate let it pass.
Before(c) == pc[c] \in {"upgrade", "check", "take_id", "push"}

\* Verdicts: none before a request is listed, none while it is listed and not
\* being resolved, and afterwards what travels to the thread.
VerdictInv ==
    /\ \A row \in pending_intercepts :
         verdict[<<row.conn, row.req>>] = IF row \in todo THEN decision ELSE "none"
    /\ \A c \in Conn : Before(c) => verdict[Current(c)] = "none"
    /\ sender # None => /\ pc[sender] = "recv"
                        /\ responder[sender] = "open"
                        /\ verdict[Current(sender)] = decision
    /\ \A c \in Conn : responder[c] \in Decisions =>
         pc[c] = "recv" /\ verdict[Current(c)] = responder[c]
    /\ \A r \in Requests : verdict[r] # "none" => r[2] <= req[r[1]]
    /\ \A c \in Conn : pc[c] \notin {"read", "closed", "recv"} => verdict[Current(c)] # "Drop"
    /\ \A c \in Conn : pc[c] \in {"push", "recv"} => responder[c] # "none"

\* What went upstream agrees with where the threads are.
UpstreamInv ==
    /\ \A c \in Conn : pc[c] \notin {"read", "closed"} => req[c] >= 1
    /\ \A c \in Conn : pc[c] = "upgrade" => kind[c] = "upgrade"
    /\ \A r \in upstream :
         /\ r[2] <= req[r[1]]
         /\ verdict[r] # "Drop"
         /\ r[2] = req[r[1]] => ~ Before(r[1]) /\ pc[r[1]] \notin {"recv", "send"}
    /\ \A c \in Conn : pc[c] \in {"fallback", "respond", "failed", "take_entry_id", "record"}
         => Current(c) \in upstream

\* So does what was answered; after an answer with "Connection: close" the
\* thread is gone.
RepliesInv ==
    /\ \A p \in replies :
         /\ p.req <= req[p.conn]
         /\ p.req = req[p.conn] =>
              pc[p.conn] \in {"take_entry_id", "record", "read", "tunnel", "closed"}
         /\ p.kind = "dropped" => verdict[<<p.conn, p.req>>] = "Drop"
         /\ p.kind \in {"dropped", "error"} => pc[p.conn] = "closed" /\ p.req = req[p.conn]
    /\ \A p, q \in replies : p.conn = q.conn /\ p.req = q.req => p = q

\* Interception that was never off since the request came in.
GuardInv ==
    \A c \in Conn : guarded[c] =>
        /\ intercept_enabled
        /\ pc[c] = "send" /\ kind[c] = "http" => verdict[Current(c)] = "Forward"

Inv == TypeOK /\ PendingInv /\ IdInv /\ WindowInv /\ NoLostWaiter
              /\ VerdictInv /\ UpstreamInv /\ RepliesInv /\ GuardInv

\* The value that stands for "no sender taken" is no connection.
LEMMA NoneIsNoConnection == \A c \in Conn : c # None
BY ConnectionsAssumption DEF Conn

\* Away from the two ends of its loop, a thread has a request.
LEMMA CurrentIsRequest ==
    ASSUME Inv, NEW c \in Conn, pc[c] \notin {"read", "closed"}
    PROVE  req[c] \in 1 .. MaxRequests /\ Current(c) \in Requests
BY DEF Inv, TypeOK, UpstreamInv, Requests, Current

\* The invariant holds when the program starts: interception is off, nothing is
\* listed, no thread has read a request and the first id is 1.
LEMMA InitEstablishesInv == Init => Inv
<1>. SUFFICES ASSUME Init PROVE Inv
  OBVIOUS
<1>1. TypeOK
  <2>1. 1 \in Ids /\ 0 \in 0 .. MaxRequests /\ 0 \in 0 .. IdSpace
    BY BoundsAssumption DEF Ids
  <2>2. /\ pc \in [Conn -> Places] /\ req \in [Conn -> 0 .. MaxRequests]
        /\ kind \in [Conn -> Kinds] /\ entry_id \in [Conn -> 0 .. IdSpace]
        /\ responder \in [Conn -> {"none", "open"} \cup Decisions]
        /\ guarded \in [Conn -> BOOLEAN]
        /\ verdict \in [Requests -> {"none"} \cup Decisions]
    BY <2>1 DEF Init, Places, Kinds
  <2>. QED BY <2>1, <2>2 DEF Init, TypeOK, Decisions
<1>2. PendingInv /\ WindowInv /\ NoLostWaiter
  BY DEF Init, PendingInv, WindowInv, NoLostWaiter
<1>3. IdInv
  BY DEF Init, IdInv, HoldsId
<1>4. VerdictInv
  BY DEF Init, VerdictInv, Before, Decisions
<1>5. UpstreamInv /\ RepliesInv /\ GuardInv
  BY DEF Init, UpstreamInv, RepliesInv, GuardInv
<1>. QED BY <1>1, <1>2, <1>3, <1>4, <1>5 DEF Inv

\* A first answer to the request the thread is working on.
LEMMA ReplyKeepsRepliesInv ==
    ASSUME Inv, NEW c \in Conn, pc[c] \in {"upgrade", "recv", "respond", "failed"},
           NEW k \in {"response", "dropped", "error", "switching"}, Reply(c, k),
           NEW place \in {"take_entry_id", "closed"}, Goto(c, place),
           UNCHANGED <<req, verdict>>,
           k = "dropped" => verdict[Current(c)] = "Drop",
           k \in {"dropped", "error"} => place = "closed"
    PROVE  RepliesInv'
<1>. DEFINE new == [conn |-> c, req |-> req[c], kind |-> k]
<1>1. replies' = replies \cup {new} /\ pc' = [pc EXCEPT ![c] = place]
  BY DEF Reply, Goto
<1>2. new.conn = c /\ new.req = req[c] /\ new.kind = k /\ req[c] \in Nat
  BY DEF Inv, TypeOK
<1>3. \A p \in replies : p.conn = c => p.req # req[c] /\ p.kind \notin {"dropped", "error"}
  BY DEF Inv, RepliesInv
<1>. HIDE DEF new
<1>4. \A p \in replies' :
         /\ p.req <= req[p.conn]
         /\ p.req = req[p.conn] =>
              pc'[p.conn] \in {"take_entry_id", "record", "read", "tunnel", "closed"}
         /\ p.kind = "dropped" => verdict[<<p.conn, p.req>>] = "Drop"
         /\ p.kind \in {"dropped", "error"} => pc'[p.conn] = "closed" /\ p.req = req[p.conn]
  <2>. SUFFICES ASSUME NEW p \in replies'
                PROVE  /\ p.req <= req[p.conn]
                       /\ p.req = req[p.conn] =>
                            pc'[p.conn] \in {"take_entry_id", "record", "read", "tunnel", "closed"}
                       /\ p.kind = "dropped" => verdict[<<p.conn, p.req>>] = "Drop"
                       /\ p.kind \in {"dropped", "error"} =>
                            pc'[p.conn] = "closed" /\ p.req = req[p.conn]
    OBVIOUS
  <2>1. CASE p = new
    BY <1>1, <1>2, <2>1 DEF Inv, TypeOK, Current
  <2>2. CASE p \in replies /\ p.conn = c
    BY <1>1, <1>3, <2>2 DEF Inv, RepliesInv
  <2>3. CASE p \in replies /\ p.conn # c
    BY <1>1, <2>3 DEF Inv, TypeOK, RepliesInv, Replies
  <2>. QED BY <1>1, <2>1, <2>2, <2>3
<1>5. \A p, q \in replies' : p.conn = q.conn /\ p.req = q.req => p = q
  BY <1>1, <1>2, <1>3 DEF Inv, RepliesInv
<1>. QED BY <1>4, <1>5 DEF RepliesInv

\* The current request leaves for the server.
LEMMA SendKeepsUpstreamInv ==
    ASSUME Inv, NEW c \in Conn, pc[c] \in {"upgrade", "send"},
           upstream' = upstream \cup {Current(c)},
           NEW place \in {"take_entry_id", "respond", "failed", "fallback"}, Goto(c, place),
           UNCHANGED <<req, verdict, kind>>
    PROVE  UpstreamInv'
<1>1. pc' = [pc EXCEPT ![c] = place] /\ Current(c) \in Requests /\ req[c] \in 1 .. MaxRequests
  BY CurrentIsRequest DEF Goto
<1>2. verdict[Current(c)] # "Drop"
  BY DEF Inv, VerdictInv
<1>3. \A r \in upstream' :
         /\ r[2] <= req[r[1]]
         /\ verdict[r] # "Drop"
         /\ r[2] = req[r[1]] => ~ Before(r[1])' /\ pc'[r[1]] \notin {"recv", "send"}
  BY <1>1, <1>2 DEF Inv, TypeOK, UpstreamInv, Before, Current, Requests
<1>4. \A d \in Conn : pc'[d] \in {"fallback", "respond", "failed", "take_entry_id", "record"}
         => Current(d)' \in upstream'
  BY <1>1 DEF Inv, TypeOK, UpstreamInv, Current
<1>5. \A d \in Conn : /\ pc'[d] \notin {"read", "closed"} => req'[d] >= 1
                      /\ pc'[d] = "upgrade" => kind'[d] = "upgrade"
  BY <1>1 DEF Inv, TypeOK, UpstreamInv
<1>. QED BY <1>3, <1>4, <1>5 DEF UpstreamInv

\* A click on rows of the snapshot: their requests wait, undecided.
LEMMA DecideKeepsVerdictInv ==
    ASSUME Inv, NEW rows \in SUBSET pending_list, NEW d \in Decisions, Decide(rows, d)
    PROVE  VerdictInv' /\ UpstreamInv' /\ RepliesInv' /\ GuardInv'
<1>1. /\ rows \subseteq pending_intercepts /\ todo = {} /\ sender = None
      /\ UNCHANGED <<store, threads, sender, upstream, replies, guarded>>
      /\ todo' = rows /\ decision' = d
  BY DEF Decide, Inv, WindowInv
<1>2. \A row \in pending_intercepts :
        /\ <<row.conn, row.req>> \in Requests /\ row.conn \in Conn
        /\ pc[row.conn] = "recv" /\ responder[row.conn] = "open" /\ req[row.conn] = row.req
        /\ verdict[<<row.conn, row.req>>] = "none"
  BY <1>1 DEF Inv, TypeOK, PendingInv, VerdictInv, Rows, Requests
<1>3. \A r \in Requests : verdict'[r] = IF \E row \in rows : r = <<row.conn, row.req>>
                                        THEN d ELSE verdict[r]
  BY DEF Decide
<1>4. \A c \in Conn : pc[c] # "recv" /\ Current(c) \in Requests =>
        verdict'[Current(c)] = verdict[Current(c)]
  BY <1>1, <1>2, <1>3 DEF Current
<1>5. \A row \in pending_intercepts : row \notin rows => verdict'[<<row.conn, row.req>>] = "none"
  <2>. SUFFICES ASSUME NEW row \in pending_intercepts, row \notin rows,
                       NEW other \in rows, <<other.conn, other.req>> = <<row.conn, row.req>>
                PROVE  FALSE
    BY <1>2, <1>3
  <2>1. other.id = row.id /\ other.conn = row.conn /\ other.req = row.req
    BY <1>1 DEF Inv, PendingInv
  <2>. QED BY <1>1, <2>1 DEF Inv, TypeOK, Rows
<1>6. VerdictInv'
  <2>1. \A row \in pending_intercepts' :
           verdict'[<<row.conn, row.req>>] = IF row \in todo' THEN decision' ELSE "none"
    BY <1>1, <1>2, <1>3, <1>5 DEF store
  <2>2. \A r \in Requests : verdict'[r] # "none" => r[2] <= req'[r[1]]
    BY <1>1, <1>2, <1>3 DEF Inv, TypeOK, VerdictInv, Requests, threads
  <2>3. \A c \in Conn : responder'[c] \in Decisions =>
           pc'[c] = "recv" /\ verdict'[Current(c)'] = responder'[c]
    <3>. SUFFICES ASSUME NEW c \in Conn, responder[c] \in Decisions
                  PROVE  pc[c] = "recv" /\ verdict'[Current(c)] = responder[c]
      BY <1>1 DEF threads, Current
    <3>1. pc[c] = "recv" /\ verdict[Current(c)] = responder[c] /\ Current(c) \in Requests
      BY CurrentIsRequest DEF Inv, VerdictInv
    <3>2. \A row \in rows : row.conn # c
      BY <1>1, <1>2 DEF Decisions
    <3>. QED BY <1>3, <3>1, <3>2 DEF Current
  <2>. QED BY <1>1, <1>4, <2>1, <2>2, <2>3, CurrentIsRequest
           DEF Inv, VerdictInv, threads, Before, Current
<1>7. UpstreamInv'
  <2>1. \A r \in upstream : verdict'[r] = verdict[r]
    BY <1>1, <1>2, <1>3 DEF Inv, TypeOK, UpstreamInv
  <2>. QED BY <1>1, <2>1 DEF Inv, UpstreamInv, threads, Before, Current
<1>8. RepliesInv'
  <2>1. \A p \in replies : verdict[<<p.conn, p.req>>] = "Drop" =>
           verdict'[<<p.conn, p.req>>] = "Drop"
    BY <1>1, <1>2, <1>3 DEF Inv, TypeOK, Replies, Requests
  <2>. QED BY <1>1, <2>1 DEF Inv, RepliesInv, threads
<1>9. GuardInv'
  BY <1>1, <1>4, CurrentIsRequest DEF Inv, GuardInv, store, threads, Current
<1>. QED BY <1>6, <1>7, <1>8, <1>9

\* PushPending lists the request of a thread whose channel is open and undecided.
LEMMA AppendRow ==
    ASSUME Inv, NEW c \in Conn, PushPending(c)
    PROVE  PendingInv' /\ NoLostWaiter' /\ VerdictInv'
<1>. DEFINE new == [id |-> entry_id[c], conn |-> c, req |-> req[c]]
<1>1. /\ pc[c] = "push" /\ pending_intercepts' = pending_intercepts \cup {new}
      /\ pc' = [pc EXCEPT ![c] = "recv"]
      /\ UNCHANGED <<req, entry_id, responder, sender, todo, decision, verdict>>
  BY DEF PushPending, Goto, window, outside
<1>2. new.id = entry_id[c] /\ new.conn = c /\ new.req = req[c]
  OBVIOUS
<1>3. sender # c /\ responder[c] = "open" /\ verdict[Current(c)] = "none"
  BY <1>1, NoneIsNoConnection DEF Inv, TypeOK, VerdictInv, Before
<1>4. new \notin todo
  BY <1>1, <1>2 DEF Inv, WindowInv, PendingInv
<1>. HIDE DEF new
<1>5. PendingInv'
  BY <1>1, <1>2, <1>3 DEF Inv, TypeOK, PendingInv
<1>6. NoLostWaiter'
  BY <1>1, <1>2, <1>3 DEF new, Inv, TypeOK, NoLostWaiter
<1>7. VerdictInv'
  BY <1>1, <1>2, <1>3, <1>4 DEF Inv, TypeOK, VerdictInv, Before, Current
<1>. QED BY <1>5, <1>6, <1>7

\* Finding a listed row by its id finds that row.
LEMMA OnlyOneRowPerId ==
    ASSUME Inv, NEW a \in pending_intercepts, NEW b \in pending_intercepts, a.id = b.id
    PROVE  a = b
<1>1. /\ a.conn \in Conn /\ b.conn \in Conn
      /\ HoldsId(a.conn) /\ HoldsId(b.conn)
      /\ entry_id[a.conn] = entry_id[b.conn]
  BY DEF Inv, TypeOK, Rows, PendingInv, HoldsId
<1>2. a.conn = b.conn /\ a.req = b.req
  BY <1>1 DEF Inv, IdInv, PendingInv
<1>. QED BY <1>2 DEF Inv, TypeOK, Rows

\* Every step of a handler thread, every click and every part of
\* resolve_pending_intercept keeps the invariant; one step of the proof per action,
\* below it one per conjunct.
LEMMA InvIsInductive == ASSUME Inv, [Next]_vars PROVE Inv'
<1>1. ASSUME NEW c \in Conn, ReadRequest(c) PROVE Inv'
  <2>1. TypeOK'
    BY <1>1, BoundsAssumption DEF ReadRequest, store, Inv, TypeOK, window, outside, Kinds,
       Places, Goto
  <2>2. PendingInv' BY <1>1 DEF ReadRequest, store, Inv, PendingInv, window, Goto
  <2>3. IdInv'
    BY <1>1 DEF ReadRequest, store, Inv, IdInv, outside, TypeOK, HoldsId, Goto, Requests,
       Decisions, Ids, Rows, Replies
  <2>4. WindowInv' BY <1>1 DEF ReadRequest, store, Inv, WindowInv, window
  <2>5. NoLostWaiter' BY <1>1 DEF ReadRequest, store, Inv, NoLostWaiter, window, Goto
  <2>6. VerdictInv'
    <3>1. PICK place \in {"upgrade", "check"} : pc' = [pc EXCEPT ![c] = place]
      BY <1>1 DEF ReadRequest, Goto
    <3>2. /\ req' = [req EXCEPT ![c] = req[c] + 1] /\ pc[c] = "read"
          /\ req[c] + 1 \in 1 .. MaxRequests
          /\ UNCHANGED <<verdict, responder, sender, decision, todo, pending_intercepts>>
      <4>1. req[c] < MaxRequests /\ req[c] \in Nat
        BY <1>1, BoundsAssumption DEF ReadRequest, Inv, TypeOK
      <4>. QED BY <1>1, <4>1, BoundsAssumption DEF ReadRequest, outside, window, store
    <3>3. verdict[<<c, req[c] + 1>>] = "none" /\ responder[c] \notin Decisions /\ sender # c
      <4>1. <<c, req[c] + 1>> \in Requests /\ req[c] \in Nat
        BY <3>2 DEF Requests, Inv, TypeOK
      <4>. QED BY <3>2, <4>1, NoneIsNoConnection DEF Inv, VerdictInv
    <3>4. \A d \in Conn : d # c => pc'[d] = pc[d] /\ Current(d)' = Current(d)
      BY <3>1, <3>2 DEF Inv, TypeOK, Current
    <3>5. pc'[c] \in {"upgrade", "check"} /\ verdict'[Current(c)'] = "none"
      BY <3>1, <3>2, <3>3 DEF Inv, TypeOK, Current
    <3>6. \A r \in Requests : verdict'[r] # "none" => r[2] <= req'[r[1]]
      BY <3>2 DEF Inv, TypeOK, VerdictInv, Requests
    <3>. QED BY <3>1, <3>2, <3>3, <3>4, <3>5, <3>6 DEF Inv, TypeOK, VerdictInv, Before
  <2>7. UpstreamInv'
    BY <1>1 DEF ReadRequest, Inv, UpstreamInv, outside, TypeOK, Before, Current, Goto,
       Requests, Decisions
  <2>8. RepliesInv'
    BY <1>1 DEF ReadRequest, Inv, RepliesInv, outside, TypeOK, Goto, Requests, Decisions,
       Ids, Rows, Replies
  <2>9. GuardInv'
    BY <1>1 DEF ReadRequest, store, Inv, GuardInv, outside, TypeOK, Current, Goto
  <2>. QED BY <2>1, <2>2, <2>3, <2>4, <2>5, <2>6, <2>7, <2>8, <2>9 DEF Inv
<1>2. ASSUME NEW c \in Conn, ReadFails(c) PROVE Inv'
  <2>1. TypeOK' BY <1>2 DEF ReadFails, store, Inv, TypeOK, window, outside, Places, Goto
  <2>2. PendingInv' BY <1>2 DEF ReadFails, store, Inv, PendingInv, window, Goto
  <2>3. IdInv' BY <1>2 DEF ReadFails, store, Inv, IdInv, outside, HoldsId, Goto
  <2>4. WindowInv' BY <1>2 DEF ReadFails, store, Inv, WindowInv, window
  <2>5. NoLostWaiter' BY <1>2 DEF ReadFails, store, Inv, NoLostWaiter, window, Goto
  <2>6. VerdictInv'
    BY <1>2 DEF ReadFails, store, Inv, VerdictInv, window, outside, Before, Current, Goto
  <2>7. UpstreamInv' BY <1>2 DEF ReadFails, Inv, UpstreamInv, outside, Before, Current, Goto
  <2>8. RepliesInv' BY <1>2 DEF ReadFails, Inv, RepliesInv, outside, Goto
  <2>9. GuardInv' BY <1>2 DEF ReadFails, store, Inv, GuardInv, outside, Current, Goto
  <2>. QED BY <2>1, <2>2, <2>3, <2>4, <2>5, <2>6, <2>7, <2>8, <2>9 DEF Inv
<1>3. ASSUME NEW c \in Conn, UpgradeConnects(c) PROVE Inv'
  <2>1. TypeOK'
    BY <1>3 DEF UpgradeConnects, store, Inv, TypeOK, window, Requests, Replies, Places,
       UpstreamInv, Current, Goto, Reply
  <2>2. PendingInv' BY <1>3 DEF UpgradeConnects, store, Inv, PendingInv, window, Goto
  <2>3. IdInv' BY <1>3 DEF UpgradeConnects, store, Inv, IdInv, HoldsId, Goto
  <2>4. WindowInv' BY <1>3 DEF UpgradeConnects, store, Inv, WindowInv, window
  <2>5. NoLostWaiter' BY <1>3 DEF UpgradeConnects, store, Inv, NoLostWaiter, window, Goto
  <2>6. VerdictInv'
    BY <1>3 DEF UpgradeConnects, store, Inv, VerdictInv, window, Before, Current, Goto
  <2>7. UpstreamInv'
    BY <1>3, SendKeepsUpstreamInv DEF UpgradeConnects, outside
  <2>8. RepliesInv'
    BY <1>3, ReplyKeepsRepliesInv DEF UpgradeConnects
  <2>9. GuardInv' BY <1>3 DEF UpgradeConnects, store, Inv, GuardInv, Current, Goto
  <2>. QED BY <2>1, <2>2, <2>3, <2>4, <2>5, <2>6, <2>7, <2>8, <2>9 DEF Inv
<1>4. ASSUME NEW c \in Conn, UpgradeFails(c) PROVE Inv'
  <2>1. TypeOK'
    BY <1>4, BoundsAssumption DEF UpgradeFails, store, Inv, TypeOK, window, outside, Kinds,
       Places, WindowInv, Goto
  <2>2. PendingInv'
    BY <1>4 DEF UpgradeFails, store, Inv, PendingInv, window, TypeOK, Goto, Requests,
       Decisions, Ids, Rows, Replies
  <2>3. IdInv'
    <3>1. PICK place \in {"check", "closed"} : pc' = [pc EXCEPT ![c] = place]
      BY <1>4 DEF UpgradeFails, Goto
    <3>. QED BY <1>4, <3>1 DEF UpgradeFails, Inv, TypeOK, IdInv, HoldsId, store, outside
  <2>4. WindowInv' BY <1>4 DEF UpgradeFails, store, Inv, WindowInv, window
  <2>5. NoLostWaiter'
    BY <1>4 DEF UpgradeFails, store, Inv, NoLostWaiter, window, TypeOK, Goto
  <2>6. VerdictInv'
    <3>1. PICK place \in {"check", "closed"} : pc' = [pc EXCEPT ![c] = place]
      BY <1>4 DEF UpgradeFails, Goto
    <3>2. pc[c] = "upgrade" /\ sender # c /\ responder[c] \notin Decisions
      BY <1>4, NoneIsNoConnection DEF UpgradeFails, Inv, VerdictInv
    <3>. QED BY <1>4, <3>1, <3>2
             DEF UpgradeFails, Inv, TypeOK, VerdictInv, Before, Current, store, window, outside
  <2>7. UpstreamInv'
    BY <1>4, NoneIsNoConnection DEF UpgradeFails, store, Inv, UpstreamInv, window, outside,
       TypeOK, PendingInv, Before, Current, Goto, Requests, Decisions
  <2>8. RepliesInv'
    BY <1>4 DEF UpgradeFails, Inv, RepliesInv, outside, TypeOK, Goto, Requests, Decisions,
       Ids, Rows, Replies
  <2>9. GuardInv'
    BY <1>4 DEF UpgradeFails, store, Inv, GuardInv, outside, TypeOK, Current, Goto
  <2>. QED BY <2>1, <2>2, <2>3, <2>4, <2>5, <2>6, <2>7, <2>8, <2>9 DEF Inv
<1>5. ASSUME NEW c \in Conn, CheckGate(c) PROVE Inv'
  <2>1. TypeOK' BY <1>5 DEF CheckGate, store, Inv, TypeOK, window, outside, Places, Goto
  <2>2. PendingInv' BY <1>5 DEF CheckGate, store, Inv, PendingInv, window, Goto
  <2>3. IdInv' BY <1>5 DEF CheckGate, store, Inv, IdInv, outside, HoldsId, Goto
  <2>4. WindowInv' BY <1>5 DEF CheckGate, store, Inv, WindowInv, window
  <2>5. NoLostWaiter' BY <1>5 DEF CheckGate, store, Inv, NoLostWaiter, window, Goto
  <2>6. VerdictInv'
    BY <1>5 DEF CheckGate, store, Inv, VerdictInv, window, outside, Before, Current, Goto
  <2>7. UpstreamInv' BY <1>5 DEF CheckGate, Inv, UpstreamInv, outside, Before, Current, Goto
  <2>8. RepliesInv' BY <1>5 DEF CheckGate, Inv, RepliesInv, outside, Goto
  <2>9. GuardInv' BY <1>5 DEF CheckGate, store, Inv, GuardInv, outside, Current, Goto
  <2>. QED BY <2>1, <2>2, <2>3, <2>4, <2>5, <2>6, <2>7, <2>8, <2>9 DEF Inv
<1>6. ASSUME NEW c \in Conn, TakePendingId(c) PROVE Inv'
  <2>1. TypeOK'
    BY <1>6, BoundsAssumption DEF TakePendingId, Inv, TypeOK, window, outside, Ids,
       Decisions, Places, Goto, TakeEntryId
  <2>2. PendingInv' BY <1>6 DEF TakePendingId, Inv, PendingInv, window, Goto, TakeEntryId
  <2>3. IdInv'
    BY <1>6 DEF TakePendingId, Inv, IdInv, outside, TypeOK, HoldsId, Goto, TakeEntryId,
       Requests, Decisions, Ids, Rows, Replies
  <2>4. WindowInv' BY <1>6 DEF TakePendingId, Inv, WindowInv, window
  <2>5. NoLostWaiter'
    BY <1>6 DEF TakePendingId, Inv, NoLostWaiter, window, Goto, TakeEntryId
  <2>6. VerdictInv'
    BY <1>6 DEF TakePendingId, Inv, VerdictInv, window, outside, TypeOK, Before, Current,
       Goto, Requests, Decisions
  <2>7. UpstreamInv'
    BY <1>6 DEF TakePendingId, Inv, UpstreamInv, outside, Before, Current, Goto
  <2>8. RepliesInv' BY <1>6 DEF TakePendingId, Inv, RepliesInv, outside, Goto
  <2>9. GuardInv' BY <1>6 DEF TakePendingId, Inv, GuardInv, outside, Current, Goto
  <2>. QED BY <2>1, <2>2, <2>3, <2>4, <2>5, <2>6, <2>7, <2>8, <2>9 DEF Inv
<1>7. ASSUME NEW c \in Conn, PushPending(c) PROVE Inv'
  <2>1. TypeOK'
    BY <1>7, NoneIsNoConnection DEF PushPending, Inv, TypeOK, window, outside, Rows, Places,
       HoldsId, IdInv, UpstreamInv, Goto
  <2>2. PendingInv'
    BY <1>7, AppendRow DEF PushPending, Goto, window, outside
  <2>3. IdInv' BY <1>7 DEF PushPending, Inv, IdInv, outside, HoldsId, Goto
  <2>4. WindowInv' BY <1>7 DEF PushPending, Inv, WindowInv, window
  <2>5. NoLostWaiter'
    BY <1>7, AppendRow DEF PushPending, Goto, window, outside
  <2>6. VerdictInv'
    BY <1>7, AppendRow DEF PushPending, Goto, window, outside
  <2>7. UpstreamInv'
    BY <1>7 DEF PushPending, Inv, UpstreamInv, outside, Before, Current, Goto
  <2>8. RepliesInv' BY <1>7 DEF PushPending, Inv, RepliesInv, outside, Goto
  <2>9. GuardInv' BY <1>7 DEF PushPending, Inv, GuardInv, outside, Current, Goto
  <2>. QED BY <2>1, <2>2, <2>3, <2>4, <2>5, <2>6, <2>7, <2>8, <2>9 DEF Inv
<1>8. ASSUME NEW c \in Conn, ReceiveForward(c) PROVE Inv'
  <2>1. TypeOK'
    BY <1>8 DEF ReceiveForward, store, Inv, TypeOK, window, outside, Decisions, Places, Goto
  <2>2. PendingInv' BY <1>8 DEF ReceiveForward, store, Inv, PendingInv, window, Goto
  <2>3. IdInv' BY <1>8 DEF ReceiveForward, store, Inv, IdInv, outside, HoldsId, Goto
  <2>4. WindowInv' BY <1>8 DEF ReceiveForward, store, Inv, WindowInv, window
  <2>5. NoLostWaiter'
    BY <1>8 DEF ReceiveForward, store, Inv, NoLostWaiter, window, TypeOK, Goto
  <2>6. VerdictInv'
    BY <1>8 DEF ReceiveForward, store, Inv, VerdictInv, window, outside, TypeOK, Before,
       Current, Goto, Requests, Decisions
  <2>7. UpstreamInv'
    BY <1>8 DEF ReceiveForward, Inv, UpstreamInv, outside, Before, Current, Goto
  <2>8. RepliesInv' BY <1>8 DEF ReceiveForward, Inv, RepliesInv, outside, Goto
  <2>9. GuardInv'
    BY <1>8 DEF ReceiveForward, store, Inv, GuardInv, window, outside, VerdictInv, Current,
       Goto, Requests, Decisions
  <2>. QED BY <2>1, <2>2, <2>3, <2>4, <2>5, <2>6, <2>7, <2>8, <2>9 DEF Inv
<1>9. ASSUME NEW c \in Conn, ReceiveDrop(c) PROVE Inv'
  <2>1. TypeOK'
    BY <1>9 DEF ReceiveDrop, store, Inv, TypeOK, window, Decisions, Replies, Places,
       UpstreamInv, Goto, Reply
  <2>2. PendingInv' BY <1>9 DEF ReceiveDrop, store, Inv, PendingInv, window, Goto
  <2>3. IdInv' BY <1>9 DEF ReceiveDrop, store, Inv, IdInv, HoldsId, Goto
  <2>4. WindowInv' BY <1>9 DEF ReceiveDrop, store, Inv, WindowInv, window
  <2>5. NoLostWaiter'
    BY <1>9 DEF ReceiveDrop, store, Inv, NoLostWaiter, window, TypeOK, Goto
  <2>6. VerdictInv'
    BY <1>9 DEF ReceiveDrop, store, Inv, VerdictInv, window, TypeOK, Before, Current, Goto,
       Requests, Decisions
  <2>7. UpstreamInv' BY <1>9 DEF ReceiveDrop, Inv, UpstreamInv, Before, Current, Goto
  <2>8. RepliesInv'
    <3>1. verdict[Current(c)] = "Drop"
      BY <1>9 DEF ReceiveDrop, Inv, VerdictInv, Decisions
    <3>. QED BY <1>9, <3>1, ReplyKeepsRepliesInv DEF ReceiveDrop
  <2>9. GuardInv' BY <1>9 DEF ReceiveDrop, store, Inv, GuardInv, Current, Goto
  <2>. QED BY <2>1, <2>2, <2>3, <2>4, <2>5, <2>6, <2>7, <2>8, <2>9 DEF Inv
<1>10. ASSUME NEW c \in Conn, SendUpstream(c) PROVE Inv'
  <2>1. TypeOK'
    <3>1. PICK place \in Places : pc' = [pc EXCEPT ![c] = place]
      BY <1>10 DEF SendUpstream, Goto, Places
    <3>. QED BY <1>10, <3>1, CurrentIsRequest DEF SendUpstream, Inv, TypeOK, store, window
  <2>2. PendingInv'
    BY <1>10 DEF SendUpstream, store, Inv, PendingInv, window, TypeOK, Goto, Requests,
       Decisions, Ids, Rows, Replies
  <2>3. IdInv'
    <3>1. PICK place \in {"respond", "failed", "fallback"} : pc' = [pc EXCEPT ![c] = place]
      BY <1>10 DEF SendUpstream, Goto
    <3>. QED BY <1>10, <3>1 DEF SendUpstream, Inv, TypeOK, IdInv, HoldsId, store
  <2>4. WindowInv' BY <1>10 DEF SendUpstream, store, Inv, WindowInv, window
  <2>5. NoLostWaiter'
    BY <1>10 DEF SendUpstream, store, Inv, NoLostWaiter, window, TypeOK, Goto
  <2>6. VerdictInv'
    BY <1>10 DEF SendUpstream, store, Inv, VerdictInv, window, TypeOK, Before, Current, Goto
  <2>7. UpstreamInv'
    <3>1. PICK place \in {"respond", "failed", "fallback"} : Goto(c, place)
      BY <1>10 DEF SendUpstream
    <3>. QED BY <1>10, <3>1, SendKeepsUpstreamInv DEF SendUpstream
  <2>8. RepliesInv'
    BY <1>10 DEF SendUpstream, Inv, RepliesInv, TypeOK, Goto, Requests, Decisions, Ids,
       Rows, Replies
  <2>9. GuardInv' BY <1>10 DEF SendUpstream, store, Inv, GuardInv, TypeOK, Current, Goto
  <2>. QED BY <2>1, <2>2, <2>3, <2>4, <2>5, <2>6, <2>7, <2>8, <2>9 DEF Inv
<1>11. ASSUME NEW c \in Conn, SendFallback(c) PROVE Inv'
  <2>1. TypeOK'
    <3>1. PICK place \in Places : pc' = [pc EXCEPT ![c] = place]
      BY <1>11 DEF SendFallback, Goto, Places
    <3>. QED BY <1>11, <3>1 DEF SendFallback, Inv, TypeOK, store, window, outside
  <2>2. PendingInv'
    BY <1>11 DEF SendFallback, store, Inv, PendingInv, window, TypeOK, Goto, Requests,
       Decisions, Ids, Rows, Replies
  <2>3. IdInv'
    BY <1>11 DEF SendFallback, store, Inv, IdInv, outside, TypeOK, HoldsId, RepliesInv,
       Goto, Requests, Decisions, Ids, Rows, Replies
  <2>4. WindowInv' BY <1>11 DEF SendFallback, store, Inv, WindowInv, window
  <2>5. NoLostWaiter'
    BY <1>11 DEF SendFallback, store, Inv, NoLostWaiter, window, TypeOK, Goto
  <2>6. VerdictInv'
    BY <1>11 DEF SendFallback, store, Inv, VerdictInv, window, outside, TypeOK, Before,
       RepliesInv, Current, Goto
  <2>7. UpstreamInv'
    BY <1>11 DEF SendFallback, Inv, UpstreamInv, outside, TypeOK, Before, Current, Goto,
       Requests, Decisions
  <2>8. RepliesInv'
    BY <1>11 DEF SendFallback, Inv, RepliesInv, outside, TypeOK, Goto, Requests, Decisions,
       Ids, Rows, Replies
  <2>9. GuardInv'
    BY <1>11 DEF SendFallback, store, Inv, GuardInv, outside, TypeOK, Current, Goto
  <2>. QED BY <2>1, <2>2, <2>3, <2>4, <2>5, <2>6, <2>7, <2>8, <2>9 DEF Inv
<1>12. ASSUME NEW c \in Conn, Respond(c) PROVE Inv'
  <2>1. TypeOK'
    BY <1>12 DEF Respond, store, Inv, TypeOK, window, Replies, Places, UpstreamInv, Goto,
       Reply
  <2>2. PendingInv' BY <1>12 DEF Respond, store, Inv, PendingInv, window, Goto
  <2>3. IdInv' BY <1>12 DEF Respond, store, Inv, IdInv, HoldsId, Goto
  <2>4. WindowInv' BY <1>12 DEF Respond, store, Inv, WindowInv, window
  <2>5. NoLostWaiter' BY <1>12 DEF Respond, store, Inv, NoLostWaiter, window, Goto
  <2>6. VerdictInv'
    BY <1>12 DEF Respond, store, Inv, VerdictInv, window, Before, Current, Goto
  <2>7. UpstreamInv' BY <1>12 DEF Respond, Inv, UpstreamInv, Before, Current, Goto
  <2>8. RepliesInv'
    BY <1>12, ReplyKeepsRepliesInv DEF Respond
  <2>9. GuardInv' BY <1>12 DEF Respond, store, Inv, GuardInv, Current, Goto
  <2>. QED BY <2>1, <2>2, <2>3, <2>4, <2>5, <2>6, <2>7, <2>8, <2>9 DEF Inv
<1>13. ASSUME NEW c \in Conn, UpstreamError(c) PROVE Inv'
  <2>1. TypeOK'
    BY <1>13 DEF UpstreamError, store, Inv, TypeOK, window, Replies, Places, NoLostWaiter,
       UpstreamInv, Goto, Reply
  <2>2. PendingInv' BY <1>13 DEF UpstreamError, store, Inv, PendingInv, window, Goto
  <2>3. IdInv' BY <1>13 DEF UpstreamError, store, Inv, IdInv, HoldsId, Goto
  <2>4. WindowInv' BY <1>13 DEF UpstreamError, store, Inv, WindowInv, window
  <2>5. NoLostWaiter' BY <1>13 DEF UpstreamError, store, Inv, NoLostWaiter, window, Goto
  <2>6. VerdictInv'
    BY <1>13 DEF UpstreamError, store, Inv, VerdictInv, window, Before, Current, Goto
  <2>7. UpstreamInv' BY <1>13 DEF UpstreamError, Inv, UpstreamInv, Before, Current, Goto
  <2>8. RepliesInv'
    <3>1. CASE c \in Mitm
      BY <1>13, <3>1, ReplyKeepsRepliesInv DEF UpstreamError
    <3>2. CASE c \notin Mitm
      BY <1>13, <3>2 DEF UpstreamError, Goto, Inv, TypeOK, RepliesInv
    <3>. QED BY <3>1, <3>2
  <2>9. GuardInv' BY <1>13 DEF UpstreamError, store, Inv, GuardInv, Current, Goto
  <2>. QED BY <2>1, <2>2, <2>3, <2>4, <2>5, <2>6, <2>7, <2>8, <2>9 DEF Inv
<1>14. ASSUME NEW c \in Conn, TakeCaptureId(c) PROVE Inv'
  <2>1. TypeOK'
    BY <1>14, BoundsAssumption DEF TakeCaptureId, Inv, TypeOK, window, outside, Ids, Places,
       Goto, TakeEntryId
  <2>2. PendingInv' BY <1>14 DEF TakeCaptureId, Inv, PendingInv, window, Goto, TakeEntryId
  <2>3. IdInv'
    BY <1>14 DEF TakeCaptureId, Inv, IdInv, outside, TypeOK, HoldsId, Goto, TakeEntryId,
       Requests, Decisions, Ids, Rows, Replies
  <2>4. WindowInv' BY <1>14 DEF TakeCaptureId, Inv, WindowInv, window
  <2>5. NoLostWaiter'
    BY <1>14 DEF TakeCaptureId, Inv, NoLostWaiter, window, Goto, TakeEntryId
  <2>6. VerdictInv'
    BY <1>14 DEF TakeCaptureId, Inv, VerdictInv, window, outside, Before, Current, Goto
  <2>7. UpstreamInv'
    BY <1>14 DEF TakeCaptureId, Inv, UpstreamInv, outside, Before, Current, Goto
  <2>8. RepliesInv' BY <1>14 DEF TakeCaptureId, Inv, RepliesInv, outside, Goto
  <2>9. GuardInv' BY <1>14 DEF TakeCaptureId, Inv, GuardInv, outside, Current, Goto
  <2>. QED BY <2>1, <2>2, <2>3, <2>4, <2>5, <2>6, <2>7, <2>8, <2>9 DEF Inv
<1>15. ASSUME NEW c \in Conn, PushCaptured(c) PROVE Inv'
  <2>1. TypeOK'
    BY <1>15 DEF PushCaptured, store, Inv, TypeOK, window, Rows, Places, HoldsId, IdInv,
       Before, UpstreamInv, Goto
  <2>2. PendingInv' BY <1>15 DEF PushCaptured, store, Inv, PendingInv, window, Goto
  <2>3. IdInv' BY <1>15 DEF PushCaptured, store, Inv, IdInv, TypeOK, HoldsId, Goto
  <2>4. WindowInv' BY <1>15 DEF PushCaptured, store, Inv, WindowInv, window
  <2>5. NoLostWaiter' BY <1>15 DEF PushCaptured, store, Inv, NoLostWaiter, window, Goto
  <2>6. VerdictInv'
    BY <1>15 DEF PushCaptured, store, Inv, VerdictInv, window, Before, Current, Goto
  <2>7. UpstreamInv' BY <1>15 DEF PushCaptured, Inv, UpstreamInv, Before, Current, Goto
  <2>8. RepliesInv' BY <1>15 DEF PushCaptured, Inv, RepliesInv, Goto
  <2>9. GuardInv' BY <1>15 DEF PushCaptured, store, Inv, GuardInv, Current, Goto
  <2>. QED BY <2>1, <2>2, <2>3, <2>4, <2>5, <2>6, <2>7, <2>8, <2>9 DEF Inv
<1>16. ASSUME BeginFrame PROVE Inv'
  <2>1. TypeOK' BY <1>16 DEF BeginFrame, store, Inv, TypeOK, threads, outside, Rows
  <2>2. PendingInv' BY <1>16 DEF BeginFrame, store, Inv, PendingInv, threads
  <2>3. IdInv' BY <1>16 DEF BeginFrame, store, Inv, IdInv, threads, outside, HoldsId
  <2>4. WindowInv' BY <1>16 DEF BeginFrame, store, Inv, WindowInv
  <2>5. NoLostWaiter' BY <1>16 DEF BeginFrame, store, Inv, NoLostWaiter, threads
  <2>6. VerdictInv'
    BY <1>16 DEF BeginFrame, store, Inv, VerdictInv, threads, outside, Before, Current
  <2>7. UpstreamInv'
    BY <1>16 DEF BeginFrame, Inv, UpstreamInv, threads, outside, Before, Current
  <2>8. RepliesInv' BY <1>16 DEF BeginFrame, Inv, RepliesInv, threads, outside
  <2>9. GuardInv' BY <1>16 DEF BeginFrame, store, Inv, GuardInv, threads, outside, Current
  <2>. QED BY <2>1, <2>2, <2>3, <2>4, <2>5, <2>6, <2>7, <2>8, <2>9 DEF Inv
<1>17. ASSUME EndFrame PROVE Inv'
  <2>1. TypeOK' BY <1>17 DEF EndFrame, store, Inv, TypeOK, threads, outside, Rows
  <2>2. PendingInv' BY <1>17 DEF EndFrame, store, Inv, PendingInv, threads
  <2>3. IdInv' BY <1>17 DEF EndFrame, store, Inv, IdInv, threads, outside, HoldsId
  <2>4. WindowInv' BY <1>17 DEF EndFrame, store, Inv, WindowInv
  <2>5. NoLostWaiter' BY <1>17 DEF EndFrame, store, Inv, NoLostWaiter, threads
  <2>6. VerdictInv'
    BY <1>17 DEF EndFrame, store, Inv, VerdictInv, threads, outside, Before, Current
  <2>7. UpstreamInv'
    BY <1>17 DEF EndFrame, Inv, UpstreamInv, threads, outside, Before, Current
  <2>8. RepliesInv' BY <1>17 DEF EndFrame, Inv, RepliesInv, threads, outside
  <2>9. GuardInv' BY <1>17 DEF EndFrame, store, Inv, GuardInv, threads, outside, Current
  <2>. QED BY <2>1, <2>2, <2>3, <2>4, <2>5, <2>6, <2>7, <2>8, <2>9 DEF Inv
<1>18. ASSUME ClickToggle PROVE Inv'
  <2>1. TypeOK'
    BY <1>18 DEF ClickToggle, Inv, TypeOK, threads, outside, Rows, SetInterceptEnabled
  <2>2. PendingInv' BY <1>18 DEF ClickToggle, Inv, PendingInv, threads, SetInterceptEnabled
  <2>3. IdInv'
    BY <1>18 DEF ClickToggle, Inv, IdInv, threads, outside, SetInterceptEnabled, HoldsId
  <2>4. WindowInv' BY <1>18 DEF ClickToggle, Inv, WindowInv, SetInterceptEnabled
  <2>5. NoLostWaiter'
    BY <1>18 DEF ClickToggle, Inv, NoLostWaiter, threads, SetInterceptEnabled
  <2>6. VerdictInv'
    BY <1>18 DEF ClickToggle, Inv, VerdictInv, threads, outside, SetInterceptEnabled,
       Before, Current
  <2>7. UpstreamInv'
    BY <1>18 DEF ClickToggle, Inv, UpstreamInv, threads, outside, SetInterceptEnabled,
       Before, Current
  <2>8. RepliesInv'
    BY <1>18 DEF ClickToggle, Inv, RepliesInv, threads, outside, SetInterceptEnabled
  <2>9. GuardInv'
    BY <1>18 DEF ClickToggle, Inv, GuardInv, threads, outside, SetInterceptEnabled, Current
  <2>. QED BY <2>1, <2>2, <2>3, <2>4, <2>5, <2>6, <2>7, <2>8, <2>9 DEF Inv
<1>19. ASSUME ClickCheckbox PROVE Inv'
  <2>1. TypeOK'
    BY <1>19 DEF ClickCheckbox, Inv, TypeOK, threads, outside, Rows, SetInterceptEnabled
  <2>2. PendingInv'
    BY <1>19 DEF ClickCheckbox, Inv, PendingInv, threads, SetInterceptEnabled
  <2>3. IdInv'
    BY <1>19 DEF ClickCheckbox, Inv, IdInv, threads, outside, SetInterceptEnabled, HoldsId
  <2>4. WindowInv' BY <1>19 DEF ClickCheckbox, Inv, WindowInv, SetInterceptEnabled
  <2>5. NoLostWaiter'
    BY <1>19 DEF ClickCheckbox, Inv, NoLostWaiter, threads, SetInterceptEnabled
  <2>6. VerdictInv'
    BY <1>19 DEF ClickCheckbox, Inv, VerdictInv, threads, outside, SetInterceptEnabled,
       Before, Current
  <2>7. UpstreamInv'
    BY <1>19 DEF ClickCheckbox, Inv, UpstreamInv, threads, outside, SetInterceptEnabled,
       Before, Current
  <2>8. RepliesInv'
    BY <1>19 DEF ClickCheckbox, Inv, RepliesInv, threads, outside, SetInterceptEnabled
  <2>9. GuardInv'
    BY <1>19 DEF ClickCheckbox, Inv, GuardInv, threads, outside, SetInterceptEnabled,
       Current
  <2>. QED BY <2>1, <2>2, <2>3, <2>4, <2>5, <2>6, <2>7, <2>8, <2>9 DEF Inv
<1>20. ASSUME ClickDecision PROVE Inv'
  <2>1. TypeOK'
    BY <1>20 DEF ClickDecision, store, Inv, TypeOK, threads, Requests, Decisions, Rows,
       Decide
  <2>2. PendingInv' BY <1>20 DEF ClickDecision, store, Inv, PendingInv, threads, Decide
  <2>3. IdInv' BY <1>20 DEF ClickDecision, store, Inv, IdInv, threads, Decide, HoldsId
  <2>4. WindowInv' BY <1>20 DEF ClickDecision, store, Inv, WindowInv, Decide
  <2>5. NoLostWaiter' BY <1>20 DEF ClickDecision, store, Inv, NoLostWaiter, threads, Decide
  <2>6. VerdictInv'
    <3>1. PICK row \in pending_list, d \in Decisions : Decide({row}, d)
      BY <1>20 DEF ClickDecision
    <3>. QED BY <3>1, DecideKeepsVerdictInv
  <2>7. UpstreamInv'
    <3>1. PICK row \in pending_list, d \in Decisions : Decide({row}, d)
      BY <1>20 DEF ClickDecision
    <3>. QED BY <3>1, DecideKeepsVerdictInv
  <2>8. RepliesInv'
    <3>1. PICK row \in pending_list, d \in Decisions : Decide({row}, d)
      BY <1>20 DEF ClickDecision
    <3>. QED BY <3>1, DecideKeepsVerdictInv
  <2>9. GuardInv'
    <3>1. PICK row \in pending_list, d \in Decisions : Decide({row}, d)
      BY <1>20 DEF ClickDecision
    <3>. QED BY <3>1, DecideKeepsVerdictInv
  <2>. QED BY <2>1, <2>2, <2>3, <2>4, <2>5, <2>6, <2>7, <2>8, <2>9 DEF Inv
<1>21. ASSUME ClickForwardAll PROVE Inv'
  <2>1. TypeOK'
    BY <1>21 DEF ClickForwardAll, store, Inv, TypeOK, threads, Requests, Decisions, Rows,
       Decide
  <2>2. PendingInv' BY <1>21 DEF ClickForwardAll, store, Inv, PendingInv, threads, Decide
  <2>3. IdInv' BY <1>21 DEF ClickForwardAll, store, Inv, IdInv, threads, Decide, HoldsId
  <2>4. WindowInv' BY <1>21 DEF ClickForwardAll, store, Inv, WindowInv, Decide
  <2>5. NoLostWaiter'
    BY <1>21 DEF ClickForwardAll, store, Inv, NoLostWaiter, threads, Decide
  <2>6. VerdictInv'
    BY <1>21, DecideKeepsVerdictInv DEF ClickForwardAll, Decisions
  <2>7. UpstreamInv'
    BY <1>21, DecideKeepsVerdictInv DEF ClickForwardAll, Decisions
  <2>8. RepliesInv'
    BY <1>21, DecideKeepsVerdictInv DEF ClickForwardAll, Decisions
  <2>9. GuardInv'
    BY <1>21, DecideKeepsVerdictInv DEF ClickForwardAll, Decisions
  <2>. QED BY <2>1, <2>2, <2>3, <2>4, <2>5, <2>6, <2>7, <2>8, <2>9 DEF Inv
<1>22. ASSUME ResolveTake PROVE Inv'
  <2>1. TypeOK'
    BY <1>22 DEF ResolveTake, Inv, TypeOK, threads, outside, Rows, ResolveTakeFrame
  <2>2. PendingInv'
    BY <1>22 DEF ResolveTake, Inv, PendingInv, threads, ResolveTakeFrame, TypeOK, Requests,
       Decisions, Ids, Rows, Replies
  <2>3. IdInv'
    BY <1>22 DEF ResolveTake, Inv, IdInv, threads, outside, ResolveTakeFrame, HoldsId
  <2>4. WindowInv'
    BY <1>22 DEF ResolveTake, Inv, WindowInv, threads, outside, ResolveTakeFrame, TypeOK,
       PendingInv, HoldsId, IdInv, Requests, Decisions, Ids, Rows, Replies
  <2>5. NoLostWaiter'
    <3>1. PICK row \in todo : /\ pending_intercepts' = pending_intercepts \ {row}
                              /\ sender' = row.conn
      BY <1>22, OnlyOneRowPerId DEF ResolveTake, Inv, WindowInv
    <3>2. UNCHANGED threads /\ sender = None
      BY <1>22 DEF ResolveTake, ResolveTakeFrame
    <3>. SUFFICES ASSUME NEW d \in Conn, pc[d] = "recv", responder[d] \notin Decisions,
                         d # row.conn
                  PROVE  \E item \in pending_intercepts' :
                           item = [id |-> entry_id[d], conn |-> d, req |-> req[d]]
      BY <3>1, <3>2 DEF NoLostWaiter, threads
    <3>3. PICK item \in pending_intercepts :
            item = [id |-> entry_id[d], conn |-> d, req |-> req[d]]
      BY <3>2, NoneIsNoConnection DEF Inv, NoLostWaiter
    <3>. QED BY <3>1, <3>3
  <2>6. VerdictInv'
    BY <1>22 DEF ResolveTake, Inv, VerdictInv, threads, outside, ResolveTakeFrame, TypeOK,
       PendingInv, HoldsId, IdInv, WindowInv, Before, Current, Requests, Decisions, Ids,
       Rows, Replies
  <2>7. UpstreamInv'
    BY <1>22 DEF ResolveTake, Inv, UpstreamInv, threads, outside, ResolveTakeFrame, Before,
       Current
  <2>8. RepliesInv'
    BY <1>22 DEF ResolveTake, Inv, RepliesInv, threads, outside, ResolveTakeFrame
  <2>9. GuardInv'
    BY <1>22 DEF ResolveTake, Inv, GuardInv, threads, outside, ResolveTakeFrame, Current
  <2>. QED BY <2>1, <2>2, <2>3, <2>4, <2>5, <2>6, <2>7, <2>8, <2>9 DEF Inv
<1>23. ASSUME ResolveSend PROVE Inv'
  <2>1. TypeOK' BY <1>23 DEF ResolveSend, store, Inv, TypeOK, outside, Decisions
  <2>2. PendingInv'
    <3>1. /\ sender \in Conn
          /\ \A row \in pending_intercepts : sender # row.conn /\ row.conn \in Conn
      BY <1>23 DEF ResolveSend, Inv, TypeOK, PendingInv, Rows
    <3>2. /\ sender' = None /\ responder' = [responder EXCEPT ![sender] = decision]
          /\ UNCHANGED <<pending_intercepts, pc, entry_id, req>>
      BY <1>23 DEF ResolveSend, store
    <3>3. \A row \in pending_intercepts :
            responder'[row.conn] = responder[row.conn] /\ row.conn # None
      BY <3>1, <3>2, NoneIsNoConnection DEF Inv, TypeOK
    <3>. QED BY <3>1, <3>2, <3>3 DEF Inv, PendingInv
  <2>3. IdInv' BY <1>23 DEF ResolveSend, store, Inv, IdInv, outside, HoldsId
  <2>4. WindowInv' BY <1>23 DEF ResolveSend, store, Inv, WindowInv
  <2>5. NoLostWaiter' BY <1>23 DEF ResolveSend, store, Inv, NoLostWaiter, TypeOK
  <2>6. VerdictInv'
    <3>1. /\ sender \in Conn /\ pc[sender] = "recv" /\ verdict[Current(sender)] = decision
          /\ decision \in Decisions
      BY <1>23 DEF ResolveSend, Inv, TypeOK, VerdictInv
    <3>2. /\ sender' = None /\ responder' = [responder EXCEPT ![sender] = decision]
          /\ UNCHANGED <<pending_intercepts, pc, req, todo, decision, verdict>>
      BY <1>23 DEF ResolveSend, store, outside
    <3>. QED BY <3>1, <3>2 DEF Inv, TypeOK, VerdictInv, Before, Current, Decisions
  <2>7. UpstreamInv' BY <1>23 DEF ResolveSend, Inv, UpstreamInv, outside, Before, Current
  <2>8. RepliesInv' BY <1>23 DEF ResolveSend, Inv, RepliesInv, outside
  <2>9. GuardInv' BY <1>23 DEF ResolveSend, store, Inv, GuardInv, outside, Current
  <2>. QED BY <2>1, <2>2, <2>3, <2>4, <2>5, <2>6, <2>7, <2>8, <2>9 DEF Inv
<1>24. ASSUME ResolveDone PROVE Inv'
  <2>1. TypeOK' BY <1>24 DEF ResolveDone, store, Inv, TypeOK, threads, outside, Rows
  <2>2. PendingInv' BY <1>24 DEF ResolveDone, store, Inv, PendingInv, threads
  <2>3. IdInv' BY <1>24 DEF ResolveDone, store, Inv, IdInv, threads, outside, HoldsId
  <2>4. WindowInv' BY <1>24 DEF ResolveDone, store, Inv, WindowInv
  <2>5. NoLostWaiter' BY <1>24 DEF ResolveDone, store, Inv, NoLostWaiter, threads
  <2>6. VerdictInv'
    BY <1>24 DEF ResolveDone, store, Inv, VerdictInv, threads, outside, Before, Current
  <2>7. UpstreamInv'
    BY <1>24 DEF ResolveDone, Inv, UpstreamInv, threads, outside, Before, Current
  <2>8. RepliesInv' BY <1>24 DEF ResolveDone, Inv, RepliesInv, threads, outside
  <2>9. GuardInv' BY <1>24 DEF ResolveDone, store, Inv, GuardInv, threads, outside, Current
  <2>. QED BY <2>1, <2>2, <2>3, <2>4, <2>5, <2>6, <2>7, <2>8, <2>9 DEF Inv
<1>25. CASE UNCHANGED vars
  BY <1>25 DEF vars, Inv, TypeOK, PendingInv, HoldsId, IdInv, WindowInv, NoLostWaiter,
     Before, VerdictInv, UpstreamInv, RepliesInv, GuardInv, Current, Goto, Reply,
     TakeEntryId, store, threads, window, outside, Requests, Ids, Kinds, Decisions, Rows,
     Replies, Places, SetInterceptEnabled, Decide, ResolveTakeFrame
<1>. QED
  BY <1>1, <1>2, <1>3, <1>4, <1>5, <1>6, <1>7, <1>8, <1>9, <1>10, <1>11, <1>12, <1>13,
     <1>14, <1>15, <1>16, <1>17, <1>18, <1>19, <1>20, <1>21, <1>22, <1>23, <1>24, <1>25 DEF
     Next, ThreadStep, Click, Resolve

-----------------------------------------------------------------------------
\* The invariant holds in every state the program reaches.
LEMMA InvHolds == Spec => []Inv
<1>1. Inv /\ [Next]_vars => Inv'
  BY InvIsInductive
<1>. QED BY InitEstablishesInv, <1>1, PTL DEF Spec

\* Every variable keeps its type, for any number of connections, requests and ids.
THEOREM TypeCorrect == Spec => []TypeOK
<1>1. Inv => TypeOK
  BY DEF Inv
<1>. QED BY InvHolds, <1>1, PTL

\* A request the user dropped never reaches the server, and only such a request
\* is answered with the "dropped by interceptor" page: the verdict travels from
\* the click through the channel to the thread that paused that very request.
THEOREM UserDecides == Spec => []TheUserDecides
<1>1. Inv => TheUserDecides
  BY DEF Inv, VerdictInv, UpstreamInv, RepliesInv, TheUserDecides
<1>. QED BY InvHolds, <1>1, PTL

\* A thread that waits in rx.recv() can still be answered: its item is listed, or
\* its sender is in the hands of resolve_pending_intercept, or the decision is
\* already in the channel.  No thread is left waiting with its item gone.
THEOREM NoWaiterIsLost == Spec => []NoLostWaiter
<1>1. Inv => NoLostWaiter
  BY DEF Inv
<1>. QED BY InvHolds, <1>1, PTL

\* next_entry_id gives the pending items and the captured entries ids that no two
\* of them share, so looking an item up by its id finds the request meant.
THEOREM IdsNameOneRequest == Spec => []IdsAreUnique
<1>1. ASSUME Inv PROVE IdsAreUnique
  <2>1. ASSUME NEW a \in pending_intercepts, NEW b \in captured PROVE a.id # b.id
    BY <1>1 DEF Inv, TypeOK, PendingInv, IdInv, HoldsId, Rows
  <2>. QED BY <1>1, <2>1, OnlyOneRowPerId DEF Inv, IdInv, IdsAreUnique
<1>. QED BY InvHolds, <1>1, PTL

\* After an answer with "Connection: close" the thread reads no further request
\* and sends none upstream on that connection.
THEOREM NothingFollowsClose == Spec => []CloseIsFinal
<1>1. Inv => CloseIsFinal
  BY DEF Inv, RepliesInv, UpstreamInv, CloseIsFinal
<1>. QED BY InvHolds, <1>1, PTL

\* While interception has been on since the request was read, a request that is
\* neither an upgrade nor noise goes upstream only after the user forwarded it.
THEOREM InterceptionIsComplete == Spec => NothingSlipsThrough
<1>. DEFINE A == \A c \in Conn :
         guarded[c] /\ kind[c] = "http" /\ Current(c) \in upstream' \ upstream
           => verdict[Current(c)] = "Forward"
<1>1. Inv /\ [Next]_vars => A
  <2>. SUFFICES ASSUME Inv, Next, NEW c \in Conn, guarded[c], kind[c] = "http",
                       Current(c) \in upstream' \ upstream
                PROVE  verdict[Current(c)] = "Forward"
    BY DEF vars, outside
  <2>1. PICK d \in Conn : (UpgradeConnects(d) \/ SendUpstream(d)) /\ upstream' = upstream \cup {Current(d)}
    BY DEF Next, ThreadStep, Click, Resolve, ReadRequest, ReadFails, UpgradeConnects,
       UpgradeFails, CheckGate, TakePendingId, PushPending, ReceiveForward, ReceiveDrop,
       SendUpstream, SendFallback, Respond, UpstreamError, TakeCaptureId, PushCaptured,
       BeginFrame, EndFrame, ClickToggle, ClickCheckbox, ClickDecision, ClickForwardAll,
       Decide, ResolveTake, ResolveTakeFrame, ResolveSend, ResolveDone, outside
  <2>2. c = d
    BY <2>1 DEF Current
  <2>. QED BY <2>1, <2>2 DEF UpgradeConnects, SendUpstream, Inv, UpstreamInv, GuardInv
<1>. QED BY InvHolds, <1>1, PTL DEF Spec, NothingSlipsThrough

\* A second click, a frame drawn from an old snapshot or "Forward All" never
\* changes what the user has decided about a request.
THEOREM VerdictsAreFinal == Spec => VerdictIsFinal
<1>. DEFINE A == \A r \in Requests : verdict[r] # "none" => verdict'[r] = verdict[r]
<1>1. Inv /\ [Next]_vars => A
  <2>. SUFFICES ASSUME Inv, [Next]_vars, NEW r \in Requests, verdict[r] # "none"
                PROVE  verdict'[r] = verdict[r]
    OBVIOUS
  <2>1. CASE ClickDecision \/ ClickForwardAll
    <3>1. PICK rows \in SUBSET pending_list, d \in Decisions : Decide(rows, d)
      BY <2>1 DEF ClickDecision, ClickForwardAll, Decisions
    <3>2. \A row \in rows : verdict[<<row.conn, row.req>>] = "none"
      BY <3>1 DEF Decide, Inv, WindowInv, VerdictInv
    <3>. QED BY <3>1, <3>2 DEF Decide
  <2>2. CASE ~(ClickDecision \/ ClickForwardAll)
    <3>1. verdict' = verdict
      BY <2>2 DEF Next, ThreadStep, Click, Resolve, ReadRequest, ReadFails, UpgradeConnects,
         UpgradeFails, CheckGate, TakePendingId, PushPending, ReceiveForward, ReceiveDrop,
         SendUpstream, SendFallback, Respond, UpstreamError, TakeCaptureId, PushCaptured,
         BeginFrame, EndFrame, ClickToggle, ClickCheckbox, ResolveTake, ResolveTakeFrame,
         ResolveSend, ResolveDone, outside, vars
    <3>. QED BY <3>1
  <2>. QED BY <2>1, <2>2
<1>. QED BY InvHolds, <1>1, PTL DEF Spec, VerdictIsFinal

-----------------------------------------------------------------------------
(* The refinement of InterceptGate *)

\* At the start every request of the gate is still expected.
LEMMA InitMapsToGate == Init => Gate!Init
<1>. SUFFICES ASSUME Init, NEW r \in Requests PROVE Stage(r) = "expected"
  BY DEF Gate!Init
<1>1. r[1] \in Conn /\ r[2] \in 1 .. MaxRequests /\ req[r[1]] = 0
  BY DEF Requests, Init
<1>. QED BY <1>1 DEF Init, Stage, AnsweredDropped

\* A step that moves the requests of R and no other is a move of the gate.
LEMMA MoveMapsToGate ==
    ASSUME NEW R \in SUBSET Requests, R # {}, NEW from, NEW to,
           \A r \in R : Stage(r) = from /\ Stage(r)' = to,
           \A r \in Requests \ R : Stage(r)' = Stage(r)
    PROVE  Gate!Move(R, from, to)
BY DEF Gate!Move

\* A step that moves no request is a stutter of the gate.
LEMMA StutterMapsToGate ==
    ASSUME \A r \in Requests : Stage(r)' = Stage(r)
    PROVE  [Gate!Next]_[r \in Requests |-> Stage(r)]
OBVIOUS

\* The requests other than the current one of c do not see c's step.
LEMMA OthersUnmoved ==
    ASSUME Inv, NEW c \in Conn, pc[c] \notin {"read", "closed"},
           NEW place, Goto(c, place), UNCHANGED <<req, verdict>>,
           upstream' \in {upstream, upstream \cup {Current(c)}},
           \/ replies' = replies
           \/ \E k \in {"switching", "dropped", "response", "error"} : Reply(c, k),
           NEW r \in Requests, r # Current(c)
    PROVE  Stage(r)' = Stage(r)
<1>1. r = <<r[1], r[2]>> /\ r[1] \in Conn
  BY DEF Requests
<1>2. r[1] # c \/ r[2] # req[c]
  BY <1>1 DEF Current
<1>3. AnsweredDropped(r)' <=> AnsweredDropped(r)
  BY <1>2 DEF AnsweredDropped, Reply
<1>4. r[1] # c => pc'[r[1]] = pc[r[1]]
  BY <1>1 DEF Goto, Inv, TypeOK
<1>. QED BY <1>1, <1>2, <1>3, <1>4 DEF Stage

\* What Inv says of the stage of the request a thread works on.
LEMMA StageOfCurrent ==
    ASSUME Inv, NEW c \in Conn, pc[c] \notin {"read", "closed"}
    PROVE  /\ Before(c) => Stage(Current(c)) = "arrived"
           /\ pc[c] = "recv" => /\ Current(c) \notin upstream
                                /\ ~ AnsweredDropped(Current(c))
           /\ pc[c] = "send" => Stage(Current(c)) \in {"arrived", "approved"}
           /\ pc[c] \notin {"upgrade", "check", "take_id", "push", "recv", "send", "tunnel"}
                => Current(c) \in upstream
<1>1. Current(c) \in Requests /\ Current(c)[1] = c /\ Current(c)[2] = req[c] /\ req[c] \in Nat
  BY CurrentIsRequest DEF Current, Inv, TypeOK
<1>2. pc[c] \in {"upgrade", "check", "take_id", "push", "recv", "send"} =>
        /\ Current(c) \notin upstream
        /\ ~ AnsweredDropped(Current(c))
  BY <1>1 DEF Inv, UpstreamInv, RepliesInv, AnsweredDropped, Before
<1>3. Before(c) => verdict[Current(c)] = "none"
  BY DEF Inv, VerdictInv
<1>4. pc[c] = "send" => verdict[Current(c)] # "Drop"
  BY DEF Inv, VerdictInv
<1>5. pc[c] \notin {"upgrade", "check", "take_id", "push", "recv", "send", "tunnel"}
        => Current(c) \in upstream
  BY DEF Inv, UpstreamInv, TypeOK, Places
<1>6. Before(c) => Stage(Current(c)) = "arrived"
  BY <1>1, <1>2, <1>3 DEF Stage, Before
<1>7. pc[c] = "send" => Stage(Current(c)) \in {"arrived", "approved"}
  BY <1>1, <1>2, <1>4 DEF Stage
<1>. QED BY <1>2, <1>5, <1>6, <1>7

\* Every step of the program is a move of the gate or leaves all stages alone; one
\* step of the proof per action or group of actions that acts alike.
LEMMA NextMapsToGate ==
    ASSUME Inv, [Next]_vars
    PROVE  [Gate!Next]_[r \in Requests |-> Stage(r)]
<1>1. ASSUME NEW c \in Conn, ReadRequest(c)
      PROVE  Gate!Next
  <2>0. PICK next : next = <<c, req[c] + 1>>
    OBVIOUS
  <2>1. /\ req[c] \in Nat /\ pc[c] = "read" /\ req' = [req EXCEPT ![c] = req[c] + 1]
        /\ next \in Requests /\ UNCHANGED <<upstream, replies, verdict>>
        /\ pc'[c] # "recv" /\ \A d \in Conn \ {c} : pc'[d] = pc[d]
    <3>1. req[c] \in Nat /\ req[c] < MaxRequests
      BY <1>1, BoundsAssumption DEF ReadRequest, Inv, TypeOK
    <3>. QED BY <1>1, <2>0, <3>1, BoundsAssumption
             DEF ReadRequest, Goto, Inv, TypeOK, Requests, outside
  <2>2. next \notin upstream /\ ~ AnsweredDropped(next) /\ verdict[next] = "none"
    BY <2>0, <2>1 DEF Inv, UpstreamInv, RepliesInv, VerdictInv, AnsweredDropped
  <2>3. Stage(next) = "expected" /\ Stage(next)' = "arrived"
    BY <2>0, <2>1, <2>2 DEF Stage, AnsweredDropped, Inv, TypeOK
  <2>4. \A r \in Requests \ {next} : Stage(r)' = Stage(r)
    BY <2>0, <2>1 DEF Stage, AnsweredDropped, Inv, TypeOK, Requests
  <2>5. Gate!Move({next}, "expected", "arrived")
    BY <2>1, <2>3, <2>4, MoveMapsToGate
  <2>. QED BY <2>1, <2>5 DEF Gate!Next, Gate!Arrive
<1>2. ASSUME NEW c \in Conn, ReadFails(c)
      PROVE  \A r \in Requests : Stage(r)' = Stage(r)
  BY <1>2 DEF ReadFails, Goto, Inv, TypeOK, Stage, AnsweredDropped, Requests, outside
<1>3. ASSUME NEW c \in Conn, UpgradeConnects(c)
      PROVE  Gate!Next
  <2>0. PICK cur \in Requests : cur = Current(c)
    BY <1>3, CurrentIsRequest DEF UpgradeConnects
  <2>1. Stage(cur) = "arrived" /\ cur \in Requests
    BY <2>0, <1>3, StageOfCurrent, CurrentIsRequest DEF UpgradeConnects, Before
  <2>2. Stage(cur)' = "sent"
    BY <2>0, <1>3 DEF UpgradeConnects, Stage, Current
  <2>3. \A r \in Requests \ {cur} : Stage(r)' = Stage(r)
    BY <2>0, <1>3, OthersUnmoved DEF UpgradeConnects
  <2>4. Gate!Move({cur}, "arrived", "sent")
    BY <2>0, <2>1, <2>2, <2>3, MoveMapsToGate
  <2>. QED BY <2>0, <2>1, <2>4 DEF Gate!Next, Gate!Pass
<1>4. ASSUME NEW c \in Conn,
             UpgradeFails(c) \/ CheckGate(c) \/ TakePendingId(c)
      PROVE  \A r \in Requests : Stage(r)' = Stage(r)
  <2>1. PICK place \in Places \ {"recv"} : Goto(c, place)
    BY <1>4 DEF UpgradeFails, CheckGate, TakePendingId, Places
  <2>2. Before(c) /\ UNCHANGED <<req, verdict, upstream, replies>>
    BY <1>4 DEF UpgradeFails, CheckGate, TakePendingId, Before, outside
  <2>. QED BY <2>1, <2>2 DEF Before, Goto, Inv, TypeOK, Stage, AnsweredDropped, Requests
<1>5. ASSUME NEW c \in Conn, PushPending(c)
      PROVE  Gate!Next
  <2>0. PICK cur \in Requests : cur = Current(c)
    BY <1>5, CurrentIsRequest DEF PushPending
  <2>1. Stage(cur) = "arrived" /\ cur \in Requests
    BY <2>0, <1>5, StageOfCurrent, CurrentIsRequest DEF PushPending, Before
  <2>2. Stage(cur)' = "held"
    <3>1. UNCHANGED <<req, verdict, upstream, replies>> /\ pc'[c] = "recv"
      BY <2>0, <1>5 DEF PushPending, Goto, Inv, TypeOK, outside
    <3>. QED BY <2>0, <2>1, <3>1 DEF Stage, AnsweredDropped, Current
  <2>3. \A r \in Requests \ {cur} : Stage(r)' = Stage(r)
    BY <2>0, <1>5, OthersUnmoved DEF PushPending, outside
  <2>4. Gate!Move({cur}, "arrived", "held")
    BY <2>0, <2>1, <2>2, <2>3, MoveMapsToGate
  <2>. QED BY <2>0, <2>1, <2>4 DEF Gate!Next, Gate!Hold
<1>6. ASSUME NEW c \in Conn, ReceiveForward(c)
      PROVE  \A r \in Requests : Stage(r)' = Stage(r)
  <2>0. PICK cur \in Requests : cur = Current(c)
    BY <1>6, CurrentIsRequest DEF ReceiveForward
  <2>1. /\ pc[c] = "recv" /\ verdict[cur] = "Forward"
        /\ Goto(c, "send") /\ UNCHANGED <<req, verdict, upstream, replies>>
    BY <2>0, <1>6 DEF ReceiveForward, Inv, VerdictInv, Decisions, outside
  <2>2. Stage(cur)' = Stage(cur)
    BY <2>0, <2>1 DEF Stage, AnsweredDropped, Current
  <2>3. \A r \in Requests : r # cur => Stage(r)' = Stage(r)
    BY <2>0, <2>1, OthersUnmoved
  <2>. QED BY <2>0, <2>2, <2>3
<1>7. ASSUME NEW c \in Conn, ReceiveDrop(c)
      PROVE  Gate!Next
  <2>0. PICK cur \in Requests : cur = Current(c)
    BY <1>7, CurrentIsRequest DEF ReceiveDrop
  <2>1. /\ pc[c] = "recv" /\ verdict[cur] = "Drop"
        /\ Goto(c, "closed") /\ Reply(c, "dropped") /\ UNCHANGED <<req, verdict, upstream>>
    BY <2>0, <1>7 DEF ReceiveDrop, Inv, VerdictInv, Decisions
  <2>2. /\ cur \in Requests /\ cur \notin upstream
        /\ ~ AnsweredDropped(cur)
    BY <2>0, <2>1, CurrentIsRequest, StageOfCurrent
  <2>3. Stage(cur) = "rejected"
    BY <2>0, <2>1, <2>2 DEF Stage
  <2>4. Stage(cur)' = "refused"
    <3>1. [conn |-> c, req |-> req[c], kind |-> "dropped"] \in replies'
      BY <2>1 DEF Reply
    <3>2. AnsweredDropped(cur)'
      BY <2>0, <3>1 DEF AnsweredDropped, Current
    <3>. QED BY <2>1, <2>2, <3>2 DEF Stage
  <2>5. \A r \in Requests \ {cur} : Stage(r)' = Stage(r)
    BY <2>0, <2>1, OthersUnmoved
  <2>6. Gate!Move({cur}, "rejected", "refused")
    BY <2>0, <2>2, <2>3, <2>4, <2>5, MoveMapsToGate
  <2>. QED BY <2>0, <2>2, <2>6 DEF Gate!Next, Gate!Refuse
<1>8. ASSUME NEW c \in Conn, SendUpstream(c)
      PROVE  Gate!Next
  <2>0. PICK cur \in Requests : cur = Current(c)
    BY <1>8, CurrentIsRequest DEF SendUpstream
  <2>1. /\ Stage(cur) \in {"arrived", "approved"} /\ cur \in Requests
        /\ pc[c] = "send"
    BY <2>0, <1>8, StageOfCurrent, CurrentIsRequest DEF SendUpstream
  <2>2. Stage(cur)' = "sent"
    BY <2>0, <1>8 DEF SendUpstream, Stage, Current
  <2>3. \A r \in Requests \ {cur} : Stage(r)' = Stage(r)
    BY <2>0, <1>8, <2>1, OthersUnmoved DEF SendUpstream
  <2>4. \/ Gate!Move({cur}, "arrived", "sent")
        \/ Gate!Move({cur}, "approved", "sent")
    BY <2>0, <2>1, <2>2, <2>3, MoveMapsToGate
  <2>. QED BY <2>0, <2>1, <2>4 DEF Gate!Next, Gate!Pass, Gate!Send
<1>9. ASSUME NEW c \in Conn,
             \/ SendFallback(c) \/ Respond(c) \/ UpstreamError(c)
             \/ TakeCaptureId(c) \/ PushCaptured(c)
      PROVE  \A r \in Requests : Stage(r)' = Stage(r)
  <2>0. PICK cur \in Requests : cur = Current(c)
    BY <1>9, CurrentIsRequest DEF SendFallback, Respond, UpstreamError, TakeCaptureId,
       PushCaptured
  <2>1. /\ cur \in upstream
        /\ pc[c] \notin {"read", "closed"}
    BY <2>0, <1>9, StageOfCurrent
       DEF SendFallback, Respond, UpstreamError, TakeCaptureId, PushCaptured
  <2>2. /\ UNCHANGED <<req, verdict, upstream>>
        /\ \E place \in Places : Goto(c, place)
        /\ replies' = replies \/ Reply(c, "response") \/ Reply(c, "error")
    BY <2>0, <1>9 DEF SendFallback, Respond, UpstreamError, TakeCaptureId, PushCaptured,
       outside,
       Places
  <2>3. Stage(cur)' = Stage(cur)
    BY <2>0, <2>1, <2>2 DEF Stage, Current
  <2>4. \A r \in Requests : r # cur => Stage(r)' = Stage(r)
    BY <2>0, <2>1, <2>2, OthersUnmoved
  <2>. QED BY <2>0, <2>3, <2>4
<1>10. ASSUME ClickDecision \/ ClickForwardAll
       PROVE  Gate!Next
  <2>1. PICK rows \in SUBSET pending_list, d \in Decisions :
          Decide(rows, d) /\ rows # {}
    BY <1>10 DEF ClickDecision, ClickForwardAll, Decisions
  <2>. DEFINE R == {<<row.conn, row.req>> : row \in rows}
              to == IF d = "Forward" THEN "approved" ELSE "rejected"
  <2>2. /\ \A row \in rows : /\ row \in pending_intercepts
                             /\ row.conn \in Conn /\ row.req \in 1 .. MaxRequests
                             /\ pc[row.conn] = "recv" /\ req[row.conn] = row.req
                             /\ verdict[<<row.conn, row.req>>] = "none"
        /\ UNCHANGED <<req, pc, upstream, replies>>
    BY <2>1 DEF Decide, Inv, TypeOK, WindowInv, PendingInv, VerdictInv, Rows, threads
  <2>3. \A r \in R : /\ r \in Requests /\ r[1] \in Conn /\ r = Current(r[1])
                     /\ pc[r[1]] = "recv" /\ verdict[r] = "none" /\ verdict'[r] = d
    BY <2>1, <2>2 DEF Requests, Current, Decide
  <2>4. \A r \in Requests \ R : verdict'[r] = verdict[r]
    BY <2>1 DEF Decide
  <2>5. \A r \in R : Stage(r) = "held" /\ Stage(r)' = to
    <3>. SUFFICES ASSUME NEW r \in R PROVE Stage(r) = "held" /\ Stage(r)' = to
      OBVIOUS
    <3>1. r \notin upstream /\ ~ AnsweredDropped(r) /\ r[2] = req[r[1]]
      BY <2>3, StageOfCurrent DEF Current
    <3>. QED BY <2>2, <2>3, <3>1 DEF Stage, AnsweredDropped, Decisions
  <2>6. \A r \in Requests \ R : Stage(r)' = Stage(r)
    BY <2>2, <2>4 DEF Stage, AnsweredDropped
  <2>7. R \in SUBSET Requests /\ R # {}
    BY <2>1, <2>3
  <2>8. Gate!Move(R, "held", to)
    BY <2>5, <2>6, <2>7, MoveMapsToGate
  <2>9. CASE d = "Forward"
    BY <2>7, <2>8, <2>9 DEF Gate!Next, Gate!Approve
  <2>10. CASE d = "Drop"
    BY <2>7, <2>8, <2>10 DEF Gate!Next, Gate!Reject
  <2>. QED BY <2>9, <2>10 DEF Decisions
<1>11. ASSUME BeginFrame \/ EndFrame \/ ClickToggle \/ ClickCheckbox \/ Resolve
              \/ UNCHANGED vars
       PROVE  \A r \in Requests : Stage(r)' = Stage(r)
  <2>1. UNCHANGED <<req, pc, verdict, upstream, replies>>
    BY <1>11 DEF BeginFrame, EndFrame, ClickToggle, ClickCheckbox, Resolve, ResolveTake,
       ResolveTakeFrame, ResolveSend, ResolveDone, threads, outside, vars
  <2>. QED BY <2>1 DEF Stage, AnsweredDropped
<1>. QED
  BY <1>1, <1>2, <1>3, <1>4, <1>5, <1>6, <1>7, <1>8, <1>9, <1>10, <1>11, StutterMapsToGate
  DEF Next, ThreadStep, Click

\* The handler threads and the window together implement InterceptGate: every
\* request is passed, or held until the user approves or rejects it, and is sent
\* or refused accordingly, exactly once.
THEOREM HandlersImplementGate == Spec => ImplementsGate
<1>1. Inv /\ [Next]_vars => [Gate!Next]_[r \in Requests |-> Stage(r)]
  BY NextMapsToGate
<1>. QED BY InvHolds, InitMapsToGate, <1>1, PTL DEF Spec, ImplementsGate, Gate!Spec
=============================================================================
