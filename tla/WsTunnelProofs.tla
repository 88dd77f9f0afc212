---------------------------- MODULE WsTunnelProofs ----------------------------
(***************************************************************************)
(* Proofs about WsTunnel, for any tunnels, any number of frames and any    *)
(* setups: its safety invariants, and the refinement of InterceptGate.     *)
(***************************************************************************)
EXTENDS WsTunnel, SequenceTheorems, TLAPS

-----------------------------------------------------------------------------
(* The inductive invariant *)

\* A thread that has read a frame and is not done with it.
Busy(t) == pc[t] \notin {"loop", "read", "eof", "done"}

\* Peers number what they send.
SentInv ==
    \A t \in Threads : \A i \in 1 .. Len(sent[t]) : sent[t][i].n = i /\ sent[t][i].by = "peer"

\* The frame in hand is the last one read, of the kind it had unless the user chose
\* another one; only data frames come to the gate.
Hand(t) ==
    /\ taken[t] <= Len(sent[t])
    /\ Busy(t) => /\ taken[t] \in 1 .. MaxFrames
                  /\ cur[t].n = taken[t] /\ cur[t].by = "peer"
                  /\ \/ cur[t].op = sent[t][taken[t]].op
                     \/ verdict[<<t, taken[t]>>] = "Forward"
    /\ pc[t] \in {"gate", "push", "recv", "log"} => sent[t][taken[t]].op = "data"

\* What the user decided, and what a thread's channel holds, by where the thread is.
Decision(t) ==
    /\ \A n \in 1 .. MaxFrames : n > taken[t] => verdict[<<t, n>>] = "none"
    /\ Busy(t) /\ pc[t] # "recv" => verdict[<<t, taken[t]>>] # "Drop"
    /\ pc[t] \in {"gate", "push"} => verdict[<<t, taken[t]>>] = "none"
    /\ pc[t] # "recv" => responder[t] = "none"
    /\ pc[t] = "recv" =>
         \/ responder[t] = "open" /\ <<t, taken[t]>> \in pending
         \/ responder[t] = "Drop" /\ verdict[<<t, taken[t]>>] = "Drop"
         \/ responder[t] \in Ops /\ verdict[<<t, taken[t]>>] = "Forward"

\* A queued frame is the one its thread waits with, and undecided.
PendingInv ==
    \A t \in Threads : \A n \in 1 .. MaxFrames : <<t, n>> \in pending =>
        pc[t] = "recv" /\ responder[t] = "open" /\ n = taken[t] /\ verdict[<<t, n>>] = "none"

\* Of the frames read, only those a thread is done with are on the wire, and none
\* the user dropped.
OnWire(t) ==
    \A i \in 1 .. Len(wire[t]) : wire[t][i].by = "peer" =>
        /\ wire[t][i].n \in 1 .. taken[t]
        /\ Busy(t) => wire[t][i].n # taken[t]
        /\ verdict[<<t, wire[t][i].n>>] # "Drop"

\* Where a thread stands before its frame is in the history, and after.
Early == {"close", "log_control", "gate", "push", "recv", "log"}
Late  == {"write", "relay_close", "pong", "log_pong"}

\* Likewise the history, where a frame is shown once its thread got that far.
LoggedInv ==
    \A e \in History : e.by = "peer" =>
        /\ e.n \in 1 .. taken[e.dir]
        /\ e.n = taken[e.dir] => pc[e.dir] \notin Early
        /\ verdict[<<e.dir, e.n>>] # "Drop"

\* The history shows the frames of one direction in the order they were sent.
LoggedOrder ==
    \A i \in 1 .. Len(logged) : \A j \in 1 .. i - 1 :
        logged[i].by = "peer" /\ logged[j].by = "peer" /\ logged[i].dir = logged[j].dir =>
            logged[j].n < logged[i].n

\* A frame about to be delivered is in the history of a listed tunnel, or was, with the
\* exceptions HistoryIsComplete names.
Seen(t) ==
    /\ pc[t] \in Late
    /\ status[t[1]] # "unlisted"
    /\ cur[t].op = "data" \/ cur[t].op = sent[t][taken[t]].op
    /\ ~(cur[t].op = "pong" /\ t[1] \notin setup.tls /\ t[2] = "s2c")
    => Remembered(t, cur[t].op, taken[t])

\* While the window clears the history no tunnel is listed.
ClearInv == ui = "clear" => \A c \in Conns : status[c] = "unlisted"

\* Frame f is on the wire of direction t, or a write there failed.
WrittenOrFailed(t, op, n, by) ==
    \/ \E i \in 1 .. Len(wire[t]) : wire[t][i].op = op /\ wire[t][i].n = n /\ wire[t][i].by = by
    \/ failed[t]

\* Pongs are made for servers' pings, and written before they are logged.
Answered(t) ==
    /\ pc[t] \in {"pong", "log_pong"} => t[2] = "s2c"
    /\ pc[t] = "log_pong" /\ t[1] \in setup.tls =>
         WrittenOrFailed(Reverse(t), "pong", taken[t], "proxy")

HandInv     == \A t \in Threads : Hand(t)
DecisionInv == \A t \in Threads : Decision(t)
WireInv     == \A t \in Threads : OnWire(t)
SeenInv     == \A t \in Threads : Seen(t)
PongInv     == \A t \in Threads : Answered(t)

Inv == /\ TypeOK /\ SentInv /\ HandInv /\ DecisionInv /\ PendingInv /\ WireInv
       /\ LoggedInv /\ LoggedOrder /\ SeenInv /\ ClearInv /\ PongInv
       /\ RelayedInOrder /\ NothingIsLost /\ HistoryIsComplete /\ HistoryIsTruthful

-----------------------------------------------------------------------------
(* Directions and slots *)

LEMMA ReverseFacts ==
    ASSUME NEW t \in Threads
    PROVE  /\ Reverse(t) \in Threads /\ Reverse(t) # t
           /\ Reverse(t)[1] = t[1] /\ Reverse(Reverse(t)) = t
           /\ t[1] \in Conns /\ t[2] \in {"c2s", "s2c"}
BY DEF Threads, Reverse

LEMMA SlotFacts ==
    ASSUME NEW s \in Slots
    PROVE  /\ s[1] \in Threads /\ s[2] \in 1 .. MaxFrames /\ s = <<s[1], s[2]>>
BY DEF Slots

LEMMA SlotIntro ==
    ASSUME NEW t \in Threads, NEW n \in 1 .. MaxFrames
    PROVE  <<t, n>> \in Slots /\ <<t, n>>[1] = t /\ <<t, n>>[2] = n
BY DEF Slots

-----------------------------------------------------------------------------
(* The store of the history *)

Pushes(e) ==
    logged' = Append(IF Len(logged) >= Capacity THEN SubSeq(logged, Drained + 1, Len(logged))
                                                ELSE logged, e)

\* A push drops d of the oldest entries, none unless the store is full, and appends one.
LEMMA PushShape ==
    ASSUME logged \in Seq(Entries), NEW e \in Entries, Pushes(e)
    PROVE  /\ logged' \in Seq(Entries)
           /\ \E d \in 0 .. Len(logged) :
                /\ d = 0 \/ (d = Drained /\ Len(logged) >= Capacity)
                /\ Len(logged') = Len(logged) - d + 1
                /\ \A i \in 1 .. Len(logged) - d : logged'[i] = logged[i + d]
                /\ logged'[Len(logged) - d + 1] = e
<1>0. Len(logged) \in Nat /\ Capacity \in Nat /\ Drained \in Nat /\ 0 < Drained /\ Drained <= Capacity
  BY CapacityAssumption, LenProperties
<1>1. CASE Len(logged) >= Capacity
  <2>. DEFINE cut == SubSeq(logged, Drained + 1, Len(logged))
  <2>1. Drained + 1 \in 1 .. Len(logged) + 1 /\ Len(logged) \in Drained .. Len(logged)
    BY <1>0, <1>1
  <2>2. /\ cut \in Seq(Entries) /\ Len(cut) = Len(logged) - Drained
        /\ \A i \in 1 .. Len(logged) - Drained : cut[i] = logged[i + Drained]
    BY <1>0, <2>1
  <2>. HIDE DEF cut
  <2>3. logged' = Append(cut, e)
    BY <1>1 DEF Pushes, cut
  <2>4. /\ logged' \in Seq(Entries) /\ Len(logged') = Len(cut) + 1
        /\ \A i \in 1 .. Len(cut) : logged'[i] = cut[i]
        /\ logged'[Len(cut) + 1] = e
    BY <2>2, <2>3, AppendProperties
  <2>5. Drained \in 0 .. Len(logged)
    BY <1>0, <1>1
  <2>. QED BY <1>1, <2>2, <2>4, <2>5
<1>2. CASE ~(Len(logged) >= Capacity)
  <2>1. logged' = Append(logged, e)
    BY <1>2 DEF Pushes
  <2>2. /\ logged' \in Seq(Entries) /\ Len(logged') = Len(logged) + 1
        /\ \A i \in 1 .. Len(logged) : logged'[i] = logged[i]
        /\ logged'[Len(logged) + 1] = e
    BY <2>1, AppendProperties
  <2>3. 0 \in 0 .. Len(logged) /\ Len(logged) - 0 = Len(logged) /\ \A i \in 1 .. Len(logged) : i + 0 = i
    BY <1>0
  <2>. QED BY <2>2, <2>3
<1>. QED BY <1>1, <1>2

\* What a push adds, and, if its frame is newer than those of its direction, that the
\* order stays and that every frame but the new one is remembered as before.
LEMMA PushKeeps ==
    ASSUME TypeOK, LoggedOrder, NEW e \in Entries, Pushes(e),
           e.by = "peer" => \A o \in History : o.dir = e.dir /\ o.by = "peer" => o.n < e.n
    PROVE  /\ History' \subseteq History \cup {e} /\ e \in History'
           /\ LoggedOrder'
           /\ \A r \in Threads, op \in Ops, n \in Nat :
                Remembered(r, op, n) /\ (e.by = "peer" /\ e.dir = r => n < e.n) => Remembered(r, op, n)'
<1>0. logged \in Seq(Entries)
  BY DEF TypeOK
<1>1. logged' \in Seq(Entries) /\ Len(logged) \in Nat /\ Len(logged') \in Nat
  BY <1>0, PushShape, LenProperties
<1>2. DOMAIN logged = 1 .. Len(logged) /\ DOMAIN logged' = 1 .. Len(logged')
  BY <1>0, <1>1, LenProperties
<1>3. PICK d \in 0 .. Len(logged) :
        /\ d = 0 \/ (d = Drained /\ Len(logged) >= Capacity)
        /\ Len(logged') = Len(logged) - d + 1
        /\ \A i \in 1 .. Len(logged) - d : logged'[i] = logged[i + d]
        /\ logged'[Len(logged) - d + 1] = e
  BY <1>0, PushShape
<1>4. \A i \in 1 .. Len(logged') :
         \/ i = Len(logged') /\ logged'[i] = e
         \/ i \in 1 .. Len(logged) - d /\ i + d \in 1 .. Len(logged) /\ logged'[i] = logged[i + d]
  BY <1>1, <1>3
<1>5. \A i \in 1 .. Len(logged) : logged[i] \in History
  BY <1>2 DEF History
<1>6. History' \subseteq History \cup {e}
  BY <1>2, <1>4, <1>5 DEF History
<1>7. e \in History'
  <2>1. Len(logged') \in DOMAIN logged' /\ logged'[Len(logged')] = e
    BY <1>1, <1>2, <1>3
  <2>. QED BY <2>1 DEF History
<1>8. LoggedOrder'
  <2>. SUFFICES ASSUME NEW i \in 1 .. Len(logged'), NEW j \in 1 .. i - 1,
                       logged'[i].by = "peer", logged'[j].by = "peer",
                       logged'[i].dir = logged'[j].dir
                PROVE  logged'[j].n < logged'[i].n
    BY DEF LoggedOrder
  <2>1. /\ j \in 1 .. Len(logged) - d /\ j + d \in 1 .. Len(logged)
        /\ logged'[j] = logged[j + d] /\ logged'[j] \in History
    BY <1>1, <1>3, <1>4, <1>5
  <2>2. CASE logged'[i] = e
    BY <2>1, <2>2
  <2>3. CASE i \in 1 .. Len(logged) - d /\ i + d \in 1 .. Len(logged) /\ logged'[i] = logged[i + d]
    <3>1. j + d \in 1 .. (i + d) - 1
      BY <2>1, <2>3
    <3>. QED BY <2>1, <2>3, <3>1 DEF LoggedOrder
  <2>. QED BY <1>4, <2>2, <2>3
<1>9. ASSUME NEW r \in Threads, NEW op \in Ops, NEW n \in Nat,
             Remembered(r, op, n), e.by = "peer" /\ e.dir = r => n < e.n
      PROVE  Remembered(r, op, n)'
  <2>0. Capacity \in Nat /\ Drained \in Nat /\ 0 < Drained /\ Drained <= Capacity
    BY CapacityAssumption
  <2>. DEFINE x == [dir |-> r, op |-> op, n |-> n, by |-> "peer"]
  <2>1. CASE /\ Len(logged) > Capacity - Drained
             /\ \A o \in History : o.dir = r /\ o.by = "peer" => o.n > n
    <3>1. Len(logged') > Capacity - Drained
      BY <1>1, <1>3, <2>0, <2>1
    <3>2. ASSUME NEW o \in History', o.dir = r, o.by = "peer" PROVE o.n > n
      <4>1. o \in History => o.n > n
        BY <2>1, <3>2
      <4>2. o = e => e.n > n
        <5>1. e.n \in Nat
          BY FramesAssumption DEF Entries
        <5>. QED BY <1>9, <3>2, <5>1
      <4>. QED BY <1>6, <3>2, <4>1, <4>2
    <3>. QED BY <3>1, <3>2 DEF Remembered
  <2>2. ASSUME NEW k \in 1 .. Len(logged), logged[k] = x PROVE Remembered(r, op, n)'
    <3>. HIDE DEF x
    <3>1. CASE k > d
      <4>1. k - d \in 1 .. Len(logged) - d /\ (k - d) + d = k /\ k - d \in 1 .. Len(logged')
        BY <1>1, <1>3, <3>1
      <4>2. logged'[k - d] = x /\ k - d \in DOMAIN logged'
        BY <1>2, <1>3, <2>2, <4>1
      <4>3. x \in History'
        BY <4>2 DEF History
      <4>. QED BY <4>3 DEF x, Remembered
    <3>2. CASE k <= d
      <4>1. Len(logged') > Capacity - Drained
        BY <1>1, <1>3, <2>0, <3>2
      <4>2. x.by = "peer" /\ x.dir = r /\ x.n = n
        BY DEF x
      <4>3. ASSUME NEW i \in 1 .. Len(logged'), logged'[i].dir = r, logged'[i].by = "peer"
            PROVE  logged'[i].n > n
        <5>1. CASE logged'[i] = e
          <6>1. e.n \in Nat
            BY FramesAssumption DEF Entries
          <6>. QED BY <1>9, <4>3, <5>1, <6>1
        <5>2. CASE i + d \in 1 .. Len(logged) /\ logged'[i] = logged[i + d]
          <6>1. k \in 1 .. (i + d) - 1
            BY <1>1, <3>2
          <6>2. logged[k].n < logged[i + d].n
            BY <2>2, <4>2, <4>3, <5>2, <6>1 DEF LoggedOrder
          <6>3. logged[i + d].n \in Nat
            <7>1. logged[i + d] \in Entries
              BY <1>0, <5>2, ElementOfSeq
            <7>. QED BY <7>1, FramesAssumption DEF Entries
          <6>. QED BY <2>2, <4>2, <5>2, <6>2, <6>3
        <5>. QED BY <1>4, <5>1, <5>2
      <4>4. \A o \in History' : o.dir = r /\ o.by = "peer" => o.n > n
        BY <1>2, <4>3 DEF History
      <4>. QED BY <4>1, <4>4 DEF Remembered
    <3>. QED BY <1>3, <3>1, <3>2
  <2>3. x \in History => \E k \in 1 .. Len(logged) : logged[k] = x
    BY <1>2 DEF History
  <2>. QED BY <1>9, <2>1, <2>2, <2>3 DEF Remembered
<1>. QED BY <1>6, <1>7, <1>8, <1>9

-----------------------------------------------------------------------------
(* Types *)

\* The repeater adds an entry of its own to the history.
LEMMA RepeaterPushes ==
    ASSUME TypeOK, NEW c \in Conns \cup {"none"}, ClickRepeaterSend(c)
    PROVE  \E e \in Entries : e.by = "repeater" /\ Pushes(e)
<1>1. PICK op \in setup.ops : Log(<<c, "c2s">>, op, repeated + 1, "repeater")
  BY DEF ClickRepeaterSend
<1>2. op \in Ops
  BY SetupsAssumption DEF TypeOK
<1>3. repeated + 1 \in 1 .. MaxFrames
  BY SetupsAssumption, FramesAssumption DEF TypeOK, ClickRepeaterSend
<1>. DEFINE e == [dir |-> <<c, "c2s">>, op |-> op, n |-> repeated + 1, by |-> "repeater"]
<1>4. e \in Entries /\ e.by = "repeater"
  BY <1>2, <1>3 DEF Entries
<1>5. Pushes(e)
  BY <1>1 DEF Log, Pushes
<1>. QED BY <1>4, <1>5

LEMMA TypeIsKept ==
    ASSUME TypeOK, [Next]_vars
    PROVE  TypeOK'
<1>. USE DEF peers, links, thread, gate, conns, window
<1>1. ASSUME NEW t \in Threads, PeerSends(t) PROVE TypeOK'
  <2>1. PICK op \in setup.ops :
          sent' = [sent EXCEPT ![t] = Append(@, [op |-> op, n |-> Len(@) + 1,
                                                 masked |-> t[2] = "c2s", by |-> "peer"])]
    BY <1>1 DEF PeerSends
  <2>2. setup.ops \subseteq Ops /\ setup.load[t] \in 0 .. MaxFrames
    BY SetupsAssumption DEF TypeOK
  <2>3. (t[2] = "c2s") \in BOOLEAN
    OBVIOUS
  <2>4. Len(sent[t]) \in Nat /\ Len(sent[t]) + 1 \in 1 .. MaxFrames
    BY <1>1, <2>2, FramesAssumption DEF PeerSends, TypeOK
  <2>. DEFINE f == [op |-> op, n |-> Len(sent[t]) + 1, masked |-> t[2] = "c2s", by |-> "peer"]
  <2>5. f \in Frames
    BY <2>2, <2>3, <2>4 DEF Frames
  <2>. HIDE DEF f
  <2>6. sent' = [sent EXCEPT ![t] = Append(@, f)]
    BY <2>1 DEF f
  <2>7. sent' \in [Threads -> Seq(Frames)] /\ \A r \in Threads : Len(sent'[r]) <= MaxFrames
    BY <2>4, <2>5, <2>6, FramesAssumption DEF TypeOK
  <2>. QED BY <1>1, <2>7 DEF PeerSends, TypeOK
<1>2. ASSUME NEW t \in Threads, PeerGoes(t) PROVE TypeOK'
  BY <1>2 DEF PeerGoes, TypeOK
<1>3. ASSUME NEW t \in Threads, LoopTop(t) \/ ReadTimesOut(t) \/ ReadEof(t) \/ CheckGate(t)
      PROVE TypeOK'
  BY <1>3 DEF LoopTop, ReadTimesOut, ReadEof, CheckGate, Goto, Places, TypeOK
<1>4. ASSUME NEW t \in Threads, ReadFrame(t) PROVE TypeOK'
  <2>1. taken[t] \in Nat /\ taken[t] < Len(sent[t]) /\ Len(sent[t]) \in Nat
    BY <1>4 DEF ReadFrame, TypeOK
  <2>2. taken' \in [Threads -> 0 .. MaxFrames] /\ sent[t][taken[t] + 1] \in Frames
    BY <1>4, <2>1, FramesAssumption, ElementOfSeq DEF ReadFrame, TypeOK
  <2>3. cur' \in [Threads -> Frames] /\ cur'[t].op \in Ops
    BY <1>4, <2>2 DEF ReadFrame, TypeOK, Frames
  <2>4. pc' \in [Threads -> Places]
    BY <1>4, <2>3 DEF ReadFrame, TypeOK, Goto, Places, Ops
  <2>. QED BY <1>4, <2>2, <2>3, <2>4 DEF ReadFrame, TypeOK
<1>5. ASSUME NEW t \in Threads, SetEofStatus(t) \/ SetCloseStatus(t) PROVE TypeOK'
  <2>1. status' \in [Conns -> {"Active", "Manual", "EOF", "Closed", "unlisted"}]
    BY <1>5 DEF SetEofStatus, SetCloseStatus, SetStatus, TypeOK
  <2>. QED BY <1>5, <2>1 DEF SetEofStatus, SetCloseStatus, Goto, Places, TypeOK
<1>6. ASSUME NEW t \in Threads, LogControl(t) \/ LogPong(t) \/ LogData(t) PROVE TypeOK'
  <2>1. cur[t].op \in Ops /\ cur[t].n \in 1 .. MaxFrames /\ <<t[1], "c2s">> \in Threads
    BY DEF TypeOK, Frames, Threads
  <2>. DEFINE Log1(dir, op, by) == [dir |-> dir, op |-> op, n |-> cur[t].n, by |-> by]
  <2>0. \A dir \in Threads, op \in Ops, by \in {"peer", "proxy"} : Log1(dir, op, by) \in Entries
    BY <2>1 DEF Entries
  <2>2. logged' \in Seq(Entries)
    <3>1. LogControl(t) => Pushes(Log1(t, cur[t].op, "peer"))
      BY DEF LogControl, Log, Pushes
    <3>2. LogPong(t) => Pushes(Log1(<<t[1], "c2s">>, "pong", "proxy"))
      BY DEF LogPong, Log, Pushes
    <3>3. LogData(t) => logged' = logged \/ Pushes(Log1(t, "data", "peer"))
      BY DEF LogData, Log, Pushes
    <3>. HIDE DEF Log1
    <3>4. \E dir \in Threads, op \in Ops, by \in {"peer", "proxy"} :
            logged' = logged \/ Pushes(Log1(dir, op, by))
      BY <1>6, <2>1, <3>1, <3>2, <3>3 DEF Ops
    <3>5. logged \in Seq(Entries)
      BY DEF TypeOK
    <3>. QED BY <2>0, <3>4, <3>5, PushShape
  <2>3. pc' \in [Threads -> Places]
    BY <1>6 DEF LogControl, LogPong, LogData, Goto, Places, TypeOK
  <2>. QED BY <1>6, <2>2, <2>3 DEF LogControl, LogPong, LogData, TypeOK
<1>7. ASSUME NEW t \in Threads, WritePong(t) \/ RelayClose(t) \/ WriteFrame(t) PROVE TypeOK'
  <2>. DEFINE pong == [op |-> "pong", n |-> cur[t].n, masked |-> FALSE, by |-> "proxy"]
  <2>1. pong \in Frames /\ cur[t] \in Frames
    BY DEF TypeOK, Frames, Ops
  <2>. HIDE DEF pong
  <2>2. \A r \in Threads, f \in Frames :
           Deliver(r, f) \/ Fail(r) =>
             wire' \in [Threads -> Seq(Frames)] /\ failed' \in [Threads -> BOOLEAN]
    <3>. TAKE r \in Threads, f \in Frames
    <3>1. Append(wire[r], f) \in Seq(Frames)
      BY AppendProperties DEF TypeOK
    <3>. QED BY <3>1 DEF Deliver, Fail, TypeOK
  <2>3. wire' \in [Threads -> Seq(Frames)] /\ failed' \in [Threads -> BOOLEAN]
    BY <1>7, <2>1, <2>2, ReverseFacts DEF WritePong, RelayClose, WriteFrame, Write, pong
  <2>. QED BY <1>7, <2>3 DEF WritePong, RelayClose, WriteFrame, Goto, Places, TypeOK
<1>8. ASSUME NEW t \in Threads, PushFrame(t) PROVE TypeOK'
  <2>1. SlotOf(t) \in Slots
    BY DEF SlotOf, Slots, TypeOK, Frames
  <2>. QED BY <1>8, <2>1 DEF PushFrame, Goto, Places, TypeOK
<1>9. ASSUME NEW t \in Threads, ReceiveForward(t) \/ ReceiveDrop(t) PROVE TypeOK'
  <2>0. responder[t] \in Ops => [cur[t] EXCEPT !.masked = FALSE, !.op = responder[t]] \in Frames
    BY DEF TypeOK, Frames
  <2>1. cur' \in [Threads -> Frames]
    BY <1>9, <2>0 DEF ReceiveForward, ReceiveDrop, TypeOK
  <2>. QED BY <1>9, <2>1 DEF ReceiveForward, ReceiveDrop, Goto, Places, TypeOK
<1>10. ASSUME NEW S \in SUBSET Slots, NEW d \in Decisions, Decide(S, d)
       PROVE  verdict' \in [Slots -> {"none"} \cup Decisions]
  BY <1>10 DEF Decide, TypeOK
<1>11. ASSUME NEW answer \in {"Drop"} \cup Ops, NEW d \in Decisions, Drain(answer, d)
       PROVE  /\ pending' \in SUBSET Slots
              /\ responder' \in [Threads -> {"none", "open", "Drop"} \cup Ops]
              /\ verdict' \in [Slots -> {"none"} \cup Decisions]
  BY <1>10, <1>11 DEF Drain, TypeOK
<1>12. ASSUME ClickToggle \/ ChangeScope PROVE TypeOK'
  BY <1>12 DEF ClickToggle, ChangeScope, TypeOK
<1>13. ASSUME Flush \/ ClickForwardAll \/ ClickDropAll PROVE TypeOK'
  BY <1>11, <1>13 DEF Flush, ClickForwardAll, ClickDropAll, TypeOK, Ops, Decisions
<1>14. ASSUME NEW s \in Slots, ClickForward(s) \/ ClickDrop(s) PROVE TypeOK'
  <2>1. PICK answer \in {"Drop"} \cup Ops, d \in Decisions : Answer(s, answer, d)
    BY <1>14, SetupsAssumption DEF ClickForward, ClickDrop, TypeOK, Decisions
  <2>2. responder' \in [Threads -> {"none", "open", "Drop"} \cup Ops]
    BY <2>1, SlotFacts DEF Answer, TypeOK
  <2>3. verdict' \in [Slots -> {"none"} \cup Decisions]
    BY <1>10, <2>1 DEF Answer
  <2>. QED BY <2>1, <2>2, <2>3 DEF Answer, TypeOK
<1>15. ASSUME (\E c \in Conns : ClickCloseTunnel(c)) \/ SetManualStatus \/ ClickClearHistory
       PROVE TypeOK'
  BY <1>15 DEF ClickCloseTunnel, SetManualStatus, SetStatus, ClickClearHistory, TypeOK
<1>16. ASSUME ClearFrames PROVE TypeOK'
  <2>1. logged' \in Seq(Entries)
    BY <1>16 DEF ClearFrames
  <2>. QED BY <1>16, <2>1 DEF ClearFrames, TypeOK
<1>17. ASSUME NEW c \in Conns \cup {"none"}, ClickRepeaterSend(c) PROVE TypeOK'
  <2>1. PICK e \in Entries : Pushes(e)
    BY <1>17, RepeaterPushes
  <2>2. logged' \in Seq(Entries)
    BY <2>1, PushShape DEF TypeOK
  <2>3. repeated' \in 0 .. MaxFrames
    BY <1>17, SetupsAssumption, FramesAssumption DEF ClickRepeaterSend, TypeOK
  <2>. QED BY <1>17, <2>2, <2>3 DEF ClickRepeaterSend, TypeOK
<1>18. CASE UNCHANGED vars
  BY <1>18 DEF vars, TypeOK
<1>. QED BY <1>1, <1>2, <1>3, <1>4, <1>5, <1>6, <1>7, <1>8, <1>9, <1>12, <1>13, <1>14, <1>15, <1>16,
            <1>17, <1>18
          DEF Next, RelayStep, Click, Finish

-----------------------------------------------------------------------------
(* What a step leaves alone, and how the user's decisions arrive *)

\* A peer only adds to what it sent.
LEMMA PeerStep ==
    ASSUME TypeOK, NEW t \in Threads, PeerSends(t) \/ PeerGoes(t)
    PROVE  /\ UNCHANGED <<setup, links, thread, gate, conns, logged, window, verdict>>
           /\ \A r \in Threads :
                /\ Len(sent[r]) \in Nat /\ Len(sent'[r]) \in Nat /\ Len(sent[r]) <= Len(sent'[r])
                /\ \A i \in 1 .. Len(sent[r]) : sent'[r][i] = sent[r][i]
                /\ \A i \in 1 .. Len(sent'[r]) : i > Len(sent[r]) =>
                     sent'[r][i].n = i /\ sent'[r][i].by = "peer"
<1>1. CASE PeerGoes(t)
  BY <1>1, LenProperties DEF PeerGoes, TypeOK
<1>2. CASE PeerSends(t)
  <2>1. PICK op \in setup.ops :
          sent' = [sent EXCEPT ![t] = Append(@, [op |-> op, n |-> Len(@) + 1,
                                                 masked |-> t[2] = "c2s", by |-> "peer"])]
    BY <1>2 DEF PeerSends
  <2>. DEFINE f == [op |-> op, n |-> Len(sent[t]) + 1, masked |-> t[2] = "c2s", by |-> "peer"]
  <2>2. f.n = Len(sent[t]) + 1 /\ f.by = "peer"
    OBVIOUS
  <2>. HIDE DEF f
  <2>3. sent' = [sent EXCEPT ![t] = Append(@, f)] /\ sent[t] \in Seq(Frames)
    BY <2>1 DEF f, TypeOK
  <2>4. /\ Len(Append(sent[t], f)) = Len(sent[t]) + 1
        /\ \A i \in 1 .. Len(sent[t]) : Append(sent[t], f)[i] = sent[t][i]
        /\ Append(sent[t], f)[Len(sent[t]) + 1] = f
    BY <2>3
  <2>5. \A r \in Threads : Len(sent[r]) \in Nat
    BY LenProperties DEF TypeOK
  <2>6. \A r \in Threads : sent'[r] = IF r = t THEN Append(sent[t], f) ELSE sent[r]
    BY <2>3 DEF TypeOK
  <2>. QED BY <1>2, <2>2, <2>4, <2>5, <2>6 DEF PeerSends
<1>. QED BY <1>1, <1>2

\* A relay thread leaves the peers, the flag, the windows and other threads alone.
LEMMA RelayFrame ==
    ASSUME TypeOK, NEW t \in Threads, RelayStep(t)
    PROVE  /\ UNCHANGED <<peers, flag, scope, forced, window, verdict>>
           /\ \A r \in Threads : r # t =>
                /\ pc'[r] = pc[r] /\ taken'[r] = taken[r] /\ cur'[r] = cur[r]
                /\ responder'[r] = responder[r]
                /\ \A n : <<r, n>> \in pending' <=> <<r, n>> \in pending
<1>. USE DEF peers, links, thread, gate, conns, window, Goto
<1>1. CASE LoopTop(t) \/ ReadTimesOut(t) \/ ReadFrame(t) \/ ReadEof(t) \/ CheckGate(t)
  BY <1>1 DEF LoopTop, ReadTimesOut, ReadFrame, ReadEof, CheckGate, TypeOK
<1>2. CASE SetEofStatus(t) \/ SetCloseStatus(t)
  BY <1>2 DEF SetEofStatus, SetCloseStatus, TypeOK
<1>3. CASE LogControl(t) \/ LogPong(t) \/ LogData(t)
  BY <1>3 DEF LogControl, LogPong, LogData, TypeOK
<1>4. CASE WritePong(t) \/ RelayClose(t) \/ WriteFrame(t)
  BY <1>4 DEF WritePong, RelayClose, WriteFrame, TypeOK
<1>5. CASE PushFrame(t) \/ ReceiveForward(t) \/ ReceiveDrop(t)
  BY <1>5 DEF PushFrame, ReceiveForward, ReceiveDrop, SlotOf, TypeOK
<1>. QED BY <1>1, <1>2, <1>3, <1>4, <1>5 DEF RelayStep

\* The queued frames S are answered, all in the same way.
Decided(S, answer, d) ==
    /\ answer \in {"Drop"} \cup Ops /\ d \in Decisions /\ (answer = "Drop" <=> d = "Drop")
    /\ pending' = pending \ S
    /\ \A t \in Threads :
         /\ responder'[t] = IF <<t, taken[t]>> \in S THEN answer ELSE responder[t]
         /\ \A n \in 1 .. MaxFrames :
              verdict'[<<t, n>>] = IF <<t, n>> \in S THEN d ELSE verdict[<<t, n>>]

LEMMA DrainDecides ==
    ASSUME TypeOK, PendingInv, NEW answer \in {"Drop"} \cup Ops, NEW d \in Decisions,
           Drain(answer, d), answer = "Drop" <=> d = "Drop"
    PROVE  Decided(pending, answer, d)
<1>1. \A t \in Threads : (\E s \in pending : s[1] = t) <=> <<t, taken[t]>> \in pending
  <2>. TAKE t \in Threads
  <2>1. ASSUME NEW s \in pending, s[1] = t PROVE <<t, taken[t]>> \in pending
    <3>1. s = <<t, s[2]>> /\ s[2] \in 1 .. MaxFrames
      BY <2>1, SlotFacts DEF TypeOK
    <3>2. s[2] = taken[t]
      BY <3>1 DEF PendingInv
    <3>. QED BY <3>1, <3>2
  <2>2. <<t, taken[t]>>[1] = t
    OBVIOUS
  <2>. QED BY <2>1, <2>2
<1>2. \A t \in Threads, n \in 1 .. MaxFrames : <<t, n>> \in Slots
  BY SlotIntro
<1>. QED BY <1>1, <1>2 DEF Drain, Decide, Decided

LEMMA AnswerDecides ==
    ASSUME TypeOK, PendingInv, NEW s \in pending, NEW answer \in {"Drop"} \cup Ops,
           NEW d \in Decisions, Answer(s, answer, d), answer = "Drop" <=> d = "Drop"
    PROVE  Decided({s}, answer, d)
<1>1. s[1] \in Threads /\ s[2] = taken[s[1]] /\ s = <<s[1], s[2]>>
  BY SlotFacts DEF TypeOK, PendingInv
<1>2. \A t \in Threads : <<t, taken[t]>> \in {s} <=> t = s[1]
  BY <1>1
<1>3. \A t \in Threads, n \in 1 .. MaxFrames : <<t, n>> \in Slots
  BY SlotIntro
<1>4. \A t \in Threads : responder'[t] = IF t = s[1] THEN answer ELSE responder[t]
  BY <1>1 DEF Answer, TypeOK
<1>5. \A r \in Slots : verdict'[r] = IF r \in {s} THEN d ELSE verdict[r]
  BY DEF Answer, Decide
<1>6. pending' = pending \ {s}
  BY DEF Answer
<1>. QED BY <1>2, <1>3, <1>4, <1>5, <1>6 DEF Decided

\* A window never touches peers, wires and threads; either it decides queued frames, or
\* queue and channels stay as they are and perhaps a history or a status changes.
LEMMA WindowStep ==
    ASSUME TypeOK, PendingInv, Click \/ Finish
    PROVE  /\ UNCHANGED <<peers, links, pc, taken, cur>>
           /\ \/ /\ UNCHANGED <<status, logged>>
                 /\ ui' \in {ui, "idle"}
                 /\ \E S \in SUBSET pending, answer \in {"Drop"} \cup Ops, d \in Decisions :
                  Decided(S, answer, d)
              \/ UNCHANGED <<pending, responder, verdict>>
<1>. USE DEF peers, links, thread, gate, conns, window
<1>1. CASE Flush \/ ClickForwardAll \/ ClickDropAll
  <2>1. Drain("data", "Forward") \/ Drain("Drop", "Drop")
    BY <1>1 DEF Flush, ClickForwardAll, ClickDropAll
  <2>2. Decided(pending, "data", "Forward") \/ Decided(pending, "Drop", "Drop")
    BY <2>1, DrainDecides DEF Ops, Decisions
  <2>3. \E S \in SUBSET pending, answer \in {"Drop"} \cup Ops, d \in Decisions :
           Decided(S, answer, d)
    BY <2>2 DEF Ops, Decisions
  <2>4. UNCHANGED <<peers, links, pc, taken, cur, status, logged>> /\ ui' \in {ui, "idle"}
    BY <1>1 DEF Flush, ClickForwardAll, ClickDropAll
  <2>. QED BY <2>3, <2>4
<1>2. ASSUME NEW s \in Slots, ClickForward(s) \/ ClickDrop(s)
      PROVE  /\ UNCHANGED <<peers, links, pc, taken, cur, status, logged, ui>>
             /\ \E S \in SUBSET pending, answer \in {"Drop"} \cup Ops, d \in Decisions :
                  Decided(S, answer, d)
  <2>1. s \in pending
    BY <1>2 DEF ClickForward, ClickDrop
  <2>2. PICK answer \in {"Drop"} \cup Ops, d \in Decisions :
          Answer(s, answer, d) /\ (answer = "Drop" <=> d = "Drop")
    BY <1>2, SetupsAssumption DEF ClickForward, ClickDrop, TypeOK, Decisions, Ops
  <2>3. Decided({s}, answer, d) /\ {s} \in SUBSET pending
    BY <2>1, <2>2, AnswerDecides
  <2>. QED BY <2>2, <2>3 DEF Answer
<1>3. CASE ClickToggle \/ ChangeScope \/ ClickClearHistory \/ ClearFrames \/ SetManualStatus
             \/ (\E c \in Conns : ClickCloseTunnel(c))
             \/ (\E c \in Conns \cup {"none"} : ClickRepeaterSend(c))
  BY <1>3 DEF ClickToggle, ChangeScope, ClickClearHistory, ClearFrames, SetManualStatus,
       ClickCloseTunnel, ClickRepeaterSend
<1>. QED BY <1>1, <1>2, <1>3 DEF Click, Finish

-----------------------------------------------------------------------------
(* Each part of the invariant is kept *)

LEMMA SentIsKept ==
    ASSUME Inv, [Next]_vars
    PROVE  SentInv'
<1>1. ASSUME NEW t \in Threads, PeerSends(t) \/ PeerGoes(t) PROVE SentInv'
  BY <1>1, PeerStep DEF Inv, SentInv
<1>2. ASSUME NEW t \in Threads, RelayStep(t) PROVE SentInv'
  BY <1>2, RelayFrame DEF Inv, SentInv, peers
<1>3. CASE Click \/ Finish
  BY <1>3, WindowStep DEF Inv, SentInv, peers
<1>4. CASE UNCHANGED vars
  BY <1>4 DEF Inv, SentInv, vars, peers
<1>. QED BY <1>1, <1>2, <1>3, <1>4 DEF Next

LEMMA HandIsKept ==
    ASSUME Inv, [Next]_vars
    PROVE  HandInv'
<1>. SUFFICES ASSUME NEW r \in Threads PROVE Hand(r)'
  BY DEF HandInv
<1>0. /\ Hand(r) /\ taken[r] \in 0 .. MaxFrames /\ Len(sent[r]) \in 0 .. MaxFrames
      /\ sent[r] \in Seq(Frames) /\ cur[r] \in Frames /\ MaxFrames \in Nat
  BY FramesAssumption, LenProperties DEF Inv, HandInv, TypeOK
<1>1. ASSUME NEW t \in Threads, PeerSends(t) \/ PeerGoes(t) PROVE Hand(r)'
  <2>1. /\ UNCHANGED <<pc, taken, cur, verdict>> /\ Len(sent'[r]) \in Nat
        /\ Len(sent[r]) <= Len(sent'[r])
        /\ \A i \in 1 .. Len(sent[r]) : sent'[r][i] = sent[r][i]
    BY <1>1, PeerStep DEF Inv, thread
  <2>2. Busy(r) => taken[r] \in 1 .. Len(sent[r])
    BY <1>0 DEF Hand
  <2>3. pc[r] \in {"gate", "push", "recv", "log"} => Busy(r)
    BY DEF Busy
  <2>. QED BY <1>0, <2>1, <2>2, <2>3 DEF Hand, Busy
<1>2. ASSUME NEW t \in Threads, RelayStep(t) PROVE Hand(r)'
  <2>1. /\ UNCHANGED <<sent, verdict>>
        /\ r # t => pc'[r] = pc[r] /\ taken'[r] = taken[r] /\ cur'[r] = cur[r]
    BY <1>2, RelayFrame DEF Inv, peers
  <2>2. CASE r # t
    BY <1>0, <2>1, <2>2 DEF Hand, Busy
  <2>. SUFFICES ASSUME r = t PROVE Hand(t)'
    BY <2>2
  <2>3. ASSUME taken'[t] = taken[t], cur'[t] = cur[t], Busy(t)' => Busy(t),
               pc'[t] \in {"gate", "push", "recv", "log"} =>
                 pc[t] \in {"gate", "push", "recv", "log"}
        PROVE  Hand(t)'
    BY <1>0, <2>1, <2>3 DEF Hand, Busy
  <2>4. pc \in [Threads -> Places] /\ taken \in [Threads -> 0 .. MaxFrames]
          /\ cur \in [Threads -> Frames]
    BY DEF Inv, TypeOK
  <2>5. CASE LoopTop(t) \/ ReadTimesOut(t) \/ ReadEof(t) \/ CheckGate(t)
    BY <2>3, <2>4, <2>5 DEF LoopTop, ReadTimesOut, ReadEof, CheckGate, Goto, Busy
  <2>6. CASE ReadFrame(t)
    <3>1. /\ taken[t] + 1 \in 1 .. Len(sent[t]) /\ taken'[t] = taken[t] + 1
          /\ cur'[t] = sent[t][taken[t] + 1]
      BY <1>0, <2>4, <2>6 DEF ReadFrame
    <3>2. cur'[t].n = taken'[t] /\ cur'[t].by = "peer" /\ cur'[t].op = sent[t][taken'[t]].op
      BY <3>1 DEF Inv, SentInv
    <3>3. pc'[t] \in {"gate", "push", "recv", "log"} => cur'[t].op = "data"
      <4>1. cur'[t] \in Frames
        BY <1>0, <3>1, ElementOfSeq
      <4>2. cur'[t].op \in Ops
        BY <4>1 DEF Frames
      <4>. QED BY <2>4, <2>6, <4>2 DEF ReadFrame, Goto, Ops
    <3>. QED BY <1>0, <2>1, <3>1, <3>2, <3>3 DEF Hand
  <2>7. CASE SetEofStatus(t) \/ SetCloseStatus(t) \/ LogControl(t) \/ LogPong(t) \/ LogData(t)
    BY <2>3, <2>4, <2>7 DEF SetEofStatus, SetCloseStatus, LogControl, LogPong, LogData, Goto, Busy
  <2>8. CASE WritePong(t) \/ RelayClose(t) \/ WriteFrame(t)
    BY <2>3, <2>4, <2>8 DEF WritePong, RelayClose, WriteFrame, Goto, Busy
  <2>9. CASE PushFrame(t) \/ ReceiveDrop(t)
    BY <2>3, <2>4, <2>9 DEF PushFrame, ReceiveDrop, Goto, Busy
  <2>10. CASE ReceiveForward(t)
    <3>1. verdict[<<t, taken[t]>>] = "Forward" /\ Busy(t) /\ pc[t] = "recv"
      BY <2>10 DEF ReceiveForward, Inv, DecisionInv, Decision, Busy, Ops
    <3>2. taken'[t] = taken[t] /\ cur'[t].n = cur[t].n /\ cur'[t].by = cur[t].by
      <4>1. cur' = [cur EXCEPT ![t] = [cur[t] EXCEPT !.masked = FALSE, !.op = responder[t]]]
        BY <2>10 DEF ReceiveForward
      <4>. QED BY <1>0, <2>4, <2>10, <4>1 DEF ReceiveForward, Frames
    <3>. QED BY <1>0, <2>1, <3>1, <3>2 DEF Hand
  <2>. QED BY <1>2, <2>5, <2>6, <2>7, <2>8, <2>9, <2>10 DEF RelayStep
<1>3. CASE Click \/ Finish
  <2>1. UNCHANGED <<sent, pc, taken, cur>>
    BY <1>3, WindowStep DEF Inv, peers
  <2>2. Busy(r) => (verdict[<<r, taken[r]>>] = "Forward" => verdict'[<<r, taken[r]>>] = "Forward")
    <3>1. CASE UNCHANGED verdict
      BY <3>1
    <3>2. ASSUME NEW S \in SUBSET pending, NEW answer \in {"Drop"} \cup Ops,
                 NEW d \in Decisions, Decided(S, answer, d), Busy(r)
          PROVE  verdict[<<r, taken[r]>>] = "Forward" => verdict'[<<r, taken[r]>>] = "Forward"
      BY <1>0, <3>2 DEF Decided, Hand, Inv, PendingInv
    <3>. QED BY <1>3, <3>1, <3>2, WindowStep DEF Inv
  <2>. QED BY <1>0, <2>1, <2>2 DEF Hand, Busy
<1>4. CASE UNCHANGED vars
  BY <1>0, <1>4 DEF Hand, Busy, vars, peers, thread
<1>. QED BY <1>1, <1>2, <1>3, <1>4 DEF Next

LEMMA DecisionIsKept ==
    ASSUME Inv, [Next]_vars
    PROVE  DecisionInv'
<1>. SUFFICES ASSUME NEW r \in Threads PROVE Decision(r)'
  BY DEF DecisionInv
<1>0. /\ Hand(r) /\ Decision(r) /\ taken[r] \in 0 .. MaxFrames /\ MaxFrames \in Nat
      /\ Len(sent[r]) \in 0 .. MaxFrames
  BY FramesAssumption, LenProperties DEF Inv, HandInv, DecisionInv, TypeOK
<1>1. ASSUME NEW t \in Threads, PeerSends(t) \/ PeerGoes(t) PROVE Decision(r)'
  BY <1>0, <1>1, PeerStep DEF Inv, thread, gate, Decision, Busy
<1>2. ASSUME NEW t \in Threads, RelayStep(t) PROVE Decision(r)'
  <2>1. CASE r # t
    BY <1>0, <1>2, <2>1, RelayFrame DEF Inv, Decision, Busy
  <2>. SUFFICES ASSUME r = t PROVE Decision(t)'
    BY <2>1
  <2>2. /\ pc \in [Threads -> Places] /\ taken \in [Threads -> 0 .. MaxFrames]
        /\ responder \in [Threads -> {"none", "open", "Drop"} \cup Ops]
    BY DEF Inv, TypeOK
  <2>3. UNCHANGED verdict
    BY <1>2, RelayFrame DEF Inv
  <2>. USE DEF Goto, gate
  <2>4. CASE \/ LoopTop(t) \/ ReadTimesOut(t) \/ ReadEof(t) \/ CheckGate(t)
             \/ SetEofStatus(t) \/ SetCloseStatus(t)
    BY <1>0, <2>2, <2>3, <2>4 DEF LoopTop, ReadTimesOut, ReadEof, CheckGate, SetEofStatus,
         SetCloseStatus, Decision, Busy
  <2>5. CASE ReadFrame(t)
    <3>1. /\ taken'[t] = taken[t] + 1 /\ taken[t] + 1 \in 1 .. MaxFrames
          /\ pc[t] = "read" /\ responder' = responder
      BY <1>0, <2>2, <2>5 DEF ReadFrame
    <3>2. cur'[t].op \in Ops
      BY TypeIsKept DEF Inv, TypeOK, Frames
    <3>3. pc'[t] \notin {"recv", "push"} /\ (pc'[t] = "gate" => Busy(t)')
      BY <2>2, <2>5, <3>2 DEF ReadFrame, Ops, Busy
    <3>. QED BY <1>0, <2>3, <3>1, <3>3 DEF Decision
  <2>6. CASE LogControl(t) \/ LogPong(t) \/ LogData(t)
    BY <1>0, <2>2, <2>3, <2>6 DEF LogControl, LogPong, LogData, Decision, Busy
  <2>7. CASE WritePong(t) \/ RelayClose(t) \/ WriteFrame(t)
    BY <1>0, <2>2, <2>3, <2>7 DEF WritePong, RelayClose, WriteFrame, Decision, Busy
  <2>8. CASE PushFrame(t)
    <3>1. SlotOf(t) = <<t, taken[t]>>
      BY <1>0, <2>8 DEF PushFrame, SlotOf, Hand, Busy
    <3>2. pc'[t] = "recv" /\ responder'[t] = "open" /\ taken'[t] = taken[t]
            /\ <<t, taken[t]>> \in pending'
      BY <2>2, <2>8, <3>1 DEF PushFrame
    <3>. QED BY <1>0, <2>3, <3>2 DEF Decision
  <2>9. CASE ReceiveForward(t) \/ ReceiveDrop(t)
    BY <1>0, <2>2, <2>3, <2>9 DEF ReceiveForward, ReceiveDrop, Decision, Busy, Ops
  <2>. QED BY <1>2, <2>4, <2>5, <2>6, <2>7, <2>8, <2>9 DEF RelayStep
<1>3. CASE Click \/ Finish
  <2>1. UNCHANGED <<pc, taken>>
    BY <1>3, WindowStep DEF Inv
  <2>2. CASE UNCHANGED <<pending, responder, verdict>>
    BY <1>0, <2>1, <2>2 DEF Decision, Busy
  <2>3. ASSUME NEW S \in SUBSET pending, NEW answer \in {"Drop"} \cup Ops,
               NEW d \in Decisions, Decided(S, answer, d)
        PROVE  Decision(r)'
    <3>1. CASE <<r, taken[r]>> \in S
      <4>1. taken[r] \in 1 .. MaxFrames /\ pc[r] = "recv"
        <5>1. <<r, taken[r]>> \in Slots /\ <<r, taken[r]>> \in pending
          BY <3>1 DEF Inv, TypeOK
        <5>2. taken[r] \in 1 .. MaxFrames
          BY <5>1 DEF Slots
        <5>. QED BY <5>1, <5>2 DEF Inv, PendingInv
      <4>2. responder'[r] = answer /\ verdict'[<<r, taken[r]>>] = d
        BY <2>3, <3>1, <4>1 DEF Decided
      <4>3. \/ answer = "Drop" /\ d = "Drop"
            \/ answer \in Ops /\ d = "Forward"
        <5>1. answer \in {"Drop"} \cup Ops /\ d \in Decisions /\ (answer = "Drop" <=> d = "Drop")
          BY <2>3 DEF Decided
        <5>. QED BY <5>1 DEF Decisions
      <4>4. \A n \in 1 .. MaxFrames : n > taken[r] => <<r, n>> \notin S
        BY <1>0 DEF Inv, PendingInv
      <4>5. \A n \in 1 .. MaxFrames : n > taken[r] => verdict'[<<r, n>>] = "none"
        BY <1>0, <2>3, <4>4 DEF Decided, Decision
      <4>. QED BY <2>1, <4>1, <4>2, <4>3, <4>5 DEF Decision
    <3>2. CASE <<r, taken[r]>> \notin S
      <4>1. \A n \in 1 .. MaxFrames : n >= taken[r] => <<r, n>> \notin S
        BY <3>2 DEF Inv, PendingInv
      <4>2. \A n \in 1 .. MaxFrames : n >= taken[r] => verdict'[<<r, n>>] = verdict[<<r, n>>]
        BY <2>3, <4>1 DEF Decided
      <4>3. responder'[r] = responder[r]
              /\ (<<r, taken[r]>> \in pending => <<r, taken[r]>> \in pending')
        BY <2>3, <3>2 DEF Decided
      <4>4. Busy(r) => taken[r] \in 1 .. MaxFrames
        BY <1>0 DEF Hand
      <4>5. pc[r] \in {"gate", "push", "recv"} => Busy(r)
        BY DEF Busy
      <4>6. Busy(r)' = Busy(r)
        BY <2>1 DEF Busy
      <4>. QED BY <1>0, <2>1, <4>2, <4>3, <4>4, <4>5, <4>6 DEF Decision
    <3>. QED BY <3>1, <3>2
  <2>. QED BY <1>3, <2>2, <2>3, WindowStep DEF Inv
<1>4. CASE UNCHANGED vars
  BY <1>0, <1>4 DEF Decision, Busy, vars, thread, gate
<1>. QED BY <1>1, <1>2, <1>3, <1>4 DEF Next

LEMMA PendingIsKept ==
    ASSUME Inv, [Next]_vars
    PROVE  PendingInv'
<1>. SUFFICES ASSUME NEW r \in Threads, NEW n \in 1 .. MaxFrames, <<r, n>> \in pending'
              PROVE  pc'[r] = "recv" /\ responder'[r] = "open" /\ n = taken'[r]
                       /\ verdict'[<<r, n>>] = "none"
  BY DEF PendingInv
<1>0. /\ Hand(r) /\ Decision(r)
      /\ <<r, n>> \in pending => pc[r] = "recv" /\ responder[r] = "open" /\ n = taken[r]
                                   /\ verdict[<<r, n>>] = "none"
  BY DEF Inv, HandInv, DecisionInv, PendingInv
<1>1. CASE \E t \in Threads : PeerSends(t) \/ PeerGoes(t)
  BY <1>0, <1>1, PeerStep DEF Inv, thread, gate
<1>2. ASSUME NEW t \in Threads, RelayStep(t)
      PROVE  pc'[r] = "recv" /\ responder'[r] = "open" /\ n = taken'[r]
               /\ verdict'[<<r, n>>] = "none"
  <2>1. CASE r # t
    BY <1>0, <1>2, <2>1, RelayFrame DEF Inv
  <2>2. CASE r = t /\ PushFrame(t)
    <3>1. SlotOf(t) = <<t, taken[t]>> /\ pc[t] = "push" /\ verdict[<<t, taken[t]>>] = "none"
      BY <1>0, <2>2 DEF PushFrame, SlotOf, Hand, Busy, Decision
    <3>2. <<r, n>> \in pending \/ n = taken[t]
      BY <2>2, <3>1 DEF PushFrame
    <3>. QED BY <1>0, <2>2, <3>1, <3>2 DEF PushFrame, Goto, Inv, TypeOK
  <2>3. CASE r = t /\ pc[t] = "recv"
    BY <1>0, <1>2, <2>3 DEF RelayStep, LoopTop, ReadTimesOut, ReadFrame, ReadEof, SetEofStatus,
         SetCloseStatus, LogControl, WritePong, LogPong, RelayClose, CheckGate, PushFrame,
         ReceiveForward, ReceiveDrop, LogData, WriteFrame, gate, Ops
  <2>4. CASE r = t /\ pc[t] # "recv" /\ ~PushFrame(t)
    <3>1. UNCHANGED pending
      BY <1>2, <2>4 DEF RelayStep, LoopTop, ReadTimesOut, ReadFrame, ReadEof, SetEofStatus,
           SetCloseStatus, LogControl, WritePong, LogPong, RelayClose, CheckGate,
           ReceiveForward, ReceiveDrop, LogData, WriteFrame, gate
    <3>. QED BY <1>0, <2>4, <3>1
  <2>. QED BY <2>1, <2>2, <2>3, <2>4
<1>3. CASE Click \/ Finish
  <2>1. UNCHANGED <<pc, taken>>
    BY <1>3, WindowStep DEF Inv
  <2>2. CASE UNCHANGED <<pending, responder, verdict>>
    BY <1>0, <2>1, <2>2
  <2>3. ASSUME NEW S \in SUBSET pending, NEW answer \in {"Drop"} \cup Ops,
               NEW d \in Decisions, Decided(S, answer, d)
        PROVE  pc'[r] = "recv" /\ responder'[r] = "open" /\ n = taken'[r]
                 /\ verdict'[<<r, n>>] = "none"
    <3>1. <<r, n>> \in pending /\ <<r, n>> \notin S
      BY <2>3 DEF Decided
    <3>. QED BY <1>0, <2>1, <2>3, <3>1 DEF Decided
  <2>. QED BY <1>3, <2>2, <2>3, WindowStep DEF Inv
<1>4. CASE UNCHANGED vars
  BY <1>0, <1>4 DEF vars, thread, gate
<1>. QED BY <1>1, <1>2, <1>3, <1>4 DEF Next

\* One frame is added to the wire of direction t.
Delivered(t, f) ==
    /\ UNCHANGED failed
    /\ \A r \in Threads : r # t => wire'[r] = wire[r]
    /\ Len(wire'[t]) = Len(wire[t]) + 1 /\ wire'[t][Len(wire[t]) + 1] = f
    /\ \A i \in 1 .. Len(wire[t]) : wire'[t][i] = wire[t][i]

LEMMA DeliverDelivers ==
    ASSUME TypeOK, NEW t \in Threads, NEW f, Deliver(t, f)
    PROVE  Delivered(t, f)
<1>1. wire' = [wire EXCEPT ![t] = Append(wire[t], f)] /\ UNCHANGED failed /\ wire[t] \in Seq(Frames)
  BY DEF Deliver, TypeOK
<1>2. /\ Len(Append(wire[t], f)) = Len(wire[t]) + 1
      /\ \A i \in 1 .. Len(wire[t]) : Append(wire[t], f)[i] = wire[t][i]
      /\ Append(wire[t], f)[Len(wire[t]) + 1] = f
  BY <1>1
<1>3. \A r \in Threads : wire'[r] = IF r = t THEN Append(wire[t], f) ELSE wire[r]
  BY <1>1 DEF TypeOK
<1>. QED BY <1>1, <1>2, <1>3 DEF Delivered

\* A thread writes the frame in its hand, and is then done with it, or a pong; a write
\* that fails is remembered.
LEMMA WireStep ==
    ASSUME Inv, NEW t \in Threads, RelayStep(t)
    PROVE  \/ /\ UNCHANGED wire
              /\ \A r \in Threads : failed[r] => failed'[r]
              /\ pc[t] \in {"write", "relay_close"} => failed'[t]
           \/ /\ pc[t] \in {"write", "relay_close"} /\ pc'[t] \in {"loop", "done"}
              /\ Delivered(t, cur[t])
           \/ /\ pc[t] = "pong" /\ pc'[t] = "log_pong"
              /\ \E r \in Threads : \E f : f.by = "proxy" /\ Delivered(r, f)
<1>. USE DEF links, Goto
<1>0. /\ pc \in [Threads -> Places] /\ failed \in [Threads -> BOOLEAN]
      /\ \A r \in Threads : Fail(r) =>
           UNCHANGED wire /\ failed'[r] /\ \A q \in Threads : failed[q] => failed'[q]
  BY DEF Inv, TypeOK, Fail
<1>1. CASE WriteFrame(t)
  <2>1. Deliver(t, cur[t]) \/ Fail(t)
    BY <1>1 DEF WriteFrame
  <2>2. pc[t] = "write" /\ pc'[t] \in {"loop", "done"}
    BY <1>0, <1>1 DEF WriteFrame
  <2>. QED BY <1>0, <2>1, <2>2, DeliverDelivers DEF Inv
<1>2. CASE RelayClose(t)
  <2>1. Deliver(t, cur[t]) \/ Fail(t)
    BY <1>2 DEF RelayClose, Write
  <2>2. pc[t] = "relay_close" /\ pc'[t] \in {"loop", "done"}
    BY <1>0, <1>2 DEF RelayClose
  <2>. QED BY <1>0, <2>1, <2>2, DeliverDelivers DEF Inv
<1>3. CASE WritePong(t)
  <2>. DEFINE f == [op |-> "pong", n |-> cur[t].n, masked |-> FALSE, by |-> "proxy"]
              r == IF t[1] \in setup.tls THEN Reverse(t) ELSE t
  <2>1. r \in Threads /\ f.by = "proxy"
    BY ReverseFacts
  <2>2. Deliver(r, f) \/ Fail(r)
    BY <1>3 DEF WritePong, Write
  <2>3. pc[t] = "pong" /\ pc'[t] = "log_pong"
    BY <1>0, <1>3 DEF WritePong
  <2>. HIDE DEF f, r
  <2>. QED BY <1>0, <2>1, <2>2, <2>3, DeliverDelivers DEF Inv
<1>4. CASE ~WriteFrame(t) /\ ~RelayClose(t) /\ ~WritePong(t)
  <2>1. UNCHANGED <<wire, failed>> /\ pc[t] \notin {"write", "relay_close"}
    BY <1>4 DEF RelayStep, LoopTop, ReadTimesOut, ReadFrame, ReadEof, SetEofStatus, SetCloseStatus,
         LogControl, LogPong, CheckGate, PushFrame, ReceiveForward, ReceiveDrop, LogData
  <2>. QED BY <2>1
<1>. QED BY <1>1, <1>2, <1>3, <1>4

\* A thread reads a frame when it is done with the last one, which it then delivered,
\* failed to write, or was told to drop.
LEMMA ProgressStep ==
    ASSUME Inv, NEW t \in Threads, RelayStep(t)
    PROVE  \/ /\ taken'[t] = taken[t] /\ (Busy(t)' => Busy(t))
              /\ Busy(t) /\ ~Busy(t)' =>
                   \/ pc[t] \in {"write", "relay_close"}
                   \/ verdict[<<t, taken[t]>>] = "Drop"
           \/ /\ taken'[t] = taken[t] + 1 /\ ~Busy(t) /\ Busy(t)'
              /\ UNCHANGED <<wire, failed>>
<1>. USE DEF links, thread, Goto
<1>0. pc \in [Threads -> Places] /\ taken \in [Threads -> 0 .. MaxFrames]
  BY DEF Inv, TypeOK
<1>1. CASE ReadFrame(t)
  <2>0. TypeOK'
    BY TypeIsKept DEF Inv, Next
  <2>1. cur'[t].op \in Ops
    BY <2>0 DEF TypeOK, Frames
  <2>2. taken'[t] = taken[t] + 1 /\ pc[t] = "read" /\ UNCHANGED <<wire, failed>>
    BY <1>0, <1>1 DEF ReadFrame
  <2>3. pc'[t] \in {"log_control", "write", "close", "gate"}
    BY <1>0, <1>1, <2>1 DEF ReadFrame, Ops
  <2>. QED BY <2>2, <2>3 DEF Busy
<1>2. CASE LoopTop(t) \/ ReadTimesOut(t) \/ ReadEof(t) \/ CheckGate(t) \/ PushFrame(t)
  BY <1>0, <1>2 DEF LoopTop, ReadTimesOut, ReadEof, CheckGate, PushFrame, Busy
<1>3. CASE SetEofStatus(t) \/ SetCloseStatus(t) \/ LogControl(t) \/ LogPong(t) \/ LogData(t)
  BY <1>0, <1>3 DEF SetEofStatus, SetCloseStatus, LogControl, LogPong, LogData, Busy
<1>4. CASE WritePong(t) \/ RelayClose(t) \/ WriteFrame(t)
  BY <1>0, <1>4 DEF WritePong, RelayClose, WriteFrame, Busy
<1>5. CASE ReceiveForward(t) \/ ReceiveDrop(t)
  <2>1. ReceiveDrop(t) => verdict[<<t, taken[t]>>] = "Drop"
    BY DEF ReceiveDrop, Inv, DecisionInv, Decision, Ops
  <2>. QED BY <1>0, <1>5, <2>1 DEF ReceiveForward, ReceiveDrop, Busy
<1>. QED BY <1>1, <1>2, <1>3, <1>4, <1>5 DEF RelayStep

LEMMA WireIsKept ==
    ASSUME Inv, [Next]_vars
    PROVE  WireInv' /\ RelayedInOrder'
<1>. DEFINE Ordered(r, i) ==
              wire[r][i].by = "peer" =>
                /\ \A j \in 1 .. i - 1 : wire[r][j].by = "peer" => wire[r][j].n < wire[r][i].n
                /\ \/ wire[r][i].op = sent[r][wire[r][i].n].op
                   \/ verdict[<<r, wire[r][i].n>>] = "Forward"
            Placed(r, i) ==
              wire[r][i].by = "peer" =>
                /\ wire[r][i].n \in 1 .. taken[r]
                /\ Busy(r) => wire[r][i].n # taken[r]
                /\ verdict[<<r, wire[r][i].n>>] # "Drop"
<1>0. /\ wire \in [Threads -> Seq(Frames)] /\ wire' \in [Threads -> Seq(Frames)]
      /\ taken \in [Threads -> 0 .. MaxFrames] /\ taken' \in [Threads -> 0 .. MaxFrames]
      /\ MaxFrames \in Nat
  BY TypeIsKept, FramesAssumption DEF Inv, TypeOK
<1>00. \A r \in Threads : /\ DOMAIN wire[r] = 1 .. Len(wire[r])
                           /\ DOMAIN wire'[r] = 1 .. Len(wire'[r])
  BY <1>0, LenProperties
<1>. SUFFICES ASSUME NEW r \in Threads, NEW i \in 1 .. Len(wire'[r])
              PROVE  Placed(r, i)' /\ Ordered(r, i)'
  BY <1>00 DEF WireInv, OnWire, RelayedInOrder
<1>1. i \in Nat /\ Len(wire[r]) \in Nat /\ Len(wire'[r]) \in Nat /\ taken[r] \in Nat
        /\ taken[r] <= MaxFrames /\ taken'[r] \in Nat
  BY <1>0, LenProperties
<1>2. \A j \in 1 .. Len(wire[r]) : Placed(r, j) /\ Ordered(r, j)
  BY <1>00 DEF Inv, WireInv, OnWire, RelayedInOrder
<1>3. ASSUME \A j \in 1 .. i : wire'[r][j] = wire[r][j], i <= Len(wire[r]),
             taken[r] <= taken'[r], Busy(r)' /\ taken'[r] = taken[r] => Busy(r),
             \A n \in 1 .. taken[r] : sent'[r][n] = sent[r][n],
             \A n \in 1 .. taken[r] : (Busy(r) => n # taken[r]) =>
                verdict'[<<r, n>>] = verdict[<<r, n>>]
      PROVE  Placed(r, i)' /\ Ordered(r, i)'
  <2>. SUFFICES ASSUME wire'[r][i].by = "peer"
                PROVE  Placed(r, i)' /\ Ordered(r, i)'
    OBVIOUS
  <2>1. i \in 1 .. Len(wire[r]) /\ wire'[r][i] = wire[r][i] /\ wire[r][i].by = "peer"
    BY <1>1, <1>3
  <2>2. /\ wire[r][i].n \in 1 .. taken[r]
        /\ Busy(r) => wire[r][i].n # taken[r]
        /\ verdict[<<r, wire[r][i].n>>] # "Drop"
    BY <1>2, <2>1
  <2>3. verdict'[<<r, wire[r][i].n>>] = verdict[<<r, wire[r][i].n>>]
    BY <1>3, <2>2
  <2>4. Placed(r, i)'
    BY <1>1, <1>3, <2>1, <2>2, <2>3
  <2>5. \A j \in 1 .. i - 1 : wire'[r][j].by = "peer" => wire'[r][j].n < wire'[r][i].n
    <3>1. \A j \in 1 .. i - 1 : wire[r][j].by = "peer" => wire[r][j].n < wire[r][i].n
      BY <1>2, <2>1
    <3>2. \A j \in 1 .. i - 1 : j \in 1 .. i
      BY <1>1
    <3>. QED BY <1>3, <2>1, <3>1, <3>2
  <2>6. \/ wire'[r][i].op = sent'[r][wire'[r][i].n].op
        \/ verdict'[<<r, wire'[r][i].n>>] = "Forward"
    BY <1>2, <1>3, <2>1, <2>2, <2>3
  <2>. QED BY <2>4, <2>5, <2>6
<1>4. ASSUME NEW t \in Threads, PeerSends(t) \/ PeerGoes(t) PROVE Placed(r, i)' /\ Ordered(r, i)'
  <2>1. /\ UNCHANGED <<wire, pc, taken, verdict>> /\ Len(sent[r]) \in Nat
        /\ \A n \in 1 .. Len(sent[r]) : sent'[r][n] = sent[r][n]
    BY <1>4, PeerStep DEF Inv, thread, links
  <2>2. taken[r] <= Len(sent[r])
    BY DEF Inv, HandInv, Hand
  <2>. HIDE DEF Placed, Ordered
  <2>. QED BY <1>1, <1>3, <2>1, <2>2 DEF Busy
<1>5. ASSUME NEW t \in Threads, RelayStep(t) PROVE Placed(r, i)' /\ Ordered(r, i)'
  <2>1. UNCHANGED <<sent, verdict>>
    BY <1>5, RelayFrame DEF Inv, peers
  <2>2. taken[r] <= taken'[r] /\ (Busy(r)' /\ taken'[r] = taken[r] => Busy(r))
    <3>1. CASE r = t
      <4>1. \/ taken'[t] = taken[t] /\ (Busy(t)' => Busy(t))
            \/ taken'[t] = taken[t] + 1
        BY <1>5, ProgressStep
      <4>. QED BY <1>1, <3>1, <4>1 DEF Busy
    <3>2. CASE r # t
      BY <1>1, <1>5, <3>2, RelayFrame DEF Inv, Busy
    <3>. QED BY <3>1, <3>2
  <2>3. CASE (\A j \in 1 .. i : wire'[r][j] = wire[r][j]) /\ i <= Len(wire[r])
    <3>. HIDE DEF Placed, Ordered
    <3>. QED BY <1>3, <2>1, <2>2, <2>3
  <2>4. CASE /\ Delivered(t, cur[t]) /\ pc[t] \in {"write", "relay_close"}
             /\ pc'[t] \in {"loop", "done"} /\ r = t /\ i = Len(wire[t]) + 1
    <3>1. Busy(t) /\ ~Busy(t)' /\ taken'[t] = taken[t]
      <4>1. Busy(t)
        BY <2>4 DEF Busy
      <4>2. ~Busy(t)'
        BY <2>4 DEF Busy
      <4>. QED BY <1>5, <4>1, <4>2, ProgressStep
    <3>2. /\ wire'[t][i] = cur[t] /\ taken[t] \in 1 .. MaxFrames /\ cur[t].n = taken[t]
          /\ \A j \in 1 .. i - 1 : j \in 1 .. Len(wire[r]) /\ wire'[t][j] = wire[t][j]
          /\ \/ cur[t].op = sent[t][taken[t]].op
             \/ verdict[<<t, taken[t]>>] = "Forward"
      BY <1>1, <2>4, <3>1 DEF Delivered, Inv, HandInv, Hand
    <3>3. verdict[<<t, taken[t]>>] # "Drop"
      BY <2>4, <3>1 DEF Inv, DecisionInv, Decision
    <3>4. Placed(r, i)'
      BY <1>1, <2>1, <2>4, <3>1, <3>2, <3>3
    <3>5. \A j \in 1 .. i - 1 : wire'[t][j].by = "peer" => wire'[t][j].n < wire'[t][i].n
      <4>. TAKE j \in 1 .. i - 1
      <4>1. j \in 1 .. Len(wire[r]) /\ wire'[t][j] = wire[t][j]
        BY <3>2
      <4>2. wire[t][j].by = "peer" => wire[t][j].n \in 1 .. taken[t] /\ wire[t][j].n # taken[t]
        BY <1>2, <2>4, <3>1, <4>1
      <4>. QED BY <1>1, <2>4, <3>2, <4>1, <4>2
    <3>. QED BY <2>1, <2>4, <3>2, <3>4, <3>5
  <2>5. ASSUME NEW q \in Threads, NEW f, f.by = "proxy", Delivered(q, f), r = q,
               i = Len(wire[q]) + 1
        PROVE  Placed(r, i)' /\ Ordered(r, i)'
    BY <2>5 DEF Delivered
  <2>6. ASSUME NEW q \in Threads, NEW f, Delivered(q, f)
        PROVE  \/ (\A j \in 1 .. i : wire'[r][j] = wire[r][j]) /\ i <= Len(wire[r])
               \/ r = q /\ i = Len(wire[q]) + 1
    BY <1>1, <2>6 DEF Delivered
  <2>7. CASE UNCHANGED wire
    BY <1>1, <2>3, <2>7
  <2>. HIDE DEF Placed, Ordered
  <2>. QED BY <1>5, <2>3, <2>4, <2>5, <2>6, <2>7, WireStep
<1>6. CASE Click \/ Finish
  <2>1. UNCHANGED <<sent, wire, pc, taken>>
    BY <1>6, WindowStep DEF Inv, peers, links
  <2>2. \A n \in 1 .. taken[r] : (Busy(r) => n # taken[r]) =>
           verdict'[<<r, n>>] = verdict[<<r, n>>]
    <3>1. ASSUME NEW S \in SUBSET pending, NEW answer \in {"Drop"} \cup Ops,
                 NEW d \in Decisions, Decided(S, answer, d)
          PROVE  \A n \in 1 .. taken[r] : (Busy(r) => n # taken[r]) =>
                   verdict'[<<r, n>>] = verdict[<<r, n>>]
      <4>. TAKE n \in 1 .. taken[r]
      <4>1. <<r, n>> \in pending => Busy(r) /\ n = taken[r]
        <5>1. n \in 1 .. MaxFrames
          BY <1>0, <1>1
        <5>. QED BY <5>1 DEF Inv, PendingInv, Busy
      <4>2. n \in 1 .. MaxFrames
        BY <1>0, <1>1
      <4>3. verdict'[<<r, n>>] = IF <<r, n>> \in S THEN d ELSE verdict[<<r, n>>]
        BY <3>1, <4>2 DEF Decided
      <4>. QED BY <3>1, <4>1, <4>3
    <3>. QED BY <1>6, <3>1, WindowStep DEF Inv
  <2>. HIDE DEF Placed, Ordered
  <2>. QED BY <1>1, <1>3, <2>1, <2>2 DEF Busy
<1>7. CASE UNCHANGED vars
  <2>1. UNCHANGED <<sent, wire, pc, taken, verdict>>
    BY <1>7 DEF vars, peers, links, thread
  <2>. HIDE DEF Placed, Ordered
  <2>. QED BY <1>1, <1>3, <2>1 DEF Busy
<1>. HIDE DEF Placed, Ordered
<1>. QED BY <1>4, <1>5, <1>6, <1>7 DEF Next

LEMMA LossIsKept ==
    ASSUME Inv, [Next]_vars
    PROVE  NothingIsLost'
<1>0. /\ wire \in [Threads -> Seq(Frames)] /\ wire' \in [Threads -> Seq(Frames)]
      /\ taken \in [Threads -> 0 .. MaxFrames] /\ MaxFrames \in Nat
      /\ \A r \in Threads : pc[r] \notin {"loop", "read", "eof", "done"} <=> Busy(r)
  BY TypeIsKept, FramesAssumption DEF Inv, TypeOK, Busy
<1>. DEFINE Settled(r, n) == \/ Relayed(r, n)
                             \/ verdict[<<r, n>>] = "Drop"
                             \/ failed[r]
                             \/ n = taken[r] /\ Busy(r)
<1>. SUFFICES ASSUME NEW r \in Threads, NEW n \in 1 .. taken'[r] PROVE Settled(r, n)'
  BY DEF NothingIsLost, Busy
<1>1. n \in 1 .. taken[r] => Settled(r, n)
  BY <1>0 DEF Inv, NothingIsLost
<1>. HIDE DEF Settled
<1>2. DOMAIN wire[r] = 1 .. Len(wire[r]) /\ DOMAIN wire'[r] = 1 .. Len(wire'[r])
        /\ Len(wire[r]) \in Nat /\ Len(wire'[r]) \in Nat
  BY <1>0, LenProperties
<1>3. \A t \in Threads : PeerSends(t) \/ PeerGoes(t) => Settled(r, n)'
  <2>. SUFFICES ASSUME NEW t \in Threads, PeerSends(t) \/ PeerGoes(t) PROVE Settled(r, n)'
    OBVIOUS
  <2>1. UNCHANGED <<wire, failed, pc, taken, verdict>>
    BY PeerStep DEF Inv, links, thread
  <2>. QED BY <1>1, <2>1 DEF Settled, Relayed, Busy
<1>4. ASSUME NEW t \in Threads, RelayStep(t) PROVE Settled(r, n)'
  <2>1. UNCHANGED verdict
    BY <1>4, RelayFrame DEF Inv
  <2>2. /\ Relayed(r, n) => Relayed(r, n)'
        /\ failed[r] => failed'[r]
        /\ r = t /\ Delivered(t, cur[t]) /\ cur[t].by = "peer" /\ cur[t].n = n => Relayed(r, n)'
    <3>1. \A q \in Threads : \A f : Delivered(q, f) =>
             /\ Relayed(r, n) => Relayed(r, n)'
             /\ failed[r] => failed'[r]
             /\ r = q /\ f.by = "peer" /\ f.n = n => Relayed(r, n)'
      BY <1>2 DEF Delivered, Relayed
    <3>2. UNCHANGED wire => (Relayed(r, n) => Relayed(r, n)')
      BY DEF Relayed
    <3>. QED BY <1>4, <3>1, <3>2, WireStep
  <2>3. CASE r # t
    <3>1. pc'[r] = pc[r] /\ taken'[r] = taken[r]
      BY <1>4, <2>3, RelayFrame DEF Inv
    <3>. QED BY <1>1, <2>1, <2>2, <3>1 DEF Settled, Busy
  <2>4. CASE r = t /\ taken'[t] = taken[t] + 1 /\ Busy(t)'
    <3>0. taken[t] \in Nat
      BY <1>0
    <3>1. ~Busy(t)
      <4>1. taken'[t] = taken[t] \/ ~Busy(t)
        BY <1>4, ProgressStep
      <4>. QED BY <2>4, <3>0, <4>1
    <3>2. n = taken'[t] \/ n \in 1 .. taken[r]
      <4>1. n \in 1 .. taken[r] + 1
        BY <2>4
      <4>. QED BY <2>4, <3>0, <4>1
    <3>3. CASE n = taken'[t]
      BY <2>4, <3>3 DEF Settled
    <3>4. CASE n \in 1 .. taken[r]
      BY <1>1, <2>1, <2>2, <2>4, <3>1, <3>4 DEF Settled
    <3>. QED BY <3>2, <3>3, <3>4
  <2>5. CASE r = t /\ taken'[t] = taken[t] /\ (Busy(t) => Busy(t)')
    BY <1>1, <2>1, <2>2, <2>5 DEF Settled
  <2>6. CASE r = t /\ taken'[t] = taken[t] /\ Busy(t) /\ ~Busy(t)'
    <3>1. \/ pc[t] \in {"write", "relay_close"}
          \/ verdict[<<t, taken[t]>>] = "Drop"
      BY <1>4, <2>6, ProgressStep
    <3>2. CASE n = taken[t] /\ pc[t] \in {"write", "relay_close"}
      <4>1. cur[t].n = n /\ cur[t].by = "peer"
        BY <2>6, <3>2 DEF Inv, HandInv, Hand
      <4>2. failed'[t] \/ Delivered(t, cur[t])
        BY <1>4, <3>2, WireStep
      <4>. QED BY <2>2, <2>6, <4>1, <4>2 DEF Settled
    <3>3. CASE n = taken[t] /\ verdict[<<t, taken[t]>>] = "Drop"
      BY <2>1, <2>6, <3>3 DEF Settled
    <3>4. CASE n # taken[t]
      BY <1>1, <2>1, <2>2, <2>6, <3>4 DEF Settled
    <3>. QED BY <3>1, <3>2, <3>3, <3>4
  <2>. QED BY <1>4, <2>3, <2>4, <2>5, <2>6, ProgressStep
<1>5. CASE Click \/ Finish
  <2>1. UNCHANGED <<wire, failed, pc, taken>>
    BY <1>5, WindowStep DEF Inv, links
  <2>2. n \in 1 .. MaxFrames
    BY <1>0, <2>1
  <2>3. CASE UNCHANGED verdict
    BY <1>1, <2>1, <2>3 DEF Settled, Relayed, Busy
  <2>4. ASSUME NEW S \in SUBSET pending, NEW answer \in {"Drop"} \cup Ops,
               NEW d \in Decisions, Decided(S, answer, d)
        PROVE  Settled(r, n)'
    <3>1. CASE <<r, n>> \in S
      <4>1. n = taken[r] /\ pc[r] = "recv"
        BY <2>2, <3>1 DEF Inv, PendingInv
      <4>. QED BY <2>1, <4>1 DEF Settled, Busy
    <3>2. CASE <<r, n>> \notin S
      <4>1. verdict'[<<r, n>>] = verdict[<<r, n>>]
        BY <2>2, <2>4, <3>2 DEF Decided
      <4>. QED BY <1>1, <2>1, <4>1 DEF Settled, Relayed, Busy
    <3>. QED BY <3>1, <3>2
  <2>. QED BY <1>5, <2>3, <2>4, WindowStep DEF Inv
<1>6. CASE UNCHANGED vars
  <2>1. UNCHANGED <<wire, failed, pc, taken, verdict>>
    BY <1>6 DEF vars, links, thread
  <2>. QED BY <1>1, <2>1 DEF Settled, Relayed, Busy
<1>. QED BY <1>3, <1>4, <1>5, <1>6 DEF Next

\* What a relay thread adds to the history: its frame on the way from Early to Late, or
\* the pong it wrote.  A frame in Late stays in hand, and leaves it by being written.
Shown(t) == [dir |-> t, op |-> cur[t].op, n |-> cur[t].n, by |-> "peer"]
ShownPong(t) == [dir |-> <<t[1], "c2s">>, op |-> "pong", n |-> cur[t].n, by |-> "proxy"]

LEMMA LogStep ==
    ASSUME Inv, NEW t \in Threads, RelayStep(t)
    PROVE  /\ pc'[t] \in Early => pc[t] \in Early \/ ~Busy(t)
           /\ pc[t] \in Late => UNCHANGED <<taken, cur>> /\ pc'[t] \in Late \cup {"loop", "done"}
           /\ pc[t] \in Late /\ pc'[t] \notin Late => pc[t] \in {"write", "relay_close"}
           /\ \/ /\ UNCHANGED logged
                 /\ pc'[t] \in Late => \/ pc[t] \in Late
                                       \/ pc[t] = "log" /\ UNCHANGED <<taken, cur>> /\ cur[t].op # "data"
                                       \/ pc[t] = "read" /\ cur'[t].op = "pong" /\ ~LogsPong(t)
                 /\ pc[t] # "log_pong"
                 /\ pc'[t] = "pong" => pc[t] = "pong"
              \/ /\ Pushes(Shown(t)) /\ UNCHANGED <<taken, cur>>
                 /\ pc[t] \in Early \ {"recv"} /\ pc'[t] \in Late
                 /\ pc'[t] = "pong" => t[2] = "s2c"
                 /\ pc'[t] # "log_pong"
              \/ /\ Pushes(ShownPong(t)) /\ UNCHANGED <<taken, cur>>
                 /\ pc[t] = "log_pong" /\ pc'[t] = "write"
<1>. USE DEF thread, Goto, Early, Late
<1>0. pc \in [Threads -> Places]
  BY DEF Inv, TypeOK
<1>1. CASE ReadFrame(t)
  <2>0. TypeOK'
    BY TypeIsKept DEF Inv, Next
  <2>1. cur'[t].op \in Ops
    BY <2>0 DEF TypeOK, Frames
  <2>2. pc[t] = "read" /\ UNCHANGED logged
    BY <1>1 DEF ReadFrame
  <2>3. pc'[t] \in {"log_control", "close", "gate"} \/ (pc'[t] = "write" /\ cur'[t].op = "pong" /\ ~LogsPong(t))
    BY <1>0, <1>1, <2>1 DEF ReadFrame, Ops
  <2>. QED BY <2>2, <2>3 DEF Busy
<1>2. CASE LoopTop(t) \/ ReadTimesOut(t) \/ ReadEof(t)
  BY <1>0, <1>2 DEF LoopTop, ReadTimesOut, ReadEof, Busy
<1>3. CASE CheckGate(t) \/ PushFrame(t) \/ SetEofStatus(t) \/ SetCloseStatus(t)
  BY <1>0, <1>3 DEF CheckGate, PushFrame, SetEofStatus, SetCloseStatus, Busy
<1>4. CASE LogControl(t)
  <2>1. Pushes(Shown(t)) /\ UNCHANGED <<taken, cur>> /\ pc[t] = "log_control"
    BY <1>4 DEF LogControl, Log, Shown, Pushes
  <2>2. pc'[t] \in {"relay_close", "pong", "write"} /\ (pc'[t] = "pong" => t[2] = "s2c")
    BY <1>0, <1>4 DEF LogControl
  <2>. QED BY <2>1, <2>2
<1>5. CASE LogPong(t)
  <2>1. Pushes(ShownPong(t)) /\ UNCHANGED <<taken, cur>> /\ pc[t] = "log_pong"
    BY <1>5 DEF LogPong, Log, ShownPong, Pushes
  <2>2. pc'[t] = "write"
    BY <1>0, <1>5 DEF LogPong
  <2>. QED BY <2>1, <2>2
<1>6. CASE LogData(t)
  <2>1. /\ UNCHANGED <<taken, cur>> /\ pc[t] = "log"
        /\ \/ UNCHANGED logged /\ cur[t].op # "data"
           \/ Pushes(Shown(t))
    BY <1>6 DEF LogData, Log, Shown, Pushes
  <2>2. pc'[t] = "write"
    BY <1>0, <1>6 DEF LogData
  <2>. QED BY <2>1, <2>2
<1>7. CASE WritePong(t) \/ RelayClose(t) \/ WriteFrame(t)
  BY <1>0, <1>7 DEF WritePong, RelayClose, WriteFrame, Busy
<1>8. CASE ReceiveForward(t) \/ ReceiveDrop(t)
  BY <1>0, <1>8 DEF ReceiveForward, ReceiveDrop, Busy
<1>. QED BY <1>1, <1>2, <1>3, <1>4, <1>5, <1>6, <1>7, <1>8 DEF RelayStep

\* What a relay thread shows is newer than what the history has of its direction, so
\* it forgets no frame but what a full history drains.
LEMMA MemoryStep ==
    ASSUME Inv, NEW t \in Threads, RelayStep(t)
    PROVE  /\ \A e \in History' :
                \/ e \in History
                \/ /\ e = Shown(t) /\ UNCHANGED <<taken, cur>>
                   /\ pc[t] \in Early \ {"recv"} /\ pc'[t] \in Late
                \/ e = ShownPong(t) /\ UNCHANGED <<taken, cur>> /\ pc[t] = "log_pong"
           /\ Pushes(Shown(t)) /\ pc[t] \in Early => Shown(t) \in History'
           /\ LoggedOrder'
           /\ \A r \in Threads, op \in Ops, n \in Nat :
                Remembered(r, op, n) /\ (r = t => n < taken[t] \/ pc[t] \notin Early)
                  => Remembered(r, op, n)'
<1>0. TypeOK /\ LoggedOrder /\ cur[t].op \in Ops /\ cur[t].n \in 1 .. MaxFrames /\ MaxFrames \in Nat
  BY FramesAssumption DEF Inv, TypeOK, Frames
<1>1. ASSUME Pushes(Shown(t)), pc[t] \in Early
      PROVE  /\ History' \subseteq History \cup {Shown(t)} /\ Shown(t) \in History' /\ LoggedOrder'
             /\ \A r \in Threads, op \in Ops, n \in Nat :
                  Remembered(r, op, n) /\ (r = t => n < taken[t]) => Remembered(r, op, n)'
  <2>. PICK e : e = Shown(t)
    OBVIOUS
  <2>1. e \in Entries /\ e.by = "peer" /\ e.dir = t /\ e.n = cur[t].n
    BY <1>0 DEF Shown, Entries
  <2>2. cur[t].n = taken[t] /\ taken[t] \in 1 .. MaxFrames
    BY <1>1 DEF Inv, HandInv, Hand, Early, Busy
  <2>3. \A o \in History : o.dir = e.dir /\ o.by = "peer" => o.n < e.n
    <3>1. \A o \in History : o.by = "peer" /\ o.dir = t =>
             o.n \in 1 .. taken[t] /\ (o.n = taken[t] => pc[t] \notin Early)
      BY DEF Inv, LoggedInv
    <3>. QED BY <1>0, <1>1, <2>1, <2>2, <3>1
  <2>4. /\ History' \subseteq History \cup {e} /\ e \in History' /\ LoggedOrder'
        /\ \A r \in Threads, op \in Ops, n \in Nat :
             Remembered(r, op, n) /\ (e.by = "peer" /\ e.dir = r => n < e.n) => Remembered(r, op, n)'
    BY <1>0, <1>1, <2>1, <2>3, PushKeeps
  <2>. QED BY <2>1, <2>2, <2>4
<1>2. CASE UNCHANGED logged
  <2>1. /\ History' = History /\ LoggedOrder'
        /\ \A r, op, n : Remembered(r, op, n) => Remembered(r, op, n)'
    BY <1>0, <1>2 DEF History, LoggedOrder, Remembered
  <2>. QED BY <1>1, <2>1
<1>3. CASE /\ Pushes(Shown(t)) /\ UNCHANGED <<taken, cur>>
           /\ pc[t] \in Early \ {"recv"} /\ pc'[t] \in Late
  BY <1>1, <1>3
<1>4. CASE Pushes(ShownPong(t)) /\ UNCHANGED <<taken, cur>> /\ pc[t] = "log_pong"
  <2>. PICK e : e = ShownPong(t)
    OBVIOUS
  <2>1. e \in Entries /\ e.by = "proxy"
    BY <1>0, ReverseFacts DEF ShownPong, Entries, Ops, Threads
  <2>2. /\ History' \subseteq History \cup {e} /\ e \in History' /\ LoggedOrder'
        /\ \A r \in Threads, op \in Ops, n \in Nat :
             Remembered(r, op, n) /\ (e.by = "peer" /\ e.dir = r => n < e.n) => Remembered(r, op, n)'
    BY <1>0, <1>4, <2>1, PushKeeps
  <2>. QED BY <1>4, <2>1, <2>2 DEF Early
<1>. QED BY <1>2, <1>3, <1>4, LogStep

\* A window clears the history, when no tunnel is listed, or adds a frame of the repeater,
\* and unlists tunnels.
LEMMA HistoryWindowStep ==
    ASSUME TypeOK, LoggedOrder, ClearInv, Click \/ Finish
    PROVE  /\ \A e \in History' : e \in History \/ e.by = "repeater"
           /\ \/ \A c \in Conns : status'[c] = "unlisted"
              \/ \A r \in Threads, op \in Ops, n \in Nat :
                   Remembered(r, op, n) => Remembered(r, op, n)'
           /\ LoggedOrder'
           /\ \A c \in Conns : status[c] = "unlisted" => status'[c] = "unlisted"
           /\ ClearInv'
<1>. USE DEF conns, window, ClearInv
<1>1. CASE UNCHANGED logged
  <2>1. /\ History' = History /\ LoggedOrder'
        /\ \A r, op, n : Remembered(r, op, n) => Remembered(r, op, n)'
    BY <1>1 DEF History, LoggedOrder, Remembered
  <2>2. CASE ClickClearHistory
    BY <2>1, <2>2 DEF ClickClearHistory
  <2>3. CASE SetManualStatus
    BY <2>1, <2>3 DEF SetManualStatus, SetStatus, TypeOK
  <2>4. CASE \E c \in Conns : ClickCloseTunnel(c)
    BY <2>1, <2>4, NamesAssumption DEF ClickCloseTunnel
  <2>5. CASE ClickToggle \/ ChangeScope \/ Flush \/ ClickForwardAll \/ ClickDropAll
    BY <2>1, <2>5 DEF ClickToggle, ChangeScope, Flush, ClickForwardAll, ClickDropAll
  <2>6. CASE \E s \in Slots : ClickForward(s) \/ ClickDrop(s)
    BY <2>1, <2>6 DEF ClickForward, ClickDrop, Answer
  <2>7. CASE \E c \in Conns \cup {"none"} : ClickRepeaterSend(c)
    BY <2>1, <2>7 DEF ClickRepeaterSend
  <2>8. CASE ClearFrames
    BY <2>1, <2>8 DEF ClearFrames
  <2>. QED BY <2>2, <2>3, <2>4, <2>5, <2>6, <2>7, <2>8 DEF Click, Finish
<1>2. CASE ClearFrames
  <2>1. logged' = <<>> /\ \A c \in Conns : status'[c] = "unlisted"
    BY <1>2 DEF ClearFrames
  <2>2. DOMAIN logged' = {} /\ Len(logged') = 0
    BY <2>1
  <2>3. History' = {} /\ LoggedOrder'
    BY <2>2 DEF History, LoggedOrder
  <2>. QED BY <1>2, <2>1, <2>3 DEF ClearFrames
<1>3. ASSUME NEW c \in Conns \cup {"none"}, ClickRepeaterSend(c)
      PROVE  /\ \A e \in History' : e \in History \/ e.by = "repeater"
             /\ \A r \in Threads, op \in Ops, n \in Nat :
                  Remembered(r, op, n) => Remembered(r, op, n)'
             /\ LoggedOrder' /\ UNCHANGED <<status, ui>>
  <2>1. PICK e \in Entries : e.by = "repeater" /\ Pushes(e)
    BY <1>3, RepeaterPushes
  <2>2. UNCHANGED <<status, ui>>
    BY <1>3 DEF ClickRepeaterSend
  <2>. QED BY <2>1, <2>2, PushKeeps
<1>4. UNCHANGED logged \/ ClearFrames \/ \E c \in Conns \cup {"none"} : ClickRepeaterSend(c)
  BY DEF Click, Finish, ClickToggle, ChangeScope, Flush, ClickForwardAll, ClickDropAll,
     ClickClearHistory, ClickForward, ClickDrop, Answer, ClickCloseTunnel, SetManualStatus
<1>. QED BY <1>1, <1>2, <1>3, <1>4

\* A relay thread never lists a tunnel again.
LEMMA StatusStep ==
    ASSUME TypeOK, NEW t \in Threads, RelayStep(t)
    PROVE  \A c \in Conns : status[c] = "unlisted" => status'[c] = "unlisted"
<1>. USE DEF conns
<1>1. CASE SetEofStatus(t) \/ SetCloseStatus(t)
  BY <1>1 DEF SetEofStatus, SetCloseStatus, SetStatus, TypeOK
<1>2. CASE ~SetEofStatus(t) /\ ~SetCloseStatus(t)
  BY <1>2 DEF RelayStep, LoopTop, ReadTimesOut, ReadFrame, ReadEof, LogControl, WritePong, LogPong,
       RelayClose, CheckGate, PushFrame, ReceiveForward, ReceiveDrop, LogData, WriteFrame
<1>. QED BY <1>1, <1>2

LEMMA ClearIsKept ==
    ASSUME Inv, [Next]_vars
    PROVE  ClearInv'
<1>1. ASSUME NEW t \in Threads, PeerSends(t) \/ PeerGoes(t) PROVE ClearInv'
  BY <1>1, PeerStep DEF Inv, ClearInv, conns, window
<1>2. ASSUME NEW t \in Threads, RelayStep(t) PROVE ClearInv'
  BY <1>2, RelayFrame, StatusStep DEF Inv, ClearInv, window
<1>3. CASE Click \/ Finish
  BY <1>3, HistoryWindowStep DEF Inv
<1>4. CASE UNCHANGED vars
  BY <1>4 DEF Inv, ClearInv, vars, conns, window
<1>. QED BY <1>1, <1>2, <1>3, <1>4 DEF Next

LEMMA LoggedIsKept ==
    ASSUME Inv, [Next]_vars
    PROVE  LoggedInv'
<1>0. /\ taken \in [Threads -> 0 .. MaxFrames] /\ taken' \in [Threads -> 0 .. MaxFrames]
      /\ MaxFrames \in Nat /\ History \subseteq Entries /\ History' \subseteq Entries
  <2>1. logged \in Seq(Entries) /\ logged' \in Seq(Entries)
    BY TypeIsKept DEF Inv, TypeOK
  <2>2. History \subseteq Entries /\ History' \subseteq Entries
    BY <2>1, ElementOfSeq DEF History
  <2>. QED BY <2>2, TypeIsKept, FramesAssumption DEF Inv, TypeOK
<1>. SUFFICES ASSUME NEW e \in History', e.by = "peer"
              PROVE  /\ e.n \in 1 .. taken'[e.dir]
                     /\ e.n = taken'[e.dir] => pc'[e.dir] \notin Early
                     /\ verdict'[<<e.dir, e.n>>] # "Drop"
  BY DEF LoggedInv
<1>. DEFINE d == e.dir
            n == e.n
            Good == /\ n \in 1 .. taken[d]
                    /\ n = taken[d] => pc[d] \notin Early
                    /\ verdict[<<d, n>>] # "Drop"
<1>1. d \in Threads /\ n \in 1 .. MaxFrames /\ (e \in History => Good)
  BY <1>0 DEF Entries, Inv, LoggedInv
<1>. HIDE DEF d, n
<1>. SUFFICES Good'
  BY DEF d, n
<1>2. ASSUME NEW t \in Threads, PeerSends(t) \/ PeerGoes(t) PROVE Good'
  <2>1. UNCHANGED <<pc, taken, verdict>> /\ e \in History
    BY <1>2, PeerStep DEF Inv, thread, History
  <2>. QED BY <1>1, <2>1 DEF d, n
<1>3. ASSUME NEW t \in Threads, RelayStep(t) PROVE Good'
  <2>1. UNCHANGED verdict /\ (d # t => pc'[d] = pc[d] /\ taken'[d] = taken[d])
    BY <1>1, <1>3, RelayFrame DEF Inv
  <2>2. CASE e \in History /\ d # t
    BY <1>1, <2>1, <2>2 DEF d, n
  <2>3. CASE e \in History /\ d = t
    <3>1. Good /\ taken[t] \in Nat /\ n \in Nat
      BY <1>0, <1>1, <2>3
    <3>2. CASE taken'[t] = taken[t] /\ (Busy(t)' => Busy(t))
      <4>1. pc'[t] \in Early => pc[t] \in Early
        BY <1>3, <3>2, LogStep DEF Busy, Early
      <4>. QED BY <2>1, <2>3, <3>1, <3>2, <4>1 DEF d, n
    <3>3. CASE taken'[t] = taken[t] + 1
      <4>1. n \in 1 .. taken'[t] /\ n # taken'[t]
        BY <2>3, <3>1, <3>3
      <4>. QED BY <2>1, <2>3, <3>1, <4>1 DEF d, n
    <3>. QED BY <1>3, <3>2, <3>3, ProgressStep
  <2>4. CASE e \notin History
    <3>1. \/ /\ e = Shown(t) /\ UNCHANGED <<taken, cur>>
             /\ pc[t] \in Early \ {"recv"} /\ pc'[t] \in Late
          \/ e = ShownPong(t)
      BY <1>3, <2>4, MemoryStep
    <3>2. e # ShownPong(t)
      BY DEF ShownPong
    <3>3. d = t /\ n = cur[t].n /\ pc[t] \in Early \ {"recv"} /\ pc'[t] \in Late /\ taken'[t] = taken[t]
      BY <3>1, <3>2 DEF Shown, d, n
    <3>4. n = taken[t] /\ taken[t] \in 1 .. MaxFrames /\ verdict[<<t, taken[t]>>] # "Drop"
      BY <3>3 DEF Early, Busy, Inv, HandInv, Hand, DecisionInv, Decision
    <3>. QED BY <2>1, <3>3, <3>4 DEF Early, Late, d, n
  <2>. QED BY <2>2, <2>3, <2>4
<1>4. CASE Click \/ Finish
  <2>1. UNCHANGED <<pc, taken>> /\ e \in History
    BY <1>4, WindowStep, HistoryWindowStep DEF Inv
  <2>2. CASE UNCHANGED verdict
    BY <1>1, <2>1, <2>2 DEF d, n
  <2>3. ASSUME NEW S \in SUBSET pending, NEW answer \in {"Drop"} \cup Ops,
               NEW x \in Decisions, Decided(S, answer, x)
        PROVE  Good'
    <3>1. <<d, n>> \notin S
      BY <1>1, <2>1 DEF Inv, PendingInv, Early
    <3>2. verdict'[<<d, n>>] = verdict[<<d, n>>]
      BY <1>1, <2>3, <3>1 DEF Decided
    <3>. QED BY <1>1, <2>1, <3>2 DEF d, n
  <2>. QED BY <1>4, <2>2, <2>3, WindowStep DEF Inv
<1>5. CASE UNCHANGED vars
  <2>1. UNCHANGED <<pc, taken, verdict>> /\ e \in History
    BY <1>5 DEF vars, thread, History
  <2>. QED BY <1>1, <2>1 DEF d, n
<1>. QED BY <1>2, <1>3, <1>4, <1>5 DEF Next

LEMMA SeenIsKept ==
    ASSUME Inv, [Next]_vars
    PROVE  SeenInv'
<1>. SUFFICES ASSUME NEW r \in Threads PROVE Seen(r)'
  BY DEF SeenInv
<1>0. /\ Seen(r) /\ Hand(r) /\ r[1] \in Conns /\ r[2] \in {"c2s", "s2c"}
      /\ taken[r] \in 0 .. MaxFrames /\ MaxFrames \in Nat /\ Len(sent[r]) \in Nat
      /\ cur[r].op \in Ops
  BY ReverseFacts, FramesAssumption, LenProperties DEF Inv, SeenInv, HandInv, TypeOK, Frames
<1>1. ASSUME NEW t \in Threads, PeerSends(t) \/ PeerGoes(t) PROVE Seen(r)'
  <2>1. UNCHANGED <<setup, pc, taken, cur, status, logged>>
    BY <1>1, PeerStep DEF Inv, thread, conns
  <2>2. pc[r] \in Late => sent'[r][taken[r]] = sent[r][taken[r]]
    <3>1. pc[r] \in Late => taken[r] \in 1 .. Len(sent[r])
      BY <1>0 DEF Hand, Late, Busy
    <3>. QED BY <1>1, <3>1, PeerStep DEF Inv
  <2>. QED BY <1>0, <2>1, <2>2 DEF Seen, Remembered, History
<1>2. ASSUME NEW t \in Threads, RelayStep(t) PROVE Seen(r)'
  <2>1. UNCHANGED <<setup, sent>> /\ (status'[r[1]] # "unlisted" => status[r[1]] # "unlisted")
    <3>1. UNCHANGED <<setup, sent>>
      BY <1>2, RelayFrame DEF Inv, peers
    <3>2. status'[r[1]] # "unlisted" => status[r[1]] # "unlisted"
      BY <1>0, <1>2, StatusStep DEF Inv
    <3>. QED BY <3>1, <3>2
  <2>2. ASSUME r # t \/ pc[t] \in Late, UNCHANGED <<taken[r], cur[r]>>, pc[r] \in Late PROVE Seen(r)'
    <3>. PICK op \in Ops, n \in Nat : op = cur[r].op /\ n = taken[r]
      BY <1>0
    <3>1. Remembered(r, op, n) => Remembered(r, op, n)'
      BY <1>2, <2>2, MemoryStep DEF Late, Early
    <3>2. Remembered(r, op, n)' => Remembered(r, cur[r].op, taken[r])'
      BY <2>2
    <3>. QED BY <1>0, <2>1, <2>2, <3>1, <3>2 DEF Seen
  <2>3. CASE r # t
    <3>1. UNCHANGED <<pc[r], taken[r], cur[r]>>
      BY <1>2, <2>3, RelayFrame DEF Inv
    <3>. QED BY <2>2, <2>3, <3>1 DEF Seen
  <2>4. CASE r = t /\ pc[t] \in Late
    BY <1>2, <2>2, <2>4, LogStep
  <2>5. CASE r = t /\ pc[t] \notin Late /\ Pushes(Shown(t)) /\ UNCHANGED <<taken, cur>>
               /\ pc[t] \in Early
    <3>1. cur[t].n = taken[t]
      BY <1>0, <2>5 DEF Hand, Early, Busy
    <3>2. Shown(t) \in History'
      BY <1>2, <2>5, MemoryStep
    <3>. QED BY <2>5, <3>1, <3>2 DEF Seen, Shown, Remembered
  <2>6. CASE r = t /\ pc[t] = "log" /\ UNCHANGED <<taken, cur>> /\ cur[t].op # "data"
    BY <1>0, <2>1, <2>6 DEF Seen, Hand
  <2>7. CASE r = t /\ pc[t] = "read" /\ cur'[t].op = "pong" /\ ~LogsPong(t)
    BY <1>0, <2>1, <2>7 DEF Seen, LogsPong
  <2>8. CASE pc'[r] \notin Late
    BY <2>8 DEF Seen
  <2>. QED BY <1>2, <2>3, <2>4, <2>5, <2>6, <2>7, <2>8, LogStep DEF Late, Early
<1>3. CASE Click \/ Finish
  <2>1. UNCHANGED <<setup, sent, pc, taken, cur>>
    BY <1>3, WindowStep DEF Inv, peers
  <2>. PICK op \in Ops, n \in Nat : op = cur[r].op /\ n = taken[r]
    BY <1>0
  <2>2. /\ \/ status'[r[1]] = "unlisted"
           \/ Remembered(r, op, n) => Remembered(r, op, n)'
        /\ status[r[1]] = "unlisted" => status'[r[1]] = "unlisted"
    BY <1>0, <1>3, HistoryWindowStep DEF Inv
  <2>3. Remembered(r, op, n)' => Remembered(r, cur[r].op, taken[r])'
    BY <2>1
  <2>. QED BY <1>0, <2>1, <2>2, <2>3 DEF Seen
<1>4. CASE UNCHANGED vars
  BY <1>0, <1>4 DEF Seen, Remembered, History, vars, peers, thread, conns
<1>. QED BY <1>1, <1>2, <1>3, <1>4 DEF Next

LEMMA OrderOfHistoryIsKept ==
    ASSUME Inv, [Next]_vars
    PROVE  LoggedOrder'
<1>1. ASSUME NEW t \in Threads, PeerSends(t) \/ PeerGoes(t) PROVE LoggedOrder'
  BY <1>1, PeerStep DEF Inv, LoggedOrder
<1>2. ASSUME NEW t \in Threads, RelayStep(t) PROVE LoggedOrder'
  BY <1>2, MemoryStep
<1>3. CASE Click \/ Finish
  BY <1>3, HistoryWindowStep DEF Inv
<1>4. CASE UNCHANGED vars
  BY <1>4 DEF Inv, LoggedOrder, vars
<1>. QED BY <1>1, <1>2, <1>3, <1>4 DEF Next

LEMMA CompleteIsKept ==
    ASSUME Inv, [Next]_vars
    PROVE  HistoryIsComplete'
<1>0. /\ wire \in [Threads -> Seq(Frames)] /\ wire' \in [Threads -> Seq(Frames)]
      /\ taken \in [Threads -> 0 .. MaxFrames] /\ MaxFrames \in Nat
      /\ \A r \in Threads : Len(sent[r]) \in Nat
  BY TypeIsKept, FramesAssumption, LenProperties DEF Inv, TypeOK
<1>00. \A r \in Threads : /\ DOMAIN wire[r] = 1 .. Len(wire[r]) /\ DOMAIN wire'[r] = 1 .. Len(wire'[r])
                           /\ Len(wire[r]) \in Nat /\ Len(wire'[r]) \in Nat
  BY <1>0, LenProperties
<1>. DEFINE Listed(r, f) ==
              LET unseen == f.op = "pong" /\ r[1] \notin setup.tls /\ r[2] = "s2c"
              IN  f.by = "peer" /\ (f.op = "data" \/ f.op = sent[r][f.n].op) /\ ~unseen =>
                    Remembered(r, f.op, f.n)
<1>. SUFFICES ASSUME NEW r \in Threads, status'[r[1]] # "unlisted", NEW i \in 1 .. Len(wire'[r])
              PROVE  Listed(r, wire[r][i])'
  BY <1>00 DEF HistoryIsComplete
<1>1. \A j \in 1 .. Len(wire[r]) : status[r[1]] # "unlisted" => Listed(r, wire[r][j])
  BY <1>00 DEF Inv, HistoryIsComplete
<1>2. r[1] \in Conns
  BY ReverseFacts
<1>3. \A j \in 1 .. Len(wire[r]) :
         /\ wire[r][j].op \in Ops /\ wire[r][j].n \in Nat
         /\ wire[r][j].by = "peer" => /\ wire[r][j].n \in 1 .. taken[r] /\ taken[r] <= Len(sent[r])
                                      /\ Busy(r) => wire[r][j].n # taken[r]
  <2>1. \A j \in 1 .. Len(wire[r]) : wire[r][j] \in Frames
    BY <1>0, <1>00, ElementOfSeq
  <2>2. \A j \in 1 .. Len(wire[r]) : wire[r][j].op \in Ops /\ wire[r][j].n \in Nat
    BY <1>0, <2>1 DEF Frames
  <2>3. OnWire(r) /\ Hand(r)
    BY DEF Inv, WireInv, HandInv
  <2>. QED BY <2>2, <2>3 DEF OnWire, Hand
<1>4. ASSUME NEW t \in Threads, PeerSends(t) \/ PeerGoes(t) PROVE Listed(r, wire[r][i])'
  <2>1. UNCHANGED <<setup, wire, status, logged>>
    BY <1>4, PeerStep DEF Inv, links, conns
  <2>2. wire[r][i].by = "peer" => sent'[r][wire[r][i].n] = sent[r][wire[r][i].n]
    <3>1. wire[r][i].by = "peer" => wire[r][i].n \in 1 .. Len(sent[r])
      BY <1>0, <1>00, <1>3, <2>1
    <3>. QED BY <1>4, <3>1, PeerStep DEF Inv
  <2>3. Remembered(r, wire[r][i].op, wire[r][i].n) => Remembered(r, wire[r][i].op, wire[r][i].n)'
    BY <2>1 DEF Remembered, History
  <2>. QED BY <1>1, <2>1, <2>2, <2>3
<1>5. ASSUME NEW t \in Threads, RelayStep(t) PROVE Listed(r, wire[r][i])'
  <2>1. UNCHANGED <<setup, sent>> /\ status[r[1]] # "unlisted"
    <3>1. UNCHANGED <<setup, sent>>
      BY <1>5, RelayFrame DEF Inv, peers
    <3>2. status[r[1]] # "unlisted"
      BY <1>2, <1>5, StatusStep DEF Inv
    <3>. QED BY <3>1, <3>2
  <2>2. ASSUME i \in 1 .. Len(wire[r]), wire'[r][i] = wire[r][i] PROVE Listed(r, wire[r][i])'
    <3>. PICK op \in Ops, n \in Nat : op = wire[r][i].op /\ n = wire[r][i].n
      BY <1>3, <2>2
    <3>1. wire[r][i].by = "peer" /\ r = t => n < taken[t] \/ pc[t] \notin Early
      <4>1. wire[r][i].by = "peer" => n \in 1 .. taken[r] /\ (Busy(r) => n # taken[r])
        BY <1>3, <2>2
      <4>2. pc[t] \in Early => Busy(t)
        BY DEF Busy, Early
      <4>. QED BY <1>0, <4>1, <4>2
    <3>2. wire[r][i].by = "peer" /\ Remembered(r, op, n) => Remembered(r, op, n)'
      BY <1>5, <3>1, MemoryStep
    <3>3. Remembered(r, op, n)' => Remembered(r, wire[r][i].op, wire[r][i].n)'
      BY <2>2
    <3>4. Remembered(r, wire[r][i].op, wire[r][i].n) => Remembered(r, op, n)
      OBVIOUS
    <3>. QED BY <1>1, <2>1, <2>2, <3>2, <3>3, <3>4
  <2>3. CASE UNCHANGED wire
    <3>. HIDE DEF Listed
    <3>. QED BY <2>2, <2>3
  <2>4. ASSUME NEW q \in Threads, NEW f, Delivered(q, f), r = q => f.by = "proxy" \/ Listed(r, f)'
        PROVE  Listed(r, wire[r][i])'
    <3>1. CASE r # q \/ i # Len(wire[q]) + 1
      <4>1. i \in 1 .. Len(wire[r]) /\ wire'[r][i] = wire[r][i]
        BY <1>00, <2>4, <3>1 DEF Delivered
      <4>. HIDE DEF Listed
      <4>. QED BY <2>2, <4>1
    <3>2. CASE r = q /\ i = Len(wire[q]) + 1
      <4>1. wire'[r][i] = f
        BY <2>4, <3>2 DEF Delivered
      <4>. QED BY <2>4, <3>2, <4>1
    <3>. QED BY <3>1, <3>2
  <2>5. CASE pc[t] \in {"write", "relay_close"} /\ Delivered(t, cur[t])
    <3>1. cur[t].n = taken[t]
      BY <2>5 DEF Inv, HandInv, Hand, Busy
    <3>2. Seen(t) /\ pc[t] \in Late
      BY <2>5 DEF Inv, SeenInv, Late
    <3>3. Remembered(t, cur[t].op, taken[t]) => Remembered(t, cur[t].op, taken[t])'
      <4>. PICK op \in Ops, n \in Nat : op = cur[t].op /\ n = taken[t]
        BY <1>0 DEF Inv, TypeOK, Frames
      <4>1. Remembered(t, op, n) => Remembered(t, op, n)'
        BY <1>5, <3>2, MemoryStep DEF Late, Early
      <4>2. UNCHANGED <<taken, cur>>
        BY <1>5, <3>2, LogStep
      <4>. QED BY <4>1, <4>2
    <3>. PICK f : f = cur[t]
      OBVIOUS
    <3>4. r = t /\ f.by = "peer" /\ (f.op = "data" \/ f.op = sent'[r][f.n].op)
             /\ ~(f.op = "pong" /\ r[1] \notin setup'.tls /\ r[2] = "s2c")
               => Remembered(r, f.op, f.n)'
      <4>1. UNCHANGED <<taken, cur>>
        BY <1>5, <3>2, LogStep
      <4>2. f.op = cur'[t].op /\ f.n = taken'[t]
        BY <3>1, <4>1
      <4>3. Remembered(t, cur[t].op, taken[t])' => Remembered(t, f.op, f.n)'
        BY <4>2
      <4>. QED BY <2>1, <3>1, <3>2, <3>3, <4>3 DEF Seen
    <3>5. CASE r # t \/ i # Len(wire[t]) + 1
      <4>1. i \in 1 .. Len(wire[r]) /\ wire'[r][i] = wire[r][i]
        BY <1>00, <2>5, <3>5 DEF Delivered
      <4>. HIDE DEF Listed
      <4>. QED BY <2>2, <4>1
    <3>6. CASE r = t /\ i = Len(wire[t]) + 1
      <4>1. wire'[r][i] = f
        BY <2>5, <3>6 DEF Delivered
      <4>. QED BY <3>4, <3>6, <4>1
    <3>. QED BY <3>5, <3>6
  <2>6. ASSUME NEW q \in Threads, NEW f, f.by = "proxy", Delivered(q, f)
        PROVE  Listed(r, wire[r][i])'
    <3>. HIDE DEF Listed
    <3>. QED BY <2>4, <2>6
  <2>. HIDE DEF Listed
  <2>. QED BY <1>5, <2>3, <2>5, <2>6, WireStep
<1>6. CASE Click \/ Finish
  <2>1. UNCHANGED <<setup, sent, wire>>
    BY <1>6, WindowStep DEF Inv, peers, links
  <2>. PICK op \in Ops, n \in Nat : op = wire[r][i].op /\ n = wire[r][i].n
    BY <1>3, <2>1
  <2>2. (Remembered(r, op, n) => Remembered(r, op, n)') /\ status[r[1]] # "unlisted"
    BY <1>2, <1>6, HistoryWindowStep DEF Inv
  <2>3. Remembered(r, op, n)' => Remembered(r, wire[r][i].op, wire[r][i].n)'
    BY <2>1
  <2>. QED BY <1>1, <2>1, <2>2, <2>3
<1>7. CASE UNCHANGED vars
  BY <1>1, <1>7 DEF vars, peers, links, conns, Remembered, History
<1>. HIDE DEF Listed
<1>. QED BY <1>4, <1>5, <1>6, <1>7 DEF Next

\* Wires only grow, and failures stay.
LEMMA WiresGrow ==
    ASSUME Inv, [Next]_vars, NEW r \in Threads, NEW op, NEW n, NEW by,
           WrittenOrFailed(r, op, n, by)
    PROVE  WrittenOrFailed(r, op, n, by)'
<1>0. Len(wire[r]) \in Nat /\ Len(wire'[r]) \in Nat
  <2>1. wire[r] \in Seq(Frames) /\ wire'[r] \in Seq(Frames)
    BY TypeIsKept DEF Inv, TypeOK
  <2>. QED BY <2>1, LenProperties
<1>1. CASE UNCHANGED <<wire, failed>>
  BY <1>1 DEF WrittenOrFailed
<1>2. ASSUME NEW t \in Threads, RelayStep(t) PROVE WrittenOrFailed(r, op, n, by)'
  <2>1. failed[r] => failed'[r]
    BY <1>2, WireStep DEF Delivered
  <2>2. \A i \in 1 .. Len(wire[r]) : i \in 1 .. Len(wire'[r]) /\ wire'[r][i] = wire[r][i]
    <3>1. \A q \in Threads : \A f : Delivered(q, f) =>
             \A i \in 1 .. Len(wire[r]) : i \in 1 .. Len(wire'[r]) /\ wire'[r][i] = wire[r][i]
      BY <1>0 DEF Delivered
    <3>. QED BY <1>2, <3>1, WireStep
  <2>. QED BY <2>1, <2>2 DEF WrittenOrFailed
<1>3. ASSUME NEW t \in Threads, PeerSends(t) \/ PeerGoes(t) PROVE UNCHANGED <<wire, failed>>
  BY <1>3, PeerStep DEF Inv, links
<1>4. CASE Click \/ Finish
  BY <1>1, <1>4, WindowStep DEF Inv, links
<1>5. CASE UNCHANGED vars
  BY <1>1, <1>5 DEF vars, links
<1>. QED BY <1>1, <1>2, <1>3, <1>4, <1>5 DEF Next

\* What a thread delivered, or failed to, is written or failed.
LEMMA DeliveredIsWritten ==
    ASSUME TypeOK, NEW r \in Threads, NEW f, Delivered(r, f)
    PROVE  WrittenOrFailed(r, f.op, f.n, f.by)'
<1>1. Len(wire[r]) \in Nat
  BY LenProperties DEF TypeOK
<1>2. Len(wire[r]) + 1 \in 1 .. Len(wire'[r]) /\ wire'[r][Len(wire[r]) + 1] = f
  BY <1>1 DEF Delivered
<1>. QED BY <1>2 DEF WrittenOrFailed

LEMMA PongIsKept ==
    ASSUME Inv, [Next]_vars
    PROVE  PongInv'
<1>. SUFFICES ASSUME NEW r \in Threads PROVE Answered(r)'
  BY DEF PongInv
<1>0. Answered(r) /\ Reverse(r) \in Threads
  BY ReverseFacts DEF Inv, PongInv
<1>. PICK n : n = taken[r]
  OBVIOUS
<1>1. WrittenOrFailed(Reverse(r), "pong", n, "proxy") => WrittenOrFailed(Reverse(r), "pong", n, "proxy")'
  BY <1>0, WiresGrow
<1>2. ASSUME UNCHANGED <<setup, taken[r]>>, pc'[r] = "pong" => r[2] = "s2c",
             pc'[r] = "log_pong" => pc[r] = "log_pong"
      PROVE  Answered(r)'
  <2>1. r[1] \in setup.tls /\ pc'[r] = "log_pong" => WrittenOrFailed(Reverse(r), "pong", n, "proxy")'
    BY <1>0, <1>1, <1>2 DEF Answered
  <2>. QED BY <1>0, <1>2, <2>1 DEF Answered, WrittenOrFailed
<1>3. ASSUME NEW t \in Threads, PeerSends(t) \/ PeerGoes(t) PROVE Answered(r)'
  <2>1. UNCHANGED <<setup, pc, taken>>
    BY <1>3, PeerStep DEF Inv, thread
  <2>. QED BY <1>0, <1>2, <2>1 DEF Answered
<1>4. ASSUME NEW t \in Threads, RelayStep(t) PROVE Answered(r)'
  <2>0. UNCHANGED setup
    BY <1>4, RelayFrame DEF Inv, peers
  <2>1. CASE r # t
    <3>1. UNCHANGED <<pc[r], taken[r]>>
      BY <1>4, <2>1, RelayFrame DEF Inv
    <3>. QED BY <1>0, <1>2, <2>0, <3>1 DEF Answered
  <2>2. CASE r = t /\ WritePong(t)
    <3>1. pc[t] = "pong" /\ pc'[t] = "log_pong" /\ taken'[t] = taken[t] /\ cur[t].n = n
      BY <2>2 DEF WritePong, Goto, Inv, TypeOK, HandInv, Hand, Busy
    <3>2. r[2] = "s2c"
      BY <1>0, <2>2, <3>1 DEF Answered
    <3>3. ASSUME t[1] \in setup.tls PROVE WrittenOrFailed(Reverse(t), "pong", n, "proxy")'
      <4>. PICK f : f = [op |-> "pong", n |-> cur[t].n, masked |-> FALSE, by |-> "proxy"]
        OBVIOUS
      <4>1. Deliver(Reverse(t), f) \/ Fail(Reverse(t))
        BY <2>2, <3>3 DEF WritePong, Write
      <4>2. f.op = "pong" /\ f.n = n /\ f.by = "proxy"
        BY <3>1
      <4>3. CASE Deliver(Reverse(t), f)
        <5>1. Delivered(Reverse(t), f)
          BY <1>0, <2>2, <4>3, DeliverDelivers DEF Inv
        <5>2. WrittenOrFailed(Reverse(t), f.op, f.n, f.by)'
          BY <1>0, <2>2, <5>1, DeliveredIsWritten DEF Inv
        <5>. QED BY <4>2, <5>2 DEF WrittenOrFailed
      <4>4. CASE Fail(Reverse(t))
        BY <1>0, <2>2, <4>4 DEF Fail, WrittenOrFailed, Inv, TypeOK
      <4>. QED BY <4>1, <4>3, <4>4
    <3>. QED BY <2>0, <2>2, <3>1, <3>2, <3>3 DEF Answered, WrittenOrFailed
  <2>3. CASE r = t /\ pc'[t] # "log_pong"
    <3>1. pc'[t] = "pong" => r[2] = "s2c"
      BY <1>0, <1>4, <2>3, LogStep DEF Late, Answered
    <3>. QED BY <2>3, <3>1 DEF Answered
  <2>4. CASE r = t /\ ~WritePong(t)
    <3>1. pc'[t] # "log_pong"
      <4>1. ReadFrame(t) => pc'[t] # "log_pong"
        <5>1. TypeOK'
          BY TypeIsKept DEF Inv
        <5>2. cur'[t].op \in Ops /\ pc \in [Threads -> Places]
          BY <5>1 DEF Inv, TypeOK, Frames
        <5>. QED BY <5>2 DEF ReadFrame, Goto, Ops
      <4>2. pc \in [Threads -> Places]
        BY DEF Inv, TypeOK
      <4>. QED BY <1>4, <2>4, <4>1, <4>2 DEF RelayStep, LoopTop, ReadTimesOut, ReadEof, SetEofStatus,
                  SetCloseStatus, LogControl, LogPong, RelayClose, CheckGate, PushFrame,
                  ReceiveForward, ReceiveDrop, LogData, WriteFrame, Goto
    <3>. QED BY <2>3, <2>4, <3>1
  <2>. QED BY <2>1, <2>2, <2>4
<1>5. CASE Click \/ Finish
  <2>1. UNCHANGED <<setup, pc, taken>>
    BY <1>5, WindowStep DEF Inv, peers
  <2>. QED BY <1>0, <1>2, <2>1 DEF Answered
<1>6. CASE UNCHANGED vars
  <2>1. UNCHANGED <<setup, pc, taken>>
    BY <1>6 DEF vars, peers, thread
  <2>. QED BY <1>0, <1>2, <2>1 DEF Answered
<1>. QED BY <1>3, <1>4, <1>5, <1>6 DEF Next

LEMMA TruthIsKept ==
    ASSUME Inv, [Next]_vars
    PROVE  HistoryIsTruthful'
<1>. DEFINE Explained(e) ==
              \/ e.by = "repeater"
              \/ e.by = "proxy" /\ e.dir[1] \notin setup.tls
              \/ WrittenOrFailed(e.dir, e.op, e.n, e.by)
              \/ /\ e.by = "peer" /\ e.n = cur[e.dir].n /\ e.op = cur[e.dir].op
                 /\ pc[e.dir] \in Late
<1>0. /\ History \subseteq Entries /\ History' \subseteq Entries
      /\ \A r \in Threads : DOMAIN wire[r] = 1 .. Len(wire[r]) /\ DOMAIN wire'[r] = 1 .. Len(wire'[r])
  <2>1. wire \in [Threads -> Seq(Frames)] /\ wire' \in [Threads -> Seq(Frames)]
    BY TypeIsKept DEF Inv, TypeOK
  <2>2. logged \in Seq(Entries) /\ logged' \in Seq(Entries)
    BY TypeIsKept DEF Inv, TypeOK
  <2>3. History \subseteq Entries /\ History' \subseteq Entries
    BY <2>2, ElementOfSeq DEF History
  <2>. QED BY <2>1, <2>3, LenProperties
<1>. SUFFICES ASSUME NEW e \in History', e.by # "repeater" PROVE Explained(e)'
  <2>1. \A e \in History' : e.by # "repeater" => e.dir \in Threads
    BY <1>0 DEF Entries
  <2>. QED BY <1>0, <2>1 DEF HistoryIsTruthful, WrittenOrFailed, Late
<1>1. e.dir \in Threads /\ e.by \in {"peer", "proxy"}
  BY <1>0 DEF Entries
<1>2. e \in History => Explained(e)
  BY <1>0, <1>1 DEF Inv, HistoryIsTruthful, WrittenOrFailed, Late
<1>3. WrittenOrFailed(e.dir, e.op, e.n, e.by) => WrittenOrFailed(e.dir, e.op, e.n, e.by)'
  BY <1>1, WiresGrow
<1>4. ASSUME e \in History, UNCHANGED <<setup, pc[e.dir], cur[e.dir]>> PROVE Explained(e)'
  BY <1>2, <1>3, <1>4
<1>5. ASSUME NEW t \in Threads, PeerSends(t) \/ PeerGoes(t) PROVE Explained(e)'
  BY <1>4, <1>5, PeerStep DEF Inv, thread, History
<1>6. ASSUME NEW t \in Threads, RelayStep(t) PROVE Explained(e)'
  <2>0. UNCHANGED setup
    BY <1>6, RelayFrame DEF Inv, peers
  <2>1. CASE e \in History /\ e.dir # t
    BY <1>1, <1>4, <1>6, <2>0, <2>1, RelayFrame DEF Inv
  <2>2. CASE e \in History /\ e.dir = t /\ pc[t] \notin Late
    BY <1>2, <1>3, <2>0, <2>2
  <2>3. CASE e \in History /\ e.dir = t /\ pc[t] \in Late /\ pc'[t] \in Late
    <3>1. cur'[t] = cur[t]
      BY <1>6, <2>3, LogStep
    <3>. QED BY <1>2, <1>3, <2>0, <2>3, <3>1
  <2>4. CASE e \in History /\ e.dir = t /\ pc[t] \in Late /\ pc'[t] \notin Late
    <3>1. failed'[t] \/ Delivered(t, cur[t])
      <4>1. pc[t] \in {"write", "relay_close"}
        BY <1>6, <2>4, LogStep
      <4>. QED BY <1>6, <4>1, WireStep
    <3>2. failed'[t] => WrittenOrFailed(t, e.op, e.n, e.by)'
      BY DEF WrittenOrFailed
    <3>3. cur[t].by = "peer"
      BY <2>4 DEF Inv, HandInv, Hand, Busy, Late
    <3>. PICK f : f = cur[t]
      OBVIOUS
    <3>4. Delivered(t, cur[t]) => WrittenOrFailed(t, f.op, f.n, f.by)'
      BY DeliveredIsWritten DEF Inv
    <3>5. CASE \/ WrittenOrFailed(e.dir, e.op, e.n, e.by)
               \/ e.by = "proxy" /\ e.dir[1] \notin setup.tls
      BY <1>3, <2>0, <3>5
    <3>6. CASE e.by = "peer" /\ e.n = cur[t].n /\ e.op = cur[t].op
      <4>1. e.op = f.op /\ e.n = f.n /\ e.by = f.by
        BY <3>3, <3>6
      <4>2. WrittenOrFailed(t, e.op, e.n, e.by)'
        BY <3>1, <3>2, <3>4, <4>1 DEF WrittenOrFailed
      <4>. QED BY <2>4, <4>2
    <3>. QED BY <1>2, <2>4, <3>5, <3>6
  <2>5. CASE e \notin History /\ e = Shown(t) /\ pc'[t] \in Late /\ UNCHANGED cur
    BY <2>5 DEF Shown
  <2>6. CASE e \notin History /\ e = ShownPong(t) /\ pc[t] = "log_pong"
    <3>1. t[2] = "s2c" /\ (t[1] \in setup.tls => WrittenOrFailed(Reverse(t), "pong", taken[t], "proxy"))
      BY <2>6 DEF Inv, PongInv, Answered
    <3>2. cur[t].n = taken[t]
      BY <2>6 DEF Inv, HandInv, Hand, Busy
    <3>3. e.dir = Reverse(t) /\ e.op = "pong" /\ e.n = taken[t] /\ e.by = "proxy" /\ e.dir[1] = t[1]
      BY <2>6, <3>1, <3>2 DEF ShownPong, Reverse
    <3>4. t[1] \in setup.tls => WrittenOrFailed(e.dir, e.op, e.n, e.by)
      BY <3>1, <3>3
    <3>. QED BY <1>3, <2>0, <3>3, <3>4
  <2>. HIDE DEF Explained
  <2>. QED BY <1>6, <2>1, <2>2, <2>3, <2>4, <2>5, <2>6, MemoryStep
<1>7. CASE Click \/ Finish
  <2>1. UNCHANGED <<setup, pc, cur>> /\ e \in History
    BY <1>7, WindowStep, HistoryWindowStep DEF Inv, peers
  <2>. HIDE DEF Explained
  <2>. QED BY <1>4, <2>1
<1>8. CASE UNCHANGED vars
  <2>1. UNCHANGED <<setup, pc, cur>> /\ e \in History
    BY <1>8 DEF vars, peers, thread, History
  <2>. HIDE DEF Explained
  <2>. QED BY <1>4, <2>1
<1>. HIDE DEF Explained
<1>. QED BY <1>5, <1>6, <1>7, <1>8 DEF Next

-----------------------------------------------------------------------------
(* The invariant, and the properties *)

LEMMA InitEstablishesInv == Init => Inv
<1>. SUFFICES ASSUME Init PROVE Inv
  OBVIOUS
<1>. USE DEF Init
<1>1. TypeOK
  <2>1. [op |-> "data", n |-> 1, masked |-> FALSE, by |-> "peer"] \in Frames
    BY FramesAssumption DEF Frames, Ops
  <2>2. /\ <<>> \in Seq(Frames) /\ <<>> \in Seq(Entries) /\ Len(<<>>) = 0
        /\ 0 <= MaxFrames /\ 0 \in 0 .. MaxFrames
    BY FramesAssumption
  <2>3. pc \in [Threads -> Places]
    BY DEF Places
  <2>4. /\ setup \in Setups /\ sent \in [Threads -> Seq(Frames)]
        /\ \A t \in Threads : Len(sent[t]) <= MaxFrames
        /\ gone \in [Threads -> BOOLEAN] /\ wire \in [Threads -> Seq(Frames)]
        /\ taken \in [Threads -> 0 .. MaxFrames] /\ cur \in [Threads -> Frames]
    BY <2>1, <2>2
  <2>5. logged \in Seq(Entries) /\ repeated \in 0 .. MaxFrames
    BY <2>2
  <2>. QED BY <2>3, <2>4, <2>5 DEF TypeOK
<1>2. /\ \A t \in Threads : Len(sent[t]) = 0 /\ Len(wire[t]) = 0 /\ DOMAIN wire[t] = {} /\ taken[t] = 0
      /\ Len(logged) = 0 /\ DOMAIN logged = {}
  OBVIOUS
<1>3. SentInv /\ HandInv
  BY <1>2 DEF SentInv, HandInv, Hand, Busy
<1>4. DecisionInv /\ PendingInv
  BY SlotIntro DEF DecisionInv, Decision, Busy, PendingInv
<1>5. WireInv /\ LoggedInv /\ LoggedOrder /\ SeenInv /\ ClearInv /\ PongInv
  BY <1>2 DEF WireInv, OnWire, LoggedInv, LoggedOrder, History, SeenInv, Seen, Late, ClearInv, PongInv, Answered
<1>6. RelayedInOrder /\ NothingIsLost /\ HistoryIsComplete /\ HistoryIsTruthful
  BY <1>2 DEF RelayedInOrder, NothingIsLost, HistoryIsComplete, HistoryIsTruthful, History
<1>. QED BY <1>1, <1>3, <1>4, <1>5, <1>6 DEF Inv

\* The invariant holds in every state.
THEOREM Invariance == Spec => []Inv
<1>1. ASSUME Inv, [Next]_vars PROVE Inv'
  <2>1. TypeOK' /\ SentInv' /\ HandInv'
    BY <1>1, TypeIsKept, SentIsKept, HandIsKept DEF Inv
  <2>2. DecisionInv' /\ PendingInv'
    BY <1>1, DecisionIsKept, PendingIsKept
  <2>3. WireInv' /\ RelayedInOrder' /\ NothingIsLost'
    BY <1>1, WireIsKept, LossIsKept
  <2>4. LoggedInv' /\ LoggedOrder' /\ SeenInv' /\ ClearInv' /\ PongInv'
    BY <1>1, LoggedIsKept, OrderOfHistoryIsKept, SeenIsKept, ClearIsKept, PongIsKept
  <2>5. HistoryIsComplete' /\ HistoryIsTruthful'
    BY <1>1, CompleteIsKept, TruthIsKept
  <2>. QED BY <2>1, <2>2, <2>3, <2>4, <2>5 DEF Inv
<1>. QED BY <1>1, InitEstablishesInv, PTL DEF Spec

\* Every variable keeps its type.
THEOREM TypeCorrect == Spec => []TypeOK
<1>1. Inv => TypeOK
  BY DEF Inv
<1>. QED BY <1>1, Invariance, PTL

\* A frame the user dropped leaves no trace on the wire or in the history, and each
\* waiting thread is told what was decided about its own frame.
THEOREM UserDecides == Spec => []TheUserDecides
<1>1. Inv => TheUserDecides
  <2>. SUFFICES ASSUME Inv, NEW t \in Threads
                PROVE  /\ \A n \in 1 .. MaxFrames : verdict[<<t, n>>] = "Drop" =>
                            /\ ~Relayed(t, n)
                            /\ \A e \in History : ~(e.dir = t /\ e.n = n /\ e.by = "peer")
                       /\ responder[t] = "Drop" => verdict[SlotOf(t)] = "Drop"
                       /\ responder[t] \in Ops => verdict[SlotOf(t)] = "Forward"
    BY DEF TheUserDecides
  <2>1. wire[t] \in Seq(Frames) /\ DOMAIN wire[t] = 1 .. Len(wire[t])
    BY LenProperties DEF Inv, TypeOK
  <2>2. \A n \in 1 .. MaxFrames : verdict[<<t, n>>] = "Drop" => ~Relayed(t, n)
    BY <2>1 DEF Inv, WireInv, OnWire, Relayed
  <2>3. \A n \in 1 .. MaxFrames : verdict[<<t, n>>] = "Drop" =>
           \A e \in History : ~(e.dir = t /\ e.n = n /\ e.by = "peer")
    BY DEF Inv, LoggedInv
  <2>4. pc[t] = "recv" => SlotOf(t) = <<t, taken[t]>>
    BY DEF SlotOf, Inv, HandInv, Hand, Busy
  <2>. QED BY <2>2, <2>3, <2>4 DEF Inv, DecisionInv, Decision, Ops
<1>. QED BY <1>1, Invariance, PTL

\* A thread blocked in recv can always be woken.
THEOREM NoWaiterIsLost == Spec => []NoLostWaiter
<1>1. Inv => NoLostWaiter
  BY DEF Inv, NoLostWaiter, SlotOf, HandInv, Hand, Busy, DecisionInv, Decision
<1>. QED BY <1>1, Invariance, PTL

\* Both directions deliver what their senders sent, in order and without repetition.
THEOREM OrderIsKept == Spec => []RelayedInOrder
<1>1. Inv => RelayedInOrder
  BY DEF Inv
<1>. QED BY <1>1, Invariance, PTL

\* Every frame read is delivered, dropped by the user, or lost in a write that failed.
THEOREM NoFrameIsLost == Spec => []NothingIsLost
<1>1. Inv => NothingIsLost
  BY DEF Inv
<1>. QED BY <1>1, Invariance, PTL

\* The history of a listed tunnel misses nothing that was delivered but the oldest frames,
\* which a full history drains, and the exceptions it names.
THEOREM HistoryMissesNothing == Spec => []HistoryIsComplete
<1>1. Inv => HistoryIsComplete
  BY DEF Inv
<1>. QED BY <1>1, Invariance, PTL

\* What the history shows of a tunnel was written, is about to be, or failed to be, but
\* for the frames of the repeater and the pongs it excepts.
THEOREM HistoryTellsTheTruth == Spec => []HistoryIsTruthful
<1>1. Inv => HistoryIsTruthful
  BY DEF Inv
<1>. QED BY <1>1, Invariance, PTL

\* proxy/websocket/intercept.rs:16, "Do not block heartbeat or closure control frames": a
\* thread that tests the gate, queues a frame or waits for the user has read a data frame.
THEOREM ControlFramesNeverWait ==
    Spec => [](\A t \in Threads :
                  pc[t] \in {"gate", "push", "recv"} => sent[t][taken[t]].op = "data")
<1>. DEFINE OnlyData == \A t \in Threads :
                           pc[t] \in {"gate", "push", "recv"} => sent[t][taken[t]].op = "data"
<1>1. Inv => OnlyData
  BY DEF Inv, HandInv, Hand
<1>. HIDE DEF OnlyData
<1>2. Spec => []OnlyData
  BY <1>1, Invariance, PTL
<1>. QED BY <1>2 DEF OnlyData

\* What the user decided about a frame stays decided: neither a later click on a row, nor
\* "Drop All", nor the flush of the toggle decides it again.
THEOREM FramesAreDecidedOnce ==
    Spec => [][\A s \in Slots : verdict[s] # "none" => verdict'[s] = verdict[s]]_vars
<1>1. Inv /\ [Next]_vars =>
          [\A s \in Slots : verdict[s] # "none" => verdict'[s] = verdict[s]]_vars
  <2>. SUFFICES ASSUME Inv, [Next]_vars, NEW s \in Slots, verdict[s] # "none"
                PROVE  verdict'[s] = verdict[s]
    OBVIOUS
  <2>1. s[1] \in Threads /\ s[2] \in 1 .. MaxFrames /\ s = <<s[1], s[2]>>
    BY SlotFacts
  <2>2. ASSUME NEW S \in SUBSET pending, NEW answer \in {"Drop"} \cup Ops, NEW d \in Decisions,
               Decided(S, answer, d)
        PROVE  verdict'[s] = verdict[s]
    <3>1. verdict[<<s[1], s[2]>>] # "none"
      BY <2>1
    <3>2. <<s[1], s[2]>> \notin pending
      BY <2>1, <3>1 DEF Inv, PendingInv
    <3>3. verdict'[<<s[1], s[2]>>] = verdict[<<s[1], s[2]>>]
      BY <2>1, <2>2, <3>2 DEF Decided
    <3>. QED BY <2>1, <3>3
  <2>3. CASE Click \/ Finish
    BY <2>2, <2>3, WindowStep DEF Inv
  <2>4. ASSUME NEW t \in Threads, PeerSends(t) \/ PeerGoes(t) PROVE UNCHANGED verdict
    BY <2>4, PeerStep DEF Inv
  <2>5. ASSUME NEW t \in Threads, RelayStep(t) PROVE UNCHANGED verdict
    BY <2>5, RelayFrame DEF Inv
  <2>6. CASE UNCHANGED vars
    BY <2>6 DEF vars
  <2>. QED BY <2>3, <2>4, <2>5, <2>6 DEF Next
<1>. QED BY <1>1, Invariance, PTL DEF Spec

-----------------------------------------------------------------------------
(* The refinement of InterceptGate *)

\* At the start every slot of the gate is still expected.
LEMMA InitMapsToGate == Init => Gate!Init
<1>. SUFFICES ASSUME Init, NEW s \in Slots PROVE Stage(s) = "expected"
  BY DEF Gate!Init
<1>1. s[1] \in Threads /\ s[2] \in 1 .. MaxFrames
  BY SlotFacts
<1>2. s[2] > taken[s[1]] /\ ~(s[2] <= taken[s[1]])
  BY <1>1, FramesAssumption DEF Init
<1>. QED BY <1>2 DEF Stage

\* A step that moves the slots of S and no other is a move of the gate.
LEMMA MoveMapsToGate ==
    ASSUME NEW S \in SUBSET Slots, S # {}, NEW from, NEW to,
           \A s \in S : Stage(s) = from /\ Stage(s)' = to,
           \A s \in Slots \ S : Stage(s)' = Stage(s)
    PROVE  Gate!Move(S, from, to)
BY DEF Gate!Move

\* The slots whose frame was neither read, delivered, decided nor told on stay.
LEMMA UnmovedSlot ==
    ASSUME NEW s \in Slots,
           s[2] <= taken'[s[1]] <=> s[2] <= taken[s[1]],
           Relayed(s[1], s[2])' <=> Relayed(s[1], s[2]),
           verdict'[s] = verdict[s],
           \/ Relayed(s[1], s[2])
           \/ verdict[s] = "Forward"
           \/ s[2] = taken'[s[1]] /\ pc'[s[1]] = "recv" <=> s[2] = taken[s[1]] /\ pc[s[1]] = "recv",
           taken[s[1]] \in Nat, taken'[s[1]] \in Nat, s[2] \in Nat,
           verdict[s] \in {"none"} \cup Decisions
    PROVE  Stage(s)' = Stage(s)
<1>1. CASE s[2] > taken[s[1]]
  <2>1. s[2] > taken'[s[1]] /\ ~(s[2] <= taken[s[1]]) /\ ~(s[2] <= taken'[s[1]])
    BY <1>1
  <2>. QED BY <1>1, <2>1 DEF Stage
<1>2. CASE s[2] <= taken[s[1]]
  <2>1. s[2] <= taken'[s[1]] /\ ~(s[2] > taken[s[1]]) /\ ~(s[2] > taken'[s[1]])
    BY <1>2
  <2>2. CASE Relayed(s[1], s[2])
    BY <1>2, <2>1, <2>2 DEF Stage
  <2>3. CASE ~Relayed(s[1], s[2]) /\ verdict[s] = "Forward"
    BY <1>2, <2>1, <2>3 DEF Stage
  <2>4. CASE ~Relayed(s[1], s[2]) /\ verdict[s] = "Drop"
    BY <1>2, <2>1, <2>4 DEF Stage
  <2>5. CASE ~Relayed(s[1], s[2]) /\ verdict[s] = "none"
    BY <1>2, <2>1, <2>5 DEF Stage
  <2>. QED BY <2>2, <2>3, <2>4, <2>5 DEF Decisions
<1>. QED BY <1>1, <1>2

\* Only a thread that writes the frame in its hand relays one.
LEMMA RelayedStep ==
    ASSUME Inv, NEW t \in Threads, RelayStep(t), NEW r \in Threads, NEW n
    PROVE  \/ Relayed(r, n)' <=> Relayed(r, n)
           \/ /\ r = t /\ n = taken[t] /\ Relayed(r, n)'
              /\ pc[t] \in {"write", "relay_close"} /\ pc'[t] \in {"loop", "done"}
<1>0. /\ DOMAIN wire[r] = 1 .. Len(wire[r]) /\ DOMAIN wire'[r] = 1 .. Len(wire'[r])
      /\ Len(wire[r]) \in Nat
  <2>1. TypeOK'
    BY TypeIsKept DEF Inv, Next
  <2>2. wire[r] \in Seq(Frames) /\ wire'[r] \in Seq(Frames)
    BY <2>1 DEF Inv, TypeOK
  <2>. QED BY <2>2, LenProperties
<1>1. CASE UNCHANGED wire
  BY <1>1 DEF Relayed
<1>2. ASSUME NEW q \in Threads, NEW f, Delivered(q, f)
      PROVE  Relayed(r, n)' <=> Relayed(r, n) \/ (r = q /\ f.by = "peer" /\ f.n = n)
  <2>1. CASE r # q
    BY <1>2, <2>1 DEF Delivered, Relayed
  <2>2. CASE r = q
    <3>1. \A i \in DOMAIN wire'[r] : i \in DOMAIN wire[r] \/ i = Len(wire[r]) + 1
      BY <1>0, <1>2, <2>2 DEF Delivered
    <3>2. \A i \in DOMAIN wire[r] : i \in DOMAIN wire'[r] /\ wire'[r][i] = wire[r][i]
      BY <1>0, <1>2, <2>2 DEF Delivered
    <3>3. Len(wire[r]) + 1 \in DOMAIN wire'[r] /\ wire'[r][Len(wire[r]) + 1] = f
      BY <1>0, <1>2, <2>2 DEF Delivered
    <3>. QED BY <2>2, <3>1, <3>2, <3>3 DEF Relayed
  <2>. QED BY <2>1, <2>2
<1>3. CASE pc[t] \in {"write", "relay_close"} /\ pc'[t] \in {"loop", "done"} /\ Delivered(t, cur[t])
  <2>1. cur[t].n = taken[t]
    BY <1>3 DEF Inv, HandInv, Hand, Busy
  <2>. QED BY <1>2, <1>3, <2>1
<1>4. ASSUME NEW q \in Threads, NEW f, f.by = "proxy", Delivered(q, f)
      PROVE  Relayed(r, n)' <=> Relayed(r, n)
  BY <1>2, <1>4
<1>. QED BY <1>1, <1>3, <1>4, WireStep

\* A relay thread's step moves the frame it works on, or none.
LEMMA RelayMapsToGate ==
    ASSUME Inv, NEW t \in Threads, RelayStep(t)
    PROVE  Gate!Next \/ \A s \in Slots : Stage(s)' = Stage(s)
<1>0. /\ UNCHANGED verdict /\ TypeOK'
      /\ \A s \in Slots : /\ s[1] \in Threads /\ s[2] \in 1 .. MaxFrames /\ s = <<s[1], s[2]>>
                          /\ verdict[s] \in {"none"} \cup Decisions
      /\ \A r \in Threads : taken[r] \in Nat /\ taken'[r] \in Nat
      /\ MaxFrames \in Nat
      /\ \A r \in Threads : r # t => pc'[r] = pc[r] /\ taken'[r] = taken[r]
  <2>1. TypeOK'
    BY TypeIsKept DEF Inv, Next
  <2>2. \A r \in Threads : taken[r] \in Nat /\ taken'[r] \in Nat
    BY <2>1, FramesAssumption DEF Inv, TypeOK
  <2>. QED BY <2>1, <2>2, SlotFacts, RelayFrame, FramesAssumption DEF Inv, TypeOK
\* the slots of other threads, and those of t that are not in hand
<1>1. ASSUME NEW s \in Slots, s[1] = t => s[2] # taken[t] /\ s[2] # taken'[t]
      PROVE  Stage(s)' = Stage(s)
  <2>1. Relayed(s[1], s[2])' <=> Relayed(s[1], s[2])
    BY <1>0, <1>1, RelayedStep
  <2>2. s[2] <= taken'[s[1]] <=> s[2] <= taken[s[1]]
    <3>1. taken'[t] = taken[t] \/ taken'[t] = taken[t] + 1
      BY ProgressStep
    <3>. QED BY <1>0, <1>1, <3>1
  <2>. QED BY <1>0, <1>1, <2>1, <2>2, UnmovedSlot
<1>2. CASE ReadFrame(t)
  <2>1. /\ taken'[t] = taken[t] + 1 /\ pc[t] = "read" /\ pc'[t] # "recv"
        /\ taken[t] + 1 \in 1 .. MaxFrames
    <3>1. cur'[t].op \in Ops /\ pc \in [Threads -> Places] /\ taken \in [Threads -> 0 .. MaxFrames]
            /\ Len(sent[t]) \in 0 .. MaxFrames
      BY <1>0, LenProperties DEF Inv, TypeOK, Frames
    <3>. QED BY <1>0, <1>2, <3>1 DEF ReadFrame, Goto, Ops
  <2>. PICK s \in Slots : s = <<t, taken[t] + 1>>
    BY <2>1, SlotIntro
  <2>2. s[1] = t /\ s[2] = taken[t] + 1 /\ s[2] > taken[t] /\ s[2] # taken[t]
    BY <1>0, <2>1
  <2>3. ~Relayed(t, s[2]) /\ verdict[s] = "none"
    <3>1. DOMAIN wire[t] = 1 .. Len(wire[t])
      BY LenProperties DEF Inv, TypeOK
    <3>2. s[2] \in 1 .. MaxFrames /\ s = <<t, s[2]>>
      BY <1>0, <2>2
    <3>3. verdict[<<t, s[2]>>] = "none"
      BY <2>2, <3>2 DEF Inv, DecisionInv, Decision
    <3>4. ~Relayed(t, s[2])
      BY <1>0, <2>2, <3>1 DEF Inv, WireInv, OnWire, Relayed
    <3>. QED BY <3>2, <3>3, <3>4
  <2>4. ~Relayed(t, s[2])'
    BY <2>2, <2>3, RelayedStep
  <2>5. Stage(s) = "expected"
    <3>. ~(s[2] <= taken[s[1]])
      BY <1>0, <2>2
    <3>. QED BY <2>2 DEF Stage
  <2>6. Stage(s)' = "arrived"
    <3>1. s[2] = taken'[t] /\ ~(s[2] > taken'[t]) /\ s[2] <= taken'[t] /\ verdict'[s] = "none"
      BY <1>0, <2>1, <2>2, <2>3
    <3>2. ~Relayed(s[1], s[2])'
      BY <2>2, <2>4
    <3>. QED BY <2>1, <2>2, <3>1, <3>2 DEF Stage
  <2>7. \A x \in Slots \ {s} : Stage(x)' = Stage(x)
    <3>. TAKE x \in Slots \ {s}
    <3>1. x[1] = t => x[2] # taken[t] + 1
      BY <1>0, <2>2
    <3>2. CASE x[1] = t /\ x[2] = taken[t]
      <4>1. Relayed(x[1], x[2])' <=> Relayed(x[1], x[2])
        BY <1>0, <2>1, RelayedStep
      <4>. QED BY <1>0, <2>1, <3>2, <4>1, UnmovedSlot
    <3>3. CASE ~(x[1] = t /\ x[2] = taken[t])
      BY <1>1, <2>1, <3>1, <3>3
    <3>. QED BY <3>2, <3>3
  <2>8. Gate!Move({s}, "expected", "arrived")
    BY <2>5, <2>6, <2>7, MoveMapsToGate
  <2>. QED BY <2>8 DEF Gate!Next, Gate!Arrive
\* in all other steps the frame in hand stays the last one read
<1>3. CASE ~ReadFrame(t) /\ taken'[t] = taken[t] /\ taken[t] \in 1 .. MaxFrames
  <2>. PICK s \in Slots : s = <<t, taken[t]>>
    BY <1>3, SlotIntro
  <2>1. s[1] = t /\ s[2] = taken[t]
    OBVIOUS
  <2>2. \A x \in Slots \ {s} : Stage(x)' = Stage(x)
    BY <1>0, <1>1, <1>3, <2>1
  <2>3. /\ s[2] <= taken[t] /\ ~(s[2] > taken[t]) /\ s[2] <= taken'[t] /\ ~(s[2] > taken'[t])
        /\ s[2] = taken'[t] /\ verdict'[s] = verdict[s]
    BY <1>0, <1>3, <2>1
  <2>4. Busy(t) => ~Relayed(t, s[2])
    <3>1. DOMAIN wire[t] = 1 .. Len(wire[t])
      BY LenProperties DEF Inv, TypeOK
    <3>. QED BY <2>1, <3>1 DEF Inv, WireInv, OnWire, Relayed
  <2>5. CASE PushFrame(t)
    <3>1. pc[t] = "push" /\ pc'[t] = "recv" /\ UNCHANGED wire
      BY <2>5 DEF PushFrame, Goto, Inv, TypeOK, links
    <3>2. ~Relayed(s[1], s[2]) /\ ~Relayed(s[1], s[2])' /\ verdict[s] = "none"
      BY <2>1, <2>4, <3>1 DEF Busy, Relayed, Inv, DecisionInv, Decision
    <3>3. Stage(s) = "arrived" /\ Stage(s)' = "held"
      BY <2>1, <2>3, <3>1, <3>2 DEF Stage
    <3>4. Gate!Move({s}, "arrived", "held")
      BY <2>2, <3>3, MoveMapsToGate
    <3>. QED BY <3>4 DEF Gate!Next, Gate!Hold
  <2>6. CASE ReceiveDrop(t)
    <3>1. pc[t] = "recv" /\ pc'[t] = "loop" /\ UNCHANGED wire
      BY <2>6 DEF ReceiveDrop, Goto, Inv, TypeOK, links
    <3>2. ~Relayed(s[1], s[2]) /\ ~Relayed(s[1], s[2])' /\ verdict[s] = "Drop"
      BY <2>1, <2>4, <2>6, <3>1 DEF Busy, Relayed, Inv, DecisionInv, Decision, ReceiveDrop, Ops
    <3>3. Stage(s) = "rejected" /\ Stage(s)' = "refused"
      BY <2>1, <2>3, <3>1, <3>2 DEF Stage
    <3>4. Gate!Move({s}, "rejected", "refused")
      BY <2>2, <3>3, MoveMapsToGate
    <3>. QED BY <3>4 DEF Gate!Next, Gate!Refuse
  <2>7. CASE ReceiveForward(t)
    <3>1. pc[t] = "recv" /\ UNCHANGED wire /\ verdict[s] = "Forward"
      BY <2>1, <2>7 DEF ReceiveForward, links, Inv, DecisionInv, Decision, Ops
    <3>2. Stage(s)' = Stage(s)
      BY <1>0, <2>1, <2>3, <3>1, UnmovedSlot DEF Relayed
    <3>. QED BY <2>2, <3>2
  <2>8. CASE Relayed(t, s[2])' /\ pc[t] \in {"write", "relay_close"}
    <3>1. ~Relayed(s[1], s[2]) /\ Relayed(s[1], s[2])' /\ verdict[s] \in {"none", "Forward"}
      BY <1>0, <2>1, <2>4, <2>8 DEF Busy, Relayed, Inv, DecisionInv, Decision, Decisions
    <3>2. Stage(s) \in {"arrived", "approved"} /\ Stage(s)' = "sent"
      BY <2>1, <2>3, <2>8, <3>1 DEF Stage
    <3>3. Gate!Move({s}, "arrived", "sent") \/ Gate!Move({s}, "approved", "sent")
      BY <2>2, <3>2, MoveMapsToGate
    <3>. QED BY <3>3 DEF Gate!Next, Gate!Pass, Gate!Send
  <2>9. CASE /\ ~PushFrame(t) /\ ~ReceiveDrop(t) /\ ~ReceiveForward(t)
             /\ ~(Relayed(t, s[2])' /\ pc[t] \in {"write", "relay_close"})
    <3>1. pc[t] # "recv" /\ pc'[t] # "recv"
      <4>1. pc \in [Threads -> Places]
        BY DEF Inv, TypeOK
      <4>. QED BY <1>3, <2>9, <4>1 DEF RelayStep, LoopTop, ReadTimesOut, ReadEof, SetEofStatus,
                  SetCloseStatus, LogControl, WritePong, LogPong, RelayClose, CheckGate, LogData,
                  WriteFrame, Goto
    <3>2. Relayed(s[1], s[2])' <=> Relayed(s[1], s[2])
      BY <2>1, <2>9, RelayedStep
    <3>3. Stage(s)' = Stage(s)
      BY <1>0, <2>1, <2>3, <3>1, <3>2, UnmovedSlot
    <3>. QED BY <2>2, <3>3
  <2>. QED BY <2>5, <2>6, <2>7, <2>8, <2>9
<1>4. CASE ~ReadFrame(t) /\ taken'[t] = taken[t] /\ taken[t] \notin 1 .. MaxFrames
  BY <1>0, <1>1, <1>4
<1>5. ~ReadFrame(t) => taken'[t] = taken[t]
  BY DEF RelayStep, LoopTop, ReadTimesOut, ReadEof, SetEofStatus, SetCloseStatus, LogControl,
     WritePong, LogPong, RelayClose, CheckGate, PushFrame, ReceiveForward, ReceiveDrop, LogData,
     WriteFrame
<1>. QED BY <1>2, <1>3, <1>4, <1>5

\* A click moves the frames it decides, and no other step of a window or a peer moves any.
LEMMA NextMapsToGate ==
    ASSUME Inv, [Next]_vars
    PROVE  [Gate!Next]_[s \in Slots |-> Stage(s)]
<1>0. /\ \A s \in Slots : /\ s[1] \in Threads /\ s[2] \in 1 .. MaxFrames /\ s = <<s[1], s[2]>>
                          /\ verdict[s] \in {"none"} \cup Decisions
      /\ \A r \in Threads : taken[r] \in Nat
  BY SlotFacts, FramesAssumption DEF Inv, TypeOK
<1>1. ASSUME UNCHANGED <<wire, pc, taken, verdict>>
      PROVE  \A s \in Slots : Stage(s)' = Stage(s)
  BY <1>1 DEF Stage, Relayed
<1>2. ASSUME NEW S \in SUBSET pending, NEW answer \in {"Drop"} \cup Ops, NEW d \in Decisions,
             Decided(S, answer, d), UNCHANGED <<wire, pc, taken>>
      PROVE  Gate!Next \/ \A s \in Slots : Stage(s)' = Stage(s)
  <2>1. \A s \in Slots : verdict'[s] = IF s \in S THEN d ELSE verdict[s]
    <3>. TAKE s \in Slots
    <3>1. s[1] \in Threads /\ s[2] \in 1 .. MaxFrames /\ s = <<s[1], s[2]>>
      BY <1>0
    <3>2. verdict'[<<s[1], s[2]>>] = IF <<s[1], s[2]>> \in S THEN d ELSE verdict[<<s[1], s[2]>>]
      BY <1>2, <3>1 DEF Decided
    <3>. QED BY <3>1, <3>2
  <2>2. \A s \in Slots : Relayed(s[1], s[2])' <=> Relayed(s[1], s[2])
    BY <1>2 DEF Relayed
  <2>3. \A s \in Slots \ S : Stage(s)' = Stage(s)
    BY <1>2, <2>1, <2>2 DEF Stage
  <2>4. \A s \in S : Stage(s) = "held" /\ Stage(s)' = IF d = "Forward" THEN "approved" ELSE "rejected"
    <3>. SUFFICES ASSUME NEW s \in S
                  PROVE  Stage(s) = "held"
                           /\ Stage(s)' = IF d = "Forward" THEN "approved" ELSE "rejected"
      OBVIOUS
    <3>1. s \in Slots /\ s \in pending
      BY DEF Inv, TypeOK
    <3>2. s[1] \in Threads /\ pc[s[1]] = "recv" /\ s[2] = taken[s[1]] /\ verdict[s] = "none"
      BY <1>0, <3>1 DEF Inv, PendingInv
    <3>3. ~Relayed(s[1], s[2])
      <4>1. DOMAIN wire[s[1]] = 1 .. Len(wire[s[1]])
        BY <3>2, LenProperties DEF Inv, TypeOK
      <4>. QED BY <3>2, <4>1 DEF Inv, WireInv, OnWire, Relayed, Busy
    <3>4. s[2] <= taken[s[1]] /\ ~(s[2] > taken[s[1]])
      BY <1>0, <3>2
    <3>5. Stage(s) = "held"
      BY <3>2, <3>3, <3>4 DEF Stage
    <3>6. verdict'[s] = d /\ ~Relayed(s[1], s[2])'
      BY <2>1, <2>2, <3>1, <3>3
    <3>7. Stage(s)' = IF d = "Forward" THEN "approved" ELSE "rejected"
      BY <1>2, <3>2, <3>4, <3>6 DEF Stage, Decisions
    <3>. QED BY <3>5, <3>7
  <2>5. CASE S = {}
    BY <2>3, <2>5
  <2>6. CASE S # {}
    <3>1. S \in SUBSET Slots
      BY DEF Inv, TypeOK
    <3>2. Gate!Move(S, "held", "approved") \/ Gate!Move(S, "held", "rejected")
      BY <2>3, <2>4, <2>6, <3>1, MoveMapsToGate
    <3>. QED BY <3>1, <3>2 DEF Gate!Next, Gate!Approve, Gate!Reject
  <2>. QED BY <2>5, <2>6
<1>3. ASSUME NEW t \in Threads, PeerSends(t) \/ PeerGoes(t)
      PROVE  UNCHANGED <<wire, pc, taken, verdict>>
  BY <1>3, PeerStep DEF Inv, links, thread
<1>4. CASE Click \/ Finish
  <2>1. UNCHANGED <<wire, pc, taken>>
    BY <1>4, WindowStep DEF Inv, links
  <2>2. CASE UNCHANGED verdict
    BY <1>1, <2>1, <2>2
  <2>3. CASE \E S \in SUBSET pending, answer \in {"Drop"} \cup Ops, d \in Decisions :
               Decided(S, answer, d)
    BY <1>2, <2>1, <2>3
  <2>. QED BY <1>4, <2>2, <2>3, WindowStep DEF Inv
<1>5. CASE UNCHANGED vars
  BY <1>1, <1>5 DEF vars, links, thread
<1>6. (\A s \in Slots : Stage(s)' = Stage(s)) => UNCHANGED [s \in Slots |-> Stage(s)]
  OBVIOUS
<1>. QED BY <1>1, <1>3, <1>4, <1>5, <1>6, RelayMapsToGate DEF Next

\* Tunnels, queue and windows together implement the abstract gate.
THEOREM TunnelsImplementGate == Spec => ImplementsGate
<1>1. Inv /\ [Next]_vars => [Gate!Next]_[s \in Slots |-> Stage(s)]
  BY NextMapsToGate
<1>. QED BY Invariance, InitMapsToGate, <1>1, PTL DEF Spec, ImplementsGate, Gate!Spec
===============================================================================
