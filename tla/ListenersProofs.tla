---------------------------- MODULE ListenersProofs ----------------------------
(***************************************************************************)
(* Proofs about Listeners for any number of accept threads, any addresses, *)
(* any sharing of ports and any edits: no connection is served once the    *)
(* user has stopped its listener, and the badge tells the truth.           *)
(***************************************************************************)
EXTENDS Listeners, SequenceTheorems, TLAPS

\* A connection that came too late waits only at a thread that was told to stop.
LateInv ==
    \A t \in Threads :
        /\ place[t] = "unborn" => backlog[t] = <<>> /\ stream[t] = None
        /\ running_flag[t] => /\ stream[t] # "late"
                              /\ \A i \in 1 .. Len(backlog[t]) : backlog[t][i] # "late"

\* What the map holds is a thread that listens on that address and serves.
ActiveInv ==
    \A a \in Addrs : active[a] # None =>
        addr[active[a]] = a /\ running_flag[active[a]] /\ Open(active[a])

\* Who has accepted holds a connection, who is to knock knows where.
BusyInv ==
    /\ \A t \in Threads : place[t] \in {"check", "recheck"} => stream[t] \in Calls
    /\ ui = "knock" => target \in Threads

Inv == TypeOK /\ LateInv /\ ActiveInv /\ BusyInv /\ NoServiceAfterStop

\* What the constants are not.
LEMMA Distinct ==
    /\ None \notin Threads /\ None \notin Addrs /\ None \notin Calls
    /\ Default \in Addrs /\ Specifics \subseteq Addrs /\ Wildcards \subseteq Addrs
<1>1. Threads \subseteq Nat
  BY ListenersAssumption DEF Threads
<1>. QED BY <1>1, ListenersAssumption DEF Addrs, Calls

\* The program starts with no threads and no connections.
LEMMA InitEstablishesInv == Init => Inv
<1>. SUFFICES ASSUME Init PROVE Inv
  OBVIOUS
<1>. USE Distinct DEF Init
<1>1. <<>> \in Seq(Calls) /\ Len(<<>>) = 0
  BY EmptySeq
<1>2. config \in Configs
  BY DEF Configs
<1>3. TypeOK
  BY <1>1, <1>2 DEF TypeOK
<1>4. LateInv
  BY <1>1 DEF LateInv, Calls
<1>5. ActiveInv /\ BusyInv
  BY DEF ActiveInv, BusyInv
<1>6. NoServiceAfterStop
  BY DEF NoServiceAfterStop
<1>. QED BY <1>3, <1>4, <1>5, <1>6 DEF Inv

\* Queueing at a socket marks the connection with the thread's flag.
LEMMA QueuedFacts ==
    ASSUME Inv, NEW t \in Threads, Open(t)
    PROVE  /\ Queued(t) \in [Threads -> Seq(Calls)]
           /\ \A u \in Threads \ {t} : Queued(t)[u] = backlog[u]
           /\ running_flag[t] => \A i \in 1 .. Len(Queued(t)[t]) : Queued(t)[t][i] # "late"
<1>. DEFINE call == IF running_flag[t] THEN "early" ELSE "late"
            longer == Append(backlog[t], call)
<1>1. backlog[t] \in Seq(Calls) /\ call \in Calls
  BY DEF Inv, TypeOK, Calls
<1>2. /\ longer \in Seq(Calls) /\ Len(longer) = Len(backlog[t]) + 1
      /\ longer[Len(backlog[t]) + 1] = call
      /\ \A i \in 1 .. Len(backlog[t]) : longer[i] = backlog[t][i]
  BY <1>1, AppendProperties
<1>3. running_flag[t] => \A i \in 1 .. Len(longer) : longer[i] # "late"
  <2>. SUFFICES ASSUME running_flag[t], NEW i \in 1 .. Len(longer) PROVE longer[i] # "late"
    OBVIOUS
  <2>. HIDE DEF longer
  <2>1. Len(backlog[t]) \in Nat
    BY <1>1, LenProperties
  <2>2. i \in 1 .. Len(backlog[t]) \/ i = Len(backlog[t]) + 1
    BY <2>1, <1>2
  <2>. QED BY <1>2, <2>2 DEF Inv, LateInv
<1>4. Queued(t) = [backlog EXCEPT ![t] = longer] \/ Queued(t) = backlog
  BY DEF Queued
<1>. HIDE DEF longer
<1>. QED BY <1>2, <1>3, <1>4 DEF Inv, LateInv, TypeOK

\* A connection reaches sockets that are open.
LEMMA ReachedIsOpen ==
    ASSUME NEW to \in Specifics
    PROVE  \A t \in Reached(to) : t \in Threads /\ Open(t)
BY DEF Reached, Bound

\* A connection queued at an open socket, by anybody, keeps the invariant.
LEMMA QueueingKeepsInv ==
    ASSUME Inv, NEW t \in Threads, Open(t), backlog' = Queued(t),
           UNCHANGED <<config, active, place, addr, running_flag, stream, served>>,
           \/ ui' = ui /\ target' = target
           \/ ui' = "stop" /\ target' = None,
           shared' \in SUBSET Threads
    PROVE  Inv'
<1>. USE QueuedFacts
<1>1. TypeOK'
  BY DEF Inv, TypeOK
<1>2. LateInv'
  <2>. SUFFICES ASSUME NEW u \in Threads
                PROVE  /\ place[u] = "unborn" => backlog'[u] = <<>> /\ stream[u] = None
                       /\ running_flag[u] =>
                            /\ stream[u] # "late"
                            /\ \A i \in 1 .. Len(backlog'[u]) : backlog'[u][i] # "late"
    BY DEF LateInv
  <2>1. CASE u = t
    BY <2>1 DEF Inv, LateInv, Open
  <2>2. CASE u # t
    BY <2>2 DEF Inv, LateInv
  <2>. QED BY <2>1, <2>2
<1>3. ActiveInv' /\ BusyInv' /\ NoServiceAfterStop'
  BY DEF Inv, ActiveInv, BusyInv, NoServiceAfterStop, Open
<1>. QED BY <1>1, <1>2, <1>3 DEF Inv

LEMMA EditKeepsInv ==
    ASSUME Inv, NEW c \in Edits, Edit(c)
    PROVE  Inv'
<1>1. c \in Configs
  BY ListenersAssumption
<1>. QED BY <1>1 DEF Edit, Inv, TypeOK, LateInv, ActiveInv, BusyInv, NoServiceAfterStop, Open

\* A stopped thread leaves the map as its flag goes down.
LEMMA StopKeepsInv ==
    ASSUME Inv, Stop
    PROVE  Inv'
<1>1. UNCHANGED <<config, place, addr, backlog, stream, shared, served>>
  BY DEF Stop, StopFrame
<1>2. CASE ui' = "start" /\ UNCHANGED <<active, running_flag, target>>
  BY <1>1, <1>2 DEF Inv, TypeOK, LateInv, ActiveInv, BusyInv, NoServiceAfterStop, Open
<1>3. ASSUME NEW a \in Addrs, active[a] # None,
             active' = [active EXCEPT ![a] = None],
             running_flag' = [running_flag EXCEPT ![active[a]] = FALSE],
             target' = active[a], ui' = "knock"
      PROVE  Inv'
  <2>1. active[a] \in Threads
    BY <1>3 DEF Inv, TypeOK
  <2>2. \A b \in Addrs \ {a} : active[b] # None => active[b] # active[a]
    BY <1>3 DEF Inv, ActiveInv
  <2>3. TypeOK'
    BY <1>1, <1>3, <2>1 DEF Inv, TypeOK
  <2>4. LateInv'
    BY <1>1, <1>3, <2>1 DEF Inv, TypeOK, LateInv
  <2>5. ActiveInv'
    BY <1>1, <1>3, <2>1, <2>2 DEF Inv, TypeOK, ActiveInv, Open
  <2>6. BusyInv' /\ NoServiceAfterStop'
    BY <1>1, <1>3, <2>1 DEF Inv, BusyInv, NoServiceAfterStop
  <2>. QED BY <2>3, <2>4, <2>5, <2>6 DEF Inv
<1>. QED BY <1>2, <1>3 DEF Stop

\* The knock is a connection like any other.
LEMMA KnockKeepsInv ==
    ASSUME Inv, Knock
    PROVE  Inv'
<1>1. /\ UNCHANGED <<config, active, place, addr, running_flag, stream, served>>
      /\ ui' = "stop" /\ target' = None
  BY DEF Knock, KnockFrame
<1>2. target \in Threads /\ shared' \in SUBSET Threads
  BY DEF Knock, Inv, TypeOK, BusyInv
<1>3. Door(target) \in Specifics
  BY <1>2, ListenersAssumption DEF Door, Inv, TypeOK, Addrs
<1>4. CASE \E t \in Reached(Door(target)) : backlog' = Queued(t)
  BY <1>1, <1>2, <1>3, <1>4, ReachedIsOpen, QueueingKeepsInv
<1>5. CASE UNCHANGED backlog
  BY <1>1, <1>2, <1>5 DEF Inv, TypeOK, LateInv, ActiveInv, BusyInv, NoServiceAfterStop, Open
<1>. QED BY <1>4, <1>5 DEF Knock

\* A new thread has a new socket, with nothing queued.
LEMMA StartKeepsInv ==
    ASSUME Inv, Start
    PROVE  Inv'
<1>1. UNCHANGED <<config, target, backlog, stream, shared, served>> /\ ui' = "frame"
  BY DEF Start, StartFrame
<1>2. CASE UNCHANGED <<active, place, addr, running_flag>>
  BY <1>1, <1>2 DEF Inv, TypeOK, LateInv, ActiveInv, BusyInv, NoServiceAfterStop, Open
<1>3. ASSUME NEW a \in Desired, NEW t \in Threads, active[a] = None, Spawn(t, a),
             active' = [active EXCEPT ![a] = t]
      PROVE  Inv'
  <2>1. a \in Addrs
    BY DEF Desired, Inv, TypeOK, Configs
  <2>2. /\ place[t] = "unborn"
        /\ place' = [place EXCEPT ![t] = "accept"]
        /\ addr' = [addr EXCEPT ![t] = a]
        /\ running_flag' = [running_flag EXCEPT ![t] = TRUE]
    BY <1>3 DEF Spawn
  <2>3. \A b \in Addrs : active[b] # t
    BY <2>2, Distinct DEF Inv, ActiveInv, Open
  <2>4. TypeOK'
    BY <1>1, <1>3, <2>1, <2>2 DEF Inv, TypeOK
  <2>5. LateInv'
    <3>1. backlog[t] = <<>> /\ stream[t] = None /\ None # "late" /\ Len(<<>>) = 0
      BY <2>2, Distinct, EmptySeq DEF Inv, LateInv, Calls
    <3>. SUFFICES ASSUME NEW u \in Threads
                  PROVE  /\ place'[u] = "unborn" => backlog[u] = <<>> /\ stream[u] = None
                         /\ running_flag'[u] =>
                              /\ stream[u] # "late"
                              /\ \A i \in 1 .. Len(backlog[u]) : backlog[u][i] # "late"
      BY <1>1 DEF LateInv
    <3>2. CASE u = t
      BY <2>2, <3>1, <3>2 DEF Inv, TypeOK
    <3>3. CASE u # t
      BY <2>2, <3>3 DEF Inv, TypeOK, LateInv
    <3>. QED BY <3>2, <3>3
  <2>6. ActiveInv'
    BY <1>3, <2>1, <2>2, <2>3 DEF Inv, TypeOK, ActiveInv, Open
  <2>7. BusyInv' /\ NoServiceAfterStop'
    BY <1>1, <2>2 DEF Inv, TypeOK, BusyInv, NoServiceAfterStop
  <2>. QED BY <2>4, <2>5, <2>6, <2>7 DEF Inv
<1>. QED BY <1>2, <1>3 DEF Start

LEMMA ConnectKeepsInv ==
    ASSUME Inv, NEW to \in Specifics, Connect(to)
    PROVE  Inv'
<1>1. UNCHANGED <<config, active, ui, target, place, addr, running_flag, stream, shared, served>>
  BY DEF Connect
<1>2. shared' \in SUBSET Threads
  BY <1>1 DEF Inv, TypeOK
<1>3. PICK t \in Reached(to) : backlog' = Queued(t)
  BY DEF Connect
<1>4. t \in Threads /\ Open(t)
  BY ReachedIsOpen
<1>5. UNCHANGED <<config, active, place, addr, running_flag, stream, served>>
  BY <1>1
<1>6. ui' = ui /\ target' = target
  BY <1>1
<1>. QED BY <1>2, <1>3, <1>4, <1>5, <1>6, QueueingKeepsInv

\* A connection keeps its mark when it is accepted.
LEMMA AcceptKeepsInv ==
    ASSUME Inv, NEW t \in Threads, Accept(t)
    PROVE  Inv'
<1>1. /\ UNCHANGED <<config, active, ui, target, running_flag, addr, shared, served>>
      /\ place[t] = "accept" /\ backlog[t] # <<>>
      /\ stream' = [stream EXCEPT ![t] = Head(backlog[t])]
      /\ backlog' = [backlog EXCEPT ![t] = Tail(backlog[t])]
      /\ place' = [place EXCEPT ![t] = "check"]
  BY DEF Accept, ThreadFrame
<1>2. backlog[t] \in Seq(Calls)
  BY DEF Inv, TypeOK
<1>3. /\ Head(backlog[t]) \in Calls /\ Tail(backlog[t]) \in Seq(Calls)
      /\ Head(backlog[t]) = backlog[t][1]
      /\ Len(Tail(backlog[t])) = Len(backlog[t]) - 1
      /\ \A i \in 1 .. Len(Tail(backlog[t])) : Tail(backlog[t])[i] = backlog[t][i + 1]
      /\ Len(backlog[t]) \in Nat \ {0}
  BY <1>1, <1>2, HeadTailProperties, EmptySeq, LenProperties
<1>4. TypeOK'
  BY <1>1, <1>3 DEF Inv, TypeOK
<1>5. running_flag[t] =>
          /\ Head(backlog[t]) # "late"
          /\ \A i \in 1 .. Len(Tail(backlog[t])) : Tail(backlog[t])[i] # "late"
  BY <1>3 DEF Inv, LateInv
<1>6. LateInv'
  <2>. SUFFICES ASSUME NEW u \in Threads
                PROVE  /\ place'[u] = "unborn" => backlog'[u] = <<>> /\ stream'[u] = None
                       /\ running_flag[u] =>
                            /\ stream'[u] # "late"
                            /\ \A i \in 1 .. Len(backlog'[u]) : backlog'[u][i] # "late"
    BY <1>1 DEF LateInv
  <2>1. CASE u = t
    BY <1>1, <1>5, <2>1 DEF Inv, TypeOK
  <2>2. CASE u # t
    BY <1>1, <2>2 DEF Inv, TypeOK, LateInv
  <2>. QED BY <2>1, <2>2
<1>7. ActiveInv' /\ BusyInv' /\ NoServiceAfterStop'
  BY <1>1, <1>3 DEF Inv, TypeOK, ActiveInv, BusyInv, NoServiceAfterStop, Open
<1>. QED BY <1>4, <1>6, <1>7 DEF Inv

\* A thread that ends was told to stop, so the map does not hold it.
LEMMA LeaveKeepsInv ==
    ASSUME Inv, NEW t \in Threads, Leave(t), ThreadFrame, ~running_flag[t]
    PROVE  Inv'
<1>1. /\ UNCHANGED <<config, active, ui, target, running_flag, served>>
      /\ place' = [place EXCEPT ![t] = "ended"]
      /\ backlog' = [backlog EXCEPT ![t] = <<>>] /\ stream' = [stream EXCEPT ![t] = None]
      /\ addr' = [addr EXCEPT ![t] = Default] /\ shared' = shared \ {t}
  BY DEF Leave, ThreadFrame
<1>2. <<>> \in Seq(Calls) /\ Len(<<>>) = 0
  BY EmptySeq
<1>3. TypeOK'
  BY <1>1, <1>2, Distinct DEF Inv, TypeOK
<1>4. LateInv'
  BY <1>1 DEF Inv, TypeOK, LateInv
<1>5. ActiveInv' /\ BusyInv' /\ NoServiceAfterStop'
  BY <1>1 DEF Inv, TypeOK, ActiveInv, BusyInv, NoServiceAfterStop, Open
<1>. QED BY <1>3, <1>4, <1>5 DEF Inv

LEMMA CheckKeepsInv ==
    ASSUME Inv, NEW t \in Threads, Check(t)
    PROVE  Inv'
<1>1. CASE /\ running_flag[t] /\ place' = [place EXCEPT ![t] = "recheck"] /\ ThreadFrame
           /\ UNCHANGED <<backlog, stream, addr, shared, served>> /\ place[t] = "check"
  BY <1>1 DEF ThreadFrame, Inv, TypeOK, LateInv, ActiveInv, BusyInv, NoServiceAfterStop, Open
<1>. QED BY <1>1, LeaveKeepsInv DEF Check

\* The flag still stands when the connection is handed over, so it came in time.
LEMMA RecheckKeepsInv ==
    ASSUME Inv, NEW t \in Threads, Recheck(t)
    PROVE  Inv'
<1>1. CASE running_flag[t] /\ HandOver(t) /\ ThreadFrame /\ place[t] = "recheck"
  <2>1. /\ UNCHANGED <<config, active, ui, target, running_flag, backlog, addr, shared>>
        /\ place' = [place EXCEPT ![t] = "accept"]
        /\ served' = served \cup {stream[t]} /\ stream' = [stream EXCEPT ![t] = None]
    BY <1>1 DEF HandOver, ThreadFrame
  <2>2. stream[t] # "late" /\ stream[t] \in Calls
    BY <1>1 DEF Inv, LateInv, BusyInv
  <2>3. TypeOK'
    BY <2>1, <2>2 DEF Inv, TypeOK
  <2>4. LateInv'
    BY <2>1, Distinct DEF Inv, TypeOK, LateInv, Calls
  <2>5. ActiveInv' /\ BusyInv'
    BY <2>1 DEF Inv, TypeOK, ActiveInv, BusyInv, Open
  <2>6. NoServiceAfterStop'
    BY <2>1, <2>2 DEF Inv, NoServiceAfterStop
  <2>. QED BY <2>3, <2>4, <2>5, <2>6 DEF Inv
<1>. QED BY <1>1, LeaveKeepsInv DEF Recheck

LEMMA NextKeepsInv == Inv /\ [Next]_vars => Inv'
<1>. SUFFICES ASSUME Inv, [Next]_vars PROVE Inv'
  OBVIOUS
<1>1. CASE SyncStep
  BY <1>1, StopKeepsInv, KnockKeepsInv, StartKeepsInv DEF SyncStep
<1>2. ASSUME NEW t \in Threads, ThreadStep(t) PROVE Inv'
  BY <1>2, AcceptKeepsInv, CheckKeepsInv, RecheckKeepsInv DEF ThreadStep
<1>3. CASE UNCHANGED vars
  BY <1>3 DEF vars, Inv, TypeOK, LateInv, ActiveInv, BusyInv, NoServiceAfterStop, Open
<1>. QED BY <1>1, <1>2, <1>3, EditKeepsInv, ConnectKeepsInv DEF Next

\* The invariant holds in every state the listeners can reach.
THEOREM Invariance == Spec => []Inv
BY InitEstablishesInv, NextKeepsInv, PTL DEF Spec

\* Every variable keeps its type: what is handed over is a connection.
THEOREM TypeCorrect == Spec => []TypeOK
<1>1. Inv => TypeOK
  BY DEF Inv
<1>. QED BY <1>1, Invariance, PTL

\* A connection that came after its listener was stopped is never handed to handle_client.
THEOREM StoppedServesNobody == Spec => []NoServiceAfterStop
<1>1. Inv => NoServiceAfterStop
  BY DEF Inv
<1>. QED BY <1>1, Invariance, PTL

\* "Running" is shown only where a thread listens on the address and serves who connects.
THEOREM BadgeTellsTheTruth == Spec => []BadgeIsTrue
<1>1. Inv => BadgeIsTrue
  <2>. SUFFICES ASSUME Inv, Badge = "Running"
                PROVE  \E t \in Threads : /\ Open(t) /\ running_flag[t]
                                         /\ addr[t] = config.addr
    BY DEF BadgeIsTrue
  <2>1. config.addr # None /\ active[config.addr] # None
    BY DEF Badge
  <2>2. config.addr \in Addrs /\ active[config.addr] \in Threads
    BY <2>1 DEF Inv, TypeOK, Configs
  <2>. QED BY <2>1, <2>2 DEF Inv, ActiveInv
<1>. QED BY <1>1, Invariance, PTL

-----------------------------------------------------------------------------
(* What wakes a thread that was stopped *)

\* A stopped thread does not wait in accept() for nothing.
Woken(t) ==
    \/ place[t] # "accept" \/ running_flag[t]
    \/ backlog[t] # <<>>
    \/ ui = "knock" /\ target = t
    \/ t \in shared

WokenInv == \A t \in Threads : Woken(t)

\* Whoever is reached has a connection queued, be it one that was there before.
LEMMA ReachedHasCalls ==
    ASSUME Inv, NEW t \in Threads, Open(t)
    PROVE  Queued(t)[t] # <<>> /\ \A u \in Threads : backlog[u] # <<>> => Queued(t)[u] # <<>>
<1>1. backlog \in [Threads -> Seq(Calls)] /\ backlog[t] \in Seq(Calls)
  BY DEF Inv, TypeOK
<1>2. \A call \in Calls : Len(Append(backlog[t], call)) = Len(backlog[t]) + 1
  BY <1>1, AppendProperties
<1>3. Len(<<>>) = 0 /\ Len(backlog[t]) \in Nat
  BY <1>1, EmptySeq, LenProperties
<1>4. \A call \in Calls : Append(backlog[t], call) # <<>>
  BY <1>2, <1>3
<1>5. Len(backlog[t]) < Backlog \/ backlog[t] # <<>>
  BY <1>3, ListenersAssumption
<1>6. (IF running_flag[t] THEN "early" ELSE "late") \in Calls
  BY DEF Calls
<1>. QED BY <1>1, <1>4, <1>5, <1>6 DEF Queued

\* Who is stopped is knocked at, and who is knocked at has a connection to accept, unless
\* the knock may have gone to another socket.
LEMMA KnockWakes ==
    ASSUME Inv, WokenInv, Knock
    PROVE  WokenInv'
<1>1. UNCHANGED <<place, running_flag>>
  BY DEF Knock, KnockFrame
<1>2. target \in Threads /\ Door(target) \in Specifics
  BY ListenersAssumption DEF Knock, Door, Inv, TypeOK, BusyInv, Addrs
<1>3. \A u \in Threads : backlog[u] # <<>> => backlog'[u] # <<>>
  BY <1>2, ReachedIsOpen, ReachedHasCalls DEF Knock
<1>4. target \in shared' \/ backlog'[target] # <<>>
  <2>1. CASE Reached(Door(target)) = {target}
    BY <1>2, <2>1, ReachedIsOpen, ReachedHasCalls DEF Knock
  <2>. QED BY <2>1 DEF Knock
<1>5. shared \subseteq shared'
  BY DEF Knock
<1>. QED BY <1>1, <1>3, <1>4, <1>5 DEF WokenInv, Woken

LEMMA NextKeepsWoken == Inv /\ WokenInv /\ [Next]_vars => WokenInv'
<1>. SUFFICES ASSUME Inv, WokenInv, [Next]_vars PROVE WokenInv'
  OBVIOUS
<1>. USE DEF WokenInv, Woken
<1>1. ASSUME NEW c \in Edits, Edit(c) PROVE WokenInv'
  BY <1>1 DEF Edit
<1>2. ASSUME Stop PROVE WokenInv'
  <2>1. UNCHANGED <<place, backlog, shared>> /\ ui = "stop"
    BY <1>2 DEF Stop, StopFrame
  <2>2. CASE UNCHANGED running_flag
    BY <2>1, <2>2
  <2>3. ASSUME NEW a \in Addrs, target' = active[a], ui' = "knock",
               running_flag' = [running_flag EXCEPT ![active[a]] = FALSE]
        PROVE  WokenInv'
    BY <2>1, <2>3 DEF Inv, TypeOK
  <2>. QED BY <1>2, <2>2, <2>3 DEF Stop
<1>3. ASSUME Start PROVE WokenInv'
  <2>1. UNCHANGED <<target, backlog, shared>> /\ ui = "start"
    BY <1>3 DEF Start, StartFrame
  <2>2. CASE UNCHANGED <<place, running_flag>>
    BY <2>1, <2>2
  <2>3. ASSUME NEW a \in Desired, NEW t \in Threads, Spawn(t, a) PROVE WokenInv'
    BY <2>1, <2>3 DEF Spawn, Inv, TypeOK
  <2>. QED BY <1>3, <2>2, <2>3 DEF Start
<1>4. ASSUME NEW to \in Specifics, Connect(to) PROVE WokenInv'
  <2>1. UNCHANGED <<ui, target, place, running_flag, shared>>
    BY <1>4 DEF Connect
  <2>2. \A u \in Threads : backlog[u] # <<>> => backlog'[u] # <<>>
    BY <1>4, ReachedIsOpen, ReachedHasCalls DEF Connect
  <2>. QED BY <2>1, <2>2
<1>5. ASSUME NEW t \in Threads, Accept(t) PROVE WokenInv'
  BY <1>5 DEF Accept, ThreadFrame, Inv, TypeOK
<1>6. ASSUME NEW t \in Threads, Leave(t), ThreadFrame PROVE WokenInv'
  <2>. SUFFICES ASSUME NEW u \in Threads PROVE Woken(u)'
    OBVIOUS
  <2>1. CASE u = t
    BY <1>6, <2>1 DEF Leave, Inv, TypeOK
  <2>2. CASE u # t
    BY <1>6, <2>2 DEF Leave, ThreadFrame, Inv, TypeOK
  <2>. QED BY <2>1, <2>2
<1>7. ASSUME NEW t \in Threads, Check(t) PROVE WokenInv'
  <2>1. CASE running_flag[t]
    BY <1>7, <2>1, <1>6 DEF Check, ThreadFrame, Inv, TypeOK
  <2>. QED BY <1>6, <1>7, <2>1 DEF Check
<1>8. ASSUME NEW t \in Threads, Recheck(t) PROVE WokenInv'
  <2>1. CASE running_flag[t] /\ HandOver(t) /\ ThreadFrame
    BY <2>1 DEF HandOver, ThreadFrame, Inv, TypeOK
  <2>. QED BY <1>6, <1>8, <2>1 DEF Recheck
<1>9. CASE UNCHANGED vars
  BY <1>9 DEF vars
<1>. QED BY <1>1, <1>2, <1>3, <1>4, <1>5, <1>7, <1>8, <1>9, KnockWakes
         DEF Next, SyncStep, ThreadStep

\* A thread that was stopped never waits in accept() with nothing to wake it: it is about to
\* be knocked at or has a connection queued, unless the knock may have gone to another socket.
\* So what StoppedSocketsClose promises takes no more than a thread that goes on running.
THEOREM StoppedThreadsAreWoken ==
    Spec => [](\A t \in Threads :
                  place[t] = "accept" /\ ~running_flag[t] /\ t \notin shared
                    => backlog[t] # <<>> \/ (ui = "knock" /\ target = t))
<1>. DEFINE Awake == \A t \in Threads :
                        place[t] = "accept" /\ ~running_flag[t] /\ t \notin shared
                          => backlog[t] # <<>> \/ (ui = "knock" /\ target = t)
<1>1. Init => WokenInv
  BY DEF Init, WokenInv, Woken
<1>2. WokenInv => Awake
  BY DEF WokenInv, Woken
<1>. HIDE DEF Awake
<1>3. Spec => []Awake
  BY <1>1, <1>2, NextKeepsWoken, Invariance, PTL DEF Spec
<1>. QED BY <1>3 DEF Awake
=============================================================================
