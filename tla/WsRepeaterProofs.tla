--------------------------- MODULE WsRepeaterProofs ---------------------------
(***************************************************************************)
(* Proofs about WsRepeater, for any connections, bounds and setups: what a *)
(* connection was given is transmitted once and in order, what it receives *)
(* is shown in order, and until a tab is closed a tab's frames go over its *)
(* own connection.                                                         *)
(***************************************************************************)
EXTENDS WsRepeater, ListLemmas

-----------------------------------------------------------------------------
(* The inductive invariant: types *)

Tab      == [who : 1 .. MaxOpened, online : BOOLEAN, log : Seq(Entries)]
Messages == [idx : Positions, conn : Conns, n : 1 .. MaxFrames]

TabsInv == tabs \in Seq(Tab) /\ Len(tabs) \in Positions

\* The window's counters and the table of handles.
WindowInv ==
    /\ setup \in Setups
    /\ opened \in 1 .. MaxOpened
    /\ closes \in 0 .. setup.closes /\ choices \in 0 .. setup.choices
    /\ sends \in 0 .. MaxSends
    /\ ui \in {"idle", "drained", "frame", "connect", "resend"}
    /\ handles \in [Positions -> Conns \cup {None}]

\* A click that connects is for a tab that is still there, and one that sends is still due.
CallInv ==
    /\ calling # 0 => calling \in DOMAIN tabs
    /\ calling # 0 <=> ui \in {"connect", "resend"}
    /\ ui = "resend" => sends < setup.sends

\* The sender threads and their channels.
SenderTypes ==
    /\ owner \in [Conns -> 0 .. MaxOpened]
    /\ sender \in [Conns -> {"none", "idle", "write", "ended"}]
    /\ chan \in [Conns -> Seq(Sends)] /\ hand \in [Conns -> Seq(Sends)]
    /\ written \in [Conns -> Seq(Sends)] /\ queued \in [Conns -> Seq(Sends)]
    /\ gone \in [Conns -> BOOLEAN]

\* The receiver threads and the queues they fill.
ReaderTypes ==
    /\ incoming \in Seq(Messages) /\ disconnects \in Seq(Positions)
    /\ tab_idx \in [Conns -> 0 .. MaxTabs]
    /\ receiver \in [Conns -> {"none", "lock", "reading", "push", "notify", "ended"}]
    /\ received \in [Conns -> 0 .. MaxFrames] /\ served \in [Conns -> 0 .. MaxFrames]

-----------------------------------------------------------------------------
(* The inductive invariant: senders *)

\* A connection that nobody opened sent nothing, and a thread that is not writing
\* has no frame in its hands.
Quiet(c) ==
    /\ owner[c] = 0 => sender[c] = "none" /\ written[c] = <<>>
    /\ sender[c] # "write" => hand[c] = <<>>

\* What the channel was given, as long as the server is there and after.
Accounted(c) ==
    IF gone[c] THEN IsPrefix(written[c], queued[c])
               ELSE queued[c] = written[c] \o hand[c] \o chan[c]

QuietInv == \A c \in Conns : Quiet(c)

-----------------------------------------------------------------------------
(* The inductive invariant: readers, logs and owners *)

\* A receiver runs for a connection that was opened for a position, and has read
\* what it is about to push, and no more than was sent; before, nothing was read.
ReaderInv ==
    \A c \in Conns :
        /\ owner[c] = 0 => received[c] = 0
        /\ received[c] <= served[c] /\ served[c] <= setup.frames
        /\ receiver[c] = "push" => received[c] >= 1
        /\ receiver[c] # "none" => owner[c] # 0 /\ tab_idx[c] \in Positions

\* The frames of each connection its receiver has put into the queue.
Pushed == [c \in Conns |-> IF receiver[c] = "push" THEN received[c] - 1 ELSE received[c]]

\* The queue holds frames that were pushed, those of one connection in their order.
QueueInv ==
    /\ \A k \in DOMAIN incoming : incoming[k].n <= Pushed[incoming[k].conn]
    /\ \A j, k \in DOMAIN incoming :
           j < k /\ incoming[j].conn = incoming[k].conn => incoming[j].n < incoming[k].n

\* What LogKeepsOrder says of one log.
InOrder(log) ==
    \A j, k \in DOMAIN log :
        j < k /\ log[j].kind = "received" /\ log[k].kind = "received" /\ log[j].conn = log[k].conn
          => log[j].n < log[k].n

\* A log shows frames up to a mark.
Within(log, mark) ==
    \A k \in DOMAIN log : log[k].kind = "received" => log[k].n <= mark[log[k].conn]

\* A log shows of no connection what is later than something behind position p of a queue.
Before(log, queue, p) ==
    \A k \in DOMAIN log : log[k].kind = "received" =>
        \A j \in DOMAIN queue : j > p /\ queue[j].conn = log[k].conn => log[k].n < queue[j].n

\* A log shows frames sent over connections that belong to who.
Owned(log, who, own) ==
    \A k \in DOMAIN log : log[k].kind = "sent" /\ log[k].conn # None => own[log[k].conn] = who

\* The logs are in order, and so they stay when the queue is put behind them.
LogInv ==
    \A i \in DOMAIN tabs : /\ InOrder(tabs[i].log)
                           /\ Within(tabs[i].log, Pushed)
                           /\ Before(tabs[i].log, incoming, 0)

\* Until a tab is closed, the handle at a position is that of the tab there.
HandlesInv ==
    closes = 0 => \A i \in Positions :
        handles[i] # None => i \in DOMAIN tabs /\ owner[handles[i]] = tabs[i].who

OwnInv == closes = 0 => \A i \in DOMAIN tabs : Owned(tabs[i].log, tabs[i].who, owner)

Types == TabsInv /\ WindowInv /\ SenderTypes /\ ReaderTypes
Inv   == /\ Types /\ CallInv /\ QuietInv /\ FramesAreSentOnceInOrder
         /\ ReaderInv /\ QueueInv /\ LogInv /\ HandlesInv /\ OwnInv

-----------------------------------------------------------------------------
(* Sequences *)

\* What is put behind a prefix leaves it a prefix.
LEMMA PrefixOfConcat ==
    ASSUME NEW S, NEW s \in Seq(S), NEW t \in Seq(S)
    PROVE  IsPrefix(s, s \o t)
<1>1. /\ s \o t \in Seq(S) /\ Len(s \o t) = Len(s) + Len(t)
      /\ \A i \in 1 .. Len(s) : (s \o t)[i] = s[i]
      /\ Len(s) \in Nat /\ Len(t) \in Nat
  BY ConcatProperties, LenProperties
<1>. QED BY <1>1 DEF IsPrefix

LEMMA PrefixGrows ==
    ASSUME NEW S, NEW s \in Seq(S), NEW t \in Seq(S), NEW e \in S, IsPrefix(s, t)
    PROVE  IsPrefix(s, Append(t, e))
BY LenProperties DEF IsPrefix

\* The pieces of a queue can be joined in any order.
LEMMA ThreePieces ==
    ASSUME NEW S, NEW a \in Seq(S), NEW b \in Seq(S), NEW c \in Seq(S)
    PROVE  (a \o b) \o c = a \o (b \o c)
BY ConcatAssociative

\* What is put behind the last piece is put behind the whole.
LEMMA PutBehind ==
    ASSUME NEW S, NEW a \in Seq(S), NEW b \in Seq(S), NEW c \in Seq(S), NEW e \in S
    PROVE  (a \o b) \o Append(c, e) = Append((a \o b) \o c, e)
<1>1. a \o b \in Seq(S) /\ (a \o b) \o c \in Seq(S) /\ <<e>> \in Seq(S)
  BY ConcatProperties
<1>2. Append(c, e) = c \o <<e>> /\ Append((a \o b) \o c, e) = ((a \o b) \o c) \o <<e>>
  BY <1>1, AppendIsConcat
<1>3. ((a \o b) \o c) \o <<e>> = (a \o b) \o (c \o <<e>>)
  BY <1>1, ConcatAssociative
<1>. QED BY <1>2, <1>3

-----------------------------------------------------------------------------
(* Logs *)

LEMMA EntriesAreTyped ==
    /\ \A m \in Messages : AsEntry(m) \in Entries
    /\ \A c \in Conns \cup {None}, n \in Sends : [kind |-> "sent", conn |-> c, n |-> n] \in Entries
    /\ \A c \in Conns \cup {None} : [kind |-> "lost", conn |-> c, n |-> 0] \in Entries
    /\ \A e \in Entries : e.kind = "received" => e.conn \in Conns /\ e.n \in 1 .. MaxFrames
BY DEF AsEntry, Messages, Entries

\* What has to be true of an entry for a log to stay what it is when the entry is
\* put behind it.
LEMMA LogGrows ==
    ASSUME NEW log \in Seq(Entries), NEW e \in Entries
    PROVE  /\ Append(log, e) \in Seq(Entries)
           /\ (/\ InOrder(log)
               /\ e.kind = "received" => \A k \in DOMAIN log :
                      log[k].kind = "received" /\ log[k].conn = e.conn => log[k].n < e.n)
              => InOrder(Append(log, e))
           /\ \A mark : Within(log, mark) /\ (e.kind = "received" => e.n <= mark[e.conn])
                          => Within(Append(log, e), mark)
           /\ \A queue, p :
                 (/\ Before(log, queue, p)
                  /\ e.kind = "received" => \A j \in DOMAIN queue :
                         j > p /\ queue[j].conn = e.conn => e.n < queue[j].n)
                 => Before(Append(log, e), queue, p)
           /\ \A who, own : Owned(log, who, own)
                              /\ (e.kind = "sent" /\ e.conn # None => own[e.conn] = who)
                              => Owned(Append(log, e), who, own)
<1>. DEFINE new == Append(log, e)
<1>1. /\ new \in Seq(Entries) /\ Len(new) = Len(log) + 1
      /\ \A k \in 1 .. Len(log) : new[k] = log[k]
      /\ new[Len(log) + 1] = e
  BY AppendProperties
<1>2. Len(log) \in Nat /\ DOMAIN log = 1 .. Len(log)
  BY LenProperties
<1>3. DOMAIN new = 1 .. Len(log) + 1
  BY <1>1, LenProperties
<1>. HIDE DEF new
<1>4. \A k \in DOMAIN new : \/ k \in DOMAIN log /\ new[k] = log[k]
                            \/ k = Len(log) + 1 /\ new[k] = e
  BY <1>1, <1>2, <1>3
<1>5. \A j, k \in DOMAIN new : j < k => j \in DOMAIN log /\ new[j] = log[j]
  BY <1>1, <1>2, <1>3
<1>6. ASSUME InOrder(log),
             e.kind = "received" => \A k \in DOMAIN log :
                 log[k].kind = "received" /\ log[k].conn = e.conn => log[k].n < e.n
      PROVE  InOrder(new)
  BY <1>4, <1>5, <1>6 DEF InOrder
<1>7. ASSUME NEW mark, Within(log, mark), e.kind = "received" => e.n <= mark[e.conn]
      PROVE  Within(new, mark)
  BY <1>4, <1>7 DEF Within
<1>8. ASSUME NEW queue, NEW p, Before(log, queue, p),
             e.kind = "received" => \A j \in DOMAIN queue :
                 j > p /\ queue[j].conn = e.conn => e.n < queue[j].n
      PROVE  Before(new, queue, p)
  BY <1>4, <1>8 DEF Before
<1>9. ASSUME NEW who, NEW own, Owned(log, who, own),
             e.kind = "sent" /\ e.conn # None => own[e.conn] = who
      PROVE  Owned(new, who, own)
  BY <1>4, <1>9 DEF Owned
<1>. QED BY <1>1, <1>6, <1>7, <1>8, <1>9 DEF new

\* An empty log is whatever a log has to be.
LEMMA EmptyLog ==
    /\ <<>> \in Seq(Entries) /\ InOrder(<<>>)
    /\ \A mark : Within(<<>>, mark)
    /\ \A queue, p : Before(<<>>, queue, p)
    /\ \A who, own : Owned(<<>>, who, own)
<1>1. <<>> \in Seq(Entries) /\ DOMAIN <<>> = {}
  BY EmptySeq
<1>. QED BY <1>1 DEF InOrder, Within, Before, Owned

\* A tab with another log and another opinion on its connection.
Edited(t, b, l) == [who |-> t.who, online |-> b, log |-> l]

LEMMA EditedTab ==
    ASSUME NEW t \in Tab, NEW b \in BOOLEAN, NEW l \in Seq(Entries)
    PROVE  /\ Edited(t, b, l) \in Tab
           /\ Edited(t, b, l).who = t.who /\ Edited(t, b, l).log = l
BY DEF Edited, Tab

\* The tabs with that tab at its position.
Put(ts, i, t) == [ts EXCEPT ![i] = t]

LEMMA PutFacts ==
    ASSUME NEW P, NEW ts \in [P -> Tab], NEW i \in P, NEW t \in Tab
    PROVE  /\ Put(ts, i, t) \in [P -> Tab] /\ Put(ts, i, t)[i] = t
           /\ \A j \in P : j # i => Put(ts, i, t)[j] = ts[j]
BY DEF Put

\* What the window does to a single tab.
WithLog(ts, i, l)    == [ts EXCEPT ![i].log = l]
WithOnline(ts, i, b) == [ts EXCEPT ![i].online = b]

LEMMA LogIsSet ==
    ASSUME NEW P, NEW ts \in [P -> Tab], NEW i \in P, NEW l
    PROVE  WithLog(ts, i, l) = Put(ts, i, Edited(ts[i], ts[i].online, l))
<1>1. [ts[i] EXCEPT !.log = l] = [who |-> ts[i].who, online |-> ts[i].online, log |-> l]
  <2>1. ts[i] \in Tab
    OBVIOUS
  <2>. QED BY <2>1 DEF Tab
<1>. QED BY <1>1 DEF Put, Edited, WithLog

LEMMA OnlineIsSet ==
    ASSUME NEW P, NEW ts \in [P -> Tab], NEW i \in P, NEW b
    PROVE  WithOnline(ts, i, b) = Put(ts, i, Edited(ts[i], b, ts[i].log))
<1>1. [ts[i] EXCEPT !.online = b] = [who |-> ts[i].who, online |-> b, log |-> ts[i].log]
  <2>1. ts[i] \in Tab
    OBVIOUS
  <2>. QED BY <2>1 DEF Tab
<1>. QED BY <1>1 DEF Put, Edited, WithOnline

LEMMA EntryIsLogged ==
    ASSUME NEW P, NEW ts \in [P -> Tab], NEW i \in P, NEW e
    PROVE  LogAt(ts, i, e) = Put(ts, i, Edited(ts[i], ts[i].online, Append(ts[i].log, e)))
<1>. DEFINE l == Append(ts[i].log, e)
<1>1. LogAt(ts, i, e) = [ts EXCEPT ![i].log = l]
  BY DEF LogAt
<1>. HIDE DEF l
<1>2. [ts[i] EXCEPT !.log = l] = [who |-> ts[i].who, online |-> ts[i].online, log |-> l]
  <2>1. ts[i] \in Tab
    OBVIOUS
  <2>. QED BY <2>1 DEF Tab
<1>3. LogAt(ts, i, e) = Put(ts, i, Edited(ts[i], ts[i].online, l))
  BY <1>1, <1>2 DEF Put, Edited
<1>. QED BY <1>3 DEF l

\* A connection opened and used in one click.
LEMMA EntryIsLoggedOnline ==
    ASSUME NEW P, NEW ts \in [P -> Tab], NEW i \in P, NEW b \in BOOLEAN, NEW e
    PROVE  LogAt(WithOnline(ts, i, b), i, e)
             = Put(ts, i, Edited(ts[i], b, Append(ts[i].log, e)))
<1>. DEFINE t == Edited(ts[i], b, ts[i].log)
            u == WithOnline(ts, i, b)
            l == Append(ts[i].log, e)
<1>1. ts[i] \in Tab
  OBVIOUS
<1>2. t \in Tab /\ t.log = ts[i].log /\ t.online = b /\ t.who = ts[i].who
  BY <1>1 DEF Edited, Tab
<1>3. u = Put(ts, i, t)
  BY OnlineIsSet
<1>. HIDE DEF t, u
<1>4. u \in [P -> Tab] /\ u[i] = t
  BY <1>2, <1>3, PutFacts
<1>5. LogAt(u, i, e) = Put(u, i, Edited(t, b, l))
  BY <1>2, <1>4, EntryIsLogged
<1>6. Put(u, i, Edited(t, b, l)) = Put(ts, i, Edited(t, b, l))
  BY <1>3 DEF Put
<1>7. Edited(t, b, l) = Edited(ts[i], b, l)
  BY <1>2 DEF Edited
<1>. QED BY <1>5, <1>6, <1>7 DEF u

\* An entry in the log of one tab leaves the other tabs alone.
LEMMA LogAtIsTyped ==
    ASSUME NEW P, NEW ts \in [P -> Tab], NEW i \in P, NEW e \in Entries
    PROVE  LogAt(ts, i, e) \in [P -> Tab]
<1>1. ts[i] \in Tab
  OBVIOUS
<1>2. Append(ts[i].log, e) \in Seq(Entries) /\ ts[i].online \in BOOLEAN
  BY <1>1, AppendProperties DEF Tab
<1>3. Edited(ts[i], ts[i].online, Append(ts[i].log, e)) \in Tab
  BY <1>1, <1>2, EditedTab
<1>. QED BY <1>3, EntryIsLogged, PutFacts

LEMMA LogAtItself ==
    ASSUME NEW P, NEW ts \in [P -> Tab], NEW i \in P, NEW e \in Entries
    PROVE  LogAt(ts, i, e)[i].log = Append(ts[i].log, e) /\ LogAt(ts, i, e)[i].who = ts[i].who
<1>1. LogAt(ts, i, e)[i] = Edited(ts[i], ts[i].online, Append(ts[i].log, e))
  BY EntryIsLogged DEF Put
<1>. QED BY <1>1 DEF Edited

LEMMA LogAtOthers ==
    ASSUME NEW P, NEW ts \in [P -> Tab], NEW i \in P, NEW e \in Entries, NEW j \in P, j # i
    PROVE  LogAt(ts, i, e)[j] = ts[j]
BY EntryIsLogged DEF Put

-----------------------------------------------------------------------------
(* The loop over the queue *)

\* The tabs after k turns of the loop, for any queue of frames.
Turn(ts, m) == IF m.idx \in DOMAIN tabs THEN LogAt(ts, m.idx, AsEntry(m)) ELSE ts

LEMMA DeliveredUnfolds ==
    ASSUME TabsInv, incoming \in Seq(Messages)
    PROVE  \E f \in [0 .. Len(incoming) -> [DOMAIN tabs -> Tab]] :
               /\ f[0] = tabs /\ Delivered(incoming, DOMAIN tabs) = f[Len(incoming)]
               /\ \A k \in 1 .. Len(incoming) : f[k] = Turn(f[k - 1], incoming[k])
<1>. DEFINE n == Len(incoming)
            D == [DOMAIN tabs -> Tab]
            step == [k \in 1 .. n |-> [ts \in D |-> Turn(ts, incoming[k])]]
            after == CHOOSE f : f = [k \in 0 .. Len(incoming) |->
                IF k = 0 THEN tabs
                ELSE IF incoming[k].idx \in DOMAIN tabs
                       THEN LogAt(f[k - 1], incoming[k].idx, AsEntry(incoming[k]))
                       ELSE f[k - 1]]
<1>1. n \in Nat /\ tabs \in D /\ \A k \in 1 .. n : incoming[k] \in Messages
  BY LenProperties, ElementOfSeq DEF TabsInv
<1>2. Delivered(incoming, DOMAIN tabs) = after[n]
  BY DEF Delivered
<1>. HIDE DEF n
<1>3. step \in [1 .. n -> [D -> D]]
  <2>1. ASSUME NEW k \in 1 .. n, NEW ts \in D PROVE Turn(ts, incoming[k]) \in D
    <3>1. AsEntry(incoming[k]) \in Entries
      BY <1>1, EntriesAreTyped
    <3>. QED BY <3>1, LogAtIsTyped DEF Turn
  <2>. HIDE DEF D
  <2>. QED BY <2>1
<1>4. PICK f : Computes(f, n, D, tabs, step)
  <2>. HIDE DEF step, D
  <2>. QED BY <1>1, <1>3, Recursion
<1>5. f \in [0 .. n -> D] /\ f[0] = tabs /\ \A k \in 1 .. n : f[k] = step[k][f[k - 1]]
  <2>. HIDE DEF step, D
  <2>. QED BY <1>4 DEF Computes
<1>6. ASSUME NEW k \in 1 .. n PROVE f[k] = Turn(f[k - 1], incoming[k])
  <2>1. k - 1 \in 0 .. n
    BY <1>1
  <2>2. f[k - 1] \in D
    BY <1>5, <2>1
  <2>. HIDE DEF D
  <2>. QED BY <1>5, <2>2
<1>. HIDE DEF step, D
<1>7. f = [k \in 0 .. n |-> IF k = 0 THEN tabs
                            ELSE IF incoming[k].idx \in DOMAIN tabs
                                   THEN LogAt(f[k - 1], incoming[k].idx, AsEntry(incoming[k]))
                                   ELSE f[k - 1]]
  <2>1. \A k \in 0 .. n : k # 0 => k \in 1 .. n
    BY <1>1
  <2>. QED BY <1>5, <1>6, <2>1 DEF Turn
<1>8. after = [k \in 0 .. n |-> IF k = 0 THEN tabs
                            ELSE IF incoming[k].idx \in DOMAIN tabs
                                   THEN LogAt(after[k - 1], incoming[k].idx, AsEntry(incoming[k]))
                                   ELSE after[k - 1]]
  BY <1>7 DEF n
<1>. HIDE DEF after
<1>9. after[0] = tabs /\ \A k \in 1 .. n : after[k] = Turn(after[k - 1], incoming[k])
  BY <1>1, <1>8 DEF Turn
<1>. DEFINE P == {k \in 0 .. n : after[k] = f[k]}
<1>10. 0 \in P
  BY <1>1, <1>5, <1>9
<1>11. ASSUME NEW k \in 0 .. n, k \in P, k < n PROVE k + 1 \in P
  <2>1. k + 1 \in 1 .. n /\ (k + 1) - 1 = k /\ after[k] = f[k]
    BY <1>1, <1>11
  <2>2. after[k + 1] = f[k + 1]
    BY <1>6, <1>9, <2>1
  <2>. QED BY <2>1, <2>2
<1>12. n \in P
  <2>1. n \in Nat /\ n \in 0 .. n
    BY <1>1
  <2>. HIDE DEF P
  <2>2. \A k \in 0 .. n : k \in P
    BY <1>10, <1>11, <2>1, Upward
  <2>. QED BY <2>1, <2>2
<1>. QED BY <1>2, <1>5, <1>6, <1>12 DEF n, D

\* What the queue holds is put behind the logs: they stay in order, and afterwards there
\* is nothing left that would have to come before.
LEMMA DeliveredFacts ==
    ASSUME TabsInv, ReaderTypes, QueueInv, LogInv, OwnInv, NEW ts,
           ts = Delivered(incoming, DOMAIN tabs)
    PROVE  /\ ts \in Seq(Tab) /\ Len(ts) = Len(tabs)
           /\ \A i \in DOMAIN tabs : /\ ts[i].who = tabs[i].who
                                     /\ InOrder(ts[i].log) /\ Within(ts[i].log, Pushed)
                                     /\ closes = 0 => Owned(ts[i].log, ts[i].who, owner)
<1>. DEFINE n == Len(incoming)
<1>1. PICK f \in [0 .. n -> [DOMAIN tabs -> Tab]] :
          /\ f[0] = tabs /\ Delivered(incoming, DOMAIN tabs) = f[n]
          /\ \A k \in 1 .. n : f[k] = Turn(f[k - 1], incoming[k])
  BY DeliveredUnfolds DEF ReaderTypes
<1>2. /\ n \in Nat /\ DOMAIN incoming = 1 .. n
      /\ \A k \in 1 .. n : incoming[k] \in Messages
  BY LenProperties, ElementOfSeq DEF ReaderTypes
<1>. HIDE DEF n
<1>. DEFINE Good(t, i, k) == /\ t.who = tabs[i].who
                             /\ InOrder(t.log) /\ Within(t.log, Pushed)
                             /\ Before(t.log, incoming, k)
                             /\ closes = 0 => Owned(t.log, t.who, owner)
            P == {k \in 0 .. n : \A i \in DOMAIN tabs : Good(f[k][i], i, k)}
<1>3. 0 \in P
  BY <1>1, <1>2 DEF LogInv, OwnInv
<1>4. ASSUME NEW k \in 0 .. n, k \in P, k < n PROVE k + 1 \in P
  <2>. DEFINE m == incoming[k + 1]
              e == AsEntry(m)
  <2>1. k + 1 \in 1 .. n /\ (k + 1) - 1 = k
    BY <1>2, <1>4
  <2>2. m \in Messages /\ e \in Entries /\ f[k] \in [DOMAIN tabs -> Tab]
    BY <1>1, <1>2, <2>1, EntriesAreTyped
  <2>3. f[k + 1] = Turn(f[k], m)
    BY <1>1, <2>1
  <2>4. e.kind = "received" /\ e.conn = m.conn /\ e.n = m.n
    BY DEF AsEntry
  <2>5. \A i \in DOMAIN tabs : Good(f[k][i], i, k)
    BY <1>4
  <2>. HIDE DEF m, e
  <2>6. m.n <= Pushed[m.conn]
        /\ \A j \in DOMAIN incoming : j > k + 1 /\ incoming[j].conn = m.conn => m.n < incoming[j].n
    BY <1>2, <2>1 DEF QueueInv, m
  <2>7. ASSUME NEW log, Before(log, incoming, k) PROVE Before(log, incoming, k + 1)
    <3>1. \A j \in DOMAIN incoming : j > k + 1 => j > k
      BY <1>2
    <3>. QED BY <2>7, <3>1 DEF Before
  <2>8. ASSUME NEW i \in DOMAIN tabs PROVE Good(f[k + 1][i], i, k + 1)
    <3>1. CASE m.idx = i
      <4>. DEFINE log == f[k][i].log
      <4>1. f[k][i] \in Tab
        BY <2>2
      <4>2. log \in Seq(Entries)
        BY <4>1 DEF Tab
      <4>3. /\ f[k][i].who = tabs[i].who
            /\ InOrder(log) /\ Within(log, Pushed) /\ Before(log, incoming, k)
            /\ closes = 0 => Owned(log, f[k][i].who, owner)
        BY <2>5
      <4>4. f[k + 1] = LogAt(f[k], i, e)
        BY <2>3, <3>1 DEF Turn, e
      <4>5. i \in DOMAIN tabs /\ LogAt(f[k], i, e)[i].log = Append(f[k][i].log, e)
            /\ LogAt(f[k], i, e)[i].who = f[k][i].who
        BY <2>2, LogAtItself
      <4>6. f[k + 1][i].log = Append(log, e) /\ f[k + 1][i].who = f[k][i].who
        BY <4>4, <4>5
      <4>. HIDE DEF log
      <4>7. \A j \in DOMAIN log : log[j].kind = "received" /\ log[j].conn = e.conn => log[j].n < e.n
        <5>1. k + 1 \in DOMAIN incoming /\ k + 1 > k
          BY <1>2, <2>1
        <5>. QED BY <2>4, <4>3, <5>1 DEF Before, m
      <4>8. InOrder(Append(log, e))
        BY <2>2, <4>2, <4>3, <4>7, LogGrows
      <4>9. Within(Append(log, e), Pushed)
        BY <2>2, <2>4, <2>6, <4>2, <4>3, LogGrows
      <4>10. Before(Append(log, e), incoming, k + 1)
        BY <2>2, <2>4, <2>6, <2>7, <4>2, <4>3, LogGrows
      <4>11. closes = 0 => Owned(Append(log, e), f[k][i].who, owner)
        BY <2>2, <2>4, <4>2, <4>3, LogGrows
      <4>. QED BY <4>3, <4>6, <4>8, <4>9, <4>10, <4>11
    <3>2. CASE m.idx # i
      <4>1. m.idx \in DOMAIN tabs => LogAt(f[k], m.idx, e)[i] = f[k][i]
        BY <2>2, <3>2, LogAtOthers
      <4>2. f[k + 1][i] = f[k][i]
        BY <2>3, <4>1 DEF Turn, e
      <4>. QED BY <2>5, <2>7, <4>2
    <3>. QED BY <3>1, <3>2
  <2>. QED BY <2>1, <2>8
<1>5. n \in P
  <2>1. n \in Nat /\ n \in 0 .. n
    BY <1>2
  <2>. HIDE DEF P
  <2>2. \A k \in 0 .. n : k \in P
    BY <1>3, <1>4, <2>1, Upward
  <2>. QED BY <2>1, <2>2
<1>6. ts = f[n] /\ ts \in [DOMAIN tabs -> Tab] /\ tabs \in Seq(Tab)
  BY <1>1, <1>2 DEF TabsInv
<1>7. ts \in Seq(Tab) /\ Len(ts) = Len(tabs)
  BY <1>6, SameLength
<1>8. \A i \in DOMAIN tabs : Good(f[n][i], i, n)
  BY <1>5
<1>. QED BY <1>6, <1>7, <1>8

-----------------------------------------------------------------------------
(* The tabs *)

\* An entry a click or a lost connection may put into the log of a tab: none that was
\* received, and until a tab is closed one over the tab's own connection.
Fits(e, who) ==
    /\ e \in Entries /\ e.kind # "received"
    /\ closes' = 0 /\ e.kind = "sent" /\ e.conn # None => owner'[e.conn] = who

\* A log that stays, is cleared or gets an entry.
Log(l, t) == \/ l = t.log \/ l = <<>>
             \/ \E e : Fits(e, t.who) /\ l = Append(t.log, e)

Edits(i, b, l) == /\ i \in DOMAIN tabs /\ b \in BOOLEAN /\ Log(l, tabs[i])
                  /\ tabs' = Put(tabs, i, Edited(tabs[i], b, l))
                  /\ UNCHANGED closes
Opens(who, b)  == /\ who \in 1 .. MaxOpened /\ b \in BOOLEAN /\ Len(tabs) < MaxTabs
                  /\ tabs' = Append(tabs, NewTab(who, b))
                  /\ UNCHANGED closes
Closes(i)      == /\ i \in DOMAIN tabs /\ Len(tabs) > 1 /\ closes' = closes + 1
                  /\ tabs' = RemoveAt(tabs, i)

LEMMA TabsByPosition ==
    ASSUME TabsInv
    PROVE  /\ tabs \in [DOMAIN tabs -> Tab] /\ DOMAIN tabs = 1 .. Len(tabs) /\ Len(tabs) \in Nat
           /\ \A i \in DOMAIN tabs : /\ tabs[i] \in Tab /\ tabs[i].who \in 1 .. MaxOpened
                                     /\ tabs[i].online \in BOOLEAN
                                     /\ tabs[i].log \in Seq(Entries)
<1>1. tabs \in [DOMAIN tabs -> Tab] /\ DOMAIN tabs = 1 .. Len(tabs) /\ Len(tabs) \in Nat
  BY LenProperties DEF TabsInv
<1>2. \A i \in DOMAIN tabs : tabs[i] \in Tab
  BY <1>1
<1>. QED BY <1>1, <1>2 DEF Tab

\* The next frame is one of those the user may send.
LEMMA SendIsDue ==
    ASSUME WindowInv, sends < setup.sends
    PROVE  sends + 1 \in Sends
<1>1. setup.sends \in 0 .. MaxSends /\ sends \in 0 .. MaxSends /\ MaxSends \in Nat
  BY SetupsAssumption, BoundsAssumption DEF WindowInv
<1>. QED BY <1>1 DEF Sends

\* How a click that connects ends: the tab it is for is there, and there is a new
\* connection for its position or there is none.
LEMMA CallsEnd ==
    ASSUME Inv, ConnectReturns \/ SendReturns
    PROVE  /\ calling \in DOMAIN tabs /\ calling \in Positions
           /\ UNCHANGED <<closes, incoming, disconnects, hand, written, gone>>
           /\ SendReturns => sends + 1 \in Sends
           /\ \/ ConnectFails
              \/ \E c \in Conns : \E frames \in Seq(Sends) : Connect(calling, c, frames)
<1>1. calling \in DOMAIN tabs
  BY DEF ConnectReturns, SendReturns, Inv, CallInv
<1>2. calling \in Positions
  BY <1>1, TabsByPosition, BoundsAssumption DEF Inv, Types, TabsInv, Positions
<1>3. UNCHANGED <<closes, incoming, disconnects, hand, written, gone>>
  BY DEF ConnectReturns, SendReturns
<1>4. ASSUME SendReturns PROVE sends + 1 \in Sends
  BY <1>4, SendIsDue DEF SendReturns, Inv, Types, CallInv
<1>5. CASE ConnectReturns
  <2>0. <<>> \in Seq(Sends)
    OBVIOUS
  <2>1. PICK frames \in Seq(Sends) : frames = <<>>
    BY <2>0, Zenon
  <2>2. ConnectFails \/ \E c \in Conns : Connect(calling, c, <<>>)
    BY <1>5, Zenon DEF ConnectReturns
  <2>3. ConnectFails \/ \E c \in Conns : Connect(calling, c, frames)
    BY <2>1, <2>2, Zenon
  <2>. QED BY <1>1, <1>2, <1>3, <1>4, <2>3, Zenon
<1>6. CASE SendReturns
  <2>1. PICK n \in Sends : n = sends + 1
    BY <1>4, <1>6
  <2>0. <<n>> \in Seq(Sends)
    OBVIOUS
  <2>2. PICK frames \in Seq(Sends) : frames = <<n>>
    BY <2>0, Zenon
  <2>3. ConnectFails \/ \E c \in Conns : Connect(calling, c, <<sends + 1>>)
    BY <1>6, Zenon DEF SendReturns
  <2>4. ConnectFails \/ \E c \in Conns : Connect(calling, c, frames)
    BY <2>1, <2>2, <2>3, Zenon
  <2>. QED BY <1>1, <1>2, <1>3, <1>4, <2>4, Zenon
<1>. QED BY <1>5, <1>6

\* A frame that is noted in the log of a tab.
Note(c, n) == [kind |-> "sent", conn |-> c, n |-> n]

LEMMA SentIsEdit ==
    ASSUME Inv, UNCHANGED closes, NEW i \in DOMAIN tabs, NEW b \in BOOLEAN,
           NEW c \in Conns \cup {None}, NEW n \in Sends,
           closes' = 0 /\ c # None => owner'[c] = tabs[i].who,
           tabs' = Put(tabs, i, Edited(tabs[i], b, Append(tabs[i].log, Note(c, n))))
    PROVE  \E d, l : Edits(i, d, l)
<1>1. Note(c, n) \in Entries /\ Note(c, n).kind = "sent" /\ Note(c, n).conn = c
  BY EntriesAreTyped DEF Note
<1>2. Fits(Note(c, n), tabs[i].who)
  BY <1>1 DEF Fits
<1>3. Log(Append(tabs[i].log, Note(c, n)), tabs[i])
  BY <1>2 DEF Log
<1>. QED BY <1>3, Zenon DEF Edits

LEMMA SentFromTab ==
    ASSUME Inv, UNCHANGED closes, NEW i \in DOMAIN tabs,
           NEW c \in Conns \cup {None}, NEW n \in Sends,
           closes' = 0 /\ c # None => owner'[c] = tabs[i].who,
           tabs' = LogAt(tabs, i, Note(c, n))
    PROVE  \E d, l : Edits(i, d, l)
<1>1. tabs \in [DOMAIN tabs -> Tab] /\ tabs[i].online \in BOOLEAN
  BY TabsByPosition DEF Inv, Types
<1>2. LogAt(tabs, i, Note(c, n))
        = Put(tabs, i, Edited(tabs[i], tabs[i].online, Append(tabs[i].log, Note(c, n))))
  BY <1>1, EntryIsLogged
<1>. QED BY <1>1, <1>2, SentIsEdit

\* Sending from a tab, over the handle at its position.
LEMMA SendEdits ==
    ASSUME Inv, NEW i \in Positions, ClickSend(i)
    PROVE  UNCHANGED <<tabs, closes>> \/ \E b, l : Edits(i, b, l)
<1>1. /\ i \in DOMAIN tabs /\ UNCHANGED closes
      /\ SendOverHandle(i, sends + 1) \/ UNCHANGED tabs
  BY DEF ClickSend, SendConnecting
<1>2. sends + 1 \in Sends
  BY SendIsDue DEF ClickSend, Inv, Types
<1>. PICK n \in Sends : n = sends + 1
  BY <1>2
<1>3. CASE SendOverHandle(i, n)
  <2>1. handles[i] \in Conns /\ UNCHANGED owner /\ tabs' = LogAt(tabs, i, Note(handles[i], n))
    BY <1>3 DEF SendOverHandle, opening, Note, Inv, Types, WindowInv
  <2>2. closes = 0 => owner[handles[i]] = tabs[i].who
    BY <1>3 DEF SendOverHandle, Inv, HandlesInv
  <2>. QED BY <1>1, <2>1, <2>2, SentFromTab
<1>. QED BY <1>1, <1>3

\* Sending from a tab, once the click has connected or failed to.
LEMMA SendReturnsEdits ==
    ASSUME Inv, SendReturns
    PROVE  \E b, l : Edits(calling, b, l)
<1>1. calling \in DOMAIN tabs /\ UNCHANGED closes /\ sends + 1 \in Sends
  BY CallsEnd
<1>2. PICK i \in DOMAIN tabs : i = calling
  BY <1>1
<1>3. PICK n \in Sends : n = sends + 1
  BY <1>1
<1>4. CASE tabs' = LogAt(tabs, i, Note(None, n))
  BY <1>1, <1>2, <1>4, SentFromTab
<1>5. ASSUME NEW c \in Conns, Connect(i, c, <<n>>),
             tabs' = LogAt([tabs EXCEPT ![i].online = TRUE], i, Note(c, n))
      PROVE  \E b, l : Edits(i, b, l)
  <2>. PICK b \in BOOLEAN : b = TRUE
    OBVIOUS
  <2>1. owner'[c] = tabs[i].who
    BY <1>5 DEF Connect, Inv, Types, SenderTypes
  <2>2. tabs \in [DOMAIN tabs -> Tab]
    BY TabsByPosition DEF Inv, Types
  <2>3. tabs' = LogAt(WithOnline(tabs, i, b), i, Note(c, n))
    BY <1>5 DEF WithOnline
  <2>4. LogAt(WithOnline(tabs, i, b), i, Note(c, n))
          = Put(tabs, i, Edited(tabs[i], b, Append(tabs[i].log, Note(c, n))))
    <3>. DEFINE Q == DOMAIN tabs
    <3>1. i \in Q /\ tabs \in [Q -> Tab]
      BY <2>2
    <3>. HIDE DEF Q
    <3>. QED BY <3>1, EntryIsLoggedOnline
  <2>5. tabs' = Put(tabs, i, Edited(tabs[i], b, Append(tabs[i].log, Note(c, n))))
    BY <2>3, <2>4, Zenon
  <2>. QED BY <1>1, <2>1, <2>5, SentIsEdit
<1>6. \/ tabs' = LogAt(tabs, i, Note(None, n))
      \/ \E c \in Conns : /\ Connect(i, c, <<n>>)
                           /\ tabs' = LogAt([tabs EXCEPT ![i].online = TRUE], i, Note(c, n))
  BY <1>2, <1>3 DEF SendReturns, Note
<1>. QED BY <1>2, <1>4, <1>5, <1>6

\* Connecting, once the click has done so or failed to.
LEMMA ConnectReturnsEdits ==
    ASSUME Inv, ConnectReturns
    PROVE  UNCHANGED <<tabs, closes>> \/ \E b, l : Edits(calling, b, l)
<1>1. calling \in DOMAIN tabs /\ UNCHANGED closes
  BY CallsEnd
<1>2. PICK i \in DOMAIN tabs : i = calling
  BY <1>1
<1>3. PICK b \in BOOLEAN : b = TRUE
  OBVIOUS
<1>4. UNCHANGED tabs \/ tabs' = WithOnline(tabs, i, b)
  BY <1>2, <1>3 DEF ConnectReturns, WithOnline
<1>5. CASE tabs' = WithOnline(tabs, i, b)
  <2>1. tabs \in [DOMAIN tabs -> Tab]
    BY TabsByPosition DEF Inv, Types
  <2>2. WithOnline(tabs, i, b) = Put(tabs, i, Edited(tabs[i], b, tabs[i].log))
    BY <2>1, OnlineIsSet
  <2>3. tabs' = Put(tabs, i, Edited(tabs[i], b, tabs[i].log))
    BY <1>5, <2>2, Zenon
  <2>4. Edits(i, b, tabs[i].log)
    BY <1>1, <2>3, Zenon DEF Edits, Log
  <2>. QED BY <1>2, <2>4
<1>. QED BY <1>1, <1>4, <1>5

\* The other clicks on a tab.
LEMMA ClickEdits ==
    ASSUME Inv, NEW i \in Positions,
           ClickConnect(i) \/ ClickDisconnect(i) \/ ClickClearLog(i) \/ ClickChooseTunnel(i)
    PROVE  UNCHANGED <<tabs, closes>> \/ \E b, l : Edits(i, b, l)
<1>1. i \in DOMAIN tabs /\ UNCHANGED closes
  BY DEF ClickConnect, ClickDisconnect, ClickClearLog, ClickChooseTunnel
<1>2. tabs \in [DOMAIN tabs -> Tab] /\ tabs[i].online \in BOOLEAN
  BY <1>1, TabsByPosition DEF Inv, Types
<1>3. \/ UNCHANGED tabs
      \/ tabs' = WithLog(tabs, i, <<>>)
      \/ \E b \in BOOLEAN : tabs' = WithOnline(tabs, i, b)
  BY DEF WithLog, WithOnline, ClickConnect, ClickDisconnect, ClickClearLog, ClickChooseTunnel
<1>4. CASE tabs' = WithLog(tabs, i, <<>>)
  <2>1. tabs' = Put(tabs, i, Edited(tabs[i], tabs[i].online, <<>>))
    BY <1>1, <1>2, <1>4, LogIsSet
  <2>. QED BY <1>1, <1>2, <2>1 DEF Edits, Log
<1>5. ASSUME NEW b \in BOOLEAN, tabs' = WithOnline(tabs, i, b) PROVE \E c, l : Edits(i, c, l)
  <2>1. WithOnline(tabs, i, b) = Put(tabs, i, Edited(tabs[i], b, tabs[i].log))
    BY <1>1, <1>2, OnlineIsSet
  <2>2. tabs' = Put(tabs, i, Edited(tabs[i], b, tabs[i].log))
    BY <1>5, <2>1, Zenon
  <2>. QED BY <1>1, <2>2, Zenon DEF Edits, Log
<1>. QED BY <1>1, <1>3, <1>4, <1>5

LEMMA StepOnTabs ==
    ASSUME Inv, [Next]_vars
    PROVE  \/ UNCHANGED <<tabs, closes>>
           \/ DrainIncoming \/ DrainDisconnects
           \/ \E i, b, l : Edits(i, b, l)
           \/ \E who, b : Opens(who, b)
           \/ \E i : Closes(i)
<1>1. ASSUME NEW c \in Conns, ServerSends(c) \/ ServerCloses(c) \/ ReceiverStep(c) \/ SenderStep(c)
      PROVE  UNCHANGED <<tabs, closes>>
  BY <1>1 DEF ServerSends, ServerCloses, ReceiverStep, SenderStep, StartRead, ReadFrame, PushIncoming,
              ReadFails, NotifyDisconnect, TakeFrame, WriteFrame, Transmit, SenderEnds, window
<1>2. CASE UNCHANGED vars \/ EndFrame
  BY <1>2 DEF vars, window, EndFrame
<1>3. ASSUME NEW i \in Positions, ClickCloseTab(i) PROVE Closes(i)
  BY <1>3 DEF ClickCloseTab, RemoveTab, Closes
<1>4. CASE ClickNewTab \/ ClickSendToRepeater
  <2>1. opened + 1 \in 1 .. MaxOpened
    <3>1. setup.opened \in 1 .. MaxOpened /\ opened \in 1 .. MaxOpened /\ MaxOpened \in Nat
      BY SetupsAssumption, BoundsAssumption DEF Inv, Types, WindowInv
    <3>2. opened < setup.opened
      BY <1>4 DEF ClickNewTab, ClickSendToRepeater
    <3>. QED BY <3>1, <3>2
  <2>2. Len(tabs) < MaxTabs /\ UNCHANGED closes
        /\ \E b \in BOOLEAN : tabs' = Append(tabs, NewTab(opened + 1, b))
    BY <1>4 DEF ClickNewTab, ClickSendToRepeater
  <2>. QED BY <2>1, <2>2 DEF Opens
<1>. QED BY <1>1, <1>2, <1>3, <1>4, SendEdits, ClickEdits, SendReturnsEdits, ConnectReturnsEdits
         DEF Next, Click, Repaint

\* Where the log of a tab after a step comes from.
Follows(i) == \/ tabs'[i].log = <<>>
              \/ \E j \in DOMAIN tabs : tabs'[i].who = tabs[j].who /\ Log(tabs'[i].log, tabs[j])

\* Tabs that stay where they are.
Stays == \A i \in DOMAIN tabs : i \in DOMAIN tabs' /\ tabs'[i].who = tabs[i].who

LEMMA FittingLog ==
    ASSUME NEW t \in Tab, NEW l, Log(l, t)
    PROVE  l \in Seq(Entries)
<1>1. t.log \in Seq(Entries)
  BY DEF Tab
<1>2. \A e : Fits(e, t.who) => Append(t.log, e) \in Seq(Entries)
  <2>1. ASSUME NEW e \in Entries PROVE Append(t.log, e) \in Seq(Entries)
    BY <1>1, AppendProperties
  <2>. QED BY <2>1 DEF Fits
<1>. QED BY <1>1, <1>2, EmptyLog DEF Log

LEMMA EditsFollow ==
    ASSUME TabsInv, NEW i, NEW b, NEW l, Edits(i, b, l)
    PROVE  TabsInv' /\ Stays /\ \A j \in DOMAIN tabs' : Follows(j)
<1>. DEFINE t == Edited(tabs[i], b, l)
<1>1. /\ i \in DOMAIN tabs /\ tabs[i] \in Tab /\ b \in BOOLEAN /\ l \in Seq(Entries)
      /\ Log(l, tabs[i]) /\ tabs' = Put(tabs, i, t) /\ tabs \in [DOMAIN tabs -> Tab]
  BY TabsByPosition, FittingLog DEF Edits
<1>2. t \in Tab /\ t.who = tabs[i].who /\ t.log = l
  BY <1>1, EditedTab
<1>. HIDE DEF t
<1>3. tabs' \in [DOMAIN tabs -> Tab] /\ tabs'[i] = t
      /\ \A j \in DOMAIN tabs : j # i => tabs'[j] = tabs[j]
  <2>. DEFINE Q == DOMAIN tabs
  <2>1. i \in Q /\ tabs \in [Q -> Tab]
    BY <1>1
  <2>. HIDE DEF Q
  <2>2. Put(tabs, i, t) \in [Q -> Tab] /\ Put(tabs, i, t)[i] = t
        /\ \A j \in Q : j # i => Put(tabs, i, t)[j] = tabs[j]
    BY <1>2, <2>1, PutFacts
  <2>. QED BY <1>1, <2>2 DEF Q
<1>4. TabsInv'
  BY <1>3, SameLength DEF TabsInv
<1>5. DOMAIN tabs' = DOMAIN tabs
  BY <1>3
<1>6. Stays
  BY <1>2, <1>3, <1>5 DEF Stays
<1>7. ASSUME NEW j \in DOMAIN tabs PROVE Follows(j)
  <2>1. CASE j = i
    BY <1>1, <1>2, <1>3, <2>1 DEF Follows
  <2>2. CASE j # i
    BY <1>3, <2>2 DEF Follows, Log
  <2>. QED BY <2>1, <2>2
<1>. QED BY <1>4, <1>5, <1>6, <1>7

LEMMA OpensFollow ==
    ASSUME TabsInv, NEW who, NEW b, Opens(who, b)
    PROVE  TabsInv' /\ Stays /\ \A j \in DOMAIN tabs' : Follows(j)
<1>. DEFINE t == NewTab(who, b)
<1>1. /\ tabs \in Seq(Tab) /\ Len(tabs) \in Positions /\ Len(tabs) < MaxTabs
      /\ tabs' = Append(tabs, t) /\ MaxTabs \in Nat
  BY BoundsAssumption DEF TabsInv, Opens
<1>2. t \in Tab /\ t.log = <<>>
  BY EmptyLog DEF Opens, NewTab, Tab
<1>. HIDE DEF t
<1>3. /\ tabs' \in Seq(Tab) /\ Len(tabs') = Len(tabs) + 1
      /\ \A j \in 1 .. Len(tabs) : tabs'[j] = tabs[j]
      /\ tabs'[Len(tabs) + 1] = t
  BY <1>1, <1>2, AppendProperties
<1>4. DOMAIN tabs = 1 .. Len(tabs) /\ DOMAIN tabs' = 1 .. Len(tabs) + 1 /\ Len(tabs) \in Nat
  BY <1>1, <1>3, LenProperties
<1>5. TabsInv'
  BY <1>1, <1>3, <1>4 DEF TabsInv, Positions
<1>6. Stays
  BY <1>3, <1>4 DEF Stays
<1>7. ASSUME NEW j \in DOMAIN tabs' PROVE Follows(j)
  <2>1. CASE j \in DOMAIN tabs
    BY <1>3, <1>4, <2>1 DEF Follows, Log
  <2>2. CASE j = Len(tabs) + 1
    BY <1>2, <1>3, <2>2 DEF Follows
  <2>. QED BY <1>4, <2>1, <2>2
<1>. QED BY <1>5, <1>6, <1>7

LEMMA ClosesFollow ==
    ASSUME TabsInv, NEW i, Closes(i)
    PROVE  TabsInv' /\ \A j \in DOMAIN tabs' : Follows(j)
<1>1. /\ tabs \in Seq(Tab) /\ Len(tabs) \in Positions /\ Len(tabs) > 1
      /\ tabs' = RemoveAt(tabs, i) /\ MaxTabs \in Nat
  BY BoundsAssumption DEF TabsInv, Closes
<1>2. DOMAIN tabs = 1 .. Len(tabs) /\ Len(tabs) \in Nat /\ i \in 1 .. Len(tabs)
  BY <1>1, LenProperties DEF Closes
<1>3. /\ tabs' \in Seq(Tab) /\ Len(tabs') = Len(tabs) - 1
      /\ \A j \in 1 .. Len(tabs) - 1 : tabs'[j] = IF j < i THEN tabs[j] ELSE tabs[j + 1]
  BY <1>1, <1>2, RemoveAtFacts
<1>4. DOMAIN tabs' = 1 .. Len(tabs) - 1
  BY <1>3, LenProperties
<1>5. TabsInv'
  BY <1>1, <1>2, <1>3 DEF TabsInv, Positions
<1>6. ASSUME NEW j \in DOMAIN tabs' PROVE Follows(j)
  <2>1. j \in DOMAIN tabs /\ j + 1 \in DOMAIN tabs /\ (tabs'[j] = tabs[j] \/ tabs'[j] = tabs[j + 1])
    BY <1>2, <1>3, <1>4
  <2>. QED BY <2>1 DEF Follows, Log
<1>. QED BY <1>5, <1>6

\* A connection that is lost is noted in the log of its tab.
LEMMA LostFollow ==
    ASSUME TabsInv, WindowInv, DrainDisconnects
    PROVE  TabsInv' /\ Stays /\ \A j \in DOMAIN tabs' : Follows(j)
<1>1. /\ DOMAIN tabs' = DOMAIN tabs /\ Lost \subseteq DOMAIN tabs
      /\ \A i \in DOMAIN tabs \ Lost : tabs'[i] = tabs[i]
      /\ tabs' = [i \in DOMAIN tabs |-> tabs'[i]]
  BY DEF DrainDisconnects, MarkLost, Lost
<1>2. ASSUME NEW i \in Lost
      PROVE  tabs'[i] \in Tab /\ tabs'[i].who = tabs[i].who /\ Log(tabs'[i].log, tabs[i])
  <2>. DEFINE e == [kind |-> "lost", conn |-> handles[i], n |-> 0]
              l == Append(tabs[i].log, e)
  <2>. PICK b \in BOOLEAN : b = FALSE
    OBVIOUS
  <2>1. tabs[i] \in Tab /\ tabs[i].log \in Seq(Entries) /\ i \in Positions
    BY <1>1, TabsByPosition, BoundsAssumption DEF TabsInv, Positions
  <2>2. e \in Entries /\ e.kind = "lost"
    BY <2>1, EntriesAreTyped DEF WindowInv
  <2>3. tabs'[i] = [tabs[i] EXCEPT !.online = b, !.log = l]
    BY <1>1 DEF DrainDisconnects, MarkLost
  <2>. HIDE DEF e
  <2>4. Fits(e, tabs[i].who)
    BY <2>2 DEF Fits
  <2>5. l \in Seq(Entries) /\ Log(l, tabs[i])
    BY <2>1, <2>2, <2>4, AppendProperties DEF Log
  <2>. HIDE DEF l
  <2>6. tabs'[i] = Edited(tabs[i], b, l)
    BY <2>1, <2>3 DEF Edited, Tab
  <2>. QED BY <2>1, <2>5, <2>6, EditedTab
<1>3. \A i \in DOMAIN tabs : tabs'[i] \in Tab
  BY <1>1, <1>2, TabsByPosition
<1>4. TabsInv'
  <2>1. tabs' \in [DOMAIN tabs -> Tab]
    BY <1>1, <1>3
  <2>. QED BY <2>1, SameLength DEF TabsInv
<1>5. Stays
  BY <1>1, <1>2 DEF Stays
<1>6. \A j \in DOMAIN tabs : Follows(j)
  BY <1>1, <1>2 DEF Follows, Log
<1>. QED BY <1>1, <1>4, <1>5, <1>6

\* What a step does to the tabs and their logs, the loop over the queue apart.
LEMMA TabsAreKept ==
    ASSUME Inv, [Next]_vars
    PROVE  /\ TabsInv'
           /\ closes' = 0 => closes = 0 /\ Stays
           /\ DrainIncoming \/ \A j \in DOMAIN tabs' : Follows(j)
<1>0. TabsInv /\ WindowInv /\ closes \in Nat
  BY SetupsAssumption DEF Inv, Types, WindowInv
<1>1. CASE UNCHANGED <<tabs, closes>>
  BY <1>0, <1>1 DEF TabsInv, Stays, Follows, Log
<1>2. CASE DrainIncoming
  <2>1. tabs' = Delivered(incoming, DOMAIN tabs) /\ closes' = closes
    BY <1>2 DEF DrainIncoming
  <2>2. /\ tabs' \in Seq(Tab) /\ Len(tabs') = Len(tabs)
        /\ \A i \in DOMAIN tabs : tabs'[i].who = tabs[i].who
    BY <2>1, DeliveredFacts DEF Inv, Types
  <2>3. DOMAIN tabs' = DOMAIN tabs
    BY <1>0, <2>2, LenProperties DEF TabsInv
  <2>. QED BY <1>0, <1>2, <2>1, <2>2, <2>3 DEF TabsInv, Stays
<1>3. CASE DrainDisconnects
  BY <1>0, <1>3, LostFollow DEF DrainDisconnects, MarkLost
<1>4. ASSUME NEW i, NEW b, NEW l, Edits(i, b, l)
      PROVE  TabsInv' /\ Stays /\ UNCHANGED closes /\ \A j \in DOMAIN tabs' : Follows(j)
  BY <1>0, <1>4, EditsFollow DEF Edits
<1>5. ASSUME NEW who, NEW b, Opens(who, b)
      PROVE  TabsInv' /\ Stays /\ UNCHANGED closes /\ \A j \in DOMAIN tabs' : Follows(j)
  BY <1>0, <1>5, OpensFollow DEF Opens
<1>6. ASSUME NEW i, Closes(i)
      PROVE  TabsInv' /\ closes' # 0 /\ \A j \in DOMAIN tabs' : Follows(j)
  BY <1>0, <1>6, ClosesFollow DEF Closes
<1>. QED BY <1>1, <1>2, <1>3, <1>4, <1>5, <1>6, StepOnTabs
-----------------------------------------------------------------------------
(* The window and the senders *)

LEMMA CallsAreDue ==
    ASSUME Inv, SendReturns
    PROVE  sends < setup.sends
BY DEF SendReturns, Inv, CallInv

\* While a click connects nothing else happens in the window.
LEMMA CallsAreKept ==
    ASSUME Inv, [Next]_vars
    PROVE  CallInv'
<1>0. CallInv /\ ui \in {"idle", "drained", "frame", "connect", "resend"}
  BY DEF Inv, Types, WindowInv
<1>1. CASE UNCHANGED <<window, setup>>
  BY <1>0, <1>1 DEF window, CallInv
<1>2. CASE ConnectReturns \/ SendReturns
  <2>1. calling' = 0 /\ ui' = "idle"
    BY <1>2 DEF ConnectReturns, SendReturns, Return
  <2>. QED BY <2>1 DEF CallInv
<1>3. ASSUME NEW i \in Positions, ClickConnect(i) \/ (SendConnecting(i) /\ ClickSend(i))
      PROVE  CallInv'
  <2>1. /\ i \in DOMAIN tabs /\ calling' = i /\ UNCHANGED <<tabs, sends, setup>>
        /\ ui' = "connect" \/ (ui' = "resend" /\ sends < setup.sends)
    BY <1>3 DEF ClickConnect, ClickSend, SendConnecting, Call, Threads, opening
  <2>2. i # 0
    BY BoundsAssumption DEF Positions
  <2>. QED BY <2>1, <2>2 DEF CallInv
<1>4. CASE /\ UNCHANGED calling /\ ui \in {"idle", "drained", "frame"}
           /\ ui' \in {"idle", "drained", "frame"}
  BY <1>0, <1>4 DEF CallInv
<1>5. ASSUME NEW c \in Conns, ServerSends(c) \/ ServerCloses(c) \/ ReceiverStep(c) \/ SenderStep(c)
      PROVE  UNCHANGED <<window, setup>>
  BY <1>5 DEF ServerSends, ServerCloses, ReceiverStep, SenderStep, StartRead, ReadFrame, PushIncoming,
              ReadFails, NotifyDisconnect, TakeFrame, WriteFrame, Transmit, SenderEnds, opening
<1>6. ASSUME NEW i \in Positions, ClickDisconnect(i) \/ ClickClearLog(i) \/ ClickCloseTab(i)
                                    \/ ClickChooseTunnel(i)
                                    \/ (SendOverHandle(i, sends + 1) /\ ClickSend(i))
      PROVE  /\ UNCHANGED calling /\ ui \in {"idle", "drained", "frame"}
             /\ ui' \in {"idle", "drained", "frame"}
  BY <1>6 DEF ClickDisconnect, ClickClearLog, ClickCloseTab, RemoveTab, ClickChooseTunnel, ClickSend,
              SendOverHandle
<1>7. CASE ClickNewTab \/ ClickSendToRepeater \/ Repaint
  BY <1>4, <1>7 DEF ClickNewTab, ClickSendToRepeater, Repaint, DrainIncoming, DrainDisconnects,
                    MarkLost, EndFrame
<1>8. CASE UNCHANGED vars
  BY <1>1, <1>8 DEF vars, opening
<1>9. \A i \in Positions :
          ClickSend(i) => SendOverHandle(i, sends + 1) \/ SendConnecting(i)
  BY DEF ClickSend
<1>10. ASSUME NEW i \in Positions, Click(i) PROVE CallInv'
  <2>1. CASE ClickSend(i)
    <3>1. CASE SendOverHandle(i, sends + 1)
      BY <1>4, <1>6, <2>1, <3>1
    <3>2. CASE SendConnecting(i)
      BY <1>3, <2>1, <3>2
    <3>. QED BY <1>9, <2>1, <3>1, <3>2
  <2>2. CASE ClickConnect(i)
    BY <1>3, <2>2
  <2>3. CASE ClickDisconnect(i) \/ ClickClearLog(i) \/ ClickCloseTab(i) \/ ClickChooseTunnel(i)
    BY <1>4, <1>6, <2>3
  <2>. QED BY <1>10, <2>1, <2>2, <2>3 DEF Click
<1>11. ASSUME NEW c \in Conns, ServerSends(c) \/ ServerCloses(c) \/ ReceiverStep(c) \/ SenderStep(c)
       PROVE  CallInv'
  BY <1>1, <1>5, <1>11, Zenon
<1>. QED BY <1>2, <1>7, <1>8, <1>10, <1>11 DEF Next

LEMMA WindowIsKept ==
    ASSUME Inv, [Next]_vars
    PROVE  WindowInv'
<1>0. /\ setup.opened \in 1 .. MaxOpened /\ setup.sends \in 0 .. MaxSends
      /\ setup.closes \in Nat /\ setup.choices \in Nat
      /\ MaxOpened \in Nat /\ MaxSends \in Nat
  BY SetupsAssumption, BoundsAssumption DEF Inv, Types, WindowInv
<1>1. UNCHANGED setup
  BY DEF Next, ServerSends, ServerCloses, ReceiverStep, StartRead, ReadFrame, PushIncoming, ReadFails,
         NotifyDisconnect, SenderStep, TakeFrame, WriteFrame, Transmit, SenderEnds, Click,
         ClickConnect, ClickDisconnect, ClickSend, SendOverHandle, SendConnecting, ConnectReturns,
         SendReturns, Connect, ConnectFails,
         ClickClearLog, ClickCloseTab, RemoveTab, ClickChooseTunnel, ClickNewTab,
         ClickSendToRepeater, Repaint, DrainIncoming, DrainDisconnects, MarkLost, EndFrame,
         Threads, opening, vars
<1>2. /\ UNCHANGED opened \/ (opened' = opened + 1 /\ opened < setup.opened)
      /\ UNCHANGED closes \/ (closes' = closes + 1 /\ closes < setup.closes)
      /\ UNCHANGED choices \/ (choices' = choices + 1 /\ choices < setup.choices)
      /\ UNCHANGED sends \/ (sends' = sends + 1 /\ sends < setup.sends)
      /\ ui' \in {"idle", "drained", "frame", "connect", "resend"}
  BY CallsAreDue DEF Next, ServerSends, ServerCloses, ReceiverStep, StartRead, ReadFrame, PushIncoming, ReadFails,
         NotifyDisconnect, SenderStep, TakeFrame, WriteFrame, Transmit, SenderEnds, Click,
         ClickConnect, ClickDisconnect, ClickSend, SendOverHandle, SendConnecting, ConnectReturns,
         SendReturns, Call, Return, ClickClearLog, ClickCloseTab, RemoveTab,
         ClickChooseTunnel, ClickNewTab, ClickSendToRepeater, Repaint, DrainIncoming,
         DrainDisconnects, MarkLost, EndFrame, window, vars, Inv, Types, WindowInv
<1>3. handles' \in [Positions -> Conns \cup {None}]
  BY DEF Next, ServerSends, ServerCloses, ReceiverStep, StartRead, ReadFrame, PushIncoming, ReadFails,
         NotifyDisconnect, SenderStep, TakeFrame, WriteFrame, Transmit, SenderEnds, Click,
         ClickConnect, ClickDisconnect, ClickSend, SendOverHandle, SendConnecting, ConnectReturns,
         SendReturns, Connect, ConnectFails,
         ClickClearLog, ClickCloseTab, RemoveTab, ClickChooseTunnel, ClickNewTab,
         ClickSendToRepeater, Repaint, DrainIncoming, DrainDisconnects, MarkLost, EndFrame,
         tables, vars, Inv, Types, WindowInv
<1>4. opened' \in 1 .. MaxOpened /\ sends' \in 0 .. MaxSends
  BY <1>0, <1>2 DEF Inv, Types, WindowInv
<1>5. closes' \in 0 .. setup.closes /\ choices' \in 0 .. setup.choices
  BY <1>0, <1>2 DEF Inv, Types, WindowInv
<1>. QED BY <1>1, <1>2, <1>3, <1>4, <1>5 DEF WindowInv, Inv, Types

\* The three ways the channels and the connections change: a connection is opened
\* with what its channel holds from the start, a frame is put into a channel, or a
\* thread takes, writes or ends; the servers may go.
Dials(c, frames) ==
    /\ owner[c] = 0 /\ owner' \in [Conns -> 0 .. MaxOpened] /\ owner'[c] # 0
    /\ \A d \in Conns \ {c} : owner'[d] = owner[d]
    /\ frames \in Seq(Sends)
    /\ sender' = [sender EXCEPT ![c] = "idle"]
    /\ chan' = [chan EXCEPT ![c] = frames]
    /\ queued' = [queued EXCEPT ![c] = frames]
    /\ UNCHANGED <<hand, written, gone>>

Puts(c, n) ==
    /\ n \in Sends
    /\ chan' = [chan EXCEPT ![c] = Append(@, n)]
    /\ queued' = [queued EXCEPT ![c] = Append(@, n)]
    /\ UNCHANGED <<owner, sender, hand, written, gone>>

Untouched == UNCHANGED <<owner, writing, written, gone, queued>>

LEMMA StepOnChannels ==
    ASSUME Inv, [Next]_vars
    PROVE  \/ Untouched
           \/ \E c \in Conns : ServerCloses(c) \/ SenderStep(c)
           \/ \E c \in Conns : \E frames : Dials(c, frames)
           \/ \E c \in Conns, n \in Sends : Puts(c, n)
<1>1. ASSUME NEW c \in Conns, ServerSends(c) \/ ReceiverStep(c) PROVE Untouched
  BY <1>1 DEF ServerSends, ReceiverStep, StartRead, ReadFrame, PushIncoming, ReadFails,
              NotifyDisconnect, Untouched, opening, writing, servers
<1>2. ASSUME NEW i \in Positions, ClickDisconnect(i) \/ ClickClearLog(i) \/ ClickCloseTab(i)
                                    \/ ClickChooseTunnel(i)
      PROVE  Untouched
  BY <1>2 DEF ClickDisconnect, ClickClearLog, ClickCloseTab, RemoveTab, ClickChooseTunnel, Untouched,
              Threads, opening, writing, servers
<1>3. CASE ClickNewTab \/ ClickSendToRepeater \/ Repaint \/ UNCHANGED vars
  BY <1>3 DEF ClickNewTab, ClickSendToRepeater, Repaint, DrainIncoming, DrainDisconnects, MarkLost,
              EndFrame, Untouched, Threads, opening, writing, servers, vars
<1>4. CASE ConnectReturns \/ SendReturns
  <2>1. calling \in DOMAIN tabs /\ UNCHANGED <<hand, written, gone>>
    BY <1>4, CallsEnd
  <2>2. tabs[calling].who \in 1 .. MaxOpened
    BY <2>1, TabsByPosition DEF Inv, Types
  <2>3. CASE ConnectFails
    BY <2>1, <2>3 DEF ConnectFails, Untouched, opening, writing
  <2>4. ASSUME NEW c \in Conns, NEW frames \in Seq(Sends), Connect(calling, c, frames)
        PROVE  Dials(c, frames)
    BY <2>1, <2>2, <2>4 DEF Connect, Dials, Inv, Types, SenderTypes
  <2>. QED BY <1>4, <2>3, <2>4, CallsEnd
<1>5. ASSUME NEW i \in Positions, ClickConnect(i)
      PROVE  Untouched
  BY <1>5 DEF ClickConnect, Untouched, Threads, opening, writing, servers
<1>6. ASSUME NEW i \in Positions, ClickSend(i)
      PROVE  \/ Untouched
             \/ \E c \in Conns, n \in Sends : Puts(c, n)
  <2>1. i \in DOMAIN tabs /\ UNCHANGED <<hand, written, gone>>
    BY <1>6 DEF ClickSend
  <2>2. sends + 1 \in Sends
    BY <1>6, SendIsDue DEF ClickSend, Inv, Types
  <2>. PICK n \in Sends : n = sends + 1
    BY <2>2
  <2>3. CASE SendOverHandle(i, n)
    <3>1. handles[i] \in Conns
      BY <2>3 DEF SendOverHandle, Inv, Types, WindowInv
    <3>2. Untouched \/ Puts(handles[i], n)
      BY <2>1, <2>3 DEF SendOverHandle, Untouched, Puts, opening, writing
    <3>. QED BY <3>1, <3>2
  <2>4. CASE SendConnecting(i)
    BY <2>1, <2>4 DEF SendConnecting, Untouched, opening, writing
  <2>. QED BY <1>6, <2>3, <2>4 DEF ClickSend
<1>. QED BY <1>1, <1>2, <1>3, <1>4, <1>5, <1>6 DEF Next, Click

\* The channels keep their types and their accounts.
LEMMA SendersAreKept ==
    ASSUME Inv, [Next]_vars
    PROVE  SenderTypes' /\ QuietInv' /\ FramesAreSentOnceInOrder'
<1>0. /\ \A c \in Conns : /\ chan[c] \in Seq(Sends) /\ hand[c] \in Seq(Sends)
                          /\ written[c] \in Seq(Sends) /\ queued[c] \in Seq(Sends)
                          /\ gone[c] \in BOOLEAN
                          /\ Quiet(c) /\ Accounted(c)
      /\ <<>> \in Seq(Sends)
  BY DEF Inv, Types, SenderTypes, QuietInv, FramesAreSentOnceInOrder, Accounted
<1>. SUFFICES SenderTypes' /\ \A d \in Conns : Quiet(d)' /\ Accounted(d)'
  BY DEF QuietInv, FramesAreSentOnceInOrder, Accounted
<1>1. CASE Untouched
  <2>1. SenderTypes'
    BY <1>1 DEF Untouched, writing, Inv, Types, SenderTypes
  <2>. QED BY <1>0, <1>1, <2>1 DEF Untouched, writing, Quiet, Accounted
<1>2. ASSUME NEW c \in Conns, ServerCloses(c)
      PROVE  SenderTypes' /\ \A d \in Conns : Quiet(d)' /\ Accounted(d)'
  <2>1. gone' = [gone EXCEPT ![c] = TRUE] /\ UNCHANGED <<owner, writing, written, queued>> /\ ~gone[c]
    BY <1>2 DEF ServerCloses, opening
  <2>2. SenderTypes'
    BY <2>1 DEF writing, Inv, Types, SenderTypes
  <2>3. IsPrefix(written[c], queued[c])
    <3>1. queued[c] = (written[c] \o hand[c]) \o chan[c]
      BY <1>0, <2>1 DEF Accounted
    <3>2. (written[c] \o hand[c]) \o chan[c] = written[c] \o (hand[c] \o chan[c])
      <4>1. written[c] \in Seq(Sends) /\ hand[c] \in Seq(Sends) /\ chan[c] \in Seq(Sends)
        BY <1>0
      <4>2. \A u, v, w \in Seq(Sends) : (u \o v) \o w = u \o (v \o w)
        BY ThreePieces
      <4>. QED BY <4>1, <4>2
    <3>3. hand[c] \o chan[c] \in Seq(Sends)
      BY <1>0, ConcatProperties
    <3>4. IsPrefix(written[c], written[c] \o (hand[c] \o chan[c]))
      BY <1>0, <3>3, PrefixOfConcat
    <3>. QED BY <3>1, <3>2, <3>4
  <2>4. \A d \in Conns : Quiet(d)' /\ Accounted(d)'
    BY <1>0, <2>1, <2>3 DEF writing, Quiet, Accounted, Inv, Types, SenderTypes
  <2>. QED BY <2>2, <2>4
<1>3. ASSUME NEW c \in Conns, NEW frames, Dials(c, frames)
      PROVE  SenderTypes' /\ \A d \in Conns : Quiet(d)' /\ Accounted(d)'
  <2>1. SenderTypes'
    BY <1>3 DEF Dials, Inv, Types, SenderTypes
  <2>2. \A d \in Conns : Quiet(d)'
    BY <1>0, <1>3 DEF Dials, Quiet, Inv, Types, SenderTypes
  <2>3. \A d \in Conns \ {c} : Accounted(d)'
    BY <1>0, <1>3 DEF Dials, Accounted, Inv, Types, SenderTypes
  <2>4. written'[c] = <<>> /\ hand'[c] = <<>> /\ chan'[c] = frames /\ queued'[c] = frames
    BY <1>0, <1>3 DEF Dials, Quiet, Inv, Types, SenderTypes
  <2>5. frames \in Seq(Sends) /\ <<>> \o <<>> \o frames = frames /\ <<>> \o frames = frames
    BY <1>0, <1>3, ConcatEmptySeq DEF Dials
  <2>6. IsPrefix(<<>>, frames)
    BY <1>0, <2>5, PrefixOfConcat
  <2>7. Accounted(c)'
    BY <2>4, <2>5, <2>6 DEF Accounted
  <2>. QED BY <2>1, <2>2, <2>3, <2>7
<1>4. ASSUME NEW c \in Conns, NEW n \in Sends, Puts(c, n)
      PROVE  SenderTypes' /\ \A d \in Conns : Quiet(d)' /\ Accounted(d)'
  <2>1. Append(chan[c], n) \in Seq(Sends) /\ Append(queued[c], n) \in Seq(Sends)
    BY <1>0, AppendProperties
  <2>2. SenderTypes'
    BY <1>4, <2>1 DEF Puts, Inv, Types, SenderTypes
  <2>3. \A d \in Conns : Quiet(d)'
    BY <1>0, <1>4 DEF Puts, Quiet
  <2>4. \A d \in Conns \ {c} : Accounted(d)'
    BY <1>0, <1>4 DEF Puts, Accounted, Inv, Types, SenderTypes
  <2>5. chan'[c] = Append(chan[c], n) /\ queued'[c] = Append(queued[c], n)
    BY <1>4 DEF Puts, Inv, Types, SenderTypes
  <2>6. ASSUME gone[c] PROVE Accounted(c)'
    <3>1. IsPrefix(written[c], queued[c])
      BY <1>0, <2>6 DEF Accounted
    <3>2. IsPrefix(written[c], Append(queued[c], n))
      BY <1>0, <3>1, PrefixGrows
    <3>3. written'[c] = written[c] /\ gone'[c]
      BY <1>4, <2>6 DEF Puts
    <3>4. IsPrefix(written'[c], queued'[c])
      BY <2>5, <3>2, <3>3, Zenon
    <3>. QED BY <3>3, <3>4, Zenon DEF Accounted
  <2>7. ASSUME ~gone[c] PROVE Accounted(c)'
    <3>1. (written[c] \o hand[c]) \o Append(chan[c], n) = Append((written[c] \o hand[c]) \o chan[c], n)
      <4>1. written[c] \in Seq(Sends) /\ hand[c] \in Seq(Sends) /\ chan[c] \in Seq(Sends)
        BY <1>0
      <4>2. \A u, v, w \in Seq(Sends) : (u \o v) \o Append(w, n) = Append((u \o v) \o w, n)
        BY PutBehind
      <4>. QED BY <4>1, <4>2
    <3>2. queued[c] = (written[c] \o hand[c]) \o chan[c]
      BY <1>0, <2>7 DEF Accounted
    <3>3. written'[c] = written[c] /\ hand'[c] = hand[c] /\ ~gone'[c]
      BY <1>4, <2>7 DEF Puts
    <3>4. queued'[c] = (written'[c] \o hand'[c]) \o chan'[c]
      BY <2>5, <3>1, <3>2, <3>3
    <3>. QED BY <3>3, <3>4, Zenon DEF Accounted
  <2>. QED BY <2>2, <2>3, <2>4, <2>6, <2>7
<1>5. ASSUME NEW c \in Conns, TakeFrame(c)
      PROVE  SenderTypes' /\ \A d \in Conns : Quiet(d)' /\ Accounted(d)'
  <2>1. /\ chan[c] # <<>> /\ sender[c] = "idle" /\ sender' = [sender EXCEPT ![c] = "write"]
        /\ hand' = [hand EXCEPT ![c] = <<Head(chan[c])>>] /\ chan' = [chan EXCEPT ![c] = Tail(@)]
        /\ UNCHANGED <<owner, written, gone, queued>>
    BY <1>5 DEF TakeFrame, opening, servers
  <2>2. Head(chan[c]) \in Sends /\ Tail(chan[c]) \in Seq(Sends) /\ <<Head(chan[c])>> \in Seq(Sends)
    BY <1>0, <2>1, HeadTailProperties
  <2>3. SenderTypes'
    BY <2>1, <2>2 DEF Inv, Types, SenderTypes
  <2>4. \A d \in Conns : Quiet(d)'
    BY <1>0, <2>1 DEF Quiet, Inv, Types, SenderTypes
  <2>5. \A d \in Conns \ {c} : Accounted(d)'
    BY <1>0, <2>1 DEF Accounted, Inv, Types, SenderTypes
  <2>6. hand[c] = <<>> /\ hand'[c] = <<Head(chan[c])>> /\ chan'[c] = Tail(chan[c])
    BY <1>0, <2>1 DEF Quiet, Inv, Types, SenderTypes
  <2>7. written[c] \o <<Head(chan[c])>> \o Tail(chan[c]) = written[c] \o <<>> \o chan[c]
    <3>1. <<Head(chan[c])>> \o Tail(chan[c]) = chan[c]
      BY <1>0, <2>1, HeadTailProperties
    <3>2. written[c] \o <<Head(chan[c])>> \o Tail(chan[c])
            = written[c] \o (<<Head(chan[c])>> \o Tail(chan[c]))
      <4>1. written[c] \in Seq(Sends)
        BY <1>0
      <4>2. \A u, v, w \in Seq(Sends) : (u \o v) \o w = u \o (v \o w)
        BY ThreePieces
      <4>. QED BY <2>2, <4>1, <4>2
    <3>3. written[c] \o <<>> = written[c]
      BY <1>0, ConcatEmptySeq
    <3>. QED BY <3>1, <3>2, <3>3
  <2>8. Accounted(c)'
    BY <1>0, <2>1, <2>6, <2>7 DEF Accounted
  <2>. QED BY <2>3, <2>4, <2>5, <2>8
<1>6. ASSUME NEW c \in Conns, WriteFrame(c)
      PROVE  SenderTypes' /\ \A d \in Conns : Quiet(d)' /\ Accounted(d)'
  <2>1. /\ sender[c] = "write" /\ hand' = [hand EXCEPT ![c] = <<>>]
        /\ UNCHANGED <<owner, chan, gone, queued>>
        /\ \E then \in {"idle", "ended"} : sender' = [sender EXCEPT ![c] = then]
        /\ IF gone[c] THEN UNCHANGED written
                      ELSE written' = [written EXCEPT ![c] = @ \o hand[c]]
    BY <1>6 DEF WriteFrame, Transmit, opening
  <2>2. written[c] \o hand[c] \in Seq(Sends)
    BY <1>0, ConcatProperties
  <2>3. SenderTypes'
    BY <1>0, <2>1, <2>2 DEF Inv, Types, SenderTypes
  <2>4. \A d \in Conns : Quiet(d)'
    BY <1>0, <2>1 DEF Quiet, Inv, Types, SenderTypes
  <2>5. \A d \in Conns \ {c} : Accounted(d)'
    BY <1>0, <2>1 DEF Accounted, Inv, Types, SenderTypes
  <2>6. (written[c] \o hand[c]) \o <<>> = written[c] \o hand[c]
    BY <2>2, ConcatEmptySeq
  <2>7. Accounted(c)'
    BY <1>0, <2>1, <2>6 DEF Accounted, Inv, Types, SenderTypes
  <2>. QED BY <2>3, <2>4, <2>5, <2>7
<1>7. ASSUME NEW c \in Conns, SenderEnds(c)
      PROVE  SenderTypes' /\ \A d \in Conns : Quiet(d)' /\ Accounted(d)'
  <2>1. /\ sender[c] = "idle" /\ sender' = [sender EXCEPT ![c] = "ended"]
        /\ UNCHANGED <<owner, chan, hand, written, gone, queued>>
    BY <1>7 DEF SenderEnds, opening, servers
  <2>2. SenderTypes'
    BY <2>1 DEF Inv, Types, SenderTypes
  <2>. QED BY <1>0, <2>1, <2>2 DEF Quiet, Accounted, Inv, Types, SenderTypes
<1>. QED BY <1>1, <1>2, <1>3, <1>4, <1>5, <1>6, <1>7, StepOnChannels DEF SenderStep

-----------------------------------------------------------------------------
(* The readers *)

LEMMA StepOnReaders ==
    ASSUME Inv, [Next]_vars
    PROVE  /\ \/ UNCHANGED <<owner, tab_idx, receiver, received, served, incoming, disconnects>>
              \/ \E c \in Conns : ServerSends(c) \/ ReceiverStep(c)
              \/ DrainIncoming \/ DrainDisconnects
              \/ \E i \in Positions, c \in Conns : \E frames :
                    /\ Connect(i, c, frames) /\ i \in DOMAIN tabs
                    /\ UNCHANGED <<incoming, disconnects>>
           /\ UNCHANGED setup
<1>1. ASSUME NEW c \in Conns, ServerCloses(c) \/ SenderStep(c)
      PROVE  UNCHANGED <<owner, tab_idx, receiver, received, served, incoming, disconnects, setup>>
  BY <1>1 DEF ServerCloses, SenderStep, TakeFrame, WriteFrame, Transmit, SenderEnds, tables, opening,
              reading, servers
<1>2. ASSUME NEW i \in Positions, ClickDisconnect(i) \/ ClickClearLog(i) \/ ClickCloseTab(i)
                                    \/ ClickChooseTunnel(i)
      PROVE  UNCHANGED <<owner, tab_idx, receiver, received, served, incoming, disconnects, setup>>
  BY <1>2 DEF ClickDisconnect, ClickClearLog, ClickCloseTab, RemoveTab, ClickChooseTunnel, Threads,
              tables, opening, reading, servers
<1>3. CASE ClickNewTab \/ ClickSendToRepeater \/ EndFrame \/ UNCHANGED vars
  BY <1>3 DEF ClickNewTab, ClickSendToRepeater, EndFrame, Threads, tables, opening, reading, servers,
              vars
<1>4. ASSUME NEW i \in Positions, ClickConnect(i) \/ ClickSend(i)
      PROVE  UNCHANGED <<owner, tab_idx, receiver, received, served, incoming, disconnects, setup>>
  BY <1>4 DEF ClickConnect, ClickSend, SendOverHandle, SendConnecting, Threads, tables, opening,
              reading, servers
<1>5. ASSUME NEW c \in Conns, ServerSends(c) \/ ReceiverStep(c) PROVE UNCHANGED setup
  BY <1>5 DEF ServerSends, ReceiverStep, StartRead, ReadFrame, PushIncoming, ReadFails,
              NotifyDisconnect, opening
<1>6. CASE DrainIncoming \/ DrainDisconnects
  BY <1>6 DEF DrainIncoming, DrainDisconnects, MarkLost, Threads, opening
<1>7. CASE ConnectReturns \/ SendReturns
  <2>1. \A i, c, frames : Connect(i, c, frames) => UNCHANGED setup
    BY DEF Connect
  <2>2. ConnectFails => UNCHANGED <<owner, tab_idx, receiver, received, served, setup>>
    BY DEF ConnectFails, opening, reading
  <2>. QED BY <1>7, <2>1, <2>2, CallsEnd
<1>. QED BY <1>1, <1>2, <1>3, <1>4, <1>5, <1>6, <1>7 DEF Next, Click, Repaint

\* What the step adds to the queue is the frame its receiver has just read.
Arrives(m) == /\ m \in Messages /\ incoming' = Append(incoming, m)
              /\ m.n = Pushed'[m.conn] /\ Pushed[m.conn] < m.n

LEMMA PushedAt ==
    ASSUME ReaderTypes, NEW c \in Conns
    PROVE  /\ received[c] \in Int /\ Pushed[c] \in Int
           /\ receiver[c] = "push" => Pushed[c] = received[c] - 1
           /\ receiver[c] # "push" => Pushed[c] = received[c]
<1>1. received[c] \in Int
  BY BoundsAssumption DEF ReaderTypes
<1>. QED BY <1>1 DEF Pushed

LEMMA PushedThen ==
    ASSUME ReaderTypes', NEW c \in Conns
    PROVE  /\ received'[c] \in Int /\ Pushed'[c] \in Int
           /\ receiver'[c] = "push" => Pushed'[c] = received'[c] - 1
           /\ receiver'[c] # "push" => Pushed'[c] = received'[c]
<1>1. received'[c] \in Int
  BY BoundsAssumption DEF ReaderTypes
<1>. QED BY <1>1 DEF Pushed

\* A receiver counts on; that it no longer pushes, or pushes what it has just read,
\* takes nothing back.
LEMMA PushedGrows ==
    ASSUME ReaderTypes, ReaderTypes', NEW c \in Conns,
           \/ received'[c] = received[c] /\ (receiver'[c] = "push" => receiver[c] = "push")
           \/ received'[c] = received[c] + 1 /\ receiver[c] # "push"
           \/ received[c] = 0 /\ receiver[c] # "push" /\ receiver'[c] # "push"
    PROVE  Pushed[c] <= Pushed'[c]
<1>1. received'[c] >= 0
  BY BoundsAssumption DEF ReaderTypes
<1>. QED BY <1>1, PushedAt, PushedThen

LEMMA ReadersAreKept ==
    ASSUME Inv, [Next]_vars
    PROVE  /\ ReaderTypes' /\ ReaderInv'
           /\ \A c \in Conns : Pushed[c] <= Pushed'[c] /\ (owner[c] # 0 => owner'[c] = owner[c])
           /\ UNCHANGED incoming \/ incoming' = <<>> \/ \E m : Arrives(m)
<1>0. /\ ReaderTypes /\ ReaderInv /\ setup.frames \in 0 .. MaxFrames /\ MaxFrames \in Nat
      /\ owner \in [Conns -> 0 .. MaxOpened]
  BY SetupsAssumption, BoundsAssumption DEF Inv, Types, WindowInv, SenderTypes
<1>1. UNCHANGED setup
  BY StepOnReaders
<1>2. CASE UNCHANGED <<owner, tab_idx, receiver, received, served, incoming, disconnects>>
  <2>1. ReaderTypes' /\ ReaderInv'
    BY <1>0, <1>1, <1>2 DEF ReaderTypes, ReaderInv
  <2>. QED BY <1>0, <1>2, <2>1, PushedGrows
<1>3. CASE DrainIncoming \/ DrainDisconnects
  <2>1. UNCHANGED <<owner, tab_idx, receiver, received, served>>
    BY <1>3 DEF DrainIncoming, DrainDisconnects, MarkLost, Threads, opening, reading, servers
  <2>2. /\ UNCHANGED incoming \/ incoming' = <<>>
        /\ UNCHANGED disconnects \/ disconnects' = <<>>
    BY <1>3 DEF DrainIncoming, DrainDisconnects, MarkLost
  <2>3. incoming' \in Seq(Messages) /\ disconnects' \in Seq(Positions)
    <3>1. incoming \in Seq(Messages) /\ disconnects \in Seq(Positions)
      BY <1>0 DEF ReaderTypes
    <3>2. \A S : <<>> \in Seq(S)
      OBVIOUS
    <3>. QED BY <2>2, <3>1, <3>2, Zenon
  <2>4. ReaderTypes' /\ ReaderInv'
    BY <1>0, <1>1, <2>1, <2>3 DEF ReaderTypes, ReaderInv
  <2>. QED BY <1>0, <2>1, <2>2, <2>4, PushedGrows
<1>4. ASSUME NEW i \in Positions, NEW c \in Conns, NEW frames,
             Connect(i, c, frames), i \in DOMAIN tabs, UNCHANGED <<incoming, disconnects>>
      PROVE  /\ ReaderTypes' /\ ReaderInv'
             /\ \A d \in Conns : Pushed[d] <= Pushed'[d] /\ (owner[d] # 0 => owner'[d] = owner[d])
  <2>1. /\ owner[c] = 0 /\ owner' = [owner EXCEPT ![c] = tabs[i].who]
        /\ tab_idx' = [tab_idx EXCEPT ![c] = i] /\ receiver' = [receiver EXCEPT ![c] = "lock"]
        /\ \E k \in 0 .. setup.frames : /\ served' = [served EXCEPT ![c] = k]
                                       /\ received' = [received EXCEPT ![c] = k]
    BY <1>4 DEF Connect
  <2>2. tabs[i].who \in 1 .. MaxOpened /\ i \in 0 .. MaxTabs /\ i # 0
    BY <1>4, TabsByPosition, BoundsAssumption DEF Inv, Types, Positions
  <2>3. ReaderTypes'
    BY <1>0, <1>4, <2>1, <2>2 DEF ReaderTypes
  <2>4. ReaderInv'
    BY <1>0, <1>1, <1>4, <2>1, <2>2 DEF ReaderTypes, ReaderInv
  <2>5. receiver[c] = "none" /\ received[c] = 0
    BY <1>0, <2>1 DEF ReaderInv
  <2>6. \A d \in Conns : Pushed[d] <= Pushed'[d] /\ (owner[d] # 0 => owner'[d] = owner[d])
    <3>. TAKE d \in Conns
    <3>1. \/ received'[d] = received[d] /\ (receiver'[d] = "push" => receiver[d] = "push")
          \/ received[d] = 0 /\ receiver[d] # "push" /\ receiver'[d] # "push"
      BY <1>0, <2>1, <2>5 DEF ReaderTypes
    <3>. QED BY <1>0, <2>1, <2>3, <3>1, PushedGrows
  <2>. QED BY <2>3, <2>4, <2>6
<1>5. ASSUME NEW c \in Conns, ServerSends(c)
      PROVE  /\ ReaderTypes' /\ ReaderInv' /\ UNCHANGED incoming
             /\ \A d \in Conns : Pushed[d] <= Pushed'[d] /\ owner'[d] = owner[d]
  <2>1. /\ served[c] < setup.frames /\ served' = [served EXCEPT ![c] = @ + 1]
        /\ UNCHANGED <<owner, tab_idx, receiver, received, incoming, disconnects>>
    BY <1>5 DEF ServerSends, tables, opening, reading
  <2>2. ReaderTypes'
    BY <1>0, <2>1 DEF ReaderTypes
  <2>3. ReaderInv'
    BY <1>0, <1>1, <2>1 DEF ReaderTypes, ReaderInv
  <2>. QED BY <1>0, <2>1, <2>2, <2>3, PushedGrows
<1>6. ASSUME NEW c \in Conns, StartRead(c) \/ ReadFails(c) \/ NotifyDisconnect(c)
      PROVE  /\ ReaderTypes' /\ ReaderInv' /\ UNCHANGED incoming
             /\ \A d \in Conns : Pushed[d] <= Pushed'[d] /\ owner'[d] = owner[d]
  <2>1. /\ \E to \in {"reading", "notify", "ended"} : receiver' = [receiver EXCEPT ![c] = to]
        /\ receiver[c] \in {"lock", "reading", "notify"}
        /\ UNCHANGED <<owner, tab_idx, received, served, incoming>>
        /\ UNCHANGED disconnects \/ disconnects' = Append(disconnects, tab_idx[c])
    BY <1>6 DEF StartRead, ReadFails, NotifyDisconnect, Receiver, tables, opening, servers
  <2>2. Append(disconnects, tab_idx[c]) \in Seq(Positions)
    <3>1. tab_idx[c] \in Positions
      BY <1>0, <2>1 DEF ReaderInv
    <3>. QED BY <1>0, <3>1, AppendProperties DEF ReaderTypes
  <2>3. ReaderTypes'
    BY <1>0, <2>1, <2>2 DEF ReaderTypes
  <2>4. ReaderInv'
    BY <1>0, <1>1, <2>1 DEF ReaderTypes, ReaderInv
  <2>5. \A d \in Conns : Pushed[d] <= Pushed'[d]
    <3>. TAKE d \in Conns
    <3>1. received'[d] = received[d] /\ (receiver'[d] = "push" => receiver[d] = "push")
      BY <1>0, <2>1 DEF ReaderTypes
    <3>. QED BY <1>0, <2>3, <3>1, PushedGrows
  <2>. QED BY <2>1, <2>3, <2>4, <2>5
<1>7. ASSUME NEW c \in Conns, ReadFrame(c)
      PROVE  /\ ReaderTypes' /\ ReaderInv' /\ UNCHANGED incoming
             /\ \A d \in Conns : Pushed[d] <= Pushed'[d] /\ owner'[d] = owner[d]
  <2>1. /\ received[c] < served[c] /\ received' = [received EXCEPT ![c] = @ + 1]
        /\ receiver[c] = "reading" /\ receiver' = [receiver EXCEPT ![c] = "push"]
        /\ UNCHANGED <<owner, tab_idx, served, incoming, disconnects>>
    BY <1>7 DEF ReadFrame, Receiver, tables, opening, servers
  <2>2. ReaderTypes'
    BY <1>0, <2>1 DEF ReaderTypes
  <2>3. ReaderInv'
    BY <1>0, <1>1, <2>1 DEF ReaderTypes, ReaderInv
  <2>4. \A d \in Conns : Pushed[d] <= Pushed'[d]
    <3>. TAKE d \in Conns
    <3>1. \/ received'[d] = received[d] /\ receiver'[d] = receiver[d]
          \/ received'[d] = received[d] + 1 /\ receiver[d] # "push"
      BY <1>0, <2>1 DEF ReaderTypes
    <3>. QED BY <1>0, <2>2, <3>1, PushedGrows
  <2>. QED BY <2>1, <2>2, <2>3, <2>4
<1>8. ASSUME NEW c \in Conns, PushIncoming(c)
      PROVE  /\ ReaderTypes' /\ ReaderInv' /\ \E m : Arrives(m)
             /\ \A d \in Conns : Pushed[d] <= Pushed'[d] /\ owner'[d] = owner[d]
  <2>. DEFINE m == [idx |-> tab_idx[c], conn |-> c, n |-> received[c]]
  <2>1. /\ receiver[c] = "push" /\ receiver' = [receiver EXCEPT ![c] = "lock"]
        /\ incoming' = Append(incoming, m)
        /\ UNCHANGED <<owner, tab_idx, received, served, disconnects>>
    BY <1>8 DEF PushIncoming, Receiver, opening, servers
  <2>2. m \in Messages /\ m.conn = c /\ m.n = received[c]
    <3>1. tab_idx[c] \in Positions /\ received[c] \in 1 .. MaxFrames
      BY <1>0, <2>1 DEF ReaderTypes, ReaderInv
    <3>. QED BY <3>1 DEF Messages
  <2>. HIDE DEF m
  <2>3. Append(incoming, m) \in Seq(Messages)
    BY <1>0, <2>2, AppendProperties DEF ReaderTypes
  <2>4. ReaderTypes'
    BY <1>0, <2>1, <2>3 DEF ReaderTypes
  <2>5. ReaderInv'
    BY <1>0, <1>1, <2>1 DEF ReaderTypes, ReaderInv
  <2>6. \A d \in Conns : Pushed[d] <= Pushed'[d]
    <3>. TAKE d \in Conns
    <3>1. received'[d] = received[d] /\ (receiver'[d] = "push" => receiver[d] = "push")
      BY <1>0, <2>1 DEF ReaderTypes
    <3>. QED BY <1>0, <2>4, <3>1, PushedGrows
  <2>7. Pushed'[c] = received[c] /\ Pushed[c] < received[c]
    <3>1. receiver'[c] # "push" /\ received'[c] = received[c]
      BY <1>0, <2>1 DEF ReaderTypes
    <3>. QED BY <1>0, <2>1, <2>4, <3>1, PushedAt, PushedThen
  <2>8. Arrives(m)
    BY <2>1, <2>2, <2>7 DEF Arrives
  <2>. QED BY <2>1, <2>4, <2>5, <2>6, <2>8
<1>. QED BY <1>2, <1>3, <1>4, <1>5, <1>6, <1>7, <1>8, StepOnReaders DEF ReceiverStep, DrainIncoming,
             DrainDisconnects, MarkLost
-----------------------------------------------------------------------------
(* The queue and the logs *)

LEMMA QueueIsKept ==
    ASSUME Inv, [Next]_vars
    PROVE  QueueInv'
<1>1. /\ ReaderTypes /\ ReaderTypes' /\ QueueInv
      /\ \A c \in Conns : Pushed[c] <= Pushed'[c] /\ Pushed[c] \in Int /\ Pushed'[c] \in Int
      /\ UNCHANGED incoming \/ incoming' = <<>> \/ \E m : Arrives(m)
  BY ReadersAreKept, PushedAt, PushedThen DEF Inv, Types
<1>2. /\ DOMAIN incoming = 1 .. Len(incoming) /\ Len(incoming) \in Nat
      /\ \A k \in DOMAIN incoming : incoming[k] \in Messages
  BY <1>1, LenProperties, ElementOfSeq DEF ReaderTypes
<1>3. \A m \in Messages : m.conn \in Conns /\ m.n \in Int
  BY BoundsAssumption DEF Messages
<1>4. \A k \in DOMAIN incoming : incoming[k].n <= Pushed'[incoming[k].conn]
  <2>. TAKE k \in DOMAIN incoming
  <2>1. incoming[k].conn \in Conns /\ incoming[k].n \in Int
    BY <1>2, <1>3
  <2>2. incoming[k].n <= Pushed[incoming[k].conn]
    BY <1>1 DEF QueueInv
  <2>. QED BY <1>1, <2>1, <2>2
<1>5. CASE UNCHANGED incoming
  BY <1>1, <1>4, <1>5 DEF QueueInv
<1>6. CASE incoming' = <<>>
  <2>1. DOMAIN incoming' = {}
    BY <1>6, EmptySeq
  <2>. QED BY <2>1 DEF QueueInv
<1>7. ASSUME NEW m, Arrives(m) PROVE QueueInv'
  <2>1. /\ m \in Messages /\ m.conn \in Conns /\ m.n \in Int
        /\ m.n = Pushed'[m.conn] /\ Pushed[m.conn] < m.n /\ incoming' = Append(incoming, m)
    BY <1>3, <1>7 DEF Arrives
  <2>2. /\ DOMAIN incoming' = 1 .. Len(incoming) + 1
        /\ \A k \in 1 .. Len(incoming) : incoming'[k] = incoming[k]
        /\ incoming'[Len(incoming) + 1] = m
    <3>1. /\ incoming' \in Seq(Messages) /\ Len(incoming') = Len(incoming) + 1
          /\ \A k \in 1 .. Len(incoming) : incoming'[k] = incoming[k]
          /\ incoming'[Len(incoming) + 1] = m
      BY <1>1, <2>1, AppendProperties DEF ReaderTypes
    <3>. QED BY <3>1, LenProperties
  <2>3. \A k \in DOMAIN incoming' : incoming'[k].n <= Pushed'[incoming'[k].conn]
    BY <1>2, <1>4, <2>1, <2>2
  <2>4. \A j, k \in DOMAIN incoming' :
            j < k /\ incoming'[j].conn = incoming'[k].conn => incoming'[j].n < incoming'[k].n
    <3>. SUFFICES ASSUME NEW j \in DOMAIN incoming', NEW k \in DOMAIN incoming', j < k,
                         incoming'[j].conn = incoming'[k].conn
                  PROVE  incoming'[j].n < incoming'[k].n
      OBVIOUS
    <3>1. j \in DOMAIN incoming /\ incoming'[j] = incoming[j]
      BY <1>2, <2>2
    <3>2. CASE k \in DOMAIN incoming
      BY <1>1, <1>2, <2>2, <3>1, <3>2 DEF QueueInv
    <3>3. CASE k = Len(incoming) + 1
      <4>1. incoming[j].conn = m.conn /\ incoming[j].n <= Pushed[m.conn] /\ incoming[j].n \in Int
        BY <1>1, <1>2, <1>3, <2>2, <3>1, <3>3 DEF QueueInv
      <4>. QED BY <1>1, <2>1, <2>2, <3>1, <3>3, <4>1
    <3>. QED BY <1>2, <2>2, <3>2, <3>3
  <2>. QED BY <2>3, <2>4 DEF QueueInv
<1>. QED BY <1>1, <1>5, <1>6, <1>7

\* A log that is right stays right when its tab is left alone.
LEMMA LogCarries ==
    ASSUME Inv, [Next]_vars, NEW log \in Seq(Entries), NEW who \in 1 .. MaxOpened
    PROVE  /\ Within(log, Pushed) => Within(log, Pushed')
           /\ Within(log, Pushed) /\ Before(log, incoming, 0) => Before(log, incoming', 0)
           /\ Owned(log, who, owner) => Owned(log, who, owner')
<1>1. /\ ReaderTypes /\ ReaderTypes' /\ incoming \in Seq(Messages)
      /\ \A c \in Conns : /\ Pushed[c] <= Pushed'[c] /\ Pushed[c] \in Int /\ Pushed'[c] \in Int
                          /\ owner[c] # 0 => owner'[c] = owner[c]
      /\ UNCHANGED incoming \/ incoming' = <<>> \/ \E m : Arrives(m)
  BY ReadersAreKept, PushedAt, PushedThen DEF Inv, Types, ReaderTypes
<1>2. \A k \in DOMAIN log : log[k] \in Entries
  BY ElementOfSeq, LenProperties
<1>3. \A e \in Entries : e.kind = "received" => e.conn \in Conns /\ e.n \in Int
  BY EntriesAreTyped
<1>4. ASSUME Within(log, Pushed) PROVE Within(log, Pushed')
  <2>. SUFFICES ASSUME NEW k \in DOMAIN log, log[k].kind = "received"
                PROVE  log[k].n <= Pushed'[log[k].conn]
    BY DEF Within
  <2>1. log[k].conn \in Conns /\ log[k].n \in Int
    BY <1>2, <1>3
  <2>2. log[k].n <= Pushed[log[k].conn]
    BY <1>4 DEF Within
  <2>. QED BY <1>1, <2>1, <2>2
<1>5. ASSUME Within(log, Pushed), Before(log, incoming, 0) PROVE Before(log, incoming', 0)
  <2>1. CASE UNCHANGED incoming
    BY <1>5, <2>1
  <2>2. CASE incoming' = <<>>
    BY <2>2, EmptySeq DEF Before
  <2>3. ASSUME NEW m, Arrives(m) PROVE Before(log, incoming', 0)
    <3>1. /\ m \in Messages /\ m.conn \in Conns /\ m.n \in Int
          /\ Pushed[m.conn] < m.n /\ incoming' = Append(incoming, m)
      BY <2>3, BoundsAssumption DEF Arrives, Messages
    <3>2. \A j \in DOMAIN incoming' : incoming'[j] = m \/ (j \in DOMAIN incoming /\ incoming'[j] = incoming[j])
      <4>1. /\ incoming' \in Seq(Messages) /\ Len(incoming') = Len(incoming) + 1
            /\ \A k \in 1 .. Len(incoming) : incoming'[k] = incoming[k]
            /\ incoming'[Len(incoming) + 1] = m
        BY <1>1, <3>1, AppendProperties
      <4>2. DOMAIN incoming' = 1 .. Len(incoming) + 1 /\ DOMAIN incoming = 1 .. Len(incoming)
            /\ Len(incoming) \in Nat
        BY <1>1, <4>1, LenProperties
      <4>. QED BY <4>1, <4>2
    <3>. SUFFICES ASSUME NEW k \in DOMAIN log, log[k].kind = "received",
                         NEW j \in DOMAIN incoming', j > 0, incoming'[j].conn = log[k].conn
                  PROVE  log[k].n < incoming'[j].n
      BY DEF Before
    <3>3. log[k].conn \in Conns /\ log[k].n \in Int /\ log[k].n <= Pushed[log[k].conn]
      BY <1>2, <1>3, <1>5 DEF Within
    <3>4. CASE incoming'[j] = m
      BY <1>1, <3>1, <3>3, <3>4
    <3>5. CASE j \in DOMAIN incoming /\ incoming'[j] = incoming[j]
      BY <1>5, <3>5 DEF Before
    <3>. QED BY <3>2, <3>4, <3>5
  <2>. QED BY <1>1, <2>1, <2>2, <2>3
<1>6. ASSUME Owned(log, who, owner) PROVE Owned(log, who, owner')
  <2>. SUFFICES ASSUME NEW k \in DOMAIN log, log[k].kind = "sent", log[k].conn # None
                PROVE  owner'[log[k].conn] = who
    BY DEF Owned
  <2>1. log[k].conn \in Conns
    <3>1. log[k] \in Entries
      BY <1>2
    <3>. QED BY <3>1 DEF Entries
  <2>2. owner[log[k].conn] = who
    BY <1>6 DEF Owned
  <2>. QED BY <1>1, <2>1, <2>2
<1>. QED BY <1>4, <1>5, <1>6

\* And when something fits behind it.
LEMMA LogsAreKept ==
    ASSUME Inv, [Next]_vars
    PROVE  LogInv' /\ OwnInv'
<1>0. /\ TabsInv /\ TabsInv' /\ (closes' = 0 => closes = 0 /\ Stays)
      /\ DrainIncoming \/ \A j \in DOMAIN tabs' : Follows(j)
  BY TabsAreKept DEF Inv, Types
<1>. SUFFICES ASSUME NEW i \in DOMAIN tabs'
              PROVE  /\ InOrder(tabs'[i].log) /\ Within(tabs'[i].log, Pushed')
                     /\ Before(tabs'[i].log, incoming', 0)
                     /\ closes' = 0 => Owned(tabs'[i].log, tabs'[i].who, owner')
  BY DEF LogInv, OwnInv
<1>1. CASE DrainIncoming
  <2>1. /\ tabs' = Delivered(incoming, DOMAIN tabs) /\ incoming' = <<>>
        /\ UNCHANGED <<closes, owner, receiver, received>>
    BY <1>1 DEF DrainIncoming, Threads, opening, reading
  <2>2. /\ tabs' \in Seq(Tab) /\ Len(tabs') = Len(tabs)
        /\ \A j \in DOMAIN tabs : /\ InOrder(tabs'[j].log) /\ Within(tabs'[j].log, Pushed)
                                  /\ closes = 0 => Owned(tabs'[j].log, tabs'[j].who, owner)
    BY <2>1, DeliveredFacts DEF Inv, Types
  <2>3. i \in DOMAIN tabs
    BY <1>0, <2>2, LenProperties DEF TabsInv
  <2>4. Pushed' = Pushed
    BY <2>1 DEF Pushed
  <2>5. Before(tabs'[i].log, <<>>, 0)
    BY EmptySeq DEF Before
  <2>. QED BY <2>1, <2>2, <2>3, <2>4, <2>5
<1>2. CASE tabs'[i].log = <<>>
  BY <1>2, EmptyLog
<1>3. ASSUME NEW j \in DOMAIN tabs, tabs'[i].who = tabs[j].who, Log(tabs'[i].log, tabs[j])
      PROVE  /\ InOrder(tabs'[i].log) /\ Within(tabs'[i].log, Pushed')
             /\ Before(tabs'[i].log, incoming', 0)
             /\ closes' = 0 => Owned(tabs'[i].log, tabs'[i].who, owner')
  <2>. DEFINE log == tabs[j].log
              who == tabs[j].who
  <2>1. log \in Seq(Entries) /\ who \in 1 .. MaxOpened
    BY <1>0, TabsByPosition
  <2>2. /\ InOrder(log) /\ Within(log, Pushed) /\ Before(log, incoming, 0)
        /\ closes = 0 => Owned(log, who, owner)
    BY DEF Inv, LogInv, OwnInv
  <2>3. Log(tabs'[i].log, tabs[j]) /\ tabs'[i].who = who
    BY <1>3
  <2>4. \/ tabs'[i].log = log \/ tabs'[i].log = <<>>
        \/ \E e : Fits(e, who) /\ tabs'[i].log = Append(log, e)
    BY <2>3 DEF Log
  <2>. HIDE DEF log, who
  <2>5. /\ InOrder(log) /\ Within(log, Pushed') /\ Before(log, incoming', 0)
        /\ closes' = 0 => Owned(log, who, owner')
    BY <1>0, <2>1, <2>2, LogCarries
  <2>6. CASE tabs'[i].log = log
    BY <2>3, <2>5, <2>6
  <2>7. CASE tabs'[i].log = <<>>
    BY <2>7, EmptyLog
  <2>8. ASSUME NEW e, Fits(e, who), tabs'[i].log = Append(log, e)
        PROVE  /\ InOrder(tabs'[i].log) /\ Within(tabs'[i].log, Pushed')
               /\ Before(tabs'[i].log, incoming', 0)
               /\ closes' = 0 => Owned(tabs'[i].log, tabs'[i].who, owner')
    <3>1. /\ e \in Entries /\ e.kind # "received"
          /\ closes' = 0 => (e.kind = "sent" /\ e.conn # None => owner'[e.conn] = who)
      BY <2>8 DEF Fits
    <3>. DEFINE mark == Pushed'
                queue == incoming'
                own == owner'
    <3>2. /\ InOrder(log) /\ Within(log, mark) /\ Before(log, queue, 0)
          /\ closes' = 0 => Owned(log, who, own)
          /\ closes' = 0 => (e.kind = "sent" /\ e.conn # None => own[e.conn] = who)
      BY <2>5, <3>1
    <3>. HIDE DEF mark, queue, own
    <3>3. /\ InOrder(Append(log, e)) /\ Within(Append(log, e), mark) /\ Before(Append(log, e), queue, 0)
          /\ closes' = 0 => Owned(Append(log, e), who, own)
      BY <2>1, <3>1, <3>2, LogGrows
    <3>. QED BY <2>3, <2>8, <3>3 DEF mark, queue, own
  <2>. QED BY <2>4, <2>6, <2>7, <2>8
<1>. QED BY <1>0, <1>1, <1>2, <1>3 DEF Follows

LEMMA HandlesAreKept ==
    ASSUME Inv, [Next]_vars
    PROVE  HandlesInv'
<1>0. /\ handles \in [Positions -> Conns \cup {None}] /\ owner \in [Conns -> 0 .. MaxOpened]
      /\ \A j \in DOMAIN tabs : tabs[j].who \in 1 .. MaxOpened
      /\ \A c \in Conns : owner[c] # 0 => owner'[c] = owner[c]
      /\ closes' = 0 => closes = 0 /\ Stays
  BY TabsByPosition, ReadersAreKept, TabsAreKept DEF Inv, Types, WindowInv, SenderTypes
<1>. SUFFICES ASSUME closes' = 0, NEW i \in Positions, handles'[i] # None
              PROVE  i \in DOMAIN tabs' /\ owner'[handles'[i]] = tabs'[i].who
  BY DEF HandlesInv
<1>1. CASE handles'[i] = handles[i]
  <2>1. handles[i] \in Conns /\ i \in DOMAIN tabs /\ owner[handles[i]] = tabs[i].who
    BY <1>0, <1>1 DEF Inv, HandlesInv
  <2>2. owner[handles[i]] # 0
    BY <1>0, <2>1
  <2>. QED BY <1>0, <1>1, <2>1, <2>2 DEF Stays
<1>2. ASSUME NEW c \in Conns, NEW frames, Connect(i, c, frames), i \in DOMAIN tabs
      PROVE  i \in DOMAIN tabs' /\ owner'[handles'[i]] = tabs'[i].who
  <2>1. handles'[i] = c /\ owner'[c] = tabs[i].who
    BY <1>0, <1>2 DEF Connect
  <2>. QED BY <1>0, <1>2, <2>1 DEF Stays
<1>3. ASSUME NEW j \in Positions, NEW c \in Conns, NEW frames, Connect(j, c, frames), j \in DOMAIN tabs
      PROVE  i \in DOMAIN tabs' /\ owner'[handles'[i]] = tabs'[i].who
  <2>1. j # i => handles'[i] = handles[i]
    BY <1>0, <1>3 DEF Connect
  <2>. QED BY <1>1, <1>2, <1>3, <2>1
<1>4. ASSUME NEW j \in Positions, ClickConnect(j) \/ ClickSend(j)
      PROVE  UNCHANGED handles
  BY <1>4 DEF ClickConnect, ClickSend, SendOverHandle, SendConnecting, tables
<1>5. ASSUME NEW j \in Positions, ClickDisconnect(j) \/ ClickCloseTab(j)
      PROVE  handles'[i] = handles[i]
  BY <1>0, <1>5 DEF ClickDisconnect, ClickCloseTab, RemoveTab
<1>6. ASSUME NEW j \in Positions, ClickClearLog(j) \/ ClickChooseTunnel(j)
      PROVE  UNCHANGED handles
  BY <1>6 DEF ClickClearLog, ClickChooseTunnel, tables
<1>7. CASE DrainDisconnects
  BY <1>0, <1>1, <1>7 DEF DrainDisconnects
<1>8. CASE ClickNewTab \/ ClickSendToRepeater \/ EndFrame \/ DrainIncoming \/ UNCHANGED vars
  BY <1>1, <1>8 DEF ClickNewTab, ClickSendToRepeater, EndFrame, DrainIncoming, tables, vars
<1>9. ASSUME NEW c \in Conns, ServerSends(c) \/ ServerCloses(c) \/ ReceiverStep(c) \/ SenderStep(c)
      PROVE  UNCHANGED handles
  BY <1>9 DEF ServerSends, ServerCloses, ReceiverStep, SenderStep, StartRead, ReadFrame, PushIncoming,
              ReadFails, NotifyDisconnect, TakeFrame, WriteFrame, Transmit, SenderEnds, tables
<1>10. CASE ConnectReturns \/ SendReturns
  <2>1. ConnectFails => UNCHANGED handles
    BY DEF ConnectFails
  <2>. QED BY <1>1, <1>3, <1>10, <2>1, CallsEnd
<1>. QED BY <1>1, <1>4, <1>5, <1>6, <1>7, <1>8, <1>9, <1>10 DEF Next, Click, Repaint

-----------------------------------------------------------------------------
(* The theorems *)

LEMMA InitEstablishesInv == Init => Inv
<1>. SUFFICES ASSUME Init PROVE Inv
  OBVIOUS
<1>1. tabs \in Seq(Tab) /\ Len(tabs) = 1 /\ DOMAIN tabs = {1} /\ tabs[1].log = <<>>
  <2>1. NewTab(1, FALSE) \in Tab /\ NewTab(1, FALSE).log = <<>>
    BY BoundsAssumption, EmptyLog DEF NewTab, Tab
  <2>2. \A S : \A x \in S : <<x>> \in Seq(S) /\ Len(<<x>>) = 1 /\ <<x>>[1] = x
    OBVIOUS
  <2>3. tabs = <<NewTab(1, FALSE)>>
    BY DEF Init
  <2>4. tabs \in Seq(Tab) /\ Len(tabs) = 1 /\ tabs[1] = NewTab(1, FALSE)
    BY <2>1, <2>2, <2>3, Zenon
  <2>5. DOMAIN tabs = {1}
    <3>1. DOMAIN tabs = 1 .. 1
      BY <2>4, LenProperties
    <3>. QED BY <3>1
  <2>6. tabs[1].log = <<>>
    BY <2>1, <2>4, Zenon
  <2>. QED BY <2>4, <2>5, <2>6, Zenon
<1>2. TabsInv
  BY <1>1, BoundsAssumption DEF TabsInv, Positions
<1>3. WindowInv
  BY BoundsAssumption, SetupsAssumption DEF Init, WindowInv
<1>4. SenderTypes /\ QuietInv
  BY BoundsAssumption DEF Init, SenderTypes, QuietInv, Quiet
<1>5. <<>> \o <<>> \o <<>> = <<>>
  BY ConcatEmptySeq, EmptySeq
<1>6. FramesAreSentOnceInOrder
  BY <1>5 DEF Init, FramesAreSentOnceInOrder
<1>7. ReaderTypes
  BY BoundsAssumption DEF Init, ReaderTypes
<1>8. ReaderInv
  BY SetupsAssumption, BoundsAssumption DEF Init, ReaderInv
<1>9. QueueInv
  <2>1. DOMAIN incoming = {}
    BY EmptySeq DEF Init
  <2>. QED BY <2>1 DEF QueueInv
<1>10. LogInv /\ OwnInv
  BY <1>1, EmptyLog DEF LogInv, OwnInv
<1>11. HandlesInv
  BY DEF Init, HandlesInv
<1>12. CallInv
  BY DEF Init, CallInv
<1>. QED BY <1>2, <1>3, <1>4, <1>6, <1>7, <1>8, <1>9, <1>10, <1>11, <1>12 DEF Inv, Types

\* The inductive invariant holds in every reachable state.
THEOREM Invariance == Spec => []Inv
<1>1. Inv /\ [Next]_vars => Inv'
  BY TabsAreKept, WindowIsKept, CallsAreKept, SendersAreKept, ReadersAreKept, QueueIsKept, LogsAreKept,
     HandlesAreKept DEF Inv, Types
<1>. QED BY <1>1, InitEstablishesInv, PTL DEF Spec

\* Tabs, tables, queues and threads hold what they are meant to hold: no queue names
\* a position that no tab ever had, and no thread runs for such a position.
THEOREM TypeCorrect == Spec => []TypeOK
<1>1. Inv => calling \in 0 .. Len(tabs) /\ (calling # 0 <=> ui \in {"connect", "resend"})
  BY TabsByPosition DEF Inv, Types, CallInv
<1>2. Inv => TypeOK
  BY <1>1 DEF Inv, Types, TabsInv, Tab, WindowInv, SenderTypes, ReaderTypes, Messages, TypeOK
<1>. QED BY <1>2, Invariance, PTL

\* What the channel of a connection was given is transmitted in order, once, and
\* with nothing left out as long as the server is there.
THEOREM ChannelsAreFaithful == Spec => []FramesAreSentOnceInOrder
<1>1. Inv => FramesAreSentOnceInOrder
  BY DEF Inv
<1>. QED BY <1>1, Invariance, PTL

\* drain_incoming_messages puts the frames of a connection into a log in the order
\* the server sent them, each once, whatever became of the tabs in between.
THEOREM LogsKeepOrder == Spec => []LogKeepsOrder
<1>1. Inv => LogKeepsOrder
  BY DEF Inv, LogInv, InOrder, LogKeepsOrder
<1>. QED BY <1>1, Invariance, PTL

\* "Send Frame" takes a connection opened from the same tab, until a tab is closed.
THEOREM OwnConnections == Spec => []OwnConnectionUntilTabsClose
<1>1. Inv => OwnConnectionUntilTabsClose
  BY DEF Inv, OwnInv, Owned, SentOverOwnConnection, OwnConnectionUntilTabsClose
<1>. QED BY <1>1, Invariance, PTL
===============================================================================
