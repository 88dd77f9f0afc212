-------------------------- MODULE TrafficStoreProofs --------------------------
(***************************************************************************)
(* Proofs about TrafficStore for any number of threads, any capacity and   *)
(* any size of the drain: the store holds the newest entries, the window   *)
(* shows a piece of what was recorded, and what was cleared stays away.    *)
(***************************************************************************)
EXTENDS TrafficStore, SequenceTheorems, TLAPS

\* The store is the end of what was recorded, entry by entry.
StoreInv ==
    /\ Len(store) <= Capacity
    /\ Len(store) <= Len(history) - cleared
    /\ \A i \in 1 .. Len(store) : store[i] = history[Len(history) - Len(store) + i]
    /\ Len(store) < Len(history) - cleared => Len(store) > Capacity - Drained

\* The window's copy is a piece of it that lies behind the last clear.
IsPiece(first) ==
    /\ first + Len(http_entries) <= Len(history) + 1
    /\ \A i \in 1 .. Len(http_entries) : http_entries[i] = history[first + i - 1]

ViewInv ==
    /\ ui = "clearing" => http_entries = <<>>
    /\ \E first \in cleared + 1 .. Len(history) + 1 : IsPiece(first)

\* No entry is recorded twice: ids are taken once, and pushed once.
IdInv ==
    /\ \A r \in Recorders : entry_id[r] < next_id
    /\ \A r, s \in Recorders : entry_id[r] = entry_id[s] /\ entry_id[r] # 0 => r = s
    /\ \A i \in 1 .. Len(history) : history[i] < next_id
    /\ \A i \in 1 .. Len(history), r \in Recorders : history[i] # entry_id[r]
    /\ \A i, j \in 1 .. Len(history) : history[i] = history[j] => i = j

Inv == TypeOK /\ StoreInv /\ ViewInv /\ IdInv

\* Nothing is recorded, shown or taken when the program starts.
LEMMA InitEstablishesInv == Init => Inv
<1>. SUFFICES ASSUME Init PROVE Inv
  OBVIOUS
<1>1. <<>> \in Seq(Ids) /\ Len(<<>>) = 0
  BY EmptySeq
<1>2. TypeOK
  BY <1>1, CapacityAssumption DEF Init, TypeOK
<1>3. StoreInv
  BY <1>1, CapacityAssumption DEF Init, StoreInv
<1>4. ViewInv
  <2>1. 1 \in cleared + 1 .. Len(history) + 1 /\ IsPiece(1)
    BY <1>1 DEF Init, IsPiece
  <2>. QED BY <2>1 DEF ViewInv, Init
<1>5. IdInv
  BY <1>1 DEF Init, IdInv
<1>. QED BY <1>2, <1>3, <1>4, <1>5 DEF Inv

\* Taking an id changes nothing but the counter and the thread's own id.
LEMMA TakeIdKeepsInv ==
    ASSUME Inv, NEW r \in Recorders, TakeId(r)
    PROVE  Inv'
<1>. USE DEF TakeId
<1>1. next_id \in Ids /\ next_id \in Nat /\ MaxEntries \in Nat
  BY CapacityAssumption DEF Ids
<1>2. entry_id' \in [Recorders -> 0 .. MaxEntries] /\ next_id' \in 1 .. MaxEntries + 1
  BY <1>1 DEF Inv, TypeOK, Ids
<1>3. TypeOK'
  BY <1>2 DEF Inv, TypeOK
<1>4. StoreInv' /\ ViewInv'
  BY DEF Inv, StoreInv, ViewInv, IsPiece
<1>5. \A s \in Recorders : entry_id'[s] = IF s = r THEN next_id ELSE entry_id[s]
  BY DEF Inv, TypeOK
<1>6. \A i \in 1 .. Len(history) : history[i] \in Nat /\ history[i] < next_id
  <2>1. \A i \in 1 .. Len(history) : history[i] \in Ids
    BY ElementOfSeq DEF Inv, TypeOK
  <2>. QED BY <1>1, <2>1 DEF Inv, IdInv, Ids
<1>7. \A s \in Recorders : entry_id[s] \in Nat /\ entry_id[s] < next_id
  BY DEF Inv, TypeOK, IdInv
<1>8. IdInv'
  BY <1>1, <1>5, <1>6, <1>7 DEF Inv, IdInv
<1>. QED BY <1>3, <1>4, <1>8 DEF Inv

\* What a full store keeps is its end.
LEMMA KeptIsTheEnd ==
    ASSUME Inv
    PROVE  LET kept == IF Len(store) >= Capacity
                         THEN SubSeq(store, Drained + 1, Len(store)) ELSE store
           IN  /\ kept \in Seq(Ids)
               /\ Len(kept) = IF Len(store) >= Capacity THEN Len(store) - Drained ELSE Len(store)
               /\ \A i \in 1 .. Len(kept) : kept[i] = history[Len(history) - Len(kept) + i]
<1>. DEFINE kept == IF Len(store) >= Capacity
                      THEN SubSeq(store, Drained + 1, Len(store)) ELSE store
<1>0. store \in Seq(Ids) /\ Len(store) \in Nat /\ Len(history) \in Nat
  BY LenProperties DEF Inv, TypeOK
<1>1. CASE Len(store) >= Capacity
  <2>1. Len(store) = Capacity /\ Drained \in 1 .. Len(store)
    BY <1>0, <1>1, CapacityAssumption DEF Inv, StoreInv
  <2>2. \A i \in Drained + 1 .. Len(store) : store[i] \in Ids
    BY <1>0, <2>1, ElementOfSeq
  <2>3. /\ SubSeq(store, Drained + 1, Len(store)) \in Seq(Ids)
        /\ Len(SubSeq(store, Drained + 1, Len(store))) = Len(store) - Drained
        /\ \A i \in 1 .. Len(store) - Drained :
               SubSeq(store, Drained + 1, Len(store))[i] = store[Drained + i]
    <3>. DEFINE m == Drained + 1
                n == Len(store)
    <3>1. m \in Int /\ n \in Int /\ n - m + 1 = Len(store) - Drained
      BY <1>0, <2>1
    <3>2. /\ SubSeq(store, m, n) \in Seq(Ids)
          /\ Len(SubSeq(store, m, n)) = IF m <= n THEN n - m + 1 ELSE 0
          /\ \A i \in 1 .. n - m + 1 : SubSeq(store, m, n)[i] = store[m + i - 1]
      <4>. HIDE DEF m, n
      <4>1. \A i \in m .. n : store[i] \in Ids
        BY <2>2 DEF m, n
      <4>. QED BY <3>1, <4>1, SubSeqProperties
    <3>3. \A i \in 1 .. Len(store) - Drained : m + i - 1 = Drained + i
      BY <1>0, <2>1
    <3>. QED BY <1>0, <2>1, <3>1, <3>2, <3>3
  <2>4. \A i \in 1 .. Len(store) - Drained :
            store[Drained + i] = history[Len(history) - (Len(store) - Drained) + i]
    <3>. TAKE i \in 1 .. Len(store) - Drained
    <3>1. Drained + i \in 1 .. Len(store)
      BY <1>0, <2>1
    <3>2. store[Drained + i] = history[Len(history) - Len(store) + (Drained + i)]
      BY <3>1 DEF Inv, StoreInv
    <3>3. Len(history) - Len(store) + (Drained + i) = Len(history) - (Len(store) - Drained) + i
      BY <1>0, <2>1
    <3>. QED BY <3>2, <3>3
  <2>. QED BY <1>1, <2>3, <2>4
<1>2. CASE ~(Len(store) >= Capacity)
  BY <1>0, <1>2 DEF Inv, StoreInv
<1>. QED BY <1>1, <1>2

\* Pushing an entry lengthens the store, less what it drains, and the record.
LEMMA PushEntryKeepsInv ==
    ASSUME Inv, NEW r \in Recorders, PushEntry(r)
    PROVE  Inv'
<1>. DEFINE kept == IF Len(store) >= Capacity
                      THEN SubSeq(store, Drained + 1, Len(store)) ELSE store
            id   == entry_id[r]
<1>1. /\ id # 0 /\ store' = Append(kept, id) /\ history' = Append(history, id)
      /\ entry_id' = [entry_id EXCEPT ![r] = 0]
      /\ UNCHANGED <<next_id, http_entries, ui, cleared>>
  BY DEF PushEntry, Record
<1>2. /\ kept \in Seq(Ids)
      /\ Len(kept) = IF Len(store) >= Capacity THEN Len(store) - Drained ELSE Len(store)
      /\ \A i \in 1 .. Len(kept) : kept[i] = history[Len(history) - Len(kept) + i]
  BY KeptIsTheEnd
<1>. HIDE DEF kept, id
<1>3. id \in Ids
  BY <1>1 DEF id, Inv, TypeOK, Ids
<1>4. /\ store' \in Seq(Ids) /\ Len(store') = Len(kept) + 1
      /\ \A i \in 1 .. Len(kept) : store'[i] = kept[i]
      /\ store'[Len(kept) + 1] = id
  BY <1>1, <1>2, <1>3, AppendProperties
<1>5. /\ history' \in Seq(Ids) /\ Len(history') = Len(history) + 1
      /\ \A i \in 1 .. Len(history) : history'[i] = history[i]
      /\ history'[Len(history) + 1] = id
  BY <1>1, <1>3, AppendProperties DEF Inv, TypeOK
<1>6. /\ Len(store) \in Nat /\ Len(history) \in Nat /\ Len(kept) \in Nat
      /\ Len(http_entries) \in Nat /\ cleared \in Nat
      /\ Capacity \in Nat /\ Drained \in 1 .. Capacity
  BY <1>2, CapacityAssumption, LenProperties DEF Inv, TypeOK
<1>7. TypeOK'
  <2>1. entry_id' \in [Recorders -> 0 .. MaxEntries]
    BY <1>1, CapacityAssumption DEF Inv, TypeOK
  <2>2. cleared' \in 0 .. Len(history')
    BY <1>1, <1>5, <1>6 DEF Inv, TypeOK
  <2>. QED BY <1>1, <1>4, <1>5, <2>1, <2>2 DEF Inv, TypeOK
<1>8. StoreInv'
  <2>1. Len(store') <= Capacity /\ Len(store') <= Len(history') - cleared'
    BY <1>1, <1>2, <1>4, <1>5, <1>6 DEF Inv, StoreInv
  <2>2. \A i \in 1 .. Len(store') : store'[i] = history'[Len(history') - Len(store') + i]
    <3>. TAKE i \in 1 .. Len(store')
    <3>1. CASE i = Len(kept) + 1
      BY <1>4, <1>5, <1>6, <3>1
    <3>2. CASE i # Len(kept) + 1
      <4>1. i \in 1 .. Len(kept)
        BY <1>4, <1>6, <3>2
      <4>2. store'[i] = history[Len(history) - Len(kept) + i]
        BY <1>2, <1>4, <4>1
      <4>3. Len(history) - Len(kept) + i \in 1 .. Len(history)
        BY <1>2, <1>6, <4>1 DEF Inv, StoreInv
      <4>4. Len(history') - Len(store') + i = Len(history) - Len(kept) + i
        BY <1>4, <1>5, <1>6, <4>1
      <4>. QED BY <1>5, <4>2, <4>3, <4>4
    <3>. QED BY <3>1, <3>2
  <2>3. Len(store') < Len(history') - cleared' => Len(store') > Capacity - Drained
    BY <1>1, <1>2, <1>4, <1>5, <1>6 DEF Inv, StoreInv
  <2>. QED BY <2>1, <2>2, <2>3 DEF StoreInv
<1>9. ViewInv'
  <2>1. PICK first \in cleared + 1 .. Len(history) + 1 : IsPiece(first)
    BY DEF Inv, ViewInv
  <2>2. first \in cleared' + 1 .. Len(history') + 1
    BY <1>1, <1>5, <1>6, <2>1
  <2>3. IsPiece(first)'
    <3>1. first + Len(http_entries) <= Len(history) + 1
      BY <2>1 DEF IsPiece
    <3>2. \A i \in 1 .. Len(http_entries) : first + i - 1 \in 1 .. Len(history)
      BY <1>6, <2>1, <3>1
    <3>3. \A i \in 1 .. Len(http_entries) : http_entries[i] = history[first + i - 1]
      BY <2>1 DEF IsPiece
    <3>4. \A i \in 1 .. Len(http_entries) : http_entries[i] = history'[first + i - 1]
      BY <1>5, <3>2, <3>3
    <3>. QED BY <1>1, <1>5, <1>6, <2>1, <3>1, <3>4 DEF IsPiece
  <2>. QED BY <1>1, <2>2, <2>3 DEF Inv, ViewInv
<1>10. IdInv'
  <2>1. \A s \in Recorders : entry_id'[s] = IF s = r THEN 0 ELSE entry_id[s]
    BY <1>1 DEF Inv, TypeOK
  <2>2. \A i \in 1 .. Len(history') : history'[i] = IF i = Len(history) + 1 THEN id ELSE history[i]
    BY <1>5, <1>6
  <2>3. \A i \in 1 .. Len(history) : history[i] # 0
    <3>1. \A i \in 1 .. Len(history) : history[i] \in Ids
      BY ElementOfSeq DEF Inv, TypeOK
    <3>. QED BY <3>1, CapacityAssumption DEF Ids
  <2>4. \A i \in 1 .. Len(history') : i # Len(history) + 1 => i \in 1 .. Len(history)
    BY <1>5, <1>6
  <2>5. 0 < next_id
    BY CapacityAssumption DEF Inv, TypeOK
  <2>6. \A s \in Recorders : entry_id'[s] < next_id'
    BY <1>1, <2>1, <2>5 DEF Inv, IdInv
  <2>7. \A s, t \in Recorders : entry_id'[s] = entry_id'[t] /\ entry_id'[s] # 0 => s = t
    BY <2>1 DEF Inv, IdInv
  <2>8. \A i \in 1 .. Len(history') : history'[i] < next_id'
    BY <1>1, <2>2, <2>4 DEF Inv, IdInv, id
  <2>9. \A i \in 1 .. Len(history'), s \in Recorders : history'[i] # entry_id'[s]
    BY <1>1, <2>1, <2>2, <2>3, <2>4 DEF Inv, IdInv, id
  <2>10. \A i, j \in 1 .. Len(history') : history'[i] = history'[j] => i = j
    BY <2>2, <2>4 DEF Inv, IdInv, id
  <2>. QED BY <2>6, <2>7, <2>8, <2>9, <2>10 DEF IdInv
<1>. QED BY <1>7, <1>8, <1>9, <1>10 DEF Inv

\* The window's copy becomes the store, which lies behind the last clear.
LEMMA SyncKeepsInv ==
    ASSUME Inv, SyncLiveTraffic
    PROVE  Inv'
<1>. USE DEF SyncLiveTraffic
<1>1. Len(store) \in Nat /\ Len(history) \in Nat /\ cleared \in Nat
  BY LenProperties DEF Inv, TypeOK
<1>2. TypeOK' /\ StoreInv' /\ IdInv'
  BY DEF Inv, TypeOK, StoreInv, IdInv
<1>3. ViewInv'
  <2>. DEFINE first == Len(history) - Len(store) + 1
  <2>1. first \in cleared' + 1 .. Len(history') + 1
    BY <1>1 DEF Inv, StoreInv
  <2>2. \A i \in 1 .. Len(store) : first + i - 1 = Len(history) - Len(store) + i
    BY <1>1
  <2>3. IsPiece(first)'
    BY <1>1, <2>2 DEF Inv, StoreInv, IsPiece
  <2>. QED BY <2>1, <2>3 DEF ViewInv
<1>. QED BY <1>2, <1>3 DEF Inv

\* The first half of a clear leaves an empty piece.
LEMMA ClickClearKeepsInv ==
    ASSUME Inv, ClickClear
    PROVE  Inv'
<1>. USE DEF ClickClear
<1>1. Len(history) \in Nat /\ cleared \in 0 .. Len(history)
  BY LenProperties DEF Inv, TypeOK
<1>2. <<>> \in Seq(Ids) /\ Len(<<>>) = 0
  BY EmptySeq
<1>3. TypeOK' /\ StoreInv' /\ IdInv'
  BY <1>2 DEF Inv, TypeOK, StoreInv, IdInv
<1>4. ViewInv'
  <2>1. Len(history) + 1 \in cleared' + 1 .. Len(history') + 1
    BY <1>1
  <2>2. IsPiece(Len(history) + 1)'
    BY <1>1, <1>2 DEF IsPiece
  <2>. QED BY <1>2, <2>1, <2>2 DEF ViewInv
<1>. QED BY <1>3, <1>4 DEF Inv

\* So does the second half, which moves the mark of the last clear to the end.
LEMMA ClearStoreKeepsInv ==
    ASSUME Inv, ClearStore
    PROVE  Inv'
<1>. USE DEF ClearStore
<1>1. Len(history) \in Nat /\ Capacity \in Nat /\ http_entries = <<>>
  BY LenProperties, CapacityAssumption DEF Inv, TypeOK, ViewInv
<1>2. <<>> \in Seq(Ids) /\ Len(<<>>) = 0
  BY EmptySeq
<1>3. TypeOK' /\ StoreInv' /\ IdInv'
  BY <1>1, <1>2 DEF Inv, TypeOK, StoreInv, IdInv
<1>4. ViewInv'
  <2>1. Len(history) + 1 \in cleared' + 1 .. Len(history') + 1
    BY <1>1
  <2>2. IsPiece(Len(history) + 1)'
    BY <1>1, <1>2 DEF IsPiece
  <2>. QED BY <1>1, <1>2, <2>1, <2>2 DEF ViewInv
<1>. QED BY <1>3, <1>4 DEF Inv

\* Every step keeps the invariant.
LEMMA NextKeepsInv == Inv /\ [Next]_vars => Inv'
<1>. SUFFICES ASSUME Inv, [Next]_vars PROVE Inv'
  OBVIOUS
<1>1. CASE UNCHANGED vars
  BY <1>1 DEF vars, Inv, TypeOK, StoreInv, ViewInv, IsPiece, IdInv
<1>2. CASE Next
  BY <1>2, TakeIdKeepsInv, PushEntryKeepsInv, SyncKeepsInv, ClickClearKeepsInv,
     ClearStoreKeepsInv DEF Next
<1>. QED BY <1>1, <1>2

\* The invariant holds in every reachable state.
THEOREM Invariance == Spec => []Inv
BY InitEstablishesInv, NextKeepsInv, PTL DEF Spec

\* Every variable keeps its type.
THEOREM TypeCorrect == Spec => []TypeOK
<1>1. Inv => TypeOK
  BY DEF Inv
<1>. QED BY <1>1, Invariance, PTL

\* Whatever the capacity and the size of the drain, the store holds the newest entries
\* without a gap and loses none before it is full.
THEOREM StoreIsComplete == Spec => []StoreKeepsNewest
<1>1. Inv => StoreKeepsNewest
  <2>. SUFFICES ASSUME Inv PROVE StoreKeepsNewest
    OBVIOUS
  <2>1. /\ store \in Seq(Ids) /\ history \in Seq(Ids)
        /\ Len(store) \in Nat /\ Len(history) \in Nat /\ cleared \in Nat
        /\ Len(store) <= Len(history)
    BY LenProperties DEF Inv, TypeOK, StoreInv
  <2>. DEFINE m == Len(history) - Len(store) + 1
              n == Len(history)
  <2>2. m \in Int /\ n \in Int /\ n - m + 1 = Len(store) /\ (m <= n \/ Len(store) = 0)
    BY <2>1
  <2>3. \A i \in m .. n : history[i] \in Ids
    BY <2>1, ElementOfSeq
  <2>4. /\ SubSeq(history, m, n) \in Seq(Ids)
        /\ Len(SubSeq(history, m, n)) = Len(store)
        /\ \A i \in 1 .. Len(store) : SubSeq(history, m, n)[i] = history[m + i - 1]
    <3>. HIDE DEF m, n
    <3>. QED BY <2>1, <2>2, <2>3, SubSeqProperties
  <2>5. \A i \in 1 .. Len(store) : store[i] = SubSeq(history, m, n)[i]
    <3>1. \A i \in 1 .. Len(store) : m + i - 1 = Len(history) - Len(store) + i
      BY <2>1
    <3>. QED BY <2>4, <3>1 DEF Inv, StoreInv
  <2>6. store = SubSeq(history, m, n)
    <3>. HIDE DEF m, n
    <3>. QED BY <2>1, <2>4, <2>5, SeqEqual
  <2>. QED BY <2>6 DEF Inv, StoreInv, StoreKeepsNewest, Newest
<1>. QED BY <1>1, Invariance, PTL

\* What the window shows is always a gapless piece of what was recorded.
THEOREM ViewIsAPiece == Spec => []ViewIsASnapshot
<1>1. Inv => ViewIsASnapshot
  <2>. SUFFICES ASSUME Inv PROVE ViewIsASnapshot
    OBVIOUS
  <2>1. /\ http_entries \in Seq(Ids) /\ history \in Seq(Ids)
        /\ Len(http_entries) \in Nat /\ Len(history) \in Nat /\ cleared \in Nat
    BY LenProperties DEF Inv, TypeOK
  <2>2. PICK first \in cleared + 1 .. Len(history) + 1 : IsPiece(first)
    BY DEF Inv, ViewInv
  <2>3. first \in 1 .. Len(history) + 1 /\ first + Len(http_entries) <= Len(history) + 1
    BY <2>1, <2>2 DEF IsPiece
  <2>. DEFINE n == first + Len(http_entries) - 1
  <2>4. first \in Int /\ n \in Int /\ n - first + 1 = Len(http_entries)
        /\ (first <= n \/ Len(http_entries) = 0)
    BY <2>1, <2>3
  <2>5. \A i \in first .. n : history[i] \in Ids
    <3>. TAKE i \in first .. n
    <3>1. i \in 1 .. Len(history)
      BY <2>1, <2>3
    <3>. QED BY <2>1, <3>1, ElementOfSeq
  <2>6. /\ SubSeq(history, first, n) \in Seq(Ids)
        /\ Len(SubSeq(history, first, n)) = Len(http_entries)
        /\ \A i \in 1 .. Len(http_entries) : SubSeq(history, first, n)[i] = history[first + i - 1]
    <3>. HIDE DEF n
    <3>. QED BY <2>1, <2>4, <2>5, SubSeqProperties
  <2>7. http_entries = SubSeq(history, first, n)
    <3>1. \A i \in 1 .. Len(http_entries) : http_entries[i] = SubSeq(history, first, n)[i]
      BY <2>2, <2>6 DEF IsPiece
    <3>. HIDE DEF n
    <3>. QED BY <2>1, <2>6, <3>1, SeqEqual
  <2>. QED BY <2>3, <2>7 DEF ViewIsASnapshot
<1>. QED BY <1>1, Invariance, PTL

\* What was cleared does not come back: the piece shown lies behind the last clear, and
\* no entry is recorded twice.
THEOREM ClearedIsGone == Spec => []ClearedStaysCleared
<1>1. Inv => ClearedStaysCleared
  <2>. SUFFICES ASSUME Inv, NEW i \in 1 .. cleared, NEW j \in DOMAIN http_entries
                PROVE  http_entries[j] # history[i]
    BY DEF ClearedStaysCleared
  <2>1. /\ Len(http_entries) \in Nat /\ DOMAIN http_entries = 1 .. Len(http_entries)
        /\ Len(history) \in Nat /\ cleared \in 0 .. Len(history)
    BY LenProperties DEF Inv, TypeOK
  <2>2. PICK first \in cleared + 1 .. Len(history) + 1 : IsPiece(first)
    BY DEF Inv, ViewInv
  <2>3. http_entries[j] = history[first + j - 1]
    BY <2>1, <2>2 DEF IsPiece
  <2>4. first + j - 1 \in 1 .. Len(history) /\ i \in 1 .. Len(history) /\ i # first + j - 1
    BY <2>1, <2>2 DEF IsPiece
  <2>. QED BY <2>3, <2>4 DEF Inv, IdInv
<1>. QED BY <1>1, Invariance, PTL

\* As long as nothing was drained since the last clear, a copy as long as the store is the
\* store: comparing lengths, as sync_live_traffic does, is enough to notice what is missing.
THEOREM LengthsTellCopies ==
    Spec => [](Len(store) = Len(history) - cleared /\ Len(http_entries) = Len(store)
                 => http_entries = store)
<1>. DEFINE Told == Len(store) = Len(history) - cleared /\ Len(http_entries) = Len(store)
                      => http_entries = store
<1>1. Inv => Told
  <2>. SUFFICES ASSUME Inv, Len(store) = Len(history) - cleared, Len(http_entries) = Len(store)
                PROVE  http_entries = store
    OBVIOUS
  <2>1. /\ store \in Seq(Ids) /\ http_entries \in Seq(Ids)
        /\ Len(store) \in Nat /\ Len(history) \in Nat /\ cleared \in 0 .. Len(history)
    BY LenProperties DEF Inv, TypeOK
  <2>2. PICK first \in cleared + 1 .. Len(history) + 1 : IsPiece(first)
    BY DEF Inv, ViewInv
  <2>3. first = cleared + 1
    BY <2>1, <2>2 DEF IsPiece
  <2>4. \A i \in 1 .. Len(store) : first + i - 1 = Len(history) - Len(store) + i
    BY <2>1, <2>3
  <2>5. \A i \in 1 .. Len(store) : http_entries[i] = store[i]
    BY <2>2, <2>4 DEF IsPiece, Inv, StoreInv
  <2>. QED BY <2>1, <2>5, SeqEqual
<1>. HIDE DEF Told
<1>2. Spec => []Told
  BY <1>1, Invariance, PTL
<1>. QED BY <1>2 DEF Told
===============================================================================
