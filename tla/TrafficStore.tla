----------------------------- MODULE TrafficStore -----------------------------
(***************************************************************************)
(* The HTTP history: TRAFFIC_STORE of proxy/store.rs, filled by the        *)
(* handler threads, and http_entries, the copy of it the window shows      *)
(* (sync_live_traffic and the "Clear" button, app.rs).  WS_FRAMES and its  *)
(* copy ws_frames are kept the same way, but for the button.               *)
(*                                                                         *)
(* An entry is its id.  A thread takes the id first and pushes the entry   *)
(* later, so entries need not lie in the order of their ids.               *)
(***************************************************************************)
EXTENDS Naturals, Sequences

CONSTANTS
    Recorders,     \* handler threads
    Capacity,      \* MAX_STORE_ENTRIES, 5000 in the program
    Drained,       \* entries removed from a full store, 1000 in the program
    MaxEntries     \* bound: entries ever recorded

ASSUME CapacityAssumption ==
    /\ Capacity \in Nat /\ Drained \in 1 .. Capacity
    /\ MaxEntries \in Nat

Ids == 1 .. MaxEntries

VARIABLES
    next_id,       \* NEXT_ID
    entry_id,      \* the id a thread took for the entry it has yet to push, or 0
    store,         \* TRAFFIC_STORE
    http_entries,  \* the copy the window shows
    ui,            \* "idle" or "clearing"
    history,       \* history: everything ever pushed, in order
    cleared        \* history: how much of it the last clear saw

vars == <<next_id, entry_id, store, http_entries, ui, history, cleared>>

TypeOK ==
    /\ next_id \in 1 .. MaxEntries + 1
    /\ entry_id \in [Recorders -> 0 .. MaxEntries]
    /\ store \in Seq(Ids) /\ http_entries \in Seq(Ids) /\ history \in Seq(Ids)
    /\ ui \in {"idle", "clearing"}
    /\ cleared \in 0 .. Len(history)

\* Broken: counts ids from 0, which stands for "none".
InitIdsFromZero ==
    /\ next_id = 0
    /\ entry_id = [r \in Recorders |-> 0]
    /\ store = <<>> /\ http_entries = <<>> /\ history = <<>>
    /\ ui = "idle"
    /\ cleared = 0

Init ==
    /\ next_id = 1
    /\ entry_id = [r \in Recorders |-> 0]
    /\ store = <<>> /\ http_entries = <<>> /\ history = <<>>
    /\ ui = "idle"
    /\ cleared = 0

-----------------------------------------------------------------------------
\* The struct is built, next_entry_id() included, before push_captured_entry locks.
TakeId(r) ==
    /\ entry_id[r] = 0 /\ next_id \in Ids
    /\ entry_id' = [entry_id EXCEPT ![r] = next_id]
    /\ next_id' = next_id + 1
    /\ UNCHANGED <<store, http_entries, ui, history, cleared>>

Record(r, kept) ==
    /\ entry_id[r] # 0
    /\ store' = Append(kept, entry_id[r])
    /\ history' = Append(history, entry_id[r])
    /\ entry_id' = [entry_id EXCEPT ![r] = 0]
    /\ UNCHANGED <<next_id, http_entries, ui, cleared>>

\* Broken: drains one entry too late.
PushEntryOverfull(r) ==
    Record(r, IF Len(store) > Capacity THEN SubSeq(store, Drained + 1, Len(store)) ELSE store)

\* push_captured_entry: a full store first loses its oldest entries.
PushEntry(r) ==
    Record(r, IF Len(store) >= Capacity THEN SubSeq(store, Drained + 1, Len(store)) ELSE store)

\* Broken: copies only what lies beyond what the window has.
SyncIncrementally ==
    /\ ui = "idle"
    /\ Len(store) # Len(http_entries)
    /\ http_entries' = http_entries \o SubSeq(store, Len(http_entries) + 1, Len(store))
    /\ UNCHANGED <<next_id, entry_id, store, ui, history, cleared>>

\* sync_live_traffic: only the lengths are compared.
SyncLiveTraffic ==
    /\ ui = "idle"
    /\ Len(store) # Len(http_entries)
    /\ http_entries' = store
    /\ UNCHANGED <<next_id, entry_id, store, ui, history, cleared>>

\* Broken: leaves the window's copy to the next sync.
ClickClearKeepsView ==
    /\ ui = "idle"
    /\ ui' = "clearing"
    /\ UNCHANGED <<next_id, entry_id, store, http_entries, history, cleared>>

\* "Clear": the window's copy first ...
ClickClear ==
    /\ ui = "idle"
    /\ http_entries' = <<>>
    /\ ui' = "clearing"
    /\ UNCHANGED <<next_id, entry_id, store, history, cleared>>

\* ... then clear_captured_entries, with whatever was pushed in between.
ClearStore ==
    /\ ui = "clearing"
    /\ store' = <<>>
    /\ cleared' = Len(history)
    /\ ui' = "idle"
    /\ UNCHANGED <<next_id, entry_id, http_entries, history>>

Next ==
    \/ \E r \in Recorders : TakeId(r) \/ PushEntry(r)
    \/ SyncLiveTraffic \/ ClickClear \/ ClearStore

Spec == Init /\ [][Next]_vars

\* The window repaints every 100 ms, and finishes a click.
FairSpec == Spec /\ WF_vars(SyncLiveTraffic) /\ WF_vars(ClearStore)

-----------------------------------------------------------------------------
(* Properties *)

\* The last k entries of what was recorded.
Newest(k) == SubSeq(history, Len(history) - k + 1, Len(history))

\* The store never outgrows its capacity, holds the newest entries without a gap, and
\* gives up an entry only to a clear or, when full, to the drain.
StoreKeepsNewest ==
    /\ Len(store) <= Capacity
    /\ Len(store) <= Len(history) - cleared
    /\ store = Newest(Len(store))
    /\ Len(store) < Len(history) - cleared => Len(store) > Capacity - Drained

\* However stale, what the window shows is a gapless piece of what was recorded.
ViewIsASnapshot ==
    \E first \in 1 .. Len(history) + 1 :
        /\ first + Len(http_entries) <= Len(history) + 1
        /\ http_entries = SubSeq(history, first, first + Len(http_entries) - 1)

\* What was cleared does not come back to the window.
ClearedStaysCleared ==
    ui = "idle" => \A i \in 1 .. cleared : \A j \in DOMAIN http_entries :
                       http_entries[j] # history[i]

InStore(id) == \E i \in DOMAIN store : store[i] = id
InWindow(id) == \E i \in DOMAIN http_entries : http_entries[i] = id

\* An entry in the store is shown in the end, or leaves the store before that.
NewEntriesAppear == \A id \in Ids : InStore(id) ~> InWindow(id) \/ ~InStore(id)

\* So it is as long as the store was not drained since the last clear: then lengths
\* tell the store from any copy made of it.
UndrainedEntriesAppear ==
    LET undrained == Len(store) = Len(history) - cleared
    IN  \A id \in Ids : InStore(id) /\ undrained ~> InWindow(id) \/ ~InStore(id) \/ ~undrained
=============================================================================
