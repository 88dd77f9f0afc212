------------------------------- MODULE Intruder -------------------------------
(***************************************************************************)
(* The intruder (intruder/mod.rs, ui/bruteforce.rs): the request template  *)
(* with its marked positions, the payload sets, their assignment to the    *)
(* positions, and the attack, which advances by one batch per frame while  *)
(* its panel is drawn and everything else stays editable.                  *)
(*                                                                         *)
(* A template is the number of its position marks: two of them make a      *)
(* position.  Indices count from 1.  A combination is what its row shows,  *)
(* its label, with the one payload that is tried.  A label is the tuple of *)
(* its payloads, in a Sniper attack <<position, payload>>.                 *)
(***************************************************************************)
EXTENDS Naturals, Sequences, SequencesExt, FiniteSetsExt

CONSTANTS
    Lists,         \* the payload lists a user may enter
    Typed,         \* what the concurrency field may hold; 0: also text that is no number
    MaxMarks,      \* bound: position marks in a template
    MaxSets        \* bound: payload sets

ASSUME IntruderAssumption ==
    /\ \A l \in Lists : l \in Seq(UNION {Range(k) : k \in Lists})
    /\ Typed \subseteq Nat
    /\ MaxMarks \in Nat /\ MaxSets \in Nat

AttackTypes == {"Sniper", "BatteringRam", "Pitchfork", "ClusterBomb"}
Payloads    == UNION {Range(l) : l \in Lists}

VARIABLES
    body_template,         \* the number of marks
    payload_sets, active_set_index,
    position_set_indices,  \* which set each position takes its payloads from
    attack_type, concurrency,
    running, pending_queue, results,
    plan                   \* history: the combinations of the last attack started

settings == <<body_template, payload_sets, active_set_index, attack_type, concurrency>>
attack   == <<running, pending_queue, results, plan>>
intruder == <<settings, position_set_indices, attack>>

InitIntruder ==
    /\ body_template = 4
    /\ payload_sets = <<>> /\ active_set_index = 1
    /\ position_set_indices = <<>>
    /\ attack_type = "Sniper" /\ concurrency = 1
    /\ running = FALSE /\ pending_queue = <<>> /\ results = <<>> /\ plan = <<>>

-----------------------------------------------------------------------------
(* IntruderEngine *)

count_positions == body_template \div 2
Positions == 1 .. count_positions

Lines(set) == IF set \in DOMAIN payload_sets THEN payload_sets[set] ELSE <<>>
Assigned(pos) == Lines(position_set_indices[pos])

\* Broken: takes the first list at every depth.
CartesianOneList ==
    LET rest[pos \in 1 .. count_positions + 1] ==
            IF pos > count_positions THEN << <<>> >>
            ELSE FlattenSeq([k \in DOMAIN Assigned(1) |->
                     [i \in DOMAIN rest[pos + 1] |-> <<Assigned(1)[k]>> \o rest[pos + 1][i]]])
    IN  rest[1]

\* The first position varies slowest.
Cartesian ==
    LET rest[pos \in 1 .. count_positions + 1] ==
            IF pos > count_positions THEN << <<>> >>
            ELSE FlattenSeq([k \in DOMAIN Assigned(pos) |->
                     [i \in DOMAIN rest[pos + 1] |-> <<Assigned(pos)[k]>> \o rest[pos + 1][i]]])
    IN  rest[1]

Shortest == Min({Len(Assigned(pos)) : pos \in Positions})

Labels ==
    CASE count_positions = 0 -> <<>>
      [] count_positions > 0 /\ attack_type = "Sniper" ->
            FlattenSeq([pos \in Positions |->
                [k \in DOMAIN Assigned(pos) |-> <<pos, Assigned(pos)[k]>>]])
      [] count_positions > 0 /\ attack_type = "BatteringRam" ->
            [k \in DOMAIN Assigned(1) |-> <<Assigned(1)[k]>>]
      [] count_positions > 0 /\ attack_type = "Pitchfork" ->
            [k \in 1 .. Shortest |-> [pos \in Positions |-> Assigned(pos)[k]]]
      [] count_positions > 0 /\ attack_type = "ClusterBomb" -> Cartesian

\* Of several payloads only the first is kept beside the label.
Tried(label) == IF attack_type = "Sniper" THEN label[2] ELSE label[1]

build_combinations ==
    LET shown == Labels
    IN  [k \in DOMAIN shown |-> [label |-> shown[k], payload |-> Tried(shown[k])]]

-----------------------------------------------------------------------------
(* A frame: positions are padded or cut, then a batch may be taken, then the widgets *)

PaddedIndices ==
    [pos \in Positions |->
        IF pos <= Len(position_set_indices) THEN position_set_indices[pos]
        ELSE IF payload_sets = <<>> THEN 1 ELSE ((pos - 1) % Len(payload_sets)) + 1]

Pad ==
    /\ Len(position_set_indices) # count_positions
    /\ position_set_indices' = PaddedIndices
    /\ UNCHANGED <<settings, attack>>

EngineFrame == UNCHANGED <<settings, position_set_indices, plan>>

\* Broken: takes the field as it is.
BatchAsTyped == concurrency

BatchSize == IF concurrency = 0 THEN 1 ELSE concurrency

\* A batch leaves the end of the queue; its results are numbered on.  They are made up on
\* the spot from the payload tried: no request is sent.
TakeBatch ==
    LET rest == Len(pending_queue)
        n    == IF BatchSize < rest THEN BatchSize ELSE rest
    IN  /\ running /\ rest > 0
        /\ results' = results \o [k \in 1 .. n |->
               [id |-> Len(results) + k, combination |-> pending_queue[rest + 1 - k]]]
        /\ pending_queue' = SubSeq(pending_queue, 1, rest - n)
        /\ UNCHANGED running
        /\ EngineFrame

Finish ==
    /\ running /\ pending_queue = <<>>
    /\ running' = FALSE
    /\ UNCHANGED <<pending_queue, results>>
    /\ EngineFrame

Advance == TakeBatch \/ Finish

\* What a frame does before its widgets are drawn has been done.
Drawn == Len(position_set_indices) = count_positions /\ ~(running /\ pending_queue = <<>>)

-----------------------------------------------------------------------------
(* The widgets *)

\* Broken: pops from the end of what it did not reverse.
ClickStartUnreversed ==
    /\ Drawn /\ ~running
    /\ running' = TRUE
    /\ results' = <<>>
    /\ plan' = build_combinations
    /\ pending_queue' = plan'
    /\ UNCHANGED <<settings, position_set_indices>>

ClickStart ==
    /\ Drawn /\ ~running
    /\ running' = TRUE
    /\ results' = <<>>
    /\ plan' = build_combinations
    /\ pending_queue' = Reverse(plan')
    /\ UNCHANGED <<settings, position_set_indices>>

ClickStop ==
    /\ Drawn /\ running
    /\ running' = FALSE
    /\ pending_queue' = <<>>
    /\ UNCHANGED <<settings, position_set_indices, results, plan>>

\* Whatever changes the template: the editor, Clear, Auto (as many positions as the
\* request has parameters), a request sent here from elsewhere.
SetTemplate(marks) ==
    /\ body_template' = marks
    /\ UNCHANGED <<payload_sets, active_set_index, attack_type, concurrency,
                   position_set_indices, attack>>

EditTemplate  == Drawn /\ \E marks \in 0 .. MaxMarks : SetTemplate(marks)
ClickClear    == Drawn /\ SetTemplate(0)
ClickAuto     == Drawn /\ \E params \in 0 .. MaxMarks \div 2 : SetTemplate(2 * params)
ClickAddMarks == Drawn /\ body_template + 2 <= MaxMarks /\ SetTemplate(body_template + 2)

SetPayloads(sets, index) ==
    /\ payload_sets' = sets
    /\ active_set_index' = index
    /\ UNCHANGED <<body_template, attack_type, concurrency, position_set_indices, attack>>

ClickAddSet(list) ==
    /\ Drawn /\ Len(payload_sets) < MaxSets
    /\ SetPayloads(Append(payload_sets, list), Len(payload_sets) + 1)

\* The positions keep their indices, and so may come to another set, or to none.
ClickDeleteSet ==
    LET left == RemoveAt(payload_sets, active_set_index)
    IN  /\ Drawn /\ payload_sets # <<>>
        /\ SetPayloads(left, IF active_set_index > Len(left) /\ left # <<>>
                               THEN Len(left) ELSE active_set_index)

SelectSet(set) == Drawn /\ SetPayloads(payload_sets, set)

EditSet(list) ==
    /\ Drawn /\ active_set_index \in DOMAIN payload_sets
    /\ SetPayloads([payload_sets EXCEPT ![active_set_index] = list], active_set_index)

AssignSet(pos, set) ==
    /\ Drawn
    /\ position_set_indices' = [position_set_indices EXCEPT ![pos] = set]
    /\ UNCHANGED <<settings, attack>>

SelectAttack(type) ==
    /\ Drawn
    /\ attack_type' = type
    /\ UNCHANGED <<body_template, payload_sets, active_set_index, concurrency,
                   position_set_indices, attack>>

TypeConcurrency(n) ==
    /\ Drawn
    /\ concurrency' = n
    /\ UNCHANGED <<body_template, payload_sets, active_set_index, attack_type,
                   position_set_indices, attack>>

ChangeSettings ==
    \/ EditTemplate \/ ClickClear \/ ClickAuto \/ ClickAddMarks \/ ClickDeleteSet
    \/ \E list \in Lists : ClickAddSet(list) \/ EditSet(list)
    \/ \E set \in DOMAIN payload_sets : SelectSet(set)
    \/ \E set \in DOMAIN payload_sets, pos \in Positions : AssignSet(pos, set)
    \/ \E type \in AttackTypes : SelectAttack(type)
    \/ \E n \in Typed : TypeConcurrency(n)

-----------------------------------------------------------------------------
(* Properties *)

\* The results are the plan made when the attack was started, in its order, whatever is
\* edited meanwhile; what is missing from them is still in the queue, or was given up.
AttackFollowsPlan ==
    /\ \A k \in DOMAIN results : results[k] = [id |-> k, combination |-> plan[k]]
    /\ running => Len(results) + Len(pending_queue) = Len(plan)
    /\ \A k \in DOMAIN pending_queue : pending_queue[k] = plan[Len(plan) + 1 - k]

Wanted ==
    CASE attack_type = "Sniper" -> UNION {{pos} \X Range(Assigned(pos)) : pos \in Positions}
      [] attack_type = "BatteringRam" -> {<<p>> : p \in Range(Assigned(1))}
      [] attack_type = "Pitchfork" ->
            {c \in [Positions -> Payloads] :
                \E k \in DOMAIN Assigned(1) : \A pos \in Positions :
                    k \in DOMAIN Assigned(pos) /\ c[pos] = Assigned(pos)[k]}
      [] attack_type = "ClusterBomb" ->
            {c \in [Positions -> Payloads] : \A pos \in Positions : c[pos] \in Range(Assigned(pos))}

NoRepeats == \A pos \in Positions : IsInjective(Assigned(pos))

\* The rows of an attack started now are labelled with every combination of its type and
\* no other, each of them once unless the user entered a payload twice.  What they try is
\* less: in all but a Sniper attack, payloads of the first position and no other
\* (combined_payloads.first(), intruder/mod.rs:73; combo.first(), :100).
EachCombinationOnce ==
    LET rows == build_combinations
    IN  Drawn /\ Positions # {} =>
            /\ {row.label : row \in Range(rows)} = Wanted
            /\ NoRepeats => Len(rows) = Cardinality(Wanted)
            /\ \A row \in Range(rows) : \E pos \in Positions :
                   /\ row.payload \in Range(Assigned(pos))
                   /\ attack_type # "Sniper" => pos = 1
=============================================================================
