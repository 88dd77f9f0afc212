---------------------------- MODULE WorkbenchProofs ----------------------------
(***************************************************************************)
(* Proofs about Workbench, for any payload lists, any requests, any number *)
(* of marks, sets and tabs: the intruder plans each combination once and   *)
(* its results follow the plan, the repeater's tabs stay apart and the one *)
(* in front stays so.                                                      *)
(***************************************************************************)
EXTENDS Workbench, ListLemmas

-----------------------------------------------------------------------------
(* The payloads of a position *)

Tuples       == (Nat \X Payloads) \cup Seq(Payloads)
Combinations == [label : Tuples, payload : Payloads]

\* What the settings are: the payload sets are lists, and there is a selected one if any.
SettingsOK ==
    /\ body_template \in Nat
    /\ payload_sets \in Seq(Lists)
    /\ active_set_index \in Nat \ {0}
    /\ payload_sets # <<>> => active_set_index <= Len(payload_sets)
    /\ attack_type \in AttackTypes
    /\ concurrency \in Nat

\* What an attack works on.
AttackOK ==
    /\ running \in BOOLEAN
    /\ plan \in Seq(Combinations) /\ pending_queue \in Seq(Combinations)
    /\ results \in Seq([id : Nat, combination : Combinations])

\* A position has a list of payloads, empty if its set is gone.
LEMMA AssignedIsSeq ==
    ASSUME SettingsOK, NEW pos
    PROVE  /\ Assigned(pos) \in Seq(Payloads)
           /\ DOMAIN Assigned(pos) = 1 .. Len(Assigned(pos)) /\ Len(Assigned(pos)) \in Nat
           /\ \A k \in 1 .. Len(Assigned(pos)) : Assigned(pos)[k] \in Payloads
<1>. DEFINE set == position_set_indices[pos]
<1>1. Assigned(pos) = IF set \in DOMAIN payload_sets THEN payload_sets[set] ELSE <<>>
  BY DEF Assigned, Lines
<1>2. DOMAIN payload_sets = 1 .. Len(payload_sets)
  BY LenProperties DEF SettingsOK
<1>3. set \in DOMAIN payload_sets => payload_sets[set] \in Lists
  BY <1>2, ElementOfSeq DEF SettingsOK
<1>4. \A l \in Lists : l \in Seq(Payloads)
  BY IntruderAssumption DEF Payloads
<1>5. <<>> \in Seq(Payloads)
  BY EmptySeq
<1>6. Assigned(pos) \in Seq(Payloads)
  BY <1>1, <1>3, <1>4, <1>5
<1>. HIDE DEF Payloads
<1>. QED BY <1>6, LenProperties, ElementOfSeq

-----------------------------------------------------------------------------
(* The Cartesian product *)

\* A payload put before a list: what it was put before is still there.
LEMMA PutBefore ==
    ASSUME NEW S, NEW p \in S, NEW t \in Seq(S)
    PROVE  /\ <<p>> \o t \in Seq(S) /\ Len(<<p>> \o t) = Len(t) + 1
           /\ (<<p>> \o t)[1] = p /\ \A j \in 1 .. Len(t) : (<<p>> \o t)[j + 1] = t[j]
           /\ Len(t) \in Nat
<1>1. <<p>> \in Seq(S) /\ Len(<<p>>) = 1 /\ <<p>>[1] = p /\ Len(t) \in Nat
  BY LenProperties
<1>. DEFINE u == <<p>>
<1>. HIDE DEF u
<1>2. /\ u \o t \in Seq(S) /\ Len(u \o t) = Len(u) + Len(t)
      /\ \A i \in 1 .. Len(u) + Len(t) : (u \o t)[i] = IF i <= Len(u) THEN u[i] ELSE t[i - Len(u)]
  BY <1>1, ConcatProperties DEF u
<1>3. Len(u) = 1 /\ u[1] = p
  BY <1>1 DEF u
<1>4. (u \o t)[1] = p
  BY <1>1, <1>2, <1>3
<1>5. \A j \in 1 .. Len(t) : (u \o t)[j + 1] = t[j]
  BY <1>1, <1>2, <1>3
<1>. QED BY <1>1, <1>2, <1>3, <1>4, <1>5 DEF u

LEMMA PutBeforeInjective ==
    ASSUME NEW S, NEW p \in S, NEW q \in S, NEW t \in Seq(S), NEW u \in Seq(S),
           <<p>> \o t = <<q>> \o u
    PROVE  p = q /\ t = u
<1>1. p = q /\ Len(t) = Len(u)
  BY PutBefore
<1>2. \A j \in 1 .. Len(t) : t[j] = u[j]
  BY <1>1, PutBefore
<1>3. t = [j \in 1 .. Len(t) |-> t[j]] /\ u = [j \in 1 .. Len(u) |-> u[j]]
  BY LenProperties
<1>. QED BY <1>1, <1>2, <1>3

\* A payload before each combination of a list.
Row(p, tails) == [i \in DOMAIN tails |-> <<p>> \o tails[i]]

LEMMA RowFacts ==
    ASSUME NEW S, NEW tails \in Seq(Seq(S)), NEW p \in S
    PROVE  /\ Row(p, tails) \in Seq(Seq(S))
           /\ \A c : c \in Range(Row(p, tails)) <=> \E t \in Range(tails) : c = <<p>> \o t
           /\ IsInjective(tails) => IsInjective(Row(p, tails))
<1>. DEFINE T == Seq(S)
<1>1. /\ DOMAIN tails = 1 .. Len(tails) /\ Len(tails) \in Nat
      /\ \A i \in 1 .. Len(tails) : tails[i] \in T
  BY LenProperties, ElementOfSeq
<1>2. \A t \in T : <<p>> \o t \in T
  BY PutBefore
<1>3. \A t, u \in T : <<p>> \o t = <<p>> \o u => t = u
  BY PutBeforeInjective
<1>. HIDE DEF T
<1>4. Row(p, tails) \in Seq(T)
  <2>1. Row(p, tails) \in [DOMAIN tails -> T]
    BY <1>1, <1>2 DEF Row
  <2>. QED BY <2>1, SameLength
<1>5. DOMAIN Row(p, tails) = DOMAIN tails /\ \A i \in DOMAIN tails : Row(p, tails)[i] = <<p>> \o tails[i]
  BY DEF Row
<1>6. \A c : c \in Range(Row(p, tails)) <=> \E t \in Range(tails) : c = <<p>> \o t
  BY <1>5 DEF Range
<1>7. ASSUME IsInjective(tails) PROVE IsInjective(Row(p, tails))
  <2>. SUFFICES ASSUME NEW i \in DOMAIN tails, NEW j \in DOMAIN tails,
                       <<p>> \o tails[i] = <<p>> \o tails[j]
                PROVE  i = j
    BY <1>5 DEF IsInjective
  <2>1. tails[i] = tails[j]
    BY <1>1, <1>3
  <2>. QED BY <1>7, <2>1 DEF IsInjective
<1>. QED BY <1>4, <1>6, <1>7 DEF T

LEMMA RowsApart ==
    ASSUME NEW S, NEW tails \in Seq(Seq(S)), NEW p \in S, NEW q \in S, p # q
    PROVE  Range(Row(p, tails)) \cap Range(Row(q, tails)) = {}
<1>1. \A t \in Range(tails) : t \in Seq(S)
  BY LenProperties, ElementOfSeq DEF Range
<1>2. \A t, u \in Seq(S) : <<p>> \o t # <<q>> \o u
  BY PutBeforeInjective
<1>3. ASSUME NEW c, c \in Range(Row(p, tails)), c \in Range(Row(q, tails)) PROVE FALSE
  <2>0. \A r \in S : c \in Range(Row(r, tails)) => \E t \in Range(tails) : c = <<r>> \o t
    BY RowFacts
  <2>1. PICK t \in Range(tails) : c = <<p>> \o t
    BY <1>3, <2>0
  <2>2. PICK u \in Range(tails) : c = <<q>> \o u
    BY <1>3, <2>0
  <2>. QED BY <1>1, <1>2, <2>1, <2>2
<1>. QED BY <1>3

\* A combination that is one of heads before one of tails.
Joins(c, heads, tails) == \E p \in heads, t \in tails : c = <<p>> \o t

\* Each payload of a position before each combination of the positions behind it.
Extended(pos, tails) == FlattenSeq([k \in DOMAIN Assigned(pos) |-> Row(Assigned(pos)[k], tails)])

LEMMA ExtendedFacts ==
    ASSUME SettingsOK, NEW pos, NEW tails \in Seq(Seq(Payloads))
    PROVE  /\ Extended(pos, tails) \in Seq(Seq(Payloads))
           /\ \A c : c \in Range(Extended(pos, tails))
                       <=> Joins(c, Range(Assigned(pos)), Range(tails))
           /\ IsInjective(Assigned(pos)) /\ IsInjective(tails)
                => IsInjective(Extended(pos, tails))
<1>. DEFINE A == Assigned(pos)
            S == Seq(Payloads)
            rows == [k \in DOMAIN A |-> Row(A[k], tails)]
<1>1. /\ A \in Seq(Payloads) /\ DOMAIN A = 1 .. Len(A) /\ Len(A) \in Nat
      /\ \A k \in 1 .. Len(A) : A[k] \in Payloads
  BY AssignedIsSeq
<1>2. Extended(pos, tails) = FlattenSeq(rows)
  BY DEF Extended
<1>. HIDE DEF A
<1>3. ASSUME NEW k \in 1 .. Len(A)
      PROVE  /\ Row(A[k], tails) \in Seq(S)
             /\ \A c : c \in Range(Row(A[k], tails)) <=> \E t \in Range(tails) : c = <<A[k]>> \o t
             /\ IsInjective(tails) => IsInjective(Row(A[k], tails))
  BY <1>1, RowFacts
<1>4. ASSUME IsInjective(A), NEW k \in 1 .. Len(A), NEW l \in 1 .. Len(A), k # l
      PROVE  Range(Row(A[k], tails)) \cap Range(Row(A[l], tails)) = {}
  <2>1. A[k] # A[l]
    BY <1>1, <1>4 DEF IsInjective
  <2>. QED BY <1>1, <2>1, RowsApart
<1>. HIDE DEF S
<1>5. /\ rows \in Seq(Seq(S)) /\ Len(rows) = Len(A)
      /\ \A k \in 1 .. Len(A) : rows[k] = Row(A[k], tails)
  <2>1. rows \in [DOMAIN A -> Seq(S)] /\ \A k \in 1 .. Len(A) : rows[k] = Row(A[k], tails)
    BY <1>1, <1>3
  <2>. HIDE DEF rows
  <2>2. \A U, T : A \in Seq(U) /\ rows \in [DOMAIN A -> T]
                    => rows \in Seq(T) /\ Len(rows) = Len(A)
    BY SameLength
  <2>. QED BY <1>1, <2>1, <2>2
<1>. HIDE DEF rows
<1>6. FlattenSeq(rows) \in Seq(S)
  BY <1>5, FlattenIsSeq
<1>7. /\ Range(FlattenSeq(rows)) = UNION {Range(rows[k]) : k \in 1 .. Len(rows)}
      /\ (/\ \A k \in 1 .. Len(rows) : IsInjective(rows[k])
          /\ \A k, l \in 1 .. Len(rows) : k # l => Range(rows[k]) \cap Range(rows[l]) = {})
         => IsInjective(FlattenSeq(rows))
  BY <1>5, FlattenFacts
<1>8. \A c : c \in Range(FlattenSeq(rows)) <=> Joins(c, Range(A), Range(tails))
  <2>. TAKE c
  <2>1. c \in Range(FlattenSeq(rows)) <=> \E k \in 1 .. Len(A) : c \in Range(Row(A[k], tails))
    BY <1>5, <1>7
  <2>2. \A k \in 1 .. Len(A) :
            c \in Range(Row(A[k], tails)) <=> \E t \in Range(tails) : c = <<A[k]>> \o t
    BY <1>3
  <2>3. \A p : p \in Range(A) <=> \E k \in 1 .. Len(A) : p = A[k]
    BY <1>1 DEF Range
  <2>. QED BY <2>1, <2>2, <2>3 DEF Joins
<1>9. IsInjective(A) /\ IsInjective(tails) => IsInjective(FlattenSeq(rows))
  <2>. SUFFICES ASSUME IsInjective(A), IsInjective(tails) PROVE IsInjective(FlattenSeq(rows))
    OBVIOUS
  <2>1. \A k \in 1 .. Len(rows) : IsInjective(rows[k])
    BY <1>3, <1>5
  <2>2. \A k, l \in 1 .. Len(rows) : k # l => Range(rows[k]) \cap Range(rows[l]) = {}
    BY <1>4, <1>5
  <2>. QED BY <1>7, <2>1, <2>2
<1>. QED BY <1>2, <1>6, <1>8, <1>9 DEF A, S

\* The recursion from the last position to the first.
LEMMA CartesianUnfolds ==
    ASSUME SettingsOK
    PROVE  \E r \in [1 .. count_positions + 1 -> Seq(Seq(Payloads))] :
               /\ Cartesian = r[1] /\ r[count_positions + 1] = << <<>> >>
               /\ \A pos \in Positions : r[pos] = Extended(pos, r[pos + 1])
<1>. DEFINE n == count_positions
            Q == Seq(Seq(Payloads))
            base == << <<>> >>
            step == [k \in 1 .. n |-> [tails \in Q |-> Extended(n + 1 - k, tails)]]
            rest == CHOOSE f : f = [pos \in 1 .. count_positions + 1 |->
                IF pos > count_positions THEN << <<>> >>
                ELSE FlattenSeq([k \in DOMAIN Assigned(pos) |->
                         [i \in DOMAIN f[pos + 1] |-> <<Assigned(pos)[k]>> \o f[pos + 1][i]]])]
<1>1. n \in Nat /\ Positions = 1 .. n
  BY DEF count_positions, SettingsOK, Positions
<1>2. base \in Q
  BY EmptySeq
<1>3. \A pos : \A tails \in Q : Extended(pos, tails) \in Q
  BY ExtendedFacts
<1>4. Cartesian = rest[1]
  BY DEF Cartesian
<1>. HIDE DEF Q, n, base
<1>5. step \in [1 .. n -> [Q -> Q]]
  BY <1>3
<1>6. \A k \in 1 .. n, tails \in Q : step[k][tails] = Extended(n + 1 - k, tails)
  OBVIOUS
<1>. HIDE DEF step
<1>7. PICK f : Computes(f, n, Q, base, step)
  BY <1>1, <1>2, <1>5, Recursion
<1>8. f \in [0 .. n -> Q] /\ f[0] = base /\ \A k \in 1 .. n : f[k] = step[k][f[k - 1]]
  BY <1>7 DEF Computes
<1>. DEFINE r == [pos \in 1 .. n + 1 |-> f[n + 1 - pos]]
<1>9. r \in [1 .. n + 1 -> Q]
  <2>. SUFFICES ASSUME NEW pos \in 1 .. n + 1 PROVE f[n + 1 - pos] \in Q
    OBVIOUS
  <2>1. n + 1 - pos \in 0 .. n
    BY <1>1
  <2>. QED BY <1>8, <2>1
<1>10. r[n + 1] = base
  <2>1. n + 1 \in 1 .. n + 1 /\ n + 1 - (n + 1) = 0
    BY <1>1
  <2>. QED BY <1>8, <2>1
<1>11. ASSUME NEW pos \in 1 .. n PROVE r[pos] = Extended(pos, r[pos + 1])
  <2>1. /\ n + 1 - pos \in 1 .. n /\ (n + 1 - pos) - 1 = n + 1 - (pos + 1)
        /\ n + 1 - (n + 1 - pos) = pos /\ pos \in 1 .. n + 1 /\ pos + 1 \in 1 .. n + 1
    BY <1>1
  <2>2. r[pos] = f[n + 1 - pos] /\ r[pos + 1] = f[n + 1 - (pos + 1)] /\ r[pos + 1] \in Q
    BY <1>9, <2>1
  <2>. HIDE DEF r
  <2>. QED BY <1>6, <1>8, <2>1, <2>2
<1>. HIDE DEF r
<1>. DEFINE Step(g, pos) == IF pos > n THEN base ELSE Extended(pos, g[pos + 1])
<1>12. \A pos \in 1 .. n + 1 : r[pos] = Step(r, pos)
  <2>. TAKE pos \in 1 .. n + 1
  <2>1. \/ pos = n + 1 /\ pos > n
        \/ pos \in 1 .. n /\ ~(pos > n)
    BY <1>1
  <2>. QED BY <1>10, <1>11, <2>1
<1>13. rest = [pos \in 1 .. n + 1 |-> Step(rest, pos)]
  <2>1. r = [pos \in 1 .. n + 1 |-> Step(r, pos)]
    <3>. HIDE DEF Step
    <3>1. r = [pos \in 1 .. n + 1 |-> r[pos]]
      BY <1>9
    <3>. QED BY <1>12, <3>1
  <2>. QED BY <2>1 DEF n, base, Extended, Row
<1>. HIDE DEF rest
<1>14. rest[n + 1] = base
  <2>1. n + 1 \in 1 .. n + 1 /\ n + 1 > n
    BY <1>1
  <2>. QED BY <1>13, <2>1
<1>15. ASSUME NEW pos \in 1 .. n PROVE rest[pos] = Extended(pos, rest[pos + 1])
  <2>1. pos \in 1 .. n + 1 /\ ~(pos > n)
    BY <1>1
  <2>. QED BY <1>13, <2>1
<1>. DEFINE P == {k \in 0 .. n : rest[n + 1 - k] = r[n + 1 - k]}
<1>16. 0 \in P
  <2>1. 0 \in 0 .. n /\ n + 1 - 0 = n + 1
    BY <1>1
  <2>. QED BY <1>10, <1>14, <2>1
<1>17. ASSUME NEW k \in 0 .. n, k \in P, k < n PROVE k + 1 \in P
  <2>1. k + 1 \in 0 .. n /\ n + 1 - (k + 1) \in 1 .. n /\ (n + 1 - (k + 1)) + 1 = n + 1 - k
    BY <1>1, <1>17
  <2>2. rest[n + 1 - k] = r[n + 1 - k]
    BY <1>17
  <2>3. rest[n + 1 - (k + 1)] = r[n + 1 - (k + 1)]
    BY <1>11, <1>15, <2>1, <2>2
  <2>. QED BY <2>1, <2>3
<1>18. n \in P
  <2>1. n \in Nat /\ n \in 0 .. n
    BY <1>1
  <2>. HIDE DEF P
  <2>2. \A k \in 0 .. n : k \in P
    BY <1>16, <1>17, <2>1, Upward
  <2>. QED BY <2>1, <2>2
<1>19. n + 1 - n = 1
  BY <1>1
<1>20. rest[1] = r[1]
  BY <1>18, <1>19
<1>21. Cartesian = r[1] /\ r[n + 1] = base /\ \A pos \in Positions : r[pos] = Extended(pos, r[pos + 1])
  BY <1>1, <1>4, <1>10, <1>11, <1>20
<1>. QED BY <1>9, <1>21 DEF n, Q, base

\* The combinations of the positions from pos on.
CombinationsFrom(pos) ==
    {c \in Seq(Payloads) :
        /\ Len(c) = count_positions + 1 - pos
        /\ \A j \in 1 .. count_positions + 1 - pos : c[j] \in Range(Assigned(pos + j - 1))}

LEMMA CombinationsGrow ==
    ASSUME SettingsOK, NEW pos \in Positions
    PROVE  \A c : c \in CombinationsFrom(pos)
                    <=> Joins(c, Range(Assigned(pos)), CombinationsFrom(pos + 1))
<1>. DEFINE n == count_positions
            m == n + 1 - (pos + 1)
<1>1. /\ n \in Nat /\ pos \in 1 .. n /\ m \in Nat /\ n + 1 - pos = m + 1
      /\ \A j \in 1 .. m : (pos + 1) + j - 1 = pos + (j + 1) - 1
      /\ pos + 1 - 1 = pos
      /\ \A j \in 1 .. m + 1 : j = 1 \/ (j - 1 \in 1 .. m /\ (j - 1) + 1 = j)
      /\ \A j \in 1 .. m : j + 1 \in 1 .. m + 1
      /\ 1 \in 1 .. m + 1
  BY DEF count_positions, SettingsOK, Positions
<1>2. \A p \in Range(Assigned(pos)) : p \in Payloads
  BY AssignedIsSeq DEF Range
<1>. DEFINE S == Payloads
            R(q) == Range(Assigned(q))
<1>3. \A c : c \in CombinationsFrom(pos) <=>
          c \in Seq(S) /\ Len(c) = m + 1 /\ \A j \in 1 .. m + 1 : c[j] \in R(pos + j - 1)
  BY <1>1 DEF CombinationsFrom
<1>4. \A t : t \in CombinationsFrom(pos + 1) <=>
          t \in Seq(S) /\ Len(t) = m /\ \A j \in 1 .. m : t[j] \in R((pos + 1) + j - 1)
  BY DEF CombinationsFrom
<1>. HIDE DEF S, R, m, n
<1>5. ASSUME NEW p \in R(pos), NEW t \in CombinationsFrom(pos + 1) PROVE <<p>> \o t \in CombinationsFrom(pos)
  <2>1. p \in S /\ t \in Seq(S) /\ Len(t) = m
    BY <1>2, <1>4, <1>5 DEF S, R
  <2>. DEFINE c == <<p>> \o t
  <2>2. /\ c \in Seq(S) /\ Len(c) = m + 1 /\ c[1] = p
        /\ \A j \in 1 .. m : c[j + 1] = t[j]
    BY <2>1, PutBefore
  <2>. HIDE DEF c
  <2>3. ASSUME NEW j \in 1 .. m + 1 PROVE c[j] \in R(pos + j - 1)
    <3>1. CASE j = 1
      BY <1>1, <1>5, <2>2, <3>1
    <3>2. CASE j # 1
      <4>1. /\ j - 1 \in 1 .. m /\ (j - 1) + 1 = j
            /\ (pos + 1) + (j - 1) - 1 = pos + ((j - 1) + 1) - 1
        BY <1>1, <3>2
      <4>2. t[j - 1] \in R((pos + 1) + (j - 1) - 1) /\ c[j] = t[j - 1]
        BY <1>4, <2>2, <4>1
      <4>. QED BY <4>1, <4>2
    <3>. QED BY <3>1, <3>2
  <2>4. c \in CombinationsFrom(pos)
    BY <1>3, <2>2, <2>3
  <2>. QED BY <2>4 DEF c
<1>6. ASSUME NEW c \in CombinationsFrom(pos)
      PROVE  \E p \in R(pos), t \in CombinationsFrom(pos + 1) : c = <<p>> \o t
  <2>1. c \in Seq(S) /\ Len(c) = m + 1 /\ \A j \in 1 .. m + 1 : c[j] \in R(pos + j - 1)
    BY <1>3, <1>6
  <2>2. c # <<>>
    BY <1>1, <2>1, EmptySeq
  <2>3. /\ Head(c) = c[1] /\ Tail(c) \in Seq(S) /\ Len(Tail(c)) = Len(c) - 1
        /\ \A j \in 1 .. Len(Tail(c)) : Tail(c)[j] = c[j + 1]
        /\ c = <<Head(c)>> \o Tail(c)
    BY <2>1, <2>2, HeadTailProperties
  <2>4. Len(Tail(c)) = m
    BY <1>1, <2>1, <2>3
  <2>5. Head(c) \in R(pos)
    BY <1>1, <2>1, <2>3
  <2>6. \A j \in 1 .. m : Tail(c)[j] \in R((pos + 1) + j - 1)
    BY <1>1, <2>1, <2>3, <2>4
  <2>7. Tail(c) \in CombinationsFrom(pos + 1)
    BY <1>4, <2>3, <2>4, <2>6
  <2>. QED BY <2>3, <2>5, <2>7
<1>. QED BY <1>5, <1>6 DEF R, Joins

\* The product has every choice, and each of them once if no list has a payload twice.
LEMMA CartesianFacts ==
    ASSUME SettingsOK
    PROVE  /\ Cartesian \in Seq(Seq(Payloads)) /\ (NoRepeats => IsInjective(Cartesian))
           /\ Range(Cartesian) = CombinationsFrom(1)
<1>. DEFINE n == count_positions
<1>1. n \in Nat /\ Positions = 1 .. n
  BY DEF count_positions, SettingsOK, Positions
<1>2. PICK r \in [1 .. n + 1 -> Seq(Seq(Payloads))] :
          /\ Cartesian = r[1] /\ r[n + 1] = << <<>> >>
          /\ \A pos \in Positions : r[pos] = Extended(pos, r[pos + 1])
  BY CartesianUnfolds
<1>. DEFINE Good(pos) == /\ NoRepeats => IsInjective(r[pos])
                         /\ Range(r[pos]) = CombinationsFrom(pos)
            P == {k \in 0 .. n : Good(n + 1 - k)}
<1>3. Good(n + 1)
  <2>1. \A c : c \in CombinationsFrom(n + 1) <=> c = <<>>
    <3>1. n + 1 - (n + 1) = 0 /\ 1 .. 0 = {}
      BY <1>1
    <3>2. \A c \in Seq(Payloads) : Len(c) = 0 <=> c = <<>>
      <4>. HIDE DEF Payloads
      <4>. QED BY EmptySeq
    <3>3. <<>> \in Seq(Payloads)
      BY EmptySeq
    <3>4. \A c : c \in CombinationsFrom(n + 1) <=> c \in Seq(Payloads) /\ Len(c) = 0
      BY <3>1 DEF CombinationsFrom
    <3>. QED BY <3>2, <3>3, <3>4
  <2>2. \A x : DOMAIN <<x>> = {1} /\ <<x>>[1] = x
    OBVIOUS
  <2>3. \A x : Range(<<x>>) = {x} /\ IsInjective(<<x>>)
    BY <2>2 DEF Range, IsInjective
  <2>. QED BY <1>2, <2>1, <2>3
<1>4. ASSUME NEW pos \in 1 .. n, Good(pos + 1) PROVE Good(pos)
  <2>1. pos \in Positions /\ pos + 1 \in 1 .. n + 1 /\ r[pos] = Extended(pos, r[pos + 1])
    BY <1>1, <1>2
  <2>. DEFINE tails == r[pos + 1]
  <2>2. tails \in Seq(Seq(Payloads))
    BY <1>2, <2>1
  <2>. HIDE DEF tails
  <2>0. \A p : \A ts \in Seq(Seq(Payloads)) :
            /\ \A c : c \in Range(Extended(p, ts)) <=> Joins(c, Range(Assigned(p)), Range(ts))
            /\ IsInjective(Assigned(p)) /\ IsInjective(ts) => IsInjective(Extended(p, ts))
    BY ExtendedFacts
  <2>3. /\ \A c : c \in Range(Extended(pos, tails))
                    <=> Joins(c, Range(Assigned(pos)), Range(tails))
        /\ NoRepeats /\ IsInjective(tails) => IsInjective(Extended(pos, tails))
    BY <2>0, <2>1, <2>2 DEF NoRepeats
  <2>4. (NoRepeats => IsInjective(tails)) /\ Range(tails) = CombinationsFrom(pos + 1)
    BY <1>4 DEF tails
  <2>5. \A c : c \in Range(Extended(pos, tails)) <=> c \in CombinationsFrom(pos)
    <3>. TAKE c
    <3>1. \A q \in Positions : c \in CombinationsFrom(q)
                                 <=> Joins(c, Range(Assigned(q)), CombinationsFrom(q + 1))
      BY CombinationsGrow
    <3>. QED BY <2>1, <2>3, <2>4, <3>1
  <2>. QED BY <2>1, <2>3, <2>4, <2>5 DEF tails
<1>. HIDE DEF Good
<1>5. 0 \in P
  <2>1. 0 \in 0 .. n /\ n + 1 - 0 = n + 1
    BY <1>1
  <2>. QED BY <1>3, <2>1
<1>6. ASSUME NEW k \in 0 .. n, k \in P, k < n PROVE k + 1 \in P
  <2>1. k + 1 \in 0 .. n /\ n + 1 - (k + 1) \in 1 .. n /\ (n + 1 - (k + 1)) + 1 = n + 1 - k
    BY <1>1, <1>6
  <2>2. Good(n + 1 - k)
    BY <1>6
  <2>3. Good(n + 1 - (k + 1))
    BY <1>4, <2>1, <2>2
  <2>. QED BY <2>1, <2>3
<1>7. n \in P
  <2>1. n \in Nat /\ n \in 0 .. n
    BY <1>1
  <2>. HIDE DEF P
  <2>2. \A k \in 0 .. n : k \in P
    BY <1>5, <1>6, <2>1, Upward
  <2>. QED BY <2>1, <2>2
<1>8. n + 1 - n = 1 /\ 1 \in 1 .. n + 1
  BY <1>1
<1>9. Good(1)
  BY <1>7, <1>8
<1>. QED BY <1>2, <1>8, <1>9 DEF Good

-----------------------------------------------------------------------------
(* The rows of an attack, for each type: every combination wanted, and each once  *)
(* unless a list has a payload twice                                             *)

Complete ==
    /\ Labels \in Seq(Tuples)
    /\ NoRepeats => IsInjective(Labels)
    /\ Range(Labels) = Wanted

LEMMA SniperPlan ==
    ASSUME SettingsOK, count_positions > 0, attack_type = "Sniper"
    PROVE  Complete
<1>. DEFINE n == count_positions
            Shots(pos) == [k \in DOMAIN Assigned(pos) |-> <<pos, Assigned(pos)[k]>>]
            shots == [pos \in Positions |-> Shots(pos)]
<1>1. n \in Nat /\ Positions = 1 .. n /\ \A pos \in Positions : pos \in Nat
  BY DEF count_positions, SettingsOK, Positions
<1>2. Labels = FlattenSeq(shots)
  BY DEF Labels
<1>3. Wanted = UNION {{pos} \X Range(Assigned(pos)) : pos \in Positions}
  BY DEF Wanted
<1>4. ASSUME NEW pos \in Positions
      PROVE  /\ Shots(pos) \in Seq(Tuples)
             /\ NoRepeats => IsInjective(Shots(pos))
             /\ Range(Shots(pos)) = {pos} \X Range(Assigned(pos))
  <2>. DEFINE A == Assigned(pos)
  <2>1. /\ A \in Seq(Payloads) /\ DOMAIN A = 1 .. Len(A) /\ Len(A) \in Nat
        /\ \A k \in 1 .. Len(A) : A[k] \in Payloads
        /\ NoRepeats => \A k, l \in 1 .. Len(A) : A[k] = A[l] => k = l
    BY AssignedIsSeq DEF IsInjective, NoRepeats
  <2>. HIDE DEF A
  <2>. DEFINE row == [k \in DOMAIN A |-> <<pos, A[k]>>]
  <2>2. \A k \in DOMAIN A : <<pos, A[k]>> \in Tuples
    BY <1>1, <2>1 DEF Tuples
  <2>3. row \in [DOMAIN A -> Tuples]
    BY <2>2
  <2>4. row \in Seq(Tuples)
    <3>. HIDE DEF row
    <3>. QED BY <2>1, <2>3, SameLength
  <2>5. NoRepeats => IsInjective(row)
    BY <2>1 DEF IsInjective
  <2>6. Range(row) = {pos} \X Range(A)
    BY DEF Range
  <2>. QED BY <2>4, <2>5, <2>6 DEF A
<1>5. ASSUME NEW p \in Positions, NEW q \in Positions, p # q
      PROVE  Range(Shots(p)) \cap Range(Shots(q)) = {}
  <2>1. Range(Shots(p)) = {p} \X Range(Assigned(p)) /\ Range(Shots(q)) = {q} \X Range(Assigned(q))
    BY <1>4
  <2>. HIDE DEF Shots
  <2>. QED BY <1>5, <2>1
<1>. HIDE DEF Shots
<1>6. shots \in Seq(Seq(Tuples)) /\ Len(shots) = n /\ \A pos \in 1 .. n : shots[pos] = Shots(pos)
  BY <1>1, <1>4
<1>. HIDE DEF shots
<1>7. FlattenSeq(shots) \in Seq(Tuples)
  BY <1>6, FlattenIsSeq
<1>8. /\ Range(FlattenSeq(shots)) = UNION {Range(shots[i]) : i \in 1 .. Len(shots)}
      /\ (/\ \A i \in 1 .. Len(shots) : IsInjective(shots[i])
          /\ \A i, j \in 1 .. Len(shots) : i # j => Range(shots[i]) \cap Range(shots[j]) = {})
         => IsInjective(FlattenSeq(shots))
  BY <1>6, FlattenFacts
<1>9. NoRepeats => IsInjective(FlattenSeq(shots))
  <2>. SUFFICES ASSUME NoRepeats PROVE IsInjective(FlattenSeq(shots))
    OBVIOUS
  <2>1. \A i \in 1 .. Len(shots) : IsInjective(shots[i])
    BY <1>1, <1>4, <1>6
  <2>2. \A i, j \in 1 .. Len(shots) : i # j => Range(shots[i]) \cap Range(shots[j]) = {}
    BY <1>1, <1>5, <1>6
  <2>. QED BY <1>8, <2>1, <2>2
<1>10. Range(FlattenSeq(shots)) = Wanted
  <2>1. \A i \in 1 .. Len(shots) : Range(shots[i]) = {i} \X Range(Assigned(i))
    BY <1>1, <1>4, <1>6
  <2>2. UNION {Range(shots[i]) : i \in 1 .. Len(shots)}
          = UNION {{i} \X Range(Assigned(i)) : i \in 1 .. Len(shots)}
    BY <2>1
  <2>3. 1 .. Len(shots) = Positions
    BY <1>1, <1>6
  <2>. QED BY <1>3, <1>8, <2>2, <2>3
<1>. QED BY <1>2, <1>7, <1>9, <1>10 DEF Complete

LEMMA BatteringRamPlan ==
    ASSUME SettingsOK, count_positions > 0, attack_type = "BatteringRam"
    PROVE  Complete
<1>. DEFINE A == Assigned(1)
            plain == [k \in DOMAIN A |-> <<A[k]>>]
<1>1. /\ A \in Seq(Payloads) /\ DOMAIN A = 1 .. Len(A) /\ Len(A) \in Nat
      /\ \A k \in 1 .. Len(A) : A[k] \in Payloads
      /\ NoRepeats => \A k, l \in 1 .. Len(A) : A[k] = A[l] => k = l
  <2>1. 1 \in Positions
    BY DEF count_positions, SettingsOK, Positions
  <2>. QED BY <2>1, AssignedIsSeq DEF IsInjective, NoRepeats
<1>2. Labels = plain /\ Wanted = {<<p>> : p \in Range(A)}
  BY DEF Labels, Wanted
<1>. HIDE DEF A
<1>3. \A k \in DOMAIN A : <<A[k]>> \in Tuples
  BY <1>1 DEF Tuples
<1>4. plain \in Seq(Tuples)
  <2>1. plain \in [DOMAIN A -> Tuples]
    BY <1>3
  <2>. HIDE DEF plain
  <2>. QED BY <1>1, <2>1, SameLength
<1>5. NoRepeats => IsInjective(plain)
  <2>1. \A p, q \in Payloads : <<p>> = <<q>> => p = q
    OBVIOUS
  <2>. QED BY <1>1, <2>1 DEF IsInjective
<1>6. Range(plain) = {<<p>> : p \in Range(A)}
  BY DEF Range
<1>. QED BY <1>2, <1>4, <1>5, <1>6 DEF Complete

\* The shortest list bounds what a Pitchfork attack takes from each.
LEMMA ShortestIsShortest ==
    ASSUME SettingsOK, Positions # {}
    PROVE  /\ Shortest \in Nat /\ \A pos \in Positions : Shortest <= Len(Assigned(pos))
           /\ \E pos \in Positions : Shortest = Len(Assigned(pos))
<1>. DEFINE Lengths == {Len(Assigned(pos)) : pos \in Positions}
<1>1. Lengths \in SUBSET Nat /\ Lengths # {}
  BY AssignedIsSeq
<1>2. \E m \in Lengths : \A k \in Lengths : m <= k
  <2>. HIDE DEF Lengths
  <2>. QED BY <1>1, NatSubsetHasLeast
<1>3. Shortest \in Lengths /\ \A k \in Lengths : Shortest <= k
  <2>1. Shortest = CHOOSE x \in Lengths : \A y \in Lengths : x <= y
    BY DEF Shortest, Min
  <2>. HIDE DEF Lengths
  <2>. QED BY <1>2, <2>1
<1>. QED BY <1>1, <1>3

LEMMA PitchforkPlan ==
    ASSUME SettingsOK, count_positions > 0, attack_type = "Pitchfork"
    PROVE  Complete
<1>. DEFINE n == count_positions
            m == Shortest
            Prongs(k) == [pos \in Positions |-> Assigned(pos)[k]]
            prongs == [k \in 1 .. m |-> Prongs(k)]
<1>1. n \in Nat /\ Positions = 1 .. n /\ 1 \in Positions
  BY DEF count_positions, SettingsOK, Positions
<1>2. /\ m \in Nat /\ \A pos \in Positions : m <= Len(Assigned(pos))
      /\ \E pos \in Positions : m = Len(Assigned(pos))
  BY <1>1, ShortestIsShortest
<1>3. \A pos \in Positions :
          /\ DOMAIN Assigned(pos) = 1 .. Len(Assigned(pos)) /\ Len(Assigned(pos)) \in Nat
          /\ \A k \in 1 .. Len(Assigned(pos)) : Assigned(pos)[k] \in Payloads
          /\ NoRepeats => \A k, l \in 1 .. Len(Assigned(pos)) :
                              Assigned(pos)[k] = Assigned(pos)[l] => k = l
  BY AssignedIsSeq DEF IsInjective, NoRepeats
<1>4. Labels = prongs
  BY DEF Labels
<1>5. \A c : c \in Wanted <=>
          /\ c \in [Positions -> Payloads]
          /\ \E k \in DOMAIN Assigned(1) : \A pos \in Positions :
                 k \in DOMAIN Assigned(pos) /\ c[pos] = Assigned(pos)[k]
  BY DEF Wanted
<1>. HIDE DEF m
<1>6. \A k : k \in 1 .. m <=> k \in DOMAIN Assigned(1)
                              /\ \A pos \in Positions : k \in DOMAIN Assigned(pos)
  <2>1. \A pos \in Positions : 1 .. m \subseteq DOMAIN Assigned(pos)
    BY <1>2, <1>3
  <2>2. PICK pos \in Positions : m = Len(Assigned(pos))
    BY <1>2
  <2>3. DOMAIN Assigned(pos) = 1 .. m
    BY <1>3, <2>2
  <2>. QED BY <1>1, <2>1, <2>3
<1>7. ASSUME NEW k \in 1 .. m PROVE Prongs(k) \in [Positions -> Payloads]
  <2>1. \A pos \in Positions : k \in 1 .. Len(Assigned(pos))
    BY <1>3, <1>6
  <2>. QED BY <1>3, <2>1
<1>8. \A k \in 1 .. m, pos \in Positions : Prongs(k)[pos] = Assigned(pos)[k]
  OBVIOUS
<1>. HIDE DEF Prongs
<1>9. [Positions -> Payloads] \subseteq Tuples
  <2>1. [1 .. n -> Payloads] \subseteq Seq(Payloads)
    <3>. HIDE DEF Payloads, n
    <3>. QED BY <1>1
  <2>. QED BY <1>1, <2>1 DEF Tuples
<1>10. prongs \in Seq(Tuples)
  <2>1. \A k \in 1 .. m : Prongs(k) \in Tuples
    BY <1>7, <1>9
  <2>. QED BY <1>2, <2>1
<1>11. NoRepeats => IsInjective(prongs)
  <2>. SUFFICES ASSUME NoRepeats, NEW k \in 1 .. m, NEW l \in 1 .. m, Prongs(k) = Prongs(l) PROVE k = l
    BY DEF IsInjective
  <2>1. Assigned(1)[k] = Assigned(1)[l]
    BY <1>1, <1>8
  <2>2. k \in 1 .. Len(Assigned(1)) /\ l \in 1 .. Len(Assigned(1))
    BY <1>1, <1>3, <1>6
  <2>. QED BY <1>1, <1>3, <2>1, <2>2
<1>12. \A c : c \in Range(prongs) <=> \E k \in 1 .. m : c = Prongs(k)
  BY DEF Range
<1>13. ASSUME NEW k \in 1 .. m PROVE Prongs(k) \in Wanted
  BY <1>5, <1>6, <1>7, <1>8
<1>14. ASSUME NEW c \in Wanted PROVE \E k \in 1 .. m : c = Prongs(k)
  <2>1. c \in [Positions -> Payloads]
    BY <1>5
  <2>2. PICK k : /\ k \in DOMAIN Assigned(1)
                 /\ \A pos \in Positions : k \in DOMAIN Assigned(pos) /\ c[pos] = Assigned(pos)[k]
    BY <1>5
  <2>3. k \in 1 .. m
    BY <1>6, <2>2
  <2>4. Prongs(k) \in [Positions -> Payloads] /\ \A pos \in Positions : Prongs(k)[pos] = c[pos]
    BY <1>7, <1>8, <2>2, <2>3
  <2>5. c = Prongs(k)
    BY <2>1, <2>4
  <2>. QED BY <2>3, <2>5
<1>15. Range(prongs) = Wanted
  BY <1>12, <1>13, <1>14
<1>. QED BY <1>4, <1>10, <1>11, <1>15 DEF Complete

LEMMA ClusterBombPlan ==
    ASSUME SettingsOK, count_positions > 0, attack_type = "ClusterBomb"
    PROVE  Complete
<1>. DEFINE n == count_positions
<1>1. n \in Nat /\ Positions = 1 .. n /\ n + 1 - 1 = n /\ \A j \in Positions : 1 + j - 1 = j
  BY DEF count_positions, SettingsOK, Positions
<1>2. Labels = Cartesian
  BY DEF Labels
<1>3. \A c : c \in Wanted <=>
          c \in [Positions -> Payloads] /\ \A pos \in Positions : c[pos] \in Range(Assigned(pos))
  BY DEF Wanted
<1>4. \A c : c \in CombinationsFrom(1) <=>
          /\ c \in Seq(Payloads) /\ Len(c) = n
          /\ \A j \in Positions : c[j] \in Range(Assigned(j))
  BY <1>1 DEF CombinationsFrom
<1>5. \A c : c \in [Positions -> Payloads] <=> c \in Seq(Payloads) /\ Len(c) = n
  <2>. HIDE DEF Payloads, n
  <2>1. \A c \in Seq(Payloads) : Len(c) = n => c \in [1 .. n -> Payloads]
    BY LenProperties
  <2>2. \A c \in [1 .. n -> Payloads] : c \in Seq(Payloads) /\ Len(c) = n
    BY <1>1
  <2>. QED BY <1>1, <2>1, <2>2
<1>6. CombinationsFrom(1) = Wanted
  BY <1>3, <1>4, <1>5
<1>7. Cartesian \in Seq(Tuples)
  <2>1. Seq(Payloads) \subseteq Tuples
    BY DEF Tuples
  <2>2. Cartesian \in Seq(Seq(Payloads))
    BY CartesianFacts
  <2>3. Cartesian \in [DOMAIN Cartesian -> Seq(Payloads)]
    <3>. HIDE DEF Payloads
    <3>. QED BY <2>2, LenProperties
  <2>4. Cartesian \in [DOMAIN Cartesian -> Tuples]
    <3>. HIDE DEF Payloads
    <3>. QED BY <2>1, <2>3
  <2>. QED BY <2>2, <2>4, SameLength
<1>. QED BY <1>2, <1>6, <1>7, CartesianFacts DEF Complete

\* A label is one of those wanted, and what is tried is a payload of the first position or,
\* in a Sniper attack, of its own.
LEMMA TriedIsAssigned ==
    ASSUME SettingsOK, Positions # {}, NEW label \in Wanted
    PROVE  /\ Tried(label) \in Payloads
           /\ \E pos \in Positions : /\ Tried(label) \in Range(Assigned(pos))
                                     /\ attack_type # "Sniper" => pos = 1
<1>1. 1 \in Positions
  BY DEF count_positions, SettingsOK, Positions
<1>2. \A pos : Range(Assigned(pos)) \subseteq Payloads
  BY AssignedIsSeq DEF Range
<1>3. CASE attack_type = "Sniper"
  <2>1. PICK pos \in Positions : label \in {pos} \X Range(Assigned(pos))
    BY <1>3 DEF Wanted
  <2>2. label[2] \in Range(Assigned(pos))
    BY <2>1
  <2>. QED BY <1>2, <1>3, <2>2 DEF Tried
<1>4. CASE attack_type # "Sniper"
  <2>1. label[1] \in Range(Assigned(1))
    <3>1. CASE attack_type = "BatteringRam"
      BY <3>1 DEF Wanted
    <3>2. CASE attack_type = "Pitchfork"
      BY <1>1, <3>2 DEF Wanted, Range
    <3>3. CASE attack_type = "ClusterBomb"
      BY <1>1, <3>3 DEF Wanted
    <3>. QED BY <1>4, <3>1, <3>2, <3>3 DEF SettingsOK, AttackTypes
  <2>. QED BY <1>1, <1>2, <1>4, <2>1 DEF Tried
<1>. QED BY <1>3, <1>4

\* What an attack is planned with, whatever its type; without positions it is nothing.
LEMMA LabelsAreComplete ==
    ASSUME SettingsOK
    PROVE  /\ Labels \in Seq(Tuples)
           /\ Positions = {} => Labels = <<>>
           /\ Positions # {} => Complete
<1>1. count_positions \in Nat /\ (Positions = {} <=> count_positions = 0)
  BY DEF count_positions, SettingsOK, Positions
<1>2. CASE count_positions = 0
  BY <1>1, <1>2, EmptySeq DEF Labels
<1>3. CASE count_positions > 0
  <2>1. Complete
    BY <1>3, SniperPlan, BatteringRamPlan, PitchforkPlan, ClusterBombPlan DEF SettingsOK, AttackTypes
  <2>. QED BY <1>1, <1>3, <2>1 DEF Complete
<1>. QED BY <1>1, <1>2, <1>3

LEMMA PlanIsComplete ==
    ASSUME SettingsOK
    PROVE  /\ build_combinations \in Seq(Combinations)
           /\ Len(build_combinations) = Len(Labels)
           /\ \A k \in 1 .. Len(Labels) :
                  build_combinations[k] = [label |-> Labels[k], payload |-> Tried(Labels[k])]
<1>. DEFINE n == Len(Labels)
            Combined(k) == [label |-> Labels[k], payload |-> Tried(Labels[k])]
<1>1. Labels \in Seq(Tuples) /\ n \in Nat /\ DOMAIN Labels = 1 .. n
      /\ \A k \in 1 .. n : Labels[k] \in Tuples
  BY LabelsAreComplete, LenProperties, ElementOfSeq
<1>2. ASSUME NEW k \in 1 .. n PROVE Combined(k) \in Combinations
  <2>1. Positions # {}
    BY <1>1, LabelsAreComplete, EmptySeq
  <2>2. Labels[k] \in Wanted
    BY <1>1, <2>1, LabelsAreComplete DEF Complete, Range
  <2>. QED BY <1>1, <2>1, <2>2, TriedIsAssigned DEF Combinations
<1>3. build_combinations = [k \in 1 .. n |-> Combined(k)]
  BY <1>1 DEF build_combinations
<1>. HIDE DEF n, Combined
<1>4. [k \in 1 .. n |-> Combined(k)] \in Seq(Combinations) /\ Len([k \in 1 .. n |-> Combined(k)]) = n
  <2>. HIDE DEF Combinations
  <2>. QED BY <1>1, <1>2
<1>. QED BY <1>3, <1>4 DEF n, Combined

LEMMA PlanCounts ==
    ASSUME SettingsOK
    PROVE  EachCombinationOnce
<1>. DEFINE rows == Range(build_combinations)
<1>. SUFFICES ASSUME Positions # {}
              PROVE  /\ {row.label : row \in rows} = Wanted
                     /\ NoRepeats => Len(build_combinations) = Cardinality(Wanted)
                     /\ \A row \in rows : \E pos \in Positions :
                            /\ row.payload \in Range(Assigned(pos))
                            /\ attack_type # "Sniper" => pos = 1
  BY DEF EachCombinationOnce
<1>1. Complete
  BY LabelsAreComplete
<1>2. /\ DOMAIN Labels = 1 .. Len(Labels) /\ Len(build_combinations) = Len(Labels)
      /\ DOMAIN build_combinations = 1 .. Len(Labels)
      /\ \A k \in 1 .. Len(Labels) :
             /\ build_combinations[k].label = Labels[k]
             /\ build_combinations[k].payload = Tried(Labels[k])
  <2>1. /\ build_combinations \in Seq(Combinations) /\ Len(build_combinations) = Len(Labels)
        /\ \A k \in 1 .. Len(Labels) :
               build_combinations[k] = [label |-> Labels[k], payload |-> Tried(Labels[k])]
    BY PlanIsComplete
  <2>2. DOMAIN Labels = 1 .. Len(Labels)
    BY <1>1, LenProperties DEF Complete
  <2>3. DOMAIN build_combinations = 1 .. Len(Labels)
    BY <2>1, LenProperties
  <2>. QED BY <2>1, <2>2, <2>3
<1>3. \A k \in 1 .. Len(Labels) : Labels[k] \in Wanted
  BY <1>1, <1>2 DEF Complete, Range
<1>4. rows = {build_combinations[k] : k \in 1 .. Len(Labels)}
  BY <1>2 DEF Range
<1>. HIDE DEF rows
<1>5. {row.label : row \in rows} = Wanted
  <2>1. {row.label : row \in rows} = {Labels[k] : k \in 1 .. Len(Labels)}
    BY <1>2, <1>4
  <2>2. Range(Labels) = {Labels[k] : k \in 1 .. Len(Labels)}
    BY <1>2 DEF Range
  <2>. QED BY <1>1, <2>1, <2>2 DEF Complete
<1>6. NoRepeats => Len(build_combinations) = Cardinality(Wanted)
  BY <1>1, <1>2, InjectiveLength DEF Complete
<1>7. ASSUME NEW row \in rows
      PROVE  \E pos \in Positions : /\ row.payload \in Range(Assigned(pos))
                                    /\ attack_type # "Sniper" => pos = 1
  <2>1. PICK k \in 1 .. Len(Labels) : row = build_combinations[k]
    BY <1>4
  <2>2. row.payload = Tried(Labels[k]) /\ Labels[k] \in Wanted
    BY <1>2, <1>3, <2>1
  <2>. QED BY <2>2, TriedIsAssigned
<1>. QED BY <1>5, <1>6, <1>7

-----------------------------------------------------------------------------
(* The intruder *)

IntruderInv == SettingsOK /\ AttackOK /\ AttackFollowsPlan

LEMMA InitIntruderInv == InitIntruder => IntruderInv
<1>. SUFFICES ASSUME InitIntruder PROVE IntruderInv
  OBVIOUS
<1>1. \A S : <<>> \in Seq(S)
  BY EmptySeq
<1>2. Len(<<>>) = 0 /\ DOMAIN <<>> = {}
  BY EmptySeq
<1>3. SettingsOK
  BY <1>1 DEF InitIntruder, SettingsOK, AttackTypes
<1>4. AttackOK
  BY <1>1 DEF InitIntruder, AttackOK
<1>5. AttackFollowsPlan
  BY <1>2 DEF InitIntruder, AttackFollowsPlan
<1>. QED BY <1>3, <1>4, <1>5 DEF IntruderInv

\* While an attack is left alone, what it has done stays what was planned.
LEMMA AttackLeftAlone ==
    ASSUME IntruderInv, SettingsOK', UNCHANGED attack
    PROVE  IntruderInv'
BY DEF IntruderInv, AttackOK, AttackFollowsPlan, attack

\* Editing the settings, with or without an attack running.
LEMMA SettingsChangeKeepsInv ==
    ASSUME IntruderInv, ChangeSettings \/ Pad
    PROVE  IntruderInv'
<1>. USE DEF IntruderInv, SettingsOK
<1>0. Len(payload_sets) \in Nat /\ DOMAIN payload_sets = 1 .. Len(payload_sets)
  BY LenProperties
<1>1. ASSUME NEW marks \in Nat, SetTemplate(marks) PROVE IntruderInv'
  <2>1. SettingsOK' /\ UNCHANGED attack
    BY <1>1 DEF SetTemplate
  <2>. QED BY <2>1, AttackLeftAlone
<1>2. EditTemplate \/ ClickClear \/ ClickAuto \/ ClickAddMarks => IntruderInv'
  <2>1. \A params \in 0 .. MaxMarks \div 2 : 2 * params \in Nat
    BY IntruderAssumption
  <2>. QED BY <1>1, <2>1, IntruderAssumption
           DEF EditTemplate, ClickClear, ClickAuto, ClickAddMarks
<1>3. ASSUME NEW sets \in Seq(Lists), NEW index \in Nat \ {0}, SetPayloads(sets, index),
             sets # <<>> => index <= Len(sets)
      PROVE  IntruderInv'
  <2>1. SettingsOK' /\ UNCHANGED attack
    BY <1>3 DEF SetPayloads
  <2>. QED BY <2>1, AttackLeftAlone
<1>4. ASSUME NEW list \in Lists, ClickAddSet(list) PROVE IntruderInv'
  <2>1. Append(payload_sets, list) \in Seq(Lists)
        /\ Len(Append(payload_sets, list)) = Len(payload_sets) + 1
    BY AppendProperties
  <2>2. Len(payload_sets) + 1 \in Nat \ {0}
    BY <1>0
  <2>3. Len(payload_sets) + 1 <= Len(Append(payload_sets, list))
    BY <1>0, <2>1
  <2>. QED BY <1>3, <1>4, <2>1, <2>2, <2>3 DEF ClickAddSet
<1>5. ASSUME ClickDeleteSet PROVE IntruderInv'
  <2>. DEFINE left  == RemoveAt(payload_sets, active_set_index)
              index == IF active_set_index > Len(left) /\ left # <<>>
                         THEN Len(left) ELSE active_set_index
  <2>1. payload_sets # <<>> /\ SetPayloads(left, index)
    BY <1>5 DEF ClickDeleteSet
  <2>2. active_set_index \in 1 .. Len(payload_sets)
    BY <1>0, <2>1
  <2>3. left \in Seq(Lists) /\ Len(left) = Len(payload_sets) - 1
    BY <2>2, RemoveAtFacts
  <2>. HIDE DEF left
  <2>4. left # <<>> => Len(left) \in Nat \ {0}
    BY <2>3, EmptySeq, LenProperties
  <2>5. index \in Nat \ {0} /\ (left # <<>> => index <= Len(left))
    BY <2>4
  <2>. HIDE DEF index
  <2>. QED BY <1>3, <2>1, <2>3, <2>5
<1>6. ASSUME NEW set \in DOMAIN payload_sets, SelectSet(set) PROVE IntruderInv'
  <2>1. set \in Nat \ {0} /\ set <= Len(payload_sets)
    BY <1>0
  <2>. QED BY <1>3, <1>6, <2>1 DEF SelectSet
<1>7. ASSUME NEW list \in Lists, EditSet(list) PROVE IntruderInv'
  <2>. DEFINE sets == [payload_sets EXCEPT ![active_set_index] = list]
  <2>0. active_set_index \in 1 .. Len(payload_sets)
    BY <1>0, <1>7 DEF EditSet
  <2>1. sets \in Seq(Lists) /\ Len(sets) = Len(payload_sets)
    BY <2>0, ExceptSeq
  <2>2. SetPayloads(sets, active_set_index) /\ active_set_index <= Len(sets)
    BY <1>0, <1>7, <2>1 DEF EditSet
  <2>. HIDE DEF sets
  <2>. QED BY <1>3, <2>1, <2>2
<1>8. ASSUME NEW type \in AttackTypes, SelectAttack(type) PROVE IntruderInv'
  <2>1. SettingsOK' /\ UNCHANGED attack
    BY <1>8 DEF SelectAttack
  <2>. QED BY <2>1, AttackLeftAlone
<1>9. ASSUME NEW n \in Typed, TypeConcurrency(n) PROVE IntruderInv'
  <2>1. SettingsOK' /\ UNCHANGED attack
    BY <1>9, IntruderAssumption DEF TypeConcurrency
  <2>. QED BY <2>1, AttackLeftAlone
<1>10. Pad \/ (\E pos, set : AssignSet(pos, set)) => IntruderInv'
  <2>. SUFFICES ASSUME Pad \/ (\E pos, set : AssignSet(pos, set)) PROVE IntruderInv'
    OBVIOUS
  <2>1. UNCHANGED settings /\ UNCHANGED attack
    BY DEF Pad, AssignSet
  <2>2. SettingsOK'
    BY <2>1 DEF settings
  <2>. QED BY <2>1, <2>2, AttackLeftAlone
<1>11. CASE ChangeSettings
  BY <1>2, <1>4, <1>5, <1>6, <1>7, <1>8, <1>9, <1>10, <1>11 DEF ChangeSettings
<1>. QED BY <1>10, <1>11

\* Starting an attack plans it; the queue is the plan, backwards.
LEMMA StartKeepsInv ==
    ASSUME IntruderInv, ClickStart
    PROVE  IntruderInv'
<1>1. /\ running' = TRUE /\ results' = <<>>
      /\ plan' = build_combinations /\ pending_queue' = Reverse(plan')
      /\ UNCHANGED settings
  BY DEF ClickStart
<1>2. SettingsOK'
  BY <1>1 DEF IntruderInv, SettingsOK, settings
<1>3. plan' \in Seq(Combinations)
  BY <1>1, PlanIsComplete DEF IntruderInv
<1>4. /\ Len(plan') \in Nat /\ DOMAIN plan' = 1 .. Len(plan')
      /\ \A k \in 1 .. Len(plan') : plan'[k] \in Combinations
  BY <1>3, LenProperties, ElementOfSeq
<1>5. /\ Reverse(plan') \in Seq(Combinations) /\ Len(Reverse(plan')) = Len(plan')
      /\ DOMAIN Reverse(plan') = 1 .. Len(plan')
      /\ \A k \in 1 .. Len(plan') : Reverse(plan')[k] = plan'[Len(plan') + 1 - k]
  <2>. DEFINE p == plan'
              r == [k \in 1 .. Len(p) |-> p[(Len(p) - k) + 1]]
  <2>. HIDE DEF p
  <2>1. \A k \in 1 .. Len(p) : (Len(p) - k) + 1 \in 1 .. Len(p) /\ (Len(p) - k) + 1 = Len(p) + 1 - k
    BY <1>4 DEF p
  <2>2. \A k \in 1 .. Len(p) : r[k] \in Combinations
    BY <1>4, <2>1 DEF p
  <2>3. r \in Seq(Combinations) /\ Len(r) = Len(p)
    BY <1>4, <2>2 DEF p
  <2>4. \A k \in 1 .. Len(p) : r[k] = p[Len(p) + 1 - k]
    BY <2>1
  <2>5. Reverse(p) = r
    BY DEF Reverse
  <2>. QED BY <2>3, <2>4, <2>5 DEF p
<1>6. <<>> \in Seq([id : Nat, combination : Combinations]) /\ Len(<<>>) = 0 /\ DOMAIN <<>> = {}
  BY EmptySeq
<1>7. AttackOK'
  BY <1>1, <1>3, <1>5, <1>6 DEF AttackOK
<1>8. AttackFollowsPlan'
  BY <1>1, <1>4, <1>5, <1>6 DEF AttackFollowsPlan
<1>. QED BY <1>2, <1>7, <1>8 DEF IntruderInv

\* Stopping an attack gives up what is queued; an attack with nothing queued is over.
LEMMA StopKeepsInv ==
    ASSUME IntruderInv, ClickStop \/ Finish
    PROVE  IntruderInv'
<1>1. /\ running' = FALSE /\ pending_queue' = <<>>
      /\ UNCHANGED settings /\ UNCHANGED <<results, plan>>
  BY DEF ClickStop, Finish, EngineFrame, settings
<1>2. SettingsOK'
  BY <1>1 DEF IntruderInv, SettingsOK, settings
<1>3. <<>> \in Seq(Combinations) /\ DOMAIN <<>> = {}
  BY EmptySeq
<1>. QED BY <1>1, <1>2, <1>3 DEF IntruderInv, AttackOK, AttackFollowsPlan

\* A batch moves from the end of the queue to the end of the results.
LEMMA BatchKeepsInv ==
    ASSUME IntruderInv, TakeBatch
    PROVE  IntruderInv'
<1>. DEFINE rest  == Len(pending_queue)
            n     == IF BatchSize < rest THEN BatchSize ELSE rest
            Result(k) == [id |-> Len(results) + k, combination |-> pending_queue[rest + 1 - k]]
            batch == [k \in 1 .. n |-> Result(k)]
            R     == [id : Nat, combination : Combinations]
<1>1. /\ running /\ rest > 0
      /\ results' = results \o batch
      /\ pending_queue' = SubSeq(pending_queue, 1, rest - n)
      /\ UNCHANGED settings /\ UNCHANGED <<running, plan>>
  BY DEF TakeBatch, EngineFrame, settings
<1>2. /\ pending_queue \in Seq(Combinations) /\ plan \in Seq(Combinations) /\ results \in Seq(R)
      /\ Len(plan) \in Nat /\ Len(results) \in Nat /\ rest \in Nat
      /\ DOMAIN pending_queue = 1 .. rest /\ DOMAIN results = 1 .. Len(results)
  BY LenProperties DEF IntruderInv, AttackOK
<1>3. n \in 1 .. rest
  BY <1>1, <1>2 DEF BatchSize, IntruderInv, SettingsOK
<1>4. /\ Len(results) + rest = Len(plan)
      /\ \A k \in 1 .. Len(results) : results[k] = [id |-> k, combination |-> plan[k]]
      /\ \A k \in 1 .. rest : pending_queue[k] = plan[Len(plan) + 1 - k]
  BY <1>1, <1>2 DEF IntruderInv, AttackFollowsPlan
<1>. HIDE DEF n, rest
<1>5. \A k \in 1 .. n :
          /\ rest + 1 - k \in 1 .. rest /\ Len(plan) + 1 - (rest + 1 - k) = Len(results) + k
          /\ Len(results) + k \in Nat
  <2>1. Len(results) + rest = Len(plan) /\ Len(plan) \in Nat /\ Len(results) \in Nat /\ rest \in Nat
    BY <1>2, <1>4
  <2>. QED BY <1>3, <2>1
<1>6. \A k \in 1 .. n : Result(k) = [id |-> Len(results) + k, combination |-> plan[Len(results) + k]]
  BY <1>4, <1>5
<1>7. \A k \in 1 .. n : pending_queue[rest + 1 - k] \in Combinations
  BY <1>2, <1>5, ElementOfSeq DEF rest
<1>8. \A k \in 1 .. n : Result(k) \in R
  BY <1>5, <1>7
<1>9. batch \in Seq(R) /\ Len(batch) = n /\ \A k \in 1 .. n : batch[k] = Result(k)
  <2>. HIDE DEF R, Result
  <2>. QED BY <1>2, <1>3, <1>8
<1>. HIDE DEF R, batch
<1>10. /\ results' \in Seq(R) /\ Len(results') = Len(results) + n
       /\ \A k \in 1 .. Len(results) + n :
              results'[k] = IF k <= Len(results) THEN results[k] ELSE batch[k - Len(results)]
       /\ DOMAIN results' = 1 .. Len(results) + n
  BY <1>1, <1>2, <1>9, ConcatProperties, LenProperties
<1>11. \A k \in 1 .. Len(results) + n : results'[k] = [id |-> k, combination |-> plan[k]]
  <2>. TAKE k \in 1 .. Len(results) + n
  <2>1. CASE k <= Len(results)
    BY <1>2, <1>4, <1>10, <2>1
  <2>2. CASE ~(k <= Len(results))
    <3>1. k - Len(results) \in 1 .. n /\ Len(results) + (k - Len(results)) = k
      BY <1>2, <1>3, <2>2
    <3>2. results'[k] = Result(k - Len(results))
      BY <1>9, <1>10, <2>2, <3>1
    <3>. HIDE DEF Result
    <3>. QED BY <1>6, <3>1, <3>2
  <2>. QED BY <2>1, <2>2
<1>12. /\ pending_queue' \in Seq(Combinations) /\ Len(pending_queue') = rest - n
       /\ \A k \in 1 .. rest - n : pending_queue'[k] = pending_queue[k]
       /\ DOMAIN pending_queue' = 1 .. rest - n
  <2>. DEFINE one == 1
              last == rest - n
  <2>1. one \in Int /\ last \in Int /\ last - one + 1 = rest - n /\ last >= 0
    BY <1>2, <1>3
  <2>2. \A j \in one .. last : pending_queue[j] \in Combinations
    BY <1>2, <1>3, ElementOfSeq DEF rest
  <2>3. \A k \in 1 .. rest - n : one + k - 1 = k
    BY <1>2, <1>3
  <2>4. IF one <= last THEN last - one + 1 = rest - n ELSE rest - n = 0
    BY <1>2, <1>3, <2>1
  <2>5. /\ SubSeq(pending_queue, one, last) \in Seq(Combinations)
        /\ Len(SubSeq(pending_queue, one, last)) = IF one <= last THEN last - one + 1 ELSE 0
        /\ \A j \in 1 .. last - one + 1 :
               SubSeq(pending_queue, one, last)[j] = pending_queue[one + j - 1]
    <3>. HIDE DEF one, last
    <3>. QED BY <1>2, <2>1, <2>2, SubSeqProperties
  <2>6. pending_queue' = SubSeq(pending_queue, one, last)
    BY <1>1
  <2>7. pending_queue' \in Seq(Combinations) /\ Len(pending_queue') = rest - n
    BY <2>4, <2>5, <2>6
  <2>. QED BY <2>1, <2>3, <2>5, <2>6, <2>7, LenProperties
<1>13. SettingsOK'
  BY <1>1 DEF IntruderInv, SettingsOK, settings
<1>14. AttackOK'
  BY <1>1, <1>10, <1>12 DEF IntruderInv, AttackOK, R
<1>15. AttackFollowsPlan'
  <2>1. Len(results') + Len(pending_queue') = Len(plan)
    BY <1>2, <1>3, <1>4, <1>10, <1>12
  <2>2. \A k \in 1 .. rest - n : k \in 1 .. rest
    BY <1>2, <1>3
  <2>. QED BY <1>1, <1>4, <1>10, <1>11, <1>12, <2>1, <2>2 DEF AttackFollowsPlan
<1>. QED BY <1>13, <1>14, <1>15 DEF IntruderInv

\* Nothing the user edits touches the attack.
LEMMA SettingsLeaveAttack ==
    ASSUME ChangeSettings
    PROVE  UNCHANGED attack
BY DEF ChangeSettings, EditTemplate, ClickClear, ClickAuto, ClickAddMarks, ClickAddSet,
       ClickDeleteSet, SelectSet, EditSet, AssignSet, SelectAttack, TypeConcurrency,
       SetTemplate, SetPayloads

\* A batch is at least one request, also when the field says 0.
LEMMA BatchShrinksQueue ==
    ASSUME IntruderInv, TakeBatch
    PROVE  plan' = plan /\ Len(pending_queue') < Len(pending_queue)
<1>. DEFINE rest == Len(pending_queue)
            n    == IF BatchSize < rest THEN BatchSize ELSE rest
<1>1. /\ rest > 0 /\ pending_queue' = SubSeq(pending_queue, 1, rest - n)
      /\ plan' = plan
  BY DEF TakeBatch, EngineFrame
<1>2. rest \in Nat /\ pending_queue \in Seq(Combinations)
  BY LenProperties DEF IntruderInv, AttackOK
<1>3. n \in 1 .. rest
  BY <1>1, <1>2 DEF BatchSize, IntruderInv, SettingsOK
<1>. HIDE DEF n
<1>4. Len(SubSeq(pending_queue, 1, rest - n)) = rest - n
  BY <1>2, <1>3
<1>. QED BY <1>1, <1>2, <1>3, <1>4

-----------------------------------------------------------------------------
(* The repeater *)

Tab == [id : TabIds, request : Requests, response : Responses]

\* What FrontTabStays says of a step.
FrontStays ==
    \/ ActiveTab'.id = ActiveTab.id
    \/ repeater_tabs' = repeater_tabs
    \/ Len(repeater_tabs') > Len(repeater_tabs)
    \/ \E i \in 1 .. active_repeater_tab : repeater_tabs' = RemoveAt(repeater_tabs, i)
    \/ InitRepeater'

LEMMA TabsAreTyped ==
    ASSUME RepeaterTypeOK
    PROVE  /\ repeater_tabs \in Seq(Tab) /\ Len(repeater_tabs) \in Nat
           /\ DOMAIN repeater_tabs = 1 .. Len(repeater_tabs)
           /\ active_repeater_tab \in 1 .. Len(repeater_tabs)
           /\ \A i \in 1 .. Len(repeater_tabs) : repeater_tabs[i] \in Tab
           /\ ActiveTab \in Tab
           /\ \A i, j \in 1 .. Len(repeater_tabs) :
                  repeater_tabs[i].id = repeater_tabs[j].id => i = j
<1>1. repeater_tabs \in Seq(Tab)
  BY DEF RepeaterTypeOK, Tab
<1>2. Len(repeater_tabs) \in Nat /\ DOMAIN repeater_tabs = 1 .. Len(repeater_tabs)
  BY <1>1, LenProperties
<1>3. active_repeater_tab \in 1 .. Len(repeater_tabs)
  BY <1>2 DEF RepeaterTypeOK
<1>4. \A i \in 1 .. Len(repeater_tabs) : repeater_tabs[i] \in Tab
  BY <1>1, ElementOfSeq
<1>. QED BY <1>1, <1>2, <1>3, <1>4 DEF RepeaterTypeOK, ActiveTab

\* What the repeater's type says, of the tabs of a sequence.
LEMMA TypedTabs ==
    ASSUME repeater_tabs' \in Seq(Tab), active_repeater_tab' \in 1 .. Len(repeater_tabs'),
           \A i, j \in 1 .. Len(repeater_tabs') :
               repeater_tabs'[i].id = repeater_tabs'[j].id => i = j
    PROVE  RepeaterTypeOK'
<1>1. DOMAIN repeater_tabs' = 1 .. Len(repeater_tabs')
  BY LenProperties
<1>. QED BY <1>1 DEF RepeaterTypeOK, Tab

LEMMA BlankIsARequest == Blank \in Requests
BY RepeaterAssumption DEF Blank

LEMMA InitRepeaterTyped == InitRepeater => RepeaterTypeOK
<1>. SUFFICES ASSUME InitRepeater PROVE RepeaterTypeOK
  OBVIOUS
<1>. DEFINE first == [id |-> 1, request |-> Blank, response |-> "none"]
<1>1. 1 \in TabIds
  BY RepeaterAssumption DEF TabIds
<1>2. first \in [id : TabIds, request : Requests, response : Responses]
  BY <1>1, BlankIsARequest DEF Responses
<1>3. repeater_tabs = <<first>> /\ active_repeater_tab = 1
  BY DEF InitRepeater
<1>. HIDE DEF first
<1>. QED BY <1>2, <1>3 DEF RepeaterTypeOK

\* While there is room for a tab there is an identity no tab has.
LEMMA FreshIdExists ==
    ASSUME RepeaterTypeOK, Len(repeater_tabs) < MaxRepeaterTabs
    PROVE  \E n \in TabIds : \A i \in DOMAIN repeater_tabs : repeater_tabs[i].id # n
<1>. DEFINE Used == {repeater_tabs[i].id : i \in DOMAIN repeater_tabs}
            open == Len(repeater_tabs)
<1>1. open \in Nat /\ DOMAIN repeater_tabs = 1 .. open
  BY TabsAreTyped
<1>2. IsFiniteSet(1 .. open) /\ Cardinality(1 .. open) = open
  <2>. HIDE DEF open
  <2>1. 1 \in Int /\ open \in Int /\ (1 > open => open = 0) /\ open - 1 + 1 = open
    BY <1>1
  <2>. QED BY <2>1, FS_Interval
<1>3. IsFiniteSet(Used) /\ Cardinality(Used) <= open
  <2>. DEFINE id == [i \in 1 .. open |-> repeater_tabs[i].id]
  <2>1. id \in Surjection(1 .. open, Used)
    BY <1>1 DEF Surjection
  <2>. HIDE DEF Used, open, id
  <2>. QED BY <1>2, <2>1, FS_Surjection
<1>4. Cardinality(TabIds) = MaxRepeaterTabs
  <2>1. 1 \in Int /\ MaxRepeaterTabs \in Int /\ ~(1 > MaxRepeaterTabs)
        /\ MaxRepeaterTabs - 1 + 1 = MaxRepeaterTabs
    BY RepeaterAssumption
  <2>. QED BY <2>1, FS_Interval DEF TabIds
<1>5. ~(TabIds \subseteq Used)
  <2>. SUFFICES ASSUME TabIds \subseteq Used PROVE FALSE
    OBVIOUS
  <2>1. Cardinality(TabIds) <= Cardinality(Used)
    <3>. HIDE DEF Used
    <3>. QED BY <1>3, FS_Subset
  <2>2. Cardinality(Used) \in Nat
    <3>. HIDE DEF Used
    <3>. QED BY <1>3, FS_CardinalityType
  <2>3. MaxRepeaterTabs \in Nat
    BY RepeaterAssumption
  <2>. HIDE DEF Used
  <2>. QED BY <1>1, <1>3, <1>4, <2>1, <2>2, <2>3
<1>. QED BY <1>5

\* A new tab, behind the others and in front of the user.
LEMMA OpenTabKeepsTabs ==
    ASSUME RepeaterTypeOK, NEW request \in Requests, NEW response \in Responses,
           OpenTab(request, response)
    PROVE  RepeaterTypeOK' /\ FrontStays
<1>. DEFINE new  == FreshTab(request, response)
            open == Len(repeater_tabs)
<1>1. /\ repeater_tabs \in Seq(Tab) /\ open \in Nat /\ DOMAIN repeater_tabs = 1 .. open
      /\ \A i, j \in 1 .. open : repeater_tabs[i].id = repeater_tabs[j].id => i = j
  BY TabsAreTyped
<1>2. /\ open < MaxRepeaterTabs /\ repeater_tabs' = Append(repeater_tabs, new)
      /\ active_repeater_tab' = open + 1
  BY DEF OpenTab
<1>3. new.id \in TabIds /\ \A i \in DOMAIN repeater_tabs : repeater_tabs[i].id # new.id
  BY <1>2, FreshIdExists DEF FreshTab
<1>4. new \in Tab
  BY <1>3 DEF FreshTab, Tab
<1>. HIDE DEF new
<1>5. /\ repeater_tabs' \in Seq(Tab) /\ Len(repeater_tabs') = open + 1
      /\ repeater_tabs'[open + 1] = new
      /\ \A i \in 1 .. open : repeater_tabs'[i] = repeater_tabs[i]
  BY <1>1, <1>2, <1>4, AppendProperties
<1>. HIDE DEF open
<1>6. \A i \in 1 .. open + 1 : i \in 1 .. open \/ i = open + 1
  BY <1>1
<1>7. \A i, j \in 1 .. open + 1 : repeater_tabs'[i].id = repeater_tabs'[j].id => i = j
  BY <1>1, <1>3, <1>5, <1>6
<1>8. active_repeater_tab' \in 1 .. Len(repeater_tabs')
  BY <1>1, <1>2, <1>5
<1>9. Len(repeater_tabs') > open
  BY <1>1, <1>5
<1>. QED BY <1>5, <1>7, <1>8, <1>9, TypedTabs DEF FrontStays, open

\* Two tabs change places; if one of them is in front, it stays in front.
LEMMA MoveTabKeepsTabs ==
    ASSUME RepeaterTypeOK, NEW i, NEW j, MoveTab(i, j)
    PROVE  RepeaterTypeOK' /\ FrontStays
<1>. DEFINE open == Len(repeater_tabs)
            one  == [repeater_tabs EXCEPT ![i] = repeater_tabs[j]]
            both == [one EXCEPT ![j] = repeater_tabs[i]]
<1>1. /\ repeater_tabs \in Seq(Tab) /\ open \in Nat /\ DOMAIN repeater_tabs = 1 .. open
      /\ active_repeater_tab \in 1 .. open
      /\ \A k \in 1 .. open : repeater_tabs[k] \in Tab
      /\ \A k, l \in 1 .. open : repeater_tabs[k].id = repeater_tabs[l].id => k = l
  BY TabsAreTyped
<1>2. /\ i \in 1 .. open /\ j \in 1 .. open
      /\ repeater_tabs' = both
      /\ active_repeater_tab' = CASE active_repeater_tab = i -> j
                                  [] active_repeater_tab = j -> i
                                  [] OTHER                   -> active_repeater_tab
  BY <1>1 DEF MoveTab, Swap
<1>3. /\ one \in Seq(Tab) /\ Len(one) = open
      /\ \A k \in 1 .. open : one[k] = IF k = i THEN repeater_tabs[j] ELSE repeater_tabs[k]
  BY <1>1, <1>2, ExceptSeq
<1>. HIDE DEF one
<1>4. /\ both \in Seq(Tab) /\ Len(both) = open
      /\ \A k \in 1 .. open : both[k] = IF k = j THEN repeater_tabs[i] ELSE one[k]
  BY <1>1, <1>2, <1>3, ExceptSeq
<1>. HIDE DEF both, open
<1>5. \A k \in 1 .. open : repeater_tabs'[k] =
          IF k = j THEN repeater_tabs[i] ELSE IF k = i THEN repeater_tabs[j] ELSE repeater_tabs[k]
  BY <1>2, <1>3, <1>4
<1>6. \A k, l \in 1 .. open : repeater_tabs'[k].id = repeater_tabs'[l].id => k = l
  BY <1>1, <1>2, <1>5
<1>7. active_repeater_tab' \in 1 .. open
  BY <1>1, <1>2
<1>8. repeater_tabs'[active_repeater_tab'] = repeater_tabs[active_repeater_tab]
  BY <1>1, <1>2, <1>5
<1>9. RepeaterTypeOK'
  BY <1>2, <1>4, <1>6, <1>7, TypedTabs
<1>. QED BY <1>8, <1>9 DEF FrontStays, ActiveTab

\* Closing a tab keeps the one in front if it was to the left of it.
LEMMA CloseTabKeepsTabs ==
    ASSUME RepeaterTypeOK, NEW i \in DOMAIN repeater_tabs, CloseTab(i)
    PROVE  RepeaterTypeOK' /\ FrontStays
<1>. DEFINE open == Len(repeater_tabs)
<1>1. /\ repeater_tabs \in Seq(Tab) /\ open \in Nat /\ DOMAIN repeater_tabs = 1 .. open
      /\ active_repeater_tab \in 1 .. open /\ ActiveTab \in Tab
      /\ \A k, l \in 1 .. open : repeater_tabs[k].id = repeater_tabs[l].id => k = l
  BY TabsAreTyped
<1>2. CASE /\ open > 1 /\ repeater_tabs' = RemoveAt(repeater_tabs, i)
           /\ active_repeater_tab' = IF active_repeater_tab >= open
                                       THEN open - 1 ELSE active_repeater_tab
  <2>1. /\ repeater_tabs' \in Seq(Tab) /\ Len(repeater_tabs') = open - 1
        /\ \A k \in 1 .. open - 1 :
               repeater_tabs'[k] = IF k < i THEN repeater_tabs[k] ELSE repeater_tabs[k + 1]
    <3>1. i \in 1 .. Len(repeater_tabs) /\ repeater_tabs \in Seq(Tab)
      BY <1>1
    <3>2. /\ RemoveAt(repeater_tabs, i) \in Seq(Tab)
          /\ Len(RemoveAt(repeater_tabs, i)) = Len(repeater_tabs) - 1
          /\ \A k \in 1 .. Len(repeater_tabs) - 1 :
                 RemoveAt(repeater_tabs, i)[k] =
                     IF k < i THEN repeater_tabs[k] ELSE repeater_tabs[k + 1]
      BY <3>1, RemoveAtFacts
    <3>. QED BY <1>2, <3>2
  <2>. HIDE DEF open
  <2>2. \A k \in 1 .. open - 1 : k \in 1 .. open /\ k + 1 \in 1 .. open
    BY <1>1
  <2>3. \A k, l \in 1 .. open - 1 : repeater_tabs'[k].id = repeater_tabs'[l].id => k = l
    <3>. SUFFICES ASSUME NEW k \in 1 .. open - 1, NEW l \in 1 .. open - 1,
                         repeater_tabs'[k].id = repeater_tabs'[l].id
                  PROVE  k = l
      OBVIOUS
    <3>. DEFINE a == IF k < i THEN k ELSE k + 1
                b == IF l < i THEN l ELSE l + 1
    <3>1. a \in 1 .. open /\ b \in 1 .. open
      BY <2>2
    <3>2. repeater_tabs'[k] = repeater_tabs[a] /\ repeater_tabs'[l] = repeater_tabs[b]
      BY <2>1
    <3>3. a = b
      <4>. HIDE DEF a, b
      <4>. QED BY <1>1, <3>1, <3>2
    <3>. QED BY <1>1, <3>3
  <2>4. active_repeater_tab' \in 1 .. open - 1
    BY <1>1, <1>2
  <2>5. RepeaterTypeOK'
    BY <2>1, <2>3, <2>4, TypedTabs
  <2>6. CASE i <= active_repeater_tab
    <3>1. i \in 1 .. active_repeater_tab
      BY <1>1, <2>6
    <3>. QED BY <1>2, <2>5, <3>1 DEF FrontStays
  <2>7. CASE active_repeater_tab < i
    <3>1. active_repeater_tab' = active_repeater_tab /\ active_repeater_tab \in 1 .. open - 1
      BY <1>1, <1>2, <2>7
    <3>2. repeater_tabs'[active_repeater_tab] = repeater_tabs[active_repeater_tab]
      BY <2>1, <2>7, <3>1
    <3>. QED BY <2>5, <3>1, <3>2 DEF FrontStays, ActiveTab
  <2>. QED BY <1>1, <2>6, <2>7
<1>3. CASE /\ open = 1 /\ active_repeater_tab' = 1
           /\ repeater_tabs' = <<[ActiveTab EXCEPT !.request = Blank, !.response = "none"]>>
  <2>. DEFINE tab == [ActiveTab EXCEPT !.request = Blank, !.response = "none"]
  <2>1. tab \in Tab /\ tab.id = ActiveTab.id
    BY <1>1, BlankIsARequest DEF Tab, Responses
  <2>. HIDE DEF tab
  <2>2. repeater_tabs' = <<tab>>
    BY <1>3 DEF tab
  <2>3. RepeaterTypeOK'
    BY <1>3, <2>1, <2>2, TypedTabs
  <2>4. ActiveTab' = tab
    BY <1>3, <2>2 DEF ActiveTab
  <2>. QED BY <2>1, <2>3, <2>4 DEF FrontStays
<1>. QED BY <1>2, <1>3 DEF CloseTab

\* What the user does to the tab in front is done to no other.
LEMMA InFrontKeepsTabs ==
    ASSUME RepeaterTypeOK, NEW tab \in Tab, tab.id = ActiveTab.id, InFront(tab)
    PROVE  RepeaterTypeOK' /\ FrontStays
<1>. DEFINE open == Len(repeater_tabs)
            here == active_repeater_tab
<1>1. /\ repeater_tabs \in Seq(Tab) /\ open \in Nat /\ here \in 1 .. open
      /\ \A k, l \in 1 .. open : repeater_tabs[k].id = repeater_tabs[l].id => k = l
  BY TabsAreTyped
<1>2. repeater_tabs' = [repeater_tabs EXCEPT ![here] = tab] /\ active_repeater_tab' = here
  BY DEF InFront
<1>3. /\ repeater_tabs' \in Seq(Tab) /\ Len(repeater_tabs') = open
      /\ \A k \in 1 .. open : repeater_tabs'[k] = IF k = here THEN tab ELSE repeater_tabs[k]
  BY <1>1, <1>2, ExceptSeq
<1>4. \A k \in 1 .. open : repeater_tabs'[k].id = repeater_tabs[k].id
  BY <1>3 DEF ActiveTab
<1>. HIDE DEF open
<1>5. RepeaterTypeOK'
  BY <1>1, <1>2, <1>3, <1>4, TypedTabs
<1>. QED BY <1>1, <1>2, <1>4, <1>5 DEF FrontStays, ActiveTab

LEMMA RepeaterStepKeepsTabs ==
    ASSUME RepeaterTypeOK, RepeaterStep
    PROVE  RepeaterTypeOK' /\ FrontStays
<1>1. ActiveTab \in Tab
  BY TabsAreTyped
<1>2. ASSUME NEW i \in DOMAIN repeater_tabs, ClickTab(i)
      PROVE  RepeaterTypeOK' /\ FrontStays
  BY <1>2 DEF ClickTab, RepeaterTypeOK, FrontStays
<1>3. ASSUME NEW request \in Requests, EditRequest(request)
      PROVE  RepeaterTypeOK' /\ FrontStays
  <2>. DEFINE tab == [ActiveTab EXCEPT !.request = request]
  <2>1. tab \in Tab /\ tab.id = ActiveTab.id
    BY <1>1 DEF Tab
  <2>. QED BY <1>3, <2>1, InFrontKeepsTabs DEF EditRequest
<1>4. ASSUME ClickSend
      PROVE  RepeaterTypeOK' /\ FrontStays
  <2>1. PICK answer \in {ActiveTab.request, "error"} :
            InFront([ActiveTab EXCEPT !.response = answer])
    BY <1>4 DEF ClickSend
  <2>. DEFINE tab == [ActiveTab EXCEPT !.response = answer]
  <2>2. answer \in Responses
    BY <1>1 DEF Tab, Responses
  <2>3. tab \in Tab /\ tab.id = ActiveTab.id
    BY <1>1, <2>2 DEF Tab
  <2>. QED BY <2>1, <2>3, InFrontKeepsTabs
<1>5. Blank \in Requests /\ "none" \in Responses
  BY BlankIsARequest DEF Responses
<1>. QED BY <1>2, <1>3, <1>4, <1>5, OpenTabKeepsTabs, MoveTabKeepsTabs, CloseTabKeepsTabs
         DEF RepeaterStep

-----------------------------------------------------------------------------
(* The window *)

Inv == IntruderInv /\ RepeaterTypeOK

LEMMA InitEstablishesInv == Init => Inv
BY InitIntruderInv, InitRepeaterTyped DEF Init, Inv

\* The same of a step after which the program is as it starts.
LEMMA StartedAnew == InitIntruder' /\ InitRepeater' => IntruderInv' /\ RepeaterTypeOK'
BY InitIntruderInv, InitRepeaterTyped, PTL

LEMMA NextKeepsInv == Inv /\ [Next]_vars => Inv' /\ (FrontStays \/ UNCHANGED repeater)
<1>. SUFFICES ASSUME Inv, [Next]_vars PROVE Inv' /\ (FrontStays \/ UNCHANGED repeater)
  OBVIOUS
<1>1. UNCHANGED intruder => IntruderInv'
  BY DEF intruder, settings, attack, Inv, IntruderInv, SettingsOK, AttackOK, AttackFollowsPlan
<1>2. UNCHANGED repeater => RepeaterTypeOK'
  BY DEF repeater, Inv, RepeaterTypeOK
<1>3. CASE \E tab \in Tabs : SwitchTab(tab)
  BY <1>1, <1>2, <1>3 DEF SwitchTab, Inv
<1>4. CASE SendToRepeater
  <2>1. PICK request \in Requests, response \in Responses : OpenTab(request, response)
    BY <1>4 DEF SendToRepeater, Responses
  <2>2. RepeaterTypeOK' /\ FrontStays
    BY <2>1, OpenTabKeepsTabs DEF Inv
  <2>. QED BY <1>1, <1>4, <2>2 DEF SendToRepeater, Inv
<1>5. CASE SendToIntruder
  <2>1. PICK marks \in 0 .. MaxMarks : SetTemplate(marks)
    BY <1>5 DEF SendToIntruder
  <2>2. SettingsOK' /\ UNCHANGED attack
    BY <2>1 DEF SetTemplate, Inv, IntruderInv, SettingsOK
  <2>3. IntruderInv'
    BY <2>2, AttackLeftAlone DEF Inv
  <2>. QED BY <1>2, <1>5, <2>3 DEF SendToIntruder, Inv
<1>6. CASE UseRepeater
  BY <1>1, <1>6, RepeaterStepKeepsTabs DEF UseRepeater, Inv
<1>7. CASE UseIntruder
  BY <1>2, <1>7, SettingsChangeKeepsInv, StartKeepsInv, StopKeepsInv DEF UseIntruder, Inv
<1>8. CASE RunAttack
  BY <1>2, <1>8, BatchKeepsInv, StopKeepsInv DEF RunAttack, Advance, Inv
<1>9. CASE AddMarksPanics
  <2>1. InitIntruder' /\ InitRepeater'
    BY <1>9 DEF AddMarksPanics, InitIntruder, InitRepeater
  <2>2. IntruderInv' /\ RepeaterTypeOK'
    BY <2>1, StartedAnew
  <2>. QED BY <2>1, <2>2 DEF FrontStays, Inv
<1>10. CASE UNCHANGED vars
  BY <1>1, <1>2, <1>10 DEF vars, Inv
<1>. QED BY <1>3, <1>4, <1>5, <1>6, <1>7, <1>8, <1>9, <1>10 DEF Next

\* The invariant holds in every state the window can reach.
THEOREM Invariance == Spec => []Inv
<1>1. Inv /\ [Next]_vars => Inv'
  BY NextKeepsInv
<1>. QED BY <1>1, InitEstablishesInv, PTL DEF Spec

\* The results of an attack are the plan made when it was started, in its order, whatever
\* is edited or sent to the intruder while it runs.
THEOREM AttackIsPlanned == Spec => []AttackFollowsPlan
<1>1. Inv => AttackFollowsPlan
  BY DEF Inv, IntruderInv
<1>. QED BY <1>1, Invariance, PTL

\* Whatever the user edits, sends here or shows instead while an attack runs, its plan stays and
\* its queue only shrinks: a step leaves the attack alone, takes a batch of at least one
\* (a concurrency of 0 counts as 1, ui/bruteforce.rs:31), or ends it.
THEOREM AttackProceeds ==
    Spec => [][running => \/ UNCHANGED attack
                          \/ plan' = plan /\ Len(pending_queue') < Len(pending_queue)
                          \/ ~running']_vars
<1>1. Inv /\ [Next]_vars =>
          [running => \/ UNCHANGED attack
                      \/ plan' = plan /\ Len(pending_queue') < Len(pending_queue)
                      \/ ~running']_vars
  <2>. SUFFICES ASSUME Inv, [Next]_vars, running
                PROVE  \/ UNCHANGED attack
                       \/ plan' = plan /\ Len(pending_queue') < Len(pending_queue)
                       \/ ~running'
    OBVIOUS
  <2>1. CASE UNCHANGED intruder
    BY <2>1 DEF intruder, attack
  <2>2. CASE \E marks \in 0 .. MaxMarks : SetTemplate(marks)
    BY <2>2 DEF SetTemplate
  <2>3. CASE Pad \/ ClickStart \/ ClickStop \/ ChangeSettings
    BY <2>3, SettingsLeaveAttack DEF Pad, ClickStart, ClickStop
  <2>4. CASE Advance
    BY <2>4, BatchShrinksQueue DEF Advance, Finish, Inv
  <2>5. CASE AddMarksPanics
    BY <2>5 DEF AddMarksPanics
  <2>. QED BY <2>1, <2>2, <2>3, <2>4, <2>5
           DEF Next, SwitchTab, SendToRepeater, SendToIntruder, UseRepeater, UseIntruder,
               RunAttack, vars
<1>. QED BY <1>1, Invariance, PTL DEF Spec

\* Whatever the template, the payload sets and the type of attack, an attack started now would
\* try every combination of its type and no other, and each of them once unless the user entered
\* a payload twice.
THEOREM PlansAreComplete == Spec => []EachCombinationOnce
<1>1. Inv => EachCombinationOnce
  BY PlanCounts DEF Inv, IntruderInv
<1>. QED BY <1>1, Invariance, PTL

\* If there are payload sets one of them is selected: deleting, selecting and editing sets
\* never index one that is not there.
THEOREM SelectedSetExists ==
    Spec => [](payload_sets # <<>> => active_set_index \in 1 .. Len(payload_sets))
<1>1. Inv => (payload_sets # <<>> => active_set_index \in 1 .. Len(payload_sets))
  BY LenProperties DEF Inv, IntruderInv, SettingsOK
<1>. QED BY <1>1, Invariance, PTL

\* There is a tab in front, and no two tabs are mixed up.
THEOREM TabsStayApart == Spec => []RepeaterTypeOK
<1>1. Inv => RepeaterTypeOK
  BY DEF Inv
<1>. QED BY <1>1, Invariance, PTL

\* Another tab comes to the front only if the user asks for it.
THEOREM FrontTabIsKept == Spec => FrontTabStays
<1>1. Inv /\ [Next]_vars =>
        [ \/ ActiveTab'.id = ActiveTab.id
          \/ repeater_tabs' = repeater_tabs
          \/ Len(repeater_tabs') > Len(repeater_tabs)
          \/ \E i \in 1 .. active_repeater_tab :
                 repeater_tabs' = RemoveAt(repeater_tabs, i)
          \/ InitRepeater' ]_repeater
  BY NextKeepsInv DEF FrontStays
<1>. QED BY <1>1, Invariance, PTL DEF Spec, FrontTabStays
=============================================================================
