------------------------------ MODULE ListLemmas ------------------------------
(***************************************************************************)
(* Facts about numbers, recursive functions and lists that the proofs      *)
(* about the components rest on.  Induction over numbers is stated with a  *)
(* set in the place of a predicate, and a recursive function is built from *)
(* a function in the place of its step, so that both can be cited.         *)
(***************************************************************************)
EXTENDS Naturals, Sequences, SequencesExt, SequenceTheorems, FiniteSetTheorems,
        WellFoundedInduction, TLAPS

-----------------------------------------------------------------------------
(* Numbers and recursive functions *)

\* A set of numbers has a least one; a least counterexample stands for induction.
LEMMA NatSubsetHasLeast ==
    ASSUME NEW T \in SUBSET Nat, T # {}
    PROVE  \E m \in T : \A k \in T : m <= k
<1>. DEFINE R == OpToRel(<, Nat)
<1>1. \A x, y \in Nat : y < x => <<y, x>> \in R
  BY DEF OpToRel
<1>2. \E x \in T : \A y \in T : ~(<<y, x>> \in R)
  BY NatLessThanWellFounded, WFMin, Zenon
<1>3. \E x \in T : \A y \in T : ~(y < x)
  <2>. HIDE DEF R
  <2>. QED BY <1>1, <1>2, Zenon
<1>4. \A x, y \in T : ~(y < x) => x <= y
  OBVIOUS
<1>. HIDE DEF R
<1>. QED BY <1>3, <1>4

\* A set that holds 0 and with each number the next holds all of them.
LEMMA Upward ==
    ASSUME NEW n \in Nat, NEW P, 0 \in P, \A k \in 0 .. n : k \in P /\ k < n => k + 1 \in P
    PROVE  \A k \in 0 .. n : k \in P
<1>. SUFFICES ASSUME ~ \A k \in 0 .. n : k \in P PROVE FALSE
  OBVIOUS
<1>. DEFINE T == {k \in 0 .. n : k \notin P}
<1>1. T \in SUBSET Nat /\ T # {}
  OBVIOUS
<1>2. PICK m \in T : \A k \in T : m <= k
  <2>. HIDE DEF T
  <2>. QED BY <1>1, NatSubsetHasLeast
<1>3. m \in 1 .. n /\ m - 1 \in 0 .. n /\ m - 1 < n /\ (m - 1) + 1 = m
  OBVIOUS
<1>4. m - 1 \in P
  BY <1>2, <1>3
<1>. QED BY <1>3, <1>4

\* f holds what n steps make of a first value.
Computes(f, n, D, base, step) ==
    /\ f \in [0 .. n -> D]
    /\ f[0] = base /\ \A k \in 1 .. n : f[k] = step[k][f[k - 1]]

\* There is such a function for any steps.
LEMMA Recursion ==
    ASSUME NEW n \in Nat, NEW D, NEW base \in D, NEW step \in [1 .. n -> [D -> D]]
    PROVE  \E f : Computes(f, n, D, base, step)
<1>. DEFINE Upto(m) == \E f \in [0 .. m -> D] :
                          f[0] = base /\ \A k \in 1 .. m : f[k] = step[k][f[k - 1]]
            P == {m \in 0 .. n : Upto(m)}
<1>1. 0 \in P
  <2>1. [k \in 0 .. 0 |-> base] \in [0 .. 0 -> D] /\ [k \in 0 .. 0 |-> base][0] = base
    OBVIOUS
  <2>2. \A k \in 1 .. 0 : FALSE
    OBVIOUS
  <2>3. Upto(0)
    BY <2>1, <2>2
  <2>. HIDE DEF Upto
  <2>. QED BY <2>3
<1>2. ASSUME NEW m \in 0 .. n, m \in P, m < n PROVE m + 1 \in P
  <2>1. PICK f \in [0 .. m -> D] : f[0] = base /\ \A k \in 1 .. m : f[k] = step[k][f[k - 1]]
    BY <1>2
  <2>. DEFINE g == [k \in 0 .. m + 1 |-> IF k <= m THEN f[k] ELSE step[m + 1][f[m]]]
  <2>2. step[m + 1][f[m]] \in D
    <3>1. m + 1 \in 1 .. n /\ f[m] \in D
      BY <1>2
    <3>. QED BY <3>1
  <2>3. g \in [0 .. m + 1 -> D] /\ g[0] = base
    BY <2>1, <2>2
  <2>4. ASSUME NEW k \in 1 .. m + 1 PROVE g[k] = step[k][g[k - 1]]
    <3>1. k - 1 \in 0 .. m + 1 /\ k - 1 <= m
      OBVIOUS
    <3>2. g[k - 1] = f[k - 1]
      BY <3>1
    <3>3. CASE k <= m
      <4>1. g[k] = f[k] /\ f[k] = step[k][f[k - 1]]
        BY <2>1, <3>3
      <4>. QED BY <3>2, <4>1
    <3>4. CASE k = m + 1
      <4>1. g[k] = step[m + 1][f[m]] /\ k - 1 = m
        BY <3>4
      <4>. QED BY <3>2, <3>4, <4>1
    <3>. QED BY <3>3, <3>4
  <2>5. Upto(m + 1)
    <3>. HIDE DEF g
    <3>. QED BY <2>3, <2>4
  <2>. QED BY <1>2, <2>5
<1>3. \A m \in 0 .. n : m \in P
  <2>. HIDE DEF P
  <2>. QED BY <1>1, <1>2, Upward
<1>4. Upto(n)
  BY <1>3
<1>. QED BY <1>4 DEF Computes

-----------------------------------------------------------------------------
(* Lists *)

\* A function on the indices of a sequence is a sequence.
LEMMA SameLength ==
    ASSUME NEW S, NEW T, NEW s \in Seq(S), NEW f \in [DOMAIN s -> T]
    PROVE  f \in Seq(T) /\ Len(f) = Len(s)
<1>1. DOMAIN s = 1 .. Len(s) /\ Len(s) \in Nat
  BY LenProperties
<1>2. f \in Seq(T)
  BY <1>1, SeqDef
<1>3. DOMAIN f = 1 .. Len(f) /\ Len(f) \in Nat
  BY <1>2, LenProperties
<1>. QED BY <1>1, <1>2, <1>3

\* A list with an element removed.
LEMMA RemoveAtFacts ==
    ASSUME NEW S, NEW s \in Seq(S), NEW i \in 1 .. Len(s)
    PROVE  /\ RemoveAt(s, i) \in Seq(S)
           /\ Len(RemoveAt(s, i)) = Len(s) - 1
           /\ \A j \in 1 .. Len(s) - 1 : RemoveAt(s, i)[j] = IF j < i THEN s[j] ELSE s[j + 1]
<1>. DEFINE left  == SubSeq(s, 1, i - 1)
            right == SubSeq(s, i + 1, Len(s))
<1>1. Len(s) \in Nat /\ \A j \in 1 .. Len(s) : s[j] \in S
  BY LenProperties, ElementOfSeq
<1>2. /\ left \in Seq(S) /\ Len(left) = i - 1
      /\ \A j \in 1 .. i - 1 : left[j] = s[j]
  <2>. DEFINE m == 1
              n == i - 1
  <2>1. m \in Int /\ n \in Int /\ n - m + 1 = i - 1
    BY <1>1
  <2>2. \A j \in m .. n : s[j] \in S
    BY <1>1
  <2>3. \A j \in 1 .. i - 1 : m + j - 1 = j
    BY <1>1
  <2>4. IF m <= n THEN n - m + 1 = i - 1 ELSE i - 1 = 0
    BY <1>1
  <2>5. /\ SubSeq(s, m, n) \in Seq(S)
        /\ Len(SubSeq(s, m, n)) = IF m <= n THEN n - m + 1 ELSE 0
        /\ \A j \in 1 .. n - m + 1 : SubSeq(s, m, n)[j] = s[m + j - 1]
    <3>. HIDE DEF m, n
    <3>. QED BY <2>1, <2>2, SubSeqProperties
  <2>. QED BY <2>1, <2>3, <2>4, <2>5
<1>3. /\ right \in Seq(S) /\ Len(right) = Len(s) - i
      /\ \A j \in 1 .. Len(s) - i : right[j] = s[i + j]
  <2>. DEFINE m == i + 1
              n == Len(s)
  <2>1. m \in Int /\ n \in Int /\ n - m + 1 = Len(s) - i
    BY <1>1
  <2>2. \A j \in m .. n : s[j] \in S
    BY <1>1
  <2>3. \A j \in 1 .. Len(s) - i : m + j - 1 = i + j
    BY <1>1
  <2>4. IF m <= n THEN n - m + 1 = Len(s) - i ELSE Len(s) - i = 0
    BY <1>1
  <2>5. /\ SubSeq(s, m, n) \in Seq(S)
        /\ Len(SubSeq(s, m, n)) = IF m <= n THEN n - m + 1 ELSE 0
        /\ \A j \in 1 .. n - m + 1 : SubSeq(s, m, n)[j] = s[m + j - 1]
    <3>. HIDE DEF m, n
    <3>. QED BY <2>1, <2>2, SubSeqProperties
  <2>. QED BY <2>1, <2>3, <2>4, <2>5
<1>. HIDE DEF left, right
<1>4. /\ left \o right \in Seq(S) /\ Len(left \o right) = Len(left) + Len(right)
      /\ \A j \in 1 .. Len(left) + Len(right) :
             (left \o right)[j] = IF j <= Len(left) THEN left[j] ELSE right[j - Len(left)]
  BY <1>2, <1>3, ConcatProperties
<1>5. RemoveAt(s, i) = left \o right
  BY DEF RemoveAt, left, right
<1>6. ASSUME NEW j \in 1 .. Len(s) - 1
      PROVE  RemoveAt(s, i)[j] = IF j < i THEN s[j] ELSE s[j + 1]
  <2>1. CASE j < i
    BY <1>1, <1>2, <1>3, <1>4, <1>5, <2>1
  <2>2. CASE j >= i
    <3>1. j - (i - 1) \in 1 .. Len(s) - i /\ i + (j - (i - 1)) = j + 1 /\ ~(j <= i - 1)
      BY <1>1, <2>2
    <3>2. right[j - (i - 1)] = s[j + 1]
      BY <1>3, <3>1
    <3>3. j \in 1 .. Len(left) + Len(right)
      BY <1>1, <1>2, <1>3
    <3>. QED BY <1>2, <1>4, <1>5, <2>2, <3>1, <3>2, <3>3
  <2>. QED BY <1>1, <2>1, <2>2
<1>7. RemoveAt(s, i) \in Seq(S)
  BY <1>4, <1>5
<1>8. Len(RemoveAt(s, i)) = Len(s) - 1
  <2>1. Len(RemoveAt(s, i)) = Len(left) + Len(right)
    BY <1>4, <1>5
  <2>2. (i - 1) + (Len(s) - i) = Len(s) - 1
    BY <1>1
  <2>. QED BY <1>2, <1>3, <2>1, <2>2
<1>. QED BY <1>6, <1>7, <1>8

-----------------------------------------------------------------------------
(* Joining lists *)

\* Joining a sequence of sequences puts one behind the other.
LEMMA FlattenUnfolds ==
    ASSUME NEW S, NEW ss \in Seq(Seq(S))
    PROVE  \E f \in [0 .. Len(ss) -> Seq(S)] :
               /\ f[0] = <<>> /\ FlattenSeq(ss) = f[Len(ss)]
               /\ \A i \in 1 .. Len(ss) : f[i] = f[i - 1] \o ss[i]
<1>. DEFINE n == Len(ss)
            flatten == CHOOSE f : f = [i \in 1 .. Len(ss) |->
                                         IF i = 1 THEN ss[i] ELSE f[i - 1] \o ss[i]]
            step == [k \in 1 .. n |-> [s \in Seq(S) |-> s \o ss[k]]]
<1>1. n \in Nat /\ \A i \in 1 .. n : ss[i] \in Seq(S)
  BY LenProperties, ElementOfSeq
<1>2. FlattenSeq(ss) = IF Len(ss) = 0 THEN ss ELSE flatten[Len(ss)]
  BY DEF FlattenSeq
<1>3. step \in [1 .. n -> [Seq(S) -> Seq(S)]]
  <2>1. \A k \in 1 .. n : \A s \in Seq(S) : s \o ss[k] \in Seq(S)
    BY <1>1, ConcatProperties
  <2>. QED BY <2>1
<1>4. PICK f \in [0 .. n -> Seq(S)] : f[0] = <<>> /\ \A k \in 1 .. n : f[k] = step[k][f[k - 1]]
  <2>1. <<>> \in Seq(S)
    BY EmptySeq
  <2>. HIDE DEF step, n
  <2>2. \E f : Computes(f, n, Seq(S), <<>>, step)
    BY <1>1, <1>3, <2>1, Recursion
  <2>. QED BY <2>2 DEF Computes
<1>5. ASSUME NEW k \in 1 .. n PROVE f[k] = f[k - 1] \o ss[k] /\ f[k - 1] \in Seq(S)
  <2>1. k - 1 \in 0 .. n
    BY <1>1
  <2>2. f[k - 1] \in Seq(S)
    BY <2>1
  <2>. QED BY <1>4, <2>2
<1>. HIDE DEF step
<1>6. CASE n = 0
  <2>1. ss = <<>>
    BY <1>6, EmptySeq
  <2>. QED BY <1>2, <1>4, <1>5, <1>6, <2>1
<1>7. CASE n # 0
  <2>. DEFINE g == [i \in 1 .. n |-> f[i]]
  <2>1. ASSUME NEW i \in 1 .. n PROVE g[i] = IF i = 1 THEN ss[i] ELSE g[i - 1] \o ss[i]
    <3>1. CASE i = 1
      <4>1. f[1] = <<>> \o ss[1] /\ ss[1] \in Seq(S)
        <5>1. 1 \in 1 .. n /\ 1 - 1 = 0
          BY <3>1
        <5>2. f[1] = f[1 - 1] \o ss[1] /\ ss[1] \in Seq(S)
          BY <1>1, <1>5, <5>1
        <5>. QED BY <1>4, <5>1, <5>2
      <4>. QED BY <3>1, <4>1, ConcatEmptySeq
    <3>2. CASE i # 1
      <4>1. i - 1 \in 1 .. n
        BY <1>1, <3>2
      <4>. QED BY <1>5, <3>2, <4>1
    <3>. QED BY <3>1, <3>2
  <2>2. g = [i \in 1 .. Len(ss) |-> IF i = 1 THEN ss[i] ELSE g[i - 1] \o ss[i]]
    <3>1. g = [i \in 1 .. n |-> g[i]]
      OBVIOUS
    <3>. HIDE DEF g
    <3>. QED BY <2>1, <3>1
  <2>3. flatten = [i \in 1 .. n |-> IF i = 1 THEN ss[i] ELSE flatten[i - 1] \o ss[i]]
    <3>. HIDE DEF g
    <3>. QED BY <2>2
  <2>. HIDE DEF flatten, g
  <2>. DEFINE P == {k \in 0 .. n : k # 0 => flatten[k] = f[k]}
  <2>4. \A k \in 0 .. n : k \in P
    <3>1. 0 \in P
      BY <1>1
    <3>2. ASSUME NEW k \in 0 .. n, k \in P, k < n PROVE k + 1 \in P
      <4>1. k + 1 \in 1 .. n /\ (k + 1) - 1 = k
        BY <1>1, <3>2
      <4>2. flatten[k + 1] = IF k + 1 = 1 THEN ss[k + 1] ELSE flatten[k] \o ss[k + 1]
        BY <2>3, <4>1
      <4>3. f[k + 1] = f[k] \o ss[k + 1]
        BY <1>5, <4>1
      <4>4. CASE k = 0
        <5>1. ss[1] \in Seq(S)
          BY <1>1, <4>1, <4>4
        <5>2. flatten[k + 1] = f[k + 1]
          BY <1>4, <4>2, <4>3, <4>4, <5>1, ConcatEmptySeq
        <5>. QED BY <4>1, <5>2
      <4>5. CASE k # 0
        <5>1. flatten[k] = f[k] /\ k + 1 # 1
          BY <3>2, <4>5
        <5>2. flatten[k + 1] = f[k + 1]
          BY <4>2, <4>3, <5>1
        <5>. QED BY <4>1, <5>2
      <4>. QED BY <4>4, <4>5
    <3>. HIDE DEF P
    <3>. QED BY <1>1, <3>1, <3>2, Upward
  <2>5. n \in P
    <3>. HIDE DEF P
    <3>. QED BY <1>1, <2>4
  <2>. QED BY <1>2, <1>4, <1>5, <1>7, <2>5
<1>. QED BY <1>6, <1>7

\* Joining a sequence of sequences gives a sequence.
LEMMA FlattenIsSeq ==
    ASSUME NEW S, NEW ss \in Seq(Seq(S))
    PROVE  FlattenSeq(ss) \in Seq(S)
<1>1. Len(ss) \in 0 .. Len(ss)
  BY LenProperties
<1>2. PICK f \in [0 .. Len(ss) -> Seq(S)] : FlattenSeq(ss) = f[Len(ss)]
  BY FlattenUnfolds
<1>. QED BY <1>1, <1>2

\* Two lists without repetitions and without common elements have none together.
LEMMA ConcatInjective ==
    ASSUME NEW S, NEW s \in Seq(S), NEW t \in Seq(S), IsInjective(s), IsInjective(t),
           Range(s) \cap Range(t) = {}
    PROVE  IsInjective(s \o t)
<1>1. /\ s \o t \in Seq(S) /\ DOMAIN (s \o t) = 1 .. Len(s) + Len(t)
      /\ \A i \in 1 .. Len(s) + Len(t) : (s \o t)[i] = IF i <= Len(s) THEN s[i] ELSE t[i - Len(s)]
  BY ConcatProperties, LenProperties
<1>2. Len(s) \in Nat /\ Len(t) \in Nat /\ DOMAIN s = 1 .. Len(s) /\ DOMAIN t = 1 .. Len(t)
  BY LenProperties
<1>3. \A i \in 1 .. Len(s), j \in 1 .. Len(t) : s[i] # t[j]
  BY <1>2 DEF Range
<1>. SUFFICES ASSUME NEW i \in 1 .. Len(s) + Len(t), NEW j \in 1 .. Len(s) + Len(t),
                     (s \o t)[i] = (s \o t)[j]
              PROVE  i = j
  BY <1>1 DEF IsInjective
<1>4. CASE i <= Len(s) /\ j <= Len(s)
  BY <1>1, <1>2, <1>4 DEF IsInjective
<1>5. CASE ~(i <= Len(s)) /\ ~(j <= Len(s))
  <2>1. i - Len(s) \in 1 .. Len(t) /\ j - Len(s) \in 1 .. Len(t)
    BY <1>2, <1>5
  <2>2. t[i - Len(s)] = t[j - Len(s)]
    BY <1>1, <1>5
  <2>3. i - Len(s) = j - Len(s)
    BY <1>2, <2>1, <2>2 DEF IsInjective
  <2>. QED BY <1>2, <2>3
<1>6. CASE i <= Len(s) /\ ~(j <= Len(s))
  <2>1. i \in 1 .. Len(s) /\ j - Len(s) \in 1 .. Len(t)
    BY <1>2, <1>6
  <2>. QED BY <1>1, <1>3, <1>6, <2>1
<1>7. CASE ~(i <= Len(s)) /\ j <= Len(s)
  <2>1. j \in 1 .. Len(s) /\ i - Len(s) \in 1 .. Len(t)
    BY <1>2, <1>7
  <2>. QED BY <1>1, <1>3, <1>7, <2>1
<1>. QED BY <1>4, <1>5, <1>6, <1>7

\* What is joined has the elements of its pieces, and has none twice if no piece has
\* and no two pieces share any.
LEMMA FlattenFacts ==
    ASSUME NEW S, NEW ss \in Seq(Seq(S))
    PROVE  /\ Range(FlattenSeq(ss)) = UNION {Range(ss[i]) : i \in 1 .. Len(ss)}
           /\ (/\ \A i \in 1 .. Len(ss) : IsInjective(ss[i])
               /\ \A i, j \in 1 .. Len(ss) : i # j => Range(ss[i]) \cap Range(ss[j]) = {})
              => IsInjective(FlattenSeq(ss))
<1>. DEFINE n == Len(ss)
            Elements(k) == UNION {Range(ss[i]) : i \in 1 .. k}
            Apart == /\ \A i \in 1 .. n : IsInjective(ss[i])
                     /\ \A i, j \in 1 .. n : i # j => Range(ss[i]) \cap Range(ss[j]) = {}
<1>1. n \in Nat /\ \A i \in 1 .. n : ss[i] \in Seq(S)
  BY LenProperties, ElementOfSeq
<1>2. PICK f \in [0 .. n -> Seq(S)] :
          /\ f[0] = <<>> /\ FlattenSeq(ss) = f[n]
          /\ \A i \in 1 .. n : f[i] = f[i - 1] \o ss[i]
  BY FlattenUnfolds
<1>. HIDE DEF n
<1>. DEFINE P == {k \in 0 .. n : Range(f[k]) = Elements(k) /\ (Apart => IsInjective(f[k]))}
<1>3. 0 \in P
  <2>1. DOMAIN <<>> = {}
    BY EmptySeq, LenProperties
  <2>2. Range(<<>>) = {} /\ IsInjective(<<>>)
    BY <2>1 DEF Range, IsInjective
  <2>. QED BY <1>1, <1>2, <2>2
<1>4. ASSUME NEW k \in 0 .. n, k \in P, k < n PROVE k + 1 \in P
  <2>1. k + 1 \in 1 .. n /\ (k + 1) - 1 = k /\ f[k] \in Seq(S)
    BY <1>1, <1>4
  <2>2. f[k + 1] = f[k] \o ss[k + 1] /\ ss[k + 1] \in Seq(S)
    BY <1>1, <1>2, <2>1
  <2>3. Range(f[k]) = Elements(k)
    BY <1>4
  <2>4. Range(f[k + 1]) = Range(f[k]) \cup Range(ss[k + 1])
    BY <2>1, <2>2, RangeConcatenation
  <2>5. Elements(k + 1) = Elements(k) \cup Range(ss[k + 1])
    <3>1. \A i : i \in 1 .. k + 1 <=> i \in 1 .. k \/ i = k + 1
      BY <2>1
    <3>. QED BY <3>1
  <2>6. ASSUME Apart PROVE IsInjective(f[k + 1])
    <3>1. IsInjective(f[k]) /\ IsInjective(ss[k + 1])
      BY <1>4, <2>1, <2>6
    <3>2. \A i \in 1 .. k : Range(ss[i]) \cap Range(ss[k + 1]) = {}
      <4>1. \A i \in 1 .. k : i \in 1 .. n /\ i # k + 1
        BY <1>1, <2>1
      <4>. QED BY <2>1, <2>6, <4>1
    <3>3. Range(f[k]) \cap Range(ss[k + 1]) = {}
      BY <2>3, <3>2
    <3>. QED BY <2>1, <2>2, <3>1, <3>3, ConcatInjective
  <2>7. Range(f[k + 1]) = Elements(k + 1) /\ k + 1 \in 0 .. n
    BY <2>1, <2>3, <2>4, <2>5
  <2>. HIDE DEF Elements, Apart
  <2>. QED BY <2>6, <2>7
<1>5. n \in P
  <2>1. n \in Nat /\ n \in 0 .. n
    BY <1>1
  <2>. HIDE DEF P
  <2>2. \A k \in 0 .. n : k \in P
    BY <1>3, <1>4, <2>1, Upward
  <2>. QED BY <2>1, <2>2
<1>. QED BY <1>2, <1>5 DEF n

\* A list without repetitions is as long as the set of its elements.
LEMMA InjectiveLength ==
    ASSUME NEW S, NEW s \in Seq(S), IsInjective(s)
    PROVE  Len(s) = Cardinality(Range(s))
<1>1. Len(s) \in Nat /\ DOMAIN s = 1 .. Len(s) /\ s \in [1 .. Len(s) -> S]
  BY LenProperties
<1>2. s \in Bijection(1 .. Len(s), Range(s))
  <2>1. s \in [1 .. Len(s) -> Range(s)] /\ \A t \in Range(s) : \E i \in 1 .. Len(s) : s[i] = t
    BY <1>1 DEF Range
  <2>. QED BY <2>1 DEF Bijection, Injection, Surjection
<1>. QED BY <1>1, <1>2, FS_CountingElements DEF ExistsBijection
=============================================================================
