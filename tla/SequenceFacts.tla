---------------------------- MODULE SequenceFacts ----------------------------
(***************************************************************************)
(* Facts about data that the other proofs rest on: induction over the      *)
(* natural numbers, stated with a set, what a fold computes, and sums over *)
(* finite sets.                                                            *)
(***************************************************************************)
EXTENDS Integers, Sequences, SequencesExt, SequenceTheorems, FiniteSetTheorems, TLAPS

\* Induction: a set that contains 0 and with every number its successor contains every number.
\* If m were missing, adding one would map the numbers below m that it contains into those but 0.
LEMMA NatSetInduction ==
  ASSUME NEW S, 0 \in S, \A n \in Nat : n \in S => n + 1 \in S
  PROVE  Nat \subseteq S
<1> SUFFICES ASSUME NEW m \in Nat, m \notin S PROVE FALSE  OBVIOUS
<1> DEFINE A == S \cap (0..m)
           f == [i \in A |-> i + 1]
<1>1. IsFiniteSet(0..m) /\ A \in SUBSET (0..m)  BY FS_Interval
<1>2. IsFiniteSet(A)  BY <1>1, FS_Subset
<1>3. 0 \in A  OBVIOUS
<1>4. IsFiniteSet(A \ {0}) /\ Cardinality(A \ {0}) = Cardinality(A) - 1 /\ Cardinality(A) \in Nat
  BY <1>2, <1>3, FS_RemoveElement, FS_CardinalityType
<1>5. f \in [A -> A \ {0}]  OBVIOUS
<1>6. \E x, y \in A : x # y /\ f[x] = f[y]
  <2>1. Cardinality(A \ {0}) < Cardinality(A)  BY <1>4
  <2> HIDE DEF A, f
  <2> QED  BY <1>2, <1>4, <1>5, <2>1, FS_PigeonHole
<1> QED  BY <1>6

\* Induction up to a bound.
LEMMA UpTo ==
  ASSUME NEW n \in Nat, NEW S, 0 \in S, \A i \in 1..n : i - 1 \in S => i \in S
  PROVE  0..n \subseteq S
<1> DEFINE T == {i \in Nat : i <= n => i \in S}
<1>1. 0 \in T  OBVIOUS
<1>2. \A i \in Nat : i \in T => i + 1 \in T
  <2> SUFFICES ASSUME NEW i \in Nat, i \in T, i + 1 <= n PROVE i + 1 \in S  OBVIOUS
  <2>1. i + 1 \in 1..n /\ (i + 1) - 1 = i  OBVIOUS
  <2>2. i \in S  OBVIOUS
  <2> QED  BY <2>1, <2>2
<1> HIDE DEF T
<1>3. Nat \subseteq T  BY <1>1, <1>2, NatSetInduction
<1> QED  BY <1>3 DEF T

\* Appending leaves the elements where they are.
LEMMA AppendOf ==
  ASSUME NEW s, NEW B, s \in Seq(B), NEW e
  PROVE  /\ Len(s) \in Nat /\ Len(Append(s, e)) = Len(s) + 1 /\ Append(s, e) # <<>>
         /\ Append(s, e)[Len(s) + 1] = e /\ \A i \in 1..Len(s) : Append(s, e)[i] = s[i]
<1>1. s \in Seq(B \cup {e})  BY SeqMonotonic
<1> QED  BY <1>1, AppendProperties

\* The last element of a sequence is that of its end.
LEMMA ConcatAppend ==
  ASSUME NEW B, NEW x \in Seq(B), NEW y \in Seq(B), NEW e \in B
  PROVE  x \o Append(y, e) = Append(x \o y, e) /\ Append(y, e) \in Seq(B)
OBVIOUS

\* The elements of two sequences, one after the other.
Joins(x, y, z) ==
  /\ Len(x) \in Nat /\ Len(y) \in Nat /\ Len(z) = Len(x) + Len(y)
  /\ \A i \in 1..Len(x) : z[i] = x[i]
  /\ \A i \in 1..Len(y) : z[Len(x) + i] = y[i]

\* \o puts one sequence behind the other.
LEMMA ConcatOf ==
  ASSUME NEW B, NEW x \in Seq(B), NEW y \in Seq(B)
  PROVE  Joins(x, y, x \o y)
BY DEF Joins

\* A sequence is what comes before a place and what comes after it.
LEMMA CutAt ==
  ASSUME NEW B, NEW s \in Seq(B), NEW n \in 0..Len(s)
  PROVE  /\ SubSeq(s, 1, n) \in Seq(B) /\ SubSeq(s, n + 1, Len(s)) \in Seq(B)
         /\ SubSeq(s, 1, n) \o SubSeq(s, n + 1, Len(s)) = s
<1>1. Len(s) \in Nat /\ n \in Nat /\ n <= Len(s)  OBVIOUS
<1>2. SubSeq(s, 1, n) \in Seq(B) /\ Len(SubSeq(s, 1, n)) = n /\ \A i \in 1..n : SubSeq(s, 1, n)[i] = s[i]
  BY <1>1
<1>3. /\ SubSeq(s, n + 1, Len(s)) \in Seq(B) /\ Len(SubSeq(s, n + 1, Len(s))) = Len(s) - n
      /\ \A i \in 1..(Len(s) - n) : SubSeq(s, n + 1, Len(s))[i] = s[n + i]
  <2>1. n + 1 \in 1..(Len(s) + 1)  BY <1>1
  <2> QED  BY <1>1, <2>1
<1> DEFINE x == SubSeq(s, 1, n)
           y == SubSeq(s, n + 1, Len(s))
<1>4. x \o y \in Seq(B) /\ Len(x \o y) = Len(s)
      /\ \A i \in 1..Len(s) : (x \o y)[i] = IF i <= n THEN x[i] ELSE y[i - n]
  <2>1. x \in Seq(B) /\ Len(x) = n /\ y \in Seq(B) /\ Len(y) = Len(s) - n  BY <1>2, <1>3
  <2> HIDE DEF x, y
  <2>2. x \o y \in Seq(B) /\ Len(x \o y) = n + (Len(s) - n)  BY <2>1
  <2>3. \A i \in 1..(n + (Len(s) - n)) : (x \o y)[i] = IF i <= n THEN x[i] ELSE y[i - n]  BY <2>1
  <2>4. n + (Len(s) - n) = Len(s)  BY <1>1
  <2> QED  BY <2>2, <2>3, <2>4
<1>5. \A i \in 1..Len(s) : (x \o y)[i] = s[i]
  <2> SUFFICES ASSUME NEW i \in 1..Len(s) PROVE (IF i <= n THEN x[i] ELSE y[i - n]) = s[i]  BY <1>4
  <2> HIDE DEF x, y
  <2>1. CASE i <= n  BY <1>1, <1>2, <2>1 DEF x
  <2>2. CASE ~(i <= n)
    <3>1. i - n \in 1..(Len(s) - n) /\ n + (i - n) = i  BY <1>1, <2>2
    <3> QED  BY <1>3, <2>2, <3>1 DEF y
  <2> QED  BY <2>1, <2>2
<1>6. x \o y = s
  <2> HIDE DEF x, y
  <2> QED  BY <1>4, <1>5, SeqEqual
<1> QED  BY <1>2, <1>3, <1>6

\* Induction over sequences: a set with the empty sequence and, with each sequence over B, what
\* becomes of it when one element is appended, contains every sequence over B.
LEMMA SeqSetInduction ==
  ASSUME NEW B, NEW S, <<>> \in S, \A s \in Seq(B), b \in B : s \in S => Append(s, b) \in S
  PROVE  Seq(B) \subseteq S
<1> SUFFICES ASSUME NEW s \in Seq(B) PROVE s \in S  OBVIOUS
<1> DEFINE n == Len(s)
           T == {i \in 0..n : SubSeq(s, 1, i) \in S}
<1>1. n \in Nat  OBVIOUS
<1>2. \A i : i \in T <=> i \in 0..n /\ SubSeq(s, 1, i) \in S  OBVIOUS
<1> HIDE DEF T
<1>8. 0 \in T
  <2>1. SubSeq(s, 1, 0) = <<>>  OBVIOUS
  <2>2. 0 \in 0..n  BY <1>1
  <2>3. SubSeq(s, 1, 0) \in S  BY <2>1
  <2> QED  BY <1>2, <2>2, <2>3
<1>3. ASSUME NEW i \in 1..n, i - 1 \in T PROVE i \in T
  <2>1. SubSeq(s, 1, i - 1) \in Seq(B) /\ s[i] \in B  OBVIOUS
  <2>2. SubSeq(s, 1, i) = Append(SubSeq(s, 1, i - 1), s[i])  OBVIOUS
  <2>3. SubSeq(s, 1, i) \in S  BY <1>2, <1>3, <2>1, <2>2
  <2> QED  BY <1>2, <2>3
<1>4. n \in T
  <2> HIDE DEF n
  <2>1. 0..n \subseteq T  BY <1>1, <1>8, <1>3, UpTo
  <2> QED  BY <1>1, <2>1
<1>5. SubSeq(s, 1, n) = s  OBVIOUS
<1> QED  BY <1>2, <1>4, <1>5

\* A set of natural numbers has a least.
LEMMA SmallestOf ==
  ASSUME NEW s \in SUBSET Nat, s # {}
  PROVE  \E x \in s : \A y \in s : x <= y
<1> SUFFICES ASSUME \A x \in s : \E y \in s : y < x PROVE FALSE  OBVIOUS
<1> DEFINE S == {k \in Nat : \A x \in s : x >= k}
<1>1. 0 \in S  OBVIOUS
<1>2. ASSUME NEW k \in Nat, k \in S PROVE k + 1 \in S
  <2> SUFFICES ASSUME NEW x \in s PROVE x >= k + 1  OBVIOUS
  <2>1. PICK y \in s : y < x  OBVIOUS
  <2>2. y >= k /\ x \in Nat /\ y \in Nat  BY <1>2
  <2> QED  BY <2>1, <2>2
<1> HIDE DEF S
<1>3. Nat \subseteq S  BY <1>1, <1>2, NatSetInduction
<1>4. PICK x \in s : TRUE  OBVIOUS
<1>5. x + 1 \in S  BY <1>3
<1> QED  BY <1>5 DEF S

\* The greatest number of a set that has one.
LEMMA MaxIs ==
  ASSUME NEW s \in SUBSET Int, NEW m \in s, \A x \in s : x <= m
  PROVE  Max(s) = m
<1>1. \E x \in s : \A y \in s : x >= y  OBVIOUS
<1>2. Max(s) \in s /\ \A y \in s : Max(s) >= y  BY <1>1 DEF Max
<1>3. Max(s) \in Int /\ m \in Int /\ Max(s) >= m /\ Max(s) <= m  BY <1>2
<1> HIDE DEF Max
<1> QED  BY <1>3

\* A finite set of numbers has a greatest.
LEMMA MaxTyped ==
  ASSUME NEW n \in Nat, NEW s \in SUBSET (1..n), s # {}
  PROVE  Max(s) \in s /\ \A x \in s : x <= Max(s)
<1> DEFINE S == {k \in Nat : \A t \in SUBSET (1..k) : t # {} => \E x \in t : \A y \in t : y <= x}
<1>1. 0 \in S
  <2>1. 1..0 = {}  OBVIOUS
  <2> QED  BY <2>1
<1>2. ASSUME NEW k \in Nat, k \in S PROVE k + 1 \in S
  <2> SUFFICES ASSUME NEW t \in SUBSET (1..(k + 1)), t # {} PROVE \E x \in t : \A y \in t : y <= x  OBVIOUS
  <2>1. CASE k + 1 \in t  BY <2>1
  <2>2. CASE k + 1 \notin t
    <3>1. t \in SUBSET (1..k)  BY <2>2
    <3> QED  BY <1>2, <3>1
  <2> QED  BY <2>1, <2>2
<1> HIDE DEF S
<1>3. Nat \subseteq S  BY <1>1, <1>2, NatSetInduction
<1>4. \E x \in s : \A y \in s : y <= x  BY <1>3 DEF S
<1>5. PICK x \in s : \A y \in s : y <= x  BY <1>4
<1>6. Max(s) = x  BY <1>5, MaxIs
<1> QED  BY <1>5, <1>6

\* A function such as FoldLeft is defined by, for a step that is a function of the state and the
\* index of an element.
Folding(g, n, base, step) ==
  /\ g[{}] = base
  /\ \A s \in SUBSET (1..n) : s # {} => g[s] = step[<<g[s \ {Max(s)}], Max(s)>>]

\* There is such a function.
LEMMA FoldExists ==
  ASSUME NEW n \in Nat, NEW S, NEW base \in S, NEW step \in [S \X (1..n) -> S]
  PROVE  \E g \in [SUBSET (1..n) -> S] : Folding(g, n, base, step)
<1> DEFINE Good(k, g) == /\ g[{}] = base
                         /\ \A s \in SUBSET (1..k) : s # {} => g[s] = step[<<g[s \ {Max(s)}], Max(s)>>]
           T == {k \in 0..n : \E g \in [SUBSET (1..k) -> S] : Good(k, g)}
<1>1. 0 \in T
  <2> DEFINE g == [s \in SUBSET (1..0) |-> base]
  <2>1. g \in [SUBSET (1..0) -> S]  OBVIOUS
  <2>2. Good(0, g)
    <3>1. SUBSET (1..0) = {{}}  OBVIOUS
    <3> QED  BY <3>1
  <2>3. 0 \in 0..n  OBVIOUS
  <2> HIDE DEF g, Good
  <2> QED  BY <2>1, <2>2, <2>3
<1>2. ASSUME NEW i \in 1..n, i - 1 \in T PROVE i \in T
  <2>1. PICK g \in [SUBSET (1..(i - 1)) -> S] : Good(i - 1, g)  BY <1>2
  <2> DEFINE h == [s \in SUBSET (1..i) |-> IF i \in s THEN step[<<g[s \ {i}], i>>] ELSE g[s]]
  <2>2. \A s \in SUBSET (1..i) : s \ {i} \in SUBSET (1..(i - 1))  OBVIOUS
  <2>3. \A s \in SUBSET (1..i) : i \notin s => s \in SUBSET (1..(i - 1))  BY <2>2
  <2>4. h \in [SUBSET (1..i) -> S]
    <3> SUFFICES ASSUME NEW s \in SUBSET (1..i) PROVE (IF i \in s THEN step[<<g[s \ {i}], i>>] ELSE g[s]) \in S  OBVIOUS
    <3>1. CASE i \in s
      <4>1. g[s \ {i}] \in S  BY <2>2
      <4>2. <<g[s \ {i}], i>> \in S \X (1..n)  BY <4>1
      <4> QED  BY <3>1, <4>2
    <3>2. CASE i \notin s  BY <2>3, <3>2
    <3> QED  BY <3>1, <3>2
  <2>5. h[{}] = base  BY <2>1
  <2>6. ASSUME NEW s \in SUBSET (1..i), s # {}
        PROVE  h[s] = step[<<h[s \ {Max(s)}], Max(s)>>]
    <3>1. CASE i \in s
      <4>1. Max(s) = i  BY <3>1, MaxIs
      <4>2. h[s \ {i}] = g[s \ {i}]  BY <2>2
      <4>3. h[s] = step[<<g[s \ {i}], i>>]  BY <3>1
      <4> HIDE DEF h
      <4> QED  BY <3>1, <4>1, <4>2, <4>3
    <3>2. CASE i \notin s
      <4>1. s \in SUBSET (1..(i - 1))  BY <2>3, <3>2
      <4>2. h[s] = g[s] /\ h[s \ {Max(s)}] = g[s \ {Max(s)}]  BY <3>2, <4>1
      <4>3. g[s] = step[<<g[s \ {Max(s)}], Max(s)>>]  BY <2>1, <2>6, <4>1
      <4> HIDE DEF h
      <4> QED  BY <4>2, <4>3
    <3> QED  BY <3>1, <3>2
  <2>7. i \in 0..n /\ Good(i, h)
    <3> HIDE DEF h
    <3> QED  BY <2>5, <2>6
  <2> HIDE DEF h, Good
  <2> QED  BY <2>4, <2>7
<1> HIDE DEF T
<1>3. 0..n \subseteq T  BY <1>1, <1>2, UpTo
<1>4. n \in T  BY <1>3
<1> QED  BY <1>4 DEF T, Folding

\* The greatest number of an interval.
LEMMA MaxOfInterval ==
  ASSUME NEW i \in Nat \ {0}
  PROVE  Max(1..i) = i /\ (1..i) \ {i} = 1..(i - 1)
<1>1. i \in 1..i /\ 1..i \in SUBSET Int /\ \A x \in 1..i : x <= i  OBVIOUS
<1>2. Max(1..i) = i  BY <1>1, MaxIs
<1>3. (1..i) \ {i} = 1..(i - 1)  OBVIOUS
<1> QED  BY <1>2, <1>3

\* A function that satisfies the equations of a fold wherever its values are states.
Unfolds(g, n, S, base, step) ==
  /\ g[{}] = base
  /\ \A s \in SUBSET (1..n) : s # {} /\ g[s \ {Max(s)}] \in S => g[s] = step[<<g[s \ {Max(s)}], Max(s)>>]

\* One step for each index, from one state to another.
RunOf(f, n, base, step, end) ==
  /\ f[0] = base /\ f[n] = end
  /\ \A i \in 1..n : f[i] = step[<<f[i - 1], i>>]

\* Such a function takes one step for each element, from one state to the next.
LEMMA FoldRuns ==
  ASSUME NEW n \in Nat, NEW S, NEW base \in S, NEW step \in [S \X (1..n) -> S], NEW g, Unfolds(g, n, S, base, step)
  PROVE  \E f \in [0..n -> S] : RunOf(f, n, base, step, g[1..n])
<1> DEFINE f == [i \in 0..n |-> g[1..i]]
           T == {i \in 0..n : g[1..i] \in S}
<1>1. g[1..0] = base
  <2>1. 1..0 = {}  OBVIOUS
  <2> QED  BY <2>1 DEF Unfolds
<1>2. ASSUME NEW i \in 1..n, g[1..(i - 1)] \in S PROVE g[1..i] = step[<<g[1..(i - 1)], i>>] /\ g[1..i] \in S
  <2>1. Max(1..i) = i /\ (1..i) \ {i} = 1..(i - 1)  BY MaxOfInterval
  <2>2. 1..i \in SUBSET (1..n) /\ i \in 1..i  OBVIOUS
  <2>3. g[1..i] = step[<<g[1..(i - 1)], i>>]  BY <1>2, <2>1, <2>2 DEF Unfolds
  <2> QED  BY <1>2, <2>3
<1>3. 0..n \subseteq T
  <2>1. 0 \in T  BY <1>1
  <2>2. ASSUME NEW i \in 1..n, i - 1 \in T PROVE i \in T
    <3>1. i \in 0..n /\ g[1..(i - 1)] \in S  BY <2>2
    <3> QED  BY <1>2, <3>1
  <2> HIDE DEF T
  <2> QED  BY <2>1, <2>2, UpTo
<1>4. f \in [0..n -> S]  BY <1>3
<1>5. \A i \in 0..n : f[i] = g[1..i]  OBVIOUS
<1> HIDE DEF f
<1>6. f[0] = base /\ f[n] = g[1..n]
  <2>1. 0 \in 0..n /\ n \in 0..n  OBVIOUS
  <2>2. ASSUME NEW i \in 0..n, i = 0 PROVE f[i] = base
    <3>1. 1..i = {}  BY <2>2
    <3> QED  BY <1>5, <3>1 DEF Unfolds
  <2> QED  BY <1>5, <2>1, <2>2
<1>7. ASSUME NEW i \in 1..n PROVE f[i] = step[<<f[i - 1], i>>]
  <2>1. i \in 0..n /\ i - 1 \in 0..n  OBVIOUS
  <2>2. g[1..(i - 1)] \in S  BY <1>3, <2>1
  <2>3. f[i] = g[1..i] /\ f[i - 1] = g[1..(i - 1)]  BY <1>5, <2>1
  <2> QED  BY <1>2, <2>2, <2>3
<1> QED  BY <1>4, <1>6, <1>7 DEF RunOf

-----------------------------------------------------------------------------
(* Sums over finite sets. *)

FirstOf(s) == CHOOSE x \in s : TRUE

\* g is a sum over the subsets of S with the weights w.
Sums(g, S, w) ==
  /\ g[{}] = 0
  /\ \A s \in SUBSET S : s # {} => g[s] = w[FirstOf(s)] + g[s \ {FirstOf(s)}]

\* A sum of natural numbers over the subsets of a finite set.
IsSum(g, S, w) == IsFiniteSet(S) /\ w \in [S -> Nat] /\ g \in [SUBSET S -> Nat] /\ Sums(g, S, w)

\* The elements of u weigh the same, or nothing.
Alike(u, w, v) == \A x \in u : w[x] = v[x]

Weightless(u, w) == \A x \in u : w[x] = 0

\* Induction over the finite subsets of a set by the number of their elements.
LEMMA SubsetInduction ==
  ASSUME NEW S, IsFiniteSet(S), NEW Q, {} \in Q,
         \A s \in SUBSET S : s # {} /\ (\A x \in s : s \ {x} \in Q) => s \in Q
  PROVE  SUBSET S \subseteq Q
<1> DEFINE T == {k \in Nat : \A s \in SUBSET S : Cardinality(s) = k => s \in Q}
<1>1. ASSUME NEW s \in SUBSET S PROVE IsFiniteSet(s) /\ Cardinality(s) \in Nat
  BY FS_Subset, FS_CardinalityType
<1>2. 0 \in T
  <2>1. \A s \in SUBSET S : Cardinality(s) = 0 => s = {}  BY <1>1, FS_EmptySet
  <2> QED  BY <2>1
<1>3. ASSUME NEW k \in Nat, k \in T PROVE k + 1 \in T
  <2> SUFFICES ASSUME NEW s \in SUBSET S, Cardinality(s) = k + 1 PROVE s \in Q  OBVIOUS
  <2>1. s # {}
    <3>1. Cardinality({}) = 0 /\ k + 1 # 0  BY FS_EmptySet
    <3> QED  BY <3>1
  <2>2. ASSUME NEW x \in s PROVE s \ {x} \in Q
    <3>1. Cardinality(s \ {x}) = k + 1 - 1  BY <1>1, FS_RemoveElement
    <3> QED  BY <1>3, <3>1
  <2> QED  BY <2>1, <2>2
<1> HIDE DEF T
<1>4. Nat \subseteq T  BY <1>2, <1>3, NatSetInduction
<1> SUFFICES ASSUME NEW s \in SUBSET S PROVE s \in Q  OBVIOUS
<1> QED  BY <1>1, <1>4 DEF T

\* There is a function that sums.
LEMMA SumExists ==
  ASSUME NEW S, IsFiniteSet(S), NEW w \in [S -> Nat]
  PROVE  \E g \in [SUBSET S -> Nat] : Sums(g, S, w)
<1> DEFINE n == Cardinality(S)
           Up(k) == {s \in SUBSET S : Cardinality(s) <= k}
           Good(k, g) == /\ g[{}] = 0
                         /\ \A s \in Up(k) : s # {} => g[s] = w[FirstOf(s)] + g[s \ {FirstOf(s)}]
           T == {k \in 0..n : \E g \in [Up(k) -> Nat] : Good(k, g)}
<1>1. ASSUME NEW s \in SUBSET S
      PROVE  /\ Cardinality(s) \in Nat /\ Cardinality(s) <= n
             /\ s # {} => FirstOf(s) \in s /\ Cardinality(s \ {FirstOf(s)}) = Cardinality(s) - 1
             /\ Cardinality(s) = 0 <=> s = {}
  <2>1. IsFiniteSet(s) /\ Cardinality(s) \in Nat /\ Cardinality(s) <= n  BY FS_Subset, FS_CardinalityType
  <2>2. s # {} => FirstOf(s) \in s  BY DEF FirstOf
  <2> QED  BY <2>1, <2>2, FS_EmptySet, FS_RemoveElement
<1>2. n \in Nat /\ Cardinality({}) = 0  BY FS_CardinalityType, FS_EmptySet
<1> HIDE DEF n
<1>3. \A k \in Nat : {} \in Up(k)  BY <1>2
<1>4. 0 \in T
  <2> DEFINE g == [s \in Up(0) |-> 0]
  <2>1. g \in [Up(0) -> Nat] /\ 0 \in 0..n  BY <1>2
  <2>2. ASSUME NEW s \in Up(0) PROVE s = {}
    <3>1. s \in SUBSET S /\ Cardinality(s) <= 0 /\ Cardinality(s) \in Nat  BY <1>1
    <3>2. Cardinality(s) = 0  BY <3>1
    <3> QED  BY <1>1, <3>1, <3>2
  <2>3. Good(0, g)  BY <1>3, <2>2
  <2> HIDE DEF g, Good, Up
  <2> QED  BY <2>1, <2>3
<1>5. ASSUME NEW k \in 1..n, k - 1 \in T PROVE k \in T
  <2>1. PICK g \in [Up(k - 1) -> Nat] : Good(k - 1, g)  BY <1>5
  <2> DEFINE h == [s \in Up(k) |-> IF Cardinality(s) = k THEN w[FirstOf(s)] + g[s \ {FirstOf(s)}] ELSE g[s]]
  <2>0. k \in Nat /\ k >= 1  BY <1>2
  <2>2. ASSUME NEW s \in Up(k), Cardinality(s) # k PROVE s \in Up(k - 1)
    <3>1. Cardinality(s) \in Nat /\ Cardinality(s) <= k  BY <1>1
    <3>2. Cardinality(s) <= k - 1  BY <2>0, <2>2, <3>1
    <3> QED  BY <3>2
  <2>3. \A s \in Up(k) : s # {} => s \ {FirstOf(s)} \in Up(k - 1) /\ FirstOf(s) \in S  BY <1>1, <1>2
  <2>4. {} \in Up(k) /\ {} \in Up(k - 1) /\ Cardinality({}) # k  BY <1>2
  <2>5. \A s \in Up(k) : Cardinality(s) = k => s # {}  BY <1>2
  <2>6. ASSUME NEW s \in Up(k - 1) PROVE s \in Up(k) /\ Cardinality(s) # k
    <3>1. Cardinality(s) \in Nat /\ Cardinality(s) <= k - 1  BY <1>1
    <3>2. Cardinality(s) <= k /\ Cardinality(s) # k  BY <2>0, <3>1
    <3> QED  BY <3>2
  <2>7. h \in [Up(k) -> Nat]
    <3> SUFFICES ASSUME NEW s \in Up(k)
                 PROVE  (IF Cardinality(s) = k THEN w[FirstOf(s)] + g[s \ {FirstOf(s)}] ELSE g[s]) \in Nat
      OBVIOUS
    <3> HIDE DEF Up
    <3>1. CASE Cardinality(s) = k
      <4>1. w[FirstOf(s)] \in Nat /\ g[s \ {FirstOf(s)}] \in Nat  BY <2>3, <2>5, <3>1
      <4> QED  BY <3>1, <4>1
    <3>2. CASE Cardinality(s) # k  BY <2>2, <3>2
    <3> QED  BY <3>1, <3>2
  <2>8. \A s \in Up(k - 1) : h[s] = g[s]
    <3> HIDE DEF Up
    <3> QED  BY <2>6
  <2>9. \A s \in Up(k) : h[s] = IF Cardinality(s) = k THEN w[FirstOf(s)] + g[s \ {FirstOf(s)}] ELSE g[s]
    <3> HIDE DEF Up
    <3> QED  OBVIOUS
  <2> HIDE DEF h
  <2>10. Good(k, h)
    <3>1. h[{}] = 0
      <4> HIDE DEF Up
      <4> QED  BY <2>1, <2>4, <2>8
    <3>2. ASSUME NEW s \in Up(k), s # {} PROVE h[s] = w[FirstOf(s)] + h[s \ {FirstOf(s)}]
      <4> HIDE DEF Up
      <4>1. h[s \ {FirstOf(s)}] = g[s \ {FirstOf(s)}]  BY <2>3, <2>8, <3>2
      <4>2. CASE Cardinality(s) = k  BY <2>9, <4>1, <4>2
      <4>3. CASE Cardinality(s) # k
        <5>1. s \in Up(k - 1)  BY <2>2, <4>3
        <5>2. g[s] = w[FirstOf(s)] + g[s \ {FirstOf(s)}]  BY <2>1, <3>2, <5>1
        <5> QED  BY <2>8, <4>1, <5>1, <5>2
      <4> QED  BY <4>2, <4>3
    <3> QED  BY <3>1, <3>2
  <2>11. k \in 0..n  BY <1>2
  <2> HIDE DEF Good, Up
  <2> QED  BY <2>7, <2>10, <2>11
<1>6. n \in T
  <2> HIDE DEF T
  <2>1. 0..n \subseteq T  BY <1>2, <1>4, <1>5, UpTo
  <2> QED  BY <1>2, <2>1
<1>7. PICK g \in [Up(n) -> Nat] : Good(n, g)  BY <1>6
<1>8. Up(n) = SUBSET S  BY <1>1
<1> QED  BY <1>7, <1>8 DEF Sums

\* Two such functions agree where the weights do.
LEMMA SumAgrees ==
  ASSUME NEW S, NEW w, NEW T, NEW v, NEW g, NEW h, Sums(g, S, w), Sums(h, T, v),
         NEW u, u \subseteq S, u \subseteq T, IsFiniteSet(u), Alike(u, w, v)
  PROVE  g[u] = h[u]
<1> DEFINE Q == {s \in SUBSET u : g[s] = h[s]}
<1>1. {} \in Q  BY DEF Sums
<1>2. ASSUME NEW s \in SUBSET u, s # {}, \A x \in s : s \ {x} \in Q PROVE s \in Q
  <2>1. FirstOf(s) \in s  BY <1>2 DEF FirstOf
  <2>2. g[s] = w[FirstOf(s)] + g[s \ {FirstOf(s)}] /\ h[s] = v[FirstOf(s)] + h[s \ {FirstOf(s)}]  BY <1>2 DEF Sums
  <2>3. g[s \ {FirstOf(s)}] = h[s \ {FirstOf(s)}]  BY <1>2, <2>1
  <2>4. w[FirstOf(s)] = v[FirstOf(s)]  BY <2>1 DEF Alike
  <2> QED  BY <2>2, <2>3, <2>4
<1> HIDE DEF Q
<1>3. SUBSET u \subseteq Q  BY <1>1, <1>2, SubsetInduction
<1>4. u \in Q  BY <1>3
<1> QED  BY <1>4 DEF Q

\* As the library computes it.
FoldsTo(g, S, w) ==
  g = [s \in SUBSET S |-> IF s = {} THEN 0 ELSE w[FirstOf(s)] + g[s \ {FirstOf(s)}]]

\* Whatever the library finds by choosing one element after the other is the sum.
LEMMA FoldSums ==
  ASSUME NEW S, IsFiniteSet(S), NEW w \in [S -> Nat]
  PROVE  /\ \E g : FoldsTo(g, S, w)
         /\ \E g : IsSum(g, S, w) /\ \A h : FoldsTo(h, S, w) => h[S] = g[S]
<1>1. PICK g \in [SUBSET S -> Nat] : Sums(g, S, w)  BY SumExists
<1>2. FoldsTo(g, S, w)  BY <1>1 DEF FoldsTo, Sums
<1>3. ASSUME NEW h, FoldsTo(h, S, w) PROVE h[S] = g[S]
  <2>1. Sums(h, S, w)  BY <1>3 DEF FoldsTo, Sums
  <2>2. Alike(S, w, w)  BY DEF Alike
  <2> QED  BY <1>1, <2>1, <2>2, SumAgrees
<1>4. IsSum(g, S, w)  BY <1>1 DEF IsSum
<1> QED  BY <1>2, <1>3, <1>4

\* The order does not matter: any element may be taken first.
LEMMA SumTakes ==
  ASSUME NEW S, NEW w, NEW g, IsSum(g, S, w), NEW s \in SUBSET S, NEW x \in s
  PROVE  g[s] = w[x] + g[s \ {x}] /\ w[x] \in Nat /\ g[s \ {x}] \in Nat
<1> IsFiniteSet(S) /\ w \in [S -> Nat] /\ g \in [SUBSET S -> Nat] /\ Sums(g, S, w)  BY DEF IsSum
<1> DEFINE Q == {t \in SUBSET S : \A z \in t : g[t] = w[z] + g[t \ {z}]}
<1>1. {} \in Q  OBVIOUS
<1>2. ASSUME NEW t \in SUBSET S, t # {}, \A z \in t : t \ {z} \in Q PROVE t \in Q
  <2> SUFFICES ASSUME NEW z \in t PROVE g[t] = w[z] + g[t \ {z}]  OBVIOUS
  <2> DEFINE y == FirstOf(t)
  <2>1. y \in t  BY <1>2 DEF FirstOf
  <2>2. g[t] = w[y] + g[t \ {y}]  BY <1>2 DEF Sums
  <2> HIDE DEF y
  <2>3. CASE z # y
    <3>1. g[t \ {y}] = w[z] + g[(t \ {y}) \ {z}]  BY <1>2, <2>1, <2>3
    <3>2. g[t \ {z}] = w[y] + g[(t \ {z}) \ {y}]  BY <1>2, <2>1, <2>3
    <3>3. (t \ {y}) \ {z} = (t \ {z}) \ {y}  OBVIOUS
    <3>4. g[(t \ {z}) \ {y}] \in Nat /\ w[z] \in Nat /\ w[y] \in Nat  BY <2>1
    <3> DEFINE a == g[(t \ {z}) \ {y}]
    <3>5. g[t \ {y}] = w[z] + a /\ g[t \ {z}] = w[y] + a /\ a \in Nat  BY <3>1, <3>2, <3>3, <3>4
    <3> HIDE DEF Q, a
    <3> QED  BY <2>2, <3>4, <3>5
  <2> QED  BY <2>2, <2>3
<1> HIDE DEF Q
<1>3. SUBSET S \subseteq Q  BY <1>1, <1>2, SubsetInduction
<1>4. s \in Q  BY <1>3
<1> QED  BY <1>4 DEF Q

\* What weighs nothing adds nothing.
LEMMA SumZeros ==
  ASSUME NEW S, NEW w, NEW g, IsSum(g, S, w),
         NEW A \in SUBSET S, NEW Z \in SUBSET S, Weightless(Z, w)
  PROVE  g[A \cup Z] = g[A]
<1> IsFiniteSet(S) /\ g \in [SUBSET S -> Nat]  BY DEF IsSum
<1> DEFINE Q == {z \in SUBSET Z : g[A \cup z] = g[A]}
<1>1. {} \in Q
  <2>1. A \cup {} = A  OBVIOUS
  <2> QED  BY <2>1
<1>2. ASSUME NEW z \in SUBSET Z, z # {}, \A x \in z : z \ {x} \in Q PROVE z \in Q
  <2>1. PICK x \in z : TRUE  BY <1>2
  <2>2. g[A \cup (z \ {x})] = g[A]  BY <1>2
  <2>3. CASE x \in A
    <3>1. A \cup (z \ {x}) = A \cup z  BY <2>3
    <3> QED  BY <2>2, <3>1
  <2>4. CASE x \notin A
    <3>1. (A \cup z) \ {x} = A \cup (z \ {x})  BY <2>4
    <3>2. g[A \cup z] = w[x] + g[(A \cup z) \ {x}]
      <4>1. A \cup z \in SUBSET S /\ x \in A \cup z  OBVIOUS
      <4> QED  BY <4>1, SumTakes
    <3>3. w[x] = 0 /\ g[A] \in Nat  BY DEF Weightless
    <3>4. g[(A \cup z) \ {x}] = g[A]  BY <2>2, <3>1, Zenon
    <3>5. g[A \cup z] = 0 + g[A]  BY <3>2, <3>3, <3>4, Zenon
    <3> QED  BY <3>3, <3>5
  <2> QED  BY <2>3, <2>4
<1> HIDE DEF Q
<1>3. IsFiniteSet(Z)  BY FS_Subset
<1>4. SUBSET Z \subseteq Q  BY <1>1, <1>2, <1>3, SubsetInduction
<1>5. Z \in Q  BY <1>4
<1> QED  BY <1>5 DEF Q

\* A sum over more elements, which differs in one weight and in others that are nothing.
LEMMA SumGrows ==
  ASSUME NEW S, NEW T, S \subseteq T, NEW w, NEW v, NEW g, IsSum(g, S, w), NEW h, IsSum(h, T, v),
         NEW k \in T, Alike(S \ {k}, w, v), Weightless((T \ S) \ {k}, v)
  PROVE  h[T] = g[S] + v[k] - (IF k \in S THEN w[k] ELSE 0)
<1>1. /\ IsFiniteSet(S) /\ Sums(g, S, w) /\ Sums(h, T, v)
      /\ g \in [SUBSET S -> Nat] /\ w \in [S -> Nat] /\ v \in [T -> Nat] /\ h \in [SUBSET T -> Nat]
  BY DEF IsSum
<1>2. h[T] = v[k] + h[T \ {k}]  BY SumTakes
<1>3. h[T \ {k}] = h[S \ {k}]
  <2> DEFINE A == S \ {k}
             Z == (T \ S) \ {k}
  <2>1. A \in SUBSET T /\ Z \in SUBSET T /\ A \cup Z = T \ {k} /\ Weightless(Z, v)  OBVIOUS
  <2> HIDE DEF A, Z
  <2>2. h[A \cup Z] = h[A]  BY <2>1, SumZeros
  <2> QED  BY <2>1, <2>2 DEF A
<1>4. g[S \ {k}] = h[S \ {k}]
  <2>1. IsFiniteSet(S \ {k})  BY <1>1, FS_Subset
  <2>2. S \ {k} \subseteq S /\ S \ {k} \subseteq T  OBVIOUS
  <2> QED  BY <1>1, <2>1, <2>2, SumAgrees
<1>5. k \in S => g[S] = w[k] + g[S \ {k}]  BY <1>1, SumTakes
<1>6. k \notin S => S \ {k} = S  OBVIOUS
<1>7. g[S \ {k}] \in Nat /\ g[S] \in Nat /\ v[k] \in Nat /\ (k \in S => w[k] \in Nat)
  <2>1. S \ {k} \in SUBSET S /\ S \in SUBSET S  OBVIOUS
  <2> QED  BY <1>1, <2>1
<1>8. h[T] = v[k] + g[S \ {k}]  BY <1>2, <1>3, <1>4
<1>9. CASE k \in S  BY <1>5, <1>7, <1>8, <1>9
<1>10. CASE k \notin S
  <2>1. g[S \ {k}] = g[S]  BY <1>6, <1>10, Zenon
  <2> QED  BY <1>7, <1>8, <1>10, <2>1
<1> QED  BY <1>9, <1>10

=============================================================================
