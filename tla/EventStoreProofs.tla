-------------------------- MODULE EventStoreProofs --------------------------
(***************************************************************************)
(* Proofs about EventStore: its limits, no ghost beside what it is the     *)
(* ghost of, a closing between two openings, no closing of what lives, and *)
(* ages that go on while their entities are remembered, for any entities,  *)
(* limits and lifetimes.                                                   *)
(*                                                                         *)
(* The invariant says more than the runs check of the queue: what it tells *)
(* as opened and not as closed since is among what the next scan compares  *)
(* with, so that a scan announces nothing twice.  That needs a domain not  *)
(* above its limit, where a merge of incomplete scans leaves nothing out.  *)
(***************************************************************************)
EXTENDS EventStore, SequenceFacts


-----------------------------------------------------------------------------
(* Sequences with elements left out. *)

\* h finds the elements of c among the first n of s: they are those in T, in their order.
Finds(h, c, s, T, n) ==
  /\ \A i \in 1..Len(c) : h[i] \in 1..n /\ c[i] = s[h[i]] /\ s[h[i]] \in T
  /\ \A i, j \in 1..Len(c) : i < j => h[i] < h[j]
  /\ \A k \in 1..n : s[k] \in T => \E i \in 1..Len(c) : h[i] = k

Picked(c, s, T, n) == Len(c) <= n /\ \E h \in [1..Len(c) -> Nat] : Finds(h, c, s, T, n)

\* One element more, kept or left out.
LEMMA PickedNext ==
  ASSUME NEW B, NEW s \in Seq(B), NEW T, NEW n \in 1..Len(s), NEW c \in Seq(B), Picked(c, s, T, n - 1),
         NEW d, d = IF s[n] \in T THEN Append(c, s[n]) ELSE c
  PROVE  d \in Seq(B) /\ Picked(d, s, T, n)
<1>1. s[n] \in B /\ Len(c) \in Nat /\ n \in Nat /\ n >= 1 /\ Len(c) <= n - 1  BY DEF Picked
<1>2. PICK h \in [1..Len(c) -> Nat] : Finds(h, c, s, T, n - 1)  BY DEF Picked
<1>3. /\ \A i \in 1..Len(c) : h[i] \in 1..(n - 1) /\ c[i] = s[h[i]] /\ s[h[i]] \in T
      /\ \A i, j \in 1..Len(c) : i < j => h[i] < h[j]
      /\ \A k \in 1..(n - 1) : s[k] \in T => \E i \in 1..Len(c) : h[i] = k
  BY <1>2 DEF Finds
<1>4. CASE s[n] \notin T
  <2>1. d = c  BY <1>4
  <2>2. \A i \in 1..Len(c) : h[i] \in 1..n  BY <1>1, <1>3
  <2>3. \A k \in 1..n : s[k] \in T => \E i \in 1..Len(c) : h[i] = k
    <3> SUFFICES ASSUME NEW k \in 1..n, s[k] \in T PROVE \E i \in 1..Len(c) : h[i] = k  OBVIOUS
    <3>1. k \in 1..(n - 1)  BY <1>1, <1>4
    <3> QED  BY <1>3, <3>1
  <2>4. Finds(h, c, s, T, n)  BY <1>3, <2>2, <2>3 DEF Finds
  <2>5. Len(c) <= n  BY <1>1
  <2> QED  BY <1>2, <2>1, <2>4, <2>5 DEF Picked
<1>5. CASE s[n] \in T
  <2> DEFINE m == Len(c) + 1
             g == [i \in 1..m |-> IF i = m THEN n ELSE h[i]]
  <2>1. d = Append(c, s[n])  BY <1>5
  <2>2. d \in Seq(B) /\ Len(d) = m /\ d[m] = s[n] /\ \A i \in 1..Len(c) : d[i] = c[i]
    BY <1>1, <2>1, AppendOf, AppendProperties
  <2>3. g \in [1..m -> Nat]  BY <1>1, <1>2
  <2>4. g[m] = n /\ \A i \in 1..Len(c) : g[i] = h[i]  BY <1>1
  <2>5. \A i \in 1..m : i = m \/ i \in 1..Len(c)  BY <1>1
  <2> HIDE DEF g
  <2>6. \A i \in 1..m : g[i] \in 1..n /\ d[i] = s[g[i]] /\ s[g[i]] \in T
    <3> SUFFICES ASSUME NEW i \in 1..m PROVE g[i] \in 1..n /\ d[i] = s[g[i]] /\ s[g[i]] \in T  OBVIOUS
    <3>1. CASE i = m  BY <1>1, <1>5, <2>2, <2>4, <3>1
    <3>2. CASE i \in 1..Len(c)
      <4>1. h[i] \in 1..(n - 1) /\ c[i] = s[h[i]] /\ s[h[i]] \in T  BY <1>3, <3>2
      <4> QED  BY <1>1, <2>2, <2>4, <3>2, <4>1
    <3> QED  BY <2>5, <3>1, <3>2
  <2>7. \A i, j \in 1..m : i < j => g[i] < g[j]
    <3> SUFFICES ASSUME NEW i \in 1..m, NEW j \in 1..m, i < j PROVE g[i] < g[j]  OBVIOUS
    <3>1. i \in 1..Len(c) /\ g[i] = h[i] /\ h[i] \in 1..(n - 1)  BY <1>1, <1>3, <2>4
    <3>2. CASE j = m  BY <1>1, <2>4, <3>1, <3>2
    <3>3. CASE j \in 1..Len(c)  BY <1>3, <2>4, <3>1, <3>3
    <3> QED  BY <2>5, <3>2, <3>3
  <2>8. \A k \in 1..n : s[k] \in T => \E i \in 1..m : g[i] = k
    <3> SUFFICES ASSUME NEW k \in 1..n, s[k] \in T PROVE \E i \in 1..m : g[i] = k  OBVIOUS
    <3>1. CASE k = n
      <4>1. m \in 1..m  BY <1>1
      <4> QED  BY <2>4, <3>1, <4>1
    <3>2. CASE k # n
      <4>1. k \in 1..(n - 1)  BY <1>1, <3>2
      <4>2. PICK i \in 1..Len(c) : h[i] = k  BY <1>3, <4>1
      <4>3. i \in 1..m  BY <1>1
      <4> QED  BY <2>4, <4>2, <4>3
    <3> QED  BY <3>1, <3>2
  <2>9. Finds(g, d, s, T, n)
    <3> HIDE DEF m
    <3> QED  BY <2>2, <2>6, <2>7, <2>8 DEF Finds
  <2>10. Len(d) <= n  BY <1>1, <2>2
  <2> QED  BY <2>2, <2>3, <2>9, <2>10 DEF Picked
<1> QED  BY <1>4, <1>5

ChosenBy(f, s, T, c) ==
  /\ f[0] = <<>> /\ f[Len(s)] = c
  /\ \A i \in 1..Len(s) : f[i] = IF s[i] \in T THEN Append(f[i - 1], s[i]) ELSE f[i - 1]

\* Elements are kept or left out one after the other.
LEMMA ChosenRun ==
  ASSUME NEW B, NEW s \in Seq(B), NEW T
  PROVE  \E f \in [0..Len(s) -> Seq(B)] : ChosenBy(f, s, T, Chosen(s, T))
<1> DEFINE n == Len(s)
           S == Seq(B)
           Next1(kept, x) == IF x \in T THEN Append(kept, x) ELSE kept
           step == [u \in S \X (1..n) |-> Next1(u[1], s[u[2]])]
           Fold(g) == g = [t \in SUBSET (DOMAIN s) |->
                             IF t = {} THEN <<>> ELSE Next1(g[t \ {Max(t)}], s[Max(t)])]
           iter == CHOOSE g : Fold(g)
<1>1. n \in Nat /\ DOMAIN s = 1..n /\ \A i \in 1..n : s[i] \in B  OBVIOUS
<1>13. <<>> \in S  OBVIOUS
<1>2. step \in [S \X (1..n) -> S]
  <2> SUFFICES ASSUME NEW u \in S \X (1..n) PROVE Next1(u[1], s[u[2]]) \in S  OBVIOUS
  <2>1. u[1] \in Seq(B) /\ s[u[2]] \in B
    <3> HIDE DEF n
    <3> QED  BY <1>1
  <2> QED  BY <2>1, AppendProperties
<1> HIDE DEF Next1
<1>3. PICK g \in [SUBSET (1..n) -> S] : Folding(g, n, <<>>, step)
  <2> HIDE DEF n, step, S
  <2> QED  BY <1>1, <1>2, <1>13, FoldExists
<1> HIDE DEF n
<1>4. ASSUME NEW k \in S, NEW i \in 1..n PROVE step[<<k, i>>] = Next1(k, s[i])  OBVIOUS
<1>5. \A t \in SUBSET (1..n) : t # {} => Max(t) \in 1..n  BY <1>1, MaxTyped
<1> HIDE DEF step, S
<1>6. Fold(g)
  <2>1. ASSUME NEW t \in SUBSET (1..n), t # {} PROVE g[t] = Next1(g[t \ {Max(t)}], s[Max(t)])
    BY <1>3, <1>4, <1>5, <2>1 DEF Folding
  <2> QED  BY <1>1, <1>3, <2>1 DEF Folding
<1>7. Fold(iter)  BY <1>6
<1>8. Chosen(s, T) = iter[1..n]  BY <1>1 DEF Chosen, FoldLeft, MapThenFoldSet, Next1
<1> HIDE DEF iter
<1>9. Unfolds(iter, n, S, <<>>, step)  BY <1>1, <1>4, <1>5, <1>7 DEF Unfolds
<1>10. PICK f \in [0..n -> S] : RunOf(f, n, <<>>, step, iter[1..n])  BY <1>1, <1>2, <1>9, <1>13, FoldRuns
<1>11. ASSUME NEW i \in 1..n PROVE f[i] = Next1(f[i - 1], s[i])
  <2>1. i - 1 \in 0..n  BY <1>1
  <2> QED  BY <1>4, <1>10, <2>1 DEF RunOf
<1> QED  BY <1>8, <1>10, <1>11 DEF n, S, RunOf, Next1, ChosenBy

\* What is chosen are the elements in T, in their order.
LEMMA ChosenIs ==
  ASSUME NEW B, NEW s \in Seq(B), NEW T
  PROVE  Chosen(s, T) \in Seq(B) /\ Picked(Chosen(s, T), s, T, Len(s))
<1> DEFINE n == Len(s)
<1>1. n \in Nat  OBVIOUS
<1>2. PICK f \in [0..n -> Seq(B)] :
           /\ f[0] = <<>> /\ f[n] = Chosen(s, T)
           /\ \A i \in 1..n : f[i] = IF s[i] \in T THEN Append(f[i - 1], s[i]) ELSE f[i - 1]
  <2>1. \E f \in [0..Len(s) -> Seq(B)] : ChosenBy(f, s, T, Chosen(s, T))  BY ChosenRun
  <2> QED  BY <2>1 DEF ChosenBy
<1> DEFINE R == {i \in 0..n : Picked(f[i], s, T, i)}
<1>3. \A i : i \in R <=> i \in 0..n /\ Picked(f[i], s, T, i)  OBVIOUS
<1> HIDE DEF R
<1>4. 0 \in R
  <2>1. Len(<<>>) = 0 /\ 1..0 = {}  OBVIOUS
  <2>2. Finds([i \in {} |-> 0], <<>>, s, T, 0)  BY <2>1 DEF Finds
  <2>3. [i \in {} |-> 0] \in [1..Len(<<>>) -> Nat]  BY <2>1
  <2>4. Picked(<<>>, s, T, 0)  BY <2>1, <2>2, <2>3 DEF Picked
  <2> QED  BY <1>1, <1>2, <1>3, <2>4
<1>5. ASSUME NEW i \in 1..n, i - 1 \in R PROVE i \in R
  <2>1. i - 1 \in 0..n /\ i \in 0..n /\ Picked(f[i - 1], s, T, i - 1)  BY <1>1, <1>3, <1>5
  <2>2. f[i] = IF s[i] \in T THEN Append(f[i - 1], s[i]) ELSE f[i - 1]  BY <1>2
  <2>3. f[i - 1] \in Seq(B)  BY <1>2, <2>1
  <2>4. Picked(f[i], s, T, i)  BY <2>1, <2>2, <2>3, PickedNext
  <2> QED  BY <1>3, <2>1, <2>4
<1>6. n \in R
  <2> HIDE DEF n
  <2>1. 0..n \subseteq R  BY <1>1, <1>4, <1>5, UpTo
  <2> QED  BY <1>1, <2>1
<1>7. n \in 0..n  BY <1>1
<1>8. f[n] \in Seq(B)  BY <1>2, <1>7
<1> QED  BY <1>2, <1>3, <1>6, <1>8

Once(s) == \A i, j \in DOMAIN s : s[i] = s[j] => i = j

\* Choosing keeps the elements that are in T, each as often as it was there.
LEMMA ChosenSet ==
  ASSUME NEW B, NEW s \in Seq(B), NEW T
  PROVE  /\ Chosen(s, T) \in Seq(B) /\ Len(Chosen(s, T)) <= Len(s)
         /\ ToSet(Chosen(s, T)) = ToSet(s) \cap T
         /\ Once(s) => Once(Chosen(s, T))
<1> DEFINE c == Chosen(s, T)
           n == Len(s)
<1>1. c \in Seq(B) /\ Picked(c, s, T, n)  BY ChosenIs
<1> HIDE DEF c
<1>2. /\ Len(c) \in Nat /\ n \in Nat /\ DOMAIN c = 1..Len(c) /\ DOMAIN s = 1..n  BY <1>1
<1>3. PICK h \in [1..Len(c) -> Nat] : Finds(h, c, s, T, n)  BY <1>1 DEF Picked
<1>4. Len(c) <= n  BY <1>1 DEF Picked
<1> HIDE DEF n
<1>5. ToSet(c) \subseteq ToSet(s) \cap T
  <2> SUFFICES ASSUME NEW i \in 1..Len(c) PROVE c[i] \in ToSet(s) \cap T  BY <1>2 DEF ToSet
  <2>1. h[i] \in 1..n /\ c[i] = s[h[i]] /\ s[h[i]] \in T  BY <1>3 DEF Finds
  <2> QED  BY <1>2, <2>1 DEF ToSet
<1>6. ToSet(s) \cap T \subseteq ToSet(c)
  <2> SUFFICES ASSUME NEW k \in 1..n, s[k] \in T PROVE s[k] \in ToSet(c)  BY <1>2 DEF ToSet
  <2>1. PICK i \in 1..Len(c) : h[i] = k  BY <1>3 DEF Finds
  <2>2. c[i] = s[k]  BY <1>3, <2>1 DEF Finds
  <2> QED  BY <1>2, <2>1, <2>2 DEF ToSet
<1>7. ASSUME Once(s) PROVE Once(c)
  <2> SUFFICES ASSUME NEW i \in 1..Len(c), NEW j \in 1..Len(c), c[i] = c[j], i < j PROVE FALSE
    BY <1>2 DEF Once
  <2>1. h[i] \in 1..n /\ h[j] \in 1..n /\ c[i] = s[h[i]] /\ c[j] = s[h[j]] /\ h[i] < h[j]  BY <1>3 DEF Finds
  <2>2. h[i] = h[j]  BY <1>2, <1>7, <2>1 DEF Once
  <2> QED  BY <2>1, <2>2
<1> QED  BY <1>1, <1>4, <1>5, <1>6, <1>7 DEF c, n

-----------------------------------------------------------------------------
(* Ends of sequences. *)

Ends(c, s) == \E m \in 0..Len(s) : Len(c) = Len(s) - m /\ \A i \in 1..Len(c) : c[i] = s[m + i]

\* What is left when the first elements are taken away.
LEMMA EndIs ==
  ASSUME NEW B, NEW s \in Seq(B), NEW m \in 1..(Len(s) + 1), NEW c, c = SubSeq(s, m, Len(s))
  PROVE  c \in Seq(B) /\ Ends(c, s) /\ Len(c) = Len(s) - (m - 1)
<1>1. Len(s) \in Nat /\ m - 1 \in 0..Len(s)  OBVIOUS
<1>2. c \in Seq(B) /\ Len(c) = Len(s) - m + 1 /\ \A i \in 1..(Len(s) - m + 1) : c[i] = s[m + i - 1]  OBVIOUS
<1>3. Len(s) - m + 1 = Len(s) - (m - 1) /\ \A i \in 1..(Len(s) - m + 1) : m + i - 1 = (m - 1) + i  BY <1>1
<1>4. Len(c) = Len(s) - (m - 1) /\ \A i \in 1..Len(c) : c[i] = s[(m - 1) + i]  BY <1>2, <1>3
<1>5. Ends(c, s)  BY <1>1, <1>4 DEF Ends
<1> QED  BY <1>2, <1>4, <1>5

\* An end of a sequence has no other elements.
LEMMA EndSet ==
  ASSUME NEW B, NEW s \in Seq(B), NEW c \in Seq(B), Ends(c, s)
  PROVE  ToSet(c) \subseteq ToSet(s) /\ (Once(s) => Once(c)) /\ Len(c) <= Len(s)
<1>1. PICK m \in 0..Len(s) : Len(c) = Len(s) - m /\ \A i \in 1..Len(c) : c[i] = s[m + i]  BY DEF Ends
<1>2. Len(s) \in Nat /\ Len(c) \in Nat /\ DOMAIN s = 1..Len(s) /\ DOMAIN c = 1..Len(c)  OBVIOUS
<1>3. \A i \in 1..Len(c) : m + i \in 1..Len(s)  BY <1>1, <1>2
<1>4. ToSet(c) \subseteq ToSet(s)  BY <1>1, <1>2, <1>3 DEF ToSet
<1>5. ASSUME Once(s) PROVE Once(c)
  <2> SUFFICES ASSUME NEW i \in 1..Len(c), NEW j \in 1..Len(c), c[i] = c[j] PROVE i = j  BY <1>2 DEF Once
  <2>1. m + i = m + j  BY <1>1, <1>2, <1>3, <1>5 DEF Once
  <2> QED  BY <1>1, <1>2, <2>1
<1>6. Len(c) <= Len(s)  BY <1>1, <1>2
<1> QED  BY <1>4, <1>5, <1>6

\* The last n elements: all of a sequence that has no more.
LEMMA LastNIs ==
  ASSUME NEW B, NEW s \in Seq(B), NEW n \in Nat \ {0}
  PROVE  /\ LastN(s, n) \in Seq(B) /\ Ends(LastN(s, n), s) /\ Len(LastN(s, n)) <= n
         /\ Len(s) <= n => LastN(s, n) = s
<1> DEFINE m == IF Len(s) > n THEN Len(s) - n + 1 ELSE 1
<1>1. Len(s) \in Nat /\ m \in 1..(Len(s) + 1)  OBVIOUS
<1>2. LastN(s, n) = SubSeq(s, m, Len(s))  BY DEF LastN
<1>3. m = Len(s) - n + 1 \/ (m = 1 /\ Len(s) <= n)  BY <1>1
<1>4. Len(s) <= n => m = 1  BY <1>1
<1> HIDE DEF m
<1>5. LastN(s, n) \in Seq(B) /\ Ends(LastN(s, n), s) /\ Len(LastN(s, n)) = Len(s) - (m - 1)
  BY <1>1, <1>2, EndIs
<1>6. Len(LastN(s, n)) <= n  BY <1>1, <1>3, <1>5
<1>7. Len(s) <= n => LastN(s, n) = s
  <2>1. SubSeq(s, 1, Len(s)) = s  OBVIOUS
  <2> QED  BY <1>2, <1>4, <2>1
<1> QED  BY <1>5, <1>6, <1>7

\* The unexpired events are an end of the queue.
LEMMA UnexpiredIs ==
  ASSUME NEW B, NEW s \in Seq(B)
  PROVE  Unexpired(s) \in Seq(B) /\ Ends(Unexpired(s), s)
<1> DEFINE live == {i \in DOMAIN s : s[i].at + Ttl > now}
<1>1. Len(s) \in Nat /\ live \in SUBSET Nat /\ live \subseteq 1..Len(s)  OBVIOUS
<1>2. CASE live = {}
  <2>1. Unexpired(s) = <<>>  BY <1>2 DEF Unexpired
  <2>2. <<>> \in Seq(B) /\ Len(<<>>) = 0  OBVIOUS
  <2>3. Len(s) \in 0..Len(s) /\ Len(s) - Len(s) = 0  BY <1>1
  <2> QED  BY <2>1, <2>2, <2>3 DEF Ends
<1>3. CASE live # {}
  <2>1. Unexpired(s) = SubSeq(s, Min(live), Len(s))  BY <1>3 DEF Unexpired
  <2> HIDE DEF live
  <2>2. \E x \in live : \A y \in live : x <= y  BY <1>1, <1>3, SmallestOf
  <2> DEFINE m == Min(live)
  <2>3. m \in live  BY <2>2 DEF Min
  <2>4. Unexpired(s) = SubSeq(s, m, Len(s))  BY <2>1
  <2> HIDE DEF m
  <2>5. m \in 1..(Len(s) + 1)  BY <1>1, <2>3
  <2> QED  BY <2>4, <2>5, EndIs
<1> QED  BY <1>2, <1>3

-----------------------------------------------------------------------------
(* Sequences without repetition. *)

\* The elements of two sequences are those of the one and of the other.
LEMMA JoinSet ==
  ASSUME NEW B, NEW x \in Seq(B), NEW y \in Seq(B)
  PROVE  /\ x \o y \in Seq(B) /\ ToSet(x \o y) = ToSet(x) \cup ToSet(y)
         /\ Once(x) /\ Once(y) /\ ToSet(x) \cap ToSet(y) = {} => Once(x \o y)
<1> DEFINE z == x \o y
           m == Len(x)
           n == Len(y)
<1>1. z \in Seq(B)  OBVIOUS
<1>2. Joins(x, y, z)  BY ConcatOf
<1> HIDE DEF z
<1>3. /\ m \in Nat /\ n \in Nat /\ Len(z) = m + n
      /\ \A i \in 1..m : z[i] = x[i]
      /\ \A i \in 1..n : z[m + i] = y[i]
  BY <1>2 DEF Joins
<1>4. DOMAIN x = 1..m /\ DOMAIN y = 1..n /\ DOMAIN z = 1..(m + n)  BY <1>1, <1>3
<1> HIDE DEF m, n
<1>5. ASSUME NEW k \in 1..(m + n)
      PROVE  (k \in 1..m /\ z[k] = x[k]) \/ (k - m \in 1..n /\ k = m + (k - m) /\ z[k] = y[k - m])
  <2>1. CASE k <= m  BY <1>3, <2>1
  <2>2. CASE ~(k <= m)
    <3>1. k - m \in 1..n /\ k = m + (k - m)  BY <1>3, <2>2
    <3>2. z[m + (k - m)] = y[k - m]  BY <1>3, <3>1
    <3> QED  BY <3>1, <3>2
  <2> QED  BY <2>1, <2>2
<1>6. ToSet(z) = ToSet(x) \cup ToSet(y)
  <2>1. ASSUME NEW k \in 1..(m + n) PROVE z[k] \in ToSet(x) \cup ToSet(y)  BY <1>4, <1>5 DEF ToSet
  <2>2. ASSUME NEW i \in 1..m PROVE x[i] \in ToSet(z)
    <3>1. i \in 1..(m + n)  BY <1>3
    <3> QED  BY <1>3, <1>4, <3>1 DEF ToSet
  <2>3. ASSUME NEW i \in 1..n PROVE y[i] \in ToSet(z)
    <3>1. m + i \in 1..(m + n)  BY <1>3
    <3> QED  BY <1>3, <1>4, <3>1 DEF ToSet
  <2> QED  BY <1>4, <2>1, <2>2, <2>3 DEF ToSet
<1>7. ASSUME Once(x), Once(y), ToSet(x) \cap ToSet(y) = {} PROVE Once(z)
  <2> SUFFICES ASSUME NEW i \in 1..(m + n), NEW j \in 1..(m + n), z[i] = z[j] PROVE i = j  BY <1>4 DEF Once
  <2>1. CASE i \in 1..m /\ z[i] = x[i]
    <3>1. CASE j \in 1..m /\ z[j] = x[j]  BY <1>4, <1>7, <2>1, <3>1 DEF Once
    <3>2. CASE j - m \in 1..n /\ z[j] = y[j - m]  BY <1>4, <1>7, <2>1, <3>2 DEF ToSet
    <3> QED  BY <1>5, <3>1, <3>2
  <2>2. CASE i - m \in 1..n /\ i = m + (i - m) /\ z[i] = y[i - m]
    <3>1. CASE j \in 1..m /\ z[j] = x[j]  BY <1>4, <1>7, <2>2, <3>1 DEF ToSet
    <3>2. CASE j - m \in 1..n /\ j = m + (j - m) /\ z[j] = y[j - m]
      <4>1. i - m = j - m  BY <1>4, <1>7, <2>2, <3>2 DEF Once
      <4> QED  BY <2>2, <3>2, <4>1
    <3> QED  BY <1>5, <3>1, <3>2
  <2> QED  BY <1>5, <2>1, <2>2
<1> QED  BY <1>1, <1>6, <1>7 DEF z

\* A sequence without repetition is no longer than its elements are many.
LEMMA OnceLength ==
  ASSUME NEW B, NEW s \in Seq(B), Once(s), NEW S, IsFiniteSet(S), ToSet(s) \subseteq S
  PROVE  Len(s) <= Cardinality(S)
<1> SUFFICES ASSUME ~(Len(s) <= Cardinality(S)) PROVE FALSE  OBVIOUS
<1>1. Len(s) \in Nat /\ Cardinality(S) \in Nat /\ DOMAIN s = 1..Len(s)  BY FS_CardinalityType
<1>2. IsFiniteSet(1..Len(s)) /\ Cardinality(1..Len(s)) = Len(s)
  <2>1. /\ IsFiniteSet(1..Len(s))
        /\ Cardinality(1..Len(s)) = IF 1 > Len(s) THEN 0 ELSE Len(s) - 1 + 1
    BY <1>1, FS_Interval
  <2> QED  BY <1>1, <2>1
<1>3. s \in [1..Len(s) -> S]  BY <1>1 DEF ToSet
<1>4. \E x, y \in 1..Len(s) : x # y /\ s[x] = s[y]
  <2>1. Cardinality(S) < Cardinality(1..Len(s))  BY <1>1, <1>2
  <2> QED  BY <1>2, <1>3, <2>1, FS_PigeonHole
<1> QED  BY <1>1, <1>4 DEF Once

\* The rows of a scan are the entities seen, each once.
LEMMA RowsAre ==
  ASSUME NEW S, IsFiniteSet(S)
  PROVE  SetToSeq(S) \in Seq(S) /\ ToSet(SetToSeq(S)) = S /\ Once(SetToSeq(S))
<1> DEFINE n == Cardinality(S)
           s == SetToSeq(S)
<1>1. n \in Nat /\ \E f \in [1..n -> S] : IsInjective(f)
  <2>1. n \in Nat /\ ExistsBijection(1..n, S)  BY FS_CardinalityType
  <2> HIDE DEF n
  <2> QED  BY <2>1 DEF ExistsBijection, Bijection, Injection
<1>2. s \in [1..n -> S] /\ IsInjective(s)  BY <1>1 DEF SetToSeq
<1> HIDE DEF s
<1>3. s \in Seq(S) /\ DOMAIN s = 1..n /\ Len(s) = n
  <2> HIDE DEF n
  <2> QED  BY <1>1, <1>2
<1>4. Once(s)  BY <1>2 DEF Once, IsInjective
<1>5. ToSet(s) \subseteq S  BY <1>2, <1>3 DEF ToSet
<1>6. ToSet(s) = S
  <2> SUFFICES ASSUME NEW e \in S, e \notin ToSet(s) PROVE FALSE  BY <1>5
  <2>1. ToSet(s) \subseteq S \ {e}  BY <1>5
  <2>2. IsFiniteSet(S \ {e}) /\ Cardinality(S \ {e}) = n - 1  BY FS_RemoveElement
  <2>3. Len(s) <= Cardinality(S \ {e})  BY <1>3, <1>4, <2>1, <2>2, OnceLength
  <2> HIDE DEF n
  <2> QED  BY <1>1, <1>3, <2>2, <2>3
<1> QED  BY <1>3, <1>4, <1>6 DEF s

-----------------------------------------------------------------------------
(* What is kept of a scan and what is compared with. *)

\* A domain has finitely many entities.
LEMMA OfFinite == \A d : IsFiniteSet(Of(d)) /\ Of(d) \subseteq Entities
<1> SUFFICES ASSUME NEW d PROVE IsFiniteSet(Of(d)) /\ Of(d) \subseteq Entities  OBVIOUS
<1>1. Of(d) \subseteq Entities  BY DEF Of
<1> QED  BY <1>1, EntityAssumption, FS_Subset

\* No more entities are kept than the limit, and in a domain below it all.
LEMMA KeptIs ==
  ASSUME NEW d, NEW rows \in Seq(Of(d)), Once(rows)
  PROVE  /\ Kept(rows) \in Seq(Of(d)) /\ Once(Kept(rows)) /\ Len(Kept(rows)) <= EntityLimit
         /\ ToSet(Kept(rows)) \subseteq ToSet(rows)
         /\ Len(rows) <= EntityLimit => Kept(rows) = rows
<1> DEFINE n == IF Len(rows) > EntityLimit THEN EntityLimit ELSE Len(rows)
           k == SubSeq(rows, 1, n)
<1>1. Len(rows) \in Nat /\ n \in 0..Len(rows) /\ n <= EntityLimit /\ n \in Nat  BY LimitAssumption
<1>2. Len(rows) <= EntityLimit => n = Len(rows)  BY <1>1, LimitAssumption
<1>3. Kept(rows) = k  BY DEF Kept
<1> HIDE DEF n
<1>4. k \in Seq(Of(d)) /\ Len(k) = n /\ \A i \in 1..n : k[i] = rows[i]  BY <1>1
<1>5. n = Len(rows) => k = rows  OBVIOUS
<1> HIDE DEF k
<1>6. DOMAIN k = 1..n /\ DOMAIN rows = 1..Len(rows) /\ \A i \in 1..n : i \in 1..Len(rows)  BY <1>1, <1>4
<1>7. ToSet(k) \subseteq ToSet(rows)  BY <1>4, <1>6 DEF ToSet
<1>8. Once(k)  BY <1>4, <1>6 DEF Once
<1> QED  BY <1>1, <1>2, <1>3, <1>4, <1>5, <1>7, <1>8

\* What is compared with next: the rows kept, or what was compared with and the rows not in it,
\* all of them in a domain below the limit.
LEMMA ComparedIs ==
  ASSUME NEW d, NEW rows \in Seq(Of(d)), Once(rows), NEW complete \in BOOLEAN,
         previous[d] \in Seq(Of(d)), Once(previous[d]), NEW c, c = Compared(d, rows, complete)
  PROVE  /\ c \in Seq(Of(d)) /\ Once(c) /\ Len(c) <= EntityLimit
         /\ ToSet(c) \subseteq ToSet(previous[d]) \cup ToSet(Kept(rows))
         /\ d \notin observed \/ Complete(rows, complete) => c = Kept(rows)
         /\ Cardinality(Of(d)) <= EntityLimit /\ d \in observed /\ ~Complete(rows, complete)
              => ToSet(c) = ToSet(previous[d]) \cup ToSet(Kept(rows))
<1> DEFINE k == Kept(rows)
           old == previous[d]
           new == Minus(k, ToSet(old))
           all == old \o new
<1>1. k \in Seq(Of(d)) /\ Once(k) /\ Len(k) <= EntityLimit  BY KeptIs
<1>2. CASE d \notin observed \/ Complete(rows, complete)
  <2>1. c = k  BY <1>2 DEF Compared
  <2> QED  BY <1>1, <1>2, <2>1
<1>3. CASE ~(d \notin observed \/ Complete(rows, complete))
  <2>1. c = LastN(all, EntityLimit)  BY <1>3 DEF Compared
  <2> HIDE DEF k
  <2>2. new = Chosen(k, ToSet(k) \ ToSet(old))  BY DEF Minus
  <2>3. new \in Seq(Of(d)) /\ ToSet(new) = ToSet(k) \ ToSet(old) /\ Once(new)
    <3>1. new \in Seq(Of(d)) /\ ToSet(new) = ToSet(k) \cap (ToSet(k) \ ToSet(old)) /\ (Once(k) => Once(new))
      BY <1>1, <2>2, ChosenSet
    <3> QED  BY <1>1, <3>1
  <2> HIDE DEF new
  <2>4. all \in Seq(Of(d)) /\ ToSet(all) = ToSet(old) \cup ToSet(k) /\ Once(all)
    <3>1. ToSet(old) \cap ToSet(new) = {}  BY <2>3
    <3> QED  BY <2>3, <3>1, JoinSet
  <2> HIDE DEF all
  <2>5. /\ c \in Seq(Of(d)) /\ Ends(c, all) /\ Len(c) <= EntityLimit
        /\ Len(all) <= EntityLimit => c = all
    BY <2>1, <2>4, LastNIs, LimitAssumption
  <2>6. ToSet(c) \subseteq ToSet(all) /\ Once(c)  BY <2>4, <2>5, EndSet
  <2>7. ASSUME Cardinality(Of(d)) <= EntityLimit PROVE c = all
    <3>1. ToSet(all) \subseteq Of(d)  BY <2>4 DEF ToSet
    <3>2. Len(all) <= Cardinality(Of(d)) /\ IsFiniteSet(Of(d))  BY <2>4, <3>1, OnceLength, OfFinite
    <3>3. Len(all) \in Nat /\ Cardinality(Of(d)) \in Nat  BY <2>4, <3>2, FS_CardinalityType
    <3> QED  BY <2>5, <2>7, <3>2, <3>3, LimitAssumption
  <2> QED  BY <1>3, <2>4, <2>5, <2>6, <2>7 DEF k
<1> QED  BY <1>2, <1>3

-----------------------------------------------------------------------------
(* Events. *)

Small(e) == Cardinality(Of(e.domain)) <= EntityLimit

\* Between two openings of an entity is a closing: OpensOnce, of any queue.
Alternates(s) ==
  \A i, j \in DOMAIN s :
    Small(s[i].entity) /\ i < j /\ s[i].entity = s[j].entity /\ s[i].kind = "opened" /\ s[j].kind = "opened"
      => \E k \in i..j : s[k].entity = s[i].entity /\ s[k].kind = "closed"

\* The queue tells that an entity has opened, and not that it has closed since.
Opened(s, e) ==
  \E i \in DOMAIN s :
    /\ s[i].entity = e /\ s[i].kind = "opened"
    /\ \A k \in DOMAIN s : k > i /\ s[k].entity = e => s[k].kind # "closed"

\* What is so of a queue is so of its end.
LEMMA EndEvents ==
  ASSUME NEW B, NEW s \in Seq(B), NEW c \in Seq(B), Ends(c, s)
  PROVE  (Alternates(s) => Alternates(c)) /\ (\A e : Opened(c, e) => Opened(s, e))
<1>1. PICK m \in 0..Len(s) : Len(c) = Len(s) - m /\ \A i \in 1..Len(c) : c[i] = s[m + i]  BY DEF Ends
<1>2. Len(s) \in Nat /\ Len(c) \in Nat /\ DOMAIN s = 1..Len(s) /\ DOMAIN c = 1..Len(c)  OBVIOUS
<1>3. \A i \in 1..Len(c) : m + i \in 1..Len(s)  BY <1>1, <1>2
<1>4. \A i \in 1..Len(s) : i > m => i - m \in 1..Len(c) /\ i = m + (i - m)  BY <1>1, <1>2
<1>5. ASSUME Alternates(s) PROVE Alternates(c)
  <2> SUFFICES ASSUME NEW i \in 1..Len(c), NEW j \in 1..Len(c),
                      Small(c[i].entity), i < j, c[i].entity = c[j].entity, c[i].kind = "opened", c[j].kind = "opened"
               PROVE  \E k \in i..j : c[k].entity = c[i].entity /\ c[k].kind = "closed"
    BY <1>2 DEF Alternates
  <2>1. c[i] = s[m + i] /\ c[j] = s[m + j] /\ m + i \in 1..Len(s) /\ m + j \in 1..Len(s) /\ m + i < m + j
    BY <1>1, <1>2, <1>3
  <2>2. PICK k \in (m + i)..(m + j) : s[k].entity = s[m + i].entity /\ s[k].kind = "closed"
    BY <1>2, <1>5, <2>1 DEF Alternates
  <2>3. k - m \in i..j /\ k - m \in 1..Len(c) /\ k = m + (k - m)  BY <1>1, <1>2, <2>1
  <2>4. c[k - m] = s[k]  BY <1>1, <2>3
  <2> QED  BY <2>1, <2>2, <2>3, <2>4
<1>6. ASSUME NEW e, Opened(c, e) PROVE Opened(s, e)
  <2>1. PICK i \in 1..Len(c) : /\ c[i].entity = e /\ c[i].kind = "opened"
                               /\ \A k \in 1..Len(c) : k > i /\ c[k].entity = e => c[k].kind # "closed"
    BY <1>2, <1>6 DEF Opened
  <2>2. m + i \in 1..Len(s) /\ s[m + i] = c[i]  BY <1>1, <1>3
  <2>3. ASSUME NEW k \in 1..Len(s), k > m + i, s[k].entity = e PROVE s[k].kind # "closed"
    <3>1. k - m \in 1..Len(c) /\ k = m + (k - m) /\ k - m > i  BY <1>1, <1>2, <1>4, <2>3
    <3>2. c[k - m] = s[k]  BY <1>1, <3>1
    <3> QED  BY <2>1, <2>3, <3>1, <3>2
  <2> QED  BY <1>2, <2>1, <2>2, <2>3 DEF Opened
<1> QED  BY <1>5, <1>6

\* What is so of a queue is so when a domain is left out.
LEMMA WithoutEvents ==
  ASSUME NEW B, NEW s \in Seq(B), NEW es, NEW c, c = Without(s, es)
  PROVE  /\ Alternates(s) => Alternates(c)
         /\ \A e : Opened(c, e) => Opened(s, e) /\ e \notin es
<1> DEFINE T == {x \in ToSet(s) : x.entity \notin es}
           n == Len(s)
<1>1. c \in Seq(B) /\ Picked(c, s, T, n)  BY ChosenIs DEF Without
<1>2. Len(c) \in Nat /\ n \in Nat /\ DOMAIN c = 1..Len(c) /\ DOMAIN s = 1..n  BY <1>1
<1>3. \A i \in 1..n : s[i] \in T <=> s[i].entity \notin es  BY <1>2 DEF ToSet
<1> HIDE DEF T
<1>4. PICK h \in [1..Len(c) -> Nat] : Finds(h, c, s, T, n)  BY <1>1 DEF Picked
<1> HIDE DEF n
<1>5. /\ \A i \in 1..Len(c) : h[i] \in 1..n /\ c[i] = s[h[i]] /\ s[h[i]].entity \notin es
      /\ \A i, j \in 1..Len(c) : i < j => h[i] < h[j]
      /\ \A k \in 1..n : s[k].entity \notin es => \E i \in 1..Len(c) : h[i] = k
  BY <1>3, <1>4 DEF Finds
<1>6. ASSUME Alternates(s) PROVE Alternates(c)
  <2> SUFFICES ASSUME NEW i \in 1..Len(c), NEW j \in 1..Len(c),
                      Small(c[i].entity), i < j, c[i].entity = c[j].entity, c[i].kind = "opened", c[j].kind = "opened"
               PROVE  \E k \in i..j : c[k].entity = c[i].entity /\ c[k].kind = "closed"
    BY <1>2 DEF Alternates
  <2>1. /\ c[i] = s[h[i]] /\ c[j] = s[h[j]] /\ h[i] \in 1..n /\ h[j] \in 1..n /\ h[i] < h[j]
        /\ s[h[i]].entity \notin es
    BY <1>5
  <2>2. PICK k \in h[i]..h[j] : s[k].entity = s[h[i]].entity /\ s[k].kind = "closed"
    BY <1>2, <1>6, <2>1 DEF Alternates
  <2>3. k \in 1..n /\ s[k].entity \notin es  BY <1>2, <2>1, <2>2
  <2>4. PICK l \in 1..Len(c) : h[l] = k  BY <1>5, <2>3
  <2>5. c[l] = s[k]  BY <1>5, <2>4
  <2>6. ~(l < i) /\ ~(j < l)
    <3>1. l < i => h[l] < h[i]  BY <1>5
    <3>2. j < l => h[j] < h[l]  BY <1>5
    <3> QED  BY <2>1, <2>4, <3>1, <3>2
  <2>7. l \in i..j  BY <1>2, <2>6
  <2> QED  BY <2>1, <2>2, <2>5, <2>7
<1>7. ASSUME NEW e, Opened(c, e) PROVE Opened(s, e) /\ e \notin es
  <2>1. PICK i \in 1..Len(c) : /\ c[i].entity = e /\ c[i].kind = "opened"
                               /\ \A k \in 1..Len(c) : k > i /\ c[k].entity = e => c[k].kind # "closed"
    BY <1>2, <1>7 DEF Opened
  <2>2. h[i] \in 1..n /\ s[h[i]] = c[i] /\ e \notin es  BY <1>5, <2>1
  <2>3. ASSUME NEW k \in 1..n, k > h[i], s[k].entity = e PROVE s[k].kind # "closed"
    <3>1. PICK l \in 1..Len(c) : h[l] = k  BY <1>5, <2>2, <2>3
    <3>2. c[l] = s[k]  BY <1>5, <3>1
    <3>3. l > i
      <4>1. l < i => h[l] < h[i]  BY <1>5
      <4> QED  BY <2>2, <2>3, <3>1, <4>1
    <3> QED  BY <2>1, <2>3, <3>2, <3>3
  <2> QED  BY <1>2, <2>1, <2>2, <2>3 DEF Opened
<1> QED  BY <1>6, <1>7

\* What a scan adds: openings and changes u, each of one entity, and closings v.
Adds(q, u, v, n, l) ==
  /\ \A i, j \in 1..n : u[i].entity = u[j].entity => i = j
  /\ \A i \in 1..n : u[i].kind = "opened" /\ Small(u[i].entity) => ~Opened(q, u[i].entity)
  /\ \A i \in 1..n : u[i].kind # "closed"
  /\ \A i \in 1..l : v[i].kind = "closed"

\* The m elements of q, then the n elements of u, then the l elements of v.
Parts(q, u, v, s, m, n, l) ==
  /\ DOMAIN q = 1..m /\ DOMAIN s = 1..(m + n + l)
  /\ \A i \in 1..m : s[i] = q[i]
  /\ \A i \in 1..n : s[m + i] = u[i]
  /\ \A i \in 1..l : s[m + n + i] = v[i]

\* Nothing opens again before it has closed, and what has opened and not closed is in u or is
\* what had before and is not in v.
Continues(q, u, v, s, n, l) ==
  /\ Alternates(q) => Alternates(s)
  /\ \A e : Opened(s, e) =>
       /\ Opened(q, e) \/ \E i \in 1..n : u[i].entity = e /\ u[i].kind = "opened"
       /\ \A i \in 1..l : v[i].entity # e

\* A queue to which a scan adds, index by index.
LEMMA AddedEvents ==
  ASSUME NEW q, NEW u, NEW v, NEW s, NEW m \in Nat, NEW n \in Nat, NEW l \in Nat,
         Parts(q, u, v, s, m, n, l), Adds(q, u, v, n, l)
  PROVE  Continues(q, u, v, s, n, l)
<1>6. /\ \A i \in 1..m : s[i] = q[i]
      /\ \A i \in 1..n : s[m + i] = u[i]
      /\ \A i \in 1..l : s[m + n + i] = v[i]
  BY DEF Parts
<1>7. DOMAIN s = 1..(m + n + l) /\ DOMAIN q = 1..m  BY DEF Parts
<1>8. ASSUME NEW i \in 1..(m + n + l), s[i].kind = "opened"
      PROVE  i \in 1..m \/ (i - m \in 1..n /\ s[i] = u[i - m])
  <2>1. CASE i <= m  BY <2>1
  <2>2. CASE i > m /\ i <= m + n
    <3>1. i - m \in 1..n /\ i = m + (i - m)  BY <2>2
    <3>2. s[m + (i - m)] = u[i - m]  BY <1>6, <3>1
    <3> QED  BY <3>1, <3>2
  <2>3. CASE i > m + n
    <3>1. i - (m + n) \in 1..l /\ i = m + n + (i - (m + n))  BY <2>3
    <3>2. s[m + n + (i - (m + n))] = v[i - (m + n)]  BY <1>6, <3>1
    <3>3. v[i - (m + n)].kind = "closed"  BY <3>1 DEF Adds
    <3> QED  BY <1>8, <3>1, <3>2, <3>3
  <2> QED  BY <2>1, <2>2, <2>3
<1>9. ASSUME Alternates(q) PROVE Alternates(s)
  <2> SUFFICES ASSUME NEW i \in 1..(m + n + l), NEW j \in 1..(m + n + l),
                      Small(s[i].entity), i < j, s[i].entity = s[j].entity, s[i].kind = "opened", s[j].kind = "opened"
               PROVE  \E k \in i..j : s[k].entity = s[i].entity /\ s[k].kind = "closed"
    BY <1>7 DEF Alternates
  <2>1. CASE i \in 1..m /\ j \in 1..m
    <3>1. s[i] = q[i] /\ s[j] = q[j]  BY <1>6, <2>1
    <3>2. PICK k \in i..j : q[k].entity = q[i].entity /\ q[k].kind = "closed"
      BY <1>7, <1>9, <2>1, <3>1 DEF Alternates
    <3>3. k \in 1..m  BY <2>1
    <3> QED  BY <1>6, <3>1, <3>2, <3>3
  <2>2. CASE i \in 1..m /\ j - m \in 1..n /\ s[j] = u[j - m]
    <3>1. s[i] = q[i]  BY <1>6, <2>2
    <3>2. ~Opened(q, q[i].entity)  BY <2>2, <3>1 DEF Adds
    <3>3. PICK k \in 1..m : k > i /\ q[k].entity = q[i].entity /\ q[k].kind = "closed"
      BY <1>7, <2>2, <3>1, <3>2 DEF Opened
    <3>4. k \in i..j  BY <2>2, <3>3
    <3> QED  BY <1>6, <3>1, <3>3, <3>4
  <2>3. CASE i - m \in 1..n /\ s[i] = u[i - m] /\ j - m \in 1..n /\ s[j] = u[j - m]
    <3>1. i - m = j - m  BY <2>3 DEF Adds
    <3> QED  BY <3>1
  <2>4. CASE i - m \in 1..n /\ j \in 1..m  BY <2>4
  <2> QED  BY <1>8, <2>1, <2>2, <2>3, <2>4
<1>10. ASSUME NEW e, Opened(s, e)
       PROVE  /\ Opened(q, e) \/ \E i \in 1..n : u[i].entity = e /\ u[i].kind = "opened"
              /\ \A i \in 1..l : v[i].entity # e
  <2>1. PICK i \in 1..(m + n + l) : /\ s[i].entity = e /\ s[i].kind = "opened"
                                    /\ \A k \in 1..(m + n + l) : k > i /\ s[k].entity = e => s[k].kind # "closed"
    BY <1>7, <1>10 DEF Opened
  <2>2. i <= m + n  BY <1>8, <2>1
  <2>3. ASSUME NEW k \in 1..l PROVE v[k].entity # e
    <3>1. m + n + k \in 1..(m + n + l) /\ m + n + k > i  BY <2>2
    <3>2. s[m + n + k] = v[k] /\ v[k].kind = "closed"  BY <1>6 DEF Adds
    <3> QED  BY <2>1, <3>1, <3>2
  <2>4. CASE i \in 1..m
    <3>1. s[i] = q[i]  BY <1>6, <2>4
    <3>2. ASSUME NEW k \in 1..m, k > i, q[k].entity = e PROVE q[k].kind # "closed"
      <4>1. k \in 1..(m + n + l) /\ s[k] = q[k]  BY <1>6
      <4> QED  BY <2>1, <3>2, <4>1
    <3>3. Opened(q, e)  BY <1>7, <2>1, <2>4, <3>1, <3>2 DEF Opened
    <3> QED  BY <2>3, <3>3
  <2>5. CASE i - m \in 1..n /\ s[i] = u[i - m]  BY <2>1, <2>3, <2>5
  <2> QED  BY <1>8, <2>1, <2>4, <2>5
<1> QED  BY <1>9, <1>10 DEF Continues

\* The same of sequences one after the other.
LEMMA MoreEvents ==
  ASSUME NEW q \in Seq(Events), NEW u \in Seq(Events), NEW v \in Seq(Events), Adds(q, u, v, Len(u), Len(v))
  PROVE  Continues(q, u, v, q \o u \o v, Len(u), Len(v))
<1> DEFINE m == Len(q)
           n == Len(u)
           l == Len(v)
           w == q \o u
           s == w \o v
<1>1. w \in Seq(Events)  OBVIOUS
<1>2. Joins(q, u, w)  BY ConcatOf
<1> HIDE DEF w
<1>3. Joins(w, v, s) /\ s \in Seq(Events)  BY <1>1, ConcatOf
<1>4. /\ m \in Nat /\ n \in Nat /\ l \in Nat /\ Len(w) = m + n
      /\ \A i \in 1..m : w[i] = q[i]
      /\ \A i \in 1..n : w[m + i] = u[i]
  BY <1>2, <1>3 DEF Joins
<1> HIDE DEF s
<1>5. /\ Len(s) = m + n + l
      /\ \A i \in 1..(m + n) : s[i] = w[i]
      /\ \A i \in 1..l : s[m + n + i] = v[i]
  BY <1>3, <1>4 DEF Joins
<1>7. DOMAIN s = 1..(m + n + l) /\ DOMAIN q = 1..m  BY <1>3, <1>4, <1>5
<1> HIDE DEF m, n, l
<1>6. /\ \A i \in 1..m : s[i] = q[i]
      /\ \A i \in 1..n : s[m + i] = u[i]
  <2>1. \A i \in 1..m : i \in 1..(m + n)  BY <1>4
  <2>2. \A i \in 1..n : m + i \in 1..(m + n)  BY <1>4
  <2> QED  BY <1>4, <1>5, <2>1, <2>2
<1>8. Parts(q, u, v, s, m, n, l)  BY <1>5, <1>6, <1>7 DEF Parts
<1>9. Adds(q, u, v, n, l)  BY DEF n, l
<1>10. Continues(q, u, v, s, n, l)  BY <1>4, <1>8, <1>9, AddedEvents
<1> QED  BY <1>10 DEF s, w, n, l

-----------------------------------------------------------------------------
(* The invariant. *)

\* Each entity has one first sighting.
SightedOnce(s) == Once(s) /\ \A x, y \in ToSet(s) : x.entity = y.entity => x = y

\* Whatever is remembered after an entity was seen after it.
SinceOK(s, since) == \A i, j \in DOMAIN s : i < j => s[j].entity \in since[s[i].entity]

\* No entity has its ghost beside it.
NoGhostOf(gs, prev) == \A g \in ToSet(gs) : g.entity \notin ToSet(prev[g.entity.domain])

\* What has opened and not closed, in a domain below the limit, is compared with next.
Stands(q, obs, prev) ==
  \A e \in Entities : Small(e) /\ Opened(q, e) => e.domain \in obs /\ e \in ToSet(prev[e.domain])

PreviousOK == previous \in [Domains -> Seq(Entities)] /\ \A d \in Domains : Once(previous[d])

IInv ==
  /\ TypeOK /\ PreviousOK
  /\ NoGhostOf(ghosts, previous)
  /\ SightedOnce(firstSeen) /\ SinceOK(firstSeen, sightedSince)
  /\ Alternates(queue)
  /\ Stands(queue, observed, previous)

-----------------------------------------------------------------------------
(* What differs. *)

DiffOK(D, d, rows, complete) ==
  /\ D.current \in Seq(Events) /\ D.closed \in Seq(Events) /\ D.gone \in Seq(Of(d))
  /\ Adds(queue, D.current, D.closed, Len(D.current), Len(D.closed))
  /\ \A i \in 1..Len(D.current) :
       D.current[i].entity \in ToSet(Kept(rows)) /\ d \in observed /\ D.current[i].kind # "closed"
  /\ \A i \in 1..Len(D.closed) : D.closed[i].entity \in ToSet(D.gone)
  /\ \A e \in ToSet(D.gone) : \E i \in 1..Len(D.closed) : D.closed[i].entity = e
  /\ IF d \in observed /\ Complete(rows, complete)
     THEN ToSet(D.gone) = ToSet(previous[d]) \ ToSet(Kept(rows)) ELSE ToSet(D.gone) = {}

\* The events of a scan: an entity that opens was not compared with, one that closes was, and is
\* not among the rows of a complete scan.
LEMMA DiffIs ==
  ASSUME IInv, NEW d \in Domains, NEW rows \in Seq(Of(d)), Once(rows), NEW changed, NEW complete \in BOOLEAN
  PROVE  DiffOK(Diff(d, rows, changed, complete), d, rows, complete)
<1> DEFINE k == Kept(rows)
           old == ToSet(previous[d])
           Kind(e) == IF e \notin old THEN "opened" ELSE "changed"
           Told(e) == d \in observed /\ (e \notin old \/ e \in changed)
           c == Chosen(k, {e \in ToSet(k) : Told(e)})
           g == IF d \in observed /\ Complete(rows, complete) THEN Minus(previous[d], ToSet(k)) ELSE <<>>
           u == [i \in DOMAIN c |-> [entity |-> c[i], kind |-> Kind(c[i]), at |-> now]]
           v == [i \in DOMAIN g |-> [entity |-> g[i], kind |-> "closed", at |-> now]]
           D == Diff(d, rows, changed, complete)
<1>1. D = [current |-> u, closed |-> v, gone |-> g]
  <2> HIDE DEF k
  <2> QED  BY DEF Diff, k
<1> HIDE DEF D
<1>2. D.current = u /\ D.closed = v /\ D.gone = g
  <2> HIDE DEF u, v, g
  <2> QED  BY <1>1
<1>3. /\ now \in 0..MaxTime /\ previous[d] \in Seq(Of(d)) /\ Once(previous[d]) /\ Of(d) \subseteq Entities
      /\ Stands(queue, observed, previous)
  BY OfFinite DEF IInv, TypeOK, PreviousOK
<1>4. k \in Seq(Of(d)) /\ Once(k)  BY KeptIs
<1> HIDE DEF k
<1>5. /\ c \in Seq(Of(d)) /\ Once(c) /\ ToSet(c) = {e \in ToSet(k) : Told(e)}
  <2> DEFINE T == {e \in ToSet(k) : Told(e)}
  <2>1. T \subseteq ToSet(k)  OBVIOUS
  <2> HIDE DEF T
  <2>2. Chosen(k, T) \in Seq(Of(d)) /\ ToSet(Chosen(k, T)) = ToSet(k) \cap T /\ Once(Chosen(k, T))
    BY <1>4, ChosenSet
  <2> QED  BY <2>1, <2>2 DEF T
<1>6. /\ g \in Seq(Of(d))
      /\ IF d \in observed /\ Complete(rows, complete) THEN ToSet(g) = old \ ToSet(k) ELSE ToSet(g) = {}
  <2>1. CASE d \in observed /\ Complete(rows, complete)
    <3>1. g = Chosen(previous[d], ToSet(previous[d]) \ ToSet(k))  BY <2>1 DEF Minus
    <3> HIDE DEF g
    <3>2. g \in Seq(Of(d)) /\ ToSet(g) = ToSet(previous[d]) \cap (ToSet(previous[d]) \ ToSet(k))
      BY <1>3, <3>1, ChosenSet
    <3> QED  BY <2>1, <3>2
  <2>2. CASE ~(d \in observed /\ Complete(rows, complete))
    <3>1. g = <<>>  BY <2>2
    <3>2. <<>> \in Seq(Of(d)) /\ ToSet(<<>>) = {}  BY DEF ToSet
    <3> HIDE DEF g
    <3> QED  BY <2>2, <3>1, <3>2
  <2> QED  BY <2>1, <2>2
<1> HIDE DEF c, g
<1>7. /\ Len(c) \in Nat /\ DOMAIN c = 1..Len(c) /\ \A i \in 1..Len(c) : c[i] \in Of(d)
      /\ Len(g) \in Nat /\ DOMAIN g = 1..Len(g) /\ \A i \in 1..Len(g) : g[i] \in Of(d)
  BY <1>5, <1>6
<1>8. u \in Seq(Events) /\ Len(u) = Len(c)
  <2>1. \A i \in 1..Len(c) : [entity |-> c[i], kind |-> Kind(c[i]), at |-> now] \in Events  BY <1>3, <1>7 DEF Events
  <2> HIDE DEF Kind
  <2>2. u \in [1..Len(c) -> Events]  BY <1>7, <2>1
  <2> HIDE DEF u
  <2> QED  BY <1>7, <2>2
<1>9. v \in Seq(Events) /\ Len(v) = Len(g)
  <2>1. \A i \in 1..Len(g) : [entity |-> g[i], kind |-> "closed", at |-> now] \in Events  BY <1>3, <1>7 DEF Events
  <2>2. v \in [1..Len(g) -> Events]  BY <1>7, <2>1
  <2> HIDE DEF v
  <2> QED  BY <1>7, <2>2
<1>10. /\ \A i \in 1..Len(c) : u[i].entity = c[i] /\ u[i].kind = Kind(c[i])
       /\ \A i \in 1..Len(g) : v[i].entity = g[i] /\ v[i].kind = "closed"
  BY <1>7
<1> HIDE DEF u, v
<1>11. \A i \in 1..Len(c) : c[i] \in ToSet(k) /\ Told(c[i])  BY <1>5, <1>7 DEF ToSet
<1>12. \A i, j \in 1..Len(c) : u[i].entity = u[j].entity => i = j  BY <1>5, <1>7, <1>10 DEF Once
<1>13. ASSUME NEW i \in 1..Len(c), u[i].kind = "opened", Small(u[i].entity) PROVE ~Opened(queue, u[i].entity)
  <2>1. c[i] \notin old  BY <1>10, <1>13
  <2>2. c[i] \in Entities /\ c[i].domain = d  BY <1>7 DEF Of
  <2>3. Small(c[i]) /\ Opened(queue, c[i]) => c[i] \in ToSet(previous[c[i].domain])  BY <1>3, <2>2 DEF Stands
  <2> QED  BY <1>10, <1>13, <2>1, <2>2, <2>3
<1>14. \A i \in 1..Len(c) : u[i].kind # "closed"  BY <1>10
<1>15. Adds(queue, u, v, Len(u), Len(v))  BY <1>8, <1>9, <1>10, <1>12, <1>13, <1>14 DEF Adds
<1>16. \A i \in 1..Len(v) : v[i].entity \in ToSet(g)  BY <1>7, <1>9, <1>10 DEF ToSet
<1>17. \A e \in ToSet(g) : \E i \in 1..Len(v) : v[i].entity = e  BY <1>7, <1>9, <1>10 DEF ToSet
<1>18. \A i \in 1..Len(u) : u[i].entity \in ToSet(k) /\ d \in observed /\ u[i].kind # "closed"
  BY <1>8, <1>10, <1>11, <1>14
<1>19. DiffOK(D, d, rows, complete)
  BY <1>2, <1>6, <1>8, <1>9, <1>15, <1>16, <1>17, <1>18 DEF DiffOK, k
<1> QED  BY <1>19 DEF D

-----------------------------------------------------------------------------
(* What a scan leaves. *)

ScanAssumptions(d, rows, complete) ==
  IInv /\ d \in Domains /\ rows \in Seq(Of(d)) /\ Once(rows) /\ complete \in BOOLEAN

\* What is compared with next is of the right type, and the other domains are left alone.
LEMMA PreviousStays ==
  ASSUME NEW d, NEW rows, NEW changed, NEW complete, ScanAssumptions(d, rows, complete),
         Update(d, rows, changed, complete)
  PROVE  /\ PreviousOK'
         /\ \A b \in Domains : previous'[b] \in Seq(Of(b)) /\ Len(previous'[b]) <= EntityLimit
         /\ \A b \in Domains : b # d => previous'[b] = previous[b]
         /\ previous'[d] = Compared(d, rows, complete)
         /\ observed' = observed \cup {d}
<1>1. /\ previous \in [Domains -> Seq(Entities)] /\ \A b \in Domains : Once(previous[b])
      /\ \A b \in Domains : previous[b] \in Seq(Of(b)) /\ Len(previous[b]) <= EntityLimit
      /\ d \in Domains /\ rows \in Seq(Of(d)) /\ Once(rows) /\ complete \in BOOLEAN
  BY DEF ScanAssumptions, IInv, TypeOK, PreviousOK
<1> DEFINE c == Compared(d, rows, complete)
<1>2. previous' = [previous EXCEPT ![d] = c] /\ observed' = observed \cup {d}  BY DEF Update
<1>3. c \in Seq(Of(d)) /\ Once(c) /\ Len(c) <= EntityLimit  BY <1>1, ComparedIs
<1> HIDE DEF c
<1>4. Seq(Of(d)) \subseteq Seq(Entities)  BY OfFinite, SeqMonotonic
<1>5. previous' \in [Domains -> Seq(Entities)]  BY <1>1, <1>2, <1>3, <1>4
<1>6. previous'[d] = c /\ \A b \in Domains : b # d => previous'[b] = previous[b]  BY <1>1, <1>2
<1>7. \A b \in Domains : Once(previous'[b])  BY <1>1, <1>3, <1>6
<1>8. PreviousOK'  BY <1>5, <1>7 DEF PreviousOK, Once
<1> QED  BY <1>1, <1>2, <1>3, <1>6, <1>8 DEF c

\* The queue: nothing opens twice, and what has opened and not closed is compared with next.
LEMMA QueueStays ==
  ASSUME NEW d, NEW rows, NEW changed, NEW complete, ScanAssumptions(d, rows, complete),
         Update(d, rows, changed, complete)
  PROVE  /\ queue' \in Seq(Events) /\ Len(queue') <= QueueLimit
         /\ Alternates(queue') /\ Stands(queue', observed', previous')
         /\ ToSet(queue') \subseteq ToSet(queue) \cup ToSet(Diff(d, rows, changed, complete).current)
                                      \cup ToSet(Diff(d, rows, changed, complete).closed)
<1> DEFINE D == Diff(d, rows, changed, complete)
           u == D.current
           v == D.closed
           s == queue \o u \o v
           t == LastN(s, QueueLimit)
           z == Unexpired(t)
<1>1. /\ IInv /\ d \in Domains /\ rows \in Seq(Of(d)) /\ Once(rows) /\ complete \in BOOLEAN
      /\ queue \in Seq(Events) /\ Alternates(queue) /\ Stands(queue, observed, previous)
      /\ previous[d] \in Seq(Of(d)) /\ Once(previous[d])
  BY DEF ScanAssumptions, IInv, TypeOK, PreviousOK
<1>2. DiffOK(D, d, rows, complete)  BY <1>1, DiffIs
<1>3. queue' = z
  <2> HIDE DEF D
  <2> QED  BY DEF Update, D
<1> HIDE DEF D
<1>4. u \in Seq(Events) /\ v \in Seq(Events) /\ Adds(queue, u, v, Len(u), Len(v))  BY <1>2 DEF DiffOK
<1> HIDE DEF u, v
<1>5. Continues(queue, u, v, s, Len(u), Len(v))  BY <1>1, <1>4, MoreEvents
<1>6. s \in Seq(Events) /\ ToSet(s) = ToSet(queue) \cup ToSet(u) \cup ToSet(v)
  <2> DEFINE w == queue \o u
  <2>1. w \in Seq(Events) /\ ToSet(w) = ToSet(queue) \cup ToSet(u)  BY <1>1, <1>4, JoinSet
  <2> HIDE DEF w
  <2>2. w \o v \in Seq(Events) /\ ToSet(w \o v) = ToSet(w) \cup ToSet(v)  BY <1>4, <2>1, JoinSet
  <2> QED  BY <2>1, <2>2 DEF w
<1> HIDE DEF s
<1>7. t \in Seq(Events) /\ Ends(t, s) /\ Len(t) <= QueueLimit  BY <1>6, LastNIs, LimitAssumption
<1> HIDE DEF t
<1>8. z \in Seq(Events) /\ Ends(z, t)  BY <1>7, UnexpiredIs
<1> HIDE DEF z
<1>9. /\ ToSet(z) \subseteq ToSet(s) /\ Len(z) <= Len(t)
      /\ Alternates(s) => Alternates(z)
      /\ \A e : Opened(z, e) => Opened(s, e)
  <2>1. ToSet(z) \subseteq ToSet(t) /\ ToSet(t) \subseteq ToSet(s) /\ Len(z) <= Len(t)
    BY <1>6, <1>7, <1>8, EndSet
  <2>2. (Alternates(s) => Alternates(t)) /\ (\A e : Opened(t, e) => Opened(s, e))  BY <1>6, <1>7, EndEvents
  <2>3. (Alternates(t) => Alternates(z)) /\ (\A e : Opened(z, e) => Opened(t, e))  BY <1>7, <1>8, EndEvents
  <2> QED  BY <2>1, <2>2, <2>3
<1>10. Len(z) <= QueueLimit
  <2>1. Len(z) \in Nat /\ Len(t) \in Nat  BY <1>7, <1>8
  <2> QED  BY <1>7, <1>9, <2>1, LimitAssumption
<1>11. Alternates(z)  BY <1>1, <1>5, <1>9 DEF Continues
<1>12. Stands(z, observed', previous')
  <2> SUFFICES ASSUME NEW e \in Entities, Small(e), Opened(z, e)
               PROVE  e.domain \in observed' /\ e \in ToSet(previous'[e.domain])
    BY DEF Stands
  <2>1. /\ Opened(queue, e) \/ \E i \in 1..Len(u) : u[i].entity = e /\ u[i].kind = "opened"
        /\ \A i \in 1..Len(v) : v[i].entity # e
    BY <1>5, <1>9 DEF Continues
  <2>2. e.domain \in Domains  BY EntityAssumption
  <2>3. /\ \A b \in Domains : b # d => previous'[b] = previous[b]
        /\ previous'[d] = Compared(d, rows, complete)
        /\ observed' = observed \cup {d}
    BY PreviousStays
  <2>4. /\ \A i \in 1..Len(u) : u[i].entity \in ToSet(Kept(rows)) /\ d \in observed
        /\ \A x \in ToSet(D.gone) : \E i \in 1..Len(v) : v[i].entity = x
        /\ IF d \in observed /\ Complete(rows, complete)
           THEN ToSet(D.gone) = ToSet(previous[d]) \ ToSet(Kept(rows)) ELSE ToSet(D.gone) = {}
    BY <1>2 DEF DiffOK, u, v
  <2>5. ToSet(Kept(rows)) \subseteq Of(d)
    <3>1. Kept(rows) \in Seq(Of(d))  BY <1>1, KeptIs
    <3> HIDE DEF Kept
    <3> QED  BY <3>1 DEF ToSet
  <2>6. Opened(queue, e) => e.domain \in observed /\ e \in ToSet(previous[e.domain])  BY <1>1 DEF Stands
  <2>7. CASE e.domain # d
    <3>1. ~\E i \in 1..Len(u) : u[i].entity = e  BY <2>4, <2>5, <2>7 DEF Of
    <3> QED  BY <2>1, <2>2, <2>3, <2>6, <2>7, <3>1
  <2>8. CASE e.domain = d
    <3>1. e \notin ToSet(D.gone)  BY <2>1, <2>4
    <3>2. d \in observed /\ (e \in ToSet(previous[d]) \/ e \in ToSet(Kept(rows)))  BY <2>1, <2>4, <2>6, <2>8
    <3>3. Cardinality(Of(d)) <= EntityLimit  BY <2>8 DEF Small
    <3> DEFINE c == Compared(d, rows, complete)
    <3>4. /\ Complete(rows, complete) => c = Kept(rows)
          /\ ~Complete(rows, complete) => ToSet(c) = ToSet(previous[d]) \cup ToSet(Kept(rows))
      BY <1>1, <3>2, <3>3, ComparedIs
    <3> HIDE DEF c
    <3>5. e \in ToSet(c)
      <4>1. CASE Complete(rows, complete)  BY <2>4, <3>1, <3>2, <3>4, <4>1
      <4>2. CASE ~Complete(rows, complete)  BY <3>2, <3>4, <4>2
      <4> QED  BY <4>1, <4>2
    <3> QED  BY <2>3, <2>8, <3>5 DEF c
  <2> QED  BY <2>7, <2>8
<1> QED  BY <1>3, <1>6, <1>8, <1>9, <1>10, <1>11, <1>12 DEF u, v, D

\* The ghosts: none is of an entity that is compared with next.
LEMMA GhostsStay ==
  ASSUME NEW d, NEW rows, NEW changed, NEW complete, ScanAssumptions(d, rows, complete),
         Update(d, rows, changed, complete)
  PROVE  ghosts' \in Seq(Ghosts) /\ Len(ghosts') <= GhostLimit /\ NoGhostOf(ghosts', previous')
<1> DEFINE D == Diff(d, rows, changed, complete)
           g == D.gone
           k == Kept(rows)
           h == Haunting(rows)
           n == Stamped(g)
           a == h \o n
           l == Live(a)
           z == LastN(l, GhostLimit)
           c == Compared(d, rows, complete)
<1>1. /\ IInv /\ d \in Domains /\ rows \in Seq(Of(d)) /\ Once(rows) /\ complete \in BOOLEAN
      /\ ghosts \in Seq(Ghosts) /\ NoGhostOf(ghosts, previous) /\ now \in 0..MaxTime
      /\ previous[d] \in Seq(Of(d)) /\ Once(previous[d]) /\ Of(d) \subseteq Entities
  BY OfFinite DEF ScanAssumptions, IInv, TypeOK, PreviousOK
<1>2. DiffOK(D, d, rows, complete)  BY <1>1, DiffIs
<1>3. ghosts' = z
  <2> HIDE DEF D
  <2> QED  BY DEF Update, D
<1>4. /\ g \in Seq(Of(d))
      /\ IF d \in observed /\ Complete(rows, complete)
         THEN ToSet(g) = ToSet(previous[d]) \ ToSet(k) ELSE ToSet(g) = {}
  BY <1>2 DEF DiffOK
<1> HIDE DEF D, g
<1>5. h \in Seq(Ghosts) /\ ToSet(h) = {x \in ToSet(ghosts) : x.entity \notin ToSet(k)}
  <2> DEFINE T == {x \in ToSet(ghosts) : x.entity \notin ToSet(k)}
  <2>1. h = Chosen(ghosts, T) /\ T \subseteq ToSet(ghosts)
    <3> HIDE DEF k
    <3> QED  BY DEF Haunting, Without, k
  <2> HIDE DEF h, T
  <2>2. h \in Seq(Ghosts) /\ ToSet(h) = ToSet(ghosts) \cap T  BY <1>1, <2>1, ChosenSet
  <2> QED  BY <2>1, <2>2 DEF T
<1>6. n \in Seq(Ghosts) /\ \A x \in ToSet(n) : x.entity \in ToSet(g) /\ x.entity \in Of(d)
  <2>1. Len(g) \in Nat /\ DOMAIN g = 1..Len(g) /\ \A i \in 1..Len(g) : g[i] \in Of(d)  BY <1>4
  <2>2. n = [i \in 1..Len(g) |-> [entity |-> g[i], at |-> now]]  BY <2>1 DEF Stamped
  <2>3. \A i \in 1..Len(g) : [entity |-> g[i], at |-> now] \in Ghosts  BY <1>1, <2>1 DEF Ghosts
  <2> HIDE DEF n
  <2>4. n \in Seq(Ghosts) /\ DOMAIN n = 1..Len(g)  BY <2>1, <2>2, <2>3
  <2>5. \A i \in 1..Len(g) : n[i].entity = g[i]  BY <2>2
  <2> QED  BY <2>1, <2>4, <2>5 DEF ToSet
<1> HIDE DEF h, n
<1>7. a \in Seq(Ghosts) /\ ToSet(a) = ToSet(h) \cup ToSet(n)  BY <1>5, <1>6, JoinSet
<1> HIDE DEF a
<1>8. l \in Seq(Ghosts) /\ ToSet(l) \subseteq ToSet(a)
  <2> DEFINE T == {x \in ToSet(a) : x.at + Ttl > now}
  <2>1. l = Chosen(a, T)  BY DEF Live
  <2> HIDE DEF l, T
  <2>2. l \in Seq(Ghosts) /\ ToSet(l) = ToSet(a) \cap T  BY <1>7, <2>1, ChosenSet
  <2> QED  BY <2>2
<1> HIDE DEF l
<1>9. z \in Seq(Ghosts) /\ Len(z) <= GhostLimit /\ ToSet(z) \subseteq ToSet(l)
  <2>1. z \in Seq(Ghosts) /\ Ends(z, l) /\ Len(z) <= GhostLimit  BY <1>8, LastNIs, LimitAssumption
  <2> HIDE DEF z
  <2> QED  BY <1>8, <2>1, EndSet
<1> HIDE DEF z
<1>10. /\ \A b \in Domains : b # d => previous'[b] = previous[b]
       /\ previous'[d] = c
  BY PreviousStays
<1>11. /\ ToSet(c) \subseteq ToSet(previous[d]) \cup ToSet(k)
       /\ d \notin observed \/ Complete(rows, complete) => c = k
  <2> HIDE DEF c
  <2> QED  BY <1>1, ComparedIs DEF c, k
<1> HIDE DEF c, k
<1>12. NoGhostOf(z, previous')
  <2> SUFFICES ASSUME NEW x \in ToSet(z) PROVE x.entity \notin ToSet(previous'[x.entity.domain])  BY DEF NoGhostOf
  <2>1. x \in Ghosts
    <3> HIDE DEF Ghosts
    <3> QED  BY <1>9 DEF ToSet
  <2>2. x.entity \in Entities /\ x.entity.domain \in Domains  BY <2>1, EntityAssumption DEF Ghosts
  <2>3. CASE x \in ToSet(h)
    <3>1. x.entity \notin ToSet(k) /\ x.entity \notin ToSet(previous[x.entity.domain])
      BY <1>1, <1>5, <2>3 DEF NoGhostOf
    <3>2. CASE x.entity.domain = d  BY <1>10, <1>11, <3>1, <3>2
    <3>3. CASE x.entity.domain # d  BY <1>10, <2>2, <3>1, <3>3
    <3> QED  BY <3>2, <3>3
  <2>4. CASE x \in ToSet(n)
    <3>1. x.entity \in ToSet(g) /\ x.entity.domain = d  BY <1>6, <2>4 DEF Of
    <3>2. Complete(rows, complete) /\ x.entity \notin ToSet(k)  BY <1>4, <3>1
    <3> QED  BY <1>10, <1>11, <3>1, <3>2
  <2> QED  BY <1>7, <1>8, <1>9, <2>3, <2>4
<1> QED  BY <1>3, <1>9, <1>12

\* An entity that has been sighted was first sighted then.
LEMMA FirstSeenIs ==
  ASSUME firstSeen \in Seq(Ghosts), SightedOnce(firstSeen), now \in 0..MaxTime, NEW e
  PROVE  /\ FirstSeenAt(e) \in 0..MaxTime
         /\ \A x \in ToSet(firstSeen) : x.entity = e => FirstSeenAt(e) = x.at
<1> DEFINE I == {i \in 1..Len(firstSeen) : firstSeen[i].entity = e}
           m == Min(I)
           f == IF I # {} THEN m ELSE 0
<1>1. Len(firstSeen) \in Nat /\ I \in SUBSET Nat /\ DOMAIN firstSeen = 1..Len(firstSeen)  OBVIOUS
<1>2. FirstSeenAt(e) = IF f = 0 THEN now ELSE firstSeen[f].at  BY DEF FirstSeenAt, SelectInSeq
<1>3. CASE I = {}
  <2>1. FirstSeenAt(e) = now  BY <1>2, <1>3
  <2>2. \A x \in ToSet(firstSeen) : x.entity # e  BY <1>1, <1>3 DEF ToSet
  <2> QED  BY <2>1, <2>2
<1>4. CASE I # {}
  <2>1. \E x \in I : \A y \in I : x <= y
    <3> HIDE DEF I
    <3> QED  BY <1>1, <1>4, SmallestOf
  <2>2. m \in I
    <3> HIDE DEF I
    <3> QED  BY <2>1 DEF Min
  <2>3. f = m  BY <1>4
  <2> HIDE DEF m, f
  <2>4. m \in 1..Len(firstSeen) /\ firstSeen[m].entity = e /\ m # 0  BY <2>2
  <2>5. FirstSeenAt(e) = firstSeen[m].at  BY <1>2, <2>3, <2>4
  <2>6. firstSeen[m] \in Ghosts  BY <2>4
  <2>7. firstSeen[m] \in ToSet(firstSeen)  BY <1>1, <2>4 DEF ToSet
  <2> QED  BY <2>4, <2>5, <2>6, <2>7 DEF SightedOnce, Ghosts
<1> QED  BY <1>3, <1>4

\* What was seen after an entity of an end of the sightings was seen after it.
LEMMA EndSince ==
  ASSUME NEW s \in Seq(Ghosts), NEW c \in Seq(Ghosts), Ends(c, s), NEW since, SinceOK(s, since)
  PROVE  SinceOK(c, since)
<1>1. PICK m \in 0..Len(s) : Len(c) = Len(s) - m /\ \A i \in 1..Len(c) : c[i] = s[m + i]  BY DEF Ends
<1>2. Len(s) \in Nat /\ Len(c) \in Nat /\ DOMAIN s = 1..Len(s) /\ DOMAIN c = 1..Len(c)  OBVIOUS
<1> SUFFICES ASSUME NEW i \in 1..Len(c), NEW j \in 1..Len(c), i < j PROVE c[j].entity \in since[c[i].entity]
  BY <1>2 DEF SinceOK
<1>3. m + i \in 1..Len(s) /\ m + j \in 1..Len(s) /\ m + i < m + j  BY <1>1, <1>2
<1>4. s[m + j].entity \in since[s[m + i].entity]  BY <1>2, <1>3 DEF SinceOK
<1> QED  BY <1>1, <1>4

\* A sighting that is not among the last b was followed by those of b others.
LEMMA CrowdedOut ==
  ASSUME NEW s \in Seq(Ghosts), \A x, y \in ToSet(s) : x.entity = y.entity => x = y, Once(s),
         NEW b \in Nat \ {0}, NEW since, SinceOK(s, since),
         NEW x \in ToSet(s), IsFiniteSet(since[x.entity]), x \notin ToSet(LastN(s, b))
  PROVE  Cardinality(since[x.entity]) >= b
<1> DEFINE m == IF Len(s) > b THEN Len(s) - b + 1 ELSE 1
           c == SubSeq(s, m, Len(s))
<1>1. Len(s) \in Nat /\ DOMAIN s = 1..Len(s) /\ m \in 1..(Len(s) + 1) /\ (m = 1 \/ m = Len(s) - b + 1)  OBVIOUS
<1>2. c = LastN(s, b)  BY DEF LastN
<1> HIDE DEF m
<1>3. Len(c) = Len(s) - m + 1 /\ (\A i \in 1..Len(c) : c[i] = s[m + i - 1]) /\ DOMAIN c = 1..Len(c)  BY <1>1
<1> HIDE DEF c
<1>4. PICK p \in 1..Len(s) : s[p] = x  BY <1>1 DEF ToSet
<1>5. p < m
  <2> SUFFICES ASSUME ~(p < m) PROVE FALSE  OBVIOUS
  <2>1. p - m + 1 \in 1..Len(c) /\ m + (p - m + 1) - 1 = p  BY <1>1, <1>3
  <2>2. c[p - m + 1] = s[p]  BY <1>3, <2>1
  <2> QED  BY <1>2, <1>3, <1>4, <2>1, <2>2 DEF ToSet
<1>6. m = Len(s) - b + 1 /\ p + b <= Len(s)  BY <1>1, <1>5
<1> DEFINE t == [i \in 1..b |-> s[p + i].entity]
<1>7. \A i \in 1..b : p + i \in 1..Len(s) /\ p < p + i  BY <1>6
<1>8. \A i \in 1..b : t[i] \in since[x.entity]  BY <1>1, <1>4, <1>7 DEF SinceOK
<1>9. t \in Seq(since[x.entity]) /\ Len(t) = b /\ DOMAIN t = 1..b
  <2> DEFINE S == since[x.entity]
  <2>1. \A i \in 1..b : s[p + i].entity \in S  BY <1>8
  <2> HIDE DEF S
  <2>2. t \in Seq(S) /\ Len(t) = b /\ DOMAIN t = 1..b  BY <2>1
  <2> QED  BY <2>2 DEF S
<1>10. Once(t)
  <2> SUFFICES ASSUME NEW i \in 1..b, NEW j \in 1..b, s[p + i].entity = s[p + j].entity PROVE i = j
    BY <1>9 DEF Once
  <2>1. s[p + i] \in ToSet(s) /\ s[p + j] \in ToSet(s)  BY <1>1, <1>7 DEF ToSet
  <2>2. s[p + i] = s[p + j]  BY <2>1
  <2>3. p + i = p + j  BY <1>1, <1>7, <2>2 DEF Once
  <2> QED  BY <2>3
<1>11. ToSet(t) \subseteq since[x.entity]  BY <1>8, <1>9 DEF ToSet
<1> HIDE DEF t
<1>12. b <= Cardinality(since[x.entity])  BY <1>9, <1>10, <1>11, OnceLength
<1>13. Cardinality(since[x.entity]) \in Nat  BY FS_CardinalityType
<1> QED  BY <1>12, <1>13

\* First sightings: one for each entity; it stays with its time until too many others have been seen.
LEMMA SightingsStay ==
  ASSUME NEW d, NEW rows, NEW changed, NEW complete, ScanAssumptions(d, rows, complete),
         Update(d, rows, changed, complete)
  PROVE  /\ firstSeen' \in Seq(Ghosts) /\ Len(firstSeen') <= 2 * EntityLimit /\ SightedOnce(firstSeen')
         /\ sightedSince' \in [Entities -> SUBSET Entities] /\ SinceOK(firstSeen', sightedSince')
         /\ \A x \in ToSet(firstSeen) :
              x \in ToSet(firstSeen') \/ Cardinality(sightedSince'[x.entity]) >= 2 * EntityLimit
<1> DEFINE k == Kept(rows)
           w == Without(firstSeen, ToSet(k))
           n == [i \in DOMAIN k |-> [entity |-> k[i], at |-> FirstSeenAt(k[i])]]
           a == w \o n
           z == LastN(a, 2 * EntityLimit)
<1>1. /\ d \in Domains /\ rows \in Seq(Of(d)) /\ Once(rows) /\ firstSeen \in Seq(Ghosts) /\ SightedOnce(firstSeen)
      /\ now \in 0..MaxTime /\ Of(d) \subseteq Entities
  BY OfFinite DEF ScanAssumptions, IInv, TypeOK
<1>2. firstSeen' = z
  <2> HIDE DEF k
  <2> QED  BY DEF Update, Sighted, k
<1>3. k \in Seq(Of(d)) /\ Once(k)  BY <1>1, KeptIs
<1> HIDE DEF k
<1>4. w \in Seq(Ghosts) /\ ToSet(w) = {x \in ToSet(firstSeen) : x.entity \notin ToSet(k)} /\ Once(w)
  <2> DEFINE T == {x \in ToSet(firstSeen) : x.entity \notin ToSet(k)}
  <2>1. w = Chosen(firstSeen, T) /\ T \subseteq ToSet(firstSeen)  BY DEF Without
  <2> HIDE DEF w, T
  <2>2. w \in Seq(Ghosts) /\ ToSet(w) = ToSet(firstSeen) \cap T /\ (Once(firstSeen) => Once(w))
    BY <1>1, <2>1, ChosenSet
  <2> QED  BY <1>1, <2>1, <2>2 DEF T, SightedOnce
<1>5. Len(k) \in Nat /\ DOMAIN k = 1..Len(k) /\ \A i \in 1..Len(k) : k[i] \in Of(d) /\ k[i] \in ToSet(k)
  BY <1>3 DEF ToSet
<1>6. n = [i \in 1..Len(k) |-> [entity |-> k[i], at |-> FirstSeenAt(k[i])]]  BY <1>5
<1> HIDE DEF n
<1>7. n \in Seq(Ghosts) /\ DOMAIN n = 1..Len(k)
  <2>1. \A i \in 1..Len(k) : FirstSeenAt(k[i]) \in 0..MaxTime  BY <1>1, FirstSeenIs
  <2>2. \A i \in 1..Len(k) : [entity |-> k[i], at |-> FirstSeenAt(k[i])] \in Ghosts  BY <1>1, <1>5, <2>1 DEF Ghosts
  <2>3. n \in [1..Len(k) -> Ghosts]  BY <1>6, <2>2
  <2> QED  BY <1>5, <2>3
<1>8. \A i \in 1..Len(k) : n[i].entity = k[i] /\ n[i].at = FirstSeenAt(k[i])  BY <1>6
<1>9. \A x \in ToSet(n) : x.entity \in ToSet(k) /\ x.at = FirstSeenAt(x.entity)
  BY <1>5, <1>7, <1>8 DEF ToSet
<1>10. \A i, j \in 1..Len(k) : n[i].entity = n[j].entity => i = j  BY <1>3, <1>5, <1>8 DEF Once
<1>11. Once(n)  BY <1>7, <1>10 DEF Once
<1>12. \A x, y \in ToSet(n) : x.entity = y.entity => x = y  BY <1>7, <1>10 DEF ToSet
<1> HIDE DEF w
<1>13. ToSet(w) \cap ToSet(n) = {}  BY <1>4, <1>9
<1>14. a \in Seq(Ghosts) /\ ToSet(a) = ToSet(w) \cup ToSet(n) /\ Once(a)  BY <1>4, <1>7, <1>11, <1>13, JoinSet
<1> HIDE DEF a
<1>15. z \in Seq(Ghosts) /\ Len(z) <= 2 * EntityLimit /\ ToSet(z) \subseteq ToSet(a) /\ Once(z)
  <2>1. 2 * EntityLimit \in Nat \ {0}  BY LimitAssumption
  <2> DEFINE b == 2 * EntityLimit
  <2> HIDE DEF b
  <2>2. LastN(a, b) \in Seq(Ghosts) /\ Ends(LastN(a, b), a) /\ Len(LastN(a, b)) <= b  BY <1>14, <2>1, LastNIs DEF b
  <2>3. ToSet(LastN(a, b)) \subseteq ToSet(a) /\ Once(LastN(a, b))  BY <1>14, <2>2, EndSet
  <2> QED  BY <2>2, <2>3 DEF b
<1> HIDE DEF z
<1>16. \A x, y \in ToSet(a) : x.entity = y.entity => x = y
  <2> SUFFICES ASSUME NEW x \in ToSet(a), NEW y \in ToSet(a), x.entity = y.entity PROVE x = y  OBVIOUS
  <2>1. CASE x \in ToSet(w) /\ y \in ToSet(w)  BY <1>1, <1>4, <2>1 DEF SightedOnce
  <2>2. CASE x \in ToSet(n) /\ y \in ToSet(n)  BY <1>12, <2>2
  <2>3. CASE x \in ToSet(w) /\ y \in ToSet(n)  BY <1>4, <1>9, <2>3
  <2>4. CASE x \in ToSet(n) /\ y \in ToSet(w)  BY <1>4, <1>9, <2>4
  <2> QED  BY <1>14, <2>1, <2>2, <2>3, <2>4
<1>17. SightedOnce(z)  BY <1>15, <1>16 DEF SightedOnce
<1>18. /\ sightedSince' \in [Entities -> SUBSET Entities]
       /\ \A e \in Entities : sightedSince'[e] = IF e \in ToSet(k) THEN After(k, e) ELSE sightedSince[e] \cup ToSet(k)
  <2>1. sightedSince' = SightedSince(rows) /\ sightedSince \in [Entities -> SUBSET Entities]
    BY DEF Update, ScanAssumptions, IInv, TypeOK
  <2>2. sightedSince' = [e \in Entities |-> IF e \in ToSet(k) THEN After(k, e) ELSE sightedSince[e] \cup ToSet(k)]
    BY <2>1 DEF SightedSince, k
  <2>3. ToSet(k) \subseteq Entities /\ \A e : After(k, e) \subseteq Entities
    BY <1>1, <1>5 DEF ToSet, After
  <2> QED  BY <2>1, <2>2, <2>3
<1>19. SinceOK(a, sightedSince')
  <2>1. a = w \o n  BY DEF a
  <2>2. SinceOK(firstSeen, sightedSince) /\ sightedSince \in [Entities -> SUBSET Entities]
    BY DEF ScanAssumptions, IInv, TypeOK
  <2>3. w \in Seq(Ghosts) /\ \A i, j \in 1..Len(w) : i < j => w[j].entity \in sightedSince[w[i].entity]
    <3> DEFINE T == {x \in ToSet(firstSeen) : x.entity \notin ToSet(k)}
    <3>1. w = Chosen(firstSeen, T)  BY DEF w, Without
    <3> HIDE DEF T
    <3>2. Picked(w, firstSeen, T, Len(firstSeen))  BY <1>1, <3>1, ChosenIs
    <3>3. PICK h \in [1..Len(w) -> Nat] : Finds(h, w, firstSeen, T, Len(firstSeen))  BY <3>2 DEF Picked
    <3>4. DOMAIN firstSeen = 1..Len(firstSeen)  BY <1>1
    <3> SUFFICES ASSUME NEW i \in 1..Len(w), NEW j \in 1..Len(w), i < j
                 PROVE  w[j].entity \in sightedSince[w[i].entity]
      BY <1>4
    <3>5. /\ h[i] \in 1..Len(firstSeen) /\ h[j] \in 1..Len(firstSeen) /\ h[i] < h[j]
          /\ w[i] = firstSeen[h[i]] /\ w[j] = firstSeen[h[j]]
      BY <3>3 DEF Finds
    <3>6. firstSeen[h[j]].entity \in sightedSince[firstSeen[h[i]].entity]  BY <2>2, <3>4, <3>5 DEF SinceOK
    <3> QED  BY <3>5, <3>6
  <2>4. \A i \in 1..Len(w) : w[i].entity \in Entities /\ w[i].entity \notin ToSet(k)
    <3>1. \A i \in 1..Len(w) : w[i] \in ToSet(w) /\ w[i] \in Ghosts  BY <1>4 DEF ToSet
    <3> QED  BY <1>4, <3>1 DEF Ghosts
  <2> SUFFICES ASSUME NEW i \in DOMAIN a, NEW j \in DOMAIN a, i < j
               PROVE  a[j].entity \in sightedSince'[a[i].entity]
    BY DEF SinceOK
  <2> DEFINE m == Len(w)
  <2>5. /\ m \in Nat /\ Len(k) \in Nat /\ DOMAIN a = 1..(m + Len(k))
        /\ \A g \in 1..m : a[g] = w[g]
        /\ \A g \in 1..Len(k) : a[m + g] = n[g]
    <3>1. Joins(w, n, a)  BY <1>4, <1>7, <2>1, ConcatOf
    <3>2. Len(n) = Len(k)  BY <1>5, <1>7
    <3>3. DOMAIN a = 1..Len(a) /\ Len(w) \in Nat  BY <1>4, <1>14
    <3> QED  BY <1>5, <3>1, <3>2, <3>3 DEF Joins
  <2> HIDE DEF m
  <2>6. CASE j \in 1..m
    <3>1. i \in 1..m /\ a[i] = w[i] /\ a[j] = w[j]  BY <2>5, <2>6
    <3>2. w[j].entity \in sightedSince[w[i].entity]  BY <2>3, <2>6, <3>1 DEF m
    <3> QED  BY <1>18, <2>4, <3>1, <3>2 DEF m
  <2>7. CASE i \in 1..m /\ j \notin 1..m
    <3>1. j - m \in 1..Len(k) /\ j = m + (j - m)  BY <2>5, <2>7
    <3>2. a[j] = n[j - m]  BY <2>5, <3>1
    <3>3. a[j].entity \in ToSet(k)  BY <1>5, <1>8, <3>1, <3>2
    <3>4. a[i].entity \in Entities /\ a[i].entity \notin ToSet(k)  BY <2>4, <2>5, <2>7 DEF m
    <3> QED  BY <1>18, <3>3, <3>4
  <2>8. CASE i \notin 1..m
    <3>1. i - m \in 1..Len(k) /\ i = m + (i - m) /\ j - m \in 1..Len(k) /\ j = m + (j - m) /\ i - m \in 1..((j - m) - 1)
      BY <2>5, <2>8
    <3>2. a[i] = n[i - m] /\ a[j] = n[j - m]  BY <2>5, <3>1
    <3>3. a[i].entity = k[i - m] /\ a[j].entity = k[j - m]  BY <1>8, <3>1, <3>2
    <3>4. k[j - m] \in After(k, k[i - m])  BY <1>5, <3>1 DEF After
    <3>5. k[i - m] \in ToSet(k) /\ k[i - m] \in Entities  BY <1>1, <1>5, <3>1
    <3> QED  BY <1>18, <3>3, <3>4, <3>5
  <2> QED  BY <2>5, <2>6, <2>7, <2>8
<1>20. ToSet(firstSeen) \subseteq ToSet(a)
  <2> SUFFICES ASSUME NEW x \in ToSet(firstSeen), x \notin ToSet(w) PROVE x \in ToSet(n)  BY <1>14
  <2>1. x.entity \in ToSet(k)  BY <1>4
  <2>2. PICK i \in 1..Len(k) : k[i] = x.entity  BY <1>5, <2>1 DEF ToSet
  <2>3. FirstSeenAt(k[i]) = x.at  BY <1>1, <2>2, FirstSeenIs
  <2>4. x \in Ghosts
    <3> HIDE DEF Ghosts
    <3> QED  BY <1>1 DEF ToSet
  <2>5. n[i] = x  BY <1>6, <2>2, <2>3, <2>4 DEF Ghosts
  <2> QED  BY <1>7, <2>2, <2>5 DEF ToSet
<1>21. SinceOK(z, sightedSince') /\ \A x \in ToSet(a) : x \in ToSet(z) \/ Cardinality(sightedSince'[x.entity]) >= 2 * EntityLimit
  <2> DEFINE b == 2 * EntityLimit
  <2>1. b \in Nat \ {0}  BY LimitAssumption
  <2>2. z = LastN(a, b)  BY DEF z
  <2> HIDE DEF b
  <2>3. \A x \in ToSet(a) : x.entity \in Entities
    <3>1. \A x \in ToSet(a) : x \in Ghosts
      <4> HIDE DEF Ghosts
      <4> QED  BY <1>14 DEF ToSet
    <3> QED  BY <3>1 DEF Ghosts
  <2>4. \A e \in Entities : IsFiniteSet(sightedSince'[e])  BY <1>18, EntityAssumption, FS_Subset
  <2>5. SinceOK(z, sightedSince')
    <3>1. Ends(z, a)  BY <1>14, <2>1, <2>2, LastNIs
    <3> QED  BY <1>14, <1>15, <1>19, <3>1, EndSince
  <2>6. ASSUME NEW x \in ToSet(a) PROVE x \in ToSet(z) \/ Cardinality(sightedSince'[x.entity]) >= b
    BY <1>14, <1>16, <1>19, <2>1, <2>2, <2>3, <2>4, CrowdedOut
  <2> QED  BY <2>5, <2>6 DEF b
<1> QED  BY <1>2, <1>15, <1>17, <1>18, <1>20, <1>21

\* The entities that a scan sees make rows of its domain, each entity once.
LEMMA SeenRows ==
  ASSUME NEW d, NEW seen, seen \subseteq Of(d)
  PROVE  SetToSeq(seen) \in Seq(Of(d)) /\ ToSet(SetToSeq(seen)) = seen /\ Once(SetToSeq(seen))
<1>1. IsFiniteSet(seen)  BY OfFinite, FS_Subset
<1>2. SetToSeq(seen) \in Seq(seen) /\ ToSet(SetToSeq(seen)) = seen /\ Once(SetToSeq(seen))  BY <1>1, RowsAre
<1>3. Seq(seen) \subseteq Seq(Of(d))  BY SeqMonotonic
<1> QED  BY <1>2, <1>3

\* A scan keeps the invariant.
LEMMA ScanStep ==
  ASSUME IInv, NEW d \in Domains, Scan(d)
  PROVE  IInv'
<1>1. PICK seen \in SUBSET (alive \cap Of(d)), complete \in BOOLEAN :
           \E changed \in SUBSET seen : Update(d, SetToSeq(seen), changed, complete)
  BY DEF Scan
<1>2. PICK changed : Update(d, SetToSeq(seen), changed, complete)  BY <1>1
<1> DEFINE rows == SetToSeq(seen)
<1>3. rows \in Seq(Of(d)) /\ Once(rows)  BY SeenRows
<1>4. Update(d, rows, changed, complete)  BY <1>2
<1> HIDE DEF rows
<1>5. ScanAssumptions(d, rows, complete)  BY <1>3 DEF ScanAssumptions
<1>6. /\ PreviousOK'
      /\ \A b \in Domains : previous'[b] \in Seq(Of(b)) /\ Len(previous'[b]) <= EntityLimit
      /\ observed' = observed \cup {d}
  BY <1>4, <1>5, PreviousStays
<1>7. /\ queue' \in Seq(Events) /\ Len(queue') <= QueueLimit
      /\ Alternates(queue') /\ Stands(queue', observed', previous')
  BY <1>4, <1>5, QueueStays
<1>8. ghosts' \in Seq(Ghosts) /\ Len(ghosts') <= GhostLimit /\ NoGhostOf(ghosts', previous')
  BY <1>4, <1>5, GhostsStay
<1>9. /\ firstSeen' \in Seq(Ghosts) /\ Len(firstSeen') <= 2 * EntityLimit /\ SightedOnce(firstSeen')
      /\ sightedSince' \in [Entities -> SUBSET Entities] /\ SinceOK(firstSeen', sightedSince')
  BY <1>4, <1>5, SightingsStay
<1>10. now' = now /\ alive' = alive  BY DEF Scan
<1>11. TypeOK'  BY <1>6, <1>7, <1>8, <1>9, <1>10 DEF IInv, TypeOK, Of, Events, Ghosts
<1> QED  BY <1>6, <1>7, <1>8, <1>9, <1>11 DEF IInv, NoGhostOf, SightedOnce, SinceOK, Once, Alternates, Stands, Opened, Small, Of

\* What is left of the ghosts keeps off what is compared with.
LEMMA FewerGhosts ==
  ASSUME NEW gs, NEW hs, NEW prev, NoGhostOf(gs, prev), ToSet(hs) \subseteq ToSet(gs)
  PROVE  NoGhostOf(hs, prev)
BY DEF NoGhostOf

\* Time takes away the oldest events and the ghosts that are over, and no more than the limit stays.
LEMMA ExpireLeaves ==
  ASSUME TypeOK
  PROVE  /\ Unexpired(queue) \in Seq(Events) /\ Len(Unexpired(queue)) <= Len(queue)
         /\ Ends(Unexpired(queue), queue) /\ ToSet(Unexpired(queue)) \subseteq ToSet(queue)
         /\ LastN(Live(ghosts), GhostLimit) \in Seq(Ghosts) /\ Len(LastN(Live(ghosts), GhostLimit)) <= GhostLimit
         /\ ToSet(LastN(Live(ghosts), GhostLimit)) \subseteq ToSet(ghosts)
<1>1. queue \in Seq(Events) /\ ghosts \in Seq(Ghosts)  BY DEF TypeOK
<1>2. Unexpired(queue) \in Seq(Events) /\ Ends(Unexpired(queue), queue)  BY <1>1, UnexpiredIs
<1>3. ToSet(Unexpired(queue)) \subseteq ToSet(queue) /\ Len(Unexpired(queue)) <= Len(queue)  BY <1>1, <1>2, EndSet
<1> DEFINE T == {x \in ToSet(ghosts) : x.at + Ttl > now}
           l == Live(ghosts)
           z == LastN(l, GhostLimit)
<1>4. l = Chosen(ghosts, T)  BY DEF Live
<1> HIDE DEF T, l
<1>5. l \in Seq(Ghosts) /\ ToSet(l) \subseteq ToSet(ghosts)
  <2>1. l \in Seq(Ghosts) /\ ToSet(l) = ToSet(ghosts) \cap T  BY <1>1, <1>4, ChosenSet
  <2> QED  BY <2>1
<1>6. z \in Seq(Ghosts) /\ Ends(z, l) /\ Len(z) <= GhostLimit  BY <1>5, LastNIs, LimitAssumption
<1> HIDE DEF z
<1>7. ToSet(z) \subseteq ToSet(l)  BY <1>5, <1>6, EndSet
<1> QED  BY <1>2, <1>3, <1>5, <1>6, <1>7 DEF z, l

\* Time running out keeps the invariant.
LEMMA ExpireStep ==
  ASSUME IInv, Expire
  PROVE  IInv'
<1>1. /\ queue' = Unexpired(queue) /\ ghosts' = LastN(Live(ghosts), GhostLimit)
      /\ now' = now /\ alive' = alive /\ observed' = observed /\ previous' = previous
      /\ firstSeen' = firstSeen /\ sightedSince' = sightedSince
  BY DEF Expire
<1>2. TypeOK /\ queue \in Seq(Events) /\ Len(queue) <= QueueLimit /\ Alternates(queue) /\ Stands(queue, observed, previous)
      /\ NoGhostOf(ghosts, previous)
  BY DEF IInv, TypeOK
<1>3. /\ queue' \in Seq(Events) /\ Len(queue') <= Len(queue) /\ Ends(queue', queue)
      /\ ghosts' \in Seq(Ghosts) /\ Len(ghosts') <= GhostLimit /\ ToSet(ghosts') \subseteq ToSet(ghosts)
  BY <1>1, <1>2, ExpireLeaves
<1>4. Alternates(queue') /\ \A e : Opened(queue', e) => Opened(queue, e)  BY <1>2, <1>3, EndEvents
<1>5. Len(queue') <= QueueLimit
  <2>1. Len(queue') \in Nat /\ Len(queue) \in Nat  BY <1>2, <1>3
  <2> QED  BY <1>2, <1>3, <2>1, LimitAssumption
<1>6. TypeOK'  BY <1>1, <1>3, <1>5 DEF IInv, TypeOK, Of, Events, Ghosts
<1>7. NoGhostOf(ghosts', previous')  BY <1>1, <1>2, <1>3, FewerGhosts
<1>8. Stands(queue', observed', previous')  BY <1>1, <1>2, <1>4 DEF Stands
<1>9. PreviousOK' /\ SightedOnce(firstSeen') /\ SinceOK(firstSeen', sightedSince')
  BY <1>1 DEF IInv, PreviousOK, SightedOnce, SinceOK, Once
<1> QED  BY <1>4, <1>6, <1>7, <1>8, <1>9 DEF IInv, NoGhostOf, SightedOnce, SinceOK, Once, Alternates, Stands, Opened, Small, Of

\* What is left when the entities of a domain are taken away.
LEMMA WithoutLeaves ==
  ASSUME NEW B, NEW s \in Seq(B), NEW es
  PROVE  /\ Without(s, es) \in Seq(B) /\ Len(Without(s, es)) <= Len(s)
         /\ ToSet(Without(s, es)) = {x \in ToSet(s) : x.entity \notin es}
<1> DEFINE T == {x \in ToSet(s) : x.entity \notin es}
           w == Without(s, es)
<1>1. w = Chosen(s, T) /\ T \subseteq ToSet(s)  BY DEF Without
<1> HIDE DEF w, T
<1>2. w \in Seq(B) /\ Len(w) <= Len(s) /\ ToSet(w) = ToSet(s) \cap T  BY <1>1, ChosenSet
<1>3. ToSet(w) = T  BY <1>1, <1>2
<1> QED  BY <1>2, <1>3 DEF w, T

\* Nothing of a domain that is reset is told or compared with any more, so nothing of it can
\* contradict the next observation.
LEMMA ResetStep ==
  ASSUME IInv, NEW d \in Domains, Reset(d)
  PROVE  IInv'
<1>1. /\ previous' = [previous EXCEPT ![d] = <<>>] /\ observed' = observed \ {d}
      /\ queue' = Without(queue, Of(d)) /\ ghosts' = Without(ghosts, Of(d))
      /\ now' = now /\ alive' = alive /\ firstSeen' = firstSeen
      /\ sightedSince' = sightedSince
  BY DEF Reset
<1>2. /\ queue \in Seq(Events) /\ Len(queue) <= QueueLimit /\ ghosts \in Seq(Ghosts) /\ Len(ghosts) <= GhostLimit
      /\ Alternates(queue) /\ Stands(queue, observed, previous) /\ NoGhostOf(ghosts, previous)
      /\ previous \in [Domains -> Seq(Entities)]
      /\ \A b \in Domains : previous[b] \in Seq(Of(b)) /\ Len(previous[b]) <= EntityLimit /\ Once(previous[b])
  BY DEF IInv, TypeOK, PreviousOK
<1>3. queue' \in Seq(Events) /\ Len(queue') <= QueueLimit
  <2>1. queue' \in Seq(Events) /\ Len(queue') <= Len(queue)  BY <1>1, <1>2, WithoutLeaves
  <2>2. Len(queue') \in Nat /\ Len(queue) \in Nat  BY <1>2, <2>1
  <2> QED  BY <1>2, <2>1, <2>2, LimitAssumption
<1>4. /\ ghosts' \in Seq(Ghosts) /\ Len(ghosts') <= GhostLimit
      /\ ToSet(ghosts') = {x \in ToSet(ghosts) : x.entity \notin Of(d)}
  <2>1. /\ ghosts' \in Seq(Ghosts) /\ Len(ghosts') <= Len(ghosts)
        /\ ToSet(ghosts') = {x \in ToSet(ghosts) : x.entity \notin Of(d)}
    BY <1>1, <1>2, WithoutLeaves
  <2>2. Len(ghosts') \in Nat /\ Len(ghosts) \in Nat  BY <1>2, <2>1
  <2> QED  BY <1>2, <2>1, <2>2, LimitAssumption
<1>5. \A b \in Domains : previous'[b] = IF b = d THEN <<>> ELSE previous[b]  BY <1>1, <1>2
<1>6. <<>> \in Seq(Of(d)) /\ Len(<<>>) <= EntityLimit /\ Once(<<>>) /\ ToSet(<<>>) = {} /\ <<>> \in Seq(Entities)
  <2>1. <<>> \in Seq(Of(d)) /\ <<>> \in Seq(Entities) /\ Len(<<>>) <= EntityLimit  BY LimitAssumption
  <2>2. Once(<<>>) /\ ToSet(<<>>) = {}  BY DEF Once, ToSet
  <2> QED  BY <2>1, <2>2
<1>7. \A b \in Domains : previous'[b] \in Seq(Of(b)) /\ Len(previous'[b]) <= EntityLimit /\ Once(previous'[b])
  <2> SUFFICES ASSUME NEW b \in Domains
               PROVE  previous'[b] \in Seq(Of(b)) /\ Len(previous'[b]) <= EntityLimit /\ Once(previous'[b])
    OBVIOUS
  <2>1. CASE b = d
    <3>1. previous'[b] = <<>>  BY <1>5, <2>1
    <3> DEFINE e == <<>>
    <3>2. e \in Seq(Of(d)) /\ Len(e) <= EntityLimit /\ Once(e) /\ previous'[b] = e  BY <1>6, <3>1
    <3> HIDE DEF e
    <3> QED  BY <2>1, <3>2
  <2>2. CASE b # d  BY <1>2, <1>5, <2>2
  <2> QED  BY <2>1, <2>2
<1>8. previous' \in [Domains -> Seq(Entities)]  BY <1>1, <1>2, <1>6
<1>9. (Alternates(queue) => Alternates(queue')) /\ \A e : Opened(queue', e) => Opened(queue, e) /\ e \notin Of(d)
  BY <1>1, <1>2, WithoutEvents
<1>10. Stands(queue', observed', previous')
  <2> SUFFICES ASSUME NEW e \in Entities, Small(e), Opened(queue', e)
               PROVE  e.domain \in observed' /\ e \in ToSet(previous'[e.domain])
    BY DEF Stands
  <2>1. Opened(queue, e) /\ e.domain # d  BY <1>9 DEF Of
  <2>2. e.domain \in observed /\ e \in ToSet(previous[e.domain]) /\ e.domain \in Domains
    BY <1>2, <2>1, EntityAssumption DEF Stands
  <2> QED  BY <1>1, <1>5, <2>1, <2>2
<1>11. NoGhostOf(ghosts', previous')
  <2> SUFFICES ASSUME NEW x \in ToSet(ghosts') PROVE x.entity \notin ToSet(previous'[x.entity.domain])
    BY DEF NoGhostOf
  <2>1. x \in ToSet(ghosts) /\ x.entity \notin Of(d)  BY <1>4
  <2>2. x \in Ghosts
    <3> HIDE DEF Ghosts
    <3> QED  BY <1>2, <2>1 DEF ToSet
  <2>3. x.entity \in Entities /\ x.entity.domain \in Domains  BY <2>2, EntityAssumption DEF Ghosts
  <2>4. x.entity.domain # d  BY <2>1, <2>3 DEF Of
  <2> QED  BY <1>2, <1>5, <2>1, <2>3, <2>4 DEF NoGhostOf
<1>12. TypeOK'  BY <1>1, <1>3, <1>4, <1>7 DEF IInv, TypeOK, Of, Events, Ghosts
<1>13. PreviousOK'  BY <1>7, <1>8 DEF PreviousOK, Once
<1>14. SightedOnce(firstSeen') /\ SinceOK(firstSeen', sightedSince')  BY <1>1 DEF IInv, SightedOnce, SinceOK, Once
<1> QED  BY <1>2, <1>9, <1>10, <1>11, <1>12, <1>13, <1>14
         DEF IInv, NoGhostOf, SightedOnce, SinceOK, Once, Alternates, Stands, Opened, Small, Of

\* The world and the clock leave the observations alone.
LEMMA OutsideStep ==
  ASSUME IInv, now' \in 0..MaxTime, alive' \subseteq Entities,
         UNCHANGED seenVars
  PROVE  IInv'
<1>0. /\ observed' = observed /\ previous' = previous /\ queue' = queue /\ ghosts' = ghosts
      /\ firstSeen' = firstSeen /\ sightedSince' = sightedSince
  BY DEF seenVars
<1>1. TypeOK'  BY <1>0 DEF IInv, TypeOK, Of, Events, Ghosts
<1>2. PreviousOK'  BY <1>0 DEF IInv, PreviousOK, Once
<1>3. /\ NoGhostOf(ghosts', previous') /\ SightedOnce(firstSeen') /\ SinceOK(firstSeen', sightedSince')
      /\ Alternates(queue') /\ Stands(queue', observed', previous')
  BY <1>0 DEF IInv
<1> QED  BY <1>1, <1>2, <1>3 DEF IInv, NoGhostOf, SightedOnce, SinceOK, Once, Alternates, Stands, Opened, Small, Of

\* The initial states.
LEMMA InitOK == Init => IInv
<1> SUFFICES ASSUME Init PROVE IInv  OBVIOUS
<1>1. /\ now = 0 /\ alive \subseteq Entities /\ observed = {} /\ previous = [d \in Domains |-> <<>>]
      /\ queue = <<>> /\ ghosts = <<>> /\ firstSeen = <<>> /\ sightedSince = [x \in Entities |-> {}]
  BY DEF Init
<1> DEFINE e == <<>>
<1>2. /\ \A B : e \in Seq(B)
      /\ DOMAIN e = {} /\ Len(e) = 0 /\ ToSet(e) = {} /\ \A i : i \notin DOMAIN e
  BY DEF ToSet
<1>3. queue = e /\ ghosts = e /\ firstSeen = e /\ \A d \in Domains : previous[d] = e  BY <1>1
<1>4. previous \in [Domains -> Seq(Entities)]  BY <1>1, <1>2
<1> HIDE DEF e
<1>5. /\ now \in 0..MaxTime /\ observed \subseteq Domains
      /\ Len(e) <= QueueLimit /\ Len(e) <= GhostLimit /\ Len(e) <= EntityLimit /\ Len(e) <= 2 * EntityLimit
  BY <1>1, <1>2, LimitAssumption
<1>6. TypeOK  BY <1>1, <1>2, <1>3, <1>5 DEF TypeOK
<1>7. PreviousOK  BY <1>2, <1>3, <1>4 DEF PreviousOK, Once
<1>8. NoGhostOf(ghosts, previous) /\ SightedOnce(firstSeen) /\ SinceOK(firstSeen, sightedSince)
  BY <1>2, <1>3 DEF NoGhostOf, SightedOnce, SinceOK, Once
<1>9. Alternates(queue) /\ Stands(queue, observed, previous)  BY <1>2, <1>3 DEF Alternates, Stands, Opened
<1> QED  BY <1>6, <1>7, <1>8, <1>9 DEF IInv

\* Every step keeps the invariant.
LEMMA NextOK == IInv /\ [Next]_vars => IInv'
<1> SUFFICES ASSUME IInv, [Next]_vars PROVE IInv'  OBVIOUS
<1>1. now \in 0..MaxTime /\ alive \subseteq Entities /\ MaxTime \in Nat  BY LimitAssumption DEF IInv, TypeOK
<1>2. ASSUME NEW d \in Domains, Scan(d) PROVE IInv'  BY <1>2, ScanStep
<1>3. ASSUME NEW d \in Domains, Reset(d) PROVE IInv'  BY <1>3, ResetStep
<1>4. ASSUME NEW e \in Entities, Comes(e) PROVE IInv'
  <2>1. now' \in 0..MaxTime /\ alive' \subseteq Entities /\ UNCHANGED seenVars
    BY <1>1, <1>4 DEF Comes
  <2> QED  BY <2>1, OutsideStep
<1>5. ASSUME NEW e \in Entities, Goes(e) PROVE IInv'
  <2>1. now' \in 0..MaxTime /\ alive' \subseteq Entities /\ UNCHANGED seenVars
    BY <1>1, <1>5 DEF Goes
  <2> QED  BY <2>1, OutsideStep
<1>6. CASE Expire  BY <1>6, ExpireStep
<1>7. CASE Tick
  <2>1. now < MaxTime /\ now' = now + 1 /\ UNCHANGED <<alive, seenVars>>
    BY <1>7 DEF Tick
  <2>2. now' \in 0..MaxTime /\ alive' \subseteq Entities  BY <1>1, <2>1
  <2> QED  BY <2>1, <2>2, OutsideStep
<1>8. CASE UNCHANGED vars
  <2>1. now' \in 0..MaxTime /\ alive' \subseteq Entities /\ UNCHANGED seenVars
    BY <1>1, <1>8 DEF vars, seenVars
  <2> QED  BY <2>1, OutsideStep
<1> QED  BY <1>2, <1>3, <1>4, <1>5, <1>6, <1>7, <1>8 DEF Next

\* Every reachable state satisfies the inductive invariant.
THEOREM InvariantHolds == Spec => []IInv
BY InitOK, NextOK, PTL DEF Spec

\* The queue, the ghosts, the first sightings and what is compared with stay within their limits.
THEOREM TypesHold == Spec => []TypeOK
<1>1. IInv => TypeOK  BY DEF IInv
<1> QED  BY <1>1, InvariantHolds, PTL

\* An entity is never shown beside its own ghost.
THEOREM GhostsAreApart == Spec => []GhostsAreGone
<1>1. IInv => GhostsAreGone
  <2> SUFFICES ASSUME IInv, NEW i \in DOMAIN ghosts
               PROVE  ghosts[i].entity \notin ToSet(previous[ghosts[i].entity.domain])
    BY DEF GhostsAreGone
  <2>1. ghosts[i] \in ToSet(ghosts)  BY DEF ToSet
  <2> QED  BY <2>1 DEF IInv, NoGhostOf
<1> QED  BY <1>1, InvariantHolds, PTL

\* Between two announcements of an entity, in a domain below its limit, it was reported as closed.
THEOREM OpeningsAlternate == Spec => []OpensOnce
<1>1. IInv => OpensOnce  BY DEF IInv, Alternates, Small, OpensOnce
<1> QED  BY <1>1, InvariantHolds, PTL

-----------------------------------------------------------------------------
(* What a step may do. *)

\* A closing of this moment is an event of the queue.
LEMMA ClosedNowIs ==
  ASSUME NEW q, NEW e
  PROVE  e \in ClosedNow(q) <=> \E x \in ToSet(q) : x.entity = e /\ x.kind = "closed" /\ x.at = now
BY DEF ClosedNow, ToSet

\* Events that are taken away, or that stay, announce nothing.
LEMMA NothingNew ==
  ASSUME ToSet(queue') \subseteq ToSet(queue)
  PROVE  ClosedNow(queue') \ ClosedNow(queue) = {}
<1>1. \A e \in ClosedNow(queue') : e \in ClosedNow(queue)  BY ClosedNowIs
<1> QED  BY <1>1

\* A scan reports an entity as closed only when it has seen all that lives, and not that entity.
LEMMA ScanCloses ==
  ASSUME IInv, NEW d \in Domains, Scan(d), NEW e \in ClosedNow(queue'), e \notin ClosedNow(queue)
  PROVE  e \notin alive
<1>1. PICK seen \in SUBSET (alive \cap Of(d)), complete \in BOOLEAN :
           /\ complete => seen = alive \cap Of(d)
           /\ \E changed \in SUBSET seen : Update(d, SetToSeq(seen), changed, complete)
  BY DEF Scan
<1>2. PICK changed : Update(d, SetToSeq(seen), changed, complete)  BY <1>1
<1> DEFINE rows == SetToSeq(seen)
           D == Diff(d, rows, changed, complete)
<1>3. rows \in Seq(Of(d)) /\ ToSet(rows) = seen /\ Once(rows)  BY SeenRows
<1>4. Update(d, rows, changed, complete)  BY <1>2
<1> HIDE DEF rows
<1>5. ScanAssumptions(d, rows, complete)  BY <1>3 DEF ScanAssumptions
<1>6. ToSet(queue') \subseteq ToSet(queue) \cup ToSet(D.current) \cup ToSet(D.closed)  BY <1>4, <1>5, QueueStays
<1>7. DiffOK(D, d, rows, complete)  BY <1>3, DiffIs
<1> HIDE DEF D
<1>8. PICK x \in ToSet(queue') : x.entity = e /\ x.kind = "closed" /\ x.at = now  BY ClosedNowIs
<1>9. x \notin ToSet(queue)  BY <1>8, ClosedNowIs
<1>10. /\ D.current \in Seq(Events) /\ D.closed \in Seq(Events) /\ D.gone \in Seq(Of(d))
       /\ \A i \in 1..Len(D.current) : D.current[i].kind # "closed"
       /\ \A i \in 1..Len(D.closed) : D.closed[i].entity \in ToSet(D.gone)
       /\ IF d \in observed /\ Complete(rows, complete)
          THEN ToSet(D.gone) = ToSet(previous[d]) \ ToSet(Kept(rows)) ELSE ToSet(D.gone) = {}
  BY <1>7 DEF DiffOK
<1>11. x \notin ToSet(D.current)  BY <1>8, <1>10 DEF ToSet
<1>12. x \in ToSet(D.closed)  BY <1>6, <1>9, <1>11
<1>13. e \in ToSet(D.gone)  BY <1>8, <1>10, <1>12 DEF ToSet
<1>14. e \in Of(d)  BY <1>10, <1>13 DEF ToSet
<1>15. Complete(rows, complete) /\ e \notin ToSet(Kept(rows))  BY <1>10, <1>13
<1>16. complete /\ Len(rows) <= EntityLimit  BY <1>15 DEF Complete
<1>17. Kept(rows) = rows  BY <1>3, <1>16, KeptIs
<1> QED  BY <1>1, <1>3, <1>14, <1>15, <1>16, <1>17

\* An incomplete observation never proves that something is gone: what a step newly reports as
\* closed does not live.
THEOREM ClosingsAreTrue == Spec => ClosedIsGone
<1> DEFINE A == (ClosedNow(queue') \ ClosedNow(queue)) \cap alive = {}
<1>1. ASSUME IInv, Next PROVE A
  <2>1. ASSUME NEW d \in Domains, Scan(d) PROVE A  BY <1>1, <2>1, ScanCloses
  <2>2. ASSUME NEW d \in Domains, Reset(d) PROVE A
    <3>1. queue \in Seq(Events) /\ queue' = Without(queue, Of(d))  BY <1>1, <2>2 DEF IInv, TypeOK, Reset
    <3>2. ToSet(queue') = {x \in ToSet(queue) : x.entity \notin Of(d)}  BY <3>1, WithoutLeaves
    <3>3. ToSet(queue') \subseteq ToSet(queue)  BY <3>2
    <3> QED  BY <3>3, NothingNew
  <2>3. CASE Expire
    <3>1. ToSet(queue') \subseteq ToSet(queue)  BY <1>1, <2>3, ExpireLeaves DEF IInv, Expire
    <3> QED  BY <3>1, NothingNew
  <2>4. CASE queue' = queue  BY <2>4, NothingNew
  <2>5. (\E e \in Entities : Comes(e) \/ Goes(e)) \/ Tick => queue' = queue  BY DEF Comes, Goes, Tick, seenVars
  <2> QED  BY <1>1, <2>1, <2>2, <2>3, <2>4, <2>5 DEF Next
<1>2. IInv /\ [Next]_vars => [A]_vars  BY <1>1
<1>3. ClosedIsGone <=> [][A]_vars  BY DEF ClosedIsGone
<1> HIDE DEF A
<1> QED  BY <1>2, <1>3, InvariantHolds, PTL DEF Spec

\* The first sighting of an entity is remembered until as many others as are remembered have been
\* seen after it: until then its age never starts again.
THEOREM AgesGoOn == Spec => AgeGoesOn
<1> DEFINE A == \A x \in ToSet(firstSeen) :
                  x \in ToSet(firstSeen') \/ Cardinality(sightedSince'[x.entity]) >= 2 * EntityLimit
<1>1. ASSUME IInv, Next PROVE A
  <2>1. ASSUME NEW d \in Domains, Scan(d) PROVE A
    <3>1. PICK seen \in SUBSET (alive \cap Of(d)), complete \in BOOLEAN :
               \E changed \in SUBSET seen : Update(d, SetToSeq(seen), changed, complete)
      BY <2>1 DEF Scan
    <3>2. PICK changed : Update(d, SetToSeq(seen), changed, complete)  BY <3>1
    <3> DEFINE rows == SetToSeq(seen)
    <3>3. rows \in Seq(Of(d)) /\ Once(rows)  BY SeenRows
    <3>4. Update(d, rows, changed, complete)  BY <3>2
    <3> HIDE DEF rows
    <3>5. ScanAssumptions(d, rows, complete)  BY <1>1, <3>3 DEF ScanAssumptions
    <3> QED  BY <3>4, <3>5, SightingsStay
  <2>2. (\E d \in Domains : Reset(d)) \/ (\E e \in Entities : Comes(e) \/ Goes(e)) \/ Expire \/ Tick
          => firstSeen' = firstSeen
    BY DEF Reset, Comes, Goes, Expire, Tick, seenVars
  <2> QED  BY <1>1, <2>1, <2>2 DEF Next
<1>2. IInv /\ [Next]_vars => [A]_vars  BY <1>1
<1>3. AgeGoesOn <=> [][A]_vars  BY DEF AgeGoesOn
<1> HIDE DEF A
<1> QED  BY <1>2, <1>3, InvariantHolds, PTL DEF Spec

=============================================================================
