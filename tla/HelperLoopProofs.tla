-------------------------- MODULE HelperLoopProofs --------------------------
(***************************************************************************)
(* Proofs about the helper's loop, for every set of records, every rate,   *)
(* every window and every way the pipe is cut into chunks.                 *)
(*                                                                         *)
(* The inductive invariant says what the helper holds: the bytes of an     *)
(* unfinished record, or those that remain of it after the rest has been   *)
(* dropped, such that with what was dropped and with the pipe they are     *)
(* exactly the records without an answer.  The lemmas before it say how    *)
(* bytes are cut, what the limiter remembers, and what becomes of a        *)
(* record.                                                                 *)
(***************************************************************************)
EXTENDS HelperLoop, SequenceFacts

-----------------------------------------------------------------------------
(* Cutting bytes into records. *)

Bytes == Bases \cup {NL}

Splits == [lines : Seq(Seq(Bases)), rest : Seq(Bases)]

Cuts(split, bytes) == FoldLeft(Cut, split, bytes)

\* A byte completes a record or makes it longer.
LEMMA CutTyped ==
  ASSUME NEW s \in Splits, NEW byte \in Bytes
  PROVE  /\ Cut(s, byte) \in Splits
         /\ byte = NL => Cut(s, byte) = [lines |-> Append(s.lines, s.rest), rest |-> <<>>]
         /\ byte # NL => byte \in Bases /\ Cut(s, byte) = [lines |-> s.lines, rest |-> Append(s.rest, byte)]
<1>1. s = [lines |-> s.lines, rest |-> s.rest] /\ s.lines \in Seq(Seq(Bases)) /\ s.rest \in Seq(Bases)
  BY DEF Splits
<1>2. CASE byte = NL
  <2>1. Append(s.lines, s.rest) \in Seq(Seq(Bases))  BY <1>1, AppendProperties
  <2>2. <<>> \in Seq(Bases)  OBVIOUS
  <2> QED  BY <1>2, <2>1, <2>2 DEF Cut, Splits
<1>3. CASE byte # NL
  <2>1. byte \in Bases  BY <1>3 DEF Bytes
  <2>2. Append(s.rest, byte) \in Seq(Bases)  BY <1>1, <2>1, AppendProperties
  <2>3. Cut(s, byte) = [lines |-> s.lines, rest |-> Append(s.rest, byte)]  BY <1>1, <1>3 DEF Cut
  <2> QED  BY <1>1, <1>3, <2>1, <2>2, <2>3 DEF Splits
<1> QED  BY <1>2, <1>3

\* Bytes are cut one after the other.
LEMMA CutsRun ==
  ASSUME NEW s \in Splits, NEW bytes \in Seq(Bytes)
  PROVE  \E f \in [0..Len(bytes) -> Splits] :
           /\ f[0] = s /\ f[Len(bytes)] = Cuts(s, bytes)
           /\ \A i \in 1..Len(bytes) : f[i] = Cut(f[i - 1], bytes[i])
<1> DEFINE n == Len(bytes)
           step == [u \in Splits \X (1..n) |-> Cut(u[1], bytes[u[2]])]
           Fold(g) == g = [t \in SUBSET (DOMAIN bytes) |->
                             IF t = {} THEN s ELSE Cut(g[t \ {Max(t)}], bytes[Max(t)])]
           iter == CHOOSE g : Fold(g)
<1>1. n \in Nat /\ DOMAIN bytes = 1..n /\ \A i \in 1..n : bytes[i] \in Bytes  OBVIOUS
<1>2. step \in [Splits \X (1..n) -> Splits]
  <2> SUFFICES ASSUME NEW u \in Splits \X (1..n) PROVE Cut(u[1], bytes[u[2]]) \in Splits  OBVIOUS
  <2>1. u[1] \in Splits /\ bytes[u[2]] \in Bytes
    <3> HIDE DEF n
    <3> QED  BY <1>1
  <2> QED  BY <2>1, CutTyped
<1>3. PICK g \in [SUBSET (1..n) -> Splits] : Folding(g, n, s, step)
  <2> HIDE DEF n, step
  <2> QED  BY <1>1, <1>2, FoldExists
<1> HIDE DEF n
<1>4. ASSUME NEW k \in Splits, NEW i \in 1..n PROVE step[<<k, i>>] = Cut(k, bytes[i])  OBVIOUS
<1>5. \A t \in SUBSET (1..n) : t # {} => Max(t) \in 1..n  BY <1>1, MaxTyped
<1> HIDE DEF step
<1>6. Fold(g)
  <2>1. ASSUME NEW t \in SUBSET (1..n), t # {} PROVE g[t] = Cut(g[t \ {Max(t)}], bytes[Max(t)])
    BY <1>3, <1>4, <1>5, <2>1 DEF Folding
  <2> QED  BY <1>1, <1>3, <2>1 DEF Folding
<1>7. Fold(iter)  BY <1>6
<1>8. Cuts(s, bytes) = iter[1..n]  BY <1>1 DEF Cuts, FoldLeft, MapThenFoldSet
<1> HIDE DEF iter
<1>9. Unfolds(iter, n, Splits, s, step)  BY <1>1, <1>4, <1>5, <1>7 DEF Unfolds
<1>10. PICK f \in [0..n -> Splits] : RunOf(f, n, s, step, iter[1..n])  BY <1>1, <1>2, <1>9, FoldRuns
<1>11. ASSUME NEW i \in 1..n PROVE f[i] = Cut(f[i - 1], bytes[i])
  <2>1. i - 1 \in 0..n  BY <1>1
  <2> QED  BY <1>4, <1>10, <2>1 DEF RunOf
<1> QED  BY <1>8, <1>10, <1>11 DEF n, RunOf

\* No bytes change nothing.
LEMMA CutsNothing == ASSUME NEW s \in Splits PROVE Cuts(s, <<>>) = s
<1>1. <<>> \in Seq(Bytes) /\ Len(<<>>) = 0  OBVIOUS
<1>2. PICK f \in [0..Len(<<>>) -> Splits] : f[0] = s /\ f[Len(<<>>)] = Cuts(s, <<>>)  BY <1>1, CutsRun
<1> QED  BY <1>1, <1>2

\* What is cut are records over the bases.
LEMMA CutsTyped == ASSUME NEW s \in Splits, NEW bytes \in Seq(Bytes) PROVE Cuts(s, bytes) \in Splits
<1>1. PICK f \in [0..Len(bytes) -> Splits] : f[Len(bytes)] = Cuts(s, bytes)  BY CutsRun
<1> QED  BY <1>1

\* The last byte is cut last.
LEMMA CutsAppend ==
  ASSUME NEW s \in Splits, NEW x \in Seq(Bytes), NEW b \in Bytes
  PROVE  Cuts(s, Append(x, b)) = Cut(Cuts(s, x), b)
<1> DEFINE n == Len(x)
           y == Append(x, b)
<1>1. n \in Nat /\ y \in Seq(Bytes) /\ Len(y) = n + 1 /\ y[n + 1] = b /\ \A i \in 1..n : y[i] = x[i]
  BY AppendProperties
<1>2. PICK f \in [0..n -> Splits] :
           f[0] = s /\ f[n] = Cuts(s, x) /\ \A i \in 1..n : f[i] = Cut(f[i - 1], x[i])
  BY CutsRun
<1> HIDE DEF y
<1>3. PICK g \in [0..Len(y) -> Splits] :
           g[0] = s /\ g[Len(y)] = Cuts(s, y) /\ \A i \in 1..Len(y) : g[i] = Cut(g[i - 1], y[i])
  BY <1>1, CutsRun
<1> HIDE DEF n
<1> DEFINE T == {i \in 0..n : f[i] = g[i]}
<1>4. 0 \in T  BY <1>1, <1>2, <1>3
<1>5. ASSUME NEW i \in 1..n, i - 1 \in T PROVE i \in T
  <2>1. f[i - 1] = g[i - 1] /\ i \in 1..Len(y) /\ i \in 0..n /\ y[i] = x[i]  BY <1>1, <1>5
  <2>2. f[i] = g[i]  BY <1>2, <1>3, <2>1
  <2> QED  BY <2>1, <2>2
<1>6. n \in T
  <2> HIDE DEF T
  <2>1. 0..n \subseteq T  BY <1>1, <1>4, <1>5, UpTo
  <2> QED  BY <1>1, <2>1
<1>7. n + 1 \in 1..Len(y) /\ (n + 1) - 1 = n  BY <1>1
<1>8. g[n + 1] = Cut(g[n], b)  BY <1>1, <1>3, <1>7
<1> QED  BY <1>1, <1>2, <1>3, <1>6, <1>8 DEF y

\* What is cut in two goes is cut as in one.
LEMMA CutsConcat ==
  ASSUME NEW s \in Splits, NEW x \in Seq(Bytes), NEW y \in Seq(Bytes)
  PROVE  Cuts(s, x \o y) = Cuts(Cuts(s, x), y)
<1> DEFINE T == {z \in Seq(Bytes) : Cuts(s, x \o z) = Cuts(Cuts(s, x), z)}
<1>1. <<>> \in T
  <2>1. x \o <<>> = x /\ <<>> \in Seq(Bytes)  OBVIOUS
  <2> QED  BY <2>1, CutsTyped, CutsNothing
<1>2. ASSUME NEW z \in Seq(Bytes), NEW b \in Bytes, z \in T PROVE Append(z, b) \in T
  <2>1. x \o Append(z, b) = Append(x \o z, b) /\ Append(z, b) \in Seq(Bytes) /\ x \o z \in Seq(Bytes)  OBVIOUS
  <2>2. Cuts(s, Append(x \o z, b)) = Cut(Cuts(s, x \o z), b)  BY <2>1, CutsAppend
  <2>3. Cuts(Cuts(s, x), Append(z, b)) = Cut(Cuts(Cuts(s, x), z), b)  BY CutsTyped, CutsAppend
  <2> QED  BY <1>2, <2>1, <2>2, <2>3
<1> HIDE DEF T
<1>3. Seq(Bytes) \subseteq T  BY <1>1, <1>2, SeqSetInduction
<1> QED  BY <1>3 DEF T

\* Records that are complete are left alone.
LEMMA CutsFrom ==
  ASSUME NEW done \in Seq(Seq(Bases)), NEW rest \in Seq(Bases), NEW bytes \in Seq(Bytes)
  PROVE  LET c == Cuts([lines |-> <<>>, rest |-> rest], bytes)
         IN  Cuts([lines |-> done, rest |-> rest], bytes) = [lines |-> done \o c.lines, rest |-> c.rest]
<1> DEFINE u == [lines |-> <<>>, rest |-> rest]
           v == [lines |-> done, rest |-> rest]
           T == {z \in Seq(Bytes) : Cuts(v, z) = [lines |-> done \o Cuts(u, z).lines, rest |-> Cuts(u, z).rest]}
<1>1. u \in Splits /\ v \in Splits  BY DEF Splits
<1>2. u.lines = <<>> /\ u.rest = rest /\ v.lines = done /\ v.rest = rest /\ v = [lines |-> done, rest |-> rest]
  OBVIOUS
<1> HIDE DEF u, v
<1>3. <<>> \in T
  <2>1. done \o <<>> = done /\ <<>> \in Seq(Bytes)  OBVIOUS
  <2>2. Cuts(u, <<>>) = u /\ Cuts(v, <<>>) = v  BY <1>1, CutsNothing
  <2> QED  BY <1>2, <2>1, <2>2
<1>4. ASSUME NEW z \in Seq(Bytes), NEW b \in Bytes, z \in T PROVE Append(z, b) \in T
  <2> DEFINE c == Cuts(u, z)
             d == Cuts(v, z)
  <2>1. c \in Splits /\ d \in Splits  BY <1>1, CutsTyped
  <2>2. Cuts(u, Append(z, b)) = Cut(c, b) /\ Cuts(v, Append(z, b)) = Cut(d, b)  BY <1>1, CutsAppend
  <2>3. d = [lines |-> done \o c.lines, rest |-> c.rest]  BY <1>4
  <2> HIDE DEF c, d
  <2>4. c.lines \in Seq(Seq(Bases)) /\ c.rest \in Seq(Bases)  BY <2>1 DEF Splits
  <2>5. Append(z, b) \in Seq(Bytes)  OBVIOUS
  <2>6. d.lines = done \o c.lines /\ d.rest = c.rest  BY <2>3
  <2>7. Cut(d, b) = [lines |-> done \o Cut(c, b).lines, rest |-> Cut(c, b).rest]
    <3>1. CASE b = NL
      <4>1. Cut(c, b) = [lines |-> Append(c.lines, c.rest), rest |-> <<>>]  BY <2>1, <3>1, CutTyped
      <4>2. Cut(d, b) = [lines |-> Append(d.lines, d.rest), rest |-> <<>>]  BY <2>1, <3>1, CutTyped
      <4>3. done \o Append(c.lines, c.rest) = Append(done \o c.lines, c.rest)
        BY <2>4, ConcatAppend
      <4>4. Cut(c, b).lines = Append(c.lines, c.rest) /\ Cut(c, b).rest = <<>>  BY <4>1
      <4>5. Cut(d, b) = [lines |-> Append(done \o c.lines, c.rest), rest |-> <<>>]  BY <2>6, <4>2
      <4> QED  BY <4>3, <4>4, <4>5
    <3>2. CASE b # NL
      <4>1. Cut(c, b) = [lines |-> c.lines, rest |-> Append(c.rest, b)]  BY <2>1, <3>2, CutTyped
      <4>2. Cut(d, b) = [lines |-> d.lines, rest |-> Append(d.rest, b)]  BY <2>1, <3>2, CutTyped
      <4> QED  BY <2>6, <4>1, <4>2
    <3> QED  BY <3>1, <3>2
  <2> QED  BY <2>2, <2>5, <2>7
<1> HIDE DEF T
<1>5. Seq(Bytes) \subseteq T  BY <1>3, <1>4, SeqSetInduction
<1>6. bytes \in T  BY <1>5
<1> QED  BY <1>6 DEF T, u, v

\* Bytes without a newline complete nothing.
LEMMA CutsPlain ==
  ASSUME NEW done \in Seq(Seq(Bases)), NEW rest \in Seq(Bases), NEW bytes \in Seq(Bases)
  PROVE  Cuts([lines |-> done, rest |-> rest], bytes) = [lines |-> done, rest |-> rest \o bytes]
<1> DEFINE v == [lines |-> done, rest |-> rest]
           T == {z \in Seq(Bases) : Cuts(v, z) = [lines |-> done, rest |-> rest \o z]}
<1>1. v \in Splits  BY DEF Splits
<1>2. Seq(Bases) \subseteq Seq(Bytes) /\ \A b \in Bases : b # NL /\ b \in Bytes  BY LimitAssumption DEF Bytes
<1>3. <<>> \in T
  <2>1. rest \o <<>> = rest /\ <<>> \in Seq(Bytes) /\ <<>> \in Seq(Bases)  OBVIOUS
  <2>2. Cuts(v, <<>>) = v  BY <1>1, CutsNothing
  <2> QED  BY <2>1, <2>2
<1>4. ASSUME NEW z \in Seq(Bases), NEW b \in Bases, z \in T PROVE Append(z, b) \in T
  <2> DEFINE d == Cuts(v, z)
  <2>1. d = [lines |-> done, rest |-> rest \o z]  BY <1>4
  <2> HIDE DEF v
  <2>2. d \in Splits /\ Cuts(v, Append(z, b)) = Cut(d, b)  BY <1>1, <1>2, CutsTyped, CutsAppend
  <2> HIDE DEF d
  <2>3. Cut(d, b) = [lines |-> d.lines, rest |-> Append(d.rest, b)]  BY <1>2, <2>2, CutTyped
  <2>4. rest \o Append(z, b) = Append(rest \o z, b) /\ Append(z, b) \in Seq(Bases)  BY ConcatAppend
  <2> QED  BY <2>1, <2>2, <2>3, <2>4
<1> HIDE DEF T
<1>5. Seq(Bases) \subseteq T  BY <1>3, <1>4, SeqSetInduction
<1>6. bytes \in T  BY <1>5
<1> QED  BY <1>6 DEF T, v

\* What is cut from longer bytes has the same records, the first of which, or what is left, is
\* longer.
Longer(more, x, y) ==
  /\ Len(y.lines) = Len(x.lines)
  /\ x.lines = <<>> => y.rest = more \o x.rest
  /\ x.lines # <<>> => y.rest = x.rest /\ y.lines[1] = more \o x.lines[1]
  /\ \A i \in 2..Len(x.lines) : y.lines[i] = x.lines[i]

Line(rest) == [lines |-> <<>>, rest |-> rest]

\* Bytes that were there before only make the first record longer.
LEMMA CutsLonger ==
  ASSUME NEW more \in Seq(Bases), NEW rest \in Seq(Bases), NEW bytes \in Seq(Bytes)
  PROVE  Longer(more, Cuts(Line(rest), bytes), Cuts(Line(more \o rest), bytes))
<1> DEFINE u == Line(rest)
           v == Line(more \o rest)
           T == {z \in Seq(Bytes) : Longer(more, Cuts(u, z), Cuts(v, z))}
<1>1. u \in Splits /\ v \in Splits  BY DEF Splits, Line
<1>2. Longer(more, u, v)  BY DEF Longer, Line
<1> HIDE DEF u, v
<1>3. <<>> \in T
  <2>1. Cuts(u, <<>>) = u /\ Cuts(v, <<>>) = v  BY <1>1, CutsNothing
  <2> QED  BY <1>2, <2>1
<1>4. ASSUME NEW z \in Seq(Bytes), NEW b \in Bytes, z \in T PROVE Append(z, b) \in T
  <2> DEFINE x == Cuts(u, z)
             y == Cuts(v, z)
  <2>1. x \in Splits /\ y \in Splits  BY <1>1, CutsTyped
  <2>2. Cuts(u, Append(z, b)) = Cut(x, b) /\ Cuts(v, Append(z, b)) = Cut(y, b)  BY <1>1, CutsAppend
  <2>3. Longer(more, x, y)  BY <1>4
  <2> HIDE DEF x, y
  <2>4. /\ x.lines \in Seq(Seq(Bases)) /\ x.rest \in Seq(Bases)
        /\ y.lines \in Seq(Seq(Bases)) /\ y.rest \in Seq(Bases)
    BY <2>1 DEF Splits
  <2>7. /\ Len(y.lines) = Len(x.lines)
        /\ x.lines = <<>> => y.rest = more \o x.rest
        /\ x.lines # <<>> => y.rest = x.rest /\ y.lines[1] = more \o x.lines[1]
        /\ \A i \in 2..Len(x.lines) : y.lines[i] = x.lines[i]
    BY <2>3 DEF Longer
  <2>5. Longer(more, Cut(x, b), Cut(y, b))
    <3>1. CASE b = NL
      <4>1. Cut(x, b) = [lines |-> Append(x.lines, x.rest), rest |-> <<>>]  BY <2>1, <3>1, CutTyped
      <4>2. Cut(y, b) = [lines |-> Append(y.lines, y.rest), rest |-> <<>>]  BY <2>1, <3>1, CutTyped
      <4> DEFINE m == Append(x.lines, x.rest)
                 k == Append(y.lines, y.rest)
      <4>3. /\ Len(m) = Len(x.lines) + 1 /\ m[Len(x.lines) + 1] = x.rest /\ \A i \in 1..Len(x.lines) : m[i] = x.lines[i]
            /\ Len(k) = Len(y.lines) + 1 /\ k[Len(y.lines) + 1] = y.rest /\ \A i \in 1..Len(y.lines) : k[i] = y.lines[i]
            /\ Len(x.lines) \in Nat /\ m # <<>>
        BY <2>4, AppendOf
      <4> HIDE DEF m, k
      <4>4. k[1] = more \o m[1]
        <5>1. CASE x.lines = <<>>
          <6>1. Len(x.lines) = 0 /\ y.lines = <<>> /\ Len(y.lines) = 0  BY <2>4, <2>7, <5>1
          <6>2. k[1] = y.rest /\ m[1] = x.rest  BY <4>3, <6>1
          <6> QED  BY <2>7, <5>1, <6>2
        <5>2. CASE x.lines # <<>>
          <6>1. 1 \in 1..Len(x.lines)  BY <2>4, <5>2
          <6> QED  BY <2>7, <4>3, <5>2, <6>1
        <5> QED  BY <5>1, <5>2
      <4>5. ASSUME NEW i \in 2..Len(m) PROVE k[i] = m[i]
        <5>1. CASE i = Len(x.lines) + 1
          <6>1. x.lines # <<>>  BY <2>4, <4>5, <5>1
          <6> QED  BY <2>7, <4>3, <5>1, <6>1
        <5>2. CASE i # Len(x.lines) + 1
          <6>1. i \in 2..Len(x.lines) /\ i \in 1..Len(x.lines)  BY <4>3, <4>5, <5>2
          <6> QED  BY <2>7, <4>3, <6>1
        <5> QED  BY <5>1, <5>2
      <4>6. Len(k) = Len(m)  BY <2>7, <4>3
      <4>7. /\ Cut(x, b).lines = m /\ Cut(x, b).rest = <<>>
            /\ Cut(y, b).lines = k /\ Cut(y, b).rest = <<>>
        BY <4>1, <4>2 DEF m, k
      <4> QED  BY <4>3, <4>4, <4>5, <4>6, <4>7 DEF Longer
    <3>2. CASE b # NL
      <4>1. Cut(x, b) = [lines |-> x.lines, rest |-> Append(x.rest, b)]  BY <2>1, <3>2, CutTyped
      <4>2. Cut(y, b) = [lines |-> y.lines, rest |-> Append(y.rest, b)]  BY <2>1, <3>2, CutTyped
      <4>3. more \o Append(x.rest, b) = Append(more \o x.rest, b)
        <5>1. b \in Bases  BY <2>1, <3>2, CutTyped
        <5> QED  BY <2>4, <5>1, ConcatAppend
      <4>4. /\ Cut(x, b).lines = x.lines /\ Cut(x, b).rest = Append(x.rest, b)
            /\ Cut(y, b).lines = y.lines /\ Cut(y, b).rest = Append(y.rest, b)
        BY <4>1, <4>2
      <4>5. x.lines = <<>> => Append(y.rest, b) = more \o Append(x.rest, b)  BY <2>7, <4>3
      <4> QED  BY <2>7, <4>4, <4>5 DEF Longer
    <3> QED  BY <3>1, <3>2
  <2>6. Append(z, b) \in Seq(Bytes)  OBVIOUS
  <2> QED  BY <2>2, <2>5, <2>6
<1>5. Seq(Bytes) \subseteq T
  <2> HIDE DEF T
  <2> QED  BY <1>3, <1>4, SeqSetInduction
<1>6. bytes \in T  BY <1>5
<1> QED  BY <1>6 DEF T, u, v

-----------------------------------------------------------------------------
(* Ages of records. *)

\* All that is missing in front is older than the window.
Recalls(r, a) ==
  \E k \in 0..Len(a) :
    /\ Len(r) = Len(a) - k
    /\ \A i \in 1..Len(r) : r[i] = a[k + i]
    /\ \A i \in 1..k : a[i] >= Window

\* What is remembered in full is recalled.
LEMMA RecallsItself == ASSUME NEW a \in Seq(Nat) PROVE Recalls(a, a)
<1>1. 0 \in 0..Len(a) /\ Len(a) \in Nat  OBVIOUS
<1>2. \A i \in 1..Len(a) : a[i] = a[0 + i]  BY <1>1
<1> QED  BY <1>1, <1>2 DEF Recalls

\* Forgetting twice from the front is forgetting from the front.
LEMMA RecallsThrough ==
  ASSUME NEW r \in Seq(Nat), NEW a \in Seq(Nat), NEW c \in Seq(Nat), Recalls(r, a), Recalls(a, c)
  PROVE  Recalls(r, c)
<1>1. PICK k \in 0..Len(a) : /\ Len(r) = Len(a) - k
                             /\ \A i \in 1..Len(r) : r[i] = a[k + i]
                             /\ \A i \in 1..k : a[i] >= Window
  BY DEF Recalls
<1>2. PICK m \in 0..Len(c) : /\ Len(a) = Len(c) - m
                             /\ \A i \in 1..Len(a) : a[i] = c[m + i]
                             /\ \A i \in 1..m : c[i] >= Window
  BY DEF Recalls
<1>3. Len(a) \in Nat /\ Len(r) \in Nat /\ Len(c) \in Nat  OBVIOUS
<1>4. m + k \in 0..Len(c) /\ Len(r) = Len(c) - (m + k)  BY <1>1, <1>2, <1>3
<1>5. ASSUME NEW i \in 1..Len(r) PROVE r[i] = c[(m + k) + i]
  <2>1. k + i \in 1..Len(a) /\ m + (k + i) = (m + k) + i  BY <1>1, <1>3
  <2> QED  BY <1>1, <1>2, <2>1
<1>6. ASSUME NEW i \in 1..(m + k) PROVE c[i] >= Window
  <2>1. CASE i <= m  BY <1>2, <2>1
  <2>2. CASE i > m
    <3>1. i - m \in 1..k /\ i - m \in 1..Len(a) /\ m + (i - m) = i  BY <1>1, <1>2, <1>3, <2>2
    <3> QED  BY <1>1, <1>2, <3>1
  <2> QED  BY <1>2, <2>1, <2>2
<1> QED  BY <1>4, <1>5, <1>6 DEF Recalls

\* A new record is recalled with the others.
LEMMA RecallsNew ==
  ASSUME NEW r \in Seq(Nat), NEW a \in Seq(Nat), Recalls(r, a)
  PROVE  Recalls(Append(r, 0), Append(a, 0))
<1> DEFINE q == Append(r, 0)
           b == Append(a, 0)
<1>1. PICK k \in 0..Len(a) : /\ Len(r) = Len(a) - k
                             /\ \A i \in 1..Len(r) : r[i] = a[k + i]
                             /\ \A i \in 1..k : a[i] >= Window
  BY DEF Recalls
<1>2. /\ Len(r) \in Nat /\ Len(q) = Len(r) + 1 /\ q[Len(r) + 1] = 0 /\ \A i \in 1..Len(r) : q[i] = r[i]
      /\ Len(a) \in Nat /\ Len(b) = Len(a) + 1 /\ b[Len(a) + 1] = 0 /\ \A i \in 1..Len(a) : b[i] = a[i]
  BY AppendOf
<1> HIDE DEF q, b
<1>3. k \in 0..Len(b) /\ Len(q) = Len(b) - k  BY <1>1, <1>2
<1>4. ASSUME NEW i \in 1..Len(q) PROVE q[i] = b[k + i]
  <2>1. CASE i = Len(r) + 1
    <3>1. k + i = Len(a) + 1  BY <1>1, <1>2, <2>1
    <3> QED  BY <1>2, <2>1, <3>1
  <2>2. CASE i # Len(r) + 1
    <3>1. i \in 1..Len(r) /\ k + i \in 1..Len(a)  BY <1>1, <1>2, <2>2
    <3> QED  BY <1>1, <1>2, <3>1
  <2> QED  BY <2>1, <2>2
<1>5. ASSUME NEW i \in 1..k PROVE b[i] >= Window
  <2>1. i \in 1..Len(a)  BY <1>1, <1>2
  <2> QED  BY <1>1, <1>2, <2>1
<1> QED  BY <1>3, <1>4, <1>5 DEF Recalls, q, b

\* Aging changes no number of records, and each age.
LEMMA AgedTyped ==
  ASSUME NEW a \in Seq(Nat), NEW t \in Nat
  PROVE  Aged(a, t) \in Seq(Nat) /\ Len(Aged(a, t)) = Len(a)
         /\ \A i \in 1..Len(a) : Aged(a, t)[i] = Least(a[i] + t, Window)
<1>1. Len(a) \in Nat /\ DOMAIN a = 1..Len(a) /\ \A i \in 1..Len(a) : a[i] \in Nat  OBVIOUS
<1>2. Aged(a, t) = [i \in 1..Len(a) |-> Least(a[i] + t, Window)]  BY <1>1 DEF Aged
<1>3. \A i \in 1..Len(a) : Least(a[i] + t, Window) \in Nat  BY <1>1, LimitAssumption DEF Least
<1>4. Aged(a, t) \in [1..Len(a) -> Nat]  BY <1>2, <1>3
<1>5. Aged(a, t) \in Seq(Nat) /\ Len(Aged(a, t)) = Len(a)  BY <1>1, <1>4
<1> QED  BY <1>2, <1>5

\* What was missing because of its age is still too old later.
LEMMA RecallsAged ==
  ASSUME NEW r \in Seq(Nat), NEW a \in Seq(Nat), NEW t \in Nat, Recalls(r, a)
  PROVE  Recalls(Aged(r, t), Aged(a, t))
<1> DEFINE q == Aged(r, t)
           b == Aged(a, t)
<1>1. PICK k \in 0..Len(a) : /\ Len(r) = Len(a) - k
                             /\ \A i \in 1..Len(r) : r[i] = a[k + i]
                             /\ \A i \in 1..k : a[i] >= Window
  BY DEF Recalls
<1>2. /\ Len(r) \in Nat /\ Len(q) = Len(r) /\ \A i \in 1..Len(r) : q[i] = Least(r[i] + t, Window)
      /\ Len(a) \in Nat /\ Len(b) = Len(a) /\ \A i \in 1..Len(a) : b[i] = Least(a[i] + t, Window)
  BY AgedTyped
<1> HIDE DEF q, b
<1>3. ASSUME NEW i \in 1..Len(q) PROVE q[i] = b[k + i]
  <2>1. k + i \in 1..Len(a) /\ i \in 1..Len(r)  BY <1>1, <1>2
  <2>2. q[i] = Least(r[i] + t, Window) /\ b[k + i] = Least(a[k + i] + t, Window) /\ r[i] = a[k + i]
    BY <1>1, <1>2, <2>1
  <2> QED  BY <2>2
<1>4. ASSUME NEW i \in 1..k PROVE b[i] >= Window
  <2>1. i \in 1..Len(a) /\ a[i] \in Nat /\ a[i] >= Window  BY <1>1, <1>2
  <2>2. b[i] = Least(a[i] + t, Window)  BY <1>2, <2>1
  <2> QED  BY <2>1, <2>2, LimitAssumption DEF Least
<1> QED  BY <1>1, <1>2, <1>3, <1>4 DEF Recalls, q, b

\* The limiter forgets from the front, and only what is older than the window.
LEMMA RememberedRecalls ==
  ASSUME NEW a \in Seq(Nat)
  PROVE  Remembered(a) \in Seq(Nat) /\ Recalls(Remembered(a), a)
<1> DEFINE n == Len(a)
           young == {i \in 1..n : a[i] < Window}
<1>1. n \in Nat /\ DOMAIN a = 1..n /\ \A i \in 1..n : a[i] \in Nat  OBVIOUS
<1>2. Remembered(a) = IF young = {} THEN <<>> ELSE SubSeq(a, Min(young), n)  BY <1>1 DEF Remembered
<1>3. CASE young = {}
  <2>1. Remembered(a) = <<>> /\ <<>> \in Seq(Nat) /\ Len(<<>>) = 0  BY <1>2, <1>3
  <2>2. n \in 0..n /\ 0 = n - n  BY <1>1
  <2>3. \A i \in 1..n : a[i] >= Window  BY <1>1, <1>3, LimitAssumption
  <2>4. \A i \in 1..Len(<<>>) : <<>>[i] = a[n + i]  BY <2>1
  <2> HIDE DEF n
  <2> QED  BY <2>1, <2>2, <2>3, <2>4 DEF Recalls, n
<1>4. CASE young # {}
  <2> DEFINE m == Min(young)
             r == SubSeq(a, m, n)
  <2>1. \E x \in young : \A y \in young : x <= y
    <3>1. young \in SUBSET Nat  BY <1>1
    <3> HIDE DEF young
    <3> QED  BY <1>4, <3>1, SmallestOf
  <2>2. m \in young /\ \A y \in young : m <= y
    <3> HIDE DEF young
    <3> QED  BY <2>1 DEF Min
  <2>3. m \in 1..n  BY <2>2
  <2>4. \A i \in 1..(m - 1) : a[i] >= Window
    <3> SUFFICES ASSUME NEW i \in 1..(m - 1), a[i] < Window PROVE FALSE  BY <1>1, <2>3, LimitAssumption
    <3>1. i \in young  BY <2>3
    <3> HIDE DEF young, m
    <3>2. m <= i  BY <2>2, <3>1
    <3> QED  BY <1>1, <2>3, <3>2
  <2>5. Remembered(a) = r  BY <1>2, <1>4
  <2> HIDE DEF m, young
  <2>6. r \in Seq(Nat) /\ Len(r) = n - (m - 1) /\ \A i \in 1..Len(r) : r[i] = a[(m - 1) + i]
    <3>1. r \in Seq(Nat) /\ Len(r) = n - m + 1 /\ \A i \in 1..(n - m + 1) : r[i] = a[m + i - 1]
      BY <1>1, <2>3
    <3>2. n - m + 1 = n - (m - 1) /\ \A i \in 1..(n - m + 1) : m + i - 1 = (m - 1) + i  BY <1>1, <2>3
    <3> HIDE DEF r, n
    <3> QED  BY <3>1, <3>2
  <2>7. m - 1 \in 0..n  BY <1>1, <2>3
  <2> HIDE DEF r
  <2> QED  BY <2>4, <2>5, <2>6, <2>7 DEF Recalls
<1> QED  BY <1>3, <1>4

\* No more are young than are recalled.
LEMMA YoungAreRecalled ==
  ASSUME NEW r \in Seq(Nat), NEW a \in Seq(Nat), Recalls(r, a), Len(r) <= Rate
  PROVE  Cardinality({i \in DOMAIN a : a[i] < Window}) <= Rate
<1> DEFINE young == {i \in DOMAIN a : a[i] < Window}
<1>1. PICK k \in 0..Len(a) : Len(r) = Len(a) - k /\ \A i \in 1..k : a[i] >= Window  BY DEF Recalls
<1>2. Len(a) \in Nat /\ DOMAIN a = 1..Len(a) /\ \A i \in 1..Len(a) : a[i] \in Nat  OBVIOUS
<1>3. young \subseteq (k + 1)..Len(a)
  <2> SUFFICES ASSUME NEW i \in young, i <= k PROVE FALSE  BY <1>1, <1>2
  <2>1. i \in 1..k /\ a[i] \in Nat /\ a[i] < Window  BY <1>1, <1>2
  <2> QED  BY <1>1, <2>1, LimitAssumption
<1>4. IsFiniteSet((k + 1)..Len(a)) /\ Cardinality((k + 1)..Len(a)) = Len(a) - k
  <2>1. k + 1 \in Int /\ Len(a) \in Int  BY <1>1, <1>2
  <2>2. /\ IsFiniteSet((k + 1)..Len(a))
        /\ Cardinality((k + 1)..Len(a)) = IF k + 1 > Len(a) THEN 0 ELSE Len(a) - (k + 1) + 1
    BY <2>1, FS_Interval
  <2> QED  BY <1>1, <1>2, <2>2
<1> HIDE DEF young
<1>5. Cardinality(young) <= Len(a) - k /\ Cardinality(young) \in Nat
  BY <1>3, <1>4, FS_Subset, FS_CardinalityType
<1>6. Cardinality(young) <= Rate  BY <1>1, <1>2, <1>5, LimitAssumption
<1> QED  BY <1>6 DEF young

-----------------------------------------------------------------------------
(* Handling records. *)

Whys == {"oversize", "rate", "error", "done"}

Loops == [dropping : BOOLEAN, recent : Seq(Nat), accepted : Seq(Nat), answers : Seq(Whys),
          base : Bases, asked : BOOLEAN]

\* What becomes of a record: it is too long, or too many came before, or it is executed.
Refused(s, line, h) ==
  /\ h.base = s.base /\ h.asked = s.asked /\ h.accepted = s.accepted
  /\ \/ /\ s.dropping \/ Len(line) > Limit
        /\ h.answers = Append(s.answers, "oversize") /\ h.recent = s.recent
     \/ /\ ~s.dropping /\ Len(line) <= Limit
        /\ Len(Remembered(s.recent)) >= Rate
        /\ h.answers = Append(s.answers, "rate") /\ h.recent = Remembered(s.recent)

Executed(s, line, h) ==
  /\ ~s.dropping /\ Len(line) <= Limit
  /\ Len(Remembered(s.recent)) < Rate
  /\ h.recent = Append(Remembered(s.recent), 0) /\ h.accepted = Append(s.accepted, 0)
  /\ \/ h.answers = Append(s.answers, "error") /\ h.base = s.base /\ h.asked = s.asked
     \/ Len(line) = 1 /\ h.answers = Append(s.answers, "done") /\ h.base = line[1] /\ h.asked

\* A record is refused or executed, and the one after it is read from its start.
LEMMA Handled ==
  ASSUME NEW s \in Loops, NEW line \in Seq(Bases), NEW h, h = Handle(s, line)
  PROVE  h \in Loops /\ ~h.dropping /\ (Refused(s, line, h) \/ Executed(s, line, h))
<1> DEFINE r == Remembered(s.recent)
<1>1. /\ s = [dropping |-> s.dropping, recent |-> s.recent, accepted |-> s.accepted, answers |-> s.answers,
              base |-> s.base, asked |-> s.asked]
      /\ s.dropping \in BOOLEAN /\ s.recent \in Seq(Nat) /\ s.accepted \in Seq(Nat)
      /\ s.answers \in Seq(Whys) /\ s.base \in Bases /\ s.asked \in BOOLEAN
  BY DEF Loops
<1>2. r \in Seq(Nat) /\ Len(r) \in Nat /\ Len(line) \in Nat  BY <1>1, RememberedRecalls
<1>3. \A why \in Whys : Append(s.answers, why) \in Seq(Whys)  BY <1>1, AppendProperties
<1>4. Append(r, 0) \in Seq(Nat) /\ Append(s.accepted, 0) \in Seq(Nat)  BY <1>1, <1>2, AppendProperties
<1> HIDE DEF r
<1>5. CASE s.dropping \/ Len(line) > Limit
  <2>1. h = [dropping |-> FALSE, recent |-> s.recent, accepted |-> s.accepted,
             answers |-> Append(s.answers, "oversize"), base |-> s.base, asked |-> s.asked]
    <3>1. h = [[s EXCEPT !.answers = Append(@, "oversize")] EXCEPT !.dropping = FALSE]  BY <1>5 DEF Handle
    <3> QED  BY <1>1, <3>1
  <2>2. "oversize" \in Whys  BY DEF Whys
  <2>3. h \in Loops  BY <1>1, <1>3, <2>1, <2>2 DEF Loops
  <2> QED  BY <1>5, <2>1, <2>3 DEF Refused
<1>6. CASE ~(s.dropping \/ Len(line) > Limit) /\ Len(r) >= Rate
  <2>1. h = [dropping |-> s.dropping, recent |-> r, accepted |-> s.accepted,
             answers |-> Append(s.answers, "rate"), base |-> s.base, asked |-> s.asked]
    <3>1. h = [[s EXCEPT !.answers = Append(@, "rate")] EXCEPT !.recent = r]  BY <1>6 DEF Handle, r
    <3> QED  BY <1>1, <3>1
  <2>2. "rate" \in Whys  BY DEF Whys
  <2>3. h \in Loops  BY <1>1, <1>2, <1>3, <2>1, <2>2 DEF Loops
  <2> QED  BY <1>2, <1>6, <2>1, <2>3, LimitAssumption DEF r, Refused
<1>7. CASE ~(s.dropping \/ Len(line) > Limit) /\ ~(Len(r) >= Rate) /\ Len(line) # 1
  <2>1. h = [dropping |-> s.dropping, recent |-> Append(r, 0), accepted |-> Append(s.accepted, 0),
             answers |-> Append(s.answers, "error"), base |-> s.base, asked |-> s.asked]
    <3>1. h = [[[s EXCEPT !.answers = Append(@, "error")] EXCEPT !.recent = Append(r, 0)]
                 EXCEPT !.accepted = Append(@, 0)]
      BY <1>7 DEF Handle, r
    <3> QED  BY <1>1, <3>1
  <2>2. "error" \in Whys  BY DEF Whys
  <2>3. h \in Loops  BY <1>1, <1>3, <1>4, <2>1, <2>2 DEF Loops
  <2>4. /\ ~h.dropping /\ h.recent = Append(r, 0) /\ h.accepted = Append(s.accepted, 0)
        /\ h.answers = Append(s.answers, "error") /\ h.base = s.base /\ h.asked = s.asked
    BY <1>7, <2>1
  <2>5. ~s.dropping /\ Len(line) <= Limit /\ Len(r) < Rate  BY <1>2, <1>7, LimitAssumption
  <2> QED  BY <2>3, <2>4, <2>5 DEF r, Executed
<1>8. CASE ~(s.dropping \/ Len(line) > Limit) /\ ~(Len(r) >= Rate) /\ ~(Len(line) # 1)
  <2>1. h = [dropping |-> s.dropping, recent |-> Append(r, 0), accepted |-> Append(s.accepted, 0),
             answers |-> Append(s.answers, "done"), base |-> line[1], asked |-> TRUE]
    <3>1. h = [[[[[s EXCEPT !.recent = Append(r, 0)] EXCEPT !.accepted = Append(@, 0)]
                   EXCEPT !.answers = Append(@, "done")] EXCEPT !.base = line[1]] EXCEPT !.asked = TRUE]
      BY <1>8 DEF Handle, r
    <3> QED  BY <1>1, <3>1
  <2>2. "done" \in Whys  BY DEF Whys
  <2>3. line[1] \in Bases
    <3>1. Len(line) = 1  BY <1>8
    <3> QED  BY <3>1
  <2>4. h \in Loops  BY <1>1, <1>3, <1>4, <2>1, <2>2, <2>3 DEF Loops
  <2>5. /\ ~h.dropping /\ h.recent = Append(r, 0) /\ h.accepted = Append(s.accepted, 0)
        /\ h.answers = Append(s.answers, "done") /\ h.base = line[1] /\ h.asked
    BY <1>8, <2>1
  <2>6. ~s.dropping /\ Len(line) <= Limit /\ Len(r) < Rate /\ Len(line) = 1  BY <1>2, <1>8, LimitAssumption
  <2> QED  BY <2>4, <2>5, <2>6 DEF r, Executed
<1> QED  BY <1>5, <1>6, <1>7, <1>8

HandledBy(f, s, lines, end) ==
  /\ f[0] = s /\ f[Len(lines)] = end
  /\ \A i \in 1..Len(lines) : f[i] = Handle(f[i - 1], lines[i])

\* Records are handled one after the other.
LEMMA HandledRun ==
  ASSUME NEW S, S \subseteq Loops, \A t \in S, e \in Seq(Bases) : Handle(t, e) \in S,
         NEW s \in S, NEW lines \in Seq(Seq(Bases))
  PROVE  \E f \in [0..Len(lines) -> S] : HandledBy(f, s, lines, FoldLeft(Handle, s, lines))
<1> DEFINE n == Len(lines)
           step == [u \in S \X (1..n) |-> Handle(u[1], lines[u[2]])]
           Fold(g) == g = [t \in SUBSET (DOMAIN lines) |->
                             IF t = {} THEN s ELSE Handle(g[t \ {Max(t)}], lines[Max(t)])]
           iter == CHOOSE g : Fold(g)
<1>1. n \in Nat /\ DOMAIN lines = 1..n /\ \A i \in 1..n : lines[i] \in Seq(Bases)  OBVIOUS
<1>2. step \in [S \X (1..n) -> S]
  <2> SUFFICES ASSUME NEW u \in S \X (1..n) PROVE Handle(u[1], lines[u[2]]) \in S  OBVIOUS
  <2> HIDE DEF n
  <2> QED  BY <1>1
<1>3. PICK g \in [SUBSET (1..n) -> S] : Folding(g, n, s, step)
  <2> HIDE DEF n, step
  <2> QED  BY <1>1, <1>2, FoldExists
<1> HIDE DEF n
<1>4. ASSUME NEW k \in S, NEW i \in 1..n PROVE step[<<k, i>>] = Handle(k, lines[i])  OBVIOUS
<1>5. \A t \in SUBSET (1..n) : t # {} => Max(t) \in 1..n  BY <1>1, MaxTyped
<1> HIDE DEF step
<1>6. Fold(g)
  <2>1. ASSUME NEW t \in SUBSET (1..n), t # {} PROVE g[t] = Handle(g[t \ {Max(t)}], lines[Max(t)])
    BY <1>3, <1>4, <1>5, <2>1 DEF Folding
  <2> QED  BY <1>1, <1>3, <2>1 DEF Folding
<1>7. Fold(iter)  BY <1>6
<1>8. FoldLeft(Handle, s, lines) = iter[1..n]  BY <1>1 DEF FoldLeft, MapThenFoldSet
<1> HIDE DEF iter
<1>9. Unfolds(iter, n, S, s, step)  BY <1>1, <1>4, <1>5, <1>7 DEF Unfolds
<1>10. PICK f \in [0..n -> S] : RunOf(f, n, s, step, iter[1..n])  BY <1>1, <1>2, <1>9, FoldRuns
<1>11. ASSUME NEW i \in 1..n PROVE f[i] = Handle(f[i - 1], lines[i])
  <2>1. i - 1 \in 0..n  BY <1>1
  <2> QED  BY <1>4, <1>10, <2>1 DEF RunOf
<1> QED  BY <1>8, <1>10, <1>11 DEF n, RunOf, HandledBy

\* What the limiter remembers is within the rate, and is what the engine got in the window.
Limited(r, a) == Len(r) <= Rate /\ Recalls(r, a)

\* A record leaves the limiter within the rate, and the configuration that a sample is asked for.
LEMMA HandledLimits ==
  ASSUME NEW s \in Loops, Limited(s.recent, s.accepted), NEW line \in Seq(Bases), NEW h, h = Handle(s, line)
  PROVE  Limited(h.recent, h.accepted) /\ (~h.asked => ~s.asked /\ h.base = s.base)
<1> DEFINE r == Remembered(s.recent)
<1>1. s.recent \in Seq(Nat) /\ s.accepted \in Seq(Nat)  BY DEF Loops
<1>2. r \in Seq(Nat) /\ Recalls(r, s.recent)  BY <1>1, RememberedRecalls
<1>3. Recalls(r, s.accepted)  BY <1>1, <1>2, RecallsThrough DEF Limited
<1>4. Recalls(Append(r, 0), Append(s.accepted, 0))  BY <1>1, <1>2, <1>3, RecallsNew
<1>5. Len(r) <= Len(s.recent) /\ Len(r) \in Nat /\ Len(s.recent) \in Nat
  <2>1. PICK k \in 0..Len(s.recent) : Len(r) = Len(s.recent) - k  BY <1>2 DEF Recalls
  <2> QED  BY <1>1, <2>1
<1>6. Len(Append(r, 0)) = Len(r) + 1  BY <1>2, AppendOf
<1>7. Len(r) <= Rate  BY <1>5, LimitAssumption DEF Limited
<1> HIDE DEF r
<1>8. Len(r) < Rate => Len(Append(r, 0)) <= Rate  BY <1>5, <1>6, LimitAssumption
<1>9. \/ h.recent = s.recent /\ h.accepted = s.accepted
      \/ h.recent = r /\ h.accepted = s.accepted
      \/ Len(r) < Rate /\ h.recent = Append(r, 0) /\ h.accepted = Append(s.accepted, 0)
  BY Handled DEF r, Refused, Executed
<1>10. ~h.asked => ~s.asked /\ h.base = s.base  BY Handled DEF Refused, Executed
<1>11. Limited(h.recent, h.accepted)  BY <1>3, <1>4, <1>7, <1>8, <1>9 DEF Limited
<1> QED  BY <1>10, <1>11

\* The answers to the records so far: the part of FramingExact about them.
Answered(a, b) ==
  /\ Len(a) <= Len(sent)
  /\ \A i \in DOMAIN a :
       /\ a[i] = "oversize" <=> Len(sent[i]) > Limit
       /\ a[i] = "done" => Len(sent[i]) = 1
       /\ a[i] = "done" /\ (\A j \in DOMAIN a : j > i => a[j] # "done") => b = sent[i][1]

\* One more answer, to the next record, is as it should be: the helper drops it only when the
\* record is too long, and otherwise has seen all of it.
LEMMA HandledAnswers ==
  ASSUME sent \in Seq(Seq(Bases)), NEW s \in Loops, Answered(s.answers, s.base), NEW line \in Seq(Bases),
         Len(s.answers) < Len(sent), NEW record, record = sent[Len(s.answers) + 1],
         s.dropping => Len(record) > Limit, ~s.dropping => line = record, NEW h, h = Handle(s, line)
  PROVE  Answered(h.answers, h.base) /\ Len(h.answers) = Len(s.answers) + 1 /\ h \in Loops /\ ~h.dropping
<1> DEFINE a == s.answers
           n == Len(a)
           c == h.answers
<1>1. a \in Seq(Whys) /\ n \in Nat /\ DOMAIN a = 1..n /\ Len(sent) \in Nat /\ s.base \in Bases  BY DEF Loops
<1>2. h \in Loops /\ ~h.dropping  BY Handled
<1> DEFINE Is(why) == /\ c = Append(a, why)
                      /\ why = "oversize" <=> Len(record) > Limit
                      /\ why = "done" => Len(record) = 1 /\ h.base = record[1]
                      /\ why # "done" => h.base = s.base
<1>3. \E why \in Whys : Is(why)
  <2>1. Len(record) \in Nat /\ Len(line) \in Nat
    <3>1. n + 1 \in 1..Len(sent)  BY <1>1
    <3> QED  BY <3>1
  <2>2. CASE c = Append(a, "oversize") /\ h.base = s.base /\ (s.dropping \/ Len(line) > Limit)
    <3>1. Is("oversize")  BY <2>2
    <3> QED  BY <3>1 DEF Whys
  <2>3. CASE c = Append(a, "rate") /\ h.base = s.base /\ ~s.dropping /\ Len(line) <= Limit
    <3>1. Is("rate")  BY <2>1, <2>3, LimitAssumption
    <3> QED  BY <3>1 DEF Whys
  <2>4. CASE c = Append(a, "error") /\ h.base = s.base /\ ~s.dropping /\ Len(line) <= Limit
    <3>1. Is("error")  BY <2>1, <2>4, LimitAssumption
    <3> QED  BY <3>1 DEF Whys
  <2>5. CASE c = Append(a, "done") /\ h.base = line[1] /\ Len(line) = 1 /\ ~s.dropping /\ Len(line) <= Limit
    <3>1. line = record  BY <2>5
    <3>2. Len(record) = 1 /\ h.base = record[1]  BY <2>5, <3>1
    <3>3. Is("done")  BY <2>5, <3>1, <3>2, LimitAssumption
    <3> QED  BY <3>3 DEF Whys
  <2>6. \/ c = Append(a, "oversize") /\ h.base = s.base /\ (s.dropping \/ Len(line) > Limit)
        \/ c = Append(a, "rate") /\ h.base = s.base /\ ~s.dropping /\ Len(line) <= Limit
        \/ c = Append(a, "error") /\ h.base = s.base /\ ~s.dropping /\ Len(line) <= Limit
        \/ c = Append(a, "done") /\ h.base = line[1] /\ Len(line) = 1 /\ ~s.dropping /\ Len(line) <= Limit
    <3>1. Refused(s, line, h) \/ Executed(s, line, h)  BY Handled
    <3> HIDE DEF Is
    <3> QED  BY <3>1 DEF Refused, Executed
  <2> HIDE DEF Is, c, a
  <2> QED  BY <2>2, <2>3, <2>4, <2>5, <2>6
<1>9. PICK why \in Whys : Is(why)  BY <1>3
<1>4. Len(c) = n + 1 /\ c[n + 1] = why /\ \A i \in 1..n : c[i] = a[i]  BY <1>1, <1>9, AppendOf
<1>5. DOMAIN c = 1..(n + 1)  BY <1>2, <1>4 DEF Loops
<1>6. /\ Len(a) <= Len(sent)
      /\ \A i \in 1..n :
           /\ a[i] = "oversize" <=> Len(sent[i]) > Limit
           /\ a[i] = "done" => Len(sent[i]) = 1
           /\ a[i] = "done" /\ (\A j \in 1..n : j > i => a[j] # "done") => s.base = sent[i][1]
  BY <1>1 DEF Answered
<1> HIDE DEF c
<1>7. ASSUME NEW i \in 1..(n + 1)
      PROVE  /\ c[i] = "oversize" <=> Len(sent[i]) > Limit
             /\ c[i] = "done" => Len(sent[i]) = 1
             /\ c[i] = "done" /\ (\A j \in 1..(n + 1) : j > i => c[j] # "done") => h.base = sent[i][1]
  <2>1. CASE i = n + 1  BY <1>9, <1>4, <2>1
  <2>2. CASE i # n + 1
    <3> HIDE DEF n
    <3>1. i \in 1..n /\ c[i] = a[i] /\ n + 1 > i /\ n + 1 \in 1..(n + 1)  BY <1>1, <1>4, <2>2
    <3>2. ASSUME c[i] = "done", \A j \in 1..(n + 1) : j > i => c[j] # "done" PROVE h.base = sent[i][1]
      <4>1. why # "done"  BY <1>4, <3>1, <3>2
      <4>2. \A j \in 1..n : j > i => a[j] # "done"
        <5> SUFFICES ASSUME NEW j \in 1..n, j > i PROVE a[j] # "done"  OBVIOUS
        <5>1. j \in 1..(n + 1) /\ c[j] = a[j]  BY <1>1, <1>4
        <5> QED  BY <3>2, <5>1
      <4> QED  BY <1>9, <1>6, <3>1, <3>2, <4>1, <4>2
    <3> QED  BY <1>6, <3>1, <3>2
  <2> QED  BY <2>1, <2>2
<1>8. n + 1 <= Len(sent)  BY <1>1
<1> QED  BY <1>2, <1>4, <1>5, <1>7, <1>8 DEF Answered, c

-----------------------------------------------------------------------------
(* Framing: what the helper holds and what is in the pipe are the records not yet answered. *)

\* `more' is what was dropped of the unfinished record whose last bytes are in buf.
FramedBy(more, buf, drop, bytes, a) ==
  /\ more \in Seq(Bases)
  /\ Cuts(Line(more \o buf), bytes).rest = <<>>
  /\ Len(Cuts(Line(more \o buf), bytes).lines) = Len(sent) - Len(a)
  /\ \A i \in 1..(Len(sent) - Len(a)) : Cuts(Line(more \o buf), bytes).lines[i] = sent[Len(a) + i]
  /\ drop => Len(more \o buf) > Limit
  /\ ~drop => more = <<>> /\ Len(buf) <= Limit

Framed(buf, drop, bytes, a) == \E more \in Seq(Bases) : FramedBy(more, buf, drop, bytes, a)

LoopOK ==
  /\ sent \in Seq(Seq(Bases)) /\ wire \in Seq(Bytes)
  /\ buffer \in Seq(Bases) /\ dropping \in BOOLEAN
  /\ recent \in Seq(Nat) /\ accepted \in Seq(Nat)
  /\ answers \in Seq(Whys) /\ base \in Bases

FrameInv == LoopOK /\ Answered(answers, base) /\ Framed(buffer, dropping, wire, answers) /\ Limited(recent, accepted)

\* What is cut from bytes that begin with a part of a record has at least that part in its first
\* record, or in what is left.
LEMMA CutsHold ==
  ASSUME NEW p \in Seq(Bases), NEW bytes \in Seq(Bytes), NEW d, d = Cuts(Line(p), bytes)
  PROVE  /\ d \in Splits
         /\ d.lines = <<>> => Len(d.rest) >= Len(p)
         /\ d.lines # <<>> => Len(d.lines[1]) >= Len(p)
<1> DEFINE x == Cuts(Line(<<>>), bytes)
<1>1. <<>> \in Seq(Bases) /\ p \o <<>> = p /\ Len(p) \in Nat  OBVIOUS
<1>2. \A r \in Seq(Bases) : Line(r) \in Splits  BY DEF Line, Splits
<1>3. d \in Splits /\ x \in Splits  BY <1>1, <1>2, CutsTyped
<1>4. Longer(p, x, d)
  <2>1. Longer(p, x, Cuts(Line(p \o <<>>), bytes))  BY <1>1, CutsLonger
  <2> QED  BY <1>1, <2>1
<1> HIDE DEF x
<1>5. d.lines \in Seq(Seq(Bases)) /\ x.lines \in Seq(Seq(Bases)) /\ x.rest \in Seq(Bases)  BY <1>3 DEF Splits
<1>6. ASSUME d.lines = <<>> PROVE Len(d.rest) >= Len(p)
  <2>1. x.lines = <<>>  BY <1>4, <1>5, <1>6 DEF Longer
  <2>2. d.rest = p \o x.rest  BY <1>4, <2>1 DEF Longer
  <2>3. Len(d.rest) = Len(p) + Len(x.rest) /\ Len(x.rest) \in Nat  BY <1>5, <2>2
  <2> QED  BY <1>1, <2>3
<1>7. ASSUME d.lines # <<>> PROVE Len(d.lines[1]) >= Len(p)
  <2>1. x.lines # <<>>  BY <1>4, <1>5, <1>7 DEF Longer
  <2>2. d.lines[1] = p \o x.lines[1]  BY <1>4, <2>1 DEF Longer
  <2>3. x.lines[1] \in Seq(Bases)  BY <1>5, <2>1
  <2> DEFINE y == x.lines[1]
  <2> HIDE DEF y
  <2>4. y \in Seq(Bases) /\ d.lines[1] = p \o y  BY <2>2, <2>3 DEF y
  <2>5. Len(p \o y) = Len(p) + Len(y) /\ Len(y) \in Nat  BY <2>4
  <2> QED  BY <1>1, <2>4, <2>5
<1> QED  BY <1>3, <1>6, <1>7

Later(whole, d, e) ==
  d \in Splits /\ e \in Splits /\ whole = [lines |-> d.lines \o e.lines, rest |-> e.rest]

\* What is cut later is what would be cut from all.
LEMMA CutsLater ==
  ASSUME NEW p \in Seq(Bases), NEW bytes \in Seq(Bytes), NEW after \in Seq(Bytes),
         NEW d, d = Cuts(Line(p), bytes), NEW e, e = Cuts(Line(d.rest), after)
  PROVE  Later(Cuts(Line(p), bytes \o after), d, e)
<1>1. \A r \in Seq(Bases) : Line(r) \in Splits  BY DEF Line, Splits
<1>2. d \in Splits  BY <1>1, CutsTyped
<1>3. d = [lines |-> d.lines, rest |-> d.rest] /\ d.lines \in Seq(Seq(Bases)) /\ d.rest \in Seq(Bases)
  BY <1>2 DEF Splits
<1>4. e \in Splits  BY <1>1, <1>3, CutsTyped
<1>5. Cuts(Line(p), bytes \o after) = Cuts(d, after)  BY <1>1, CutsConcat
<1>6. Cuts([lines |-> d.lines, rest |-> d.rest], after) = [lines |-> d.lines \o e.lines, rest |-> e.rest]
  BY <1>3, CutsFrom DEF Line
<1> QED  BY <1>2, <1>3, <1>4, <1>5, <1>6 DEF Later

\* What the loop cuts is what is cut after the bytes it held.
LEMMA SplitIs ==
  ASSUME NEW buf \in Seq(Bases), NEW bytes \in Seq(Bytes)
  PROVE  Split(buf \o bytes) = Cuts(Line(buf), bytes)
<1>1. Seq(Bases) \subseteq Seq(Bytes)  BY SeqMonotonic DEF Bytes
<1>2. buf \in Seq(Bytes) /\ Unread \in Splits  BY <1>1 DEF Unread, Splits
<1>3. Split(buf \o bytes) = Cuts(Unread, buf \o bytes)  BY DEF Split, Cuts
<1>4. Split(buf \o bytes) = Cuts(Cuts(Unread, buf), bytes)  BY <1>2, <1>3, CutsConcat
<1>5. <<>> \in Seq(Seq(Bases)) /\ <<>> \in Seq(Bases) /\ <<>> \o buf = buf  OBVIOUS
<1>6. Cuts([lines |-> <<>>, rest |-> <<>>], buf) = [lines |-> <<>>, rest |-> <<>> \o buf]  BY <1>5, CutsPlain
<1> QED  BY <1>4, <1>5, <1>6 DEF Unread, Line

\* Cut at the chunk's end, the records are the same: l are complete, the others are cut later.
ChunkOK(l, d, e) ==
  /\ l \in Nat /\ Len(answers) + l <= Len(sent)
  /\ \A i \in 1..l : d.lines[i] = sent[Len(answers) + i]
  /\ e.rest = <<>>
  /\ Len(e.lines) = Len(sent) - (Len(answers) + l)
  /\ \A i \in 1..(Len(sent) - (Len(answers) + l)) : e.lines[i] = sent[(Len(answers) + l) + i]

\* The records in the pipe, after a chunk, are those that were there but the completed ones.
LEMMA ChunkCut ==
  ASSUME LoopOK, NEW more, FramedBy(more, buffer, dropping, wire, answers),
         NEW chunk \in Seq(Bytes), NEW after \in Seq(Bytes), wire = chunk \o after,
         NEW d, d = Cuts(Line(more \o buffer), chunk), NEW l, l = Len(d.lines)
  PROVE  ChunkOK(l, d, Cuts(Line(d.rest), after))
<1> DEFINE p == more \o buffer
           e == Cuts(Line(d.rest), after)
           w == Cuts(Line(p), wire)
           a == Len(answers)
           m == Len(e.lines)
<1>1. p \in Seq(Bases) /\ Len(sent) \in Nat /\ a \in Nat  BY DEF LoopOK, FramedBy
<1>2. /\ w.rest = <<>>
      /\ Len(w.lines) = Len(sent) - a
      /\ \A i \in 1..(Len(sent) - a) : w.lines[i] = sent[a + i]
  BY DEF FramedBy
<1>3. d \in Splits /\ e \in Splits /\ w = [lines |-> d.lines \o e.lines, rest |-> e.rest]
  <2>1. d = Cuts(Line(p), chunk) /\ w = Cuts(Line(p), chunk \o after)  OBVIOUS
  <2>2. e = Cuts(Line(d.rest), after)  OBVIOUS
  <2> HIDE DEF p, e, w
  <2>3. Later(Cuts(Line(p), chunk \o after), d, e)  BY <1>1, <2>1, <2>2, CutsLater
  <2> QED  BY <2>1, <2>3 DEF Later
<1> HIDE DEF e, w, p, a
<1>4. w.rest = e.rest /\ w.lines = d.lines \o e.lines  BY <1>3
<1>5. d.lines \in Seq(Seq(Bases)) /\ e.lines \in Seq(Seq(Bases)) /\ l \in Nat /\ m \in Nat  BY <1>3 DEF Splits
<1>13. Joins(d.lines, e.lines, d.lines \o e.lines)  BY <1>5, ConcatOf
<1>6. Len(d.lines \o e.lines) = l + m  BY <1>13 DEF Joins
<1>7. \A i \in 1..l : (d.lines \o e.lines)[i] = d.lines[i]  BY <1>13 DEF Joins
<1>8. \A i \in 1..m : (d.lines \o e.lines)[l + i] = e.lines[i]  BY <1>13 DEF Joins
<1> HIDE DEF m
<1>9. l + m = Len(sent) - a  BY <1>2, <1>4, <1>6
<1>10. m = Len(sent) - (a + l) /\ a + l <= Len(sent)  BY <1>1, <1>5, <1>9
<1>11. ASSUME NEW i \in 1..l PROVE d.lines[i] = sent[a + i]
  <2>1. i \in 1..(Len(sent) - a)  BY <1>1, <1>5, <1>9
  <2> QED  BY <1>2, <1>4, <1>7, <2>1
<1>12. ASSUME NEW i \in 1..m PROVE e.lines[i] = sent[(a + l) + i]
  <2>1. l + i \in 1..(Len(sent) - a) /\ a + (l + i) = (a + l) + i  BY <1>1, <1>5, <1>9
  <2> QED  BY <1>2, <1>4, <1>8, <2>1
<1> QED  BY <1>2, <1>4, <1>5, <1>10, <1>11, <1>12 DEF e, m, a, ChunkOK

-----------------------------------------------------------------------------
(* What a pass takes from the pipe. *)

\* The loop's state after i records of a chunk.
HandledOK(s, i) ==
  /\ Answered(s.answers, s.base) /\ Len(s.answers) = Len(answers) + i
  /\ IF i = 0 THEN s.dropping = dropping ELSE ~s.dropping
  /\ Limited(s.recent, s.accepted)
  /\ ~s.asked => s.base = base

Start == [dropping |-> dropping, recent |-> recent, accepted |-> accepted,
          answers |-> answers, base |-> base, asked |-> FALSE]

\* Before its first record, a chunk has answered nothing.
LEMMA StartHandled ==
  ASSUME FrameInv PROVE Start \in Loops /\ HandledOK(Start, 0)
<1>1. Start \in Loops  BY DEF FrameInv, LoopOK, Start, Loops
<1>2. /\ Start.dropping = dropping /\ Start.recent = recent /\ Start.accepted = accepted
      /\ Start.answers = answers /\ Start.base = base /\ Len(answers) = Len(answers) + 0
  BY DEF FrameInv, LoopOK, Start
<1> QED  BY <1>1, <1>2 DEF HandledOK, FrameInv

\* The records of a chunk get the answers they should: of the first one, the helper may have
\* dropped the beginning, and then it is too long.
LEMMA RecordsHandled ==
  ASSUME FrameInv, NEW more, FramedBy(more, buffer, dropping, wire, answers),
         NEW chunk \in Seq(Bytes), NEW after \in Seq(Bytes), wire = chunk \o after,
         NEW c, c = Cuts(Line(buffer), chunk),
         NEW d, d = Cuts(Line(more \o buffer), chunk),
         NEW end, end = FoldLeft(Handle, Start, c.lines)
  PROVE  end \in Loops /\ HandledOK(end, Len(c.lines))
<1> DEFINE l == Len(c.lines)
<1>1. /\ LoopOK /\ sent \in Seq(Seq(Bases)) /\ buffer \in Seq(Bases) /\ more \in Seq(Bases)
      /\ more \o buffer \in Seq(Bases) /\ Len(answers) \in Nat
  BY DEF FrameInv, LoopOK, FramedBy
<1>2. c \in Splits /\ d \in Splits  BY <1>1, CutsHold
<1>3. c.lines \in Seq(Seq(Bases)) /\ l \in Nat /\ d.lines \in Seq(Seq(Bases))  BY <1>2 DEF Splits
<1>4. Longer(more, c, d)  BY <1>1, CutsLonger
<1>5. Len(d.lines) = l  BY <1>4 DEF Longer
<1>6. Len(answers) + l <= Len(sent) /\ \A i \in 1..l : d.lines[i] = sent[Len(answers) + i]
  <2>1. ChunkOK(l, d, Cuts(Line(d.rest), after))
    <3> HIDE DEF l
    <3> QED  BY <1>1, <1>5, ChunkCut
  <2> QED  BY <2>1 DEF ChunkOK
<1>7. \A t \in Loops, e \in Seq(Bases) : Handle(t, e) \in Loops  BY Handled
<1>8. PICK f \in [0..l -> Loops] :
           f[0] = Start /\ f[l] = end /\ \A i \in 1..l : f[i] = Handle(f[i - 1], c.lines[i])
  <2>1. \E f \in [0..Len(c.lines) -> Loops] : HandledBy(f, Start, c.lines, FoldLeft(Handle, Start, c.lines))
    BY <1>3, <1>7, StartHandled, HandledRun
  <2> QED  BY <2>1 DEF HandledBy
<1> HIDE DEF l
<1> DEFINE T == {i \in 0..l : HandledOK(f[i], i)}
<1>9. \A i : i \in T <=> i \in 0..l /\ HandledOK(f[i], i)  OBVIOUS
<1> HIDE DEF T
<1>10. 0 \in T
  <2>1. 0 \in 0..l  BY <1>3
  <2> QED  BY <1>8, <1>9, <2>1, StartHandled
<1>11. ASSUME NEW i \in 1..l, i - 1 \in T PROVE i \in T
  <2> DEFINE s == f[i - 1]
             h == f[i]
             line == c.lines[i]
             record == sent[Len(s.answers) + 1]
  <2>1. i \in 0..l /\ i - 1 \in 0..l /\ s \in Loops /\ h = Handle(s, line) /\ HandledOK(s, i - 1)
    BY <1>3, <1>8, <1>9, <1>11
  <2>2. line \in Seq(Bases)
    <3>1. i \in 1..Len(c.lines)  BY DEF l
    <3> QED  BY <1>3, <3>1
  <2>3. Len(s.answers) = Len(answers) + (i - 1)  BY <2>1 DEF HandledOK
  <2>4. Len(s.answers) + 1 = Len(answers) + i /\ Len(s.answers) < Len(sent)
    BY <1>1, <1>3, <1>6, <2>3
  <2>5. record = d.lines[i]  BY <1>6, <2>4
  <2>6. s.dropping => Len(record) > Limit
    <3>1. SUFFICES ASSUME s.dropping PROVE Len(record) > Limit  OBVIOUS
    <3>2. i = 1 /\ dropping
      <4>1. IF i - 1 = 0 THEN s.dropping = dropping ELSE ~s.dropping  BY <2>1 DEF HandledOK
      <4>2. i - 1 = 0  BY <3>1, <4>1
      <4>3. s.dropping = dropping  BY <4>1, <4>2
      <4> HIDE DEF s
      <4> QED  BY <1>3, <3>1, <4>2, <4>3
    <3>3. Len(more \o buffer) > Limit  BY <3>2 DEF FramedBy
    <3>4. d.lines # <<>>  BY <1>3, <1>5, <3>2
    <3>5. Len(d.lines[1]) >= Len(more \o buffer)  BY <1>1, <3>4, CutsHold
    <3>6. Len(d.lines[1]) \in Nat /\ Len(more \o buffer) \in Nat
      <4>1. 1 \in 1..Len(d.lines)  BY <1>3, <1>5, <3>2
      <4>2. d.lines[1] \in Seq(Bases)  BY <1>3, <4>1
      <4> QED  BY <1>1, <4>2
    <3> HIDE DEF record
    <3> QED  BY <2>5, <3>2, <3>3, <3>5, <3>6, LimitAssumption
  <2>7. ~s.dropping => line = record
    <3>1. SUFFICES ASSUME ~s.dropping PROVE line = record  OBVIOUS
    <3>2. CASE i = 1
      <4>1. ~dropping  BY <2>1, <3>1, <3>2 DEF HandledOK
      <4>2. more = <<>>  BY <4>1 DEF FramedBy
      <4>3. more \o buffer = buffer  BY <1>1, <4>2
      <4> QED  BY <2>5, <4>3
    <3>3. CASE i # 1
      <4>1. i \in 2..Len(c.lines)  BY <1>3, <3>3 DEF l
      <4> QED  BY <1>4, <2>5, <4>1 DEF Longer
    <3> QED  BY <3>2, <3>3
  <2>8. Answered(s.answers, s.base) /\ Limited(s.recent, s.accepted) /\ (~s.asked => s.base = base)
    BY <2>1 DEF HandledOK
  <2> HIDE DEF line, s, h
  <2>9. record = sent[Len(s.answers) + 1]  OBVIOUS
  <2> HIDE DEF record
  <2>10. Answered(h.answers, h.base) /\ Len(h.answers) = Len(s.answers) + 1 /\ ~h.dropping
    BY <1>1, <2>1, <2>2, <2>4, <2>6, <2>7, <2>8, <2>9, HandledAnswers
  <2>11. Limited(h.recent, h.accepted) /\ (~h.asked => ~s.asked /\ h.base = s.base)
    BY <2>1, <2>2, <2>8, HandledLimits
  <2>12. Len(h.answers) = Len(answers) + i /\ i # 0  BY <1>3, <2>4, <2>10
  <2>13. HandledOK(h, i)  BY <2>8, <2>10, <2>11, <2>12 DEF HandledOK
  <2> QED  BY <1>9, <2>1, <2>13 DEF h
<1>12. 0..l \subseteq T  BY <1>3, <1>10, <1>11, UpTo
<1>13. l \in 0..l  BY <1>3
<1>14. HandledOK(end, l) /\ end \in Loops  BY <1>8, <1>9, <1>12, <1>13
<1> QED  BY <1>14 DEF l

\* What a chunk leaves: its records answered, and the rest held or dropped.
TakenOK(t, after) ==
  /\ t.state \in Loops /\ t.buffer \in Seq(Bases) /\ t.dropping \in BOOLEAN
  /\ Answered(t.state.answers, t.state.base)
  /\ Framed(t.buffer, t.dropping, after, t.state.answers)
  /\ Limited(t.state.recent, t.state.accepted)
  /\ ~t.state.asked => t.state.base = base

\* What a chunk leaves is what the records in the pipe demand.
LEMMA TakenHolds ==
  ASSUME FrameInv, NEW chunk \in Seq(Bytes), NEW after \in Seq(Bytes), wire = chunk \o after
  PROVE  TakenOK(Taken(chunk), after)
<1>1. PICK more \in Seq(Bases) : FramedBy(more, buffer, dropping, wire, answers)  BY DEF FrameInv, Framed
<1> DEFINE p == more \o buffer
           c == Cuts(Line(buffer), chunk)
           d == Cuts(Line(more \o buffer), chunk)
           l == Len(c.lines)
           end == FoldLeft(Handle, Start, c.lines)
           t == Taken(chunk)
<1>2. LoopOK /\ buffer \in Seq(Bases) /\ p \in Seq(Bases) /\ dropping \in BOOLEAN /\ Len(answers) \in Nat /\ Len(p) \in Nat
  BY DEF FrameInv, LoopOK
<1>3. Split(buffer \o chunk) = c  BY <1>2, SplitIs
<1>4. t = [state    |-> end,
           buffer   |-> IF Overfull(c.rest) THEN <<>> ELSE c.rest,
           dropping |-> Dropping(end.dropping, c.rest)]
  <2> HIDE DEF c
  <2> QED  BY <1>3 DEF Taken, Start
<1> HIDE DEF t
<1>5. t.state = end /\ t.buffer = (IF Overfull(c.rest) THEN <<>> ELSE c.rest)
      /\ t.dropping = (end.dropping \/ Overfull(c.rest))
  <2> HIDE DEF end, c
  <2> QED  BY <1>4 DEF Dropping
<1>6. c \in Splits /\ d \in Splits  BY <1>2, CutsHold
<1>7. c.lines \in Seq(Seq(Bases)) /\ l \in Nat /\ c.rest \in Seq(Bases) /\ d.rest \in Seq(Bases) /\ d.lines \in Seq(Seq(Bases))
  BY <1>6 DEF Splits
<1>8. Longer(more, c, d)  BY <1>2, CutsLonger
<1>9. Len(d.lines) = l  BY <1>8 DEF Longer
<1>10. end \in Loops /\ HandledOK(end, l)
  <2>1. d = Cuts(Line(more \o buffer), chunk) /\ c = Cuts(Line(buffer), chunk) /\ end = FoldLeft(Handle, Start, c.lines)
    OBVIOUS
  <2> HIDE DEF c, d, end, p
  <2> QED  BY <1>1, <2>1, RecordsHandled
<1>11. end.dropping \in BOOLEAN  BY <1>10 DEF Loops
<1>12. \E m2 \in Seq(Bases) : /\ m2 \o t.buffer = d.rest
                              /\ t.dropping => Len(d.rest) > Limit
                              /\ ~t.dropping => m2 = <<>> /\ Len(t.buffer) <= Limit
  <2>1. Len(c.rest) \in Nat /\ Len(d.rest) \in Nat /\ Len(more) \in Nat /\ Limit \in Nat
    BY <1>1, <1>7, LimitAssumption
  <2>2. CASE l = 0
    <3>1. c.lines = <<>> /\ d.lines = <<>>  BY <1>7, <1>9, <2>2
    <3>2. d.rest = more \o c.rest  BY <1>8, <3>1 DEF Longer
    <3>3. Len(d.rest) = Len(more) + Len(c.rest)
      <4> HIDE DEF c, d
      <4> QED  BY <1>1, <1>7, <3>2
    <3>4. Len(d.rest) >= Len(p)  BY <1>2, <3>1, CutsHold
    <3>5. end.dropping = dropping  BY <1>10, <2>2 DEF HandledOK
    <3>6. CASE Overfull(c.rest)
      <4>1. t.buffer = <<>> /\ t.dropping  BY <1>5, <3>6
      <4>2. Len(d.rest) > Limit  BY <2>1, <3>3, <3>6 DEF Overfull
      <4>3. d.rest \o <<>> = d.rest  BY <1>7
      <4> HIDE DEF d
      <4> QED  BY <1>7, <4>1, <4>2, <4>3
    <3>7. CASE ~Overfull(c.rest)
      <4>1. t.buffer = c.rest /\ t.dropping = dropping
        <5> HIDE DEF c, end
        <5> QED  BY <1>2, <1>5, <3>5, <3>7
      <4>2. dropping => Len(d.rest) > Limit
        <5>1. dropping => Len(p) > Limit  BY <1>1 DEF FramedBy
        <5> HIDE DEF p, d
        <5> QED  BY <1>2, <2>1, <3>4, <5>1
      <4>3. ~dropping => more = <<>>  BY <1>1 DEF FramedBy
      <4>4. Len(c.rest) <= Limit  BY <2>1, <3>7 DEF Overfull
      <4> HIDE DEF c, d
      <4> QED  BY <1>1, <3>2, <4>1, <4>2, <4>3, <4>4
    <3> QED  BY <3>6, <3>7
  <2>3. CASE l # 0
    <3>1. c.lines # <<>>  BY <1>7, <2>3
    <3>2. d.rest = c.rest  BY <1>8, <3>1 DEF Longer
    <3>3. ~end.dropping  BY <1>10, <2>3 DEF HandledOK
    <3> HIDE DEF c, d, end
    <3>4. CASE Overfull(c.rest)
      <4>1. t.buffer = <<>> /\ t.dropping  BY <1>5, <3>4
      <4>2. Len(d.rest) > Limit  BY <3>2, <3>4 DEF Overfull
      <4>3. d.rest \o <<>> = d.rest  BY <1>7
      <4> QED  BY <1>7, <4>1, <4>2, <4>3
    <3>5. CASE ~Overfull(c.rest)
      <4>1. t.buffer = c.rest /\ ~t.dropping  BY <1>5, <3>3, <3>5
      <4>2. Len(c.rest) <= Limit  BY <2>1, <3>5 DEF Overfull
      <4>3. <<>> \o c.rest = c.rest /\ <<>> \in Seq(Bases)  BY <1>7
      <4> QED  BY <3>2, <4>1, <4>2, <4>3
    <3> QED  BY <3>4, <3>5
  <2> QED  BY <2>2, <2>3
<1>13. PICK m2 \in Seq(Bases) : /\ m2 \o t.buffer = d.rest
                                /\ t.dropping => Len(d.rest) > Limit
                                /\ ~t.dropping => m2 = <<>> /\ Len(t.buffer) <= Limit
  BY <1>12
<1>14. Len(end.answers) = Len(answers) + l  BY <1>10 DEF HandledOK
<1>15. FramedBy(m2, t.buffer, t.dropping, after, t.state.answers)
  <2>1. /\ Cuts(Line(d.rest), after).rest = <<>>
        /\ Len(Cuts(Line(d.rest), after).lines) = Len(sent) - (Len(answers) + l)
        /\ \A i \in 1..(Len(sent) - (Len(answers) + l)) :
              Cuts(Line(d.rest), after).lines[i] = sent[(Len(answers) + l) + i]
    <3>1. d = Cuts(Line(more \o buffer), chunk)  OBVIOUS
    <3> HIDE DEF d, l
    <3>2. ChunkOK(l, d, Cuts(Line(d.rest), after))  BY <1>1, <1>2, <1>9, <3>1, ChunkCut
    <3> QED  BY <3>2 DEF ChunkOK
  <2> HIDE DEF d, end, l
  <2> QED  BY <1>5, <1>13, <1>14, <2>1 DEF FramedBy
<1>16. t.buffer \in Seq(Bases) /\ t.dropping \in BOOLEAN
  <2>1. <<>> \in Seq(Bases)  OBVIOUS
  <2> HIDE DEF c, end
  <2> QED  BY <1>5, <1>7, <1>11, <2>1
<1>17. Framed(t.buffer, t.dropping, after, t.state.answers)  BY <1>15 DEF Framed
<1> HIDE DEF end, c, l
<1> QED  BY <1>5, <1>10, <1>16, <1>17 DEF TakenOK, HandledOK, t

-----------------------------------------------------------------------------
(* The steps. *)

Written(u, w, record) == u.lines = Append(w.lines, record) /\ u.rest = <<>>

\* A record that is written is cut as the last one.
LEMMA WrittenCut ==
  ASSUME NEW p \in Seq(Bases), NEW bytes \in Seq(Bytes), NEW record \in Seq(Bases),
         NEW w, w = Cuts(Line(p), bytes), w.rest = <<>>
  PROVE  Written(Cuts(Line(p), bytes \o record \o <<NL>>), w, record)
<1>1. Line(p) \in Splits  BY DEF Line, Splits
<1>2. w \in Splits  BY <1>1, CutsTyped
<1>3. w = [lines |-> w.lines, rest |-> <<>>] /\ w.lines \in Seq(Seq(Bases)) /\ <<>> \in Seq(Bases)
  BY <1>2 DEF Splits
<1>4. record \in Seq(Bytes) /\ NL \in Bytes  BY SeqMonotonic DEF Bytes
<1>5. Cuts(Line(p), bytes \o record) = Cuts(w, record)  BY <1>1, <1>4, CutsConcat
<1> DEFINE v == [lines |-> w.lines, rest |-> record]
<1>6. Cuts(w, record) = v
  <2>1. Cuts([lines |-> w.lines, rest |-> <<>>], record) = [lines |-> w.lines, rest |-> <<>> \o record]
    BY <1>3, CutsPlain
  <2>2. <<>> \o record = record  OBVIOUS
  <2> QED  BY <1>3, <2>1, <2>2
<1>7. v \in Splits /\ v.lines = w.lines /\ v.rest = record  BY <1>3 DEF Splits
<1> HIDE DEF v
<1> DEFINE x == bytes \o record
<1>8. x \in Seq(Bytes) /\ Append(x, NL) = x \o <<NL>>
  <2>1. x \in Seq(Bytes)  BY <1>4
  <2> HIDE DEF x
  <2> QED  BY <1>4, <2>1
<1>9. Cuts(Line(p), x) = v  BY <1>5, <1>6
<1> HIDE DEF x
<1>10. Cuts(Line(p), Append(x, NL)) = Cut(v, NL)  BY <1>1, <1>4, <1>8, <1>9, CutsAppend
<1>11. Cut(v, NL) = [lines |-> Append(v.lines, v.rest), rest |-> <<>>]  BY <1>4, <1>7, CutTyped
<1> QED  BY <1>7, <1>8, <1>10, <1>11 DEF x, Written

\* Writing a record keeps the framing.
LEMMA WriteFramed ==
  ASSUME FrameInv, NEW record \in Records, Write(record)
  PROVE  FrameInv'
<1>1. record \in Seq(Bases)  BY RecordAssumption
<1>2. /\ LoopOK /\ sent \in Seq(Seq(Bases)) /\ wire \in Seq(Bytes) /\ buffer \in Seq(Bases)
      /\ answers \in Seq(Whys) /\ Len(answers) \in Nat /\ DOMAIN answers = 1..Len(answers)
      /\ Answered(answers, base)
  BY DEF FrameInv, LoopOK
<1>3. /\ sent' = Append(sent, record) /\ wire' = wire \o record \o <<NL>>
      /\ buffer' = buffer /\ dropping' = dropping /\ recent' = recent /\ base' = base
      /\ answers' = answers /\ accepted' = accepted
  BY DEF Write, framing
<1>4. /\ Len(sent) \in Nat /\ Len(sent') = Len(sent) + 1 /\ sent'[Len(sent) + 1] = record
      /\ \A i \in 1..Len(sent) : sent'[i] = sent[i]
  BY <1>2, <1>3, AppendOf
<1>5. LoopOK'
  <2>1. sent' \in Seq(Seq(Bases))  BY <1>1, <1>2, <1>3, AppendProperties
  <2>2. record \in Seq(Bytes) /\ <<NL>> \in Seq(Bytes)
    <3>1. record \in Seq(Bytes)  BY <1>1, SeqMonotonic DEF Bytes
    <3>2. NL \in Bytes  BY DEF Bytes
    <3> QED  BY <3>1, <3>2
  <2>3. wire' \in Seq(Bytes)  BY <1>2, <1>3, <2>2, ConcatProperties
  <2> QED  BY <1>2, <1>3, <2>1, <2>3 DEF LoopOK
<1>6. Len(answers) <= Len(sent)  BY <1>2 DEF Answered
<1>7. Answered(answers, base)'
  <2>1. ASSUME NEW i \in DOMAIN answers PROVE sent'[i] = sent[i]
    <3>1. i \in 1..Len(answers)  BY <1>2
    <3>2. i \in 1..Len(sent)  BY <1>2, <1>4, <1>6, <3>1
    <3> QED  BY <1>4, <3>2
  <2>2. Len(answers) <= Len(sent')  BY <1>2, <1>4, <1>6
  <2> QED  BY <1>2, <1>3, <2>1, <2>2 DEF Answered
<1>8. Framed(buffer, dropping, wire, answers)'
  <2>1. PICK more \in Seq(Bases) : FramedBy(more, buffer, dropping, wire, answers)  BY DEF FrameInv, Framed
  <2> DEFINE p == more \o buffer
             w == Cuts(Line(p), wire)
             k == Append(w.lines, record)
             u == Cuts(Line(p), wire \o record \o <<NL>>)
  <2>2. p \in Seq(Bases)  BY <1>2
  <2>3. /\ w.rest = <<>> /\ Len(w.lines) = Len(sent) - Len(answers)
        /\ \A i \in 1..(Len(sent) - Len(answers)) : w.lines[i] = sent[Len(answers) + i]
        /\ dropping => Len(p) > Limit
        /\ ~dropping => more = <<>> /\ Len(buffer) <= Limit
    BY <2>1 DEF FramedBy
  <2>4. w \in Splits
    <3>1. Line(p) \in Splits  BY <2>2 DEF Line, Splits
    <3> QED  BY <1>2, <3>1, CutsTyped
  <2>5. Written(u, w, record)
    <3>1. w = Cuts(Line(p), wire)  OBVIOUS
    <3> HIDE DEF p, w
    <3> QED  BY <1>1, <1>2, <2>2, <2>3, <3>1, WrittenCut
  <2> HIDE DEF w, u, p
  <2>6. w.lines \in Seq(Seq(Bases))  BY <2>4 DEF Splits
  <2>7. /\ Len(k) = Len(w.lines) + 1 /\ k[Len(w.lines) + 1] = record
        /\ \A i \in 1..Len(w.lines) : k[i] = w.lines[i]
    BY <2>6, AppendOf
  <2> HIDE DEF k
  <2> DEFINE m == Len(sent') - Len(answers)
  <2>8. m = Len(w.lines) + 1 /\ Len(w.lines) \in Nat /\ Len(k) = m
    BY <1>2, <1>4, <1>6, <2>3, <2>7
  <2>9. ASSUME NEW i \in 1..m PROVE k[i] = sent'[Len(answers) + i]
    <3>1. CASE i = m
      <4>1. Len(answers) + i = Len(sent) + 1  BY <1>2, <1>4, <3>1
      <4> QED  BY <1>4, <2>7, <2>8, <3>1, <4>1
    <3>2. CASE i # m
      <4>1. i \in 1..Len(w.lines) /\ i \in 1..(Len(sent) - Len(answers)) /\ Len(answers) + i \in 1..Len(sent)
        BY <1>2, <1>4, <1>6, <2>3, <2>8, <3>2
      <4> QED  BY <1>4, <2>3, <2>7, <4>1
    <3> QED  BY <3>1, <3>2
  <2>10. u.rest = <<>> /\ u.lines = k  BY <2>5 DEF Written, k
  <2>11. FramedBy(more, buffer, dropping, wire, answers)'
    <3>1. /\ u.rest = <<>> /\ Len(u.lines) = Len(sent') - Len(answers)
          /\ \A i \in 1..(Len(sent') - Len(answers)) : u.lines[i] = sent'[Len(answers) + i]
      BY <2>8, <2>9, <2>10
    <3> QED  BY <1>3, <2>1, <2>3, <3>1 DEF FramedBy, p, u
  <2> QED  BY <2>1, <2>11 DEF Framed
<1> QED  BY <1>3, <1>5, <1>7, <1>8 DEF FrameInv

\* Time leaves the limiter within the rate.
LEMMA AgedLimits ==
  ASSUME NEW r \in Seq(Nat), NEW a \in Seq(Nat), Limited(r, a), NEW time \in Nat
  PROVE  Aged(r, time) \in Seq(Nat) /\ Aged(a, time) \in Seq(Nat) /\ Limited(Aged(r, time), Aged(a, time))
<1>1. Recalls(r, a) /\ Len(r) <= Rate  BY DEF Limited
<1>2. Aged(r, time) \in Seq(Nat) /\ Aged(a, time) \in Seq(Nat) /\ Len(Aged(r, time)) = Len(r)  BY AgedTyped
<1>3. Recalls(Aged(r, time), Aged(a, time))  BY <1>1, RecallsAged
<1> QED  BY <1>1, <1>2, <1>3 DEF Limited

\* Waiting keeps the framing.
LEMMA WaitFramed ==
  ASSUME FrameInv, Wait
  PROVE  FrameInv'
<1>1. /\ sent' = sent /\ wire' = wire /\ buffer' = buffer /\ dropping' = dropping /\ base' = base /\ answers' = answers
      /\ recent' = Aged(recent, 1) /\ accepted' = Aged(accepted, 1)
  BY DEF Wait, pipe
<1>2. recent \in Seq(Nat) /\ accepted \in Seq(Nat) /\ Limited(recent, accepted) /\ 1 \in Nat  BY DEF FrameInv, LoopOK
<1>3. recent' \in Seq(Nat) /\ accepted' \in Seq(Nat) /\ Limited(recent, accepted)'  BY <1>1, <1>2, AgedLimits
<1>4. LoopOK'  BY <1>1, <1>3 DEF FrameInv, LoopOK
<1>5. Answered(answers, base)'  BY <1>1 DEF FrameInv, Answered
<1>6. Framed(buffer, dropping, wire, answers)'  BY <1>1 DEF FrameInv, Framed, FramedBy
<1> QED  BY <1>3, <1>4, <1>5, <1>6 DEF FrameInv

\* A pass, with what it has taken.
LEMMA PassTakes ==
  ASSUME FrameInv, NEW n \in 0..Len(wire)
  PROVE  TakenOK(Taken(SubSeq(wire, 1, n)), SubSeq(wire, n + 1, Len(wire)))
<1> DEFINE chunk == SubSeq(wire, 1, n)
           after == SubSeq(wire, n + 1, Len(wire))
<1>1. wire \in Seq(Bytes)  BY DEF FrameInv, LoopOK
<1>2. chunk \in Seq(Bytes) /\ after \in Seq(Bytes) /\ chunk \o after = wire  BY <1>1, CutAt
<1> HIDE DEF chunk, after
<1>3. TakenOK(Taken(chunk), after)  BY <1>2, TakenHolds
<1> QED  BY <1>3 DEF chunk, after

\* A pass keeps the framing, wherever it cuts the pipe.
LEMMA PassFramed ==
  ASSUME FrameInv, NEW n \in 0..Len(wire), NEW duration \in Durations, NEW fails \in BOOLEAN, Pass(n, duration, fails)
  PROVE  FrameInv'
<1> DEFINE chunk == SubSeq(wire, 1, n)
           after == SubSeq(wire, n + 1, Len(wire))
           taken == Taken(chunk)
           state == taken.state
           time  == IF Due(state) THEN duration ELSE 0
<1>1. TakenOK(taken, after)  BY PassTakes
<1>2. /\ wire' = after /\ buffer' = taken.buffer /\ dropping' = taken.dropping
      /\ recent' = Aged(state.recent, time) /\ accepted' = Aged(state.accepted, time)
      /\ answers' = state.answers /\ base' = state.base /\ sent' = sent
  <2> HIDE DEF taken
  <2> QED  BY DEF Pass, taken
<1>3. after \in Seq(Bytes)
  <2>1. wire \in Seq(Bytes)  BY DEF FrameInv, LoopOK
  <2> QED  BY <2>1, CutAt
<1>4. time \in Nat  BY LimitAssumption
<1> HIDE DEF time, taken, after, chunk
<1>5. /\ state \in Loops /\ taken.buffer \in Seq(Bases) /\ taken.dropping \in BOOLEAN
      /\ Answered(state.answers, state.base)
      /\ Framed(taken.buffer, taken.dropping, after, state.answers)
      /\ Limited(state.recent, state.accepted)
  BY <1>1 DEF TakenOK
<1> HIDE DEF state
<1>6. state.recent \in Seq(Nat) /\ state.accepted \in Seq(Nat) /\ state.answers \in Seq(Whys) /\ state.base \in Bases
  BY <1>5 DEF Loops
<1>7. recent' \in Seq(Nat) /\ accepted' \in Seq(Nat) /\ Limited(recent, accepted)'
  BY <1>2, <1>4, <1>5, <1>6, AgedLimits
<1>8. LoopOK'  BY <1>2, <1>3, <1>5, <1>6, <1>7 DEF FrameInv, LoopOK
<1>9. Answered(answers, base)'  BY <1>2, <1>5 DEF Answered
<1>10. Framed(buffer, dropping, wire, answers)'  BY <1>2, <1>5 DEF Framed, FramedBy
<1> QED  BY <1>7, <1>8, <1>9, <1>10 DEF FrameInv

\* The helper starts with nothing to answer.
LEMMA StartsFramed == ASSUME Init PROVE FrameInv
<1>1. /\ sent = <<>> /\ wire = <<>> /\ buffer = <<>> /\ dropping = FALSE /\ recent = <<>> /\ base \in Bases
      /\ answers = <<>> /\ accepted = <<>>
  BY DEF Init
<1>7. \A B : <<>> \in Seq(B)  OBVIOUS
<1>2. LoopOK
  <2> USE <1>7
  <2>1. sent \in Seq(Seq(Bases)) /\ wire \in Seq(Bytes) /\ buffer \in Seq(Bases)  BY <1>1
  <2>2. recent \in Seq(Nat) /\ accepted \in Seq(Nat) /\ answers \in Seq(Whys)  BY <1>1
  <2> QED  BY <1>1, <2>1, <2>2 DEF LoopOK
<1>3. Answered(answers, base)  BY <1>1 DEF Answered
<1>4. Limited(recent, accepted)
  <2>1. recent \in Seq(Nat) /\ accepted = recent  BY <1>1, <1>7
  <2>2. Len(recent) <= Rate  BY <1>1, LimitAssumption
  <2> QED  BY <2>1, <2>2, RecallsItself DEF Limited
<1>5. FramedBy(<<>>, buffer, dropping, wire, answers)
  <2>1. <<>> \o <<>> = <<>> /\ <<>> \in Seq(Bases) /\ Len(<<>>) = 0  OBVIOUS
  <2>2. Line(<<>>) \in Splits  BY <2>1 DEF Line, Splits
  <2>3. Cuts(Line(<<>>), <<>>) = [lines |-> <<>>, rest |-> <<>>]  BY <2>2, CutsNothing DEF Line
  <2> QED  BY <1>1, <2>1, <2>3, LimitAssumption DEF FramedBy
<1>6. Framed(buffer, dropping, wire, answers)
  <2>1. <<>> \in Seq(Bases)  OBVIOUS
  <2> QED  BY <1>5, <2>1 DEF Framed
<1> QED  BY <1>2, <1>3, <1>4, <1>6 DEF FrameInv

-----------------------------------------------------------------------------
(* Cadence. *)

\* The counts of slow and of fast samples are what the history shows since the last move.
CadenceInv ==
  /\ level \in Nat /\ slow \in 0..SlowRun /\ fast \in 0..FastRun
  /\ trend = [of |-> trend.of, run |-> trend.run] /\ trend.run \in Nat
  /\ slow > 0 => trend.of = "slow" /\ trend.run >= slow
  /\ fast > 0 => trend.of = "fast" /\ trend.run >= fast

\* What a step of the cadence may do to the level.
Moves ==
  /\ level' > level => level' = level + 1 /\ trend.of = "slow" /\ trend.run + 1 >= SlowRun
  /\ level' < level => level' = level - 1 /\ trend.of = "fast" /\ trend.run + 1 >= FastRun

\* A sample, of any duration, moves the level only when a run is complete.
LEMMA SampleMoves ==
  ASSUME CadenceInv, NEW b, NEW verdict \in {"slow", "fast", "fair", "failed"}, Sample(b, verdict)
  PROVE  CadenceInv' /\ Moves /\ sampled' \in {b, 0}
<1> DEFINE s == Counted(slow, "slow", verdict)
           f == Counted(fast, "fast", verdict)
           run == IF verdict = trend.of THEN trend.run + 1 ELSE 1
<1>1. /\ level \in Nat /\ slow \in Nat /\ slow <= SlowRun /\ fast \in Nat /\ fast <= FastRun /\ trend.run \in Nat
      /\ slow > 0 => trend.of = "slow" /\ trend.run >= slow
      /\ fast > 0 => trend.of = "fast" /\ trend.run >= fast
      /\ SlowRun \in Nat /\ SlowRun >= 2 /\ FastRun \in Nat /\ FastRun >= 2
      /\ MaxLevel \in Int
  <2>1. MaxLevel \in Int  BY MultiplierAssumption DEF MaxLevel
  <2>2. SlowRun \in Nat /\ SlowRun >= 2 /\ FastRun \in Nat /\ FastRun >= 2  BY LimitAssumption
  <2> QED  BY <2>1, <2>2 DEF CadenceInv
<1>2. sampled' \in {b, 0}  BY DEF Sample
<1>3. CASE verdict = "failed"
  <2>1. level' = level /\ slow' = slow /\ fast' = fast /\ trend' = trend  BY <1>3 DEF Sample
  <2>2. CadenceInv'  BY <2>1 DEF CadenceInv
  <2>3. Moves  BY <1>1, <2>1 DEF Moves
  <2> QED  BY <1>2, <2>2, <2>3
<1>4. CASE verdict # "failed"
  <2>1. /\ s \in Nat /\ f \in Nat
        /\ s > 0 => verdict = "slow" /\ s = slow + 1 /\ f = 0
        /\ f > 0 => verdict = "fast" /\ f = fast + 1 /\ s = 0
        /\ s <= SlowRun + 1 /\ f <= FastRun + 1
    <3>1. verdict = "slow" => s = slow + 1 /\ f = 0  BY DEF Counted
    <3>2. verdict = "fast" => f = fast + 1 /\ s = 0  BY DEF Counted
    <3>3. verdict \notin {"slow", "fast"} => f = 0 /\ s = 0  BY DEF Counted
    <3> HIDE DEF s, f
    <3> QED  BY <1>1, <3>1, <3>2, <3>3
  <2>2. run \in Nat /\ run >= 1 /\ (s > 0 => run >= s) /\ (f > 0 => run >= f)
    <3>1. run \in Nat /\ run >= 1  BY <1>1
    <3>2. ASSUME s > 0 PROVE run >= s
      <4>1. verdict = "slow" /\ s = slow + 1  BY <2>1, <3>2
      <4>2. CASE slow = 0
        <5> HIDE DEF run, s
        <5> QED  BY <3>1, <4>1, <4>2
      <4>3. CASE slow > 0
        <5>1. run = trend.run + 1 /\ trend.run >= slow  BY <1>1, <4>1, <4>3
        <5> HIDE DEF run, s
        <5> QED  BY <1>1, <4>1, <5>1
      <4> QED  BY <1>1, <4>2, <4>3
    <3>3. ASSUME f > 0 PROVE run >= f
      <4>1. verdict = "fast" /\ f = fast + 1  BY <2>1, <3>3
      <4>2. CASE fast = 0
        <5> HIDE DEF run, f
        <5> QED  BY <3>1, <4>1, <4>2
      <4>3. CASE fast > 0
        <5>1. run = trend.run + 1 /\ trend.run >= fast  BY <1>1, <4>1, <4>3
        <5> HIDE DEF run, f
        <5> QED  BY <1>1, <4>1, <5>1
      <4> QED  BY <1>1, <4>2, <4>3
    <3> QED  BY <3>1, <3>2, <3>3
  <2>3. CASE s >= SlowRun /\ level < MaxLevel
    <3>1. Observed(verdict) = [level |-> level + 1, slow |-> 0, fast |-> f]  BY <2>3 DEF Observed
    <3>2. s > 0 /\ f = 0 /\ s = slow + 1 /\ verdict = "slow"
      <4> HIDE DEF s, f
      <4> QED  BY <1>1, <2>1, <2>3
    <3> HIDE DEF s, f
    <3>3. /\ level' = level + 1 /\ slow' = 0 /\ fast' = 0
          /\ trend' = IF level + 1 # level THEN [of |-> "fair", run |-> 0] ELSE RunAfter(verdict)
      BY <1>4, <3>1, <3>2 DEF Sample
    <3>4. trend' = [of |-> "fair", run |-> 0]  BY <1>1, <3>3
    <3>5. CadenceInv'  BY <1>1, <3>3, <3>4 DEF CadenceInv
    <3>6. trend.of = "slow" /\ trend.run + 1 >= SlowRun
      <4>1. slow > 0  BY <1>1, <2>3, <3>2
      <4> QED  BY <1>1, <2>3, <3>2, <4>1
    <3>7. Moves  BY <1>1, <3>3, <3>6 DEF Moves
    <3> QED  BY <1>2, <3>5, <3>7
  <2>4. CASE ~(s >= SlowRun /\ level < MaxLevel) /\ (f >= FastRun /\ level > 0)
    <3>1. Observed(verdict) = [level |-> level - 1, slow |-> s, fast |-> 0]  BY <2>4 DEF Observed
    <3>2. f > 0 /\ s = 0 /\ f = fast + 1 /\ verdict = "fast"
      <4> HIDE DEF s, f
      <4> QED  BY <1>1, <2>1, <2>4
    <3> HIDE DEF s, f
    <3>3. /\ level' = level - 1 /\ slow' = 0 /\ fast' = 0
          /\ trend' = IF level - 1 # level THEN [of |-> "fair", run |-> 0] ELSE RunAfter(verdict)
      BY <1>4, <3>1, <3>2 DEF Sample
    <3>4. trend' = [of |-> "fair", run |-> 0]  BY <1>1, <3>3
    <3>5. CadenceInv'  BY <1>1, <2>4, <3>3, <3>4 DEF CadenceInv
    <3>6. trend.of = "fast" /\ trend.run + 1 >= FastRun
      <4>1. fast > 0  BY <1>1, <2>4, <3>2
      <4> QED  BY <1>1, <2>4, <3>2, <4>1
    <3>7. Moves  BY <1>1, <3>3, <3>6 DEF Moves
    <3> QED  BY <1>2, <3>5, <3>7
  <2>5. CASE ~(s >= SlowRun /\ level < MaxLevel) /\ ~(f >= FastRun /\ level > 0)
    <3>1. Observed(verdict) = [level |-> level, slow |-> Least(s, SlowRun), fast |-> Least(f, FastRun)]
      BY <2>5 DEF Observed
    <3>2. RunAfter(verdict) = [of |-> verdict, run |-> Least(SlowRun + FastRun, run)]  BY DEF RunAfter
    <3> HIDE DEF s, f, run
    <3>3. /\ level' = level /\ slow' = Least(s, SlowRun) /\ fast' = Least(f, FastRun)
          /\ trend' = [of |-> verdict, run |-> Least(SlowRun + FastRun, run)]
      BY <1>4, <3>1, <3>2 DEF Sample
    <3> DEFINE u == Least(s, SlowRun)
               v == Least(f, FastRun)
               w == Least(SlowRun + FastRun, run)
    <3>4. /\ u \in 0..SlowRun /\ v \in 0..FastRun /\ w \in Nat
          /\ u > 0 => s > 0 /\ w >= u
          /\ v > 0 => f > 0 /\ w >= v
      BY <1>1, <2>1, <2>2 DEF Least
    <3>5. trend'.of = verdict /\ trend'.run = w /\ trend' = [of |-> trend'.of, run |-> trend'.run]  BY <3>3
    <3> HIDE DEF u, v, w
    <3>6. slow' = u /\ fast' = v  BY <3>3 DEF u, v
    <3>7. CadenceInv'  BY <1>1, <2>1, <3>3, <3>4, <3>5, <3>6 DEF CadenceInv
    <3>8. Moves  BY <1>1, <3>3 DEF Moves
    <3> QED  BY <1>2, <3>7, <3>8
  <2> QED  BY <2>3, <2>4, <2>5
<1> QED  BY <1>3, <1>4

-----------------------------------------------------------------------------
(* The invariant, and the theorems. *)

IInv == FrameInv /\ CadenceInv /\ ConfiguredIsSampled

\* A pass moves the level as a sample does, and samples what it was asked for.
LEMMA PassMoves ==
  ASSUME IInv, NEW n \in 0..Len(wire), NEW duration \in Durations, NEW fails \in BOOLEAN, Pass(n, duration, fails)
  PROVE  CadenceInv' /\ Moves /\ ConfiguredIsSampled'
<1> DEFINE taken == Taken(SubSeq(wire, 1, n))
           state == taken.state
<1>1. TakenOK(taken, SubSeq(wire, n + 1, Len(wire)))  BY PassTakes DEF IInv
<1>2. base' = state.base  BY DEF Pass
<1>3. CASE Due(state)
  <2> DEFINE interval == IntervalAt(base', level)
             verdict == IF fails THEN "failed" ELSE Verdict(duration, interval)
  <2>1. Sample(base', verdict)
    <3> HIDE DEF taken
    <3> QED  BY <1>3 DEF Pass, taken
  <2>2. verdict \in {"slow", "fast", "fair", "failed"}  BY DEF Verdict
  <2> HIDE DEF verdict
  <2>3. CadenceInv  BY DEF IInv
  <2>4. CadenceInv' /\ Moves /\ sampled' \in {base', 0}  BY <2>1, <2>2, <2>3, SampleMoves
  <2> QED  BY <2>4 DEF ConfiguredIsSampled
<1>4. CASE ~Due(state)
  <2>1. UNCHANGED <<cadence, dueIn, sampled>>
    <3> HIDE DEF taken
    <3> QED  BY <1>4 DEF Pass, taken
  <2>2. level' = level /\ slow' = slow /\ fast' = fast /\ trend' = trend /\ sampled' = sampled
    BY <2>1 DEF cadence
  <2>3. ~state.asked  BY <1>4 DEF Due
  <2> HIDE DEF taken
  <2>4. base' = base  BY <1>1, <1>2, <2>3 DEF TakenOK
  <2>5. CadenceInv' /\ ConfiguredIsSampled'  BY <2>2, <2>4 DEF IInv, CadenceInv, ConfiguredIsSampled
  <2>6. Moves  BY <2>2 DEF IInv, CadenceInv, Moves
  <2> QED  BY <2>5, <2>6
<1> QED  BY <1>3, <1>4

\* The invariant holds at first.
LEMMA Starts == ASSUME Init PROVE IInv
<1>1. FrameInv  BY StartsFramed
<1>2. level = 0 /\ slow = 0 /\ fast = 0 /\ trend = [of |-> "fair", run |-> 0] /\ sampled = base  BY DEF Init
<1>3. CadenceInv  BY <1>2, LimitAssumption DEF CadenceInv
<1> QED  BY <1>1, <1>2, <1>3 DEF IInv, ConfiguredIsSampled

\* Every step keeps the invariant, and moves the level only as it may.
LEMMA Steps == ASSUME IInv, [Next]_vars PROVE IInv' /\ Moves
<1>1. ASSUME NEW record \in Records, Write(record) PROVE IInv' /\ Moves
  <2>1. FrameInv'  BY <1>1, WriteFramed DEF IInv
  <2>2. level' = level /\ slow' = slow /\ fast' = fast /\ trend' = trend /\ sampled' = sampled /\ base' = base
    BY <1>1 DEF Write, cadence
  <2> QED  BY <2>1, <2>2 DEF IInv, CadenceInv, ConfiguredIsSampled, Moves
<1>2. ASSUME NEW n \in 0..Len(wire), NEW duration \in Durations, NEW fails \in BOOLEAN, Pass(n, duration, fails)
      PROVE  IInv' /\ Moves
  <2>1. FrameInv'  BY <1>2, PassFramed DEF IInv
  <2>2. CadenceInv' /\ Moves /\ ConfiguredIsSampled'  BY <1>2, PassMoves
  <2> QED  BY <2>1, <2>2 DEF IInv
<1>3. CASE Wait
  <2>1. FrameInv'  BY <1>3, WaitFramed DEF IInv
  <2>2. level' = level /\ slow' = slow /\ fast' = fast /\ trend' = trend /\ sampled' = sampled /\ base' = base
    BY <1>3 DEF Wait, cadence
  <2> QED  BY <2>1, <2>2 DEF IInv, CadenceInv, ConfiguredIsSampled, Moves
<1>4. CASE UNCHANGED vars
  <2>1. /\ sent' = sent /\ wire' = wire /\ buffer' = buffer /\ dropping' = dropping /\ recent' = recent
        /\ base' = base /\ level' = level /\ slow' = slow /\ fast' = fast /\ trend' = trend
        /\ answers' = answers /\ accepted' = accepted /\ sampled' = sampled
    BY <1>4 DEF vars, pipe, framing, cadence
  <2>2. FrameInv'  BY <2>1 DEF IInv, FrameInv, LoopOK, Answered, Framed, FramedBy
  <2> QED  BY <2>1, <2>2 DEF IInv, CadenceInv, ConfiguredIsSampled, Moves
<1>5. Next \/ UNCHANGED vars  OBVIOUS
<1> QED  BY <1>1, <1>2, <1>3, <1>4, <1>5 DEF Next

\* The inductive invariant: framing, cadence and the sampled configuration.
THEOREM InvariantHolds == Spec => []IInv
<1>1. Init => IInv  BY Starts
<1>2. IInv /\ [Next]_vars => IInv'  BY Steps
<1> QED  BY <1>1, <1>2, PTL DEF Spec

\* The pipe holds what is not answered, or the end of a record of which the helper has the rest.
LEMMA FramingFollows == ASSUME IInv PROVE FramingExact
<1>1. LoopOK /\ Answered(answers, base) /\ wire \in Seq(Bytes) /\ buffer \in Seq(Bases)
      /\ Len(sent) \in Nat /\ Len(answers) \in Nat
  BY DEF IInv, FrameInv, LoopOK
<1>2. PICK more \in Seq(Bases) : FramedBy(more, buffer, dropping, wire, answers)  BY DEF IInv, FrameInv, Framed
<1> DEFINE p == more \o buffer
           x == Cuts(Line(<<>>), wire)
           d == Cuts(Line(p), wire)
<1>3. p \in Seq(Bases) /\ p \o <<>> = p /\ <<>> \in Seq(Bases)
  <2>1. p \in Seq(Bases)  BY <1>1
  <2> HIDE DEF p
  <2> QED  BY <2>1
<1>4. Longer(p, x, d)
  <2> HIDE DEF p
  <2>1. Longer(p, x, Cuts(Line(p \o <<>>), wire))  BY <1>1, <1>3, CutsLonger
  <2> QED  BY <1>3, <2>1
<1>5. Len(d.lines) = Len(sent) - Len(answers)  BY <1>2 DEF FramedBy
<1>6. Split(<<>> \o wire) = x /\ <<>> \o wire = wire
  <2>1. Split(<<>> \o wire) = x  BY <1>1, <1>3, SplitIs
  <2>2. <<>> \o wire = wire  BY <1>1
  <2> QED  BY <2>1, <2>2
<1>7. Len(Split(wire).lines) = Len(sent) - Len(answers)  BY <1>4, <1>5, <1>6 DEF Longer
<1>8. Len(answers) + Len(Split(wire).lines) = Len(sent)  BY <1>1, <1>7
<1> QED  BY <1>1, <1>8 DEF FramingExact, Answered

\* DATA-MODEL.md, "Commands are at most 64 KiB": for every size of record, every pipe content and
\* every way the pipe is cut into chunks, each record gets its answer, in order.
THEOREM FramingHolds == Spec => []FramingExact
<1>1. IInv => FramingExact  BY FramingFollows
<1> QED  BY <1>1, InvariantHolds, PTL

\* DATA-MODEL.md, "a 32-record/second sliding window": no window of time holds more executed
\* records than the rate, for every rate and window.
THEOREM RateHolds == Spec => []RateBounded
<1>1. IInv => RateBounded
  <2> SUFFICES ASSUME IInv PROVE RateBounded  OBVIOUS
  <2>1. recent \in Seq(Nat) /\ accepted \in Seq(Nat) /\ Recalls(recent, accepted) /\ Len(recent) <= Rate
    BY DEF IInv, FrameInv, LoopOK, Limited
  <2> QED  BY <2>1, YoungAreRecalled DEF RateBounded
<1> QED  BY <1>1, InvariantHolds, PTL

\* main(): between two passes the last sample shows the configuration in force, or failed.
THEOREM SampledHolds == Spec => []ConfiguredIsSampled
<1>1. IInv => ConfiguredIsSampled  BY DEF IInv
<1> QED  BY <1>1, InvariantHolds, PTL

\* ARCHITECTURE.md, "sustained high duty cycle": the level moves by one, at the end of an unbroken
\* run of slow or of fast samples, for every length of these runs.
THEOREM MovesAreSustained == Spec => MovesWhenSustained
<1>1. IInv /\ [Next]_vars => [Moves]_vars  BY Steps
<1> QED  BY <1>1, InvariantHolds, PTL DEF Spec, MovesWhenSustained, Moves

=============================================================================
