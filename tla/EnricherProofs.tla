--------------------------- MODULE EnricherProofs ---------------------------
(***************************************************************************)
(* Proofs about Enricher: for every number of addresses and databases and  *)
(* every limit, the privacy setting stops the lookups, an answer is kept   *)
(* with the address it was asked for, no address is looked up twice at     *)
(* once, and no sample leaves an overdue worker behind.                    *)
(***************************************************************************)
EXTENDS Enricher, SequenceFacts

-----------------------------------------------------------------------------
(* The inductive invariant: what is true of each lookup for itself. *)

\* A worker reads the database that is configured, and so do the answers that are kept.
ReadsFrom(l, db) ==
  /\ l.worker # NoWorker => l.worker.path = db
  /\ \A i \in DOMAIN l.cache :
       l.cache[i].answer # NoAnswer => l.cache[i].answer = [ip |-> l.cache[i].ip, path |-> db]

\* No address waits twice, or waits while a worker looks it up.
AskedOnce(l) == IsInjective(l.pending) /\ ~Contains(l.pending, l.worker.ip)

Sound(db) == {l \in Lookups : Len(l.pending) <= QueueCap /\ ReadsFrom(l, db) /\ AskedOnce(l)}

\* Small enough to be kept.
Trimmed(db) == {l \in Sound(db) : Len(l.cache) <= CacheCap}

\* What no sample leaves behind is a worker beyond its limit.
InTime(l) == l.worker.state = "runs" => now - l.worker.at <= Timeout

IInv ==
  /\ now \in 0..MaxTime
  /\ mode \in {"local", "dns"} /\ privacy \in BOOLEAN /\ path \in Paths \cup {NoPath}
  /\ network \in BOOLEAN /\ failed \in BOOLEAN
  /\ dns \in Trimmed(NoPath) /\ mmdb \in Trimmed(path)
  /\ PrivacyStopsLookups

-----------------------------------------------------------------------------
(* The operators of a lookup. *)

\* Storing keeps the entries but one, and makes at most one more.
LEMMA StoreKeeps ==
  ASSUME NEW cache \in Seq(Entries), NEW entry \in Entries
  PROVE  /\ Store(cache, entry) \in Seq(Entries)
         /\ Len(Store(cache, entry)) \in Len(cache)..(Len(cache) + 1)
         /\ \A i \in DOMAIN Store(cache, entry) :
              Store(cache, entry)[i] = entry \/ (i \in DOMAIN cache /\ Store(cache, entry)[i] = cache[i])
<1> DEFINE I == {i \in 1..Len(cache) : cache[i].ip = entry.ip}
           at == IF I # {} THEN Min(I) ELSE 0
<1>1. at = 0 \/ at \in 1..Len(cache)
  <2>1. ASSUME I # {} PROVE Min(I) \in I
    <3>1. I \in SUBSET Nat  OBVIOUS
    <3>2. \E x \in I : \A y \in I : x <= y  BY <2>1, <3>1, SmallestOf
    <3> HIDE DEF I
    <3> QED  BY <3>2 DEF Min
  <2> QED  BY <2>1
<1>2. Store(cache, entry) = IF at = 0 THEN Append(cache, entry) ELSE [cache EXCEPT ![at] = entry]
  BY DEF Store, ReplaceAt, SelectInSeq
<1> HIDE DEF at
<1>3. CASE at = 0
  <2>1. Store(cache, entry) = Append(cache, entry)  BY <1>2, <1>3
  <2> QED  BY <2>1, AppendProperties
<1>4. CASE at # 0
  <2>1. Store(cache, entry) = [cache EXCEPT ![at] = entry] /\ at \in 1..Len(cache)  BY <1>1, <1>2, <1>4
  <2> QED  BY <2>1, ExceptSeq
<1> QED  BY <1>3, <1>4

\* A worker that is settled was one.
LEMMA SettledWorks ==
  ASSUME NEW l \in Lookups, Settled(l)
  PROVE  l.worker \in Workers
BY DEF Lookups, Settled, Overdue, NoWorker

\* Settling stores the worker's answer for the worker's address.
LEMMA SettleSound ==
  ASSUME NEW db, NEW l \in Trimmed(db), now \in 0..MaxTime, db \in Paths \cup {NoPath}
  PROVE  Settle(l) \in Sound(db) /\ Len(Settle(l).cache) <= CacheCap + 1 /\ InTime(Settle(l))
<1>1. l \in Lookups /\ Len(l.pending) <= QueueCap /\ ReadsFrom(l, db) /\ AskedOnce(l) /\ Len(l.cache) <= CacheCap
  BY DEF Trimmed, Sound
<1>2. l.cache \in Seq(Entries) /\ l.pending \in Seq(Addresses) /\ Len(l.cache) \in Nat  BY <1>1 DEF Lookups
<1>3. CASE ~Settled(l)
  <2>1. Settle(l) = l  BY <1>3 DEF Settle
  <2>2. InTime(l)
    <3>1. l.worker.state = "runs" => l.worker \in Workers  BY <1>1 DEF Lookups, NoWorker
    <3>2. l.worker \in Workers => l.worker.at \in Nat  BY LimitAssumption DEF Workers
    <3> QED  BY <1>3, <3>1, <3>2, LimitAssumption DEF Settled, Overdue, InTime
  <2> QED  BY <1>1, <1>2, <2>1, <2>2, LimitAssumption DEF Sound
<1>4. CASE Settled(l)
  <2> DEFINE w == l.worker
             entry == [ip |-> w.ip, at |-> now, answer |-> Result(w)]
             new == Store(l.cache, entry)
  <2>1. w \in Workers  BY <1>1, <1>4, SettledWorks
  <2>2. w # NoWorker  BY <1>4, LimitAssumption DEF Settled, Overdue, NoWorker
  <2>3. Result(w) \in Answers \cup {NoAnswer}  BY <2>1 DEF Result, Answers, Workers
  <2>4. entry \in Entries  BY <2>1, <2>3 DEF Entries, Workers
  <2>5. Result(w) # NoAnswer => Result(w) = [ip |-> w.ip, path |-> db]  BY <1>1, <2>2 DEF Result, ReadsFrom
  <2>6. entry.ip = w.ip /\ entry.answer = Result(w)  OBVIOUS
  <2> HIDE DEF entry
  <2>7. new \in Seq(Entries) /\ Len(new) \in Len(l.cache)..(Len(l.cache) + 1)
        /\ \A i \in DOMAIN new : new[i] = entry \/ (i \in DOMAIN l.cache /\ new[i] = l.cache[i])
    BY <1>2, <2>4, StoreKeeps
  <2>8. Settle(l) = [l EXCEPT !.cache = new, !.worker = NoWorker]  BY <1>4 DEF Settle, entry
  <2> HIDE DEF new
  <2>9. Settle(l) = [cache |-> new, pending |-> l.pending, worker |-> NoWorker]
    BY <1>1, <2>8 DEF Lookups
  <2>10. Settle(l) \in Lookups  BY <1>2, <2>7, <2>9 DEF Lookups
  <2>11. ReadsFrom(Settle(l), db)
    <3> SUFFICES ASSUME NEW i \in DOMAIN new, new[i].answer # NoAnswer
                 PROVE  new[i].answer = [ip |-> new[i].ip, path |-> db]
      BY <2>9 DEF ReadsFrom
    <3>1. CASE new[i] = entry
      <4> HIDE DEF w
      <4> QED  BY <2>5, <2>6, <3>1
    <3>2. CASE i \in DOMAIN l.cache /\ new[i] = l.cache[i]  BY <1>1, <3>2 DEF ReadsFrom
    <3> QED  BY <2>7, <3>1, <3>2
  <2>12. AskedOnce(Settle(l))
    <3>1. ~Contains(l.pending, NoPath)  BY <1>2, AddressAssumption DEF Contains
    <3> QED  BY <1>1, <2>9, <3>1 DEF AskedOnce, NoWorker
  <2>13. InTime(Settle(l))  BY <2>9 DEF InTime, NoWorker
  <2>14. Len(new) <= CacheCap + 1  BY <1>1, <1>2, <2>7, LimitAssumption
  <2> QED  BY <1>1, <2>9, <2>10, <2>11, <2>12, <2>13, <2>14 DEF Sound
<1> QED  BY <1>3, <1>4

\* Trimming keeps the newest entries.
LEMMA TrimSound ==
  ASSUME NEW db, NEW l \in Sound(db)
  PROVE  Trim(l) \in Trimmed(db) /\ Trim(l).worker = l.worker /\ Trim(l).pending = l.pending
<1>1. l \in Lookups /\ Len(l.pending) <= QueueCap /\ ReadsFrom(l, db) /\ AskedOnce(l)  BY DEF Sound
<1> DEFINE n == Len(l.cache)
           new == IF n > CacheCap THEN SubSeq(l.cache, n - CacheCap + 1, n) ELSE l.cache
<1>2. l.cache \in Seq(Entries) /\ n \in Nat /\ CacheCap \in Nat \ {0}  BY <1>1, LimitAssumption DEF Lookups
<1>3. Trim(l) = [cache |-> new, pending |-> l.pending, worker |-> l.worker]
  <2>1. Trim(l) = [l EXCEPT !.cache = new]  BY DEF Trim
  <2> HIDE DEF new
  <2> QED  BY <1>1, <2>1 DEF Lookups
<1>4. new \in Seq(Entries) /\ Len(new) <= CacheCap
      /\ \A i \in DOMAIN new : \E j \in DOMAIN l.cache : new[i] = l.cache[j]
  <2>1. CASE n > CacheCap
    <3>1. new = SubSeq(l.cache, n - CacheCap + 1, n)  BY <2>1
    <3>2. n - CacheCap + 1 \in 1..(n + 1) /\ n \in (n - CacheCap)..n  BY <1>2, <2>1
    <3> HIDE DEF new, n
    <3>3. new \in Seq(Entries) /\ Len(new) = CacheCap /\ DOMAIN new = 1..CacheCap
          /\ \A i \in 1..CacheCap : new[i] = l.cache[n - CacheCap + 1 + i - 1]
      BY <1>2, <3>1, <3>2 DEF n
    <3>4. \A i \in 1..CacheCap : n - CacheCap + 1 + i - 1 \in DOMAIN l.cache  BY <1>2, <2>1 DEF n
    <3>5. \A i \in DOMAIN new : \E j \in DOMAIN l.cache : new[i] = l.cache[j]  BY <3>3, <3>4
    <3>6. Len(new) <= CacheCap  BY <1>2, <3>3
    <3> QED  BY <3>3, <3>5, <3>6
  <2>2. CASE ~(n > CacheCap)  BY <1>2, <2>2
  <2> QED  BY <2>1, <2>2
<1> HIDE DEF new
<1>5. Trim(l) \in Lookups  BY <1>1, <1>3, <1>4 DEF Lookups
<1>6. ReadsFrom(Trim(l), db)
  <2>1. ASSUME NEW i \in DOMAIN new, new[i].answer # NoAnswer
        PROVE  new[i].answer = [ip |-> new[i].ip, path |-> db]
    <3>1. PICK j \in DOMAIN l.cache : new[i] = l.cache[j]  BY <1>4
    <3> QED  BY <1>1, <2>1, <3>1 DEF ReadsFrom
  <2> QED  BY <1>1, <1>3, <2>1 DEF ReadsFrom
<1>7. AskedOnce(Trim(l))  BY <1>1, <1>3 DEF AskedOnce
<1> QED  BY <1>1, <1>3, <1>4, <1>5, <1>6, <1>7 DEF Trimmed, Sound

\* The address that is launched waits no longer.
LEMMA LaunchSound ==
  ASSUME NEW db, NEW l \in Trimmed(db), NEW allowed, InTime(l), now \in 0..MaxTime, db \in Paths \cup {NoPath}
  PROVE  Launch(l, allowed, db) \in Trimmed(db) /\ InTime(Launch(l, allowed, db))
<1>1. l \in Lookups /\ Len(l.pending) <= QueueCap /\ ReadsFrom(l, db) /\ AskedOnce(l) /\ Len(l.cache) <= CacheCap
  BY DEF Trimmed, Sound
<1>2. CASE ~Starts(l, allowed)
  <2>1. Launch(l, allowed, db) = l  BY <1>2 DEF Launch
  <2> QED  BY <2>1
<1>3. CASE Starts(l, allowed)
  <2> DEFINE p == l.pending
             w == [ip |-> Head(p), path |-> db, at |-> now, state |-> "runs"]
             k == Launch(l, allowed, db)
  <2>1. p \in Seq(Addresses) /\ p # <<>>  BY <1>1, <1>3 DEF Lookups, Starts
  <2>2. Head(p) \in Addresses /\ Tail(p) \in Seq(Addresses) /\ Len(Tail(p)) = Len(p) - 1 /\ Head(p) = p[1]
        /\ Len(p) \in Nat \ {0} /\ \A i \in 1..Len(Tail(p)) : Tail(p)[i] = p[i + 1]
    BY <2>1
  <2>3. w \in Workers  BY <2>2 DEF Workers
  <2>4. k = [cache |-> l.cache, pending |-> Tail(p), worker |-> w]
    BY <1>1, <1>3 DEF Launch, Lookups
  <2> HIDE DEF k
  <2>5. k \in Lookups  BY <1>1, <2>2, <2>3, <2>4 DEF Lookups
  <2>6. ReadsFrom(k, db)
    <3>1. w.path = db  OBVIOUS
    <3> HIDE DEF w, p
    <3> QED  BY <1>1, <2>4, <3>1 DEF ReadsFrom
  <2>7. \A i, j \in 1..Len(p) : p[i] = p[j] => i = j  BY <1>1, <2>1 DEF AskedOnce, IsInjective
  <2>8. AskedOnce(k)
    <3>1. \A i \in 1..Len(Tail(p)) : i + 1 \in 1..Len(p) /\ Tail(p)[i] = p[i + 1]  BY <2>2
    <3>2. DOMAIN Tail(p) = 1..Len(Tail(p)) /\ Len(Tail(p)) \in Nat /\ 1 \in 1..Len(p)  BY <2>2
    <3> HIDE DEF p
    <3>3. ASSUME NEW i \in DOMAIN Tail(p), NEW j \in DOMAIN Tail(p), Tail(p)[i] = Tail(p)[j] PROVE i = j
      <4>1. p[i + 1] = p[j + 1] /\ i + 1 \in 1..Len(p) /\ j + 1 \in 1..Len(p)  BY <3>1, <3>2, <3>3
      <4>2. i + 1 = j + 1  BY <2>7, <4>1
      <4> QED  BY <3>2, <4>2
    <3>4. ASSUME NEW i \in 1..Len(Tail(p)), Tail(p)[i] = Head(p) PROVE FALSE
      <4>1. p[i + 1] = p[1] /\ i + 1 \in 1..Len(p)  BY <2>2, <3>1, <3>4
      <4>2. i + 1 = 1  BY <2>7, <3>2, <4>1
      <4> QED  BY <3>2, <4>2
    <3> QED  BY <2>4, <3>3, <3>4 DEF AskedOnce, IsInjective, Contains, p
  <2>9. InTime(k)  BY <2>4, LimitAssumption DEF InTime
  <2>10. Len(Tail(p)) <= QueueCap  BY <1>1, <2>2, LimitAssumption
  <2> HIDE DEF w
  <2>11. k \in Trimmed(db)  BY <1>1, <2>4, <2>5, <2>6, <2>8, <2>10 DEF Trimmed, Sound
  <2> QED  BY <2>9, <2>11 DEF k
<1> QED  BY <1>2, <1>3

\* An address is queued only where there is room and it is not looked up yet.
LEMMA QueuedSound ==
  ASSUME NEW db, NEW l \in Trimmed(db), NEW a \in Addresses, InTime(l)
  PROVE  Queued(l, a) \in Trimmed(db) /\ InTime(Queued(l, a))
<1>1. l \in Lookups /\ Len(l.pending) <= QueueCap /\ ReadsFrom(l, db) /\ AskedOnce(l) /\ Len(l.cache) <= CacheCap
  BY DEF Trimmed, Sound
<1>2. CASE Cached(l, a) \/ a = l.worker.ip \/ Contains(l.pending, a) \/ Len(l.pending) >= QueueCap
  <2>1. Queued(l, a) = l  BY <1>2 DEF Queued
  <2> QED  BY <2>1
<1>3. CASE ~(Cached(l, a) \/ a = l.worker.ip \/ Contains(l.pending, a) \/ Len(l.pending) >= QueueCap)
  <2> DEFINE p == l.pending
             q == Append(p, a)
  <2>1. p \in Seq(Addresses) /\ Len(p) \in Nat  BY <1>1 DEF Lookups
  <2>2. q \in Seq(Addresses) /\ Len(q) = Len(p) + 1 /\ q[Len(p) + 1] = a /\ \A i \in 1..Len(p) : q[i] = p[i]
    BY <2>1, AppendProperties
  <2>3. Queued(l, a) = [cache |-> l.cache, pending |-> q, worker |-> l.worker]
    BY <1>1, <1>3 DEF Queued, Lookups
  <2>4. \A i \in 1..Len(p) : p[i] # a /\ p[i] # l.worker.ip
    BY <1>1, <1>3 DEF Contains, AskedOnce
  <2>5. \A i, j \in 1..Len(p) : p[i] = p[j] => i = j  BY <1>1, <2>1 DEF AskedOnce, IsInjective
  <2>6. DOMAIN q = 1..(Len(p) + 1)  BY <2>2
  <2>7. a # l.worker.ip  BY <1>3
  <2> HIDE DEF q, p
  <2>8. \A i, j \in DOMAIN q : q[i] = q[j] => i = j
    <3> SUFFICES ASSUME NEW i \in 1..(Len(p) + 1), NEW j \in 1..(Len(p) + 1), q[i] = q[j] PROVE i = j
      BY <2>6
    <3>1. i = Len(p) + 1 \/ i \in 1..Len(p)  BY <2>1
    <3>2. j = Len(p) + 1 \/ j \in 1..Len(p)  BY <2>1
    <3> QED  BY <2>2, <2>4, <2>5, <3>1, <3>2
  <2>9. \A i \in 1..Len(q) : q[i] # l.worker.ip
    <3> SUFFICES ASSUME NEW i \in 1..(Len(p) + 1) PROVE q[i] # l.worker.ip  BY <2>2
    <3>1. i = Len(p) + 1 \/ i \in 1..Len(p)  BY <2>1
    <3> QED  BY <2>2, <2>4, <2>7, <3>1
  <2>10. Queued(l, a) \in Lookups  BY <1>1, <2>2, <2>3 DEF Lookups
  <2>11. AskedOnce(Queued(l, a))  BY <2>3, <2>8, <2>9 DEF AskedOnce, IsInjective, Contains
  <2>12. ReadsFrom(Queued(l, a), db)  BY <1>1, <2>3 DEF ReadsFrom
  <2>13. Len(q) <= QueueCap  BY <1>3, <2>1, <2>2, LimitAssumption DEF p
  <2>14. InTime(Queued(l, a))  BY <2>3 DEF InTime
  <2> QED  BY <1>1, <2>3, <2>10, <2>11, <2>12, <2>13, <2>14 DEF Trimmed, Sound
<1> QED  BY <1>2, <1>3

\* What asking does, one contact after the other.
LEMMA AskedRuns ==
  ASSUME NEW S, NEW l \in S, NEW contacts \in Seq(Addresses),
         \A k \in S, a \in Addresses : Queued(k, a) \in S
  PROVE  \E f \in [0..Len(contacts) -> S] :
           /\ f[0] = l /\ f[Len(contacts)] = Asked(l, contacts)
           /\ \A i \in 1..Len(contacts) : f[i] = Queued(f[i - 1], contacts[i])
<1> DEFINE n == Len(contacts)
           step == [u \in S \X (1..n) |-> Queued(u[1], contacts[u[2]])]
           Fold(g) == g = [s \in SUBSET (DOMAIN contacts) |->
                             IF s = {} THEN l ELSE Queued(g[s \ {Max(s)}], contacts[Max(s)])]
           iter == CHOOSE g : Fold(g)
<1>1. n \in Nat /\ DOMAIN contacts = 1..n /\ \A i \in 1..n : contacts[i] \in Addresses  OBVIOUS
<1>2. step \in [S \X (1..n) -> S]
  <2> SUFFICES ASSUME NEW u \in S \X (1..n) PROVE Queued(u[1], contacts[u[2]]) \in S  OBVIOUS
  <2> HIDE DEF n
  <2> QED  BY <1>1
<1>3. PICK g \in [SUBSET (1..n) -> S] : Folding(g, n, l, step)
  <2> HIDE DEF n, step
  <2> QED  BY <1>1, <1>2, FoldExists
<1> HIDE DEF n
<1>4. ASSUME NEW k \in S, NEW i \in 1..n PROVE step[<<k, i>>] = Queued(k, contacts[i])  OBVIOUS
<1>5. \A s \in SUBSET (1..n) : s # {} => Max(s) \in 1..n  BY <1>1, MaxTyped
<1> HIDE DEF step
<1>6. Fold(g)
  <2>1. ASSUME NEW s \in SUBSET (1..n), s # {} PROVE g[s] = Queued(g[s \ {Max(s)}], contacts[Max(s)])
    BY <1>3, <1>4, <1>5, <2>1 DEF Folding
  <2> QED  BY <1>1, <1>3, <2>1 DEF Folding
<1>7. Fold(iter)  BY <1>6
<1>8. Asked(l, contacts) = iter[1..n]  BY <1>1 DEF Asked, FoldLeft, MapThenFoldSet
<1> HIDE DEF iter
<1>9. Unfolds(iter, n, S, l, step)  BY <1>1, <1>4, <1>5, <1>7 DEF Unfolds
<1>10. PICK f \in [0..n -> S] : RunOf(f, n, l, step, iter[1..n])
  BY <1>1, <1>2, <1>9, FoldRuns
<1>11. ASSUME NEW i \in 1..n PROVE f[i] = Queued(f[i - 1], contacts[i])
  <2>1. i - 1 \in 0..n  BY <1>1
  <2> QED  BY <1>4, <1>10, <2>1 DEF RunOf
<1> QED  BY <1>8, <1>10, <1>11 DEF n, RunOf

\* What holds of a lookup and of each address it is asked for holds of all that are asked.
LEMMA AskedStays ==
  ASSUME NEW S, NEW l \in S, NEW contacts \in Seq(Addresses),
         \A k \in S, a \in Addresses : Queued(k, a) \in S
  PROVE  Asked(l, contacts) \in S
<1>1. PICK f \in [0..Len(contacts) -> S] : f[Len(contacts)] = Asked(l, contacts)  BY AskedRuns
<1>2. Len(contacts) \in 0..Len(contacts)  OBVIOUS
<1> QED  BY <1>1, <1>2

\* The contacts of a sample are some of the addresses in some order.
LEMMA ContactsAreAddresses ==
  ASSUME NEW contacts \in SetToAllKPermutations(Addresses)
  PROVE  contacts \in Seq(Addresses)
<1>1. PICK s \in SUBSET Addresses : contacts \in SetToSeqs(s)  BY DEF SetToAllKPermutations
<1>2. Cardinality(s) \in Nat  BY AddressAssumption, FS_Subset, FS_CardinalityType
<1>3. contacts \in [1..Cardinality(s) -> s]  BY <1>1 DEF SetToSeqs
<1> QED  BY <1>2, <1>3, IsASeq

-----------------------------------------------------------------------------
(* One lookup through a sample. *)

\* Nothing runs and nothing waits.
Quiet(l) == l.worker = NoWorker /\ l.pending = <<>>

\* A lookup that is settled, trimmed and launched, and one that is asked besides, is as sound as
\* it was; and one that was quiet is quiet until it is asked.
LEMMA LookupSampled ==
  ASSUME NEW db, db \in Paths \cup {NoPath}, NEW l \in Trimmed(db), NEW allowed, now \in 0..MaxTime,
         NEW contacts \in Seq(Addresses), NEW k, k = Launch(Trim(Settle(l)), allowed, db)
  PROVE  /\ k \in Trimmed(db) /\ InTime(k)
         /\ Asked(k, contacts) \in Trimmed(db) /\ InTime(Asked(k, contacts))
         /\ Quiet(l) => Quiet(k)
<1> DEFINE S == {e \in Trimmed(db) : InTime(e)}
           s == Settle(l)
           t == Trim(s)
<1>1. s \in Sound(db) /\ InTime(s)  BY SettleSound
<1> HIDE DEF s
<1>2. t \in Trimmed(db) /\ t.worker = s.worker /\ t.pending = s.pending  BY <1>1, TrimSound
<1>3. InTime(t)  BY <1>1, <1>2 DEF InTime
<1> HIDE DEF t
<1>4. k = Launch(t, allowed, db)  BY DEF s, t
<1>5. k \in Trimmed(db) /\ InTime(k)  BY <1>2, <1>3, <1>4, LaunchSound
<1>6. \A e \in S, a \in Addresses : Queued(e, a) \in S  BY QueuedSound
<1>7. k \in S  BY <1>5
<1> HIDE DEF S
<1>8. Asked(k, contacts) \in S  BY <1>6, <1>7, AskedStays
<1>9. ASSUME Quiet(l) PROVE Quiet(k)
  <2>1. s = l  BY <1>9 DEF s, Settle, Settled, Overdue, Quiet, NoWorker
  <2>2. k = t  BY <1>2, <1>4, <1>9, <2>1 DEF Launch, Starts, Quiet
  <2> QED  BY <1>2, <1>9, <2>1, <2>2 DEF Quiet
<1> QED  BY <1>5, <1>8, <1>9 DEF S

\* A lookup without worker and queue is sound if its cache is.
LEMMA ClearedSound ==
  ASSUME NEW db, NEW l \in Trimmed(db)
  PROVE  Cleared(l) \in Trimmed(db) /\ Quiet(Cleared(l))
<1>1. l \in Lookups /\ ReadsFrom(l, db) /\ Len(l.cache) <= CacheCap  BY DEF Trimmed, Sound
<1>2. Cleared(l) = [cache |-> l.cache, pending |-> <<>>, worker |-> NoWorker]
  <2>1. l = [cache |-> l.cache, pending |-> l.pending, worker |-> l.worker]  BY <1>1 DEF Lookups
  <2>2. Cleared(l) = [[l EXCEPT !.worker = NoWorker] EXCEPT !.pending = <<>>]  BY DEF Cleared
  <2> QED  BY <2>1, <2>2
<1>3. Cleared(l) \in Lookups  BY <1>1, <1>2 DEF Lookups
<1>4. AskedOnce(Cleared(l)) /\ Len(<<>>) <= QueueCap
  BY <1>2, LimitAssumption DEF AskedOnce, IsInjective, Contains
<1>5. ReadsFrom(Cleared(l), db) /\ Quiet(Cleared(l))  BY <1>1, <1>2 DEF ReadsFrom, Quiet
<1> QED  BY <1>1, <1>2, <1>3, <1>4, <1>5 DEF Trimmed, Sound

\* So is an empty one, whatever it will read.
LEMMA IdleSound == \A db : Idle \in Trimmed(db) /\ Quiet(Idle)
<1> SUFFICES ASSUME NEW db PROVE Idle \in Trimmed(db) /\ Quiet(Idle)  OBVIOUS
<1>1. Idle \in Lookups /\ Len(<<>>) = 0 /\ 0 <= QueueCap /\ 0 <= CacheCap  BY LimitAssumption DEF Idle, Lookups
<1>2. ReadsFrom(Idle, db) /\ AskedOnce(Idle) /\ Quiet(Idle)
  BY DEF Idle, ReadsFrom, AskedOnce, IsInjective, Contains, Quiet
<1> QED  BY <1>1, <1>2 DEF Trimmed, Sound, Idle

\* What becomes of a worker changes neither whom it is for nor where it was read.
LEMMA FinishedSound ==
  ASSUME NEW db, NEW l \in Trimmed(db), l.worker.state = "runs", NEW s \in {"found", "nothing", "lost"}
  PROVE  [l EXCEPT !.worker.state = s] \in Trimmed(db)
<1> DEFINE w == [l.worker EXCEPT !.state = s]
           k == [l EXCEPT !.worker.state = s]
<1>1. l \in Lookups /\ Len(l.pending) <= QueueCap /\ ReadsFrom(l, db) /\ AskedOnce(l) /\ Len(l.cache) <= CacheCap
  BY DEF Trimmed, Sound
<1>2. l.worker \in Workers /\ l.worker # NoWorker  BY <1>1 DEF Lookups, NoWorker
<1>3. w \in Workers /\ w.ip = l.worker.ip /\ w.path = l.worker.path  BY <1>2 DEF Workers
<1>4. k = [cache |-> l.cache, pending |-> l.pending, worker |-> w]
  <2>1. k = [l EXCEPT !.worker = w]  OBVIOUS
  <2> HIDE DEF w, k
  <2> QED  BY <1>1, <2>1 DEF Lookups
<1> HIDE DEF w, k
<1>5. k \in Lookups  BY <1>1, <1>3, <1>4 DEF Lookups
<1>6. ReadsFrom(k, db)  BY <1>1, <1>2, <1>3, <1>4 DEF ReadsFrom
<1>7. AskedOnce(k)  BY <1>1, <1>3, <1>4 DEF AskedOnce
<1>8. k \in Trimmed(db)  BY <1>1, <1>4, <1>5, <1>6, <1>7 DEF Trimmed, Sound
<1> QED  BY <1>8 DEF k

\* A lookup whose worker could not be started is as sound as it was, and was not quiet.
LEMMA LookupLost ==
  ASSUME NEW db, db \in Paths \cup {NoPath}, NEW l \in Trimmed(db), NEW allowed, now \in 0..MaxTime,
         NEW t, t = Trim(Settle(l)), Starts(t, allowed), NEW k, k = Lost(t, allowed, db)
  PROVE  k \in Trimmed(db) /\ InTime(k) /\ ~Quiet(l)
<1> DEFINE s == Settle(l)
           j == Launch(t, allowed, db)
<1>1. s \in Sound(db) /\ InTime(s)  BY SettleSound
<1>2. s.pending = l.pending
  <2>1. l \in Lookups  BY DEF Trimmed, Sound
  <2> QED  BY <2>1 DEF Settle, Lookups
<1> HIDE DEF s
<1>3. t \in Trimmed(db) /\ t.worker = s.worker /\ t.pending = s.pending  BY <1>1, TrimSound DEF s
<1>4. j \in Trimmed(db)
  <2>1. InTime(t)  BY <1>1, <1>3 DEF InTime
  <2> QED  BY <1>3, <2>1, LaunchSound
<1>5. j.worker.state = "runs"
  <2>1. t = [cache |-> t.cache, pending |-> t.pending, worker |-> t.worker]  BY <1>3 DEF Trimmed, Sound, Lookups
  <2> QED  BY <2>1 DEF Launch
<1>6. k = [j EXCEPT !.worker.state = "lost"]  BY DEF Lost
<1>7. j = [cache |-> j.cache, pending |-> j.pending, worker |-> j.worker] /\ j.worker \in Workers
  BY <1>4, <1>5 DEF Trimmed, Sound, Lookups, NoWorker
<1> HIDE DEF j
<1>8. k \in Trimmed(db)  BY <1>4, <1>5, <1>6, FinishedSound
<1>9. InTime(k)  BY <1>6, <1>7 DEF InTime, Workers
<1>10. ~Quiet(l)  BY <1>2, <1>3 DEF Starts, Quiet
<1> QED  BY <1>8, <1>9, <1>10

-----------------------------------------------------------------------------
(* The steps. *)

LEMMA InitSound == Init => IInv
<1> SUFFICES ASSUME Init PROVE IInv  OBVIOUS
<1>1. Idle \in Trimmed(NoPath) /\ Quiet(Idle)  BY IdleSound
<1>2. dns \in Trimmed(NoPath) /\ mmdb \in Trimmed(path) /\ Quiet(dns) /\ Quiet(mmdb)  BY <1>1 DEF Init
<1>3. now \in 0..MaxTime  BY LimitAssumption DEF Init
<1> QED  BY <1>2, <1>3 DEF Init, IInv, PrivacyStopsLookups, Quiet

\* A sample: both lookups are sound, and quiet where nothing is allowed, and in time.
LEMMA SampleSound ==
  ASSUME IInv, NEW contacts \in Seq(Addresses), Sample(contacts)
  PROVE  IInv' /\ InTime(dns') /\ InTime(mmdb')
<1> DEFINE error == failed \/ MmdbFails
           d == Launch(Trim(Settle(dns)), DnsAllowed, NoPath)
           m == Launch(Trim(Settle(mmdb)), MmdbAllowed(error), path)
<1>1. now \in 0..MaxTime /\ dns \in Trimmed(NoPath) /\ mmdb \in Trimmed(path) /\ path \in Paths \cup {NoPath}
  BY DEF IInv
<1>2. /\ d \in Trimmed(NoPath) /\ InTime(d)
      /\ Asked(d, contacts) \in Trimmed(NoPath) /\ InTime(Asked(d, contacts))
      /\ Quiet(dns) => Quiet(d)
  BY <1>1, LookupSampled
<1>3. /\ m \in Trimmed(path) /\ InTime(m)
      /\ Asked(m, contacts) \in Trimmed(path) /\ InTime(Asked(m, contacts))
      /\ Quiet(mmdb) => Quiet(m)
  <2> HIDE DEF error
  <2> QED  BY <1>1, LookupSampled
<1>4. /\ network /\ now < MaxTime
      /\ dns' = IF DnsAllowed THEN Asked(d, contacts) ELSE d
      /\ mmdb' = IF MmdbAllowed(error) THEN Asked(m, contacts) ELSE m
      /\ failed' = error
      /\ now' = now + 1
      /\ UNCHANGED <<mode, privacy, path, network>>
  BY DEF Sample
<1> HIDE DEF d, m
<1>5. dns' \in Trimmed(NoPath) /\ InTime(dns')  BY <1>2, <1>4
<1>6. mmdb' \in Trimmed(path) /\ InTime(mmdb')  BY <1>3, <1>4
<1>7. ASSUME privacy \/ mode # "dns" PROVE Quiet(dns')
  BY <1>2, <1>4, <1>7 DEF IInv, PrivacyStopsLookups, DnsAllowed, Quiet
<1>8. ASSUME privacy PROVE Quiet(mmdb')
  BY <1>3, <1>4, <1>8 DEF IInv, PrivacyStopsLookups, MmdbAllowed, Quiet
<1>9. now' \in 0..MaxTime  BY <1>1, <1>4, LimitAssumption
<1>10. failed' \in BOOLEAN  BY <1>4 DEF MmdbFails
<1> QED  BY <1>4, <1>5, <1>6, <1>7, <1>8, <1>9, <1>10 DEF IInv, PrivacyStopsLookups, Quiet

\* A sample that breaks off: what it has looked at is sound, and in time unless it was the DNS lookup
\* that broke it off.
LEMMA BrokenOffSound ==
  ASSUME IInv, SampleBreaksOff
  PROVE  /\ IInv'
         /\ (dns'.worker.state = "lost" /\ dns'.worker.at = now) \/ (InTime(dns') /\ InTime(mmdb'))
<1> DEFINE error == failed \/ MmdbFails
           d == Trim(Settle(dns))
           m == Trim(Settle(mmdb))
<1>1. now \in 0..MaxTime /\ dns \in Trimmed(NoPath) /\ mmdb \in Trimmed(path) /\ path \in Paths \cup {NoPath}
      /\ NoPath \in Paths \cup {NoPath}
  BY DEF IInv
<1>2. now' \in 0..MaxTime /\ UNCHANGED <<mode, privacy, path, network>>
  BY <1>1, LimitAssumption DEF SampleBreaksOff
<1>3. CASE Starts(d, DnsAllowed) /\ dns' = Lost(d, DnsAllowed, NoPath) /\ UNCHANGED <<mmdb, failed>>
  <2>1. dns' \in Trimmed(NoPath)  BY <1>1, <1>3, LookupLost
  <2>2. dns'.worker.state = "lost" /\ dns'.worker.at = now
    <3> DEFINE w == [ip |-> Head(d.pending), path |-> NoPath, at |-> now, state |-> "runs"]
    <3>1. Settle(dns) \in Sound(NoPath)  BY <1>1, SettleSound
    <3>2. d \in Lookups  BY <3>1, TrimSound DEF Trimmed, Sound
    <3>3. d = [cache |-> d.cache, pending |-> d.pending, worker |-> d.worker]  BY <3>2 DEF Lookups
    <3> HIDE DEF d
    <3>4. Launch(d, DnsAllowed, NoPath) = [cache |-> d.cache, pending |-> Tail(d.pending), worker |-> w]
      BY <1>3, <3>3 DEF Launch
    <3>5. dns' = [Launch(d, DnsAllowed, NoPath) EXCEPT !.worker.state = "lost"]  BY <1>3 DEF Lost
    <3> QED  BY <3>4, <3>5
  <2>3. DnsAllowed  BY <1>3 DEF Starts
  <2> QED  BY <1>2, <1>3, <2>1, <2>2, <2>3 DEF IInv, PrivacyStopsLookups, DnsAllowed
<1>4. CASE /\ Starts(m, MmdbAllowed(error))
           /\ dns' = Launch(d, DnsAllowed, NoPath)
           /\ mmdb' = Lost(m, MmdbAllowed(error), path)
           /\ failed' = error
  <2> HIDE DEF error
  <2>1. dns' \in Trimmed(NoPath) /\ InTime(dns') /\ (Quiet(dns) => Quiet(dns'))
    <3>1. <<>> \in Seq(Addresses)  OBVIOUS
    <3> QED  BY <1>1, <1>4, <3>1, LookupSampled
  <2>2. mmdb' \in Trimmed(path) /\ InTime(mmdb') /\ ~Quiet(mmdb)  BY <1>1, <1>4, LookupLost
  <2>3. failed' \in BOOLEAN  BY <1>4 DEF error, MmdbFails
  <2> QED  BY <1>2, <2>1, <2>2, <2>3 DEF IInv, PrivacyStopsLookups, Quiet
<1> QED  BY <1>3, <1>4 DEF SampleBreaksOff

LEMMA ConfigureSound ==
  ASSUME IInv, NEW m \in {"local", "dns"}, NEW p \in BOOLEAN, NEW db \in Paths \cup {NoPath}, Configure(m, p, db)
  PROVE  IInv'
<1> DEFINE reopened == IF db # path THEN Reopened(mmdb) ELSE mmdb
<1>1. dns \in Trimmed(NoPath) /\ mmdb \in Trimmed(path)  BY DEF IInv
<1>2. dns' \in Trimmed(NoPath) /\ (p \/ m # "dns" => Quiet(dns'))
  BY <1>1, ClearedSound DEF Configure
<1>3. reopened \in Trimmed(db)  BY <1>1, IdleSound DEF Reopened
<1>4. mmdb' = IF p THEN Hushed(reopened) ELSE reopened  BY DEF Configure
<1> HIDE DEF reopened
<1>5. mmdb' \in Trimmed(db) /\ (p => Quiet(mmdb'))  BY <1>3, <1>4, ClearedSound DEF Hushed
<1>6. mode' = m /\ privacy' = p /\ path' = db /\ UNCHANGED <<now, network>>
      /\ failed' = (IF db # path THEN FALSE ELSE failed)  BY DEF Configure
<1>7. failed' \in BOOLEAN  BY <1>6 DEF IInv
<1> QED  BY <1>2, <1>5, <1>6, <1>7 DEF IInv, PrivacyStopsLookups, Quiet

\* Every step keeps the invariant.
LEMMA StepSound == IInv /\ [Next]_vars => IInv'
<1> SUFFICES ASSUME IInv, [Next]_vars PROVE IInv'  OBVIOUS
<1>1. ASSUME NEW contacts \in SetToAllKPermutations(Addresses), Sample(contacts) PROVE IInv'
  BY <1>1, ContactsAreAddresses, SampleSound
<1>2. CASE SampleElsewhere
  <2>1. now' \in 0..MaxTime  BY <1>2, LimitAssumption DEF SampleElsewhere, IInv
  <2> QED  BY <1>2, <2>1 DEF SampleElsewhere, IInv, PrivacyStopsLookups
<1>3. CASE SwitchInstrument  BY <1>3 DEF SwitchInstrument, IInv, PrivacyStopsLookups
<1>4. ASSUME NEW m \in {"local", "dns"}, NEW p \in BOOLEAN, NEW db \in Paths \cup {NoPath}, Configure(m, p, db)
      PROVE  IInv'
  BY <1>4, ConfigureSound
<1>5. ASSUME NEW s \in {"found", "nothing"}, DnsFinishes(s) PROVE IInv'
  <2>1. dns' \in Trimmed(NoPath)  BY <1>5, FinishedSound DEF DnsFinishes, IInv
  <2>2. ~(privacy \/ mode # "dns")  BY <1>5 DEF DnsFinishes, IInv, PrivacyStopsLookups, NoWorker
  <2> QED  BY <1>5, <2>1, <2>2 DEF DnsFinishes, IInv, PrivacyStopsLookups
<1>6. ASSUME NEW s \in {"found", "nothing"}, MmdbFinishes(s) PROVE IInv'
  <2>1. mmdb' \in Trimmed(path)  BY <1>6, FinishedSound DEF MmdbFinishes, IInv
  <2>2. ~privacy  BY <1>6 DEF MmdbFinishes, IInv, PrivacyStopsLookups, NoWorker
  <2> QED  BY <1>6, <2>1, <2>2 DEF MmdbFinishes, IInv, PrivacyStopsLookups
<1>7. CASE UNCHANGED vars  BY <1>7 DEF vars, IInv, PrivacyStopsLookups
<1>8. CASE SampleBreaksOff  BY <1>8, BrokenOffSound
<1> QED  BY <1>1, <1>2, <1>3, <1>4, <1>5, <1>6, <1>7, <1>8 DEF Next

THEOREM InvariantHolds == Spec => []IInv
BY InitSound, StepSound, PTL DEF Spec

-----------------------------------------------------------------------------
(* The theorems. *)

\* Every cache and queue keeps within its limit, and holds what it should.
THEOREM TypesHold == Spec => []TypeOK
<1>1. IInv => TypeOK  BY DEF IInv, TypeOK, LookupOK, Trimmed, Sound
<1> QED  BY <1>1, InvariantHolds, PTL

\* Under privacy no lookup runs or waits, and none asks DNS in a mode that did not opt in.
THEOREM PrivacyIsKept == Spec => []PrivacyStopsLookups
<1>1. IInv => PrivacyStopsLookups  BY DEF IInv
<1> QED  BY <1>1, InvariantHolds, PTL

\* An answer is kept for the address it was asked for, and read from the configured database.
THEOREM AnswersStayTrue == Spec => []AnswersBelong
<1>1. ASSUME IInv PROVE AnswersBelong
  <2>1. ReadsFrom(dns, NoPath) /\ ReadsFrom(mmdb, path)  BY <1>1 DEF IInv, Trimmed, Sound
  <2> SUFFICES ASSUME NEW l \in {dns, mmdb}, NEW i \in DOMAIN l.cache, l.cache[i].answer # NoAnswer
               PROVE  l.cache[i].answer.ip = l.cache[i].ip /\ (l = mmdb => l.cache[i].answer.path = path)
    BY DEF AnswersBelong
  <2>2. ASSUME NEW db, ReadsFrom(l, db) PROVE l.cache[i].answer.ip = l.cache[i].ip /\ l.cache[i].answer.path = db
    <3>1. l.cache[i].answer = [ip |-> l.cache[i].ip, path |-> db]  BY <2>2 DEF ReadsFrom
    <3> QED  BY <3>1
  <2> QED  BY <2>1, <2>2
<1> QED  BY <1>1, InvariantHolds, PTL

\* No address waits twice, or waits while it is looked up.
THEOREM LookedUpOnce == Spec => []NoDuplicateLookup
<1>1. IInv => NoDuplicateLookup  BY DEF IInv, Trimmed, Sound, AskedOnce, NoDuplicateLookup
<1> QED  BY <1>1, InvariantHolds, PTL

\* A sample with the network leaves no worker beyond its limit, unless it broke off before it looked.
THEOREM OverdueAreKilled == Spec => SampleEndsOverdue
<1> DEFINE Ends == now' # now /\ network /\ ~(dns'.worker.state = "lost" /\ dns'.worker.at = now) =>
                     \A l \in {dns', mmdb'} : l.worker.state = "runs" => now - l.worker.at <= Timeout
<1>1. ASSUME IInv, [Next]_vars PROVE [Ends]_vars
  <2>1. ASSUME NEW contacts \in SetToAllKPermutations(Addresses), Sample(contacts) PROVE Ends
    BY <1>1, <2>1, ContactsAreAddresses, SampleSound DEF InTime
  <2>2. CASE SampleElsewhere  BY <2>2 DEF SampleElsewhere
  <2>3. ASSUME now' = now PROVE Ends  BY <2>3
  <2>4. CASE SwitchInstrument  BY <2>3, <2>4 DEF SwitchInstrument
  <2>5. ASSUME NEW m \in {"local", "dns"}, NEW p \in BOOLEAN, NEW db \in Paths \cup {NoPath}, Configure(m, p, db)
        PROVE  Ends
    BY <2>3, <2>5 DEF Configure
  <2>6. ASSUME NEW s \in {"found", "nothing"}, DnsFinishes(s) \/ MmdbFinishes(s) PROVE Ends
    BY <2>3, <2>6 DEF DnsFinishes, MmdbFinishes
  <2>7. CASE SampleBreaksOff  BY <1>1, <2>7, BrokenOffSound DEF InTime, SampleBreaksOff
  <2> HIDE DEF Ends
  <2> QED  BY <1>1, <2>1, <2>2, <2>4, <2>5, <2>6, <2>7 DEF Next
<1>2. IInv /\ [Next]_vars => [Ends]_vars  BY <1>1
<1> QED  BY <1>2, InvariantHolds, PTL DEF Spec, SampleEndsOverdue

=============================================================================
