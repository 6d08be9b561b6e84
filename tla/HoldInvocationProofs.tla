------------------------ MODULE HoldInvocationProofs ------------------------
(***************************************************************************)
(* Proofs about HoldInvocation, for every number of holds and every value  *)
(* of the time limits.  What concerns a late press holds until somebody    *)
(* waits for the flock longer than the skew of the tombstones, as the code *)
(* allows: nothing here assumes that its limits exclude such a wait.       *)
(***************************************************************************)
EXTENDS HoldInvocation, FiniteSetTheorems, TLAPS

Busy == {"ipc", "served"}

\* The flock is owned exactly by the invocation that is talking to the shell.
LockInv ==
  /\ \A i \in Invocations : pc[i] \in Busy => lock = i
  /\ lock # NoOwner => pc[lock] \in Busy

\* A token is created once, and its two processes are spawned once.
SpawnInv ==
  /\ \A t \in Tokens : created[t] = Absent =>
       /\ held # t
       /\ pc[Press(t)] = "unspawned"
       /\ pc[Release(t)] = "unspawned"
  /\ held # NoToken => pc[Release(held)] = "unspawned"
  /\ \A t \in recorded : pc[Release(t)] \in {"ipc", "served", "done"}

\* What clock readings say of one another.
ClockInv ==
  /\ \A t \in Tokens : created[t] <= clock
  /\ \A i \in Invocations : now[i] <= clock
  /\ \A i \in Invocations : pc[i] = "waiting" => clock <= now[i] + LockTimeout
  /\ \A t \in Tokens : pc[Press(t)] = "waiting" => now[Press(t)] <= created[t] + PressTtl
  /\ \A t \in Tokens : pc[Release(t)] = "waiting" \/ t \in recorded => created[t] <= now[Release(t)]

\* A recorded release is in the file, or its press is too old to matter.
Tombs ==
  \A t \in recorded :
    \/ file.session = "current" /\ file.released[t] = now[Release(t)]
    \/ clock > created[t] + PressTtl + LockTimeout

(***************************************************************************)
(* The state file, the clock, the flock and the binding always hold values *)
(* of the shape the code gives them.                                       *)
(***************************************************************************)
LEMMA InitType == Init => TypeOK
<1> SUFFICES ASSUME Init
             PROVE  TypeOK
    OBVIOUS
<1>1. strained \in BOOLEAN
    BY DEF Init
<1>2. QED
    BY <1>1, TokenAssumption, TimeAssumption
       DEF Init, TypeOK, NoTombstones, Absent, Stages, Invocations

LEMMA LoadedType ==
  ASSUME TypeOK
  PROVE  Loaded \in [session : {"current", "previous"},
                     active : Tokens \cup {NoToken},
                     released : [Tokens -> Nat \cup {Absent}]]
  BY DEF TypeOK, Loaded, NoTombstones, Absent

LEMMA StepType == TypeOK /\ [Next]_vars => TypeOK'
<1> SUFFICES ASSUME TypeOK, [Next]_vars
             PROVE  TypeOK'
    OBVIOUS
<1> USE TokenAssumption, TimeAssumption
<1>a. /\ \A t \in Tokens : Press(t) \in Invocations /\ Release(t) \in Invocations
      /\ {"unspawned", "spawned", "waiting", "ipc", "served", "done"} = Stages
      /\ Absent = -1
    BY DEF Press, Release, Invocations, Stages, Absent
<1>1. ASSUME NEW t \in Tokens, KeyDown(t) PROVE TypeOK'
    BY <1>1, <1>a DEF KeyDown, TypeOK
<1>2. CASE KeyUp
    BY <1>2, <1>a DEF KeyUp, TypeOK
<1>3. ASSUME NEW i \in Invocations, Begin(i) PROVE TypeOK'
    BY <1>3, <1>a DEF Begin, TypeOK
<1>4. ASSUME NEW i \in Invocations, LockTimedOut(i) PROVE TypeOK'
    BY <1>4, <1>a DEF LockTimedOut, Finish, TypeOK
<1>5. ASSUME NEW t \in Tokens, PressLocked(t) PROVE TypeOK'
  <2> DEFINE believed == Retained(Loaded.released, now[Press(t)])
  <2>1. believed \in [Tokens -> Nat \cup {Absent}]
      BY LoadedType DEF Retained
  <2>2. /\ pc' \in [Invocations -> Stages]
        /\ lock' \in Invocations \cup {NoOwner}
        /\ since' \in Nat
      BY <1>5, <1>a DEF PressLocked, StartIpc, Finish, TypeOK
  <2>5. file' \in [session : {"current", "previous"},
                   active : Tokens \cup {NoToken},
                   released : [Tokens -> Nat \cup {Absent}]]
      BY <1>5, <2>1 DEF PressLocked, TypeOK
  <2>3. strained' \in BOOLEAN
      BY <1>5 DEF PressLocked
  <2>4. QED
      BY <1>5, <2>2, <2>3, <2>5 DEF PressLocked, TypeOK
<1>6. ASSUME NEW t \in Tokens, ReleaseLocked(t) PROVE TypeOK'
  <2> DEFINE entombed == [Retained(Loaded.released, now[Release(t)]) EXCEPT ![t] = now[Release(t)]]
  <2>1. entombed \in [Tokens -> Nat \cup {Absent}]
      BY LoadedType, <1>a DEF Retained, TypeOK
  <2>2. \A K : Kept(entombed, K) \in [Tokens -> Nat \cup {Absent}]
      BY <2>1 DEF Kept
  <2>3. OwnerAfter(t) \in Tokens \cup {NoToken}
      BY LoadedType DEF OwnerAfter
  <2>4. file' \in [session : {"current", "previous"},
                   active : Tokens \cup {NoToken},
                   released : [Tokens -> Nat \cup {Absent}]]
      BY <1>6, <2>2, <2>3 DEF ReleaseLocked
  <2>5. /\ pc' \in [Invocations -> Stages]
        /\ lock' \in Invocations \cup {NoOwner}
        /\ since' \in Nat
      BY <1>6, <1>a DEF ReleaseLocked, StartIpc, Finish, TypeOK
  <2>6. strained' \in BOOLEAN
      BY <1>6 DEF ReleaseLocked
  <2>7. QED
      BY <1>6, <2>4, <2>5, <2>6 DEF ReleaseLocked, TypeOK
<1>7. ASSUME NEW i \in Invocations, SaveFailed(i) PROVE TypeOK'
    BY <1>7, <1>a DEF SaveFailed, Finish, TypeOK
<1>8. ASSUME NEW i \in Invocations, Served(i) PROVE TypeOK'
    BY <1>8, <1>a DEF Served, TypeOK, Invocations
<1>9. ASSUME NEW i \in Invocations, Replied(i) PROVE TypeOK'
    BY <1>9, <1>a DEF Replied, Finish, TypeOK
<1>10. ASSUME NEW t \in Tokens, SummonFailed(t) PROVE TypeOK'
  <2>1. [file.released EXCEPT ![t] = now[Press(t)]] \in [Tokens -> Nat \cup {Absent}]
      BY <1>a DEF TypeOK
  <2>2. file' \in [session : {"current", "previous"},
                   active : Tokens \cup {NoToken},
                   released : [Tokens -> Nat \cup {Absent}]]
    <3>1. CASE UNCHANGED file
        BY <3>1 DEF TypeOK
    <3>2. CASE file' = [file EXCEPT !.active = NoToken, !.released[t] = now[Press(t)]]
      <4>1. file' = [file EXCEPT !.active = NoToken,
                                 !.released = [file.released EXCEPT ![t] = now[Press(t)]]]
          BY <3>2
      <4>2. QED
          BY <4>1, <2>1 DEF TypeOK
    <3>3. QED
        BY <1>10, <3>1, <3>2 DEF SummonFailed
  <2>3. QED
      BY <1>10, <1>a, <2>2 DEF SummonFailed, Finish, TypeOK
<1>11. ASSUME NEW t \in Tokens, HideFailed(t) PROVE TypeOK'
    BY <1>11, <1>a DEF HideFailed, Finish, TypeOK
<1>12. ASSUME NEW i \in Invocations, Crash(i) PROVE TypeOK'
    BY <1>12, <1>a DEF Crash, Finish, TypeOK
<1>13. CASE Tick
    BY <1>13 DEF Tick, TypeOK
<1>14. CASE UNCHANGED vars
    BY <1>14 DEF vars, TypeOK
<1>15. QED
    BY <1>1, <1>2, <1>3, <1>4, <1>5, <1>6, <1>7, <1>8, <1>9, <1>10, <1>11, <1>12, <1>13,
       <1>14 DEF Next

\* Type correctness of the specification, for every value of the constants.
THEOREM TypeCorrect == Spec => []TypeOK
  BY InitType, StepType, PTL DEF Spec

-----------------------------------------------------------------------------
LEMMA Distinct ==
  /\ NoOwner \notin Invocations
  /\ \A t \in Tokens : Press(t) \in Invocations /\ Release(t) \in Invocations
  /\ \A t, u \in Tokens : Press(t) # Release(u)
  /\ \A t, u \in Tokens : Press(t) = Press(u) => t = u
  /\ \A t, u \in Tokens : Release(t) = Release(u) => t = u
  /\ \A i \in Invocations : i = Press(i.token) \/ i = Release(i.token)
  /\ \A i \in Invocations : i.token \in Tokens
  /\ \A t \in Tokens : Press(t).action = "press" /\ Press(t).token = t
  /\ \A t \in Tokens : Release(t).action = "release" /\ Release(t).token = t
  BY TokenAssumption DEF NoOwner, Invocations, Press, Release

(***************************************************************************)
(* A token is spawned once: neither a key repeat nor a second release can  *)
(* restart a process of a token that exists.                               *)
(***************************************************************************)
LEMMA StepSpawn == TypeOK /\ SpawnInv /\ [Next]_vars => SpawnInv'
<1> SUFFICES ASSUME TypeOK, SpawnInv, [Next]_vars
             PROVE  SpawnInv'
    OBVIOUS
<1> USE Distinct, TokenAssumption DEF SpawnInv, TypeOK
<1>1. ASSUME NEW t \in Tokens, KeyDown(t) PROVE SpawnInv'
    BY <1>1 DEF KeyDown, Absent
<1>2. CASE KeyUp
    BY <1>2 DEF KeyUp
<1>3. ASSUME NEW i \in Invocations, Begin(i) PROVE SpawnInv'
    BY <1>3 DEF Begin
<1>4. ASSUME NEW i \in Invocations, LockTimedOut(i) PROVE SpawnInv'
    BY <1>4 DEF LockTimedOut, Finish
<1>5. ASSUME NEW t \in Tokens, PressLocked(t) PROVE SpawnInv'
    BY <1>5 DEF PressLocked, StartIpc, Finish
<1>6. ASSUME NEW t \in Tokens, ReleaseLocked(t) PROVE SpawnInv'
    BY <1>6 DEF ReleaseLocked, StartIpc, Finish
<1>7. ASSUME NEW i \in Invocations, SaveFailed(i) PROVE SpawnInv'
    BY <1>7 DEF SaveFailed, Finish
<1>8. ASSUME NEW i \in Invocations, Served(i) PROVE SpawnInv'
    BY <1>8 DEF Served
<1>9. ASSUME NEW i \in Invocations, Replied(i) PROVE SpawnInv'
    BY <1>9 DEF Replied, Finish
<1>10. ASSUME NEW t \in Tokens, SummonFailed(t) PROVE SpawnInv'
    BY <1>10 DEF SummonFailed, Finish
<1>11. ASSUME NEW t \in Tokens, HideFailed(t) PROVE SpawnInv'
    BY <1>11 DEF HideFailed, Finish
<1>12. ASSUME NEW i \in Invocations, Crash(i) PROVE SpawnInv'
    BY <1>12 DEF Crash, Finish
<1>13. CASE Tick
    BY <1>13 DEF Tick
<1>14. CASE UNCHANGED vars
    BY <1>14 DEF vars
<1>15. QED
    BY <1>1, <1>2, <1>3, <1>4, <1>5, <1>6, <1>7, <1>8, <1>9, <1>10, <1>11, <1>12, <1>13,
       <1>14 DEF Next

(***************************************************************************)
(* The flock is held across the whole IPC and by nobody else, whatever     *)
(* fails.                                                                  *)
(***************************************************************************)
LEMMA StepLock == TypeOK /\ SpawnInv /\ LockInv /\ [Next]_vars => LockInv'
<1> SUFFICES ASSUME TypeOK, SpawnInv, LockInv, [Next]_vars
             PROVE  LockInv'
    OBVIOUS
<1> USE Distinct, TokenAssumption DEF LockInv, Busy, TypeOK
<1>1. ASSUME NEW t \in Tokens, KeyDown(t) PROVE LockInv'
    BY <1>1 DEF KeyDown, SpawnInv
<1>2. CASE KeyUp
    BY <1>2 DEF KeyUp, SpawnInv
<1>3. ASSUME NEW i \in Invocations, Begin(i) PROVE LockInv'
    BY <1>3 DEF Begin
<1>4. ASSUME NEW i \in Invocations, LockTimedOut(i) PROVE LockInv'
    BY <1>4 DEF LockTimedOut, Finish
<1>5. ASSUME NEW t \in Tokens, PressLocked(t) PROVE LockInv'
    BY <1>5 DEF PressLocked, StartIpc, Finish
<1>6. ASSUME NEW t \in Tokens, ReleaseLocked(t) PROVE LockInv'
    BY <1>6 DEF ReleaseLocked, StartIpc, Finish
<1>7. ASSUME NEW i \in Invocations, SaveFailed(i) PROVE LockInv'
    BY <1>7 DEF SaveFailed, Finish
<1>8. ASSUME NEW i \in Invocations, Served(i) PROVE LockInv'
    BY <1>8 DEF Served
<1>9. ASSUME NEW i \in Invocations, Replied(i) PROVE LockInv'
    BY <1>9 DEF Replied, Finish
<1>10. ASSUME NEW t \in Tokens, SummonFailed(t) PROVE LockInv'
    BY <1>10 DEF SummonFailed, Finish
<1>11. ASSUME NEW t \in Tokens, HideFailed(t) PROVE LockInv'
    BY <1>11 DEF HideFailed, Finish
<1>12. ASSUME NEW i \in Invocations, Crash(i) PROVE LockInv'
    BY <1>12 DEF Crash, Finish
<1>13. CASE Tick
    BY <1>13 DEF Tick
<1>14. CASE UNCHANGED vars
    BY <1>14 DEF vars
<1>15. QED
    BY <1>1, <1>2, <1>3, <1>4, <1>5, <1>6, <1>7, <1>8, <1>9, <1>10, <1>11, <1>12, <1>13,
       <1>14 DEF Next

(***************************************************************************)
(* How the one clock reading of a process relates to the clock and to the  *)
(* creation of its token.                                                  *)
(***************************************************************************)
LEMMA StepClock == TypeOK /\ SpawnInv /\ ClockInv /\ [Next]_vars => ClockInv'
<1> SUFFICES ASSUME TypeOK, SpawnInv, ClockInv, [Next]_vars
             PROVE  ClockInv'
    OBVIOUS
<1> USE Distinct, TokenAssumption, TimeAssumption DEF ClockInv, TypeOK, Absent
<1>1. ASSUME NEW t \in Tokens, KeyDown(t) PROVE ClockInv'
    BY <1>1 DEF KeyDown, SpawnInv
<1>2. CASE KeyUp
    BY <1>2 DEF KeyUp, SpawnInv
<1>3. ASSUME NEW i \in Invocations, Begin(i) PROVE ClockInv'
    BY <1>3 DEF Begin, Timely, SpawnInv
<1>4. ASSUME NEW i \in Invocations, LockTimedOut(i) PROVE ClockInv'
    BY <1>4 DEF LockTimedOut, Finish
<1>5. ASSUME NEW t \in Tokens, PressLocked(t) PROVE ClockInv'
    BY <1>5 DEF PressLocked, StartIpc, Finish
<1>6. ASSUME NEW t \in Tokens, ReleaseLocked(t) PROVE ClockInv'
    BY <1>6 DEF ReleaseLocked, StartIpc, Finish
<1>7. ASSUME NEW i \in Invocations, SaveFailed(i) PROVE ClockInv'
    BY <1>7 DEF SaveFailed, Finish
<1>8. ASSUME NEW i \in Invocations, Served(i) PROVE ClockInv'
    BY <1>8 DEF Served
<1>9. ASSUME NEW i \in Invocations, Replied(i) PROVE ClockInv'
    BY <1>9 DEF Replied, Finish
<1>10. ASSUME NEW t \in Tokens, SummonFailed(t) PROVE ClockInv'
    BY <1>10 DEF SummonFailed, Finish
<1>11. ASSUME NEW t \in Tokens, HideFailed(t) PROVE ClockInv'
    BY <1>11 DEF HideFailed, Finish
<1>12. ASSUME NEW i \in Invocations, Crash(i) PROVE ClockInv'
    BY <1>12 DEF Crash, Finish
<1>13. CASE Tick
    BY <1>13 DEF Tick
<1>14. CASE UNCHANGED vars
    BY <1>14 DEF vars
<1>15. QED
    BY <1>1, <1>2, <1>3, <1>4, <1>5, <1>6, <1>7, <1>8, <1>9, <1>10, <1>11, <1>12, <1>13,
       <1>14 DEF Next

-----------------------------------------------------------------------------
(***************************************************************************)
(* A press that waited as long as it may does not outlive the tombstone of *)
(* its release: the 30 s of the code and its 8 s are within its 60 s.      *)
(***************************************************************************)
LimitsSuffice == PressTtl + LockTimeout <= Retain

\* A strain is for good.
LEMMA StrainStays == TypeOK /\ strained /\ [Next]_vars => strained'
  BY DEF TypeOK, Next, vars, KeyDown, KeyUp, Begin, LockTimedOut, PressLocked, ReleaseLocked, SaveFailed,
         Served, Replied, SummonFailed, HideFailed, Crash, Tick

\* A release that does not find more tombstones than it keeps, keeps them all.
LEMMA NewestKeepsAll ==
  ASSUME NEW released, ~(Cardinality(Entombed(released)) > Cap)
  PROVE  Newest(released) = {Entombed(released)}
<1>1. Entombed(released) \subseteq Tokens
    BY DEF Entombed
<1>2. Cardinality(Entombed(released)) \in Nat
    BY <1>1, TokenAssumption, FS_Subset, FS_CardinalityType
<1>3. Cardinality(Entombed(released)) <= Cap
    BY <1>2, BoundAssumption
<1>4. QED
    BY <1>3 DEF Newest

\* What an invocation under the lock believes of a hold that was released.
LEMMA TombstoneSeen ==
  ASSUME LimitsSuffice, TypeOK, ClockInv, Tombs,
         NEW i \in Invocations, pc[i] = "waiting", ~Overlong(i),
         NEW u \in recorded
  PROVE  \/ Retained(Loaded.released, now[i])[u] = now[Release(u)]
         \/ clock > created[u] + PressTtl + LockTimeout
<1> SUFFICES ASSUME ~(clock > created[u] + PressTtl + LockTimeout)
             PROVE  Retained(Loaded.released, now[i])[u] = now[Release(u)]
    OBVIOUS
<1> DEFINE v == now[Release(u)]
<1>1. u \in Tokens /\ Release(u) \in Invocations
    BY Distinct DEF TypeOK
<1>2. Loaded.released[u] = v
    BY DEF Tombs, Loaded
<1>3. v \in Nat /\ now[i] \in Nat /\ clock \in Nat /\ created[u] \in Int
    BY <1>1 DEF TypeOK, Absent
<1>4. /\ v <= clock /\ clock <= now[i] + LockTimeout /\ now[i] <= clock /\ created[u] <= v
      /\ clock <= now[i] + Skew
    BY <1>1, <1>3, TimeAssumption DEF ClockInv, Overlong
<1>5. Fresh(v, now[i])
    BY <1>3, <1>4, TimeAssumption DEF Fresh, LimitsSuffice, Absent
<1>6. QED
    BY <1>1, <1>2, <1>5 DEF Retained

\* No invocation under the lock forgets a tombstone that still matters.
LEMMA StepTomb ==
  ASSUME LimitsSuffice, TypeOK, LockInv, SpawnInv, ClockInv, Tombs, LatePressNeverOpens,
         [Next]_vars, ~strained'
  PROVE  Tombs'
<1> USE Distinct, TokenAssumption, TimeAssumption
<1>k. ASSUME UNCHANGED <<file, recorded, created, now, clock>> PROVE Tombs'
    BY <1>k DEF Tombs
<1>1. ASSUME NEW t \in Tokens, KeyDown(t) PROVE Tombs'
  <2>1. t \notin recorded
      BY <1>1 DEF KeyDown, SpawnInv
  <2>2. QED
      BY <1>1, <2>1 DEF KeyDown, Tombs, TypeOK
<1>2. CASE KeyUp
    BY <1>2, <1>k DEF KeyUp
<1>3. ASSUME NEW i \in Invocations, Begin(i) PROVE Tombs'
  <2>1. \A u \in recorded : Release(u) # i
      BY <1>3 DEF Begin, SpawnInv
  <2>2. \A u \in recorded : now'[Release(u)] = now[Release(u)]
      BY <1>3, <2>1 DEF Begin, TypeOK
  <2>3. QED
      BY <1>3, <2>2 DEF Begin, Tombs
<1>4. ASSUME NEW i \in Invocations, LockTimedOut(i) PROVE Tombs'
    BY <1>4, <1>k DEF LockTimedOut
<1>5. ASSUME NEW t \in Tokens, PressLocked(t) PROVE Tombs'
  <2>1. CASE UNCHANGED file
      BY <1>5, <1>k, <2>1 DEF PressLocked
  <2>2. CASE file' = [session |-> "current", active |-> t,
                      released |-> Retained(Loaded.released, now[Press(t)])]
    <3>1. pc[Press(t)] = "waiting" /\ ~Overlong(Press(t))
        BY <1>5 DEF PressLocked
    <3>2. \A u \in recorded :
            \/ file'.released[u] = now[Release(u)]
            \/ clock > created[u] + PressTtl + LockTimeout
        BY <2>2, <3>1, TombstoneSeen
    <3>3. QED
        BY <1>5, <2>2, <3>2 DEF PressLocked, Tombs
  <2>3. QED
      BY <1>5, <2>1, <2>2 DEF PressLocked
<1>6. ASSUME NEW t \in Tokens, ReleaseLocked(t) PROVE Tombs'
  <2> DEFINE r == Release(t)
             entombed == [Retained(Loaded.released, now[r]) EXCEPT ![t] = now[r]]
  <2>0. ~(Cardinality(Entombed(entombed)) > Cap)
      BY <1>6 DEF ReleaseLocked
  <2>1. file'.session = "current" /\ file'.released = Kept(entombed, Entombed(entombed))
      BY <1>6, <2>0, NewestKeepsAll DEF ReleaseLocked
  <2>2. \A u \in Tokens : Kept(entombed, Entombed(entombed))[u] = entombed[u]
      BY DEF Kept, Entombed
  <2>3. \A u \in recorded : u # t =>
          \/ entombed[u] = now[Release(u)]
          \/ clock > created[u] + PressTtl + LockTimeout
    <3>1. pc[r] = "waiting" /\ ~Overlong(r)
        BY <1>6 DEF ReleaseLocked
    <3>2. \A u \in recorded :
            \/ Retained(Loaded.released, now[r])[u] = now[Release(u)]
            \/ clock > created[u] + PressTtl + LockTimeout
        BY <3>1, TombstoneSeen
    <3>3. \A u \in Tokens : u # t => entombed[u] = Retained(Loaded.released, now[r])[u]
        BY DEF Retained
    <3>4. QED
        BY <3>2, <3>3 DEF TypeOK
  <2>4. entombed[t] = now[r]
      BY DEF Retained
  <2>5. recorded' = recorded \cup {t} /\ UNCHANGED <<created, now, clock>>
      BY <1>6 DEF ReleaseLocked
  <2>6. ASSUME NEW u \in recorded'
        PROVE  \/ file'.released[u] = now[Release(u)]
               \/ clock > created[u] + PressTtl + LockTimeout
      BY <2>1, <2>2, <2>3, <2>4, <2>5 DEF TypeOK
  <2>7. QED
      BY <2>1, <2>5, <2>6 DEF Tombs
<1>7. ASSUME NEW i \in Invocations, SaveFailed(i) PROVE Tombs'
    BY <1>7, <1>k DEF SaveFailed
<1>8. ASSUME NEW i \in Invocations, Served(i) PROVE Tombs'
    BY <1>8, <1>k DEF Served
<1>9. ASSUME NEW i \in Invocations, Replied(i) PROVE Tombs'
    BY <1>9, <1>k DEF Replied
<1>10. ASSUME NEW t \in Tokens, SummonFailed(t) PROVE Tombs'
  <2>1. t \notin recorded
      BY <1>10 DEF SummonFailed, LatePressNeverOpens
  <2>2. CASE UNCHANGED file
      BY <1>10, <1>k, <2>2 DEF SummonFailed
  <2>3. CASE file' = [file EXCEPT !.active = NoToken, !.released[t] = now[Press(t)]]
    <3>1. file'.session = file.session /\ \A u \in recorded : file'.released[u] = file.released[u]
        BY <2>1, <2>3 DEF TypeOK
    <3>2. QED
        BY <1>10, <3>1 DEF SummonFailed, Tombs
  <2>4. QED
      BY <1>10, <2>2, <2>3 DEF SummonFailed
<1>11. ASSUME NEW t \in Tokens, HideFailed(t) PROVE Tombs'
    BY <1>11, <1>k DEF HideFailed
<1>12. ASSUME NEW i \in Invocations, Crash(i) PROVE Tombs'
    BY <1>12, <1>k DEF Crash
<1>13. CASE Tick
    BY <1>13 DEF Tick, Tombs, TypeOK, Absent
<1>14. CASE UNCHANGED vars
    BY <1>14, <1>k DEF vars
<1>15. QED
    BY <1>1, <1>2, <1>3, <1>4, <1>5, <1>6, <1>7, <1>8, <1>9, <1>10, <1>11, <1>12, <1>13,
       <1>14 DEF Next

\* A press gets past its check only while no tombstone of its hold exists.
LEMMA StepLate ==
  ASSUME LimitsSuffice, TypeOK, LockInv, SpawnInv, ClockInv, Tombs, LatePressNeverOpens,
         [Next]_vars, ~strained'
  PROVE  LatePressNeverOpens'
<1> USE Distinct, TokenAssumption, TimeAssumption DEF LatePressNeverOpens, TypeOK
<1>1. ASSUME NEW t \in Tokens, KeyDown(t) PROVE LatePressNeverOpens'
    BY <1>1 DEF KeyDown
<1>2. CASE KeyUp
    BY <1>2 DEF KeyUp
<1>3. ASSUME NEW i \in Invocations, Begin(i) PROVE LatePressNeverOpens'
    BY <1>3 DEF Begin
<1>4. ASSUME NEW i \in Invocations, LockTimedOut(i) PROVE LatePressNeverOpens'
    BY <1>4 DEF LockTimedOut, Finish
<1>5. ASSUME NEW t \in Tokens, PressLocked(t) PROVE LatePressNeverOpens'
  <2>1. CASE t \notin recorded
      BY <1>5, <2>1 DEF PressLocked, StartIpc, Finish
  <2>2. CASE t \in recorded
    <3>1. clock <= now[Press(t)] + LockTimeout /\ now[Press(t)] <= created[t] + PressTtl
        BY <1>5 DEF PressLocked, ClockInv
    <3>2. ~(clock > created[t] + PressTtl + LockTimeout)
        BY <3>1 DEF Absent
    <3>3. pc[Press(t)] = "waiting" /\ ~Overlong(Press(t))
        BY <1>5 DEF PressLocked
    <3>4. Retained(Loaded.released, now[Press(t)])[t] = now[Release(t)]
        BY <2>2, <3>2, <3>3, TombstoneSeen
    <3>5. Retained(Loaded.released, now[Press(t)])[t] # Absent
        BY <3>4 DEF Absent
    <3>6. pc' = [pc EXCEPT ![Press(t)] = "done"]
        BY <1>5, <3>5 DEF PressLocked, Finish
    <3>7. QED
        BY <1>5, <3>6 DEF PressLocked
  <2>3. QED
      BY <2>1, <2>2
<1>6. ASSUME NEW t \in Tokens, ReleaseLocked(t) PROVE LatePressNeverOpens'
  <2>1. \A u \in Tokens : pc[Press(u)] \notin Busy
      BY <1>6 DEF ReleaseLocked, LockInv
  <2>2. QED
      BY <1>6, <2>1 DEF ReleaseLocked, StartIpc, Finish, Busy
<1>7. ASSUME NEW i \in Invocations, SaveFailed(i) PROVE LatePressNeverOpens'
    BY <1>7 DEF SaveFailed, Finish
<1>8. ASSUME NEW i \in Invocations, Served(i) PROVE LatePressNeverOpens'
    BY <1>8 DEF Served
<1>9. ASSUME NEW i \in Invocations, Replied(i) PROVE LatePressNeverOpens'
    BY <1>9 DEF Replied, Finish
<1>10. ASSUME NEW t \in Tokens, SummonFailed(t) PROVE LatePressNeverOpens'
    BY <1>10 DEF SummonFailed, Finish
<1>11. ASSUME NEW t \in Tokens, HideFailed(t) PROVE LatePressNeverOpens'
    BY <1>11 DEF HideFailed, Finish
<1>12. ASSUME NEW i \in Invocations, Crash(i) PROVE LatePressNeverOpens'
    BY <1>12 DEF Crash, Finish
<1>13. CASE Tick
    BY <1>13 DEF Tick
<1>14. CASE UNCHANGED vars
    BY <1>14 DEF vars
<1>15. QED
    BY <1>1, <1>2, <1>3, <1>4, <1>5, <1>6, <1>7, <1>8, <1>9, <1>10, <1>11, <1>12, <1>13,
       <1>14 DEF Next

UnstrainedInv == ~strained => Tombs /\ LatePressNeverOpens

IInv == TypeOK /\ LockInv /\ SpawnInv /\ ClockInv /\ UnstrainedInv

LEMMA InitIInv == Init => IInv
  BY InitType, Distinct, TokenAssumption, TimeAssumption
     DEF Init, IInv, LockInv, SpawnInv, ClockInv, UnstrainedInv, Tombs, LatePressNeverOpens, Busy, Absent

LEMMA StepIInv == ASSUME LimitsSuffice PROVE IInv /\ [Next]_vars => IInv'
<1> SUFFICES ASSUME IInv, [Next]_vars
             PROVE  IInv'
    OBVIOUS
<1>1. TypeOK' /\ LockInv' /\ SpawnInv' /\ ClockInv'
    BY StepType, StepLock, StepSpawn, StepClock DEF IInv
<1>2. ASSUME ~strained' PROVE Tombs' /\ LatePressNeverOpens'
  <2>1. Tombs /\ LatePressNeverOpens
      BY <1>2, StrainStays DEF IInv, UnstrainedInv
  <2>2. QED
      BY <1>2, <2>1, StepTomb, StepLate DEF IInv
<1>3. QED
    BY <1>1, <1>2 DEF IInv, UnstrainedInv

(***************************************************************************)
(* As long as nobody waits for the flock longer than the skew, no press    *)
(* summons the overlay after the release of its token was recorded:        *)
(* whatever crashes, whichever IPC or save fails, in whatever order the    *)
(* processes run.                                                          *)
(***************************************************************************)
THEOREM LatePressSafe ==
  ASSUME LimitsSuffice
  PROVE  Spec => []LatePressIgnored
<1>1. Init => IInv
    BY InitIInv
<1>2. IInv /\ [Next]_vars => IInv'
    BY StepIInv
<1>3. IInv => LatePressIgnored
    BY DEF IInv, UnstrainedInv, LatePressIgnored
<1>4. QED
    BY <1>1, <1>2, <1>3, PTL DEF Spec

-----------------------------------------------------------------------------
(* Ownership of the visible overlay. *)

\* What VisibleHasOwner says while the flock is free, and what carries it across a hold of the flock.
Owned ==
  /\ lock = NoOwner /\ shown # NoToken =>
       file.session = "current" /\ file.active # NoToken /\ file.active \notin recorded
  /\ \A t \in Tokens : lock = Press(t) => file.session = "current" /\ file.active = t
  /\ \A t \in Tokens : lock = Release(t) /\ pc[Release(t)] = "served" => shown = NoToken

\* No release ends before it is recorded.
EndsRecorded == \A t \in Tokens : pc[Release(t)] \in {"ipc", "served", "done"} => t \in recorded

OwnerInv == ~strained => Owned /\ EndsRecorded

OwnerFaultsOnly == Faults \subseteq {"press-crash", "press-save"}

LEMMA StepEnds ==
  ASSUME OwnerFaultsOnly, TypeOK, LockInv, SpawnInv, EndsRecorded, [Next]_vars, ~strained'
  PROVE  EndsRecorded'
<1> USE Distinct, TokenAssumption DEF EndsRecorded, TypeOK
<1>1. ASSUME NEW t \in Tokens, KeyDown(t) PROVE EndsRecorded'
    BY <1>1 DEF KeyDown
<1>2. CASE KeyUp
    BY <1>2 DEF KeyUp
<1>3. ASSUME NEW i \in Invocations, Begin(i) PROVE EndsRecorded'
    BY <1>3 DEF Begin, Timely
<1>4. ASSUME NEW i \in Invocations, LockTimedOut(i) PROVE EndsRecorded'
    BY <1>4 DEF LockTimedOut
<1>5. ASSUME NEW t \in Tokens, PressLocked(t) PROVE EndsRecorded'
    BY <1>5 DEF PressLocked, StartIpc, Finish
<1>6. ASSUME NEW t \in Tokens, ReleaseLocked(t) PROVE EndsRecorded'
    BY <1>6 DEF ReleaseLocked, StartIpc, Finish
<1>7. ASSUME NEW i \in Invocations, SaveFailed(i) PROVE EndsRecorded'
    BY <1>7 DEF SaveFailed, Finish, OwnerFaultsOnly
<1>8. ASSUME NEW i \in Invocations, Served(i) PROVE EndsRecorded'
    BY <1>8 DEF Served
<1>9. ASSUME NEW i \in Invocations, Replied(i) PROVE EndsRecorded'
    BY <1>9 DEF Replied, Finish
<1>10. ASSUME NEW t \in Tokens, SummonFailed(t) PROVE EndsRecorded'
    BY <1>10 DEF SummonFailed, OwnerFaultsOnly
<1>11. ASSUME NEW t \in Tokens, HideFailed(t) PROVE EndsRecorded'
    BY <1>11 DEF HideFailed, OwnerFaultsOnly
<1>12. ASSUME NEW i \in Invocations, Crash(i) PROVE EndsRecorded'
    BY <1>12 DEF Crash, Finish, OwnerFaultsOnly
<1>13. CASE Tick
    BY <1>13 DEF Tick
<1>14. CASE UNCHANGED vars
    BY <1>14 DEF vars
<1>15. QED
    BY <1>1, <1>2, <1>3, <1>4, <1>5, <1>6, <1>7, <1>8, <1>9, <1>10, <1>11, <1>12, <1>13,
       <1>14 DEF Next

LEMMA StepOwned ==
  ASSUME OwnerFaultsOnly, TypeOK, LockInv, SpawnInv, LatePressNeverOpens, Owned, [Next]_vars
  PROVE  Owned'
<1> USE Distinct, TokenAssumption DEF Owned, TypeOK
<1>1. ASSUME NEW t \in Tokens, KeyDown(t) PROVE Owned'
    BY <1>1 DEF KeyDown
<1>2. CASE KeyUp
    BY <1>2 DEF KeyUp, SpawnInv
<1>3. ASSUME NEW i \in Invocations, Begin(i) PROVE Owned'
    BY <1>3 DEF Begin
<1>4. ASSUME NEW i \in Invocations, LockTimedOut(i) PROVE Owned'
    BY <1>4 DEF LockTimedOut, Finish
<1>5. ASSUME NEW t \in Tokens, PressLocked(t) PROVE Owned'
  <2>1. CASE UNCHANGED <<file, lock>> /\ Finish(Press(t))
      BY <1>5, <2>1 DEF PressLocked, Finish
  <2>2. CASE StartIpc(Press(t)) /\ file'.session = "current" /\ file'.active = t
      BY <1>5, <2>2 DEF PressLocked, StartIpc
  <2>3. QED
      BY <1>5, <2>1, <2>2 DEF PressLocked
<1>6. ASSUME NEW t \in Tokens, ReleaseLocked(t) PROVE Owned'
  <2>1. /\ file'.session = "current"
        /\ file'.active = OwnerAfter(t)
        /\ recorded' = recorded \cup {t}
        /\ lock = NoOwner /\ shown' = shown
      BY <1>6 DEF ReleaseLocked
  <2>2. CASE Loaded.active = t
      BY <1>6, <2>1, <2>2 DEF ReleaseLocked, StartIpc
  <2>3. CASE Loaded.active # t
    <3>1. file'.active = Loaded.active /\ lock' = NoOwner
        BY <1>6, <2>1, <2>3 DEF OwnerAfter, ReleaseLocked
    <3>2. shown # NoToken => file.session = "current" /\ Loaded = file
        BY <2>1 DEF Loaded
    <3>3. QED
        BY <2>1, <2>3, <3>1, <3>2
  <2>4. QED
      BY <2>2, <2>3
<1>7. ASSUME NEW i \in Invocations, SaveFailed(i) PROVE Owned'
    BY <1>7 DEF SaveFailed, Finish
<1>8. ASSUME NEW i \in Invocations, Served(i) PROVE Owned'
  <2>1. lock = i /\ lock' = i
      BY <1>8 DEF Served, LockInv, Busy
  <2>2. QED
      BY <1>8, <2>1 DEF Served
<1>9. ASSUME NEW i \in Invocations, Replied(i) PROVE Owned'
  <2>1. lock = i /\ lock' = NoOwner
      BY <1>9 DEF Replied, LockInv, Busy
  <2>2. CASE i = Press(i.token)
    <3>1. i.token \notin recorded
        BY <1>9, <2>2 DEF Replied, LatePressNeverOpens
    <3>2. file.session = "current" /\ file.active = i.token
        BY <2>1, <2>2
    <3>3. QED
        BY <1>9, <2>1, <3>1, <3>2 DEF Replied
  <2>3. CASE i = Release(i.token)
      BY <1>9, <2>1, <2>3 DEF Replied
  <2>4. QED
      BY <2>2, <2>3
<1>10. ASSUME NEW t \in Tokens, SummonFailed(t) PROVE Owned'
    BY <1>10 DEF SummonFailed, OwnerFaultsOnly
<1>11. ASSUME NEW t \in Tokens, HideFailed(t) PROVE Owned'
    BY <1>11 DEF HideFailed, OwnerFaultsOnly
<1>12. ASSUME NEW i \in Invocations, Crash(i) PROVE Owned'
  <2>1. i.action = "press" /\ i = Press(i.token)
      BY <1>12 DEF Crash, OwnerFaultsOnly
  <2>2. CASE lock = i
    <3>1. pc[i] \in Busy
        BY <2>2 DEF LockInv
    <3>2. i.token \notin recorded
        BY <2>1, <3>1 DEF LatePressNeverOpens, Busy
    <3>3. file.session = "current" /\ file.active = i.token
        BY <2>1, <2>2
    <3>4. QED
        BY <1>12, <2>2, <3>2, <3>3 DEF Crash
  <2>3. CASE lock # i
      BY <1>12, <2>1, <2>3 DEF Crash, Finish
  <2>4. QED
      BY <2>2, <2>3
<1>13. CASE Tick
    BY <1>13 DEF Tick
<1>14. CASE UNCHANGED vars
    BY <1>14 DEF vars
<1>15. QED
    BY <1>1, <1>2, <1>3, <1>4, <1>5, <1>6, <1>7, <1>8, <1>9, <1>10, <1>11, <1>12, <1>13,
       <1>14 DEF Next

LEMMA StepOwner ==
  ASSUME OwnerFaultsOnly, IInv, OwnerInv, [Next]_vars
  PROVE  OwnerInv'
<1> SUFFICES ASSUME ~strained'
             PROVE  Owned' /\ EndsRecorded'
    BY DEF OwnerInv
<1>1. Owned /\ EndsRecorded /\ LatePressNeverOpens /\ TypeOK /\ LockInv /\ SpawnInv
    BY StrainStays DEF OwnerInv, IInv, UnstrainedInv
<1>2. QED
    BY <1>1, StepOwned, StepEnds

(***************************************************************************)
(* If nothing fails but presses, which die or cannot save, and nobody      *)
(* waits for the flock longer than the skew, every overlay on screen has a *)
(* hold in the file whose release is still to come or under way.           *)
(***************************************************************************)
THEOREM VisibleOwned ==
  ASSUME LimitsSuffice, OwnerFaultsOnly
  PROVE  Spec => []VisibleHasOwner
<1>1. Init => IInv /\ OwnerInv
    BY InitIInv, Distinct, TokenAssumption DEF Init, OwnerInv, Owned, EndsRecorded
<1>2. IInv /\ OwnerInv /\ [Next]_vars => IInv' /\ OwnerInv'
    BY StepIInv, StepOwner
<1>3. IInv /\ OwnerInv => VisibleHasOwner
    BY DEF IInv, TypeOK, OwnerInv, Owned, EndsRecorded, VisibleHasOwner
<1>4. QED
    BY <1>1, <1>2, <1>3, PTL DEF Spec

-----------------------------------------------------------------------------
(* The contract of a hold. *)

ContractFaultsOnly ==
  /\ "press-crash" \notin Faults
  /\ ~("press-save" \in Faults /\ "summon" \in Faults)

\* The owner in the file is the hold that is shown, except during its own summon and hide.
ShownInv ==
  /\ lock = NoOwner /\ file.session = "current" /\ file.active # NoToken => shown = file.active
  /\ \A t \in Tokens : lock = Press(t) =>
       /\ file.session = "current" /\ file.active = t
       /\ pc[lock] = "served" => shown = t
  /\ \A t \in Tokens : lock = Release(t) =>
       /\ file.session = "current" /\ file.active = NoToken
       /\ t \in recorded
       /\ pc[lock] = "ipc" => shown = t

LEMMA StepShown ==
  ASSUME ContractFaultsOnly, IInv, ShownInv, [Next]_vars
  PROVE  ShownInv'
<1> USE Distinct, TokenAssumption DEF ShownInv, TypeOK
<1>a. TypeOK /\ LockInv /\ SpawnInv
    BY DEF IInv
<1>1. ASSUME NEW t \in Tokens, KeyDown(t) PROVE ShownInv'
    BY <1>1, <1>a DEF KeyDown, SpawnInv
<1>2. CASE KeyUp
    BY <1>2, <1>a DEF KeyUp, SpawnInv
<1>3. ASSUME NEW i \in Invocations, Begin(i) PROVE ShownInv'
    BY <1>3, <1>a DEF Begin
<1>4. ASSUME NEW i \in Invocations, LockTimedOut(i) PROVE ShownInv'
    BY <1>4, <1>a DEF LockTimedOut, Finish
<1>5. ASSUME NEW t \in Tokens, PressLocked(t) PROVE ShownInv'
  <2>1. CASE UNCHANGED <<file, lock>> /\ Finish(Press(t))
      BY <1>5, <1>a, <2>1 DEF PressLocked, Finish
  <2>2. CASE StartIpc(Press(t)) /\ file'.session = "current" /\ file'.active = t
      BY <1>5, <1>a, <2>2 DEF PressLocked, StartIpc
  <2>3. QED
      BY <1>5, <2>1, <2>2 DEF PressLocked
<1>6. ASSUME NEW t \in Tokens, ReleaseLocked(t) PROVE ShownInv'
  <2>1. /\ file'.session = "current"
        /\ file'.active = OwnerAfter(t)
        /\ recorded' = recorded \cup {t}
        /\ lock = NoOwner /\ shown' = shown
      BY <1>6 DEF ReleaseLocked
  <2>2. CASE Loaded.active = t
    <3>1. file.session = "current" /\ file.active = t
        BY <2>2 DEF Loaded
    <3>2. file'.active = NoToken /\ lock' = Release(t) /\ pc'[Release(t)] = "ipc"
        BY <1>6, <1>a, <2>1, <2>2 DEF OwnerAfter, ReleaseLocked, StartIpc
    <3>3. QED
        BY <2>1, <3>1, <3>2
  <2>3. CASE Loaded.active # t
    <3>1. file'.active = Loaded.active /\ lock' = NoOwner
        BY <1>6, <2>1, <2>3 DEF OwnerAfter, ReleaseLocked
    <3>2. Loaded.active # NoToken => file.session = "current" /\ file.active = Loaded.active
        BY DEF Loaded
    <3>3. QED
        BY <2>1, <3>1, <3>2
  <2>4. QED
      BY <2>2, <2>3
<1>7. ASSUME NEW i \in Invocations, SaveFailed(i) PROVE ShownInv'
    BY <1>7, <1>a DEF SaveFailed, Finish
<1>8. ASSUME NEW i \in Invocations, Served(i) PROVE ShownInv'
  <2>1. lock = i /\ lock' = i /\ pc'[i] = "served"
      BY <1>8, <1>a DEF Served, LockInv, Busy
  <2>2. QED
      BY <1>8, <1>a, <2>1 DEF Served
<1>9. ASSUME NEW i \in Invocations, Replied(i) PROVE ShownInv'
  <2>1. lock = i /\ lock' = NoOwner
      BY <1>9, <1>a DEF Replied, LockInv, Busy
  <2>2. QED
      BY <1>9, <2>1 DEF Replied
<1>10. ASSUME NEW t \in Tokens, SummonFailed(t) PROVE ShownInv'
  <2>1. file'.active = NoToken /\ lock' = NoOwner
      BY <1>10, <1>a DEF SummonFailed, ContractFaultsOnly
  <2>2. QED
      BY <2>1
<1>11. ASSUME NEW t \in Tokens, HideFailed(t) PROVE ShownInv'
  <2>1. lock = Release(t) /\ lock' = NoOwner /\ file' = file
      BY <1>11, <1>a DEF HideFailed, LockInv, Busy
  <2>2. QED
      BY <2>1
<1>12. ASSUME NEW i \in Invocations, Crash(i) PROVE ShownInv'
  <2>1. i = Release(i.token)
      BY <1>12 DEF Crash, ContractFaultsOnly
  <2>2. CASE lock = i
      BY <1>12, <2>1, <2>2 DEF Crash
  <2>3. CASE lock # i
      BY <1>12, <2>1, <2>3, <1>a DEF Crash, Finish
  <2>4. QED
      BY <2>2, <2>3
<1>13. CASE Tick
    BY <1>13, <1>a DEF Tick
<1>14. CASE UNCHANGED vars
    BY <1>14, <1>a DEF vars
<1>15. QED
    BY <1>1, <1>2, <1>3, <1>4, <1>5, <1>6, <1>7, <1>8, <1>9, <1>10, <1>11, <1>12, <1>13,
       <1>14 DEF Next

LEMMA StepContract ==
  ASSUME IInv, ShownInv, [Next]_vars
  PROVE  [Contract!Next]_<<shown, recorded, strained>>
<1> USE Distinct, TokenAssumption DEF Contract!Next
<1>a. TypeOK /\ LockInv /\ (~strained => LatePressNeverOpens)
    BY DEF IInv, UnstrainedInv
<1>1. ASSUME NEW t \in Tokens, ReleaseLocked(t) PROVE Contract!Record(t)
    BY <1>1, <1>a DEF ReleaseLocked, Contract!Record, TypeOK
<1>2. ASSUME NEW i \in Invocations, Served(i)
      PROVE  (\E t \in Tokens : Contract!Open(t)) \/ Contract!Hide
  <2>1. lock = i
      BY <1>2, <1>a DEF Served, LockInv, Busy
  <2>2. CASE i = Press(i.token)
    <3>1. strained \/ i.token \notin recorded
        BY <1>2, <1>a, <2>2 DEF Served, LatePressNeverOpens
    <3>2. QED
        BY <1>2, <2>2, <3>1 DEF Served, Contract!Open
  <2>3. CASE i = Release(i.token)
    <3>1. shown = i.token /\ i.token \in recorded
        BY <1>2, <2>1, <2>3 DEF Served, ShownInv
    <3>2. QED
        BY <1>2, <2>3, <3>1 DEF Served, Contract!Hide
  <2>4. QED
      BY <2>2, <2>3
<1>3. ASSUME UNCHANGED <<shown, recorded>>, strained' \in {strained, TRUE}
      PROVE  Contract!Strain \/ UNCHANGED <<shown, recorded, strained>>
    BY <1>3 DEF Contract!Strain
<1>4. ASSUME NEW i \in Invocations, LockTimedOut(i)
      PROVE  UNCHANGED <<shown, recorded>> /\ strained' \in {strained, TRUE}
    BY <1>4 DEF LockTimedOut
<1>5. ASSUME NEW t \in Tokens, PressLocked(t)
      PROVE  UNCHANGED <<shown, recorded>> /\ strained' \in {strained, TRUE}
    BY <1>5, <1>a DEF PressLocked, TypeOK
<1>6. CASE UNCHANGED <<shown, recorded, strained>>
    BY <1>6
<1>7. QED
    BY <1>1, <1>2, <1>3, <1>4, <1>5, <1>6
       DEF Next, vars, KeyDown, KeyUp, Begin, SaveFailed,
           Replied, SummonFailed, HideFailed, Crash, Tick

(***************************************************************************)
(* HoldInvocation implements HoldContract: an overlay closes only for the  *)
(* hold that opened it and, as long as nobody waits for the flock longer   *)
(* than the skew, opens only for a hold that is not released, even if      *)
(* releases die and the shell fails to answer.                             *)
(***************************************************************************)
THEOREM ImplementsContract ==
  ASSUME LimitsSuffice, ContractFaultsOnly
  PROVE  Spec => ContractSpec
<1>1. Init => IInv /\ ShownInv
    BY InitIInv, Distinct, TokenAssumption DEF Init, ShownInv
<1>2. IInv /\ ShownInv /\ [Next]_vars => IInv' /\ ShownInv'
    BY StepIInv, StepShown
<1>3. Init => Contract!Init
    BY DEF Init, Contract!Init
<1>4. IInv /\ ShownInv /\ [Next]_vars => [Contract!Next]_<<shown, recorded, strained>>
    BY StepContract
<1>5. QED
    BY <1>1, <1>2, <1>3, <1>4, PTL DEF Spec, ContractSpec, Contract!Spec

=============================================================================
