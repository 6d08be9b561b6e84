--------------------------- MODULE HoldInvocation ---------------------------
(***************************************************************************)
(* Press-and-hold invocation of the overlay.                               *)
(*                                                                         *)
(* The compositor binding (scripts/print-bindings.sh) spawns one           *)
(* short-lived process per key press and one per key release; nothing      *)
(* orders them.  Every process runs td_telemetry/invocation.py, which      *)
(* serialises them with an flock held across the shell IPC and keeps a     *)
(* file of release tombstones so that a press that arrives late does not   *)
(* open an overlay nobody will close.                                      *)
(*                                                                         *)
(* Time is an integer number of seconds.  A process reads the wall clock   *)
(* once, BEFORE it waits for the lock, and compares tombstones with that   *)
(* reading after it got the lock.                                          *)
(***************************************************************************)
EXTENDS Integers, FiniteSets

CONSTANTS
  Tokens,       \* hold tokens, one per physical key press
  NoToken,      \* the empty token, Lua nil
  LockTimeout,  \* seconds a process polls for the flock
  IpcTimeout,   \* seconds a process waits for omarchy-shell
  Skew,         \* a tombstone may lie this far in a reader's future
  PressTtl,     \* a press older than this is ignored
  Retain,       \* a tombstone older than this is forgotten
  Cap,          \* tombstones kept by one release
  Faults,       \* which failures this instance admits
  MaxClock      \* bound of the model: the clock stops here

FaultKinds == {"press-crash", "release-crash", "press-save", "release-save", "summon", "hide"}

ASSUME TokenAssumption == IsFiniteSet(Tokens) /\ NoToken \notin Tokens
ASSUME TimeAssumption ==
  /\ LockTimeout \in Nat /\ IpcTimeout \in Nat /\ Skew \in Nat
  /\ PressTtl \in Nat /\ Retain \in Nat /\ MaxClock \in Nat
ASSUME BoundAssumption == Cap \in Nat /\ Faults \subseteq FaultKinds

VARIABLES
  clock,     \* seconds since the model starts
  held,      \* the Lua binding's hold_token
  created,   \* the second written into each token, Absent before it exists
  pc,        \* where each invocation is
  now,       \* the wall clock each invocation read
  lock,      \* the invocation that owns the flock, or NoOwner
  since,     \* when the owner of the flock started its IPC
  file,      \* hold.json
  shown,     \* the token whose summon the visible overlay answers
  recorded,  \* history: tokens whose release reached hold.json
  strained   \* history: somebody waited for the flock in vain or longer than Skew,
             \* or a release found more tombstones than it keeps

vars == <<clock, held, created, pc, now, lock, since, file, shown, recorded, strained>>

Invocations == [action : {"press", "release"}, token : Tokens]
Press(t)   == [action |-> "press", token |-> t]
Release(t) == [action |-> "release", token |-> t]
NoOwner == [action |-> "none", token |-> NoToken]
Absent  == -1

Stages == {"unspawned", "spawned", "waiting", "ipc", "served", "done"}

TypeOK ==
  /\ clock \in Nat
  /\ held \in Tokens \cup {NoToken}
  /\ created \in [Tokens -> Nat \cup {Absent}]
  /\ pc \in [Invocations -> Stages]
  /\ now \in [Invocations -> Nat]
  /\ lock \in Invocations \cup {NoOwner}
  /\ since \in Nat
  /\ file \in [session : {"current", "previous"},
               active : Tokens \cup {NoToken},
               released : [Tokens -> Nat \cup {Absent}]]
  /\ shown \in Tokens \cup {NoToken}
  /\ recorded \subseteq Tokens
  /\ strained \in BOOLEAN

NoTombstones == [t \in Tokens |-> Absent]

\* hold.json is absent, unreadable or left by an earlier session.
Init ==
  /\ clock = 0
  /\ held = NoToken
  /\ created = [t \in Tokens |-> Absent]
  /\ pc = [i \in Invocations |-> "unspawned"]
  /\ now = [i \in Invocations |-> 0]
  /\ lock = NoOwner
  /\ since = 0
  /\ file = [session |-> "previous", active |-> NoToken, released |-> NoTombstones]
  /\ shown = NoToken
  /\ recorded = {}
  /\ strained = FALSE

-----------------------------------------------------------------------------
(* The state file. *)

Loaded ==
  IF file.session = "current" THEN file
  ELSE [session |-> "current", active |-> NoToken, released |-> NoTombstones]

\* Mutant: no allowance for a tombstone written by a process that started later.
Fresh_NoSkew(v, t) == v # Absent /\ t - Retain <= v /\ v <= t

Fresh(v, t) == v # Absent /\ t - Retain <= v /\ v <= t + Skew

\* The tombstones a reader whose clock reading is t believes in.
Retained(released, t) ==
  [k \in Tokens |-> IF Fresh(released[k], t) THEN released[k] ELSE Absent]

Entombed(released) == {k \in Tokens : released[k] # Absent}

\* The newest Cap tombstones; equal times may be cut in either order.
Newest(released) ==
  IF Cardinality(Entombed(released)) <= Cap THEN {Entombed(released)}
  ELSE {K \in SUBSET Entombed(released) :
          /\ Cardinality(K) = Cap
          /\ \A k \in K, d \in Entombed(released) \ K : released[d] <= released[k]}

Kept(released, K) == [k \in Tokens |-> IF k \in K THEN released[k] ELSE Absent]

-----------------------------------------------------------------------------
(* The compositor binding. *)

KeyDown(t) ==
  /\ held = NoToken
  /\ created[t] = Absent
  /\ held' = t
  /\ created' = [created EXCEPT ![t] = clock]
  /\ pc' = [pc EXCEPT ![Press(t)] = "spawned"]
  /\ UNCHANGED <<clock, now, lock, since, file, shown, recorded, strained>>

KeyUp ==
  /\ held # NoToken
  /\ pc' = [pc EXCEPT ![Release(held)] = "spawned"]
  /\ held' = NoToken
  /\ UNCHANGED <<clock, created, now, lock, since, file, shown, recorded, strained>>

-----------------------------------------------------------------------------
(* One invocation. *)

Finish(i) == pc' = [pc EXCEPT ![i] = "done"]

Timely(i) ==
  i.action = "press" =>
    /\ clock - PressTtl <= created[i.token]
    /\ created[i.token] <= clock + Skew

\* The process gets the CPU, reads the clock and, if it is a press, checks the age of its token.
Begin(i) ==
  /\ pc[i] = "spawned"
  /\ now' = [now EXCEPT ![i] = clock]
  /\ pc' = [pc EXCEPT ![i] = IF Timely(i) THEN "waiting" ELSE "done"]
  /\ UNCHANGED <<clock, held, created, lock, since, file, shown, recorded, strained>>

LockTimedOut(i) ==
  /\ pc[i] = "waiting"
  /\ lock # NoOwner
  /\ clock >= now[i] + LockTimeout
  /\ Finish(i)
  /\ strained' = TRUE
  /\ UNCHANGED <<clock, held, created, now, lock, since, file, shown, recorded>>

\* The invocation read its clock so long ago that a tombstone of this moment lies in its future.
Overlong(i) == clock > now[i] + Skew

\* Mutant: the flock is dropped before the shell is called.
StartIpc_Unlocked(i) ==
  /\ pc' = [pc EXCEPT ![i] = "ipc"]
  /\ lock' = lock
  /\ since' = clock

StartIpc(i) ==
  /\ pc' = [pc EXCEPT ![i] = "ipc"]
  /\ lock' = i
  /\ since' = clock

\* A press under the lock: refused by its own tombstone or repeat, else saved and summoning.
PressLocked(t) ==
  LET i == Press(t)
      believed == Retained(Loaded.released, now[i])
  IN
  /\ pc[i] = "waiting"
  /\ lock = NoOwner
  /\ \/ /\ believed[t] # Absent \/ Loaded.active = t
        /\ Finish(i)
        /\ UNCHANGED <<lock, since, file>>
     \/ /\ believed[t] = Absent /\ Loaded.active # t
        /\ file' = [session |-> "current", active |-> t, released |-> believed]
        /\ StartIpc(i)
  /\ strained' = (strained \/ Overlong(i))
  /\ UNCHANGED <<clock, held, created, now, shown, recorded>>

\* Mutant: any release clears the owner.
OwnerAfter_Any(t) == NoToken

\* A release takes the overlay from its own hold only.
OwnerAfter(t) == IF Loaded.active = t THEN NoToken ELSE Loaded.active

\* A release under the lock: the tombstone and the cleared owner are saved before the hide.
ReleaseLocked(t) ==
  LET i == Release(t)
      entombed == [Retained(Loaded.released, now[i]) EXCEPT ![t] = now[i]]
  IN
  /\ pc[i] = "waiting"
  /\ lock = NoOwner
  /\ \E K \in Newest(entombed) :
       file' = [session  |-> "current",
                active   |-> OwnerAfter(t),
                released |-> Kept(entombed, K)]
  /\ recorded' = recorded \cup {t}
  /\ strained' = (strained \/ Overlong(i) \/ Cardinality(Entombed(entombed)) > Cap)
  /\ IF Loaded.active = t THEN StartIpc(i) ELSE Finish(i) /\ UNCHANGED <<lock, since>>
  /\ UNCHANGED <<clock, held, created, now, shown>>

\* _save raises (disk full, a leftover temporary name): hold.json keeps its old content.
SaveFailed(i) ==
  /\ \/ i.action = "press" /\ "press-save" \in Faults
     \/ i.action = "release" /\ "release-save" \in Faults
  /\ pc[i] = "waiting"
  /\ lock = NoOwner
  /\ Finish(i)
  /\ UNCHANGED <<clock, held, created, now, lock, since, file, shown, recorded, strained>>

\* The shell acts on the request and its reply is on the way.
Served(i) ==
  /\ pc[i] = "ipc"
  /\ shown' = IF i.action = "press" THEN i.token ELSE NoToken
  /\ pc' = [pc EXCEPT ![i] = "served"]
  /\ UNCHANGED <<clock, held, created, now, lock, since, file, recorded, strained>>

Replied(i) ==
  /\ pc[i] = "served"
  /\ Finish(i)
  /\ lock' = NoOwner
  /\ UNCHANGED <<clock, held, created, now, since, file, shown, recorded, strained>>

\* The summon is rejected or times out, before or after the shell acted on it.
SummonFailed(t) ==
  LET i == Press(t) IN
  /\ "summon" \in Faults
  /\ pc[i] \in {"ipc", "served"}
  /\ \/ file' = [file EXCEPT !.active = NoToken, !.released[t] = now[i]]
     \/ "press-save" \in Faults /\ UNCHANGED file
  /\ Finish(i)
  /\ lock' = NoOwner
  /\ UNCHANGED <<clock, held, created, now, since, shown, recorded, strained>>

HideFailed(t) ==
  LET i == Release(t) IN
  /\ "hide" \in Faults
  /\ pc[i] \in {"ipc", "served"}
  /\ Finish(i)
  /\ lock' = NoOwner
  /\ UNCHANGED <<clock, held, created, now, since, file, shown, recorded, strained>>

\* The process dies; the kernel drops its flock.
Crash(i) ==
  /\ \/ i.action = "press" /\ "press-crash" \in Faults
     \/ i.action = "release" /\ "release-crash" \in Faults
  /\ pc[i] \in {"spawned", "waiting", "ipc", "served"}
  /\ Finish(i)
  /\ lock' = IF lock = i THEN NoOwner ELSE lock
  /\ UNCHANGED <<clock, held, created, now, since, file, shown, recorded, strained>>

\* A second passes; no poll and no IPC outlives its deadline.
Tick ==
  /\ clock < MaxClock
  /\ \A i \in Invocations : pc[i] = "waiting" => clock < now[i] + LockTimeout
  /\ lock # NoOwner => clock < since + IpcTimeout
  /\ clock' = clock + 1
  /\ UNCHANGED <<held, created, pc, now, lock, since, file, shown, recorded, strained>>

Next ==
  \/ \E t \in Tokens : KeyDown(t)
  \/ KeyUp
  \/ \E i \in Invocations : Begin(i)
  \/ \E i \in Invocations : LockTimedOut(i)
  \/ \E t \in Tokens : PressLocked(t)
  \/ \E t \in Tokens : ReleaseLocked(t)
  \/ \E i \in Invocations : SaveFailed(i)
  \/ \E i \in Invocations : Served(i)
  \/ \E i \in Invocations : Replied(i)
  \/ \E t \in Tokens : SummonFailed(t)
  \/ \E t \in Tokens : HideFailed(t)
  \/ \E i \in Invocations : Crash(i)
  \/ Tick

Spec == Init /\ [][Next]_vars

-----------------------------------------------------------------------------
(* Properties. *)

\* The docstring of invocation.py and SECURITY-PRIVACY.md: a press never summons the
\* overlay once the release of the same token has been recorded in hold.json.
LatePressNeverOpens ==
  \A t \in recorded : pc[Press(t)] \notin {"ipc", "served"}

\* The same as far as the limits of the code carry it: until somebody has waited for the flock
\* longer than the skew of the tombstones, or released more holds at once than are kept.
LatePressIgnored == ~strained => LatePressNeverOpens

\* Whenever the flock is free, a visible overlay has an owner in hold.json whose release is
\* still to come or under way, so that it may yet hide the overlay; until a wait for the flock
\* was too long.
VisibleHasOwner ==
  ~strained /\ lock = NoOwner /\ shown # NoToken =>
    /\ file.session = "current"
    /\ file.active # NoToken
    /\ pc[Release(file.active)] # "done"

\* What a hold promises, as an abstract specification: see HoldContract.
Contract == INSTANCE HoldContract WITH visible <- shown, closed <- recorded
ContractSpec == Contract!Spec

=============================================================================
