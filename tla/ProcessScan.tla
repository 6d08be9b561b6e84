---------------------------- MODULE ProcessScan ----------------------------
(***************************************************************************)
(* td_telemetry/processes.py: a scan of /proc.  The files of one process   *)
(* are read one after the other while processes fork, call exec and end    *)
(* and their pids are used again; the scan then groups what it has read by *)
(* application.                                                            *)
(*                                                                         *)
(* An image stands for the executable and the cgroup; a zombie has none.   *)
(* Users, counters and the I/O file, whose refusal changes no row's        *)
(* presence, are left out, and a zombie's name is no runtime's.  PID 0     *)
(* stands for every parent outside Pids.                                   *)
(***************************************************************************)
EXTENDS Integers, FiniteSets

CONSTANTS
  Pids,
  Images, NoImage,  \* what /proc/<pid>/exe and cgroup say, and NoImage when they say nothing
  Runtimes,         \* images of interpreters and shells, shared by unrelated applications
  MaxProcesses,     \* rows of one scan (8192)
  IdentityTime,     \* how long an image is taken from the cache (5 s)
  MaxTicks, MaxScans, MaxEvents   \* bounds: start times, scans, events of processes

ASSUME ScanAssumption ==
  /\ Pids \subseteq Nat \ {0} /\ Runtimes \subseteq Images /\ NoImage \notin Images
  /\ MaxProcesses \in Nat /\ IdentityTime \in Nat \ {0}
  /\ MaxTicks \in Nat /\ MaxScans \in Nat /\ MaxEvents \in Nat

VARIABLES
  procs,            \* the process table: a record [pid, start, ppid, image] for each process
  ticks, endedAt,   \* the clock of start times; when the last process of a pid was gone
  events,
  scan,             \* "idle", or the file of a process that is read next
  scanNow, cutShort, denied, todo, reading, accepted,    \* the scan's progress
  identities,       \* the cache: [key, image, at]
  shown, prevProcesses,     \* the rows of the scan that has ended, until the next; the processes the event store knows
  imagesOf, parentsOf       \* history: images [key, image, until] that ended; <<child, parent>>

scanVars == <<scan, scanNow, cutShort, denied, todo, reading, accepted, identities, shown, prevProcesses>>
processVars == <<procs, ticks, endedAt, events, imagesOf, parentsOf, scanVars>>

Records == [pid : Pids, start : 0..MaxTicks, ppid : Pids \cup {0}, image : Images \cup {NoImage}]
InstanceKeys == Pids \X (0..MaxTicks)
KeyOf(p) == <<p.pid, p.start>>
KeysOf(ps) == {KeyOf(p) : p \in ps}
PidsOf(ps) == {p.pid : p \in ps}

MachineOK ==
  /\ procs \subseteq Records /\ \A p, q \in procs : p.pid = q.pid => p = q
  /\ ticks \in 0..MaxTicks /\ \A p \in procs : p.start <= ticks
  /\ endedAt \in [Pids -> Int] /\ \A i \in Pids : endedAt[i] <= ticks
  /\ events \in 0..MaxEvents
  /\ parentsOf \subseteq InstanceKeys \X InstanceKeys

ScanOK ==
  /\ scan \in {"idle", "stat", "exe", "recheck"} /\ scanNow \in 0..MaxScans
  /\ todo \subseteq Pids /\ accepted \subseteq Records /\ reading \subseteq Records
  /\ identities \subseteq [key : InstanceKeys, image : Images \cup {NoImage}, at : 0..MaxScans]
  /\ prevProcesses \subseteq InstanceKeys

ProcessTypeOK == MachineOK /\ ScanOK

\* The helper starts on a machine in any state; a parent is there, and its parent is outside Pids.
ProcessInit ==
  /\ procs \in {ps \in SUBSET [pid : Pids, start : {0}, ppid : Pids \cup {0}, image : Images] :
                 /\ \A p, q \in ps : p.pid = q.pid => p = q
                 /\ \A p \in ps : p.ppid # 0 => \E q \in ps : q.pid = p.ppid /\ q.ppid = 0}
  /\ parentsOf = {<< <<p.pid, 0>>, <<p.ppid, 0>> >> : p \in {p \in procs : p.ppid # 0}}
  /\ ticks = 0 /\ endedAt = [i \in Pids |-> -1] /\ events = 0
  /\ scan = "idle" /\ scanNow = 0 /\ cutShort = FALSE /\ denied = FALSE
  /\ todo = {} /\ reading = {} /\ accepted = {} /\ identities = {}
  /\ shown = {} /\ prevProcesses = {} /\ imagesOf = {}

-----------------------------------------------------------------------------
(* Grouping: assign_groups(). *)

\* Mutant: whatever has the parent's pid is the parent.
ParentIn_AnyAge(p, rows) == {q \in rows : q.pid = p.ppid}

\* A sampled parent younger than its child cannot be the original parent.
ParentIn(p, rows) == {q \in rows : q.pid = p.ppid /\ q.start <= p.start}

\* runtime_root(): up the ancestors of the same image.  n bounds the walk, as the deadline does.
RuntimeRoot(p, rows) ==
  LET Up(q) == {a \in ParentIn(q, rows) : a.image = p.image}
      walk[n \in 0..MaxProcesses] ==
        [q \in rows |-> IF n = 0 \/ Up(q) = {} THEN KeyOf(q) ELSE walk[n - 1][CHOOSE a \in Up(q) : TRUE]]
  IN  walk[MaxProcesses][p]

GroupIn(p, rows) ==
  IF p.image \in Runtimes THEN <<p.image, RuntimeRoot(p, rows)>>
  ELSE IF p.image = NoImage THEN <<NoImage, KeyOf(p)>> ELSE <<p.image, 0>>

\* The rows that were grouped in time; a parent that was not is no parent.
Grouped(rows, intime) ==
  {[key |-> KeyOf(p), image |-> p.image, group |-> GroupIn(p, rows),
    parents |-> KeysOf(ParentIn(p, rows) \cap intime)] : p \in intime}

-----------------------------------------------------------------------------
(* The scan: ProcessProvider.sample(). *)

Machine == <<procs, ticks, endedAt, events, imagesOf, parentsOf>>

\* Reads the directory, or the part of it that the deadline or the limit lets in.
Discover ==
  /\ scan = "idle" /\ scanNow < MaxScans /\ scanNow' = scanNow + 1
  /\ cutShort' \in BOOLEAN /\ todo' \in SUBSET PidsOf(procs) /\ (cutShort' \/ todo' = PidsOf(procs))
  /\ scan' = "stat" /\ shown' = {}
  /\ UNCHANGED <<Machine, denied, reading, accepted, identities, prevProcesses>>

\* A process that is gone is skipped; one that may not be read is counted.
ReadStat ==
  /\ scan = "stat" /\ Cardinality(accepted) < MaxProcesses
  /\ \E pid \in todo :
       /\ \A other \in todo : pid <= other
       /\ todo' = todo \ {pid}
       /\ \/ /\ reading' = {p \in procs : p.pid = pid} /\ denied' = denied
             /\ scan' = IF reading' = {} THEN "stat" ELSE "exe"
          \/ denied' = TRUE /\ UNCHANGED <<scan, reading>>
  /\ UNCHANGED <<Machine, scanNow, cutShort, accepted, identities, shown, prevProcesses>>

\* Mutant: the cache is kept by pid.
Cached_ByPid(p) == {i \in identities : i.key[1] = p.pid}

Cached(p) == {i \in identities : i.key = KeyOf(p)}

\* The image, from the cache or from whatever process has the pid now.
ReadIdentity ==
  /\ scan = "exe" /\ scan' = "recheck"
  /\ \E p \in reading :
       LET cached == Cached(p)
           live   == {q.image : q \in {q \in procs : q.pid = p.pid}}
           image  == CHOOSE m \in IF live = {} THEN {NoImage} ELSE live : TRUE
       IN  IF \E i \in cached : scanNow - i.at < IdentityTime
           THEN reading' = {[p EXCEPT !.image = i.image] : i \in cached} /\ UNCHANGED identities
           ELSE /\ reading' = {[p EXCEPT !.image = image]}
                /\ identities' = (identities \ cached) \cup {[key |-> KeyOf(p), image |-> image, at |-> scanNow]}
  /\ UNCHANGED <<Machine, scanNow, cutShort, denied, todo, accepted, shown, prevProcesses>>

\* Mutant: the identity is not rechecked.
SameProcess_Assumed(p) == TRUE

SameProcess(p) == KeyOf(p) \in KeysOf(procs)

\* Rejects the reads of a pid that was used again, or is gone.
Recheck ==
  /\ scan = "recheck" /\ scan' = "stat" /\ reading' = {}
  /\ accepted' = accepted \cup {p \in reading : SameProcess(p)}
  /\ UNCHANGED <<Machine, scanNow, cutShort, denied, todo, identities, shown, prevProcesses>>

\* Mutant: a directory that was read in part does not count.
Truncated_Listed == todo # {}

Truncated == cutShort \/ todo # {}

\* What the scan says of itself; exits are concluded from a complete one only.
Complete(intime) == ~denied /\ ~Truncated /\ intime = accepted

\* At the deadline, at the limit or at the end of the list; grouping has a deadline of its own.
Finish ==
  /\ scan = "stat" /\ scan' = "idle"
  /\ \E last \in {0} \cup PidsOf(accepted) :
       LET intime == {p \in accepted : p.pid <= last}
       IN  /\ shown' = Grouped(accepted, intime)
           /\ identities' = {i \in identities : i.key \in KeysOf(intime)}
           /\ prevProcesses' = KeysOf(intime) \cup (IF Complete(intime) THEN {} ELSE prevProcesses)
  /\ cutShort' = FALSE /\ denied' = FALSE /\ todo' = {} /\ accepted' = {}
  /\ UNCHANGED <<Machine, scanNow, reading>>

-----------------------------------------------------------------------------
(* The machine. *)

Event == events < MaxEvents /\ events' = events + 1 /\ UNCHANGED scanVars

ImageEnds(p) == imagesOf' = imagesOf \cup {[key |-> KeyOf(p), image |-> p.image, until |-> scanNow]}

\* The clock is seen in start times only.  A pid is used again only after all the others, well
\* after a tick of 10 ms.
Forks(pid, parents) ==
  /\ Event
  /\ ticks' \in ticks..MaxTicks /\ pid \notin PidsOf(procs) /\ endedAt[pid] < ticks'
  /\ \E image \in IF parents = {} THEN Images ELSE {p.image : p \in parents} \ {NoImage} :
     \E ppid \in IF parents = {} THEN {0} ELSE PidsOf(parents) :
       procs' = procs \cup {[pid |-> pid, start |-> ticks', ppid |-> ppid, image |-> image]}
  /\ parentsOf' = parentsOf \cup {<< <<pid, ticks'>>, KeyOf(p)>> : p \in parents}
  /\ UNCHANGED <<endedAt, imagesOf>>

Execs(p, image) ==
  /\ Event
  /\ p.image \notin {image, NoImage} /\ ImageEnds(p)
  /\ procs' = (procs \ {p}) \cup {[p EXCEPT !.image = image]}
  /\ UNCHANGED <<ticks, endedAt, parentsOf>>

\* Its children are given to a parent outside Pids.
BecomesZombie(p) ==
  /\ Event
  /\ p.image # NoImage /\ ImageEnds(p)
  /\ procs' = {IF q = p THEN [p EXCEPT !.image = NoImage] ELSE IF q.ppid = p.pid THEN [q EXCEPT !.ppid = 0] ELSE q : q \in procs}
  /\ UNCHANGED <<ticks, endedAt, parentsOf>>

Reaped(p) ==
  /\ p.image = NoImage /\ ImageEnds(p) /\ procs' = procs \ {p} /\ endedAt' = [endedAt EXCEPT ![p.pid] = ticks]
  /\ UNCHANGED <<ticks, events, parentsOf, scanVars>>

ProcessNext ==
  \/ Discover \/ ReadStat \/ ReadIdentity \/ Recheck \/ Finish
  \/ \E pid \in Pids : Forks(pid, {}) \/ \E p \in procs : Forks(pid, {p})
  \/ \E p \in procs : BecomesZombie(p) \/ Reaped(p) \/ \E image \in Images : Execs(p, image)

ProcessSpec == ProcessInit /\ [][ProcessNext]_processVars

-----------------------------------------------------------------------------
(* Properties. *)

\* No process is reported as exited that is there when the scan ends.
ProcessExitsAreReal ==
  [][ scan # "idle" /\ scan' = "idle" => (prevProcesses \ prevProcesses') \cap KeysOf(procs) = {} ]_processVars

\* A row says of a process what was true of that process and no other: its image is the one it
\* has, or one it had within the life of the cache.
RowIsOneProcess ==
  scan = "idle" =>
    \A r \in shown : \/ \E p \in procs : KeyOf(p) = r.key /\ p.image = r.image
                     \/ \E i \in imagesOf : i.key = r.key /\ i.image = r.image /\ scanNow - i.until < IdentityTime

\* The process ended during this scan, or since.
Ended(k) == \E i \in imagesOf : i.key = k /\ i.image = NoImage /\ i.until = scanNow

\* What looks like the parent of c ended during the scan, and c has its parent from the process
\* that got its pid.
Mistaken(c, k) == Ended(k) /\ \E e \in parentsOf : e[1] = c /\ e[2][1] = k[1] /\ k[2] < e[2][2]

\* A process and its ancestors: in every set with the process and the parents of its members.
Ancestors(k) ==
  {a \in InstanceKeys :
     \A S \in SUBSET InstanceKeys : k \in S /\ (\A e \in parentsOf : e[1] \in S => e[2] \in S) => a \in S}

\* The parent of the process, or one above, is mistaken.
MistakenAbove(k) == \E c \in Ancestors(k), other \in InstanceKeys : Mistaken(c, other)

\* The parent shown is one the process had, and one runtime's group holds the descendants of the
\* process it is named for, although pids are used again during the scan: but for a parent that
\* ended after it was read, and whose pid the real one got before the child was read.
AncestryIsReal ==
  \A r \in shown :
    /\ \A k \in r.parents : <<r.key, k>> \in parentsOf \/ Mistaken(r.key, k)
    /\ r.image \in Runtimes => r.group[2] \in Ancestors(r.key) \/ MistakenAbove(r.key)

=============================================================================
