--------------------------- MODULE SocketSampler ---------------------------
(***************************************************************************)
(* td_telemetry/network.py: the socket tables, read under one budget of    *)
(* rows and time, and the processes that own the sockets, looked up in     *)
(* /proc/<pid>/fd at a slower pace through a cache.  What a sample         *)
(* concludes from them: which sockets, and which relationships between     *)
(* applications and remotes (td_telemetry/engine.py), are gone.            *)
(*                                                                         *)
(* A sample is one step: what happens on the machine meanwhile is what a   *)
(* table read at one moment shows.  Every socket has an inode and a remote *)
(* of its own.                                                             *)
(***************************************************************************)
EXTENDS Integers, Sequences, FiniteSets

CONSTANTS
  Sockets, Processes,  \* what may exist; a process is an instance, not a pid
  GroupOf,             \* application group of a process
  NoGroup,             \* the group of the sockets nobody is known to own
  Tables,              \* the tables, in the order they are read, subset of tcp, tcp6, udp, udp6
  TableOf,             \* the table a socket is in
  MaxContacts,         \* rows of one sample (20000)
  OwnerInterval,       \* between two full scans of the owners (0.75 s to 3 s)
  FallbackTime,        \* how long procfs replaces inet_diag after a failure (10 s)
  SocketFaultSets,     \* what may go wrong in one behaviour: subsets of SocketFaults
  MaxNow, MaxMoves     \* bounds: time, events of the machine

SocketFaults == {"dump", "failed", "cut", "late", "rows", "skip"}

ASSUME SamplerAssumption ==
  /\ GroupOf \in [Processes -> {GroupOf[p] : p \in Processes}] /\ NoGroup \notin {GroupOf[p] : p \in Processes}
  /\ TableOf \in [Sockets -> DOMAIN Tables]
  /\ MaxContacts \in Nat \ {0} /\ OwnerInterval \in Nat /\ FallbackTime \in Nat
  /\ SocketFaultSets \subseteq SUBSET SocketFaults
  /\ MaxNow \in Nat /\ MaxMoves \in Nat

VARIABLES
  socketFaults,   \* the member of SocketFaultSets that this behaviour may show
  socketNow, moves,
  open, holders,  \* the open sockets, and the processes that hold a socket
  running, ended, \* processes; the processes and sockets of the past
  ownerCache, ownerAt, fallbackUntil,
  prevSockets, prevLinks,    \* what the event stores compare with
  frame,                     \* the last sample
  held            \* history: who held a socket at or since the last full scan of the owners

sampler == <<ownerCache, ownerAt, fallbackUntil, prevSockets, prevLinks, frame>>
machine == <<open, holders, running, ended>>
clock == <<socketFaults, socketNow, moves>>
socketVars == <<clock, machine, sampler, held>>

\* A socket is identified by its addresses and the cookie of inet_diag, or else its inode.
Keys == [socket : Sockets, cookie : BOOLEAN]

Links == [group : {GroupOf[p] : p \in Processes} \cup {NoGroup}, socket : Sockets]

NoOwners == [s \in Sockets |-> {}]

\* The helper starts on a machine in any state.
SocketInit ==
  /\ socketFaults \in SocketFaultSets /\ socketNow = 0 /\ moves = 0
  /\ running \in SUBSET Processes /\ ended = {}
  /\ open \in SUBSET Sockets /\ holders \in [Sockets -> SUBSET running]
  /\ \A s \in Sockets \ open : holders[s] = {}
  /\ ownerCache = NoOwners /\ ownerAt = -OwnerInterval /\ fallbackUntil = 0
  /\ prevSockets = {} /\ prevLinks = {}
  /\ frame = [rows |-> {}, contacts |-> {}, owners |-> NoOwners, complete |-> TRUE, silent |-> FALSE]
  /\ held = holders

-----------------------------------------------------------------------------
(* The tables. *)

\* inet_diag or procfs answers, procfs is cut short at the deadline, no such table, an error,
\* or the budget was spent before.
Kinds == {"dumped", "read", "cut", "absent", "failed", "unread"}

Tcp(i) == Tables[i] \in {"tcp", "tcp6"}

In(rows, i) == {s \in rows : TableOf[s] = i}

\* What the tables before this one leave of the budget of rows.
Remaining(seen, i) == MaxContacts - Cardinality({s \in seen : TableOf[s] < i})

Filled(seen, i) == Cardinality(In(seen, i)) = Remaining(seen, i)

\* inet_diag was asked for a TCP table and failed; procfs has its turn at once.
DumpFailed(kinds, i) == Tcp(i) /\ socketNow >= fallbackUntil /\ kinds[i] \notin {"dumped", "unread"}

Ends(kinds, seen, i) == kinds[i] \in {"cut", "unread"} \/ Filled(seen, i)

\* dump_tcp() and read_socket_table(): the whole table, or as much of it as the budget lets in.
\* The latter stops without a word at the deadline; a missing IPv6 table is an empty one.
Table(kind, seen, late, i) ==
  /\ kind \in {"dumped", "read"} => In(seen, i) = In(open, i) \/ Filled(seen, i)
  /\ kind = "cut" => late /\ "cut" \in socketFaults /\ ~Filled(seen, i)
  /\ kind = "absent" => Tables[i] \in {"tcp6", "udp6"} /\ In(open, i) = {}
  /\ kind = "failed" => "failed" \in socketFaults
  /\ kind \in {"failed", "unread"} => In(seen, i) = {}

\* The ways one sample may read the tables; late: the deadline has passed when it is done.
Reading(kinds, seen, late) ==
  \A i \in DOMAIN Tables :
    LET before == 1..(i - 1) IN
    /\ Table(kinds[i], seen, late, i)
    /\ kinds[i] = "dumped" =>
         Tcp(i) /\ socketNow >= fallbackUntil /\ \A j \in before : ~DumpFailed(kinds, j)
    /\ IF \E j \in before : Ends(kinds, seen, j) THEN kinds[i] = "unread" ELSE kinds[i] = "unread" => late
    /\ DumpFailed(kinds, i) => "dump" \in socketFaults \/ \E j \in before : DumpFailed(kinds, j)

\* Mutant: a table that could not be read is an empty one.
WholeScan_Failed(kinds, seen) == \A i \in DOMAIN Tables : kinds[i] # "unread" /\ ~Filled(seen, i)

WholeScan(kinds, seen) ==
  \A i \in DOMAIN Tables : kinds[i] \in {"dumped", "read", "cut", "absent"} /\ ~Filled(seen, i)

-----------------------------------------------------------------------------
(* The owners. *)

\* A scan of the descriptors of the processes, except those that it may not see, has no time for,
\* or leaves out beyond its limit.
FoundOwners(wanted, rows, unlisted) ==
  [s \in Sockets |-> IF s \in wanted THEN {p \in holders[s] \cap rows : <<s, p>> \notin unlisted} ELSE {}]

\* Mutant: a cached owner stays the owner after its end.
CachedOwners_Dead(seen, rows) == [s \in Sockets |-> IF s \in seen THEN ownerCache[s] ELSE {}]

\* _cached_owners().
CachedOwners(seen, rows) == [s \in Sockets |-> IF s \in seen THEN ownerCache[s] \cap rows ELSE {}]

Unowned(seen, owners) == {s \in seen : owners[s] = {}}

OwnerScanDue(late) == socketNow - ownerAt >= OwnerInterval /\ ~late

FullScan(seen, rows, unlisted) ==
  LET found == FoundOwners(seen, rows, unlisted)
  IN  [owners |-> found, cache |-> found]

\* Between two full scans only sockets without a cached owner are looked up, if time is left.
CacheScan(seen, rows, unlisted, late) ==
  LET cached  == CachedOwners(seen, rows)
      missing == Unowned(seen, cached)
      fresh   == FoundOwners(missing, rows, unlisted)
      merged  == [s \in Sockets |-> cached[s] \cup fresh[s]]
  IN  IF missing # {} /\ ~late
      THEN [owners |-> merged,
            cache |-> [s \in Sockets |-> IF s \notin seen THEN {}
                                         ELSE IF merged[s] # {} THEN merged[s] ELSE ownerCache[s]]]
      ELSE [owners |-> cached, cache |-> ownerCache]

\* owners().
Owners(seen, rows, unlisted, late) ==
  IF OwnerScanDue(late) THEN FullScan(seen, rows, unlisted) ELSE CacheScan(seen, rows, unlisted, late)

-----------------------------------------------------------------------------
(* One sample. *)

\* build_network_model(): the relationships of the sockets seen.
LinksOf(seen, owners) ==
  {l \in Links : /\ l.socket \in seen
                 /\ IF owners[l.socket] = {} THEN l.group = NoGroup
                    ELSE \E p \in owners[l.socket] : l.group = GroupOf[p]}

\* EventStore.update(): what the next sample is compared with; what it loses is reported as closed.
Compared(prev, current, complete) == IF complete THEN current ELSE prev \cup current

Unless(fault, outcomes, usual) == IF fault \in socketFaults THEN outcomes ELSE {usual}

\* sample() of the processes seen, and the engine's comparison of its relationships.
SocketSample ==
  /\ \E late \in Unless("late", BOOLEAN, FALSE), seen \in {some \in SUBSET open : Cardinality(some) <= MaxContacts} :
     \E kinds \in {k \in [DOMAIN Tables -> Kinds] : Reading(k, seen, late)},
        rows \in Unless("rows", SUBSET running, running) :
     \E unlisted \in Unless("skip", SUBSET (Sockets \X Processes), {}) :
       LET got      == Owners(seen, rows, unlisted, late)
           contacts == {k \in Keys : k.socket \in seen /\ k.cookie = (kinds[TableOf[k.socket]] = "dumped")}
           complete == WholeScan(kinds, seen)
       IN
       /\ ownerCache' = got.cache
       /\ ownerAt' = IF OwnerScanDue(late) THEN socketNow ELSE ownerAt
       /\ fallbackUntil' = IF \E i \in DOMAIN Tables : DumpFailed(kinds, i) THEN socketNow + FallbackTime ELSE fallbackUntil
       /\ prevSockets' = Compared(prevSockets, contacts, complete)
       /\ prevLinks' = Compared(prevLinks, LinksOf(seen, got.owners), complete)
       /\ frame' = [rows |-> rows, contacts |-> contacts, owners |-> got.owners,
                    complete |-> complete, silent |-> \E i \in DOMAIN Tables : kinds[i] = "cut"]
       /\ held' = IF OwnerScanDue(late) THEN holders ELSE held
  /\ UNCHANGED <<clock, machine>>

\* The network was inactive: the next sample compares with nothing.
SocketReset ==
  /\ prevSockets' = {} /\ prevLinks' = {}
  /\ UNCHANGED <<clock, machine, ownerCache, ownerAt, fallbackUntil, frame, held>>

-----------------------------------------------------------------------------
(* The machine. *)

Move == moves < MaxMoves /\ moves' = moves + 1 /\ UNCHANGED <<socketFaults, socketNow, sampler>>

Starts(p) ==
  /\ Move
  /\ p \notin running \cup ended /\ running' = running \cup {p}
  /\ UNCHANGED <<open, holders, ended, held>>

\* The sockets that only this process holds are closed.
Dies(p) ==
  LET last == {s \in Sockets : holders[s] = {p}} IN
  /\ Move
  /\ p \in running /\ running' = running \ {p} /\ ended' = ended \cup {p} \cup last
  /\ open' = open \ last /\ holders' = [s \in Sockets |-> holders[s] \ {p}]
  /\ UNCHANGED held

\* By a process, or by one the helper may not look into.
Opens(s, ps) ==
  /\ Move
  /\ s \notin open \cup ended /\ ps \subseteq running /\ Cardinality(ps) <= 1
  /\ open' = open \cup {s} /\ holders' = [holders EXCEPT ![s] = ps]
  /\ held' = [held EXCEPT ![s] = @ \cup ps]
  /\ UNCHANGED <<running, ended>>

\* Inherited or passed on.
Shares(s, p) ==
  /\ Move
  /\ s \in open /\ holders[s] # {} /\ p \in running \ holders[s]
  /\ holders' = [holders EXCEPT ![s] = @ \cup {p}]
  /\ held' = [held EXCEPT ![s] = @ \cup {p}]
  /\ UNCHANGED <<open, running, ended>>

Closes(s) ==
  /\ Move
  /\ s \in open /\ open' = open \ {s} /\ ended' = ended \cup {s} /\ holders' = [holders EXCEPT ![s] = {}]
  /\ UNCHANGED <<running, held>>

SocketTick == socketNow < MaxNow /\ socketNow' = socketNow + 1 /\ UNCHANGED <<socketFaults, moves, machine, sampler, held>>

SocketNext ==
  \/ SocketSample \/ SocketReset \/ SocketTick
  \/ \E p \in Processes : Starts(p) \/ Dies(p)
  \/ \E s \in Sockets : Closes(s) \/ (\E ps \in SUBSET Processes : Opens(s, ps)) \/ (\E p \in Processes : Shares(s, p))

SocketSpec == SocketInit /\ [][SocketNext]_socketVars

-----------------------------------------------------------------------------
(* Properties. *)

\* "Unseen closures not inferred": no open socket is reported as closed, unless its row changed
\* its identity with its source, or the last table was cut short at the deadline.
SocketExitsAreReal ==
  [][ frame' # frame =>
        \A k \in prevSockets \ prevSockets' :
          k.socket \notin open \/ frame'.silent \/ [k EXCEPT !.cookie = ~@] \in frame'.contacts ]_socketVars

\* "Incomplete observations do not mean entities exited": no relationship is reported as ended
\* while a process of its application holds its socket.
LinkExitsAreReal ==
  [][ frame' # frame =>
        \A l \in prevLinks \ prevLinks' : ~ \E p \in holders[l.socket] \cap running : GroupOf[p] = l.group ]_socketVars

\* An owner shown for a socket is a process of the same sample, and held the socket at the last
\* full scan or since. A sample that is late makes the next full scan late as well.
OwnersHeldIt == \A s \in Sockets : frame.owners[s] \subseteq held[s] \cap frame.rows

=============================================================================
