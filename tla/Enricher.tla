------------------------------ MODULE Enricher ------------------------------
(***************************************************************************)
(* td_telemetry/enrichment.py: names and networks of remote addresses from *)
(* two optional lookups, reverse DNS and a local MMDB.  Each has a cache,  *)
(* a queue and at most one worker process; the helper looks at the workers *)
(* only when it samples, and reconfigures them between two samples.        *)
(*                                                                         *)
(* Time is counted in samples.  The answer of a worker is reduced to the   *)
(* address (and the database) it was asked about.  Addresses that an alias *)
(* or /etc/hosts names are left out: they never reach the DNS lookup.      *)
(***************************************************************************)
EXTENDS Integers, Sequences, FiniteSets, SequencesExt

CONSTANTS
  Addresses, Paths,   \* remote addresses, MMDB files
  QueueCap,           \* pending addresses per lookup (64)
  CacheCap,           \* cached answers per lookup (512)
  Fresh,              \* samples for which an answer is used (300 s)
  Timeout,            \* samples after which a worker is killed (1.5 s)
  MaxTime,            \* bound: samples
  NetworkStays        \* TRUE: the instrument always needs the network provider

ASSUME LimitAssumption ==
  /\ QueueCap \in Nat \ {0} /\ CacheCap \in Nat \ {0}
  /\ Fresh \in Nat /\ Timeout \in Nat /\ MaxTime \in Nat

VARIABLES
  now,
  mode, privacy, path,    \* naming mode ("local" also stands for "raw"), privacy, offline_path
  network,                \* the instrument needs the network provider
  dns, mmdb,              \* the two lookups
  failed                  \* offline_error is set

vars == <<now, mode, privacy, path, network, dns, mmdb, failed>>

NoPath == "none"

\* The value that stands for no address is none, and there are finitely many addresses.
ASSUME AddressAssumption == IsFiniteSet(Addresses) /\ NoPath \notin Addresses

Answers == [ip : Addresses, path : Paths \cup {NoPath}]

NoAnswer == [ip |-> NoPath, path |-> NoPath]    \* looked up in vain

Workers == [ip : Addresses, path : Paths \cup {NoPath}, at : 0..MaxTime,
            state : {"runs", "found", "nothing", "lost"}]    \* "lost": it could not be started

NoWorker == [ip |-> NoPath, path |-> NoPath, at |-> 0, state |-> "none"]

Entries == [ip : Addresses, at : 0..MaxTime, answer : Answers \cup {NoAnswer}]

Lookups == [cache : Seq(Entries), pending : Seq(Addresses), worker : Workers \cup {NoWorker}]

LookupOK(l) == l \in Lookups /\ Len(l.cache) <= CacheCap /\ Len(l.pending) <= QueueCap

TypeOK ==
  /\ now \in 0..MaxTime
  /\ mode \in {"local", "dns"} /\ privacy \in BOOLEAN /\ path \in Paths \cup {NoPath}
  /\ network \in BOOLEAN /\ failed \in BOOLEAN
  /\ LookupOK(dns) /\ LookupOK(mmdb)

Idle == [cache |-> <<>>, pending |-> <<>>, worker |-> NoWorker]

Init ==
  /\ now = 0
  /\ mode = "local" /\ privacy = FALSE /\ path = NoPath
  /\ network = TRUE
  /\ dns = Idle /\ mmdb = Idle
  /\ failed = FALSE

-----------------------------------------------------------------------------
(* One lookup, in the order of tick(): settle, trim, launch. *)

Store(cache, entry) ==
  LET at == SelectInSeq(cache, LAMBDA e : e.ip = entry.ip)
  IN  IF at = 0 THEN Append(cache, entry) ELSE ReplaceAt(cache, at, entry)

\* Mutant: only workers of a busy lookup are killed.
Overdue_IfBusy(l) == l.worker.state = "runs" /\ now - l.worker.at > Timeout /\ l.pending # <<>>

Overdue(l) == l.worker.state = "runs" /\ now - l.worker.at > Timeout

Settled(l) == l.worker.state \in {"found", "nothing"} \/ Overdue(l)

Result(w) == IF w.state = "found" THEN [ip |-> w.ip, path |-> w.path] ELSE NoAnswer

\* Mutant: the next address is taken before the answer of the last one is stored.
Settle_TakeFirst(l) ==
  IF ~Settled(l) THEN l
  ELSE [l EXCEPT !.cache = IF l.pending = <<>> THEN @
                           ELSE Store(@, [ip |-> Head(l.pending), at |-> now, answer |-> Result(l.worker)]),
                 !.worker = NoWorker]

\* A worker that has finished, or is overdue and killed, leaves an entry in the cache.
Settle(l) ==
  IF ~Settled(l) THEN l
  ELSE [l EXCEPT !.cache = Store(@, [ip |-> l.worker.ip, at |-> now, answer |-> Result(l.worker)]),
                 !.worker = NoWorker]

\* The oldest entries go first.
Trim(l) ==
  [l EXCEPT !.cache = IF Len(@) > CacheCap THEN SubSeq(@, Len(@) - CacheCap + 1, Len(@)) ELSE @]

Starts(l, allowed) == l.worker.state \in {"none", "lost"} /\ l.pending # <<>> /\ allowed

Launch(l, allowed, db) ==
  IF ~Starts(l, allowed) THEN l
  ELSE [l EXCEPT !.worker = [ip |-> Head(l.pending), path |-> db, at |-> now, state |-> "runs"],
                 !.pending = Tail(@)]

\* Popen raises: the address has left the queue and counts as the one that is looked up.
Lost(l, allowed, db) == [Launch(l, allowed, db) EXCEPT !.worker.state = "lost"]

Cached(l, a) == \E i \in DOMAIN l.cache : l.cache[i].ip = a /\ now - l.cache[i].at < Fresh

\* Mutant: the address the worker is busy with may be queued again.
Queued_NotWorker(l, a) ==
  IF Cached(l, a) \/ Contains(l.pending, a) \/ Len(l.pending) >= QueueCap
  THEN l
  ELSE [l EXCEPT !.pending = Append(@, a)]

\* Mutant: the length of the queue is not looked at.
Queued_NoCap(l, a) ==
  IF Cached(l, a) \/ a = l.worker.ip \/ Contains(l.pending, a) THEN l
  ELSE [l EXCEPT !.pending = Append(@, a)]

\* resolve(): an address with no fresh answer is queued once.
Queued(l, a) ==
  IF Cached(l, a) \/ a = l.worker.ip \/ Contains(l.pending, a) \/ Len(l.pending) >= QueueCap
  THEN l
  ELSE [l EXCEPT !.pending = Append(@, a)]

Asked(l, contacts) == FoldLeft(Queued, l, contacts)

Cleared(l) == [l EXCEPT !.worker = NoWorker, !.pending = <<>>]

-----------------------------------------------------------------------------

DnsAllowed == mode = "dns" /\ ~privacy

MmdbAllowed(error) == path # NoPath /\ ~privacy /\ ~error

MmdbFails == Settled(mmdb) /\ mmdb.worker.state # "found"

\* sample() with the network provider: tick(), then resolve() for every remote address.
Sample(contacts) ==
  LET error == failed \/ MmdbFails IN
  /\ network /\ now < MaxTime
  /\ dns' = LET l == Launch(Trim(Settle(dns)), DnsAllowed, NoPath)
            IN  IF DnsAllowed THEN Asked(l, contacts) ELSE l
  /\ mmdb' = LET l == Launch(Trim(Settle(mmdb)), MmdbAllowed(error), path)
             IN  IF MmdbAllowed(error) THEN Asked(l, contacts) ELSE l
  /\ failed' = error
  /\ now' = now + 1
  /\ UNCHANGED <<mode, privacy, path, network>>

\* A worker that cannot be started ends the sample: the rest of tick() and resolve() are left out.
SampleBreaksOff ==
  LET d == Trim(Settle(dns))
      m == Trim(Settle(mmdb))
      error == failed \/ MmdbFails
  IN  /\ network /\ now < MaxTime
      /\ \/ /\ Starts(d, DnsAllowed)
            /\ dns' = Lost(d, DnsAllowed, NoPath)
            /\ UNCHANGED <<mmdb, failed>>
         \/ /\ Starts(m, MmdbAllowed(error))
            /\ dns' = Launch(d, DnsAllowed, NoPath)
            /\ mmdb' = Lost(m, MmdbAllowed(error), path)
            /\ failed' = error
      /\ now' = now + 1
      /\ UNCHANGED <<mode, privacy, path, network>>

\* sample() of an instrument without the network: the lookups are not looked at.
SampleElsewhere ==
  /\ ~network /\ now < MaxTime
  /\ now' = now + 1
  /\ UNCHANGED <<mode, privacy, path, network, dns, mmdb, failed>>

SwitchInstrument ==
  /\ ~NetworkStays
  /\ network' = ~network
  /\ UNCHANGED <<now, mode, privacy, path, dns, mmdb, failed>>

\* Mutant: a change of the database keeps the worker that reads the old one.
Reopened_KeepWorker(l) == [l EXCEPT !.pending = <<>>, !.cache = <<>>]

Reopened(l) == Idle

\* Mutant: privacy only empties the queue of the MMDB lookup.
Hushed_KeepWorker(l) == [l EXCEPT !.pending = <<>>]

Hushed(l) == Cleared(l)

\* configure(): lookups that are no longer wanted are stopped at once.
Configure(m, p, db) ==
  LET reopened == IF db # path THEN Reopened(mmdb) ELSE mmdb IN
  /\ mode' = m /\ privacy' = p /\ path' = db
  /\ dns' = IF m # "dns" \/ p THEN Cleared(dns) ELSE dns
  /\ mmdb' = IF p THEN Hushed(reopened) ELSE reopened
  /\ failed' = IF db # path THEN FALSE ELSE failed
  /\ UNCHANGED <<now, network>>

\* A worker prints its answer, or that there is none, and exits.
DnsFinishes(s) ==
  /\ dns.worker.state = "runs"
  /\ dns' = [dns EXCEPT !.worker.state = s]
  /\ UNCHANGED <<now, mode, privacy, path, network, mmdb, failed>>

MmdbFinishes(s) ==
  /\ mmdb.worker.state = "runs"
  /\ mmdb' = [mmdb EXCEPT !.worker.state = s]
  /\ UNCHANGED <<now, mode, privacy, path, network, dns, failed>>

Next ==
  \/ \E contacts \in SetToAllKPermutations(Addresses) : Sample(contacts)
  \/ SampleBreaksOff
  \/ SampleElsewhere
  \/ SwitchInstrument
  \/ \E m \in {"local", "dns"}, p \in BOOLEAN, db \in Paths \cup {NoPath} : Configure(m, p, db)
  \/ \E s \in {"found", "nothing"} : DnsFinishes(s) \/ MmdbFinishes(s)

Spec == Init /\ [][Next]_vars

-----------------------------------------------------------------------------
(* Properties. *)

\* SECURITY-PRIVACY.md, "killed on ... privacy activation": while privacy is on no lookup
\* runs or waits, and neither does DNS in a mode that did not opt in.
PrivacyStopsLookups ==
  /\ privacy => mmdb.worker = NoWorker /\ mmdb.pending = <<>>
  /\ privacy \/ mode # "dns" => dns.worker = NoWorker /\ dns.pending = <<>>

\* An answer is stored for the address it was asked for, in either cache, whatever was
\* configured while the worker ran.
AnswersBelong ==
  \A l \in {dns, mmdb} : \A i \in DOMAIN l.cache :
    LET answer == l.cache[i].answer IN
    answer # NoAnswer => answer.ip = l.cache[i].ip /\ (l = mmdb => answer.path = path)

\* An address is never looked up twice at once: it waits once, or its worker runs.
NoDuplicateLookup ==
  \A l \in {dns, mmdb} : IsInjective(l.pending) /\ ~Contains(l.pending, l.worker.ip)

\* A sample with the network leaves no worker beyond its limit, however the lookups were
\* reconfigured and left alone before it, unless it broke off at the start of a DNS worker.
SampleEndsOverdue ==
  [][now' # now /\ network /\ ~(dns'.worker.state = "lost" /\ dns'.worker.at = now) =>
       \A l \in {dns', mmdb'} : l.worker.state = "runs" => now - l.worker.at <= Timeout]_vars

=============================================================================
