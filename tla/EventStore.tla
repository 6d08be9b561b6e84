----------------------------- MODULE EventStore -----------------------------
(***************************************************************************)
(* td_telemetry/events.py: what opened, changed and closed between two     *)
(* observations of a set of entities, when an observation may be partial.  *)
(*                                                                         *)
(* The entities come and go outside; each scan sees some of those alive,   *)
(* and says whether it saw them all.  Domains share the queue, the ghosts  *)
(* and the record of first sightings.  An OrderedDict is a sequence, its   *)
(* oldest entry first.                                                     *)
(***************************************************************************)
EXTENDS Integers, Sequences, FiniteSets, SequencesExt

CONSTANTS
  Domains, Entities,   \* Entities is a set of [domain, id] records
  Ttl,                 \* lifetime of an event and of a ghost
  QueueLimit,          \* events kept (512)
  GhostLimit,          \* ghosts kept (256)
  EntityLimit,         \* entities kept of one domain (24000)
  MaxTime              \* bound: time

ASSUME LimitAssumption ==
  /\ Ttl \in Nat /\ MaxTime \in Nat
  /\ QueueLimit \in Nat \ {0} /\ GhostLimit \in Nat \ {0} /\ EntityLimit \in Nat \ {0}

\* An entity is observed in one domain.
ASSUME EntityAssumption == IsFiniteSet(Entities) /\ \A e \in Entities : e.domain \in Domains

VARIABLES
  now,
  alive,        \* the entities that exist
  observed,     \* the domains that have something to compare with
  previous,     \* per domain: the entities to compare with
  queue,        \* the events
  ghosts,       \* closed entities still shown
  firstSeen,    \* when an entity was first seen, the most recently seen last
  sightedSince  \* history, per entity: the others that were seen after it was last seen

seenVars == <<observed, previous, queue, ghosts, firstSeen, sightedSince>>

vars == <<now, alive, observed, previous, queue, ghosts, firstSeen, sightedSince>>

Of(d) == {e \in Entities : e.domain = d}

Events == [entity : Entities, kind : {"opened", "changed", "closed"}, at : 0..MaxTime]

Ghosts == [entity : Entities, at : 0..MaxTime]

TypeOK ==
  /\ now \in 0..MaxTime
  /\ alive \subseteq Entities
  /\ observed \subseteq Domains
  /\ \A d \in Domains : previous[d] \in Seq(Of(d)) /\ Len(previous[d]) <= EntityLimit
  /\ queue \in Seq(Events) /\ Len(queue) <= QueueLimit
  /\ ghosts \in Seq(Ghosts) /\ Len(ghosts) <= GhostLimit
  /\ firstSeen \in Seq(Ghosts) /\ Len(firstSeen) <= 2 * EntityLimit
  /\ sightedSince \in [Entities -> SUBSET Entities]

Init ==
  /\ now = 0
  /\ alive \in SUBSET Entities
  /\ observed = {} /\ previous = [d \in Domains |-> <<>>]
  /\ queue = <<>> /\ ghosts = <<>> /\ firstSeen = <<>>
  /\ sightedSince = [e \in Entities |-> {}]

-----------------------------------------------------------------------------

LastN(s, n) == SubSeq(s, IF Len(s) > n THEN Len(s) - n + 1 ELSE 1, Len(s))

\* The elements of s that are in T, in their order.
Chosen(s, T) == FoldLeft(LAMBDA kept, x : IF x \in T THEN Append(kept, x) ELSE kept, <<>>, s)

\* expire(): events leave from the front, ghosts from anywhere.
Unexpired(s) ==
  LET live == {i \in DOMAIN s : s[i].at + Ttl > now}
  IN  IF live = {} THEN <<>> ELSE SubSeq(s, Min(live), Len(s))

Live(s) == Chosen(s, {x \in ToSet(s) : x.at + Ttl > now})

Without(s, es) == Chosen(s, {x \in ToSet(s) : x.entity \notin es})

Stamped(es) == [i \in DOMAIN es |-> [entity |-> es[i], at |-> now]]

Minus(s, es) == Chosen(s, ToSet(s) \ es)

\* Entities of a scan that are kept: the rest make it incomplete.
Kept(rows) == SubSeq(rows, 1, IF Len(rows) > EntityLimit THEN EntityLimit ELSE Len(rows))

\* Mutant: only the number of rows decides whether a scan is complete.
Complete_Ignored(rows, complete) == Len(rows) <= EntityLimit

Complete(rows, complete) == complete /\ Len(rows) <= EntityLimit

\* Events of the current entities, then those of the entities that a complete scan misses.
Diff(d, rows, changed, complete) ==
  LET old == ToSet(previous[d])
      Kind(e) == IF e \notin old THEN "opened" ELSE "changed"
      Told(e) == d \in observed /\ (e \notin old \/ e \in changed)
      current == Chosen(Kept(rows), {e \in ToSet(Kept(rows)) : Told(e)})
      closed == IF d \in observed /\ Complete(rows, complete)
                THEN Minus(previous[d], ToSet(Kept(rows))) ELSE <<>>
  IN  [current |-> [i \in DOMAIN current |-> [entity |-> current[i], kind |-> Kind(current[i]), at |-> now]],
       closed  |-> [i \in DOMAIN closed |-> [entity |-> closed[i], kind |-> "closed", at |-> now]],
       gone    |-> closed]

\* Mutant: an incomplete scan is the next thing to compare with.
Compared_Replaced(d, rows, complete) == Kept(rows)

\* Mutant: merging an incomplete scan has no limit.
Compared_NoLimit(d, rows, complete) ==
  IF d \notin observed \/ Complete(rows, complete)
  THEN Kept(rows)
  ELSE previous[d] \o Minus(Kept(rows), ToSet(previous[d]))

\* After an incomplete scan the unseen entities stay, up to the limit, the oldest first to go.
Compared(d, rows, complete) ==
  IF d \notin observed \/ Complete(rows, complete)
  THEN Kept(rows)
  ELSE LastN(previous[d] \o Minus(Kept(rows), ToSet(previous[d])), EntityLimit)

\* Mutant: an entity that is back keeps its ghost.
Haunting_Stays(rows) == ghosts

Haunting(rows) == Without(ghosts, ToSet(Kept(rows)))

FirstSeenAt(e) ==
  LET i == SelectInSeq(firstSeen, LAMBDA x : x.entity = e)
  IN  IF i = 0 THEN now ELSE firstSeen[i].at

\* Mutant: every sighting counts as the first.
Sighted_Anew(rows) == Without(firstSeen, ToSet(Kept(rows))) \o Stamped(Kept(rows))

\* Mutant: an entity seen again keeps its place, so that the oldest first sighting goes first.
Sighted_InPlace(rows) ==
  firstSeen \o Stamped(Minus(Kept(rows), {firstSeen[i].entity : i \in DOMAIN firstSeen}))

\* setdefault() and move_to_end().
Sighted(rows) ==
  Without(firstSeen, ToSet(Kept(rows)))
    \o [i \in DOMAIN Kept(rows) |-> [entity |-> Kept(rows)[i], at |-> FirstSeenAt(Kept(rows)[i])]]

\* The entities of rows that come after e.
After(rows, e) == {rows[j] : j \in {j \in DOMAIN rows : \E i \in 1..(j - 1) : rows[i] = e}}

\* A sighting of an entity starts the account of those seen after it anew.
SightedSince(rows) ==
  [e \in Entities |-> IF e \in ToSet(Kept(rows)) THEN After(Kept(rows), e)
                       ELSE sightedSince[e] \cup ToSet(Kept(rows))]

\* update(), with the expire() that ends it.
Update(d, rows, changed, complete) ==
  LET diff == Diff(d, rows, changed, complete) IN
  /\ queue' = Unexpired(LastN(queue \o diff.current \o diff.closed, QueueLimit))
  /\ ghosts' = LastN(Live(Haunting(rows) \o Stamped(diff.gone)), GhostLimit)
  /\ firstSeen' = LastN(Sighted(rows), 2 * EntityLimit)
  /\ sightedSince' = SightedSince(rows)
  /\ observed' = observed \cup {d}
  /\ previous' = [previous EXCEPT ![d] = Compared(d, rows, complete)]

\* The engine scans a domain, always in one order: a complete scan sees every living entity of it.
Scan(d) ==
  /\ \E seen \in SUBSET (alive \cap Of(d)), complete \in BOOLEAN :
     \E changed \in SUBSET seen :
       /\ complete => seen = alive \cap Of(d)
       /\ Update(d, SetToSeq(seen), changed, complete)
  /\ UNCHANGED <<now, alive>>

\* events() and decorate() of another sample.
Expire ==
  /\ queue' = Unexpired(queue) /\ ghosts' = LastN(Live(ghosts), GhostLimit)
  /\ UNCHANGED <<now, alive, observed, previous, firstSeen, sightedSince>>

\* reset_domain(): the provider was not sampled for a while.
Reset(d) ==
  /\ previous' = [previous EXCEPT ![d] = <<>>] /\ observed' = observed \ {d}
  /\ queue' = Without(queue, Of(d)) /\ ghosts' = Without(ghosts, Of(d))
  /\ UNCHANGED <<now, alive, firstSeen, sightedSince>>

Comes(e) == e \notin alive /\ alive' = alive \cup {e} /\ UNCHANGED <<now, seenVars>>

Goes(e) == e \in alive /\ alive' = alive \ {e} /\ UNCHANGED <<now, seenVars>>

Tick == now < MaxTime /\ now' = now + 1 /\ UNCHANGED <<alive, seenVars>>

Next ==
  \/ \E d \in Domains : Scan(d) \/ Reset(d)
  \/ \E e \in Entities : Comes(e) \/ Goes(e)
  \/ Expire \/ Tick

Spec == Init /\ [][Next]_vars

-----------------------------------------------------------------------------
(* Properties. *)

ClosedNow(q) == {q[i].entity : i \in {k \in DOMAIN q : q[k].kind = "closed" /\ q[k].at = now}}

\* "Incomplete observations never prove disappearance": no living entity is reported as closed.
ClosedIsGone == [][(ClosedNow(queue') \ ClosedNow(queue)) \cap alive = {}]_vars

\* The view never shows an entity and its ghost side by side.
GhostsAreGone ==
  \A i \in DOMAIN ghosts : LET e == ghosts[i].entity IN e \notin ToSet(previous[e.domain])

\* In a domain below its limit an entity is not announced as opened twice unless it was
\* reported as closed in between.
OpensOnce ==
  \A i, j \in DOMAIN queue :
    Cardinality(Of(queue[i].entity.domain)) <= EntityLimit
      /\ i < j /\ queue[i].entity = queue[j].entity /\ queue[i].kind = "opened" /\ queue[j].kind = "opened"
      => \E k \in i..j : queue[k].entity = queue[i].entity /\ queue[k].kind = "closed"

\* The age of an entity goes on, compared with or not, through incomplete scans, pauses and
\* returns, until as many others as are remembered have been seen after it: only then is its first
\* sighting forgotten and its age may start again.
AgeGoesOn ==
  [][ \A x \in ToSet(firstSeen) :
        x \in ToSet(firstSeen') \/ Cardinality(sightedSince'[x.entity]) >= 2 * EntityLimit ]_vars

=============================================================================
