---------------------------- MODULE ContactModel ----------------------------
(***************************************************************************)
(* td_telemetry/network.py: build_network_model(), which turns the sockets *)
(* of a sample, one after the other, into applications, remotes, listeners *)
(* and relationships, and build_instance_model(), which does it again for  *)
(* the processes of the applications that are looked at.                   *)
(*                                                                         *)
(* Ports, protocols, names and ages are left out: the sockets between an   *)
(* application and a remote are one relationship.  A rate stands for bytes *)
(* acknowledged and bytes received.                                        *)
(***************************************************************************)
EXTENDS Integers, FiniteSets, FiniteSetsExt

CONSTANTS
  Contacts,        \* sockets
  Holders,          \* processes that own them
  Application,     \* of a process
  Nobody,          \* the application, and the process, of the sockets without a known owner
  Shapes           \* what a contact may be: [owners, remote, kind, closed, new, rate]

ASSUME ContactAssumption ==
  /\ IsFiniteSet(Contacts) /\ IsFiniteSet(Holders)
  /\ \A s \in Shapes : /\ s.owners \subseteq Holders /\ s.kind \in {"listen", "connection"}
                       /\ s.closed \in BOOLEAN /\ s.new \in BOOLEAN
                       /\ s.rate \subseteq Nat /\ \A a, b \in s.rate : a = b    \* known or not

VARIABLES
  shape,           \* of each contact
  instanceMode,    \* whether the rows are processes, and of which applications
  left,            \* the contacts not yet taken
  links, apps, remotes,   \* the rows so far, functions of their keys
  summary          \* its connections

modelVars == <<shape, instanceMode, left, links, apps, remotes, summary>>

Empty == [k \in {} |-> 0]

Row(table, key, fresh) == IF key \in DOMAIN table THEN table[key] ELSE fresh

Put(table, rows) == [k \in DOMAIN table \cup DOMAIN rows |-> IF k \in DOMAIN rows THEN rows[k] ELSE table[k]]

One(b) == IF b THEN 1 ELSE 0

\* _owners(): the applications of a socket, or in instance mode its processes, each with its processes.
OwnersOf(c) == IF shape[c].owners = {} THEN {Nobody} ELSE shape[c].owners

ApplicationOf(p) == IF p = Nobody THEN Nobody ELSE Application[p]

RowOf(p) == IF instanceMode = {} THEN ApplicationOf(p) ELSE p

RowsOf(c) == {RowOf(p) : p \in OwnersOf(c)}

\* build_instance_model(): the sockets of the applications that are looked at, that of the unattributed
\* ones among them.
Scoped(c) == instanceMode = {} \/ \E p \in OwnersOf(c) : ApplicationOf(p) \in instanceMode

ModelInit ==
  /\ shape \in [Contacts -> Shapes]
  /\ instanceMode \in SUBSET {ApplicationOf(p) : p \in Holders \cup {Nobody}}
  /\ left = {c \in Contacts : Scoped(c)}
  /\ links = Empty /\ apps = Empty /\ remotes = Empty /\ summary = 0

-----------------------------------------------------------------------------

\* Mutant: the rate of a socket is given to every application that shares it.
RateOf_Shared(c) == IF shape[c].closed THEN {} ELSE shape[c].rate

\* A rate is nobody's when applications share the socket.
RateOf(c) == IF shape[c].closed \/ \E g, h \in RowsOf(c) : g # h THEN {} ELSE shape[c].rate

Added(rate, more) == IF more = {} THEN rate ELSE {SumSet(rate) + SumSet(more)}

\* The relationship of row g, with this socket in it; its first socket says whether it is shared.
Linked(c, g) ==
  LET l == Row(links, <<g, shape[c].remote>>,
               [count |-> 0, total |-> 0, new |-> 0, rate |-> {}, active |-> FALSE, by |-> {},
                shared |-> \E h \in RowsOf(c) : h # g])
  IN  [count  |-> l.count + One(~shape[c].closed),
       total  |-> l.total + 1,
       new    |-> l.new + One(shape[c].new /\ ~shape[c].closed),
       rate   |-> Added(l.rate, RateOf(c)),
       active |-> l.active \/ ~shape[c].closed,
       by     |-> l.by \cup {p \in OwnersOf(c) : RowOf(p) = g},
       shared |-> l.shared]

\* One contact; a listener has no remote, and a remote counts a socket once for every owner.
Take(c) ==
  LET s == shape[c] IN
  /\ c \in left /\ left' = left \ {c}
  /\ apps' = Put(apps, [g \in RowsOf(c) |->
       LET a == Row(apps, g, [count |-> 0, active |-> FALSE, remotes |-> {}])
       IN  [count |-> a.count + One(~s.closed), active |-> a.active \/ ~s.closed,
            remotes |-> a.remotes \cup (IF s.kind = "listen" THEN {} ELSE {s.remote})]])
  /\ IF s.kind = "listen" THEN UNCHANGED <<links, remotes, summary>>
     ELSE /\ links' = Put(links, [k \in RowsOf(c) \X {s.remote} |-> Linked(c, k[1])])
          /\ remotes' = Put(remotes, [r \in {s.remote} |->
               LET old == Row(remotes, r, [count |-> 0, active |-> FALSE, by |-> {}])
               IN  [count |-> old.count + (IF s.closed THEN 0 ELSE Cardinality(RowsOf(c))),
                    active |-> old.active \/ ~s.closed, by |-> old.by \cup RowsOf(c)]])
          /\ summary' = summary + One(~s.closed)
  /\ UNCHANGED <<shape, instanceMode>>

ModelNext == \E c \in Contacts : Take(c)

ModelSpec == ModelInit /\ [][ModelNext]_modelVars

-----------------------------------------------------------------------------
(* Properties. *)

Taken == {c \in Contacts \ left : Scoped(c)}

Connections == {c \in Taken : shape[c].kind = "connection"}

Open(cs) == {c \in cs : ~shape[c].closed}

Between(k) == {c \in Connections : k[1] \in RowsOf(c) /\ shape[c].remote = k[2]}

\* What rows show together, or sockets.
Traffic(of, keys) == MapThenSumSet(LAMBDA k : SumSet(of[k].rate), keys)

\* No byte is shown as the traffic of two applications: what the relationships show together is
\* the traffic of the open sockets that have one owner, and one without such a socket shows none.
GoodputOnce ==
  /\ Traffic(links, DOMAIN links)
       = Traffic(shape, {c \in Open(Connections) : Cardinality(RowsOf(c)) = 1})
  /\ \A k \in DOMAIN links :
       links[k].rate = {} <=> \A c \in Open(Between(k)) : Cardinality(RowsOf(c)) > 1 \/ shape[c].rate = {}

\* Whatever the order of the sockets, every row is about the sockets it is made of, and a socket
\* that applications share is one connection.
ModelIsExact ==
  /\ GoodputOnce
  /\ DOMAIN links = UNION {RowsOf(c) \X {shape[c].remote} : c \in Connections}
  /\ \A k \in DOMAIN links :
       /\ links[k].count = Cardinality(Open(Between(k))) /\ links[k].total = Cardinality(Between(k))
       /\ links[k].new = Cardinality({c \in Open(Between(k)) : shape[c].new})
       /\ links[k].active = (Open(Between(k)) # {})
       /\ links[k].by = {p \in UNION {OwnersOf(c) : c \in Between(k)} : RowOf(p) = k[1]}
       /\ k[2] \in apps[k[1]].remotes /\ k[1] \in remotes[k[2]].by
  /\ \A g \in DOMAIN apps : apps[g].count = Cardinality({c \in Open(Taken) : g \in RowsOf(c)})
  /\ \A r \in DOMAIN remotes : remotes[r].active = (\E c \in Open(Connections) : shape[c].remote = r)
  /\ summary = Cardinality(Open(Connections))

=============================================================================
