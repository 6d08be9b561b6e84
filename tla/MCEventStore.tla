---------------------------- MODULE MCEventStore ----------------------------
(* Small instances of EventStore: entities of one domain, or of two that share the queue. *)
EXTENDS EventStore

CONSTANTS a, b, p, q

\* One domain with more entities than are kept, and one with a single entity.
Crowded == {[domain |-> a, id |-> x] : x \in {p, q}} \cup {[domain |-> b, id |-> p]}

=============================================================================
