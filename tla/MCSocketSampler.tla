-------------------------- MODULE MCSocketSampler --------------------------
(* A small instance of SocketSampler: two processes, each an application of its own, and two *)
(* sockets in tables of different protocols.                                                 *)
EXTENDS SocketSampler

CONSTANTS p, q   \* processes

SomeTables == <<"tcp", "udp6">>

InTable == [s \in {"t", "u"} |-> IF s = "t" THEN 1 ELSE 2]

EachItsGroup == [x \in {p, q} |-> x]

\* Any one source of incomplete observations, and a late sample with a table cut short.
SomeFaults == {{"dump"}, {"failed"}, {"cut", "late"}, {"skip"}}

IncompleteProcesses == {{"rows"}}

=============================================================================
