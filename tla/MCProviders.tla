---------------------------- MODULE MCProviders ----------------------------
(* Small instances of the models of the providers.  They share no variable, and a behaviour is *)
(* one of a single one of them, while the others stay in one of their initial states.          *)
EXTENDS MCSocketSampler, ProcessScan, ContactModel, AudioActions, BoundedCommand, TLC

Applications == [x \in {"a1", "a2", "b"} |-> IF x = "b" THEN "B" ELSE "A"]

Unseen == [owners |-> {}, remote |-> "x", kind |-> "connection", closed |-> FALSE, new |-> FALSE, rate |-> {}]

\* Sockets that two processes of one application own, or two applications; a listener; two remotes.
SomeShapes ==
  {[Unseen EXCEPT !.owners = o, !.closed = c, !.rate = r] :
     o \in {{}, {"a1"}, {"a1", "a2"}, {"a2", "b"}}, c \in BOOLEAN, r \in {{}, {1}}}
  \cup {[Unseen EXCEPT !.owners = {"a1"}, !.remote = m, !.kind = k, !.new = TRUE, !.rate = {2}] :
          m \in {"x", "y"}, k \in {"listen", "connection"}}

VARIABLE part

providerVars == <<part, socketVars, processVars, modelVars, audioVars, commandVars>>

Init ==
  /\ part \in {"sockets", "processes", "model", "audio", "command"}
  /\ (part # "sockets" => running = {} /\ open = {} /\ socketFaults = {"dump"}) /\ SocketInit
  /\ (part # "processes" => procs = {}) /\ ProcessInit
  /\ (part # "model" => shape = [c \in Contacts |-> Unseen] /\ instanceMode = {}) /\ ModelInit
  /\ (part # "audio" => bound = {<<"m", 1>>}) /\ AudioInit
  /\ CommandInit

Next ==
  /\ UNCHANGED part
  /\ \/ part = "sockets" /\ SocketNext /\ UNCHANGED <<processVars, modelVars, audioVars, commandVars>>
     \/ part = "processes" /\ ProcessNext /\ UNCHANGED <<socketVars, modelVars, audioVars, commandVars>>
     \/ part = "model" /\ ModelNext /\ UNCHANGED <<socketVars, processVars, audioVars, commandVars>>
     \/ part = "audio" /\ AudioNext /\ UNCHANGED <<socketVars, processVars, modelVars, commandVars>>
     \/ part = "command" /\ CommandNext /\ UNCHANGED <<socketVars, processVars, modelVars, audioVars>>

Spec == Init /\ [][Next]_providerVars

Symmetry == Permutations({p, q})

\* Two events of processes, or four of interpreters in the first scan.
FewEvents == events <= 2 \/ (scanNow < MaxScans /\ \A one \in procs \cup imagesOf : one.image # "program")

=============================================================================
