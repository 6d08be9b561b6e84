--------------------------- MODULE BoundedCommand ---------------------------
(***************************************************************************)
(* td_telemetry/common.py: run_command(), and td_telemetry/guardexec.py,   *)
(* which starts its command: an external program runs for a bounded time   *)
(* with bounded output, in a process group that is killed at the end, and  *)
(* does not outlive the helper.                                            *)
(*                                                                         *)
(* The program writes, closes its pipes, forks, exits or hangs as it       *)
(* likes; its children stay in its process group, and share its pipes.     *)
(* Stdout and stderr are one pipe here, and commands with input are left   *)
(* out.                                                                    *)
(***************************************************************************)
EXTENDS Integers

CONSTANTS
  MaxBytes,     \* what the output may come to
  OutputBound   \* bound: what the program writes, more than MaxBytes

ASSUME CommandAssumption == MaxBytes \in Nat /\ OutputBound \in Nat /\ MaxBytes < OutputBound

VARIABLES
  helper,     \* where run_command() is: "io", "exit", "kill", "wait", "returned"; or "dead"
  overdue,    \* the deadline has passed
  outcome,    \* what it returns or raises
  output,     \* bytes read
  leader,     \* the program's process: "forked", "armed", "runs", "zombie", or "reaped"
  adopted,    \* the parent was gone when it asked for a signal at the parent's end
  writers,    \* who holds the pipe, of "leader" and "child"
  pending,    \* bytes in the pipe
  child,      \* a process that the program has forked: "none", "runs", "ended"
  code,       \* the exit code
  reused,     \* history: the pid belongs to somebody else by now
  stray       \* history: who was killed that had nothing to do with the command

commandVars == <<helper, overdue, outcome, output, leader, adopted, writers, pending, child, code, reused, stray>>

OutputOK == output \in Nat /\ pending \in Nat /\ output + pending <= OutputBound

CallOK ==
  /\ helper \in {"io", "exit", "kill", "wait", "returned", "dead"} /\ overdue \in BOOLEAN
  /\ outcome \in {"none", "ok", "failed", "timeout", "too much"}

ProgramOK ==
  /\ leader \in {"forked", "armed", "runs", "zombie", "reaped"} /\ adopted \in BOOLEAN
  /\ child \in {"none", "runs", "ended"} /\ code \in {"none", "zero", "other"}

SystemOK == writers \subseteq {"leader", "child"} /\ reused \in BOOLEAN /\ stray \in BOOLEAN

CommandTypeOK == OutputOK /\ CallOK /\ ProgramOK /\ SystemOK

CommandInit ==
  /\ helper = "io" /\ overdue = FALSE /\ outcome = "none" /\ output = 0
  /\ leader = "forked" /\ adopted = FALSE /\ writers = {"leader"} /\ pending = 0
  /\ child = "none" /\ code = "none" /\ reused = FALSE /\ stray = FALSE

group == <<leader, adopted, writers, child, code>>

-----------------------------------------------------------------------------
(* run_command(). *)

Raise(what) == outcome' = what /\ helper' = "kill"

\* One pass of the loop over the pipes: the deadline is looked at first, then what is readable.
Read ==
  /\ helper = "io"
  /\ IF overdue THEN Raise("timeout") /\ UNCHANGED <<output, pending>>
     ELSE \/ /\ pending > 0 /\ output' = output + pending /\ pending' = 0
             /\ IF output' > MaxBytes THEN Raise("too much") ELSE UNCHANGED <<helper, outcome>>
          \/ pending = 0 /\ writers = {} /\ helper' = "exit" /\ UNCHANGED <<outcome, output, pending>>
  /\ UNCHANGED <<overdue, group, reused, stray>>

\* Mutant: a program that has closed its output is waited for as long as it takes.
AwaitExit_Long ==
  /\ helper = "exit" /\ leader = "zombie" /\ helper' = "kill"
  /\ UNCHANGED <<overdue, outcome, output, pending, group, reused, stray>>

\* The exit is observed without reaping.
AwaitExit ==
  /\ helper = "exit"
  /\ IF leader = "zombie" THEN helper' = "kill" /\ UNCHANGED outcome ELSE overdue /\ Raise("timeout")
  /\ UNCHANGED <<overdue, output, pending, group, reused, stray>>

\* Mutant: a program that has exited by itself needs no killing.
KillGroup_Unless ==
  /\ helper = "kill" /\ helper' = "wait"
  /\ leader' = IF leader = "reaped" THEN leader ELSE "zombie"
  /\ code' = IF leader \in {"zombie", "reaped"} THEN code ELSE "other"
  /\ IF leader = "zombie" THEN UNCHANGED <<child, writers>> ELSE child' = (IF child = "runs" THEN "ended" ELSE child) /\ writers' = {}
  /\ stray' = (stray \/ reused)
  /\ UNCHANGED <<overdue, outcome, output, adopted, pending, reused>>

\* All that is left of the group, the program included.
KillGroup ==
  /\ helper = "kill" /\ helper' = "wait"
  /\ leader' = IF leader = "reaped" THEN leader ELSE "zombie"
  /\ code' = IF leader \in {"zombie", "reaped"} THEN code ELSE "other"
  /\ child' = (IF child = "runs" THEN "ended" ELSE child) /\ writers' = {}
  /\ stray' = (stray \/ reused)
  /\ UNCHANGED <<overdue, outcome, output, adopted, pending, reused>>

\* Mutant: the pid is given back before the group is killed.
Reap_Early ==
  /\ helper \in {"exit", "wait"} /\ leader = "zombie" /\ leader' = "reaped"
  /\ IF helper = "exit" THEN helper' = "kill" /\ UNCHANGED outcome
     ELSE helper' = "returned" /\ outcome' = IF outcome = "none" THEN (IF code = "zero" THEN "ok" ELSE "failed") ELSE outcome
  /\ UNCHANGED <<overdue, output, adopted, writers, pending, child, code, reused, stray>>

\* proc.wait(), and the return.
Reap ==
  /\ helper = "wait" /\ leader = "zombie" /\ leader' = "reaped"
  /\ helper' = "returned" /\ outcome' = IF outcome = "none" THEN (IF code = "zero" THEN "ok" ELSE "failed") ELSE outcome
  /\ UNCHANGED <<overdue, output, adopted, writers, pending, child, code, reused, stray>>

DeadlinePasses == ~overdue /\ overdue' = TRUE /\ UNCHANGED <<helper, outcome, output, pending, group, reused, stray>>

-----------------------------------------------------------------------------
(* The program. *)

LeaderEnds(how) == leader' = "zombie" /\ code' = how /\ writers' = writers \ {"leader"}

\* prctl(PR_SET_PDEATHSIG) works from now on; a parent that is gone already is not noticed.
Arms ==
  /\ leader = "forked" /\ leader' = "armed" /\ adopted' = (helper = "dead")
  /\ UNCHANGED <<helper, overdue, outcome, output, writers, pending, child, code, reused, stray>>

\* Mutant: the wrapper takes its parent for the one that started it.
Executes_Trusting ==
  /\ leader = "armed" /\ leader' = "runs" /\ UNCHANGED <<writers, code>>
  /\ UNCHANGED <<helper, overdue, outcome, output, adopted, pending, child, reused, stray>>

\* The program runs if its parent is the one that started it, and if there is such a program.
Executes ==
  /\ leader = "armed"
  /\ \/ ~adopted /\ leader' = "runs" /\ UNCHANGED <<writers, code>>
     \/ LeaderEnds("other")
  /\ UNCHANGED <<helper, overdue, outcome, output, adopted, pending, child, reused, stray>>

ForksChild ==
  /\ leader = "runs" /\ child = "none" /\ child' = "runs"
  /\ writers' = writers \cup (IF "leader" \in writers THEN {"child"} ELSE {})
  /\ UNCHANGED <<helper, overdue, outcome, output, leader, adopted, pending, code, reused, stray>>

Writes ==
  /\ writers # {} /\ leader \notin {"forked", "armed"} /\ output + pending < OutputBound /\ pending' = pending + 1
  /\ UNCHANGED <<helper, overdue, outcome, output, group, reused, stray>>

ClosesOutput(who) ==
  /\ who \in writers /\ leader \notin {"forked", "armed"} /\ writers' = writers \ {who}
  /\ UNCHANGED <<helper, overdue, outcome, output, leader, adopted, pending, child, code, reused, stray>>

Exits(how) ==
  /\ leader = "runs" /\ LeaderEnds(how)
  /\ UNCHANGED <<helper, overdue, outcome, output, adopted, pending, child, reused, stray>>

ChildExits ==
  /\ child = "runs" /\ child' = "ended" /\ writers' = writers \ {"child"}
  /\ UNCHANGED <<helper, overdue, outcome, output, leader, adopted, pending, code, reused, stray>>

-----------------------------------------------------------------------------
(* The system. *)

\* The helper is killed: the signal that the program asked for comes with it.
HelperDies ==
  /\ helper \notin {"returned", "dead"} /\ helper' = "dead"
  /\ IF leader \in {"armed", "runs"} THEN LeaderEnds("other") ELSE UNCHANGED <<leader, code, writers>>
  /\ UNCHANGED <<overdue, outcome, output, adopted, pending, child, reused, stray>>

\* A pid is given away only when nobody has it and no process group does.
PidReused ==
  /\ leader = "reaped" /\ child # "runs" /\ ~reused /\ reused' = TRUE
  /\ UNCHANGED <<helper, overdue, outcome, output, pending, group, stray>>

\* The helper goes on with its call.
CallGoesOn == Read \/ AwaitExit \/ KillGroup \/ Reap

CommandNext ==
  \/ CallGoesOn \/ DeadlinePasses
  \/ Arms \/ Executes \/ ForksChild \/ Writes \/ Exits("zero") \/ Exits("other") \/ ChildExits
  \/ ClosesOutput("leader") \/ ClosesOutput("child")
  \/ HelperDies \/ PidReused

CommandSpec == CommandInit /\ [][CommandNext]_commandVars

\* The helper's process is scheduled, whatever the program does: its loops look at the clock every
\* 100 ms and 5 ms, and a process group that is killed ends.
FairCommandSpec == CommandSpec /\ WF_commandVars(CallGoesOn)

-----------------------------------------------------------------------------
(* Properties. *)

\* "A hung optional provider therefore cannot leave an orphan": when run_command() returns, nobody
\* of the process group is left, and no process was killed that had nothing to do with the command.
GroupIsCleaned == (helper = "returned" => leader = "reaped" /\ child # "runs") /\ ~stray

\* "... nor outlive the helper": the program does not run once the helper is dead, even if it died
\* before the signal at its end was asked for.
NoOrphanRuns == helper = "dead" => leader # "runs"

\* Once the deadline has passed, no step of run_command() waits for the program: whatever it does
\* with its time, its output and its children, the call goes on to its end.
NeverWaitsOverdue ==
  overdue /\ helper \notin {"returned", "dead"} => ENABLED <<CallGoesOn>>_commandVars

=============================================================================
