--------------------------- MODULE ProviderProofs ---------------------------
(***************************************************************************)
(* Proofs about the models of the providers, BoundedCommand, SocketSampler,*)
(* ProcessScan, AudioActions and ContactModel, one part for each.          *)
(***************************************************************************)
EXTENDS BoundedCommand, SocketSampler, ProcessScan, AudioActions, ContactModel,
        SequenceFacts, TLAPS

-----------------------------------------------------------------------------
(* Bounded commands: types, cleaning up, and dying with the helper. *)

\* Only proc.wait() gives the pid of the program back, after killpg(): until then nobody else can
\* have it, and nothing of the group is left when it is given back.
PidIsHeld ==
  /\ helper = "wait" => leader = "zombie" /\ child # "runs"
  /\ helper = "returned" <=> leader = "reaped"
  /\ helper = "returned" => child # "runs"
  /\ reused => helper = "returned"
  /\ ~stray

\* A program that is still to be executed when the helper is dead will notice.
OrphanNotices == helper = "dead" => leader # "runs" /\ (leader = "armed" => adopted)

CommandInv == CommandTypeOK /\ PidIsHeld /\ OrphanNotices

\* Init establishes the invariant.
LEMMA InitCommandInv == CommandInit => CommandInv
<1> SUFFICES ASSUME CommandInit PROVE CommandInv
  OBVIOUS
<1>1. CommandTypeOK
  <2>1. OutputOK
    BY CommandAssumption DEF CommandInit, CommandAssumption, OutputOK
  <2> QED
    BY <2>1 DEF CommandInit, CommandTypeOK, CallOK, ProgramOK, SystemOK
<1>2. PidIsHeld /\ OrphanNotices
  BY DEF CommandInit, PidIsHeld, OrphanNotices
<1> QED
  BY <1>1, <1>2 DEF CommandInv

\* Every step of run_command(), of the program and of the system leaves the output within its bound.
LEMMA StepOutput == OutputOK /\ [CommandNext]_commandVars => OutputOK'
<1> SUFFICES ASSUME OutputOK, [CommandNext]_commandVars PROVE OutputOK'
  OBVIOUS
<1> USE CommandAssumption DEF CommandAssumption, OutputOK, commandVars, group
<1>1. CASE Read
  <2>1. UNCHANGED <<output, pending>> \/ (output' = output + pending /\ pending' = 0)
    BY <1>1, Zenon DEF Read, Raise
  <2> QED
    BY <2>1
<1>2. CASE AwaitExit
  BY <1>2 DEF AwaitExit, Raise
<1>3. CASE KillGroup
  BY <1>3 DEF KillGroup
<1>4. CASE Reap
  BY <1>4 DEF Reap
<1>5. CASE DeadlinePasses
  BY <1>5 DEF DeadlinePasses
<1>6. CASE Arms
  BY <1>6 DEF Arms
<1>7. CASE Executes
  BY <1>7 DEF Executes, LeaderEnds
<1>8. CASE ForksChild
  BY <1>8 DEF ForksChild
<1>9. CASE Writes
  BY <1>9 DEF Writes
<1>10. CASE Exits("zero") \/ Exits("other")
  BY <1>10 DEF Exits, LeaderEnds
<1>11. CASE ChildExits
  BY <1>11 DEF ChildExits
<1>12. CASE ClosesOutput("leader") \/ ClosesOutput("child")
  BY <1>12 DEF ClosesOutput
<1>13. CASE HelperDies
  BY <1>13 DEF HelperDies, LeaderEnds
<1>14. CASE PidReused
  BY <1>14 DEF PidReused
<1>15. CASE UNCHANGED commandVars
  BY <1>15
<1> QED
  BY <1>1, <1>2, <1>3, <1>4, <1>5, <1>6, <1>7, <1>8, <1>9, <1>10, <1>11, <1>12, <1>13, <1>14, <1>15 DEF CommandNext, CallGoesOn

\* Every step leaves the state of the call in its set.
LEMMA StepCall == CallOK /\ [CommandNext]_commandVars => CallOK'
<1> SUFFICES ASSUME CallOK, [CommandNext]_commandVars PROVE CallOK'
  OBVIOUS
<1> USE DEF CallOK, commandVars, group
<1>1. CASE Read
  BY <1>1 DEF Read, Raise
<1>2. CASE AwaitExit
  BY <1>2 DEF AwaitExit, Raise
<1>3. CASE KillGroup
  BY <1>3 DEF KillGroup
<1>4. CASE Reap
  BY <1>4 DEF Reap
<1>5. CASE DeadlinePasses
  BY <1>5 DEF DeadlinePasses
<1>6. CASE Arms
  BY <1>6 DEF Arms
<1>7. CASE Executes
  BY <1>7 DEF Executes, LeaderEnds
<1>8. CASE ForksChild
  BY <1>8 DEF ForksChild
<1>9. CASE Writes
  BY <1>9 DEF Writes
<1>10. CASE Exits("zero") \/ Exits("other")
  BY <1>10 DEF Exits, LeaderEnds
<1>11. CASE ChildExits
  BY <1>11 DEF ChildExits
<1>12. CASE ClosesOutput("leader") \/ ClosesOutput("child")
  BY <1>12 DEF ClosesOutput
<1>13. CASE HelperDies
  BY <1>13 DEF HelperDies, LeaderEnds
<1>14. CASE PidReused
  BY <1>14 DEF PidReused
<1>15. CASE UNCHANGED commandVars
  BY <1>15
<1> QED
  BY <1>1, <1>2, <1>3, <1>4, <1>5, <1>6, <1>7, <1>8, <1>9, <1>10, <1>11, <1>12, <1>13, <1>14, <1>15 DEF CommandNext, CallGoesOn

\* Every step leaves the program and its child in their sets.
LEMMA StepProgram == ProgramOK /\ [CommandNext]_commandVars => ProgramOK'
<1> SUFFICES ASSUME ProgramOK, [CommandNext]_commandVars PROVE ProgramOK'
  OBVIOUS
<1> USE DEF ProgramOK, commandVars, group
<1>1. CASE Read
  BY <1>1 DEF Read, Raise
<1>2. CASE AwaitExit
  BY <1>2 DEF AwaitExit, Raise
<1>3. CASE KillGroup
  BY <1>3 DEF KillGroup
<1>4. CASE Reap
  BY <1>4 DEF Reap
<1>5. CASE DeadlinePasses
  BY <1>5 DEF DeadlinePasses
<1>6. CASE Arms
  BY <1>6 DEF Arms
<1>7. CASE Executes
  BY <1>7 DEF Executes, LeaderEnds
<1>8. CASE ForksChild
  BY <1>8 DEF ForksChild
<1>9. CASE Writes
  BY <1>9 DEF Writes
<1>10. CASE Exits("zero") \/ Exits("other")
  BY <1>10 DEF Exits, LeaderEnds
<1>11. CASE ChildExits
  BY <1>11 DEF ChildExits
<1>12. CASE ClosesOutput("leader") \/ ClosesOutput("child")
  BY <1>12 DEF ClosesOutput
<1>13. CASE HelperDies
  BY <1>13 DEF HelperDies, LeaderEnds
<1>14. CASE PidReused
  BY <1>14 DEF PidReused
<1>15. CASE UNCHANGED commandVars
  BY <1>15
<1> QED
  BY <1>1, <1>2, <1>3, <1>4, <1>5, <1>6, <1>7, <1>8, <1>9, <1>10, <1>11, <1>12, <1>13, <1>14, <1>15 DEF CommandNext, CallGoesOn

\* Every step leaves the pipe and the history in their sets.
LEMMA StepSystem == SystemOK /\ [CommandNext]_commandVars => SystemOK'
<1> SUFFICES ASSUME SystemOK, [CommandNext]_commandVars PROVE SystemOK'
  OBVIOUS
<1> USE DEF SystemOK, commandVars, group
<1>1. CASE Read
  BY <1>1 DEF Read, Raise
<1>2. CASE AwaitExit
  BY <1>2 DEF AwaitExit, Raise
<1>3. CASE KillGroup
  BY <1>3 DEF KillGroup
<1>4. CASE Reap
  BY <1>4 DEF Reap
<1>5. CASE DeadlinePasses
  BY <1>5 DEF DeadlinePasses
<1>6. CASE Arms
  BY <1>6 DEF Arms
<1>7. CASE Executes
  BY <1>7 DEF Executes, LeaderEnds
<1>8. CASE ForksChild
  BY <1>8 DEF ForksChild
<1>9. CASE Writes
  BY <1>9 DEF Writes
<1>10. CASE Exits("zero") \/ Exits("other")
  BY <1>10 DEF Exits, LeaderEnds
<1>11. CASE ChildExits
  BY <1>11 DEF ChildExits
<1>12. CASE ClosesOutput("leader") \/ ClosesOutput("child")
  BY <1>12 DEF ClosesOutput
<1>13. CASE HelperDies
  BY <1>13 DEF HelperDies, LeaderEnds
<1>14. CASE PidReused
  BY <1>14 DEF PidReused
<1>15. CASE UNCHANGED commandVars
  BY <1>15
<1> QED
  BY <1>1, <1>2, <1>3, <1>4, <1>5, <1>6, <1>7, <1>8, <1>9, <1>10, <1>11, <1>12, <1>13, <1>14, <1>15 DEF CommandNext, CallGoesOn

\* Every step keeps the types.
LEMMA StepTypes == CommandTypeOK /\ [CommandNext]_commandVars => CommandTypeOK'
  BY StepOutput, StepCall, StepProgram, StepSystem DEF CommandTypeOK

\* Every step keeps the pid held until the group is gone, and the orphan informed.
LEMMA StepCommandInv == CommandInv /\ [CommandNext]_commandVars => CommandInv'
<1> SUFFICES ASSUME CommandInv, [CommandNext]_commandVars PROVE CommandInv'
  OBVIOUS
<1>a. CommandTypeOK'
  BY StepTypes DEF CommandInv
<1> USE DEF CommandInv, CommandTypeOK, PidIsHeld, OrphanNotices, commandVars, group
<1>1. CASE Read
  BY <1>a, <1>1 DEF Read, Raise
<1>2. CASE AwaitExit
  BY <1>a, <1>2 DEF AwaitExit, Raise
<1>3. CASE KillGroup
  BY <1>a, <1>3 DEF KillGroup
<1>4. CASE Reap
  BY <1>a, <1>4 DEF Reap
<1>5. CASE DeadlinePasses
  BY <1>a, <1>5 DEF DeadlinePasses
<1>6. CASE Arms
  BY <1>a, <1>6 DEF Arms
<1>7. CASE Executes
  BY <1>a, <1>7 DEF Executes, LeaderEnds
<1>8. CASE ForksChild
  BY <1>a, <1>8 DEF ForksChild
<1>9. CASE Writes
  BY <1>a, <1>9 DEF Writes
<1>10. CASE Exits("zero") \/ Exits("other")
  BY <1>a, <1>10 DEF Exits, LeaderEnds
<1>11. CASE ChildExits
  BY <1>a, <1>11 DEF ChildExits
<1>12. CASE ClosesOutput("leader") \/ ClosesOutput("child")
  BY <1>a, <1>12 DEF ClosesOutput
<1>13. CASE HelperDies
  BY <1>a, <1>13 DEF HelperDies, LeaderEnds
<1>14. CASE PidReused
  BY <1>a, <1>14 DEF PidReused
<1>15. CASE UNCHANGED commandVars
  BY <1>a, <1>15
<1> QED
  BY <1>1, <1>2, <1>3, <1>4, <1>5, <1>6, <1>7, <1>8, <1>9, <1>10, <1>11, <1>12, <1>13, <1>14, <1>15 DEF CommandNext, CallGoesOn

\* The invariant holds in every state of a command's life.
LEMMA AlwaysCommandInv == CommandSpec => []CommandInv
  BY InitCommandInv, StepCommandInv, PTL DEF CommandSpec

\* Type correctness, for any limit of the output.
THEOREM CommandTypeCorrect == CommandSpec => []CommandTypeOK
<1>1. CommandInv => CommandTypeOK
  BY DEF CommandInv
<1> QED
  BY <1>1, AlwaysCommandInv, PTL

\* When run_command() returns nobody of the process group is left, and at no time is a process
\* killed that only has the pid of the program.
THEOREM CommandCleansUp == CommandSpec => []GroupIsCleaned
<1>1. CommandInv => GroupIsCleaned
  BY DEF CommandInv, PidIsHeld, GroupIsCleaned
<1> QED
  BY <1>1, AlwaysCommandInv, PTL

\* No program runs once the helper is dead, whenever in its start the helper died.
THEOREM CommandDiesWithHelper == CommandSpec => []NoOrphanRuns
<1>1. CommandInv => NoOrphanRuns
  BY DEF CommandInv, OrphanNotices, NoOrphanRuns
<1> QED
  BY <1>1, AlwaysCommandInv, PTL

\* The stages of a call whose deadline has passed.
Overdue(stage) == overdue /\ helper = stage
CallIsOver == helper \in {"returned", "dead"}

\* An overdue call goes through its stages in their order, and leaves each of them only forwards.
LEMMA StepOverdue ==
  ASSUME [CommandNext]_commandVars
  PROVE  /\ Overdue("io") => Overdue("io")' \/ Overdue("kill")' \/ CallIsOver'
         /\ Overdue("exit") => Overdue("exit")' \/ Overdue("kill")' \/ CallIsOver'
         /\ Overdue("kill") => Overdue("kill")' \/ Overdue("wait")' \/ CallIsOver'
         /\ Overdue("wait") => Overdue("wait")' \/ CallIsOver'
<1> USE DEF Overdue, CallIsOver, commandVars, group
<1>1. CASE CallGoesOn
  <2>1. CASE Read
    BY <2>1, Zenon DEF Read, Raise
  <2>2. CASE AwaitExit
    BY <2>2, Zenon DEF AwaitExit, Raise
  <2>3. CASE KillGroup \/ Reap
    BY <2>3 DEF KillGroup, Reap
  <2> QED
    BY <1>1, <2>1, <2>2, <2>3 DEF CallGoesOn
<1>2. CASE DeadlinePasses
  BY <1>2 DEF DeadlinePasses
<1>3. CASE Arms \/ Executes \/ ForksChild \/ Writes \/ ChildExits \/ PidReused
  BY <1>3 DEF Arms, Executes, ForksChild, Writes, ChildExits, PidReused
<1>4. CASE Exits("zero") \/ Exits("other") \/ ClosesOutput("leader") \/ ClosesOutput("child")
  BY <1>4 DEF Exits, ClosesOutput
<1>5. CASE HelperDies
  BY <1>5 DEF HelperDies
<1>6. CASE UNCHANGED commandVars
  BY <1>6
<1> QED
  BY <1>1, <1>2, <1>3, <1>4, <1>5, <1>6 DEF CommandNext

\* run_command() ends once its deadline has passed, with the end of the program's group, unless the
\* helper itself dies: this is what NeverWaitsOverdue is for.
THEOREM OverdueCallEnds ==
  FairCommandSpec /\ []NeverWaitsOverdue => (overdue ~> helper \in {"returned", "dead"})
<1>1. ASSUME NeverWaitsOverdue
      PROVE  /\ Overdue("io") => ENABLED <<CallGoesOn>>_commandVars
             /\ Overdue("exit") => ENABLED <<CallGoesOn>>_commandVars
             /\ Overdue("kill") => ENABLED <<CallGoesOn>>_commandVars
             /\ Overdue("wait") => ENABLED <<CallGoesOn>>_commandVars
  BY <1>1 DEF NeverWaitsOverdue, Overdue
<1>2. ASSUME <<CallGoesOn>>_commandVars
      PROVE  /\ Overdue("io") => ~Overdue("io")'
             /\ Overdue("exit") => ~Overdue("exit")'
             /\ Overdue("kill") => ~Overdue("kill")'
             /\ Overdue("wait") => ~Overdue("wait")'
  <2> USE DEF Overdue
  <2>1. CASE Read
    BY <2>1 DEF Read, Raise
  <2>2. CASE AwaitExit \/ KillGroup \/ Reap
    BY <2>2 DEF AwaitExit, KillGroup, Reap, Raise
  <2> QED
    BY <1>2, <2>1, <2>2 DEF CallGoesOn
<1>3. FairCommandSpec /\ []NeverWaitsOverdue => (Overdue("wait") ~> CallIsOver)
  BY <1>1, <1>2, StepOverdue, PTL DEF FairCommandSpec, CommandSpec
<1>4. FairCommandSpec /\ []NeverWaitsOverdue => (Overdue("kill") ~> CallIsOver)
  BY <1>1, <1>2, <1>3, StepOverdue, PTL DEF FairCommandSpec, CommandSpec
<1>5. FairCommandSpec /\ []NeverWaitsOverdue => (Overdue("exit") ~> CallIsOver)
  BY <1>1, <1>2, <1>4, StepOverdue, PTL DEF FairCommandSpec, CommandSpec
<1>6. FairCommandSpec /\ []NeverWaitsOverdue => (Overdue("io") ~> CallIsOver)
  BY <1>1, <1>2, <1>4, StepOverdue, PTL DEF FairCommandSpec, CommandSpec
<1>7. CommandInv /\ overdue =>
        Overdue("io") \/ Overdue("exit") \/ Overdue("kill") \/ Overdue("wait") \/ CallIsOver
  BY DEF CommandInv, CommandTypeOK, CallOK, Overdue, CallIsOver
<1>8. CallIsOver <=> helper \in {"returned", "dead"}
  BY DEF CallIsOver
<1> QED
  BY <1>3, <1>4, <1>5, <1>6, <1>7, <1>8, AlwaysCommandInv, PTL DEF FairCommandSpec

-----------------------------------------------------------------------------
(* Socket owners: a process of the same sample that held the socket. *)

\* What the proofs need of the types.
OwnersOK ==
  /\ running \subseteq Processes
  /\ holders \in [Sockets -> SUBSET Processes]
  /\ ownerCache \in [Sockets -> SUBSET Processes]
  /\ held \in [Sockets -> SUBSET Processes]

HoldersHeld == \A s \in Sockets : holders[s] \subseteq held[s]

CacheHeld == \A s \in Sockets : ownerCache[s] \subseteq held[s]

OwnerInv == OwnersOK /\ HoldersHeld /\ CacheHeld /\ OwnersHeldIt

\* The helper starts with an empty cache and an empty frame.
LEMMA InitOwnerInv == SocketInit => OwnerInv
<1> SUFFICES ASSUME SocketInit PROVE OwnerInv
  OBVIOUS
<1>1. OwnersOK
  BY DEF SocketInit, OwnersOK, NoOwners
<1>2. HoldersHeld /\ CacheHeld
  BY DEF SocketInit, HoldersHeld, CacheHeld, NoOwners
<1>3. OwnersHeldIt
  BY DEF SocketInit, OwnersHeldIt, NoOwners
<1> QED
  BY <1>1, <1>2, <1>3 DEF OwnerInv

\* A scan of the descriptors finds holders of the moment, among the processes of the sample.
LEMMA FoundHold ==
  ASSUME NEW wanted, NEW rows, NEW unlisted, NEW s \in Sockets
  PROVE  FoundOwners(wanted, rows, unlisted)[s] \subseteq holders[s] \cap rows
  BY DEF FoundOwners

\* What a sample shows and caches was found now, or was in the cache and held since.
LEMMA OwnersKnown ==
  ASSUME OwnerInv, NEW seen, NEW rows, NEW unlisted, NEW late, NEW s \in Sockets
  PROVE  LET got  == Owners(seen, rows, unlisted, late)
             from == IF OwnerScanDue(late) THEN holders ELSE held
         IN  got.owners[s] \subseteq from[s] \cap rows /\ got.cache[s] \subseteq from[s]
<1> DEFINE missing == Unowned(seen, CachedOwners(seen, rows))
<1>1. /\ CachedOwners(seen, rows)[s] \subseteq held[s] \cap rows
      /\ ownerCache[s] \subseteq held[s] /\ holders[s] \subseteq held[s]
  BY DEF CachedOwners, OwnerInv, CacheHeld, HoldersHeld
<1>2. CASE OwnerScanDue(late)
  BY <1>2, FoundHold DEF Owners, FullScan
<1>3. CASE ~OwnerScanDue(late)
  <2>1. FoundOwners(missing, rows, unlisted)[s] \subseteq held[s] \cap rows
    BY <1>1, FoundHold
  <2>2. CASE missing # {} /\ ~late
    BY <1>1, <1>3, <2>1, <2>2 DEF Owners, CacheScan
  <2>3. CASE ~(missing # {} /\ ~late)
    BY <1>1, <1>3, <2>3 DEF Owners, CacheScan
  <2> QED
    BY <2>2, <2>3
<1> QED
  BY <1>2, <1>3

\* The cache that a sample leaves is a function again.
LEMMA CacheTyped ==
  ASSUME OwnersOK, NEW seen, NEW rows, NEW unlisted, NEW late
  PROVE  Owners(seen, rows, unlisted, late).cache \in [Sockets -> SUBSET Processes]
<1>1. CASE OwnerScanDue(late)
  BY <1>1 DEF Owners, FullScan, FoundOwners, OwnersOK
<1>2. CASE ~OwnerScanDue(late)
  BY <1>2 DEF Owners, CacheScan, FoundOwners, CachedOwners, Unowned, OwnersOK
<1> QED
  BY <1>1, <1>2

\* A sample keeps the invariant; a full scan starts the history of the holders again.
LEMMA SampleOwnerInv == OwnerInv /\ SocketSample => OwnerInv'
<1> SUFFICES ASSUME OwnerInv, SocketSample PROVE OwnerInv'
  OBVIOUS
<1>1. PICK late, seen, rows, unlisted :
        /\ ownerCache' = Owners(seen, rows, unlisted, late).cache
        /\ frame'.owners = Owners(seen, rows, unlisted, late).owners
        /\ frame'.rows = rows
        /\ held' = IF OwnerScanDue(late) THEN holders ELSE held
  BY DEF SocketSample
<1>2. UNCHANGED <<running, holders>>
  BY DEF SocketSample, machine
<1>3. OwnersOK'
  BY <1>1, <1>2, CacheTyped DEF OwnerInv, OwnersOK
<1>4. HoldersHeld'
  BY <1>1, <1>2 DEF OwnerInv, HoldersHeld
<1>5. CacheHeld' /\ OwnersHeldIt'
  BY <1>1, OwnersKnown DEF CacheHeld, OwnersHeldIt
<1> QED
  BY <1>3, <1>4, <1>5 DEF OwnerInv

\* Events of the machine keep it: whoever comes to hold a socket is noted.
LEMMA MachineOwnerInv ==
  ASSUME OwnerInv, UNCHANGED sampler,
         \/ \E p \in Processes : Starts(p) \/ Dies(p)
         \/ \E s \in Sockets : Closes(s) \/ (\E ps \in SUBSET Processes : Opens(s, ps)) \/ (\E p \in Processes : Shares(s, p))
  PROVE  OwnerInv'
<1> USE DEF OwnerInv, OwnersOK, HoldersHeld, CacheHeld, OwnersHeldIt, sampler
<1>1. ASSUME NEW p \in Processes, Starts(p) PROVE OwnerInv'
  BY <1>1 DEF Starts
<1>2. ASSUME NEW p \in Processes, Dies(p) PROVE OwnerInv'
  BY <1>2 DEF Dies
<1>3. ASSUME NEW s \in Sockets, Closes(s) PROVE OwnerInv'
  BY <1>3 DEF Closes
<1>4. ASSUME NEW s \in Sockets, NEW ps \in SUBSET Processes, Opens(s, ps) PROVE OwnerInv'
  BY <1>4 DEF Opens
<1>5. ASSUME NEW s \in Sockets, NEW p \in Processes, Shares(s, p) PROVE OwnerInv'
  BY <1>5 DEF Shares
<1> QED
  BY <1>1, <1>2, <1>3, <1>4, <1>5

\* Every step keeps it.
LEMMA StepOwnerInv == OwnerInv /\ [SocketNext]_socketVars => OwnerInv'
<1> SUFFICES ASSUME OwnerInv, [SocketNext]_socketVars PROVE OwnerInv'
  OBVIOUS
<1>1. CASE SocketSample
  BY <1>1, SampleOwnerInv
<1>2. CASE SocketReset \/ SocketTick \/ UNCHANGED socketVars
  BY <1>2 DEF SocketReset, SocketTick, socketVars, machine, sampler, clock,
              OwnerInv, OwnersOK, HoldersHeld, CacheHeld, OwnersHeldIt
<1>3. CASE \/ \E p \in Processes : Starts(p) \/ Dies(p)
           \/ \E s \in Sockets : Closes(s) \/ (\E ps \in SUBSET Processes : Opens(s, ps)) \/ (\E p \in Processes : Shares(s, p))
  <2>1. UNCHANGED sampler
    BY <1>3 DEF Starts, Dies, Closes, Opens, Shares, Move
  <2> QED
    BY <1>3, <2>1, MachineOwnerInv
<1> QED
  BY <1>1, <1>2, <1>3 DEF SocketNext

\* No process is ever shown as the owner of a socket that it has not held since the last full
\* scan, for any machine, any tables and limits, and whatever a scan misses.
THEOREM OwnersAreHolders == SocketSpec => []OwnersHeldIt
<1>1. OwnerInv => OwnersHeldIt
  BY DEF OwnerInv
<1> QED
  BY <1>1, InitOwnerInv, StepOwnerInv, PTL DEF SocketSpec

-----------------------------------------------------------------------------
(* Socket exits. *)

\* What the next sample is compared with are keys of sockets.
SocketsKeyed == prevSockets \subseteq Keys

\* The sockets seen, by the keys that their tables give them.
ContactsOf(seen, kinds) == {k \in Keys : k.socket \in seen /\ k.cookie = (kinds[TableOf[k.socket]] = "dumped")}

\* What a sample does to the sockets.
SampledAs(seen, kinds) ==
  /\ prevSockets' = Compared(prevSockets, ContactsOf(seen, kinds), WholeScan(kinds, seen))
  /\ frame'.contacts = ContactsOf(seen, kinds) /\ frame'.silent = (\E i \in DOMAIN Tables : kinds[i] = "cut")

\* A sample reads some of the sockets, and remembers those.
LEMMA SocketsSampled == SocketSample => \E late, seen, kinds : Reading(kinds, seen, late) /\ SampledAs(seen, kinds)
<1> SUFFICES ASSUME SocketSample PROVE \E late, seen, kinds : Reading(kinds, seen, late) /\ SampledAs(seen, kinds)
  OBVIOUS
<1>1. PICK late \in Unless("late", BOOLEAN, FALSE), seen \in {some \in SUBSET open : Cardinality(some) <= MaxContacts} :
        \E kinds \in {k \in [DOMAIN Tables -> Kinds] : Reading(k, seen, late)},
           rows \in Unless("rows", SUBSET running, running) :
        \E unlisted \in Unless("skip", SUBSET (Sockets \X Processes), {}) :
          LET got      == Owners(seen, rows, unlisted, late)
              contacts == {k \in Keys : k.socket \in seen /\ k.cookie = (kinds[TableOf[k.socket]] = "dumped")}
              complete == WholeScan(kinds, seen)
          IN
          /\ ownerCache' = got.cache
          /\ ownerAt' = IF OwnerScanDue(late) THEN socketNow ELSE ownerAt
          /\ fallbackUntil' = IF \E i \in DOMAIN Tables : DumpFailed(kinds, i) THEN socketNow + FallbackTime ELSE fallbackUntil
          /\ prevSockets' = Compared(prevSockets, contacts, complete)
          /\ prevLinks' = Compared(prevLinks, LinksOf(seen, got.owners), complete)
          /\ frame' = [rows |-> rows, contacts |-> contacts, owners |-> got.owners,
                       complete |-> complete, silent |-> \E i \in DOMAIN Tables : kinds[i] = "cut"]
          /\ held' = IF OwnerScanDue(late) THEN holders ELSE held
  BY DEF SocketSample
<1>2. PICK kinds \in {k \in [DOMAIN Tables -> Kinds] : Reading(k, seen, late)},
          rows \in Unless("rows", SUBSET running, running),
          unlisted \in Unless("skip", SUBSET (Sockets \X Processes), {}) :
          /\ prevSockets' = Compared(prevSockets, ContactsOf(seen, kinds), WholeScan(kinds, seen))
          /\ frame' = [rows |-> rows, contacts |-> ContactsOf(seen, kinds), owners |-> Owners(seen, rows, unlisted, late).owners,
                       complete |-> WholeScan(kinds, seen), silent |-> \E i \in DOMAIN Tables : kinds[i] = "cut"]
  BY <1>1 DEF ContactsOf
<1>3. SampledAs(seen, kinds)
  BY <1>2 DEF SampledAs
<1> QED
  BY <1>2, <1>3

\* Sockets that are remembered have keys.
LEMMA StepSocketsKeyed == SocketsKeyed /\ [SocketNext]_socketVars => SocketsKeyed'
<1> SUFFICES ASSUME SocketsKeyed, [SocketNext]_socketVars PROVE SocketsKeyed'
  OBVIOUS
<1>1. CASE SocketSample
  <2>1. PICK seen, kinds : SampledAs(seen, kinds)
    BY <1>1, SocketsSampled
  <2>2. ContactsOf(seen, kinds) \subseteq Keys
    BY DEF ContactsOf
  <2> QED
    BY <2>1, <2>2 DEF SocketsKeyed, Compared, SampledAs
<1>2. CASE ~SocketSample
  <2>1. prevSockets' \in {prevSockets, {}}
    BY <1>2 DEF SocketNext, SocketReset, SocketTick, Starts, Dies, Closes, Opens, Shares, Move, sampler, socketVars
  <2> QED
    BY <2>1 DEF SocketsKeyed
<1> QED
  BY <1>1, <1>2

\* A table that was read as a whole holds its open sockets.
LEMMA WholeTable ==
  ASSUME NEW kinds, NEW seen, NEW late, Reading(kinds, seen, late), WholeScan(kinds, seen),
         NEW s \in open, TableOf[s] \in DOMAIN Tables, kinds[TableOf[s]] # "cut"
  PROVE  s \in seen
<1> DEFINE i == TableOf[s]
<1>1. Table(kinds[i], seen, late, i) /\ kinds[i] \in {"dumped", "read", "absent"} /\ ~Filled(seen, i)
  BY DEF Reading, WholeScan
<1>2. s \in In(open, i)
  BY DEF In
<1>3. In(seen, i) = In(open, i)
  BY <1>1, <1>2 DEF Table
<1> QED
  BY <1>2, <1>3 DEF In

\* A complete sample misses an open socket only for one of the two reasons.
LEMMA SampleExits ==
  ASSUME SocketsKeyed, SocketSample, NEW k \in prevSockets \ prevSockets'
  PROVE  k.socket \notin open \/ frame'.silent \/ [k EXCEPT !.cookie = ~@] \in frame'.contacts
<1>0. PICK late, seen, kinds : Reading(kinds, seen, late) /\ SampledAs(seen, kinds)
  BY SocketsSampled
<1>1. /\ Reading(kinds, seen, late)
      /\ prevSockets' = Compared(prevSockets, ContactsOf(seen, kinds), WholeScan(kinds, seen))
      /\ frame'.contacts = ContactsOf(seen, kinds) /\ frame'.silent = (\E i \in DOMAIN Tables : kinds[i] = "cut")
  BY <1>0 DEF SampledAs
<1> DEFINE contacts == ContactsOf(seen, kinds)
<1>2. WholeScan(kinds, seen) /\ k \notin contacts
  BY <1>1 DEF Compared
<1>3. k \in Keys /\ k.socket \in Sockets /\ k.cookie \in BOOLEAN /\ TableOf[k.socket] \in DOMAIN Tables
  BY SamplerAssumption DEF SocketsKeyed, Keys, SamplerAssumption
<1> SUFFICES ASSUME k.socket \in open, ~frame'.silent PROVE [k EXCEPT !.cookie = ~@] \in contacts
  BY <1>1
<1>4. k.socket \in seen
  BY <1>1, <1>2, <1>3, WholeTable
<1>5. k.cookie # (kinds[TableOf[k.socket]] = "dumped")
  BY <1>2, <1>3, <1>4 DEF ContactsOf
<1>6. [k EXCEPT !.cookie = ~@] \in Keys /\ [k EXCEPT !.cookie = ~@].socket = k.socket
      /\ [k EXCEPT !.cookie = ~@].cookie = ~k.cookie
  BY <1>3 DEF Keys
<1> QED
  BY <1>3, <1>4, <1>5, <1>6 DEF ContactsOf

\* No open socket is reported as closed, whatever tables fail, are absent or are left out, unless
\* its row changed its identity with its source, or procfs stopped at the deadline without a word.
THEOREM ExitsOfSocketsAreReal == SocketSpec => SocketExitsAreReal
<1>1. SocketInit => SocketsKeyed
  BY DEF SocketInit, SocketsKeyed
<1>2. SocketsKeyed /\ [SocketNext]_socketVars =>
        [frame' # frame =>
          \A k \in prevSockets \ prevSockets' :
            k.socket \notin open \/ frame'.silent \/ [k EXCEPT !.cookie = ~@] \in frame'.contacts]_socketVars
  <2> SUFFICES ASSUME SocketsKeyed, SocketNext, frame' # frame
               PROVE  \A k \in prevSockets \ prevSockets' :
                        k.socket \notin open \/ frame'.silent \/ [k EXCEPT !.cookie = ~@] \in frame'.contacts
    OBVIOUS
  <2>1. SocketSample
    BY DEF SocketNext, SocketReset, SocketTick, Starts, Dies, Closes, Opens, Shares, Move, sampler
  <2> QED
    BY <2>1, SampleExits
<1> QED
  BY <1>1, <1>2, StepSocketsKeyed, PTL DEF SocketSpec, SocketExitsAreReal

-----------------------------------------------------------------------------
(* Process scans: types, and that no process that is there is reported as exited. *)

\* A process that the helper knows is there, or has ended no earlier than it started.  A pid is
\* used again later than that, so no new process is taken for a known one.
EndedBefore == \A k \in prevProcesses \cup KeysOf(reading) \cup KeysOf(accepted) :
                 k \in KeysOf(procs) \/ k[2] <= endedAt[k[1]]

\* One process is read at a time, and none while the next one is looked for.
OneRead ==
  /\ \A p, q \in reading : KeyOf(p) = KeyOf(q)
  /\ scan \in {"idle", "stat"} => reading = {}

\* As long as nothing was refused or left out, a known process that is there is still to be
\* read, is being read, or has been accepted.
Covered ==
  scan # "idle" /\ ~denied /\ ~cutShort =>
    \A k \in prevProcesses \cap KeysOf(procs) : k[1] \in todo \/ k \in KeysOf(reading) \/ k \in KeysOf(accepted)

ScanInv == ProcessTypeOK /\ EndedBefore /\ OneRead /\ Covered

-----------------------------------------------------------------------------
(* Keys. *)

\* The key of a record is an instance key, and does not depend on its image or its parent.
LEMMA KeyTyped ==
  ASSUME NEW p \in Records
  PROVE  KeyOf(p) \in InstanceKeys /\ KeyOf(p)[1] = p.pid /\ KeyOf(p)[2] = p.start
  BY DEF Records, InstanceKeys, KeyOf

\* A key does not change with what is not part of it.
LEMMA KeyOfChanged ==
  ASSUME NEW p \in Records, NEW image \in Images \cup {NoImage}
  PROVE  [p EXCEPT !.image = image] \in Records /\ KeyOf([p EXCEPT !.image = image]) = KeyOf(p)
  BY DEF Records, KeyOf

LEMMA KeyOfOrphan ==
  ASSUME NEW p \in Records
  PROVE  [p EXCEPT !.ppid = 0] \in Records /\ KeyOf([p EXCEPT !.ppid = 0]) = KeyOf(p)
  BY ScanAssumption DEF Records, KeyOf, ScanAssumption

\* The keys of the records of a set are those of the set.
LEMMA KeysTyped == ASSUME NEW ps \in SUBSET Records PROVE KeysOf(ps) \subseteq InstanceKeys
  BY KeyTyped DEF KeysOf

-----------------------------------------------------------------------------
(* The machine. *)

\* Processes that only change keep the table well-formed, and all the keys.
LEMMA ChangedTable ==
  ASSUME MachineOK, NEW f \in [procs -> Records], \A p \in procs : KeyOf(f[p]) = KeyOf(p),
         procs' = {f[p] : p \in procs}
  PROVE  /\ procs' \subseteq Records /\ \A p, q \in procs' : p.pid = q.pid => p = q
         /\ \A p \in procs' : p.start <= ticks
         /\ KeysOf(procs') = KeysOf(procs)
<1>1. procs' \subseteq Records
  OBVIOUS
<1>2. \A p \in procs : f[p].pid = p.pid /\ f[p].start = p.start
  BY KeyTyped DEF MachineOK
<1>3. \A p, q \in procs' : p.pid = q.pid => p = q
  BY <1>2 DEF MachineOK
<1>4. \A p \in procs' : p.start <= ticks
  BY <1>2 DEF MachineOK
<1>5. KeysOf(procs') = KeysOf(procs)
  BY DEF KeysOf
<1> QED
  BY <1>1, <1>3, <1>4, <1>5

\* exec gives a process another image.
LEMMA ExecsKeeps ==
  ASSUME MachineOK, NEW p \in procs, NEW image \in Images, Execs(p, image)
  PROVE  MachineOK' /\ KeysOf(procs') = KeysOf(procs) /\ UNCHANGED <<endedAt, scanVars>>
<1> DEFINE f == [q \in procs |-> IF q = p THEN [q EXCEPT !.image = image] ELSE q]
<1>1. f \in [procs -> Records] /\ \A q \in procs : KeyOf(f[q]) = KeyOf(q)
  BY KeyOfChanged DEF MachineOK
<1>2. procs' = {f[q] : q \in procs}
  BY DEF Execs
<1>3. /\ procs' \subseteq Records /\ \A r, q \in procs' : r.pid = q.pid => r = q
      /\ \A r \in procs' : r.start <= ticks
      /\ KeysOf(procs') = KeysOf(procs)
  BY <1>1, <1>2, ChangedTable
<1> QED
  BY <1>3, ScanAssumption DEF MachineOK, Execs, Event, ScanAssumption

\* An exit leaves a zombie, with the key of the process, and orphans.
LEMMA ZombieKeeps ==
  ASSUME MachineOK, NEW p \in procs, BecomesZombie(p)
  PROVE  MachineOK' /\ KeysOf(procs') = KeysOf(procs) /\ UNCHANGED <<endedAt, scanVars>>
<1> DEFINE f == [q \in procs |-> IF q = p THEN [p EXCEPT !.image = NoImage] ELSE IF q.ppid = p.pid THEN [q EXCEPT !.ppid = 0] ELSE q]
<1>1. f \in [procs -> Records] /\ \A q \in procs : KeyOf(f[q]) = KeyOf(q)
  BY KeyOfChanged, KeyOfOrphan DEF MachineOK
<1>2. procs' = {f[q] : q \in procs}
  BY DEF BecomesZombie
<1>3. /\ procs' \subseteq Records /\ \A r, q \in procs' : r.pid = q.pid => r = q
      /\ \A r \in procs' : r.start <= ticks
      /\ KeysOf(procs') = KeysOf(procs)
  BY <1>1, <1>2, ChangedTable
<1> QED
  BY <1>3, ScanAssumption DEF MachineOK, BecomesZombie, Event, ScanAssumption

\* A reaped process is gone with its key, and its pid is free from now on.
LEMMA ReapedKeeps ==
  ASSUME MachineOK, NEW p \in procs, Reaped(p)
  PROVE  /\ MachineOK' /\ KeysOf(procs') \subseteq KeysOf(procs) /\ UNCHANGED scanVars
         /\ \A k \in InstanceKeys : k \in KeysOf(procs) \/ k[2] <= endedAt[k[1]]
                                    => k \in KeysOf(procs') \/ k[2] <= endedAt'[k[1]]
<1>1. p \in Records /\ p.pid \in Pids /\ p.start <= ticks
  BY DEF MachineOK, Records
<1>2. MachineOK'
  BY <1>1 DEF MachineOK, Reaped
<1>3. KeysOf(procs') \subseteq KeysOf(procs) /\ UNCHANGED scanVars
  BY DEF Reaped, KeysOf
<1>4. ASSUME NEW k \in InstanceKeys, k \in KeysOf(procs) \/ k[2] <= endedAt[k[1]]
      PROVE  k \in KeysOf(procs') \/ k[2] <= endedAt'[k[1]]
  <2>1. k[1] \in Pids /\ k[2] \in Nat
    BY ScanAssumption DEF InstanceKeys, ScanAssumption
  <2>2. CASE k = KeyOf(p)
    BY <1>1, <2>1, <2>2, KeyTyped DEF MachineOK, Reaped
  <2>3. CASE k # KeyOf(p) /\ k \in KeysOf(procs)
    BY <2>3 DEF Reaped, KeysOf
  <2>4. CASE k[2] <= endedAt[k[1]]
    BY <2>1, <2>4 DEF MachineOK, Reaped
  <2> QED
    BY <1>4, <2>2, <2>3, <2>4
<1> QED
  BY <1>2, <1>3, <1>4

\* A new process has a pid that is free, and starts after the last process of that pid had ended.
LEMMA ForksKeeps ==
  ASSUME MachineOK, NEW pid \in Pids, NEW parents \in SUBSET procs, Forks(pid, parents)
  PROVE  /\ MachineOK' /\ UNCHANGED <<endedAt, scanVars>>
         /\ KeysOf(procs') = KeysOf(procs) \cup {<<pid, ticks'>>}
         /\ pid \notin PidsOf(procs) /\ endedAt[pid] < ticks'
<1>1. /\ ticks' \in ticks..MaxTicks /\ pid \notin PidsOf(procs) /\ endedAt[pid] < ticks'
      /\ UNCHANGED <<endedAt, scanVars>> /\ events' \in 0..MaxEvents
  BY ScanAssumption DEF Forks, Event, MachineOK, ScanAssumption
<1>2. PICK image, ppid :
        /\ image \in IF parents = {} THEN Images ELSE {p.image : p \in parents} \ {NoImage}
        /\ ppid \in IF parents = {} THEN {0} ELSE PidsOf(parents)
        /\ procs' = procs \cup {[pid |-> pid, start |-> ticks', ppid |-> ppid, image |-> image]}
  BY DEF Forks
<1> DEFINE new == [pid |-> pid, start |-> ticks', ppid |-> ppid, image |-> image]
<1>3. \A p \in parents : p \in Records /\ p.image \in Images \cup {NoImage} /\ p.pid \in Pids
  BY DEF MachineOK, Records
<1>4. ticks \in Nat /\ MaxTicks \in Nat /\ ticks' \in 0..MaxTicks /\ ticks <= ticks'
  BY <1>1, ScanAssumption DEF MachineOK, ScanAssumption
<1>5. image \in Images \cup {NoImage} /\ ppid \in Pids \cup {0}
  BY <1>2, <1>3 DEF PidsOf
<1>6. new \in Records /\ KeyOf(new) = <<pid, ticks'>>
  BY <1>4, <1>5 DEF Records, KeyOf
<1>7. KeysOf(procs') = KeysOf(procs) \cup {<<pid, ticks'>>}
  BY <1>2, <1>6 DEF KeysOf
<1>8. \A p, q \in procs' : p.pid = q.pid => p = q
  BY <1>1, <1>2 DEF MachineOK, PidsOf
<1>9. \A p \in procs' : p.start <= ticks'
  <2>1. \A p \in procs : p.start \in Nat /\ p.start <= ticks
    BY ScanAssumption DEF MachineOK, Records, ScanAssumption
  <2> QED
    BY <1>2, <1>4, <2>1
<1>10. parentsOf' \subseteq InstanceKeys \X InstanceKeys
  <2>1. parentsOf' = parentsOf \cup {<< <<pid, ticks'>>, KeyOf(p)>> : p \in parents}
    BY DEF Forks
  <2>2. <<pid, ticks'>> \in InstanceKeys
    BY <1>4 DEF InstanceKeys
  <2>3. \A p \in parents : KeyOf(p) \in InstanceKeys
    BY <1>3, KeyTyped
  <2> QED
    BY <2>1, <2>2, <2>3 DEF MachineOK
<1>11. \A i \in Pids : endedAt'[i] <= ticks'
  BY <1>1, <1>4 DEF MachineOK
<1> QED
  BY <1>1, <1>2, <1>4, <1>6, <1>7, <1>8, <1>9, <1>10, <1>11 DEF MachineOK

-----------------------------------------------------------------------------
(* The scan. *)

\* What the steps of the machine leave to show: no known process becomes unknown, and no known
\* process comes back.
LEMMA MachineScanInv ==
  ASSUME ScanInv, UNCHANGED scanVars, MachineOK',
         \A k \in InstanceKeys : k \in KeysOf(procs) \/ k[2] <= endedAt[k[1]]
                                 => k \in KeysOf(procs') \/ k[2] <= endedAt'[k[1]],
         \A k \in KeysOf(procs') \ KeysOf(procs) : k \notin prevProcesses
  PROVE  ScanInv'
<1> USE DEF ScanInv
<1>1. ProcessTypeOK'
  BY DEF ProcessTypeOK, ScanOK, scanVars
<1>2. KeysOf(reading) \subseteq InstanceKeys /\ KeysOf(accepted) \subseteq InstanceKeys /\ prevProcesses \subseteq InstanceKeys
  BY KeysTyped DEF ProcessTypeOK, ScanOK
<1>3. KeysOf(reading') = KeysOf(reading) /\ KeysOf(accepted') = KeysOf(accepted) /\ prevProcesses' = prevProcesses
  BY DEF scanVars, KeysOf
<1>4. EndedBefore'
  BY <1>2, <1>3 DEF EndedBefore
<1>5. OneRead'
  BY DEF OneRead, scanVars
<1>6. Covered'
  BY <1>3 DEF Covered, scanVars
<1> QED
  BY <1>1, <1>4, <1>5, <1>6

\* Processes that change, end, are reaped or are forked keep the invariant.
LEMMA EventScanInv ==
  ASSUME ScanInv,
         \/ \E pid \in Pids : Forks(pid, {}) \/ \E p \in procs : Forks(pid, {p})
         \/ \E p \in procs : BecomesZombie(p) \/ Reaped(p) \/ \E image \in Images : Execs(p, image)
  PROVE  ScanInv'
<1>1. MachineOK /\ prevProcesses \subseteq InstanceKeys
  BY DEF ScanInv, ProcessTypeOK, ScanOK
<1>2. ASSUME NEW p \in procs, NEW image \in Images, Execs(p, image) PROVE ScanInv'
  BY <1>1, <1>2, ExecsKeeps, MachineScanInv
<1>3. ASSUME NEW p \in procs, BecomesZombie(p) PROVE ScanInv'
  BY <1>1, <1>3, ZombieKeeps, MachineScanInv
<1>4. ASSUME NEW p \in procs, Reaped(p) PROVE ScanInv'
  <2>1. KeysOf(procs') \ KeysOf(procs) = {}
    BY <1>1, <1>4, ReapedKeeps
  <2> QED
    BY <1>1, <1>4, <2>1, ReapedKeeps, MachineScanInv
<1>5. ASSUME NEW pid \in Pids, NEW parents \in SUBSET procs, Forks(pid, parents) PROVE ScanInv'
  <2> DEFINE new == <<pid, ticks'>>
  <2>1. /\ MachineOK' /\ UNCHANGED <<endedAt, scanVars>>
        /\ KeysOf(procs') = KeysOf(procs) \cup {new}
        /\ pid \notin PidsOf(procs) /\ endedAt[pid] < ticks'
    BY <1>1, <1>5, ForksKeeps
  <2>2. new \notin KeysOf(procs)
    <3>1. \A p \in procs : KeyOf(p)[1] # pid
      BY <1>1, <2>1, KeyTyped DEF MachineOK, PidsOf
    <3> QED
      BY <3>1 DEF KeysOf
  <2>3. new \notin prevProcesses
    <3>1. ~(ticks' <= endedAt[pid])
      BY <1>1, <2>1, ScanAssumption DEF MachineOK, ScanAssumption
    <3> QED
      BY <2>2, <3>1 DEF ScanInv, EndedBefore
  <2> QED
    BY <2>1, <2>3, MachineScanInv
<1>6. ASSUME NEW pid \in Pids, Forks(pid, {}) PROVE ScanInv'
  BY <1>5, <1>6
<1>7. ASSUME NEW pid \in Pids, NEW p \in procs, Forks(pid, {p}) PROVE ScanInv'
  BY <1>5, <1>7
<1> QED
  BY <1>2, <1>3, <1>4, <1>6, <1>7

\* A scan starts with every pid of the directory, or knows that it does not.
LEMMA DiscoverScanInv == ScanInv /\ Discover => ScanInv'
<1> SUFFICES ASSUME ScanInv, Discover PROVE ScanInv'
  OBVIOUS
<1>1. /\ cutShort' \/ todo' = PidsOf(procs)
      /\ todo' \subseteq PidsOf(procs) /\ scan = "idle" /\ scan' = "stat"
      /\ scanNow' = scanNow + 1 /\ scanNow < MaxScans
      /\ UNCHANGED <<Machine, reading, accepted, identities, prevProcesses>>
  BY DEF Discover
<1>2. ProcessTypeOK'
  <2>1. MachineOK'
    BY <1>1 DEF ScanInv, ProcessTypeOK, MachineOK, Machine
  <2>2. PidsOf(procs) \subseteq Pids
    BY DEF ScanInv, ProcessTypeOK, MachineOK, PidsOf, Records
  <2>3. scanNow' \in 0..MaxScans
    BY <1>1, ScanAssumption DEF ScanInv, ProcessTypeOK, ScanOK, ScanAssumption
  <2> QED
    BY <1>1, <2>1, <2>2, <2>3 DEF ScanInv, ProcessTypeOK, ScanOK
<1>3. EndedBefore'
  BY <1>1 DEF ScanInv, EndedBefore, Machine, KeysOf
<1>4. OneRead'
  BY <1>1 DEF ScanInv, OneRead
<1>5. Covered'
  <2>1. \A k \in KeysOf(procs) : k[1] \in PidsOf(procs)
    BY KeyTyped DEF ScanInv, ProcessTypeOK, MachineOK, KeysOf, PidsOf
  <2> QED
    BY <1>1, <2>1 DEF Covered, Machine
<1> QED
  BY <1>2, <1>3, <1>4, <1>5 DEF ScanInv

\* The processes read are those there are, and the pid read is no longer to be read.
LEMMA ReadStatScanInv == ScanInv /\ ReadStat => ScanInv'
<1> SUFFICES ASSUME ScanInv, ReadStat PROVE ScanInv'
  OBVIOUS
<1>1. PICK pid \in todo :
        /\ todo' = todo \ {pid}
        /\ \/ /\ reading' = {p \in procs : p.pid = pid} /\ denied' = denied
              /\ scan' = IF reading' = {} THEN "stat" ELSE "exe"
           \/ denied' = TRUE /\ UNCHANGED <<scan, reading>>
  BY DEF ReadStat
<1>2. scan = "stat" /\ UNCHANGED <<Machine, scanNow, cutShort, accepted, identities, prevProcesses>>
  BY DEF ReadStat
<1>3. reading = {}
  BY <1>2 DEF ScanInv, OneRead
<1>4. reading' \subseteq procs /\ \A p \in reading' : p.pid = pid
  BY <1>1, <1>3
<1>5. MachineOK' /\ MachineOK
  BY <1>2 DEF ScanInv, ProcessTypeOK, MachineOK, Machine
<1>6. ProcessTypeOK'
  BY <1>1, <1>2, <1>4, <1>5 DEF ScanInv, ProcessTypeOK, ScanOK, MachineOK
<1>7. EndedBefore'
  BY <1>2, <1>4 DEF ScanInv, EndedBefore, Machine, KeysOf
<1>8. OneRead'
  BY <1>1, <1>2, <1>3, <1>4, <1>5 DEF OneRead, MachineOK
<1>9. Covered'
  <2> SUFFICES ASSUME ~denied', ~cutShort', NEW k \in prevProcesses \cap KeysOf(procs)
               PROVE  k[1] \in todo' \/ k \in KeysOf(reading') \/ k \in KeysOf(accepted)
    BY <1>2 DEF Covered, Machine
  <2>1. reading' = {p \in procs : p.pid = pid} /\ ~denied
    BY <1>1
  <2>2. k[1] \in todo \/ k \in KeysOf(accepted)
    BY <1>2, <1>3, <2>1 DEF ScanInv, Covered, KeysOf
  <2>3. PICK p \in procs : k = KeyOf(p)
    BY DEF KeysOf
  <2>4. k[1] = p.pid
    BY <1>5, <2>3, KeyTyped DEF MachineOK
  <2> QED
    BY <1>1, <2>1, <2>2, <2>3, <2>4 DEF KeysOf
<1> QED
  BY <1>6, <1>7, <1>8, <1>9 DEF ScanInv

\* The image that is read changes no key.
LEMMA ReadIdentityScanInv == ScanInv /\ ReadIdentity => ScanInv'
<1> SUFFICES ASSUME ScanInv, ReadIdentity PROVE ScanInv'
  OBVIOUS
<1>1. scan = "exe" /\ scan' = "recheck" /\ UNCHANGED <<Machine, scanNow, cutShort, denied, todo, accepted, prevProcesses>>
  BY DEF ReadIdentity
<1>2. MachineOK' /\ MachineOK /\ ScanOK
  BY <1>1 DEF ScanInv, ProcessTypeOK, MachineOK, Machine
<1> DEFINE cachedOf(p) == {i \in identities : i.key = KeyOf(p)}
           imageOf(p) == CHOOSE m \in IF {q.image : q \in {q \in procs : q.pid = p.pid}} = {} THEN {NoImage}
                                      ELSE {q.image : q \in {q \in procs : q.pid = p.pid}} : TRUE
<1>3. PICK p \in reading :
        IF \E i \in cachedOf(p) : scanNow - i.at < IdentityTime
        THEN reading' = {[p EXCEPT !.image = i.image] : i \in cachedOf(p)} /\ UNCHANGED identities
        ELSE /\ reading' = {[p EXCEPT !.image = imageOf(p)]}
             /\ identities' = (identities \ cachedOf(p)) \cup {[key |-> KeyOf(p), image |-> imageOf(p), at |-> scanNow]}
  BY DEF ReadIdentity, Cached
<1>4. p \in Records /\ \A r \in reading : KeyOf(r) = KeyOf(p)
  BY <1>2, <1>3 DEF ScanInv, ScanOK, OneRead
<1>5. imageOf(p) \in Images \cup {NoImage}
  BY <1>2 DEF MachineOK, Records
<1>6. reading' # {} /\ reading' \subseteq Records /\ \A r \in reading' : KeyOf(r) = KeyOf(p)
  <2>1. \A m \in Images \cup {NoImage} : [p EXCEPT !.image = m] \in Records /\ KeyOf([p EXCEPT !.image = m]) = KeyOf(p)
    BY <1>4, KeyOfChanged
  <2>2. \A i \in cachedOf(p) : i.image \in Images \cup {NoImage}
    BY <1>2 DEF ScanOK
  <2>3. CASE \E i \in cachedOf(p) : scanNow - i.at < IdentityTime
    <3>1. reading' = {[p EXCEPT !.image = i.image] : i \in cachedOf(p)} /\ cachedOf(p) # {}
      BY <1>3, <2>3
    <3> HIDE DEF cachedOf
    <3> QED
      BY <2>1, <2>2, <3>1
  <2>4. CASE ~ \E i \in cachedOf(p) : scanNow - i.at < IdentityTime
    <3>1. reading' = {[p EXCEPT !.image = imageOf(p)]}
      BY <1>3, <2>4
    <3> HIDE DEF imageOf
    <3> QED
      BY <1>5, <2>1, <3>1
  <2> QED
    BY <2>3, <2>4
<1>7. identities' \subseteq [key : InstanceKeys, image : Images \cup {NoImage}, at : 0..MaxScans]
  <2>1. [key |-> KeyOf(p), image |-> imageOf(p), at |-> scanNow] \in [key : InstanceKeys, image : Images \cup {NoImage}, at : 0..MaxScans]
    BY <1>2, <1>4, <1>5, KeyTyped DEF ScanOK
  <2> QED
    BY <1>2, <1>3, <2>1 DEF ScanOK
<1>8. KeysOf(reading') = {KeyOf(p)} /\ KeysOf(reading) = {KeyOf(p)}
  BY <1>3, <1>4, <1>6 DEF KeysOf
<1>9. ProcessTypeOK'
  BY <1>1, <1>2, <1>6, <1>7 DEF ProcessTypeOK, ScanOK
<1>10. EndedBefore' /\ Covered'
  BY <1>1, <1>8 DEF ScanInv, EndedBefore, Covered, Machine, KeysOf
<1>11. OneRead'
  BY <1>1, <1>6 DEF OneRead
<1> QED
  BY <1>9, <1>10, <1>11 DEF ScanInv

\* A process that is still there is accepted.
LEMMA RecheckScanInv == ScanInv /\ Recheck => ScanInv'
<1> SUFFICES ASSUME ScanInv, Recheck PROVE ScanInv'
  OBVIOUS
<1>1. /\ scan' = "stat" /\ reading' = {} /\ scan = "recheck"
      /\ accepted' = accepted \cup {p \in reading : SameProcess(p)}
      /\ UNCHANGED <<Machine, scanNow, cutShort, denied, todo, identities, prevProcesses>>
  BY DEF Recheck
<1>2. ProcessTypeOK'
  BY <1>1 DEF ScanInv, ProcessTypeOK, ScanOK, MachineOK, Machine
<1>3. KeysOf(accepted') = KeysOf(accepted) \cup (KeysOf(reading) \cap KeysOf(procs)) /\ KeysOf(reading') = {}
  BY <1>1 DEF KeysOf, SameProcess
<1>4. EndedBefore'
  BY <1>1, <1>3 DEF ScanInv, EndedBefore, Machine
<1>5. OneRead'
  BY <1>1 DEF OneRead
<1>6. Covered'
  BY <1>1, <1>3 DEF ScanInv, Covered, Machine
<1> QED
  BY <1>2, <1>4, <1>5, <1>6 DEF ScanInv

\* What is known after a scan was accepted by it, or known before.
LEMMA FinishScanInv ==
  ScanInv /\ Finish => ScanInv' /\ (prevProcesses \ prevProcesses') \cap KeysOf(procs) = {}
<1> SUFFICES ASSUME ScanInv, Finish
             PROVE  ScanInv' /\ (prevProcesses \ prevProcesses') \cap KeysOf(procs) = {}
  OBVIOUS
<1>1. /\ scan = "stat" /\ scan' = "idle" /\ todo' = {} /\ accepted' = {} /\ ~cutShort'
      /\ UNCHANGED <<Machine, scanNow, reading>>
  BY DEF Finish
<1>2. PICK intime \in SUBSET accepted :
        /\ identities' \subseteq identities
        /\ prevProcesses' = KeysOf(intime) \cup (IF Complete(intime) THEN {} ELSE prevProcesses)
  BY DEF Finish
<1>3. KeysOf(intime) \subseteq KeysOf(accepted) /\ KeysOf(accepted) \subseteq InstanceKeys /\ KeysOf(accepted') = {}
  BY <1>1, KeysTyped DEF KeysOf, ScanInv, ProcessTypeOK, ScanOK
<1>4. reading = {} /\ KeysOf(reading') = {}
  BY <1>1 DEF ScanInv, OneRead, KeysOf
<1>5. ProcessTypeOK'
  BY <1>1, <1>2, <1>3 DEF ScanInv, ProcessTypeOK, ScanOK, MachineOK, Machine
<1>6. EndedBefore'
  BY <1>1, <1>2, <1>3, <1>4 DEF ScanInv, EndedBefore, Machine
<1>7. OneRead' /\ Covered'
  BY <1>1, <1>4 DEF OneRead, Covered
<1>8. (prevProcesses \ prevProcesses') \cap KeysOf(procs) = {}
  <2>1. CASE Complete(intime)
    <3>1. ~denied /\ ~cutShort /\ todo = {} /\ intime = accepted
      BY <2>1 DEF Complete, Truncated
    <3>2. prevProcesses \cap KeysOf(procs) \subseteq KeysOf(accepted)
      BY <1>1, <1>4, <3>1 DEF ScanInv, Covered, KeysOf
    <3> QED
      BY <1>2, <3>1, <3>2
  <2>2. CASE ~Complete(intime)
    BY <1>2, <2>2
  <2> QED
    BY <2>1, <2>2
<1> QED
  BY <1>5, <1>6, <1>7, <1>8 DEF ScanInv

\* The helper starts with nothing known, on a machine whose clock has not moved.
LEMMA InitScanInv == ProcessInit => ScanInv
<1> SUFFICES ASSUME ProcessInit PROVE ScanInv
  OBVIOUS
<1>1. 0 \in 0..MaxTicks /\ 0 \in 0..MaxEvents /\ 0 \in 0..MaxScans
  BY ScanAssumption DEF ScanAssumption
<1>2. procs \subseteq Records /\ \A p \in procs : p.start = 0
  BY <1>1 DEF ProcessInit, Records
<1>3. MachineOK
  <2>1. \A p \in procs : <<p.pid, 0>> \in InstanceKeys /\ (p.ppid # 0 => <<p.ppid, 0>> \in InstanceKeys)
    BY <1>1, <1>2 DEF Records, InstanceKeys
  <2>2. parentsOf \subseteq InstanceKeys \X InstanceKeys
    BY <2>1 DEF ProcessInit
  <2>3. \A p, q \in procs : p.pid = q.pid => p = q
    BY DEF ProcessInit
  <2> QED
    BY <1>1, <1>2, <2>2, <2>3 DEF ProcessInit, MachineOK
<1>4. ScanOK
  BY <1>1 DEF ProcessInit, ScanOK
<1>5. EndedBefore /\ OneRead /\ Covered
  BY DEF ProcessInit, EndedBefore, OneRead, Covered, KeysOf
<1> QED
  BY <1>3, <1>4, <1>5 DEF ScanInv, ProcessTypeOK

\* Every step keeps the invariant.
LEMMA StepScanInv == ScanInv /\ [ProcessNext]_processVars => ScanInv'
<1> SUFFICES ASSUME ScanInv, [ProcessNext]_processVars PROVE ScanInv'
  OBVIOUS
<1>1. CASE Discover \/ ReadStat \/ ReadIdentity \/ Recheck \/ Finish
  BY <1>1, DiscoverScanInv, ReadStatScanInv, ReadIdentityScanInv, RecheckScanInv, FinishScanInv
<1>2. CASE \/ \E pid \in Pids : Forks(pid, {}) \/ \E p \in procs : Forks(pid, {p})
           \/ \E p \in procs : BecomesZombie(p) \/ Reaped(p) \/ \E image \in Images : Execs(p, image)
  BY <1>2, EventScanInv
<1>3. CASE UNCHANGED processVars
  BY <1>3 DEF processVars, scanVars, ScanInv, ProcessTypeOK, MachineOK, ScanOK, EndedBefore, OneRead, Covered, KeysOf
<1> QED
  BY <1>1, <1>2, <1>3 DEF ProcessNext

\* The invariant holds in every state.
LEMMA AlwaysScanInv == ProcessSpec => []ScanInv
  BY InitScanInv, StepScanInv, PTL DEF ProcessSpec

\* Type correctness of the scan and of the process table, for any limits.
THEOREM ProcessTypeCorrect == ProcessSpec => []ProcessTypeOK
<1>1. ScanInv => ProcessTypeOK
  BY DEF ScanInv
<1> QED
  BY <1>1, AlwaysScanInv, PTL

\* No scan reports a process as exited that is there when it ends, for any number of processes
\* and pids, whatever is refused or left out, and however fast pids are used again.
THEOREM ExitsAreReal == ProcessSpec => ProcessExitsAreReal
<1>1. ScanInv /\ [ProcessNext]_processVars
        => [scan # "idle" /\ scan' = "idle" => (prevProcesses \ prevProcesses') \cap KeysOf(procs) = {}]_processVars
  <2> SUFFICES ASSUME ScanInv, ProcessNext, scan # "idle", scan' = "idle"
               PROVE  (prevProcesses \ prevProcesses') \cap KeysOf(procs) = {}
    BY DEF processVars, scanVars
  <2>1. CASE Discover \/ ReadStat \/ ReadIdentity \/ Recheck
    BY <2>1 DEF Discover, ReadStat, ReadIdentity, Recheck
  <2>2. CASE Finish
    BY <2>2, FinishScanInv
  <2>3. CASE \/ \E pid \in Pids : Forks(pid, {}) \/ \E p \in procs : Forks(pid, {p})
             \/ \E p \in procs : BecomesZombie(p) \/ Reaped(p) \/ \E image \in Images : Execs(p, image)
    BY <2>3 DEF Forks, BecomesZombie, Reaped, Execs, Event, scanVars
  <2> QED
    BY <2>1, <2>2, <2>3 DEF ProcessNext
<1> QED
  BY <1>1, AlwaysScanInv, PTL DEF ProcessSpec, ProcessExitsAreReal

-----------------------------------------------------------------------------
(* What a row says of a process: the image. *)

\* An image that the process had at time t or later.
Had(k, m, t) ==
  \/ \E p \in procs : KeyOf(p) = k /\ p.image = m
  \/ \E i \in imagesOf : i.key = k /\ i.image = m /\ i.until >= t

Recent == scanNow - IdentityTime + 1

\* The process has ended, and its key does not come back.
Gone(k) == k \notin KeysOf(procs) /\ k[2] <= endedAt[k[1]]

ImagesOK == imagesOf \subseteq [key : InstanceKeys, image : Images \cup {NoImage}, until : 0..scanNow]

\* The cache has one image of a process.
OneEntry == \A i, j \in identities : i.key = j.key => i = j

\* What is in the cache was an image of its process, unless that process has ended.
CacheTrue == \A i \in identities : i.at <= scanNow /\ (Had(i.key, i.image, i.at) \/ Gone(i.key))

RowsTrue ==
  /\ scan = "recheck" => \A p \in reading : Had(KeyOf(p), p.image, Recent) \/ Gone(KeyOf(p))
  /\ \A p \in accepted : Had(KeyOf(p), p.image, Recent)
  /\ \A r \in shown : Had(r.key, r.image, Recent)
  /\ scan = "idle" => accepted = {}

ImageInv == ImagesOK /\ OneEntry /\ CacheTrue /\ RowsTrue

\* What the machine does: an image that ends is remembered, and what is gone stays gone.
ImagesKept ==
  /\ UNCHANGED scanVars
  /\ ImagesOK'
  /\ \A k, m, t : t <= scanNow /\ Had(k, m, t) => Had(k, m, t)'
  /\ \A k \in InstanceKeys : Gone(k) => Gone(k)'

\* Images and images only.
LEMMA TableKept ==
  ASSUME ImagesOK, scanNow \in Nat, UNCHANGED scanVars, NEW f, procs' = {f[q] : q \in procs},
         \A q \in procs : KeyOf(f[q]) = KeyOf(q),
         NEW p \in procs, KeyOf(p) \in InstanceKeys, p.image \in Images \cup {NoImage}, ImageEnds(p),
         \A q \in procs : q # p => f[q].image = q.image,
         KeysOf(procs') = KeysOf(procs), endedAt' = endedAt
  PROVE  ImagesKept
<1>1. imagesOf' = imagesOf \cup {[key |-> KeyOf(p), image |-> p.image, until |-> scanNow]} /\ scanNow' = scanNow
  BY DEF ImageEnds, scanVars
<1>2. ImagesOK'
  BY <1>1 DEF ImagesOK
<1>3. ASSUME NEW k, NEW m, NEW t, t <= scanNow, Had(k, m, t) PROVE Had(k, m, t)'
  <2>1. CASE \E i \in imagesOf : i.key = k /\ i.image = m /\ i.until >= t
    BY <1>1, <2>1 DEF Had
  <2>2. CASE \E q \in procs : KeyOf(q) = k /\ q.image = m
    <3>1. PICK q \in procs : KeyOf(q) = k /\ q.image = m
      BY <2>2
    <3>2. CASE q = p
      <4> DEFINE i == [key |-> KeyOf(p), image |-> p.image, until |-> scanNow]
      <4>1. i \in imagesOf' /\ i.key = k /\ i.image = m /\ i.until = scanNow
        BY <1>1, <3>1, <3>2
      <4> HIDE DEF i
      <4>2. i.until >= t
        BY <1>3, <4>1
      <4> QED
        BY <4>1, <4>2 DEF Had
    <3>3. CASE q # p
      BY <3>1, <3>3 DEF Had
    <3> QED
      BY <3>2, <3>3
  <2> QED
    BY <1>3, <2>1, <2>2 DEF Had
<1>4. \A k \in InstanceKeys : Gone(k) => Gone(k)'
  BY DEF Gone
<1> QED
  BY <1>2, <1>3, <1>4 DEF ImagesKept

LEMMA ExecsImages ==
  ASSUME MachineOK, ImagesOK, scanNow \in Nat, NEW p \in procs, NEW image \in Images, Execs(p, image)
  PROVE  ImagesKept
<1> DEFINE f == [q \in procs |-> IF q = p THEN [q EXCEPT !.image = image] ELSE q]
<1>1. \A q \in procs : KeyOf(f[q]) = KeyOf(q)
  BY KeyOfChanged DEF MachineOK
<1>2. procs' = {f[q] : q \in procs}
  BY DEF Execs
<1>3. \A q \in procs : q # p => f[q].image = q.image
  OBVIOUS
<1>4. KeyOf(p) \in InstanceKeys /\ p.image \in Images \cup {NoImage}
  BY KeyTyped DEF MachineOK, Records
<1>5. KeysOf(procs') = KeysOf(procs) /\ UNCHANGED <<endedAt, scanVars>>
  BY ExecsKeeps
<1>6. ImageEnds(p)
  BY DEF Execs
<1> HIDE DEF f
<1> QED
  BY <1>1, <1>2, <1>3, <1>4, <1>5, <1>6, TableKept

LEMMA ZombieImages ==
  ASSUME MachineOK, ImagesOK, scanNow \in Nat, NEW p \in procs, BecomesZombie(p)
  PROVE  ImagesKept
<1> DEFINE f == [q \in procs |-> IF q = p THEN [p EXCEPT !.image = NoImage] ELSE IF q.ppid = p.pid THEN [q EXCEPT !.ppid = 0] ELSE q]
<1>1. \A q \in procs : KeyOf(f[q]) = KeyOf(q)
  BY KeyOfChanged, KeyOfOrphan DEF MachineOK
<1>2. procs' = {f[q] : q \in procs}
  BY DEF BecomesZombie
<1>3. \A q \in procs : q # p => f[q].image = q.image
  BY DEF MachineOK, Records
<1>4. KeyOf(p) \in InstanceKeys /\ p.image \in Images \cup {NoImage}
  BY KeyTyped DEF MachineOK, Records
<1>5. KeysOf(procs') = KeysOf(procs) /\ UNCHANGED <<endedAt, scanVars>>
  BY ZombieKeeps
<1>6. ImageEnds(p)
  BY DEF BecomesZombie
<1> HIDE DEF f
<1> QED
  BY <1>1, <1>2, <1>3, <1>4, <1>5, <1>6, TableKept

LEMMA ReapedImages ==
  ASSUME MachineOK, ImagesOK, scanNow \in Nat, NEW p \in procs, Reaped(p)
  PROVE  ImagesKept
<1>1. KeyOf(p) \in InstanceKeys /\ p.image \in Images \cup {NoImage}
  BY KeyTyped DEF MachineOK, Records
<1>2. /\ imagesOf' = imagesOf \cup {[key |-> KeyOf(p), image |-> p.image, until |-> scanNow]} /\ scanNow' = scanNow
      /\ procs' = procs \ {p} /\ UNCHANGED scanVars
  BY DEF Reaped, ImageEnds, scanVars
<1>3. ImagesOK'
  BY <1>1, <1>2 DEF ImagesOK
<1>4. ASSUME NEW k, NEW m, NEW t, t <= scanNow, Had(k, m, t) PROVE Had(k, m, t)'
  <2>1. CASE \E i \in imagesOf : i.key = k /\ i.image = m /\ i.until >= t
    BY <1>2, <2>1 DEF Had
  <2>2. CASE \E q \in procs : KeyOf(q) = k /\ q.image = m
    <3>1. PICK q \in procs : KeyOf(q) = k /\ q.image = m
      BY <2>2
    <3>2. CASE q = p
      <4> DEFINE i == [key |-> KeyOf(p), image |-> p.image, until |-> scanNow]
      <4>1. i \in imagesOf' /\ i.key = k /\ i.image = m /\ i.until = scanNow
        BY <1>2, <3>1, <3>2
      <4> HIDE DEF i
      <4>2. i.until >= t
        BY <1>4, <4>1
      <4> QED
        BY <4>1, <4>2 DEF Had
    <3>3. CASE q # p
      BY <1>2, <3>1, <3>3 DEF Had
    <3> QED
      BY <3>2, <3>3
  <2> QED
    BY <1>4, <2>1, <2>2 DEF Had
<1>5. ASSUME NEW k \in InstanceKeys, Gone(k) PROVE Gone(k)'
  <2>1. KeysOf(procs') \subseteq KeysOf(procs)
    BY ReapedKeeps
  <2>2. k \in KeysOf(procs') \/ k[2] <= endedAt'[k[1]]
    BY <1>5, ReapedKeeps DEF Gone
  <2> QED
    BY <1>5, <2>1, <2>2 DEF Gone
<1> QED
  BY <1>2, <1>3, <1>4, <1>5 DEF ImagesKept

LEMMA ForksImages ==
  ASSUME MachineOK, ImagesOK, scanNow \in Nat, NEW pid \in Pids, NEW parents \in SUBSET procs, Forks(pid, parents)
  PROVE  ImagesKept
<1>1. /\ UNCHANGED <<endedAt, scanVars>> /\ KeysOf(procs') = KeysOf(procs) \cup {<<pid, ticks'>>}
      /\ endedAt[pid] < ticks' /\ MachineOK'
  BY ForksKeeps
<1>2. imagesOf' = imagesOf /\ procs \subseteq procs' /\ scanNow' = scanNow
  BY <1>1 DEF Forks, scanVars
<1>3. ImagesOK'
  BY <1>2 DEF ImagesOK
<1>4. \A k, m, t : Had(k, m, t) => Had(k, m, t)'
  BY <1>2 DEF Had
<1>5. ASSUME NEW k \in InstanceKeys, Gone(k) PROVE Gone(k)'
  <2>1. k # <<pid, ticks'>>
    <3>1. endedAt[pid] \in Int /\ ticks' \in Int
      BY <1>1, ScanAssumption DEF MachineOK, ScanAssumption
    <3> QED
      BY <1>1, <1>5, <3>1 DEF Gone
  <2> QED
    BY <1>1, <1>5, <2>1 DEF Gone
<1> QED
  BY <1>1, <1>3, <1>4, <1>5 DEF ImagesKept

\* The machine keeps the images true.
LEMMA MachineImages ==
  ASSUME ScanInv, ImageInv,
         \/ \E pid \in Pids : Forks(pid, {}) \/ \E p \in procs : Forks(pid, {p})
         \/ \E p \in procs : BecomesZombie(p) \/ Reaped(p) \/ \E image \in Images : Execs(p, image)
  PROVE  ImageInv'
<1>1. MachineOK /\ ImagesOK /\ scanNow \in Nat
  BY ScanAssumption DEF ScanInv, ProcessTypeOK, ScanOK, ImageInv, ScanAssumption
<1>2. ImagesKept
  <2>1. ASSUME NEW pid \in Pids, Forks(pid, {}) PROVE ImagesKept
    BY <1>1, <2>1, ForksImages
  <2>2. ASSUME NEW pid \in Pids, NEW p \in procs, Forks(pid, {p}) PROVE ImagesKept
    BY <1>1, <2>2, ForksImages
  <2>3. ASSUME NEW p \in procs, BecomesZombie(p) PROVE ImagesKept
    BY <1>1, <2>3, ZombieImages
  <2>4. ASSUME NEW p \in procs, Reaped(p) PROVE ImagesKept
    BY <1>1, <2>4, ReapedImages
  <2>5. ASSUME NEW p \in procs, NEW image \in Images, Execs(p, image) PROVE ImagesKept
    BY <1>1, <2>5, ExecsImages
  <2> QED
    BY <2>1, <2>2, <2>3, <2>4, <2>5
<1>3. UNCHANGED <<scan, scanNow, reading, accepted, identities, shown>>
  BY <1>2 DEF ImagesKept, scanVars
<1>4. identities \subseteq [key : InstanceKeys, image : Images \cup {NoImage}, at : 0..MaxScans]
      /\ KeysOf(reading) \subseteq InstanceKeys
  BY KeysTyped DEF ScanInv, ProcessTypeOK, ScanOK
<1>5. CacheTrue'
  <2> SUFFICES ASSUME NEW i \in identities PROVE i.at <= scanNow /\ (Had(i.key, i.image, i.at)' \/ Gone(i.key)')
    BY <1>3 DEF CacheTrue, Had, Gone
  <2>1. i.at <= scanNow /\ (Had(i.key, i.image, i.at) \/ Gone(i.key)) /\ i.key \in InstanceKeys
    BY <1>4 DEF ImageInv, CacheTrue
  <2> QED
    BY <1>2, <2>1 DEF ImagesKept
<1>6. Recent \in Int /\ Recent <= scanNow /\ Recent' = Recent
  BY <1>1, <1>3, ScanAssumption DEF Recent, ScanAssumption
<1>7. \A k, m : Had(k, m, Recent) => Had(k, m, Recent)'
  BY <1>2, <1>6 DEF ImagesKept, Had
<1>8. RowsTrue'
  <2>1. ASSUME scan = "recheck", NEW p \in reading PROVE Had(KeyOf(p), p.image, Recent)' \/ Gone(KeyOf(p))'
    <3>1. Had(KeyOf(p), p.image, Recent) \/ Gone(KeyOf(p))
      BY <2>1 DEF ImageInv, RowsTrue
    <3>2. KeyOf(p) \in InstanceKeys
      BY <1>4 DEF KeysOf
    <3> QED
      BY <1>2, <1>7, <3>1, <3>2 DEF ImagesKept
  <2>2. \A p \in accepted : Had(KeyOf(p), p.image, Recent)'
    BY <1>7 DEF ImageInv, RowsTrue
  <2>3. \A r \in shown : Had(r.key, r.image, Recent)'
    BY <1>7 DEF ImageInv, RowsTrue
  <2>4. scan = "idle" => accepted = {}
    BY DEF ImageInv, RowsTrue
  <2> QED
    BY <1>3, <2>1, <2>2, <2>3, <2>4 DEF RowsTrue, Had, Gone, KeyOf
<1> QED
  BY <1>2, <1>3, <1>5, <1>8 DEF ImageInv, ImagesKept, OneEntry

LEMMA InitImages == ProcessInit => ImageInv
<1> SUFFICES ASSUME ProcessInit PROVE ImageInv
  OBVIOUS
<1> QED
  BY DEF ProcessInit, ImageInv, ImagesOK, OneEntry, CacheTrue, RowsTrue

\* A step of the scan that reads no image.
LEMMA StillImages ==
  ASSUME ImageInv, UNCHANGED <<Machine, scanNow>>, identities' \subseteq identities,
         scan' # "recheck", scan' = "idle" => accepted' = {},
         \A p \in accepted' : Had(KeyOf(p), p.image, Recent),
         \A r \in shown' : Had(r.key, r.image, Recent)
  PROVE  ImageInv'
<1>1. UNCHANGED <<procs, endedAt, imagesOf, scanNow>>
  BY DEF Machine
<1>2. ImagesOK'
  BY <1>1 DEF ImageInv, ImagesOK
<1>3. CacheTrue'
  BY <1>1 DEF ImageInv, CacheTrue, Had, Gone
<1>4. RowsTrue'
  BY <1>1 DEF RowsTrue, Had, Recent
<1>5. OneEntry'
  BY DEF ImageInv, OneEntry
<1> QED
  BY <1>2, <1>3, <1>4, <1>5 DEF ImageInv

LEMMA DiscoverImages ==
  ASSUME ScanInv, ImageInv, Discover
  PROVE  ImageInv'
<1>1. /\ UNCHANGED <<procs, endedAt, imagesOf, accepted, identities>> /\ scan' = "stat" /\ shown' = {} /\ scan = "idle"
      /\ scanNow' = scanNow + 1
  BY DEF Discover, Machine
<1>2. scanNow \in Nat
  BY ScanAssumption DEF ScanInv, ProcessTypeOK, ScanOK, ScanAssumption
<1>3. ImagesOK'
  <2>1. 0..scanNow \subseteq 0..scanNow'
    BY <1>1, <1>2
  <2>2. [key : InstanceKeys, image : Images \cup {NoImage}, until : 0..scanNow]
          \subseteq [key : InstanceKeys, image : Images \cup {NoImage}, until : 0..scanNow']
    BY <2>1
  <2> QED
    BY <1>1, <2>2 DEF ImageInv, ImagesOK
<1>4. CacheTrue'
  <2>1. \A i \in identities : i.at \in Int
    BY ScanAssumption DEF ScanInv, ProcessTypeOK, ScanOK, ScanAssumption
  <2>2. \A i \in identities : i.at <= scanNow'
    BY <1>1, <1>2, <2>1 DEF ImageInv, CacheTrue
  <2> QED
    BY <1>1, <2>2 DEF ImageInv, CacheTrue, Had, Gone
<1>5. RowsTrue'
  BY <1>1 DEF ImageInv, RowsTrue
<1>6. OneEntry'
  BY <1>1 DEF ImageInv, OneEntry
<1> QED
  BY <1>3, <1>4, <1>5, <1>6 DEF ImageInv

LEMMA ReadStatImages ==
  ASSUME ImageInv, ReadStat
  PROVE  ImageInv'
<1>1. /\ UNCHANGED <<Machine, scanNow, accepted, identities, shown>> /\ scan' \in {"stat", "exe"}
  BY DEF ReadStat
<1> QED
  BY <1>1, StillImages DEF ImageInv, RowsTrue

\* The image that is read is that of the process, or the process has ended; one from the cache is
\* that of the process not long ago.
LEMMA ReadIdentityImages ==
  ASSUME ScanInv, ImageInv, ReadIdentity
  PROVE  ImageInv'
<1>1. /\ scan = "exe" /\ scan' = "recheck"
      /\ UNCHANGED <<procs, endedAt, imagesOf, scanNow, accepted, shown>>
  BY DEF ReadIdentity, Machine
<1> DEFINE cachedOf(p) == {i \in identities : i.key = KeyOf(p)}
           live(p) == {q.image : q \in {q \in procs : q.pid = p.pid}}
           imageOf(p) == CHOOSE m \in IF live(p) = {} THEN {NoImage} ELSE live(p) : TRUE
<1>2. PICK p \in reading :
        IF \E i \in cachedOf(p) : scanNow - i.at < IdentityTime
        THEN reading' = {[p EXCEPT !.image = i.image] : i \in cachedOf(p)} /\ UNCHANGED identities
        ELSE /\ reading' = {[p EXCEPT !.image = imageOf(p)]}
             /\ identities' = (identities \ cachedOf(p)) \cup {[key |-> KeyOf(p), image |-> imageOf(p), at |-> scanNow]}
  BY DEF ReadIdentity, Cached
<1>3. /\ MachineOK /\ p \in Records /\ scanNow \in Nat /\ IdentityTime \in Nat \ {0}
      /\ identities \subseteq [key : InstanceKeys, image : Images \cup {NoImage}, at : 0..MaxScans]
  BY ScanAssumption DEF ScanInv, ProcessTypeOK, ScanOK, ScanAssumption
<1>4. \A m \in Images \cup {NoImage} :
        KeyOf([p EXCEPT !.image = m]) = KeyOf(p) /\ [p EXCEPT !.image = m].image = m
  BY <1>3, KeyOfChanged DEF Records
<1>5. KeyOf(p) \in KeysOf(procs) \/ Gone(KeyOf(p))
  BY DEF ScanInv, EndedBefore, KeysOf, Gone
<1>6. Recent \in Int /\ Recent <= scanNow /\ Recent' = Recent
  BY <1>1, <1>3 DEF Recent
<1>7. \A k, m, t : (Had(k, m, t)' <=> Had(k, m, t)) /\ (Gone(k)' <=> Gone(k))
  BY <1>1 DEF Had, Gone
<1>8. ImagesOK'
  BY <1>1 DEF ImageInv, ImagesOK
<1>11. CacheTrue' /\ (\A q \in reading' : Had(KeyOf(q), q.image, Recent) \/ Gone(KeyOf(q))) => RowsTrue' /\ CacheTrue'
  <2> SUFFICES ASSUME \A q \in reading' : Had(KeyOf(q), q.image, Recent) \/ Gone(KeyOf(q)) PROVE RowsTrue'
    OBVIOUS
  <2>1. (\A q \in accepted' : Had(KeyOf(q), q.image, Recent)) /\ (\A r \in shown' : Had(r.key, r.image, Recent)) /\ scan' = "recheck"
    BY <1>1 DEF ImageInv, RowsTrue
  <2> QED
    BY <1>6, <1>7, <2>1 DEF RowsTrue
<1>9. CASE \E i \in cachedOf(p) : scanNow - i.at < IdentityTime
  <2>1. reading' = {[p EXCEPT !.image = i.image] : i \in cachedOf(p)} /\ identities' = identities
    BY <1>2, <1>9
  <2>2. CacheTrue'
    BY <1>1, <1>7, <2>1 DEF ImageInv, CacheTrue
  <2>3. ASSUME NEW i \in cachedOf(p), scanNow - i.at < IdentityTime
        PROVE  Had(KeyOf(p), i.image, Recent) \/ Gone(KeyOf(p))
    <3>1. i \in identities /\ i.key = KeyOf(p) /\ i.at \in Int
      BY <1>3, ScanAssumption DEF ScanAssumption
    <3>2. i.at >= Recent
      BY <1>3, <2>3, <3>1 DEF Recent
    <3>3. Had(KeyOf(p), i.image, i.at) \/ Gone(KeyOf(p))
      BY <3>1 DEF ImageInv, CacheTrue
    <3>4. \A e \in imagesOf : e.until \in Int
      BY <1>3 DEF ImageInv, ImagesOK
    <3>5. Had(KeyOf(p), i.image, i.at) => Had(KeyOf(p), i.image, Recent)
      BY <1>6, <3>1, <3>2, <3>4 DEF Had
    <3> QED
      BY <3>3, <3>5
  <2>4. \A i, j \in cachedOf(p) : i = j
    BY DEF ImageInv, OneEntry
  <2>5. \A q \in reading' : Had(KeyOf(q), q.image, Recent) \/ Gone(KeyOf(q))
    <3>1. PICK i \in cachedOf(p) : scanNow - i.at < IdentityTime
      BY <1>9
    <3>2. reading' = {[p EXCEPT !.image = i.image]} /\ i.image \in Images \cup {NoImage}
      BY <1>3, <2>1, <2>4, <3>1
    <3>3. Had(KeyOf(p), i.image, Recent) \/ Gone(KeyOf(p))
      BY <2>3, <3>1
    <3> QED
      BY <1>4, <3>2, <3>3
  <2>6. OneEntry'
    BY <2>1 DEF ImageInv, OneEntry
  <2> QED
    BY <1>8, <1>11, <2>2, <2>5, <2>6 DEF ImageInv
<1>10. CASE ~ \E i \in cachedOf(p) : scanNow - i.at < IdentityTime
  <2>1. /\ reading' = {[p EXCEPT !.image = imageOf(p)]}
        /\ identities' = (identities \ cachedOf(p)) \cup {[key |-> KeyOf(p), image |-> imageOf(p), at |-> scanNow]}
    BY <1>2, <1>10
  <2>2. live(p) \subseteq Images \cup {NoImage}
    BY <1>3 DEF MachineOK, Records
  <2>3. imageOf(p) \in Images \cup {NoImage}
    BY <2>2
  <2>4. KeyOf(p) \in KeysOf(procs) => \E q \in procs : KeyOf(q) = KeyOf(p) /\ q.image = imageOf(p)
    <3> SUFFICES ASSUME KeyOf(p) \in KeysOf(procs) PROVE \E q \in procs : KeyOf(q) = KeyOf(p) /\ q.image = imageOf(p)
      OBVIOUS
    <3>1. PICK q \in procs : KeyOf(q) = KeyOf(p)
      BY DEF KeysOf
    <3>2. q.pid = p.pid
      BY <3>1 DEF KeyOf
    <3>3. \A o \in procs : o.pid = p.pid => o = q
      BY <1>3, <3>2 DEF MachineOK
    <3>4. live(p) = {q.image}
      BY <3>2, <3>3
    <3>5. imageOf(p) = q.image
      BY <3>4
    <3> QED
      BY <3>1, <3>5
  <2> HIDE DEF imageOf
  <2>5. \A t : KeyOf(p) \in KeysOf(procs) => Had(KeyOf(p), imageOf(p), t)
    BY <2>4 DEF Had
  <2>6. \A q \in reading' : Had(KeyOf(q), q.image, Recent) \/ Gone(KeyOf(q))
    BY <1>4, <1>5, <2>1, <2>3, <2>5
  <2>7. CacheTrue'
    <3> SUFFICES ASSUME NEW i \in identities' PROVE i.at <= scanNow /\ (Had(i.key, i.image, i.at) \/ Gone(i.key))
      BY <1>1, <1>7 DEF CacheTrue
    <3>1. CASE i \in identities
      BY <3>1 DEF ImageInv, CacheTrue
    <3>2. CASE i = [key |-> KeyOf(p), image |-> imageOf(p), at |-> scanNow]
      <4>1. i.key = KeyOf(p) /\ i.image = imageOf(p) /\ i.at = scanNow
        BY <3>2
      <4>2. Had(i.key, i.image, i.at) \/ Gone(i.key)
        BY <1>5, <2>5, <4>1
      <4> QED
        BY <1>3, <4>1, <4>2
    <3> QED
      BY <2>1, <3>1, <3>2
  <2>8. OneEntry'
    BY <2>1 DEF ImageInv, OneEntry
  <2> QED
    BY <1>8, <1>11, <2>6, <2>7, <2>8 DEF ImageInv
<1> QED
  BY <1>9, <1>10

LEMMA RecheckImages ==
  ASSUME ScanInv, ImageInv, Recheck
  PROVE  ImageInv'
<1>1. /\ scan = "recheck" /\ scan' = "stat" /\ accepted' = accepted \cup {p \in reading : KeyOf(p) \in KeysOf(procs)}
      /\ UNCHANGED <<Machine, scanNow, identities, shown>>
  BY DEF Recheck, SameProcess
<1>2. \A p \in accepted' : Had(KeyOf(p), p.image, Recent)
  BY <1>1 DEF ImageInv, RowsTrue, Gone
<1> QED
  BY <1>1, <1>2, StillImages DEF ImageInv, RowsTrue

LEMMA FinishImages ==
  ASSUME ImageInv, Finish
  PROVE  ImageInv'
<1>1. /\ scan' = "idle" /\ accepted' = {} /\ UNCHANGED <<Machine, scanNow>> /\ identities' \subseteq identities
  BY DEF Finish
<1>2. \A r \in shown' : \E p \in accepted : r.key = KeyOf(p) /\ r.image = p.image
  <2>1. PICK last \in {0} \cup PidsOf(accepted) : shown' = Grouped(accepted, {p \in accepted : p.pid <= last})
    BY DEF Finish
  <2>2. \A rows, intime, r : r \in Grouped(rows, intime) => \E p \in intime : r.key = KeyOf(p) /\ r.image = p.image
    <3> SUFFICES ASSUME NEW rows, NEW intime, NEW r \in Grouped(rows, intime)
                 PROVE  \E p \in intime : r.key = KeyOf(p) /\ r.image = p.image
      OBVIOUS
    <3>1. PICK p \in intime :
            r = [key |-> KeyOf(p), image |-> p.image, group |-> GroupIn(p, rows),
                 parents |-> KeysOf(ParentIn(p, rows) \cap intime)]
      BY DEF Grouped
    <3> QED
      BY <3>1
  <2> QED
    BY <2>1, <2>2
<1>3. \A r \in shown' : Had(r.key, r.image, Recent)
  BY <1>2 DEF ImageInv, RowsTrue
<1> QED
  BY <1>1, <1>3, StillImages

LEMMA StepImages == ScanInv /\ ImageInv /\ [ProcessNext]_processVars => ImageInv'
<1> SUFFICES ASSUME ScanInv, ImageInv, [ProcessNext]_processVars PROVE ImageInv'
  OBVIOUS
<1>1. CASE UNCHANGED processVars
  BY <1>1 DEF processVars, scanVars, ImageInv, ImagesOK, OneEntry, CacheTrue, RowsTrue, Had, Gone, Recent
<1> QED
  BY <1>1, DiscoverImages, ReadStatImages, ReadIdentityImages, RecheckImages, FinishImages, MachineImages DEF ProcessNext

LEMMA AlwaysImages == ProcessSpec => []ImageInv
<1> QED
  BY InitImages, StepImages, AlwaysScanInv, PTL DEF ProcessSpec

\* Recent is the oldest time an image in the cache may have.
LEMMA ImageInvShows == ScanInv /\ ImageInv => RowIsOneProcess
<1> SUFFICES ASSUME ScanInv, ImageInv, NEW r \in shown
             PROVE  \/ \E p \in procs : KeyOf(p) = r.key /\ p.image = r.image
                    \/ \E i \in imagesOf : i.key = r.key /\ i.image = r.image /\ scanNow - i.until < IdentityTime
  BY DEF RowIsOneProcess
<1>1. Had(r.key, r.image, Recent)
  BY DEF ImageInv, RowsTrue
<1>2. scanNow \in Nat /\ IdentityTime \in Nat /\ \A i \in imagesOf : i.until \in Nat
  BY ScanAssumption DEF ScanInv, ProcessTypeOK, ScanOK, ImageInv, ImagesOK, ScanAssumption
<1>3. \A i \in imagesOf : i.until >= Recent => scanNow - i.until < IdentityTime
  BY <1>2 DEF Recent
<1> QED
  BY <1>1, <1>3 DEF Had

\* A row says of a process what was true of it and of no other, not longer ago than the life of
\* the cache.
THEOREM RowsAreReal == ProcessSpec => []RowIsOneProcess
<1> QED
  BY AlwaysScanInv, AlwaysImages, ImageInvShows, PTL

-----------------------------------------------------------------------------
(* What a row says of a process: its parent. *)

\* A parent is there, another process, and no zombie.
ParentsLive ==
  \A p \in procs : p.ppid # 0 =>
    p.ppid # p.pid /\ \E q \in procs : q.pid = p.ppid /\ q.image # NoImage /\ <<KeyOf(p), KeyOf(q)>> \in parentsOf

StartedAfter == \A p \in procs : endedAt[p.pid] < p.start

\* A parent that is gone ended after its children started.
ParentsOutlast ==
  \A e \in parentsOf : e[1][2] <= ticks /\ (e[2] \in KeysOf(procs) \/ e[1][2] <= endedAt[e[2][1]])

Known == KeysOf(procs) \cup KeysOf(reading) \cup KeysOf(accepted)

\* Who has a parent's pid after it started after the parent's children.
LaterIsLater ==
  \A e \in parentsOf, k \in Known : k[1] = e[2][1] /\ e[2][2] < k[2] => e[1][2] < k[2]

\* What was read of a parent was true of one.
ParentsRead ==
  \A p \in reading \cup accepted : p.ppid # 0 => \E e \in parentsOf : e[1] = KeyOf(p) /\ e[2][1] = p.ppid

AcceptedLived == \A k \in KeysOf(accepted) : k \in KeysOf(procs) \/ Ended(k)

ParentInv == ParentsLive /\ StartedAfter /\ ParentsOutlast /\ LaterIsLater /\ ParentsRead /\ AcceptedLived

LEMMA InitParents == ProcessInit => ParentInv
<1> SUFFICES ASSUME ProcessInit PROVE ParentInv
  OBVIOUS
<1>1. /\ procs \subseteq [pid : Pids, start : {0}, ppid : Pids \cup {0}, image : Images]
      /\ \A p, q \in procs : p.pid = q.pid => p = q
      /\ \A p \in procs : p.ppid # 0 => \E q \in procs : q.pid = p.ppid /\ q.ppid = 0
      /\ parentsOf = {<< <<p.pid, 0>>, <<p.ppid, 0>> >> : p \in {p \in procs : p.ppid # 0}}
      /\ ticks = 0 /\ endedAt = [i \in Pids |-> -1] /\ reading = {} /\ accepted = {}
  BY DEF ProcessInit
<1>2. \A p \in procs : KeyOf(p) = <<p.pid, 0>> /\ p.start = 0 /\ p.pid \in Pids /\ p.image # NoImage
  BY <1>1, ScanAssumption DEF KeyOf, ScanAssumption
<1>3. ParentsLive
  BY <1>1, <1>2 DEF ParentsLive
<1>4. StartedAfter
  BY <1>1, <1>2 DEF StartedAfter
<1>5. ASSUME NEW e \in parentsOf
      PROVE  /\ e[1][2] = 0 /\ e[2][2] = 0 /\ e[2] \in KeysOf(procs)
  <2>1. PICK p \in procs : p.ppid # 0 /\ e = << <<p.pid, 0>>, <<p.ppid, 0>> >>
    BY <1>1
  <2>2. PICK q \in procs : q.pid = p.ppid
    BY <1>1, <2>1
  <2> QED
    BY <1>2, <2>1, <2>2 DEF KeysOf
<1>6. ParentsOutlast
  BY <1>1, <1>5 DEF ParentsOutlast
<1>7. LaterIsLater
  <2>1. \A k \in Known : k[2] = 0
    BY <1>1, <1>2 DEF Known, KeysOf
  <2> QED
    BY <1>5, <2>1 DEF LaterIsLater
<1>8. ParentsRead /\ AcceptedLived
  BY <1>1 DEF ParentsRead, AcceptedLived, KeysOf
<1> QED
  BY <1>3, <1>4, <1>6, <1>7, <1>8 DEF ParentInv

\* What is read next is in the table or was read before.
ReadsKept ==
  /\ \A p \in reading' : \E q \in procs \cup reading : KeyOf(p) = KeyOf(q) /\ p.ppid = q.ppid
  /\ \A p \in accepted' : p \in accepted \/ (p \in reading /\ KeyOf(p) \in KeysOf(procs))

LEMMA ScanParents ==
  ASSUME ParentInv, UNCHANGED Machine,
         scanNow' = scanNow \/ accepted' = {},
         ReadsKept
  PROVE  ParentInv'
<1>1. UNCHANGED <<procs, ticks, endedAt, imagesOf, parentsOf>>
  BY DEF Machine
<1>2. ParentsLive' /\ StartedAfter' /\ ParentsOutlast'
  BY <1>1 DEF ParentInv, ParentsLive, StartedAfter, ParentsOutlast
<1>3. KeysOf(reading') \subseteq KeysOf(procs) \cup KeysOf(reading) /\ KeysOf(accepted') \subseteq KeysOf(reading) \cup KeysOf(accepted)
  BY DEF KeysOf, ReadsKept
<1>4. Known' \subseteq Known
  BY <1>1, <1>3 DEF Known
<1>5. LaterIsLater'
  BY <1>1, <1>4 DEF ParentInv, LaterIsLater
<1>6. ParentsRead'
  <2> SUFFICES ASSUME NEW p \in reading' \cup accepted', p.ppid # 0 PROVE \E e \in parentsOf : e[1] = KeyOf(p) /\ e[2][1] = p.ppid
    BY <1>1 DEF ParentsRead
  <2>1. PICK q \in procs \cup reading \cup accepted : KeyOf(p) = KeyOf(q) /\ p.ppid = q.ppid
    BY DEF ReadsKept
  <2>2. CASE q \in reading \cup accepted
    BY <2>1, <2>2 DEF ParentInv, ParentsRead
  <2>3. CASE q \in procs
    <3>1. PICK u \in procs : u.pid = q.ppid /\ <<KeyOf(q), KeyOf(u)>> \in parentsOf
      BY <2>1, <2>3 DEF ParentInv, ParentsLive
    <3> QED
      BY <2>1, <3>1 DEF KeyOf
  <2> QED
    BY <2>1, <2>2, <2>3
<1>7. AcceptedLived'
  <2>1. CASE accepted' = {}
    BY <2>1 DEF AcceptedLived, KeysOf
  <2>2. CASE scanNow' = scanNow
    <3>1. \A k : Ended(k)' <=> Ended(k)
      BY <1>1, <2>2 DEF Ended
    <3>2. \A p \in accepted' : KeyOf(p) \in KeysOf(procs) \/ Ended(KeyOf(p))
      BY DEF ParentInv, AcceptedLived, KeysOf, ReadsKept
    <3> QED
      BY <1>1, <3>1, <3>2 DEF AcceptedLived, KeysOf
  <2> QED
    BY <2>1, <2>2
<1> QED
  BY <1>2, <1>5, <1>6, <1>7 DEF ParentInv

LEMMA ScanStepParents ==
  ASSUME ScanInv, ImageInv, ParentInv, Discover \/ ReadStat \/ ReadIdentity \/ Recheck \/ Finish
  PROVE  ParentInv'
<1>1. CASE Discover
  <2>1. UNCHANGED Machine /\ reading' = reading /\ accepted' = accepted /\ scan = "idle"
    BY <1>1 DEF Discover
  <2>2. accepted' = {}
    BY <2>1 DEF ImageInv, RowsTrue
  <2>9. ReadsKept
    BY <2>1, <2>2 DEF ReadsKept
  <2> QED
    BY <2>1, <2>2, <2>9, ScanParents
<1>2. CASE ReadStat
  <2>1. UNCHANGED <<Machine, scanNow, accepted>> /\ reading' \subseteq procs \cup reading
    BY <1>2 DEF ReadStat
  <2>9. ReadsKept
    BY <2>1 DEF ReadsKept
  <2> QED
    BY <2>1, <2>9, ScanParents
<1>3. CASE ReadIdentity
  <2>1. UNCHANGED <<Machine, scanNow, accepted>>
    BY <1>3 DEF ReadIdentity
  <2>2. \A p \in reading' : \E q \in reading : \E m : p = [q EXCEPT !.image = m]
    BY <1>3 DEF ReadIdentity
  <2>3. \A p \in reading' : \E q \in reading : KeyOf(p) = KeyOf(q) /\ p.ppid = q.ppid
    BY <2>2 DEF ScanInv, ProcessTypeOK, ScanOK, Records, KeyOf
  <2>9. ReadsKept
    BY <2>1, <2>3 DEF ReadsKept
  <2> QED
    BY <2>1, <2>9, ScanParents
<1>4. CASE Recheck
  <2>1. UNCHANGED <<Machine, scanNow>> /\ reading' = {} /\ accepted' = accepted \cup {p \in reading : KeyOf(p) \in KeysOf(procs)}
    BY <1>4 DEF Recheck, SameProcess
  <2>9. ReadsKept
    BY <2>1 DEF ReadsKept
  <2> QED
    BY <2>1, <2>9, ScanParents
<1>5. CASE Finish
  <2>1. UNCHANGED <<Machine, scanNow, reading>> /\ accepted' = {}
    BY <1>5 DEF Finish
  <2>9. ReadsKept
    BY <2>1 DEF ReadsKept
  <2> QED
    BY <2>1, <2>9, ScanParents
<1> QED
  BY <1>1, <1>2, <1>3, <1>4, <1>5

\* What of ParentInv does not concern the reads.
TableParents == ParentsLive /\ StartedAfter /\ ParentsOutlast /\ LaterIsLater

\* What has ended is remembered.
EndsKept ==
  /\ parentsOf \subseteq parentsOf' /\ imagesOf \subseteq imagesOf'
  /\ \A k \in KeysOf(procs) \ KeysOf(procs') : Ended(k)'

LEMMA MachineParents ==
  ASSUME ParentInv, UNCHANGED scanVars, TableParents', EndsKept
  PROVE  ParentInv'
<1>1. UNCHANGED <<scanNow, reading, accepted>> /\ KeysOf(accepted') = KeysOf(accepted)
  BY DEF scanVars, KeysOf
<1>2. ParentsRead'
  BY <1>1 DEF ParentInv, ParentsRead, EndsKept, KeyOf
<1>3. \A k : Ended(k) => Ended(k)'
  BY <1>1 DEF Ended, EndsKept
<1>4. AcceptedLived'
  BY <1>1, <1>3 DEF ParentInv, AcceptedLived, EndsKept
<1> QED
  BY <1>2, <1>4 DEF ParentInv, TableParents

\* Processes that change and keep their keys and their parents, or lose their parents.
LEMMA ChangedParents ==
  ASSUME MachineOK, ParentInv, UNCHANGED <<scanVars, ticks, endedAt, parentsOf>>, imagesOf \subseteq imagesOf',
         NEW f, procs' = {f[q] : q \in procs}, \A q \in procs : KeyOf(f[q]) = KeyOf(q) /\ f[q].pid = q.pid,
         \A q \in procs : f[q].ppid # 0 =>
            f[q].ppid = q.ppid /\ \A u \in procs : u.pid = q.ppid /\ u.image # NoImage => f[u].image # NoImage
  PROVE  ParentInv'
<1>1. KeysOf(procs') = KeysOf(procs) /\ UNCHANGED <<reading, accepted>>
  BY DEF KeysOf, scanVars
<1>2. ParentsLive'
  <2> SUFFICES ASSUME NEW q \in procs, f[q].ppid # 0
               PROVE  f[q].ppid # f[q].pid /\ \E u \in procs' : u.pid = f[q].ppid /\ u.image # NoImage /\ <<KeyOf(f[q]), KeyOf(u)>> \in parentsOf'
    <3>1. \A a \in procs' : \E q \in procs : a = f[q]
      OBVIOUS
    <3>2. \A a \in procs' : a.ppid # 0 => a.ppid # a.pid /\ \E u \in procs' : u.pid = a.ppid /\ u.image # NoImage /\ <<KeyOf(a), KeyOf(u)>> \in parentsOf'
      BY <3>1
    <3> QED
      BY <3>2 DEF ParentsLive, KeyOf
  <2>1. PICK u \in procs : u.pid = q.ppid /\ u.image # NoImage /\ <<KeyOf(q), KeyOf(u)>> \in parentsOf
    BY DEF ParentInv, ParentsLive
  <2>2. f[u] \in procs' /\ f[u].image # NoImage /\ f[u].pid = f[q].ppid
    BY <2>1
  <2>3. <<KeyOf(f[q]), KeyOf(f[u])>> \in parentsOf'
    BY <2>1
  <2>4. f[q].ppid # f[q].pid
    BY DEF ParentInv, ParentsLive
  <2> QED
    BY <2>2, <2>3, <2>4
<1>3. StartedAfter'
  BY DEF ParentInv, StartedAfter, KeyOf
<1>4. ParentsOutlast'
  BY <1>1 DEF ParentInv, ParentsOutlast
<1>5. Known' = Known
  BY <1>1 DEF Known, KeysOf
<1>6. LaterIsLater'
  BY <1>5 DEF ParentInv, LaterIsLater
<1> QED
  BY <1>1, <1>2, <1>3, <1>4, <1>6, MachineParents DEF TableParents, EndsKept

LEMMA ExecsParents ==
  ASSUME MachineOK, ParentInv, NEW p \in procs, NEW image \in Images, Execs(p, image)
  PROVE  ParentInv'
<1> DEFINE f == [q \in procs |-> IF q = p THEN [q EXCEPT !.image = image] ELSE q]
<1>1. \A q \in procs : KeyOf(f[q]) = KeyOf(q) /\ f[q].pid = q.pid
  BY KeyOfChanged DEF MachineOK, Records
<1>2. procs' = {f[q] : q \in procs} /\ UNCHANGED <<ticks, endedAt, parentsOf>> /\ imagesOf \subseteq imagesOf'
  BY DEF Execs, ImageEnds
<1>3. UNCHANGED scanVars
  BY DEF Execs, Event
<1>4. \A q \in procs : f[q].ppid = q.ppid /\ (q.image # NoImage => f[q].image # NoImage)
  BY ScanAssumption DEF MachineOK, Records, ScanAssumption
<1> HIDE DEF f
<1>5. \A q \in procs : f[q].ppid # 0 =>
        f[q].ppid = q.ppid /\ \A u \in procs : u.pid = q.ppid /\ u.image # NoImage => f[u].image # NoImage
  BY <1>4
<1> QED
  BY <1>1, <1>2, <1>3, <1>5, ChangedParents

LEMMA ZombieParents ==
  ASSUME MachineOK, ParentInv, NEW p \in procs, BecomesZombie(p)
  PROVE  ParentInv'
<1> DEFINE f == [q \in procs |-> IF q = p THEN [p EXCEPT !.image = NoImage] ELSE IF q.ppid = p.pid THEN [q EXCEPT !.ppid = 0] ELSE q]
<1>1. \A q \in procs : KeyOf(f[q]) = KeyOf(q) /\ f[q].pid = q.pid
  BY KeyOfChanged, KeyOfOrphan DEF MachineOK, Records
<1>2. procs' = {f[q] : q \in procs} /\ UNCHANGED <<ticks, endedAt, parentsOf>> /\ imagesOf \subseteq imagesOf'
  BY DEF BecomesZombie, ImageEnds
<1>3. UNCHANGED scanVars
  BY DEF BecomesZombie, Event
<1>4. \A q \in procs : q # p => f[q].image = q.image
  BY DEF MachineOK, Records
<1>5. \A q \in procs : f[q].ppid # 0 => f[q].ppid = q.ppid
  BY DEF MachineOK, Records
<1>7. \A q \in procs : q # p /\ f[q].ppid # 0 => q.ppid # p.pid
  BY DEF MachineOK, Records
<1>8. p.ppid # 0 => p.ppid # p.pid
  BY DEF ParentInv, ParentsLive
<1> HIDE DEF f
<1>9. ASSUME NEW q \in procs, f[q].ppid # 0
      PROVE  f[q].ppid = q.ppid /\ \A u \in procs : u.pid = q.ppid /\ u.image # NoImage => f[u].image # NoImage
  BY <1>4, <1>5, <1>7, <1>8, <1>9
<1> QED
  BY <1>1, <1>2, <1>3, <1>9, ChangedParents

LEMMA ReapedParents ==
  ASSUME MachineOK, ParentInv, NEW p \in procs, Reaped(p)
  PROVE  ParentInv'
<1>1. /\ p.image = NoImage /\ procs' = procs \ {p} /\ endedAt' = [endedAt EXCEPT ![p.pid] = ticks]
      /\ UNCHANGED <<ticks, parentsOf, scanVars, scanNow, reading, accepted>>
      /\ imagesOf' = imagesOf \cup {[key |-> KeyOf(p), image |-> p.image, until |-> scanNow]}
  BY DEF Reaped, ImageEnds, scanVars
<1>2. /\ procs \subseteq Records /\ \A q, u \in procs : q.pid = u.pid => q = u
      /\ endedAt \in [Pids -> Int] /\ ticks \in Int /\ parentsOf \subseteq InstanceKeys \X InstanceKeys
      /\ \A i \in Pids : endedAt[i] <= ticks
  BY ScanAssumption DEF MachineOK, ScanAssumption
<1>3. \A q \in procs : q.pid \in Pids /\ KeyOf(q)[1] = q.pid
  BY <1>2, KeyTyped DEF Records
<1>4. ParentsLive'
  BY <1>1 DEF ParentInv, ParentsLive, KeyOf
<1>5. StartedAfter'
  <2>1. \A q \in procs' : q.pid # p.pid /\ q \in procs
    BY <1>1, <1>2
  <2>2. \A q \in procs' : endedAt'[q.pid] = endedAt[q.pid]
    BY <1>1, <1>2, <1>3, <2>1
  <2> QED
    BY <2>1, <2>2 DEF ParentInv, StartedAfter
<1>6. \A k \in KeysOf(procs) : k \in KeysOf(procs') \/ k = KeyOf(p)
  BY <1>1 DEF KeysOf
<1>7. ParentsOutlast'
  <2> SUFFICES ASSUME NEW e \in parentsOf PROVE e[1][2] <= ticks /\ (e[2] \in KeysOf(procs') \/ e[1][2] <= endedAt'[e[2][1]])
    BY <1>1 DEF ParentsOutlast
  <2>1. e[1][2] <= ticks /\ (e[2] \in KeysOf(procs) \/ e[1][2] <= endedAt[e[2][1]]) /\ e[2] \in InstanceKeys /\ e[1] \in InstanceKeys
    BY <1>2 DEF ParentInv, ParentsOutlast
  <2>2. e[2][1] \in Pids /\ e[1][2] \in Int
    BY <2>1, ScanAssumption DEF InstanceKeys, ScanAssumption
  <2>3. CASE e[2][1] = p.pid
    BY <1>1, <1>2, <1>3, <2>1, <2>3
  <2>4. CASE e[2][1] # p.pid
    <3>1. endedAt'[e[2][1]] = endedAt[e[2][1]] /\ e[2] # KeyOf(p)
      BY <1>1, <1>2, <1>3, <2>2, <2>4
    <3> QED
      BY <1>6, <2>1, <3>1
  <2> QED
    BY <2>3, <2>4
<1>8. LaterIsLater'
  <2>1. Known' \subseteq Known
    BY <1>1 DEF Known, KeysOf
  <2> QED
    BY <1>1, <2>1 DEF ParentInv, LaterIsLater
<1>9. EndsKept
  <2> DEFINE i == [key |-> KeyOf(p), image |-> p.image, until |-> scanNow]
  <2>1. i \in imagesOf' /\ i.key = KeyOf(p) /\ i.image = NoImage /\ i.until = scanNow'
    BY <1>1
  <2> HIDE DEF i
  <2>2. Ended(KeyOf(p))'
    BY <2>1 DEF Ended, KeyOf
  <2>3. \A k \in KeysOf(procs) \ KeysOf(procs') : Ended(k)'
    BY <1>6, <2>1 DEF Ended
  <2> QED
    BY <1>1, <2>3 DEF EndsKept
<1> QED
  BY <1>1, <1>4, <1>5, <1>7, <1>8, <1>9, MachineParents DEF TableParents

LEMMA ForksParents ==
  ASSUME ScanInv, ParentInv, NEW pid \in Pids, NEW parents \in SUBSET procs, \A p, q \in parents : p = q, Forks(pid, parents)
  PROVE  ParentInv'
<1>1. MachineOK /\ EndedBefore
  BY DEF ScanInv, ProcessTypeOK
<1>2. /\ MachineOK' /\ UNCHANGED <<endedAt, scanVars, reading, accepted>>
      /\ KeysOf(procs') = KeysOf(procs) \cup {<<pid, ticks'>>}
      /\ pid \notin PidsOf(procs) /\ endedAt[pid] < ticks'
  BY <1>1, ForksKeeps DEF scanVars
<1>3. /\ procs \subseteq Records /\ procs' \subseteq Records /\ \A q, u \in procs : q.pid = u.pid => q = u
      /\ endedAt \in [Pids -> Int] /\ ticks \in Int /\ ticks' \in Int /\ parentsOf \subseteq InstanceKeys \X InstanceKeys
      /\ \A p \in procs : p.start <= ticks
  BY <1>1, <1>2, ScanAssumption DEF MachineOK, ScanAssumption
<1>4. PICK image, ppid :
        /\ image \in IF parents = {} THEN Images ELSE {p.image : p \in parents} \ {NoImage}
        /\ ppid \in IF parents = {} THEN {0} ELSE PidsOf(parents)
        /\ procs' = procs \cup {[pid |-> pid, start |-> ticks', ppid |-> ppid, image |-> image]}
  BY DEF Forks
<1>5. /\ parentsOf' = parentsOf \cup {<< <<pid, ticks'>>, KeyOf(p)>> : p \in parents} /\ imagesOf' = imagesOf
      /\ ticks <= ticks'
  BY <1>3, ScanAssumption DEF Forks, ScanAssumption, MachineOK
<1> DEFINE new == [pid |-> pid, start |-> ticks', ppid |-> ppid, image |-> image]
<1>6. new.pid = pid /\ new.start = ticks' /\ new.ppid = ppid /\ KeyOf(new) = <<pid, ticks'>>
      /\ procs' = procs \cup {new}
  BY <1>4 DEF KeyOf
<1> HIDE DEF new
<1>7. \A q \in procs : q.pid \in Pids /\ KeyOf(q)[1] = q.pid /\ KeyOf(q)[2] = q.start /\ q.pid # pid
  BY <1>2, <1>3, KeyTyped DEF Records, PidsOf
<1>8. ParentsLive'
  <2>1. ASSUME new.ppid # 0
        PROVE new.ppid # new.pid /\ \E q \in procs' : q.pid = new.ppid /\ q.image # NoImage /\ <<KeyOf(new), KeyOf(q)>> \in parentsOf'
    <3>1. PICK q \in parents : q.pid = ppid
      BY <1>4, <1>6, <2>1 DEF PidsOf
    <3>2. q.image # NoImage
      BY <1>4, <3>1
    <3> QED
      BY <1>5, <1>6, <1>7, <3>1, <3>2
  <2> QED
    BY <1>5, <1>6, <2>1 DEF ParentInv, ParentsLive, KeyOf
<1>9. StartedAfter'
  BY <1>2, <1>6 DEF ParentInv, StartedAfter
<1>10. ASSUME NEW e \in parentsOf', e \notin parentsOf
       PROVE  \E p \in procs : e = << <<pid, ticks'>>, KeyOf(p)>>
  BY <1>5, <1>10
<1>11. ParentsOutlast'
  <2> SUFFICES ASSUME NEW e \in parentsOf' PROVE e[1][2] <= ticks' /\ (e[2] \in KeysOf(procs') \/ e[1][2] <= endedAt[e[2][1]])
    BY <1>2 DEF ParentsOutlast
  <2>1. CASE e \in parentsOf
    <3>1. e[1][2] \in Int
      BY <1>3, <2>1, ScanAssumption DEF InstanceKeys, ScanAssumption
    <3>2. e[1][2] <= ticks'
      BY <1>3, <1>5, <2>1, <3>1 DEF ParentInv, ParentsOutlast
    <3> QED
      BY <1>2, <2>1, <3>2 DEF ParentInv, ParentsOutlast
  <2>2. CASE e \notin parentsOf
    <3>1. PICK p \in procs : e = << <<pid, ticks'>>, KeyOf(p)>>
      BY <1>10, <2>2
    <3>2. KeyOf(p) \in KeysOf(procs')
      BY <1>2 DEF KeysOf
    <3> QED
      BY <1>3, <3>1, <3>2
  <2> QED
    BY <2>1, <2>2
<1>12. LaterIsLater'
  <2>1. Known' = Known \cup {<<pid, ticks'>>}
    BY <1>2 DEF Known, KeysOf
  <2> SUFFICES ASSUME NEW e \in parentsOf', NEW k \in Known', k[1] = e[2][1], e[2][2] < k[2] PROVE e[1][2] < k[2]
    BY DEF LaterIsLater
  <2>2. CASE e \in parentsOf /\ k \in Known
    BY <2>2 DEF ParentInv, LaterIsLater
  <2>3. CASE e \in parentsOf /\ k = <<pid, ticks'>>
    <3>1. e[2] \notin KeysOf(procs)
      BY <1>7, <2>3 DEF KeysOf
    <3>2. e[1][2] <= endedAt[pid] /\ e[1][2] \in Int
      BY <1>3, <2>3, <3>1, ScanAssumption DEF ParentInv, ParentsOutlast, InstanceKeys, ScanAssumption
    <3> QED
      BY <1>2, <1>3, <2>3, <3>2
  <2>4. CASE e \notin parentsOf
    <3>1. PICK p \in procs : e = << <<pid, ticks'>>, KeyOf(p)>>
      BY <1>10, <2>4
    <3>2. k[1] = p.pid /\ p.start < k[2]
      BY <1>7, <3>1
    <3>3. k # <<pid, ticks'>>
      BY <1>7, <3>2
    <3>4. k \notin KeysOf(procs)
      <4>1. ASSUME NEW q \in procs, k = KeyOf(q) PROVE FALSE
        <5>1. q = p
          BY <1>3, <1>7, <3>2, <4>1
        <5>2. p.start \in Int
          BY <1>3, ScanAssumption DEF Records, ScanAssumption
        <5> QED
          BY <1>7, <3>2, <4>1, <5>1, <5>2
      <4> QED
        BY <4>1 DEF KeysOf
    <3>5. k \in KeysOf(reading) \cup KeysOf(accepted)
      BY <2>1, <3>3, <3>4 DEF Known
    <3>6. k[2] <= endedAt[p.pid] /\ k \in InstanceKeys
      BY <1>1, <3>2, <3>4, <3>5, KeysTyped DEF EndedBefore, ScanInv, ProcessTypeOK, ScanOK
    <3>7. endedAt[p.pid] < p.start /\ p.start \in Int /\ endedAt[p.pid] \in Int /\ k[2] \in Int
      BY <1>3, <1>7, <3>6, ScanAssumption DEF ParentInv, StartedAfter, Records, InstanceKeys, ScanAssumption
    <3> QED
      BY <3>2, <3>6, <3>7
  <2> QED
    BY <2>1, <2>2, <2>3, <2>4
<1>13. EndsKept
  BY <1>2, <1>5 DEF EndsKept
<1> QED
  BY <1>2, <1>8, <1>9, <1>11, <1>12, <1>13, MachineParents DEF TableParents

LEMMA StepParents == ScanInv /\ ImageInv /\ ParentInv /\ [ProcessNext]_processVars => ParentInv'
<1> SUFFICES ASSUME ScanInv, ImageInv, ParentInv, [ProcessNext]_processVars PROVE ParentInv'
  OBVIOUS
<1>1. MachineOK
  BY DEF ScanInv, ProcessTypeOK
<1>2. CASE UNCHANGED processVars
  BY <1>2 DEF processVars, scanVars, ParentInv, ParentsLive, StartedAfter, ParentsOutlast, LaterIsLater, Known,
              ParentsRead, AcceptedLived, Ended, KeysOf
<1>3. ASSUME NEW pid \in Pids, Forks(pid, {}) PROVE ParentInv'
  BY <1>3, ForksParents
<1>4. ASSUME NEW pid \in Pids, NEW p \in procs, Forks(pid, {p}) PROVE ParentInv'
  BY <1>4, ForksParents
<1>5. ASSUME NEW p \in procs, BecomesZombie(p) PROVE ParentInv'
  BY <1>1, <1>5, ZombieParents
<1>6. ASSUME NEW p \in procs, Reaped(p) PROVE ParentInv'
  BY <1>1, <1>6, ReapedParents
<1>7. ASSUME NEW p \in procs, NEW image \in Images, Execs(p, image) PROVE ParentInv'
  BY <1>1, <1>7, ExecsParents
<1> QED
  BY <1>2, <1>3, <1>4, <1>5, <1>6, <1>7, ScanStepParents DEF ProcessNext

LEMMA AlwaysParents == ProcessSpec => []ParentInv
<1> QED
  BY InitParents, StepParents, AlwaysScanInv, AlwaysImages, PTL DEF ProcessSpec

-----------------------------------------------------------------------------
(* Parents and groups that are shown. *)

\* A set with the parents of its members.
HasParents(S) == \A e \in parentsOf : e[1] \in S => e[2] \in S

LEMMA AncestorsAre ==
  ASSUME NEW k, NEW a
  PROVE  a \in Ancestors(k) <=> a \in InstanceKeys /\ \A S \in SUBSET InstanceKeys : k \in S /\ HasParents(S) => a \in S
BY DEF Ancestors, HasParents

LEMMA OwnAncestor == ASSUME NEW k \in InstanceKeys PROVE k \in Ancestors(k)
BY DEF Ancestors

\* The ancestors of a parent are ancestors.
LEMMA ParentsAncestors ==
  ASSUME NEW c, NEW k, <<c, k>> \in parentsOf
  PROVE  Ancestors(k) \subseteq Ancestors(c)
<1> SUFFICES ASSUME NEW a \in Ancestors(k) PROVE a \in Ancestors(c)
  OBVIOUS
<1>1. a \in InstanceKeys /\ \A S \in SUBSET InstanceKeys : k \in S /\ HasParents(S) => a \in S
  BY AncestorsAre
<1>2. ASSUME NEW S \in SUBSET InstanceKeys, c \in S, HasParents(S) PROVE a \in S
  BY <1>1, <1>2 DEF HasParents
<1> QED
  BY <1>1, <1>2, AncestorsAre

\* A row that was read as the parent is the parent, or is mistaken for it.
LEMMA ReadParents ==
  ASSUME ScanInv, ParentInv, NEW p \in accepted, NEW q \in ParentIn(p, accepted)
  PROVE  <<KeyOf(p), KeyOf(q)>> \in parentsOf \/ Mistaken(KeyOf(p), KeyOf(q))
<1>1. /\ MachineOK /\ accepted \subseteq Records
      /\ q \in accepted /\ q.pid = p.ppid /\ q.start <= p.start
  BY DEF ScanInv, ProcessTypeOK, ScanOK, ParentIn
<1>2. /\ KeyOf(p)[1] = p.pid /\ KeyOf(p)[2] = p.start /\ KeyOf(q)[1] = q.pid /\ KeyOf(q)[2] = q.start
      /\ KeyOf(p) = <<p.pid, p.start>> /\ KeyOf(q) = <<q.pid, q.start>>
      /\ p.start \in Int /\ q.start \in Int /\ q.pid \in Pids
  BY <1>1, KeyTyped, ScanAssumption DEF Records, ScanAssumption, KeyOf
<1>3. p.ppid # 0
  BY <1>1, <1>2, ScanAssumption DEF ScanAssumption
<1>4. PICK e \in parentsOf : e[1] = KeyOf(p) /\ e[2][1] = p.ppid
  BY <1>3 DEF ParentInv, ParentsRead
<1>5. e \in InstanceKeys \X InstanceKeys /\ e[2][2] \in Int /\ e = <<e[1], e[2]>> /\ e[2] = <<e[2][1], e[2][2]>>
  BY <1>1, <1>4, ScanAssumption DEF MachineOK, InstanceKeys, ScanAssumption
<1>6. CASE e[2][2] = q.start
  BY <1>1, <1>2, <1>4, <1>5, <1>6
<1>7. CASE e[2][2] < q.start
  <2>1. KeyOf(q) \in Known
    BY <1>1 DEF Known, KeysOf
  <2>2. e[1][2] < KeyOf(q)[2]
    BY <1>1, <1>2, <1>4, <1>7, <2>1 DEF ParentInv, LaterIsLater
  <2> QED
    BY <1>1, <1>2, <1>4, <2>2
<1>8. CASE q.start < e[2][2]
  <2>1. KeyOf(q) \notin KeysOf(procs)
    <3> SUFFICES ASSUME NEW u \in procs, KeyOf(u) = KeyOf(q) PROVE FALSE
      BY DEF KeysOf
    <3>1. u.pid = q.pid /\ u.start = q.start
      BY DEF KeyOf
    <3>2. endedAt[q.pid] < q.start /\ endedAt[q.pid] \in Int
      BY <1>1, <1>2, <3>1 DEF ParentInv, StartedAfter, MachineOK
    <3>3. e[2] \notin KeysOf(procs)
      <4> SUFFICES ASSUME NEW v \in procs, KeyOf(v) = e[2] PROVE FALSE
        BY DEF KeysOf
      <4>1. v.pid = q.pid /\ v.start = e[2][2]
        BY <1>1, <1>4, <1>5 DEF KeyOf
      <4>2. v = u
        BY <1>1, <3>1, <4>1 DEF MachineOK
      <4> QED
        BY <1>2, <1>5, <1>8, <3>1, <4>1, <4>2
    <3>4. e[1][2] <= endedAt[e[2][1]]
      BY <3>3 DEF ParentInv, ParentsOutlast
    <3> QED
      BY <1>1, <1>2, <1>4, <3>2, <3>4
  <2>2. Ended(KeyOf(q))
    BY <1>1, <2>1 DEF ParentInv, AcceptedLived, KeysOf
  <2> QED
    BY <1>1, <1>2, <1>4, <1>8, <2>2 DEF Mistaken
<1> QED
  BY <1>2, <1>5, <1>6, <1>7, <1>8

\* The walk up the rows of one runtime ends at an ancestor, or passes a mistaken parent.
Above(q, root) == root \in Ancestors(KeyOf(q)) \/ MistakenAbove(KeyOf(q))

LEMMA AboveParent ==
  ASSUME ScanInv, ParentInv, NEW q \in accepted, NEW a \in ParentIn(q, accepted), NEW root, Above(a, root)
  PROVE  Above(q, root)
<1>1. accepted \subseteq Records /\ a \in accepted
  BY DEF ScanInv, ProcessTypeOK, ScanOK, ParentIn
<1>2. KeyOf(q) \in InstanceKeys /\ KeyOf(a) \in InstanceKeys
  BY <1>1, KeyTyped
<1>3. CASE <<KeyOf(q), KeyOf(a)>> \in parentsOf
  <2>1. Ancestors(KeyOf(a)) \subseteq Ancestors(KeyOf(q))
    BY <1>3, ParentsAncestors
  <2>2. MistakenAbove(KeyOf(a)) => MistakenAbove(KeyOf(q))
    BY <2>1 DEF MistakenAbove
  <2> QED
    BY <2>1, <2>2 DEF Above
<1>4. CASE Mistaken(KeyOf(q), KeyOf(a))
  BY <1>2, <1>4, OwnAncestor DEF Above, MistakenAbove
<1> QED
  BY <1>3, <1>4, ReadParents

LEMMA RootIsAncestor ==
  ASSUME ScanInv, ParentInv, NEW p \in accepted
  PROVE  Above(p, RuntimeRoot(p, accepted))
<1> DEFINE Up(q) == {a \in ParentIn(q, accepted) : a.image = p.image}
           first(q) == CHOOSE a \in Up(q) : TRUE
           N == MaxProcesses
           S == [accepted -> InstanceKeys]
           next(w) == [q \in accepted |-> IF Up(q) = {} THEN KeyOf(q) ELSE w[first(q)]]
           base == [q \in accepted |-> KeyOf(q)]
           step == [u \in S \X (1..N) |-> next(u[1])]
           Walks(f) == f = [n \in 0..N |->
                             [q \in accepted |-> IF n = 0 \/ Up(q) = {} THEN KeyOf(q) ELSE f[n - 1][first(q)]]]
           walk == CHOOSE f : Walks(f)
<1>1. N \in Nat /\ accepted \subseteq Records /\ \A q \in accepted : KeyOf(q) \in InstanceKeys
  BY KeyTyped, ScanAssumption DEF ScanInv, ProcessTypeOK, ScanOK, ScanAssumption
<1>2. RuntimeRoot(p, accepted) = walk[N][p]
  BY DEF RuntimeRoot
<1>3. \A q \in accepted : Up(q) # {} => first(q) \in Up(q)
  OBVIOUS
<1>4. \A q \in accepted : Up(q) \subseteq accepted
  BY DEF ParentIn
<1>5. ASSUME NEW q \in accepted, NEW a \in Up(q), NEW root, Above(a, root) PROVE Above(q, root)
  <2>1. a \in ParentIn(q, accepted)
    OBVIOUS
  <2> HIDE DEF Up
  <2> QED
    BY <1>5, <2>1, AboveParent
<1> HIDE DEF Up, first
<1>6. base \in S
  BY <1>1
<1>7. \A w \in S : next(w) \in S
  BY <1>1, <1>3, <1>4
<1>8. step \in [S \X (1..N) -> S]
  BY <1>7
<1>9. \E f : Walks(f)
  <2>1. PICK g \in [SUBSET (1..N) -> S] : Folding(g, N, base, step)
    <3> HIDE DEF N, S, base, step
    <3> QED
      BY <1>1, <1>6, <1>8, FoldExists
  <2>2. Unfolds(g, N, S, base, step)
    <3> HIDE DEF N, S, base, step
    <3> QED
      BY <2>1 DEF Folding, Unfolds
  <2>3. PICK f \in [0..N -> S] : RunOf(f, N, base, step, g[1..N])
    <3> HIDE DEF N, S, base, step
    <3> QED
      BY <1>1, <1>6, <1>8, <2>2, FoldRuns
  <2>4. f[0] = base /\ \A n \in 1..N : f[n] = next(f[n - 1])
    <3>1. \A w \in S, n \in 1..N : step[<<w, n>>] = next(w)
      <4> HIDE DEF S, next, N
      <4> QED
        OBVIOUS
    <3>2. \A n \in 1..N : f[n - 1] \in S
      BY <1>1
    <3> HIDE DEF S, base, step, next, N
    <3> QED
      BY <2>3, <3>1, <3>2 DEF RunOf
  <2>5. ASSUME NEW n \in 0..N
        PROVE  f[n] = [q \in accepted |-> IF n = 0 \/ Up(q) = {} THEN KeyOf(q) ELSE f[n - 1][first(q)]]
    <3>1. CASE n = 0
      BY <2>4, <3>1
    <3>2. CASE n # 0
      <4>1. n \in 1..N
        BY <1>1, <3>2
      <4> QED
        BY <2>4, <3>2, <4>1
    <3> QED
      BY <3>1, <3>2
  <2>6. Walks(f)
    BY <2>5
  <2> QED
    BY <2>6
<1>10. Walks(walk)
  BY <1>9
<1> HIDE DEF walk
<1> DEFINE T == {n \in 0..N : \A q \in accepted : Above(q, walk[n][q])}
<1>11. 0 \in T
  <2>1. \A q \in accepted : walk[0][q] = KeyOf(q)
    BY <1>1, <1>10
  <2> QED
    BY <1>1, <2>1, OwnAncestor DEF Above
<1>12. ASSUME NEW n \in 1..N, n - 1 \in T PROVE n \in T
  <2> SUFFICES ASSUME NEW q \in accepted PROVE Above(q, walk[n][q])
    BY <1>1
  <2>1. walk[n][q] = IF Up(q) = {} THEN KeyOf(q) ELSE walk[n - 1][first(q)]
    <3>1. n \in 0..N /\ n # 0
      BY <1>1
    <3>2. walk[n] = [o \in accepted |-> IF n = 0 \/ Up(o) = {} THEN KeyOf(o) ELSE walk[n - 1][first(o)]]
      BY <1>10, <3>1
    <3> QED
      BY <3>1, <3>2
  <2>2. CASE Up(q) = {}
    BY <1>1, <2>1, <2>2, OwnAncestor DEF Above
  <2>3. CASE Up(q) # {}
    <3>1. PICK a \in Up(q) : walk[n][q] = walk[n - 1][a]
      BY <1>3, <2>1, <2>3
    <3>2. Above(a, walk[n - 1][a])
      BY <1>4, <1>12, <3>1
    <3> QED
      BY <1>5, <3>1, <3>2
  <2> QED
    BY <2>2, <2>3
<1>13. N \in T
  <2> HIDE DEF T, N
  <2>1. 0..N \subseteq T
    BY <1>1, <1>11, <1>12, UpTo
  <2> QED
    BY <1>1, <2>1
<1> QED
  BY <1>2, <1>13

\* What was mistaken stays so, and an ancestor stays one, until the next scan begins.
LEMMA HistoryKept ==
  ASSUME scanNow' = scanNow, parentsOf \subseteq parentsOf', imagesOf \subseteq imagesOf'
  PROVE  /\ \A c, k : Mistaken(c, k) => Mistaken(c, k)'
         /\ \A k, a : a \in Ancestors(k) => a \in Ancestors(k)'
         /\ \A k : MistakenAbove(k) => MistakenAbove(k)'
<1>1. \A c, k : Mistaken(c, k) => Mistaken(c, k)'
  BY DEF Mistaken, Ended
<1>3. ASSUME NEW k, NEW a, a \in Ancestors(k) PROVE a \in Ancestors(k)'
  <2>1. a \in InstanceKeys /\ \A S \in SUBSET InstanceKeys : k \in S /\ HasParents(S) => a \in S
    BY <1>3, AncestorsAre
  <2>2. \A S : HasParents(S)' => HasParents(S)
    BY DEF HasParents
  <2>3. \A S \in SUBSET InstanceKeys : k \in S /\ HasParents(S)' => a \in S
    BY <2>1, <2>2
  <2> QED
    BY <2>1, <2>3 DEF Ancestors, HasParents
<1>2. \A k : MistakenAbove(k) => MistakenAbove(k)'
  BY <1>1, <1>3 DEF MistakenAbove
<1> QED
  BY <1>1, <1>2, <1>3

\* Every step leaves the history, or more of it, and the rows that are shown, but for the first
\* and the last step of a scan.
LEMMA StepHistory ==
  ASSUME [ProcessNext]_processVars
  PROVE  /\ parentsOf \subseteq parentsOf' /\ imagesOf \subseteq imagesOf'
         /\ ~Discover => scanNow' = scanNow
         /\ ~Discover /\ ~Finish => shown' = shown
<1>1. CASE UNCHANGED processVars
  BY <1>1 DEF processVars, scanVars
<1>2. CASE Discover
  BY <1>2 DEF Discover, Machine
<1>3. CASE ReadStat \/ ReadIdentity \/ Recheck
  BY <1>3 DEF ReadStat, ReadIdentity, Recheck, Machine
<1>4. CASE Finish
  BY <1>4 DEF Finish, Machine
<1>5. CASE \E pid \in Pids : Forks(pid, {}) \/ \E p \in procs : Forks(pid, {p})
  BY <1>5 DEF Forks, Event, scanVars
<1>6. CASE \E p \in procs : BecomesZombie(p) \/ Reaped(p) \/ \E image \in Images : Execs(p, image)
  BY <1>6 DEF BecomesZombie, Reaped, Execs, ImageEnds, Event, scanVars
<1> QED
  BY <1>1, <1>2, <1>3, <1>4, <1>5, <1>6 DEF ProcessNext

\* What a row that is shown says of parents and groups.
RowReal(r) ==
  /\ \A k \in r.parents : <<r.key, k>> \in parentsOf \/ Mistaken(r.key, k)
  /\ r.image \in Runtimes => r.group[2] \in Ancestors(r.key) \/ MistakenAbove(r.key)

LEMMA RowsReal == AncestryIsReal <=> \A r \in shown : RowReal(r)
BY DEF AncestryIsReal, RowReal

LEMMA GroupedReal ==
  ASSUME ScanInv, ParentInv, NEW intime \in SUBSET accepted, NEW r \in Grouped(accepted, intime)
  PROVE  RowReal(r)
<1>1. PICK p \in intime :
        r = [key |-> KeyOf(p), image |-> p.image, group |-> GroupIn(p, accepted),
             parents |-> KeysOf(ParentIn(p, accepted) \cap intime)]
  BY DEF Grouped
<1>2. /\ r.key = KeyOf(p) /\ r.image = p.image /\ r.group = GroupIn(p, accepted)
      /\ r.parents = KeysOf(ParentIn(p, accepted) \cap intime)
  BY <1>1
<1>3. ASSUME NEW k \in r.parents PROVE <<r.key, k>> \in parentsOf \/ Mistaken(r.key, k)
  <2>1. PICK q \in ParentIn(p, accepted) : k = KeyOf(q)
    BY <1>2 DEF KeysOf
  <2> QED
    BY <1>2, <2>1, ReadParents
<1>4. ASSUME r.image \in Runtimes PROVE r.group[2] \in Ancestors(r.key) \/ MistakenAbove(r.key)
  <2>1. r.group = <<p.image, RuntimeRoot(p, accepted)>>
    BY <1>2, <1>4 DEF GroupIn
  <2> QED
    BY <1>2, <1>4, <2>1, RootIsAncestor DEF Above
<1> QED
  BY <1>3, <1>4 DEF RowReal

LEMMA StepAncestry == ScanInv /\ ParentInv /\ AncestryIsReal /\ [ProcessNext]_processVars => AncestryIsReal'
<1> SUFFICES ASSUME ScanInv, ParentInv, AncestryIsReal, [ProcessNext]_processVars,
                    NEW r \in shown'
             PROVE  RowReal(r)'
  BY RowsReal DEF RowReal, AncestryIsReal
<1>1. CASE Discover
  BY <1>1 DEF Discover
<1>2. parentsOf \subseteq parentsOf' /\ imagesOf \subseteq imagesOf'
  BY StepHistory
<1>3. ASSUME ~Discover, RowReal(r) PROVE RowReal(r)'
  <2>1. scanNow' = scanNow
    BY <1>3, StepHistory
  <2> QED
    BY <1>2, <1>3, <2>1, HistoryKept DEF RowReal
<1>4. CASE Finish
  <2>1. PICK last \in {0} \cup PidsOf(accepted) : shown' = Grouped(accepted, {p \in accepted : p.pid <= last})
    BY <1>4 DEF Finish
  <2>2. {p \in accepted : p.pid <= last} \in SUBSET accepted
    OBVIOUS
  <2>3. RowReal(r)
    BY <2>1, <2>2, GroupedReal
  <2>4. ~Discover
    BY <1>4 DEF Finish, Discover
  <2> QED
    BY <1>3, <2>3, <2>4
<1>5. CASE ~Discover /\ ~Finish
  <2>1. shown' = shown
    BY <1>5, StepHistory
  <2>2. RowReal(r)
    BY <2>1, RowsReal
  <2> QED
    BY <1>3, <1>5, <2>2
<1> QED
  BY <1>1, <1>4, <1>5

\* The parent shown was the parent, or ended during the scan and its pid went to the parent; and
\* one runtime's group is named for an ancestor of each of its processes.
THEOREM ParentsAreReal == ProcessSpec => []AncestryIsReal
<1>1. ProcessInit => AncestryIsReal
  BY DEF ProcessInit, AncestryIsReal
<1> QED
  BY <1>1, StepAncestry, AlwaysScanInv, AlwaysParents, PTL DEF ProcessSpec

-----------------------------------------------------------------------------
(* Audio actions: types, the node that is changed, and undoing. *)

\* The object ID of a request is that of the selected node, until others change the graph.
BoundToKey == \A r \in request : ~dirty => <<r.key, r.id>> \in bound

AudioInv == AudioTypeOK /\ BoundToKey

-----------------------------------------------------------------------------
(* Typed parts. *)

\* The graph on display after a refresh is the graph.
LEMMA NowTyped == (Now \in Graphs) <=> bound \subseteq Nodes \X ObjectIds /\ muted \subseteq Nodes /\ default \in Nodes \cup {NoNode}
  BY DEF Now, Graphs

LEMMA SetTyped == Now \in Graphs => Set \in Settings
  BY NowTyped DEF Set, Settings

\* The undo of an action is an action.
LEMMA UndoTyped ==
  ASSUME NEW op \in {"mute", "default"}, NEW key \in Nodes, NEW value \in BOOLEAN, NEW dump \in Graphs
  PROVE  UndoOf(op, key, value, dump) \subseteq Inverses
<1>1. CASE op = "mute"
  <2>1. (key \in dump.muted) \in BOOLEAN
    OBVIOUS
  <2> QED
    BY <1>1, <2>1 DEF UndoOf, Inverses
<1>2. CASE op = "default"
  <2>1. dump.default \in Nodes \cup {NoNode}
    BY DEF Graphs
  <2> QED
    BY <1>2, <2>1 DEF UndoOf, Inverses
<1> QED
  BY <1>1, <1>2

\* An action is asked for with the object ID that the node has now.
LEMMA BeginBinds ==
  ASSUME AudioInv, NEW op \in {"mute", "default"}, NEW key \in Nodes, NEW values \in SUBSET BOOLEAN, NEW isUndo \in BOOLEAN,
         Begin(op, key, values, isUndo), request = {}
  PROVE  /\ request' \subseteq Actions /\ \A r, s \in request' : r = s
         /\ \A r \in request' : <<r.key, r.id>> \in bound
         /\ displayed' \in Graphs /\ struck' = {} /\ UNCHANGED <<graph, previously>>
<1> DEFINE value == IF values = {} THEN key \notin Now.muted ELSE CHOOSE v \in values : TRUE
           id    == CHOOSE i \in ObjectOf(key, Now) : TRUE
           new   == [op |-> op, key |-> key, id |-> id, value |-> value, isUndo |-> isUndo,
                     was |-> [muted |-> Now.muted, default |-> Now.default], inverse |-> UndoOf(op, key, value, Now)]
<1>1. /\ displayed' = Now /\ struck' = {} /\ UNCHANGED <<graph, previously>>
      /\ request' = IF ObjectOf(key, Now) = {} THEN {} ELSE {new}
  BY DEF Begin, Refreshed
<1>2. Now \in Graphs
  BY DEF AudioInv, AudioTypeOK, GraphOK
<1>3. ASSUME ObjectOf(key, Now) # {} PROVE new \in Actions /\ <<key, id>> \in bound
  <2>1. id \in ObjectOf(key, Now)
    BY <1>3
  <2>2. id \in ObjectIds /\ <<key, id>> \in bound
    <3>1. Now.bound = bound /\ bound \subseteq Nodes \X ObjectIds
      BY <1>2, NowTyped DEF Now
    <3>2. PICK b \in bound : b[1] = key /\ b[2] = id
      BY <2>1, <3>1 DEF ObjectOf
    <3>3. b = <<b[1], b[2]>> /\ b[2] \in ObjectIds
      BY <3>1
    <3> QED
      BY <3>1, <3>2, <3>3
  <2>3. value \in BOOLEAN
    BY Zenon
  <2>4. UndoOf(op, key, value, Now) \subseteq Inverses
    BY <1>2, <2>3, UndoTyped
  <2>5. [muted |-> Now.muted, default |-> Now.default] \in Settings
    BY <1>2, SetTyped DEF Now, Set
  <2> HIDE DEF value, id
  <2> QED
    BY <2>2, <2>3, <2>4, <2>5 DEF Actions
<1> HIDE DEF value, id
<1>4. request' \subseteq Actions /\ \A r, s \in request' : r = s
  BY <1>1, <1>3
<1>5. \A r \in request' : <<r.key, r.id>> \in bound
  BY <1>1, <1>3
<1> QED
  BY <1>1, <1>2, <1>4, <1>5

-----------------------------------------------------------------------------
(* The steps. *)

LEMMA InitAudioInv == AudioInit => AudioInv
<1> SUFFICES ASSUME AudioInit PROVE AudioInv
  OBVIOUS
<1>1. Now \in Graphs
  BY NowTyped DEF AudioInit
<1>2. GraphOK
  BY <1>1 DEF AudioInit, GraphOK
<1>3. Set \in Settings
  BY <1>1, SetTyped
<1> QED
  BY <1>2, <1>3 DEF AudioInit, AudioInv, AudioTypeOK, BoundToKey

\* Selecting a node and undoing ask for one action.
LEMMA AskedAudioInv == AudioInv /\ (Dump \/ Select \/ Undo) => AudioInv'
<1> SUFFICES ASSUME AudioInv, Dump \/ Select \/ Undo PROVE AudioInv'
  OBVIOUS
<1> USE DEF AudioInv
<1>1. CASE Dump
  <2>1. GraphOK'
    BY <1>1 DEF Dump, AudioTypeOK, GraphOK, Now, graph
  <2> QED
    BY <1>1, <2>1 DEF Dump, AudioTypeOK, BoundToKey, graph
<1>2. CASE Select
  <2>1. PICK b \in displayed.bound, op \in {"mute", "default"} : Begin(op, b[1], {}, FALSE)
    BY <1>2 DEF Select
  <2>2. b[1] \in Nodes
    BY DEF AudioTypeOK, GraphOK, Graphs
  <2>3. request = {} /\ undo' = undo
    BY <1>2 DEF Select, Asked
  <2>4. /\ request' \subseteq Actions /\ \A r, s \in request' : r = s
        /\ \A r \in request' : <<r.key, r.id>> \in bound
        /\ displayed' \in Graphs /\ struck' = {} /\ UNCHANGED <<graph, previously>>
    BY <2>1, <2>2, <2>3, BeginBinds
  <2>5. GraphOK'
    BY <2>4 DEF AudioTypeOK, GraphOK, Now, graph
  <2> QED
    BY <2>3, <2>4, <2>5 DEF AudioTypeOK, BoundToKey, graph
<1>3. CASE Undo
  <2>1. request = {} /\ undo' = {}
    BY <1>3 DEF Undo, Asked
  <2>2. PICK u \in undo : \/ Begin(u.op, u.key, IF u.op = "mute" THEN {u.value} ELSE {}, TRUE)
                          \/ UNCHANGED <<graph, displayed, dirty, request, changes, previously, disturbed, struck>>
    BY <1>3 DEF Undo
  <2>3. CASE Begin(u.op, u.key, IF u.op = "mute" THEN {u.value} ELSE {}, TRUE)
    <3>1. u.op \in {"mute", "default"} /\ u.key \in Nodes /\ (u.op = "mute" => u.value \in BOOLEAN)
      BY DEF AudioTypeOK, Inverses
    <3> DEFINE values == IF u.op = "mute" THEN {u.value} ELSE {}
    <3>2. values \in SUBSET BOOLEAN
      BY <3>1
    <3>3. Begin(u.op, u.key, values, TRUE)
      BY <2>3
    <3> HIDE DEF values
    <3>4. /\ request' \subseteq Actions /\ \A r, s \in request' : r = s
          /\ \A r \in request' : <<r.key, r.id>> \in bound
          /\ displayed' \in Graphs /\ struck' = {} /\ UNCHANGED <<graph, previously>>
      BY <2>1, <3>1, <3>2, <3>3, BeginBinds
    <3>5. GraphOK'
      BY <3>4 DEF AudioTypeOK, GraphOK, Now, graph
    <3> QED
      BY <2>1, <3>4, <3>5 DEF AudioTypeOK, BoundToKey, graph
  <2>4. CASE UNCHANGED <<graph, displayed, dirty, request, changes, previously, disturbed, struck>>
    <3>1. GraphOK'
      BY <2>4 DEF AudioTypeOK, GraphOK, Now, graph
    <3> QED
      BY <2>1, <2>4, <3>1 DEF AudioTypeOK, BoundToKey, graph
  <2> QED
    BY <2>2, <2>3, <2>4
<1> QED
  BY <1>1, <1>2, <1>3

\* What wpctl changes are nodes of the graph, and settings of nodes.
LEMMA EffectTyped ==
  ASSUME AudioInv, NEW r \in request, Effect(r)
  PROVE  Struck(r) \subseteq Nodes /\ muted' \subseteq Nodes /\ default' \in Nodes \cup {NoNode}
<1>1. bound \subseteq Nodes \X ObjectIds /\ muted \subseteq Nodes /\ default \in Nodes \cup {NoNode}
  BY NowTyped DEF AudioInv, AudioTypeOK, GraphOK
<1>2. Struck(r) \subseteq Nodes
  BY <1>1 DEF Struck
<1> QED
  BY <1>1, <1>2 DEF Effect

LEMMA AnsweredAudioInv == AudioInv /\ (Confirmed \/ Refused) => AudioInv'
<1> SUFFICES ASSUME AudioInv, Confirmed \/ Refused PROVE AudioInv'
  OBVIOUS
<1>1. bound \subseteq Nodes \X ObjectIds /\ muted \subseteq Nodes /\ default \in Nodes \cup {NoNode} /\ displayed \in Graphs
  BY NowTyped DEF AudioInv, AudioTypeOK, GraphOK
<1>2. /\ request' = {} /\ UNCHANGED <<bound, gone, displayed>>
      /\ muted' \subseteq Nodes /\ default' \in Nodes \cup {NoNode}
      /\ struck' \subseteq Nodes /\ previously' \in Settings /\ undo' \subseteq Inverses
  <2>1. CASE Confirmed
    <3>1. PICK r \in request : /\ Effect(r) /\ struck' = Struck(r) /\ undo' = r.inverse /\ previously' = r.was
                               /\ request' = {} /\ UNCHANGED <<bound, gone, displayed>>
      BY <2>1 DEF Confirmed
    <3>2. r.inverse \subseteq Inverses /\ r.was \in Settings
      BY DEF AudioInv, AudioTypeOK, Actions
    <3> QED
      BY <3>1, <3>2, EffectTyped
  <2>2. CASE Refused
    <3>1. PICK r \in request :
            /\ \/ UNCHANGED <<graph, disturbed, struck>>
               \/ Effect(r) /\ struck' = Struck(r) /\ UNCHANGED <<bound, gone>>
            /\ request' = {} /\ UNCHANGED <<displayed, undo, previously>>
      BY <2>2 DEF Refused
    <3>2. struck \subseteq Nodes /\ previously \in Settings /\ undo \subseteq Inverses
      BY DEF AudioInv, AudioTypeOK
    <3> QED
      BY <1>1, <3>1, <3>2, EffectTyped DEF graph
  <2> QED
    BY <2>1, <2>2
<1>3. (Now \in Graphs)'
  BY <1>1, <1>2, NowTyped DEF Now, Graphs
<1>4. GraphOK'
  BY <1>2, <1>3 DEF AudioInv, AudioTypeOK, GraphOK
<1> QED
  BY <1>2, <1>4 DEF AudioInv, AudioTypeOK, BoundToKey

\* Changes by others are noted, and give no object ID to two nodes.
LEMMA ChangedAudioInv ==
  AudioInv /\ (\E n \in Nodes : SetByOthers(n) \/ \E i \in ObjectIds : Appears(n, i) \/ Disappears(<<n, i>>)) => AudioInv'
<1> SUFFICES ASSUME AudioInv,
                    NEW n \in Nodes, SetByOthers(n) \/ \E i \in ObjectIds : Appears(n, i) \/ Disappears(<<n, i>>)
             PROVE  AudioInv'
  OBVIOUS
<1>1. /\ bound \subseteq Nodes \X ObjectIds /\ muted \subseteq Nodes /\ default \in Nodes \cup {NoNode} /\ gone \subseteq Nodes
      /\ \A b, c \in bound : b[2] = c[2] => b = c
  BY NowTyped DEF AudioInv, AudioTypeOK, GraphOK
<1>2. dirty' /\ UNCHANGED <<displayed, request, undo, previously, struck>>
  BY DEF SetByOthers, Appears, Disappears, Change
<1> DEFINE Typed == /\ bound' \subseteq Nodes \X ObjectIds /\ muted' \subseteq Nodes
                    /\ default' \in Nodes \cup {NoNode} /\ gone' \subseteq Nodes
           OneEach == \A b, c \in bound' : b[2] = c[2] => b = c
<1>3. Typed /\ OneEach
  <2>1. CASE SetByOthers(n)
    BY <1>1, <2>1 DEF SetByOthers
  <2>2. ASSUME NEW i \in ObjectIds, Appears(n, i) PROVE Typed /\ OneEach
    BY <1>1, <2>2 DEF Appears
  <2>3. ASSUME NEW i \in ObjectIds, Disappears(<<n, i>>) PROVE Typed /\ OneEach
    BY <1>1, <2>3 DEF Disappears
  <2> QED
    BY <2>1, <2>2, <2>3
<1>4. (Now \in Graphs)'
  BY <1>3 DEF Now, Graphs
<1>5. GraphOK'
  BY <1>2, <1>3, <1>4 DEF AudioInv, AudioTypeOK, GraphOK
<1> QED
  BY <1>2, <1>5 DEF AudioInv, AudioTypeOK, BoundToKey

LEMMA StepAudioInv == AudioInv /\ [AudioNext]_audioVars => AudioInv'
<1>1. AudioInv /\ UNCHANGED audioVars => AudioInv'
  BY DEF AudioInv, AudioTypeOK, GraphOK, BoundToKey, Now, audioVars, graph
<1> QED
  BY <1>1, AskedAudioInv, AnsweredAudioInv, ChangedAudioInv DEF AudioNext

LEMMA AlwaysAudioInv == AudioSpec => []AudioInv
  BY InitAudioInv, StepAudioInv, PTL DEF AudioSpec

\* Type correctness of the actions, for any graph.
THEOREM AudioTypeCorrect == AudioSpec => []AudioTypeOK
<1>1. AudioInv => AudioTypeOK
  BY DEF AudioInv
<1> QED
  BY <1>1, AlwaysAudioInv, PTL

\* wpctl changes the node that was selected and no other, whatever is on display, for any number
\* of nodes and changes, unless others changed the graph after the action was asked for.
THEOREM SelectedIsHit == AudioSpec => HitsSelected
<1>1. AudioInv /\ [AudioNext]_audioVars
        => [\A r \in request : request' = {} /\ struck' # struck => struck' = {r.key} \/ dirty]_audioVars
  <2> SUFFICES ASSUME AudioInv, AudioNext, NEW r \in request, request' = {}, struck' # struck, ~dirty
               PROVE  struck' = {r.key}
    BY DEF audioVars
  <2>1. Confirmed \/ Refused
    BY DEF AudioNext, Dump, Select, Undo, Asked, SetByOthers, Appears, Disappears, Change
  <2>2. PICK s \in request : struck' = Struck(s)
    BY <2>1 DEF Confirmed, Refused
  <2>3. s = r /\ <<r.key, r.id>> \in bound /\ \A b, c \in bound : b[2] = c[2] => b = c
    BY DEF AudioInv, AudioTypeOK, GraphOK, BoundToKey
  <2> QED
    BY <2>2, <2>3 DEF Struck
<1> QED
  BY <1>1, AlwaysAudioInv, PTL DEF AudioSpec, HitsSelected

-----------------------------------------------------------------------------
(* Undo. *)

\* The settings after an action on the node it names.
Applied(a) ==
  IF a.op = "mute" THEN [muted |-> IF a.value THEN muted \cup {a.key} ELSE muted \ {a.key}, default |-> default]
  ELSE [muted |-> muted, default |-> a.key]

\* The undo of a request, in the settings of now.
Reversed(r) == UndoOf(r.op, r.key, r.value, Now)

\* The undo on record leads to the settings before the last confirmed action.
UndoFits == ~disturbed => \A u \in undo : Applied(u) = previously

\* A request knows the settings it was asked for in, and one to undo leads where the record did.
RequestFits ==
  ~dirty => \A r \in request :
              /\ r.was = Set /\ r.inverse = Reversed(r)
              /\ r.isUndo /\ ~disturbed => Applied(r) = previously

UndoInv == AudioInv /\ UndoFits /\ RequestFits

\* What is asked for is what was selected, in the settings of now.
LEMMA BeginFits ==
  ASSUME NEW op, NEW key, NEW values, NEW isUndo, Begin(op, key, values, isUndo), NEW r \in request'
  PROVE  r.was = Set /\ r.inverse = Reversed(r)
<1> DEFINE value == IF values = {} THEN key \notin Now.muted ELSE CHOOSE v \in values : TRUE
           id    == CHOOSE i \in ObjectOf(key, Now) : TRUE
<1>1. r = [op |-> op, key |-> key, id |-> id, value |-> value, isUndo |-> isUndo,
           was |-> [muted |-> Now.muted, default |-> Now.default], inverse |-> UndoOf(op, key, value, Now)]
  BY DEF Begin, Refreshed
<1>2. [muted |-> Now.muted, default |-> Now.default] = Set
  BY DEF Now, Set
<1> HIDE DEF value, id
<1> QED
  BY <1>1, <1>2 DEF Reversed

\* The value is one of those that were asked for, if any were.
LEMMA BeginTakes ==
  ASSUME NEW op, NEW key, NEW values, NEW isUndo, Begin(op, key, values, isUndo), NEW r \in request', values # {}
  PROVE  r.value \in values
<1> DEFINE value == IF values = {} THEN key \notin Now.muted ELSE CHOOSE v \in values : TRUE
           id    == CHOOSE i \in ObjectOf(key, Now) : TRUE
<1>1. r = [op |-> op, key |-> key, id |-> id, value |-> value, isUndo |-> isUndo,
           was |-> [muted |-> Now.muted, default |-> Now.default], inverse |-> UndoOf(op, key, value, Now)]
  BY DEF Begin, Refreshed
<1>2. value \in values
  OBVIOUS
<1> HIDE DEF value, id
<1> QED
  BY <1>1, <1>2

\* Asking changes no settings.
LEMMA AskedUndoInv == UndoInv /\ (Dump \/ Select \/ Undo) => UndoFits' /\ RequestFits'
<1> SUFFICES ASSUME UndoInv, Dump \/ Select \/ Undo PROVE UndoFits' /\ RequestFits'
  OBVIOUS
<1> USE DEF UndoInv
<1>1. CASE Dump
  BY <1>1 DEF Dump, UndoFits, RequestFits, Applied, graph
<1>2. CASE Select
  <2>1. PICK key, op, values : Begin(op, key, values, FALSE)
    BY <1>2 DEF Select
  <2>2. UNCHANGED <<graph, previously, disturbed, undo>>
    BY <1>2, <2>1 DEF Select, Begin
  <2>3. UndoFits'
    BY <2>2 DEF UndoFits, Applied, graph
  <2>4. ASSUME NEW r \in request' PROVE ~r.isUndo /\ r.was = Set' /\ r.inverse = (Reversed(r))'
    <3>1. Set' = Set /\ (Reversed(r))' = Reversed(r)
      BY <2>2 DEF Now, Set, Reversed, graph
    <3>2. r.isUndo = FALSE
      BY <2>1, <2>4 DEF Begin
    <3>3. r.was = Set /\ r.inverse = Reversed(r)
      BY <2>1, <2>4, BeginFits
    <3> QED
      BY <3>1, <3>2, <3>3
  <2> QED
    BY <2>3, <2>4 DEF RequestFits
<1>3. CASE Undo
  <2>1. undo' = {} /\ request = {}
    BY <1>3 DEF Undo, Asked
  <2>2. UndoFits'
    BY <2>1 DEF UndoFits
  <2>3. PICK u \in undo : \/ Begin(u.op, u.key, IF u.op = "mute" THEN {u.value} ELSE {}, TRUE)
                          \/ UNCHANGED <<graph, displayed, dirty, request, changes, previously, disturbed, struck>>
    BY <1>3 DEF Undo
  <2>4. ASSUME NEW r \in request', ~dirty'
        PROVE  /\ r.was = Set' /\ r.inverse = (Reversed(r))'
               /\ ~disturbed' => (Applied(r))' = previously'
    <3>1. Begin(u.op, u.key, IF u.op = "mute" THEN {u.value} ELSE {}, TRUE)
      BY <2>1, <2>3, <2>4
    <3>2. /\ r.op = u.op /\ r.key = u.key /\ (u.op = "mute" => r.value = u.value)
          /\ r.was = Set /\ r.inverse = Reversed(r)
          /\ UNCHANGED <<graph, previously, disturbed>>
      <4>1. PICK op, key, values : /\ Begin(op, key, values, TRUE)
                                   /\ op = u.op /\ key = u.key /\ (u.op = "mute" => values = {u.value})
        BY <3>1
      <4>2. r.op = op /\ r.key = key /\ (values # {} => r.value \in values)
        BY <2>4, <4>1, BeginTakes DEF Begin
      <4>3. r.was = Set /\ r.inverse = Reversed(r)
        BY <2>4, <4>1, BeginFits
      <4>4. UNCHANGED <<graph, previously, disturbed>>
        BY <4>1 DEF Begin
      <4> QED
        BY <4>1, <4>2, <4>3, <4>4
    <3>3. Set' = Set /\ (Reversed(r))' = Reversed(r) /\ (Applied(r))' = Applied(u)
      BY <3>2 DEF Now, Set, Reversed, Applied, graph
    <3> QED
      BY <3>2, <3>3 DEF UndoFits
  <2> QED
    BY <2>2, <2>4 DEF RequestFits
<1> QED
  BY <1>1, <1>2, <1>3

\* What wpctl does to the node of an undisturbed request is what the request says.
LEMMA EffectApplies ==
  ASSUME UndoInv, ~dirty, NEW r \in request, Struck(r) # {}, Effect(r)
  PROVE  [muted |-> muted', default |-> default'] = Applied(r)
<1>1. <<r.key, r.id>> \in bound /\ \A b, c \in bound : b[2] = c[2] => b = c
  BY DEF UndoInv, AudioInv, AudioTypeOK, GraphOK, BoundToKey
<1>2. \A b \in bound : b[2] = r.id => b[1] = r.key
  BY <1>1
<1>3. Struck(r) = {r.key}
  BY <1>1, <1>2 DEF Struck
<1> QED
  BY <1>3 DEF Effect, Applied

\* A confirmed action leaves a record that leads back.
LEMMA ConfirmedUndoInv == UndoInv /\ Confirmed => UndoFits' /\ RequestFits'
<1> SUFFICES ASSUME UndoInv, Confirmed PROVE UndoFits' /\ RequestFits'
  OBVIOUS
<1>1. PICK r \in request : /\ Struck(r) # {} /\ Effect(r) /\ undo' = r.inverse /\ previously' = r.was
                           /\ disturbed' = dirty /\ request' = {}
  BY DEF Confirmed
<1>2. ASSUME ~dirty, NEW u \in r.inverse PROVE (Applied(u))' = r.was
  <2>1. /\ r.was = [muted |-> muted, default |-> default]
        /\ r.inverse = UndoOf(r.op, r.key, r.value, Now) /\ r.op \in {"mute", "default"}
    BY <1>2 DEF UndoInv, RequestFits, Reversed, Set, AudioInv, AudioTypeOK, Actions
  <2>2. [muted |-> muted', default |-> default'] = Applied(r)
    BY <1>1, <1>2, EffectApplies
  <2>3. CASE r.op = "mute"
    <3>1. u = [op |-> "mute", key |-> r.key, value |-> r.key \in muted]
      BY <1>2, <2>1, <2>3 DEF UndoOf, Now
    <3>2. default' = default /\ muted' = IF r.value THEN muted \cup {r.key} ELSE muted \ {r.key}
      BY <2>2, <2>3 DEF Applied
    <3>3. (Applied(u))' = [muted |-> IF r.key \in muted THEN muted' \cup {r.key} ELSE muted' \ {r.key}, default |-> default']
      BY <3>1 DEF Applied
    <3>4. (IF r.key \in muted THEN muted' \cup {r.key} ELSE muted' \ {r.key}) = muted
      BY <3>2
    <3> QED
      BY <2>1, <3>2, <3>3, <3>4
  <2>4. CASE r.op = "default"
    <3>1. u = [op |-> "default", key |-> default]
      BY <1>2, <2>1, <2>4 DEF UndoOf, Now
    <3>2. muted' = muted
      BY <2>2, <2>4 DEF Applied
    <3> QED
      BY <2>1, <3>1, <3>2 DEF Applied
  <2> QED
    BY <2>1, <2>3, <2>4
<1>3. UndoFits'
  BY <1>1, <1>2 DEF UndoFits
<1> QED
  BY <1>1, <1>3 DEF RequestFits

\* A refused action, and changes by others, leave the record alone or disturb it.
LEMMA DisturbedUndoInv ==
  UndoInv /\ (Refused \/ \E n \in Nodes : SetByOthers(n) \/ \E i \in ObjectIds : Appears(n, i) \/ Disappears(<<n, i>>))
    => UndoFits' /\ RequestFits'
<1> SUFFICES ASSUME UndoInv,
                    Refused \/ \E n \in Nodes : SetByOthers(n) \/ \E i \in ObjectIds : Appears(n, i) \/ Disappears(<<n, i>>)
             PROVE  UndoFits' /\ RequestFits'
  OBVIOUS
<1>1. CASE Refused
  <2>1. request' = {} /\ (disturbed' \/ UNCHANGED <<graph, undo, previously, disturbed>>)
    BY <1>1 DEF Refused
  <2> QED
    BY <2>1 DEF UndoInv, UndoFits, RequestFits, Applied, graph
<1>2. CASE \E n \in Nodes : SetByOthers(n) \/ \E i \in ObjectIds : Appears(n, i) \/ Disappears(<<n, i>>)
  <2>1. dirty' /\ disturbed'
    BY <1>2 DEF SetByOthers, Appears, Disappears, Change
  <2> QED
    BY <2>1 DEF UndoFits, RequestFits
<1> QED
  BY <1>1, <1>2

LEMMA StepUndoInv == UndoInv /\ [AudioNext]_audioVars => UndoInv'
<1> SUFFICES ASSUME UndoInv, [AudioNext]_audioVars PROVE UndoInv'
  OBVIOUS
<1>1. AudioInv'
  BY StepAudioInv DEF UndoInv
<1>2. CASE UNCHANGED audioVars
  <2>1. Set' = Set /\ \A r \in request : (Reversed(r))' = Reversed(r)
    BY <1>2 DEF Reversed, Set, Now, audioVars, graph
  <2>2. UNCHANGED <<undo, request, previously, disturbed, dirty>>
    BY <1>2 DEF audioVars
  <2>3. UndoFits'
    BY <1>2 DEF UndoInv, UndoFits, Applied, audioVars, graph
  <2>4. RequestFits'
    BY <1>2, <2>1, <2>2 DEF UndoInv, RequestFits, Applied, audioVars, graph
  <2> QED
    BY <1>1, <2>3, <2>4 DEF UndoInv
<1>3. CASE AudioNext
  <2>1. UndoFits' /\ RequestFits'
    BY <1>3, AskedUndoInv, ConfirmedUndoInv, DisturbedUndoInv DEF AudioNext
  <2> QED
    BY <1>1, <2>1 DEF UndoInv
<1> QED
  BY <1>1, <1>2, <1>3 DEF UndoInv

\* An undo that is confirmed brings back the settings before the last confirmed action, for any
\* sequence of actions, unless others changed the graph or wpctl acted on a refused request.
THEOREM UndoIsInverse == AudioSpec => UndoRestores
<1>1. AudioInit => UndoInv
  BY InitAudioInv DEF UndoInv, UndoFits, RequestFits, AudioInit
<1>2. UndoInv /\ [AudioNext]_audioVars
        => [\A r \in request : Confirmed /\ r.isUndo /\ ~disturbed /\ ~dirty
              => [muted |-> muted', default |-> default'] = previously]_audioVars
  <2> SUFFICES ASSUME UndoInv, NEW r \in request, Confirmed, r.isUndo, ~disturbed, ~dirty
               PROVE  [muted |-> muted', default |-> default'] = previously
    OBVIOUS
  <2>1. PICK s \in request : Struck(s) # {} /\ Effect(s)
    BY DEF Confirmed
  <2>2. s = r /\ Applied(r) = previously
    BY DEF UndoInv, RequestFits, AudioInv, AudioTypeOK
  <2> QED
    BY <2>1, <2>2, EffectApplies
<1> QED
  BY <1>1, <1>2, StepUndoInv, PTL DEF AudioSpec, UndoRestores

-----------------------------------------------------------------------------
(* Contacts: every row is about the sockets it is made of. *)

\* What the library's sum of a set of numbers is.
LEMMA SumSetIs ==
  ASSUME NEW S \in SUBSET Nat, IsFiniteSet(S)
  PROVE  \E g : IsSum(g, S, [x \in S |-> x]) /\ SumSet(S) = g[S]
<1> DEFINE w == [x \in S |-> x]
           Iter(g) == g = [s \in SUBSET S |->
                             IF s = {} THEN 0 ELSE (CHOOSE x \in s : TRUE) + g[s \ {CHOOSE x \in s : TRUE}]]
<1>1. w \in [S -> Nat]  OBVIOUS
<1>2. ASSUME NEW s \in SUBSET S, s # {} PROVE w[FirstOf(s)] = CHOOSE x \in s : TRUE
  BY <1>2 DEF FirstOf
<1> HIDE DEF w
<1>3. ASSUME NEW g PROVE Iter(g) <=> FoldsTo(g, S, w)  BY <1>2 DEF FoldsTo, FirstOf
<1>4. SumSet(S) = (CHOOSE g : Iter(g))[S]  BY DEF SumSet, FoldSet, MapThenFoldSet
<1> HIDE DEF Iter
<1>5. FoldsTo(CHOOSE g : Iter(g), S, w)  BY <1>1, <1>3, FoldSums
<1> QED  BY <1>1, <1>4, <1>5, FoldSums DEF w

\* How much each of the rows, or of the sockets, adds to what they show together.
Weights(of, keys) == [k \in keys |-> SumSet(of[k].rate)]

\* What is shown together is a sum of these.
LEMMA TrafficIs ==
  ASSUME NEW of, NEW keys, IsFiniteSet(keys), Weights(of, keys) \in [keys -> Nat]
  PROVE  \E g : IsSum(g, keys, Weights(of, keys)) /\ Traffic(of, keys) = g[keys]
<1> DEFINE w == Weights(of, keys)
           Iter(g) == g = [s \in SUBSET keys |->
                             IF s = {} THEN 0
                             ELSE SumSet(of[CHOOSE x \in s : TRUE].rate) + g[s \ {CHOOSE x \in s : TRUE}]]
<1>1. ASSUME NEW s \in SUBSET keys, s # {}
      PROVE  w[FirstOf(s)] = SumSet(of[CHOOSE x \in s : TRUE].rate)
  BY <1>1 DEF FirstOf, Weights
<1>2. ASSUME NEW g PROVE Iter(g) <=> FoldsTo(g, keys, w)
  <2> HIDE DEF w
  <2> QED  BY <1>1 DEF FoldsTo, FirstOf
<1>3. Traffic(of, keys) = (CHOOSE g : Iter(g))[keys]  BY DEF Traffic, MapThenSumSet, MapThenFoldSet
<1> HIDE DEF Iter
<1>4. FoldsTo(CHOOSE g : Iter(g), keys, w)
  <2> HIDE DEF w
  <2>1. \E g : FoldsTo(g, keys, w)  BY FoldSums DEF w
  <2> QED  BY <1>2, <2>1
<1> QED  BY <1>3, <1>4, FoldSums

\* When one row changes, and those that are new show nothing, what is shown changes by that row.
LEMMA TrafficGrows ==
  ASSUME NEW old, NEW of, NEW S, NEW T, IsFiniteSet(T), S \subseteq T,
         Weights(old, S) \in [S -> Nat], Weights(of, T) \in [T -> Nat], NEW k \in T,
         \A x \in S \ {k} : SumSet(of[x].rate) = SumSet(old[x].rate),
         \A x \in (T \ S) \ {k} : SumSet(of[x].rate) = 0
  PROVE  Traffic(of, T) = Traffic(old, S) + SumSet(of[k].rate) - (IF k \in S THEN SumSet(old[k].rate) ELSE 0)
<1> DEFINE w == Weights(old, S)
           v == Weights(of, T)
<1>0. IsFiniteSet(S)  BY FS_Subset
<1>1. PICK g : IsSum(g, S, w) /\ Traffic(old, S) = g[S]  BY <1>0, TrafficIs
<1>2. PICK h : IsSum(h, T, v) /\ Traffic(of, T) = h[T]  BY TrafficIs
<1>3. Alike(S \ {k}, w, v)  BY DEF Alike, Weights
<1>4. Weightless((T \ S) \ {k}, v)  BY DEF Weightless, Weights
<1>5. v[k] = SumSet(of[k].rate) /\ (k \in S => w[k] = SumSet(old[k].rate))  BY DEF Weights
<1> HIDE DEF w, v
<1>6. h[T] = g[S] + v[k] - (IF k \in S THEN w[k] ELSE 0)
  <2>1. IsSum(g, S, w) /\ IsSum(h, T, v)  BY <1>1, <1>2
  <2> QED  BY <1>3, <1>4, <2>1, SumGrows, SMTT(60)
<1> QED  BY <1>1, <1>2, <1>5, <1>6

\* The sum of what is known of a rate.
LEMMA SumOfRate ==
  /\ SumSet({}) = 0
  /\ \A n \in Nat : SumSet({n}) = n
<1>1. SumSet({}) = 0
  <2>1. {} \in SUBSET Nat /\ IsFiniteSet({})  BY FS_EmptySet
  <2>2. PICK g : IsSum(g, {}, [x \in {} |-> x]) /\ SumSet({}) = g[{}]  BY <2>1, SumSetIs
  <2> QED  BY <2>2 DEF IsSum, Sums
<1>2. ASSUME NEW n \in Nat PROVE SumSet({n}) = n
  <2> DEFINE S == {n}
             w == [x \in S |-> x]
  <2>1. S \in SUBSET Nat /\ IsFiniteSet(S)  BY FS_Singleton
  <2>2. PICK g : IsSum(g, S, w) /\ SumSet(S) = g[S]
    <3> HIDE DEF S
    <3> QED  BY <2>1, SumSetIs
  <2>3. S # {} /\ S \in SUBSET S /\ FirstOf(S) = n /\ w[n] = n /\ S \ {n} = {}  BY DEF FirstOf
  <2>4. SumSet(S) = g[S] /\ Sums(g, S, w)  BY <2>2 DEF IsSum
  <2> HIDE DEF w, S
  <2>5. g[S] = n + 0
    <3>1. g[S] = w[FirstOf(S)] + g[S \ {FirstOf(S)}] /\ g[{}] = 0  BY <2>3, <2>4 DEF Sums
    <3> QED  BY <2>3, <3>1, Zenon
  <2> QED  BY <2>4, <2>5 DEF S
<1> QED  BY <1>1, <1>2

\* What the model starts from does not change.
ModelTyped == shape \in [Contacts -> Shapes] /\ left \subseteq {c \in Contacts : Scoped(c)}

\* Sockets and their rows are what they were.
SocketsStay ==
  /\ shape' = shape
  /\ \A d : RowsOf(d)' = RowsOf(d) /\ OwnersOf(d)' = OwnersOf(d) /\ RowOf(d)' = RowOf(d)

\* A contact is taken.
Taking(c) == c \in Contacts \ Taken /\ shape[c] \in Shapes /\ Taken' = Taken \cup {c} /\ SocketsStay

\* build_network_model() takes a socket out of those that are left, and changes none of them.
LEMMA TakeTakes ==
  ASSUME ModelTyped, NEW c, Take(c)
  PROVE  Taking(c) /\ ModelTyped'
<1>1. c \in left /\ left' = left \ {c} /\ shape' = shape /\ instanceMode' = instanceMode  BY DEF Take
<1>2. c \in Contacts /\ Scoped(c) /\ shape[c] \in Shapes  BY <1>1 DEF ModelTyped
<1>3. \A d : RowsOf(d)' = RowsOf(d) /\ OwnersOf(d)' = OwnersOf(d) /\ RowOf(d)' = RowOf(d) /\ (Scoped(d)' <=> Scoped(d))
  BY <1>1 DEF RowsOf, OwnersOf, RowOf, ApplicationOf, Scoped
<1>4. Taken' = Taken \cup {c} /\ c \notin Taken  BY <1>1, <1>2, <1>3 DEF Taken
<1>5. ModelTyped'  BY <1>1, <1>3 DEF ModelTyped
<1> QED  BY <1>1, <1>2, <1>3, <1>4, <1>5 DEF Taking, SocketsStay

\* The sets of contacts that rows are about are finite.
LEMMA TakenFinite ==
  /\ IsFiniteSet(Taken) /\ IsFiniteSet(Connections)
  /\ \A B \in SUBSET Contacts : IsFiniteSet(B) /\ IsFiniteSet(Open(B))
  /\ Connections \subseteq Taken /\ Taken \subseteq Contacts /\ \A k : Between(k) \subseteq Connections
<1>1. Connections \subseteq Taken /\ Taken \subseteq Contacts /\ \A k : Between(k) \subseteq Connections
  BY DEF Connections, Taken, Between
<1>2. \A B \in SUBSET Contacts : IsFiniteSet(B) /\ Open(B) \subseteq B
  BY ContactAssumption, FS_Subset DEF Open
<1>3. \A B \in SUBSET Contacts : IsFiniteSet(Open(B))  BY <1>2, FS_Subset
<1> QED  BY <1>1, <1>2, <1>3

\* A row is about one more contact.
LEMMA OneMore ==
  ASSUME NEW B \in SUBSET Contacts, NEW c \in Contacts, c \notin B
  PROVE  /\ Cardinality(B \cup {c}) = Cardinality(B) + 1
         /\ Cardinality(Open(B \cup {c})) = Cardinality(Open(B)) + One(~shape[c].closed)
         /\ Cardinality({d \in Open(B \cup {c}) : shape[d].new})
              = Cardinality({d \in Open(B) : shape[d].new}) + One(shape[c].new /\ ~shape[c].closed)
         /\ Open(B \cup {c}) = Open(B) \cup (IF shape[c].closed THEN {} ELSE {c})
<1> DEFINE new(cs) == {d \in cs : shape[d].new}
<1>1. IsFiniteSet(B) /\ IsFiniteSet(Open(B))  BY TakenFinite
<1>2. IsFiniteSet(new(Open(B)))  BY <1>1, FS_Subset
<1>3. Open(B \cup {c}) = Open(B) \cup (IF shape[c].closed THEN {} ELSE {c}) /\ c \notin Open(B)  BY DEF Open
<1>4. Cardinality(B \cup {c}) = Cardinality(B) + 1  BY <1>1, FS_AddElement
<1>5. Cardinality(Open(B \cup {c})) = Cardinality(Open(B)) + One(~shape[c].closed)
  <2>1. CASE shape[c].closed
    <3>1. Open(B \cup {c}) = Open(B)  BY <1>3, <2>1
    <3>2. Cardinality(Open(B)) \in Nat  BY <1>1, FS_CardinalityType
    <3> QED  BY <2>1, <3>1, <3>2 DEF One
  <2>2. CASE ~shape[c].closed
    <3>1. Open(B \cup {c}) = Open(B) \cup {c}  BY <1>3, <2>2
    <3> QED  BY <1>1, <1>3, <2>2, <3>1, FS_AddElement DEF One
  <2> QED  BY <2>1, <2>2
<1>6. Cardinality(new(Open(B \cup {c}))) = Cardinality(new(Open(B))) + One(shape[c].new /\ ~shape[c].closed)
  <2>1. CASE shape[c].new /\ ~shape[c].closed
    <3>1. new(Open(B \cup {c})) = new(Open(B)) \cup {c} /\ c \notin new(Open(B))  BY <1>3, <2>1
    <3> QED  BY <1>2, <2>1, <3>1, FS_AddElement DEF One
  <2>2. CASE ~(shape[c].new /\ ~shape[c].closed)
    <3>1. new(Open(B \cup {c})) = new(Open(B))  BY <1>3, <2>2
    <3>2. Cardinality(new(Open(B))) \in Nat  BY <1>2, FS_CardinalityType
    <3>3. One(shape[c].new /\ ~shape[c].closed) = 0  BY <2>2 DEF One
    <3>4. Cardinality(new(Open(B \cup {c}))) = Cardinality(new(Open(B)))  BY <3>1
    <3> HIDE DEF new
    <3> QED  BY <3>2, <3>3, <3>4
  <2> QED  BY <2>1, <2>2
<1> QED  BY <1>3, <1>4, <1>5, <1>6

\* The contacts of a relationship after one more connection.
Joined(c, k) == k[1] \in RowsOf(c) /\ k[2] = shape[c].remote

\* A connection is one more socket of the relationships it belongs to, and of no other.
LEMMA BetweenGrows ==
  ASSUME NEW c, Taking(c), shape[c].kind # "listen"
  PROVE  /\ Connections' = Connections \cup {c} /\ c \notin Connections
         /\ \A k : /\ c \notin Between(k) /\ Between(k) \in SUBSET Contacts
                   /\ Between(k)' = IF Joined(c, k) THEN Between(k) \cup {c} ELSE Between(k)
<1>1. shape[c].kind = "connection"  BY ContactAssumption DEF Taking, SocketsStay
<1>2. Connections' = Connections \cup {c} /\ c \notin Connections  BY <1>1 DEF Taking, SocketsStay, Connections
<1>3. \A k : Between(k)' = IF Joined(c, k) THEN Between(k) \cup {c} ELSE Between(k)
  <2> SUFFICES ASSUME NEW k PROVE Between(k)' = IF Joined(c, k) THEN Between(k) \cup {c} ELSE Between(k)  OBVIOUS
  <2>1. Between(k)' = {d \in Connections' : k[1] \in RowsOf(d) /\ shape[d].remote = k[2]}  BY DEF Between, Taking, SocketsStay
  <2> QED  BY <1>2, <2>1 DEF Between, Joined
<1>4. \A k : c \notin Between(k) /\ Between(k) \in SUBSET Contacts  BY <1>2, TakenFinite DEF Taking, SocketsStay
<1> QED  BY <1>2, <1>3, <1>4

\* A listener is a socket of no relationship.
LEMMA ListenerKeeps ==
  ASSUME NEW c, Taking(c), shape[c].kind = "listen"
  PROVE  Connections' = Connections /\ \A k : Between(k)' = Between(k)
<1>1. Connections' = Connections  BY DEF Taking, SocketsStay, Connections
<1> QED  BY <1>1 DEF Between, Taking, SocketsStay

\* What a row of a table is after a contact.
LEMMA PutIs ==
  ASSUME NEW table, NEW rows
  PROVE  /\ DOMAIN Put(table, rows) = DOMAIN table \cup DOMAIN rows
         /\ \A k \in DOMAIN table \cup DOMAIN rows :
              Put(table, rows)[k] = IF k \in DOMAIN rows THEN rows[k] ELSE table[k]
  BY DEF Put

\* The relationships of a connection.
LinkKeys(c) == RowsOf(c) \X {shape[c].remote}

\* What is known of a rate: nothing, or a number.
Rates == {{}} \cup {{n} : n \in Nat}

\* A relationship is about the sockets between its two ends.
LinkIs(l, k) ==
  /\ l.count = Cardinality(Open(Between(k))) /\ l.total = Cardinality(Between(k))
  /\ l.new = Cardinality({c \in Open(Between(k)) : shape[c].new})
  /\ l.active = (Open(Between(k)) # {})
  /\ l.by = {p \in UNION {OwnersOf(c) : c \in Between(k)} : RowOf(p) = k[1]}

RateIs(rate, k) ==
  /\ rate \in Rates
  /\ rate = {} <=> \A c \in Open(Between(k)) : Cardinality(RowsOf(c)) > 1 \/ shape[c].rate = {}

\* The sockets whose traffic is somebody's.
Telling == {c \in Open(Connections) : Cardinality(RowsOf(c)) = 1}

\* The relationships are those of the connections taken, and each is about its sockets.
LinksAreExact ==
  /\ IsFiniteSet(DOMAIN links) /\ DOMAIN links = UNION {LinkKeys(c) : c \in Connections}
  /\ \A k \in DOMAIN links : LinkIs(links[k], k) /\ RateIs(links[k].rate, k)

\* What the relationships show together is what sockets of one owner tell.
TrafficIsExact == Traffic(links, DOMAIN links) \in Nat /\ Traffic(links, DOMAIN links) = Traffic(shape, Telling)

\* An application counts the open sockets that it owns and knows their remotes.
AppsAreExact ==
  /\ DOMAIN apps = UNION {RowsOf(c) : c \in Taken}
  /\ \A g \in DOMAIN apps : apps[g].count = Cardinality({c \in Open(Taken) : g \in RowsOf(c)})
  /\ \A c \in Connections : \A g \in RowsOf(c) : shape[c].remote \in apps[g].remotes

\* A remote knows who talks to it, and whether anybody does.
RemotesAreExact ==
  /\ DOMAIN remotes = {shape[c].remote : c \in Connections}
  /\ \A c \in Connections : RowsOf(c) \subseteq remotes[shape[c].remote].by
  /\ \A r \in DOMAIN remotes : remotes[r].active = (\E c \in Open(Connections) : shape[c].remote = r)

SummaryIsExact == summary = Cardinality(Open(Connections))

\* The invariant: ModelIsExact, with which rows there are and that rates and sums are numbers.
ModelInv ==
  ModelTyped /\ LinksAreExact /\ TrafficIsExact /\ AppsAreExact /\ RemotesAreExact /\ SummaryIsExact

\* The rows of a contact.
LEMMA RowsFinite ==
  ASSUME NEW c, shape[c] \in Shapes
  PROVE  /\ IsFiniteSet(RowsOf(c)) /\ RowsOf(c) # {} /\ IsFiniteSet(LinkKeys(c)) /\ LinkKeys(c) # {}
         /\ Cardinality(RowsOf(c)) \in Nat \ {0}
         /\ Cardinality(RowsOf(c)) = 1 <=> ~\E g, h \in RowsOf(c) : g # h
<1> DEFINE f == [p \in OwnersOf(c) |-> RowOf(p)]
           h == [g \in RowsOf(c) |-> <<g, shape[c].remote>>]
<1>1. IsFiniteSet(OwnersOf(c)) /\ OwnersOf(c) # {}
  <2>1. OwnersOf(c) \subseteq Holders \cup {Nobody} /\ OwnersOf(c) # {}  BY ContactAssumption DEF OwnersOf
  <2>2. IsFiniteSet(Holders \cup {Nobody})  BY ContactAssumption, FS_AddElement
  <2> QED  BY <2>1, <2>2, FS_Subset
<1>2. f \in Surjection(OwnersOf(c), RowsOf(c))  BY DEF Surjection, RowsOf
<1>3. IsFiniteSet(RowsOf(c))  BY <1>1, <1>2, FS_Surjection
<1>4. RowsOf(c) # {}  BY <1>1 DEF RowsOf
<1>5. h \in Surjection(RowsOf(c), LinkKeys(c))  BY DEF Surjection, LinkKeys
<1>6. IsFiniteSet(LinkKeys(c))  BY <1>3, <1>5, FS_Surjection
<1>7. LinkKeys(c) # {}
  <2>1. PICK g : g \in RowsOf(c)  BY <1>4
  <2>2. <<g, shape[c].remote>> \in LinkKeys(c)  BY <2>1 DEF LinkKeys
  <2> QED  BY <2>2
<1>8. Cardinality(RowsOf(c)) \in Nat \ {0}  BY <1>3, <1>4, FS_CardinalityType, FS_EmptySet
<1>9. Cardinality(RowsOf(c)) = 1 <=> ~\E g, i \in RowsOf(c) : g # i
  <2>1. Cardinality(RowsOf(c)) = 1 <=> \E x : RowsOf(c) = {x}  BY <1>3, FS_Singleton
  <2>2. (\E x : RowsOf(c) = {x}) <=> ~\E g, i \in RowsOf(c) : g # i  BY <1>4
  <2> QED  BY <2>1, <2>2
<1> QED  BY <1>3, <1>4, <1>6, <1>7, <1>8, <1>9

\* What a contact tells, and what a relationship shows after it.
LEMMA RateOfIs ==
  ASSUME NEW c, shape[c] \in Shapes
  PROVE  /\ RateOf(c) \in Rates /\ shape[c].rate \in Rates
         /\ RateOf(c) = IF shape[c].closed \/ Cardinality(RowsOf(c)) > 1 THEN {} ELSE shape[c].rate
<1>1. shape[c].rate \in Rates
  <2>1. shape[c].rate \subseteq Nat /\ \A a, b \in shape[c].rate : a = b  BY ContactAssumption
  <2>2. CASE shape[c].rate = {}  BY <2>2 DEF Rates
  <2>3. ASSUME NEW a \in shape[c].rate PROVE shape[c].rate \in Rates
    <3>1. shape[c].rate = {a} /\ a \in Nat  BY <2>1
    <3> QED  BY <3>1 DEF Rates
  <2> QED  BY <2>2, <2>3
<1>2. Cardinality(RowsOf(c)) > 1 <=> \E g, h \in RowsOf(c) : g # h  BY RowsFinite
<1>3. {} \in Rates  BY DEF Rates
<1> QED  BY <1>1, <1>2, <1>3 DEF RateOf

\* Adding what a contact tells to what is known.
LEMMA AddedIs ==
  ASSUME NEW r \in Rates, NEW m \in Rates
  PROVE  /\ Added(r, m) \in Rates /\ SumSet(Added(r, m)) = SumSet(r) + SumSet(m)
         /\ SumSet(r) \in Nat /\ SumSet(m) \in Nat
         /\ Added(r, m) = {} <=> r = {} /\ m = {}
<1>1. \A x \in Rates : SumSet(x) \in Nat  BY SumOfRate DEF Rates
<1>2. CASE m = {}
  <2>1. Added(r, m) = r /\ SumSet(m) = 0  BY <1>2, SumOfRate DEF Added
  <2>2. SumSet(r) \in Nat  BY <1>1
  <2>3. SumSet(Added(r, m)) = SumSet(r)  BY <2>1, Zenon
  <2> QED  BY <1>2, <2>1, <2>2, <2>3
<1>3. CASE m # {}
  <2> DEFINE n == SumSet(r) + SumSet(m)
  <2>1. n \in Nat  BY <1>1
  <2>2. Added(r, m) = {n}  BY <1>3 DEF Added
  <2> HIDE DEF n
  <2>3. SumSet({n}) = n /\ {n} \in Rates /\ {n} # {}  BY <2>1, SumOfRate DEF Rates
  <2>4. SumSet(Added(r, m)) = n  BY <2>2, <2>3, Zenon
  <2>5. Added(r, m) \in Rates /\ Added(r, m) # {}  BY <2>2, <2>3, Zenon
  <2> QED  BY <1>1, <1>3, <2>4, <2>5 DEF n
<1> QED  BY <1>2, <1>3

\* A relationship whose sockets are the same stays what it is.
LEMMA SameBetween ==
  ASSUME SocketsStay, NEW k, Between(k)' = Between(k), links'[k] = links[k],
         LinkIs(links[k], k), RateIs(links[k].rate, k)
  PROVE  LinkIs(links[k], k)' /\ RateIs(links[k].rate, k)'
<1>1. /\ shape' = shape
      /\ \A d : RowsOf(d)' = RowsOf(d) /\ OwnersOf(d)' = OwnersOf(d) /\ RowOf(d)' = RowOf(d)
  BY DEF SocketsStay
<1>2. Open(Between(k))' = Open(Between(k))  BY <1>1 DEF Open
<1>3. {d \in Open(Between(k)) : shape[d].new}' = {d \in Open(Between(k)) : shape[d].new}  BY <1>1, <1>2
<1>4. (UNION {OwnersOf(d) : d \in Between(k)})' = UNION {OwnersOf(d) : d \in Between(k)}  BY <1>1
<1>5. {p \in UNION {OwnersOf(d) : d \in Between(k)} : RowOf(p) = k[1]}'
        = {p \in UNION {OwnersOf(d) : d \in Between(k)} : RowOf(p) = k[1]}
  BY <1>1, <1>4
<1>6. LinkIs(links[k], k)'  BY <1>2, <1>3, <1>5 DEF LinkIs
<1>7. RateIs(links[k].rate, k)'  BY <1>1, <1>2 DEF RateIs, Rates
<1> QED  BY <1>6, <1>7

\* What Take() says of a relationship that the contact is of.
LEMMA LinkTaken ==
  ASSUME NEW c, Take(c), shape[c].kind # "listen", NEW k \in LinkKeys(c), NEW l,
         l = Row(links, k, [count |-> 0, total |-> 0, new |-> 0, rate |-> {}, active |-> FALSE, by |-> {},
                            shared |-> \E h \in RowsOf(c) : h # k[1]])
  PROVE  /\ k \in DOMAIN links' /\ Joined(c, k)
         /\ links'[k].count = l.count + One(~shape[c].closed)
         /\ links'[k].total = l.total + 1
         /\ links'[k].new = l.new + One(shape[c].new /\ ~shape[c].closed)
         /\ links'[k].rate = Added(l.rate, RateOf(c))
         /\ links'[k].active = (l.active \/ ~shape[c].closed)
         /\ links'[k].by = l.by \cup {p \in OwnersOf(c) : RowOf(p) = k[1]}
<1> DEFINE more == [x \in LinkKeys(c) |-> Linked(c, x[1])]
<1>1. links' = Put(links, more)  BY DEF Take, LinkKeys
<1>2. DOMAIN more = LinkKeys(c) /\ more[k] = Linked(c, k[1])  OBVIOUS
<1> HIDE DEF more
<1>3. k \in DOMAIN links' /\ links'[k] = Linked(c, k[1])
  <2>1. k \in DOMAIN Put(links, more) /\ Put(links, more)[k] = Linked(c, k[1])  BY <1>2 DEF Put
  <2> QED  BY <1>1, <2>1, Zenon
<1>4. k = <<k[1], shape[c].remote>> /\ Joined(c, k)  BY DEF LinkKeys, Joined
<1>5. Linked(c, k[1]) =
        [count |-> l.count + One(~shape[c].closed), total |-> l.total + 1,
         new |-> l.new + One(shape[c].new /\ ~shape[c].closed),
         rate |-> Added(l.rate, RateOf(c)), active |-> l.active \/ ~shape[c].closed,
         by |-> l.by \cup {p \in OwnersOf(c) : RowOf(p) = k[1]}, shared |-> l.shared]
  <2> DEFINE key == <<k[1], shape[c].remote>>
             old == Row(links, key, [count |-> 0, total |-> 0, new |-> 0, rate |-> {}, active |-> FALSE,
                                     by |-> {}, shared |-> \E h \in RowsOf(c) : h # k[1]])
  <2>1. l = old
    <3>1. k = key  BY <1>4
    <3> HIDE DEF key
    <3> QED  BY <3>1, Zenon
  <2>2. Linked(c, k[1]) =
          [count |-> old.count + One(~shape[c].closed), total |-> old.total + 1,
           new |-> old.new + One(shape[c].new /\ ~shape[c].closed),
           rate |-> Added(old.rate, RateOf(c)), active |-> old.active \/ ~shape[c].closed,
           by |-> old.by \cup {p \in OwnersOf(c) : RowOf(p) = k[1]}, shared |-> old.shared]
    BY Zenon DEF Linked
  <2> HIDE DEF old
  <2> QED  BY <2>1, <2>2, Zenon
<1> QED  BY <1>3, <1>4, <1>5

\* The sockets between two ends are those of the keys.
LEMMA BetweenIsOfKeys ==
  ASSUME NEW c, NEW k \in LinkKeys(c)
  PROVE  \A d \in Between(k) : d \in Connections /\ k \in LinkKeys(d)
<1>1. k = <<k[1], k[2]>>  BY DEF LinkKeys
<1> QED  BY <1>1 DEF Between, LinkKeys

\* A relationship with one more socket is about its sockets again, and shows what that one tells.
LEMMA LinkStep ==
  ASSUME LinksAreExact, NEW c, Take(c), Taking(c), shape[c].kind # "listen", NEW k \in LinkKeys(c)
  PROVE  /\ LinkIs(links[k], k)' /\ RateIs(links[k].rate, k)'
         /\ SumSet(links'[k].rate)
              = SumSet(RateOf(c)) + (IF k \in DOMAIN links THEN SumSet(links[k].rate) ELSE 0)
<1> DEFINE several == \E h \in RowsOf(c) : h # k[1]
           fresh == [count |-> 0, total |-> 0, new |-> 0, rate |-> {}, active |-> FALSE, by |-> {},
                     shared |-> several]
           l == Row(links, k, fresh)
           B == Between(k)
<1>1. LinkIs(l, k) /\ RateIs(l.rate, k)
      /\ SumSet(l.rate) = (IF k \in DOMAIN links THEN SumSet(links[k].rate) ELSE 0)
  <2>1. CASE k \in DOMAIN links
    <3>1. l = links[k]  BY <2>1 DEF Row
    <3>2. LinkIs(links[k], k) /\ RateIs(links[k].rate, k)  BY <2>1 DEF LinksAreExact
    <3> HIDE DEF l
    <3> QED  BY <2>1, <3>1, <3>2
  <2>2. CASE k \notin DOMAIN links
    <3>1. l = fresh  BY <2>2 DEF Row
    <3>2. B = {}  BY <2>2, BetweenIsOfKeys DEF LinksAreExact
    <3>3. Open(B) = {} /\ {d \in Open(B) : shape[d].new} = {} /\ UNION {OwnersOf(d) : d \in B} = {}
      BY <3>2 DEF Open
    <3>4. Cardinality({}) = 0  BY FS_EmptySet
    <3> HIDE DEF l, several
    <3>5. /\ l.count = 0 /\ l.total = 0 /\ l.new = 0 /\ l.rate = {} /\ l.active = FALSE /\ l.by = {}
      BY <3>1
    <3>6. LinkIs(l, k)
      <4>1. l.count = Cardinality(Open(B)) /\ l.total = Cardinality(B)
            /\ l.new = Cardinality({d \in Open(B) : shape[d].new})
        BY <3>2, <3>3, <3>4, <3>5
      <4> QED  BY <3>3, <3>5, <4>1 DEF LinkIs
    <3>7. RateIs(l.rate, k)  BY <3>3, <3>5 DEF RateIs, Rates
    <3>8. SumSet(l.rate) = 0  BY <3>5, SumOfRate
    <3> QED  BY <2>2, <3>6, <3>7, <3>8
  <2> QED  BY <2>1, <2>2
<1>2. /\ links'[k].count = l.count + One(~shape[c].closed)
      /\ links'[k].total = l.total + 1
      /\ links'[k].new = l.new + One(shape[c].new /\ ~shape[c].closed)
      /\ links'[k].rate = Added(l.rate, RateOf(c))
      /\ links'[k].active = (l.active \/ ~shape[c].closed)
      /\ links'[k].by = l.by \cup {p \in OwnersOf(c) : RowOf(p) = k[1]}
      /\ Joined(c, k)
  BY LinkTaken
<1> HIDE DEF l
<1>3. /\ Between(k)' = B \cup {c} /\ c \notin B /\ B \in SUBSET Contacts /\ c \in Contacts /\ shape[c] \in Shapes
  BY <1>2, BetweenGrows DEF Taking, SocketsStay
<1>4. /\ shape' = shape
      /\ \A d : RowsOf(d)' = RowsOf(d) /\ OwnersOf(d)' = OwnersOf(d) /\ RowOf(d)' = RowOf(d)
  BY DEF Taking, SocketsStay
<1>5. Open(Between(k))' = Open(B \cup {c})  BY <1>3, <1>4 DEF Open
<1> HIDE DEF B
<1>6. /\ Cardinality(B \cup {c}) = Cardinality(B) + 1
      /\ Cardinality(Open(B \cup {c})) = Cardinality(Open(B)) + One(~shape[c].closed)
      /\ Cardinality({d \in Open(B \cup {c}) : shape[d].new})
           = Cardinality({d \in Open(B) : shape[d].new}) + One(shape[c].new /\ ~shape[c].closed)
      /\ Open(B \cup {c}) = Open(B) \cup (IF shape[c].closed THEN {} ELSE {c})
  BY <1>3, OneMore
<1>7. /\ l.count = Cardinality(Open(B)) /\ l.total = Cardinality(B)
      /\ l.new = Cardinality({d \in Open(B) : shape[d].new})
      /\ l.active = (Open(B) # {})
      /\ l.by = {p \in UNION {OwnersOf(d) : d \in B} : RowOf(p) = k[1]}
      /\ l.rate \in Rates
      /\ l.rate = {} <=> \A d \in Open(B) : Cardinality(RowsOf(d)) > 1 \/ shape[d].rate = {}
  BY <1>1 DEF LinkIs, RateIs, B
<1>8. LinkIs(links[k], k)'
  <2>1. links'[k].count = Cardinality(Open(Between(k))') /\ links'[k].total = Cardinality(Between(k)')
    BY <1>2, <1>3, <1>5, <1>6, <1>7
  <2>2. {d \in Open(Between(k)) : shape[d].new}' = {d \in Open(B \cup {c}) : shape[d].new}  BY <1>4, <1>5
  <2>3. links'[k].new = Cardinality({d \in Open(Between(k)) : shape[d].new}')  BY <1>2, <1>6, <1>7, <2>2
  <2>4. links'[k].active = (Open(Between(k))' # {})  BY <1>2, <1>5, <1>6, <1>7
  <2>5. {p \in UNION {OwnersOf(d) : d \in Between(k)} : RowOf(p) = k[1]}'
          = {p \in UNION {OwnersOf(d) : d \in B \cup {c}} : RowOf(p) = k[1]}
    <3>1. (UNION {OwnersOf(d) : d \in Between(k)})' = UNION {OwnersOf(d) : d \in B \cup {c}}  BY <1>3, <1>4
    <3> QED  BY <1>4, <3>1
  <2>6. {p \in UNION {OwnersOf(d) : d \in B \cup {c}} : RowOf(p) = k[1]}
          = {p \in UNION {OwnersOf(d) : d \in B} : RowOf(p) = k[1]} \cup {p \in OwnersOf(c) : RowOf(p) = k[1]}
    OBVIOUS
  <2>7. links'[k].by = {p \in UNION {OwnersOf(d) : d \in Between(k)} : RowOf(p) = k[1]}'
    BY <1>2, <1>7, <2>5, <2>6
  <2> QED  BY <2>1, <2>3, <2>4, <2>7 DEF LinkIs
<1>9. /\ RateOf(c) \in Rates
      /\ RateOf(c) = IF shape[c].closed \/ Cardinality(RowsOf(c)) > 1 THEN {} ELSE shape[c].rate
  BY <1>3, RateOfIs
<1>10. /\ Added(l.rate, RateOf(c)) \in Rates
       /\ SumSet(Added(l.rate, RateOf(c))) = SumSet(l.rate) + SumSet(RateOf(c))
       /\ SumSet(l.rate) \in Nat /\ SumSet(RateOf(c)) \in Nat
       /\ Added(l.rate, RateOf(c)) = {} <=> l.rate = {} /\ RateOf(c) = {}
  BY <1>7, <1>9, AddedIs
<1>11. RateIs(links[k].rate, k)'
  <2>1. links'[k].rate = {} <=> l.rate = {} /\ RateOf(c) = {}  BY <1>2, <1>10, Zenon
  <2>2. links'[k].rate \in Rates  BY <1>2, <1>10, Zenon
  <2>3. (\A d \in Open(B \cup {c}) : Cardinality(RowsOf(d)) > 1 \/ shape[d].rate = {})
          <=> (\A d \in Open(B) : Cardinality(RowsOf(d)) > 1 \/ shape[d].rate = {})
              /\ (shape[c].closed \/ Cardinality(RowsOf(c)) > 1 \/ shape[c].rate = {})
    BY <1>6
  <2>4. links'[k].rate = {} <=> \A d \in Open(B \cup {c}) : Cardinality(RowsOf(d)) > 1 \/ shape[d].rate = {}
    BY <1>7, <1>9, <2>1, <2>3
  <2>5. (\A d \in Open(Between(k)) : Cardinality(RowsOf(d)) > 1 \/ shape[d].rate = {})'
          <=> \A d \in Open(B \cup {c}) : Cardinality(RowsOf(d)) > 1 \/ shape[d].rate = {}
    BY <1>4, <1>5
  <2> QED  BY <2>2, <2>4, <2>5 DEF RateIs, Rates
<1>12. SumSet(links'[k].rate) = SumSet(l.rate) + SumSet(RateOf(c))  BY <1>2, <1>10, Zenon
<1> QED  BY <1>1, <1>8, <1>10, <1>11, <1>12

\* A contact makes or extends the relationships of its rows and leaves the others alone.
LEMMA LinksStep ==
  ASSUME LinksAreExact, NEW c, Take(c), Taking(c)
  PROVE  /\ LinksAreExact'
         /\ shape[c].kind # "listen" =>
              /\ DOMAIN links' = DOMAIN links \cup LinkKeys(c)
              /\ \A k \in DOMAIN links \ LinkKeys(c) : links'[k] = links[k]
<1>1. shape' = shape /\ \A d : RowsOf(d)' = RowsOf(d) /\ LinkKeys(d)' = LinkKeys(d)  BY DEF Taking, SocketsStay, LinkKeys
<1>0. SocketsStay  BY DEF Taking
<1>2. \A k \in DOMAIN links : LinkIs(links[k], k) /\ RateIs(links[k].rate, k)  BY DEF LinksAreExact
<1>3. CASE shape[c].kind = "listen"
  <2>1. Connections' = Connections /\ \A k : Between(k)' = Between(k)  BY <1>3, ListenerKeeps
  <2>2. links' = links  BY <1>3 DEF Take
  <2>3. ASSUME NEW k \in DOMAIN links PROVE LinkIs(links[k], k)' /\ RateIs(links[k].rate, k)'
    <3>1. Between(k)' = Between(k) /\ links'[k] = links[k] /\ LinkIs(links[k], k) /\ RateIs(links[k].rate, k)
      BY <1>2, <2>1, <2>2
    <3> QED  BY <1>0, <3>1, SameBetween
  <2>4. (UNION {LinkKeys(d) : d \in Connections})' = UNION {LinkKeys(d) : d \in Connections}  BY <1>1, <2>1
  <2> QED  BY <1>3, <2>2, <2>3, <2>4 DEF LinksAreExact
<1>4. CASE shape[c].kind # "listen"
  <2>1. /\ Connections' = Connections \cup {c}
        /\ \A k : Between(k)' = IF Joined(c, k) THEN Between(k) \cup {c} ELSE Between(k)
    BY <1>4, BetweenGrows
  <2> DEFINE more == [k \in LinkKeys(c) |-> Linked(c, k[1])]
  <2>2. links' = Put(links, more) /\ DOMAIN more = LinkKeys(c)  BY <1>4 DEF Take, LinkKeys
  <2> HIDE DEF more
  <2>3. /\ DOMAIN links' = DOMAIN links \cup LinkKeys(c)
        /\ \A k \in DOMAIN links \ LinkKeys(c) : links'[k] = links[k]
    BY <2>2 DEF Put
  <2>4. IsFiniteSet(DOMAIN links')
    <3>1. IsFiniteSet(LinkKeys(c)) /\ IsFiniteSet(DOMAIN links)  BY RowsFinite DEF LinksAreExact, Taking, SocketsStay
    <3> QED  BY <2>3, <3>1, FS_Union
  <2>5. DOMAIN links' = (UNION {LinkKeys(d) : d \in Connections})'
    <3>1. (UNION {LinkKeys(d) : d \in Connections})' = UNION {LinkKeys(d) : d \in Connections \cup {c}}  BY <1>1, <2>1
    <3> QED  BY <2>3, <3>1 DEF LinksAreExact
  <2>6. ASSUME NEW k \in DOMAIN links' PROVE LinkIs(links[k], k)' /\ RateIs(links[k].rate, k)'
    <3>1. CASE k \in LinkKeys(c)  BY <1>4, <3>1, LinkStep
    <3>2. CASE k \notin LinkKeys(c)
      <4>1. k \in DOMAIN links /\ links'[k] = links[k]  BY <2>3, <3>2
      <4>2. k = <<k[1], k[2]>>  BY <4>1 DEF LinksAreExact, LinkKeys
      <4>3. Between(k)' = Between(k)  BY <2>1, <3>2, <4>2 DEF Joined, LinkKeys
      <4>4. LinkIs(links[k], k) /\ RateIs(links[k].rate, k)  BY <1>2, <4>1
      <4> QED  BY <1>0, <4>1, <4>3, <4>4, SameBetween
    <3> QED  BY <3>1, <3>2
  <2> QED  BY <2>3, <2>4, <2>5, <2>6 DEF LinksAreExact
<1> QED  BY <1>3, <1>4

\* What is known of the rates of rows, and of sockets, can be added up.
LEMMA WeightsAdd ==
  ASSUME NEW of, NEW keys, \A k \in keys : of[k].rate \in Rates
  PROVE  Weights(of, keys) \in [keys -> Nat]
<1>1. ASSUME NEW k \in keys PROVE SumSet(of[k].rate) \in Nat
  <2>1. of[k].rate \in Rates  OBVIOUS
  <2> QED  BY <2>1, AddedIs
<1> QED  BY <1>1 DEF Weights

\* A contact adds what it tells to what is shown together: if applications share it, nothing.
LEMMA ShownStep ==
  ASSUME LinksAreExact, TrafficIsExact, NEW c, Take(c), Taking(c), shape[c].kind # "listen"
  PROVE  Traffic(links', DOMAIN links') = Traffic(links, DOMAIN links) + SumSet(RateOf(c))
<1> DEFINE S == DOMAIN links
           T == DOMAIN links'
<1>1. LinksAreExact' /\ T = S \cup LinkKeys(c) /\ \A k \in S \ LinkKeys(c) : links'[k] = links[k]  BY LinksStep
<1>2. \A k \in S : links[k].rate \in Rates  BY DEF LinksAreExact, RateIs
<1>3. \A k \in T : links'[k].rate \in Rates
  <2>1. \A k \in T : RateIs(links[k].rate, k)'  BY <1>1 DEF LinksAreExact
  <2> QED  BY <2>1 DEF RateIs, Rates
<1>4. IsFiniteSet(T)  BY <1>1 DEF LinksAreExact
<1>5. shape[c] \in Shapes  BY DEF Taking, SocketsStay
<1>6. PICK k : k \in LinkKeys(c)  BY <1>5, RowsFinite
<1>7. ASSUME NEW x \in LinkKeys(c)
      PROVE  SumSet(links'[x].rate) = SumSet(RateOf(c)) + (IF x \in S THEN SumSet(links[x].rate) ELSE 0)
  BY LinkStep
<1>8. ASSUME NEW x \in LinkKeys(c), x # k PROVE RateOf(c) = {} /\ SumSet(RateOf(c)) = 0
  <2>1. x[1] \in RowsOf(c) /\ k[1] \in RowsOf(c) /\ x[1] # k[1]  BY <1>6, <1>8 DEF LinkKeys
  <2>2. RateOf(c) = {}  BY <2>1 DEF RateOf
  <2> QED  BY <2>2, SumOfRate
<1>9. \A x \in S : SumSet(links[x].rate) \in Nat  BY <1>2, AddedIs
<1>10. ASSUME NEW x \in S \ {k} PROVE SumSet(links'[x].rate) = SumSet(links[x].rate)
  <2>1. CASE x \in LinkKeys(c)
    <3>1. SumSet(links'[x].rate) = SumSet(RateOf(c)) + SumSet(links[x].rate)  BY <1>7, <1>10, <2>1
    <3> QED  BY <1>8, <1>9, <1>10, <2>1, <3>1
  <2>2. CASE x \notin LinkKeys(c)
    <3>1. links'[x] = links[x]  BY <1>1, <1>10, <2>2
    <3> QED  BY <3>1, Zenon
  <2> QED  BY <2>1, <2>2
<1>11. ASSUME NEW x \in (T \ S) \ {k} PROVE SumSet(links'[x].rate) = 0
  <2>1. x \in LinkKeys(c) /\ x # k /\ x \notin S  BY <1>1, <1>11
  <2>2. SumSet(links'[x].rate) = SumSet(RateOf(c)) + 0 /\ SumSet(RateOf(c)) = 0  BY <1>7, <1>8, <2>1
  <2> QED  BY <2>2
<1>12. S \subseteq T /\ k \in T  BY <1>1, <1>6
<1>13. Weights(links, S) \in [S -> Nat]  BY <1>2, WeightsAdd
<1>14. Weights(links', T) \in [T -> Nat]  BY <1>3, WeightsAdd
<1>15. SumSet(RateOf(c)) \in Nat  BY <1>5, RateOfIs, AddedIs
<1>16. Traffic(links, S) \in Nat  BY DEF TrafficIsExact
<1>17. SumSet(links'[k].rate) = SumSet(RateOf(c)) + (IF k \in S THEN SumSet(links[k].rate) ELSE 0)  BY <1>6, <1>7
<1> HIDE DEF S, T
<1>18. Traffic(links', T) = Traffic(links, S) + SumSet(links'[k].rate)
                              - (IF k \in S THEN SumSet(links[k].rate) ELSE 0)
  BY <1>4, <1>10, <1>11, <1>12, <1>13, <1>14, TrafficGrows
<1>19. Traffic(links', T) = Traffic(links, S) + SumSet(RateOf(c))
  <2>1. CASE k \in S
    <3>1. SumSet(links[k].rate) \in Nat  BY <1>9, <2>1
    <3> QED  BY <1>15, <1>16, <1>17, <1>18, <2>1, <3>1
  <2>2. CASE k \notin S  BY <1>15, <1>16, <1>17, <1>18, <2>2
  <2> QED  BY <2>1, <2>2
<1> QED  BY <1>19 DEF S, T

\* What is shown together stays what the sockets tell.
LEMMA TrafficStep ==
  ASSUME ModelTyped, LinksAreExact, TrafficIsExact, NEW c, Take(c), Taking(c)
  PROVE  TrafficIsExact'
<1>1. shape' = shape /\ (\A d : RowsOf(d)' = RowsOf(d)) /\ c \in Contacts /\ shape[c] \in Shapes  BY DEF Taking, SocketsStay
<1>2. CASE shape[c].kind = "listen"
  <2>1. Connections' = Connections  BY <1>2, ListenerKeeps
  <2>2. Telling' = Telling  BY <1>1, <2>1 DEF Telling, Open
  <2>3. links' = links  BY <1>2 DEF Take
  <2> QED  BY <1>1, <2>2, <2>3 DEF TrafficIsExact
<1>3. CASE shape[c].kind # "listen"
  <2> DEFINE told == shape[c].closed \/ Cardinality(RowsOf(c)) > 1
  <2>1. Traffic(links', DOMAIN links') = Traffic(links, DOMAIN links) + SumSet(RateOf(c))  BY <1>3, ShownStep
  <2>2. Connections' = Connections \cup {c} /\ c \notin Connections  BY <1>3, BetweenGrows
  <2>3. RateOf(c) = (IF told THEN {} ELSE shape[c].rate) /\ RateOf(c) \in Rates  BY <1>1, RateOfIs
  <2>4. Cardinality(RowsOf(c)) = 1 <=> ~(Cardinality(RowsOf(c)) > 1)  BY <1>1, RowsFinite
  <2>5. Telling' = Telling \cup (IF told THEN {} ELSE {c}) /\ c \notin Telling
    BY <1>1, <2>2, <2>4 DEF Telling, Open
  <2>6. SumSet(RateOf(c)) \in Nat  BY <2>3, AddedIs
  <2>7. Traffic(shape, Telling') = Traffic(shape, Telling) + SumSet(RateOf(c))
    <3>1. Traffic(shape, Telling) \in Nat  BY DEF TrafficIsExact
    <3>2. CASE told
      <4>1. Telling' = Telling /\ SumSet(RateOf(c)) = 0  BY <2>3, <2>5, <3>2, SumOfRate
      <4>2. Traffic(shape, Telling') = Traffic(shape, Telling)  BY <4>1
      <4> QED  BY <3>1, <4>1, <4>2
    <3>3. CASE ~told
      <4> DEFINE S == Telling
                 T == Telling'
      <4>1. T = S \cup {c} /\ c \notin S /\ RateOf(c) = shape[c].rate  BY <2>3, <2>5, <3>3
      <4>2. S \subseteq Contacts  BY TakenFinite DEF Telling, Open
      <4>3. T \subseteq Contacts  BY <1>1, <4>1, <4>2
      <4>4. IsFiniteSet(T)  BY <4>3, TakenFinite
      <4>5. \A d \in T : shape[d].rate \in Rates  BY <4>3, RateOfIs DEF ModelTyped
      <4>6. Weights(shape, S) \in [S -> Nat] /\ Weights(shape, T) \in [T -> Nat]
        <5> HIDE DEF S, T
        <5> QED  BY <4>1, <4>5, WeightsAdd
      <4> HIDE DEF S, T
      <4>7. Traffic(shape, T) = Traffic(shape, S) + SumSet(shape[c].rate)
                                  - (IF c \in S THEN SumSet(shape[c].rate) ELSE 0)
        <5>1. S \subseteq T /\ c \in T /\ (T \ S) \ {c} = {}  BY <4>1
        <5> QED  BY <4>4, <4>6, <5>1, TrafficGrows
      <4>8. SumSet(shape[c].rate) = SumSet(RateOf(c))  BY <4>1, Zenon
      <4>9. Traffic(shape, T) = Traffic(shape, S) + SumSet(RateOf(c)) - 0  BY <4>1, <4>7, <4>8
      <4> QED  BY <2>6, <3>1, <4>9 DEF S, T
    <3> QED  BY <3>2, <3>3
  <2>8. Traffic(links', DOMAIN links') = Traffic(shape', Telling') /\ Traffic(links', DOMAIN links') \in Nat
    BY <1>1, <2>1, <2>6, <2>7 DEF TrafficIsExact
  <2> QED  BY <2>8 DEF TrafficIsExact
<1> QED  BY <1>2, <1>3

\* A contact is counted by its applications, once by each.
LEMMA AppsStep ==
  ASSUME AppsAreExact, NEW c, Take(c), Taking(c)
  PROVE  AppsAreExact'
<1> DEFINE with(g) == {d \in Taken : g \in RowsOf(d)}
           old(g) == Row(apps, g, [count |-> 0, active |-> FALSE, remotes |-> {}])
           more == [g \in RowsOf(c) |->
                      [count |-> old(g).count + One(~shape[c].closed), active |-> old(g).active \/ ~shape[c].closed,
                       remotes |-> old(g).remotes \cup (IF shape[c].kind = "listen" THEN {} ELSE {shape[c].remote})]]
<1>1. /\ c \in Contacts \ Taken /\ shape[c] \in Shapes /\ Taken' = Taken \cup {c}
      /\ \A d : RowsOf(d)' = RowsOf(d)
      /\ shape' = shape
  BY DEF Taking, SocketsStay
<1>2. apps' = Put(apps, more)  BY DEF Take
<1>3. /\ DOMAIN more = RowsOf(c)
      /\ \A g \in RowsOf(c) :
           /\ more[g].count = old(g).count + One(~shape[c].closed)
           /\ more[g].remotes = old(g).remotes \cup (IF shape[c].kind = "listen" THEN {} ELSE {shape[c].remote})
  <2> HIDE DEF old
  <2> QED  OBVIOUS
<1> HIDE DEF more
<1>4. /\ DOMAIN apps' = DOMAIN apps \cup RowsOf(c)
      /\ \A g \in RowsOf(c) : apps'[g] = more[g]
      /\ \A g \in DOMAIN apps \ RowsOf(c) : apps'[g] = apps[g]
  BY <1>2, <1>3 DEF Put
<1>5. DOMAIN apps' = (UNION {RowsOf(d) : d \in Taken})'
  <2>1. (UNION {RowsOf(d) : d \in Taken})' = UNION {RowsOf(d) : d \in Taken \cup {c}}  BY <1>1
  <2> QED  BY <1>4, <2>1 DEF AppsAreExact
<1>6. ASSUME NEW g PROVE {d \in Open(Taken) : g \in RowsOf(d)}' = Open(with(g) \cup (IF g \in RowsOf(c) THEN {c} ELSE {}))
                         /\ {d \in Open(Taken) : g \in RowsOf(d)} = Open(with(g))
  BY <1>1 DEF Open
<1>7. ASSUME NEW g \in RowsOf(c) PROVE old(g).count = Cardinality(Open(with(g)))
  <2>1. CASE g \in DOMAIN apps
    <3>1. old(g) = apps[g]  BY <2>1 DEF Row
    <3>2. apps[g].count = Cardinality({d \in Open(Taken) : g \in RowsOf(d)})  BY <2>1 DEF AppsAreExact
    <3> QED  BY <1>6, <3>1, <3>2
  <2>2. CASE g \notin DOMAIN apps
    <3>1. old(g).count = 0  BY <2>2 DEF Row
    <3>2. with(g) = {}  BY <2>2 DEF AppsAreExact
    <3>3. Open(with(g)) = {}  BY <3>2 DEF Open
    <3> QED  BY <3>1, <3>3, FS_EmptySet
  <2> QED  BY <2>1, <2>2
<1>8. ASSUME NEW g \in DOMAIN apps' PROVE apps'[g].count = Cardinality({d \in Open(Taken) : g \in RowsOf(d)}')
  <2>1. CASE g \in RowsOf(c)
    <3>1. apps'[g].count = old(g).count + One(~shape[c].closed)  BY <1>3, <1>4, <2>1
    <3>2. with(g) \in SUBSET Contacts /\ c \notin with(g)  BY <1>1, TakenFinite
    <3>3. old(g).count = Cardinality(Open(with(g)))  BY <1>7, <2>1
    <3>4. {d \in Open(Taken) : g \in RowsOf(d)}' = Open(with(g) \cup {c})  BY <1>6, <2>1
    <3> HIDE DEF with, old
    <3>5. Cardinality(Open(with(g) \cup {c})) = Cardinality(Open(with(g))) + One(~shape[c].closed)
      BY <1>1, <3>2, OneMore
    <3> QED  BY <3>1, <3>3, <3>4, <3>5
  <2>2. CASE g \notin RowsOf(c)
    <3>1. g \in DOMAIN apps /\ apps'[g] = apps[g]  BY <1>4, <2>2
    <3>2. {d \in Open(Taken) : g \in RowsOf(d)}' = {d \in Open(Taken) : g \in RowsOf(d)}  BY <1>6, <2>2
    <3>3. apps[g].count = Cardinality({d \in Open(Taken) : g \in RowsOf(d)})  BY <3>1 DEF AppsAreExact
    <3> QED  BY <3>1, <3>2, <3>3
  <2> QED  BY <2>1, <2>2
<1>9. ASSUME NEW d \in Connections', NEW g \in RowsOf(d) PROVE shape[d].remote \in apps'[g].remotes
  <2>1. d = c => shape[c].kind # "listen"  BY ContactAssumption, <1>1, <1>9 DEF Connections
  <2>2. d # c => d \in Connections  BY <1>1, <1>9 DEF Connections
  <2>3. d # c => shape[d].remote \in apps[g].remotes /\ g \in DOMAIN apps
    BY <2>2 DEF AppsAreExact, Connections
  <2>4. CASE g \in RowsOf(c)
    <3>1. apps'[g].remotes = old(g).remotes \cup (IF shape[c].kind = "listen" THEN {} ELSE {shape[c].remote})
      BY <1>3, <1>4, <2>4
    <3>2. CASE d = c
      <4> HIDE DEF old
      <4> QED  BY <2>1, <3>1, <3>2
    <3>3. CASE d # c
      <4>1. old(g) = apps[g]  BY <2>3, <3>3 DEF Row
      <4> HIDE DEF old
      <4>2. shape[d].remote \in old(g).remotes  BY <2>3, <3>3, <4>1
      <4> QED  BY <3>1, <4>2
    <3> QED  BY <3>2, <3>3
  <2>5. CASE g \notin RowsOf(c)
    <3>1. d # c  BY <2>5
    <3>2. apps'[g] = apps[g]  BY <1>4, <2>3, <2>5, <3>1
    <3> QED  BY <2>3, <3>1, <3>2
  <2> QED  BY <2>4, <2>5
<1>10. \A d \in Connections' : \A g \in RowsOf(d)' : shape'[d].remote \in apps'[g].remotes  BY <1>1, <1>9
<1> HIDE DEF with, old
<1> QED  BY <1>5, <1>8, <1>10 DEF AppsAreExact

\* A connection makes or extends the row of its remote.
LEMMA RemotesStep ==
  ASSUME RemotesAreExact, NEW c, Take(c), Taking(c)
  PROVE  RemotesAreExact'
<1>1. /\ shape' = shape /\ (\A d : RowsOf(d)' = RowsOf(d)) /\ c \notin Connections
  BY DEF Taking, SocketsStay, Connections
<1>2. CASE shape[c].kind = "listen"
  <2>1. Connections' = Connections /\ remotes' = remotes  BY <1>2, ListenerKeeps DEF Take
  <2>2. Open(Connections)' = Open(Connections)  BY <1>1, <2>1 DEF Open
  <2>3. DOMAIN remotes' = {shape[d].remote : d \in Connections}'  BY <1>1, <2>1 DEF RemotesAreExact
  <2>4. \A d \in Connections' : RowsOf(d)' \subseteq remotes'[shape'[d].remote].by
    BY <1>1, <2>1 DEF RemotesAreExact
  <2>5. ASSUME NEW x \in DOMAIN remotes'
        PROVE  remotes'[x].active = (\E d \in Open(Connections) : shape[d].remote = x)'
    <3>1. remotes[x].active = (\E d \in Open(Connections) : shape[d].remote = x)  BY <2>1 DEF RemotesAreExact
    <3>2. (\E d \in Open(Connections) : shape[d].remote = x)' <=> \E d \in Open(Connections) : shape[d].remote = x
      BY <1>1, <2>2
    <3> QED  BY <2>1, <3>1, <3>2
  <2> QED  BY <2>3, <2>4, <2>5, Zenon DEF RemotesAreExact
<1>3. CASE shape[c].kind # "listen"
  <2> DEFINE r == shape[c].remote
             old == Row(remotes, r, [count |-> 0, active |-> FALSE, by |-> {}])
             new == [count |-> old.count + (IF shape[c].closed THEN 0 ELSE Cardinality(RowsOf(c))),
                     active |-> old.active \/ ~shape[c].closed, by |-> old.by \cup RowsOf(c)]
             more == [x \in {r} |-> new]
  <2>1. Connections' = Connections \cup {c}  BY <1>3, BetweenGrows
  <2>2. remotes' = Put(remotes, more)  BY <1>3 DEF Take
  <2>3. new.active = (old.active \/ ~shape[c].closed) /\ new.by = old.by \cup RowsOf(c)
    <3> HIDE DEF old
    <3> QED  OBVIOUS
  <2>4. DOMAIN more = {r} /\ more[r] = new
    <3> HIDE DEF new
    <3> QED  OBVIOUS
  <2> HIDE DEF more, new
  <2>5. /\ DOMAIN remotes' = DOMAIN remotes \cup {r} /\ remotes'[r] = new
        /\ \A x \in DOMAIN remotes \ {r} : remotes'[x] = remotes[x]
    BY <2>2, <2>4 DEF Put
  <2>6. r \in DOMAIN remotes => old = remotes[r]  BY DEF Row
  <2>7. r \notin DOMAIN remotes => old.active = FALSE /\ \A d \in Connections : shape[d].remote # r
    BY DEF Row, RemotesAreExact
  <2>8. old.active = (\E d \in Open(Connections) : shape[d].remote = r)
    BY <2>6, <2>7 DEF RemotesAreExact, Open
  <2> HIDE DEF old
  <2>9. DOMAIN remotes' = {shape[d].remote : d \in Connections}'
    BY <1>1, <2>1, <2>5 DEF RemotesAreExact
  <2>10. ASSUME NEW d \in Connections' PROVE RowsOf(d) \subseteq remotes'[shape[d].remote].by
    <3>1. CASE d = c  BY <2>3, <2>5, <3>1
    <3>2. CASE d # c
      <4>1. d \in Connections /\ shape[d].remote \in DOMAIN remotes /\ RowsOf(d) \subseteq remotes[shape[d].remote].by
        BY <2>1, <3>2 DEF RemotesAreExact
      <4>2. CASE shape[d].remote = r
        <5>1. RowsOf(d) \subseteq old.by  BY <2>6, <4>1, <4>2
        <5> QED  BY <2>3, <2>5, <4>2, <5>1
      <4>3. CASE shape[d].remote # r  BY <2>5, <4>1, <4>3
      <4> QED  BY <4>2, <4>3
    <3> QED  BY <3>1, <3>2
  <2>11. ASSUME NEW x \in DOMAIN remotes'
         PROVE  remotes'[x].active = (\E d \in Open(Connections \cup {c}) : shape[d].remote = x)
    <3>1. CASE x = r
      <4>1. remotes'[x].active = (old.active \/ ~shape[c].closed)  BY <2>3, <2>5, <3>1
      <4> QED  BY <2>8, <3>1, <4>1 DEF Open
    <3>2. CASE x # r
      <4>1. x \in DOMAIN remotes /\ remotes'[x] = remotes[x]  BY <2>5, <3>2
      <4>2. remotes[x].active = (\E d \in Open(Connections) : shape[d].remote = x)  BY <4>1 DEF RemotesAreExact
      <4> QED  BY <3>2, <4>1, <4>2 DEF Open
    <3> QED  BY <3>1, <3>2
  <2>12. Open(Connections)' = Open(Connections \cup {c})  BY <1>1, <2>1 DEF Open
  <2>13. \A d \in Connections' : RowsOf(d)' \subseteq remotes'[shape'[d].remote].by  BY <1>1, <2>10
  <2>14. ASSUME NEW x \in DOMAIN remotes'
         PROVE  remotes'[x].active = (\E d \in Open(Connections) : shape[d].remote = x)'
    <3>1. (\E d \in Open(Connections) : shape[d].remote = x)'
            <=> \E d \in Open(Connections \cup {c}) : shape[d].remote = x
      BY <1>1, <2>12
    <3> QED  BY <2>11, <3>1
  <2> QED  BY <2>9, <2>13, <2>14, Zenon DEF RemotesAreExact
<1> QED  BY <1>2, <1>3

\* A connection is counted once in the summary, whoever shares it.
LEMMA SummaryStep ==
  ASSUME SummaryIsExact, NEW c, Take(c), Taking(c)
  PROVE  SummaryIsExact'
<1>1. shape' = shape  BY DEF Taking, SocketsStay
<1>2. CASE shape[c].kind = "listen"
  <2>1. Connections' = Connections /\ summary' = summary  BY <1>2, ListenerKeeps DEF Take
  <2>2. Open(Connections)' = Open(Connections)  BY <1>1, <2>1 DEF Open
  <2> QED  BY <2>1, <2>2 DEF SummaryIsExact
<1>3. CASE shape[c].kind # "listen"
  <2>1. Connections' = Connections \cup {c} /\ c \notin Connections  BY <1>3, BetweenGrows
  <2>2. Connections \in SUBSET Contacts /\ c \in Contacts  BY TakenFinite DEF Taking, SocketsStay
  <2>3. Cardinality(Open(Connections \cup {c})) = Cardinality(Open(Connections)) + One(~shape[c].closed)
    BY <2>1, <2>2, OneMore
  <2>4. Open(Connections)' = Open(Connections \cup {c})  BY <1>1, <2>1 DEF Open
  <2>5. summary' = summary + One(~shape[c].closed)  BY <1>3 DEF Take
  <2> QED  BY <2>3, <2>4, <2>5 DEF SummaryIsExact
<1> QED  BY <1>2, <1>3

\* Nothing is said before the first contact.
LEMMA ModelInvInit ==
  ASSUME ModelInit
  PROVE  ModelInv
<1>1. /\ shape \in [Contacts -> Shapes] /\ left = {c \in Contacts : Scoped(c)}
      /\ links = Empty /\ apps = Empty /\ remotes = Empty /\ summary = 0
  BY DEF ModelInit
<1>2. DOMAIN Empty = {}  BY DEF Empty
<1>3. Taken = {} /\ Connections = {} /\ Open(Connections) = {} /\ Telling = {}
  BY <1>1 DEF Taken, Connections, Open, Telling
<1>4. ModelTyped  BY <1>1 DEF ModelTyped
<1>5. LinksAreExact
  <2>1. DOMAIN links = {}  BY <1>1, <1>2
  <2> QED  BY <1>3, <2>1, FS_EmptySet DEF LinksAreExact
<1>6. TrafficIsExact
  <2>1. ASSUME NEW of PROVE Traffic(of, {}) = 0
    <3>1. Weights(of, {}) \in [{} -> Nat]  BY DEF Weights
    <3>2. IsFiniteSet({})  BY FS_EmptySet
    <3>3. PICK g : IsSum(g, {}, Weights(of, {})) /\ Traffic(of, {}) = g[{}]  BY <3>1, <3>2, TrafficIs
    <3> QED  BY <3>3 DEF IsSum, Sums
  <2>2. DOMAIN links = {}  BY <1>1, <1>2
  <2> QED  BY <1>3, <2>1, <2>2 DEF TrafficIsExact
<1>7. AppsAreExact  BY <1>1, <1>2, <1>3 DEF AppsAreExact
<1>8. RemotesAreExact  BY <1>1, <1>2, <1>3 DEF RemotesAreExact
<1>9. SummaryIsExact  BY <1>1, <1>3, FS_EmptySet DEF SummaryIsExact
<1> QED  BY <1>4, <1>5, <1>6, <1>7, <1>8, <1>9 DEF ModelInv

\* A step that leaves the variables alone.
LEMMA RestKeeps ==
  ASSUME ModelInv, UNCHANGED modelVars
  PROVE  ModelInv'
<1>1. /\ shape' = shape /\ instanceMode' = instanceMode /\ left' = left /\ links' = links /\ apps' = apps
      /\ remotes' = remotes /\ summary' = summary
  BY DEF modelVars
<1>2. SocketsStay /\ \A d : Scoped(d)' <=> Scoped(d)
  BY <1>1 DEF SocketsStay, Scoped, RowsOf, OwnersOf, RowOf, ApplicationOf
<1>3. Taken' = Taken /\ Connections' = Connections /\ \A k : Between(k)' = Between(k)
  BY <1>1, <1>2 DEF SocketsStay, Taken, Connections, Between
<1>4. Open(Connections)' = Open(Connections) /\ Open(Taken)' = Open(Taken)  BY <1>1, <1>3 DEF Open
<1>5. ModelTyped'  BY <1>1, <1>2 DEF ModelInv, ModelTyped
<1>6. LinksAreExact'
  <2>1. \A k \in DOMAIN links : LinkIs(links[k], k)' /\ RateIs(links[k].rate, k)'
    BY <1>1, <1>2, <1>3, SameBetween DEF ModelInv, LinksAreExact
  <2>2. (UNION {LinkKeys(d) : d \in Connections})' = UNION {LinkKeys(d) : d \in Connections}
    BY <1>2, <1>3 DEF SocketsStay, LinkKeys
  <2> QED  BY <1>1, <2>1, <2>2 DEF ModelInv, LinksAreExact
<1>7. TrafficIsExact'
  <2>1. Telling' = Telling  BY <1>2, <1>4 DEF SocketsStay, Telling
  <2> QED  BY <1>1, <2>1 DEF ModelInv, TrafficIsExact
<1>8. AppsAreExact'  BY <1>1, <1>2, <1>3, <1>4 DEF ModelInv, AppsAreExact, SocketsStay
<1>9. RemotesAreExact'
  <2>1. RemotesAreExact  BY DEF ModelInv
  <2>2. {shape[d].remote : d \in Connections}' = {shape[d].remote : d \in Connections}  BY <1>1, <1>3
  <2>3. \A d \in Connections' : RowsOf(d)' \subseteq remotes'[shape'[d].remote].by
    BY <1>1, <1>2, <1>3, <2>1 DEF RemotesAreExact, SocketsStay
  <2>4. ASSUME NEW x \in DOMAIN remotes'
        PROVE  remotes'[x].active = (\E d \in Open(Connections) : shape[d].remote = x)'
    <3>1. remotes[x].active = (\E d \in Open(Connections) : shape[d].remote = x)  BY <1>1, <2>1 DEF RemotesAreExact
    <3>2. (\E d \in Open(Connections) : shape[d].remote = x)' <=> \E d \in Open(Connections) : shape[d].remote = x
      BY <1>1, <1>4
    <3> QED  BY <1>1, <3>1, <3>2
  <2>5. DOMAIN remotes' = {shape[d].remote : d \in Connections}'  BY <1>1, <2>1, <2>2 DEF RemotesAreExact
  <2> QED  BY <2>3, <2>4, <2>5, Zenon DEF RemotesAreExact
<1>10. SummaryIsExact'  BY <1>1, <1>4 DEF ModelInv, SummaryIsExact
<1> QED  BY <1>5, <1>6, <1>7, <1>8, <1>9, <1>10 DEF ModelInv

\* build_network_model() keeps the invariant, in whatever order it takes the sockets.
LEMMA ModelInvHolds == ModelSpec => []ModelInv
<1>1. ModelInit => ModelInv  BY ModelInvInit
<1>2. ASSUME ModelInv, [ModelNext]_modelVars PROVE ModelInv'
  <2>1. ASSUME NEW c \in Contacts, Take(c) PROVE ModelInv'
    <3>1. ModelTyped /\ LinksAreExact /\ TrafficIsExact /\ AppsAreExact /\ RemotesAreExact /\ SummaryIsExact
      BY <1>2 DEF ModelInv
    <3>2. Taking(c) /\ ModelTyped'  BY <2>1, <3>1, TakeTakes
    <3>3. LinksAreExact'  BY <2>1, <3>1, <3>2, LinksStep
    <3>4. TrafficIsExact'  BY <2>1, <3>1, <3>2, TrafficStep
    <3>5. AppsAreExact'  BY <2>1, <3>1, <3>2, AppsStep
    <3>6. RemotesAreExact'  BY <2>1, <3>1, <3>2, RemotesStep
    <3>7. SummaryIsExact'  BY <2>1, <3>1, <3>2, SummaryStep
    <3> QED  BY <3>2, <3>3, <3>4, <3>5, <3>6, <3>7 DEF ModelInv
  <2>2. CASE UNCHANGED modelVars
    BY <1>2, <2>2, RestKeeps
  <2> QED  BY <1>2, <2>1, <2>2 DEF ModelNext
<1> QED  BY <1>1, <1>2, PTL DEF ModelSpec

\* Every row of build_network_model() and build_instance_model() is about the sockets it is made of,
\* whatever their order, and no byte of a socket that applications share is shown as anybody's.
THEOREM ModelRowsAreExact == ModelSpec => []ModelIsExact
<1>1. ASSUME ModelInv PROVE ModelIsExact
  <2>1. ModelTyped /\ LinksAreExact /\ TrafficIsExact /\ AppsAreExact /\ RemotesAreExact /\ SummaryIsExact
    BY <1>1 DEF ModelInv
  <2>2. ASSUME NEW k \in DOMAIN links PROVE LinkIs(links[k], k) /\ RateIs(links[k].rate, k)
    BY <2>1 DEF LinksAreExact
  <2>3. GoodputOnce
    <3>1. \A k \in DOMAIN links :
            links[k].rate = {} <=> \A c \in Open(Between(k)) : Cardinality(RowsOf(c)) > 1 \/ shape[c].rate = {}
      BY <2>2 DEF RateIs
    <3>2. Traffic(links, DOMAIN links)
            = Traffic(shape, {c \in Open(Connections) : Cardinality(RowsOf(c)) = 1})
      BY <2>1 DEF TrafficIsExact, Telling
    <3> QED  BY <3>1, <3>2 DEF GoodputOnce
  <2>4. DOMAIN links = UNION {RowsOf(c) \X {shape[c].remote} : c \in Connections}
    BY <2>1 DEF LinksAreExact, LinkKeys
  <2>5. ASSUME NEW k \in DOMAIN links PROVE k[2] \in apps[k[1]].remotes /\ k[1] \in remotes[k[2]].by
    <3>1. PICK c \in Connections : k \in RowsOf(c) \X {shape[c].remote}  BY <2>4
    <3>2. k[1] \in RowsOf(c) /\ k[2] = shape[c].remote  BY <3>1
    <3> QED  BY <2>1, <3>2 DEF AppsAreExact, RemotesAreExact
  <2>6. \A k \in DOMAIN links :
          /\ links[k].count = Cardinality(Open(Between(k))) /\ links[k].total = Cardinality(Between(k))
          /\ links[k].new = Cardinality({c \in Open(Between(k)) : shape[c].new})
          /\ links[k].active = (Open(Between(k)) # {})
          /\ links[k].by = {p \in UNION {OwnersOf(c) : c \in Between(k)} : RowOf(p) = k[1]}
          /\ k[2] \in apps[k[1]].remotes /\ k[1] \in remotes[k[2]].by
    BY <2>2, <2>5 DEF LinkIs
  <2>7. \A g \in DOMAIN apps : apps[g].count = Cardinality({c \in Open(Taken) : g \in RowsOf(c)})
    BY <2>1 DEF AppsAreExact
  <2>8. \A r \in DOMAIN remotes : remotes[r].active = (\E c \in Open(Connections) : shape[c].remote = r)
    BY <2>1 DEF RemotesAreExact
  <2>9. summary = Cardinality(Open(Connections))  BY <2>1 DEF SummaryIsExact
  <2> QED  BY <2>3, <2>4, <2>6, <2>7, <2>8, <2>9, Zenon DEF ModelIsExact
<1> QED  BY <1>1, ModelInvHolds, PTL

=============================================================================
