----------------------------- MODULE Supervisor -----------------------------
(***************************************************************************)
(* core/Telemetry.qml: the host side that starts, watches, restarts and    *)
(* stops the one telemetry helper.                                         *)
(*                                                                         *)
(* All handlers run on the QML thread, so each is one action.  What is     *)
(* concurrent is the helper: it starts, fails to start, prints, falls      *)
(* silent, ignores SIGTERM and exits when it likes, and the timers of the  *)
(* supervisor fire in any order the restarts allow.  Durations are left    *)
(* out: a running timer may fire at any time, which covers every           *)
(* scheduling of the real ones.                                            *)
(***************************************************************************)
EXTENDS Integers

CONSTANTS
  MaxRetries,   \* automatic restarts without a healthy stretch
  GoodRun,      \* consecutive valid frames that make a helper healthy
  BadRun,       \* consecutive invalid records that make it suspect
  Reopens       \* TRUE: the component outlives a close (bar panel); FALSE: it is unloaded first (overlay)

ASSUME LimitAssumption ==
  MaxRetries \in Nat /\ GoodRun \in Nat \ {0} /\ BadRun \in Nat \ {0}

ASSUME HostAssumption == Reopens \in BOOLEAN

VARIABLES
  active, disposing,           \* what the host wants
  proc,                        \* the Process element: "none", "starting" or "up"
  sig,                         \* the strongest signal sent to it: "none", "term" or "kill"
  started, ready,
  intentionalStop, restartRequested,
  timers,                      \* the one-shot timers that are running
  failures, goodFrames, invalidFrames,
  sampled,                     \* a snapshot is held (snapshot, lastSampleAt > 0)
  stale,                       \* its age exceeds the health limit
  gaveUp,                      \* backendError says that retries are exhausted
  launches                     \* history: helpers started since failures was last reset

host  == <<active, disposing>>
child == <<proc, sig>>
flags == <<started, ready, intentionalStop, restartRequested>>
count == <<failures, goodFrames, invalidFrames>>
shown == <<sampled, stale, gaveUp>>
vars  == <<host, child, flags, timers, count, shown, launches>>

Timers == {"restart", "startup", "firstFrame", "termination"}

FlagsOK ==
  /\ active \in BOOLEAN /\ disposing \in BOOLEAN
  /\ started \in BOOLEAN /\ ready \in BOOLEAN
  /\ intentionalStop \in BOOLEAN /\ restartRequested \in BOOLEAN
  /\ sampled \in BOOLEAN /\ stale \in BOOLEAN /\ gaveUp \in BOOLEAN

ChildOK ==
  /\ proc \in {"none", "starting", "up"}
  /\ sig \in {"none", "term", "kill"}
  /\ timers \subseteq Timers

CountOK ==
  /\ failures \in 0..(MaxRetries + 1)
  /\ goodFrames \in 0..GoodRun
  /\ invalidFrames \in Nat
  /\ launches \in Nat

TypeOK == FlagsOK /\ ChildOK /\ CountOK

Init ==
  /\ active = FALSE /\ disposing = FALSE
  /\ proc = "none" /\ sig = "none"
  /\ started = FALSE /\ ready = FALSE
  /\ intentionalStop = TRUE /\ restartRequested = FALSE
  /\ timers = {}
  /\ failures = 0 /\ goodFrames = 0 /\ invalidFrames = 0
  /\ sampled = FALSE /\ stale = FALSE /\ gaveUp = FALSE
  /\ launches = 0

-----------------------------------------------------------------------------
(* Functions that several handlers call.  "running" is the set of timers   *)
(* the caller leaves running.                                              *)

Stronger(s) == IF sig = "kill" THEN "kill" ELSE s

\* Mutant: SIGTERM without the escalation watch.
Terminate_NoWatch(running) ==
  /\ timers' = running
  /\ sig' = IF proc = "none" THEN sig ELSE Stronger("term")
  /\ UNCHANGED proc

\* terminateSampler(): SIGTERM, and SIGKILL if terminationWatch fires first.
Terminate(running) ==
  IF proc = "none"
  THEN timers' = running /\ UNCHANGED child
  ELSE timers' = running \cup {"termination"} /\ sig' = Stronger("term") /\ UNCHANGED proc

\* start(): refused while a helper runs or a restart is already scheduled.
Start(running) ==
  IF proc # "none" \/ "restart" \in running
  THEN /\ timers' = running
       /\ UNCHANGED <<child, flags, launches>>
  ELSE /\ proc' = "starting" /\ sig' = "none"
       /\ started' = FALSE /\ ready' = FALSE
       /\ intentionalStop' = FALSE /\ restartRequested' = FALSE
       /\ timers' = (running \ {"termination"}) \cup {"startup"}
       /\ launches' = launches + 1

\* Mutant: the cap is forgotten when a watchdog asks for the restart.
Exhausted_Never(fails) == FALSE

Exhausted(fails) == fails >= MaxRetries

\* restartBackend() with fails failures so far: give up, schedule, or wait for the exit.
RestartBackend(running, fails) ==
  /\ ready' = FALSE /\ started' = FALSE
  /\ goodFrames' = 0 /\ invalidFrames' = 0
  /\ \/ /\ Exhausted(fails)
        /\ gaveUp' = TRUE
        /\ failures' = fails
        /\ restartRequested' = FALSE
        /\ Terminate(running \ {"firstFrame"})
     \/ /\ ~Exhausted(fails) /\ proc = "none"
        /\ gaveUp' = FALSE
        /\ failures' = fails + 1
        /\ restartRequested' = FALSE
        /\ timers' = (running \ {"firstFrame"}) \cup {"restart"}
        /\ UNCHANGED child
     \/ /\ ~Exhausted(fails) /\ proc # "none"
        /\ gaveUp' = FALSE
        /\ failures' = fails + 1
        /\ restartRequested' = TRUE
        /\ Terminate(running \ {"firstFrame"})
  /\ UNCHANGED <<host, intentionalStop, sampled, stale>>

-----------------------------------------------------------------------------
(* The host and the user. *)

Activate ==
  /\ ~active /\ ~disposing
  /\ proc = "none" \/ Reopens
  /\ active' = TRUE
  /\ Start(timers)
  /\ UNCHANGED <<disposing, count, shown>>

\* Mutant: a close leaves the scheduled restart behind.
StoppedOnClose_KeepRestart == {"startup", "firstFrame"}

\* The timers that stop() stops; the termination watch goes on.
StoppedOnClose == {"restart", "startup", "firstFrame"}

\* onActiveChanged to false: stop().
Deactivate ==
  /\ active /\ ~disposing
  /\ active' = FALSE
  /\ intentionalStop' = TRUE /\ restartRequested' = FALSE
  /\ ready' = FALSE /\ started' = FALSE
  /\ Terminate(timers \ StoppedOnClose)
  /\ sampled' = FALSE /\ stale' = FALSE /\ gaveUp' = FALSE
  /\ failures' = 0 /\ goodFrames' = 0 /\ invalidFrames' = 0
  /\ launches' = 0
  /\ UNCHANGED disposing

\* retry() from the command sheet.
Retry ==
  /\ active /\ ~disposing
  /\ IF proc # "none" \/ started
     THEN RestartBackend(timers \ {"restart"}, 0) /\ launches' = 0
     ELSE /\ failures' = 0
          /\ launches' = 1
          /\ proc' = "starting" /\ sig' = "none"
          /\ started' = FALSE /\ ready' = FALSE
          /\ intentionalStop' = FALSE /\ restartRequested' = FALSE
          /\ timers' = (timers \ {"restart", "termination"}) \cup {"startup"}
          /\ UNCHANGED <<host, goodFrames, invalidFrames, shown>>

\* Component.onDestruction: no timer survives the component, so the helper is killed outright.
Dispose ==
  /\ ~disposing
  /\ disposing' = TRUE
  /\ intentionalStop' = TRUE
  /\ timers' = {}
  /\ sig' = IF proc = "none" THEN sig ELSE "kill"
  /\ UNCHANGED <<active, proc, started, ready, restartRequested, count, shown, launches>>

-----------------------------------------------------------------------------
(* The helper. *)

\* onStarted.
Started ==
  /\ proc = "starting"
  /\ proc' = "up"
  /\ started' = TRUE /\ ready' = FALSE
  /\ timers' = (timers \ {"startup"}) \cup {"firstFrame"}
  /\ UNCHANGED <<host, sig, intentionalStop, restartRequested, count, shown, launches>>

\* The interpreter cannot be executed: Quickshell reports no exit, even after SIGTERM was asked for.
FailedToStart ==
  /\ proc = "starting"
  /\ proc' = "none" /\ sig' = "none"
  /\ UNCHANGED <<host, flags, timers, count, shown, launches>>

\* Mutant: no exit is unexpected.
Unexpected_Never == FALSE

\* Mutant: a helper that never got ready may exit unnoticed.
Unexpected_OnceReady == active /\ ready /\ ~intentionalStop /\ ~disposing

Unexpected == active /\ ~intentionalStop /\ ~disposing

\* onExited: requested, unexpected or intended.
Exited ==
  LET running == timers \ {"startup", "firstFrame", "termination"} IN
  /\ proc = "up"
  /\ proc' = "none" /\ sig' = "none"
  /\ started' = FALSE /\ ready' = FALSE /\ restartRequested' = FALSE
  /\ \/ /\ restartRequested
        /\ timers' = IF active /\ ~disposing /\ failures <= MaxRetries
                     THEN running \cup {"restart"} ELSE running
        /\ UNCHANGED <<failures, goodFrames, gaveUp>>
     \/ /\ ~restartRequested /\ Unexpected
        /\ goodFrames' = 0
        /\ failures' = failures + 1
        /\ IF failures + 1 <= MaxRetries
           THEN timers' = running \cup {"restart"} /\ gaveUp' = FALSE
           ELSE timers' = running /\ gaveUp' = TRUE
     \/ /\ ~restartRequested /\ ~Unexpected
        /\ timers' = running
        /\ UNCHANGED <<failures, goodFrames, gaveUp>>
  /\ UNCHANGED <<host, intentionalStop, invalidFrames, sampled, stale, launches>>

\* Mutant: records are accepted whatever the host wants.
Accepting_Always == TRUE

Accepting == active /\ ~disposing

\* accept() of a schema-valid snapshot; a terminating helper still prints.
ValidFrame ==
  /\ proc = "up"
  /\ Accepting
  /\ ready' = TRUE
  /\ timers' = timers \ {"firstFrame"}
  /\ sampled' = TRUE /\ stale' = FALSE /\ gaveUp' = FALSE
  /\ goodFrames' = IF goodFrames < GoodRun THEN goodFrames + 1 ELSE GoodRun
  /\ invalidFrames' = 0
  /\ failures' = IF goodFrames' >= GoodRun THEN 0 ELSE failures
  /\ launches' = IF goodFrames' >= GoodRun THEN 0 ELSE launches
  /\ UNCHANGED <<host, child, started, intentionalStop, restartRequested>>

\* accept() of an oversized, malformed or schema-invalid record.
InvalidFrame ==
  /\ proc = "up"
  /\ Accepting
  /\ IF invalidFrames + 1 >= BadRun
     THEN RestartBackend(timers, failures) /\ UNCHANGED launches
     ELSE /\ invalidFrames' = invalidFrames + 1
          /\ gaveUp' = FALSE
          /\ UNCHANGED <<host, child, flags, timers, failures, goodFrames, sampled, stale, launches>>

\* A line on stderr or an error record replaces the message on screen.
Complains ==
  /\ proc = "up"
  /\ active
  /\ gaveUp' = FALSE
  /\ UNCHANGED <<host, child, flags, timers, count, sampled, stale, launches>>

\* Time passes without a frame.
FallsSilent ==
  /\ sampled
  /\ stale' = TRUE
  /\ UNCHANGED <<host, child, flags, timers, count, sampled, gaveUp, launches>>

-----------------------------------------------------------------------------
(* The timers. *)

RestartFires ==
  /\ "restart" \in timers
  /\ active /\ ~disposing
  /\ Start(timers \ {"restart"})
  /\ UNCHANGED <<host, count, shown>>

StartupFires ==
  /\ "startup" \in timers
  /\ IF active /\ ~started /\ ~disposing
     THEN RestartBackend(timers \ {"startup"}, failures) /\ UNCHANGED launches
     ELSE timers' = timers \ {"startup"} /\ UNCHANGED <<host, child, flags, count, shown, launches>>

FirstFrameFires ==
  /\ "firstFrame" \in timers
  /\ IF active /\ started /\ ~ready /\ ~disposing
     THEN RestartBackend(timers \ {"firstFrame"}, failures) /\ UNCHANGED launches
     ELSE timers' = timers \ {"firstFrame"} /\ UNCHANGED <<host, child, flags, count, shown, launches>>

\* SIGTERM was not enough.
TerminationFires ==
  /\ "termination" \in timers
  /\ timers' = timers \ {"termination"}
  /\ sig' = IF proc = "none" THEN sig ELSE "kill"
  /\ UNCHANGED <<host, proc, flags, count, shown, launches>>

\* Mutant: the age of the last frame is only looked at before the first one.
Stalled_NotReady == ~ready /\ sampled /\ stale

Stalled == ready /\ sampled /\ stale

\* The repeating health timer runs while active and started.
HealthFires ==
  /\ active /\ started /\ ~disposing
  /\ Stalled
  /\ RestartBackend(timers, failures)
  /\ UNCHANGED launches

Next ==
  \/ Activate \/ Deactivate \/ Retry \/ Dispose
  \/ Started \/ FailedToStart \/ Exited
  \/ ValidFrame \/ InvalidFrame \/ Complains \/ FallsSilent
  \/ RestartFires \/ StartupFires \/ FirstFrameFires \/ TerminationFires \/ HealthFires

\* Timers fire, a launch is reported one way or the other, and a killed process exits.
\* A helper owes nobody a frame, and SIGTERM alone need not end it.
Fairness ==
  /\ WF_vars(Started \/ FailedToStart)
  /\ WF_vars(sig = "kill" /\ Exited)
  /\ WF_vars(RestartFires) /\ WF_vars(StartupFires) /\ WF_vars(FirstFrameFires)
  /\ WF_vars(TerminationFires) /\ WF_vars(HealthFires)

Spec == Init /\ [][Next]_vars
FairSpec == Spec /\ Fairness

-----------------------------------------------------------------------------
(* Properties. *)

\* A helper failed to start after it was told to stop for a restart: the restart would come with
\* an exit, and none is reported.
Missed == proc = "none" /\ restartRequested

\* ARCHITECTURE.md, "Lifecycle before decoration": while the host wants telemetry there is
\* always a live helper that is not being stopped for good, a scheduled restart, a watchdog
\* that will notice, or the message that retries are exhausted; a missed restart is excepted.
NoDeadEnd ==
  active /\ ~disposing /\ proc = "none" /\ timers \cap {"restart", "startup"} = {}
    => gaveUp \/ Missed

\* SECURITY-PRIVACY.md, "Close ... drops live/frozen state": a record printed by a helper
\* that outlives the close does not bring the dropped state back.
ClosedHoldsNothing == ~active => ~ready /\ ~sampled

\* No handler is lost: a launch is still awaited, a killed helper is still watched, and a
\* running timer finds what it was started for, so none is left behind by a close or an exit.
WatchesCanFire ==
  /\ proc = "starting" => ENABLED <<Started \/ FailedToStart>>_vars
  /\ sig = "kill" /\ proc = "up" => ENABLED <<sig = "kill" /\ Exited>>_vars
  /\ "restart" \in timers => ENABLED <<RestartFires>>_vars
  /\ "startup" \in timers => ENABLED <<StartupFires>>_vars
  /\ "firstFrame" \in timers => ENABLED <<FirstFrameFires>>_vars
  /\ "termination" \in timers => ENABLED <<TerminationFires>>_vars
  /\ active /\ started /\ ~disposing /\ Stalled => ENABLED <<HealthFires>>_vars

\* "Recovery remains capped at six attempts": between two resets of the failure count there
\* is one launch and at most MaxRetries relaunches, whichever watchdog asked for them.
LaunchesCapped == launches <= MaxRetries + 1

\* Close stops the helper even if it ignores SIGTERM, and so does destruction.
CloseStopsHelper == (~active \/ disposing) ~> (proc = "none" \/ (active /\ ~disposing))

\* While the host wants telemetry, the supervisor either gets a first valid frame or gives
\* up and says so, unless the user keeps pressing Retry or a restart is missed.
AcquiresOrGivesUp ==
  <>[][~Retry]_vars => ((active /\ ~disposing) ~> (ready \/ gaveUp \/ Missed \/ ~active \/ disposing))

\* Stalled progress is not shown as health for ever.
StallIsNoticed == (ready /\ stale) ~> (~ready \/ ~stale \/ disposing)

=============================================================================
