-------------------------- MODULE SupervisorProofs --------------------------
(***************************************************************************)
(* Proofs about Supervisor, for every retry cap and every length of the    *)
(* good and bad runs.                                                      *)
(***************************************************************************)
EXTENDS Supervisor, TLAPS

(***************************************************************************)
(* What each part of the supervisor knows about the others.  A restart is  *)
(* scheduled only when no helper is left; a helper that was launched and   *)
(* not signalled still has its startup watch; a requested restart has been *)
(* charged to the failure count.                                           *)
(***************************************************************************)
HelperInv ==
  /\ proc = "none" => sig = "none"
  /\ started => proc = "up"
  /\ ready => proc = "up" /\ active

WatchInv ==
  /\ "restart" \in timers => proc = "none" /\ active /\ ~disposing
  /\ proc = "starting" /\ sig = "none" => "startup" \in timers /\ active /\ ~disposing

RequestInv == restartRequested => active /\ (proc # "none" => sig # "none")

PartsInv == HelperInv /\ WatchInv /\ RequestInv

\* Every launch but the first has been paid for by a failure.
PaidInv ==
  /\ ~active => failures = 0 /\ launches = 0
  /\ launches <= failures + 1 /\ launches <= MaxRetries + 1
  /\ "restart" \in timers \/ restartRequested => launches <= failures

\* A helper, a scheduled one and one being launched are all within the cap.
WithinCapInv ==
  /\ "restart" \in timers \/ "startup" \in timers \/ restartRequested => failures <= MaxRetries
  /\ proc # "none" /\ ~disposing => failures <= MaxRetries

CountInv == PaidInv /\ WithinCapInv

\* A held snapshot belongs to an open view.
HeldInv == ~active => ~ready /\ ~sampled

LEMMA InitInv == Init => TypeOK /\ PartsInv /\ CountInv /\ HeldInv
<1> SUFFICES ASSUME Init
             PROVE  TypeOK /\ PartsInv /\ CountInv /\ HeldInv
    OBVIOUS
<1>1. TypeOK
  <2>1. FlagsOK
      BY DEF Init, FlagsOK
  <2>2. ChildOK
      BY DEF Init, ChildOK
  <2>3. MaxRetries \in Nat /\ GoodRun \in Nat
      BY LimitAssumption
  <2>4. CountOK
      BY <2>3 DEF Init, CountOK
  <2>5. QED
      BY <2>1, <2>2, <2>4 DEF TypeOK
<1>2. PartsInv /\ HeldInv
    BY DEF Init, PartsInv, HelperInv, WatchInv, RequestInv, HeldInv
<1>3. CountInv
    BY LimitAssumption DEF Init, CountInv, PaidInv, WithinCapInv
<1>4. QED
    BY <1>1, <1>2, <1>3

LEMMA StepType ==
  ASSUME TypeOK, PartsInv, CountInv, [Next]_vars
  PROVE  TypeOK'
<1> USE LimitAssumption DEF host, child, flags, count, shown
<1>1. CASE Activate
  <2>1. FlagsOK'
      BY <1>1 DEF TypeOK, FlagsOK, Activate, Start
  <2>2. ChildOK'
      BY <1>1 DEF TypeOK, ChildOK, Timers, Activate, Start
  <2>3. CountOK'
      BY <1>1 DEF TypeOK, CountOK, Activate, Start
  <2>4. QED
      BY <2>1, <2>2, <2>3 DEF TypeOK
<1>2. CASE Deactivate
  <2>1. FlagsOK'
      BY <1>2 DEF TypeOK, FlagsOK, Deactivate, StoppedOnClose
  <2>2. ChildOK'
      BY <1>2 DEF TypeOK, ChildOK, Timers, Deactivate, StoppedOnClose, Terminate, Stronger
  <2>3. CountOK'
      BY <1>2 DEF TypeOK, CountOK, Deactivate, StoppedOnClose
  <2>4. QED
      BY <2>1, <2>2, <2>3 DEF TypeOK
<1>3. CASE Retry
  <2>1. FlagsOK'
      BY <1>3 DEF TypeOK, FlagsOK, Retry, RestartBackend
  <2>2. ChildOK'
      BY <1>3 DEF TypeOK, ChildOK, Timers, Retry, RestartBackend, Terminate, Stronger
  <2>3. CountOK'
    <3>1. CASE proc # "none" \/ started
      <4>1. CASE Exhausted(0)
        <5>1. /\ failures' = 0 /\ goodFrames' = 0 /\ invalidFrames' = 0 /\ launches' = 0
              /\ restartRequested' = FALSE /\ proc' = proc /\ active' = active /\ disposing' = disposing
            BY <1>3, <3>1, <4>1 DEF Retry, RestartBackend, Terminate
        <5>2. timers' \subseteq (timers \ {"restart"}) \cup {"termination"}
            BY <1>3, <3>1, <4>1 DEF Retry, RestartBackend, Terminate
        <5>3. proc # "none" => sig' # "none"
            BY <1>3, <3>1, <4>1 DEF Retry, RestartBackend, Terminate, Stronger
        <5>4. QED
            BY <5>1, <5>2, <5>3 DEF TypeOK, CountOK
      <4>2. CASE ~Exhausted(0) /\ proc = "none"
          BY <1>3, <3>1, <4>2 DEF TypeOK, CountOK, Retry, RestartBackend
      <4>3. CASE ~Exhausted(0) /\ proc # "none"
          BY <1>3, <3>1, <4>3 DEF TypeOK, CountOK, Retry, RestartBackend
      <4>4. QED
          BY <4>1, <4>2, <4>3
    <3>2. CASE ~(proc # "none" \/ started)
        BY <1>3, <3>2 DEF TypeOK, CountOK, Retry, RestartBackend
    <3>3. QED
        BY <3>1, <3>2
  <2>4. QED
      BY <2>1, <2>2, <2>3 DEF TypeOK
<1>4. CASE Dispose
  <2>1. FlagsOK'
      BY <1>4 DEF TypeOK, FlagsOK, Dispose
  <2>2. ChildOK'
      BY <1>4 DEF TypeOK, ChildOK, Dispose
  <2>3. CountOK'
      BY <1>4 DEF TypeOK, CountOK, Dispose
  <2>4. QED
      BY <2>1, <2>2, <2>3 DEF TypeOK
<1>5. CASE Started
  <2>1. FlagsOK'
      BY <1>5 DEF TypeOK, FlagsOK, Started
  <2>2. ChildOK'
      BY <1>5 DEF TypeOK, ChildOK, Timers, Started
  <2>3. CountOK'
      BY <1>5 DEF TypeOK, CountOK, Started
  <2>4. QED
      BY <2>1, <2>2, <2>3 DEF TypeOK
<1>6. CASE FailedToStart
  <2>1. FlagsOK'
      BY <1>6 DEF TypeOK, FlagsOK, FailedToStart
  <2>2. ChildOK'
      BY <1>6 DEF TypeOK, ChildOK, FailedToStart
  <2>3. CountOK'
      BY <1>6 DEF TypeOK, CountOK, FailedToStart
  <2>4. QED
      BY <2>1, <2>2, <2>3 DEF TypeOK
<1>7. CASE Exited
  <2>1. FlagsOK'
      BY <1>7 DEF TypeOK, FlagsOK, Exited
  <2>2. ChildOK'
      BY <1>7 DEF TypeOK, ChildOK, Timers, Exited
  <2>3. CountOK'
      BY <1>7 DEF TypeOK, CountOK, CountInv, WithinCapInv, Exited, Unexpected
  <2>4. QED
      BY <2>1, <2>2, <2>3 DEF TypeOK
<1>8. CASE ValidFrame
  <2>1. FlagsOK'
      BY <1>8 DEF TypeOK, FlagsOK, ValidFrame
  <2>2. ChildOK'
      BY <1>8 DEF TypeOK, ChildOK, ValidFrame
  <2>3. CountOK'
      BY <1>8 DEF TypeOK, CountOK, ValidFrame
  <2>4. QED
      BY <2>1, <2>2, <2>3 DEF TypeOK
<1>9. CASE InvalidFrame
  <2>1. FlagsOK'
      BY <1>9 DEF TypeOK, FlagsOK, InvalidFrame, RestartBackend
  <2>2. ChildOK'
      BY <1>9 DEF TypeOK, ChildOK, Timers, InvalidFrame, RestartBackend, Terminate, Stronger
  <2>3. CountOK'
    <3>1. CASE invalidFrames + 1 >= BadRun
      <4>1. CASE Exhausted(failures)
          BY <1>9, <3>1, <4>1 DEF TypeOK, CountOK, InvalidFrame, RestartBackend
      <4>2. CASE ~Exhausted(failures) /\ proc = "none"
          BY <1>9, <3>1, <4>2 DEF InvalidFrame, Accepting, RestartBackend
      <4>3. CASE ~Exhausted(failures) /\ proc # "none"
          BY <1>9, <3>1, <4>3 DEF TypeOK, CountOK, InvalidFrame, RestartBackend, Exhausted
      <4>4. QED
          BY <4>1, <4>2, <4>3
    <3>2. CASE ~(invalidFrames + 1 >= BadRun)
        BY <1>9, <3>2 DEF TypeOK, CountOK, InvalidFrame, RestartBackend
    <3>3. QED
        BY <3>1, <3>2
  <2>4. QED
      BY <2>1, <2>2, <2>3 DEF TypeOK
<1>10. CASE Complains
  <2>1. FlagsOK'
      BY <1>10 DEF TypeOK, FlagsOK, Complains
  <2>2. ChildOK'
      BY <1>10 DEF TypeOK, ChildOK, Complains
  <2>3. CountOK'
      BY <1>10 DEF TypeOK, CountOK, Complains
  <2>4. QED
      BY <2>1, <2>2, <2>3 DEF TypeOK
<1>11. CASE FallsSilent
  <2>1. FlagsOK'
      BY <1>11 DEF TypeOK, FlagsOK, FallsSilent
  <2>2. ChildOK'
      BY <1>11 DEF TypeOK, ChildOK, FallsSilent
  <2>3. CountOK'
      BY <1>11 DEF TypeOK, CountOK, FallsSilent
  <2>4. QED
      BY <2>1, <2>2, <2>3 DEF TypeOK
<1>12. CASE RestartFires
  <2>1. FlagsOK'
      BY <1>12 DEF TypeOK, FlagsOK, RestartFires, Start
  <2>2. ChildOK'
      BY <1>12 DEF TypeOK, ChildOK, Timers, RestartFires, Start
  <2>3. CountOK'
      BY <1>12 DEF TypeOK, CountOK, RestartFires, Start
  <2>4. QED
      BY <2>1, <2>2, <2>3 DEF TypeOK
<1>13. CASE StartupFires
  <2>1. FlagsOK'
      BY <1>13 DEF TypeOK, FlagsOK, StartupFires, RestartBackend
  <2>2. ChildOK'
      BY <1>13 DEF TypeOK, ChildOK, Timers, StartupFires, RestartBackend, Terminate, Stronger
  <2>3. CountOK'
      BY <1>13 DEF TypeOK, CountOK, StartupFires, RestartBackend, Exhausted
  <2>4. QED
      BY <2>1, <2>2, <2>3 DEF TypeOK
<1>14. CASE FirstFrameFires
  <2>1. FlagsOK'
      BY <1>14 DEF TypeOK, FlagsOK, FirstFrameFires, RestartBackend
  <2>2. ChildOK'
      BY <1>14 DEF TypeOK, ChildOK, Timers, FirstFrameFires, RestartBackend, Terminate, Stronger
  <2>3. CountOK'
      BY <1>14 DEF TypeOK, CountOK, FirstFrameFires, RestartBackend, Exhausted
  <2>4. QED
      BY <2>1, <2>2, <2>3 DEF TypeOK
<1>15. CASE TerminationFires
  <2>1. FlagsOK'
      BY <1>15 DEF TypeOK, FlagsOK, TerminationFires
  <2>2. ChildOK'
      BY <1>15 DEF TypeOK, ChildOK, TerminationFires
  <2>3. CountOK'
      BY <1>15 DEF TypeOK, CountOK, TerminationFires
  <2>4. QED
      BY <2>1, <2>2, <2>3 DEF TypeOK
<1>16. CASE HealthFires
  <2>1. FlagsOK'
      BY <1>16 DEF TypeOK, FlagsOK, HealthFires, RestartBackend
  <2>2. ChildOK'
      BY <1>16 DEF TypeOK, ChildOK, Timers, HealthFires, RestartBackend, Terminate, Stronger
  <2>3. CountOK'
      BY <1>16 DEF TypeOK, CountOK, HealthFires, RestartBackend, Exhausted
  <2>4. QED
      BY <2>1, <2>2, <2>3 DEF TypeOK
<1>17. CASE UNCHANGED vars
    BY <1>17 DEF vars, TypeOK, FlagsOK, ChildOK, CountOK
<1>18. QED
    BY <1>1, <1>2, <1>3, <1>4, <1>5, <1>6, <1>7, <1>8, <1>9, <1>10, <1>11, <1>12, <1>13, <1>14, <1>15, <1>16, <1>17 DEF Next

\* Starting, signalling, watching and restarting stay consistent with one another.
LEMMA StepParts ==
  ASSUME TypeOK, PartsInv, [Next]_vars
  PROVE  PartsInv'
<1> USE LimitAssumption DEF host, child, flags, count, shown
<1>1. CASE Activate
  <2>1. HelperInv'
      BY <1>1 DEF PartsInv, HelperInv, Activate, Start
  <2>2. WatchInv'
      BY <1>1 DEF PartsInv, WatchInv, Activate, Start
  <2>3. RequestInv'
      BY <1>1 DEF PartsInv, RequestInv, Activate, Start
  <2>4. QED
      BY <2>1, <2>2, <2>3 DEF PartsInv
<1>2. CASE Deactivate
  <2>1. HelperInv'
      BY <1>2 DEF PartsInv, HelperInv, Deactivate, StoppedOnClose, Terminate
  <2>2. WatchInv'
      BY <1>2 DEF PartsInv, WatchInv, Deactivate, StoppedOnClose, Terminate, Stronger
  <2>3. RequestInv'
      BY <1>2 DEF PartsInv, RequestInv, Deactivate, StoppedOnClose
  <2>4. QED
      BY <2>1, <2>2, <2>3 DEF PartsInv
<1>3. CASE Retry
  <2>1. HelperInv'
      BY <1>3 DEF PartsInv, HelperInv, Retry, RestartBackend, Terminate
  <2>2. WatchInv'
    <3>1. CASE proc # "none" \/ started
      <4>1. CASE Exhausted(0)
        <5>1. /\ failures' = 0 /\ goodFrames' = 0 /\ invalidFrames' = 0 /\ launches' = 0
              /\ restartRequested' = FALSE /\ proc' = proc /\ active' = active /\ disposing' = disposing
            BY <1>3, <3>1, <4>1 DEF Retry, RestartBackend, Terminate
        <5>2. timers' \subseteq (timers \ {"restart"}) \cup {"termination"}
            BY <1>3, <3>1, <4>1 DEF Retry, RestartBackend, Terminate
        <5>3. proc # "none" => sig' # "none"
            BY <1>3, <3>1, <4>1 DEF Retry, RestartBackend, Terminate, Stronger
        <5>4. QED
            BY <5>1, <5>2, <5>3 DEF PartsInv, WatchInv, RequestInv
      <4>2. CASE ~Exhausted(0) /\ proc = "none"
          BY <1>3, <3>1, <4>2 DEF PartsInv, WatchInv, Retry, RestartBackend
      <4>3. CASE ~Exhausted(0) /\ proc # "none"
          BY <1>3, <3>1, <4>3 DEF PartsInv, WatchInv, Retry, RestartBackend, Terminate, Stronger
      <4>4. QED
          BY <4>1, <4>2, <4>3
    <3>2. CASE ~(proc # "none" \/ started)
        BY <1>3, <3>2 DEF PartsInv, WatchInv, Retry, RestartBackend
    <3>3. QED
        BY <3>1, <3>2
  <2>3. RequestInv'
      BY <1>3 DEF PartsInv, RequestInv, Retry, RestartBackend, Terminate, Stronger
  <2>4. QED
      BY <2>1, <2>2, <2>3 DEF PartsInv
<1>4. CASE Dispose
  <2>1. HelperInv'
      BY <1>4 DEF PartsInv, HelperInv, Dispose
  <2>2. WatchInv'
      BY <1>4 DEF PartsInv, WatchInv, Dispose
  <2>3. RequestInv'
      BY <1>4 DEF PartsInv, RequestInv, Dispose
  <2>4. QED
      BY <2>1, <2>2, <2>3 DEF PartsInv
<1>5. CASE Started
  <2>1. HelperInv'
      BY <1>5 DEF PartsInv, HelperInv, Started
  <2>2. WatchInv'
      BY <1>5 DEF PartsInv, WatchInv, Started
  <2>3. RequestInv'
      BY <1>5 DEF PartsInv, RequestInv, Started
  <2>4. QED
      BY <2>1, <2>2, <2>3 DEF PartsInv
<1>6. CASE FailedToStart
  <2>1. HelperInv'
      BY <1>6 DEF PartsInv, HelperInv, FailedToStart
  <2>2. WatchInv'
      BY <1>6 DEF PartsInv, WatchInv, FailedToStart
  <2>3. RequestInv'
      BY <1>6 DEF PartsInv, RequestInv, FailedToStart
  <2>4. QED
      BY <2>1, <2>2, <2>3 DEF PartsInv
<1>7. CASE Exited
  <2>1. HelperInv'
      BY <1>7 DEF PartsInv, HelperInv, Exited
  <2>2. WatchInv'
      BY <1>7 DEF PartsInv, WatchInv, Exited, Unexpected
  <2>3. RequestInv'
      BY <1>7 DEF PartsInv, RequestInv, Exited
  <2>4. QED
      BY <2>1, <2>2, <2>3 DEF PartsInv
<1>8. CASE ValidFrame
  <2>1. HelperInv'
      BY <1>8 DEF PartsInv, HelperInv, ValidFrame, Accepting
  <2>2. WatchInv'
      BY <1>8 DEF PartsInv, WatchInv, ValidFrame
  <2>3. RequestInv'
      BY <1>8 DEF PartsInv, RequestInv, ValidFrame
  <2>4. QED
      BY <2>1, <2>2, <2>3 DEF PartsInv
<1>9. CASE InvalidFrame
  <2>1. HelperInv'
      BY <1>9 DEF PartsInv, HelperInv, InvalidFrame, RestartBackend, Terminate
  <2>2. WatchInv'
    <3>1. CASE invalidFrames + 1 >= BadRun
      <4>1. CASE Exhausted(failures)
          BY <1>9, <3>1, <4>1 DEF PartsInv, WatchInv, InvalidFrame, RestartBackend, Terminate
      <4>2. CASE ~Exhausted(failures) /\ proc = "none"
          BY <1>9, <3>1, <4>2 DEF InvalidFrame, Accepting, RestartBackend
      <4>3. CASE ~Exhausted(failures) /\ proc # "none"
          BY <1>9, <3>1, <4>3 DEF PartsInv, WatchInv, InvalidFrame, RestartBackend, Terminate
      <4>4. QED
          BY <4>1, <4>2, <4>3
    <3>2. CASE ~(invalidFrames + 1 >= BadRun)
        BY <1>9, <3>2 DEF PartsInv, WatchInv, InvalidFrame, RestartBackend
    <3>3. QED
        BY <3>1, <3>2
  <2>3. RequestInv'
      BY <1>9 DEF PartsInv, RequestInv, InvalidFrame, Accepting, RestartBackend, Terminate, Stronger
  <2>4. QED
      BY <2>1, <2>2, <2>3 DEF PartsInv
<1>10. CASE Complains
  <2>1. HelperInv'
      BY <1>10 DEF PartsInv, HelperInv, Complains
  <2>2. WatchInv'
      BY <1>10 DEF PartsInv, WatchInv, Complains
  <2>3. RequestInv'
      BY <1>10 DEF PartsInv, RequestInv, Complains
  <2>4. QED
      BY <2>1, <2>2, <2>3 DEF PartsInv
<1>11. CASE FallsSilent
  <2>1. HelperInv'
      BY <1>11 DEF PartsInv, HelperInv, FallsSilent
  <2>2. WatchInv'
      BY <1>11 DEF PartsInv, WatchInv, FallsSilent
  <2>3. RequestInv'
      BY <1>11 DEF PartsInv, RequestInv, FallsSilent
  <2>4. QED
      BY <2>1, <2>2, <2>3 DEF PartsInv
<1>12. CASE RestartFires
  <2>1. HelperInv'
      BY <1>12 DEF PartsInv, HelperInv, RestartFires, Start
  <2>2. WatchInv'
      BY <1>12 DEF PartsInv, WatchInv, RestartFires, Start
  <2>3. RequestInv'
      BY <1>12 DEF PartsInv, RequestInv, RestartFires, Start
  <2>4. QED
      BY <2>1, <2>2, <2>3 DEF PartsInv
<1>13. CASE StartupFires
  <2>1. HelperInv'
      BY <1>13 DEF PartsInv, HelperInv, StartupFires, RestartBackend, Terminate
  <2>2. WatchInv'
      BY <1>13 DEF PartsInv, HelperInv, WatchInv, StartupFires, RestartBackend, Terminate, Stronger
  <2>3. RequestInv'
      BY <1>13 DEF PartsInv, RequestInv, StartupFires, RestartBackend, Terminate, Stronger
  <2>4. QED
      BY <2>1, <2>2, <2>3 DEF PartsInv
<1>14. CASE FirstFrameFires
  <2>1. HelperInv'
      BY <1>14 DEF PartsInv, HelperInv, FirstFrameFires, RestartBackend, Terminate
  <2>2. WatchInv'
      BY <1>14 DEF PartsInv, WatchInv, FirstFrameFires, RestartBackend, Terminate, Stronger
  <2>3. RequestInv'
      BY <1>14 DEF PartsInv, RequestInv, FirstFrameFires, RestartBackend, Terminate, Stronger
  <2>4. QED
      BY <2>1, <2>2, <2>3 DEF PartsInv
<1>15. CASE TerminationFires
  <2>1. HelperInv'
      BY <1>15 DEF PartsInv, HelperInv, TerminationFires
  <2>2. WatchInv'
      BY <1>15 DEF PartsInv, WatchInv, TerminationFires
  <2>3. RequestInv'
      BY <1>15 DEF PartsInv, RequestInv, TerminationFires
  <2>4. QED
      BY <2>1, <2>2, <2>3 DEF PartsInv
<1>16. CASE HealthFires
  <2>1. HelperInv'
      BY <1>16 DEF PartsInv, HelperInv, HealthFires, RestartBackend, Terminate
  <2>2. WatchInv'
      BY <1>16 DEF PartsInv, WatchInv, HealthFires, RestartBackend, Terminate, Stronger
  <2>3. RequestInv'
      BY <1>16 DEF PartsInv, RequestInv, HealthFires, RestartBackend, Terminate, Stronger
  <2>4. QED
      BY <2>1, <2>2, <2>3 DEF PartsInv
<1>17. CASE UNCHANGED vars
    BY <1>17 DEF vars, PartsInv, HelperInv, WatchInv, RequestInv
<1>18. QED
    BY <1>1, <1>2, <1>3, <1>4, <1>5, <1>6, <1>7, <1>8, <1>9, <1>10, <1>11, <1>12, <1>13, <1>14, <1>15, <1>16, <1>17 DEF Next

\* Every path that launches a helper goes through a failure that counts.
LEMMA StepCount ==
  ASSUME TypeOK, PartsInv, CountInv, [Next]_vars
  PROVE  CountInv'
<1> USE LimitAssumption DEF host, child, flags, count, shown
<1>1. CASE Activate
  <2>1. PaidInv'
      BY <1>1 DEF CountInv, PaidInv, Activate, Start
  <2>2. WithinCapInv'
      BY <1>1 DEF CountInv, PaidInv, WithinCapInv, Activate, Start
  <2>3. QED
      BY <2>1, <2>2 DEF CountInv
<1>2. CASE Deactivate
  <2>1. PaidInv'
      BY <1>2 DEF CountInv, PaidInv, Deactivate, StoppedOnClose
  <2>2. WithinCapInv'
      BY <1>2 DEF CountInv, WithinCapInv, Deactivate, StoppedOnClose
  <2>3. QED
      BY <2>1, <2>2 DEF CountInv
<1>3. CASE Retry
  <2>1. PaidInv'
    <3>1. CASE proc # "none" \/ started
      <4>1. CASE Exhausted(0)
        <5>1. /\ failures' = 0 /\ goodFrames' = 0 /\ invalidFrames' = 0 /\ launches' = 0
              /\ restartRequested' = FALSE /\ proc' = proc /\ active' = active /\ disposing' = disposing
            BY <1>3, <3>1, <4>1 DEF Retry, RestartBackend, Terminate
        <5>2. timers' \subseteq (timers \ {"restart"}) \cup {"termination"}
            BY <1>3, <3>1, <4>1 DEF Retry, RestartBackend, Terminate
        <5>3. proc # "none" => sig' # "none"
            BY <1>3, <3>1, <4>1 DEF Retry, RestartBackend, Terminate, Stronger
        <5>4. QED
            BY <5>1, <5>2, <5>3 DEF CountInv, PaidInv, WithinCapInv
      <4>2. CASE ~Exhausted(0) /\ proc = "none"
          BY <1>3, <3>1, <4>2 DEF PartsInv, HelperInv, Retry, RestartBackend
      <4>3. CASE ~Exhausted(0) /\ proc # "none"
          BY <1>3, <3>1, <4>3 DEF CountInv, PaidInv, Retry, RestartBackend
      <4>4. QED
          BY <4>1, <4>2, <4>3
    <3>2. CASE ~(proc # "none" \/ started)
        BY <1>3, <3>2 DEF CountInv, PaidInv, Retry, RestartBackend
    <3>3. QED
        BY <3>1, <3>2
  <2>2. WithinCapInv'
    <3>1. CASE proc # "none" \/ started
      <4>1. CASE Exhausted(0)
        <5>1. /\ failures' = 0 /\ goodFrames' = 0 /\ invalidFrames' = 0 /\ launches' = 0
              /\ restartRequested' = FALSE /\ proc' = proc /\ active' = active /\ disposing' = disposing
            BY <1>3, <3>1, <4>1 DEF Retry, RestartBackend, Terminate
        <5>2. timers' \subseteq (timers \ {"restart"}) \cup {"termination"}
            BY <1>3, <3>1, <4>1 DEF Retry, RestartBackend, Terminate
        <5>3. proc # "none" => sig' # "none"
            BY <1>3, <3>1, <4>1 DEF Retry, RestartBackend, Terminate, Stronger
        <5>4. QED
            BY <5>1, <5>2, <5>3 DEF CountInv, PaidInv, WithinCapInv
      <4>2. CASE ~Exhausted(0) /\ proc = "none"
          BY <1>3, <3>1, <4>2 DEF PartsInv, HelperInv, Retry, RestartBackend
      <4>3. CASE ~Exhausted(0) /\ proc # "none"
          BY <1>3, <3>1, <4>3 DEF CountInv, WithinCapInv, Retry, RestartBackend, Exhausted
      <4>4. QED
          BY <4>1, <4>2, <4>3
    <3>2. CASE ~(proc # "none" \/ started)
        BY <1>3, <3>2 DEF CountInv, WithinCapInv, Retry, RestartBackend
    <3>3. QED
        BY <3>1, <3>2
  <2>3. QED
      BY <2>1, <2>2 DEF CountInv
<1>4. CASE Dispose
  <2>1. PaidInv'
      BY <1>4 DEF CountInv, PaidInv, Dispose
  <2>2. WithinCapInv'
      BY <1>4 DEF CountInv, WithinCapInv, Dispose
  <2>3. QED
      BY <2>1, <2>2 DEF CountInv
<1>5. CASE Started
  <2>1. PaidInv'
      BY <1>5 DEF CountInv, PaidInv, Started
  <2>2. WithinCapInv'
      BY <1>5 DEF CountInv, WithinCapInv, Started
  <2>3. QED
      BY <2>1, <2>2 DEF CountInv
<1>6. CASE FailedToStart
  <2>1. PaidInv'
      BY <1>6 DEF CountInv, PaidInv, FailedToStart
  <2>2. WithinCapInv'
      BY <1>6 DEF CountInv, WithinCapInv, FailedToStart
  <2>3. QED
      BY <2>1, <2>2 DEF CountInv
<1>7. CASE Exited
  <2>1. PaidInv'
      BY <1>7 DEF TypeOK, CountOK, CountInv, PaidInv, Exited, Unexpected
  <2>2. WithinCapInv'
      BY <1>7 DEF PartsInv, WatchInv, CountInv, WithinCapInv, Exited
  <2>3. QED
      BY <2>1, <2>2 DEF CountInv
<1>8. CASE ValidFrame
  <2>1. PaidInv'
      BY <1>8 DEF TypeOK, CountOK, CountInv, PaidInv, ValidFrame
  <2>2. WithinCapInv'
      BY <1>8 DEF CountInv, WithinCapInv, ValidFrame
  <2>3. QED
      BY <2>1, <2>2 DEF CountInv
<1>9. CASE InvalidFrame
  <2>1. PaidInv'
    <3>1. CASE invalidFrames + 1 >= BadRun
      <4>1. CASE Exhausted(failures)
          BY <1>9, <3>1, <4>1 DEF CountInv, PaidInv, InvalidFrame, RestartBackend, Terminate
      <4>2. CASE ~Exhausted(failures) /\ proc = "none"
          BY <1>9, <3>1, <4>2 DEF InvalidFrame, Accepting, RestartBackend
      <4>3. CASE ~Exhausted(failures) /\ proc # "none"
          BY <1>9, <3>1, <4>3 DEF TypeOK, CountOK, CountInv, PaidInv, InvalidFrame, Accepting, RestartBackend
      <4>4. QED
          BY <4>1, <4>2, <4>3
    <3>2. CASE ~(invalidFrames + 1 >= BadRun)
        BY <1>9, <3>2 DEF CountInv, PaidInv, InvalidFrame, RestartBackend
    <3>3. QED
        BY <3>1, <3>2
  <2>2. WithinCapInv'
    <3>1. CASE invalidFrames + 1 >= BadRun
      <4>1. CASE Exhausted(failures)
          BY <1>9, <3>1, <4>1 DEF CountInv, WithinCapInv, InvalidFrame, Accepting, RestartBackend
      <4>2. CASE ~Exhausted(failures) /\ proc = "none"
          BY <1>9, <3>1, <4>2 DEF InvalidFrame, Accepting, RestartBackend
      <4>3. CASE ~Exhausted(failures) /\ proc # "none"
          BY <1>9, <3>1, <4>3 DEF TypeOK, CountOK, CountInv, WithinCapInv, InvalidFrame, RestartBackend, Exhausted
      <4>4. QED
          BY <4>1, <4>2, <4>3
    <3>2. CASE ~(invalidFrames + 1 >= BadRun)
        BY <1>9, <3>2 DEF CountInv, WithinCapInv, InvalidFrame, RestartBackend
    <3>3. QED
        BY <3>1, <3>2
  <2>3. QED
      BY <2>1, <2>2 DEF CountInv
<1>10. CASE Complains
  <2>1. PaidInv'
      BY <1>10 DEF CountInv, PaidInv, Complains
  <2>2. WithinCapInv'
      BY <1>10 DEF CountInv, WithinCapInv, Complains
  <2>3. QED
      BY <2>1, <2>2 DEF CountInv
<1>11. CASE FallsSilent
  <2>1. PaidInv'
      BY <1>11 DEF CountInv, PaidInv, FallsSilent
  <2>2. WithinCapInv'
      BY <1>11 DEF CountInv, WithinCapInv, FallsSilent
  <2>3. QED
      BY <2>1, <2>2 DEF CountInv
<1>12. CASE RestartFires
  <2>1. PaidInv'
      BY <1>12 DEF TypeOK, CountOK, CountInv, PaidInv, WithinCapInv, RestartFires, Start
  <2>2. WithinCapInv'
      BY <1>12 DEF CountInv, WithinCapInv, RestartFires, Start
  <2>3. QED
      BY <2>1, <2>2 DEF CountInv
<1>13. CASE StartupFires
  <2>1. PaidInv'
      BY <1>13 DEF TypeOK, CountOK, CountInv, PaidInv, StartupFires, RestartBackend, Terminate
  <2>2. WithinCapInv'
      BY <1>13 DEF TypeOK, CountOK, CountInv, WithinCapInv, StartupFires, RestartBackend, Exhausted
  <2>3. QED
      BY <2>1, <2>2 DEF CountInv
<1>14. CASE FirstFrameFires
  <2>1. PaidInv'
      BY <1>14 DEF TypeOK, CountOK, CountInv, PaidInv, FirstFrameFires, RestartBackend, Terminate
  <2>2. WithinCapInv'
      BY <1>14 DEF TypeOK, CountOK, CountInv, WithinCapInv, FirstFrameFires, RestartBackend, Exhausted, Terminate
  <2>3. QED
      BY <2>1, <2>2 DEF CountInv
<1>15. CASE TerminationFires
  <2>1. PaidInv'
      BY <1>15 DEF CountInv, PaidInv, TerminationFires
  <2>2. WithinCapInv'
      BY <1>15 DEF CountInv, WithinCapInv, TerminationFires
  <2>3. QED
      BY <2>1, <2>2 DEF CountInv
<1>16. CASE HealthFires
  <2>1. PaidInv'
      BY <1>16 DEF TypeOK, CountOK, CountInv, PaidInv, HealthFires, RestartBackend, Terminate
  <2>2. WithinCapInv'
      BY <1>16 DEF TypeOK, CountOK, CountInv, WithinCapInv, HealthFires, RestartBackend, Exhausted, Terminate
  <2>3. QED
      BY <2>1, <2>2 DEF CountInv
<1>17. CASE UNCHANGED vars
    BY <1>17 DEF vars, CountInv, PaidInv, WithinCapInv
<1>18. QED
    BY <1>1, <1>2, <1>3, <1>4, <1>5, <1>6, <1>7, <1>8, <1>9, <1>10, <1>11, <1>12, <1>13, <1>14, <1>15, <1>16, <1>17 DEF Next

\* Only an open view accepts records.
LEMMA StepHeld ==
  ASSUME TypeOK, PartsInv, HeldInv, [Next]_vars
  PROVE  HeldInv'
<1> USE LimitAssumption DEF host, child, flags, count, shown
<1>1. CASE Activate
    BY <1>1 DEF HeldInv, Activate, Start
<1>2. CASE Deactivate
    BY <1>2 DEF HeldInv, Deactivate, StoppedOnClose, Stronger
<1>3. CASE Retry
    BY <1>3 DEF HeldInv, Retry, RestartBackend
<1>4. CASE Dispose
    BY <1>4 DEF HeldInv, Dispose
<1>5. CASE Started
    BY <1>5 DEF HeldInv, Started
<1>6. CASE FailedToStart
    BY <1>6 DEF HeldInv, FailedToStart
<1>7. CASE Exited
    BY <1>7 DEF HeldInv, Exited, Unexpected
<1>8. CASE ValidFrame
    BY <1>8 DEF HeldInv, ValidFrame, Accepting
<1>9. CASE InvalidFrame
    BY <1>9 DEF HeldInv, InvalidFrame, RestartBackend
<1>10. CASE Complains
    BY <1>10 DEF HeldInv, Complains
<1>11. CASE FallsSilent
    BY <1>11 DEF HeldInv, FallsSilent
<1>12. CASE RestartFires
    BY <1>12 DEF HeldInv, RestartFires, Start
<1>13. CASE StartupFires
    BY <1>13 DEF HeldInv, StartupFires, RestartBackend
<1>14. CASE FirstFrameFires
    BY <1>14 DEF HeldInv, FirstFrameFires, RestartBackend
<1>15. CASE TerminationFires
    BY <1>15 DEF HeldInv, TerminationFires
<1>16. CASE HealthFires
    BY <1>16 DEF HeldInv, HealthFires, RestartBackend
<1>17. CASE UNCHANGED vars
    BY <1>17 DEF vars, HeldInv
<1>18. QED
    BY <1>1, <1>2, <1>3, <1>4, <1>5, <1>6, <1>7, <1>8, <1>9, <1>10, <1>11, <1>12, <1>13, <1>14, <1>15, <1>16, <1>17 DEF Next

IInv == TypeOK /\ PartsInv /\ CountInv /\ HeldInv

LEMMA Invariance == Spec => []IInv
<1>1. Init => IInv
    BY InitInv DEF IInv
<1>2. IInv /\ [Next]_vars => IInv'
    BY StepType, StepParts, StepCount, StepHeld DEF IInv
<1>3. QED
    BY <1>1, <1>2, PTL DEF Spec

\* The state of the supervisor keeps its types; failures never passes the cap by more than one.
THEOREM TypeCorrect == Spec => []TypeOK
<1>1. IInv => TypeOK
    BY DEF IInv
<1>2. QED
    BY <1>1, Invariance, PTL

\* However watchdogs, crashes, invalid records and Retry interleave, at most MaxRetries
\* relaunches follow a launch before the failure count is reset.
THEOREM RecoveryIsCapped == Spec => []LaunchesCapped
<1>1. IInv => LaunchesCapped
    BY DEF IInv, CountInv, PaidInv, LaunchesCapped
<1>2. QED
    BY <1>1, Invariance, PTL

\* Whatever an old helper prints after a close, nothing is held until the next open.
THEOREM CloseDropsState == Spec => []ClosedHoldsNothing
<1>1. IInv => ClosedHoldsNothing
    BY DEF IInv, HeldInv, ClosedHoldsNothing
<1>2. QED
    BY <1>1, Invariance, PTL

-----------------------------------------------------------------------------
\* What makes a dead end impossible when a component is opened only once its helper is gone.
WillingInv == active /\ ~disposing => ~intentionalStop

\* A launch that was told to stop is one to be replaced, or the last.
StoppedInv ==
  /\ proc = "starting" /\ sig = "none" => "termination" \notin timers
  /\ active /\ ~disposing /\ proc = "starting" /\ sig # "none" => restartRequested \/ gaveUp

WantedInv == WillingInv /\ StoppedInv /\ NoDeadEnd

LEMMA StepStopped ==
  ASSUME ~Reopens, IInv, StoppedInv, [Next]_vars
  PROVE  StoppedInv'
<1> USE DEF host, child, flags, count, shown
<1>1. CASE Activate \/ Deactivate \/ Retry
    BY <1>1 DEF IInv, PartsInv, HelperInv, StoppedInv, Activate, Deactivate, StoppedOnClose, Retry,
       RestartBackend, Terminate, Stronger, Start
<1>2. CASE Dispose \/ Started \/ FailedToStart \/ Exited
    BY <1>2 DEF StoppedInv, Dispose, Started, FailedToStart, Exited
<1>3. CASE ValidFrame \/ InvalidFrame \/ Complains
    BY <1>3 DEF StoppedInv, ValidFrame, InvalidFrame, Complains, RestartBackend, Terminate, Stronger
<1>4. CASE RestartFires \/ TerminationFires
  <2>1. CASE RestartFires
      BY <2>1 DEF IInv, PartsInv, WatchInv, HelperInv, StoppedInv, RestartFires, Start
  <2>2. CASE TerminationFires /\ sig # "none"
      BY <2>2 DEF StoppedInv, TerminationFires
  <2>3. CASE TerminationFires /\ sig = "none"
      BY <2>3 DEF StoppedInv, TerminationFires
  <2>4. QED
      BY <1>4, <2>1, <2>2, <2>3
<1>5. CASE StartupFires \/ FirstFrameFires \/ HealthFires
    BY <1>5 DEF StoppedInv, StartupFires, FirstFrameFires, HealthFires, RestartBackend, Terminate, Stronger
<1>6. CASE FallsSilent
    BY <1>6 DEF StoppedInv, FallsSilent
<1>7. CASE UNCHANGED vars
    BY <1>7 DEF vars, StoppedInv
<1>8. QED
    BY <1>1, <1>2, <1>3, <1>4, <1>5, <1>6, <1>7 DEF Next

LEMMA StepWanted ==
  ASSUME ~Reopens, IInv, WantedInv, [Next]_vars
  PROVE  WantedInv'
<1> USE LimitAssumption DEF host, child, flags, count, shown
<1>0. StoppedInv'
    BY StepStopped DEF WantedInv
<1>1. CASE Activate
  <2>1. WillingInv'
      BY <1>1 DEF IInv, PartsInv, WatchInv, WantedInv, WillingInv, Activate, Start
  <2>2. NoDeadEnd'
      BY <1>1 DEF WantedInv, NoDeadEnd, Missed, Activate, Start
  <2>3. QED
      BY <1>0, <2>1, <2>2 DEF WantedInv
<1>2. CASE Deactivate
  <2>1. WillingInv'
      BY <1>2 DEF WantedInv, WillingInv, Deactivate, StoppedOnClose
  <2>2. NoDeadEnd'
      BY <1>2 DEF WantedInv, NoDeadEnd, Missed, Deactivate, StoppedOnClose
  <2>3. QED
      BY <1>0, <2>1, <2>2 DEF WantedInv
<1>3. CASE Retry
  <2>1. WillingInv'
      BY <1>3 DEF WantedInv, WillingInv, Retry, RestartBackend
  <2>2. NoDeadEnd'
      BY <1>3 DEF WantedInv, NoDeadEnd, Missed, Retry, RestartBackend, Terminate
  <2>3. QED
      BY <1>0, <2>1, <2>2 DEF WantedInv
<1>4. CASE Dispose
  <2>1. WillingInv'
      BY <1>4 DEF WantedInv, WillingInv, Dispose
  <2>2. NoDeadEnd'
      BY <1>4 DEF WantedInv, NoDeadEnd, Missed, Dispose
  <2>3. QED
      BY <1>0, <2>1, <2>2 DEF WantedInv
<1>5. CASE Started
  <2>1. WillingInv'
      BY <1>5 DEF WantedInv, WillingInv, Started
  <2>2. NoDeadEnd'
      BY <1>5 DEF WantedInv, NoDeadEnd, Missed, Started
  <2>3. QED
      BY <1>0, <2>1, <2>2 DEF WantedInv
<1>6. CASE FailedToStart
  <2>1. WillingInv'
      BY <1>6 DEF WantedInv, WillingInv, FailedToStart
  <2>2. NoDeadEnd'
      BY <1>6 DEF IInv, PartsInv, WatchInv, WantedInv, StoppedInv, NoDeadEnd, Missed, FailedToStart
  <2>3. QED
      BY <1>0, <2>1, <2>2 DEF WantedInv
<1>7. CASE Exited
  <2>1. WillingInv'
      BY <1>7 DEF WantedInv, WillingInv, Exited
  <2>2. NoDeadEnd'
      BY <1>7 DEF IInv, PartsInv, CountInv, WithinCapInv, WantedInv, WillingInv, NoDeadEnd, Missed, Exited, Unexpected
  <2>3. QED
      BY <1>0, <2>1, <2>2 DEF WantedInv
<1>8. CASE ValidFrame
  <2>1. WillingInv'
      BY <1>8 DEF WantedInv, WillingInv, ValidFrame
  <2>2. NoDeadEnd'
      BY <1>8 DEF WantedInv, NoDeadEnd, Missed, ValidFrame
  <2>3. QED
      BY <1>0, <2>1, <2>2 DEF WantedInv
<1>9. CASE InvalidFrame
  <2>1. WillingInv'
      BY <1>9 DEF WantedInv, WillingInv, InvalidFrame, RestartBackend
  <2>2. NoDeadEnd'
      BY <1>9 DEF WantedInv, NoDeadEnd, Missed, InvalidFrame, RestartBackend, Terminate
  <2>3. QED
      BY <1>0, <2>1, <2>2 DEF WantedInv
<1>10. CASE Complains
  <2>1. WillingInv'
      BY <1>10 DEF WantedInv, WillingInv, Complains
  <2>2. NoDeadEnd'
      BY <1>10 DEF WantedInv, NoDeadEnd, Missed, Complains
  <2>3. QED
      BY <1>0, <2>1, <2>2 DEF WantedInv
<1>11. CASE FallsSilent
  <2>1. WillingInv'
      BY <1>11 DEF WantedInv, WillingInv, FallsSilent
  <2>2. NoDeadEnd'
      BY <1>11 DEF WantedInv, NoDeadEnd, Missed, FallsSilent
  <2>3. QED
      BY <1>0, <2>1, <2>2 DEF WantedInv
<1>12. CASE RestartFires
  <2>1. WillingInv'
      BY <1>12 DEF WantedInv, WillingInv, RestartFires, Start
  <2>2. NoDeadEnd'
      BY <1>12 DEF WantedInv, NoDeadEnd, Missed, RestartFires, Start
  <2>3. QED
      BY <1>0, <2>1, <2>2 DEF WantedInv
<1>13. CASE StartupFires
  <2>1. WillingInv'
      BY <1>13 DEF WantedInv, WillingInv, StartupFires, RestartBackend
  <2>2. NoDeadEnd'
      BY <1>13 DEF IInv, PartsInv, HelperInv, WantedInv, NoDeadEnd, Missed, StartupFires, RestartBackend, Terminate
  <2>3. QED
      BY <1>0, <2>1, <2>2 DEF WantedInv
<1>14. CASE FirstFrameFires
  <2>1. WillingInv'
      BY <1>14 DEF WantedInv, WillingInv, FirstFrameFires, RestartBackend
  <2>2. NoDeadEnd'
      BY <1>14 DEF WantedInv, NoDeadEnd, Missed, FirstFrameFires, RestartBackend, Terminate
  <2>3. QED
      BY <1>0, <2>1, <2>2 DEF WantedInv
<1>15. CASE TerminationFires
  <2>1. WillingInv'
      BY <1>15 DEF WantedInv, WillingInv, TerminationFires
  <2>2. NoDeadEnd'
      BY <1>15 DEF WantedInv, NoDeadEnd, Missed, TerminationFires
  <2>3. QED
      BY <1>0, <2>1, <2>2 DEF WantedInv
<1>16. CASE HealthFires
  <2>1. WillingInv'
      BY <1>16 DEF WantedInv, WillingInv, HealthFires, RestartBackend
  <2>2. NoDeadEnd'
      BY <1>16 DEF WantedInv, NoDeadEnd, Missed, HealthFires, RestartBackend, Terminate
  <2>3. QED
      BY <1>0, <2>1, <2>2 DEF WantedInv
<1>17. CASE UNCHANGED vars
    BY <1>0, <1>17 DEF vars, WantedInv, WillingInv, NoDeadEnd, Missed
<1>18. QED
    BY <1>1, <1>2, <1>3, <1>4, <1>5, <1>6, <1>7, <1>8, <1>9, <1>10, <1>11, <1>12, <1>13, <1>14, <1>15, <1>16, <1>17 DEF Next

(***************************************************************************)
(* A component that is unloaded before it is opened again is never left    *)
(* without a helper, a scheduled restart, a watchdog or the message that   *)
(* retries are exhausted, but for a missed restart.                        *)
(***************************************************************************)
THEOREM NeverStranded ==
  ASSUME ~Reopens
  PROVE  Spec => []NoDeadEnd
<1>1. Init => WantedInv
    BY DEF Init, WantedInv, WillingInv, StoppedInv, NoDeadEnd, Missed
<1>2. IInv /\ WantedInv /\ [Next]_vars => WantedInv'
    BY StepWanted
<1>3. WantedInv => NoDeadEnd
    BY DEF WantedInv
<1>4. QED
    BY <1>1, <1>2, <1>3, Invariance, PTL DEF Spec

-----------------------------------------------------------------------------
(* Liveness.  The provers know nothing of ENABLED: that every handler which is waited for can run *)
(* is the hypothesis []WatchesCanFire, which TLC checks.                                          *)

\* The helper is killed, or will be.
Doomed == sig = "kill" \/ (~disposing /\ "termination" \in timers)

\* A helper that is to end, be it by a close, a restart or a failed watch, is doomed, and one that
\* has not shown a frame yet is watched.
EndInv ==
  /\ (~active \/ disposing) /\ proc # "none" => Doomed
  /\ proc = "up" /\ ~started => Doomed
  /\ restartRequested /\ proc # "none" => Doomed
  /\ ready => sampled
  /\ started /\ ~ready => Doomed \/ "firstFrame" \in timers

\* Every step keeps these.
LEMMA StepEnd ==
  ASSUME TypeOK, PartsInv, EndInv, [Next]_vars
  PROVE  EndInv'
<1> USE LimitAssumption DEF host, child, flags, count, shown
<1>1. CASE Activate
    BY <1>1 DEF EndInv, Doomed, Activate, Start
<1>2. CASE Deactivate
    BY <1>2 DEF EndInv, Doomed, Deactivate, Terminate
<1>3. CASE Retry
    BY <1>3 DEF EndInv, Doomed, Retry, RestartBackend, Terminate
<1>4. CASE Dispose
    BY <1>4 DEF EndInv, Doomed, PartsInv, HelperInv, RequestInv, Dispose
<1>5. CASE Started
    BY <1>5 DEF EndInv, Doomed, Started
<1>6. CASE FailedToStart
    BY <1>6 DEF EndInv, PartsInv, HelperInv, RequestInv, FailedToStart
<1>7. CASE Exited
    BY <1>7 DEF EndInv, Exited
<1>8. CASE ValidFrame
    BY <1>8 DEF EndInv, Doomed, ValidFrame
<1>9. CASE InvalidFrame
    BY <1>9 DEF EndInv, Doomed, InvalidFrame, Accepting, RestartBackend, Terminate
<1>10. CASE Complains
    BY <1>10 DEF EndInv, Doomed, Complains
<1>11. CASE FallsSilent
    BY <1>11 DEF EndInv, Doomed, FallsSilent
<1>12. CASE RestartFires
    BY <1>12 DEF EndInv, PartsInv, WatchInv, RestartFires, Start
<1>13. CASE StartupFires
    BY <1>13 DEF EndInv, Doomed, StartupFires, RestartBackend, Terminate
<1>14. CASE FirstFrameFires
    BY <1>14 DEF EndInv, Doomed, PartsInv, HelperInv, FirstFrameFires, RestartBackend, Terminate
<1>15. CASE TerminationFires
    BY <1>15 DEF EndInv, Doomed, PartsInv, HelperInv, RequestInv, TerminationFires
<1>16. CASE HealthFires
    BY <1>16 DEF EndInv, Doomed, HealthFires, RestartBackend, Terminate
<1>17. CASE UNCHANGED vars
    BY <1>17 DEF vars, EndInv, Doomed
<1>18. QED
    BY <1>1, <1>2, <1>3, <1>4, <1>5, <1>6, <1>7, <1>8, <1>9, <1>10, <1>11, <1>12, <1>13, <1>14, <1>15, <1>16, <1>17 DEF Next

\* What the theorems below start from.
LInv == IInv /\ EndInv

\* They hold in every state of the supervisor, for any limits.
LEMMA LiveInvariance == Spec => []LInv
<1>1. Init => EndInv
    BY DEF Init, EndInv
<1>2. IInv /\ EndInv /\ [Next]_vars => EndInv'
    BY StepEnd DEF IInv
<1>3. LInv <=> IInv /\ EndInv
    BY DEF LInv
<1>4. QED
    BY <1>1, <1>2, <1>3, Invariance, PTL DEF Spec

\* The stages of a close: the launch that is under way, the grace of SIGTERM, the end.
Closing == ~active \/ disposing
ClosingLaunch == Closing /\ proc = "starting"
ClosingGrace == Closing /\ proc = "up" /\ ~disposing /\ "termination" \in timers
ClosingKill == Closing /\ proc = "up" /\ sig = "kill"
ClosingLeft == proc = "none" \/ (active /\ ~disposing)

\* A closing supervisor waits for its launch, and then for the helper that came of it, or is opened.
LEMMA StepClosingLaunch ==
  ASSUME LInv, ClosingLaunch, [Next]_vars
  PROVE  (ClosingLaunch \/ ClosingGrace \/ ClosingKill \/ ClosingLeft)'
<1> USE LimitAssumption DEF host, child, flags, count, shown
<1>1. CASE Activate
    BY <1>1 DEF ClosingLeft, Activate
<1>2. CASE Deactivate
    BY <1>2 DEF Closing, ClosingLaunch, Deactivate
<1>3. CASE Retry
    BY <1>3 DEF ClosingLeft, Retry, RestartBackend
<1>4. CASE Dispose
    BY <1>4 DEF Closing, ClosingLaunch, Dispose
<1>5. CASE Started
    BY <1>5 DEF LInv, EndInv, Doomed, Closing, ClosingGrace, ClosingKill, ClosingLeft, Started
<1>6. CASE FailedToStart
    BY <1>6 DEF ClosingLeft, FailedToStart
<1>7. CASE Exited
    BY <1>7 DEF ClosingLeft, Exited
<1>8. CASE ValidFrame
    BY <1>8 DEF ClosingLeft, ValidFrame, Accepting
<1>9. CASE InvalidFrame
    BY <1>9 DEF ClosingLeft, InvalidFrame, Accepting, RestartBackend
<1>10. CASE Complains
    BY <1>10 DEF ClosingLaunch, Complains
<1>11. CASE FallsSilent
    BY <1>11 DEF Closing, ClosingLaunch, FallsSilent
<1>12. CASE RestartFires
    BY <1>12 DEF ClosingLeft, RestartFires
<1>13. CASE StartupFires
    BY <1>13 DEF Closing, ClosingLaunch, StartupFires
<1>14. CASE FirstFrameFires
    BY <1>14 DEF Closing, ClosingLaunch, FirstFrameFires
<1>15. CASE TerminationFires
    BY <1>15 DEF Closing, ClosingLaunch, TerminationFires
<1>16. CASE HealthFires
    BY <1>16 DEF ClosingLeft, HealthFires, RestartBackend
<1>17. CASE UNCHANGED vars
    BY <1>17 DEF vars, Closing, ClosingLaunch
<1>18. QED
    BY <1>1, <1>2, <1>3, <1>4, <1>5, <1>6, <1>7, <1>8, <1>9, <1>10, <1>11, <1>12, <1>13, <1>14, <1>15, <1>16, <1>17 DEF Next

\* A helper that was asked to end is gone, or is killed when the grace is over.
LEMMA StepClosingGrace ==
  ASSUME LInv, ClosingGrace, [Next]_vars
  PROVE  (ClosingGrace \/ ClosingKill \/ ClosingLeft)'
<1> USE LimitAssumption DEF host, child, flags, count, shown
<1>1. CASE Activate
    BY <1>1 DEF ClosingLeft, Activate
<1>2. CASE Deactivate
    BY <1>2 DEF Closing, ClosingGrace, Deactivate
<1>3. CASE Retry
    BY <1>3 DEF ClosingLeft, Retry, RestartBackend
<1>4. CASE Dispose
    BY <1>4 DEF Closing, ClosingGrace, ClosingKill, Dispose
<1>5. CASE Started
    BY <1>5 DEF ClosingGrace, Started
<1>6. CASE FailedToStart
    BY <1>6 DEF ClosingLeft, FailedToStart
<1>7. CASE Exited
    BY <1>7 DEF ClosingLeft, Exited
<1>8. CASE ValidFrame
    BY <1>8 DEF ClosingLeft, ValidFrame, Accepting
<1>9. CASE InvalidFrame
    BY <1>9 DEF ClosingLeft, InvalidFrame, Accepting, RestartBackend
<1>10. CASE Complains
    BY <1>10 DEF ClosingGrace, ClosingLeft, Complains
<1>11. CASE FallsSilent
    BY <1>11 DEF Closing, ClosingGrace, FallsSilent
<1>12. CASE RestartFires
    BY <1>12 DEF ClosingLeft, RestartFires
<1>13. CASE StartupFires
    BY <1>13 DEF Closing, ClosingGrace, StartupFires
<1>14. CASE FirstFrameFires
    BY <1>14 DEF Closing, ClosingGrace, FirstFrameFires
<1>15. CASE TerminationFires
    BY <1>15 DEF Closing, ClosingGrace, ClosingKill, TerminationFires
<1>16. CASE HealthFires
    BY <1>16 DEF ClosingLeft, HealthFires, RestartBackend
<1>17. CASE UNCHANGED vars
    BY <1>17 DEF vars, Closing, ClosingGrace
<1>18. QED
    BY <1>1, <1>2, <1>3, <1>4, <1>5, <1>6, <1>7, <1>8, <1>9, <1>10, <1>11, <1>12, <1>13, <1>14, <1>15, <1>16, <1>17 DEF Next

\* A killed helper of a closed supervisor stays one until its exit.
LEMMA StepClosingKill ==
  ASSUME LInv, ClosingKill, [Next]_vars
  PROVE  (ClosingKill \/ ClosingLeft)'
<1> USE LimitAssumption DEF host, child, flags, count, shown
<1>1. CASE Activate
    BY <1>1 DEF ClosingLeft, Activate
<1>2. CASE Deactivate
    BY <1>2 DEF Closing, ClosingKill, Deactivate
<1>3. CASE Retry
    BY <1>3 DEF ClosingLeft, Retry, RestartBackend
<1>4. CASE Dispose
    BY <1>4 DEF Closing, ClosingKill, Dispose
<1>5. CASE Started
    BY <1>5 DEF ClosingKill, Started
<1>6. CASE FailedToStart
    BY <1>6 DEF ClosingLeft, FailedToStart
<1>7. CASE Exited
    BY <1>7 DEF ClosingLeft, Exited
<1>8. CASE ValidFrame
    BY <1>8 DEF ClosingLeft, ValidFrame, Accepting
<1>9. CASE InvalidFrame
    BY <1>9 DEF ClosingLeft, InvalidFrame, Accepting, RestartBackend
<1>10. CASE Complains
    BY <1>10 DEF Closing, ClosingKill, Complains
<1>11. CASE FallsSilent
    BY <1>11 DEF Closing, ClosingKill, FallsSilent
<1>12. CASE RestartFires
    BY <1>12 DEF ClosingLeft, RestartFires
<1>13. CASE StartupFires
    BY <1>13 DEF Closing, ClosingKill, StartupFires
<1>14. CASE FirstFrameFires
    BY <1>14 DEF Closing, ClosingKill, FirstFrameFires
<1>15. CASE TerminationFires
    BY <1>15 DEF Closing, ClosingKill, TerminationFires
<1>16. CASE HealthFires
    BY <1>16 DEF ClosingLeft, HealthFires, RestartBackend
<1>17. CASE UNCHANGED vars
    BY <1>17 DEF vars, Closing, ClosingKill
<1>18. QED
    BY <1>1, <1>2, <1>3, <1>4, <1>5, <1>6, <1>7, <1>8, <1>9, <1>10, <1>11, <1>12, <1>13, <1>14, <1>15, <1>16, <1>17 DEF Next

\* A close ends the helper also if it ignores SIGTERM, whatever happens meanwhile, unless the
\* component is opened again.
THEOREM CloseStops == FairSpec /\ []WatchesCanFire => CloseStopsHelper
<1>1. LInv /\ Closing => ClosingLaunch \/ ClosingGrace \/ ClosingKill \/ ClosingLeft
    BY DEF LInv, IInv, TypeOK, ChildOK, EndInv, Doomed, ClosingLaunch, ClosingGrace, ClosingKill,
       ClosingLeft
<1>2. LInv /\ ClosingLaunch /\ [Next]_vars =>
      (ClosingLaunch \/ ClosingGrace \/ ClosingKill \/ ClosingLeft)'
    BY StepClosingLaunch
<1>3. LInv /\ ClosingGrace /\ [Next]_vars => (ClosingGrace \/ ClosingKill \/ ClosingLeft)'
    BY StepClosingGrace
<1>4. LInv /\ ClosingKill /\ [Next]_vars => (ClosingKill \/ ClosingLeft)'
    BY StepClosingKill
<1>5. ClosingLaunch /\ <<Started \/ FailedToStart>>_vars => ~ClosingLaunch'
    BY DEF Started, FailedToStart, ClosingLaunch
<1>6. ClosingGrace /\ <<TerminationFires>>_vars => ~ClosingGrace'
    BY DEF TerminationFires, ClosingGrace
<1>7. ClosingKill /\ <<sig = "kill" /\ Exited>>_vars => ClosingLeft'
    BY DEF Exited, ClosingLeft
<1>8. WatchesCanFire /\ ClosingLaunch => ENABLED <<Started \/ FailedToStart>>_vars
    BY DEF WatchesCanFire, ClosingLaunch
<1>9. WatchesCanFire /\ ClosingGrace => ENABLED <<TerminationFires>>_vars
    BY DEF WatchesCanFire, ClosingGrace
<1>10. WatchesCanFire /\ ClosingKill => ENABLED <<sig = "kill" /\ Exited>>_vars
    BY DEF WatchesCanFire, ClosingKill
<1>11. (~active \/ disposing) => Closing
    BY DEF Closing
<1>12. ClosingLeft => (proc = "none" \/ (active /\ ~disposing))
    BY DEF ClosingLeft
<1>13. QED
    BY <1>1, <1>2, <1>3, <1>4, <1>5, <1>6, <1>7, <1>8, <1>9, <1>10, <1>11, <1>12, LiveInvariance, PTL
       DEF FairSpec, Fairness, Spec, CloseStopsHelper

\* The stages of a stall: the health timer, or an end that is under way already.
Hanging == ready /\ stale /\ ~disposing
HangingSeen == Hanging /\ started
HangingGrace == Hanging /\ ~started /\ "termination" \in timers
HangingKill == Hanging /\ ~started /\ sig = "kill"

\* A helper that has fallen silent stays so in the eyes of the health timer until that fires.
LEMMA StepHangingSeen ==
  ASSUME LInv, HangingSeen, [Next]_vars
  PROVE  (HangingSeen \/ ~Hanging)'
<1> USE LimitAssumption DEF host, child, flags, count, shown
<1>1. CASE Activate
    BY <1>1 DEF Hanging, HangingSeen, Activate, Start
<1>2. CASE Deactivate
    BY <1>2 DEF Hanging, Deactivate
<1>3. CASE Retry
    BY <1>3 DEF Hanging, Retry, RestartBackend
<1>4. CASE Dispose
    BY <1>4 DEF HangingSeen, Dispose
<1>5. CASE Started
    BY <1>5 DEF HangingSeen, Started
<1>6. CASE FailedToStart
    BY <1>6 DEF HangingSeen, FailedToStart
<1>7. CASE Exited
    BY <1>7 DEF Hanging, Exited
<1>8. CASE ValidFrame
    BY <1>8 DEF HangingSeen, ValidFrame
<1>9. CASE InvalidFrame
    BY <1>9 DEF Hanging, HangingSeen, InvalidFrame, RestartBackend
<1>10. CASE Complains
    BY <1>10 DEF HangingSeen, Complains
<1>11. CASE FallsSilent
    BY <1>11 DEF HangingSeen, FallsSilent
<1>12. CASE RestartFires
    BY <1>12 DEF Hanging, HangingSeen, RestartFires, Start
<1>13. CASE StartupFires
    BY <1>13 DEF HangingSeen, StartupFires
<1>14. CASE FirstFrameFires
    BY <1>14 DEF Hanging, HangingSeen, FirstFrameFires
<1>15. CASE TerminationFires
    BY <1>15 DEF HangingSeen, TerminationFires
<1>16. CASE HealthFires
    BY <1>16 DEF Hanging, HealthFires, RestartBackend
<1>17. CASE UNCHANGED vars
    BY <1>17 DEF vars, HangingSeen
<1>18. QED
    BY <1>1, <1>2, <1>3, <1>4, <1>5, <1>6, <1>7, <1>8, <1>9, <1>10, <1>11, <1>12, <1>13, <1>14, <1>15, <1>16, <1>17 DEF Next

\* A silent helper that was asked to end is gone, killed, or not shown as live any more.
LEMMA StepHangingGrace ==
  ASSUME LInv, HangingGrace, [Next]_vars
  PROVE  (HangingGrace \/ HangingKill \/ ~Hanging)'
<1> USE LimitAssumption DEF host, child, flags, count, shown
<1>1. CASE Activate
    BY <1>1 DEF Hanging, HangingGrace, Activate, Start
<1>2. CASE Deactivate
    BY <1>2 DEF HangingGrace, Deactivate, StoppedOnClose, Terminate
<1>3. CASE Retry
    BY <1>3 DEF Hanging, Retry, RestartBackend
<1>4. CASE Dispose
    BY <1>4 DEF Hanging, Dispose
<1>5. CASE Started
    BY <1>5 DEF Hanging, Started
<1>6. CASE FailedToStart
    BY <1>6 DEF HangingGrace, FailedToStart
<1>7. CASE Exited
    BY <1>7 DEF Hanging, Exited
<1>8. CASE ValidFrame
    BY <1>8 DEF HangingGrace, ValidFrame
<1>9. CASE InvalidFrame
    BY <1>9 DEF HangingGrace, InvalidFrame, RestartBackend, Terminate
<1>10. CASE Complains
    BY <1>10 DEF HangingGrace, Complains
<1>11. CASE FallsSilent
    BY <1>11 DEF HangingGrace, FallsSilent
<1>12. CASE RestartFires
    BY <1>12 DEF Hanging, HangingGrace, RestartFires, Start
<1>13. CASE StartupFires
    BY <1>13 DEF HangingGrace, StartupFires, RestartBackend, Terminate
<1>14. CASE FirstFrameFires
    BY <1>14 DEF HangingGrace, FirstFrameFires
<1>15. CASE TerminationFires
    BY <1>15 DEF LInv, IInv, PartsInv, HelperInv, Hanging, HangingGrace, HangingKill,
       TerminationFires
<1>16. CASE HealthFires
    BY <1>16 DEF HangingGrace, HealthFires
<1>17. CASE UNCHANGED vars
    BY <1>17 DEF vars, HangingGrace
<1>18. QED
    BY <1>1, <1>2, <1>3, <1>4, <1>5, <1>6, <1>7, <1>8, <1>9, <1>10, <1>11, <1>12, <1>13, <1>14, <1>15, <1>16, <1>17 DEF Next

\* A silent helper that was killed stays so until its exit.
LEMMA StepHangingKill ==
  ASSUME LInv, HangingKill, [Next]_vars
  PROVE  (HangingKill \/ ~Hanging)'
<1> USE LimitAssumption DEF host, child, flags, count, shown
<1>1. CASE Activate
    BY <1>1 DEF Hanging, HangingKill, Activate, Start
<1>2. CASE Deactivate
    BY <1>2 DEF HangingKill, Deactivate, Terminate, Stronger
<1>3. CASE Retry
    BY <1>3 DEF Hanging, Retry, RestartBackend
<1>4. CASE Dispose
    BY <1>4 DEF HangingKill, Dispose
<1>5. CASE Started
    BY <1>5 DEF Hanging, Started
<1>6. CASE FailedToStart
    BY <1>6 DEF LInv, IInv, PartsInv, HelperInv, Hanging, HangingKill, FailedToStart
<1>7. CASE Exited
    BY <1>7 DEF Hanging, Exited
<1>8. CASE ValidFrame
    BY <1>8 DEF HangingKill, ValidFrame
<1>9. CASE InvalidFrame
    BY <1>9 DEF HangingKill, InvalidFrame, RestartBackend, Terminate, Stronger
<1>10. CASE Complains
    BY <1>10 DEF HangingKill, Complains
<1>11. CASE FallsSilent
    BY <1>11 DEF HangingKill, FallsSilent
<1>12. CASE RestartFires
    BY <1>12 DEF Hanging, HangingKill, RestartFires, Start
<1>13. CASE StartupFires
    BY <1>13 DEF HangingKill, StartupFires, RestartBackend, Terminate, Stronger
<1>14. CASE FirstFrameFires
    BY <1>14 DEF HangingKill, FirstFrameFires
<1>15. CASE TerminationFires
    BY <1>15 DEF HangingKill, TerminationFires
<1>16. CASE HealthFires
    BY <1>16 DEF HangingKill, HealthFires
<1>17. CASE UNCHANGED vars
    BY <1>17 DEF vars, HangingKill
<1>18. QED
    BY <1>1, <1>2, <1>3, <1>4, <1>5, <1>6, <1>7, <1>8, <1>9, <1>10, <1>11, <1>12, <1>13, <1>14, <1>15, <1>16, <1>17 DEF Next


\* A helper that falls silent after good frames does not stay on display as live.
THEOREM StallsEnd == FairSpec /\ []WatchesCanFire => StallIsNoticed
<1>1. LInv /\ Hanging => HangingSeen \/ HangingGrace \/ HangingKill
    BY DEF LInv, IInv, PartsInv, HelperInv, EndInv, Doomed, Hanging, HangingSeen, HangingGrace,
       HangingKill
<1>2. LInv /\ HangingSeen /\ [Next]_vars => (HangingSeen \/ ~Hanging)'
    BY StepHangingSeen
<1>3. LInv /\ HangingGrace /\ [Next]_vars => (HangingGrace \/ HangingKill \/ ~Hanging)'
    BY StepHangingGrace
<1>4. LInv /\ HangingKill /\ [Next]_vars => (HangingKill \/ ~Hanging)'
    BY StepHangingKill
<1>5. HangingSeen /\ <<HealthFires>>_vars => ~Hanging'
    BY DEF HealthFires, RestartBackend, Hanging
<1>6. HangingGrace /\ <<TerminationFires>>_vars => ~HangingGrace'
    BY DEF TerminationFires, HangingGrace
<1>7. HangingKill /\ <<sig = "kill" /\ Exited>>_vars => ~Hanging'
    BY DEF Exited, Hanging
<1>8. WatchesCanFire /\ LInv /\ HangingSeen => ENABLED <<HealthFires>>_vars
    BY DEF WatchesCanFire, LInv, IInv, PartsInv, HelperInv, EndInv, Stalled, Hanging, HangingSeen
<1>9. WatchesCanFire /\ HangingGrace => ENABLED <<TerminationFires>>_vars
    BY DEF WatchesCanFire, HangingGrace
<1>10. WatchesCanFire /\ LInv /\ HangingKill => ENABLED <<sig = "kill" /\ Exited>>_vars
    BY DEF WatchesCanFire, LInv, IInv, PartsInv, HelperInv, Hanging, HangingKill
<1>11. Hanging <=> ready /\ stale /\ ~disposing
    BY DEF Hanging
<1>12. QED
    BY <1>1, <1>2, <1>3, <1>4, <1>5, <1>6, <1>7, <1>8, <1>9, <1>10, <1>11, LiveInvariance, PTL
       DEF FairSpec, Fairness, Spec, StallIsNoticed

\* The stages on the way from one failure to the next: the end of the helper that is to be
\* replaced, the scheduled restart, and the life of the new helper.
SInv == LInv /\ WantedInv
Seeking == active /\ ~disposing /\ ~ready /\ ~gaveUp /\ ~Missed
Seek(n) == Seeking /\ failures = n
Onward(n) == ~Seeking \/ Seek(n + 1)
OldLaunch(n) == Seek(n) /\ restartRequested /\ proc = "starting"
OldGrace(n) == Seek(n) /\ restartRequested /\ proc = "up" /\ "termination" \in timers
OldKill(n) == Seek(n) /\ restartRequested /\ proc = "up" /\ sig = "kill"
Scheduled(n) == Seek(n) /\ "restart" \in timers
NewLaunch(n) == Seek(n) /\ ~restartRequested /\ proc = "starting"
NewGrace(n) == Seek(n) /\ ~restartRequested /\ proc = "up" /\ "termination" \in timers
NewKill(n) == Seek(n) /\ ~restartRequested /\ proc = "up" /\ sig = "kill"
NewSilent(n) == Seek(n) /\ ~restartRequested /\ proc = "up" /\ started /\ "firstFrame" \in timers
NeverRan(n) == Seek(n) /\ proc = "none" /\ "restart" \notin timers /\ "startup" \in timers

\* A launch that is to be replaced comes to a helper that ends, or to the next failure.
LEMMA StepOldLaunch ==
  ASSUME NEW n \in Nat, SInv, OldLaunch(n), [Next]_vars, [~Retry]_vars
  PROVE  (OldLaunch(n) \/ OldGrace(n) \/ OldKill(n) \/ Onward(n))'
<1> USE LimitAssumption DEF host, child, flags, count, shown
<1>1. CASE Activate
    BY <1>1 DEF Seek, Seeking, Missed, Onward, OldLaunch, Activate, Start
<1>2. CASE Deactivate
    BY <1>2 DEF Seeking, Missed, Onward, Deactivate
<1>3. CASE Retry /\ ~UNCHANGED vars
    BY <1>3
<1>4. CASE Dispose
    BY <1>4 DEF Seek, Seeking, Missed, Onward, OldLaunch, Dispose
<1>5. CASE Started
    BY <1>5 DEF SInv, LInv, EndInv, Doomed, Seek, Seeking, Missed, Onward, OldLaunch, OldGrace, OldKill, Started
<1>6. CASE FailedToStart
    BY <1>6 DEF Seeking, Missed, Onward, OldLaunch, FailedToStart
<1>7. CASE Exited
    BY <1>7 DEF OldLaunch, Exited
<1>8. CASE ValidFrame
    BY <1>8 DEF OldLaunch, ValidFrame
<1>9. CASE InvalidFrame
    BY <1>9 DEF OldLaunch, InvalidFrame
<1>10. CASE Complains
    BY <1>10 DEF OldLaunch, Complains
<1>11. CASE FallsSilent
    BY <1>11 DEF Seek, Seeking, Missed, Onward, OldLaunch, FallsSilent
<1>12. CASE RestartFires
    BY <1>12 DEF Seek, Seeking, Missed, Onward, OldLaunch, RestartFires, Start
<1>13. CASE StartupFires
    BY <1>13 DEF Seeking, Seek, Seeking, Missed, Onward, OldLaunch, StartupFires, RestartBackend
<1>14. CASE FirstFrameFires
    BY <1>14 DEF Seeking, Seek, Seeking, Missed, Onward, OldLaunch, FirstFrameFires, RestartBackend
<1>15. CASE TerminationFires
    BY <1>15 DEF Seek, Seeking, Missed, Onward, OldLaunch, TerminationFires
<1>16. CASE HealthFires
    BY <1>16 DEF Seeking, Seek, OldLaunch, HealthFires, Stalled
<1>17. CASE UNCHANGED vars
    BY <1>17 DEF vars, Seek, Seeking, Missed, Onward, OldLaunch
<1>18. QED
    BY <1>1, <1>2, <1>3, <1>4, <1>5, <1>6, <1>7, <1>8, <1>9, <1>10, <1>11, <1>12, <1>13, <1>14, <1>15, <1>16, <1>17 DEF Next

\* A helper that is to be replaced ends in its grace, or is killed.
LEMMA StepOldGrace ==
  ASSUME NEW n \in Nat, SInv, OldGrace(n), [Next]_vars, [~Retry]_vars
  PROVE  (OldGrace(n) \/ OldKill(n) \/ Scheduled(n) \/ Onward(n))'
<1> USE LimitAssumption DEF host, child, flags, count, shown
<1>1. CASE Activate
    BY <1>1 DEF Seek, Seeking, Missed, Onward, OldGrace, Activate, Start
<1>2. CASE Deactivate
    BY <1>2 DEF Seeking, Missed, Onward, Deactivate
<1>3. CASE Retry /\ ~UNCHANGED vars
    BY <1>3
<1>4. CASE Dispose
    BY <1>4 DEF Seek, Seeking, Missed, Onward, OldGrace, OldKill, Dispose
<1>5. CASE Started
    BY <1>5 DEF OldGrace, Started
<1>6. CASE FailedToStart
    BY <1>6 DEF OldGrace, FailedToStart
<1>7. CASE Exited
    BY <1>7 DEF SInv, LInv, IInv, CountInv, WithinCapInv, Seeking, Missed, Seek, OldGrace, Scheduled,
       Exited
<1>8. CASE ValidFrame
    BY <1>8 DEF Seeking, Missed, Onward, ValidFrame
<1>9. CASE InvalidFrame
    BY <1>9 DEF Seeking, Seek, Seeking, Missed, Onward, OldGrace, InvalidFrame, RestartBackend
<1>10. CASE Complains
    BY <1>10 DEF Seek, Seeking, Missed, Onward, OldGrace, Complains
<1>11. CASE FallsSilent
    BY <1>11 DEF Seek, Seeking, Missed, Onward, OldGrace, FallsSilent
<1>12. CASE RestartFires
    BY <1>12 DEF Seek, Seeking, Missed, Onward, OldGrace, RestartFires, Start
<1>13. CASE StartupFires
    BY <1>13 DEF Seeking, Seek, Seeking, Missed, Onward, OldGrace, StartupFires, RestartBackend
<1>14. CASE FirstFrameFires
    BY <1>14 DEF Seeking, Seek, Seeking, Missed, Onward, OldGrace, FirstFrameFires, RestartBackend
<1>15. CASE TerminationFires
    BY <1>15 DEF Seek, Seeking, Missed, Onward, OldGrace, OldKill, TerminationFires
<1>16. CASE HealthFires
    BY <1>16 DEF Seeking, Seek, OldGrace, HealthFires, Stalled
<1>17. CASE UNCHANGED vars
    BY <1>17 DEF vars, Seek, Seeking, Missed, Onward, OldGrace
<1>18. QED
    BY <1>1, <1>2, <1>3, <1>4, <1>5, <1>6, <1>7, <1>8, <1>9, <1>10, <1>11, <1>12, <1>13, <1>14, <1>15, <1>16, <1>17 DEF Next

\* A killed helper that is to be replaced ends, and the restart is scheduled.
LEMMA StepOldKill ==
  ASSUME NEW n \in Nat, SInv, OldKill(n), [Next]_vars, [~Retry]_vars
  PROVE  (OldKill(n) \/ Scheduled(n) \/ Onward(n))'
<1> USE LimitAssumption DEF host, child, flags, count, shown
<1>1. CASE Activate
    BY <1>1 DEF Seek, Seeking, Missed, Onward, OldKill, Activate, Start
<1>2. CASE Deactivate
    BY <1>2 DEF Seeking, Missed, Onward, Deactivate
<1>3. CASE Retry /\ ~UNCHANGED vars
    BY <1>3
<1>4. CASE Dispose
    BY <1>4 DEF Seek, Seeking, Missed, Onward, OldKill, Dispose
<1>5. CASE Started
    BY <1>5 DEF OldKill, Started
<1>6. CASE FailedToStart
    BY <1>6 DEF OldKill, FailedToStart
<1>7. CASE Exited
    BY <1>7 DEF SInv, LInv, IInv, CountInv, WithinCapInv, Seeking, Missed, Seek, OldKill, Scheduled,
       Exited
<1>8. CASE ValidFrame
    BY <1>8 DEF Seeking, Missed, Onward, ValidFrame
<1>9. CASE InvalidFrame
    BY <1>9 DEF Seeking, Seek, Seeking, Missed, Onward, OldKill, InvalidFrame, RestartBackend
<1>10. CASE Complains
    BY <1>10 DEF Seek, Seeking, Missed, Onward, OldKill, Complains
<1>11. CASE FallsSilent
    BY <1>11 DEF Seek, Seeking, Missed, Onward, OldKill, FallsSilent
<1>12. CASE RestartFires
    BY <1>12 DEF Seek, Seeking, Missed, Onward, OldKill, RestartFires, Start
<1>13. CASE StartupFires
    BY <1>13 DEF Seeking, Seek, Seeking, Missed, Onward, OldKill, StartupFires, RestartBackend
<1>14. CASE FirstFrameFires
    BY <1>14 DEF Seeking, Seek, Seeking, Missed, Onward, OldKill, FirstFrameFires, RestartBackend
<1>15. CASE TerminationFires
    BY <1>15 DEF Seek, Seeking, Missed, Onward, OldKill, TerminationFires
<1>16. CASE HealthFires
    BY <1>16 DEF Seeking, Seek, OldKill, HealthFires, Stalled
<1>17. CASE UNCHANGED vars
    BY <1>17 DEF vars, Seek, Seeking, Missed, Onward, OldKill
<1>18. QED
    BY <1>1, <1>2, <1>3, <1>4, <1>5, <1>6, <1>7, <1>8, <1>9, <1>10, <1>11, <1>12, <1>13, <1>14, <1>15, <1>16, <1>17 DEF Next

\* A scheduled restart stays scheduled until it starts a helper.
LEMMA StepScheduled ==
  ASSUME NEW n \in Nat, SInv, Scheduled(n), [Next]_vars, [~Retry]_vars
  PROVE  (Scheduled(n) \/ NewLaunch(n) \/ Onward(n))'
<1> USE LimitAssumption DEF host, child, flags, count, shown
<1>1. CASE Activate
    BY <1>1 DEF Seek, Seeking, Missed, Onward, Scheduled, Activate, Start
<1>2. CASE Deactivate
    BY <1>2 DEF Seeking, Missed, Onward, Deactivate
<1>3. CASE Retry /\ ~UNCHANGED vars
    BY <1>3
<1>4. CASE Dispose
    BY <1>4 DEF Seeking, Missed, Onward, Dispose
<1>5. CASE Started
    BY <1>5 DEF Seek, Seeking, Missed, Onward, Scheduled, Started
<1>6. CASE FailedToStart
    BY <1>6 DEF Seek, Seeking, Missed, Onward, Scheduled, FailedToStart
<1>7. CASE Exited
    BY <1>7 DEF Seek, Seeking, Missed, Onward, Scheduled, Exited
<1>8. CASE ValidFrame
    BY <1>8 DEF Seeking, Missed, Onward, ValidFrame
<1>9. CASE InvalidFrame
    BY <1>9 DEF Seek, Seeking, Missed, Onward, Scheduled, InvalidFrame, RestartBackend, Terminate
<1>10. CASE Complains
    BY <1>10 DEF Seek, Seeking, Missed, Onward, Scheduled, Complains
<1>11. CASE FallsSilent
    BY <1>11 DEF Seek, Seeking, Missed, Onward, Scheduled, FallsSilent
<1>12. CASE RestartFires
    BY <1>12 DEF SInv, LInv, IInv, PartsInv, WatchInv, Seek, Seeking, Missed, Onward, Scheduled, NewLaunch,
       RestartFires, Start
<1>13. CASE StartupFires
    BY <1>13 DEF Seek, Seeking, Missed, Onward, Scheduled, StartupFires, RestartBackend, Terminate
<1>14. CASE FirstFrameFires
    BY <1>14 DEF Seek, Seeking, Missed, Onward, Scheduled, FirstFrameFires, RestartBackend, Terminate
<1>15. CASE TerminationFires
    BY <1>15 DEF Seek, Seeking, Missed, Onward, Scheduled, TerminationFires
<1>16. CASE HealthFires
    BY <1>16 DEF Seek, Seeking, Missed, Onward, Scheduled, HealthFires, RestartBackend, Terminate
<1>17. CASE UNCHANGED vars
    BY <1>17 DEF vars, Seek, Seeking, Missed, Onward, Scheduled
<1>18. QED
    BY <1>1, <1>2, <1>3, <1>4, <1>5, <1>6, <1>7, <1>8, <1>9, <1>10, <1>11, <1>12, <1>13, <1>14, <1>15, <1>16, <1>17 DEF Next

\* The launch of a new helper comes to one that ends, one that says nothing yet, or none at all.
LEMMA StepNewLaunch ==
  ASSUME NEW n \in Nat, SInv, NewLaunch(n), [Next]_vars, [~Retry]_vars
  PROVE  (NewLaunch(n) \/ NewGrace(n) \/ NewKill(n) \/ NewSilent(n) \/ NeverRan(n) \/ Onward(n))'
<1> USE LimitAssumption DEF host, child, flags, count, shown
<1>1. CASE Activate
    BY <1>1 DEF Seek, Seeking, Missed, Onward, NewLaunch, Activate, Start
<1>2. CASE Deactivate
    BY <1>2 DEF Seeking, Missed, Onward, Deactivate
<1>3. CASE Retry /\ ~UNCHANGED vars
    BY <1>3
<1>4. CASE Dispose
    BY <1>4 DEF Seek, Seeking, Missed, Onward, NewLaunch, Dispose
<1>5. CASE Started
    BY <1>5 DEF Seek, Seeking, Missed, Onward, NewLaunch, NewSilent, Started
<1>6. CASE FailedToStart
    BY <1>6 DEF SInv, LInv, IInv, PartsInv, WatchInv, WantedInv, StoppedInv, Seek, Seeking, Missed, Onward,
       NewLaunch, NeverRan, FailedToStart
<1>7. CASE Exited
    BY <1>7 DEF NewLaunch, Exited
<1>8. CASE ValidFrame
    BY <1>8 DEF NewLaunch, ValidFrame
<1>9. CASE InvalidFrame
    BY <1>9 DEF NewLaunch, InvalidFrame
<1>10. CASE Complains
    BY <1>10 DEF NewLaunch, Complains
<1>11. CASE FallsSilent
    BY <1>11 DEF Seek, Seeking, Missed, Onward, NewLaunch, FallsSilent
<1>12. CASE RestartFires
    BY <1>12 DEF Seek, Seeking, Missed, Onward, NewLaunch, RestartFires, Start
<1>13. CASE StartupFires
    BY <1>13 DEF Seek, Seeking, Missed, Onward, NewLaunch, StartupFires, RestartBackend, Terminate
<1>14. CASE FirstFrameFires
    BY <1>14 DEF Seek, Seeking, Missed, Onward, NewLaunch, FirstFrameFires, RestartBackend, Terminate
<1>15. CASE TerminationFires
    BY <1>15 DEF Seek, Seeking, Missed, Onward, NewLaunch, TerminationFires
<1>16. CASE HealthFires
    BY <1>16 DEF Seek, Seeking, Missed, Onward, NewLaunch, HealthFires, RestartBackend, Terminate
<1>17. CASE UNCHANGED vars
    BY <1>17 DEF vars, Seek, Seeking, Missed, Onward, NewLaunch
<1>18. QED
    BY <1>1, <1>2, <1>3, <1>4, <1>5, <1>6, <1>7, <1>8, <1>9, <1>10, <1>11, <1>12, <1>13, <1>14, <1>15, <1>16, <1>17 DEF Next

\* A new helper that was asked to end ends, and its end is a failure, or is killed.
LEMMA StepNewGrace ==
  ASSUME NEW n \in Nat, SInv, NewGrace(n), [Next]_vars, [~Retry]_vars
  PROVE  (NewGrace(n) \/ NewKill(n) \/ Onward(n))'
<1> USE LimitAssumption DEF host, child, flags, count, shown
<1>1. CASE Activate
    BY <1>1 DEF Seek, Seeking, Missed, Onward, NewGrace, Activate, Start
<1>2. CASE Deactivate
    BY <1>2 DEF Seeking, Missed, Onward, Deactivate
<1>3. CASE Retry /\ ~UNCHANGED vars
    BY <1>3
<1>4. CASE Dispose
    BY <1>4 DEF Seek, Seeking, Missed, Onward, NewGrace, NewKill, Dispose
<1>5. CASE Started
    BY <1>5 DEF NewGrace, Started
<1>6. CASE FailedToStart
    BY <1>6 DEF NewGrace, FailedToStart
<1>7. CASE Exited
    BY <1>7 DEF SInv, WantedInv, WillingInv, Seeking, Seek, Seeking, Missed, Onward, NewGrace, Exited, Unexpected
<1>8. CASE ValidFrame
    BY <1>8 DEF Seeking, Missed, Onward, ValidFrame
<1>9. CASE InvalidFrame
    BY <1>9 DEF Seek, Seeking, Missed, Onward, NewGrace, InvalidFrame, RestartBackend, Terminate
<1>10. CASE Complains
    BY <1>10 DEF Seek, Seeking, Missed, Onward, NewGrace, Complains
<1>11. CASE FallsSilent
    BY <1>11 DEF Seek, Seeking, Missed, Onward, NewGrace, FallsSilent
<1>12. CASE RestartFires
    BY <1>12 DEF Seek, Seeking, Missed, Onward, NewGrace, RestartFires, Start
<1>13. CASE StartupFires
    BY <1>13 DEF Seek, Seeking, Missed, Onward, NewGrace, StartupFires, RestartBackend, Terminate
<1>14. CASE FirstFrameFires
    BY <1>14 DEF Seek, Seeking, Missed, Onward, NewGrace, FirstFrameFires, RestartBackend, Terminate
<1>15. CASE TerminationFires
    BY <1>15 DEF Seek, Seeking, Missed, Onward, NewGrace, NewKill, TerminationFires
<1>16. CASE HealthFires
    BY <1>16 DEF Seek, Seeking, Missed, Onward, NewGrace, HealthFires, RestartBackend, Terminate
<1>17. CASE UNCHANGED vars
    BY <1>17 DEF vars, Seek, Seeking, Missed, Onward, NewGrace
<1>18. QED
    BY <1>1, <1>2, <1>3, <1>4, <1>5, <1>6, <1>7, <1>8, <1>9, <1>10, <1>11, <1>12, <1>13, <1>14, <1>15, <1>16, <1>17 DEF Next

\* The end of a killed new helper is a failure.
LEMMA StepNewKill ==
  ASSUME NEW n \in Nat, SInv, NewKill(n), [Next]_vars, [~Retry]_vars
  PROVE  (NewKill(n) \/ Onward(n))'
<1> USE LimitAssumption DEF host, child, flags, count, shown
<1>1. CASE Activate
    BY <1>1 DEF Seek, Seeking, Missed, Onward, NewKill, Activate, Start
<1>2. CASE Deactivate
    BY <1>2 DEF Seeking, Missed, Onward, Deactivate
<1>3. CASE Retry /\ ~UNCHANGED vars
    BY <1>3
<1>4. CASE Dispose
    BY <1>4 DEF Seek, Seeking, Missed, Onward, NewKill, Dispose
<1>5. CASE Started
    BY <1>5 DEF NewKill, Started
<1>6. CASE FailedToStart
    BY <1>6 DEF NewKill, FailedToStart
<1>7. CASE Exited
    BY <1>7 DEF SInv, WantedInv, WillingInv, Seeking, Seek, Seeking, Missed, Onward, NewKill, Exited, Unexpected
<1>8. CASE ValidFrame
    BY <1>8 DEF Seeking, Missed, Onward, ValidFrame
<1>9. CASE InvalidFrame
    BY <1>9 DEF Seek, Seeking, Missed, Onward, NewKill, InvalidFrame, RestartBackend, Terminate, Stronger
<1>10. CASE Complains
    BY <1>10 DEF Seek, Seeking, Missed, Onward, NewKill, Complains
<1>11. CASE FallsSilent
    BY <1>11 DEF Seek, Seeking, Missed, Onward, NewKill, FallsSilent
<1>12. CASE RestartFires
    BY <1>12 DEF Seek, Seeking, Missed, Onward, NewKill, RestartFires, Start
<1>13. CASE StartupFires
    BY <1>13 DEF Seek, Seeking, Missed, Onward, NewKill, StartupFires, RestartBackend, Terminate, Stronger
<1>14. CASE FirstFrameFires
    BY <1>14 DEF Seek, Seeking, Missed, Onward, NewKill, FirstFrameFires, RestartBackend, Terminate, Stronger
<1>15. CASE TerminationFires
    BY <1>15 DEF Seek, Seeking, Missed, Onward, NewKill, TerminationFires
<1>16. CASE HealthFires
    BY <1>16 DEF Seek, Seeking, Missed, Onward, NewKill, HealthFires, RestartBackend, Terminate, Stronger
<1>17. CASE UNCHANGED vars
    BY <1>17 DEF vars, Seek, Seeking, Missed, Onward, NewKill
<1>18. QED
    BY <1>1, <1>2, <1>3, <1>4, <1>5, <1>6, <1>7, <1>8, <1>9, <1>10, <1>11, <1>12, <1>13, <1>14, <1>15, <1>16, <1>17 DEF Next

\* A helper that says nothing is waited for until the first-frame watch counts a failure.
LEMMA StepNewSilent ==
  ASSUME NEW n \in Nat, SInv, NewSilent(n), [Next]_vars, [~Retry]_vars
  PROVE  (NewSilent(n) \/ Onward(n))'
<1> USE LimitAssumption DEF host, child, flags, count, shown
<1>1. CASE Activate
    BY <1>1 DEF Seek, Seeking, Missed, Onward, NewSilent, Activate, Start
<1>2. CASE Deactivate
    BY <1>2 DEF Seeking, Missed, Onward, Deactivate
<1>3. CASE Retry /\ ~UNCHANGED vars
    BY <1>3
<1>4. CASE Dispose
    BY <1>4 DEF Seeking, Missed, Onward, Dispose
<1>5. CASE Started
    BY <1>5 DEF NewSilent, Started
<1>6. CASE FailedToStart
    BY <1>6 DEF NewSilent, FailedToStart
<1>7. CASE Exited
    BY <1>7 DEF SInv, WantedInv, WillingInv, Seeking, Seek, Seeking, Missed, Onward, NewSilent, Exited, Unexpected
<1>8. CASE ValidFrame
    BY <1>8 DEF Seeking, Missed, Onward, ValidFrame
<1>9. CASE InvalidFrame
    BY <1>9 DEF Seeking, Seek, Seeking, Missed, Onward, NewSilent, InvalidFrame, RestartBackend
<1>10. CASE Complains
    BY <1>10 DEF Seek, Seeking, Missed, Onward, NewSilent, Complains
<1>11. CASE FallsSilent
    BY <1>11 DEF Seek, Seeking, Missed, Onward, NewSilent, FallsSilent
<1>12. CASE RestartFires
    BY <1>12 DEF Seek, Seeking, Missed, Onward, NewSilent, RestartFires, Start
<1>13. CASE StartupFires
    BY <1>13 DEF Seek, Seeking, Missed, Onward, NewSilent, StartupFires
<1>14. CASE FirstFrameFires
    BY <1>14 DEF Seeking, Seek, Seeking, Missed, Onward, NewSilent, FirstFrameFires, RestartBackend
<1>15. CASE TerminationFires
    BY <1>15 DEF Seek, Seeking, Missed, Onward, NewSilent, TerminationFires
<1>16. CASE HealthFires
    BY <1>16 DEF Seeking, Seek, NewSilent, HealthFires, Stalled
<1>17. CASE UNCHANGED vars
    BY <1>17 DEF vars, Seek, Seeking, Missed, Onward, NewSilent
<1>18. QED
    BY <1>1, <1>2, <1>3, <1>4, <1>5, <1>6, <1>7, <1>8, <1>9, <1>10, <1>11, <1>12, <1>13, <1>14, <1>15, <1>16, <1>17 DEF Next

\* A helper that could not be executed is waited for until the startup watch counts a failure.
LEMMA StepNeverRan ==
  ASSUME NEW n \in Nat, SInv, NeverRan(n), [Next]_vars, [~Retry]_vars
  PROVE  (NeverRan(n) \/ Onward(n))'
<1> USE LimitAssumption DEF host, child, flags, count, shown
<1>1. CASE Activate
    BY <1>1 DEF Seeking, Seek, NeverRan, Activate
<1>2. CASE Deactivate
    BY <1>2 DEF Seeking, Missed, Onward, Deactivate
<1>3. CASE Retry /\ ~UNCHANGED vars
    BY <1>3
<1>4. CASE Dispose
    BY <1>4 DEF Seeking, Missed, Onward, Dispose
<1>5. CASE Started
    BY <1>5 DEF NeverRan, Started
<1>6. CASE FailedToStart
    BY <1>6 DEF NeverRan, FailedToStart
<1>7. CASE Exited
    BY <1>7 DEF NeverRan, Exited
<1>8. CASE ValidFrame
    BY <1>8 DEF NeverRan, ValidFrame
<1>9. CASE InvalidFrame
    BY <1>9 DEF NeverRan, InvalidFrame
<1>10. CASE Complains
    BY <1>10 DEF NeverRan, Complains
<1>11. CASE FallsSilent
    BY <1>11 DEF Seek, Seeking, Missed, Onward, NeverRan, FallsSilent
<1>12. CASE RestartFires
    BY <1>12 DEF NeverRan, RestartFires
<1>13. CASE StartupFires
    BY <1>13 DEF SInv, LInv, IInv, PartsInv, HelperInv, Seeking, Seek, Seeking, Missed, Onward, NeverRan,
       StartupFires, RestartBackend
<1>14. CASE FirstFrameFires
    BY <1>14 DEF Seek, Seeking, Missed, Onward, NeverRan, FirstFrameFires, RestartBackend, Terminate
<1>15. CASE TerminationFires
    BY <1>15 DEF Seek, Seeking, Missed, Onward, NeverRan, TerminationFires
<1>16. CASE HealthFires
    BY <1>16 DEF Seek, Seeking, Missed, Onward, NeverRan, HealthFires, RestartBackend, Terminate
<1>17. CASE UNCHANGED vars
    BY <1>17 DEF vars, Seek, Seeking, Missed, Onward, NeverRan
<1>18. QED
    BY <1>1, <1>2, <1>3, <1>4, <1>5, <1>6, <1>7, <1>8, <1>9, <1>10, <1>11, <1>12, <1>13, <1>14, <1>15, <1>16, <1>17 DEF Next

\* What goes on from some moment for ever once the user has stopped pressing Retry.
Going ==
  /\ []SInv /\ [][Next]_vars /\ [][~Retry]_vars
  /\ Fairness /\ []WatchesCanFire
LeadsOn(n) == Seek(n) ~> Onward(n)

\* Whatever stage a search for a first frame is in, it leads to its end or to the next failure.
LEMMA SeekLeadsOn ==
  ASSUME NEW n \in Nat
  PROVE  Going => LeadsOn(n)
<1>1. Going => (NeverRan(n) ~> Onward(n))
  <2>1. SInv /\ NeverRan(n) /\ [Next]_vars /\ [~Retry]_vars => (NeverRan(n) \/ Onward(n))'
      BY StepNeverRan
  <2>2. SInv /\ NeverRan(n) /\ <<StartupFires>>_vars => ~NeverRan(n)'
      BY DEF NeverRan, StartupFires, RestartBackend, Terminate
  <2>3. WatchesCanFire /\ NeverRan(n) => ENABLED <<StartupFires>>_vars
      BY DEF WatchesCanFire, NeverRan
  <2>4. QED
      BY <2>1, <2>2, <2>3, PTL DEF Going, Fairness
<1>2. Going => (NewSilent(n) ~> Onward(n))
  <2>1. SInv /\ NewSilent(n) /\ [Next]_vars /\ [~Retry]_vars => (NewSilent(n) \/ Onward(n))'
      BY StepNewSilent
  <2>2. SInv /\ NewSilent(n) /\ <<FirstFrameFires>>_vars => ~NewSilent(n)'
      BY DEF NewSilent, FirstFrameFires, RestartBackend
  <2>3. WatchesCanFire /\ NewSilent(n) => ENABLED <<FirstFrameFires>>_vars
      BY DEF WatchesCanFire, NewSilent
  <2>4. QED
      BY <2>1, <2>2, <2>3, PTL DEF Going, Fairness
<1>3. Going => (NewKill(n) ~> Onward(n))
  <2>1. SInv /\ NewKill(n) /\ [Next]_vars /\ [~Retry]_vars => (NewKill(n) \/ Onward(n))'
      BY StepNewKill
  <2>2. SInv /\ NewKill(n) /\ <<sig = "kill" /\ Exited>>_vars => ~NewKill(n)'
      BY DEF NewKill, Exited
  <2>3. WatchesCanFire /\ NewKill(n) => ENABLED <<sig = "kill" /\ Exited>>_vars
      BY DEF WatchesCanFire, NewKill
  <2>4. QED
      BY <2>1, <2>2, <2>3, PTL DEF Going, Fairness
<1>4. Going => (NewGrace(n) ~> Onward(n))
  <2>1. SInv /\ NewGrace(n) /\ [Next]_vars /\ [~Retry]_vars =>
        (NewGrace(n) \/ NewKill(n) \/ Onward(n))'
      BY StepNewGrace
  <2>2. SInv /\ NewGrace(n) /\ <<TerminationFires>>_vars => ~NewGrace(n)'
      BY DEF NewGrace, TerminationFires
  <2>3. WatchesCanFire /\ NewGrace(n) => ENABLED <<TerminationFires>>_vars
      BY DEF WatchesCanFire, NewGrace
  <2>4. QED
      BY <2>1, <2>2, <2>3, <1>3, PTL DEF Going, Fairness
<1>5. Going => (NewLaunch(n) ~> Onward(n))
  <2>1. SInv /\ NewLaunch(n) /\ [Next]_vars /\ [~Retry]_vars =>
        (NewLaunch(n) \/ NewGrace(n) \/ NewKill(n) \/ NewSilent(n) \/ NeverRan(n) \/ Onward(n))'
      BY StepNewLaunch
  <2>2. SInv /\ NewLaunch(n) /\ <<Started \/ FailedToStart>>_vars => ~NewLaunch(n)'
      BY DEF NewLaunch, Started, FailedToStart
  <2>3. WatchesCanFire /\ NewLaunch(n) => ENABLED <<Started \/ FailedToStart>>_vars
      BY DEF WatchesCanFire, NewLaunch
  <2>4. QED
      BY <2>1, <2>2, <2>3, <1>4, <1>3, <1>2, <1>1, PTL DEF Going, Fairness
<1>6. Going => (Scheduled(n) ~> Onward(n))
  <2>1. SInv /\ Scheduled(n) /\ [Next]_vars /\ [~Retry]_vars =>
        (Scheduled(n) \/ NewLaunch(n) \/ Onward(n))'
      BY StepScheduled
  <2>2. SInv /\ Scheduled(n) /\ <<RestartFires>>_vars => ~Scheduled(n)'
      BY DEF Scheduled, RestartFires, Start
  <2>3. WatchesCanFire /\ Scheduled(n) => ENABLED <<RestartFires>>_vars
      BY DEF WatchesCanFire, Scheduled
  <2>4. QED
      BY <2>1, <2>2, <2>3, <1>5, PTL DEF Going, Fairness
<1>7. Going => (OldKill(n) ~> Onward(n))
  <2>1. SInv /\ OldKill(n) /\ [Next]_vars /\ [~Retry]_vars =>
        (OldKill(n) \/ Scheduled(n) \/ Onward(n))'
      BY StepOldKill
  <2>2. SInv /\ OldKill(n) /\ <<sig = "kill" /\ Exited>>_vars => ~OldKill(n)'
      BY DEF OldKill, Exited
  <2>3. WatchesCanFire /\ OldKill(n) => ENABLED <<sig = "kill" /\ Exited>>_vars
      BY DEF WatchesCanFire, OldKill
  <2>4. QED
      BY <2>1, <2>2, <2>3, <1>6, PTL DEF Going, Fairness
<1>8. Going => (OldGrace(n) ~> Onward(n))
  <2>1. SInv /\ OldGrace(n) /\ [Next]_vars /\ [~Retry]_vars =>
        (OldGrace(n) \/ OldKill(n) \/ Scheduled(n) \/ Onward(n))'
      BY StepOldGrace
  <2>2. SInv /\ OldGrace(n) /\ <<TerminationFires>>_vars => ~OldGrace(n)'
      BY DEF OldGrace, TerminationFires
  <2>3. WatchesCanFire /\ OldGrace(n) => ENABLED <<TerminationFires>>_vars
      BY DEF WatchesCanFire, OldGrace
  <2>4. QED
      BY <2>1, <2>2, <2>3, <1>7, <1>6, PTL DEF Going, Fairness
<1>9. Going => (OldLaunch(n) ~> Onward(n))
  <2>1. SInv /\ OldLaunch(n) /\ [Next]_vars /\ [~Retry]_vars =>
        (OldLaunch(n) \/ OldGrace(n) \/ OldKill(n) \/ Onward(n))'
      BY StepOldLaunch
  <2>2. SInv /\ OldLaunch(n) /\ <<Started \/ FailedToStart>>_vars => ~OldLaunch(n)'
      BY DEF OldLaunch, Started, FailedToStart
  <2>3. WatchesCanFire /\ OldLaunch(n) => ENABLED <<Started \/ FailedToStart>>_vars
      BY DEF WatchesCanFire, OldLaunch
  <2>4. QED
      BY <2>1, <2>2, <2>3, <1>8, <1>7, PTL DEF Going, Fairness
<1>10. SInv /\ Seek(n) => OldLaunch(n) \/ OldGrace(n) \/ OldKill(n) \/ Scheduled(n) \/
      NewLaunch(n) \/ NewGrace(n) \/ NewKill(n) \/ NewSilent(n) \/ NeverRan(n)
    BY DEF SInv, WantedInv, NoDeadEnd, Missed, LInv, IInv, TypeOK, ChildOK, EndInv, Doomed, Seeking,
       Seek, OldLaunch, OldGrace, OldKill, Scheduled, NewLaunch, NewGrace, NewKill, NewSilent,
       NeverRan
<1>11. QED
    BY <1>9, <1>8, <1>7, <1>6, <1>5, <1>4, <1>3, <1>2, <1>1, <1>10, PTL DEF Going, LeadsOn

\* With the cap of six of the code, a supervisor that is wanted gets a first frame or says that it
\* gave up, unless it is unwanted again; the user does not press Retry for ever.
THEOREM AcquiresOrSaysSo ==
  ASSUME MaxRetries = 6, ~Reopens
  PROVE  FairSpec /\ []WatchesCanFire => AcquiresOrGivesUp
<1>1. SInv /\ Seeking =>
      Seek(0) \/ Seek(1) \/ Seek(2) \/ Seek(3) \/ Seek(4) \/ Seek(5) \/ Seek(6) \/ Seek(7)
    BY DEF SInv, LInv, IInv, TypeOK, CountOK, Seek
<1>2. SInv => ~Seek(7)
    BY DEF SInv, LInv, IInv, CountInv, WithinCapInv, WantedInv, NoDeadEnd, Missed, Seek, Seeking
<1>3. /\ Going => LeadsOn(0) /\ LeadsOn(1) /\ LeadsOn(2) /\ LeadsOn(3)
      /\ Going => LeadsOn(4) /\ LeadsOn(5) /\ LeadsOn(6)
    BY SeekLeadsOn
<1>4. /\ Onward(0) => ~Seeking \/ Seek(1)
      /\ Onward(1) => ~Seeking \/ Seek(2)
      /\ Onward(2) => ~Seeking \/ Seek(3)
      /\ Onward(3) => ~Seeking \/ Seek(4)
      /\ Onward(4) => ~Seeking \/ Seek(5)
      /\ Onward(5) => ~Seeking \/ Seek(6)
      /\ Onward(6) => ~Seeking \/ Seek(7)
    BY DEF Onward
<1>5. Going => (Seeking ~> ~Seeking)
    BY <1>1, <1>2, <1>3, <1>4, PTL DEF Going, LeadsOn
<1>6. Init => WantedInv
    BY DEF Init, WantedInv, WillingInv, StoppedInv, NoDeadEnd, Missed
<1>7. LInv /\ WantedInv /\ [Next]_vars => WantedInv'
    BY StepWanted DEF LInv
<1>8. SInv <=> LInv /\ WantedInv
    BY DEF SInv
<1>9. FairSpec /\ []WatchesCanFire => []SInv
    BY <1>6, <1>7, <1>8, LiveInvariance, PTL DEF FairSpec, Spec
<1>10. Fairness => []Fairness
    BY PTL DEF Fairness
<1>11. FairSpec /\ []WatchesCanFire /\ <>[][~Retry]_vars => <>Going
    BY <1>9, <1>10, PTL DEF FairSpec, Going, Spec
<1>12. <>Going => <>[](Seeking => <>~Seeking)
    BY <1>5, PTL
<1>13. FairSpec /\ []WatchesCanFire /\ <>[][~Retry]_vars => (Seeking ~> ~Seeking)
    BY <1>11, <1>12, PTL
<1> DEFINE Wanted == active /\ ~disposing
           Reached == ready \/ gaveUp \/ Missed \/ ~active \/ disposing
<1>14. Wanted => Seeking \/ Reached
    BY DEF Seeking
<1>15. ~Seeking => Reached
    BY DEF Seeking
<1>16. AcquiresOrGivesUp <=> (<>[][~Retry]_vars => (Wanted ~> Reached))
    BY DEF AcquiresOrGivesUp
<1> HIDE DEF Wanted, Reached
<1>17. QED
    BY <1>13, <1>14, <1>15, <1>16, PTL

=============================================================================
