---------------------------- MODULE HoldContract ----------------------------
(***************************************************************************)
(* What press-and-hold promises the person at the keyboard, without        *)
(* processes, locks, files or clocks: an overlay is opened only for a hold *)
(* that has not been released, as long as the invocations are served in    *)
(* time, and closed, always, only because the hold that opened it was      *)
(* released.                                                               *)
(***************************************************************************)
CONSTANTS Tokens, NoToken

VARIABLES
  visible,  \* the hold whose overlay is on screen, or NoToken
  closed,   \* the holds whose release has been recorded
  strained  \* an invocation was not served in time

Init == visible = NoToken /\ closed = {} /\ strained = FALSE

Open(t) == (strained \/ t \notin closed) /\ visible' = t /\ UNCHANGED <<closed, strained>>

Record(t) ==
  /\ closed' = closed \cup {t} /\ UNCHANGED visible
  /\ strained' \in {strained, TRUE}

Hide == visible \in closed /\ visible' = NoToken /\ UNCHANGED <<closed, strained>>

Strain == strained' = TRUE /\ UNCHANGED <<visible, closed>>

Next ==
  \/ \E t \in Tokens : Open(t)
  \/ \E t \in Tokens : Record(t)
  \/ Hide
  \/ Strain

Spec == Init /\ [][Next]_<<visible, closed, strained>>

=============================================================================
