--------------------------- MODULE FreezeContract ---------------------------
(***************************************************************************)
(* What freezing promises the person at the screen, without pipes, request *)
(* numbers, scopes or helpers: the view does not go back in time when it   *)
(* becomes frozen, shows one generation as long as it is frozen, and       *)
(* details that are answered for it are of that generation.                *)
(***************************************************************************)
EXTENDS Integers

VARIABLES
  frozen,
  generation,  \* the generation on screen, 0 before the first
  details      \* the frozen generation whose details are on screen, or 0

Init == frozen = FALSE /\ generation = 0 /\ details = 0

\* The view becomes frozen, at what it shows or at a later sample.
Freeze ==
  /\ ~frozen /\ frozen' = TRUE
  /\ generation' \in Nat /\ generation' >= generation
  /\ details' = 0

\* The view is frozen: details come and go.
Stay ==
  /\ frozen /\ UNCHANGED <<frozen, generation>>
  /\ details' \in {0, generation}

\* The view is live, or is again: it shows whatever the helper sends.
Follow ==
  /\ frozen' = FALSE
  /\ generation' \in Nat /\ details' \in Nat

Next == Freeze \/ Stay \/ Follow

Spec == Init /\ [][Next]_<<frozen, generation, details>>

=============================================================================
