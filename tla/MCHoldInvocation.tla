-------------------------- MODULE MCHoldInvocation --------------------------
(* Instances of HoldInvocation for TLC. *)
EXTENDS HoldInvocation, TLC

\* Failures of presses after which a visible overlay still has an owner.
OwnerFaults == {"press-crash", "press-save"}
\* Failures under which the contract of a hold still stands.
ContractFaults == {"release-crash", "summon", "hide"}
AllFaults == FaultKinds
NoFaults == {}
TokenSymmetry == Permutations(Tokens)
=============================================================================
