---------------------------- MODULE MC_LspClient ----------------------------
(***************************************************************************)
(* Instances of LspClient for TLC.  Callers are interchangeable.           *)
(***************************************************************************)
EXTENDS LspClient, TLC

AllFaults == FaultKinds
DieOrCancel == {"die", "cancelCall"}

CallerSymmetry == Permutations(Callers)

=============================================================================
