----------------------------- MODULE MC_Build -----------------------------
(***************************************************************************)
(* Instances of Build for TLC.                                             *)
(***************************************************************************)
EXTENDS Build, TLC

ThreeContents == 0 .. 2
\* The commands do not change, so that payloads survive other compile_commands.json.
OneCommand == [c \in 0 .. 2 |-> 0]
AllFaults == FaultKinds
BuilderSymmetry == Permutations(Builders)

=============================================================================
