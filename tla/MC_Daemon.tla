----------------------------- MODULE MC_Daemon -----------------------------
(***************************************************************************)
(* Instances of Daemon for TLC.                                            *)
(***************************************************************************)
EXTENDS Daemon

AllFaults == FaultKinds
Anywhere == LoopStates
NoFaults == {}
Torn == {"torn"}

=============================================================================
