---------------------------- MODULE MC_Process ----------------------------
(***************************************************************************)
(* Instances of Process for TLC.  A second round reports less than the    *)
(* end of the first.                                                       *)
(***************************************************************************)
EXTENDS Process

TwoTUs == {"a.c", "b.c"}
SomePercents == {-1, 70}
AllFaults == FaultKinds

=============================================================================
