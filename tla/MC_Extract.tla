---------------------------- MODULE MC_Extract ----------------------------
(***************************************************************************)
(* Instances of Extract for TLC.                                           *)
(***************************************************************************)
EXTENDS Extract

TwoTUs   == <<"a.c", "b.c">>
\* One file compiled twice.
Repeated == <<"a.c", "b.c", "a.c">>
OnlyA == {"a.c"}

\* clangd lives and the caller waits; everything else may go wrong.
ButDieOrCancel == FaultKinds \ {"die", "cancel"}
DieOrCancel == {"die", "cancel"}

=============================================================================
