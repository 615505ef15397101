--------------------------- MODULE MC_IndexStore ---------------------------
(***************************************************************************)
(* Instances of IndexStore for TLC.  Readers are interchangeable.          *)
(***************************************************************************)
EXTENDS IndexStore, TLC

Anywhere == Steps \ {"down"}
WhileWriting == {"write"}

ReaderSymmetry == Permutations(Readers)

=============================================================================
