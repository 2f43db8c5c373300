------------------------- MODULE MCUniqueConflicts -------------------------
(***************************************************************************)
(* Instances of UniqueConflicts.  The values are interchangeable.          *)
(***************************************************************************)
EXTENDS UniqueConflicts, TLC

CONSTANTS v1, v2

MCSymmetry == Permutations({v1, v2})
=============================================================================
