--------------------------- MODULE MCAccessChain ---------------------------
(***************************************************************************)
(* Instances of AccessChain: a founder and two more devices, a board that  *)
(* reads the one scope with keys and a role that does not read it.         *)
(***************************************************************************)
EXTENDS AccessChain, TLC

CONSTANTS board, guest, core, a, b, c

(* Two admins; c is invited later. *)
MCMembers == [d \in {a, b, c} |-> IF d = c THEN Unlisted ELSE board]

MCSymmetry == Permutations({a, b})

MCReads == [r \in {board, guest} |-> IF r = board THEN {core} ELSE {}]
=============================================================================
