--------------------------- MODULE MCConvergence ---------------------------
(***************************************************************************)
(* Instances of Convergence.  Row p is in scope core and has one optional  *)
(* column; row c is in scope extra and references another row through a    *)
(* required column; row q, inserted by a device, is a second row of core.  *)
(***************************************************************************)
EXTENDS Convergence

CONSTANTS p, q, c, ref, txt, core, extra

MCRow == {p, q, c}
MCCol == {ref, txt}
MCRequired == [r \in MCRow |-> IF r = c THEN {ref} ELSE {}]
MCRefs == [r \in MCRow |-> IF r = c THEN {ref} ELSE {}]
MCPkRefs == [r \in MCRow |-> {}]
MCScopeOf == [r \in MCRow |-> IF r = c THEN extra ELSE core]

(* The founder's data: row p, stamped with the creation time. *)
MCBaseRows == <<OpChange(p, [x \in {txt} |-> "a"], <<CreatedAt, 1>>)>>

(* The same with a child row, so that the snapshot of extra depends on the *)
(* snapshot of core.                                                       *)
MCBaseWithChild ==
  Append(MCBaseRows, OpChange(c, [x \in {ref} |-> p], <<CreatedAt, 1>>))
=============================================================================
