------------------------------- MODULE OpLog -------------------------------
(***************************************************************************)
(* What the exchange of files promises, without files: every author has a  *)
(* log of ops and every reader has applied a prefix of it, op by op in the *)
(* author's order, none left out and none twice.                           *)
(***************************************************************************)
EXTENDS Integers, Sequences

CONSTANTS Author, Reader

VARIABLES
  made,  \* made[a]: number of ops author a has committed; op i is number i
  got    \* got[r][a]: the ops of a that reader r has applied, in that order

vars == <<made, got>>

Prefix(n) == [i \in 1 .. n |-> i]

Init == /\ made = [a \in Author |-> 0]
        /\ got = [r \in Reader |-> [a \in Author |-> << >>]]

Commit(a) == /\ made' = [made EXCEPT ![a] = @ + 1]
             /\ UNCHANGED got

(* Some of the ops that are still missing arrive, at once. *)
Deliver(r, a) ==
  /\ \E n \in 1 .. made[a] : /\ n > Len(got[r][a])
                             /\ got' = [got EXCEPT ![r][a] = Prefix(n)]
  /\ UNCHANGED made

Next == \E a \in Author : Commit(a) \/ \E r \in Reader : Deliver(r, a)

Spec == Init /\ [][Next]_vars
=============================================================================
