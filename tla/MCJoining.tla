----------------------------- MODULE MCJoining -----------------------------
EXTENDS Joining, TLC
CONSTANTS d1, d2, a1, a2, i1, i2
MCOwner == (i1 :> a1) @@ (i2 :> a2)

Budget(j, i, w, e, a, r, g, c, s) ==
  [join |-> j, invite |-> i, withdraw |-> w, expire |-> e, approve |-> a,
   reject |-> r, guess |-> g, cancel |-> c, stop |-> s]
(* One invite and two devices; a device that comes back; two admins; wrong *)
(* safety codes; invites that are withdrawn or expire.                     *)
MCBudgets == {Budget(2, 1, 0, 0, 2, 0, 0, 0, 1), Budget(2, 2, 0, 0, 1, 1, 0, 1, 0), Budget(1, 2, 0, 0, 1, 2, 0, 0, 1),
              Budget(2, 1, 0, 0, 1, 0, 2, 1, 0), Budget(1, 1, 1, 1, 1, 1, 0, 0, 1),
              Budget(2, 1, 0, 0, 2, 1, 0, 1, 1)}
=============================================================================
