----------------------------- MODULE MCSessions -----------------------------
EXTENDS Sessions, TLC
CONSTANTS u1, u2, x, y, boss, reader, editor, here

Budget(login, guess, refresh, logout, change, reset, users, fault) ==
  [login |-> login, guess |-> guess, refresh |-> refresh, logout |-> logout, change |-> change,
   reset |-> reset, users |-> users, fault |-> fault]
(* Refreshes that race; password changes and resets; accounts that change; *)
(* guessing; a change of the administrator that fails halfway.             *)
MCBudgets == {Budget(1, 0, 3, 1, 0, 0, 0, 0), Budget(2, 0, 1, 0, 1, 0, 0, 0), Budget(1, 0, 1, 0, 1, 1, 0, 0),
              Budget(1, 0, 1, 0, 0, 0, 2, 0), Budget(1, 5, 0, 0, 0, 0, 0, 1),
              Budget(1, 0, 1, 0, 1, 0, 0, 1)}

Symmetry == Permutations({u1, u2}) \cup Permutations({x, y})
=============================================================================
