--------------------------- MODULE MCDeviceClock ---------------------------
(***************************************************************************)
(* A small instance of DeviceClock: five wall clock values, two counter    *)
(* steps, and received timestamps that are behind, equal to, ahead of and   *)
(* too far ahead of the wall clock, with a free and a used-up counter.     *)
(***************************************************************************)
EXTENDS DeviceClock

MCReceived == {[ms |-> 1, ctr |-> 2], [ms |-> 2, ctr |-> 0], [ms |-> 3, ctr |-> 2]}
=============================================================================
