---------------------------- MODULE MCRevocation ----------------------------
(***************************************************************************)
(* Instances of Revocation: an admin, another device that stays, and the   *)
(* device that is revoked.                                                 *)
(***************************************************************************)
EXTENDS Revocation

CONSTANTS admin, reader, leaver
=============================================================================
