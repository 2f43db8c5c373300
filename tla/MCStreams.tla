----------------------------- MODULE MCStreams -----------------------------
(***************************************************************************)
(* Instances of Streams: one author (streams are independent) and one      *)
(* reader.                                                                 *)
(***************************************************************************)
EXTENDS Streams

CONSTANTS a1, r1
=============================================================================
