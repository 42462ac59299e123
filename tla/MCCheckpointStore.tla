-------------------------- MODULE MCCheckpointStore --------------------------
(***************************************************************************)
(* Instances of CheckpointStore for TLC: a window of some records, with an *)
(* image due long before it is full.                                       *)
(***************************************************************************)
EXTENDS CheckpointStore

MCSizes == {1}
MCHeavy == {4}
=============================================================================
