---------------------------- MODULE MCAttachment ----------------------------
(***************************************************************************)
(* A small instance of Attachment for TLC.                                 *)
(***************************************************************************)
EXTENDS Attachment
=============================================================================
