------------------------------ MODULE MCSession ------------------------------
(***************************************************************************)
(* Small instances of Session for TLC.  Each .cfg takes the events of one  *)
(* part of the session at full size and keeps the other parts small.       *)
(***************************************************************************)
EXTENDS Session, TLC

\* Identities are only compared for equality, so permuting them is sound.
Symmetry == Permutations(Inputs) \cup Permutations(Calls) \cup Permutations(Goals)
            \cup Permutations(Models) \cup Permutations(Scopes)
=============================================================================
