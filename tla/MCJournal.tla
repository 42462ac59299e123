----------------------------- MODULE MCJournal -----------------------------
(***************************************************************************)
(* A small journal for TLC: three events, and two chunks a batch so that a *)
(* write can stop inside one.                                              *)
(***************************************************************************)
EXTENDS Journal, TLC

CONSTANTS e1, e2, e3

MCEvents == {e1, e2, e3}
MCWidth  == 2
=============================================================================
