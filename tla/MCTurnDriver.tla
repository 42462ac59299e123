---------------------------- MODULE MCTurnDriver ----------------------------
(***************************************************************************)
(* Small instances of TurnDriver for TLC.                                  *)
(***************************************************************************)
EXTENDS TurnDriver

\* No calls, or the calls of a response that runs a command and then writes to it.
NoGraphs == {[c \in Calls |-> NoCall]}
OneCall  == NoGraphs \cup
    {[c \in Calls |-> IF c = 1 THEN call ELSE NoCall] :
        call \in {ExecCall(1), WriteCall(1), PlainCall("read_file")}}
TwoCalls == NoGraphs \cup
    {[c \in Calls |-> IF c = 1 THEN ExecCall(1) ELSE call] :
        call \in {NoCall, ExecCall(2), PlainCall("edit_file")}} \cup
    {[c \in Calls |-> IF c = 1 THEN NoCall ELSE WriteCall(1)],
     [c \in Calls |-> IF c = 1 THEN WriteCall(2) ELSE WriteCall(2)]}
=============================================================================
