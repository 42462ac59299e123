------------------------------ MODULE TurnCalls ------------------------------
(***************************************************************************)
(* run_call_batch: the calls of one complete response are admitted in      *)
(* order, wave after wave, until all have results or the batch hands the   *)
(* running ones back to the model.                                         *)
(***************************************************************************)
EXTENDS TurnEnd

\* The next call of the wave without a result
Following(c) == {d \in Calls : d >= c /\ Unfinished(d)}
Visited(c)   == c \in Following(batch.slot) /\ \A d \in Following(batch.slot) : c <= d

Visiting(c) == pc = "batch" /\ batch.handoff = "none" /\ Visited(c)

\* execute_calls: commands are processes unless the turn is read-only.
IsProcess(c) == ~readOnly /\ pendingCalls[c].tool \in {"exec_command", "write_stdin"}

BatchStart ==
    /\ pc' = "batch"
    /\ batch' = [NoBatch EXCEPT !.slot = 1,
                                !.steering = SteeringPending /\ ~kept.deferred]

\* finish_call, and the walk goes on to the next call.
FinishVisited(c, status) ==
    Commit("tool_finished", ResultFits(c, status), ToolFinished(c, status),
           /\ IF Running(c) THEN Collected(pendingCalls[c].handle)
              ELSE UNCHANGED <<command, late>>
           /\ Goto("batch")
           /\ batch' = [batch EXCEPT !.slot = c + 1, !.progressed = TRUE]
           /\ UNCHANGED <<hostVars, closing>>)

HandOff(why) ==
    /\ Goto("handoff")
    /\ batch' = [batch EXCEPT !.handoff = why]
    /\ UNCHANGED <<vars, hostVars, late, closing, refused, budget>>

\* A rule rejects the call before the pump runs.
BatchRuleRejects(c) ==
    /\ Visiting(c)
    /\ ~Running(c)
    /\ FinishVisited(c, "refused")

\* The pump of a visit: 2 cancels, 1 makes the wave the last one.
BatchCancelled(c) ==
    /\ Visiting(c)
    /\ edge.interrupt
    /\ CloseAll
    /\ HandOff("cancelled")

Admitted(c) == Visiting(c) /\ ~edge.interrupt
Noted == IF PumpStops THEN [batch EXCEPT !.steering = TRUE] ELSE batch

\* A started call: its result is there, it hands off, or it is waited for.
BatchCollects(c) ==
    /\ Admitted(c)
    /\ Running(c)
    /\ Ready(pendingCalls[c].handle)
    /\ Commit("tool_finished", ResultFits(c, "ended"), ToolFinished(c, "ended"),
              /\ Collected(pendingCalls[c].handle)
              /\ Goto("batch")
              /\ batch' = [Noted EXCEPT !.slot = c + 1, !.progressed = TRUE]
              /\ UNCHANGED <<hostVars, closing>>)

BatchOverdue(c) ==
    /\ Admitted(c)
    /\ Running(c)
    /\ ~Ready(pendingCalls[c].handle)
    /\ pendingCalls[c].handle \in late
    /\ HandOff("yield")
    /\ UNCHANGED command

BatchPasses(c) ==
    /\ Admitted(c)
    /\ Running(c)
    /\ ~Ready(pendingCalls[c].handle)
    /\ pendingCalls[c].handle \notin late
    /\ batch' = [Noted EXCEPT !.slot = c + 1]
    /\ UNCHANGED <<vars, pc, rc, hostVars, command, late, closing, refused, budget>>

\* The operator asked the batch to yield (/yield, which the session only notes), or
\* its deadline passed before a call of a later wave was started.
BatchYields(c) ==
    /\ Admitted(c)
    /\ \/ "yield" \in InputKinds
       \/ ~batch.first /\ ~Running(c)
    /\ HandOff("yield")
    /\ UNCHANGED command

\* tools_prepare and the checks beside it, on a call that has not started:
\* "wait" leaves it for a later wave, "reject" gives it not_run.
Managed == {h \in Calls : command[h] # "none"}

\* MUTANT of Preparation: the limit counts only the commands that still run.
PreparationCountingLive(c) ==
    LET call == pendingCalls[c] IN
    IF readOnly /\ ~ReadOnlyTool(call.tool) THEN "reject"
    ELSE IF call.tool = "exec_command"
         THEN IF Cardinality({h \in Calls : Live(h)}) >= MaxParallel THEN "wait"
              ELSE IF call.handle \in Managed THEN "reject" ELSE "start"
    ELSE IF call.tool = "write_stdin"
         THEN IF \/ call.handle \notin Managed
                 \/ InCall(call.handle)
                 \/ \E d \in Calls : /\ d < c /\ pendingCalls[d].state \in {"started", "finished"}
                                     /\ pendingCalls[d].handle = call.handle
              THEN "reject" ELSE "start"
    ELSE "start"

Preparation(c) ==
    LET call == pendingCalls[c] IN
    IF readOnly /\ ~ReadOnlyTool(call.tool) THEN "reject"
    ELSE IF call.tool = "exec_command"
         THEN IF Cardinality(Managed) >= MaxParallel THEN "wait"
              ELSE IF call.handle \in Managed THEN "reject" ELSE "start"
    ELSE IF call.tool = "write_stdin"
         THEN IF \/ call.handle \notin Managed
                 \/ InCall(call.handle)
                 \/ \E d \in Calls : /\ d < c /\ pendingCalls[d].state \in {"started", "finished"}
                                     /\ pendingCalls[d].handle = call.handle
              THEN "reject" ELSE "start"
    ELSE "start"

BatchRejects(c) ==
    /\ Admitted(c)
    /\ ~Running(c)
    /\ Preparation(c) = "reject"
    /\ Commit("tool_finished", ResultFits(c, "refused"), ToolFinished(c, "refused"),
              /\ Goto("batch")
              /\ batch' = [Noted EXCEPT !.slot = c + 1, !.progressed = TRUE]
              /\ UNCHANGED <<hostVars, command, late, closing>>)

BatchSkips(c) ==
    /\ Admitted(c)
    /\ ~Running(c)
    /\ Preparation(c) = "wait"
    /\ batch' = [Noted EXCEPT !.slot = c + 1]
    /\ UNCHANGED <<vars, pc, rc, hostVars, command, late, closing, refused, budget>>

\* tool_started is durable before the tool is run.
BatchStarts(c) ==
    /\ Admitted(c)
    /\ ~Running(c)
    /\ Preparation(c) = "start"
    /\ Commit("tool_started", CallMayStart(c), ToolStarted(c),
              /\ Goto("tool")
              /\ batch' = [Noted EXCEPT !.slot = c]
              /\ UNCHANGED <<hostVars, command, late, closing>>)

\* tools_start: a command runs, or gets its input; the call stays open.
ToolRuns(c) ==
    /\ pc = "tool" /\ c = batch.slot
    /\ IsProcess(c)
    /\ Goto("batch")
    /\ LET h == pendingCalls[c].handle IN
       \E ending \in IF command[h] = "running" THEN BOOLEAN ELSE {FALSE} :
          command' = [command EXCEPT ![h] = IF @ = "none" THEN "running"
                                            ELSE IF ending THEN "closing" ELSE @]
    /\ batch' = [batch EXCEPT !.slot = c + 1]
    /\ UNCHANGED <<vars, hostVars, late, closing, refused, budget>>

\* A command that cannot be started, or a tool of the process itself, which may
\* defer steering and inside which the pump may see a Ctrl-C.
ToolReturns(c) ==
    /\ pc = "tool" /\ c = batch.slot
    /\ pendingCalls[c].tool # "write_stdin"
    /\ \E defers \in IF IsProcess(c) THEN {FALSE} ELSE BOOLEAN :
          Commit("tool_finished", ResultFits(c, "ended"), ToolFinished(c, "ended"),
                 /\ kept' = [kept EXCEPT !.deferred = @ \/ defers]
                 /\ edge' = [edge EXCEPT !.steering = @ /\ ~defers]
                 /\ IF edge.interrupt
                    THEN CloseAll /\ Goto("handoff")
                         /\ batch' = [batch EXCEPT !.handoff = "cancelled"]
                    ELSE UNCHANGED command /\ Goto("batch")
                         /\ batch' = [batch EXCEPT !.slot = c + 1, !.progressed = TRUE]
                 /\ UNCHANGED <<retry, late, closing>>)

\* The end of a wave.
WaveOver == pc = "batch" /\ batch.handoff = "none" /\ Following(batch.slot) = {}
SomeRunning == \E c \in Calls : Running(c)

BatchDone ==
    /\ WaveOver
    /\ AllFinished
    /\ Goto("cycle")
    /\ batch' = NoBatch
    /\ UNCHANGED <<vars, hostVars, command, late, closing, refused, budget>>

WaveHandsOff ==
    /\ WaveOver
    /\ ~AllFinished
    /\ IF batch.steering THEN HandOff("steering")
       ELSE \/ ~SomeRunning /\ ~batch.progressed /\ HandOff("limit")
            \/ SomeRunning /\ HandOff("yield")
    /\ UNCHANGED command

NextWave ==
    /\ WaveOver
    /\ ~AllFinished
    /\ ~batch.steering
    /\ SomeRunning \/ batch.progressed
    /\ batch' = [batch EXCEPT !.slot = 1, !.first = FALSE, !.progressed = FALSE]
    /\ UNCHANGED <<vars, pc, rc, hostVars, command, late, closing, refused, budget>>

\* MUTANT of HandedStatus: a cancelled command is not waited for.
HandedStatusNotWaiting(c) ==
    IF ~Running(c) THEN "refused"
    ELSE IF ~IsProcess(c) THEN "unknown"
    ELSE IF Ready(pendingCalls[c].handle) \/ batch.handoff = "cancelled" THEN "ended"
    ELSE "running"

\* The result of an unfinished call when the batch hands off: a running command
\* is given back alive, except that a cancelled one is waited for.
HandedStatus(c) ==
    IF ~Running(c) THEN "refused"
    ELSE IF ~IsProcess(c) THEN "unknown"
    ELSE IF Ready(pendingCalls[c].handle) THEN "ended"
    ELSE IF batch.handoff = "cancelled" THEN "wait" ELSE "running"

HandBack(c) ==
    /\ pc = "handoff"
    /\ Visited(c) \/ (Unfinished(c) /\ \A d \in Calls : Unfinished(d) => c <= d)
    /\ HandedStatus(c) # "wait"
    /\ Commit("tool_finished",
              ResultFits(c, HandedStatus(c)), ToolFinished(c, HandedStatus(c)),
              /\ IF Running(c) THEN Collected(pendingCalls[c].handle)
                 ELSE UNCHANGED <<command, late>>
              /\ UNCHANGED <<pc, rc, hostVars, batch, closing>>)

HandoffDone ==
    /\ pc = "handoff"
    /\ AllFinished
    /\ batch.handoff # "cancelled"
    /\ Goto("cycle")
    /\ batch' = NoBatch
    /\ UNCHANGED <<vars, hostVars, command, late, closing, refused, budget>>

HandoffInterrupts ==
    /\ pc = "handoff"
    /\ AllFinished
    /\ batch.handoff = "cancelled"
    /\ InterruptTurn("returned", "failed", "broken")

CallsNext ==
    \/ \E c \in Calls :
          \/ BatchRuleRejects(c) \/ BatchCancelled(c) \/ BatchCollects(c)
          \/ BatchOverdue(c) \/ BatchPasses(c) \/ BatchYields(c)
          \/ BatchRejects(c) \/ BatchSkips(c) \/ BatchStarts(c)
          \/ ToolRuns(c) \/ ToolReturns(c) \/ HandBack(c)
    \/ BatchDone
    \/ WaveHandsOff
    \/ NextWave
    \/ HandoffDone
    \/ HandoffInterrupts
=============================================================================
