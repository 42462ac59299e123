------------------------------ MODULE TurnInput ------------------------------
(***************************************************************************)
(* One poll of snag_app_active_input_pump: what the operator types while   *)
(* a turn is worked on, and what the managed commands did meanwhile.       *)
(***************************************************************************)
EXTENDS TurnHost

\* Where the driver calls the pump.
PumpPoints == {"prepare", "compacting", "provider", "late", "batch", "tool",
               "waiting", "backoff", "rewait", "closeWait"}

Typing(kind) ==
    /\ pc \in PumpPoints
    /\ kind \in InputKinds
    /\ PumpPolls
    /\ budget.edges > 0
    /\ budget' = [budget EXCEPT !.edges = @ - 1]
    /\ UNCHANGED <<pc, rc, retry, refused>>

\* Text for the running turn: durable first, then the edge, unless the model
\* deferred steering or a compaction is under way.
SteerTyped(i) ==
    /\ Typing("steer")
    /\ SteeringAdded(i)
    /\ kept' = [kept EXCEPT !.policy = FALSE]
    /\ edge' = [edge EXCEPT !.steering = ~kept.deferred /\ activeCompact = NoCompact]
    /\ UNCHANGED workVars

\* The reducer refuses the text of a turn whose response failed: it goes back to
\* the composer and the pump returns -1, which closing takes for a cancellation.
SteerReturned ==
    /\ Typing("steer")
    /\ activeTurn
    /\ ~SteerableTurn
    /\ closing' = [closing EXCEPT !.cancelled = @ \/ pc = "closeWait"]
    /\ UNCHANGED <<vars, edge, kept, command, late, batch>>

\* A slash command that waits for the driver to be between requests.
ControlTyped ==
    /\ Typing("control")
    /\ edge' = [edge EXCEPT !.control = TRUE]
    /\ UNCHANGED <<vars, kept, workVars>>

ModelTyped(m) ==
    /\ Typing("model")
    /\ ModelSelectionChanged(m)
    /\ edge' = [edge EXCEPT !.model = TRUE]
    /\ UNCHANGED <<kept, workVars>>

GoalTyped(g) ==
    /\ Typing("goal")
    /\ GoalPaused(g) \/ GoalResumed(g) \/ GoalCompleted(g, "user")
    /\ UNCHANGED <<edge, kept, workVars>>

\* Ctrl-C: the request to cancel is durable before anything is torn down.
InterruptTyped ==
    /\ Typing("interrupt")
    /\ IF activeTurn THEN TurnCancelRequested
       ELSE IF pendingInput # NoInput THEN InputCancelled ELSE UNCHANGED vars
    /\ kept' = [kept EXCEPT !.cancel = @ \/ activeTurn]
    /\ edge' = [edge EXCEPT !.interrupt = TRUE]
    /\ UNCHANGED workVars

\* Ctrl-D: the process leaves and the turn is kept for the next one.
ExitTyped ==
    /\ Typing("exit")
    /\ edge' = [edge EXCEPT !.interrupt = TRUE, !.closed = TRUE]
    /\ UNCHANGED <<vars, kept, workVars>>

\* snag_tools_service runs in the pump, after the flags were looked at, in the
\* waits of a batch, and in the closing of a command that is already cancelled.
Servicing ==
    \/ pc \in PumpPoints /\ ~edge.interrupt /\ ~PumpStops
    \/ pc = "batch"
    \/ pc = "handoff" /\ batch.handoff = "cancelled"
    \/ pc = "closeWait" /\ closing.cancelled

\* The exit of a command and the end of its output are seen.
CommandEnds(h) ==
    /\ Servicing
    /\ Live(h)
    /\ command' = [command EXCEPT ![h] = "ready"]
    /\ UNCHANGED <<vars, pc, rc, hostVars, late, batch, closing, refused, budget>>

InCall(h) == \E c \in Calls : Running(c) /\ pendingCalls[c].handle = h

\* timeout_handoff, unless it is being closed; wait_timeout, only inside a call.
CommandOverdue(h) ==
    /\ Servicing
    /\ Live(h)
    /\ h \notin late
    /\ command[h] = "running" \/ InCall(h)
    /\ late' = late \cup {h}
    /\ UNCHANGED <<vars, pc, rc, hostVars, command, batch, closing, refused, budget>>

OperatorNext ==
    \/ \E i \in Inputs : SteerTyped(i)
    \/ SteerReturned
    \/ ControlTyped
    \/ \E m \in Models : ModelTyped(m)
    \/ \E g \in Goals : GoalTyped(g)
    \/ InterruptTyped
    \/ ExitTyped
=============================================================================
