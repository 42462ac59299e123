------------------------------ MODULE TurnHost ------------------------------
(***************************************************************************)
(* What the process that owns a session keeps while it runs a turn         *)
(* (src/src/app.c, struct app_state and struct turn_retry), the commands   *)
(* it manages (src/src/tools.c), and how it commits an event.              *)
(*                                                                         *)
(* The driver is one thread.  It polls the terminal only inside its input  *)
(* pump, so every interleaving of input, command and provider is an order  *)
(* of the pump points that pc names.                                       *)
(***************************************************************************)
EXTENDS Session

CONSTANTS
    InputKinds,   \* what the operator may type in this instance
    MaxRetries,   \* max_turn_retries of the configuration
    MaxEdges,     \* bound: inputs typed while a turn runs
    MaxCrashes,   \* bound: restarts of the process
    MaxFaults,    \* bound: events that could not be written
    Graphs        \* the sets of calls a response may propose in this instance

ASSUME DriverAssumption ==
    /\ Calls \subseteq Nat \ {0} /\ NoId = 0   \* calls are ordered, as in a response
    /\ MaxRetries \in Nat /\ MaxEdges \in Nat
    /\ MaxCrashes \in Nat /\ MaxFaults \in Nat
    /\ Graphs \subseteq ProposedCalls

VARIABLES
    pc, rc,           \* where the driver is, and what run_turn returns
    edge, retry, kept,
    command, late,    \* managed processes, and those with a handoff not collected
    batch, closing,
    refused,          \* ghost: the events the reducer refused the driver
    budget            \* bounds left

hostVars   == <<edge, retry, kept>>
workVars   == <<command, late, batch, closing>>
driverVars == <<pc, rc, hostVars, workVars, refused, budget>>
-----------------------------------------------------------------------------
Results == {"done", "ready", "failed", "broken"}

\* What an input leaves for the driver to see: steering_requested,
\* interrupt_requested, control_requested, model_switch_requested, input_closed.
Edges  == [steering: BOOLEAN, interrupt: BOOLEAN, control: BOOLEAN,
           model: BOOLEAN, closed: BOOLEAN]
NoEdge == [steering |-> FALSE, interrupt |-> FALSE, control |-> FALSE,
           model |-> FALSE, closed |-> FALSE]

\* struct turn_retry, with turn_policy_stopped, and the locals kind (goal_turn),
\* fallback (fallback_started), compacted (request_compacted) and waiting
\* (initial_goal_status of turn_recovery_wait).
GoalViews == {"active", "paused", "blocked", "other"}
Retries == [attempts: Nat, limit: Nat, pending: BOOLEAN, goal: GoalViews,
            policy: BOOLEAN, kind: {"direct", "goal"}, fallback: BOOLEAN,
            compacted: BOOLEAN, waiting: GoalViews]
NoRetry == [attempts |-> 0, limit |-> MaxRetries, pending |-> FALSE,
            goal |-> "other", policy |-> FALSE, kind |-> "direct",
            fallback |-> FALSE, compacted |-> FALSE, waiting |-> "other"]

\* Fields of the session that only its driver reads: cancel_requested,
\* steering_deferred, policy_stopped, turn_retry_attempts and last_turn_failed.
KeptFlags == [cancel: BOOLEAN, deferred: BOOLEAN, policy: BOOLEAN, attempts: Nat,
              failed: BOOLEAN]
NoneKept  == [cancel |-> FALSE, deferred |-> FALSE, policy |-> FALSE,
              attempts |-> 0, failed |-> FALSE]

\* A managed process: ready is process_ready, closing is begin_close's mark.
CommandStates == {"none", "running", "closing", "ready"}

\* run_call_batch: the next call to visit, why it hands off, steering_handoff,
\* first_wave, and whether a call finished in this wave.
Batches == [slot: Nat, handoff: {"none", "yield", "steering", "limit", "cancelled"},
            steering: BOOLEAN, first: BOOLEAN, progressed: BOOLEAN]
NoBatch == [slot |-> NoId, handoff |-> "none", steering |-> FALSE, first |-> TRUE,
            progressed |-> FALSE]

\* snag_app_close_active_processes: the command being closed, cancelled of
\* wait_process, the event that follows, and where both outcomes go.
EndEvents == {"turn_failed", "turn_interrupted", "turn_recovery"}
Closings  == [target: Calls \cup {NoId}, cancelled: BOOLEAN, event: EndEvents,
              back: {"returned", "finish", "leave", "pause", "chain"},
              ok: Results, bad: Results]
NoClosing == [target |-> NoId, cancelled |-> FALSE, event |-> "turn_failed",
              back |-> "returned", ok |-> "done", bad |-> "done"]

\* snag_goals_status, of a session with at most one goal
GoalView ==
    IF GoalActive THEN "active"
    ELSE IF \E g \in Goals : goals[g].status = "paused" THEN "paused"
    ELSE IF \E g \in Goals : goals[g].status = "blocked" THEN "blocked" ELSE "other"

\* snag_app_active_input_pump polls only while nothing waits to be seen.
PumpPolls ==
    ~edge.interrupt /\ ~edge.closed /\ ~edge.steering /\ ~edge.control
    /\ ~(edge.model /\ responseOpen)

\* What the pump returns without polling: 2 for an interrupt, else 1.
PumpStops == edge.steering \/ edge.control \/ (edge.model /\ responseOpen)

Ready(h) == command[h] = "ready"
Live(h)  == command[h] \in {"running", "closing"}

\* begin_close, for every managed process
CloseAll == command' = [h \in Calls |-> IF command[h] = "running" THEN "closing" ELSE command[h]]

\* snag_tools_collected: a finished process is released, a running one is out of
\* its call and its handoff is answered.
Collected(h) ==
    /\ command' = IF h # NoId /\ Ready(h) THEN [command EXCEPT ![h] = "none"] ELSE command
    /\ late' = late \ {h}

Goto(where) == pc' = where /\ UNCHANGED rc
Return(code) == pc' = "returned" /\ rc' = code

\* The reducer refuses an event that does not fit, or it cannot be written.
Unwritten(name, fits) ==
    \/ ~fits /\ refused' = refused \cup {name} /\ UNCHANGED budget
    \/ /\ budget.faults > 0
       /\ budget' = [budget EXCEPT !.faults = @ - 1]
       /\ UNCHANGED refused

\* commit_event: an event that is not written changes nothing, and the caller goes
\* where its error path goes, with this result.
CommitOr(name, fits, E, then, where, code) ==
    \/ E /\ then /\ UNCHANGED <<refused, budget>>
    \/ /\ Unwritten(name, fits)
       /\ pc' = where /\ rc' = code
       /\ UNCHANGED <<vars, hostVars, workVars>>

\* In run_turn that is the fail label.
Commit(name, fits, E, then) == CommitOr(name, fits, E, then, "returned", "broken")

\* A step of the driver that commits nothing
Quietly(where) ==
    /\ Goto(where)
    /\ UNCHANGED <<vars, workVars, refused, budget>>

HostInit ==
    /\ pc = "idle" /\ rc = "done"
    /\ edge = NoEdge /\ retry = NoRetry /\ kept = NoneKept
    /\ command = [h \in Calls |-> "none"] /\ late = {}
    /\ batch = NoBatch /\ closing = NoClosing
    /\ refused = {}
    /\ budget = [edges |-> MaxEdges, crashes |-> MaxCrashes, faults |-> MaxFaults]

HostTypes ==
    /\ rc \in Results
    /\ edge \in Edges /\ retry \in Retries /\ kept \in KeptFlags
    /\ command \in [Calls -> CommandStates] /\ late \subseteq Calls
    /\ batch \in Batches /\ closing \in Closings
=============================================================================
