---------------------------- MODULE SessionState ----------------------------
(***************************************************************************)
(* The state that one session's durable events are reduced into, and the   *)
(* helpers the event reducer shares between events (src/src/store.c).      *)
(*                                                                         *)
(* Identifiers are model values or members of small sets.  A command's     *)
(* process handle is the identity of the call that started it, so Calls    *)
(* names both.  Texts, digests, token counts, timestamps and limits on     *)
(* sizes are abstracted; so are the flags the reducer writes and never     *)
(* reads (README, "What the session model leaves out").                    *)
(***************************************************************************)
EXTENDS Naturals, Sequences, FiniteSets

CONSTANTS
    Inputs,      \* identities of steering and queued user input
    Calls,       \* identities of tool calls, and of the processes they start
    Goals,       \* identities of goals
    Models,      \* model selections
    Scopes,      \* continuation scopes of compacted context
    NoId,        \* the absent identity
    MaxTurns,    \* bound: turns started
    MaxCycles,   \* bound: responses in one turn
    MaxIrc       \* bound: room events received

ASSUME ConstantsAssumption ==
    /\ NoId \notin Inputs \cup Calls \cup Goals \cup Scopes \cup Models
    /\ Models # {}
    /\ MaxTurns \in Nat
    /\ MaxCycles \in Nat
    /\ MaxIrc \in Nat

VARIABLES
    activeTurn, turnCount, activeKind, readOnly, inputAdmitted, reminded,
    corrected, fallbackActive, turnModel, defaultModel,
    responseOpen, responseComplete, terminal, outcome, handoff, cycle,
    responseModel, pendingCalls, processes,
    steering, queue, queueArmed, pendingInput,
    activeCompact, compactSeq, compactScope,
    ircReceived, ircConsumed, responseIrc,
    goals, deleteRequested

turnVars     == <<activeTurn, turnCount, activeKind, readOnly, inputAdmitted,
                  reminded, corrected>>
modelVars    == <<fallbackActive, turnModel, defaultModel>>
responseVars == <<responseOpen, responseComplete, terminal, handoff,
                  responseModel, pendingCalls>>
attemptVars  == <<outcome, cycle>>
inputVars    == <<steering, pendingInput>>
queueVars    == <<queue, queueArmed>>
compactVars  == <<activeCompact, compactSeq, compactScope>>
ircVars      == <<ircReceived, ircConsumed, responseIrc>>

vars == <<turnVars, modelVars, responseVars, attemptVars, processes, inputVars,
          queueVars, compactVars, ircVars, goals, deleteRequested>>
-----------------------------------------------------------------------------
Terminals   == {"none", "steered", "interrupted", "failed"}
Outcomes    == {"calls", "final", "refusal", "nonproductive", "conflict"}
CallStates  == {"none", "proposed", "started", "refused", "finished"}
Tools       == {"none", "exec_command", "write_stdin", "read_file", "edit_file"}
GoalStates  == {"none", "active", "paused", "blocked", "completed", "cancelled"}

\* A call of the last complete response.  "refused" is a call that finished
\* without starting, "finished" one that had started.
CallRecord  == [state: CallStates, tool: Tools, handle: Calls \cup {NoId}]
NoCall      == [state |-> "none", tool |-> "none", handle |-> NoId]
GoalRecord  == [status: GoalStates, locked: BOOLEAN]
NoGoal      == [status |-> "none", locked |-> FALSE]
QueueEntry  == [id: Inputs, readOnly: BOOLEAN]
InputRecord == [origin: {"none", "direct", "timer"}, readOnly: BOOLEAN,
                model: Models \cup {NoId}]
NoInput     == [origin |-> "none", readOnly |-> FALSE, model |-> NoId]
CompactRecord == [seq: Nat, scope: Scopes \cup {NoId}]
NoCompact   == [seq |-> 0, scope |-> NoId]

\* snag_read_only_tool, for the four representatives of the tool table.
ReadOnlyTool(tool) == tool = "read_file"

\* What snag_pending_call_from_item makes of a call: an exec_command owns the
\* process named after it, a write_stdin names one in its arguments, or none that
\* is a handle.
ExecCall(c)     == [state |-> "proposed", tool |-> "exec_command", handle |-> c]
WriteCall(h)    == [state |-> "proposed", tool |-> "write_stdin", handle |-> h]
PlainCall(tool) == [state |-> "proposed", tool |-> tool, handle |-> NoId]

InState(call, state) == [state |-> state, tool |-> call.tool, handle |-> call.handle]

Pending(c)    == pendingCalls[c].state # "none"
Unfinished(c) == pendingCalls[c].state \in {"proposed", "started"}
Running(c)    == pendingCalls[c].state = "started"
HasPending    == \E c \in Calls : Pending(c)

\* all_pending_finished
AllFinished == \A c \in Calls : ~Unfinished(c)

\* pending_steering_count # 0, and the converse of
\* snag_session_pending_steering_unadmitted
SteeringPending  == \E i \in Inputs : steering[i] # "none"
SteeringAdmitted == \E i \in Inputs : steering[i] = "admitted"

\* pending_user_id_exists
UserIdPending(i) ==
    \/ steering[i] # "none"
    \/ \E k \in 1..Len(queue) : queue[k].id = i

\* snag_goals_status = SNAG_GOAL_ACTIVE
GoalActive == \E g \in Goals : goals[g].status = "active"

\* clear_response_state; the outcome is not reset by it
ClearResponse ==
    /\ responseOpen' = FALSE
    /\ responseComplete' = FALSE
    /\ handoff' = FALSE
    /\ terminal' = "none"
    /\ responseModel' = NoId
    /\ pendingCalls' = [c \in Calls |-> NoCall]

\* clear_compaction_state
ClearCompaction ==
    /\ activeCompact' = NoCompact
    /\ UNCHANGED <<compactSeq, compactScope>>

\* The line every event ends with: an empty queue is never left armed.
SetQueue(q, armed) ==
    /\ queue' = q
    /\ queueArmed' = (armed /\ q # <<>>)
-----------------------------------------------------------------------------
\* What a session holds after session_created and nothing else.
Init ==
    /\ activeTurn = FALSE
    /\ turnCount = 0
    /\ activeKind = "none"
    /\ readOnly = FALSE
    /\ inputAdmitted = FALSE
    /\ reminded = FALSE
    /\ corrected = FALSE
    /\ fallbackActive = FALSE
    /\ defaultModel \in Models
    /\ turnModel = NoId
    /\ responseOpen = FALSE
    /\ responseComplete = FALSE
    /\ terminal = "none"
    /\ outcome = "calls"
    /\ handoff = FALSE
    /\ cycle = 0
    /\ responseModel = NoId
    /\ pendingCalls = [c \in Calls |-> NoCall]
    /\ processes = {}
    /\ steering = [i \in Inputs |-> "none"]
    /\ queue = <<>>
    /\ queueArmed = FALSE
    /\ pendingInput = NoInput
    /\ activeCompact = NoCompact
    /\ compactSeq = 0
    /\ compactScope = NoId
    /\ ircReceived = 0
    /\ ircConsumed = 0
    /\ responseIrc = 0
    /\ goals = [g \in Goals |-> NoGoal]
    /\ deleteRequested = FALSE

\* The types, part by part.
TurnTypes ==
    /\ activeTurn \in BOOLEAN
    /\ turnCount \in 0..MaxTurns
    /\ activeKind \in {"none", "direct", "queued", "goal"}
    /\ readOnly \in BOOLEAN
    /\ inputAdmitted \in BOOLEAN
    /\ reminded \in BOOLEAN
    /\ corrected \in BOOLEAN

ModelTypes ==
    /\ fallbackActive \in BOOLEAN
    /\ defaultModel \in Models
    /\ turnModel \in Models \cup {NoId}

ResponseTypes ==
    /\ responseOpen \in BOOLEAN
    /\ responseComplete \in BOOLEAN
    /\ terminal \in Terminals
    /\ handoff \in BOOLEAN
    /\ responseModel \in Models \cup {NoId}
    /\ pendingCalls \in [Calls -> CallRecord]

AttemptTypes == outcome \in Outcomes /\ cycle \in 0..MaxCycles

InputTypes ==
    /\ steering \in [Inputs -> {"none", "pending", "admitted"}]
    /\ pendingInput \in InputRecord

QueueTypes == queue \in Seq(QueueEntry) /\ queueArmed \in BOOLEAN

CompactTypes ==
    /\ activeCompact \in CompactRecord
    /\ compactSeq \in Nat
    /\ compactScope \in Scopes \cup {NoId}

IrcTypes ==
    /\ ircReceived \in 0..MaxIrc
    /\ ircConsumed \in 0..MaxIrc
    /\ responseIrc \in 0..MaxIrc

\* Types of the reduced state.
TypeOK ==
    /\ TurnTypes
    /\ ModelTypes
    /\ ResponseTypes
    /\ AttemptTypes
    /\ processes \subseteq Calls
    /\ InputTypes
    /\ QueueTypes
    /\ CompactTypes
    /\ IrcTypes
    /\ goals \in [Goals -> GoalRecord]
    /\ deleteRequested \in BOOLEAN
=============================================================================
