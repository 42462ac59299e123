----------------------------- MODULE SessionTurn -----------------------------
(***************************************************************************)
(* Events that start, recover and end a turn, and the model selection a    *)
(* turn runs on.                                                           *)
(***************************************************************************)
EXTENDS SessionState

\* MUTANT of AdmissibleStart: the accepted prompt is not the one that starts.
AdmissibleStartAny(kind, ro, m) ==
    /\ kind = "timer" => pendingInput # NoInput
    /\ kind = "goal" => GoalActive /\ ~ro
    /\ kind = "queued" => queue # <<>> /\ Head(queue).readOnly = ro

\* consume_oldest_queue for a queued turn; the pending prompt must be the one
\* that starts, and a goal's turn needs a goal to continue.
AdmissibleStart(kind, ro, m) ==
    /\ kind = "timer" => pendingInput # NoInput
    /\ pendingInput # NoInput =>
          /\ kind = pendingInput.origin
          /\ ro = pendingInput.readOnly
          /\ m = pendingInput.model
    /\ kind = "goal" => GoalActive /\ ~ro
    /\ kind = "queued" => queue # <<>> /\ Head(queue).readOnly = ro

\* Steering that never reached a request may be carried into the next turn;
\* steering that was admitted may not.
TurnMayStart(kind, ro, m) ==
    /\ turnCount < MaxTurns
    /\ ~activeTurn
    /\ processes = {}
    /\ ~SteeringAdmitted
    /\ AdmissibleStart(kind, ro, m)

TurnStarted(kind, ro, m) ==
    /\ TurnMayStart(kind, ro, m)
    /\ activeTurn' = TRUE
    /\ turnCount' = turnCount + 1
    /\ activeKind' = IF kind = "timer" THEN "direct" ELSE kind
    /\ readOnly' = ro
    /\ inputAdmitted' = FALSE
    /\ reminded' = FALSE
    /\ corrected' = FALSE
    /\ turnModel' = m
    /\ cycle' = 0
    /\ ClearResponse
    /\ SetQueue(IF kind = "queued" THEN Tail(queue) ELSE queue, queueArmed)
    /\ pendingInput' = NoInput
    /\ UNCHANGED <<fallbackActive, defaultModel, outcome, processes, steering,
                   compactVars, ircVars, goals, deleteRequested>>

TurnCancelRequested ==
    /\ activeTurn
    /\ SetQueue(queue, FALSE)
    /\ UNCHANGED <<turnVars, modelVars, responseVars, attemptVars, processes,
                   inputVars, compactVars, ircVars, goals, deleteRequested>>

RecoverableTurn == activeTurn /\ ~responseOpen /\ AllFinished

\* turn_recovery drops what an unfinished attempt left behind.
TurnRecovery ==
    /\ RecoverableTurn
    /\ ClearResponse
    /\ ClearCompaction
    /\ UNCHANGED <<turnVars, modelVars, attemptVars, processes, inputVars,
                   queueVars, ircVars, goals, deleteRequested>>

\* clear_turn_state
ClearTurn ==
    /\ activeTurn' = FALSE
    /\ activeKind' = "none"
    /\ readOnly' = FALSE
    /\ fallbackActive' = FALSE
    /\ turnModel' = NoId
    /\ ClearResponse
    /\ ClearCompaction
    /\ UNCHANGED <<turnCount, inputAdmitted, reminded, corrected, defaultModel,
                   outcome, cycle, processes, pendingInput, ircVars, goals,
                   deleteRequested>>

\* Shared by the two successful ends: steering that came after the last request
\* stays pending for the next turn.
CompletableTurn ==
    /\ activeTurn
    /\ processes = {}
    /\ responseComplete
    /\ ~HasPending
    /\ ~SteeringAdmitted

AnsweredTurn == CompletableTurn /\ outcome \in {"final", "refusal"}

TurnCompleted ==
    /\ AnsweredTurn
    /\ ClearTurn
    /\ UNCHANGED <<steering, queueVars>>

\* reply_reminder_exhausted needs the reminder; room_update_quiet does not.
TurnCompletedSilent ==
    /\ CompletableTurn
    /\ outcome = "nonproductive"
    /\ ClearTurn
    /\ UNCHANGED <<steering, queueVars>>

\* MUTANT of AbandonableTurn: running commands do not hold the turn.
AbandonableTurnAnyProcess ==
    /\ activeTurn
    /\ ~responseOpen
    /\ responseComplete => AllFinished

\* Shared by the two unsuccessful ends: pending steering is dropped.
AbandonableTurn ==
    /\ activeTurn
    /\ processes = {}
    /\ ~responseOpen
    /\ responseComplete => AllFinished

\* clear_pending_steering
DropSteering == steering' = [i \in Inputs |-> "none"]

TurnInterrupted ==
    /\ AbandonableTurn
    /\ SetQueue(queue, FALSE)
    /\ DropSteering
    /\ ClearTurn

\* A failure that hands off to newer input leaves the queue as it is.
TurnFailed ==
    /\ AbandonableTurn
    /\ SetQueue(queue, queueArmed /\ handoff)
    /\ DropSteering
    /\ ClearTurn

FallbackMayStart == activeTurn /\ ~responseOpen /\ ~fallbackActive /\ terminal = "failed"

\* turn_fallback_started: a failed response is retried on the fallback model.
TurnFallbackStarted(m) ==
    /\ FallbackMayStart
    /\ turnModel' = m
    /\ fallbackActive' = TRUE
    /\ ClearResponse
    /\ UNCHANGED <<turnVars, defaultModel, attemptVars, processes, inputVars,
                   queueVars, compactVars, ircVars, goals, deleteRequested>>

\* MUTANT of TurnModelChanged: an open response does not hold the model.
TurnModelChangedAnytime ==
    /\ activeTurn
    /\ fallbackActive \/ turnModel # defaultModel
    /\ turnModel' = defaultModel
    /\ fallbackActive' = FALSE
    /\ UNCHANGED <<turnVars, defaultModel, responseVars, attemptVars, processes,
                   inputVars, queueVars, compactVars, ircVars, goals,
                   deleteRequested>>

ModelMayChange == activeTurn /\ ~responseOpen /\ (fallbackActive \/ turnModel # defaultModel)

\* turn_model_changed: the running turn moves to the default selection.
TurnModelChanged ==
    /\ ModelMayChange
    /\ turnModel' = defaultModel
    /\ fallbackActive' = FALSE
    /\ UNCHANGED <<turnVars, defaultModel, responseVars, attemptVars, processes,
                   inputVars, queueVars, compactVars, ircVars, goals,
                   deleteRequested>>

\* model_selection_changed: only later turns, or a turn_model_changed, see it.
ModelSelectionChanged(m) ==
    /\ m # defaultModel
    /\ defaultModel' = m
    /\ UNCHANGED <<turnVars, fallbackActive, turnModel, responseVars, attemptVars,
                   processes, inputVars, queueVars, compactVars, ircVars, goals,
                   deleteRequested>>

TurnNext ==
    \/ \E kind \in {"direct", "queued", "goal", "timer"}, ro \in BOOLEAN, m \in Models :
          TurnStarted(kind, ro, m)
    \/ TurnCancelRequested
    \/ TurnRecovery
    \/ TurnCompleted
    \/ TurnCompletedSilent
    \/ TurnInterrupted
    \/ TurnFailed
    \/ \E m \in Models : TurnFallbackStarted(m)
    \/ TurnModelChanged
    \/ \E m \in Models : ModelSelectionChanged(m)
=============================================================================
