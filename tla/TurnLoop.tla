------------------------------ MODULE TurnLoop ------------------------------
(***************************************************************************)
(* What calls run_turn: the loop of run_tracked_turn that retries a failed *)
(* turn, the wait between its attempts, the ready chains and the idle      *)
(* prompt, and the recovery of a session another process left.             *)
(***************************************************************************)
EXTENDS TurnCycle

\* snag_app_goal_pause
PauseGoal == \E g \in Goals : goals[g].status = "active" /\ GoalPaused(g)

\* A policy stop pauses the goal and takes the attempts back.
ReturnedPauses ==
    /\ pc = "returned"
    /\ retry.policy /\ GoalActive
    /\ CommitOr("goal_paused", GoalActive, PauseGoal,
                /\ retry' = [retry EXCEPT !.attempts = 0]
                /\ Goto("returned")
                /\ UNCHANGED <<edge, kept, workVars>>,
                "finish", "broken")

\* MUTANT of EnterBackoff: the wait takes an attempt back.
EnterBackoffUncounting(attempts) ==
    /\ retry' = [retry EXCEPT !.attempts = attempts - 1, !.waiting = GoalView]
    /\ edge' = [edge EXCEPT !.steering = FALSE]
    /\ Quietly("backoff")
    /\ UNCHANGED kept

\* turn_recovery_wait: a wake that an earlier request left is not for it.
EnterBackoff(attempts) ==
    /\ retry' = [retry EXCEPT !.attempts = attempts, !.waiting = GoalView]
    /\ edge' = [edge EXCEPT !.steering = FALSE]
    /\ Quietly("backoff")
    /\ UNCHANGED kept

\* Commands that run keep the turn of a policy stop for a clarification.
ReturnedAwaitsClarification ==
    /\ pc = "returned"
    /\ retry.policy /\ ~GoalActive /\ processes # {}
    /\ EnterBackoff(0)

\* The loop is left, or the turn is tried again.
Stops == \/ ~GoalActive /\ ~retry.pending
         \/ edge.closed \/ edge.interrupt
         \/ rc = "done"
         \/ rc = "ready" /\ ~activeTurn

ReturnedFinishes ==
    /\ pc = "returned"
    /\ IF retry.policy THEN ~GoalActive /\ processes = {} ELSE Stops
    /\ Quietly("finish")
    /\ UNCHANGED hostVars

\* MUTANT of ReturnedRetries: an attempt is not counted.
ReturnedRetriesFreely ==
    /\ pc = "returned"
    /\ ~retry.policy /\ ~Stops
    /\ EnterBackoff(retry.attempts)

ReturnedRetries ==
    /\ pc = "returned"
    /\ ~retry.policy /\ ~Stops
    /\ EnterBackoff(IF GoalActive THEN retry.attempts ELSE retry.attempts + 1)

\* The wait is for a goal when one was active as it began; it goes on while that
\* goal is paused and commands run.
ForGoal  == retry.waiting = "active"
OnHold   == ForGoal /\ GoalView = "paused"
GoalGone == GoalView # retry.waiting /\ ~(OnHold /\ processes # {})

\* The wait is the same in the loop that reconciles ("rewait").
Waits == pc \in {"backoff", "rewait"}

BackoffControlled ==
    /\ Waits
    /\ ControlsReady /\ ~edge.interrupt
    /\ ApplyControls
    /\ Quietly(pc)
    /\ UNCHANGED <<retry, kept>>

\* Steering of a turn whose goal is on hold does not start it again.
BackoffHolds ==
    /\ Waits
    /\ edge.steering /\ ~edge.interrupt
    /\ ~retry.policy /\ OnHold /\ ~GoalGone
    /\ edge' = [edge EXCEPT !.steering = FALSE]
    /\ Quietly(pc)
    /\ UNCHANGED <<retry, kept>>

\* Ctrl-C ends the turn, the loss of its goal too; a policy stop leaves the loop.
BackoffInterrupted ==
    /\ pc = "backoff"
    /\ edge.interrupt
    /\ IF ~retry.policy /\ activeTurn THEN InterruptTurn("finish", "failed", "failed")
       ELSE /\ pc' = "finish" /\ rc' = (IF retry.policy THEN rc ELSE "failed")
            /\ UNCHANGED <<vars, hostVars, workVars, refused, budget>>

BackoffLosesGoal ==
    /\ pc = "backoff"
    /\ ~edge.interrupt
    /\ GoalGone
    /\ ~(retry.policy /\ edge.steering)
    /\ IF ~retry.policy /\ activeTurn THEN InterruptTurn("finish", "done", "done")
       ELSE /\ pc' = "finish" /\ rc' = (IF retry.policy THEN rc ELSE "done")
            /\ UNCHANGED <<vars, hostVars, workVars, refused, budget>>

\* The clarification lifts the policy stop.
BackoffClarified ==
    /\ pc = "backoff"
    /\ ~edge.interrupt
    /\ retry.policy /\ edge.steering
    /\ retry' = [retry EXCEPT !.policy = FALSE]
    /\ edge' = [edge EXCEPT !.steering = FALSE]
    /\ Quietly("begin")
    /\ UNCHANGED kept

\* The delay passed, or steering, a control or another model cut it short.
BackoffEnds ==
    /\ pc = "backoff"
    /\ ~edge.interrupt
    /\ ~retry.policy /\ ~GoalGone /\ ~OnHold
    /\ edge' = [edge EXCEPT !.steering = FALSE]
    /\ Quietly("reconcile")
    /\ UNCHANGED <<retry, kept>>

\* Where an event of the reconciliation that fails leads: a goal waits and tries
\* again.
Unreconciled == IF ForGoal THEN "rewait" ELSE "finish"

\* Before the next attempt every call gets a result and the response an end.
ReconcileCall(c) ==
    /\ pc = "reconcile"
    /\ Terminalize(c, TRUE, Unreconciled)

ReconcileResponse ==
    /\ pc = "reconcile"
    /\ AllFinished /\ responseOpen
    /\ CommitOr("response_interrupted",
                InterruptFits("interrupted"), ResponseInterrupted("interrupted"),
                Goto("reconcile") /\ UNCHANGED <<hostVars, workVars>>,
                Unreconciled, "broken")

ReconcileEnds ==
    /\ pc = "reconcile"
    /\ AllFinished /\ ~responseOpen
    /\ LET stops == edge.interrupt \/ (activeTurn /\ ForGoal /\ ~GoalActive)
           then  == /\ IF stops THEN pc' = "finish" /\ rc' = "failed" ELSE Goto("begin")
                    /\ UNCHANGED <<hostVars, workVars>>
       IN IF activeTurn /\ (rc = "broken" \/ responseComplete \/ terminal # "none")
          THEN CommitOr("turn_recovery", RecoverableTurn, TurnRecovery, then, Unreconciled, "broken")
          ELSE then /\ UNCHANGED <<vars, refused, budget>>

\* The wait over, the reconciliation is tried again, or the loop is left without it.
ReconcileAgain ==
    /\ pc = "rewait"
    /\ IF edge.interrupt \/ GoalGone
       THEN /\ pc' = "finish" /\ rc' \in {"failed"} \cup ({rc} \cap {"broken"})
            /\ UNCHANGED <<vars, edge, workVars, refused, budget>>
       ELSE /\ ~OnHold
            /\ edge' = [edge EXCEPT !.steering = FALSE]
            /\ Quietly("reconcile")
    /\ UNCHANGED <<retry, kept>>

\* What follows the loop: Ctrl-C pauses the goal, and ends a turn that is left
\* with work in it.
FinishPauses ==
    /\ pc = "finish"
    /\ IF edge.interrupt /\ ~edge.closed /\ GoalActive
       THEN CommitOr("goal_paused", GoalActive, PauseGoal,
                     Goto("parting") /\ UNCHANGED <<hostVars, workVars>>, "parting", rc)
       ELSE Quietly("parting") /\ UNCHANGED hostVars

LeftBehind == responseOpen \/ responseComplete \/ processes # {} \/ HasPending \/ ~edge.closed

FinishEnds ==
    /\ pc = "parting"
    /\ IF activeTurn /\ edge.interrupt /\ LeftBehind THEN InterruptTurn("leave", rc, rc)
       ELSE Quietly("leave") /\ UNCHANGED hostVars

LeaveTracked ==
    /\ pc = "leave"
    /\ Quietly(IF edge.closed THEN "closed" ELSE IF rc = "broken" THEN "held"
               ELSE IF rc = "failed" THEN "idle" ELSE "chain")
    /\ UNCHANGED hostVars

\* After the interruption of a retained turn: idle for a Ctrl-C at the prompt,
\* the chains when it was found at a restart.
PauseAfter ==
    /\ pc = "pause"
    /\ LET next == IF rc = "done" THEN "chain" ELSE "idle" IN
       IF GoalActive
       THEN CommitOr("goal_paused", GoalActive, PauseGoal,
                     Goto(next) /\ UNCHANGED <<hostVars, workVars>>, "held", "broken")
       ELSE Quietly(next) /\ UNCHANGED hostVars
-----------------------------------------------------------------------------
\* The entry of run_tracked_turn: a turn that was kept brings its attempts.
Track(kind) ==
    /\ retry' = [NoRetry EXCEPT !.attempts = IF activeTurn THEN kept.attempts ELSE 0,
                                !.goal = GoalView, !.kind = kind]
    /\ edge' = [edge EXCEPT !.interrupt = FALSE]
    /\ pc' = "begin" /\ rc' = "done"

TrackQuietly(kind) ==
    /\ Track(kind)
    /\ UNCHANGED <<vars, kept, workVars, refused, budget>>

TurnKind == IF activeKind = "goal" THEN "goal" ELSE "direct"

\* run_ready_chains, in its order; what it skips waits for the operator.
Chaining == pc = "chain" /\ ~ControlsReady

ChainControlled ==
    /\ pc = "chain" /\ ControlsReady
    /\ ApplyControls
    /\ Quietly(IF edge'.closed THEN "closed" ELSE "chain")
    /\ UNCHANGED <<retry, kept>>

PromptReady == ~activeTurn /\ pendingInput # NoInput
TurnReady   == /\ activeTurn /\ ~edge.interrupt /\ ~kept.policy
               /\ activeKind = "goal" => GoalActive
GoalReady   == /\ ~activeTurn /\ pendingInput = NoInput
               /\ ~edge.interrupt /\ GoalActive /\ ~kept.failed

ChainPrompt == Chaining /\ PromptReady /\ TrackQuietly("direct")
ChainTurn   == Chaining /\ TurnReady /\ TrackQuietly(TurnKind)
ChainGoal   == Chaining /\ GoalReady /\ turnCount < MaxTurns /\ TrackQuietly("goal")
ChainRests  ==
    /\ Chaining
    /\ ~PromptReady /\ ~TurnReady
    /\ GoalReady => turnCount = MaxTurns
    /\ Quietly("idle")
    /\ UNCHANGED hostVars

AtPrompt == pc \in {"idle", "held"}

\* submit_idle: a new prompt, durable before its turn starts
SubmitPrompt ==
    /\ AtPrompt
    /\ ~activeTurn /\ pendingInput = NoInput /\ turnCount < MaxTurns
    /\ CommitOr("input_received",
                ReceiptFits("direct", FALSE), InputReceived("direct", FALSE, defaultModel),
                Track("direct") /\ UNCHANGED <<kept, workVars>>, "held", "broken")

\* ... more text for a turn that was kept, which also lifts its policy stop
SubmitSteering(i) ==
    /\ AtPrompt
    /\ activeTurn
    /\ ~UserIdPending(i)
    /\ CommitOr("steering_added", SteeringFits(i), SteeringAdded(i),
                /\ Track(TurnKind)
                /\ kept' = [kept EXCEPT !.policy = FALSE]
                /\ UNCHANGED workVars, "held", "broken")

\* ... and /retry: for a turn that was kept it is a control, which the chains
\* apply before they continue the turn; an accepted prompt is started.
SubmitRetry ==
    /\ AtPrompt
    /\ \/ /\ activeTurn
          /\ edge' = [edge EXCEPT !.interrupt = FALSE, !.control = TRUE]
          /\ Quietly("chain")
          /\ UNCHANGED <<retry, kept>>
       \/ ~activeTurn /\ pendingInput # NoInput /\ TrackQuietly("direct")

SubmitGoal(g) ==
    /\ AtPrompt
    /\ GoalStarted(g) \/ GoalResumed(g)
    /\ edge' = [edge EXCEPT !.interrupt = FALSE]
    /\ Goto("chain")
    /\ UNCHANGED <<retry, kept, workVars, refused, budget>>

\* Ctrl-C at the prompt of a turn that was kept
CancelKept ==
    /\ AtPrompt
    /\ activeTurn
    /\ CommitOr("turn_cancel_requested", activeTurn, TurnCancelRequested,
                /\ kept' = [kept EXCEPT !.cancel = TRUE]
                /\ Goto("cancelling")
                /\ UNCHANGED <<edge, retry, workVars>>, "held", rc)

\* ... and with a prompt that was accepted and has no turn yet
CancelAccepted ==
    /\ AtPrompt
    /\ ~activeTurn /\ pendingInput # NoInput
    /\ CommitOr("input_cancelled", pendingInput # NoInput, InputCancelled,
                Goto(pc) /\ UNCHANGED <<hostVars, workVars>>, "held", rc)

CancelKeptCall(c) == pc = "cancelling" /\ Terminalize(c, FALSE, "held")

CancelKeptEnds ==
    /\ pc = "cancelling"
    /\ AllFinished
    /\ InterruptTurn("pause", "failed", "broken")

LeavePrompt ==
    /\ AtPrompt
    /\ Quietly("closed")
    /\ UNCHANGED hostVars

OperatorAtPrompt ==
    \/ SubmitPrompt
    \/ \E i \in Inputs : SubmitSteering(i)
    \/ SubmitRetry
    \/ \E g \in Goals : SubmitGoal(g)
    \/ CancelKept \/ CancelAccepted
    \/ LeavePrompt
-----------------------------------------------------------------------------
\* The process ends at any point; what it managed ends with it.
Crash ==
    /\ pc # "closed"
    /\ budget.crashes > 0
    /\ pc' = "closed"
    /\ UNCHANGED <<vars, rc, hostVars, workVars, refused, budget>>

\* Another process opens the session; recover_session first.
Restart ==
    /\ pc = "closed"
    /\ budget.crashes > 0
    /\ budget' = [budget EXCEPT !.crashes = @ - 1]
    /\ pc' = "recover" /\ rc' = "done"
    /\ edge' = NoEdge /\ retry' = NoRetry
    /\ command' = [h \in Calls |-> "none"] /\ late' = {}
    /\ batch' = NoBatch /\ closing' = NoClosing
    /\ UNCHANGED <<vars, kept, refused>>

Recovering == pc = "recover" /\ activeCompact = NoCompact /\ ~responseOpen

RecoverCompaction ==
    /\ pc = "recover"
    /\ activeCompact # NoCompact
    /\ CommitOr("compaction_interrupted", activeCompact # NoCompact, CompactionInterrupted,
                Goto("recover") /\ UNCHANGED <<hostVars, workVars>>, "closed", rc)

RecoverResponse ==
    /\ pc = "recover"
    /\ activeCompact = NoCompact /\ responseOpen
    /\ CommitOr("response_interrupted",
                InterruptFits("interrupted"), ResponseInterrupted("interrupted"),
                Goto("recover") /\ UNCHANGED <<hostVars, workVars>>, "closed", rc)

RecoverNothing ==
    /\ Recovering /\ ~activeTurn
    /\ Quietly("chain")
    /\ UNCHANGED hostVars

\* MUTANT of BudgetExhausted: the attempts of the other process do not count.
BudgetNeverExhausted == FALSE

BudgetExhausted == ~kept.policy /\ ~GoalActive /\ kept.attempts > MaxRetries

\* The turn had its answer: only its last event was lost.
Answered ==
    /\ responseComplete /\ outcome \in {"final", "refusal"}
    /\ processes = {} /\ ~SteeringAdmitted

RecoverAnswered ==
    /\ Recovering /\ activeTurn
    /\ ~kept.cancel /\ ~handoff /\ ~BudgetExhausted
    /\ Answered
    /\ CommitOr("turn_completed", AnsweredTurn, TurnCompleted,
                /\ kept' = NoneKept
                /\ Goto(IF outcome = "refusal" THEN "pause" ELSE "chain")
                /\ UNCHANGED <<edge, retry, workVars>>, "closed", rc)

Unanswered == kept.cancel \/ handoff \/ BudgetExhausted \/ ~Answered

\* No call is run again: what had started has an unknown outcome.
RecoverCall(c) ==
    /\ Recovering /\ activeTurn /\ Unanswered
    /\ Terminalize(c, FALSE, "closed")

\* MUTANT of RecoverTurn: a durable cancellation is forgotten by a restart.
RecoverTurnForgettingCancel ==
    /\ Recovering /\ activeTurn /\ Unanswered
    /\ AllFinished
    /\ IF handoff \/ BudgetExhausted THEN BeginClosing("turn_failed", "chain", "done", "broken")
       ELSE BeginClosing("turn_recovery", IF kept.policy THEN "pause" ELSE "chain",
                         "done", "broken")

RecoverTurn ==
    /\ Recovering /\ activeTurn /\ Unanswered
    /\ AllFinished
    /\ IF kept.cancel THEN InterruptTurn("pause", "done", "broken")
       ELSE IF handoff \/ BudgetExhausted
            THEN BeginClosing("turn_failed", "chain", "done", "broken")
       ELSE BeginClosing("turn_recovery", IF kept.policy THEN "pause" ELSE "chain",
                         "done", "broken")

LoopNext ==
    \/ ReturnedPauses \/ ReturnedAwaitsClarification \/ ReturnedFinishes \/ ReturnedRetries
    \/ BackoffControlled \/ BackoffHolds \/ BackoffInterrupted \/ BackoffLosesGoal
    \/ BackoffClarified \/ BackoffEnds
    \/ \E c \in Calls : ReconcileCall(c)
    \/ ReconcileResponse \/ ReconcileEnds \/ ReconcileAgain
    \/ FinishPauses \/ FinishEnds \/ LeaveTracked \/ PauseAfter
    \/ ChainControlled \/ ChainPrompt \/ ChainTurn \/ ChainGoal \/ ChainRests
    \/ \E c \in Calls : CancelKeptCall(c)
    \/ CancelKeptEnds
    \/ RecoverCompaction \/ RecoverResponse \/ RecoverNothing \/ RecoverAnswered
    \/ \E c \in Calls : RecoverCall(c)
    \/ RecoverTurn
=============================================================================
