------------------------------ MODULE TurnCycle ------------------------------
(***************************************************************************)
(* run_turn: a turn is a loop of request, response and what the response   *)
(* asks for.  Each pass admits the input that is pending, prepares a       *)
(* request (with a compaction of the context where it does not fit), runs  *)
(* the provider, and acts on the outcome.                                  *)
(***************************************************************************)
EXTENDS TurnCalls

\* MUTANT of NothingWaits: a Ctrl-C is not looked at.
NothingWaitsIgnoringInterrupt == ~PumpStops

NothingWaits == ~edge.interrupt /\ ~PumpStops

\* The prompt is the accepted one, the goal's continuation, or the same text again
\* when its turn has ended.
NextPrompt ==
    IF pendingInput # NoInput THEN pendingInput
    ELSE [origin |-> retry.kind, readOnly |-> FALSE, model |-> defaultModel]

\* turn_started, unless the turn is continued.
BeginTurn ==
    /\ pc = "begin"
    /\ ~activeTurn /\ turnCount < MaxTurns
    /\ Commit("turn_started",
              TurnMayStart(NextPrompt.origin, NextPrompt.readOnly, NextPrompt.model),
              TurnStarted(NextPrompt.origin, NextPrompt.readOnly, NextPrompt.model),
              /\ kept' = NoneKept
              /\ retry' = [retry EXCEPT !.pending = FALSE, !.fallback = FALSE, !.compacted = FALSE]
              /\ Goto("cycle")
              /\ UNCHANGED <<edge, workVars>>)

ContinueTurn ==
    /\ pc = "begin"
    /\ activeTurn
    /\ retry' = [retry EXCEPT !.pending = FALSE, !.fallback = FALSE, !.compacted = FALSE]
    /\ Quietly("cycle")
    /\ UNCHANGED <<edge, kept>>

\* apply_controls waits until no response is open and no call is pending; a
\* control may leave the session (exit_now).
ControlsReady == edge.control /\ ~responseOpen /\ ~HasPending
ApplyControls ==
    IF ControlsReady
    THEN \E leaves \in BOOLEAN :
            edge' = [edge EXCEPT !.control = FALSE, !.steering = @ /\ activeTurn,
                                 !.interrupt = @ \/ leaves, !.closed = @ \/ leaves]
    ELSE UNCHANGED edge

StartCycle ==
    /\ pc = "cycle"
    /\ cycle < MaxCycles
    /\ ApplyControls
    /\ Quietly("top")
    /\ UNCHANGED <<retry, kept>>

\* The counter of cycles is exhausted; MaxCycles stands for UINT_MAX.
CycleExhausted ==
    /\ pc = "cycle"
    /\ cycle = MaxCycles
    /\ FailTurn("returned", "failed", "broken")

LeaveCycle ==
    /\ pc = "top"
    /\ edge.closed
    /\ Return("done")
    /\ UNCHANGED <<vars, hostVars, workVars, refused, budget>>

InterruptCycle ==
    /\ pc = "top"
    /\ edge.interrupt /\ ~edge.closed
    /\ InterruptTurn("returned", "failed", "broken")

\* selected_new_model: the turn follows the default selection, except that a
\* fallback lasts for the one call it was started for.
SelectedNewModel ==
    /\ ~fallbackActive \/ edge.model \/ ~retry.fallback
    /\ fallbackActive \/ turnModel # defaultModel

SelectModel ==
    /\ pc = "top"
    /\ ~edge.interrupt
    /\ LET then == edge' = [edge EXCEPT !.model = FALSE] /\ Goto("admit")
                   /\ UNCHANGED <<retry, kept, workVars>>
       IN IF SelectedNewModel THEN Commit("turn_model_changed", ModelMayChange, TurnModelChanged, then)
          ELSE then /\ UNCHANGED <<vars, refused, budget>>

\* admit_input: all steering not shown to the model yet, unless it is deferred.
Admissible == IF kept.deferred THEN {} ELSE {i \in Inputs : steering[i] = "pending"}

AdmitInput ==
    /\ pc = "admit"
    /\ LET then == edge' = [edge EXCEPT !.steering = @ /\ kept.deferred] /\ Goto("prepare")
                   /\ UNCHANGED <<retry, kept, workVars>>
       IN IF ~inputAdmitted \/ Admissible # {}
          THEN Commit("input_admitted", AdmissionFits(Admissible), InputAdmitted(Admissible), then)
          ELSE then /\ UNCHANGED <<vars, refused, budget>>

\* steered_before_response: the request is rebuilt.
PrepareSteered ==
    /\ pc = "prepare"
    /\ PumpStops
    /\ edge' = [edge EXCEPT !.steering = FALSE]
    /\ Quietly("cycle")
    /\ UNCHANGED <<retry, kept>>

PrepareInterrupted ==
    /\ pc = "prepare"
    /\ edge.interrupt
    /\ InterruptTurn("returned", "failed", "broken")

\* A process that is leaves after the request is built keeps the turn as it is.
PrepareLeaves ==
    /\ pc = "prepare"
    /\ edge.closed
    /\ Return("done")
    /\ UNCHANGED <<vars, hostVars, workVars, refused, budget>>

\* The request cannot be built or counted, whatever else waits.
PrepareFails ==
    /\ pc = "prepare"
    /\ ~edge.interrupt
    /\ FailTurn("returned", "failed", "broken")

\* One compaction for one request
CompactRequest(src) ==
    /\ pc = "prepare"
    /\ NothingWaits
    /\ ~retry.compacted
    /\ src > compactSeq
    /\ Commit("compaction_started",
              CompactionMayStart(src, FALSE, NoId), CompactionStarted(src, FALSE, NoId),
              Goto("compacting") /\ UNCHANGED <<hostVars, workVars>>)

CompactFinishes ==
    /\ pc = "compacting"
    /\ NothingWaits
    /\ Commit("compaction_completed", SummaryFits(NoId), CompactionCompleted(NoId),
              /\ retry' = [retry EXCEPT !.compacted = TRUE]
              /\ Goto("cycle")
              /\ UNCHANGED <<edge, kept, workVars>>)

\* What cut the compaction off is seen in "prepare"; a failure fails the turn.
CompactStops ==
    /\ pc = "compacting"
    /\ Commit("compaction_interrupted", activeCompact # NoCompact, CompactionInterrupted,
              /\ IF NothingWaits THEN pc' = "failing" /\ rc' = "failed" ELSE Goto("prepare")
              /\ UNCHANGED <<hostVars, workVars>>)

\* Steering that was shown is consumed; snag_app_reset_stream clears the edges.
StartResponse ==
    /\ pc = "prepare"
    /\ NothingWaits
    /\ Commit("response_started", RequestFits(ircReceived), ResponseStarted(ircReceived),
              /\ edge' = [edge EXCEPT !.steering = FALSE, !.interrupt = FALSE]
              /\ retry' = [retry EXCEPT !.fallback = FALSE]
              /\ Goto("provider")
              /\ UNCHANGED <<kept, workVars>>)

\* What the terminal is told of the request cannot be rendered (output_fail): the
\* response stays open.
RenderFails ==
    /\ pc = "provider"
    /\ budget.faults > 0
    /\ budget' = [budget EXCEPT !.faults = @ - 1]
    /\ Return("broken")
    /\ UNCHANGED <<vars, hostVars, workVars, refused>>

\* The provider was cut off: steering and controls rebuild the request.
CutResponse(end, where) ==
    Commit("response_interrupted", InterruptFits(end), ResponseInterrupted(end),
           Goto(where) /\ UNCHANGED <<hostVars, workVars>>)

ResponseSteered     == pc = "provider" /\ edge.steering /\ CutResponse("steered", "cycle")
ResponseControlled  ==
    /\ \/ pc = "provider" /\ (edge.control \/ edge.model) /\ ~edge.steering /\ ~edge.interrupt
       \/ pc = "late" /\ edge.control /\ ~edge.interrupt
    /\ CutResponse("none", "cycle")
ResponseCancelled   ==
    /\ pc \in {"provider", "late"}
    /\ edge.interrupt
    /\ CutResponse("interrupted", "interrupting")

CancelTurn == pc = "interrupting" /\ InterruptTurn("returned", "failed", "broken")

\* The model is told what was wrong with its output and asked again.
CorrectOutput(i, cyber) ==
    /\ pc = "provider" /\ NothingWaits
    /\ ~UserIdPending(i)
    /\ ~cyber => ~corrected
    /\ Commit("response_output_correction",
              CorrectionFits(i, cyber), ResponseOutputCorrection(i, cyber),
              Goto("cycle") /\ UNCHANGED <<hostVars, workVars>>)

RejectCapacity ==
    /\ pc = "provider" /\ NothingWaits
    /\ Commit("response_capacity_rejected", responseOpen, ResponseCapacityRejected,
              Goto("cycle") /\ UNCHANGED <<hostVars, workVars>>)

\* record_response_failure
FailureKept(policy) == [kept EXCEPT !.attempts = retry.attempts + 1, !.policy = policy]

\* start_turn_fallback: the failure, then the other model for one more call.  What
\* may wait is steering: after a failure the terminal is looked at once more.
TryFallback ==
    /\ pc = "provider"
    /\ ~fallbackActive
    /\ ~edge.interrupt /\ ~edge.closed /\ ~edge.model /\ ~edge.control
    /\ Commit("response_failed", responseOpen, ResponseFailed(FALSE),
              /\ kept' = FailureKept(retry.policy)
              /\ Goto("fallback")
              /\ UNCHANGED <<edge, retry, workVars>>)

StartFallback ==
    /\ pc = "fallback"
    /\ Commit("turn_fallback_started",
              FallbackMayStart, \E m \in Models : TurnFallbackStarted(m),
              /\ retry' = [retry EXCEPT !.fallback = TRUE]
              /\ Goto("cycle")
              /\ UNCHANGED <<edge, kept, workVars>>)

\* The failures the loop tells apart: "policy" stops retries, "newInput" hands
\* the turn to input that waits, "repeat" is the same rejection again, "output"
\* could not be delivered, "plain" is every other.
FailureKinds == {"plain", "output", "policy", "newInput", "repeat"}

RetryAfter(kind) ==
    IF kind = "policy" THEN [retry EXCEPT !.policy = TRUE]
    ELSE IF kind \in {"newInput", "repeat"} /\ ~GoalActive
         THEN [retry EXCEPT !.limit = retry.attempts] ELSE retry

\* A failed stream or provider fails the response whatever else waits, and a graph
\* the driver cannot classify is a plain failure of the late response.  What stops
\* or limits the retries is set before the failure is written.
FailResponse(kind) ==
    /\ \/ pc = "provider"
       \/ pc = "late" /\ kind = "plain" /\ ~edge.interrupt /\ ~edge.control
    /\ retry' = RetryAfter(kind)
    /\ \/ /\ ResponseFailed(kind = "newInput")
          /\ kept' = FailureKept(kind = "policy")
          /\ pc' = "failing"
          /\ rc' = (CASE kind = "newInput" -> "ready" [] kind = "output" -> "broken"
                      [] OTHER -> "failed")
          /\ UNCHANGED <<edge, workVars, refused, budget>>
       \/ /\ Unwritten("response_failed", responseOpen)
          /\ Return("broken")
          /\ UNCHANGED <<vars, edge, kept, workVars>>

Failing == pc = "failing" /\ FailTurn("returned", rc, "broken")

ProviderReturns ==
    /\ pc = "provider" /\ NothingWaits
    /\ Quietly("late")
    /\ UNCHANGED hostVars

\* Steering that came after the provider returned does not cut a complete
\* response off; response_completed also moves the durable count of attempts.
CompleteResponse(graph, end) ==
    /\ pc = "late"
    /\ ~edge.interrupt /\ ~edge.control
    /\ Commit("response_completed", CompletionFits(graph, end), ResponseCompleted(graph, end),
              /\ kept' = [kept EXCEPT !.attempts = IF end \in {"calls", "final"} THEN 0
                                                   ELSE IF end = "refusal" THEN @ ELSE @ + 1,
                                      !.policy = @ \/ end = "refusal"]
              /\ retry' = [retry EXCEPT !.compacted = FALSE]
              /\ Goto("settle")
              /\ UNCHANGED <<edge, workVars>>)
-----------------------------------------------------------------------------
\* What a complete response asks for, in the order the loop looks.
SettleConflict(c) ==
    /\ pc = "settle" /\ outcome = "conflict"
    /\ Terminalize(c, FALSE, "returned")

SettleConflicted ==
    /\ pc = "settle" /\ outcome = "conflict"
    /\ AllFinished
    /\ pc' = "failing" /\ rc' = "failed"
    /\ UNCHANGED <<vars, hostVars, workVars, refused, budget>>

\* MUTANT of LateSteering: the answer stands, whatever came after it.
LateSteeringIgnored == FALSE

LateSteering == SteeringPending /\ ~kept.deferred

SettleSteered ==
    /\ pc = "settle" /\ outcome \notin {"calls", "conflict"}
    /\ LateSteering
    /\ edge' = [edge EXCEPT !.steering = FALSE]
    /\ Quietly("cycle")
    /\ UNCHANGED <<retry, kept>>

Settling == pc = "settle" /\ ~LateSteering

SettleRefuses ==
    /\ Settling /\ outcome = "refusal"
    /\ ~retry.policy
    /\ retry' = [retry EXCEPT !.policy = TRUE]
    /\ Quietly("settle")
    /\ UNCHANGED <<edge, kept>>

\* A final answer while commands run waits for them or for the operator, unless
\* one has a result already.
SomeReady == \E h \in processes : Ready(h)

SettleWaits ==
    /\ Settling /\ outcome = "final"
    /\ processes # {} /\ ~SomeReady
    /\ Quietly("waiting")
    /\ UNCHANGED hostVars

SettleUnsettled ==
    /\ Settling
    /\ processes # {}
    /\ \/ outcome = "final" /\ SomeReady
       \/ outcome = "nonproductive"
       \/ outcome = "refusal" /\ retry.policy
    /\ FailTurn("returned", "failed", "failed")

SettleCompletes ==
    /\ Settling
    /\ outcome = "final" \/ (outcome = "refusal" /\ retry.policy)
    /\ processes = {}
    /\ Commit("turn_completed", AnsweredTurn, TurnCompleted,
              /\ retry' = IF outcome = "final" THEN [retry EXCEPT !.attempts = 0] ELSE retry
              /\ kept' = NoneKept
              /\ Return("done")
              /\ UNCHANGED <<edge, workVars>>)

SettleNonproductive ==
    /\ Settling /\ outcome = "nonproductive"
    /\ processes = {}
    /\ FailTurn("returned", "failed", "broken")

SettleCalls ==
    /\ pc = "settle" /\ outcome = "calls"
    /\ retry' = [retry EXCEPT !.attempts = 0]
    /\ BatchStart
    /\ UNCHANGED <<vars, rc, edge, kept, command, late, closing, refused, budget>>

\* wait_for_command_or_input
WaitControlled ==
    /\ pc = "waiting"
    /\ edge.control
    /\ ApplyControls
    /\ Quietly("waiting")
    /\ UNCHANGED <<retry, kept>>

WaitEnds ==
    /\ pc = "waiting"
    /\ IF edge.interrupt THEN Quietly("interrupting")
       ELSE (edge.steering \/ SomeReady \/ "yield" \in InputKinds) /\ Quietly("cycle")
    /\ UNCHANGED hostVars

CycleNext ==
    \/ BeginTurn \/ ContinueTurn \/ StartCycle \/ CycleExhausted \/ LeaveCycle
    \/ InterruptCycle \/ SelectModel \/ AdmitInput
    \/ PrepareSteered \/ PrepareInterrupted \/ PrepareLeaves \/ PrepareFails
    \/ \E src \in 1..turnCount : CompactRequest(src)
    \/ CompactFinishes \/ CompactStops \/ StartResponse \/ RenderFails
    \/ ResponseSteered \/ ResponseControlled \/ ResponseCancelled \/ CancelTurn
    \/ \E i \in Inputs, cyber \in BOOLEAN : CorrectOutput(i, cyber)
    \/ RejectCapacity \/ TryFallback \/ StartFallback
    \/ \E kind \in FailureKinds : FailResponse(kind)
    \/ Failing \/ ProviderReturns
    \/ \E graph \in Graphs, end \in Outcomes :
          /\ end \in GraphOutcomes(\E c \in Calls : graph[c] # NoCall)
          /\ CompleteResponse(graph, end)
    \/ \E c \in Calls : SettleConflict(c)
    \/ SettleConflicted \/ SettleSteered \/ SettleRefuses \/ SettleWaits
    \/ SettleUnsettled \/ SettleCompletes \/ SettleNonproductive \/ SettleCalls
    \/ WaitControlled \/ WaitEnds
=============================================================================
