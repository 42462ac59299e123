--------------------------- MODULE SessionResponse ---------------------------
(***************************************************************************)
(* Events of one provider response: it is started, corrected, interrupted, *)
(* failed, rejected for capacity or completed with a graph of items.       *)
(***************************************************************************)
EXTENDS SessionState

OutsideVars == <<modelVars, processes, pendingInput, queueVars, compactVars,
                 goals, deleteRequested>>

\* state_allows_start.  A response that completed may be followed only by one
\* that brings something new to it: steering, or commands a final answer left.
ResponseMayStart ==
    /\ activeTurn
    /\ ~responseOpen
    /\ terminal \notin {"failed", "interrupted"}
    /\ terminal = "steered" => SteeringPending
    /\ responseComplete =>
          /\ SteeringPending \/ (processes # {} /\ outcome = "final")
          /\ AllFinished
          /\ outcome # "conflict"

\* What starting a response does: it is open and empty, on the turn's model,
\* with this room watermark, and consumes this steering.
OpenResponse(irc, consumed) ==
    /\ cycle < MaxCycles /\ ResponseMayStart
    /\ responseOpen' = TRUE
    /\ responseComplete' = FALSE
    /\ handoff' = FALSE
    /\ terminal' = "none"
    /\ pendingCalls' = [c \in Calls |-> NoCall]
    /\ responseModel' = turnModel
    /\ cycle' = cycle + 1
    /\ steering' = [i \in Inputs |-> IF i \in consumed THEN "none" ELSE steering[i]]
    /\ responseIrc' = irc
    /\ UNCHANGED <<turnVars, outcome, ircReceived, ircConsumed, OutsideVars>>

AdmittedInputs == {i \in Inputs : steering[i] = "admitted"}

\* MUTANT of ResponseStarted: steering that the request lacks is consumed too.
ResponseStartedConsumingAll(irc) ==
    irc <= ircReceived /\ OpenResponse(irc, Inputs)

\* MUTANT of ResponseStarted: the watermark is not checked.
ResponseStartedAnyWatermark(irc) == OpenResponse(irc, AdmittedInputs)

\* The request carries the admitted steering, all of it, and consumes it; it
\* shows the room up to event irc.
ResponseStarted(irc) ==
    irc <= ircReceived /\ OpenResponse(irc, AdmittedInputs)

\* What response_started is refused without.
RequestFits(irc) == cycle < MaxCycles /\ ResponseMayStart /\ irc <= ircReceived

ResponseCapacityRejected ==
    /\ responseOpen
    /\ ClearResponse
    /\ UNCHANGED <<turnVars, attemptVars, steering, ircVars, OutsideVars>>

CorrectionFits(i, cyber) == responseOpen /\ (~cyber => ~corrected) /\ ~UserIdPending(i)

\* An empty or oversized output is corrected once in a turn, a policy
\* clarification (cyber) without limit; the correction is pending steering.
ResponseOutputCorrection(i, cyber) ==
    /\ CorrectionFits(i, cyber)
    /\ steering' = [steering EXCEPT ![i] = "pending"]
    /\ ClearResponse
    /\ corrected' = (corrected \/ ~cyber)
    /\ UNCHANGED <<activeTurn, turnCount, activeKind, readOnly, inputAdmitted,
                   reminded, attemptVars, ircVars, OutsideVars>>

\* The terminal response_interrupted leaves: "steered" wants pending steering.
InterruptTerminals == {"steered", "none", "interrupted"}

\* MUTANT of ResponseInterrupted: nothing has to be pending to steer.
ResponseInterruptedFreely(end) ==
    /\ responseOpen
    /\ responseOpen' = FALSE
    /\ responseComplete' = FALSE
    /\ terminal' = end
    /\ UNCHANGED <<turnVars, handoff, responseModel, pendingCalls, attemptVars,
                   steering, ircVars, OutsideVars>>

InterruptFits(end) == responseOpen /\ (end = "steered" => SteeringPending)

ResponseInterrupted(end) ==
    /\ InterruptFits(end)
    /\ responseOpen' = FALSE
    /\ responseComplete' = FALSE
    /\ terminal' = end
    /\ UNCHANGED <<turnVars, handoff, responseModel, pendingCalls, attemptVars,
                   steering, ircVars, OutsideVars>>

ResponseFailed(newInput) ==
    /\ responseOpen
    /\ responseOpen' = FALSE
    /\ responseComplete' = FALSE
    /\ terminal' = "failed"
    /\ handoff' = newInput
    /\ UNCHANGED <<turnVars, responseModel, pendingCalls, attemptVars, steering,
                   ircVars, OutsideVars>>

\* snag_response_graph_classify: which outcomes a graph with these calls has.
GraphOutcomes(withCalls) ==
    IF withCalls THEN {"calls", "conflict"}
    ELSE {"final", "refusal", "nonproductive", "conflict"}

\* Every set of calls a graph can propose; an exec_command owns the handle that
\* is its own identity.
ProposedCalls ==
    {graph \in [Calls -> {NoCall}
                    \cup {ExecCall(c) : c \in Calls}
                    \cup {WriteCall(h) : h \in Calls \cup {NoId}}
                    \cup {PlainCall(tool) : tool \in {"read_file", "edit_file"}}] :
        \A c \in Calls : graph[c].tool = "exec_command" => graph[c].handle = c}

CompletionFits(graph, end) ==
    responseOpen /\ end \in GraphOutcomes(\E c \in Calls : graph[c] # NoCall)

ResponseCompleted(graph, end) ==
    /\ CompletionFits(graph, end)
    /\ responseOpen' = FALSE
    /\ responseComplete' = TRUE
    /\ terminal' = "none"
    /\ outcome' = end
    /\ pendingCalls' = graph
    /\ ircConsumed' = IF responseIrc > ircConsumed THEN responseIrc ELSE ircConsumed
    /\ UNCHANGED <<turnVars, handoff, responseModel, cycle, steering,
                   ircReceived, responseIrc, OutsideVars>>

ResponseNext ==
    \/ \E irc \in 0..MaxIrc : ResponseStarted(irc)
    \/ ResponseCapacityRejected
    \/ \E i \in Inputs, cyber \in BOOLEAN : ResponseOutputCorrection(i, cyber)
    \/ \E end \in InterruptTerminals : ResponseInterrupted(end)
    \/ \E newInput \in BOOLEAN : ResponseFailed(newInput)
    \/ \E graph \in ProposedCalls, end \in Outcomes : ResponseCompleted(graph, end)
=============================================================================
