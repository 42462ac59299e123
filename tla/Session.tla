------------------------------ MODULE Session ------------------------------
(***************************************************************************)
(* The event reducer of one session, as a state machine: a step is one     *)
(* durable event that apply_event admits.  An event it refuses changes     *)
(* nothing, because the caller adopts the staged state only on success.    *)
(* The properties below are what every driver of a session relies on,      *)
(* whatever order terminals, rooms, timers, the provider and the tool      *)
(* runner deliver their events in.                                         *)
(***************************************************************************)
EXTENDS SessionInput, SessionTurn, SessionResponse, SessionTools,
        SessionGoals, SessionContext

\* Once deletion is requested every further transition is refused.
Next ==
    /\ ~deleteRequested
    /\ \/ InputNext
       \/ TurnNext
       \/ ResponseNext
       \/ ToolsNext
       \/ GoalsNext
       \/ ContextNext

Spec == Init /\ [][Next]_vars
-----------------------------------------------------------------------------
\* Between turns nothing of the last one is left: no open response, no call, no
\* running command, and no steering the ended turn had already shown the model
\* (store.c: "admitted steering may never cross a turn boundary").
IdleIsSettled ==
    ~activeTurn =>
        /\ ~responseOpen /\ ~responseComplete /\ terminal = "none"
        /\ ~HasPending
        /\ processes = {}
        /\ ~SteeringAdmitted

\* Every call the session still owes a result can be given one: its response is
\* complete and closed, and a command it started or writes to is still known.
\* Otherwise no event could ever end the turn.
CallsCanSettle ==
    \A c \in Calls : Unfinished(c) =>
        /\ activeTurn /\ responseComplete /\ ~responseOpen
        /\ Running(c) /\ pendingCalls[c].handle # NoId =>
              pendingCalls[c].handle \in processes

\* Two calls in flight never act on one command, so a result always belongs to
\* the call it is recorded for.
OneCallPerHandle ==
    \A c, d \in Calls :
        Running(c) /\ Running(d) /\ pendingCalls[c].handle # NoId
                   /\ pendingCalls[c].handle = pendingCalls[d].handle => c = d

\* A response cut off for steering always has the steering that replaces it, so
\* the next response can start and the turn does not hang.
SteeredHasSteering == terminal = "steered" => SteeringPending

\* A read-only turn runs nothing but read-only tools and owns no command: the
\* permissions it started with hold for every call of it (tool_started).
ReadOnlyTurnIsInert ==
    activeTurn /\ readOnly =>
        /\ processes = {}
        /\ \A c \in Calls : Running(c) => ReadOnlyTool(pendingCalls[c].tool)

\* A response runs to its end on the model the turn has selected: no selection,
\* fallback or model change lands between its start and its end.
OpenResponseKeepsModel == responseOpen => responseModel = turnModel

\* The room watermark: nothing is consumed that was not received.
ConsumedWasReceived == ircConsumed <= ircReceived /\ responseIrc <= ircReceived

\* What the properties above rest on: a handle fits its tool, and calls are held
\* only by the complete, closed response of an active turn.
CallShape ==
    \A c \in Calls :
        /\ pendingCalls[c].tool = "exec_command" => pendingCalls[c].handle = c
        /\ pendingCalls[c].tool = "write_stdin" => pendingCalls[c].handle \in Calls \cup {NoId}
        /\ pendingCalls[c].tool \notin {"exec_command", "write_stdin"} =>
              pendingCalls[c].handle = NoId

CallsAreOfCompleteResponse ==
    /\ responseComplete => activeTurn /\ ~responseOpen /\ terminal = "none"
    /\ HasPending => responseComplete

\* The inductive invariant of SessionProofs.
SessionInv ==
    /\ TypeOK /\ CallShape /\ CallsAreOfCompleteResponse
    /\ IdleIsSettled /\ CallsCanSettle /\ OneCallPerHandle
    /\ SteeredHasSteering /\ ReadOnlyTurnIsInert /\ OpenResponseKeepsModel
    /\ ConsumedWasReceived

\* Calls are forgotten only when all of them have their results: a step that
\* drops a call leaves no other call of that response unfinished, and drops an
\* unfinished one only by recording its result inside the same turn.
NoResultDropped ==
    [][\A c, d \in Calls :
          /\ Pending(c) /\ pendingCalls'[c] = NoCall
          /\ Unfinished(d)
          => /\ activeTurn' /\ ~responseOpen'
             /\ \A e \in Calls \ {d} : ~Unfinished(e)]_vars

\* Accepted steering is never lost: it leaves by being shown to the model in a
\* response that starts, or with a turn that was interrupted or failed.
SteeringIsHonoured ==
    [][\A i \in Inputs : steering[i] # "none" /\ steering'[i] = "none" =>
          \/ steering[i] = "admitted" /\ ~responseOpen /\ responseOpen'
          \/ TurnInterrupted
          \/ TurnFailed]_vars

\* A prompt accepted for the next turn becomes that turn, with its own model and
\* permissions, or is cancelled; no queued or goal turn overtakes it.
AcceptedPromptIsHonoured ==
    [][pendingInput # NoInput /\ pendingInput' # pendingInput =>
          /\ pendingInput' = NoInput
          /\ \/ ~activeTurn' /\ ~queueArmed'
             \/ /\ activeTurn' /\ activeKind' = "direct"
                /\ readOnly' = pendingInput.readOnly
                /\ turnModel' = pendingInput.model]_vars

\* A finished goal stays finished under its identity: it is never resumed,
\* replaced or started again.
FinishedGoalStaysFinished ==
    [][\A g \in Goals : goals[g].status \in {"completed", "cancelled"} =>
          goals'[g] = goals[g]]_vars
=============================================================================
