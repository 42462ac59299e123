---------------------------- MODULE DriverProofs ----------------------------
(***************************************************************************)
(* Proofs about the turn driver, for every set of inputs, calls, goals and *)
(* models, every configuration and every bound: what it commits is a       *)
(* behaviour of the session's reducer, whatever the operator, its          *)
(* commands, the provider and restarts do, so that everything proved of    *)
(* the reducer holds while it is driven; no command is unknown to the      *)
(* session; no turn completes over text it has not shown to the model; a   *)
(* turn whose cancellation is durable asks for nothing more; and nothing   *)
(* the driver commits is refused, until it was refused the closing of a    *)
(* command or an event could not be written.                               *)
(***************************************************************************)
EXTENDS TurnDriver, SessionProofs

\* The events a step of the driver commits, by the module that reduces them.
InputEmitted ==
    \/ \E i \in Inputs : SteeringAdded(i)
    \/ InputAdmitted(Admissible)
    \/ InputReceived("direct", FALSE, defaultModel)
    \/ InputCancelled

TurnEmitted ==
    \/ /\ pendingInput # NoInput
       /\ TurnStarted(pendingInput.origin, pendingInput.readOnly, pendingInput.model)
    \/ \E kind \in {"direct", "goal"} : TurnStarted(kind, FALSE, defaultModel)
    \/ TurnCancelRequested \/ TurnRecovery
    \/ TurnCompleted \/ TurnInterrupted \/ TurnFailed
    \/ \E m \in Models : TurnFallbackStarted(m) \/ ModelSelectionChanged(m)
    \/ TurnModelChanged

ResponseEmitted ==
    \/ ResponseStarted(ircReceived)
    \/ ResponseCapacityRejected
    \/ \E i \in Inputs, cyber \in BOOLEAN : ResponseOutputCorrection(i, cyber)
    \/ \E end \in InterruptTerminals : ResponseInterrupted(end)
    \/ \E newInput \in BOOLEAN : ResponseFailed(newInput)
    \/ \E graph \in Graphs, end \in Outcomes : ResponseCompleted(graph, end)

ToolsEmitted ==
    \/ \E c \in Calls : ToolStarted(c)
    \/ \E c \in Calls, status \in Statuses : ToolFinished(c, status)
    \/ \E h \in Calls \cup {NoId} : ProcessClosed(h)

GoalsEmitted ==
    \E g \in Goals : GoalStarted(g) \/ GoalPaused(g) \/ GoalResumed(g)
                     \/ GoalCompleted(g, "user")

ContextEmitted ==
    \/ \E src \in 1..turnCount : CompactionStarted(src, FALSE, NoId)
    \/ CompactionInterrupted
    \/ CompactionCompleted(NoId)

Emitted == InputEmitted \/ TurnEmitted \/ ResponseEmitted \/ ToolsEmitted
           \/ GoalsEmitted \/ ContextEmitted

\* Each step of run_turn commits one of these events or nothing.
LEMMA CycleEmits == HostTypes /\ CycleNext => Emitted \/ UNCHANGED vars
<1> SUFFICES ASSUME HostTypes, CycleNext PROVE Emitted \/ UNCHANGED vars
  OBVIOUS
<1>1. ASSUME BeginTurn
      PROVE  TurnEmitted \/ UNCHANGED vars
  BY <1>1 DEF BeginTurn, Commit, CommitOr, Unwritten, TurnEmitted, HostTypes, Retries,
     NextPrompt
<1>2. ASSUME ContinueTurn
      PROVE  UNCHANGED vars
  BY <1>2 DEF ContinueTurn, Quietly
<1>3. ASSUME StartCycle
      PROVE  UNCHANGED vars
  BY <1>3 DEF StartCycle, Quietly
<1>4. ASSUME CycleExhausted
      PROVE  TurnEmitted \/ UNCHANGED vars
  BY <1>4 DEF CycleExhausted, FailTurn, CommitOr, Unwritten, BeginClosing, TurnEmitted
<1>5. ASSUME LeaveCycle
      PROVE  UNCHANGED vars
  BY <1>5 DEF LeaveCycle
<1>6. ASSUME InterruptCycle
      PROVE  UNCHANGED vars
  BY <1>6 DEF InterruptCycle, InterruptTurn, BeginClosing
<1>7. ASSUME SelectModel
      PROVE  TurnEmitted \/ UNCHANGED vars
  BY <1>7 DEF SelectModel, Commit, CommitOr, Unwritten, TurnEmitted
<1>8. ASSUME AdmitInput
      PROVE  InputEmitted \/ UNCHANGED vars
  BY <1>8 DEF AdmitInput, Commit, CommitOr, Unwritten, InputEmitted
<1>9. ASSUME PrepareSteered
      PROVE  UNCHANGED vars
  BY <1>9 DEF PrepareSteered, Quietly
<1>10. ASSUME PrepareInterrupted
      PROVE  UNCHANGED vars
  BY <1>10 DEF PrepareInterrupted, InterruptTurn, BeginClosing
<1>11. ASSUME PrepareLeaves
      PROVE  UNCHANGED vars
  BY <1>11 DEF PrepareLeaves
<1>12. ASSUME PrepareFails
      PROVE  TurnEmitted \/ UNCHANGED vars
  BY <1>12 DEF PrepareFails, FailTurn, CommitOr, Unwritten, BeginClosing, TurnEmitted
<1>13. ASSUME NEW src \in 1..turnCount, CompactRequest(src)
      PROVE  ContextEmitted \/ UNCHANGED vars
  BY <1>13 DEF CompactRequest, Commit, CommitOr, Unwritten, ContextEmitted
<1>14. ASSUME CompactFinishes
      PROVE  ContextEmitted \/ UNCHANGED vars
  BY <1>14 DEF CompactFinishes, Commit, CommitOr, Unwritten, ContextEmitted
<1>15. ASSUME CompactStops
      PROVE  ContextEmitted \/ UNCHANGED vars
  BY <1>15 DEF CompactStops, Commit, CommitOr, Unwritten, ContextEmitted
<1>16. ASSUME StartResponse
      PROVE  ResponseEmitted \/ UNCHANGED vars
  BY <1>16 DEF StartResponse, Commit, CommitOr, Unwritten, ResponseEmitted
<1>17. ASSUME RenderFails
      PROVE  UNCHANGED vars
  BY <1>17 DEF RenderFails
<1>18. ASSUME ResponseSteered
      PROVE  ResponseEmitted \/ UNCHANGED vars
  BY <1>18 DEF ResponseSteered, CutResponse, Commit, CommitOr, Unwritten, ResponseEmitted,
     InterruptTerminals
<1>19. ASSUME ResponseControlled
      PROVE  ResponseEmitted \/ UNCHANGED vars
  BY <1>19 DEF ResponseControlled, CutResponse, Commit, CommitOr, Unwritten, ResponseEmitted,
     InterruptTerminals
<1>20. ASSUME ResponseCancelled
      PROVE  ResponseEmitted \/ UNCHANGED vars
  BY <1>20 DEF ResponseCancelled, CutResponse, Commit, CommitOr, Unwritten, ResponseEmitted,
     InterruptTerminals
<1>21. ASSUME CancelTurn
      PROVE  UNCHANGED vars
  BY <1>21 DEF CancelTurn, InterruptTurn, BeginClosing
<1>22. ASSUME NEW i \in Inputs, NEW cyber \in BOOLEAN, CorrectOutput(i, cyber)
      PROVE  ResponseEmitted \/ UNCHANGED vars
  BY <1>22 DEF CorrectOutput, Commit, CommitOr, Unwritten, ResponseEmitted
<1>23. ASSUME RejectCapacity
      PROVE  ResponseEmitted \/ UNCHANGED vars
  BY <1>23 DEF RejectCapacity, Commit, CommitOr, Unwritten, ResponseEmitted
<1>24. ASSUME TryFallback
      PROVE  ResponseEmitted \/ UNCHANGED vars
  BY <1>24 DEF TryFallback, Commit, CommitOr, Unwritten, ResponseEmitted
<1>25. ASSUME StartFallback
      PROVE  TurnEmitted \/ UNCHANGED vars
  BY <1>25 DEF StartFallback, Commit, CommitOr, Unwritten, TurnEmitted
<1>26. ASSUME NEW kind \in FailureKinds, FailResponse(kind)
      PROVE  ResponseEmitted \/ UNCHANGED vars
  BY <1>26 DEF FailResponse, Return, Unwritten, ResponseEmitted
<1>27. ASSUME Failing
      PROVE  TurnEmitted \/ UNCHANGED vars
  BY <1>27 DEF Failing, FailTurn, CommitOr, Unwritten, BeginClosing, TurnEmitted
<1>28. ASSUME ProviderReturns
      PROVE  UNCHANGED vars
  BY <1>28 DEF ProviderReturns, Quietly
<1>29. ASSUME NEW graph \in Graphs, NEW end \in Outcomes, CompleteResponse(graph, end)
      PROVE  ResponseEmitted \/ UNCHANGED vars
  BY <1>29 DEF CompleteResponse, Commit, CommitOr, Unwritten, ResponseEmitted
<1>30. ASSUME NEW c \in Calls, SettleConflict(c)
      PROVE  ToolsEmitted \/ UNCHANGED vars
  BY <1>30 DEF SettleConflict, Terminalize, CommitOr, Unwritten, ToolsEmitted, Owed, Statuses
<1>31. ASSUME SettleConflicted
      PROVE  UNCHANGED vars
  BY <1>31 DEF SettleConflicted
<1>32. ASSUME SettleSteered
      PROVE  UNCHANGED vars
  BY <1>32 DEF SettleSteered, Quietly
<1>33. ASSUME SettleRefuses
      PROVE  UNCHANGED vars
  BY <1>33 DEF SettleRefuses, Quietly
<1>34. ASSUME SettleWaits
      PROVE  UNCHANGED vars
  BY <1>34 DEF SettleWaits, Quietly
<1>35. ASSUME SettleUnsettled
      PROVE  TurnEmitted \/ UNCHANGED vars
  BY <1>35 DEF SettleUnsettled, FailTurn, CommitOr, Unwritten, BeginClosing, TurnEmitted
<1>36. ASSUME SettleCompletes
      PROVE  TurnEmitted \/ UNCHANGED vars
  BY <1>36 DEF SettleCompletes, Commit, CommitOr, Unwritten, TurnEmitted
<1>37. ASSUME SettleNonproductive
      PROVE  TurnEmitted \/ UNCHANGED vars
  BY <1>37 DEF SettleNonproductive, FailTurn, CommitOr, Unwritten, BeginClosing, TurnEmitted
<1>38. ASSUME SettleCalls
      PROVE  UNCHANGED vars
  BY <1>38 DEF SettleCalls, BatchStart
<1>39. ASSUME WaitControlled
      PROVE  UNCHANGED vars
  BY <1>39 DEF WaitControlled, Quietly
<1>40. ASSUME WaitEnds
      PROVE  UNCHANGED vars
  BY <1>40 DEF WaitEnds, Quietly
<1> QED
  BY <1>1, <1>2, <1>3, <1>4, <1>5, <1>6, <1>7, <1>8, <1>9, <1>10, <1>11, <1>12, <1>13, <1>14,
     <1>15, <1>16, <1>17, <1>18, <1>19, <1>20, <1>21, <1>22, <1>23, <1>24, <1>25, <1>26,
     <1>27, <1>28, <1>29, <1>30, <1>31, <1>32, <1>33, <1>34, <1>35, <1>36, <1>37, <1>38,
     <1>39, <1>40 DEF CycleNext, Emitted

\* Each step of a batch of calls commits one of these events or nothing.
LEMMA CallsEmits == HostTypes /\ CallsNext => Emitted \/ UNCHANGED vars
<1> SUFFICES ASSUME HostTypes, CallsNext PROVE Emitted \/ UNCHANGED vars
  OBVIOUS
<1>1. ASSUME NEW c \in Calls, BatchRuleRejects(c)
      PROVE  ToolsEmitted \/ UNCHANGED vars
  BY <1>1 DEF BatchRuleRejects, FinishVisited, Commit, CommitOr, Unwritten, ToolsEmitted,
     Statuses
<1>2. ASSUME NEW c \in Calls, BatchCancelled(c)
      PROVE  UNCHANGED vars
  BY <1>2 DEF BatchCancelled, HandOff
<1>3. ASSUME NEW c \in Calls, BatchCollects(c)
      PROVE  ToolsEmitted \/ UNCHANGED vars
  BY <1>3 DEF BatchCollects, Commit, CommitOr, Unwritten, ToolsEmitted, Statuses
<1>4. ASSUME NEW c \in Calls, BatchOverdue(c)
      PROVE  UNCHANGED vars
  BY <1>4 DEF BatchOverdue, HandOff
<1>5. ASSUME NEW c \in Calls, BatchPasses(c)
      PROVE  UNCHANGED vars
  BY <1>5 DEF BatchPasses
<1>6. ASSUME NEW c \in Calls, BatchYields(c)
      PROVE  UNCHANGED vars
  BY <1>6 DEF BatchYields, HandOff
<1>7. ASSUME NEW c \in Calls, BatchRejects(c)
      PROVE  ToolsEmitted \/ UNCHANGED vars
  BY <1>7 DEF BatchRejects, Commit, CommitOr, Unwritten, ToolsEmitted, Statuses
<1>8. ASSUME NEW c \in Calls, BatchSkips(c)
      PROVE  UNCHANGED vars
  BY <1>8 DEF BatchSkips
<1>9. ASSUME NEW c \in Calls, BatchStarts(c)
      PROVE  ToolsEmitted \/ UNCHANGED vars
  BY <1>9 DEF BatchStarts, Commit, CommitOr, Unwritten, ToolsEmitted
<1>10. ASSUME NEW c \in Calls, ToolRuns(c)
      PROVE  UNCHANGED vars
  BY <1>10 DEF ToolRuns
<1>11. ASSUME NEW c \in Calls, ToolReturns(c)
      PROVE  ToolsEmitted \/ UNCHANGED vars
  BY <1>11 DEF ToolReturns, Commit, CommitOr, Unwritten, ToolsEmitted, Statuses
<1>12. ASSUME NEW c \in Calls, HandBack(c)
      PROVE  ToolsEmitted \/ UNCHANGED vars
  BY <1>12 DEF HandBack, Commit, CommitOr, Unwritten, ToolsEmitted, HandedStatus, Statuses
<1>13. ASSUME BatchDone
      PROVE  UNCHANGED vars
  BY <1>13 DEF BatchDone
<1>14. ASSUME WaveHandsOff
      PROVE  UNCHANGED vars
  BY <1>14 DEF WaveHandsOff, HandOff
<1>15. ASSUME NextWave
      PROVE  UNCHANGED vars
  BY <1>15 DEF NextWave
<1>16. ASSUME HandoffDone
      PROVE  UNCHANGED vars
  BY <1>16 DEF HandoffDone
<1>17. ASSUME HandoffInterrupts
      PROVE  UNCHANGED vars
  BY <1>17 DEF HandoffInterrupts, InterruptTurn, BeginClosing
<1> QED
  BY <1>1, <1>2, <1>3, <1>4, <1>5, <1>6, <1>7, <1>8, <1>9, <1>10, <1>11, <1>12, <1>13, <1>14,
     <1>15, <1>16, <1>17 DEF CallsNext, Emitted

\* Each step of closing a turn commits one of these events or nothing.
LEMMA EndEmits == HostTypes /\ EndNext => Emitted \/ UNCHANGED vars
<1> SUFFICES ASSUME HostTypes, EndNext PROVE Emitted \/ UNCHANGED vars
  OBVIOUS
<1>1. ASSUME NEW h \in Calls, CloseLost(h)
      PROVE  ToolsEmitted \/ UNCHANGED vars
  BY <1>1 DEF CloseLost, CommitClosing, CommitOr, Unwritten, ToolsEmitted
<1>2. ASSUME NEW h \in Calls, CloseNext(h)
      PROVE  UNCHANGED vars
  BY <1>2 DEF CloseNext
<1>3. ASSUME CloseCollects
      PROVE  ToolsEmitted \/ UNCHANGED vars
  BY <1>3 DEF CloseCollects, CommitClosing, CommitOr, Unwritten, ToolsEmitted, HostTypes,
     Closings
<1>4. ASSUME CloseCancels
      PROVE  UNCHANGED vars
  BY <1>4 DEF CloseCancels
<1>5. ASSUME CloseGivesUp
      PROVE  ToolsEmitted \/ UNCHANGED vars
  BY <1>5 DEF CloseGivesUp, CommitClosing, CommitOr, Unwritten, ToolsEmitted, ClosedWith
<1>6. ASSUME CloseEnd
      PROVE  TurnEmitted \/ UNCHANGED vars
  BY <1>6 DEF CloseEnd, CommitClosing, CommitOr, Unwritten, TurnEmitted, EndEvent
<1> QED
  BY <1>1, <1>2, <1>3, <1>4, <1>5, <1>6 DEF EndNext, Emitted

\* Each step of the loop around run_turn commits one of these events or nothing.
LEMMA LoopEmits == HostTypes /\ LoopNext => Emitted \/ UNCHANGED vars
<1> SUFFICES ASSUME HostTypes, LoopNext PROVE Emitted \/ UNCHANGED vars
  OBVIOUS
<1>1. ASSUME ReturnedPauses
      PROVE  GoalsEmitted \/ UNCHANGED vars
  BY <1>1 DEF ReturnedPauses, CommitOr, Unwritten, GoalsEmitted, PauseGoal
<1>2. ASSUME ReturnedAwaitsClarification
      PROVE  UNCHANGED vars
  BY <1>2 DEF ReturnedAwaitsClarification, EnterBackoff, Quietly
<1>3. ASSUME ReturnedFinishes
      PROVE  UNCHANGED vars
  BY <1>3 DEF ReturnedFinishes, Quietly
<1>4. ASSUME ReturnedRetries
      PROVE  UNCHANGED vars
  BY <1>4 DEF ReturnedRetries, EnterBackoff, Quietly
<1>5. ASSUME BackoffControlled
      PROVE  UNCHANGED vars
  BY <1>5 DEF BackoffControlled, Waits, Quietly
<1>6. ASSUME BackoffHolds
      PROVE  UNCHANGED vars
  BY <1>6 DEF BackoffHolds, Waits, Quietly
<1>7. ASSUME BackoffInterrupted
      PROVE  UNCHANGED vars
  BY <1>7 DEF BackoffInterrupted, InterruptTurn, BeginClosing
<1>8. ASSUME BackoffLosesGoal
      PROVE  UNCHANGED vars
  BY <1>8 DEF BackoffLosesGoal, InterruptTurn, BeginClosing
<1>9. ASSUME BackoffClarified
      PROVE  UNCHANGED vars
  BY <1>9 DEF BackoffClarified, Quietly
<1>10. ASSUME BackoffEnds
      PROVE  UNCHANGED vars
  BY <1>10 DEF BackoffEnds, Quietly
<1>11. ASSUME NEW c \in Calls, ReconcileCall(c)
      PROVE  ToolsEmitted \/ UNCHANGED vars
  BY <1>11 DEF ReconcileCall, Terminalize, CommitOr, Unwritten, ToolsEmitted, Owed, Statuses
<1>12. ASSUME ReconcileResponse
      PROVE  ResponseEmitted \/ UNCHANGED vars
  BY <1>12 DEF ReconcileResponse, CommitOr, Unwritten, ResponseEmitted, InterruptTerminals
<1>13. ASSUME ReconcileEnds
      PROVE  TurnEmitted \/ UNCHANGED vars
  BY <1>13 DEF ReconcileEnds, CommitOr, Unwritten, TurnEmitted
<1>14. ASSUME ReconcileAgain
      PROVE  UNCHANGED vars
  BY <1>14 DEF ReconcileAgain, Quietly
<1>15. ASSUME FinishPauses
      PROVE  GoalsEmitted \/ UNCHANGED vars
  BY <1>15 DEF FinishPauses, CommitOr, Unwritten, Quietly, GoalsEmitted, PauseGoal
<1>16. ASSUME FinishEnds
      PROVE  UNCHANGED vars
  BY <1>16 DEF FinishEnds, InterruptTurn, BeginClosing, Quietly
<1>17. ASSUME LeaveTracked
      PROVE  UNCHANGED vars
  BY <1>17 DEF LeaveTracked, Quietly
<1>18. ASSUME PauseAfter
      PROVE  GoalsEmitted \/ UNCHANGED vars
  BY <1>18 DEF PauseAfter, CommitOr, Unwritten, Quietly, GoalsEmitted, PauseGoal
<1>19. ASSUME ChainControlled
      PROVE  UNCHANGED vars
  BY <1>19 DEF ChainControlled, Quietly
<1>20. ASSUME ChainPrompt
      PROVE  UNCHANGED vars
  BY <1>20 DEF ChainPrompt, TrackQuietly
<1>21. ASSUME ChainTurn
      PROVE  UNCHANGED vars
  BY <1>21 DEF ChainTurn, TrackQuietly
<1>22. ASSUME ChainGoal
      PROVE  UNCHANGED vars
  BY <1>22 DEF ChainGoal, TrackQuietly
<1>23. ASSUME ChainRests
      PROVE  UNCHANGED vars
  BY <1>23 DEF ChainRests, Quietly
<1>24. ASSUME NEW c \in Calls, CancelKeptCall(c)
      PROVE  ToolsEmitted \/ UNCHANGED vars
  BY <1>24 DEF CancelKeptCall, Terminalize, CommitOr, Unwritten, ToolsEmitted, Owed, Statuses
<1>25. ASSUME CancelKeptEnds
      PROVE  UNCHANGED vars
  BY <1>25 DEF CancelKeptEnds, InterruptTurn, BeginClosing
<1>26. ASSUME RecoverCompaction
      PROVE  ContextEmitted \/ UNCHANGED vars
  BY <1>26 DEF RecoverCompaction, CommitOr, Unwritten, ContextEmitted
<1>27. ASSUME RecoverResponse
      PROVE  ResponseEmitted \/ UNCHANGED vars
  BY <1>27 DEF RecoverResponse, CommitOr, Unwritten, ResponseEmitted, InterruptTerminals
<1>28. ASSUME RecoverNothing
      PROVE  UNCHANGED vars
  BY <1>28 DEF RecoverNothing, Quietly
<1>29. ASSUME RecoverAnswered
      PROVE  TurnEmitted \/ UNCHANGED vars
  BY <1>29 DEF RecoverAnswered, CommitOr, Unwritten, TurnEmitted
<1>30. ASSUME NEW c \in Calls, RecoverCall(c)
      PROVE  ToolsEmitted \/ UNCHANGED vars
  BY <1>30 DEF RecoverCall, Terminalize, CommitOr, Unwritten, ToolsEmitted, Owed, Statuses
<1>31. ASSUME RecoverTurn
      PROVE  UNCHANGED vars
  BY <1>31 DEF RecoverTurn, InterruptTurn, BeginClosing
<1> QED
  BY <1>1, <1>2, <1>3, <1>4, <1>5, <1>6, <1>7, <1>8, <1>9, <1>10, <1>11, <1>12, <1>13, <1>14,
     <1>15, <1>16, <1>17, <1>18, <1>19, <1>20, <1>21, <1>22, <1>23, <1>24, <1>25, <1>26,
     <1>27, <1>28, <1>29, <1>30, <1>31 DEF LoopNext, Emitted

\* Each input while a turn runs commits one of these events or nothing.
LEMMA OperatorEmits == HostTypes /\ OperatorNext => Emitted \/ UNCHANGED vars
<1> SUFFICES ASSUME HostTypes, OperatorNext PROVE Emitted \/ UNCHANGED vars
  OBVIOUS
<1>1. ASSUME NEW i \in Inputs, SteerTyped(i)
      PROVE  InputEmitted \/ UNCHANGED vars
  BY <1>1 DEF SteerTyped, InputEmitted
<1>2. ASSUME SteerReturned
      PROVE  UNCHANGED vars
  BY <1>2 DEF SteerReturned
<1>3. ASSUME ControlTyped
      PROVE  UNCHANGED vars
  BY <1>3 DEF ControlTyped
<1>4. ASSUME NEW m \in Models, ModelTyped(m)
      PROVE  TurnEmitted \/ UNCHANGED vars
  BY <1>4 DEF ModelTyped, TurnEmitted
<1>5. ASSUME NEW g \in Goals, GoalTyped(g)
      PROVE  GoalsEmitted \/ UNCHANGED vars
  BY <1>5 DEF GoalTyped, GoalsEmitted
<1>6. ASSUME InterruptTyped
      PROVE  TurnEmitted \/ InputEmitted \/ UNCHANGED vars
  BY <1>6 DEF InterruptTyped, TurnEmitted, InputEmitted
<1>7. ASSUME ExitTyped
      PROVE  UNCHANGED vars
  BY <1>7 DEF ExitTyped
<1> QED
  BY <1>1, <1>2, <1>3, <1>4, <1>5, <1>6, <1>7 DEF OperatorNext, Emitted

\* Each input at the prompt commits one of these events or nothing.
LEMMA PromptEmits == HostTypes /\ OperatorAtPrompt => Emitted \/ UNCHANGED vars
<1> SUFFICES ASSUME HostTypes, OperatorAtPrompt PROVE Emitted \/ UNCHANGED vars
  OBVIOUS
<1>1. ASSUME SubmitPrompt
      PROVE  InputEmitted \/ UNCHANGED vars
  BY <1>1 DEF SubmitPrompt, CommitOr, Unwritten, InputEmitted
<1>2. ASSUME NEW i \in Inputs, SubmitSteering(i)
      PROVE  InputEmitted \/ UNCHANGED vars
  BY <1>2 DEF SubmitSteering, CommitOr, Unwritten, InputEmitted
<1>3. ASSUME SubmitRetry
      PROVE  UNCHANGED vars
  BY <1>3 DEF SubmitRetry, TrackQuietly, Quietly
<1>4. ASSUME NEW g \in Goals, SubmitGoal(g)
      PROVE  GoalsEmitted \/ UNCHANGED vars
  BY <1>4 DEF SubmitGoal, GoalsEmitted
<1>5. ASSUME CancelKept
      PROVE  TurnEmitted \/ UNCHANGED vars
  BY <1>5 DEF CancelKept, CommitOr, Unwritten, TurnEmitted
<1>6. ASSUME LeavePrompt
      PROVE  UNCHANGED vars
  BY <1>6 DEF LeavePrompt, Quietly
<1>7. ASSUME CancelAccepted
      PROVE  InputEmitted \/ UNCHANGED vars
  BY <1>7 DEF CancelAccepted, CommitOr, Unwritten, InputEmitted
<1> QED
  BY <1>1, <1>2, <1>3, <1>4, <1>5, <1>6, <1>7 DEF OperatorAtPrompt, Emitted

\* A step of the driver commits one event, or nothing.
LEMMA StepEmits == HostTypes /\ [DriverNext]_allVars => Emitted \/ UNCHANGED vars
<1> SUFFICES ASSUME HostTypes, [DriverNext]_allVars PROVE Emitted \/ UNCHANGED vars
  OBVIOUS
<1>1. CASE DriverStep
  BY <1>1, CycleEmits, CallsEmits, EndEmits, LoopEmits DEF DriverStep
<1>2. ASSUME NEW h \in Calls, CommandEnds(h) \/ CommandOverdue(h)
      PROVE  UNCHANGED vars
  BY <1>2 DEF CommandEnds, CommandOverdue
<1>3. CASE OperatorNext \/ OperatorAtPrompt
  BY <1>3, OperatorEmits, PromptEmits
<1>4. CASE Crash \/ Restart \/ Stopped
  BY <1>4 DEF Crash, Restart, Stopped, allVars
<1>5. CASE UNCHANGED allVars
  BY <1>5 DEF allVars
<1> QED
  BY <1>1, <1>2, <1>3, <1>4, <1>5 DEF DriverNext

\* What the driver's events find: a session that is not being deleted, and a
\* prompt that was accepted from the operator or a timer.
PromptShape ==
    /\ deleteRequested = FALSE
    /\ pendingInput # NoInput => /\ pendingInput.origin \in {"direct", "timer"}
                                 /\ pendingInput.model \in Models

\* Each of them is an event of the reducer.
LEMMA EmittedIsEvent == TypeOK /\ PromptShape /\ Emitted => Next
<1> SUFFICES ASSUME TypeOK, PromptShape, Emitted PROVE Next
  OBVIOUS
<1>1. CASE InputEmitted
  <2>1. Admissible \in SUBSET Inputs
    BY DEF Admissible
  <2>2. defaultModel \in Models
    BY DEF TypeOK, ModelTypes
  <2>3. InputNext
    BY <1>1, <2>1, <2>2 DEF InputEmitted, InputNext
  <2>4. QED BY <2>3 DEF Next, PromptShape
<1>2. CASE TurnEmitted
  <2>1. defaultModel \in Models /\ pendingInput.readOnly \in BOOLEAN
    BY DEF TypeOK, ModelTypes, InputTypes, InputRecord
  <2>2. TurnNext
    BY <1>2, <2>1 DEF TurnEmitted, TurnNext, PromptShape
  <2>3. QED BY <2>2 DEF Next, PromptShape
<1>3. CASE ResponseEmitted
  <2>1. ircReceived \in 0..MaxIrc
    BY DEF TypeOK, IrcTypes
  <2>2. ResponseNext
    BY <1>3, <2>1, DriverAssumption DEF ResponseEmitted, ResponseNext
  <2>3. QED BY <2>2 DEF Next, PromptShape
<1>4. CASE ToolsEmitted
  <2>1. ASSUME NEW h, ProcessClosed(h)
        PROVE  h \in Calls
    BY <2>1 DEF ProcessClosed, TypeOK, CloseFits
  <2>2. ToolsNext
    BY <1>4, <2>1 DEF ToolsEmitted, ToolsNext
  <2>3. QED BY <2>2 DEF Next, PromptShape
<1>5. CASE GoalsEmitted
  BY <1>5 DEF GoalsEmitted, GoalsNext, Actors, Next, PromptShape
<1>6. CASE ContextEmitted
  BY <1>6 DEF ContextEmitted, ContextNext, Next, PromptShape
<1> QED
  BY <1>1, <1>2, <1>3, <1>4, <1>5, <1>6 DEF Emitted

\* No event of the driver asks for the session's deletion, and the prompts it
\* accepts are the operator's.
LEMMA EmittedKeepsPrompt ==
    TypeOK /\ PromptShape /\ (Emitted \/ UNCHANGED vars) => PromptShape'
<1> SUFFICES ASSUME TypeOK, PromptShape, Emitted \/ UNCHANGED vars
             PROVE  PromptShape'
  OBVIOUS
<1> USE DEF PromptShape
<1>1. CASE InputEmitted
  <2>1. defaultModel \in Models
    BY DEF TypeOK, ModelTypes
  <2>2. ASSUME NEW i \in Inputs, SteeringAdded(i)
        PROVE  PromptShape'
    BY <2>2 DEF SteeringAdded, NotInputVars, SteeringFits
  <2>3. CASE InputAdmitted(Admissible)
    BY <2>3 DEF InputAdmitted, AdmissionFits
  <2>4. CASE InputReceived("direct", FALSE, defaultModel)
    BY <2>1, <2>4 DEF InputReceived, NotInputVars, ReceiptFits
  <2>5. CASE InputCancelled
    BY <2>5 DEF InputCancelled, NotInputVars
  <2>6. QED BY <1>1, <2>2, <2>3, <2>4, <2>5 DEF InputEmitted
<1>2. CASE TurnEmitted
  <2>1. ASSUME NEW kind, NEW ro, NEW m, TurnStarted(kind, ro, m)
        PROVE  PromptShape'
    BY <2>1 DEF TurnStarted, TurnMayStart
  <2>2. CASE TurnCompleted \/ TurnInterrupted \/ TurnFailed
    BY <2>2 DEF TurnCompleted, TurnInterrupted, TurnFailed, ClearTurn, AnsweredTurn
  <2>3. CASE TurnCancelRequested \/ TurnRecovery \/ TurnModelChanged
    BY <2>3 DEF TurnCancelRequested, TurnRecovery, TurnModelChanged, inputVars, RecoverableTurn,
         ModelMayChange
  <2>4. ASSUME NEW m \in Models, TurnFallbackStarted(m) \/ ModelSelectionChanged(m)
        PROVE  PromptShape'
    BY <2>4 DEF TurnFallbackStarted, ModelSelectionChanged, inputVars, FallbackMayStart
  <2>5. QED BY <1>2, <2>1, <2>2, <2>3, <2>4 DEF TurnEmitted
<1>3. CASE ResponseEmitted
  BY <1>3 DEF ResponseEmitted, ResponseStarted, OpenResponse, ResponseCapacityRejected,
     ResponseOutputCorrection, ResponseInterrupted, ResponseFailed, ResponseCompleted,
     OutsideVars, CorrectionFits, InterruptFits, CompletionFits
<1>4. CASE ToolsEmitted
  BY <1>4 DEF ToolsEmitted, ToolStarted, StartCall, ToolFinished, ProcessClosed,
     AsideVars, inputVars, CallMayStart, ResultFits, CloseFits
<1>5. CASE GoalsEmitted
  BY <1>5 DEF GoalsEmitted, GoalStarted, GoalPaused, GoalResumed, GoalCompleted,
     BesideGoals, inputVars
<1>6. CASE ContextEmitted
  BY <1>6 DEF ContextEmitted, CompactionStarted, CompactionInterrupted,
     CompactionCompleted, BesideContext, inputVars, CompactionMayStart, SummaryFits
<1>7. CASE UNCHANGED vars
  BY <1>7 DEF vars, inputVars
<1> QED
  BY <1>1, <1>2, <1>3, <1>4, <1>5, <1>6, <1>7 DEF Emitted

-----------------------------------------------------------------------------
(***************************************************************************)
(* What keeps its type: everything the driver holds, through every step.   *)
(***************************************************************************)
\* An event that was refused, or could not be written, leaves the driver's types.
LEMMA UncommittedTypes ==
    ASSUME DriverTypeOK, UNCHANGED <<hostVars, workVars>>, pc' \in Places, rc' \in Results
    PROVE  DriverTypeOK'
BY DEF DriverTypeOK, HostTypes, hostVars, workVars

\* Telling every command to end keeps the types of the commands.
LEMMA CloseAllTypes ==
    ASSUME HostTypes, CloseAll
    PROVE  command' \in [Calls -> CommandStates]
BY DEF HostTypes, CloseAll, CommandStates

\* So does collecting the result of one.
LEMMA CollectedTypes ==
    ASSUME HostTypes, NEW h, Collected(h)
    PROVE  command' \in [Calls -> CommandStates] /\ late' \subseteq Calls
BY DEF HostTypes, Collected, CommandStates

\* Where the closing of a turn may lead.
Backs == {"returned", "finish", "leave", "pause", "chain"}

\* The closing of a turn begins with its types.
LEMMA ClosingTypes ==
    ASSUME DriverTypeOK, NEW event \in EndEvents, NEW back \in Backs, NEW ok \in Results,
           NEW bad \in Results, BeginClosing(event, back, ok, bad)
    PROVE  DriverTypeOK'
<1>1. command' \in [Calls -> CommandStates]
  BY CloseAllTypes DEF BeginClosing, DriverTypeOK
<1>2. closing' \in Closings
  BY DEF BeginClosing, Closings, Backs
<1>3. pc' \in Places
  BY DEF BeginClosing, Places
<1> QED
  BY <1>1, <1>2, <1>3 DEF BeginClosing, DriverTypeOK, HostTypes, hostVars

\* A failed turn is kept with one more attempt, or its closing begins.
LEMMA FailTypes ==
    ASSUME DriverTypeOK, NEW back \in Backs, NEW ok \in Results, NEW bad \in Results,
           FailTurn(back, ok, bad)
    PROVE  DriverTypeOK'
<1>1. back \in Places
  BY DEF Backs, Places, PumpPoints
<1>2. ASSUME kept' = [kept EXCEPT !.attempts = retry.attempts + 1],
             retry' = [retry EXCEPT !.pending = ~retry.policy],
             pc' = back, rc' = ok, UNCHANGED <<edge, workVars>>
      PROVE  DriverTypeOK'
  <2>1. kept' \in KeptFlags
    BY <1>2 DEF DriverTypeOK, HostTypes, KeptFlags, Retries
  <2>2. retry' \in Retries
    BY <1>2 DEF DriverTypeOK, HostTypes, Retries
  <2>3. QED BY <1>1, <1>2, <2>1, <2>2 DEF DriverTypeOK, HostTypes, workVars
<1>3. ASSUME UNCHANGED <<hostVars, workVars>>, pc' = back, rc' = bad
      PROVE  DriverTypeOK'
  BY <1>1, <1>3, UncommittedTypes
<1>4. ASSUME BeginClosing("turn_failed", back, ok, bad)
      PROVE  DriverTypeOK'
  BY <1>4, ClosingTypes DEF EndEvents
<1> QED
  BY <1>2, <1>3, <1>4 DEF FailTurn, CommitOr, Unwritten

\* The interruption of a turn begins its closing.
LEMMA InterruptTypes ==
    ASSUME DriverTypeOK, NEW back \in Backs, NEW ok \in Results, NEW bad \in Results,
           InterruptTurn(back, ok, bad)
    PROVE  DriverTypeOK'
BY ClosingTypes DEF InterruptTurn, EndEvents

\* A turn that is tracked begins with its types.
LEMMA TrackTypes ==
    ASSUME DriverTypeOK, NEW kind \in {"direct", "goal"}, Track(kind)
    PROVE  retry' \in Retries /\ edge' \in Edges /\ pc' \in Places /\ rc' \in Results
<1>1. GoalView \in GoalViews
  BY DEF GoalView, GoalViews
<1>2. NoRetry \in Retries
  BY DriverAssumption DEF NoRetry, Retries, GoalViews
<1>3. (IF activeTurn THEN kept.attempts ELSE 0) \in Nat
  BY DEF DriverTypeOK, HostTypes, KeptFlags
<1>4. retry' \in Retries
  BY <1>1, <1>2, <1>3 DEF Track, Retries
<1>5. edge' \in Edges
  BY DEF Track, DriverTypeOK, HostTypes, Edges
<1> QED
  BY <1>4, <1>5 DEF Track, Places, Results

\* A wait before the next attempt keeps them.
LEMMA BackoffTypes ==
    ASSUME DriverTypeOK, NEW attempts \in Nat, EnterBackoff(attempts)
    PROVE  DriverTypeOK'
<1>1. GoalView \in GoalViews
  BY DEF GoalView, GoalViews
<1>2. retry' \in Retries
  BY <1>1 DEF EnterBackoff, DriverTypeOK, HostTypes, Retries
<1>3. edge' \in Edges
  BY DEF EnterBackoff, DriverTypeOK, HostTypes, Edges
<1> QED
  BY <1>2, <1>3 DEF EnterBackoff, Quietly, Goto, DriverTypeOK, HostTypes, workVars, Places,
     PumpPoints

\* The record of a failed response has its type.
LEMMA FailureTypes ==
    ASSUME HostTypes, NEW policy \in BOOLEAN
    PROVE  FailureKept(policy) \in KeptFlags
<1>1. retry.attempts + 1 \in Nat
  BY DEF HostTypes, Retries
<1> QED
  BY <1>1 DEF HostTypes, FailureKept, KeptFlags

\* The batch that is not under way has its type.
LEMMA NoBatchTypes == NoBatch \in Batches
BY DriverAssumption DEF NoBatch, Batches

\* What is left to retry after a failed response has its type.
LEMMA RetryTypes ==
    ASSUME HostTypes, NEW kind
    PROVE  RetryAfter(kind) \in Retries
BY DEF HostTypes, RetryAfter, Retries

\* A call that was visited moves the batch on.
LEMMA BatchTypes ==
    ASSUME HostTypes, NEW c \in Calls
    PROVE  /\ c \in Nat
           /\ [batch EXCEPT !.slot = c + 1] \in Batches
           /\ [batch EXCEPT !.slot = c + 1, !.progressed = TRUE] \in Batches
           /\ [Noted EXCEPT !.slot = c + 1] \in Batches
           /\ [Noted EXCEPT !.slot = c] \in Batches
           /\ [Noted EXCEPT !.slot = c + 1, !.progressed = TRUE] \in Batches
<1>1. c \in Nat /\ c + 1 \in Nat
  BY DriverAssumption
<1>2. Noted \in Batches
  BY DEF HostTypes, Noted, Batches
<1> QED
  BY <1>1, <1>2 DEF HostTypes, Batches

\* run_turn keeps the types of what the driver holds.
LEMMA CycleTypes ==
    ASSUME TypeOK, DriverTypeOK, CycleNext
    PROVE  DriverTypeOK'
<1> USE DEF DriverTypeOK, HostTypes, Places, PumpPoints
<1>1. ASSUME BeginTurn
      PROVE  DriverTypeOK'
  <2>1. ASSUME kept' = NoneKept, Goto("cycle"), UNCHANGED <<edge, workVars>>,
              retry' = [retry EXCEPT !.pending = FALSE, !.fallback = FALSE, !.compacted = FALSE]
        PROVE  DriverTypeOK'
    <3>1. kept' \in KeptFlags
      BY <2>1 DEF NoneKept, KeptFlags
    <3>2. retry' \in Retries
      BY <2>1 DEF Retries
    <3> QED BY <2>1, <3>1, <3>2 DEF Goto, workVars
  <2>2. ASSUME UNCHANGED <<hostVars, workVars>>, pc' = "returned", rc' = "broken"
        PROVE  DriverTypeOK'
    BY <2>2, UncommittedTypes DEF Results
  <2> QED BY <1>1, <2>1, <2>2 DEF BeginTurn, Commit, CommitOr, Unwritten, NextPrompt
<1>2. ASSUME ContinueTurn
      PROVE  DriverTypeOK'
  BY <1>2 DEF ContinueTurn, Quietly, Goto, Retries, GoalViews, hostVars, workVars
<1>3. ASSUME StartCycle
      PROVE  DriverTypeOK'
  BY <1>3 DEF StartCycle, Quietly, ApplyControls, Goto, Edges, hostVars, workVars
<1>4. ASSUME CycleExhausted
      PROVE  DriverTypeOK'
  BY <1>4, FailTypes DEF CycleExhausted, Backs, Results
<1>5. ASSUME LeaveCycle
      PROVE  DriverTypeOK'
  BY <1>5 DEF LeaveCycle, Return, Results, hostVars, workVars
<1>6. ASSUME InterruptCycle
      PROVE  DriverTypeOK'
  BY <1>6, InterruptTypes DEF InterruptCycle, Backs, Results
<1>7. ASSUME SelectModel
      PROVE  DriverTypeOK'
  BY <1>7 DEF SelectModel, Goto, Commit, CommitOr, Unwritten, Edges, Results, hostVars, workVars
<1>8. ASSUME AdmitInput
      PROVE  DriverTypeOK'
  BY <1>8 DEF AdmitInput, Goto, Commit, CommitOr, Unwritten, Edges, Results, hostVars, workVars
<1>9. ASSUME PrepareSteered
      PROVE  DriverTypeOK'
  BY <1>9 DEF PrepareSteered, Quietly, Goto, Edges, hostVars, workVars
<1>10. ASSUME PrepareInterrupted
      PROVE  DriverTypeOK'
  BY <1>10, InterruptTypes DEF PrepareInterrupted, Backs, Results
<1>11. ASSUME PrepareLeaves
      PROVE  DriverTypeOK'
  BY <1>11 DEF PrepareLeaves, Return, Results, hostVars, workVars
<1>12. ASSUME PrepareFails
      PROVE  DriverTypeOK'
  BY <1>12, FailTypes DEF PrepareFails, Backs, Results
<1>13. ASSUME NEW src \in 1..turnCount, CompactRequest(src)
      PROVE  DriverTypeOK'
  BY <1>13 DEF CompactRequest, Goto, Commit, CommitOr, Unwritten, Results, Retries, GoalViews,
     hostVars, workVars
<1>14. ASSUME CompactFinishes
      PROVE  DriverTypeOK'
  BY <1>14 DEF CompactFinishes, Goto, Commit, CommitOr, Unwritten, Retries, Results, GoalViews,
     hostVars, workVars
<1>15. ASSUME CompactStops
      PROVE  DriverTypeOK'
  BY <1>15 DEF CompactStops, Goto, Commit, CommitOr, Unwritten, Results, hostVars, workVars
<1>16. ASSUME StartResponse
      PROVE  DriverTypeOK'
  BY <1>16 DEF StartResponse, Goto, Commit, CommitOr, Unwritten, Edges, Retries, Results,
     GoalViews, hostVars, workVars
<1>17. ASSUME RenderFails
      PROVE  DriverTypeOK'
  BY <1>17 DEF RenderFails, Return, Results, hostVars, workVars
<1>18. ASSUME ResponseSteered
      PROVE  DriverTypeOK'
  BY <1>18 DEF ResponseSteered, CutResponse, Goto, Commit, CommitOr, Unwritten, Results,
     hostVars, workVars
<1>19. ASSUME ResponseControlled
      PROVE  DriverTypeOK'
  BY <1>19 DEF ResponseControlled, CutResponse, Goto, Commit, CommitOr, Unwritten, Results,
     hostVars, workVars
<1>20. ASSUME ResponseCancelled
      PROVE  DriverTypeOK'
  BY <1>20 DEF ResponseCancelled, CutResponse, Goto, Commit, CommitOr, Unwritten, Results,
     hostVars, workVars
<1>21. ASSUME CancelTurn
      PROVE  DriverTypeOK'
  BY <1>21, InterruptTypes DEF CancelTurn, Backs, Results
<1>22. ASSUME NEW i \in Inputs, NEW cyber \in BOOLEAN, CorrectOutput(i, cyber)
      PROVE  DriverTypeOK'
  BY <1>22 DEF CorrectOutput, Goto, Commit, CommitOr, Unwritten, Results, hostVars, workVars
<1>23. ASSUME RejectCapacity
      PROVE  DriverTypeOK'
  BY <1>23 DEF RejectCapacity, Goto, Commit, CommitOr, Unwritten, Results, hostVars, workVars
<1>24. ASSUME TryFallback
      PROVE  DriverTypeOK'
  <2>1. ASSUME kept' = FailureKept(retry.policy), Goto("fallback"),
              UNCHANGED <<edge, retry, workVars>>
        PROVE  DriverTypeOK'
    <3>1. kept' \in KeptFlags
      BY <2>1, FailureTypes DEF Retries
    <3> QED BY <2>1, <3>1 DEF Goto, workVars
  <2>2. ASSUME UNCHANGED <<hostVars, workVars>>, pc' = "returned", rc' = "broken"
        PROVE  DriverTypeOK'
    BY <2>2, UncommittedTypes DEF Results
  <2> QED BY <1>24, <2>1, <2>2 DEF TryFallback, Commit, CommitOr, Unwritten
<1>25. ASSUME StartFallback
      PROVE  DriverTypeOK'
  BY <1>25 DEF StartFallback, Goto, Commit, CommitOr, Unwritten, Retries, Results, GoalViews,
     hostVars, workVars
<1>26. ASSUME NEW kind \in FailureKinds, FailResponse(kind)
      PROVE  DriverTypeOK'
  <2>1. ASSUME retry' = RetryAfter(kind), kept' = FailureKept(kind = "policy"),
              pc' = "failing", rc' \in Results, UNCHANGED <<edge, workVars>>
        PROVE  DriverTypeOK'
    <3>1. kept' \in KeptFlags
      BY <2>1, FailureTypes
    <3>2. retry' \in Retries
      BY <2>1, RetryTypes
    <3> QED BY <2>1, <3>1, <3>2 DEF workVars
  <2>2. ASSUME retry' = RetryAfter(kind), UNCHANGED <<edge, kept, workVars>>,
               pc' = "returned", rc' = "broken"
        PROVE  DriverTypeOK'
    <3>1. retry' \in Retries
      BY <2>2, RetryTypes
    <3> QED BY <2>2, <3>1 DEF Results, workVars
  <2> QED BY <1>26, <2>1, <2>2 DEF FailResponse, Return, Results
<1>27. ASSUME Failing
      PROVE  DriverTypeOK'
  BY <1>27, FailTypes DEF Failing, Backs, Results
<1>28. ASSUME ProviderReturns
      PROVE  DriverTypeOK'
  BY <1>28 DEF ProviderReturns, Quietly, Goto, hostVars, workVars
<1>29. ASSUME NEW graph \in Graphs, NEW end \in Outcomes, CompleteResponse(graph, end)
      PROVE  DriverTypeOK'
  <2>1. ASSUME kept' = [kept EXCEPT !.attempts = IF end \in {"calls", "final"} THEN 0
                                                   ELSE IF end = "refusal" THEN @ ELSE @ + 1,
                                   !.policy = @ \/ end = "refusal"],
              retry' = [retry EXCEPT !.compacted = FALSE],
              Goto("settle"), UNCHANGED <<edge, workVars>>
        PROVE  DriverTypeOK'
    <3>1. kept.attempts \in Nat /\ kept.attempts + 1 \in Nat /\ kept.policy \in BOOLEAN
      BY <2>1 DEF KeptFlags
    <3>2. kept' \in KeptFlags
      BY <2>1, <3>1 DEF KeptFlags
    <3>3. retry' \in Retries
      BY <2>1 DEF Retries
    <3> QED BY <2>1, <3>1, <3>2, <3>3 DEF Goto, workVars
  <2>2. ASSUME UNCHANGED <<hostVars, workVars>>, pc' = "returned", rc' = "broken"
        PROVE  DriverTypeOK'
    BY <2>2, UncommittedTypes DEF Results
  <2> QED BY <1>29, <2>1, <2>2 DEF CompleteResponse, Commit, CommitOr, Unwritten
<1>30. ASSUME NEW c \in Calls, SettleConflict(c)
      PROVE  DriverTypeOK'
  BY <1>30 DEF SettleConflict, Terminalize, CommitOr, Unwritten, Collected, CommandStates,
     Results, hostVars, workVars
<1>31. ASSUME SettleConflicted
      PROVE  DriverTypeOK'
  BY <1>31 DEF SettleConflicted, Results, hostVars, workVars
<1>32. ASSUME SettleSteered
      PROVE  DriverTypeOK'
  BY <1>32 DEF SettleSteered, Quietly, Goto, Edges, hostVars, workVars
<1>33. ASSUME SettleRefuses
      PROVE  DriverTypeOK'
  BY <1>33 DEF SettleRefuses, Quietly, Goto, Retries, GoalViews, hostVars, workVars
<1>34. ASSUME SettleWaits
      PROVE  DriverTypeOK'
  BY <1>34 DEF SettleWaits, Quietly, Goto, hostVars, workVars
<1>35. ASSUME SettleUnsettled
      PROVE  DriverTypeOK'
  BY <1>35, FailTypes DEF SettleUnsettled, Backs, Results
<1>36. ASSUME SettleCompletes
      PROVE  DriverTypeOK'
  <2>1. ASSUME retry' = IF outcome = "final" THEN [retry EXCEPT !.attempts = 0] ELSE retry,
              kept' = NoneKept, Return("done"), UNCHANGED <<edge, workVars>>
        PROVE  DriverTypeOK'
    <3>1. kept' \in KeptFlags
      BY <2>1 DEF NoneKept, KeptFlags
    <3>2. retry' \in Retries
      BY <2>1 DEF Retries
    <3> QED BY <2>1, <3>1, <3>2 DEF Return, Results, workVars
  <2>2. ASSUME UNCHANGED <<hostVars, workVars>>, pc' = "returned", rc' = "broken"
        PROVE  DriverTypeOK'
    BY <2>2, UncommittedTypes DEF Results
  <2> QED BY <1>36, <2>1, <2>2 DEF SettleCompletes, Commit, CommitOr, Unwritten
<1>37. ASSUME SettleNonproductive
      PROVE  DriverTypeOK'
  BY <1>37, FailTypes DEF SettleNonproductive, Backs, Results
<1>38. ASSUME SettleCalls
      PROVE  DriverTypeOK'
  BY <1>38 DEF SettleCalls, BatchStart, NoBatch, Retries, Batches, GoalViews, hostVars,
     workVars
<1>39. ASSUME WaitControlled
      PROVE  DriverTypeOK'
  BY <1>39 DEF WaitControlled, Quietly, ApplyControls, Goto, Edges, hostVars, workVars
<1>40. ASSUME WaitEnds
      PROVE  DriverTypeOK'
  BY <1>40 DEF WaitEnds, Quietly, Goto, hostVars, workVars
<1> QED
  BY ONLY CycleNext, <1>1, <1>2, <1>3, <1>4, <1>5, <1>6, <1>7, <1>8, <1>9, <1>10, <1>11,
     <1>12, <1>13, <1>14, <1>15, <1>16, <1>17, <1>18, <1>19, <1>20, <1>21, <1>22, <1>23,
     <1>24, <1>25, <1>26, <1>27, <1>28, <1>29, <1>30, <1>31, <1>32, <1>33, <1>34, <1>35,
     <1>36, <1>37, <1>38, <1>39, <1>40 DEF CycleNext

\* So does a batch of calls.
LEMMA CallsTypes ==
    ASSUME TypeOK, DriverTypeOK, CallsNext
    PROVE  DriverTypeOK'
<1> USE DEF DriverTypeOK, HostTypes, Places, PumpPoints
<1>1. ASSUME NEW c \in Calls, BatchRuleRejects(c)
      PROVE  DriverTypeOK'
  <2>1. ASSUME IF Running(c) THEN Collected(pendingCalls[c].handle)
              ELSE UNCHANGED <<command, late>>,
              Goto("batch"), batch' = [batch EXCEPT !.slot = c + 1, !.progressed = TRUE],
              UNCHANGED <<hostVars, closing>>
        PROVE  DriverTypeOK'
    <3>1. command' \in [Calls -> CommandStates] /\ late' \subseteq Calls
      BY <2>1, CollectedTypes
    <3>2. batch' \in Batches
      BY <2>1, BatchTypes
    <3> QED BY <2>1, <3>1, <3>2 DEF Goto, hostVars
  <2>2. ASSUME UNCHANGED <<hostVars, workVars>>, pc' = "returned", rc' = "broken"
        PROVE  DriverTypeOK'
    BY <2>2, UncommittedTypes DEF Results
  <2> QED BY <1>1, <2>1, <2>2 DEF BatchRuleRejects, FinishVisited, Commit, CommitOr, Unwritten
<1>2. ASSUME NEW c \in Calls, BatchCancelled(c)
      PROVE  DriverTypeOK'
  BY <1>2 DEF BatchCancelled, CloseAll, HandOff, Goto, Batches, CommandStates,
     hostVars, workVars
<1>3. ASSUME NEW c \in Calls, BatchCollects(c)
      PROVE  DriverTypeOK'
  <2>1. ASSUME Collected(pendingCalls[c].handle), Goto("batch"),
              batch' = [Noted EXCEPT !.slot = c + 1, !.progressed = TRUE],
              UNCHANGED <<hostVars, closing>>
        PROVE  DriverTypeOK'
    <3>1. command' \in [Calls -> CommandStates] /\ late' \subseteq Calls
      BY <2>1, CollectedTypes
    <3>2. batch' \in Batches
      BY <2>1, BatchTypes
    <3> QED BY <2>1, <3>1, <3>2 DEF Goto, hostVars
  <2>2. ASSUME UNCHANGED <<hostVars, workVars>>, pc' = "returned", rc' = "broken"
        PROVE  DriverTypeOK'
    BY <2>2, UncommittedTypes DEF Results
  <2> QED BY <1>3, <2>1, <2>2 DEF BatchCollects, Commit, CommitOr, Unwritten
<1>4. ASSUME NEW c \in Calls, BatchOverdue(c)
      PROVE  DriverTypeOK'
  BY <1>4 DEF BatchOverdue, HandOff, Goto, Batches, hostVars, workVars
<1>5. ASSUME NEW c \in Calls, BatchPasses(c)
      PROVE  DriverTypeOK'
  <2>1. batch' \in Batches
    BY <1>5, BatchTypes DEF BatchPasses
  <2> QED BY <1>5, <2>1 DEF BatchPasses, hostVars
<1>6. ASSUME NEW c \in Calls, BatchYields(c)
      PROVE  DriverTypeOK'
  BY <1>6 DEF BatchYields, HandOff, Goto, Batches, hostVars, workVars
<1>7. ASSUME NEW c \in Calls, BatchRejects(c)
      PROVE  DriverTypeOK'
  <2>1. ASSUME Goto("batch"), UNCHANGED <<hostVars, command, late, closing>>,
              batch' = [Noted EXCEPT !.slot = c + 1, !.progressed = TRUE]
        PROVE  DriverTypeOK'
    <3>1. batch' \in Batches
      BY <2>1, BatchTypes
    <3> QED BY <2>1, <3>1 DEF Goto, hostVars
  <2>2. ASSUME UNCHANGED <<hostVars, workVars>>, pc' = "returned", rc' = "broken"
        PROVE  DriverTypeOK'
    BY <2>2, UncommittedTypes DEF Results
  <2> QED BY <1>7, <2>1, <2>2 DEF BatchRejects, Commit, CommitOr, Unwritten
<1>8. ASSUME NEW c \in Calls, BatchSkips(c)
      PROVE  DriverTypeOK'
  <2>1. batch' \in Batches
    BY <1>8, BatchTypes DEF BatchSkips
  <2> QED BY <1>8, <2>1 DEF BatchSkips, hostVars
<1>9. ASSUME NEW c \in Calls, BatchStarts(c)
      PROVE  DriverTypeOK'
  <2>1. ASSUME Goto("tool"), batch' = [Noted EXCEPT !.slot = c],
              UNCHANGED <<hostVars, command, late, closing>>
        PROVE  DriverTypeOK'
    <3>1. batch' \in Batches
      BY <2>1, BatchTypes
    <3> QED BY <2>1, <3>1 DEF Goto, hostVars
  <2>2. ASSUME UNCHANGED <<hostVars, workVars>>, pc' = "returned", rc' = "broken"
        PROVE  DriverTypeOK'
    BY <2>2, UncommittedTypes DEF Results
  <2> QED BY <1>9, <2>1, <2>2 DEF BatchStarts, Commit, CommitOr, Unwritten
<1>10. ASSUME NEW c \in Calls, ToolRuns(c)
      PROVE  DriverTypeOK'
  <2>1. batch' \in Batches
    BY <1>10, BatchTypes DEF ToolRuns
  <2>2. command' \in [Calls -> CommandStates]
    BY <1>10 DEF ToolRuns, CommandStates
  <2> QED BY <1>10, <2>1, <2>2 DEF ToolRuns, Goto, hostVars
<1>11. ASSUME NEW c \in Calls, ToolReturns(c)
      PROVE  DriverTypeOK'
  <2>1. ASSUME NEW defers \in BOOLEAN,
               kept' = [kept EXCEPT !.deferred = @ \/ defers],
               edge' = [edge EXCEPT !.steering = @ /\ ~defers],
               IF edge.interrupt
               THEN CloseAll /\ Goto("handoff")
                    /\ batch' = [batch EXCEPT !.handoff = "cancelled"]
               ELSE UNCHANGED command /\ Goto("batch")
                    /\ batch' = [batch EXCEPT !.slot = c + 1, !.progressed = TRUE],
               UNCHANGED <<retry, late, closing>>
        PROVE  DriverTypeOK'
    <3>1. kept' \in KeptFlags /\ edge' \in Edges
      BY <2>1 DEF KeptFlags, Edges
    <3>2. command' \in [Calls -> CommandStates]
      BY <2>1, CloseAllTypes
    <3>3. [batch EXCEPT !.handoff = "cancelled"] \in Batches
      BY DEF Batches
    <3>4. batch' \in Batches /\ pc' \in Places /\ rc' \in Results
      BY <2>1, <3>3, BatchTypes DEF Goto
    <3> QED BY <2>1, <3>1, <3>2, <3>4
  <2>2. ASSUME UNCHANGED <<hostVars, workVars>>, pc' = "returned", rc' = "broken"
        PROVE  DriverTypeOK'
    BY <2>2, UncommittedTypes DEF Results
  <2>3. PICK defers \in BOOLEAN :
           Commit("tool_finished", ResultFits(c, "ended"), ToolFinished(c, "ended"),
                  /\ kept' = [kept EXCEPT !.deferred = @ \/ defers]
                  /\ edge' = [edge EXCEPT !.steering = @ /\ ~defers]
                  /\ IF edge.interrupt
                     THEN CloseAll /\ Goto("handoff")
                          /\ batch' = [batch EXCEPT !.handoff = "cancelled"]
                     ELSE UNCHANGED command /\ Goto("batch")
                          /\ batch' = [batch EXCEPT !.slot = c + 1, !.progressed = TRUE]
                  /\ UNCHANGED <<retry, late, closing>>)
    BY <1>11 DEF ToolReturns
  <2> QED BY <2>1, <2>2, <2>3 DEF Commit, CommitOr, Unwritten
<1>12. ASSUME NEW c \in Calls, HandBack(c)
      PROVE  DriverTypeOK'
  BY <1>12 DEF HandBack, Commit, Collected, CommitOr, Unwritten, CommandStates, Results,
     hostVars, workVars
<1>13. ASSUME BatchDone
      PROVE  DriverTypeOK'
  BY <1>13, NoBatchTypes DEF BatchDone, Goto, hostVars
<1>14. ASSUME WaveHandsOff
      PROVE  DriverTypeOK'
  BY <1>14 DEF WaveHandsOff, HandOff, Goto, Batches, hostVars, workVars
<1>15. ASSUME NextWave
      PROVE  DriverTypeOK'
  BY <1>15 DEF NextWave, Batches, hostVars, workVars
<1>16. ASSUME HandoffDone
      PROVE  DriverTypeOK'
  BY <1>16, NoBatchTypes DEF HandoffDone, Goto, hostVars
<1>17. ASSUME HandoffInterrupts
      PROVE  DriverTypeOK'
  BY <1>17, InterruptTypes DEF HandoffInterrupts, Backs, Results
<1> QED
  BY ONLY CallsNext, <1>1, <1>2, <1>3, <1>4, <1>5, <1>6, <1>7, <1>8, <1>9, <1>10, <1>11,
     <1>12, <1>13, <1>14, <1>15, <1>16, <1>17 DEF CallsNext

\* So does the closing of a turn.
LEMMA EndTypes ==
    ASSUME TypeOK, DriverTypeOK, EndNext
    PROVE  DriverTypeOK'
<1> USE DEF DriverTypeOK, HostTypes, Places, PumpPoints
<1>1. ASSUME NEW h \in Calls, CloseLost(h)
      PROVE  DriverTypeOK'
  BY <1>1 DEF CloseLost, Goto, CommitClosing, CommitOr, Unwritten, Results, Closings, EndEvents,
     hostVars, workVars
<1>2. ASSUME NEW h \in Calls, CloseNext(h)
      PROVE  DriverTypeOK'
  BY <1>2 DEF CloseNext, Goto, Closings, EndEvents, Results, hostVars, workVars
<1>3. ASSUME CloseCollects
      PROVE  DriverTypeOK'
  BY <1>3 DEF CloseCollects, Goto, Collected, CommitClosing, CommitOr, Unwritten, CommandStates,
     Results, Closings, EndEvents, hostVars, workVars
<1>4. ASSUME CloseCancels
      PROVE  DriverTypeOK'
  BY <1>4 DEF CloseCancels, Closings, EndEvents, Results, hostVars, workVars
<1>5. ASSUME CloseGivesUp
      PROVE  DriverTypeOK'
  BY <1>5 DEF CloseGivesUp, Goto, CommitClosing, CommitOr, Unwritten, Results, Closings,
     EndEvents, hostVars, workVars
<1>6. ASSUME CloseEnd
      PROVE  DriverTypeOK'
  <2>1. ASSUME pc' = closing.back, rc' = closing.ok, UNCHANGED <<edge, retry, workVars>>,
               kept' = IF activeTurn' THEN kept
                       ELSE [NoneKept EXCEPT !.failed = closing.event = "turn_failed"]
        PROVE  DriverTypeOK'
    <3>1. kept' \in KeptFlags
      BY <2>1 DEF NoneKept, KeptFlags
    <3>2. pc' \in Places /\ rc' \in Results
      BY <2>1 DEF Closings
    <3> QED BY <2>1, <3>1, <3>2 DEF workVars
  <2>2. ASSUME UNCHANGED <<hostVars, workVars>>, rc' = closing.bad,
               pc' \in {closing.back, "closed", "held"}
        PROVE  DriverTypeOK'
    BY <2>2, UncommittedTypes DEF Closings
  <2> QED BY <1>6, <2>1, <2>2 DEF CloseEnd, CommitClosing, CommitOr, Unwritten
<1> QED
  BY ONLY EndNext, <1>1, <1>2, <1>3, <1>4, <1>5, <1>6 DEF EndNext

\* So does the loop around run_turn.
LEMMA LoopTypes ==
    ASSUME TypeOK, DriverTypeOK, LoopNext
    PROVE  DriverTypeOK'
<1> USE DEF DriverTypeOK, HostTypes, Places, PumpPoints
<1>1. ASSUME ReturnedPauses
      PROVE  DriverTypeOK'
  BY <1>1 DEF ReturnedPauses, Goto, CommitOr, Unwritten, Retries, Results, GoalViews, hostVars,
     workVars
<1>2. ASSUME ReturnedAwaitsClarification
      PROVE  DriverTypeOK'
  BY <1>2, BackoffTypes DEF ReturnedAwaitsClarification
<1>3. ASSUME ReturnedFinishes
      PROVE  DriverTypeOK'
  BY <1>3 DEF ReturnedFinishes, Quietly, Goto, Retries, GoalViews, hostVars, workVars
<1>4. ASSUME ReturnedRetries
      PROVE  DriverTypeOK'
  <2>1. (IF GoalActive THEN retry.attempts ELSE retry.attempts + 1) \in Nat
    BY DEF Retries
  <2> QED BY <1>4, <2>1, BackoffTypes DEF ReturnedRetries
<1>5. ASSUME BackoffControlled
      PROVE  DriverTypeOK'
  BY <1>5 DEF BackoffControlled, Waits, Quietly, ApplyControls, Goto, Edges, hostVars,
     workVars
<1>6. ASSUME BackoffHolds
      PROVE  DriverTypeOK'
  BY <1>6 DEF BackoffHolds, Waits, Quietly, Goto, Edges, Retries, GoalViews, hostVars,
     workVars
<1>7. ASSUME BackoffInterrupted
      PROVE  DriverTypeOK'
  <2>1. CASE InterruptTurn("finish", "failed", "failed")
    BY <2>1, InterruptTypes DEF Backs, Results
  <2>2. ASSUME pc' = "finish", rc' \in Results, UNCHANGED <<hostVars, workVars>>
        PROVE  DriverTypeOK'
    BY <2>2, UncommittedTypes
  <2> QED BY <1>7, <2>1, <2>2 DEF BackoffInterrupted, Results
<1>8. ASSUME BackoffLosesGoal
      PROVE  DriverTypeOK'
  <2>1. CASE InterruptTurn("finish", "done", "done")
    BY <2>1, InterruptTypes DEF Backs, Results
  <2>2. ASSUME pc' = "finish", rc' \in Results, UNCHANGED <<hostVars, workVars>>
        PROVE  DriverTypeOK'
    BY <2>2, UncommittedTypes
  <2> QED BY <1>8, <2>1, <2>2 DEF BackoffLosesGoal, Results
<1>9. ASSUME BackoffClarified
      PROVE  DriverTypeOK'
  BY <1>9 DEF BackoffClarified, Quietly, Goto, Edges, Retries, GoalViews, hostVars,
     workVars
<1>10. ASSUME BackoffEnds
      PROVE  DriverTypeOK'
  BY <1>10 DEF BackoffEnds, Quietly, Goto, Edges, Retries, GoalViews, hostVars, workVars
<1>11. ASSUME NEW c \in Calls, ReconcileCall(c)
      PROVE  DriverTypeOK'
  BY <1>11 DEF ReconcileCall, Terminalize, Unreconciled, CommitOr, Unwritten, Collected,
     CommandStates, Results, hostVars, workVars
<1>12. ASSUME ReconcileResponse
      PROVE  DriverTypeOK'
  BY <1>12 DEF ReconcileResponse, Goto, CommitOr, Unwritten, Unreconciled, Results, hostVars,
     workVars
<1>13. ASSUME ReconcileEnds
      PROVE  DriverTypeOK'
  BY <1>13 DEF ReconcileEnds, Goto, CommitOr, Unwritten, Unreconciled, Results, hostVars,
     workVars
<1>14. ASSUME ReconcileAgain
      PROVE  DriverTypeOK'
  BY <1>14 DEF ReconcileAgain, Quietly, Goto, Edges, Results, hostVars, workVars
<1>15. ASSUME FinishPauses
      PROVE  DriverTypeOK'
  BY <1>15 DEF FinishPauses, Goto, Quietly, CommitOr, Unwritten, Results, hostVars, workVars
<1>16. ASSUME FinishEnds
      PROVE  DriverTypeOK'
  <2>1. CASE InterruptTurn("leave", rc, rc)
    BY <2>1, InterruptTypes DEF Backs
  <2>2. CASE Quietly("leave") /\ UNCHANGED hostVars
    BY <2>2, UncommittedTypes DEF Quietly, Goto
  <2> QED BY <1>16, <2>1, <2>2 DEF FinishEnds
<1>17. ASSUME LeaveTracked
      PROVE  DriverTypeOK'
  BY <1>17 DEF LeaveTracked, Quietly, Goto, hostVars, workVars
<1>18. ASSUME PauseAfter
      PROVE  DriverTypeOK'
  BY <1>18 DEF PauseAfter, Goto, Quietly, CommitOr, Unwritten, Results, hostVars, workVars
<1>19. ASSUME ChainControlled
      PROVE  DriverTypeOK'
  BY <1>19 DEF ChainControlled, Quietly, ApplyControls, Goto, Edges, hostVars, workVars
<1>20. ASSUME ChainPrompt
      PROVE  DriverTypeOK'
  BY <1>20, TrackTypes DEF ChainPrompt, TrackQuietly, workVars
<1>21. ASSUME ChainTurn
      PROVE  DriverTypeOK'
  BY <1>21, TrackTypes DEF ChainTurn, TrackQuietly, workVars, TurnKind
<1>22. ASSUME ChainGoal
      PROVE  DriverTypeOK'
  BY <1>22, TrackTypes DEF ChainGoal, TrackQuietly, workVars
<1>23. ASSUME ChainRests
      PROVE  DriverTypeOK'
  BY <1>23 DEF ChainRests, Quietly, Goto, hostVars, workVars
<1>24. ASSUME NEW c \in Calls, CancelKeptCall(c)
      PROVE  DriverTypeOK'
  BY <1>24 DEF CancelKeptCall, Terminalize, CommitOr, Unwritten, Collected, CommandStates,
     Results, hostVars, workVars
<1>25. ASSUME CancelKeptEnds
      PROVE  DriverTypeOK'
  BY <1>25, InterruptTypes DEF CancelKeptEnds, Backs, Results
<1>26. ASSUME RecoverCompaction
      PROVE  DriverTypeOK'
  BY <1>26 DEF RecoverCompaction, Goto, CommitOr, Unwritten, Results, hostVars, workVars
<1>27. ASSUME RecoverResponse
      PROVE  DriverTypeOK'
  BY <1>27 DEF RecoverResponse, Goto, CommitOr, Unwritten, Results, hostVars, workVars
<1>28. ASSUME RecoverNothing
      PROVE  DriverTypeOK'
  BY <1>28 DEF RecoverNothing, Quietly, Goto, hostVars, workVars
<1>29. ASSUME RecoverAnswered
      PROVE  DriverTypeOK'
  <2>1. ASSUME kept' = NoneKept, pc' \in Places, UNCHANGED <<rc, edge, retry, workVars>>
        PROVE  DriverTypeOK'
    <3>1. kept' \in KeptFlags
      BY <2>1 DEF NoneKept, KeptFlags
    <3> QED BY <2>1, <3>1 DEF workVars
  <2>2. ASSUME UNCHANGED <<hostVars, workVars>>, pc' = "closed", rc' = rc
        PROVE  DriverTypeOK'
    BY <2>2, UncommittedTypes DEF Results
  <2> QED BY <1>29, <2>1, <2>2 DEF RecoverAnswered, CommitOr, Unwritten, Goto
<1>30. ASSUME NEW c \in Calls, RecoverCall(c)
      PROVE  DriverTypeOK'
  BY <1>30 DEF RecoverCall, Terminalize, CommitOr, Unwritten, Collected, CommandStates, Results,
     hostVars, workVars
<1>31. ASSUME RecoverTurn
      PROVE  DriverTypeOK'
  <2>1. CASE InterruptTurn("pause", "done", "broken")
    BY <2>1, InterruptTypes DEF Backs, Results
  <2>2. CASE BeginClosing("turn_failed", "chain", "done", "broken")
    BY <2>2, ClosingTypes DEF EndEvents, Backs, Results
  <2>3. ASSUME NEW back \in {"pause", "chain"}, BeginClosing("turn_recovery", back, "done", "broken")
        PROVE  DriverTypeOK'
    BY <2>3, ClosingTypes DEF EndEvents, Backs, Results
  <2> QED BY <1>31, <2>1, <2>2, <2>3 DEF RecoverTurn
<1> QED
  BY ONLY LoopNext, <1>1, <1>2, <1>3, <1>4, <1>5, <1>6, <1>7, <1>8, <1>9, <1>10, <1>11, <1>12,
     <1>13, <1>14, <1>15, <1>16, <1>17, <1>18, <1>19, <1>20, <1>21, <1>22, <1>23, <1>24,
     <1>25, <1>26, <1>27, <1>28, <1>29, <1>30, <1>31 DEF LoopNext

\* So does the operator's input.
LEMMA OperatorTypes ==
    ASSUME TypeOK, DriverTypeOK, OperatorNext
    PROVE  DriverTypeOK'
<1> USE DEF DriverTypeOK, HostTypes, Places, PumpPoints
<1>1. ASSUME NEW i \in Inputs, SteerTyped(i)
      PROVE  DriverTypeOK'
  BY <1>1 DEF SteerTyped, Typing, Edges, KeptFlags, hostVars, workVars
<1>2. ASSUME SteerReturned
      PROVE  DriverTypeOK'
  BY <1>2 DEF SteerReturned, Typing, Closings, EndEvents, Results, hostVars, workVars
<1>3. ASSUME ControlTyped
      PROVE  DriverTypeOK'
  BY <1>3 DEF ControlTyped, Typing, Edges, hostVars, workVars
<1>4. ASSUME NEW m \in Models, ModelTyped(m)
      PROVE  DriverTypeOK'
  BY <1>4 DEF ModelTyped, Typing, Edges, hostVars, workVars
<1>5. ASSUME NEW g \in Goals, GoalTyped(g)
      PROVE  DriverTypeOK'
  BY <1>5 DEF GoalTyped, Typing, hostVars, workVars
<1>6. ASSUME InterruptTyped
      PROVE  DriverTypeOK'
  BY <1>6 DEF InterruptTyped, Typing, Edges, KeptFlags, hostVars, workVars
<1>7. ASSUME ExitTyped
      PROVE  DriverTypeOK'
  BY <1>7 DEF ExitTyped, Typing, Edges, hostVars, workVars
<1> QED
  BY ONLY OperatorNext, <1>1, <1>2, <1>3, <1>4, <1>5, <1>6, <1>7 DEF OperatorNext

\* So does what is done at the prompt.
LEMMA PromptTypes ==
    ASSUME TypeOK, DriverTypeOK, OperatorAtPrompt
    PROVE  DriverTypeOK'
<1> USE DEF DriverTypeOK, HostTypes, Places, PumpPoints
<1>1. ASSUME SubmitPrompt
      PROVE  DriverTypeOK'
  <2>1. ASSUME Track("direct"), UNCHANGED <<kept, workVars>>
        PROVE  DriverTypeOK'
    <3>1. retry' \in Retries /\ edge' \in Edges /\ pc' \in Places /\ rc' \in Results
      BY <2>1, TrackTypes
    <3> QED BY <2>1, <3>1 DEF workVars
  <2>2. ASSUME UNCHANGED <<hostVars, workVars>>, pc' = "held", rc' = "broken"
        PROVE  DriverTypeOK'
    BY <2>2, UncommittedTypes DEF Results
  <2> QED BY <1>1, <2>1, <2>2 DEF SubmitPrompt, CommitOr, Unwritten
<1>2. ASSUME NEW i \in Inputs, SubmitSteering(i)
      PROVE  DriverTypeOK'
  <2>1. ASSUME Track(TurnKind), kept' = [kept EXCEPT !.policy = FALSE], UNCHANGED workVars
        PROVE  DriverTypeOK'
    <3>1. retry' \in Retries /\ edge' \in Edges /\ pc' \in Places /\ rc' \in Results
      BY <2>1, TrackTypes DEF TurnKind
    <3>2. kept' \in KeptFlags
      BY <2>1 DEF KeptFlags
    <3> QED BY <2>1, <3>1, <3>2 DEF workVars
  <2>2. ASSUME UNCHANGED <<hostVars, workVars>>, pc' = "held", rc' = "broken"
        PROVE  DriverTypeOK'
    BY <2>2, UncommittedTypes DEF Results
  <2> QED BY <1>2, <2>1, <2>2 DEF SubmitSteering, CommitOr, Unwritten
<1>3. ASSUME SubmitRetry
      PROVE  DriverTypeOK'
  <2>1. CASE TrackQuietly("direct")
    BY <2>1, TrackTypes DEF TrackQuietly, workVars
  <2>2. ASSUME edge' = [edge EXCEPT !.interrupt = FALSE, !.control = TRUE],
               Quietly("chain"), UNCHANGED <<retry, kept>>
        PROVE  DriverTypeOK'
    BY <2>2 DEF Quietly, Goto, workVars, Edges
  <2> QED BY <1>3, <2>1, <2>2 DEF SubmitRetry
<1>4. ASSUME NEW g \in Goals, SubmitGoal(g)
      PROVE  DriverTypeOK'
  BY <1>4 DEF SubmitGoal, Goto, Edges, hostVars, workVars
<1>5. ASSUME CancelKept
      PROVE  DriverTypeOK'
  BY <1>5 DEF CancelKept, Goto, CommitOr, Unwritten, KeptFlags, Results, hostVars, workVars
<1>6. ASSUME LeavePrompt
      PROVE  DriverTypeOK'
  BY <1>6 DEF LeavePrompt, Quietly, Goto, hostVars, workVars
<1>7. ASSUME CancelAccepted
      PROVE  DriverTypeOK'
  BY <1>7 DEF CancelAccepted, Goto, CommitOr, Unwritten, AtPrompt, Results, hostVars, workVars
<1> QED
  BY ONLY OperatorAtPrompt, <1>1, <1>2, <1>3, <1>4, <1>5, <1>6, <1>7 DEF OperatorAtPrompt

\* Every step of the driver keeps its types.
LEMMA DriverTypeStep ==
    ASSUME TypeOK, DriverTypeOK, [DriverNext]_allVars
    PROVE  DriverTypeOK'
<1>1. CASE DriverStep
  BY <1>1, CycleTypes, CallsTypes, EndTypes, LoopTypes DEF DriverStep
<1>2. ASSUME NEW h \in Calls, CommandEnds(h)
      PROVE  DriverTypeOK'
  BY <1>2 DEF CommandEnds, DriverTypeOK, HostTypes, CommandStates, hostVars
<1>3. ASSUME NEW h \in Calls, CommandOverdue(h)
      PROVE  DriverTypeOK'
  BY <1>3 DEF CommandOverdue, DriverTypeOK, HostTypes, hostVars
<1>4. CASE OperatorNext \/ OperatorAtPrompt
  BY <1>4, OperatorTypes, PromptTypes
<1>5. CASE Crash
  BY <1>5 DEF Crash, DriverTypeOK, HostTypes, Places, hostVars, workVars
<1>6. CASE Restart
  <2>1. retry' \in Retries /\ edge' \in Edges
    BY <1>6, DriverAssumption DEF Restart, NoRetry, Retries, GoalViews, NoEdge, Edges
  <2>2. batch' \in Batches /\ closing' \in Closings
    BY <1>6, NoBatchTypes DEF Restart, NoClosing, Closings, EndEvents, Results
  <2>3. command' \in [Calls -> CommandStates] /\ late' \subseteq Calls
    BY <1>6 DEF Restart, CommandStates
  <2> QED
    BY <1>6, <2>1, <2>2, <2>3 DEF Restart, DriverTypeOK, HostTypes, Places, Results
<1>7. CASE Stopped \/ UNCHANGED allVars
  BY <1>7 DEF Stopped, allVars, driverVars, DriverTypeOK, HostTypes, hostVars, workVars
<1> QED
  BY <1>1, <1>2, <1>3, <1>4, <1>5, <1>6, <1>7 DEF DriverNext
-----------------------------------------------------------------------------
(***************************************************************************)
(* What holds of the driver and the session together, and the refinement:  *)
(* every step of the driver is a step of the session or leaves it alone.   *)
(***************************************************************************)
\* What a session and its driver satisfy together: the reducer's invariant, and
\* the types of what the driver keeps beside it.
DriverBase == SessionInv /\ PromptShape /\ DriverTypeOK

\* It holds of a session that was just created.
LEMMA DriverBaseInit == DriverInit => DriverBase
<1> SUFFICES ASSUME DriverInit PROVE DriverBase
  OBVIOUS
<1>1. SessionInv
  BY InitInv DEF DriverInit
<1>2. PromptShape
  BY DEF DriverInit, Init, PromptShape
<1>3. edge \in Edges /\ kept \in KeptFlags /\ retry \in Retries
  BY DriverAssumption DEF DriverInit, HostInit, NoEdge, Edges, NoneKept, KeptFlags,
     NoRetry, Retries, GoalViews
<1>4. batch \in Batches /\ closing \in Closings
  BY NoBatchTypes DEF DriverInit, HostInit, NoClosing, Closings, EndEvents, Results
<1>5. command \in [Calls -> CommandStates] /\ late \subseteq Calls
  BY DEF DriverInit, HostInit, CommandStates
<1>6. DriverTypeOK
  BY <1>3, <1>4, <1>5 DEF DriverInit, HostInit, DriverTypeOK, HostTypes, Places, Results
<1> QED
  BY <1>1, <1>2, <1>6 DEF DriverBase

\* A step of the driver is an event of the reducer, or leaves the session alone.
LEMMA StepIsEvent == DriverBase /\ [DriverNext]_allVars => [Next]_vars
<1> SUFFICES ASSUME DriverBase, [DriverNext]_allVars PROVE [Next]_vars
  OBVIOUS
<1>1. TypeOK /\ PromptShape /\ HostTypes
  BY DEF DriverBase, SessionInv, DriverTypeOK
<1> QED
  BY <1>1, StepEmits, EmittedIsEvent

\* Every step of the driver keeps it.
LEMMA DriverBaseStep == DriverBase /\ [DriverNext]_allVars => DriverBase'
<1> SUFFICES ASSUME DriverBase, [DriverNext]_allVars PROVE DriverBase'
  OBVIOUS
<1>1. TypeOK /\ PromptShape /\ DriverTypeOK /\ HostTypes
  BY DEF DriverBase, SessionInv, DriverTypeOK
<1>2. SessionInv'
  BY StepIsEvent, InvStep DEF DriverBase
<1>3. PromptShape'
  BY <1>1, StepEmits, EmittedKeepsPrompt
<1>4. DriverTypeOK'
  BY <1>1, DriverTypeStep
<1> QED
  BY <1>2, <1>3, <1>4 DEF DriverBase

\* In every state of a driven session, through restarts and failed writes, the
\* session satisfies the reducer's invariant and the driver's state has its types.
THEOREM DriverSafe == DriverSpec => []DriverBase
BY DriverBaseInit, DriverBaseStep, PTL DEF DriverSpec

\* The driver's own state has its types in every reachable state: no attempt is
\* taken back below zero, and every position is one of run_turn and its callers.
THEOREM DriverTypes == DriverSpec => []DriverTypeOK
<1>1. DriverBase => DriverTypeOK
  BY DEF DriverBase
<1> QED BY <1>1, DriverSafe, PTL

\* The driver implements the session: it starts from a session just created, and
\* every one of its steps commits an event the reducer admits, or nothing.
THEOREM DriverImplementsSession == DriverSpec => Spec
<1>1. DriverInit => Init
  BY DEF DriverInit
<1>2. DriverBase /\ [DriverNext]_allVars => [Next]_vars
  BY StepIsEvent
<1> QED BY <1>1, <1>2, DriverSafe, PTL DEF DriverSpec, Spec

\* So what is proved of the reducer holds while it is driven: results are not
\* dropped, steering and accepted prompts are honoured, finished goals stay so.
THEOREM DrivenSessionIsHonest ==
    DriverSpec => /\ NoResultDropped /\ SteeringIsHonoured
                  /\ AcceptedPromptIsHonoured /\ FinishedGoalStaysFinished
BY DriverImplementsSession, ResultsKept, SteeringHonoured, PromptHonoured, GoalsStayFinished, PTL
-----------------------------------------------------------------------------
(***************************************************************************)
(* Which commands are known to the session. Most steps start no command    *)
(* and lose none (Calm); the others are looked at one by one.              *)
(***************************************************************************)
\* Only the events of tools change which commands a session knows.
LEMMA ProcessesKept ==
    /\ \A i : SteeringAdded(i) => UNCHANGED processes
    /\ \A ids : InputAdmitted(ids) => UNCHANGED processes
    /\ \A origin, ro, m : InputReceived(origin, ro, m) => UNCHANGED processes
    /\ \A kind, ro, m : TurnStarted(kind, ro, m) => UNCHANGED processes
    /\ TurnRecovery \/ TurnCompleted \/ TurnInterrupted \/ TurnFailed => UNCHANGED processes
    /\ \A m : TurnFallbackStarted(m) => UNCHANGED processes
    /\ TurnModelChanged \/ TurnCancelRequested => UNCHANGED processes
    /\ \A irc : ResponseStarted(irc) => UNCHANGED processes
    /\ ResponseCapacityRejected => UNCHANGED processes
    /\ \A i, cyber : ResponseOutputCorrection(i, cyber) => UNCHANGED processes
    /\ \A end : ResponseInterrupted(end) => UNCHANGED processes
    /\ \A newInput : ResponseFailed(newInput) => UNCHANGED processes
    /\ \A graph, end : ResponseCompleted(graph, end) => UNCHANGED processes
    /\ \A src, reduce, scope : CompactionStarted(src, reduce, scope) => UNCHANGED processes
    /\ CompactionInterrupted => UNCHANGED processes
    /\ \A scope : CompactionCompleted(scope) => UNCHANGED processes
    /\ \A g \in Goals : GoalStarted(g) \/ GoalPaused(g) \/ GoalResumed(g) => UNCHANGED processes
<1>1. /\ \A i : SteeringAdded(i) => UNCHANGED processes
      /\ \A ids : InputAdmitted(ids) => UNCHANGED processes
      /\ \A origin, ro, m : InputReceived(origin, ro, m) => UNCHANGED processes
  BY DEF SteeringAdded, InputAdmitted, InputReceived, NotInputVars, SteeringFits, AdmissionFits,
       ReceiptFits
<1>2. /\ \A kind, ro, m : TurnStarted(kind, ro, m) => UNCHANGED processes
      /\ TurnRecovery \/ TurnCompleted \/ TurnInterrupted \/ TurnFailed => UNCHANGED processes
      /\ \A m : TurnFallbackStarted(m) => UNCHANGED processes
      /\ TurnModelChanged \/ TurnCancelRequested => UNCHANGED processes
  BY DEF TurnStarted, TurnRecovery, TurnCompleted, TurnInterrupted, TurnFailed, ClearTurn,
     TurnFallbackStarted, TurnModelChanged, TurnCancelRequested, TurnMayStart, RecoverableTurn,
       AnsweredTurn, FallbackMayStart, ModelMayChange
<1>3. /\ \A irc : ResponseStarted(irc) => UNCHANGED processes
      /\ ResponseCapacityRejected => UNCHANGED processes
      /\ \A i, cyber : ResponseOutputCorrection(i, cyber) => UNCHANGED processes
      /\ \A end : ResponseInterrupted(end) => UNCHANGED processes
      /\ \A newInput : ResponseFailed(newInput) => UNCHANGED processes
      /\ \A graph, end : ResponseCompleted(graph, end) => UNCHANGED processes
  BY DEF ResponseStarted, OpenResponse, ResponseCapacityRejected, ResponseOutputCorrection,
     ResponseInterrupted, ResponseFailed, ResponseCompleted, OutsideVars, CorrectionFits,
       InterruptFits, CompletionFits
<1>4. /\ \A src, reduce, scope : CompactionStarted(src, reduce, scope) => UNCHANGED processes
      /\ CompactionInterrupted => UNCHANGED processes
      /\ \A scope : CompactionCompleted(scope) => UNCHANGED processes
  BY DEF CompactionStarted, CompactionInterrupted, CompactionCompleted, BesideContext,
       CompactionMayStart, SummaryFits
<1>5. \A g \in Goals : GoalStarted(g) \/ GoalPaused(g) \/ GoalResumed(g) => UNCHANGED processes
  BY DEF GoalStarted, GoalPaused, GoalResumed, BesideGoals
<1> QED
  BY <1>1, <1>2, <1>3, <1>4, <1>5

\* A result that does not say the command ended keeps it.
LEMMA ResultKeepsCommand ==
    ASSUME NEW c, NEW status, ToolFinished(c, status), ~Running(c) \/ status # "ended"
    PROVE  UNCHANGED processes
BY DEF ToolFinished, ResultFits

\* What the operator does while a turn runs changes no call and no command.
LEMMA TypingKeepsCalls ==
    OperatorNext => UNCHANGED <<pc, processes, pendingCalls, command, late, batch, activeTurn, responseOpen>>
<1> SUFFICES ASSUME OperatorNext
             PROVE  UNCHANGED <<pc, processes, pendingCalls, command, late, batch, activeTurn, responseOpen>>
  OBVIOUS
<1> USE DEF Typing, workVars
<1>1. ASSUME NEW i \in Inputs, SteerTyped(i)
      PROVE  UNCHANGED <<pc, processes, pendingCalls, command, late, batch, activeTurn, responseOpen>>
  BY <1>1 DEF SteerTyped, SteeringAdded, NotInputVars, turnVars, responseVars, SteeringFits
<1>2. CASE SteerReturned \/ ControlTyped \/ ExitTyped
  BY <1>2 DEF SteerReturned, ControlTyped, ExitTyped, vars, turnVars, responseVars
<1>3. ASSUME NEW m \in Models, ModelTyped(m)
      PROVE  UNCHANGED <<pc, processes, pendingCalls, command, late, batch, activeTurn, responseOpen>>
  BY <1>3 DEF ModelTyped, ModelSelectionChanged, turnVars, responseVars
<1>4. ASSUME NEW g \in Goals, GoalTyped(g)
      PROVE  UNCHANGED <<pc, processes, pendingCalls, command, late, batch, activeTurn, responseOpen>>
  BY <1>4 DEF GoalTyped, GoalPaused, GoalResumed, GoalCompleted, BesideGoals, turnVars,
     responseVars
<1>5. CASE InterruptTyped
  BY <1>5 DEF InterruptTyped, TurnCancelRequested, InputCancelled, NotInputVars, vars,
     turnVars, responseVars
<1> QED
  BY <1>1, <1>2, <1>3, <1>4, <1>5 DEF OperatorNext

\* A step after which every command the driver manages is one it managed, and the
\* session knows the commands it knew.
Calm ==
    /\ UNCHANGED processes
    /\ \A h \in Calls : command[h] = "none" => command'[h] = "none"
    /\ pc' # "tool"

\* A step of run_turn starts no command and loses none.
LEMMA CycleCalm ==
    ASSUME HostTypes, CycleNext
    PROVE  Calm
<1> USE ProcessesKept DEF Calm
<1>1. ASSUME BeginTurn
      PROVE  Calm
  BY <1>1 DEF BeginTurn, Goto, Commit, CommitOr, Unwritten, workVars, vars, NextPrompt
<1>2. ASSUME ContinueTurn
      PROVE  Calm
  BY <1>2 DEF ContinueTurn, Quietly, Goto, workVars, vars
<1>3. ASSUME StartCycle
      PROVE  Calm
  BY <1>3 DEF StartCycle, Quietly, Goto, workVars, vars
<1>4. ASSUME CycleExhausted
      PROVE  Calm
  BY <1>4 DEF CycleExhausted, FailTurn, CommitOr, Unwritten, BeginClosing, CloseAll, workVars,
     vars
<1>5. ASSUME LeaveCycle
      PROVE  Calm
  BY <1>5 DEF LeaveCycle, Return, workVars, vars
<1>6. ASSUME InterruptCycle
      PROVE  Calm
  BY <1>6 DEF InterruptCycle, InterruptTurn, BeginClosing, CloseAll, vars
<1>7. ASSUME SelectModel
      PROVE  Calm
  BY <1>7 DEF SelectModel, Goto, Commit, CommitOr, Unwritten, workVars, vars
<1>8. ASSUME AdmitInput
      PROVE  Calm
  BY <1>8 DEF AdmitInput, Goto, Commit, CommitOr, Unwritten, workVars, vars
<1>9. ASSUME PrepareSteered
      PROVE  Calm
  BY <1>9 DEF PrepareSteered, Quietly, Goto, workVars, vars
<1>10. ASSUME PrepareInterrupted
      PROVE  Calm
  BY <1>10 DEF PrepareInterrupted, InterruptTurn, BeginClosing, CloseAll, vars
<1>11. ASSUME PrepareLeaves
      PROVE  Calm
  BY <1>11 DEF PrepareLeaves, Return, workVars, vars
<1>12. ASSUME PrepareFails
      PROVE  Calm
  BY <1>12 DEF PrepareFails, FailTurn, CommitOr, Unwritten, BeginClosing, CloseAll, workVars,
     vars
<1>13. ASSUME NEW src \in 1..turnCount, CompactRequest(src)
      PROVE  Calm
  BY <1>13 DEF CompactRequest, Goto, Commit, CommitOr, Unwritten, workVars, vars
<1>14. ASSUME CompactFinishes
      PROVE  Calm
  BY <1>14 DEF CompactFinishes, Goto, Commit, CommitOr, Unwritten, workVars, vars
<1>15. ASSUME CompactStops
      PROVE  Calm
  BY <1>15 DEF CompactStops, Goto, Commit, CommitOr, Unwritten, workVars, vars
<1>16. ASSUME StartResponse
      PROVE  Calm
  BY <1>16 DEF StartResponse, Goto, Commit, CommitOr, Unwritten, workVars, vars
<1>17. ASSUME RenderFails
      PROVE  Calm
  BY <1>17 DEF RenderFails, Return, workVars, vars
<1>18. ASSUME ResponseSteered
      PROVE  Calm
  BY <1>18 DEF ResponseSteered, CutResponse, Goto, Commit, CommitOr, Unwritten, workVars, vars
<1>19. ASSUME ResponseControlled
      PROVE  Calm
  BY <1>19 DEF ResponseControlled, CutResponse, Goto, Commit, CommitOr, Unwritten, workVars,
     vars
<1>20. ASSUME ResponseCancelled
      PROVE  Calm
  BY <1>20 DEF ResponseCancelled, CutResponse, Goto, Commit, CommitOr, Unwritten, workVars, vars
<1>21. ASSUME CancelTurn
      PROVE  Calm
  BY <1>21 DEF CancelTurn, InterruptTurn, BeginClosing, CloseAll, vars
<1>22. ASSUME NEW i \in Inputs, NEW cyber \in BOOLEAN, CorrectOutput(i, cyber)
      PROVE  Calm
  BY <1>22 DEF CorrectOutput, Goto, Commit, CommitOr, Unwritten, workVars, vars
<1>23. ASSUME RejectCapacity
      PROVE  Calm
  BY <1>23 DEF RejectCapacity, Goto, Commit, CommitOr, Unwritten, workVars, vars
<1>24. ASSUME TryFallback
      PROVE  Calm
  BY <1>24 DEF TryFallback, Goto, Commit, CommitOr, Unwritten, workVars, vars
<1>25. ASSUME StartFallback
      PROVE  Calm
  BY <1>25 DEF StartFallback, Goto, Commit, CommitOr, Unwritten, workVars, vars
<1>26. ASSUME NEW kind \in FailureKinds, FailResponse(kind)
      PROVE  Calm
  BY <1>26 DEF FailResponse, Return, Unwritten, workVars, vars
<1>27. ASSUME Failing
      PROVE  Calm
  BY <1>27 DEF Failing, FailTurn, CommitOr, Unwritten, BeginClosing, CloseAll, workVars, vars
<1>28. ASSUME ProviderReturns
      PROVE  Calm
  BY <1>28 DEF ProviderReturns, Quietly, Goto, workVars, vars
<1>29. ASSUME NEW graph \in Graphs, NEW end \in Outcomes, CompleteResponse(graph, end)
      PROVE  Calm
  BY <1>29 DEF CompleteResponse, Goto, Commit, CommitOr, Unwritten, workVars, vars
<1>30. ASSUME NEW c \in Calls, SettleConflict(c)
      PROVE  Calm
  BY <1>30, ResultKeepsCommand DEF SettleConflict, Terminalize, CommitOr, Unwritten,
     Collected, Owed, workVars, vars
<1>31. ASSUME SettleConflicted
      PROVE  Calm
  BY <1>31 DEF SettleConflicted, workVars, vars
<1>32. ASSUME SettleSteered
      PROVE  Calm
  BY <1>32 DEF SettleSteered, Quietly, Goto, workVars, vars
<1>33. ASSUME SettleRefuses
      PROVE  Calm
  BY <1>33 DEF SettleRefuses, Quietly, Goto, workVars, vars
<1>34. ASSUME SettleWaits
      PROVE  Calm
  BY <1>34 DEF SettleWaits, Quietly, Goto, workVars, vars
<1>35. ASSUME SettleUnsettled
      PROVE  Calm
  BY <1>35 DEF SettleUnsettled, FailTurn, CommitOr, Unwritten, BeginClosing, CloseAll, workVars,
     vars
<1>36. ASSUME SettleCompletes
      PROVE  Calm
  BY <1>36 DEF SettleCompletes, Return, Commit, CommitOr, Unwritten, workVars, vars
<1>37. ASSUME SettleNonproductive
      PROVE  Calm
  BY <1>37 DEF SettleNonproductive, FailTurn, CommitOr, Unwritten, BeginClosing, CloseAll,
     workVars, vars
<1>38. ASSUME SettleCalls
      PROVE  Calm
  BY <1>38 DEF SettleCalls, BatchStart, vars
<1>39. ASSUME WaitControlled
      PROVE  Calm
  BY <1>39 DEF WaitControlled, Quietly, Goto, workVars, vars
<1>40. ASSUME WaitEnds
      PROVE  Calm
  BY <1>40 DEF WaitEnds, Quietly, Goto, workVars, vars
<1> QED
  BY <1>1, <1>2, <1>3, <1>4, <1>5, <1>6, <1>7, <1>8, <1>9, <1>10, <1>11, <1>12, <1>13, <1>14,
     <1>15, <1>16, <1>17, <1>18, <1>19, <1>20, <1>21, <1>22, <1>23, <1>24, <1>25, <1>26,
     <1>27, <1>28, <1>29, <1>30, <1>31, <1>32, <1>33, <1>34, <1>35, <1>36, <1>37, <1>38,
     <1>39, <1>40 DEF CycleNext

\* Of a batch of calls only the steps named here do more.
LEMMA CallsCalm ==
    ASSUME HostTypes, CallsNext
    PROVE  \/ Calm
           \/ \E c \in Calls : BatchCollects(c)
           \/ \E c \in Calls : BatchStarts(c)
           \/ \E c \in Calls : ToolRuns(c)
           \/ \E c \in Calls : ToolReturns(c)
           \/ \E c \in Calls : HandBack(c)
<1> USE ProcessesKept DEF Calm
<1>1. ASSUME NEW c \in Calls, BatchRuleRejects(c)
      PROVE  Calm
  BY <1>1, ResultKeepsCommand DEF BatchRuleRejects, FinishVisited, Goto, Commit, Collected,
     CommitOr, Unwritten, workVars, vars
<1>2. ASSUME NEW c \in Calls, BatchCancelled(c)
      PROVE  Calm
  BY <1>2 DEF BatchCancelled, CloseAll, HandOff, Goto, vars
<1>3. ASSUME NEW c \in Calls, BatchOverdue(c)
      PROVE  Calm
  BY <1>3 DEF BatchOverdue, HandOff, Goto, vars
<1>4. ASSUME NEW c \in Calls, BatchPasses(c)
      PROVE  Calm
  BY <1>4 DEF BatchPasses, Admitted, Visiting, vars
<1>5. ASSUME NEW c \in Calls, BatchYields(c)
      PROVE  Calm
  BY <1>5 DEF BatchYields, HandOff, Goto, vars
<1>6. ASSUME NEW c \in Calls, BatchRejects(c)
      PROVE  Calm
  BY <1>6, ResultKeepsCommand DEF BatchRejects, Goto, Commit, CommitOr, Unwritten, workVars,
     vars
<1>7. ASSUME NEW c \in Calls, BatchSkips(c)
      PROVE  Calm
  BY <1>7 DEF BatchSkips, Admitted, Visiting, vars
<1>8. ASSUME BatchDone
      PROVE  Calm
  BY <1>8 DEF BatchDone, Goto, vars
<1>9. ASSUME WaveHandsOff
      PROVE  Calm
  BY <1>9 DEF WaveHandsOff, HandOff, Goto, vars
<1>10. ASSUME NextWave
      PROVE  Calm
  BY <1>10 DEF NextWave, WaveOver, vars
<1>11. ASSUME HandoffDone
      PROVE  Calm
  BY <1>11 DEF HandoffDone, Goto, vars
<1>12. ASSUME HandoffInterrupts
      PROVE  Calm
  BY <1>12 DEF HandoffInterrupts, InterruptTurn, BeginClosing, CloseAll, vars
<1> QED
  BY <1>1, <1>2, <1>3, <1>4, <1>5, <1>6, <1>7, <1>8, <1>9, <1>10, <1>11, <1>12 DEF CallsNext

\* So does the closing of a turn, but for the commands it closes.
LEMMA EndCalm ==
    ASSUME HostTypes, EndNext
    PROVE  \/ Calm
           \/ \E h \in Calls : CloseLost(h)
           \/ CloseCollects
<1> USE ProcessesKept DEF Calm
<1>1. ASSUME NEW h \in Calls, CloseNext(h)
      PROVE  Calm
  BY <1>1 DEF CloseNext, Goto, vars
<1>2. ASSUME CloseCancels
      PROVE  Calm
  BY <1>2 DEF CloseCancels, vars
<1>3. ASSUME CloseGivesUp
      PROVE  Calm
  BY <1>3 DEF CloseGivesUp, Goto, CommitClosing, CommitOr, Unwritten, ClosedWith, HostTypes,
     Closings, workVars, vars
<1>4. ASSUME CloseEnd
      PROVE  Calm
  BY <1>4 DEF CloseEnd, CommitClosing, CommitOr, Unwritten, EndEvent, HostTypes, Closings,
     workVars, vars
<1> QED
  BY <1>1, <1>2, <1>3, <1>4 DEF EndNext

\* The loop around run_turn starts none and loses none, but for results it collects.
LEMMA LoopCalm ==
    ASSUME HostTypes, LoopNext
    PROVE  \/ Calm
           \/ \E c \in Calls : ReconcileCall(c)
<1> USE ProcessesKept DEF Calm
<1>1. ASSUME ReturnedPauses
      PROVE  Calm
  BY <1>1 DEF ReturnedPauses, Goto, CommitOr, Unwritten, PauseGoal, workVars, vars
<1>2. ASSUME ReturnedAwaitsClarification
      PROVE  Calm
  BY <1>2 DEF ReturnedAwaitsClarification, EnterBackoff, Quietly, Goto, workVars, vars
<1>3. ASSUME ReturnedFinishes
      PROVE  Calm
  BY <1>3 DEF ReturnedFinishes, Quietly, Goto, workVars, vars
<1>4. ASSUME ReturnedRetries
      PROVE  Calm
  BY <1>4 DEF ReturnedRetries, EnterBackoff, Quietly, Goto, workVars, vars
<1>5. ASSUME BackoffControlled
      PROVE  Calm
  BY <1>5 DEF BackoffControlled, Waits, Quietly, Goto, workVars, vars
<1>6. ASSUME BackoffHolds
      PROVE  Calm
  BY <1>6 DEF BackoffHolds, Waits, Quietly, Goto, workVars, vars
<1>7. ASSUME BackoffInterrupted
      PROVE  Calm
  BY <1>7 DEF BackoffInterrupted, InterruptTurn, BeginClosing, CloseAll, workVars, vars
<1>8. ASSUME BackoffLosesGoal
      PROVE  Calm
  BY <1>8 DEF BackoffLosesGoal, InterruptTurn, BeginClosing, CloseAll, workVars, vars
<1>9. ASSUME BackoffClarified
      PROVE  Calm
  BY <1>9 DEF BackoffClarified, Quietly, Goto, workVars, vars
<1>10. ASSUME BackoffEnds
      PROVE  Calm
  BY <1>10 DEF BackoffEnds, Quietly, Goto, workVars, vars
<1>11. ASSUME ReconcileResponse
      PROVE  Calm
  BY <1>11 DEF ReconcileResponse, Goto, CommitOr, Unwritten, Unreconciled, workVars, vars
<1>12. ASSUME ReconcileEnds
      PROVE  Calm
  BY <1>12 DEF ReconcileEnds, Goto, CommitOr, Unwritten, Unreconciled, workVars, vars
<1>13. ASSUME ReconcileAgain
      PROVE  Calm
  BY <1>13 DEF ReconcileAgain, Quietly, Goto, workVars, vars
<1>14. ASSUME FinishPauses
      PROVE  Calm
  BY <1>14 DEF FinishPauses, Goto, Quietly, CommitOr, Unwritten, PauseGoal, workVars, vars
<1>15. ASSUME FinishEnds
      PROVE  Calm
  BY <1>15 DEF FinishEnds, Quietly, InterruptTurn, BeginClosing, CloseAll, Goto,
     workVars, vars
<1>16. ASSUME LeaveTracked
      PROVE  Calm
  BY <1>16 DEF LeaveTracked, Quietly, Goto, workVars, vars
<1>17. ASSUME PauseAfter
      PROVE  Calm
  BY <1>17 DEF PauseAfter, Goto, Quietly, CommitOr, Unwritten, PauseGoal, workVars, vars
<1>18. ASSUME ChainControlled
      PROVE  Calm
  BY <1>18 DEF ChainControlled, Quietly, Goto, workVars, vars
<1>19. ASSUME ChainPrompt
      PROVE  Calm
  BY <1>19 DEF ChainPrompt, TrackQuietly, Track, workVars, vars
<1>20. ASSUME ChainTurn
      PROVE  Calm
  BY <1>20 DEF ChainTurn, TrackQuietly, Track, workVars, vars
<1>21. ASSUME ChainGoal
      PROVE  Calm
  BY <1>21 DEF ChainGoal, TrackQuietly, Track, workVars, vars
<1>22. ASSUME ChainRests
      PROVE  Calm
  BY <1>22 DEF ChainRests, Quietly, Goto, workVars, vars
<1>23. ASSUME NEW c \in Calls, CancelKeptCall(c)
      PROVE  Calm
  BY <1>23, ResultKeepsCommand DEF CancelKeptCall, Terminalize, CommitOr, Unwritten,
     Collected, Owed, workVars, vars
<1>24. ASSUME CancelKeptEnds
      PROVE  Calm
  BY <1>24 DEF CancelKeptEnds, InterruptTurn, BeginClosing, CloseAll, vars
<1>25. ASSUME RecoverCompaction
      PROVE  Calm
  BY <1>25 DEF RecoverCompaction, Goto, CommitOr, Unwritten, workVars, vars
<1>26. ASSUME RecoverResponse
      PROVE  Calm
  BY <1>26 DEF RecoverResponse, Goto, CommitOr, Unwritten, workVars, vars
<1>27. ASSUME RecoverNothing
      PROVE  Calm
  BY <1>27 DEF RecoverNothing, Quietly, Goto, workVars, vars
<1>28. ASSUME RecoverAnswered
      PROVE  Calm
  BY <1>28 DEF RecoverAnswered, Goto, CommitOr, Unwritten, workVars, vars
<1>29. ASSUME NEW c \in Calls, RecoverCall(c)
      PROVE  Calm
  BY <1>29, ResultKeepsCommand DEF RecoverCall, Terminalize, CommitOr, Unwritten, Collected,
     Owed, Recovering, workVars, vars
<1>30. ASSUME RecoverTurn
      PROVE  Calm
  BY <1>30 DEF RecoverTurn, InterruptTurn, BeginClosing, CloseAll, vars
<1> QED
  BY <1>1, <1>2, <1>3, <1>4, <1>5, <1>6, <1>7, <1>8, <1>9, <1>10, <1>11, <1>12, <1>13, <1>14,
     <1>15, <1>16, <1>17, <1>18, <1>19, <1>20, <1>21, <1>22, <1>23, <1>24, <1>25, <1>26,
     <1>27, <1>28, <1>29, <1>30 DEF LoopNext

\* Nor does what is done at the prompt.
LEMMA PromptCalm ==
    ASSUME HostTypes, OperatorAtPrompt
    PROVE  Calm
<1> USE ProcessesKept DEF Calm
<1>1. ASSUME SubmitPrompt
      PROVE  Calm
  BY <1>1 DEF SubmitPrompt, CommitOr, Unwritten, Track, workVars, vars
<1>2. ASSUME NEW i \in Inputs, SubmitSteering(i)
      PROVE  Calm
  BY <1>2 DEF SubmitSteering, CommitOr, Unwritten, Track, workVars, vars
<1>3. ASSUME SubmitRetry
      PROVE  Calm
  BY <1>3 DEF SubmitRetry, Quietly, TrackQuietly, Track, Goto, workVars, vars
<1>4. ASSUME NEW g \in Goals, SubmitGoal(g)
      PROVE  Calm
  BY <1>4 DEF SubmitGoal, Goto, workVars
<1>5. ASSUME CancelKept
      PROVE  Calm
  BY <1>5 DEF CancelKept, Goto, CommitOr, Unwritten, workVars, vars
<1>6. ASSUME LeavePrompt
      PROVE  Calm
  BY <1>6 DEF LeavePrompt, Quietly, Goto, workVars, vars
<1>7. ASSUME CancelAccepted
      PROVE  Calm
  <2>1. InputCancelled => UNCHANGED processes
    BY DEF InputCancelled, NotInputVars
  <2> QED BY <1>7, <2>1 DEF CancelAccepted, AtPrompt, Goto, CommitOr, Unwritten, workVars, vars
<1> QED
  BY <1>1, <1>2, <1>3, <1>4, <1>5, <1>6, <1>7 DEF OperatorAtPrompt

\* Between tool_started and the tool's run, its call is started, and the command
\* that it is to be is not there yet.
StartedCallWaits ==
    pc = "tool" =>
        /\ batch.slot \in Calls /\ Running(batch.slot)
        /\ pendingCalls[batch.slot].tool = "exec_command" =>
              command[pendingCalls[batch.slot].handle] = "none"

\* The inductive invariant of who owns which command.
OwnedInv == CommandsAreOwned /\ StartedCallWaits

\* A calm step keeps it.
LEMMA CalmKeepsOwned == ASSUME OwnedInv, Calm PROVE OwnedInv'
BY DEF OwnedInv, CommandsAreOwned, StartedCallWaits, Calm

\* So does an event that was refused or could not be written.
LEMMA UncommittedKeepsOwned ==
    ASSUME OwnedInv, UNCHANGED <<vars, hostVars, workVars>>, pc' # "tool"
    PROVE  OwnedInv'
BY DEF OwnedInv, CommandsAreOwned, StartedCallWaits, vars, workVars

\* A result that ended a command is recorded as the command is released: none is
\* kept that the session forgot.
LEMMA ReleaseKeepsOwned ==
    ASSUME HostTypes, OwnedInv, NEW c \in Calls, NEW status, ToolFinished(c, status),
           Collected(pendingCalls[c].handle), pc' # "tool",
           Running(c) /\ status = "ended" /\ pendingCalls[c].handle # NoId
              => Ready(pendingCalls[c].handle)
    PROVE  OwnedInv'
<1> DEFINE h == pendingCalls[c].handle
<1>1. processes \ {h} \subseteq processes' /\ processes' \subseteq processes
  BY DEF ToolFinished, ResultFits
<1>2. \A k \in Calls : command[k] = "none" => command'[k] = "none"
  BY DEF Collected, HostTypes
<1>3. ASSUME NEW k \in Calls, command'[k] # "none" PROVE k \in processes'
  <2>1. k \in processes
    BY <1>2, <1>3 DEF OwnedInv, CommandsAreOwned
  <2>2. CASE k # h
    BY <1>1, <2>1, <2>2
  <2>3. CASE k = h
    <3>1. k # NoId
      BY ConstantsAssumption
    <3>2. ~Ready(h)
      BY <1>3, <2>3, <3>1 DEF Collected, Ready, HostTypes
    <3>3. ~(Running(c) /\ status = "ended")
      BY <2>3, <3>1, <3>2
    <3> QED BY <2>1, <3>3, ResultKeepsCommand
  <2> QED BY <2>2, <2>3
<1> QED
  BY <1>3 DEF OwnedInv, CommandsAreOwned, StartedCallWaits

\* A started call whose command is to be run or written to finds it known.
LEMMA StartedHandleKnown ==
    ASSUME SessionInv, NEW c \in Calls, Running(c), pendingCalls[c].handle \in Calls
    PROVE  pendingCalls[c].handle \in processes
BY ConstantsAssumption DEF SessionInv, CallsCanSettle, Unfinished, Running

\* The steps of a batch that start, run or end a command keep it.
LEMMA BatchKeepsOwned ==
    ASSUME SessionInv, HostTypes, OwnedInv, NEW c \in Calls,
           BatchCollects(c) \/ BatchStarts(c) \/ ToolRuns(c) \/ ToolReturns(c) \/ HandBack(c)
    PROVE  OwnedInv'
<1>1. CASE BatchCollects(c)
  <2>1. CASE /\ ToolFinished(c, "ended") /\ Collected(pendingCalls[c].handle)
             /\ Goto("batch")
    BY <1>1, <2>1, ReleaseKeepsOwned DEF BatchCollects, Goto
  <2>2. CASE UNCHANGED <<vars, hostVars, workVars>> /\ pc' = "returned"
    BY <2>2, UncommittedKeepsOwned
  <2> QED BY <1>1, <2>1, <2>2 DEF BatchCollects, Commit, CommitOr, Unwritten
<1>2. CASE BatchStarts(c)
  <2>1. ASSUME ToolStarted(c), batch' = [Noted EXCEPT !.slot = c],
               UNCHANGED <<hostVars, command, late, closing>>
        PROVE  OwnedInv'
    <3>1. pendingCalls' = [pendingCalls EXCEPT ![c] = InState(@, "started")]
      BY <2>1 DEF ToolStarted, StartCall, CallMayStart
    <3>2. pendingCalls'[c] = InState(pendingCalls[c], "started")
      BY <3>1 DEF SessionInv, TypeOK, ResponseTypes
    <3>3. processes \subseteq processes'
      BY <2>1 DEF ToolStarted, StartCall, CallMayStart
    <3>4. batch'.slot = c
      BY <2>1 DEF Noted, HostTypes, Batches
    <3>5. pendingCalls[c].tool = "exec_command" => command[pendingCalls[c].handle] = "none"
      <4> SUFFICES ASSUME pendingCalls[c].tool = "exec_command"
                   PROVE  command[pendingCalls[c].handle] = "none"
        OBVIOUS
      <4>1. pendingCalls[c].handle = c
        BY DEF SessionInv, CallShape
      <4>2. pendingCalls[c].handle \notin Managed
        BY <1>2 DEF BatchStarts, Preparation
      <4> QED BY <4>1, <4>2 DEF Managed
    <3>6. Running(batch.slot)' /\ CommandsAreOwned'
      BY <2>1, <3>2, <3>3, <3>4 DEF Running, InState, OwnedInv, CommandsAreOwned
    <3> QED
      BY <2>1, <3>2, <3>4, <3>5, <3>6 DEF OwnedInv, StartedCallWaits, InState
  <2>2. CASE UNCHANGED <<vars, hostVars, workVars>> /\ pc' = "returned"
    BY <2>2, UncommittedKeepsOwned
  <2> QED BY <1>2, <2>1, <2>2 DEF BatchStarts, Commit, CommitOr, Unwritten
<1>3. CASE ToolRuns(c)
  <2> DEFINE h == pendingCalls[c].handle
  <2>1. Running(c)
    BY <1>3 DEF ToolRuns, OwnedInv, StartedCallWaits
  <2>2. UNCHANGED processes /\ pc' = "batch"
    BY <1>3 DEF ToolRuns, Goto, vars
  <2>3. \A k \in Calls \ {h} : command'[k] = command[k]
    BY <1>3 DEF ToolRuns, HostTypes
  <2>4. h \in Calls => h \in processes
    BY <2>1, StartedHandleKnown
  <2> QED
    BY <2>2, <2>3, <2>4 DEF OwnedInv, CommandsAreOwned, StartedCallWaits
<1>4. CASE ToolReturns(c)
  <2>1. ASSUME ToolFinished(c, "ended"), CloseAll \/ UNCHANGED command, pc' # "tool"
        PROVE  OwnedInv'
    <3>1. \A k \in Calls : command[k] = "none" => command'[k] = "none"
      BY <2>1 DEF CloseAll
    <3>2. Running(c)
      BY <1>4 DEF ToolReturns, OwnedInv, StartedCallWaits
    <3>3. processes' = processes \ {pendingCalls[c].handle}
      BY <2>1, <3>2 DEF ToolFinished, ResultFits
    <3>4. pendingCalls[c].handle \in Calls => command[pendingCalls[c].handle] = "none"
      <4>1. pendingCalls[c].tool = "exec_command" => command[pendingCalls[c].handle] = "none"
        BY <1>4 DEF ToolReturns, OwnedInv, StartedCallWaits
      <4>2. pendingCalls[c].tool # "exec_command" => pendingCalls[c].handle = NoId
        BY <1>4 DEF ToolReturns, SessionInv, CallShape
      <4> QED BY <4>1, <4>2, ConstantsAssumption
    <3> QED
      BY <2>1, <3>1, <3>3, <3>4 DEF OwnedInv, CommandsAreOwned, StartedCallWaits
  <2>2. CASE UNCHANGED <<vars, hostVars, workVars>> /\ pc' = "returned"
    BY <2>2, UncommittedKeepsOwned
  <2> QED BY <1>4, <2>1, <2>2 DEF ToolReturns, Commit, CommitOr, Unwritten, Goto
<1>5. CASE HandBack(c)
  <2>1. CASE /\ ToolFinished(c, HandedStatus(c)) /\ UNCHANGED pc
             /\ IF Running(c) THEN Collected(pendingCalls[c].handle)
                ELSE UNCHANGED <<command, late>>
    <3>1. CASE Running(c)
      <4>1. HandedStatus(c) = "ended" => Ready(pendingCalls[c].handle)
        BY <3>1 DEF HandedStatus
      <4> QED BY <1>5, <2>1, <3>1, <4>1, ReleaseKeepsOwned DEF HandBack
    <3>2. CASE ~Running(c)
      BY <1>5, <2>1, <3>2, ResultKeepsCommand, CalmKeepsOwned DEF HandBack, Calm
    <3> QED BY <3>1, <3>2
  <2>2. CASE UNCHANGED <<vars, hostVars, workVars>> /\ pc' = "returned"
    BY <2>2, UncommittedKeepsOwned
  <2> QED BY <1>5, <2>1, <2>2 DEF HandBack, Commit, CommitOr, Unwritten
<1> QED
  BY <1>1, <1>2, <1>3, <1>4, <1>5

\* A command that is closed is one this process does not manage, or releases.
LEMMA CloseKeepsOwned ==
    ASSUME HostTypes, OwnedInv, CloseCollects \/ \E h \in Calls : CloseLost(h)
    PROVE  OwnedInv'
<1>1. closing.back # "tool"
  BY DEF HostTypes, Closings
<1>2. ASSUME UNCHANGED <<vars, hostVars, workVars>>, pc' \in {closing.back, "closed", "held"}
      PROVE  OwnedInv'
  BY <1>1, <1>2, UncommittedKeepsOwned
<1>3. ASSUME NEW h \in Calls, CloseLost(h) PROVE OwnedInv'
  <2>1. ASSUME ProcessClosed(h), Goto("closing"), UNCHANGED workVars
        PROVE  OwnedInv'
    BY <1>3, <2>1 DEF CloseLost, ProcessClosed, Goto, workVars, OwnedInv, CommandsAreOwned,
       StartedCallWaits, CloseFits
  <2> QED BY <1>2, <1>3, <2>1 DEF CloseLost, CommitClosing, CommitOr, Unwritten
<1>4. CASE CloseCollects
  <2>1. ASSUME ProcessClosed(closing.target), Collected(closing.target), Goto("closing")
        PROVE  OwnedInv'
    <3>1. closing.target \in Calls => command'[closing.target] = "none"
      BY <1>4, <2>1, ConstantsAssumption DEF CloseCollects, Collected, HostTypes
    <3>2. \A k \in Calls : command[k] = "none" => command'[k] = "none"
      BY <2>1 DEF Collected, HostTypes
    <3> QED
      BY <2>1, <3>1, <3>2 DEF ProcessClosed, Goto, OwnedInv, CommandsAreOwned, StartedCallWaits,
           CloseFits
  <2> QED BY <1>2, <1>4, <2>1 DEF CloseCollects, CommitClosing, CommitOr, Unwritten
<1> QED
  BY <1>3, <1>4

\* A call that is reconciled gives back what its command gave.
LEMMA ReconcileKeepsOwned ==
    ASSUME HostTypes, OwnedInv, NEW c \in Calls, ReconcileCall(c)
    PROVE  OwnedInv'
<1>1. PICK status \in Owed(c, TRUE) :
         CommitOr("tool_finished", ResultFits(c, status), ToolFinished(c, status),
                  /\ Collected(pendingCalls[c].handle)
                  /\ UNCHANGED <<pc, rc, hostVars, batch, closing>>,
                  Unreconciled, "broken")
  BY DEF ReconcileCall, Terminalize
<1>2. CASE ToolFinished(c, status) /\ Collected(pendingCalls[c].handle) /\ UNCHANGED pc
  <2>1. Running(c) /\ status = "ended" => Ready(pendingCalls[c].handle)
    BY DEF Owed
  <2> QED BY <1>2, <2>1, ReleaseKeepsOwned DEF ReconcileCall
<1>3. CASE UNCHANGED <<vars, hostVars, workVars>> /\ pc' = Unreconciled
  BY <1>3, UncommittedKeepsOwned DEF Unreconciled
<1> QED
  BY <1>1, <1>2, <1>3 DEF CommitOr, Unwritten

\* Every step of the driver keeps it.
LEMMA OwnedStep ==
    ASSUME DriverBase, OwnedInv, [DriverNext]_allVars
    PROVE  OwnedInv'
<1>1. SessionInv /\ HostTypes
  BY DEF DriverBase, DriverTypeOK
<1>2. CASE DriverStep
  BY <1>1, <1>2, CycleCalm, CallsCalm, EndCalm, LoopCalm, CalmKeepsOwned, BatchKeepsOwned,
     CloseKeepsOwned, ReconcileKeepsOwned DEF DriverStep
<1>3. ASSUME NEW h \in Calls, CommandEnds(h) \/ CommandOverdue(h)
      PROVE  OwnedInv'
  <2>1. UNCHANGED <<vars, pc, batch>>
    BY <1>3 DEF CommandEnds, CommandOverdue
  <2>2. \A k \in Calls : command[k] = "none" => command'[k] = "none"
    BY <1>1, <1>3 DEF CommandEnds, CommandOverdue, Live, HostTypes
  <2>3. CommandsAreOwned'
    BY <2>1, <2>2 DEF OwnedInv, CommandsAreOwned, vars
  <2>4. ASSUME pc = "tool", pendingCalls[batch.slot].tool = "exec_command"
        PROVE  command'[pendingCalls[batch.slot].handle] = "none"
    <3>1. pendingCalls[batch.slot].handle = batch.slot
      BY <1>1, <2>4 DEF SessionInv, CallShape, OwnedInv, StartedCallWaits
    <3>2. batch.slot \in Calls /\ command[batch.slot] = "none"
      BY <2>4, <3>1 DEF OwnedInv, StartedCallWaits
    <3> QED BY <2>2, <3>1, <3>2
  <2> QED
    BY <2>1, <2>3, <2>4 DEF OwnedInv, StartedCallWaits, Running, vars, responseVars
<1>4. CASE OperatorNext
  BY <1>4, TypingKeepsCalls DEF OwnedInv, CommandsAreOwned, StartedCallWaits, Running
<1>5. CASE OperatorAtPrompt
  BY <1>1, <1>5, PromptCalm, CalmKeepsOwned
<1>6. CASE Crash
  BY <1>6, CalmKeepsOwned DEF Crash, Calm, vars, workVars
<1>7. CASE Restart
  <2>1. Calm
    BY <1>7 DEF Restart, Calm, vars
  <2> QED BY <2>1, CalmKeepsOwned
<1>8. CASE Stopped \/ UNCHANGED allVars
  BY <1>8 DEF Stopped, allVars, driverVars, workVars, vars, OwnedInv, CommandsAreOwned,
     StartedCallWaits, Running, responseVars
<1> QED
  BY <1>2, <1>3, <1>4, <1>5, <1>6, <1>7, <1>8 DEF DriverNext

\* A command that runs, or whose result waits, is one the session knows, in every
\* reachable state: no turn ends, and no request is built, over a command that
\* nobody would ever close.
THEOREM CommandsOwned == DriverSpec => []CommandsAreOwned
<1>1. DriverInit => OwnedInv
  BY DEF DriverInit, HostInit, OwnedInv, CommandsAreOwned, StartedCallWaits
<1>2. DriverBase /\ OwnedInv /\ [DriverNext]_allVars => OwnedInv'
  BY OwnedStep
<1>3. OwnedInv => CommandsAreOwned
  BY DEF OwnedInv
<1> QED BY <1>1, <1>2, <1>3, DriverSafe, PTL DEF DriverSpec
-----------------------------------------------------------------------------
(***************************************************************************)
(* Which steps begin or end a turn, open a response or start a call: six,  *)
(* and no other (OnlySixStir).                                             *)
(***************************************************************************)
\* A step that opens no response and starts no call.
NothingNew ==
    /\ responseOpen' => responseOpen
    /\ \A c \in Calls : Running(c)' => Running(c)

\* ... and neither begins nor ends a turn.
Still == NothingNew /\ UNCHANGED activeTurn

\* A cleared response has nothing open and nothing started.
LEMMA ClearedIsQuiet == ClearResponse => NothingNew
BY DEF ClearResponse, NothingNew, Running, NoCall

\* Only response_started opens a response, only tool_started starts a call, and
\* only a start or an end of a turn changes whether there is one.
LEMMA EventsAreStill ==
    ASSUME TypeOK
    PROVE  /\ \A i : SteeringAdded(i) => Still
           /\ \A ids : InputAdmitted(ids) => Still
           /\ \A origin, ro, m : InputReceived(origin, ro, m) => Still
           /\ TurnRecovery \/ TurnModelChanged \/ TurnCancelRequested => Still
           /\ \A m : TurnFallbackStarted(m) => Still
           /\ ResponseCapacityRejected => Still
           /\ \A i, cyber : ResponseOutputCorrection(i, cyber) => Still
           /\ \A end : ResponseInterrupted(end) => Still
           /\ \A newInput : ResponseFailed(newInput) => Still
           /\ \A graph \in ProposedCalls : \A end : ResponseCompleted(graph, end) => Still
           /\ \A src, reduce, scope : CompactionStarted(src, reduce, scope) => Still
           /\ CompactionInterrupted => Still
           /\ \A scope : CompactionCompleted(scope) => Still
           /\ \A g \in Goals : GoalStarted(g) \/ GoalPaused(g) \/ GoalResumed(g) => Still
           /\ \A c \in Calls : \A status : ToolFinished(c, status) => Still
           /\ \A h : ProcessClosed(h) => Still
           /\ UNCHANGED vars => Still
<1> DEFINE Same == UNCHANGED <<activeTurn, responseOpen, pendingCalls>>
<1>1. Same => Still
  BY DEF Still, NothingNew, Running
<1>2. ClearResponse /\ UNCHANGED activeTurn => Still
  BY ClearedIsQuiet DEF Still
<1>3. /\ \A i : SteeringAdded(i) => Still
      /\ \A ids : InputAdmitted(ids) => Still
      /\ \A origin, ro, m : InputReceived(origin, ro, m) => Still
  BY <1>1 DEF SteeringAdded, InputAdmitted, InputReceived, NotInputVars, turnVars, responseVars,
       SteeringFits, AdmissionFits, ReceiptFits
<1>4. /\ TurnRecovery \/ TurnModelChanged \/ TurnCancelRequested => Still
      /\ \A m : TurnFallbackStarted(m) => Still
  BY <1>1, <1>2 DEF TurnRecovery, TurnModelChanged, TurnCancelRequested, TurnFallbackStarted,
     turnVars, responseVars, RecoverableTurn, ModelMayChange, FallbackMayStart
<1>5. /\ ResponseCapacityRejected => Still
      /\ \A i, cyber : ResponseOutputCorrection(i, cyber) => Still
  BY <1>2 DEF ResponseCapacityRejected, ResponseOutputCorrection, turnVars, CorrectionFits
<1>6. /\ \A end : ResponseInterrupted(end) => Still
      /\ \A newInput : ResponseFailed(newInput) => Still
  BY DEF ResponseInterrupted, ResponseFailed, Still, NothingNew, Running, turnVars,
       InterruptFits
<1>7. ASSUME NEW graph \in ProposedCalls, NEW end, ResponseCompleted(graph, end)
      PROVE  Still
  <2>1. \A c \in Calls : graph[c].state # "started"
    BY DEF ProposedCalls, NoCall, ExecCall, WriteCall, PlainCall
  <2> QED
    BY <1>7, <2>1 DEF ResponseCompleted, Still, NothingNew, Running, turnVars, CompletionFits
<1>8. /\ \A src, reduce, scope : CompactionStarted(src, reduce, scope) => Still
      /\ CompactionInterrupted => Still
      /\ \A scope : CompactionCompleted(scope) => Still
  BY <1>1 DEF CompactionStarted, CompactionInterrupted, CompactionCompleted, BesideContext,
     turnVars, responseVars, CompactionMayStart, SummaryFits
<1>9. \A g \in Goals : GoalStarted(g) \/ GoalPaused(g) \/ GoalResumed(g) => Still
  BY <1>1 DEF GoalStarted, GoalPaused, GoalResumed, BesideGoals, turnVars, responseVars
<1>10. ASSUME NEW c \in Calls, NEW status, ToolFinished(c, status)
       PROVE  Still
  <2>1. UNCHANGED activeTurn /\ FinishCall(c)
    BY <1>10 DEF ToolFinished, AsideVars, turnVars, ResultFits
  <2>2. ASSUME NEW state \in {"finished", "refused"}, UNCHANGED responseOpen,
               pendingCalls' = [pendingCalls EXCEPT ![c] = InState(@, state)]
        PROVE  NothingNew
    BY <2>2 DEF TypeOK, ResponseTypes, NothingNew, Running, InState
  <2> QED
    BY <1>2, <2>1, <2>2 DEF FinishCall, Still
<1>11. \A h : ProcessClosed(h) => Still
  BY <1>1 DEF ProcessClosed, AsideVars, turnVars, responseVars, CloseFits
<1>12. UNCHANGED vars => Still
  BY <1>1 DEF vars, turnVars, responseVars
<1> QED
  BY <1>3, <1>4, <1>5, <1>6, <1>7, <1>8, <1>9, <1>10, <1>11, <1>12

\* In run_turn only these three steps start a request, or begin or end a turn.
LEMMA CycleStill ==
    ASSUME TypeOK, CycleNext
    PROVE  \/ Still
           \/ BeginTurn
           \/ StartResponse
           \/ SettleCompletes
<1> USE EventsAreStill
<1>1. ASSUME ContinueTurn
      PROVE  Still
  BY <1>1 DEF ContinueTurn, Quietly
<1>2. ASSUME StartCycle
      PROVE  Still
  BY <1>2 DEF StartCycle, Quietly
<1>3. ASSUME CycleExhausted
      PROVE  Still
  BY <1>3 DEF CycleExhausted, FailTurn, CommitOr, Unwritten, BeginClosing
<1>4. ASSUME LeaveCycle
      PROVE  Still
  BY <1>4 DEF LeaveCycle
<1>5. ASSUME InterruptCycle
      PROVE  Still
  BY <1>5 DEF InterruptCycle, InterruptTurn, BeginClosing
<1>6. ASSUME SelectModel
      PROVE  Still
  BY <1>6 DEF SelectModel, Commit, CommitOr, Unwritten
<1>7. ASSUME AdmitInput
      PROVE  Still
  BY <1>7 DEF AdmitInput, Commit, CommitOr, Unwritten
<1>8. ASSUME PrepareSteered
      PROVE  Still
  BY <1>8 DEF PrepareSteered, Quietly
<1>9. ASSUME PrepareInterrupted
      PROVE  Still
  BY <1>9 DEF PrepareInterrupted, InterruptTurn, BeginClosing
<1>10. ASSUME PrepareLeaves
      PROVE  Still
  BY <1>10 DEF PrepareLeaves
<1>11. ASSUME PrepareFails
      PROVE  Still
  BY <1>11 DEF PrepareFails, FailTurn, CommitOr, Unwritten, BeginClosing
<1>12. ASSUME NEW src \in 1..turnCount, CompactRequest(src)
      PROVE  Still
  BY <1>12 DEF CompactRequest, Commit, CommitOr, Unwritten
<1>13. ASSUME CompactFinishes
      PROVE  Still
  BY <1>13 DEF CompactFinishes, Commit, CommitOr, Unwritten
<1>14. ASSUME CompactStops
      PROVE  Still
  BY <1>14 DEF CompactStops, Commit, CommitOr, Unwritten
<1>15. ASSUME RenderFails
      PROVE  Still
  BY <1>15 DEF RenderFails
<1>16. ASSUME ResponseSteered
      PROVE  Still
  BY <1>16 DEF ResponseSteered, CutResponse, Commit, CommitOr, Unwritten
<1>17. ASSUME ResponseControlled
      PROVE  Still
  BY <1>17 DEF ResponseControlled, CutResponse, Commit, CommitOr, Unwritten
<1>18. ASSUME ResponseCancelled
      PROVE  Still
  BY <1>18 DEF ResponseCancelled, CutResponse, Commit, CommitOr, Unwritten
<1>19. ASSUME CancelTurn
      PROVE  Still
  BY <1>19 DEF CancelTurn, InterruptTurn, BeginClosing
<1>20. ASSUME NEW i \in Inputs, NEW cyber \in BOOLEAN, CorrectOutput(i, cyber)
      PROVE  Still
  BY <1>20 DEF CorrectOutput, Commit, CommitOr, Unwritten
<1>21. ASSUME RejectCapacity
      PROVE  Still
  BY <1>21 DEF RejectCapacity, Commit, CommitOr, Unwritten
<1>22. ASSUME TryFallback
      PROVE  Still
  BY <1>22 DEF TryFallback, Commit, CommitOr, Unwritten
<1>23. ASSUME StartFallback
      PROVE  Still
  BY <1>23 DEF StartFallback, Commit, CommitOr, Unwritten
<1>24. ASSUME NEW kind \in FailureKinds, FailResponse(kind)
      PROVE  Still
  BY <1>24 DEF FailResponse, Return, Unwritten
<1>25. ASSUME Failing
      PROVE  Still
  BY <1>25 DEF Failing, FailTurn, CommitOr, Unwritten, BeginClosing
<1>26. ASSUME ProviderReturns
      PROVE  Still
  BY <1>26 DEF ProviderReturns, Quietly
<1>27. ASSUME NEW graph \in Graphs, NEW end \in Outcomes, CompleteResponse(graph, end)
      PROVE  Still
  BY <1>27, DriverAssumption DEF CompleteResponse, Commit, CommitOr, Unwritten
<1>28. ASSUME NEW c \in Calls, SettleConflict(c)
      PROVE  Still
  BY <1>28 DEF SettleConflict, Terminalize, CommitOr, Unwritten
<1>29. ASSUME SettleConflicted
      PROVE  Still
  BY <1>29 DEF SettleConflicted
<1>30. ASSUME SettleSteered
      PROVE  Still
  BY <1>30 DEF SettleSteered, Quietly
<1>31. ASSUME SettleRefuses
      PROVE  Still
  BY <1>31 DEF SettleRefuses, Quietly
<1>32. ASSUME SettleWaits
      PROVE  Still
  BY <1>32 DEF SettleWaits, Quietly
<1>33. ASSUME SettleUnsettled
      PROVE  Still
  BY <1>33 DEF SettleUnsettled, FailTurn, CommitOr, Unwritten, BeginClosing
<1>34. ASSUME SettleNonproductive
      PROVE  Still
  BY <1>34 DEF SettleNonproductive, FailTurn, CommitOr, Unwritten, BeginClosing
<1>35. ASSUME SettleCalls
      PROVE  Still
  BY <1>35 DEF SettleCalls
<1>36. ASSUME WaitControlled
      PROVE  Still
  BY <1>36 DEF WaitControlled, Quietly
<1>37. ASSUME WaitEnds
      PROVE  Still
  BY <1>37 DEF WaitEnds, Quietly
<1> QED
  BY <1>1, <1>2, <1>3, <1>4, <1>5, <1>6, <1>7, <1>8, <1>9, <1>10, <1>11, <1>12, <1>13, <1>14,
     <1>15, <1>16, <1>17, <1>18, <1>19, <1>20, <1>21, <1>22, <1>23, <1>24, <1>25, <1>26,
     <1>27, <1>28, <1>29, <1>30, <1>31, <1>32, <1>33, <1>34, <1>35, <1>36, <1>37 DEF CycleNext

\* In a batch only a start starts a call.
LEMMA CallsStill ==
    ASSUME TypeOK, CallsNext
    PROVE  \/ Still
           \/ \E c \in Calls : BatchStarts(c)
<1> USE EventsAreStill
<1>1. ASSUME NEW c \in Calls, BatchRuleRejects(c)
      PROVE  Still
  BY <1>1 DEF BatchRuleRejects, FinishVisited, Commit, CommitOr, Unwritten
<1>2. ASSUME NEW c \in Calls, BatchCancelled(c)
      PROVE  Still
  BY <1>2 DEF BatchCancelled, HandOff
<1>3. ASSUME NEW c \in Calls, BatchCollects(c)
      PROVE  Still
  BY <1>3 DEF BatchCollects, Commit, CommitOr, Unwritten
<1>4. ASSUME NEW c \in Calls, BatchOverdue(c)
      PROVE  Still
  BY <1>4 DEF BatchOverdue, HandOff
<1>5. ASSUME NEW c \in Calls, BatchPasses(c)
      PROVE  Still
  BY <1>5 DEF BatchPasses
<1>6. ASSUME NEW c \in Calls, BatchYields(c)
      PROVE  Still
  BY <1>6 DEF BatchYields, HandOff
<1>7. ASSUME NEW c \in Calls, BatchRejects(c)
      PROVE  Still
  BY <1>7 DEF BatchRejects, Commit, CommitOr, Unwritten
<1>8. ASSUME NEW c \in Calls, BatchSkips(c)
      PROVE  Still
  BY <1>8 DEF BatchSkips
<1>9. ASSUME NEW c \in Calls, ToolRuns(c)
      PROVE  Still
  BY <1>9 DEF ToolRuns
<1>10. ASSUME NEW c \in Calls, ToolReturns(c)
      PROVE  Still
  BY <1>10 DEF ToolReturns, Commit, CommitOr, Unwritten
<1>11. ASSUME NEW c \in Calls, HandBack(c)
      PROVE  Still
  BY <1>11 DEF HandBack, Commit, CommitOr, Unwritten
<1>12. ASSUME BatchDone
      PROVE  Still
  BY <1>12 DEF BatchDone
<1>13. ASSUME WaveHandsOff
      PROVE  Still
  BY <1>13 DEF WaveHandsOff, HandOff
<1>14. ASSUME NextWave
      PROVE  Still
  BY <1>14 DEF NextWave
<1>15. ASSUME HandoffDone
      PROVE  Still
  BY <1>15 DEF HandoffDone
<1>16. ASSUME HandoffInterrupts
      PROVE  Still
  BY <1>16 DEF HandoffInterrupts, InterruptTurn, BeginClosing
<1> QED
  BY <1>1, <1>2, <1>3, <1>4, <1>5, <1>6, <1>7, <1>8, <1>9, <1>10, <1>11, <1>12, <1>13, <1>14,
     <1>15, <1>16 DEF CallsNext

\* In the closing of a turn only its last event ends it.
LEMMA EndStill ==
    ASSUME TypeOK, EndNext
    PROVE  \/ Still
           \/ CloseEnd
<1> USE EventsAreStill
<1>1. ASSUME NEW h \in Calls, CloseLost(h)
      PROVE  Still
  BY <1>1 DEF CloseLost, CommitClosing, CommitOr, Unwritten
<1>2. ASSUME NEW h \in Calls, CloseNext(h)
      PROVE  Still
  BY <1>2 DEF CloseNext
<1>3. ASSUME CloseCollects
      PROVE  Still
  BY <1>3 DEF CloseCollects, CommitClosing, CommitOr, Unwritten
<1>4. ASSUME CloseCancels
      PROVE  Still
  BY <1>4 DEF CloseCancels
<1>5. ASSUME CloseGivesUp
      PROVE  Still
  BY <1>5 DEF CloseGivesUp, CommitClosing, CommitOr, Unwritten, ClosedWith
<1> QED
  BY <1>1, <1>2, <1>3, <1>4, <1>5 DEF EndNext

\* Around run_turn only the recovery of an answered turn ends one.
LEMMA LoopStill ==
    ASSUME TypeOK, LoopNext
    PROVE  \/ Still
           \/ RecoverAnswered
<1> USE EventsAreStill
<1>1. ASSUME ReturnedPauses
      PROVE  Still
  BY <1>1 DEF ReturnedPauses, CommitOr, Unwritten, PauseGoal
<1>2. ASSUME ReturnedAwaitsClarification
      PROVE  Still
  BY <1>2 DEF ReturnedAwaitsClarification, EnterBackoff, Quietly
<1>3. ASSUME ReturnedFinishes
      PROVE  Still
  BY <1>3 DEF ReturnedFinishes, Quietly
<1>4. ASSUME ReturnedRetries
      PROVE  Still
  BY <1>4 DEF ReturnedRetries, EnterBackoff, Quietly
<1>5. ASSUME BackoffControlled
      PROVE  Still
  BY <1>5 DEF BackoffControlled, Waits, Quietly
<1>6. ASSUME BackoffHolds
      PROVE  Still
  BY <1>6 DEF BackoffHolds, Waits, Quietly
<1>7. ASSUME BackoffInterrupted
      PROVE  Still
  BY <1>7 DEF BackoffInterrupted, InterruptTurn, BeginClosing
<1>8. ASSUME BackoffLosesGoal
      PROVE  Still
  BY <1>8 DEF BackoffLosesGoal, InterruptTurn, BeginClosing
<1>9. ASSUME BackoffClarified
      PROVE  Still
  BY <1>9 DEF BackoffClarified, Quietly
<1>10. ASSUME BackoffEnds
      PROVE  Still
  BY <1>10 DEF BackoffEnds, Quietly
<1>11. ASSUME NEW c \in Calls, ReconcileCall(c)
      PROVE  Still
  BY <1>11 DEF ReconcileCall, Terminalize, CommitOr, Unwritten
<1>12. ASSUME ReconcileResponse
      PROVE  Still
  BY <1>12 DEF ReconcileResponse, CommitOr, Unwritten
<1>13. ASSUME ReconcileEnds
      PROVE  Still
  BY <1>13 DEF ReconcileEnds, CommitOr, Unwritten
<1>14. ASSUME ReconcileAgain
      PROVE  Still
  BY <1>14 DEF ReconcileAgain, Quietly
<1>15. ASSUME FinishPauses
      PROVE  Still
  BY <1>15 DEF FinishPauses, Quietly, CommitOr, Unwritten, PauseGoal
<1>16. ASSUME FinishEnds
      PROVE  Still
  BY <1>16 DEF FinishEnds, Quietly, InterruptTurn, BeginClosing
<1>17. ASSUME LeaveTracked
      PROVE  Still
  BY <1>17 DEF LeaveTracked, Quietly
<1>18. ASSUME PauseAfter
      PROVE  Still
  BY <1>18 DEF PauseAfter, Quietly, CommitOr, Unwritten, PauseGoal
<1>19. ASSUME ChainControlled
      PROVE  Still
  BY <1>19 DEF ChainControlled, Quietly
<1>20. ASSUME ChainPrompt
      PROVE  Still
  BY <1>20 DEF ChainPrompt, TrackQuietly
<1>21. ASSUME ChainTurn
      PROVE  Still
  BY <1>21 DEF ChainTurn, TrackQuietly
<1>22. ASSUME ChainGoal
      PROVE  Still
  BY <1>22 DEF ChainGoal, TrackQuietly
<1>23. ASSUME ChainRests
      PROVE  Still
  BY <1>23 DEF ChainRests, Quietly
<1>24. ASSUME NEW c \in Calls, CancelKeptCall(c)
      PROVE  Still
  BY <1>24 DEF CancelKeptCall, Terminalize, CommitOr, Unwritten
<1>25. ASSUME CancelKeptEnds
      PROVE  Still
  BY <1>25 DEF CancelKeptEnds, InterruptTurn, BeginClosing
<1>26. ASSUME RecoverCompaction
      PROVE  Still
  BY <1>26 DEF RecoverCompaction, CommitOr, Unwritten
<1>27. ASSUME RecoverResponse
      PROVE  Still
  BY <1>27 DEF RecoverResponse, CommitOr, Unwritten
<1>28. ASSUME RecoverNothing
      PROVE  Still
  BY <1>28 DEF RecoverNothing, Quietly
<1>29. ASSUME NEW c \in Calls, RecoverCall(c)
      PROVE  Still
  BY <1>29 DEF RecoverCall, Terminalize, CommitOr, Unwritten
<1>30. ASSUME RecoverTurn
      PROVE  Still
  BY <1>30 DEF RecoverTurn, InterruptTurn, BeginClosing
<1> QED
  BY <1>1, <1>2, <1>3, <1>4, <1>5, <1>6, <1>7, <1>8, <1>9, <1>10, <1>11, <1>12, <1>13, <1>14,
     <1>15, <1>16, <1>17, <1>18, <1>19, <1>20, <1>21, <1>22, <1>23, <1>24, <1>25, <1>26,
     <1>27, <1>28, <1>29, <1>30 DEF LoopNext

\* What is done at the prompt begins and ends none by itself.
LEMMA PromptStill ==
    ASSUME TypeOK, OperatorAtPrompt
    PROVE  Still
<1> USE EventsAreStill
<1>1. ASSUME SubmitPrompt
      PROVE  Still
  BY <1>1 DEF SubmitPrompt, CommitOr, Unwritten
<1>2. ASSUME NEW i \in Inputs, SubmitSteering(i)
      PROVE  Still
  BY <1>2 DEF SubmitSteering, CommitOr, Unwritten
<1>3. ASSUME SubmitRetry
      PROVE  Still
  BY <1>3 DEF SubmitRetry, Quietly, TrackQuietly
<1>4. ASSUME NEW g \in Goals, SubmitGoal(g)
      PROVE  Still
  BY <1>4 DEF SubmitGoal
<1>5. ASSUME CancelKept
      PROVE  Still
  BY <1>5 DEF CancelKept, CommitOr, Unwritten
<1>6. ASSUME LeavePrompt
      PROVE  Still
  BY <1>6 DEF LeavePrompt, Quietly
<1>7. ASSUME CancelAccepted
      PROVE  Still
  <2>1. InputCancelled => Still
    BY DEF InputCancelled, NotInputVars, turnVars, responseVars, attemptVars, Still, NothingNew,
       Running
  <2> QED BY <1>7, <2>1 DEF CancelAccepted, CommitOr, Unwritten
<1> QED
  BY <1>1, <1>2, <1>3, <1>4, <1>5, <1>6, <1>7 DEF OperatorAtPrompt

\* A step of the driver or of what it interleaves with that is not still is one of
\* six: a turn is begun, completed, ended or found answered, a request goes to the
\* provider, or a call is started.
LEMMA OnlySixStir ==
    ASSUME DriverBase, [DriverNext]_allVars
    PROVE  \/ Still
           \/ BeginTurn \/ SettleCompletes \/ CloseEnd \/ RecoverAnswered
           \/ StartResponse
           \/ \E c \in Calls : BatchStarts(c)
<1>1. TypeOK
  BY DEF DriverBase, SessionInv
<1>2. ASSUME UNCHANGED vars PROVE Still
  BY <1>1, <1>2, EventsAreStill
<1>3. OperatorNext => Still
  BY TypingKeepsCalls DEF Still, NothingNew, Running
<1>4. ASSUME NEW h \in Calls, CommandEnds(h) \/ CommandOverdue(h)
      PROVE  Still
  BY <1>2, <1>4 DEF CommandEnds, CommandOverdue
<1>5. Crash \/ Restart \/ Stopped \/ UNCHANGED allVars => Still
  BY <1>2 DEF Crash, Restart, Stopped, allVars
<1> QED
  BY <1>1, <1>3, <1>4, <1>5, CycleStill, CallsStill, EndStill, LoopStill, PromptStill
     DEF DriverNext, DriverStep

\* No turn is completed over text that was accepted while its provider answered,
\* unless the model had deferred it: whatever else is typed, fails or restarts.
THEOREM LateSteeringHeard == DriverSpec => LateSteeringKeepsTurn
<1>1. ASSUME DriverBase, [DriverNext]_allVars, pc = "settle", activeTurn, ~activeTurn',
             ~kept.deferred
      PROVE  ~SteeringPending'
  <2>1. ~Still
    BY <1>1 DEF Still
  <2>2. ~BeginTurn /\ ~CloseEnd /\ ~RecoverAnswered
    BY <1>1 DEF BeginTurn, CloseEnd, RecoverAnswered, Recovering, NextPrompt
  <2>3. ~StartResponse /\ \A c \in Calls : ~BatchStarts(c)
    BY <1>1 DEF StartResponse, BatchStarts, Admitted, Visiting
  <2>4. SettleCompletes
    BY <1>1, <2>1, <2>2, <2>3, OnlySixStir
  <2>5. ~(UNCHANGED vars)
    BY <1>1 DEF vars, turnVars
  <2>6. TurnCompleted
    BY <2>4, <2>5 DEF SettleCompletes, Commit, CommitOr, Unwritten
  <2>7. ~SteeringPending
    BY <1>1, <2>4 DEF SettleCompletes, Settling, LateSteering
  <2> QED
    BY <2>6, <2>7 DEF TurnCompleted, SteeringPending, AnsweredTurn
<1>2. DriverBase /\ [DriverNext]_allVars =>
         [pc = "settle" /\ activeTurn /\ ~activeTurn' /\ ~kept.deferred
             => ~SteeringPending']_allVars
  BY <1>1
<1> QED BY <1>2, DriverSafe, PTL DEF DriverSpec, LateSteeringKeepsTurn
-----------------------------------------------------------------------------
(***************************************************************************)
(* The life of a cancellation, from the durable request to the end of its  *)
(* turn.                                                                   *)
(***************************************************************************)
\* Nothing the driver committed was refused, and everything could be written.
Undisturbed == refused = {} /\ Untroubled

\* What is left of the bounds.
BudgetTypes == budget \in [edges : Nat, crashes : Nat, faults : 0..MaxFaults]

\* A turn whose cancellation is durable is on its way to its end: the Ctrl-C is
\* still to be seen, or what sees it is already closing the turn, or the process
\* that would see it has died and the next one recovers the session.
CancelPending ==
    Undisturbed /\ kept.cancel =>
        /\ pc \notin {"idle", "held", "chain", "begin", "pause"}
        /\ pc = "leave" => edge.closed
        /\ pc \in {"closing", "closeWait"} => closing.event # "turn_recovery"
        /\ edge.interrupt \/ pc \in {"closed", "recover", "cancelling", "closing",
                                     "closeWait", "leave"}

\* It is the cancellation of a turn that has not ended.
CancelledInTurn == Undisturbed /\ kept.cancel => activeTurn

\* A session is recovered by a process that manages no command yet, so nothing is
\* typed while the turn it found is made ready to go on.
RecoveryIsAlone ==
    /\ pc = "recover" => \A h \in Calls : command[h] = "none"
    /\ pc \in {"closing", "closeWait"} /\ closing.event = "turn_recovery" =>
          pc = "closing" /\ \A h \in Calls : command[h] = "none"

\* The inductive invariant of a cancellation.
CancelInv == BudgetTypes /\ CancelPending /\ CancelledInTurn /\ RecoveryIsAlone

\* The part of it that each step is looked at for.
CancelPath == BudgetTypes /\ CancelPending /\ RecoveryIsAlone

\* An event that was refused, or could not be written, disturbs.
LEMMA UncommittedDisturbs ==
    ASSUME BudgetTypes, pc' # "recover", pc' # "closing", pc' # "closeWait",
           \/ \E name : refused' = refused \cup {name} /\ UNCHANGED budget
           \/ /\ budget.faults > 0
              /\ budget' = [budget EXCEPT !.faults = @ - 1]
              /\ UNCHANGED refused
    PROVE  CancelPath'
<1>1. BudgetTypes' /\ ~Undisturbed'
  BY DriverAssumption DEF BudgetTypes, Undisturbed, Untroubled
<1> QED
  BY <1>1 DEF CancelPath, CancelPending, RecoveryIsAlone

\* A step at a place where the Ctrl-C is still to be seen keeps the cancellation on
\* its way, if it keeps the Ctrl-C.
LEMMA StillToBeSeen ==
    ASSUME CancelPath, UNCHANGED <<refused, budget>>,
           pc \notin {"closed", "recover", "cancelling", "closing", "closeWait", "leave"},
           pc' \notin {"idle", "held", "chain", "begin", "pause", "leave", "recover",
                       "closing", "closeWait"},
           kept'.cancel => kept.cancel, edge.interrupt => edge'.interrupt
    PROVE  CancelPath'
BY DEF CancelPath, BudgetTypes, CancelPending, RecoveryIsAlone, Undisturbed, Untroubled

\* So does one that begins the closing of the turn.
LEMMA ClosingIsOnItsWay ==
    ASSUME CancelPath, NEW event \in {"turn_failed", "turn_interrupted"}, NEW back, NEW ok,
           NEW bad, BeginClosing(event, back, ok, bad)
    PROVE  CancelPath'
BY DEF BeginClosing, hostVars, CancelPath, BudgetTypes, CancelPending, RecoveryIsAlone,
   Undisturbed, Untroubled

\* So does a turn that fails.
LEMMA FailingKeepsPath ==
    ASSUME CancelPath, HostTypes, NEW ok, NEW bad, FailTurn("returned", ok, bad),
           pc \in {"cycle", "prepare", "failing", "settle"}
    PROVE  CancelPath'
<1>1. ASSUME kept' = [kept EXCEPT !.attempts = retry.attempts + 1], pc' = "returned",
             UNCHANGED <<edge, refused, budget>>
      PROVE  CancelPath'
  BY <1>1, StillToBeSeen DEF HostTypes, KeptFlags
<1>2. ASSUME pc' = "returned",
             \/ \E name : refused' = refused \cup {name} /\ UNCHANGED budget
             \/ /\ budget.faults > 0
                /\ budget' = [budget EXCEPT !.faults = @ - 1]
                /\ UNCHANGED refused
      PROVE  CancelPath'
  BY <1>2, UncommittedDisturbs DEF CancelPath
<1> QED
  BY <1>1, <1>2, ClosingIsOnItsWay DEF FailTurn, CommitOr, Unwritten, workVars

\* run_turn keeps a cancellation on its way.
LEMMA CycleCancels ==
    ASSUME DriverBase, CancelInv, CycleNext
    PROVE  CancelPath'
<1>0. HostTypes
  BY DEF DriverBase, DriverTypeOK
<1>1. ASSUME BeginTurn
      PROVE  CancelPath'
  <2>1. ASSUME kept' = NoneKept, Goto("cycle"), UNCHANGED edge, UNCHANGED <<refused, budget>>
        PROVE  CancelPath'
    BY <2>1, <1>0 DEF Goto, NoneKept, CancelPath, CancelInv, BudgetTypes, CancelPending,
       RecoveryIsAlone
  <2>2. ASSUME pc' = "returned",
               \/ \E name : refused' = refused \cup {name} /\ UNCHANGED budget
               \/ /\ budget.faults > 0
                  /\ budget' = [budget EXCEPT !.faults = @ - 1]
                  /\ UNCHANGED refused
        PROVE  CancelPath'
    BY <2>2, UncommittedDisturbs DEF CancelInv
  <2> QED BY <1>1, <2>1, <2>2 DEF BeginTurn, Commit, CommitOr, Unwritten, workVars, NextPrompt
<1>2. ASSUME ContinueTurn
      PROVE  CancelPath'
  BY <1>2, DriverAssumption DEF ContinueTurn, Quietly, Goto, hostVars, workVars, CancelPath,
     CancelInv, CancelPending, RecoveryIsAlone, BudgetTypes, Undisturbed, Untroubled
<1>3. ASSUME StartCycle
      PROVE  CancelPath'
  <2>1. edge.interrupt => edge'.interrupt
    BY <1>3, <1>0 DEF StartCycle, ApplyControls, HostTypes, Edges
  <2>2. CancelPath
    BY DEF CancelPath, CancelInv
  <2>3. pc' \notin {"idle", "held", "chain", "begin", "pause", "leave", "recover", "closing", "closeWait"}
    BY <1>3 DEF StartCycle, Quietly, Goto
  <2>4. UNCHANGED <<kept, refused, budget>>
    BY <1>3 DEF StartCycle, Quietly
  <2> QED BY <1>3, <2>1, <2>2, <2>3, <2>4, StillToBeSeen DEF StartCycle
<1>4. ASSUME CycleExhausted
      PROVE  CancelPath'
  BY <1>4, <1>0, FailingKeepsPath DEF CancelPath, CancelInv, CycleExhausted
<1>5. ASSUME LeaveCycle
      PROVE  CancelPath'
  BY <1>5, DriverAssumption DEF LeaveCycle, Return, hostVars, workVars, CancelPath, CancelInv,
     CancelPending, RecoveryIsAlone, BudgetTypes, Undisturbed, Untroubled
<1>6. ASSUME InterruptCycle
      PROVE  CancelPath'
  BY <1>6, DriverAssumption DEF InterruptCycle, InterruptTurn, BeginClosing, CloseAll, hostVars,
     workVars, CancelPath, CancelInv, CancelPending, RecoveryIsAlone, BudgetTypes, Undisturbed,
     Untroubled
<1>7. ASSUME SelectModel
      PROVE  CancelPath'
  BY <1>7, DriverAssumption DEF SelectModel, Goto, Commit, CommitOr, Unwritten, hostVars,
     workVars, CancelPath, CancelInv, CancelPending, RecoveryIsAlone, BudgetTypes, Undisturbed,
     Untroubled
<1>8. ASSUME AdmitInput
      PROVE  CancelPath'
  <2>1. ASSUME edge' = [edge EXCEPT !.steering = @ /\ kept.deferred], Goto("prepare"),
               UNCHANGED <<kept, refused, budget>>
        PROVE  CancelPath'
    BY <1>8, <2>1, <1>0, StillToBeSeen DEF Goto, Edges, AdmitInput, CancelPath, CancelInv
  <2>2. ASSUME pc' = "returned",
               \/ \E name : refused' = refused \cup {name} /\ UNCHANGED budget
               \/ /\ budget.faults > 0
                  /\ budget' = [budget EXCEPT !.faults = @ - 1]
                  /\ UNCHANGED refused
        PROVE  CancelPath'
    BY <2>2, UncommittedDisturbs DEF CancelInv
  <2>3. CASE ~inputAdmitted \/ Admissible # {}
    BY <1>8, <2>1, <2>2, <2>3 DEF AdmitInput, Commit, CommitOr, Unwritten
  <2>4. CASE ~(~inputAdmitted \/ Admissible # {})
    BY <1>8, <2>1, <2>4 DEF AdmitInput
  <2> QED BY <2>3, <2>4
<1>9. ASSUME PrepareSteered
      PROVE  CancelPath'
  BY <1>9, DriverAssumption DEF PrepareSteered, Quietly, Goto, hostVars, workVars, CancelPath,
     CancelInv, CancelPending, RecoveryIsAlone, BudgetTypes, Undisturbed,
     Untroubled
<1>10. ASSUME PrepareInterrupted
      PROVE  CancelPath'
  BY <1>10, DriverAssumption DEF PrepareInterrupted, InterruptTurn, BeginClosing, CloseAll,
     hostVars, workVars, CancelPath, CancelInv, CancelPending, RecoveryIsAlone, BudgetTypes,
     Undisturbed, Untroubled
<1>11. ASSUME PrepareLeaves
      PROVE  CancelPath'
  BY <1>11, DriverAssumption DEF PrepareLeaves, Return, hostVars, workVars, CancelPath,
     CancelInv, CancelPending, RecoveryIsAlone, BudgetTypes, Undisturbed, Untroubled
<1>12. ASSUME PrepareFails
      PROVE  CancelPath'
  BY <1>12, <1>0, FailingKeepsPath DEF CancelPath, CancelInv, PrepareFails
<1>13. ASSUME NEW src \in 1..turnCount, CompactRequest(src)
      PROVE  CancelPath'
  <2>1. ASSUME Goto("compacting"), UNCHANGED <<edge, kept>>, UNCHANGED <<refused, budget>>
        PROVE  CancelPath'
    BY <1>13, <2>1, <1>0, StillToBeSeen DEF Goto, CancelPath, CancelInv, CompactRequest
  <2>2. ASSUME pc' = "returned",
               \/ \E name : refused' = refused \cup {name} /\ UNCHANGED budget
               \/ /\ budget.faults > 0
                  /\ budget' = [budget EXCEPT !.faults = @ - 1]
                  /\ UNCHANGED refused
        PROVE  CancelPath'
    BY <2>2, UncommittedDisturbs DEF CancelInv
  <2> QED BY <1>13, <2>1, <2>2 DEF CompactRequest, Commit, CommitOr, Unwritten, hostVars
<1>14. ASSUME CompactFinishes
      PROVE  CancelPath'
  BY <1>14, DriverAssumption DEF CompactFinishes, Goto, Commit, CommitOr, Unwritten,
     NothingWaits, hostVars, workVars, CancelPath, CancelInv, CancelPending, RecoveryIsAlone,
     BudgetTypes, Undisturbed, Untroubled
<1>15. ASSUME CompactStops
      PROVE  CancelPath'
  BY <1>15, DriverAssumption DEF CompactStops, Goto, Commit, CommitOr, Unwritten, NothingWaits,
     hostVars, workVars, CancelPath, CancelInv, CancelPending, RecoveryIsAlone, BudgetTypes,
     Undisturbed, Untroubled
<1>16. ASSUME StartResponse
      PROVE  CancelPath'
  BY <1>16, DriverAssumption DEF StartResponse, Goto, Commit, CommitOr, Unwritten, NothingWaits,
     hostVars, workVars, CancelPath, CancelInv, CancelPending, RecoveryIsAlone, BudgetTypes,
     Undisturbed, Untroubled
<1>17. ASSUME RenderFails
      PROVE  CancelPath'
  BY <1>17, DriverAssumption DEF RenderFails, Return, hostVars, workVars, CancelPath, CancelInv,
     CancelPending, RecoveryIsAlone, BudgetTypes, Undisturbed, Untroubled
<1>18. ASSUME ResponseSteered
      PROVE  CancelPath'
  BY <1>18, DriverAssumption DEF ResponseSteered, CutResponse, Goto, Commit, CommitOr,
     Unwritten, hostVars, workVars, CancelPath, CancelInv, CancelPending, RecoveryIsAlone,
     BudgetTypes, Undisturbed, Untroubled
<1>19. ASSUME ResponseControlled
      PROVE  CancelPath'
  BY <1>19, DriverAssumption DEF ResponseControlled, CutResponse, Goto, Commit, CommitOr,
     Unwritten, hostVars, workVars, CancelPath, CancelInv, CancelPending, RecoveryIsAlone,
     BudgetTypes, Undisturbed, Untroubled
<1>20. ASSUME ResponseCancelled
      PROVE  CancelPath'
  BY <1>20, DriverAssumption DEF ResponseCancelled, CutResponse, Goto, Commit, CommitOr,
     Unwritten, hostVars, workVars, CancelPath, CancelInv, CancelPending, RecoveryIsAlone,
     BudgetTypes, Undisturbed, Untroubled
<1>21. ASSUME CancelTurn
      PROVE  CancelPath'
  BY <1>21, DriverAssumption DEF CancelTurn, InterruptTurn, BeginClosing, CloseAll, hostVars,
     workVars, CancelPath, CancelInv, CancelPending, RecoveryIsAlone, BudgetTypes, Undisturbed,
     Untroubled
<1>22. ASSUME NEW i \in Inputs, NEW cyber \in BOOLEAN, CorrectOutput(i, cyber)
      PROVE  CancelPath'
  BY <1>22, DriverAssumption DEF CorrectOutput, Goto, Commit, CommitOr, Unwritten, NothingWaits,
     hostVars, workVars, CancelPath, CancelInv, CancelPending, RecoveryIsAlone, BudgetTypes,
     Undisturbed, Untroubled
<1>23. ASSUME RejectCapacity
      PROVE  CancelPath'
  BY <1>23, DriverAssumption DEF RejectCapacity, Goto, Commit, CommitOr, Unwritten,
     NothingWaits, hostVars, workVars, CancelPath, CancelInv, CancelPending, RecoveryIsAlone,
     BudgetTypes, Undisturbed, Untroubled
<1>24. ASSUME TryFallback
      PROVE  CancelPath'
  <2>1. ASSUME kept' = FailureKept(retry.policy), Goto("fallback"), UNCHANGED edge, UNCHANGED <<refused, budget>>
        PROVE  CancelPath'
    BY <1>24, <2>1, <1>0, StillToBeSeen DEF Goto, CancelPath, CancelInv, FailureKept,
       KeptFlags, TryFallback
  <2>2. ASSUME pc' = "returned",
               \/ \E name : refused' = refused \cup {name} /\ UNCHANGED budget
               \/ /\ budget.faults > 0
                  /\ budget' = [budget EXCEPT !.faults = @ - 1]
                  /\ UNCHANGED refused
        PROVE  CancelPath'
    BY <2>2, UncommittedDisturbs DEF CancelInv
  <2> QED BY <1>24, <2>1, <2>2 DEF TryFallback, Commit, CommitOr, Unwritten, workVars
<1>25. ASSUME StartFallback
      PROVE  CancelPath'
  BY <1>25, DriverAssumption DEF StartFallback, Goto, Commit, CommitOr, Unwritten, hostVars,
     workVars, CancelPath, CancelInv, CancelPending, RecoveryIsAlone, BudgetTypes, Undisturbed,
     Untroubled
<1>26. ASSUME NEW kind \in FailureKinds, FailResponse(kind)
      PROVE  CancelPath'
  <2>1. ASSUME kept' = FailureKept(kind = "policy"), pc' = "failing", UNCHANGED edge, UNCHANGED <<refused, budget>>
        PROVE  CancelPath'
    BY <1>26, <2>1, <1>0, StillToBeSeen DEF Goto, CancelPath, CancelInv, FailureKept,
       KeptFlags, FailResponse
  <2>2. ASSUME pc' = "returned",
               \/ \E name : refused' = refused \cup {name} /\ UNCHANGED budget
               \/ /\ budget.faults > 0
                  /\ budget' = [budget EXCEPT !.faults = @ - 1]
                  /\ UNCHANGED refused
        PROVE  CancelPath'
    BY <2>2, UncommittedDisturbs DEF CancelInv
  <2> QED BY <1>26, <2>1, <2>2 DEF FailResponse, Return, Unwritten, workVars
<1>27. ASSUME Failing
      PROVE  CancelPath'
  BY <1>27, <1>0, FailingKeepsPath DEF CancelPath, CancelInv, Failing
<1>28. ASSUME ProviderReturns
      PROVE  CancelPath'
  BY <1>28, DriverAssumption DEF ProviderReturns, Quietly, Goto, NothingWaits, hostVars,
     workVars, CancelPath, CancelInv, CancelPending, RecoveryIsAlone, BudgetTypes, Undisturbed,
     Untroubled
<1>29. ASSUME NEW graph \in Graphs, NEW end \in Outcomes, CompleteResponse(graph, end)
      PROVE  CancelPath'
  <2>1. ASSUME UNCHANGED edge, Goto("settle"),
               kept' = [kept EXCEPT !.attempts = IF end \in {"calls", "final"} THEN 0
                                                   ELSE IF end = "refusal" THEN @ ELSE @ + 1,
                                    !.policy = @ \/ end = "refusal"], UNCHANGED <<refused, budget>>
        PROVE  CancelPath'
    BY <1>29, <2>1, <1>0, StillToBeSeen DEF Goto, CancelPath, CancelInv, KeptFlags,
       CompleteResponse
  <2>2. ASSUME pc' = "returned",
               \/ \E name : refused' = refused \cup {name} /\ UNCHANGED budget
               \/ /\ budget.faults > 0
                  /\ budget' = [budget EXCEPT !.faults = @ - 1]
                  /\ UNCHANGED refused
        PROVE  CancelPath'
    BY <2>2, UncommittedDisturbs DEF CancelInv
  <2> QED BY <1>29, <2>1, <2>2 DEF CompleteResponse, Commit, CommitOr, Unwritten, workVars
<1>30. ASSUME NEW c \in Calls, SettleConflict(c)
      PROVE  CancelPath'
  BY <1>30, DriverAssumption DEF SettleConflict, Terminalize, CommitOr, Unwritten, Collected,
     hostVars, workVars, CancelPath, CancelInv, CancelPending, RecoveryIsAlone, BudgetTypes,
     Undisturbed, Untroubled
<1>31. ASSUME SettleConflicted
      PROVE  CancelPath'
  BY <1>31, DriverAssumption DEF SettleConflicted, hostVars, workVars, CancelPath, CancelInv,
     CancelPending, RecoveryIsAlone, BudgetTypes, Undisturbed, Untroubled
<1>32. ASSUME SettleSteered
      PROVE  CancelPath'
  BY <1>32, DriverAssumption DEF SettleSteered, Quietly, Goto, hostVars, workVars, CancelPath,
     CancelInv, CancelPending, RecoveryIsAlone, BudgetTypes, Undisturbed, Untroubled
<1>33. ASSUME SettleRefuses
      PROVE  CancelPath'
  BY <1>33, DriverAssumption DEF SettleRefuses, Quietly, Goto, Settling, hostVars, workVars,
     CancelPath, CancelInv, CancelPending, RecoveryIsAlone, BudgetTypes, Undisturbed, Untroubled
<1>34. ASSUME SettleWaits
      PROVE  CancelPath'
  BY <1>34, DriverAssumption DEF SettleWaits, Quietly, Goto, Settling, hostVars, workVars,
     CancelPath, CancelInv, CancelPending, RecoveryIsAlone, BudgetTypes, Undisturbed, Untroubled
<1>35. ASSUME SettleUnsettled
      PROVE  CancelPath'
  BY <1>35, <1>0, FailingKeepsPath DEF CancelPath, CancelInv, SettleUnsettled, Settling
<1>36. ASSUME SettleCompletes
      PROVE  CancelPath'
  <2>1. ASSUME kept' = NoneKept, Return("done"), UNCHANGED edge, UNCHANGED <<refused, budget>>
        PROVE  CancelPath'
    BY <1>36, <2>1, <1>0, StillToBeSeen DEF Return, NoneKept, Settling, CancelPath, CancelInv,
       SettleCompletes
  <2>2. ASSUME pc' = "returned",
               \/ \E name : refused' = refused \cup {name} /\ UNCHANGED budget
               \/ /\ budget.faults > 0
                  /\ budget' = [budget EXCEPT !.faults = @ - 1]
                  /\ UNCHANGED refused
        PROVE  CancelPath'
    BY <2>2, UncommittedDisturbs DEF CancelInv
  <2> QED BY <1>36, <2>1, <2>2 DEF SettleCompletes, Commit, CommitOr, Unwritten, workVars
<1>37. ASSUME SettleNonproductive
      PROVE  CancelPath'
  BY <1>37, <1>0, FailingKeepsPath DEF CancelPath, CancelInv, SettleNonproductive, Settling
<1>38. ASSUME SettleCalls
      PROVE  CancelPath'
  BY <1>38, DriverAssumption DEF SettleCalls, BatchStart, hostVars, workVars, CancelPath,
     CancelInv, CancelPending, RecoveryIsAlone, BudgetTypes, Undisturbed, Untroubled
<1>39. ASSUME WaitControlled
      PROVE  CancelPath'
  <2>1. edge.interrupt => edge'.interrupt
    BY <1>39, <1>0 DEF WaitControlled, ApplyControls, HostTypes, Edges
  <2>2. CancelPath
    BY DEF CancelPath, CancelInv
  <2>3. pc' \notin {"idle", "held", "chain", "begin", "pause", "leave", "recover", "closing", "closeWait"}
    BY <1>39 DEF WaitControlled, Quietly, Goto
  <2>4. UNCHANGED <<kept, refused, budget>>
    BY <1>39 DEF WaitControlled, Quietly
  <2> QED BY <1>39, <2>1, <2>2, <2>3, <2>4, StillToBeSeen DEF WaitControlled
<1>40. ASSUME WaitEnds
      PROVE  CancelPath'
  BY <1>40, DriverAssumption DEF WaitEnds, Quietly, Goto, hostVars, workVars, CancelPath,
     CancelInv, CancelPending, RecoveryIsAlone, BudgetTypes, Undisturbed, Untroubled
<1> QED
  BY ONLY CycleNext, <1>1, <1>2, <1>3, <1>4, <1>5, <1>6, <1>7, <1>8, <1>9, <1>10, <1>11,
     <1>12, <1>13, <1>14, <1>15, <1>16, <1>17, <1>18, <1>19, <1>20, <1>21, <1>22, <1>23,
     <1>24, <1>25, <1>26, <1>27, <1>28, <1>29, <1>30, <1>31, <1>32, <1>33, <1>34, <1>35,
     <1>36, <1>37, <1>38, <1>39, <1>40 DEF CycleNext

\* So does a batch of calls.
LEMMA CallsCancels ==
    ASSUME DriverBase, CancelInv, CallsNext
    PROVE  CancelPath'
<1>0. HostTypes
  BY DEF DriverBase, DriverTypeOK
<1>1. ASSUME NEW c \in Calls, BatchRuleRejects(c)
      PROVE  CancelPath'
  BY <1>1, DriverAssumption DEF BatchRuleRejects, FinishVisited, Goto, Commit, Collected,
     CommitOr, Unwritten, Admitted, Visiting, hostVars, workVars, CancelPath, CancelInv,
     CancelPending, RecoveryIsAlone, BudgetTypes, Undisturbed, Untroubled
<1>2. ASSUME NEW c \in Calls, BatchCancelled(c)
      PROVE  CancelPath'
  BY <1>2, DriverAssumption DEF BatchCancelled, CloseAll, HandOff, Goto, Admitted, Visiting,
     hostVars, workVars, CancelPath, CancelInv, CancelPending, RecoveryIsAlone, BudgetTypes,
     Undisturbed, Untroubled
<1>3. ASSUME NEW c \in Calls, BatchCollects(c)
      PROVE  CancelPath'
  BY <1>3, DriverAssumption DEF BatchCollects, Goto, Commit, Collected, CommitOr, Unwritten,
     Admitted, Visiting, hostVars, workVars, CancelPath, CancelInv, CancelPending,
     RecoveryIsAlone, BudgetTypes, Undisturbed, Untroubled
<1>4. ASSUME NEW c \in Calls, BatchOverdue(c)
      PROVE  CancelPath'
  BY <1>4, DriverAssumption DEF BatchOverdue, HandOff, Goto, Admitted, Visiting, hostVars,
     workVars, CancelPath, CancelInv, CancelPending, RecoveryIsAlone, BudgetTypes, Undisturbed,
     Untroubled
<1>5. ASSUME NEW c \in Calls, BatchPasses(c)
      PROVE  CancelPath'
  BY <1>5, DriverAssumption DEF BatchPasses, Admitted, Visiting, hostVars, workVars, CancelPath,
     CancelInv, CancelPending, RecoveryIsAlone, BudgetTypes, Undisturbed,
     Untroubled
<1>6. ASSUME NEW c \in Calls, BatchYields(c)
      PROVE  CancelPath'
  BY <1>6, DriverAssumption DEF BatchYields, HandOff, Goto, Admitted, Visiting, hostVars,
     workVars, CancelPath, CancelInv, CancelPending, RecoveryIsAlone, BudgetTypes, Undisturbed,
     Untroubled
<1>7. ASSUME NEW c \in Calls, BatchRejects(c)
      PROVE  CancelPath'
  BY <1>7, DriverAssumption DEF BatchRejects, Goto, Commit, CommitOr, Unwritten, Admitted,
     Visiting, hostVars, workVars, CancelPath, CancelInv, CancelPending, RecoveryIsAlone,
     BudgetTypes, Undisturbed, Untroubled
<1>8. ASSUME NEW c \in Calls, BatchSkips(c)
      PROVE  CancelPath'
  BY <1>8, DriverAssumption DEF BatchSkips, Admitted, Visiting, hostVars, workVars, CancelPath,
     CancelInv, CancelPending, RecoveryIsAlone, BudgetTypes, Undisturbed,
     Untroubled
<1>9. ASSUME NEW c \in Calls, BatchStarts(c)
      PROVE  CancelPath'
  BY <1>9, DriverAssumption DEF BatchStarts, Goto, Commit, CommitOr, Unwritten, Admitted,
     Visiting, hostVars, workVars, CancelPath, CancelInv, CancelPending, RecoveryIsAlone,
     BudgetTypes, Undisturbed, Untroubled
<1>10. ASSUME NEW c \in Calls, ToolRuns(c)
      PROVE  CancelPath'
  BY <1>10, DriverAssumption DEF ToolRuns, Goto, hostVars, workVars, CancelPath, CancelInv,
     CancelPending, RecoveryIsAlone, BudgetTypes, Undisturbed, Untroubled
<1>11. ASSUME NEW c \in Calls, ToolReturns(c)
      PROVE  CancelPath'
  <2>1. ASSUME NEW defers, kept' = [kept EXCEPT !.deferred = @ \/ defers],
               edge' = [edge EXCEPT !.steering = @ /\ ~defers],
               pc' \in {"handoff", "batch"}, UNCHANGED <<refused, budget>>
        PROVE  CancelPath'
    BY <1>11, <2>1, <1>0, StillToBeSeen DEF ToolReturns, Edges, KeptFlags, CancelPath, CancelInv
  <2>2. ASSUME pc' = "returned",
               \/ \E name : refused' = refused \cup {name} /\ UNCHANGED budget
               \/ /\ budget.faults > 0
                  /\ budget' = [budget EXCEPT !.faults = @ - 1]
                  /\ UNCHANGED refused
        PROVE  CancelPath'
    BY <2>2, UncommittedDisturbs DEF CancelInv
  <2>3. PICK defers \in BOOLEAN :
           Commit("tool_finished", ResultFits(c, "ended"), ToolFinished(c, "ended"),
                  /\ kept' = [kept EXCEPT !.deferred = @ \/ defers]
                  /\ edge' = [edge EXCEPT !.steering = @ /\ ~defers]
                  /\ IF edge.interrupt
                     THEN CloseAll /\ Goto("handoff")
                          /\ batch' = [batch EXCEPT !.handoff = "cancelled"]
                     ELSE UNCHANGED command /\ Goto("batch")
                          /\ batch' = [batch EXCEPT !.slot = c + 1, !.progressed = TRUE]
                  /\ UNCHANGED <<retry, late, closing>>)
    BY <1>11 DEF ToolReturns
  <2> QED BY <2>1, <2>2, <2>3 DEF Commit, CommitOr, Unwritten, Goto
<1>12. ASSUME NEW c \in Calls, HandBack(c)
      PROVE  CancelPath'
  BY <1>12, DriverAssumption DEF HandBack, Commit, Collected, CommitOr, Unwritten, hostVars,
     workVars, CancelPath, CancelInv, CancelPending, RecoveryIsAlone, BudgetTypes, Undisturbed,
     Untroubled
<1>13. ASSUME BatchDone
      PROVE  CancelPath'
  BY <1>13, DriverAssumption DEF BatchDone, Goto, WaveOver, hostVars, workVars, CancelPath,
     CancelInv, CancelPending, RecoveryIsAlone, BudgetTypes, Undisturbed, Untroubled
<1>14. ASSUME WaveHandsOff
      PROVE  CancelPath'
  BY <1>14, DriverAssumption DEF WaveHandsOff, HandOff, Goto, WaveOver, hostVars, workVars,
     CancelPath, CancelInv, CancelPending, RecoveryIsAlone, BudgetTypes, Undisturbed, Untroubled
<1>15. ASSUME NextWave
      PROVE  CancelPath'
  BY <1>15, DriverAssumption DEF NextWave, WaveOver, hostVars, workVars, CancelPath, CancelInv,
     CancelPending, RecoveryIsAlone, BudgetTypes, Undisturbed, Untroubled
<1>16. ASSUME HandoffDone
      PROVE  CancelPath'
  BY <1>16, DriverAssumption DEF HandoffDone, Goto, hostVars, workVars, CancelPath, CancelInv,
     CancelPending, RecoveryIsAlone, BudgetTypes, Undisturbed, Untroubled
<1>17. ASSUME HandoffInterrupts
      PROVE  CancelPath'
  BY <1>17, DriverAssumption DEF HandoffInterrupts, InterruptTurn, BeginClosing, CloseAll,
     hostVars, workVars, CancelPath, CancelInv, CancelPending, RecoveryIsAlone, BudgetTypes,
     Undisturbed, Untroubled
<1> QED
  BY ONLY CallsNext, <1>1, <1>2, <1>3, <1>4, <1>5, <1>6, <1>7, <1>8, <1>9, <1>10, <1>11,
     <1>12, <1>13, <1>14, <1>15, <1>16, <1>17 DEF CallsNext

\* So does the closing of a turn, until the turn has ended.
LEMMA EndCancels ==
    ASSUME DriverBase, CancelInv, EndNext
    PROVE  CancelPath'
<1>0. HostTypes
  BY DEF DriverBase, DriverTypeOK
<1>1. ASSUME NEW h \in Calls, CloseLost(h)
      PROVE  CancelPath'
  <2>1. ASSUME Goto("closing"), UNCHANGED <<edge, kept, closing, command>>, UNCHANGED <<refused, budget>>
        PROVE  CancelPath'
    BY <1>1, <2>1 DEF CloseLost, Goto, CancelPath, CancelInv, BudgetTypes, CancelPending,
       RecoveryIsAlone, Undisturbed, Untroubled
  <2>2. ASSUME pc' \in {closing.back, "closed", "held"},
               \/ \E name : refused' = refused \cup {name} /\ UNCHANGED budget
               \/ /\ budget.faults > 0
                  /\ budget' = [budget EXCEPT !.faults = @ - 1]
                  /\ UNCHANGED refused
        PROVE  CancelPath'
    <3>1. pc' \notin {"recover", "closing", "closeWait"}
      BY <2>2, <1>0 DEF HostTypes, Closings
    <3> QED BY <2>2, <3>1, UncommittedDisturbs DEF CancelInv
  <2> QED BY <1>1, <2>1, <2>2 DEF CloseLost, CommitClosing, CommitOr, Unwritten, hostVars,
     workVars
<1>2. ASSUME NEW h \in Calls, CloseNext(h)
      PROVE  CancelPath'
  BY <1>2, DriverAssumption DEF CloseNext, Goto, hostVars, workVars, CancelPath, CancelInv,
     CancelPending, RecoveryIsAlone, BudgetTypes, Undisturbed, Untroubled
<1>3. ASSUME CloseCollects
      PROVE  CancelPath'
  <2>1. ASSUME Goto("closing"), UNCHANGED <<edge, kept, closing>>, UNCHANGED <<refused, budget>>
        PROVE  CancelPath'
    BY <1>3, <2>1 DEF CloseCollects, Goto, CancelPath, CancelInv, BudgetTypes, CancelPending,
       RecoveryIsAlone, Undisturbed, Untroubled
  <2>2. ASSUME pc' \in {closing.back, "closed", "held"},
               \/ \E name : refused' = refused \cup {name} /\ UNCHANGED budget
               \/ /\ budget.faults > 0
                  /\ budget' = [budget EXCEPT !.faults = @ - 1]
                  /\ UNCHANGED refused
        PROVE  CancelPath'
    <3>1. pc' \notin {"recover", "closing", "closeWait"}
      BY <2>2, <1>0 DEF HostTypes, Closings
    <3> QED BY <2>2, <3>1, UncommittedDisturbs DEF CancelInv
  <2> QED BY <1>3, <2>1, <2>2 DEF CloseCollects, CommitClosing, CommitOr, Unwritten, hostVars
<1>4. ASSUME CloseCancels
      PROVE  CancelPath'
  BY <1>4, DriverAssumption DEF CloseCancels, hostVars, workVars, CancelPath, CancelInv,
     CancelPending, RecoveryIsAlone, BudgetTypes, Undisturbed, Untroubled
<1>5. ASSUME CloseGivesUp
      PROVE  CancelPath'
  <2>1. ASSUME Goto("closing"), UNCHANGED <<edge, kept, closing, command>>, UNCHANGED <<refused, budget>>
        PROVE  CancelPath'
    BY <1>5, <2>1 DEF CloseGivesUp, Goto, CancelPath, CancelInv, BudgetTypes, CancelPending,
       RecoveryIsAlone, Undisturbed, Untroubled
  <2>2. ASSUME pc' \in {closing.back, "closed", "held"},
               \/ \E name : refused' = refused \cup {name} /\ UNCHANGED budget
               \/ /\ budget.faults > 0
                  /\ budget' = [budget EXCEPT !.faults = @ - 1]
                  /\ UNCHANGED refused
        PROVE  CancelPath'
    <3>1. pc' \notin {"recover", "closing", "closeWait"}
      BY <2>2, <1>0 DEF HostTypes, Closings
    <3> QED BY <2>2, <3>1, UncommittedDisturbs DEF CancelInv
  <2> QED BY <1>5, <2>1, <2>2 DEF CloseGivesUp, CommitClosing, CommitOr, Unwritten, hostVars,
     workVars
<1>6. ASSUME CloseEnd
      PROVE  CancelPath'
  <2>1. ASSUME EndEvent, pc' = closing.back, UNCHANGED <<edge, refused, budget, command, closing>>,
               kept' = IF activeTurn' THEN kept
                       ELSE [NoneKept EXCEPT !.failed = closing.event = "turn_failed"]
        PROVE  CancelPath'
    <3>1. closing.back \in {"returned", "finish", "leave", "pause", "chain"}
      BY <1>0 DEF HostTypes, Closings
    <3>2. Undisturbed' => Undisturbed
      BY <2>1 DEF Undisturbed, Untroubled
    <3>3. Undisturbed /\ kept.cancel => ~activeTurn'
      BY <1>6, <2>1 DEF CloseEnd, EndEvent, CancelInv, CancelPending, TurnFailed,
         TurnInterrupted, ClearTurn
    <3>4. Undisturbed' => ~kept'.cancel
      BY <2>1, <3>2, <3>3 DEF NoneKept
    <3> QED BY <2>1, <3>1, <3>4 DEF CancelPath, CancelInv, BudgetTypes, CancelPending,
       RecoveryIsAlone
  <2>2. ASSUME pc' \in {closing.back, "closed", "held"},
               \/ \E name : refused' = refused \cup {name} /\ UNCHANGED budget
               \/ /\ budget.faults > 0
                  /\ budget' = [budget EXCEPT !.faults = @ - 1]
                  /\ UNCHANGED refused
        PROVE  CancelPath'
    <3>1. pc' \notin {"recover", "closing", "closeWait"}
      BY <2>2, <1>0 DEF HostTypes, Closings
    <3> QED BY <2>2, <3>1, UncommittedDisturbs DEF CancelInv
  <2> QED BY <1>6, <2>1, <2>2 DEF CloseEnd, CommitClosing, CommitOr, Unwritten, hostVars,
     workVars
<1> QED
  BY ONLY EndNext, <1>1, <1>2, <1>3, <1>4, <1>5, <1>6 DEF EndNext

\* So does the loop around run_turn.
LEMMA LoopCancels ==
    ASSUME DriverBase, CancelInv, LoopNext
    PROVE  CancelPath'
<1>0. HostTypes
  BY DEF DriverBase, DriverTypeOK
<1>1. ASSUME ReturnedPauses
      PROVE  CancelPath'
  BY <1>1, DriverAssumption DEF ReturnedPauses, Goto, CommitOr, Unwritten, hostVars, workVars,
     CancelPath, CancelInv, CancelPending, RecoveryIsAlone, BudgetTypes, Undisturbed, Untroubled
<1>2. ASSUME ReturnedAwaitsClarification
      PROVE  CancelPath'
  BY <1>2, DriverAssumption DEF ReturnedAwaitsClarification, EnterBackoff, Quietly, Goto,
     hostVars, workVars, CancelPath, CancelInv, CancelPending, RecoveryIsAlone, BudgetTypes,
     Undisturbed, Untroubled
<1>3. ASSUME ReturnedFinishes
      PROVE  CancelPath'
  BY <1>3, DriverAssumption DEF ReturnedFinishes, Quietly, Goto, hostVars, workVars, CancelPath,
     CancelInv, CancelPending, RecoveryIsAlone, BudgetTypes, Undisturbed,
     Untroubled
<1>4. ASSUME ReturnedRetries
      PROVE  CancelPath'
  BY <1>4, DriverAssumption DEF ReturnedRetries, EnterBackoff, Quietly, Goto, hostVars,
     workVars, CancelPath, CancelInv, CancelPending, RecoveryIsAlone, BudgetTypes, Undisturbed,
     Untroubled
<1>5. ASSUME BackoffControlled
      PROVE  CancelPath'
  BY <1>5, DriverAssumption DEF BackoffControlled, Waits, Quietly, ApplyControls, Goto,
     ControlsReady, hostVars, workVars, CancelPath, CancelInv, CancelPending, RecoveryIsAlone,
     BudgetTypes, Undisturbed, Untroubled
<1>6. ASSUME BackoffHolds
      PROVE  CancelPath'
  BY <1>6, DriverAssumption DEF BackoffHolds, Waits, Quietly, Goto, hostVars, workVars,
     CancelPath, CancelInv, CancelPending, RecoveryIsAlone, BudgetTypes, Undisturbed, Untroubled
<1>7. ASSUME BackoffInterrupted
      PROVE  CancelPath'
  BY <1>7, DriverAssumption DEF BackoffInterrupted, InterruptTurn, BeginClosing, CloseAll,
     hostVars, workVars, CancelPath, CancelInv, CancelPending, RecoveryIsAlone, BudgetTypes,
     Undisturbed, Untroubled
<1>8. ASSUME BackoffLosesGoal
      PROVE  CancelPath'
  BY <1>8, DriverAssumption DEF BackoffLosesGoal, InterruptTurn, BeginClosing, CloseAll,
     hostVars, workVars, CancelPath, CancelInv, CancelPending, RecoveryIsAlone, BudgetTypes,
     Undisturbed, Untroubled
<1>9. ASSUME BackoffClarified
      PROVE  CancelPath'
  BY <1>9, DriverAssumption DEF BackoffClarified, Quietly, Goto, hostVars, workVars, CancelPath,
     CancelInv, CancelPending, RecoveryIsAlone, BudgetTypes, Undisturbed,
     Untroubled
<1>10. ASSUME BackoffEnds
      PROVE  CancelPath'
  BY <1>10, DriverAssumption DEF BackoffEnds, Quietly, Goto, hostVars, workVars, CancelPath,
     CancelInv, CancelPending, RecoveryIsAlone, BudgetTypes, Undisturbed, Untroubled
<1>11. ASSUME NEW c \in Calls, ReconcileCall(c)
      PROVE  CancelPath'
  BY <1>11, DriverAssumption DEF ReconcileCall, Terminalize, Unreconciled, CommitOr, Unwritten,
     Collected, hostVars, workVars, CancelPath, CancelInv, CancelPending, RecoveryIsAlone,
     BudgetTypes, Undisturbed, Untroubled
<1>12. ASSUME ReconcileResponse
      PROVE  CancelPath'
  BY <1>12, DriverAssumption DEF ReconcileResponse, Goto, CommitOr, Unwritten, Unreconciled,
     hostVars, workVars, CancelPath, CancelInv, CancelPending, RecoveryIsAlone, BudgetTypes,
     Undisturbed, Untroubled
<1>13. ASSUME ReconcileEnds
      PROVE  CancelPath'
  BY <1>13, DriverAssumption DEF ReconcileEnds, Goto, CommitOr, Unwritten, Unreconciled,
     hostVars, workVars, CancelPath, CancelInv, CancelPending, RecoveryIsAlone, BudgetTypes,
     Undisturbed, Untroubled
<1>14. ASSUME ReconcileAgain
      PROVE  CancelPath'
  BY <1>14, DriverAssumption DEF ReconcileAgain, Quietly, Goto, hostVars, workVars, CancelPath,
     CancelInv, CancelPending, RecoveryIsAlone, BudgetTypes, Undisturbed,
     Untroubled
<1>15. ASSUME FinishPauses
      PROVE  CancelPath'
  BY <1>15, DriverAssumption DEF FinishPauses, Goto, Quietly, CommitOr, Unwritten, hostVars,
     workVars, CancelPath, CancelInv, CancelPending, RecoveryIsAlone, BudgetTypes, Undisturbed,
     Untroubled
<1>16. ASSUME FinishEnds
      PROVE  CancelPath'
  <2>1. CASE InterruptTurn("leave", rc, rc)
    BY <2>1, ClosingIsOnItsWay DEF InterruptTurn, CancelPath, CancelInv
  <2>2. CASE Quietly("leave") /\ UNCHANGED hostVars /\ ~(activeTurn /\ edge.interrupt /\ LeftBehind)
    BY <1>16, <2>2 DEF FinishEnds, Quietly, Goto, LeftBehind, CancelledInTurn, hostVars,
       workVars, CancelPath, CancelInv, BudgetTypes, CancelPending, RecoveryIsAlone, Undisturbed,
       Untroubled
  <2> QED BY <1>16, <2>1, <2>2 DEF FinishEnds
<1>17. ASSUME LeaveTracked
      PROVE  CancelPath'
  BY <1>17, DriverAssumption DEF LeaveTracked, Quietly, Goto, hostVars, workVars, CancelPath,
     CancelInv, CancelPending, RecoveryIsAlone, BudgetTypes, Undisturbed, Untroubled
<1>18. ASSUME PauseAfter
      PROVE  CancelPath'
  BY <1>18, DriverAssumption DEF PauseAfter, Goto, Quietly, CommitOr, Unwritten, hostVars,
     workVars, CancelPath, CancelInv, CancelPending, RecoveryIsAlone, BudgetTypes, Undisturbed,
     Untroubled
<1>19. ASSUME ChainControlled
      PROVE  CancelPath'
  BY <1>19, DriverAssumption DEF ChainControlled, Quietly, ApplyControls, Goto, ControlsReady,
     hostVars, workVars, CancelPath, CancelInv, CancelPending, RecoveryIsAlone, BudgetTypes,
     Undisturbed, Untroubled
<1>20. ASSUME ChainPrompt
      PROVE  CancelPath'
  BY <1>20, DriverAssumption DEF ChainPrompt, TrackQuietly, Track, Chaining, hostVars, workVars,
     CancelPath, CancelInv, CancelPending, RecoveryIsAlone, BudgetTypes,
     Undisturbed, Untroubled
<1>21. ASSUME ChainTurn
      PROVE  CancelPath'
  BY <1>21, DriverAssumption DEF ChainTurn, TrackQuietly, Track, Chaining, TurnReady, hostVars,
     workVars, CancelPath, CancelInv, CancelPending, RecoveryIsAlone, BudgetTypes, Undisturbed,
     Untroubled
<1>22. ASSUME ChainGoal
      PROVE  CancelPath'
  BY <1>22, DriverAssumption DEF ChainGoal, TrackQuietly, Track, Chaining, hostVars, workVars,
     CancelPath, CancelInv, CancelPending, RecoveryIsAlone, BudgetTypes,
     Undisturbed, Untroubled
<1>23. ASSUME ChainRests
      PROVE  CancelPath'
  BY <1>23, DriverAssumption DEF ChainRests, Quietly, Goto, Chaining, TurnReady, hostVars,
     workVars, CancelPath, CancelInv, CancelPending, RecoveryIsAlone, BudgetTypes, Undisturbed,
     Untroubled
<1>24. ASSUME NEW c \in Calls, CancelKeptCall(c)
      PROVE  CancelPath'
  BY <1>24, DriverAssumption DEF CancelKeptCall, Terminalize, CommitOr, Unwritten, Collected,
     hostVars, workVars, CancelPath, CancelInv, CancelPending, RecoveryIsAlone, BudgetTypes,
     Undisturbed, Untroubled
<1>25. ASSUME CancelKeptEnds
      PROVE  CancelPath'
  BY <1>25, DriverAssumption DEF CancelKeptEnds, InterruptTurn, BeginClosing, CloseAll,
     hostVars, workVars, CancelPath, CancelInv, CancelPending, RecoveryIsAlone, BudgetTypes,
     Undisturbed, Untroubled
<1>26. ASSUME RecoverCompaction
      PROVE  CancelPath'
  BY <1>26, DriverAssumption DEF RecoverCompaction, Goto, CommitOr, Unwritten, hostVars,
     workVars, CancelPath, CancelInv, CancelPending, RecoveryIsAlone, BudgetTypes, Undisturbed,
     Untroubled
<1>27. ASSUME RecoverResponse
      PROVE  CancelPath'
  BY <1>27, DriverAssumption DEF RecoverResponse, Goto, CommitOr, Unwritten, hostVars, workVars,
     CancelPath, CancelInv, CancelPending, RecoveryIsAlone, BudgetTypes, Undisturbed, Untroubled
<1>28. ASSUME RecoverNothing
      PROVE  CancelPath'
  BY <1>28 DEF RecoverNothing, Quietly, Goto, Recovering, hostVars, workVars, CancelledInTurn,
     CancelPath, CancelInv, BudgetTypes, CancelPending, RecoveryIsAlone, Undisturbed,
       Untroubled
<1>29. ASSUME RecoverAnswered
      PROVE  CancelPath'
  <2>1. ASSUME kept' = NoneKept, pc' \in {"pause", "chain"}, UNCHANGED <<refused, budget>>
        PROVE  CancelPath'
    BY <1>29, <2>1, <1>0 DEF NoneKept, CancelPath, CancelInv, BudgetTypes, CancelPending,
       RecoveryIsAlone, Undisturbed, Untroubled, RecoverAnswered
  <2>2. ASSUME pc' = "closed",
               \/ \E name : refused' = refused \cup {name} /\ UNCHANGED budget
               \/ /\ budget.faults > 0
                  /\ budget' = [budget EXCEPT !.faults = @ - 1]
                  /\ UNCHANGED refused
        PROVE  CancelPath'
    BY <2>2, UncommittedDisturbs DEF CancelInv
  <2> QED BY <1>29, <2>1, <2>2 DEF RecoverAnswered, CommitOr, Unwritten, Goto
<1>30. ASSUME NEW c \in Calls, RecoverCall(c)
      PROVE  CancelPath'
  BY <1>30, DriverAssumption DEF RecoverCall, Terminalize, CommitOr, Unwritten, Collected,
     Recovering, Unanswered, hostVars, workVars, CancelPath, CancelInv, CancelPending,
     RecoveryIsAlone, BudgetTypes, Undisturbed, Untroubled
<1>31. ASSUME RecoverTurn
      PROVE  CancelPath'
  BY <1>31, DriverAssumption DEF RecoverTurn, InterruptTurn, BeginClosing, CloseAll, Recovering,
     Unanswered, hostVars, workVars, CancelPath, CancelInv, CancelPending,
     RecoveryIsAlone, BudgetTypes, Undisturbed, Untroubled
<1> QED
  BY ONLY LoopNext, <1>1, <1>2, <1>3, <1>4, <1>5, <1>6, <1>7, <1>8, <1>9, <1>10, <1>11, <1>12,
     <1>13, <1>14, <1>15, <1>16, <1>17, <1>18, <1>19, <1>20, <1>21, <1>22, <1>23, <1>24,
     <1>25, <1>26, <1>27, <1>28, <1>29, <1>30, <1>31 DEF LoopNext

\* So does the operator's input.
LEMMA OperatorCancels ==
    ASSUME DriverBase, CancelInv, OperatorNext
    PROVE  CancelPath'
<1>0. HostTypes
  BY DEF DriverBase, DriverTypeOK
<1>1. ASSUME NEW i \in Inputs, SteerTyped(i)
      PROVE  CancelPath'
  BY <1>1, DriverAssumption DEF SteerTyped, Typing, hostVars, workVars, CancelPath, CancelInv,
     CancelPending, RecoveryIsAlone, BudgetTypes, Undisturbed, Untroubled
<1>2. ASSUME SteerReturned
      PROVE  CancelPath'
  BY <1>2, DriverAssumption DEF SteerReturned, Typing, hostVars, workVars, CancelPath,
     CancelInv, CancelPending, RecoveryIsAlone, BudgetTypes, Undisturbed, Untroubled
<1>3. ASSUME ControlTyped
      PROVE  CancelPath'
  BY <1>3, DriverAssumption DEF ControlTyped, Typing, hostVars, workVars, CancelPath, CancelInv,
     CancelPending, RecoveryIsAlone, BudgetTypes, Undisturbed, Untroubled
<1>4. ASSUME NEW m \in Models, ModelTyped(m)
      PROVE  CancelPath'
  BY <1>4, DriverAssumption DEF ModelTyped, Typing, hostVars, workVars, CancelPath, CancelInv,
     CancelPending, RecoveryIsAlone, BudgetTypes, Undisturbed, Untroubled
<1>5. ASSUME NEW g \in Goals, GoalTyped(g)
      PROVE  CancelPath'
  BY <1>5, DriverAssumption DEF GoalTyped, Typing, hostVars, workVars, CancelPath, CancelInv,
     CancelPending, RecoveryIsAlone, BudgetTypes, Undisturbed, Untroubled
<1>6. ASSUME InterruptTyped
      PROVE  CancelPath'
  <2>1. kept.cancel \in BOOLEAN /\ edge'.interrupt /\ pc \in PumpPoints
    BY <1>6, <1>0 DEF InterruptTyped, Typing, HostTypes, Edges, KeptFlags
  <2>2. BudgetTypes' /\ (Undisturbed' => Undisturbed)
    BY <1>6 DEF InterruptTyped, Typing, CancelPath, CancelInv, BudgetTypes, CancelPending,
       RecoveryIsAlone, Undisturbed, Untroubled
  <2> QED BY <1>6, <2>1, <2>2 DEF InterruptTyped, Typing, workVars, PumpPoints, CancelPath,
             CancelInv, CancelPending, RecoveryIsAlone
<1>7. ASSUME ExitTyped
      PROVE  CancelPath'
  BY <1>7, DriverAssumption DEF ExitTyped, Typing, hostVars, workVars, CancelPath, CancelInv,
     CancelPending, RecoveryIsAlone, BudgetTypes, Undisturbed, Untroubled
<1> QED
  BY ONLY OperatorNext, <1>1, <1>2, <1>3, <1>4, <1>5, <1>6, <1>7 DEF OperatorNext

\* So does what is done at the prompt.
LEMMA PromptCancels ==
    ASSUME DriverBase, CancelInv, OperatorAtPrompt
    PROVE  CancelPath'
<1>0. HostTypes
  BY DEF DriverBase, DriverTypeOK
<1>1. ASSUME SubmitPrompt
      PROVE  CancelPath'
  <2>1. ASSUME Track("direct"), UNCHANGED kept, UNCHANGED <<refused, budget>>
        PROVE  CancelPath'
    BY <1>1, <2>1, <1>0 DEF Track, AtPrompt, KeptFlags, CancelPath, CancelInv, BudgetTypes,
       CancelPending, RecoveryIsAlone, Undisturbed, Untroubled, SubmitPrompt
  <2>2. ASSUME pc' = "held",
               \/ \E name : refused' = refused \cup {name} /\ UNCHANGED budget
               \/ /\ budget.faults > 0
                  /\ budget' = [budget EXCEPT !.faults = @ - 1]
                  /\ UNCHANGED refused
        PROVE  CancelPath'
    BY <2>2, UncommittedDisturbs DEF CancelInv
  <2> QED BY <1>1, <2>1, <2>2 DEF SubmitPrompt, CommitOr, Unwritten, workVars
<1>2. ASSUME NEW i \in Inputs, SubmitSteering(i)
      PROVE  CancelPath'
  <2>1. ASSUME Track(TurnKind), kept' = [kept EXCEPT !.policy = FALSE], UNCHANGED <<refused, budget>>
        PROVE  CancelPath'
    BY <1>2, <2>1, <1>0 DEF Track, AtPrompt, KeptFlags, CancelPath, CancelInv, BudgetTypes,
       CancelPending, RecoveryIsAlone, Undisturbed, Untroubled, SubmitSteering
  <2>2. ASSUME pc' = "held",
               \/ \E name : refused' = refused \cup {name} /\ UNCHANGED budget
               \/ /\ budget.faults > 0
                  /\ budget' = [budget EXCEPT !.faults = @ - 1]
                  /\ UNCHANGED refused
        PROVE  CancelPath'
    BY <2>2, UncommittedDisturbs DEF CancelInv
  <2> QED BY <1>2, <2>1, <2>2 DEF SubmitSteering, CommitOr, Unwritten, workVars
<1>3. ASSUME SubmitRetry
      PROVE  CancelPath'
  BY <1>3, DriverAssumption DEF SubmitRetry, Quietly, TrackQuietly, Track, Goto, AtPrompt,
     hostVars, workVars, CancelPath, CancelInv, CancelPending, RecoveryIsAlone, BudgetTypes,
     Undisturbed, Untroubled
<1>4. ASSUME NEW g \in Goals, SubmitGoal(g)
      PROVE  CancelPath'
  BY <1>4, DriverAssumption DEF SubmitGoal, Goto, AtPrompt, hostVars, workVars, CancelPath,
     CancelInv, CancelPending, RecoveryIsAlone, BudgetTypes, Undisturbed, Untroubled
<1>5. ASSUME CancelKept
      PROVE  CancelPath'
  BY <1>5, DriverAssumption DEF CancelKept, Goto, CommitOr, Unwritten, AtPrompt, hostVars,
     workVars, CancelPath, CancelInv, CancelPending, RecoveryIsAlone, BudgetTypes, Undisturbed,
     Untroubled
<1>6. ASSUME LeavePrompt
      PROVE  CancelPath'
  BY <1>6, DriverAssumption DEF LeavePrompt, Quietly, Goto, AtPrompt, hostVars, workVars,
     CancelPath, CancelInv, CancelPending, RecoveryIsAlone, BudgetTypes, Undisturbed, Untroubled
<1>7. ASSUME CancelAccepted
      PROVE  CancelPath'
  BY <1>7, DriverAssumption DEF CancelAccepted, Goto, CommitOr, Unwritten, AtPrompt, hostVars,
     workVars, CancelPath, CancelInv, CancelPending, RecoveryIsAlone, BudgetTypes, Undisturbed,
     Untroubled
<1> QED
  BY ONLY OperatorAtPrompt, <1>1, <1>2, <1>3, <1>4, <1>5, <1>6, <1>7 DEF OperatorAtPrompt

\* No step undoes a refusal or a failed write, and only a turn is cancelled.
CancelFlow ==
    /\ refused \subseteq refused' /\ budget'.faults <= budget.faults
    /\ kept'.cancel => kept.cancel \/ activeTurn

\* So it is with an event, whether it is committed, refused or cannot be written.
LEMMA UncommittedFlows ==
    ASSUME BudgetTypes, kept'.cancel => kept.cancel \/ activeTurn,
           \/ UNCHANGED <<refused, budget>>
           \/ \E name : refused' = refused \cup {name} /\ UNCHANGED budget
           \/ UNCHANGED refused /\ budget' = [budget EXCEPT !.faults = @ - 1]
    PROVE  CancelFlow
BY DriverAssumption DEF BudgetTypes, CancelFlow

\* run_turn cancels nothing by itself.
LEMMA CycleFlows ==
    ASSUME HostTypes, BudgetTypes, CycleNext
    PROVE  CancelFlow
<1> USE UncommittedFlows
<1>1. ASSUME \/ ContinueTurn
             \/ StartCycle
             \/ LeaveCycle
             \/ InterruptCycle
             \/ SelectModel
             \/ AdmitInput
      PROVE  CancelFlow
  BY <1>1 DEF ContinueTurn, Quietly, StartCycle, LeaveCycle, hostVars, InterruptCycle,
     InterruptTurn, BeginClosing, SelectModel, Commit, CommitOr, Unwritten, AdmitInput
<1>2. ASSUME \/ PrepareSteered
             \/ PrepareInterrupted
             \/ PrepareLeaves
             \/ \E src \in 1..turnCount : CompactRequest(src)
             \/ CompactFinishes
             \/ CompactStops
      PROVE  CancelFlow
  BY <1>2 DEF PrepareSteered, Quietly, PrepareInterrupted, InterruptTurn,
     BeginClosing, hostVars, PrepareLeaves, CompactRequest, Commit, CommitOr, Unwritten,
     CompactFinishes, CompactStops
<1>3. ASSUME \/ StartResponse
             \/ RenderFails
             \/ ResponseSteered
             \/ ResponseControlled
             \/ ResponseCancelled
             \/ CancelTurn
      PROVE  CancelFlow
  BY <1>3 DEF StartResponse, Commit, CommitOr, Unwritten, hostVars, RenderFails,
     ResponseSteered, CutResponse, ResponseControlled, ResponseCancelled, CancelTurn,
     InterruptTurn, BeginClosing
<1>4. ASSUME \/ \E i \in Inputs, cyber \in BOOLEAN : CorrectOutput(i, cyber)
             \/ RejectCapacity
             \/ StartFallback
             \/ ProviderReturns
             \/ \E c \in Calls : SettleConflict(c)
             \/ SettleConflicted
      PROVE  CancelFlow
  BY <1>4 DEF CorrectOutput, Commit, CommitOr, Unwritten, hostVars, RejectCapacity,
     StartFallback, ProviderReturns, Quietly, SettleConflict, Terminalize,
     SettleConflicted
<1>5. ASSUME \/ SettleSteered
             \/ SettleRefuses
             \/ SettleWaits
             \/ SettleCalls
             \/ WaitControlled
             \/ WaitEnds
      PROVE  CancelFlow
  BY <1>5 DEF SettleSteered, Quietly, SettleRefuses, SettleWaits, hostVars,
     SettleCalls, WaitControlled, WaitEnds
<1>6. ASSUME BeginTurn
      PROVE  CancelFlow
  <2>1. kept' = NoneKept \/ UNCHANGED kept
    BY <1>6 DEF BeginTurn, Commit, CommitOr, Unwritten, hostVars, NextPrompt
  <2>2. kept'.cancel => kept.cancel \/ activeTurn
    BY <2>1 DEF NoneKept
  <2> QED BY <1>6, <2>2 DEF BeginTurn, Commit, CommitOr, Unwritten, NextPrompt
<1>7. ASSUME CycleExhausted
      PROVE  CancelFlow
  BY <1>7 DEF CycleExhausted, FailTurn, CommitOr, Unwritten, BeginClosing, hostVars, HostTypes,
     KeptFlags
<1>8. ASSUME PrepareFails
      PROVE  CancelFlow
  BY <1>8 DEF PrepareFails, FailTurn, CommitOr, Unwritten, BeginClosing, hostVars, HostTypes,
     KeptFlags
<1>9. ASSUME TryFallback
      PROVE  CancelFlow
  BY <1>9 DEF TryFallback, Commit, FailureKept, CommitOr, Unwritten, hostVars, HostTypes,
     KeptFlags
<1>10. ASSUME NEW kind \in FailureKinds, FailResponse(kind)
      PROVE  CancelFlow
  BY <1>10 DEF FailResponse, Return, FailureKept, Unwritten, hostVars, HostTypes,
     KeptFlags
<1>11. ASSUME Failing
      PROVE  CancelFlow
  BY <1>11 DEF Failing, FailTurn, CommitOr, Unwritten, BeginClosing, hostVars, HostTypes,
     KeptFlags
<1>12. ASSUME NEW graph \in Graphs, NEW end \in Outcomes, CompleteResponse(graph, end)
      PROVE  CancelFlow
  BY <1>12 DEF CompleteResponse, Commit, CommitOr, Unwritten, hostVars, HostTypes, KeptFlags
<1>13. ASSUME SettleUnsettled
      PROVE  CancelFlow
  BY <1>13 DEF SettleUnsettled, FailTurn, CommitOr, Unwritten, BeginClosing, hostVars,
     HostTypes, KeptFlags
<1>14. ASSUME SettleCompletes
      PROVE  CancelFlow
  <2>1. kept' = NoneKept \/ UNCHANGED kept
    BY <1>14 DEF SettleCompletes, Commit, CommitOr, Unwritten, hostVars
  <2>2. kept'.cancel => kept.cancel \/ activeTurn
    BY <2>1 DEF NoneKept
  <2> QED BY <1>14, <2>2 DEF SettleCompletes, Commit, CommitOr, Unwritten
<1>15. ASSUME SettleNonproductive
      PROVE  CancelFlow
  BY <1>15 DEF SettleNonproductive, FailTurn, CommitOr, Unwritten, BeginClosing, hostVars,
     HostTypes, KeptFlags
<1> QED
  BY ONLY CycleNext, <1>1, <1>2, <1>3, <1>4, <1>5, <1>6, <1>7, <1>8, <1>9, <1>10, <1>11,
     <1>12, <1>13, <1>14, <1>15 DEF CycleNext

\* Nor does a batch of calls.
LEMMA CallsFlows ==
    ASSUME HostTypes, BudgetTypes, CallsNext
    PROVE  CancelFlow
<1> USE UncommittedFlows
<1>1. ASSUME \/ \E c \in Calls : BatchRuleRejects(c)
             \/ \E c \in Calls : BatchCancelled(c)
             \/ \E c \in Calls : BatchCollects(c)
             \/ \E c \in Calls : BatchOverdue(c)
             \/ \E c \in Calls : BatchPasses(c)
             \/ \E c \in Calls : BatchYields(c)
      PROVE  CancelFlow
  BY <1>1 DEF BatchRuleRejects, FinishVisited, Commit, CommitOr, Unwritten, hostVars,
     BatchCancelled, HandOff, BatchCollects, BatchOverdue, BatchPasses,
     BatchYields
<1>2. ASSUME \/ \E c \in Calls : BatchRejects(c)
             \/ \E c \in Calls : BatchSkips(c)
             \/ \E c \in Calls : BatchStarts(c)
             \/ \E c \in Calls : ToolRuns(c)
             \/ \E c \in Calls : HandBack(c)
             \/ BatchDone
      PROVE  CancelFlow
  BY <1>2 DEF BatchRejects, Commit, CommitOr, Unwritten, hostVars, BatchSkips, BatchStarts,
     ToolRuns, HandBack, BatchDone
<1>3. ASSUME \/ WaveHandsOff
             \/ NextWave
             \/ HandoffDone
             \/ HandoffInterrupts
      PROVE  CancelFlow
  BY <1>3 DEF WaveHandsOff, HandOff, hostVars, NextWave, HandoffDone,
     HandoffInterrupts, InterruptTurn, BeginClosing
<1>4. ASSUME NEW c \in Calls, ToolReturns(c)
      PROVE  CancelFlow
  BY <1>4 DEF ToolReturns, Commit, CommitOr, Unwritten, hostVars, HostTypes, KeptFlags
<1> QED
  BY ONLY CallsNext, <1>1, <1>2, <1>3, <1>4 DEF CallsNext

\* Nor does the closing of a turn.
LEMMA EndFlows ==
    ASSUME HostTypes, BudgetTypes, EndNext
    PROVE  CancelFlow
<1> USE UncommittedFlows
<1>1. ASSUME \/ \E h \in Calls : CloseLost(h)
             \/ \E h \in Calls : CloseNext(h)
             \/ CloseCollects
             \/ CloseCancels
             \/ CloseGivesUp
      PROVE  CancelFlow
  BY <1>1 DEF CloseLost, CommitClosing, CommitOr, Unwritten, hostVars, CloseNext, CloseCollects,
     CloseCancels, CloseGivesUp
<1>2. ASSUME CloseEnd
      PROVE  CancelFlow
  BY <1>2 DEF CloseEnd, CommitClosing, NoneKept, CommitOr, Unwritten, hostVars, HostTypes,
     KeptFlags
<1> QED
  BY ONLY EndNext, <1>1, <1>2 DEF EndNext

\* Nor does the loop around run_turn.
LEMMA LoopFlows ==
    ASSUME HostTypes, BudgetTypes, LoopNext
    PROVE  CancelFlow
<1> USE UncommittedFlows
<1>1. ASSUME \/ ReturnedPauses
             \/ ReturnedAwaitsClarification
             \/ ReturnedFinishes
             \/ ReturnedRetries
             \/ BackoffControlled
             \/ BackoffHolds
      PROVE  CancelFlow
  BY <1>1 DEF ReturnedPauses, CommitOr, Unwritten, hostVars, ReturnedAwaitsClarification,
     EnterBackoff, Quietly, ReturnedFinishes, ReturnedRetries, BackoffControlled, BackoffHolds
<1>2. ASSUME \/ BackoffInterrupted
             \/ BackoffLosesGoal
             \/ BackoffClarified
             \/ BackoffEnds
             \/ \E c \in Calls : ReconcileCall(c)
             \/ ReconcileResponse
      PROVE  CancelFlow
  BY <1>2 DEF BackoffInterrupted, InterruptTurn, BeginClosing, hostVars,
     BackoffLosesGoal, BackoffClarified, Quietly, BackoffEnds, ReconcileCall,
     Terminalize, CommitOr, Unwritten, ReconcileResponse
<1>3. ASSUME \/ ReconcileEnds
             \/ ReconcileAgain
             \/ FinishPauses
             \/ FinishEnds
             \/ LeaveTracked
             \/ PauseAfter
      PROVE  CancelFlow
  BY <1>3 DEF ReconcileEnds, CommitOr, Unwritten, hostVars, ReconcileAgain, Quietly,
     FinishPauses, FinishEnds, InterruptTurn, BeginClosing, LeaveTracked,
     PauseAfter
<1>4. ASSUME \/ ChainControlled
             \/ ChainPrompt
             \/ ChainTurn
             \/ ChainGoal
             \/ ChainRests
             \/ \E c \in Calls : CancelKeptCall(c)
      PROVE  CancelFlow
  BY <1>4 DEF ChainControlled, Quietly, ChainPrompt, TrackQuietly, ChainTurn,
     ChainGoal, ChainRests, hostVars, CancelKeptCall, Terminalize, CommitOr, Unwritten
<1>5. ASSUME \/ CancelKeptEnds
             \/ RecoverCompaction
             \/ RecoverResponse
             \/ RecoverNothing
             \/ \E c \in Calls : RecoverCall(c)
             \/ RecoverTurn
      PROVE  CancelFlow
  BY <1>5 DEF CancelKeptEnds, InterruptTurn, BeginClosing, hostVars, RecoverCompaction,
     CommitOr, Unwritten, RecoverResponse, RecoverNothing, Quietly, RecoverCall, Terminalize,
     RecoverTurn
<1>6. ASSUME RecoverAnswered
      PROVE  CancelFlow
  BY <1>6 DEF RecoverAnswered, CommitOr, Unwritten, NoneKept, hostVars, HostTypes, KeptFlags
<1> QED
  BY ONLY LoopNext, <1>1, <1>2, <1>3, <1>4, <1>5, <1>6 DEF LoopNext

\* The operator's Ctrl-C cancels a turn.
LEMMA OperatorFlows ==
    ASSUME HostTypes, BudgetTypes, OperatorNext
    PROVE  CancelFlow
<1> USE UncommittedFlows
<1>1. ASSUME \/ SteerReturned
             \/ ControlTyped
             \/ \E m \in Models : ModelTyped(m)
             \/ \E g \in Goals : GoalTyped(g)
             \/ ExitTyped
      PROVE  CancelFlow
  BY <1>1 DEF SteerReturned, Typing, BudgetTypes, CancelFlow, ControlTyped,
     ModelTyped, GoalTyped, ExitTyped
<1>2. ASSUME NEW i \in Inputs, SteerTyped(i)
      PROVE  CancelFlow
  BY <1>2 DEF SteerTyped, HostTypes, KeptFlags, Typing, BudgetTypes, CancelFlow
<1>3. ASSUME InterruptTyped
      PROVE  CancelFlow
  BY <1>3 DEF InterruptTyped, HostTypes, KeptFlags, Typing, BudgetTypes, CancelFlow
<1> QED
  BY ONLY OperatorNext, <1>1, <1>2, <1>3 DEF OperatorNext

\* At the prompt only a turn that was kept is cancelled.
LEMMA PromptFlows ==
    ASSUME HostTypes, BudgetTypes, OperatorAtPrompt
    PROVE  CancelFlow
<1> USE UncommittedFlows
<1>1. ASSUME \/ SubmitPrompt
             \/ SubmitRetry
             \/ \E g \in Goals : SubmitGoal(g)
             \/ LeavePrompt
      PROVE  CancelFlow
  BY <1>1 DEF SubmitPrompt, CommitOr, Unwritten, hostVars, SubmitRetry, Quietly, TrackQuietly,
     SubmitGoal, LeavePrompt
<1>2. ASSUME NEW i \in Inputs, SubmitSteering(i)
      PROVE  CancelFlow
  BY <1>2 DEF SubmitSteering, CommitOr, Unwritten, hostVars, HostTypes, KeptFlags
<1>3. ASSUME CancelKept
      PROVE  CancelFlow
  BY <1>3 DEF CancelKept, CommitOr, Unwritten, hostVars, HostTypes, KeptFlags
<1>4. ASSUME CancelAccepted
      PROVE  CancelFlow
  BY <1>4 DEF CancelAccepted, CommitOr, Unwritten, hostVars
<1> QED
  BY ONLY OperatorAtPrompt, <1>1, <1>2, <1>3, <1>4 DEF OperatorAtPrompt

\* What is left of the bounds only falls, and what was refused stays refused.
LEMMA StepsFlow ==
    ASSUME DriverBase, CancelInv, [DriverNext]_allVars
    PROVE  CancelFlow
<1>0. HostTypes /\ BudgetTypes
  BY DEF DriverBase, DriverTypeOK, CancelInv
<1>1. ASSUME \/ \E h \in Calls : CommandEnds(h) \/ CommandOverdue(h)
             \/ Crash \/ Restart \/ Stopped \/ UNCHANGED allVars
      PROVE  CancelFlow
  BY <1>0, <1>1, UncommittedFlows DEF CommandEnds, CommandOverdue, Crash, Restart, Stopped,
     allVars, driverVars, hostVars, BudgetTypes, CancelFlow
<1> QED
  BY <1>0, <1>1, CycleFlows, CallsFlows, EndFlows, LoopFlows, OperatorFlows, PromptFlows
     DEF DriverNext, DriverStep

\* A cancellation stays on its way through every step.
LEMMA PathKept ==
    ASSUME DriverBase, CancelInv, [DriverNext]_allVars
    PROVE  CancelPath'
<1> USE DEF CancelPath, CancelInv, CancelPending, RecoveryIsAlone, BudgetTypes, Undisturbed,
        Untroubled
<1>1. ASSUME NEW h \in Calls, CommandEnds(h) \/ CommandOverdue(h)
      PROVE  CancelPath'
  BY <1>1 DEF CommandEnds, CommandOverdue, Servicing, Live, PumpPoints, hostVars
<1>2. ASSUME Crash PROVE CancelPath'
  BY <1>2 DEF Crash, hostVars, workVars
<1>3. ASSUME Restart PROVE CancelPath'
  BY <1>3 DEF Restart
<1>4. ASSUME Stopped \/ UNCHANGED allVars PROVE CancelPath'
  BY <1>4 DEF Stopped, allVars, driverVars, hostVars, workVars
<1> QED
  BY ONLY DriverBase, CancelInv, [DriverNext]_allVars, <1>1, <1>2, <1>3, <1>4, CycleCancels,
     CallsCancels, EndCancels, LoopCancels, OperatorCancels, PromptCancels
     DEF DriverNext, DriverStep

\* A turn that is cancelled is there until its cancellation is forgotten with it.
LEMMA CancelledStays ==
    ASSUME DriverBase, CancelInv, [DriverNext]_allVars, Undisturbed', kept'.cancel
    PROVE  activeTurn'
<1>1. Undisturbed
  <2>1. BudgetTypes /\ BudgetTypes'
    BY PathKept DEF CancelPath, CancelInv
  <2> QED
    BY <2>1, StepsFlow, DriverAssumption DEF CancelFlow, BudgetTypes, Undisturbed, Untroubled
<1>2. activeTurn
  BY <1>1, StepsFlow DEF CancelFlow, CancelInv, CancelledInTurn
<1>3. CASE Still
  BY <1>2, <1>3 DEF Still
<1>4. CASE UNCHANGED vars
  BY <1>2, <1>4 DEF vars, turnVars
<1>5. ASSUME BeginTurn \/ SettleCompletes \/ RecoverAnswered
      PROVE  UNCHANGED vars
  <2>1. kept' = NoneKept \/ UNCHANGED vars
    BY <1>5 DEF BeginTurn, SettleCompletes, RecoverAnswered, Commit, CommitOr, Unwritten,
       NextPrompt
  <2> QED
    BY <2>1 DEF NoneKept
<1>6. ASSUME CloseEnd, ~activeTurn'
      PROVE  UNCHANGED vars
  <2>1. kept' = [NoneKept EXCEPT !.failed = closing.event = "turn_failed"] \/ UNCHANGED vars
    BY <1>6 DEF CloseEnd, CommitClosing, CommitOr, Unwritten
  <2> QED
    BY <2>1 DEF NoneKept
<1>7. ASSUME StartResponse \/ \E c \in Calls : BatchStarts(c)
      PROVE  UNCHANGED activeTurn
  BY <1>7 DEF StartResponse, BatchStarts, Commit, CommitOr, Unwritten, ResponseStarted,
     ToolStarted, OpenResponse, StartCall, AsideVars, turnVars, vars, CallMayStart
<1> QED
  BY <1>2, <1>3, <1>4, <1>5, <1>6, <1>7, OnlySixStir

\* The life of a cancellation is an invariant of the driver.
LEMMA CancelSafe == DriverSpec => []CancelInv
<1>1. DriverInit => CancelInv
  BY DriverAssumption DEF DriverInit, HostInit, NoneKept, CancelInv, BudgetTypes, CancelPending,
     CancelledInTurn, RecoveryIsAlone
<1>2. DriverBase /\ CancelInv /\ [DriverNext]_allVars => CancelInv'
  BY PathKept, CancelledStays DEF CancelInv, CancelPath, CancelledInTurn
<1> QED BY <1>1, <1>2, DriverSafe, PTL DEF DriverSpec

\* Once the request to cancel a turn is durable, no further request of the turn goes
\* to the provider and none of its calls is started, through every interleaving of
\* input, commands, failures of the provider and restarts of the process.
THEOREM CancelledTurnRests == DriverSpec => CancelledTurnDoesNoMore
<1>1. ASSUME DriverBase, CancelInv, [DriverNext]_allVars, kept.cancel, refused = {}, Untroubled
      PROVE  NothingNew
  <2>1. CancelPending /\ Undisturbed
    BY <1>1 DEF CancelInv, Undisturbed
  <2>2. CASE Still
    BY <2>2 DEF Still
  <2>3. ~StartResponse /\ ~BeginTurn
    BY <1>1, <2>1 DEF StartResponse, BeginTurn, NothingWaits, CancelPending, NextPrompt
  <2>4. \A c \in Calls : ~BatchStarts(c)
    BY <1>1, <2>1 DEF BatchStarts, Admitted, Visiting, CancelPending
  <2>5. ~RecoverAnswered
    BY <1>1 DEF RecoverAnswered
  <2>6. ASSUME SettleCompletes PROVE NothingNew
    <3>1. TurnCompleted \/ UNCHANGED vars
      BY <2>6 DEF SettleCompletes, Commit, CommitOr, Unwritten
    <3>2. TurnCompleted => NothingNew
      BY ClearedIsQuiet DEF TurnCompleted, ClearTurn, AnsweredTurn
    <3> QED
      BY <3>1, <3>2 DEF vars, responseVars, NothingNew, Running
  <2>7. ASSUME CloseEnd PROVE NothingNew
    <3>1. TurnFailed \/ TurnRecovery \/ TurnInterrupted \/ UNCHANGED vars
      BY <2>7 DEF CloseEnd, EndEvent, CommitClosing, CommitOr, Unwritten
    <3>2. TurnFailed \/ TurnInterrupted => NothingNew
      BY ClearedIsQuiet DEF TurnFailed, TurnInterrupted, ClearTurn
    <3>3. TurnRecovery => NothingNew
      BY <1>1, EventsAreStill DEF DriverBase, SessionInv, Still
    <3> QED
      BY <3>1, <3>2, <3>3 DEF vars, responseVars, NothingNew, Running
  <2> QED
    BY <1>1, <2>2, <2>3, <2>4, <2>5, <2>6, <2>7, OnlySixStir
<1>2. DriverBase /\ CancelInv /\ [DriverNext]_allVars =>
         [kept.cancel /\ refused = {} /\ Untroubled =>
             /\ responseOpen' => responseOpen
             /\ \A c \in Calls : pendingCalls'[c].state = "started" => Running(c)]_allVars
  BY <1>1 DEF NothingNew, Running
<1> QED BY <1>2, DriverSafe, CancelSafe, PTL DEF DriverSpec, CancelledTurnDoesNoMore
-----------------------------------------------------------------------------
(***************************************************************************)
(* Why the reducer takes everything the driver commits.  At each place the *)
(* driver can be, the session is in a state that admits what may be        *)
(* committed there, until a command that still runs is reported closed or  *)
(* a write fails.                                                          *)
(***************************************************************************)
Clean == Untroubled /\ "process_closed" \notin refused

RequestPoints == {"cycle", "top", "admit", "prepare", "compacting"}
AnswerPoints  == {"provider", "late"}
CallPoints    == {"batch", "tool", "handoff"}
EndPoints     == {"failing", "interrupting", "closing", "closeWait", "cancelling"}
RestPoints    == {"idle", "held", "chain", "begin", "returned", "backoff", "reconcile",
                  "finish", "parting", "leave", "pause"}

\* A turn that can go on with its next request.
Workable ==
    /\ ~responseOpen
    /\ terminal \notin {"failed", "interrupted"}
    /\ responseComplete =>
          /\ AllFinished /\ outcome # "conflict"
          /\ SteeringPending \/ (processes # {} /\ outcome = "final")

\* What the turn looks like at each place.
TurnFits ==
    /\ pc \in RequestPoints => activeTurn /\ Workable
    /\ pc \in RequestPoints \ {"cycle"} => cycle < MaxCycles
    /\ pc \in AnswerPoints => responseOpen /\ ~SteeringAdmitted
    /\ pc = "provider" /\ edge.steering => SteeringPending
    /\ pc = "fallback" => FallbackMayStart
    /\ pc = "settle" => responseComplete /\ ~SteeringAdmitted
    /\ pc = "waiting" => responseComplete /\ outcome = "final" /\ processes # {}
    /\ pc \in CallPoints => activeTurn /\ ~responseOpen /\ terminal = "none" /\ outcome = "calls"
    /\ pc \in EndPoints => RecoverableTurn
    /\ pc \in RestPoints /\ activeTurn => Workable
    /\ pc # "rewait"

Unstarted(c) == pendingCalls[c].state \in {"none", "proposed"}

\* The calls from slot on are not started in the first wave of a batch; whatever is
\* still proposed before it, or in a later wave, is a command that waits for room.
WalkedTo(slot) ==
    /\ \A c \in Calls : pendingCalls[c].state = "proposed" =>
          pendingCalls[c].tool = "exec_command" \/ (batch.first /\ c >= slot)
    /\ batch.first => \A c \in Calls : c >= slot => Unstarted(c)

WalkFits ==
    /\ pc = "settle" /\ outcome = "calls" => \A c \in Calls : Unstarted(c)
    /\ pc = "batch" => WalkedTo(batch.slot)
    /\ pc = "tool" => WalkedTo(batch.slot + 1)

\* Every command the session knows is managed by this process, except in what a
\* restart found and between a call's start and its command's.
Managing(aside) == \A h \in processes \ aside : command[h] # "none"

CommandsFit ==
    /\ pc \notin {"closed", "recover", "closing", "closeWait", "tool"} => Managing({})
    /\ pc = "tool" => Managing({pendingCalls[batch.slot].handle})

\* A retry is of a turn that was kept, or of a goal that is still active.
RetryFits ==
    /\ pc \in RequestPoints \cup AnswerPoints \cup CallPoints
              \cup {"fallback", "settle", "waiting", "failing", "interrupting"} => ~retry.pending
    /\ pc \in {"closing", "closeWait"} /\ closing.back = "returned" => ~retry.pending
    /\ pc \in {"returned", "backoff", "reconcile"} /\ retry.pending => activeTurn
    /\ pc = "backoff" /\ retry.policy => activeTurn
    /\ pc = "backoff" /\ ~activeTurn => ForGoal
    /\ pc = "reconcile" /\ ~activeTurn => GoalActive
    /\ pc = "begin" /\ ~activeTurn /\ pendingInput = NoInput /\ retry.kind = "goal" => GoalActive

\* A compaction is under way only while the driver waits for it.
CompactFits ==
    /\ activeCompact.scope = NoId
    /\ activeCompact # NoCompact => pc \in {"compacting", "closed", "recover"}
    /\ pc = "compacting" => activeCompact # NoCompact

Accepting == refused = {} /\ TurnFits /\ WalkFits /\ CommandsFit /\ RetryFits /\ CompactFits

\* The inductive invariant of what is accepted.
AcceptInv == Clean => Accepting

\* A step that leaves the session alone changes none of this.
LEMMA SameSession ==
    ASSUME UNCHANGED vars
    PROVE  /\ Workable' <=> Workable
           /\ RecoverableTurn' <=> RecoverableTurn
           /\ SteeringPending' <=> SteeringPending
           /\ SteeringAdmitted' <=> SteeringAdmitted
           /\ FallbackMayStart' <=> FallbackMayStart
           /\ GoalActive' <=> GoalActive
           /\ \A c : Unstarted(c)' <=> Unstarted(c)
           /\ UNCHANGED <<activeTurn, responseOpen, responseComplete, terminal, outcome, cycle,
                          processes, pendingCalls, pendingInput, activeCompact>>
BY DEF vars, turnVars, modelVars, responseVars, attemptVars, inputVars, compactVars, Workable,
   RecoverableTurn, SteeringPending, SteeringAdmitted, FallbackMayStart, GoalActive, Unstarted,
   AllFinished, Unfinished

\* A write that fails is not forgotten.
LEMMA FaultsShow ==
    ASSUME BudgetTypes, Untroubled, Untroubled'
    PROVE  ~(budget.faults > 0 /\ budget' = [budget EXCEPT !.faults = @ - 1])
BY DriverAssumption DEF BudgetTypes, Untroubled

\* What each step is looked at with.
Going ==
    /\ DriverBase /\ DriverBase' /\ OwnedInv /\ OutcomeInv /\ OutcomeInv'
    /\ CommandsWithinLimit
    /\ BudgetTypes /\ Clean /\ Clean' /\ Accepting

\* What the events leave of this: a cleared response has nothing that is in the way.
LEMMA ClearedIsWorkable ==
    ClearResponse => ~responseOpen' /\ ~responseComplete' /\ terminal' = "none" /\ Workable'
BY DEF ClearResponse, Workable

\* The events of a turn.
LEMMA TurnEventsLeave ==
    /\ \A kind, ro, m : TurnStarted(kind, ro, m) =>
          activeTurn' /\ Workable' /\ cycle' = 0 /\ UNCHANGED <<processes, activeCompact>>
    /\ TurnRecovery => /\ activeTurn' /\ Workable' /\ activeCompact' = NoCompact
                       /\ UNCHANGED <<processes, goals, pendingInput>>
    /\ TurnCompleted \/ TurnInterrupted \/ TurnFailed =>
          ~activeTurn' /\ activeCompact' = NoCompact /\ UNCHANGED <<processes, goals, pendingInput>>
    /\ \A m : TurnFallbackStarted(m) =>
          /\ activeTurn' /\ Workable' /\ UNCHANGED <<processes, activeCompact>>
    /\ TurnModelChanged => /\ Workable' <=> Workable
                           /\ UNCHANGED <<activeTurn, cycle, processes, activeCompact>>
    /\ TurnCancelRequested => /\ Workable' <=> Workable
                              /\ RecoverableTurn' <=> RecoverableTurn
                              /\ UNCHANGED <<activeTurn, processes, activeCompact>>
<1> USE DEF turnVars, modelVars, responseVars, attemptVars, inputVars, compactVars
<1>1. \A kind, ro, m : TurnStarted(kind, ro, m) =>
         activeTurn' /\ Workable' /\ cycle' = 0 /\ UNCHANGED <<processes, activeCompact>>
  BY ClearedIsWorkable DEF TurnStarted
<1>2. TurnRecovery => /\ activeTurn' /\ Workable' /\ activeCompact' = NoCompact
                      /\ UNCHANGED <<processes, goals, pendingInput>>
  BY ClearedIsWorkable DEF TurnRecovery, RecoverableTurn, ClearCompaction
<1>3. TurnCompleted \/ TurnInterrupted \/ TurnFailed =>
         ~activeTurn' /\ activeCompact' = NoCompact /\ UNCHANGED <<processes, goals, pendingInput>>
  BY DEF TurnCompleted, TurnInterrupted, TurnFailed, ClearTurn, ClearCompaction
<1>4. \A m : TurnFallbackStarted(m) =>
         /\ activeTurn' /\ Workable' /\ UNCHANGED <<processes, activeCompact>>
  BY ClearedIsWorkable DEF TurnFallbackStarted, FallbackMayStart
<1>5. TurnModelChanged => /\ Workable' <=> Workable
                          /\ UNCHANGED <<activeTurn, cycle, processes, activeCompact>>
  BY DEF TurnModelChanged, Workable, AllFinished, Unfinished, SteeringPending
<1>6. TurnCancelRequested => /\ Workable' <=> Workable
                             /\ RecoverableTurn' <=> RecoverableTurn
                             /\ UNCHANGED <<activeTurn, processes, activeCompact>>
  BY DEF TurnCancelRequested, Workable, RecoverableTurn, AllFinished, Unfinished,
     SteeringPending
<1> QED BY <1>1, <1>2, <1>3, <1>4, <1>5, <1>6

\* The events of a response.
LEMMA ResponseEventsLeave ==
    ASSUME SessionInv
    PROVE  /\ \A irc : ResponseStarted(irc) =>
                 responseOpen' /\ ~SteeringAdmitted' /\ UNCHANGED <<processes, activeCompact>>
           /\ ResponseCapacityRejected =>
                 activeTurn' /\ Workable' /\ UNCHANGED <<processes, activeCompact>>
           /\ \A i, cyber : ResponseOutputCorrection(i, cyber) =>
                 activeTurn' /\ Workable' /\ UNCHANGED <<processes, activeCompact>>
           /\ \A end : ResponseInterrupted(end) =>
                 /\ RecoverableTurn' /\ (end # "interrupted" /\ end # "failed" => Workable')
                 /\ UNCHANGED <<activeTurn, processes, activeCompact, goals, pendingInput>>
           /\ \A newInput : ResponseFailed(newInput) =>
                 /\ RecoverableTurn' /\ terminal' = "failed"
                 /\ UNCHANGED <<fallbackActive, processes, activeCompact>>
           /\ \A graph, end : ResponseCompleted(graph, end) =>
                 /\ responseComplete' /\ outcome' = end /\ pendingCalls' = graph
                 /\ UNCHANGED <<steering, processes, activeCompact>>
<1> USE DEF turnVars, modelVars, responseVars, attemptVars, inputVars, compactVars, OutsideVars
<1>1. responseOpen => activeTurn /\ AllFinished
  BY DEF SessionInv, IdleIsSettled, CallsAreOfCompleteResponse, AllFinished, Unfinished,
     HasPending, Pending
<1>2. \A irc : ResponseStarted(irc) =>
         responseOpen' /\ ~SteeringAdmitted' /\ UNCHANGED <<processes, activeCompact>>
  BY DEF ResponseStarted, OpenResponse, AdmittedInputs, SteeringAdmitted
<1>3. ResponseCapacityRejected =>
         activeTurn' /\ Workable' /\ UNCHANGED <<processes, activeCompact>>
  BY <1>1, ClearedIsWorkable DEF ResponseCapacityRejected
<1>4. \A i, cyber : ResponseOutputCorrection(i, cyber) =>
         activeTurn' /\ Workable' /\ UNCHANGED <<processes, activeCompact>>
  BY <1>1, ClearedIsWorkable DEF ResponseOutputCorrection, CorrectionFits
<1>5. \A end : ResponseInterrupted(end) =>
         /\ RecoverableTurn' /\ (end # "interrupted" /\ end # "failed" => Workable')
         /\ UNCHANGED <<activeTurn, processes, activeCompact, goals, pendingInput>>
  BY <1>1 DEF ResponseInterrupted, InterruptFits, RecoverableTurn, Workable, AllFinished,
     Unfinished
<1>6. \A newInput : ResponseFailed(newInput) =>
         /\ RecoverableTurn' /\ terminal' = "failed"
         /\ UNCHANGED <<fallbackActive, processes, activeCompact>>
  BY <1>1 DEF ResponseFailed, RecoverableTurn, AllFinished, Unfinished
<1>7. \A graph, end : ResponseCompleted(graph, end) =>
         /\ responseComplete' /\ outcome' = end /\ pendingCalls' = graph
         /\ UNCHANGED <<steering, processes, activeCompact>>
  BY DEF ResponseCompleted
<1> QED BY <1>2, <1>3, <1>4, <1>5, <1>6, <1>7

\* A turn that can go on can also be given up.
LEMMA WorkableRecovers ==
    ASSUME SessionInv, activeTurn, Workable
    PROVE  /\ RecoverableTurn
           /\ responseComplete => outcome \in {"final", "refusal", "nonproductive", "calls"}
BY DEF SessionInv, TypeOK, AttemptTypes, Outcomes, CallsAreOfCompleteResponse, HasPending,
   Pending, Workable, RecoverableTurn, AllFinished, Unfinished

\* What a turn with an answer is, whatever follows the answer.
LEMMA AnsweredRecovers ==
    ASSUME SessionInv, OutcomeInv, responseComplete, outcome \notin {"calls", "conflict"}
    PROVE  /\ RecoverableTurn /\ ~HasPending
           /\ SteeringPending \/ (processes # {} /\ outcome = "final") => Workable
BY DEF SessionInv, TypeOK, AttemptTypes, Outcomes, CallsAreOfCompleteResponse, OutcomeInv,
   OutcomeFitsCalls, HasPending, Pending, Workable, RecoverableTurn, AllFinished, Unfinished

\* A turn that can go on has no call left.
LEMMA WorkableHasNoCall ==
    ASSUME SessionInv, OutcomeInv, Workable
    PROVE  ~HasPending
BY DEF SessionInv, TypeOK, AttemptTypes, Outcomes, CallsAreOfCompleteResponse, OutcomeInv,
   OutcomeFitsCalls, Workable

\* The result owed for an unfinished call is one the reducer takes.
LEMMA OwedFits ==
    ASSUME SessionInv, NEW c \in Calls, Unfinished(c), NEW collecting \in BOOLEAN,
           NEW status \in Owed(c, collecting)
    PROVE  ResultFits(c, status)
BY DEF SessionInv, CallsCanSettle, Owed, ResultFits, StatusAdmits, Unfinished, Running

\* A turn that can be recovered can be closed.
LEMMA ClosingAccepts ==
    ASSUME Going, NEW event, NEW back, NEW ok, NEW bad, BeginClosing(event, back, ok, bad),
           RecoverableTurn, activeCompact = NoCompact, back = "returned" => ~retry.pending
    PROVE  Accepting'
<1>1. RecoverableTurn' /\ activeCompact' = NoCompact
  BY SameSession DEF BeginClosing
<1> QED
  BY <1>1
  DEF Going, BeginClosing, hostVars, NoCompact, Accepting, TurnFits, WalkFits, CommandsFit,
      RetryFits, CompactFits, RequestPoints, AnswerPoints, CallPoints, EndPoints, RestPoints

\* So can it fail.
LEMMA FailAccepts ==
    ASSUME Going, NEW ok, NEW bad, FailTurn("returned", ok, bad),
           RecoverableTurn, activeCompact = NoCompact, ~retry.pending, Managing({})
    PROVE  Accepting'
<1>1. CASE RetryAvailable \/ (retry.policy /\ processes # {})
  <2>1. TurnRecovery /\ pc' = "returned" /\ UNCHANGED <<edge, workVars>> /\ UNCHANGED refused
    BY <1>1, FaultsShow DEF FailTurn, CommitOr, Unwritten, Going, Clean
  <2>2. activeTurn' /\ Workable' /\ activeCompact' = NoCompact /\ UNCHANGED processes
    BY <2>1, TurnEventsLeave
  <2> QED
    BY <2>1, <2>2
    DEF Going, workVars, NoCompact, Accepting, TurnFits, WalkFits, CommandsFit, Managing,
        RetryFits, CompactFits, RequestPoints, AnswerPoints, CallPoints, EndPoints, RestPoints
<1>2. CASE ~(RetryAvailable \/ (retry.policy /\ processes # {}))
  BY <1>2, ClosingAccepts DEF FailTurn
<1> QED BY <1>1, <1>2

\* Admitting input changes nothing of whether the turn can go on.
LEMMA AdmittingLeaves ==
    ASSUME NEW ids, InputAdmitted(ids)
    PROVE  /\ Workable' <=> Workable
           /\ UNCHANGED <<activeTurn, cycle, processes, activeCompact>>
BY DEF InputAdmitted, AdmissionFits, Workable, SteeringPending, AllFinished, Unfinished,
   turnVars, responseVars, attemptVars, compactVars

\* Compaction leaves the turn as it is.
LEMMA ContextLeaves ==
    (\E src : CompactionStarted(src, FALSE, NoId)) \/ CompactionInterrupted
      \/ CompactionCompleted(NoId)
    => /\ Workable' <=> Workable
       /\ RecoverableTurn' <=> RecoverableTurn
       /\ UNCHANGED <<activeTurn, cycle, processes>>
<1>1. (\E src : CompactionStarted(src, FALSE, NoId)) \/ CompactionInterrupted
        \/ CompactionCompleted(NoId)
      => UNCHANGED <<activeTurn, cycle, outcome, processes, steering, responseVars>>
  BY DEF CompactionStarted, CompactionInterrupted, CompactionCompleted, BesideContext, turnVars,
     attemptVars, inputVars
<1> QED
  BY <1>1 DEF Workable, RecoverableTurn, SteeringPending, AllFinished, Unfinished, responseVars

\* run_turn commits nothing that is refused.
LEMMA CycleAccepts ==
    ASSUME Going, CycleNext
    PROVE  Accepting'
<1>1. ASSUME BeginTurn
      PROVE  Accepting'
  <2>1. TurnMayStart(NextPrompt.origin, NextPrompt.readOnly, NextPrompt.model)
    BY <1>1 DEF BeginTurn, Going, DriverBase, Accepting, TurnFits, CompactFits, RequestPoints,
       AnswerPoints, RestPoints, NextPrompt, TurnMayStart, AdmissibleStart, SessionInv,
       IdleIsSettled, PromptShape, RetryFits, DriverTypeOK, HostTypes, Retries
  <2>2. /\ TurnStarted(NextPrompt.origin, NextPrompt.readOnly, NextPrompt.model)
        /\ pc' = "cycle" /\ UNCHANGED workVars
        /\ retry' = [retry EXCEPT !.pending = FALSE, !.fallback = FALSE, !.compacted = FALSE]
        /\ UNCHANGED refused
    BY <1>1, <2>1, FaultsShow DEF BeginTurn, Commit, CommitOr, Unwritten, Going, Clean, Goto
  <2>3. activeTurn' /\ Workable' /\ UNCHANGED <<processes, activeCompact>>
    BY <2>2, TurnEventsLeave
  <2> QED
    BY <1>1, <2>2, <2>3 DEF BeginTurn, Going, DriverBase, DriverTypeOK, HostTypes, Goto,
       workVars, hostVars, Retries, Accepting, TurnFits, WalkFits, CommandsFit, RetryFits,
       CompactFits, RequestPoints, AnswerPoints, CallPoints, EndPoints, RestPoints, WalkedTo,
       Managing
<1>2. ASSUME ContinueTurn
      PROVE  Accepting'
  BY <1>2, SameSession DEF ContinueTurn, Going, Quietly, Goto, DriverBase, DriverTypeOK,
     HostTypes, Retries, workVars, hostVars, Accepting, TurnFits, WalkFits, CommandsFit,
     RetryFits, CompactFits, RequestPoints, AnswerPoints, CallPoints, EndPoints, RestPoints,
     WalkedTo, Managing
<1>3. ASSUME StartCycle
      PROVE  Accepting'
  BY <1>3, SameSession DEF StartCycle, Going, Quietly, Goto, workVars, hostVars, Accepting,
     TurnFits, WalkFits, CommandsFit, RetryFits, CompactFits, RequestPoints, AnswerPoints,
     CallPoints, EndPoints, RestPoints, WalkedTo, Managing
<1>4. ASSUME CycleExhausted
      PROVE  Accepting'
  <2>1. RecoverableTurn /\ activeCompact = NoCompact
    BY <1>4, WorkableRecovers DEF CycleExhausted, Going, DriverBase, Accepting, TurnFits,
       CompactFits, RequestPoints, EndPoints
  <2>2. ~retry.pending /\ Managing({})
    BY <1>4 DEF CycleExhausted, Going, Accepting, RetryFits, CommandsFit, RequestPoints,
       AnswerPoints, CallPoints
  <2> QED BY <1>4, <2>1, <2>2, FailAccepts DEF CycleExhausted
<1>5. ASSUME LeaveCycle
      PROVE  Accepting'
  BY <1>5, SameSession DEF LeaveCycle, Going, Quietly, Goto, Return, workVars, hostVars,
     Accepting, TurnFits, WalkFits, CommandsFit, RetryFits, CompactFits, RequestPoints,
     AnswerPoints, CallPoints, EndPoints, RestPoints, WalkedTo, Managing
<1>6. ASSUME InterruptCycle
      PROVE  Accepting'
  <2>1. RecoverableTurn /\ activeCompact = NoCompact
    BY <1>6, WorkableRecovers DEF InterruptCycle, Going, DriverBase, Accepting, TurnFits,
       CompactFits, RequestPoints, EndPoints
  <2>2. ~retry.pending
    BY <1>6 DEF InterruptCycle, Going, Accepting, RetryFits, RequestPoints, AnswerPoints,
       CallPoints
  <2> QED BY <1>6, <2>1, <2>2, ClosingAccepts DEF InterruptCycle, InterruptTurn
<1>7. ASSUME SelectModel
      PROVE  Accepting'
  <2>1. SelectedNewModel => ModelMayChange
    BY <1>7 DEF SelectModel, Going, SelectedNewModel, ModelMayChange, Workable, Accepting,
       TurnFits, RequestPoints
  <2>2. /\ TurnModelChanged \/ UNCHANGED vars
        /\ pc' = "admit" /\ UNCHANGED <<retry, workVars, refused>>
    BY <1>7, <2>1, FaultsShow DEF SelectModel, Commit, CommitOr, Unwritten, Goto, Going, Clean
  <2>3. /\ Workable' <=> Workable
        /\ UNCHANGED <<activeTurn, cycle, processes, activeCompact>>
    BY <2>2, TurnEventsLeave, SameSession
  <2> QED
    BY <1>7, <2>2, <2>3 DEF SelectModel, Going, workVars, Accepting, TurnFits, WalkFits,
       CommandsFit, RetryFits, CompactFits, RequestPoints, AnswerPoints, CallPoints, EndPoints,
       RestPoints, WalkedTo, Managing
<1>8. ASSUME AdmitInput
      PROVE  Accepting'
  <2>1. ~inputAdmitted \/ Admissible # {} => AdmissionFits(Admissible)
    BY <1>8 DEF AdmitInput, Going, Admissible, AdmissionFits, Accepting, TurnFits,
       RequestPoints
  <2>2. /\ InputAdmitted(Admissible) \/ UNCHANGED vars
        /\ pc' = "prepare" /\ UNCHANGED <<retry, workVars, refused>>
    BY <1>8, <2>1, FaultsShow DEF AdmitInput, Commit, CommitOr, Unwritten, Goto, Going, Clean
  <2>3. /\ Workable' <=> Workable
        /\ UNCHANGED <<activeTurn, cycle, processes, activeCompact>>
    BY <2>2, AdmittingLeaves, SameSession
  <2> QED
    BY <1>8, <2>2, <2>3 DEF AdmitInput, Going, workVars, Accepting, TurnFits, WalkFits,
       CommandsFit, RetryFits, CompactFits, RequestPoints, AnswerPoints, CallPoints, EndPoints,
       RestPoints, WalkedTo, Managing
<1>9. ASSUME PrepareSteered
      PROVE  Accepting'
  BY <1>9, SameSession DEF PrepareSteered, Going, Quietly, Goto, workVars, hostVars, Accepting,
     TurnFits, WalkFits, CommandsFit, RetryFits, CompactFits, RequestPoints, AnswerPoints,
     CallPoints, EndPoints, RestPoints, WalkedTo, Managing
<1>10. ASSUME PrepareInterrupted
      PROVE  Accepting'
  <2>1. RecoverableTurn /\ activeCompact = NoCompact
    BY <1>10, WorkableRecovers DEF PrepareInterrupted, Going, DriverBase, Accepting, TurnFits,
       CompactFits, RequestPoints, EndPoints
  <2>2. ~retry.pending
    BY <1>10 DEF PrepareInterrupted, Going, Accepting, RetryFits, RequestPoints, AnswerPoints,
       CallPoints
  <2> QED BY <1>10, <2>1, <2>2, ClosingAccepts DEF PrepareInterrupted, InterruptTurn
<1>11. ASSUME PrepareLeaves
      PROVE  Accepting'
  BY <1>11, SameSession DEF PrepareLeaves, Going, Quietly, Goto, Return, workVars, hostVars,
     Accepting, TurnFits, WalkFits, CommandsFit, RetryFits, CompactFits, RequestPoints,
     AnswerPoints, CallPoints, EndPoints, RestPoints, WalkedTo, Managing
<1>12. ASSUME PrepareFails
      PROVE  Accepting'
  <2>1. RecoverableTurn /\ activeCompact = NoCompact
    BY <1>12, WorkableRecovers DEF PrepareFails, Going, DriverBase, Accepting, TurnFits,
       CompactFits, RequestPoints, EndPoints
  <2>2. ~retry.pending /\ Managing({})
    BY <1>12 DEF PrepareFails, Going, Accepting, RetryFits, CommandsFit, RequestPoints,
       AnswerPoints, CallPoints
  <2> QED BY <1>12, <2>1, <2>2, FailAccepts DEF PrepareFails
<1>13. ASSUME NEW src \in 1..turnCount, CompactRequest(src)
      PROVE  Accepting'
  <2>1. CompactionMayStart(src, FALSE, NoId)
    BY <1>13, WorkableHasNoCall DEF CompactRequest, Going, DriverBase, Accepting, TurnFits,
       CompactFits, RequestPoints, AnswerPoints, RestPoints, CompactionMayStart,
       AdmissibleSource, Workable
  <2>2. /\ CompactionStarted(src, FALSE, NoId) /\ pc' = "compacting"
        /\ UNCHANGED <<hostVars, workVars, refused>>
    BY <1>13, <2>1, FaultsShow DEF CompactRequest, Commit, CommitOr, Unwritten, Going, Clean,
       Goto
  <2>3. activeCompact' = [seq |-> src, scope |-> NoId]
    BY <2>2 DEF CompactionStarted
  <2>4. /\ Workable' <=> Workable
        /\ UNCHANGED <<activeTurn, cycle, processes>>
    BY <2>2, ContextLeaves
  <2> QED
    BY <1>13, <2>2, <2>3, <2>4 DEF CompactRequest, Going, DriverBase, DriverTypeOK, HostTypes,
       Goto, workVars, hostVars, NoCompact, Accepting, TurnFits, WalkFits, CommandsFit,
       RetryFits, CompactFits, RequestPoints, AnswerPoints, CallPoints, EndPoints, RestPoints,
       WalkedTo, Managing
<1>14. ASSUME CompactFinishes
      PROVE  Accepting'
  <2>1. SummaryFits(NoId)
    BY <1>14 DEF CompactFinishes, Going, DriverBase, Accepting, TurnFits, CompactFits,
       RequestPoints, AnswerPoints, RestPoints, SummaryFits
  <2>2. /\ CompactionCompleted(NoId) /\ pc' = "cycle" /\ UNCHANGED workVars
        /\ retry' = [retry EXCEPT !.compacted = TRUE] /\ UNCHANGED refused
    BY <1>14, <2>1, FaultsShow DEF CompactFinishes, Commit, CommitOr, Unwritten, Going, Clean,
       Goto
  <2>3. activeCompact' = NoCompact
    BY <2>2 DEF CompactionCompleted
  <2>4. /\ Workable' <=> Workable
        /\ UNCHANGED <<activeTurn, cycle, processes>>
    BY <2>2, ContextLeaves
  <2> QED
    BY <1>14, <2>2, <2>3, <2>4 DEF CompactFinishes, Going, DriverBase, DriverTypeOK, HostTypes,
       Goto, workVars, hostVars, NoCompact, Retries, Accepting, TurnFits, WalkFits, CommandsFit,
       RetryFits, CompactFits, RequestPoints, AnswerPoints, CallPoints, EndPoints, RestPoints,
       WalkedTo, Managing
<1>15. ASSUME CompactStops
      PROVE  Accepting'
  <2>1. activeCompact # NoCompact
    BY <1>15 DEF CompactStops, Going, DriverBase, Accepting, TurnFits, CompactFits,
       RequestPoints, AnswerPoints, RestPoints
  <2>2. /\ CompactionInterrupted /\ pc' \in {"failing", "prepare"}
        /\ UNCHANGED <<hostVars, workVars>> /\ UNCHANGED refused
    BY <1>15, <2>1, FaultsShow DEF CompactStops, Commit, CommitOr, Unwritten, Going, Clean, Goto
  <2>3. activeCompact' = NoCompact
    BY <2>2 DEF CompactionInterrupted, ClearCompaction
  <2>4. /\ Workable' <=> Workable
        /\ RecoverableTurn' <=> RecoverableTurn
        /\ UNCHANGED <<activeTurn, cycle, processes>>
    BY <2>2, ContextLeaves
  <2> QED
    BY <1>15, <2>2, <2>3, <2>4, WorkableRecovers DEF CompactStops, Going, DriverBase,
       DriverTypeOK, HostTypes, Goto, workVars, hostVars, NoCompact, Accepting, TurnFits,
       WalkFits, CommandsFit, RetryFits, CompactFits, RequestPoints, AnswerPoints, CallPoints,
       EndPoints, RestPoints, WalkedTo, Managing
<1>16. ASSUME StartResponse
      PROVE  Accepting'
  <2>1. RequestFits(ircReceived)
    BY <1>16 DEF StartResponse, Going, DriverBase, Accepting, TurnFits, CompactFits,
       RequestPoints, AnswerPoints, RestPoints, RequestFits, ResponseMayStart, Workable,
       SessionInv, SteeredHasSteering, TypeOK, IrcTypes
  <2>2. ResponseStarted(ircReceived) /\ pc' = "provider" /\ UNCHANGED workVars
        /\ edge' = [edge EXCEPT !.steering = FALSE, !.interrupt = FALSE]
        /\ retry' = [retry EXCEPT !.fallback = FALSE] /\ UNCHANGED refused
    BY <1>16, <2>1, FaultsShow DEF StartResponse, Commit, CommitOr, Unwritten, Going, Clean,
       Goto
  <2>3. responseOpen' /\ ~SteeringAdmitted' /\ UNCHANGED <<processes, activeCompact>>
    BY <2>2, ResponseEventsLeave DEF Going, DriverBase
  <2> QED
    BY <1>16, <2>2, <2>3 DEF StartResponse, Going, DriverBase, DriverTypeOK, HostTypes, Goto,
       workVars, hostVars, Edges, Retries, Accepting, TurnFits, WalkFits, CommandsFit,
       RetryFits, CompactFits, RequestPoints, AnswerPoints, CallPoints, EndPoints, RestPoints,
       WalkedTo, Managing
<1>17. ASSUME RenderFails
      PROVE  Accepting'
  BY <1>17, FaultsShow DEF RenderFails, Going, Clean
<1>18. ASSUME ResponseSteered
      PROVE  Accepting'
  <2>1. InterruptFits("steered") /\ activeTurn
    BY <1>18 DEF ResponseSteered, Going, DriverBase, Accepting, TurnFits, CompactFits,
       RequestPoints, AnswerPoints, RestPoints, InterruptFits, SessionInv, IdleIsSettled
  <2>2. /\ ResponseInterrupted("steered") /\ pc' = "cycle" /\ UNCHANGED <<hostVars, workVars>>
        /\ UNCHANGED refused
    BY <1>18, <2>1, FaultsShow DEF ResponseSteered, Commit, CommitOr, Unwritten, Going, Clean,
       CutResponse, Goto
  <2>3. Workable' /\ UNCHANGED <<activeTurn, processes, activeCompact>>
    BY <2>2, ResponseEventsLeave DEF Going, DriverBase
  <2> QED
    BY <1>18, <2>2, <2>3, <2>1 DEF ResponseSteered, Going, DriverBase, DriverTypeOK, HostTypes,
       Goto, workVars, hostVars, Accepting, TurnFits, WalkFits, CommandsFit, RetryFits,
       CompactFits, RequestPoints, AnswerPoints, CallPoints, EndPoints, RestPoints, WalkedTo,
       Managing
<1>19. ASSUME ResponseControlled
      PROVE  Accepting'
  <2>1. InterruptFits("none") /\ activeTurn
    BY <1>19 DEF ResponseControlled, Going, DriverBase, Accepting, TurnFits, CompactFits,
       RequestPoints, AnswerPoints, RestPoints, InterruptFits, SessionInv, IdleIsSettled
  <2>2. /\ ResponseInterrupted("none") /\ pc' = "cycle" /\ UNCHANGED <<hostVars, workVars>>
        /\ UNCHANGED refused
    BY <1>19, <2>1, FaultsShow DEF ResponseControlled, Commit, CommitOr, Unwritten, Going,
       Clean, CutResponse, Goto
  <2>3. Workable' /\ UNCHANGED <<activeTurn, processes, activeCompact>>
    BY <2>2, ResponseEventsLeave DEF Going, DriverBase
  <2> QED
    BY <1>19, <2>2, <2>3, <2>1 DEF ResponseControlled, Going, DriverBase, DriverTypeOK,
       HostTypes, Goto, workVars, hostVars, Accepting, TurnFits, WalkFits, CommandsFit,
       RetryFits, CompactFits, RequestPoints, AnswerPoints, CallPoints, EndPoints, RestPoints,
       WalkedTo, Managing
<1>20. ASSUME ResponseCancelled
      PROVE  Accepting'
  <2>1. InterruptFits("interrupted") /\ activeTurn
    BY <1>20 DEF ResponseCancelled, Going, DriverBase, Accepting, TurnFits, CompactFits,
       RequestPoints, AnswerPoints, RestPoints, InterruptFits, SessionInv, IdleIsSettled
  <2>2. /\ ResponseInterrupted("interrupted") /\ pc' = "interrupting"
        /\ UNCHANGED <<hostVars, workVars, refused>>
    BY <1>20, <2>1, FaultsShow DEF ResponseCancelled, Commit, CommitOr, Unwritten, Going, Clean,
       CutResponse, Goto
  <2>3. RecoverableTurn' /\ UNCHANGED <<activeTurn, processes, activeCompact>>
    BY <2>2, ResponseEventsLeave DEF Going, DriverBase
  <2> QED
    BY <1>20, <2>2, <2>3, <2>1 DEF ResponseCancelled, Going, DriverBase, DriverTypeOK,
       HostTypes, Goto, workVars, hostVars, Accepting, TurnFits, WalkFits, CommandsFit,
       RetryFits, CompactFits, RequestPoints, AnswerPoints, CallPoints, EndPoints, RestPoints,
       WalkedTo, Managing
<1>21. ASSUME CancelTurn
      PROVE  Accepting'
  <2>1. RecoverableTurn /\ activeCompact = NoCompact
    BY <1>21 DEF CancelTurn, Going, DriverBase, Accepting, TurnFits, CompactFits, RequestPoints,
       EndPoints
  <2>2. ~retry.pending
    BY <1>21 DEF CancelTurn, Going, Accepting, RetryFits, RequestPoints, AnswerPoints,
       CallPoints
  <2> QED BY <1>21, <2>1, <2>2, ClosingAccepts DEF CancelTurn, InterruptTurn
<1>22. ASSUME NEW i \in Inputs, NEW cyber \in BOOLEAN, CorrectOutput(i, cyber)
      PROVE  Accepting'
  <2>1. CorrectionFits(i, cyber)
    BY <1>22 DEF CorrectOutput, Going, DriverBase, Accepting, TurnFits, CompactFits,
       RequestPoints, AnswerPoints, RestPoints, CorrectionFits
  <2>2. /\ ResponseOutputCorrection(i, cyber) /\ pc' = "cycle"
        /\ UNCHANGED <<hostVars, workVars>> /\ UNCHANGED refused
    BY <1>22, <2>1, FaultsShow DEF CorrectOutput, Commit, CommitOr, Unwritten, Going, Clean,
       Goto
  <2>3. activeTurn' /\ Workable' /\ UNCHANGED <<processes, activeCompact>>
    BY <2>2, ResponseEventsLeave DEF Going, DriverBase
  <2> QED
    BY <1>22, <2>2, <2>3 DEF CorrectOutput, Going, DriverBase, DriverTypeOK, HostTypes, Goto,
       workVars, hostVars, Accepting, TurnFits, WalkFits, CommandsFit, RetryFits, CompactFits,
       RequestPoints, AnswerPoints, CallPoints, EndPoints, RestPoints, WalkedTo, Managing
<1>23. ASSUME RejectCapacity
      PROVE  Accepting'
  <2>1. responseOpen
    BY <1>23 DEF RejectCapacity, Going, DriverBase, Accepting, TurnFits, CompactFits,
       RequestPoints, AnswerPoints, RestPoints
  <2>2. /\ ResponseCapacityRejected /\ pc' = "cycle" /\ UNCHANGED <<hostVars, workVars>>
        /\ UNCHANGED refused
    BY <1>23, <2>1, FaultsShow DEF RejectCapacity, Commit, CommitOr, Unwritten, Going, Clean,
       Goto
  <2>3. activeTurn' /\ Workable' /\ UNCHANGED <<processes, activeCompact>>
    BY <2>2, ResponseEventsLeave DEF Going, DriverBase
  <2> QED
    BY <1>23, <2>2, <2>3 DEF RejectCapacity, Going, DriverBase, DriverTypeOK, HostTypes, Goto,
       workVars, hostVars, Accepting, TurnFits, WalkFits, CommandsFit, RetryFits, CompactFits,
       RequestPoints, AnswerPoints, CallPoints, EndPoints, RestPoints, WalkedTo, Managing
<1>24. ASSUME TryFallback
      PROVE  Accepting'
  <2>1. responseOpen
    BY <1>24 DEF TryFallback, Going, DriverBase, Accepting, TurnFits, CompactFits,
       RequestPoints, AnswerPoints, RestPoints
  <2>2. /\ ResponseFailed(FALSE) /\ pc' = "fallback" /\ UNCHANGED <<retry, workVars>>
        /\ UNCHANGED refused
    BY <1>24, <2>1, FaultsShow DEF TryFallback, Commit, CommitOr, Unwritten, Going, Clean, Goto
  <2>3. RecoverableTurn' /\ terminal' = "failed" /\ UNCHANGED <<fallbackActive, processes,
                                                                activeCompact>>
    BY <2>2, ResponseEventsLeave DEF Going, DriverBase
  <2> QED
    BY <1>24, <2>2, <2>3 DEF TryFallback, Going, DriverBase, DriverTypeOK, HostTypes, Goto,
       workVars, hostVars, FallbackMayStart, RecoverableTurn, Accepting, TurnFits, WalkFits,
       CommandsFit, RetryFits, CompactFits, RequestPoints, AnswerPoints, CallPoints, EndPoints,
       RestPoints, WalkedTo, Managing
<1>25. ASSUME StartFallback
      PROVE  Accepting'
  <2>1. FallbackMayStart
    BY <1>25 DEF StartFallback, Going, Accepting, TurnFits
  <2>2. PICK m : /\ TurnFallbackStarted(m)
                 /\ retry' = [retry EXCEPT !.fallback = TRUE] /\ pc' = "cycle"
                 /\ UNCHANGED <<workVars, refused>>
    BY <1>25, <2>1, FaultsShow DEF StartFallback, Commit, CommitOr, Unwritten, Goto, Going,
       Clean
  <2>3. activeTurn' /\ Workable' /\ UNCHANGED <<processes, activeCompact>>
    BY <2>2, TurnEventsLeave
  <2> QED
    BY <1>25, <2>2, <2>3 DEF StartFallback, Going, DriverBase, DriverTypeOK, HostTypes, Retries,
       workVars, Accepting, TurnFits, WalkFits, CommandsFit, RetryFits, CompactFits,
       RequestPoints, AnswerPoints, CallPoints, EndPoints, RestPoints, WalkedTo, Managing
<1>26. ASSUME NEW kind \in FailureKinds, FailResponse(kind)
      PROVE  Accepting'
  <2>1. responseOpen
    BY <1>26 DEF FailResponse, Going, DriverBase, Accepting, TurnFits, CompactFits,
       RequestPoints, AnswerPoints, RestPoints
  <2>2. /\ ResponseFailed(kind = "newInput") /\ pc' = "failing" /\ UNCHANGED workVars
        /\ retry' = RetryAfter(kind) /\ UNCHANGED refused
    BY <1>26, <2>1, FaultsShow DEF FailResponse, Return, Unwritten, Going, Clean, Goto
  <2>3. RecoverableTurn' /\ UNCHANGED <<processes, activeCompact>>
    BY <2>2, ResponseEventsLeave DEF Going, DriverBase
  <2> QED
    BY <1>26, <2>2, <2>3 DEF FailResponse, Going, DriverBase, DriverTypeOK, HostTypes, Goto,
       workVars, hostVars, Retries, RetryAfter, Accepting, TurnFits, WalkFits, CommandsFit,
       RetryFits, CompactFits, RequestPoints, AnswerPoints, CallPoints, EndPoints, RestPoints,
       WalkedTo, Managing
<1>27. ASSUME Failing
      PROVE  Accepting'
  <2>1. RecoverableTurn /\ activeCompact = NoCompact
    BY <1>27 DEF Failing, Going, DriverBase, Accepting, TurnFits, CompactFits, RequestPoints,
       EndPoints
  <2>2. ~retry.pending /\ Managing({})
    BY <1>27 DEF Failing, Going, Accepting, RetryFits, CommandsFit, RequestPoints, AnswerPoints,
       CallPoints
  <2> QED BY <1>27, <2>1, <2>2, FailAccepts DEF Failing
<1>28. ASSUME ProviderReturns
      PROVE  Accepting'
  BY <1>28, SameSession DEF ProviderReturns, Going, Quietly, Goto, workVars, hostVars,
     Accepting, TurnFits, WalkFits, CommandsFit, RetryFits, CompactFits, RequestPoints,
     AnswerPoints, CallPoints, EndPoints, RestPoints, WalkedTo, Managing
<1>29. ASSUME NEW graph \in Graphs, NEW end \in GraphOutcomes(\E c \in Calls : graph[c] # NoCall),
             CompleteResponse(graph, end)
      PROVE  Accepting'
  <2>1. CompletionFits(graph, end)
    BY <1>29 DEF CompleteResponse, Going, DriverBase, Accepting, TurnFits, CompactFits,
       RequestPoints, AnswerPoints, RestPoints, CompletionFits
  <2>2. ResponseCompleted(graph, end) /\ pc' = "settle" /\ UNCHANGED workVars
        /\ retry' = [retry EXCEPT !.compacted = FALSE] /\ UNCHANGED refused
    BY <1>29, <2>1, FaultsShow DEF CompleteResponse, Commit, CommitOr, Unwritten, Going,
       Clean, Goto
  <2>3. /\ responseComplete' /\ outcome' = end /\ pendingCalls' = graph
        /\ UNCHANGED <<steering, processes, activeCompact>>
    BY <2>2, ResponseEventsLeave DEF Going, DriverBase
  <2>4. \A c \in Calls : graph[c].state \in {"none", "proposed"}
    BY <2>2, DriverAssumption DEF ProposedCalls, NoCall, ExecCall, WriteCall, PlainCall
  <2> QED
    BY <1>29, <2>2, <2>3, <2>4 DEF CompleteResponse, Going, DriverBase, DriverTypeOK, HostTypes,
       Goto, workVars, hostVars, Retries, SteeringAdmitted, Unstarted, Accepting, TurnFits,
       WalkFits, CommandsFit, RetryFits, CompactFits, RequestPoints, AnswerPoints, CallPoints,
       EndPoints, RestPoints, WalkedTo, Managing
<1>30. ASSUME NEW c \in Calls, SettleConflict(c)
      PROVE  Accepting'
  <2>1. PICK status \in Owed(c, FALSE) :
           CommitOr("tool_finished", ResultFits(c, status), ToolFinished(c, status),
                    /\ UNCHANGED <<command, late>>
                    /\ UNCHANGED <<pc, rc, hostVars, batch, closing>>,
                    "returned", "broken")
    BY <1>30 DEF SettleConflict, Terminalize
  <2>2. ResultFits(c, status)
    BY <1>30, OwedFits DEF SettleConflict, Terminalize, Going, DriverBase
  <2>3. ToolFinished(c, status) /\ UNCHANGED <<command, pc, hostVars, batch, closing, refused>>
    BY <2>1, <2>2, FaultsShow DEF CommitOr, Unwritten, Going, Clean
  <2>4. /\ UNCHANGED <<responseComplete, outcome, steering, activeCompact, processes>>
    BY <1>30, <2>3 DEF SettleConflict, ToolFinished, FinishCall, AsideVars, attemptVars,
       inputVars, compactVars, Owed
  <2> QED
    BY <1>30, <2>3, <2>4 DEF SettleConflict, Going, SteeringAdmitted, hostVars, Accepting,
       TurnFits, WalkFits, CommandsFit, RetryFits, CompactFits, RequestPoints, AnswerPoints,
       CallPoints, EndPoints, RestPoints, WalkedTo, Managing
<1>31. ASSUME SettleConflicted
      PROVE  Accepting'
  BY <1>31, SameSession DEF SettleConflicted, Going, Quietly, Goto, DriverBase, SessionInv,
     CallsAreOfCompleteResponse, RecoverableTurn, workVars, hostVars, Accepting, TurnFits,
     WalkFits, CommandsFit, RetryFits, CompactFits, RequestPoints, AnswerPoints, CallPoints,
     EndPoints, RestPoints, WalkedTo, Managing
<1>32. ASSUME SettleSteered
      PROVE  Accepting'
  BY <1>32, AnsweredRecovers, SameSession DEF SettleSteered, Going, Quietly, Goto, DriverBase,
     LateSteering, SessionInv, CallsAreOfCompleteResponse, workVars, hostVars, Accepting,
     TurnFits, WalkFits, CommandsFit, RetryFits, CompactFits, RequestPoints, AnswerPoints,
     CallPoints, EndPoints, RestPoints, WalkedTo, Managing
<1>33. ASSUME SettleRefuses
      PROVE  Accepting'
  BY <1>33, SameSession DEF SettleRefuses, Going, Quietly, Goto, DriverBase, DriverTypeOK,
     HostTypes, Retries, Settling, workVars, hostVars, Accepting, TurnFits, WalkFits,
     CommandsFit, RetryFits, CompactFits, RequestPoints, AnswerPoints, CallPoints, EndPoints,
     RestPoints, WalkedTo, Managing
<1>34. ASSUME SettleWaits
      PROVE  Accepting'
  BY <1>34, SameSession DEF SettleWaits, Going, Quietly, Goto, Settling, workVars, hostVars,
     Accepting, TurnFits, WalkFits, CommandsFit, RetryFits, CompactFits, RequestPoints,
     AnswerPoints, CallPoints, EndPoints, RestPoints, WalkedTo, Managing
<1>35. ASSUME SettleUnsettled
      PROVE  Accepting'
  <2>1. RecoverableTurn /\ activeCompact = NoCompact
    BY <1>35, AnsweredRecovers DEF SettleUnsettled, Going, DriverBase, Settling, Accepting,
       TurnFits, CompactFits, RequestPoints, EndPoints
  <2>2. ~retry.pending /\ Managing({})
    BY <1>35 DEF SettleUnsettled, Going, Accepting, RetryFits, CommandsFit, RequestPoints,
       AnswerPoints, CallPoints, Settling
  <2> QED BY <1>35, <2>1, <2>2, FailAccepts DEF SettleUnsettled
<1>36. ASSUME SettleCompletes
      PROVE  Accepting'
  <2>1. AnsweredTurn
    BY <1>36, AnsweredRecovers DEF SettleCompletes, Going, DriverBase, Accepting, TurnFits,
       CompactFits, RequestPoints, AnswerPoints, RestPoints, AnsweredTurn, CompletableTurn,
       RecoverableTurn, Settling
  <2>2. /\ TurnCompleted /\ pc' = "returned" /\ UNCHANGED workVars /\ retry'.pending = FALSE
        /\ UNCHANGED refused
    BY <1>36, <2>1, FaultsShow DEF SettleCompletes, Commit, CommitOr, Unwritten, Going, Clean,
       Return, Settling, DriverBase, DriverTypeOK, HostTypes, Retries, Accepting, RetryFits
  <2>3. ~activeTurn' /\ activeCompact' = NoCompact /\ UNCHANGED processes
    BY <2>2, TurnEventsLeave
  <2> QED
    BY <1>36, <2>2, <2>3 DEF SettleCompletes, Going, DriverBase, DriverTypeOK, HostTypes, Goto,
       workVars, hostVars, NoCompact, Retries, Settling, Return, Accepting, TurnFits, WalkFits,
       CommandsFit, RetryFits, CompactFits, RequestPoints, AnswerPoints, CallPoints, EndPoints,
       RestPoints, WalkedTo, Managing
<1>37. ASSUME SettleNonproductive
      PROVE  Accepting'
  <2>1. RecoverableTurn /\ activeCompact = NoCompact
    BY <1>37, AnsweredRecovers DEF SettleNonproductive, Going, DriverBase, Settling, Accepting,
       TurnFits, CompactFits, RequestPoints, EndPoints
  <2>2. ~retry.pending /\ Managing({})
    BY <1>37 DEF SettleNonproductive, Going, Accepting, RetryFits, CommandsFit, RequestPoints,
       AnswerPoints, CallPoints, Settling
  <2> QED BY <1>37, <2>1, <2>2, FailAccepts DEF SettleNonproductive
<1>38. ASSUME SettleCalls
      PROVE  Accepting'
  BY <1>38, DriverAssumption, NoBatchTypes, SameSession DEF SettleCalls, Going, Quietly, Goto,
     DriverBase, DriverTypeOK, HostTypes, Retries, Batches, NoBatch, BatchStart, SessionInv,
     CallsAreOfCompleteResponse, workVars, hostVars, Accepting, TurnFits, WalkFits, CommandsFit,
     RetryFits, CompactFits, RequestPoints, AnswerPoints, CallPoints, EndPoints, RestPoints,
     WalkedTo, Managing
<1>39. ASSUME WaitControlled
      PROVE  Accepting'
  BY <1>39, SameSession DEF WaitControlled, Going, Quietly, Goto, workVars, hostVars, Accepting,
     TurnFits, WalkFits, CommandsFit, RetryFits, CompactFits, RequestPoints, AnswerPoints,
     CallPoints, EndPoints, RestPoints, WalkedTo, Managing
<1>40. ASSUME WaitEnds
      PROVE  Accepting'
  BY <1>40, AnsweredRecovers, SameSession DEF WaitEnds, Going, Quietly, Goto, DriverBase,
     SessionInv, CallsAreOfCompleteResponse, RecoverableTurn, workVars, hostVars, Accepting,
     TurnFits, WalkFits, CommandsFit, RetryFits, CompactFits, RequestPoints, AnswerPoints,
     CallPoints, EndPoints, RestPoints, WalkedTo, Managing
<1> QED
  BY ONLY Going, CycleNext, <1>1, <1>2, <1>3, <1>4, <1>5, <1>6, <1>7, <1>8, <1>9, <1>10,
     <1>11, <1>12, <1>13, <1>14, <1>15, <1>16, <1>17, <1>18, <1>19, <1>20, <1>21, <1>22,
     <1>23, <1>24, <1>25, <1>26, <1>27, <1>28, <1>29, <1>30, <1>31, <1>32, <1>33, <1>34,
     <1>35, <1>36, <1>37, <1>38, <1>39, <1>40 DEF CycleNext

\* A result of this status fits an unfinished call.
LEMMA CallFits ==
    ASSUME SessionInv, NEW c \in Calls, Unfinished(c)
    PROVE  /\ ~Running(c) => ResultFits(c, "refused")
           /\ Running(c) => ResultFits(c, "ended") /\ ResultFits(c, "unknown")
           /\ Running(c) /\ pendingCalls[c].handle # NoId => ResultFits(c, "running")
BY DEF SessionInv, CallsCanSettle, ResultFits, StatusAdmits, Unfinished, Running

\* What a result of a response that asked for calls leaves.
LEMMA ResultLeaves ==
    ASSUME SessionInv, outcome = "calls", NEW c \in Calls, NEW status, ToolFinished(c, status)
    PROVE  /\ activeTurn' /\ ~responseOpen' /\ terminal' = "none" /\ outcome' = "calls"
           /\ UNCHANGED activeCompact
           /\ processes' = IF Running(c) /\ status = "ended"
                           THEN processes \ {pendingCalls[c].handle} ELSE processes
           /\ \A d \in Calls \ {c} : Unstarted(d) => Unstarted(d)'
           /\ \A d \in Calls : pendingCalls'[d].state = "proposed" =>
                 d # c /\ pendingCalls'[d] = pendingCalls[d]
<1>1. activeTurn /\ responseComplete /\ ~responseOpen /\ terminal = "none"
  BY DEF SessionInv, CallsAreOfCompleteResponse, ToolFinished, ResultFits
<1>2. /\ UNCHANGED <<activeTurn, outcome, activeCompact>>
      /\ processes' = IF Running(c) /\ status = "ended"
                      THEN processes \ {pendingCalls[c].handle} ELSE processes
  BY DEF ToolFinished, AsideVars, turnVars, attemptVars, compactVars
<1>3. CASE ClearResponse
  BY <1>1, <1>2, <1>3 DEF ClearResponse, NoCall, Unstarted
<1>4. CASE /\ pendingCalls' = [pendingCalls EXCEPT
                    ![c] = InState(@, IF Running(c) THEN "finished" ELSE "refused")]
           /\ UNCHANGED <<responseOpen, terminal>>
  <2>1. /\ \A d \in Calls \ {c} : pendingCalls'[d] = pendingCalls[d]
        /\ pendingCalls'[c].state \in {"finished", "refused"}
    BY <1>4 DEF InState, SessionInv, TypeOK, ResponseTypes
  <2> QED BY <1>1, <1>2, <1>4, <2>1 DEF Unstarted
<1> QED BY <1>3, <1>4 DEF ToolFinished, FinishCall

\* The walk goes on past a call that got its result ...
LEMMA ResultWalksPast ==
    ASSUME SessionInv, outcome = "calls", NEW c \in Calls, NEW status, ToolFinished(c, status),
           WalkedTo(c + 1), batch'.slot = c + 1, batch'.first = batch.first
    PROVE  WalkedTo(batch.slot)'
BY ResultLeaves, DriverAssumption DEF WalkedTo

\* ... to which it had come,
LEMMA ResultWalksOn ==
    ASSUME SessionInv, DriverTypeOK, outcome = "calls", NEW c \in Calls, NEW status,
           ToolFinished(c, status), Visited(c), WalkedTo(batch.slot),
           batch'.slot = c + 1, batch'.first = batch.first
    PROVE  WalkedTo(batch.slot)'
<1>1. /\ c \in Nat /\ batch.slot \in Nat /\ c >= batch.slot
      /\ \A d \in Calls : d \in Nat /\ (d >= batch.slot /\ Unfinished(d) => c <= d)
  BY DriverAssumption DEF Visited, Following, DriverTypeOK, HostTypes, Batches
<1> QED
  BY <1>1, ResultLeaves DEF WalkedTo, Unfinished

\* and past one that it leaves as it is.
LEMMA PassingWalksOn ==
    ASSUME SessionInv, DriverTypeOK, NEW c \in Calls, UNCHANGED vars, Visited(c),
           WalkedTo(batch.slot), batch'.slot = c + 1, batch'.first = batch.first,
           pendingCalls[c].state = "proposed" => pendingCalls[c].tool = "exec_command"
    PROVE  WalkedTo(batch.slot)'
<1>1. /\ c \in Nat /\ batch.slot \in Nat /\ c >= batch.slot
      /\ \A d \in Calls : d \in Nat /\ (d >= batch.slot /\ Unfinished(d) => c <= d)
  BY DriverAssumption DEF Visited, Following, DriverTypeOK, HostTypes, Batches
<1> QED
  BY <1>1, SameSession DEF WalkedTo, Unfinished

\* What tools_prepare lets start, the reducer takes: the commands it counts are those
\* the session knows, and no later call of the wave has started.
LEMMA PreparedFits ==
    ASSUME Going, pc = "batch", NEW c \in Calls, Visited(c), Preparation(c) = "start",
           pendingCalls[c].state = "proposed"
    PROVE  /\ ProcessAdmits(pendingCalls[c])
           /\ readOnly => ReadOnlyTool(pendingCalls[c].tool)
<1>1. Managed = processes
  BY DEF Managed, Going, DriverBase, SessionInv, TypeOK, OwnedInv, CommandsAreOwned, Accepting,
     CommandsFit, Managing
<1>2. readOnly => ReadOnlyTool(pendingCalls[c].tool)
  BY DEF Preparation
<1>3. ASSUME pendingCalls[c].tool = "exec_command"
      PROVE  Cardinality(processes) < MaxParallel /\ pendingCalls[c].handle \notin processes
  <2>1. ~(Cardinality(Managed) >= MaxParallel) /\ pendingCalls[c].handle \notin Managed
    BY <1>3 DEF Preparation
  <2>2. Cardinality(processes) \in Nat
    BY FS_CardinalityType DEF Going, CommandsWithinLimit
  <2> QED BY <1>1, <2>1, <2>2, ParallelAssumption
<1>4. ASSUME pendingCalls[c].tool = "write_stdin"
      PROVE  /\ pendingCalls[c].handle \in processes
             /\ \A d \in Calls : pendingCalls[d].state \in {"started", "finished"} =>
                   pendingCalls[d].handle # pendingCalls[c].handle
  <2>1. /\ pendingCalls[c].handle \in Managed /\ ~InCall(pendingCalls[c].handle)
        /\ ~\E d \in Calls : /\ d < c /\ pendingCalls[d].state \in {"started", "finished"}
                             /\ pendingCalls[d].handle = pendingCalls[c].handle
    BY <1>4 DEF Preparation
  <2>2. \A d \in Calls : d >= c => Unstarted(d)
    <3>1. c >= batch.slot /\ batch.slot \in Nat /\ c \in Nat /\ \A d \in Calls : d \in Nat
      BY DriverAssumption DEF Visited, Following, Going, DriverBase, DriverTypeOK, HostTypes,
           Batches
    <3> QED BY <1>4, <3>1 DEF WalkedTo, Going, Accepting, WalkFits
  <2> QED BY <1>1, <2>1, <2>2, DriverAssumption DEF Unstarted
<1> QED BY <1>2, <1>3, <1>4 DEF ProcessAdmits

\* A batch of calls commits nothing that is refused.
LEMMA CallsAccepts ==
    ASSUME Going, CallsNext
    PROVE  Accepting'
<1>1. ASSUME NEW c \in Calls, BatchRuleRejects(c)
      PROVE  Accepting'
  <2>1. ResultFits(c, "refused") /\ ~Running(c) /\ Visited(c) /\ pc = "batch"
    BY <1>1, CallFits DEF BatchRuleRejects, Visiting, Admitted, Visited, Following, Unfinished,
       Running, Going, DriverBase
  <2>2. /\ ToolFinished(c, "refused") /\ UNCHANGED <<command, hostVars, closing, refused>>
        /\ pc' = "batch" /\ batch'.slot = c + 1 /\ batch'.first = batch.first
    BY <1>1, <2>1, FaultsShow DEF BatchRuleRejects, FinishVisited, Commit, CommitOr, Unwritten,
       Goto, Noted, Going, DriverBase, DriverTypeOK, HostTypes, Batches, Clean
  <2>3. WalkedTo(batch.slot)'
    BY <2>1, <2>2, ResultWalksOn DEF Going, DriverBase, Accepting, TurnFits, WalkFits,
       CallPoints
  <2>4. /\ activeTurn' /\ ~responseOpen' /\ terminal' = "none" /\ outcome' = "calls"
        /\ UNCHANGED activeCompact /\ processes' = processes
    BY <2>1, <2>2, ResultLeaves DEF Going, DriverBase, Accepting, TurnFits, CallPoints
  <2> QED
    BY <2>1, <2>2, <2>3, <2>4 DEF Going, hostVars, Accepting, TurnFits, WalkFits, CommandsFit,
       RetryFits, CompactFits, RequestPoints, AnswerPoints, CallPoints, EndPoints, RestPoints,
       Managing
<1>2. ASSUME NEW c \in Calls, BatchCancelled(c)
      PROVE  Accepting'
  <2>1. Managing({})'
    BY <1>2, SameSession DEF BatchCancelled, CloseAll, HandOff, Visiting, Going, DriverBase,
       DriverTypeOK, HostTypes, SessionInv, TypeOK, Accepting, CommandsFit, Managing
  <2> QED
    BY <1>2, <2>1, SameSession DEF BatchCancelled, HandOff, Visiting, Goto, Going, hostVars,
       Accepting, TurnFits, WalkFits, CommandsFit, RetryFits, CompactFits, RequestPoints,
       AnswerPoints, CallPoints, EndPoints, RestPoints, WalkedTo
<1>3. ASSUME NEW c \in Calls, BatchCollects(c)
      PROVE  Accepting'
  <2>1. /\ ResultFits(c, "ended") /\ Running(c) /\ Ready(pendingCalls[c].handle)
        /\ Visited(c) /\ pc = "batch"
    BY <1>3, CallFits DEF BatchCollects, Visiting, Admitted, Visited, Following, Unfinished,
       Running, Going, DriverBase
  <2>2. /\ ToolFinished(c, "ended") /\ Collected(pendingCalls[c].handle)
        /\ UNCHANGED <<hostVars, closing, refused>>
        /\ pc' = "batch" /\ batch'.slot = c + 1 /\ batch'.first = batch.first
    BY <1>3, <2>1, FaultsShow DEF BatchCollects, Commit, CommitOr, Unwritten, Goto, Noted,
       Going, DriverBase, DriverTypeOK, HostTypes, Batches, Clean
  <2>3. WalkedTo(batch.slot)'
    BY <2>1, <2>2, ResultWalksOn DEF Going, DriverBase, Accepting, TurnFits, WalkFits,
       CallPoints
  <2>4. /\ activeTurn' /\ ~responseOpen' /\ terminal' = "none" /\ outcome' = "calls"
        /\ UNCHANGED activeCompact /\ processes' = processes \ {pendingCalls[c].handle}
    BY <2>1, <2>2, ResultLeaves DEF Going, DriverBase, Accepting, TurnFits, CallPoints
  <2>5. Managing({})'
    BY <2>1, <2>2, <2>4 DEF Collected, Going, DriverBase, DriverTypeOK, HostTypes, SessionInv,
       TypeOK, Accepting, CommandsFit, Managing
  <2> QED
    BY <2>1, <2>2, <2>3, <2>4, <2>5 DEF Going, hostVars, Accepting, TurnFits, WalkFits,
       CommandsFit, RetryFits, CompactFits, RequestPoints, AnswerPoints, CallPoints, EndPoints,
       RestPoints
<1>4. ASSUME NEW c \in Calls, BatchOverdue(c)
      PROVE  Accepting'
  BY <1>4, SameSession DEF BatchOverdue, Going, Goto, HandOff, Visiting, Admitted, WaveOver,
     workVars, hostVars, Accepting, TurnFits, WalkFits, CommandsFit, RetryFits, CompactFits,
     RequestPoints, AnswerPoints, CallPoints, EndPoints, RestPoints, WalkedTo, Managing
<1>5. ASSUME NEW c \in Calls, BatchPasses(c)
      PROVE  Accepting'
  <2>1. /\ Visited(c) /\ pc = "batch" /\ UNCHANGED <<vars, pc, hostVars, command, closing, refused>>
        /\ batch'.slot = c + 1 /\ batch'.first = batch.first
        /\ pendingCalls[c].state = "proposed" => pendingCalls[c].tool = "exec_command"
    BY <1>5 DEF BatchPasses, Visiting, Admitted, Noted, Visited, Following, Running, Going,
       DriverBase, DriverTypeOK, HostTypes, Batches
  <2>2. WalkedTo(batch.slot)'
    BY <2>1, PassingWalksOn DEF Going, DriverBase, Accepting, WalkFits
  <2> QED
    BY <2>1, <2>2, SameSession DEF Going, hostVars, Accepting, TurnFits, WalkFits, CommandsFit,
       RetryFits, CompactFits, RequestPoints, AnswerPoints, CallPoints, EndPoints, RestPoints,
       Managing
<1>6. ASSUME NEW c \in Calls, BatchYields(c)
      PROVE  Accepting'
  BY <1>6, SameSession DEF BatchYields, Going, Goto, HandOff, Visiting, Admitted, WaveOver,
     workVars, hostVars, Accepting, TurnFits, WalkFits, CommandsFit, RetryFits, CompactFits,
     RequestPoints, AnswerPoints, CallPoints, EndPoints, RestPoints, WalkedTo, Managing
<1>7. ASSUME NEW c \in Calls, BatchRejects(c)
      PROVE  Accepting'
  <2>1. ResultFits(c, "refused") /\ ~Running(c) /\ Visited(c) /\ pc = "batch"
    BY <1>7, CallFits DEF BatchRejects, Visiting, Admitted, Visited, Following, Unfinished,
       Running, Going, DriverBase
  <2>2. /\ ToolFinished(c, "refused") /\ UNCHANGED <<command, hostVars, closing, refused>>
        /\ pc' = "batch" /\ batch'.slot = c + 1 /\ batch'.first = batch.first
    BY <1>7, <2>1, FaultsShow DEF BatchRejects, FinishVisited, Commit, CommitOr, Unwritten,
       Goto, Noted, Going, DriverBase, DriverTypeOK, HostTypes, Batches, Clean
  <2>3. WalkedTo(batch.slot)'
    BY <2>1, <2>2, ResultWalksOn DEF Going, DriverBase, Accepting, TurnFits, WalkFits,
       CallPoints
  <2>4. /\ activeTurn' /\ ~responseOpen' /\ terminal' = "none" /\ outcome' = "calls"
        /\ UNCHANGED activeCompact /\ processes' = processes
    BY <2>1, <2>2, ResultLeaves DEF Going, DriverBase, Accepting, TurnFits, CallPoints
  <2> QED
    BY <2>1, <2>2, <2>3, <2>4 DEF Going, hostVars, Accepting, TurnFits, WalkFits, CommandsFit,
       RetryFits, CompactFits, RequestPoints, AnswerPoints, CallPoints, EndPoints, RestPoints,
       Managing
<1>8. ASSUME NEW c \in Calls, BatchSkips(c)
      PROVE  Accepting'
  <2>1. /\ Visited(c) /\ pc = "batch" /\ UNCHANGED <<vars, pc, hostVars, command, closing, refused>>
        /\ batch'.slot = c + 1 /\ batch'.first = batch.first
        /\ pendingCalls[c].state = "proposed" => pendingCalls[c].tool = "exec_command"
    BY <1>8 DEF BatchSkips, Visiting, Admitted, Noted, Visited, Following, Running, Preparation,
       Going, DriverBase, DriverTypeOK, HostTypes, Batches
  <2>2. WalkedTo(batch.slot)'
    BY <2>1, PassingWalksOn DEF Going, DriverBase, Accepting, WalkFits
  <2> QED
    BY <2>1, <2>2, SameSession DEF Going, hostVars, Accepting, TurnFits, WalkFits, CommandsFit,
       RetryFits, CompactFits, RequestPoints, AnswerPoints, CallPoints, EndPoints, RestPoints,
       Managing
<1>9. ASSUME NEW c \in Calls, BatchStarts(c)
      PROVE  Accepting'
  <2>1. /\ Visited(c) /\ pc = "batch" /\ Preparation(c) = "start"
        /\ pendingCalls[c].state = "proposed" /\ activeTurn /\ responseComplete /\ outcome = "calls"
    BY <1>9 DEF BatchStarts, Visiting, Admitted, Visited, Following, Unfinished, Running,
       SessionInv, CallsCanSettle, Going, DriverBase, Accepting, TurnFits, CallPoints
  <2>2. CallMayStart(c)
    BY <2>1, PreparedFits DEF CallMayStart, StartableCall
  <2>3. /\ ToolStarted(c) /\ pc' = "tool" /\ batch'.slot = c /\ batch'.first = batch.first
        /\ UNCHANGED <<hostVars, command, closing, refused>>
    BY <1>9, <2>2, FaultsShow DEF BatchStarts, Commit, CommitOr, Unwritten, Goto, Noted, Going,
       DriverBase, DriverTypeOK, HostTypes, Batches, Clean
  <2>4. /\ pendingCalls' = [pendingCalls EXCEPT ![c] = InState(@, "started")]
        /\ processes' = processes \cup OwnedProcess(pendingCalls[c])
        /\ UNCHANGED <<activeTurn, responseOpen, terminal, outcome, activeCompact>>
    BY <2>3 DEF ToolStarted, StartCall, AsideVars, turnVars, attemptVars, compactVars
  <2>5. WalkedTo(batch.slot + 1)'
    <3>1. /\ c \in Nat /\ batch.slot \in Nat /\ c >= batch.slot /\ WalkedTo(batch.slot)
          /\ \A d \in Calls : d \in Nat /\ (d >= batch.slot /\ Unfinished(d) => c <= d)
      BY <2>1, DriverAssumption DEF Visited, Following, Going, DriverBase, DriverTypeOK,
         HostTypes, Batches, Accepting, WalkFits
    <3>2. \A d \in Calls : d # c => pendingCalls'[d] = pendingCalls[d]
      BY <2>4 DEF Going, DriverBase, SessionInv, TypeOK, ResponseTypes
    <3>3. pendingCalls'[c].state = "started"
      BY <2>4 DEF InState, Going, DriverBase, SessionInv, TypeOK, ResponseTypes
    <3> QED
      BY <2>3, <3>1, <3>2, <3>3 DEF WalkedTo, Unstarted, Unfinished
  <2>6. Managing({pendingCalls[batch.slot].handle})'
    <3>1. pendingCalls'[c].handle = pendingCalls[c].handle
      BY <2>4 DEF InState, Going, DriverBase, SessionInv, TypeOK, ResponseTypes
    <3> QED
      BY <2>1, <2>3, <2>4, <3>1 DEF OwnedProcess, Managing, Going, Accepting, CommandsFit
  <2> QED
    BY <2>1, <2>3, <2>4, <2>5, <2>6 DEF Going, hostVars, Accepting, TurnFits, WalkFits,
       CommandsFit, RetryFits, CompactFits, RequestPoints, AnswerPoints, CallPoints, EndPoints,
       RestPoints
<1>10. ASSUME NEW c \in Calls, ToolRuns(c)
      PROVE  Accepting'
  <2>1. pendingCalls[c].handle \in Calls
    BY <1>10 DEF ToolRuns, IsProcess, Going, DriverBase, SessionInv, CallShape, OutcomeInv,
       StartedWriterHasCommand, OwnedInv, StartedCallWaits
  <2>2. command'[pendingCalls[c].handle] # "none"
        /\ \A h \in Calls \ {pendingCalls[c].handle} : command'[h] = command[h]
    BY <1>10, <2>1 DEF ToolRuns, Going, DriverBase, DriverTypeOK, HostTypes
  <2>3. Managing({})'
    BY <1>10, <2>2, SameSession DEF ToolRuns, Going, DriverBase, SessionInv, TypeOK, Accepting,
       CommandsFit, Managing
  <2>4. WalkedTo(batch.slot)'
    <3>1. WalkedTo(c + 1) /\ batch'.slot = c + 1 /\ batch'.first = batch.first
      BY <1>10 DEF ToolRuns, Going, DriverBase, DriverTypeOK, HostTypes, Batches, Accepting,
           WalkFits
    <3> QED BY <1>10, <3>1, SameSession DEF ToolRuns, WalkedTo
  <2> QED
    BY <1>10, <2>3, <2>4, SameSession DEF ToolRuns, Goto, Going, hostVars, Accepting, TurnFits,
       WalkFits, CommandsFit, RetryFits, CompactFits, RequestPoints, AnswerPoints, CallPoints,
       EndPoints, RestPoints
<1>11. ASSUME NEW c \in Calls, ToolReturns(c)
      PROVE  Accepting'
  <2>1. ResultFits(c, "ended") /\ Running(c) /\ c = batch.slot /\ pc = "tool"
    BY <1>11, CallFits DEF ToolReturns, Unfinished, Running, Going, DriverBase, OwnedInv,
       StartedCallWaits
  <2>2. /\ ToolFinished(c, "ended") /\ UNCHANGED <<retry, closing, refused>>
        /\ \/ CloseAll /\ pc' = "handoff"
           \/ UNCHANGED command /\ pc' = "batch" /\ batch'.slot = c + 1
              /\ batch'.first = batch.first
    BY <1>11, <2>1, FaultsShow DEF ToolReturns, Commit, CommitOr, Unwritten, Goto, Going,
       DriverBase, DriverTypeOK, HostTypes, Batches, Clean
  <2>3. /\ activeTurn' /\ ~responseOpen' /\ terminal' = "none" /\ outcome' = "calls"
        /\ UNCHANGED activeCompact /\ processes' = processes \ {pendingCalls[c].handle}
    BY <2>1, <2>2, ResultLeaves DEF Going, DriverBase, Accepting, TurnFits, CallPoints
  <2>4. pc' = "batch" => WalkedTo(batch.slot)'
    BY <2>1, <2>2, ResultWalksPast DEF Going, DriverBase, Accepting, TurnFits, WalkFits,
       CallPoints
  <2>5. Managing({})'
    BY <2>1, <2>2, <2>3 DEF CloseAll, Going, DriverBase, DriverTypeOK, HostTypes, SessionInv,
       TypeOK, Accepting, CommandsFit, Managing
  <2> QED
    BY <2>1, <2>2, <2>3, <2>4, <2>5 DEF Going, Accepting, TurnFits, WalkFits, CommandsFit,
       RetryFits, CompactFits, RequestPoints, AnswerPoints, CallPoints, EndPoints, RestPoints
<1>12. ASSUME NEW c \in Calls, HandBack(c)
      PROVE  Accepting'
  <2>1. Unfinished(c) /\ pc = "handoff"
    BY <1>12 DEF HandBack, Visited, Following
  <2>2. Running(c) /\ pendingCalls[c].handle # NoId => IsProcess(c)
    BY <2>1 DEF Going, DriverBase, SessionInv, ReadOnlyTurnIsInert, CallShape, IsProcess,
       ReadOnlyTool, Accepting, TurnFits, CallPoints
  <2>3. ResultFits(c, HandedStatus(c))
    <3>1. IsProcess(c) /\ Running(c) => pendingCalls[c].handle \in Calls
      BY DEF IsProcess, Going, DriverBase, SessionInv, CallShape, OutcomeInv,
           StartedWriterHasCommand
    <3> QED
      BY <1>12, <2>1, <3>1, CallFits, ConstantsAssumption DEF HandBack, HandedStatus, Going,
           DriverBase
  <2>4. /\ ToolFinished(c, HandedStatus(c)) /\ UNCHANGED <<pc, hostVars, batch, closing, refused>>
        /\ IF Running(c) THEN Collected(pendingCalls[c].handle) ELSE UNCHANGED <<command, late>>
    BY <1>12, <2>3, FaultsShow DEF HandBack, Commit, CommitOr, Unwritten, Going, Clean
  <2>5. /\ activeTurn' /\ ~responseOpen' /\ terminal' = "none" /\ outcome' = "calls"
        /\ UNCHANGED activeCompact
        /\ processes' = IF Running(c) /\ HandedStatus(c) = "ended"
                        THEN processes \ {pendingCalls[c].handle} ELSE processes
    BY <2>1, <2>4, ResultLeaves DEF Going, DriverBase, Accepting, TurnFits, CallPoints
  <2>6. Managing({})'
    BY <2>1, <2>2, <2>4, <2>5 DEF Collected, HandedStatus, Going, DriverBase, DriverTypeOK,
       HostTypes, SessionInv, TypeOK, Accepting, CommandsFit, Managing
  <2> QED
    BY <2>1, <2>4, <2>5, <2>6 DEF Going, hostVars, Accepting, TurnFits, WalkFits, CommandsFit,
       RetryFits, CompactFits, RequestPoints, AnswerPoints, CallPoints, EndPoints, RestPoints
<1>13. ASSUME BatchDone
      PROVE  Accepting'
  BY <1>13, SameSession DEF BatchDone, Going, Goto, WaveOver, DriverBase, OutcomeInv,
     OutcomeFitsCalls, Workable, workVars, hostVars, Accepting, TurnFits, WalkFits, CommandsFit,
     RetryFits, CompactFits, RequestPoints, AnswerPoints, CallPoints, EndPoints, RestPoints,
     WalkedTo, Managing
<1>14. ASSUME WaveHandsOff
      PROVE  Accepting'
  <2>1. pc = "batch" /\ pc' = "handoff" /\ UNCHANGED <<vars, hostVars, command, closing, refused>>
    BY <1>14 DEF WaveHandsOff, WaveOver, HandOff, Goto
  <2> QED
    BY <2>1, SameSession DEF Going, hostVars, Accepting, TurnFits, WalkFits, CommandsFit,
       RetryFits, CompactFits, RequestPoints, AnswerPoints, CallPoints, EndPoints, RestPoints,
       WalkedTo, Managing
<1>15. ASSUME NextWave
      PROVE  Accepting'
  <2>1. /\ pc = "batch" /\ UNCHANGED <<vars, pc, hostVars, command, closing, refused>>
        /\ batch'.slot = 1 /\ batch'.first = FALSE
    BY <1>15 DEF NextWave, WaveOver, Going, DriverBase, DriverTypeOK, HostTypes, Batches
  <2>2. WalkedTo(batch.slot)'
    BY <1>15, <2>1, SameSession DEF NextWave, WaveOver, Following, Unfinished, WalkedTo, Going,
         Accepting, WalkFits
  <2> QED
    BY <2>1, <2>2, SameSession DEF Going, hostVars, Accepting, TurnFits, WalkFits, CommandsFit,
       RetryFits, CompactFits, RequestPoints, AnswerPoints, CallPoints, EndPoints, RestPoints,
       Managing
<1>16. ASSUME HandoffDone
      PROVE  Accepting'
  BY <1>16, SameSession DEF HandoffDone, Going, Goto, DriverBase, OutcomeInv, OutcomeFitsCalls,
     Workable, workVars, hostVars, Accepting, TurnFits, WalkFits, CommandsFit, RetryFits,
     CompactFits, RequestPoints, AnswerPoints, CallPoints, EndPoints, RestPoints, WalkedTo,
     Managing
<1>17. ASSUME HandoffInterrupts
      PROVE  Accepting'
  <2>1. RecoverableTurn /\ activeCompact = NoCompact /\ ~retry.pending
    BY <1>17 DEF HandoffInterrupts, RecoverableTurn, Going, Accepting, TurnFits, RetryFits,
       CompactFits, CallPoints
  <2> QED BY <1>17, <2>1, ClosingAccepts DEF HandoffInterrupts, InterruptTurn
<1> QED
  BY ONLY Going, CallsNext, <1>1, <1>2, <1>3, <1>4, <1>5, <1>6, <1>7, <1>8, <1>9, <1>10,
     <1>11, <1>12, <1>13, <1>14, <1>15, <1>16, <1>17 DEF CallsNext

\* A command that is reported closed leaves the turn as it is.
LEMMA ClosedLeaves ==
    \A h : ProcessClosed(h) => /\ RecoverableTurn' <=> RecoverableTurn
                               /\ UNCHANGED activeCompact
BY DEF ProcessClosed, RecoverableTurn, AllFinished, Unfinished, responseVars, AsideVars,
   turnVars, compactVars

\* Closing a turn commits nothing that is refused, but the closing of a command.
LEMMA EndAccepts ==
    ASSUME Going, EndNext
    PROVE  Accepting'
<1>1. ASSUME NEW h \in Calls, CloseLost(h)
      PROVE  Accepting'
  <2>1. CloseFits(h)
    BY <1>1 DEF CloseLost, CloseFits, RecoverableTurn, Going, Accepting, TurnFits, EndPoints
  <2>2. ProcessClosed(h) /\ pc' = "closing" /\ UNCHANGED <<hostVars, workVars, refused>>
    BY <1>1, <2>1, FaultsShow DEF CloseLost, CommitClosing, CommitOr, Unwritten, Goto, Going,
       Clean
  <2>3. (RecoverableTurn' <=> RecoverableTurn) /\ UNCHANGED activeCompact
    BY <2>2, ClosedLeaves
  <2> QED
    BY <1>1, <2>2, <2>3 DEF CloseLost, Going, hostVars, workVars, Accepting, TurnFits, WalkFits,
       CommandsFit, RetryFits, CompactFits, RequestPoints, AnswerPoints, CallPoints, EndPoints,
       RestPoints, WalkedTo, Managing
<1>2. ASSUME NEW h \in Calls, CloseNext(h)
      PROVE  Accepting'
  BY <1>2, SameSession DEF CloseNext, Going, Quietly, Goto, DriverBase, DriverTypeOK, HostTypes,
     Closings, workVars, hostVars, Accepting, TurnFits, WalkFits, CommandsFit, RetryFits,
     CompactFits, RequestPoints, AnswerPoints, CallPoints, EndPoints, RestPoints, WalkedTo,
     Managing
<1>3. ASSUME CloseCollects
      PROVE  Accepting'
  <2>1. ProcessClosed(closing.target) /\ pc' = "closing" /\ UNCHANGED <<hostVars, closing, refused>>
    BY <1>3, FaultsShow DEF CloseCollects, CommitClosing, CommitOr, Unwritten, Goto, Going,
       Clean
  <2>2. (RecoverableTurn' <=> RecoverableTurn) /\ UNCHANGED activeCompact
    BY <2>1, ClosedLeaves
  <2> QED
    BY <1>3, <2>1, <2>2 DEF CloseCollects, Going, hostVars, Accepting, TurnFits, WalkFits,
       CommandsFit, RetryFits, CompactFits, RequestPoints, AnswerPoints, CallPoints, EndPoints,
       RestPoints, WalkedTo, Managing
<1>4. ASSUME CloseCancels
      PROVE  Accepting'
  BY <1>4, SameSession DEF CloseCancels, Going, Quietly, Goto, DriverBase, DriverTypeOK,
     HostTypes, Closings, workVars, hostVars, Accepting, TurnFits, WalkFits, CommandsFit,
     RetryFits, CompactFits, RequestPoints, AnswerPoints, CallPoints, EndPoints, RestPoints,
     WalkedTo, Managing
<1>5. ASSUME CloseGivesUp
      PROVE  Accepting'
  BY <1>5, FaultsShow DEF CloseGivesUp, CommitClosing, CommitOr, Unwritten, ClosedWith, Going,
     Clean
<1>6. ASSUME CloseEnd
      PROVE  Accepting'
  <2>1. EndFits
    BY <1>6 DEF CloseEnd, EndFits, AbandonableTurn, RecoverableTurn, Going, Accepting, TurnFits,
       EndPoints
  <2>2. EndEvent /\ pc' = closing.back /\ UNCHANGED <<retry, workVars, refused>>
    BY <1>6, <2>1, FaultsShow DEF CloseEnd, CommitClosing, CommitOr, Unwritten, Going, Clean
  <2>3. (activeTurn' => Workable') /\ activeCompact' = NoCompact /\ UNCHANGED processes
    BY <2>2, TurnEventsLeave DEF EndEvent
  <2>4. closing.back \in {"returned", "finish", "leave", "pause", "chain"}
    BY DEF Going, DriverBase, DriverTypeOK, HostTypes, Closings
  <2> QED
    BY <1>6, <2>2, <2>3, <2>4 DEF CloseEnd, Going, workVars, NoCompact, Accepting, TurnFits,
       WalkFits, CommandsFit, RetryFits, CompactFits, RequestPoints, AnswerPoints, CallPoints,
       EndPoints, RestPoints, WalkedTo, Managing
<1> QED
  BY ONLY Going, EndNext, <1>1, <1>2, <1>3, <1>4, <1>5, <1>6 DEF EndNext

\* A goal that is paused, resumed, started or finished leaves the turn as it is.
LEMMA GoalsLeave ==
    \A g : GoalPaused(g) \/ GoalResumed(g) \/ GoalStarted(g) \/ GoalCompleted(g, "user") =>
        /\ Workable' <=> Workable
        /\ RecoverableTurn' <=> RecoverableTurn
        /\ SteeringAdmitted' <=> SteeringAdmitted
        /\ SteeringPending' <=> SteeringPending
        /\ \A c : Unstarted(c)' <=> Unstarted(c)
        /\ UNCHANGED <<activeTurn, responseOpen, responseComplete, terminal, outcome, cycle,
                       processes, pendingCalls, pendingInput, activeCompact>>
<1> SUFFICES ASSUME NEW g, GoalPaused(g) \/ GoalResumed(g) \/ GoalStarted(g)
                           \/ GoalCompleted(g, "user")
             PROVE  UNCHANGED BesideGoals
  BY DEF BesideGoals, turnVars, responseVars, attemptVars, inputVars, compactVars, Workable,
     RecoverableTurn, SteeringPending, SteeringAdmitted, Unstarted, AllFinished, Unfinished
<1> QED
  BY DEF GoalPaused, GoalResumed, GoalStarted, GoalCompleted

\* What calls run_turn commits nothing that is refused.
LEMMA LoopAccepts ==
    ASSUME Going, LoopNext
    PROVE  Accepting'
<1>1. ASSUME ReturnedPauses
      PROVE  Accepting'
  <2>1. /\ (\E g \in Goals : GoalPaused(g)) \/ UNCHANGED vars
        /\ pc' = "returned" /\ retry'.pending = retry.pending
        /\ UNCHANGED <<workVars, refused>>
    BY <1>1, FaultsShow DEF ReturnedPauses, CommitOr, Unwritten, PauseGoal, Quietly, Goto,
       hostVars, Going, Clean, DriverBase, DriverTypeOK, HostTypes, Retries
  <2>2. /\ Workable' <=> Workable
        /\ UNCHANGED <<activeTurn, processes, activeCompact>>
    BY <2>1, GoalsLeave, SameSession
  <2> QED
    BY <1>1, <2>1, <2>2 DEF ReturnedPauses, Going, workVars, Accepting, TurnFits, WalkFits,
       CommandsFit, RetryFits, CompactFits, RequestPoints, AnswerPoints, CallPoints, EndPoints,
       RestPoints, WalkedTo, Managing
<1>2. ASSUME ReturnedAwaitsClarification
      PROVE  Accepting'
  BY <1>2, BackoffTypes, SameSession DEF ReturnedAwaitsClarification, Going, Quietly, Goto,
     EnterBackoff, GoalView, SessionInv, IdleIsSettled, DriverBase, DriverTypeOK, HostTypes,
     Retries, workVars, hostVars, Accepting, TurnFits, WalkFits, CommandsFit, RetryFits,
     CompactFits, RequestPoints, AnswerPoints, CallPoints, EndPoints, RestPoints, WalkedTo,
     Managing
<1>3. ASSUME ReturnedFinishes
      PROVE  Accepting'
  BY <1>3, SameSession DEF ReturnedFinishes, Going, Quietly, Goto, workVars, hostVars,
     Accepting, TurnFits, WalkFits, CommandsFit, RetryFits, CompactFits, RequestPoints,
     AnswerPoints, CallPoints, EndPoints, RestPoints, WalkedTo, Managing
<1>4. ASSUME ReturnedRetries
      PROVE  Accepting'
  BY <1>4, SameSession DEF ReturnedRetries, Going, Quietly, Goto, EnterBackoff, GoalView,
     ForGoal, Stops, DriverBase, DriverTypeOK, HostTypes, Retries, workVars, hostVars,
     Accepting, TurnFits, WalkFits, CommandsFit, RetryFits, CompactFits, RequestPoints,
     AnswerPoints, CallPoints, EndPoints, RestPoints, WalkedTo, Managing
<1>5. ASSUME BackoffControlled
      PROVE  Accepting'
  BY <1>5, SameSession DEF BackoffControlled, Waits, Going, Quietly, Goto, ForGoal, workVars,
     hostVars, Accepting, TurnFits, WalkFits, CommandsFit, RetryFits, CompactFits,
     RequestPoints, AnswerPoints, CallPoints, EndPoints, RestPoints, WalkedTo, Managing
<1>6. ASSUME BackoffHolds
      PROVE  Accepting'
  BY <1>6, SameSession DEF BackoffHolds, Waits, Going, Quietly, Goto, ForGoal, workVars,
     hostVars, Accepting, TurnFits, WalkFits, CommandsFit, RetryFits, CompactFits,
     RequestPoints, AnswerPoints, CallPoints, EndPoints, RestPoints, WalkedTo, Managing
<1>7. ASSUME BackoffInterrupted
      PROVE  Accepting'
  <2>1. activeTurn => RecoverableTurn /\ activeCompact = NoCompact
    BY <1>7, WorkableRecovers DEF BackoffInterrupted, Going, DriverBase, Accepting, TurnFits,
       CompactFits, RestPoints, EndPoints
  <2>2. CASE UNCHANGED vars /\ UNCHANGED <<hostVars, workVars, refused>> /\ pc' \in {"finish"}
    BY <1>7, <2>2, SameSession DEF BackoffInterrupted, Going, workVars, hostVars, Accepting,
       TurnFits, WalkFits, CommandsFit, RetryFits, CompactFits, RequestPoints, AnswerPoints,
       CallPoints, EndPoints, RestPoints, WalkedTo, Managing
  <2> QED BY <1>7, <2>1, <2>2, ClosingAccepts DEF BackoffInterrupted, InterruptTurn, Quietly,
     Goto
<1>8. ASSUME BackoffLosesGoal
      PROVE  Accepting'
  <2>1. activeTurn => RecoverableTurn /\ activeCompact = NoCompact
    BY <1>8, WorkableRecovers DEF BackoffLosesGoal, Going, DriverBase, Accepting, TurnFits,
       CompactFits, RestPoints, EndPoints
  <2>2. CASE UNCHANGED vars /\ UNCHANGED <<hostVars, workVars, refused>> /\ pc' \in {"finish"}
    BY <1>8, <2>2, SameSession DEF BackoffLosesGoal, Going, workVars, hostVars, Accepting,
       TurnFits, WalkFits, CommandsFit, RetryFits, CompactFits, RequestPoints, AnswerPoints,
       CallPoints, EndPoints, RestPoints, WalkedTo, Managing
  <2> QED BY <1>8, <2>1, <2>2, ClosingAccepts DEF BackoffLosesGoal, InterruptTurn, Quietly, Goto
<1>9. ASSUME BackoffClarified
      PROVE  Accepting'
  BY <1>9, SameSession DEF BackoffClarified, Going, Quietly, Goto, DriverBase, DriverTypeOK,
     HostTypes, Retries, workVars, hostVars, Accepting, TurnFits, WalkFits, CommandsFit,
     RetryFits, CompactFits, RequestPoints, AnswerPoints, CallPoints, EndPoints, RestPoints,
     WalkedTo, Managing
<1>10. ASSUME BackoffEnds
      PROVE  Accepting'
  BY <1>10, SameSession DEF BackoffEnds, Going, Quietly, Goto, ForGoal, OnHold, GoalGone,
     GoalView, workVars, hostVars, Accepting, TurnFits, WalkFits, CommandsFit, RetryFits,
     CompactFits, RequestPoints, AnswerPoints, CallPoints, EndPoints, RestPoints, WalkedTo,
     Managing
<1>11. ASSUME NEW c \in Calls, ReconcileCall(c)
      PROVE  Accepting'
  BY <1>11, WorkableHasNoCall DEF ReconcileCall, Terminalize, Unfinished, Pending, HasPending,
     SessionInv, CallsCanSettle, Going, DriverBase, Accepting, TurnFits, RestPoints
<1>12. ASSUME ReconcileResponse
      PROVE  Accepting'
  BY <1>12 DEF ReconcileResponse, Workable, SessionInv, IdleIsSettled, Going, DriverBase,
     Accepting, TurnFits, RestPoints
<1>13. ASSUME ReconcileEnds
      PROVE  Accepting'
  <2>1. activeTurn => RecoverableTurn
    BY <1>13, WorkableRecovers DEF ReconcileEnds, Going, DriverBase, Accepting, TurnFits,
       RestPoints
  <2>2. /\ (TurnRecovery /\ activeTurn) \/ UNCHANGED vars
        /\ pc' \in {"finish", "begin"} /\ UNCHANGED <<hostVars, workVars, refused>>
    BY <1>13, <2>1, FaultsShow DEF ReconcileEnds, CommitOr, Unwritten, Goto, Going, Clean
  <2>3. CASE UNCHANGED vars
    BY <1>13, <2>2, <2>3, SameSession DEF ReconcileEnds, Going, hostVars, workVars, Accepting,
       TurnFits, WalkFits, CommandsFit, RetryFits, CompactFits, RequestPoints, AnswerPoints,
       CallPoints, EndPoints, RestPoints, WalkedTo, Managing
  <2>4. CASE TurnRecovery
    <3>1. activeTurn' /\ Workable' /\ activeCompact' = NoCompact /\ UNCHANGED processes
      BY <2>4, TurnEventsLeave
    <3> QED
      BY <1>13, <2>2, <3>1 DEF ReconcileEnds, Going, hostVars, workVars, NoCompact, Accepting,
         TurnFits, WalkFits, CommandsFit, RetryFits, CompactFits, RequestPoints, AnswerPoints,
         CallPoints, EndPoints, RestPoints, WalkedTo, Managing
  <2> QED BY <2>2, <2>3, <2>4
<1>14. ASSUME ReconcileAgain
      PROVE  Accepting'
  BY <1>14 DEF ReconcileAgain, Going, Accepting, TurnFits
<1>15. ASSUME FinishPauses
      PROVE  Accepting'
  <2>1. /\ (\E g \in Goals : GoalPaused(g)) \/ UNCHANGED vars
        /\ pc' = "parting" /\ UNCHANGED retry
        /\ UNCHANGED <<workVars, refused>>
    BY <1>15, FaultsShow DEF FinishPauses, CommitOr, Unwritten, PauseGoal, Quietly, Goto,
       hostVars, Going, Clean
  <2>2. /\ Workable' <=> Workable
        /\ UNCHANGED <<activeTurn, processes, activeCompact>>
    BY <2>1, GoalsLeave, SameSession
  <2> QED
    BY <1>15, <2>1, <2>2 DEF FinishPauses, Going, workVars, Accepting, TurnFits, WalkFits,
       CommandsFit, RetryFits, CompactFits, RequestPoints, AnswerPoints, CallPoints, EndPoints,
       RestPoints, WalkedTo, Managing
<1>16. ASSUME FinishEnds
      PROVE  Accepting'
  <2>1. activeTurn => RecoverableTurn /\ activeCompact = NoCompact
    BY <1>16, WorkableRecovers DEF FinishEnds, Going, DriverBase, Accepting, TurnFits,
       CompactFits, RestPoints, EndPoints
  <2>2. CASE UNCHANGED vars /\ UNCHANGED <<hostVars, workVars, refused>> /\ pc' \in {"leave"}
    BY <1>16, <2>2, SameSession DEF FinishEnds, Going, workVars, hostVars, Accepting, TurnFits,
       WalkFits, CommandsFit, RetryFits, CompactFits, RequestPoints, AnswerPoints, CallPoints,
       EndPoints, RestPoints, WalkedTo, Managing
  <2> QED BY <1>16, <2>1, <2>2, ClosingAccepts DEF FinishEnds, InterruptTurn, Quietly, Goto
<1>17. ASSUME LeaveTracked
      PROVE  Accepting'
  BY <1>17, SameSession DEF LeaveTracked, Going, Quietly, Goto, workVars, hostVars, Accepting,
     TurnFits, WalkFits, CommandsFit, RetryFits, CompactFits, RequestPoints, AnswerPoints,
     CallPoints, EndPoints, RestPoints, WalkedTo, Managing
<1>18. ASSUME PauseAfter
      PROVE  Accepting'
  <2>1. /\ (\E g \in Goals : GoalPaused(g)) \/ UNCHANGED vars
        /\ pc' \in {"chain", "idle"} /\ UNCHANGED retry
        /\ UNCHANGED <<workVars, refused>>
    BY <1>18, FaultsShow DEF PauseAfter, CommitOr, Unwritten, PauseGoal, Quietly, Goto,
       hostVars, Going, Clean
  <2>2. /\ Workable' <=> Workable
        /\ UNCHANGED <<activeTurn, processes, activeCompact>>
    BY <2>1, GoalsLeave, SameSession
  <2> QED
    BY <1>18, <2>1, <2>2 DEF PauseAfter, Going, workVars, Accepting, TurnFits, WalkFits,
       CommandsFit, RetryFits, CompactFits, RequestPoints, AnswerPoints, CallPoints, EndPoints,
       RestPoints, WalkedTo, Managing
<1>19. ASSUME ChainControlled
      PROVE  Accepting'
  BY <1>19, SameSession DEF ChainControlled, Going, Quietly, Goto, Chaining, workVars, hostVars,
     Accepting, TurnFits, WalkFits, CommandsFit, RetryFits, CompactFits, RequestPoints,
     AnswerPoints, CallPoints, EndPoints, RestPoints, WalkedTo, Managing
<1>20. ASSUME ChainPrompt
      PROVE  Accepting'
  BY <1>20, SameSession DEF ChainPrompt, Going, Quietly, Goto, TrackQuietly, Track, NoRetry,
     Chaining, workVars, hostVars, Accepting, TurnFits, WalkFits, CommandsFit, RetryFits,
     CompactFits, RequestPoints, AnswerPoints, CallPoints, EndPoints, RestPoints, WalkedTo,
     Managing
<1>21. ASSUME ChainTurn
      PROVE  Accepting'
  BY <1>21, SameSession DEF ChainTurn, Going, Quietly, Goto, TrackQuietly, Track, NoRetry,
     Chaining, TurnReady, workVars, hostVars, Accepting, TurnFits, WalkFits, CommandsFit,
     RetryFits, CompactFits, RequestPoints, AnswerPoints, CallPoints, EndPoints, RestPoints,
     WalkedTo, Managing
<1>22. ASSUME ChainGoal
      PROVE  Accepting'
  BY <1>22, SameSession DEF ChainGoal, Going, Quietly, Goto, TrackQuietly, Track, NoRetry,
     Chaining, GoalReady, workVars, hostVars, Accepting, TurnFits, WalkFits, CommandsFit,
     RetryFits, CompactFits, RequestPoints, AnswerPoints, CallPoints, EndPoints, RestPoints,
     WalkedTo, Managing
<1>23. ASSUME ChainRests
      PROVE  Accepting'
  BY <1>23, SameSession DEF ChainRests, Going, Quietly, Goto, Chaining, workVars, hostVars,
     Accepting, TurnFits, WalkFits, CommandsFit, RetryFits, CompactFits, RequestPoints,
     AnswerPoints, CallPoints, EndPoints, RestPoints, WalkedTo, Managing
<1>24. ASSUME NEW c \in Calls, CancelKeptCall(c)
      PROVE  Accepting'
  BY <1>24 DEF CancelKeptCall, Terminalize, RecoverableTurn, AllFinished, Going, Accepting,
     TurnFits, EndPoints
<1>25. ASSUME CancelKeptEnds
      PROVE  Accepting'
  <2>1. RecoverableTurn /\ activeCompact = NoCompact
    BY <1>25 DEF CancelKeptEnds, Going, DriverBase, Accepting, TurnFits, CompactFits,
       RestPoints, EndPoints, RecoverableTurn
  <2> QED BY <1>25, <2>1, ClosingAccepts DEF CancelKeptEnds, InterruptTurn, RecoverableTurn
<1>26. ASSUME RecoverCompaction
      PROVE  Accepting'
  <2>1. CompactionInterrupted /\ pc' = "recover" /\ UNCHANGED refused
    BY <1>26, FaultsShow DEF RecoverCompaction, CommitOr, Unwritten, Goto, Going, Clean
  <2>2. activeCompact' = NoCompact
    BY <2>1 DEF CompactionInterrupted, ClearCompaction
  <2> QED
    BY <2>1, <2>2 DEF NoCompact, Going, Accepting, TurnFits, WalkFits, CommandsFit, RetryFits,
       CompactFits, RequestPoints, AnswerPoints, CallPoints, EndPoints, RestPoints, WalkedTo,
       Managing
<1>27. ASSUME RecoverResponse
      PROVE  Accepting'
  <2>1. InterruptFits("interrupted")
    BY <1>27 DEF RecoverResponse, InterruptFits
  <2>2. ResponseInterrupted("interrupted") /\ pc' = "recover" /\ UNCHANGED refused
    BY <1>27, <2>1, FaultsShow DEF RecoverResponse, CommitOr, Unwritten, Goto, Going, Clean
  <2>3. UNCHANGED activeCompact
    BY <2>2, ResponseEventsLeave DEF Going, DriverBase
  <2> QED
    BY <1>27, <2>2, <2>3 DEF RecoverResponse, Going, Accepting, TurnFits, WalkFits, CommandsFit,
       RetryFits, CompactFits, RequestPoints, AnswerPoints, CallPoints, EndPoints, RestPoints,
       WalkedTo, Managing
<1>28. ASSUME RecoverNothing
      PROVE  Accepting'
  BY <1>28, SameSession DEF RecoverNothing, Going, Quietly, Goto, Recovering, DriverBase,
     SessionInv, IdleIsSettled, workVars, hostVars, Accepting, TurnFits, WalkFits, CommandsFit,
     RetryFits, CompactFits, RequestPoints, AnswerPoints, CallPoints, EndPoints, RestPoints,
     WalkedTo, Managing
<1>29. ASSUME RecoverAnswered
      PROVE  Accepting'
  <2>1. AnsweredTurn /\ processes = {}
    BY <1>29, AnsweredRecovers DEF RecoverAnswered, Recovering, Answered, AnsweredTurn,
       CompletableTurn, Going, DriverBase
  <2>2. TurnCompleted /\ pc' \in {"pause", "chain"} /\ UNCHANGED <<retry, workVars, refused>>
    BY <1>29, <2>1, FaultsShow DEF RecoverAnswered, CommitOr, Unwritten, Goto, Going, Clean
  <2>3. ~activeTurn' /\ activeCompact' = NoCompact /\ UNCHANGED processes
    BY <2>2, TurnEventsLeave
  <2> QED
    BY <1>29, <2>1, <2>2, <2>3 DEF RecoverAnswered, NoCompact, Going, workVars, Accepting,
       TurnFits, WalkFits, CommandsFit, RetryFits, CompactFits, RequestPoints, AnswerPoints,
       CallPoints, EndPoints, RestPoints, WalkedTo, Managing
<1>30. ASSUME NEW c \in Calls, RecoverCall(c)
      PROVE  Accepting'
  <2>1. PICK status \in Owed(c, FALSE) :
           CommitOr("tool_finished", ResultFits(c, status), ToolFinished(c, status),
                    /\ UNCHANGED <<command, late>>
                    /\ UNCHANGED <<pc, rc, hostVars, batch, closing>>,
                    "closed", "broken")
    BY <1>30 DEF RecoverCall, Terminalize
  <2>2. ResultFits(c, status)
    BY <1>30, OwedFits DEF RecoverCall, Terminalize, Going, DriverBase
  <2>3. ToolFinished(c, status) /\ UNCHANGED <<pc, refused>>
    BY <2>1, <2>2, FaultsShow DEF CommitOr, Unwritten, Going, Clean
  <2>4. UNCHANGED activeCompact
    BY <2>3 DEF ToolFinished, AsideVars, compactVars
  <2> QED
    BY <1>30, <2>3, <2>4 DEF RecoverCall, Recovering, Going, Accepting, TurnFits, WalkFits,
       CommandsFit, RetryFits, CompactFits, RequestPoints, AnswerPoints, CallPoints, EndPoints,
       RestPoints, WalkedTo, Managing
<1>31. ASSUME RecoverTurn
      PROVE  Accepting'
  <2>1. RecoverableTurn /\ activeCompact = NoCompact
    BY <1>31 DEF RecoverTurn, Recovering, RecoverableTurn
  <2> QED BY <1>31, <2>1, ClosingAccepts DEF RecoverTurn, InterruptTurn
<1> QED
  BY ONLY Going, LoopNext, <1>1, <1>2, <1>3, <1>4, <1>5, <1>6, <1>7, <1>8, <1>9, <1>10,
     <1>11, <1>12, <1>13, <1>14, <1>15, <1>16, <1>17, <1>18, <1>19, <1>20, <1>21, <1>22,
     <1>23, <1>24, <1>25, <1>26, <1>27, <1>28, <1>29, <1>30, <1>31 DEF LoopNext

\* Text that is accepted lets the turn go on as it was.
LEMMA SteeringLeaves ==
    ASSUME SessionInv, NEW i \in Inputs, SteeringAdded(i)
    PROVE  /\ Workable => Workable'
           /\ RecoverableTurn' <=> RecoverableTurn
           /\ SteeringAdmitted' => SteeringAdmitted
           /\ SteeringPending'
           /\ \A c \in Calls : Unstarted(c)' <=> Unstarted(c)
           /\ UNCHANGED <<activeTurn, responseOpen, responseComplete, terminal, outcome, cycle,
                          processes, pendingCalls, activeCompact>>
<1>1. /\ UNCHANGED <<activeTurn, responseOpen, responseComplete, terminal, outcome, cycle,
                     processes, pendingCalls, activeCompact>>
      /\ steering' = [steering EXCEPT ![i] = "pending"]
  BY DEF SteeringAdded, AddSteering, NotInputVars, turnVars, responseVars, attemptVars,
     compactVars
<1>2. SteeringPending' /\ (SteeringAdmitted' => SteeringAdmitted)
  BY <1>1 DEF SteeringPending, SteeringAdmitted, SessionInv, TypeOK, InputTypes
<1> QED
  BY <1>1, <1>2 DEF Workable, RecoverableTurn, Unstarted, AllFinished, Unfinished

\* So does another default model, and what a Ctrl-C records.
LEMMA SelectionLeaves ==
    (\E m : ModelSelectionChanged(m)) \/ TurnCancelRequested \/ InputCancelled =>
        /\ Workable' <=> Workable
        /\ RecoverableTurn' <=> RecoverableTurn
        /\ SteeringAdmitted' <=> SteeringAdmitted
        /\ SteeringPending' <=> SteeringPending
        /\ \A c \in Calls : Unstarted(c)' <=> Unstarted(c)
        /\ UNCHANGED <<activeTurn, responseOpen, responseComplete, terminal, outcome, cycle,
                       processes, pendingCalls, activeCompact>>
<1> SUFFICES ASSUME (\E m : ModelSelectionChanged(m)) \/ TurnCancelRequested \/ InputCancelled
             PROVE  UNCHANGED <<activeTurn, responseVars, attemptVars, processes, steering,
                                activeCompact>>
  BY DEF responseVars, attemptVars, Workable, RecoverableTurn, SteeringPending,
     SteeringAdmitted, Unstarted, AllFinished, Unfinished
<1> QED
  BY DEF ModelSelectionChanged, TurnCancelRequested, InputCancelled, NotInputVars, turnVars,
     inputVars, compactVars

\* What the operator does while a turn runs fits the turn.
LEMMA OperatorAccepts ==
    ASSUME Going, OperatorNext
    PROVE  Accepting'
<1>1. ASSUME NEW i \in Inputs, SteerTyped(i)
      PROVE  Accepting'
  <2>1. /\ SteeringAdded(i) /\ pc \in PumpPoints
        /\ UNCHANGED <<pc, retry, workVars, refused>>
    BY <1>1 DEF SteerTyped, Typing
  <2>2. /\ Workable => Workable'
        /\ RecoverableTurn' <=> RecoverableTurn
        /\ SteeringAdmitted' => SteeringAdmitted
        /\ SteeringPending'
        /\ \A c \in Calls : Unstarted(c)' <=> Unstarted(c)
        /\ UNCHANGED <<activeTurn, responseOpen, responseComplete, terminal, outcome, cycle,
                       processes, pendingCalls, activeCompact>>
    BY <2>1, SteeringLeaves DEF Going, DriverBase
  <2> QED
    BY <2>1, <2>2 DEF Going, PumpPoints, ForGoal, workVars, Accepting, TurnFits, WalkFits,
       CommandsFit, RetryFits, CompactFits, RequestPoints, AnswerPoints, CallPoints, EndPoints,
       RestPoints, WalkedTo, Managing
<1>2. ASSUME SteerReturned
      PROVE  Accepting'
  BY <1>2, SameSession DEF SteerReturned, Going, Quietly, Goto, PumpPoints, Typing, DriverBase,
     DriverTypeOK, HostTypes, Closings, workVars, hostVars, Accepting, TurnFits, WalkFits,
     CommandsFit, RetryFits, CompactFits, RequestPoints, AnswerPoints, CallPoints, EndPoints,
     RestPoints, WalkedTo, Managing
<1>3. ASSUME ControlTyped
      PROVE  Accepting'
  <2>1. /\ UNCHANGED <<vars, pc, retry, edge.steering, workVars, refused>>
        /\ pc \in PumpPoints
    BY <1>3 DEF ControlTyped, Typing, DriverBase, DriverTypeOK, HostTypes, Edges
  <2> QED
    BY <2>1, SameSession DEF Going, PumpPoints, ForGoal, workVars, Accepting, TurnFits,
       WalkFits, CommandsFit, RetryFits, CompactFits, RequestPoints, AnswerPoints, CallPoints,
       EndPoints, RestPoints, WalkedTo, Managing
<1>4. ASSUME NEW m \in Models, ModelTyped(m)
      PROVE  Accepting'
  <2>1. /\ ModelSelectionChanged(m)
        /\ pc \in PumpPoints /\ UNCHANGED <<pc, retry, edge.steering, workVars, refused>>
    BY <1>4 DEF ModelTyped, Typing, DriverBase, DriverTypeOK, HostTypes, Edges
  <2>2. /\ Workable' <=> Workable
        /\ RecoverableTurn' <=> RecoverableTurn
        /\ SteeringAdmitted' <=> SteeringAdmitted
        /\ SteeringPending' <=> SteeringPending
        /\ \A c \in Calls : Unstarted(c)' <=> Unstarted(c)
        /\ UNCHANGED <<activeTurn, responseOpen, responseComplete, terminal, outcome, cycle,
                       processes, pendingCalls, activeCompact>>
    BY <2>1, SelectionLeaves
  <2> QED
    BY <2>1, <2>2 DEF Going, PumpPoints, ForGoal, workVars, Accepting, TurnFits, WalkFits,
       CommandsFit, RetryFits, CompactFits, RequestPoints, AnswerPoints, CallPoints, EndPoints,
       RestPoints, WalkedTo, Managing
<1>5. ASSUME NEW g \in Goals, GoalTyped(g)
      PROVE  Accepting'
  <2>1. /\ GoalPaused(g) \/ GoalResumed(g) \/ GoalCompleted(g, "user")
        /\ pc \in PumpPoints /\ UNCHANGED <<pc, retry, edge.steering, workVars, refused>>
    BY <1>5 DEF GoalTyped, Typing, DriverBase, DriverTypeOK, HostTypes, Edges
  <2>2. /\ Workable' <=> Workable
        /\ RecoverableTurn' <=> RecoverableTurn
        /\ SteeringAdmitted' <=> SteeringAdmitted
        /\ SteeringPending' <=> SteeringPending
        /\ \A c \in Calls : Unstarted(c)' <=> Unstarted(c)
        /\ UNCHANGED <<activeTurn, responseOpen, responseComplete, terminal, outcome, cycle,
                       processes, pendingCalls, activeCompact>>
    BY <2>1, GoalsLeave
  <2> QED
    BY <2>1, <2>2 DEF Going, PumpPoints, ForGoal, workVars, Accepting, TurnFits, WalkFits,
       CommandsFit, RetryFits, CompactFits, RequestPoints, AnswerPoints, CallPoints, EndPoints,
       RestPoints, WalkedTo, Managing
<1>6. ASSUME InterruptTyped
      PROVE  Accepting'
  <2>1. /\ TurnCancelRequested \/ InputCancelled \/ UNCHANGED vars
        /\ pc \in PumpPoints /\ UNCHANGED <<pc, retry, edge.steering, workVars, refused>>
    BY <1>6 DEF InterruptTyped, Typing, DriverBase, DriverTypeOK, HostTypes, Edges
  <2>2. /\ Workable' <=> Workable
        /\ RecoverableTurn' <=> RecoverableTurn
        /\ SteeringAdmitted' <=> SteeringAdmitted
        /\ SteeringPending' <=> SteeringPending
        /\ \A c \in Calls : Unstarted(c)' <=> Unstarted(c)
        /\ UNCHANGED <<activeTurn, responseOpen, responseComplete, terminal, outcome, cycle,
                       processes, pendingCalls, activeCompact>>
    BY <2>1, SelectionLeaves, SameSession
  <2> QED
    BY <2>1, <2>2 DEF Going, PumpPoints, ForGoal, workVars, Accepting, TurnFits, WalkFits,
       CommandsFit, RetryFits, CompactFits, RequestPoints, AnswerPoints, CallPoints, EndPoints,
       RestPoints, WalkedTo, Managing
<1>7. ASSUME ExitTyped
      PROVE  Accepting'
  <2>1. /\ UNCHANGED <<vars, pc, retry, edge.steering, workVars, refused>>
        /\ pc \in PumpPoints
    BY <1>7 DEF ExitTyped, Typing, DriverBase, DriverTypeOK, HostTypes, Edges
  <2> QED
    BY <2>1, SameSession DEF Going, PumpPoints, ForGoal, workVars, Accepting, TurnFits,
       WalkFits, CommandsFit, RetryFits, CompactFits, RequestPoints, AnswerPoints, CallPoints,
       EndPoints, RestPoints, WalkedTo, Managing
<1> QED
  BY ONLY Going, OperatorNext, <1>1, <1>2, <1>3, <1>4, <1>5, <1>6, <1>7 DEF OperatorNext

\* So does what is submitted at the prompt.
LEMMA PromptAccepts ==
    ASSUME Going, OperatorAtPrompt
    PROVE  Accepting'
<1>1. ASSUME SubmitPrompt
      PROVE  Accepting'
  <2>1. ReceiptFits("direct", FALSE)
    BY <1>1 DEF SubmitPrompt, ReceiptFits
  <2>2. /\ InputReceived("direct", FALSE, defaultModel) /\ pc' = "begin"
        /\ retry'.kind = "direct" /\ UNCHANGED <<workVars, refused>>
    BY <1>1, <2>1, FaultsShow DEF SubmitPrompt, CommitOr, Unwritten, Track, NoRetry, Going,
       Clean
  <2>3. UNCHANGED <<activeTurn, processes, activeCompact>>
    BY <2>2 DEF InputReceived, NotInputVars, turnVars, compactVars
  <2> QED
    BY <1>1, <2>2, <2>3 DEF SubmitPrompt, AtPrompt, Going, workVars, Accepting, TurnFits,
       WalkFits, CommandsFit, RetryFits, CompactFits, RequestPoints, AnswerPoints, CallPoints,
       EndPoints, RestPoints, WalkedTo, Managing
<1>2. ASSUME NEW i \in Inputs, SubmitSteering(i)
      PROVE  Accepting'
  <2>1. SteeringFits(i)
    BY <1>2 DEF SubmitSteering, AtPrompt, SteeringFits, SteerableTurn, Workable, Going,
       Accepting, TurnFits, RestPoints
  <2>2. SteeringAdded(i) /\ pc' = "begin" /\ UNCHANGED <<workVars, refused>>
    BY <1>2, <2>1, FaultsShow DEF SubmitSteering, CommitOr, Unwritten, Track, Going, Clean
  <2>3. (Workable => Workable') /\ UNCHANGED <<activeTurn, processes, activeCompact>>
    BY <2>2, SteeringLeaves DEF Going, DriverBase
  <2> QED
    BY <1>2, <2>2, <2>3 DEF SubmitSteering, AtPrompt, Going, workVars, Accepting, TurnFits,
       WalkFits, CommandsFit, RetryFits, CompactFits, RequestPoints, AnswerPoints, CallPoints,
       EndPoints, RestPoints, WalkedTo, Managing
<1>3. ASSUME SubmitRetry
      PROVE  Accepting'
  BY <1>3, SameSession DEF SubmitRetry, Going, Quietly, Goto, TrackQuietly, Track, NoRetry,
     AtPrompt, TurnKind, workVars, hostVars, Accepting, TurnFits, WalkFits, CommandsFit,
     RetryFits, CompactFits, RequestPoints, AnswerPoints, CallPoints, EndPoints, RestPoints,
     WalkedTo, Managing
<1>4. ASSUME NEW g \in Goals, SubmitGoal(g)
      PROVE  Accepting'
  <2>1. (Workable' <=> Workable) /\ UNCHANGED <<activeTurn, processes, activeCompact>>
    BY <1>4, GoalsLeave DEF SubmitGoal
  <2> QED
    BY <1>4, <2>1 DEF SubmitGoal, AtPrompt, Goto, Going, workVars, Accepting, TurnFits,
       WalkFits, CommandsFit, RetryFits, CompactFits, RequestPoints, AnswerPoints, CallPoints,
       EndPoints, RestPoints, WalkedTo, Managing
<1>5. ASSUME CancelKept
      PROVE  Accepting'
  <2>1. RecoverableTurn
    BY <1>5, WorkableRecovers DEF CancelKept, AtPrompt, Going, DriverBase, Accepting, TurnFits,
       RestPoints
  <2>2. TurnCancelRequested /\ pc' = "cancelling" /\ UNCHANGED <<retry, workVars, refused>>
    BY <1>5, FaultsShow DEF CancelKept, CommitOr, Unwritten, Goto, Going, Clean
  <2>3. RecoverableTurn' /\ UNCHANGED <<processes, activeCompact>>
    BY <2>1, <2>2, TurnEventsLeave
  <2> QED
    BY <1>5, <2>2, <2>3 DEF CancelKept, AtPrompt, Going, workVars, Accepting, TurnFits,
       WalkFits, CommandsFit, RetryFits, CompactFits, RequestPoints, AnswerPoints, CallPoints,
       EndPoints, RestPoints, WalkedTo, Managing
<1>6. ASSUME LeavePrompt
      PROVE  Accepting'
  BY <1>6, SameSession DEF LeavePrompt, Going, Quietly, Goto, AtPrompt, workVars, hostVars,
     Accepting, TurnFits, WalkFits, CommandsFit, RetryFits, CompactFits, RequestPoints,
     AnswerPoints, CallPoints, EndPoints, RestPoints, WalkedTo, Managing
<1>7. ASSUME CancelAccepted
      PROVE  Accepting'
  <2>1. InputCancelled /\ UNCHANGED <<pc, retry, workVars, refused>>
    BY <1>7, FaultsShow DEF CancelAccepted, CommitOr, Unwritten, Goto, Going, Clean, hostVars
  <2>2. /\ Workable' <=> Workable
        /\ RecoverableTurn' <=> RecoverableTurn
        /\ UNCHANGED <<activeTurn, processes, activeCompact>>
    BY <2>1, SelectionLeaves
  <2> QED
    BY <1>7, <2>1, <2>2 DEF CancelAccepted, AtPrompt, Going, workVars, Accepting, TurnFits,
       WalkFits, CommandsFit, RetryFits, CompactFits, RequestPoints, AnswerPoints, CallPoints,
       EndPoints, RestPoints, WalkedTo, Managing
<1> QED
  BY ONLY Going, OperatorAtPrompt, <1>1, <1>2, <1>3, <1>4, <1>5, <1>6, <1>7 DEF OperatorAtPrompt

\* So is everything in every step of the driver, its commands, the operator, a crash
\* and the process that follows it.
LEMMA StepAccepts ==
    ASSUME Going, [DriverNext]_allVars
    PROVE  Accepting'
<1>1. ASSUME NEW h \in Calls, CommandEnds(h) \/ CommandOverdue(h)
      PROVE  Accepting'
  <2>1. UNCHANGED <<vars, pc, hostVars, batch, closing, refused>>
    BY <1>1 DEF CommandEnds, CommandOverdue
  <2>2. UNCHANGED retry
    BY <2>1 DEF hostVars
  <2>3. \A k \in Calls : command[k] # "none" => command'[k] # "none"
    BY <1>1 DEF CommandEnds, CommandOverdue, Going, DriverBase, DriverTypeOK, HostTypes
  <2>4. processes \subseteq Calls
    BY DEF Going, DriverBase, SessionInv, TypeOK
  <2>5. UNCHANGED <<processes, pendingCalls, edge>>
    BY <2>1 DEF vars, responseVars, hostVars
  <2>6. \A aside : Managing(aside) => Managing(aside)'
    BY <2>3, <2>4, <2>5 DEF Managing
  <2> QED
    BY <2>1, <2>2, <2>5, <2>6, SameSession
    DEF Going, Accepting, TurnFits, WalkFits, WalkedTo, CommandsFit, RetryFits, CompactFits,
        RequestPoints, AnswerPoints, CallPoints, EndPoints, RestPoints, ForGoal
<1>2. CASE Crash \/ Restart
  <2>1. UNCHANGED <<vars, refused>> /\ pc' \in {"closed", "recover"}
    BY <1>2 DEF Crash, Restart
  <2>2. UNCHANGED activeCompact
    BY <2>1, SameSession
  <2> QED
    BY <2>1, <2>2
    DEF Going, Accepting, TurnFits, WalkFits, CommandsFit, RetryFits, CompactFits,
        RequestPoints, AnswerPoints, CallPoints, EndPoints, RestPoints
<1>3. CASE Stopped \/ UNCHANGED allVars
  <2>1. UNCHANGED <<vars, pc, edge, retry, command, batch, closing, refused>>
    BY <1>3 DEF Stopped, allVars, driverVars, hostVars, workVars
  <2>2. UNCHANGED <<processes, pendingCalls>>
    BY <2>1, SameSession
  <2> QED
    BY <2>1, <2>2, SameSession
    DEF Going, Accepting, TurnFits, WalkFits, WalkedTo, CommandsFit, Managing, RetryFits,
        CompactFits, RequestPoints, AnswerPoints, CallPoints, EndPoints, RestPoints, ForGoal
<1> QED
  BY <1>1, <1>2, <1>3, CycleAccepts, CallsAccepts, EndAccepts, LoopAccepts, OperatorAccepts,
     PromptAccepts DEF DriverNext, DriverStep

\* Nothing is refused and nothing is in the way of a session just created.
LEMMA AcceptInit == DriverInit => AcceptInv
BY DEF DriverInit, HostInit, Init, AcceptInv, Accepting, TurnFits, WalkFits, CommandsFit,
   Managing, RetryFits, CompactFits, NoCompact, RequestPoints, AnswerPoints, CallPoints,
   EndPoints, RestPoints

\* Trouble does not go away: a session that is clean was always clean.
LEMMA CleanBefore ==
    ASSUME DriverBase, CancelInv, BudgetTypes', [DriverNext]_allVars, Clean'
    PROVE  Clean
BY StepsFlow, DriverAssumption DEF CancelInv, CancelFlow, BudgetTypes, Clean, Untroubled

\* The inductive step.
LEMMA AcceptStep ==
    ASSUME DriverBase, DriverBase', OwnedInv, OutcomeInv, OutcomeInv', CommandsWithinLimit,
           CancelInv, CancelInv', AcceptInv, [DriverNext]_allVars
    PROVE  AcceptInv'
<1> SUFFICES ASSUME Clean' PROVE Accepting'
  BY DEF AcceptInv
<1>1. BudgetTypes /\ BudgetTypes'
  BY DEF CancelInv
<1>2. Clean
  BY <1>1, CleanBefore
<1>3. Going
  BY <1>1, <1>2 DEF Going, AcceptInv
<1> QED
  BY <1>3, StepAccepts

\* What the acceptance rests on besides: which commands the session knows, and what
\* the reducer keeps by itself, of outcomes and of the limit of commands.
LEMMA OwnedSafe == DriverSpec => []OwnedInv
<1>1. DriverInit => OwnedInv
  BY DEF DriverInit, HostInit, OwnedInv, CommandsAreOwned, StartedCallWaits
<1>2. DriverBase /\ OwnedInv /\ [DriverNext]_allVars => OwnedInv'
  BY OwnedStep
<1> QED BY <1>1, <1>2, DriverSafe, PTL DEF DriverSpec

\* Everything is accepted at every place of the driver while the session is clean.
LEMMA AcceptSafe == DriverSpec => []AcceptInv
<1>1. DriverBase /\ DriverBase' /\ OwnedInv /\ OutcomeInv /\ OutcomeInv' /\ CommandsWithinLimit
         /\ CancelInv /\ CancelInv' /\ AcceptInv /\ [DriverNext]_allVars => AcceptInv'
  BY AcceptStep
<1> QED
  BY <1>1, AcceptInit, DriverSafe, OwnedSafe, CancelSafe, DriverImplementsSession, OutcomesSettle,
     CommandsLimited, PTL DEF DriverSpec

\* The reducer refuses nothing of what the driver commits, in whatever order typed
\* input, commands, answers, failures, compactions and restarts come, until it refused
\* to close a command or an event could not be written.
THEOREM EverythingAccepted == DriverSpec => []EventsAreAccepted
<1>1. AcceptInv => EventsAreAccepted
  BY DEF AcceptInv, Accepting, Clean, EventsAreAccepted
<1> QED BY <1>1, AcceptSafe, PTL
=============================================================================
