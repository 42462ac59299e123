--------------------------- MODULE SessionProofs ---------------------------
(***************************************************************************)
(* Proofs that the session's safety properties hold for every set of       *)
(* inputs, calls, goals, models and scopes and every bound.                *)
(***************************************************************************)
EXTENDS Session, SequenceTheorems, FiniteSetTheorems, TLAPS

USE DEF GoalStates, GoalRecord, NoGoal, QueueEntry, InputRecord, NoInput,
        CompactRecord, NoCompact

\* Initially every part of the state has its type.
LEMMA InitType == Init => TypeOK
<1> SUFFICES ASSUME Init PROVE TypeOK
  OBVIOUS
<1>1. TurnTypes
  <2>1. turnCount \in 0..MaxTurns
    BY ConstantsAssumption DEF Init
  <2>2. QED BY <2>1 DEF Init, TurnTypes
<1>7. AttemptTypes /\ IrcTypes
  BY ConstantsAssumption DEF Init, AttemptTypes, IrcTypes, Outcomes
<1>2. ModelTypes
  BY DEF Init, ModelTypes
<1>3. ResponseTypes
  BY DEF Init, ResponseTypes, CallRecord, NoCall, CallStates, Tools, Terminals
<1>4. InputTypes /\ CompactTypes
  BY DEF Init, InputTypes, CompactTypes
<1>5. QueueTypes
  BY EmptySeq DEF Init, QueueTypes
<1>6. QED BY <1>1, <1>2, <1>3, <1>4, <1>5, <1>7 DEF Init, TypeOK

\* A part keeps its types when its variables keep their values.
LEMMA SameParts ==
    /\ TurnTypes /\ UNCHANGED turnVars => TurnTypes'
    /\ ModelTypes /\ UNCHANGED modelVars => ModelTypes'
    /\ ResponseTypes /\ UNCHANGED responseVars => ResponseTypes'
    /\ AttemptTypes /\ UNCHANGED attemptVars => AttemptTypes'
    /\ InputTypes /\ UNCHANGED inputVars => InputTypes'
    /\ QueueTypes /\ UNCHANGED queueVars => QueueTypes'
    /\ CompactTypes /\ UNCHANGED compactVars => CompactTypes'
    /\ IrcTypes /\ UNCHANGED ircVars => IrcTypes'
<1>1. TurnTypes /\ UNCHANGED turnVars => TurnTypes'
  BY DEF TurnTypes, turnVars
<1>2. ModelTypes /\ UNCHANGED modelVars => ModelTypes'
  BY DEF ModelTypes, modelVars
<1>3. ResponseTypes /\ UNCHANGED responseVars => ResponseTypes'
  BY DEF ResponseTypes, responseVars
<1>4. AttemptTypes /\ UNCHANGED attemptVars => AttemptTypes'
  BY DEF AttemptTypes, attemptVars
<1>5. InputTypes /\ UNCHANGED inputVars => InputTypes'
  BY DEF InputTypes, inputVars
<1>6. QueueTypes /\ UNCHANGED queueVars => QueueTypes'
  BY DEF QueueTypes, queueVars
<1>7. CompactTypes /\ UNCHANGED compactVars => CompactTypes'
  BY DEF CompactTypes, compactVars
<1>8. IrcTypes /\ UNCHANGED ircVars => IrcTypes'
  BY DEF IrcTypes, ircVars
<1>9. QED BY <1>1, <1>2, <1>3, <1>4, <1>5, <1>6, <1>7, <1>8

\* A stutter keeps the types.
LEMMA StutterType == TypeOK /\ UNCHANGED vars => TypeOK'
BY SameParts DEF TypeOK, vars

\* A cleared response has its types.
LEMMA ClearedResponse == ClearResponse => ResponseTypes'
<1> SUFFICES ASSUME ClearResponse PROVE ResponseTypes'
  OBVIOUS
<1>1. pendingCalls' \in [Calls -> CallRecord]
  BY DEF ClearResponse, CallRecord, NoCall, CallStates, Tools
<1>2. QED BY <1>1 DEF ClearResponse, ResponseTypes, Terminals

\* A call keeps its shape in any state.
LEMMA StateChange ==
    ASSUME NEW call \in CallRecord, NEW state \in CallStates
    PROVE  InState(call, state) \in CallRecord
BY DEF InState, CallRecord

\* A queue that SetQueue leaves has its types.
LEMMA SetQueueType ==
    ASSUME NEW q \in Seq(QueueEntry), NEW armed \in BOOLEAN, SetQueue(q, armed)
    PROVE  QueueTypes'
BY DEF SetQueue, QueueTypes

\* Editing one entry of a queue gives a queue.
LEMMA EditedQueue ==
    ASSUME NEW q \in Seq(QueueEntry), NEW k \in 1..Len(q), NEW ro \in BOOLEAN
    PROVE  [q EXCEPT ![k] = [id |-> @.id, readOnly |-> ro]] \in Seq(QueueEntry)
<1>1. [id |-> q[k].id, readOnly |-> ro] \in QueueEntry
  BY ElementOfSeq
<1>2. QED BY <1>1, ExceptSeq

\* What stays of a queue is a queue.
LEMMA KeptQueue ==
    ASSUME NEW q \in Seq(QueueEntry), NEW positions \in SUBSET (1..Len(q)),
           NEW kept \in EntriesAt(q, positions)
    PROVE  kept \in Seq(QueueEntry)
<1>1. PICK at \in UNION {[1..n -> positions] : n \in 0..Len(q)} :
         kept = [k \in DOMAIN at |-> q[at[k]]]
  BY DEF EntriesAt
<1>2. PICK n \in 0..Len(q) : at \in [1..n -> positions]
  OBVIOUS
<1>3. \A k \in 1..n : q[at[k]] \in QueueEntry
  BY <1>2, ElementOfSeq
<1>4. kept \in [1..n -> QueueEntry] /\ n \in Nat
  BY <1>1, <1>2, <1>3, LenProperties
<1>5. QED BY <1>4, SeqDef

\* An input event keeps the types.
LEMMA InputType == TypeOK /\ InputNext => TypeOK'
<1> SUFFICES ASSUME TypeOK, InputNext PROVE TypeOK'
  OBVIOUS
<1> USE SameParts DEF TypeOK, NotInputVars
<1>1. ASSUME NEW i \in Inputs, SteeringAdded(i)
      PROVE  TypeOK'
  BY <1>1 DEF SteeringAdded, AddSteering, InputTypes, inputVars, SteeringFits
<1>2. ASSUME NEW i \in Inputs, IrcReplyReminder(i)
      PROVE  TypeOK'
  BY <1>2 DEF IrcReplyReminder, AddSteering, InputTypes, inputVars, TurnTypes, turnVars
<1>3. ASSUME NEW ids \in SUBSET Inputs, InputAdmitted(ids)
      PROVE  TypeOK'
  BY <1>3 DEF InputAdmitted, InputTypes, inputVars, TurnTypes, turnVars, AdmissionFits
<1>4. ASSUME NEW i \in Inputs, NEW ro \in BOOLEAN, NEW choice \in ArmChoices, FutureTurnQueued(i, ro, choice)
      PROVE  TypeOK'
  BY <1>4 DEF FutureTurnQueued, Armed, ArmChoices, SetQueue, QueueTypes
<1>5. ASSUME NEW k \in 1..Len(queue), NEW ro \in BOOLEAN, NEW choice \in ArmChoices, FutureTurnEdited(k, ro, choice)
      PROVE  TypeOK'
  <2>1. [queue EXCEPT ![k] = [id |-> @.id, readOnly |-> ro]] \in Seq(QueueEntry)
    BY EditedQueue DEF QueueTypes
  <2>2. QueueTypes'
    BY <1>5, <2>1 DEF FutureTurnEdited, SetQueue, QueueTypes
  <2>3. QED BY <1>5, <2>2 DEF FutureTurnEdited
<1>6. ASSUME NEW ids \in SUBSET Inputs, FutureTurnCancelled(ids)
      PROVE  TypeOK'
  BY <1>6, KeptQueue, SetQueueType DEF FutureTurnCancelled, QueueTypes
<1>7. ASSUME NEW armed \in BOOLEAN, FutureQueueState(armed)
      PROVE  TypeOK'
  BY <1>7 DEF FutureQueueState, SetQueue, QueueTypes
<1>8. ASSUME NEW origin \in {"direct", "timer"}, NEW ro \in BOOLEAN, NEW m \in Models, InputReceived(origin, ro, m)
      PROVE  TypeOK'
  BY <1>8 DEF InputReceived, InputTypes, inputVars, ReceiptFits
<1>9. CASE InputCancelled
  BY <1>9 DEF InputCancelled, InputTypes, inputVars, SetQueue, QueueTypes
<1> QED
  BY <1>1, <1>2, <1>3, <1>4, <1>5, <1>6, <1>7, <1>8, <1>9 DEF InputNext

\* What an ended turn leaves has its types.
LEMMA ClearedTurn ==
    ASSUME TurnTypes, ModelTypes, AttemptTypes, IrcTypes, CompactTypes,
           processes \subseteq Calls, pendingInput \in InputRecord,
           goals \in [Goals -> GoalRecord], deleteRequested \in BOOLEAN, ClearTurn
    PROVE  /\ TurnTypes' /\ ModelTypes' /\ ResponseTypes' /\ AttemptTypes'
           /\ IrcTypes' /\ CompactTypes' /\ processes' \subseteq Calls
           /\ pendingInput' \in InputRecord /\ goals' \in [Goals -> GoalRecord]
           /\ deleteRequested' \in BOOLEAN
<1>1. TurnTypes'
  BY DEF ClearTurn, TurnTypes
<1>2. ModelTypes'
  BY DEF ClearTurn, ModelTypes
<1>3. ResponseTypes'
  BY ClearedResponse DEF ClearTurn
<1>4. AttemptTypes' /\ IrcTypes' /\ CompactTypes'
  BY SameParts DEF ClearTurn, ClearCompaction, AttemptTypes, CompactTypes
<1>5. QED BY <1>1, <1>2, <1>3, <1>4 DEF ClearTurn

\* A turn event keeps the types.
LEMMA TurnType == TypeOK /\ TurnNext => TypeOK'
<1> SUFFICES ASSUME TypeOK, TurnNext PROVE TypeOK'
  OBVIOUS
<1> USE SameParts DEF TypeOK, ClearTurn
<1>1. ASSUME NEW kind \in {"direct", "queued", "goal", "timer"}, NEW ro \in BOOLEAN, NEW m \in Models, TurnStarted(kind, ro, m)
      PROVE  TypeOK'
  <2>1. kind = "queued" => Tail(queue) \in Seq(QueueEntry)
    BY <1>1, HeadTailProperties DEF TurnStarted, AdmissibleStart, QueueTypes, TurnMayStart
  <2>2. QueueTypes'
    BY <1>1, <2>1 DEF TurnStarted, SetQueue, QueueTypes, TurnMayStart
  <2>3. TurnTypes'
    <3>1. turnCount' \in 0..MaxTurns
      BY <1>1, ConstantsAssumption DEF TurnStarted, TurnTypes, TurnMayStart
    <3>2. QED BY <1>1, <3>1 DEF TurnStarted, TurnTypes, TurnMayStart
  <2>4. ModelTypes' /\ AttemptTypes'
    BY <1>1, ConstantsAssumption DEF TurnStarted, ModelTypes, AttemptTypes, TurnMayStart
  <2>5. InputTypes'
    BY <1>1 DEF TurnStarted, InputTypes, TurnMayStart
  <2>6. QED BY <1>1, <2>2, <2>3, <2>4, <2>5, ClearedResponse DEF TurnStarted, TurnMayStart
<1>2. CASE TurnCancelRequested
  BY <1>2 DEF TurnCancelRequested, SetQueue, QueueTypes
<1>3. CASE TurnRecovery
  BY <1>3, ClearedResponse DEF TurnRecovery, ClearCompaction, CompactTypes, RecoverableTurn
<1>4. CASE TurnCompleted
  <2>1. ClearTurn /\ UNCHANGED <<steering, queueVars>>
    BY <1>4 DEF TurnCompleted, AnsweredTurn
  <2>2. InputTypes' /\ QueueTypes'
    BY <2>1 DEF ClearTurn, InputTypes
  <2>3. QED BY <2>1, <2>2, ClearedTurn DEF InputTypes
<1>5. CASE TurnCompletedSilent
  <2>1. ClearTurn /\ UNCHANGED <<steering, queueVars>>
    BY <1>5 DEF TurnCompletedSilent
  <2>2. InputTypes' /\ QueueTypes'
    BY <2>1 DEF ClearTurn, InputTypes
  <2>3. QED BY <2>1, <2>2, ClearedTurn DEF InputTypes
<1>6. CASE TurnInterrupted
  <2>1. ClearTurn /\ DropSteering /\ SetQueue(queue, FALSE)
    BY <1>6 DEF TurnInterrupted
  <2>2. InputTypes'
    BY <2>1 DEF ClearTurn, DropSteering, InputTypes
  <2>3. QueueTypes'
    BY <2>1 DEF SetQueue, QueueTypes
  <2>4. QED BY <2>1, <2>2, <2>3, ClearedTurn DEF InputTypes
<1>7. CASE TurnFailed
  <2>1. ClearTurn /\ DropSteering /\ SetQueue(queue, queueArmed /\ handoff)
    BY <1>7 DEF TurnFailed
  <2>2. InputTypes'
    BY <2>1 DEF ClearTurn, DropSteering, InputTypes
  <2>3. QueueTypes'
    BY <2>1 DEF SetQueue, QueueTypes
  <2>4. QED BY <2>1, <2>2, <2>3, ClearedTurn DEF InputTypes
<1>8. ASSUME NEW m \in Models, TurnFallbackStarted(m)
      PROVE  TypeOK'
  BY <1>8, ClearedResponse DEF TurnFallbackStarted, ModelTypes, FallbackMayStart
<1>9. CASE TurnModelChanged
  BY <1>9 DEF TurnModelChanged, ModelTypes, ModelMayChange
<1>10. ASSUME NEW m \in Models, ModelSelectionChanged(m)
      PROVE  TypeOK'
  BY <1>10 DEF ModelSelectionChanged, ModelTypes
<1> QED
  BY <1>1, <1>2, <1>3, <1>4, <1>5, <1>6, <1>7, <1>8, <1>9, <1>10 DEF TurnNext

\* A response event keeps the types.
LEMMA ResponseType == TypeOK /\ ResponseNext => TypeOK'
<1> SUFFICES ASSUME TypeOK, ResponseNext PROVE TypeOK'
  OBVIOUS
<1> USE SameParts DEF TypeOK, OutsideVars
<1>1. ASSUME NEW irc \in 0..MaxIrc, ResponseStarted(irc)
      PROVE  TypeOK'
  <2>1. OpenResponse(irc, AdmittedInputs)
    BY <1>1 DEF ResponseStarted
  <2>2. pendingCalls' \in [Calls -> CallRecord]
    BY <2>1 DEF OpenResponse, CallRecord, NoCall, CallStates, Tools
  <2>3. ResponseTypes'
    BY <2>1, <2>2 DEF OpenResponse, ResponseTypes, ModelTypes, Terminals
  <2>4. AttemptTypes' /\ IrcTypes'
    BY <2>1, ConstantsAssumption DEF OpenResponse, AttemptTypes, IrcTypes
  <2>5. InputTypes'
    BY <2>1 DEF OpenResponse, InputTypes
  <2>6. QED BY <2>1, <2>3, <2>4, <2>5 DEF OpenResponse
<1>2. CASE ResponseCapacityRejected
  <2>1. InputTypes'
    BY <1>2 DEF ResponseCapacityRejected, InputTypes
  <2>2. QED BY <1>2, <2>1, ClearedResponse DEF ResponseCapacityRejected
<1>3. ASSUME NEW i \in Inputs, NEW cyber \in BOOLEAN, ResponseOutputCorrection(i, cyber)
      PROVE  TypeOK'
  BY <1>3, ClearedResponse DEF ResponseOutputCorrection, InputTypes, inputVars, TurnTypes, turnVars,
       CorrectionFits
<1>4. ASSUME NEW end \in InterruptTerminals, ResponseInterrupted(end)
      PROVE  TypeOK'
  <2>1. ResponseTypes'
    BY <1>4 DEF ResponseInterrupted, InterruptTerminals, ResponseTypes, Terminals, InterruptFits
  <2>2. InputTypes'
    BY <1>4 DEF ResponseInterrupted, InputTypes, InterruptFits
  <2>3. QED BY <1>4, <2>1, <2>2 DEF ResponseInterrupted, InterruptFits
<1>5. ASSUME NEW newInput \in BOOLEAN, ResponseFailed(newInput)
      PROVE  TypeOK'
  <2>1. ResponseTypes'
    BY <1>5 DEF ResponseFailed, ResponseTypes, Terminals
  <2>2. InputTypes'
    BY <1>5 DEF ResponseFailed, InputTypes
  <2>3. QED BY <1>5, <2>1, <2>2 DEF ResponseFailed
<1>6. ASSUME NEW graph \in ProposedCalls, NEW end \in Outcomes, ResponseCompleted(graph, end)
      PROVE  TypeOK'
  <2>1. graph \in [Calls -> CallRecord]
    BY DEF ProposedCalls, ExecCall, WriteCall, PlainCall, CallRecord, NoCall,
           CallStates, Tools
  <2>2. ResponseTypes'
    BY <1>6, <2>1 DEF ResponseCompleted, ResponseTypes, Terminals, CompletionFits
  <2>3. InputTypes'
    BY <1>6 DEF ResponseCompleted, InputTypes, CompletionFits
  <2>4. AttemptTypes' /\ IrcTypes'
    BY <1>6 DEF ResponseCompleted, AttemptTypes, IrcTypes, CompletionFits
  <2>5. QED BY <1>6, <2>2, <2>3, <2>4 DEF ResponseCompleted, CompletionFits
<1> QED
  BY <1>1, <1>2, <1>3, <1>4, <1>5, <1>6 DEF ResponseNext

\* A tool event keeps the types.
LEMMA ToolsType == TypeOK /\ CallShape /\ ToolsNext => TypeOK'
<1> SUFFICES ASSUME TypeOK, CallShape, ToolsNext PROVE TypeOK'
  OBVIOUS
<1> USE SameParts DEF TypeOK, AsideVars
<1>1. ASSUME NEW c \in Calls, ToolStarted(c)
      PROVE  TypeOK'
  <2>1. StartableCall(c) /\ StartCall(c, OwnedProcess(pendingCalls[c]))
    BY <1>1 DEF ToolStarted, CallMayStart
  <2>2. pendingCalls' \in [Calls -> CallRecord]
    BY <2>1, StateChange DEF StartCall, ResponseTypes, CallStates
  <2>3. ResponseTypes'
    BY <2>1, <2>2 DEF StartCall, ResponseTypes
  <2>4. OwnedProcess(pendingCalls[c]) \subseteq Calls
    BY DEF OwnedProcess, CallShape
  <2>5. QED BY <2>1, <2>3, <2>4 DEF StartCall
<1>2. ASSUME NEW c \in Calls, NEW status \in Statuses, ToolFinished(c, status)
      PROVE  TypeOK'
  <2>1. FinishCall(c) /\ UNCHANGED AsideVars
    BY <1>2 DEF ToolFinished, ResultFits
  <2>2. processes' \subseteq Calls
    BY <1>2 DEF ToolFinished, ResultFits
  <2>3. ResponseTypes'
    <3>1. CASE ClearResponse
      BY <3>1, ClearedResponse
    <3>2. ASSUME NEW state \in {"finished", "refused"},
                 pendingCalls' = [pendingCalls EXCEPT ![c] = InState(@, state)],
                 UNCHANGED <<responseOpen, responseComplete, terminal, handoff,
                             responseModel>>
          PROVE  ResponseTypes'
      <4>1. pendingCalls' \in [Calls -> CallRecord]
        BY <3>2, StateChange DEF ResponseTypes, CallStates
      <4>2. QED BY <3>2, <4>1 DEF ResponseTypes
    <3>3. QED BY <2>1, <3>1, <3>2 DEF FinishCall
  <2>4. QED BY <2>1, <2>2, <2>3
<1>3. ASSUME NEW h \in Calls, ProcessClosed(h)
      PROVE  TypeOK'
  BY <1>3 DEF ProcessClosed, CloseFits
<1> QED
  BY <1>1, <1>2, <1>3 DEF ToolsNext

\* A goal event keeps the types.
LEMMA GoalsType == TypeOK /\ GoalsNext => TypeOK'
<1> SUFFICES ASSUME TypeOK, GoalsNext PROVE TypeOK'
  OBVIOUS
<1> USE SameParts DEF TypeOK, SetStatus, BesideGoals
<1>1. ASSUME NEW g \in Goals, GoalStarted(g)
      PROVE  TypeOK'
  BY <1>1 DEF GoalStarted, SetQueue, QueueTypes
<1>2. ASSUME NEW g \in Goals, NEW new \in Goals, NEW actor \in Actors, GoalReplaced(g, new, actor)
      PROVE  TypeOK'
  BY <1>2 DEF GoalReplaced
<1>3. ASSUME NEW g \in Goals, GoalLockChanged(g)
      PROVE  TypeOK'
  BY <1>3 DEF GoalLockChanged
<1>4. ASSUME NEW g \in Goals, GoalPaused(g)
      PROVE  TypeOK'
  BY <1>4 DEF GoalPaused
<1>5. ASSUME NEW g \in Goals, GoalBlocked(g)
      PROVE  TypeOK'
  BY <1>5 DEF GoalBlocked
<1>6. ASSUME NEW g \in Goals, NEW actor \in Actors, GoalCompleted(g, actor)
      PROVE  TypeOK'
  BY <1>6 DEF GoalCompleted
<1>7. ASSUME NEW g \in Goals, GoalResumed(g)
      PROVE  TypeOK'
  BY <1>7 DEF GoalResumed, SetQueue, QueueTypes
<1>8. ASSUME NEW g \in Goals, GoalCancelled(g)
      PROVE  TypeOK'
  BY <1>8 DEF GoalCancelled
<1> QED
  BY <1>1, <1>2, <1>3, <1>4, <1>5, <1>6, <1>7, <1>8 DEF GoalsNext

\* A context event keeps the types.
LEMMA ContextType == TypeOK /\ ContextNext => TypeOK'
<1> SUFFICES ASSUME TypeOK, ContextNext PROVE TypeOK'
  OBVIOUS
<1> USE SameParts DEF TypeOK, BesideContext
<1>1. ASSUME NEW src \in 1..turnCount, NEW reduce \in BOOLEAN, NEW scope \in Scopes \cup {NoId}, CompactionStarted(src, reduce, scope)
      PROVE  TypeOK'
  BY <1>1 DEF CompactionStarted, CompactTypes, compactVars, CompactionMayStart
<1>2. CASE CompactionInterrupted
  BY <1>2 DEF CompactionInterrupted, ClearCompaction, CompactTypes
<1>3. ASSUME NEW scope \in Scopes \cup {NoId}, CompactionCompleted(scope)
      PROVE  TypeOK'
  BY <1>3 DEF CompactionCompleted, CompactTypes, SummaryFits
<1>4. CASE IrcInput
  <2>1. IrcTypes'
    BY <1>4, ConstantsAssumption DEF IrcInput, IrcTypes
  <2>2. QED BY <1>4, <2>1 DEF IrcInput
<1>5. CASE SessionDeleteRequested
  BY <1>5 DEF SessionDeleteRequested
<1> QED
  BY <1>1, <1>2, <1>3, <1>4, <1>5 DEF ContextNext

\* The whole step keeps the types.
LEMMA TypeStep == SessionInv /\ [Next]_vars => TypeOK'
<1> SUFFICES ASSUME SessionInv, [Next]_vars PROVE TypeOK'
  OBVIOUS
<1>1. TypeOK /\ CallShape
  BY DEF SessionInv
<1>2. CASE UNCHANGED vars
  BY <1>1, <1>2, StutterType
<1>3. CASE Next
  BY <1>1, <1>3, InputType, TurnType, ResponseType, ToolsType, GoalsType,
     ContextType DEF Next
<1> QED
  BY <1>2, <1>3
-----------------------------------------------------------------------------
\* What the calls and the model of a response satisfy, whatever the turn does
\* with its steering.
CallInv ==
    /\ CallShape /\ CallsAreOfCompleteResponse /\ CallsCanSettle
    /\ OneCallPerHandle /\ ReadOnlyTurnIsInert /\ OpenResponseKeepsModel

callVars == <<activeTurn, readOnly, turnModel, responseOpen, responseComplete,
              terminal, responseModel, pendingCalls, processes>>

\* It keeps holding while these variables keep their values.
LEMMA SameCalls == CallInv /\ UNCHANGED callVars => CallInv'
<1> SUFFICES ASSUME CallInv, UNCHANGED callVars PROVE CallInv'
  OBVIOUS
<1> USE DEF CallInv, callVars, Pending, Unfinished, Running, HasPending
<1>1. CallShape' /\ CallsAreOfCompleteResponse'
  BY DEF CallShape, CallsAreOfCompleteResponse
<1>2. CallsCanSettle'
  BY DEF CallsCanSettle
<1>3. OneCallPerHandle'
  BY DEF OneCallPerHandle
<1>4. ReadOnlyTurnIsInert' /\ OpenResponseKeepsModel'
  BY DEF ReadOnlyTurnIsInert, OpenResponseKeepsModel
<1> QED
  BY <1>1, <1>2, <1>3, <1>4

\* A response without calls satisfies it, if it keeps to the turn's model and
\* no command runs in a read-only turn.
LEMMA NoCallsLeft ==
    ASSUME pendingCalls' = [c \in Calls |-> NoCall],
           (responseComplete => activeTurn /\ ~responseOpen /\ terminal = "none")',
           OpenResponseKeepsModel',
           (activeTurn /\ readOnly => processes = {})'
    PROVE  CallInv' /\ ~HasPending'
<1>1. \A c \in Calls : /\ pendingCalls'[c].state = "none"
                       /\ pendingCalls'[c].tool = "none"
                       /\ pendingCalls'[c].handle = NoId
  BY DEF NoCall
<1> USE <1>1 DEF Pending, Unfinished, Running, HasPending
<1>2. CallShape' /\ CallsAreOfCompleteResponse' /\ ~HasPending'
  BY DEF CallShape, CallsAreOfCompleteResponse
<1>3. CallsCanSettle' /\ OneCallPerHandle'
  BY DEF CallsCanSettle, OneCallPerHandle
<1>4. ReadOnlyTurnIsInert'
  BY DEF ReadOnlyTurnIsInert
<1> QED
  BY <1>2, <1>3, <1>4 DEF CallInv

\* So a cleared response satisfies it.
LEMMA ClearedCalls ==
    ASSUME ClearResponse, (activeTurn /\ readOnly => processes = {})'
    PROVE  CallInv' /\ ~HasPending'
BY NoCallsLeft DEF ClearResponse, OpenResponseKeepsModel

\* Events of input, goals and context leave calls and processes alone.
LEMMA OutsideEvents ==
    InputNext \/ GoalsNext \/ ContextNext =>
        UNCHANGED <<callVars, outcome, cycle>>
<1> USE DEF callVars, modelVars, responseVars, attemptVars, turnVars
<1>1. InputNext => UNCHANGED <<callVars, outcome, cycle>>
  BY DEF InputNext, SteeringAdded, IrcReplyReminder, InputAdmitted,
     FutureTurnQueued, FutureTurnEdited, FutureTurnCancelled, FutureQueueState,
     InputReceived, InputCancelled, NotInputVars, SteeringFits, AdmissionFits, ReceiptFits
<1>2. GoalsNext => UNCHANGED <<callVars, outcome, cycle>>
  BY DEF GoalsNext, GoalStarted, GoalReplaced, GoalLockChanged, GoalPaused,
     GoalBlocked, GoalCompleted, GoalResumed, GoalCancelled, BesideGoals
<1>3. ContextNext => UNCHANGED <<callVars, outcome, cycle>>
  BY DEF ContextNext, CompactionStarted, CompactionInterrupted,
     CompactionCompleted, IrcInput, SessionDeleteRequested, BesideContext, CompactionMayStart,
       SummaryFits
<1> QED
  BY <1>1, <1>2, <1>3

\* A turn event keeps the calls right: it changes the model of a turn only
\* while no response is open, and leaves a turn only with its calls cleared.
LEMMA TurnCalls == CallInv /\ TurnNext => CallInv'
<1> SUFFICES ASSUME CallInv, TurnNext PROVE CallInv'
  OBVIOUS
<1> USE DEF turnVars, modelVars, responseVars, attemptVars
<1>1. ASSUME NEW kind \in {"direct", "queued", "goal", "timer"},
             NEW ro \in BOOLEAN, NEW m \in Models, TurnStarted(kind, ro, m)
      PROVE  CallInv'
  BY <1>1, ClearedCalls DEF TurnStarted, TurnMayStart
<1>2. CASE TurnCancelRequested
  BY <1>2, SameCalls DEF TurnCancelRequested, callVars
<1>3. CASE TurnRecovery
  BY <1>3, ClearedCalls DEF TurnRecovery, CallInv, ReadOnlyTurnIsInert, RecoverableTurn
<1>4. CASE ClearTurn
  BY <1>4, ClearedCalls DEF ClearTurn
<1>5. ASSUME NEW m \in Models, TurnFallbackStarted(m) PROVE CallInv'
  BY <1>5, ClearedCalls DEF TurnFallbackStarted, CallInv, ReadOnlyTurnIsInert, FallbackMayStart
<1>6. CASE TurnModelChanged
  <2> USE <1>6 DEF TurnModelChanged, CallInv, Pending, Unfinished, Running,
          HasPending, ModelMayChange
  <2>1. OpenResponseKeepsModel'
    BY DEF OpenResponseKeepsModel
  <2>2. CallShape' /\ CallsAreOfCompleteResponse' /\ CallsCanSettle'
    BY DEF CallShape, CallsAreOfCompleteResponse, CallsCanSettle
  <2>3. OneCallPerHandle' /\ ReadOnlyTurnIsInert'
    BY DEF OneCallPerHandle, ReadOnlyTurnIsInert
  <2> QED BY <2>1, <2>2, <2>3
<1>7. ASSUME NEW m \in Models, ModelSelectionChanged(m) PROVE CallInv'
  BY <1>7, SameCalls DEF ModelSelectionChanged, callVars
<1> QED
  BY <1>1, <1>2, <1>3, <1>4, <1>5, <1>6, <1>7
  DEF TurnNext, TurnCompleted, TurnCompletedSilent, TurnInterrupted, TurnFailed, AnsweredTurn

\* A response event keeps the calls right: calls appear only when the response
\* they belong to is complete.
LEMMA ResponseCalls == CallInv /\ IdleIsSettled /\ ResponseNext => CallInv'
<1> SUFFICES ASSUME CallInv, IdleIsSettled, ResponseNext PROVE CallInv'
  OBVIOUS
<1> USE DEF turnVars, modelVars, responseVars, attemptVars, OutsideVars
<1>1. ASSUME NEW irc \in 0..MaxIrc, ResponseStarted(irc) PROVE CallInv'
  <2>1. OpenResponse(irc, AdmittedInputs)
    BY <1>1 DEF ResponseStarted
  <2>2. OpenResponseKeepsModel'
    BY <2>1 DEF OpenResponse, OpenResponseKeepsModel
  <2> QED
    BY <2>1, <2>2, NoCallsLeft DEF OpenResponse, CallInv, ReadOnlyTurnIsInert
<1>2. CASE ResponseCapacityRejected
  BY <1>2, ClearedCalls DEF ResponseCapacityRejected, CallInv, ReadOnlyTurnIsInert
<1>3. ASSUME NEW i \in Inputs, NEW cyber \in BOOLEAN, ResponseOutputCorrection(i, cyber)
      PROVE  CallInv'
  BY <1>3, ClearedCalls DEF ResponseOutputCorrection, CallInv, ReadOnlyTurnIsInert,
       CorrectionFits
<1>4. ASSUME responseOpen, ~responseOpen', ~responseComplete',
             UNCHANGED <<activeTurn, readOnly, responseModel, pendingCalls, processes>>
      PROVE  CallInv'
  <2>1. ~HasPending
    BY <1>4 DEF CallInv, CallsAreOfCompleteResponse
  <2> USE <1>4, <2>1 DEF CallInv, Pending, Unfinished, Running, HasPending
  <2>2. CallShape' /\ CallsAreOfCompleteResponse' /\ CallsCanSettle'
    BY DEF CallShape, CallsAreOfCompleteResponse, CallsCanSettle
  <2>3. OneCallPerHandle' /\ ReadOnlyTurnIsInert' /\ OpenResponseKeepsModel'
    BY DEF OneCallPerHandle, ReadOnlyTurnIsInert, OpenResponseKeepsModel
  <2> QED BY <2>2, <2>3
<1>5. ASSUME NEW graph \in ProposedCalls, NEW end \in Outcomes,
             ResponseCompleted(graph, end)
      PROVE  CallInv'
  <2>1. activeTurn' /\ responseComplete' /\ ~responseOpen' /\ terminal' = "none"
    BY <1>5 DEF ResponseCompleted, IdleIsSettled, CompletionFits
  <2>2. \A c \in Calls : pendingCalls'[c].state \in {"none", "proposed"}
    BY <1>5 DEF ResponseCompleted, ProposedCalls, NoCall, ExecCall, WriteCall,
       PlainCall, CompletionFits
  <2>3. CallShape'
    BY <1>5 DEF ResponseCompleted, CallShape, ProposedCalls, NoCall, ExecCall,
       WriteCall, PlainCall, CompletionFits
  <2> USE <2>1, <2>2 DEF CallInv, Pending, Unfinished, Running, HasPending
  <2>4. CallsAreOfCompleteResponse' /\ CallsCanSettle'
    BY DEF CallsAreOfCompleteResponse, CallsCanSettle
  <2>5. OneCallPerHandle' /\ OpenResponseKeepsModel'
    BY DEF OneCallPerHandle, OpenResponseKeepsModel
  <2>6. ReadOnlyTurnIsInert'
    BY <1>5 DEF ReadOnlyTurnIsInert, ResponseCompleted, CompletionFits
  <2> QED BY <2>3, <2>4, <2>5, <2>6
<1>6. (\E end \in InterruptTerminals : ResponseInterrupted(end)) => CallInv'
  BY <1>4 DEF ResponseInterrupted, InterruptFits
<1>7. (\E newInput \in BOOLEAN : ResponseFailed(newInput)) => CallInv'
  BY <1>4 DEF ResponseFailed
<1> QED
  BY <1>1, <1>2, <1>3, <1>5, <1>6, <1>7 DEF ResponseNext

\* What a change of one call's state keeps: tools, handles and other calls.
LEMMA OneCallMoves ==
    ASSUME TypeOK, NEW c \in Calls, NEW state \in CallStates,
           pendingCalls' = [pendingCalls EXCEPT ![c] = InState(@, state)]
    PROVE  /\ \A d \in Calls : /\ pendingCalls'[d].tool = pendingCalls[d].tool
                               /\ pendingCalls'[d].handle = pendingCalls[d].handle
           /\ \A d \in Calls \ {c} : pendingCalls'[d].state = pendingCalls[d].state
           /\ pendingCalls'[c].state = state
           /\ CallShape => CallShape'
<1>1. pendingCalls \in [Calls -> CallRecord]
  BY DEF TypeOK, ResponseTypes
<1>2. pendingCalls'[c] = InState(pendingCalls[c], state)
      /\ \A d \in Calls \ {c} : pendingCalls'[d] = pendingCalls[d]
  BY <1>1
<1>3. /\ \A d \in Calls : /\ pendingCalls'[d].tool = pendingCalls[d].tool
                          /\ pendingCalls'[d].handle = pendingCalls[d].handle
      /\ pendingCalls'[c].state = state
  BY <1>2 DEF InState
<1>4. CallShape => CallShape'
  BY <1>3 DEF CallShape
<1> QED
  BY <1>2, <1>3, <1>4

\* Starting a call keeps the calls right: a command it starts is new, and one
\* it writes to has no other writer.
LEMMA StartKeepsCalls ==
    ASSUME TypeOK, CallInv, NEW c \in Calls, ToolStarted(c)
    PROVE  CallInv'
<1>1. /\ StartableCall(c)
      /\ StartCall(c, OwnedProcess(pendingCalls[c]))
      /\ readOnly => ReadOnlyTool(pendingCalls[c].tool)
  BY DEF ToolStarted, CallMayStart
<1>2. /\ activeTurn /\ responseComplete /\ ~responseOpen
      /\ UNCHANGED <<activeTurn, readOnly, turnModel, responseOpen,
                     responseComplete, terminal, responseModel>>
      /\ pendingCalls[c].state = "proposed"
      /\ ProcessAdmits(pendingCalls[c])
      /\ pendingCalls' = [pendingCalls EXCEPT ![c] = InState(@, "started")]
      /\ processes' = processes \cup OwnedProcess(pendingCalls[c])
  BY <1>1 DEF StartableCall, StartCall, AsideVars, turnVars, modelVars,
     CallInv, CallsAreOfCompleteResponse
<1>3. /\ \A d \in Calls : /\ pendingCalls'[d].tool = pendingCalls[d].tool
                          /\ pendingCalls'[d].handle = pendingCalls[d].handle
      /\ \A d \in Calls \ {c} : pendingCalls'[d].state = pendingCalls[d].state
      /\ pendingCalls'[c].state = "started"
      /\ CallShape'
  BY <1>2, OneCallMoves DEF CallStates, CallInv
<1> USE <1>2, <1>3 DEF CallInv, Pending, Unfinished, Running, HasPending
<1>4. CallsAreOfCompleteResponse' /\ OpenResponseKeepsModel'
  BY DEF CallsAreOfCompleteResponse, OpenResponseKeepsModel
<1>5. pendingCalls[c].handle # NoId => pendingCalls[c].handle \in processes'
  BY DEF CallShape, OwnedProcess, ProcessAdmits
<1>6. CallsCanSettle'
  BY <1>5 DEF CallsCanSettle
<1>7. \A d \in Calls : Running(d) /\ pendingCalls[c].handle # NoId =>
         pendingCalls[d].handle # pendingCalls[c].handle
  BY DEF ProcessAdmits, CallsCanSettle, CallShape
<1>8. OneCallPerHandle'
  BY <1>7 DEF OneCallPerHandle
<1>9. readOnly => processes' = {}
  BY <1>1 DEF ReadOnlyTurnIsInert, ReadOnlyTool, OwnedProcess
<1>10. ReadOnlyTurnIsInert'
  BY <1>1, <1>9 DEF ReadOnlyTurnIsInert
<1> QED
  BY <1>4, <1>6, <1>8, <1>10

\* Finishing a call keeps the calls right: a command it ends has no other
\* running call.
LEMMA FinishKeepsCalls ==
    ASSUME TypeOK, CallInv, NEW c \in Calls, NEW status \in Statuses,
           ToolFinished(c, status)
    PROVE  CallInv'
<1>1. /\ activeTurn /\ responseComplete /\ Unfinished(c)
      /\ FinishCall(c) /\ UNCHANGED AsideVars
      /\ processes' = IF Running(c) /\ status = "ended"
                      THEN processes \ {pendingCalls[c].handle} ELSE processes
  BY DEF ToolFinished, ResultFits
<1>2. activeTurn /\ readOnly => processes' = {}
  BY <1>1 DEF CallInv, ReadOnlyTurnIsInert
<1>3. UNCHANGED <<activeTurn, readOnly, turnModel>>
  BY <1>1 DEF AsideVars, turnVars, modelVars
<1>4. CASE ClearResponse
  BY <1>2, <1>3, <1>4, ClearedCalls
<1>5. ASSUME NEW state \in {"finished", "refused"},
             pendingCalls' = [pendingCalls EXCEPT ![c] = InState(@, state)],
             UNCHANGED <<responseOpen, responseComplete, terminal, responseModel>>
      PROVE  CallInv'
  <2>1. /\ \A d \in Calls : /\ pendingCalls'[d].tool = pendingCalls[d].tool
                            /\ pendingCalls'[d].handle = pendingCalls[d].handle
        /\ \A d \in Calls \ {c} : pendingCalls'[d].state = pendingCalls[d].state
        /\ pendingCalls'[c].state = state
        /\ CallShape'
    BY <1>5, OneCallMoves DEF CallStates, CallInv
  <2> USE <1>1, <1>3, <1>5, <2>1 DEF CallInv, Pending, Unfinished, Running,
          HasPending
  <2>2. CallsAreOfCompleteResponse' /\ OpenResponseKeepsModel'
    BY DEF CallsAreOfCompleteResponse, OpenResponseKeepsModel
  <2>3. CallsCanSettle'
    BY DEF CallsCanSettle, OneCallPerHandle
  <2>4. OneCallPerHandle'
    BY DEF OneCallPerHandle
  <2>5. ReadOnlyTurnIsInert'
    BY <1>2 DEF ReadOnlyTurnIsInert
  <2> QED BY <2>2, <2>3, <2>4, <2>5
<1> QED
  BY <1>1, <1>4, <1>5 DEF FinishCall

\* A tool event keeps the calls right.
LEMMA ToolsCalls == TypeOK /\ CallInv /\ ToolsNext => CallInv'
<1> SUFFICES ASSUME TypeOK, CallInv, ToolsNext PROVE CallInv'
  OBVIOUS
<1>1. ASSUME NEW h \in Calls, ProcessClosed(h) PROVE CallInv'
  <2>1. /\ \A c \in Calls : ~Unfinished(c)
        /\ processes' = processes \ {h}
        /\ UNCHANGED <<activeTurn, readOnly, turnModel, responseOpen,
                       responseComplete, terminal, responseModel, pendingCalls>>
    BY <1>1 DEF ProcessClosed, AllFinished, responseVars, AsideVars, turnVars,
       modelVars, CallInv, CallsAreOfCompleteResponse, HasPending, Pending,
       Unfinished, CloseFits
  <2> USE <2>1 DEF CallInv, Pending, Unfinished, Running, HasPending
  <2>2. CallShape' /\ CallsAreOfCompleteResponse' /\ CallsCanSettle'
    BY DEF CallShape, CallsAreOfCompleteResponse, CallsCanSettle
  <2>3. OneCallPerHandle' /\ ReadOnlyTurnIsInert' /\ OpenResponseKeepsModel'
    BY DEF OneCallPerHandle, ReadOnlyTurnIsInert, OpenResponseKeepsModel
  <2> QED BY <2>2, <2>3
<1> QED
  BY <1>1, StartKeepsCalls, FinishKeepsCalls DEF ToolsNext

\* Every step keeps the calls right.
LEMMA CallStep == SessionInv /\ [Next]_vars => CallInv'
<1> SUFFICES ASSUME SessionInv, [Next]_vars PROVE CallInv'
  OBVIOUS
<1>1. TypeOK /\ CallInv /\ IdleIsSettled
  BY DEF SessionInv, CallInv
<1>2. CASE UNCHANGED vars
  BY <1>1, <1>2, SameCalls DEF vars, callVars, turnVars, modelVars, responseVars
<1>3. CASE InputNext \/ GoalsNext \/ ContextNext
  BY <1>1, <1>3, OutsideEvents, SameCalls
<1>4. CASE TurnNext \/ ResponseNext \/ ToolsNext
  BY <1>1, <1>4, TurnCalls, ResponseCalls, ToolsCalls
<1> QED
  BY <1>2, <1>3, <1>4 DEF Next
-----------------------------------------------------------------------------
\* Only input_admitted admits steering, and only in a turn.
LEMMA AdmittedInTurn ==
    ASSUME TypeOK, Next, ~activeTurn, ~activeTurn'
    PROVE  ~SteeringAdmitted => ~SteeringAdmitted'
<1> USE DEF SteeringAdmitted, turnVars, inputVars
<1>1. steering \in [Inputs -> {"none", "pending", "admitted"}]
  BY DEF TypeOK, InputTypes
<1>2. CASE InputNext
  BY <1>1, <1>2 DEF InputNext, SteeringAdded, IrcReplyReminder, InputAdmitted,
     FutureTurnQueued, FutureTurnEdited, FutureTurnCancelled, FutureQueueState,
     InputReceived, InputCancelled, NotInputVars, SteerableTurn, SteeringFits, AdmissionFits,
       ReceiptFits
<1>3. CASE TurnNext
  BY <1>3 DEF TurnNext, TurnStarted, TurnCancelRequested, TurnRecovery,
     TurnCompleted, TurnCompletedSilent, CompletableTurn, TurnInterrupted,
     TurnFailed, AbandonableTurn, TurnFallbackStarted, TurnModelChanged,
     ModelSelectionChanged, TurnMayStart, RecoverableTurn, AnsweredTurn, FallbackMayStart,
       ModelMayChange
<1>4. CASE ResponseNext
  <2>1. CASE \E irc \in 0..MaxIrc : ResponseStarted(irc)
    BY <2>1 DEF ResponseStarted, OpenResponse, ResponseMayStart
  <2>2. CASE \E i \in Inputs, cyber \in BOOLEAN : ResponseOutputCorrection(i, cyber)
    BY <1>1, <2>2 DEF ResponseOutputCorrection, CorrectionFits
  <2> QED
    BY <1>4, <2>1, <2>2 DEF ResponseNext, ResponseCapacityRejected,
       ResponseInterrupted, ResponseFailed, ResponseCompleted, InterruptFits, CompletionFits
<1>5. CASE ToolsNext
  BY <1>5 DEF ToolsNext, ToolStarted, StartableCall, StartCall, ToolFinished,
     ProcessClosed, CallMayStart, ResultFits, CloseFits
<1>6. CASE GoalsNext
  BY <1>6 DEF GoalsNext, GoalStarted, GoalReplaced, GoalLockChanged, GoalPaused,
     GoalBlocked, GoalCompleted, GoalResumed, GoalCancelled, BesideGoals
<1>7. CASE ContextNext
  BY <1>7 DEF ContextNext, CompactionStarted, CompactionInterrupted,
     CompactionCompleted, IrcInput, SessionDeleteRequested, BesideContext, CompactionMayStart,
       SummaryFits
<1> QED
  BY <1>2, <1>3, <1>4, <1>5, <1>6, <1>7 DEF Next

\* Ending a turn leaves it settled.
LEMMA EndIsSettled ==
    ASSUME TurnCompleted \/ TurnCompletedSilent \/ TurnInterrupted \/ TurnFailed
    PROVE  IdleIsSettled'
<1>1. ClearTurn /\ processes = {}
  BY DEF TurnCompleted, TurnCompletedSilent, TurnInterrupted, TurnFailed,
     CompletableTurn, AbandonableTurn, AnsweredTurn
<1>2. /\ ~responseOpen' /\ ~responseComplete' /\ terminal' = "none"
      /\ ~HasPending' /\ processes' = {}
  BY <1>1, ClearedCalls DEF ClearTurn, ClearResponse
<1>3. ~SteeringAdmitted'
  BY DEF TurnCompleted, TurnCompletedSilent, TurnInterrupted, TurnFailed,
     CompletableTurn, DropSteering, SteeringAdmitted, AnsweredTurn
<1> QED
  BY <1>2, <1>3 DEF IdleIsSettled

\* Between turns no event opens, proposes or runs anything.
LEMMA IdleStep == SessionInv /\ [Next]_vars => IdleIsSettled'
<1> SUFFICES ASSUME SessionInv, [Next]_vars, ~activeTurn' PROVE IdleIsSettled'
  BY DEF IdleIsSettled
<1>1. TypeOK /\ IdleIsSettled /\ CallsAreOfCompleteResponse
  BY DEF SessionInv
<1> USE DEF turnVars, modelVars, responseVars, attemptVars, inputVars,
        Pending, HasPending
<1>2. CASE UNCHANGED vars
  BY <1>1, <1>2 DEF vars, IdleIsSettled, SteeringAdmitted
<1>3. CASE TurnCompleted \/ TurnCompletedSilent \/ TurnInterrupted \/ TurnFailed
  BY <1>3, EndIsSettled
<1>4. ASSUME ~activeTurn, Next PROVE IdleIsSettled'
  <2>1. ~SteeringAdmitted'
    BY <1>1, <1>4, AdmittedInTurn DEF IdleIsSettled
  <2>2. UNCHANGED <<responseOpen, responseComplete, terminal, pendingCalls, processes>>
    <3>1. CASE InputNext \/ GoalsNext \/ ContextNext
      BY <3>1, OutsideEvents DEF callVars
    <3>2. CASE TurnNext
      BY <1>4, <3>2 DEF TurnNext, TurnStarted, TurnCancelRequested, TurnRecovery,
         TurnCompleted, TurnCompletedSilent, CompletableTurn, TurnInterrupted,
         TurnFailed, AbandonableTurn, TurnFallbackStarted, TurnModelChanged,
         ModelSelectionChanged, TurnMayStart, RecoverableTurn, AnsweredTurn, FallbackMayStart,
           ModelMayChange
    <3>3. ~ResponseNext
      BY <1>1, <1>4 DEF IdleIsSettled, ResponseNext, ResponseStarted, OpenResponse,
         ResponseMayStart, ResponseCapacityRejected, ResponseOutputCorrection,
         ResponseInterrupted, ResponseFailed, ResponseCompleted, CorrectionFits, InterruptFits,
           CompletionFits
    <3>4. ~ToolsNext
      BY <1>4 DEF ToolsNext, ToolStarted, StartableCall, ToolFinished, ProcessClosed,
           CallMayStart, ResultFits, CloseFits
    <3> QED
      BY <1>4, <3>1, <3>2, <3>3, <3>4 DEF Next
  <2> QED
    BY <1>1, <1>4, <2>1, <2>2 DEF IdleIsSettled
<1>5. ASSUME activeTurn, Next
      PROVE  TurnCompleted \/ TurnCompletedSilent \/ TurnInterrupted \/ TurnFailed
  <2>1. ~(InputNext \/ GoalsNext \/ ContextNext)
    BY <1>5, OutsideEvents DEF callVars
  <2>2. ~ResponseNext
    BY <1>5 DEF ResponseNext, ResponseStarted, OpenResponse,
       ResponseCapacityRejected, ResponseOutputCorrection,
       ResponseInterrupted, ResponseFailed, ResponseCompleted, CorrectionFits, InterruptFits,
         CompletionFits
  <2>3. ~ToolsNext
    BY <1>5 DEF ToolsNext, ToolStarted, StartCall, ToolFinished, ProcessClosed,
       AsideVars, CallMayStart, ResultFits, CloseFits
  <2>4. TurnNext
    BY <1>5, <2>1, <2>2, <2>3 DEF Next
  <2> QED
    BY <1>5, <2>4 DEF TurnNext, TurnStarted, TurnCancelRequested, TurnRecovery,
       TurnFallbackStarted, TurnModelChanged, ModelSelectionChanged, TurnMayStart,
         RecoverableTurn, FallbackMayStart, ModelMayChange
<1> QED
  BY <1>2, <1>3, <1>4, <1>5
-----------------------------------------------------------------------------
\* How steering leaves, event by event: shown in the response that starts, or
\* with a turn that ends without success.
LEMMA SteeringStep ==
    ASSUME TypeOK, Next, NEW i \in Inputs, steering[i] # "none", steering'[i] = "none"
    PROVE  \/ /\ steering[i] = "admitted" /\ ~responseOpen /\ responseOpen'
              /\ terminal' = "none"
           \/ TurnInterrupted
           \/ TurnFailed
<1> USE DEF inputVars
<1>1. steering \in [Inputs -> {"none", "pending", "admitted"}]
  BY DEF TypeOK, InputTypes
<1>2. ~InputNext
  BY <1>1 DEF InputNext, SteeringAdded, IrcReplyReminder, InputAdmitted, AddSteering,
     FutureTurnQueued, FutureTurnEdited, FutureTurnCancelled, FutureQueueState,
     InputReceived, InputCancelled, SteeringFits, AdmissionFits, ReceiptFits
<1>3. TurnNext => TurnInterrupted \/ TurnFailed
  BY DEF TurnNext, TurnStarted, TurnCancelRequested, TurnRecovery, TurnCompleted,
     TurnCompletedSilent, TurnFallbackStarted, TurnModelChanged,
     ModelSelectionChanged, TurnMayStart, RecoverableTurn, AnsweredTurn, FallbackMayStart,
       ModelMayChange
<1>4. ASSUME NEW irc \in 0..MaxIrc, ResponseStarted(irc)
      PROVE  /\ steering[i] = "admitted" /\ ~responseOpen /\ responseOpen'
             /\ terminal' = "none"
  BY <1>1, <1>4 DEF ResponseStarted, OpenResponse, ResponseMayStart, AdmittedInputs
<1>5. ~\E j \in Inputs, cyber \in BOOLEAN : ResponseOutputCorrection(j, cyber)
  BY <1>1 DEF ResponseOutputCorrection, CorrectionFits
<1>6. ResponseNext => \E irc \in 0..MaxIrc : ResponseStarted(irc)
  BY <1>5 DEF ResponseNext, ResponseCapacityRejected, ResponseInterrupted,
     ResponseFailed, ResponseCompleted, InterruptFits, CompletionFits
<1>7. ~ToolsNext
  BY DEF ToolsNext, ToolStarted, StartCall, ToolFinished, ProcessClosed, AsideVars, CallMayStart,
       ResultFits, CloseFits
<1>8. ~GoalsNext
  BY DEF GoalsNext, GoalStarted, GoalReplaced, GoalLockChanged, GoalPaused,
     GoalBlocked, GoalCompleted, GoalResumed, GoalCancelled, BesideGoals
<1>9. ~ContextNext
  BY DEF ContextNext, CompactionStarted, CompactionInterrupted,
     CompactionCompleted, IrcInput, SessionDeleteRequested, BesideContext, CompactionMayStart,
       SummaryFits
<1> QED
  BY <1>2, <1>3, <1>4, <1>6, <1>7, <1>8, <1>9 DEF Next

\* The mark "steered" is set only over pending steering.
LEMMA SteeredStep == SessionInv /\ [Next]_vars => SteeredHasSteering'
<1> SUFFICES ASSUME SessionInv, [Next]_vars, terminal' = "steered"
             PROVE  SteeringPending'
  BY DEF SteeredHasSteering
<1> USE DEF turnVars, modelVars, responseVars, attemptVars, inputVars
<1>1. TypeOK /\ SteeredHasSteering
  BY DEF SessionInv
<1>2. CASE UNCHANGED vars
  BY <1>1, <1>2 DEF vars, SteeredHasSteering, SteeringPending
<1>3. ASSUME Next PROVE SteeringPending
  <2>1. CASE UNCHANGED terminal
    BY <1>1, <2>1 DEF SteeredHasSteering
  <2>2. CASE InputNext \/ GoalsNext \/ ContextNext
    BY <2>1, <2>2, OutsideEvents DEF callVars
  <2>3. TurnNext => UNCHANGED terminal
    BY DEF TurnNext, TurnStarted, TurnCancelRequested, TurnRecovery, TurnCompleted,
       TurnCompletedSilent, TurnInterrupted, TurnFailed, ClearTurn, ClearResponse,
       TurnFallbackStarted, TurnModelChanged, ModelSelectionChanged, TurnMayStart,
         RecoverableTurn, AnsweredTurn, FallbackMayStart, ModelMayChange
  <2>4. ResponseNext => UNCHANGED terminal \/ SteeringPending
    BY DEF ResponseNext, ResponseStarted, OpenResponse, ResponseCapacityRejected,
       ResponseOutputCorrection, ClearResponse, ResponseInterrupted,
       ResponseFailed, ResponseCompleted, CorrectionFits, InterruptFits, CompletionFits
  <2>5. ToolsNext => UNCHANGED terminal
    BY DEF ToolsNext, ToolStarted, StartCall, ToolFinished, FinishCall,
       ClearResponse, ProcessClosed, CallMayStart, ResultFits, CloseFits
  <2> QED
    BY <1>3, <2>1, <2>2, <2>3, <2>4, <2>5 DEF Next
<1>4. ASSUME Next PROVE SteeringPending'
  <2>1. PICK i \in Inputs : steering[i] # "none"
    BY <1>3, <1>4 DEF SteeringPending
  <2>2. ~TurnInterrupted /\ ~TurnFailed
    BY DEF TurnInterrupted, TurnFailed, ClearTurn, ClearResponse
  <2>3. steering'[i] # "none"
    BY <1>1, <1>4, <2>1, <2>2, SteeringStep
  <2> QED
    BY <2>3 DEF SteeringPending
<1> QED
  BY <1>2, <1>4

\* The watermarks of a room move only up to what was received.
LEMMA RoomStep == SessionInv /\ [Next]_vars => ConsumedWasReceived'
<1> SUFFICES ASSUME SessionInv, [Next]_vars PROVE ConsumedWasReceived'
  OBVIOUS
<1>1. /\ ConsumedWasReceived
      /\ ircReceived \in Nat /\ ircConsumed \in Nat /\ responseIrc \in Nat
  BY ConstantsAssumption DEF SessionInv, TypeOK, IrcTypes
<1>2. CASE UNCHANGED ircVars
  BY <1>1, <1>2 DEF ircVars, ConsumedWasReceived
<1>3. UNCHANGED vars => UNCHANGED ircVars
  BY DEF vars
<1>4. InputNext => UNCHANGED ircVars
  BY DEF InputNext, SteeringAdded, IrcReplyReminder, InputAdmitted,
     FutureTurnQueued, FutureTurnEdited, FutureTurnCancelled, FutureQueueState,
     InputReceived, InputCancelled, NotInputVars, SteeringFits, AdmissionFits, ReceiptFits
<1>5. TurnNext => UNCHANGED ircVars
  BY DEF TurnNext, TurnStarted, TurnCancelRequested, TurnRecovery, TurnCompleted,
     TurnCompletedSilent, TurnInterrupted, TurnFailed, ClearTurn,
     TurnFallbackStarted, TurnModelChanged, ModelSelectionChanged, TurnMayStart, RecoverableTurn,
       AnsweredTurn, FallbackMayStart, ModelMayChange
<1>6. ResponseNext => ConsumedWasReceived'
  <2>1. ASSUME NEW irc \in 0..MaxIrc, ResponseStarted(irc)
        PROVE  ConsumedWasReceived'
    BY <1>1, <2>1 DEF ResponseStarted, OpenResponse, ConsumedWasReceived
  <2>2. ASSUME NEW graph \in ProposedCalls, NEW end \in Outcomes,
               ResponseCompleted(graph, end)
        PROVE  ConsumedWasReceived'
    BY <1>1, <2>2 DEF ResponseCompleted, ConsumedWasReceived, CompletionFits
  <2> QED
    BY <1>2, <2>1, <2>2 DEF ResponseNext, ResponseCapacityRejected,
       ResponseOutputCorrection, ResponseInterrupted, ResponseFailed, CorrectionFits,
         InterruptFits
<1>7. ToolsNext => UNCHANGED ircVars
  BY DEF ToolsNext, ToolStarted, StartCall, ToolFinished, ProcessClosed, AsideVars, CallMayStart,
       ResultFits, CloseFits
<1>8. GoalsNext => UNCHANGED ircVars
  BY DEF GoalsNext, GoalStarted, GoalReplaced, GoalLockChanged, GoalPaused,
     GoalBlocked, GoalCompleted, GoalResumed, GoalCancelled, BesideGoals
<1>9. ContextNext => ConsumedWasReceived'
  <2>1. CASE IrcInput
    BY <1>1, <2>1 DEF IrcInput, ConsumedWasReceived
  <2> QED
    BY <1>2, <2>1 DEF ContextNext, CompactionStarted, CompactionInterrupted,
       CompactionCompleted, SessionDeleteRequested, CompactionMayStart, SummaryFits
<1> QED
  BY <1>2, <1>3, <1>4, <1>5, <1>6, <1>7, <1>8, <1>9 DEF Next
-----------------------------------------------------------------------------
\* A new session satisfies the inductive invariant.
LEMMA InitInv == Init => SessionInv
<1> SUFFICES ASSUME Init PROVE SessionInv
  OBVIOUS
<1>1. \A c \in Calls : pendingCalls[c].state = "none" /\ pendingCalls[c].tool = "none"
                       /\ pendingCalls[c].handle = NoId
  BY DEF Init, NoCall
<1> USE <1>1 DEF Init, Pending, Unfinished, Running, HasPending
<1>2. CallShape /\ CallsAreOfCompleteResponse /\ CallsCanSettle
  BY DEF CallShape, CallsAreOfCompleteResponse, CallsCanSettle
<1>3. OneCallPerHandle /\ ReadOnlyTurnIsInert /\ OpenResponseKeepsModel
  BY DEF OneCallPerHandle, ReadOnlyTurnIsInert, OpenResponseKeepsModel
<1>4. IdleIsSettled /\ SteeredHasSteering /\ ConsumedWasReceived
  BY DEF IdleIsSettled, SteeringAdmitted, SteeredHasSteering, ConsumedWasReceived
<1> QED
  BY InitType, <1>2, <1>3, <1>4 DEF SessionInv

\* Every event keeps it.
LEMMA InvStep == SessionInv /\ [Next]_vars => SessionInv'
BY TypeStep, CallStep, IdleStep, SteeredStep, RoomStep DEF SessionInv, CallInv

\* The inductive invariant of the reducer: in every state that any sequence of
\* admitted events reaches, for every set of inputs, calls, goals, models and
\* scopes and every bound, the types are right, calls can settle, commands have
\* one writer, and nothing of a turn outlives it.
THEOREM SessionSafe == Spec => []SessionInv
BY InitInv, InvStep, PTL DEF Spec

\* Every reachable state of the reducer has its types.
THEOREM TypeCorrect == Spec => []TypeOK
<1>1. SessionInv => TypeOK
  BY DEF SessionInv
<1> QED BY <1>1, SessionSafe, PTL

\* Between turns nothing of the last turn is left.
THEOREM IdleSettled == Spec => []IdleIsSettled
<1>1. SessionInv => IdleIsSettled
  BY DEF SessionInv
<1> QED BY <1>1, SessionSafe, PTL

\* A call that is owed a result can always be given one.
THEOREM CallsSettle == Spec => []CallsCanSettle
<1>1. SessionInv => CallsCanSettle
  BY DEF SessionInv
<1> QED BY <1>1, SessionSafe, PTL

\* No two calls in flight act on one command.
THEOREM HandlesExclusive == Spec => []OneCallPerHandle
<1>1. SessionInv => OneCallPerHandle
  BY DEF SessionInv
<1> QED BY <1>1, SessionSafe, PTL

\* A read-only turn runs only read-only tools and owns no command.
THEOREM ReadOnlyInert == Spec => []ReadOnlyTurnIsInert
<1>1. SessionInv => ReadOnlyTurnIsInert
  BY DEF SessionInv
<1> QED BY <1>1, SessionSafe, PTL

\* A response cut off for steering has the steering that replaces it.
THEOREM SteeredSafe == Spec => []SteeredHasSteering
<1>1. SessionInv => SteeredHasSteering
  BY DEF SessionInv
<1> QED BY <1>1, SessionSafe, PTL

\* An open response runs on the model its turn has selected.
THEOREM ModelKept == Spec => []OpenResponseKeepsModel
<1>1. SessionInv => OpenResponseKeepsModel
  BY DEF SessionInv
<1> QED BY <1>1, SessionSafe, PTL

\* No room event is consumed that was not received.
THEOREM RoomConsumption == Spec => []ConsumedWasReceived
<1>1. SessionInv => ConsumedWasReceived
  BY DEF SessionInv
<1> QED BY <1>1, SessionSafe, PTL

\* Accepted steering leaves only by being shown to the model or with a turn
\* that did not succeed.
THEOREM SteeringHonoured == Spec => SteeringIsHonoured
<1>1. ASSUME SessionInv, [Next]_vars
      PROVE  [\A i \in Inputs : steering[i] # "none" /\ steering'[i] = "none" =>
                \/ steering[i] = "admitted" /\ ~responseOpen /\ responseOpen'
                \/ TurnInterrupted
                \/ TurnFailed]_vars
  BY <1>1, SteeringStep DEF SessionInv
<1> QED BY <1>1, SessionSafe, PTL DEF Spec, SteeringIsHonoured

\* How a call is forgotten: with its response settled, or as its last result.
LEMMA ForgettingStep ==
    ASSUME SessionInv, Next, NEW c \in Calls, NEW d \in Calls,
           Pending(c), pendingCalls'[c] = NoCall, Unfinished(d)
    PROVE  /\ activeTurn' /\ ~responseOpen'
           /\ \A e \in Calls \ {d} : ~Unfinished(e)
<1> USE DEF turnVars, modelVars, responseVars, attemptVars
<1>1. /\ TypeOK /\ activeTurn /\ responseComplete /\ ~responseOpen
      /\ terminal = "none" /\ HasPending /\ ~AllFinished
  BY DEF SessionInv, CallsAreOfCompleteResponse, HasPending, AllFinished
<1>2. ~(InputNext \/ GoalsNext \/ ContextNext)
  <2>1. pendingCalls' # pendingCalls
    BY DEF Pending, NoCall
  <2> QED BY <2>1, OutsideEvents DEF callVars
<1>3. ~TurnNext
  <2>1. pendingCalls' # pendingCalls
    BY DEF Pending, NoCall
  <2> QED
    BY <1>1, <2>1 DEF TurnNext, TurnStarted, TurnCancelRequested, TurnRecovery,
       TurnCompleted, TurnCompletedSilent, CompletableTurn, TurnInterrupted,
       TurnFailed, AbandonableTurn, TurnFallbackStarted, TurnModelChanged,
       ModelSelectionChanged, TurnMayStart, RecoverableTurn, AnsweredTurn, FallbackMayStart,
         ModelMayChange
<1>4. ~ResponseNext
  BY <1>1 DEF ResponseNext, ResponseStarted, OpenResponse, ResponseMayStart,
     ResponseCapacityRejected, ResponseOutputCorrection, ResponseInterrupted,
     ResponseFailed, ResponseCompleted, CorrectionFits, InterruptFits, CompletionFits
<1>5. ~\E e \in Calls : ToolStarted(e)
  <2> SUFFICES ASSUME NEW e \in Calls, ToolStarted(e) PROVE FALSE
    OBVIOUS
  <2>1. pendingCalls' = [pendingCalls EXCEPT ![e] = InState(@, "started")]
    BY DEF ToolStarted, StartCall, CallMayStart
  <2>2. /\ \A f \in Calls \ {e} : pendingCalls'[f].state = pendingCalls[f].state
        /\ pendingCalls'[e].state = "started"
    BY <1>1, <2>1, OneCallMoves DEF CallStates
  <2>3. pendingCalls'[c].state = "none"
    BY DEF NoCall
  <2> QED BY <2>2, <2>3 DEF Pending
<1>6. ~\E h \in Calls : ProcessClosed(h)
  BY <1>1 DEF ProcessClosed, CloseFits
<1>7. PICK e \in Calls, status \in Statuses : ToolFinished(e, status)
  BY <1>2, <1>3, <1>4, <1>5, <1>6 DEF Next, ToolsNext
<1>8. Unfinished(e) /\ FinishCall(e) /\ UNCHANGED AsideVars
  BY <1>7 DEF ToolFinished, ResultFits
<1>9. ASSUME NEW state \in {"finished", "refused"},
             pendingCalls' = [pendingCalls EXCEPT ![e] = InState(@, state)]
      PROVE  FALSE
  <2>1. /\ \A f \in Calls \ {e} : pendingCalls'[f].state = pendingCalls[f].state
        /\ pendingCalls'[e].state = state
    BY <1>1, <1>9, OneCallMoves DEF CallStates
  <2>2. pendingCalls'[c].state = "none"
    BY DEF NoCall
  <2> QED BY <2>1, <2>2 DEF Pending
<1>10. ClearResponse /\ \A f \in Calls \ {e} : ~Unfinished(f)
  BY <1>8, <1>9 DEF FinishCall
<1>11. d = e
  BY <1>10
<1> QED
  BY <1>1, <1>8, <1>10, <1>11 DEF AsideVars, ClearResponse

\* No result is dropped: calls are forgotten only when all of them have theirs.
THEOREM ResultsKept == Spec => NoResultDropped
<1>1. ASSUME SessionInv, [Next]_vars
      PROVE  [\A c, d \in Calls :
                /\ Pending(c) /\ pendingCalls'[c] = NoCall
                /\ Unfinished(d)
                => /\ activeTurn' /\ ~responseOpen'
                   /\ \A e \in Calls \ {d} : ~Unfinished(e)]_vars
  BY <1>1, ForgettingStep
<1> QED BY <1>1, SessionSafe, PTL DEF Spec, NoResultDropped

\* A prompt leaves only by being cancelled or by becoming the turn that starts.
LEMMA PromptStep ==
    ASSUME TypeOK, Next, pendingInput # NoInput, pendingInput' # pendingInput
    PROVE  /\ pendingInput' = NoInput
           /\ \/ ~activeTurn' /\ ~queueArmed'
              \/ /\ activeTurn' /\ activeKind' = "direct"
                 /\ readOnly' = pendingInput.readOnly
                 /\ turnModel' = pendingInput.model
<1> USE DEF inputVars
<1>1. InputNext => InputCancelled
  BY DEF InputNext, SteeringAdded, IrcReplyReminder, InputAdmitted,
     FutureTurnQueued, FutureTurnEdited, FutureTurnCancelled, FutureQueueState,
     InputReceived, SteeringFits, AdmissionFits, ReceiptFits
<1>2. ASSUME NEW kind \in {"direct", "queued", "goal", "timer"},
             NEW ro \in BOOLEAN, NEW m \in Models, TurnStarted(kind, ro, m)
      PROVE  /\ pendingInput' = NoInput
             /\ activeTurn' /\ activeKind' = "direct"
             /\ readOnly' = pendingInput.readOnly
             /\ turnModel' = pendingInput.model
  <2>1. /\ kind = pendingInput.origin /\ ro = pendingInput.readOnly
        /\ m = pendingInput.model
    BY <1>2 DEF TurnStarted, AdmissibleStart, TurnMayStart
  <2>2. kind \in {"direct", "timer"}
    BY <2>1 DEF TypeOK, InputTypes
  <2> QED BY <1>2, <2>1, <2>2 DEF TurnStarted, TurnMayStart
<1>3. TurnNext => \E kind \in {"direct", "queued", "goal", "timer"},
                     ro \in BOOLEAN, m \in Models : TurnStarted(kind, ro, m)
  BY DEF TurnNext, TurnCancelRequested, TurnRecovery, TurnCompleted,
     TurnCompletedSilent, TurnInterrupted, TurnFailed, ClearTurn,
     TurnFallbackStarted, TurnModelChanged, ModelSelectionChanged, RecoverableTurn, AnsweredTurn,
       FallbackMayStart, ModelMayChange
<1>4. ~ResponseNext
  BY DEF ResponseNext, ResponseStarted, OpenResponse, ResponseCapacityRejected,
     ResponseOutputCorrection, ResponseInterrupted, ResponseFailed,
     ResponseCompleted, OutsideVars, CorrectionFits, InterruptFits, CompletionFits
<1>5. ~ToolsNext
  BY DEF ToolsNext, ToolStarted, StartCall, ToolFinished, ProcessClosed, AsideVars, CallMayStart,
       ResultFits, CloseFits
<1>6. ~GoalsNext
  BY DEF GoalsNext, GoalStarted, GoalReplaced, GoalLockChanged, GoalPaused,
     GoalBlocked, GoalCompleted, GoalResumed, GoalCancelled, BesideGoals
<1>7. ~ContextNext
  BY DEF ContextNext, CompactionStarted, CompactionInterrupted,
     CompactionCompleted, IrcInput, SessionDeleteRequested, BesideContext, CompactionMayStart,
       SummaryFits
<1>8. CASE InputCancelled
  BY <1>8 DEF InputCancelled, SetQueue, NotInputVars, turnVars
<1> QED
  BY <1>1, <1>2, <1>3, <1>4, <1>5, <1>6, <1>7, <1>8 DEF Next

\* An accepted prompt becomes the next turn as it was accepted, or is cancelled.
THEOREM PromptHonoured == Spec => AcceptedPromptIsHonoured
<1>1. ASSUME SessionInv, [Next]_vars
      PROVE  [pendingInput # NoInput /\ pendingInput' # pendingInput =>
                /\ pendingInput' = NoInput
                /\ \/ ~activeTurn' /\ ~queueArmed'
                   \/ /\ activeTurn' /\ activeKind' = "direct"
                      /\ readOnly' = pendingInput.readOnly
                      /\ turnModel' = pendingInput.model]_vars
  BY <1>1, PromptStep DEF SessionInv
<1> QED BY <1>1, SessionSafe, PTL DEF Spec, AcceptedPromptIsHonoured

\* No event changes a goal that is finished.
LEMMA GoalStep ==
    ASSUME TypeOK, Next, NEW g \in Goals,
           goals[g].status \in {"completed", "cancelled"}
    PROVE  goals'[g] = goals[g]
<1>1. goals \in [Goals -> GoalRecord]
  BY DEF TypeOK
<1>2. ASSUME NEW h \in Goals, GoalUnfinished(h), NEW status \in GoalStates,
             SetStatus(h, status)
      PROVE  goals'[g] = goals[g]
  BY <1>1, <1>2 DEF GoalUnfinished, SetStatus
<1>3. ASSUME NEW h \in Goals, GoalStarted(h) PROVE goals'[g] = goals[g]
  BY <1>1, <1>3 DEF GoalStarted
<1>4. ASSUME NEW h \in Goals, NEW new \in Goals, NEW actor \in Actors,
             GoalReplaced(h, new, actor)
      PROVE  goals'[g] = goals[g]
  BY <1>1, <1>4 DEF GoalReplaced, GoalUnfinished
<1>5. ASSUME NEW h \in Goals, GoalLockChanged(h) PROVE goals'[g] = goals[g]
  BY <1>1, <1>5 DEF GoalLockChanged, GoalUnfinished
<1>6. GoalsNext => goals'[g] = goals[g]
  BY <1>2, <1>3, <1>4, <1>5 DEF GoalsNext, GoalPaused, GoalBlocked,
     GoalCompleted, GoalResumed, GoalCancelled, GoalUnfinished
<1>7. InputNext => UNCHANGED goals
  BY DEF InputNext, SteeringAdded, IrcReplyReminder, InputAdmitted,
     FutureTurnQueued, FutureTurnEdited, FutureTurnCancelled, FutureQueueState,
     InputReceived, InputCancelled, NotInputVars, SteeringFits, AdmissionFits, ReceiptFits
<1>8. TurnNext => UNCHANGED goals
  BY DEF TurnNext, TurnStarted, TurnCancelRequested, TurnRecovery, TurnCompleted,
     TurnCompletedSilent, TurnInterrupted, TurnFailed, ClearTurn,
     TurnFallbackStarted, TurnModelChanged, ModelSelectionChanged, TurnMayStart, RecoverableTurn,
       AnsweredTurn, FallbackMayStart, ModelMayChange
<1>9. ResponseNext => UNCHANGED goals
  BY DEF ResponseNext, ResponseStarted, OpenResponse, ResponseCapacityRejected,
     ResponseOutputCorrection, ResponseInterrupted, ResponseFailed,
     ResponseCompleted, OutsideVars, CorrectionFits, InterruptFits, CompletionFits
<1>10. ToolsNext => UNCHANGED goals
  BY DEF ToolsNext, ToolStarted, StartCall, ToolFinished, ProcessClosed, AsideVars, CallMayStart,
       ResultFits, CloseFits
<1>11. ContextNext => UNCHANGED goals
  BY DEF ContextNext, CompactionStarted, CompactionInterrupted,
     CompactionCompleted, IrcInput, SessionDeleteRequested, BesideContext, CompactionMayStart,
       SummaryFits
<1> QED
  BY <1>6, <1>7, <1>8, <1>9, <1>10, <1>11 DEF Next

\* A finished goal stays finished under its identity.
THEOREM GoalsStayFinished == Spec => FinishedGoalStaysFinished
<1>1. ASSUME SessionInv, [Next]_vars
      PROVE  [\A g \in Goals : goals[g].status \in {"completed", "cancelled"} =>
                goals'[g] = goals[g]]_vars
  BY <1>1, GoalStep DEF SessionInv
<1> QED BY <1>1, SessionSafe, PTL DEF Spec, FinishedGoalStaysFinished
-----------------------------------------------------------------------------
\* What a complete response still owes: one that asked for calls is forgotten as
\* soon as all have results, and an answer has no calls.
OutcomeFitsCalls ==
    responseComplete =>
        /\ outcome = "calls" => ~AllFinished
        /\ outcome \in {"final", "refusal", "nonproductive"} => ~HasPending

\* A write_stdin that started names a command.
StartedWriterHasCommand ==
    \A c \in Calls : Running(c) /\ pendingCalls[c].tool = "write_stdin" =>
        pendingCalls[c].handle \in Calls

OutcomeInv == OutcomeFitsCalls /\ StartedWriterHasCommand

\* It depends on nothing but the response and its calls.
LEMMA SameOutcome == OutcomeInv /\ UNCHANGED <<responseComplete, outcome, pendingCalls>> => OutcomeInv'
BY DEF OutcomeInv, OutcomeFitsCalls, StartedWriterHasCommand, AllFinished, Unfinished,
   Running, HasPending, Pending

\* It holds when there is no call left, or none but proposed ones.
LEMMA NoCallsOutcome ==
    ASSUME ~responseComplete', pendingCalls' = [c \in Calls |-> NoCall]
           \/ (UNCHANGED pendingCalls /\ OutcomeInv)
    PROVE  OutcomeInv'
BY DEF OutcomeInv, OutcomeFitsCalls, StartedWriterHasCommand, Running, NoCall

\* Every event keeps it.
LEMMA OutcomeStep == SessionInv /\ OutcomeInv /\ [Next]_vars => OutcomeInv'
<1> SUFFICES ASSUME SessionInv, OutcomeInv, [Next]_vars PROVE OutcomeInv'
  OBVIOUS
<1> USE DEF callVars, modelVars, responseVars, attemptVars, turnVars
<1>1. CASE UNCHANGED vars
  BY <1>1, SameOutcome DEF vars
<1>2. CASE InputNext \/ GoalsNext \/ ContextNext
  BY <1>2, OutsideEvents, SameOutcome
<1>3. CASE TurnNext
  BY <1>3, SameOutcome, NoCallsOutcome
  DEF TurnNext, TurnStarted, TurnCancelRequested, TurnRecovery, TurnCompleted,
      TurnCompletedSilent, TurnInterrupted, TurnFailed, ClearTurn, TurnFallbackStarted,
      TurnModelChanged, ModelSelectionChanged, ClearResponse
<1>4. ASSUME NEW graph \in ProposedCalls, NEW end \in Outcomes, ResponseCompleted(graph, end)
      PROVE  OutcomeInv'
  <2>1. \A c \in Calls : /\ pendingCalls'[c].state \in {"none", "proposed"}
                         /\ pendingCalls'[c].state = "none" <=> graph[c] = NoCall
    BY <1>4 DEF ResponseCompleted, ProposedCalls, NoCall, ExecCall, WriteCall, PlainCall
  <2>2. outcome' = end /\ end \in GraphOutcomes(\E c \in Calls : graph[c] # NoCall)
    BY <1>4 DEF ResponseCompleted, CompletionFits
  <2>3. CASE \E c \in Calls : graph[c] # NoCall
    <3>1. outcome' \in {"calls", "conflict"}
      BY <2>2, <2>3 DEF GraphOutcomes
    <3>2. ~AllFinished'
      BY <2>1, <2>3 DEF AllFinished, Unfinished
    <3> QED BY <2>1, <3>1, <3>2 DEF OutcomeInv, OutcomeFitsCalls, StartedWriterHasCommand, Running
  <2>4. CASE ~\E c \in Calls : graph[c] # NoCall
    <3>1. outcome' # "calls"
      BY <2>2, <2>4 DEF GraphOutcomes
    <3>2. ~HasPending'
      BY <2>1, <2>4 DEF HasPending, Pending
    <3> QED BY <2>1, <3>1, <3>2 DEF OutcomeInv, OutcomeFitsCalls, StartedWriterHasCommand, Running
  <2> QED BY <2>3, <2>4
<1>5. CASE ResponseNext
  BY <1>4, <1>5, NoCallsOutcome
  DEF ResponseNext, ResponseStarted, OpenResponse, ResponseCapacityRejected,
      ResponseOutputCorrection, ResponseInterrupted, ResponseFailed, ClearResponse
<1>6. ASSUME NEW c \in Calls, ToolStarted(c) PROVE OutcomeInv'
  <2>1. /\ StartableCall(c)
        /\ pendingCalls' = [pendingCalls EXCEPT ![c] = InState(@, "started")]
        /\ UNCHANGED <<responseComplete, outcome>>
    BY <1>6 DEF ToolStarted, CallMayStart, StartCall, AsideVars
  <2>2. /\ \A d \in Calls : /\ pendingCalls'[d].tool = pendingCalls[d].tool
                            /\ pendingCalls'[d].handle = pendingCalls[d].handle
        /\ \A d \in Calls \ {c} : pendingCalls'[d].state = pendingCalls[d].state
        /\ pendingCalls'[c].state = "started"
    BY <2>1, OneCallMoves DEF SessionInv, CallStates
  <2>3. outcome = "calls" /\ (pendingCalls[c].tool = "write_stdin" => pendingCalls[c].handle \in Calls)
    BY <2>1 DEF StartableCall, ProcessAdmits, SessionInv, TypeOK
  <2>4. ~AllFinished'
    BY <2>2 DEF AllFinished, Unfinished
  <2> QED BY <2>1, <2>2, <2>3, <2>4 DEF OutcomeInv, OutcomeFitsCalls, StartedWriterHasCommand, Running
<1>7. ASSUME NEW c \in Calls, NEW status \in Statuses, ToolFinished(c, status)
      PROVE  OutcomeInv'
  <2>1. Unfinished(c) /\ responseComplete /\ FinishCall(c) /\ UNCHANGED outcome
    BY <1>7 DEF ToolFinished, ResultFits, AsideVars
  <2>2. CASE ClearResponse
    BY <2>2, NoCallsOutcome DEF ClearResponse
  <2>3. ASSUME NEW state \in {"finished", "refused"},
               pendingCalls' = [pendingCalls EXCEPT ![c] = InState(@, state)],
               UNCHANGED responseComplete, outcome = "calls" => \E d \in Calls \ {c} : Unfinished(d)
        PROVE  OutcomeInv'
    <3>1. /\ \A d \in Calls : /\ pendingCalls'[d].tool = pendingCalls[d].tool
                              /\ pendingCalls'[d].handle = pendingCalls[d].handle
          /\ \A d \in Calls \ {c} : pendingCalls'[d].state = pendingCalls[d].state
          /\ pendingCalls'[c].state = state
      BY <2>3, OneCallMoves DEF SessionInv, CallStates
    <3>2. outcome = "calls" => ~AllFinished'
      BY <2>3, <3>1 DEF AllFinished, Unfinished
    <3>3. outcome \notin {"final", "refusal", "nonproductive"}
      BY <2>1 DEF OutcomeInv, OutcomeFitsCalls, HasPending, Pending, Unfinished
    <3> QED BY <2>1, <3>1, <3>2, <3>3 DEF OutcomeInv, OutcomeFitsCalls, StartedWriterHasCommand, Running
  <2> QED BY <2>1, <2>2, <2>3 DEF FinishCall
<1>8. ASSUME NEW h \in Calls, ProcessClosed(h) PROVE OutcomeInv'
  BY <1>8, SameOutcome DEF ProcessClosed, AsideVars
<1> QED
  BY <1>1, <1>2, <1>3, <1>5, <1>6, <1>7, <1>8 DEF Next, ToolsNext

\* A response is settled as its outcome says: one that asked for calls is forgotten
\* with the last of their results, an answer never has any, and a write to a
\* command that was started names one (FinishCall, GraphOutcomes, ProcessAdmits).
THEOREM OutcomesSettle == Spec => []OutcomeInv
<1>1. Init => OutcomeInv
  BY DEF Init, OutcomeInv, OutcomeFitsCalls, StartedWriterHasCommand, Running, NoCall
<1> QED BY <1>1, SessionSafe, OutcomeStep, PTL DEF Spec
-----------------------------------------------------------------------------
\* The commands a session knows never exceed the limit of its configuration: one is
\* started only while there is room (max_parallel_commands in apply_event), and
\* nothing else adds one.
CommandsWithinLimit == IsFiniteSet(processes) /\ Cardinality(processes) <= MaxParallel

\* Every event keeps it.
LEMMA LimitStep == CommandsWithinLimit /\ [Next]_vars => CommandsWithinLimit'
<1> SUFFICES ASSUME CommandsWithinLimit, [Next]_vars PROVE CommandsWithinLimit'
  OBVIOUS
<1>1. Cardinality(processes) \in Nat /\ MaxParallel \in Nat
  BY FS_CardinalityType, ParallelAssumption DEF CommandsWithinLimit
<1>2. ASSUME NEW c \in Calls, ToolStarted(c) PROVE CommandsWithinLimit'
  <2>1. processes' = processes \cup OwnedProcess(pendingCalls[c])
    BY <1>2 DEF ToolStarted, StartCall
  <2>2. CASE pendingCalls[c].tool = "exec_command"
    <3>1. Cardinality(processes) < MaxParallel
      BY <1>2, <2>2 DEF ToolStarted, CallMayStart, StartableCall, ProcessAdmits
    <3>2. /\ IsFiniteSet(processes \cup {pendingCalls[c].handle})
          /\ Cardinality(processes \cup {pendingCalls[c].handle}) <= Cardinality(processes) + 1
      BY <1>1, FS_AddElement DEF CommandsWithinLimit
    <3>3. processes' = processes \cup {pendingCalls[c].handle}
      BY <2>1, <2>2 DEF OwnedProcess
    <3>4. Cardinality(processes') \in Nat
      BY <3>2, <3>3, FS_CardinalityType
    <3> QED BY <1>1, <3>1, <3>2, <3>3, <3>4 DEF CommandsWithinLimit
  <2>3. CASE pendingCalls[c].tool # "exec_command"
    <3>1. processes' = processes
      BY <2>1, <2>3 DEF OwnedProcess
    <3> QED BY <3>1 DEF CommandsWithinLimit
  <2> QED BY <2>2, <2>3
<1>3. ASSUME processes' \subseteq processes PROVE CommandsWithinLimit'
  <2>1. IsFiniteSet(processes') /\ Cardinality(processes') <= Cardinality(processes)
    BY <1>3, FS_Subset DEF CommandsWithinLimit
  <2>2. Cardinality(processes') \in Nat
    BY <2>1, FS_CardinalityType
  <2> QED BY <1>1, <2>1, <2>2 DEF CommandsWithinLimit
<1>4. CASE InputNext \/ GoalsNext \/ ContextNext \/ UNCHANGED vars
  BY <1>3, <1>4, OutsideEvents DEF callVars, vars
<1>5. CASE TurnNext
  BY <1>3, <1>5 DEF TurnNext, TurnStarted, TurnCancelRequested, TurnRecovery, TurnCompleted,
     TurnCompletedSilent, TurnInterrupted, TurnFailed, ClearTurn, TurnFallbackStarted,
     TurnModelChanged, ModelSelectionChanged
<1>6. CASE ResponseNext
  BY <1>3, <1>6 DEF ResponseNext, ResponseStarted, OpenResponse, ResponseCapacityRejected,
     ResponseOutputCorrection, ResponseInterrupted, ResponseFailed, ResponseCompleted, OutsideVars
<1>7. CASE ToolsNext
  BY <1>2, <1>3, <1>7 DEF ToolsNext, ToolFinished, ProcessClosed
<1> QED
  BY <1>4, <1>5, <1>6, <1>7 DEF Next

\* At most max_parallel_commands commands are known at any time, in every session.
THEOREM CommandsLimited == Spec => []CommandsWithinLimit
<1>1. Init => CommandsWithinLimit
  BY FS_EmptySet, ParallelAssumption DEF Init, CommandsWithinLimit
<1> QED BY <1>1, LimitStep, PTL DEF Spec
=============================================================================
