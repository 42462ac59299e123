----------------------------- MODULE TurnDriver -----------------------------
(***************************************************************************)
(* The turn driver with everything it interleaves with: the operator, the  *)
(* managed commands, the provider, and restarts of the process.  Each      *)
(* step commits at most one event of Session, through CommitOr.            *)
(***************************************************************************)
EXTENDS TurnLoop

allVars == <<vars, driverVars>>

DriverInit == Init /\ HostInit

\* What the driver does by itself
DriverStep == CycleNext \/ CallsNext \/ EndNext \/ LoopNext

\* A command that was told to end
KilledEnds == \E h \in Calls : command[h] = "closing" /\ CommandEnds(h)

\* The bounds are used up: the process has ended, a goal that was resumed would
\* start one more turn, or only the operator or a command that may never end could
\* go on.
Stopped ==
    /\ \/ pc = "closed" /\ budget.crashes = 0
       \/ pc = "begin" /\ ~activeTurn /\ turnCount = MaxTurns
       \/ pc \in {"backoff", "waiting"} /\ budget.edges = 0
    /\ UNCHANGED allVars

DriverNext ==
    \/ DriverStep
    \/ \E h \in Calls : CommandEnds(h) \/ CommandOverdue(h)
    \/ OperatorNext
    \/ OperatorAtPrompt
    \/ Crash
    \/ Restart
    \/ Stopped

\* The driver runs whenever it can, and a command that is killed ends; nothing is
\* assumed of the operator, of other commands, or of what the provider answers.
Fairness == WF_allVars(DriverStep) /\ WF_allVars(KilledEnds)

DriverSpec == DriverInit /\ [][DriverNext]_allVars /\ Fairness
-----------------------------------------------------------------------------
\* Where the driver can be: at a poll of the terminal, or between two steps.
Places == PumpPoints \cup
    {"idle", "held", "chain", "begin", "cycle", "top", "admit", "interrupting",
     "failing", "fallback", "settle", "handoff", "closing", "returned",
     "reconcile", "finish", "parting", "leave", "pause", "cancelling", "closed", "recover"}

\* Types of what the driver keeps.
DriverTypeOK == HostTypes /\ pc \in Places

\* The reducer refuses nothing the driver commits, in whatever order input,
\* commands and failures come, until it refused to close a command or a host could
\* not write (commit_event of app.c; store.c answers EPROTO to what does not fit).
Untroubled == budget.faults = MaxFaults
EventsAreAccepted == Untroubled /\ refused # {} => "process_closed" \in refused

\* A command that runs, or whose result waits, is always one the session knows, so
\* no turn ends with a command of its own still running (close_active_processes).
CommandsAreOwned == \A h \in Calls : command[h] # "none" => h \in processes

\* What a doc and a test say of closing a command: its result is terminal, and so
\* the reducer takes it (design/goals.md:170-172).
ClosesAreAccepted == "process_closed" \notin refused

\* What a comment says of a session that is held after a failure: automatic work is
\* held so that it "cannot spin", and explicit work retries (app.c:7929-7931); so a
\* turn begun again with its response still open gets that response ended, or stops.
HeldWorkDoesNotSpin ==
    (pc = "begin" /\ responseOpen) ~> (~responseOpen \/ pc \in {"idle", "held", "closed"})

\* Text accepted while the provider still answered keeps its turn going: no turn
\* completes over it, unless the model deferred it (app.c, "ordinary late
\* steering keeps this turn alive").
LateSteeringKeepsTurn ==
    [][pc = "settle" /\ activeTurn /\ ~activeTurn' /\ ~kept.deferred => ~SteeringPending']_allVars

\* Once the request to cancel a turn is durable, no request of that turn goes to
\* the provider and no call of it is started.
CancelledTurnDoesNoMore ==
    [][kept.cancel /\ refused = {} /\ Untroubled =>
          /\ responseOpen' => responseOpen
          /\ \A c \in Calls : pendingCalls'[c].state = "started" => Running(c)]_allVars

\* A turn that failed is begun again, with nobody asking for it, only within the
\* budget of retries, also when the process died between two attempts; a goal has
\* no such budget.
UnattendedRetriesAreBounded ==
    [][pc' = "begin" /\ pc \in {"reconcile", "chain"} /\ activeTurn =>
          GoalActive \/ retry'.attempts <= MaxRetries]_allVars

\* The operator's Ctrl-C ends the turn, whatever the driver was doing.
InterruptEndsTurn ==
    (edge.interrupt /\ ~edge.closed /\ activeTurn) ~> (~activeTurn \/ pc = "closed")

\* A turn that was being cancelled when the process died is ended by the next one.
CancelSurvivesRestart ==
    (pc = "recover" /\ activeTurn /\ kept.cancel) ~> (~activeTurn \/ pc = "closed")

\* Without an active goal a turn comes to rest: its retries, corrections and
\* rebuilt requests end, and the prompt returns or waits for commands or for a
\* clarification.
TurnComesToRest ==
    pc = "begin" ~> \/ pc \in {"idle", "held", "closed", "waiting"}
                    \/ GoalActive
                    \/ pc = "backoff" /\ retry.policy
=============================================================================
