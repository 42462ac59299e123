------------------------------- MODULE TurnEnd -------------------------------
(***************************************************************************)
(* How a turn is abandoned: fail_turn and interrupt_turn, the closing of   *)
(* the commands it still owns, and the results owed for its calls.         *)
(***************************************************************************)
EXTENDS TurnInput

\* turn_retry_available; automatic retry is on.
RetryAvailable ==
    /\ ~retry.policy /\ ~edge.interrupt /\ ~edge.closed
    /\ GoalActive \/ (GoalView = retry.goal /\ retry.attempts < retry.limit)

\* snag_app_close_active_processes: everything is told to end first; event ends
\* the turn once the commands are settled.
BeginClosing(event, back, ok, bad) ==
    /\ CloseAll
    /\ pc' = "closing"
    /\ closing' = [target |-> NoId, cancelled |-> FALSE, event |-> event,
                   back |-> back, ok |-> ok, bad |-> bad]
    /\ UNCHANGED <<vars, rc, hostVars, late, batch, refused, budget>>

\* fail_turn: the turn is retained for a retry, or for the clarification a policy
\* stop waits for while commands run; otherwise it ends.
FailTurn(back, ok, bad) ==
    IF RetryAvailable \/ (retry.policy /\ processes # {})
    THEN CommitOr("turn_recovery", RecoverableTurn, TurnRecovery,
                  /\ kept' = [kept EXCEPT !.attempts = retry.attempts + 1]
                  /\ retry' = [retry EXCEPT !.pending = ~retry.policy]
                  /\ pc' = back /\ rc' = ok
                  /\ UNCHANGED <<edge, workVars>>, back, bad)
    ELSE BeginClosing("turn_failed", back, ok, bad)

\* finish_user_interrupt, and every other use of interrupt_turn
InterruptTurn(back, ok, bad) == BeginClosing("turn_interrupted", back, ok, bad)

\* One event of the closing: a refusal makes it return -1.  A Ctrl-C at the prompt
\* then holds the session, and a recovery does not open it.
CommitClosing(name, fits, E, then) ==
    CommitOr(name, fits, E, then,
             IF closing.back \notin {"pause", "chain"} THEN closing.back
             ELSE IF closing.ok = "done" THEN "closed" ELSE "held",
             closing.bad)

\* A command this process does not manage is closed with outcome_unknown.
CloseLost(h) ==
    /\ pc = "closing"
    /\ h \in processes
    /\ command[h] = "none"
    /\ CommitClosing("process_closed", CloseFits(h), ProcessClosed(h),
                     Goto("closing") /\ UNCHANGED <<hostVars, workVars>>)

CloseNext(h) ==
    /\ pc = "closing"
    /\ h \in processes
    /\ command[h] # "none"
    /\ Goto("closeWait")
    /\ closing' = [closing EXCEPT !.target = h, !.cancelled = FALSE]
    /\ UNCHANGED <<vars, hostVars, command, late, batch, refused, budget>>

CloseCollects ==
    /\ pc = "closeWait"
    /\ Ready(closing.target)
    /\ CommitClosing("process_closed", CloseFits(closing.target), ProcessClosed(closing.target),
                     /\ Collected(closing.target)
                     /\ Goto("closing")
                     /\ UNCHANGED <<hostVars, batch, closing>>)

\* wait_process: Ctrl-C, or text that was refused, makes it wait to the end.
CloseCancels ==
    /\ pc = "closeWait"
    /\ Live(closing.target)
    /\ edge.interrupt
    /\ ~closing.cancelled
    /\ closing' = [closing EXCEPT !.cancelled = TRUE]
    /\ UNCHANGED <<vars, pc, rc, hostVars, command, late, batch, refused, budget>>

\* The reducer takes only a result that says the command is over.
ClosedFits(h, status) == status # "running" /\ CloseFits(h)
ClosedWith(h, status) == status # "running" /\ ProcessClosed(h)

\* wait_process also returns for steering, for a control and for a handoff that
\* was never collected; the command then still runs and the result says so.
CloseGivesUp ==
    /\ pc = "closeWait"
    /\ Live(closing.target)
    /\ ~edge.interrupt
    /\ ~closing.cancelled
    /\ PumpStops \/ closing.target \in late
    /\ CommitClosing("process_closed", ClosedFits(closing.target, "running"),
                     ClosedWith(closing.target, "running"),
                     Goto("closing") /\ UNCHANGED <<hostVars, workVars>>)

\* MUTANT of EndEvent: a Ctrl-C keeps the turn like an exit.
EndEventKeepingTurn ==
    IF closing.event = "turn_failed" THEN TurnFailed
    ELSE IF closing.event = "turn_recovery" \/ edge.interrupt THEN TurnRecovery
    ELSE TurnInterrupted

\* The event that ends the turn: a session that is being left keeps it instead,
\* unless its cancellation is durable already.
EndEvent ==
    IF closing.event = "turn_failed" THEN TurnFailed
    ELSE IF closing.event = "turn_recovery" \/ (edge.closed /\ ~kept.cancel) THEN TurnRecovery
    ELSE TurnInterrupted

\* What that event, whichever it is, is refused without.
EndFits ==
    IF closing.event = "turn_recovery"
       \/ (closing.event = "turn_interrupted" /\ edge.closed /\ ~kept.cancel)
    THEN RecoverableTurn ELSE AbandonableTurn

CloseEnd ==
    /\ pc = "closing"
    /\ processes = {}
    /\ CommitClosing(closing.event, EndFits, EndEvent,
                     /\ pc' = closing.back /\ rc' = closing.ok
                     /\ kept' = IF activeTurn' THEN kept
                                ELSE [NoneKept EXCEPT !.failed = closing.event = "turn_failed"]
                     /\ UNCHANGED <<edge, retry, workVars>>)

\* MUTANT of Owed: a call that had started is taken for one that had not.
OwedNotRun(c, collecting) == {"refused"}

\* MUTANT of Owed: a recovery takes every command for ended.
OwedEnded(c, collecting) ==
    IF ~Running(c) THEN {"refused"} ELSE {IF collecting THEN "ended" ELSE "unknown"}

\* terminalize_pending: the result recorded for an unfinished call.  During a
\* recovery in the same process (collecting) a command is asked for its own.
Owed(c, collecting) ==
    IF ~Running(c) THEN {"refused"}
    ELSE IF collecting /\ pendingCalls[c].handle # NoId
         THEN {IF Ready(pendingCalls[c].handle) THEN "ended" ELSE "running"}
         ELSE {"unknown"}

Terminalize(c, collecting, otherwise) ==
    /\ Unfinished(c)
    /\ \E status \in Owed(c, collecting) :
          CommitOr("tool_finished", ResultFits(c, status), ToolFinished(c, status),
                   /\ IF collecting THEN Collected(pendingCalls[c].handle)
                      ELSE UNCHANGED <<command, late>>
                   /\ UNCHANGED <<pc, rc, hostVars, batch, closing>>,
                   otherwise, "broken")

EndNext ==
    \/ \E h \in Calls : CloseLost(h) \/ CloseNext(h)
    \/ CloseCollects
    \/ CloseCancels
    \/ CloseGivesUp
    \/ CloseEnd
=============================================================================
