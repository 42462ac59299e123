---------------------------- MODULE SessionTools ----------------------------
(***************************************************************************)
(* Events of the calls a complete response proposed, and of the commands   *)
(* they leave running (write_stdin and process_closed act on those).       *)
(***************************************************************************)
EXTENDS SessionState

CONSTANT MaxParallel   \* max_parallel_commands of the turn's configuration

ASSUME ParallelAssumption == MaxParallel \in Nat \ {0}

AsideVars == <<turnVars, modelVars, attemptVars, inputVars, queueVars,
               compactVars, ircVars, goals, deleteRequested>>

\* MUTANT of ProcessAdmits: a write_stdin does not look at the other calls.
ProcessAdmitsAnyWriter(call) ==
    /\ call.tool = "exec_command" =>
          Cardinality(processes) < MaxParallel /\ call.handle \notin processes
    /\ call.tool = "write_stdin" => call.handle \in processes

\* An exec_command adds the process it owns; a write_stdin needs a live process
\* on which no call of this response has started.
ProcessAdmits(call) ==
    /\ call.tool = "exec_command" =>
          Cardinality(processes) < MaxParallel /\ call.handle \notin processes
    /\ call.tool = "write_stdin" =>
          /\ call.handle \in processes
          /\ \A d \in Calls : pendingCalls[d].state \in {"started", "finished"} =>
                pendingCalls[d].handle # call.handle

\* The state a started call leaves, when it adds these processes.
StartCall(c, added) ==
    /\ pendingCalls' = [pendingCalls EXCEPT ![c] = InState(@, "started")]
    /\ processes' = processes \cup added
    /\ UNCHANGED <<responseOpen, responseComplete, terminal, handoff,
                   responseModel, AsideVars>>

StartableCall(c) ==
    /\ activeTurn
    /\ responseComplete
    /\ outcome = "calls"
    /\ pendingCalls[c].state = "proposed"
    /\ ProcessAdmits(pendingCalls[c])

OwnedProcess(call) == IF call.tool = "exec_command" THEN {call.handle} ELSE {}

\* MUTANT of ToolStarted: the permissions of a read-only turn are not checked.
ToolStartedUnrestricted(c) ==
    /\ StartableCall(c)
    /\ StartCall(c, OwnedProcess(pendingCalls[c]))

\* MUTANT of ToolStarted: every tool is taken to own a process.
ToolStartedAlwaysOwning(c) ==
    /\ StartableCall(c)
    /\ readOnly => ReadOnlyTool(pendingCalls[c].tool)
    /\ StartCall(c, {pendingCalls[c].handle})

CallMayStart(c) == StartableCall(c) /\ (readOnly => ReadOnlyTool(pendingCalls[c].tool))

ToolStarted(c) ==
    /\ CallMayStart(c)
    /\ StartCall(c, OwnedProcess(pendingCalls[c]))

\* Result statuses by what the reducer does with them: "refused" is not_run or
\* denied, "running" and "unknown" keep the process, "ended" is every status
\* that says the command or tool is over.
Statuses == {"refused", "running", "unknown", "ended"}

StatusAdmits(call, status) ==
    IF call.state = "proposed" THEN status = "refused"
    ELSE IF call.handle # NoId
         THEN status # "refused" /\ call.handle \in processes
         ELSE status # "running"

\* MUTANT of FinishCall: any result closes the response.
FinishCallClosing(c) ==
    IF outcome = "calls" THEN ClearResponse
    ELSE /\ pendingCalls' = [pendingCalls EXCEPT ![c] = InState(@, "finished")]
         /\ UNCHANGED <<responseOpen, responseComplete, terminal, handoff,
                        responseModel>>

\* The last result of a response that ended in calls closes the response.
FinishCall(c) ==
    LET state == IF Running(c) THEN "finished" ELSE "refused"
        last  == \A d \in Calls \ {c} : ~Unfinished(d)
    IN  IF last /\ outcome = "calls"
        THEN ClearResponse
        ELSE /\ pendingCalls' = [pendingCalls EXCEPT ![c] = InState(@, state)]
             /\ UNCHANGED <<responseOpen, responseComplete, terminal, handoff,
                            responseModel>>

ResultFits(c, status) ==
    activeTurn /\ responseComplete /\ Unfinished(c) /\ StatusAdmits(pendingCalls[c], status)

ToolFinished(c, status) ==
    /\ ResultFits(c, status)
    /\ processes' = IF Running(c) /\ status = "ended" THEN processes \ {pendingCalls[c].handle}
                    ELSE processes
    /\ FinishCall(c)
    /\ UNCHANGED AsideVars

\* MUTANT of ProcessClosed: it does not wait for the calls of the response.
ProcessClosedEarly(h) ==
    /\ activeTurn
    /\ ~responseOpen
    /\ h \in processes
    /\ processes' = processes \ {h}
    /\ UNCHANGED <<responseVars, AsideVars>>

CloseFits(h) ==
    activeTurn /\ ~responseOpen /\ (responseComplete => AllFinished) /\ h \in processes

ProcessClosed(h) ==
    /\ CloseFits(h)
    /\ processes' = processes \ {h}
    /\ UNCHANGED <<responseVars, AsideVars>>

ToolsNext ==
    \/ \E c \in Calls : ToolStarted(c)
    \/ \E c \in Calls, status \in Statuses : ToolFinished(c, status)
    \/ \E h \in Calls : ProcessClosed(h)
=============================================================================
