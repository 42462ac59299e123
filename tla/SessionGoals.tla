---------------------------- MODULE SessionGoals ----------------------------
(***************************************************************************)
(* Goal events.  apply_event loads the named goal out of the directory,    *)
(* lets the reducer change it and files it again, so an event is refused   *)
(* when it names an unknown goal or starts one under a used identity.      *)
(* Actor "model" is a tool call of the model, "user" the operator.         *)
(***************************************************************************)
EXTENDS SessionState

BesideGoals == <<turnVars, modelVars, responseVars, attemptVars, processes,
                 inputVars, compactVars, ircVars, deleteRequested>>

Actors == {"user", "model"}

\* MUTANT of GoalUnfinished: every goal that exists counts.
GoalUnfinishedAnyStatus(g) == goals[g].status # "none"

\* snag_goal_unfinished
GoalUnfinished(g) == goals[g].status \in {"active", "paused", "blocked"}

SetStatus(g, status) == goals' = [goals EXCEPT ![g].status = status]

GoalStarted(g) ==
    /\ goals[g].status = "none"
    /\ goals' = [goals EXCEPT ![g] = [status |-> "active", locked |-> FALSE]]
    /\ SetQueue(queue, TRUE)
    /\ UNCHANGED BesideGoals

\* The replacement takes the status of the goal it replaces, without its lock.
GoalReplaced(g, new, actor) ==
    /\ GoalUnfinished(g)
    /\ goals[new].status = "none"
    /\ actor = "model" => ~goals[g].locked
    /\ goals' = [goals EXCEPT ![g].status = "cancelled",
                              ![new] = [status |-> goals[g].status, locked |-> FALSE]]
    /\ UNCHANGED <<queueVars, BesideGoals>>

GoalLockChanged(g) ==
    /\ GoalUnfinished(g)
    /\ goals' = [goals EXCEPT ![g].locked = ~@]
    /\ UNCHANGED <<queueVars, BesideGoals>>

GoalPaused(g) ==
    /\ goals[g].status \in {"active", "blocked"}
    /\ SetStatus(g, "paused")
    /\ UNCHANGED <<queueVars, BesideGoals>>

\* Only the model blocks a goal, and not one the operator locked.
GoalBlocked(g) ==
    /\ goals[g].status = "active"
    /\ ~goals[g].locked
    /\ SetStatus(g, "blocked")
    /\ UNCHANGED <<queueVars, BesideGoals>>

\* The model completes only an active goal, with every command settled.
GoalCompleted(g, actor) ==
    /\ GoalUnfinished(g)
    /\ actor = "model" => goals[g].status = "active" /\ processes = {}
    /\ SetStatus(g, "completed")
    /\ UNCHANGED <<queueVars, BesideGoals>>

GoalResumed(g) ==
    /\ goals[g].status \in {"paused", "blocked"}
    /\ SetStatus(g, "active")
    /\ SetQueue(queue, TRUE)
    /\ UNCHANGED BesideGoals

GoalCancelled(g) ==
    /\ GoalUnfinished(g)
    /\ SetStatus(g, "cancelled")
    /\ UNCHANGED <<queueVars, BesideGoals>>

GoalsNext ==
    \/ \E g \in Goals : GoalStarted(g)
    \/ \E g, new \in Goals, actor \in Actors : GoalReplaced(g, new, actor)
    \/ \E g \in Goals : GoalLockChanged(g)
    \/ \E g \in Goals : GoalPaused(g)
    \/ \E g \in Goals : GoalBlocked(g)
    \/ \E g \in Goals, actor \in Actors : GoalCompleted(g, actor)
    \/ \E g \in Goals : GoalResumed(g)
    \/ \E g \in Goals : GoalCancelled(g)
=============================================================================
