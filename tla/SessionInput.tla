---------------------------- MODULE SessionInput ----------------------------
(***************************************************************************)
(* Events that carry user input into a session: steering of the running    *)
(* turn, the queue of future turns, and the one direct or timer prompt     *)
(* that has been accepted and waits for its turn.                          *)
(***************************************************************************)
EXTENDS SessionState

NotInputVars == <<turnVars, modelVars, responseVars, attemptVars, processes,
                  compactVars, ircVars, goals, deleteRequested>>

\* add_pending_steering: the new input is pending, with no model context yet.
AddSteering(i) == steering' = [steering EXCEPT ![i] = "pending"]

\* current_turn and a terminal that still admits input
SteerableTurn ==
    /\ activeTurn
    /\ terminal \notin {"failed", "interrupted"}

SteeringFits(i) == SteerableTurn /\ ~UserIdPending(i)

SteeringAdded(i) ==
    /\ SteeringFits(i)
    /\ AddSteering(i)
    /\ UNCHANGED <<pendingInput, queueVars, NotInputVars>>

\* The reminder that a room reply is still owed: once in a turn, after a
\* response that ended it, and never on top of steering that is pending.
IrcReplyReminder(i) ==
    /\ SteerableTurn
    /\ responseComplete
    /\ outcome \in {"nonproductive", "final", "refusal"}
    /\ ~reminded
    /\ ~SteeringPending
    /\ ~UserIdPending(i)
    /\ AddSteering(i)
    /\ reminded' = TRUE
    /\ UNCHANGED <<activeTurn, turnCount, activeKind, readOnly, inputAdmitted,
                   corrected, modelVars, responseVars, attemptVars, processes,
                   pendingInput, queueVars, compactVars, ircVars, goals,
                   deleteRequested>>

\* input_admitted: the first one of a turn admits the turn's own prompt and may
\* name no steering; every one marks the steering it names, which must be pending.
AdmissionFits(ids) ==
    /\ activeTurn
    /\ inputAdmitted => ids # {}
    /\ \A i \in ids : steering[i] = "pending"

InputAdmitted(ids) ==
    /\ AdmissionFits(ids)
    /\ inputAdmitted' = TRUE
    /\ steering' = [i \in Inputs |-> IF i \in ids THEN "admitted" ELSE steering[i]]
    /\ UNCHANGED <<activeTurn, turnCount, activeKind, readOnly, reminded,
                   corrected, modelVars, responseVars, attemptVars, processes,
                   pendingInput, queueVars, compactVars, ircVars, goals,
                   deleteRequested>>

\* An event may carry its own arming of the queue, or leave it as it is.
ArmChoices == {"keep", "arm", "disarm"}
Armed(choice) == IF choice = "keep" THEN queueArmed ELSE choice = "arm"

FutureTurnQueued(i, ro, choice) ==
    /\ ~UserIdPending(i)
    /\ SetQueue(Append(queue, [id |-> i, readOnly |-> ro]), Armed(choice))
    /\ UNCHANGED <<inputVars, NotInputVars>>

\* An edit keeps the entry's place in the queue.
FutureTurnEdited(k, ro, choice) ==
    /\ k \in 1..Len(queue)
    /\ SetQueue([queue EXCEPT ![k] = [id |-> @.id, readOnly |-> ro]], Armed(choice))
    /\ UNCHANGED <<inputVars, NotInputVars>>

\* The sequences that hold the entries of q at these positions, in their order.
EntriesAt(q, positions) ==
    {[k \in DOMAIN at |-> q[at[k]]] :
        at \in {f \in UNION {[1..n -> positions] : n \in 0..Len(q)} :
                  /\ \A p \in positions : \E k \in DOMAIN f : f[k] = p
                  /\ \A j, k \in DOMAIN f : j < k => f[j] < f[k]}}

\* The cancelled ids are named in queue order, so they are a set of entries; the
\* others close ranks.
FutureTurnCancelled(ids) ==
    /\ ids # {}
    /\ ids \subseteq {queue[k].id : k \in 1..Len(queue)}
    /\ \E kept \in EntriesAt(queue, {k \in 1..Len(queue) : queue[k].id \notin ids}) :
          SetQueue(kept, queueArmed)
    /\ UNCHANGED <<inputVars, NotInputVars>>

FutureQueueState(armed) ==
    /\ armed => queue # <<>>
    /\ SetQueue(queue, armed)
    /\ UNCHANGED <<inputVars, NotInputVars>>

\* A timer's receipt is an input_received of origin timer and is never read-only.
ReceiptFits(origin, ro) == ~activeTurn /\ pendingInput = NoInput /\ (origin = "timer" => ~ro)

InputReceived(origin, ro, m) ==
    /\ ReceiptFits(origin, ro)
    /\ pendingInput' = [origin |-> origin, readOnly |-> ro, model |-> m]
    /\ UNCHANGED <<steering, queueVars, NotInputVars>>

InputCancelled ==
    /\ pendingInput # NoInput
    /\ ~activeTurn
    /\ pendingInput' = NoInput
    /\ SetQueue(queue, FALSE)
    /\ UNCHANGED <<steering, NotInputVars>>

InputNext ==
    \/ \E i \in Inputs : SteeringAdded(i)
    \/ \E i \in Inputs : IrcReplyReminder(i)
    \/ \E ids \in SUBSET Inputs : InputAdmitted(ids)
    \/ \E i \in Inputs, ro \in BOOLEAN, choice \in ArmChoices :
          FutureTurnQueued(i, ro, choice)
    \/ \E k \in 1..Len(queue), ro \in BOOLEAN, choice \in ArmChoices :
          FutureTurnEdited(k, ro, choice)
    \/ \E ids \in SUBSET Inputs : FutureTurnCancelled(ids)
    \/ \E armed \in BOOLEAN : FutureQueueState(armed)
    \/ \E origin \in {"direct", "timer"}, ro \in BOOLEAN, m \in Models :
          InputReceived(origin, ro, m)
    \/ InputCancelled
=============================================================================
