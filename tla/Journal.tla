------------------------------ MODULE Journal ------------------------------
(***************************************************************************)
(* The commit of events to a native journal: the engine stages one event,  *)
(* hands it to the I/O worker (store_binary_io.c), waits for the result    *)
(* and adopts the event only when its bytes are acknowledged (store.c).  A *)
(* failed write is retried once, from whatever it left in the file.  The   *)
(* process may crash and the machine lose power at any step; opening the   *)
(* session again recovers the verified prefix of the file.                 *)
(***************************************************************************)
EXTENDS JournalFile

CONSTANTS
    NoEvent,     \* no candidate, no request
    MaxStops     \* bound: times the session is closed, crashes or loses power

ASSUME JournalAssumption == NoEvent \notin Events /\ MaxStops \in Nat

VARIABLES
    file,        \* the chunks of the journal file
    open,        \* a process owns the session
    stops,       \* stops so far
    \* the engine: struct snag_binary_session
    engine,      \* idle, waiting in binary_take, or closing
    log,         \* the events adopted, in order
    candidate,   \* the staged event, not yet adopted
    ioPending, retryable, retried, faulted,
    \* the worker: struct snag_binary_io and its io_request
    phase,
    request,     \* event, base and history of the one request
    step,        \* how far commit_request is
    durable, written,   \* anchors of the result, counted in batches
    error, resultRetryable

fileVars    == <<file, open, stops>>
engineVars  == <<engine, log, candidate, ioPending, retryable, retried, faulted>>
workerVars  == <<phase, request, step, durable, written, error, resultRetryable>>
journalVars == <<fileVars, engineVars, workerVars>>

Phases    == {"idle", "queued", "running", "done", "failed"}
Requests  == [ev: Events \cup {NoEvent}, before: Nat, attempted: BOOLEAN,
              retried: BOOLEAN]
NoRequest == [ev |-> NoEvent, before |-> 0, attempted |-> FALSE, retried |-> FALSE]

\* snag_binary_io_start on a journal whose verified prefix has n batches
StartWorker(n) ==
    /\ phase' = "idle"
    /\ request' = NoRequest
    /\ step' = "none"
    /\ durable' = n
    /\ written' = n
    /\ error' = FALSE
    /\ resultRetryable' = FALSE

StartEngine(events) ==
    /\ engine' = "idle"
    /\ log' = events
    /\ candidate' = NoEvent
    /\ ioPending' = FALSE
    /\ retryable' = FALSE
    /\ retried' = FALSE
    /\ faulted' = FALSE

Init ==
    /\ file = <<>>
    /\ open = TRUE
    /\ stops = 0
    /\ engine = "idle"
    /\ log = <<>>
    /\ candidate = NoEvent
    /\ ioPending = FALSE
    /\ retryable = FALSE
    /\ retried = FALSE
    /\ faulted = FALSE
    /\ phase = "idle"
    /\ request = NoRequest
    /\ step = "none"
    /\ durable = 0
    /\ written = 0
    /\ error = FALSE
    /\ resultRetryable = FALSE
-----------------------------------------------------------------------------
\* The engine commits an event: commit_binary_session, one disjunct a branch.
\* It never commits an event again that it has adopted.
Idle == open /\ engine = "idle"

\* binary_prepare_candidate and submit_request
SubmitNew(e) ==
    /\ Idle
    /\ ~faulted
    /\ candidate = NoEvent
    /\ \A n \in 1..Len(log) : log[n] # e
    /\ phase = "idle"
    /\ candidate' = e
    /\ request' = [ev |-> e, before |-> durable, attempted |-> FALSE, retried |-> FALSE]
    /\ phase' = "queued"
    /\ error' = FALSE
    /\ resultRetryable' = FALSE
    /\ ioPending' = TRUE
    /\ engine' = "waiting"
    /\ UNCHANGED <<fileVars, log, retryable, retried, faulted, step, durable, written>>

\* The same event again, while its first request has not been answered.
WaitAgain ==
    /\ Idle
    /\ ~faulted
    /\ candidate # NoEvent
    /\ ioPending
    /\ engine' = "waiting"
    /\ UNCHANGED <<fileVars, log, candidate, ioPending, retryable, retried, faulted,
                   workerVars>>

\* The same event again, after its request failed: snag_binary_io_retry.
Retry ==
    /\ Idle
    /\ ~faulted
    /\ candidate # NoEvent
    /\ ~ioPending
    /\ retryable
    /\ phase = "failed"
    /\ ~request.retried
    /\ request' = [request EXCEPT !.retried = TRUE]
    /\ error' = FALSE
    /\ resultRetryable' = FALSE
    /\ phase' = "queued"
    /\ ioPending' = TRUE
    /\ retried' = TRUE
    /\ engine' = "waiting"
    /\ UNCHANGED <<fileVars, log, candidate, retryable, faulted, step, durable, written>>
-----------------------------------------------------------------------------
\* The worker: run_owner and commit_request.
WorkerTakes ==
    /\ open
    /\ phase = "queued"
    /\ phase' = "running"
    /\ step' = "begin"
    /\ UNCHANGED <<fileVars, engineVars, request, durable, written, error,
                   resultRetryable>>

\* MUTANT of Complete: a failure is recorded as if it had been taken already.
CompleteUnnoticed(failed, attempted) ==
    /\ phase' = IF failed THEN "failed" ELSE "done"
    /\ step' = "none"
    /\ request' = [request EXCEPT !.attempted = attempted]
    /\ error' = failed
    /\ resultRetryable' = (failed /\ attempted /\ ~request.retried)

\* run_owner after commit_request returns.
Complete(failed, attempted) ==
    /\ phase' = "done"
    /\ step' = "none"
    /\ request' = [request EXCEPT !.attempted = attempted]
    /\ error' = failed
    /\ resultRetryable' = (failed /\ attempted /\ ~request.retried)

\* encode_request fails before any I/O; a retry finds its bytes encoded.
EncodeFails ==
    /\ open
    /\ phase = "running"
    /\ step = "begin"
    /\ ~request.attempted
    /\ Complete(TRUE, FALSE)
    /\ UNCHANGED <<fileVars, engineVars, durable, written>>

After == request.before + 1

\* The file ends inside the batch, at its start when nothing was tried before,
\* and what it holds of the batch is what the request would write.
TailMatches ==
    /\ Len(file) >= request.before * Width
    /\ Len(file) <= After * Width
    /\ ~request.retried => Len(file) = request.before * Width
    /\ TailAfter(file, request.before)
          = SubSeq(Bytes(request.ev, After), 1, Len(file) - request.before * Width)

BeginAppend ==
    /\ open
    /\ phase = "running"
    /\ step = "begin"
    /\ IF TailMatches
       THEN /\ request' = [request EXCEPT !.attempted = TRUE]
            /\ step' = "append"
            /\ UNCHANGED <<phase, error, resultRetryable>>
       ELSE Complete(TRUE, TRUE)
    /\ UNCHANGED <<fileVars, engineVars, durable, written>>

\* write_full writes the suffix of the batch that is missing from the file.
AppendChunk ==
    /\ open
    /\ phase = "running"
    /\ step = "append"
    /\ Len(file) < After * Width
    /\ file' = Append(file, Bytes(request.ev, After)[Len(file) - request.before * Width + 1])
    /\ UNCHANGED <<open, stops, engineVars, workerVars>>

\* MUTANT of WriteReturns: a short write passes for a complete one.
WriteReturnsShort ==
    /\ open
    /\ phase = "running"
    /\ step = "append"
    /\ written' = After
    /\ step' = "sync"
    /\ UNCHANGED <<fileVars, engineVars, phase, request, durable, error,
                   resultRetryable>>

\* MUTANT of WriteReturns: the written anchor is not advanced.
WriteReturnsUnrecorded ==
    /\ open
    /\ phase = "running"
    /\ step = "append"
    /\ Len(file) = After * Width
    /\ step' = "sync"
    /\ UNCHANGED <<fileVars, engineVars, phase, request, durable, written, error,
                   resultRetryable>>

\* The whole batch is in the file: it is written, and not yet acknowledged.
WriteReturns ==
    /\ open
    /\ phase = "running"
    /\ step = "append"
    /\ Len(file) = After * Width
    /\ written' = After
    /\ step' = "sync"
    /\ UNCHANGED <<fileVars, engineVars, phase, request, durable, error,
                   resultRetryable>>

\* MUTANT of SyncReturns: the acknowledged anchor is not advanced.
SyncReturnsUnrecorded ==
    /\ open
    /\ phase = "running"
    /\ step = "sync"
    /\ Complete(FALSE, TRUE)
    /\ UNCHANGED <<fileVars, engineVars, durable, written>>

SyncReturns ==
    /\ open
    /\ phase = "running"
    /\ step = "sync"
    /\ durable' = After
    /\ Complete(FALSE, TRUE)
    /\ UNCHANGED <<fileVars, engineVars, written>>

\* Any call of the attempt fails: a stat, a read, a write cut short, the sync.
AttemptFails ==
    /\ open
    /\ phase = "running"
    /\ Complete(TRUE, TRUE)
    /\ UNCHANGED <<fileVars, engineVars, durable, written>>
-----------------------------------------------------------------------------
\* take_result: a request whose I/O failed is kept, and bars new work.
TakeResult ==
    /\ phase = "done"
    /\ IF error /\ request.attempted
       THEN phase' = "failed" /\ UNCHANGED request
       ELSE phase' = "idle" /\ request' = NoRequest
    /\ UNCHANGED <<fileVars, step, durable, written, error, resultRetryable>>

\* binary_ack_candidate on an acknowledgement.  One that does not match the
\* staged boundary faults the session.
AckCommitted ==
    /\ open
    /\ engine = "waiting"
    /\ ~error
    /\ TakeResult
    /\ ioPending' = FALSE
    /\ engine' = "idle"
    /\ IF durable = Len(log) + 1 /\ request.ev = candidate
       THEN /\ log' = Append(log, candidate)
            /\ candidate' = NoEvent
            /\ retryable' = FALSE
            /\ retried' = FALSE
            /\ UNCHANGED faulted
       ELSE /\ faulted' = TRUE
            /\ UNCHANGED <<log, candidate, retryable, retried>>

\* MUTANT of AckFailed: a failed retry forgets the event it left in the file.
AckFailedForgetting ==
    /\ open
    /\ engine = "waiting"
    /\ error
    /\ TakeResult
    /\ ioPending' = FALSE
    /\ engine' = "idle"
    /\ retryable' = resultRetryable
    /\ candidate' = IF ~resultRetryable THEN NoEvent ELSE candidate
    /\ UNCHANGED <<log, retried, faulted>>

\* binary_ack_candidate on a failure: a request that never reached the file is
\* forgotten, any other keeps its candidate.
AckFailed ==
    /\ open
    /\ engine = "waiting"
    /\ error
    /\ TakeResult
    /\ ioPending' = FALSE
    /\ engine' = "idle"
    /\ retryable' = resultRetryable
    /\ candidate' = IF ~resultRetryable /\ ~retried THEN NoEvent ELSE candidate
    /\ UNCHANGED <<log, retried, faulted>>

\* MUTANT of WaitFails: no answer is expected any more.
WaitFailsUnpending ==
    /\ open
    /\ engine = "waiting"
    /\ phase # "done"
    /\ engine' = "idle"
    /\ retryable' = FALSE
    /\ ioPending' = FALSE
    /\ UNCHANGED <<fileVars, log, candidate, retried, faulted, workerVars>>

\* The wait itself fails; the request stays with the worker.
WaitFails ==
    /\ open
    /\ engine = "waiting"
    /\ phase # "done"
    /\ engine' = "idle"
    /\ retryable' = FALSE
    /\ UNCHANGED <<fileVars, log, candidate, ioPending, retried, faulted, workerVars>>
-----------------------------------------------------------------------------
\* close_binary_session takes an answer that is still due without adopting it.
CloseBegins ==
    /\ Idle
    /\ stops < MaxStops
    /\ engine' = "closing"
    /\ UNCHANGED <<fileVars, log, candidate, ioPending, retryable, retried, faulted,
                   workerVars>>

CloseDrains ==
    /\ open
    /\ engine = "closing"
    /\ ioPending
    /\ TakeResult
    /\ ioPending' = FALSE
    /\ UNCHANGED <<engine, log, candidate, retryable, retried, faulted>>

\* The state that goes with the process.
Stopped ==
    /\ open' = FALSE
    /\ stops' = stops + 1
    /\ StartEngine(<<>>)
    /\ StartWorker(0)

CloseEnds ==
    /\ open
    /\ engine = "closing"
    /\ ~ioPending
    /\ Stopped
    /\ UNCHANGED file

Crash ==
    /\ open
    /\ stops < MaxStops
    /\ Stopped
    /\ UNCHANGED file

LosePower ==
    /\ stops < MaxStops
    /\ Stopped
    /\ file' \in Torn(file)

\* The exclusive owner opens the session: the verified prefix is adopted and the
\* rest cut off.  A torn tail with nothing verified before it is refused.
Recover ==
    /\ ~open
    /\ ~(HasGarbage(file) /\ Verified(file) = 0)
    /\ open' = TRUE
    /\ file' = SubSeq(file, 1, Verified(file) * Width)
    /\ StartEngine(Recovered(file))
    /\ StartWorker(Verified(file))
    /\ UNCHANGED stops
-----------------------------------------------------------------------------
WorkerNext ==
    \/ WorkerTakes
    \/ EncodeFails
    \/ BeginAppend
    \/ AppendChunk
    \/ WriteReturns
    \/ SyncReturns
    \/ AttemptFails

TakeNext == AckCommitted \/ AckFailed \/ CloseDrains

Next ==
    \/ \E e \in Events : SubmitNew(e)
    \/ WaitAgain
    \/ Retry
    \/ WorkerNext
    \/ TakeNext
    \/ WaitFails
    \/ CloseBegins
    \/ CloseEnds
    \/ Crash
    \/ LosePower
    \/ Recover

\* The worker thread is scheduled, and so is the thread that waits for it: it
\* polls the wake descriptor in a loop until the result is there.
Fairness ==
    /\ WF_journalVars(WorkerNext)
    /\ WF_journalVars(TakeNext)
    /\ WF_journalVars(CloseEnds)

Spec == Init /\ [][Next]_journalVars /\ Fairness
-----------------------------------------------------------------------------
\* Types of the journal's state.
TypeOK ==
    /\ file \in Seq(Chunks \cup {Garbage})
    /\ open \in BOOLEAN
    /\ stops \in 0..MaxStops
    /\ engine \in {"idle", "waiting", "closing"}
    /\ log \in Seq(Events)
    /\ candidate \in Events \cup {NoEvent}
    /\ {ioPending, retryable, retried, faulted, error, resultRetryable} \subseteq BOOLEAN
    /\ phase \in Phases
    /\ request \in Requests
    /\ step \in {"none", "begin", "append", "sync"}
    /\ durable \in Nat
    /\ written \in {durable, durable + 1}

\* The journal is what DurableLog promises: recovery would read every adopted
\* event and at most the one candidate more, nothing twice, through any failed
\* write, retry, close, crash and recovery.
Abstract == INSTANCE DurableLog
               WITH stored <- Recovered(file), adopted <- log, open <- open
ImplementsDurableLog == Abstract!Spec

\* The worker never acknowledges a boundary other than the one the engine staged,
\* so no session faults (store.c: "native durability ACK violates staged boundary").
NeverFaulted == ~faulted

\* When the engine expects no answer the worker owes none: close_binary_session
\* ignores the EBUSY of snag_binary_io_close and frees what the worker uses.
WorkerQuietWhenNothingPending == ~ioPending => phase \in {"idle", "failed"}

\* A staged event that may be on disk is never forgotten while the session is
\* open, so the same sequence number is never given to another event.
UnadoptedTailIsCandidate ==
    open /\ Len(file) > Len(log) * Width =>
        /\ candidate # NoEvent
        /\ TailAfter(file, Len(log))
              = SubSeq(Bytes(candidate, Len(log) + 1), 1, Len(file) - Len(log) * Width)

\* A commit returns to its caller and a close ends: neither waits for an answer
\* that never comes.
CallsReturn ==
    /\ engine = "waiting" ~> engine # "waiting"
    /\ engine = "closing" ~> ~open
-----------------------------------------------------------------------------
\* The inductive invariant behind the safety properties, one part each for what
\* the engine may believe, what the worker holds, and what is on the disk.
EngineInv ==
    /\ ~faulted
    /\ engine = "waiting" => ioPending
    /\ engine = "closing" => stops < MaxStops
    /\ ioPending => phase \in {"queued", "running", "done"}
    /\ ~ioPending => phase \in {"idle", "failed"}
    /\ phase = "idle" /\ engine # "closing" => candidate = NoEvent /\ ~retried
    /\ ~open => phase = "idle" /\ engine = "idle"

\* The worker works for the staged event and starts where the engine's log ends.
WorkerInv ==
    /\ phase = "running" <=> step # "none"
    /\ phase # "idle" =>
          /\ candidate # NoEvent
          /\ request.ev = candidate
          /\ request.before = Len(log)
          /\ request.retried = retried
          /\ retried => request.attempted
          /\ ~request.attempted => Len(file) = Len(log) * Width
    /\ phase = "failed" \/ step \in {"append", "sync"} => request.attempted
    /\ phase = "done" /\ error => resultRetryable = (request.attempted /\ ~retried)

\* The file ends with the candidate's batch before that is acknowledged.
AnchorInv ==
    /\ step = "sync" \/ (phase = "done" /\ ~error) =>
          /\ written = Len(log) + 1
          /\ Len(file) = (Len(log) + 1) * Width
    /\ phase = "done" /\ ~error => durable = Len(log) + 1
    /\ open /\ ~(phase = "done" /\ ~error) /\ (engine = "closing" => ioPending) =>
          durable = Len(log)

\* While a process owns it, the file is the batches of the adopted events and a
\* beginning of the candidate's.
FileInv ==
    open =>
        /\ \A n \in 1..Len(log) : BatchChecks(file, n) /\ file[n * Width].ev = log[n]
        /\ Len(log) * Width <= Len(file)
        /\ Len(file) <= (Len(log) + 1) * Width
        /\ candidate = NoEvent => Len(file) = Len(log) * Width
        /\ \A k \in 1..(Len(file) - Len(log) * Width) :
              file[Len(log) * Width + k] = Chunk(candidate, Len(log) + 1, k)
        /\ \A n \in 1..Len(log) : log[n] # candidate

JournalInv == TypeOK /\ EngineInv /\ WorkerInv /\ AnchorInv /\ FileInv
=============================================================================
