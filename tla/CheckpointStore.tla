---------------------------- MODULE CheckpointStore ----------------------------
(***************************************************************************)
(* How a session keeps the point it can be resumed from: the engine        *)
(* (store.c) commits events and, once enough of them follow the newest     *)
(* receipt, has its worker publish an image of the state and then commits  *)
(* a receipt for it.  System calls fail, waits fail, the session is closed *)
(* or its process dies at any step, and it is opened again from the files. *)
(***************************************************************************)
EXTENDS CheckpointWorker

CONSTANTS
    Interval,    \* records after a receipt at which an image is due
    MaxRecords,  \* bound: records of the journal when an event is committed
    MaxClosures  \* bound: closing events between two receipts

ASSUME EngineAssumption ==
    /\ Interval \in Nat \ {0}
    /\ MaxRecords \in Nat
    /\ MaxClosures \in Nat

VARIABLES
    engine,      \* where the engine's thread is
    asleep,      \* it waits for the wake-up
    wanted,      \* the event snag_session_commit was called with
    candidate,   \* what is staged: nothing, an event or a receipt
    staged,      \* the staged event
    ioPending, retryable, retried, faulted,
    cpPending, cpFailed, cpPublished,
    adopted,     \* records the engine has adopted: next_seq - 1
    checkpointSeq

engineVars == <<engine, asleep, wanted, candidate, staged, ioPending, retryable, retried,
                faulted, cpPending, cpFailed, cpPublished, adopted, checkpointSeq>>
vars       == <<fileVars, workerVars, engineVars>>

Engines  == {"idle", "committing", "waiting", "maintaining", "publishing",
             "receipting", "closing"}
Events   == [kind: {"ordinary", "closure"}, size: Sizes]
NoEvent  == [kind |-> "none", size |-> 0]

\* snag_session_bind_binary on a journal of n records whose newest receipt is seq.
StartEngine(n, seq) ==
    /\ engine' = "idle"
    /\ asleep' = FALSE
    /\ wanted' = NoEvent
    /\ candidate' = "none"
    /\ staged' = NoEvent
    /\ ioPending' = FALSE
    /\ retryable' = FALSE
    /\ retried' = FALSE
    /\ faulted' = FALSE
    /\ cpPending' = FALSE
    /\ cpFailed' = FALSE
    /\ cpPublished' = FALSE
    /\ adopted' = n
    /\ checkpointSeq' = seq

NewestReceipt == Max({Usable(s).sequence : s \in Slots})

Init ==
    /\ FilesInit
    /\ WorkerInit
    /\ engine = "idle"
    /\ asleep = FALSE
    /\ wanted = NoEvent
    /\ candidate = "none"
    /\ staged = NoEvent
    /\ ioPending = FALSE
    /\ retryable = FALSE
    /\ retried = FALSE
    /\ faulted = FALSE
    /\ cpPending = FALSE
    /\ cpFailed = FALSE
    /\ cpPublished = FALSE
    /\ adopted = Len(journal)
    /\ checkpointSeq = NewestReceipt
-----------------------------------------------------------------------------
At(where)     == open /\ engine = where /\ ~asleep
Leave         == engine' = "idle" /\ wanted' = NoEvent
CandidateVars == <<candidate, staged, ioPending, retryable, retried>>
CpVars        == <<cpPending, cpFailed, cpPublished>>
HistoryVars   == <<adopted, checkpointSeq>>

Due(n, seq) == n - seq >= Interval

\* Closing events the journal holds after its newest receipt.
ClosuresSinceReceipt ==
    Cardinality({n \in 1..Len(journal) :
        /\ journal[n].kind = "closure"
        /\ \A m \in n..Len(journal) : journal[m].kind # "receipt"})

\* MUTANT of MaintainsFirst: an image that failed is not tried before the next event.
MaintainsFirstUnlessFailed(e) ==
    /\ e.kind = "ordinary"
    /\ candidate # "event"
    /\ Due(adopted, checkpointSeq)
    /\ ~cpFailed

\* The condition under which a commit has an image published and receipted first;
\* closing events never wait for that (session_closure_event).
MaintainsFirst(e) ==
    /\ e.kind = "ordinary"
    /\ candidate # "event"
    /\ Due(adopted, checkpointSeq)

\* snag_session_commit is called.
Commit(e) ==
    /\ At("idle")
    /\ Len(journal) < MaxRecords
    /\ e.kind = "closure" => ClosuresSinceReceipt < MaxClosures
    /\ wanted' = e
    /\ engine' = IF MaintainsFirst(e) THEN "maintaining" ELSE "committing"
    /\ UNCHANGED <<fileVars, workerVars, asleep, CandidateVars, faulted, CpVars, HistoryVars>>
-----------------------------------------------------------------------------
\* commit_binary_session

CommitStages ==
    /\ At("committing")
    /\ ~faulted
    /\ candidate = "none"
    /\ SubmitRequest(wanted.kind, wanted.size)
    /\ candidate' = "event"
    /\ staged' = wanted
    /\ ioPending' = TRUE
    /\ engine' = "waiting"
    /\ UNCHANGED <<fileVars, asleep, wanted, retryable, retried, faulted, CpVars, HistoryVars>>

\* The same event again, still unanswered.
CommitWaitsAgain ==
    /\ At("committing")
    /\ ~faulted
    /\ candidate = "event"
    /\ staged = wanted
    /\ ioPending
    /\ engine' = "waiting"
    /\ UNCHANGED <<fileVars, workerVars, asleep, wanted, CandidateVars, faulted, CpVars,
                   HistoryVars>>

\* The same event again, after it failed.
CommitRetries ==
    /\ At("committing")
    /\ ~faulted
    /\ candidate = "event"
    /\ staged = wanted
    /\ ~ioPending
    /\ retryable
    /\ RetryRequest
    /\ ioPending' = TRUE
    /\ retried' = TRUE
    /\ engine' = "waiting"
    /\ UNCHANGED <<fileVars, asleep, wanted, candidate, staged, retryable, faulted, CpVars,
                   HistoryVars>>

\* Another event or a receipt is staged, the staged one needs a fresh recovery, or
\* staging the event fails.
CommitRefused ==
    /\ At("committing")
    /\ candidate = "event" /\ staged = wanted => faulted \/ (~ioPending /\ ~retryable)
    /\ Leave
    /\ UNCHANGED <<fileVars, workerVars, asleep, CandidateVars, faulted, CpVars, HistoryVars>>
-----------------------------------------------------------------------------
\* checkpoint_binary_session, up to the published image

CheckpointSubmits ==
    /\ At("maintaining")
    /\ ~faulted
    /\ ~cpPublished /\ ~cpFailed /\ ~cpPending
    /\ SubmitCheckpoint(adopted)
    /\ cpPending' = TRUE
    /\ engine' = "publishing"
    /\ UNCHANGED <<fileVars, asleep, wanted, CandidateVars, faulted, cpFailed, cpPublished,
                   HistoryVars>>

\* The state cannot be captured, or the session needs a fresh recovery.
CaptureFails ==
    /\ At("maintaining")
    /\ faulted \/ (~cpPublished /\ ~cpFailed /\ ~cpPending)
    /\ Leave
    /\ UNCHANGED <<fileVars, workerVars, asleep, CandidateVars, faulted, CpVars, HistoryVars>>

CheckpointRetries ==
    /\ At("maintaining")
    /\ ~faulted
    /\ ~cpPublished /\ cpFailed
    /\ RetryCheckpoint
    /\ cpPending' = TRUE
    /\ engine' = "publishing"
    /\ UNCHANGED <<fileVars, asleep, wanted, CandidateVars, faulted, cpFailed, cpPublished,
                   HistoryVars>>

CheckpointWaitsAgain ==
    /\ At("maintaining")
    /\ ~faulted
    /\ ~cpPublished /\ ~cpFailed /\ cpPending
    /\ engine' = "publishing"
    /\ UNCHANGED <<fileVars, workerVars, asleep, wanted, CandidateVars, faulted, CpVars,
                   HistoryVars>>

\* The image was published by an earlier call.
CheckpointResumes ==
    /\ At("maintaining")
    /\ ~faulted
    /\ cpPublished
    /\ engine' = "receipting"
    /\ UNCHANGED <<fileVars, workerVars, asleep, wanted, CandidateVars, faulted, CpVars,
                   HistoryVars>>

ImagePublished ==
    /\ At("publishing")
    /\ TakePublished
    /\ cpPending' = FALSE
    /\ cpFailed' = FALSE
    /\ cpPublished' = TRUE
    /\ engine' = "receipting"
    /\ UNCHANGED <<fileVars, asleep, wanted, CandidateVars, faulted, HistoryVars>>

PublicationFailed ==
    /\ At("publishing")
    /\ TakePublicationError
    /\ cpPending' = FALSE
    /\ cpFailed' = TRUE
    /\ Leave
    /\ UNCHANGED <<fileVars, asleep, CandidateVars, faulted, cpPublished, HistoryVars>>
-----------------------------------------------------------------------------
\* checkpoint_binary_session, from the published image to its receipt

ReceiptStages ==
    /\ At("receipting")
    /\ candidate = "none"
    /\ SubmitReceipt
    /\ candidate' = "receipt"
    /\ ioPending' = TRUE
    /\ engine' = "waiting"
    /\ UNCHANGED <<fileVars, asleep, wanted, staged, retryable, retried, faulted, CpVars,
                   HistoryVars>>

ReceiptWaitsAgain ==
    /\ At("receipting")
    /\ candidate = "receipt"
    /\ ioPending
    /\ engine' = "waiting"
    /\ UNCHANGED <<fileVars, workerVars, asleep, wanted, CandidateVars, faulted, CpVars,
                   HistoryVars>>

ReceiptRetries ==
    /\ At("receipting")
    /\ candidate = "receipt"
    /\ ~ioPending
    /\ retryable
    /\ RetryRequest
    /\ ioPending' = TRUE
    /\ retried' = TRUE
    /\ engine' = "waiting"
    /\ UNCHANGED <<fileVars, asleep, wanted, candidate, staged, retryable, faulted, CpVars,
                   HistoryVars>>

\* The receipt cannot be staged, or needs a fresh recovery.
ReceiptRefused ==
    /\ At("receipting")
    /\ candidate = "receipt" => ~ioPending /\ ~retryable
    /\ Leave
    /\ UNCHANGED <<fileVars, workerVars, asleep, CandidateVars, faulted, CpVars, HistoryVars>>
-----------------------------------------------------------------------------
\* binary_ack_candidate

\* The acknowledgement names what was staged.
AckMatches == durable = adopted + 1 /\ result.receipt = (candidate = "receipt")

\* A receipt leads back to the event it was retained for, if any.
AckReceipt ==
    /\ At("waiting")
    /\ ~result.error /\ AckMatches
    /\ candidate = "receipt"
    /\ TakeResult
    /\ adopted' = adopted + 1
    /\ checkpointSeq' = adopted + 1
    /\ cpPublished' = FALSE
    /\ candidate' = "none"
    /\ ioPending' = FALSE
    /\ retryable' = FALSE
    /\ retried' = FALSE
    /\ engine' = IF wanted = NoEvent THEN "idle" ELSE "committing"
    /\ UNCHANGED <<fileVars, asleep, wanted, staged, faulted, cpPending, cpFailed>>

\* A successful commit tries for an image when one is due; what becomes of that
\* does not change its success.
AckEvent ==
    /\ At("waiting")
    /\ ~result.error /\ AckMatches
    /\ candidate = "event"
    /\ TakeResult
    /\ adopted' = adopted + 1
    /\ candidate' = "none"
    /\ staged' = NoEvent
    /\ ioPending' = FALSE
    /\ retryable' = FALSE
    /\ retried' = FALSE
    /\ wanted' = NoEvent
    /\ engine' = IF staged.kind = "ordinary" /\ Due(adopted + 1, checkpointSeq)
                 THEN "maintaining" ELSE "idle"
    /\ UNCHANGED <<fileVars, asleep, faulted, CpVars, checkpointSeq>>

\* What an answer leaves that is no acknowledgement of what was staged: a request
\* that never reached the file is forgotten, any other is kept.
AckKeeps ==
    /\ faulted' = (faulted \/ ~result.error)
    /\ retryable' = IF result.error THEN result.retryable ELSE retryable
    /\ IF result.error /\ ~result.retryable /\ ~retried
       THEN candidate' = "none" /\ staged' = NoEvent
       ELSE UNCHANGED <<candidate, staged>>

AckFailed ==
    /\ At("waiting")
    /\ result.error \/ ~AckMatches
    /\ AckKeeps
    /\ TakeResult
    /\ ioPending' = FALSE
    /\ Leave
    /\ UNCHANGED <<fileVars, asleep, retried, CpVars, HistoryVars>>
-----------------------------------------------------------------------------
\* binary_take and binary_take_checkpoint: what is awaited, and the wait for it.
AwaitsRequest     == engine = "waiting" \/ (engine = "closing" /\ ioPending)
AwaitsPublication == engine = "publishing" \/ (engine = "closing" /\ ~ioPending /\ cpPending)

Sleep ==
    /\ open
    /\ ~asleep
    /\ \/ AwaitsRequest /\ io.phase # "done"
       \/ AwaitsPublication /\ cp.phase # "done"
    /\ asleep' = TRUE
    /\ UNCHANGED <<fileVars, workerVars, engine, wanted, CandidateVars, faulted, CpVars,
                   HistoryVars>>

Wakes ==
    /\ open
    /\ asleep
    /\ wake
    /\ asleep' = FALSE
    /\ UNCHANGED <<fileVars, workerVars, engine, wanted, CandidateVars, faulted, CpVars,
                   HistoryVars>>

\* MUTANT of WaitFails: a publication that was retried still counts as failed.
WaitFailsKeeping ==
    /\ open
    /\ asleep
    /\ engine # "closing"
    /\ failures < MaxFailures
    /\ failures' = failures + 1
    /\ asleep' = FALSE
    /\ retryable' = (retryable /\ engine # "waiting")
    /\ Leave
    /\ UNCHANGED <<fileVars, io, result, durable, cp, published, awaitingReceipt, usable, wake,
                   candidate, staged, ioPending, retried, faulted, CpVars, HistoryVars>>

\* The wait fails; what was awaited stays with the worker.
WaitFails ==
    /\ open
    /\ asleep
    /\ engine # "closing"
    /\ failures < MaxFailures
    /\ failures' = failures + 1
    /\ asleep' = FALSE
    /\ retryable' = (retryable /\ engine # "waiting")
    /\ cpFailed' = (cpFailed /\ engine # "publishing")
    /\ Leave
    /\ UNCHANGED <<fileVars, io, result, durable, cp, published, awaitingReceipt, usable, wake,
                   candidate, staged, ioPending, retried, faulted, cpPending, cpPublished,
                   HistoryVars>>
-----------------------------------------------------------------------------
\* close_binary_session, the end of the process, and the next open

CloseBegins ==
    /\ At("idle")
    /\ stops < MaxStops
    /\ engine' = "closing"
    /\ UNCHANGED <<fileVars, workerVars, asleep, wanted, CandidateVars, faulted, CpVars,
                   HistoryVars>>

CloseTakesRequest ==
    /\ At("closing")
    /\ ioPending
    /\ TakeResult
    /\ ioPending' = FALSE
    /\ UNCHANGED <<fileVars, engine, asleep, wanted, candidate, staged, retryable, retried,
                   faulted, CpVars, HistoryVars>>

\* MUTANT of CloseTakesPublication: any answer ends the publication.
CloseTakesPublicationAnyway ==
    /\ At("closing")
    /\ ~ioPending
    /\ cpPending
    /\ cpPending' = FALSE
    /\ UNCHANGED <<fileVars, workerVars, engine, asleep, wanted, CandidateVars, faulted,
                   cpFailed, cpPublished, HistoryVars>>

CloseTakesPublication ==
    /\ At("closing")
    /\ ~ioPending
    /\ cpPending
    /\ TakePublished \/ TakePublicationError
    /\ cpPending' = FALSE
    /\ UNCHANGED <<fileVars, engine, asleep, wanted, CandidateVars, faulted, cpFailed,
                   cpPublished, HistoryVars>>

Stopped ==
    /\ open' = FALSE
    /\ stops' = stops + 1
    /\ StartEngine(0, 0)
    /\ StartWorker(0, [s \in Slots |-> [generation |-> 0, sequence |-> 0]])
    /\ UNCHANGED <<journal, slots>>

CloseEnds ==
    /\ At("closing")
    /\ ~ioPending
    /\ ~cpPending
    /\ Stopped

Crash ==
    /\ open
    /\ stops < MaxStops
    /\ Stopped

\* snag_store_load_binary_session
Open ==
    /\ ~open
    /\ \E s \in Slots : Receipts(s) # {}
    /\ open' = TRUE
    /\ StartEngine(Len(journal), NewestReceipt)
    /\ StartWorker(Len(journal), [s \in Slots |-> Usable(s)])
    /\ UNCHANGED <<journal, slots, stops>>
-----------------------------------------------------------------------------
CommitNext     == CommitStages \/ CommitWaitsAgain \/ CommitRetries \/ CommitRefused
CheckpointNext == \/ CheckpointSubmits \/ CaptureFails \/ CheckpointRetries
                  \/ CheckpointWaitsAgain \/ CheckpointResumes
                  \/ ImagePublished \/ PublicationFailed
ReceiptNext    == ReceiptStages \/ ReceiptWaitsAgain \/ ReceiptRetries \/ ReceiptRefused
AckNext        == AckReceipt \/ AckEvent \/ AckFailed
CloseNext      == CloseTakesRequest \/ CloseTakesPublication \/ CloseEnds

\* What the engine's thread does by itself once it was called.
EngineNext == CommitNext \/ CheckpointNext \/ ReceiptNext \/ AckNext \/ CloseNext
              \/ Sleep \/ Wakes

Next ==
    \/ \E e \in Events : Commit(e)
    \/ EngineNext
    \/ WaitFails
    \/ WorkerNext /\ UNCHANGED engineVars
    \/ CloseBegins
    \/ Crash
    \/ Open

\* Both threads are scheduled.
Fairness ==
    /\ WF_vars(WorkerNext /\ UNCHANGED engineVars)
    /\ WF_vars(EngineNext)

Spec == Init /\ [][Next]_vars /\ Fairness
-----------------------------------------------------------------------------
FileTypes ==
    /\ journal \in Seq(Records)
    /\ slots \in [Slots -> Images]
    /\ durable \in 0..Len(journal)
    /\ stops \in 0..MaxStops
    /\ failures \in 0..MaxFailures

RequestTypes ==
    /\ io \in Requests
    /\ result \in [error: BOOLEAN, retryable: BOOLEAN, receipt: BOOLEAN]

PublicationTypes ==
    /\ cp \in Publications
    /\ published \in [slot: Slots, image: Images]
    /\ usable \in [Slots -> [generation: Nat, sequence: Nat]]

EngineTypes ==
    /\ engine \in Engines
    /\ wanted \in Events \cup {NoEvent}
    /\ staged \in Events \cup {NoEvent}
    /\ candidate \in {"none", "event", "receipt"}
    /\ adopted \in Nat
    /\ checkpointSeq \in Nat

FlagTypes ==
    {open, asleep, wake, awaitingReceipt, ioPending, retryable, retried, faulted,
     cpPending, cpFailed, cpPublished} \subseteq BOOLEAN

\* Types of the files, the worker and the engine.
TypeOK == FileTypes /\ RequestTypes /\ PublicationTypes /\ EngineTypes /\ FlagTypes

\* Whatever step a failure, a close or a crash comes at, one slot holds an image
\* whose receipt the next open finds: the session can be resumed (session-storage.md:
\* "A snapshot failure leaves journal commitments intact and the previous recovery
\* point available", and the suffix behind it stays within a budget: "Checkpoint
\* before admitting another batch beyond that budget").
SessionCanBeOpened == \E s \in Slots : Receipts(s) # {}

\* The engine counts from the newest receipt of the journal, across every restart:
\* the image it belongs to is never the one that is replaced, so a restart never
\* falls back to an older one (session-storage.md: "keeping the newer canonical
\* peer"); and its generation is later than that of every image with a receipt
\* before it, so that no two are confused.
ResumesFromNewest ==
    open => /\ journal[checkpointSeq].kind = "receipt"
            /\ \A n \in checkpointSeq + 1..adopted : journal[n].kind # "receipt"
            /\ \E s \in Slots : slots[s] = journal[checkpointSeq].image
            /\ \A n \in 1..checkpointSeq - 1 : journal[n].kind = "receipt" =>
                   journal[n].image.generation < journal[checkpointSeq].image.generation

\* When close has taken what it expects the worker is at rest: close ignores the
\* EBUSY of snag_binary_io_close and frees what the worker uses.
CloseFindsWorkerQuiet ==
    ~ioPending /\ ~cpPending =>
        io.phase \in {"idle", "failed"} /\ cp.phase \in {"idle", "failed"}

\* An image that cannot be made holds back further work: no ordinary event is
\* adopted once Interval records follow the newest receipt (store.c: "A failed
\* checkpoint prevents the next admission from growing its tail").
BackpressureHolds ==
    [][open /\ open' /\ adopted' = adopted + 1 /\ journal[adopted + 1].kind = "ordinary"
          => ~Due(adopted, checkpointSeq)]_vars

\* A commit and all the maintenance it does return, and so does a close.
CallReturns == engine # "idle" ~> engine = "idle"
-----------------------------------------------------------------------------
\* The inductive invariant behind the safety properties.

\* Record r is the newest receipt among the first n of the journal.
NewestReceiptOf(r, n) ==
    /\ r \in 1..n
    /\ journal[r].kind = "receipt"
    /\ \A m \in r + 1..n : journal[m].kind # "receipt"

\* What the files hold however the process ends: every receipt is for an image
\* taken before it and after the receipt before, and the newest one's is in a slot.
FilesInv ==
    /\ \A m, n \in 1..Len(journal) : m <= n => journal[m].end <= journal[n].end
    /\ \A n \in 1..Len(journal) : journal[n].kind = "receipt" =>
          /\ journal[n].image.generation >= 1
          /\ journal[n].image.boundary \in 1..n - 1
          /\ \A m \in 1..n - 1 : journal[m].kind = "receipt" =>
                /\ journal[m].image.generation < journal[n].image.generation
                /\ m <= journal[n].image.boundary
    /\ slots[0] # slots[1]
    /\ \E r \in 1..Len(journal) : NewestReceiptOf(r, Len(journal))
                                  /\ \E s \in Slots : slots[s] = journal[r].image

\* The request is acknowledged, or it has left its batch in the file without that.
Acknowledged == io.phase = "done" /\ ~result.error
LeftInFile   == io.written /\ ~Acknowledged

\* The worker's request is the candidate's, and the journal ends with what it did.
RequestInv ==
    /\ ioPending <=> io.phase \in {"queued", "done"}
    /\ io.phase = "idle" => io = NoIo
    /\ io.written => io.attempted
    /\ io.phase = "failed" => io.attempted
    /\ io.phase # "idle" /\ ~io.attempted => ~io.retried
    /\ io.phase = "done" =>
          /\ ~result.error => result.receipt = (io.kind = "receipt") /\ io.written
          /\ result.error => result.retryable = (io.attempted /\ ~io.retried)
    /\ io.phase # "idle" =>
          /\ candidate # "none"
          /\ io.kind = IF candidate = "receipt" THEN "receipt" ELSE staged.kind
          /\ io.retried = retried
          /\ io.kind = "receipt" /\ ~Acknowledged => awaitingReceipt
    /\ open => Len(journal) = IF LeftInFile THEN durable + 1 ELSE durable
    /\ LeftInFile => journal[Len(journal)].kind = io.kind
                     /\ (io.kind = "receipt" => journal[Len(journal)].image = published.image)
    /\ Acknowledged => journal[durable].kind = io.kind

\* The slot that a publication does not replace.
KeptSlot == 1 - ReplacedSlot

\* An image later than the one of the worker's newest receipt, in the other slot or
\* on its way there.
Later(slot, image) ==
    /\ slot = ReplacedSlot
    /\ image.generation > usable[KeptSlot].generation
    /\ image.boundary \in usable[KeptSlot].sequence..durable

\* The worker keeps the slot of the newest receipt.
SlotsInv ==
    /\ open =>
          /\ NewestReceiptOf(usable[KeptSlot].sequence, durable)
          /\ slots[KeptSlot] = journal[usable[KeptSlot].sequence].image
          /\ usable[KeptSlot].generation = slots[KeptSlot].generation
          /\ usable[ReplacedSlot].sequence < usable[KeptSlot].sequence
          /\ usable[ReplacedSlot].generation < usable[KeptSlot].generation
    /\ cp.phase # "idle" => Later(cp.slot, cp.image) /\ ~awaitingReceipt
    /\ cp.phase = "idle" => cp.step = 1
    /\ cp.phase \in {"queued", "failed"} => cp.step <= Len(Steps)
    /\ cp.step > 5 => slots[cp.slot] = cp.image
    /\ awaitingReceipt => Later(published.slot, published.image)
                          /\ slots[published.slot] = published.image

\* What the engine believes of the worker and of its history.
EngineInv ==
    /\ ~faulted
    /\ engine = "closing" => stops < MaxStops
    /\ engine = "waiting" => ioPending
    /\ engine = "publishing" => cpPending
    /\ engine = "receipting" => cpPublished
    /\ engine = "committing" => wanted # NoEvent
    /\ cpPending <=> cp.phase \in {"queued", "done"}
    /\ cpPublished => cp.phase = "idle"
    /\ candidate = "receipt" => cpPublished
    /\ candidate = "event" => staged # NoEvent
    /\ candidate = "none" => ~retried
    /\ engine # "closing" => (candidate = "none" <=> io.phase = "idle")
    /\ open /\ (engine = "closing" => ioPending) =>
          adopted = IF Acknowledged THEN durable - 1 ELSE durable
    /\ open => adopted \in 0..durable
    /\ ~open => engine = "idle" /\ io.phase = "idle" /\ cp.phase = "idle"

HistoryInv ==
    /\ open =>
          /\ NewestReceiptOf(checkpointSeq, adopted)
          /\ \E s \in Slots :
                /\ slots[s] = journal[checkpointSeq].image
                /\ cp.phase # "idle" => cp.slot # s
    /\ open /\ engine # "closing" /\ ~(Acknowledged /\ io.kind = "receipt") =>
          checkpointSeq = usable[KeptSlot].sequence
    /\ candidate = "event" /\ staged.kind = "ordinary" => ~Due(adopted, checkpointSeq)
    /\ engine = "committing" /\ wanted.kind = "ordinary" /\ candidate # "event" =>
          ~Due(adopted, checkpointSeq)

CheckpointInv == TypeOK /\ FilesInv /\ RequestInv /\ SlotsInv /\ EngineInv /\ HistoryInv
-----------------------------------------------------------------------------
\* When a session can be opened: the strengthening of CheckpointInv it takes.

\* The heaviest record, and room in the window for as many of them as can follow
\* the boundary of the newest image.
Heaviest   == Max(Sizes \cup {ReceiptSize})
RecordsFit == (Interval + 2 * MaxClosures + 1) * Heaviest <= Window

\* Records m to n are closing events.
ClosureRun(m, n) == \A k \in m..n : journal[k].kind = "closure"

\* Another record of some kind may follow the journal's last.
OrdinaryFits ==
    \E r \in 1..Len(journal) :
        journal[r].kind = "receipt" /\ Len(journal) + 1 <= r + Interval
ClosureFits ==
    \A m \in 1..Len(journal) + 1 :
        ClosureRun(m, Len(journal)) => Len(journal) + 1 - m < MaxClosures

\* The image was taken when one was due.
TakenWhenDue(image) ==
    \A m \in 1..durable : journal[m].kind = "receipt" => m + Interval <= image.boundary

\* What the journal holds: no record is heavier than the heaviest, an ordinary event
\* lies near a receipt before it, an image far behind the receipts before its own,
\* and closing events follow one another only so far.
TailInv ==
    /\ \A m, n \in 0..Len(journal) : m <= n => End(n) <= End(m) + (n - m) * Heaviest
    /\ \A n \in 2..Len(journal) : journal[n].kind = "ordinary" =>
          \E r \in 1..n - 1 : journal[r].kind = "receipt" /\ n <= r + Interval
    /\ \A n \in 1..Len(journal) : \A m \in 1..n - 1 :
          journal[n].kind = "receipt" /\ journal[m].kind = "receipt" =>
              m + Interval <= journal[n].image.boundary
    /\ \A n \in 1..Len(journal) : \A m \in 1..n : ClosureRun(m, n) => n - m < MaxClosures

\* What the worker will append keeps that.
RequestFits ==
    /\ io.size <= Heaviest
    /\ io.kind = "ordinary" /\ ~io.written => OrdinaryFits
    /\ io.kind = "closure" /\ ~io.written => ClosureFits

\* An image that will have a receipt was taken when one was due.
ImagesFit ==
    /\ awaitingReceipt => TakenWhenDue(published.image)
    /\ cp.phase # "idle" => TakenWhenDue(cp.image)

\* What the engine is about to ask for keeps that.
AdmissionInv ==
    /\ engine = "maintaining" => Due(adopted, checkpointSeq)
    /\ wanted.kind = "closure" =>
          /\ engine \in {"committing", "waiting"}
          /\ engine = "waiting" => candidate = "event"
          /\ engine = "committing" /\ candidate = "none" => ClosureFits

WindowInv == CheckpointInv /\ TailInv /\ RequestFits /\ ImagesFit /\ AdmissionInv
=============================================================================
