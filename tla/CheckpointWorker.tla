--------------------------- MODULE CheckpointWorker ---------------------------
(***************************************************************************)
(* The I/O worker of a session with both of its duties: it commits one     *)
(* batch at a time to the journal and, step by step when no batch waits,   *)
(* publishes one image over the slot that may be replaced                  *)
(* (store_binary_io.c, store_binary_publish.c).  The engine calls it under *)
(* its mutex; both completions share one wake-up.                          *)
(***************************************************************************)
EXTENDS CheckpointFiles

CONSTANT MaxFailures   \* bound: failures of system calls

ASSUME WorkerAssumption == MaxFailures \in Nat

VARIABLES
    io,              \* the one request for the journal, and its phase
    result,          \* of the last request: struct snag_binary_io_result
    durable,         \* records acknowledged
    cp,              \* the one publication, and its phase
    published,       \* the image that awaits its receipt
    awaitingReceipt,
    usable,          \* generation and receipt of each slot, 0 when unusable
    wake,            \* the wake-up descriptor is readable
    failures         \* failures so far

workerVars == <<io, result, durable, cp, published, awaitingReceipt, usable, wake, failures>>

Steps  == <<"prepare", "create", "write", "sync", "rename", "dirsync">>
NoIo   == [phase |-> "idle", kind |-> "none", size |-> 0, written |-> FALSE,
           attempted |-> FALSE, retried |-> FALSE]
NoCp   == [phase |-> "idle", step |-> 1, slot |-> 0, image |-> NoImage]
Clear  == [error |-> FALSE, retryable |-> FALSE, receipt |-> FALSE]
Phases == {"idle", "queued", "done", "failed"}
Requests ==
    [phase: Phases, kind: Kinds \cup {"none"}, size: Nat, written: BOOLEAN,
     attempted: BOOLEAN, retried: BOOLEAN]
Publications == [phase: Phases, step: 1..Len(Steps) + 1, slot: Slots, image: Images]
NoPublished == [slot |-> 0, image |-> NoImage]

\* MUTANT of StartWorker: the slots' receipts are not handed to the worker.
StartWorkerUnaware(boundary, slotsUsable) ==
    /\ io' = NoIo
    /\ result' = Clear
    /\ durable' = boundary
    /\ cp' = NoCp
    /\ published' = NoPublished
    /\ awaitingReceipt' = FALSE
    /\ usable' = [s \in Slots |-> [generation |-> 0, sequence |-> 0]]
    /\ wake' = FALSE
    /\ UNCHANGED failures

\* snag_binary_io_start and snag_binary_io_checkpoint_setup.
StartWorker(boundary, slotsUsable) ==
    /\ io' = NoIo
    /\ result' = Clear
    /\ durable' = boundary
    /\ cp' = NoCp
    /\ published' = NoPublished
    /\ awaitingReceipt' = FALSE
    /\ usable' = slotsUsable
    /\ wake' = FALSE
    /\ UNCHANGED failures

WorkerInit ==
    /\ io = NoIo
    /\ result = Clear
    /\ durable = Len(journal)
    /\ cp = NoCp
    /\ published = NoPublished
    /\ awaitingReceipt = FALSE
    /\ usable = [s \in Slots |-> Usable(s)]
    /\ wake = FALSE
    /\ failures = 0
-----------------------------------------------------------------------------
\* Calls of the engine.

\* refresh_wake: drained, then sent again for a completion that is still due.
RefreshWake(ioPhase, cpPhase) == wake' = (ioPhase = "done" \/ cpPhase = "done")

\* submit_request
SubmitRequest(kind, size) ==
    /\ io.phase = "idle"
    /\ io' = [NoIo EXCEPT !.phase = "queued", !.kind = kind, !.size = size]
    /\ result' = Clear
    /\ UNCHANGED <<durable, cp, published, awaitingReceipt, usable, wake, failures>>

\* snag_binary_io_checkpoint_receipt_submit
SubmitReceipt ==
    /\ awaitingReceipt
    /\ SubmitRequest("receipt", ReceiptSize)

\* snag_binary_io_retry
RetryRequest ==
    /\ io.phase = "failed"
    /\ ~io.retried
    /\ io' = [io EXCEPT !.phase = "queued", !.retried = TRUE]
    /\ result' = [result EXCEPT !.error = FALSE, !.retryable = FALSE]
    /\ UNCHANGED <<durable, cp, published, awaitingReceipt, usable, wake, failures>>

\* take_result: a request that may have reached the file is kept, and bars others.
TakeResult ==
    /\ io.phase = "done"
    /\ io' = IF result.error /\ io.attempted THEN [io EXCEPT !.phase = "failed"] ELSE NoIo
    /\ RefreshWake("idle", cp.phase)
    /\ UNCHANGED <<result, durable, cp, published, awaitingReceipt, usable, failures>>

\* MUTANT of ReplacedSlot: the comparison is turned around.
ReplacedSlotNewest == IF usable[0].sequence > usable[1].sequence THEN 0 ELSE 1

\* The slot with the earlier receipt, or an unusable one.
ReplacedSlot == IF usable[0].sequence <= usable[1].sequence THEN 0 ELSE 1

NextGeneration == Max({usable[s].generation : s \in Slots}) + 1

\* snag_binary_io_checkpoint_submit of a snapshot taken at boundary
SubmitCheckpoint(boundary) ==
    /\ cp.phase = "idle"
    /\ ~awaitingReceipt
    /\ boundary = durable
    /\ cp' = [phase |-> "queued", step |-> 1, slot |-> ReplacedSlot,
              image |-> [generation |-> NextGeneration, boundary |-> boundary]]
    /\ UNCHANGED <<io, result, durable, published, awaitingReceipt, usable, wake, failures>>

\* snag_binary_io_checkpoint_retry
RetryCheckpoint ==
    /\ cp.phase = "failed"
    /\ cp' = [cp EXCEPT !.phase = "queued"]
    /\ UNCHANGED <<io, result, durable, published, awaitingReceipt, usable, wake, failures>>

\* The publication went through its last step.
PublicationComplete == cp.step > Len(Steps)

\* take_checkpoint_result
TakePublished ==
    /\ cp.phase = "done"
    /\ PublicationComplete
    /\ published' = [slot |-> cp.slot, image |-> cp.image]
    /\ awaitingReceipt' = TRUE
    /\ cp' = NoCp
    /\ RefreshWake(io.phase, "idle")
    /\ UNCHANGED <<io, result, durable, usable, failures>>

TakePublicationError ==
    /\ cp.phase = "done"
    /\ ~PublicationComplete
    /\ cp' = [cp EXCEPT !.phase = "failed"]
    /\ RefreshWake(io.phase, "failed")
    /\ UNCHANGED <<io, result, durable, published, awaitingReceipt, usable, failures>>
-----------------------------------------------------------------------------
\* Steps of the thread.  The engine cannot tell a queued request from a running
\* one, so a step that ends in a completion is one action.

Image == IF io.kind = "receipt" THEN published.image ELSE NoImage

\* MUTANT of BatchWritten: a retry takes its batch for written.
BatchWrittenByFirst ==
    IF io.written \/ io.retried
    THEN UNCHANGED journal
    ELSE journal' = Append(journal, RecordAfter(journal, io.kind, io.size, Image))

\* write_full: what a failed attempt left of the batch is kept, the rest appended.
BatchWritten ==
    IF io.written
    THEN UNCHANGED journal
    ELSE journal' = Append(journal, RecordAfter(journal, io.kind, io.size, Image))

\* The acknowledgement of run_owner; that of a receipt makes its slot usable.
BatchDone ==
    /\ durable' = durable + 1
    /\ result' = [error |-> FALSE, retryable |-> FALSE, receipt |-> io.kind = "receipt"]
    /\ IF io.kind = "receipt"
       THEN /\ usable' = [usable EXCEPT ![published.slot] =
                            [generation |-> published.image.generation,
                             sequence |-> durable + 1]]
            /\ awaitingReceipt' = FALSE
       ELSE UNCHANGED <<usable, awaitingReceipt>>

WorkerCommits ==
    /\ open
    /\ io.phase = "queued"
    /\ BatchWritten
    /\ BatchDone
    /\ io' = [io EXCEPT !.phase = "done", !.written = TRUE, !.attempted = TRUE]
    /\ wake' = TRUE
    /\ UNCHANGED <<slots, open, stops, cp, published, failures>>

\* The attempt fails, with the whole batch in the file or not.
WorkerFails(whole) ==
    /\ open
    /\ io.phase = "queued"
    /\ failures < MaxFailures
    /\ failures' = failures + 1
    /\ IF whole THEN BatchWritten ELSE UNCHANGED journal
    /\ io' = [io EXCEPT !.phase = "done", !.written = io.written \/ whole, !.attempted = TRUE]
    /\ result' = [error |-> TRUE, retryable |-> ~io.retried, receipt |-> FALSE]
    /\ wake' = TRUE
    /\ UNCHANGED <<slots, open, stops, durable, cp, published, awaitingReceipt, usable>>

\* encode_request fails before any I/O.
EncodeFails ==
    /\ open
    /\ io.phase = "queued"
    /\ ~io.attempted
    /\ failures < MaxFailures
    /\ failures' = failures + 1
    /\ io' = [io EXCEPT !.phase = "done"]
    /\ result' = [error |-> TRUE, retryable |-> FALSE, receipt |-> FALSE]
    /\ wake' = TRUE
    /\ UNCHANGED <<slots, journal, open, stops, durable, cp, published, awaitingReceipt, usable>>

\* rename_checkpoint: once the file is in its slot, renaming again changes nothing.
Renamed == slots' = [slots EXCEPT ![cp.slot] = cp.image]

PublishesNow == open /\ cp.phase = "queued" /\ io.phase # "queued"

\* snag_binary_publication_step, with the batches of the journal first.
PublicationStep ==
    /\ PublishesNow
    /\ IF Steps[cp.step] = "rename" THEN Renamed ELSE UNCHANGED slots
    /\ cp' = [cp EXCEPT !.step = cp.step + 1,
                        !.phase = IF cp.step = Len(Steps) THEN "done" ELSE "queued"]
    /\ wake' = (wake \/ cp.step = Len(Steps))
    /\ UNCHANGED <<journal, open, stops, io, result, durable, published, awaitingReceipt,
                   usable, failures>>

\* A failed step is where the next attempt starts; a rename may have happened.
PublicationFails(renamed) ==
    /\ PublishesNow
    /\ failures < MaxFailures
    /\ failures' = failures + 1
    /\ renamed => Steps[cp.step] = "rename"
    /\ IF renamed THEN Renamed ELSE UNCHANGED slots
    /\ cp' = [cp EXCEPT !.phase = "done"]
    /\ wake' = TRUE
    /\ UNCHANGED <<journal, open, stops, io, result, durable, published, awaitingReceipt, usable>>

WorkerNext ==
    \/ WorkerCommits
    \/ \E whole \in BOOLEAN : WorkerFails(whole)
    \/ EncodeFails
    \/ PublicationStep
    \/ \E renamed \in BOOLEAN : PublicationFails(renamed)
=============================================================================
