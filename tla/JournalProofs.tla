--------------------------- MODULE JournalProofs ---------------------------
(***************************************************************************)
(* Proofs that the journal keeps its safety properties, and implements the *)
(* abstract durable log, for every set of events, every width of a batch   *)
(* and every number of stops.                                              *)
(***************************************************************************)
EXTENDS Journal, JournalFileProofs
-----------------------------------------------------------------------------
\* The initial state satisfies every part of the invariant.
LEMMA InitInv == Init => JournalInv
<1> SUFFICES ASSUME Init PROVE JournalInv
  OBVIOUS
<1> USE DEF Init
<1>1. 0 * Width = 0 /\ Len(<<>>) = 0
  BY Places
<1>2. TypeOK
  <2>1. file \in Seq(Chunks \cup {Garbage}) /\ log \in Seq(Events)
    BY EmptySeq
  <2>2. stops \in 0..MaxStops
    BY JournalAssumption
  <2>3. QED BY <2>1, <2>2 DEF TypeOK, Phases, Requests, NoRequest
<1>3. EngineInv /\ WorkerInv /\ AnchorInv
  BY DEF EngineInv, WorkerInv, AnchorInv
<1>4. FileInv
  BY <1>1, Places DEF FileInv
<1>5. QED BY <1>2, <1>3, <1>4 DEF JournalInv

\* Nothing of the file, the log and the candidate changes: the file stays as it is.
LEMMA SameFile == FileInv /\ UNCHANGED <<file, open, log, candidate>> => FileInv'
BY DEF FileInv

\* The engine waits again, gives up waiting or begins to close.
LEMMA WaitSteps ==
    ASSUME JournalInv, WaitAgain \/ Retry \/ WaitFails \/ CloseBegins
    PROVE  JournalInv'
<1> USE DEF JournalInv, fileVars, engineVars, workerVars, Idle, Phases, Requests
<1>1. CASE WaitAgain
  <2>1. TypeOK'
    BY <1>1 DEF TypeOK, WaitAgain
  <2>2. EngineInv'
    BY <1>1 DEF TypeOK, EngineInv, WaitAgain
  <2>3. WorkerInv'
    BY <1>1 DEF TypeOK, EngineInv, WorkerInv, WaitAgain
  <2>4. AnchorInv'
    BY <1>1 DEF TypeOK, EngineInv, WorkerInv, AnchorInv, WaitAgain
  <2>5. FileInv'
    BY <1>1, SameFile DEF WaitAgain
  <2>6. QED BY <2>1, <2>2, <2>3, <2>4, <2>5
<1>2. CASE Retry
  <2>1. TypeOK'
    BY <1>2 DEF TypeOK, Retry
  <2>2. EngineInv'
    BY <1>2 DEF TypeOK, EngineInv, Retry
  <2>3. WorkerInv'
    BY <1>2 DEF TypeOK, EngineInv, WorkerInv, Retry
  <2>4. AnchorInv'
    BY <1>2 DEF TypeOK, EngineInv, WorkerInv, AnchorInv, Retry
  <2>5. FileInv'
    BY <1>2, SameFile DEF Retry
  <2>6. QED BY <2>1, <2>2, <2>3, <2>4, <2>5
<1>3. CASE WaitFails
  <2>1. TypeOK'
    BY <1>3 DEF TypeOK, WaitFails
  <2>2. EngineInv'
    BY <1>3 DEF TypeOK, EngineInv, WaitFails
  <2>3. WorkerInv'
    BY <1>3 DEF TypeOK, EngineInv, WorkerInv, WaitFails
  <2>4. AnchorInv'
    BY <1>3 DEF TypeOK, EngineInv, WorkerInv, AnchorInv, WaitFails
  <2>5. FileInv'
    BY <1>3, SameFile DEF WaitFails
  <2>6. QED BY <2>1, <2>2, <2>3, <2>4, <2>5
<1>4. CASE CloseBegins
  <2>1. TypeOK'
    BY <1>4 DEF TypeOK, CloseBegins
  <2>2. EngineInv'
    BY <1>4 DEF TypeOK, EngineInv, CloseBegins
  <2>3. WorkerInv'
    BY <1>4 DEF TypeOK, EngineInv, WorkerInv, CloseBegins
  <2>4. AnchorInv'
    BY <1>4 DEF TypeOK, EngineInv, WorkerInv, AnchorInv, CloseBegins
  <2>5. FileInv'
    BY <1>4, SameFile DEF CloseBegins
  <2>6. QED BY <2>1, <2>2, <2>3, <2>4, <2>5
<1>5. QED BY <1>1, <1>2, <1>3, <1>4

\* The worker takes a request and ends an attempt at it.
LEMMA AttemptSteps ==
    ASSUME JournalInv, 
           \/ WorkerTakes
           \/ EncodeFails
           \/ BeginAppend
           \/ AttemptFails
           \/ WriteReturns
           \/ SyncReturns
    PROVE  JournalInv'
<1> USE DEF JournalInv, fileVars, engineVars, workerVars, Phases, Requests, Complete, After
<1>1. CASE WorkerTakes
  <2>1. TypeOK'
    BY <1>1 DEF TypeOK, WorkerTakes
  <2>2. EngineInv'
    BY <1>1 DEF TypeOK, EngineInv, WorkerTakes
  <2>3. WorkerInv'
    BY <1>1 DEF TypeOK, EngineInv, WorkerInv, WorkerTakes
  <2>4. AnchorInv'
    BY <1>1 DEF TypeOK, EngineInv, WorkerInv, AnchorInv, WorkerTakes
  <2>5. FileInv'
    BY <1>1, SameFile DEF WorkerTakes
  <2>6. QED BY <2>1, <2>2, <2>3, <2>4, <2>5
<1>2. CASE EncodeFails
  <2>1. TypeOK'
    BY <1>2 DEF TypeOK, EncodeFails
  <2>2. EngineInv'
    BY <1>2 DEF TypeOK, EngineInv, EncodeFails
  <2>3. WorkerInv'
    BY <1>2 DEF TypeOK, EngineInv, WorkerInv, EncodeFails
  <2>4. AnchorInv'
    BY <1>2 DEF TypeOK, EngineInv, WorkerInv, AnchorInv, EncodeFails
  <2>5. FileInv'
    BY <1>2, SameFile DEF EncodeFails
  <2>6. QED BY <2>1, <2>2, <2>3, <2>4, <2>5
<1>3. CASE BeginAppend
  <2>1. TypeOK'
    BY <1>3 DEF TypeOK, BeginAppend
  <2>2. EngineInv'
    BY <1>3 DEF TypeOK, EngineInv, BeginAppend
  <2>3. WorkerInv'
    BY <1>3 DEF TypeOK, EngineInv, WorkerInv, BeginAppend
  <2>4. AnchorInv'
    BY <1>3 DEF TypeOK, EngineInv, WorkerInv, AnchorInv, BeginAppend
  <2>5. FileInv'
    BY <1>3, SameFile DEF BeginAppend
  <2>6. QED BY <2>1, <2>2, <2>3, <2>4, <2>5
<1>4. CASE AttemptFails
  <2>1. TypeOK'
    BY <1>4 DEF TypeOK, AttemptFails
  <2>2. EngineInv'
    BY <1>4 DEF TypeOK, EngineInv, AttemptFails
  <2>3. WorkerInv'
    BY <1>4 DEF TypeOK, EngineInv, WorkerInv, AttemptFails
  <2>4. AnchorInv'
    BY <1>4 DEF TypeOK, EngineInv, WorkerInv, AnchorInv, AttemptFails
  <2>5. FileInv'
    BY <1>4, SameFile DEF AttemptFails
  <2>6. QED BY <2>1, <2>2, <2>3, <2>4, <2>5
<1>5. CASE WriteReturns
  <2>0. Len(log) \in Nat /\ durable = Len(log) /\ request.before = Len(log)
        /\ (step = "sync" => written = Len(log) + 1)
    BY <1>5, LenProperties DEF TypeOK, EngineInv, WorkerInv, AnchorInv, WriteReturns
  <2>1. TypeOK'
    BY <1>5, <2>0 DEF TypeOK, WriteReturns
  <2>2. EngineInv'
    BY <1>5 DEF TypeOK, EngineInv, WriteReturns
  <2>3. WorkerInv'
    BY <1>5 DEF TypeOK, EngineInv, WorkerInv, WriteReturns
  <2>4. AnchorInv'
    BY <1>5 DEF TypeOK, EngineInv, WorkerInv, AnchorInv, WriteReturns
  <2>5. FileInv'
    BY <1>5, SameFile DEF WriteReturns
  <2>6. QED BY <2>1, <2>2, <2>3, <2>4, <2>5
<1>6. CASE SyncReturns
  <2>0. Len(log) \in Nat /\ durable = Len(log) /\ request.before = Len(log)
        /\ (step = "sync" => written = Len(log) + 1)
    BY <1>6, LenProperties DEF TypeOK, EngineInv, WorkerInv, AnchorInv, SyncReturns
  <2>1. TypeOK'
    <3>1. durable' = Len(log) + 1 /\ written' = durable' /\ durable' \in Nat
      BY <1>6, <2>0 DEF SyncReturns
    <3>2. QED BY <1>6, <2>0, <3>1 DEF TypeOK, SyncReturns
  <2>2. EngineInv'
    BY <1>6 DEF TypeOK, EngineInv, SyncReturns
  <2>3. WorkerInv'
    BY <1>6 DEF TypeOK, EngineInv, WorkerInv, SyncReturns
  <2>4. AnchorInv'
    BY <1>6 DEF TypeOK, EngineInv, WorkerInv, AnchorInv, SyncReturns
  <2>5. FileInv'
    BY <1>6, SameFile DEF SyncReturns
  <2>6. QED BY <2>1, <2>2, <2>3, <2>4, <2>5
<1>7. QED BY <1>1, <1>2, <1>3, <1>4, <1>5, <1>6

\* The lengths that the steps on the file compare.
LEMMA Lengths ==
    ASSUME TypeOK
    PROVE  /\ file \in Files /\ Len(file) \in Nat
           /\ Len(log) \in Nat
           /\ Len(log) * Width \in Nat
           /\ (Len(log) + 1) * Width = Len(log) * Width + Width
           /\ Width \in Nat /\ Width >= 1
BY LenProperties, Places DEF TypeOK, Files

\* The engine stages an event where the file ends.
LEMMA SubmitStep ==
    ASSUME JournalInv, NEW e \in Events, SubmitNew(e)
    PROVE  JournalInv'
<1> USE DEF JournalInv, SubmitNew, Idle, fileVars
<1>1. /\ phase = "idle" /\ engine = "idle" /\ open /\ ~ioPending /\ ~retried
      /\ candidate = NoEvent /\ durable = Len(log) /\ step = "none"
  BY DEF EngineInv, WorkerInv, AnchorInv
<1>2. Len(file) = Len(log) * Width
  BY <1>1 DEF FileInv
<1>3. TypeOK'
  BY <1>1 DEF TypeOK, Phases, Requests
<1>4. EngineInv'
  BY <1>1 DEF EngineInv
<1>5. WorkerInv'
  <2>1. e # NoEvent
    BY JournalAssumption
  <2>2. retried = FALSE
    BY <1>1 DEF TypeOK
  <2>3. QED BY <1>1, <1>2, <2>1, <2>2 DEF WorkerInv
<1>6. AnchorInv'
  BY <1>1 DEF AnchorInv
<1>7. FileInv'
  <2>1. candidate' = e /\ e # NoEvent /\ \A n \in 1..Len(log) : log[n] # e
    BY JournalAssumption
  <2>2. UNCHANGED <<file, log, open>>
    OBVIOUS
  <2>3. \A k : k \notin 1..(Len(file) - Len(log) * Width)
    BY <1>2, Lengths
  <2>4. FileInv
    OBVIOUS
  <2> HIDE DEF SubmitNew, JournalInv
  <2>5. QED BY <1>1, <1>2, <2>1, <2>2, <2>3, <2>4 DEF FileInv
<1>8. QED BY <1>3, <1>4, <1>5, <1>6, <1>7

\* The worker appends the chunk of the candidate's batch that comes next.
LEMMA AppendStep ==
    ASSUME JournalInv, AppendChunk
    PROVE  JournalInv'
<1> USE DEF JournalInv, fileVars, engineVars, workerVars
<1> DEFINE base == Len(log) * Width
           next == Chunk(candidate, Len(log) + 1, Len(file) - base + 1)
<1>1. /\ phase = "running" /\ step = "append" /\ open /\ request.attempted
      /\ request.ev = candidate /\ request.before = Len(log) /\ candidate # NoEvent
      /\ Len(file) < (Len(log) + 1) * Width
  BY DEF AppendChunk, WorkerInv, After
<1>2. /\ base \in Nat /\ Len(file) \in Nat /\ Width \in Nat /\ Len(log) \in Nat
      /\ base <= Len(file) /\ Len(file) < base + Width /\ Width >= 1
      /\ file \in Files
  BY <1>1, Lengths DEF FileInv
<1>3. next \in Chunks
  <2>1. candidate \in Events
    BY <1>1 DEF TypeOK
  <2>2. Len(file) - base + 1 \in 1..Width /\ Len(log) + 1 \in Nat
    BY <1>2
  <2>3. QED BY <2>1, <2>2 DEF Chunk, Chunks
<1>4. file' = Append(file, next)
  <2>1. Len(file) - base + 1 \in 1..Width
    BY <1>2
  <2>2. Bytes(candidate, Len(log) + 1)[Len(file) - base + 1] = next
    BY <2>1 DEF Bytes
  <2>3. QED BY <1>1, <2>2 DEF AppendChunk, After
<1>5. /\ file' \in Files /\ Len(file') = Len(file) + 1
      /\ \A k \in 1..Len(file) : file'[k] = file[k]
      /\ file'[Len(file) + 1] = next
  BY <1>2, <1>3, <1>4, AppendProperties DEF Files
<1>6. UNCHANGED <<open, stops, engineVars, workerVars>>
  BY DEF AppendChunk
<1>7. TypeOK'
  BY <1>5, <1>6 DEF TypeOK, Files
<1>8. EngineInv'
  BY <1>6 DEF EngineInv
<1>9. WorkerInv'
  BY <1>1, <1>6 DEF WorkerInv
<1>10. AnchorInv'
  BY <1>1, <1>6 DEF AnchorInv
<1>11. FileInv'
  <2>1. \A n \in 1..Len(log) : BatchChecks(file', n) /\ file'[n * Width].ev = log[n]
    <3> HIDE DEF base
    <3>1. \A k \in 1..base : file[k] = file'[k]
      BY <1>2, <1>5
    <3>2. base <= Len(file) /\ base <= Len(file')
      BY <1>2, <1>5
    <3>3. ASSUME NEW n \in 1..Len(log)
          PROVE  BatchChecks(file', n) /\ file'[n * Width] = file[n * Width]
      <4>1. BatchChecks(file, n)
        BY <1>1 DEF FileInv
      <4>2. QED BY <1>2, <1>5, <3>1, <3>2, <4>1, SameBatches DEF base
    <3>4. QED BY <1>1, <3>3 DEF FileInv
  <2>2. ASSUME NEW k \in 1..(Len(file') - base)
        PROVE  file'[base + k] = Chunk(candidate, Len(log) + 1, k)
    <3>1. CASE k = Len(file) - base + 1
      <4>1. base + k = Len(file) + 1
        BY <1>2, <3>1
      <4>2. QED BY <1>5, <3>1, <4>1
    <3>2. CASE k # Len(file) - base + 1
      <4>1. k \in 1..(Len(file) - base) /\ base + k \in 1..Len(file)
        BY <1>2, <1>5, <3>2
      <4>2. QED BY <1>1, <1>5, <4>1 DEF FileInv
    <3>3. QED BY <3>1, <3>2
  <2>3. base <= Len(file') /\ Len(file') <= (Len(log) + 1) * Width
    BY <1>2, <1>5, Lengths
  <2>4. QED BY <1>1, <1>6, <2>1, <2>2, <2>3 DEF FileInv
<1>12. QED BY <1>7, <1>8, <1>9, <1>10, <1>11

\* A candidate that is wholly in the file checks as the batch after the log.
LEMMA CandidateWritten ==
    ASSUME TypeOK, FileInv, open, Len(file) = (Len(log) + 1) * Width
    PROVE  /\ BatchChecks(file, Len(log) + 1)
           /\ file[(Len(log) + 1) * Width].ev = candidate
           /\ candidate \in Events
<1>1. Len(log) \in Nat /\ Width \in Nat /\ Width >= 1 /\ Len(log) * Width \in Nat
      /\ (Len(log) + 1) * Width = Len(log) * Width + Width /\ file \in Files
  BY Lengths
<1>2. Len(file) - Len(log) * Width = Width
  BY <1>1
<1>3. \A k \in 1..Width : file[Len(log) * Width + k] = Chunk(candidate, Len(log) + 1, k)
  BY <1>2 DEF FileInv
<1>4. candidate # NoEvent
  BY <1>1, <1>2 DEF FileInv
<1>5. candidate \in Events
  BY <1>4 DEF TypeOK
<1>6. BatchChecks(file, Len(log) + 1)
  BY <1>1, <1>3, <1>5, BatchMeans
<1>7. file[Len(log) * Width + Width] = Chunk(candidate, Len(log) + 1, Width)
  BY <1>1, <1>3
<1>8. QED BY <1>1, <1>5, <1>6, <1>7 DEF Chunk

\* The engine takes an answer: the committed event joins the log, a failed one
\* stays the candidate unless it never reached the file.
LEMMA CommittedStep ==
    ASSUME JournalInv, AckCommitted
    PROVE  JournalInv'
<1> USE DEF JournalInv
<1>1. /\ open /\ engine = "waiting" /\ ~error /\ phase = "done" /\ step = "none"
      /\ durable = Len(log) + 1 /\ written = Len(log) + 1
      /\ request.ev = candidate /\ candidate \in Events /\ candidate # NoEvent
      /\ Len(file) = (Len(log) + 1) * Width
  BY DEF AckCommitted, TakeResult, WorkerInv, AnchorInv, TypeOK
<1>2. /\ log' = Append(log, candidate) /\ candidate' = NoEvent /\ retried' = FALSE
      /\ retryable' = FALSE /\ ioPending' = FALSE /\ engine' = "idle" /\ phase' = "idle"
      /\ request' = NoRequest
      /\ UNCHANGED <<file, open, stops, faulted, step, durable, written, error, resultRetryable>>
  BY <1>1 DEF AckCommitted, TakeResult, fileVars
<1>3. /\ log' \in Seq(Events) /\ Len(log') = Len(log) + 1
      /\ \A n \in 1..Len(log) : log'[n] = log[n]
      /\ log'[Len(log) + 1] = candidate
  BY <1>1, <1>2, AppendProperties DEF TypeOK
<1>4. TypeOK'
  BY <1>2, <1>3 DEF TypeOK, Phases, Requests, NoRequest
<1>5. EngineInv'
  BY <1>1, <1>2 DEF EngineInv
<1>6. WorkerInv'
  BY <1>1, <1>2 DEF WorkerInv
<1>7. AnchorInv'
  BY <1>1, <1>2, <1>3 DEF AnchorInv
<1>8. FileInv'
  <2>0. Len(log) \in Nat /\ Width \in Nat /\ Width >= 1 /\ Len(log) * Width \in Nat
        /\ (Len(log) + 1) * Width = Len(log) * Width + Width /\ file \in Files
    BY Lengths
  <2>1. BatchChecks(file, Len(log) + 1) /\ file[(Len(log) + 1) * Width].ev = candidate
    BY <1>1, CandidateWritten
  <2>3. \A n \in 1..Len(log') : BatchChecks(file, n) /\ file[n * Width].ev = log'[n]
    <3> TAKE n \in 1..Len(log')
    <3>1. CASE n = Len(log) + 1
      BY <1>3, <2>1, <3>1
    <3>2. CASE n # Len(log) + 1
      <4>1. n \in 1..Len(log)
        BY <1>3, <2>0, <3>2
      <4>2. QED BY <1>1, <1>3, <4>1 DEF FileInv
    <3>3. QED BY <3>1, <3>2
  <2>4. \A n \in 1..Len(log') : log'[n] # NoEvent
    BY <1>3, JournalAssumption, ElementOfSeq
  <2>5. /\ Len(log') * Width <= Len(file)
        /\ Len(file) <= (Len(log') + 1) * Width
        /\ Len(file) = Len(log') * Width
    BY <1>1, <1>3, <2>0, Places
  <2>6. \A k : k \notin 1..(Len(file) - Len(log') * Width)
    BY <2>5, <2>0
  <2> HIDE DEF JournalInv
  <2>7. QED BY <1>2, <2>3, <2>4, <2>5, <2>6 DEF FileInv
<1>9. QED BY <1>4, <1>5, <1>6, <1>7, <1>8

\* A failed write keeps its candidate; a request that never reached the file is
\* forgotten.
LEMMA FailedStep ==
    ASSUME JournalInv, AckFailed
    PROVE  JournalInv'
<1> USE DEF JournalInv
<1>1. /\ open /\ engine = "waiting" /\ error /\ phase = "done" /\ step = "none"
      /\ resultRetryable = (request.attempted /\ ~retried)
      /\ retried => request.attempted
      /\ request.ev = candidate /\ request.before = Len(log)
      /\ request.retried = retried /\ candidate # NoEvent
      /\ durable = Len(log)
  BY DEF AckFailed, TakeResult, WorkerInv, AnchorInv
<1>2. /\ ioPending' = FALSE /\ engine' = "idle" /\ retryable' = resultRetryable
      /\ UNCHANGED <<file, open, stops, log, retried, faulted, step, durable, written,
                     error, resultRetryable>>
  BY DEF AckFailed, TakeResult, fileVars
<1>3. CASE request.attempted
  <2>1. phase' = "failed" /\ request' = request /\ candidate' = candidate
    BY <1>1, <1>3 DEF AckFailed, TakeResult, TypeOK
  <2>2. TypeOK'
    BY <1>2, <2>1 DEF TypeOK, Phases
  <2>3. EngineInv'
    BY <1>1, <1>2, <2>1 DEF EngineInv
  <2>4. WorkerInv'
    BY <1>1, <1>2, <1>3, <2>1 DEF WorkerInv
  <2>5. AnchorInv'
    BY <1>1, <1>2, <2>1 DEF AnchorInv
  <2>6. FileInv'
    BY <1>2, <2>1, SameFile
  <2>7. QED BY <2>2, <2>3, <2>4, <2>5, <2>6
<1>4. CASE ~request.attempted
  <2>1. phase' = "idle" /\ request' = NoRequest /\ candidate' = NoEvent /\ ~retried
    BY <1>1, <1>4 DEF AckFailed, TakeResult
  <2>2. TypeOK'
    BY <1>2, <2>1 DEF TypeOK, Phases, Requests, NoRequest
  <2>3. EngineInv'
    BY <1>1, <1>2, <2>1 DEF EngineInv
  <2>4. WorkerInv'
    BY <1>1, <1>2, <2>1 DEF WorkerInv
  <2>5. AnchorInv'
    BY <1>1, <1>2, <2>1 DEF AnchorInv
  <2>6. FileInv'
    <3>1. Len(file) = Len(log) * Width
      BY <1>1, <1>4 DEF WorkerInv
    <3>2. \A n \in 1..Len(log) : log[n] # NoEvent
      BY JournalAssumption, ElementOfSeq DEF TypeOK
    <3>3. \A k : k \notin 1..(Len(file) - Len(log) * Width)
      BY <3>1, Lengths
    <3>4. QED BY <1>1, <1>2, <2>1, <3>1, <3>2, <3>3 DEF FileInv
  <2>7. QED BY <2>2, <2>3, <2>4, <2>5, <2>6
<1>5. QED BY <1>3, <1>4

\* A close takes the answer that is still due and adopts nothing.
LEMMA DrainStep ==
    ASSUME JournalInv, CloseDrains
    PROVE  JournalInv'
<1> USE DEF JournalInv
<1>1. /\ open /\ engine = "closing" /\ phase = "done" /\ step = "none"
  BY DEF CloseDrains, TakeResult, WorkerInv
<1>2. /\ ioPending' = FALSE
      /\ UNCHANGED <<file, open, stops, engine, log, candidate, retryable, retried,
                     faulted, step, durable, written, error, resultRetryable>>
  BY DEF CloseDrains, TakeResult, fileVars
<1>3. \/ phase' = "failed" /\ request' = request /\ request.attempted /\ error
      \/ phase' = "idle" /\ request' = NoRequest
  BY DEF CloseDrains, TakeResult
<1>4. TypeOK'
  <2>1. request \in Requests /\ NoRequest \in Requests
    BY DEF TypeOK, Requests, NoRequest
  <2>2. request' \in Requests /\ phase' \in Phases
    BY <1>3, <2>1 DEF Phases
  <2>3. QED BY <1>2, <2>2 DEF TypeOK
<1>5. EngineInv'
  BY <1>1, <1>2, <1>3 DEF EngineInv
<1>6. WorkerInv'
  BY <1>1, <1>2, <1>3 DEF WorkerInv
<1>7. AnchorInv'
  BY <1>1, <1>2, <1>3 DEF AnchorInv
<1>8. FileInv'
  BY <1>2, SameFile
<1>9. QED BY <1>4, <1>5, <1>6, <1>7, <1>8

\* When the process has stopped nothing is held but the file.
LEMMA StoppedInv ==
    ASSUME JournalInv, Stopped, stops < MaxStops, file' \in Files
    PROVE  JournalInv'
<1> USE DEF JournalInv, Stopped, StartEngine, StartWorker
<1>1. <<>> \in Seq(Events) /\ Len(<<>>) = 0
  BY EmptySeq
<1>2. TypeOK'
  <2>1. stops' \in 0..MaxStops
    BY JournalAssumption DEF TypeOK
  <2>2. QED BY <1>1, <2>1 DEF TypeOK, Phases, Requests, NoRequest, Files
<1>3. EngineInv'
  BY DEF EngineInv
<1>4. WorkerInv'
  BY DEF WorkerInv
<1>5. AnchorInv'
  BY DEF AnchorInv
<1>6. FileInv'
  BY DEF FileInv
<1>7. QED BY <1>2, <1>3, <1>4, <1>5, <1>6

\* The process closes the session, crashes, or goes down with the machine.
LEMMA StopSteps ==
    ASSUME JournalInv, CloseEnds \/ Crash \/ LosePower
    PROVE  JournalInv'
<1>1. Stopped /\ stops < MaxStops
  BY DEF CloseEnds, Crash, LosePower, JournalInv, EngineInv
<1>2. file' \in Files
  <2>1. file \in Files
    BY DEF JournalInv, TypeOK, Files
  <2>2. file' = file \/ file' \in Torn(file)
    BY DEF CloseEnds, Crash, LosePower
  <2>3. QED BY <2>1, <2>2, TornIs
<1>3. QED BY <1>1, <1>2, StoppedInv

\* A recovery adopts what it has verified, and the file ends there.
LEMMA RecoverStep ==
    ASSUME JournalInv, Recover
    PROVE  JournalInv'
<1> DEFINE v == Verified(file)
<1>1. file \in Files /\ v \in Nat
  BY VerifiedIs DEF JournalInv, TypeOK, Files
<1>2. /\ open' = TRUE /\ engine' = "idle" /\ candidate' = NoEvent /\ ioPending' = FALSE
      /\ retryable' = FALSE /\ retried' = FALSE /\ faulted' = FALSE /\ phase' = "idle"
      /\ request' = NoRequest /\ step' = "none" /\ durable' = v /\ written' = v
      /\ error' = FALSE /\ resultRetryable' = FALSE /\ stops' = stops
  BY DEF Recover, StartEngine, StartWorker
<1>3. /\ log' = Recovered(file) /\ log' \in Seq(Events) /\ Len(log') = v
      /\ \A n \in 1..v : log'[n] = file[n * Width].ev
  BY <1>1, RecoveredIs DEF Recover, StartEngine
<1>4. /\ file' \in Files
      /\ Len(file') = v * Width
      /\ \A n \in 1..v : BatchChecks(file', n) /\ file'[n * Width] = file[n * Width]
  <2>1. file' = SubSeq(file, 1, Verified(file) * Width)
    BY DEF Recover
  <2>2. QED BY <1>1, <2>1, CutFile
<1> HIDE DEF v
<1>5. TypeOK'
  BY <1>1, <1>2, <1>3, <1>4 DEF JournalInv, TypeOK, Phases, Requests, NoRequest, Files
<1>6. EngineInv'
  BY <1>2 DEF EngineInv
<1>7. WorkerInv'
  BY <1>2 DEF WorkerInv
<1>8. AnchorInv'
  BY <1>2, <1>3 DEF AnchorInv
<1>9. FileInv'
  <2>1. Len(log') * Width = v * Width /\ v * Width \in Nat
        /\ (Len(log') + 1) * Width = v * Width + Width /\ Width \in Nat
    BY <1>1, <1>3, Places
  <2>2. Len(log') * Width <= Len(file') /\ Len(file') <= (Len(log') + 1) * Width
    BY <1>4, <2>1
  <2>3. \A k : k \notin 1..(Len(file') - Len(log') * Width)
    BY <1>4, <2>1
  <2>4. \A n \in 1..Len(log') : log'[n] # NoEvent
    BY <1>3, JournalAssumption, ElementOfSeq
  <2>5. \A n \in 1..Len(log') : BatchChecks(file', n) /\ file'[n * Width].ev = log'[n]
    BY <1>3, <1>4
  <2>6. QED BY <1>2, <1>4, <2>1, <2>2, <2>3, <2>4, <2>5 DEF FileInv
<1>10. QED BY <1>5, <1>6, <1>7, <1>8, <1>9 DEF JournalInv

\* Every step keeps the invariant.
LEMMA InvStep == JournalInv /\ [Next]_journalVars => JournalInv'
<1> SUFFICES ASSUME JournalInv, [Next]_journalVars PROVE JournalInv'
  OBVIOUS
<1>1. CASE \E e \in Events : SubmitNew(e)
  BY <1>1, SubmitStep
<1>2. CASE WaitAgain \/ Retry \/ WaitFails \/ CloseBegins
  BY <1>2, WaitSteps
<1>3. CASE WorkerNext
  BY <1>3, AttemptSteps, AppendStep DEF WorkerNext
<1>4. CASE TakeNext
  BY <1>4, CommittedStep, FailedStep, DrainStep DEF TakeNext
<1>5. CASE CloseEnds \/ Crash \/ LosePower
  BY <1>5, StopSteps
<1>6. CASE Recover
  BY <1>6, RecoverStep
<1>7. CASE UNCHANGED journalVars
  BY <1>7 DEF JournalInv, TypeOK, EngineInv, WorkerInv, AnchorInv, FileInv, journalVars,
              fileVars, engineVars, workerVars
<1>8. QED BY <1>1, <1>2, <1>3, <1>4, <1>5, <1>6, <1>7 DEF Next
-----------------------------------------------------------------------------
\* The parts of the invariant hold together in every state of the journal.
THEOREM JournalSafe == Spec => []JournalInv
BY InitInv, InvStep, PTL DEF Spec

\* The journal's state keeps its types.
THEOREM JournalTypes == Spec => []TypeOK
<1>1. JournalInv => TypeOK
  BY DEF JournalInv
<1>2. QED BY <1>1, JournalSafe, PTL

\* No acknowledgement ever contradicts the boundary that the engine staged
\* (binary_ack_candidate), so no session faults.
THEOREM SessionsNeverFault == Spec => []NeverFaulted
<1>1. JournalInv => NeverFaulted
  BY DEF JournalInv, EngineInv, NeverFaulted
<1>2. QED BY <1>1, JournalSafe, PTL

\* When no answer is due the worker has none to give: close_binary_session may free
\* what the worker uses.
THEOREM CloseIsSafe == Spec => []WorkerQuietWhenNothingPending
<1>1. JournalInv => WorkerQuietWhenNothingPending
  BY DEF JournalInv, EngineInv, WorkerQuietWhenNothingPending
<1>2. QED BY <1>1, JournalSafe, PTL

\* An event that may be on the disk stays the candidate until it is adopted: what
\* the file has beyond the log is a beginning of the candidate's batch.
THEOREM TailIsCandidates == Spec => []UnadoptedTailIsCandidate
<1>1. ASSUME JournalInv, open, Len(file) > Len(log) * Width
      PROVE  /\ candidate # NoEvent
             /\ TailAfter(file, Len(log))
                   = SubSeq(Bytes(candidate, Len(log) + 1), 1, Len(file) - Len(log) * Width)
  <2> USE DEF JournalInv
  <2> DEFINE base == Len(log) * Width
             size == Len(file) - base
             batch == Bytes(candidate, Len(log) + 1)
             tail == SubSeq(file, base + 1, Len(file))
  <2>1. /\ Len(log) \in Nat /\ base \in Nat /\ Len(file) \in Nat /\ Width \in Nat
        /\ base < Len(file) /\ size \in 1..Width /\ file \in Files
    BY <1>1, Lengths DEF FileInv
  <2>2. candidate # NoEvent /\ candidate \in Events
    BY <1>1, <2>1 DEF FileInv, TypeOK
  <2>3. \A k \in 1..size : file[base + k] = Chunk(candidate, Len(log) + 1, k)
    BY <1>1 DEF FileInv
  <2>4. batch \in Files /\ Len(batch) = Width
        /\ \A k \in 1..Width : batch[k] = Chunk(candidate, Len(log) + 1, k)
    <3>1. batch \in [1..Width -> Chunks \cup {Garbage}]
      BY <2>1, <2>2 DEF Bytes, Chunk, Chunks
    <3>2. batch \in Files
      BY <2>1, <3>1, SeqDef DEF Files
    <3>3. QED BY <2>1, <3>1, <3>2, LenProperties DEF Files, Bytes
  <2> HIDE DEF base, batch, JournalInv
  <2>5. /\ SubSeq(batch, 1, size) \in Files /\ Len(SubSeq(batch, 1, size)) = size
        /\ \A k \in 1..size : SubSeq(batch, 1, size)[k] = batch[k]
    BY <2>1, <2>4, Cut DEF Files
  <2>6. tail \in Files /\ Len(tail) = size
        /\ \A k \in 1..size : tail[k] = file[base + k]
    <3>1. \A i \in base + 1..Len(file) : file[i] \in Chunks \cup {Garbage}
      BY <2>1, ElementOfSeq DEF Files
    <3>2. /\ tail \in Files
          /\ Len(tail) = IF base + 1 <= Len(file) THEN Len(file) - (base + 1) + 1 ELSE 0
          /\ \A k \in 1..Len(file) - (base + 1) + 1 : tail[k] = file[(base + 1) + k - 1]
      BY <2>1, <3>1, SubSeqProperties DEF Files
    <3> HIDE DEF tail
    <3>3. QED BY <2>1, <3>2
  <2> HIDE DEF tail, size
  <2>7. \A k \in 1..size : tail[k] = SubSeq(batch, 1, size)[k]
    <3>1. size \in Nat /\ \A k \in 1..size : k \in 1..Width
      BY <2>1 DEF size
    <3>2. QED BY <2>3, <2>4, <2>5, <2>6, <3>1
  <2>8. tail = SubSeq(batch, 1, size)
    BY <2>5, <2>6, <2>7, SeqEqual DEF Files
  <2>9. QED BY <2>2, <2>8 DEF tail, batch, size, base, TailAfter
<1>2. JournalInv => UnadoptedTailIsCandidate
  BY <1>1 DEF UnadoptedTailIsCandidate
<1>3. QED BY <1>2, JournalSafe, PTL
-----------------------------------------------------------------------------
\* While a process owns the file, a recovery would read the adopted events, and
\* the candidate once all of its batch is there.
StoredInv ==
    open =>
        /\ Len(file) < (Len(log) + 1) * Width => Recovered(file) = log
        /\ Len(file) = (Len(log) + 1) * Width =>
              Recovered(file) = Append(log, candidate) /\ candidate \in Events

LEMMA StoredIs == JournalInv => StoredInv
<1> SUFFICES ASSUME JournalInv, open
             PROVE  /\ Len(file) < (Len(log) + 1) * Width => Recovered(file) = log
                    /\ Len(file) = (Len(log) + 1) * Width =>
                          Recovered(file) = Append(log, candidate) /\ candidate \in Events
  BY DEF StoredInv
<1> DEFINE n == Len(log)
<1>1. /\ n \in Nat /\ Len(file) \in Nat /\ Width \in Nat /\ Width >= 1 /\ file \in Files
      /\ log \in Seq(Events)
  BY Lengths DEF JournalInv, TypeOK
<1>2. \A m \in 1..n : BatchChecks(file, m) /\ file[m * Width].ev = log[m]
  BY DEF JournalInv, FileInv
<1>3. ASSUME Len(file) < (n + 1) * Width PROVE Recovered(file) = log
  <2>1. ~BatchChecks(file, n + 1)
    <3>1. (n + 1) * Width \in Nat
      BY <1>1, Places
    <3>2. QED BY <1>1, <1>3, <3>1 DEF BatchChecks
  <2>2. Verified(file) = n
    BY <1>1, <1>2, <2>1, VerifiedIsExactly
  <2>3. /\ Recovered(file) \in Seq(Events) /\ Len(Recovered(file)) = n
        /\ \A m \in 1..n : Recovered(file)[m] = log[m]
    BY <1>1, <1>2, <2>2, RecoveredIs
  <2>4. QED BY <1>1, <2>3, SeqEqual
<1>4. ASSUME Len(file) = (n + 1) * Width
      PROVE  Recovered(file) = Append(log, candidate) /\ candidate \in Events
  <2>1. /\ BatchChecks(file, n + 1) /\ file[(n + 1) * Width].ev = candidate
        /\ candidate \in Events
    BY <1>4, CandidateWritten DEF JournalInv
  <2>2. ~BatchChecks(file, (n + 1) + 1)
    <3>1. n + 1 \in Nat /\ ((n + 1) + 1) * Width = (n + 1) * Width + Width
          /\ (n + 1) * Width \in Nat
      BY <1>1, Places
    <3>2. QED BY <1>1, <1>4, <3>1 DEF BatchChecks
  <2>3. \A m \in 1..n + 1 : m \in 1..n \/ m = n + 1
    BY <1>1
  <2>4. Verified(file) = n + 1
    BY <1>1, <1>2, <2>1, <2>2, <2>3, VerifiedIsExactly
  <2>5. /\ Recovered(file) \in Seq(Events) /\ Len(Recovered(file)) = n + 1
        /\ \A m \in 1..n : Recovered(file)[m] = log[m]
        /\ Recovered(file)[n + 1] = candidate
    <3>1. (\A m \in 1..n : m \in 1..n + 1) /\ n + 1 \in 1..n + 1
      BY <1>1
    <3>2. QED BY <1>1, <1>2, <2>1, <2>4, <3>1, RecoveredIs
  <2>6. /\ Append(log, candidate) \in Seq(Events) /\ Len(Append(log, candidate)) = n + 1
        /\ \A m \in 1..n : Append(log, candidate)[m] = log[m]
        /\ Append(log, candidate)[n + 1] = candidate
    BY <1>1, <2>1, AppendProperties
  <2>7. \A m \in 1..n + 1 : Recovered(file)[m] = Append(log, candidate)[m]
    BY <2>3, <2>5, <2>6
  <2>8. QED BY <2>1, <2>5, <2>6, <2>7, SeqEqual
<1>5. QED BY <1>3, <1>4

\* Every step of the journal is a step of the durable log or leaves it alone.
LEMMA RefinementStep ==
    JournalInv /\ JournalInv' /\ [Next]_journalVars => [Abstract!Next]_(Abstract!logVars)
<1> SUFFICES ASSUME JournalInv, JournalInv', [Next]_journalVars
             PROVE  [Abstract!Next]_(Abstract!logVars)
  OBVIOUS
<1> USE DEF Abstract!logVars
<1>0. file \in Files /\ log \in Seq(Events) /\ Len(log) \in Nat
  BY Lengths DEF JournalInv, TypeOK
<1>1. ASSUME UNCHANGED <<file, log, open>>
      PROVE  UNCHANGED Abstract!logVars
  <2>1. Recovered(file)' = Recovered(file)
    BY <1>1
  <2>2. QED BY <1>1, <2>1
<1>2. CASE \/ \E e \in Events : SubmitNew(e)
           \/ WaitAgain \/ Retry \/ WaitFails \/ CloseBegins
  BY <1>1, <1>2 DEF SubmitNew, WaitAgain, Retry, WaitFails, CloseBegins, fileVars
<1>3. CASE \/ WorkerTakes \/ EncodeFails \/ BeginAppend \/ AttemptFails
           \/ WriteReturns \/ SyncReturns
  BY <1>1, <1>3 DEF WorkerTakes, EncodeFails, BeginAppend, AttemptFails, WriteReturns,
                    SyncReturns, fileVars, engineVars
<1>4. CASE AppendChunk
  <2>1. /\ open /\ open' = open /\ log' = log /\ candidate' = candidate
        /\ Len(file) < (Len(log) + 1) * Width
    BY <1>4 DEF AppendChunk, engineVars, JournalInv, WorkerInv, After
  <2>2. Recovered(file) = log
    BY <2>1, StoredIs DEF StoredInv
  <2>3. StoredInv'
    <3>1. (JournalInv => StoredInv)'
      BY StoredIs, PTL
    <3>2. QED BY <3>1
  <2>4. CASE Len(file') < (Len(log') + 1) * Width
    <3>1. Recovered(file') = log'
      BY <2>1, <2>4, <2>3 DEF StoredInv
    <3>2. QED BY <2>1, <2>2, <3>1
  <2>5. CASE Len(file') = (Len(log') + 1) * Width
    <3>1. Recovered(file') = Append(log, candidate) /\ candidate \in Events
      BY <2>1, <2>5, <2>3 DEF StoredInv
    <3>2. \A n \in 1..Len(log) : log[n] # candidate
      BY <2>1 DEF JournalInv, FileInv
    <3>3. Abstract!Store(candidate)
      BY <2>1, <2>2, <3>1, <3>2 DEF Abstract!Store, Abstract!InLog
    <3>4. QED BY <3>1, <3>3 DEF Abstract!Next
  <2>6. Len(file') < (Len(log') + 1) * Width \/ Len(file') = (Len(log') + 1) * Width
    <3>1. Len(file') <= (Len(log') + 1) * Width
      BY <2>1 DEF JournalInv, FileInv
    <3>2. Len(file') \in Nat /\ (Len(log') + 1) * Width \in Nat
      BY <2>1, <1>0, Places, LenProperties DEF JournalInv, TypeOK
    <3>3. QED BY <3>1, <3>2
  <2>7. QED BY <2>4, <2>5, <2>6
<1>5. CASE AckCommitted
  <2>1. /\ open /\ open' = open /\ file' = file /\ log' = Append(log, candidate)
        /\ Len(file) = (Len(log) + 1) * Width
    BY <1>5 DEF AckCommitted, TakeResult, fileVars, JournalInv, WorkerInv, AnchorInv
  <2>2. Recovered(file) = Append(log, candidate) /\ candidate \in Events
    BY <2>1, StoredIs DEF StoredInv
  <2>3. Len(Append(log, candidate)) = Len(log) + 1
    BY <1>0, <2>2, AppendProperties
  <2>4. Recovered(file)' = Recovered(file)
    BY <2>1
  <2>5. Abstract!Adopt
    BY <2>1, <2>2, <2>3, <2>4 DEF Abstract!Adopt
  <2>6. QED BY <2>5 DEF Abstract!Next
<1>6. CASE AckFailed \/ CloseDrains
  BY <1>1, <1>6 DEF AckFailed, CloseDrains, TakeResult, fileVars
<1>7. CASE CloseEnds \/ Crash
  <2>1. open /\ open' = FALSE /\ log' = <<>> /\ file' = file
    BY <1>7 DEF CloseEnds, Crash, Stopped, StartEngine
  <2>2. Recovered(file)' = Recovered(file)
    BY <2>1
  <2>3. Abstract!Stop
    BY <2>1, <2>2 DEF Abstract!Stop
  <2>4. QED BY <2>3 DEF Abstract!Next
<1>8. CASE LosePower
  <2>1. open' = FALSE /\ log' = <<>> /\ file' \in Torn(file)
    BY <1>8 DEF LosePower, Stopped, StartEngine
  <2>2. /\ Verified(file') \in 0..Len(Recovered(file))
        /\ Recovered(file') = SubSeq(Recovered(file), 1, Verified(file'))
    BY <1>0, <2>1, TornReads
  <2>3. Abstract!LosePower
    BY <2>1, <2>2 DEF Abstract!LosePower
  <2>4. QED BY <2>3 DEF Abstract!Next
<1>9. CASE Recover
  <2>1. /\ ~open /\ open' = TRUE /\ log' = Recovered(file)
        /\ file' = SubSeq(file, 1, Verified(file) * Width)
    BY <1>9 DEF Recover, StartEngine
  <2>2. Recovered(file') = Recovered(file)
    BY <1>0, <2>1, CutReads
  <2>3. Abstract!Reopen
    BY <2>1, <2>2 DEF Abstract!Reopen
  <2>4. QED BY <2>3 DEF Abstract!Next
<1>10. CASE UNCHANGED journalVars
  BY <1>1, <1>10 DEF journalVars, fileVars, engineVars
<1>11. QED BY <1>2, <1>3, <1>4, <1>5, <1>6, <1>7, <1>8, <1>9, <1>10
           DEF Next, WorkerNext, TakeNext

\* The journal implements the durable log: every adopted event is stored, at most
\* the candidate is stored before it is adopted, nothing is stored twice, and only
\* a loss of power takes stored events away, from the end.
THEOREM JournalIsDurableLog == Spec => ImplementsDurableLog
<1>1. Init => Abstract!Init
  <2> SUFFICES ASSUME Init PROVE Abstract!Init
    OBVIOUS
  <2>1. JournalInv /\ open /\ log = <<>> /\ file = <<>>
    BY InitInv DEF Init
  <2>2. Len(file) < (Len(log) + 1) * Width
    <3>1. Len(file) = 0 /\ Len(log) = 0
      BY <2>1, EmptySeq
    <3>2. QED BY <3>1, Places
  <2>3. Recovered(file) = <<>>
    BY <2>1, <2>2, StoredIs DEF StoredInv
  <2>4. QED BY <2>1, <2>3 DEF Abstract!Init
<1>2. JournalInv /\ JournalInv' /\ [Next]_journalVars => [Abstract!Next]_(Abstract!logVars)
  BY RefinementStep
<1>3. QED BY <1>1, <1>2, JournalSafe, PTL DEF Spec, ImplementsDurableLog, Abstract!Spec
=============================================================================
