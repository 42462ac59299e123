------------------------- MODULE CheckpointProofs -------------------------
(***************************************************************************)
(* Proofs that a session resumes from the newest image it has a receipt    *)
(* for, for every size of events and window, every interval and every      *)
(* number of failures and stops.  One lemma per action: it keeps the       *)
(* inductive invariant of CheckpointStore, part by part.                   *)
(***************************************************************************)
EXTENDS CheckpointFileProofs, FiniteSetTheorems

USE DEF Slots, Kinds, Phases

\* The records of a new session.
LEMMA FirstRecords ==
    ASSUME FilesInit
    PROVE  /\ journal \in Seq(Records)
           /\ Len(journal) = 2
           /\ journal[1] = [kind |-> "ordinary", image |-> NoImage, end |-> 1]
           /\ journal[2] = [kind |-> "receipt", image |-> FirstImage, end |-> 2]
<1> DEFINE first  == [kind |-> "ordinary", image |-> NoImage, end |-> 1]
           second == [kind |-> "receipt", image |-> FirstImage, end |-> 2]
<1>1. journal = Append(<<first>>, second)
  <2>1. RecordAfter(<<>>, "ordinary", 1, NoImage) = first
    BY DEF RecordAfter
  <2>2. RecordAfter(<<first>>, "receipt", ReceiptSize, FirstImage) = second
    BY DEF RecordAfter, ReceiptSize
  <2>3. journal = Append(<<RecordAfter(<<>>, "ordinary", 1, NoImage)>>,
                         RecordAfter(<<RecordAfter(<<>>, "ordinary", 1, NoImage)>>,
                                     "receipt", ReceiptSize, FirstImage))
    BY DEF FilesInit
  <2>4. QED BY <2>1, <2>2, <2>3, Zenon
<1>2. first \in Records /\ second \in Records
  BY DEF Records, Images, NoImage, FirstImage
<1>3. journal \in Seq(Records) /\ Len(journal) = 2 /\ journal[1] = first /\ journal[2] = second
  <2> HIDE DEF first, second
  <2>1. <<first>> \in Seq(Records) /\ Len(<<first>>) = 1 /\ <<first>>[1] = first
    BY <1>2
  <2>2. QED BY <1>1, <1>2, <2>1, AppendProperties
<1>4. QED BY <1>3

\* The invariant holds of a new session.
LEMMA InitHolds ==
    ASSUME Init
    PROVE  CheckpointInv
<1> USE DEF Init, NoIo, NoCp, Clear, NoPublished, NoEvent
<1> DEFINE first  == [kind |-> "ordinary", image |-> NoImage, end |-> 1]
           second == [kind |-> "receipt", image |-> FirstImage, end |-> 2]
<1>1. journal \in Seq(Records) /\ Len(journal) = 2 /\ journal[1] = first /\ journal[2] = second
  BY FirstRecords
<1>2. slots \in [Slots -> Images] /\ slots[0] = FirstImage /\ slots[1] = NoImage
  BY DEF FilesInit, Images, NoImage, FirstImage
<1>3. FilesInv
  <2>1. \A n \in 1..2 : n = 1 \/ n = 2
    OBVIOUS
  <2>2. NewestReceiptOf(2, 2)
    BY <1>1 DEF NewestReceiptOf
  <2>3. QED BY <1>1, <1>2, <2>1, <2>2 DEF FilesInv, FirstImage, NoImage
<1>4. 2 \in Receipts(0)
  <2>1. End(1) = 1 /\ End(2) = 2 /\ Start(2) = 1
    BY <1>1 DEF End, Start
  <2>2. Floor \in 0..1
    BY <1>1, <2>1, FilesAssumption DEF Floor
  <2>3. QED BY <1>1, <1>2, <2>1, <2>2 DEF Receipts, FirstImage
<1>5. /\ usable \in [Slots -> [generation: Nat, sequence: Nat]]
      /\ KeptSlot \in Slots
      /\ NewestReceipt = usable[KeptSlot].sequence
      /\ NewestReceiptOf(NewestReceipt, Len(journal))
      /\ slots[KeptSlot] = journal[NewestReceipt].image
      /\ usable[KeptSlot].generation = slots[KeptSlot].generation
      /\ usable[ReplacedSlot].sequence < NewestReceipt
      /\ usable[ReplacedSlot].generation < usable[KeptSlot].generation
  <2>1. usable = [s \in Slots |-> Usable(s)] /\ \E s \in Slots : Receipts(s) # {}
    BY <1>4 DEF WorkerInit
  <2>2. ReplacedSlot = IF usable[0].sequence <= usable[1].sequence THEN 0 ELSE 1
    BY DEF ReplacedSlot
  <2>3. KeptSlot = 1 - ReplacedSlot
    BY DEF KeptSlot
  <2>4. QED BY <1>1, <1>2, <1>3, <2>1, <2>2, <2>3, StartsFromNewest
<1>6. NewestReceipt \in Nat /\ durable = 2 /\ adopted = 2 /\ checkpointSeq = NewestReceipt
  BY <1>1, <1>5 DEF NewestReceiptOf, WorkerInit
<1> USE DEF FilesInit, WorkerInit
<1>7. FileTypes
  BY <1>1, <1>2, <1>6, FilesAssumption, WorkerAssumption DEF FileTypes
<1>8. RequestTypes
  BY DEF RequestTypes, Requests
<1>9. PublicationTypes
  <2>1. NoCp \in Publications /\ NoPublished \in [slot: Slots, image: Images]
    BY StepsAre DEF Publications, Images, NoImage
  <2>2. QED BY <1>5, <2>1 DEF PublicationTypes
<1>10. EngineTypes
  BY <1>6 DEF EngineTypes, Engines
<1>11. FlagTypes
  BY DEF FlagTypes
<1>12. RequestInv
  BY <1>1, <1>6 DEF RequestInv, LeftInFile, Acknowledged
<1>13. SlotsInv
  <2>1. NewestReceiptOf(usable[KeptSlot].sequence, durable)
    BY <1>1, <1>5, <1>6
  <2>2. cp.phase = "idle" /\ cp.step = 1 /\ ~(cp.step > 5) /\ ~awaitingReceipt
        /\ cp.phase \notin {"queued", "failed"}
    OBVIOUS
  <2>3. slots[KeptSlot] = journal[usable[KeptSlot].sequence].image
        /\ usable[ReplacedSlot].sequence < usable[KeptSlot].sequence
    BY <1>5, Zenon
  <2>4. QED BY <1>5, <2>1, <2>2, <2>3, Zenon DEF SlotsInv
<1>14. EngineInv
  BY <1>6 DEF EngineInv, Acknowledged
<1>15. HistoryInv
  BY <1>1, <1>5, <1>6 DEF HistoryInv
<1>16. QED BY <1>3, <1>7, <1>8, <1>9, <1>10, <1>11, <1>12, <1>13, <1>14, <1>15 DEF
              CheckpointInv, TypeOK
-----------------------------------------------------------------------------
\* A commit begins, with an image first when one is due.
LEMMA CommitKeeps ==
    ASSUME CheckpointInv, NEW e \in Events, Commit(e)
    PROVE  CheckpointInv'
<1> USE DEF CheckpointInv, At, Leave, fileVars, workerVars, CandidateVars, CpVars,
        HistoryVars, Events, NoEvent, Engines, MaintainsFirst
<1>1. CASE Commit(e)
  <2>1. EngineTypes'
    BY <1>1 DEF TypeOK, EngineTypes, Commit
  <2>2. FlagTypes'
    BY <1>1 DEF TypeOK, FlagTypes, Commit
  <2>3. TypeOK'
    BY <1>1, <2>1, <2>2, SameTypes DEF Commit
  <2>4. FilesInv' /\ RequestInv' /\ SlotsInv'
    BY <1>1, SameFiles, SameRequest, SameSlots DEF Commit
  <2>5. EngineInv'
    BY <1>1 DEF EngineInv, Acknowledged, Commit
  <2>6. HistoryInv'
    BY <1>1 DEF HistoryInv, NewestReceiptOf, KeptSlot, ReplacedSlot, Acknowledged, Commit
  <2>7. QED BY <2>3, <2>4, <2>5, <2>6
<1>2. QED BY <1>1

\* The engine's thread moves on without touching the worker or the files.
LEMMA CallSteps ==
    ASSUME CheckpointInv, 
           \/ CommitWaitsAgain
           \/ CommitRefused
           \/ CaptureFails
           \/ CheckpointWaitsAgain
           \/ CheckpointResumes
           \/ ReceiptWaitsAgain
           \/ ReceiptRefused
           \/ Sleep
           \/ Wakes
           \/ CloseBegins
    PROVE  CheckpointInv'
<1> USE DEF CheckpointInv, At, Leave, fileVars, workerVars, CandidateVars, CpVars,
        HistoryVars, Events, NoEvent, Engines, MaintainsFirst
<1>1. CASE CommitWaitsAgain
  <2>1. EngineTypes'
    BY <1>1 DEF TypeOK, EngineTypes, CommitWaitsAgain
  <2>2. FlagTypes'
    BY <1>1 DEF TypeOK, FlagTypes, CommitWaitsAgain
  <2>3. TypeOK'
    BY <1>1, <2>1, <2>2, SameTypes DEF CommitWaitsAgain
  <2>4. FilesInv' /\ RequestInv' /\ SlotsInv'
    BY <1>1, SameFiles, SameRequest, SameSlots DEF CommitWaitsAgain
  <2>5. EngineInv'
    BY <1>1 DEF EngineInv, Acknowledged, CommitWaitsAgain
  <2>6. HistoryInv'
    BY <1>1 DEF HistoryInv, NewestReceiptOf, KeptSlot, ReplacedSlot, Acknowledged,
       CommitWaitsAgain
  <2>7. QED BY <2>3, <2>4, <2>5, <2>6
<1>2. CASE CommitRefused
  <2>1. EngineTypes'
    BY <1>2 DEF TypeOK, EngineTypes, CommitRefused
  <2>2. FlagTypes'
    BY <1>2 DEF TypeOK, FlagTypes, CommitRefused
  <2>3. TypeOK'
    BY <1>2, <2>1, <2>2, SameTypes DEF CommitRefused
  <2>4. FilesInv' /\ RequestInv' /\ SlotsInv'
    BY <1>2, SameFiles, SameRequest, SameSlots DEF CommitRefused
  <2>5. EngineInv'
    BY <1>2 DEF EngineInv, Acknowledged, CommitRefused
  <2>6. HistoryInv'
    BY <1>2 DEF HistoryInv, NewestReceiptOf, KeptSlot, ReplacedSlot, Acknowledged,
       CommitRefused
  <2>7. QED BY <2>3, <2>4, <2>5, <2>6
<1>3. CASE CaptureFails
  <2>1. EngineTypes'
    BY <1>3 DEF TypeOK, EngineTypes, CaptureFails
  <2>2. FlagTypes'
    BY <1>3 DEF TypeOK, FlagTypes, CaptureFails
  <2>3. TypeOK'
    BY <1>3, <2>1, <2>2, SameTypes DEF CaptureFails
  <2>4. FilesInv' /\ RequestInv' /\ SlotsInv'
    BY <1>3, SameFiles, SameRequest, SameSlots DEF CaptureFails
  <2>5. EngineInv'
    BY <1>3 DEF EngineInv, Acknowledged, CaptureFails
  <2>6. HistoryInv'
    BY <1>3 DEF HistoryInv, NewestReceiptOf, KeptSlot, ReplacedSlot, Acknowledged,
       CaptureFails
  <2>7. QED BY <2>3, <2>4, <2>5, <2>6
<1>4. CASE CheckpointWaitsAgain
  <2>1. EngineTypes'
    BY <1>4 DEF TypeOK, EngineTypes, CheckpointWaitsAgain
  <2>2. FlagTypes'
    BY <1>4 DEF TypeOK, FlagTypes, CheckpointWaitsAgain
  <2>3. TypeOK'
    BY <1>4, <2>1, <2>2, SameTypes DEF CheckpointWaitsAgain
  <2>4. FilesInv' /\ RequestInv' /\ SlotsInv'
    BY <1>4, SameFiles, SameRequest, SameSlots DEF CheckpointWaitsAgain
  <2>5. EngineInv'
    BY <1>4 DEF EngineInv, Acknowledged, CheckpointWaitsAgain
  <2>6. HistoryInv'
    BY <1>4 DEF HistoryInv, NewestReceiptOf, KeptSlot, ReplacedSlot, Acknowledged,
       CheckpointWaitsAgain
  <2>7. QED BY <2>3, <2>4, <2>5, <2>6
<1>5. CASE CheckpointResumes
  <2>1. EngineTypes'
    BY <1>5 DEF TypeOK, EngineTypes, CheckpointResumes
  <2>2. FlagTypes'
    BY <1>5 DEF TypeOK, FlagTypes, CheckpointResumes
  <2>3. TypeOK'
    BY <1>5, <2>1, <2>2, SameTypes DEF CheckpointResumes
  <2>4. FilesInv' /\ RequestInv' /\ SlotsInv'
    BY <1>5, SameFiles, SameRequest, SameSlots DEF CheckpointResumes
  <2>5. EngineInv'
    BY <1>5 DEF EngineInv, Acknowledged, CheckpointResumes
  <2>6. HistoryInv'
    BY <1>5 DEF HistoryInv, NewestReceiptOf, KeptSlot, ReplacedSlot, Acknowledged,
       CheckpointResumes
  <2>7. QED BY <2>3, <2>4, <2>5, <2>6
<1>6. CASE ReceiptWaitsAgain
  <2>1. EngineTypes'
    BY <1>6 DEF TypeOK, EngineTypes, ReceiptWaitsAgain
  <2>2. FlagTypes'
    BY <1>6 DEF TypeOK, FlagTypes, ReceiptWaitsAgain
  <2>3. TypeOK'
    BY <1>6, <2>1, <2>2, SameTypes DEF ReceiptWaitsAgain
  <2>4. FilesInv' /\ RequestInv' /\ SlotsInv'
    BY <1>6, SameFiles, SameRequest, SameSlots DEF ReceiptWaitsAgain
  <2>5. EngineInv'
    BY <1>6 DEF EngineInv, Acknowledged, ReceiptWaitsAgain
  <2>6. HistoryInv'
    BY <1>6 DEF HistoryInv, NewestReceiptOf, KeptSlot, ReplacedSlot, Acknowledged,
       ReceiptWaitsAgain
  <2>7. QED BY <2>3, <2>4, <2>5, <2>6
<1>7. CASE ReceiptRefused
  <2>1. EngineTypes'
    BY <1>7 DEF TypeOK, EngineTypes, ReceiptRefused
  <2>2. FlagTypes'
    BY <1>7 DEF TypeOK, FlagTypes, ReceiptRefused
  <2>3. TypeOK'
    BY <1>7, <2>1, <2>2, SameTypes DEF ReceiptRefused
  <2>4. FilesInv' /\ RequestInv' /\ SlotsInv'
    BY <1>7, SameFiles, SameRequest, SameSlots DEF ReceiptRefused
  <2>5. EngineInv'
    BY <1>7 DEF EngineInv, Acknowledged, ReceiptRefused
  <2>6. HistoryInv'
    BY <1>7 DEF HistoryInv, NewestReceiptOf, KeptSlot, ReplacedSlot, Acknowledged,
       ReceiptRefused
  <2>7. QED BY <2>3, <2>4, <2>5, <2>6
<1>8. CASE Sleep
  <2>1. EngineTypes'
    BY <1>8 DEF TypeOK, EngineTypes, Sleep
  <2>2. FlagTypes'
    BY <1>8 DEF TypeOK, FlagTypes, Sleep
  <2>3. TypeOK'
    BY <1>8, <2>1, <2>2, SameTypes DEF Sleep
  <2>4. FilesInv' /\ RequestInv' /\ SlotsInv'
    BY <1>8, SameFiles, SameRequest, SameSlots DEF Sleep
  <2>5. EngineInv'
    BY <1>8 DEF EngineInv, Acknowledged, Sleep
  <2>6. HistoryInv'
    BY <1>8 DEF HistoryInv, NewestReceiptOf, KeptSlot, ReplacedSlot, Acknowledged, Sleep
  <2>7. QED BY <2>3, <2>4, <2>5, <2>6
<1>9. CASE Wakes
  <2>1. EngineTypes'
    BY <1>9 DEF TypeOK, EngineTypes, Wakes
  <2>2. FlagTypes'
    BY <1>9 DEF TypeOK, FlagTypes, Wakes
  <2>3. TypeOK'
    BY <1>9, <2>1, <2>2, SameTypes DEF Wakes
  <2>4. FilesInv' /\ RequestInv' /\ SlotsInv'
    BY <1>9, SameFiles, SameRequest, SameSlots DEF Wakes
  <2>5. EngineInv'
    BY <1>9 DEF EngineInv, Acknowledged, Wakes
  <2>6. HistoryInv'
    BY <1>9 DEF HistoryInv, NewestReceiptOf, KeptSlot, ReplacedSlot, Acknowledged, Wakes
  <2>7. QED BY <2>3, <2>4, <2>5, <2>6
<1>10. CASE CloseBegins
  <2>1. EngineTypes'
    BY <1>10 DEF TypeOK, EngineTypes, CloseBegins
  <2>2. FlagTypes'
    BY <1>10 DEF TypeOK, FlagTypes, CloseBegins
  <2>3. TypeOK'
    BY <1>10, <2>1, <2>2, SameTypes DEF CloseBegins
  <2>4. FilesInv' /\ RequestInv' /\ SlotsInv'
    BY <1>10, SameFiles, SameRequest, SameSlots DEF CloseBegins
  <2>5. EngineInv'
    BY <1>10 DEF EngineInv, Acknowledged, CloseBegins
  <2>6. HistoryInv'
    BY <1>10 DEF HistoryInv, NewestReceiptOf, CloseBegins
  <2>7. QED BY <2>3, <2>4, <2>5, <2>6
<1>11. QED BY <1>1, <1>2, <1>3, <1>4, <1>5, <1>6, <1>7, <1>8, <1>9, <1>10

\* An event is staged and submitted.
LEMMA CommitStagesKeeps ==
    ASSUME CheckpointInv, CommitStages
    PROVE  CheckpointInv'
<1> USE DEF CheckpointInv, CommitStages, SubmitRequest, At, fileVars, CpVars, HistoryVars,
        Events, NoEvent, Engines, NoIo, Clear
<1>1. FileTypes'
  BY DEF TypeOK, FileTypes
<1>2. RequestTypes'
  <2>1. io' \in Requests
    BY FilesAssumption DEF EngineInv, TypeOK, EngineTypes, Requests
  <2>2. QED BY <2>1 DEF RequestTypes
<1>3. PublicationTypes'
  BY DEF TypeOK, PublicationTypes
<1>4. EngineTypes'
  BY DEF TypeOK, EngineTypes
<1>5. FlagTypes'
  BY DEF TypeOK, FlagTypes
<1>6. FilesInv'
  BY DEF FilesInv, NewestReceiptOf
<1>7. RequestInv'
  BY DEF RequestInv, LeftInFile, Acknowledged, EngineInv, TypeOK, EngineTypes, FlagTypes
<1>8. SlotsInv'
  BY DEF SlotsInv, NewestReceiptOf, Later, KeptSlot, ReplacedSlot
<1>9. EngineInv'
  BY DEF EngineInv, Acknowledged, RequestInv, SlotsInv
<1>10. HistoryInv'
  BY DEF HistoryInv, NewestReceiptOf, KeptSlot, ReplacedSlot, RequestInv
<1>11. QED BY <1>1, <1>2, <1>3, <1>4, <1>5, <1>6, <1>7, <1>8, <1>9, <1>10 DEF TypeOK

\* A failed event is submitted again.
LEMMA CommitRetriesKeeps ==
    ASSUME CheckpointInv, CommitRetries
    PROVE  CheckpointInv'
<1> USE DEF CheckpointInv, CommitRetries, RetryRequest, At, fileVars, CpVars, HistoryVars,
        Events, NoEvent, Engines
<1>1. FileTypes'
  BY DEF TypeOK, FileTypes
<1>2. RequestTypes'
  BY DEF TypeOK, RequestTypes, Requests
<1>3. PublicationTypes'
  BY DEF TypeOK, PublicationTypes
<1>4. EngineTypes'
  BY DEF TypeOK, EngineTypes
<1>5. FlagTypes'
  BY DEF TypeOK, FlagTypes
<1>6. FilesInv'
  BY DEF FilesInv, NewestReceiptOf
<1>7. RequestInv'
  BY DEF RequestInv, LeftInFile, Acknowledged, EngineInv
<1>8. SlotsInv'
  BY DEF SlotsInv, NewestReceiptOf, Later, KeptSlot, ReplacedSlot
<1>9. EngineInv'
  BY DEF EngineInv, Acknowledged, RequestInv, SlotsInv
<1>10. HistoryInv'
  BY DEF HistoryInv, NewestReceiptOf, KeptSlot, ReplacedSlot, Acknowledged
<1>11. QED BY <1>1, <1>2, <1>3, <1>4, <1>5, <1>6, <1>7, <1>8, <1>9, <1>10 DEF TypeOK

\* A receipt is staged and submitted.
LEMMA ReceiptStagesKeeps ==
    ASSUME CheckpointInv, ReceiptStages
    PROVE  CheckpointInv'
<1> USE DEF CheckpointInv, ReceiptStages, SubmitReceipt, SubmitRequest, ReceiptSize, At,
        fileVars, CpVars, HistoryVars, Events, NoEvent, Engines, NoIo, Clear
<1>1. FileTypes'
  BY DEF TypeOK, FileTypes
<1>2. RequestTypes'
  <2>1. io' \in Requests
    BY FilesAssumption DEF Requests
  <2>2. QED BY <2>1 DEF RequestTypes
<1>3. PublicationTypes'
  BY DEF TypeOK, PublicationTypes
<1>4. EngineTypes'
  BY DEF TypeOK, EngineTypes
<1>5. FlagTypes'
  BY DEF TypeOK, FlagTypes
<1>6. FilesInv'
  BY DEF FilesInv, NewestReceiptOf
<1>7. RequestInv'
  BY DEF RequestInv, LeftInFile, Acknowledged, EngineInv, TypeOK, FlagTypes
<1>8. SlotsInv'
  BY DEF SlotsInv, NewestReceiptOf, Later, KeptSlot, ReplacedSlot
<1>9. EngineInv'
  BY DEF EngineInv, Acknowledged, RequestInv, SlotsInv
<1>10. HistoryInv'
  BY DEF HistoryInv, NewestReceiptOf, KeptSlot, ReplacedSlot, RequestInv
<1>11. QED BY <1>1, <1>2, <1>3, <1>4, <1>5, <1>6, <1>7, <1>8, <1>9, <1>10 DEF TypeOK

\* A failed receipt is submitted again.
LEMMA ReceiptRetriesKeeps ==
    ASSUME CheckpointInv, ReceiptRetries
    PROVE  CheckpointInv'
<1> USE DEF CheckpointInv, ReceiptRetries, RetryRequest, At, fileVars, CpVars, HistoryVars,
        Events, NoEvent, Engines
<1>1. FileTypes'
  BY DEF TypeOK, FileTypes
<1>2. RequestTypes'
  BY DEF TypeOK, RequestTypes, Requests
<1>3. PublicationTypes'
  BY DEF TypeOK, PublicationTypes
<1>4. EngineTypes'
  BY DEF TypeOK, EngineTypes
<1>5. FlagTypes'
  BY DEF TypeOK, FlagTypes
<1>6. FilesInv'
  BY DEF FilesInv, NewestReceiptOf
<1>7. RequestInv'
  BY DEF RequestInv, LeftInFile, Acknowledged, EngineInv
<1>8. SlotsInv'
  BY DEF SlotsInv, NewestReceiptOf, Later, KeptSlot, ReplacedSlot
<1>9. EngineInv'
  BY DEF EngineInv, Acknowledged, RequestInv, SlotsInv
<1>10. HistoryInv'
  BY DEF HistoryInv, NewestReceiptOf, KeptSlot, ReplacedSlot, Acknowledged
<1>11. QED BY <1>1, <1>2, <1>3, <1>4, <1>5, <1>6, <1>7, <1>8, <1>9, <1>10 DEF TypeOK

\* An image is submitted, for the slot of the older receipt.
LEMMA CheckpointSubmitsKeeps ==
    ASSUME CheckpointInv, CheckpointSubmits
    PROVE  CheckpointInv'
<1> USE DEF CheckpointInv, CheckpointSubmits, SubmitCheckpoint, At, fileVars, CandidateVars,
        HistoryVars, Events, NoEvent, Engines
<1>1. FileTypes'
  BY DEF TypeOK, FileTypes
<1>2. RequestTypes'
  BY DEF TypeOK, RequestTypes, Requests
<1>3. PublicationTypes'
  <2>1. NextGeneration \in Nat /\ ReplacedSlot \in Slots /\ adopted \in Nat
    BY NextIsLater, TwoSlots DEF TypeOK, EngineTypes
  <2>2. [generation |-> NextGeneration, boundary |-> adopted] \in Images
    BY <2>1 DEF Images
  <2>3. cp' \in Publications
    BY <2>1, <2>2, StepsAre DEF Publications
  <2>4. QED BY <2>3 DEF TypeOK, PublicationTypes
<1>4. EngineTypes'
  BY DEF TypeOK, EngineTypes
<1>5. FlagTypes'
  BY DEF TypeOK, FlagTypes
<1>6. FilesInv'
  BY DEF FilesInv, NewestReceiptOf
<1>7. RequestInv'
  BY DEF RequestInv, LeftInFile, Acknowledged, EngineInv
<1>8. SlotsInv'
  <2>1. usable[KeptSlot].generation < NextGeneration /\ NextGeneration \in Nat
    BY NextIsLater, TwoSlots
  <2>2. usable[KeptSlot].sequence \in Nat /\ usable[KeptSlot].generation \in Nat /\ durable \in Nat
    BY TwoSlots DEF TypeOK, PublicationTypes, FileTypes
  <2>3. usable[KeptSlot].sequence <= durable
    BY <2>2 DEF SlotsInv, NewestReceiptOf
  <2>4. Later(ReplacedSlot, cp'.image)
    BY <2>1, <2>2, <2>3 DEF Later
  <2>5. ReplacedSlot' = ReplacedSlot /\ KeptSlot' = KeptSlot
    BY DEF ReplacedSlot, KeptSlot
  <2>6. Later(cp.slot, cp.image)' /\ cp'.step = 1
    BY <2>4, <2>5 DEF Later
  <2>7. QED BY <2>5, <2>6, StepsAre DEF SlotsInv, NewestReceiptOf, Later
<1>9. EngineInv'
  BY DEF EngineInv, Acknowledged, RequestInv, SlotsInv
<1>10. HistoryInv'
  <2>1. ~(Acknowledged /\ io.kind = "receipt")
    BY DEF EngineInv
  <2>2. checkpointSeq = usable[KeptSlot].sequence
    BY <2>1 DEF HistoryInv
  <2>3. slots[KeptSlot] = journal[checkpointSeq].image /\ KeptSlot \in Slots
    BY <2>2, TwoSlots DEF SlotsInv
  <2>4. cp'.slot # KeptSlot
    BY TwoSlots
  <2>5. NewestReceiptOf(checkpointSeq, adopted)' /\ KeptSlot' = KeptSlot
    BY DEF HistoryInv, NewestReceiptOf, KeptSlot, ReplacedSlot
  <2>6. QED BY <2>2, <2>3, <2>4, <2>5 DEF HistoryInv, Acknowledged
<1>11. QED BY <1>1, <1>2, <1>3, <1>4, <1>5, <1>6, <1>7, <1>8, <1>9, <1>10 DEF TypeOK

\* A failed image is submitted again.
LEMMA CheckpointRetriesKeeps ==
    ASSUME CheckpointInv, CheckpointRetries
    PROVE  CheckpointInv'
<1> USE DEF CheckpointInv, CheckpointRetries, RetryCheckpoint, At, fileVars, CandidateVars,
        HistoryVars, Events, NoEvent, Engines
<1>1. FileTypes'
  BY DEF TypeOK, FileTypes
<1>2. RequestTypes'
  BY DEF TypeOK, RequestTypes, Requests
<1>3. PublicationTypes'
  BY DEF TypeOK, PublicationTypes, Publications
<1>4. EngineTypes'
  BY DEF TypeOK, EngineTypes
<1>5. FlagTypes'
  BY DEF TypeOK, FlagTypes
<1>6. FilesInv'
  BY DEF FilesInv, NewestReceiptOf
<1>7. RequestInv'
  BY DEF RequestInv, LeftInFile, Acknowledged, EngineInv
<1>8. SlotsInv'
  BY DEF SlotsInv, NewestReceiptOf, Later, KeptSlot, ReplacedSlot
<1>9. EngineInv'
  BY DEF EngineInv, Acknowledged, RequestInv, SlotsInv
<1>10. HistoryInv'
  BY DEF HistoryInv, NewestReceiptOf, KeptSlot, ReplacedSlot, Acknowledged
<1>11. QED BY <1>1, <1>2, <1>3, <1>4, <1>5, <1>6, <1>7, <1>8, <1>9, <1>10 DEF TypeOK

\* The engine takes a published image.
LEMMA ImagePublishedKeeps ==
    ASSUME CheckpointInv, ImagePublished
    PROVE  CheckpointInv'
<1> USE DEF CheckpointInv, ImagePublished, TakePublished, RefreshWake, PublicationComplete,
        At, fileVars, CandidateVars, HistoryVars, Events, NoEvent, Engines, NoCp
<1>1. FileTypes'
  BY DEF TypeOK, FileTypes
<1>2. RequestTypes'
  BY DEF TypeOK, RequestTypes, Requests
<1>3. PublicationTypes'
  <2>1. cp' \in Publications
    BY StepsAre DEF Publications, Images, NoImage
  <2>2. cp.slot \in Slots /\ cp.image \in Images
    BY DEF TypeOK, PublicationTypes, Publications
  <2>3. published' \in [slot: Slots, image: Images]
    BY <2>2
  <2>4. QED BY <2>1, <2>3 DEF TypeOK, PublicationTypes
<1>4. EngineTypes'
  BY DEF TypeOK, EngineTypes
<1>5. FlagTypes'
  BY DEF TypeOK, FlagTypes
<1>6. FilesInv'
  BY DEF FilesInv, NewestReceiptOf
<1>7. RequestInv'
  <2>1. ~awaitingReceipt
    BY DEF SlotsInv
  <2>2. LeftInFile => io.kind # "receipt"
    BY <2>1 DEF RequestInv, LeftInFile, NoIo
  <2>3. QED BY <2>1, <2>2 DEF RequestInv, LeftInFile, Acknowledged
<1>8. SlotsInv'
  <2>1. cp.step = 7
    BY StepsAre DEF TypeOK, PublicationTypes, Publications
  <2>2. Later(cp.slot, cp.image) /\ slots[cp.slot] = cp.image
    BY <2>1 DEF SlotsInv
  <2>3. ReplacedSlot' = ReplacedSlot /\ KeptSlot' = KeptSlot
    BY DEF ReplacedSlot, KeptSlot
  <2>4. (Later(published.slot, published.image) /\ slots[published.slot] = published.image)'
    BY <2>2, <2>3 DEF Later
  <2>5. QED BY <2>3, <2>4 DEF SlotsInv, NewestReceiptOf
<1>9. EngineInv'
  BY DEF EngineInv, Acknowledged, RequestInv, SlotsInv
<1>10. HistoryInv'
  BY DEF HistoryInv, NewestReceiptOf, KeptSlot, ReplacedSlot, Acknowledged
<1>11. QED BY <1>1, <1>2, <1>3, <1>4, <1>5, <1>6, <1>7, <1>8, <1>9, <1>10 DEF TypeOK

\* The engine takes the failure of an image.
LEMMA PublicationFailedKeeps ==
    ASSUME CheckpointInv, PublicationFailed
    PROVE  CheckpointInv'
<1> USE DEF CheckpointInv, PublicationFailed, TakePublicationError, RefreshWake,
        PublicationComplete, At, Leave, fileVars, CandidateVars, HistoryVars, Events,
        NoEvent, Engines
<1>1. FileTypes'
  BY DEF TypeOK, FileTypes
<1>2. RequestTypes'
  BY DEF TypeOK, RequestTypes, Requests
<1>3. PublicationTypes'
  BY DEF TypeOK, PublicationTypes, Publications
<1>4. EngineTypes'
  BY DEF TypeOK, EngineTypes
<1>5. FlagTypes'
  BY DEF TypeOK, FlagTypes
<1>6. FilesInv'
  BY DEF FilesInv, NewestReceiptOf
<1>7. RequestInv'
  BY DEF RequestInv, LeftInFile, Acknowledged, EngineInv
<1>8. SlotsInv'
  <2>1. ReplacedSlot' = ReplacedSlot /\ KeptSlot' = KeptSlot
    BY DEF ReplacedSlot, KeptSlot
  <2>2. cp'.slot = cp.slot /\ cp'.image = cp.image /\ cp'.step = cp.step /\ cp'.phase = "failed" /\ cp.step <= 6
    BY StepsAre DEF TypeOK, PublicationTypes, Publications
  <2>3. QED BY <2>1, <2>2, StepsAre DEF SlotsInv, NewestReceiptOf, Later
<1>9. EngineInv'
  BY DEF EngineInv, Acknowledged, RequestInv, SlotsInv
<1>10. HistoryInv'
  BY DEF HistoryInv, NewestReceiptOf, KeptSlot, ReplacedSlot, Acknowledged
<1>11. QED BY <1>1, <1>2, <1>3, <1>4, <1>5, <1>6, <1>7, <1>8, <1>9, <1>10 DEF TypeOK

\* A receipt is adopted: the engine counts from it.
LEMMA AckReceiptKeeps ==
    ASSUME CheckpointInv, AckReceipt
    PROVE  CheckpointInv'
<1> USE DEF CheckpointInv, AckReceipt, TakeResult, RefreshWake, AckMatches, At, fileVars,
        Events, NoEvent, Engines, NoIo
<1>1. FileTypes'
  BY DEF TypeOK, FileTypes
<1>2. RequestTypes'
  BY DEF TypeOK, RequestTypes, Requests
<1>3. PublicationTypes'
  BY DEF TypeOK, PublicationTypes
<1>4. EngineTypes'
  BY DEF TypeOK, EngineTypes
<1>5. FlagTypes'
  BY DEF TypeOK, FlagTypes
<1>6. FilesInv'
  BY DEF FilesInv, NewestReceiptOf
<1>7. RequestInv'
  BY DEF RequestInv, LeftInFile, Acknowledged, EngineInv
<1>8. SlotsInv'
  BY DEF SlotsInv, NewestReceiptOf, Later, KeptSlot, ReplacedSlot
<1>9. EngineInv'
  BY DEF EngineInv, Acknowledged, RequestInv, SlotsInv
<1>10. HistoryInv'
  <2>1. io.phase = "done" /\ ~result.error /\ io.kind = "receipt" /\ cp.phase = "idle"
    BY DEF RequestInv, EngineInv
  <2>2. journal[durable].kind = "receipt" /\ durable = adopted + 1 /\ durable \in Nat
    BY <2>1 DEF RequestInv, Acknowledged, TypeOK, FileTypes
  <2>3. NewestReceiptOf(usable[KeptSlot].sequence, durable)
        /\ slots[KeptSlot] = journal[usable[KeptSlot].sequence].image
    BY DEF SlotsInv
  <2>4. usable[KeptSlot].sequence = durable
    BY <2>2, <2>3, adopted \in Nat DEF NewestReceiptOf, TypeOK, EngineTypes
  <2>5. NewestReceiptOf(durable, durable)' /\ adopted' = durable /\ checkpointSeq' = durable
    BY <2>2, <2>3, <2>4 DEF NewestReceiptOf
  <2>6. ReplacedSlot' = ReplacedSlot /\ KeptSlot' = KeptSlot
    BY DEF ReplacedSlot, KeptSlot
  <2>7. ~Due(durable, durable)
    BY <2>2, EngineAssumption DEF Due
  <2>8. candidate' = "none" /\ cp'.phase = "idle"
    BY <2>1
  <2>9. QED BY <2>3, <2>4, <2>5, <2>6, <2>7, <2>8, TwoSlots DEF HistoryInv
<1>11. QED BY <1>1, <1>2, <1>3, <1>4, <1>5, <1>6, <1>7, <1>8, <1>9, <1>10 DEF TypeOK

\* An event is adopted.
LEMMA AckEventKeeps ==
    ASSUME CheckpointInv, AckEvent
    PROVE  CheckpointInv'
<1> USE DEF CheckpointInv, AckEvent, TakeResult, RefreshWake, AckMatches, At, fileVars,
        CpVars, Events, NoEvent, Engines, NoIo
<1>1. FileTypes'
  BY DEF TypeOK, FileTypes
<1>2. RequestTypes'
  BY DEF TypeOK, RequestTypes, Requests
<1>3. PublicationTypes'
  BY DEF TypeOK, PublicationTypes
<1>4. EngineTypes'
  BY DEF TypeOK, EngineTypes
<1>5. FlagTypes'
  BY DEF TypeOK, FlagTypes
<1>6. FilesInv'
  BY DEF FilesInv, NewestReceiptOf
<1>7. RequestInv'
  BY DEF RequestInv, LeftInFile, Acknowledged, EngineInv
<1>8. SlotsInv'
  BY DEF SlotsInv, NewestReceiptOf, Later, KeptSlot, ReplacedSlot
<1>9. EngineInv'
  BY DEF EngineInv, Acknowledged, RequestInv, SlotsInv
<1>10. HistoryInv'
  <2>1. io.kind # "receipt" /\ journal[durable].kind # "receipt"
    BY DEF RequestInv, Acknowledged
  <2>2. durable = adopted + 1 /\ adopted \in Nat
    BY DEF TypeOK, EngineTypes
  <2>3. checkpointSeq = usable[KeptSlot].sequence /\ NewestReceiptOf(checkpointSeq, adopted)
    BY <2>1, Zenon DEF HistoryInv
  <2>4. NewestReceiptOf(checkpointSeq, adopted)'
    BY <2>1, <2>2, <2>3 DEF NewestReceiptOf
  <2>5. KeptSlot' = KeptSlot /\ engine' # "committing" /\ candidate' = "none"
    BY DEF KeptSlot, ReplacedSlot
  <2>6. QED BY <2>3, <2>4, <2>5 DEF HistoryInv
<1>11. QED BY <1>1, <1>2, <1>3, <1>4, <1>5, <1>6, <1>7, <1>8, <1>9, <1>10 DEF TypeOK

\* A successful answer is for what was staged.
LEMMA AnswerMatches ==
    ASSUME CheckpointInv, At("waiting"), io.phase = "done", ~result.error
    PROVE  AckMatches
<1> USE DEF CheckpointInv
<1>1. Acknowledged /\ adopted = durable - 1 /\ durable \in Nat
  BY LenProperties DEF Acknowledged, At, EngineInv, TypeOK, FileTypes
<1>2. result.receipt = (io.kind = "receipt")
  BY DEF RequestInv
<1>3. io.kind = "receipt" <=> candidate = "receipt"
  BY DEF RequestInv, TypeOK, EngineTypes, Events, NoEvent
<1>4. durable = adopted + 1
  BY <1>1
<1>5. result.receipt = (candidate = "receipt")
  BY <1>2, <1>3, Zenon
<1>6. QED BY <1>4, <1>5 DEF AckMatches

\* A failure is taken; an answer to what was not staged never comes.
LEMMA AckFailedKeeps ==
    ASSUME CheckpointInv, AckFailed
    PROVE  CheckpointInv'
<1> USE DEF CheckpointInv, AckFailed, TakeResult, RefreshWake, AckMatches, AckKeeps, At,
        Leave, fileVars, CpVars, HistoryVars, Events, NoEvent, Engines, NoIo
<1>1. FileTypes'
  BY DEF TypeOK, FileTypes
<1>2. RequestTypes'
  BY DEF TypeOK, RequestTypes, Requests
<1>3. PublicationTypes'
  BY DEF TypeOK, PublicationTypes
<1>4. EngineTypes'
  BY DEF TypeOK, EngineTypes
<1>5. FlagTypes'
  <2>1. retryable' \in BOOLEAN /\ faulted' \in BOOLEAN
    BY DEF TypeOK, FlagTypes, RequestTypes
  <2>2. wake' \in BOOLEAN /\ ioPending' \in BOOLEAN
    OBVIOUS
  <2>3. QED BY <2>1, <2>2 DEF TypeOK, FlagTypes
<1>6. FilesInv'
  BY DEF FilesInv, NewestReceiptOf
<1>7. RequestInv'
  BY DEF RequestInv, LeftInFile, Acknowledged, TypeOK, RequestTypes, Requests
<1>8. SlotsInv'
  BY DEF SlotsInv, NewestReceiptOf, Later, KeptSlot, ReplacedSlot
<1>9. EngineInv'
  <2>1. io.phase = "done" /\ result.error
    BY AnswerMatches
  <2>2. ~Acknowledged /\ ~Acknowledged' /\ ~faulted'
    BY <2>1 DEF Acknowledged, EngineInv
  <2>3. IF result.retryable \/ retried
        THEN UNCHANGED <<candidate, staged>> /\ io'.phase = "failed"
        ELSE candidate' = "none" /\ io'.phase = "idle"
    BY <2>1 DEF RequestInv, TypeOK, RequestTypes, Requests
  <2>4. UNCHANGED <<durable, adopted, cp, cpPending, cpPublished, open, stops, retried>>
        /\ engine' = "idle" /\ engine = "waiting"
    OBVIOUS
  <2>5. QED BY <2>2, <2>3, <2>4 DEF EngineInv
<1>10. HistoryInv'
  <2>1. io.phase = "done" /\ result.error
    BY AnswerMatches
  <2>2. ~Acknowledged /\ ~Acknowledged'
    BY <2>1 DEF Acknowledged
  <2>3. KeptSlot' = KeptSlot /\ engine' = "idle"
    BY DEF KeptSlot, ReplacedSlot
  <2>4. candidate' = "event" => UNCHANGED <<candidate, staged>>
    OBVIOUS
  <2>5. QED BY <2>2, <2>3, <2>4 DEF HistoryInv, NewestReceiptOf
<1>11. QED BY <1>1, <1>2, <1>3, <1>4, <1>5, <1>6, <1>7, <1>8, <1>9, <1>10 DEF TypeOK

\* The closing engine takes the answer for its batch.
LEMMA CloseTakesRequestKeeps ==
    ASSUME CheckpointInv, CloseTakesRequest
    PROVE  CheckpointInv'
<1> USE DEF CheckpointInv, CloseTakesRequest, TakeResult, RefreshWake, At, fileVars, CpVars,
        HistoryVars, Events, NoEvent, Engines, NoIo
<1>1. FileTypes'
  BY DEF TypeOK, FileTypes
<1>2. RequestTypes'
  BY DEF TypeOK, RequestTypes, Requests
<1>3. PublicationTypes'
  BY DEF TypeOK, PublicationTypes
<1>4. EngineTypes'
  BY DEF TypeOK, EngineTypes
<1>5. FlagTypes'
  BY DEF TypeOK, FlagTypes
<1>6. FilesInv'
  BY DEF FilesInv, NewestReceiptOf
<1>7. RequestInv'
  BY DEF RequestInv, LeftInFile, Acknowledged, TypeOK, RequestTypes, Requests
<1>8. SlotsInv'
  BY DEF SlotsInv, NewestReceiptOf, Later, KeptSlot, ReplacedSlot
<1>9. EngineInv'
  BY DEF EngineInv, Acknowledged, RequestInv, SlotsInv
<1>10. HistoryInv'
  BY DEF HistoryInv, NewestReceiptOf
<1>11. QED BY <1>1, <1>2, <1>3, <1>4, <1>5, <1>6, <1>7, <1>8, <1>9, <1>10 DEF TypeOK

\* The closing engine takes the answer for its image.
LEMMA CloseTakesPublicationKeeps ==
    ASSUME CheckpointInv, CloseTakesPublication
    PROVE  CheckpointInv'
<1> USE DEF CheckpointInv, CloseTakesPublication, TakePublished, TakePublicationError,
        RefreshWake, PublicationComplete, At, fileVars, CandidateVars, HistoryVars, Events,
        NoEvent, Engines, NoCp
<1>1. FileTypes'
  BY DEF TypeOK, FileTypes
<1>2. RequestTypes'
  BY DEF TypeOK, RequestTypes, Requests
<1>3. PublicationTypes'
  <2>1. cp.slot \in Slots /\ cp.image \in Images
    BY DEF TypeOK, PublicationTypes, Publications
  <2>2. NoCp \in Publications
    BY StepsAre DEF Publications, Images, NoImage
  <2>3. [cp EXCEPT !.phase = "failed"] \in Publications
    BY DEF TypeOK, PublicationTypes, Publications
  <2>4. cp' \in Publications
    BY <2>2, <2>3
  <2>5. published' \in [slot: Slots, image: Images] /\ UNCHANGED usable
    BY <2>1 DEF TypeOK, PublicationTypes
  <2>6. QED BY <2>4, <2>5 DEF TypeOK, PublicationTypes
<1>4. EngineTypes'
  BY DEF TypeOK, EngineTypes
<1>5. FlagTypes'
  <2>1. awaitingReceipt' \in BOOLEAN /\ wake' \in BOOLEAN
    BY DEF TypeOK, FlagTypes
  <2>2. QED BY <2>1 DEF TypeOK, FlagTypes
<1>6. FilesInv'
  BY DEF FilesInv, NewestReceiptOf
<1>7. RequestInv'
  <2>1. awaitingReceipt => awaitingReceipt'
    OBVIOUS
  <2>2. UNCHANGED published \/ ~awaitingReceipt
    BY DEF SlotsInv
  <2>3. io.phase \notin {"queued", "done"} /\ ~Acknowledged
    BY DEF RequestInv, Acknowledged
  <2>4. LeftInFile /\ io.kind = "receipt" => UNCHANGED published
    BY <2>2, <2>3 DEF RequestInv, LeftInFile, NoIo
  <2>5. QED BY <2>1, <2>4 DEF RequestInv, LeftInFile, Acknowledged
<1>8. SlotsInv'
  <2>1. ReplacedSlot' = ReplacedSlot /\ KeptSlot' = KeptSlot
    BY DEF ReplacedSlot, KeptSlot
  <2>2. CASE TakePublished
    <3>1. cp.step = 7
      BY <2>2, StepsAre DEF TypeOK, PublicationTypes, Publications
    <3>2. Later(cp.slot, cp.image) /\ slots[cp.slot] = cp.image
      BY <3>1 DEF SlotsInv
    <3>3. (Later(published.slot, published.image) /\ slots[published.slot] = published.image)'
      BY <2>1, <2>2, <3>2 DEF Later
    <3>4. QED BY <2>1, <2>2, <3>3 DEF SlotsInv, NewestReceiptOf
  <2>3. CASE TakePublicationError
    <3>1. /\ cp'.slot = cp.slot /\ cp'.image = cp.image
          /\ cp'.step = cp.step /\ cp'.phase = "failed" /\ cp.step <= 6
      BY <2>3, StepsAre DEF TypeOK, PublicationTypes, Publications
    <3>2. QED BY <2>1, <2>3, <3>1, StepsAre DEF SlotsInv, NewestReceiptOf, Later
  <2>4. QED BY <2>2, <2>3
<1>9. EngineInv'
  <2>1. cp'.phase \in {"idle", "failed"} /\ ~cpPending'
    BY DEF TypeOK, PublicationTypes, Publications
  <2>2. cpPublished => FALSE
    BY DEF EngineInv
  <2>3. QED BY <2>1, <2>2 DEF EngineInv, Acknowledged
<1>10. HistoryInv'
  <2>1. ReplacedSlot' = ReplacedSlot /\ KeptSlot' = KeptSlot
    BY DEF ReplacedSlot, KeptSlot
  <2>2. cp'.phase = "idle" \/ cp'.slot = cp.slot
    BY DEF TypeOK, PublicationTypes, Publications
  <2>3. QED BY <2>1, <2>2 DEF HistoryInv, NewestReceiptOf, Acknowledged
<1>11. QED BY <1>1, <1>2, <1>3, <1>4, <1>5, <1>6, <1>7, <1>8, <1>9, <1>10 DEF TypeOK

\* A wait fails; what was awaited stays with the worker.
LEMMA WaitFailsKeeps ==
    ASSUME CheckpointInv, WaitFails
    PROVE  CheckpointInv'
<1> USE DEF CheckpointInv, WaitFails, Leave, fileVars, HistoryVars, Events, NoEvent, Engines
<1>1. FileTypes'
  BY WorkerAssumption DEF TypeOK, FileTypes
<1>2. RequestTypes'
  BY DEF TypeOK, RequestTypes, Requests
<1>3. PublicationTypes'
  BY DEF TypeOK, PublicationTypes
<1>4. EngineTypes'
  BY DEF TypeOK, EngineTypes
<1>5. FlagTypes'
  BY DEF TypeOK, FlagTypes
<1>6. FilesInv'
  BY DEF FilesInv, NewestReceiptOf
<1>7. RequestInv'
  BY DEF RequestInv, LeftInFile, Acknowledged, EngineInv
<1>8. SlotsInv'
  BY DEF SlotsInv, NewestReceiptOf, Later, KeptSlot, ReplacedSlot
<1>9. EngineInv'
  BY DEF EngineInv, Acknowledged, RequestInv, SlotsInv
<1>10. HistoryInv'
  BY DEF HistoryInv, NewestReceiptOf, KeptSlot, ReplacedSlot, Acknowledged
<1>11. QED BY <1>1, <1>2, <1>3, <1>4, <1>5, <1>6, <1>7, <1>8, <1>9, <1>10 DEF TypeOK

\* The worker writes a batch and acknowledges it.
LEMMA WorkerCommitsKeeps ==
    ASSUME CheckpointInv, WorkerCommits, UNCHANGED engineVars
    PROVE  CheckpointInv'
<1> USE DEF CheckpointInv, WorkerCommits, BatchDone, engineVars, Events, NoEvent, Engines
<1>1. FileTypes'
  <2>1. /\ journal' \in Seq(Records)
        /\ Len(journal') = durable + 1
        /\ \A n \in 1..durable : journal'[n] = journal[n]
        /\ journal'[durable + 1].kind = io.kind
        /\ io.kind = "receipt" => journal'[durable + 1].image = published.image /\ awaitingReceipt
    BY BatchIsRecord
  <2>2. durable \in Nat
    BY LenProperties DEF TypeOK, FileTypes
  <2>3. QED BY <2>1, <2>2 DEF TypeOK, FileTypes
<1>2. RequestTypes'
  BY DEF TypeOK, RequestTypes, Requests
<1>3. PublicationTypes'
  <2>1. published.slot \in Slots /\ published.image \in Images /\ durable \in Nat
    BY LenProperties DEF TypeOK, PublicationTypes, FileTypes
  <2>2. published.image.generation \in Nat
    BY <2>1 DEF Images
  <2>3. usable' \in [Slots -> [generation: Nat, sequence: Nat]]
    BY <2>1, <2>2 DEF TypeOK, PublicationTypes
  <2>4. QED BY <2>3 DEF TypeOK, PublicationTypes
<1>4. EngineTypes'
  BY DEF TypeOK, EngineTypes
<1>5. FlagTypes'
  BY DEF TypeOK, FlagTypes
<1>6. FilesInv'
  BY BatchKeepsFiles
<1>7. RequestInv'
  <2>1. /\ journal' \in Seq(Records)
        /\ Len(journal') = durable + 1
        /\ \A n \in 1..durable : journal'[n] = journal[n]
        /\ journal'[durable + 1].kind = io.kind
        /\ io.kind = "receipt" => journal'[durable + 1].image = published.image /\ awaitingReceipt
    BY BatchIsRecord
  <2>2. durable \in Nat
    BY LenProperties DEF TypeOK, FileTypes
  <2>3. Acknowledged' /\ ~LeftInFile' /\ io'.kind = io.kind /\ io'.retried = io.retried
    BY DEF Acknowledged, LeftInFile
  <2>4. io'.phase = "done" /\ io'.written /\ io'.attempted
    BY DEF TypeOK, RequestTypes, Requests
  <2>5. QED BY <2>1, <2>2, <2>3, <2>4 DEF RequestInv
<1>8. SlotsInv'
  <2>1. /\ journal' \in Seq(Records)
        /\ Len(journal') = durable + 1
        /\ \A n \in 1..durable : journal'[n] = journal[n]
        /\ journal'[durable + 1].kind = io.kind
        /\ io.kind = "receipt" => journal'[durable + 1].image = published.image /\ awaitingReceipt
    BY BatchIsRecord
  <2>2. durable \in Nat
    BY LenProperties DEF TypeOK, FileTypes
  <2>3. /\ ReplacedSlot \in Slots /\ KeptSlot \in Slots /\ ReplacedSlot # KeptSlot
        /\ usable \in [Slots -> [generation: Nat, sequence: Nat]]
        /\ durable' = durable + 1
    BY TwoSlots DEF TypeOK, PublicationTypes
  <2>4. CASE io.kind = "receipt"
    <3>1. /\ published.slot = ReplacedSlot
          /\ slots[published.slot] = published.image
          /\ published.image.generation > usable[KeptSlot].generation
          /\ cp.phase = "idle" /\ ~awaitingReceipt'
      BY <2>1, <2>4 DEF SlotsInv, Later
    <3>2. /\ usable'[KeptSlot] = usable[KeptSlot]
          /\ usable'[ReplacedSlot] = [generation |-> published.image.generation,
                                      sequence |-> durable + 1]
      BY <2>3, <2>4, <3>1
    <3>3. usable[KeptSlot].sequence \in 1..durable
      BY DEF SlotsInv, NewestReceiptOf
    <3>4. KeptSlot' = ReplacedSlot /\ ReplacedSlot' = KeptSlot
      BY <2>2, <2>3, <3>2, <3>3 DEF KeptSlot, ReplacedSlot
    <3>5. \A r : r = durable + 1 => NewestReceiptOf(r, durable)'
      BY <2>1, <2>2, <2>3, <2>4 DEF NewestReceiptOf
    <3>6. usable'[KeptSlot'] = [generation |-> published.image.generation,
                               sequence |-> durable + 1]
          /\ usable'[ReplacedSlot'] = usable[KeptSlot]
      BY <3>2, <3>4
    <3>7. NewestReceiptOf(usable[KeptSlot].sequence, durable)'
      BY <3>5, <3>6
    <3>8. (/\ slots[KeptSlot] = journal[usable[KeptSlot].sequence].image
           /\ usable[KeptSlot].generation = slots[KeptSlot].generation
           /\ usable[ReplacedSlot].sequence < usable[KeptSlot].sequence
           /\ usable[ReplacedSlot].generation < usable[KeptSlot].generation)'
      BY <2>1, <2>2, <2>4, <3>1, <3>3, <3>4, <3>6
    <3>9. QED BY <3>1, <3>7, <3>8 DEF SlotsInv
  <2>5. CASE io.kind # "receipt"
    <3>1. ReplacedSlot' = ReplacedSlot /\ KeptSlot' = KeptSlot /\ UNCHANGED <<usable, awaitingReceipt>>
      BY <2>5 DEF KeptSlot, ReplacedSlot
    <3>2. NewestReceiptOf(usable[KeptSlot].sequence, durable)
      BY DEF SlotsInv
    <3>3. \A r : r = usable[KeptSlot].sequence =>
              NewestReceiptOf(r, durable)' /\ journal'[r] = journal[r]
      BY <2>1, <2>2, <2>3, <2>5, <3>2 DEF NewestReceiptOf
    <3>4. \A s, i : Later(s, i) => Later(s, i)'
      BY <2>2, <2>3, <3>1, <3>2 DEF Later, NewestReceiptOf
    <3>5. QED BY <3>1, <3>3, <3>4 DEF SlotsInv
  <2>6. QED BY <2>4, <2>5
<1>9. EngineInv'
  <2>1. ~Acknowledged /\ Acknowledged' /\ io'.phase = "done"
    BY DEF Acknowledged, TypeOK, RequestTypes, Requests
  <2>2. durable \in Nat /\ adopted \in Nat
    BY LenProperties DEF TypeOK, FileTypes, EngineTypes
  <2>3. QED BY <2>1, <2>2 DEF EngineInv
<1>10. HistoryInv'
  <2>1. /\ journal' \in Seq(Records)
        /\ Len(journal') = durable + 1
        /\ \A n \in 1..durable : journal'[n] = journal[n]
        /\ journal'[durable + 1].kind = io.kind
        /\ io.kind = "receipt" => journal'[durable + 1].image = published.image /\ awaitingReceipt
    BY BatchIsRecord
  <2>2. durable \in Nat
    BY LenProperties DEF TypeOK, FileTypes
  <2>3. adopted \in 0..durable
    BY DEF EngineInv
  <2>4. NewestReceiptOf(checkpointSeq, adopted) /\ checkpointSeq \in 1..durable
    BY <2>2, <2>3 DEF HistoryInv, NewestReceiptOf
  <2>5. NewestReceiptOf(checkpointSeq, adopted)' /\ journal'[checkpointSeq] = journal[checkpointSeq]
    BY <2>1, <2>2, <2>3, <2>4 DEF NewestReceiptOf
  <2>6. ~Acknowledged /\ Acknowledged' /\ io'.kind = io.kind
    BY DEF Acknowledged, TypeOK, RequestTypes, Requests
  <2>7. io.kind # "receipt" => KeptSlot' = KeptSlot /\ UNCHANGED usable
    BY DEF KeptSlot, ReplacedSlot
  <2>8. QED BY <2>5, <2>6, <2>7 DEF HistoryInv
<1>11. QED BY <1>1, <1>2, <1>3, <1>4, <1>5, <1>6, <1>7, <1>8, <1>9, <1>10 DEF TypeOK

\* An attempt fails, with its batch in the file or not.
LEMMA WorkerFailsKeeps ==
    ASSUME CheckpointInv, NEW whole \in BOOLEAN, WorkerFails(whole), UNCHANGED engineVars
    PROVE  CheckpointInv'
<1> USE DEF CheckpointInv, WorkerFails, engineVars, Events, NoEvent, Engines
<1>1. FileTypes'
  <2>1. /\ journal' \in Seq(Records)
        /\ durable <= Len(journal') /\ durable \in Nat
        /\ \A n \in 1..durable : journal'[n] = journal[n]
    BY BatchIsRecord, LenProperties DEF TypeOK, FileTypes
  <2>2. QED BY <2>1, WorkerAssumption DEF TypeOK, FileTypes
<1>2. RequestTypes'
  BY DEF TypeOK, RequestTypes, Requests
<1>3. PublicationTypes'
  BY DEF TypeOK, PublicationTypes
<1>4. EngineTypes'
  BY DEF TypeOK, EngineTypes
<1>5. FlagTypes'
  BY DEF TypeOK, FlagTypes
<1>6. FilesInv'
  BY BatchKeepsFiles, SameFiles
<1>7. RequestInv'
  <2>1. ~Acknowledged /\ ~Acknowledged' /\ io'.kind = io.kind /\ io'.retried = io.retried
    BY DEF Acknowledged, TypeOK, RequestTypes, Requests
  <2>2. io'.phase = "done" /\ io'.attempted /\ (io'.written <=> io.written \/ whole)
    BY DEF TypeOK, RequestTypes, Requests
  <2>3. LeftInFile' = (io.written \/ whole) /\ LeftInFile = io.written
    BY <2>1, <2>2 DEF LeftInFile, TypeOK, RequestTypes, Requests
  <2>4. io.written \/ whole =>
           /\ Len(journal') = durable + 1
           /\ journal'[durable + 1].kind = io.kind
           /\ io.kind = "receipt" => journal'[durable + 1].image = published.image
    <3>1. CASE whole
      BY <3>1, BatchIsRecord
    <3>2. CASE ~whole /\ io.written
      BY <2>3, <3>2 DEF RequestInv
    <3>3. QED BY <3>1, <3>2
  <2>5. ~io.written /\ ~whole => Len(journal') = durable
    BY <2>3 DEF RequestInv
  <2>6. QED BY <2>1, <2>2, <2>3, <2>4, <2>5 DEF RequestInv
<1>8. SlotsInv'
  <2>1. /\ journal' \in Seq(Records)
        /\ durable <= Len(journal') /\ durable \in Nat
        /\ \A n \in 1..durable : journal'[n] = journal[n]
    BY BatchIsRecord, LenProperties DEF TypeOK, FileTypes
  <2>2. ReplacedSlot' = ReplacedSlot /\ KeptSlot' = KeptSlot
    BY DEF KeptSlot, ReplacedSlot
  <2>3. NewestReceiptOf(usable[KeptSlot].sequence, durable)
    BY DEF SlotsInv
  <2>4. NewestReceiptOf(usable[KeptSlot].sequence, durable)'
        /\ journal'[usable[KeptSlot].sequence] = journal[usable[KeptSlot].sequence]
    BY <2>1, <2>2, <2>3 DEF NewestReceiptOf
  <2>5. QED BY <2>2, <2>4 DEF SlotsInv, Later
<1>9. EngineInv'
  <2>1. ~Acknowledged /\ ~Acknowledged' /\ io'.phase = "done"
    BY DEF Acknowledged, TypeOK, RequestTypes, Requests
  <2>2. QED BY <2>1 DEF EngineInv
<1>10. HistoryInv'
  <2>1. /\ journal' \in Seq(Records)
        /\ durable <= Len(journal') /\ durable \in Nat
        /\ \A n \in 1..durable : journal'[n] = journal[n]
    BY BatchIsRecord, LenProperties DEF TypeOK, FileTypes
  <2>2. adopted \in 0..durable
    BY DEF EngineInv
  <2>3. NewestReceiptOf(checkpointSeq, adopted) /\ checkpointSeq \in 1..durable
    BY <2>1, <2>2 DEF HistoryInv, NewestReceiptOf
  <2>4. NewestReceiptOf(checkpointSeq, adopted)' /\ journal'[checkpointSeq] = journal[checkpointSeq]
    BY <2>1, <2>2, <2>3 DEF NewestReceiptOf
  <2>5. ~Acknowledged /\ ~Acknowledged' /\ KeptSlot' = KeptSlot
    BY DEF Acknowledged, KeptSlot, ReplacedSlot, TypeOK
  <2>6. QED BY <2>4, <2>5 DEF HistoryInv
<1>11. QED BY <1>1, <1>2, <1>3, <1>4, <1>5, <1>6, <1>7, <1>8, <1>9, <1>10 DEF TypeOK

\* A batch is never written.
LEMMA EncodeFailsKeeps ==
    ASSUME CheckpointInv, EncodeFails, UNCHANGED engineVars
    PROVE  CheckpointInv'
<1> USE DEF CheckpointInv, EncodeFails, engineVars, Events, NoEvent, Engines
<1>1. FileTypes'
  BY WorkerAssumption DEF TypeOK, FileTypes
<1>2. RequestTypes'
  BY DEF TypeOK, RequestTypes, Requests
<1>3. PublicationTypes'
  BY DEF TypeOK, PublicationTypes
<1>4. EngineTypes'
  BY DEF TypeOK, EngineTypes
<1>5. FlagTypes'
  BY DEF TypeOK, FlagTypes
<1>6. FilesInv'
  BY DEF FilesInv, NewestReceiptOf
<1>7. RequestInv'
  BY DEF RequestInv, LeftInFile, Acknowledged, TypeOK, RequestTypes, Requests
<1>8. SlotsInv'
  BY DEF SlotsInv, NewestReceiptOf, Later, KeptSlot, ReplacedSlot
<1>9. EngineInv'
  BY DEF EngineInv, Acknowledged, RequestInv, SlotsInv
<1>10. HistoryInv'
  BY DEF HistoryInv, NewestReceiptOf, KeptSlot, ReplacedSlot, Acknowledged
<1>11. QED BY <1>1, <1>2, <1>3, <1>4, <1>5, <1>6, <1>7, <1>8, <1>9, <1>10 DEF TypeOK

\* A step of a publication.
LEMMA PublicationStepKeeps ==
    ASSUME CheckpointInv, PublicationStep, UNCHANGED engineVars
    PROVE  CheckpointInv'
<1> USE DEF CheckpointInv, PublicationStep, PublishesNow, engineVars, Events, NoEvent,
        Engines
<1>1. FileTypes'
  <2>1. open /\ cp.phase = "queued" /\ UNCHANGED journal /\ (Renamed \/ UNCHANGED slots)
    OBVIOUS
  <2>2. slots' \in [Slots -> Images]
    BY <2>1, Renaming
  <2>3. QED BY <2>2, WorkerAssumption DEF TypeOK, FileTypes
<1>2. RequestTypes'
  BY DEF TypeOK, RequestTypes, Requests
<1>3. PublicationTypes'
  <2>1. cp.step \in 1..6
    BY StepsAre DEF SlotsInv, TypeOK, PublicationTypes, Publications
  <2>2. cp.step + 1 \in 1..Len(Steps) + 1
    BY <2>1, StepsAre
  <2>3. cp' \in Publications
    BY <2>2, StepsAre DEF TypeOK, PublicationTypes, Publications
  <2>4. QED BY <2>3 DEF TypeOK, PublicationTypes
<1>4. EngineTypes'
  BY DEF TypeOK, EngineTypes
<1>5. FlagTypes'
  BY DEF TypeOK, FlagTypes
<1>6. FilesInv'
  <2>1. open /\ cp.phase = "queued" /\ UNCHANGED journal /\ (Renamed \/ UNCHANGED slots)
    OBVIOUS
  <2>2. QED BY <2>1, Renaming
<1>7. RequestInv'
  BY DEF RequestInv, LeftInFile, Acknowledged, EngineInv
<1>8. SlotsInv'
  <2>1. open /\ cp.phase = "queued" /\ UNCHANGED journal /\ (Renamed \/ UNCHANGED slots)
    OBVIOUS
  <2>2. /\ slots'[KeptSlot] = slots[KeptSlot]
        /\ cp.slot = ReplacedSlot
    BY <2>1, Renaming, TwoSlots
  <2>3. ReplacedSlot' = ReplacedSlot /\ KeptSlot' = KeptSlot
    BY DEF ReplacedSlot, KeptSlot
  <2>4. /\ cp.step \in 1..6 /\ cp.slot \in Slots
        /\ cp'.slot = cp.slot /\ cp'.image = cp.image /\ cp'.phase \in {"queued", "done"}
    BY StepsAre DEF SlotsInv, TypeOK, PublicationTypes, Publications
  <2>5. cp'.step > 5 => slots'[cp.slot] = cp.image
    <3>1. Renamed => slots'[cp.slot] = cp.image
      BY <2>4 DEF TypeOK, FileTypes, Renamed
    <3>2. QED BY <2>4, <3>1, StepsAre DEF SlotsInv, TypeOK, PublicationTypes, Publications
  <2>6. cp'.phase = "queued" => cp'.step <= 6
    BY <2>4, StepsAre DEF TypeOK, PublicationTypes, Publications
  <2>7. QED BY <2>2, <2>3, <2>4, <2>5, <2>6, StepsAre DEF SlotsInv, NewestReceiptOf, Later
<1>9. EngineInv'
  BY DEF EngineInv, Acknowledged, RequestInv, SlotsInv
<1>10. HistoryInv'
  <2>1. open /\ cp.phase = "queued" /\ UNCHANGED journal /\ (Renamed \/ UNCHANGED slots)
    OBVIOUS
  <2>2. \A s \in Slots : s # cp.slot => slots'[s] = slots[s]
    BY <2>1, Renaming
  <2>3. ReplacedSlot' = ReplacedSlot /\ KeptSlot' = KeptSlot
    BY DEF ReplacedSlot, KeptSlot
  <2>4. cp'.slot = cp.slot
    BY DEF TypeOK, PublicationTypes, Publications
  <2>5. QED BY <2>2, <2>3, <2>4 DEF HistoryInv, NewestReceiptOf, Acknowledged
<1>11. QED BY <1>1, <1>2, <1>3, <1>4, <1>5, <1>6, <1>7, <1>8, <1>9, <1>10 DEF TypeOK

\* A step of a publication fails, its rename done or not.
LEMMA PublicationFailsKeeps ==
    ASSUME CheckpointInv, NEW renamed \in BOOLEAN, PublicationFails(renamed), UNCHANGED engineVars
    PROVE  CheckpointInv'
<1> USE DEF CheckpointInv, PublicationFails, PublishesNow, engineVars, Events, NoEvent,
        Engines
<1>1. FileTypes'
  <2>1. open /\ cp.phase = "queued" /\ UNCHANGED journal /\ (Renamed \/ UNCHANGED slots)
    OBVIOUS
  <2>2. slots' \in [Slots -> Images]
    BY <2>1, Renaming
  <2>3. QED BY <2>2, WorkerAssumption DEF TypeOK, FileTypes
<1>2. RequestTypes'
  BY DEF TypeOK, RequestTypes, Requests
<1>3. PublicationTypes'
  <2>1. cp.step \in 1..6
    BY StepsAre DEF SlotsInv, TypeOK, PublicationTypes, Publications
  <2>2. cp.step + 1 \in 1..Len(Steps) + 1
    BY <2>1, StepsAre
  <2>3. cp' \in Publications
    BY <2>2, StepsAre DEF TypeOK, PublicationTypes, Publications
  <2>4. QED BY <2>3 DEF TypeOK, PublicationTypes
<1>4. EngineTypes'
  BY DEF TypeOK, EngineTypes
<1>5. FlagTypes'
  BY DEF TypeOK, FlagTypes
<1>6. FilesInv'
  <2>1. open /\ cp.phase = "queued" /\ UNCHANGED journal /\ (Renamed \/ UNCHANGED slots)
    OBVIOUS
  <2>2. QED BY <2>1, Renaming
<1>7. RequestInv'
  BY DEF RequestInv, LeftInFile, Acknowledged, EngineInv
<1>8. SlotsInv'
  <2>1. open /\ cp.phase = "queued" /\ UNCHANGED journal /\ (Renamed \/ UNCHANGED slots)
    OBVIOUS
  <2>2. /\ slots'[KeptSlot] = slots[KeptSlot]
        /\ cp.slot = ReplacedSlot
    BY <2>1, Renaming, TwoSlots
  <2>3. ReplacedSlot' = ReplacedSlot /\ KeptSlot' = KeptSlot
    BY DEF ReplacedSlot, KeptSlot
  <2>4. /\ cp.step \in 1..6 /\ cp.slot \in Slots
        /\ cp'.slot = cp.slot /\ cp'.image = cp.image /\ cp'.phase \in {"queued", "done"}
    BY StepsAre DEF SlotsInv, TypeOK, PublicationTypes, Publications
  <2>5. cp'.step > 5 => slots'[cp.slot] = cp.image
    <3>1. Renamed => slots'[cp.slot] = cp.image
      BY <2>4 DEF TypeOK, FileTypes, Renamed
    <3>2. QED BY <2>4, <3>1, StepsAre DEF SlotsInv, TypeOK, PublicationTypes, Publications
  <2>6. cp'.phase = "queued" => cp'.step <= 6
    BY <2>4, StepsAre DEF TypeOK, PublicationTypes, Publications
  <2>7. QED BY <2>2, <2>3, <2>4, <2>5, <2>6, StepsAre DEF SlotsInv, NewestReceiptOf, Later
<1>9. EngineInv'
  BY DEF EngineInv, Acknowledged, RequestInv, SlotsInv
<1>10. HistoryInv'
  <2>1. open /\ cp.phase = "queued" /\ UNCHANGED journal /\ (Renamed \/ UNCHANGED slots)
    OBVIOUS
  <2>2. \A s \in Slots : s # cp.slot => slots'[s] = slots[s]
    BY <2>1, Renaming
  <2>3. ReplacedSlot' = ReplacedSlot /\ KeptSlot' = KeptSlot
    BY DEF ReplacedSlot, KeptSlot
  <2>4. cp'.slot = cp.slot
    BY DEF TypeOK, PublicationTypes, Publications
  <2>5. QED BY <2>2, <2>3, <2>4 DEF HistoryInv, NewestReceiptOf, Acknowledged
<1>11. QED BY <1>1, <1>2, <1>3, <1>4, <1>5, <1>6, <1>7, <1>8, <1>9, <1>10 DEF TypeOK

\* The session is closed.
LEMMA CloseEndsKeeps ==
    ASSUME CheckpointInv, CloseEnds
    PROVE  CheckpointInv'
<1> USE DEF CheckpointInv, CloseEnds, Stopped, StartEngine, StartWorker, At, Events,
        NoEvent, Engines, NoIo, NoCp, Clear, NoPublished
<1>1. FileTypes'
  BY FilesAssumption, EngineAssumption DEF TypeOK, FileTypes, EngineInv
<1>2. RequestTypes'
  BY DEF TypeOK, RequestTypes, Requests
<1>3. PublicationTypes'
  BY StepsAre DEF PublicationTypes, Publications, Images, NoImage
<1>4. EngineTypes'
  BY DEF TypeOK, EngineTypes
<1>5. FlagTypes'
  BY DEF TypeOK, FlagTypes
<1>6. FilesInv'
  BY SameFiles
<1>7. RequestInv'
  BY DEF RequestInv, LeftInFile, Acknowledged, EngineInv
<1>8. SlotsInv'
  BY DEF SlotsInv
<1>9. EngineInv'
  BY DEF EngineInv, Acknowledged, RequestInv, SlotsInv
<1>10. HistoryInv'
  BY DEF HistoryInv, Acknowledged
<1>11. QED BY <1>1, <1>2, <1>3, <1>4, <1>5, <1>6, <1>7, <1>8, <1>9, <1>10 DEF TypeOK

\* The process ends.
LEMMA CrashKeeps ==
    ASSUME CheckpointInv, Crash
    PROVE  CheckpointInv'
<1> USE DEF CheckpointInv, Crash, Stopped, StartEngine, StartWorker, Events, NoEvent,
        Engines, NoIo, NoCp, Clear, NoPublished
<1>1. FileTypes'
  BY FilesAssumption, EngineAssumption DEF TypeOK, FileTypes, EngineInv
<1>2. RequestTypes'
  BY DEF TypeOK, RequestTypes, Requests
<1>3. PublicationTypes'
  BY StepsAre DEF PublicationTypes, Publications, Images, NoImage
<1>4. EngineTypes'
  BY DEF TypeOK, EngineTypes
<1>5. FlagTypes'
  BY DEF TypeOK, FlagTypes
<1>6. FilesInv'
  BY SameFiles
<1>7. RequestInv'
  BY DEF RequestInv, LeftInFile, Acknowledged, EngineInv
<1>8. SlotsInv'
  BY DEF SlotsInv
<1>9. EngineInv'
  BY DEF EngineInv, Acknowledged, RequestInv, SlotsInv
<1>10. HistoryInv'
  BY DEF HistoryInv, Acknowledged
<1>11. QED BY <1>1, <1>2, <1>3, <1>4, <1>5, <1>6, <1>7, <1>8, <1>9, <1>10 DEF TypeOK

\* So does the worker of a session that is opened again.
LEMMA OpenedWorker ==
    ASSUME CheckpointInv, Open
    PROVE  /\ usable' \in [Slots -> [generation: Nat, sequence: Nat]]
           /\ KeptSlot' \in Slots
           /\ NewestReceipt = usable'[KeptSlot'].sequence
           /\ NewestReceiptOf(NewestReceipt, Len(journal))
           /\ slots[KeptSlot'] = journal[NewestReceipt].image
           /\ usable'[KeptSlot'].generation = slots[KeptSlot'].generation
           /\ usable'[ReplacedSlot'].sequence < NewestReceipt
           /\ usable'[ReplacedSlot'].generation < usable'[KeptSlot'].generation
<1>1. usable' = [s \in Slots |-> Usable(s)] /\ \E s \in Slots : Receipts(s) # {}
  BY DEF Open, StartWorker
<1>2. journal \in Seq(Records) /\ slots \in [Slots -> Images] /\ FilesInv
  BY DEF CheckpointInv, TypeOK, FileTypes
<1>3. ReplacedSlot' = IF usable'[0].sequence <= usable'[1].sequence THEN 0 ELSE 1
  BY DEF ReplacedSlot
<1>4. KeptSlot' = 1 - ReplacedSlot'
  BY DEF KeptSlot
<1>5. QED BY <1>1, <1>2, <1>3, <1>4, StartsFromNewest

\* The session is opened again.
LEMMA OpenKeeps ==
    ASSUME CheckpointInv, Open
    PROVE  CheckpointInv'
<1> USE DEF CheckpointInv, Open, StartEngine, StartWorker, Events, NoEvent, Engines, NoIo,
        NoCp, Clear, NoPublished
<1>1. FileTypes'
  BY LenProperties DEF TypeOK, FileTypes
<1>2. RequestTypes'
  BY DEF TypeOK, RequestTypes, Requests
<1>3. PublicationTypes'
  <2>1. usable' \in [Slots -> [generation: Nat, sequence: Nat]]
    BY OpenedWorker
  <2>2. NoCp \in Publications /\ NoPublished \in [slot: Slots, image: Images]
    BY StepsAre DEF Publications, Images, NoImage
  <2>3. QED BY <2>1, <2>2 DEF PublicationTypes
<1>4. EngineTypes'
  <2>1. NewestReceipt \in Nat /\ Len(journal) \in Nat
    BY OpenedWorker, LenProperties DEF TypeOK, FileTypes, NewestReceiptOf
  <2>2. QED BY <2>1 DEF EngineTypes
<1>5. FlagTypes'
  BY DEF TypeOK, FlagTypes
<1>6. FilesInv'
  BY SameFiles
<1>7. RequestInv'
  BY DEF RequestInv, LeftInFile, Acknowledged, EngineInv
<1>8. SlotsInv'
  <2>1. /\ NewestReceipt = usable'[KeptSlot'].sequence
        /\ NewestReceiptOf(NewestReceipt, Len(journal))
        /\ KeptSlot' \in Slots
        /\ slots[KeptSlot'] = journal[NewestReceipt].image
        /\ usable'[KeptSlot'].generation = slots[KeptSlot'].generation
        /\ usable'[ReplacedSlot'].sequence < NewestReceipt
        /\ usable'[ReplacedSlot'].generation < usable'[KeptSlot'].generation
    BY OpenedWorker
  <2>2. \A r : NewestReceiptOf(r, Len(journal)) => NewestReceiptOf(r, durable)'
    BY DEF NewestReceiptOf
  <2>3. (/\ NewestReceiptOf(usable[KeptSlot].sequence, durable)
         /\ slots[KeptSlot] = journal[usable[KeptSlot].sequence].image
         /\ usable[KeptSlot].generation = slots[KeptSlot].generation
         /\ usable[ReplacedSlot].sequence < usable[KeptSlot].sequence
         /\ usable[ReplacedSlot].generation < usable[KeptSlot].generation)'
    BY <2>1, <2>2
  <2>4. QED BY <2>3 DEF SlotsInv
<1>9. EngineInv'
  <2>1. Len(journal) \in Nat
    BY LenProperties DEF TypeOK, FileTypes
  <2>2. QED BY <2>1 DEF EngineInv, Acknowledged
<1>10. HistoryInv'
  <2>1. /\ NewestReceipt = usable'[KeptSlot'].sequence
        /\ NewestReceiptOf(NewestReceipt, Len(journal))
        /\ KeptSlot' \in Slots
        /\ slots[KeptSlot'] = journal[NewestReceipt].image
    BY OpenedWorker
  <2>2. NewestReceiptOf(checkpointSeq, adopted)'
    BY <2>1 DEF NewestReceiptOf
  <2>3. QED BY <2>1, <2>2 DEF HistoryInv
<1>11. QED BY <1>1, <1>2, <1>3, <1>4, <1>5, <1>6, <1>7, <1>8, <1>9, <1>10 DEF TypeOK
-----------------------------------------------------------------------------
\* Every step keeps the invariant.
LEMMA StepKeeps ==
    ASSUME CheckpointInv, [Next]_vars
    PROVE  CheckpointInv'
<1>1. CASE UNCHANGED vars
  BY <1>1, SameInv
<1>2. CASE \E e \in Events : Commit(e)
  BY <1>2, CommitKeeps
<1>3. CASE EngineNext
  <2>1. CASE CommitNext
    BY <2>1, CallSteps, CommitStagesKeeps, CommitRetriesKeeps DEF CommitNext
  <2>2. CASE CheckpointNext
    BY <2>2, CallSteps, CheckpointSubmitsKeeps, CheckpointRetriesKeeps, ImagePublishedKeeps,
       PublicationFailedKeeps DEF CheckpointNext
  <2>3. CASE ReceiptNext
    BY <2>3, CallSteps, ReceiptStagesKeeps, ReceiptRetriesKeeps DEF ReceiptNext
  <2>4. CASE AckNext
    BY <2>4, AckReceiptKeeps, AckEventKeeps, AckFailedKeeps DEF AckNext
  <2>5. CASE CloseNext
    BY <2>5, CloseTakesRequestKeeps, CloseTakesPublicationKeeps, CloseEndsKeeps DEF
       CloseNext
  <2>6. CASE Sleep \/ Wakes
    BY <2>6, CallSteps
  <2>7. QED BY <1>3, <2>1, <2>2, <2>3, <2>4, <2>5, <2>6 DEF EngineNext
<1>4. CASE WorkerNext /\ UNCHANGED engineVars
  BY <1>4, WorkerCommitsKeeps, WorkerFailsKeeps, EncodeFailsKeeps, PublicationStepKeeps,
     PublicationFailsKeeps DEF WorkerNext
<1>5. CASE WaitFails \/ CloseBegins \/ Crash \/ Open
  BY <1>5, CallSteps, WaitFailsKeeps, CrashKeeps, OpenKeeps
<1>6. QED BY <1>1, <1>2, <1>3, <1>4, <1>5 DEF Next
-----------------------------------------------------------------------------
\* The inductive invariant holds of every behaviour: what the worker, the engine and
\* the files hold of each other, whatever fails and wherever the process stops.
THEOREM CheckpointSafe == Spec => []CheckpointInv
<1>1. Init => CheckpointInv
  BY InitHolds
<1>2. CheckpointInv /\ [Next]_vars => CheckpointInv'
  BY StepKeeps
<1>3. QED BY <1>1, <1>2, PTL DEF Spec

\* Every variable keeps its type.
THEOREM CheckpointTypes == Spec => []TypeOK
<1>1. CheckpointInv => TypeOK
  BY DEF CheckpointInv
<1>2. QED BY <1>1, CheckpointSafe, PTL

\* The engine counts from the newest receipt, and the image it belongs to is kept
\* until a later one has its own (store_binary_io.c, store_binary_context.c).
THEOREM NewestIsKept == Spec => []ResumesFromNewest
<1>1. CheckpointInv => ResumesFromNewest
  <2> SUFFICES ASSUME CheckpointInv, open PROVE ResumesFromNewest
    BY DEF ResumesFromNewest
  <2> USE DEF CheckpointInv
  <2>1. durable \in Nat /\ durable <= Len(journal) /\ Len(journal) \in Nat /\ adopted \in 0..durable
    BY LenProperties DEF TypeOK, FileTypes, EngineInv
  <2>2. NewestReceiptOf(checkpointSeq, adopted)
        /\ \E s \in Slots : slots[s] = journal[checkpointSeq].image
    <3>1. NewestReceiptOf(checkpointSeq, adopted)
      BY DEF HistoryInv
    <3>2. PICK s \in Slots : slots[s] = journal[checkpointSeq].image
                            /\ (cp.phase # "idle" => cp.slot # s)
      BY DEF HistoryInv
    <3>3. QED BY <3>1, <3>2
  <2>3. checkpointSeq \in 1..Len(journal) /\ journal[checkpointSeq].kind = "receipt"
    BY <2>1, <2>2 DEF NewestReceiptOf
  <2>4. \A n \in 1..checkpointSeq - 1 : journal[n].kind = "receipt" =>
            journal[n].image.generation < journal[checkpointSeq].image.generation
    BY <2>1, <2>3 DEF FilesInv
  <2>5. QED BY <2>2, <2>3, <2>4 DEF ResumesFromNewest, NewestReceiptOf
<1>2. QED BY <1>1, CheckpointSafe, PTL

\* A close that has taken the answers it expects leaves a worker at rest
\* (close_binary_session).
THEOREM CloseIsQuiet == Spec => []CloseFindsWorkerQuiet
<1>1. CheckpointInv => CloseFindsWorkerQuiet
  BY DEF CheckpointInv, CloseFindsWorkerQuiet, RequestInv, EngineInv, TypeOK, RequestTypes,
     Requests, PublicationTypes, Publications
<1>2. QED BY <1>1, CheckpointSafe, PTL

\* Events and receipts are adopted by their acknowledgement alone.
LEMMA AdoptsOnlyByAck ==
    ASSUME Next, ~AckReceipt, ~AckEvent, open, open'
    PROVE  adopted' = adopted
<1> USE DEF HistoryVars
<1>1. CASE \E e \in Events : Commit(e)
  BY <1>1 DEF Commit
<1>2. CASE EngineNext
  <2>1. CASE CommitNext
    BY <2>1 DEF CommitNext, CommitStages, CommitWaitsAgain, CommitRetries, CommitRefused
  <2>2. CASE CheckpointNext
    BY <2>2 DEF CheckpointNext, CheckpointSubmits, CaptureFails, CheckpointRetries,
       CheckpointWaitsAgain, CheckpointResumes, ImagePublished, PublicationFailed
  <2>3. CASE ReceiptNext
    BY <2>3 DEF ReceiptNext, ReceiptStages, ReceiptWaitsAgain, ReceiptRetries,
       ReceiptRefused
  <2>4. CASE AckNext
    BY <2>4 DEF AckNext, AckFailed
  <2>5. CASE CloseNext
    BY <2>5 DEF CloseNext, CloseTakesRequest, CloseTakesPublication, CloseEnds, Stopped
  <2>6. CASE Sleep \/ Wakes
    BY <2>6 DEF Sleep, Wakes
  <2>7. QED BY <1>2, <2>1, <2>2, <2>3, <2>4, <2>5, <2>6 DEF EngineNext
<1>3. CASE WorkerNext /\ UNCHANGED engineVars
  BY <1>3 DEF engineVars
<1>4. CASE WaitFails \/ CloseBegins \/ Crash \/ Open
  BY <1>4 DEF WaitFails, CloseBegins, Crash, Stopped, Open
<1>5. QED BY <1>1, <1>2, <1>3, <1>4 DEF Next

\* No ordinary event is adopted once Interval records follow the newest receipt
\* (checkpoint_binary_session before an admission).
THEOREM BackpressureAlways == Spec => BackpressureHolds
<1> DEFINE Held == open /\ open' /\ adopted' = adopted + 1 /\ journal[adopted + 1].kind = "ordinary"
                     => ~Due(adopted, checkpointSeq)
<1>1. CheckpointInv /\ [Next]_vars => [Held]_vars
  <2> SUFFICES ASSUME CheckpointInv, Next, open, open', adopted' = adopted + 1,
                      journal[adopted + 1].kind = "ordinary"
               PROVE  ~Due(adopted, checkpointSeq)
    OBVIOUS
  <2>1. adopted' # adopted
    BY DEF CheckpointInv, TypeOK, EngineTypes
  <2>2. CASE AckReceipt
    BY <2>2 DEF AckReceipt, AckMatches, TakeResult, CheckpointInv, RequestInv, Acknowledged
  <2>3. CASE AckEvent
    BY <2>3 DEF AckEvent, AckMatches, TakeResult, CheckpointInv, RequestInv, Acknowledged,
       HistoryInv
  <2>4. CASE Next /\ ~AckReceipt /\ ~AckEvent
    BY <2>1, <2>4, AdoptsOnlyByAck
  <2>5. QED BY <2>2, <2>3, <2>4
<1>2. QED BY <1>1, CheckpointSafe, PTL DEF Spec, BackpressureHolds
-----------------------------------------------------------------------------
\* The heaviest record is one.
LEMMA HeaviestIs ==
    /\ Heaviest \in Nat
    /\ ReceiptSize <= Heaviest
    /\ \A s \in Sizes : s <= Heaviest
<1> DEFINE S == Sizes \cup {ReceiptSize}
<1>1. S \in SUBSET (0..Window) /\ S # {} /\ Window \in Nat
  BY FilesAssumption DEF ReceiptSize
<1>2. Max(S) \in S /\ \A s \in S : s <= Max(S)
  <2> HIDE DEF S
  <2>1. QED BY <1>1, MaxOf
<1>3. QED BY <1>1, <1>2 DEF Heaviest, ReceiptSize

\* The parts of the strengthening keep what they are about.
LEMMA SameTail == TailInv /\ UNCHANGED journal => TailInv'
BY DEF TailInv, End, ClosureRun

LEMMA SameRoom ==
    UNCHANGED journal => (OrdinaryFits' <=> OrdinaryFits) /\ (ClosureFits' <=> ClosureFits)
BY DEF OrdinaryFits, ClosureFits, ClosureRun

LEMMA SameImages ==
    ImagesFit /\ UNCHANGED <<journal, durable, cp, published, awaitingReceipt>> => ImagesFit'
BY DEF ImagesFit, TakenWhenDue

LEMMA SameAdmission ==
    AdmissionInv /\ UNCHANGED <<journal, engine, wanted, candidate, adopted, checkpointSeq>>
        => AdmissionInv'
BY DEF AdmissionInv, Due, ClosureFits, ClosureRun

\* Offsets in the journal are numbers.
LEMMA EndsAre ==
    ASSUME journal \in Seq(Records)
    PROVE  \A n \in 0..Len(journal) : End(n) \in Nat
<1>1. \A n \in 1..Len(journal) : journal[n] \in Records
  BY ElementOfSeq
<1>2. QED BY <1>1 DEF Records, End

\* Another record weighs no more than the heaviest.
LEMMA OneHeavier ==
    ASSUME NEW d \in Nat, NEW h \in Nat
    PROVE  (d + 1) * h = d * h + h /\ d * h \in Nat
<1>1. QED BY Z3

\* A new session has room.
LEMMA InitWindow ==
    ASSUME Init
    PROVE  TailInv /\ RequestFits /\ ImagesFit /\ AdmissionInv
<1> USE DEF Init, NoIo, NoCp, Clear, NoPublished, NoEvent
<1> DEFINE first  == [kind |-> "ordinary", image |-> NoImage, end |-> 1]
           second == [kind |-> "receipt", image |-> FirstImage, end |-> 2]
<1>1. journal \in Seq(Records) /\ Len(journal) = 2 /\ journal[1] = first /\ journal[2] = second
  BY FirstRecords
<1>2. Heaviest \in Nat /\ Heaviest >= 1
  BY HeaviestIs DEF ReceiptSize
<1>3. TailInv
  <2>1. \A n \in 1..2 : n = 1 \/ n = 2
    OBVIOUS
  <2>2. ASSUME NEW m \in 0..2, NEW n \in 0..2, m <= n
        PROVE  End(n) <= End(m) + (n - m) * Heaviest
    <3>1. End(0) = 0 /\ End(1) = 1 /\ End(2) = 2
      BY <1>1 DEF End
    <3>2. End(m) = m /\ End(n) = n
      <4>1. \A k \in 0..2 : k = 0 \/ k = 1 \/ k = 2
        OBVIOUS
      <4>2. QED BY <3>1, <4>1
    <3>3. n - m = 0 \/ n - m = 1 \/ n - m = 2
      BY <2>2
    <3>4. 0 * Heaviest = 0 /\ 1 * Heaviest = Heaviest /\ 2 * Heaviest = Heaviest + Heaviest
      BY <1>2
    <3>5. QED BY <1>2, <2>2, <3>2, <3>3, <3>4
  <2>3. \A n \in 1..2 : \A m \in 1..n : ~ClosureRun(m, n)
    BY <1>1, <2>1 DEF ClosureRun
  <2>4. \A n \in 1..2 : \A m \in 1..n - 1 : n = 2 /\ m = 1
    OBVIOUS
  <2>5. QED BY <1>1, <2>1, <2>2, <2>3, <2>4 DEF TailInv
<1>4. RequestFits /\ ImagesFit
  BY <1>2 DEF WorkerInit, RequestFits, ImagesFit
<1>5. AdmissionInv
  BY DEF AdmissionInv
<1>6. QED BY <1>3, <1>4, <1>5

\* A batch that is appended keeps what the journal holds.
LEMMA BatchKeepsTail ==
    ASSUME CheckpointInv, TailInv, RequestFits, ImagesFit, open, io.phase = "queued", BatchWritten
    PROVE  TailInv'
<1> USE DEF CheckpointInv
<1> DEFINE L == Len(journal)
           k == L + 1
<1>1. CASE io.written
  BY <1>1, SameTail DEF BatchWritten
<1>2. CASE ~io.written
  <2> DEFINE new == RecordAfter(journal, io.kind, io.size, Image)
  <2>1. L \in Nat /\ journal \in Seq(Records) /\ L = durable
    BY <1>2, LenProperties DEF RequestInv, LeftInFile, TypeOK, FileTypes
  <2>2. journal' \in Seq(Records) /\ Len(journal') = k
        /\ \A n \in 1..L : journal'[n] = journal[n]
    BY <2>1, BatchIsRecord
  <2>3. /\ journal'[k].kind = io.kind
        /\ io.kind = "receipt" => journal'[k].image = published.image /\ awaitingReceipt
    BY <2>1, BatchIsRecord
  <2>4. \A n \in 0..L : End(n)' = End(n) /\ End(n) \in Nat
    BY <2>1, <2>2, EndsAre DEF End
  <2>5. /\ \A n : n = k => End(n)' = End(L) + io.size
        /\ io.size \in Nat /\ io.size <= Heaviest
    <3>1. journal' = Append(journal, new)
      BY <1>2 DEF BatchWritten
    <3>2. journal'[k] = new
      <4> HIDE DEF new
      <4>1. QED BY <2>1, <3>1, AppendProperties
    <3>3. journal'[k].end = io.size + End(L)
      BY <2>1, <3>2, EmptySeq DEF RecordAfter, End
    <3>4. io.size \in Nat /\ io.size <= Heaviest
      BY DEF TypeOK, RequestTypes, Requests, RequestFits
    <3>5. \A n : n = k => End(n)' = journal'[k].end
      BY <2>1 DEF End
    <3>6. End(L) \in Nat
      BY <2>1, <2>4
    <3>7. QED BY <3>3, <3>4, <3>5, <3>6
  <2>6. \A n \in 1..k : n \in 1..L \/ n = k
    BY <2>1
  <2>7. ASSUME NEW m \in 0..k, NEW n \in 0..k, m <= n
        PROVE  End(n)' <= End(m)' + (n - m) * Heaviest
    <3>1. CASE n \in 0..L
      <4>1. m \in 0..L
        BY <2>1, <2>7, <3>1
      <4>2. End(n) <= End(m) + (n - m) * Heaviest
        BY <2>7, <3>1, <4>1 DEF TailInv
      <4>3. End(n)' = End(n) /\ End(m)' = End(m)
        BY <2>4, <3>1, <4>1
      <4>4. QED BY <4>2, <4>3
    <3>2. CASE n = k /\ m \in 0..L
      <4>1. End(L) <= End(m) + (L - m) * Heaviest
        BY <2>1, <3>2 DEF TailInv
      <4>2. L - m \in Nat /\ n - m = (L - m) + 1
        BY <2>1, <3>2
      <4>3. (n - m) * Heaviest = (L - m) * Heaviest + Heaviest /\ (L - m) * Heaviest \in Nat
        BY <4>2, HeaviestIs, OneHeavier
      <4>4. Heaviest \in Nat /\ (n - m) * Heaviest \in Nat
        BY <4>3, HeaviestIs
      <4>5. End(n)' = End(L) + io.size /\ End(m)' = End(m) /\ End(m) \in Nat /\ End(L) \in Nat
        BY <2>1, <2>4, <2>5, <3>2
      <4>6. \A e, f, x, y, h, z \in Nat :
                e <= f + x /\ y = x + h /\ z <= h => e + z <= f + y
        OBVIOUS
      <4>7. End(L) + io.size <= End(m) + (n - m) * Heaviest
        BY <2>5, <4>1, <4>3, <4>4, <4>5, <4>6
      <4>8. QED BY <4>5, <4>7
    <3>3. CASE n = k /\ m = k
      <4>1. (n - m) * Heaviest = 0
        BY <2>1, <3>3, HeaviestIs
      <4>2. End(n)' = End(m)' /\ End(n)' \in Nat
        BY <2>1, <2>4, <2>5, <3>3
      <4>3. QED BY <4>1, <4>2
    <3>4. QED BY <2>1, <2>7, <3>1, <3>2, <3>3
  <2>8. ASSUME NEW n \in 2..k, journal'[n].kind = "ordinary"
        PROVE  \E r \in 1..n - 1 : journal'[r].kind = "receipt" /\ n <= r + Interval
    <3>1. CASE n \in 2..L
      <4>1. journal[n].kind = "ordinary"
        BY <2>2, <2>8, <3>1
      <4>2. PICK r \in 1..n - 1 : journal[r].kind = "receipt" /\ n <= r + Interval
        BY <3>1, <4>1 DEF TailInv
      <4>3. r \in 1..L
        BY <2>1, <3>1
      <4>4. QED BY <2>2, <4>2, <4>3
    <3>2. CASE n = k
      BY <1>2, <2>1, <2>2, <2>3, <2>8, <3>2 DEF RequestFits, OrdinaryFits
    <3>3. QED BY <2>1, <3>1, <3>2
  <2>9. ASSUME NEW n \in 1..k, NEW m \in 1..n - 1,
               journal'[n].kind = "receipt", journal'[m].kind = "receipt"
        PROVE  m + Interval <= journal'[n].image.boundary
    <3>1. m \in 1..L /\ journal'[m] = journal[m]
      BY <2>1, <2>2
    <3>2. CASE n \in 1..L
      BY <2>1, <2>2, <2>9, <3>1, <3>2 DEF TailInv
    <3>3. CASE n = k
      BY <2>1, <2>3, <2>9, <3>1, <3>3 DEF ImagesFit, TakenWhenDue
    <3>4. QED BY <2>6, <3>2, <3>3
  <2>10. ASSUME NEW n \in 1..k, NEW m \in 1..n, ClosureRun(m, n)'
         PROVE  n - m < MaxClosures
    <3>1. \A j \in m..n : journal'[j].kind = "closure"
      BY <2>10 DEF ClosureRun
    <3>2. CASE n \in 1..L
      <4>1. ClosureRun(m, n)
        BY <2>1, <2>2, <3>1, <3>2 DEF ClosureRun
      <4>2. QED BY <3>2, <4>1 DEF TailInv
    <3>3. CASE n = k
      <4>1. ClosureRun(m, L)
        BY <2>1, <2>2, <3>1, <3>3 DEF ClosureRun
      <4>2. io.kind = "closure"
        BY <2>1, <2>3, <3>1, <3>3
      <4>3. QED BY <1>2, <2>1, <3>3, <4>1, <4>2 DEF RequestFits, ClosureFits
    <3>4. QED BY <2>6, <3>2, <3>3
  <2>11. (\A m, n \in 0..Len(journal) : m <= n => End(n) <= End(m) + (n - m) * Heaviest)'
    BY <2>2, <2>7
  <2>12. QED BY <2>2, <2>8, <2>9, <2>10, <2>11 DEF TailInv
<1>3. QED BY <1>1, <1>2

\* The journal changes by the worker's batches alone.
LEMMA EngineKeepsJournal ==
    ASSUME Next, ~(WorkerNext /\ UNCHANGED engineVars)
    PROVE  UNCHANGED journal
<1> USE DEF fileVars
<1>1. CASE \E e \in Events : Commit(e)
  BY <1>1 DEF Commit
<1>2. CASE EngineNext
  <2>1. CASE CommitNext
    BY <2>1 DEF CommitNext, CommitStages, CommitWaitsAgain, CommitRetries, CommitRefused
  <2>2. CASE CheckpointNext
    BY <2>2 DEF CheckpointNext, CheckpointSubmits, CaptureFails, CheckpointRetries,
       CheckpointWaitsAgain, CheckpointResumes, ImagePublished, PublicationFailed
  <2>3. CASE ReceiptNext
    BY <2>3 DEF ReceiptNext, ReceiptStages, ReceiptWaitsAgain, ReceiptRetries,
       ReceiptRefused
  <2>4. CASE AckNext
    BY <2>4 DEF AckNext, AckReceipt, AckEvent, AckFailed
  <2>5. CASE CloseNext
    BY <2>5 DEF CloseNext, CloseTakesRequest, CloseTakesPublication, CloseEnds, Stopped
  <2>6. CASE Sleep \/ Wakes
    BY <2>6 DEF Sleep, Wakes
  <2>7. QED BY <1>2, <2>1, <2>2, <2>3, <2>4, <2>5, <2>6 DEF EngineNext
<1>3. CASE WaitFails \/ CloseBegins \/ Crash \/ Open
  BY <1>3 DEF WaitFails, CloseBegins, Crash, Stopped, Open
<1>4. QED BY <1>1, <1>2, <1>3 DEF Next

\* Every step keeps what the journal holds.
LEMMA TailKept ==
    ASSUME WindowInv, [Next]_vars
    PROVE  TailInv'
<1> USE DEF WindowInv
<1>1. CASE UNCHANGED vars
  BY <1>1, SameTail DEF vars, fileVars
<1>2. CASE Next /\ ~(WorkerNext /\ UNCHANGED engineVars)
  BY <1>2, SameTail, EngineKeepsJournal
<1>3. CASE WorkerNext
  <2>1. CASE WorkerCommits
    BY <2>1, BatchKeepsTail DEF WorkerCommits
  <2>2. ASSUME NEW whole \in BOOLEAN, WorkerFails(whole)
        PROVE  TailInv'
    BY <2>2, BatchKeepsTail, SameTail DEF WorkerFails
  <2>3. CASE EncodeFails
    BY <2>3, SameTail DEF EncodeFails
  <2>4. CASE PublicationStep
    BY <2>4, SameTail DEF PublicationStep
  <2>5. ASSUME NEW renamed \in BOOLEAN, PublicationFails(renamed)
        PROVE  TailInv'
    BY <2>5, SameTail DEF PublicationFails
  <2>6. QED BY <1>3, <2>1, <2>2, <2>3, <2>4, <2>5 DEF WorkerNext
<1>4. QED BY <1>1, <1>2, <1>3

\* A request that is the same in another phase, or none, fits as before.
LEMMA SameRequestFits ==
    ASSUME RequestFits, UNCHANGED journal,
           \/ io'.size = io.size /\ io'.kind = io.kind /\ io'.written = io.written
           \/ io' = NoIo
    PROVE  RequestFits'
<1>1. Heaviest \in Nat
  BY HeaviestIs
<1>2. QED BY <1>1, SameRoom DEF RequestFits, NoIo

\* A request that is in the file has no room to find.
LEMMA WrittenFits ==
    ASSUME RequestFits, io'.size = io.size, io'.written
    PROVE  RequestFits'
BY DEF RequestFits

\* An event is staged only where it fits.
LEMMA StagedFits ==
    ASSUME WindowInv, CommitStages
    PROVE  RequestFits'
<1> USE DEF WindowInv, CheckpointInv, At
<1>1. open /\ engine = "committing" /\ candidate = "none" /\ io.phase = "idle"
  BY DEF CommitStages, SubmitRequest
<1>2. io' = [NoIo EXCEPT !.phase = "queued", !.kind = wanted.kind, !.size = wanted.size]
      /\ UNCHANGED journal
  BY DEF CommitStages, SubmitRequest, fileVars
<1>3. wanted \in Events
  BY <1>1 DEF EngineInv, TypeOK, EngineTypes
<1>4. io'.kind = wanted.kind /\ io'.size = wanted.size /\ wanted.size \in Sizes
  BY <1>2, <1>3 DEF NoIo, Events
<1>5. wanted.size <= Heaviest
  BY <1>4, HeaviestIs
<1>6. wanted.kind = "closure" => ClosureFits
  BY <1>1 DEF AdmissionInv
<1>7. wanted.kind = "ordinary" => OrdinaryFits
  <2> SUFFICES ASSUME wanted.kind = "ordinary" PROVE OrdinaryFits
    OBVIOUS
  <2>1. ~Due(adopted, checkpointSeq)
    BY <1>1 DEF HistoryInv
  <2>2. NewestReceiptOf(checkpointSeq, adopted)
    BY <1>1 DEF HistoryInv
  <2>3. ~LeftInFile /\ ~Acknowledged
    BY <1>1 DEF LeftInFile, Acknowledged, RequestInv, NoIo
  <2>4. adopted = Len(journal)
    BY <1>1, <2>3 DEF RequestInv, EngineInv
  <2>5. adopted \in Nat /\ Interval \in Nat
    BY EngineAssumption DEF TypeOK, EngineTypes
  <2>6. QED BY <2>1, <2>2, <2>4, <2>5 DEF Due, NewestReceiptOf, OrdinaryFits
<1>8. QED BY <1>2, <1>4, <1>5, <1>6, <1>7, SameRoom DEF RequestFits

\* Every step keeps room for the worker's request.
LEMMA RequestFitKept ==
    ASSUME WindowInv, [Next]_vars
    PROVE  RequestFits'
<1> USE DEF WindowInv, fileVars, workerVars
<1>1. CASE UNCHANGED vars
  BY <1>1, SameRequestFits DEF vars
<1>2. CASE \E e \in Events : Commit(e)
  BY <1>2, SameRequestFits DEF Commit
<1>3. CASE EngineNext
  <2>1. CASE CommitNext
    <3>1. CASE CommitRetries
      BY <3>1, SameRequestFits DEF CommitRetries, RetryRequest, CheckpointInv, TypeOK,
         RequestTypes, Requests
    <3>2. CASE CommitWaitsAgain \/ CommitRefused
      BY <3>2, SameRequestFits DEF CommitWaitsAgain, CommitRefused
    <3>3. QED BY <2>1, <3>1, <3>2, StagedFits DEF CommitNext
  <2>2. CASE CheckpointNext
    <3>1. UNCHANGED <<journal, io>>
      BY <2>2 DEF CheckpointNext, CheckpointSubmits, CaptureFails, CheckpointRetries,
         CheckpointWaitsAgain, CheckpointResumes, ImagePublished, PublicationFailed,
         SubmitCheckpoint, RetryCheckpoint, TakePublished, TakePublicationError
    <3>2. QED BY <3>1, SameRequestFits
  <2>3. CASE ReceiptNext
    <3>1. CASE ReceiptStages
      <4>1. io'.kind = "receipt" /\ io'.size = ReceiptSize
        BY <3>1 DEF ReceiptStages, SubmitReceipt, SubmitRequest, NoIo
      <4>2. QED BY <4>1, HeaviestIs DEF RequestFits
    <3>2. CASE ReceiptRetries
      BY <3>2, SameRequestFits DEF ReceiptRetries, RetryRequest, CheckpointInv, TypeOK,
         RequestTypes, Requests
    <3>3. CASE ReceiptWaitsAgain \/ ReceiptRefused
      BY <3>3, SameRequestFits DEF ReceiptWaitsAgain, ReceiptRefused
    <3>4. QED BY <2>3, <3>1, <3>2, <3>3 DEF ReceiptNext
  <2>4. CASE AckNext \/ CloseTakesRequest
    <3>1. TakeResult /\ UNCHANGED journal
      BY <2>4 DEF AckNext, AckReceipt, AckEvent, AckFailed, CloseTakesRequest
    <3>2. QED BY <3>1, SameRequestFits DEF TakeResult, CheckpointInv, TypeOK, RequestTypes,
                 Requests
  <2>5. CASE CloseTakesPublication
    BY <2>5, SameRequestFits DEF CloseTakesPublication, TakePublished, TakePublicationError
  <2>6. CASE CloseEnds
    BY <2>6, SameRequestFits DEF CloseEnds, Stopped, StartWorker
  <2>7. CASE Sleep \/ Wakes
    BY <2>7, SameRequestFits DEF Sleep, Wakes
  <2>8. QED BY <1>3, <2>1, <2>2, <2>3, <2>4, <2>5, <2>6, <2>7 DEF EngineNext, CloseNext
<1>4. CASE WorkerNext
  <2>1. io \in Requests
    BY DEF CheckpointInv, TypeOK, RequestTypes
  <2>2. CASE WorkerCommits
    BY <2>1, <2>2, WrittenFits DEF WorkerCommits, Requests
  <2>3. ASSUME NEW whole \in BOOLEAN, WorkerFails(whole)
        PROVE  RequestFits'
    <3>1. CASE whole
      BY <2>1, <2>3, <3>1, WrittenFits DEF WorkerFails, Requests
    <3>2. CASE ~whole
      BY <2>1, <2>3, <3>2, SameRequestFits DEF WorkerFails, Requests
    <3>3. QED BY <3>1, <3>2
  <2>4. CASE EncodeFails
    BY <2>1, <2>4, SameRequestFits DEF EncodeFails, Requests
  <2>5. CASE PublicationStep
    BY <2>5, SameRequestFits DEF PublicationStep
  <2>6. ASSUME NEW renamed \in BOOLEAN, PublicationFails(renamed)
        PROVE  RequestFits'
    BY <2>6, SameRequestFits DEF PublicationFails
  <2>7. QED BY <1>4, <2>2, <2>3, <2>4, <2>5, <2>6 DEF WorkerNext
<1>5. CASE WaitFails \/ CloseBegins
  BY <1>5, SameRequestFits DEF WaitFails, CloseBegins
<1>6. CASE Crash \/ Open
  BY <1>6, SameRequestFits DEF Crash, Stopped, Open, StartWorker
<1>7. QED BY <1>1, <1>2, <1>3, <1>4, <1>5, <1>6 DEF Next

\* Images that are kept fit as before.
LEMMA SameImagesFit ==
    ASSUME ImagesFit, UNCHANGED <<journal, durable>>,
           awaitingReceipt' =>
              \/ awaitingReceipt /\ published'.image = published.image
              \/ cp.phase # "idle" /\ published'.image = cp.image,
           cp'.phase # "idle" => cp.phase # "idle" /\ cp'.image = cp.image
    PROVE  ImagesFit'
BY DEF ImagesFit, TakenWhenDue

\* An image is taken when one is due.
LEMMA SubmittedFits ==
    ASSUME WindowInv, CheckpointSubmits
    PROVE  ImagesFit'
<1> USE DEF WindowInv, CheckpointInv, At
<1>1. open /\ engine = "maintaining" /\ UNCHANGED <<journal, durable, published, awaitingReceipt>>
      /\ ~awaitingReceipt
  BY DEF CheckpointSubmits, SubmitCheckpoint, fileVars
<1>2. cp'.image.boundary = durable /\ adopted = durable
  BY DEF CheckpointSubmits, SubmitCheckpoint
<1>3. Due(adopted, checkpointSeq) /\ NewestReceiptOf(checkpointSeq, adopted)
  BY <1>1 DEF AdmissionInv, HistoryInv
<1>4. durable \in Nat /\ Interval \in Nat
  BY EngineAssumption DEF TypeOK, FileTypes
<1>5. \A m \in 1..durable : journal[m].kind = "receipt" => m + Interval <= durable
  BY <1>2, <1>3, <1>4 DEF Due, NewestReceiptOf
<1>6. QED BY <1>1, <1>2, <1>5 DEF ImagesFit, TakenWhenDue

\* Every step keeps that images are taken when they are due.
LEMMA ImagesFitKept ==
    ASSUME WindowInv, [Next]_vars
    PROVE  ImagesFit'
<1> USE DEF WindowInv, fileVars, workerVars
<1>1. CASE UNCHANGED vars
  BY <1>1, SameImagesFit DEF vars
<1>2. CASE \E e \in Events : Commit(e)
  BY <1>2, SameImagesFit DEF Commit
<1>3. CASE EngineNext
  <2>1. CASE CommitNext \/ ReceiptNext
    <3>1. UNCHANGED <<journal, durable, cp, published, awaitingReceipt>>
      BY <2>1 DEF CommitNext, CommitStages, CommitWaitsAgain, CommitRetries, CommitRefused,
         ReceiptNext, ReceiptStages, ReceiptWaitsAgain, ReceiptRetries, ReceiptRefused,
         SubmitReceipt, SubmitRequest, RetryRequest
    <3>2. QED BY <3>1, SameImagesFit
  <2>2. CASE CheckpointNext
    <3>1. CASE CheckpointRetries
      BY <3>1, SameImagesFit DEF CheckpointRetries, RetryCheckpoint, CheckpointInv, TypeOK,
         PublicationTypes, Publications
    <3>2. CASE CaptureFails \/ CheckpointWaitsAgain \/ CheckpointResumes
      BY <3>2, SameImagesFit DEF CaptureFails, CheckpointWaitsAgain, CheckpointResumes
    <3>3. CASE ImagePublished
      BY <3>3, SameImagesFit DEF ImagePublished, TakePublished, NoCp
    <3>4. CASE PublicationFailed
      BY <3>4, SameImagesFit DEF PublicationFailed, TakePublicationError, CheckpointInv,
         TypeOK, PublicationTypes, Publications
    <3>5. QED BY <2>2, <3>1, <3>2, <3>3, <3>4, SubmittedFits DEF CheckpointNext
  <2>3. CASE AckNext \/ CloseTakesRequest
    <3>1. TakeResult /\ UNCHANGED journal
      BY <2>3 DEF AckNext, AckReceipt, AckEvent, AckFailed, CloseTakesRequest
    <3>2. QED BY <3>1, SameImagesFit DEF TakeResult
  <2>4. CASE CloseTakesPublication
    <3>1. CASE TakePublished
      BY <2>4, <3>1, SameImagesFit DEF CloseTakesPublication, TakePublished, NoCp
    <3>2. CASE TakePublicationError
      BY <2>4, <3>2, SameImagesFit DEF CloseTakesPublication, TakePublicationError,
         CheckpointInv, TypeOK, PublicationTypes, Publications
    <3>3. QED BY <2>4, <3>1, <3>2 DEF CloseTakesPublication
  <2>5. CASE CloseEnds
    BY <2>5 DEF CloseEnds, Stopped, StartWorker, NoCp, ImagesFit
  <2>6. CASE Sleep \/ Wakes
    BY <2>6, SameImagesFit DEF Sleep, Wakes
  <2>7. QED BY <1>3, <2>1, <2>2, <2>3, <2>4, <2>5, <2>6 DEF EngineNext, CloseNext
<1>4. CASE WorkerNext
  <2>1. cp \in Publications
    BY DEF CheckpointInv, TypeOK, PublicationTypes
  <2>2. CASE WorkerCommits
    <3>1. open /\ io.phase = "queued" /\ BatchWritten /\ durable' = durable + 1
          /\ UNCHANGED <<cp, published>>
      BY <2>2 DEF WorkerCommits, BatchDone
    <3>2. /\ \A n \in 1..durable : journal'[n] = journal[n]
          /\ journal'[durable + 1].kind = io.kind
          /\ io.kind = "receipt" => awaitingReceipt
      BY <3>1, BatchIsRecord
    <3>3. durable \in Nat
      BY DEF CheckpointInv, TypeOK, FileTypes
    <3>4. CASE io.kind = "receipt"
      <4>1. ~awaitingReceipt' /\ cp'.phase = "idle"
        BY <2>2, <3>1, <3>2, <3>4 DEF WorkerCommits, BatchDone, CheckpointInv, SlotsInv
      <4>2. QED BY <4>1 DEF ImagesFit
    <3>5. CASE io.kind # "receipt"
      <4>1. awaitingReceipt' = awaitingReceipt
        BY <2>2, <3>5 DEF WorkerCommits, BatchDone
      <4>2. \A m \in 1..durable' : journal'[m].kind = "receipt" =>
                m \in 1..durable /\ journal[m].kind = "receipt"
        BY <3>1, <3>2, <3>3, <3>5
      <4>3. QED BY <3>1, <4>1, <4>2 DEF ImagesFit, TakenWhenDue
    <3>6. QED BY <3>4, <3>5
  <2>3. ASSUME NEW whole \in BOOLEAN, WorkerFails(whole)
        PROVE  ImagesFit'
    <3>1. UNCHANGED <<durable, cp, published, awaitingReceipt>>
      BY <2>3 DEF WorkerFails
    <3>2. \A n \in 1..durable : journal'[n] = journal[n]
      BY <2>3, BatchIsRecord DEF WorkerFails
    <3>3. QED BY <3>1, <3>2 DEF ImagesFit, TakenWhenDue
  <2>4. CASE EncodeFails
    BY <2>4, SameImagesFit DEF EncodeFails
  <2>5. CASE PublicationStep
    BY <2>1, <2>5, SameImagesFit DEF PublicationStep, PublishesNow, Publications
  <2>6. ASSUME NEW renamed \in BOOLEAN, PublicationFails(renamed)
        PROVE  ImagesFit'
    BY <2>1, <2>6, SameImagesFit DEF PublicationFails, PublishesNow, Publications
  <2>7. QED BY <1>4, <2>2, <2>3, <2>4, <2>5, <2>6 DEF WorkerNext
<1>5. CASE WaitFails \/ CloseBegins
  BY <1>5, SameImagesFit DEF WaitFails, CloseBegins
<1>6. CASE Crash \/ Open
  BY <1>6 DEF Crash, Stopped, Open, StartWorker, NoCp, ImagesFit
<1>7. QED BY <1>1, <1>2, <1>3, <1>4, <1>5, <1>6 DEF Next

\* While there are few closing events since the newest receipt another one fits.
LEMMA FewClosures ==
    ASSUME journal \in Seq(Records), ClosuresSinceReceipt < MaxClosures
    PROVE  ClosureFits
<1> DEFINE L == Len(journal)
           S == {n \in 1..L : /\ journal[n].kind = "closure"
                              /\ \A m \in n..L : journal[m].kind # "receipt"}
<1>1. L \in Nat /\ MaxClosures \in Nat
  BY LenProperties, EngineAssumption
<1>2. IsFiniteSet(S) /\ Cardinality(S) \in Nat /\ Cardinality(S) < MaxClosures
  <2>1. IsFiniteSet(1..L)
    BY <1>1, FS_Interval
  <2>2. S \subseteq 1..L
    OBVIOUS
  <2>3. ClosuresSinceReceipt = Cardinality(S)
    BY DEF ClosuresSinceReceipt
  <2> HIDE DEF S
  <2>4. QED BY <2>1, <2>2, <2>3, FS_Subset, FS_CardinalityType
<1>3. ASSUME NEW m \in 1..L + 1, ClosureRun(m, L)
      PROVE  L + 1 - m < MaxClosures
  <2>1. m..L \subseteq S
    <3>1. \A n \in m..L : journal[n].kind = "closure"
      BY <1>3 DEF ClosureRun
    <3>2. \A n \in m..L : n \in 1..L /\ \A j \in n..L : j \in m..L
      BY <1>1
    <3>3. QED BY <3>1, <3>2
  <2>2. Cardinality(m..L) = IF m > L THEN 0 ELSE L - m + 1
    <3>1. m \in Int /\ L \in Int
      BY <1>1
    <3> HIDE DEF L, S
    <3>2. QED BY <3>1, FS_Interval
  <2> HIDE DEF S
  <2>3. Cardinality(m..L) <= Cardinality(S)
    BY <1>2, <2>1, FS_Subset
  <2> HIDE DEF L
  <2>4. QED BY <1>1, <1>2, <2>2, <2>3
<1>4. QED BY <1>3 DEF ClosureFits

\* An engine that asks for what it did before, or for nothing, asks for no more.
LEMMA SameAdmissionFits ==
    ASSUME AdmissionInv, UNCHANGED <<journal, adopted, checkpointSeq>>,
           \/ UNCHANGED <<engine, wanted, candidate>>
           \/ engine' # "maintaining" /\ wanted'.kind # "closure"
    PROVE  AdmissionInv'
BY SameAdmission DEF AdmissionInv

\* Every step keeps that the engine asks for what fits.
LEMMA AdmissionKept ==
    ASSUME WindowInv, [Next]_vars
    PROVE  AdmissionInv'
<1> USE DEF WindowInv, fileVars, HistoryVars, CandidateVars, Leave, At, NoEvent
<1>1. CASE UNCHANGED vars
  BY <1>1, SameAdmission DEF vars, engineVars
<1>2. ASSUME NEW e \in Events, Commit(e) PROVE AdmissionInv'
  <2>1. UNCHANGED <<journal, adopted, checkpointSeq, candidate>> /\ wanted' = e
    BY <1>2 DEF Commit
  <2>2. CASE e.kind = "closure"
    <3>1. engine' = "committing"
      BY <1>2, <2>2 DEF Commit, MaintainsFirst
    <3>2. ClosureFits
      BY <1>2, <2>2, FewClosures DEF Commit, CheckpointInv, TypeOK, FileTypes
    <3>3. QED BY <2>1, <3>1, <3>2, SameRoom DEF AdmissionInv
  <2>3. CASE e.kind # "closure"
    <3>1. engine' = "maintaining" => Due(adopted, checkpointSeq)
      BY <1>2 DEF Commit, MaintainsFirst
    <3>2. QED BY <2>1, <2>3, <3>1 DEF AdmissionInv, Due
  <2>4. QED BY <2>2, <2>3
<1>3. CASE EngineNext
  <2>1. CASE CommitNext
    <3>1. UNCHANGED <<journal, adopted, checkpointSeq>>
      BY <2>1 DEF CommitNext, CommitStages, CommitWaitsAgain, CommitRetries, CommitRefused
    <3>2. CASE CommitRefused
      BY <3>1, <3>2, SameAdmissionFits DEF CommitRefused
    <3>3. CASE CommitStages \/ CommitWaitsAgain \/ CommitRetries
      <4>1. engine' = "waiting" /\ candidate' = "event"
        BY <3>3 DEF CommitStages, CommitWaitsAgain, CommitRetries
      <4>2. QED BY <4>1 DEF AdmissionInv
    <3>4. QED BY <2>1, <3>2, <3>3 DEF CommitNext
  <2>2. CASE CheckpointNext
    <3>1. /\ UNCHANGED <<journal, adopted, checkpointSeq>>
          /\ engine \in {"maintaining", "publishing"} /\ engine' # "maintaining"
          /\ wanted' = wanted \/ wanted' = NoEvent
      BY <2>2 DEF CheckpointNext, CheckpointSubmits, CaptureFails, CheckpointRetries,
         CheckpointWaitsAgain, CheckpointResumes, ImagePublished, PublicationFailed
    <3>2. wanted.kind # "closure"
      BY <3>1 DEF AdmissionInv
    <3>3. QED BY <3>1, <3>2, SameAdmissionFits
  <2>3. CASE ReceiptNext
    <3>1. /\ UNCHANGED <<journal, adopted, checkpointSeq>>
          /\ engine = "receipting" /\ engine' # "maintaining"
          /\ wanted' = wanted \/ wanted' = NoEvent
      BY <2>3 DEF ReceiptNext, ReceiptStages, ReceiptWaitsAgain, ReceiptRetries,
         ReceiptRefused
    <3>2. wanted.kind # "closure"
      BY <3>1 DEF AdmissionInv
    <3>3. QED BY <3>1, <3>2, SameAdmissionFits
  <2>4. CASE AckNext
    <3>1. CASE AckReceipt
      <4>1. wanted.kind # "closure" /\ wanted' = wanted /\ engine' # "maintaining"
        BY <3>1 DEF AckReceipt, AdmissionInv
      <4>2. QED BY <4>1 DEF AdmissionInv
    <3>2. CASE AckEvent
      <4>1. wanted' = NoEvent /\ adopted' = adopted + 1 /\ checkpointSeq' = checkpointSeq
            /\ (engine' = "maintaining" => Due(adopted + 1, checkpointSeq))
        BY <3>2 DEF AckEvent
      <4>2. QED BY <4>1 DEF AdmissionInv, Due
    <3>3. CASE AckFailed
      BY <3>3, SameAdmissionFits DEF AckFailed
    <3>4. QED BY <2>4, <3>1, <3>2, <3>3 DEF AckNext
  <2>5. CASE CloseTakesRequest \/ CloseTakesPublication
    <3>1. UNCHANGED <<journal, engine, wanted, candidate, adopted, checkpointSeq>>
      BY <2>5 DEF CloseTakesRequest, CloseTakesPublication
    <3>2. QED BY <3>1, SameAdmission
  <2>6. CASE CloseEnds
    BY <2>6 DEF CloseEnds, Stopped, StartEngine, AdmissionInv
  <2>7. CASE Sleep \/ Wakes
    <3>1. UNCHANGED <<journal, engine, wanted, candidate, adopted, checkpointSeq>>
      BY <2>7 DEF Sleep, Wakes
    <3>2. QED BY <3>1, SameAdmission
  <2>8. QED BY <1>3, <2>1, <2>2, <2>3, <2>4, <2>5, <2>6, <2>7 DEF EngineNext, CloseNext
<1>4. CASE WorkerNext /\ UNCHANGED engineVars
  <2>1. UNCHANGED <<engine, wanted, candidate, adopted, checkpointSeq>>
    BY <1>4 DEF engineVars
  <2>2. CASE UNCHANGED journal
    BY <2>1, <2>2, SameAdmission
  <2>3. CASE ~UNCHANGED journal
    <3>1. open /\ io.phase = "queued"
      BY <1>4, <2>3 DEF WorkerNext, WorkerCommits, WorkerFails, EncodeFails,
         PublicationStep, PublicationFails
    <3>2. engine # "committing" \/ candidate # "none"
      BY <3>1 DEF CheckpointInv, EngineInv
    <3>3. QED BY <2>1, <3>2 DEF AdmissionInv, Due
  <2>4. QED BY <2>2, <2>3
<1>5. CASE WaitFails \/ CloseBegins
  <2>1. CASE WaitFails
    BY <2>1, SameAdmissionFits DEF WaitFails
  <2>2. CASE CloseBegins
    <3>1. wanted.kind # "closure"
      BY <2>2 DEF CloseBegins, AdmissionInv
    <3>2. QED BY <2>2, <3>1, SameAdmissionFits DEF CloseBegins
  <2>3. QED BY <1>5, <2>1, <2>2
<1>6. CASE Crash \/ Open
  BY <1>6 DEF Crash, Stopped, Open, StartEngine, AdmissionInv
<1>7. QED BY <1>1, <1>2, <1>3, <1>4, <1>5, <1>6 DEF Next

\* Numbers of records and what they weigh at most.
LEMMA Weigh ==
    ASSUME NEW a \in Nat, NEW b \in Nat, a <= b, NEW h \in Nat
    PROVE  a * h <= b * h /\ a * h \in Nat
BY Z3

\* With such a journal, few records follow the boundary of the newest image.
LEMMA NewestIsNear ==
    ASSUME WindowInv, NEW r \in 1..Len(journal), NewestReceiptOf(r, Len(journal))
    PROVE  /\ journal[r].image.boundary \in 1..r - 1
           /\ Len(journal) - journal[r].image.boundary <= Interval + 2 * MaxClosures + 1
<1> USE DEF WindowInv, CheckpointInv
<1> DEFINE L == Len(journal)
           b == journal[r].image.boundary
<1>1. L \in Nat /\ Interval \in Nat \ {0} /\ MaxClosures \in Nat
  BY LenProperties, EngineAssumption DEF TypeOK, FileTypes
<1>2. journal[r].kind = "receipt" /\ \A m \in r + 1..L : journal[m].kind # "receipt"
  BY DEF NewestReceiptOf
<1>3. b \in 1..r - 1
  BY <1>2 DEF FilesInv
<1>4. \A n \in 1..L : journal[n].kind \in Kinds
  <2>1. \A n \in 1..L : journal[n] \in Records
    BY ElementOfSeq DEF TypeOK, FileTypes
  <2>2. QED BY <2>1 DEF Records
<1>5. \A n \in 2..L : journal[n].kind = "ordinary" =>
          \E m \in 1..n - 1 : journal[m].kind = "receipt" /\ n <= m + Interval
  BY DEF TailInv
<1>6. \A m \in 1..r - 1 : journal[m].kind = "receipt" => m + Interval <= b
  BY <1>2 DEF TailInv
<1>7. \A n \in 1..L : \A m \in 1..n : ClosureRun(m, n) => n - m < MaxClosures
  BY DEF TailInv
<1> HIDE DEF b, L
<1>8. r - 1 - b <= MaxClosures
  <2>1. ASSUME NEW n \in b + 1..r - 1 PROVE journal[n].kind = "closure"
    <3>1. n \in 2..L /\ n \in 1..r - 1
      BY <1>1, <1>3 DEF L
    <3>2. journal[n].kind # "receipt"
      BY <1>1, <1>3, <1>6, <3>1
    <3>3. journal[n].kind # "ordinary"
      BY <1>1, <1>3, <1>5, <1>6, <3>1
    <3>4. QED BY <1>4, <3>1, <3>2, <3>3
  <2>2. CASE b + 1 <= r - 1
    <3>1. ClosureRun(b + 1, r - 1)
      BY <2>1 DEF ClosureRun
    <3>2. r - 1 \in 1..L /\ b + 1 \in 1..r - 1
      BY <1>1, <1>3, <2>2 DEF L
    <3>3. r - 1 - (b + 1) < MaxClosures
      BY <1>7, <3>1, <3>2
    <3>4. QED BY <1>1, <1>3, <3>2, <3>3
  <2>3. QED BY <1>1, <1>3, <2>2
<1>9. L - r <= Interval + MaxClosures
  <2> DEFINE f == r + Interval + 1
  <2>1. ASSUME NEW n \in f..L PROVE journal[n].kind = "closure"
    <3>1. n \in 2..L /\ n \in r + 1..L
      BY <1>1
    <3>2. journal[n].kind # "receipt"
      BY <1>2, <3>1
    <3>3. ASSUME journal[n].kind = "ordinary" PROVE FALSE
      <4>1. PICK m \in 1..n - 1 : journal[m].kind = "receipt" /\ n <= m + Interval
        BY <1>5, <3>1, <3>3
      <4>2. m > r /\ m \in 1..L
        BY <1>1, <2>1, <4>1
      <4>3. QED BY <1>1, <1>2, <4>1, <4>2
    <3>4. QED BY <1>4, <3>1, <3>2, <3>3
  <2>2. CASE f <= L
    <3>1. ClosureRun(f, L)
      BY <2>1 DEF ClosureRun
    <3>2. L \in 1..L /\ f \in 1..L
      BY <1>1, <2>2
    <3>3. L - f < MaxClosures
      BY <1>7, <3>1, <3>2
    <3>4. QED BY <1>1, <3>2, <3>3
  <2>3. QED BY <1>1, <2>2
<1>10. QED BY <1>1, <1>3, <1>8, <1>9 DEF b, L

\* So the window reaches them.
LEMMA NewestIsFound ==
    ASSUME RecordsFit, WindowInv
    PROVE  SessionCanBeOpened
<1> USE DEF WindowInv, CheckpointInv
<1>1. PICK r \in 1..Len(journal), s \in Slots :
          NewestReceiptOf(r, Len(journal)) /\ slots[s] = journal[r].image
  BY DEF FilesInv
<1> DEFINE L == Len(journal)
           b == journal[r].image.boundary
           c == Interval + 2 * MaxClosures + 1
<1>2. b \in 1..r - 1 /\ L - b <= c /\ L \in Nat /\ c \in Nat /\ L - b \in Nat
  BY <1>1, NewestIsNear, LenProperties, EngineAssumption DEF TypeOK, FileTypes
<1>3. Heaviest \in Nat /\ Window \in Nat
  BY HeaviestIs, FilesAssumption
<1>4. \A n \in 0..L : End(n) \in Nat
  BY EndsAre DEF TypeOK, FileTypes
<1>5. \A m, n \in 0..L : m <= n => End(m) <= End(n)
  BY <1>4 DEF FilesInv, End
<1>6. End(L) <= End(b) + (L - b) * Heaviest
  <2>1. \A m, n \in 0..L : m <= n => End(n) <= End(m) + (n - m) * Heaviest
    BY DEF TailInv
  <2>2. b \in 0..L /\ L \in 0..L /\ b <= L
    BY <1>2
  <2> HIDE DEF L, b
  <2>3. QED BY <2>1, <2>2
<1>7. (L - b) * Heaviest <= c * Heaviest /\ (L - b) * Heaviest \in Nat
  <2> HIDE DEF L, b, c
  <2>1. QED BY <1>2, <1>3, Weigh
<1>8. c * Heaviest <= Window /\ c * Heaviest \in Nat
  <2>1. c * Heaviest <= Window
    BY DEF RecordsFit
  <2> HIDE DEF c
  <2>2. QED BY <1>2, <1>3, <2>1, Weigh
<1>9. b \in 0..L /\ r - 1 \in 0..L /\ L \in 0..L /\ b <= r - 1
  BY <1>2
<1>10. End(b) >= Floor /\ End(r - 1) >= Floor
  <2>1. End(L) \in Nat /\ End(b) \in Nat /\ End(r - 1) \in Nat /\ End(b) <= End(r - 1)
    BY <1>4, <1>5, <1>9
  <2>2. Floor = IF End(L) > Window THEN End(L) - Window ELSE 0
    BY DEF Floor
  <2>3. End(L) <= End(b) + Window
    <3>1. \A e, f, x, y, z \in Nat : e <= f + x /\ x <= y /\ y <= z => e <= f + z
      OBVIOUS
    <3> HIDE DEF c, L, b
    <3>2. QED BY <1>3, <1>6, <1>7, <1>8, <2>1, <3>1
  <2> HIDE DEF c, L, b
  <2>4. QED BY <1>3, <2>1, <2>2, <2>3
<1>11. r \in Receipts(s)
  BY <1>1, <1>10 DEF Receipts, Start, NewestReceiptOf
<1>12. QED BY <1>11 DEF SessionCanBeOpened

\* A session whose heaviest records leave room for an interval and its closing events
\* inside the window can be opened again, wherever a failure, a close or a crash comes
\* (snag_store_load_binary_session; commit_binary_session keeps the distance).
THEOREM OpensWhenRecordsFit == RecordsFit => (Spec => []SessionCanBeOpened)
<1> SUFFICES ASSUME RecordsFit PROVE Spec => []SessionCanBeOpened
  OBVIOUS
<1>1. Init => WindowInv
  BY InitHolds, InitWindow DEF WindowInv
<1>2. WindowInv /\ [Next]_vars => WindowInv'
  <2> SUFFICES ASSUME WindowInv, [Next]_vars PROVE WindowInv'
    OBVIOUS
  <2>1. CheckpointInv'
    BY StepKeeps DEF WindowInv
  <2>2. TailInv' /\ RequestFits' /\ ImagesFit' /\ AdmissionInv'
    BY TailKept, RequestFitKept, ImagesFitKept, AdmissionKept
  <2>3. QED BY <2>1, <2>2 DEF WindowInv
<1>3. WindowInv => SessionCanBeOpened
  BY NewestIsFound
<1>4. QED BY <1>1, <1>2, <1>3, PTL DEF Spec
=============================================================================
