----------------------- MODULE CheckpointFileProofs -----------------------
(***************************************************************************)
(* What the files of a session with checkpoints promise, whoever writes    *)
(* them, and that a search of them finds the newest receipt.               *)
(***************************************************************************)
EXTENDS CheckpointStore, SequenceTheorems, MaxProofs

USE DEF Slots, Kinds, Phases

\* The steps of a publication; the fifth renames the image into its slot.
LEMMA StepsAre ==
    /\ Len(Steps) = 6
    /\ \A k \in 1..6 : Steps[k] = "rename" <=> k = 5
<1>1. Len(Steps) = 6
  BY DEF Steps
<1>2. \A k \in 1..6 : k = 1 \/ k = 2 \/ k = 3 \/ k = 4 \/ k = 5 \/ k = 6
  OBVIOUS
<1>3. QED BY <1>1, <1>2 DEF Steps

\* One slot is replaced next, the other one is kept.
LEMMA TwoSlots ==
    /\ ReplacedSlot \in Slots /\ KeptSlot \in Slots /\ KeptSlot # ReplacedSlot
    /\ \A s \in Slots : s = ReplacedSlot \/ s = KeptSlot
BY DEF ReplacedSlot, KeptSlot

\* Parts of the invariant keep what they are about.
LEMMA SameFiles == FilesInv /\ UNCHANGED <<journal, slots>> => FilesInv'
BY DEF FilesInv, NewestReceiptOf

LEMMA SameRequest ==
    RequestInv /\ UNCHANGED <<journal, open, durable, io, result, candidate, staged,
                              retried, ioPending, published, awaitingReceipt>>
        => RequestInv'
BY DEF RequestInv, LeftInFile, Acknowledged

LEMMA SameSlots ==
    SlotsInv /\ UNCHANGED <<journal, slots, open, durable, cp, published, awaitingReceipt,
                            usable>>
        => SlotsInv'
BY DEF SlotsInv, NewestReceiptOf, Later, KeptSlot, ReplacedSlot

LEMMA SameNewest ==
    ASSUME NEW r, NEW n, NewestReceiptOf(r, n), UNCHANGED journal
    PROVE  NewestReceiptOf(r, n)'
BY DEF NewestReceiptOf

LEMMA SameTypes ==
    TypeOK /\ UNCHANGED <<fileVars, workerVars>> /\ EngineTypes' /\ FlagTypes' => TypeOK'
BY DEF TypeOK, FileTypes, RequestTypes, PublicationTypes, fileVars, workerVars

LEMMA SameInv == CheckpointInv /\ UNCHANGED vars => CheckpointInv'
<1> SUFFICES ASSUME CheckpointInv, UNCHANGED vars PROVE CheckpointInv'
  OBVIOUS
<1> USE DEF CheckpointInv, vars, fileVars, workerVars, engineVars
<1>1. TypeOK'
  BY SameTypes DEF TypeOK, EngineTypes, FlagTypes
<1>2. FilesInv' /\ RequestInv' /\ SlotsInv'
  BY SameFiles, SameRequest, SameSlots
<1>3. EngineInv'
  BY DEF EngineInv, Acknowledged
<1>4. HistoryInv'
  BY DEF HistoryInv, NewestReceiptOf, KeptSlot, ReplacedSlot, Acknowledged
<1>5. QED BY <1>1, <1>2, <1>3, <1>4

\* The next image is later than those of both slots.
LEMMA NextIsLater ==
    ASSUME TypeOK
    PROVE  NextGeneration \in Nat /\ \A s \in Slots : usable[s].generation < NextGeneration
<1> DEFINE G == {usable[s].generation : s \in Slots}
           n == usable[0].generation + usable[1].generation
<1>1. \A s \in Slots : usable[s].generation \in Nat
  BY DEF TypeOK, PublicationTypes
<1>2. n \in Nat /\ G \in SUBSET (0..n) /\ G # {}
  BY <1>1
<1>3. Max(G) \in G /\ \A g \in G : g <= Max(G)
  <2> HIDE DEF n, G
  <2>1. QED BY <1>2, MaxOf
<1>4. Max(G) \in Nat /\ \A s \in Slots : usable[s].generation <= Max(G)
  BY <1>1, <1>3
<1>5. NextGeneration = Max(G) + 1
  BY DEF NextGeneration
<1>6. QED BY <1>1, <1>4, <1>5

\* Unless a receipt waits for its acknowledgement in the file, the worker's newest
\* receipt is the newest one of the journal.
LEMMA NewestInFile ==
    ASSUME CheckpointInv, open, ~awaitingReceipt
    PROVE  /\ NewestReceiptOf(usable[KeptSlot].sequence, Len(journal))
           /\ slots[KeptSlot] = journal[usable[KeptSlot].sequence].image
<1> DEFINE r == usable[KeptSlot].sequence
<1> USE DEF CheckpointInv
<1>1. NewestReceiptOf(r, durable) /\ slots[KeptSlot] = journal[r].image
  BY DEF SlotsInv
<1>2. durable \in Nat /\ Len(journal) \in Nat /\ durable <= Len(journal)
  BY DEF TypeOK, FileTypes
<1>3. CASE ~LeftInFile
  BY <1>1, <1>3 DEF RequestInv
<1>4. CASE LeftInFile
  <2>1. io.phase # "idle" /\ ~Acknowledged
    BY <1>4 DEF LeftInFile, RequestInv, NoIo
  <2>2. io.kind # "receipt"
    BY <2>1 DEF RequestInv
  <2>3. Len(journal) = durable + 1 /\ journal[durable + 1].kind # "receipt"
    BY <1>4, <2>2 DEF RequestInv
  <2> HIDE DEF r
  <2>4. NewestReceiptOf(r, durable + 1)
    BY <1>1, <1>2, <2>3 DEF NewestReceiptOf
  <2>5. QED BY <1>1, <2>3, <2>4 DEF r
<1>5. QED BY <1>3, <1>4

\* Renaming an image into its slot leaves the one of the newest receipt in its own.
LEMMA Renaming ==
    ASSUME CheckpointInv, open, cp.phase = "queued", UNCHANGED journal,
           Renamed \/ UNCHANGED slots
    PROVE  /\ slots' \in [Slots -> Images]
           /\ \A s \in Slots : s # cp.slot => slots'[s] = slots[s]
           /\ cp.slot = ReplacedSlot
           /\ FilesInv'
<1> USE DEF CheckpointInv
<1>1. slots \in [Slots -> Images] /\ cp.slot \in Slots /\ cp.image \in Images
  BY DEF TypeOK, FileTypes, PublicationTypes, Publications
<1>2. slots' \in [Slots -> Images] /\ \A s \in Slots : s # cp.slot => slots'[s] = slots[s]
  BY <1>1 DEF Renamed
<1>3. Later(cp.slot, cp.image) /\ cp.slot = ReplacedSlot /\ ~awaitingReceipt
  BY DEF SlotsInv, Later
<1>4. slots'[KeptSlot] = slots[KeptSlot]
  BY <1>2, <1>3, TwoSlots
<1>5. slots'[0] # slots'[1]
  <2>1. CASE UNCHANGED slots
    BY <2>1 DEF FilesInv
  <2>2. CASE Renamed
    <3>1. slots'[cp.slot] = cp.image /\ slots[KeptSlot].generation = usable[KeptSlot].generation
      BY <2>2, <1>1 DEF Renamed, SlotsInv
    <3>2. cp.image.generation > slots[KeptSlot].generation
      BY <1>3, <3>1 DEF Later
    <3>3. slots[KeptSlot].generation \in Nat
      BY <1>1, TwoSlots DEF Images
    <3>4. cp.image # slots[KeptSlot]
      BY <3>2, <3>3
    <3>5. QED BY <1>3, <1>4, <3>1, <3>4, TwoSlots
  <2>3. QED BY <2>1, <2>2
<1>6. \E r \in 1..Len(journal) :
          NewestReceiptOf(r, Len(journal)) /\ \E s \in Slots : slots'[s] = journal[r].image
  <2>1. usable[KeptSlot].sequence \in 1..Len(journal)
    BY <1>3, NewestInFile DEF NewestReceiptOf
  <2>2. QED BY <2>1, <1>3, <1>4, NewestInFile, TwoSlots
<1>7. FilesInv'
  BY <1>5, <1>6 DEF FilesInv, NewestReceiptOf
<1>8. QED BY <1>2, <1>3, <1>7

\* What a batch does to the journal, whether or not an earlier attempt left it there.
LEMMA BatchIsRecord ==
    ASSUME CheckpointInv, open, io.phase = "queued", BatchWritten
    PROVE  /\ journal' \in Seq(Records)
           /\ Len(journal') = durable + 1
           /\ \A n \in 1..durable : journal'[n] = journal[n]
           /\ journal'[durable + 1].kind = io.kind
           /\ io.kind = "receipt" => journal'[durable + 1].image = published.image
           /\ io.kind = "receipt" => awaitingReceipt
<1> USE DEF CheckpointInv
<1>1. ~Acknowledged /\ io.phase # "idle"
  BY DEF Acknowledged
<1>2. journal \in Seq(Records) /\ durable \in 0..Len(journal) /\ Len(journal) \in Nat
  BY LenProperties DEF TypeOK, FileTypes
<1>3. io.kind = "receipt" => awaitingReceipt
  BY <1>1 DEF RequestInv
<1>4. CASE io.written
  <2>1. LeftInFile /\ UNCHANGED journal
    BY <1>1, <1>4 DEF LeftInFile, BatchWritten
  <2>2. Len(journal) = durable + 1
    BY <2>1 DEF RequestInv
  <2>3. QED BY <1>2, <1>3, <2>1, <2>2 DEF RequestInv
<1>5. CASE ~io.written
  <2> DEFINE new == RecordAfter(journal, io.kind, io.size, Image)
  <2>1. journal' = Append(journal, new) /\ ~LeftInFile
    BY <1>5 DEF BatchWritten, LeftInFile
  <2>2. Len(journal) = durable
    BY <2>1 DEF RequestInv
  <2>3. new \in Records
    <3>1. io.kind \in Kinds
      BY <1>1 DEF RequestInv, EngineInv, TypeOK, EngineTypes, Events, NoEvent
    <3>2. Image \in Images
      BY DEF Image, NoImage, Images, TypeOK, PublicationTypes
    <3>3. io.size \in Nat
      BY DEF TypeOK, RequestTypes, Requests
    <3>4. journal # <<>> => journal[Len(journal)].end \in Nat
      <4>1. journal # <<>> => Len(journal) \in 1..Len(journal)
        BY <1>2, EmptySeq
      <4>2. journal # <<>> => journal[Len(journal)] \in Records
        BY <1>2, <4>1, ElementOfSeq
      <4>3. QED BY <4>2 DEF Records
    <3>5. (io.size + IF journal = <<>> THEN 0 ELSE journal[Len(journal)].end) \in Nat
      BY <3>3, <3>4
    <3>6. QED BY <3>1, <3>2, <3>5 DEF RecordAfter, Records
  <2>4. new.kind = io.kind /\ (io.kind = "receipt" => new.image = published.image)
    BY DEF RecordAfter, Image
  <2> HIDE DEF new
  <2>5. QED BY <1>2, <1>3, <2>1, <2>2, <2>3, <2>4, AppendProperties
<1>6. QED BY <1>4, <1>5

\* The files keep their promise when the worker writes a batch.
LEMMA BatchKeepsFiles ==
    ASSUME CheckpointInv, open, io.phase = "queued", BatchWritten, UNCHANGED slots
    PROVE  FilesInv'
<1> USE DEF CheckpointInv
<1> DEFINE k == durable + 1
           q == usable[KeptSlot].sequence
<1>1. CASE io.written
  <2>1. UNCHANGED journal
    BY <1>1 DEF BatchWritten
  <2>2. QED BY <2>1, SameFiles
<1>2. CASE ~io.written
  <2>1. Len(journal) = durable /\ Len(journal') = k /\ durable \in Nat
        /\ \A n \in 1..durable : journal'[n] = journal[n]
    BY <1>2, BatchIsRecord DEF LeftInFile, RequestInv, TypeOK, FileTypes
  <2>2. journal'[k].kind = io.kind
        /\ (io.kind = "receipt" => journal'[k].image = published.image /\ awaitingReceipt)
    BY BatchIsRecord
  <2>3. NewestReceiptOf(q, durable) /\ q \in 1..durable
        /\ slots[KeptSlot] = journal[q].image
        /\ usable[KeptSlot].generation = slots[KeptSlot].generation
    BY DEF SlotsInv, NewestReceiptOf
  <2>4. \A m, n \in 1..k : m <= n => journal'[m].end <= journal'[n].end
    <3>1. \A n \in 1..durable : journal[n].end \in Nat
      <4>1. \A n \in 1..durable : journal[n] \in Records
        BY <2>1, ElementOfSeq DEF TypeOK, FileTypes
      <4>2. QED BY <4>1 DEF Records
    <3>2. journal[durable].end <= journal'[k].end /\ journal'[k].end \in Nat
      <4>1. journal' = Append(journal, RecordAfter(journal, io.kind, io.size, Image))
        BY <1>2 DEF BatchWritten
      <4>2. journal'[k] = RecordAfter(journal, io.kind, io.size, Image)
        BY <2>1, <4>1, AppendProperties DEF TypeOK, FileTypes
      <4>3. durable >= 1 /\ journal # <<>>
        BY <2>1, <2>3, EmptySeq
      <4>4. journal'[k].end = io.size + journal[durable].end
        BY <2>1, <4>2, <4>3 DEF RecordAfter
      <4>5. io.size \in Nat /\ journal[durable].end \in Nat
        BY <2>1, <3>1, <4>3 DEF TypeOK, RequestTypes, Requests
      <4>6. QED BY <4>4, <4>5
    <3>3. \A m, n \in 1..durable : m <= n => journal[m].end <= journal[n].end
      BY <2>1 DEF FilesInv
    <3>4. \A m \in 1..durable : journal[m].end <= journal'[k].end
      <4>1. ASSUME NEW m \in 1..durable PROVE journal[m].end <= journal'[k].end
        <5>1. journal[m].end <= journal[durable].end
          BY <2>1, <3>3
        <5>2. journal[m].end \in Nat /\ journal[durable].end \in Nat
          BY <2>1, <3>1
        <5>3. QED BY <3>2, <5>1, <5>2
      <4>2. QED BY <4>1
    <3>5. \A n \in 1..k : n \in 1..durable \/ n = k
      BY <2>1
    <3>6. QED BY <2>1, <3>2, <3>3, <3>4, <3>5
  <2>5. ASSUME NEW n \in 1..k, journal'[n].kind = "receipt"
        PROVE  /\ journal'[n].image.generation >= 1
               /\ journal'[n].image.boundary \in 1..n - 1
               /\ \A m \in 1..n - 1 : journal'[m].kind = "receipt" =>
                     /\ journal'[m].image.generation < journal'[n].image.generation
                     /\ m <= journal'[n].image.boundary
    <3>1. CASE n # k
      BY <2>1, <2>5, <3>1 DEF FilesInv
    <3>2. CASE n = k
      <4>1. journal'[n].image = published.image /\ awaitingReceipt
        BY <2>2, <2>5, <3>2
      <4>2. published.image.generation > usable[KeptSlot].generation
            /\ published.image.boundary \in q..durable
        BY <4>1 DEF SlotsInv, Later
      <4>3. \A m \in 1..durable : journal[m].kind = "receipt" =>
                m <= q /\ (m # q => journal[m].image.generation < journal[q].image.generation)
        BY <2>1, <2>3 DEF NewestReceiptOf, FilesInv
      <4>4. journal[q].image.generation >= 1 /\ journal[q].image.generation = usable[KeptSlot].generation
        BY <2>1, <2>3 DEF NewestReceiptOf, FilesInv
      <4>5. published.image.generation \in Nat /\ usable[KeptSlot].generation \in Nat
        BY TwoSlots DEF TypeOK, PublicationTypes, Images
      <4>6. \A m \in 1..durable : journal[m].kind = "receipt" => journal[m].image.generation \in Nat
        <5>1. \A m \in 1..durable : journal[m] \in Records
          BY <2>1, ElementOfSeq DEF TypeOK, FileTypes
        <5>2. QED BY <5>1 DEF Records, Images
      <4> HIDE DEF q
      <4>7. \A m \in 1..durable : journal[m].kind = "receipt" =>
                journal[m].image.generation < published.image.generation
        BY <4>2, <4>3, <4>4, <4>5, <4>6
      <4>8. n - 1 = durable
        BY <2>1, <3>2
      <4>9. q \in 1..durable
        BY <2>3 DEF q
      <4>10. \A m \in 1..durable : journal[m].kind = "receipt" => m <= published.image.boundary
        BY <2>1, <4>2, <4>3, <4>9
      <4>11. QED BY <2>1, <4>1, <4>2, <4>4, <4>5, <4>7, <4>8, <4>9, <4>10
    <3>3. QED BY <3>1, <3>2
  <2>6. (\E r \in 1..Len(journal) :
            NewestReceiptOf(r, Len(journal)) /\ \E s \in Slots : slots[s] = journal[r].image)'
    <3>1. CASE io.kind = "receipt"
      <4>1. slots[published.slot] = published.image /\ published.slot \in Slots
        BY <2>2, <3>1 DEF SlotsInv, TypeOK, PublicationTypes
      <4>2. k \in 1..k /\ \A m \in k + 1..k : FALSE
        BY <2>1
      <4>3. \A r : r = k => NewestReceiptOf(r, Len(journal))'
        BY <2>1, <2>2, <3>1, <4>2 DEF NewestReceiptOf
      <4>4. QED BY <2>1, <2>2, <3>1, <4>1, <4>2, <4>3
    <3>2. CASE io.kind # "receipt"
      <4>1. q \in 1..k /\ journal'[q].kind = "receipt" /\ journal'[q] = journal[q]
        BY <2>1, <2>3 DEF NewestReceiptOf
      <4>2. \A m \in q + 1..k : journal'[m].kind # "receipt"
        BY <2>1, <2>2, <2>3, <3>2 DEF NewestReceiptOf
      <4>3. \A r : r = q => NewestReceiptOf(r, Len(journal))'
        BY <2>1, <4>1, <4>2 DEF NewestReceiptOf
      <4>4. QED BY <2>1, <2>3, <4>1, <4>3, TwoSlots
    <3>3. QED BY <3>1, <3>2
  <2>7. slots'[0] # slots'[1]
    BY DEF FilesInv
  <2>8. (\A m, n \in 1..Len(journal) : m <= n => journal[m].end <= journal[n].end)'
    BY <2>1, <2>4
  <2>9. QED BY <2>1, <2>5, <2>6, <2>7, <2>8 DEF FilesInv
<1>3. QED BY <1>1, <1>2

\* What the files promise is enough to find the newest receipt and its image: when a
\* search finds any receipt it finds the newest one, in the slot of its image, and
\* what is usable of the other slot is older.
THEOREM SearchFindsNewest ==
    ASSUME journal \in Seq(Records), slots \in [Slots -> Images], FilesInv,
           \E s \in Slots : Receipts(s) # {}
    PROVE  \E r \in 1..Len(journal), s \in Slots :
              /\ NewestReceiptOf(r, Len(journal))
              /\ slots[s] = journal[r].image
              /\ Usable(s) = [generation |-> slots[s].generation, sequence |-> r]
              /\ Usable(1 - s).sequence \in Nat
              /\ Usable(1 - s).sequence < r
              /\ Usable(1 - s).generation \in Nat
              /\ Usable(1 - s).generation < slots[s].generation
<1>1. PICK r \in 1..Len(journal), s \in Slots :
          NewestReceiptOf(r, Len(journal)) /\ slots[s] = journal[r].image
  BY DEF FilesInv
<1>2. PICK t \in Slots, n \in 1..Len(journal) :
          /\ journal[n].kind = "receipt"
          /\ journal[n].image = slots[t]
          /\ Start(n) >= Floor
          /\ End(slots[t].boundary) >= Floor
  BY DEF Receipts
<1>3. \A k \in 0..Len(journal) : End(k) \in Nat
  <2>1. \A k \in 1..Len(journal) : journal[k].end \in Nat
    <3>1. \A k \in 1..Len(journal) : journal[k] \in Records
      BY ElementOfSeq
    <3>2. \A x \in Records : x.end \in Nat
      BY DEF Records
    <3>3. QED BY <3>1, <3>2
  <2>2. QED BY <2>1, LenProperties DEF End
<1>4. \A j, k \in 0..Len(journal) : j <= k => End(j) <= End(k)
  BY <1>3 DEF FilesInv, End
<1>5. Floor \in Nat
  BY <1>3, FilesAssumption DEF Floor
<1>6. \A m \in 1..Len(journal) : journal[m].kind = "receipt" => m <= r
  BY <1>1 DEF NewestReceiptOf
<1>7. journal[r].kind = "receipt" /\ slots[s].boundary \in 1..r - 1 /\ slots[s].generation >= 1
      /\ slots[s].generation \in Nat
  BY <1>1 DEF NewestReceiptOf, FilesInv, Images
<1>8. r \in Receipts(s)
  <2>1. CASE n = r
    <3>1. s = t
      BY <1>1, <1>2, <2>1 DEF FilesInv
    <3>2. QED BY <1>1, <1>2, <1>7, <2>1, <3>1 DEF Receipts
  <2>2. CASE n # r
    <3>1. n <= r - 1 /\ n <= slots[s].boundary
      BY <1>1, <1>2, <1>6, <1>7, <2>2 DEF FilesInv
    <3>2. End(n - 1) <= End(r - 1)
      BY <1>4, <3>1
    <3>3. End(n - 1) <= End(slots[s].boundary)
      BY <1>4, <1>7, <3>1
    <3>4. Start(r) >= Floor /\ End(slots[s].boundary) >= Floor
      <4>1. End(n - 1) \in Nat /\ End(r - 1) \in Nat /\ End(slots[s].boundary) \in Nat
        BY <1>3, <1>7
      <4>2. QED BY <1>2, <1>5, <3>2, <3>3, <4>1 DEF Start
    <3>5. QED BY <1>1, <1>7, <3>4 DEF Receipts
  <2>3. QED BY <2>1, <2>2
<1>9. \A x \in Slots : Receipts(x) # {} =>
          Max(Receipts(x)) \in Receipts(x) /\ \A m \in Receipts(x) : m <= Max(Receipts(x))
  <2>1. ASSUME NEW x \in Slots, Receipts(x) # {}
        PROVE  Max(Receipts(x)) \in Receipts(x) /\ \A m \in Receipts(x) : m <= Max(Receipts(x))
    <3>1. Receipts(x) \in SUBSET (0..Len(journal)) /\ Len(journal) \in Nat
      BY DEF Receipts
    <3>2. QED BY <2>1, <3>1, MaxOf
  <2>2. QED BY <2>1
<1>10. Usable(s) = [generation |-> slots[s].generation, sequence |-> r]
  <2>1. Max(Receipts(s)) \in 1..Len(journal) /\ journal[Max(Receipts(s))].kind = "receipt"
        /\ r <= Max(Receipts(s))
    BY <1>8, <1>9 DEF Receipts
  <2>2. Max(Receipts(s)) = r
    BY <1>6, <2>1
  <2>3. QED BY <1>8, <2>2 DEF Usable
<1>11. /\ Usable(1 - s).sequence \in Nat /\ Usable(1 - s).sequence < r
       /\ Usable(1 - s).generation \in Nat /\ Usable(1 - s).generation < slots[s].generation
  <2>1. CASE Receipts(1 - s) = {}
    BY <1>7, <2>1 DEF Usable
  <2>2. CASE Receipts(1 - s) # {}
    <3> DEFINE m == Max(Receipts(1 - s))
    <3>1. 1 - s \in Slots /\ slots[1 - s] # slots[s]
      BY DEF FilesInv
    <3>2. m \in 1..Len(journal) /\ journal[m].kind = "receipt" /\ journal[m].image = slots[1 - s]
      BY <1>9, <2>2, <3>1 DEF Receipts
    <3>3. Usable(1 - s) = [generation |-> slots[1 - s].generation, sequence |-> m]
      BY <2>2 DEF Usable
    <3> HIDE DEF m
    <3>4. m <= r - 1
      BY <1>1, <1>6, <3>1, <3>2
    <3>5. slots[1 - s].generation < slots[s].generation
      BY <1>1, <1>7, <3>2, <3>4 DEF FilesInv
    <3>6. slots[1 - s].generation \in Nat
      BY <3>1 DEF Images
    <3>7. QED BY <3>2, <3>3, <3>4, <3>5, <3>6
  <2>3. QED BY <2>1, <2>2
<1>12. QED BY <1>1, <1>10, <1>11

\* A worker that starts on such files keeps the slot of the newest receipt.
LEMMA StartsFromNewest ==
    ASSUME journal \in Seq(Records), slots \in [Slots -> Images], FilesInv,
           \E s \in Slots : Receipts(s) # {},
           NEW u, u = [s \in Slots |-> Usable(s)],
           NEW replaced, replaced = IF u[0].sequence <= u[1].sequence THEN 0 ELSE 1,
           NEW kept, kept = 1 - replaced
    PROVE  /\ u \in [Slots -> [generation: Nat, sequence: Nat]]
           /\ kept \in Slots
           /\ NewestReceipt = u[kept].sequence
           /\ NewestReceiptOf(NewestReceipt, Len(journal))
           /\ slots[kept] = journal[NewestReceipt].image
           /\ u[kept].generation = slots[kept].generation
           /\ u[replaced].sequence < NewestReceipt
           /\ u[replaced].generation < u[kept].generation
<1>1. PICK r \in 1..Len(journal), s \in Slots :
              /\ NewestReceiptOf(r, Len(journal))
              /\ slots[s] = journal[r].image
              /\ Usable(s) = [generation |-> slots[s].generation, sequence |-> r]
              /\ Usable(1 - s).sequence \in Nat
              /\ Usable(1 - s).sequence < r
              /\ Usable(1 - s).generation \in Nat
              /\ Usable(1 - s).generation < slots[s].generation
  BY SearchFindsNewest
<1>2. 1 - s \in Slots /\ 1 - s # s /\ \A x \in Slots : x = s \/ x = 1 - s
  OBVIOUS
<1>3. slots[s].generation \in Nat
  BY DEF Images
<1>4. u[s] = Usable(s) /\ u[1 - s] = Usable(1 - s)
  BY <1>2
<1>5. kept = s /\ replaced = 1 - s
  BY <1>1, <1>4
<1>6. NewestReceipt = r
  <2> DEFINE Q == {Usable(x).sequence : x \in Slots}
  <2>1. r \in Q /\ Q \in SUBSET (0..r) /\ r \in Nat
    BY <1>1, <1>2, LenProperties
  <2>2. Max(Q) \in Q /\ \A q \in Q : q <= Max(Q)
    <3> HIDE DEF Q
    <3>1. QED BY <2>1, MaxOf
  <2> HIDE DEF Q
  <2>3. Max(Q) = r
    <3>1. Max(Q) \in 0..r
      BY <2>1, <2>2
    <3>2. r <= Max(Q)
      BY <2>1, <2>2
    <3>3. r \in Nat
      BY LenProperties
    <3>4. QED BY <3>1, <3>2, <3>3
  <2>4. QED BY <2>3 DEF Q, NewestReceipt
<1>7. u \in [Slots -> [generation: Nat, sequence: Nat]]
  <2>1. \A x \in Slots : Usable(x) \in [generation: Nat, sequence: Nat]
    <3>1. Usable(s) \in [generation: Nat, sequence: Nat]
      BY <1>1, <1>3
    <3>2. Usable(1 - s) \in [generation: Nat, sequence: Nat]
      BY <1>1 DEF Usable
    <3>3. QED BY <1>2, <3>1, <3>2
  <2>2. QED BY <2>1
<1>8. QED BY <1>1, <1>4, <1>5, <1>6, <1>7
=============================================================================
