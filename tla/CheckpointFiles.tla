--------------------------- MODULE CheckpointFiles ---------------------------
(***************************************************************************)
(* What a native session keeps on disk for resuming without its whole      *)
(* history: the journal, and two slots that hold images of its state.  An  *)
(* image counts only when a receipt for it is in the journal, near enough  *)
(* to its end (store_binary.c, store_binary_context.c).                    *)
(*                                                                         *)
(* A batch is one record here, whole or absent: Journal shows that a torn  *)
(* one is cut off before anything else reads it.  The digest of an image   *)
(* stands for its generation and boundary, which determine its bytes.      *)
(***************************************************************************)
EXTENDS Naturals, Sequences, FiniteSets, FiniteSetsExt

CONSTANTS
    Sizes,       \* sizes of events
    Window,      \* SNAG_BINARY_SUFFIX_TARGET and one batch, in the unit of Sizes
    MaxStops     \* bound: times the session is closed or crashes

ASSUME FilesAssumption ==
    /\ Sizes \subseteq Nat \ {0}
    /\ \A s \in Sizes : s <= Window
    /\ Window \in Nat \ {0}
    /\ MaxStops \in Nat

VARIABLES
    journal,     \* records of journal.bin, with the offset where each one ends
    slots,       \* images in checkpoint.0 and checkpoint.1
    open,        \* a process owns the session
    stops        \* stops so far

fileVars == <<journal, slots, open, stops>>

Slots       == {0, 1}
Kinds       == {"ordinary", "closure", "receipt"}
ReceiptSize == 1
Images      == [generation: Nat, boundary: Nat]
NoImage     == [generation |-> 0, boundary |-> 0]
Records     == [kind: Kinds, image: Images, end: Nat]

End(n)   == IF n = 0 THEN 0 ELSE journal[n].end
Start(n) == End(n - 1)

\* A record of some kind and size behind the records of log.
RecordAfter(log, kind, size, image) ==
    [kind |-> kind, image |-> image,
     end |-> size + (IF log = <<>> THEN 0 ELSE log[Len(log)].end)]

\* snag_store_load_binary_session: where the search for receipts stops.
Floor == IF End(Len(journal)) > Window THEN End(Len(journal)) - Window ELSE 0

\* snag_binary_checkpoint_receipts_find: the receipts of the image in slot s, when
\* both they and the boundary the image was taken at are inside the window.
Receipts(s) ==
    {n \in 1..Len(journal) :
        /\ journal[n].kind = "receipt"
        /\ journal[n].image = slots[s]
        /\ Start(n) >= Floor
        /\ End(slots[s].boundary) >= Floor}

\* snag_store_admit_binary_context_checkpoint: what is usable of slot s.
Usable(s) ==
    IF Receipts(s) = {}
    THEN [generation |-> 0, sequence |-> 0]
    ELSE [generation |-> slots[s].generation, sequence |-> Max(Receipts(s))]

\* A new session: its first event, the image taken after it, and its receipt.
FirstImage == [generation |-> 1, boundary |-> 1]

FilesInit ==
    /\ LET created == <<RecordAfter(<<>>, "ordinary", 1, NoImage)>>
       IN journal = Append(created, RecordAfter(created, "receipt", ReceiptSize, FirstImage))
    /\ slots = [s \in Slots |-> IF s = 0 THEN FirstImage ELSE NoImage]
    /\ open = TRUE
    /\ stops = 0
=============================================================================
