----------------------------- MODULE JournalFile -----------------------------
(***************************************************************************)
(* The bytes of a native journal, in chunks.  A batch carries one event    *)
(* and takes Width chunks, each chained to its place in the journal; a     *)
(* write may end after any of them, and a loss of power may leave chunks   *)
(* that are not what was written.                                          *)
(***************************************************************************)
EXTENDS Naturals, Sequences, FiniteSetsExt

CONSTANTS
    Events,      \* identities of the events that are committed
    Garbage,     \* a chunk that was never written back
    Width        \* chunks of one batch

\* Events, the place of the batch in the journal, the part of the batch.
Chunks == [ev : Events, seq : Nat, part : 1..Width]

ASSUME FileAssumption == Width \in Nat \ {0} /\ Garbage \notin Chunks

Chunk(e, n, part) == [ev |-> e, seq |-> n, part |-> part]

\* snag_binary_batch_encode: the batch of event e as the n-th of the journal.
Bytes(e, n) == [part \in 1..Width |-> Chunk(e, n, part)]

\* The part of file f beyond its first n batches.
TailAfter(f, n) == SubSeq(f, n * Width + 1, Len(f))

\* A batch checks when all of it is there and chains to the one before it.
BatchChecks(f, n) ==
    /\ n * Width <= Len(f)
    /\ \E e \in Events : SubSeq(f, (n - 1) * Width + 1, n * Width) = Bytes(e, n)

\* The verified prefix of a recovery, counted in batches, and its events.
Verified(f) == Max({n \in 0..Len(f) : \A m \in 1..n : BatchChecks(f, m)})
Recovered(f) == [n \in 1..Verified(f) |-> f[n * Width].ev]

\* What a loss of power can leave of f: a prefix, then chunks never written back.
Torn(f) ==
    UNION {{SubSeq(f, 1, kept) \o [k \in 1..lost |-> Garbage] : lost \in 0..Width} :
              kept \in 0..Len(f)}

HasGarbage(f) == \E k \in 1..Len(f) : f[k] = Garbage
=============================================================================
