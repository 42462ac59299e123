----------------------------- MODULE DurableLog -----------------------------
(***************************************************************************)
(* What a session's journal promises to the engine above it, whatever the  *)
(* I/O worker, a crash or an interrupted write does: "stored" is what a    *)
(* recovery would read now, "adopted" what the engine has committed and    *)
(* acted upon.  Nothing is adopted that is not stored, at most one event   *)
(* is stored before it is adopted, no event is stored twice, and only a    *)
(* loss of power takes stored events away, from the end.                   *)
(***************************************************************************)
EXTENDS Naturals, Sequences

CONSTANT Events

VARIABLES stored, adopted, open

logVars == <<stored, adopted, open>>

InLog(e, log) == \E n \in 1..Len(log) : log[n] = e

Init ==
    /\ stored = <<>>
    /\ adopted = <<>>
    /\ open = TRUE

Store(e) ==
    /\ open
    /\ stored = adopted
    /\ ~InLog(e, stored)
    /\ stored' = Append(stored, e)
    /\ UNCHANGED <<adopted, open>>

Adopt ==
    /\ open
    /\ Len(stored) = Len(adopted) + 1
    /\ adopted' = stored
    /\ UNCHANGED <<stored, open>>

\* A close or a crash of the process.
Stop ==
    /\ open
    /\ open' = FALSE
    /\ adopted' = <<>>
    /\ UNCHANGED stored

Reopen ==
    /\ ~open
    /\ open' = TRUE
    /\ adopted' = stored
    /\ UNCHANGED stored

\* Writes are acknowledged from the system's cache, so their newest tail may go.
LosePower ==
    /\ open' = FALSE
    /\ adopted' = <<>>
    /\ \E n \in 0..Len(stored) : stored' = SubSeq(stored, 1, n)

Next ==
    \/ \E e \in Events : Store(e)
    \/ Adopt
    \/ Stop
    \/ Reopen
    \/ LosePower

Spec == Init /\ [][Next]_logVars
=============================================================================
