--------------------------- MODULE SessionContext ---------------------------
(***************************************************************************)
(* Events about the model's view of the session: compaction of a prefix of *)
(* its history and arrival of room events; and the request to delete it.   *)
(* A boundary in the history is counted in turns started.                  *)
(***************************************************************************)
EXTENDS SessionState

BesideContext == <<turnVars, modelVars, responseVars, attemptVars, processes,
                   inputVars, queueVars, goals>>

\* A new boundary lies beyond the last one, unless the compaction only reduces
\* the summary or both views belong to different continuation scopes.
AdmissibleSource(src, reduce, scope) ==
    \/ src > compactSeq
    \/ reduce
    \/ scope # NoId /\ compactScope # NoId /\ scope # compactScope

CompactionMayStart(src, reduce, scope) ==
    /\ ~responseOpen
    /\ ~HasPending
    /\ activeTurn \/ processes = {}
    /\ activeCompact = NoCompact
    /\ AdmissibleSource(src, reduce, scope)

CompactionStarted(src, reduce, scope) ==
    /\ CompactionMayStart(src, reduce, scope)
    /\ activeCompact' = [seq |-> src, scope |-> scope]
    /\ UNCHANGED <<compactSeq, compactScope, ircVars, deleteRequested, BesideContext>>

CompactionInterrupted ==
    /\ activeCompact # NoCompact
    /\ ClearCompaction
    /\ UNCHANGED <<ircVars, deleteRequested, BesideContext>>

SummaryFits(scope) ==
    activeCompact # NoCompact /\ (activeCompact.scope # NoId => scope = activeCompact.scope)

CompactionCompleted(scope) ==
    /\ SummaryFits(scope)
    /\ compactSeq' = activeCompact.seq
    /\ compactScope' = scope
    /\ activeCompact' = NoCompact
    /\ UNCHANGED <<ircVars, deleteRequested, BesideContext>>

\* irc_event with input: the watermark is the event's own sequence number.
IrcInput ==
    /\ ircReceived < MaxIrc
    /\ ircReceived' = ircReceived + 1
    /\ UNCHANGED <<ircConsumed, responseIrc, compactVars, deleteRequested,
                   BesideContext>>

SessionDeleteRequested ==
    /\ ~responseOpen
    /\ ~HasPending
    /\ processes = {}
    /\ deleteRequested' = TRUE
    /\ UNCHANGED <<compactVars, ircVars, BesideContext>>

ContextNext ==
    \/ \E src \in 1..turnCount, reduce \in BOOLEAN, scope \in Scopes \cup {NoId} :
          CompactionStarted(src, reduce, scope)
    \/ CompactionInterrupted
    \/ \E scope \in Scopes \cup {NoId} : CompactionCompleted(scope)
    \/ IrcInput
    \/ SessionDeleteRequested
=============================================================================
