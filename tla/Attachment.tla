----------------------------- MODULE Attachment -----------------------------
(***************************************************************************)
(* A session, its relay and the terminals that attach, detach, move,       *)
(* switch away, are suspended, stall and die, in any order.                *)
(***************************************************************************)
EXTENDS SessionOwner, TerminalClient

Next == RelayStep \/ OwnerStep \/ \E c \in Terminals : TerminalStep(c)

\* The presentation thread keeps polling, so deadlines pass and events are seen,
\* and the engine goes on.  Nothing is assumed of a terminal or of a socket.
Fairness == WF_vars(Expire) /\ WF_vars(Service) /\ WF_vars(EngineStep)

Spec == AttachInit /\ [][Next]_vars /\ Fairness
-----------------------------------------------------------------------------
Ends == {"detach", "exit"}
Said == Lines \cup {"ack", "error"}

Sent(c, types)     == \E k \in 1..Len(down[c]) : down[c][k].type \in types
OnlySent(c, types) == \A k \in 1..Len(down[c]) : down[c][k].type \in types
Acked(c)           == \E k \in 1..Len(up[c]) : up[c][k] = "ack"
FirstIsReady(c)    == down[c] # <<>> /\ down[c][1].type = "ready"

\* The frames a terminal takes in each of its modes.
Takes(m) ==
    CASE m \in {"reserving", "moving"}             -> {"ready", "busy"} \cup Ends
      [] m = "committing"                          -> {"ready", "output"} \cup Ends
      [] m = "ready"                               -> {"output"} \cup Ends
      [] m \in {"bound", "switching", "draining"}  -> {"output", "switch", "suspend"} \cup Ends
      [] m = "suspended"                           -> Ends
      [] m \in {"away", "refused"}                 -> {}

\* What is on its way to a terminal, its peer still there or not, is what the
\* terminal can take, one frame after the other.
Legible(c) ==
    /\ mode[c] \in {"away", "refused", "reserving", "moving"} => up[c] = <<>>
    /\ holding[c] # 0 => mode[c] \in {"bound", "switching"} /\ ~Sent(c, {"output"})
    /\ \A k \in 1..Len(down[c]) :
        /\ down[c][k].type \in Takes(mode[c])
        /\ down[c][k].type = "ready" => k = 1
        /\ down[c][k].type = "busy" => Len(down[c]) = 1
        /\ down[c][k].type = "output" =>
              /\ \A j \in k + 1..Len(down[c]) : down[c][j].type # "output"
              /\ mode[c] = "committing" => FirstIsReady(c)
        /\ down[c][k].type = "suspend" =>
              \A j \in k + 1..Len(down[c]) : down[c][j].type \in Ends

\* What a phase of the relay leaves of the other fields.
Writes ==
    CASE relay.phase = "wait_reserve" -> {}
      [] relay.phase = "reserved"     -> IF relay.handshake THEN {"ready"} ELSE {"suspend"}
      [] relay.phase = "repaint"      -> {}
      [] relay.phase = "accepted"     -> {"ready", "output"}
      [] relay.phase = "attached"     -> {"output", "switch"}

PhaseInv ==
    /\ relay.peer = NoOne => relay = Vacant(relay.generation)
    /\ relay.peer # NoOne => relay.phase # "wait_reserve"
    /\ relay.closing <=> relay.output.type \in Ends
    /\ relay.output.type = "none" => relay.output = NoFrame
    /\ relay.output.type \in {"none"} \cup Ends \cup Writes
    /\ relay.phase = "attached" => ~relay.handshake
    /\ relay.phase = "repaint" \/ (relay.phase = "reserved" /\ relay.handshake) => ~relay.unacked

\* A terminal has one connection, and one that waits to be heard has a fresh one.
CallersInv ==
    /\ relay.peer \notin backlog /\ reject.who \notin backlog
    /\ reject.who # NoOne => reject.who # relay.peer
    /\ reject.busy => reject.who # NoOne
    /\ \A c \in Terminals : c \in backlog \/ c = reject.who =>
          mode[c] \in {"away", "reserving", "moving"} /\ down[c] = <<>>

Peer(c) == relay.peer = c /\ mode[c] # "away"

\* Where the peer is in each phase, and what it has said and not been heard yet.
InReservation(c) ==
    \/ mode[c] \in {"reserving", "moving"} /\ ~Sent(c, {"busy"})
    \/ /\ mode[c] = "committing" /\ up[c] = <<"commit">>
       /\ relay.output.type # "ready" /\ down[c] = <<>>
InRepaint(c) == mode[c] = "committing" /\ up[c] = <<>> /\ down[c] = <<>>
InAcceptance(c) ==
    \/ mode[c] = "committing" /\ up[c] = <<>> /\ (relay.output.type = "ready" \/ FirstIsReady(c))
    \/ mode[c] = "ready" /\ up[c] = <<>> /\ relay.output.type # "ready"
    \/ /\ mode[c] = "bound" /\ up[c] # <<>> /\ up[c][1] = "bound"
       /\ \A k \in 2..Len(up[c]) : up[c][k] \in Said
       /\ relay.output.type # "ready" /\ OnlySent(c, {"output"})
InAttachment(c) ==
    /\ mode[c] \in {"bound", "switching", "draining"} /\ ~Sent(c, {"suspend"})
    /\ \A k \in 1..Len(up[c]) : up[c][k] \in Said
InSuspension(c) ==
    \/ /\ mode[c] \in {"bound", "switching", "draining", "suspended"}
       /\ \A k \in 1..Len(up[c]) : up[c][k] \in Said
    \/ /\ mode[c] = "committing" /\ up[c] # <<>> /\ up[c][Len(up[c])] = "commit"
       /\ \A k \in 1..Len(up[c]) - 1 : up[c][k] \in Said
       /\ down[c] = <<>> /\ relay.output.type # "suspend"

Dialogue(c) == Peer(c) =>
    /\ relay.phase = "reserved" /\ relay.handshake  => InReservation(c)
    /\ relay.phase = "reserved" /\ ~relay.handshake => InSuspension(c)
    /\ relay.phase = "repaint"  => InRepaint(c)
    /\ relay.phase = "accepted" => InAcceptance(c)
    /\ relay.phase = "attached" => InAttachment(c)
    /\ ~Sent(c, Ends)
    /\ relay.output.type = "ready" => down[c] = <<>>
    /\ relay.output.type # "none" => relay.output.type \in Takes(mode[c])
    /\ Sent(c, {"suspend"}) => relay.output.type \in {"none"} \cup Ends
    /\ relay.output.type = "output" /\ mode[c] = "committing" => FirstIsReady(c)

\* The one output that is not acknowledged is in one place only.
Acks(c) == Peer(c) =>
    /\ \A j, k \in 1..Len(up[c]) : up[c][j] = "ack" /\ up[c][k] = "ack" => j = k
    /\ Acked(c) => ~Sent(c, {"output"}) /\ holding[c] = 0 /\ relay.output.type # "output"
    /\ Sent(c, {"output"}) \/ holding[c] # 0 => relay.output.type # "output"
    /\ LET OnItsWay == Acked(c) \/ Sent(c, {"output"}) \/ holding[c] # 0
                        \/ relay.output.type = "output"
       IN  /\ OnItsWay => relay.unacked
           /\ relay.unacked /\ mode[c] # "draining" => OnItsWay

\* What is on its way to a terminal was written since it was activated.
Fresh(c) ==
    /\ since[c] <= relay.generation
    /\ holding[c] # 0 => holding[c] >= since[c]
    /\ \A k \in 1..Len(down[c]) : down[c][k].type = "output" => down[c][k].tag >= since[c]
    /\ relay.peer = c /\ Output =>
        /\ screen >= since[c]
        /\ \A k \in 1..Len(ptyOut) : ptyOut[k] >= since[c]
        /\ relay.output.type = "output" => relay.output.tag >= since[c]

\* The generations the engine reads, before and after the event under way is seen.
NamesController ==
    /\ display.attachment # 0 =>
        /\ display.attachment = relay.generation
        /\ view = "attached" \/ relay.phase = "attached"
    /\ relay.phase = "attached" => display.attachment = relay.generation
    /\ display.pending = IF relay.phase = "repaint" THEN relay.generation ELSE 0

DisplayInv ==
    /\ view # "none" => relay.peer = NoOne /\ event = "none"
    /\ engine.at # "ended" =>
        /\ event \in {"none", "error"} => NamesController
        /\ event = "commit" => relay.phase = "repaint"
        /\ event = "bound"  => relay.phase = "attached" /\ display.pending = 0
        /\ event = "detach" => relay.phase \in {"wait_reserve", "reserved"}

AttachmentInv ==
    /\ AttachTypeOK /\ PhaseInv /\ CallersInv /\ DisplayInv
    /\ \A c \in Terminals : Legible(c) /\ Dialogue(c) /\ Acks(c) /\ Fresh(c)
    /\ screen <= relay.generation
    /\ engine.at = "control" => engine.line \in Lines \ {"text", "none"}
    /\ misread = {}
-----------------------------------------------------------------------------
\* A terminal shows nothing that was written before it was activated, nor, after
\* a suspension, before it came back: what the private terminal held for someone
\* else is never replayed (session_relay.c, snag_session_relay_activate).
FreshScreen == \A c \in Terminals : holding[c] # 0 => holding[c] >= since[c]

\* No frame of one side meets the other in a phase that does not take it, in any
\* order of suspensions, acknowledgements, switches and replacements: a terminal
\* is never cut off for what it was right to send when it sent it.
FramesAreUnderstood == misread = {}

\* Between two steps of the relay, the generation the engine reads as attached
\* names the one terminal, or the view, that holds the session, and a repaint is
\* asked for exactly while a reservation waits for one.
AttachmentNamesItsController ==
    NoEvent /\ engine.at # "ended" =>
        /\ display.attachment # 0 =>
            /\ display.attachment = relay.generation
            /\ view = "attached" \/ relay.phase = "attached"
        /\ relay.phase = "attached" => display.attachment = relay.generation
        /\ display.pending = IF relay.phase = "repaint" THEN relay.generation ELSE 0
        /\ view # "none" => relay.peer = NoOne

\* Whatever a terminal does or fails to do, it does not hold the session: again
\* and again the owner waits for nothing of its terminal, no handshake, output to
\* be written or acknowledged, line on its way or composer held back.
Waiting ==
    \/ relay.handshake \/ relay.unacked \/ relay.output # NoFrame \/ relay.input # "none"
    \/ relay.peer # NoOne /\ display.barrier
AttachmentsSettle == []<>~Waiting
=============================================================================
