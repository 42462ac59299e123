---------------------------- MODULE SessionRelay ----------------------------
(***************************************************************************)
(* The relay between the owner's private terminal and the one terminal     *)
(* that is attached (src/src/session_relay.c).                             *)
(*                                                                         *)
(* snag_session_relay_step is one poll.  Its stages are actions here.  An  *)
(* event ends what may follow in the same step to the stages behind the    *)
(* peer's: the private terminal, the candidate and the listener.           *)
(***************************************************************************)
EXTENDS AttachState

\* MUTANT of Suspended: the frames under way at a suspension are not told apart.
SuspendedForgotten == FALSE

\* A suspended peer is known by its reservation without a handshake.
Suspended == relay.phase = "reserved" /\ ~relay.handshake
Output    == relay.peer # NoOne /\ relay.phase \in {"attached", "accepted"}
NoEvent   == event = "none"

\* peer_drop, with the event its callers report; what the peer had sent is lost.
PeerDrop ==
    /\ relay' = Vacant(relay.generation)
    /\ event' = "detach"
    /\ up' = [up EXCEPT ![relay.peer] = <<>>]

\* peer_write: a whole frame goes into the socket.  A closing peer is dropped
\* behind it, and a peer whose terminal is gone at once.
PeerWrite ==
    /\ NoEvent /\ relay.peer # NoOne /\ relay.output # NoFrame
    /\ LET c == relay.peer
       IN \/ /\ mode[c] # "away" /\ Len(down[c]) < MaxFrames
             /\ down' = [down EXCEPT ![c] = Append(@, relay.output)]
             /\ IF relay.closing THEN PeerDrop
                ELSE /\ relay' = [relay EXCEPT !.output = NoFrame]
                     /\ UNCHANGED <<event, up>>
          \/ mode[c] = "away" /\ PeerDrop /\ UNCHANGED down
    /\ UNCHANGED <<callerVars, view, ptyVars, ownerVars, terminalVars, ghostVars>>

\* The peer hung up, or it closed its sending side and everything was read.
PeerHangup ==
    /\ NoEvent /\ relay.peer # NoOne
    /\ \/ mode[relay.peer] = "away"
       \/ /\ mode[relay.peer] = "draining" /\ up[relay.peer] = <<>>
          /\ relay.input = "none" /\ ~relay.closing
    /\ PeerDrop
    /\ UNCHANGED <<callerVars, view, ptyVars, ownerVars, terminalVars, down, ghostVars>>

\* peer_message: the frames each phase takes, and what they change.
Understood(frame) ==
    \/ frame \in Lines \cup {"error"} /\ (relay.phase = "attached" \/ Suspended)
    \/ frame = "commit" /\ relay.phase = "reserved" /\ relay.output = NoFrame /\ ~relay.unacked
    \/ frame = "bound" /\ relay.phase = "accepted"
    \/ frame = "ack" /\ relay.unacked
       /\ (relay.phase \in {"attached", "accepted"} \/ Suspended)

\* MUTANT of Received: what a terminal reports of itself is kept as a line.
ReceivedAsInput(frame) ==
    CASE frame = "commit" -> [relay EXCEPT !.phase = "repaint", !.handshake = TRUE]
      [] frame = "bound"  -> [relay EXCEPT !.phase = "attached", !.handshake = FALSE]
      [] frame = "ack"    -> [relay EXCEPT !.unacked = FALSE]
      [] frame \in Lines \cup {"error"} -> [relay EXCEPT !.input = frame]

Received(frame) ==
    CASE frame = "commit" -> [relay EXCEPT !.phase = "repaint", !.handshake = TRUE]
      [] frame = "bound"  -> [relay EXCEPT !.phase = "attached", !.handshake = FALSE]
      [] frame = "ack"    -> [relay EXCEPT !.unacked = FALSE]
      [] frame \in Lines  -> [relay EXCEPT !.input = frame]
      [] frame = "error"  -> relay

\* A frame that was sent before the acceptance it should answer is refused with
\* its peer, as is one that the phase does not take.
PeerRead ==
    /\ NoEvent /\ relay.peer # NoOne /\ relay.input = "none" /\ ~relay.closing
    /\ up[relay.peer] # <<>>
    /\ LET frame == Head(up[relay.peer])
           early == relay.phase = "accepted" /\ relay.output.type = "ready"
       IN IF early \/ ~Understood(frame)
          THEN PeerDrop /\ misread' = misread \cup {relay.peer}
          ELSE /\ relay' = Received(frame)
               /\ event' = IF frame \in {"commit", "bound", "error"} THEN frame ELSE "none"
               /\ up' = [up EXCEPT ![relay.peer] = Tail(@)]
               /\ UNCHANGED misread
    /\ UNCHANGED <<callerVars, view, ptyVars, ownerVars, terminalVars, down, screen, since>>

\* master_write, with room in the private terminal.
MasterWrite ==
    /\ relay.input # "none" /\ Len(ptyIn) < MaxPty
    /\ ptyIn' = Append(ptyIn, relay.input)
    /\ relay' = [relay EXCEPT !.input = "none"]
    /\ UNCHANGED <<event, callerVars, view, ptyOut, ownerVars, terminalVars, wireVars, ghostVars>>

\* master_read: one frame for the terminal, or nothing kept of it when none is attached.
Presented == [relay EXCEPT !.output = [type |-> "output", tag |-> Head(ptyOut)], !.unacked = TRUE]

MasterRead ==
    /\ ptyOut # <<>>
    /\ \/ ~Output /\ UNCHANGED relay
       \/ Output /\ relay.output = NoFrame /\ ~relay.unacked /\ relay' = Presented
    /\ ptyOut' = Tail(ptyOut)
    /\ UNCHANGED <<event, callerVars, view, ptyIn, ownerVars, terminalVars, wireVars, ghostVars>>

\* MUTANT of Overdue: a handshake has no deadline.
OverdueWithoutHandshake == relay.output # NoFrame \/ relay.unacked \/ relay.input # "none"

\* expire: the handshake, a frame that is not written, a frame that is not
\* acknowledged and a line that the private terminal does not take.
Overdue ==
    \/ relay.handshake
    \/ relay.output # NoFrame
    \/ relay.unacked
    \/ relay.input # "none"

Expire ==
    /\ NoEvent /\ relay.peer # NoOne /\ Overdue
    /\ PeerDrop
    /\ UNCHANGED <<callerVars, view, ptyVars, ownerVars, terminalVars, down, ghostVars>>

RejectExpire ==
    /\ reject # NoCandidate
    /\ reject' = NoCandidate
    /\ up' = [up EXCEPT ![reject.who] = <<>>]
    /\ UNCHANGED <<relayVars, backlog, view, ptyVars, ownerVars, terminalVars, down, ghostVars>>

\* accept_peer, while there is a listener.
Accept ==
    /\ reject = NoCandidate /\ display.listening
    /\ \E c \in backlog : reject' = [who |-> c, busy |-> FALSE] /\ backlog' = backlog \ {c}
    /\ UNCHANGED <<relayVars, view, ptyVars, ownerVars, terminalVars, wireVars, ghostVars>>

\* candidate_message: a reservation.  A terminal that moves the session takes
\* the place of another one, but not of a view, nor of a line still on its way.
MayReplace ==
    /\ mode[reject.who] = "moving" /\ relay.peer # NoOne
    /\ view = "none" /\ relay.input = "none" /\ NoEvent

MayReserve == view = "none" /\ (relay.peer = NoOne \/ MayReplace)

Candidate ==
    /\ reject.who # NoOne /\ ~reject.busy /\ mode[reject.who] # "away"
    /\ IF MayReserve
       THEN /\ relay.generation < MaxGeneration
            /\ LET next == relay.generation + 1
               IN /\ relay' = [Vacant(next) EXCEPT !.peer = reject.who, !.phase = "reserved",
                                                   !.handshake = TRUE, !.output = Frame("ready")]
                  /\ since' = [since EXCEPT ![reject.who] = next]
            /\ event' = IF relay.peer # NoOne THEN "detach" ELSE event
            /\ up' = [t \in Terminals |-> IF t = relay.peer THEN <<>> ELSE up[t]]
            /\ reject' = NoCandidate
       ELSE /\ reject' = [reject EXCEPT !.busy = TRUE]
            /\ UNCHANGED <<relay, since, event, up>>
    /\ UNCHANGED <<backlog, view, ptyVars, ownerVars, terminalVars, down, screen, misread>>

\* The answer to a refused candidate, or the candidate is gone.
CandidateReply ==
    /\ reject.who # NoOne
    /\ \/ /\ reject.busy /\ mode[reject.who] # "away"
          /\ down' = [down EXCEPT ![reject.who] = Append(@, Frame("busy"))]
       \/ mode[reject.who] = "away" /\ UNCHANGED down
    /\ reject' = NoCandidate
    /\ UNCHANGED <<relayVars, backlog, view, ptyVars, ownerVars, terminalVars, up, ghostVars>>

RelayStep ==
    \/ PeerWrite \/ PeerHangup \/ PeerRead \/ MasterWrite \/ MasterRead
    \/ Expire \/ RejectExpire \/ Accept \/ Candidate \/ CandidateReply
-----------------------------------------------------------------------------
\* snag_session_relay_activate: of this reservation only, and of nothing that
\* was written before it.
Activatable(generation) ==
    relay.peer # NoOne /\ relay.phase = "repaint" /\ relay.generation = generation

\* MUTANT of Activate: what the private terminal holds is kept.
ActivateUnflushed ==
    /\ relay.output = NoFrame
    /\ UNCHANGED ptyOut
    /\ relay' = [relay EXCEPT !.output = Frame("ready"), !.handshake = TRUE, !.phase = "accepted"]
    /\ screen' = relay.generation

\* What activation changes, once Activatable holds.
Activate ==
    /\ relay.output = NoFrame
    /\ ptyOut' = <<>>
    /\ relay' = [relay EXCEPT !.output = Frame("ready"), !.handshake = TRUE, !.phase = "accepted"]
    /\ screen' = relay.generation

\* snag_session_relay_control: its errors, the frames that must come first, and
\* what the queued frame changes.
ControlRefused(type) ==
    \/ relay.peer = NoOne
    \/ type \in {"switch", "suspend"} /\ relay.phase # "attached"
    \/ relay.closing

Drains(type) == type \in {"detach", "exit"}
ControlWaits(type) == relay.output # NoFrame \/ (Drains(type) /\ relay.unacked)
ControlQueued(type) ==
    LET sent == [relay EXCEPT !.output = Frame(type), !.closing = Drains(type)]
    IN IF type = "suspend"
       THEN [sent EXCEPT !.phase = "reserved", !.generation = @ + 1]
       ELSE sent
=============================================================================
