----------------------------- MODULE AttachState -----------------------------
(***************************************************************************)
(* What the owner of a session, its relay and the terminals that come and  *)
(* go keep between two steps (src/src/session_relay.h, struct              *)
(* snag_session_relay; src/src/ui.c, struct snag_ui_runtime and            *)
(* snag_ui_display; src/src/session_client.h), and the sockets and the     *)
(* private terminal between them.                                          *)
(*                                                                         *)
(* A frame to a terminal is its type and, for output, the generation the   *)
(* terminal had been activated with when the output was written.  A frame  *)
(* from a terminal is its type; an INPUT frame is the line it carries.     *)
(* Frames are whole: partial reads, writes and acknowledgements are not    *)
(* distinguished, and no terminal hands over a voice call.                 *)
(***************************************************************************)
EXTENDS Naturals, Sequences

CONSTANTS
    Terminals,      \* terminals that attach to this owner
    NoOne,
    Typed,          \* what terminals type in this instance
    MaxLines,       \* bound: lines typed
    MaxGeneration,  \* bound: reservations, of terminals, views and suspensions
    MaxFrames,      \* capacity of a socket, in frames
    MaxPty          \* capacity of the private terminal, in writes and in lines

\* What a terminal types: text for the composer, or a command for its owner.
Lines == {"text", "detach", "switch", "suspend", "quit"}

ASSUME AttachAssumption ==
    /\ NoOne \notin Terminals /\ Terminals # {}
    /\ Typed \subseteq Lines /\ MaxLines \in Nat
    /\ MaxGeneration \in Nat \ {0} /\ MaxFrames \in Nat \ {0} /\ MaxPty \in Nat \ {0}

VARIABLES
    relay, event,     \* struct snag_session_relay, and the event of the step under way
    backlog, reject,  \* connections not accepted yet, and the candidate
    view,             \* the lease of a workspace view
    ptyOut, ptyIn,    \* the private terminal: output written, lines to read
    display, engine,  \* the presentation thread and the engine
    mode, up, down,   \* terminals, and the two directions of their sockets
    lines,            \* bound left: lines to type
    holding,          \* the output a terminal has received and not shown yet
    screen, since,    \* ghosts: last activation; the reservation a terminal is under
    misread           \* ghost: terminals cut off for a frame that was not understood

relayVars    == <<relay, event>>
callerVars   == <<backlog, reject>>
ptyVars      == <<ptyOut, ptyIn>>
ownerVars    == <<display, engine>>
terminalVars == <<mode, lines, holding>>
wireVars     == <<up, down>>
ghostVars    == <<screen, since, misread>>
vars == <<relayVars, callerVars, view, ptyVars, ownerVars, terminalVars, wireVars, ghostVars>>
-----------------------------------------------------------------------------
FromTerminal == Lines \cup {"commit", "bound", "ack", "error"}
Controls     == {"ready", "busy", "detach", "exit", "switch", "suspend"}
ToTerminal   == [type : Controls \cup {"none"}, tag : {0}]
                \cup [type : {"output"}, tag : 1..MaxGeneration]
Frame(t) == [type |-> t, tag |-> 0]
NoFrame  == Frame("none")

\* enum snag_session_phase, without the phase of a voice handover.
Phases == {"wait_reserve", "reserved", "repaint", "accepted", "attached"}

\* handshake stands for handshake_deadline # 0, unacked for output_length # 0,
\* input for the frame of input_pending.
Relays == [peer : Terminals \cup {NoOne}, phase : Phases, generation : 1..MaxGeneration,
           handshake : BOOLEAN, output : ToTerminal, unacked : BOOLEAN,
           input : Lines \cup {"none"}, closing : BOOLEAN]
Vacant(generation) ==
    [peer |-> NoOne, phase |-> "wait_reserve", generation |-> generation,
     handshake |-> FALSE, output |-> NoFrame, unacked |-> FALSE,
     input |-> "none", closing |-> FALSE]

Candidates  == [who : Terminals \cup {NoOne}, busy : BOOLEAN]
NoCandidate == [who |-> NoOne, busy |-> FALSE]

\* session_pending, session_attachment and native_barrier; listening is the listener.
Displays == [pending : 0..MaxGeneration, attachment : 0..MaxGeneration,
             barrier : BOOLEAN, listening : BOOLEAN]

\* Where the engine is with an attachment, or with a command of its terminal.
Engines == [at : {"idle", "rebind", "history", "ready", "control", "flush", "ended"},
            generation : 0..MaxGeneration, line : Lines \cup {"none"}]
Idle == [at |-> "idle", generation |-> 0, line |-> "none"]

Modes == {"away", "reserving", "refused", "moving", "committing", "ready",
          "bound", "switching", "suspended", "draining"}

Connected(c) == relay.peer = c \/ reject.who = c \/ c \in backlog

RelayTypes == relay \in Relays /\ event \in {"none", "commit", "bound", "error", "detach"}
CallerTypes ==
    /\ backlog \subseteq Terminals
    /\ reject \in Candidates
    /\ view \in {"none", "reserved", "attached"}
PtyTypes      == ptyOut \in Seq(1..MaxGeneration) /\ ptyIn \in Seq(Lines)
OwnerTypes    == display \in Displays /\ engine \in Engines
TerminalTypes ==
    /\ mode \in [Terminals -> Modes] /\ lines \in 0..MaxLines
    /\ holding \in [Terminals -> 0..MaxGeneration]
WireTypes ==
    /\ up \in [Terminals -> Seq(FromTerminal)] /\ down \in [Terminals -> Seq(ToTerminal)]
GhostTypes ==
    /\ screen \in 1..MaxGeneration /\ since \in [Terminals -> 0..MaxGeneration]
    /\ misread \subseteq Terminals

AttachTypeOK ==
    /\ RelayTypes /\ CallerTypes /\ PtyTypes /\ OwnerTypes
    /\ TerminalTypes /\ WireTypes /\ GhostTypes

\* The owner is forked by its first terminal, which is attached from the start
\* (snag_session_relay_init with an initial peer, apply_session on SESSION_START).
AttachInit ==
    LET c == CHOOSE t \in Terminals : TRUE
    IN  /\ relay = [Vacant(1) EXCEPT !.peer = c, !.phase = "attached"]
        /\ mode = [t \in Terminals |-> IF t = c THEN "bound" ELSE "away"]
        /\ since = [t \in Terminals |-> IF t = c THEN 1 ELSE 0]
        /\ event = "none" /\ backlog = {} /\ reject = NoCandidate /\ view = "none"
        /\ ptyOut = <<>> /\ ptyIn = <<>>
        /\ display = [pending |-> 0, attachment |-> 1, barrier |-> FALSE, listening |-> TRUE]
        /\ engine = Idle
        /\ up = [t \in Terminals |-> <<>>] /\ down = [t \in Terminals |-> <<>>]
        /\ lines = MaxLines /\ holding = [t \in Terminals |-> 0]
        /\ screen = 1 /\ misread = {}
=============================================================================
