--------------------------- MODULE TerminalClient ---------------------------
(***************************************************************************)
(* The terminals (src/src/session_client.c): each a process of its own     *)
(* that owns the real terminal and speaks to one owner, and to a second    *)
(* one while it switches.  The other owner is known here only by whether   *)
(* it has accepted.                                                        *)
(***************************************************************************)
EXTENDS AttachState

Holding(c) == holding[c] # 0
Send(c, frame) == Len(up[c]) < MaxFrames /\ up' = [up EXCEPT ![c] = Append(@, frame)]
Enter(c, m) == mode' = [mode EXCEPT ![c] = m]
ownSide == <<relayVars, reject, view, ptyVars, ownerVars>>
rest    == <<ownSide, lines>>

\* The terminal closes its connection: it was killed, its own time ran out, or
\* it is done.  Nothing it had sent or been sent is read any more.
Close(c) ==
    /\ Enter(c, "away")
    /\ up' = [up EXCEPT ![c] = <<>>] /\ down' = [down EXCEPT ![c] = <<>>]
    /\ holding' = [holding EXCEPT ![c] = 0]

Leave(c) ==
    /\ mode[c] # "away" /\ Close(c)
    /\ UNCHANGED <<rest, backlog, ghostVars>>

\* snag_session_client_attach, or the move of an occupied session that the
\* operator confirmed: a connection with its RESERVE.
Attach(c) ==
    /\ display.listening /\ ~Connected(c)
    /\ \/ mode[c] = "away" /\ Enter(c, "reserving")
       \/ mode[c] = "refused" /\ Enter(c, "moving")
    /\ backlog' = backlog \cup {c}
    /\ UNCHANGED <<rest, holding, wireVars, ghostVars>>

\* target_read: READY for the reservation, then READY for the commit.
TargetRead(c) ==
    /\ mode[c] \in {"reserving", "moving", "committing"} /\ down[c] # <<>>
    /\ LET frame == Head(down[c])
           after == [down EXCEPT ![c] = Tail(@)]
       IN \/ /\ frame.type = "ready" /\ mode[c] # "committing"
             /\ Send(c, "commit") /\ Enter(c, "committing")
             /\ down' = after /\ UNCHANGED <<holding, misread>>
          \/ /\ frame.type = "ready" /\ mode[c] = "committing"
             /\ Enter(c, "ready") /\ down' = after /\ UNCHANGED <<up, holding, misread>>
          \/ /\ frame.type = "busy" /\ mode[c] = "reserving"
             /\ Enter(c, "refused") /\ down' = after /\ UNCHANGED <<up, holding, misread>>
          \/ /\ frame.type # "ready" /\ ~(frame.type = "busy" /\ mode[c] = "reserving")
             /\ Close(c)
             /\ misread' = IF frame.type \in {"busy", "detach", "exit"} THEN misread
                           ELSE misread \cup {c}
    /\ UNCHANGED <<rest, backlog, screen, since>>

\* commit_target, with nothing left to drain of the session it came from.
Bind(c) ==
    /\ mode[c] = "ready"
    /\ Send(c, "bound") /\ Enter(c, "bound")
    /\ UNCHANGED <<rest, backlog, down, holding, ghostVars>>

\* Input of the operator, with the one frame of that direction free.
Type(c, line) ==
    /\ mode[c] \in {"bound", "switching"} /\ Send(c, line)
    /\ lines > 0 /\ lines' = lines - 1
    /\ UNCHANGED <<ownSide, backlog, mode, down, holding, ghostVars>>

\* peer_read: output is held until it is shown, and a control waits behind it.
\* A second output before the first was acknowledged is not understood.
ReadOutput(c) ==
    /\ mode[c] \in {"bound", "switching"} /\ down[c] # <<>> /\ Head(down[c]).type = "output"
    /\ IF Holding(c)
       THEN Close(c) /\ misread' = misread \cup {c}
       ELSE /\ holding' = [holding EXCEPT ![c] = Head(down[c]).tag]
            /\ down' = [down EXCEPT ![c] = Tail(@)]
            /\ UNCHANGED <<mode, up, misread>>
    /\ UNCHANGED <<rest, backlog, screen, since>>

\* terminal_write and the acknowledgement that follows it.
Show(c) ==
    /\ Holding(c) /\ mode[c] \in {"bound", "switching"}
    /\ Send(c, "ack")
    /\ holding' = [holding EXCEPT ![c] = 0]
    /\ UNCHANGED <<rest, backlog, mode, down, ghostVars>>

\* The controls of the owner, in the order of the frames.  A suspension ends a
\* switch under way, and the diagnostic of it is lost with the peer it was for.
ReadControl(c) ==
    /\ mode[c] \in {"bound", "switching"} /\ ~Holding(c) /\ down[c] # <<>>
    /\ LET type  == Head(down[c]).type
           after == [down EXCEPT ![c] = Tail(@)]
       IN \/ type \in {"detach", "exit"} /\ Close(c) /\ UNCHANGED misread
          \/ /\ type = "switch" /\ Enter(c, "switching")
             /\ down' = after /\ UNCHANGED <<up, holding, misread>>
          \/ /\ type = "suspend" /\ Enter(c, "suspended")
             /\ down' = after /\ UNCHANGED <<up, holding, misread>>
          \/ /\ type \notin {"output", "detach", "exit", "switch", "suspend"}
             /\ Close(c) /\ misread' = misread \cup {c}
    /\ UNCHANGED <<rest, backlog, screen, since>>

\* snag_session_client_continue, when the shell brings the terminal back.
Continue(c) ==
    /\ mode[c] = "suspended"
    /\ Send(c, "commit") /\ Enter(c, "committing")
    /\ since' = [since EXCEPT ![c] = relay.generation]
    /\ UNCHANGED <<rest, backlog, down, holding, screen, misread>>

\* The other owner refused, and the source is told; or it accepted, and the
\* source is left once everything sent to it was written.
SwitchFails(c) ==
    /\ mode[c] = "switching" /\ Send(c, "error") /\ Enter(c, "bound")
    /\ UNCHANGED <<rest, backlog, down, holding, ghostVars>>

SwitchAccepted(c) ==
    /\ mode[c] = "switching" /\ ~Holding(c) /\ Enter(c, "draining")
    /\ UNCHANGED <<rest, backlog, holding, wireVars, ghostVars>>

\* The last frames of a source that was left are not shown.
Drain(c) ==
    /\ mode[c] = "draining" /\ down[c] # <<>>
    /\ down' = [down EXCEPT ![c] = Tail(@)]
    /\ UNCHANGED <<rest, backlog, mode, up, holding, ghostVars>>

\* The end of the connection is the last thing read from it.
ReadEnd(c) ==
    /\ mode[c] \notin {"away", "refused", "suspended"} /\ ~Connected(c) /\ down[c] = <<>>
    /\ Close(c)
    /\ UNCHANGED <<rest, backlog, ghostVars>>

TerminalStep(c) ==
    \/ Leave(c) \/ Attach(c) \/ TargetRead(c) \/ Bind(c) \/ ReadOutput(c) \/ Show(c)
    \/ ReadControl(c) \/ Continue(c) \/ SwitchFails(c) \/ SwitchAccepted(c)
    \/ Drain(c) \/ ReadEnd(c)
    \/ \E line \in Typed : Type(c, line)
=============================================================================
