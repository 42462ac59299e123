---------------------------- MODULE SessionOwner ----------------------------
(***************************************************************************)
(* The owner of a session around its relay: the presentation thread that   *)
(* drives the relay and applies the engine's requests between two steps of *)
(* it (src/src/ui.c), and the engine that prepares each attachment and     *)
(* carries out what its terminal asks (src/src/app.c).                     *)
(***************************************************************************)
EXTENDS SessionRelay

\* MUTANT of Service: a repaint that was asked for outlives its terminal.
ServiceKeepingPending ==
    /\ event # "none" /\ event' = "none"
    /\ display' = CASE event = "commit" -> [display EXCEPT !.attachment = 0,
                                                            !.pending = relay.generation]
                    [] event = "bound"  -> [display EXCEPT !.attachment = relay.generation]
                    [] event = "detach" -> [display EXCEPT !.attachment = 0]
                    [] event = "error"  -> display
    /\ UNCHANGED <<relay, callerVars, view, ptyVars, engine, terminalVars, wireVars, ghostVars>>

\* session_service: what an event of the step changes for the engine.
Service ==
    /\ event # "none" /\ event' = "none"
    /\ display' = CASE event = "commit" -> [display EXCEPT !.attachment = 0,
                                                            !.pending = relay.generation]
                    [] event = "bound"  -> [display EXCEPT !.attachment = relay.generation]
                    [] event = "detach" -> [display EXCEPT !.attachment = 0, !.pending = 0]
                    [] event = "error"  -> display
    /\ UNCHANGED <<relay, callerVars, view, ptyVars, engine, terminalVars, wireVars, ghostVars>>

\* Output of the presentation thread, or of a program that has the terminal.
Write ==
    /\ engine.at # "ended" /\ Len(ptyOut) < MaxPty
    /\ ptyOut' = Append(ptyOut, screen)
    /\ UNCHANGED <<relayVars, callerVars, view, ptyIn, ownerVars, terminalVars, wireVars, ghostVars>>

\* A workspace view takes the lease (snag_session_relay_view_reserve), binds it
\* (snag_session_relay_view_bind, view_bound) and gives it back (release_peer).
\* A server that stops gives no new lease and hears nothing more of its peers.
ViewReserve ==
    /\ NoEvent /\ display.listening /\ relay.peer = NoOne /\ view = "none"
    /\ relay.generation < MaxGeneration
    /\ view' = "reserved"
    /\ relay' = [relay EXCEPT !.generation = @ + 1]
    /\ UNCHANGED <<event, callerVars, ptyVars, ownerVars, terminalVars, wireVars, ghostVars>>

ViewBind ==
    /\ NoEvent /\ display.listening /\ view = "reserved" /\ view' = "attached"
    /\ display' = [display EXCEPT !.attachment = relay.generation, !.pending = 0, !.barrier = FALSE]
    /\ UNCHANGED <<relayVars, callerVars, ptyVars, engine, terminalVars, wireVars, ghostVars>>

Unleased == IF view = "attached"
            THEN [display EXCEPT !.attachment = 0, !.pending = 0, !.barrier = FALSE]
            ELSE display

ViewRelease ==
    /\ NoEvent /\ view # "none" /\ view' = "none" /\ display' = Unleased
    /\ UNCHANGED <<relayVars, callerVars, ptyVars, engine, terminalVars, wireVars, ghostVars>>
-----------------------------------------------------------------------------
At(where) == [engine EXCEPT !.at = where]

\* service_attachment: a repaint that is asked for.
TakePending ==
    /\ engine.at = "idle" /\ display.pending # 0
    /\ engine' = [Idle EXCEPT !.at = "rebind", !.generation = display.pending]
    /\ UNCHANGED <<relayVars, callerVars, view, ptyVars, display, terminalVars, wireVars, ghostVars>>

\* SESSION_REBIND: the composer is held back and the reservation activated,
\* unless another one has taken its place since it was read.  Behind a frame that
\* is not written yet the activation fails: the composer stays held back, and
\* the repaint asked for.
Rebind ==
    /\ engine.at = "rebind" /\ NoEvent
    /\ \/ /\ ~Activatable(engine.generation)
          /\ engine' = Idle /\ UNCHANGED <<relay, ptyOut, display, screen>>
       \/ /\ Activatable(engine.generation) /\ relay.output # NoFrame
          /\ engine' = Idle /\ display' = [display EXCEPT !.barrier = TRUE]
          /\ UNCHANGED <<relay, ptyOut, screen>>
       \/ /\ Activatable(engine.generation) /\ Activate
          /\ engine' = At("history")
          /\ display' = [display EXCEPT !.barrier = TRUE, !.pending = 0]
    /\ UNCHANGED <<event, callerVars, view, ptyIn, terminalVars, wireVars, since, misread>>

\* The bounded history is drawn, for a terminal that is not continuing.
History ==
    /\ engine.at = "history" /\ engine' = At("ready")
    /\ \/ UNCHANGED ptyOut
       \/ Len(ptyOut) < MaxPty /\ ptyOut' = Append(ptyOut, screen)
    /\ UNCHANGED <<relayVars, callerVars, view, ptyIn, display, terminalVars, wireVars, ghostVars>>

\* SESSION_READY gives the composer back to the terminal it was prepared for.
Ready ==
    /\ engine.at = "ready" /\ NoEvent /\ engine' = Idle
    /\ display' = IF Output /\ relay.generation = engine.generation
                  THEN [display EXCEPT !.barrier = FALSE] ELSE display
    /\ UNCHANGED <<relayVars, callerVars, view, ptyVars, terminalVars, wireVars, ghostVars>>

\* A line is read once the composer is free and no repaint is asked for.  To
\* leave, the engine first stops listening, for views and for terminals.
TakeLine ==
    /\ engine.at = "idle" /\ display.pending = 0 /\ ~display.barrier /\ NoEvent
    /\ ptyIn # <<>> /\ ptyIn' = Tail(ptyIn)
    /\ LET line == Head(ptyIn)
       IN IF line = "text" THEN UNCHANGED <<engine, display, backlog>>
          ELSE /\ engine' = [Idle EXCEPT !.at = "control", !.line = line]
               /\ IF line = "quit"
                  THEN backlog' = {} /\ display' = [display EXCEPT !.listening = FALSE]
                  ELSE UNCHANGED <<display, backlog>>
    /\ UNCHANGED <<relayVars, reject, view, ptyOut, terminalVars, wireVars, ghostVars>>

\* session_control_generation: the control is tried between steps of the relay
\* until it is queued, and then until it is written.  What the private terminal
\* still holds goes to the terminal before the control that ends it.  With no
\* terminal there is nothing to write, but whoever leaves waits for the views.
ControlType == IF engine.line = "quit" THEN "exit" ELSE engine.line
Finished == IF engine.line = "quit" THEN At("ended") ELSE Idle

Control ==
    /\ engine.at = "control" /\ NoEvent
    /\ \/ /\ ControlRefused(ControlType)
          /\ engine' = IF ControlType = "exit" /\ relay.peer = NoOne THEN At("flush")
                       ELSE Finished
          /\ UNCHANGED <<relay, ptyOut, display>>
       \/ /\ ~ControlRefused(ControlType) /\ ~ControlWaits(ControlType)
          /\ IF Drains(ControlType) /\ Output /\ ptyOut # <<>>
             THEN relay' = Presented /\ ptyOut' = Tail(ptyOut) /\ UNCHANGED <<engine, display>>
             ELSE /\ ControlType = "suspend" => relay.generation < MaxGeneration
                  /\ relay' = ControlQueued(ControlType)
                  /\ engine' = At("flush")
                  /\ display' = IF ControlType = "suspend"
                                THEN [display EXCEPT !.attachment = 0] ELSE display
                  /\ UNCHANGED ptyOut
    /\ UNCHANGED <<event, callerVars, view, ptyIn, terminalVars, wireVars, ghostVars>>

Flushed ==
    /\ engine.at = "flush" /\ NoEvent /\ relay.output = NoFrame
    /\ ControlType = "exit" => view = "none"
    /\ engine' = Finished
    /\ UNCHANGED <<relayVars, callerVars, view, ptyVars, display, terminalVars, wireVars, ghostVars>>

\* Five seconds are all a control gets.
GiveUp ==
    /\ engine.at \in {"control", "flush"} /\ NoEvent
    /\ engine' = Finished
    /\ UNCHANGED <<relayVars, callerVars, view, ptyVars, display, terminalVars, wireVars, ghostVars>>

\* snag_view_server_close and snag_session_relay_close, at the end of the
\* presentation thread.
RelayClose ==
    /\ engine.at = "ended" /\ (relay.peer # NoOne \/ reject.who # NoOne \/ view # "none")
    /\ view' = "none" /\ display' = Unleased
    /\ relay' = Vacant(relay.generation) /\ event' = "none" /\ reject' = NoCandidate
    /\ up' = [t \in Terminals |-> <<>>]
    /\ UNCHANGED <<backlog, ptyVars, engine, terminalVars, down, ghostVars>>

EngineStep ==
    \/ TakePending \/ Rebind \/ History \/ Ready \/ TakeLine \/ Control \/ Flushed \/ GiveUp
    \/ RelayClose
OwnerStep == Service \/ Write \/ ViewReserve \/ ViewBind \/ ViewRelease \/ EngineStep
=============================================================================
