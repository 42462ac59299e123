--------------------------- MODULE AttachmentProofs ---------------------------
(***************************************************************************)
(* Proofs that no terminal is cut off for a frame it was right to send, that*)
(* none is shown what was written before its activation, and that the engine*)
(* knows who holds the session, for every set of terminals and every bound.*)
(* What the relay and its peer have said to each other and not heard yet is*)
(* one relation, Talk, of the peer's mode, the two directions of the socket*)
(* and the relay; every action keeps it.                                   *)
(***************************************************************************)
EXTENDS Attachment, SequenceTheorems, TLAPS

USE AttachAssumption

(***************************************************************************)
(* What the constructors build and the fields hold.                        *)
(***************************************************************************)
\* The frames to a terminal, and what their type says of their tag.
LEMMA FramesAre ==
    /\ NoFrame \in ToTerminal
    /\ \A type \in Controls : Frame(type) \in ToTerminal
    /\ \A tag \in 1..MaxGeneration : [type |-> "output", tag |-> tag] \in ToTerminal
    /\ \A frame \in ToTerminal :
          /\ frame.type \in Controls \cup {"none", "output"}
          /\ frame.tag \in IF frame.type = "output" THEN 1..MaxGeneration ELSE {0}
<1>1. NoFrame \in ToTerminal /\ \A type \in Controls : Frame(type) \in ToTerminal
  BY DEF NoFrame, Frame, ToTerminal
<1>2. \A tag \in 1..MaxGeneration : [type |-> "output", tag |-> tag] \in ToTerminal
  BY DEF ToTerminal
<1>3. ASSUME NEW frame \in ToTerminal
      PROVE  /\ frame.type \in Controls \cup {"none", "output"}
             /\ frame.tag \in IF frame.type = "output" THEN 1..MaxGeneration ELSE {0}
  BY DEF ToTerminal, Controls
<1>4. QED BY <1>1, <1>2, <1>3

\* The fields of the relay.
LEMMA RelayIs == RelayTypes =>
    /\ relay.peer \in Terminals \cup {NoOne} /\ relay.phase \in Phases
    /\ relay.generation \in 1..MaxGeneration /\ relay.handshake \in BOOLEAN
    /\ relay.output \in ToTerminal /\ relay.unacked \in BOOLEAN
    /\ relay.input \in Lines \cup {"none"} /\ relay.closing \in BOOLEAN
BY DEF RelayTypes, Relays

\* A relay without a peer is a relay.
LEMMA VacantIs == \A g \in 1..MaxGeneration : Vacant(g) \in Relays
BY FramesAre DEF Vacant, Relays, Phases

\* So is one that was just reserved.
LEMMA ReservationIs ==
    ASSUME NEW w \in Terminals, NEW g \in 1..MaxGeneration
    PROVE  [Vacant(g) EXCEPT !.peer = w, !.phase = "reserved", !.handshake = TRUE,
                             !.output = Frame("ready")] \in Relays
BY FramesAre DEF Relays, Phases, Vacant, Controls

\* The candidates, the absent one and one that was answered among them.
LEMMA CandidatesAre ==
    /\ NoCandidate \in Candidates
    /\ reject \in Candidates => /\ reject.who \in Terminals \cup {NoOne} /\ reject.busy \in BOOLEAN
                                /\ [reject EXCEPT !.busy = TRUE] \in Candidates
    /\ \A w \in Terminals : [who |-> w, busy |-> FALSE] \in Candidates
BY DEF NoCandidate, Candidates

\* What a terminal may send.
LEMMA LinesAre ==
    Lines \subseteq FromTerminal /\ {"commit", "bound", "ack", "error"} \subseteq FromTerminal
BY DEF FromTerminal

\* Nothing on its way is a sequence of everything.
LEMMA NoneIs ==
    <<>> \in Seq(FromTerminal) /\ <<>> \in Seq(ToTerminal) /\ <<>> \in Seq(1..MaxGeneration)
BY EmptySeq

\* Taking from a socket and writing to it leaves frames in it.
LEMMA WiresAre == WireTypes => \A c \in Terminals :
    /\ up[c] \in Seq(FromTerminal) /\ down[c] \in Seq(ToTerminal)
    /\ up[c] # <<>> => Head(up[c]) \in FromTerminal /\ Tail(up[c]) \in Seq(FromTerminal)
    /\ down[c] # <<>> => Head(down[c]) \in ToTerminal /\ Tail(down[c]) \in Seq(ToTerminal)
    /\ \A f \in FromTerminal : Append(up[c], f) \in Seq(FromTerminal)
    /\ \A f \in ToTerminal : Append(down[c], f) \in Seq(ToTerminal)
BY HeadTailProperties, AppendProperties DEF WireTypes

\* The same of the private terminal.
LEMMA PtysAre == PtyTypes =>
    /\ ptyOut # <<>> => Head(ptyOut) \in 1..MaxGeneration /\ Tail(ptyOut) \in Seq(1..MaxGeneration)
    /\ ptyIn # <<>> => Head(ptyIn) \in Lines /\ Tail(ptyIn) \in Seq(Lines)
    /\ \A x \in 1..MaxGeneration : Append(ptyOut, x) \in Seq(1..MaxGeneration)
    /\ \A x \in Lines : Append(ptyIn, x) \in Seq(Lines)
BY HeadTailProperties, AppendProperties DEF PtyTypes

\* One terminal's direction of its socket is changed.
LEMMA UpIs ==
    ASSUME WireTypes, NEW c \in Terminals, NEW s \in Seq(FromTerminal), up' = [up EXCEPT ![c] = s]
    PROVE  /\ up' \in [Terminals -> Seq(FromTerminal)] /\ up'[c] = s
           /\ \A t \in Terminals : t # c => up'[t] = up[t]
BY DEF WireTypes

\* The same of the other direction.
LEMMA DownIs ==
    ASSUME WireTypes, NEW c \in Terminals, NEW s \in Seq(ToTerminal), down' = [down EXCEPT ![c] = s]
    PROVE  /\ down' \in [Terminals -> Seq(ToTerminal)] /\ down'[c] = s
           /\ \A t \in Terminals : t # c => down'[t] = down[t]
BY DEF WireTypes

\* What one actor leaves alone.
LEMMA RelayFrame ==
    RelayStep => UNCHANGED <<view, display, engine, mode, lines, holding, screen>>
BY DEF RelayStep, PeerWrite, PeerHangup, PeerRead, MasterWrite, MasterRead, Expire,
       RejectExpire, Accept, Candidate, CandidateReply, ownerVars, terminalVars, ghostVars, ptyVars

\* The owner leaves the terminals alone, and closing apart also what they sent.
LEMMA OwnerFrame ==
    OwnerStep => /\ UNCHANGED <<mode, lines, holding, down, since, misread>>
                 /\ ~RelayClose => UNCHANGED <<up, reject>>
BY DEF OwnerStep, EngineStep, Service, Write, ViewReserve, ViewBind, ViewRelease, TakePending,
       Rebind, History, Ready, TakeLine, Control, Flushed, GiveUp, RelayClose, terminalVars,
       ghostVars, wireVars, callerVars

\* A terminal leaves the relay and the owner alone.
LEMMA TerminalFrame ==
    ASSUME NEW c \in Terminals, TerminalStep(c)
    PROVE  UNCHANGED <<relay, event, reject, view, ptyOut, ptyIn, display, engine, screen>>
BY DEF TerminalStep, Leave, Attach, TargetRead, Bind, Type, ReadOutput, Show, ReadControl,
       Continue, SwitchFails, SwitchAccepted, Drain, ReadEnd, rest, ownSide, relayVars, ptyVars,
       ownerVars, ghostVars

\* A terminal changes nothing of another one's.
LEMMA TerminalAlone ==
    ASSUME TerminalTypes, WireTypes, GhostTypes, NEW c \in Terminals, TerminalStep(c)
    PROVE  \A t \in Terminals \ {c} :
              /\ mode'[t] = mode[t] /\ holding'[t] = holding[t] /\ since'[t] = since[t]
              /\ up'[t] = up[t] /\ down'[t] = down[t]
<1> SUFFICES ASSUME NEW t \in Terminals \ {c}
             PROVE  /\ mode'[t] = mode[t] /\ holding'[t] = holding[t] /\ since'[t] = since[t]
                    /\ up'[t] = up[t] /\ down'[t] = down[t]
  OBVIOUS
<1> USE DEF TerminalTypes, WireTypes, GhostTypes, Close, Enter, Send, rest, ownSide, wireVars, ghostVars
<1>1. CASE Leave(c) \/ ReadEnd(c)
  BY <1>1 DEF Leave, ReadEnd
<1>2. CASE Attach(c)
  BY <1>2 DEF Attach
<1>3. CASE TargetRead(c)
  BY <1>3 DEF TargetRead
<1>4. CASE Bind(c) \/ SwitchFails(c) \/ Continue(c)
  BY <1>4 DEF Bind, SwitchFails, Continue
<1>5. CASE Show(c) \/ \E line \in Typed : Type(c, line)
  BY <1>5 DEF Show, Type
<1>6. CASE ReadOutput(c)
  BY <1>6 DEF ReadOutput
<1>7. CASE ReadControl(c)
  BY <1>7 DEF ReadControl
<1>8. CASE SwitchAccepted(c) \/ Drain(c)
  BY <1>8 DEF SwitchAccepted, Drain
<1>9. QED BY <1>1, <1>2, <1>3, <1>4, <1>5, <1>6, <1>7, <1>8 DEF TerminalStep

(***************************************************************************)
(* Types.                                                                  *)
(***************************************************************************)
\* Dropping the peer keeps the types.
LEMMA PeerDropTypes ==
    ASSUME AttachTypeOK, PeerDrop, relay.peer \in Terminals
    PROVE  RelayTypes' /\ up' \in [Terminals -> Seq(FromTerminal)]
<1>1. relay' \in Relays /\ event' = "detach"
  BY RelayIs, VacantIs DEF AttachTypeOK, PeerDrop
<1>2. up' = [up EXCEPT ![relay.peer] = <<>>]
  BY DEF PeerDrop
<1>3. up' \in [Terminals -> Seq(FromTerminal)]
  BY <1>2, UpIs, NoneIs DEF AttachTypeOK
<1>4. QED BY <1>1, <1>3 DEF RelayTypes

\* Output of the private terminal is presented as a frame.
LEMMA PresentedIs ==
    ASSUME RelayTypes, PtyTypes, ptyOut # <<>>
    PROVE  Presented \in Relays /\ Tail(ptyOut) \in Seq(1..MaxGeneration)
<1>1. Head(ptyOut) \in 0..MaxGeneration
  BY PtysAre
<1>2. QED BY <1>1, RelayIs, PtysAre, FramesAre DEF RelayTypes, Relays, Presented

\* The steps of the relay keep the types.
LEMMA RelayStepTypes ==
    ASSUME AttachTypeOK, RelayStep
    PROVE  RelayTypes' /\ CallerTypes' /\ PtyTypes' /\ WireTypes' /\ GhostTypes'
<1> USE DEF AttachTypeOK
<1>1. CASE PeerWrite
  <2>1. relay.peer \in Terminals /\ relay.output \in ToTerminal
    BY <1>1, RelayIs DEF PeerWrite
  <2>2. RelayTypes' /\ up' \in [Terminals -> Seq(FromTerminal)]
    <3>1. CASE PeerDrop
      BY <2>1, <3>1, PeerDropTypes
    <3>2. CASE ~PeerDrop
      <4>1. relay' = [relay EXCEPT !.output = NoFrame] /\ UNCHANGED <<event, up>>
        BY <1>1, <3>2 DEF PeerWrite
      <4>2. relay' \in Relays
        BY <4>1, RelayIs, FramesAre DEF RelayTypes, Relays
      <4>3. QED BY <4>1, <4>2 DEF RelayTypes, WireTypes
    <3>3. QED BY <3>1, <3>2
  <2>3. down' = down \/ down' = [down EXCEPT ![relay.peer] = Append(down[relay.peer], relay.output)]
    BY <1>1 DEF PeerWrite
  <2>4. down' \in [Terminals -> Seq(ToTerminal)]
    BY <2>1, <2>3, DownIs, WiresAre DEF WireTypes
  <2>5. QED BY <1>1, <2>2, <2>4 DEF WireTypes, PeerWrite, callerVars, ptyVars, ghostVars,
               CallerTypes, PtyTypes, GhostTypes
<1>2. CASE PeerHangup \/ Expire
  <2>1. PeerDrop /\ relay.peer \in Terminals
        /\ UNCHANGED <<callerVars, view, ptyVars, down, ghostVars>>
    BY <1>2, RelayIs DEF PeerHangup, Expire
  <2>2. QED BY <2>1, PeerDropTypes DEF callerVars, ptyVars, ghostVars, CallerTypes, PtyTypes,
               WireTypes, GhostTypes
<1>3. CASE PeerRead
  <2>1. /\ relay.peer \in Terminals /\ Head(up[relay.peer]) \in FromTerminal
        /\ Tail(up[relay.peer]) \in Seq(FromTerminal)
    BY <1>3, RelayIs, WiresAre DEF PeerRead
  <2>2. RelayTypes' /\ up' \in [Terminals -> Seq(FromTerminal)]
    <3>1. CASE PeerDrop
      BY <2>1, <3>1, PeerDropTypes
    <3>2. CASE ~PeerDrop
      <4>1. /\ relay' = Received(Head(up[relay.peer]))
            /\ event' \in {"commit", "bound", "error", "none"}
            /\ up' = [up EXCEPT ![relay.peer] = Tail(up[relay.peer])]
        BY <1>3, <3>2 DEF PeerRead
      <4>2. relay' \in Relays
        BY <2>1, <4>1, RelayIs DEF RelayTypes, Relays, Received, Phases, FromTerminal
      <4>3. up' \in [Terminals -> Seq(FromTerminal)]
        BY <2>1, <4>1, UpIs
      <4>4. QED BY <4>1, <4>2, <4>3 DEF RelayTypes
    <3>3. QED BY <3>1, <3>2
  <2>3. GhostTypes'
    BY <1>3, <2>1 DEF PeerRead, GhostTypes
  <2>4. QED BY <1>3, <2>2, <2>3 DEF PeerRead, callerVars, ptyVars, CallerTypes, PtyTypes, WireTypes
<1>4. CASE MasterWrite
  <2>1. relay.input \in Lines
    BY <1>4, RelayIs DEF MasterWrite
  <2>2. relay' \in Relays
    BY <1>4 DEF MasterWrite, RelayTypes, Relays
  <2>3. ptyIn' \in Seq(Lines)
    BY <1>4, <2>1, PtysAre DEF MasterWrite
  <2>4. QED BY <1>4, <2>2, <2>3 DEF MasterWrite, callerVars, wireVars, ghostVars, RelayTypes,
               CallerTypes, PtyTypes, WireTypes, GhostTypes
<1>5. CASE MasterRead
  <2>1. relay' = relay \/ relay' = Presented
    BY <1>5 DEF MasterRead
  <2>2. relay' \in Relays /\ ptyOut' \in Seq(1..MaxGeneration)
    BY <1>5, <2>1, PresentedIs DEF MasterRead, RelayTypes
  <2>3. QED BY <1>5, <2>2 DEF MasterRead, callerVars, wireVars, ghostVars, RelayTypes,
               CallerTypes, PtyTypes, WireTypes, GhostTypes
<1>6. CASE RejectExpire \/ CandidateReply
  <2>1. reject' \in Candidates
    BY <1>6, CandidatesAre DEF RejectExpire, CandidateReply
  <2>2. up' \in [Terminals -> Seq(FromTerminal)]
    BY <1>6, NoneIs DEF RejectExpire, CandidateReply, WireTypes
  <2>3. down' \in [Terminals -> Seq(ToTerminal)]
    <3>1. \/ down' = down
          \/ /\ reject.who \in Terminals
             /\ down' = [down EXCEPT ![reject.who] = Append(down[reject.who], Frame("busy"))]
      BY <1>6, CandidatesAre DEF RejectExpire, CandidateReply, CallerTypes
    <3>2. QED BY <3>1, DownIs, WiresAre, FramesAre DEF WireTypes, Controls
  <2>4. QED BY <1>6, <2>1, <2>2, <2>3 DEF RejectExpire, CandidateReply, relayVars, ptyVars,
               ghostVars, RelayTypes, CallerTypes, PtyTypes, WireTypes, GhostTypes
<1>7. CASE Accept
  <2>1. reject' \in Candidates /\ backlog' \subseteq Terminals
    BY <1>7, CandidatesAre DEF Accept, CallerTypes
  <2>2. QED BY <1>7, <2>1 DEF Accept, relayVars, ptyVars, wireVars, ghostVars, RelayTypes,
               CallerTypes, PtyTypes, WireTypes, GhostTypes
<1>8. CASE Candidate
  <2>1. reject.who \in Terminals
    BY <1>8, CandidatesAre DEF CallerTypes, Candidate
  <2>2. RelayTypes' /\ GhostTypes'
    <3>1. CASE MayReserve
      <4>1. relay.generation + 1 \in 1..MaxGeneration
        BY <1>8, <3>1, RelayIs, AttachAssumption DEF Candidate, AttachAssumption
      <4>2. relay' \in Relays
        BY <1>8, <2>1, <3>1, <4>1, ReservationIs DEF Candidate
      <4>3. QED BY <1>8, <2>1, <3>1, <4>1, <4>2 DEF RelayTypes, Candidate, GhostTypes
    <3>2. CASE ~MayReserve
      BY <1>8, <3>2 DEF RelayTypes, Candidate, GhostTypes
    <3>3. QED BY <3>1, <3>2
  <2>3. reject' \in Candidates
    <3>1. reject' = NoCandidate \/ reject' = [reject EXCEPT !.busy = TRUE]
      BY <1>8 DEF Candidate
    <3>2. QED BY <3>1, CandidatesAre DEF CallerTypes
  <2>4. up' \in [Terminals -> Seq(FromTerminal)]
    <3>1. up' = up \/ up' = [t \in Terminals |-> IF t = relay.peer THEN <<>> ELSE up[t]]
      BY <1>8 DEF Candidate
    <3>2. QED BY <3>1, NoneIs DEF WireTypes
  <2>5. QED BY <1>8, <2>2, <2>3, <2>4 DEF Candidate, ptyVars, CallerTypes, PtyTypes, WireTypes
<1>9. QED BY <1>1, <1>2, <1>3, <1>4, <1>5, <1>6, <1>7, <1>8 DEF RelayStep

\* The steps of the owner keep the types.
LEMMA OwnerStepTypes ==
    ASSUME AttachTypeOK, OwnerStep,
           engine.at = "control" => engine.line \in Lines \ {"text", "none"}
    PROVE  RelayTypes' /\ CallerTypes' /\ PtyTypes' /\ OwnerTypes' /\ WireTypes' /\ GhostTypes'
<1> USE DEF AttachTypeOK
<1>1. display \in Displays /\ engine \in Engines /\ 0 \in 0..MaxGeneration
  BY AttachAssumption DEF OwnerTypes, AttachAssumption
<1>2. Idle \in Engines /\ At("rebind") \in Engines /\ At("history") \in Engines
      /\ At("ready") \in Engines /\ At("flush") \in Engines /\ Finished \in Engines
  BY <1>1 DEF Idle, At, Finished, Engines
<1> DEFINE Owners == display' \in Displays /\ engine' \in Engines
           Relaying == RelayTypes' /\ PtyTypes' /\ screen' \in 1..MaxGeneration
<1>3. CASE Service
  <2>1. event \in {"commit", "bound", "detach", "error"}
    BY <1>3 DEF Service, RelayTypes
  <2>2. display' \in Displays
    <3>1. relay.generation \in 0..MaxGeneration
      BY RelayIs
    <3>2. QED BY <1>1, <1>3, <2>1, <3>1 DEF Service, Displays
  <2>3. QED BY <1>1, <1>3, <2>2 DEF Service, callerVars, ptyVars, wireVars, ghostVars, RelayTypes,
               CallerTypes, PtyTypes, OwnerTypes, WireTypes, GhostTypes
<1>4. CASE Write
  <2>1. ptyOut' \in Seq(1..MaxGeneration)
    BY <1>4, PtysAre DEF Write, GhostTypes
  <2>2. QED BY <1>4, <2>1 DEF Write, relayVars, callerVars, ownerVars, wireVars, ghostVars,
               RelayTypes, CallerTypes, PtyTypes, OwnerTypes, WireTypes, GhostTypes
<1>5. CASE ViewReserve
  <2>1. relay.generation + 1 \in 1..MaxGeneration
    BY <1>5, RelayIs, AttachAssumption DEF ViewReserve, AttachAssumption
  <2>2. relay' \in Relays
    BY <1>5, <2>1 DEF ViewReserve, RelayTypes, Relays
  <2>3. QED BY <1>5, <2>2 DEF ViewReserve, callerVars, ptyVars, ownerVars, wireVars, ghostVars,
               RelayTypes, CallerTypes, PtyTypes, OwnerTypes, WireTypes, GhostTypes
<1>6. CASE ViewBind \/ ViewRelease
  <2>1. display' \in Displays
    <3>1. relay.generation \in 0..MaxGeneration
      BY RelayIs
    <3>2. QED BY <1>1, <1>6, <3>1 DEF ViewBind, ViewRelease, Unleased, Displays
  <2>2. QED BY <1>1, <1>6, <2>1 DEF ViewBind, ViewRelease, relayVars, callerVars, ptyVars, wireVars,
               ghostVars, RelayTypes, CallerTypes, PtyTypes, OwnerTypes, WireTypes, GhostTypes
<1>7. CASE TakePending
  <2>1. engine' \in Engines
    BY <1>1, <1>7 DEF TakePending, Idle, Engines, Displays
  <2>2. QED BY <1>1, <1>7, <2>1 DEF TakePending, relayVars, callerVars, ptyVars, wireVars,
               ghostVars, RelayTypes, CallerTypes, PtyTypes, OwnerTypes, WireTypes, GhostTypes
<1>8. CASE Rebind
  <2>1. Relaying /\ Owners
    <3>1. CASE Activatable(engine.generation) /\ relay.output = NoFrame
      <4>1. relay' \in Relays
        <5>1. relay' = [relay EXCEPT !.output = Frame("ready"), !.handshake = TRUE,
                                     !.phase = "accepted"]
          BY <1>8, <3>1 DEF Rebind, Activate
        <5>2. QED BY <5>1, FramesAre DEF RelayTypes, Relays, Phases, Controls
      <4>2. display' \in Displays
        BY <1>1, <1>8, <3>1 DEF Rebind, Displays
      <4>3. QED BY <1>2, <1>8, <3>1, <4>1, <4>2, NoneIs, RelayIs DEF Rebind, Activate, RelayTypes, PtyTypes
    <3>2. CASE ~Activatable(engine.generation)
      BY <1>1, <1>2, <1>8, <3>2 DEF Rebind, RelayTypes, PtyTypes, GhostTypes
    <3>3. CASE Activatable(engine.generation) /\ relay.output # NoFrame
      <4>1. display' = [display EXCEPT !.barrier = TRUE] /\ engine' = Idle
            /\ UNCHANGED <<relay, ptyOut, screen>>
        BY <1>8, <3>3 DEF Rebind, Activate
      <4>2. display' \in Displays
        BY <1>1, <4>1 DEF Displays
      <4>3. QED BY <1>2, <1>8, <4>1, <4>2 DEF Rebind, RelayTypes, PtyTypes, GhostTypes
    <3>4. QED BY <3>1, <3>2, <3>3
  <2>2. QED BY <1>8, <2>1 DEF Rebind, callerVars, wireVars, CallerTypes, OwnerTypes, WireTypes, GhostTypes
<1>9. CASE History
  <2>1. ptyOut' \in Seq(1..MaxGeneration)
    <3>1. ptyOut' = ptyOut \/ ptyOut' = Append(ptyOut, screen)
      BY <1>9 DEF History
    <3>2. QED BY <3>1, PtysAre DEF GhostTypes, PtyTypes
  <2>2. QED BY <1>1, <1>2, <1>9, <2>1 DEF History, relayVars, callerVars, wireVars, ghostVars,
               RelayTypes, CallerTypes, PtyTypes, OwnerTypes, WireTypes, GhostTypes
<1>10. CASE Ready
  <2>1. display' \in Displays
    BY <1>1, <1>10 DEF Ready, Displays
  <2>2. QED BY <1>2, <1>10, <2>1 DEF Ready, relayVars, callerVars, ptyVars, wireVars, ghostVars,
               RelayTypes, CallerTypes, PtyTypes, OwnerTypes, WireTypes, GhostTypes
<1>11. CASE TakeLine
  <2>1. Head(ptyIn) \in Lines /\ ptyIn' \in Seq(Lines)
    BY <1>11, PtysAre DEF TakeLine
  <2>2. engine' \in Engines
    BY <1>1, <1>11, <2>1 DEF TakeLine, Idle, Engines
  <2>3. display' \in Displays
    BY <1>1, <1>11 DEF TakeLine, Displays
  <2>4. backlog' \subseteq Terminals /\ view' = view
    BY <1>11 DEF TakeLine, CallerTypes
  <2>5. QED BY <1>11, <2>1, <2>2, <2>3, <2>4 DEF TakeLine, relayVars, wireVars, ghostVars,
               RelayTypes, CallerTypes, PtyTypes, OwnerTypes, WireTypes, GhostTypes
<1>12. CASE Control
  <2>1. Relaying /\ Owners
    <3>1. ControlType \in {"detach", "switch", "suspend", "exit"}
      BY <1>12 DEF Control, ControlType, Lines
    <3>2. CASE relay' = relay /\ ptyOut' = ptyOut /\ display' = display
               /\ engine' \in {Finished, At("flush")}
      BY <1>1, <1>2, <1>12, <3>2 DEF Control, RelayTypes, PtyTypes, GhostTypes, ghostVars
    <3>3. CASE relay' = Presented /\ ptyOut' = Tail(ptyOut) /\ ptyOut # <<>> /\ UNCHANGED <<engine, display>>
      BY <1>1, <1>12, <3>3, PresentedIs DEF Control, RelayTypes, PtyTypes, GhostTypes, ghostVars
    <3>4. CASE /\ ControlType = "suspend" => relay.generation < MaxGeneration
               /\ relay' = ControlQueued(ControlType) /\ engine' = At("flush") /\ ptyOut' = ptyOut
               /\ display' = IF ControlType = "suspend" THEN [display EXCEPT !.attachment = 0] ELSE display
               /\ ~ControlRefused(ControlType)
      <4>1. Frame(ControlType) \in ToTerminal
        BY <3>1, FramesAre DEF Controls
      <4>2. relay' \in Relays
        <5>1. Drains(ControlType) \in BOOLEAN
          BY DEF Drains
        <5>2. CASE ControlType = "suspend"
          <6>1. relay.generation + 1 \in 1..MaxGeneration
            BY <3>4, <5>2, RelayIs, AttachAssumption DEF AttachAssumption
          <6>2. relay' = [relay EXCEPT !.output = Frame(ControlType), !.closing = Drains(ControlType),
                                       !.phase = "reserved", !.generation = relay.generation + 1]
            BY <3>4, <5>2 DEF ControlQueued, RelayTypes, Relays
          <6>3. QED BY <4>1, <5>1, <6>1, <6>2 DEF RelayTypes, Relays, Phases
        <5>3. CASE ControlType # "suspend"
          <6>1. relay' = [relay EXCEPT !.output = Frame(ControlType), !.closing = Drains(ControlType)]
            BY <3>4, <5>3 DEF ControlQueued
          <6>2. QED BY <4>1, <5>1, <6>1 DEF RelayTypes, Relays
        <5>4. QED BY <5>2, <5>3
      <4>3. display' \in Displays
        BY <1>1, <3>4 DEF Displays
      <4>4. QED BY <1>2, <1>12, <3>4, <4>2, <4>3 DEF Control, RelayTypes, PtyTypes, GhostTypes, ghostVars
    <3>5. QED BY <1>12, <3>2, <3>3, <3>4 DEF Control
  <2>2. QED BY <1>12, <2>1 DEF Control, callerVars, wireVars, ghostVars, CallerTypes, OwnerTypes, WireTypes, GhostTypes
<1>13. CASE Flushed \/ GiveUp
  BY <1>1, <1>2, <1>13 DEF Flushed, GiveUp, relayVars, callerVars, ptyVars, wireVars,
     ghostVars, RelayTypes, CallerTypes, PtyTypes, OwnerTypes, WireTypes, GhostTypes
<1>14. CASE RelayClose
  <2>1. relay' \in Relays
    BY <1>14, RelayIs, VacantIs DEF RelayClose
  <2>2. reject' \in Candidates
    BY <1>14, CandidatesAre DEF RelayClose
  <2>3. up' \in [Terminals -> Seq(FromTerminal)]
    BY <1>14, NoneIs DEF RelayClose
  <2>4. display' \in Displays
    BY <1>1, <1>14 DEF RelayClose, Unleased, Displays
  <2>5. QED BY <1>1, <1>14, <2>1, <2>2, <2>3, <2>4 DEF RelayClose, ptyVars, ghostVars,
               RelayTypes, CallerTypes, PtyTypes, OwnerTypes, WireTypes, GhostTypes
<1>15. QED BY <1>3, <1>4, <1>5, <1>6, <1>7, <1>8, <1>9, <1>10, <1>11, <1>12, <1>13, <1>14
              DEF OwnerStep, EngineStep

\* Closing keeps the types.
LEMMA CloseTypes ==
    ASSUME AttachTypeOK, NEW c \in Terminals, Close(c)
    PROVE  WireTypes' /\ mode' \in [Terminals -> Modes] /\ holding' \in [Terminals -> 0..MaxGeneration]
<1>1. up' \in [Terminals -> Seq(FromTerminal)] /\ down' \in [Terminals -> Seq(ToTerminal)]
  BY NoneIs DEF Close, AttachTypeOK, WireTypes
<1>2. mode' \in [Terminals -> Modes] /\ holding' \in [Terminals -> 0..MaxGeneration]
  BY AttachAssumption DEF Close, Enter, AttachTypeOK, TerminalTypes, Modes, AttachAssumption
<1>3. QED BY <1>1, <1>2 DEF WireTypes

\* Sending keeps the types.
LEMMA SendTypes ==
    ASSUME AttachTypeOK, NEW c \in Terminals, NEW f \in FromTerminal, Send(c, f)
    PROVE  up' \in [Terminals -> Seq(FromTerminal)]
<1>1. Append(up[c], f) \in Seq(FromTerminal) /\ up' = [up EXCEPT ![c] = Append(up[c], f)]
  BY WiresAre DEF Send, AttachTypeOK
<1>2. QED BY <1>1, UpIs DEF AttachTypeOK

\* Reading a frame keeps the types.
LEMMA TailTypes ==
    ASSUME AttachTypeOK, NEW c \in Terminals, down[c] # <<>>, down' = [down EXCEPT ![c] = Tail(down[c])]
    PROVE  down' \in [Terminals -> Seq(ToTerminal)]
<1>1. Tail(down[c]) \in Seq(ToTerminal)
  BY WiresAre DEF AttachTypeOK
<1>2. QED BY <1>1, DownIs DEF AttachTypeOK

\* The steps of a terminal keep the types.
LEMMA TerminalStepTypes ==
    ASSUME AttachTypeOK, NEW c \in Terminals, TerminalStep(c)
    PROVE  CallerTypes' /\ TerminalTypes' /\ WireTypes' /\ GhostTypes'
<1> USE DEF AttachTypeOK
<1>1. reject' = reject /\ view' = view /\ screen' = screen
  BY TerminalFrame
<1>2. CASE Leave(c) \/ ReadEnd(c)
  <2>1. Close(c) /\ UNCHANGED <<backlog, lines, ghostVars>>
    BY <1>2 DEF Leave, ReadEnd, rest
  <2>2. QED BY <1>1, <2>1, CloseTypes DEF ghostVars, CallerTypes, TerminalTypes, GhostTypes
<1>3. CASE Attach(c)
  <2>1. mode' \in [Terminals -> Modes]
    BY <1>3 DEF Attach, Enter, TerminalTypes, Modes
  <2>2. QED BY <1>1, <1>3, <2>1 DEF Attach, rest, wireVars, ghostVars, CallerTypes, TerminalTypes, WireTypes, GhostTypes
<1>4. CASE TargetRead(c)
  <2> DEFINE Reads == down[c] # <<>> /\ down' = [down EXCEPT ![c] = Tail(down[c])] /\ UNCHANGED <<holding, misread>>
  <2>1. UNCHANGED <<lines, backlog, since>>
    BY <1>4 DEF TargetRead, rest
  <2>2. CASE Send(c, "commit") /\ Enter(c, "committing") /\ Reads
    <3>1. up' \in [Terminals -> Seq(FromTerminal)] /\ down' \in [Terminals -> Seq(ToTerminal)]
      BY <2>2, SendTypes, TailTypes, LinesAre
    <3>2. mode' \in [Terminals -> Modes]
      BY <2>2 DEF Enter, TerminalTypes, Modes
    <3>3. QED BY <1>1, <2>1, <2>2, <3>1, <3>2 DEF CallerTypes, TerminalTypes, WireTypes, GhostTypes
  <2>3. CASE up' = up /\ (Enter(c, "ready") \/ Enter(c, "refused")) /\ Reads
    <3>1. down' \in [Terminals -> Seq(ToTerminal)]
      BY <2>3, TailTypes
    <3>2. mode' \in [Terminals -> Modes]
      BY <2>3 DEF Enter, TerminalTypes, Modes
    <3>3. QED BY <1>1, <2>1, <2>3, <3>1, <3>2 DEF CallerTypes, TerminalTypes, WireTypes, GhostTypes
  <2>4. CASE Close(c) /\ misread' \in {misread, misread \cup {c}}
    BY <1>1, <2>1, <2>4, CloseTypes DEF CallerTypes, TerminalTypes, GhostTypes
  <2>5. QED BY <1>4, <2>2, <2>3, <2>4 DEF TargetRead
<1>5. CASE \E f \in FromTerminal : Send(c, f) /\ (Bind(c) \/ Show(c) \/ SwitchFails(c) \/ Continue(c) \/ \E line \in Typed : Type(c, line))
  <2>1. up' \in [Terminals -> Seq(FromTerminal)] /\ down' = down
    BY <1>5, SendTypes DEF Bind, Show, SwitchFails, Continue, Type
  <2>2. mode' \in [Terminals -> Modes]
    BY <1>5 DEF Bind, Show, SwitchFails, Continue, Type, Enter, TerminalTypes, Modes, rest
  <2>3. holding' \in [Terminals -> 0..MaxGeneration]
    BY <1>5, AttachAssumption DEF Bind, Show, SwitchFails, Continue, Type, TerminalTypes, AttachAssumption
  <2>4. lines' \in 0..MaxLines
    BY <1>5, AttachAssumption DEF Bind, Show, SwitchFails, Continue, Type, TerminalTypes, rest, AttachAssumption
  <2>5. since' \in [Terminals -> 0..MaxGeneration] /\ misread' = misread /\ backlog' = backlog
    BY <1>5, RelayIs DEF Bind, Show, SwitchFails, Continue, Type, GhostTypes, ghostVars
  <2>6. QED BY <1>1, <2>1, <2>2, <2>3, <2>4, <2>5 DEF CallerTypes, TerminalTypes, WireTypes, GhostTypes
<1>6. CASE ReadOutput(c)
  <2>1. CASE Holding(c)
    BY <1>1, <1>6, <2>1, CloseTypes DEF ReadOutput, rest, CallerTypes, TerminalTypes, GhostTypes
  <2>2. CASE ~Holding(c)
    <3>1. down' \in [Terminals -> Seq(ToTerminal)]
      BY <1>6, <2>2, TailTypes DEF ReadOutput
    <3>2. Head(down[c]).tag \in 0..MaxGeneration
      <4>1. Head(down[c]) \in ToTerminal /\ Head(down[c]).type = "output"
        BY <1>6, WiresAre DEF ReadOutput
      <4>2. Head(down[c]).tag \in 1..MaxGeneration
        BY <4>1, FramesAre
      <4>3. QED BY <4>2
    <3>3. holding' \in [Terminals -> 0..MaxGeneration]
      BY <1>6, <2>2, <3>2 DEF ReadOutput, TerminalTypes
    <3>4. QED BY <1>1, <1>6, <2>2, <3>1, <3>3 DEF ReadOutput, rest, CallerTypes, TerminalTypes, WireTypes, GhostTypes
  <2>3. QED BY <2>1, <2>2
<1>7. CASE ReadControl(c)
  <2>1. UNCHANGED <<lines, backlog, since>>
    BY <1>7 DEF ReadControl, rest
  <2>2. CASE Close(c) /\ misread' \in {misread, misread \cup {c}}
    BY <1>1, <2>1, <2>2, CloseTypes DEF CallerTypes, TerminalTypes, GhostTypes
  <2>3. CASE /\ Enter(c, "switching") \/ Enter(c, "suspended")
             /\ down[c] # <<>> /\ down' = [down EXCEPT ![c] = Tail(down[c])]
             /\ UNCHANGED <<up, holding, misread>>
    <3>1. down' \in [Terminals -> Seq(ToTerminal)]
      BY <2>3, TailTypes
    <3>2. mode' \in [Terminals -> Modes]
      BY <2>3 DEF Enter, TerminalTypes, Modes
    <3>3. QED BY <1>1, <2>1, <2>3, <3>1, <3>2 DEF CallerTypes, TerminalTypes, WireTypes, GhostTypes
  <2>4. QED BY <1>7, <2>2, <2>3 DEF ReadControl
<1>8. CASE SwitchAccepted(c)
  <2>1. mode' \in [Terminals -> Modes]
    BY <1>8 DEF SwitchAccepted, Enter, TerminalTypes, Modes
  <2>2. QED BY <1>1, <1>8, <2>1 DEF SwitchAccepted, rest, wireVars, ghostVars, CallerTypes, TerminalTypes, WireTypes, GhostTypes
<1>9. CASE Drain(c)
  <2>1. down' \in [Terminals -> Seq(ToTerminal)]
    BY <1>9, TailTypes DEF Drain
  <2>2. QED BY <1>1, <1>9, <2>1 DEF Drain, rest, ghostVars, CallerTypes, TerminalTypes, WireTypes, GhostTypes
<1>10. Bind(c) \/ Show(c) \/ SwitchFails(c) \/ Continue(c) \/ (\E line \in Typed : Type(c, line))
         => \E f \in FromTerminal : Send(c, f)
  BY LinesAre, AttachAssumption DEF Bind, Show, SwitchFails, Continue, Type, AttachAssumption
<1>11. QED BY <1>2, <1>3, <1>4, <1>5, <1>6, <1>7, <1>8, <1>9, <1>10 DEF TerminalStep

\* Every step keeps the types.
LEMMA StepTypes ==
    ASSUME AttachTypeOK, Next, engine.at = "control" => engine.line \in Lines \ {"text", "none"}
    PROVE  AttachTypeOK'
<1>1. CASE RelayStep
  BY <1>1, RelayStepTypes, RelayFrame DEF AttachTypeOK, OwnerTypes, TerminalTypes
<1>2. CASE OwnerStep
  BY <1>2, OwnerStepTypes, OwnerFrame DEF AttachTypeOK, TerminalTypes
<1>3. CASE \E c \in Terminals : TerminalStep(c)
  BY <1>3, TerminalStepTypes, TerminalFrame DEF AttachTypeOK, RelayTypes, PtyTypes, OwnerTypes
<1>4. QED BY <1>1, <1>2, <1>3 DEF Next

(***************************************************************************)
(* The phases of the relay.                                                *)
(***************************************************************************)
\* The invariant of the phases holds without a peer.
LEMMA PhaseOfVacant ==
    ASSUME NEW g \in Nat, relay' = Vacant(g)
    PROVE  PhaseInv'
BY DEF PhaseInv, Vacant, NoFrame, Frame, Writes, Ends

\* Presenting output keeps the invariant of the phases.
LEMMA PhaseOfPresented ==
    ASSUME RelayTypes, PhaseInv, Output, relay.output = NoFrame, relay' = Presented
    PROVE  PhaseInv'
BY DEF RelayTypes, Relays, PhaseInv, Presented, Output, NoFrame, Frame, Writes, Ends, Vacant

\* A vacant place is known by its fields.
LEMMA VacantFields ==
    ASSUME NEW r \in Relays, r.peer = NoOne, r.phase = "wait_reserve", ~r.handshake,
           r.output = NoFrame, ~r.unacked, r.input = "none", ~r.closing
    PROVE  r = Vacant(r.generation)
BY DEF Relays, Vacant

\* Every step keeps the invariant of the phases.
LEMMA PhaseStep ==
    ASSUME AttachTypeOK, PhaseInv, Next,
           engine.at = "control" => engine.line \in Lines \ {"text", "none"}
    PROVE  PhaseInv'
<1> USE DEF AttachTypeOK
<1>1. relay.generation \in Nat /\ relay.generation + 1 \in Nat
  BY RelayIs
<1>2. CASE PeerDrop
  BY <1>1, <1>2, PhaseOfVacant DEF PeerDrop
<1>3. CASE PeerWrite /\ ~PeerDrop
  <2>1. relay' = [relay EXCEPT !.output = NoFrame] /\ ~relay.closing /\ relay.peer # NoOne
    BY <1>3 DEF PeerWrite
  <2>2. /\ relay'.peer = relay.peer /\ relay'.phase = relay.phase /\ relay'.handshake = relay.handshake
        /\ relay'.output = NoFrame /\ relay'.unacked = relay.unacked /\ relay'.closing = relay.closing
    BY <2>1 DEF RelayTypes, Relays
  <2>3. QED BY <2>1, <2>2 DEF PhaseInv, NoFrame, Frame, Writes, Ends
<1>4. CASE PeerRead /\ ~PeerDrop
  <2>1. PICK frame \in FromTerminal :
           /\ Understood(frame) /\ relay' = Received(frame) /\ ~relay.closing /\ relay.peer # NoOne
           /\ ~(relay.phase = "accepted" /\ relay.output.type = "ready")
    <3>1. Head(up[relay.peer]) \in FromTerminal
      BY <1>4, RelayIs, WiresAre DEF PeerRead
    <3>2. QED BY <1>4, <3>1 DEF PeerRead
  <2>2. CASE frame = "commit"
    <3>1. /\ relay'.peer = relay.peer /\ relay'.phase = "repaint" /\ relay'.output = relay.output
          /\ relay'.unacked = relay.unacked /\ relay'.closing = relay.closing
      BY <2>1, <2>2 DEF Received, RelayTypes, Relays, Lines
    <3>2. relay.output = NoFrame /\ ~relay.unacked
      BY <2>1, <2>2 DEF Understood, Lines
    <3>3. QED BY <2>1, <3>1, <3>2 DEF PhaseInv, NoFrame, Frame, Writes, Ends
  <2>3. CASE frame = "bound"
    BY <2>1, <2>3 DEF Understood, Received, RelayTypes, Relays, PhaseInv, NoFrame, Frame, Writes, Ends, Lines
  <2>4. CASE frame \in Lines \cup {"ack", "error"}
    <3>1. /\ relay'.peer = relay.peer /\ relay'.phase = relay.phase /\ relay'.output = relay.output
          /\ relay'.handshake = relay.handshake /\ relay'.closing = relay.closing
          /\ relay'.unacked => relay.unacked
      BY <2>1, <2>4 DEF Received, RelayTypes, Relays, Lines
    <3>2. QED BY <2>1, <3>1 DEF PhaseInv, Writes
  <2>5. QED BY <2>2, <2>3, <2>4 DEF FromTerminal
<1>5. CASE MasterWrite
  <2>1. relay.input # "none" /\ relay' = [relay EXCEPT !.input = "none"]
    BY <1>5 DEF MasterWrite
  <2>2. relay.peer # NoOne
    <3>1. Vacant(relay.generation).input = "none"
      BY DEF Vacant
    <3>2. QED BY <2>1, <3>1 DEF PhaseInv
  <2>3. /\ relay'.peer = relay.peer /\ relay'.phase = relay.phase /\ relay'.handshake = relay.handshake
        /\ relay'.output = relay.output /\ relay'.unacked = relay.unacked /\ relay'.closing = relay.closing
    BY <2>1 DEF RelayTypes, Relays
  <2>4. QED BY <2>2, <2>3 DEF PhaseInv, Writes
<1>6. CASE MasterRead
  <2>1. relay' = relay \/ (Output /\ relay.output = NoFrame /\ relay' = Presented)
    BY <1>6 DEF MasterRead
  <2>2. CASE relay' = relay
    BY <2>2 DEF PhaseInv, Writes
  <2>3. QED BY <2>1, <2>2, PhaseOfPresented
<1>7. CASE Candidate
  <2>1. CASE MayReserve
    <3>1. relay' = [Vacant(relay.generation + 1) EXCEPT !.peer = reject.who, !.phase = "reserved",
                                                        !.handshake = TRUE, !.output = Frame("ready")]
          /\ reject.who # NoOne
      BY <1>7, <2>1 DEF Candidate
    <3>2. QED BY <3>1 DEF PhaseInv, Vacant, NoFrame, Frame, Writes, Ends
  <2>2. CASE ~MayReserve
    BY <1>7, <2>2 DEF Candidate, PhaseInv, Writes
  <2>3. QED BY <2>1, <2>2
<1>8. CASE ViewReserve
  <2>1. relay' = [relay EXCEPT !.generation = relay.generation + 1] /\ relay.peer = NoOne
    BY <1>8 DEF ViewReserve
  <2>2. relay' \in Relays
    BY StepTypes DEF RelayTypes
  <2>3. /\ relay.phase = "wait_reserve" /\ ~relay.handshake /\ relay.output = NoFrame
        /\ ~relay.unacked /\ relay.input = "none" /\ ~relay.closing
    BY <2>1 DEF PhaseInv, Vacant
  <2>4. /\ relay'.peer = NoOne /\ relay'.phase = "wait_reserve" /\ ~relay'.handshake
        /\ relay'.output = NoFrame /\ ~relay'.unacked /\ relay'.input = "none" /\ ~relay'.closing
        /\ relay'.generation \in Nat
    BY <1>1, <2>1, <2>3 DEF RelayTypes, Relays
  <2>5. relay' = Vacant(relay'.generation)
    BY <2>2, <2>4, VacantFields
  <2>6. QED BY <2>4, <2>5, PhaseOfVacant
<1>9. CASE Rebind
  <2>1. \/ relay' = relay
        \/ /\ relay' = [relay EXCEPT !.output = Frame("ready"), !.handshake = TRUE, !.phase = "accepted"]
           /\ relay.output = NoFrame /\ relay.peer # NoOne
    BY <1>9 DEF Rebind, Activatable, Activate
  <2>2. CASE relay' = relay
    BY <2>2 DEF PhaseInv, Writes
  <2>3. CASE relay' # relay
    <3>1. /\ relay'.peer = relay.peer /\ relay'.phase = "accepted" /\ relay'.output = Frame("ready")
          /\ relay'.closing = relay.closing
      BY <2>1, <2>3 DEF RelayTypes, Relays
    <3>2. QED BY <2>1, <2>3, <3>1 DEF PhaseInv, NoFrame, Frame, Writes, Ends
  <2>4. QED BY <2>2, <2>3
<1>10. CASE Control
  <2>1. ControlType \in {"detach", "switch", "suspend", "exit"}
    BY <1>10 DEF Control, ControlType, Lines
  <2>2. CASE relay' = relay
    BY <2>2 DEF PhaseInv, Writes
  <2>3. CASE relay' = Presented /\ Output /\ relay.output = NoFrame
    BY <2>3, PhaseOfPresented
  <2>4. CASE /\ relay' = ControlQueued(ControlType) /\ relay.output = NoFrame
             /\ ~ControlRefused(ControlType)
    <3>1. relay.peer # NoOne /\ (ControlType \in {"switch", "suspend"} => relay.phase = "attached")
      BY <2>4 DEF ControlRefused
    <3>2. CASE ControlType = "suspend"
      BY <2>4, <3>1, <3>2 DEF ControlQueued, Drains, RelayTypes, Relays, PhaseInv, Frame, Writes, Ends
    <3>3. CASE ControlType # "suspend"
      BY <2>1, <2>4, <3>1, <3>3 DEF ControlQueued, Drains, RelayTypes, Relays, PhaseInv, Frame, Writes, Ends
    <3>4. QED BY <3>2, <3>3
  <2>5. QED BY <1>10, <2>2, <2>3, <2>4 DEF Control, ControlWaits
<1>11. CASE RelayClose
  BY <1>1, <1>11, PhaseOfVacant DEF RelayClose
<1>12. CASE relay' = relay
  BY <1>12 DEF PhaseInv, Writes
<1>13. CASE RelayStep
  BY <1>2, <1>3, <1>4, <1>5, <1>6, <1>7, <1>12, <1>13 DEF RelayStep, PeerHangup, Expire, RejectExpire,
     Accept, CandidateReply, relayVars
<1>14. CASE OwnerStep
  BY <1>8, <1>9, <1>10, <1>11, <1>12, <1>14 DEF OwnerStep, EngineStep, Service, Write, ViewBind,
     ViewRelease, TakePending, History, Ready, TakeLine, Flushed, GiveUp, relayVars
<1>15. CASE \E c \in Terminals : TerminalStep(c)
  BY <1>12, <1>15, TerminalFrame
<1>16. QED BY <1>13, <1>14, <1>15 DEF Next

(***************************************************************************)
(* The commands of the engine.                                             *)
(***************************************************************************)
\* The engine carries out commands only.
LEMMA CommandStep ==
    ASSUME AttachTypeOK, Next, engine.at = "control" => engine.line \in Lines \ {"text", "none"}
    PROVE  (engine.at = "control" => engine.line \in Lines \ {"text", "none"})'
<1> USE DEF AttachTypeOK
<1>1. CASE TakeLine
  <2>1. Head(ptyIn) \in Lines
    BY <1>1, PtysAre DEF TakeLine
  <2>2. QED BY <1>1, <2>1 DEF TakeLine, Idle, Lines
<1>2. CASE engine' = engine
  BY <1>2
<1>3. CASE engine'.at # "control"
  BY <1>3
<1>4. CASE OwnerStep /\ ~TakeLine
  <2>1. /\ At("rebind").at # "control" /\ At("history").at # "control" /\ At("ready").at # "control"
        /\ At("flush").at # "control" /\ Finished.at # "control" /\ Idle.at # "control"
    BY DEF OwnerTypes, Engines, At, Finished, Idle
  <2>2. engine' = engine \/ engine'.at # "control"
    BY <1>4, <2>1 DEF OwnerStep, EngineStep, Service, Write, ViewReserve, ViewBind, ViewRelease,
       TakePending, Idle, Rebind, History, Ready, Control, Flushed, GiveUp, RelayClose, ownerVars
  <2>3. QED BY <1>2, <1>3, <2>2
<1>5. QED BY <1>1, <1>2, <1>4, RelayFrame, TerminalFrame DEF Next

(***************************************************************************)
(* What the steps of the relay leave of its fields.                        *)
(***************************************************************************)
\* Output is presented.
LEMMA PresentedFields ==
    ASSUME RelayTypes, relay' = Presented
    PROVE  /\ relay'.peer = relay.peer /\ relay'.phase = relay.phase
           /\ relay'.generation = relay.generation /\ relay'.handshake = relay.handshake
           /\ relay'.output.type = "output" /\ relay'.output.tag = Head(ptyOut) /\ relay'.unacked
BY DEF Presented, RelayTypes, Relays

\* A reservation is activated.
LEMMA ActivatedFields ==
    ASSUME RelayTypes,
           relay' = [relay EXCEPT !.output = Frame("ready"), !.handshake = TRUE, !.phase = "accepted"]
    PROVE  /\ relay'.peer = relay.peer /\ relay'.phase = "accepted"
           /\ relay'.generation = relay.generation /\ relay'.handshake
           /\ relay'.output.type = "ready" /\ relay'.unacked = relay.unacked
BY DEF Frame, RelayTypes, Relays

\* A control is queued.
LEMMA QueuedFields ==
    ASSUME RelayTypes, NEW type, relay' = ControlQueued(type)
    PROVE  /\ relay'.peer = relay.peer
           /\ relay'.phase = (IF type = "suspend" THEN "reserved" ELSE relay.phase)
           /\ relay'.generation = (IF type = "suspend" THEN relay.generation + 1 ELSE relay.generation)
           /\ relay'.handshake = relay.handshake /\ relay'.output.type = type
           /\ relay'.unacked = relay.unacked
<1>1. CASE type = "suspend"
  BY <1>1 DEF ControlQueued, Frame, RelayTypes, Relays
<1>2. CASE type # "suspend"
  BY <1>2 DEF ControlQueued, Frame, RelayTypes, Relays
<1>3. QED BY <1>1, <1>2

\* A frame is written.
LEMMA WrittenFields ==
    ASSUME RelayTypes, relay' = [relay EXCEPT !.output = NoFrame]
    PROVE  /\ relay'.peer = relay.peer /\ relay'.phase = relay.phase
           /\ relay'.generation = relay.generation /\ relay'.handshake = relay.handshake
           /\ relay'.output.type = "none" /\ relay'.unacked = relay.unacked
BY DEF NoFrame, Frame, RelayTypes, Relays

\* A candidate is reserved for.
LEMMA ReservedFields ==
    ASSUME NEW w, NEW g,
           relay' = [Vacant(g) EXCEPT !.peer = w, !.phase = "reserved", !.handshake = TRUE,
                                      !.output = Frame("ready")]
    PROVE  /\ relay'.peer = w /\ relay'.phase = "reserved" /\ relay'.generation = g
           /\ relay'.handshake /\ relay'.output.type = "ready" /\ ~relay'.unacked
BY DEF Vacant, Frame

\* The peer is dropped.
LEMMA VacantIsFree == \A g : Vacant(g).peer = NoOne /\ Vacant(g).generation = g
                             /\ Vacant(g).phase = "wait_reserve"
BY DEF Vacant

\* A frame of the peer is taken.
LEMMA ReceivedFields ==
    ASSUME RelayTypes, NEW frame \in FromTerminal, relay' = Received(frame)
    PROVE  /\ relay'.peer = relay.peer /\ relay'.generation = relay.generation
           /\ relay'.output = relay.output
           /\ relay'.phase = (CASE frame = "commit" -> "repaint" [] frame = "bound" -> "attached"
                                [] OTHER -> relay.phase)
           /\ frame \notin {"commit", "bound"} => relay'.handshake = relay.handshake
           /\ relay'.unacked = (IF frame = "ack" THEN FALSE ELSE relay.unacked)
<1>1. CASE frame \in {"commit", "bound", "ack", "error"}
  BY <1>1 DEF Received, RelayTypes, Relays, Lines
<1>2. CASE frame \in Lines
  BY <1>2 DEF Received, RelayTypes, Relays, Lines
<1>3. QED BY <1>1, <1>2 DEF FromTerminal

\* A line goes to the private terminal.
LEMMA MasterWriteFields ==
    ASSUME RelayTypes, MasterWrite
    PROVE  /\ relay'.peer = relay.peer /\ relay'.phase = relay.phase
           /\ relay'.generation = relay.generation /\ relay'.handshake = relay.handshake
           /\ relay'.output = relay.output /\ relay'.unacked = relay.unacked
BY DEF MasterWrite, RelayTypes, Relays

\* A peer changes by a reservation alone.
LEMMA PeerIs ==
    ASSUME AttachTypeOK, Next
    PROVE  relay'.peer \in {relay.peer, NoOne} \/ (Candidate /\ MayReserve)
<1> USE DEF AttachTypeOK
<1>1. CASE PeerDrop \/ RelayClose
  BY <1>1, VacantIsFree DEF PeerDrop, RelayClose
<1>2. CASE PeerWrite /\ ~PeerDrop
  BY <1>2, WrittenFields DEF PeerWrite
<1>3. CASE PeerRead /\ ~PeerDrop
  <2>1. Head(up[relay.peer]) \in FromTerminal
    BY <1>3, RelayIs, WiresAre DEF PeerRead
  <2>2. QED BY <1>3, <2>1, ReceivedFields DEF PeerRead
<1>4. CASE MasterWrite \/ MasterRead
  BY <1>4, MasterWriteFields, PresentedFields DEF MasterRead
<1>5. CASE ViewReserve
  BY <1>5 DEF ViewReserve, RelayTypes, Relays
<1>6. CASE Rebind
  BY <1>6, ActivatedFields DEF Rebind, Activate
<1>7. CASE Control
  BY <1>7, PresentedFields, QueuedFields DEF Control
<1>8. CASE Candidate /\ ~MayReserve
  BY <1>8 DEF Candidate
<1>9. CASE relay' = relay
  BY <1>9
<1>10. CASE RelayStep
  BY <1>1, <1>2, <1>3, <1>4, <1>8, <1>9, <1>10 DEF RelayStep, PeerHangup, Expire, RejectExpire,
     Accept, CandidateReply, relayVars
<1>11. CASE OwnerStep
  BY <1>1, <1>5, <1>6, <1>7, <1>9, <1>11 DEF OwnerStep, EngineStep, Service, Write, ViewBind,
     ViewRelease, TakePending, History, Ready, TakeLine, Flushed, GiveUp, relayVars
<1>12. CASE \E c \in Terminals : TerminalStep(c)
  BY <1>9, <1>12, TerminalFrame
<1>13. QED BY <1>10, <1>11, <1>12 DEF Next

(***************************************************************************)
(* Connections that wait.                                                  *)
(***************************************************************************)
\* Nothing is on its way to a terminal that is gone or was refused.
LEMMA SilentIsEmpty ==
    ASSUME WireTypes, NEW c \in Terminals, Legible(c), mode[c] \in {"away", "refused"}
    PROVE  down[c] = <<>> /\ up[c] = <<>>
<1>1. Takes(mode[c]) = {}
  BY DEF Takes
<1>2. down[c] \in Seq(ToTerminal) /\ \A k \in 1..Len(down[c]) : FALSE
  BY <1>1, WiresAre DEF Legible
<1>3. Len(down[c]) \in Nat /\ Len(down[c]) = 0
  BY <1>2, LenProperties
<1>4. QED BY <1>2, <1>3, EmptySeq DEF Legible

\* Every step keeps the connections apart.
LEMMA CallersStep ==
    ASSUME AttachTypeOK, CallersInv, Next, \A c \in Terminals : Legible(c)
    PROVE  CallersInv'
<1> USE DEF AttachTypeOK
<1>1. relay'.peer \in {relay.peer, NoOne} \/ (Candidate /\ MayReserve)
  BY PeerIs
<1>2. NoOne \notin Terminals /\ backlog \subseteq Terminals /\ reject.who \in Terminals \cup {NoOne}
      /\ reject.busy \in BOOLEAN /\ relay.peer \in Terminals \cup {NoOne}
  BY RelayIs, CandidatesAre, AttachAssumption DEF CallerTypes, AttachAssumption, CallersInv
<1>3. NoCandidate.who = NoOne /\ ~NoCandidate.busy
  BY DEF NoCandidate
<1>4. CASE RelayStep \/ OwnerStep
  <2>1. mode' = mode
    BY <1>4, RelayFrame, OwnerFrame
  <2>2. CASE Candidate /\ MayReserve
    <3>1. relay'.peer = reject.who /\ reject' = NoCandidate /\ UNCHANGED <<backlog, down>>
      BY <2>2, ReservedFields DEF Candidate
    <3>2. QED BY <1>2, <1>3, <2>1, <3>1 DEF CallersInv
  <2>3. CASE Candidate /\ ~MayReserve
    <3>1. relay' = relay /\ reject' = [reject EXCEPT !.busy = TRUE] /\ reject.who # NoOne
          /\ UNCHANGED <<backlog, down>>
      BY <2>3 DEF Candidate
    <3>2. reject'.who = reject.who
      BY <3>1 DEF CallerTypes, Candidates
    <3>3. QED BY <1>2, <2>1, <3>1, <3>2 DEF CallersInv
  <2>4. CASE Accept
    <3>1. PICK c \in backlog : reject' = [who |-> c, busy |-> FALSE] /\ backlog' = backlog \ {c}
      BY <2>4 DEF Accept
    <3>2. relay' = relay /\ down' = down
      BY <2>4 DEF Accept, relayVars, wireVars
    <3>3. QED BY <1>2, <2>1, <3>1, <3>2 DEF CallersInv
  <2>5. CASE PeerWrite
    <3>1. reject' = reject /\ backlog' = backlog /\ relay.peer # NoOne
          /\ \A c \in Terminals : c # relay.peer => down'[c] = down[c]
      BY <2>5 DEF PeerWrite, callerVars, WireTypes
    <3>2. relay'.peer \in {relay.peer, NoOne}
      BY <1>1, <2>5 DEF Candidate, PeerWrite, callerVars, NoCandidate, CallerTypes
    <3>3. QED BY <1>2, <2>1, <3>1, <3>2 DEF CallersInv
  <2>6. CASE RejectExpire \/ CandidateReply
    <3>1. relay' = relay /\ reject' = NoCandidate /\ backlog' = backlog
      BY <2>6 DEF RejectExpire, CandidateReply, relayVars
    <3>2. \A c \in Terminals : c # reject.who => down'[c] = down[c]
      BY <2>6 DEF RejectExpire, CandidateReply, WireTypes
    <3>3. QED BY <1>2, <1>3, <2>1, <3>1, <3>2 DEF CallersInv
  <2>7. CASE RelayClose
    BY <1>2, <1>3, <2>1, <2>7, VacantIsFree DEF RelayClose, CallersInv
  <2>8. CASE ~Candidate /\ UNCHANGED <<reject, down>> /\ (backlog' = backlog \/ backlog' = {})
    BY <1>1, <1>2, <2>1, <2>8 DEF CallersInv
  <2>9. QED BY <1>4, <2>2, <2>3, <2>4, <2>5, <2>6, <2>7, <2>8 DEF RelayStep, OwnerStep, EngineStep,
               PeerHangup, PeerRead, MasterWrite, MasterRead, Expire, Service, Write, ViewReserve, ViewBind,
               ViewRelease, TakePending, Rebind, History, Ready, TakeLine, Control, Flushed, GiveUp,
               callerVars, wireVars
<1>5. CASE \E c \in Terminals : TerminalStep(c)
  <2>1. PICK c \in Terminals : TerminalStep(c)
    BY <1>5
  <2>2. relay' = relay /\ reject' = reject
    BY <2>1, TerminalFrame
  <2>3. ~Attach(c) => backlog' = backlog
    BY <2>1 DEF TerminalStep, Leave, TargetRead, Bind, Type, ReadOutput, Show, ReadControl,
       Continue, SwitchFails, SwitchAccepted, Drain, ReadEnd
  <2>4. CASE Attach(c)
    <3>1. down' = down /\ backlog' = backlog \cup {c} /\ ~Connected(c) /\ mode[c] \in {"away", "refused"}
          /\ mode' = [mode EXCEPT ![c] = IF mode[c] = "away" THEN "reserving" ELSE "moving"]
      BY <2>4 DEF Attach, wireVars, Enter
    <3>2. down[c] = <<>>
      BY <3>1, SilentIsEmpty
    <3>3. \A t \in Terminals : mode'[t] = IF t = c THEN IF mode[c] = "away" THEN "reserving" ELSE "moving" ELSE mode[t]
      BY <3>1 DEF TerminalTypes
    <3>4. QED BY <1>2, <2>2, <3>1, <3>2, <3>3 DEF CallersInv, Connected
  <2>5. CASE Close(c) /\ backlog' = backlog
    BY <1>2, <2>2, <2>5 DEF Close, Enter, CallersInv, TerminalTypes, WireTypes
  <2>6. CASE ~Attach(c) /\ ~Close(c)
    <3>1. ~(mode[c] \in {"away", "reserving", "moving"} /\ down[c] = <<>>)
      BY <2>1, <2>6 DEF TerminalStep, Leave, TargetRead, Bind, Type, ReadOutput, Show, ReadControl,
         Continue, SwitchFails, SwitchAccepted, Drain, ReadEnd, Holding
    <3>2. \A t \in Terminals : t # c => mode'[t] = mode[t] /\ down'[t] = down[t]
      BY <2>1, TerminalAlone
    <3>3. QED BY <1>2, <2>2, <2>3, <2>6, <3>1, <3>2 DEF CallersInv
  <2>7. QED BY <2>3, <2>4, <2>5, <2>6
<1>6. QED BY <1>4, <1>5 DEF Next

(***************************************************************************)
(* The generations that the engine reads.                                  *)
(***************************************************************************)
\* A peer that is dropped takes its attachment with it once the event is seen.
LEMMA DisplayOfDrop ==
    ASSUME AttachTypeOK, DisplayInv, PeerDrop, relay.peer # NoOne, UNCHANGED <<view, display, engine>>
    PROVE  DisplayInv'
BY VacantIsFree DEF DisplayInv, PeerDrop

\* Steps that move no phase keep what the engine reads.
LEMMA DisplayOfSame ==
    ASSUME DisplayInv, UNCHANGED <<event, view, display>>, engine.at = "ended" => engine'.at = "ended",
           relay'.peer = relay.peer, relay'.phase = relay.phase, relay'.generation = relay.generation
    PROVE  DisplayInv'
BY DEF DisplayInv, NamesController

\* Every step keeps the generations that the engine reads.
LEMMA DisplayStep ==
    ASSUME AttachTypeOK, PhaseInv, DisplayInv, Next,
           engine.at = "control" => engine.line \in Lines \ {"text", "none"}
    PROVE  DisplayInv'
<1> USE DEF AttachTypeOK
<1>1. /\ relay.peer = NoOne => relay.phase = "wait_reserve"
      /\ relay.generation \in 1..MaxGeneration
      /\ display.attachment \in Nat /\ display.pending \in Nat
  BY VacantIsFree, RelayIs DEF PhaseInv, OwnerTypes, Displays
<1>2. CASE RelayStep
  <2>1. UNCHANGED <<view, display, engine>>
    BY <1>2, RelayFrame
  <2>2. CASE PeerDrop /\ relay.peer # NoOne
    BY <2>1, <2>2, DisplayOfDrop
  <2>3. CASE PeerWrite /\ ~PeerDrop
    BY <2>1, <2>3, WrittenFields, DisplayOfSame DEF PeerWrite
  <2>4. CASE PeerRead /\ ~PeerDrop
    <3>1. PICK frame \in FromTerminal :
             /\ relay' = Received(frame) /\ relay.peer # NoOne /\ NoEvent /\ Understood(frame)
             /\ event' = IF frame \in {"commit", "bound", "error"} THEN frame ELSE "none"
      <4>1. Head(up[relay.peer]) \in FromTerminal
        BY <2>4, RelayIs, WiresAre DEF PeerRead
      <4>2. QED BY <2>4, <4>1 DEF PeerRead
    <3>2. /\ relay'.peer = relay.peer /\ relay'.generation = relay.generation
          /\ relay'.phase = (CASE frame = "commit" -> "repaint" [] frame = "bound" -> "attached"
                               [] OTHER -> relay.phase)
      BY <3>1, ReceivedFields
    <3>3. view = "none"
      BY <3>1 DEF DisplayInv
    <3>4. frame = "bound" => relay.phase = "accepted"
      BY <3>1 DEF Understood, Lines
    <3>5. QED BY <1>1, <2>1, <3>1, <3>2, <3>3, <3>4 DEF DisplayInv, NamesController, NoEvent
  <2>5. CASE MasterWrite
    BY <2>1, <2>5, MasterWriteFields, DisplayOfSame DEF MasterWrite
  <2>6. CASE MasterRead
    <3>1. relay' = relay \/ relay' = Presented
      BY <2>6 DEF MasterRead
    <3>2. QED BY <2>1, <2>6, <3>1, PresentedFields, DisplayOfSame DEF MasterRead
  <2>7. CASE Candidate /\ MayReserve
    <3>1. relay'.peer = reject.who /\ relay'.phase = "reserved"
      BY <2>7, ReservedFields DEF Candidate
    <3>2. view = "none" /\ (relay.peer = NoOne \/ NoEvent)
          /\ event' = IF relay.peer # NoOne THEN "detach" ELSE event
      BY <2>7 DEF Candidate, MayReserve, MayReplace
    <3>3. QED BY <1>1, <2>1, <3>1, <3>2 DEF DisplayInv, NamesController
  <2>8. CASE UNCHANGED <<relay, event>>
    BY <2>1, <2>8, DisplayOfSame
  <2>9. QED BY <1>2, <2>2, <2>3, <2>4, <2>5, <2>6, <2>7, <2>8 DEF RelayStep, PeerWrite, PeerHangup,
               PeerRead, Expire, RejectExpire, Accept, Candidate, CandidateReply, relayVars
<1>3. CASE OwnerStep
  <2>1. CASE Service
    <3>1. relay' = relay /\ event' = "none" /\ view' = view /\ engine' = engine /\ event # "none"
      BY <2>1 DEF Service
    <3>2. view = "none" /\ event \in {"commit", "bound", "detach", "error"}
      BY <3>1 DEF DisplayInv, RelayTypes
    <3>3. CASE event = "commit"
      BY <1>1, <2>1, <3>1, <3>2, <3>3 DEF Service, DisplayInv, NamesController, OwnerTypes, Displays
    <3>4. CASE event = "bound"
      BY <1>1, <2>1, <3>1, <3>2, <3>4 DEF Service, DisplayInv, NamesController, OwnerTypes, Displays
    <3>5. CASE event = "detach"
      BY <1>1, <2>1, <3>1, <3>2, <3>5 DEF Service, DisplayInv, NamesController, OwnerTypes, Displays
    <3>6. CASE event = "error"
      BY <1>1, <2>1, <3>1, <3>2, <3>6 DEF Service, DisplayInv, NamesController
    <3>7. QED BY <3>2, <3>3, <3>4, <3>5, <3>6
  <2>2. CASE ViewReserve
    <3>1. relay'.peer = relay.peer /\ relay'.phase = relay.phase /\ relay.peer = NoOne /\ event = "none"
          /\ event' = event /\ view = "none" /\ display' = display /\ engine' = engine
      BY <2>2 DEF ViewReserve, RelayTypes, Relays, NoEvent, ownerVars
    <3>2. QED BY <1>1, <3>1 DEF DisplayInv, NamesController
  <2>3. CASE ViewBind
    <3>1. relay' = relay /\ event = "none" /\ event' = event /\ view = "reserved" /\ engine' = engine
          /\ view' = "attached"
          /\ display'.attachment = relay.generation /\ display'.pending = 0
      BY <2>3 DEF ViewBind, NoEvent, relayVars, OwnerTypes, Displays
    <3>2. QED BY <1>1, <3>1 DEF DisplayInv, NamesController
  <2>4. CASE ViewRelease
    <3>1. /\ relay' = relay /\ event = "none" /\ event' = event /\ view # "none"
          /\ engine' = engine /\ view' = "none"
          /\ view = "attached" => display'.attachment = 0 /\ display'.pending = 0
          /\ view # "attached" => display' = display
      BY <2>4 DEF ViewRelease, Unleased, NoEvent, relayVars, OwnerTypes, Displays
    <3>2. QED BY <1>1, <3>1 DEF DisplayInv, NamesController
  <2>5. CASE Rebind
    <3>1. CASE Activatable(engine.generation) /\ relay.output = NoFrame
      <4>1. relay'.peer = relay.peer /\ relay'.phase = "accepted" /\ relay'.generation = relay.generation
        BY <2>5, <3>1, ActivatedFields DEF Rebind, Activate
      <4>2. engine.at = "rebind" /\ event = "none" /\ event' = event /\ view' = view
            /\ relay.phase = "repaint" /\ relay.peer # NoOne
            /\ display'.attachment = display.attachment /\ display'.pending = 0
        BY <2>5, <3>1 DEF Rebind, NoEvent, Activatable, OwnerTypes, Displays
      <4>3. QED BY <1>1, <4>1, <4>2 DEF DisplayInv, NamesController
    <3>2. CASE ~Activatable(engine.generation)
      BY <2>5, <3>2, DisplayOfSame DEF Rebind
    <3>3. CASE Activatable(engine.generation) /\ relay.output # NoFrame
      <4>1. UNCHANGED <<relay, event, view>> /\ engine.at = "rebind"
            /\ display'.attachment = display.attachment /\ display'.pending = display.pending
        BY <2>5, <3>3 DEF Rebind, Activate, OwnerTypes, Displays
      <4>2. QED BY <4>1 DEF DisplayInv, NamesController
    <3>4. QED BY <3>1, <3>2, <3>3
  <2>6. CASE Ready
    <3>1. UNCHANGED <<relay, event, view>> /\ engine.at = "ready"
          /\ display'.attachment = display.attachment /\ display'.pending = display.pending
      BY <2>6 DEF Ready, relayVars, OwnerTypes, Displays
    <3>2. QED BY <3>1 DEF DisplayInv, NamesController
  <2>7. CASE TakeLine
    <3>1. UNCHANGED <<relay, event>> /\ engine.at = "idle" /\ event = "none" /\ display.pending = 0
      BY <2>7 DEF TakeLine, relayVars, NoEvent
    <3>2. view' = view /\ display'.pending = display.pending
          /\ display'.attachment = display.attachment
      BY <2>7, <3>1 DEF TakeLine, OwnerTypes, Displays
    <3>3. QED BY <1>1, <3>1, <3>2 DEF DisplayInv, NamesController
  <2>8. CASE Control
    <3>1. UNCHANGED <<event, view>> /\ engine.at = "control" /\ event = "none"
      BY <2>8 DEF Control, NoEvent
    <3>2. CASE relay' = relay /\ display' = display
      BY <3>1, <3>2, DisplayOfSame
    <3>3. CASE relay' = Presented /\ display' = display
      BY <3>1, <3>3, PresentedFields, DisplayOfSame
    <3>4. CASE /\ relay' = ControlQueued(ControlType) /\ ~ControlRefused(ControlType)
               /\ display' = IF ControlType = "suspend" THEN [display EXCEPT !.attachment = 0] ELSE display
      <4>1. CASE ControlType = "suspend"
        <5>1. relay'.peer = relay.peer /\ relay'.phase = "reserved"
          BY <3>4, <4>1, QueuedFields
        <5>2. relay.phase = "attached"
          BY <3>4, <4>1 DEF ControlRefused
        <5>3. display'.attachment = 0 /\ display'.pending = display.pending
          BY <3>4, <4>1 DEF OwnerTypes, Displays
        <5>4. QED BY <3>1, <5>1, <5>2, <5>3 DEF DisplayInv, NamesController
      <4>2. CASE ControlType # "suspend"
        BY <3>1, <3>4, <4>2, QueuedFields, DisplayOfSame
      <4>3. QED BY <4>1, <4>2
    <3>5. QED BY <2>8, <3>2, <3>3, <3>4 DEF Control
  <2>9. CASE RelayClose
    BY <2>9, VacantIsFree DEF RelayClose, DisplayInv
  <2>10. CASE Write \/ TakePending \/ History \/ Flushed \/ GiveUp
    BY <2>10, DisplayOfSame DEF Write, TakePending, History, Flushed, GiveUp, relayVars, ownerVars
  <2>11. QED BY <1>3, <2>1, <2>2, <2>3, <2>4, <2>5, <2>6, <2>7, <2>8, <2>9, <2>10 DEF OwnerStep, EngineStep
<1>4. CASE \E c \in Terminals : TerminalStep(c)
  BY <1>4, TerminalFrame, DisplayOfSame
<1>5. QED BY <1>2, <1>3, <1>4 DEF Next
-----------------------------------------------------------------------------
HIDE AttachAssumption

(***************************************************************************)
(* What is on its way to a terminal.                                       *)
(***************************************************************************)
\* A sequence with one more.
LEMMA AppendIs ==
    ASSUME NEW S, NEW s \in Seq(S), NEW x \in S
    PROVE  /\ Len(s) \in Nat /\ Len(Append(s, x)) = Len(s) + 1
           /\ Append(s, x) # <<>>
           /\ \A k \in 1..Len(s) : Append(s, x)[k] = s[k]
           /\ Append(s, x)[Len(s) + 1] = x
BY AppendProperties, LenProperties

\* A sequence without its first.
LEMMA TailIs ==
    ASSUME NEW S, NEW s \in Seq(S), s # <<>>
    PROVE  /\ Len(s) \in Nat \ {0} /\ Len(Tail(s)) = Len(s) - 1
           /\ \A k \in 1..Len(s) - 1 : Tail(s)[k] = s[k + 1]
           /\ Head(s) = s[1]
BY HeadTailProperties, EmptySeq

\* The sequence that has nothing.
LEMMA EmptyIs == ASSUME NEW S, NEW s \in Seq(S) PROVE Len(s) \in Nat /\ (s = <<>> <=> Len(s) = 0)
BY EmptySeq, LenProperties

\* Nothing new is on its way.
LEMMA LegibleOfSame ==
    ASSUME NEW c \in Terminals, Legible(c), mode'[c] = mode[c], down'[c] = down[c],
           holding'[c] \in {holding[c], 0},
           mode[c] \in {"away", "refused", "reserving", "moving"} => up'[c] = <<>>
    PROVE  Legible(c)'
BY DEF Legible, Sent, FirstIsReady

\* Nothing is on its way once the terminal closed.
LEMMA LegibleOfClose ==
    ASSUME NEW c \in Terminals, TerminalTypes, WireTypes, Close(c)
    PROVE  Legible(c)'
<1>1. mode'[c] = "away" /\ up'[c] = <<>> /\ down'[c] = <<>> /\ holding'[c] = 0
  BY DEF Close, Enter, TerminalTypes, WireTypes
<1>2. Len(<<>>) = 0
  OBVIOUS
<1>3. QED BY <1>1, <1>2 DEF Legible

\* A frame is written behind the others.
LEMMA LegibleOfAppend ==
    ASSUME NEW c \in Terminals, WireTypes, Legible(c), NEW f \in ToTerminal,
           mode'[c] = mode[c], holding'[c] = holding[c], down'[c] = Append(down[c], f),
           mode[c] \in {"away", "refused", "reserving", "moving"} => up'[c] = <<>>,
           f.type \in Takes(mode[c]), f.type \in {"ready", "busy"} => down[c] = <<>>,
           ~Sent(c, {"busy"}), Sent(c, {"suspend"}) => f.type \in Ends,
           f.type = "output" => ~Sent(c, {"output"}) /\ holding[c] = 0
                                /\ (mode[c] = "committing" => FirstIsReady(c))
    PROVE  Legible(c)'
<1>1. down[c] \in Seq(ToTerminal)
  BY WiresAre
<1>2. /\ Len(down[c]) \in Nat /\ Len(down'[c]) = Len(down[c]) + 1 /\ down'[c] # <<>>
      /\ \A k \in 1..Len(down[c]) : down'[c][k] = down[c][k]
      /\ down'[c][Len(down[c]) + 1] = f
  BY <1>1, AppendIs
<1>3. down[c] = <<>> <=> Len(down[c]) = 0
  BY <1>1, EmptyIs
<1>4. \A k \in 1..Len(down'[c]) : k \in 1..Len(down[c]) \/ k = Len(down[c]) + 1
  BY <1>2
<1>5. FirstIsReady(c) => FirstIsReady(c)'
  BY <1>2, <1>3 DEF FirstIsReady
<1>6. holding[c] # 0 => ~Sent(c, {"output"})'
  BY <1>2, <1>4 DEF Legible, Sent
<1>7. ASSUME NEW k \in 1..Len(down'[c])
      PROVE  /\ down'[c][k].type \in Takes(mode[c])
             /\ down'[c][k].type = "ready" => k = 1
             /\ down'[c][k].type = "busy" => Len(down'[c]) = 1
             /\ down'[c][k].type = "output" =>
                   /\ \A j \in k + 1..Len(down'[c]) : down'[c][j].type # "output"
                   /\ mode[c] = "committing" => FirstIsReady(c)'
             /\ down'[c][k].type = "suspend" =>
                   \A j \in k + 1..Len(down'[c]) : down'[c][j].type \in Ends
  <2>1. CASE k = Len(down[c]) + 1
    <3>1. \A j \in k + 1..Len(down'[c]) : FALSE
      BY <1>2, <2>1
    <3>2. QED BY <1>2, <1>3, <1>5, <2>1, <3>1
  <2>2. CASE k \in 1..Len(down[c])
    <3>1. down'[c][k] = down[c][k]
      BY <1>2, <2>2
    <3>2. down[c][k].type = "suspend" => Sent(c, {"suspend"})
      BY <2>2 DEF Sent
    <3>3. down[c][k].type = "output" => Sent(c, {"output"})
      BY <2>2 DEF Sent
    <3>4. down[c][k].type # "busy"
      BY <2>2 DEF Sent
    <3>5. QED BY <1>2, <1>4, <1>5, <2>2, <3>1, <3>2, <3>3, <3>4 DEF Legible
  <2>3. QED BY <1>4, <2>1, <2>2
<1>8. QED BY <1>6, <1>7 DEF Legible

\* The first frame is read, and the terminal goes on to another mode.
LEMMA LegibleOfTail ==
    ASSUME NEW c \in Terminals, WireTypes, Legible(c), down[c] # <<>>, down'[c] = Tail(down[c]),
           mode'[c] \in {"away", "refused", "reserving", "moving"} => up'[c] = <<>>,
           holding'[c] # 0 => mode'[c] \in {"bound", "switching"} /\ down[c][1].type = "output",
           mode'[c] = "committing" => ~Sent(c, {"output"}),
           \A k \in 2..Len(down[c]) : down[c][k].type \notin {"ready", "busy"} => down[c][k].type \in Takes(mode'[c])
    PROVE  Legible(c)'
<1>1. /\ Len(down[c]) \in Nat \ {0} /\ Len(down'[c]) = Len(down[c]) - 1
      /\ \A k \in 1..Len(down[c]) - 1 : down'[c][k] = down[c][k + 1]
  BY WiresAre, TailIs
<1>2. \A k \in 2..Len(down[c]) : down[c][k].type \notin {"ready", "busy"}
  BY <1>1 DEF Legible
<1>3. holding'[c] # 0 => ~Sent(c, {"output"})'
  <2> SUFFICES ASSUME down[c][1].type = "output", NEW k \in 1..Len(down[c]) - 1
               PROVE  down[c][k + 1].type # "output"
    BY <1>1 DEF Sent
  <2>1. 1 \in 1..Len(down[c]) /\ k + 1 \in 2..Len(down[c])
    BY <1>1
  <2>2. QED BY <2>1 DEF Legible
<1>4. ASSUME NEW k \in 1..Len(down'[c])
      PROVE  /\ down'[c][k].type \in Takes(mode'[c])
             /\ down'[c][k].type \notin {"ready", "busy"}
             /\ down'[c][k].type = "output" =>
                   /\ \A j \in k + 1..Len(down'[c]) : down'[c][j].type # "output"
                   /\ mode'[c] # "committing"
             /\ down'[c][k].type = "suspend" =>
                   \A j \in k + 1..Len(down'[c]) : down'[c][j].type \in Ends
  <2>1. k + 1 \in 2..Len(down[c]) /\ k + 1 \in 1..Len(down[c]) /\ down'[c][k] = down[c][k + 1]
    BY <1>1
  <2>2. \A j \in k + 1..Len(down'[c]) : j + 1 \in (k + 1) + 1..Len(down[c]) /\ down'[c][j] = down[c][j + 1]
    BY <1>1
  <2>3. down'[c][k].type = "output" => Sent(c, {"output"})
    BY <2>1 DEF Sent
  <2>4. QED BY <1>2, <2>1, <2>2, <2>3 DEF Legible
<1>5. QED BY <1>3, <1>4 DEF Legible

\* The terminal goes on to a mode that takes the same frames and more.
LEMMA LegibleOfMode ==
    ASSUME NEW c \in Terminals, Legible(c), down'[c] = down[c], holding'[c] = holding[c],
           mode'[c] \notin {"away", "refused"} /\ (mode'[c] \in {"reserving", "moving"} => up'[c] = <<>>),
           holding[c] # 0 => mode'[c] \in {"bound", "switching"},
           Takes(mode[c]) \subseteq Takes(mode'[c]),
           mode'[c] = "committing" => ~Sent(c, {"output"})
    PROVE  Legible(c)'
BY DEF Legible, Sent, FirstIsReady

\* What a terminal in each mode has been sent.
LEMMA SentIs ==
    ASSUME NEW c \in Terminals, WireTypes, Legible(c), down[c] # <<>>
    PROVE  /\ down[c][1].type \in Takes(mode[c])
           /\ \A k \in 2..Len(down[c]) : down[c][k].type \in Takes(mode[c]) \ {"ready", "busy"}
           /\ Head(down[c]) = down[c][1]
           /\ down[c][1].type = "output" => \A k \in 2..Len(down[c]) : down[c][k].type # "output"
           /\ down[c][1].type = "suspend" => OnlySent(c, {"suspend"} \cup Ends)
           /\ down[c][1].type = "suspend" => \A k \in 2..Len(down[c]) : down[c][k].type \in Ends
           /\ down[c][1].type = "busy" => Len(down[c]) = 1
<1>1. Len(down[c]) \in Nat \ {0} /\ Head(down[c]) = down[c][1]
  BY WiresAre, TailIs
<1>2. 1 \in 1..Len(down[c]) /\ 2..Len(down[c]) \subseteq 1..Len(down[c])
  BY <1>1
<1>3. \A n \in Nat : /\ \A k \in 1..n : k = 1 \/ k \in 2..n
                     /\ \A k \in 2..n : k # 1 /\ n # 1
  OBVIOUS
<1>4. \A n \in Nat : 1 + 1..n = 2..n
  OBVIOUS
<1>5. QED BY <1>1, <1>2, <1>3, <1>4 DEF Legible, OnlySent

\* A terminal that steps can take what is still on its way to it.
LEMMA LegibleStepOfTerminal ==
    ASSUME AttachTypeOK, NEW c \in Terminals, TerminalStep(c), Legible(c)
    PROVE  Legible(c)'
<1> USE DEF AttachTypeOK
<1>0. mode[c] \in Modes
  BY DEF TerminalTypes
<1>1. CASE Close(c)
  BY <1>1, LegibleOfClose
<1>2. CASE Attach(c)
  <2>1. mode[c] \in {"away", "refused"} /\ mode'[c] \in {"reserving", "moving"}
        /\ down' = down /\ up' = up /\ holding' = holding
    BY <1>2 DEF Attach, Enter, wireVars, TerminalTypes
  <2>2. up[c] = <<>> /\ down[c] = <<>>
    BY <2>1, SilentIsEmpty
  <2>3. Takes(mode[c]) = {}
    BY <2>1 DEF Takes
  <2>4. holding[c] = 0
    BY <2>1 DEF Legible
  <2>5. QED BY <2>1, <2>2, <2>3, <2>4, LegibleOfMode
<1>3. CASE TargetRead(c) /\ ~Close(c)
  <2>1. /\ mode[c] \in {"reserving", "moving", "committing"} /\ down[c] # <<>> /\ holding' = holding
        /\ down' = [down EXCEPT ![c] = Tail(down[c])]
    BY <1>3 DEF TargetRead
  <2>2. down'[c] = Tail(down[c]) /\ holding'[c] = 0
    BY <2>1 DEF WireTypes, Legible
  <2>3. CASE mode[c] # "committing" /\ mode'[c] = "committing"
    <3>1. \A k \in 1..Len(down[c]) : down[c][k].type \in {"ready", "busy"} \cup Ends
      BY <2>1, <2>3 DEF Legible, Takes
    <3>2. ~Sent(c, {"output"})
      BY <3>1 DEF Sent, Ends
    <3>3. \A k \in 2..Len(down[c]) : down[c][k].type \in Takes(mode'[c])
      BY <2>1, <2>3, SentIs DEF Takes
    <3>4. QED BY <2>1, <2>2, <2>3, <3>2, <3>3, LegibleOfTail
  <2>4. CASE mode[c] = "committing" /\ mode'[c] = "ready"
    <3>1. \A k \in 2..Len(down[c]) : down[c][k].type \in Takes(mode'[c])
      BY <2>1, <2>4, SentIs DEF Takes
    <3>2. QED BY <2>1, <2>2, <2>4, <3>1, LegibleOfTail
  <2>5. CASE mode[c] = "reserving" /\ mode'[c] = "refused" /\ up' = up /\ Head(down[c]).type = "busy"
    <3>1. Len(down[c]) = 1
      BY <2>1, <2>5, SentIs
    <3>2. \A k \in 2..Len(down[c]) : FALSE
      BY <3>1
    <3>3. up'[c] = <<>>
      BY <2>5 DEF Legible
    <3>4. QED BY <2>1, <2>2, <2>5, <3>2, <3>3, LegibleOfTail
  <2>6. QED BY <1>3, <2>1, <2>3, <2>4, <2>5 DEF TargetRead, Enter, TerminalTypes
<1>4. CASE Bind(c) \/ SwitchFails(c) \/ Continue(c) \/ SwitchAccepted(c)
  <2>1. /\ mode[c] \in {"ready", "switching", "suspended"} /\ holding' = holding /\ down' = down
        /\ mode'[c] \in {"bound", "draining", "committing"}
        /\ mode'[c] = "committing" => mode[c] = "suspended"
        /\ mode[c] = "suspended" => mode'[c] = "committing"
        /\ mode[c] = "switching" => mode'[c] = "bound" \/ holding[c] = 0
        /\ mode[c] = "ready" => mode'[c] = "bound"
    BY <1>4 DEF Bind, SwitchFails, Continue, SwitchAccepted, Enter, TerminalTypes, Holding, wireVars
  <2>2. Takes(mode[c]) \subseteq Takes(mode'[c])
    BY <2>1 DEF Takes
  <2>3. mode[c] = "suspended" => ~Sent(c, {"output"})
    BY DEF Legible, Takes, Sent, Ends
  <2>4. holding[c] # 0 => mode'[c] \in {"bound", "switching"}
    BY <2>1 DEF Legible
  <2>5. QED BY <2>1, <2>2, <2>3, <2>4, LegibleOfMode
<1>5. CASE Show(c) \/ \E line \in Typed : Type(c, line)
  <2>1. mode' = mode /\ down' = down /\ holding'[c] \in {holding[c], 0} /\ mode[c] \in {"bound", "switching"}
    BY <1>5 DEF Show, Type, TerminalTypes, rest
  <2>2. QED BY <2>1, LegibleOfSame
<1>6. CASE ReadOutput(c) /\ ~Close(c)
  <2>1. /\ mode[c] \in {"bound", "switching"} /\ down[c] # <<>> /\ mode' = mode
        /\ Head(down[c]).type = "output" /\ down' = [down EXCEPT ![c] = Tail(down[c])]
    BY <1>6 DEF ReadOutput
  <2>2. down'[c] = Tail(down[c])
    BY <2>1 DEF WireTypes
  <2>3. QED BY <2>1, <2>2, SentIs, LegibleOfTail
<1>7. CASE ReadControl(c) /\ ~Close(c)
  <2>1. /\ mode[c] \in {"bound", "switching"} /\ down[c] # <<>> /\ holding' = holding /\ holding[c] = 0
        /\ down' = [down EXCEPT ![c] = Tail(down[c])]
        /\ \/ mode'[c] = "switching"
           \/ mode'[c] = "suspended" /\ Head(down[c]).type = "suspend"
    BY <1>7 DEF ReadControl, Enter, TerminalTypes, Holding
  <2>2. down'[c] = Tail(down[c])
    BY <2>1 DEF WireTypes
  <2>3. \A k \in 2..Len(down[c]) : down[c][k].type \in Takes(mode'[c])
    BY <2>1, SentIs DEF Takes
  <2>4. QED BY <2>1, <2>2, <2>3, LegibleOfTail
<1>8. CASE Drain(c)
  <2>1. mode[c] = "draining" /\ mode' = mode /\ down[c] # <<>> /\ holding' = holding
        /\ down' = [down EXCEPT ![c] = Tail(down[c])]
    BY <1>8 DEF Drain
  <2>2. down'[c] = Tail(down[c]) /\ holding[c] = 0
    BY <2>1 DEF WireTypes, Legible
  <2>3. QED BY <2>1, <2>2, SentIs, LegibleOfTail
<1>9. QED BY <1>1, <1>2, <1>3, <1>4, <1>5, <1>6, <1>7, <1>8 DEF TerminalStep, Leave, ReadEnd

\* Every step leaves each terminal able to take what is on its way to it.
LEMMA LegibleStep ==
    ASSUME AttachmentInv, Next
    PROVE  \A c \in Terminals : Legible(c)'
<1> USE DEF AttachTypeOK, AttachmentInv
<1>1. CASE \E c \in Terminals : TerminalStep(c)
  <2> SUFFICES ASSUME NEW c \in Terminals, TerminalStep(c), NEW t \in Terminals PROVE Legible(t)'
    BY <1>1
  <2>1. CASE t = c
    BY <2>1, LegibleStepOfTerminal
  <2>2. CASE t # c
    <3>1. mode'[t] = mode[t] /\ holding'[t] = holding[t] /\ up'[t] = up[t] /\ down'[t] = down[t]
      BY <2>2, TerminalAlone
    <3>2. QED BY <3>1, LegibleOfSame DEF Legible
  <2>3. QED BY <2>1, <2>2
<1>2. CASE RelayStep \/ OwnerStep
  <2> SUFFICES ASSUME NEW t \in Terminals PROVE Legible(t)'
    OBVIOUS
  <2>1. mode' = mode /\ holding' = holding
    BY <1>2, RelayFrame, OwnerFrame
  <2>2. CASE down'[t] = down[t] /\ (up'[t] = up[t] \/ up'[t] = <<>>)
    BY <2>1, <2>2, LegibleOfSame DEF Legible
  <2>3. CASE PeerWrite
    <3>1. CASE t = relay.peer /\ mode[t] # "away"
      <4>1. down'[t] = Append(down[t], relay.output) /\ relay.output # NoFrame
            /\ (up'[t] = up[t] \/ up'[t] = <<>>)
        BY <2>3, <3>1 DEF PeerWrite, PeerDrop, WireTypes
      <4>2. relay.output \in ToTerminal /\ relay.output.type \notin {"none", "busy"}
        BY <4>1, RelayIs DEF PhaseInv, Writes, Ends, Phases
      <4>3. Dialogue(t) /\ Acks(t) /\ Legible(t) /\ Peer(t)
        BY <3>1 DEF Peer
      <4>4. ~Sent(t, {"busy"})
        <5>1. CASE mode[t] \in {"reserving", "moving"}
          BY <2>3, <4>3, <5>1, RelayIs DEF Dialogue, InReservation, InSuspension, InRepaint, InAcceptance,
             InAttachment, PhaseInv, PeerWrite, Phases
        <5>2. CASE mode[t] \notin {"reserving", "moving"}
          BY <4>3, <5>2 DEF Legible, Takes, Sent, Ends, TerminalTypes, Modes
        <5>3. QED BY <5>1, <5>2
      <4>5. relay.output.type \in Takes(mode[t]) /\ (relay.output.type = "ready" => down[t] = <<>>)
            /\ (Sent(t, {"suspend"}) => relay.output.type \in Ends)
            /\ (relay.output.type = "output" /\ mode[t] = "committing" => FirstIsReady(t))
        BY <4>2, <4>3 DEF Dialogue
      <4>6. relay.output.type = "output" => ~Sent(t, {"output"}) /\ holding[t] = 0
        BY <4>3 DEF Acks
      <4>7. mode[t] \in {"away", "refused", "reserving", "moving"} => up'[t] = <<>>
        BY <4>1, <4>3 DEF Legible
      <4>8. QED BY <2>1, <4>1, <4>2, <4>3, <4>4, <4>5, <4>6, <4>7, LegibleOfAppend
    <3>2. CASE ~(t = relay.peer /\ mode[t] # "away")
      <4>1. down'[t] = down[t] /\ (up'[t] = up[t] \/ up'[t] = <<>>)
        BY <2>3, <3>2 DEF PeerWrite, PeerDrop, WireTypes
      <4>2. QED BY <2>2, <4>1
    <3>3. QED BY <3>1, <3>2
  <2>4. CASE CandidateReply
    <3>1. CASE t = reject.who /\ mode[t] # "away"
      <4>1. down'[t] = Append(down[t], Frame("busy")) /\ up' = up
        BY <2>4, <3>1 DEF CandidateReply, WireTypes
      <4>2. mode[t] \in {"reserving", "moving"} /\ down[t] = <<>>
        BY <3>1 DEF CallersInv
      <4>3. Len(down[t]) = 0
        BY <4>2
      <4>4. ~Sent(t, {"busy"}) /\ ~Sent(t, {"suspend"})
        BY <4>3 DEF Sent
      <4>5. Frame("busy") \in ToTerminal /\ Frame("busy").type = "busy" /\ "busy" \in Takes(mode[t])
        BY <4>2, FramesAre DEF Frame, Takes, Controls
      <4>6. up'[t] = <<>>
        BY <4>1, <4>2 DEF Legible
      <4>7. QED BY <2>1, <4>1, <4>2, <4>4, <4>5, <4>6, LegibleOfAppend
    <3>2. CASE ~(t = reject.who /\ mode[t] # "away")
      <4>1. down'[t] = down[t] /\ up' = up
        BY <2>4, <3>2 DEF CandidateReply, WireTypes
      <4>2. QED BY <2>2, <4>1
    <3>3. QED BY <3>1, <3>2
  <2>5. CASE PeerRead /\ ~PeerDrop
    <3>1. down' = down /\ up' = [up EXCEPT ![relay.peer] = Tail(up[relay.peer])] /\ up[relay.peer] # <<>>
      BY <2>5 DEF PeerRead
    <3>2. mode[t] \in {"away", "refused", "reserving", "moving"} => up'[t] = <<>>
      BY <3>1 DEF Legible, WireTypes
    <3>3. QED BY <2>1, <3>1, <3>2, LegibleOfSame
  <2>6. CASE PeerDrop /\ down' = down
    BY <2>2, <2>6 DEF PeerDrop, WireTypes
  <2>7. CASE RejectExpire \/ Candidate \/ RelayClose
    BY <2>2, <2>7 DEF RejectExpire, Candidate, RelayClose, WireTypes
  <2>8. CASE down' = down /\ up' = up
    BY <2>2, <2>8
  <2>9. CASE RelayStep
    BY <2>3, <2>4, <2>5, <2>6, <2>7, <2>8, <2>9 DEF RelayStep, PeerHangup, PeerRead, Expire, MasterWrite,
       MasterRead, Accept, wireVars
  <2>10. CASE OwnerStep
    BY <2>7, <2>8, <2>10, OwnerFrame
  <2>11. QED BY <1>2, <2>9, <2>10
<1>3. QED BY <1>1, <1>2 DEF Next

(***************************************************************************)
(* What the frames of a socket say, whoever reads them.                    *)
(***************************************************************************)
Types(d)      == {d[k].type : k \in 1..Len(d)}
AllSaid(u)    == \A k \in 1..Len(u) : u[k] \in Said
BoundFirst(u) == u # <<>> /\ u[1] = "bound" /\ \A k \in 2..Len(u) : u[k] \in Said
CommitLast(u) == u # <<>> /\ u[Len(u)] = "commit" /\ \A k \in 1..Len(u) - 1 : u[k] \in Said
HasAck(u)     == \E k \in 1..Len(u) : u[k] = "ack"
Once(u)       == \A j, k \in 1..Len(u) : u[j] = "ack" /\ u[k] = "ack" => j = k
ReadyFirst(d) == d # <<>> /\ d[1].type = "ready"

\* Where nothing was said.
LEMMA NothingSaid ==
    /\ AllSaid(<<>>) /\ ~HasAck(<<>>) /\ Once(<<>>) /\ Types(<<>>) = {}
    /\ ~ReadyFirst(<<>>) /\ ~BoundFirst(<<>>) /\ ~CommitLast(<<>>)
<1>1. 1..Len(<<>>) = {}
  OBVIOUS
<1>2. QED BY <1>1 DEF AllSaid, HasAck, Once, Types, ReadyFirst, BoundFirst, CommitLast

\* Where a commit is all that was said.
LEMMA OneCommit ==
    Head(<<"commit">>) = "commit" /\ Tail(<<"commit">>) = <<>> /\ ~HasAck(<<"commit">>)
    /\ Once(<<"commit">>) /\ <<"commit">> # <<>>
<1>1. Len(<<"commit">>) = 1 /\ <<"commit">>[1] = "commit" /\ \A k \in 1..1 : k = 1
  OBVIOUS
<1>2. Head(<<"commit">>) = "commit" /\ Tail(<<"commit">>) = <<>> /\ <<"commit">> # <<>>
  OBVIOUS
<1>3. QED BY <1>1, <1>2 DEF HasAck, Once

\* One more frame from a terminal.
LEMMA SaidMore ==
    ASSUME NEW u \in Seq(FromTerminal), NEW f \in FromTerminal
    PROVE  /\ AllSaid(u) /\ f \in Said => AllSaid(Append(u, f))
           /\ BoundFirst(u) /\ f \in Said => BoundFirst(Append(u, f))
           /\ AllSaid(u) /\ f = "commit" => CommitLast(Append(u, f))
           /\ u = <<>> /\ f = "bound" => BoundFirst(Append(u, f))
           /\ u = <<>> /\ f = "commit" => Append(u, f) = <<"commit">>
           /\ HasAck(Append(u, f)) <=> HasAck(u) \/ f = "ack"
           /\ Once(u) /\ (f = "ack" => ~HasAck(u)) => Once(Append(u, f))
<1>1. /\ Len(u) \in Nat /\ Len(Append(u, f)) = Len(u) + 1 /\ Append(u, f) # <<>>
      /\ \A k \in 1..Len(u) : Append(u, f)[k] = u[k]
      /\ Append(u, f)[Len(u) + 1] = f
  BY AppendIs
<1>2. \A k \in 1..Len(u) + 1 : k \in 1..Len(u) \/ k = Len(u) + 1
  BY <1>1
<1>3. u = <<>> <=> Len(u) = 0
  BY EmptyIs
<1>4. Len(u) + 1 \in 1..Len(u) + 1 /\ \A k \in 1..Len(u) : k \in 1..Len(u) + 1
  BY <1>1
<1>5. AllSaid(u) /\ f \in Said => AllSaid(Append(u, f))
  BY <1>1, <1>2 DEF AllSaid
<1>6. BoundFirst(u) /\ f \in Said => BoundFirst(Append(u, f))
  BY <1>1, <1>2, <1>3 DEF BoundFirst
<1>7. AllSaid(u) /\ f = "commit" => CommitLast(Append(u, f))
  BY <1>1 DEF AllSaid, CommitLast
<1>8. u = <<>> /\ f = "bound" => BoundFirst(Append(u, f))
  BY <1>1, <1>3 DEF BoundFirst
<1>9. u = <<>> /\ f = "commit" => Append(u, f) = <<"commit">>
  OBVIOUS
<1>10. HasAck(Append(u, f)) <=> HasAck(u) \/ f = "ack"
  BY <1>1, <1>2, <1>4 DEF HasAck
<1>11. Once(u) /\ (f = "ack" => ~HasAck(u)) => Once(Append(u, f))
  BY <1>1, <1>2 DEF HasAck, Once
<1>12. QED BY <1>5, <1>6, <1>7, <1>8, <1>9, <1>10, <1>11

\* The first frame from a terminal is read.
LEMMA SaidLess ==
    ASSUME NEW u \in Seq(FromTerminal), u # <<>>
    PROVE  /\ AllSaid(u) => Head(u) \in Said /\ AllSaid(Tail(u))
           /\ BoundFirst(u) => Head(u) = "bound" /\ AllSaid(Tail(u))
           /\ CommitLast(u) => \/ Head(u) = "commit" /\ Tail(u) = <<>> /\ ~HasAck(u)
                               \/ Head(u) \in Said /\ CommitLast(Tail(u))
           /\ HasAck(u) <=> Head(u) = "ack" \/ HasAck(Tail(u))
           /\ Once(u) => Once(Tail(u)) /\ (Head(u) = "ack" => ~HasAck(Tail(u)))
<1>1. /\ Len(u) \in Nat \ {0} /\ Len(Tail(u)) = Len(u) - 1
      /\ \A k \in 1..Len(u) - 1 : Tail(u)[k] = u[k + 1]
      /\ Head(u) = u[1]
  BY TailIs
<1>2. 1 \in 1..Len(u) /\ \A k \in 1..Len(u) - 1 : k + 1 \in 1..Len(u) /\ k + 1 \in 2..Len(u) /\ k + 1 # 1
  BY <1>1
<1>3. \A k \in 1..Len(u) : k = 1 \/ (k - 1 \in 1..Len(u) - 1 /\ (k - 1) + 1 = k)
  BY <1>1
<1>4. Tail(u) \in Seq(FromTerminal)
  BY HeadTailProperties
<1>5. Tail(u) = <<>> <=> Len(u) = 1
  BY <1>1, <1>4, EmptyIs
<1>6. AllSaid(u) => Head(u) \in Said /\ AllSaid(Tail(u))
  BY <1>1, <1>2 DEF AllSaid
<1>7. BoundFirst(u) => Head(u) = "bound" /\ AllSaid(Tail(u))
  BY <1>1, <1>2 DEF BoundFirst, AllSaid
<1>8. CommitLast(u) => \/ Head(u) = "commit" /\ Tail(u) = <<>> /\ ~HasAck(u)
                       \/ Head(u) \in Said /\ CommitLast(Tail(u))
  <2>1. CASE Len(u) = 1
    BY <1>1, <1>5, <2>1 DEF CommitLast, HasAck
  <2>2. CASE Len(u) # 1
    <3>1. 1 \in 1..Len(u) - 1 /\ Tail(u)[Len(u) - 1] = u[Len(u)]
      BY <1>1, <2>2
    <3>2. \A k \in 1..(Len(u) - 1) - 1 : Tail(u)[k] = u[k + 1] /\ k + 1 \in 1..Len(u) - 1
      BY <1>1
    <3>3. QED BY <1>1, <1>5, <2>2, <3>1, <3>2 DEF CommitLast
  <2>3. QED BY <2>1, <2>2
<1>9. HasAck(u) <=> Head(u) = "ack" \/ HasAck(Tail(u))
  BY <1>1, <1>2, <1>3 DEF HasAck
<1>10. Once(u) => Once(Tail(u)) /\ (Head(u) = "ack" => ~HasAck(Tail(u)))
  <2>1. Once(u) => Once(Tail(u))
    <3> SUFFICES ASSUME Once(u), NEW j \in 1..Len(u) - 1, NEW k \in 1..Len(u) - 1, Tail(u)[j] = "ack", Tail(u)[k] = "ack"
                 PROVE  j = k
      BY <1>1 DEF Once
    <3>1. j + 1 = k + 1
      BY <1>1, <1>2 DEF Once
    <3>2. QED BY <3>1
  <2>2. Once(u) /\ Head(u) = "ack" => ~HasAck(Tail(u))
    BY <1>1, <1>2 DEF HasAck, Once
  <2>3. QED BY <2>1, <2>2
<1>11. QED BY <1>6, <1>7, <1>8, <1>9, <1>10

\* One more frame to a terminal.
LEMMA SentMore ==
    ASSUME NEW d \in Seq(ToTerminal), NEW f \in ToTerminal
    PROVE  /\ Types(Append(d, f)) = Types(d) \cup {f.type}
           /\ d # <<>> => (ReadyFirst(Append(d, f)) <=> ReadyFirst(d))
           /\ d = <<>> => (ReadyFirst(Append(d, f)) <=> f.type = "ready")
<1>1. /\ Len(d) \in Nat /\ Len(Append(d, f)) = Len(d) + 1 /\ Append(d, f) # <<>>
      /\ \A k \in 1..Len(d) : Append(d, f)[k] = d[k]
      /\ Append(d, f)[Len(d) + 1] = f
  BY AppendIs
<1>2. \A k \in 1..Len(d) + 1 : k \in 1..Len(d) \/ k = Len(d) + 1
  BY <1>1
<1>3. d = <<>> <=> Len(d) = 0
  BY EmptyIs
<1>4. Len(d) + 1 \in 1..Len(d) + 1 /\ \A k \in 1..Len(d) : k \in 1..Len(d) + 1
  BY <1>1
<1>5. Types(Append(d, f)) = Types(d) \cup {f.type}
  <2>1. \A x : x \in Types(Append(d, f)) <=> x \in Types(d) \cup {f.type}
    BY <1>1, <1>2, <1>4 DEF Types
  <2>2. QED BY <2>1
<1>6. d # <<>> => 1 \in 1..Len(d)
  BY <1>1, <1>3
<1>7. QED BY <1>1, <1>3, <1>5, <1>6 DEF ReadyFirst

\* The first frame to a terminal is read.
LEMMA SentLess ==
    ASSUME NEW d \in Seq(ToTerminal), d # <<>>
    PROVE  /\ Types(d) = Types(Tail(d)) \cup {Head(d).type}
           /\ Head(d).type = d[1].type
           /\ \A k \in 2..Len(d) : d[k].type \in Types(Tail(d))
           /\ \A x \in Types(Tail(d)) : \E k \in 2..Len(d) : d[k].type = x
<1>1. /\ Len(d) \in Nat \ {0} /\ Len(Tail(d)) = Len(d) - 1
      /\ \A k \in 1..Len(d) - 1 : Tail(d)[k] = d[k + 1]
      /\ Head(d) = d[1]
  BY TailIs
<1>2. 1 \in 1..Len(d) /\ \A k \in 1..Len(d) - 1 : k + 1 \in 1..Len(d) /\ k + 1 \in 2..Len(d)
  BY <1>1
<1>3. /\ \A k \in 1..Len(d) : k = 1 \/ (k - 1 \in 1..Len(d) - 1 /\ (k - 1) + 1 = k)
      /\ \A k \in 2..Len(d) : k - 1 \in 1..Len(d) - 1 /\ (k - 1) + 1 = k
  BY <1>1
<1>4. \A x : x \in Types(d) <=> x \in Types(Tail(d)) \cup {Head(d).type}
  BY <1>1, <1>2, <1>3 DEF Types
<1>5. \A k \in 2..Len(d) : d[k].type \in Types(Tail(d))
  BY <1>1, <1>3 DEF Types
<1>6. \A x \in Types(Tail(d)) : \E k \in 2..Len(d) : d[k].type = x
  BY <1>1, <1>2 DEF Types
<1>7. QED BY <1>1, <1>4, <1>5, <1>6

\* Nothing is on its way when no type of frame is.
LEMMA SilentIs == ASSUME NEW d \in Seq(ToTerminal) PROVE d = <<>> <=> Types(d) = {}
<1>1. Len(d) \in Nat /\ (d = <<>> <=> Len(d) = 0)
  BY EmptyIs
<1>2. d # <<>> => 1 \in 1..Len(d)
  BY <1>1
<1>3. QED BY <1>1, <1>2, NothingSaid DEF Types

(***************************************************************************)
(* The conversation of the relay with its peer: the peer's mode, the       *)
(* output it holds, what each has sent the other, and the relay.           *)
(***************************************************************************)
Reserves(m, u, d, r) ==
    \/ m \in {"reserving", "moving"} /\ "busy" \notin Types(d)
    \/ m = "committing" /\ u = <<"commit">> /\ r.output.type # "ready" /\ d = <<>>
Accepts(m, u, d, r) ==
    \/ m = "committing" /\ u = <<>> /\ (r.output.type = "ready" \/ ReadyFirst(d))
    \/ m = "ready" /\ u = <<>> /\ r.output.type # "ready"
    \/ m = "bound" /\ BoundFirst(u) /\ r.output.type # "ready" /\ Types(d) \subseteq {"output"}
Suspends(m, u, d, r) ==
    \/ m \in {"bound", "switching", "draining", "suspended"} /\ AllSaid(u)
    \/ m = "committing" /\ CommitLast(u) /\ d = <<>> /\ r.output.type # "suspend"

Talk(m, u, d, r) ==
    /\ r.phase = "reserved" /\ r.handshake  => Reserves(m, u, d, r)
    /\ r.phase = "reserved" /\ ~r.handshake => Suspends(m, u, d, r)
    /\ r.phase = "repaint"  => m = "committing" /\ u = <<>> /\ d = <<>>
    /\ r.phase = "accepted" => Accepts(m, u, d, r)
    /\ r.phase = "attached" =>
          m \in {"bound", "switching", "draining"} /\ "suspend" \notin Types(d) /\ AllSaid(u)
    /\ Types(d) \cap Ends = {}
    /\ r.output.type = "ready" => d = <<>>
    /\ r.output.type # "none" => r.output.type \in Takes(m)
    /\ "suspend" \in Types(d) => r.output.type \in {"none"} \cup Ends
    /\ r.output.type = "output" /\ m = "committing" => ReadyFirst(d)

Owes(m, h, u, d, r) ==
    /\ Once(u)
    /\ HasAck(u) => "output" \notin Types(d) /\ h = 0 /\ r.output.type # "output"
    /\ "output" \in Types(d) \/ h # 0 => r.output.type # "output"
    /\ HasAck(u) \/ "output" \in Types(d) \/ h # 0 \/ r.output.type = "output" => r.unacked
    /\ r.unacked /\ m # "draining" =>
          HasAck(u) \/ "output" \in Types(d) \/ h # 0 \/ r.output.type = "output"

\* What was sent, by the types of the frames.
LEMMA SentTypes ==
    ASSUME NEW c \in Terminals, NEW T
    PROVE  /\ Sent(c, T) <=> \E x \in T : x \in Types(down[c])
           /\ Sent(c, T)' <=> \E x \in T : x \in Types(down'[c])
           /\ OnlySent(c, T) <=> Types(down[c]) \subseteq T
           /\ OnlySent(c, T)' <=> Types(down'[c]) \subseteq T
BY DEF Sent, OnlySent, Types

\* The conversation is Talk, before and after a step.
LEMMA TalkIs ==
    ASSUME NEW c \in Terminals
    PROVE  /\ Dialogue(c) <=> (Peer(c) => Talk(mode[c], up[c], down[c], relay))
           /\ Dialogue(c)' <=> (Peer(c)' => Talk(mode'[c], up'[c], down'[c], relay'))
<1>1. /\ Sent(c, {"busy"}) <=> "busy" \in Types(down[c])
      /\ Sent(c, {"suspend"}) <=> "suspend" \in Types(down[c])
      /\ Sent(c, Ends) <=> Types(down[c]) \cap Ends # {}
      /\ OnlySent(c, {"output"}) <=> Types(down[c]) \subseteq {"output"}
  BY SentTypes
<1>2. /\ Sent(c, {"busy"})' <=> "busy" \in Types(down'[c])
      /\ Sent(c, {"suspend"})' <=> "suspend" \in Types(down'[c])
      /\ Sent(c, Ends)' <=> Types(down'[c]) \cap Ends # {}
      /\ OnlySent(c, {"output"})' <=> Types(down'[c]) \subseteq {"output"}
  BY SentTypes
<1>3. Dialogue(c) <=> (Peer(c) => Talk(mode[c], up[c], down[c], relay))
  BY <1>1 DEF Dialogue, Talk, InReservation, InRepaint, InAcceptance, InAttachment, InSuspension,
     Reserves, Accepts, Suspends, AllSaid, BoundFirst, CommitLast, ReadyFirst, FirstIsReady
<1>4. Dialogue(c)' <=> (Peer(c)' => Talk(mode'[c], up'[c], down'[c], relay'))
  BY <1>2 DEF Dialogue, Talk, InReservation, InRepaint, InAcceptance, InAttachment, InSuspension,
     Reserves, Accepts, Suspends, AllSaid, BoundFirst, CommitLast, ReadyFirst, FirstIsReady
<1>5. QED BY <1>3, <1>4

\* The acknowledgements are Owes, before and after a step.
LEMMA OwesIs ==
    ASSUME NEW c \in Terminals
    PROVE  /\ Acks(c) <=> (Peer(c) => Owes(mode[c], holding[c], up[c], down[c], relay))
           /\ Acks(c)' <=> (Peer(c)' => Owes(mode'[c], holding'[c], up'[c], down'[c], relay'))
<1>1. /\ Sent(c, {"output"}) <=> "output" \in Types(down[c])
      /\ Sent(c, {"output"})' <=> "output" \in Types(down'[c])
  BY SentTypes
<1>2. Acks(c) <=> (Peer(c) => Owes(mode[c], holding[c], up[c], down[c], relay))
  BY <1>1 DEF Acks, Owes, Once, HasAck, Acked
<1>3. Acks(c)' <=> (Peer(c)' => Owes(mode'[c], holding'[c], up'[c], down'[c], relay'))
  BY <1>1 DEF Acks, Owes, Once, HasAck, Acked
<1>4. QED BY <1>2, <1>3

\* What a terminal can take next, whoever it is connected to.
LEMMA LegibleIs ==
    ASSUME NEW c \in Terminals, WireTypes, Legible(c)
    PROVE  /\ Types(down[c]) \subseteq Takes(mode[c])
           /\ mode[c] \in {"away", "refused", "reserving", "moving"} => up[c] = <<>>
           /\ holding[c] # 0 => mode[c] \in {"bound", "switching"} /\ "output" \notin Types(down[c])
           /\ down[c] # <<>> =>
                 /\ Types(Tail(down[c])) \cap {"ready", "busy"} = {}
                 /\ Head(down[c]).type = "output" => "output" \notin Types(Tail(down[c]))
                 /\ Head(down[c]).type = "suspend" => Types(Tail(down[c])) \subseteq Ends
<1>1. Types(down[c]) \subseteq Takes(mode[c])
  BY DEF Types, Legible
<1>2. holding[c] # 0 => mode[c] \in {"bound", "switching"} /\ "output" \notin Types(down[c])
  BY SentTypes DEF Legible
<1>3. ASSUME down[c] # <<>>
      PROVE  /\ Types(Tail(down[c])) \cap {"ready", "busy"} = {}
             /\ Head(down[c]).type = "output" => "output" \notin Types(Tail(down[c]))
             /\ Head(down[c]).type = "suspend" => Types(Tail(down[c])) \subseteq Ends
  <2>1. down[c] \in Seq(ToTerminal)
    BY WiresAre
  <2>2. \A x \in Types(Tail(down[c])) : \E k \in 2..Len(down[c]) : down[c][k].type = x
    BY <1>3, <2>1, SentLess
  <2>3. Head(down[c]).type = down[c][1].type
    BY <1>3, <2>1, SentLess
  <2>4. QED BY <1>3, <2>2, <2>3, SentIs
<1>4. QED BY <1>1, <1>2, <1>3 DEF Legible

(***************************************************************************)
(* The steps of the relay and of its owner keep the conversation.          *)
(***************************************************************************)
\* The phases of a relay with a peer, and what each of them writes.
LEMMA PhasesAre ==
    ASSUME RelayTypes, PhaseInv, relay.peer # NoOne
    PROVE  /\ relay.phase \in {"reserved", "repaint", "accepted", "attached"}
           /\ relay.handshake \in BOOLEAN
           /\ relay.phase = "reserved" /\ relay.handshake  => Writes = {"ready"}
           /\ relay.phase = "reserved" /\ ~relay.handshake => Writes = {"suspend"}
           /\ relay.phase = "repaint"  => Writes = {}
           /\ relay.phase = "accepted" => Writes = {"ready", "output"}
           /\ relay.phase = "attached" => Writes = {"output", "switch"}
BY RelayIs DEF PhaseInv, Writes, Phases

\* A frame is written.
LEMMA TalkOfWrite ==
    ASSUME RelayTypes, PhaseInv, relay.peer # NoOne, NEW m, NEW h, NEW u, NEW d \in Seq(ToTerminal),
           Talk(m, u, d, relay), Owes(m, h, u, d, relay),
           relay.output # NoFrame, ~relay.closing, relay' = [relay EXCEPT !.output = NoFrame]
    PROVE  Talk(m, u, Append(d, relay.output), relay') /\ Owes(m, h, u, Append(d, relay.output), relay')
<1> DEFINE e == Append(d, relay.output)
<1>1. /\ relay'.phase = relay.phase /\ relay'.handshake = relay.handshake
      /\ relay'.output.type = "none" /\ relay'.unacked = relay.unacked
  BY WrittenFields
<1>2. relay.output \in ToTerminal /\ relay.output.type \notin {"none"} \cup Ends
      /\ relay.output.type \in Writes
  BY RelayIs DEF PhaseInv
<1>3. /\ Types(e) = Types(d) \cup {relay.output.type}
      /\ d # <<>> => (ReadyFirst(e) <=> ReadyFirst(d))
      /\ d = <<>> => (ReadyFirst(e) <=> relay.output.type = "ready")
  BY <1>2, SentMore
<1>4. ReadyFirst(d) => d # <<>>
  BY DEF ReadyFirst
<1> HIDE DEF e
<1>5. "none" \notin Ends /\ "ready" \notin Ends /\ "output" \notin Ends /\ "suspend" \notin Ends
  BY DEF Ends
<1>6. relay.phase = "reserved" /\ relay.handshake => Reserves(m, u, e, relay')
  BY <1>1, <1>2, <1>3, PhasesAre DEF Talk, Reserves
<1>7. relay.phase = "reserved" /\ ~relay.handshake => Suspends(m, u, e, relay')
  BY <1>1, <1>2, <1>3, PhasesAre DEF Talk, Suspends
<1>8. relay.phase # "repaint"
  BY <1>2, PhasesAre
<1>9. relay.phase = "accepted" => Accepts(m, u, e, relay')
  BY <1>1, <1>2, <1>3, <1>4, PhasesAre DEF Talk, Accepts
<1>10. relay.phase = "attached" => "suspend" \notin Types(e)
  BY <1>2, <1>3, PhasesAre DEF Talk
<1>11. Talk(m, u, e, relay')
  BY <1>1, <1>2, <1>3, <1>5, <1>6, <1>7, <1>8, <1>9, <1>10 DEF Talk
<1>12. Owes(m, h, u, e, relay')
  BY <1>1, <1>3 DEF Owes
<1>13. QED BY <1>11, <1>12 DEF e

\* A frame of the peer is read: it is one that the phase takes.
LEMMA TalkOfRead ==
    ASSUME RelayTypes, PhaseInv, relay.peer # NoOne, NEW m, NEW h, NEW u \in Seq(FromTerminal), NEW d,
           Talk(m, u, d, relay), Owes(m, h, u, d, relay), u # <<>>, ~relay.closing,
           m \in {"reserving", "moving"} => u = <<>>, h # 0 => m \in {"bound", "switching"}
    PROVE  /\ Understood(Head(u)) /\ ~(relay.phase = "accepted" /\ relay.output.type = "ready")
           /\ relay' = Received(Head(u)) => Talk(m, Tail(u), d, relay') /\ Owes(m, h, Tail(u), d, relay')
<1> DEFINE f == Head(u)
<1>1. f \in FromTerminal
  BY HeadTailProperties
<1>2. /\ AllSaid(u) => f \in Said /\ AllSaid(Tail(u))
      /\ BoundFirst(u) => f = "bound" /\ AllSaid(Tail(u))
      /\ CommitLast(u) => \/ f = "commit" /\ Tail(u) = <<>> /\ ~HasAck(u)
                          \/ f \in Said /\ CommitLast(Tail(u))
      /\ HasAck(u) <=> f = "ack" \/ HasAck(Tail(u))
      /\ Once(u) => Once(Tail(u)) /\ (f = "ack" => ~HasAck(Tail(u)))
      /\ u = <<"commit">> => f = "commit" /\ Tail(u) = <<>> /\ ~HasAck(u)
  BY SaidLess, OneCommit
<1> HIDE DEF f
<1>3. relay.output.type \in {"none"} \cup Writes /\ (relay.output.type = "none" => relay.output = NoFrame)
  BY DEF PhaseInv
<1>4. f = "ack" => relay.unacked
  BY <1>2 DEF Owes
<1>5. Said = Lines \cup {"ack", "error"} /\ "ack" \notin Lines /\ "commit" \notin Said /\ "bound" \notin Said
      /\ "error" \notin Lines
  BY DEF Said, Lines
<1>6. relay' = Received(f) =>
          /\ relay'.output = relay.output
          /\ relay'.phase = (CASE f = "commit" -> "repaint" [] f = "bound" -> "attached"
                               [] OTHER -> relay.phase)
          /\ f \notin {"commit", "bound"} => relay'.handshake = relay.handshake
          /\ relay'.unacked = (IF f = "ack" THEN FALSE ELSE relay.unacked)
  BY <1>1, ReceivedFields
<1>7. relay' = Received(f) => Owes(m, h, Tail(u), d, relay')
  BY <1>2, <1>6 DEF Owes
<1>8. CASE relay.phase = "reserved" /\ relay.handshake
  <2>1. m = "committing" /\ u = <<"commit">> /\ d = <<>> /\ f = "commit" /\ Tail(u) = <<>>
        /\ relay.output.type # "ready"
    BY <1>2, <1>8 DEF Talk, Reserves
  <2>2. relay.output = NoFrame /\ ~relay.unacked /\ relay.output.type = "none"
    BY <1>3, <1>8, <2>1, PhasesAre DEF PhaseInv
  <2>3. Understood(f)
    BY <1>8, <2>1, <2>2 DEF Understood
  <2>4. relay' = Received(f) => Talk(m, Tail(u), d, relay')
    BY <1>6, <2>1, <2>2, NothingSaid DEF Talk
  <2>5. QED BY <1>7, <1>8, <2>3, <2>4 DEF f
<1>9. CASE relay.phase = "reserved" /\ ~relay.handshake
  <2>1. CASE f \in Said
    <3>1. Understood(f)
      BY <1>4, <1>5, <1>9, <2>1 DEF Understood, Suspended
    <3>2. Suspends(m, u, d, relay)
      BY <1>9 DEF Talk
    <3>3. relay' = Received(f) => Suspends(m, Tail(u), d, relay')
      BY <1>2, <1>5, <1>6, <2>1, <3>2 DEF Suspends
    <3>4. relay' = Received(f) => Talk(m, Tail(u), d, relay')
      BY <1>5, <1>6, <1>9, <2>1, <3>3 DEF Talk
    <3>5. QED BY <1>7, <1>9, <3>1, <3>4 DEF f
  <2>2. CASE f \notin Said
    <3>1. m = "committing" /\ f = "commit" /\ Tail(u) = <<>> /\ ~HasAck(u) /\ d = <<>>
          /\ relay.output.type # "suspend"
      BY <1>2, <1>9, <2>2 DEF Talk, Suspends
    <3>2. relay.output = NoFrame /\ relay.output.type = "none"
      BY <1>3, <1>9, <3>1, PhasesAre
    <3>3. ~relay.unacked
      BY <3>1, <3>2, NothingSaid DEF Owes
    <3>4. Understood(f)
      BY <1>9, <3>1, <3>2, <3>3 DEF Understood
    <3>5. relay' = Received(f) => Talk(m, Tail(u), d, relay')
      BY <1>6, <3>1, <3>2, NothingSaid DEF Talk
    <3>6. QED BY <1>7, <1>9, <3>4, <3>5 DEF f
  <2>3. QED BY <2>1, <2>2
<1>10. CASE relay.phase = "accepted"
  <2>1. m = "bound" /\ BoundFirst(u) /\ relay.output.type # "ready" /\ Types(d) \subseteq {"output"}
        /\ f = "bound" /\ AllSaid(Tail(u))
    BY <1>2, <1>10 DEF Talk, Accepts
  <2>2. relay' = Received(f) => Talk(m, Tail(u), d, relay')
    BY <1>6, <2>1 DEF Talk
  <2>3. Understood(f)
    BY <1>10, <2>1 DEF Understood
  <2>4. QED BY <1>7, <2>1, <2>2, <2>3 DEF f
<1>11. CASE relay.phase = "attached"
  <2>1. f \in Said /\ AllSaid(Tail(u))
    BY <1>2, <1>11 DEF Talk
  <2>2. Understood(f)
    BY <1>4, <1>5, <1>11, <2>1 DEF Understood
  <2>3. relay' = Received(f) => Talk(m, Tail(u), d, relay')
    BY <1>5, <1>6, <1>11, <2>1 DEF Talk
  <2>4. QED BY <1>7, <1>11, <2>2, <2>3 DEF f
<1>12. relay.phase # "repaint"
  BY DEF Talk
<1>13. QED BY <1>8, <1>9, <1>10, <1>11, <1>12, PhasesAre

\* Output of the private terminal becomes a frame.
LEMMA TalkOfPresent ==
    ASSUME RelayTypes, PhaseInv, NEW m, NEW h, NEW u, NEW d,
           Talk(m, u, d, relay), Owes(m, h, u, d, relay), Types(d) \subseteq Takes(m),
           Output, relay.output = NoFrame, ~relay.unacked, relay' = Presented
    PROVE  Talk(m, u, d, relay') /\ Owes(m, h, u, d, relay')
<1>1. /\ relay'.phase = relay.phase /\ relay'.handshake = relay.handshake
      /\ relay'.output.type = "output" /\ relay'.unacked /\ relay.output.type = "none"
  BY PresentedFields DEF NoFrame, Frame
<1>2. Owes(m, h, u, d, relay')
  BY <1>1 DEF Owes
<1>3. CASE relay.phase = "attached"
  <2>1. m \in {"bound", "switching", "draining"} /\ "suspend" \notin Types(d) /\ AllSaid(u)
    BY <1>3 DEF Talk
  <2>2. "output" \in Takes(m) /\ m # "committing"
    BY <2>1 DEF Takes
  <2>3. QED BY <1>1, <1>2, <1>3, <2>1, <2>2 DEF Talk
<1>4. CASE relay.phase = "accepted"
  <2>1. Accepts(m, u, d, relay)
    BY <1>4 DEF Talk
  <2>2. "output" \in Takes(m) /\ "suspend" \notin Types(d) /\ (m = "committing" => ReadyFirst(d))
    BY <1>1, <2>1 DEF Accepts, Takes, Ends
  <2>3. Accepts(m, u, d, relay')
    BY <1>1, <2>1 DEF Accepts
  <2>4. QED BY <1>1, <1>2, <1>4, <2>2, <2>3 DEF Talk
<1>5. QED BY <1>2, <1>3, <1>4 DEF Output

\* The relay is activated for the terminal that waits.
LEMMA TalkOfActivate ==
    ASSUME RelayTypes, PhaseInv, NEW m, NEW h, NEW u, NEW d, relay.phase = "repaint",
           Talk(m, u, d, relay), Owes(m, h, u, d, relay), h # 0 => m \in {"bound", "switching"},
           relay' = [relay EXCEPT !.output = Frame("ready"), !.handshake = TRUE, !.phase = "accepted"]
    PROVE  Talk(m, u, d, relay') /\ Owes(m, h, u, d, relay')
<1>1. relay'.phase = "accepted" /\ relay'.output.type = "ready" /\ relay'.unacked = relay.unacked
  BY ActivatedFields
<1>2. m = "committing" /\ u = <<>> /\ d = <<>> /\ ~relay.unacked
  BY DEF Talk, PhaseInv
<1>3. Talk(m, u, d, relay')
  BY <1>1, <1>2, NothingSaid DEF Talk, Accepts, Takes
<1>4. Owes(m, h, u, d, relay')
  BY <1>1, <1>2, NothingSaid DEF Owes
<1>5. QED BY <1>3, <1>4

\* A control is queued.
LEMMA TalkOfControl ==
    ASSUME RelayTypes, PhaseInv, relay.peer # NoOne, NEW m, NEW h, NEW u, NEW d,
           Talk(m, u, d, relay), Owes(m, h, u, d, relay),
           relay.output = NoFrame, NEW type \in {"detach", "exit", "switch", "suspend"},
           ~ControlRefused(type), relay' = ControlQueued(type)
    PROVE  Talk(m, u, d, relay') /\ Owes(m, h, u, d, relay')
<1>1. /\ relay'.phase = (IF type = "suspend" THEN "reserved" ELSE relay.phase)
      /\ relay'.handshake = relay.handshake /\ relay'.output.type = type
      /\ relay'.unacked = relay.unacked /\ relay.output.type = "none"
  BY QueuedFields DEF NoFrame, Frame
<1>2. type \in {"switch", "suspend"} => relay.phase = "attached" /\ ~relay.handshake
  BY DEF ControlRefused, PhaseInv
<1>3. Owes(m, h, u, d, relay')
  BY <1>1 DEF Owes
<1>4. CASE type \in {"switch", "suspend"}
  <2>1. m \in {"bound", "switching", "draining"} /\ "suspend" \notin Types(d) /\ AllSaid(u)
    BY <1>2, <1>4 DEF Talk
  <2>2. type \in Takes(m)
    BY <1>4, <2>1 DEF Takes
  <2>3. QED BY <1>1, <1>2, <1>3, <1>4, <2>1, <2>2 DEF Talk, Suspends
<1>5. CASE type \in {"detach", "exit"}
  <2>1. m \in {"reserving", "moving", "committing", "ready", "bound", "switching", "draining", "suspended"}
    BY PhasesAre DEF Talk, Reserves, Accepts, Suspends
  <2>2. type \in Takes(m) /\ type \in Ends
    BY <1>5, <2>1 DEF Takes, Ends
  <2>3. /\ relay.phase = "reserved" /\ relay.handshake => Reserves(m, u, d, relay')
        /\ relay.phase = "reserved" /\ ~relay.handshake => Suspends(m, u, d, relay')
    BY <1>1, <1>5 DEF Talk, Reserves, Suspends
  <2>4. relay.phase = "accepted" => Accepts(m, u, d, relay')
    BY <1>1, <1>5 DEF Talk, Accepts
  <2>5. QED BY <1>1, <1>3, <1>5, <2>2, <2>3, <2>4 DEF Talk
<1>6. QED BY <1>4, <1>5

\* The relay changes nothing that the conversation is about.
LEMMA TalkOfSame ==
    ASSUME NEW m, NEW h, NEW u, NEW d, Talk(m, u, d, relay), Owes(m, h, u, d, relay),
           relay'.phase = relay.phase, relay'.handshake = relay.handshake,
           relay'.output = relay.output, relay'.unacked = relay.unacked
    PROVE  Talk(m, u, d, relay') /\ Owes(m, h, u, d, relay')
BY DEF Talk, Owes, Reserves, Accepts, Suspends

\* A terminal that waited is reserved for.
LEMMA TalkOfReserve ==
    ASSUME RelayTypes, NEW m \in {"reserving", "moving"}, NEW w, NEW g,
           relay' = [Vacant(g) EXCEPT !.peer = w, !.phase = "reserved", !.handshake = TRUE,
                                      !.output = Frame("ready")]
    PROVE  Talk(m, <<>>, <<>>, relay') /\ Owes(m, 0, <<>>, <<>>, relay')
<1>1. /\ relay'.phase = "reserved" /\ relay'.handshake /\ relay'.output.type = "ready" /\ ~relay'.unacked
  BY ReservedFields
<1>2. QED BY <1>1, NothingSaid DEF Talk, Owes, Reserves, Takes

(***************************************************************************)
(* The steps of the terminal keep the conversation.                        *)
(***************************************************************************)
\* The reservation or the acceptance is read, and answered.
LEMMA TalkOfAnswer ==
    ASSUME RelayTypes, PhaseInv, relay.peer # NoOne, NEW m, NEW h, NEW u \in Seq(FromTerminal),
           NEW d \in Seq(ToTerminal), d # <<>>, Head(d).type = "ready",
           Talk(m, u, d, relay), Owes(m, h, u, d, relay),
           m \in {"reserving", "moving"} => u = <<>>, Types(d) \subseteq Takes(m),
           Types(Tail(d)) \cap {"ready", "busy"} = {}
    PROVE  /\ m \in {"reserving", "moving"} =>
                 /\ Talk("committing", Append(u, "commit"), Tail(d), relay)
                 /\ Owes("committing", h, Append(u, "commit"), Tail(d), relay)
           /\ m = "committing" => Talk("ready", u, Tail(d), relay) /\ Owes("ready", h, u, Tail(d), relay)
<1>1. Tail(d) \in Seq(ToTerminal) /\ (Tail(d) = <<>> <=> Types(Tail(d)) = {})
  BY HeadTailProperties, SilentIs
<1>2. Types(d) = Types(Tail(d)) \cup {"ready"} /\ "ready" \notin Types(Tail(d))
  BY SentLess
<1>3. relay.output.type # "ready"
  BY DEF Talk
<1>4. CASE m \in {"reserving", "moving"}
  <2>1. relay.phase = "reserved" /\ relay.handshake
    BY <1>4, PhasesAre DEF Talk, Reserves, Accepts, Suspends
  <2>2. Types(Tail(d)) = {}
    BY <1>2, <1>4 DEF Talk, Takes
  <2>3. Tail(d) = <<>> /\ u = <<>>
    BY <1>1, <1>4, <2>2
  <2>4. "commit" \in FromTerminal
    BY LinesAre
  <2>5. Append(u, "commit") = <<"commit">>
    BY <2>3, <2>4, SaidMore
  <2>6. relay.output.type # "none" => relay.output.type \in Takes("committing")
    <3>1. relay.output.type \in {"none"} \cup Ends
      BY <1>3, <2>1, PhasesAre DEF PhaseInv
    <3>2. Ends \subseteq Takes("committing")
      BY DEF Takes
    <3>3. QED BY <3>1, <3>2
  <2>7. relay.output.type # "output"
    BY <1>4 DEF Talk, Takes, Ends
  <2>8. Talk("committing", <<"commit">>, <<>>, relay)
    BY <1>3, <2>1, <2>6, <2>7, NothingSaid DEF Talk, Reserves
  <2>9. Owes("committing", h, <<"commit">>, <<>>, relay)
    BY <1>2, <2>1, <2>3, <2>7, NothingSaid, OneCommit DEF Owes, PhaseInv
  <2>10. QED BY <1>4, <2>3, <2>5, <2>8, <2>9
<1>5. CASE m = "committing"
  <2>1. relay.phase = "accepted" /\ u = <<>>
    BY <1>5, PhasesAre DEF Talk, Reserves, Accepts, Suspends
  <2>2. relay.output.type # "none" => relay.output.type \in Takes("ready")
    BY <1>3, <1>5 DEF Talk, Takes
  <2>3. Accepts("ready", u, Tail(d), relay)
    BY <1>3, <2>1 DEF Accepts
  <2>4. Talk("ready", u, Tail(d), relay)
    BY <1>2, <1>3, <2>1, <2>2, <2>3 DEF Talk
  <2>5. Owes("ready", h, u, Tail(d), relay)
    BY <1>2, <1>5 DEF Owes
  <2>6. QED BY <1>5, <2>4, <2>5
<1>6. QED BY <1>4, <1>5

\* The terminal says it is bound, that it has shown what it was sent, or a line.
LEMMA TalkOfBind ==
    ASSUME RelayTypes, PhaseInv, relay.peer # NoOne, NEW h, NEW u \in Seq(FromTerminal), NEW d,
           Talk("ready", u, d, relay), Owes("ready", h, u, d, relay), Types(d) \subseteq Takes("ready")
    PROVE  Talk("bound", Append(u, "bound"), d, relay) /\ Owes("bound", h, Append(u, "bound"), d, relay)
<1>1. relay.phase = "accepted" /\ u = <<>> /\ relay.output.type # "ready"
  BY PhasesAre DEF Talk, Reserves, Accepts, Suspends
<1>2. "bound" \in FromTerminal
  BY LinesAre
<1>3. BoundFirst(Append(u, "bound"))
  BY <1>1, <1>2, SaidMore
<1>4. /\ HasAck(Append(u, "bound")) <=> HasAck(u)
      /\ Once(u) => Once(Append(u, "bound"))
  BY <1>2, SaidMore
<1>5. Types(d) \subseteq {"output"}
  BY DEF Talk, Takes
<1>6. relay.output.type # "none" => relay.output.type \in Takes("bound")
  BY DEF Talk, Takes
<1>7. Talk("bound", Append(u, "bound"), d, relay)
  BY <1>1, <1>3, <1>5, <1>6 DEF Talk, Accepts
<1>8. Owes("bound", h, Append(u, "bound"), d, relay)
  BY <1>4 DEF Owes
<1>9. QED BY <1>7, <1>8

\* The terminal says what it may always say.
LEMMA TalkOfSay ==
    ASSUME RelayTypes, PhaseInv, relay.peer # NoOne, NEW m \in {"bound", "switching"}, NEW h,
           NEW u \in Seq(FromTerminal), NEW d, Talk(m, u, d, relay), Owes(m, h, u, d, relay),
           NEW f \in Said
    PROVE  /\ f # "ack" => Talk(m, Append(u, f), d, relay) /\ Owes(m, h, Append(u, f), d, relay)
           /\ f = "ack" /\ h # 0 /\ "output" \notin Types(d) =>
                 Talk(m, Append(u, f), d, relay) /\ Owes(m, 0, Append(u, f), d, relay)
<1>1. f \in FromTerminal
  BY LinesAre DEF Said
<1>2. /\ AllSaid(u) => AllSaid(Append(u, f))
      /\ BoundFirst(u) => BoundFirst(Append(u, f))
      /\ HasAck(Append(u, f)) <=> HasAck(u) \/ f = "ack"
      /\ Once(u) /\ (f = "ack" => ~HasAck(u)) => Once(Append(u, f))
  BY <1>1, SaidMore
<1>3. /\ relay.phase = "reserved" /\ relay.handshake => Reserves(m, Append(u, f), d, relay)
      /\ relay.phase = "reserved" /\ ~relay.handshake => Suspends(m, Append(u, f), d, relay)
      /\ relay.phase = "accepted" => Accepts(m, Append(u, f), d, relay)
  BY <1>2 DEF Talk, Reserves, Accepts, Suspends
<1>4. Talk(m, Append(u, f), d, relay)
  BY <1>2, <1>3 DEF Talk
<1>5. f # "ack" => Owes(m, h, Append(u, f), d, relay)
  BY <1>2 DEF Owes
<1>6. f = "ack" /\ h # 0 /\ "output" \notin Types(d) => Owes(m, 0, Append(u, f), d, relay)
  BY <1>2 DEF Owes
<1>7. QED BY <1>4, <1>5, <1>6

\* A diagnostic of a switch that failed, or the last the source hears.
LEMMA TalkOfSwitch ==
    ASSUME RelayTypes, PhaseInv, relay.peer # NoOne, NEW h, NEW u \in Seq(FromTerminal), NEW d,
           Talk("switching", u, d, relay), Owes("switching", h, u, d, relay)
    PROVE  /\ Talk("bound", Append(u, "error"), d, relay) /\ Owes("bound", h, Append(u, "error"), d, relay)
           /\ Talk("draining", u, d, relay) /\ Owes("draining", h, u, d, relay)
<1>1. relay.phase = "attached" \/ (relay.phase = "reserved" /\ ~relay.handshake)
  BY PhasesAre DEF Talk, Reserves, Accepts
<1>2. AllSaid(u)
  BY <1>1 DEF Talk, Suspends
<1>3. "error" \in FromTerminal /\ "error" \in Said
  BY LinesAre DEF Said
<1>4. /\ AllSaid(Append(u, "error"))
      /\ HasAck(Append(u, "error")) <=> HasAck(u)
      /\ Once(u) => Once(Append(u, "error"))
  BY <1>2, <1>3, SaidMore
<1>5. Takes("bound") = Takes("switching") /\ Takes("draining") = Takes("switching")
  BY DEF Takes
<1>6. Talk("bound", Append(u, "error"), d, relay) /\ Talk("draining", u, d, relay)
  BY <1>1, <1>2, <1>4, <1>5 DEF Talk, Suspends
<1>7. Owes("bound", h, Append(u, "error"), d, relay) /\ Owes("draining", h, u, d, relay)
  BY <1>4 DEF Owes
<1>8. QED BY <1>6, <1>7

\* Output is taken, to be shown or to be dropped.
LEMMA TalkOfTake ==
    ASSUME RelayTypes, PhaseInv, relay.peer # NoOne, NEW m \in {"bound", "switching", "draining"},
           NEW h, NEW k, NEW u, NEW d \in Seq(ToTerminal), d # <<>>,
           Talk(m, u, d, relay), Owes(m, h, u, d, relay), Head(d).type \in Takes(m),
           Head(d).type = "output" => "output" \notin Types(Tail(d)),
           \/ m = "draining" /\ h = 0 /\ k = 0
           \/ Head(d).type = "output" /\ h = 0 /\ k # 0
           \/ Head(d).type # "output" /\ k = h
    PROVE  Talk(m, u, Tail(d), relay) /\ Owes(m, k, u, Tail(d), relay)
<1>1. Types(d) = Types(Tail(d)) \cup {Head(d).type}
  BY SentLess
<1>2. relay.output.type # "ready"
  BY DEF Talk
<1>3. /\ relay.phase = "reserved" /\ relay.handshake => Reserves(m, u, Tail(d), relay)
      /\ relay.phase = "reserved" /\ ~relay.handshake => Suspends(m, u, Tail(d), relay)
      /\ relay.phase = "accepted" => Accepts(m, u, Tail(d), relay)
  BY <1>1 DEF Talk, Reserves, Accepts, Suspends
<1>4. Talk(m, u, Tail(d), relay)
  BY <1>1, <1>2, <1>3 DEF Talk
<1>5. Owes(m, k, u, Tail(d), relay)
  BY <1>1 DEF Owes
<1>6. QED BY <1>4, <1>5

\* A control is taken: the terminal looks for another session, or is suspended.
LEMMA TalkOfControlled ==
    ASSUME RelayTypes, PhaseInv, relay.peer # NoOne, NEW m \in {"bound", "switching"},
           NEW u, NEW d \in Seq(ToTerminal), d # <<>>, Head(d).type \in {"switch", "suspend"},
           Talk(m, u, d, relay), Owes(m, 0, u, d, relay),
           Head(d).type = "suspend" => Types(Tail(d)) \subseteq Ends
    PROVE  /\ Head(d).type = "switch" =>
                 Talk("switching", u, Tail(d), relay) /\ Owes("switching", 0, u, Tail(d), relay)
           /\ Head(d).type = "suspend" =>
                 Talk("suspended", u, Tail(d), relay) /\ Owes("suspended", 0, u, Tail(d), relay)
<1>1. Types(d) = Types(Tail(d)) \cup {Head(d).type}
  BY SentLess
<1>2. relay.output.type # "ready"
  BY DEF Talk
<1>3. relay.phase = "attached" \/ (relay.phase = "reserved" /\ ~relay.handshake)
  BY <1>1, PhasesAre DEF Talk, Reserves, Accepts
<1>4. AllSaid(u)
  BY <1>3 DEF Talk, Suspends
<1>5. Takes("bound") = Takes("switching") /\ Takes("suspended") = Ends
  BY DEF Takes
<1>6. CASE Head(d).type = "switch"
  <2>1. Talk("switching", u, Tail(d), relay)
    BY <1>1, <1>2, <1>3, <1>4, <1>5, <1>6 DEF Talk, Suspends
  <2>2. Owes("switching", 0, u, Tail(d), relay)
    BY <1>1, <1>6 DEF Owes
  <2>3. QED BY <1>6, <2>1, <2>2
<1>7. CASE Head(d).type = "suspend"
  <2>1. relay.phase = "reserved" /\ ~relay.handshake /\ Types(Tail(d)) = {}
        /\ (relay.output.type # "none" => relay.output.type \in Ends)
    BY <1>1, <1>3, <1>7 DEF Talk
  <2>2. Talk("suspended", u, Tail(d), relay)
    BY <1>2, <1>4, <1>5, <2>1 DEF Talk, Suspends
  <2>3. Owes("suspended", 0, u, Tail(d), relay)
    BY <1>1, <1>7, <2>1 DEF Owes
  <2>4. QED BY <1>7, <2>2, <2>3
<1>8. QED BY <1>6, <1>7

\* The terminal comes back from a suspension.
LEMMA TalkOfContinue ==
    ASSUME RelayTypes, PhaseInv, relay.peer # NoOne, NEW u \in Seq(FromTerminal),
           NEW d \in Seq(ToTerminal), Types(d) \subseteq Takes("suspended"),
           Talk("suspended", u, d, relay), Owes("suspended", 0, u, d, relay)
    PROVE  /\ Talk("committing", Append(u, "commit"), d, relay)
           /\ Owes("committing", 0, Append(u, "commit"), d, relay)
<1>1. relay.phase = "reserved" /\ ~relay.handshake /\ AllSaid(u)
  BY PhasesAre DEF Talk, Reserves, Accepts, Suspends
<1>2. Types(d) = {} /\ (relay.output.type # "none" => relay.output.type \in Ends)
  BY DEF Talk, Takes
<1>3. d = <<>>
  BY <1>2, SilentIs
<1>4. "commit" \in FromTerminal
  BY LinesAre
<1>5. /\ CommitLast(Append(u, "commit"))
      /\ HasAck(Append(u, "commit")) <=> HasAck(u)
      /\ Once(u) => Once(Append(u, "commit"))
  BY <1>1, <1>4, SaidMore
<1>6. Ends \subseteq Takes("committing") /\ "suspend" \notin Ends /\ "output" \notin Ends
      /\ "suspend" # "none" /\ "output" # "none"
  BY DEF Takes, Ends
<1>7. Talk("committing", Append(u, "commit"), d, relay)
  BY <1>1, <1>2, <1>3, <1>5, <1>6 DEF Talk, Suspends
<1>8. Owes("committing", 0, Append(u, "commit"), d, relay)
  BY <1>5 DEF Owes
<1>9. QED BY <1>7, <1>8

(***************************************************************************)
(* Every step keeps the conversation, and no frame is misread.             *)
(***************************************************************************)
\* A frame that is read from the peer is understood and keeps it.
LEMMA PeerReads ==
    ASSUME AttachmentInv, PeerRead
    PROVE  /\ relay' = Received(Head(up[relay.peer])) /\ ~PeerDrop /\ misread' = misread
           /\ up' = [up EXCEPT ![relay.peer] = Tail(up[relay.peer])]
           /\ mode[relay.peer] # "away" /\ relay.peer \in Terminals
<1> USE DEF AttachmentInv, AttachTypeOK
<1>1. /\ relay.peer \in Terminals /\ relay.peer # NoOne /\ up[relay.peer] # <<>> /\ ~relay.closing
      /\ up[relay.peer] \in Seq(FromTerminal)
  BY RelayIs, WiresAre DEF PeerRead
<1>2. Legible(relay.peer) /\ Dialogue(relay.peer) /\ Acks(relay.peer)
  BY <1>1
<1>3. /\ mode[relay.peer] \in {"away", "refused", "reserving", "moving"} => up[relay.peer] = <<>>
      /\ holding[relay.peer] # 0 => mode[relay.peer] \in {"bound", "switching"}
  BY <1>1, <1>2, LegibleIs
<1>4. Peer(relay.peer)
  BY <1>1, <1>3 DEF Peer
<1>5. /\ Talk(mode[relay.peer], up[relay.peer], down[relay.peer], relay)
      /\ Owes(mode[relay.peer], holding[relay.peer], up[relay.peer], down[relay.peer], relay)
  BY <1>1, <1>2, <1>4, TalkIs, OwesIs
<1>6. /\ Understood(Head(up[relay.peer]))
      /\ ~(relay.phase = "accepted" /\ relay.output.type = "ready")
  BY <1>1, <1>3, <1>5, TalkOfRead
<1>7. /\ relay' = Received(Head(up[relay.peer])) /\ misread' = misread
      /\ up' = [up EXCEPT ![relay.peer] = Tail(up[relay.peer])]
  BY <1>6 DEF PeerRead
<1>8. ~PeerDrop
  <2>1. Head(up[relay.peer]) \in FromTerminal
    BY <1>1, WiresAre
  <2>2. relay'.peer = relay.peer
    BY <1>7, <2>1, ReceivedFields
  <2>3. QED BY <1>1, <2>2, VacantIsFree DEF PeerDrop
<1>9. QED BY <1>1, <1>3, <1>7, <1>8

\* The relay and its owner keep the conversation with the peer there is.
LEMMA TalkStepOfOwner ==
    ASSUME AttachmentInv, RelayStep \/ OwnerStep, NEW c \in Terminals, Peer(c)'
    PROVE  /\ Talk(mode[c], up'[c], down'[c], relay')
           /\ Owes(mode[c], holding[c], up'[c], down'[c], relay')
<1> USE DEF AttachmentInv, AttachTypeOK
<1>1. mode' = mode /\ holding' = holding /\ relay'.peer = c /\ mode[c] # "away" /\ c # NoOne
  BY RelayFrame, OwnerFrame, AttachAssumption DEF Peer, AttachAssumption
<1>2. relay'.peer \in {relay.peer, NoOne} \/ (Candidate /\ MayReserve)
  BY PeerIs DEF Next
<1>3. Legible(c) /\ Dialogue(c) /\ Acks(c) /\ up[c] \in Seq(FromTerminal) /\ down[c] \in Seq(ToTerminal)
  BY WiresAre
<1>4. /\ Types(down[c]) \subseteq Takes(mode[c])
      /\ mode[c] \in {"away", "refused", "reserving", "moving"} => up[c] = <<>>
      /\ holding[c] # 0 => mode[c] \in {"bound", "switching"} /\ "output" \notin Types(down[c])
  BY <1>3, LegibleIs
<1>5. CASE Candidate /\ MayReserve
  <2>1. /\ relay' = [Vacant(relay.generation + 1) EXCEPT !.peer = reject.who, !.phase = "reserved",
                                                !.handshake = TRUE, !.output = Frame("ready")]
        /\ up'[c] \in {<<>>, up[c]} /\ down' = down
    BY <1>5 DEF Candidate
  <2>2. reject.who = c
    BY <1>1, <2>1, ReservedFields
  <2>3. mode[c] \in {"reserving", "moving"} /\ down[c] = <<>>
    BY <1>1, <2>2 DEF CallersInv
  <2>4. up'[c] = <<>> /\ down'[c] = <<>> /\ holding[c] = 0
    BY <1>4, <2>1, <2>3
  <2>5. QED BY <2>1, <2>3, <2>4, TalkOfReserve
<1>6. CASE relay.peer = c
  <2>1. Peer(c) /\ relay.peer # NoOne
    BY <1>1, <1>6 DEF Peer
  <2>2. Talk(mode[c], up[c], down[c], relay) /\ Owes(mode[c], holding[c], up[c], down[c], relay)
    BY <1>3, <2>1, TalkIs, OwesIs
  <2>3. ~PeerDrop /\ ~RelayClose
    BY <1>1, VacantIsFree DEF PeerDrop, RelayClose
  <2>4. CASE up'[c] = up[c] /\ down'[c] = down[c] /\ relay'.phase = relay.phase
             /\ relay'.handshake = relay.handshake /\ relay'.output = relay.output
             /\ relay'.unacked = relay.unacked
    BY <2>2, <2>4, TalkOfSame
  <2>5. CASE PeerWrite
    <3>1. /\ relay' = [relay EXCEPT !.output = NoFrame] /\ up' = up /\ ~relay.closing
          /\ relay.output # NoFrame /\ down'[c] = Append(down[c], relay.output)
      BY <1>1, <1>6, <2>3, <2>5 DEF PeerWrite, WireTypes
    <3>2. QED BY <1>3, <2>1, <2>2, <3>1, TalkOfWrite
  <2>6. CASE PeerRead
    <3>1. relay' = Received(Head(up[c])) /\ up'[c] = Tail(up[c])
      BY <1>6, <2>6, PeerReads DEF WireTypes
    <3>2. up[c] # <<>> /\ ~relay.closing /\ down' = down
      BY <1>6, <2>6 DEF PeerRead
    <3>3. QED BY <1>3, <1>4, <2>1, <2>2, <3>1, <3>2, TalkOfRead
  <2>7. CASE MasterWrite
    BY <2>4, <2>7, MasterWriteFields DEF MasterWrite, wireVars
  <2>8. CASE MasterRead
    <3>1. \/ relay' = relay
          \/ Output /\ relay.output = NoFrame /\ ~relay.unacked /\ relay' = Presented
      BY <2>8 DEF MasterRead
    <3>2. up' = up /\ down' = down
      BY <2>8 DEF MasterRead, wireVars
    <3>3. QED BY <1>4, <2>2, <2>4, <3>1, <3>2, TalkOfPresent
  <2>8a. CASE RejectExpire \/ CandidateReply
    <3>1. relay' = relay /\ reject.who # NoOne
      BY <2>8a DEF RejectExpire, CandidateReply, relayVars, CallersInv, NoCandidate, CallerTypes, Candidates
    <3>2. reject.who # c
      BY <1>6, <3>1 DEF CallersInv
    <3>3. up'[c] = up[c] /\ down'[c] = down[c]
      BY <2>8a, <3>2 DEF RejectExpire, CandidateReply, WireTypes
    <3>4. QED BY <2>4, <3>1, <3>3
  <2>9. CASE Candidate /\ ~MayReserve
    BY <2>4, <2>9 DEF Candidate
  <2>10. CASE Rebind
    <3>1. \/ relay' = relay
          \/ /\ relay' = [relay EXCEPT !.output = Frame("ready"), !.handshake = TRUE, !.phase = "accepted"]
             /\ relay.phase = "repaint"
      BY <2>10 DEF Rebind, Activate, Activatable
    <3>2. up' = up /\ down' = down
      BY <2>10 DEF Rebind, wireVars
    <3>3. QED BY <1>4, <2>2, <2>4, <3>1, <3>2, TalkOfActivate
  <2>11. CASE Control
    <3>1. ControlType \in {"detach", "exit", "switch", "suspend"}
      BY <2>11 DEF Control, ControlType, Lines
    <3>2. up' = up /\ down' = down
      BY <2>11 DEF Control, wireVars
    <3>3. \/ relay' = relay
          \/ Output /\ relay.output = NoFrame /\ ~relay.unacked /\ relay' = Presented
          \/ relay.output = NoFrame /\ ~ControlRefused(ControlType) /\ relay' = ControlQueued(ControlType)
      BY <2>11 DEF Control, ControlWaits
    <3>4. CASE relay' = relay
      BY <2>4, <3>2, <3>4
    <3>5. CASE Output /\ relay.output = NoFrame /\ ~relay.unacked /\ relay' = Presented
      BY <1>4, <2>2, <3>2, <3>5, TalkOfPresent
    <3>6. CASE relay.output = NoFrame /\ ~ControlRefused(ControlType) /\ relay' = ControlQueued(ControlType)
      BY <2>1, <2>2, <3>1, <3>2, <3>6, TalkOfControl
    <3>7. QED BY <3>3, <3>4, <3>5, <3>6
  <2>12. CASE ViewReserve
    BY <2>1, <2>12 DEF ViewReserve
  <2>13. CASE UNCHANGED <<relay, up, down>>
    BY <2>4, <2>13
  <2>14. CASE RelayStep
    BY <2>3, <2>5, <2>6, <2>7, <2>8, <2>8a, <2>9, <2>13, <2>14, <1>5 DEF RelayStep, PeerHangup, Expire, Accept,
       relayVars, wireVars
  <2>15. CASE OwnerStep
    BY <2>3, <2>10, <2>11, <2>12, <2>13, <2>15 DEF OwnerStep, EngineStep, Service, Write, ViewBind,
       ViewRelease, TakePending, History, Ready, TakeLine, Flushed, GiveUp, relayVars, wireVars
  <2>16. QED BY <2>14, <2>15
<1>7. QED BY <1>1, <1>2, <1>5, <1>6

\* No terminal is cut off for a frame it was sent.
LEMMA NothingMisread ==
    ASSUME AttachmentInv, Next
    PROVE  misread' = {}
<1> USE DEF AttachmentInv, AttachTypeOK
<1>1. CASE RelayStep
  <2>1. CASE PeerRead
    BY <2>1, PeerReads
  <2>2. CASE ~PeerRead
    BY <1>1, <2>2 DEF RelayStep, PeerWrite, PeerHangup, MasterWrite, MasterRead, Expire, RejectExpire,
       Accept, Candidate, CandidateReply, ghostVars
  <2>3. QED BY <2>1, <2>2
<1>2. CASE OwnerStep
  BY <1>2, OwnerFrame
<1>3. CASE \E c \in Terminals : TerminalStep(c)
  <2>1. PICK c \in Terminals : TerminalStep(c)
    BY <1>3
  <2>2. Legible(c) /\ down[c] \in Seq(ToTerminal)
    BY WiresAre
  <2>3. /\ Types(down[c]) \subseteq Takes(mode[c])
        /\ holding[c] # 0 => "output" \notin Types(down[c])
    BY <2>2, LegibleIs
  <2>4. down[c] # <<>> => Head(down[c]).type \in Types(down[c])
    BY <2>2, SentLess
  <2>5. CASE TargetRead(c)
    <3>1. mode[c] \in {"reserving", "moving", "committing"} /\ down[c] # <<>>
      BY <2>5 DEF TargetRead
    <3>2. CASE mode[c] = "committing"
      <4>1. Peer(c) \/ ~Peer(c)
        OBVIOUS
      <4>2. Head(down[c]).type \in {"ready", "output", "detach", "exit"}
        BY <2>3, <2>4, <3>1, <3>2 DEF Takes, Ends
      <4>3. Head(down[c]).type # "output"
        <5>1. Head(down[c]) = down[c][1] /\ 1 \in 1..Len(down[c])
          <6>1. Len(down[c]) \in Nat \ {0} /\ Head(down[c]) = down[c][1]
            BY <2>2, <3>1, TailIs
          <6>2. QED BY <6>1
        <5>2. down[c][1].type = "output" => FirstIsReady(c)
          BY <2>2, <3>2, <5>1 DEF Legible
        <5>3. QED BY <5>1, <5>2 DEF FirstIsReady
      <4>4. QED BY <2>5, <4>2, <4>3 DEF TargetRead
    <3>3. CASE mode[c] # "committing"
      <4>1. Head(down[c]).type \in {"ready", "busy", "detach", "exit"}
        BY <2>3, <2>4, <3>1, <3>3 DEF Takes, Ends
      <4>2. QED BY <2>5, <4>1 DEF TargetRead
    <3>4. QED BY <3>2, <3>3
  <2>6. CASE ReadOutput(c)
    BY <2>3, <2>4, <2>6 DEF ReadOutput, Holding
  <2>7. CASE ReadControl(c)
    <3>1. mode[c] \in {"bound", "switching"} /\ down[c] # <<>>
      BY <2>7 DEF ReadControl
    <3>2. Head(down[c]).type \in {"output", "switch", "suspend", "detach", "exit"}
      BY <2>3, <2>4, <3>1 DEF Takes, Ends
    <3>3. QED BY <2>7, <3>2 DEF ReadControl
  <2>8. QED BY <2>1, <2>5, <2>6, <2>7 DEF TerminalStep, Leave, Attach, Bind, Show, Type, Continue,
               SwitchFails, SwitchAccepted, Drain, ReadEnd, ghostVars
<1>4. QED BY <1>1, <1>2, <1>3 DEF Next

\* The peer keeps the conversation.
LEMMA TalkStepOfTerminal ==
    ASSUME AttachmentInv, NEW c \in Terminals, TerminalStep(c), Peer(c)'
    PROVE  /\ Talk(mode'[c], up'[c], down'[c], relay')
           /\ Owes(mode'[c], holding'[c], up'[c], down'[c], relay')
<1> USE DEF AttachmentInv, AttachTypeOK
<1>1. relay' = relay /\ relay.peer = c /\ mode'[c] # "away" /\ relay.peer # NoOne
  BY TerminalFrame, AttachAssumption DEF Peer, AttachAssumption
<1>2. Legible(c) /\ Dialogue(c) /\ Acks(c) /\ up[c] \in Seq(FromTerminal) /\ down[c] \in Seq(ToTerminal)
      /\ mode[c] \in Modes /\ holding[c] \in Nat
  BY WiresAre DEF TerminalTypes
<1>3. /\ Types(down[c]) \subseteq Takes(mode[c])
      /\ mode[c] \in {"away", "refused", "reserving", "moving"} => up[c] = <<>>
      /\ holding[c] # 0 => mode[c] \in {"bound", "switching"} /\ "output" \notin Types(down[c])
      /\ down[c] # <<>> =>
            /\ Types(Tail(down[c])) \cap {"ready", "busy"} = {}
            /\ Head(down[c]).type = "output" => "output" \notin Types(Tail(down[c]))
            /\ Head(down[c]).type = "suspend" => Types(Tail(down[c])) \subseteq Ends
  BY <1>2, LegibleIs
<1>4. ~Attach(c) /\ ~Close(c)
  BY <1>1 DEF Attach, Connected, Close, Enter, TerminalTypes
<1>5. mode[c] # "away"
  BY <1>1, <1>4 DEF TerminalStep, Leave, TargetRead, Bind, ReadOutput, Show, ReadControl, Continue,
     SwitchFails, SwitchAccepted, Drain, ReadEnd, Type
<1>6. Talk(mode[c], up[c], down[c], relay) /\ Owes(mode[c], holding[c], up[c], down[c], relay)
  BY <1>1, <1>2, <1>5, TalkIs, OwesIs DEF Peer
<1>7. down[c] # <<>> => /\ Types(down[c]) = Types(Tail(down[c])) \cup {Head(down[c]).type}
                        /\ Head(down[c]).type \in Types(down[c])
  BY <1>2, SentLess
<1>8. CASE TargetRead(c)
  <2>1. /\ down[c] # <<>> /\ holding' = holding
        /\ \/ /\ Head(down[c]).type = "ready" /\ mode[c] \in {"reserving", "moving"}
              /\ mode'[c] = "committing" /\ up'[c] = Append(up[c], "commit") /\ down'[c] = Tail(down[c])
           \/ /\ Head(down[c]).type = "ready" /\ mode[c] = "committing"
              /\ mode'[c] = "ready" /\ up'[c] = up[c] /\ down'[c] = Tail(down[c])
           \/ Head(down[c]).type = "busy" /\ mode[c] = "reserving"
    BY <1>4, <1>8 DEF TargetRead, Enter, Send, TerminalTypes, WireTypes
  <2>2. ~(Head(down[c]).type = "busy" /\ mode[c] = "reserving")
    BY <1>1, <1>6, <1>7, <2>1, PhasesAre DEF Talk, Reserves, Accepts, Suspends
  <2>3. Head(down[c]).type = "ready"
    BY <2>1, <2>2
  <2>4. /\ mode[c] \in {"reserving", "moving"} =>
              /\ Talk("committing", Append(up[c], "commit"), Tail(down[c]), relay)
              /\ Owes("committing", holding[c], Append(up[c], "commit"), Tail(down[c]), relay)
        /\ mode[c] = "committing" =>
              /\ Talk("ready", up[c], Tail(down[c]), relay)
              /\ Owes("ready", holding[c], up[c], Tail(down[c]), relay)
    BY <1>1, <1>2, <1>3, <1>6, <2>1, <2>3, TalkOfAnswer
  <2>5. QED BY <1>1, <2>1, <2>2, <2>4
<1>9. CASE Bind(c)
  <2>1. /\ mode[c] = "ready" /\ mode'[c] = "bound" /\ up'[c] = Append(up[c], "bound")
        /\ down' = down /\ holding' = holding
    BY <1>9 DEF Bind, Enter, Send, TerminalTypes, WireTypes
  <2>2. QED BY <1>1, <1>2, <1>3, <1>6, <2>1, TalkOfBind
<1>10. CASE \E line \in Typed : Type(c, line)
  <2>1. PICK line \in Typed : Type(c, line)
    BY <1>10
  <2>2. /\ mode[c] \in {"bound", "switching"} /\ mode' = mode /\ up'[c] = Append(up[c], line)
        /\ down' = down /\ holding' = holding
    BY <2>1 DEF Type, Send, WireTypes
  <2>3. line \in Said /\ line # "ack"
    BY AttachAssumption DEF AttachAssumption, Said, Lines
  <2>4. /\ Talk(mode[c], Append(up[c], line), down[c], relay)
        /\ Owes(mode[c], holding[c], Append(up[c], line), down[c], relay)
    BY <1>1, <1>2, <1>6, <2>2, <2>3, TalkOfSay
  <2>5. QED BY <1>1, <2>2, <2>4
<1>11. CASE Show(c)
  <2>1. /\ mode[c] \in {"bound", "switching"} /\ mode' = mode /\ up'[c] = Append(up[c], "ack")
        /\ down' = down /\ holding'[c] = 0 /\ holding[c] # 0
    BY <1>11 DEF Show, Send, WireTypes, TerminalTypes, Holding
  <2>2. "ack" \in Said
    BY DEF Said
  <2>3. /\ Talk(mode[c], Append(up[c], "ack"), down[c], relay)
        /\ Owes(mode[c], 0, Append(up[c], "ack"), down[c], relay)
    BY <1>1, <1>2, <1>3, <1>6, <2>1, <2>2, TalkOfSay
  <2>4. QED BY <1>1, <2>1, <2>3
<1>12. CASE SwitchFails(c) \/ SwitchAccepted(c)
  <2>1. /\ mode[c] = "switching" /\ down' = down /\ holding' = holding
        /\ \/ mode'[c] = "bound" /\ up'[c] = Append(up[c], "error")
           \/ mode'[c] = "draining" /\ up' = up
    BY <1>12 DEF SwitchFails, SwitchAccepted, Enter, Send, TerminalTypes, WireTypes, wireVars
  <2>2. QED BY <1>1, <1>2, <1>6, <2>1, TalkOfSwitch
<1>13. CASE ReadOutput(c) \/ Drain(c)
  <2>1. /\ mode[c] \in {"bound", "switching", "draining"} /\ mode' = mode /\ up' = up
        /\ down[c] # <<>> /\ down'[c] = Tail(down[c])
        /\ \/ mode[c] = "draining" /\ holding'[c] = holding[c]
           \/ /\ Head(down[c]).type = "output" /\ holding[c] = 0 /\ holding'[c] = Head(down[c]).tag
    BY <1>4, <1>13 DEF ReadOutput, Drain, WireTypes, TerminalTypes, Holding
  <2>2. Head(down[c]) \in ToTerminal
    BY <1>2, <2>1, WiresAre
  <2>3. Head(down[c]).type = "output" => Head(down[c]).tag # 0
    <3>1. Head(down[c]).type = "output" => Head(down[c]).tag \in 1..MaxGeneration
      BY <2>2, FramesAre
    <3>2. QED BY <3>1
  <2>4. mode[c] = "draining" => holding[c] = 0
    BY <1>3
  <2>5. Head(down[c]).type \in Takes(mode[c]) /\ (Head(down[c]).type = "output" => "output" \notin Types(Tail(down[c])))
    BY <1>3, <1>7, <2>1
  <2>6. \/ mode[c] = "draining" /\ holding[c] = 0 /\ holding'[c] = 0
        \/ Head(down[c]).type = "output" /\ holding[c] = 0 /\ holding'[c] # 0
    BY <2>1, <2>3, <2>4
  <2>7. /\ Talk(mode[c], up[c], Tail(down[c]), relay)
        /\ Owes(mode[c], holding'[c], up[c], Tail(down[c]), relay)
    BY <1>1, <1>2, <1>6, <2>1, <2>5, <2>6, TalkOfTake
  <2>8. QED BY <1>1, <2>1, <2>7
<1>14. CASE ReadControl(c)
  <2>1. /\ mode[c] \in {"bound", "switching"} /\ up' = up /\ holding' = holding /\ holding[c] = 0
        /\ down[c] # <<>> /\ down'[c] = Tail(down[c])
        /\ \/ Head(down[c]).type = "switch" /\ mode'[c] = "switching"
           \/ Head(down[c]).type = "suspend" /\ mode'[c] = "suspended"
    BY <1>4, <1>14 DEF ReadControl, Enter, WireTypes, TerminalTypes, Holding
  <2>2. QED BY <1>1, <1>2, <1>3, <1>6, <2>1, TalkOfControlled
<1>15. CASE Continue(c)
  <2>1. /\ mode[c] = "suspended" /\ mode'[c] = "committing" /\ up'[c] = Append(up[c], "commit")
        /\ down' = down /\ holding' = holding /\ holding[c] = 0
    BY <1>3, <1>15 DEF Continue, Enter, Send, WireTypes, TerminalTypes
  <2>2. QED BY <1>1, <1>2, <1>3, <1>6, <2>1, TalkOfContinue
<1>16. QED BY <1>4, <1>8, <1>9, <1>10, <1>11, <1>12, <1>13, <1>14, <1>15 DEF TerminalStep, Leave, ReadEnd

\* Every step keeps the conversation and the acknowledgements.
LEMMA DialogueStep ==
    ASSUME AttachmentInv, Next
    PROVE  \A c \in Terminals : Dialogue(c)' /\ Acks(c)'
<1> SUFFICES ASSUME NEW c \in Terminals, Peer(c)'
             PROVE  /\ Talk(mode'[c], up'[c], down'[c], relay')
                    /\ Owes(mode'[c], holding'[c], up'[c], down'[c], relay')
  BY TalkIs, OwesIs
<1>1. CASE RelayStep \/ OwnerStep
  <2>1. mode' = mode /\ holding' = holding
    BY <1>1, RelayFrame, OwnerFrame
  <2>2. QED BY <1>1, <2>1, TalkStepOfOwner
<1>2. CASE TerminalStep(c)
  BY <1>2, TalkStepOfTerminal
<1>3. CASE \E t \in Terminals \ {c} : TerminalStep(t)
  <2>1. PICK t \in Terminals \ {c} : TerminalStep(t)
    BY <1>3
  <2>2. /\ relay' = relay /\ mode'[c] = mode[c] /\ holding'[c] = holding[c]
        /\ up'[c] = up[c] /\ down'[c] = down[c]
    BY <2>1, TerminalFrame, TerminalAlone DEF AttachmentInv, AttachTypeOK
  <2>3. Peer(c) /\ Dialogue(c) /\ Acks(c)
    BY <2>2 DEF Peer, AttachmentInv
  <2>4. QED BY <2>2, <2>3, TalkIs, OwesIs
<1>4. QED BY <1>1, <1>2, <1>3 DEF Next

(***************************************************************************)
(* What is on its way to a terminal was written since it was activated.    *)
(***************************************************************************)
AllFrom(s, n)     == \A k \in 1..Len(s) : s[k] >= n
OutputsFrom(d, n) == \A k \in 1..Len(d) : d[k].type = "output" => d[k].tag >= n

\* The private terminal's output, with one more and without its first.
LEMMA AllFromStep ==
    ASSUME NEW s \in Seq(1..MaxGeneration), NEW n \in 0..MaxGeneration, AllFrom(s, n)
    PROVE  /\ \A x \in 1..MaxGeneration : x >= n => AllFrom(Append(s, x), n)
           /\ s # <<>> => AllFrom(Tail(s), n) /\ Head(s) >= n
<1>1. ASSUME NEW x \in 1..MaxGeneration, x >= n PROVE AllFrom(Append(s, x), n)
  <2>1. /\ Len(s) \in Nat /\ Len(Append(s, x)) = Len(s) + 1
        /\ \A k \in 1..Len(s) : Append(s, x)[k] = s[k]
        /\ Append(s, x)[Len(s) + 1] = x
    BY AppendIs
  <2>2. \A k \in 1..Len(s) + 1 : k \in 1..Len(s) \/ k = Len(s) + 1
    BY <2>1
  <2>3. QED BY <1>1, <2>1, <2>2 DEF AllFrom
<1>2. ASSUME s # <<>> PROVE AllFrom(Tail(s), n) /\ Head(s) >= n
  <2>1. /\ Len(s) \in Nat \ {0} /\ Len(Tail(s)) = Len(s) - 1
        /\ \A k \in 1..Len(s) - 1 : Tail(s)[k] = s[k + 1]
        /\ Head(s) = s[1]
    BY <1>2, TailIs
  <2>2. 1 \in 1..Len(s) /\ \A k \in 1..Len(s) - 1 : k + 1 \in 1..Len(s)
    BY <2>1
  <2>3. QED BY <2>1, <2>2 DEF AllFrom
<1>3. QED BY <1>1, <1>2

\* The output on its way, with one more frame and without its first.
LEMMA OutputsFromStep ==
    ASSUME NEW d \in Seq(ToTerminal), NEW n \in 0..MaxGeneration, OutputsFrom(d, n)
    PROVE  /\ \A f \in ToTerminal : (f.type = "output" => f.tag >= n) => OutputsFrom(Append(d, f), n)
           /\ d # <<>> => OutputsFrom(Tail(d), n) /\ (Head(d).type = "output" => Head(d).tag >= n)
<1>1. ASSUME NEW f \in ToTerminal, f.type = "output" => f.tag >= n PROVE OutputsFrom(Append(d, f), n)
  <2>1. /\ Len(d) \in Nat /\ Len(Append(d, f)) = Len(d) + 1
        /\ \A k \in 1..Len(d) : Append(d, f)[k] = d[k]
        /\ Append(d, f)[Len(d) + 1] = f
    BY AppendIs
  <2>2. \A k \in 1..Len(d) + 1 : k \in 1..Len(d) \/ k = Len(d) + 1
    BY <2>1
  <2>3. QED BY <1>1, <2>1, <2>2 DEF OutputsFrom
<1>2. ASSUME d # <<>> PROVE OutputsFrom(Tail(d), n) /\ (Head(d).type = "output" => Head(d).tag >= n)
  <2>1. /\ Len(d) \in Nat \ {0} /\ Len(Tail(d)) = Len(d) - 1
        /\ \A k \in 1..Len(d) - 1 : Tail(d)[k] = d[k + 1]
        /\ Head(d) = d[1]
    BY <1>2, TailIs
  <2>2. 1 \in 1..Len(d) /\ \A k \in 1..Len(d) - 1 : k + 1 \in 1..Len(d)
    BY <2>1
  <2>3. QED BY <2>1, <2>2 DEF OutputsFrom
<1>3. QED BY <1>1, <1>2

\* Freshness by sequences, before and after a step.
LEMMA FreshIs ==
    ASSUME NEW c \in Terminals
    PROVE  /\ Fresh(c) <=>
                /\ since[c] <= relay.generation /\ (holding[c] # 0 => holding[c] >= since[c])
                /\ OutputsFrom(down[c], since[c])
                /\ relay.peer = c /\ Output =>
                      screen >= since[c] /\ AllFrom(ptyOut, since[c])
                      /\ (relay.output.type = "output" => relay.output.tag >= since[c])
           /\ Fresh(c)' <=>
                /\ since'[c] <= relay'.generation /\ (holding'[c] # 0 => holding'[c] >= since'[c])
                /\ OutputsFrom(down'[c], since'[c])
                /\ relay'.peer = c /\ Output' =>
                      screen' >= since'[c] /\ AllFrom(ptyOut', since'[c])
                      /\ (relay'.output.type = "output" => relay'.output.tag >= since'[c])
BY DEF Fresh, OutputsFrom, AllFrom

\* Reservations are counted up, and the last activation is one of them.
LEMMA GenerationGrows ==
    ASSUME AttachTypeOK, Next
    PROVE  relay'.generation \in Nat /\ relay'.generation >= relay.generation
<1> USE DEF AttachTypeOK
<1>0. relay.generation \in Nat
  BY RelayIs
<1>1. CASE PeerDrop \/ RelayClose
  BY <1>0, <1>1, VacantIsFree DEF PeerDrop, RelayClose
<1>2. CASE PeerWrite /\ ~PeerDrop
  BY <1>0, <1>2, WrittenFields DEF PeerWrite
<1>3. CASE PeerRead /\ ~PeerDrop
  <2>1. Head(up[relay.peer]) \in FromTerminal
    BY <1>3, RelayIs, WiresAre DEF PeerRead
  <2>2. relay' = Received(Head(up[relay.peer]))
    BY <1>3 DEF PeerRead
  <2>3. relay'.generation = relay.generation
    BY <2>1, <2>2, ReceivedFields
  <2>4. QED BY <1>0, <2>3
<1>4. CASE MasterWrite \/ MasterRead
  BY <1>0, <1>4, MasterWriteFields, PresentedFields DEF MasterRead
<1>5. CASE ViewReserve
  <2>1. relay'.generation = relay.generation + 1
    BY <1>5 DEF ViewReserve, RelayTypes, Relays
  <2>2. QED BY <1>0, <2>1
<1>6. CASE Rebind
  BY <1>0, <1>6, ActivatedFields DEF Rebind, Activate
<1>7. CASE Control
  BY <1>0, <1>7, PresentedFields, QueuedFields DEF Control
<1>8. CASE Candidate
  <2>1. \/ relay' = relay
        \/ relay' = [Vacant(relay.generation + 1) EXCEPT !.peer = reject.who, !.phase = "reserved",
                                                         !.handshake = TRUE, !.output = Frame("ready")]
    BY <1>8 DEF Candidate
  <2>1a. relay'.generation \in {relay.generation, relay.generation + 1}
    BY <2>1, ReservedFields
  <2>2. QED BY <1>0, <2>1a
<1>9. CASE relay' = relay
  BY <1>0, <1>9
<1>10. CASE RelayStep
  BY <1>1, <1>2, <1>3, <1>4, <1>8, <1>9, <1>10 DEF RelayStep, PeerHangup, Expire, RejectExpire,
     Accept, CandidateReply, relayVars
<1>11. CASE OwnerStep
  BY <1>1, <1>5, <1>6, <1>7, <1>9, <1>11 DEF OwnerStep, EngineStep, Service, Write, ViewBind,
     ViewRelease, TakePending, History, Ready, TakeLine, Flushed, GiveUp, relayVars
<1>12. CASE \E c \in Terminals : TerminalStep(c)
  BY <1>9, <1>12, TerminalFrame
<1>13. QED BY <1>10, <1>11, <1>12 DEF Next

\* Activations are of reservations that were made.
LEMMA ScreenStep ==
    ASSUME AttachmentInv, Next
    PROVE  screen' <= relay'.generation
<1> USE DEF AttachmentInv, AttachTypeOK
<1>1. relay'.generation \in Nat /\ relay'.generation >= relay.generation /\ relay.generation \in Nat
      /\ screen \in Nat
  BY GenerationGrows, RelayIs DEF GhostTypes
<1>2. screen' \in {screen, relay.generation}
  <2>1. CASE Rebind
    BY <2>1 DEF Rebind, Activate
  <2>2. CASE ~Rebind
    BY <2>2, RelayFrame, TerminalFrame DEF Next, OwnerStep, EngineStep, Service, Write, ViewReserve,
       ViewBind, ViewRelease, TakePending, History, Ready, TakeLine, Control, Flushed, GiveUp,
       RelayClose, ghostVars
  <2>3. QED BY <2>1, <2>2
<1>3. QED BY <1>1, <1>2

\* How a terminal comes to have output, and what of it the relay then holds.
LEMMA OutputIs ==
    ASSUME AttachmentInv, RelayStep \/ OwnerStep, NEW c \in Terminals, relay'.peer = c, Output'
    PROVE  \/ /\ relay.peer = c /\ Output /\ screen' = screen
              /\ \/ ptyOut' = ptyOut
                 \/ ptyOut' = Append(ptyOut, screen)
                 \/ ptyOut # <<>> /\ ptyOut' = Tail(ptyOut)
              /\ \/ relay'.output.type # "output"
                 \/ relay'.output = relay.output
                 \/ ptyOut # <<>> /\ relay'.output.tag = Head(ptyOut)
           \/ ptyOut' = <<>> /\ screen' = relay'.generation /\ relay'.output.type # "output"
<1> USE DEF AttachmentInv, AttachTypeOK
<1>1. c # NoOne
  BY AttachAssumption DEF AttachAssumption
<1>2. ~PeerDrop /\ ~RelayClose
  BY <1>1, VacantIsFree DEF PeerDrop, RelayClose
<1>3. Output => relay.phase \in {"attached", "accepted"}
  BY DEF Output
<1>4. CASE PeerWrite
  BY <1>2, <1>4, WrittenFields DEF PeerWrite, Output, ghostVars, ptyVars
<1>5. CASE PeerRead
  <2>1. relay' = Received(Head(up[relay.peer])) /\ relay.peer \in Terminals
    BY <1>5, PeerReads
  <2>2. Head(up[relay.peer]) \in FromTerminal /\ Understood(Head(up[relay.peer]))
    BY <1>2, <1>5, <2>1, WiresAre DEF PeerRead
  <2>3. relay'.peer = relay.peer /\ relay'.output = relay.output
        /\ relay'.phase = (CASE Head(up[relay.peer]) = "commit" -> "repaint"
                             [] Head(up[relay.peer]) = "bound" -> "attached" [] OTHER -> relay.phase)
    BY <2>1, <2>2, ReceivedFields
  <2>4. Head(up[relay.peer]) = "bound" => relay.phase = "accepted"
    BY <2>2 DEF Understood, Lines
  <2>5. UNCHANGED <<ptyOut, screen>>
    BY <1>5 DEF PeerRead, ptyVars
  <2>6. QED BY <2>3, <2>4, <2>5 DEF Output
<1>6. CASE MasterWrite
  BY <1>6, MasterWriteFields DEF MasterWrite, Output, ghostVars
<1>7. CASE MasterRead
  BY <1>7, PresentedFields DEF MasterRead, Output, ghostVars
<1>8. CASE Candidate /\ MayReserve
  BY <1>8, ReservedFields DEF Candidate, Output
<1>9. CASE Rebind
  <2>1. CASE Activate
    BY <1>9, <2>1, ActivatedFields DEF Rebind, Activate
  <2>2. CASE UNCHANGED <<relay, ptyOut, screen>>
    BY <2>2 DEF Output
  <2>3. QED BY <1>9, <2>1, <2>2 DEF Rebind
<1>10. CASE Control
  <2>1. ControlType \in {"detach", "exit", "switch", "suspend"}
    BY <1>10 DEF Control, ControlType, Lines
  <2>2. screen' = screen
    BY <1>10 DEF Control, ghostVars
  <2>3. CASE relay' = relay /\ ptyOut' = ptyOut
    BY <2>2, <2>3 DEF Output
  <2>4. CASE Output /\ ptyOut # <<>> /\ relay' = Presented /\ ptyOut' = Tail(ptyOut)
    BY <2>2, <2>4, PresentedFields
  <2>5. CASE relay' = ControlQueued(ControlType) /\ ptyOut' = ptyOut
    BY <2>1, <2>2, <2>5, QueuedFields DEF Output
  <2>6. QED BY <1>10, <2>3, <2>4, <2>5 DEF Control
<1>11. CASE ViewReserve
  BY <1>1, <1>11 DEF ViewReserve, RelayTypes, Relays
<1>12. CASE Write \/ History
  BY <1>12 DEF Write, History, relayVars, ghostVars, Output
<1>13. CASE UNCHANGED <<relay, ptyOut, screen>>
  BY <1>13 DEF Output
<1>14. CASE RelayStep
  BY <1>2, <1>4, <1>5, <1>6, <1>7, <1>8, <1>13, <1>14 DEF RelayStep, PeerHangup, Expire,
     RejectExpire, Accept, Candidate, CandidateReply, relayVars, ptyVars, ghostVars
<1>15. CASE OwnerStep
  BY <1>2, <1>9, <1>10, <1>11, <1>12, <1>13, <1>15 DEF OwnerStep, EngineStep, Service, ViewBind,
     ViewRelease, TakePending, Ready, TakeLine, Flushed, GiveUp, relayVars, ptyVars, ghostVars
<1>16. QED BY <1>14, <1>15

\* The relay and its owner write nothing older than the reservation.
LEMMA FreshStepOfOwner ==
    ASSUME AttachmentInv, RelayStep \/ OwnerStep, NEW c \in Terminals
    PROVE  Fresh(c)'
<1> USE DEF AttachmentInv, AttachTypeOK
<1>1. mode' = mode /\ holding' = holding
  BY RelayFrame, OwnerFrame
<1>2. /\ Legible(c) /\ Fresh(c) /\ down[c] \in Seq(ToTerminal) /\ relay.generation \in Nat
      /\ since[c] \in 0..MaxGeneration /\ holding[c] \in Nat /\ screen \in 1..MaxGeneration
      /\ ptyOut \in Seq(1..MaxGeneration)
  BY WiresAre, RelayIs DEF GhostTypes, TerminalTypes, PtyTypes
<1>3. relay'.generation \in Nat /\ relay'.generation >= relay.generation
  BY GenerationGrows DEF Next
<1>4. CASE Candidate /\ MayReserve /\ reject.who = c
  <2>1. /\ relay'.phase = "reserved" /\ relay'.generation = relay.generation + 1
        /\ since'[c] = relay.generation + 1 /\ down' = down
    BY <1>4, ReservedFields DEF Candidate, GhostTypes
  <2>2. mode[c] \in {"reserving", "moving"} /\ down[c] = <<>>
    BY <1>4 DEF CallersInv, Candidate
  <2>3. holding[c] = 0
    BY <1>2, <2>2 DEF Legible
  <2>4. OutputsFrom(down[c], since'[c])
    <3>1. Len(<<>>) = 0
      OBVIOUS
    <3>2. QED BY <2>2, <3>1 DEF OutputsFrom
  <2>5. ~Output'
    BY <2>1 DEF Output
  <2>6. QED BY <1>1, <1>2, <2>1, <2>3, <2>4, <2>5, FreshIs
<1>5. CASE ~(Candidate /\ MayReserve /\ reject.who = c)
  <2>1. since'[c] = since[c]
    <3>1. CASE Candidate
      BY <1>5, <3>1 DEF Candidate, GhostTypes
    <3>2. CASE ~Candidate
      BY <3>2, OwnerFrame DEF RelayStep, PeerWrite, PeerHangup, PeerRead, MasterWrite, MasterRead,
         Expire, RejectExpire, Accept, CandidateReply, ghostVars
    <3>3. QED BY <3>1, <3>2
  <2>2. since'[c] <= relay'.generation
    BY <1>2, <1>3, <2>1, FreshIs
  <2>3. OutputsFrom(down'[c], since'[c])
    <3>1. OutputsFrom(down[c], since[c])
      BY <1>2, FreshIs
    <3>2. CASE down'[c] = down[c]
      BY <2>1, <3>1, <3>2
    <3>3. CASE PeerWrite /\ down'[c] # down[c]
      <4>1. relay.peer = c /\ down'[c] = Append(down[c], relay.output)
        BY <3>3 DEF PeerWrite, WireTypes
      <4>2. relay.output \in ToTerminal
        BY RelayIs
      <4>3. c # NoOne
        BY AttachAssumption DEF AttachAssumption
      <4>4. relay.output.type = "output" => Output
        BY <4>1, <4>3, PhasesAre DEF PhaseInv, Ends, Output
      <4>5. relay.output.type = "output" => relay.output.tag >= since[c]
        BY <1>2, <4>1, <4>4, FreshIs
      <4>6. QED BY <1>2, <2>1, <3>1, <4>1, <4>2, <4>5, OutputsFromStep
    <3>4. CASE CandidateReply /\ down'[c] # down[c]
      <4>1. down'[c] = Append(down[c], Frame("busy"))
        BY <3>4 DEF CandidateReply, WireTypes
      <4>2. Frame("busy") \in ToTerminal /\ Frame("busy").type = "busy"
        BY FramesAre DEF Frame, Controls
      <4>3. QED BY <1>2, <2>1, <3>1, <4>1, <4>2, OutputsFromStep
    <3>5. down'[c] = down[c] \/ PeerWrite \/ CandidateReply
      BY OwnerFrame DEF RelayStep, PeerHangup, PeerRead, MasterWrite, MasterRead,
         Expire, RejectExpire, Accept, Candidate, wireVars
    <3>6. QED BY <3>2, <3>3, <3>4, <3>5
  <2>4. ASSUME relay'.peer = c, Output'
        PROVE  /\ screen' >= since'[c] /\ AllFrom(ptyOut', since'[c])
               /\ relay'.output.type = "output" => relay'.output.tag >= since'[c]
    <3>1. CASE /\ relay.peer = c /\ Output /\ screen' = screen
               /\ \/ ptyOut' = ptyOut
                  \/ ptyOut' = Append(ptyOut, screen)
                  \/ ptyOut # <<>> /\ ptyOut' = Tail(ptyOut)
               /\ \/ relay'.output.type # "output"
                  \/ relay'.output = relay.output
                  \/ ptyOut # <<>> /\ relay'.output.tag = Head(ptyOut)
      <4>1. /\ screen >= since[c] /\ AllFrom(ptyOut, since[c])
            /\ relay.output.type = "output" => relay.output.tag >= since[c]
        BY <1>2, <3>1, FreshIs
      <4>2. /\ AllFrom(Append(ptyOut, screen), since[c])
            /\ ptyOut # <<>> => AllFrom(Tail(ptyOut), since[c]) /\ Head(ptyOut) >= since[c]
        BY <1>2, <4>1, AllFromStep
      <4>3. QED BY <2>1, <3>1, <4>1, <4>2
    <3>2. CASE ptyOut' = <<>> /\ screen' = relay'.generation /\ relay'.output.type # "output"
      <4>1. Len(<<>>) = 0
        OBVIOUS
      <4>2. AllFrom(ptyOut', since'[c])
        BY <3>2, <4>1 DEF AllFrom
      <4>3. screen' >= since'[c]
        BY <1>2, <1>3, <2>1, <2>2, <3>2
      <4>4. QED BY <3>2, <4>2, <4>3
    <3>3. QED BY <2>4, <3>1, <3>2, OutputIs
  <2>5. holding'[c] # 0 => holding'[c] >= since'[c]
    BY <1>1, <1>2, <2>1, FreshIs
  <2>6. QED BY <2>2, <2>3, <2>4, <2>5, FreshIs
<1>6. QED BY <1>4, <1>5

\* A terminal that comes back is behind everything it was sent before.
LEMMA FreshStepOfTerminal ==
    ASSUME AttachmentInv, NEW c \in Terminals, TerminalStep(c)
    PROVE  Fresh(c)'
<1> USE DEF AttachmentInv, AttachTypeOK
<1>1. relay' = relay /\ ptyOut' = ptyOut /\ screen' = screen
  BY TerminalFrame
<1>2. /\ Legible(c) /\ Fresh(c) /\ Dialogue(c) /\ up[c] \in Seq(FromTerminal)
      /\ down[c] \in Seq(ToTerminal) /\ relay.generation \in 0..MaxGeneration
      /\ since[c] \in 0..MaxGeneration /\ holding[c] \in Nat
  BY WiresAre, RelayIs DEF GhostTypes, TerminalTypes
<1>3. CASE Continue(c)
  <2>1. mode[c] = "suspended" /\ since'[c] = relay.generation /\ down' = down /\ holding' = holding
    BY <1>3 DEF Continue, GhostTypes
  <2>2. holding[c] = 0
    BY <1>2, <2>1 DEF Legible
  <2>3. \A k \in 1..Len(down[c]) : down[c][k].type # "output"
    BY <1>2, <2>1 DEF Legible, Takes, Ends
  <2>4. OutputsFrom(down[c], since'[c])
    BY <2>3 DEF OutputsFrom
  <2>5. relay.peer = c => ~Output
    <3>1. relay.peer = c => Talk(mode[c], up[c], down[c], relay)
      BY <1>2, <2>1, TalkIs DEF Peer
    <3>2. QED BY <2>1, <3>1 DEF Talk, Accepts, Output
  <2>6. relay'.peer = c => ~Output'
    BY <1>1, <2>5 DEF Output
  <2>7. since'[c] <= relay'.generation /\ holding'[c] = 0 /\ OutputsFrom(down'[c], since'[c])
    BY <1>1, <1>2, <2>1, <2>2, <2>4
  <2>8. QED BY <2>6, <2>7, FreshIs
<1>4. CASE ~Continue(c)
  <2>1. since' = since
    BY <1>4 DEF TerminalStep, Leave, Attach, TargetRead, Bind, ReadOutput, Show, ReadControl, Type,
       SwitchFails, SwitchAccepted, Drain, ReadEnd, ghostVars
  <2>2. OutputsFrom(down[c], since[c]) /\ (holding[c] # 0 => holding[c] >= since[c])
    BY <1>2, FreshIs
  <2>3. \/ down'[c] = down[c] \/ down'[c] = <<>>
        \/ down[c] # <<>> /\ down'[c] = Tail(down[c])
    BY <1>4 DEF TerminalStep, Leave, Attach, TargetRead, Bind, ReadOutput, Show, ReadControl, Type,
       SwitchFails, SwitchAccepted, Drain, ReadEnd, Close, wireVars, WireTypes
  <2>4. OutputsFrom(<<>>, since[c])
    <3>1. Len(<<>>) = 0
      OBVIOUS
    <3>2. QED BY <3>1 DEF OutputsFrom
  <2>5. OutputsFrom(down'[c], since[c])
    BY <1>2, <2>2, <2>3, <2>4, OutputsFromStep
  <2>6. holding'[c] # 0 => holding'[c] >= since[c]
    <3>1. CASE ReadOutput(c)
      <4>1. \/ holding'[c] = 0
            \/ down[c] # <<>> /\ Head(down[c]).type = "output" /\ holding'[c] = Head(down[c]).tag
        BY <3>1 DEF ReadOutput, Close, TerminalTypes
      <4>2. down[c] # <<>> /\ Head(down[c]).type = "output" => Head(down[c]).tag >= since[c]
        BY <1>2, <2>2, OutputsFromStep
      <4>3. QED BY <4>1, <4>2
    <3>2. CASE ~ReadOutput(c)
      <4>1. holding'[c] \in {holding[c], 0}
        BY <1>4, <3>2 DEF TerminalStep, Leave, Attach, TargetRead, Bind, Show, ReadControl, Type,
           SwitchFails, SwitchAccepted, Drain, ReadEnd, Close, TerminalTypes
      <4>2. QED BY <2>2, <4>1
    <3>3. QED BY <3>1, <3>2
  <2>7. /\ since[c] <= relay.generation
        /\ relay.peer = c /\ Output =>
              screen >= since[c] /\ AllFrom(ptyOut, since[c])
              /\ (relay.output.type = "output" => relay.output.tag >= since[c])
    BY <1>2, FreshIs
  <2>8. Output' = Output
    BY <1>1 DEF Output
  <2>9. QED BY <1>1, <2>1, <2>5, <2>6, <2>7, <2>8, FreshIs
<1>5. QED BY <1>3, <1>4

\* Every step keeps what is on its way fresh.
LEMMA FreshStep ==
    ASSUME AttachmentInv, Next
    PROVE  \A c \in Terminals : Fresh(c)'
<1> SUFFICES ASSUME NEW c \in Terminals PROVE Fresh(c)'
  OBVIOUS
<1>1. CASE RelayStep \/ OwnerStep
  BY <1>1, FreshStepOfOwner
<1>2. CASE TerminalStep(c)
  BY <1>2, FreshStepOfTerminal
<1>3. CASE \E t \in Terminals \ {c} : TerminalStep(t)
  <2>1. PICK t \in Terminals \ {c} : TerminalStep(t)
    BY <1>3
  <2>2. /\ relay' = relay /\ ptyOut' = ptyOut /\ screen' = screen /\ holding'[c] = holding[c]
        /\ since'[c] = since[c] /\ down'[c] = down[c]
    BY <2>1, TerminalFrame, TerminalAlone DEF AttachmentInv, AttachTypeOK
  <2>3. Output' = Output
    BY <2>2 DEF Output
  <2>4. Fresh(c)
    BY DEF AttachmentInv
  <2>5. QED BY <2>2, <2>3, <2>4, FreshIs
<1>4. QED BY <1>1, <1>2, <1>3 DEF Next

(***************************************************************************)
(* The invariant.                                                          *)
(***************************************************************************)
\* A session starts with its first terminal attached and nothing said.
LEMMA AttachmentStarts == AttachInit => AttachmentInv
<1> SUFFICES ASSUME AttachInit PROVE AttachmentInv
  OBVIOUS
<1>1. /\ NoOne \notin Terminals /\ Terminals # {} /\ MaxGeneration \in Nat \ {0} /\ MaxLines \in Nat
  BY AttachAssumption DEF AttachAssumption
<1>2. PICK p \in Terminals : p = CHOOSE t \in Terminals : TRUE
  BY <1>1
<1>3. /\ relay = [Vacant(1) EXCEPT !.peer = p, !.phase = "attached"]
      /\ mode = [t \in Terminals |-> IF t = p THEN "bound" ELSE "away"]
      /\ since = [t \in Terminals |-> IF t = p THEN 1 ELSE 0]
      /\ event = "none" /\ backlog = {} /\ reject = NoCandidate /\ view = "none"
      /\ ptyOut = <<>> /\ ptyIn = <<>>
      /\ display = [pending |-> 0, attachment |-> 1, barrier |-> FALSE, listening |-> TRUE]
      /\ engine = Idle
      /\ up = [t \in Terminals |-> <<>>] /\ down = [t \in Terminals |-> <<>>]
      /\ lines = MaxLines /\ holding = [t \in Terminals |-> 0]
      /\ screen = 1 /\ misread = {}
  BY <1>2 DEF AttachInit
<1>4. /\ relay = [peer |-> p, phase |-> "attached", generation |-> 1, handshake |-> FALSE,
                  output |-> NoFrame, unacked |-> FALSE, input |-> "none", closing |-> FALSE]
      /\ NoFrame.type = "none" /\ NoCandidate.who = NoOne /\ ~NoCandidate.busy
  BY <1>3 DEF Vacant, NoFrame, Frame, NoCandidate
<1>4a. /\ relay.peer = p /\ relay.phase = "attached" /\ relay.generation = 1 /\ ~relay.handshake
       /\ relay.output = NoFrame /\ ~relay.unacked /\ ~relay.closing
       /\ display.attachment = 1 /\ display.pending = 0
  <2>1. /\ relay.peer = p /\ relay.phase = "attached" /\ relay.generation = 1 /\ ~relay.handshake
        /\ relay.output = NoFrame /\ ~relay.unacked /\ ~relay.closing
    BY <1>4
  <2>2. display.attachment = 1 /\ display.pending = 0
    BY <1>3
  <2>3. QED BY <2>1, <2>2
<1>5. 1 \in 1..MaxGeneration /\ 0 \in 0..MaxGeneration /\ 1 \in 0..MaxGeneration
  BY <1>1
<1>6. AttachTypeOK
  <2>1. RelayTypes
    <3>1. NoFrame \in ToTerminal
      BY FramesAre
    <3>2. relay \in Relays
      BY <1>4, <1>5, <3>1 DEF Relays, Phases
    <3>3. QED BY <1>3, <3>2 DEF RelayTypes
  <2>2. CallerTypes
    BY <1>3, CandidatesAre DEF CallerTypes
  <2>3. PtyTypes
    BY <1>3, EmptySeq DEF PtyTypes
  <2>4. OwnerTypes
    BY <1>3, <1>5 DEF OwnerTypes, Displays, Engines, Idle
  <2>5. TerminalTypes
    BY <1>1, <1>3, <1>5 DEF TerminalTypes, Modes
  <2>6. WireTypes
    BY <1>3, NoneIs DEF WireTypes
  <2>7. GhostTypes
    BY <1>3, <1>5 DEF GhostTypes
  <2>8. QED BY <2>1, <2>2, <2>3, <2>4, <2>5, <2>6, <2>7 DEF AttachTypeOK
<1>7. PhaseInv
  BY <1>1, <1>4 DEF PhaseInv, Writes, Ends
<1>8. CallersInv
  BY <1>1, <1>3, <1>4 DEF CallersInv
<1>9. DisplayInv
  BY <1>3, <1>4a DEF DisplayInv, NamesController
<1>10. ASSUME NEW c \in Terminals PROVE Legible(c) /\ Dialogue(c) /\ Acks(c) /\ Fresh(c)
  <2>1. /\ up[c] = <<>> /\ down[c] = <<>> /\ holding[c] = 0 /\ Len(<<>>) = 0
        /\ mode[c] = IF c = p THEN "bound" ELSE "away"
        /\ since[c] = IF c = p THEN 1 ELSE 0
    BY <1>3, <1>10
  <2>2. Legible(c)
    BY <2>1 DEF Legible
  <2>3. ASSUME Peer(c)
        PROVE  /\ Talk(mode[c], up[c], down[c], relay)
               /\ Owes(mode[c], holding[c], up[c], down[c], relay)
    <3>1. mode[c] = "bound"
      BY <2>1, <2>3 DEF Peer
    <3>2. QED BY <1>4, <2>1, <3>1, NothingSaid DEF Talk, Owes
  <2>4. OutputsFrom(<<>>, since[c]) /\ AllFrom(<<>>, since[c])
    BY <2>1 DEF OutputsFrom, AllFrom
  <2>5. Fresh(c)
    <3>1. relay.output.type # "output" /\ since[c] <= 1
      BY <1>4, <1>4a, <2>1
    <3>2. /\ since[c] <= relay.generation /\ screen >= since[c]
          /\ OutputsFrom(down[c], since[c]) /\ AllFrom(ptyOut, since[c])
      BY <1>3, <1>4a, <2>1, <2>4, <3>1
    <3>3. QED BY <2>1, <3>1, <3>2, FreshIs
  <2>6. QED BY <2>2, <2>3, <2>5, TalkIs, OwesIs
<1>11. screen <= relay.generation
  BY <1>3, <1>4a
<1>12. engine.at # "control"
  BY <1>3 DEF Idle
<1>13. QED BY <1>3, <1>6, <1>7, <1>8, <1>9, <1>10, <1>11, <1>12 DEF AttachmentInv

\* The invariant is inductive.
LEMMA AttachmentStays ==
    ASSUME AttachmentInv, [Next]_vars
    PROVE  AttachmentInv'
<1>1. CASE Next
  <2>1. AttachTypeOK'
    BY <1>1, StepTypes DEF AttachmentInv
  <2>2. PhaseInv' /\ CallersInv' /\ DisplayInv'
    BY <1>1, PhaseStep, CallersStep, DisplayStep DEF AttachmentInv
  <2>3. \A c \in Terminals : Legible(c)' /\ Dialogue(c)' /\ Acks(c)' /\ Fresh(c)'
    BY <1>1, LegibleStep, DialogueStep, FreshStep
  <2>4. (engine.at = "control" => engine.line \in Lines \ {"text", "none"})'
    BY <1>1, CommandStep DEF AttachmentInv
  <2>5. screen' <= relay'.generation /\ misread' = {}
    BY <1>1, ScreenStep, NothingMisread
  <2>6. QED BY <2>1, <2>2, <2>3, <2>4, <2>5 DEF AttachmentInv
<1>2. CASE UNCHANGED vars
  <2>1. UNCHANGED <<relay, event, backlog, reject, view, ptyOut, ptyIn, display, engine, mode, lines,
                    holding, up, down, screen, since, misread>>
    BY <1>2 DEF vars, relayVars, callerVars, ptyVars, ownerVars, terminalVars, wireVars, ghostVars
  <2>2. AttachTypeOK'
    BY <2>1 DEF AttachmentInv, AttachTypeOK, RelayTypes, CallerTypes, PtyTypes, OwnerTypes,
       TerminalTypes, WireTypes, GhostTypes
  <2>3. PhaseInv' /\ CallersInv'
    BY <2>1 DEF AttachmentInv, PhaseInv, Writes, CallersInv
  <2>4. DisplayInv'
    BY <2>1 DEF AttachmentInv, DisplayInv, NamesController
  <2>5. ASSUME NEW c \in Terminals PROVE Legible(c)' /\ Dialogue(c)' /\ Acks(c)' /\ Fresh(c)'
    <3>1. Legible(c) /\ Dialogue(c) /\ Acks(c) /\ Fresh(c)
      BY DEF AttachmentInv
    <3>2. Peer(c)' = Peer(c) /\ Output' = Output
      BY <2>1 DEF Peer, Output
    <3>3. Legible(c)'
      BY <2>1, <3>1 DEF Legible, Sent, FirstIsReady
    <3>4. Dialogue(c)' /\ Acks(c)'
      BY <2>1, <3>1, <3>2, TalkIs, OwesIs
    <3>5. Fresh(c)'
      BY <2>1, <3>1, <3>2, FreshIs
    <3>6. QED BY <3>3, <3>4, <3>5
  <2>6. QED BY <2>1, <2>2, <2>3, <2>4, <2>5 DEF AttachmentInv
<1>3. QED BY <1>1, <1>2

\* The relay, its owner, each terminal and the frames between them agree in every
\* state, for any number of terminals, reservations, frames and lines.
THEOREM AttachmentSafe == Spec => []AttachmentInv
<1>1. AttachInit => AttachmentInv
  BY AttachmentStarts
<1>2. AttachmentInv /\ [Next]_vars => AttachmentInv'
  BY AttachmentStays
<1>3. QED BY <1>1, <1>2, PTL DEF Spec

\* The state of an attachment keeps its types.
THEOREM AttachmentTypes == Spec => []AttachTypeOK
<1>1. AttachmentInv => AttachTypeOK
  BY DEF AttachmentInv
<1>2. QED BY <1>1, AttachmentSafe, PTL

\* A terminal shows nothing that was written before it was activated
\* (snag_session_relay_activate empties the private terminal), for any number of
\* terminals and reservations.
THEOREM ScreenIsFresh == Spec => []FreshScreen
<1>1. AttachmentInv => FreshScreen
  BY DEF AttachmentInv, Fresh, FreshScreen
<1>2. QED BY <1>1, AttachmentSafe, PTL

\* No frame meets a phase that does not take it (peer_message, peer_read and
\* target_read), in any order of suspensions, switches and replacements.
THEOREM NoFrameIsMisread == Spec => []FramesAreUnderstood
<1>1. AttachmentInv => FramesAreUnderstood
  BY DEF AttachmentInv, FramesAreUnderstood
<1>2. QED BY <1>1, AttachmentSafe, PTL

\* The generation that the engine reads as attached names the terminal or the
\* view that holds the session (session_service).
THEOREM ControllerIsNamed == Spec => []AttachmentNamesItsController
<1>1. AttachmentInv => AttachmentNamesItsController
  BY DEF AttachmentInv, DisplayInv, NamesController, AttachmentNamesItsController, NoEvent
<1>2. QED BY <1>1, AttachmentSafe, PTL
===============================================================================
