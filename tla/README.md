# Verified models of snajpagent's core

snajpagent is a terminal agent written in C.  It keeps every session in a
durable journal of events, reduces those events into the state of the session,
drives turns against a model provider, runs tools and commands for the model,
serves rooms (IRC), and attaches and detaches terminals from a running session.
This directory holds TLA+ models of the parts that decide whether a session is
correct, TLC runs that check them on small instances, and proofs, checked by
TLAPS, of what matters most.  The source is the reference: every definition is
translated from the code `PROJECT.json` names for it under "map".

    tlc -workers 2 -config MCSessionTools.cfg   MCSession.tla
    tlc -workers 2 -config MCSessionInput.cfg   MCSession.tla
    tlc -workers 2 -config MCSessionContext.cfg MCSession.tla
    tlc -workers 2 -config MCJournal.cfg        MCJournal.tla
    tlc -workers 2 -config MCCheckpointStore.cfg MCCheckpointStore.tla
    tlc -workers 2 -config MCCheckpointHeavy.cfg MCCheckpointStore.tla   (finds a violation)
    tlc -workers 2 -config MCTurnTools.cfg      MCTurnDriver.tla
    tlc -workers 2 -config MCTurnRetry.cfg      MCTurnDriver.tla
    tlc -workers 2 -config MCTurnRestart.cfg    MCTurnDriver.tla
    tlc -workers 2 -config MCTurnHeld.cfg       MCTurnDriver.tla        (finds a violation)
    tlc -workers 2 -config MCTurnClose.cfg      MCTurnDriver.tla        (finds a violation)
    tlc -workers 2 -config MCAttachment.cfg     MCAttachment.tla
    tlapm SessionProofs.tla
    tlapm JournalFileProofs.tla
    tlapm JournalProofs.tla
    tlapm CheckpointFileProofs.tla
    tlapm CheckpointProofs.tla
    tlapm AttachmentProofs.tla
    tlapm DriverProofs.tla

## Inventory of the system

Paths are below `src/src/`.

| Component | State it keeps | Operations | Modelled |
|---|---|---|---|
| Session reducer: `store.c` (`apply_event`, `apply_staged_event`), `turn.c` | `struct snag_session`: active turn, response, pending calls, processes, steering, queue, prompt, goals, room watermarks, compaction | one branch per event type, each validates and stages, adopts only on success | yes, control state (`Session*`) |
| Native journal and I/O worker: `store_binary_io.c`, `store.c` (`commit_binary_session`, `binary_take`, `binary_ack_candidate`, `close_binary_session`), `store_binary_context.c` (open and recovery) | journal file, one request, anchors, candidate event | submit, retry, take, close; worker: encode, append, sync | yes, without the index (`Journal`) |
| Checkpoint publication and admission: `store_binary_publish.c`, `store_checkpoint.c`, `store_binary_checkpoint*.c` | two image slots, receipt ordinals, publication phase | submit, six publication steps, receipt, admission at open | yes, without the content of an image (`Checkpoint*`) |
| Native formats, replay, index and lookup: `store_binary*.c`, `store_lookup.c`, `store_record.c` | none beyond the files | encode, decode, scan, look up | as "a batch checks or does not" |
| Legacy journal, import and conversion: `store_binary_legacy.c`, `store_convert.c`, … | legacy journal | append with rollback, one-way import | planned |
| Session lifecycle and store directory: `store_lifecycle.c` | directories, locks | create, name, delete | no |
| Timers and goals of the application: `app_lifecycle.c` | pending timers | create, fire, cancel | goal events yes, timers planned |
| Turn driver: `app.c`, `app_running.c`, `app_events.c`, `app_stream.c` | where the loop is, the flags input leaves, attempts, the batch of calls, the closing of commands | emits the events of a turn: request, response, calls, hand-off, failure, retry, wait, cancel, recover | yes, without rooms, timers and the queue (`Turn*`) |
| Provider and retry: `provider.c`, `app_provider.c`, `provider_retry.c` | attempt count, back-off | request, stream, retry | outcomes as the driver sees them; retries inside a request planned |
| Context projection and compaction: `context.c`, `app_compact.c` | plan of a compaction | plan, send, shrink, commit | events, and one compaction for a request (`TurnCycle`) |
| Tools and process host: `tools*.c`, `process_host.c` | managed commands, children, output rings | start, write, wait, hand off, collect, close, signal, reap | commands as the driver sees them; children and output planned |
| Rooms: `irc.c`, `irc_runtime.c`, `app_irc*.c` | clients, queue of events, published and admitted counts | connect, publish, admit, drop | watermark yes, runtime planned |
| Session relay and client: `session_relay.c`, `session_host.c`, `session_client.c` | attached and candidate peer, phase, generation, lease; the client's side of each phase | reserve, commit, repaint, activate, bind, replace, suspend, switch, detach, exit, expire | yes, without voice, commands of the frontend and resizes (`Attachment`) |
| Terminal interface, virtual workspace, voice, upload, model cache, configuration, views, documents, platform | see `PROJECT.json` | | no |

### How the components interact

Terminals, rooms, timers, the provider and the tool runner never change a
session directly.  Each of them makes the engine thread *commit an event*:

1. `snag_session_commit` stages the event on a copy of the session and asks the
   reducer whether it is admissible (`apply_event`);
2. the staged event is encoded as a batch and handed to the session's I/O worker
   thread, which appends it to the journal and reports the boundary that is
   acknowledged;
3. when the acknowledgement is the staged boundary the engine adopts the staged
   session; otherwise the candidate is kept and retried, or the session faults.

Opening a session replays the verified prefix of its journal through the same
reducer.  Once enough events follow the newest receipt, the same call has the worker
publish an image of the session's state over the older of two slots and then
commits a receipt for that image as a record of the journal; opening starts from
the newest image that has a receipt near the journal's end and replays the rest.
So the reducer is the place where the order of events delivered by
concurrent drivers is decided, and the journal is the place where crashes and
I/O failures are absorbed, and the receipts keep the journal usable.  These are
the core and are modelled first.

### Behaviours that are hard

`PROJECT.json` lists them as "hazards", each at its line.  The ones the models
so far are for:

* steering that arrives while a response is streamed, between the last request
  of a turn and its end, or before a turn that never starts;
* calls of one response that finish in any order, commands that outlive the call
  that started them, and several calls on one command;
* a model selection that is changed while a response of the old one is open;
* a goal event that names a goal already finished or replaced;
* a write cut short by a failure, a crash or a loss of power, whose outcome the
  engine does not know, and the one retry of it;
* an answer of the worker that arrives when the wait for it has failed, and a
  close while a request is queued or running;
* an image published over one of two slots, whose receipt is committed later or
  never, among failures, retries and crashes at every step between;
* one wake-up descriptor for the completions of two duties of one worker.

* text, a control or Ctrl-C at any of the points where the one thread of the
  driver polls the terminal, between an event and the step that depends on it;
* a wave of calls admitted while commands end, are written to and are collected;
* a turn that fails, is corrected, waits, is begun again or is taken over by
  another process, each loop with a counter of its own;
* an event that cannot be written, with calls open and commands running;
* a terminal that dies, stalls, is replaced or suspended between the request for a
  repaint and its activation, with frames of either side under way;
* a control or output that waits for a terminal which never answers.

Still to come are retries inside a provider request and the counters of the
rooms' runtime.

### What makes each component correct

* reducer: nothing of a turn survives it; a call that is owed a result can be
  given one; results go to the call they belong to; accepted input is shown to
  the model or visibly discarded; a read-only turn runs nothing that writes; an
  answer is accounted to the model that gave it; finished goals stay finished;
  room events are never taken as read before they are received;
* journal: an adopted event survives a crash; an event is stored at most once;
  nothing is stored that was not adopted except the one candidate; commit and
  close return;
* checkpoints: whatever is interrupted, one admissible image remains, and it is
  the newest that ever was; generations are never reused; a session that cannot
  make images stops growing; a completion is never lost behind another's wake-up;
* turn driver: the reducer refuses nothing it commits; a command never loses its
  owner; text accepted late keeps the turn going; a cancelled turn does no more,
  and ends, also in the next process; attempts nobody asked for are bounded, and
  a turn comes to rest;
* provider: attempts are bounded and nothing already shown is requested again;
* relay: a terminal is shown nothing written before it was activated; frames that
  cross never cost a terminal its connection; what the engine takes for attached
  is what the relay has; no terminal holds the session up;
* rooms: a message is echoed only when it is durable; the engine's stop is seen.

## Modules

| Module | Models | Extends |
|---|---|---|
| `SessionState` | variables of the reduced session, `Init`, types, helpers shared by the event branches | |
| `SessionInput` | prompts, steering, the queue, model changes between turns | `SessionState` |
| `SessionTurn` | start and the three ends of a turn, the model of a turn, fallback, handoff and corrections | `SessionState` |
| `SessionResponse` | start of a response and its ends: completed, steered, interrupted, failed | `SessionState` |
| `SessionTools` | start, refusal, completion and recovery of calls; the processes they own | `SessionState` |
| `SessionGoals` | life of a goal | `SessionState` |
| `SessionContext` | compaction, room events, deletion request | `SessionState` |
| `Session` | composes them; all properties of the session | the six above |
| `SessionProofs` | the theorems about `Session` | `Session`, `TLAPS` |
| `MCSession` | the instances for TLC | `Session` |
| `DurableLog` | abstract specification: what a journal promises the engine | |
| `JournalFile` | the bytes of a journal: batches, verified prefix, what a loss of power leaves | |
| `Journal` | engine, worker and file; crash, loss of power, recovery; implements `DurableLog` | `JournalFile` |
| `MaxProofs` | the least and the greatest element of a set of naturals | `TLAPS` |
| `JournalFileProofs` | lemmas about the file: verified prefix, what a cut and a loss of power leave of it | `JournalFile`, `MaxProofs` |
| `JournalProofs` | the theorems about `Journal` | `Journal`, `JournalFileProofs` |
| `MCJournal` | the instance for TLC | `Journal` |
| `CheckpointFiles` | the records of the journal with their offsets, the two slots, which image a receipt admits | |
| `CheckpointWorker` | the worker with both duties: batches of the journal and steps of a publication; the calls the engine makes on it | `CheckpointFiles` |
| `CheckpointStore` | the engine's commit and checkpoint calls, waits, close, crash and open; all properties of checkpoints | `CheckpointWorker` |
| `CheckpointFileProofs` | lemmas about the files: what a batch and a rename leave of their promise, and that a search finds the newest receipt | `CheckpointStore`, `MaxProofs` |
| `CheckpointProofs` | the theorems about `CheckpointStore`, one lemma per action | `CheckpointFileProofs` |
| `MCCheckpointStore` | the instances for TLC | `CheckpointStore` |
| `TurnHost` | what the process keeps while a turn runs, the managed commands, how an event is committed or refused | `Session` |
| `TurnInput` | one poll of the input pump; the ends of commands | `TurnHost` |
| `TurnEnd` | failing and interrupting a turn, closing its commands, the results owed | `TurnInput` |
| `TurnCalls` | the calls of one response: waves, admission, hand-off | `TurnEnd` |
| `TurnCycle` | `run_turn`: request, compaction, response, what it asks for | `TurnCalls` |
| `TurnLoop` | retries, waits, the ready chains, the prompt, restart and recovery | `TurnCycle` |
| `TurnDriver` | composes them with the operator and the commands; all properties of the driver | `TurnLoop` |
| `DriverProofs` | the theorems about `TurnDriver`: the refinement of `Session`, its commands, its cancellations | `TurnDriver`, `SessionProofs` |
| `MCTurnDriver` | the instances for TLC | `TurnDriver` |
| `AttachState` | what the relay, its owner and the terminals keep, and the sockets and private terminal between them | |
| `SessionRelay` | `session_relay.c`: the stages of one step, activation, controls | `AttachState` |
| `SessionOwner` | the presentation thread and the engine around the relay: events, repaints, the lease of a view, commands of the terminal | `SessionRelay` |
| `TerminalClient` | `session_client.c`: a terminal that attaches, moves, binds, shows, switches, is suspended and leaves | `AttachState` |
| `Attachment` | composes them; all properties of attachments | `SessionOwner`, `TerminalClient` |
| `AttachmentProofs` | the theorems about `Attachment`: types, phases, callers and what the engine reads, one lemma per action; what is on its way between relay and terminals | `Attachment` |
| `MCAttachment` | the instance for TLC | `Attachment` |

### Session: state and actions

A variable stands for the field of `struct snag_session` (`store.h`) of that name
or its nearest (`activeTurn` is `active_turn_id` being set).  `steering` maps an
input to "none", "pending" or "admitted" (shown to the model by a request);
`pendingCalls` maps a call to its state, tool and handle; `processes` is the set
of handles of `session->processes`, and a handle is the identity of the call
that started the command.  An action is one branch of the reducer: its guard is
the conjunction of the branch's `goto invalid` conditions, negated, and its
updates are the assignments the branch and the helpers it calls make.  An event
that the reducer refuses changes nothing, because the caller adopts the staged
copy only on success, so refusal is the absence of a step.  `Next` is a single
disjunction of event families under the guard on `delete_requested`, because any
driver may offer any event at any time: the model makes no assumption about the
order in which drivers emit events, other than what the reducer itself enforces.

`turnCount` counts the turns started and stands for positions in the history
where a compaction refers to one.  A terminal event of a turn and its cleanup
are one action, as in the code.

### What the session model leaves out

* Texts, hashes, token and usage meters, timestamps, size limits, output byte
  counters and output references.
* Attempt counters of retries, and flags that the reducer writes and never reads
  in a guard: `cancel_requested`, `steering_deferred`, `last_turn_failed`,
  `retry_read_only`, `policy_stopped`, `turn_fallback_used`.
* Public items of a response (`response_output`), the bit mask of controls, the
  wording of goals (`goal_reworded`) and their turn counts, `context_rebased`,
  `rule_transform`.
* Events about timers, voice, skills, downloads, names and checkpoints: they touch
  state that no modelled guard reads.
* `irc_admitted` makes the state change of `input_received` or `steering_added`
  together with a count of the room's runtime; the change is modelled, the count
  belongs to the planned module of the rooms.
* Branches that only legacy (format 2) journals reach.
* The identity of a compaction's predecessor; the boundary of a compaction is
  counted in turns.

`outcome` is left stale across turns as in the code (its initial value is the
enumeration's zero, "calls"), since guards read it only when a response is
complete.  `irc_consumed_seq` is written by `response_completed` before the rest
is validated; only the successful outcome is a step because a refused staging is
discarded.

### Journal: state and actions

`engine`, `log`, `candidate`, `ioPending`, `retryable`, `retried` and `faulted`
are the engine's side (`struct snag_binary_session` in `store.c`); `phase`,
`request`, `step`, `durable`, `written`, `error` and `resultRetryable` are the
worker's (`struct snag_binary_io`); `file` is the journal's content in chunks.
`SubmitNew`, `WaitAgain` and `Retry` are the three ways through
`commit_binary_session`; `WorkerTakes` … `AttemptFails` are the points of
`run_owner` and `commit_request` between which the engine may run or the process
may die; `AckCommitted`, `AckFailed` and `WaitFails` are the three ways out of
`binary_take` and `binary_ack_candidate`; `CloseBegins`, `CloseDrains` and
`CloseEnds` are `close_binary_session`; `Recover` is opening with the policy to
truncate the verified prefix's torn tail.

Three facts about the code shape the model.  A batch carries one event and is
written in `Width` chunks so that a write can stop inside it.  A retry continues
behind whatever prefix of its batch is already in the file and is granted once.
And `snag_sync_file` does not flush: an acknowledgement means that the bytes are
in the system's cache (`store_binary_io.h` documents this), so a crash of the
process keeps acknowledged events while a loss of power may take the newest
tail, and may leave chunks that were never written back.  `DurableLog` says the
same in its `LosePower`.

### Checkpoints: state and actions

`engine` is where the engine's thread is in `snag_session_commit` and
`checkpoint_binary_session`; `candidate`, `ioPending`, `retryable`, `retried`,
`faulted`, `cpPending`, `cpFailed`, `cpPublished` are the fields of `struct
snag_binary_session` they are named after (`adopted` is `next_seq - 1`).  `io`,
`cp`, `result`, `published`, `awaitingReceipt`, `usable` and `wake` are the
worker's: its request and its publication with their phases, what is owed a
receipt, the generation and the receipt's number of each slot, and whether the
wake-up descriptor is readable.  `journal`, `slots` and `stops` survive the
process.

`Commit` is the call with its test whether an image is due; `CommitStages` …
`CommitRefused` are the four ways through `commit_binary_session`,
`CheckpointSubmits` … `CheckpointResumes` those through the first half of
`checkpoint_binary_session`, `ReceiptStages` … `ReceiptRefused` those through the
second; `AckReceipt`, `AckEvent` and `AckFailed` are `binary_ack_candidate`;
`Sleep`, `Wakes` and `WaitFails` are the loops of `binary_take` and
`binary_take_checkpoint`.  A call that fails returns to "idle" and the next call
finds what it left.

What is abstracted, and why it may be:

* a batch is in the file whole or not at all, because `Journal` shows that a torn
  one is cut before anything reads the file, and a retry continues it;
* queued and running requests are one phase: the engine cannot tell them apart;
* an image is its generation and its boundary, which determine its bytes; a
  receipt names the image it is for, as its digest does;
* staging an event or capturing a state may fail at any time
  (`CommitRefused`, `CaptureFails`), which stands for refusals of the reducer and
  for lack of memory; decoding the engine's own access bytes is taken to succeed;
* the temporary file of a publication, the index and the access closure are left
  out;
* only processes die here.  After a loss of power the newest receipt may be gone
  although the slot of its peer was replaced; such a session is refused and
  repaired explicitly, which is not modelled.

Closing events (`session_closure_event`) pass without an image being due, so
that a turn can always be wound up.  Each ends something that an ordinary event
began; `MaxClosures` caps them between two receipts.

### Turn driver: state and actions

The driver is one thread.  `pc` is where it is: a label of `run_turn`
("cycle", "prepare", "provider", "late", "settle", …), of `run_call_batch`
("batch", "tool", "handoff"), of closing ("closing", "closeWait"), of
`run_tracked_turn` ("returned", "backoff", "reconcile", "finish", …) or of the
prompt ("chain", "idle", "held", "closed", "recover"); `rc` is the result its
callers test.  `edge` holds the flags that the input pump sets and the loops look
at; `retry` is `struct turn_retry` with the locals that live as long; `kept` the
fields of the session that only the driver reads.  `command` and `late` are the
managed processes of `tools.c`, `batch` and `closing` the locals of
`run_call_batch` and of closing.  `refused` is a ghost: the names of the events
the reducer refused.  `budget` counts what is left of inputs, restarts and failed
writes.

Every event the driver commits is the event's action of `Session`, under
`CommitOr`: it succeeds, or it cannot be written, or the reducer refuses it, and
then the driver takes the error path of that place.  When the reducer refuses is
what the event's own guard says (`TurnMayStart`, `ResultFits`, `CloseFits` and the
like, each the unprimed part of its event, which the event begins with).  So the
driver and the reducer are composed as the program composes them, and whether
the driver emits only what the reducer admits is a question (`EventsAreAccepted`)
instead of an assumption.  The pump polls the terminal only while nothing it
typed before waits to be seen, at the places `PumpPoints` names; commands end
wherever `snag_tools_service` runs.

What the code looks at before it acts on the provider's outcome differs by outcome,
and so do the guards.  A failed stream, and a failure of the provider, fail the
response whatever else waits (`FailResponse`), and the flags that stop or limit the
retries are set before that event is written, so they stay when it cannot be.  The
fallback model is tried only where no control, model switch or interrupt waits;
steering may (`TryFallback`).  A correction of the output and a rejected capacity are
acted upon where nothing waits (`CorrectOutput`, `RejectCapacity`), since
`provider.c` returns such an outcome only from a pump that found nothing: the one
failure after which it looks at the terminal again is a policy failure
(`provider.c` 1940).

/yield sets a flag (`yield_requested`) that hands a wave of calls off, the first one
included (`app.c` 5553), or ends the wait for a command (5888), and that is cleared
after either.  The flag is not kept: in an instance whose `InputKinds` has "yield" the
choice is open at each call of a wave and throughout the wait (`BatchYields`,
`WaitEnds`).

A failed attempt waits in "backoff", a failed reconciliation of a goal's turn in
"rewait", which are the same function: controls are applied in both
(`BackoffControlled`), and steering does not start a turn whose goal is on hold
(`BackoffHolds`).  Ctrl-C at the prompt cancels the turn that was kept (`CancelKept`)
or the prompt that was accepted and has no turn (`CancelAccepted`).

What is left to choice: what the operator types, what the provider answers and
how it fails (`FailureKinds`, `Graphs`), whether a request needs a compaction and
how it ends, when a command ends, when a deadline or a back-off runs out, and
where a process dies.  What is left out:

* what a control command does, except that it may leave the session; deletion;
* rooms: urgent text, reminders of a reply, silent completion;
* timers and the queue among the ready chains, `--exec`, invalid settings, skills;
* failures of the events the operator's own input commits inside the pump;
* `compaction_bounded`, and a configuration with automatic retry off;
* `goal_armed` is taken to be that a goal is active;
* a Ctrl-C that arrives inside a tool of the process itself is seen when it
  returns.

`MaxCycles` stands for the last value of the counter of requests.

### Attachment: state and actions

`relay` is `struct snag_session_relay`; a deadline is the fact that it is set
(`handshake` for `handshake_deadline`; the deadlines of output, of its
acknowledgement and of input follow from `output`, `unacked` and `input`).
`event` is the event of the step under way.  `snag_session_relay_step` is one poll
of several descriptors: each of its stages is an action, and `NoEvent` keeps the
stages that the code skips once the step has an event; `Service` is what
`session_service` does with it before the next step.  `reject` and `backlog` are
the candidate and the connections nobody has accepted, `view` the lease of a
workspace view, `ptyOut` and `ptyIn` the two queues of the private terminal.
`display` holds the atomics the engine reads (`session_pending`,
`session_attachment`) and the barrier in front of the composer; `engine` is where
the engine thread is with an attachment (`service_attachment`) or with a command
of its terminal (`session_control_generation`).
An activation that finds a frame not yet written fails (`EAGAIN`, `session_relay.c`
174) with the barrier already set and the repaint still asked for (`Rebind`).  The
engine's loop at the prompt holds automatic work and comes back to it (`app.c` 7745);
what the input pump of a turn makes of it (4871) is not followed into `TurnDriver`.
An engine that leaves stops listening first, keeps the lease of a view
until its exit is written and the view has given the lease back, and closes what is
left with the presentation thread (`TakeLine`, `Flushed`, `RelayClose`).
`mode` is a terminal's place in `session_client.c`, `up` and `down` its socket,
`holding` the output it has taken and not shown.  `screen`, `since` and `misread` are
ghosts: the last activation, the reservation a terminal is under, and the terminals cut off for a frame the
other side did not understand.  An output frame carries the activation it was
written under.

A terminal closes at any time, stalls at any time and is given any time between
its frames; a deadline of the relay may pass whenever it is set, however early,
because nothing in the code relates it to the speed of a terminal.

Left out: the handover of a voice call (OFFER, RELEASE, RELEASED, PROGRESS,
REFUSE), commands carried by the frontend and their replies, status probes,
resizes and profiles, the hard exit (QUITTING), frames in parts and
acknowledgements of a part of a frame, the workspace's own (direct) display, and
the other session a terminal switches to, of which only the acceptance is known.
A relay that waits for its first RESERVE in the attached place is not reachable:
`snag_session_relay_init` has an attached peer or none.

Two things the model shows without a property of their own: a `/session detach`
carries no generation (`app.c` 4138), so it may meet the handshake of the terminal
that came after the one that typed it, which then reports an invalid
acknowledgement; and a control that is given up after five seconds stays queued.

The mutants named `...Short`, `...Unrecorded` and so on beside the actions are
variants of one action as a plausible bug would make it; no specification uses
them.  They show that the properties below can fail.

## Runs

| Run | Instance | States | What it shows |
|---|---|---|---|
| `MCSessionTools` | 1 input, 2 calls, 1 turn of 2 responses, 2 calls in parallel | 309,032 | Two calls and the commands they leave running, through every order of starts, results, refusals, early closes, steering and the ends of a turn. Checks `TypeOK`, `IdleIsSettled`, `CallsCanSettle`, `OneCallPerHandle`, `SteeredHasSteering`, `ReadOnlyTurnIsInert`, `NoResultDropped`. |
| `MCSessionInput` | 2 inputs, 2 models, 2 turns of 1 response | 659,190 | Two inputs that are steered, queued, edited, cancelled and admitted over two turns on two models, with one prompt waiting for its turn. Checks `OpenResponseKeepsModel`, `SteeringIsHonoured`, `AcceptedPromptIsHonoured`. |
| `MCSessionContext` | 2 goals, 2 scopes, 1 room event, 1 turn | 539,116 | Two goals, compaction under two continuation scopes and a room event, around a turn of one response. Checks `ConsumedWasReceived`, `FinishedGoalStaysFinished`. |
| `MCJournal` | 3 events, 2 chunks a batch, 2 stops | 5,598 | Three events committed through writes that stop anywhere, ambiguous syncs, one retry each, failed waits, closes, crashes, losses of power and recoveries; the journal implements DurableLog and no caller waits for ever. Checks `TypeOK`, `NeverFaulted`, `WorkerQuietWhenNothingPending`, `UnadoptedTailIsCandidate`, `ImplementsDurableLog`, `CallsReturn`. |
| `MCCheckpointStore` | small events, image due after 3 records, window of 8, 2 failures, 2 stops | 121,526 | Two or three images published and receipted among events of small size, with two failures of any step or wait and two closes or crashes: the session always has a newest image to resume from, and no call waits for ever. Checks `TypeOK`, `SessionCanBeOpened`, `ResumesFromNewest`, `CloseFindsWorkerQuiet`, `BackpressureHolds`, `CallReturns`. |
| `MCCheckpointHeavy` | events of a third of the window, image due after 6 records | violation | Events of the largest size, of which the receipt window holds three: long before an image is due by the count of records the newest receipt is out of the window, and the session could not be opened again. Checks `SessionCanBeOpened`. |
| `MCTurnTools` | 2 calls, 1 turn of 2 responses, 2 inputs of any kind (and of /yield), 1 command at a time | 312,481 | A turn of two responses whose calls start commands, write to them and are cut short by two inputs of any kind at every poll of the terminal. Checks `DriverTypeOK`, `EventsAreAccepted`, `CommandsAreOwned`, `LateSteeringKeepsTurn`, `CancelledTurnDoesNoMore`, `InterruptEndsTurn`. |
| `MCTurnRetry` | no calls, 1 goal, 2 models, 2 responses, 1 retry, 1 input, 1 restart | 273,696 | A turn that fails in every way and is retried once, with a goal, two models, every kind of input while it waits, and a restart of the process at any point. Checks `UnattendedRetriesAreBounded`, `CancelSurvivesRestart`, `TurnComesToRest`. |
| `MCTurnRestart` | 1 call, 1 goal, 2 inputs, 1 failed write, 1 restart | 1,079,644 | A call and its command through one event that cannot be written and one restart, at every point: what another process commits to settle the turn is what the reducer accepts. Checks `EventsAreAccepted`, `CommandsAreOwned`. |
| `MCTurnHeld` | no calls, 1 failed write | violation | After an event that could not be written while a response was open, /retry makes the driver rebuild the request for ever. Checks `HeldWorkDoesNotSpin`. |
| `MCTurnClose` | 1 call, 1 text typed | violation | Text typed while the commands of a turn are closed cuts the wait for one short, and the result that is recorded is one the reducer refuses. Checks `ClosesAreAccepted`. |
| `MCAttachment` | 2 terminals, 1 view, 2 reservations, 1 command of 4 kinds, sockets of 2 frames | 296,102 | Two terminals and a workspace view take, lose, move, suspend, switch away from and leave one session, dying or stalling at any point, through one reservation or suspension after the first; however they leave the owner, it comes again and again to wait for nothing of them. Checks `AttachTypeOK`, `FreshScreen`, `FramesAreUnderstood`, `AttachmentNamesItsController`, `AttachmentsSettle`. |

Bounds.  `MaxTurns`, `MaxCycles` and `MaxIrc` cap the counters of the session in
the guards of the events that raise them, `MaxParallel` the calls proposed by one
response; `MaxStops` caps the closes, crashes and power losses together.  The
session is cut into three instances because its event families meet in few
variables: `MCSessionTools` takes two calls through two responses (the second
response can only start when the first one's calls are settled, and commands
survive into it), `MCSessionInput` takes two inputs and two models through two
turns (steering and prompts must cross a turn boundary, and a model change must
be able to hit every phase), `MCSessionContext` takes goals, compaction and rooms.
Every hazard needs at most two actors of one kind.  The theorems remove the
bounds: the invariants hold for every value of the constants.
`MCJournal` needs three events (one adopted, one candidate, one more that may
wrongly take the candidate's number), two chunks a batch (the smallest size at
which a write stops inside one) and two stops (a stop during the life that
follows a recovery).
`MCCheckpointStore` needs an image due often enough that both slots are replaced
more than once: an image is due 3 records after a receipt (128 in the code), an
event is committed while the journal has fewer than 10 records, which makes room
for two further receipts, and two failures and two stops are spread over all of
it in every way.  The receipt window of 8 holds two intervals, as the code's
window holds many intervals of small events.  `MCCheckpointHeavy` has the
proportions of the largest events: a unit is 4 MiB, an event 16 MiB
(`SNAG_MAX_EVENT_LINE`), the window 48 MiB (`SNAG_BINARY_SUFFIX_TARGET` and one
batch).

`MCTurnTools` takes two calls through two responses with two inputs typed at any
point, so that a command started by the first is written to, handed back or
closed by what the second does; `MCTurnRetry` has one retry, two models and one
restart (the smallest budget that can be exceeded by a restart);
`MCAttachment` has two terminals, because a replacement needs two and a third acts
as either, and one reservation after the one the session starts with: a
replacement, a suspension or the lease of a view.  That is enough for each thing a
terminal can owe its owner (a handshake, an acknowledgement, a frame that does not
fit, a line that is not read) and for a terminal to be taken for the one before it;
longer successions are covered by the theorems, which bound nothing.  A socket
takes two frames each way, so that a control waits behind an output and either
side can be made to wait, the private terminal one; one command is typed, of each
of four kinds.
`MCTurnRestart` combines one failed write, one restart and two inputs over one
call and a goal.  `MCTurnHeld` and `MCTurnClose` are the smallest instances of the
two findings.

Deadlock is checked for the turn driver, which `Stopped` lets rest where the
operator or a command that may never end would go on.  It is not checked
elsewhere: after the request to delete, or at the bounds, a session
really stops; and a journal whose torn content has nothing verified before it is
refused by every later open.

Fairness.  `Session` has none: nothing in the reducer obliges a driver to
offer an event, so its liveness concerns are stated as safety — the state always
admits the event that lets the turn go on (`CallsCanSettle`,
`SteeredHasSteering`).  `Journal` assumes weak fairness of the worker's steps
(its thread is scheduled and its system calls return), of taking a finished
result (`binary_take` polls the wake descriptor in a loop until the result is
there) and of the end of a close.  None is assumed for the failures, the crash
or the engine's wish to commit.  `CheckpointStore` assumes weak fairness of the
worker's thread and of the engine's thread while it is inside a call; calls,
failures, closes and crashes need not happen.  `TurnDriver` assumes weak fairness
of the driver's own steps (one thread that runs whenever it can, and whose calls
on the provider return within the limits of `provider.c`) and of the end of a
command that was told to end (it is killed).  Nothing is assumed of the operator,
of other commands or of what the provider answers: a provider that always fails
is a behaviour of the model.  `Attachment` assumes weak fairness of the relay's
deadlines and of `session_service` (the presentation thread polls without end and
its wait is bounded by the nearest deadline) and of the engine's steps, each of
which is bounded by a deadline of its own; nothing is assumed of a terminal, of
its socket or of the private terminal.  A sleeping engine runs again only
when the descriptor is readable, so that `CallReturns` depends on the wake-up.

## Findings

`MCTurnHeld` violates `HeldWorkDoesNotSpin`.  When an event of an open response
cannot be written, or the line that announces the request cannot be rendered,
`run_turn` returns with the response open and the session is held.  `/retry` on a
turn that was kept is a control (`app.c` 4096); `apply_controls` returns while a
response is open (3834), and `run_turn` rebuilds the request as long as a control
waits (6368).  Nothing in that loop changes, and the pump does not read the
terminal while a control waits (4879).  The comment at 7929 says that work is
held so "that a persistent failure cannot spin", and the warning the operator gets
names `/retry`.

`MCTurnClose` violates `ClosesAreAccepted`.  While the commands of an abandoned
turn are closed, `wait_process` still returns for steering, for a control and for
a hand-off that was not collected, with the status "running" (`tools.c` 1181), which
the reducer refuses in `process_closed` (`store.c` 3283).  The turn then does not
end there: the failure goes to the error path of the caller.
`design/goals.md` (170) promises that each terminal or unknown `process_closed`
result is committed before the event that ends the turn, and `tests/test_tools.c`
(837) asserts that the result of a close is not "running".  `EventsAreAccepted`
states for all other events that the reducer refuses none.

`MCCheckpointHeavy` violates `SessionCanBeOpened`, without any failure, stop or
retry.  `design/session-storage.md` (2329) promises that "a byte-work trigger also
bounds recovery for high-output sessions: initially target 32 MiB of committed
suffix, allowing one final permitted batch".  The code has no such trigger:
`snag_session_commit` makes an image due by the count of records only (128,
`store.c` 6328 and 6334), while opening looks for receipts in the last 32 MiB and
one batch of the journal and otherwise refuses the session ("no canonical
checkpoint in native receipt window").  With events of the largest size four
records are enough to lose sight of the newest receipt.  For small events the
property holds, failures and crashes included; that is what `MCCheckpointStore`
shows.  The receipts search is bounded on purpose (the cost of opening does not
grow with the session), so the two measures have to agree, and they do not.

## Proofs

`SessionProofs` proves all twelve properties that the session's runs check, for
every set of inputs, calls, goals, models and scopes and every bound, from
`ConstantsAssumption` alone (the absent identity is none of the others; there is
a model; the bounds are naturals).

The safety argument is one inductive invariant, `SessionInv` in `Session`.  The
state properties alone are not inductive.  `OneCallPerHandle` and
`CallsCanSettle` need to know which tools carry a handle and that a command's
handle is the call that started it (`CallShape`); and every property about calls
needs that calls are held only by the complete, closed response of an active turn
(`CallsAreOfCompleteResponse`), or an event of another family could start a
response over them.  The lemmas go by family: for each of the families of
events, what it does to the calls (`TurnCalls`, `ResponseCalls`, `ToolsCalls`, and
`OutsideEvents` for those that leave calls alone), then one step lemma per group
of conjuncts (`IdleStep`, `SteeredStep`, `RoomStep`), joined in `InvStep`.

| Theorem | Establishes |
|---|---|
| `SessionSafe` | `Spec => []SessionInv` |
| `TypeCorrect`, `IdleSettled`, `CallsSettle`, `HandlesExclusive`, `SteeredSafe`, `ReadOnlyInert`, `ModelKept`, `RoomConsumption` | the state properties of the runs, from `SessionSafe` |
| `ResultsKept`, `SteeringHonoured`, `PromptHonoured`, `GoalsStayFinished` | the action properties, from `SessionSafe` and one lemma per step relation (`ForgettingStep`, `SteeringStep`, `PromptStep`, `GoalStep`) |
| `OutcomesSettle` | `Spec => []OutcomeInv`: a response that asked for calls has one left, an answer has none, a started write names a command |
| `CommandsLimited` | `Spec => []CommandsWithinLimit`: no more commands are known than a turn may run (`max_parallel_commands`, of which `ParallelAssumption` says it is not zero) |

The last two are no properties of a run; the proof that nothing is refused to the
driver needs them.

`JournalProofs` proves every safety property of the journal's run, the refinement
of `DurableLog` among them, for every set of events, every number of chunks in a
batch and every number of stops.  The assumptions are `FileAssumption` (a batch
has a chunk at least, and a chunk that was never written back is none of those
that a batch has) and `JournalAssumption` (no event is the absent one).

The inductive invariant is `JournalInv` in `Journal`.  That no session faults
needs all of it: `EngineInv` ties what the engine expects to the worker's phase
(while the session is closing an answer may be taken without being adopted, so
the log and the file part there and only there), `WorkerInv` says that the
request is for the staged event and starts where the log ends, through a retry
too, `AnchorInv` where the acknowledged and the written boundary stand at each
step, and `FileInv` that the file is the batches of the adopted events and a
beginning of the candidate's.  A recovery verifies the longest prefix of batches
that check; that there is a longest one is proved from the well-foundedness of
the naturals (`NatMin`, `MaxOf`, `VerifiedIs`), since induction over the file is
out of the prover's reach.

| Theorem | Establishes |
|---|---|
| `JournalSafe` | `Spec => []JournalInv` |
| `JournalTypes`, `SessionsNeverFault`, `CloseIsSafe`, `TailIsCandidates` | the invariants of the run, from `JournalSafe` |
| `JournalIsDurableLog` | `Spec => Abstract!Spec`: every step of engine, worker, crash and recovery is a step of the durable log or leaves it alone (`RefinementStep`, over `StoredIs`: what a recovery would read is the log, with the candidate once its last chunk is there) |
| `TornReads`, `CutReads` | for every file: a loss of power takes events only from the end of what a recovery reads, and cutting the file off after its verified prefix takes none |

`CheckpointProofs` proves every safety property of the checkpoint run, for every
set of event sizes, every window, interval and number of records, closures,
failures and stops, from `FilesAssumption` (an event has a size and fits in the
window), `WorkerAssumption` and `EngineAssumption`.

The inductive invariant is `CheckpointInv` in `CheckpointStore`.  That a session
resumes from its newest image needs all of it.  `FilesInv` is what the files
promise whoever opens them: a receipt is for an image taken before it and after
the receipt before it, and the image of the newest receipt is in a slot.
`RequestInv` says what the worker's request left in the journal, acknowledged or
not; `SlotsInv` that the slot the worker keeps is that of its newest receipt, and
that an image on its way is later and goes to the other one; `EngineInv` and
`HistoryInv` tie the engine's flags and its `checkpointSeq` to that.  An open finds the
newest receipt because the search ends at a place in the file: when an older
receipt and its boundary are behind that place, then so are the newest receipt and
its boundary (`SearchFindsNewest`).

That any receipt is found is `SessionCanBeOpened`, which depends on the sizes:
`MCCheckpointHeavy` violates it.  `OpensWhenRecordsFit` says how they have to
relate: a session can always be opened when the window holds
`Interval + 2 * MaxClosures + 1` records of the heaviest kind (`RecordsFit`).  Its
inductive invariant is `WindowInv`, four conjuncts more than `CheckpointInv`.
`TailInv` says that an ordinary event lies within `Interval` records of a receipt
before it, that an image was taken at least `Interval` records after the receipts
before its own, so that only closing events come between the image and its
receipt, and that there are at most `MaxClosures` of them in a row there and after
the interval; `RequestFits`, `ImagesFit` and `AdmissionInv` say the same of what
the worker is about to append and of what the engine is about to ask for.  The
number is exact: with records of one size, an interval of 3 and one closing event
TLC finds `WindowInv` and `SessionCanBeOpened` to hold of a window of 6 records and
the latter violated by a window of 5; likewise 7 and 6 for an interval of 2 and two
closing events.  For the program's 128 records and 32 MiB it means that no session
is lost whose events stay below some 250 KiB, less a share for its closing events;
`MaxClosures`, a bound of the model, stands for how many of those the application
commits while an image cannot be made, which the store itself does not limit.

| Theorem | Establishes |
|---|---|
| `CheckpointSafe` | `Spec => []CheckpointInv` |
| `CheckpointTypes`, `NewestIsKept`, `CloseIsQuiet` | the invariants of the run, from `CheckpointSafe` |
| `BackpressureAlways` | the action property: an ordinary event is adopted only by an acknowledgement, and only while no image is due |
| `OpensWhenRecordsFit` | `RecordsFit => (Spec => []SessionCanBeOpened)`: the invariant `MCCheckpointStore` checks, under the condition on sizes that its instance meets and that of `MCCheckpointHeavy` does not |

`AttachmentProofs` proves every safety property of the attachment's run, for every
set of terminals and every bound on repaints and lines, from `AttachAssumption`.

The inductive invariant is `AttachmentInv` in `Attachment`.  That no frame is
misread is about both ends of a socket and what is under way on it, so it says for
each phase of the relay in which modes its peer can be, and what the peer has said
that the relay has not heard (`Dialogue`: a terminal that has committed and one
that has yet to be answered are in the same mode and differ in that), and for each
mode of a terminal, its peer still there or not, what can be on its way to it
(`Legible`).  `Acks` says where the one output that is not acknowledged is: with
the relay, on the socket, held by the terminal, or coming back as an answer; only
a terminal that is draining may lose it.  `CallersInv` keeps a terminal from being
in the backlog or refused over a connection that carries anything, `PhaseInv` is
what a phase leaves of the relay's other fields, and `DisplayInv` ties the
generations that the engine reads to the relay's, before and after the event under
way is seen.  `Fresh` needs all of these: what is on its way to a terminal was
written since its activation because everything from before was taken or went
with the peer it was meant for.

| Theorem | Establishes |
|---|---|
| `AttachmentSafe` | `Spec => []AttachmentInv` |
| `AttachmentTypes`, `ScreenIsFresh`, `NoFrameIsMisread`, `ControllerIsNamed` | the invariants of the run, from `AttachmentSafe` |

`DriverProofs` is about the driver composed with the reducer, for every set of
inputs, calls, goals, models and proposed calls, every limit of retries and every
bound on typed input, restarts and failed writes, from `ConstantsAssumption` and
`DriverAssumption` (calls are ordered, as in a response; the bounds are naturals).

The first result is the refinement.  `StepEmits` goes through all the steps of the
driver and says which event each one commits; `EmittedIsEvent` that this event is
one of `Session`'s, with arguments that occur; so every step is a step of `Session`
or leaves it alone.  It needs that a prompt which waits came from the operator
(`PromptShape`), since the driver starts the turn with the prompt's own origin and
model.  Everything that `SessionProofs` proves then holds of the driven session
(`DrivenSessionIsHonest` names the action properties).

`CommandsAreOwned` is not inductive: a command is told to run one step after
`tool_started`, and what makes its handle known in between is that the call which
the driver is about to run has started and its command is in `processes`
(`StartedCallWaits`).  `OwnedInv` is both.  Most steps start no command and let the
session forget none (`Calm`); the eight others are proved one by one, collecting
and closing among them, where a command may leave `processes` only with its
result.

`OnlySixStir` lists the steps that begin or end a turn, open a response or start a
call: `BeginTurn`, `SettleCompletes`, `CloseEnd`, `RecoverAnswered`,
`StartResponse` and `BatchStarts`.  `LateSteeringHeard` and `CancelledTurnRests`
look at these six.  The inductive invariant of a cancellation is `CancelInv`: while
`kept.cancel` is set there is a turn (`CancelledInTurn`), and its end is on its way
(`CancelPending`): the Ctrl-C is still to be seen by the loop, or the turn is being
closed, or the process has died and the next one recovers; the driver is never at the prompt,
in the ready chains or before a turn, from where it would go on with it.  An
interrupt typed while a kept turn is being recovered would break this, and
`RecoveryIsAlone` says why none is: a process that recovers manages no command, so it
never polls the terminal while it closes the turn.  All of this is said of a session
in which no event was refused and none could not be written (`Undisturbed`), like
the property.

The strongest result is `EverythingAccepted`: the reducer refuses nothing the driver
commits, so that none of the driver's error paths is taken because the two disagree
about where the session is.  By itself this is far from inductive.  `AcceptInv` says
why it holds, in a session that is clean (no write failed, and no closing of a
command was refused, which the code cannot exclude: see the findings):

* `TurnFits`: what the turn is at each place of the driver.  Where a request is
  built the turn is `Workable`: no response is open, and a complete one leaves the
  turn to go on only for text that waits or for commands that run.  Where a call is
  run the response asked for calls, where a turn is closed it can be recovered, and
  no steering that was shown is still unconsumed when the answer is looked at.
* `WalkFits`: how far the walk over the calls of a response has come: what is still
  proposed behind it is a command that waits for room, and nothing before it in the
  first wave has started.
* `CommandsFit`: outside of closing, a restart and the step between a call's start
  and its command's, every command the session knows is managed by this process, so
  that the driver never closes or waits for one that is lost.
* `RetryFits`: a pending retry is of a turn that was kept, and a wait without a turn
  is for a goal, so that what is begun again is a turn that may start.
* `CompactFits`: a compaction is under way only while the driver waits for it.

It rests on three more invariants: `OwnedInv`; `OutcomeInv` of the reducer
(`OutcomesSettle`), since whether a response that ended in calls has one left decides
whether the turn can complete; and `CommandsWithinLimit` (`CommandsLimited`), since a
command may be started only while there is room, and the driver counts what it
manages where the reducer counts what it knows.  That trouble does not go away is
`StepsFlow`, from `CancelInv`'s proof.  The place "rewait", to which a refused event
of a reconciliation leads, is shown never to be reached in a clean session.  TLC
finds `AcceptInv` to hold of the instances of `turn_tools` and `turn_restart`.

| Theorem | Establishes |
|---|---|
| `DriverSafe`, `DriverTypes` | `DriverSpec => []DriverBase`: `SessionInv`, `PromptShape` and the driver's types |
| `DriverImplementsSession`, `DrivenSessionIsHonest` | `DriverSpec => Spec`, and the action properties of `Session` |
| `CommandsOwned` | the invariant of `turn_tools` and `turn_restart` about commands |
| `LateSteeringHeard`, `CancelledTurnRests` | the action properties of `turn_tools` |
| `EverythingAccepted` | `EventsAreAccepted`, the invariant of `turn_tools` and `turn_restart`, from `AcceptInv` |

Only model-checked: `UnattendedRetriesAreBounded`, which holds of the instance it is
checked on, without failed writes and without commands, and not of every instance
(a session held after a failed write or a refused closing of a command is gone on
with by `/retry` whatever its attempts); and all the liveness, which rests on
fairness: `CallsReturn`, `CallReturns`, `AttachmentsSettle`, `InterruptEndsTurn`,
`CancelSurvivesRestart` and `TurnComesToRest`.

## Plan

In this order, each module with its run, its mutants and, where noted, theorems:

1. `Session` and its parts — done, proved.
2. `Journal` over `DurableLog` — done, its safety and the refinement proved.
3. `CheckpointStore` — done, its safety proved, and under which sizes of events a
   session can always be opened.
4. `TurnDriver` over `Session` — done, the refinement and its safety proved; its
   queue, timers and rooms to come, and
   `ProviderRetry`, the retries inside one request.
5. `Attachment` — done, its safety proved; the handover of a voice call and
   commands of the frontend to come.
6. `Rooms` — the runtime's queue, published and admitted counts and the engine's
   acknowledgements; composed with the watermark of `Session`.
7. `ProcessHost`, timers, `LegacyAppend`, `Upload`, `ModelCache`, the loop of
   compaction.

Each run stays below two million states.  Recursion stays out of the
modules that theorems are about.

## Not modelled

Encoders and decoders (the journal is chunks that check or do not), layout and
input editing, media, discovery and configuration carry little control state and
their errors are of a kind that tests reach.  `PROJECT.json` gives the reason for
each component.  What the models take from outside `src/` is only what the code
assumes of the system: a write may be cut short or fail, a thread that can run
runs, a process may die between two steps.
