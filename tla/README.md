# Verification of the desktop pet's control software

The repository holds the software of a desktop pet built on openvela (NuttX) for
the A733 board: it listens, talks, looks through a camera, shows a face, and moves
with an STM32 motor controller on a serial line. This directory specifies the parts
of it in which tasks, callbacks, messages and deadlines meet. Five of them are
modelled, each with its inductive invariant proved for every value of the
constants:

| part | source (under `src/board/a733-cubie-a7z/openvela-overlay/apps/system/`) | modules |
|---|---|---|
| motor controller link | `aipet/mcu_link.cxx` | `McuLink`, `OneShot`, `MCMcuLink`, proofs in `McuLinkProofs`, `McuLinkSafety`, `McuLinkActions` |
| pipelined camera job | `a733camera/a733_camera_pipeline.inc`, the loop of `worker()` in `a733_camera_live.c` | `CameraPipe`, `FramePlayer`, proofs in `CameraPipeProofs`, `CameraPipeProgress` |
| listening service, foreground turns, camera commands | `aipet/audio_product.inc`, `product_runtime.cxx`, `product_core.cxx`, `audio_app.cxx`, `live_command` and the job's life in `a733_camera_live.c` | `VoiceService`, `Leases`, proofs in `VoiceServiceProofs` |
| a spoken reply | `aipet/voice_phrase_pipe.cxx`, `voice_play_stream.cxx`, and their ends in `pet_routes.cxx`, `audio_app.cxx`, `audio_resample_stream.cxx` | `SpeechPipe`, `SpokenText`, proofs in `SpeechPipeProofs` |
| one question to the cloud agent | `aipet/agent_bridge.c`, `aipet/mcu_agent_tool.cxx`, and their callers in `pet_routes.cxx`, `product_runtime.cxx`, `pet_core.cxx` | `AgentTurn`, `Mailbox`, proofs in `AgentTurnProofs` |

`PROJECT.json` maps every definition to the lines it models, lists the runs, the
mutations that each property is known to catch, the hazards and the theorems.

To check a run: `tlc -workers 2 -config McuLinkPermit.cfg MCMcuLink`. To check the
proofs of a module: `tlapm McuLinkSafety.tla`.

## 1. Inventory

### 1.1 How the parts interact

```
 microphone ---> capture ---> listening service (product_runtime) ----+
                                   | product_turn_lock                |
 console: aipet ask ---------------+--> product_turn: local voice     |
                                   |      command, local model, cloud |
 console: aipet cloud ---> routed_ask (pet_routes) -- turn_lock --+   |
                                                                  v   v
                                                             agent_bridge <---> agent engine, bus, network
                                                                  |               |  (tool call)
                                                      permit of a turn            v
                                                                  +------> mcu_agent_tool
 console: aipet mcu ... / aipet desktop ...                                       |
 voice command "move forward" ----------------------------> mcu_request <---------+
                                                                  | call_lock, lock
                                                     mcu_link worker <== /dev/ttyS4 ==> STM32

 text stream ---> voice_phrase_pipe ---> synthesis ---> play stream ---> I2S worker
 console: a733camera live ---> live_command ---> job: producer | main (NPU) | renderer ---> display session
```

Two facts of this picture carry most of the difficulty:

* `turn_lock` (taken by `aipet cloud`) and `product_turn_lock` (taken by `aipet ask`
  and by the listening service) **do not exclude each other**, and both lead to the
  same single-slot bridge, the same motor permit and the same motor link.
* The motor link is called from the console, from voice commands and from the tool
  thread of the agent engine, while its worker, the controller's own events and four
  deadlines change the same fields.

### 1.2 The components

| component | state | operations | what is hard | what makes it correct |
|---|---|---|---|---|
| **Motor link** `mcu_link.cxx` | under `lock`: `ready quit armed urgent desktop desktop_inhibit arm_until`, last PONG, uptime, configuration, fault, and one job (`pending sent done result` with its deadline); under `call_lock`: which caller is served | `start`, `mcu_request`, `mcu_control` (arm, session, disarm, disconnect, desktop on/off), `mcu_desktop_request`, worker: `receive`, choose, write, exit | every field is changed by the worker, the callers, the console and the controller's frames; answers late, lost or duplicated; restarts of the controller; a frame chosen under the lock is written after it | no motion is chosen without a standing permission; permission rests on fresh evidence and is withdrawn with a STOP; a request is carried out at most once; what the caller is told is true; a STOP leaves, a call returns, a disconnect ends |
| **Camera job** `a733_camera_pipeline.inc` | two slots with six states, `stop done error cleanup inference_done drain render_ready`, four counters | `pipe_start`, producer, `pipe_take`, inference, `pipe_release` / `pipe_submit`, renderer, `pipe_finish`, joins, `pipe_destroy` | three threads use a slot's pixels outside the lock; each may fail, be stopped or time out at any point; a join may fail | one user of a slot's pixels; each picture carries its own result; in order, none skipped or twice; first error kept and reported; nothing freed in use; every job ends |
| **Camera commands** `a733_camera_live.c` | `active`, `stop_requested`, `request_token`, `identify_job`, `job.cleanup` | `live_command`, `identify_start/poll/stop`, the job's end | a turn's wait, its deadlines and cancels race the job's end; the token wraps; a failed cleanup must block everything later | a turn waits for its own job; after a failed cleanup no job, service or turn begins; a turn that meets it stops |
| **Agent bridge** `agent_bridge.c` | `attached pending ready result cancelled sequence chat deadline response`, `lifecycle` | claim, attach, submit, receive, poll, cancel, detach, finish | two askers, late and unusable answers, deadlines noticed by two functions, cancel by a third party, shutdown under a waiting asker | an asker gets its own answer or an error; an answer waiting is not replaced; every turn ends |
| **Motor tool** `mcu_agent_tool.cxx` | `active used permit_until allowed`, `last_report` | `mcu_turn_begin`, `mcu_tool`, `mcu_turn_report`, `mcu_turn_end`/revocation | called by the engine's thread for a message of any age; the motors' answer may take a second and come after the turn | a turn's words move the motors at most once and its report says what happened |
| **Service and turns** `product_core.cxx`, `product_runtime.cxx`, `audio_product.inc`, `audio_app.cxx` | `service_active service_stop service_pid`, `product_manual_owner`, `operation_lock`, `audio_fault`, the recogniser's session, the saved mode | run, stop, mode, ask, vision, speak; the listening loop; `product_turn`; quarantine | four locks and atomics reserve overlapping sets of devices; a stop may come anywhere; a worker that cannot be joined stops its owner for ever | camera and voice exclude each other; the NPU has one user; an explicit cloud mode never reaches the local models; a stop ends the service, a turn gives its lease back |
| **Phrase pipe** `voice_phrase_pipe.cxx` | four places, `done`, `error` set by compare-and-swap, one 120 s deadline, `downstream_retained` | open, accept, finish, close; the worker and `phrase_next` | writer, synthesis and playback run at their own pace; three sources of the first error; two joins that may fail | the phrases are heard in order and to the end, or the turn reports an error; nothing freed in use; every turn ends |
| **Play stream** `voice_play_stream.cxx` | sample ring, gates, transaction lengths, first error | `play`, `push`, the I2S worker and its `read` | ring between two threads, underrun, transactions that end by length, the sound's limit or an empty ring | no empty transaction; sound in order; together with the phrase pipe |
| **Capture** `audio_capture_live.cxx` | capture buffers, consumer thread | capture one utterance | a consumer that cannot be joined | one step of `VoiceService` that may fail or retain; its inside is not modelled |
| **Conversation core** `pet_core.cxx`, `pet_routes.cxx` | route, history, facts | `routed_ask`, `routed_local_ask`, presentation | mostly sequential and about text | its cloud turn and fallback are in `AgentTurn`, its spoken offline turn in `SpeechPipe` |
| **Agent start, setup, secrets** | start state, stored key | start once, setup dialogue, seal and open | single flight | not modelled: I/O and cryptography |
| **Services** `a733services_main.c`, `services_config.c` | configuration file, replaced by rename | load, save, start at boot | a crash between two steps of the save | not modelled yet: after a crash the file is the old or the new one |
| **Frame codec** `mcu_protocol.cxx` | none | encode, decode, parse a command | pure functions over bytes and text | abstracted in `McuLink` |
| **Cloud voice, local speech and language models, resampling** | connection, model state | request, infer | numeric and protocol I/O | not modelled |
| **Display, Wi-Fi, FTP, NPU, storage, home control applications** | per application | console commands | I/O | not modelled; the display session appears in `CameraPipe` as steps that may fail |
| **Drivers** (NPU, camera, CSI, audio, UART, watchdog, UFS, SD, USB Wi-Fi, USB camera, panel) | registers, rings | interrupts, transfers | hardware timing | not modelled; what the applications use of them is external |

The hazards of each part, at the line where they bite, are in `PROJECT.json`. In
short: for the link, permission checked at one moment and used at another, late and
lost answers, the race of answer and deadline, and withdrawals that forget the STOP;
for the camera, pixels used outside the lock, the end of a job cut short at any
point, three first errors, and a circular wait; for the agent, two askers and one
slot, answers of another age, and a tool call that outlives its turn; for the spoken
reply, three threads with three first errors, a flag believed before a queue, and joins
that fail; for the service, devices reserved under different locks, a mode saved in the
middle of a turn, a token that wraps, and quarantines somebody forgets.

## 2. Plan

| order | modules | question | state |
|---|---|---|---|
| 1 | `McuLink` with `OneShot` | may the pet move, and was it told the truth about it | done, proved |
| 2 | `CameraPipe` with `FramePlayer` | is the picture the frame, and does the job end | done, proved |
| 3 | `AgentTurn` with `Mailbox` | whose answer is it, and how often did it act | done, proved |
| 4 | `SpeechPipe` with `SpokenText` | was the reply heard, and is anything freed in use | done, proved |
| 5 | `VoiceService` with `Leases` | who may use microphone, loudspeaker, NPU and camera | done, proved |
| 6 | `CloudClauses`: the two-slot prefetch of `cloud_prefetch.hxx` | clauses in order, joined on every path | open |
| 7 | `LiveCapture`: `audio_capture_live.cxx` | an utterance's sound is whole; a consumer is joined or retained | open |
| 8 | `ServicesConfig`, the HCI framer as a function against a reference | crash points, framing | open |

Module 5 takes the place of two modules planned at first, one for the camera commands
and one for the service: what matters about either is how they exclude each other.

The abstract specifications worth stating are the ones a caller could rely on
without knowing the tasks behind: a request is a one-shot (`OneShot`), a camera job
is a frame player two frames deep (`FramePlayer`), a spoken reply is a text heard in
turn (`SpokenText`), the agent bridge is a mailbox with room for one question or its
answer (`Mailbox`), and the pet's devices are leased (`Leases`). Each is implemented by
the detailed module under a refinement mapping, which TLC checks and a theorem proves.

Every module is written for both tools: parameters are CONSTANTS with named
assumptions, each operation is one action, invariants are conjunctions of named
parts, and no module declares a RECURSIVE operator.

## 3. `McuLink`: the motor controller link

### State and actions

The fields of `struct link` keep their names. `lease` stands for `arm_until`
(`Forever` for a session), `pongAge` for `last_pong`, `jobLeft` and `pingLeft` for the
job's deadline and the next heartbeat, `callLeft` for the one second the caller of
`mcu_request` waits. Deadlines are kept as ticks left or elapsed, so the clock needs
no bound; the code's 250, 600, 750 and 1000 ms and 300 s are constants.

A frame is its operation and a *tag*, which says what its sequence number equals:
`job` the current request's, `ping` the latest heartbeat's, `old` neither, `zero` an
event's. Sequence numbers themselves are left out, and with them their wrap at 65535:
a number is given out again after more than two minutes and a request lives 600 ms.

| actions | code |
|---|---|
| `Start` `Arm` `DesktopOn` `Withdraw` | `start`, `mcu_control`: one critical section each |
| `Call` `CallDesktop` `TurnAway` `TurnAwayNotReady` `Accept` `Return` | `mcu_request`, `mcu_desktop_request`: try `call_lock`, gate, fill the job, poll for `done` or give up |
| `Open` `OpenFails` `Lock` `ReadFails` `Receive` | the worker's open and read; `Receive` is `receive()` on one frame: events, PONG, data, ACK and NAK, stale answers |
| `SelectQuit` `SelectStop` `SelectJob` `RefuseJob` `SelectPing` `SelectNothing` | the choice of one frame under the lock, after the loss check and the job's deadline (`Lost`, `Expired`) |
| `Write` `WriteFails` `ExitStop` `ExitLast` | the write outside the lock, and the last STOP and disarm on the way out |
| `McuPing` `McuQuery` `McuObey` `McuRefuse`, `McuTrips` `McuFaults` `McuReconfigures` `McuReboots`, `LoseUp` `LoseDown` | external: the controller and the wire |
| `Tick` | time |

`acted` counts how often the controller carried out the current request; `overruled`
remembers that a STOP was asked for while it was queued. Both are history.

### Properties

* `PermitSound`: `armed` implies a ready link that has heard a PONG, no fault on record
  and no revocation outstanding. Five functions write these fields.
* `MotionOnlyWhenPermitted`: the worker chooses a motion frame only on a standing,
  fresh permission and with no STOP waiting, whatever was true when it was requested.
* `PermitKeptOrStopped`: while a permission stands, the controller on record is the same (its
  uptime grows, its configuration stays), so a frame that shows a restart ends it; and whoever
  takes it away asks for a STOP, with one exception the code makes, `clear-fault`.
* `LossNeedsConsent`: a permission the link loses by itself (NAK, loss, fault, timeout)
  leaves `desktop_inhibit` set, so that voice commands cannot arm it again.
* `OutcomeTruth`: "acknowledged" was carried out exactly once, "not sent" never.
* `RequestIsOneShot`: the link implements `OneShot`, where a request is transmitted at
  most once, carried out at most once, and its outcome decided once. A timed-out
  request may still be carried out: that is why its result is "unknown".
* `StopIsSent`, `CallReturns`, `DisconnectEnds`: liveness.

### Proved

`McuLinkSafety!Safety` proves `Spec => []IInv` with

    IInv == TypeOK /\ ServingOK /\ PermitSound /\ JobFrameOK /\ OutcomeTruth

`OutcomeTruth` is not inductive: an ACK makes the outcome "ok", so one has to know that
an ACK for the current request is on the wire only if the controller acted. That is
`JobFrameOK`: once transmitted, the only frame of the current request is in hand, or on
the wire, or carried out, and an answer to it other than a refusal follows that. It needs
`Outdate`, the retagging of frames when a new request takes the number's role, and
`ServingOK`, which ties the job's flags to the caller waiting for it. `PermitSound` is
inductive with these. `McuLinkProofs` holds the lemmas about channels and tags,
`McuLinkActions` derives `MotionNeedsPermit`, `PermitEndsWithStop`, `LossIsSticky` and
`RequestRefinesOneShot` from the invariant. All hold for every number of callers, every
set of operations, hazards and console commands, every capacity and every deadline, under
the assumptions named in the module (the caller waits longer than a request lives).

## 4. `CameraPipe`: the pipelined camera job

### State and actions

`state`, the counters and the flags are those of `struct live_pipe_s`. `rgb[s]` is the
number of the frame whose pixels are in slot `s` (0 while they are being written),
`result[s]` and `completed[s]` the frames the inference result and the timings are
about, `screen` what the display shows. Each thread has a place, a frame number and the
code it will return. `asynchronous` is the kind of job: with a renderer thread or
without.

A step is one critical section together with the unlocked work in front of it that no
other thread can see; where another thread *could* see it (capturing into a slot,
drawing from it) the work is a step of its own. Error codes are `ok`, `cancelled`,
`timeout`, `failed` (any device) and the two the pipeline's own checks raise, `stale`
(`-ESTALE`) and `protocol` (`-EPROTO`).

| actions | code |
|---|---|
| `ProdBind` `ProdNext` `ProdClaim` `ProdLook` `ProdCapture` `ProdRender` `ProdPublish` `ProdQuit` | the producer |
| `RendBegin` `RendWait` `RendDraw` `RendComplete` `RendQuit` | the renderer |
| `PipeStart` `PipeAwait` `MainLoop` `TakeError` `TakeReady` `TakeNothing` `TakeLook` `Infer` `InferAndShow` `PipeRelease` `PipeSubmit` `PipeFinish` `JoinProducer` `JoinRenderer` `PipeDestroy` | the job's main task: `pipe_start`, the loop, `pipe_take`, inference, release or submit, finish, joins and destroy |
| `RequestStop` `Expire` | a stop by the user, the job's deadline |

### Properties

* `SlotOwner`: a slot's pixels have one user, and they are the frame it took.
* `ChecksNeverFire`: no stop, timeout or failure turns into a fault the pipeline's own
  checks report.
* `Lifetime`: the slots are freed after both threads ended and the display was given back;
  if a join failed they are not freed.
* `SuccessShowsAll`: a job that reports success shows every frame it counts.
* `FailureReported`: in a job nobody stopped, a recorded error reaches the verdict.
* `PipeIsPlayer`: the job implements `FramePlayer`: frames are captured at most two ahead,
  shown in turn, each with its own result, none after the end.
* `NoCircularWait`: until the job is over, one of the three threads can go on, with no help
  from a timeout, the deadline, a stop or a failed join.
* `EveryStepCounts`: apart from a look at what is not there yet (`Poll`), every step uses up
  part of `ToDo`, a number computed from the counters and the threads' places.
* `JobEnds`: every job ends, unless a thread that cannot be joined keeps it; a job bounded by its
  frames ends with no help from a stop, a deadline or a timeout.

### Proved

`CameraPipeProofs!PipeSafety` proves `Spec => []IInv` with

    IInv == TypeOK /\ CountsOK /\ SlotsOK /\ HoldsOK /\ ThreadsOK /\ ScreenOK /\ ChecksNeverFire

`CountsOK` places the three threads' frame numbers against the counters, `SlotsOK`
says what the two frames after `consumed` may be, `HoldsOK` says which slot state each
thread's place implies, and
`ThreadsOK` that flags and endings of the threads fit. From it follow `OnePixelUser`,
`ChecksAreSilent`, `FreedLast`, `FirstErrorWins`, `FramesAddUp` (the two frames after
`consumed` have a slot each, in use if the frame is published) and `PipeRefinesPlayer`, for
every number of frames and every set of failures.

What a job reports needs more: `PipeEnd` proves `Spec => []EndInv`, where
`EndInv == IInv /\ VerdictOK /\ DrainOK /\ WaitOK`. `VerdictOK` says that a thread that ended left its
failure in `error`, and `DrainOK` that a renderer that ended well had nothing left to draw,
or was told by a stop or a failed job not to, and `WaitOK` what a thread that waits can rely
on. `NoFailureLost` and `QueuedAreShown` follow.

`CameraPipeProgress` proves that a job gets somewhere. `NeverAllWait` is
`Spec => []NoCircularWait`: a main task that misses its frame knows from `SlotsOK` that the
frame's slot is either the producer's to fill or the renderer's to draw. `JobShrinks` is
`Spec => EveryStepCounts`, for any number of frames. Together: no deadlock and no livelock;
what is left of `JobEnds` is the inference from these two facts and the fairness of the
three threads, which is TLC's. `Accounting` and `FirstErrorKept` are proved (`FramesAddUp`,
`FirstErrorWins`) and in no run of their own.

## 5. `AgentTurn`: one question to the cloud agent

### State and actions

The bridge's and the tool's fields keep their names. A request's number stands for its
`chat_id`, and an answer on the bus carries the number it is for. `lifecycle` is folded
into `engine`, the phase of the engine as the bridge sees it: off, starting, serving, closing, closed. `result`
is reduced to success or error: which error is a matter of the message shown. Buffers are
large enough for any answer the engine's own limits allow, so `-ENOSPC` and encodings are
left out. `last_report` keeps which turn it is about and what it says.

The engine takes one message at a time, may call the tool while it works on it, and
answers late or never; the motors' request may take a second, so a tool call has a
beginning (`ToolCall`, which uses up the permit) and an end (`ToolReturn`, which stores
the report), and anything may happen in between.

| actions | code |
|---|---|
| `Claim` `Attach` `Detach` `Finish` | the engine's life as the bridge sees it |
| `BeginTurn` `Submit` `SubmitRefused` `Poll` `Report` `EndTurn` | `routed_ask` and `cloud_reply` under `turn_lock`: permit, submit, poll, report, end |
| `BeginProduct` `NoQuestion` `GiveUp` `EndProduct` (and `Submit`, `Poll`) | `RuntimePorts::chat` and its callers under `product_turn_lock` |
| `Take` `ToolCall` `ToolReturn` `Answer` `Deliver` | engine, tool and `receive` |
| `UserCancel` `DeadlinePasses` `PermitExpires` | `aipet cancel`, the clock |

### Properties

* `OwnReply`: while nobody types `aipet cancel`, an asker holds its own answer or an error.
* `ToolOnce`: one turn's words let at most one request through to the motors, whichever
  message the engine is working on.
* `ActionShown`: a turn whose own message moved the motors, and whose permit nobody
  revoked, reports how that went.
* `GivenOnce` (a part of `IInv`): an answer is taken by one asker only, even after
  `aipet cancel`.
* `BridgeIsMailbox`: the bridge implements `Mailbox`. Its place is empty, holds a question or
  holds the answer to it; it goes from a question only to that question's answer or to
  empty; and nobody removes another's question but `aipet cancel` and the engine's end.
  The two callers, who share no lock, keep this although `poll` and `submit` are told
  neither who asks nor for which question.
* `AskEnds`: every asker is done eventually, although the engine owes nothing.

### Proved

`AgentTurnProofs!Safety` proves `Spec => []IInv` with

    IInv == TypeOK /\ RoomOK /\ SlotOK /\ HolderOK /\ PermitOK
            /\ GivenOnce /\ OwnReply /\ ToolOnce

`SlotOK` says the bridge holds one request, waiting or answered but not both, and that
it is the latest one submitted; `HolderOK` that a polling asker's request is still there
unless the engine was detached under it, so that what it polls is its own; `PermitOK` ties
the permit to the turn and the number of calls. `OwnReply` and `ToolOnce` follow
only together with these, and `GivenOnce` because a number is never given again.
`NeverOverwritten` is an action property proved and not run: an answer waiting in the
bridge is not replaced. `BridgeRefinesMailbox` proves that every step of the askers, the
engine and the console is a step of `Mailbox` or leaves it alone. `RoomOK` concerns only the
bound on requests.

`ShownSafety` proves `Spec => []ShownInv` with
`ShownInv == IInv /\ BusOK /\ CallOK /\ ActionShown`. A report is true because a turn that has
its answer cannot see its permit used again: `BusOK` says that each request is worked on once
and that the engine is done with every request whose answer is held anywhere, `CallOK` that the
call a permit let through runs for the request being worked on, until its outcome is the
report. `ReportsTheMove` is the consequence.

## 6. `SpeechPipe`: a spoken reply

### State and actions

Three threads speak a reply of the local model. The *turn* (`turn`) cuts the text into
phrases and queues them; the *pipe's thread* (`speaker`) takes them, synthesises them and
fills the ring; the *I2S worker* (`worker`) empties the ring in device transactions. A
phrase is its number in the reply, its sound is `Blocks` blocks numbered through, so that
"in order, none lost or repeated" can be said of the blocks the device took (`heard`).
`held` is the block the streaming converter has not sent on: it leaves when the next one
comes in, or at the end. `error` is the pipe's first error, `failure` the playback's, `rc`
and `drc` what the two threads carry. `late` says which of the two deadlines have passed:
the pipe's is the earlier one. `pipe`, `playback` and `control` say which of the
shared structures still exist (`kept`: retained until reboot).

A step is one critical section or one poll. `Poll` is the playback's `poll()`, which asks
the deadline, the user, the pipe and itself, and records what it finds in both.

| actions | code |
|---|---|
| `Write` `WriteEnds` `Room` `Put` `Accepted` | `voice_phrase_accept` and `phrase_queue`: a phrase is complete, look for room, queue it, ask for errors |
| `Upstream` `Done` `Join` `JoinFails` | `voice_phrase_finish`, and `voice_phrase_close`, which calls it again if the join failed |
| `Enter` `Feed` `Take` `Emit` `Push` `Flush` `SendRest` `SpeakFails` `Stop` `Leave` `Return` | `phrase_worker`, `local_play` and `play()`: start the I2S worker, take a phrase, synthesise, push, flush, end, join |
| `Gate` `Look` `Read` `Give` `End` | the I2S worker: its gate, the decision to open a transaction, the driver's calls of `read()`, the end of a transaction |
| `DeadlinePasses` `Cancel` | the clock and the user |

### Properties

* `SuccessHeardAll`: a turn that reports success was heard to its last block, and neither
  thread recorded an error.
* `TurnIsText`: the threads implement `SpokenText`, where sounds are heard in turn, never
  before they are written, and after the end there is silence, unless a thread that could
  not be joined was left behind, which the outcome says.
* `Lifetime`: ring, cancel owner and pipe are freed only when no thread can poll them,
  whichever joins fail.
* `NoCircularWait`: until the turn is over and the threads are gone, one of the three can
  go on: what it waits for is there, or it finds the error that ends its wait.
* `EveryStepCounts`: apart from a look at what is not there yet (`LookAgain`), every step uses
  up part of `ToDo`; no transaction is tried again, no phrase taken twice.
* `TurnEnds`: every turn ends, with no help from a deadline, from the user, or from a
  `pthread_join` that gives up.

### Proved

`SpeechPipeProofs!Invariant` proves `Spec => []IInv` with

    IInv == TypeOK /\ QueueOK /\ SoundOK /\ OwnersOK

`SoundOK` counts the sound: what was heard, waits in the ring and is held back is exactly
what the phrases taken have yielded so far, numbered without a gap. `QueueOK` says the same of
the phrases queued, and that `done` is the turn's last word. `OwnersOK` follows the errors:
which thread must have told whom by the time it ends, and who still needs which
structure (a playback that was never begun has no I2S worker). None of the safety properties is inductive: success is decided by the
turn, three threads away from the block that may be missing. From the invariant follow
`NothingFreedEarly`, `SuccessIsHeard` and `ImplementsText`, for every number of phrases and
every size of queue, ring, gates and transactions (a gate must fit the ring:
`SizesAssumption`), and `NoEmptyTransaction`: a transaction is never opened on an empty ring
(`NeverEmpty`, which has no run of its own: it is part of what `IInv` says).

`NeverAllWait` and `TurnShrinks` prove `NoCircularWait` and `EveryStepCounts`. The first needs
the gates: a ring that is full satisfies every gate, so a synthesis that waits for room and a
worker that waits for sound cannot wait at the same time, and a join waits only for a thread
that has work or an error to end on. The measure counts blocks still to be heard, made and
written and each thread's place in its loop; a transaction that has given a block pays for
its way back to the gate. Together: no deadlock and no livelock among the three threads, for
every size; with their fairness, which is TLC's part, `TurnEnds`.

## 7. `VoiceService`: who may use which device

### State and actions

The tasks are the service's worker (`svc`) and the consoles; each has a place `pc`, the code
`rc` it carries there, and the `token` it waits for. The globals keep their names.
`worker`, `cleanup`, `stop_requested`, `identify_job` and `request_token` are the camera
job's, `session` the recogniser the service holds, `consent` the desktop consent it gave,
`turn_mode` the mode frozen for the turn.

A step is one critical section or one call of a device or the network whose own retries and
deadlines are inside. What runs under `product_start_lock` is one step: what it can meet
inside is an atomic of another task, set as well a moment earlier or later.
`product_turn_lock` is left out: by `Exclusive` the two who take it never meet.
Retained workers (`retain`), stuck jobs, failed cleanups, a failing cloud and errors are
hazards; whether `auto` finds the cloud in its cooldown is a choice.

| actions | code |
|---|---|
| `Run` `Stop` `Mode` `ModeSaved` | `aipet run`, `stop`, `mode` |
| `Claim` `Loop` `Pause` `Open` `Listen` `Capture` `Recognise` `Dispatch` `SvcTurnEnds` `Exit` | `product_voice_main`: settings, route, session, lock, capture, text, kind of question, what the turn's code means, the way out |
| `Ask` `AskEnds` | `audio_product_manual_begin`, `product_text_ask` |
| `Intent` `Identify` `Poll` `SayGuard` `SayLock` `Saying` | `product_turn` under either owner: words, or a camera job and the wait for it; the speech |
| `Speak` `Camera` `LiveStop` | the consoles' audio and camera commands |
| `JobRuns` `JobEnds` | the camera job: its frames end, or a thread cannot be joined; its cleanup |

### Properties

* `Exclusive`: a camera job that only shows its view runs beside no service and no
  turn; one that identifies belongs to a turn that waits for it or stands in quarantine.
* `OwnFrame`: a turn that waits for the camera waits for its own request, and the token is
  never 0 although it wraps.
* `CloudOnly`: a turn of the service begun in explicit cloud mode never reaches the local
  models, whatever is saved or fails meanwhile. (The route of a foreground turn is left out.)
* `DevicesAreLeased`: all of them together implement `Leases`, in which there are no locks,
  settings, requests or deadlines: one holder of the pet, one user of the NPU and one of the
  audio device, given back with everything that went with it; no lease taken and no camera job begun
  once a device is in doubt; a holder in quarantine that stays one.
* `DoubtEndsTurn`: a turn that meets a job in doubt ends, whatever other cause it had.
* `StopEnds`: a stop ends the service unless it stands in quarantine; `LeaseEnds`: a
  foreground turn gives its lease back or stands in quarantine.

### Proved

`VoiceServiceProofs!Invariant` proves `Spec => []IInv` with

    IInv == TypeOK /\ OwnersOK /\ LockOK /\ JobOK /\ Exclusive /\ NpuExclusive /\ OwnFrame /\ CloudOnly

`Exclusive` alone is not inductive: whether a job may start depends on who holds the
reservation, and a reservation is given only if no job runs, so `OwnersOK` has to tie
the reservations to the places of their owners, and `JobOK` the job's leavings to its state. From the
invariant follow `Exclusive`, `OwnFrame`, `CloudOnly` and `NpuExclusive` (the recogniser is
closed whenever a camera job runs) and, step by step, `DoubtEnds` and `QuarantineStays`
(`CleanupKept`: after a failed cleanup no job, service or foreground turn begins), for every
set of consoles, modes, commands and hazards and every largest token. `NpuExclusive` and
`CleanupKept` have no run of their own: the first is part of `IInv`, the second follows from
the refinement.

`ImplementsLeases` proves `Spec => DevicesAreLeased`. The holder is read from `service_active`
and `product_manual_owner`, the user of the NPU from `worker`, `identify_job` and `session`,
the user of the audio device from `operation_lock`, what is in doubt from `audio_fault` and
`cleanup`. The code keeps no such variables: each command looks at some of these globals
under one of four locks, and the theorem says that together they amount to a lease.

## 8. Runs

| run | what it asks | instance | distinct states |
|---|---|---|---|
| `McuLinkPermit` | permission under faults and restarts of the controller, and every kind of reply | 1 caller; move, stop, clear, stat, ping; start, arm, disarm | 6.7 million |
| `McuLinkCallers` | the inductive invariant and the refinement with two callers, losses and trips | 2 callers (symmetric); servo, config; start, desktop on | 3.2 million |
| `McuLinkLive` | STOP leaves, calls return, disconnect ends, with I/O errors | 1 caller; move, stop; start, session, disconnect | 0.2 million |
| `McuStopOverrules` | expected violation, see section 10 | 3 callers | |
| `McuFaultLocks` | expected violation | 1 caller | |
| `CameraPipe` | safety of both kinds of job and that each ends, every failure | 6 frames, all hazards | 0.2 million |
| `AgentTurn` | all properties of the agent turn | 2 requests, 2 turns, all hazards | 0.9 million |
| `AgentCancel`, `AgentReport` | expected violations | 2 requests, 1 and 2 turns | |
| `SpeechPipe` | the spoken reply, every failure | 3 phrases of 2 blocks, 2 places, a ring of 2, gates 1 and 2, transactions of 2, limit 5 | 1.5 million |
| `VoiceService` | service, turns, camera job and commands, every failure | 2 consoles, all commands and modes, tokens 1 and 2 | 0.1 million |
| `AudioReuse` | expected violation | 2 consoles; run, stop, speak | |

**Why the bounds are enough.** *Link.* There is one job, so two callers show every
interference at the gate; the third in `McuStopOverrules` is needed for its scenario
only. One request keeps at most one frame in flight; what a second place downwards would
add is an event or a PONG that overtakes, and one place shows each before and after every
step. One tick per deadline separates before, at and after; the
relation between deadlines that matters (a request dies before its caller gives up) is
kept by `JobTicks < CallTicks`, and heartbeats are both due at every tick and every other
one across the runs. Uptime 0 and 1 show a restart. *Camera.* With two slots the
sequence repeats after two frames; six show the first pair, a full turn with both slots
reused, and the end. *Agent.* Two requests give a late answer and its successor, by the
same asker or the other; two turns give a tool call that outlives its turn and the next
turn's report. *Speech.* Three phrases fill two places and leave one waiting, or wrap the
cursor; two blocks per phrase cross every boundary of a ring, a gate and a transaction of
two, and six blocks exceed the limit of five. *Service.* Two consoles give a turn and the
command that disturbs it; two tokens wrap after two jobs. In all of them, the invariants
checked here are also proved for any bound.

Hazards are constants so that a run can leave out those its question does not concern:
`McuLinkLive` leaves out the controller's own events, which do not bear on the
worker's progress. The link, the agent, the spoken reply and the service are checked for
deadlock too: the link and the service never stop, and a spoken reply that is over says so
with `Over`. A camera job does stop, when it is over, so its run says
`CHECK_DEADLOCK FALSE`, and `JobEnds` says that it stops nowhere else.

### Fairness, and what in the code justifies it

* `McuLink`: weak fairness of the worker, and of its choice of a frame: one read is
  bounded by 256 bytes and an iteration sleeps 2 ms, so the choice is reached in every
  iteration. Strong fairness of time, and, for each caller, of being turned away or accepted and of
  returning: a caller polls every 2 ms for a lock that is free in every iteration of the
  worker. The controller and the wire owe nothing.
* `CameraPipe`: weak fairness of each thread (each has a core, device and display calls
  are bounded by their drivers' timeouts), but not of the steps in which a wait times out,
  nor of the user's stop or the deadline: a job must end without them.
* `AgentTurn`: weak fairness of submitting, polling, reporting and ending by the holder
  of each lock (both poll in a loop with a sleep), and of the deadline's passing. The engine, the
  network, and the users owe nothing. The presentation of the answer, and the local
  model that stands in for it, are assumed to end.
* `SpeechPipe`: weak fairness of each of the three threads, as each polls with a sleep of
  1 ms and a device transaction is bounded by the driver (10.2 s). The model's stream is
  assumed to end (its own deadline is upstream). No deadline has to pass, no user to help,
  and no join to fail: `JoinFails` and the failing branch of `Leave` are not fair, since a
  `pthread_join` on a thread that goes on may wait for ever. A join is fair only in
  returning once the thread it waits for is gone.
* `VoiceService`: weak fairness of the service, of each turn and of the job, whose waits are
  all bounded. Nobody has to give a command, nor to speak: a capture need only end once it
  is told to stop.

## 9. What is only model-checked

* Liveness (`StopIsSent`, `CallReturns`, `DisconnectEnds`, `JobEnds`, `AskEnds`, `TurnEnds`,
  `StopEnds`, `LeaseEnds`), as the prover does not reason about fairness and ENABLED. For
  the camera job and the spoken reply the two facts behind it, that the threads never all wait and that
  every step counts, are proved for every size.
* The expected violations, which are counterexamples.

Induction over data and RECURSIVE operators are out of the prover's reach; no module here
needs them.

## 10. Disagreements found

1. **A queued motion survives a STOP** (`McuStopOverrules`). A STOP closes the permission
   but leaves a request already queued. A voice command of another caller can open it
   again before the worker's next iteration; the STOP goes out, and the motion queued
   before it follows. `docs/a733/AGENT_UART4_STM32_V177.md:119` says the next motion has to be armed again.
2. **A fault between two voice commands does not lock the session** (`McuFaultLocks`). The
   revocation of `receive()` acts only if the link was armed at that moment.
   `docs/PRODUCT_V2_0PRE_V225.md:12` says that a fault locks the session until the user turns it on again.
3. **A cancelled asker can take another's answer** (`AgentCancel`). `submit` clears
   `cancelled` and `poll` does not know who is polling.
   `docs/a733/AIPET_ONLINE_AGENT.md:16` promises isolation after a cancel.
4. **A report can deny a call in flight** (`AgentReport`). The permit is used up before the
   command is sent, the report is stored after it returns; a turn that ends in
   between reports that no tool was called, against `pet_routes.cxx:197`.

5. **The device in quarantine is used again** (`AudioReuse`). A service started while a
   console plays looks at `audio_fault` only at its start. If that playback's worker cannot
   be joined, the fault is set and `operation_lock` released; the service takes the lock and
   opens the microphone on the same I2S port. The declaration of `audio_fault`
   (`audio_app.cxx:61`) says "reboot, never reuse I2S".

Each is quoted with its lines in `PROJECT.json`.

## 11. What is not modelled, and why

* Of the modelled parts: positions, distances and diagnostic counters of the link, wording
  and encodings of texts, timing counters of the camera job, the parsing of the tool's
  arguments (a choice of the command), the local-model turns of `pet_routes.cxx` that do not
  speak, the phrase pipe's older path without a feed, the boot greeting, settings and rules.
* What a device or the network does inside one call: a cloud recognition or synthesis with
  its retries, a local recognition, and one utterance captured by `audio_capture_live.cxx`
  are single steps of `VoiceService` that may fail, be cancelled or keep an owner.
* Tasks killed from outside, and power loss: nothing in these parts is persisted but the
  mode, which the code itself says is not written as a transaction.
* A restart of the controller that its uptime does not show is invisible to the code, and
  so is outside what `PermitSound` can say.
* `-ECANCELED` as a job's first error is turned into success when a stop was requested;
  another thread's failure disappears with it. `FailureReported` is stated for jobs nobody
  stopped.
* A camera job does not look at `operation_lock`, so it may run beside a console's playback
  (the opposite order is refused). `Exclusive` is about jobs, the service and turns.
* Drivers, numeric models, cloud protocols, cryptography and vendored daemons: hardware
  timing, data and I/O rather than control. They are most of the repository's lines (the FTP,
  NTP and SD-card sources, the FAT file system, the acoustic and language models), so the
  lines mapped here are a small share of the whole and most of the part in which tasks
  meet. `PROJECT.json` gives the reason for each component.
