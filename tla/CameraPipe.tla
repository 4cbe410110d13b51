----------------------------- MODULE CameraPipe -----------------------------
(***************************************************************************)
(* One pipelined camera job: a733_camera_pipeline.inc and the loop of      *)
(* worker() in a733_camera_live.c that drives it.                          *)
(*                                                                         *)
(* The producer thread captures frames into two slots, the job's main task *)
(* runs inference on them in order, and in an asynchronous job a renderer  *)
(* thread, the only owner of the display, shows them; in a synchronous job *)
(* the main task shows them itself.  All three share the slots under one   *)
(* lock but use a slot's pixels outside it: whose turn it is, is the       *)
(* slot's state.  Each step below is one critical section together with    *)
(* the unlocked work in front of it that no other thread can see.          *)
(***************************************************************************)
EXTENDS Naturals, FiniteSets

CONSTANTS
  Modes,      \* the kinds of job: TRUE is asynchronous
  MaxFrames,  \* A733_LIVE_MAX_FRAMES
  Hazards     \* what goes wrong outside, a subset of AllHazards

AllHazards == {"io", "display", "npu", "thread", "join", "slow"}

ASSUME ModesAssumption == Modes \subseteq BOOLEAN
ASSUME FramesAssumption == MaxFrames \in Nat
ASSUME HazardsAssumption == Hazards \subseteq AllHazards

VARIABLES
  \* struct pipe_slot_s, one value per slot: whose turn it is, the frame whose
  \* pixels are in `rgb' (0 while they are written), the frame `result' and
  \* `completed' are about
  state, rgb, result, completed,
  \* struct live_pipe_s
  stop, done, error, cleanup, inference_done, drain, render_ready,
  produced, consumed, submitted, rendered,
  \* the job, and the clock that passed its deadline
  asynchronous, stop_requested, expired,
  \* each thread: its place, the number of its frame, the code it returns
  prod, pseq, pr,
  rend, rseq, rr, owns,
  main, mseq, ret,
  \* history: the picture on the display, and the result drawn over it
  screen

slotVars  == <<state, rgb, result, completed>>
flagVars  == <<stop, inference_done, drain>>
countVars == <<produced, consumed, submitted, rendered>>
jobVars   == <<asynchronous, stop_requested, expired>>
prodVars  == <<prod, pseq, pr>>
rendVars  == <<rend, rseq, rr, owns>>
mainVars  == <<main, mseq, ret>>
vars == <<slotVars, flagVars, done, error, cleanup, render_ready, countVars,
          jobVars, prodVars, rendVars, mainVars, screen>>

-----------------------------------------------------------------------------
Slots == 0..1
Slot(seq) == (seq - 1) % 2
SlotStates == {"FREE", "WRITING", "READY", "READING", "DRAW_READY", "DRAWING"}
\* 0, -ECANCELED, -ETIMEDOUT, any device's error, and the two the pipeline's
\* own checks raise.
Codes == {"ok", "cancelled", "timeout", "failed", "stale", "protocol"}

\* pipe_halt()
pipe_halt == stop \/ error # "ok" \/ stop_requested
\* `if(r && !p->error)p->error=r'
Record(r) == error' = IF error = "ok" THEN r ELSE error
\* `if(ret==-ECANCELED && stopping())ret=0'
Quiet(r) == IF r = "cancelled" /\ stop_requested THEN "ok" ELSE r

Init ==
  /\ state = [i \in Slots |-> "FREE"] /\ rgb = [i \in Slots |-> 0]
  /\ result = [i \in Slots |-> 0] /\ completed = [i \in Slots |-> 0]
  /\ stop = FALSE /\ done = FALSE /\ error = "ok" /\ cleanup = FALSE
  /\ inference_done = FALSE /\ drain = FALSE /\ render_ready = FALSE
  /\ produced = 0 /\ consumed = 0 /\ submitted = 0 /\ rendered = 0
  /\ asynchronous \in Modes /\ stop_requested = FALSE /\ expired = FALSE
  /\ prod = "none" /\ pseq = 1 /\ pr = "ok"
  /\ rend = "none" /\ rseq = 1 /\ rr = "ok" /\ owns = FALSE
  /\ main = "start" /\ mseq = 1 /\ ret = "ok"
  /\ screen = [rgb |-> 0, result |-> 0]

-----------------------------------------------------------------------------
(* pipe_producer                                                            *)

producerFrame == <<completed, flagVars, cleanup, render_ready, consumed, submitted, rendered,
                   jobVars, rendVars, mainVars, screen>>

ProdBind ==
  /\ prod = "bind"
  /\ \/ prod' = "next" /\ UNCHANGED pr
     \/ "thread" \in Hazards /\ prod' = "quit" /\ pr' = "failed"
  /\ UNCHANGED <<state, rgb, result, done, error, produced, pseq, producerFrame>>

\* Mutant: one frame too many.
ProdNextOne ==
  /\ prod = "next"
  /\ prod' = IF pipe_halt \/ expired \/ pseq > MaxFrames + 1 THEN "quit" ELSE "wait"
  /\ UNCHANGED <<state, rgb, result, done, error, produced, pseq, pr, producerFrame>>

\* The head of the for loop.
ProdNext ==
  /\ prod = "next"
  /\ prod' = IF pipe_halt \/ expired \/ pseq > MaxFrames THEN "quit" ELSE "wait"
  /\ UNCHANGED <<state, rgb, result, done, error, produced, pseq, pr, producerFrame>>

\* Mutant: the slot the renderer is drawing from counts as free.
ProdClaimDrawn ==
  /\ prod = "wait"
  /\ IF state[Slot(pseq)] \in {"FREE", "DRAWING"}
       THEN prod' = "capture" /\ state' = [state EXCEPT ![Slot(pseq)] = "WRITING"]
       ELSE prod' = "look" /\ UNCHANGED state
  /\ UNCHANGED <<rgb, result, done, error, produced, pseq, pr, producerFrame>>

\* Waiting for the slot: look at it under the lock, then at everything else.
ProdClaim ==
  /\ prod = "wait"
  /\ IF state[Slot(pseq)] = "FREE"
       THEN prod' = "capture" /\ state' = [state EXCEPT ![Slot(pseq)] = "WRITING"]
       ELSE prod' = "look" /\ UNCHANGED state
  /\ UNCHANGED <<rgb, result, done, error, produced, pseq, pr, producerFrame>>

ProdLook ==
  /\ prod = "look"
  /\ \/ (pipe_halt \/ expired) /\ prod' = "quit" /\ UNCHANGED pr
     \/ ~pipe_halt /\ ~expired /\ prod' = "wait" /\ UNCHANGED pr
     \/ ~pipe_halt /\ ~expired /\ "slow" \in Hazards /\ prod' = "quit" /\ pr' = "timeout"
  /\ UNCHANGED <<state, rgb, result, done, error, produced, pseq, producerFrame>>

\* stream-take, the copy of RAW, stream-prefetch; then the pixels are written.
ProdCapture ==
  /\ prod = "capture"
  /\ \/ /\ ~pipe_halt
        /\ prod' = "render" /\ rgb' = [rgb EXCEPT ![Slot(pseq)] = 0]
        /\ UNCHANGED pr
     \/ pipe_halt /\ prod' = "quit" /\ UNCHANGED <<pr, rgb>>
     \/ stop_requested /\ prod' = "quit" /\ pr' = "cancelled" /\ UNCHANGED rgb
     \/ "io" \in Hazards /\ prod' = "quit" /\ pr' = "failed" /\ UNCHANGED rgb
  /\ UNCHANGED <<state, result, done, error, produced, pseq, producerFrame>>

ProdRender ==
  /\ prod = "render"
  /\ \/ /\ ~pipe_halt
        /\ prod' = "publish" /\ rgb' = [rgb EXCEPT ![Slot(pseq)] = pseq]
        /\ result' = [result EXCEPT ![Slot(pseq)] = pseq]
        /\ UNCHANGED pr
     \/ pipe_halt /\ prod' = "quit" /\ UNCHANGED <<pr, rgb, result>>
     \/ "io" \in Hazards /\ prod' = "quit" /\ pr' = "failed" /\ UNCHANGED <<rgb, result>>
  /\ UNCHANGED <<state, done, error, produced, pseq, producerFrame>>

ProdPublish ==
  /\ prod = "publish"
  /\ IF stop
       THEN prod' = "quit" /\ UNCHANGED <<state, produced, pseq>>
       ELSE /\ prod' = "next" /\ pseq' = pseq + 1
            /\ state' = [state EXCEPT ![Slot(pseq)] = "READY"]
            /\ produced' = produced + 1
  /\ UNCHANGED <<rgb, result, done, error, pr, producerFrame>>

ProdQuit ==
  /\ prod = "quit"
  /\ prod' = "ended" /\ done' = TRUE /\ Record(pr)
  /\ UNCHANGED <<state, rgb, result, produced, pseq, pr, producerFrame>>

-----------------------------------------------------------------------------
(* pipe_renderer                                                            *)

rendererFrame == <<rgb, result, completed, flagVars, done, produced, submitted,
                   jobVars, prodVars, mainVars>>

\* Bind to the core, take the display, and report either way.
RendBegin ==
  /\ rend = "begin"
  /\ \/ ~stop_requested /\ rr' = "ok" /\ owns' = TRUE
     \/ stop_requested /\ rr' = "cancelled" /\ UNCHANGED owns
     \/ {"display", "thread"} \cap Hazards # {} /\ rr' = "failed" /\ UNCHANGED owns
  /\ rend' = IF rr' = "ok" THEN "wait" ELSE "quit"
  /\ render_ready' = TRUE /\ Record(rr')
  /\ UNCHANGED <<state, cleanup, consumed, rendered, rseq, screen, rendererFrame>>

\* Mutant: the renderer is not told that no more frames will be handed over.
RendStopUntold == (stop /\ ~drain) \/ stop_requested

RendStop == (stop /\ ~drain) \/ stop_requested \/ (inference_done /\ rseq > submitted)

\* Mutant: the renderer does not wait for the result to be handed over.
RendWaitEarly ==
  /\ rend = "wait"
  /\ \/ /\ error # "ok" \/ RendStop
        /\ rend' = "quit" /\ rr' = error /\ UNCHANGED state
     \/ /\ error = "ok" /\ ~RendStop /\ state[Slot(rseq)] \in {"READING", "DRAW_READY"}
        /\ rend' = "draw" /\ UNCHANGED rr
        /\ state' = [state EXCEPT ![Slot(rseq)] = "DRAWING"]
  /\ UNCHANGED <<error, cleanup, render_ready, consumed, rendered, rseq, owns, screen,
                 rendererFrame>>

\* One look under the lock: leave, or take the slot if it is this one's turn.
RendWait ==
  /\ rend = "wait"
  /\ \/ /\ error # "ok" \/ RendStop
        /\ rend' = "quit" /\ rr' = error /\ UNCHANGED state
     \/ /\ error = "ok" /\ ~RendStop /\ state[Slot(rseq)] = "DRAW_READY"
        /\ IF completed[Slot(rseq)] # rseq \/ result[Slot(rseq)] # rseq
             THEN rend' = "quit" /\ rr' = "stale" /\ UNCHANGED state
             ELSE /\ rend' = "draw" /\ UNCHANGED rr
                  /\ state' = [state EXCEPT ![Slot(rseq)] = "DRAWING"]
     \/ /\ error = "ok" /\ ~RendStop /\ state[Slot(rseq)] # "DRAW_READY" /\ "slow" \in Hazards
        /\ rend' = "quit" /\ rr' = "timeout" /\ UNCHANGED state
  /\ UNCHANGED <<error, cleanup, render_ready, consumed, rendered, rseq, owns, screen,
                 rendererFrame>>

RendDraw ==
  /\ rend = "draw"
  /\ \/ /\ rend' = "complete" /\ UNCHANGED rr
        /\ screen' = [rgb |-> rgb[Slot(rseq)], result |-> completed[Slot(rseq)]]
     \/ "display" \in Hazards /\ rend' = "quit" /\ rr' = "failed" /\ UNCHANGED screen
  /\ UNCHANGED <<state, error, cleanup, render_ready, consumed, rendered, rseq, owns,
                 rendererFrame>>

\* live_complete(), then the slot is given back.
RendComplete ==
  /\ rend = "complete"
  /\ IF state[Slot(rseq)] # "DRAWING"
       THEN rend' = "quit" /\ rr' = "protocol" /\ UNCHANGED <<state, consumed, rendered, rseq>>
       ELSE /\ rend' = "wait" /\ rseq' = rseq + 1 /\ UNCHANGED rr
            /\ rendered' = rendered + 1 /\ consumed' = consumed + 1
            /\ state' = [state EXCEPT ![Slot(rseq)] = "FREE"]
  /\ UNCHANGED <<error, cleanup, render_ready, owns, screen, rendererFrame>>

\* done: give the display back and record the error.
RendQuit ==
  /\ rend = "quit"
  /\ rend' = "ended" /\ owns' = FALSE /\ Record(rr)
  /\ \/ UNCHANGED cleanup
     \/ owns /\ "display" \in Hazards /\ cleanup' = TRUE
  /\ UNCHANGED <<state, render_ready, consumed, rendered, rseq, rr, screen, rendererFrame>>

-----------------------------------------------------------------------------
(* worker(): pipe_start, the loop, pipe_finish and pipe_destroy             *)

mainFrame == <<rgb, result, cleanup, render_ready, done, produced, rendered, jobVars,
               pseq, pr, rseq, rr, owns>>
End(r) == main' = "end" /\ ret' = r

\* Allocation may fail, and so may creating the first thread.
PipeStart ==
  /\ main = "start"
  /\ \/ asynchronous /\ rend' = "begin" /\ main' = "await" /\ UNCHANGED <<prod, ret>>
     \/ ~asynchronous /\ prod' = "bind" /\ main' = "loop" /\ UNCHANGED <<rend, ret>>
     \/ "thread" \in Hazards /\ End("failed") /\ UNCHANGED <<prod, rend>>
  /\ UNCHANGED <<state, completed, flagVars, error, consumed, submitted, mseq,
                 screen, mainFrame>>

\* Wait for the renderer to own the display before anything is captured.
PipeAwait ==
  /\ main = "await"
  /\ \/ /\ render_ready /\ error = "ok"
        /\ \/ prod' = "bind" /\ main' = "loop" /\ UNCHANGED ret
           \/ "thread" \in Hazards /\ End("failed") /\ UNCHANGED prod
     \/ render_ready /\ error # "ok" /\ End(error) /\ UNCHANGED prod
     \/ ~render_ready /\ "slow" \in Hazards /\ End("timeout") /\ UNCHANGED prod
  /\ UNCHANGED <<state, completed, flagVars, error, consumed, submitted, rend,
                 mseq, screen, mainFrame>>

MainLoop ==
  /\ main = "loop"
  /\ main' = IF stop_requested \/ expired \/ mseq > MaxFrames THEN "end" ELSE "take"
  /\ UNCHANGED <<state, completed, flagVars, error, consumed, submitted, prod, rend,
                 mseq, ret, screen, mainFrame>>

\* pipe_take: under the lock, the error, the slot and `done'; then the rest.
TakeError ==
  /\ main = "take" /\ error # "ok"
  /\ End(error)
  /\ UNCHANGED <<state, completed, flagVars, error, consumed, submitted, prod, rend,
                 mseq, screen, mainFrame>>

TakeReady ==
  /\ main = "take" /\ error = "ok" /\ state[Slot(mseq)] = "READY"
  /\ IF result[Slot(mseq)] # mseq
       THEN End("stale") /\ UNCHANGED state
       ELSE /\ main' = "work" /\ UNCHANGED ret
            /\ state' = [state EXCEPT ![Slot(mseq)] = "READING"]
  /\ UNCHANGED <<completed, flagVars, error, consumed, submitted, prod, rend, mseq,
                 screen, mainFrame>>

\* Nothing yet: a producer that was done leaves nothing to wait for.
TakeNothing ==
  /\ main = "take" /\ error = "ok" /\ state[Slot(mseq)] # "READY"
  /\ main' = IF done THEN "end" ELSE "look"
  /\ UNCHANGED <<state, completed, flagVars, error, consumed, submitted, prod, rend,
                 mseq, ret, screen, mainFrame>>

\* Mutant: a wait that timed out is begun again.
TakeLookAgain ==
  /\ main = "look"
  /\ \/ (pipe_halt \/ expired) /\ main' = "end"
     \/ ~pipe_halt /\ ~expired /\ main' = "take"
     \/ ~pipe_halt /\ ~expired /\ "slow" \in Hazards /\ main' = "loop"
  /\ UNCHANGED <<state, completed, flagVars, error, consumed, submitted, prod, rend,
                 mseq, ret, screen, mainFrame>>

TakeLook ==
  /\ main = "look"
  /\ \/ (pipe_halt \/ expired) /\ main' = "end" /\ UNCHANGED ret
     \/ ~pipe_halt /\ ~expired /\ main' = "take" /\ UNCHANGED ret
     \/ ~pipe_halt /\ ~expired /\ "slow" \in Hazards /\ End("timeout")
  /\ UNCHANGED <<state, completed, flagVars, error, consumed, submitted, prod, rend,
                 mseq, screen, mainFrame>>

\* Inference in an asynchronous job; a stop is heeded after a detection only.
Infer(detect) ==
  /\ main = "work" /\ asynchronous
  /\ \/ /\ detect => ~stop_requested
        /\ main' = "hand" /\ UNCHANGED ret
     \/ detect /\ stop_requested /\ main' = "end" /\ UNCHANGED ret
     \/ detect /\ "npu" \in Hazards /\ End("failed")
  /\ UNCHANGED <<state, completed, flagVars, error, consumed, submitted, prod, rend,
                 mseq, screen, mainFrame>>

\* A synchronous job shows the frame itself, after the detection if there is one.
InferAndShow(detect) ==
  /\ main = "work" /\ ~asynchronous
  /\ \/ /\ detect => ~stop_requested
        /\ screen' = [rgb |-> rgb[Slot(mseq)], result |-> result[Slot(mseq)]]
        /\ main' = IF stop_requested THEN "end" ELSE "hand"
        /\ UNCHANGED ret
     \/ detect /\ stop_requested /\ main' = "end" /\ UNCHANGED <<ret, screen>>
     \/ detect /\ "npu" \in Hazards /\ End("failed") /\ UNCHANGED screen
     \/ "display" \in Hazards /\ End("failed") /\ UNCHANGED screen
  /\ UNCHANGED <<state, completed, flagVars, error, consumed, submitted, prod, rend,
                 mseq, mainFrame>>

\* pipe_release, in a synchronous job.
PipeRelease ==
  /\ main = "hand" /\ ~asynchronous
  /\ main' = "loop" /\ mseq' = mseq + 1
  /\ IF state[Slot(mseq)] # "READING"
       THEN error' = "protocol" /\ UNCHANGED <<state, consumed>>
       ELSE /\ state' = [state EXCEPT ![Slot(mseq)] = "FREE"]
            /\ consumed' = consumed + 1 /\ UNCHANGED error
  /\ UNCHANGED <<completed, flagVars, submitted, prod, rend, ret, screen, mainFrame>>

\* pipe_submit, in an asynchronous job.
PipeSubmit ==
  /\ main = "hand" /\ asynchronous
  /\ \/ error # "ok" /\ End(error) /\ UNCHANGED <<state, completed, submitted, mseq>>
     \/ /\ error = "ok"
        /\ IF \/ state[Slot(mseq)] # "READING"
              \/ result[Slot(mseq)] # mseq \/ mseq # submitted + 1
             THEN End("protocol") /\ UNCHANGED <<state, completed, submitted, mseq>>
             ELSE /\ main' = "loop" /\ mseq' = mseq + 1 /\ submitted' = submitted + 1
                  /\ UNCHANGED ret
                  /\ completed' = [completed EXCEPT ![Slot(mseq)] = mseq]
                  /\ state' = [state EXCEPT ![Slot(mseq)] = "DRAW_READY"]
  /\ UNCHANGED <<flagVars, error, consumed, prod, rend, screen, mainFrame>>

\* Mutant: the end of the job drops what is still to be drawn.
PipeFinishNoDrain ==
  /\ main = "end"
  /\ main' = "join" /\ ret' = Quiet(ret)
  /\ stop' = TRUE /\ inference_done' = TRUE /\ drain' = FALSE
  /\ UNCHANGED <<state, completed, error, consumed, submitted, prod, rend, mseq,
                 screen, mainFrame>>

\* pipe_finish asks both threads to stop; frames already handed over are still
\* drawn after a job that went well.
PipeFinish ==
  /\ main = "end"
  /\ main' = "join" /\ ret' = Quiet(ret)
  /\ stop' = TRUE /\ inference_done' = TRUE
  /\ drain' = (ret' = "ok" /\ ~stop_requested)
  /\ UNCHANGED <<state, completed, error, consumed, submitted, prod, rend, mseq,
                 screen, mainFrame>>

\* A thread that cannot be joined may still use the slots: the product keeps
\* them, and the job, for ever.
JoinProducer ==
  /\ main = "join"
  /\ \/ prod \in {"none", "ended"} /\ main' = "join_renderer"
     \/ prod # "none" /\ "join" \in Hazards /\ main' = "held"
  /\ UNCHANGED <<state, completed, flagVars, error, consumed, submitted, prod, rend,
                 mseq, ret, screen, mainFrame>>

\* Mutant: only the producer is waited for.
JoinRendererNot ==
  /\ main = "join_renderer"
  /\ main' = "destroy"
  /\ UNCHANGED <<state, completed, flagVars, error, consumed, submitted, prod, rend, mseq, ret,
                 screen, mainFrame>>

JoinRenderer ==
  /\ main = "join_renderer"
  /\ \/ rend \in {"none", "ended"} /\ main' = "destroy"
     \/ rend # "none" /\ "join" \in Hazards /\ main' = "held"
  /\ UNCHANGED <<state, completed, flagVars, error, consumed, submitted, prod, rend, mseq, ret,
                 screen, mainFrame>>

\* Mutant: the threads' error is not read before the pipe is freed.
PipeDestroyDeaf ==
  /\ main = "destroy"
  /\ main' = "over" /\ ret' = Quiet(ret)
  /\ UNCHANGED <<state, completed, flagVars, error, consumed, submitted, prod, rend, mseq,
                 screen, mainFrame>>

\* The slots and the pipe are freed; the job's verdict is known.
PipeDestroy ==
  /\ main = "destroy"
  /\ main' = "over" /\ ret' = Quiet(IF ret = "ok" THEN error ELSE ret)
  /\ UNCHANGED <<state, completed, flagVars, error, consumed, submitted, prod, rend,
                 mseq, screen, mainFrame>>

-----------------------------------------------------------------------------
\* `camera live-stop', or a signal to the task.
RequestStop ==
  /\ ~stop_requested /\ stop_requested' = TRUE
  /\ UNCHANGED <<slotVars, flagVars, done, error, cleanup, render_ready, countVars,
                 asynchronous, expired, prodVars, rendVars, mainVars, screen>>

Expire ==
  /\ ~expired /\ expired' = TRUE
  /\ UNCHANGED <<slotVars, flagVars, done, error, cleanup, render_ready, countVars,
                 asynchronous, stop_requested, prodVars, rendVars, mainVars, screen>>

Producer == ProdBind \/ ProdNext \/ ProdClaim \/ ProdLook \/ ProdCapture \/ ProdRender
              \/ ProdPublish \/ ProdQuit
Renderer == RendBegin \/ RendWait \/ RendDraw \/ RendComplete \/ RendQuit
Main ==
  \/ PipeStart \/ PipeAwait \/ MainLoop
  \/ TakeError \/ TakeReady \/ TakeNothing \/ TakeLook
  \/ \E detect \in BOOLEAN : Infer(detect) \/ InferAndShow(detect)
  \/ PipeRelease \/ PipeSubmit
  \/ PipeFinish \/ JoinProducer \/ JoinRenderer \/ PipeDestroy

Next == Producer \/ Renderer \/ Main \/ RequestStop \/ Expire

Spec == Init /\ [][Next]_vars

\* Device and display calls are bounded, threads that end are joined, and each has
\* a core to itself.  No wait need be left by its timeout, and neither the deadline
\* nor a stop need come: none of them is fair.
FairSpec ==
  /\ Spec
  /\ WF_vars(Producer /\ (prod = "look" => pr' = pr))
  /\ WF_vars(Renderer /\ (rend = "wait" /\ error = "ok" => rr' # "timeout"))
  /\ WF_vars(Main /\ main' # "held" /\ (main \in {"await", "look"} /\ error = "ok" => ret' # "timeout"))

-----------------------------------------------------------------------------
SlotTypeOK ==
  /\ state \in [Slots -> SlotStates] /\ rgb \in [Slots -> Nat]
  /\ result \in [Slots -> Nat] /\ completed \in [Slots -> Nat]
PipeTypeOK ==
  /\ stop \in BOOLEAN /\ done \in BOOLEAN /\ error \in Codes /\ cleanup \in BOOLEAN
  /\ inference_done \in BOOLEAN /\ drain \in BOOLEAN /\ render_ready \in BOOLEAN
  /\ produced \in Nat /\ consumed \in Nat /\ submitted \in Nat /\ rendered \in Nat
  /\ asynchronous \in BOOLEAN /\ stop_requested \in BOOLEAN /\ expired \in BOOLEAN
ThreadTypeOK ==
  /\ prod \in {"none", "bind", "next", "wait", "look", "capture", "render", "publish", "quit",
               "ended"}
  /\ rend \in {"none", "begin", "wait", "draw", "complete", "quit", "ended"}
  /\ main \in {"start", "await", "loop", "take", "look", "work", "hand", "end", "join",
               "join_renderer", "destroy", "held", "over"}
  /\ pseq \in Nat \ {0} /\ rseq \in Nat \ {0} /\ mseq \in Nat \ {0}
  /\ pr \in Codes /\ rr \in Codes /\ ret \in Codes /\ owns \in BOOLEAN
  /\ screen \in [rgb : Nat, result : Nat]
TypeOK == SlotTypeOK /\ PipeTypeOK /\ ThreadTypeOK

\* How the three threads' numbers relate, and what that says of the two slots:
\* frames consumed + 1 and consumed + 2 each have one, and its state says how far
\* the frame has come.
CountsOK ==
  /\ pseq = produced + 1 /\ rseq = rendered + 1
  /\ asynchronous => mseq = submitted + 1 /\ rendered = consumed
  /\ ~asynchronous => mseq = consumed + 1 /\ submitted = 0 /\ rendered = 0
  /\ consumed < mseq /\ mseq <= produced + 1 /\ produced <= consumed + 2
  /\ produced <= MaxFrames
  /\ prod \in {"wait", "look", "capture", "render", "publish"} => pseq <= MaxFrames

Window == {consumed + 1, consumed + 2}
Complete(f) == rgb[Slot(f)] = f /\ result[Slot(f)] = f
SlotsOK == \A f \in Window :
  /\ f < mseq =>
       /\ Complete(f) /\ completed[Slot(f)] = f
       /\ state[Slot(f)] = "DRAW_READY" \/ (state[Slot(f)] = "DRAWING" /\ f = rseq)
  /\ mseq <= f /\ f <= produced =>
       /\ Complete(f)
       /\ state[Slot(f)] = "READY" \/ (state[Slot(f)] = "READING" /\ f = mseq)
  /\ f > produced =>
       state[Slot(f)] = "FREE" \/ (state[Slot(f)] = "WRITING" /\ f = pseq)

\* A thread that works on a slot holds it; one that still looks for work holds none.
HoldsOK ==
  /\ prod \in {"capture", "render", "publish"} => state[Slot(pseq)] = "WRITING"
  /\ prod = "publish" => Complete(pseq)
  /\ prod \in {"none", "bind", "next", "wait", "look"} => state[Slot(pseq)] # "WRITING"
  /\ main \in {"work", "hand"} => state[Slot(mseq)] = "READING"
  /\ main \in {"start", "await", "loop", "take", "look"} => state[Slot(mseq)] # "READING"
  /\ rend \in {"draw", "complete"} => state[Slot(rseq)] = "DRAWING"
  /\ rend \in {"none", "begin", "wait"} => state[Slot(rseq)] # "DRAWING"

ThreadsOK ==
  /\ ~asynchronous => rend = "none" /\ main # "await"
  /\ main = "start" => rend = "none"
  /\ main \in {"start", "await"} => prod = "none"
  /\ main \in {"join_renderer", "destroy", "over"} => prod \in {"none", "ended"}
  /\ main \in {"destroy", "over"} => rend \in {"none", "ended"}
  /\ rend \in {"none", "begin", "ended"} => ~owns

ScreenOK ==
  /\ screen.result = screen.rgb
  /\ asynchronous => screen.rgb = IF rend = "complete" THEN rseq ELSE rendered
  /\ ~asynchronous =>
       /\ main \in {"start", "loop", "take", "look", "work"} => screen.rgb = consumed
       /\ main = "hand" => screen.rgb = consumed + 1
       /\ screen.rgb \in {consumed, consumed + 1} /\ screen.rgb <= produced

\* Pixels are used outside the lock by one thread at a time, and they are still
\* the frame that thread took: the producer cannot overwrite a frame under
\* inference or on its way to the display.
SlotOwner ==
  /\ prod \in {"capture", "render", "publish"} => state[Slot(pseq)] = "WRITING"
  /\ main \in {"work", "hand"} =>
       /\ state[Slot(mseq)] = "READING"
       /\ rgb[Slot(mseq)] = mseq /\ result[Slot(mseq)] = mseq
  /\ rend \in {"draw", "complete"} =>
       /\ state[Slot(rseq)] = "DRAWING"
       /\ rgb[Slot(rseq)] = rseq /\ completed[Slot(rseq)] = rseq

\* The sequence and state checks of pipe_take, pipe_release, pipe_submit and
\* the renderer (-ESTALE, -EPROTO) never fire, whatever fails or stops.
ChecksNeverFire == {error, pr, rr, ret} \cap {"stale", "protocol"} = {}

\* The inductive invariant behind the safety properties.
IInv == TypeOK /\ CountsOK /\ SlotsOK /\ HoldsOK /\ ThreadsOK /\ ScreenOK /\ ChecksNeverFire

\* What the end of a job rests on: whose failure is in `error', and which frames
\* are still to be drawn.
Joining == {"join", "join_renderer", "destroy", "held", "over"}
VerdictOK ==
  /\ pr # "ok" => prod = "quit" \/ (prod = "ended" /\ error # "ok")
  /\ rr # "ok" => rend = "quit" \/ (rend = "ended" /\ error # "ok")
  /\ main = "over" /\ ret = "ok" /\ ~stop_requested => error = "ok"
DrainOK ==
  /\ ~asynchronous /\ ~stop_requested /\ main # "hand" => screen.rgb = consumed
  /\ asynchronous /\ rend = "none" =>
       main = "start" \/ (main \in Joining \cup {"end"} /\ ret = "failed")
  /\ stop \/ inference_done => main \in Joining
  /\ main \in Joining /\ ret = "ok" /\ ~stop_requested => drain
  /\ rend \in {"quit", "ended"} /\ rr = "ok" /\ ~stop_requested =>
       (stop /\ ~drain) \/ (inference_done /\ rseq > submitted)

\* What a thread that waits for another can rely on.
WaitOK ==
  /\ main = "await" /\ rend # "begin" => render_ready
  /\ main \notin {"start", "await", "end"} \cup Joining => prod # "none"
  /\ done = (prod = "ended")
  /\ main \in Joining => stop /\ inference_done

\* The strengthening behind what a job reports at its end.
EndInv == IInv /\ VerdictOK /\ DrainOK /\ WaitOK

\* Every frame the producer published is in a slot or was given back, once.
Accounting ==
  /\ asynchronous => consumed = rendered
  /\ produced = consumed + Cardinality({i \in Slots : state[i] \notin {"FREE", "WRITING"}})

\* pipe_destroy frees the slots only when nobody can use them again, with the
\* display given back.
Lifetime == main = "over" =>
  prod \in {"none", "ended"} /\ rend \in {"none", "ended"} /\ ~owns

\* A job that is not stopped and reports success has shown every frame it ran
\* inference on, the ones still queued when its time was up included.
SuccessShowsAll ==
  main = "over" /\ ret = "ok" /\ ~stop_requested => screen.rgb = mseq - 1 /\ consumed = mseq - 1

\* No thread's failure is missing from the verdict of a job that is not stopped.
\* (A stop may hide one: its -ECANCELED can be the first error, and the only one
\* the pipe keeps.)
FailureReported ==
  main = "over" /\ ret = "ok" /\ ~stop_requested => {pr, rr, error} = {"ok"}

\* Each thread's next step gets it somewhere: what it waits for, if it waits, is
\* there.
ProdCan ==
  /\ prod \notin {"none", "ended"}
  /\ prod \in {"wait", "look"} => state[Slot(pseq)] = "FREE" \/ pipe_halt \/ expired
RendCan ==
  /\ rend \notin {"none", "ended"}
  /\ rend = "wait" => error # "ok" \/ RendStop \/ state[Slot(rseq)] = "DRAW_READY"
MainCan ==
  /\ main \notin {"held", "over"}
  /\ main = "await" => render_ready
  /\ main \in {"take", "look"} =>
       error # "ok" \/ state[Slot(mseq)] = "READY" \/ done \/ pipe_halt \/ expired
  /\ main = "join" => prod \in {"none", "ended"}
  /\ main = "join_renderer" => rend \in {"none", "ended"}

\* The three threads never all wait for each other, with no help from a timeout,
\* the deadline, a stop or a failed join, and with two slots for any number of
\* frames: until the job is over, one of them can go on.
NoCircularWait == main \notin {"held", "over"} => ProdCan \/ RendCan \/ MainCan

\* How much a job still has to do: per thread, the frames ahead of it and what is
\* left of the one it is at.
ProdPlace == [none |-> 8, bind |-> 7, next |-> 6, wait |-> 5, look |-> 5, capture |-> 4,
              render |-> 3, publish |-> 2, quit |-> 1, ended |-> 0]
RendPlace == [none |-> 6, begin |-> 5, wait |-> 4, draw |-> 3, complete |-> 2, quit |-> 1,
              ended |-> 0]
MainPlace == [start |-> 10, await |-> 9, loop |-> 8, take |-> 7, look |-> 7, work |-> 6,
              hand |-> 5, end |-> 4, join |-> 3, join_renderer |-> 2, destroy |-> 1,
              held |-> 0, over |-> 0]
ProdToDo == 8 * (MaxFrames - produced) + ProdPlace[prod]
RendToDo == 3 * (MaxFrames - rendered) + RendPlace[rend]
MainToDo == 4 * (MaxFrames + 1 - mseq) + MainPlace[main]
Awaited  == (IF stop_requested THEN 0 ELSE 1) + (IF expired THEN 0 ELSE 1)
ToDo == ProdToDo + RendToDo + MainToDo + Awaited

\* A look at what is not there yet: nothing changes but the looker's own place.
Poll ==
  /\ UNCHANGED <<slotVars, flagVars, done, error, cleanup, render_ready, countVars, jobVars,
                 pseq, pr, rendVars, mseq, ret, screen>>
  /\ prod' = prod \/ {prod, prod'} = {"wait", "look"}
  /\ main' = main \/ {main, main'} = {"take", "look"}

\* A job takes a bounded number of steps apart from such looks: no frame is gone
\* through twice, no failure tried again, and nothing goes back to its beginning.
EveryStepCounts == [][Poll \/ (ToDo' < ToDo /\ ToDo' \in Nat)]_vars

\* The first error of the pipe is the one that is kept.
ErrorStep == error # "ok" => error' = error
FirstErrorKept == [][ErrorStep]_vars

\* The job keeps the promise of FramePlayer, with a slot per frame ahead.
Player == INSTANCE FramePlayer
  WITH Ahead <- Cardinality(Slots), captured <- produced, over <- main = "over"
PipeIsPlayer == Player!Spec

\* Every job ends, with no need of a stop, its deadline or a timeout: the threads
\* never all wait for each other.  A thread that cannot be joined keeps the job.
JobEnds == <>(main \in {"over", "held"})
=============================================================================
