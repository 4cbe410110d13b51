-------------------------- MODULE CameraPipeProofs --------------------------
(***************************************************************************)
(* The camera pipeline keeps its inductive invariant for every length of   *)
(* job, whatever fails: pixels have one user at a time, the code's own     *)
(* checks never fire, and the display sees what FramePlayer promises.      *)
(***************************************************************************)
EXTENDS CameraPipe, FiniteSetTheorems, TLAPS

\* Two frames in a row have different slots, and a slot comes round every second.
LEMMA SlotFacts ==
  \A f \in Nat \ {0} :
    Slot(f) \in Slots /\ Slot(f + 1) \in Slots /\ Slot(f + 1) # Slot(f) /\ Slot(f + 2) = Slot(f)
  BY DEF Slot, Slots

\* The invariant holds before the pipe is started.
LEMMA InitIInv == Init => IInv
  <1> SUFFICES ASSUME Init PROVE IInv
    OBVIOUS
  <1>1. TypeOK
    <2>1. state \in [Slots -> SlotStates] /\ rgb \in [Slots -> Nat]
          /\ result \in [Slots -> Nat] /\ completed \in [Slots -> Nat]
      BY DEF Init, SlotStates
    <2>2. asynchronous \in BOOLEAN
      BY ModesAssumption DEF Init
    <2>3. screen \in [rgb : Nat, result : Nat]
      BY DEF Init
    <2>4. pseq \in Nat \ {0} /\ rseq \in Nat \ {0} /\ mseq \in Nat \ {0}
      BY DEF Init
    <2>5. produced \in Nat /\ consumed \in Nat /\ submitted \in Nat /\ rendered \in Nat
      BY DEF Init
    <2> QED
      BY <2>1, <2>2, <2>3, <2>4, <2>5 DEF Init, TypeOK, SlotTypeOK, PipeTypeOK, ThreadTypeOK, Codes
  <1>2. CountsOK /\ ThreadsOK /\ ScreenOK /\ ChecksNeverFire
    BY ModesAssumption, FramesAssumption
       DEF Init, CountsOK, ThreadsOK, ScreenOK, ChecksNeverFire
  <1>3. SlotsOK /\ HoldsOK
    BY SlotFacts DEF Init, SlotsOK, HoldsOK, Window, Complete, Slots
  <1> QED
    BY <1>1, <1>2, <1>3 DEF IInv

\* The threads keep their distance: two frames at most between capture and display.
LEMMA CountsStep == IInv /\ [Next]_vars => CountsOK'
  <1> SUFFICES ASSUME IInv, [Next]_vars PROVE CountsOK'
    OBVIOUS
  <1> USE DEF IInv
  <1>0. CASE UNCHANGED vars
    BY <1>0
       DEF CountsOK, vars, countVars, flagVars, jobVars, mainVars, prodVars, rendVars,
           slotVars
  <1>1. CASE Producer
    <2>1. CASE ProdBind
      BY <2>1, FramesAssumption, SlotFacts
         DEF CountsOK, TypeOK, SlotsOK, HoldsOK, ThreadsOK, PipeTypeOK, SlotTypeOK,
             ThreadTypeOK, Complete, Window, Codes, SlotStates, Slots, ProdBind, producerFrame,
             flagVars, jobVars, mainVars, rendVars
    <2>2. CASE ProdNext
      BY <2>2, FramesAssumption, SlotFacts
         DEF CountsOK, TypeOK, SlotsOK, HoldsOK, ThreadsOK, PipeTypeOK, SlotTypeOK,
             ThreadTypeOK, Complete, Window, Codes, SlotStates, Slots, ProdNext, pipe_halt,
             producerFrame, flagVars, jobVars, mainVars, rendVars
    <2>3. CASE ProdClaim
      BY <2>3, FramesAssumption, SlotFacts
         DEF CountsOK, TypeOK, SlotsOK, HoldsOK, ThreadsOK, PipeTypeOK, SlotTypeOK,
             ThreadTypeOK, Complete, Window, Codes, SlotStates, Slots, ProdClaim, producerFrame,
             flagVars, jobVars, mainVars, rendVars
    <2>4. CASE ProdLook
      BY <2>4, FramesAssumption, SlotFacts
         DEF CountsOK, TypeOK, SlotsOK, HoldsOK, ThreadsOK, PipeTypeOK, SlotTypeOK,
             ThreadTypeOK, Complete, Window, Codes, SlotStates, Slots, ProdLook, pipe_halt,
             producerFrame, flagVars, jobVars, mainVars, rendVars
    <2>5. CASE ProdCapture
      BY <2>5, FramesAssumption, SlotFacts
         DEF CountsOK, TypeOK, SlotsOK, HoldsOK, ThreadsOK, PipeTypeOK, SlotTypeOK,
             ThreadTypeOK, Complete, Window, Codes, SlotStates, Slots, ProdCapture, pipe_halt,
             producerFrame, flagVars, jobVars, mainVars, rendVars
    <2>6. CASE ProdRender
      BY <2>6, FramesAssumption, SlotFacts
         DEF CountsOK, TypeOK, SlotsOK, HoldsOK, ThreadsOK, PipeTypeOK, SlotTypeOK,
             ThreadTypeOK, Complete, Window, Codes, SlotStates, Slots, ProdRender, pipe_halt,
             producerFrame, flagVars, jobVars, mainVars, rendVars
    <2>7. CASE ProdPublish
      BY <2>7, FramesAssumption, SlotFacts
         DEF CountsOK, TypeOK, SlotsOK, HoldsOK, ThreadsOK, PipeTypeOK, SlotTypeOK,
             ThreadTypeOK, Complete, Window, Codes, SlotStates, Slots, ProdPublish, producerFrame,
             flagVars, jobVars, mainVars, rendVars
    <2>8. CASE ProdQuit
      BY <2>8, FramesAssumption, SlotFacts
         DEF CountsOK, TypeOK, SlotsOK, HoldsOK, ThreadsOK, PipeTypeOK, SlotTypeOK,
             ThreadTypeOK, Complete, Window, Codes, SlotStates, Slots, ProdQuit, Record,
             producerFrame, flagVars, jobVars, mainVars, rendVars
    <2> QED
      BY <1>1, <2>1, <2>2, <2>3, <2>4, <2>5, <2>6, <2>7, <2>8 DEF Producer
  <1>2. CASE Renderer
    <2>1. CASE RendBegin
      BY <2>1
         DEF CountsOK, RendBegin, Record, rendererFrame, flagVars, jobVars, mainVars, prodVars
    <2>2. CASE RendWait
      BY <2>2
         DEF CountsOK, RendWait, RendStop, rendererFrame, flagVars, jobVars, mainVars,
             prodVars
    <2>3. CASE RendDraw
      BY <2>3 DEF CountsOK, RendDraw, rendererFrame, flagVars, jobVars, mainVars, prodVars
    <2>4. CASE RendComplete
      BY <2>4, FramesAssumption, SlotFacts
         DEF CountsOK, TypeOK, SlotsOK, HoldsOK, ThreadsOK, PipeTypeOK, SlotTypeOK,
             ThreadTypeOK, Complete, Window, Codes, SlotStates, Slots, RendComplete,
             rendererFrame, flagVars, jobVars, mainVars, prodVars
    <2>5. CASE RendQuit
      BY <2>5 DEF CountsOK, RendQuit, Record, rendererFrame, flagVars, jobVars, mainVars, prodVars
    <2> QED
      BY <1>2, <2>1, <2>2, <2>3, <2>4, <2>5 DEF Renderer
  <1>3. CASE Main
    <2>1. CASE PipeStart
      BY <2>1, FramesAssumption, SlotFacts
         DEF CountsOK, TypeOK, SlotsOK, HoldsOK, ThreadsOK, PipeTypeOK, SlotTypeOK,
             ThreadTypeOK, Complete, Window, Codes, SlotStates, Slots, PipeStart, End, flagVars,
             mainFrame, jobVars
    <2>2. CASE PipeAwait
      BY <2>2, FramesAssumption, SlotFacts
         DEF CountsOK, TypeOK, SlotsOK, HoldsOK, ThreadsOK, PipeTypeOK, SlotTypeOK,
             ThreadTypeOK, Complete, Window, Codes, SlotStates, Slots, PipeAwait, End, flagVars,
             mainFrame, jobVars
    <2>3. CASE MainLoop
      BY <2>3 DEF CountsOK, MainLoop, flagVars, mainFrame, jobVars
    <2>4. CASE TakeError
      BY <2>4 DEF CountsOK, TakeError, End, flagVars, mainFrame, jobVars
    <2>5. CASE TakeReady
      BY <2>5 DEF CountsOK, TakeReady, End, flagVars, mainFrame, jobVars
    <2>6. CASE TakeNothing
      BY <2>6 DEF CountsOK, TakeNothing, flagVars, mainFrame, jobVars
    <2>7. CASE TakeLook
      BY <2>7 DEF CountsOK, TakeLook, End, flagVars, mainFrame, pipe_halt, jobVars
    <2>8. ASSUME NEW detect \in BOOLEAN, Infer(detect) PROVE CountsOK'
      BY <2>8 DEF CountsOK, Infer, End, flagVars, mainFrame, jobVars
    <2>9. ASSUME NEW detect \in BOOLEAN, InferAndShow(detect) PROVE CountsOK'
      BY <2>9 DEF CountsOK, InferAndShow, End, flagVars, mainFrame, jobVars
    <2>10. CASE PipeRelease
      BY <2>10, FramesAssumption, SlotFacts
         DEF CountsOK, TypeOK, SlotsOK, HoldsOK, ThreadsOK, PipeTypeOK, SlotTypeOK,
             ThreadTypeOK, Complete, Window, Codes, SlotStates, Slots, PipeRelease, flagVars,
             mainFrame, jobVars
    <2>11. CASE PipeSubmit
      BY <2>11, FramesAssumption, SlotFacts
         DEF CountsOK, TypeOK, SlotsOK, HoldsOK, ThreadsOK, PipeTypeOK, SlotTypeOK,
             ThreadTypeOK, Complete, Window, Codes, SlotStates, Slots, PipeSubmit, End, flagVars,
             mainFrame, jobVars
    <2>12. CASE PipeFinish
      BY <2>12 DEF CountsOK, PipeFinish, Quiet, mainFrame, jobVars
    <2>13. CASE JoinProducer
      BY <2>13 DEF CountsOK, JoinProducer, flagVars, mainFrame, jobVars
    <2>14. CASE JoinRenderer
      BY <2>14 DEF CountsOK, JoinRenderer, flagVars, mainFrame, jobVars
    <2>15. CASE PipeDestroy
      BY <2>15 DEF CountsOK, PipeDestroy, Quiet, flagVars, mainFrame, jobVars
    <2> QED
      BY <1>3, <2>1, <2>2, <2>3, <2>4, <2>5, <2>6, <2>7, <2>8, <2>9, <2>10, <2>11, <2>12,
         <2>13, <2>14, <2>15
         DEF Main
  <1>4. CASE RequestStop
    BY <1>4 DEF CountsOK, RequestStop, countVars, flagVars, mainVars, prodVars, rendVars, slotVars
  <1>5. CASE Expire
    BY <1>5 DEF CountsOK, Expire, countVars, flagVars, mainVars, prodVars, rendVars, slotVars
  <1> QED
    BY <1>0, <1>1, <1>2, <1>3, <1>4, <1>5 DEF Next

\* Every variable keeps its type.
LEMMA TypeStep == IInv /\ [Next]_vars => TypeOK'
  <1> SUFFICES ASSUME IInv, [Next]_vars PROVE TypeOK'
    OBVIOUS
  <1> USE DEF IInv
  <1>0. CASE UNCHANGED vars
    BY <1>0
       DEF TypeOK, PipeTypeOK, SlotTypeOK, ThreadTypeOK, Codes, SlotStates, Slots, vars,
           countVars, flagVars, jobVars, mainVars, prodVars, rendVars, slotVars
  <1>1. CASE Producer
    <2>1. CASE ProdBind
      BY <2>1, FramesAssumption, SlotFacts
         DEF TypeOK, PipeTypeOK, SlotTypeOK, ThreadTypeOK, Codes, SlotStates, Slots, ProdBind,
             producerFrame, flagVars, jobVars, mainVars, rendVars
    <2>2. CASE ProdNext
      BY <2>2, FramesAssumption, SlotFacts
         DEF TypeOK, PipeTypeOK, SlotTypeOK, ThreadTypeOK, Codes, SlotStates, Slots, ProdNext,
             pipe_halt, producerFrame, flagVars, jobVars, mainVars, rendVars
    <2>3. CASE ProdClaim
      BY <2>3, FramesAssumption, SlotFacts
         DEF TypeOK, PipeTypeOK, SlotTypeOK, ThreadTypeOK, Codes, SlotStates, Slots,
             ProdClaim, producerFrame, flagVars, jobVars, mainVars, rendVars
    <2>4. CASE ProdLook
      BY <2>4, FramesAssumption, SlotFacts
         DEF TypeOK, PipeTypeOK, SlotTypeOK, ThreadTypeOK, Codes, SlotStates, Slots, ProdLook,
             pipe_halt, producerFrame, flagVars, jobVars, mainVars, rendVars
    <2>5. CASE ProdCapture
      BY <2>5, FramesAssumption, SlotFacts
         DEF TypeOK, PipeTypeOK, SlotTypeOK, ThreadTypeOK, Codes, SlotStates, Slots,
             ProdCapture, pipe_halt, producerFrame, flagVars, jobVars, mainVars, rendVars
    <2>6. CASE ProdRender
      BY <2>6, FramesAssumption, SlotFacts
         DEF TypeOK, PipeTypeOK, SlotTypeOK, ThreadTypeOK, Codes, SlotStates, Slots,
             ProdRender, pipe_halt, producerFrame, flagVars, jobVars, mainVars, rendVars
    <2>7. CASE ProdPublish
      BY <2>7, FramesAssumption, SlotFacts
         DEF TypeOK, PipeTypeOK, SlotTypeOK, ThreadTypeOK, Codes, SlotStates, Slots,
             ProdPublish, producerFrame, flagVars, jobVars, mainVars, rendVars
    <2>8. CASE ProdQuit
      BY <2>8, FramesAssumption, SlotFacts
         DEF TypeOK, PipeTypeOK, SlotTypeOK, ThreadTypeOK, Codes, SlotStates, Slots, ProdQuit,
             Record, producerFrame, flagVars, jobVars, mainVars, rendVars
    <2> QED
      BY <1>1, <2>1, <2>2, <2>3, <2>4, <2>5, <2>6, <2>7, <2>8 DEF Producer
  <1>2. CASE Renderer
    <2>1. CASE RendBegin
      <3>1. rr' \in Codes /\ owns' \in BOOLEAN
        BY <2>1 DEF TypeOK, ThreadTypeOK, RendBegin, Codes
      <3>2. error' \in Codes /\ rend' \in {"wait", "quit"}
        BY <2>1, <3>1 DEF TypeOK, PipeTypeOK, RendBegin, Record, Codes
      <3> QED
        BY <2>1, <3>1, <3>2
           DEF TypeOK, SlotTypeOK, PipeTypeOK, ThreadTypeOK, RendBegin, rendererFrame, flagVars,
               jobVars, mainVars, prodVars
    <2>2. CASE RendWait
      BY <2>2, FramesAssumption, SlotFacts
         DEF TypeOK, PipeTypeOK, SlotTypeOK, ThreadTypeOK, Codes, SlotStates, Slots, RendWait,
             RendStop, rendererFrame, flagVars, jobVars, mainVars, prodVars
    <2>3. CASE RendDraw
      BY <2>3, FramesAssumption, SlotFacts
         DEF TypeOK, PipeTypeOK, SlotTypeOK, ThreadTypeOK, Codes, SlotStates, Slots, RendDraw,
             rendererFrame, flagVars, jobVars, mainVars, prodVars
    <2>4. CASE RendComplete
      BY <2>4, FramesAssumption, SlotFacts
         DEF TypeOK, PipeTypeOK, SlotTypeOK, ThreadTypeOK, Codes, SlotStates, Slots,
             RendComplete, rendererFrame, flagVars, jobVars, mainVars, prodVars
    <2>5. CASE RendQuit
      <3>1. SlotTypeOK'
        BY <2>5 DEF TypeOK, SlotTypeOK, RendQuit, rendererFrame
      <3>2. PipeTypeOK'
        BY <2>5
           DEF TypeOK, PipeTypeOK, ThreadTypeOK, RendQuit, Record, rendererFrame, flagVars, jobVars
      <3>3. ThreadTypeOK'
        BY <2>5 DEF TypeOK, ThreadTypeOK, RendQuit, rendererFrame, prodVars, mainVars
      <3> QED
        BY <3>1, <3>2, <3>3 DEF TypeOK
    <2> QED
      BY <1>2, <2>1, <2>2, <2>3, <2>4, <2>5 DEF Renderer
  <1>3. CASE Main
    <2>1. CASE PipeStart
      BY <2>1, FramesAssumption, SlotFacts
         DEF TypeOK, PipeTypeOK, SlotTypeOK, ThreadTypeOK, Codes, SlotStates, Slots,
             PipeStart, End, flagVars, mainFrame, jobVars
    <2>2. CASE PipeAwait
      BY <2>2, FramesAssumption, SlotFacts
         DEF TypeOK, PipeTypeOK, SlotTypeOK, ThreadTypeOK, Codes, SlotStates, Slots,
             PipeAwait, End, flagVars, mainFrame, jobVars
    <2>3. CASE MainLoop
      BY <2>3, FramesAssumption, SlotFacts
         DEF TypeOK, PipeTypeOK, SlotTypeOK, ThreadTypeOK, Codes, SlotStates, Slots, MainLoop,
             flagVars, mainFrame, jobVars
    <2>4. CASE TakeError
      BY <2>4, FramesAssumption, SlotFacts
         DEF TypeOK, PipeTypeOK, SlotTypeOK, ThreadTypeOK, Codes, SlotStates, Slots,
             TakeError, End, flagVars, mainFrame, jobVars
    <2>5. CASE TakeReady
      BY <2>5, FramesAssumption, SlotFacts
         DEF TypeOK, PipeTypeOK, SlotTypeOK, ThreadTypeOK, Codes, SlotStates, Slots,
             TakeReady, End, flagVars, mainFrame, jobVars
    <2>6. CASE TakeNothing
      BY <2>6, FramesAssumption, SlotFacts
         DEF TypeOK, PipeTypeOK, SlotTypeOK, ThreadTypeOK, Codes, SlotStates, Slots,
             TakeNothing, flagVars, mainFrame, jobVars
    <2>7. CASE TakeLook
      BY <2>7, FramesAssumption, SlotFacts
         DEF TypeOK, PipeTypeOK, SlotTypeOK, ThreadTypeOK, Codes, SlotStates, Slots, TakeLook,
             End, flagVars, mainFrame, pipe_halt, jobVars
    <2>8. ASSUME NEW detect \in BOOLEAN, Infer(detect) PROVE TypeOK'
      BY <2>8, FramesAssumption, SlotFacts
         DEF TypeOK, PipeTypeOK, SlotTypeOK, ThreadTypeOK, Codes, SlotStates, Slots, Infer,
             End, flagVars, mainFrame, jobVars
    <2>9. ASSUME NEW detect \in BOOLEAN, InferAndShow(detect) PROVE TypeOK'
      BY <2>9, FramesAssumption, SlotFacts
         DEF TypeOK, PipeTypeOK, SlotTypeOK, ThreadTypeOK, Codes, SlotStates, Slots,
             InferAndShow, End, flagVars, mainFrame, jobVars
    <2>10. CASE PipeRelease
      BY <2>10, FramesAssumption, SlotFacts
         DEF TypeOK, PipeTypeOK, SlotTypeOK, ThreadTypeOK, Codes, SlotStates, Slots,
             PipeRelease, flagVars, mainFrame, jobVars
    <2>11. CASE PipeSubmit
      BY <2>11, FramesAssumption, SlotFacts
         DEF TypeOK, PipeTypeOK, SlotTypeOK, ThreadTypeOK, Codes, SlotStates, Slots,
             PipeSubmit, End, flagVars, mainFrame, jobVars
    <2>12. CASE PipeFinish
      BY <2>12, FramesAssumption, SlotFacts
         DEF TypeOK, PipeTypeOK, SlotTypeOK, ThreadTypeOK, Codes, SlotStates, Slots,
             PipeFinish, Quiet, mainFrame, jobVars
    <2>13. CASE JoinProducer
      BY <2>13, FramesAssumption, SlotFacts
         DEF TypeOK, PipeTypeOK, SlotTypeOK, ThreadTypeOK, Codes, SlotStates, Slots,
             JoinProducer, flagVars, mainFrame, jobVars
    <2>14. CASE JoinRenderer
      BY <2>14, FramesAssumption, SlotFacts
         DEF TypeOK, PipeTypeOK, SlotTypeOK, ThreadTypeOK, Codes, SlotStates, Slots,
             JoinRenderer, flagVars, mainFrame, jobVars
    <2>15. CASE PipeDestroy
      BY <2>15, FramesAssumption, SlotFacts
         DEF TypeOK, PipeTypeOK, SlotTypeOK, ThreadTypeOK, Codes, SlotStates, Slots,
             PipeDestroy, Quiet, flagVars, mainFrame, jobVars
    <2> QED
      BY <1>3, <2>1, <2>2, <2>3, <2>4, <2>5, <2>6, <2>7, <2>8, <2>9, <2>10, <2>11, <2>12,
         <2>13, <2>14, <2>15
         DEF Main
  <1>4. CASE RequestStop
    BY <1>4, FramesAssumption, SlotFacts
       DEF TypeOK, PipeTypeOK, SlotTypeOK, ThreadTypeOK, Codes, SlotStates, Slots,
           RequestStop, countVars, flagVars, mainVars, prodVars, rendVars, slotVars
  <1>5. CASE Expire
    BY <1>5, FramesAssumption, SlotFacts
       DEF TypeOK, PipeTypeOK, SlotTypeOK, ThreadTypeOK, Codes, SlotStates, Slots, Expire,
           countVars, flagVars, mainVars, prodVars, rendVars, slotVars
  <1> QED
    BY <1>0, <1>1, <1>2, <1>3, <1>4, <1>5 DEF Next

\* A thread that works on a slot keeps it.
LEMMA HoldsStep == IInv /\ [Next]_vars => HoldsOK'
  <1> SUFFICES ASSUME IInv, [Next]_vars PROVE HoldsOK'
    OBVIOUS
  <1> USE DEF IInv
  <1>0. CASE UNCHANGED vars
    BY <1>0
       DEF HoldsOK, Complete, vars, countVars, flagVars, jobVars, mainVars, prodVars,
           rendVars, slotVars
  <1>1. CASE Producer
    <2>1. CASE ProdBind
      BY <2>1, FramesAssumption, SlotFacts
         DEF HoldsOK, Complete, TypeOK, CountsOK, SlotsOK, ThreadsOK, PipeTypeOK, SlotTypeOK,
             ThreadTypeOK, Window, Codes, SlotStates, Slots, ProdBind, producerFrame, flagVars,
             jobVars, mainVars, rendVars
    <2>2. CASE ProdNext
      BY <2>2, FramesAssumption, SlotFacts
         DEF HoldsOK, Complete, TypeOK, CountsOK, SlotsOK, ThreadsOK, PipeTypeOK, SlotTypeOK,
             ThreadTypeOK, Window, Codes, SlotStates, Slots, ProdNext, pipe_halt, producerFrame,
             flagVars, jobVars, mainVars, rendVars
    <2>3. CASE ProdClaim
      BY <2>3, FramesAssumption, SlotFacts
         DEF HoldsOK, Complete, TypeOK, CountsOK, SlotsOK, ThreadsOK, PipeTypeOK, SlotTypeOK,
             ThreadTypeOK, Window, Codes, SlotStates, Slots, ProdClaim, producerFrame, flagVars,
             jobVars, mainVars, rendVars
    <2>4. CASE ProdLook
      BY <2>4, FramesAssumption, SlotFacts
         DEF HoldsOK, Complete, TypeOK, CountsOK, SlotsOK, ThreadsOK, PipeTypeOK, SlotTypeOK,
             ThreadTypeOK, Window, Codes, SlotStates, Slots, ProdLook, pipe_halt, producerFrame,
             flagVars, jobVars, mainVars, rendVars
    <2>5. CASE ProdCapture
      BY <2>5, FramesAssumption, SlotFacts
         DEF HoldsOK, Complete, TypeOK, CountsOK, SlotsOK, ThreadsOK, PipeTypeOK, SlotTypeOK,
             ThreadTypeOK, Window, Codes, SlotStates, Slots, ProdCapture, pipe_halt,
             producerFrame, flagVars, jobVars, mainVars, rendVars
    <2>6. CASE ProdRender
      BY <2>6, FramesAssumption, SlotFacts
         DEF HoldsOK, Complete, TypeOK, CountsOK, SlotsOK, ThreadsOK, PipeTypeOK, SlotTypeOK,
             ThreadTypeOK, Window, Codes, SlotStates, Slots, ProdRender, pipe_halt, producerFrame,
             flagVars, jobVars, mainVars, rendVars
    <2>7. CASE ProdPublish
      BY <2>7, FramesAssumption, SlotFacts
         DEF HoldsOK, Complete, TypeOK, CountsOK, SlotsOK, ThreadsOK, PipeTypeOK, SlotTypeOK,
             ThreadTypeOK, Window, Codes, SlotStates, Slots, ProdPublish, producerFrame, flagVars,
             jobVars, mainVars, rendVars
    <2>8. CASE ProdQuit
      BY <2>8, FramesAssumption, SlotFacts
         DEF HoldsOK, Complete, TypeOK, CountsOK, SlotsOK, ThreadsOK, PipeTypeOK, SlotTypeOK,
             ThreadTypeOK, Window, Codes, SlotStates, Slots, ProdQuit, Record, producerFrame,
             flagVars, jobVars, mainVars, rendVars
    <2> QED
      BY <1>1, <2>1, <2>2, <2>3, <2>4, <2>5, <2>6, <2>7, <2>8 DEF Producer
  <1>2. CASE Renderer
    <2>1. CASE RendBegin
      BY <2>1, FramesAssumption, SlotFacts
         DEF HoldsOK, Complete, TypeOK, CountsOK, SlotsOK, ThreadsOK, PipeTypeOK, SlotTypeOK,
             ThreadTypeOK, Window, Codes, SlotStates, Slots, RendBegin, Record, rendererFrame,
             flagVars, jobVars, mainVars, prodVars
    <2>2. CASE RendWait
      BY <2>2, FramesAssumption, SlotFacts
         DEF HoldsOK, Complete, TypeOK, CountsOK, SlotsOK, ThreadsOK, PipeTypeOK, SlotTypeOK,
             ThreadTypeOK, Window, Codes, SlotStates, Slots, RendWait, RendStop, rendererFrame,
             flagVars, jobVars, mainVars, prodVars
    <2>3. CASE RendDraw
      BY <2>3, FramesAssumption, SlotFacts
         DEF HoldsOK, Complete, TypeOK, CountsOK, SlotsOK, ThreadsOK, PipeTypeOK, SlotTypeOK,
             ThreadTypeOK, Window, Codes, SlotStates, Slots, RendDraw, rendererFrame, flagVars,
             jobVars, mainVars, prodVars
    <2>4. CASE RendComplete
      BY <2>4, FramesAssumption, SlotFacts
         DEF HoldsOK, Complete, TypeOK, CountsOK, SlotsOK, ThreadsOK, PipeTypeOK, SlotTypeOK,
             ThreadTypeOK, Window, Codes, SlotStates, Slots, RendComplete, rendererFrame,
             flagVars, jobVars, mainVars, prodVars
    <2>5. CASE RendQuit
      BY <2>5, FramesAssumption, SlotFacts
         DEF HoldsOK, Complete, TypeOK, CountsOK, SlotsOK, ThreadsOK, PipeTypeOK, SlotTypeOK,
             ThreadTypeOK, Window, Codes, SlotStates, Slots, RendQuit, Record, rendererFrame,
             flagVars, jobVars, mainVars, prodVars
    <2> QED
      BY <1>2, <2>1, <2>2, <2>3, <2>4, <2>5 DEF Renderer
  <1>3. CASE Main
    <2>1. CASE PipeStart
      BY <2>1, FramesAssumption, SlotFacts
         DEF HoldsOK, Complete, TypeOK, CountsOK, SlotsOK, ThreadsOK, PipeTypeOK, SlotTypeOK,
             ThreadTypeOK, Window, Codes, SlotStates, Slots, PipeStart, End, flagVars, mainFrame,
             jobVars
    <2>2. CASE PipeAwait
      BY <2>2, FramesAssumption, SlotFacts
         DEF HoldsOK, Complete, TypeOK, CountsOK, SlotsOK, ThreadsOK, PipeTypeOK, SlotTypeOK,
             ThreadTypeOK, Window, Codes, SlotStates, Slots, PipeAwait, End, flagVars, mainFrame,
             jobVars
    <2>3. CASE MainLoop
      BY <2>3, FramesAssumption, SlotFacts
         DEF HoldsOK, Complete, TypeOK, CountsOK, SlotsOK, ThreadsOK, PipeTypeOK, SlotTypeOK,
             ThreadTypeOK, Window, Codes, SlotStates, Slots, MainLoop, flagVars, mainFrame,
             jobVars
    <2>4. CASE TakeError
      BY <2>4, FramesAssumption, SlotFacts
         DEF HoldsOK, Complete, TypeOK, CountsOK, SlotsOK, ThreadsOK, PipeTypeOK, SlotTypeOK,
             ThreadTypeOK, Window, Codes, SlotStates, Slots, TakeError, End, flagVars, mainFrame,
             jobVars
    <2>5. CASE TakeReady
      BY <2>5, FramesAssumption, SlotFacts
         DEF HoldsOK, Complete, TypeOK, CountsOK, SlotsOK, ThreadsOK, PipeTypeOK, SlotTypeOK,
             ThreadTypeOK, Window, Codes, SlotStates, Slots, TakeReady, End, flagVars, mainFrame,
             jobVars
    <2>6. CASE TakeNothing
      BY <2>6, FramesAssumption, SlotFacts
         DEF HoldsOK, Complete, TypeOK, CountsOK, SlotsOK, ThreadsOK, PipeTypeOK, SlotTypeOK,
             ThreadTypeOK, Window, Codes, SlotStates, Slots, TakeNothing, flagVars, mainFrame,
             jobVars
    <2>7. CASE TakeLook
      BY <2>7, FramesAssumption, SlotFacts
         DEF HoldsOK, Complete, TypeOK, CountsOK, SlotsOK, ThreadsOK, PipeTypeOK, SlotTypeOK,
             ThreadTypeOK, Window, Codes, SlotStates, Slots, TakeLook, End, flagVars, mainFrame,
             pipe_halt, jobVars
    <2>8. ASSUME NEW detect \in BOOLEAN, Infer(detect) PROVE HoldsOK'
      BY <2>8, FramesAssumption, SlotFacts
         DEF HoldsOK, Complete, TypeOK, CountsOK, SlotsOK, ThreadsOK, PipeTypeOK, SlotTypeOK,
             ThreadTypeOK, Window, Codes, SlotStates, Slots, Infer, End, flagVars, mainFrame,
             jobVars
    <2>9. ASSUME NEW detect \in BOOLEAN, InferAndShow(detect) PROVE HoldsOK'
      BY <2>9, FramesAssumption, SlotFacts
         DEF HoldsOK, Complete, TypeOK, CountsOK, SlotsOK, ThreadsOK, PipeTypeOK, SlotTypeOK,
             ThreadTypeOK, Window, Codes, SlotStates, Slots, InferAndShow, End, flagVars,
             mainFrame, jobVars
    <2>10. CASE PipeRelease
      BY <2>10, FramesAssumption, SlotFacts
         DEF HoldsOK, Complete, TypeOK, CountsOK, SlotsOK, ThreadsOK, PipeTypeOK, SlotTypeOK,
             ThreadTypeOK, Window, Codes, SlotStates, Slots, PipeRelease, flagVars, mainFrame,
             jobVars
    <2>11. CASE PipeSubmit
      BY <2>11, FramesAssumption, SlotFacts
         DEF HoldsOK, Complete, TypeOK, CountsOK, SlotsOK, ThreadsOK, PipeTypeOK, SlotTypeOK,
             ThreadTypeOK, Window, Codes, SlotStates, Slots, PipeSubmit, End, flagVars, mainFrame,
             jobVars
    <2>12. CASE PipeFinish
      BY <2>12, FramesAssumption, SlotFacts
         DEF HoldsOK, Complete, TypeOK, CountsOK, SlotsOK, ThreadsOK, PipeTypeOK, SlotTypeOK,
             ThreadTypeOK, Window, Codes, SlotStates, Slots, PipeFinish, Quiet, mainFrame, jobVars
    <2>13. CASE JoinProducer
      BY <2>13, FramesAssumption, SlotFacts
         DEF HoldsOK, Complete, TypeOK, CountsOK, SlotsOK, ThreadsOK, PipeTypeOK, SlotTypeOK,
             ThreadTypeOK, Window, Codes, SlotStates, Slots, JoinProducer, flagVars, mainFrame,
             jobVars
    <2>14. CASE JoinRenderer
      BY <2>14, FramesAssumption, SlotFacts
         DEF HoldsOK, Complete, TypeOK, CountsOK, SlotsOK, ThreadsOK, PipeTypeOK, SlotTypeOK,
             ThreadTypeOK, Window, Codes, SlotStates, Slots, JoinRenderer, flagVars, mainFrame,
             jobVars
    <2>15. CASE PipeDestroy
      BY <2>15, FramesAssumption, SlotFacts
         DEF HoldsOK, Complete, TypeOK, CountsOK, SlotsOK, ThreadsOK, PipeTypeOK, SlotTypeOK,
             ThreadTypeOK, Window, Codes, SlotStates, Slots, PipeDestroy, Quiet, flagVars,
             mainFrame, jobVars
    <2> QED
      BY <1>3, <2>1, <2>2, <2>3, <2>4, <2>5, <2>6, <2>7, <2>8, <2>9, <2>10, <2>11, <2>12,
         <2>13, <2>14, <2>15
         DEF Main
  <1>4. CASE RequestStop
    BY <1>4
       DEF HoldsOK, Complete, RequestStop, countVars, flagVars, mainVars, prodVars, rendVars,
           slotVars
  <1>5. CASE Expire
    BY <1>5
       DEF HoldsOK, Complete, Expire, countVars, flagVars, mainVars, prodVars, rendVars,
           slotVars
  <1> QED
    BY <1>0, <1>1, <1>2, <1>3, <1>4, <1>5 DEF Next

\* Threads exist while the job waits for them.
LEMMA ThreadsStep == IInv /\ [Next]_vars => ThreadsOK'
  <1> SUFFICES ASSUME IInv, [Next]_vars PROVE ThreadsOK'
    OBVIOUS
  <1> USE DEF IInv
  <1>0. CASE UNCHANGED vars
    BY <1>0
       DEF ThreadsOK, vars, countVars, flagVars, jobVars, mainVars, prodVars, rendVars,
           slotVars
  <1>1. CASE Producer
    <2>1. CASE ProdBind
      BY <2>1
         DEF ThreadsOK, TypeOK, PipeTypeOK, SlotTypeOK, ThreadTypeOK, Codes, SlotStates,
             Slots, ProdBind, producerFrame, flagVars, jobVars, mainVars, rendVars
    <2>2. CASE ProdNext
      BY <2>2
         DEF ThreadsOK, TypeOK, PipeTypeOK, SlotTypeOK, ThreadTypeOK, Codes, SlotStates,
             Slots, ProdNext, pipe_halt, producerFrame, flagVars, jobVars, mainVars, rendVars
    <2>3. CASE ProdClaim
      BY <2>3
         DEF ThreadsOK, TypeOK, PipeTypeOK, SlotTypeOK, ThreadTypeOK, Codes, SlotStates,
             Slots, ProdClaim, producerFrame, flagVars, jobVars, mainVars, rendVars
    <2>4. CASE ProdLook
      BY <2>4
         DEF ThreadsOK, TypeOK, PipeTypeOK, SlotTypeOK, ThreadTypeOK, Codes, SlotStates,
             Slots, ProdLook, pipe_halt, producerFrame, flagVars, jobVars, mainVars, rendVars
    <2>5. CASE ProdCapture
      BY <2>5
         DEF ThreadsOK, TypeOK, PipeTypeOK, SlotTypeOK, ThreadTypeOK, Codes, SlotStates,
             Slots, ProdCapture, pipe_halt, producerFrame, flagVars, jobVars, mainVars, rendVars
    <2>6. CASE ProdRender
      BY <2>6
         DEF ThreadsOK, TypeOK, PipeTypeOK, SlotTypeOK, ThreadTypeOK, Codes, SlotStates,
             Slots, ProdRender, pipe_halt, producerFrame, flagVars, jobVars, mainVars, rendVars
    <2>7. CASE ProdPublish
      BY <2>7
         DEF ThreadsOK, TypeOK, PipeTypeOK, SlotTypeOK, ThreadTypeOK, Codes, SlotStates,
             Slots, ProdPublish, producerFrame, flagVars, jobVars, mainVars, rendVars
    <2>8. CASE ProdQuit
      BY <2>8
         DEF ThreadsOK, TypeOK, PipeTypeOK, SlotTypeOK, ThreadTypeOK, Codes, SlotStates,
             Slots, ProdQuit, Record, producerFrame, flagVars, jobVars, mainVars, rendVars
    <2> QED
      BY <1>1, <2>1, <2>2, <2>3, <2>4, <2>5, <2>6, <2>7, <2>8 DEF Producer
  <1>2. CASE Renderer
    <2>1. CASE RendBegin
      BY <2>1
         DEF ThreadsOK, TypeOK, PipeTypeOK, SlotTypeOK, ThreadTypeOK, Codes, SlotStates,
             Slots, RendBegin, Record, rendererFrame, flagVars, jobVars, mainVars, prodVars
    <2>2. CASE RendWait
      BY <2>2
         DEF ThreadsOK, TypeOK, PipeTypeOK, SlotTypeOK, ThreadTypeOK, Codes, SlotStates,
             Slots, RendWait, RendStop, rendererFrame, flagVars, jobVars, mainVars, prodVars
    <2>3. CASE RendDraw
      BY <2>3
         DEF ThreadsOK, TypeOK, PipeTypeOK, SlotTypeOK, ThreadTypeOK, Codes, SlotStates,
             Slots, RendDraw, rendererFrame, flagVars, jobVars, mainVars, prodVars
    <2>4. CASE RendComplete
      BY <2>4
         DEF ThreadsOK, TypeOK, PipeTypeOK, SlotTypeOK, ThreadTypeOK, Codes, SlotStates,
             Slots, RendComplete, rendererFrame, flagVars, jobVars, mainVars, prodVars
    <2>5. CASE RendQuit
      BY <2>5
         DEF ThreadsOK, TypeOK, PipeTypeOK, SlotTypeOK, ThreadTypeOK, Codes, SlotStates,
             Slots, RendQuit, Record, rendererFrame, flagVars, jobVars, mainVars, prodVars
    <2> QED
      BY <1>2, <2>1, <2>2, <2>3, <2>4, <2>5 DEF Renderer
  <1>3. CASE Main
    <2>1. CASE PipeStart
      BY <2>1
         DEF ThreadsOK, TypeOK, PipeTypeOK, SlotTypeOK, ThreadTypeOK, Codes, SlotStates,
             Slots, PipeStart, End, flagVars, mainFrame, jobVars
    <2>2. CASE PipeAwait
      BY <2>2
         DEF ThreadsOK, TypeOK, PipeTypeOK, SlotTypeOK, ThreadTypeOK, Codes, SlotStates,
             Slots, PipeAwait, End, flagVars, mainFrame, jobVars
    <2>3. CASE MainLoop
      BY <2>3
         DEF ThreadsOK, TypeOK, PipeTypeOK, SlotTypeOK, ThreadTypeOK, Codes, SlotStates,
             Slots, MainLoop, flagVars, mainFrame, jobVars
    <2>4. CASE TakeError
      BY <2>4
         DEF ThreadsOK, TypeOK, PipeTypeOK, SlotTypeOK, ThreadTypeOK, Codes, SlotStates,
             Slots, TakeError, End, flagVars, mainFrame, jobVars
    <2>5. CASE TakeReady
      BY <2>5
         DEF ThreadsOK, TypeOK, PipeTypeOK, SlotTypeOK, ThreadTypeOK, Codes, SlotStates,
             Slots, TakeReady, End, flagVars, mainFrame, jobVars
    <2>6. CASE TakeNothing
      BY <2>6
         DEF ThreadsOK, TypeOK, PipeTypeOK, SlotTypeOK, ThreadTypeOK, Codes, SlotStates,
             Slots, TakeNothing, flagVars, mainFrame, jobVars
    <2>7. CASE TakeLook
      BY <2>7
         DEF ThreadsOK, TypeOK, PipeTypeOK, SlotTypeOK, ThreadTypeOK, Codes, SlotStates,
             Slots, TakeLook, End, flagVars, mainFrame, pipe_halt, jobVars
    <2>8. ASSUME NEW detect \in BOOLEAN, Infer(detect) PROVE ThreadsOK'
      BY <2>8
         DEF ThreadsOK, TypeOK, PipeTypeOK, SlotTypeOK, ThreadTypeOK, Codes, SlotStates,
             Slots, Infer, End, flagVars, mainFrame, jobVars
    <2>9. ASSUME NEW detect \in BOOLEAN, InferAndShow(detect) PROVE ThreadsOK'
      BY <2>9
         DEF ThreadsOK, TypeOK, PipeTypeOK, SlotTypeOK, ThreadTypeOK, Codes, SlotStates,
             Slots, InferAndShow, End, flagVars, mainFrame, jobVars
    <2>10. CASE PipeRelease
      BY <2>10
         DEF ThreadsOK, TypeOK, PipeTypeOK, SlotTypeOK, ThreadTypeOK, Codes, SlotStates,
             Slots, PipeRelease, flagVars, mainFrame, jobVars
    <2>11. CASE PipeSubmit
      BY <2>11
         DEF ThreadsOK, TypeOK, PipeTypeOK, SlotTypeOK, ThreadTypeOK, Codes, SlotStates,
             Slots, PipeSubmit, End, flagVars, mainFrame, jobVars
    <2>12. CASE PipeFinish
      BY <2>12
         DEF ThreadsOK, TypeOK, PipeTypeOK, SlotTypeOK, ThreadTypeOK, Codes, SlotStates,
             Slots, PipeFinish, Quiet, mainFrame, jobVars
    <2>13. CASE JoinProducer
      BY <2>13
         DEF ThreadsOK, TypeOK, PipeTypeOK, SlotTypeOK, ThreadTypeOK, Codes, SlotStates,
             Slots, JoinProducer, flagVars, mainFrame, jobVars
    <2>14. CASE JoinRenderer
      BY <2>14
         DEF ThreadsOK, TypeOK, PipeTypeOK, SlotTypeOK, ThreadTypeOK, Codes, SlotStates,
             Slots, JoinRenderer, flagVars, mainFrame, jobVars
    <2>15. CASE PipeDestroy
      BY <2>15
         DEF ThreadsOK, TypeOK, PipeTypeOK, SlotTypeOK, ThreadTypeOK, Codes, SlotStates,
             Slots, PipeDestroy, Quiet, flagVars, mainFrame, jobVars
    <2> QED
      BY <1>3, <2>1, <2>2, <2>3, <2>4, <2>5, <2>6, <2>7, <2>8, <2>9, <2>10, <2>11, <2>12,
         <2>13, <2>14, <2>15
         DEF Main
  <1>4. CASE RequestStop
    BY <1>4
       DEF ThreadsOK, RequestStop, countVars, flagVars, mainVars, prodVars, rendVars, slotVars
  <1>5. CASE Expire
    BY <1>5 DEF ThreadsOK, Expire, countVars, flagVars, mainVars, prodVars, rendVars, slotVars
  <1> QED
    BY <1>0, <1>1, <1>2, <1>3, <1>4, <1>5 DEF Next

\* The picture is the latest frame the display took.
LEMMA ScreenStep == IInv /\ [Next]_vars => ScreenOK'
  <1> SUFFICES ASSUME IInv, [Next]_vars PROVE ScreenOK'
    OBVIOUS
  <1> USE DEF IInv
  <1>0. CASE UNCHANGED vars
    BY <1>0
       DEF ScreenOK, vars, countVars, flagVars, jobVars, mainVars, prodVars, rendVars,
           slotVars
  <1>1. CASE Producer
    <2>1. CASE ProdBind
      BY <2>1 DEF ScreenOK, ProdBind, producerFrame, flagVars, jobVars, mainVars, rendVars
    <2>2. CASE ProdNext
      BY <2>2
         DEF ScreenOK, ProdNext, pipe_halt, producerFrame, flagVars, jobVars, mainVars,
             rendVars
    <2>3. CASE ProdClaim
      BY <2>3 DEF ScreenOK, ProdClaim, producerFrame, flagVars, jobVars, mainVars, rendVars
    <2>4. CASE ProdLook
      BY <2>4
         DEF ScreenOK, ProdLook, pipe_halt, producerFrame, flagVars, jobVars, mainVars,
             rendVars
    <2>5. CASE ProdCapture
      BY <2>5, FramesAssumption, SlotFacts
         DEF ScreenOK, TypeOK, CountsOK, SlotsOK, HoldsOK, ThreadsOK, PipeTypeOK, SlotTypeOK,
             ThreadTypeOK, Complete, Window, Codes, SlotStates, Slots, ProdCapture, pipe_halt,
             producerFrame, flagVars, jobVars, mainVars, rendVars
    <2>6. CASE ProdRender
      BY <2>6, FramesAssumption, SlotFacts
         DEF ScreenOK, TypeOK, CountsOK, SlotsOK, HoldsOK, ThreadsOK, PipeTypeOK, SlotTypeOK,
             ThreadTypeOK, Complete, Window, Codes, SlotStates, Slots, ProdRender, pipe_halt,
             producerFrame, flagVars, jobVars, mainVars, rendVars
    <2>7. CASE ProdPublish
      BY <2>7, FramesAssumption, SlotFacts
         DEF ScreenOK, TypeOK, CountsOK, SlotsOK, HoldsOK, ThreadsOK, PipeTypeOK, SlotTypeOK,
             ThreadTypeOK, Complete, Window, Codes, SlotStates, Slots, ProdPublish, producerFrame,
             flagVars, jobVars, mainVars, rendVars
    <2>8. CASE ProdQuit
      BY <2>8 DEF ScreenOK, ProdQuit, Record, producerFrame, flagVars, jobVars, mainVars, rendVars
    <2> QED
      BY <1>1, <2>1, <2>2, <2>3, <2>4, <2>5, <2>6, <2>7, <2>8 DEF Producer
  <1>2. CASE Renderer
    <2>1. CASE RendBegin
      BY <2>1, FramesAssumption, SlotFacts
         DEF ScreenOK, TypeOK, CountsOK, SlotsOK, HoldsOK, ThreadsOK, PipeTypeOK, SlotTypeOK,
             ThreadTypeOK, Complete, Window, Codes, SlotStates, Slots, RendBegin, Record,
             rendererFrame, flagVars, jobVars, mainVars, prodVars
    <2>2. CASE RendWait
      BY <2>2, FramesAssumption, SlotFacts
         DEF ScreenOK, TypeOK, CountsOK, SlotsOK, HoldsOK, ThreadsOK, PipeTypeOK, SlotTypeOK,
             ThreadTypeOK, Complete, Window, Codes, SlotStates, Slots, RendWait, RendStop,
             rendererFrame, flagVars, jobVars, mainVars, prodVars
    <2>3. CASE RendDraw
      BY <2>3, FramesAssumption, SlotFacts
         DEF ScreenOK, TypeOK, CountsOK, SlotsOK, HoldsOK, ThreadsOK, PipeTypeOK, SlotTypeOK,
             ThreadTypeOK, Complete, Window, Codes, SlotStates, Slots, RendDraw, rendererFrame,
             flagVars, jobVars, mainVars, prodVars
    <2>4. CASE RendComplete
      BY <2>4, FramesAssumption, SlotFacts
         DEF ScreenOK, TypeOK, CountsOK, SlotsOK, HoldsOK, ThreadsOK, PipeTypeOK, SlotTypeOK,
             ThreadTypeOK, Complete, Window, Codes, SlotStates, Slots, RendComplete,
             rendererFrame, flagVars, jobVars, mainVars, prodVars
    <2>5. CASE RendQuit
      BY <2>5, FramesAssumption, SlotFacts
         DEF ScreenOK, TypeOK, CountsOK, SlotsOK, HoldsOK, ThreadsOK, PipeTypeOK, SlotTypeOK,
             ThreadTypeOK, Complete, Window, Codes, SlotStates, Slots, RendQuit, Record,
             rendererFrame, flagVars, jobVars, mainVars, prodVars
    <2> QED
      BY <1>2, <2>1, <2>2, <2>3, <2>4, <2>5 DEF Renderer
  <1>3. CASE Main
    <2>1. CASE PipeStart
      BY <2>1, FramesAssumption, SlotFacts
         DEF ScreenOK, TypeOK, CountsOK, SlotsOK, HoldsOK, ThreadsOK, PipeTypeOK, SlotTypeOK,
             ThreadTypeOK, Complete, Window, Codes, SlotStates, Slots, PipeStart, End, flagVars,
             mainFrame, jobVars
    <2>2. CASE PipeAwait
      BY <2>2, FramesAssumption, SlotFacts
         DEF ScreenOK, TypeOK, CountsOK, SlotsOK, HoldsOK, ThreadsOK, PipeTypeOK, SlotTypeOK,
             ThreadTypeOK, Complete, Window, Codes, SlotStates, Slots, PipeAwait, End, flagVars,
             mainFrame, jobVars
    <2>3. CASE MainLoop
      BY <2>3, FramesAssumption, SlotFacts
         DEF ScreenOK, TypeOK, CountsOK, SlotsOK, HoldsOK, ThreadsOK, PipeTypeOK, SlotTypeOK,
             ThreadTypeOK, Complete, Window, Codes, SlotStates, Slots, MainLoop, flagVars,
             mainFrame, jobVars
    <2>4. CASE TakeError
      BY <2>4, FramesAssumption, SlotFacts
         DEF ScreenOK, TypeOK, CountsOK, SlotsOK, HoldsOK, ThreadsOK, PipeTypeOK, SlotTypeOK,
             ThreadTypeOK, Complete, Window, Codes, SlotStates, Slots, TakeError, End, flagVars,
             mainFrame, jobVars
    <2>5. CASE TakeReady
      BY <2>5, FramesAssumption, SlotFacts
         DEF ScreenOK, TypeOK, CountsOK, SlotsOK, HoldsOK, ThreadsOK, PipeTypeOK, SlotTypeOK,
             ThreadTypeOK, Complete, Window, Codes, SlotStates, Slots, TakeReady, End, flagVars,
             mainFrame, jobVars
    <2>6. CASE TakeNothing
      BY <2>6, FramesAssumption, SlotFacts
         DEF ScreenOK, TypeOK, CountsOK, SlotsOK, HoldsOK, ThreadsOK, PipeTypeOK, SlotTypeOK,
             ThreadTypeOK, Complete, Window, Codes, SlotStates, Slots, TakeNothing, flagVars,
             mainFrame, jobVars
    <2>7. CASE TakeLook
      BY <2>7, FramesAssumption, SlotFacts
         DEF ScreenOK, TypeOK, CountsOK, SlotsOK, HoldsOK, ThreadsOK, PipeTypeOK, SlotTypeOK,
             ThreadTypeOK, Complete, Window, Codes, SlotStates, Slots, TakeLook, End, flagVars,
             mainFrame, pipe_halt, jobVars
    <2>8. ASSUME NEW detect \in BOOLEAN, Infer(detect) PROVE ScreenOK'
      BY <2>8, FramesAssumption, SlotFacts
         DEF ScreenOK, TypeOK, CountsOK, SlotsOK, HoldsOK, ThreadsOK, PipeTypeOK, SlotTypeOK,
             ThreadTypeOK, Complete, Window, Codes, SlotStates, Slots, Infer, End, flagVars,
             mainFrame, jobVars
    <2>9. ASSUME NEW detect \in BOOLEAN, InferAndShow(detect) PROVE ScreenOK'
      BY <2>9, FramesAssumption, SlotFacts
         DEF ScreenOK, TypeOK, CountsOK, SlotsOK, HoldsOK, ThreadsOK, PipeTypeOK, SlotTypeOK,
             ThreadTypeOK, Complete, Window, Codes, SlotStates, Slots, InferAndShow, End,
             flagVars, mainFrame, jobVars
    <2>10. CASE PipeRelease
      BY <2>10, FramesAssumption, SlotFacts
         DEF ScreenOK, TypeOK, CountsOK, SlotsOK, HoldsOK, ThreadsOK, PipeTypeOK, SlotTypeOK,
             ThreadTypeOK, Complete, Window, Codes, SlotStates, Slots, PipeRelease, flagVars,
             mainFrame, jobVars
    <2>11. CASE PipeSubmit
      BY <2>11, FramesAssumption, SlotFacts
         DEF ScreenOK, TypeOK, CountsOK, SlotsOK, HoldsOK, ThreadsOK, PipeTypeOK, SlotTypeOK,
             ThreadTypeOK, Complete, Window, Codes, SlotStates, Slots, PipeSubmit, End, flagVars,
             mainFrame, jobVars
    <2>12. CASE PipeFinish
      BY <2>12, FramesAssumption, SlotFacts
         DEF ScreenOK, TypeOK, CountsOK, SlotsOK, HoldsOK, ThreadsOK, PipeTypeOK, SlotTypeOK,
             ThreadTypeOK, Complete, Window, Codes, SlotStates, Slots, PipeFinish, Quiet,
             mainFrame, jobVars
    <2>13. CASE JoinProducer
      BY <2>13, FramesAssumption, SlotFacts
         DEF ScreenOK, TypeOK, CountsOK, SlotsOK, HoldsOK, ThreadsOK, PipeTypeOK, SlotTypeOK,
             ThreadTypeOK, Complete, Window, Codes, SlotStates, Slots, JoinProducer, flagVars,
             mainFrame, jobVars
    <2>14. CASE JoinRenderer
      BY <2>14, FramesAssumption, SlotFacts
         DEF ScreenOK, TypeOK, CountsOK, SlotsOK, HoldsOK, ThreadsOK, PipeTypeOK, SlotTypeOK,
             ThreadTypeOK, Complete, Window, Codes, SlotStates, Slots, JoinRenderer, flagVars,
             mainFrame, jobVars
    <2>15. CASE PipeDestroy
      BY <2>15, FramesAssumption, SlotFacts
         DEF ScreenOK, TypeOK, CountsOK, SlotsOK, HoldsOK, ThreadsOK, PipeTypeOK, SlotTypeOK,
             ThreadTypeOK, Complete, Window, Codes, SlotStates, Slots, PipeDestroy, Quiet,
             flagVars, mainFrame, jobVars
    <2> QED
      BY <1>3, <2>1, <2>2, <2>3, <2>4, <2>5, <2>6, <2>7, <2>8, <2>9, <2>10, <2>11, <2>12,
         <2>13, <2>14, <2>15
         DEF Main
  <1>4. CASE RequestStop
    BY <1>4 DEF ScreenOK, RequestStop, countVars, flagVars, mainVars, prodVars, rendVars, slotVars
  <1>5. CASE Expire
    BY <1>5 DEF ScreenOK, Expire, countVars, flagVars, mainVars, prodVars, rendVars, slotVars
  <1> QED
    BY <1>0, <1>1, <1>2, <1>3, <1>4, <1>5 DEF Next

\* The checks of the code find nothing.
LEMMA ChecksStep == IInv /\ [Next]_vars => ChecksNeverFire'
  <1> SUFFICES ASSUME IInv, [Next]_vars PROVE ChecksNeverFire'
    OBVIOUS
  <1> USE DEF IInv
  <1>0. CASE UNCHANGED vars
    BY <1>0
       DEF ChecksNeverFire, vars, countVars, flagVars, jobVars, mainVars, prodVars, rendVars,
           slotVars
  <1>1. CASE Producer
    <2>1. CASE ProdBind
      BY <2>1, FramesAssumption, SlotFacts
         DEF ChecksNeverFire, TypeOK, CountsOK, SlotsOK, HoldsOK, ThreadsOK, PipeTypeOK,
             SlotTypeOK, ThreadTypeOK, Complete, Window, Codes, SlotStates, Slots, ProdBind,
             producerFrame, flagVars, jobVars, mainVars, rendVars
    <2>2. CASE ProdNext
      BY <2>2
         DEF ChecksNeverFire, ProdNext, pipe_halt, producerFrame, flagVars, jobVars, mainVars,
             rendVars
    <2>3. CASE ProdClaim
      BY <2>3 DEF ChecksNeverFire, ProdClaim, producerFrame, flagVars, jobVars, mainVars, rendVars
    <2>4. CASE ProdLook
      BY <2>4, FramesAssumption, SlotFacts
         DEF ChecksNeverFire, TypeOK, CountsOK, SlotsOK, HoldsOK, ThreadsOK, PipeTypeOK,
             SlotTypeOK, ThreadTypeOK, Complete, Window, Codes, SlotStates, Slots, ProdLook,
             pipe_halt, producerFrame, flagVars, jobVars, mainVars, rendVars
    <2>5. CASE ProdCapture
      BY <2>5, FramesAssumption, SlotFacts
         DEF ChecksNeverFire, TypeOK, CountsOK, SlotsOK, HoldsOK, ThreadsOK, PipeTypeOK,
             SlotTypeOK, ThreadTypeOK, Complete, Window, Codes, SlotStates, Slots, ProdCapture,
             pipe_halt, producerFrame, flagVars, jobVars, mainVars, rendVars
    <2>6. CASE ProdRender
      BY <2>6, FramesAssumption, SlotFacts
         DEF ChecksNeverFire, TypeOK, CountsOK, SlotsOK, HoldsOK, ThreadsOK, PipeTypeOK,
             SlotTypeOK, ThreadTypeOK, Complete, Window, Codes, SlotStates, Slots, ProdRender,
             pipe_halt, producerFrame, flagVars, jobVars, mainVars, rendVars
    <2>7. CASE ProdPublish
      BY <2>7
         DEF ChecksNeverFire, ProdPublish, producerFrame, flagVars, jobVars, mainVars,
             rendVars
    <2>8. CASE ProdQuit
      BY <2>8, FramesAssumption, SlotFacts
         DEF ChecksNeverFire, TypeOK, CountsOK, SlotsOK, HoldsOK, ThreadsOK, PipeTypeOK,
             SlotTypeOK, ThreadTypeOK, Complete, Window, Codes, SlotStates, Slots, ProdQuit,
             Record, producerFrame, flagVars, jobVars, mainVars, rendVars
    <2> QED
      BY <1>1, <2>1, <2>2, <2>3, <2>4, <2>5, <2>6, <2>7, <2>8 DEF Producer
  <1>2. CASE Renderer
    <2>1. CASE RendBegin
      BY <2>1, FramesAssumption, SlotFacts
         DEF ChecksNeverFire, TypeOK, CountsOK, SlotsOK, HoldsOK, ThreadsOK, PipeTypeOK,
             SlotTypeOK, ThreadTypeOK, Complete, Window, Codes, SlotStates, Slots, RendBegin,
             Record, rendererFrame, flagVars, jobVars, mainVars, prodVars
    <2>2. CASE RendWait
      BY <2>2, FramesAssumption, SlotFacts
         DEF ChecksNeverFire, TypeOK, CountsOK, SlotsOK, HoldsOK, ThreadsOK, PipeTypeOK,
             SlotTypeOK, ThreadTypeOK, Complete, Window, Codes, SlotStates, Slots, RendWait,
             RendStop, rendererFrame, flagVars, jobVars, mainVars, prodVars
    <2>3. CASE RendDraw
      BY <2>3, FramesAssumption, SlotFacts
         DEF ChecksNeverFire, TypeOK, CountsOK, SlotsOK, HoldsOK, ThreadsOK, PipeTypeOK,
             SlotTypeOK, ThreadTypeOK, Complete, Window, Codes, SlotStates, Slots, RendDraw,
             rendererFrame, flagVars, jobVars, mainVars, prodVars
    <2>4. CASE RendComplete
      BY <2>4, FramesAssumption, SlotFacts
         DEF ChecksNeverFire, TypeOK, CountsOK, SlotsOK, HoldsOK, ThreadsOK, PipeTypeOK,
             SlotTypeOK, ThreadTypeOK, Complete, Window, Codes, SlotStates, Slots, RendComplete,
             rendererFrame, flagVars, jobVars, mainVars, prodVars
    <2>5. CASE RendQuit
      BY <2>5, FramesAssumption, SlotFacts
         DEF ChecksNeverFire, TypeOK, CountsOK, SlotsOK, HoldsOK, ThreadsOK, PipeTypeOK,
             SlotTypeOK, ThreadTypeOK, Complete, Window, Codes, SlotStates, Slots, RendQuit,
             Record, rendererFrame, flagVars, jobVars, mainVars, prodVars
    <2> QED
      BY <1>2, <2>1, <2>2, <2>3, <2>4, <2>5 DEF Renderer
  <1>3. CASE Main
    <2>1. CASE PipeStart
      BY <2>1, FramesAssumption, SlotFacts
         DEF ChecksNeverFire, TypeOK, CountsOK, SlotsOK, HoldsOK, ThreadsOK, PipeTypeOK,
             SlotTypeOK, ThreadTypeOK, Complete, Window, Codes, SlotStates, Slots, PipeStart, End,
             flagVars, mainFrame, jobVars
    <2>2. CASE PipeAwait
      BY <2>2, FramesAssumption, SlotFacts
         DEF ChecksNeverFire, TypeOK, CountsOK, SlotsOK, HoldsOK, ThreadsOK, PipeTypeOK,
             SlotTypeOK, ThreadTypeOK, Complete, Window, Codes, SlotStates, Slots, PipeAwait, End,
             flagVars, mainFrame, jobVars
    <2>3. CASE MainLoop
      BY <2>3 DEF ChecksNeverFire, MainLoop, flagVars, mainFrame, jobVars
    <2>4. CASE TakeError
      BY <2>4, FramesAssumption, SlotFacts
         DEF ChecksNeverFire, TypeOK, CountsOK, SlotsOK, HoldsOK, ThreadsOK, PipeTypeOK,
             SlotTypeOK, ThreadTypeOK, Complete, Window, Codes, SlotStates, Slots, TakeError, End,
             flagVars, mainFrame, jobVars
    <2>5. CASE TakeReady
      BY <2>5, FramesAssumption, SlotFacts
         DEF ChecksNeverFire, TypeOK, CountsOK, SlotsOK, HoldsOK, ThreadsOK, PipeTypeOK,
             SlotTypeOK, ThreadTypeOK, Complete, Window, Codes, SlotStates, Slots, TakeReady, End,
             flagVars, mainFrame, jobVars
    <2>6. CASE TakeNothing
      BY <2>6 DEF ChecksNeverFire, TakeNothing, flagVars, mainFrame, jobVars
    <2>7. CASE TakeLook
      BY <2>7, FramesAssumption, SlotFacts
         DEF ChecksNeverFire, TypeOK, CountsOK, SlotsOK, HoldsOK, ThreadsOK, PipeTypeOK,
             SlotTypeOK, ThreadTypeOK, Complete, Window, Codes, SlotStates, Slots, TakeLook, End,
             flagVars, mainFrame, pipe_halt, jobVars
    <2>8. ASSUME NEW detect \in BOOLEAN, Infer(detect) PROVE ChecksNeverFire'
      BY <2>8, FramesAssumption, SlotFacts
         DEF ChecksNeverFire, TypeOK, CountsOK, SlotsOK, HoldsOK, ThreadsOK, PipeTypeOK,
             SlotTypeOK, ThreadTypeOK, Complete, Window, Codes, SlotStates, Slots, Infer, End,
             flagVars, mainFrame, jobVars
    <2>9. ASSUME NEW detect \in BOOLEAN, InferAndShow(detect) PROVE ChecksNeverFire'
      BY <2>9, FramesAssumption, SlotFacts
         DEF ChecksNeverFire, TypeOK, CountsOK, SlotsOK, HoldsOK, ThreadsOK, PipeTypeOK,
             SlotTypeOK, ThreadTypeOK, Complete, Window, Codes, SlotStates, Slots, InferAndShow,
             End, flagVars, mainFrame, jobVars
    <2>10. CASE PipeRelease
      BY <2>10, FramesAssumption, SlotFacts
         DEF ChecksNeverFire, TypeOK, CountsOK, SlotsOK, HoldsOK, ThreadsOK, PipeTypeOK,
             SlotTypeOK, ThreadTypeOK, Complete, Window, Codes, SlotStates, Slots, PipeRelease,
             flagVars, mainFrame, jobVars
    <2>11. CASE PipeSubmit
      BY <2>11, FramesAssumption, SlotFacts
         DEF ChecksNeverFire, TypeOK, CountsOK, SlotsOK, HoldsOK, ThreadsOK, PipeTypeOK,
             SlotTypeOK, ThreadTypeOK, Complete, Window, Codes, SlotStates, Slots, PipeSubmit,
             End, flagVars, mainFrame, jobVars
    <2>12. CASE PipeFinish
      BY <2>12, FramesAssumption, SlotFacts
         DEF ChecksNeverFire, TypeOK, CountsOK, SlotsOK, HoldsOK, ThreadsOK, PipeTypeOK,
             SlotTypeOK, ThreadTypeOK, Complete, Window, Codes, SlotStates, Slots, PipeFinish,
             Quiet, mainFrame, jobVars
    <2>13. CASE JoinProducer
      BY <2>13 DEF ChecksNeverFire, JoinProducer, flagVars, mainFrame, jobVars
    <2>14. CASE JoinRenderer
      BY <2>14 DEF ChecksNeverFire, JoinRenderer, flagVars, mainFrame, jobVars
    <2>15. CASE PipeDestroy
      BY <2>15, FramesAssumption, SlotFacts
         DEF ChecksNeverFire, TypeOK, CountsOK, SlotsOK, HoldsOK, ThreadsOK, PipeTypeOK,
             SlotTypeOK, ThreadTypeOK, Complete, Window, Codes, SlotStates, Slots, PipeDestroy,
             Quiet, flagVars, mainFrame, jobVars
    <2> QED
      BY <1>3, <2>1, <2>2, <2>3, <2>4, <2>5, <2>6, <2>7, <2>8, <2>9, <2>10, <2>11, <2>12,
         <2>13, <2>14, <2>15
         DEF Main
  <1>4. CASE RequestStop
    BY <1>4
       DEF ChecksNeverFire, RequestStop, countVars, flagVars, mainVars, prodVars, rendVars,
           slotVars
  <1>5. CASE Expire
    BY <1>5
       DEF ChecksNeverFire, Expire, countVars, flagVars, mainVars, prodVars, rendVars,
           slotVars
  <1> QED
    BY <1>0, <1>1, <1>2, <1>3, <1>4, <1>5 DEF Next

\* Each slot moves on with its frame.
LEMMA SlotsStep == IInv /\ [Next]_vars => SlotsOK'
  <1> SUFFICES ASSUME IInv, [Next]_vars PROVE SlotsOK'
    OBVIOUS
  <1> USE DEF IInv
  <1>0. CASE UNCHANGED vars
    BY <1>0
       DEF SlotsOK, Complete, Window, vars, countVars, flagVars, jobVars, mainVars, prodVars,
           rendVars, slotVars
  <1>1. CASE Producer
    <2>1. CASE ProdBind
      BY <2>1
         DEF SlotsOK, Complete, Window, ProdBind, producerFrame, flagVars, jobVars, mainVars,
             rendVars
    <2>2. CASE ProdNext
      BY <2>2
         DEF SlotsOK, Complete, Window, ProdNext, pipe_halt, producerFrame, flagVars, jobVars,
             mainVars, rendVars
    <2>3. CASE ProdClaim
      BY <2>3, FramesAssumption, SlotFacts
         DEF SlotsOK, Complete, Window, TypeOK, CountsOK, HoldsOK, ThreadsOK, PipeTypeOK,
             SlotTypeOK, ThreadTypeOK, Codes, SlotStates, Slots, ProdClaim, producerFrame,
             flagVars, jobVars, mainVars, rendVars
    <2>4. CASE ProdLook
      BY <2>4
         DEF SlotsOK, Complete, Window, ProdLook, pipe_halt, producerFrame, flagVars, jobVars,
             mainVars, rendVars
    <2>5. CASE ProdCapture
      BY <2>5, FramesAssumption, SlotFacts
         DEF SlotsOK, Complete, Window, TypeOK, CountsOK, HoldsOK, ThreadsOK, PipeTypeOK,
             SlotTypeOK, ThreadTypeOK, Codes, SlotStates, Slots, ProdCapture, pipe_halt,
             producerFrame, flagVars, jobVars, mainVars, rendVars
    <2>6. CASE ProdRender
      BY <2>6, FramesAssumption, SlotFacts
         DEF SlotsOK, Complete, Window, TypeOK, CountsOK, HoldsOK, ThreadsOK, PipeTypeOK,
             SlotTypeOK, ThreadTypeOK, Codes, SlotStates, Slots, ProdRender, pipe_halt,
             producerFrame, flagVars, jobVars, mainVars, rendVars
    <2>7. CASE ProdPublish
      BY <2>7, FramesAssumption, SlotFacts
         DEF SlotsOK, Complete, Window, TypeOK, CountsOK, HoldsOK, ThreadsOK, PipeTypeOK,
             SlotTypeOK, ThreadTypeOK, Codes, SlotStates, Slots, ProdPublish, producerFrame,
             flagVars, jobVars, mainVars, rendVars
    <2>8. CASE ProdQuit
      BY <2>8
         DEF SlotsOK, Complete, Window, ProdQuit, Record, producerFrame, flagVars, jobVars,
             mainVars, rendVars
    <2> QED
      BY <1>1, <2>1, <2>2, <2>3, <2>4, <2>5, <2>6, <2>7, <2>8 DEF Producer
  <1>2. CASE Renderer
    <2>1. CASE RendBegin
      BY <2>1
         DEF SlotsOK, Complete, Window, RendBegin, Record, rendererFrame, flagVars, jobVars,
             mainVars, prodVars
    <2>2. CASE RendWait
      BY <2>2, FramesAssumption, SlotFacts
         DEF SlotsOK, Complete, Window, TypeOK, CountsOK, HoldsOK, ThreadsOK, PipeTypeOK,
             SlotTypeOK, ThreadTypeOK, Codes, SlotStates, Slots, RendWait, RendStop,
             rendererFrame, flagVars, jobVars, mainVars, prodVars
    <2>3. CASE RendDraw
      BY <2>3
         DEF SlotsOK, Complete, Window, RendDraw, rendererFrame, flagVars, jobVars, mainVars,
             prodVars
    <2>4. CASE RendComplete
      BY <2>4, FramesAssumption, SlotFacts
         DEF SlotsOK, Complete, Window, TypeOK, CountsOK, HoldsOK, ThreadsOK, PipeTypeOK,
             SlotTypeOK, ThreadTypeOK, Codes, SlotStates, Slots, RendComplete, rendererFrame,
             flagVars, jobVars, mainVars, prodVars
    <2>5. CASE RendQuit
      BY <2>5
         DEF SlotsOK, Complete, Window, RendQuit, Record, rendererFrame, flagVars, jobVars,
             mainVars, prodVars
    <2> QED
      BY <1>2, <2>1, <2>2, <2>3, <2>4, <2>5 DEF Renderer
  <1>3. CASE Main
    <2>1. CASE PipeStart
      BY <2>1 DEF SlotsOK, Complete, Window, PipeStart, End, flagVars, mainFrame, jobVars
    <2>2. CASE PipeAwait
      BY <2>2 DEF SlotsOK, Complete, Window, PipeAwait, End, flagVars, mainFrame, jobVars
    <2>3. CASE MainLoop
      BY <2>3 DEF SlotsOK, Complete, Window, MainLoop, flagVars, mainFrame, jobVars
    <2>4. CASE TakeError
      BY <2>4 DEF SlotsOK, Complete, Window, TakeError, End, flagVars, mainFrame, jobVars
    <2>5. CASE TakeReady
      BY <2>5, FramesAssumption, SlotFacts
         DEF SlotsOK, Complete, Window, TypeOK, CountsOK, HoldsOK, ThreadsOK, PipeTypeOK,
             SlotTypeOK, ThreadTypeOK, Codes, SlotStates, Slots, TakeReady, End, flagVars,
             mainFrame, jobVars
    <2>6. CASE TakeNothing
      BY <2>6 DEF SlotsOK, Complete, Window, TakeNothing, flagVars, mainFrame, jobVars
    <2>7. CASE TakeLook
      BY <2>7
         DEF SlotsOK, Complete, Window, TakeLook, End, flagVars, mainFrame, pipe_halt, jobVars
    <2>8. ASSUME NEW detect \in BOOLEAN, Infer(detect) PROVE SlotsOK'
      BY <2>8 DEF SlotsOK, Complete, Window, Infer, End, flagVars, mainFrame, jobVars
    <2>9. ASSUME NEW detect \in BOOLEAN, InferAndShow(detect) PROVE SlotsOK'
      BY <2>9 DEF SlotsOK, Complete, Window, InferAndShow, End, flagVars, mainFrame, jobVars
    <2>10. CASE PipeRelease
      BY <2>10, FramesAssumption, SlotFacts
         DEF SlotsOK, Complete, Window, TypeOK, CountsOK, HoldsOK, ThreadsOK, PipeTypeOK,
             SlotTypeOK, ThreadTypeOK, Codes, SlotStates, Slots, PipeRelease, flagVars, mainFrame,
             jobVars
    <2>11. CASE PipeSubmit
      BY <2>11, FramesAssumption, SlotFacts
         DEF SlotsOK, Complete, Window, TypeOK, CountsOK, HoldsOK, ThreadsOK, PipeTypeOK,
             SlotTypeOK, ThreadTypeOK, Codes, SlotStates, Slots, PipeSubmit, End, flagVars,
             mainFrame, jobVars
    <2>12. CASE PipeFinish
      BY <2>12 DEF SlotsOK, Complete, Window, PipeFinish, Quiet, mainFrame, jobVars
    <2>13. CASE JoinProducer
      BY <2>13 DEF SlotsOK, Complete, Window, JoinProducer, flagVars, mainFrame, jobVars
    <2>14. CASE JoinRenderer
      BY <2>14 DEF SlotsOK, Complete, Window, JoinRenderer, flagVars, mainFrame, jobVars
    <2>15. CASE PipeDestroy
      BY <2>15 DEF SlotsOK, Complete, Window, PipeDestroy, Quiet, flagVars, mainFrame, jobVars
    <2> QED
      BY <1>3, <2>1, <2>2, <2>3, <2>4, <2>5, <2>6, <2>7, <2>8, <2>9, <2>10, <2>11, <2>12,
         <2>13, <2>14, <2>15
         DEF Main
  <1>4. CASE RequestStop
    BY <1>4
       DEF SlotsOK, Complete, Window, RequestStop, countVars, flagVars, mainVars, prodVars,
           rendVars, slotVars
  <1>5. CASE Expire
    BY <1>5
       DEF SlotsOK, Complete, Window, Expire, countVars, flagVars, mainVars, prodVars,
           rendVars, slotVars
  <1> QED
    BY <1>0, <1>1, <1>2, <1>3, <1>4, <1>5 DEF Next

-----------------------------------------------------------------------------
(* The theorems.                                                            *)

\* The inductive invariant of the pipeline holds in every reachable state.
THEOREM PipeSafety == Spec => []IInv
  <1>1. IInv /\ [Next]_vars => IInv'
    BY TypeStep, CountsStep, SlotsStep, HoldsStep, ThreadsStep, ScreenStep, ChecksStep DEF IInv
  <1> QED
    BY InitIInv, <1>1, PTL DEF Spec

\* Pixels have one user at a time (pipe_producer, pipe_take, pipe_renderer).
THEOREM OnePixelUser == Spec => []SlotOwner
  <1>1. IInv => SlotOwner
    <2> SUFFICES ASSUME IInv PROVE SlotOwner
      OBVIOUS
    <2>1. prod \in {"capture", "render", "publish"} => state[Slot(pseq)] = "WRITING"
      BY DEF IInv, HoldsOK
    <2>2. ASSUME main \in {"work", "hand"}
          PROVE  /\ state[Slot(mseq)] = "READING"
                 /\ rgb[Slot(mseq)] = mseq /\ result[Slot(mseq)] = mseq
      <3>1. state[Slot(mseq)] = "READING"
        BY <2>2 DEF IInv, HoldsOK
      <3>2. mseq \in Window
        <4>1. consumed \in Nat /\ mseq \in Nat /\ consumed < mseq /\ mseq <= consumed + 3
          BY FramesAssumption DEF IInv, TypeOK, PipeTypeOK, ThreadTypeOK, CountsOK
        <4>2. mseq # consumed + 3
          <5>1. SUFFICES ASSUME mseq = consumed + 3 PROVE FALSE
            OBVIOUS
          <5>2. Slot(consumed + 1) = Slot(mseq)
            BY <4>1, <5>1, SlotFacts
          <5> QED
            BY <3>1, <4>1, <5>1, <5>2 DEF IInv, SlotsOK, Window
        <4> QED
          BY <4>1, <4>2 DEF Window
      <3> QED
        BY <3>1, <3>2 DEF IInv, TypeOK, PipeTypeOK, ThreadTypeOK, SlotsOK, CountsOK, Complete
    <2>3. ASSUME rend \in {"draw", "complete"}
          PROVE  /\ state[Slot(rseq)] = "DRAWING"
                 /\ rgb[Slot(rseq)] = rseq /\ completed[Slot(rseq)] = rseq
      BY <2>3, SlotFacts, FramesAssumption
         DEF IInv, TypeOK, PipeTypeOK, ThreadTypeOK, HoldsOK, SlotsOK, CountsOK, ThreadsOK, Window,
             Complete
    <2> QED
      BY <2>1, <2>2, <2>3 DEF SlotOwner
  <1> QED
    BY PipeSafety, <1>1, PTL

\* -ESTALE and -EPROTO are never raised by the pipeline itself.
THEOREM ChecksAreSilent == Spec => []ChecksNeverFire
  <1>1. IInv => ChecksNeverFire
    BY DEF IInv
  <1> QED
    BY PipeSafety, <1>1, PTL

\* The pipe is freed only after both threads, with the display given back.
THEOREM FreedLast == Spec => []Lifetime
  <1>1. IInv => Lifetime
    BY DEF IInv, ThreadsOK, Lifetime
  <1> QED
    BY PipeSafety, <1>1, PTL

\* No step replaces an error that is on record.
LEMMA ErrorIsKept == IInv /\ [Next]_vars => ErrorStep
  <1> SUFFICES ASSUME IInv, [Next]_vars PROVE ErrorStep
    OBVIOUS
  <1> USE DEF IInv
  <1>0. CASE UNCHANGED vars
    BY <1>0
       DEF ErrorStep, vars, countVars, flagVars, jobVars, mainVars, prodVars, rendVars,
           slotVars
  <1>1. CASE Producer
    <2>1. CASE ProdBind
      BY <2>1 DEF ErrorStep, ProdBind, producerFrame, flagVars, jobVars, mainVars, rendVars
    <2>2. CASE ProdNext
      BY <2>2
         DEF ErrorStep, ProdNext, pipe_halt, producerFrame, flagVars, jobVars, mainVars,
             rendVars
    <2>3. CASE ProdClaim
      BY <2>3 DEF ErrorStep, ProdClaim, producerFrame, flagVars, jobVars, mainVars, rendVars
    <2>4. CASE ProdLook
      BY <2>4
         DEF ErrorStep, ProdLook, pipe_halt, producerFrame, flagVars, jobVars, mainVars,
             rendVars
    <2>5. CASE ProdCapture
      BY <2>5
         DEF ErrorStep, ProdCapture, pipe_halt, producerFrame, flagVars, jobVars, mainVars,
             rendVars
    <2>6. CASE ProdRender
      BY <2>6
         DEF ErrorStep, ProdRender, pipe_halt, producerFrame, flagVars, jobVars, mainVars,
             rendVars
    <2>7. CASE ProdPublish
      BY <2>7 DEF ErrorStep, ProdPublish, producerFrame, flagVars, jobVars, mainVars, rendVars
    <2>8. CASE ProdQuit
      BY <2>8, FramesAssumption, SlotFacts
         DEF ErrorStep, TypeOK, HoldsOK, CountsOK, PipeTypeOK, SlotTypeOK, ThreadTypeOK,
             Complete, Codes, SlotStates, Slots, ProdQuit, Record, producerFrame, flagVars,
             jobVars, mainVars, rendVars
    <2> QED
      BY <1>1, <2>1, <2>2, <2>3, <2>4, <2>5, <2>6, <2>7, <2>8 DEF Producer
  <1>2. CASE Renderer
    <2>1. CASE RendBegin
      BY <2>1, FramesAssumption, SlotFacts
         DEF ErrorStep, TypeOK, HoldsOK, CountsOK, PipeTypeOK, SlotTypeOK, ThreadTypeOK,
             Complete, Codes, SlotStates, Slots, RendBegin, Record, rendererFrame, flagVars,
             jobVars, mainVars, prodVars
    <2>2. CASE RendWait
      BY <2>2
         DEF ErrorStep, RendWait, RendStop, rendererFrame, flagVars, jobVars, mainVars,
             prodVars
    <2>3. CASE RendDraw
      BY <2>3 DEF ErrorStep, RendDraw, rendererFrame, flagVars, jobVars, mainVars, prodVars
    <2>4. CASE RendComplete
      BY <2>4 DEF ErrorStep, RendComplete, rendererFrame, flagVars, jobVars, mainVars, prodVars
    <2>5. CASE RendQuit
      BY <2>5, FramesAssumption, SlotFacts
         DEF ErrorStep, TypeOK, HoldsOK, CountsOK, PipeTypeOK, SlotTypeOK, ThreadTypeOK,
             Complete, Codes, SlotStates, Slots, RendQuit, Record, rendererFrame, flagVars,
             jobVars, mainVars, prodVars
    <2> QED
      BY <1>2, <2>1, <2>2, <2>3, <2>4, <2>5 DEF Renderer
  <1>3. CASE Main
    <2>1. CASE PipeStart
      BY <2>1 DEF ErrorStep, PipeStart, End, flagVars, mainFrame, jobVars
    <2>2. CASE PipeAwait
      BY <2>2 DEF ErrorStep, PipeAwait, End, flagVars, mainFrame, jobVars
    <2>3. CASE MainLoop
      BY <2>3 DEF ErrorStep, MainLoop, flagVars, mainFrame, jobVars
    <2>4. CASE TakeError
      BY <2>4 DEF ErrorStep, TakeError, End, flagVars, mainFrame, jobVars
    <2>5. CASE TakeReady
      BY <2>5 DEF ErrorStep, TakeReady, End, flagVars, mainFrame, jobVars
    <2>6. CASE TakeNothing
      BY <2>6 DEF ErrorStep, TakeNothing, flagVars, mainFrame, jobVars
    <2>7. CASE TakeLook
      BY <2>7 DEF ErrorStep, TakeLook, End, flagVars, mainFrame, pipe_halt, jobVars
    <2>8. ASSUME NEW detect \in BOOLEAN, Infer(detect) PROVE ErrorStep
      BY <2>8 DEF ErrorStep, Infer, End, flagVars, mainFrame, jobVars
    <2>9. ASSUME NEW detect \in BOOLEAN, InferAndShow(detect) PROVE ErrorStep
      BY <2>9 DEF ErrorStep, InferAndShow, End, flagVars, mainFrame, jobVars
    <2>10. CASE PipeRelease
      BY <2>10, FramesAssumption, SlotFacts
         DEF ErrorStep, TypeOK, HoldsOK, CountsOK, PipeTypeOK, SlotTypeOK, ThreadTypeOK,
             Complete, Codes, SlotStates, Slots, PipeRelease, flagVars, mainFrame, jobVars
    <2>11. CASE PipeSubmit
      BY <2>11 DEF ErrorStep, PipeSubmit, End, flagVars, mainFrame, jobVars
    <2>12. CASE PipeFinish
      BY <2>12 DEF ErrorStep, PipeFinish, Quiet, mainFrame, jobVars
    <2>13. CASE JoinProducer
      BY <2>13 DEF ErrorStep, JoinProducer, flagVars, mainFrame, jobVars
    <2>14. CASE JoinRenderer
      BY <2>14 DEF ErrorStep, JoinRenderer, flagVars, mainFrame, jobVars
    <2>15. CASE PipeDestroy
      BY <2>15 DEF ErrorStep, PipeDestroy, Quiet, flagVars, mainFrame, jobVars
    <2> QED
      BY <1>3, <2>1, <2>2, <2>3, <2>4, <2>5, <2>6, <2>7, <2>8, <2>9, <2>10, <2>11, <2>12,
         <2>13, <2>14, <2>15
         DEF Main
  <1>4. CASE RequestStop
    BY <1>4
       DEF ErrorStep, RequestStop, countVars, flagVars, mainVars, prodVars, rendVars, slotVars
  <1>5. CASE Expire
    BY <1>5 DEF ErrorStep, Expire, countVars, flagVars, mainVars, prodVars, rendVars, slotVars
  <1> QED
    BY <1>0, <1>1, <1>2, <1>3, <1>4, <1>5 DEF Next

\* The first error of the pipe is kept (`if(r && !p->error)', pipe_release).
THEOREM FirstErrorWins == Spec => FirstErrorKept
  <1>1. IInv /\ [Next]_vars => [ErrorStep]_vars
    BY ErrorIsKept
  <1> QED
    BY PipeSafety, <1>1, PTL DEF Spec, FirstErrorKept

-----------------------------------------------------------------------------
(* The pipeline implements FramePlayer.                                     *)

\* There are two slots, which is how far ahead FramePlayer may capture.
LEMMA TwoSlots == Cardinality(Slots) = 2
  <1>1. 0 \in Int /\ 1 \in Int
    OBVIOUS
  <1>2. Cardinality(0..1) = IF 0 > 1 THEN 0 ELSE 1 - 0 + 1
    BY <1>1, FS_Interval, Zenon
  <1> QED
    BY <1>2 DEF Slots

\* Every step of the pipe is a step of the player, or one the display does not see:
\* a frame is published, shown, or the job is over.
LEMMA PlayerSteps == IInv /\ [Next]_vars => [Player!Next]_(Player!vars)
  <1> SUFFICES ASSUME IInv, [Next]_vars PROVE [Player!Next]_(Player!vars)
    OBVIOUS
  <1> USE DEF IInv
  <1> DEFINE Unseen == UNCHANGED <<produced, screen, main = "over">>
  <1>u. Unseen => [Player!Next]_(Player!vars)
    BY DEF Player!vars
  <1>0. CASE UNCHANGED vars
    BY <1>0, <1>u DEF vars, countVars, mainVars
  <1>1. CASE Producer
    <2>1. CASE ProdBind
      BY <2>1, <1>u DEF ProdBind, producerFrame, mainVars
    <2>2. CASE ProdNext
      BY <2>2, <1>u DEF ProdNext, producerFrame, mainVars
    <2>3. CASE ProdClaim
      BY <2>3, <1>u DEF ProdClaim, producerFrame, mainVars
    <2>4. CASE ProdLook
      BY <2>4, <1>u DEF ProdLook, producerFrame, mainVars
    <2>5. CASE ProdCapture
      BY <2>5, <1>u DEF ProdCapture, producerFrame, mainVars
    <2>6. CASE ProdRender
      BY <2>6, <1>u DEF ProdRender, producerFrame, mainVars
    <2>7. CASE ProdPublish
      <3>1. CASE stop
        BY <2>7, <3>1, <1>u DEF ProdPublish, producerFrame, mainVars
      <3>2. CASE ~stop
        <4>1. state[Slot(pseq)] = "WRITING" /\ main # "over"
          BY <2>7 DEF ProdPublish, HoldsOK, ThreadsOK
        <4>2. produced < consumed + 2
          BY <4>1, SlotFacts DEF TypeOK, PipeTypeOK, ThreadTypeOK, CountsOK, SlotsOK, Window
        <4>3. consumed <= screen.rgb /\ screen.rgb \in Nat
          BY DEF ScreenOK, CountsOK, TypeOK, PipeTypeOK, ThreadTypeOK
        <4>4. produced < screen.rgb + Cardinality(Slots)
          BY <4>2, <4>3, TwoSlots DEF TypeOK, PipeTypeOK
        <4> QED
          BY <2>7, <3>2, <4>1, <4>4
             DEF Player!Next, Player!Capture, ProdPublish, producerFrame, mainVars
      <3> QED
        BY <3>1, <3>2
    <2>8. CASE ProdQuit
      BY <2>8, <1>u DEF ProdQuit, producerFrame, mainVars
    <2> QED
      BY <1>1, <2>1, <2>2, <2>3, <2>4, <2>5, <2>6, <2>7, <2>8 DEF Producer
  <1>2. CASE Renderer
    <2>1. CASE RendBegin
      BY <2>1, <1>u DEF RendBegin, rendererFrame, mainVars
    <2>2. CASE RendWait
      BY <2>2, <1>u DEF RendWait, rendererFrame, mainVars
    <2>3. CASE RendDraw
      <3>1. CASE UNCHANGED screen
        BY <2>3, <3>1, <1>u DEF RendDraw, rendererFrame, mainVars
      <3>2. CASE screen' = [rgb |-> rgb[Slot(rseq)], result |-> completed[Slot(rseq)]]
        <4>1. /\ rseq \in Window /\ rseq < mseq /\ rseq <= produced
               /\ screen.rgb = rendered /\ rseq = rendered + 1 /\ main # "over"
          BY <2>3, SlotFacts
             DEF RendDraw, TypeOK, PipeTypeOK, ThreadTypeOK, CountsOK, SlotsOK, HoldsOK, ThreadsOK,
                 ScreenOK, Window
        <4>2. rgb[Slot(rseq)] = rseq /\ completed[Slot(rseq)] = rseq
          BY <4>1 DEF SlotsOK, Complete
        <4> QED
          BY <2>3, <3>2, <4>1, <4>2
             DEF Player!Next, Player!Show, RendDraw, rendererFrame, mainVars, TypeOK, PipeTypeOK
      <3> QED
        BY <2>3, <3>1, <3>2 DEF RendDraw
    <2>4. CASE RendComplete
      BY <2>4, <1>u DEF RendComplete, rendererFrame, mainVars
    <2>5. CASE RendQuit
      BY <2>5, <1>u DEF RendQuit, rendererFrame, mainVars
    <2> QED
      BY <1>2, <2>1, <2>2, <2>3, <2>4, <2>5 DEF Renderer
  <1>3. CASE Main
    <2>1. CASE PipeStart
      BY <2>1, <1>u DEF PipeStart, mainFrame, End
    <2>2. CASE PipeAwait
      BY <2>2, <1>u DEF PipeAwait, mainFrame, End
    <2>3. CASE MainLoop
      BY <2>3, <1>u DEF MainLoop, mainFrame
    <2>4. CASE TakeError
      BY <2>4, <1>u DEF TakeError, mainFrame, End
    <2>5. CASE TakeReady
      BY <2>5, <1>u DEF TakeReady, mainFrame, End
    <2>6. CASE TakeNothing
      BY <2>6, <1>u DEF TakeNothing, mainFrame
    <2>7. CASE TakeLook
      BY <2>7, <1>u DEF TakeLook, mainFrame, End
    <2>8. ASSUME NEW detect \in BOOLEAN, Infer(detect)
         PROVE  [Player!Next]_(Player!vars)
      BY <2>8, <1>u DEF Infer, mainFrame, End
    <2>9. ASSUME NEW detect \in BOOLEAN, InferAndShow(detect)
         PROVE  [Player!Next]_(Player!vars)
      <3>1. CASE UNCHANGED screen
        BY <2>9, <3>1, <1>u DEF InferAndShow, End, mainFrame
      <3>2. CASE screen' = [rgb |-> rgb[Slot(mseq)], result |-> result[Slot(mseq)]]
        <4>1. mseq = consumed + 1 /\ mseq \in Window /\ screen.rgb = consumed
          BY <2>9 DEF InferAndShow, CountsOK, ScreenOK, Window
        <4>2. state[Slot(mseq)] = "READING"
          BY <2>9 DEF InferAndShow, HoldsOK
        <4>3. mseq <= produced /\ rgb[Slot(mseq)] = mseq /\ result[Slot(mseq)] = mseq
          BY <4>1, <4>2
             DEF SlotsOK, Complete, TypeOK, PipeTypeOK, ThreadTypeOK
        <4> QED
          BY <2>9, <3>2, <4>1, <4>3
             DEF Player!Next, Player!Show, InferAndShow, End, mainFrame, TypeOK, PipeTypeOK
      <3> QED
        BY <2>9, <3>1, <3>2 DEF InferAndShow
    <2>10. CASE PipeRelease
      BY <2>10, <1>u DEF PipeRelease, mainFrame
    <2>11. CASE PipeSubmit
      BY <2>11, <1>u DEF PipeSubmit, mainFrame, End
    <2>12. CASE PipeFinish
      BY <2>12, <1>u DEF PipeFinish, mainFrame
    <2>13. CASE JoinProducer
      BY <2>13, <1>u DEF JoinProducer, mainFrame
    <2>14. CASE JoinRenderer
      BY <2>14, <1>u DEF JoinRenderer, mainFrame
    <2>15. CASE PipeDestroy
      BY <2>15 DEF Player!Next, Player!Finish, PipeDestroy, mainFrame
    <2> QED
      BY <1>3, <2>1, <2>2, <2>3, <2>4, <2>5, <2>6, <2>7, <2>8, <2>9, <2>10, <2>11, <2>12,
         <2>13, <2>14, <2>15
         DEF Main
  <1>4. CASE RequestStop
    BY <1>4, <1>u DEF RequestStop, countVars, mainVars
  <1>5. CASE Expire
    BY <1>5, <1>u DEF Expire, countVars, mainVars
  <1> QED
    BY <1>0, <1>1, <1>2, <1>3, <1>4, <1>5 DEF Next

\* What the display sees is what FramePlayer promises: every captured frame in
\* turn, with its own result, never more than two behind, and nothing at the end.
THEOREM PipeRefinesPlayer == Spec => PipeIsPlayer
  <1>1. Init => Player!Init
    BY DEF Init, Player!Init
  <1>2. IInv /\ [Next]_vars => [Player!Next]_(Player!vars)
    BY PlayerSteps
  <1> QED
    BY PipeSafety, <1>1, <1>2, PTL DEF Spec, PipeIsPlayer, Player!Spec

\* A thread that ends leaves its failure in `error', and the verdict has it.
LEMMA VerdictStep == EndInv /\ [Next]_vars => VerdictOK'
  <1> SUFFICES ASSUME EndInv, [Next]_vars PROVE VerdictOK'
    OBVIOUS
  <1> USE DEF EndInv, IInv, VerdictOK, ThreadsOK
  <1>0. CASE UNCHANGED vars
    BY <1>0 DEF vars, slotVars, flagVars, countVars, jobVars, prodVars, rendVars, mainVars
  <1>1. CASE Producer
    <2>1. CASE ProdBind
      BY <2>1 DEF ProdBind, producerFrame, flagVars, jobVars, rendVars, mainVars
    <2>2. CASE ProdNext
      BY <2>2 DEF ProdNext, pipe_halt, producerFrame, flagVars, jobVars, rendVars, mainVars
    <2>3. CASE ProdClaim
      BY <2>3 DEF ProdClaim, producerFrame, flagVars, jobVars, rendVars, mainVars
    <2>4. CASE ProdLook
      BY <2>4 DEF ProdLook, pipe_halt, producerFrame, flagVars, jobVars, rendVars, mainVars
    <2>5. CASE ProdCapture
      BY <2>5 DEF ProdCapture, pipe_halt, producerFrame, flagVars, jobVars, rendVars, mainVars
    <2>6. CASE ProdRender
      BY <2>6 DEF ProdRender, pipe_halt, producerFrame, flagVars, jobVars, rendVars, mainVars
    <2>7. CASE ProdPublish
      BY <2>7 DEF ProdPublish, producerFrame, flagVars, jobVars, rendVars, mainVars
    <2>8. CASE ProdQuit
      BY <2>8 DEF ProdQuit, Record, producerFrame, flagVars, jobVars, rendVars, mainVars
    <2> QED
      BY <1>1, <2>1, <2>2, <2>3, <2>4, <2>5, <2>6, <2>7, <2>8 DEF Producer
  <1>2. CASE Renderer
    <2>1. CASE RendBegin
      BY <2>1 DEF RendBegin, Record, rendererFrame, flagVars, jobVars, prodVars, mainVars
    <2>2. CASE RendWait
      BY <2>2 DEF RendWait, RendStop, rendererFrame, flagVars, jobVars, prodVars, mainVars
    <2>3. CASE RendDraw
      BY <2>3 DEF RendDraw, rendererFrame, flagVars, jobVars, prodVars, mainVars
    <2>4. CASE RendComplete
      BY <2>4 DEF RendComplete, rendererFrame, flagVars, jobVars, prodVars, mainVars
    <2>5. CASE RendQuit
      BY <2>5 DEF RendQuit, Record, rendererFrame, flagVars, jobVars, prodVars, mainVars
    <2> QED
      BY <1>2, <2>1, <2>2, <2>3, <2>4, <2>5 DEF Renderer
  <1>3. CASE Main
    <2>1. CASE PipeStart
      BY <2>1 DEF PipeStart, End, mainFrame, jobVars, flagVars
    <2>2. CASE PipeAwait
      BY <2>2 DEF PipeAwait, End, mainFrame, jobVars, flagVars
    <2>3. CASE MainLoop
      BY <2>3 DEF MainLoop, mainFrame, jobVars, flagVars
    <2>4. CASE TakeError
      BY <2>4 DEF TakeError, End, mainFrame, jobVars, flagVars
    <2>5. CASE TakeReady
      BY <2>5 DEF TakeReady, End, mainFrame, jobVars, flagVars
    <2>6. CASE TakeNothing
      BY <2>6 DEF TakeNothing, mainFrame, jobVars, flagVars
    <2>7. CASE TakeLook
      BY <2>7 DEF TakeLook, End, pipe_halt, mainFrame, jobVars, flagVars
    <2>8. ASSUME NEW detect \in BOOLEAN, Infer(detect) PROVE VerdictOK'
      BY <2>8 DEF Infer, End, mainFrame, jobVars, flagVars
    <2>9. ASSUME NEW detect \in BOOLEAN, InferAndShow(detect) PROVE VerdictOK'
      BY <2>9 DEF InferAndShow, End, mainFrame, jobVars, flagVars
    <2>10. CASE PipeRelease
      BY <2>10 DEF PipeRelease, mainFrame, jobVars, flagVars
    <2>11. CASE PipeSubmit
      BY <2>11 DEF PipeSubmit, End, mainFrame, jobVars, flagVars
    <2>12. CASE PipeFinish
      BY <2>12 DEF PipeFinish, Quiet, mainFrame, jobVars
    <2>13. CASE JoinProducer
      BY <2>13 DEF JoinProducer, mainFrame, jobVars, flagVars
    <2>14. CASE JoinRenderer
      BY <2>14 DEF JoinRenderer, mainFrame, jobVars, flagVars
    <2>15. CASE PipeDestroy
      BY <2>15 DEF PipeDestroy, Quiet, mainFrame, jobVars, flagVars
    <2> QED
      BY <1>3, <2>1, <2>2, <2>3, <2>4, <2>5, <2>6, <2>7, <2>8, <2>9, <2>10, <2>11, <2>12,
         <2>13, <2>14, <2>15 DEF Main
  <1>4. CASE RequestStop
    BY <1>4 DEF RequestStop, slotVars, flagVars, countVars, prodVars, rendVars, mainVars
  <1>5. CASE Expire
    BY <1>5 DEF Expire, slotVars, flagVars, countVars, prodVars, rendVars, mainVars
  <1> QED
    BY <1>0, <1>1, <1>2, <1>3, <1>4, <1>5 DEF Next

\* What was handed over is drawn before the renderer ends, unless a stop or a
\* failure forbids it.
LEMMA DrainStep == EndInv /\ [Next]_vars => DrainOK'
  <1> SUFFICES ASSUME EndInv, [Next]_vars PROVE DrainOK'
    OBVIOUS
  <1> USE DEF EndInv, IInv, DrainOK, CountsOK, ThreadsOK, ScreenOK, TypeOK, PipeTypeOK,
              ThreadTypeOK, Joining
  <1>0. CASE UNCHANGED vars
    BY <1>0 DEF vars, slotVars, flagVars, countVars, jobVars, prodVars, rendVars, mainVars
  <1>1. CASE Producer
    <2>1. CASE ProdBind
      BY <2>1 DEF ProdBind, producerFrame, flagVars, jobVars, rendVars, mainVars
    <2>2. CASE ProdNext
      BY <2>2 DEF ProdNext, pipe_halt, producerFrame, flagVars, jobVars, rendVars, mainVars
    <2>3. CASE ProdClaim
      BY <2>3 DEF ProdClaim, producerFrame, flagVars, jobVars, rendVars, mainVars
    <2>4. CASE ProdLook
      BY <2>4 DEF ProdLook, pipe_halt, producerFrame, flagVars, jobVars, rendVars, mainVars
    <2>5. CASE ProdCapture
      BY <2>5 DEF ProdCapture, pipe_halt, producerFrame, flagVars, jobVars, rendVars, mainVars
    <2>6. CASE ProdRender
      BY <2>6 DEF ProdRender, pipe_halt, producerFrame, flagVars, jobVars, rendVars, mainVars
    <2>7. CASE ProdPublish
      BY <2>7 DEF ProdPublish, producerFrame, flagVars, jobVars, rendVars, mainVars
    <2>8. CASE ProdQuit
      BY <2>8 DEF ProdQuit, Record, producerFrame, flagVars, jobVars, rendVars, mainVars
    <2> QED
      BY <1>1, <2>1, <2>2, <2>3, <2>4, <2>5, <2>6, <2>7, <2>8 DEF Producer
  <1>2. CASE Renderer
    <2>1. CASE RendBegin
      BY <2>1 DEF RendBegin, Record, rendererFrame, flagVars, jobVars, prodVars, mainVars
    <2>2. CASE RendWait
      BY <2>2 DEF RendWait, RendStop, rendererFrame, flagVars, jobVars, prodVars, mainVars
    <2>3. CASE RendDraw
      BY <2>3 DEF RendDraw, rendererFrame, flagVars, jobVars, prodVars, mainVars
    <2>4. CASE RendComplete
      BY <2>4 DEF RendComplete, rendererFrame, flagVars, jobVars, prodVars, mainVars
    <2>5. CASE RendQuit
      BY <2>5 DEF RendQuit, Record, rendererFrame, flagVars, jobVars, prodVars, mainVars
    <2> QED
      BY <1>2, <2>1, <2>2, <2>3, <2>4, <2>5 DEF Renderer
  <1>3. CASE Main
    <2>1. CASE PipeStart
      BY <2>1 DEF PipeStart, End, mainFrame, jobVars, flagVars
    <2>2. CASE PipeAwait
      BY <2>2 DEF PipeAwait, End, mainFrame, jobVars, flagVars
    <2>3. CASE MainLoop
      BY <2>3 DEF MainLoop, mainFrame, jobVars, flagVars
    <2>4. CASE TakeError
      BY <2>4 DEF TakeError, End, mainFrame, jobVars, flagVars
    <2>5. CASE TakeReady
      BY <2>5 DEF TakeReady, End, mainFrame, jobVars, flagVars
    <2>6. CASE TakeNothing
      BY <2>6 DEF TakeNothing, mainFrame, jobVars, flagVars
    <2>7. CASE TakeLook
      BY <2>7 DEF TakeLook, End, pipe_halt, mainFrame, jobVars, flagVars
    <2>8. ASSUME NEW detect \in BOOLEAN, Infer(detect) PROVE DrainOK'
      BY <2>8 DEF Infer, End, mainFrame, jobVars, flagVars
    <2>9. ASSUME NEW detect \in BOOLEAN, InferAndShow(detect) PROVE DrainOK'
      BY <2>9 DEF InferAndShow, End, mainFrame, jobVars, flagVars
    <2>10. CASE PipeRelease
      BY <2>10 DEF PipeRelease, mainFrame, jobVars, flagVars, HoldsOK
    <2>11. CASE PipeSubmit
      BY <2>11 DEF PipeSubmit, End, mainFrame, jobVars, flagVars
    <2>12. CASE PipeFinish
      BY <2>12 DEF PipeFinish, Quiet, mainFrame, jobVars
    <2>13. CASE JoinProducer
      BY <2>13 DEF JoinProducer, mainFrame, jobVars, flagVars
    <2>14. CASE JoinRenderer
      BY <2>14 DEF JoinRenderer, mainFrame, jobVars, flagVars
    <2>15. CASE PipeDestroy
      BY <2>15 DEF PipeDestroy, Quiet, mainFrame, jobVars, flagVars
    <2> QED
      BY <1>3, <2>1, <2>2, <2>3, <2>4, <2>5, <2>6, <2>7, <2>8, <2>9, <2>10, <2>11, <2>12,
         <2>13, <2>14, <2>15 DEF Main
  <1>4. CASE RequestStop
    BY <1>4 DEF RequestStop, slotVars, flagVars, countVars, prodVars, rendVars, mainVars
  <1>5. CASE Expire
    BY <1>5 DEF Expire, slotVars, flagVars, countVars, prodVars, rendVars, mainVars
  <1> QED
    BY <1>0, <1>1, <1>2, <1>3, <1>4, <1>5 DEF Next

\* What a waiting thread relies on stays true: the renderer's report, `done' and the
\* flags pipe_finish sets.
LEMMA WaitStep == EndInv /\ [Next]_vars => WaitOK'
  <1> SUFFICES ASSUME EndInv, [Next]_vars PROVE WaitOK'
    OBVIOUS
  <1> USE DEF EndInv, IInv, WaitOK, DrainOK, ThreadsOK, ScreenOK, TypeOK, PipeTypeOK,
              ThreadTypeOK, Joining
  <1>0. CASE UNCHANGED vars
    BY <1>0 DEF vars, slotVars, flagVars, countVars, jobVars, prodVars, rendVars, mainVars
  <1>1. CASE Producer
    <2>1. CASE ProdBind
      BY <2>1 DEF ProdBind, producerFrame, flagVars, jobVars, rendVars, mainVars
    <2>2. CASE ProdNext
      BY <2>2 DEF ProdNext, pipe_halt, producerFrame, flagVars, jobVars, rendVars, mainVars
    <2>3. CASE ProdClaim
      BY <2>3 DEF ProdClaim, producerFrame, flagVars, jobVars, rendVars, mainVars
    <2>4. CASE ProdLook
      BY <2>4 DEF ProdLook, pipe_halt, producerFrame, flagVars, jobVars, rendVars, mainVars
    <2>5. CASE ProdCapture
      BY <2>5 DEF ProdCapture, pipe_halt, producerFrame, flagVars, jobVars, rendVars, mainVars
    <2>6. CASE ProdRender
      BY <2>6 DEF ProdRender, pipe_halt, producerFrame, flagVars, jobVars, rendVars, mainVars
    <2>7. CASE ProdPublish
      BY <2>7 DEF ProdPublish, producerFrame, flagVars, jobVars, rendVars, mainVars
    <2>8. CASE ProdQuit
      BY <2>8 DEF ProdQuit, Record, producerFrame, flagVars, jobVars, rendVars, mainVars
    <2> QED
      BY <1>1, <2>1, <2>2, <2>3, <2>4, <2>5, <2>6, <2>7, <2>8 DEF Producer
  <1>2. CASE Renderer
    <2>1. CASE RendBegin
      BY <2>1 DEF RendBegin, Record, rendererFrame, flagVars, jobVars, prodVars, mainVars
    <2>2. CASE RendWait
      BY <2>2 DEF RendWait, RendStop, rendererFrame, flagVars, jobVars, prodVars, mainVars
    <2>3. CASE RendDraw
      BY <2>3 DEF RendDraw, rendererFrame, flagVars, jobVars, prodVars, mainVars
    <2>4. CASE RendComplete
      BY <2>4 DEF RendComplete, rendererFrame, flagVars, jobVars, prodVars, mainVars
    <2>5. CASE RendQuit
      BY <2>5 DEF RendQuit, Record, rendererFrame, flagVars, jobVars, prodVars, mainVars
    <2> QED
      BY <1>2, <2>1, <2>2, <2>3, <2>4, <2>5 DEF Renderer
  <1>3. CASE Main
    <2>1. CASE PipeStart
      BY <2>1 DEF PipeStart, End, mainFrame, jobVars, flagVars
    <2>2. CASE PipeAwait
      BY <2>2 DEF PipeAwait, End, mainFrame, jobVars, flagVars
    <2>3. CASE MainLoop
      BY <2>3 DEF MainLoop, mainFrame, jobVars, flagVars
    <2>4. CASE TakeError
      BY <2>4 DEF TakeError, End, mainFrame, jobVars, flagVars
    <2>5. CASE TakeReady
      BY <2>5 DEF TakeReady, End, mainFrame, jobVars, flagVars
    <2>6. CASE TakeNothing
      BY <2>6 DEF TakeNothing, mainFrame, jobVars, flagVars
    <2>7. CASE TakeLook
      BY <2>7 DEF TakeLook, End, pipe_halt, mainFrame, jobVars, flagVars
    <2>8. ASSUME NEW detect \in BOOLEAN, Infer(detect) PROVE WaitOK'
      BY <2>8 DEF Infer, End, mainFrame, jobVars, flagVars
    <2>9. ASSUME NEW detect \in BOOLEAN, InferAndShow(detect) PROVE WaitOK'
      BY <2>9 DEF InferAndShow, End, mainFrame, jobVars, flagVars
    <2>10. CASE PipeRelease
      BY <2>10 DEF PipeRelease, mainFrame, jobVars, flagVars, HoldsOK
    <2>11. CASE PipeSubmit
      BY <2>11 DEF PipeSubmit, End, mainFrame, jobVars, flagVars
    <2>12. CASE PipeFinish
      BY <2>12 DEF PipeFinish, Quiet, mainFrame, jobVars
    <2>13. CASE JoinProducer
      BY <2>13 DEF JoinProducer, mainFrame, jobVars, flagVars
    <2>14. CASE JoinRenderer
      BY <2>14 DEF JoinRenderer, mainFrame, jobVars, flagVars
    <2>15. CASE PipeDestroy
      BY <2>15 DEF PipeDestroy, Quiet, mainFrame, jobVars, flagVars
    <2> QED
      BY <1>3, <2>1, <2>2, <2>3, <2>4, <2>5, <2>6, <2>7, <2>8, <2>9, <2>10, <2>11, <2>12,
         <2>13, <2>14, <2>15 DEF Main
  <1>4. CASE RequestStop
    BY <1>4 DEF RequestStop, slotVars, flagVars, countVars, prodVars, rendVars, mainVars
  <1>5. CASE Expire
    BY <1>5 DEF Expire, slotVars, flagVars, countVars, prodVars, rendVars, mainVars
  <1> QED
    BY <1>0, <1>1, <1>2, <1>3, <1>4, <1>5 DEF Next

\* What a job reports at its end rests on this, in every reachable state.
THEOREM PipeEnd == Spec => []EndInv
  <1>1. Init => EndInv
    <2>1. Init => VerdictOK /\ DrainOK
      BY DEF Init, VerdictOK, DrainOK, Joining
    <2>2. Init => WaitOK
      <3> SUFFICES ASSUME Init PROVE WaitOK
        OBVIOUS
      <3>1. done = FALSE /\ prod = "none" /\ main = "start"
        BY DEF Init
      <3> QED
        BY <3>1 DEF WaitOK, Joining
    <2> QED
      BY <2>1, <2>2, InitIInv DEF EndInv
  <1>2. EndInv /\ [Next]_vars => EndInv'
    <2>1. EndInv /\ [Next]_vars => IInv'
      BY TypeStep, CountsStep, SlotsStep, HoldsStep, ThreadsStep, ScreenStep, ChecksStep
         DEF EndInv, IInv
    <2> QED
      BY <2>1, VerdictStep, DrainStep, WaitStep DEF EndInv
  <1> QED
    BY <1>1, <1>2, PTL DEF Spec

\* No thread's failure is missing from the verdict of a job that is not stopped:
\* pipe_finish joins both threads and pipe_destroy reads `error' after them.
THEOREM NoFailureLost == Spec => []FailureReported
  <1>1. EndInv => FailureReported
    BY DEF EndInv, IInv, VerdictOK, ThreadsOK, FailureReported
  <1> QED
    BY PipeEnd, <1>1, PTL

\* A job that is not stopped and reports success has shown every frame it ran
\* inference on, the ones still queued when it ended included: pipe_finish lets
\* the renderer drain them.
THEOREM QueuedAreShown == Spec => []SuccessShowsAll
  <1>1. EndInv => SuccessShowsAll
    <2> SUFFICES ASSUME EndInv, main = "over", ret = "ok", ~stop_requested
                 PROVE  screen.rgb = mseq - 1 /\ consumed = mseq - 1
      BY DEF SuccessShowsAll
    <2> USE DEF EndInv, IInv
    <2>1. CountsOK /\ ScreenOK /\ produced \in Nat /\ consumed \in Nat /\ submitted \in Nat
          /\ rendered \in Nat /\ mseq \in Nat /\ rseq \in Nat
      BY DEF TypeOK, PipeTypeOK, ThreadTypeOK
    <2>2. CASE ~asynchronous
      BY <2>1, <2>2 DEF CountsOK, DrainOK
    <2>3. CASE asynchronous
      <3>1. error = "ok" /\ drain /\ rend = "ended"
        BY <2>3 DEF VerdictOK, DrainOK, ThreadsOK, Joining
      <3>2. rseq > submitted
        BY <3>1 DEF VerdictOK, DrainOK
      <3> QED
        BY <2>1, <2>3, <3>1, <3>2 DEF CountsOK, ScreenOK
    <2> QED
      BY <2>2, <2>3
  <1> QED
    BY PipeEnd, <1>1, PTL

\* Every frame the producer published is in a slot or was given back, once: the
\* slots in use are those of the frames published and not yet consumed.
THEOREM FramesAddUp == Spec => []Accounting
  <1>1. IInv => Accounting
    <2> SUFFICES ASSUME IInv PROVE Accounting
      OBVIOUS
    <2> DEFINE Used == {i \in Slots : state[i] \notin {"FREE", "WRITING"}}
               f1 == consumed + 1
               f2 == consumed + 2
    <2>1. /\ consumed \in Nat /\ produced \in Nat /\ mseq \in Nat
          /\ consumed <= produced /\ produced <= consumed + 2
          /\ asynchronous => consumed = rendered
      BY DEF IInv, TypeOK, PipeTypeOK, ThreadTypeOK, CountsOK
    <2>2. f1 \in Nat \ {0} /\ f2 = f1 + 1 /\ f1 \in Window /\ f2 \in Window
      BY <2>1 DEF Window
    <2>3. Slots = {Slot(f1), Slot(f2)} /\ Slot(f1) # Slot(f2)
      <3>1. Slot(f1) \in Slots /\ Slot(f2) \in Slots /\ Slot(f2) # Slot(f1)
        BY <2>2, SlotFacts
      <3>2. \A a, b \in Slots : a # b => Slots = {a, b}
        BY DEF Slots
      <3> QED
        BY <3>1, <3>2
    <2>4. \A f \in {f1, f2} : Slot(f) \in Used <=> f <= produced
      <3> SUFFICES ASSUME NEW f \in {f1, f2} PROVE Slot(f) \in Used <=> f <= produced
        OBVIOUS
      <3>1. f \in Window /\ f \in Nat /\ Slot(f) \in Slots
        BY <2>1, <2>2, <2>3
      <3>2. f <= produced => state[Slot(f)] \in {"DRAW_READY", "DRAWING", "READY", "READING"}
        BY <2>1, <3>1 DEF IInv, SlotsOK
      <3>3. f > produced => state[Slot(f)] \in {"FREE", "WRITING"}
        BY <3>1 DEF IInv, SlotsOK
      <3> QED
        BY <2>1, <3>1, <3>2, <3>3
    <2>5. CASE produced = consumed
      <3>1. Used = {}
        BY <2>1, <2>3, <2>4, <2>5
      <3> QED
        BY <2>1, <2>5, <3>1, FS_EmptySet DEF Accounting
    <2>6. CASE produced = consumed + 1
      <3>1. Used = {Slot(f1)}
        BY <2>1, <2>3, <2>4, <2>6
      <3> QED
        BY <2>1, <2>6, <3>1, FS_Singleton DEF Accounting
    <2>7. CASE produced = consumed + 2
      <3>1. Used = Slots
        BY <2>1, <2>3, <2>4, <2>7
      <3> QED
        BY <2>1, <2>7, <3>1, TwoSlots DEF Accounting
    <2> QED
      BY <2>1, <2>5, <2>6, <2>7
  <1> QED
    BY PipeSafety, <1>1, PTL

=============================================================================
