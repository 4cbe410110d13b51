------------------------- MODULE CameraPipeProgress -------------------------
(***************************************************************************)
(* A camera job gets somewhere, for every number of frames: its three      *)
(* threads never all wait for each other over the two slots, and apart     *)
(* from looks at what is not there yet a job takes a bounded number of     *)
(* steps.  With the fairness of FairSpec that is why every job ends; the   *)
(* last inference, over fairness, is left to TLC (JobEnds).                *)
(***************************************************************************)
EXTENDS CameraPipeProofs

-----------------------------------------------------------------------------
(***************************************************************************)
(* No circular wait.                                                       *)
(***************************************************************************)

\* Frames that have been through inference and are not shown yet are the
\* renderer's to draw: if it waits for one, the frame is there.
LEMMA DrawReady ==
  ASSUME EndInv, asynchronous, rend = "wait", rseq < mseq
  PROVE  state[Slot(rseq)] = "DRAW_READY"
  <1>1. rseq = consumed + 1
    BY DEF EndInv, IInv, CountsOK
  <1>2. state[Slot(rseq)] = "DRAW_READY" \/ state[Slot(rseq)] = "DRAWING"
    BY <1>1 DEF EndInv, IInv, SlotsOK, Window
  <1> QED
    BY <1>2 DEF EndInv, IInv, HoldsOK

\* A renderer that has ended left an error, or the job is at its end.
LEMMA RendererGone ==
  ASSUME EndInv, rend = "ended", error = "ok", ~stop_requested
  PROVE  main \in Joining
  <1>1. rr = "ok"
    BY DEF EndInv, VerdictOK
  <1>2. stop \/ inference_done
    BY <1>1 DEF EndInv, DrainOK
  <1> QED
    BY <1>2 DEF EndInv, DrainOK

\* The main task looks for a frame that is not there: then the producer can go
\* on, or the frame's slot is waiting to be drawn and the renderer can.
LEMMA TakeNeverStuck ==
  ASSUME EndInv, main \in {"take", "look"}
  PROVE  ProdCan \/ RendCan \/ MainCan
  <1> SUFFICES ASSUME ~ProdCan, ~RendCan, ~MainCan PROVE FALSE
    OBVIOUS
  <1>1. /\ error = "ok" /\ state[Slot(mseq)] # "READY" /\ ~done /\ ~pipe_halt /\ ~expired
        /\ ~stop_requested /\ main \notin Joining
    BY DEF MainCan, pipe_halt, Joining
  <1>2. prod \in {"wait", "look"} /\ state[Slot(pseq)] # "FREE"
    <2>1. prod # "none"
      BY DEF EndInv, WaitOK, Joining
    <2>2. prod # "ended"
      BY <1>1 DEF EndInv, WaitOK
    <2> QED
      BY <2>1, <2>2 DEF ProdCan
  <1>3. /\ produced \in Nat /\ consumed \in Nat /\ mseq \in Nat \ {0} /\ pseq = produced + 1
        /\ consumed < mseq /\ mseq <= produced + 1 /\ produced <= consumed + 2
    BY DEF EndInv, IInv, CountsOK, TypeOK, PipeTypeOK, ThreadTypeOK
  <1>4. mseq = produced + 1
    <2> SUFFICES ASSUME mseq <= produced PROVE FALSE
      BY <1>3
    <2>1. mseq \in Window
      BY <1>3 DEF Window
    <2>2. state[Slot(mseq)] = "READY" \/ state[Slot(mseq)] = "READING"
      BY <1>3, <2>1 DEF EndInv, IInv, SlotsOK
    <2> QED
      BY <1>1, <2>2 DEF EndInv, IInv, HoldsOK
  <1>5. produced = consumed + 2
    <2> SUFFICES ASSUME produced < consumed + 2 PROVE FALSE
      BY <1>3
    <2>1. pseq \in Window /\ pseq > produced
      BY <1>3, <1>4 DEF Window
    <2>2. state[Slot(pseq)] = "FREE" \/ state[Slot(pseq)] = "WRITING"
      BY <2>1 DEF EndInv, IInv, SlotsOK
    <2> QED
      BY <1>2, <2>2 DEF EndInv, IInv, HoldsOK
  <1>6. asynchronous
    BY <1>3, <1>4, <1>5 DEF EndInv, IInv, CountsOK
  <1>7. rend = "wait"
    <2>1. rend # "none"
      BY <1>1, <1>6 DEF EndInv, DrainOK
    <2>2. rend # "ended"
      BY <1>1, RendererGone
    <2> QED
      BY <2>1, <2>2 DEF RendCan
  <1>8. rseq < mseq
    BY <1>3, <1>4, <1>5, <1>6 DEF EndInv, IInv, CountsOK
  <1> QED
    BY <1>6, <1>7, <1>8, DrawReady DEF RendCan

\* At the end of a job the producer is told to stop and the renderer is told what
\* is left to draw, so both can be waited for.
LEMMA JoinNeverStuck ==
  ASSUME EndInv, main \in {"join", "join_renderer"}
  PROVE  ProdCan \/ RendCan \/ MainCan
  <1>1. stop /\ inference_done
    BY DEF EndInv, WaitOK, Joining
  <1>2. CASE main = "join"
    BY <1>1, <1>2 DEF ProdCan, MainCan, pipe_halt
  <1>3. CASE main = "join_renderer"
    <2> SUFFICES ASSUME rend = "wait", error = "ok", ~RendStop
                 PROVE  state[Slot(rseq)] = "DRAW_READY"
      BY <1>3 DEF RendCan, MainCan
    <2>1. asynchronous
      BY DEF EndInv, IInv, ThreadsOK
    <2>2. rseq < mseq
      BY <1>1, <2>1
         DEF RendStop, EndInv, IInv, CountsOK, TypeOK, PipeTypeOK, ThreadTypeOK
    <2> QED
      BY <2>1, <2>2, DrawReady
  <1> QED
    BY <1>2, <1>3

\* The three threads never all wait for each other: worker(), pipe_producer and
\* pipe_renderer over pipe_slot_s, with any number of frames and whatever fails.
THEOREM NeverAllWait == Spec => []NoCircularWait
  <1>1. EndInv => NoCircularWait
    <2> SUFFICES ASSUME EndInv, main \notin {"held", "over"}
                 PROVE  ProdCan \/ RendCan \/ MainCan
      BY DEF NoCircularWait
    <2>1. CASE main \in {"take", "look"}
      BY <2>1, TakeNeverStuck
    <2>2. CASE main \in {"join", "join_renderer"}
      BY <2>2, JoinNeverStuck
    <2>3. CASE main = "await"
      <3>1. rend = "begin" => RendCan
        BY DEF RendCan
      <3>2. rend # "begin" => MainCan
        BY <2>3 DEF MainCan, EndInv, WaitOK
      <3> QED
        BY <3>1, <3>2
    <2>4. CASE main \notin {"take", "look", "join", "join_renderer", "await"}
      BY <2>4 DEF MainCan
    <2> QED
      BY <2>1, <2>2, <2>3, <2>4
  <1> QED
    BY PipeEnd, <1>1, PTL

-----------------------------------------------------------------------------
(***************************************************************************)
(* Every step counts.                                                      *)
(***************************************************************************)

\* The places of the producer, as numbers.
LEMMA ProdPlaces ==
  /\ ProdPlace["none"] = 8 /\ ProdPlace["bind"] = 7 /\ ProdPlace["next"] = 6
  /\ ProdPlace["wait"] = 5 /\ ProdPlace["look"] = 5 /\ ProdPlace["capture"] = 4
  /\ ProdPlace["render"] = 3 /\ ProdPlace["publish"] = 2 /\ ProdPlace["quit"] = 1
  /\ ProdPlace["ended"] = 0
  BY DEF ProdPlace

\* The places of the renderer, as numbers.
LEMMA RendPlaces ==
  /\ RendPlace["none"] = 6 /\ RendPlace["begin"] = 5 /\ RendPlace["wait"] = 4
  /\ RendPlace["draw"] = 3 /\ RendPlace["complete"] = 2 /\ RendPlace["quit"] = 1
  /\ RendPlace["ended"] = 0
  BY DEF RendPlace

\* The places of the main task, as numbers.
LEMMA MainPlaces ==
  /\ MainPlace["start"] = 10 /\ MainPlace["await"] = 9 /\ MainPlace["loop"] = 8
  /\ MainPlace["take"] = 7 /\ MainPlace["look"] = 7 /\ MainPlace["work"] = 6
  /\ MainPlace["hand"] = 5 /\ MainPlace["end"] = 4 /\ MainPlace["join"] = 3
  /\ MainPlace["join_renderer"] = 2 /\ MainPlace["destroy"] = 1 /\ MainPlace["held"] = 0
  /\ MainPlace["over"] = 0
  BY DEF MainPlace

\* What each thread still has to do is a number, and never less than nothing.
LEMMA ToDoNat ==
  IInv => ProdToDo \in Nat /\ RendToDo \in Nat /\ MainToDo \in Nat /\ Awaited \in Nat
  <1> SUFFICES ASSUME IInv
               PROVE  ProdToDo \in Nat /\ RendToDo \in Nat /\ MainToDo \in Nat /\ Awaited \in Nat
    OBVIOUS
  <1> USE FramesAssumption DEF IInv, TypeOK, PipeTypeOK, ThreadTypeOK
  <1>1. MaxFrames - produced \in Nat /\ MaxFrames - rendered \in Nat /\ MaxFrames + 1 - mseq \in Nat
    BY DEF CountsOK
  <1>2. ProdPlace[prod] \in Nat
    BY ProdPlaces
  <1>3. RendPlace[rend] \in Nat
    BY RendPlaces
  <1>4. MainPlace[main] \in Nat
    BY MainPlaces
  <1>5. Awaited \in Nat
    BY DEF Awaited
  <1> QED
    BY <1>1, <1>2, <1>3, <1>4, <1>5 DEF ProdToDo, RendToDo, MainToDo

\* A thread's part depends on its own place and count only.
LEMMA ToDoSame ==
  /\ UNCHANGED <<produced, prod>> => ProdToDo' = ProdToDo
  /\ UNCHANGED <<rendered, rend>> => RendToDo' = RendToDo
  /\ UNCHANGED <<mseq, main>> => MainToDo' = MainToDo
  /\ UNCHANGED <<stop_requested, expired>> => Awaited' = Awaited
  BY DEF ProdToDo, RendToDo, MainToDo, Awaited

\* The producer gets on, or looks.
LEMMA ProdCounts == IInv /\ Producer => Poll \/ ProdToDo' < ProdToDo
  <1> SUFFICES ASSUME IInv, Producer PROVE Poll \/ ProdToDo' < ProdToDo
    OBVIOUS
  <1> DEFINE Left == MaxFrames - produced
  <1>t. Left \in Int /\ produced \in Nat /\ MaxFrames \in Nat
    BY FramesAssumption DEF IInv, TypeOK, PipeTypeOK
  <1>s. /\ ProdToDo = 8 * Left + ProdPlace[prod]
        /\ produced' = produced => ProdToDo' = 8 * Left + ProdPlace[prod']
        /\ produced' = produced + 1 => ProdToDo' = 8 * (Left - 1) + ProdPlace[prod']
    BY <1>t DEF ProdToDo
  <1> HIDE DEF Left
  <1> USE ProdPlaces
  <1>1. CASE ProdBind \/ ProdNext \/ ProdCapture \/ ProdRender \/ ProdQuit
    <2>1. /\ produced' = produced
          /\ \/ prod = "bind" /\ prod' \in {"next", "quit"}
             \/ prod = "next" /\ prod' \in {"quit", "wait"}
             \/ prod = "capture" /\ prod' \in {"render", "quit"}
             \/ prod = "render" /\ prod' \in {"publish", "quit"}
             \/ prod = "quit" /\ prod' = "ended"
      BY <1>1 DEF ProdBind, ProdNext, ProdCapture, ProdRender, ProdQuit
    <2> QED
      BY <1>t, <1>s, <2>1
  <1>2. CASE ProdClaim
    <2>1. CASE state[Slot(pseq)] = "FREE"
      <3>1. prod = "wait" /\ prod' = "capture" /\ produced' = produced
        BY <1>2, <2>1 DEF ProdClaim
      <3> QED
        BY <1>t, <1>s, <3>1
    <2>2. CASE state[Slot(pseq)] # "FREE"
      BY <1>2, <2>2 DEF ProdClaim, Poll, slotVars, countVars, producerFrame, mainVars
    <2> QED
      BY <2>1, <2>2
  <1>3. CASE ProdLook
    <2>1. CASE prod' = "quit"
      <3>1. prod = "look" /\ produced' = produced
        BY <1>3 DEF ProdLook
      <3> QED
        BY <1>t, <1>s, <2>1, <3>1
    <2>2. CASE prod' = "wait" /\ pr' = pr
      BY <1>3, <2>2 DEF ProdLook, Poll, slotVars, countVars, producerFrame, mainVars
    <2> QED
      BY <1>3, <2>1, <2>2 DEF ProdLook
  <1>4. CASE ProdPublish
    <2>1. /\ prod = "publish"
          /\ \/ prod' = "quit" /\ produced' = produced
             \/ prod' = "next" /\ produced' = produced + 1
      BY <1>4 DEF ProdPublish
    <2> QED
      BY <1>t, <1>s, <2>1
  <1> QED
    BY <1>1, <1>2, <1>3, <1>4 DEF Producer

\* The renderer gets on: it has no look that changes nothing.
LEMMA RendCounts == IInv /\ Renderer => RendToDo' < RendToDo
  <1> SUFFICES ASSUME IInv, Renderer PROVE RendToDo' < RendToDo
    OBVIOUS
  <1> DEFINE Left == MaxFrames - rendered
  <1>t. Left \in Int /\ rendered \in Nat /\ MaxFrames \in Nat
    BY FramesAssumption DEF IInv, TypeOK, PipeTypeOK
  <1>s. /\ RendToDo = 3 * Left + RendPlace[rend]
        /\ rendered' = rendered => RendToDo' = 3 * Left + RendPlace[rend']
        /\ rendered' = rendered + 1 => RendToDo' = 3 * (Left - 1) + RendPlace[rend']
    BY <1>t DEF RendToDo
  <1> HIDE DEF Left
  <1>1. \/ /\ rendered' = rendered
           /\ \/ rend = "begin" /\ rend' \in {"wait", "quit"}
              \/ rend = "wait" /\ rend' \in {"draw", "quit"}
              \/ rend = "draw" /\ rend' \in {"complete", "quit"}
              \/ rend = "complete" /\ rend' = "quit"
              \/ rend = "quit" /\ rend' = "ended"
        \/ rend = "complete" /\ rend' = "wait" /\ rendered' = rendered + 1
    BY DEF Renderer, RendBegin, RendWait, RendDraw, RendComplete, RendQuit
  <1> QED
    BY <1>t, <1>s, <1>1, RendPlaces

\* The main task gets on, or looks; it also sets the others going.
LEMMA MainCounts == IInv /\ Main => Poll \/ MainToDo' < MainToDo
  <1> SUFFICES ASSUME IInv, Main PROVE Poll \/ MainToDo' < MainToDo
    OBVIOUS
  <1> DEFINE Left == MaxFrames + 1 - mseq
  <1>t. Left \in Int /\ mseq \in Nat /\ MaxFrames \in Nat
    BY FramesAssumption DEF IInv, TypeOK, ThreadTypeOK
  <1>s. /\ MainToDo = 4 * Left + MainPlace[main]
        /\ mseq' = mseq => MainToDo' = 4 * Left + MainPlace[main']
        /\ mseq' = mseq + 1 => MainToDo' = 4 * (Left - 1) + MainPlace[main']
    BY <1>t DEF MainToDo
  <1> HIDE DEF Left
  <1>1. CASE PipeStart \/ PipeAwait \/ MainLoop \/ TakeError \/ TakeReady
            \/ (\E detect \in BOOLEAN : Infer(detect) \/ InferAndShow(detect))
            \/ PipeFinish \/ JoinProducer \/ JoinRenderer \/ PipeDestroy
    <2>1. /\ mseq' = mseq
          /\ \/ main = "start" /\ main' \in {"await", "loop", "end"}
             \/ main = "await" /\ main' \in {"loop", "end"}
             \/ main = "loop" /\ main' \in {"take", "end"}
             \/ main = "take" /\ main' \in {"work", "end"}
             \/ main = "work" /\ main' \in {"hand", "end"}
             \/ main = "end" /\ main' = "join"
             \/ main = "join" /\ main' \in {"join_renderer", "held"}
             \/ main = "join_renderer" /\ main' \in {"destroy", "held"}
             \/ main = "destroy" /\ main' = "over"
      BY <1>1 DEF PipeStart, PipeAwait, MainLoop, TakeError, TakeReady, Infer, InferAndShow,
           PipeFinish, JoinProducer, JoinRenderer, PipeDestroy, End
    <2> QED
      BY <1>t, <1>s, <2>1, MainPlaces
  <1>2. CASE TakeNothing
    <2>1. CASE main' = "end"
      <3>1. main = "take" /\ mseq' = mseq
        BY <1>2 DEF TakeNothing
      <3> QED
        BY <1>t, <1>s, <2>1, <3>1, MainPlaces
    <2>2. CASE main' = "look"
      BY <1>2, <2>2 DEF TakeNothing, Poll, mainFrame, slotVars, countVars, jobVars, rendVars
    <2> QED
      BY <1>2, <2>1, <2>2 DEF TakeNothing
  <1>3. CASE TakeLook
    <2>1. CASE main' = "end"
      <3>1. main = "look" /\ mseq' = mseq
        BY <1>3 DEF TakeLook
      <3> QED
        BY <1>t, <1>s, <2>1, <3>1, MainPlaces
    <2>2. CASE main' = "take" /\ ret' = ret
      BY <1>3, <2>2 DEF TakeLook, Poll, mainFrame, slotVars, countVars, jobVars, rendVars
    <2> QED
      BY <1>3, <2>1, <2>2 DEF TakeLook, End
  <1>4. CASE PipeRelease \/ PipeSubmit
    <2>1. /\ main = "hand"
          /\ \/ main' = "loop" /\ mseq' = mseq + 1
             \/ main' = "end" /\ mseq' = mseq
      BY <1>4 DEF PipeRelease, PipeSubmit, End
    <2> QED
      BY <1>t, <1>s, <2>1, MainPlaces
  <1> QED
    BY <1>1, <1>2, <1>3, <1>4 DEF Main

\* What the main task does to the others' parts: at most it starts them.
LEMMA MainStarts == IInv /\ Main => ProdToDo' <= ProdToDo /\ RendToDo' <= RendToDo
  <1> SUFFICES ASSUME IInv, Main PROVE ProdToDo' <= ProdToDo /\ RendToDo' <= RendToDo
    OBVIOUS
  <1>t. ProdToDo \in Nat /\ RendToDo \in Nat
    BY ToDoNat
  <1>1. /\ UNCHANGED <<produced, rendered>>
        /\ prod' = prod \/ (prod = "none" /\ prod' = "bind")
        /\ rend' = rend \/ (rend = "none" /\ rend' = "begin")
    <2>1. CASE PipeStart
      BY <2>1 DEF PipeStart, mainFrame, End, IInv, ThreadsOK
    <2>2. CASE PipeAwait
      BY <2>2 DEF PipeAwait, mainFrame, End, IInv, ThreadsOK
    <2>3. CASE ~PipeStart /\ ~PipeAwait
      BY <2>3 DEF Main, MainLoop, TakeError, TakeReady, TakeNothing, TakeLook, Infer,
           InferAndShow, PipeRelease, PipeSubmit, PipeFinish, JoinProducer, JoinRenderer,
           PipeDestroy, mainFrame
    <2> QED
      BY <2>1, <2>2, <2>3
  <1>2. ProdToDo' <= ProdToDo
    <2>1. CASE prod' = prod
      BY <1>t, <1>1, <2>1, ToDoSame
    <2>2. CASE prod = "none" /\ prod' = "bind"
      BY <1>1, <2>2, ProdPlaces, FramesAssumption DEF ProdToDo, IInv, TypeOK, PipeTypeOK
    <2> QED
      BY <1>1, <2>1, <2>2
  <1>3. RendToDo' <= RendToDo
    <2>1. CASE rend' = rend
      BY <1>t, <1>1, <2>1, ToDoSame
    <2>2. CASE rend = "none" /\ rend' = "begin"
      BY <1>1, <2>2, RendPlaces, FramesAssumption DEF RendToDo, IInv, TypeOK, PipeTypeOK
    <2> QED
      BY <1>1, <2>1, <2>2
  <1> QED
    BY <1>2, <1>3

\* A sum gets smaller with any of its parts if none gets larger.
LEMMA LessInAll ==
  \A a, b, c, d, e, f, g, h \in Nat :
    e <= a /\ f <= b /\ g <= c /\ h <= d /\ (e < a \/ f < b \/ g < c \/ h < d)
    => e + f + g + h < a + b + c + d /\ e + f + g + h \in Nat
  OBVIOUS

\* Every step but a look leaves less to do.
LEMMA StepCounts == IInv /\ IInv' /\ Next => Poll \/ (ToDo' < ToDo /\ ToDo' \in Nat)
  <1> SUFFICES ASSUME IInv, IInv', Next, ~Poll PROVE ToDo' < ToDo /\ ToDo' \in Nat
    OBVIOUS
  <1>1. ProdToDo \in Nat /\ RendToDo \in Nat /\ MainToDo \in Nat /\ Awaited \in Nat
    BY ToDoNat
  <1>2. ProdToDo' \in Nat /\ RendToDo' \in Nat /\ MainToDo' \in Nat /\ Awaited' \in Nat
    <2>1. IInv' => (ProdToDo \in Nat /\ RendToDo \in Nat /\ MainToDo \in Nat /\ Awaited \in Nat)'
      BY ToDoNat, PTL
    <2> QED
      BY <2>1
  <1>t. /\ ToDo = ProdToDo + RendToDo + MainToDo + Awaited
        /\ ToDo' = ProdToDo' + RendToDo' + MainToDo' + Awaited'
    BY DEF ToDo
  <1>3. CASE Producer
    <2>1. UNCHANGED <<rendered, rend, mseq, main, stop_requested, expired>>
      BY <1>3 DEF Producer, ProdBind, ProdNext, ProdClaim, ProdLook, ProdCapture, ProdRender,
           ProdPublish, ProdQuit, producerFrame, jobVars, rendVars, mainVars
    <2>2. ProdToDo' < ProdToDo
      BY <1>3, ProdCounts
    <2>3. RendToDo' <= RendToDo /\ MainToDo' <= MainToDo /\ Awaited' <= Awaited
      BY <1>1, <2>1, ToDoSame
    <2>q. ProdToDo' <= ProdToDo /\ RendToDo' <= RendToDo /\ MainToDo' <= MainToDo /\ Awaited' <= Awaited
      BY <1>1, <1>2, <2>2, <2>3
    <2> QED
      BY <1>1, <1>2, <1>t, <2>2, <2>q, LessInAll
  <1>4. CASE Renderer
    <2>1. UNCHANGED <<produced, prod, mseq, main, stop_requested, expired>>
      BY <1>4 DEF Renderer, RendBegin, RendWait, RendDraw, RendComplete, RendQuit,
           rendererFrame, jobVars, prodVars, mainVars
    <2>2. RendToDo' < RendToDo
      BY <1>4, RendCounts
    <2>3. ProdToDo' <= ProdToDo /\ MainToDo' <= MainToDo /\ Awaited' <= Awaited
      BY <1>1, <2>1, ToDoSame
    <2>q. ProdToDo' <= ProdToDo /\ RendToDo' <= RendToDo /\ MainToDo' <= MainToDo /\ Awaited' <= Awaited
      BY <1>1, <1>2, <2>2, <2>3
    <2> QED
      BY <1>1, <1>2, <1>t, <2>2, <2>q, LessInAll
  <1>5. CASE Main
    <2>1. UNCHANGED <<stop_requested, expired>>
      BY <1>5 DEF Main, PipeStart, PipeAwait, MainLoop, TakeError, TakeReady, TakeNothing,
           TakeLook, Infer, InferAndShow, PipeRelease, PipeSubmit, PipeFinish, JoinProducer,
           JoinRenderer, PipeDestroy, mainFrame, jobVars
    <2>2. MainToDo' < MainToDo
      BY <1>5, MainCounts
    <2>3. ProdToDo' <= ProdToDo /\ RendToDo' <= RendToDo
      BY <1>5, MainStarts
    <2>4. Awaited' <= Awaited
      BY <1>1, <2>1, ToDoSame
    <2>q. ProdToDo' <= ProdToDo /\ RendToDo' <= RendToDo /\ MainToDo' <= MainToDo /\ Awaited' <= Awaited
      BY <1>1, <1>2, <2>2, <2>3, <2>4
    <2> QED
      BY <1>1, <1>2, <1>t, <2>2, <2>q, LessInAll
  <1>6. CASE RequestStop \/ Expire
    <2>1. UNCHANGED <<produced, prod, rendered, rend, mseq, main>>
      BY <1>6 DEF RequestStop, Expire, countVars, prodVars, rendVars, mainVars
    <2>2. Awaited' < Awaited
      BY <1>6 DEF RequestStop, Expire, Awaited
    <2>3. ProdToDo' <= ProdToDo /\ RendToDo' <= RendToDo /\ MainToDo' <= MainToDo
      BY <1>1, <2>1, ToDoSame
    <2>q. ProdToDo' <= ProdToDo /\ RendToDo' <= RendToDo /\ MainToDo' <= MainToDo /\ Awaited' <= Awaited
      BY <1>1, <1>2, <2>2, <2>3
    <2> QED
      BY <1>1, <1>2, <1>t, <2>2, <2>q, LessInAll
  <1> QED
    BY <1>3, <1>4, <1>5, <1>6 DEF Next

\* A job takes a bounded number of steps apart from looks: the loops of worker(),
\* pipe_producer and pipe_renderer go through no frame twice and try no failure
\* again, for any number of frames.
THEOREM JobShrinks == Spec => EveryStepCounts
  <1> DEFINE Counts == Poll \/ (ToDo' < ToDo /\ ToDo' \in Nat)
  <1>1. IInv /\ IInv' /\ [Next]_vars => [Counts]_vars
    BY StepCounts
  <1> QED
    BY PipeSafety, <1>1, PTL DEF Spec, EveryStepCounts

=============================================================================
