---------------------------- MODULE McuLinkProofs ----------------------------
(***************************************************************************)
(* Proofs about McuLink for every number of callers, every length of the   *)
(* wire and every deadline.                                                *)
(***************************************************************************)
EXTENDS McuLink, SequenceTheorems, TLAPS

USE DEF Forever, NoFrame, Bit, Motion, Queries, Tags

-----------------------------------------------------------------------------
(* The wire.                                                                *)

\* A frame is put at the end of a direction or dropped when it is full.
LEMMA PutFacts ==
  ASSUME NEW S, NEW ch \in Seq(S), NEW f \in S, NEW cap \in Nat
  PROVE  /\ Put(ch, cap, f) \in Seq(S)
         /\ \A i \in DOMAIN Put(ch, cap, f) :
              \/ i \in DOMAIN ch /\ Put(ch, cap, f)[i] = ch[i]
              \/ i = Len(ch) + 1 /\ i \notin DOMAIN ch /\ Put(ch, cap, f)[i] = f
  BY SMT DEF Put

\* Giving a number out again keeps the length and the kind of every frame.
LEMMA OutdateUp ==
  ASSUME NEW ch \in Seq(UpFrames), NEW t \in Tags
  PROVE  /\ Outdate(ch, t) \in Seq(UpFrames)
         /\ DOMAIN Outdate(ch, t) = DOMAIN ch
         /\ \A i \in DOMAIN ch :
              IF ch[i].tag = t THEN Outdate(ch, t)[i].tag = "old" ELSE Outdate(ch, t)[i] = ch[i]
  <1>1. DOMAIN Outdate(ch, t) = DOMAIN ch
    BY DEF Outdate
  <1>2. \A i \in DOMAIN ch : ch[i] \in UpFrames
    BY SMT
  <1>3. \A i \in DOMAIN ch : Outdate(ch, t)[i] \in UpFrames
    BY <1>2, SMT DEF Outdate, UpFrames
  <1>4. Outdate(ch, t) \in Seq(UpFrames)
    <2>1. PICK n \in Nat : DOMAIN ch = 1..n
      BY SMT
    <2>2. Outdate(ch, t) \in [1..n -> UpFrames]
      BY <2>1, <1>3, SMT DEF Outdate
    <2> QED
      BY <2>2, SeqDef
  <1>5. \A i \in DOMAIN ch :
          IF ch[i].tag = t THEN Outdate(ch, t)[i].tag = "old" ELSE Outdate(ch, t)[i] = ch[i]
    BY <1>2, SMT DEF Outdate, UpFrames
  <1> QED
    BY <1>1, <1>4, <1>5

\* A frame whose tag has become old is still a frame.
LEMMA OldDownFrame ==
  ASSUME NEW f \in DownFrames
  PROVE  [f EXCEPT !.tag = "old"] \in DownFrames
  BY DEF DownFrames

\* Outdate on the way down makes the frames with the tag old and leaves the others.
LEMMA OutdateDown ==
  ASSUME NEW ch \in Seq(DownFrames), NEW t \in Tags
  PROVE  /\ Outdate(ch, t) \in Seq(DownFrames)
         /\ DOMAIN Outdate(ch, t) = DOMAIN ch
         /\ \A i \in DOMAIN ch :
              IF ch[i].tag = t THEN Outdate(ch, t)[i].tag = "old" ELSE Outdate(ch, t)[i] = ch[i]
  <1>1. DOMAIN Outdate(ch, t) = DOMAIN ch
    BY DEF Outdate
  <1>2. \A i \in DOMAIN ch : ch[i] \in DownFrames
    BY SMT
  <1>3. \A i \in DOMAIN ch : Outdate(ch, t)[i] \in DownFrames
    <2> TAKE i \in DOMAIN ch
    <2>1. [ch[i] EXCEPT !.tag = "old"] \in DownFrames
      BY <1>2, OldDownFrame
    <2> QED
      BY <2>1, <1>2 DEF Outdate
  <1>4. Outdate(ch, t) \in Seq(DownFrames)
    <2>1. PICK n \in Nat : DOMAIN ch = 1..n
      BY SMT
    <2>2. Outdate(ch, t) \in [1..n -> DownFrames]
      BY <2>1, <1>3, SMT DEF Outdate
    <2> QED
      BY <2>2, SeqDef
  <1>5. \A i \in DOMAIN ch :
          IF ch[i].tag = t THEN Outdate(ch, t)[i].tag = "old" ELSE Outdate(ch, t)[i] = ch[i]
    BY <1>2, SMT DEF Outdate, DownFrames
  <1> QED
    BY <1>1, <1>4, <1>5

\* The head and the tail of a direction that is not empty.
LEMMA TailFacts ==
  ASSUME NEW S, NEW ch \in Seq(S), ch # <<>>
  PROVE  /\ Head(ch) \in S /\ Head(ch) = ch[1] /\ 1 \in DOMAIN ch
         /\ Tail(ch) \in Seq(S)
         /\ \A i \in DOMAIN Tail(ch) : i + 1 \in DOMAIN ch /\ Tail(ch)[i] = ch[i + 1]
  BY SMT

-----------------------------------------------------------------------------
(* Types.                                                                   *)

\* A frame the controller sends, and a frame it reads, are well formed.
LEMMA ReplyType ==
  ASSUME NEW f \in UpFrames, NEW k \in Replies
  PROVE  Reply(k, f) \in DownFrames
  BY BoundsAssumption DEF Reply, UpFrames, DownFrames

\* Every broadcast of the controller is a frame.
LEMMA EventType ==
  ASSUME NEW k \in Events
  PROVE  Event(k) \in DownFrames
  BY BoundsAssumption DEF Event, Reply, DownFrames

\* A deadline with ticks left stays one.
LEMMA LessType ==
  ASSUME NEW b \in Nat, NEW n \in 0..b
  PROVE  Less(n) \in 0..b
  BY SMT DEF Less

\* A frame with the fields the controller fills in, and what is left of the
\* direction it is sent in.
LEMMA FilledPong ==
  ASSUME NEW f \in DownFrames, NEW u \in 0..MaxUptime, NEW b \in Bit, NEW x \in Bit
  PROVE  [f EXCEPT !.uptime = u, !.config = b, !.fault = x] \in DownFrames
  BY DEF DownFrames

\* The same, one field at a time.
LEMMA FilledFrame ==
  ASSUME NEW f \in DownFrames, NEW b \in Bit
  PROVE  [f EXCEPT !.config = b] \in DownFrames /\ [f EXCEPT !.fault = b] \in DownFrames
  <1>1. [f EXCEPT !.config = b] \in DownFrames
    BY DEF DownFrames
  <1>2. [f EXCEPT !.fault = b] \in DownFrames
    BY DEF DownFrames
  <1> QED
    BY <1>1, <1>2

\* What the controller tells keeps the channel's type.
LEMMA TellType ==
  ASSUME NEW r \in DownFrames, Tell(r), down \in Seq(DownFrames)
  PROVE  down' \in Seq(DownFrames)
  BY BoundsAssumption, PutFacts DEF Tell

\* A group of variables that does not change keeps its type.
LEMMA FrameTypes ==
  /\ PermitTypeOK /\ UNCHANGED permitVars => PermitTypeOK'
  /\ HealthTypeOK /\ UNCHANGED healthVars => HealthTypeOK'
  /\ JobTypeOK /\ UNCHANGED jobVars => JobTypeOK'
  /\ CallTypeOK /\ UNCHANGED callVars => CallTypeOK'
  /\ WireTypeOK /\ UNCHANGED <<up, down>> => WireTypeOK'
  /\ McuTypeOK /\ UNCHANGED mcuVars => McuTypeOK'
  /\ HistTypeOK /\ UNCHANGED histVars => HistTypeOK'
  <1>1. PermitTypeOK /\ UNCHANGED permitVars => PermitTypeOK'
    BY DEF PermitTypeOK, permitVars
  <1>2. HealthTypeOK /\ UNCHANGED healthVars => HealthTypeOK'
    BY DEF HealthTypeOK, healthVars
  <1>3. JobTypeOK /\ UNCHANGED jobVars => JobTypeOK'
    BY DEF JobTypeOK, jobVars
  <1>4. CallTypeOK /\ UNCHANGED callVars => CallTypeOK'
    BY DEF CallTypeOK, callVars
  <1>5. WireTypeOK /\ UNCHANGED <<up, down>> => WireTypeOK'
    BY DEF WireTypeOK
  <1>6. McuTypeOK /\ UNCHANGED mcuVars => McuTypeOK'
    BY DEF McuTypeOK, mcuVars
  <1>7. HistTypeOK /\ UNCHANGED histVars => HistTypeOK'
    BY DEF HistTypeOK, histVars
  <1> QED
    BY <1>1, <1>2, <1>3, <1>4, <1>5, <1>6, <1>7

\* The initial state has the right types.
LEMMA InitType == Init => TypeOK
  <1> SUFFICES ASSUME Init PROVE TypeOK
    OBVIOUS
  <1> USE BoundsAssumption
  <1>1. PermitTypeOK /\ HealthTypeOK
    <2>1. armed \in BOOLEAN /\ urgent \in BOOLEAN /\ desktop_inhibit \in BOOLEAN
      BY DEF Init, PermitTypeOK, HealthTypeOK
    <2>2. lease \in 0..Forever
      BY SMT DEF Init, PermitTypeOK, HealthTypeOK
    <2>3. seen \in BOOLEAN
      BY DEF Init, PermitTypeOK, HealthTypeOK
    <2>4. pongAge \in 0..(FreshTicks + 1)
      BY SMT DEF Init, PermitTypeOK, HealthTypeOK
    <2>5. uptime \in 0..MaxUptime
      BY SMT DEF Init, PermitTypeOK, HealthTypeOK
    <2>6. config \in Bit /\ fault \in Bit
      BY DEF Init, PermitTypeOK, HealthTypeOK
    <2> QED
      BY <2>1, <2>2, <2>3, <2>4, <2>5, <2>6 DEF PermitTypeOK, HealthTypeOK
  <1>2. JobTypeOK /\ WorkerTypeOK
    <2>1. pending \in BOOLEAN /\ sent \in BOOLEAN /\ done \in BOOLEAN
      BY DEF Init, JobTypeOK, WorkerTypeOK, Results, AllOps
    <2>2. result \in Results /\ command \in AllOps
      BY DEF Init, JobTypeOK, WorkerTypeOK, Results, AllOps
    <2>3. jobLeft \in 0..JobTicks
      BY SMT DEF Init, JobTypeOK, WorkerTypeOK, Results, AllOps
    <2>4. ready \in BOOLEAN /\ quit \in BOOLEAN /\ desktop \in BOOLEAN
      BY DEF Init, JobTypeOK, WorkerTypeOK, Results, AllOps
    <2>5. pingLeft \in 0..PingTicks
      BY SMT DEF Init, JobTypeOK, WorkerTypeOK, Results, AllOps
    <2>6. /\ wpc \in {"none", "boot", "loop", "rx", "write", "exit", "last"}
          /\ hand \in UpFrames \cup {NoFrame}
      BY DEF Init, JobTypeOK, WorkerTypeOK, Results, AllOps
    <2> QED
      BY <2>1, <2>2, <2>3, <2>4, <2>5, <2>6 DEF JobTypeOK, WorkerTypeOK
  <1>3. CallTypeOK
    BY DEF Init, CallTypeOK, AllOps
  <1>4. WireTypeOK
    BY EmptySeq DEF Init, WireTypeOK
  <1>5. McuTypeOK /\ HistTypeOK
    <2>1. mcuUptime \in 0..MaxUptime
      BY SMT DEF Init, McuTypeOK, HistTypeOK
    <2>2. mcuConfig \in Bit /\ mcuFault \in Bit
      BY DEF Init, McuTypeOK, HistTypeOK
    <2>3. acted \in 0..2
      BY SMT DEF Init, McuTypeOK, HistTypeOK
    <2>4. overruled \in BOOLEAN
      BY DEF Init, McuTypeOK, HistTypeOK
    <2> QED
      BY <2>1, <2>2, <2>3, <2>4 DEF McuTypeOK, HistTypeOK
  <1> QED
    BY <1>1, <1>2, <1>3, <1>4, <1>5 DEF TypeOK

\* receive() keeps the types of what it writes.
LEMMA ReceiveTypes ==
  ASSUME TypeOK, NEW f \in DownFrames,
         \/ OnEvent(f) \/ OnPong(f) \/ OnData(f) \/ OnAck(f)
         \/ Discards(f) /\ UNCHANGED <<permitVars, healthVars, done, result>>
  PROVE  PermitTypeOK' /\ HealthTypeOK' /\ done' \in BOOLEAN /\ result' \in Results
  <1> USE BoundsAssumption
  <1>1. CASE OnEvent(f)
    <2>1. PermitTypeOK'
      BY <1>1, SMT DEF OnEvent, Disarm, SetArmed, TypeOK, PermitTypeOK
    <2>2. HealthTypeOK'
      BY <1>1, SMT DEF OnEvent, TypeOK, HealthTypeOK, DownFrames
    <2>3. done' \in BOOLEAN /\ result' \in Results
      BY <1>1, SMT DEF OnEvent, Finish, TypeOK, JobTypeOK, Results
    <2> QED
      BY <2>1, <2>2, <2>3
  <1>2. CASE OnPong(f)
    <2>1. PermitTypeOK'
      BY <1>2, SMT DEF OnPong, Disarm, SetArmed, TypeOK, PermitTypeOK
    <2>2. HealthTypeOK'
      BY <1>2, SMT DEF OnPong, TypeOK, HealthTypeOK, DownFrames
    <2>3. done' \in BOOLEAN /\ result' \in Results
      BY <1>2, SMT DEF OnPong, Finish, TypeOK, JobTypeOK, Results
    <2> QED
      BY <2>1, <2>2, <2>3
  <1>3. CASE OnData(f)
    <2>1. PermitTypeOK'
      BY <1>3, SMT DEF OnData, Disarm, SetArmed, TypeOK, PermitTypeOK
    <2>2. HealthTypeOK'
      BY <1>3, SMT DEF OnData, TypeOK, HealthTypeOK, DownFrames
    <2>3. done' \in BOOLEAN /\ result' \in Results
      BY <1>3, SMT DEF OnData, Finish, TypeOK, JobTypeOK, Results
    <2> QED
      BY <2>1, <2>2, <2>3
  <1>4. CASE OnAck(f)
    <2>1. PermitTypeOK'
      BY <1>4, SMT DEF OnAck, Disarm, SetArmed, TypeOK, PermitTypeOK
    <2>2. HealthTypeOK'
      BY <1>4, FrameTypes DEF OnAck, TypeOK
    <2>3. done' \in BOOLEAN /\ result' \in Results
      BY <1>4, SMT DEF OnAck, Finish, TypeOK, JobTypeOK, Results
    <2> QED
      BY <2>1, <2>2, <2>3
  <1>5. CASE UNCHANGED <<permitVars, healthVars, done, result>>
    BY <1>5, FrameTypes DEF TypeOK, JobTypeOK
  <1> QED
    BY <1>1, <1>2, <1>3, <1>4, <1>5

\* The controller keeps the types of what it writes.
LEMMA McuTypes ==
  ASSUME TypeOK, NEW f \in UpFrames,
         McuPing(f) \/ McuQuery(f) \/ McuObey(f) \/ McuRefuse(f), UNCHANGED linkVars
  PROVE  down' \in Seq(DownFrames) /\ acted' \in 0..2 /\ McuTypeOK'
  <1>1. \A k \in Replies : Reply(k, f) \in DownFrames
    BY ReplyType
  <1>2. \A r \in DownFrames : Tell(r) => down' \in Seq(DownFrames)
    BY TellType DEF TypeOK, WireTypeOK
  <1>3. Act(f) => acted' \in 0..2
    BY SMT DEF Act, TypeOK, HistTypeOK
  <1>4. CASE McuPing(f)
    <2>1. [Reply("pong", f) EXCEPT !.uptime = mcuUptime, !.config = mcuConfig, !.fault = mcuFault]
            \in DownFrames
      BY <1>1, FilledPong DEF Replies, TypeOK, McuTypeOK
    <2> QED
      BY <1>2, <1>3, <1>4, <2>1, FrameTypes DEF McuPing, TypeOK
  <1>5. CASE McuQuery(f)
    <2>1. /\ [Reply("cfg", f) EXCEPT !.config = mcuConfig] \in DownFrames
          /\ [Reply("stat", f) EXCEPT !.fault = mcuFault] \in DownFrames
          /\ [Reply("alarm", f) EXCEPT !.fault = mcuFault] \in DownFrames
      BY <1>1, FilledFrame DEF Replies, TypeOK, McuTypeOK
    <2> QED
      BY <1>2, <1>3, <1>5, <2>1, FrameTypes DEF McuQuery, TypeOK
  <1>6. CASE McuObey(f)
    <2>1. McuTypeOK'
      BY <1>6, SMT DEF McuObey, TypeOK, McuTypeOK
    <2> QED
      BY <1>1, <1>2, <1>3, <1>6, <2>1 DEF McuObey, Replies
  <1>7. CASE McuRefuse(f)
    BY <1>1, <1>2, <1>7, FrameTypes DEF McuRefuse, Replies, TypeOK, HistTypeOK
  <1> QED
    BY <1>4, <1>5, <1>6, <1>7

\* Every step keeps the types.
LEMMA TypeStep == TypeOK /\ ServingOK /\ [Next]_vars => TypeOK'
  <1> SUFFICES ASSUME TypeOK, ServingOK, [Next]_vars PROVE TypeOK'
    OBVIOUS
  <1> USE BoundsAssumption
  <1>0. CASE UNCHANGED vars
    <2>1. WorkerTypeOK'
      BY <1>0, SMT DEF TypeOK, WorkerTypeOK, vars
    <2> QED
      BY <1>0, <2>1, FrameTypes DEF TypeOK, vars
  <1>1. CASE Worker
    <2>1. CASE Open
      <3>1. WorkerTypeOK'
        BY <2>1, SMT DEF TypeOK, WorkerTypeOK, Open, workerFrame
      <3>2. /\ PermitTypeOK' /\ HealthTypeOK' /\ JobTypeOK'
            /\ CallTypeOK' /\ WireTypeOK' /\ McuTypeOK' /\ HistTypeOK'
        BY <2>1, FrameTypes DEF TypeOK, Open, workerFrame
      <3> QED
        BY <3>1, <3>2 DEF TypeOK
    <2>2. CASE OpenFails
      <3>1. WorkerTypeOK'
        BY <2>2, SMT DEF TypeOK, WorkerTypeOK, OpenFails, workerFrame
      <3>2. /\ PermitTypeOK' /\ HealthTypeOK' /\ JobTypeOK'
            /\ CallTypeOK' /\ WireTypeOK' /\ McuTypeOK' /\ HistTypeOK'
        BY <2>2, FrameTypes DEF TypeOK, OpenFails, workerFrame
      <3> QED
        BY <3>1, <3>2 DEF TypeOK
    <2>3. CASE Lock
      <3>1. WorkerTypeOK'
        BY <2>3, SMT DEF TypeOK, WorkerTypeOK, Lock, workerFrame
      <3>2. /\ PermitTypeOK' /\ HealthTypeOK' /\ JobTypeOK'
            /\ CallTypeOK' /\ WireTypeOK' /\ McuTypeOK' /\ HistTypeOK'
        BY <2>3, FrameTypes DEF TypeOK, Lock, workerFrame
      <3> QED
        BY <3>1, <3>2 DEF TypeOK
    <2>4. CASE ReadFails
      <3>1. WorkerTypeOK'
        BY <2>4, SMT DEF TypeOK, WorkerTypeOK, ReadFails, workerFrame
      <3>2. /\ PermitTypeOK' /\ HealthTypeOK' /\ JobTypeOK'
            /\ CallTypeOK' /\ WireTypeOK' /\ McuTypeOK' /\ HistTypeOK'
        BY <2>4, FrameTypes DEF TypeOK, ReadFails, workerFrame
      <3> QED
        BY <3>1, <3>2 DEF TypeOK
    <2>5. CASE SelectQuit
      <3>1. WorkerTypeOK'
        BY <2>5, SMT DEF TypeOK, WorkerTypeOK, SelectQuit, selectFrame, workerFrame
      <3>2. JobTypeOK'
        BY <2>5, SMT DEF TypeOK, JobTypeOK, SelectQuit, selectFrame, workerFrame
      <3>3. /\ PermitTypeOK' /\ HealthTypeOK' /\ CallTypeOK'
            /\ WireTypeOK' /\ McuTypeOK' /\ HistTypeOK'
        BY <2>5, FrameTypes DEF TypeOK, SelectQuit, selectFrame, workerFrame
      <3> QED
        BY <3>1, <3>2, <3>3 DEF TypeOK
    <2>6. CASE SelectStop
      <3>1. PermitTypeOK'
        BY <2>6, SMT
           DEF TypeOK, PermitTypeOK, SelectStop, Deadline, Finish, SetArmed, Lost, Expired,
               selectFrame, workerFrame
      <3>2. JobTypeOK'
        BY <2>6, SMT
           DEF TypeOK, JobTypeOK, SelectStop, Deadline, Finish, Results, selectFrame, workerFrame
      <3>3. WorkerTypeOK'
        BY <2>6, SMT
           DEF TypeOK, WorkerTypeOK, SelectStop, UpFrames, AllOps, selectFrame, workerFrame
      <3>4. HealthTypeOK' /\ CallTypeOK' /\ WireTypeOK' /\ McuTypeOK' /\ HistTypeOK'
        BY <2>6, FrameTypes DEF TypeOK, SelectStop, selectFrame, workerFrame
      <3> QED
        BY <3>1, <3>2, <3>3, <3>4 DEF TypeOK
    <2>7. CASE SelectJob
      <3>1. up' \in Seq(UpFrames) /\ down' \in Seq(DownFrames)
        BY <2>7, OutdateUp, OutdateDown DEF SelectJob, next_seq, TypeOK, WireTypeOK
      <3>2. WireTypeOK'
        BY <2>7, <3>1, SMT DEF TypeOK, WireTypeOK, SelectJob, selectFrame, workerFrame
      <3>3. JobTypeOK'
        BY <2>7, <3>1, SMT DEF TypeOK, JobTypeOK, SelectJob, selectFrame, workerFrame
      <3>4. WorkerTypeOK'
        BY <2>7, <3>1, SMT
           DEF TypeOK, WorkerTypeOK, SelectJob, JobTypeOK, UpFrames, selectFrame, workerFrame
      <3>5. PermitTypeOK' /\ HealthTypeOK' /\ CallTypeOK' /\ McuTypeOK' /\ HistTypeOK'
        BY <2>7, FrameTypes DEF TypeOK, SelectJob, selectFrame, workerFrame
      <3> QED
        BY <3>2, <3>3, <3>4, <3>5 DEF TypeOK
    <2>8. CASE RefuseJob
      <3>1. JobTypeOK'
        BY <2>8, SMT DEF TypeOK, JobTypeOK, RefuseJob, Finish, Results, selectFrame, workerFrame
      <3>2. WorkerTypeOK'
        BY <2>8, SMT DEF TypeOK, WorkerTypeOK, RefuseJob, selectFrame, workerFrame
      <3>3. /\ PermitTypeOK' /\ HealthTypeOK' /\ CallTypeOK'
            /\ WireTypeOK' /\ McuTypeOK' /\ HistTypeOK'
        BY <2>8, FrameTypes DEF TypeOK, RefuseJob, selectFrame, workerFrame
      <3> QED
        BY <3>1, <3>2, <3>3 DEF TypeOK
    <2>9. CASE SelectPing
      <3>1. up' \in Seq(UpFrames) /\ down' \in Seq(DownFrames)
        BY <2>9, OutdateUp, OutdateDown DEF SelectPing, next_seq, TypeOK, WireTypeOK
      <3>2. WireTypeOK'
        BY <2>9, <3>1, SMT DEF TypeOK, WireTypeOK, SelectPing, selectFrame, workerFrame
      <3>3. PermitTypeOK'
        BY <2>9, <3>1, SMT
           DEF TypeOK, PermitTypeOK, SelectPing, Deadline, Finish, SetArmed, Lost, Expired,
               selectFrame, workerFrame
      <3>4. JobTypeOK'
        BY <2>9, <3>1, SMT
           DEF TypeOK, JobTypeOK, SelectPing, Deadline, Finish, Results, selectFrame, workerFrame
      <3>5. WorkerTypeOK'
        BY <2>9, <3>1, SMT
           DEF TypeOK, WorkerTypeOK, SelectPing, UpFrames, AllOps, selectFrame, workerFrame
      <3>6. HealthTypeOK' /\ CallTypeOK' /\ McuTypeOK' /\ HistTypeOK'
        BY <2>9, FrameTypes DEF TypeOK, SelectPing, selectFrame, workerFrame
      <3> QED
        BY <3>2, <3>3, <3>4, <3>5, <3>6 DEF TypeOK
    <2>10. CASE SelectNothing
      <3>1. PermitTypeOK'
        BY <2>10, SMT
           DEF TypeOK, PermitTypeOK, SelectNothing, Deadline, Finish, SetArmed, Lost, Expired,
               selectFrame, workerFrame
      <3>2. JobTypeOK'
        BY <2>10, SMT
           DEF TypeOK, JobTypeOK, SelectNothing, Deadline, Finish, Results, selectFrame,
               workerFrame
      <3>3. WorkerTypeOK'
        BY <2>10, SMT DEF TypeOK, WorkerTypeOK, SelectNothing, selectFrame, workerFrame
      <3>4. HealthTypeOK' /\ CallTypeOK' /\ WireTypeOK' /\ McuTypeOK' /\ HistTypeOK'
        BY <2>10, FrameTypes DEF TypeOK, SelectNothing, selectFrame, workerFrame
      <3> QED
        BY <3>1, <3>2, <3>3, <3>4 DEF TypeOK
    <2>11. CASE Write
      <3>1. hand \in UpFrames
        BY <2>11 DEF Write, TypeOK, WorkerTypeOK, ServingOK
      <3>2. up' \in Seq(UpFrames)
        BY <2>11, <3>1, PutFacts DEF Write, TypeOK, WireTypeOK
      <3>3. WireTypeOK'
        BY <2>11, <3>1, <3>2, SMT DEF TypeOK, WireTypeOK, Write, workerFrame
      <3>4. WorkerTypeOK'
        BY <2>11, <3>1, <3>2, SMT DEF TypeOK, WorkerTypeOK, Write, workerFrame
      <3>5. PermitTypeOK' /\ HealthTypeOK' /\ JobTypeOK' /\ CallTypeOK' /\ McuTypeOK' /\ HistTypeOK'
        BY <2>11, FrameTypes DEF TypeOK, Write, workerFrame
      <3> QED
        BY <3>3, <3>4, <3>5 DEF TypeOK
    <2>12. CASE WriteFails
      <3>1. WorkerTypeOK'
        BY <2>12, SMT DEF TypeOK, WorkerTypeOK, WriteFails, workerFrame
      <3>2. /\ PermitTypeOK' /\ HealthTypeOK' /\ JobTypeOK'
            /\ CallTypeOK' /\ WireTypeOK' /\ McuTypeOK' /\ HistTypeOK'
        BY <2>12, FrameTypes DEF TypeOK, WriteFails, workerFrame
      <3> QED
        BY <3>1, <3>2 DEF TypeOK
    <2>13. CASE ExitStop
      <3>1. [op |-> "stop", tag |-> "old"] \in UpFrames
        BY DEF UpFrames, AllOps
      <3>2. up' \in Seq(UpFrames)
        <4>1. Put(up, UpCap, [op |-> "stop", tag |-> "old"]) \in Seq(UpFrames)
          BY <3>1, PutFacts DEF TypeOK, WireTypeOK
        <4> QED
          BY <2>13, <4>1 DEF ExitStop, TypeOK, WireTypeOK
      <3>3. WireTypeOK'
        BY <2>13, <3>1, <3>2, SMT DEF TypeOK, WireTypeOK, ExitStop, workerFrame
      <3>4. WorkerTypeOK'
        BY <2>13, <3>1, <3>2, SMT DEF TypeOK, WorkerTypeOK, ExitStop, workerFrame
      <3>5. PermitTypeOK' /\ HealthTypeOK' /\ JobTypeOK' /\ CallTypeOK' /\ McuTypeOK' /\ HistTypeOK'
        BY <2>13, FrameTypes DEF TypeOK, ExitStop, workerFrame
      <3> QED
        BY <3>3, <3>4, <3>5 DEF TypeOK
    <2>14. CASE ExitLast
      <3>1. PermitTypeOK'
        <4>1. armed' \in BOOLEAN /\ urgent' \in BOOLEAN /\ desktop_inhibit' \in BOOLEAN
          BY <2>14 DEF TypeOK, PermitTypeOK, ExitLast, SetArmed, workerFrame
        <4>2. lease' \in 0..Forever
          BY <2>14, SMT DEF TypeOK, PermitTypeOK, ExitLast, SetArmed, workerFrame
        <4> QED
          BY <4>1, <4>2 DEF PermitTypeOK
      <3>2. JobTypeOK'
        BY <2>14 DEF TypeOK, JobTypeOK, ExitLast, Finish, Results, workerFrame
      <3>3. WorkerTypeOK'
        BY <2>14 DEF TypeOK, WorkerTypeOK, ExitLast, workerFrame
      <3>4. HealthTypeOK' /\ CallTypeOK' /\ WireTypeOK' /\ McuTypeOK' /\ HistTypeOK'
        BY <2>14, FrameTypes DEF TypeOK, ExitLast, workerFrame
      <3> QED
        BY <3>1, <3>2, <3>3, <3>4 DEF TypeOK
    <2>15. CASE Receive
      <3> DEFINE f == Head(down)
      <3>1. f \in DownFrames /\ WireTypeOK'
        BY <2>15, TailFacts DEF Receive, TypeOK, WireTypeOK
      <3>2. PermitTypeOK' /\ HealthTypeOK' /\ done' \in BOOLEAN /\ result' \in Results
        BY <2>15, <3>1, ReceiveTypes DEF Receive
      <3>3. JobTypeOK' /\ WorkerTypeOK'
        BY <2>15, <3>2, SMT DEF TypeOK, JobTypeOK, WorkerTypeOK, Receive, workerFrame
      <3>4. CallTypeOK' /\ McuTypeOK' /\ HistTypeOK'
        BY <2>15, FrameTypes DEF TypeOK, Receive, workerFrame
      <3> QED
        BY <3>1, <3>2, <3>3, <3>4 DEF TypeOK
    <2> QED
      BY <1>1, <2>1, <2>2, <2>3, <2>4, <2>5, <2>6, <2>7, <2>8, <2>9, <2>10, <2>11, <2>12, <2>13,
         <2>14, <2>15
         DEF Worker
  <1>2. ASSUME NEW c \in Callers, NEW op \in Ops, Call(c, op) PROVE TypeOK'
    <2>1. PermitTypeOK'
      BY <1>2, SMT DEF TypeOK, PermitTypeOK, Call, SetArmed
    <2>2. WorkerTypeOK'
      BY <1>2, SMT DEF TypeOK, WorkerTypeOK, Call
    <2>3. CallTypeOK'
      BY <1>2, OpsAssumption, SMT DEF TypeOK, CallTypeOK, Call, AllOps
    <2>4. HistTypeOK'
      BY <1>2, SMT DEF TypeOK, HistTypeOK, Call, QueuedMotion
    <2>5. HealthTypeOK' /\ JobTypeOK' /\ WireTypeOK' /\ McuTypeOK'
      BY <1>2, FrameTypes DEF TypeOK, Call
    <2> QED
      BY <2>1, <2>2, <2>3, <2>4, <2>5 DEF TypeOK
  <1>3. ASSUME NEW c \in Callers, NEW op \in Ops, CallDesktop(c, op) PROVE TypeOK'
    <2>1. PermitTypeOK'
      BY <1>3, SMT DEF TypeOK, PermitTypeOK, CallDesktop
    <2>2. WorkerTypeOK'
      BY <1>3, SMT DEF TypeOK, WorkerTypeOK, CallDesktop
    <2>3. CallTypeOK'
      BY <1>3, OpsAssumption, SMT DEF TypeOK, CallTypeOK, CallDesktop, AllOps
    <2>4. HealthTypeOK' /\ JobTypeOK' /\ WireTypeOK' /\ McuTypeOK' /\ HistTypeOK'
      BY <1>3, FrameTypes DEF TypeOK, CallDesktop
    <2> QED
      BY <2>1, <2>2, <2>3, <2>4 DEF TypeOK
  <1>4. ASSUME NEW c \in Callers, TurnAway(c) PROVE TypeOK'
    <2>1. WorkerTypeOK'
      BY <1>4, SMT DEF TypeOK, WorkerTypeOK, TurnAway
    <2>2. CallTypeOK'
      BY <1>4, SMT DEF TypeOK, CallTypeOK, TurnAway, AllOps
    <2>3. PermitTypeOK' /\ HealthTypeOK' /\ JobTypeOK' /\ WireTypeOK' /\ McuTypeOK' /\ HistTypeOK'
      BY <1>4, FrameTypes DEF TypeOK, TurnAway
    <2> QED
      BY <2>1, <2>2, <2>3 DEF TypeOK
  <1>5. ASSUME NEW c \in Callers, Accept(c) PROVE TypeOK'
    <2>1. WorkerTypeOK'
      BY <1>5, SMT DEF TypeOK, WorkerTypeOK, Accept
    <2>2. CallTypeOK'
      BY <1>5, SMT DEF TypeOK, CallTypeOK, Accept
    <2>3. JobTypeOK'
      <3>1. pending' \in BOOLEAN /\ sent' \in BOOLEAN /\ done' \in BOOLEAN
        BY <1>5 DEF TypeOK, JobTypeOK, Accept, CallTypeOK, Results
      <3>2. result' \in Results /\ command' \in AllOps
        BY <1>5 DEF TypeOK, JobTypeOK, Accept, CallTypeOK, Results
      <3>3. jobLeft' \in 0..JobTicks
        BY <1>5, SMT DEF TypeOK, JobTypeOK, Accept, CallTypeOK, Results
      <3> QED
        BY <3>1, <3>2, <3>3 DEF JobTypeOK
    <2>4. HistTypeOK'
      <3>1. acted' \in 0..2
        BY <1>5, SMT DEF TypeOK, HistTypeOK, Accept
      <3>2. overruled' \in BOOLEAN
        BY <1>5 DEF TypeOK, HistTypeOK, Accept
      <3> QED
        BY <3>1, <3>2 DEF HistTypeOK
    <2>5. PermitTypeOK' /\ HealthTypeOK' /\ WireTypeOK' /\ McuTypeOK'
      BY <1>5, FrameTypes DEF TypeOK, Accept
    <2> QED
      BY <2>1, <2>2, <2>3, <2>4, <2>5 DEF TypeOK
  <1>6. ASSUME NEW c \in Callers, Return(c) PROVE TypeOK'
    <2>1. PermitTypeOK'
      BY <1>6 DEF TypeOK, PermitTypeOK, Return, SetArmed
    <2>2. WorkerTypeOK'
      BY <1>6 DEF TypeOK, WorkerTypeOK, Return
    <2>3. CallTypeOK'
      BY <1>6 DEF TypeOK, CallTypeOK, Return, AllOps
    <2>4. JobTypeOK'
      <3>1. pending' \in BOOLEAN /\ sent' \in BOOLEAN /\ done' \in BOOLEAN
        BY <1>6 DEF TypeOK, JobTypeOK, Return, AllOps, Results
      <3>2. result' \in Results /\ command' \in AllOps
        BY <1>6 DEF TypeOK, JobTypeOK, Return, AllOps, Results
      <3>3. jobLeft' \in 0..JobTicks
        BY <1>6, SMT DEF TypeOK, JobTypeOK, Return, AllOps, Results
      <3> QED
        BY <3>1, <3>2, <3>3 DEF JobTypeOK
    <2>5. HealthTypeOK' /\ WireTypeOK' /\ McuTypeOK' /\ HistTypeOK'
      BY <1>6, FrameTypes DEF TypeOK, Return
    <2> QED
      BY <2>1, <2>2, <2>3, <2>4, <2>5 DEF TypeOK
  <1>7. CASE ConsoleNext
    <2>1. CASE Start
      <3>1. PermitTypeOK'
        <4>1. armed' \in BOOLEAN /\ urgent' \in BOOLEAN /\ desktop_inhibit' \in BOOLEAN
          BY <2>1 DEF TypeOK, PermitTypeOK, Start, SetArmed
        <4>2. lease' \in 0..Forever
          BY <2>1, SMT DEF TypeOK, PermitTypeOK, Start, SetArmed
        <4> QED
          BY <4>1, <4>2 DEF PermitTypeOK
      <3>2. HealthTypeOK'
        <4>1. seen' \in BOOLEAN
          BY <2>1 DEF TypeOK, HealthTypeOK, Start
        <4>2. pongAge' \in 0..(FreshTicks + 1)
          BY <2>1, SMT DEF TypeOK, HealthTypeOK, Start
        <4>3. uptime' \in 0..MaxUptime
          BY <2>1, SMT DEF TypeOK, HealthTypeOK, Start
        <4>4. config' \in Bit /\ fault' \in Bit
          BY <2>1 DEF TypeOK, HealthTypeOK, Start
        <4> QED
          BY <4>1, <4>2, <4>3, <4>4 DEF HealthTypeOK
      <3>3. WorkerTypeOK'
        BY <2>1 DEF TypeOK, WorkerTypeOK, Start
      <3>4. JobTypeOK' /\ CallTypeOK' /\ WireTypeOK' /\ McuTypeOK' /\ HistTypeOK'
        BY <2>1, FrameTypes DEF TypeOK, Start
      <3> QED
        BY <3>1, <3>2, <3>3, <3>4 DEF TypeOK
    <2>2. ASSUME NEW how, Arm(how) PROVE TypeOK'
      <3>1. PermitTypeOK'
        <4>1. armed' \in BOOLEAN /\ urgent' \in BOOLEAN /\ desktop_inhibit' \in BOOLEAN
          BY <2>2 DEF TypeOK, PermitTypeOK, Arm
        <4>2. lease' \in 0..Forever
          BY <2>2, SMT DEF TypeOK, PermitTypeOK, Arm
        <4> QED
          BY <4>1, <4>2 DEF PermitTypeOK
      <3>2. WorkerTypeOK'
        BY <2>2 DEF TypeOK, WorkerTypeOK, Arm
      <3>3. HealthTypeOK' /\ JobTypeOK' /\ CallTypeOK' /\ WireTypeOK' /\ McuTypeOK' /\ HistTypeOK'
        BY <2>2, FrameTypes DEF TypeOK, Arm
      <3> QED
        BY <3>1, <3>2, <3>3 DEF TypeOK
    <2>3. CASE DesktopOn
      <3>1. PermitTypeOK'
        BY <2>3 DEF TypeOK, PermitTypeOK, DesktopOn
      <3>2. WorkerTypeOK'
        BY <2>3 DEF TypeOK, WorkerTypeOK, DesktopOn
      <3>3. HealthTypeOK' /\ JobTypeOK' /\ CallTypeOK' /\ WireTypeOK' /\ McuTypeOK' /\ HistTypeOK'
        BY <2>3, FrameTypes DEF TypeOK, DesktopOn
      <3> QED
        BY <3>1, <3>2, <3>3 DEF TypeOK
    <2>4. ASSUME NEW how, Withdraw(how) PROVE TypeOK'
      <3>1. PermitTypeOK'
        <4>1. armed' \in BOOLEAN /\ urgent' \in BOOLEAN /\ desktop_inhibit' \in BOOLEAN
          BY <2>4 DEF TypeOK, PermitTypeOK, Withdraw, SetArmed
        <4>2. lease' \in 0..Forever
          BY <2>4, SMT DEF TypeOK, PermitTypeOK, Withdraw, SetArmed
        <4> QED
          BY <4>1, <4>2 DEF PermitTypeOK
      <3>2. WorkerTypeOK'
        BY <2>4 DEF TypeOK, WorkerTypeOK, Withdraw
      <3>3. HistTypeOK'
        BY <2>4, SMT DEF TypeOK, HistTypeOK, Withdraw, QueuedMotion
      <3>4. HealthTypeOK' /\ JobTypeOK' /\ CallTypeOK' /\ WireTypeOK' /\ McuTypeOK'
        BY <2>4, FrameTypes DEF TypeOK, Withdraw
      <3> QED
        BY <3>1, <3>2, <3>3, <3>4 DEF TypeOK
    <2> QED
      BY <1>7, <2>1, <2>2, <2>3, <2>4 DEF ConsoleNext
  <1>8. CASE Outside
    <2>1. CASE Mcu
      <3> DEFINE f == Head(up)
      <3>1. f \in UpFrames /\ up' \in Seq(UpFrames)
        BY <2>1, TailFacts DEF Mcu, TypeOK, WireTypeOK
      <3>2. down' \in Seq(DownFrames) /\ acted' \in 0..2 /\ McuTypeOK'
        BY <2>1, <3>1, McuTypes DEF Mcu
      <3>3. WireTypeOK' /\ HistTypeOK'
        BY <2>1, <3>1, <3>2 DEF TypeOK, WireTypeOK, HistTypeOK, Mcu
      <3>4. WorkerTypeOK'
        BY <2>1, SMT DEF TypeOK, WorkerTypeOK, Mcu, linkVars
      <3>5. PermitTypeOK' /\ HealthTypeOK' /\ JobTypeOK' /\ CallTypeOK'
        BY <2>1, FrameTypes DEF TypeOK, Mcu, linkVars
      <3> QED
        BY <3>2, <3>3, <3>4, <3>5 DEF TypeOK
    <2>2. CASE LoseUp
      <3>1. up' \in Seq(UpFrames)
        BY <2>2, TailFacts DEF LoseUp, TypeOK, WireTypeOK
      <3>2. WireTypeOK'
        BY <2>2, <3>1, SMT DEF TypeOK, WireTypeOK, LoseUp, linkVars
      <3>3. WorkerTypeOK'
        BY <2>2, <3>1, SMT DEF TypeOK, WorkerTypeOK, LoseUp, linkVars
      <3>4. PermitTypeOK' /\ HealthTypeOK' /\ JobTypeOK' /\ CallTypeOK' /\ McuTypeOK' /\ HistTypeOK'
        BY <2>2, FrameTypes DEF TypeOK, LoseUp, linkVars
      <3> QED
        BY <3>2, <3>3, <3>4 DEF TypeOK
    <2>3. CASE LoseDown
      <3>1. down' \in Seq(DownFrames)
        BY <2>3, TailFacts DEF LoseDown, TypeOK, WireTypeOK
      <3>2. WireTypeOK'
        BY <2>3, <3>1, SMT DEF TypeOK, WireTypeOK, LoseDown, linkVars
      <3>3. WorkerTypeOK'
        BY <2>3, <3>1, SMT DEF TypeOK, WorkerTypeOK, LoseDown, linkVars
      <3>4. PermitTypeOK' /\ HealthTypeOK' /\ JobTypeOK' /\ CallTypeOK' /\ McuTypeOK' /\ HistTypeOK'
        BY <2>3, FrameTypes DEF TypeOK, LoseDown, linkVars
      <3> QED
        BY <3>2, <3>3, <3>4 DEF TypeOK
    <2>4. CASE McuTrips
      <3>1. down' \in Seq(DownFrames)
        BY <2>4, EventType, TellType DEF McuTrips, Events, TypeOK, WireTypeOK
      <3>2. WireTypeOK'
        BY <2>4, <3>1, SMT DEF TypeOK, WireTypeOK, McuTrips, linkVars
      <3>3. WorkerTypeOK'
        BY <2>4, <3>1, SMT DEF TypeOK, WorkerTypeOK, McuTrips, linkVars
      <3>4. PermitTypeOK' /\ HealthTypeOK' /\ JobTypeOK' /\ CallTypeOK' /\ McuTypeOK' /\ HistTypeOK'
        BY <2>4, FrameTypes DEF TypeOK, McuTrips, linkVars
      <3> QED
        BY <3>2, <3>3, <3>4 DEF TypeOK
    <2>5. CASE McuFaults
      <3>1. mcuFault' \in Bit
        BY <2>5, SMT DEF McuFaults, TypeOK, McuTypeOK
      <3>2. [Event("fault") EXCEPT !.fault = mcuFault'] \in DownFrames
        BY <3>1, EventType, FilledFrame DEF Events
      <3>3. down' \in Seq(DownFrames)
        BY <2>5, <3>2, TellType DEF McuFaults, TypeOK, WireTypeOK
      <3>4. McuTypeOK'
        BY <2>5, <3>1, <3>2, <3>3, SMT DEF TypeOK, McuTypeOK, McuFaults, linkVars
      <3>5. WireTypeOK'
        BY <2>5, <3>1, <3>2, <3>3, SMT DEF TypeOK, WireTypeOK, McuFaults, linkVars
      <3>6. WorkerTypeOK'
        BY <2>5, <3>1, <3>2, <3>3, SMT DEF TypeOK, WorkerTypeOK, McuFaults, linkVars
      <3>7. PermitTypeOK' /\ HealthTypeOK' /\ JobTypeOK' /\ CallTypeOK' /\ HistTypeOK'
        BY <2>5, FrameTypes DEF TypeOK, McuFaults, linkVars
      <3> QED
        BY <3>4, <3>5, <3>6, <3>7 DEF TypeOK
    <2>6. CASE McuReconfigures
      <3>1. mcuConfig' \in Bit
        BY <2>6, SMT DEF McuReconfigures, TypeOK, McuTypeOK
      <3>2. [Event("config") EXCEPT !.config = mcuConfig'] \in DownFrames
        BY <3>1, EventType, FilledFrame DEF Events
      <3>3. down' \in Seq(DownFrames)
        BY <2>6, <3>2, TellType DEF McuReconfigures, TypeOK, WireTypeOK
      <3>4. McuTypeOK'
        BY <2>6, <3>1, <3>2, <3>3, SMT DEF TypeOK, McuTypeOK, McuReconfigures, linkVars
      <3>5. WireTypeOK'
        BY <2>6, <3>1, <3>2, <3>3, SMT DEF TypeOK, WireTypeOK, McuReconfigures, linkVars
      <3>6. WorkerTypeOK'
        BY <2>6, <3>1, <3>2, <3>3, SMT DEF TypeOK, WorkerTypeOK, McuReconfigures, linkVars
      <3>7. PermitTypeOK' /\ HealthTypeOK' /\ JobTypeOK' /\ CallTypeOK' /\ HistTypeOK'
        BY <2>6, FrameTypes DEF TypeOK, McuReconfigures, linkVars
      <3> QED
        BY <3>4, <3>5, <3>6, <3>7 DEF TypeOK
    <2>7. CASE McuReboots
      <3>1. up' \in Seq(UpFrames)
        BY <2>7, EmptySeq DEF McuReboots
      <3>2. McuTypeOK'
        BY <2>7, <3>1, SMT DEF TypeOK, McuTypeOK, McuReboots, linkVars
      <3>3. WireTypeOK'
        BY <2>7, <3>1, SMT DEF TypeOK, WireTypeOK, McuReboots, linkVars
      <3>4. WorkerTypeOK'
        BY <2>7, <3>1, SMT DEF TypeOK, WorkerTypeOK, McuReboots, linkVars
      <3>5. PermitTypeOK' /\ HealthTypeOK' /\ JobTypeOK' /\ CallTypeOK' /\ HistTypeOK'
        BY <2>7, FrameTypes DEF TypeOK, McuReboots, linkVars
      <3> QED
        BY <3>2, <3>3, <3>4, <3>5 DEF TypeOK
    <2> QED
      BY <1>8, <2>1, <2>2, <2>3, <2>4, <2>5, <2>6, <2>7 DEF Outside
  <1>9. CASE Tick
    <2>1. PermitTypeOK'
      BY <1>9, LessType, SMT DEF TypeOK, PermitTypeOK, Tick, Less
    <2>2. HealthTypeOK'
      BY <1>9, SMT DEF TypeOK, HealthTypeOK, Tick
    <2>3. JobTypeOK'
      BY <1>9, SMT DEF TypeOK, JobTypeOK, Tick, Less
    <2>4. WorkerTypeOK'
      BY <1>9, SMT DEF TypeOK, WorkerTypeOK, Tick, Less
    <2>5. CallTypeOK'
      BY <1>9, SMT DEF TypeOK, CallTypeOK, Tick, Less
    <2>6. McuTypeOK'
      BY <1>9, SMT DEF TypeOK, McuTypeOK, Tick
    <2>7. WireTypeOK'
      BY <1>9, SMT DEF TypeOK, WireTypeOK, Tick
    <2>8. HistTypeOK'
      BY <1>9, FrameTypes DEF TypeOK, Tick
    <2> QED
      BY <2>1, <2>2, <2>3, <2>4, <2>5, <2>6, <2>7, <2>8 DEF TypeOK
  <1> QED
    BY <1>0, <1>1, <1>2, <1>3, <1>4, <1>5, <1>6, <1>7, <1>8, <1>9 DEF Next, Requests
=============================================================================
