---------------------------- MODULE McuLinkSafety ----------------------------
(***************************************************************************)
(* The inductive invariant of McuLink, and the safety properties that      *)
(* follow from it, for every value of the constants.                       *)
(***************************************************************************)
EXTENDS McuLinkProofs

USE DEF Forever, NoFrame, Bit, Motion, Queries, Tags

-----------------------------------------------------------------------------
(* The invariant holds initially.                                           *)

\* The invariant holds before the link is started.
LEMMA InitIInv == Init => IInv
  <1> SUFFICES ASSUME Init PROVE IInv
    OBVIOUS
  <1>1. ServingOK
    BY DEF Init, ServingOK, Running
  <1>2. PermitSound
    BY DEF Init, PermitSound
  <1>3. JobFrameOK /\ OutcomeTruth
    BY DEF Init, JobFrameOK, OutcomeTruth
  <1> QED
    BY <1>1, <1>2, <1>3, InitType DEF IInv

-----------------------------------------------------------------------------
(* Every step keeps it: one lemma per part.                                 *)

\* What receive() does to the request and to the permission.
LEMMA ReceiveServing ==
  ASSUME TypeOK, ServingOK, NEW f,
         \/ OnEvent(f) \/ OnPong(f) \/ OnData(f) \/ OnAck(f)
         \/ Discards(f) /\ UNCHANGED <<permitVars, healthVars, done, result>>
  PROVE  /\ (done' = done /\ result' = result) \/ (pending /\ ~done /\ done')
         /\ result' # result => result' \in {"ok", "cancelled", "remote"}
  <1>1. CASE OnEvent(f)
    BY <1>1 DEF OnEvent, Finish, OpenFor, TypeOK, JobTypeOK
  <1>2. CASE OnPong(f)
    <2>1. CASE (OpenFor(Motion) /\ (Restarted(f) \/ f.fault # 0)) \/ (Answers(f) /\ command = "ping")
      BY <1>2, <2>1 DEF OnPong, Finish, OpenFor, Answers, TypeOK, JobTypeOK
    <2>2. CASE ~((OpenFor(Motion) /\ (Restarted(f) \/ f.fault # 0)) \/ (Answers(f) /\ command = "ping"))
      BY <1>2, <2>2 DEF OnPong, Finish, TypeOK, JobTypeOK
    <2> QED
      BY <2>1, <2>2
  <1>3. CASE OnData(f)
    BY <1>3 DEF OnData, Finish, Answers, TypeOK, JobTypeOK
  <1>4. CASE OnAck(f)
    BY <1>4 DEF OnAck, Finish, Answers, TypeOK, JobTypeOK
  <1>5. CASE UNCHANGED <<done, result>>
    BY <1>5
  <1> QED
    BY <1>1, <1>2, <1>3, <1>4, <1>5

\* Requests are served one at a time.
LEMMA ServingStep == IInv /\ [Next]_vars => ServingOK'
  <1> SUFFICES ASSUME IInv, [Next]_vars PROVE ServingOK'
    OBVIOUS
  <1> USE DEF IInv
  <1>0. CASE UNCHANGED vars
    BY <1>0
       DEF ServingOK, TypeOK, JobTypeOK, WorkerTypeOK, Running, CallLockHeld, vars, permitVars,
           healthVars, jobVars, callVars, mcuVars, histVars
  <1>1. CASE Worker
    <2>1. CASE Open
      BY <2>1
         DEF ServingOK, TypeOK, JobTypeOK, WorkerTypeOK, Running, CallLockHeld, Open, workerFrame,
             permitVars, healthVars, jobVars, callVars, mcuVars, histVars
    <2>2. CASE OpenFails
      BY <2>2
         DEF ServingOK, TypeOK, JobTypeOK, WorkerTypeOK, Running, CallLockHeld, OpenFails,
             workerFrame, permitVars, healthVars, jobVars, callVars, mcuVars, histVars
    <2>3. CASE Lock
      BY <2>3
         DEF ServingOK, TypeOK, JobTypeOK, WorkerTypeOK, Running, CallLockHeld, Lock, workerFrame,
             permitVars, healthVars, jobVars, callVars, mcuVars, histVars
    <2>4. CASE ReadFails
      BY <2>4
         DEF ServingOK, TypeOK, JobTypeOK, WorkerTypeOK, Running, CallLockHeld, ReadFails,
             workerFrame, permitVars, healthVars, jobVars, callVars, mcuVars, histVars
    <2>5. CASE SelectQuit
      BY <2>5
         DEF ServingOK, TypeOK, JobTypeOK, WorkerTypeOK, Running, CallLockHeld, SelectQuit,
             selectFrame, workerFrame, permitVars, healthVars, callVars, mcuVars, histVars
    <2>6. CASE SelectStop
      BY <2>6
         DEF ServingOK, TypeOK, JobTypeOK, WorkerTypeOK, Running, CallLockHeld, SelectStop,
             selectFrame, workerFrame, Deadline, Finish, SetArmed, Lost, Expired, healthVars, callVars,
             mcuVars, histVars
    <2>7. CASE SelectJob
      BY <2>7
         DEF ServingOK, TypeOK, JobTypeOK, WorkerTypeOK, Running, CallLockHeld, SelectJob,
             selectFrame, workerFrame, Queued, next_seq, permitVars, healthVars, callVars, mcuVars,
             histVars
    <2>8. CASE RefuseJob
      BY <2>8
         DEF ServingOK, TypeOK, JobTypeOK, WorkerTypeOK, Running, CallLockHeld, RefuseJob,
             selectFrame, workerFrame, Finish, Queued, permitVars, healthVars, callVars, mcuVars,
             histVars
    <2>9. CASE SelectPing
      BY <2>9
         DEF ServingOK, TypeOK, JobTypeOK, WorkerTypeOK, Running, CallLockHeld, SelectPing,
             selectFrame, workerFrame, Deadline, Finish, SetArmed, Lost, Expired, next_seq, healthVars,
             callVars, mcuVars, histVars
    <2>10. CASE SelectNothing
      BY <2>10
         DEF ServingOK, TypeOK, JobTypeOK, WorkerTypeOK, Running, CallLockHeld, SelectNothing,
             selectFrame, workerFrame, Deadline, Finish, SetArmed, Lost, Expired, healthVars, callVars,
             mcuVars, histVars
    <2>11. CASE Write
      BY <2>11
         DEF ServingOK, TypeOK, JobTypeOK, WorkerTypeOK, Running, CallLockHeld, Write, workerFrame,
             permitVars, healthVars, jobVars, callVars, mcuVars, histVars
    <2>12. CASE WriteFails
      BY <2>12
         DEF ServingOK, TypeOK, JobTypeOK, WorkerTypeOK, Running, CallLockHeld, WriteFails,
             workerFrame, permitVars, healthVars, jobVars, callVars, mcuVars, histVars
    <2>13. CASE ExitStop
      BY <2>13
         DEF ServingOK, TypeOK, JobTypeOK, WorkerTypeOK, Running, CallLockHeld, ExitStop,
             workerFrame, permitVars, healthVars, jobVars, callVars, mcuVars, histVars
    <2>14. CASE ExitLast
      BY <2>14
         DEF ServingOK, TypeOK, JobTypeOK, WorkerTypeOK, Running, CallLockHeld, ExitLast,
             workerFrame, Finish, SetArmed, healthVars, callVars, mcuVars, histVars
    <2>15. CASE Receive
      <3> DEFINE f == Head(down)
      <3>1. /\ (done' = done /\ result' = result) \/ (pending /\ ~done /\ done')
            /\ result' # result => result' \in {"ok", "cancelled", "remote"}
        BY <2>15, ReceiveServing DEF Receive
      <3>2. UNCHANGED <<pending, sent, cpc, ready, wpc, hand>>
        BY <2>15 DEF Receive, workerFrame, callVars
      <3>3. (done => pending)' /\ (~done => result = "none")' /\ (result = "refused" => ~sent)'
        <4>1. CASE done' = done /\ result' = result
          BY <3>2, <4>1 DEF ServingOK
        <4>2. CASE pending /\ ~done /\ done'
          <5>1. result' # "refused"
            BY <3>1, <4>2 DEF ServingOK
          <5>2. pending' = TRUE
            BY <3>2, <4>2 DEF TypeOK, JobTypeOK
          <5> QED
            BY <4>2, <5>1, <5>2
        <4>3. (done' = done /\ result' = result) \/ (pending /\ ~done /\ done')
          BY <3>1
        <4> QED
          BY <4>1, <4>2, <4>3
      <3>4. (pending => CallLockHeld)' /\ (ready => Running)' /\ (wpc = "write" <=> hand # NoFrame)'
        BY <3>2 DEF ServingOK, Running, CallLockHeld
      <3> QED
        BY <3>3, <3>4 DEF ServingOK
    <2> QED
      BY <1>1, <2>1, <2>2, <2>3, <2>4, <2>5, <2>6, <2>7, <2>8, <2>9, <2>10, <2>11, <2>12, <2>13,
         <2>14, <2>15
         DEF Worker
  <1>2. ASSUME NEW c \in Callers, NEW op \in Ops, Call(c, op) PROVE ServingOK'
    BY <1>2
       DEF ServingOK, TypeOK, JobTypeOK, WorkerTypeOK, Running, CallLockHeld, Call, SetArmed,
           healthVars, jobVars, mcuVars
  <1>3. ASSUME NEW c \in Callers, NEW op \in Ops, CallDesktop(c, op) PROVE ServingOK'
    BY <1>3
       DEF ServingOK, TypeOK, JobTypeOK, WorkerTypeOK, Running, CallLockHeld, CallDesktop,
           healthVars, jobVars, mcuVars, histVars
  <1>4. ASSUME NEW c \in Callers, TurnAway(c) PROVE ServingOK'
    BY <1>4
       DEF ServingOK, TypeOK, JobTypeOK, WorkerTypeOK, Running, CallLockHeld, TurnAway, permitVars,
           healthVars, jobVars, mcuVars, histVars
  <1>5. ASSUME NEW c \in Callers, Accept(c) PROVE ServingOK'
    <2>1. cpc'[c] = "wait"
      BY <1>5 DEF Accept, TypeOK, CallTypeOK
    <2> QED
      BY <1>5, <2>1 DEF ServingOK, Running, CallLockHeld, Accept
  <1>6. ASSUME NEW c \in Callers, Return(c) PROVE ServingOK'
    BY <1>6
       DEF ServingOK, TypeOK, JobTypeOK, WorkerTypeOK, Running, CallLockHeld, Return, SetArmed,
           healthVars, mcuVars, histVars
  <1>7. CASE ConsoleNext
    <2>1. CASE Start
      BY <2>1
         DEF ServingOK, TypeOK, JobTypeOK, WorkerTypeOK, Running, CallLockHeld, Start, SetArmed,
             jobVars, callVars, mcuVars, histVars
    <2>2. ASSUME NEW how, Arm(how) PROVE ServingOK'
      BY <2>2
         DEF ServingOK, TypeOK, JobTypeOK, WorkerTypeOK, Running, CallLockHeld, Arm, healthVars,
             jobVars, callVars, mcuVars, histVars
    <2>3. CASE DesktopOn
      BY <2>3
         DEF ServingOK, TypeOK, JobTypeOK, WorkerTypeOK, Running, CallLockHeld, DesktopOn,
             healthVars, jobVars, callVars, mcuVars, histVars
    <2>4. ASSUME NEW how, Withdraw(how) PROVE ServingOK'
      BY <2>4
         DEF ServingOK, TypeOK, JobTypeOK, WorkerTypeOK, Running, CallLockHeld, Withdraw, SetArmed,
             healthVars, jobVars, callVars, mcuVars
    <2> QED
      BY <1>7, <2>1, <2>2, <2>3, <2>4 DEF ConsoleNext
  <1>8. CASE Outside
    <2>1. CASE Mcu
      BY <2>1
         DEF ServingOK, TypeOK, JobTypeOK, WorkerTypeOK, Running, CallLockHeld, Mcu, linkVars,
             permitVars, healthVars, jobVars, callVars
    <2>2. CASE LoseUp
      BY <2>2
         DEF ServingOK, TypeOK, JobTypeOK, WorkerTypeOK, Running, CallLockHeld, LoseUp, linkVars,
             permitVars, healthVars, jobVars, callVars, mcuVars, histVars
    <2>3. CASE LoseDown
      BY <2>3
         DEF ServingOK, TypeOK, JobTypeOK, WorkerTypeOK, Running, CallLockHeld, LoseDown, linkVars,
             permitVars, healthVars, jobVars, callVars, mcuVars, histVars
    <2>4. CASE McuTrips
      BY <2>4
         DEF ServingOK, TypeOK, JobTypeOK, WorkerTypeOK, Running, CallLockHeld, McuTrips, linkVars,
             permitVars, healthVars, jobVars, callVars, mcuVars, histVars
    <2>5. CASE McuFaults
      BY <2>5
         DEF ServingOK, TypeOK, JobTypeOK, WorkerTypeOK, Running, CallLockHeld, McuFaults,
             linkVars, permitVars, healthVars, jobVars, callVars, histVars
    <2>6. CASE McuReconfigures
      BY <2>6
         DEF ServingOK, TypeOK, JobTypeOK, WorkerTypeOK, Running, CallLockHeld, McuReconfigures,
             linkVars, permitVars, healthVars, jobVars, callVars, histVars
    <2>7. CASE McuReboots
      BY <2>7
         DEF ServingOK, TypeOK, JobTypeOK, WorkerTypeOK, Running, CallLockHeld, McuReboots,
             linkVars, permitVars, healthVars, jobVars, callVars, histVars
    <2> QED
      BY <1>8, <2>1, <2>2, <2>3, <2>4, <2>5, <2>6, <2>7 DEF Outside
  <1>9. CASE Tick
    BY <1>9 DEF ServingOK, TypeOK, JobTypeOK, WorkerTypeOK, Running, CallLockHeld, Tick, histVars
  <1> QED
    BY <1>0, <1>1, <1>2, <1>3, <1>4, <1>5, <1>6, <1>7, <1>8, <1>9 DEF Next, Requests

\* The permission stands on a ready, healthy link.
LEMMA PermitStep == IInv /\ [Next]_vars => PermitSound'
  <1> SUFFICES ASSUME IInv, [Next]_vars PROVE PermitSound'
    OBVIOUS
  <1> USE DEF IInv
  <1>0. CASE UNCHANGED vars
    BY <1>0 DEF PermitSound, vars, permitVars, healthVars, jobVars, callVars, mcuVars, histVars
  <1>1. CASE Worker
    <2>1. CASE Open
      BY <2>1
         DEF PermitSound, Open, workerFrame, permitVars, healthVars, jobVars, callVars, mcuVars,
             histVars
    <2>2. CASE OpenFails
      BY <2>2
         DEF PermitSound, OpenFails, workerFrame, permitVars, healthVars, jobVars, callVars,
             mcuVars, histVars
    <2>3. CASE Lock
      BY <2>3
         DEF PermitSound, Lock, workerFrame, permitVars, healthVars, jobVars, callVars, mcuVars,
             histVars
    <2>4. CASE ReadFails
      BY <2>4
         DEF PermitSound, ReadFails, workerFrame, permitVars, healthVars, jobVars, callVars,
             mcuVars, histVars
    <2>5. CASE SelectQuit
      BY <2>5
         DEF PermitSound, SelectQuit, selectFrame, workerFrame, permitVars, healthVars, callVars,
             mcuVars, histVars
    <2>6. CASE SelectStop
      BY <2>6
         DEF PermitSound, Fresh, SelectStop, selectFrame, workerFrame, Deadline, Finish, SetArmed,
             Lost, Expired, healthVars, callVars, mcuVars, histVars
    <2>7. CASE SelectJob
      BY <2>7
         DEF PermitSound, SelectJob, selectFrame, workerFrame, Queued, next_seq, permitVars,
             healthVars, callVars, mcuVars, histVars
    <2>8. CASE RefuseJob
      BY <2>8
         DEF PermitSound, RefuseJob, selectFrame, workerFrame, Finish, Queued, permitVars,
             healthVars, callVars, mcuVars, histVars
    <2>9. CASE SelectPing
      BY <2>9
         DEF PermitSound, Fresh, SelectPing, selectFrame, workerFrame, Deadline, Finish, SetArmed,
             Lost, Expired, next_seq, healthVars, callVars, mcuVars, histVars
    <2>10. CASE SelectNothing
      BY <2>10
         DEF PermitSound, Fresh, SelectNothing, selectFrame, workerFrame, Deadline, Finish,
             SetArmed, Lost, Expired, healthVars, callVars, mcuVars, histVars
    <2>11. CASE Write
      BY <2>11
         DEF PermitSound, Write, workerFrame, permitVars, healthVars, jobVars, callVars, mcuVars,
             histVars
    <2>12. CASE WriteFails
      BY <2>12
         DEF PermitSound, WriteFails, workerFrame, permitVars, healthVars, jobVars, callVars,
             mcuVars, histVars
    <2>13. CASE ExitStop
      BY <2>13
         DEF PermitSound, ExitStop, workerFrame, permitVars, healthVars, jobVars, callVars,
             mcuVars, histVars
    <2>14. CASE ExitLast
      BY <2>14
         DEF PermitSound, ExitLast, workerFrame, Finish, SetArmed, healthVars, callVars, mcuVars,
             histVars
    <2>15. CASE Receive
      <3> DEFINE f == Head(down)
      <3>1. ready' = ready
        BY <2>15 DEF Receive
      <3>2. CASE OnEvent(f)
        BY <3>1, <3>2 DEF PermitSound, OnEvent, Disarm, SetArmed
      <3>3. CASE OnPong(f)
        BY <3>1, <3>3 DEF PermitSound, OnPong, Disarm, SetArmed
      <3>4. CASE OnData(f)
        BY <3>1, <3>4 DEF PermitSound, OnData, Disarm, SetArmed
      <3>5. CASE OnAck(f)
        BY <3>1, <3>5 DEF PermitSound, OnAck, Disarm, SetArmed, healthVars
      <3>6. CASE UNCHANGED <<permitVars, healthVars>>
        BY <3>1, <3>6 DEF PermitSound, permitVars, healthVars
      <3> QED
        BY <2>15, <3>2, <3>3, <3>4, <3>5, <3>6 DEF Receive
    <2> QED
      BY <1>1, <2>1, <2>2, <2>3, <2>4, <2>5, <2>6, <2>7, <2>8, <2>9, <2>10, <2>11, <2>12, <2>13,
         <2>14, <2>15
         DEF Worker
  <1>2. ASSUME NEW c \in Callers, NEW op \in Ops, Call(c, op) PROVE PermitSound'
    BY <1>2 DEF PermitSound, Call, SetArmed, healthVars, jobVars, mcuVars
  <1>3. ASSUME NEW c \in Callers, NEW op \in Ops, CallDesktop(c, op) PROVE PermitSound'
    BY <1>3 DEF PermitSound, Fresh, CallDesktop, healthVars, jobVars, mcuVars, histVars
  <1>4. ASSUME NEW c \in Callers, TurnAway(c) PROVE PermitSound'
    BY <1>4 DEF PermitSound, TurnAway, permitVars, healthVars, jobVars, mcuVars, histVars
  <1>5. ASSUME NEW c \in Callers, Accept(c) PROVE PermitSound'
    BY <1>5 DEF PermitSound, Accept, permitVars, healthVars, mcuVars
  <1>6. ASSUME NEW c \in Callers, Return(c) PROVE PermitSound'
    BY <1>6 DEF PermitSound, Return, SetArmed, healthVars, mcuVars, histVars
  <1>7. CASE ConsoleNext
    <2>1. CASE Start
      BY <2>1 DEF PermitSound, Start, SetArmed, jobVars, callVars, mcuVars, histVars
    <2>2. ASSUME NEW how, Arm(how) PROVE PermitSound'
      BY <2>2 DEF PermitSound, Fresh, Arm, healthVars, jobVars, callVars, mcuVars, histVars
    <2>3. CASE DesktopOn
      BY <2>3 DEF PermitSound, DesktopOn, healthVars, jobVars, callVars, mcuVars, histVars
    <2>4. ASSUME NEW how, Withdraw(how) PROVE PermitSound'
      BY <2>4 DEF PermitSound, Withdraw, SetArmed, healthVars, jobVars, callVars, mcuVars
    <2> QED
      BY <1>7, <2>1, <2>2, <2>3, <2>4 DEF ConsoleNext
  <1>8. CASE Outside
    <2>1. CASE Mcu
      BY <2>1 DEF PermitSound, Mcu, linkVars, permitVars, healthVars, jobVars, callVars
    <2>2. CASE LoseUp
      BY <2>2
         DEF PermitSound, LoseUp, linkVars, permitVars, healthVars, jobVars, callVars, mcuVars,
             histVars
    <2>3. CASE LoseDown
      BY <2>3
         DEF PermitSound, LoseDown, linkVars, permitVars, healthVars, jobVars, callVars, mcuVars,
             histVars
    <2>4. CASE McuTrips
      BY <2>4
         DEF PermitSound, McuTrips, linkVars, permitVars, healthVars, jobVars, callVars, mcuVars,
             histVars
    <2>5. CASE McuFaults
      BY <2>5
         DEF PermitSound, McuFaults, linkVars, permitVars, healthVars, jobVars, callVars, histVars
    <2>6. CASE McuReconfigures
      BY <2>6
         DEF PermitSound, McuReconfigures, linkVars, permitVars, healthVars, jobVars, callVars,
             histVars
    <2>7. CASE McuReboots
      BY <2>7
         DEF PermitSound, McuReboots, linkVars, permitVars, healthVars, jobVars, callVars, histVars
    <2> QED
      BY <1>8, <2>1, <2>2, <2>3, <2>4, <2>5, <2>6, <2>7 DEF Outside
  <1>9. CASE Tick
    BY <1>9 DEF PermitSound, Tick, histVars
  <1> QED
    BY <1>0, <1>1, <1>2, <1>3, <1>4, <1>5, <1>6, <1>7, <1>8, <1>9 DEF Next, Requests

-----------------------------------------------------------------------------
(* The frame of the current request on the wire.                            *)

\* Taking the first frame of a direction.
LEMMA TailJob ==
  ASSUME NEW S, NEW ch \in Seq(S), ch # <<>>
  PROVE  /\ NoneIn(ch) => NoneIn(Tail(ch)) /\ Head(ch).tag # "job"
         /\ OneIn(ch) => OneIn(Tail(ch))
         /\ OneIn(ch) /\ Head(ch).tag = "job" => NoneIn(Tail(ch))
         /\ AckIn(Tail(ch)) => AckIn(ch)
         /\ Head(ch).tag = "job" /\ Head(ch).kind # "nak" => AckIn(ch)
  <1> DEFINE t == Tail(ch)
  <1>1. /\ Head(ch) = ch[1] /\ 1 \in DOMAIN ch
        /\ \A i \in DOMAIN t : i \in Nat /\ i # 0 /\ i + 1 \in DOMAIN ch /\ t[i] = ch[i + 1]
    BY TailFacts, SMT
  <1>2. NoneIn(ch) => NoneIn(t) /\ Head(ch).tag # "job"
    BY <1>1 DEF NoneIn
  <1>3. OneIn(ch) => OneIn(t)
    <2> SUFFICES ASSUME OneIn(ch), NEW i \in DOMAIN t, NEW j \in DOMAIN t,
                        t[i].tag = "job", t[j].tag = "job"
                 PROVE  i = j
      BY DEF OneIn
    <2>1. i + 1 = j + 1
      BY <1>1 DEF OneIn
    <2> QED
      BY <1>1, <2>1, SMT
  <1>4. OneIn(ch) /\ Head(ch).tag = "job" => NoneIn(t)
    <2> SUFFICES ASSUME OneIn(ch), Head(ch).tag = "job", NEW i \in DOMAIN t, t[i].tag = "job"
                 PROVE  FALSE
      BY DEF NoneIn
    <2>1. i + 1 = 1
      BY <1>1 DEF OneIn
    <2> QED
      BY <1>1, <2>1, SMT
  <1>5. AckIn(t) => AckIn(ch)
    BY <1>1 DEF AckIn
  <1>6. Head(ch).tag = "job" /\ Head(ch).kind # "nak" => AckIn(ch)
    BY <1>1 DEF AckIn
  <1> QED
    BY <1>2, <1>3, <1>4, <1>5, <1>6

\* Adding a frame to a direction, or dropping it.
LEMMA PutJob ==
  ASSUME NEW S, NEW ch \in Seq(S), NEW f \in S, NEW cap \in Nat
  PROVE  /\ NoneIn(ch) /\ f.tag # "job" => NoneIn(Put(ch, cap, f))
         /\ OneIn(ch) /\ (f.tag = "job" => NoneIn(ch)) => OneIn(Put(ch, cap, f))
         /\ AckIn(Put(ch, cap, f)) => AckIn(ch) \/ (f.tag = "job" /\ f.kind # "nak")
  <1> DEFINE p == Put(ch, cap, f)
  <1>1. \A i \in DOMAIN p : \/ i \in DOMAIN ch /\ p[i] = ch[i]
                            \/ i = Len(ch) + 1 /\ p[i] = f
    BY PutFacts
  <1> HIDE DEF p
  <1>2. NoneIn(ch) /\ f.tag # "job" => NoneIn(p)
    BY <1>1 DEF NoneIn
  <1>3. OneIn(ch) /\ (f.tag = "job" => NoneIn(ch)) => OneIn(p)
    <2> SUFFICES ASSUME OneIn(ch), f.tag = "job" => NoneIn(ch),
                        NEW i \in DOMAIN p, NEW j \in DOMAIN p, p[i].tag = "job", p[j].tag = "job"
                 PROVE  i = j
      BY DEF OneIn
    <2> QED
      BY <1>1 DEF OneIn, NoneIn
  <1>4. AckIn(p) => AckIn(ch) \/ (f.tag = "job" /\ f.kind # "nak")
    BY <1>1 DEF AckIn
  <1> QED
    BY <1>2, <1>3, <1>4 DEF p

\* Giving a number out again: nothing on the wire carries the new request's,
\* and a new heartbeat leaves the request's frame alone.
LEMMA OutdateJob ==
  ASSUME up \in Seq(UpFrames), down \in Seq(DownFrames)
  PROVE  /\ NoneIn(Outdate(up, "job")) /\ ~AckIn(Outdate(down, "job"))
         /\ NoneIn(up) => NoneIn(Outdate(up, "ping"))
         /\ OneIn(up) => OneIn(Outdate(up, "ping"))
         /\ AckIn(Outdate(down, "ping")) => AckIn(down)
  <1>1. \A t \in Tags : /\ DOMAIN Outdate(up, t) = DOMAIN up
                        /\ \A i \in DOMAIN up : IF up[i].tag = t THEN Outdate(up, t)[i].tag = "old"
                                                ELSE Outdate(up, t)[i] = up[i]
    BY OutdateUp
  <1>2. \A t \in Tags : /\ DOMAIN Outdate(down, t) = DOMAIN down
                        /\ \A i \in DOMAIN down : IF down[i].tag = t THEN Outdate(down, t)[i].tag = "old"
                                                  ELSE Outdate(down, t)[i] = down[i]
    BY OutdateDown
  <1>3. NoneIn(Outdate(up, "job")) /\ ~AckIn(Outdate(down, "job"))
    BY <1>1, <1>2 DEF NoneIn, AckIn
  <1>4. NoneIn(up) => NoneIn(Outdate(up, "ping"))
    BY <1>1 DEF NoneIn
  <1>5. OneIn(up) => OneIn(Outdate(up, "ping"))
    BY <1>1 DEF OneIn
  <1>6. AckIn(Outdate(down, "ping")) => AckIn(down)
    BY <1>2 DEF AckIn
  <1> QED
    BY <1>3, <1>4, <1>5, <1>6

\* A step that leaves the wire alone, and one that reports neither success nor
\* refusal.
LEMMA WireKept ==
  JobFrameOK /\ UNCHANGED <<sent, acted, up, down>> /\ (hand' = hand \/ hand'.tag # "job")
    => JobFrameOK'
  BY DEF JobFrameOK, NoneIn, OneIn, AckIn

\* OutcomeTruth survives a step that neither acts nor decides an outcome.
LEMMA TruthKept ==
  /\ OutcomeTruth /\ acted' = acted
  /\ pending' /\ done' /\ result' \in {"ok", "refused"} => pending /\ done /\ result' = result
  => OutcomeTruth'
  BY DEF OutcomeTruth

\* A broadcast never looks like an answer.
LEMMA EventFrames ==
  ASSUME TypeOK, McuTrips \/ McuFaults \/ McuReconfigures
  PROVE  AckIn(down') => AckIn(down)
  <1>1. PICK r \in DownFrames : r.tag = "zero" /\ Tell(r)
    <2>1. CASE McuTrips
      BY <2>1, EventType DEF McuTrips, Events, Event, Reply
    <2>2. CASE McuFaults
      <3>1. mcuFault' \in Bit
        BY <2>2, SMT DEF McuFaults, TypeOK, McuTypeOK
      <3>2. [Event("fault") EXCEPT !.fault = mcuFault'] \in DownFrames
        BY <3>1, EventType, FilledFrame DEF Events
      <3>3. [Event("fault") EXCEPT !.fault = mcuFault'].tag = "zero"
        BY DEF Event, Reply
      <3> QED
        BY <2>2, <3>2, <3>3 DEF McuFaults
    <2>3. CASE McuReconfigures
      <3>1. mcuConfig' \in Bit
        BY <2>3, SMT DEF McuReconfigures, TypeOK, McuTypeOK
      <3>2. [Event("config") EXCEPT !.config = mcuConfig'] \in DownFrames
        BY <3>1, EventType, FilledFrame DEF Events
      <3>3. [Event("config") EXCEPT !.config = mcuConfig'].tag = "zero"
        BY DEF Event, Reply
      <3> QED
        BY <2>3, <3>2, <3>3 DEF McuReconfigures
    <2> QED
      BY <2>1, <2>2, <2>3
  <1>2. AckIn(Put(down, DownCap, r)) => AckIn(down) \/ r.tag = "job"
    BY PutJob, BoundsAssumption DEF TypeOK, WireTypeOK
  <1> QED
    BY <1>1, <1>2 DEF Tell

\* The controller answers with the number it was asked with: a refusal, or
\* something it has carried out.
LEMMA McuFrames ==
  ASSUME TypeOK, NEW f \in UpFrames,
         McuPing(f) \/ McuQuery(f) \/ McuObey(f) \/ McuRefuse(f)
  PROVE  \/ /\ AckIn(down') => AckIn(down) \/ f.tag = "job"
            /\ Act(f)
         \/ (AckIn(down') => AckIn(down)) /\ acted' = acted
  <1>1. ASSUME NEW r \in DownFrames, Tell(r)
        PROVE  AckIn(down') => AckIn(down) \/ (r.tag = "job" /\ r.kind # "nak")
    BY <1>1, PutJob, BoundsAssumption DEF Tell, TypeOK, WireTypeOK
  <1>2. \A k \in Replies : Reply(k, f) \in DownFrames /\ Reply(k, f).tag = f.tag /\ Reply(k, f).kind = k
    BY ReplyType DEF Reply
  <1>3. CASE McuPing(f)
    <2> DEFINE r == [Reply("pong", f) EXCEPT !.uptime = mcuUptime, !.config = mcuConfig, !.fault = mcuFault]
    <2>1. r \in DownFrames
      BY <1>2, FilledPong DEF Replies, TypeOK, McuTypeOK
    <2>2. r.tag = f.tag
      BY DEF Reply
    <2> QED
      BY <1>1, <1>3, <2>1, <2>2 DEF McuPing
  <1>4. CASE McuQuery(f)
    <2>1. /\ [Reply("cfg", f) EXCEPT !.config = mcuConfig] \in DownFrames
          /\ [Reply("stat", f) EXCEPT !.fault = mcuFault] \in DownFrames
          /\ [Reply("alarm", f) EXCEPT !.fault = mcuFault] \in DownFrames
      BY <1>2, FilledFrame DEF Replies, TypeOK, McuTypeOK
    <2>2. /\ [Reply("cfg", f) EXCEPT !.config = mcuConfig].tag = f.tag
          /\ [Reply("stat", f) EXCEPT !.fault = mcuFault].tag = f.tag
          /\ [Reply("alarm", f) EXCEPT !.fault = mcuFault].tag = f.tag
      BY DEF Reply
    <2> QED
      BY <1>1, <1>4, <2>1, <2>2 DEF McuQuery
  <1>5. CASE McuObey(f)
    BY <1>1, <1>2, <1>5 DEF McuObey, Replies
  <1>6. CASE McuRefuse(f)
    BY <1>1, <1>2, <1>6 DEF McuRefuse, Replies
  <1> QED
    BY <1>3, <1>4, <1>5, <1>6

\* "Acknowledged" is only said of a frame that answers the current request.
LEMMA ReceiveOk ==
  ASSUME TypeOK, NEW f,
         \/ OnEvent(f) \/ OnPong(f) \/ OnData(f) \/ OnAck(f)
         \/ Discards(f) /\ UNCHANGED <<permitVars, healthVars, done, result>>
  PROVE  result' = "ok" /\ ~(done' = done /\ result' = result)
           => sent /\ f.tag = "job" /\ f.kind # "nak"
  <1>1. CASE OnEvent(f)
    BY <1>1 DEF OnEvent, Finish, TypeOK, JobTypeOK
  <1>2. CASE OnPong(f)
    <2>1. CASE Answers(f) /\ command = "ping"
      BY <1>2, <2>1 DEF OnPong, Answers
    <2>2. CASE ~(Answers(f) /\ command = "ping") /\ OpenFor(Motion) /\ (Restarted(f) \/ f.fault # 0)
      BY <1>2, <2>2 DEF OnPong, Finish
    <2>3. CASE ~(Answers(f) /\ command = "ping") /\ ~(OpenFor(Motion) /\ (Restarted(f) \/ f.fault # 0))
      BY <1>2, <2>3 DEF OnPong, Finish, TypeOK, JobTypeOK
    <2> QED
      BY <2>1, <2>2, <2>3
  <1>3. CASE OnData(f)
    BY <1>3 DEF OnData, Answers
  <1>4. CASE OnAck(f)
    BY <1>4 DEF OnAck, Finish, Answers
  <1>5. CASE UNCHANGED <<done, result>>
    BY <1>5
  <1> QED
    BY <1>1, <1>2, <1>3, <1>4, <1>5

\* A request's only frame is tracked, and its outcome is told truthfully.
LEMMA FrameStep == IInv /\ [Next]_vars => JobFrameOK' /\ OutcomeTruth'
  <1> SUFFICES ASSUME IInv, [Next]_vars PROVE JobFrameOK' /\ OutcomeTruth'
    OBVIOUS
  <1> USE BoundsAssumption DEF IInv
  <1>0. CASE UNCHANGED vars
    <2>1. JobFrameOK'
      BY <1>0, WireKept DEF vars, jobVars, histVars, TypeOK, WorkerTypeOK
    <2>2. OutcomeTruth'
      BY <1>0, TruthKept DEF vars, jobVars, histVars, TypeOK, JobTypeOK
    <2> QED
      BY <2>1, <2>2
  <1>1. CASE Worker
    <2>1. CASE Open
      <3>1. JobFrameOK'
        BY <2>1, WireKept DEF Open, workerFrame, jobVars, histVars, TypeOK, WorkerTypeOK
      <3>2. OutcomeTruth'
        BY <2>1, TruthKept DEF Open, workerFrame, jobVars, histVars, TypeOK, JobTypeOK
      <3> QED
        BY <3>1, <3>2
    <2>2. CASE OpenFails
      <3>1. JobFrameOK'
        BY <2>2, WireKept DEF OpenFails, workerFrame, jobVars, histVars, TypeOK, WorkerTypeOK
      <3>2. OutcomeTruth'
        BY <2>2, TruthKept DEF OpenFails, workerFrame, jobVars, histVars, TypeOK, JobTypeOK
      <3> QED
        BY <3>1, <3>2
    <2>3. CASE Lock
      <3>1. JobFrameOK'
        BY <2>3, WireKept DEF Lock, workerFrame, jobVars, histVars, TypeOK, WorkerTypeOK
      <3>2. OutcomeTruth'
        BY <2>3, TruthKept DEF Lock, workerFrame, jobVars, histVars, TypeOK, JobTypeOK
      <3> QED
        BY <3>1, <3>2
    <2>4. CASE ReadFails
      <3>1. JobFrameOK'
        BY <2>4, WireKept DEF ReadFails, workerFrame, jobVars, histVars, TypeOK, WorkerTypeOK
      <3>2. OutcomeTruth'
        BY <2>4, TruthKept DEF ReadFails, workerFrame, jobVars, histVars, TypeOK, JobTypeOK
      <3> QED
        BY <3>1, <3>2
    <2>5. CASE SelectQuit
      <3>1. JobFrameOK'
        BY <2>5, WireKept DEF SelectQuit, selectFrame, workerFrame, histVars, TypeOK, WorkerTypeOK
      <3>2. OutcomeTruth'
        BY <2>5, TruthKept DEF SelectQuit, selectFrame, workerFrame, histVars, TypeOK, JobTypeOK
      <3> QED
        BY <3>1, <3>2
    <2>6. CASE SelectStop
      <3>1. JobFrameOK'
        BY <2>6, WireKept
           DEF SelectStop, Deadline, Finish, Expired, selectFrame, workerFrame, histVars, TypeOK,
               WorkerTypeOK
      <3>2. OutcomeTruth'
        BY <2>6, TruthKept
           DEF SelectStop, Deadline, Finish, Expired, selectFrame, workerFrame, histVars, TypeOK,
               JobTypeOK
      <3> QED
        BY <3>1, <3>2
    <2>7. CASE SelectJob
      <3>1. JobFrameOK'
        <4>1. NoneIn(up') /\ ~AckIn(down')
          BY <2>7, OutdateJob DEF SelectJob, next_seq, TypeOK, WireTypeOK
        <4>2. acted' = 0 /\ sent'
          BY <2>7 DEF SelectJob, Queued, JobFrameOK, selectFrame, workerFrame, histVars
        <4>3. OneIn(up')
          BY <4>1 DEF NoneIn, OneIn
        <4> QED
          BY <4>1, <4>2, <4>3 DEF JobFrameOK
      <3>2. OutcomeTruth'
        BY <2>7, TruthKept DEF SelectJob, selectFrame, workerFrame, histVars, TypeOK, JobTypeOK
      <3> QED
        BY <3>1, <3>2
    <2>8. CASE RefuseJob
      <3>1. JobFrameOK'
        BY <2>8, WireKept DEF RefuseJob, selectFrame, workerFrame, histVars
      <3>2. acted' = 0
        BY <2>8 DEF RefuseJob, Queued, JobFrameOK, selectFrame, workerFrame, histVars
      <3>3. result' # "ok"
        BY <2>8 DEF RefuseJob, Finish
      <3> QED
        BY <3>1, <3>2, <3>3, SMT DEF OutcomeTruth
    <2>9. CASE SelectPing
      <3>1. JobFrameOK'
        <4>1. /\ NoneIn(up) => NoneIn(up')
              /\ OneIn(up) => OneIn(up')
              /\ AckIn(down') => AckIn(down)
          BY <2>9, OutdateJob DEF SelectPing, next_seq, TypeOK, WireTypeOK
        <4>2. UNCHANGED <<sent, acted>> /\ hand'.tag # "job"
          BY <2>9 DEF SelectPing, selectFrame, workerFrame, histVars
        <4> QED
          BY <4>1, <4>2 DEF JobFrameOK
      <3>2. OutcomeTruth'
        BY <2>9, TruthKept
           DEF SelectPing, Deadline, Finish, Expired, selectFrame, workerFrame, histVars, TypeOK,
               JobTypeOK
      <3> QED
        BY <3>1, <3>2
    <2>10. CASE SelectNothing
      <3>1. JobFrameOK'
        BY <2>10, WireKept
           DEF SelectNothing, Deadline, Finish, Expired, selectFrame, workerFrame, histVars,
               TypeOK, WorkerTypeOK
      <3>2. OutcomeTruth'
        BY <2>10, TruthKept
           DEF SelectNothing, Deadline, Finish, Expired, selectFrame, workerFrame, histVars,
               TypeOK, JobTypeOK
      <3> QED
        BY <3>1, <3>2
    <2>11. CASE Write
      <3>1. JobFrameOK'
        <4>1. hand \in UpFrames
          BY <2>11 DEF Write, TypeOK, WorkerTypeOK, ServingOK
        <4>2. /\ NoneIn(up) /\ hand.tag # "job" => NoneIn(Put(up, UpCap, hand))
              /\ OneIn(up) /\ (hand.tag = "job" => NoneIn(up)) => OneIn(Put(up, UpCap, hand))
          BY <4>1, PutJob DEF TypeOK, WireTypeOK
        <4>3. UNCHANGED <<sent, acted, down>> /\ hand'.tag # "job" /\ up' = Put(up, UpCap, hand)
          BY <2>11 DEF Write, workerFrame, jobVars, histVars
        <4> QED
          BY <4>2, <4>3 DEF JobFrameOK
      <3>2. OutcomeTruth'
        BY <2>11, TruthKept DEF Write, workerFrame, jobVars, histVars, TypeOK, JobTypeOK
      <3> QED
        BY <3>1, <3>2
    <2>12. CASE WriteFails
      <3>1. JobFrameOK'
        BY <2>12, WireKept DEF WriteFails, workerFrame, jobVars, histVars, TypeOK, WorkerTypeOK
      <3>2. OutcomeTruth'
        BY <2>12, TruthKept DEF WriteFails, workerFrame, jobVars, histVars, TypeOK, JobTypeOK
      <3> QED
        BY <3>1, <3>2
    <2>13. CASE ExitStop
      <3>1. JobFrameOK'
        <4> DEFINE s == [op |-> "stop", tag |-> "old"]
        <4>1. s \in UpFrames /\ s.tag # "job"
          BY DEF UpFrames, AllOps
        <4>2. /\ NoneIn(up) /\ s.tag # "job" => NoneIn(Put(up, UpCap, s))
              /\ OneIn(up) /\ (s.tag = "job" => NoneIn(up)) => OneIn(Put(up, UpCap, s))
          BY <4>1, PutJob DEF TypeOK, WireTypeOK
        <4>3. UNCHANGED <<sent, acted, down, hand>> /\ (up' = Put(up, UpCap, s) \/ up' = up)
          BY <2>13 DEF ExitStop, workerFrame, jobVars, histVars
        <4> QED
          BY <4>1, <4>2, <4>3 DEF JobFrameOK
      <3>2. OutcomeTruth'
        BY <2>13, TruthKept DEF ExitStop, workerFrame, jobVars, histVars, TypeOK, JobTypeOK
      <3> QED
        BY <3>1, <3>2
    <2>14. CASE ExitLast
      <3>1. JobFrameOK'
        BY <2>14, WireKept DEF ExitLast, Finish, workerFrame, histVars, TypeOK, WorkerTypeOK
      <3>2. OutcomeTruth'
        BY <2>14, TruthKept DEF ExitLast, Finish, workerFrame, histVars, TypeOK, JobTypeOK
      <3> QED
        BY <3>1, <3>2
    <2>15. CASE Receive
      <3> DEFINE f == Head(down)
      <3>1. /\ AckIn(down') => AckIn(down)
            /\ f.tag = "job" /\ f.kind # "nak" => AckIn(down)
        BY <2>15, TailJob DEF Receive, TypeOK, WireTypeOK
      <3>2. UNCHANGED <<sent, acted, hand, up, pending>>
        BY <2>15 DEF Receive, workerFrame, histVars
      <3>3. JobFrameOK'
        BY <3>1, <3>2 DEF JobFrameOK, NoneIn, OneIn
      <3>4. /\ result' # result => result' # "refused"
            /\ result' = "ok" /\ ~(done' = done /\ result' = result) => sent /\ f.tag = "job" /\ f.kind # "nak"
            /\ (done' = done /\ result' = result) \/ (pending /\ ~done /\ done')
        BY <2>15, ReceiveServing, ReceiveOk DEF Receive
      <3>5. OutcomeTruth'
        <4>1. CASE done' = done /\ result' = result
          BY <3>2, <4>1 DEF OutcomeTruth
        <4>2. CASE ~(done' = done /\ result' = result)
          <5>1. result' = "ok" => acted' = 1
            BY <3>1, <3>2, <3>4, <4>2 DEF JobFrameOK
          <5>2. result' # "refused"
            BY <3>4, <4>2 DEF ServingOK
          <5> QED
            BY <3>2, <5>1, <5>2 DEF OutcomeTruth
        <4> QED
          BY <4>1, <4>2
      <3> QED
        BY <3>3, <3>5
    <2> QED
      BY <1>1, <2>1, <2>2, <2>3, <2>4, <2>5, <2>6, <2>7, <2>8, <2>9, <2>10, <2>11, <2>12, <2>13,
         <2>14, <2>15
         DEF Worker
  <1>2. ASSUME NEW c \in Callers, NEW op \in Ops, Call(c, op) PROVE JobFrameOK' /\ OutcomeTruth'
    <2>1. JobFrameOK'
      BY <1>2, WireKept DEF Call, jobVars, TypeOK, WorkerTypeOK
    <2>2. OutcomeTruth'
      BY <1>2, TruthKept DEF Call, jobVars, TypeOK, JobTypeOK
    <2> QED
      BY <2>1, <2>2
  <1>3. ASSUME NEW c \in Callers, NEW op \in Ops, CallDesktop(c, op)
          PROVE JobFrameOK' /\ OutcomeTruth'
    <2>1. JobFrameOK'
      BY <1>3, WireKept DEF CallDesktop, jobVars, histVars, TypeOK, WorkerTypeOK
    <2>2. OutcomeTruth'
      BY <1>3, TruthKept DEF CallDesktop, jobVars, histVars, TypeOK, JobTypeOK
    <2> QED
      BY <2>1, <2>2
  <1>4. ASSUME NEW c \in Callers, TurnAway(c) PROVE JobFrameOK' /\ OutcomeTruth'
    <2>1. JobFrameOK'
      BY <1>4, WireKept DEF TurnAway, jobVars, histVars, TypeOK, WorkerTypeOK
    <2>2. OutcomeTruth'
      BY <1>4, TruthKept DEF TurnAway, jobVars, histVars, TypeOK, JobTypeOK
    <2> QED
      BY <2>1, <2>2
  <1>5. ASSUME NEW c \in Callers, Accept(c) PROVE JobFrameOK' /\ OutcomeTruth'
    BY <1>5 DEF Accept, JobFrameOK, OutcomeTruth
  <1>6. ASSUME NEW c \in Callers, Return(c) PROVE JobFrameOK' /\ OutcomeTruth'
    <2>1. JobFrameOK'
      BY <1>6, WireKept DEF Return, histVars, TypeOK, WorkerTypeOK
    <2>2. OutcomeTruth'
      BY <1>6, TruthKept DEF Return, histVars, TypeOK, JobTypeOK
    <2> QED
      BY <2>1, <2>2
  <1>7. CASE ConsoleNext
    <2>1. CASE Start
      <3>1. JobFrameOK'
        BY <2>1, WireKept DEF Start, jobVars, histVars, TypeOK, WorkerTypeOK
      <3>2. OutcomeTruth'
        BY <2>1, TruthKept DEF Start, jobVars, histVars, TypeOK, JobTypeOK
      <3> QED
        BY <3>1, <3>2
    <2>2. ASSUME NEW how, Arm(how) PROVE JobFrameOK' /\ OutcomeTruth'
      <3>1. JobFrameOK'
        BY <2>2, WireKept DEF Arm, jobVars, histVars, TypeOK, WorkerTypeOK
      <3>2. OutcomeTruth'
        BY <2>2, TruthKept DEF Arm, jobVars, histVars, TypeOK, JobTypeOK
      <3> QED
        BY <3>1, <3>2
    <2>3. CASE DesktopOn
      <3>1. JobFrameOK'
        BY <2>3, WireKept DEF DesktopOn, jobVars, histVars, TypeOK, WorkerTypeOK
      <3>2. OutcomeTruth'
        BY <2>3, TruthKept DEF DesktopOn, jobVars, histVars, TypeOK, JobTypeOK
      <3> QED
        BY <3>1, <3>2
    <2>4. ASSUME NEW how, Withdraw(how) PROVE JobFrameOK' /\ OutcomeTruth'
      <3>1. JobFrameOK'
        BY <2>4, WireKept DEF Withdraw, jobVars, TypeOK, WorkerTypeOK
      <3>2. OutcomeTruth'
        BY <2>4, TruthKept DEF Withdraw, jobVars, TypeOK, JobTypeOK
      <3> QED
        BY <3>1, <3>2
    <2> QED
      BY <1>7, <2>1, <2>2, <2>3, <2>4 DEF ConsoleNext
  <1>8. CASE Outside
    <2>1. CASE Mcu
      <3> DEFINE f == Head(up)
      <3>1. f \in UpFrames /\ UNCHANGED <<sent, hand, pending, done, result>>
        BY <2>1, TailFacts DEF Mcu, TypeOK, WireTypeOK, linkVars, jobVars
      <3>2. /\ NoneIn(up) => NoneIn(up') /\ f.tag # "job"
            /\ OneIn(up) => OneIn(up')
            /\ OneIn(up) /\ f.tag = "job" => NoneIn(up')
        BY <2>1, TailJob DEF Mcu, TypeOK, WireTypeOK
      <3>3. \/ /\ AckIn(down') => AckIn(down) \/ f.tag = "job"
               /\ acted' = IF f.tag = "job" /\ sent /\ acted < 2 THEN acted + 1 ELSE acted
            \/ (AckIn(down') => AckIn(down)) /\ acted' = acted
        BY <2>1, <3>1, McuFrames DEF Mcu, Act
      <3>4. acted \in 0..2
        BY DEF TypeOK, HistTypeOK
      <3>5. CASE sent /\ f.tag = "job"
        <4>1. /\ acted = 0 /\ OneIn(up) /\ NoneIn(up')
              /\ OneIn(up') /\ hand.tag # "job" /\ ~AckIn(down)
          BY <3>2, <3>5, SMT DEF JobFrameOK
        <4>2. acted' \in 0..1 /\ (AckIn(down') => acted' = 1)
          BY <3>3, <3>5, <4>1, SMT
        <4>3. JobFrameOK'
          BY <3>1, <3>5, <4>1, <4>2 DEF JobFrameOK
        <4>4. ~(pending /\ done /\ result \in {"ok", "refused"})
          BY <3>5, <4>1 DEF OutcomeTruth, ServingOK
        <4> QED
          BY <3>1, <4>2, <4>3, <4>4, SMT DEF OutcomeTruth
      <3>6. CASE ~(sent /\ f.tag = "job")
        <4>1. acted' = acted /\ (sent /\ AckIn(down') => AckIn(down))
          BY <3>3, <3>6
        <4>2. JobFrameOK'
          BY <3>1, <3>2, <4>1 DEF JobFrameOK
        <4> QED
          BY <3>1, <4>1, <4>2, TruthKept
      <3> QED
        BY <3>5, <3>6
    <2>2. CASE LoseUp
      <3>1. JobFrameOK'
        <4>1. /\ NoneIn(up) => NoneIn(up')
              /\ OneIn(up) => OneIn(up')
          BY <2>2, TailJob DEF LoseUp, TypeOK, WireTypeOK
        <4>2. AckIn(down') => AckIn(down)
          BY <2>2 DEF LoseUp, AckIn
        <4>3. UNCHANGED <<sent, acted, hand>>
          BY <2>2 DEF LoseUp, linkVars, jobVars, histVars
        <4> QED
          BY <4>1, <4>2, <4>3 DEF JobFrameOK
      <3>2. OutcomeTruth'
        BY <2>2, TruthKept DEF LoseUp, linkVars, jobVars, histVars, TypeOK, JobTypeOK
      <3> QED
        BY <3>1, <3>2
    <2>3. CASE LoseDown
      <3>1. JobFrameOK'
        <4>1. /\ NoneIn(up) => NoneIn(up')
              /\ OneIn(up) => OneIn(up')
          BY <2>3 DEF LoseDown, NoneIn, OneIn
        <4>2. AckIn(down') => AckIn(down)
          BY <2>3, TailJob DEF LoseDown, TypeOK, WireTypeOK
        <4>3. UNCHANGED <<sent, acted, hand>>
          BY <2>3 DEF LoseDown, linkVars, jobVars, histVars
        <4> QED
          BY <4>1, <4>2, <4>3 DEF JobFrameOK
      <3>2. OutcomeTruth'
        BY <2>3, TruthKept DEF LoseDown, linkVars, jobVars, histVars, TypeOK, JobTypeOK
      <3> QED
        BY <3>1, <3>2
    <2>4. CASE McuTrips
      <3>1. JobFrameOK'
        <4>1. /\ NoneIn(up) => NoneIn(up')
              /\ OneIn(up) => OneIn(up')
          BY <2>4 DEF McuTrips, NoneIn, OneIn
        <4>2. AckIn(down') => AckIn(down)
          BY <2>4, EventFrames DEF McuTrips
        <4>3. UNCHANGED <<sent, acted, hand>>
          BY <2>4 DEF McuTrips, linkVars, jobVars, histVars
        <4> QED
          BY <4>1, <4>2, <4>3 DEF JobFrameOK
      <3>2. OutcomeTruth'
        BY <2>4, TruthKept DEF McuTrips, linkVars, jobVars, histVars, TypeOK, JobTypeOK
      <3> QED
        BY <3>1, <3>2
    <2>5. CASE McuFaults
      <3>1. JobFrameOK'
        <4>1. /\ NoneIn(up) => NoneIn(up')
              /\ OneIn(up) => OneIn(up')
          BY <2>5 DEF McuFaults, NoneIn, OneIn
        <4>2. AckIn(down') => AckIn(down)
          BY <2>5, EventFrames DEF McuFaults
        <4>3. UNCHANGED <<sent, acted, hand>>
          BY <2>5 DEF McuFaults, linkVars, jobVars, histVars
        <4> QED
          BY <4>1, <4>2, <4>3 DEF JobFrameOK
      <3>2. OutcomeTruth'
        BY <2>5, TruthKept DEF McuFaults, linkVars, jobVars, histVars, TypeOK, JobTypeOK
      <3> QED
        BY <3>1, <3>2
    <2>6. CASE McuReconfigures
      <3>1. JobFrameOK'
        <4>1. /\ NoneIn(up) => NoneIn(up')
              /\ OneIn(up) => OneIn(up')
          BY <2>6 DEF McuReconfigures, NoneIn, OneIn
        <4>2. AckIn(down') => AckIn(down)
          BY <2>6, EventFrames DEF McuReconfigures
        <4>3. UNCHANGED <<sent, acted, hand>>
          BY <2>6 DEF McuReconfigures, linkVars, jobVars, histVars
        <4> QED
          BY <4>1, <4>2, <4>3 DEF JobFrameOK
      <3>2. OutcomeTruth'
        BY <2>6, TruthKept DEF McuReconfigures, linkVars, jobVars, histVars, TypeOK, JobTypeOK
      <3> QED
        BY <3>1, <3>2
    <2>7. CASE McuReboots
      <3>1. JobFrameOK'
        <4>1. /\ NoneIn(up) => NoneIn(up')
              /\ OneIn(up) => OneIn(up')
          BY <2>7 DEF McuReboots, NoneIn, OneIn
        <4>2. AckIn(down') => AckIn(down)
          BY <2>7 DEF McuReboots, AckIn
        <4>3. UNCHANGED <<sent, acted, hand>>
          BY <2>7 DEF McuReboots, linkVars, jobVars, histVars
        <4> QED
          BY <4>1, <4>2, <4>3 DEF JobFrameOK
      <3>2. OutcomeTruth'
        BY <2>7, TruthKept DEF McuReboots, linkVars, jobVars, histVars, TypeOK, JobTypeOK
      <3> QED
        BY <3>1, <3>2
    <2> QED
      BY <1>8, <2>1, <2>2, <2>3, <2>4, <2>5, <2>6, <2>7 DEF Outside
  <1>9. CASE Tick
    <2>1. JobFrameOK'
      BY <1>9, WireKept DEF Tick, histVars, TypeOK, WorkerTypeOK
    <2>2. OutcomeTruth'
      BY <1>9, TruthKept DEF Tick, histVars, TypeOK, JobTypeOK
    <2> QED
      BY <2>1, <2>2
  <1> QED
    BY <1>0, <1>1, <1>2, <1>3, <1>4, <1>5, <1>6, <1>7, <1>8, <1>9 DEF Next, Requests

-----------------------------------------------------------------------------
(* The theorems.                                                            *)

\* The invariant is inductive.
THEOREM Safety == Spec => []IInv
  <1>1. IInv /\ [Next]_vars => IInv'
    BY TypeStep, ServingStep, PermitStep, FrameStep DEF IInv
  <1> QED
    BY InitIInv, <1>1, PTL DEF Spec

\* Type correctness of every reachable state of the link.
THEOREM TypeCorrect == Spec => []TypeOK
  BY Safety, PTL DEF IInv

\* The permission to move exists only on a link that is ready, has heard from
\* the controller, has no fault on record and no revocation outstanding.
THEOREM PermitIsSound == Spec => []PermitSound
  BY Safety, PTL DEF IInv

\* What mcu_request tells its caller of an execution is true.
THEOREM OutcomeIsTrue == Spec => []OutcomeTruth
  BY Safety, PTL DEF IInv
=============================================================================
