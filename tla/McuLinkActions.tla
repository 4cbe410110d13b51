---------------------------- MODULE McuLinkActions ----------------------------
(***************************************************************************)
(* What a step of McuLink may never do, and that mcu_request implements    *)
(* OneShot, for every value of the constants.                              *)
(***************************************************************************)
EXTENDS McuLinkSafety

USE DEF Forever, NoFrame, Bit, Motion, Queries, Tags

-----------------------------------------------------------------------------
(* Motion.                                                                  *)

\* Only SelectJob takes a motion frame in hand.
HandStep == hand' = hand \/ SelectJob \/ hand'.op \notin Motion

\* Every step does.
LEMMA HandKept == [Next]_vars => HandStep
  <1> SUFFICES ASSUME [Next]_vars PROVE HandStep
    OBVIOUS
  <1> USE DEF HandStep
  <1>0. CASE UNCHANGED vars
    BY <1>0 DEF vars
  <1>1. CASE Worker
    <2>1. CASE Open
      BY <2>1 DEF Open, workerFrame
    <2>2. CASE OpenFails
      BY <2>2 DEF OpenFails, workerFrame
    <2>3. CASE Lock
      BY <2>3 DEF Lock, workerFrame
    <2>4. CASE ReadFails
      BY <2>4 DEF ReadFails, workerFrame
    <2>5. CASE SelectQuit
      BY <2>5 DEF SelectQuit, workerFrame
    <2>6. CASE SelectStop
      BY <2>6 DEF SelectStop, workerFrame
    <2>7. CASE SelectJob
      BY <2>7 DEF SelectJob, workerFrame
    <2>8. CASE RefuseJob
      BY <2>8 DEF RefuseJob, workerFrame
    <2>9. CASE SelectPing
      BY <2>9 DEF SelectPing, workerFrame
    <2>10. CASE SelectNothing
      BY <2>10 DEF SelectNothing, workerFrame
    <2>11. CASE Write
      BY <2>11 DEF Write, workerFrame
    <2>12. CASE WriteFails
      BY <2>12 DEF WriteFails, workerFrame
    <2>13. CASE ExitStop
      BY <2>13 DEF ExitStop, workerFrame
    <2>14. CASE ExitLast
      BY <2>14 DEF ExitLast, workerFrame
    <2>15. CASE Receive
      BY <2>15 DEF Receive, workerFrame
    <2> QED
      BY <1>1, <2>1, <2>2, <2>3, <2>4, <2>5, <2>6, <2>7, <2>8, <2>9, <2>10, <2>11, <2>12, <2>13,
         <2>14, <2>15
         DEF Worker
  <1>2. ASSUME NEW c \in Callers, NEW op \in Ops, Call(c, op) PROVE HandStep
    BY <1>2 DEF Call, workerFrame
  <1>3. ASSUME NEW c \in Callers, NEW op \in Ops, CallDesktop(c, op) PROVE HandStep
    BY <1>3 DEF CallDesktop, workerFrame
  <1>4. ASSUME NEW c \in Callers, TurnAway(c) PROVE HandStep
    BY <1>4 DEF TurnAway, workerFrame
  <1>5. ASSUME NEW c \in Callers, Accept(c) PROVE HandStep
    BY <1>5 DEF Accept, workerFrame
  <1>6. ASSUME NEW c \in Callers, Return(c) PROVE HandStep
    BY <1>6 DEF Return, workerFrame
  <1>7. CASE ConsoleNext
    <2>1. CASE Start
      BY <2>1 DEF Start, workerFrame
    <2>2. ASSUME NEW how, Arm(how) PROVE HandStep
      BY <2>2 DEF Arm, workerFrame
    <2>3. CASE DesktopOn
      BY <2>3 DEF DesktopOn, workerFrame
    <2>4. ASSUME NEW how, Withdraw(how) PROVE HandStep
      BY <2>4 DEF Withdraw, workerFrame
    <2> QED
      BY <1>7, <2>1, <2>2, <2>3, <2>4 DEF ConsoleNext
  <1>8. CASE Outside
    <2>1. CASE Mcu
      BY <2>1 DEF Mcu, linkVars
    <2>2. CASE LoseUp
      BY <2>2 DEF LoseUp, linkVars
    <2>3. CASE LoseDown
      BY <2>3 DEF LoseDown, linkVars
    <2>4. CASE McuTrips
      BY <2>4 DEF McuTrips, linkVars
    <2>5. CASE McuFaults
      BY <2>5 DEF McuFaults, linkVars
    <2>6. CASE McuReconfigures
      BY <2>6 DEF McuReconfigures, linkVars
    <2>7. CASE McuReboots
      BY <2>7 DEF McuReboots, linkVars
    <2> QED
      BY <1>8, <2>1, <2>2, <2>3, <2>4, <2>5, <2>6, <2>7 DEF Outside
  <1>9. CASE Tick
    BY <1>9 DEF Tick, workerFrame
  <1> QED
    BY <1>0, <1>1, <1>2, <1>3, <1>4, <1>5, <1>6, <1>7, <1>8, <1>9 DEF Next, Requests

\* A motion frame is chosen only while the permission stands on fresh evidence
\* and no STOP is waiting to go first.
THEOREM MotionNeedsPermit == Spec => MotionOnlyWhenPermitted
  <1>1. ASSUME IInv, [Next]_vars PROVE MotionStep
    <2> SUFFICES ASSUME hand'.op \in Motion, hand.op \notin Motion
                 PROVE  armed /\ Fresh /\ fault = 0 /\ ~desktop_inhibit /\ ~urgent
      BY DEF MotionStep
    <2>1. SelectJob
      BY <1>1, HandKept DEF HandStep
    <2>2. Allowed(command) /\ command \in Motion /\ ~urgent
      BY <2>1 DEF SelectJob
    <2>3. armed /\ Fresh /\ fault = 0
      BY <2>2 DEF Allowed
    <2> QED
      BY <1>1, <2>2, <2>3 DEF IInv, PermitSound
  <1> QED
    BY Safety, <1>1, PTL DEF Spec, MotionOnlyWhenPermitted

-----------------------------------------------------------------------------
(* Withdrawing the permission.                                              *)

\* A step that takes the permission away, and what goes with it.
LEMMA DisarmKept == IInv /\ [Next]_vars => DisarmStep
  <1> SUFFICES ASSUME IInv, [Next]_vars PROVE DisarmStep
    OBVIOUS
  <1> USE DEF IInv, DisarmStep
  <1>0. CASE UNCHANGED vars
    BY <1>0 DEF vars, permitVars, healthVars
  <1>1. CASE Worker
    <2>1. CASE Open
      BY <2>1 DEF Open, permitVars, healthVars
    <2>2. CASE OpenFails
      BY <2>2 DEF OpenFails, permitVars, healthVars
    <2>3. CASE Lock
      BY <2>3 DEF Lock, permitVars, healthVars
    <2>4. CASE ReadFails
      BY <2>4 DEF ReadFails, permitVars, healthVars
    <2>5. CASE SelectQuit
      BY <2>5 DEF SelectQuit, permitVars
    <2>6. CASE SelectStop
      BY <2>6 DEF SelectStop
    <2>7. CASE SelectJob
      BY <2>7 DEF SelectJob, permitVars
    <2>8. CASE RefuseJob
      BY <2>8 DEF RefuseJob, permitVars
    <2>9. CASE SelectPing
      BY <2>9 DEF SelectPing, SetArmed, Deadline
    <2>10. CASE SelectNothing
      BY <2>10 DEF SelectNothing, SetArmed, Deadline
    <2>11. CASE Write
      BY <2>11 DEF Write, permitVars, healthVars
    <2>12. CASE WriteFails
      BY <2>12 DEF WriteFails, permitVars, healthVars
    <2>13. CASE ExitStop
      BY <2>13 DEF ExitStop, permitVars, healthVars
    <2>14. CASE ExitLast
      BY <2>14 DEF ExitLast, healthVars, SetArmed
    <2>15. CASE Receive
      <3> DEFINE f == Head(down)
      <3>1. CASE OnEvent(f)
        BY <3>1 DEF OnEvent, Disarm, SetArmed
      <3>2. CASE OnPong(f)
        BY <3>2 DEF OnPong, Disarm, SetArmed
      <3>3. CASE OnData(f)
        BY <3>3 DEF OnData, Disarm, SetArmed
      <3>4. CASE OnAck(f)
        BY <3>4 DEF OnAck, Disarm, SetArmed
      <3>5. CASE UNCHANGED permitVars
        BY <3>5 DEF permitVars
      <3> QED
        BY <2>15, <3>1, <3>2, <3>3, <3>4, <3>5 DEF Receive
    <2> QED
      BY <1>1, <2>1, <2>2, <2>3, <2>4, <2>5, <2>6, <2>7, <2>8, <2>9, <2>10, <2>11, <2>12, <2>13,
         <2>14, <2>15
         DEF Worker
  <1>2. ASSUME NEW c \in Callers, NEW op \in Ops, Call(c, op) PROVE DisarmStep
    <2>1. CASE op = "clear"
      <3>1. cpc[c] = "idle" /\ cpc'[c] = "try" /\ creq'[c] = "clear"
        BY <1>2, <2>1 DEF Call, TypeOK, CallTypeOK
      <3> QED
        BY <3>1 DEF ClearCalled
    <2>2. CASE op # "clear"
      BY <1>2, <2>2 DEF Call, SetArmed
    <2> QED
      BY <2>1, <2>2
  <1>3. ASSUME NEW c \in Callers, NEW op \in Ops, CallDesktop(c, op) PROVE DisarmStep
    BY <1>3 DEF CallDesktop, healthVars
  <1>4. ASSUME NEW c \in Callers, TurnAway(c) PROVE DisarmStep
    BY <1>4 DEF TurnAway, permitVars, healthVars
  <1>5. ASSUME NEW c \in Callers, Accept(c) PROVE DisarmStep
    BY <1>5 DEF Accept, permitVars, healthVars
  <1>6. ASSUME NEW c \in Callers, Return(c) PROVE DisarmStep
    BY <1>6 DEF Return, healthVars, SetArmed
  <1>7. CASE ConsoleNext
    <2>1. CASE Start
      BY <2>1 DEF Start, PermitSound, ServingOK
    <2>2. ASSUME NEW how, Arm(how) PROVE DisarmStep
      BY <2>2 DEF Arm, healthVars
    <2>3. CASE DesktopOn
      BY <2>3 DEF DesktopOn, healthVars
    <2>4. ASSUME NEW how, Withdraw(how) PROVE DisarmStep
      BY <2>4 DEF Withdraw, healthVars, SetArmed
    <2> QED
      BY <1>7, <2>1, <2>2, <2>3, <2>4 DEF ConsoleNext
  <1>8. CASE Outside
    <2>1. CASE Mcu
      BY <2>1 DEF Mcu, permitVars, healthVars, linkVars
    <2>2. CASE LoseUp
      BY <2>2 DEF LoseUp, permitVars, healthVars, linkVars
    <2>3. CASE LoseDown
      BY <2>3 DEF LoseDown, permitVars, healthVars, linkVars
    <2>4. CASE McuTrips
      BY <2>4 DEF McuTrips, permitVars, healthVars, linkVars
    <2>5. CASE McuFaults
      BY <2>5 DEF McuFaults, permitVars, healthVars, linkVars
    <2>6. CASE McuReconfigures
      BY <2>6 DEF McuReconfigures, permitVars, healthVars, linkVars
    <2>7. CASE McuReboots
      BY <2>7 DEF McuReboots, permitVars, healthVars, linkVars
    <2> QED
      BY <1>8, <2>1, <2>2, <2>3, <2>4, <2>5, <2>6, <2>7 DEF Outside
  <1>9. CASE Tick
    BY <1>9 DEF Tick
  <1> QED
    BY <1>0, <1>1, <1>2, <1>3, <1>4, <1>5, <1>6, <1>7, <1>8, <1>9 DEF Next, Requests

\* The recorded uptime and configuration change only in receive().
LEMMA RecordKept ==
  ASSUME [Next]_vars, ~Receive
  PROVE  uptime' = uptime /\ config' = config
  <1>0. CASE UNCHANGED vars
    BY <1>0 DEF vars, healthVars
  <1>1. CASE Worker
    <2>1. CASE Open \/ OpenFails \/ Lock \/ ReadFails \/ Write \/ WriteFails \/ ExitStop \/ ExitLast
      BY <2>1 DEF Open, OpenFails, Lock, ReadFails, Write, WriteFails, ExitStop, ExitLast, healthVars
    <2>2. CASE SelectQuit \/ SelectStop \/ SelectJob \/ RefuseJob \/ SelectPing \/ SelectNothing
      BY <2>2 DEF SelectQuit, SelectStop, SelectJob, RefuseJob, SelectPing, SelectNothing,
                  selectFrame, healthVars
    <2> QED
      BY <1>1, <2>1, <2>2 DEF Worker
  <1>2. CASE Requests
    BY <1>2 DEF Requests, Call, CallDesktop, TurnAway, Accept, Return, healthVars
  <1>3. CASE ConsoleNext
    BY <1>3 DEF ConsoleNext, Start, Arm, DesktopOn, Withdraw, healthVars
  <1>4. CASE Outside
    BY <1>4 DEF Outside, Mcu, LoseUp, LoseDown, McuTrips, McuFaults, McuReconfigures, McuReboots,
                linkVars, healthVars
  <1>5. CASE Tick
    BY <1>5 DEF Tick
  <1> QED
    BY <1>0, <1>1, <1>2, <1>3, <1>4, <1>5 DEF Next

\* A frame that shows another controller takes the permission away.
LEMMA ControllerKept == IInv /\ [Next]_vars => ControllerStep
  <1> SUFFICES ASSUME IInv, [Next]_vars, armed, armed'
               PROVE  uptime' >= uptime /\ config' = config
    BY DEF ControllerStep
  <1>1. uptime \in Nat /\ seen
    BY BoundsAssumption DEF IInv, TypeOK, HealthTypeOK, PermitSound
  <1>2. CASE ~Receive
    BY <1>1, <1>2, RecordKept
  <1>3. CASE Receive
    <2> DEFINE f == Head(down)
    <2>1. f \in DownFrames
      BY <1>3 DEF Receive, IInv, TypeOK, WireTypeOK
    <2>2. f.uptime \in Nat
      BY <2>1, BoundsAssumption DEF DownFrames
    <2>3. CASE OnEvent(f)
      BY <2>3 DEF OnEvent, Disarm, SetArmed
    <2>4. CASE OnPong(f)
      <3>1. ~Restarted(f) /\ uptime' = f.uptime /\ config' = f.config
        BY <2>4 DEF OnPong, Disarm, SetArmed
      <3> QED
        BY <1>1, <2>2, <3>1 DEF Restarted
    <2>5. CASE OnData(f)
      <3>1. uptime' = uptime /\ config' = config
        BY <2>5 DEF OnData, Disarm, SetArmed
      <3> QED
        BY <1>1, <3>1
    <2>6. CASE OnAck(f)
      <3>1. uptime' = uptime /\ config' = config
        BY <2>6 DEF OnAck, healthVars
      <3> QED
        BY <1>1, <3>1
    <2>7. CASE UNCHANGED healthVars
      BY <1>1, <2>7 DEF healthVars
    <2> QED
      BY <1>3, <2>3, <2>4, <2>5, <2>6, <2>7 DEF Receive
  <1> QED
    BY <1>2, <1>3

\* Whoever withdraws the permission also gets a STOP on its way, unless the
\* controller reported the fault itself, the worker has just written its last
\* STOP, or the operator is clearing a fault; and no permission lasts beyond a
\* restart or a reconfiguration that a frame shows to receive().
THEOREM PermitEndsWithStop == Spec => PermitKeptOrStopped
  <1>1. IInv /\ [Next]_vars => ControllerStep /\ DisarmStep
    BY ControllerKept, DisarmKept
  <1> QED
    BY Safety, <1>1, PTL DEF Spec, PermitKeptOrStopped

\* The link remembers that it took the permission away.
LEMMA LossKept == IInv /\ [Next]_vars => LossStep
  <1> SUFFICES ASSUME IInv, [Next]_vars PROVE LossStep
    OBVIOUS
  <1> USE DEF IInv, LossStep
  <1>0. CASE UNCHANGED vars
    BY <1>0 DEF vars, permitVars, healthVars
  <1>1. CASE Worker
    <2>1. CASE Open
      BY <2>1 DEF Open, permitVars, healthVars
    <2>2. CASE OpenFails
      BY <2>2 DEF OpenFails, permitVars, healthVars
    <2>3. CASE Lock
      BY <2>3 DEF Lock, permitVars, healthVars
    <2>4. CASE ReadFails
      BY <2>4 DEF ReadFails, permitVars, healthVars
    <2>5. CASE SelectQuit
      BY <2>5 DEF SelectQuit, permitVars
    <2>6. CASE SelectStop
      BY <2>6 DEF SelectStop, SetArmed, Deadline
    <2>7. CASE SelectJob
      BY <2>7 DEF SelectJob, permitVars
    <2>8. CASE RefuseJob
      BY <2>8 DEF RefuseJob, permitVars
    <2>9. CASE SelectPing
      BY <2>9 DEF SelectPing, SetArmed, Deadline
    <2>10. CASE SelectNothing
      BY <2>10 DEF SelectNothing, SetArmed, Deadline
    <2>11. CASE Write
      BY <2>11 DEF Write, permitVars, healthVars
    <2>12. CASE WriteFails
      BY <2>12 DEF WriteFails, permitVars, healthVars
    <2>13. CASE ExitStop
      BY <2>13 DEF ExitStop, permitVars, healthVars
    <2>14. CASE ExitLast
      BY <2>14 DEF ExitLast, healthVars, SetArmed
    <2>15. CASE Receive
      <3> DEFINE f == Head(down)
      <3>1. CASE OnEvent(f)
        BY <3>1 DEF OnEvent, Disarm, SetArmed
      <3>2. CASE OnPong(f)
        BY <3>2 DEF OnPong, Disarm, SetArmed
      <3>3. CASE OnData(f)
        BY <3>3 DEF OnData, Disarm, SetArmed
      <3>4. CASE OnAck(f)
        BY <3>4 DEF OnAck, Disarm, SetArmed
      <3>5. CASE UNCHANGED permitVars
        BY <3>5 DEF permitVars
      <3> QED
        BY <2>15, <3>1, <3>2, <3>3, <3>4, <3>5 DEF Receive
    <2> QED
      BY <1>1, <2>1, <2>2, <2>3, <2>4, <2>5, <2>6, <2>7, <2>8, <2>9, <2>10, <2>11, <2>12, <2>13,
         <2>14, <2>15
         DEF Worker
  <1>2. ASSUME NEW c \in Callers, NEW op \in Ops, Call(c, op) PROVE LossStep
    <2>1. \A b \in Callers : ~(cpc[b] = "wait" /\ cpc'[b] = "idle")
      BY <1>2 DEF Call, TypeOK, CallTypeOK
    <2> QED
      BY <1>2, <2>1 DEF Call, LinkStep, LockFree
  <1>3. ASSUME NEW c \in Callers, NEW op \in Ops, CallDesktop(c, op) PROVE LossStep
    BY <1>3 DEF CallDesktop, healthVars
  <1>4. ASSUME NEW c \in Callers, TurnAway(c) PROVE LossStep
    BY <1>4 DEF TurnAway, permitVars, healthVars
  <1>5. ASSUME NEW c \in Callers, Accept(c) PROVE LossStep
    BY <1>5 DEF Accept, permitVars, healthVars
  <1>6. ASSUME NEW c \in Callers, Return(c) PROVE LossStep
    BY <1>6 DEF Return, healthVars, SetArmed
  <1>7. CASE ConsoleNext
    <2>1. CASE Start
      BY <2>1 DEF Start, PermitSound, ServingOK
    <2>2. ASSUME NEW how, Arm(how) PROVE LossStep
      BY <2>2 DEF Arm, healthVars
    <2>3. CASE DesktopOn
      BY <2>3 DEF DesktopOn, healthVars
    <2>4. ASSUME NEW how, Withdraw(how) PROVE LossStep
      BY <2>4 DEF Withdraw, LinkStep, LockFree, callVars
    <2> QED
      BY <1>7, <2>1, <2>2, <2>3, <2>4 DEF ConsoleNext
  <1>8. CASE Outside
    <2>1. CASE Mcu
      BY <2>1 DEF Mcu, permitVars, healthVars, linkVars
    <2>2. CASE LoseUp
      BY <2>2 DEF LoseUp, permitVars, healthVars, linkVars
    <2>3. CASE LoseDown
      BY <2>3 DEF LoseDown, permitVars, healthVars, linkVars
    <2>4. CASE McuTrips
      BY <2>4 DEF McuTrips, permitVars, healthVars, linkVars
    <2>5. CASE McuFaults
      BY <2>5 DEF McuFaults, permitVars, healthVars, linkVars
    <2>6. CASE McuReconfigures
      BY <2>6 DEF McuReconfigures, permitVars, healthVars, linkVars
    <2>7. CASE McuReboots
      BY <2>7 DEF McuReboots, permitVars, healthVars, linkVars
    <2> QED
      BY <1>8, <2>1, <2>2, <2>3, <2>4, <2>5, <2>6, <2>7 DEF Outside
  <1>9. CASE Tick
    BY <1>9 DEF Tick
  <1> QED
    BY <1>0, <1>1, <1>2, <1>3, <1>4, <1>5, <1>6, <1>7, <1>8, <1>9 DEF Next, Requests

\* A permission the link loses by itself is not given back by the voice route
\* without new consent.
THEOREM LossIsSticky == Spec => LossNeedsConsent
  BY Safety, LossKept, PTL DEF Spec, LossNeedsConsent

-----------------------------------------------------------------------------
(* Refinement of OneShot.                                                   *)

\* A step that ends the current request, and says nothing untrue.
LEMMA FinishImplements ==
  ASSUME UNCHANGED <<pending, sent, acted>>, pending, ~done, done' = TRUE, result' \in Results,
         result' = "ok" => acted = 1, result' = "refused" => ~sent
  PROVE  Request!Next
  BY DEF Request!Next, Request!Finish

\* Every step is a step of OneShot, or changes nothing it speaks of.
LEMMA RequestStep == IInv /\ [Next]_vars => [Request!Next]_(Request!vars)
  <1> SUFFICES ASSUME IInv, [Next]_vars PROVE [Request!Next]_(Request!vars)
    OBVIOUS
  <1> USE DEF IInv
  <1>0. CASE UNCHANGED vars
    BY <1>0 DEF vars, Request!vars, jobVars, histVars
  <1>1. CASE Worker
    <2>1. CASE Open
      BY <2>1 DEF Open, Request!vars, jobVars, histVars, workerFrame
    <2>2. CASE OpenFails
      BY <2>2 DEF OpenFails, Request!vars, jobVars, histVars, workerFrame
    <2>3. CASE Lock
      BY <2>3 DEF Lock, Request!vars, jobVars, histVars, workerFrame
    <2>4. CASE ReadFails
      BY <2>4 DEF ReadFails, Request!vars, jobVars, histVars, workerFrame
    <2>5. CASE SelectQuit
      BY <2>5 DEF SelectQuit, Request!vars, histVars, workerFrame, selectFrame
    <2>6. CASE SelectStop
      <3>1. UNCHANGED <<pending, sent, acted>> /\ Finish(Expired, "timeout")
        BY <2>6 DEF SelectStop, Deadline, selectFrame, workerFrame, histVars
      <3>2. CASE Expired
        <4>1. pending /\ ~done /\ done' = TRUE /\ result' = "timeout"
          BY <3>1, <3>2 DEF Finish, Expired, TypeOK, JobTypeOK
        <4> QED
          BY <3>1, <4>1, FinishImplements DEF Results
      <3>3. CASE ~(Expired)
        BY <3>1, <3>3 DEF Finish, Request!vars, TypeOK, JobTypeOK
      <3> QED
        BY <3>2, <3>3
    <2>7. CASE SelectJob
      BY <2>7
         DEF SelectJob, Queued, Request!Next, Request!Transmit, selectFrame, workerFrame, histVars
    <2>8. CASE RefuseJob
      <3>1. UNCHANGED <<pending, sent, acted>> /\ pending /\ ~sent /\ ~done
        BY <2>8 DEF RefuseJob, Queued, selectFrame, workerFrame, histVars
      <3>2. done' = TRUE /\ result' \in {"timeout", "refused"}
        BY <2>8 DEF RefuseJob, Finish, TypeOK, JobTypeOK
      <3> QED
        BY <3>1, <3>2, FinishImplements DEF Results
    <2>9. CASE SelectPing
      <3>1. UNCHANGED <<pending, sent, acted>> /\ Finish(Expired, "timeout")
        BY <2>9 DEF SelectPing, Deadline, selectFrame, workerFrame, histVars
      <3>2. CASE Expired
        <4>1. pending /\ ~done /\ done' = TRUE /\ result' = "timeout"
          BY <3>1, <3>2 DEF Finish, Expired, TypeOK, JobTypeOK
        <4> QED
          BY <3>1, <4>1, FinishImplements DEF Results
      <3>3. CASE ~(Expired)
        BY <3>1, <3>3 DEF Finish, Request!vars, TypeOK, JobTypeOK
      <3> QED
        BY <3>2, <3>3
    <2>10. CASE SelectNothing
      <3>1. UNCHANGED <<pending, sent, acted>> /\ Finish(Expired, "timeout")
        BY <2>10 DEF SelectNothing, Deadline, selectFrame, workerFrame, histVars
      <3>2. CASE Expired
        <4>1. pending /\ ~done /\ done' = TRUE /\ result' = "timeout"
          BY <3>1, <3>2 DEF Finish, Expired, TypeOK, JobTypeOK
        <4> QED
          BY <3>1, <4>1, FinishImplements DEF Results
      <3>3. CASE ~(Expired)
        BY <3>1, <3>3 DEF Finish, Request!vars, TypeOK, JobTypeOK
      <3> QED
        BY <3>2, <3>3
    <2>11. CASE Write
      BY <2>11 DEF Write, Request!vars, jobVars, histVars, workerFrame
    <2>12. CASE WriteFails
      BY <2>12 DEF WriteFails, Request!vars, jobVars, histVars, workerFrame
    <2>13. CASE ExitStop
      BY <2>13 DEF ExitStop, Request!vars, jobVars, histVars, workerFrame
    <2>14. CASE ExitLast
      <3>1. UNCHANGED <<pending, sent, acted>> /\ Finish(pending /\ ~done, "dead")
        BY <2>14 DEF ExitLast, workerFrame, histVars
      <3>2. CASE pending /\ ~done
        <4>1. pending /\ ~done /\ done' = TRUE /\ result' = "dead"
          BY <3>1, <3>2 DEF Finish, TypeOK, JobTypeOK
        <4> QED
          BY <3>1, <4>1, FinishImplements DEF Results
      <3>3. CASE ~(pending /\ ~done)
        BY <3>1, <3>3 DEF Finish, Request!vars, TypeOK, JobTypeOK
      <3> QED
        BY <3>2, <3>3
    <2>15. CASE Receive
      <3> DEFINE f == Head(down)
      <3>1. UNCHANGED <<pending, sent, acted>>
        BY <2>15 DEF Receive, workerFrame, histVars
      <3>2. f \in DownFrames /\ (f.tag = "job" /\ f.kind # "nak" => AckIn(down))
        BY <2>15, TailFacts, TailJob DEF Receive, TypeOK, WireTypeOK
      <3>3. /\ (done' = done /\ result' = result) \/ (pending /\ ~done /\ done')
            /\ result' # result => result' \in {"ok", "cancelled", "remote"}
            /\ result' = "ok" /\ ~(done' = done /\ result' = result) => sent /\ f.tag = "job" /\ f.kind # "nak"
            /\ done' \in BOOLEAN /\ result' \in Results
        BY <2>15, <3>2, ReceiveServing, ReceiveOk, ReceiveTypes DEF Receive
      <3>4. CASE done' = done /\ result' = result
        BY <3>1, <3>4 DEF Request!vars
      <3>5. CASE ~(done' = done /\ result' = result)
        <4>1. pending /\ ~done /\ done' = TRUE
          BY <3>3, <3>5
        <4>2. result' = "ok" => acted = 1
          BY <3>2, <3>3, <3>5 DEF JobFrameOK
        <4>3. result' # "refused"
          BY <3>3, <4>1 DEF ServingOK
        <4> QED
          BY <3>1, <3>3, <4>1, <4>2, <4>3, FinishImplements
      <3> QED
        BY <3>4, <3>5
    <2> QED
      BY <1>1, <2>1, <2>2, <2>3, <2>4, <2>5, <2>6, <2>7, <2>8, <2>9, <2>10, <2>11, <2>12, <2>13,
         <2>14, <2>15
         DEF Worker
  <1>2. ASSUME NEW c \in Callers, NEW op \in Ops, Call(c, op) PROVE [Request!Next]_(Request!vars)
    BY <1>2 DEF Call, Request!vars, jobVars
  <1>3. ASSUME NEW c \in Callers, NEW op \in Ops, CallDesktop(c, op)
          PROVE [Request!Next]_(Request!vars)
    BY <1>3 DEF CallDesktop, Request!vars, jobVars, histVars
  <1>4. ASSUME NEW c \in Callers, TurnAway(c) PROVE [Request!Next]_(Request!vars)
    BY <1>4 DEF TurnAway, Request!vars, jobVars, histVars
  <1>5. ASSUME NEW c \in Callers, Accept(c) PROVE [Request!Next]_(Request!vars)
    <2>1. ~pending
      BY <1>5 DEF Accept, ServingOK
    <2> QED
      BY <1>5, <2>1 DEF Accept, Request!Next, Request!Accept
  <1>6. ASSUME NEW c \in Callers, Return(c) PROVE [Request!Next]_(Request!vars)
    <2>1. UNCHANGED <<sent, acted>>
      BY <1>6 DEF Return, histVars
    <2>2. CASE pending
      BY <1>6, <2>1, <2>2 DEF Return, Request!Next, Request!Return
    <2>3. CASE ~pending
      <3>1. ~done /\ result = "none"
        BY <2>3 DEF ServingOK
      <3>2. pending = FALSE /\ done = FALSE
        BY <2>3, <3>1 DEF TypeOK, JobTypeOK
      <3> QED
        BY <1>6, <2>1, <3>1, <3>2 DEF Return, Request!vars
    <2> QED
      BY <2>2, <2>3
  <1>7. CASE ConsoleNext
    <2>1. CASE Start
      BY <2>1 DEF Start, Request!vars, jobVars, histVars
    <2>2. ASSUME NEW how, Arm(how) PROVE [Request!Next]_(Request!vars)
      BY <2>2 DEF Arm, Request!vars, jobVars, histVars
    <2>3. CASE DesktopOn
      BY <2>3 DEF DesktopOn, Request!vars, jobVars, histVars
    <2>4. ASSUME NEW how, Withdraw(how) PROVE [Request!Next]_(Request!vars)
      BY <2>4 DEF Withdraw, Request!vars, jobVars
    <2> QED
      BY <1>7, <2>1, <2>2, <2>3, <2>4 DEF ConsoleNext
  <1>8. CASE Outside
    <2>1. CASE Mcu
      <3> DEFINE f == Head(up)
      <3>1. f \in UpFrames /\ UNCHANGED <<pending, sent, done, result>>
        BY <2>1, TailFacts DEF Mcu, TypeOK, WireTypeOK, linkVars, jobVars
      <3>2. acted' = (IF f.tag = "job" /\ sent /\ acted < 2 THEN acted + 1 ELSE acted) \/ acted' = acted
        BY <2>1, <3>1, McuFrames DEF Mcu, Act
      <3>3. CASE acted' = acted
        BY <3>1, <3>3 DEF Request!vars
      <3>4. CASE acted' # acted
        <4>1. sent /\ f.tag = "job" /\ acted' = acted + 1
          BY <3>2, <3>4
        <4>2. ~NoneIn(up)
          BY <2>1, <4>1, TailJob DEF Mcu, TypeOK, WireTypeOK
        <4>3. acted = 0 /\ acted' = 1
          BY <4>1, <4>2, SMT DEF JobFrameOK
        <4> QED
          BY <3>1, <4>1, <4>3 DEF Request!Next, Request!Act
      <3> QED
        BY <3>3, <3>4
    <2>2. CASE LoseUp
      BY <2>2 DEF LoseUp, Request!vars, jobVars, histVars, linkVars
    <2>3. CASE LoseDown
      BY <2>3 DEF LoseDown, Request!vars, jobVars, histVars, linkVars
    <2>4. CASE McuTrips
      BY <2>4 DEF McuTrips, Request!vars, jobVars, histVars, linkVars
    <2>5. CASE McuFaults
      BY <2>5 DEF McuFaults, Request!vars, jobVars, histVars, linkVars
    <2>6. CASE McuReconfigures
      BY <2>6 DEF McuReconfigures, Request!vars, jobVars, histVars, linkVars
    <2>7. CASE McuReboots
      BY <2>7 DEF McuReboots, Request!vars, jobVars, histVars, linkVars
    <2> QED
      BY <1>8, <2>1, <2>2, <2>3, <2>4, <2>5, <2>6, <2>7 DEF Outside
  <1>9. CASE Tick
    BY <1>9 DEF Tick, Request!vars, histVars
  <1> QED
    BY <1>0, <1>1, <1>2, <1>3, <1>4, <1>5, <1>6, <1>7, <1>8, <1>9 DEF Next, Requests

\* mcu_request transmits a request at most once, has it carried out at most
\* once, and tells the truth about it.
THEOREM RequestRefinesOneShot == Spec => RequestIsOneShot
  <1>1. Init => Request!Init
    BY DEF Init, Request!Init
  <1>2. IInv /\ [Next]_vars => [Request!Next]_(Request!vars)
    BY RequestStep
  <1> QED
    BY Safety, <1>1, <1>2, PTL DEF Spec, RequestIsOneShot, Request!Spec
=============================================================================
