-------------------------- MODULE AgentTurnProofs --------------------------
(***************************************************************************)
(* The inductive invariant of AgentTurn and the safety properties that     *)
(* follow from it, for every set of commands, every bound and every set of *)
(* hazards.                                                                *)
(***************************************************************************)
EXTENDS AgentTurn, TLAPS

\* The invariant holds before the engine is started.
LEMMA InitIInv == Init => IInv
  <1> SUFFICES ASSUME Init PROVE IInv
    OBVIOUS
  <1> USE BoundsAssumption DEF Init, Locks, NoReport, Reports
  <1>0. FlagTypeOK
    BY DEF FlagTypeOK
  <1>1. BridgeTypeOK
    BY DEF BridgeTypeOK
  <1>2. ToolTypeOK
    BY DEF ToolTypeOK
  <1>3. AskTypeOK
    BY DEF AskTypeOK
  <1>4. EngineTypeOK
    BY DEF EngineTypeOK
  <1>5. HistTypeOK
    BY DEF HistTypeOK
  <1>6. RoomOK /\ SlotOK /\ PermitOK /\ ToolOnce
    BY DEF RoomOK, Reserved, SlotOK, PermitOK, ToolOnce
  <1>7. HolderOK /\ GivenOnce /\ OwnReply
    BY DEF HolderOK, GivenOnce, OwnReply
  <1> QED
    BY <1>0, <1>1, <1>2, <1>3, <1>4, <1>5, <1>6, <1>7 DEF IInv, TypeOK

\* Every step keeps the flags Boolean.
LEMMA FlagTypeStep == IInv /\ [Next]_vars => FlagTypeOK'
  <1> SUFFICES ASSUME IInv, [Next]_vars PROVE FlagTypeOK'
    OBVIOUS
  <1> USE DEF IInv, TypeOK, Locks, FlagTypeOK
  <1>0. CASE UNCHANGED vars
    BY <1>0 DEF vars, bridgeVars, toolVars, histVars
  <1>1. CASE Claim \/ Finish \/ Take \/ NoQuestion \/ Report \/ EndProduct
            \/ (\E says \in {"ok", "failed"} : ToolReturn(says))
            \/ (\E good \in BOOLEAN : Answer(good))
            \/ (\E l \in Locks : SubmitRefused(l))
    <2>1. UNCHANGED <<attached, pending, ready, cancelled, overdue, active,
                      used, expired, revoked, meddled>>
      BY <1>1 DEF Claim, Finish, Take, NoQuestion, Report, EndProduct,
           ToolReturn, Answer, SubmitRefused, Leave, bridgeVars, toolVars,
           histVars
    <2> QED
      BY <2>1
  <1>2. CASE Attach
    BY <1>2 DEF Attach, bridgeVars, toolVars, histVars
  <1>3. CASE Detach
    BY <1>3 DEF Detach, Drop, bridgeVars, toolVars, histVars
  <1>4. CASE Deliver
    BY <1>4 DEF Deliver, Awaited, bridgeVars, toolVars, histVars
  <1>5. ASSUME NEW c \in Commands \cup {"status"}, ToolCall(c)
       PROVE  FlagTypeOK'
    BY <1>5 DEF ToolCall, bridgeVars, toolVars, histVars
  <1>6. ASSUME NEW c \in Commands \cup {NoCommand}, BeginTurn(c)
       PROVE  FlagTypeOK'
    BY <1>6 DEF BeginTurn, Room, bridgeVars, toolVars, histVars
  <1>7. CASE BeginProduct
    BY <1>7 DEF BeginProduct, Room, bridgeVars, toolVars, histVars
  <1>8. ASSUME NEW l \in Locks, Submit(l)
       PROVE  FlagTypeOK'
    BY <1>8 DEF Submit, Answered, Free, bridgeVars, toolVars, histVars
  <1>9. ASSUME NEW l \in Locks, Poll(l)
       PROVE  FlagTypeOK'
    BY <1>9 DEF Poll, Answered, bridgeVars, toolVars, histVars
  <1>10. CASE GiveUp
    BY <1>10 DEF GiveUp, Drop, Leave, bridgeVars, toolVars, histVars
  <1>11. CASE EndTurn
    BY <1>11 DEF EndTurn, Leave, bridgeVars, toolVars, histVars
  <1>12. CASE UserCancel
    BY <1>12 DEF UserCancel, Drop, bridgeVars, toolVars, histVars
  <1>13. CASE DeadlinePasses
    BY <1>13 DEF DeadlinePasses, bridgeVars, toolVars, histVars
  <1>14. CASE PermitExpires
    BY <1>14 DEF PermitExpires, bridgeVars, toolVars, histVars
  <1> QED
    BY <1>0, <1>1, <1>2, <1>3, <1>4, <1>5, <1>6, <1>7, <1>8, <1>9, <1>10,
       <1>11, <1>12, <1>13, <1>14
       DEF Next, EngineNext, AskNext

\* Every step keeps the types of the bridge.
LEMMA BridgeTypeStep == IInv /\ [Next]_vars => BridgeTypeOK'
  <1> SUFFICES ASSUME IInv, [Next]_vars PROVE BridgeTypeOK'
    OBVIOUS
  <1> USE BoundsAssumption DEF IInv, TypeOK, Locks, BridgeTypeOK, RoomOK,
              Reserved
  <1>0. CASE UNCHANGED vars
    BY <1>0 DEF vars, bridgeVars
  <1>1. CASE Claim \/ Attach \/ Finish \/ Take \/ BeginProduct \/ NoQuestion
            \/ Report \/ EndTurn \/ EndProduct \/ DeadlinePasses
            \/ PermitExpires
            \/ (\E c \in Commands \cup {"status"} : ToolCall(c))
            \/ (\E says \in {"ok", "failed"} : ToolReturn(says))
            \/ (\E good \in BOOLEAN : Answer(good))
            \/ (\E c \in Commands \cup {NoCommand} : BeginTurn(c))
            \/ (\E l \in Locks : SubmitRefused(l))
    BY <1>1 DEF Claim, Attach, Finish, Take, BeginProduct, NoQuestion, Report,
         EndTurn, EndProduct, DeadlinePasses, PermitExpires, ToolCall,
         ToolReturn, Answer, BeginTurn, SubmitRefused, bridgeVars
  <1>2. CASE Detach
    BY <1>2 DEF Detach, Drop, bridgeVars
  <1>3. CASE Deliver
    <2>1. Head(outbox) \in Answers
      BY <1>3 DEF Deliver, EngineTypeOK
    <2> QED
      BY <1>3, <2>1 DEF Deliver, Awaited, Requests, Answers, bridgeVars
  <1>4. ASSUME NEW l \in Locks, Submit(l)
       PROVE  BridgeTypeOK'
    BY <1>4 DEF Submit, Answered, Free, bridgeVars
  <1>5. ASSUME NEW l \in Locks, Poll(l)
       PROVE  BridgeTypeOK'
    BY <1>5 DEF Poll, Answered, bridgeVars
  <1>6. CASE GiveUp
    BY <1>6 DEF GiveUp, Drop, Leave, bridgeVars
  <1>7. CASE UserCancel
    BY <1>7 DEF UserCancel, Drop, bridgeVars
  <1> QED
    BY <1>0, <1>1, <1>2, <1>3, <1>4, <1>5, <1>6, <1>7
       DEF Next, EngineNext, AskNext

\* Every step keeps the types of the tool.
LEMMA ToolTypeStep == IInv /\ [Next]_vars => ToolTypeOK'
  <1> SUFFICES ASSUME IInv, [Next]_vars PROVE ToolTypeOK'
    OBVIOUS
  <1> USE BoundsAssumption DEF IInv, TypeOK, Locks, ToolTypeOK, EngineTypeOK,
              Reports
  <1>0. CASE UNCHANGED vars
    BY <1>0 DEF vars, toolVars
  <1>1. CASE Claim \/ Attach \/ Detach \/ Finish \/ Take \/ Deliver
            \/ BeginProduct \/ NoQuestion \/ GiveUp \/ Report \/ EndTurn
            \/ EndProduct \/ UserCancel \/ DeadlinePasses \/ PermitExpires
            \/ (\E c \in Commands \cup {"status"} : ToolCall(c))
            \/ (\E good \in BOOLEAN : Answer(good))
            \/ (\E l \in Locks : SubmitRefused(l))
            \/ (\E l \in Locks : Submit(l)) \/ (\E l \in Locks : Poll(l))
    BY <1>1 DEF Claim, Attach, Detach, Finish, Take, Deliver, BeginProduct,
         NoQuestion, GiveUp, Report, EndTurn, EndProduct, UserCancel,
         DeadlinePasses, PermitExpires, ToolCall, Answer, SubmitRefused,
         Submit, Poll, toolVars
  <1>2. ASSUME NEW says \in {"ok", "failed"}, ToolReturn(says)
       PROVE  ToolTypeOK'
    BY <1>2 DEF ToolReturn, toolVars
  <1>3. ASSUME NEW c \in Commands \cup {NoCommand}, BeginTurn(c)
       PROVE  ToolTypeOK'
    BY <1>3 DEF BeginTurn, Room, toolVars
  <1> QED
    BY <1>0, <1>1, <1>2, <1>3
       DEF Next, EngineNext, AskNext

\* Every step keeps the types of the askers.
LEMMA AskTypeStep == IInv /\ [Next]_vars => AskTypeOK'
  <1> SUFFICES ASSUME IInv, [Next]_vars PROVE AskTypeOK'
    OBVIOUS
  <1> USE BoundsAssumption DEF IInv, TypeOK, Locks, AskTypeOK, BridgeTypeOK,
              RoomOK, Reserved
  <1>0. CASE UNCHANGED vars
    BY <1>0 DEF vars, askVars
  <1>1. CASE Claim \/ Attach \/ Detach \/ Finish \/ Take \/ Deliver
            \/ UserCancel \/ DeadlinePasses \/ PermitExpires
            \/ (\E c \in Commands \cup {"status"} : ToolCall(c))
            \/ (\E says \in {"ok", "failed"} : ToolReturn(says))
            \/ (\E good \in BOOLEAN : Answer(good))
    BY <1>1 DEF Claim, Attach, Detach, Finish, Take, Deliver, UserCancel,
         DeadlinePasses, PermitExpires, ToolCall, ToolReturn, Answer, askVars
  <1>2. ASSUME NEW c \in Commands \cup {NoCommand}, BeginTurn(c)
       PROVE  AskTypeOK'
    BY <1>2 DEF BeginTurn, Room, askVars
  <1>3. CASE BeginProduct
    BY <1>3 DEF BeginProduct, Room, askVars
  <1>4. CASE NoQuestion
    BY <1>4 DEF NoQuestion, askVars
  <1>5. ASSUME NEW l \in Locks, SubmitRefused(l)
       PROVE  AskTypeOK'
    BY <1>5 DEF SubmitRefused, Answered, Free, askVars
  <1>6. ASSUME NEW l \in Locks, Submit(l)
       PROVE  AskTypeOK'
    BY <1>6 DEF Submit, Answered, Free, askVars
  <1>7. ASSUME NEW l \in Locks, Poll(l)
       PROVE  AskTypeOK'
    BY <1>7 DEF Poll, Answered, askVars
  <1>8. CASE GiveUp
    BY <1>8 DEF GiveUp, Drop, Leave, askVars
  <1>9. CASE Report
    BY <1>9 DEF Report, askVars
  <1>10. CASE EndTurn
    BY <1>10 DEF EndTurn, Leave, askVars
  <1>11. CASE EndProduct
    BY <1>11 DEF EndProduct, Leave, askVars
  <1> QED
    BY <1>0, <1>1, <1>2, <1>3, <1>4, <1>5, <1>6, <1>7, <1>8, <1>9, <1>10,
       <1>11
       DEF Next, EngineNext, AskNext

\* Every step keeps the types of the engine.
LEMMA EngineTypeStep == IInv /\ [Next]_vars => EngineTypeOK'
  <1> SUFFICES ASSUME IInv, [Next]_vars PROVE EngineTypeOK'
    OBVIOUS
  <1> USE BoundsAssumption DEF IInv, TypeOK, Locks, EngineTypeOK,
              BridgeTypeOK, ToolTypeOK, RoomOK, Reserved, Requests, Answers
  <1>0. CASE UNCHANGED vars
    BY <1>0 DEF vars, busVars
  <1>1. CASE BeginProduct \/ NoQuestion \/ GiveUp \/ Report \/ EndTurn
            \/ EndProduct \/ UserCancel \/ DeadlinePasses \/ PermitExpires
            \/ (\E c \in Commands \cup {NoCommand} : BeginTurn(c))
            \/ (\E l \in Locks : SubmitRefused(l))
            \/ (\E l \in Locks : Poll(l))
    BY <1>1 DEF BeginProduct, NoQuestion, GiveUp, Report, EndTurn, EndProduct,
         UserCancel, DeadlinePasses, PermitExpires, BeginTurn, SubmitRefused,
         Poll, busVars
  <1>2. CASE Claim
    BY <1>2 DEF Claim, busVars
  <1>3. CASE Attach
    BY <1>3 DEF Attach, busVars
  <1>4. CASE Detach
    BY <1>4 DEF Detach, Drop, busVars
  <1>5. CASE Finish
    BY <1>5 DEF Finish, busVars
  <1>6. CASE Take
    BY <1>6 DEF Take, busVars
  <1>7. CASE Deliver
    BY <1>7 DEF Deliver, Awaited, busVars
  <1>8. ASSUME NEW c \in Commands \cup {"status"}, ToolCall(c)
       PROVE  EngineTypeOK'
    BY <1>8 DEF ToolCall, busVars
  <1>9. ASSUME NEW says \in {"ok", "failed"}, ToolReturn(says)
       PROVE  EngineTypeOK'
    BY <1>9 DEF ToolReturn, busVars
  <1>10. ASSUME NEW good \in BOOLEAN, Answer(good)
       PROVE  EngineTypeOK'
    BY <1>10 DEF Answer, busVars
  <1>11. ASSUME NEW l \in Locks, Submit(l)
       PROVE  EngineTypeOK'
    <2>1. sequence + 1 \in Requests
      BY <1>11 DEF Submit, AskTypeOK
    <2>2. inbox' \in Seq(Requests)
      <3>1. inbox' = Append(inbox, sequence + 1) \/ inbox' = inbox
        BY <1>11 DEF Submit
      <3>2. inbox \in Seq(Requests)
        BY DEF EngineTypeOK
      <3> HIDE DEF Requests
      <3> QED
        BY <2>1, <3>1, <3>2
    <2> QED
      BY <1>11, <2>2 DEF Submit
  <1> QED
    BY <1>0, <1>1, <1>2, <1>3, <1>4, <1>5, <1>6, <1>7, <1>8, <1>9, <1>10,
       <1>11
       DEF Next, EngineNext, AskNext

\* Every step keeps the types of the history.
LEMMA HistTypeStep == IInv /\ [Next]_vars => HistTypeOK'
  <1> SUFFICES ASSUME IInv, [Next]_vars PROVE HistTypeOK'
    OBVIOUS
  <1> USE BoundsAssumption DEF IInv, TypeOK, Locks, HistTypeOK, ToolTypeOK,
              BridgeTypeOK, EngineTypeOK, Reports, NoReport
  <1>0. CASE UNCHANGED vars
    BY <1>0 DEF vars, histVars
  <1>1. CASE Claim \/ Attach \/ Detach \/ Finish \/ Take \/ Deliver
            \/ BeginProduct \/ NoQuestion \/ GiveUp \/ EndProduct
            \/ UserCancel \/ DeadlinePasses \/ PermitExpires
            \/ (\E good \in BOOLEAN : Answer(good))
            \/ (\E l \in Locks : SubmitRefused(l))
            \/ (\E l \in Locks : Submit(l)) \/ (\E l \in Locks : Poll(l))
    <2>1. UNCHANGED <<calls, by, outcome, shown>>
      BY <1>1 DEF Claim, Attach, Detach, Finish, Take, Deliver, BeginProduct,
           NoQuestion, GiveUp, EndProduct, UserCancel, DeadlinePasses,
           PermitExpires, Answer, SubmitRefused, Submit, Poll, Drop,
           Drop, Leave, Leave, Drop, histVars
    <2> QED
      BY <2>1
  <1>2. ASSUME NEW c \in Commands \cup {"status"}, ToolCall(c)
       PROVE  HistTypeOK'
    BY <1>2 DEF ToolCall, histVars
  <1>3. ASSUME NEW says \in {"ok", "failed"}, ToolReturn(says)
       PROVE  HistTypeOK'
    BY <1>3 DEF ToolReturn, histVars
  <1>4. ASSUME NEW c \in Commands \cup {NoCommand}, BeginTurn(c)
       PROVE  HistTypeOK'
    BY <1>4 DEF BeginTurn, Room, histVars
  <1>5. CASE Report
    BY <1>5 DEF Report, histVars
  <1>6. CASE EndTurn
    BY <1>6 DEF EndTurn, Leave, histVars
  <1> QED
    BY <1>0, <1>1, <1>2, <1>3, <1>4, <1>5, <1>6
       DEF Next, EngineNext, AskNext

\* Every step keeps a request in reserve for each turn begun.
LEMMA RoomStep == IInv /\ [Next]_vars => RoomOK'
  <1> SUFFICES ASSUME IInv, [Next]_vars PROVE RoomOK'
    OBVIOUS
  <1> USE BoundsAssumption DEF IInv, TypeOK, Locks, RoomOK, Reserved,
              FlagTypeOK, BridgeTypeOK, AskTypeOK
  <1>0. CASE UNCHANGED vars
    BY <1>0 DEF vars, bridgeVars, askVars
  <1>1. CASE Claim \/ Attach \/ Detach \/ Finish \/ Take \/ Deliver
            \/ UserCancel \/ DeadlinePasses \/ PermitExpires
            \/ (\E c \in Commands \cup {"status"} : ToolCall(c))
            \/ (\E says \in {"ok", "failed"} : ToolReturn(says))
            \/ (\E good \in BOOLEAN : Answer(good))
    <2>1. UNCHANGED <<sequence, pc>>
      BY <1>1 DEF Claim, Attach, Detach, Finish, Take, Deliver, UserCancel,
           DeadlinePasses, PermitExpires, ToolCall, ToolReturn, Answer, Drop,
           Drop, bridgeVars, askVars
    <2> QED
      BY <2>1
  <1>2. ASSUME NEW c \in Commands \cup {NoCommand}, BeginTurn(c)
       PROVE  RoomOK'
    BY <1>2 DEF BeginTurn, Room, bridgeVars, askVars
  <1>3. CASE BeginProduct
    BY <1>3 DEF BeginProduct, Room, bridgeVars, askVars
  <1>4. CASE NoQuestion
    BY <1>4 DEF NoQuestion, bridgeVars, askVars
  <1>5. ASSUME NEW l \in Locks, SubmitRefused(l)
       PROVE  RoomOK'
    BY <1>5 DEF SubmitRefused, Answered, Free, bridgeVars, askVars
  <1>6. ASSUME NEW l \in Locks, Submit(l)
       PROVE  RoomOK'
    BY <1>6 DEF Submit, Answered, Free, bridgeVars, askVars
  <1>7. ASSUME NEW l \in Locks, Poll(l)
       PROVE  RoomOK'
    BY <1>7 DEF Poll, Answered, bridgeVars, askVars
  <1>8. CASE GiveUp
    BY <1>8 DEF GiveUp, Drop, Leave, bridgeVars, askVars
  <1>9. CASE Report
    BY <1>9 DEF Report, bridgeVars, askVars
  <1>10. CASE EndTurn
    BY <1>10 DEF EndTurn, Leave, bridgeVars, askVars
  <1>11. CASE EndProduct
    BY <1>11 DEF EndProduct, Leave, bridgeVars, askVars
  <1> QED
    BY <1>0, <1>1, <1>2, <1>3, <1>4, <1>5, <1>6, <1>7, <1>8, <1>9, <1>10,
       <1>11
       DEF Next, EngineNext, AskNext

\* Every step leaves the bridge with one request at most.
LEMMA SlotStep == IInv /\ [Next]_vars => SlotOK'
  <1> SUFFICES ASSUME IInv, [Next]_vars PROVE SlotOK'
    OBVIOUS
  <1> USE DEF IInv, TypeOK, Locks, SlotOK, HolderOK, FlagTypeOK, BridgeTypeOK,
              AskTypeOK
  <1>0. CASE UNCHANGED vars
    BY <1>0 DEF vars, bridgeVars
  <1>1. CASE Claim \/ Finish \/ Take \/ BeginProduct \/ NoQuestion \/ Report
            \/ EndTurn \/ EndProduct \/ DeadlinePasses \/ PermitExpires
            \/ (\E c \in Commands \cup {"status"} : ToolCall(c))
            \/ (\E says \in {"ok", "failed"} : ToolReturn(says))
            \/ (\E good \in BOOLEAN : Answer(good))
            \/ (\E c \in Commands \cup {NoCommand} : BeginTurn(c))
            \/ (\E l \in Locks : SubmitRefused(l))
    <2>1. UNCHANGED <<attached, pending, ready, result, cancelled, sequence,
                      chat, response>>
      BY <1>1 DEF Claim, Finish, Take, BeginProduct, NoQuestion, Report,
           EndTurn, EndProduct, DeadlinePasses, PermitExpires, ToolCall,
           ToolReturn, Answer, BeginTurn, SubmitRefused, Leave, Leave,
           bridgeVars
    <2> QED
      BY <2>1
  <1>2. CASE Attach
    BY <1>2 DEF Attach, bridgeVars
  <1>3. CASE Detach
    BY <1>3 DEF Detach, Drop, bridgeVars
  <1>4. CASE Deliver
    BY <1>4 DEF Deliver, Awaited, bridgeVars
  <1>5. ASSUME NEW l \in Locks, Submit(l)
       PROVE  SlotOK'
    BY <1>5 DEF Submit, Answered, Free, bridgeVars
  <1>6. ASSUME NEW l \in Locks, Poll(l)
       PROVE  SlotOK'
    BY <1>6 DEF Poll, Answered, bridgeVars
  <1>7. CASE GiveUp
    BY <1>7 DEF GiveUp, Drop, Leave, bridgeVars
  <1>8. CASE UserCancel
    BY <1>8 DEF UserCancel, Drop, bridgeVars
  <1> QED
    BY <1>0, <1>1, <1>2, <1>3, <1>4, <1>5, <1>6, <1>7, <1>8
       DEF Next, EngineNext, AskNext

\* Every step leaves each request with its one asker.
LEMMA HolderStep == IInv /\ [Next]_vars => HolderOK'
  <1> SUFFICES ASSUME IInv, [Next]_vars PROVE HolderOK'
    OBVIOUS
  <1> USE DEF IInv, TypeOK, Locks, HolderOK, SlotOK, FlagTypeOK, BridgeTypeOK,
              AskTypeOK
  <1>0. CASE UNCHANGED vars
    BY <1>0 DEF vars, bridgeVars, toolVars, askVars, busVars, histVars
  <1>1. CASE Take \/ DeadlinePasses \/ PermitExpires
            \/ (\E c \in Commands \cup {"status"} : ToolCall(c))
            \/ (\E says \in {"ok", "failed"} : ToolReturn(says))
            \/ (\E good \in BOOLEAN : Answer(good))
    <2>1. UNCHANGED <<attached, pending, ready, cancelled, sequence, chat, mine,
                      got, pc, engine, meddled>>
      BY <1>1 DEF Take, DeadlinePasses, PermitExpires, ToolCall, ToolReturn,
           Answer, bridgeVars, toolVars, askVars, busVars, histVars
    <2> QED
      BY <2>1
  <1>2. CASE Claim
    BY <1>2 DEF Claim, bridgeVars, toolVars, askVars, busVars, histVars
  <1>3. CASE Attach
    BY <1>3 DEF Attach, bridgeVars, toolVars, askVars, busVars, histVars
  <1>4. CASE Detach
    BY <1>4 DEF Detach, Drop, bridgeVars, toolVars, askVars, busVars, histVars
  <1>5. CASE Finish
    BY <1>5 DEF Finish, bridgeVars, toolVars, askVars, busVars, histVars
  <1>6. CASE Deliver
    BY <1>6 DEF Deliver, Awaited, bridgeVars, toolVars, askVars, busVars,
         histVars
  <1>7. ASSUME NEW c \in Commands \cup {NoCommand}, BeginTurn(c)
       PROVE  HolderOK'
    BY <1>7 DEF BeginTurn, Room, bridgeVars, toolVars, askVars, busVars,
         histVars
  <1>8. CASE BeginProduct
    BY <1>8 DEF BeginProduct, Room, bridgeVars, toolVars, askVars, busVars,
         histVars
  <1>9. CASE NoQuestion
    BY <1>9 DEF NoQuestion, bridgeVars, toolVars, askVars, busVars, histVars
  <1>10. ASSUME NEW l \in Locks, SubmitRefused(l)
       PROVE  HolderOK'
    BY <1>10 DEF SubmitRefused, Answered, Free, bridgeVars, toolVars, askVars,
         busVars, histVars
  <1>11. ASSUME NEW l \in Locks, Submit(l)
       PROVE  HolderOK'
    BY <1>11 DEF Submit, Answered, Free, bridgeVars, toolVars, askVars,
         busVars, histVars
  <1>12. ASSUME NEW l \in Locks, Poll(l)
       PROVE  HolderOK'
    BY <1>12 DEF Poll, Answered, bridgeVars, toolVars, askVars, busVars,
         histVars
  <1>13. CASE GiveUp
    BY <1>13 DEF GiveUp, Drop, Leave, bridgeVars, toolVars, askVars, busVars,
         histVars
  <1>14. CASE Report
    BY <1>14 DEF Report, bridgeVars, toolVars, askVars, busVars, histVars
  <1>15. CASE EndTurn
    BY <1>15 DEF EndTurn, Leave, bridgeVars, toolVars, askVars, busVars,
         histVars
  <1>16. CASE EndProduct
    BY <1>16 DEF EndProduct, Leave, bridgeVars, toolVars, askVars, busVars,
         histVars
  <1>17. CASE UserCancel
    BY <1>17 DEF UserCancel, Drop, bridgeVars, toolVars, askVars, busVars,
         histVars
  <1> QED
    BY <1>0, <1>1, <1>2, <1>3, <1>4, <1>5, <1>6, <1>7, <1>8, <1>9, <1>10,
       <1>11, <1>12, <1>13, <1>14, <1>15, <1>16, <1>17
       DEF Next, EngineNext, AskNext

\* Every step keeps the permit's accounts.
LEMMA PermitStep == IInv /\ [Next]_vars => PermitOK'
  <1> SUFFICES ASSUME IInv, [Next]_vars PROVE PermitOK'
    OBVIOUS
  <1> USE DEF IInv, TypeOK, Locks, PermitOK, ToolTypeOK, EngineTypeOK,
              AskTypeOK, HistTypeOK
  <1>0. CASE UNCHANGED vars
    BY <1>0 DEF vars, bridgeVars, toolVars, askVars, busVars, histVars
  <1>1. CASE Claim \/ Attach \/ Detach \/ Finish \/ Deliver \/ UserCancel
            \/ DeadlinePasses \/ PermitExpires
    <2>1. UNCHANGED <<active, used, turn, calls, pc, calling, current>>
      BY <1>1 DEF Claim, Attach, Detach, Finish, Deliver, UserCancel,
           DeadlinePasses, PermitExpires, Drop, Drop, bridgeVars, toolVars,
           askVars, busVars, histVars
    <2> QED
      BY <2>1
  <1>2. CASE Take
    BY <1>2 DEF Take, bridgeVars, toolVars, askVars, busVars, histVars
  <1>3. ASSUME NEW c \in Commands \cup {"status"}, ToolCall(c)
       PROVE  PermitOK'
    BY <1>3 DEF ToolCall, bridgeVars, toolVars, askVars, busVars, histVars
  <1>4. ASSUME NEW says \in {"ok", "failed"}, ToolReturn(says)
       PROVE  PermitOK'
    BY <1>4 DEF ToolReturn, bridgeVars, toolVars, askVars, busVars, histVars
  <1>5. ASSUME NEW good \in BOOLEAN, Answer(good)
       PROVE  PermitOK'
    BY <1>5 DEF Answer, bridgeVars, toolVars, askVars, busVars, histVars
  <1>6. ASSUME NEW c \in Commands \cup {NoCommand}, BeginTurn(c)
       PROVE  PermitOK'
    BY <1>6 DEF BeginTurn, Room, bridgeVars, toolVars, askVars, busVars,
         histVars
  <1>7. CASE BeginProduct
    BY <1>7 DEF BeginProduct, Room, bridgeVars, toolVars, askVars, busVars,
         histVars
  <1>8. CASE NoQuestion
    BY <1>8 DEF NoQuestion, bridgeVars, toolVars, askVars, busVars, histVars
  <1>9. ASSUME NEW l \in Locks, SubmitRefused(l)
       PROVE  PermitOK'
    BY <1>9 DEF SubmitRefused, Answered, Free, bridgeVars, toolVars, askVars,
         busVars, histVars
  <1>10. ASSUME NEW l \in Locks, Submit(l)
       PROVE  PermitOK'
    BY <1>10 DEF Submit, Answered, Free, bridgeVars, toolVars, askVars,
         busVars, histVars
  <1>11. ASSUME NEW l \in Locks, Poll(l)
       PROVE  PermitOK'
    BY <1>11 DEF Poll, Answered, bridgeVars, toolVars, askVars, busVars,
         histVars
  <1>12. CASE GiveUp
    BY <1>12 DEF GiveUp, Drop, Leave, bridgeVars, toolVars, askVars, busVars,
         histVars
  <1>13. CASE Report
    BY <1>13 DEF Report, bridgeVars, toolVars, askVars, busVars, histVars
  <1>14. CASE EndTurn
    BY <1>14 DEF EndTurn, Leave, bridgeVars, toolVars, askVars, busVars,
         histVars
  <1>15. CASE EndProduct
    BY <1>15 DEF EndProduct, Leave, bridgeVars, toolVars, askVars, busVars,
         histVars
  <1> QED
    BY <1>0, <1>1, <1>2, <1>3, <1>4, <1>5, <1>6, <1>7, <1>8, <1>9, <1>10,
       <1>11, <1>12, <1>13, <1>14, <1>15
       DEF Next, EngineNext, AskNext

\* No step hands out an answer a second time.
LEMMA GivenStep == IInv /\ [Next]_vars => GivenOnce'
  <1> SUFFICES ASSUME IInv, [Next]_vars PROVE GivenOnce'
    OBVIOUS
  <1> USE DEF IInv, TypeOK, Locks, GivenOnce, HolderOK, SlotOK, FlagTypeOK,
              BridgeTypeOK, AskTypeOK
  <1>0. CASE UNCHANGED vars
    BY <1>0 DEF vars, bridgeVars, askVars
  <1>1. CASE Claim \/ Attach \/ Finish \/ Take \/ DeadlinePasses
            \/ PermitExpires
            \/ (\E c \in Commands \cup {"status"} : ToolCall(c))
            \/ (\E says \in {"ok", "failed"} : ToolReturn(says))
            \/ (\E good \in BOOLEAN : Answer(good))
    <2>1. UNCHANGED <<pending, ready, chat, sequence, got>>
      BY <1>1 DEF Claim, Attach, Finish, Take, DeadlinePasses, PermitExpires,
           ToolCall, ToolReturn, Answer, bridgeVars, askVars
    <2> QED
      BY <2>1
  <1>a. CASE Detach
    BY <1>a DEF Detach, Drop, askVars
  <1>b. CASE Deliver
    BY <1>b DEF Deliver, Awaited, askVars
  <1>2. ASSUME NEW c \in Commands \cup {NoCommand}, BeginTurn(c)
       PROVE  GivenOnce'
    BY <1>2 DEF BeginTurn, Room, bridgeVars, askVars
  <1>3. CASE BeginProduct
    BY <1>3 DEF BeginProduct, Room, bridgeVars, askVars
  <1>4. CASE NoQuestion
    BY <1>4 DEF NoQuestion, bridgeVars, askVars
  <1>5. ASSUME NEW l \in Locks, SubmitRefused(l)
       PROVE  GivenOnce'
    BY <1>5 DEF SubmitRefused, Answered, Free, bridgeVars, askVars
  <1>6. ASSUME NEW l \in Locks, Submit(l)
       PROVE  GivenOnce'
    BY <1>6 DEF Submit, Answered, Free, bridgeVars, askVars
  <1>7. ASSUME NEW l \in Locks, Poll(l)
       PROVE  GivenOnce'
    BY <1>7 DEF Poll, Answered, bridgeVars, askVars
  <1>8. CASE GiveUp
    BY <1>8 DEF GiveUp, Drop, Leave, bridgeVars, askVars
  <1>9. CASE Report
    BY <1>9 DEF Report, bridgeVars, askVars
  <1>10. CASE EndTurn
    BY <1>10 DEF EndTurn, Leave, bridgeVars, askVars
  <1>11. CASE EndProduct
    BY <1>11 DEF EndProduct, Leave, bridgeVars, askVars
  <1>12. CASE UserCancel
    BY <1>12 DEF UserCancel, Drop, bridgeVars, askVars
  <1> QED
    BY <1>0, <1>1, <1>a, <1>b, <1>2, <1>3, <1>4, <1>5, <1>6, <1>7, <1>8, <1>9, <1>10,
       <1>11, <1>12
       DEF Next, EngineNext, AskNext

\* No step hands an asker another one's answer.
LEMMA OwnStep == IInv /\ [Next]_vars => OwnReply'
  <1> SUFFICES ASSUME IInv, [Next]_vars PROVE OwnReply'
    OBVIOUS
  <1> USE DEF IInv, TypeOK, Locks, OwnReply, HolderOK, SlotOK, FlagTypeOK,
              BridgeTypeOK, AskTypeOK
  <1>0. CASE UNCHANGED vars
    BY <1>0 DEF vars, bridgeVars, askVars
  <1>1. CASE Claim \/ Attach \/ Detach \/ Finish \/ Take \/ Deliver
            \/ DeadlinePasses \/ PermitExpires
            \/ (\E c \in Commands \cup {"status"} : ToolCall(c))
            \/ (\E says \in {"ok", "failed"} : ToolReturn(says))
            \/ (\E good \in BOOLEAN : Answer(good))
    BY <1>1 DEF Claim, Attach, Detach, Finish, Take, Deliver, DeadlinePasses,
         PermitExpires, ToolCall, ToolReturn, Answer, bridgeVars, askVars
  <1>2. ASSUME NEW c \in Commands \cup {NoCommand}, BeginTurn(c)
       PROVE  OwnReply'
    BY <1>2 DEF BeginTurn, Room, bridgeVars, askVars
  <1>3. CASE BeginProduct
    BY <1>3 DEF BeginProduct, Room, bridgeVars, askVars
  <1>4. CASE NoQuestion
    BY <1>4 DEF NoQuestion, bridgeVars, askVars
  <1>5. ASSUME NEW l \in Locks, SubmitRefused(l)
       PROVE  OwnReply'
    BY <1>5 DEF SubmitRefused, Answered, Free, bridgeVars, askVars
  <1>6. ASSUME NEW l \in Locks, Submit(l)
       PROVE  OwnReply'
    BY <1>6 DEF Submit, Answered, Free, bridgeVars, askVars
  <1>7. ASSUME NEW l \in Locks, Poll(l)
       PROVE  OwnReply'
    BY <1>7 DEF Poll, Answered, bridgeVars, askVars
  <1>8. CASE GiveUp
    BY <1>8 DEF GiveUp, Drop, Leave, bridgeVars, askVars
  <1>9. CASE Report
    BY <1>9 DEF Report, bridgeVars, askVars
  <1>10. CASE EndTurn
    BY <1>10 DEF EndTurn, Leave, bridgeVars, askVars
  <1>11. CASE EndProduct
    BY <1>11 DEF EndProduct, Leave, bridgeVars, askVars
  <1>12. CASE UserCancel
    BY <1>12 DEF UserCancel, Drop, bridgeVars, askVars
  <1> QED
    BY <1>0, <1>1, <1>2, <1>3, <1>4, <1>5, <1>6, <1>7, <1>8, <1>9, <1>10,
       <1>11, <1>12
       DEF Next, EngineNext, AskNext

\* No step lets a second call through.
LEMMA OnceStep == IInv /\ [Next]_vars => ToolOnce'
  <1> SUFFICES ASSUME IInv, [Next]_vars PROVE ToolOnce'
    OBVIOUS
  <1> USE DEF IInv, TypeOK, Locks, ToolOnce, PermitOK, HistTypeOK
  <1>0. CASE UNCHANGED vars
    BY <1>0 DEF vars, toolVars, histVars
  <1>1. CASE Claim \/ Attach \/ Detach \/ Finish \/ Take \/ Deliver
            \/ BeginProduct \/ NoQuestion \/ GiveUp \/ Report \/ EndProduct
            \/ UserCancel \/ DeadlinePasses \/ PermitExpires
            \/ (\E says \in {"ok", "failed"} : ToolReturn(says))
            \/ (\E good \in BOOLEAN : Answer(good))
            \/ (\E l \in Locks : SubmitRefused(l))
            \/ (\E l \in Locks : Submit(l)) \/ (\E l \in Locks : Poll(l))
    BY <1>1 DEF Claim, Attach, Detach, Finish, Take, Deliver, BeginProduct,
         NoQuestion, GiveUp, Report, EndProduct, UserCancel, DeadlinePasses,
         PermitExpires, ToolReturn, Answer, SubmitRefused, Submit, Poll,
         toolVars, histVars
  <1>2. ASSUME NEW c \in Commands \cup {"status"}, ToolCall(c)
       PROVE  ToolOnce'
    BY <1>2 DEF ToolCall, toolVars, histVars
  <1>3. ASSUME NEW c \in Commands \cup {NoCommand}, BeginTurn(c)
       PROVE  ToolOnce'
    BY <1>3 DEF BeginTurn, Room, toolVars, histVars
  <1>4. CASE EndTurn
    BY <1>4 DEF EndTurn, Leave, toolVars, histVars
  <1> QED
    BY <1>0, <1>1, <1>2, <1>3, <1>4
       DEF Next, EngineNext, AskNext

\* The inductive invariant of the bridge, the tool and their askers holds in
\* every reachable state.
THEOREM Safety == Spec => []IInv
  <1>1. IInv /\ [Next]_vars => IInv'
    BY FlagTypeStep, BridgeTypeStep, ToolTypeStep, AskTypeStep, EngineTypeStep,
       HistTypeStep, RoomStep, SlotStep, HolderStep, PermitStep, GivenStep,
       OwnStep, OnceStep
       DEF IInv, TypeOK
  <1> QED
    BY InitIInv, <1>1, PTL DEF Spec

\* While nobody types `aipet cancel', no asker is ever given another's answer:
\* agent_bridge.c receive, poll and cancel, with two callers.
THEOREM OwnReplies == Spec => []OwnReply
  <1>1. IInv => OwnReply
    BY DEF IInv
  <1> QED
    BY Safety, <1>1, PTL

\* An answer is taken by one asker only, even after `aipet cancel': what an asker
\* took has left the bridge, and its number is never given again; poll and submit
\* in agent_bridge.c.
THEOREM TakenOnce == Spec => []GivenOnce
  <1>1. IInv => GivenOnce
    BY DEF IInv
  <1> QED
    BY Safety, <1>1, PTL

\* A turn's words let at most one request through to the motors: execute in
\* mcu_agent_tool.cxx.
THEOREM OneCall == Spec => []ToolOnce
  <1>1. IInv => ToolOnce
    BY DEF IInv
  <1> QED
    BY Safety, <1>1, PTL

\* An answer that waits for its asker is never replaced: the slot is either
\* waiting or answered, and a request is taken only when it is neither.
THEOREM NeverOverwritten == Spec => NoOverwrite
  <1> DEFINE Kept == ready /\ ready' => response' = response /\ result' = result
  <1>1. IInv /\ [Next]_vars => Kept
    <2> SUFFICES ASSUME IInv, [Next]_vars, ready, ready'
                 PROVE  response' = response /\ result' = result
      OBVIOUS
    <2> USE DEF IInv, SlotOK
    <2>1. CASE UNCHANGED vars \/ UNCHANGED bridgeVars
      BY <2>1 DEF vars, bridgeVars
    <2>2. CASE EngineNext
      BY <2>2 DEF EngineNext, Claim, Attach, Detach, Drop, Finish, Take,
                  Deliver, Awaited, ToolCall, ToolReturn, Answer, bridgeVars
    <2>3. CASE AskNext
      BY <2>3 DEF AskNext, BeginTurn, BeginProduct, NoQuestion, SubmitRefused,
                  Submit, Free, Poll, GiveUp, Drop, Report, EndTurn, EndProduct, bridgeVars
    <2>4. CASE UserCancel \/ DeadlinePasses \/ PermitExpires
      BY <2>4 DEF UserCancel, Drop, DeadlinePasses, PermitExpires, bridgeVars
    <2> QED
      BY <2>1, <2>2, <2>3, <2>4 DEF Next
  <1>2. Kept => [ready /\ ready' => response' = response /\ result' = result]_vars
    OBVIOUS
  <1> QED
    BY Safety, <1>1, <1>2, PTL DEF Spec, NoOverwrite

\* The engine works on each request once, and every answer held is about a
\* request it is done with.
LEMMA BusStep == IInv /\ BusOK /\ [Next]_vars => BusOK'
  <1> SUFFICES ASSUME IInv, BusOK, [Next]_vars PROVE BusOK'
    OBVIOUS
  <1> USE DEF IInv, TypeOK, Locks
  <1> DEFINE Queue == /\ current <= sequence
                      /\ \A i \in DOMAIN inbox : inbox[i] <= sequence /\ inbox[i] # current
                      /\ \A i, j \in DOMAIN inbox : inbox[i] = inbox[j] => i = j
  <1>t. /\ inbox \in Seq(Requests) /\ outbox \in Seq(Answers)
        /\ sequence \in Nat /\ current \in Nat /\ got["turn"] \in Nat /\ Held \subseteq Nat \ {0}
        /\ DOMAIN got = Locks
        /\ \A i \in DOMAIN inbox : inbox[i] \in Nat \ {0}
    <2>1. inbox \in Seq(Requests) /\ outbox \in Seq(Answers)
      BY DEF EngineTypeOK
    <2>2. Requests \subseteq Nat \ {0} /\ \A a \in Answers : a.id \in Nat \ {0}
      BY BoundsAssumption DEF Requests, Answers
    <2>3. \A S : \A q \in Seq(S) : \A i \in DOMAIN q : q[i] \in S
      OBVIOUS
    <2>4. \A i \in DOMAIN inbox : inbox[i] \in Nat \ {0}
      BY <2>1, <2>2, <2>3
    <2>5. \A i \in DOMAIN outbox : outbox[i].id \in Nat \ {0}
      BY <2>1, <2>2, <2>3
    <2>6. /\ sequence \in Nat /\ current \in Nat /\ response \in Nat /\ got["turn"] \in Nat
          /\ DOMAIN got = Locks
      BY BoundsAssumption DEF EngineTypeOK, BridgeTypeOK, AskTypeOK
    <2> QED
      BY <2>1, <2>4, <2>5, <2>6 DEF Held
  <1>q. Queue /\ \A r \in Held : Settled(r)
    BY DEF BusOK
  <1>s. SUFFICES Queue' /\ \A r \in Held' : Settled(r)'
    BY DEF BusOK
  <1>0. CASE UNCHANGED vars
    BY <1>0, <1>q DEF vars, bridgeVars, askVars, busVars, Held, Settled
  <1>1. CASE Claim \/ Attach \/ Finish \/ BeginProduct \/ NoQuestion \/ Report
            \/ DeadlinePasses \/ PermitExpires
            \/ (\E c \in Commands \cup {"status"} : ToolCall(c))
            \/ (\E says \in {"ok", "failed"} : ToolReturn(says))
            \/ (\E c \in Commands \cup {NoCommand} : BeginTurn(c))
            \/ (\E l \in Locks : SubmitRefused(l))
    <2>1. UNCHANGED <<sequence, current, inbox, outbox, response, got>>
      BY <1>1 DEF Claim, Attach, Finish, BeginProduct, NoQuestion, Report,
           DeadlinePasses, PermitExpires, ToolCall, ToolReturn, BeginTurn,
           SubmitRefused, bridgeVars, askVars, busVars
    <2> QED
      BY <2>1, <1>q DEF Held, Settled
  <1>2. CASE Detach
    <2>1. inbox' = <<>> /\ UNCHANGED <<sequence, current, outbox, got>> /\ response' = 0
      BY <1>2 DEF Detach, Drop, askVars
    <2>2. Held' \subseteq Held
      BY <2>1 DEF Held
    <2> QED
      BY <2>1, <2>2, <1>q DEF Settled
  <1>3. CASE GiveUp \/ UserCancel \/ EndTurn \/ EndProduct
    <2>1. /\ UNCHANGED <<sequence, current, inbox, outbox>>
          /\ response' \in {0, response} /\ got'["turn"] \in {0, got["turn"]}
      BY <1>t, <1>3 DEF GiveUp, UserCancel, EndTurn, EndProduct, Drop, Leave, bridgeVars,
           askVars, busVars
    <2>2. Held' \subseteq Held
      BY <2>1 DEF Held
    <2> QED
      BY <2>1, <2>2, <1>q DEF Settled
  <1>4. CASE Take
    <2>1. /\ inbox # <<>> /\ current' = Head(inbox) /\ inbox' = Tail(inbox)
          /\ UNCHANGED <<sequence, outbox, response, got>>
      BY <1>4 DEF Take, bridgeVars, askVars
    <2>2. /\ 1 \in DOMAIN inbox /\ current' = inbox[1]
          /\ \A i \in DOMAIN inbox' :
               i + 1 \in DOMAIN inbox /\ i # 0 /\ i \in Nat /\ inbox'[i] = inbox[i + 1]
      BY <1>t, <2>1
    <2>3. ASSUME NEW r, Settled(r) PROVE Settled(r)'
      BY <2>1, <2>2, <2>3 DEF Settled
    <2>4. Queue'
      BY <2>1, <2>2, <1>q
    <2> QED
      BY <2>1, <2>3, <2>4, <1>q DEF Held
  <1>5. ASSUME NEW l \in Locks, Submit(l) PROVE Queue' /\ \A r \in Held' : Settled(r)'
    <2>1. /\ sequence' = sequence + 1
          /\ inbox' = Append(inbox, sequence + 1) \/ inbox' = inbox
          /\ UNCHANGED <<current, outbox, response, got>>
      BY <1>5 DEF Submit
    <2>2. \A i \in DOMAIN inbox' :
            \/ i = Len(inbox) + 1 /\ inbox'[i] = sequence + 1
            \/ i \in DOMAIN inbox /\ inbox'[i] = inbox[i]
      <3>1. \A q \in Seq(Requests) : \A e : \A i \in DOMAIN Append(q, e) :
              \/ i = Len(q) + 1 /\ Append(q, e)[i] = e
              \/ i \in DOMAIN q /\ Append(q, e)[i] = q[i]
        OBVIOUS
      <3>2. \A i \in DOMAIN Append(inbox, sequence + 1) :
              \/ i = Len(inbox) + 1 /\ Append(inbox, sequence + 1)[i] = sequence + 1
              \/ i \in DOMAIN inbox /\ Append(inbox, sequence + 1)[i] = inbox[i]
        BY <1>t, <3>1
      <3>3. CASE inbox' = Append(inbox, sequence + 1)
        BY <3>2, <3>3
      <3>4. CASE inbox' = inbox
        BY <3>4
      <3> QED
        BY <2>1, <3>3, <3>4
    <2>3. ASSUME NEW r \in Nat, Settled(r) PROVE Settled(r)'
      BY <1>t, <2>1, <2>2, <2>3 DEF Settled
    <2>4. current' <= sequence'
      BY <1>t, <2>1, <1>q
    <2>5. ASSUME NEW i \in DOMAIN inbox' PROVE inbox'[i] <= sequence' /\ inbox'[i] # current'
      <3>1. inbox'[i] = sequence + 1 \/ (i \in DOMAIN inbox /\ inbox'[i] = inbox[i])
        BY <2>2
      <3>2. i \in DOMAIN inbox => inbox[i] \in Nat /\ inbox[i] <= sequence /\ inbox[i] # current
        BY <1>t, <1>q
      <3>3. /\ sequence \in Nat /\ current \in Nat /\ current <= sequence
            /\ sequence' = sequence + 1 /\ current' = current
        BY <1>t, <1>q, <2>1
      <3> QED
        BY <3>1, <3>2, <3>3
    <2>6. ASSUME NEW i \in DOMAIN inbox', NEW j \in DOMAIN inbox', inbox'[i] = inbox'[j]
          PROVE  i = j
      <3>1. \A k \in DOMAIN inbox : inbox[k] # sequence + 1
        BY <1>t, <1>q
      <3> QED
        BY <1>q, <2>2, <2>6, <3>1
    <2> QED
      BY <1>t, <1>q, <2>1, <2>3, <2>4, <2>5, <2>6 DEF Held
  <1>6. ASSUME NEW l \in Locks, Poll(l) PROVE Queue' /\ \A r \in Held' : Settled(r)'
    <2>1. /\ UNCHANGED <<sequence, current, inbox, outbox>>
          /\ response' \in {0, response} /\ got'["turn"] \in {0, response, got["turn"]}
      BY <1>t, <1>6 DEF Poll, busVars
    <2>2. Held' \subseteq Held
      BY <2>1 DEF Held
    <2> QED
      BY <2>1, <2>2, <1>q DEF Settled
  <1>7. ASSUME NEW good \in BOOLEAN, Answer(good) PROVE Queue' /\ \A r \in Held' : Settled(r)'
    <2>1. /\ current # 0 /\ current' = 0
          /\ outbox' = Append(outbox, [id |-> current, good |-> good])
          /\ UNCHANGED <<sequence, inbox, response, got>>
      BY <1>7 DEF Answer, bridgeVars, askVars
    <2>2. \A i \in DOMAIN outbox' :
            outbox'[i].id = current \/ (i \in DOMAIN outbox /\ outbox'[i] = outbox[i])
      <3>1. \A q \in Seq(Answers) : \A e : \A i \in DOMAIN Append(q, e) :
              Append(q, e)[i] = e \/ (i \in DOMAIN q /\ Append(q, e)[i] = q[i])
        OBVIOUS
      <3> QED
        BY <1>t, <2>1, <3>1
    <2>3. Held' \subseteq Held \cup {current}
      BY <2>1, <2>2 DEF Held
    <2>4. ASSUME NEW r \in Nat \ {0}, Settled(r) \/ r = current PROVE Settled(r)'
      BY <1>t, <1>q, <2>1, <2>4 DEF Settled
    <2>5. Queue'
      BY <1>t, <1>q, <2>1
    <2> QED
      BY <1>t, <1>q, <2>1, <2>3, <2>4, <2>5
  <1>8. CASE Deliver
    <2>1. /\ outbox # <<>> /\ outbox' = Tail(outbox)
          /\ response' \in {Head(outbox).id, response}
          /\ UNCHANGED <<sequence, current, inbox, got>>
      BY <1>8 DEF Deliver, Awaited, askVars
    <2>2. /\ 1 \in DOMAIN outbox /\ Head(outbox) = outbox[1]
          /\ \A i \in DOMAIN outbox' : i + 1 \in DOMAIN outbox /\ outbox'[i] = outbox[i + 1]
      BY <1>t, <2>1
    <2>3. Held' \subseteq Held
      BY <2>1, <2>2 DEF Held
    <2> QED
      BY <2>1, <2>3, <1>q DEF Settled
  <1> QED
    BY <1>0, <1>1, <1>2, <1>3, <1>4, <1>5, <1>6, <1>7, <1>8
       DEF Next, EngineNext, AskNext

\* A permit's call runs for the request being worked on until its outcome is the
\* turn's report.
LEMMA CallStep == IInv /\ BusOK /\ CallOK /\ [Next]_vars => CallOK'
  <1> SUFFICES ASSUME IInv, BusOK, CallOK, [Next]_vars PROVE CallOK'
    OBVIOUS
  <1> USE DEF IInv, TypeOK, CallOK, PermitOK, ToolTypeOK, AskTypeOK, Locks
  <1>0. CASE UNCHANGED vars
    BY <1>0 DEF vars, toolVars, askVars, busVars, histVars
  <1>1. CASE Claim \/ Attach \/ Detach \/ Finish \/ Deliver \/ UserCancel
            \/ DeadlinePasses \/ PermitExpires
    <2>1. UNCHANGED <<active, turn, last_report, pc, calling, current, by, outcome, revoked>>
      BY <1>1 DEF Claim, Attach, Detach, Finish, Deliver, UserCancel,
           DeadlinePasses, PermitExpires, toolVars, askVars, busVars, histVars
    <2> QED
      BY <2>1
  <1>2. CASE Take
    BY <1>2 DEF Take, toolVars, askVars, histVars
  <1>3. ASSUME NEW c \in Commands \cup {"status"}, ToolCall(c) PROVE CallOK'
    BY <1>3 DEF ToolCall, askVars, busVars
  <1>4. ASSUME NEW says \in {"ok", "failed"}, ToolReturn(says) PROVE CallOK'
    BY <1>4 DEF ToolReturn, askVars
  <1>5. ASSUME NEW good \in BOOLEAN, Answer(good) PROVE CallOK'
    BY <1>5 DEF Answer, toolVars, askVars, histVars
  <1>6. ASSUME NEW c \in Commands \cup {NoCommand}, BeginTurn(c) PROVE CallOK'
    BY <1>6 DEF BeginTurn
  <1>7. CASE BeginProduct
    BY <1>7 DEF BeginProduct, busVars
  <1>8. CASE NoQuestion \/ Report \/ GiveUp \/ EndProduct
            \/ (\E l \in Locks : SubmitRefused(l) \/ Submit(l) \/ Poll(l))
    <2>1. /\ UNCHANGED <<active, turn, last_report, calling, current, by, outcome, revoked>>
          /\ pc'["turn"] \in {"submit", "poll", "report"}
               => pc["turn"] \in {"submit", "poll", "report"}
      BY <1>8 DEF NoQuestion, Report, GiveUp, EndProduct, SubmitRefused, Submit, Poll,
           Answered, Leave, toolVars, busVars, histVars
    <2> QED
      BY <2>1
  <1>9. CASE EndTurn
    BY <1>9 DEF EndTurn, Leave
  <1> QED
    BY <1>0, <1>1, <1>2, <1>3, <1>4, <1>5, <1>6, <1>7, <1>8, <1>9
       DEF Next, EngineNext, AskNext

\* A report made stays the truth about the turn until the turn is over.
LEMMA ShownStep == ShownInv /\ [Next]_vars => ActionShown'
  <1> SUFFICES ASSUME ShownInv, [Next]_vars PROVE ActionShown'
    OBVIOUS
  <1> USE DEF ShownInv, ActionShown
  <1>0. CASE UNCHANGED vars
    BY <1>0 DEF vars, toolVars, askVars, histVars
  <1>1. CASE Claim \/ Attach \/ Detach \/ Finish \/ Take \/ Deliver \/ UserCancel
            \/ DeadlinePasses \/ PermitExpires
            \/ (\E good \in BOOLEAN : Answer(good))
    <2>1. UNCHANGED <<permit, turn, pc, got, by, outcome, revoked, shown>>
      BY <1>1 DEF Claim, Attach, Detach, Finish, Take, Deliver, UserCancel,
           DeadlinePasses, PermitExpires, Answer, toolVars, askVars, histVars
    <2> QED
      BY <2>1
  <1>2. ASSUME NEW c \in Commands \cup {"status"}, ToolCall(c) PROVE ActionShown'
    BY <1>2 DEF ToolCall, askVars, BusOK, Held, Settled
  <1>3. ASSUME NEW says \in {"ok", "failed"}, ToolReturn(says) PROVE ActionShown'
    BY <1>3 DEF ToolReturn, askVars, BusOK, Held, Settled, CallOK
  <1>4. ASSUME NEW c \in Commands \cup {NoCommand}, BeginTurn(c) PROVE ActionShown'
    BY <1>4 DEF BeginTurn, IInv, TypeOK, AskTypeOK, Locks
  <1>5. CASE BeginProduct
    BY <1>5 DEF BeginProduct, IInv, TypeOK, AskTypeOK, Locks
  <1>6. CASE NoQuestion
    BY <1>6 DEF NoQuestion, IInv, TypeOK, AskTypeOK, HolderOK, Locks
  <1>7. CASE GiveUp \/ EndProduct \/ (\E l \in Locks : SubmitRefused(l) \/ Submit(l) \/ Poll(l))
    <2>1. /\ UNCHANGED <<permit, turn, by, outcome, revoked, shown>>
          /\ pc'["turn"] = "end" => pc["turn"] = "end" /\ got'["turn"] = got["turn"]
      BY <1>7 DEF GiveUp, EndProduct, SubmitRefused, Submit, Poll, Answered, Leave,
           toolVars, histVars, IInv, TypeOK, AskTypeOK, Locks
    <2> QED
      BY <2>1
  <1>8. CASE Report
    <2> SUFFICES ASSUME permit \in Commands, got["turn"] # 0, by = got["turn"], ~revoked
                 PROVE  shown' = [turn |-> turn, says |-> outcome]
      BY <1>8 DEF Report, toolVars, histVars
    <2>1. calling = 0 /\ last_report = [turn |-> turn, says |-> outcome]
      BY DEF CallOK, BusOK, Held, Settled
    <2>2. active
      BY <1>8 DEF Report, CallOK
    <2> QED
      BY <1>8, <2>1, <2>2 DEF Report
  <1>9. CASE EndTurn
    BY <1>9 DEF EndTurn, Leave, IInv, TypeOK, AskTypeOK, Locks
  <1> QED
    BY <1>0, <1>1, <1>2, <1>3, <1>4, <1>5, <1>6, <1>7, <1>8, <1>9
       DEF Next, EngineNext, AskNext

\* The engine works on each request once, and the call a permit let through
\* belongs to the request being worked on until its outcome is the turn's report:
\* execute in mcu_agent_tool.cxx, receive and poll in agent_bridge.c.
THEOREM ShownSafety == Spec => []ShownInv
  <1>1. Init => ShownInv
    <2>1. Init => BusOK /\ CallOK /\ ActionShown
      BY DEF Init, BusOK, Held, CallOK, ActionShown, Locks
    <2> QED
      BY <2>1, InitIInv DEF ShownInv
  <1>2. ShownInv /\ [Next]_vars => ShownInv'
    <2>1. IInv /\ [Next]_vars => IInv'
      BY FlagTypeStep, BridgeTypeStep, ToolTypeStep, AskTypeStep, EngineTypeStep,
         HistTypeStep, RoomStep, SlotStep, HolderStep, PermitStep, GivenStep,
         OwnStep, OnceStep
         DEF IInv, TypeOK
    <2> QED
      BY <2>1, BusStep, CallStep, ShownStep DEF ShownInv
  <1> QED
    BY <1>1, <1>2, PTL DEF Spec

\* A turn that presents the answer to the request whose processing moved the
\* motors reports how that went: mcu_turn_report after execute in
\* mcu_agent_tool.cxx, however many requests of whichever caller are in flight.
THEOREM ReportsTheMove == Spec => []ActionShown
  <1>1. ShownInv => ActionShown
    BY DEF ShownInv
  <1> QED
    BY ShownSafety, <1>1, PTL

-----------------------------------------------------------------------------
(***************************************************************************)
(* The bridge implements Mailbox.                                          *)
(***************************************************************************)

\* What Mailbox sees of the bridge's one place, by what is in it.
LEMMA SlotView ==
  ASSUME IInv
  PROVE  /\ pending => BridgeSlot = Box!Waiting(chat)
         /\ ready => BridgeSlot = Box!Answered(chat, result = "ok")
         /\ ~pending /\ ~ready => BridgeSlot = Box!Empty
         /\ pending \/ ready => BridgeSlot.question = chat /\ BridgeSlot # Box!Empty
  BY DEF IInv, SlotOK, BridgeSlot, Box!Waiting, Box!Answered, Box!Empty, TypeOK, FlagTypeOK

\* An asker that polls may deal with what the bridge holds: it is its own, or
\* somebody typed `aipet cancel'.
LEMMA PollerConcerned ==
  ASSUME IInv, NEW l \in Locks, pc[l] = "poll"
  PROVE  Box!Concerns(l)
  <1>1. CASE pending \/ ready
    <2>1. meddled \/ mine[l] = chat
      BY <1>1 DEF IInv, HolderOK, SlotOK
    <2> QED
      BY <1>1, <2>1, SlotView DEF Box!Concerns
  <1>2. CASE ~pending /\ ~ready
    BY <1>2, SlotView DEF Box!Concerns
  <1> QED
    BY <1>1, <1>2

\* Every step of the program is a step of Mailbox or none.
LEMMA BoxSteps == IInv /\ IInv' /\ [Next]_vars => [Box!Next]_(Box!vars)
  <1> SUFFICES ASSUME IInv, IInv', [Next]_vars PROVE [Box!Next]_(Box!vars)
    OBVIOUS
  <1> DEFINE SlotSame == UNCHANGED <<pending, ready, chat, result>>
             Unseen == SlotSame /\ UNCHANGED <<attached, engine, sequence, mine, got, meddled>>
  <1>t. DOMAIN mine = Locks /\ DOMAIN got = Locks /\ sequence \in Nat /\ Locks = {"turn", "product"}
    BY DEF IInv, TypeOK, AskTypeOK, BridgeTypeOK, Locks
  <1>s. SlotSame => BridgeSlot' = BridgeSlot
    BY DEF BridgeSlot
  <1>l. UNCHANGED <<attached, engine>> => BridgeLife' = BridgeLife
    BY DEF BridgeLife
  <1>u. Unseen => [Box!Next]_(Box!vars)
    BY <1>s, <1>l DEF Box!vars
  <1>e. ~pending' /\ ~ready' => BridgeSlot' = Box!Empty
    BY DEF BridgeSlot, Box!Empty
  <1>0. CASE UNCHANGED vars
    BY <1>0, <1>u DEF vars, bridgeVars, askVars
  <1>1. CASE Take \/ BeginProduct \/ NoQuestion \/ Report \/ DeadlinePasses \/ PermitExpires
            \/ (\E c \in Commands \cup {"status"} : ToolCall(c))
            \/ (\E says \in {"ok", "failed"} : ToolReturn(says))
            \/ (\E good \in BOOLEAN : Answer(good))
            \/ (\E c \in Commands \cup {NoCommand} : BeginTurn(c))
            \/ (\E l \in Locks : SubmitRefused(l))
    <2>1. Unseen
      BY <1>1 DEF Take, BeginProduct, NoQuestion, Report, DeadlinePasses, PermitExpires,
           ToolCall, ToolReturn, Answer, BeginTurn, SubmitRefused, bridgeVars, askVars
    <2> QED
      BY <2>1, <1>u
  <1>2. CASE Claim \/ Finish
    <2>1. SlotSame /\ UNCHANGED <<attached, sequence, mine, got, meddled>>
      BY <1>2 DEF Claim, Finish, bridgeVars, askVars
    <2>2. BridgeLife' = BridgeLife
      BY <1>2 DEF Claim, Finish, BridgeLife, bridgeVars
    <2> QED
      BY <2>1, <2>2, <1>s DEF Box!vars
  <1>3. CASE Attach
    <2>1. SlotSame /\ UNCHANGED <<sequence, mine, got, meddled>> /\ engine' = "serving"
          /\ engine = "starting" /\ (attached' = TRUE \/ attached' = attached)
      BY <1>3 DEF Attach, askVars
    <2>2. ~attached
      BY <2>1 DEF IInv, HolderOK
    <2>3. BridgeLife = "new" /\ BridgeLife' \in {"open", "new"}
      BY <2>1, <2>2 DEF BridgeLife
    <2>4. CASE BridgeLife' = "open"
      BY <2>1, <2>3, <2>4, <1>s DEF Box!Next, Box!Open
    <2>5. CASE BridgeLife' = "new"
      BY <2>1, <2>3, <2>5, <1>s DEF Box!vars
    <2> QED
      BY <2>3, <2>4, <2>5
  <1>4. CASE Detach
    <2>1. /\ UNCHANGED <<sequence, mine, got, meddled>> /\ ~pending' /\ ~ready'
          /\ engine' = "closing" /\ ~attached' /\ engine \in {"starting", "serving"}
      BY <1>4 DEF Detach, Drop, askVars
    <2>2. BridgeLife # "closed" /\ BridgeLife' = "closed"
      BY <2>1 DEF BridgeLife
    <2> QED
      BY <2>1, <2>2, <1>e DEF Box!Next, Box!Close
  <1>5. CASE Deliver
    <2>1. UNCHANGED <<attached, engine, chat, sequence, mine, got, meddled>>
      BY <1>5 DEF Deliver, askVars
    <2>2. CASE Awaited(Head(outbox))
      <3>1. pending /\ ~pending' /\ ready' /\ chat' = chat /\ (result' = "ok") \in BOOLEAN
        BY <1>5, <2>2 DEF Deliver, Awaited
      <3>2. BridgeSlot.state = "waiting" /\ BridgeSlot.question = chat
        BY <3>1 DEF BridgeSlot
      <3>3. BridgeSlot' = Box!Answered(BridgeSlot.question, result' = "ok")
        BY <3>1, <3>2 DEF BridgeSlot, Box!Answered
      <3>4. Box!Answer(result' = "ok")
        BY <2>1, <3>2, <3>3, <1>l DEF Box!Answer
      <3> QED
        BY <3>1, <3>4 DEF Box!Next
    <2>3. CASE ~Awaited(Head(outbox))
      <3>1. Unseen
        BY <1>5, <2>1, <2>3 DEF Deliver
      <3> QED
        BY <3>1, <1>u
    <2> QED
      BY <2>2, <2>3
  <1>6. ASSUME NEW l \in Locks, Submit(l) PROVE [Box!Next]_(Box!vars)
    <2>1. /\ pc[l] = "submit" /\ attached /\ ~pending /\ ~ready /\ sequence' = sequence + 1
          /\ chat' = sequence + 1 /\ ~ready'
          /\ UNCHANGED <<attached, engine, got, meddled>>
      BY <1>6 DEF Submit, Free
    <2>2. BridgeSlot = Box!Empty /\ BridgeLife = "open" /\ BridgeLife' = BridgeLife
      BY <2>1, SlotView, <1>l DEF BridgeLife
    <2>3. CASE pending' /\ mine' = [mine EXCEPT ![l] = sequence']
      <3>1. mine[l] = 0
        BY <2>1 DEF IInv, HolderOK
      <3>2. BridgeSlot' = Box!Waiting(sequence + 1)
        BY <2>1, <2>3 DEF BridgeSlot, Box!Waiting
      <3>3. Box!Ask(l)
        BY <2>1, <2>2, <2>3, <3>1, <3>2 DEF Box!Ask
      <3> QED
        BY <3>3 DEF Box!Next
    <2>4. CASE pending' = pending /\ mine' = mine
      <3>1. Box!Lose
        BY <2>1, <2>2, <2>4, <1>e DEF Box!Lose
      <3> QED
        BY <3>1 DEF Box!Next
    <2> QED
      BY <1>6, <2>3, <2>4 DEF Submit
  <1>7. ASSUME NEW l \in Locks, Poll(l) PROVE [Box!Next]_(Box!vars)
    <2>1. pc[l] = "poll" /\ UNCHANGED <<attached, engine, chat, sequence, mine, meddled>>
      BY <1>7 DEF Poll
    <2>2. Box!Concerns(l) /\ BridgeLife' = BridgeLife
      BY <2>1, PollerConcerned, <1>l
    <2>3. CASE pending /\ overdue /\ ~pending' /\ ~ready' /\ got' = got
      <3>1. Box!Expire(l)
        BY <2>1, <2>2, <2>3, <1>e DEF Box!Expire, BridgeSlot
      <3> QED
        BY <3>1 DEF Box!Next
    <2>4. CASE /\ ready /\ ~ready' /\ pending' = pending
               /\ got' = [got EXCEPT ![l] = IF result = "ok" THEN response ELSE 0]
      <3>1. ~pending /\ (result = "ok" => response = chat)
        BY <2>4 DEF IInv, SlotOK
      <3>2. /\ BridgeSlot.state = "answered" /\ BridgeSlot.question = chat
            /\ BridgeSlot.usable = (result = "ok")
        BY <2>4, <3>1 DEF BridgeSlot
      <3>3. Box!Take(l)
        BY <2>1, <2>2, <2>4, <3>1, <3>2, <1>e DEF Box!Take
      <3> QED
        BY <3>3 DEF Box!Next
    <2>5. CASE UNCHANGED <<pending, ready, result, got>>
      BY <2>1, <2>5, <1>u
    <2> QED
      BY <1>7, <2>3, <2>4, <2>5 DEF Poll
  <1>8. CASE GiveUp
    <2>1. /\ pc["product"] = "poll" /\ ~pending' /\ ~ready'
          /\ mine' = [mine EXCEPT !["product"] = 0] /\ got' = [got EXCEPT !["product"] = 0]
          /\ UNCHANGED <<attached, engine, sequence, meddled>>
      BY <1>8 DEF GiveUp, Drop, Leave
    <2>2. Box!Withdraw("product")
      BY <2>1, <1>t, <1>e, <1>l, PollerConcerned DEF Box!Withdraw
    <2> QED
      BY <2>2, <1>t DEF Box!Next
  <1>9. CASE EndTurn
    <2>1. Box!Leave("turn")
      BY <1>9, <1>s, <1>l DEF EndTurn, Leave, Box!Leave, bridgeVars
    <2> QED
      BY <2>1, <1>t DEF Box!Next
  <1>10. CASE EndProduct
    <2>1. Box!Leave("product")
      BY <1>10, <1>s, <1>l DEF EndProduct, Leave, Box!Leave, bridgeVars
    <2> QED
      BY <2>1, <1>t DEF Box!Next
  <1>11. CASE UserCancel
    <2>1. /\ ~pending' /\ ~ready' /\ meddled' = (meddled \/ pending \/ ready)
          /\ UNCHANGED <<attached, engine, sequence, mine, got>>
      BY <1>11 DEF UserCancel, Drop, askVars
    <2>2. meddled' = (meddled \/ BridgeSlot # Box!Empty)
      BY <2>1, SlotView
    <2>3. Box!Cancel
      BY <2>1, <2>2, <1>e, <1>l DEF Box!Cancel
    <2> QED
      BY <2>3 DEF Box!Next
  <1> QED
    BY <1>0, <1>1, <1>2, <1>3, <1>4, <1>5, <1>6, <1>7, <1>8, <1>9, <1>10, <1>11
       DEF Next, EngineNext, AskNext

\* The bridge keeps Mailbox's promise to its two callers: one place, nobody's
\* question dropped for another's, an answer taken once and for its question.
THEOREM BridgeRefinesMailbox == Spec => BridgeIsMailbox
  <1>1. Init => Box!Init
    BY DEF Init, Box!Init, BridgeSlot, BridgeLife, Box!Empty
  <1>2. IInv /\ IInv' /\ [Next]_vars => [Box!Next]_(Box!vars)
    BY BoxSteps
  <1> QED
    BY Safety, <1>1, <1>2, PTL DEF Spec, BridgeIsMailbox, Box!Spec

=============================================================================
