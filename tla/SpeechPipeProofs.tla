-------------------------- MODULE SpeechPipeProofs ----------------------------
(***************************************************************************)
(* SpeechPipe for every length of the reply and every size of the queue,   *)
(* the ring, the gates and the transactions.  IInv is inductive: what is   *)
(* heard follows from where every block made so far is (SoundOK), and who  *)
(* is told of an error from who can still be waiting for it (OwnersOK).    *)
(***************************************************************************)
EXTENDS SpeechPipe, TLAPS

\* A slot of the queue, counted from its head, is a slot; two are two slots.
LEMMA AtOK ==
  ASSUME TypeOK, NEW i \in 0..QueueCap - 1
  PROVE  At(i) \in Slots /\ \A j \in 0..QueueCap - 1 : j # i => At(j) # At(i)
<1>1. head \in Nat /\ i \in Nat /\ QueueCap \in Nat /\ head < QueueCap /\ i < QueueCap
  BY SizesAssumption DEF TypeOK, Slots
<1>2. At(i) \in Slots
  BY <1>1 DEF At, Slots
<1>3. ASSUME NEW j \in 0..QueueCap - 1, j # i PROVE At(j) # At(i)
  <2>1. j \in Nat /\ j < QueueCap BY <1>1
  <2>2. QED BY <1>1, <1>3, <2>1 DEF At
<1>4. QED BY <1>2, <1>3

\* A phrase more is its blocks more.
LEMMA Times ==
  ASSUME NEW n \in Nat
  PROVE  n * Blocks \in Nat /\ (n + 1) * Blocks = n * Blocks + Blocks
BY SizesAssumption

\* More phrases have no fewer blocks.
LEMMA TimesGrows ==
  ASSUME NEW m \in Nat, NEW n \in Nat
  PROVE  m * Blocks <= (m + n) * Blocks
<1>1. (m + n) * Blocks = m * Blocks + n * Blocks BY SizesAssumption
<1>2. m * Blocks \in Nat /\ n * Blocks \in Nat BY Times
<1>3. QED BY <1>1, <1>2

\* A phrase goes into the slot after the last one.
LEMMA PutQueue ==
  ASSUME IInv, Put
  PROVE  TypeOK' /\ QueueOK'
<1>1. CASE count = QueueCap
  <2>1. /\ UNCHANGED <<slots, head, count, queued, produced, done, pipe, result, status>>
        /\ turn \in {"put", "lastput"} /\ turn' = IF turn = "put" THEN "room" ELSE "lastroom"
    BY <1>1, SizesAssumption DEF Put, turnFrame
  <2>2. TypeOK'
    BY <2>1 DEF Put, turnFrame, playVars, speakVars, workVars, envVars, IInv, TypeOK
  <2>3. QueueOK'
    BY <2>1 DEF IInv, QueueOK, At
  <2>4. QED BY <2>2, <2>3
<1>2. CASE count < QueueCap
  <2>1. At(count) \in Slots /\ \A j \in 0..QueueCap - 1 : j # count => At(j) # At(count)
    <3>1. TypeOK /\ count \in 0..QueueCap - 1
      BY <1>2, SizesAssumption DEF IInv, TypeOK
    <3>2. QED BY <3>1, AtOK
  <2>2. /\ slots' = [slots EXCEPT ![At(count)] = queued + 1]
        /\ count' = count + 1 /\ queued' = queued + 1 /\ UNCHANGED <<head, produced>>
    BY <1>2 DEF Put, turnFrame
  <2>3. \A i \in 0..QueueCap - 1 : At(i)' = At(i)
    BY <2>2 DEF At
  <2>4. slots' \in [Slots -> Nat]
    BY <2>1, <2>2 DEF IInv, TypeOK
  <2>5. TypeOK'
    BY <1>2, <2>4, SizesAssumption
    DEF Put, turnFrame, playVars, speakVars, workVars, envVars, IInv, TypeOK, Slots
  <2>6. \A i \in 0..QueueCap - 1 : i < count' => slots'[At(i)'] = produced' + i + 1
    <3>1. SUFFICES ASSUME NEW i \in 0..QueueCap - 1, i < count'
                   PROVE  slots'[At(i)] = produced + i + 1
      BY <2>2, <2>3
    <3>2. CASE i = count
      BY <2>1, <2>2, <3>2 DEF IInv, TypeOK, QueueOK
    <3>3. CASE i < count
      BY <2>1, <2>2, <3>3, AtOK DEF IInv, TypeOK, QueueOK
    <3>4. QED BY <2>2, <3>1, <3>2, <3>3 DEF IInv, TypeOK
  <2>7. queued' = produced' + count' /\ queued' <= MaxPhrases
    BY <2>2, SizesAssumption DEF Put, IInv, QueueOK, TypeOK
  <2>8. QED
    BY <1>2, <2>2, <2>5, <2>6, <2>7 DEF Put, turnFrame, IInv, QueueOK, TypeOK
<1>3. QED BY <1>1, <1>2, SizesAssumption DEF IInv, TypeOK

\* The oldest phrase leaves its slot.
LEMMA TakeTypes ==
  ASSUME IInv, Take
  PROVE  TypeOK' /\ QueueOK'
<1>1. CASE count = 0
  BY <1>1, SizesAssumption
  DEF Take, speakFrame, turnVars, envVars, IInv, TypeOK, QueueOK, At
<1>2. CASE count > 0
  <2>1. /\ slots' = [slots EXCEPT ![head] = 0] /\ phrase' = slots[head]
        /\ head' = At(1) /\ count' = count - 1 /\ produced' = produced + 1 /\ UNCHANGED queued
    BY <1>2 DEF Take, speakFrame
  <2>2. head' \in Slots
    BY <2>1, SizesAssumption DEF IInv, TypeOK, At, Slots
  <2>3. slots' \in [Slots -> Nat] /\ phrase' \in Nat
    BY <2>1 DEF IInv, TypeOK
  <2>4. TypeOK'
    BY <1>2, <2>1, <2>2, <2>3, SizesAssumption
    DEF Take, speakFrame, turnVars, envVars, IInv, TypeOK, Slots
  <2>5. \A i \in 0..QueueCap - 1 : i < count' => slots'[At(i)'] = produced' + i + 1
    <3>1. SUFFICES ASSUME NEW i \in 0..QueueCap - 1, i < count'
                   PROVE  slots'[At(i)'] = produced' + i + 1
      OBVIOUS
    <3>2. i + 1 \in 0..QueueCap - 1 /\ i + 1 < count
      BY <2>1, <3>1, SizesAssumption DEF IInv, TypeOK
    <3>3. At(i)' = At(i + 1)
      <4>1. head \in Nat /\ i \in Nat /\ QueueCap \in Nat /\ head < QueueCap /\ i + 1 < QueueCap
        BY <3>2, SizesAssumption DEF IInv, TypeOK, Slots
      <4>2. head' = IF head + 1 < QueueCap THEN head + 1 ELSE head + 1 - QueueCap
        BY <2>1 DEF At
      <4>3. At(i)' = IF head' + i < QueueCap THEN head' + i ELSE head' + i - QueueCap
        BY DEF At
      <4>4. QED BY <4>1, <4>2, <4>3 DEF At
    <3>4. At(i + 1) \in Slots /\ At(i + 1) # head
      <4>1. /\ head \in Nat /\ head < QueueCap /\ QueueCap \in Nat
            /\ i + 1 \in Nat /\ i + 1 < QueueCap /\ i + 1 > 0
        BY <3>1, <3>2, SizesAssumption DEF IInv, TypeOK, Slots
      <4>2. QED BY <4>1 DEF At, Slots
    <3>5. slots[At(i + 1)] = produced + (i + 1) + 1
      BY <3>2 DEF IInv, QueueOK
    <3>6. QED BY <2>1, <3>3, <3>4, <3>5 DEF IInv, TypeOK
  <2>6. QED
    BY <1>2, <2>1, <2>4, <2>5 DEF Take, speakFrame, turnVars, IInv, TypeOK, QueueOK
<1>3. QED BY <1>1, <1>2, SizesAssumption DEF IInv, TypeOK

\* The phrase taken is the next of the reply.
LEMMA TakeSound ==
  ASSUME IInv, Take
  PROVE  SoundOK'
<1>1. CASE count = 0
  BY <1>1, SizesAssumption DEF Take, speakFrame, turnVars, IInv, TypeOK, QueueOK, SoundOK,
      OwnersOK, Made, Block
<1>2. CASE count > 0
  <2>1. phrase' = produced + 1 /\ produced' = produced + 1 /\ part' = 1 /\ speaker' = "emit"
    <3>1. At(0) = head BY SizesAssumption DEF IInv, TypeOK, At, Slots
    <3>2. 0 \in 0..QueueCap - 1 /\ 0 < count
      BY <1>2, SizesAssumption DEF IInv, TypeOK
    <3>3. slots[At(0)] = produced + 0 + 1
      BY <3>2 DEF IInv, QueueOK
    <3>4. QED BY <1>2, <3>1, <3>3 DEF Take, IInv, TypeOK
  <2>2. UNCHANGED <<ring, heard, held, rc, worker, failure, finished, segment_frames, done>>
    BY <1>2 DEF Take, speakFrame
  <2>3. Made = produced * Blocks /\ Made' = Made
    BY <2>2 DEF Take, IInv, SoundOK, Made
  <2>4. produced * Blocks \in Nat /\ (produced + 1) * Blocks = produced * Blocks + Blocks
    BY Times DEF IInv, TypeOK
  <2>5. Block(phrase', part') = produced * Blocks + 1
    BY <2>1 DEF Block, IInv, TypeOK
  <2>6. produced' * Blocks = produced * Blocks + Blocks
    BY <2>1, <2>4
  <2>7. Made' <= produced' * Blocks /\ Made' = Block(phrase', part') - 1 /\ part' \in 1..Blocks
    BY <2>1, <2>3, <2>4, <2>5, <2>6, SizesAssumption
  <2>8. QED
    BY <2>1, <2>2, <2>7 DEF IInv, TypeOK, SoundOK
<1>3. QED BY <1>1, <1>2, SizesAssumption DEF IInv, TypeOK

\* A block more in the ring.
LEMMA PushedRing ==
  ASSUME IInv, held # 0, ring' = Append(ring, held), Len(ring) < RingCap, heard' = heard
  PROVE  /\ ring' \in Seq(Nat) /\ Len(ring') = Len(ring) + 1 /\ Len(ring') <= RingCap /\ ring' # <<>>
         /\ \A i \in 1..Len(ring') : ring'[i] = heard' + i
<1>1. ring \in Seq(Nat) /\ held \in Nat /\ heard \in Nat BY DEF IInv, TypeOK
<1>2. ring' \in Seq(Nat) /\ Len(ring') = Len(ring) + 1 BY <1>1
<1>3. \A i \in 1..Len(ring') : ring'[i] = heard + i
  <2>1. held = heard + Len(ring) + 1 BY DEF IInv, SoundOK
  <2>2. SUFFICES ASSUME NEW i \in 1..Len(ring') PROVE ring'[i] = heard + i OBVIOUS
  <2>3. CASE i = Len(ring) + 1
    <3>1. ring'[Len(ring) + 1] = held BY <1>1
    <3>2. QED BY <1>1, <2>1, <2>3, <3>1
  <2>4. CASE i \in 1..Len(ring)
    <3>1. ring'[i] = ring[i] BY <1>1, <2>4
    <3>2. QED BY <2>4, <3>1 DEF IInv, SoundOK
  <2>5. QED BY <1>1, <1>2, <2>2, <2>3, <2>4
<1>4. Len(ring) \in Nat /\ Len(ring') <= RingCap
  BY <1>1, <1>2, SizesAssumption
<1>5. ring' # <<>>
  BY <1>1
<1>6. QED BY <1>2, <1>3, <1>4, <1>5

\* A block made stays typed.
LEMMA PushTypes ==
  ASSUME IInv, Push
  PROVE  TypeOK'
<1>1. Block(phrase, part) \in Nat
  <2>1. phrase - 1 \in Nat /\ part \in Nat BY DEF Push, IInv, TypeOK, SoundOK
  <2>2. (phrase - 1) * Blocks \in Nat BY <2>1, Times
  <2>3. QED BY <2>1, <2>2 DEF Block
<1>2. ring' \in Seq(Nat) /\ held' \in Nat /\ part' \in Nat
  <2>1. ring \in Seq(Nat) /\ held \in Nat /\ part \in Nat BY DEF IInv, TypeOK
  <2>2. ring' = Append(ring, held) \/ ring' = ring BY DEF Push
  <2>3. ring' \in Seq(Nat) BY <2>1, <2>2
  <2>4. QED BY <1>1, <2>1, <2>3 DEF Push
<1>3. QED BY <1>2 DEF Push, speakFrame, turnVars, envVars, IInv, TypeOK

\* The block made is the next of the phrase, and the one before it joins the ring.
LEMMA PushSound ==
  ASSUME IInv, Push
  PROVE  SoundOK'
<1>1. UNCHANGED <<phrase, produced, heard, rc, worker, failure, finished, segment_frames, done, count>>
  BY DEF Push, speakFrame
<1>2. CASE held # 0 /\ Len(ring) = RingCap
  BY <1>1, <1>2 DEF Push, IInv, TypeOK, QueueOK, SoundOK, OwnersOK, Made, Block
<1>3. CASE held = 0 \/ Len(ring) < RingCap
  <2>1. /\ held' = Block(phrase, part) /\ part' = part + 1
        /\ speaker' = IF part = Blocks THEN "feed" ELSE "emit"
    BY <1>3, SizesAssumption DEF Push, IInv, TypeOK
  <2>2. /\ Len(ring') = Len(ring) + (IF held # 0 THEN 1 ELSE 0) /\ Len(ring') \in Nat
        /\ Len(ring') <= RingCap /\ (ring # <<>> => ring' # <<>>)
        /\ \A i \in 1..Len(ring') : ring'[i] = heard' + i
    <3>1. CASE held # 0
      BY <1>1, <1>3, <3>1, PushedRing, SizesAssumption DEF Push, IInv, TypeOK
    <3>2. CASE held = 0
      BY <1>1, <3>2 DEF Push, IInv, TypeOK, SoundOK
    <3>3. QED BY <3>1, <3>2
  <2>3. /\ phrase = produced /\ produced \in Nat \ {0} /\ part \in 1..Blocks
        /\ Made = Block(phrase, part) - 1
    BY DEF Push, IInv, TypeOK, SoundOK
  <2>4. /\ (produced - 1) * Blocks \in Nat
        /\ produced * Blocks = (produced - 1) * Blocks + Blocks
    <3>1. produced - 1 \in Nat /\ (produced - 1) + 1 = produced BY <2>3
    <3>2. QED BY <3>1, Times
  <2>5. /\ Block(phrase, part) = (produced - 1) * Blocks + part
        /\ Block(phrase, part + 1) = (produced - 1) * Blocks + (part + 1)
    BY <2>3 DEF Block
  <2>6. held' # 0 /\ held' = heard' + Len(ring') + 1
    <3>1. Made = heard + Len(ring') BY <2>2 DEF Made, IInv, TypeOK
    <3>2. held' = Made + 1 BY <2>1, <2>3, <2>4, <2>5, SizesAssumption
    <3>3. QED BY <1>1, <2>2, <3>1, <3>2 DEF IInv, TypeOK
  <2>7. Made' = Block(phrase, part)
    BY <2>1, <2>2, <2>6 DEF Made, IInv, TypeOK
  <2>8. Made' <= produced' * Blocks
    BY <1>1, <2>3, <2>4, <2>5, <2>7, SizesAssumption
  <2>9. CASE part = Blocks
    <3>1. speaker' = "feed" /\ Made' = produced' * Blocks
      BY <1>1, <2>1, <2>3, <2>4, <2>5, <2>7, <2>9, SizesAssumption
    <3>2. QED BY <1>1, <2>2, <2>6, <2>8, <3>1 DEF IInv, SoundOK, OwnersOK, Push
  <2>10. CASE part # Blocks
    <3>1. /\ speaker' = "emit" /\ part' \in 1..Blocks /\ phrase' = produced' /\ produced' > 0
          /\ Made' = Block(phrase', part') - 1
      BY <1>1, <2>1, <2>3, <2>4, <2>5, <2>7, <2>10, SizesAssumption
    <3>2. QED BY <1>1, <2>2, <2>6, <2>8, <3>1 DEF IInv, SoundOK, OwnersOK, Push
  <2>11. QED BY <2>9, <2>10
<1>4. QED BY <1>2, <1>3, SizesAssumption DEF IInv, TypeOK, SoundOK

\* The rest of the sound stays typed.
LEMMA SendRestTypes ==
  ASSUME IInv, SendRest
  PROVE  TypeOK'
<1>1. ring' \in Seq(Nat) /\ held' \in Nat
  <2>1. ring \in Seq(Nat) /\ held \in Nat BY DEF IInv, TypeOK
  <2>2. (ring' = Append(ring, held) /\ held' = 0) \/ UNCHANGED <<ring, held>> BY DEF SendRest
  <2>3. QED BY <2>1, <2>2
<1>2. QED BY <1>1 DEF SendRest, speakFrame, turnVars, envVars, IInv, TypeOK

\* The last block joins the ring.
LEMMA SendRestSound ==
  ASSUME IInv, SendRest
  PROVE  SoundOK'
<1>1. /\ UNCHANGED <<phrase, part, produced, heard, rc, worker, failure, finished, segment_frames,
                  done, count>>
      /\ held # 0
  BY DEF SendRest, speakFrame, IInv, SoundOK
<1>2. CASE Len(ring) = RingCap
  BY <1>1, <1>2 DEF SendRest, IInv, TypeOK, SoundOK, Made
<1>3. CASE Len(ring) < RingCap
  <2>1. ring' = Append(ring, held) /\ held' = 0 /\ speaker' = "stop"
    BY <1>3, SizesAssumption DEF SendRest, IInv, TypeOK
  <2>2. /\ ring' \in Seq(Nat) /\ Len(ring') = Len(ring) + 1 /\ Len(ring') <= RingCap /\ ring' # <<>>
        /\ \A i \in 1..Len(ring') : ring'[i] = heard' + i
    BY <1>1, <1>3, <2>1, PushedRing
  <2>3. Made' = Made /\ Made' > 0
    BY <1>1, <2>1, <2>2 DEF Made, IInv, TypeOK
  <2>4. QED
    BY <1>1, <2>1, <2>2, <2>3 DEF SendRest, IInv, SoundOK, OwnersOK
<1>4. QED BY <1>2, <1>3, SizesAssumption DEF IInv, TypeOK, SoundOK

\* A block given to the device stays typed.
LEMMA GiveTypes ==
  ASSUME IInv, Give
  PROVE  TypeOK'
<1>1. ring' \in Seq(Nat) /\ heard' \in Nat /\ segment_frames' \in Nat /\ started' \in BOOLEAN
  <2>1. ring \in Seq(Nat) /\ heard \in Nat /\ segment_frames \in Nat /\ started \in BOOLEAN
    BY DEF IInv, TypeOK
  <2>2. CASE UNCHANGED <<ring, heard, segment_frames, started>> BY <2>1, <2>2
  <2>3. CASE /\ ring # <<>> /\ heard' = Head(ring) /\ ring' = Tail(ring) /\ started' = TRUE
             /\ segment_frames' = segment_frames + 1
    <3>1. Head(ring) \in Nat /\ Tail(ring) \in Seq(Nat) BY <2>1, <2>3
    <3>2. QED BY <2>1, <2>3, <3>1
  <2>4. QED BY <2>2, <2>3 DEF Give
<1>2. failure' \in Codes /\ drc' \in Codes /\ worker' \in {"end", "read"}
  BY DEF Give, IInv, TypeOK, First, Codes
<1>3. QED
  BY <1>1, <1>2 DEF Give, workFrame, pipeVars, lifeVars, turnVars, speakVars, envVars, IInv, TypeOK

\* The block given to the device is the next one to be heard.
LEMMA GiveSound ==
  ASSUME IInv, Give
  PROVE  SoundOK'
<1>1. UNCHANGED <<produced, speaker, phrase, part, held, rc, finished, done, count>>
  BY DEF Give, workFrame, pipeVars, speakVars
<1>2. CASE UNCHANGED <<ring, segment_frames, heard>> /\ worker' = "end"
  BY <1>1, <1>2 DEF IInv, SoundOK, Made, Block
<1>3. CASE /\ segment_frames # SegMax /\ ring # <<>>
           /\ heard' = Head(ring) /\ ring' = Tail(ring) /\ segment_frames' = segment_frames + 1
           /\ worker' = "read" /\ UNCHANGED failure
  <2>1. ring \in Seq(Nat) /\ Len(ring) > 0 /\ heard \in Nat BY <1>3 DEF IInv, TypeOK
  <2>2. heard' = heard + 1 BY <1>3, <2>1 DEF IInv, SoundOK
  <2>3. Len(ring') = Len(ring) - 1 /\ \A i \in 1..Len(ring') : ring'[i] = ring[i + 1]
    BY <1>3, <2>1
  <2>4. \A i \in 1..Len(ring') : ring'[i] = heard' + i
    BY <2>1, <2>2, <2>3 DEF IInv, SoundOK
  <2>5. Made' = Made
    BY <1>1, <2>1, <2>2, <2>3 DEF Made
  <2>6. segment_frames' <= SegMax /\ segment_frames' # 0
    BY <1>3, SizesAssumption DEF IInv, TypeOK, SoundOK
  <2>7. held' # 0 => held' = heard' + Len(ring') + 1
    BY <1>1, <2>1, <2>2, <2>3 DEF IInv, SoundOK
  <2>8. QED
    BY <1>1, <1>3, <2>1, <2>3, <2>4, <2>5, <2>6, <2>7, SizesAssumption DEF IInv, SoundOK, Block
<1>4. QED BY <1>2, <1>3 DEF Give

\* Only the I2S worker's own place changes with a block.
LEMMA GiveOwners ==
  ASSUME IInv, Give
  PROVE  OwnersOK'
<1>1. UNCHANGED <<speaker, rc, playback, control, finished, pipe, turn, result, status, error,
                  downstream_retained, held>>
  BY DEF Give, workFrame, lifeVars, turnVars, speakVars
<1>2. worker = "take" /\ worker' \in {"end", "read"} /\ speaker # "enter"
  BY DEF Give, IInv, OwnersOK
<1>3. failure' = "ok" => failure = "ok"
  BY DEF Give, First
<1>4. QED BY <1>1, <1>2, <1>3 DEF IInv, OwnersOK

\* The turn that asks for room frees nothing.
LEMMA RoomOwners ==
  ASSUME IInv, Room
  PROVE  OwnersOK'
<1>1. UNCHANGED <<speaker, rc, playback, control, finished, pipe, worker, failure, heard, ring, held,
                  downstream_retained>>
  BY DEF Room, turnFrame, playVars, speakVars, workVars
<1>2. error' = "ok" => error = "ok"
  BY DEF Room, PipeCode
<1>3. /\ turn' \in {"put", "lastput", "finish", "done"} /\ turn # "over"
      /\ turn' = "finish" => result' # "ok"
  BY DEF Room
<1>4. QED BY <1>1, <1>2, <1>3 DEF IInv, OwnersOK

-----------------------------------------------------------------------------
(* The turn's thread.                                                       *)

\* Write keeps the invariant.
LEMMA WriteStep ==
  ASSUME IInv, Write
  PROVE  IInv'
<1>1. TypeOK'
  BY SizesAssumption
  DEF playVars, speakVars, workVars, envVars, Codes, Lives, Slots, turnFrame, Write, TypeOK,
      IInv
<1>2. QueueOK'
  BY SizesAssumption
  DEF At, turnFrame, Write, TypeOK, QueueOK, IInv
<1>3. SoundOK'
  BY SizesAssumption
  DEF playVars, speakVars, workVars, At, Block, turnFrame, Write, TypeOK, QueueOK, Made,
      SoundOK, OwnersOK, IInv
<1>4. OwnersOK'
  BY DEF playVars, speakVars, workVars, turnFrame, Write, TypeOK, QueueOK, SoundOK, OwnersOK, IInv
<1>5. QED BY <1>1, <1>2, <1>3, <1>4 DEF IInv

\* WriteEnds keeps the invariant.
LEMMA WriteEndsStep ==
  ASSUME IInv, WriteEnds
  PROVE  IInv'
<1>1. TypeOK'
  BY SizesAssumption
  DEF playVars, speakVars, workVars, envVars, Codes, Lives, Slots, First, turnFrame, WriteEnds,
      TypeOK, IInv
<1>2. QueueOK'
  BY SizesAssumption
  DEF At, First, turnFrame, WriteEnds, TypeOK, QueueOK, IInv
<1>3. SoundOK'
  BY SizesAssumption
  DEF playVars, speakVars, workVars, At, Block, First, turnFrame, WriteEnds, TypeOK, QueueOK,
      Made, SoundOK, OwnersOK, IInv
<1>4. OwnersOK'
  BY DEF playVars, speakVars, workVars, First, turnFrame, WriteEnds, TypeOK, QueueOK, SoundOK,
      OwnersOK, IInv
<1>5. QED BY <1>1, <1>2, <1>3, <1>4 DEF IInv

\* Room keeps the invariant.
LEMMA RoomStep ==
  ASSUME IInv, Room
  PROVE  IInv'
<1>1. TypeOK'
  BY SizesAssumption
  DEF playVars, speakVars, workVars, envVars, Codes, Lives, Slots, PipeCode, turnFrame, Room,
      TypeOK, IInv
<1>2. QueueOK'
  BY SizesAssumption
  DEF At, PipeCode, turnFrame, Room, TypeOK, QueueOK, IInv
<1>3. SoundOK'
  BY SizesAssumption
  DEF playVars, speakVars, workVars, At, Block, PipeCode, turnFrame, Room, TypeOK, QueueOK,
      Made, SoundOK, OwnersOK, IInv
<1>4. OwnersOK' BY RoomOwners
<1>5. QED BY <1>1, <1>2, <1>3, <1>4 DEF IInv

\* Put keeps the invariant.
LEMMA PutStep ==
  ASSUME IInv, Put
  PROVE  IInv'
<1>1. TypeOK' BY PutQueue
<1>2. QueueOK' BY PutQueue
<1>3. SoundOK'
  BY SizesAssumption
  DEF playVars, speakVars, workVars, At, Block, turnFrame, Put, TypeOK, QueueOK, Made, SoundOK,
      OwnersOK, IInv
<1>4. OwnersOK'
  BY DEF playVars, speakVars, workVars, turnFrame, Put, TypeOK, QueueOK, SoundOK, OwnersOK, IInv
<1>5. QED BY <1>1, <1>2, <1>3, <1>4 DEF IInv

\* Accepted keeps the invariant.
LEMMA AcceptedStep ==
  ASSUME IInv, Accepted
  PROVE  IInv'
<1>1. TypeOK'
  BY SizesAssumption
  DEF playVars, speakVars, workVars, envVars, Codes, Lives, Slots, PipeCode, turnFrame,
      Accepted, TypeOK, IInv
<1>2. QueueOK'
  BY SizesAssumption
  DEF At, PipeCode, turnFrame, Accepted, TypeOK, QueueOK, IInv
<1>3. SoundOK'
  BY SizesAssumption
  DEF playVars, speakVars, workVars, At, Block, PipeCode, turnFrame, Accepted, TypeOK, QueueOK,
      Made, SoundOK, OwnersOK, IInv
<1>4. OwnersOK'
  BY DEF playVars, speakVars, workVars, PipeCode, turnFrame, Accepted, TypeOK, QueueOK, SoundOK,
      OwnersOK, IInv
<1>5. QED BY <1>1, <1>2, <1>3, <1>4 DEF IInv

\* Upstream keeps the invariant.
LEMMA UpstreamStep ==
  ASSUME IInv, Upstream
  PROVE  IInv'
<1>1. TypeOK'
  BY SizesAssumption
  DEF playVars, speakVars, workVars, envVars, Codes, Lives, Slots, First, turnFrame, Upstream,
      TypeOK, IInv
<1>2. QueueOK'
  BY SizesAssumption
  DEF At, First, turnFrame, Upstream, TypeOK, QueueOK, IInv
<1>3. SoundOK'
  BY SizesAssumption
  DEF playVars, speakVars, workVars, At, Block, First, turnFrame, Upstream, TypeOK, QueueOK,
      Made, SoundOK, OwnersOK, IInv
<1>4. OwnersOK'
  BY DEF playVars, speakVars, workVars, First, turnFrame, Upstream, TypeOK, QueueOK, SoundOK,
      OwnersOK, IInv
<1>5. QED BY <1>1, <1>2, <1>3, <1>4 DEF IInv

\* Done keeps the invariant.
LEMMA DoneStep ==
  ASSUME IInv, Done
  PROVE  IInv'
<1>1. TypeOK'
  BY SizesAssumption
  DEF playVars, speakVars, workVars, envVars, Codes, Lives, Slots, turnFrame, Done, TypeOK, IInv
<1>2. QueueOK'
  BY SizesAssumption
  DEF At, turnFrame, Done, TypeOK, QueueOK, IInv
<1>3. SoundOK'
  BY SizesAssumption
  DEF playVars, speakVars, workVars, At, Block, turnFrame, Done, TypeOK, QueueOK, Made, SoundOK,
      OwnersOK, IInv
<1>4. OwnersOK'
  BY DEF playVars, speakVars, workVars, turnFrame, Done, TypeOK, QueueOK, SoundOK, OwnersOK, IInv
<1>5. QED BY <1>1, <1>2, <1>3, <1>4 DEF IInv

\* Join keeps the invariant.
LEMMA JoinStep ==
  ASSUME IInv, Join
  PROVE  IInv'
<1>1. TypeOK'
  BY SizesAssumption
  DEF playVars, speakVars, workVars, envVars, Codes, Lives, Slots, First, turnFrame, Release,
      Join, TypeOK, IInv
<1>2. QueueOK'
  BY SizesAssumption
  DEF playVars, speakVars, workVars, envVars, Codes, Lives, Slots, At, First, turnFrame,
      Release, Join, TypeOK, QueueOK, IInv
<1>3. SoundOK'
  BY SizesAssumption
  DEF playVars, speakVars, workVars, At, Block, First, turnFrame, Release, Join, TypeOK,
      QueueOK, Made, SoundOK, OwnersOK, IInv
<1>4. OwnersOK'
  BY DEF playVars, speakVars, workVars, First, turnFrame, Release, Join, TypeOK, QueueOK, SoundOK,
      OwnersOK, IInv
<1>5. QED BY <1>1, <1>2, <1>3, <1>4 DEF IInv

\* JoinFails keeps the invariant.
LEMMA JoinFailsStep ==
  ASSUME IInv, JoinFails
  PROVE  IInv'
<1>1. TypeOK'
  BY SizesAssumption
  DEF playVars, speakVars, workVars, envVars, Codes, Lives, Slots, First, turnFrame, JoinFails,
      TypeOK, IInv
<1>2. QueueOK'
  BY SizesAssumption
  DEF At, First, turnFrame, JoinFails, TypeOK, QueueOK, IInv
<1>3. SoundOK'
  BY SizesAssumption
  DEF playVars, speakVars, workVars, At, Block, First, turnFrame, JoinFails, TypeOK, QueueOK,
      Made, SoundOK, OwnersOK, IInv
<1>4. OwnersOK'
  BY DEF playVars, speakVars, workVars, First, turnFrame, JoinFails, TypeOK, QueueOK, SoundOK,
      OwnersOK, IInv
<1>5. QED BY <1>1, <1>2, <1>3, <1>4 DEF IInv

-----------------------------------------------------------------------------
(* The pipe's thread.                                                       *)

\* Enter keeps the invariant.
LEMMA EnterStep ==
  ASSUME IInv, Enter
  PROVE  IInv'
<1>1. TypeOK'
  BY SizesAssumption
  DEF turnVars, envVars, Codes, Lives, Slots, speakFrame, Enter, TypeOK, IInv
<1>2. QueueOK'
  BY SizesAssumption
  DEF turnVars, At, speakFrame, Enter, TypeOK, QueueOK, IInv
<1>3. SoundOK'
  BY SizesAssumption
  DEF At, Block, speakFrame, Enter, TypeOK, QueueOK, Made, SoundOK, OwnersOK, IInv
<1>4. OwnersOK'
  BY DEF turnVars, speakFrame, Enter, TypeOK, QueueOK, SoundOK, OwnersOK, IInv
<1>5. QED BY <1>1, <1>2, <1>3, <1>4 DEF IInv

\* Feed keeps the invariant.
LEMMA FeedStep ==
  ASSUME IInv, Feed
  PROVE  IInv'
<1>1. TypeOK'
  BY SizesAssumption
  DEF turnVars, envVars, Codes, Lives, Slots, First, PipeCode, Outside, PollCode, Poll,
      speakFrame, Feed, TypeOK, IInv
<1>2. QueueOK'
  BY SizesAssumption
  DEF turnVars, At, First, PipeCode, speakFrame, Feed, TypeOK, QueueOK, IInv
<1>3. SoundOK'
  BY SizesAssumption
  DEF At, Block, First, PipeCode, Outside, PollCode, Poll, speakFrame, Feed, TypeOK, QueueOK,
      Made, SoundOK, OwnersOK, IInv
<1>4. OwnersOK'
  BY DEF turnVars, First, PipeCode, Outside, PollCode, Poll, speakFrame, Feed, TypeOK, QueueOK,
      SoundOK, OwnersOK, IInv
<1>5. QED BY <1>1, <1>2, <1>3, <1>4 DEF IInv

\* Take keeps the invariant.
LEMMA TakeStep ==
  ASSUME IInv, Take
  PROVE  IInv'
<1>1. TypeOK' BY TakeTypes
<1>2. QueueOK' BY TakeTypes
<1>3. SoundOK' BY TakeSound
<1>4. OwnersOK'
  BY DEF turnVars, speakFrame, Take, TypeOK, QueueOK, SoundOK, OwnersOK, IInv
<1>5. QED BY <1>1, <1>2, <1>3, <1>4 DEF IInv

\* Emit keeps the invariant.
LEMMA EmitStep ==
  ASSUME IInv, Emit
  PROVE  IInv'
<1>1. TypeOK'
  BY SizesAssumption
  DEF turnVars, envVars, Codes, Lives, Slots, First, PipeCode, Outside, PollCode, Poll,
      speakFrame, Emit, TypeOK, IInv
<1>2. QueueOK'
  BY SizesAssumption
  DEF turnVars, At, First, PipeCode, speakFrame, Emit, TypeOK, QueueOK, IInv
<1>3. SoundOK'
  BY SizesAssumption
  DEF At, Block, First, PipeCode, Outside, PollCode, Poll, speakFrame, Emit, TypeOK, QueueOK,
      Made, SoundOK, OwnersOK, IInv
<1>4. OwnersOK'
  BY DEF turnVars, First, PipeCode, Outside, PollCode, Poll, speakFrame, Emit, TypeOK, QueueOK,
      SoundOK, OwnersOK, IInv
<1>5. QED BY <1>1, <1>2, <1>3, <1>4 DEF IInv

\* Push keeps the invariant.
LEMMA PushStep ==
  ASSUME IInv, Push
  PROVE  IInv'
<1>1. TypeOK' BY PushTypes
<1>2. QueueOK'
  BY SizesAssumption
  DEF turnVars, At, speakFrame, Push, TypeOK, QueueOK, IInv
<1>3. SoundOK' BY PushSound
<1>4. OwnersOK'
  BY DEF turnVars, speakFrame, Push, TypeOK, QueueOK, SoundOK, OwnersOK, IInv
<1>5. QED BY <1>1, <1>2, <1>3, <1>4 DEF IInv

\* Flush keeps the invariant.
LEMMA FlushStep ==
  ASSUME IInv, Flush
  PROVE  IInv'
<1>1. TypeOK'
  <2>1. failure \in Codes /\ error \in Codes /\ Outside \in Codes /\ PipeCode \in Codes
    BY DEF IInv, TypeOK, Outside, PipeCode, Codes
  <2>2. failure' \in Codes /\ error' \in Codes
    BY <2>1 DEF Flush, Poll, First
  <2>3. rc' \in Codes /\ speaker' \in {"fail", "tail"}
    BY <2>1 DEF Flush, PollCode, First, Codes, IInv, TypeOK
  <2>4. QED
    BY <2>2, <2>3 DEF Flush, speakFrame, turnVars, envVars, IInv, TypeOK
<1>2. QueueOK'
  BY SizesAssumption
  DEF turnVars, At, First, PipeCode, speakFrame, Flush, TypeOK, QueueOK, IInv
<1>3. SoundOK'
  BY SizesAssumption
  DEF At, Block, First, PipeCode, Outside, PollCode, Poll, speakFrame, Flush, TypeOK, QueueOK,
      Made, SoundOK, OwnersOK, IInv
<1>4. OwnersOK'
  BY DEF turnVars, First, PipeCode, Outside, PollCode, Poll, speakFrame, Flush, TypeOK, QueueOK,
      SoundOK, OwnersOK, IInv
<1>5. QED BY <1>1, <1>2, <1>3, <1>4 DEF IInv

\* SendRest keeps the invariant.
LEMMA SendRestStep ==
  ASSUME IInv, SendRest
  PROVE  IInv'
<1>1. TypeOK' BY SendRestTypes
<1>2. QueueOK'
  BY SizesAssumption
  DEF turnVars, At, speakFrame, SendRest, TypeOK, QueueOK, IInv
<1>3. SoundOK' BY SendRestSound
<1>4. OwnersOK'
  BY DEF turnVars, speakFrame, SendRest, TypeOK, QueueOK, SoundOK, OwnersOK, IInv
<1>5. QED BY <1>1, <1>2, <1>3, <1>4 DEF IInv

\* SpeakFails keeps the invariant.
LEMMA SpeakFailsStep ==
  ASSUME IInv, SpeakFails
  PROVE  IInv'
<1>1. TypeOK'
  BY SizesAssumption
  DEF turnVars, envVars, Codes, Lives, Slots, First, speakFrame, SpeakFails, TypeOK, IInv
<1>2. QueueOK'
  BY SizesAssumption
  DEF turnVars, At, First, speakFrame, SpeakFails, TypeOK, QueueOK, IInv
<1>3. SoundOK'
  BY SizesAssumption
  DEF At, Block, First, speakFrame, SpeakFails, TypeOK, QueueOK, Made, SoundOK, OwnersOK, IInv
<1>4. OwnersOK'
  BY DEF turnVars, First, speakFrame, SpeakFails, TypeOK, QueueOK, SoundOK, OwnersOK, IInv
<1>5. QED BY <1>1, <1>2, <1>3, <1>4 DEF IInv

\* Stop keeps the invariant.
LEMMA StopStep ==
  ASSUME IInv, Stop
  PROVE  IInv'
<1>1. TypeOK'
  BY SizesAssumption
  DEF turnVars, envVars, Codes, Lives, Slots, speakFrame, Stop, TypeOK, IInv
<1>2. QueueOK'
  BY SizesAssumption
  DEF turnVars, At, speakFrame, Stop, TypeOK, QueueOK, IInv
<1>3. SoundOK'
  BY SizesAssumption
  DEF At, Block, speakFrame, Stop, TypeOK, QueueOK, Made, SoundOK, OwnersOK, IInv
<1>4. OwnersOK'
  BY DEF turnVars, speakFrame, Stop, TypeOK, QueueOK, SoundOK, OwnersOK, IInv
<1>5. QED BY <1>1, <1>2, <1>3, <1>4 DEF IInv

\* Leave keeps the invariant.
LEMMA LeaveStep ==
  ASSUME IInv, Leave
  PROVE  IInv'
<1>1. TypeOK'
  BY SizesAssumption
  DEF turnVars, envVars, Codes, Lives, Slots, First, speakFrame, Leave, TypeOK, IInv
<1>2. QueueOK'
  BY SizesAssumption
  DEF turnVars, At, First, speakFrame, Leave, TypeOK, QueueOK, IInv
<1>3. SoundOK'
  BY SizesAssumption
  DEF At, Block, First, speakFrame, Leave, TypeOK, QueueOK, Made, SoundOK, OwnersOK, IInv
<1>4. OwnersOK'
  BY DEF turnVars, First, speakFrame, Leave, TypeOK, QueueOK, SoundOK, OwnersOK, IInv
<1>5. QED BY <1>1, <1>2, <1>3, <1>4 DEF IInv

\* Return keeps the invariant.
LEMMA ReturnStep ==
  ASSUME IInv, Return
  PROVE  IInv'
<1>1. TypeOK'
  BY SizesAssumption
  DEF turnVars, envVars, Codes, Lives, Slots, First, speakFrame, Return, TypeOK, IInv
<1>2. QueueOK'
  BY SizesAssumption
  DEF turnVars, At, First, speakFrame, Return, TypeOK, QueueOK, IInv
<1>3. SoundOK'
  BY SizesAssumption
  DEF At, Block, First, speakFrame, Return, TypeOK, QueueOK, Made, SoundOK, OwnersOK, IInv
<1>4. OwnersOK'
  BY DEF turnVars, First, speakFrame, Return, TypeOK, QueueOK, SoundOK, OwnersOK, IInv
<1>5. QED BY <1>1, <1>2, <1>3, <1>4 DEF IInv

-----------------------------------------------------------------------------
(* The I2S worker.                                                          *)

\* Gate keeps the invariant.
LEMMA GateStep ==
  ASSUME IInv, Gate
  PROVE  IInv'
<1>1. TypeOK'
  BY SizesAssumption
  DEF pipeVars, playVars, lifeVars, turnVars, speakVars, envVars, Codes, Lives, Slots, First,
      PipeCode, Outside, PollCode, Poll, workFrame, Gate, TypeOK, IInv
<1>2. QueueOK'
  BY SizesAssumption
  DEF pipeVars, lifeVars, turnVars, At, First, PipeCode, workFrame, Gate, TypeOK, QueueOK, IInv
<1>3. SoundOK'
  BY SizesAssumption
  DEF pipeVars, playVars, speakVars, At, Block, First, PipeCode, Outside, PollCode, Poll,
      workFrame, Gate, TypeOK, QueueOK, Made, SoundOK, OwnersOK, IInv
<1>4. OwnersOK'
  BY DEF playVars, lifeVars, turnVars, speakVars, First, PipeCode, Outside, PollCode, Poll,
      workFrame, Gate, TypeOK, QueueOK, SoundOK, OwnersOK, IInv
<1>5. QED BY <1>1, <1>2, <1>3, <1>4 DEF IInv

\* Look keeps the invariant.
LEMMA LookStep ==
  ASSUME IInv, Look
  PROVE  IInv'
<1>1. TypeOK'
  BY SizesAssumption
  DEF pipeVars, lifeVars, turnVars, speakVars, envVars, Codes, Lives, Slots, First, workFrame,
      Ready, Look, TypeOK, IInv
<1>2. QueueOK'
  BY SizesAssumption
  DEF pipeVars, lifeVars, turnVars, At, First, workFrame, Look, TypeOK, QueueOK, IInv
<1>3. SoundOK'
  BY SizesAssumption
  DEF pipeVars, speakVars, At, Block, First, workFrame, Ready, Look, TypeOK, QueueOK, Made,
      SoundOK, OwnersOK, IInv
<1>4. OwnersOK'
  BY DEF lifeVars, turnVars, speakVars, First, workFrame, Ready, Look, TypeOK, QueueOK, SoundOK,
      OwnersOK, IInv
<1>5. QED BY <1>1, <1>2, <1>3, <1>4 DEF IInv

\* Read keeps the invariant.
LEMMA ReadStep ==
  ASSUME IInv, Read
  PROVE  IInv'
<1>1. TypeOK'
  BY SizesAssumption
  DEF pipeVars, playVars, lifeVars, turnVars, speakVars, envVars, Codes, Lives, Slots, First,
      PipeCode, Outside, PollCode, Poll, workFrame, Read, TypeOK, IInv
<1>2. QueueOK'
  BY SizesAssumption
  DEF pipeVars, lifeVars, turnVars, At, First, PipeCode, workFrame, Read, TypeOK, QueueOK, IInv
<1>3. SoundOK'
  BY SizesAssumption
  DEF pipeVars, playVars, speakVars, At, Block, First, PipeCode, Outside, PollCode, Poll,
      workFrame, Read, TypeOK, QueueOK, Made, SoundOK, OwnersOK, IInv
<1>4. OwnersOK'
  BY DEF playVars, lifeVars, turnVars, speakVars, First, PipeCode, Outside, PollCode, Poll,
      workFrame, Read, TypeOK, QueueOK, SoundOK, OwnersOK, IInv
<1>5. QED BY <1>1, <1>2, <1>3, <1>4 DEF IInv

\* Give keeps the invariant.
LEMMA GiveStep ==
  ASSUME IInv, Give
  PROVE  IInv'
<1>1. TypeOK' BY GiveTypes
<1>2. QueueOK'
  BY SizesAssumption
  DEF pipeVars, lifeVars, turnVars, At, First, workFrame, Give, TypeOK, QueueOK, IInv
<1>3. SoundOK' BY GiveSound
<1>4. OwnersOK' BY GiveOwners
<1>5. QED BY <1>1, <1>2, <1>3, <1>4 DEF IInv

\* End keeps the invariant.
LEMMA EndStep ==
  ASSUME IInv, End
  PROVE  IInv'
<1>1. TypeOK'
  BY SizesAssumption
  DEF pipeVars, lifeVars, turnVars, speakVars, envVars, Codes, Lives, Slots, First, workFrame,
      End, TypeOK, IInv
<1>2. QueueOK'
  BY SizesAssumption
  DEF pipeVars, lifeVars, turnVars, At, First, workFrame, End, TypeOK, QueueOK, IInv
<1>3. SoundOK'
  BY SizesAssumption
  DEF pipeVars, speakVars, At, Block, First, workFrame, End, TypeOK, QueueOK, Made, SoundOK,
      OwnersOK, IInv
<1>4. OwnersOK'
  BY DEF lifeVars, turnVars, speakVars, First, workFrame, End, TypeOK, QueueOK, SoundOK, OwnersOK,
      IInv
<1>5. QED BY <1>1, <1>2, <1>3, <1>4 DEF IInv

-----------------------------------------------------------------------------
(* Time and the user.                                                       *)

\* DeadlinePasses keeps the invariant.
LEMMA DeadlinePassesStep ==
  ASSUME IInv, DeadlinePasses
  PROVE  IInv'
<1>1. TypeOK'
  BY SizesAssumption
  DEF pipeVars, playVars, lifeVars, turnVars, speakVars, workVars, Codes, Lives, Slots,
      Elsewhere, DeadlinePasses, TypeOK, IInv
<1>2. QueueOK'
  BY SizesAssumption
  DEF pipeVars, lifeVars, turnVars, At, Elsewhere, DeadlinePasses, TypeOK, QueueOK, IInv
<1>3. SoundOK'
  BY SizesAssumption
  DEF pipeVars, playVars, speakVars, workVars, At, Block, Elsewhere, DeadlinePasses, TypeOK,
      QueueOK, Made, SoundOK, OwnersOK, IInv
<1>4. OwnersOK'
  BY DEF playVars, lifeVars, turnVars, speakVars, workVars, At, Elsewhere, DeadlinePasses, TypeOK,
      QueueOK, SoundOK, OwnersOK, IInv
<1>5. QED BY <1>1, <1>2, <1>3, <1>4 DEF IInv

\* Cancel keeps the invariant.
LEMMA CancelStep ==
  ASSUME IInv, Cancel
  PROVE  IInv'
<1>1. TypeOK'
  BY SizesAssumption
  DEF pipeVars, playVars, lifeVars, turnVars, speakVars, workVars, Codes, Lives, Slots,
      Elsewhere, Cancel, TypeOK, IInv
<1>2. QueueOK'
  BY SizesAssumption
  DEF pipeVars, lifeVars, turnVars, At, Elsewhere, Cancel, TypeOK, QueueOK, IInv
<1>3. SoundOK'
  BY SizesAssumption
  DEF pipeVars, playVars, speakVars, workVars, At, Block, Elsewhere, Cancel, TypeOK, QueueOK,
      Made, SoundOK, OwnersOK, IInv
<1>4. OwnersOK'
  BY DEF playVars, lifeVars, turnVars, speakVars, workVars, At, Elsewhere, Cancel, TypeOK, QueueOK,
      SoundOK, OwnersOK, IInv
<1>5. QED BY <1>1, <1>2, <1>3, <1>4 DEF IInv

-----------------------------------------------------------------------------
\* The invariant holds at the start.
LEMMA InitOK == Init => IInv
<1> SUFFICES ASSUME Init PROVE IInv OBVIOUS
<1>1. TypeOK
  <2>1. slots \in [Slots -> Nat] /\ head \in Slots /\ count \in 0..QueueCap
    BY SizesAssumption DEF Init, Slots
  <2>2. QED BY <2>1 DEF Init, TypeOK, Codes, Lives
<1>2. QueueOK
  <2>1. done = (turn \in {"join", "again", "redone", "rejoin", "over"})
    <3>1. done = FALSE BY DEF Init
    <3>2. (turn \in {"join", "again", "redone", "rejoin", "over"}) = FALSE BY DEF Init
    <3>3. QED BY <3>1, <3>2
  <2>2. \A i \in 0..QueueCap - 1 : ~(i < count) BY SizesAssumption DEF Init
  <2>3. QED BY <2>1, <2>2, SizesAssumption DEF Init, QueueOK
<1>3. SoundOK BY SizesAssumption DEF Init, SoundOK, Made, Block
<1>4. OwnersOK BY DEF Init, OwnersOK
<1>5. QED BY <1>1, <1>2, <1>3, <1>4 DEF IInv

\* Every step keeps the invariant.
LEMMA StepOK == IInv /\ [Next]_vars => IInv'
<1> SUFFICES ASSUME IInv, [Next]_vars PROVE IInv' OBVIOUS
<1>1. CASE TurnNext
  BY <1>1, WriteStep, WriteEndsStep, RoomStep, PutStep, AcceptedStep, UpstreamStep, DoneStep, JoinStep,
     JoinFailsStep
  DEF TurnNext
<1>2. CASE SpeakNext
  BY <1>2, EnterStep, FeedStep, TakeStep, EmitStep, PushStep, FlushStep, SendRestStep, SpeakFailsStep,
     StopStep, LeaveStep, ReturnStep
  DEF SpeakNext
<1>3. CASE WorkNext
  BY <1>3, GateStep, LookStep, ReadStep, GiveStep, EndStep DEF WorkNext
<1>4. CASE DeadlinePasses \/ Cancel
  BY <1>4, DeadlinePassesStep, CancelStep
<1>5. CASE UNCHANGED vars
  BY <1>5
  DEF vars, pipeVars, playVars, lifeVars, turnVars, speakVars, workVars, envVars, IInv, TypeOK, QueueOK,
      At, SoundOK, Made, Block, OwnersOK
<1>6. QED BY <1>1, <1>2, <1>3, <1>4, <1>5 DEF Next, Over

\* The whole invariant holds for every length of the reply and every size.
THEOREM Invariant == Spec => []IInv
BY InitOK, StepOK, PTL DEF Spec

\* Nothing is freed under a thread that can still poll it, whichever joins failed.
THEOREM NothingFreedEarly == Spec => []Lifetime
<1>1. IInv => Lifetime
  BY DEF IInv, TypeOK, OwnersOK, Lifetime
<1>2. QED BY <1>1, Invariant, PTL

\* No device transaction is opened on an empty ring.
THEOREM NoEmptyTransaction == Spec => []NeverEmpty
<1>1. IInv => NeverEmpty
  BY DEF IInv, SoundOK, NeverEmpty
<1>2. QED BY <1>1, Invariant, PTL

\* A turn that reports success was heard to its last block and hid no error.
LEMMA HeardAll == IInv => SuccessHeardAll
<1> SUFFICES ASSUME IInv, turn = "over", result = "ok"
             PROVE  heard = queued * Blocks /\ queued > 0 /\ error = "ok" /\ failure = "ok"
  BY DEF SuccessHeardAll
<1>1. speaker = "gone" /\ rc = "ok" /\ error = "ok" /\ worker = "gone" /\ failure = "ok"
  BY DEF IInv, OwnersOK
<1>2. count = 0 /\ held = 0 /\ ring = <<>> /\ Made = produced * Blocks /\ Made > 0
  BY <1>1 DEF IInv, SoundOK
<1>3. queued = produced /\ heard = Made
  BY <1>2 DEF IInv, TypeOK, QueueOK, Made
<1>4. produced # 0
  BY <1>2, SizesAssumption
<1>5. QED BY <1>1, <1>2, <1>3, <1>4 DEF IInv, TypeOK

\* A turn that returns success has heard every block of every phrase.
THEOREM SuccessIsHeard == Spec => []SuccessHeardAll
BY HeardAll, Invariant, PTL

\* At the start there is neither text nor sound.
LEMMA TextInit == Init => Text!Init
BY SizesAssumption DEF Init, Text!Init, Outcome

\* What a step of the threads is to the listener.
LEMMA TextStep == IInv /\ SuccessHeardAll' /\ [Next]_vars => [Text!Next]_Text!vars
<1> SUFFICES ASSUME IInv, SuccessHeardAll', [Next]_vars PROVE [Text!Next]_Text!vars OBVIOUS
<1> USE DEF Text!Next, Text!vars
<1>1. CASE Put
  <2>1. UNCHANGED <<heard, result, pipe>> /\ turn # "over" /\ turn' # "over"
    BY <1>1 DEF Put, turnFrame
  <2>2. CASE UNCHANGED queued
    BY <2>1, <2>2 DEF Outcome
  <2>3. CASE queued' = queued + 1
    <3>1. queued' * Blocks > queued * Blocks
      <4>1. queued * Blocks \in Nat /\ (queued + 1) * Blocks = queued * Blocks + Blocks
        BY Times DEF IInv, TypeOK
      <4>2. QED BY <2>3, <4>1, SizesAssumption
    <3>2. QED BY <2>1, <3>1 DEF Outcome, Text!Write
  <2>4. QED BY <1>1, <2>2, <2>3 DEF Put
<1>2. CASE Give
  <2>1. UNCHANGED <<queued, turn, result, pipe>> /\ worker = "take"
    BY <1>2 DEF Give, workFrame, pipeVars, lifeVars, turnVars
  <2>2. CASE UNCHANGED heard
    BY <2>1, <2>2 DEF Outcome
  <2>3. CASE ring # <<>> /\ heard' = Head(ring)
    <3>1. heard \in Nat /\ ring \in Seq(Nat) /\ Len(ring) > 0 BY <2>3 DEF IInv, TypeOK
    <3>2. heard' = heard + 1 BY <2>3, <3>1 DEF IInv, SoundOK
    <3>3. heard < produced * Blocks /\ produced * Blocks <= queued * Blocks
      <4>1. heard < Made BY <3>1 DEF Made
      <4>2. Made <= produced * Blocks BY DEF IInv, SoundOK
      <4>3. produced * Blocks <= queued * Blocks
        <5>1. queued = produced + count /\ produced \in Nat /\ count \in Nat
          BY SizesAssumption DEF IInv, TypeOK, QueueOK
        <5>2. QED BY <5>1, TimesGrows
      <4>4. Made \in Nat
        BY <3>1 DEF Made
      <4>5. produced * Blocks \in Nat /\ queued * Blocks \in Nat
        BY Times DEF IInv, TypeOK
      <4>6. QED BY <3>1, <4>1, <4>2, <4>3, <4>4, <4>5
    <3>4. produced * Blocks \in Nat /\ queued * Blocks \in Nat
      BY Times DEF IInv, TypeOK
    <3>5. Outcome \in {"open", "retained"} /\ Outcome' = Outcome
      <4>1. turn = "over" => pipe = "kept" /\ result # "ok"
        BY <2>1 DEF IInv, TypeOK, QueueOK, OwnersOK, Lives
      <4>2. QED BY <2>1, <4>1 DEF Outcome
    <3>6. QED BY <2>1, <3>1, <3>2, <3>3, <3>4, <3>5 DEF Text!Hear
  <2>4. QED BY <1>2, <2>2, <2>3 DEF Give
<1>3. CASE Join \/ JoinFails
  <2>1. UNCHANGED <<queued, heard>> /\ Outcome = "open"
    BY <1>3 DEF Join, JoinFails, turnFrame, Outcome
  <2>2. Outcome' \in {"open", "ok", "failed", "retained"} BY DEF Outcome
  <2>3. CASE Outcome' = "ok"
    <3>1. heard' = queued' * Blocks
      BY <2>3 DEF Outcome, SuccessHeardAll
    <3>2. QED BY <2>1, <2>3, <3>1 DEF Text!Succeed
  <2>4. QED BY <2>1, <2>2, <2>3 DEF Text!Fail
<1>4. CASE \/ Write \/ WriteEnds \/ Room \/ Accepted \/ Upstream \/ Done
  <2>1. UNCHANGED <<queued, heard, pipe>> /\ turn # "over" /\ turn' # "over"
    BY <1>4 DEF Write, WriteEnds, Room, Accepted, Upstream, Done, turnFrame
  <2>2. QED BY <2>1 DEF Outcome
<1>5. CASE SpeakNext \/ Gate \/ Look \/ Read \/ End \/ DeadlinePasses \/ Cancel \/ UNCHANGED vars
  <2>1. UNCHANGED <<queued, heard, pipe, turn, result>>
    BY <1>5
    DEF SpeakNext, Enter, Feed, Take, Emit, Push, Flush, SendRest, SpeakFails, Stop, Leave, Return, Gate,
        Look, Read, End, DeadlinePasses, Cancel, vars, speakFrame, workFrame, Elsewhere, pipeVars,
        lifeVars, turnVars
  <2>2. QED BY <2>1 DEF Outcome
<1>6. QED BY <1>1, <1>2, <1>3, <1>4, <1>5 DEF Next, TurnNext, WorkNext, Over

\* The three threads and their queues implement the promise to the listener: every
\* sound in its turn, none skipped, repeated or invented, whatever fails.
THEOREM ImplementsText == Spec => TurnIsText
BY Invariant, SuccessIsHeard, TextInit, TextStep, PTL DEF Spec, TurnIsText, Text!Spec
-----------------------------------------------------------------------------
(* No circular wait.                                                        *)

\* Whoever waits for room in the ring is not alone: a ring that is full opens the
\* gate, and a worker that is gone has left an error.
LEMMA RingMoves ==
  ASSUME IInv, speaker \in {"emit", "push", "flush", "tail"}
  PROVE  SpeakCan \/ WorkCan
<1> SUFFICES ASSUME ~SpeakCan PROVE WorkCan
  OBVIOUS
<1>1. Len(ring) = RingCap /\ PollCode = "ok"
  BY SizesAssumption DEF SpeakCan, IInv, TypeOK, SoundOK
<1>2. ring # <<>> /\ Ready
  BY <1>1, SizesAssumption DEF Ready, IInv, TypeOK
<1>3. failure = "ok"
  BY <1>1 DEF PollCode, First
<1>4. worker \notin {"none", "gone"}
  BY <1>2, <1>3 DEF IInv, OwnersOK, SoundOK
<1>5. QED BY <1>2, <1>4 DEF WorkCan

\* Whoever waits for the I2S worker's end has told it that no more comes.
LEMMA EndMoves ==
  ASSUME IInv, worker \notin {"none", "gone"}, speaker \in {"wait", "gone"}
  PROVE  WorkCan
BY DEF WorkCan, IInv, OwnersOK

\* A thread that waits for a phrase waits for the turn, which then has room or
\* something to say.
LEMMA PhraseMoves ==
  ASSUME IInv, speaker \in {"feed", "next"}
  PROVE  SpeakCan \/ TurnCan
<1> SUFFICES ASSUME ~SpeakCan PROVE TurnCan
  OBVIOUS
<1>1. ~(count > 0) /\ ~done
  BY DEF SpeakCan
<1>2. count < QueueCap
  BY <1>1, SizesAssumption DEF IInv, TypeOK
<1>3. QED BY <1>1, <1>2 DEF TurnCan, IInv, QueueOK

\* A turn whose reader is gone finds the error it left, unless it was done itself.
LEMMA ReaderGone ==
  ASSUME IInv, speaker = "gone", turn # "over"
  PROVE  TurnCan
<1>1. CASE error = "ok"
  <2>1. done BY <1>1 DEF IInv, OwnersOK, SoundOK
  <2>2. QED BY <2>1 DEF TurnCan, IInv, QueueOK
<1>2. CASE error # "ok"
  BY <1>2 DEF TurnCan, PipeCode
<1>3. QED BY <1>1, <1>2

\* The turn, the pipe's thread and the I2S worker never all wait for each other:
\* phrase_queue and phrase_next, push() and the worker's gate, and the two joins,
\* for every size of queue, ring, gates and transactions and every failure.
THEOREM NeverAllWait == Spec => []NoCircularWait
<1>1. IInv => NoCircularWait
  <2> SUFFICES ASSUME IInv, turn # "over" \/ speaker # "gone" \/ worker \notin {"none", "gone"}
               PROVE  TurnCan \/ SpeakCan \/ WorkCan
    BY DEF NoCircularWait
  <2>1. CASE speaker \in {"emit", "push", "flush", "tail"}
    BY <2>1, RingMoves
  <2>2. CASE speaker \in {"feed", "next"}
    BY <2>2, PhraseMoves
  <2>3. CASE speaker = "wait"
    <3>1. worker # "none" BY <2>3 DEF IInv, OwnersOK
    <3>2. CASE worker = "gone" BY <2>3, <3>2 DEF SpeakCan
    <3>3. QED BY <2>3, <3>1, <3>2, EndMoves
  <2>4. CASE speaker = "gone"
    BY <2>4, ReaderGone, EndMoves
  <2>5. CASE speaker \in {"enter", "fail", "stop", "return"}
    BY <2>5 DEF SpeakCan
  <2>6. speaker \in {"enter", "feed", "next", "emit", "push", "flush", "tail", "fail", "stop",
                     "wait", "return", "gone"}
    BY DEF IInv, TypeOK
  <2>7. QED BY <2>1, <2>2, <2>3, <2>4, <2>5, <2>6
<1>2. QED BY Invariant, <1>1, PTL

-----------------------------------------------------------------------------
(* Every step counts.                                                       *)

\* The places of the turn, as numbers.
LEMMA TurnPlaces ==
  /\ TurnPlace["accepted"] = 9 /\ TurnPlace["write"] = 8 /\ TurnPlace["room"] = 7
  /\ TurnPlace["put"] = 7 /\ TurnPlace["lastroom"] = 7 /\ TurnPlace["lastput"] = 7
  /\ TurnPlace["finish"] = 6 /\ TurnPlace["done"] = 5 /\ TurnPlace["join"] = 4
  /\ TurnPlace["again"] = 3 /\ TurnPlace["redone"] = 2 /\ TurnPlace["rejoin"] = 1
  /\ TurnPlace["over"] = 0
BY DEF TurnPlace

\* The places of the pipe's thread, as numbers.
LEMMA SpeakPlaces ==
  /\ SpeakPlace["enter"] = 8 /\ SpeakPlace["emit"] = 7 /\ SpeakPlace["push"] = 7
  /\ SpeakPlace["feed"] = 6 /\ SpeakPlace["next"] = 6 /\ SpeakPlace["flush"] = 5
  /\ SpeakPlace["tail"] = 5 /\ SpeakPlace["fail"] = 4 /\ SpeakPlace["stop"] = 3
  /\ SpeakPlace["wait"] = 2 /\ SpeakPlace["return"] = 1 /\ SpeakPlace["gone"] = 0
BY DEF SpeakPlace

\* The places of the I2S worker, as numbers.
LEMMA WorkPlaces ==
  /\ WorkPlace["none"] = 9 /\ WorkPlace["gate"] = 5 /\ WorkPlace["look"] = 5
  /\ WorkPlace["read"] = 4 /\ WorkPlace["take"] = 3 /\ WorkPlace["end"] = 2
  /\ WorkPlace["gone"] = 0
BY DEF WorkPlace

\* No more sound is made than the longest reply has, and none is heard before.
LEMMA SoundBound ==
  ASSUME IInv
  PROVE  /\ MaxPhrases * Blocks \in Nat /\ Made \in Nat /\ heard \in Nat
         /\ heard <= Made /\ Made <= MaxPhrases * Blocks /\ produced <= MaxPhrases
<1>1. produced \in Nat /\ count \in Nat /\ queued = produced + count /\ queued <= MaxPhrases
  BY SizesAssumption DEF IInv, TypeOK, QueueOK
<1>2. MaxPhrases \in Nat /\ MaxPhrases - produced \in Nat
  BY <1>1, SizesAssumption
<1>3. produced * Blocks <= (produced + (MaxPhrases - produced)) * Blocks
  BY <1>1, <1>2, TimesGrows
<1>4. produced + (MaxPhrases - produced) = MaxPhrases
  BY <1>1, <1>2
<1>5. produced * Blocks \in Nat /\ MaxPhrases * Blocks \in Nat
  BY <1>1, <1>2, Times
<1>6. Made \in Nat /\ heard \in Nat /\ heard <= Made
  BY DEF Made, IInv, TypeOK
<1>7. Made <= produced * Blocks
  BY DEF IInv, SoundOK
<1>8. produced * Blocks <= MaxPhrases * Blocks
  BY <1>3, <1>4
<1>9. QED BY <1>1, <1>2, <1>5, <1>6, <1>7, <1>8

\* What each thread still has to do is a number, and never less than nothing.
LEMMA ToDoNat ==
  IInv => TurnToDo \in Nat /\ SpeakToDo \in Nat /\ WorkToDo \in Nat /\ Awaited \in Nat
<1> SUFFICES ASSUME IInv
             PROVE  TurnToDo \in Nat /\ SpeakToDo \in Nat /\ WorkToDo \in Nat /\ Awaited \in Nat
  OBVIOUS
<1> DEFINE Total == MaxPhrases * Blocks
<1>1. /\ MaxPhrases - queued \in Nat /\ MaxPhrases - produced \in Nat
      /\ Total - Made \in Nat /\ Total - heard \in Nat
  <2>1. queued \in Nat /\ queued <= MaxPhrases /\ produced \in Nat /\ MaxPhrases \in Nat
    BY SizesAssumption DEF IInv, TypeOK, QueueOK
  <2>2. Total \in Nat /\ Made \in Nat /\ heard \in Nat /\ heard <= Made /\ Made <= Total
        /\ produced <= MaxPhrases
    BY SoundBound
  <2> HIDE DEF Total
  <2>3. QED BY <2>1, <2>2
<1> HIDE DEF Total
<1>2. TurnPlace[turn] \in Nat
  BY TurnPlaces DEF IInv, TypeOK
<1>3. SpeakPlace[speaker] \in Nat
  BY SpeakPlaces DEF IInv, TypeOK
<1>4. WorkPlace[worker] \in Nat
  BY WorkPlaces DEF IInv, TypeOK
<1>5. Awaited \in Nat
  BY DEF Awaited, IInv, TypeOK
<1>6. TurnToDo \in Nat
  BY <1>1, <1>2 DEF TurnToDo
<1>7. SpeakToDo = 2 * (MaxPhrases - produced) + 2 * (Total - Made) + SpeakPlace[speaker]
  BY DEF SpeakToDo, Total
<1>8. WorkToDo = 6 * (Total - heard) + WorkPlace[worker] + (IF Given THEN 4 ELSE 0)
  BY DEF WorkToDo, Total
<1>9. QED BY <1>1, <1>3, <1>4, <1>5, <1>6, <1>7, <1>8

\* A thread's part depends on its own place and count only.
LEMMA ToDoSame ==
  /\ UNCHANGED <<queued, turn>> => TurnToDo' = TurnToDo
  /\ UNCHANGED <<produced, Made, speaker>> => SpeakToDo' = SpeakToDo
  /\ UNCHANGED <<heard, worker, segment_frames>> => WorkToDo' = WorkToDo
  /\ UNCHANGED <<late, cancelled>> => Awaited' = Awaited
BY DEF TurnToDo, SpeakToDo, WorkToDo, Awaited, Given

\* The turn gets on, or looks.
LEMMA TurnCounts == IInv /\ TurnNext => LookAgain \/ TurnToDo' < TurnToDo
<1> SUFFICES ASSUME IInv, TurnNext PROVE LookAgain \/ TurnToDo' < TurnToDo
  OBVIOUS
<1> DEFINE Left == MaxPhrases - queued
<1>t. Left \in Nat
  BY SizesAssumption DEF IInv, TypeOK, QueueOK
<1>s. /\ TurnToDo = 3 * Left + TurnPlace[turn]
      /\ queued' = queued => TurnToDo' = 3 * Left + TurnPlace[turn']
      /\ queued' = queued + 1 => TurnToDo' = 3 * (Left - 1) + TurnPlace[turn']
  BY SizesAssumption DEF TurnToDo, IInv, TypeOK
<1> HIDE DEF Left
<1>1. CASE Room
  <2>1. CASE turn' \in {"finish", "done"}
    <3>1. turn \in {"room", "lastroom"} /\ queued' = queued BY <1>1 DEF Room
    <3>2. QED BY <1>t, <1>s, <2>1, <3>1, TurnPlaces
  <2>2. CASE turn' \notin {"finish", "done"}
    BY <1>1, <2>2 DEF Room, LookAgain, turnFrame, pipeVars, lifeVars, speakVars, workVars
  <2>3. QED BY <2>1, <2>2
<1>2. CASE Put
  <2>1. CASE count < QueueCap
    <3>1. /\ queued' = queued + 1
          /\ \/ turn = "put" /\ turn' = "accepted"
             \/ turn = "lastput" /\ turn' = "done"
      BY <1>2, <2>1 DEF Put
    <3>2. QED BY <1>t, <1>s, <3>1, TurnPlaces
  <2>2. CASE ~(count < QueueCap)
    BY <1>2, <2>2 DEF Put, LookAgain, turnFrame, pipeVars, lifeVars, speakVars, workVars
  <2>3. QED BY <2>1, <2>2
<1>3. CASE Write \/ WriteEnds \/ Accepted \/ Upstream \/ Done \/ Join \/ JoinFails
  <2>1. /\ queued' = queued
        /\ \/ turn = "write" /\ turn' \in {"room", "lastroom", "done", "finish"}
           \/ turn = "accepted" /\ turn' \in {"write", "finish"}
           \/ turn = "finish" /\ turn' = "done"
           \/ turn = "again" /\ turn' = "redone"
           \/ turn = "done" /\ turn' = "join"
           \/ turn = "redone" /\ turn' = "rejoin"
           \/ turn = "join" /\ turn' \in {"again", "over"}
           \/ turn = "rejoin" /\ turn' = "over"
    BY <1>3 DEF Write, WriteEnds, Accepted, Upstream, Done, Join, JoinFails
  <2>2. QED BY <1>t, <1>s, <2>1, TurnPlaces
<1>4. QED BY <1>1, <1>2, <1>3 DEF TurnNext

\* A block made is a block less to make, wherever the block before it is.
LEMMA PushMade ==
  ASSUME IInv, Push, held = 0 \/ Len(ring) # RingCap
  PROVE  Made' = Made + 1
<1>1. ring \in Seq(Nat) /\ held \in Nat /\ heard \in Nat /\ heard' = heard
  BY DEF Push, speakFrame, IInv, TypeOK
<1>2. held' # 0
  <2>1. phrase - 1 \in Nat /\ part \in Nat \ {0}
    BY SizesAssumption DEF Push, IInv, TypeOK, SoundOK
  <2>2. (phrase - 1) * Blocks \in Nat BY <2>1, Times
  <2>3. held' = (phrase - 1) * Blocks + part BY DEF Push, Block
  <2>4. QED BY <2>1, <2>2, <2>3
<1>3. ring' = IF held # 0 THEN Append(ring, held) ELSE ring
  BY DEF Push
<1>4. Len(ring') = Len(ring) + IF held # 0 THEN 1 ELSE 0
  BY <1>1, <1>3
<1>5. QED BY <1>1, <1>2, <1>4 DEF Made

\* The sound made stays when its last block leaves the converter.
LEMMA SendRestMade ==
  ASSUME IInv, SendRest
  PROVE  Made' = Made
<1>1. ring \in Seq(Nat) /\ held \in Nat /\ heard \in Nat /\ heard' = heard /\ held # 0
  BY DEF SendRest, speakFrame, IInv, TypeOK, SoundOK
<1>2. CASE UNCHANGED <<ring, held>> BY <1>1, <1>2 DEF Made
<1>3. CASE ring' = Append(ring, held) /\ held' = 0
  <2>1. Len(ring') = Len(ring) + 1 BY <1>1, <1>3
  <2>2. QED BY <1>1, <1>3, <2>1 DEF Made
<1>4. QED BY <1>2, <1>3 DEF SendRest

\* The pipe's thread gets on, or looks.
LEMMA SpeakCounts == IInv /\ SpeakNext => LookAgain \/ SpeakToDo' < SpeakToDo
<1> SUFFICES ASSUME IInv, SpeakNext PROVE LookAgain \/ SpeakToDo' < SpeakToDo
  OBVIOUS
<1> DEFINE Left == MaxPhrases - produced
           Total == MaxPhrases * Blocks
           Sounds == Total - Made
<1>t. Left \in Nat /\ Sounds \in Nat /\ Total \in Nat /\ Made \in Nat
  <2>1. MaxPhrases \in Nat /\ produced \in Nat
    BY SizesAssumption DEF IInv, TypeOK
  <2>2. Total \in Nat /\ Made \in Nat /\ Made <= Total /\ produced <= MaxPhrases
    BY SoundBound
  <2> HIDE DEF Total
  <2>3. QED BY <2>1, <2>2
<1>a. SpeakToDo = 2 * Left + 2 * Sounds + SpeakPlace[speaker]
  BY DEF SpeakToDo
<1>b. SpeakToDo' = 2 * (MaxPhrases - produced') + 2 * (Total - Made') + SpeakPlace[speaker']
  BY DEF SpeakToDo
<1>c. produced' = produced + 1 => MaxPhrases - produced' = Left - 1
  BY SizesAssumption DEF IInv, TypeOK
<1> HIDE DEF Total
<1>d. Made' = Made + 1 => Total - Made' = Sounds - 1
  BY <1>t
<1>e. produced' = produced => MaxPhrases - produced' = Left
  OBVIOUS
<1>f. Made' = Made => Total - Made' = Sounds
  OBVIOUS
<1> HIDE DEF Left, Sounds
<1>s. /\ produced' = produced /\ Made' = Made =>
           SpeakToDo' = 2 * Left + 2 * Sounds + SpeakPlace[speaker']
      /\ produced' = produced + 1 /\ Made' = Made =>
           SpeakToDo' = 2 * (Left - 1) + 2 * Sounds + SpeakPlace[speaker']
      /\ produced' = produced /\ Made' = Made + 1 =>
           SpeakToDo' = 2 * Left + 2 * (Sounds - 1) + SpeakPlace[speaker']
  BY <1>b, <1>c, <1>d, <1>e, <1>f
<1>1. CASE Feed
  <2>1. CASE speaker' = "fail"
    <3>1. speaker = "feed" /\ produced' = produced /\ Made' = Made
      BY <1>1 DEF Feed, speakFrame, Made
    <3>2. QED BY <1>t, <1>a, <1>s, <2>1, <3>1, SpeakPlaces
  <2>2. CASE speaker' = "next" /\ rc' = rc
    BY <1>1, <2>2 DEF Feed, LookAgain, speakFrame, pipeVars, playVars, lifeVars, turnVars
  <2>3. QED BY <1>1, <2>1, <2>2 DEF Feed
<1>2. CASE Take
  <2>1. CASE count > 0
    <3>1. /\ speaker = "next" /\ speaker' = "emit" /\ produced' = produced + 1 /\ Made' = Made
      BY <1>2, <2>1 DEF Take, speakFrame, Made
    <3>2. QED BY <1>t, <1>a, <1>s, <3>1, SpeakPlaces
  <2>2. CASE ~(count > 0) /\ done
    <3>1. /\ speaker = "next" /\ speaker' = "flush" /\ produced' = produced /\ Made' = Made
      BY <1>2, <2>2 DEF Take, speakFrame, Made
    <3>2. QED BY <1>t, <1>a, <1>s, <3>1, SpeakPlaces
  <2>3. CASE ~(count > 0) /\ ~done
    BY <1>2, <2>3
    DEF Take, LookAgain, speakFrame, pipeVars, playVars, lifeVars, turnVars, IInv, TypeOK
  <2>4. QED BY <2>1, <2>2, <2>3
<1>3. CASE Emit
  <2>1. CASE speaker' = "fail"
    <3>1. speaker = "emit" /\ produced' = produced /\ Made' = Made
      BY <1>3 DEF Emit, speakFrame, Made
    <3>2. QED BY <1>t, <1>a, <1>s, <2>1, <3>1, SpeakPlaces
  <2>2. CASE speaker' = "push" /\ rc' = rc
    BY <1>3, <2>2 DEF Emit, LookAgain, speakFrame, pipeVars, playVars, lifeVars, turnVars
  <2>3. QED BY <1>3, <2>1, <2>2 DEF Emit
<1>4. CASE Push
  <2>1. CASE held = 0 \/ Len(ring) # RingCap
    <3>1. speaker = "push" /\ speaker' \in {"feed", "emit"} /\ produced' = produced
      BY <1>4, <2>1 DEF Push
    <3>2. Made' = Made + 1 BY <1>4, <2>1, PushMade
    <3>3. QED BY <1>t, <1>a, <1>s, <3>1, <3>2, SpeakPlaces
  <2>2. CASE held # 0 /\ Len(ring) = RingCap
    BY <1>4, <2>2 DEF Push, LookAgain, speakFrame, pipeVars, playVars, lifeVars, turnVars
  <2>3. QED BY <2>1, <2>2
<1>5. CASE Flush
  <2>1. CASE speaker' = "fail"
    <3>1. speaker = "flush" /\ produced' = produced /\ Made' = Made
      BY <1>5 DEF Flush, speakFrame, Made
    <3>2. QED BY <1>t, <1>a, <1>s, <2>1, <3>1, SpeakPlaces
  <2>2. CASE speaker' = "tail" /\ rc' = rc
    BY <1>5, <2>2 DEF Flush, LookAgain, speakFrame, pipeVars, playVars, lifeVars, turnVars
  <2>3. QED BY <1>5, <2>1, <2>2 DEF Flush
<1>6. CASE SendRest
  <2>1. CASE speaker' = "stop"
    <3>1. speaker = "tail" /\ produced' = produced /\ Made' = Made
      BY <1>6, SendRestMade DEF SendRest
    <3>2. QED BY <1>t, <1>a, <1>s, <2>1, <3>1, SpeakPlaces
  <2>2. CASE speaker' # "stop"
    BY <1>6, <2>2 DEF SendRest, LookAgain, speakFrame, pipeVars, playVars, lifeVars, turnVars
  <2>3. QED BY <2>1, <2>2
<1>7. CASE Enter \/ SpeakFails \/ Stop \/ Leave \/ Return
  <2>1. /\ produced' = produced
        /\ \/ speaker = "enter" /\ speaker' \in {"feed", "return"}
           \/ speaker = "fail" /\ speaker' = "stop"
           \/ speaker = "stop" /\ speaker' = "wait"
           \/ speaker = "wait" /\ speaker' = "return"
           \/ speaker = "return" /\ speaker' = "gone"
    BY <1>7 DEF Enter, SpeakFails, Stop, Leave, Return
  <2>2. Made' = Made
    BY <1>7 DEF Enter, SpeakFails, Stop, Leave, Return, speakFrame, Made
  <2>3. QED BY <1>t, <1>a, <1>s, <2>1, <2>2, SpeakPlaces
<1>8. QED BY <1>1, <1>2, <1>3, <1>4, <1>5, <1>6, <1>7 DEF SpeakNext

\* What the pipe's thread does to the I2S worker's part: at most it starts it.
LEMMA SpeakStarts == IInv /\ SpeakNext => WorkToDo' <= WorkToDo
<1> SUFFICES ASSUME IInv, SpeakNext PROVE WorkToDo' <= WorkToDo
  OBVIOUS
<1>1. WorkToDo \in Nat BY ToDoNat
<1>2. CASE worker' = worker
  <2>1. UNCHANGED <<heard, worker, segment_frames>>
    BY <1>2 DEF SpeakNext, Enter, Feed, Take, Emit, Push, Flush, SendRest, SpeakFails, Stop, Leave,
        Return, speakFrame
  <2>2. QED BY <1>1, <2>1, ToDoSame
<1>3. CASE worker' # worker
  <2>1. worker = "none" /\ worker' = "gate" /\ heard' = heard
    BY <1>3 DEF SpeakNext, Enter, Feed, Take, Emit, Push, Flush, SendRest, SpeakFails, Stop, Leave,
        Return, speakFrame, IInv, OwnersOK
  <2> DEFINE Rest == 6 * (MaxPhrases * Blocks - heard)
  <2>2. Rest \in Nat BY SoundBound
  <2>3. WorkToDo = Rest + 9 + 0
    BY <2>1, WorkPlaces DEF WorkToDo, Given
  <2>4. WorkToDo' = Rest + 5 + 0
    BY <2>1, WorkPlaces DEF WorkToDo, Given
  <2> HIDE DEF Rest
  <2>5. QED BY <2>2, <2>3, <2>4
<1>4. QED BY <1>2, <1>3

\* A block the device takes is still a block made.
LEMMA WorkMade == IInv /\ WorkNext => Made' = Made
<1> SUFFICES ASSUME IInv, WorkNext PROVE Made' = Made
  OBVIOUS
<1>1. held' = held
  BY DEF WorkNext, Gate, Look, Read, Give, End, workFrame, speakVars
<1>2. CASE UNCHANGED <<ring, heard>>
  BY <1>1, <1>2 DEF Made
<1>3. CASE Give /\ ring # <<>> /\ heard' = Head(ring) /\ ring' = Tail(ring)
  <2>1. ring \in Seq(Nat) /\ Len(ring) > 0 /\ heard \in Nat BY <1>3 DEF IInv, TypeOK
  <2>2. heard' = heard + 1 BY <1>3, <2>1 DEF IInv, SoundOK
  <2>3. Len(ring') = Len(ring) - 1 BY <1>3, <2>1
  <2>4. QED BY <1>1, <2>1, <2>2, <2>3 DEF Made
<1>4. QED BY <1>2, <1>3 DEF WorkNext, Gate, Look, Read, Give, End, playVars

\* The I2S worker gets on, or looks.
LEMMA WorkCounts == IInv /\ WorkNext => LookAgain \/ WorkToDo' < WorkToDo
<1> SUFFICES ASSUME IInv, WorkNext PROVE LookAgain \/ WorkToDo' < WorkToDo
  OBVIOUS
<1> DEFINE Left == MaxPhrases * Blocks - heard
           G(g) == IF g THEN 4 ELSE 0
<1>t. Left \in Nat /\ heard \in Nat /\ MaxPhrases * Blocks \in Nat
  BY SoundBound
<1>a. WorkToDo = 6 * Left + WorkPlace[worker] + G(Given)
  BY DEF WorkToDo
<1>b. heard' = heard => WorkToDo' = 6 * Left + WorkPlace[worker'] + G(Given')
  BY DEF WorkToDo
<1>c. heard' = heard + 1 => WorkToDo' = 6 * (Left - 1) + WorkPlace[worker'] + G(Given')
  <2> SUFFICES ASSUME heard' = heard + 1
               PROVE  WorkToDo' = 6 * (Left - 1) + WorkPlace[worker'] + G(Given')
    OBVIOUS
  <2>1. MaxPhrases * Blocks - heard' = Left - 1
    BY <1>t
  <2>2. WorkToDo' = 6 * (MaxPhrases * Blocks - heard') + WorkPlace[worker'] + G(Given')
    BY DEF WorkToDo
  <2>3. QED BY <2>1, <2>2
<1> HIDE DEF Left
<1>g. segment_frames \in Nat
  BY DEF IInv, TypeOK
<1>1. CASE worker \in {"gate", "look"} /\ worker' \in {"gate", "look"}
  BY <1>1 DEF WorkNext, Gate, Look, Read, Give, End, LookAgain, workFrame, pipeVars, playVars,
      lifeVars, turnVars, speakVars, envVars
<1>2. CASE Gate /\ worker' = "gone"
  <2>1. worker = "gate" /\ heard' = heard BY <1>2 DEF Gate
  <2>2. ~Given /\ ~Given' BY <1>2, <2>1 DEF Given
  <2>3. QED BY <1>t, <1>a, <1>b, <1>2, <2>1, <2>2, WorkPlaces
<1>3. CASE Look /\ worker' # "gate"
  <2>1. worker = "look" /\ heard' = heard /\ (worker' = "gone" \/ (worker' = "read" /\ segment_frames' = 0))
    BY <1>3 DEF Look
  <2>2. ~Given /\ ~Given' BY <2>1 DEF Given
  <2>3. QED BY <1>t, <1>a, <1>b, <2>1, <2>2, WorkPlaces
<1>4. CASE Read
  <2>1. worker = "read" /\ worker' \in {"take", "end"} /\ UNCHANGED <<heard, segment_frames>>
    BY <1>4 DEF Read, playVars
  <2>2. Given' = Given BY <2>1 DEF Given
  <2>3. QED BY <1>t, <1>a, <1>b, <2>1, <2>2, WorkPlaces
<1>5. CASE Give
  <2>1. CASE worker' = "end"
    <3>1. worker = "take" /\ UNCHANGED <<heard, segment_frames>> BY <1>5, <2>1 DEF Give
    <3>2. Given' = Given BY <2>1, <3>1 DEF Given
    <3>3. QED BY <1>t, <1>a, <1>b, <2>1, <3>1, <3>2, WorkPlaces
  <2>2. CASE worker' # "end"
    <3>1. worker = "take" /\ worker' = "read" /\ ring # <<>> /\ heard' = Head(ring)
      BY <1>5, <2>2 DEF Give
    <3>2. heard' = heard + 1
      <4>1. ring \in Seq(Nat) /\ Len(ring) > 0 /\ heard \in Nat BY <3>1 DEF IInv, TypeOK
      <4>2. QED BY <3>1, <4>1 DEF IInv, SoundOK
    <3>3. G(Given) \in 0..4 /\ G(Given') \in 0..4 OBVIOUS
    <3> HIDE DEF G
    <3>4. QED BY <1>t, <1>a, <1>c, <3>1, <3>2, <3>3, WorkPlaces
  <2>3. QED BY <2>1, <2>2
<1>6. CASE End
  <2>1. worker = "end" /\ UNCHANGED <<heard, segment_frames>> BY <1>6 DEF End
  <2>2. CASE worker' = "gone"
    <3>1. ~Given' BY <2>2 DEF Given
    <3>2. QED BY <1>t, <1>a, <1>b, <2>1, <2>2, <3>1, WorkPlaces
  <2>3. CASE worker' # "gone"
    <3>1. worker' = "gate" /\ segment_frames # 0 BY <1>6, <2>3 DEF End
    <3>2. Given /\ ~Given' BY <1>g, <2>1, <3>1 DEF Given
    <3>3. QED BY <1>t, <1>a, <1>b, <2>1, <3>1, <3>2, WorkPlaces
  <2>4. QED BY <2>2, <2>3
<1>7. QED BY <1>1, <1>2, <1>3, <1>4, <1>5, <1>6 DEF WorkNext, Gate, Look

\* A sum gets smaller with any of its parts if none gets larger.
LEMMA LessInAll ==
  \A a, b, c, d, e, f, g, h \in Nat :
    e <= a /\ f <= b /\ g <= c /\ h <= d /\ (e < a \/ f < b \/ g < c \/ h < d)
    => e + f + g + h < a + b + c + d /\ e + f + g + h \in Nat
OBVIOUS

\* Every step but a look leaves less to do.
LEMMA StepCounts ==
  IInv /\ IInv' /\ [Next]_vars /\ ~UNCHANGED vars => LookAgain \/ (ToDo' < ToDo /\ ToDo' \in Nat)
<1> SUFFICES ASSUME IInv, IInv', Next, ~UNCHANGED vars, ~LookAgain
             PROVE  ToDo' < ToDo /\ ToDo' \in Nat
  OBVIOUS
<1>1. TurnToDo \in Nat /\ SpeakToDo \in Nat /\ WorkToDo \in Nat /\ Awaited \in Nat
  BY ToDoNat
<1>2. TurnToDo' \in Nat /\ SpeakToDo' \in Nat /\ WorkToDo' \in Nat /\ Awaited' \in Nat
  <2>1. IInv' => (TurnToDo \in Nat /\ SpeakToDo \in Nat /\ WorkToDo \in Nat /\ Awaited \in Nat)'
    BY ToDoNat, PTL
  <2>2. QED BY <2>1
<1>t. /\ ToDo = TurnToDo + SpeakToDo + WorkToDo + Awaited
      /\ ToDo' = TurnToDo' + SpeakToDo' + WorkToDo' + Awaited'
  BY DEF ToDo
<1>3. CASE TurnNext
  <2>1. UNCHANGED <<produced, ring, held, speaker, heard, worker, segment_frames, late, cancelled>>
    BY <1>3 DEF TurnNext, Write, WriteEnds, Room, Put, Accepted, Upstream, Done, Join, JoinFails,
        turnFrame, playVars, speakVars, workVars, envVars
  <2>2. Made' = Made BY <2>1 DEF Made
  <2>3. TurnToDo' < TurnToDo BY <1>3, TurnCounts
  <2>4. SpeakToDo' <= SpeakToDo /\ WorkToDo' <= WorkToDo /\ Awaited' <= Awaited
    BY <1>1, <2>1, <2>2, ToDoSame
  <2>5. TurnToDo' <= TurnToDo BY <1>1, <1>2, <2>3
  <2>6. QED BY <1>1, <1>2, <1>t, <2>3, <2>4, <2>5, LessInAll
<1>4. CASE SpeakNext
  <2>1. UNCHANGED <<queued, turn, late, cancelled>>
    BY <1>4 DEF SpeakNext, Enter, Feed, Take, Emit, Push, Flush, SendRest, SpeakFails, Stop, Leave,
        Return, speakFrame, turnVars, envVars
  <2>2. SpeakToDo' < SpeakToDo BY <1>4, SpeakCounts
  <2>3. WorkToDo' <= WorkToDo BY <1>4, SpeakStarts
  <2>4. TurnToDo' <= TurnToDo /\ Awaited' <= Awaited BY <1>1, <2>1, ToDoSame
  <2>5. SpeakToDo' <= SpeakToDo BY <1>1, <1>2, <2>2
  <2>6. QED BY <1>1, <1>2, <1>t, <2>2, <2>3, <2>4, <2>5, LessInAll
<1>5. CASE WorkNext
  <2>1. UNCHANGED <<queued, produced, turn, speaker, late, cancelled>>
    BY <1>5 DEF WorkNext, Gate, Look, Read, Give, End, workFrame, pipeVars, turnVars, speakVars, envVars
  <2>2. WorkToDo' < WorkToDo BY <1>5, WorkCounts
  <2>3. Made' = Made BY <1>5, WorkMade
  <2>4. TurnToDo' <= TurnToDo /\ SpeakToDo' <= SpeakToDo /\ Awaited' <= Awaited
    BY <1>1, <2>1, <2>3, ToDoSame
  <2>5. WorkToDo' <= WorkToDo BY <1>1, <1>2, <2>2
  <2>6. QED BY <1>1, <1>2, <1>t, <2>2, <2>4, <2>5, LessInAll
<1>6. CASE DeadlinePasses \/ Cancel
  <2>1. UNCHANGED <<queued, produced, ring, held, turn, speaker, heard, worker, segment_frames>>
    BY <1>6 DEF DeadlinePasses, Cancel, Elsewhere, pipeVars, playVars, turnVars, speakVars, workVars
  <2>2. Awaited' < Awaited
    <3>1. late \in 0..2 /\ cancelled \in BOOLEAN BY DEF IInv, TypeOK
    <3>2. \/ late \in {0, 1} /\ late' = late + 1 /\ cancelled' = cancelled
          \/ ~cancelled /\ cancelled' /\ late' = late
      BY <1>6 DEF DeadlinePasses, Cancel
    <3>3. QED BY <3>1, <3>2 DEF Awaited
  <2>3. Made' = Made BY <2>1 DEF Made
  <2>4. TurnToDo' <= TurnToDo /\ SpeakToDo' <= SpeakToDo /\ WorkToDo' <= WorkToDo
    BY <1>1, <2>1, <2>3, ToDoSame
  <2>5. Awaited' <= Awaited BY <1>1, <1>2, <2>2
  <2>6. QED BY <1>1, <1>2, <1>t, <2>2, <2>4, <2>5, LessInAll
<1>7. QED BY <1>3, <1>4, <1>5, <1>6 DEF Next, Over

\* A turn takes a bounded number of steps apart from looks: the loops of
\* phrase_queue, play() and the I2S worker go through no phrase and no block
\* twice and try no transaction again, for every length of the reply and every
\* size of queue, ring and transaction.
THEOREM TurnShrinks == Spec => EveryStepCounts
<1> DEFINE Counts == LookAgain \/ (ToDo' < ToDo /\ ToDo' \in Nat)
<1>1. IInv /\ IInv' /\ [Next]_vars => [Counts]_vars
  BY StepCounts
<1>2. QED BY Invariant, <1>1, PTL DEF Spec, EveryStepCounts

=============================================================================
