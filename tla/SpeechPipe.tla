----------------------------- MODULE SpeechPipe -----------------------------
(***************************************************************************)
(* One spoken turn of the offline route: voice_phrase_pipe.cxx between the *)
(* model and the synthesiser, voice_play_stream.cxx between the            *)
(* synthesiser and the I2S device.                                         *)
(*                                                                         *)
(* The turn's thread cuts the reply into phrases and queues them; the      *)
(* pipe's thread takes them, synthesises them and fills the ring of PCM    *)
(* blocks; the I2S worker empties the ring in device transactions.  Each   *)
(* thread may be the first to fail, and each reads the others' errors only *)
(* when it polls.  A step is one critical section, or one poll; a phrase   *)
(* is its number in the reply, and its sound is Blocks blocks of the ring, *)
(* numbered through.                                                       *)
(***************************************************************************)
EXTENDS Naturals, Sequences

CONSTANTS
  MaxPhrases, \* phrases of the longest reply
  QueueCap,   \* the slots of the phrase queue: 4
  Blocks,     \* blocks in the sound of one phrase
  RingCap,    \* queue_bytes, in blocks of 960 bytes
  FirstGate, NextGate, \* blocks queued before the device starts, and resumes
  SegMax,     \* 480000 frames: the longest device transaction, in blocks
  Limit,      \* Playback.limit, in blocks
  Hazards     \* what goes wrong outside, a subset of AllHazards

AllHazards == {"text", "model", "refuse", "synthesis", "device", "join", "late", "cancel"}

\* A gate no ring can pass would stop every turn.
ASSUME SizesAssumption ==
  /\ {MaxPhrases, QueueCap, Blocks, RingCap, FirstGate, NextGate, SegMax, Limit} \subseteq Nat \ {0}
  /\ FirstGate <= NextGate /\ NextGate <= RingCap
ASSUME HazardsAssumption == Hazards \subseteq AllHazards

VARIABLES
  \* VoicePhrasePipe: the slots and their cursor, phrases published and taken,
  \* no more to come, the first error, and a worker that may still poll it
  slots, head, count, queued, produced, done, error, downstream_retained,
  \* Playback: the ring, blocks of the finished transactions and of this one,
  \* the first block has gone out, no more to come, the first error
  ring, frames, segment_frames, started, finished, failure,
  \* which of the three shared structures still exist
  pipe, playback, control,
  \* the turn: its place, what it returns, and what voice_phrase_finish returns
  turn, result, status,
  \* the pipe's thread: its place, the code it carries, the phrase it speaks and
  \* the block it makes, and the block the converter has not sent on
  speaker, rc, phrase, part, held,
  \* the I2S worker: its place and the transaction's code
  worker, drc,
  \* outside: the deadlines passed (the pipe's is the first), the user's cancel
  late, cancelled,
  \* history: the last block the device took
  heard

pipeVars  == <<slots, head, count, queued, produced>>
playVars  == <<ring, frames, segment_frames, started>>
lifeVars  == <<pipe, playback, control>>
turnVars  == <<turn, result, status>>
speakVars == <<speaker, rc, phrase, part, held>>
workVars  == <<worker, drc>>
envVars   == <<late, cancelled>>
vars == <<pipeVars, done, error, downstream_retained, playVars, finished, failure,
          lifeVars, turnVars, speakVars, workVars, envVars, heard>>

-----------------------------------------------------------------------------
Codes == {"ok", "cancelled", "timeout", "text", "model", "refused", "synthesis",
          "nodata", "device", "overflow", "ownerdead", "join"}
Lives == {"none", "live", "freed", "kept"}
Slots == 0 .. QueueCap - 1
\* (head + i) % 4
At(i) == IF head + i < QueueCap THEN head + i ELSE head + i - QueueCap
\* The i-th block of a phrase.
Block(p, i) == (p - 1) * Blocks + i

\* The first error wins: phrase_fail() and the playback's fail().
First(e, r) == IF e = "ok" THEN r ELSE e

\* phrase_cancel()
PipeCode == IF error = "ok" /\ late >= 1 THEN "timeout" ELSE error
\* What the playback's poll() finds beside its own error.
Outside ==
  IF late = 2 THEN "timeout" ELSE IF cancelled THEN "cancelled" ELSE PipeCode
PollCode == First(failure, Outside)

\* poll(): it records what it finds, in the pipe too when it asked the pipe.
Poll ==
  /\ failure' = First(failure, Outside)
  /\ error' = IF late = 2 \/ cancelled THEN error ELSE PipeCode

Init ==
  /\ slots = [i \in Slots |-> 0] /\ head = 0 /\ count = 0 /\ queued = 0 /\ produced = 0
  /\ done = FALSE /\ error = "ok" /\ downstream_retained = FALSE
  /\ ring = <<>> /\ frames = 0 /\ segment_frames = 0 /\ started = FALSE
  /\ finished = FALSE /\ failure = "ok"
  /\ pipe = "live" /\ playback = "none" /\ control = "none"
  /\ turn = "write" /\ result = "ok" /\ status = "ok"
  /\ speaker = "enter" /\ rc = "ok" /\ phrase = 0 /\ part = 0 /\ held = 0
  /\ worker = "none" /\ drc = "ok"
  /\ late = 0 /\ cancelled = FALSE /\ heard = 0

-----------------------------------------------------------------------------
(* The turn: voice_phrase_accept, _finish and _close under routed_offline   *)

turnFrame == <<produced, playVars, finished, failure, playback, control,
               speakVars, workVars, envVars, heard, downstream_retained>>

\* A phrase is complete (accept), or the reply is and its rest is one (finish).
Write ==
  /\ turn = "write" /\ queued < MaxPhrases
  /\ turn' \in {"room", "lastroom"}
  /\ UNCHANGED <<slots, head, count, queued, done, error, pipe, result, status, turnFrame>>

\* The reply is over and nothing is pending, or the model fails, or the text is
\* one that accept refuses.
WriteEnds ==
  /\ turn = "write"
  /\ \/ turn' = "done" /\ UNCHANGED <<error, result>>
     \/ "model" \in Hazards /\ result' = "model" /\ turn' = "finish" /\ UNCHANGED error
     \/ "text" \in Hazards /\ error' = First(error, "text") /\ result' = error' /\ turn' = "finish"
  /\ UNCHANGED <<slots, head, count, queued, done, pipe, status, turnFrame>>

\* phrase_queue(): ask first, then look under the lock.
Room ==
  /\ turn \in {"room", "lastroom"}
  /\ error' = PipeCode
  /\ \/ /\ PipeCode = "ok" /\ turn' = IF turn = "room" THEN "put" ELSE "lastput"
        /\ UNCHANGED <<result, status>>
     \/ /\ PipeCode # "ok" /\ turn = "room" /\ result' = PipeCode /\ turn' = "finish"
        /\ UNCHANGED status
     \/ /\ PipeCode # "ok" /\ turn = "lastroom" /\ status' = PipeCode /\ turn' = "done"
        /\ UNCHANGED result
  /\ UNCHANGED <<slots, head, count, queued, done, pipe, turnFrame>>

\* Mutant: a full queue is overwritten.
PutOver ==
  /\ turn \in {"put", "lastput"}
  /\ slots' = [slots EXCEPT ![At(count)] = queued + 1]
  /\ count' = IF count < QueueCap THEN count + 1 ELSE count
  /\ queued' = queued + 1
  /\ turn' = IF turn = "put" THEN "accepted" ELSE "done"
  /\ UNCHANGED <<head, done, error, pipe, result, status, turnFrame>>

Put ==
  /\ turn \in {"put", "lastput"}
  /\ IF count < QueueCap
       THEN /\ slots' = [slots EXCEPT ![At(count)] = queued + 1]
            /\ count' = count + 1 /\ queued' = queued + 1
            /\ turn' = IF turn = "put" THEN "accepted" ELSE "done"
       ELSE /\ turn' = IF turn = "put" THEN "room" ELSE "lastroom"
            /\ UNCHANGED <<slots, count, queued>>
  /\ UNCHANGED <<head, done, error, pipe, result, status, turnFrame>>

\* `return phrase_cancel(s)'; an error ends the model's stream.
Accepted ==
  /\ turn = "accepted"
  /\ error' = PipeCode /\ result' = PipeCode
  /\ turn' = IF PipeCode = "ok" THEN "write" ELSE "finish"
  /\ UNCHANGED <<slots, head, count, queued, done, pipe, status, turnFrame>>

\* finish(upstream) of a turn that failed, and the one close() calls.
Upstream ==
  /\ turn \in {"finish", "again"}
  /\ error' = First(error, IF turn = "finish" THEN result ELSE "cancelled")
  /\ status' = IF turn = "finish" THEN error' ELSE status
  /\ turn' = IF turn = "finish" THEN "done" ELSE "redone"
  /\ UNCHANGED <<slots, head, count, queued, done, pipe, result, turnFrame>>

Done ==
  /\ turn \in {"done", "redone"}
  /\ done' = TRUE /\ turn' = IF turn = "done" THEN "join" ELSE "rejoin"
  /\ UNCHANGED <<slots, head, count, queued, error, pipe, result, status, turnFrame>>

\* Mutant: close() forgets the worker downstream.
ReleaseAlways == pipe' = "freed"

\* What close() does once the pipe's thread is joined.
Release == pipe' = IF downstream_retained THEN "kept" ELSE "freed"

Join ==
  /\ turn \in {"join", "rejoin"} /\ speaker = "gone"
  /\ status' = IF turn = "join" THEN First(status, error) ELSE status
  /\ result' = First(result, status')
  /\ Release /\ turn' = "over"
  /\ UNCHANGED <<slots, head, count, queued, done, error, turnFrame>>

\* pthread_join fails: close() tries once more, then leaves the pipe for good.
JoinFails ==
  /\ turn \in {"join", "rejoin"} /\ "join" \in Hazards
  /\ IF turn = "join"
       THEN turn' = "again" /\ status' = "join" /\ UNCHANGED <<result, pipe>>
       ELSE turn' = "over" /\ result' = First(result, status) /\ pipe' = "kept" /\ UNCHANGED status
  /\ UNCHANGED <<slots, head, count, queued, done, error, turnFrame>>

TurnNext ==
  Write \/ WriteEnds \/ Room \/ Put \/ Accepted \/ Upstream \/ Done \/ Join \/ JoinFails

-----------------------------------------------------------------------------
(* The pipe's thread: phrase_worker, local_play and play()                  *)

speakFrame == <<queued, done, frames, segment_frames, started, pipe, turnVars, drc, envVars, heard>>

\* local_play: busy, muted, quarantined, or out of memory or threads before the
\* I2S worker runs; otherwise the worker is started.
Enter ==
  /\ speaker = "enter"
  /\ \/ /\ speaker' = "feed" /\ playback' = "live" /\ control' = "live" /\ worker' = "gate"
        /\ UNCHANGED rc
     \/ /\ "refuse" \in Hazards /\ speaker' = "return" /\ rc' \in {"refused", "ownerdead"}
        /\ UNCHANGED <<playback, control, worker>>
  /\ UNCHANGED <<slots, head, count, produced, error, downstream_retained, ring, finished,
                 failure, phrase, part, held, speakFrame>>

\* The head of play()'s loop, and phrase_next's own question.
Feed ==
  /\ speaker = "feed" /\ Poll
  /\ \/ PollCode = "ok" /\ speaker' = "next" /\ UNCHANGED rc
     \/ PollCode # "ok" /\ speaker' = "fail" /\ rc' = PollCode
  /\ UNCHANGED <<slots, head, count, produced, downstream_retained, ring, finished, playback,
                 control, phrase, part, held, worker, speakFrame>>

\* Mutant: the flag is believed while phrases are queued.
TakeDoneFirst ==
  /\ speaker = "next"
  /\ IF done THEN speaker' = "flush" /\ UNCHANGED <<slots, head, count, produced, phrase, part>>
     ELSE IF count > 0
       THEN /\ phrase' = slots[head] /\ slots' = [slots EXCEPT ![head] = 0]
            /\ head' = At(1) /\ count' = count - 1 /\ produced' = produced + 1
            /\ part' = 1 /\ speaker' = "emit"
       ELSE speaker' = "feed" /\ UNCHANGED <<slots, head, count, produced, phrase, part>>
  /\ UNCHANGED <<error, downstream_retained, ring, finished, failure, playback, control, rc,
                 held, worker, speakFrame>>

\* phrase_next under the lock: a phrase, the end, or try again.
Take ==
  /\ speaker = "next"
  /\ IF count > 0
       THEN /\ phrase' = slots[head] /\ slots' = [slots EXCEPT ![head] = 0]
            /\ head' = At(1) /\ count' = count - 1 /\ produced' = produced + 1
            /\ part' = 1 /\ speaker' = "emit"
       ELSE /\ speaker' = IF done THEN "flush" ELSE "feed"
            /\ UNCHANGED <<slots, head, count, produced, phrase, part>>
  /\ UNCHANGED <<error, downstream_retained, ring, finished, failure, playback, control, rc,
                 held, worker, speakFrame>>

\* The synthesiser polls before every piece of sound and may fail.
Emit ==
  /\ speaker = "emit" /\ Poll
  /\ \/ PollCode = "ok" /\ speaker' = "push" /\ UNCHANGED rc
     \/ PollCode # "ok" /\ speaker' = "fail" /\ rc' = PollCode
     \/ PollCode = "ok" /\ "synthesis" \in Hazards /\ speaker' = "fail" /\ rc' = "synthesis"
  /\ UNCHANGED <<slots, head, count, produced, downstream_retained, ring, finished, playback,
                 control, phrase, part, held, worker, speakFrame>>

\* matcha_pcm_stream_accept: a block leaves the converter when the next one
\* comes in; push() waits for room in the ring.
Push ==
  /\ speaker = "push"
  /\ IF held # 0 /\ Len(ring) = RingCap
       THEN speaker' = "emit" /\ UNCHANGED <<ring, held, part>>
       ELSE /\ ring' = IF held # 0 THEN Append(ring, held) ELSE ring
            /\ held' = Block(phrase, part) /\ part' = part + 1
            /\ speaker' = IF part = Blocks THEN "feed" ELSE "emit"
  /\ UNCHANGED <<slots, head, count, produced, error, downstream_retained, finished, failure,
                 playback, control, rc, phrase, worker, speakFrame>>

\* matcha_pcm_stream_finish: the rest of the sound, if there was any.
Flush ==
  /\ speaker = "flush"
  /\ \/ held = 0 /\ speaker' = "fail" /\ rc' = "nodata" /\ UNCHANGED <<failure, error>>
     \/ held # 0 /\ Poll /\ PollCode = "ok" /\ speaker' = "tail" /\ UNCHANGED rc
     \/ held # 0 /\ Poll /\ PollCode # "ok" /\ speaker' = "fail" /\ rc' = PollCode
  /\ UNCHANGED <<slots, head, count, produced, downstream_retained, ring, finished, playback,
                 control, phrase, part, held, worker, speakFrame>>

SendRest ==
  /\ speaker = "tail"
  /\ IF Len(ring) = RingCap
       THEN speaker' = "flush" /\ UNCHANGED <<ring, held>>
       ELSE speaker' = "stop" /\ ring' = Append(ring, held) /\ held' = 0
  /\ UNCHANGED <<slots, head, count, produced, error, downstream_retained, finished, failure,
                 playback, control, rc, phrase, part, worker, speakFrame>>

SpeakFails ==
  /\ speaker = "fail"
  /\ failure' = First(failure, rc) /\ speaker' = "stop"
  /\ UNCHANGED <<slots, head, count, produced, error, downstream_retained, ring, finished,
                 playback, control, rc, phrase, part, held, worker, speakFrame>>

\* Mutant: the I2S worker is not told that no more sound comes before it is joined.
StopSilent ==
  /\ speaker = "stop" /\ speaker' = "wait"
  /\ UNCHANGED <<slots, head, count, produced, error, downstream_retained, ring, finished, failure,
                 playback, control, rc, phrase, part, held, worker, speakFrame>>

Stop ==
  /\ speaker = "stop"
  /\ finished' = TRUE /\ speaker' = "wait"
  /\ UNCHANGED <<slots, head, count, produced, error, downstream_retained, ring, failure,
                 playback, control, rc, phrase, part, held, worker, speakFrame>>

\* The I2S worker is joined and everything it polled can go, or the join fails
\* and everything stays, with the device in quarantine.
Leave ==
  /\ speaker = "wait" /\ speaker' = "return"
  /\ \/ /\ worker = "gone" /\ rc' = First(rc, failure)
        /\ playback' = "freed" /\ control' = "freed" /\ UNCHANGED failure
     \/ /\ "join" \in Hazards /\ rc' = "ownerdead" /\ failure' = First(failure, "ownerdead")
        /\ playback' = "kept" /\ control' = "kept"
  /\ UNCHANGED <<slots, head, count, produced, error, downstream_retained, ring, finished,
                 phrase, part, held, worker, speakFrame>>

\* Mutant: phrase_worker forgets to tell the turn.
ReturnSilent ==
  /\ speaker = "return" /\ speaker' = "gone"
  /\ downstream_retained' = (rc = "ownerdead")
  /\ UNCHANGED <<slots, head, count, produced, error, ring, finished, failure, playback,
                 control, rc, phrase, part, held, worker, speakFrame>>

\* phrase_worker
Return ==
  /\ speaker = "return" /\ speaker' = "gone"
  /\ downstream_retained' = (rc = "ownerdead")
  /\ error' = First(error, rc)
  /\ UNCHANGED <<slots, head, count, produced, ring, finished, failure, playback, control, rc,
                 phrase, part, held, worker, speakFrame>>

SpeakNext ==
  Enter \/ Feed \/ Take \/ Emit \/ Push \/ Flush \/ SendRest \/ SpeakFails \/ Stop \/ Leave \/ Return

-----------------------------------------------------------------------------
(* The I2S worker: worker(), read() and the driver's streaming transaction  *)

workFrame == <<pipeVars, done, downstream_retained, finished, lifeVars, turnVars, speakVars, envVars>>

Gate ==
  /\ worker = "gate" /\ Poll
  /\ worker' = IF PollCode = "ok" THEN "look" ELSE "gone"
  /\ UNCHANGED <<playVars, drc, heard, workFrame>>

\* Enough is queued to open a transaction.
Ready ==
  \/ Len(ring) >= IF started THEN NextGate ELSE FirstGate
  \/ finished /\ ring # <<>>

Look ==
  /\ worker = "look"
  /\ \/ /\ finished /\ ring = <<>> /\ worker' = "gone"
        /\ failure' = IF frames = 0 THEN First(failure, "nodata") ELSE failure
        /\ UNCHANGED segment_frames
     \/ /\ ~(finished /\ ring = <<>>) /\ Ready /\ worker' = "read" /\ segment_frames' = 0
        /\ UNCHANGED failure
     \/ /\ ~(finished /\ ring = <<>>) /\ ~Ready /\ worker' = "gate"
        /\ UNCHANGED <<failure, segment_frames>>
  /\ UNCHANGED <<ring, frames, started, drc, error, heard, workFrame>>

\* The driver asks for the next block, or fails by itself.
Read ==
  /\ worker = "read"
  /\ \/ Poll /\ PollCode = "ok" /\ worker' = "take" /\ UNCHANGED drc
     \/ Poll /\ PollCode # "ok" /\ worker' = "end" /\ drc' = PollCode
     \/ "device" \in Hazards /\ worker' = "end" /\ drc' = "device" /\ UNCHANGED <<failure, error>>
  /\ UNCHANGED <<playVars, heard, workFrame>>

\* Mutant: the transaction goes on over its own end.
GiveOver ==
  /\ worker = "take"
  /\ \/ ring = <<>> /\ worker' = "end" /\ UNCHANGED <<ring, segment_frames, started, heard, drc, failure>>
     \/ /\ ring # <<>>
        /\ heard' = Head(ring) /\ ring' = Tail(ring) /\ started' = TRUE
        /\ segment_frames' = segment_frames + 1 /\ worker' = "read"
        /\ UNCHANGED <<drc, failure>>
  /\ UNCHANGED <<frames, error, workFrame>>

\* read() under the lock: the end of this transaction, too much sound, or a block.
Give ==
  /\ worker = "take"
  /\ \/ /\ segment_frames = SegMax \/ ring = <<>>
        /\ worker' = "end"
        /\ UNCHANGED <<ring, segment_frames, started, heard, drc, failure>>
     \/ /\ segment_frames # SegMax /\ ring # <<>> /\ frames + segment_frames >= Limit
        /\ worker' = "end" /\ failure' = First(failure, "overflow") /\ drc' = failure'
        /\ UNCHANGED <<ring, segment_frames, started, heard>>
     \/ /\ segment_frames # SegMax /\ ring # <<>> /\ frames + segment_frames < Limit
        /\ heard' = Head(ring) /\ ring' = Tail(ring) /\ started' = TRUE
        /\ segment_frames' = segment_frames + 1 /\ worker' = "read"
        /\ UNCHANGED <<drc, failure>>
  /\ UNCHANGED <<frames, error, workFrame>>

\* Mutant: a transaction that ends with an error is tried again.
EndRetries ==
  /\ worker = "end"
  /\ LET code == IF drc = "ok" /\ segment_frames = 0 THEN "nodata" ELSE drc IN
     /\ failure' = IF code = "device" THEN failure ELSE First(failure, code)
     /\ worker' = IF code \in {"ok", "device"} THEN "gate" ELSE "gone"
     /\ drc' = IF code = "device" THEN "ok" ELSE drc
     /\ frames' = IF code = "ok" THEN frames + segment_frames ELSE frames
  /\ UNCHANGED <<ring, segment_frames, started, error, heard, workFrame>>

\* The end of a transaction; an empty one is the driver's -ENODATA.
End ==
  /\ worker = "end"
  /\ LET code == IF drc = "ok" /\ segment_frames = 0 THEN "nodata" ELSE drc IN
     /\ failure' = First(failure, code)
     /\ worker' = IF code = "ok" THEN "gate" ELSE "gone"
     /\ frames' = IF code = "ok" THEN frames + segment_frames ELSE frames
  /\ UNCHANGED <<ring, segment_frames, started, drc, error, heard, workFrame>>

WorkNext == Gate \/ Look \/ Read \/ Give \/ End

-----------------------------------------------------------------------------
(* Time and the user                                                        *)

Elsewhere == <<pipeVars, done, error, downstream_retained, playVars, finished, failure,
               lifeVars, turnVars, speakVars, workVars, heard>>

\* 120 seconds of the pipe, then those of the playback it opened later.
DeadlinePasses ==
  /\ "late" \in Hazards /\ turn # "over"
  /\ \/ late = 0 /\ late' = 1
     \/ late = 1 /\ playback = "live" /\ late' = 2
  /\ UNCHANGED <<cancelled, Elsewhere>>

\* Ctrl+C, or a stop of the listening service: local_cancel.
Cancel ==
  /\ "cancel" \in Hazards /\ ~cancelled /\ turn # "over"
  /\ cancelled' = TRUE
  /\ UNCHANGED <<late, Elsewhere>>

\* The turn is over and every thread is gone, or left behind in the device.
Over ==
  /\ turn = "over" /\ speaker = "gone" /\ worker \in {"none", "gone"}
  /\ UNCHANGED vars

Next == TurnNext \/ SpeakNext \/ WorkNext \/ DeadlinePasses \/ Cancel \/ Over

Spec == Init /\ [][Next]_vars

\* The three threads are scheduled.  No deadline has to pass and no user to help,
\* and a pthread_join on a thread that goes on need not fail: it may wait for ever.
FairSpec ==
  /\ Spec
  /\ WF_vars(TurnNext /\ (turn \in {"join", "rejoin"} => Join))
  /\ WF_vars(SpeakNext /\ (speaker = "wait" => playback' = "freed"))
  /\ WF_vars(WorkNext)

-----------------------------------------------------------------------------
(* Properties                                                               *)

TypeOK ==
  /\ slots \in [Slots -> Nat] /\ head \in Slots /\ count \in 0..QueueCap
  /\ queued \in Nat /\ produced \in Nat
  /\ done \in BOOLEAN /\ error \in Codes /\ downstream_retained \in BOOLEAN
  /\ ring \in Seq(Nat) /\ frames \in Nat /\ segment_frames \in Nat /\ started \in BOOLEAN
  /\ finished \in BOOLEAN /\ failure \in Codes
  /\ pipe \in Lives \ {"none"} /\ playback \in Lives /\ control \in Lives
  /\ turn \in {"write", "room", "lastroom", "put", "lastput", "accepted", "finish", "again",
               "done", "redone", "join", "rejoin", "over"}
  /\ result \in Codes /\ status \in Codes
  /\ speaker \in {"enter", "feed", "next", "emit", "push", "flush", "tail", "fail", "stop",
                  "wait", "return", "gone"}
  /\ rc \in Codes /\ phrase \in Nat /\ part \in Nat /\ held \in Nat
  /\ worker \in {"none", "gate", "look", "read", "take", "end", "gone"} /\ drc \in Codes
  /\ late \in 0..2 /\ cancelled \in BOOLEAN /\ heard \in Nat

\* Phrases are queued in the order of the reply, and done is the last word of the
\* turn's thread.
QueueOK ==
  /\ queued = produced + count
  /\ \A i \in 0..QueueCap - 1 : i < count => slots[At(i)] = produced + i + 1
  /\ done = (turn \in {"join", "again", "redone", "rejoin", "over"})
  /\ turn \in {"put", "lastput", "room", "lastroom", "write", "accepted"} => result = "ok" /\ status = "ok"
  /\ pipe = "live" <=> turn # "over"
  /\ queued <= MaxPhrases
  /\ turn \in {"room", "lastroom", "put", "lastput"} => queued < MaxPhrases

\* The sound made of the phrases taken, wherever it is.
Made == heard + Len(ring) + IF held # 0 THEN 1 ELSE 0

\* Every block is made once, from the next phrase, and waits in order.
SoundOK ==
  /\ \A i \in 1..Len(ring) : ring[i] = heard + i
  /\ Len(ring) <= RingCap /\ segment_frames <= SegMax
  /\ held # 0 => held = heard + Len(ring) + 1
  /\ Made <= produced * Blocks
  /\ speaker \in {"emit", "push"} =>
       /\ phrase = produced /\ produced > 0 /\ part \in 1..Blocks
       /\ Made = Block(phrase, part) - 1
  /\ speaker \in {"enter", "feed", "next", "flush", "tail"} => Made = produced * Blocks
  /\ speaker \in {"flush", "tail"} => done /\ count = 0
  /\ speaker = "tail" => held # 0
  /\ speaker \in {"stop", "wait", "return", "gone"} /\ rc = "ok" =>
       /\ done /\ count = 0 /\ held = 0 /\ Made = produced * Blocks /\ Made > 0
  /\ worker = "take" /\ segment_frames = 0 => ring # <<>>
  /\ worker = "read" /\ segment_frames = 0 => ring # <<>>
  /\ worker = "gone" /\ failure = "ok" => ring = <<>> /\ finished

\* Who is alive, who still needs what, and which error has reached whom.
OwnersOK ==
  /\ speaker = "enter" => worker = "none" /\ playback = "none" /\ control = "none" /\ heard = 0 /\ ring = <<>> /\ held = 0
  /\ speaker \in {"feed", "next", "emit", "push", "flush", "tail", "fail", "stop", "wait"} =>
       worker # "none" /\ playback = "live" /\ control = "live"
  /\ playback = "freed" => worker = "gone" /\ speaker \in {"return", "gone"}
  /\ control = playback
  /\ playback = "none" => worker = "none"
  /\ finished = (speaker \in {"wait", "return", "gone"} /\ playback # "none")
  /\ speaker \in {"return", "gone"} /\ rc # "ownerdead" => worker \in {"none", "gone"}
  /\ speaker \in {"return", "gone"} /\ rc = "ok" => worker = "gone" /\ failure = "ok"
  /\ speaker \in {"enter", "feed", "next", "emit", "push", "flush", "tail"} => rc = "ok"
  /\ speaker = "fail" => rc # "ok"
  /\ speaker \in {"stop", "wait"} /\ failure = "ok" => rc = "ok"
  /\ speaker = "gone" => downstream_retained = (rc = "ownerdead")
  /\ speaker = "gone" /\ error = "ok" => rc = "ok"
  /\ pipe = "freed" => speaker = "gone" /\ ~downstream_retained
  /\ turn = "over" /\ result = "ok" => speaker = "gone" /\ rc = "ok" /\ error = "ok"
  /\ turn = "finish" => result # "ok"
  /\ turn \in {"again", "redone", "rejoin"} => status # "ok"

IInv == TypeOK /\ QueueOK /\ SoundOK /\ OwnersOK

\* Nothing is freed under a thread that can still poll it: play() frees the ring
\* and local_play the cancel's owner only when the I2S worker is gone, close()
\* frees the pipe only when neither of the other two threads can reach it,
\* whichever joins failed.
Lifetime ==
  /\ playback = "freed" => worker = "gone" /\ speaker \in {"return", "gone"}
  /\ control = "freed" => worker = "gone"
  /\ pipe = "freed" => speaker = "gone" /\ worker \in {"none", "gone"}

\* `data cannot disappear between this check and read()': a device transaction
\* is never opened empty, so the driver's -ENODATA cannot hide a real error.
NeverEmpty == worker = "take" /\ segment_frames = 0 => ring # <<>>

\* Each thread's next step gets it somewhere: what it waits for, if it waits, is
\* there, or it finds the error that ends its wait.
TurnCan ==
  /\ turn # "over"
  /\ turn \in {"room", "lastroom", "put", "lastput"} => count < QueueCap \/ PipeCode # "ok"
  /\ turn \in {"join", "rejoin"} => speaker = "gone"
SpeakCan ==
  /\ speaker # "gone"
  /\ speaker \in {"feed", "next"} => count > 0 \/ done \/ PollCode # "ok"
  /\ speaker \in {"emit", "push", "flush", "tail"} /\ held # 0 =>
       Len(ring) < RingCap \/ PollCode # "ok"
  /\ speaker = "wait" => worker = "gone"
WorkCan ==
  /\ worker \notin {"none", "gone"}
  /\ worker \in {"gate", "look"} => Ready \/ finished \/ PollCode # "ok"

\* The three threads never all wait for each other over the queue, the ring, its
\* two gates and the two joins, whatever the sizes and whoever failed first:
\* until the turn is over and the threads are gone, one of them can go on, with
\* no help from a deadline, the user or a failed join.
NoCircularWait ==
  turn # "over" \/ speaker # "gone" \/ worker \notin {"none", "gone"} =>
    TurnCan \/ SpeakCan \/ WorkCan

\* How much a turn still has to do: per thread, the phrases or blocks ahead of it
\* and what is left of the one it is at.
TurnPlace == [accepted |-> 9, write |-> 8, room |-> 7, put |-> 7, lastroom |-> 7,
              lastput |-> 7, finish |-> 6, done |-> 5, join |-> 4, again |-> 3, redone |-> 2,
              rejoin |-> 1, over |-> 0]
SpeakPlace == [enter |-> 8, emit |-> 7, push |-> 7, feed |-> 6, next |-> 6, flush |-> 5,
               tail |-> 5, fail |-> 4, stop |-> 3, wait |-> 2, return |-> 1, gone |-> 0]
\* A transaction that has given a block leads back to the gate.
WorkPlace == [none |-> 9, gate |-> 5, look |-> 5, read |-> 4, take |-> 3, end |-> 2, gone |-> 0]
Given == worker \in {"read", "take", "end"} /\ segment_frames > 0

TurnToDo  == 3 * (MaxPhrases - queued) + TurnPlace[turn]
SpeakToDo == 2 * (MaxPhrases - produced) + 2 * (MaxPhrases * Blocks - Made) + SpeakPlace[speaker]
WorkToDo  == 6 * (MaxPhrases * Blocks - heard) + WorkPlace[worker] + (IF Given THEN 4 ELSE 0)
Awaited   == 2 - late + (IF cancelled THEN 0 ELSE 1)
ToDo == TurnToDo + SpeakToDo + WorkToDo + Awaited

\* A look at what is not there yet: an error may be noticed, and nothing else
\* changes but the looker's own place.
LookAgain ==
  /\ UNCHANGED <<pipeVars, done, downstream_retained, playVars, finished, lifeVars, result,
                 status, rc, phrase, part, held, drc, envVars, heard>>
  /\ turn' = turn \/ {turn, turn'} \in {{"room", "put"}, {"lastroom", "lastput"}}
  /\ speaker' = speaker \/
       {speaker, speaker'} \in {{"feed", "next"}, {"emit", "push"}, {"flush", "tail"}}
  /\ worker' = worker \/ {worker, worker'} = {"gate", "look"}

\* A turn takes a bounded number of steps apart from such looks: no phrase is
\* queued or synthesised twice, no transaction tried again, and no error sends a
\* thread back to where it was.
EveryStepCounts == [][LookAgain \/ (ToDo' < ToDo /\ ToDo' \in Nat)]_vars

\* A turn that reports success was heard to its last block, and no thread had
\* an error that the report swallowed.
SuccessHeardAll ==
  turn = "over" /\ result = "ok" =>
    /\ heard = queued * Blocks /\ queued > 0
    /\ error = "ok" /\ failure = "ok"

\* The turn ends: whoever fails first, everybody learns of it with no help from a
\* deadline, the user or a join that gives up, and no two threads wait for each other.
TurnEnds == <>(turn = "over")

\* The listener hears what the text promises (SpokenText).
Outcome ==
  IF turn # "over" THEN "open"
  ELSE IF result = "ok" THEN "ok"
  ELSE IF pipe = "kept" THEN "retained" ELSE "failed"

Text == INSTANCE SpokenText WITH written <- queued * Blocks, outcome <- Outcome

TurnIsText == Text!Spec
=============================================================================
