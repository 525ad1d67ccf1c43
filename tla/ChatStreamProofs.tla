-------------------------- MODULE ChatStreamProofs --------------------------
(***************************************************************************)
(* For any number of retries, tolerated errors, lines and heartbeats: a       *)
(* stream is type correct, hands its writer back, tells a connected client    *)
(* how it ended, and sends nothing that SSEProtocol does not allow.           *)
(* At the end, for any number of streams that share lastFlushTime: a chunk is  *)
(* held back only after a recent flush, and no longer than a heartbeat.       *)
(***************************************************************************)
EXTENDS ChatStream, FlushThrottle, FiniteSetTheorems, TLAPS

(* Where each frame goes once it is written; how far the attempts and the       *)
(* consecutive errors may have come at each place.                            *)
FrameInv ==
  stream = "write" =>
    \/ frame.kind \in {"init", "chunk"} /\ frame.next = "scan"
    \/ frame.kind = "stop"  /\ frame.next = "closeOk"
    \/ frame.kind = "error" /\ frame.next = "closeErr"
    \/ frame.kind = "panic" /\ frame.next = "closePanic"
    \/ frame.kind = "done"  /\ frame.next \in {"served", "failed", "recovered"}

LoopInv ==
  /\ stream \in {"top", "delay"} => attempt < Retry
  /\ stream = "scan" => errCount < MaxErrors
  /\ stream = "write" /\ frame.next = "scan" => errCount < MaxErrors

TypeInv == TypeOK /\ FrameInv /\ LoopInv

LEMMA InitType == Init => TypeInv
<1> SUFFICES ASSUME Init PROVE TypeInv
  OBVIOUS
<1> USE StreamAssumption DEF Init
<1>1. stream \in StreamPlaces /\ outcome \in {"none", "ok", "err"} /\ beat \in {"wait", "write", "stopped"}
  BY DEF StreamPlaces
<1>2. attempt \in 0..Retry /\ errCount \in 0..MaxErrors /\ lines \in 0..MaxLines /\ beats \in 0..MaxBeats
  OBVIOUS
<1>3. wire \in Seq(Kinds) /\ raced \subseteq {"stream", "beat"}
  OBVIOUS
<1>4. written \in BOOLEAN /\ broken \in BOOLEAN /\ ctxDone \in BOOLEAN /\ cancelled \in BOOLEAN
  OBVIOUS
<1>5. TypeOK
  BY <1>1, <1>2, <1>3, <1>4 DEF TypeOK
<1> QED
  BY <1>5 DEF TypeInv, FrameInv, LoopInv

LEMMA StepType == TypeInv /\ [Next]_vars => TypeInv'
<1> SUFFICES ASSUME TypeInv, [Next]_vars PROVE TypeInv'
  OBVIOUS
<1> USE StreamAssumption
    DEF TypeInv, TypeOK, FrameInv, LoopInv, reading, beating, output, context, Leave
<1>f. ASSUME NEW kind \in Kinds, NEW next \in StreamPlaces, BeginFrame(kind, next)
      PROVE  /\ frame' \in [kind : Kinds, next : StreamPlaces]
             /\ frame'.kind = kind /\ frame'.next = next
             /\ stream' = "write" /\ "write" \in StreamPlaces
             /\ written' \in BOOLEAN /\ raced' \subseteq {"stream", "beat"} /\ UNCHANGED wire
  BY <1>f DEF BeginFrame, StartWrite, StreamPlaces
<1>1. CASE Abort \/ Call \/ CallFails \/ GiveUp \/ RetryLater \/ DelayEnds \/ Succeed
  <2>1. UNCHANGED <<frame, reading, beating, output, context>>
    BY <1>1 DEF Abort, Call, CallFails, GiveUp, RetryLater, DelayEnds, Succeed
  <2>2. stream' \in StreamPlaces \ {"write", "scan"} /\ outcome' \in {"none", "ok", "err"}
    BY <1>1 DEF Abort, Call, CallFails, GiveUp, RetryLater, DelayEnds, Succeed, StreamPlaces
  <2>3. attempt' \in 0..Retry /\ (stream' \in {"top", "delay"} => attempt' < Retry)
    BY <1>1 DEF Abort, Call, CallFails, GiveUp, RetryLater, DelayEnds, Succeed
  <2> QED
    BY <2>1, <2>2, <2>3
<1>2. CASE LineWhenDone \/ OtherLine \/ ReadCancelled
  <2>1. UNCHANGED <<attempt, frame, outcome, beating, output, context>>
    BY <1>2 DEF LineWhenDone, OtherLine, ReadCancelled
  <2>2. stream' \in {"scan", "served", "failed"} /\ {"scan", "served", "failed"} \subseteq StreamPlaces
    BY <1>2 DEF LineWhenDone, OtherLine, ReadCancelled, ReadLine, StreamPlaces
  <2>3. lines' \in 0..MaxLines /\ errCount' \in {errCount, 0} /\ errCount < MaxErrors
    BY <1>2 DEF LineWhenDone, OtherLine, ReadCancelled, ReadLine
  <2> QED
    BY <2>1, <2>2, <2>3
<1>3. CASE CallOk
  <2>1. BeginFrame("init", "scan") /\ "init" \in Kinds /\ "scan" \in StreamPlaces
    BY <1>3 DEF CallOk, Kinds, StreamPlaces
  <2> QED
    BY <1>3, <1>f, <2>1 DEF CallOk
<1>4. CASE ContentLine
  <2>1. BeginFrame("chunk", "scan") /\ "chunk" \in Kinds /\ "scan" \in StreamPlaces
    BY <1>4 DEF ContentLine, Kinds, StreamPlaces
  <2> QED
    BY <1>4, <1>f, <2>1 DEF ContentLine, ReadLine
<1>5. CASE EndOfStream
  <2>1. BeginFrame("stop", "closeOk") /\ "stop" \in Kinds /\ "closeOk" \in StreamPlaces
    BY <1>5 DEF EndOfStream, Kinds, StreamPlaces
  <2> QED
    BY <1>5, <1>f, <2>1 DEF EndOfStream
<1>6. CASE ReadFails \/ TooManyErrors
  <2>1. BeginFrame("error", "closeErr") /\ "error" \in Kinds /\ "closeErr" \in StreamPlaces
    BY <1>6 DEF ReadFails, TooManyErrors, Kinds, StreamPlaces
  <2> QED
    BY <1>6, <1>f, <2>1 DEF ReadFails, TooManyErrors
<1>7. CASE SendDone
  <2>1. /\ BeginFrame("done", AfterDone[stream]) /\ "done" \in Kinds
        /\ AfterDone[stream] \in {"served", "failed", "recovered"}
    BY <1>7 DEF SendDone, AfterDone, Kinds
  <2>2. AfterDone[stream] \in StreamPlaces
    BY <2>1 DEF StreamPlaces
  <2> QED
    BY <1>7, <1>f, <2>1, <2>2 DEF SendDone
<1>8. CASE WritePanics
  <2>1. BeginFrame("panic", "closePanic") /\ "panic" \in Kinds /\ "closePanic" \in StreamPlaces
    BY <1>8 DEF WritePanics, Kinds, StreamPlaces
  <2> QED
    BY <1>8, <1>f, <2>1 DEF WritePanics
<1>9. CASE WriteOk
  <2>1. stream = "write" /\ stream' = frame.next /\ frame' = NoFrame
    BY <1>9 DEF WriteOk
  <2>2. frame.kind \in Kinds /\ stream' \in StreamPlaces \ {"write", "top", "delay"}
    BY <2>1 DEF Kinds, StreamPlaces
  <2>3. wire' \in Seq(Kinds)
    BY <1>9, <2>2 DEF WriteOk, Arrive
  <2>4. errCount' \in 0..MaxErrors /\ (frame.next = "scan" => errCount' < MaxErrors)
    BY <1>9, <2>1 DEF WriteOk
  <2> QED
    BY <1>9, <2>1, <2>2, <2>3, <2>4 DEF WriteOk
<1>10. CASE WriteFails
  <2>1. stream = "write" /\ frame' = NoFrame /\ UNCHANGED <<attempt, lines, outcome, beating, output, context>>
    BY <1>10 DEF WriteFails
  <2>2. CASE frame.kind = "chunk"
    <3>1. errCount' = errCount + 1 /\ errCount' \in 0..MaxErrors
      BY <1>10, <2>1, <2>2 DEF WriteFails
    <3>2. stream' = IF errCount' >= MaxErrors THEN "tooMany" ELSE "scan"
      BY <1>10, <2>2 DEF WriteFails
    <3>3. stream' \in {"tooMany", "scan"} /\ (stream' = "scan" => errCount' < MaxErrors)
      BY <3>1, <3>2
    <3> QED
      BY <2>1, <3>1, <3>3 DEF StreamPlaces
  <2>3. CASE frame.kind # "chunk"
    <3>1. stream' \in {"closeErr", "closePanic", "failed"} /\ UNCHANGED errCount
      BY <1>10, <2>3 DEF WriteFails
    <3> QED
      BY <2>1, <3>1 DEF StreamPlaces
  <2> QED
    BY <2>2, <2>3
<1>11. CASE Stop \/ Join \/ Return
  <2>1. CASE Stop
    BY <2>1 DEF Stop, StreamPlaces
  <2>2. CASE Join
    BY <2>2 DEF Join, StreamPlaces
  <2>3. CASE Return
    BY <2>3 DEF Return, StreamPlaces
  <2> QED
    BY <1>11, <2>1, <2>2, <2>3
<1>12. CASE ReplyError
  <2>1. wire' \in Seq(Kinds)
    BY <1>12 DEF ReplyError, Arrive, Kinds
  <2> QED
    BY <1>12, <2>1 DEF ReplyError, StreamPlaces
<1>13. CASE BeatStep
  <2>1. UNCHANGED <<stream, attempt, frame, reading, outcome, wire, context>>
    BY <1>13 DEF BeatStep, Beat, BeatOk, BeatFails, BeatStops
  <2>2. beat' \in {"wait", "write", "stopped"} /\ beats' \in 0..MaxBeats
    BY <1>13 DEF BeatStep, Beat, BeatOk, BeatFails, BeatStops
  <2>3. raced' \subseteq {"stream", "beat"} /\ written' \in BOOLEAN
    BY <1>13 DEF BeatStep, Beat, BeatOk, BeatFails, BeatStops, StartWrite
  <2> QED
    BY <2>1, <2>2, <2>3
<1>14. CASE Break \/ Notice \/ UNCHANGED vars
  <2>1. UNCHANGED <<stream, attempt, frame, reading, outcome, beating, output>>
    BY <1>14 DEF Break, Notice, vars
  <2>2. broken' \in BOOLEAN /\ ctxDone' \in BOOLEAN /\ cancelled' \in BOOLEAN
    BY <1>14 DEF Break, Notice, vars
  <2> QED
    BY <2>1, <2>2
<1> QED
  BY <1>1, <1>2, <1>3, <1>4, <1>5, <1>6, <1>7, <1>8, <1>9, <1>10, <1>11, <1>12, <1>13, <1>14
     DEF Next, StreamStep

(* Every state of a stream is well typed; in particular no attempt begins beyond  *)
(* Retry and no more than maxErrors lines in a row fail (stream.go:89-123, 244).  *)
THEOREM Typing == Spec => []TypeOK
<1>1. TypeInv => TypeOK
  BY DEF TypeInv
<1> QED
  BY <1>1, InitType, StepType, PTL DEF Spec
-----------------------------------------------------------------------------
(* The heartbeat is gone when the handler looks at the writer, and what the       *)
(* client has of a JSON error it has without heartbeats.                       *)
HandInv ==
  /\ stream \in {"return", "done"} => beat = "stopped"
  /\ beats > 0 => written
  /\ \A i \in DOMAIN wire : wire[i] = "json" => stream = "done" /\ beats = 0

LEMMA InitHand == Init => HandInv
BY DEF Init, HandInv

LEMMA StepHand == TypeInv /\ HandInv /\ [Next]_vars => HandInv'
<1> SUFFICES ASSUME TypeInv, HandInv, [Next]_vars PROVE HandInv'
  OBVIOUS
<1> USE DEF HandInv, reading, beating, output, context
<1>0. wire \in Seq(Kinds) /\ beats \in Nat
  BY StreamAssumption DEF TypeInv, TypeOK
<1>1. ASSUME NEW kind \in Kinds, kind # "json", wire' = Append(wire, kind),
             NEW i \in DOMAIN wire', wire'[i] = "json"
      PROVE  i \in DOMAIN wire /\ wire[i] = "json"
  <2>1. DOMAIN wire' = 1..(Len(wire) + 1) /\ DOMAIN wire = 1..Len(wire) /\ Len(wire) \in Nat
    BY <1>0, <1>1
  <2>2. wire'[Len(wire) + 1] = kind /\ \A j \in 1..Len(wire) : wire'[j] = wire[j]
    BY <1>0, <1>1
  <2> QED
    BY <1>1, <2>1, <2>2
<1>2. CASE WriteOk
  <2>1. /\ stream = "write" /\ frame.kind \in Kinds /\ frame.kind # "json"
        /\ stream' \notin {"return", "done"}
    BY <1>2 DEF WriteOk, TypeInv, FrameInv, Kinds
  <2>2. wire' \in {wire, Append(wire, frame.kind)} /\ UNCHANGED <<beats, beat, written>>
    BY <1>2 DEF WriteOk, Arrive
  <2> QED
    BY <1>1, <2>1, <2>2
<1>3. CASE ReplyError
  <2>1. stream = "return" /\ stream' = "done" /\ ~written /\ written' /\ UNCHANGED <<beat, beats>>
    BY <1>3 DEF ReplyError
  <2>2. beats = 0
    BY <1>0, <2>1
  <2> QED
    BY <2>1, <2>2
<1>4. CASE BeatStep
  BY <1>0, <1>4 DEF BeatStep, Beat, BeatOk, BeatFails, BeatStops, StartWrite
<1>5. CASE Stop \/ Join \/ Return
  BY <1>5 DEF Stop, Join, Return
<1>6. ASSUME UNCHANGED <<wire, beat, beats>>, written => written', stream # "done",
             stream' \notin {"return", "done"}
      PROVE  HandInv'
  BY <1>6
<1>7. CASE Abort \/ Call \/ CallFails \/ GiveUp \/ RetryLater \/ DelayEnds \/ Succeed
  BY <1>6, <1>7 DEF Abort, Call, CallFails, GiveUp, RetryLater, DelayEnds, Succeed, Leave
<1>8. CASE CallOk \/ ContentLine \/ EndOfStream \/ ReadFails \/ TooManyErrors \/ SendDone \/ WritePanics
  <2>1. stream' = "write" /\ written' /\ UNCHANGED <<wire, beat, beats>>
    BY <1>8 DEF CallOk, ContentLine, EndOfStream, ReadFails, TooManyErrors, SendDone, WritePanics,
                BeginFrame, StartWrite
  <2>2. stream # "done"
    BY <1>8 DEF CallOk, ContentLine, ReadLine, EndOfStream, ReadFails, TooManyErrors, SendDone,
                WritePanics, AfterDone
  <2> QED
    BY <1>6, <2>1, <2>2
<1>9. CASE LineWhenDone \/ OtherLine \/ ReadCancelled
  BY <1>6, <1>9 DEF LineWhenDone, OtherLine, ReadCancelled, ReadLine
<1>10. CASE WriteFails
  <2>1. stream = "write" /\ stream' \in {"tooMany", "scan", "closeErr", "closePanic", "failed"}
    BY <1>10 DEF WriteFails
  <2> QED
    BY <1>6, <1>10, <2>1 DEF WriteFails
<1>11. CASE Break \/ Notice \/ UNCHANGED vars
  BY <1>11 DEF Break, Notice, vars
<1> QED
  BY <1>2, <1>3, <1>4, <1>5, <1>7, <1>8, <1>9, <1>10, <1>11 DEF Next, StreamStep

(* From the moment the handler looks at Written() on, no heartbeat touches the      *)
(* writer, and a JSON error is never mixed with one (stream.go:46-51, chat.go:112). *)
THEOREM HandingBack == Spec => []WriterHandedBack
<1>1. HandInv => WriterHandedBack
  BY DEF HandInv, WriterHandedBack
<1> QED
  BY <1>1, InitType, StepType, InitHand, StepHand, PTL DEF Spec
-----------------------------------------------------------------------------
Ending(w, kinds) == w # <<>> /\ w[Len(w)] \in kinds

(* While the connection holds, its context is only cancelled at the end, every       *)
(* write arrives, and so every attempt that streamed has closed with [DONE].      *)
ToldInv ==
  /\ ctxDone => broken
  /\ cancelled => stream \in {"join", "return", "done"}
  /\ ~broken =>
       /\ stream # "tooMany"
       /\ stream \in {"top", "call", "failed", "delay"} => wire = <<>> \/ Ending(wire, {"done"})
       /\ stream \in {"recovered", "served"} => Ending(wire, {"done"})
       /\ stream \in {"stop", "join", "return"} =>
            Ending(wire, {"done"}) \/ (wire = <<>> /\ outcome = "err")
       /\ written /\ wire = <<>> => beats > 0 \/ stream = "write"
       /\ stream = "done" =>
            IF wire # <<>> THEN Ending(wire, {"done", "json"}) ELSE outcome = "err" /\ beats > 0

LEMMA InitTold == Init => ToldInv
BY DEF Init, ToldInv

LEMMA StepTold == TypeInv /\ HandInv /\ ToldInv /\ [Next]_vars => ToldInv'
<1> SUFFICES ASSUME TypeInv, HandInv, ToldInv, [Next]_vars PROVE ToldInv'
  OBVIOUS
<1> USE DEF ToldInv, reading, beating, output, context
<1>0. wire \in Seq(Kinds) /\ beats \in Nat
  BY StreamAssumption DEF TypeInv, TypeOK
<1>1. CASE WriteOk
  <2>1. /\ stream = "write" /\ stream' = frame.next
        /\ wire' = IF broken THEN wire ELSE Append(wire, frame.kind)
        /\ UNCHANGED <<broken, ctxDone, cancelled>>
    BY <1>1 DEF WriteOk, Arrive
  <2>2. ~broken => Ending(wire', {frame.kind})
    BY <1>0, <2>1 DEF Ending
  <2>3. frame.kind = "done" \/ frame.next \in {"scan", "closeOk", "closeErr", "closePanic"}
    BY <2>1 DEF TypeInv, FrameInv
  <2>4. frame.next \in {"scan", "closeOk", "closeErr", "closePanic", "served", "failed", "recovered"}
    BY <2>1 DEF TypeInv, FrameInv
  <2> QED
    BY <2>1, <2>2, <2>3, <2>4 DEF Ending
<1>2. CASE ReplyError
  <2>1. /\ stream = "return" /\ stream' = "done" /\ UNCHANGED <<broken, ctxDone, cancelled>>
        /\ wire' = IF broken THEN wire ELSE Append(wire, "json")
    BY <1>2 DEF ReplyError, Arrive
  <2>2. ~broken => Ending(wire', {"json"})
    BY <1>0, <2>1 DEF Ending
  <2> QED
    BY <2>1, <2>2 DEF Ending
<1>3. CASE Return
  BY <1>3 DEF Return, Ending
<1>4. CASE BeatStep
  BY <1>0, <1>4 DEF BeatStep, Beat, BeatOk, BeatFails, BeatStops, StartWrite
<1>5. CASE Stop \/ Join
  BY <1>5 DEF Stop, Join
<1>6. CASE Abort \/ Call \/ CallFails \/ GiveUp \/ RetryLater \/ DelayEnds \/ Succeed
  <2>1. /\ UNCHANGED <<wire, written, beats, broken, ctxDone, cancelled>>
        /\ stream \notin {"join", "return", "done"}
    BY <1>6 DEF Abort, Call, CallFails, GiveUp, RetryLater, DelayEnds, Succeed
  <2>2. CASE Abort \/ GiveUp
    <3>1. /\ stream \in {"top", "delay", "failed", "recovered"}
          /\ stream' = "stop" /\ outcome' = "err"
      BY <2>2 DEF Abort, GiveUp, Leave
    <3> QED
      BY <2>1, <3>1 DEF Ending
  <2>3. CASE Succeed
    BY <2>1, <2>3 DEF Succeed, Leave, Ending
  <2>4. CASE Call \/ CallFails \/ RetryLater \/ DelayEnds
    <3>1. /\ stream \in {"top", "call", "failed", "recovered", "delay"}
          /\ stream' \in {"call", "failed", "delay", "top"}
      BY <2>4 DEF Call, CallFails, RetryLater, DelayEnds
    <3>2. ~broken => /\ wire = <<>> \/ Ending(wire, {"done"})
                     /\ written /\ wire = <<>> => beats > 0
      BY <3>1
    <3>3. Ending(wire, {"done"})' = Ending(wire, {"done"})
      BY <2>1 DEF Ending
    <3> QED
      BY <2>1, <3>1, <3>2, <3>3
  <2> QED
    BY <1>6, <2>2, <2>3, <2>4
<1>7. CASE CallOk \/ ContentLine \/ EndOfStream \/ ReadFails \/ TooManyErrors \/ SendDone \/ WritePanics
  <2>1. stream' = "write" /\ UNCHANGED <<wire, broken, ctxDone, cancelled>>
    BY <1>7 DEF CallOk, ContentLine, EndOfStream, ReadFails, TooManyErrors, SendDone, WritePanics,
                BeginFrame
  <2>2. stream \notin {"join", "return", "done"}
    BY <1>7 DEF CallOk, ContentLine, ReadLine, EndOfStream, ReadFails, TooManyErrors, SendDone,
                WritePanics, AfterDone
  <2> QED
    BY <2>1, <2>2
<1>8. CASE LineWhenDone \/ ReadCancelled
  <2>1. stream = "scan" /\ broken /\ UNCHANGED <<broken, ctxDone, cancelled>>
    BY <1>8 DEF LineWhenDone, ReadCancelled, ReadLine, Done
  <2> QED
    BY <2>1
<1>9. CASE OtherLine
  BY <1>9 DEF OtherLine
<1>10. CASE WriteFails
  <2>1. stream = "write" /\ broken /\ UNCHANGED <<broken, ctxDone, cancelled>>
    BY <1>10 DEF WriteFails
  <2> QED
    BY <2>1
<1>11. CASE Break \/ Notice \/ UNCHANGED vars
  BY <1>11 DEF Break, Notice, vars
<1> QED
  BY <1>1, <1>2, <1>3, <1>4, <1>5, <1>6, <1>7, <1>8, <1>9, <1>10, <1>11 DEF Next, StreamStep

(* A client that stays connected learns how its request ended, whatever fails: with   *)
(* [DONE] or with the JSON error, but for a request that failed before it streamed   *)
(* and after a heartbeat (chat.go:112-115).                                      *)
THEOREM Telling == Spec => []ConnectedClientIsTold
<1>1. ToldInv => ConnectedClientIsTold
  BY DEF ToldInv, ConnectedClientIsTold, Ending, Last
<1> QED
  BY <1>1, InitType, StepType, InitHand, StepHand, InitTold, StepTold, PTL DEF Spec
-----------------------------------------------------------------------------
Places(w, kind) == {i \in DOMAIN w : w[i] = kind}
Number(w, kind) == Cardinality(Places(w, kind))

StopStands(w) ==
  \E i \in DOMAIN w : w[i] = "stop" /\ \A j \in (i + 1)..Len(w) : w[j] # "panic"

(* A frame counts where it is of the kind, and nowhere else. *)
LEMMA AppendCounts ==
  ASSUME NEW w \in Seq(Kinds), NEW k \in Kinds, NEW x \in Kinds
  PROVE  /\ Number(w, x) \in Nat
         /\ Number(Append(w, k), x) = IF k = x THEN Number(w, x) + 1 ELSE Number(w, x)
<1>1. DOMAIN w = 1..Len(w) /\ Len(w) \in Nat
  OBVIOUS
<1>2. IsFiniteSet(Places(w, x))
  <2>1. IsFiniteSet(1..Len(w)) /\ Places(w, x) \in SUBSET (1..Len(w))
    BY <1>1, FS_Interval DEF Places
  <2> QED
    BY <2>1, FS_Subset
<1>3. Places(Append(w, k), x) = IF k = x THEN Places(w, x) \cup {Len(w) + 1} ELSE Places(w, x)
  BY DEF Places
<1>4. Len(w) + 1 \notin Places(w, x)
  BY <1>1 DEF Places
<1>5. Number(w, x) \in Nat
  BY <1>2, FS_CardinalityType DEF Number
<1>6. CASE k = x
  BY <1>2, <1>3, <1>4, <1>5, <1>6, FS_AddElement DEF Number
<1>7. CASE k # x
  BY <1>3, <1>5, <1>7 DEF Number
<1> QED
  BY <1>6, <1>7

(* A success stands until a panic is reported. *)
LEMMA AppendStops ==
  ASSUME NEW w \in Seq(Kinds), NEW k \in Kinds
  PROVE  StopStands(Append(w, k)) <=> k = "stop" \/ (k # "panic" /\ StopStands(w))
<1> DEFINE n == Len(w) + 1
<1>1. /\ Len(w) \in Nat /\ DOMAIN w = 1..Len(w)
      /\ DOMAIN Append(w, k) = 1..n /\ Len(Append(w, k)) = n
      /\ Append(w, k)[n] = k
      /\ \A i \in 1..Len(w) : Append(w, k)[i] = w[i]
  OBVIOUS
<1>2. ASSUME k = "stop" PROVE StopStands(Append(w, k))
  BY <1>1, <1>2 DEF StopStands
<1>3. ASSUME k # "panic", StopStands(w) PROVE StopStands(Append(w, k))
  <2>1. PICK i \in 1..Len(w) : w[i] = "stop" /\ \A j \in (i + 1)..Len(w) : w[j] # "panic"
    BY <1>1, <1>3 DEF StopStands
  <2>2. \A j \in (i + 1)..n : Append(w, k)[j] # "panic"
    BY <1>1, <1>3, <2>1
  <2> QED
    BY <1>1, <2>1, <2>2 DEF StopStands
<1>4. ASSUME StopStands(Append(w, k)), k # "stop" PROVE k # "panic" /\ StopStands(w)
  <2>1. PICK i \in 1..n : /\ Append(w, k)[i] = "stop"
                          /\ \A j \in (i + 1)..n : Append(w, k)[j] # "panic"
    BY <1>1, <1>4 DEF StopStands
  <2>2. i # n
    BY <1>1, <1>4, <2>1
  <2>3. i \in 1..Len(w) /\ n \in (i + 1)..n
    BY <1>1, <2>1, <2>2
  <2>4. \A j \in (i + 1)..Len(w) : j \in (i + 1)..n /\ Append(w, k)[j] = w[j]
    BY <1>1, <2>3
  <2> QED
    BY <1>1, <2>1, <2>3, <2>4 DEF StopStands
<1> QED
  BY <1>2, <1>3, <1>4

(* While the connection holds: what the last frame was at each place, where a     *)
(* success may stand, and that an attempt opens and reports a panic once.         *)
EndInv ==
  /\ wire # <<>> => written
  /\ stream = "write" => written
  /\ stream = "scan" => Ending(wire, {"init", "chunk"})
  /\ stream = "closeOk" => Ending(wire, {"stop"})
  /\ stream = "closeErr" => Ending(wire, {"error"})
  /\ stream = "closePanic" => Ending(wire, {"panic"})
  /\ stream = "write" /\ frame.kind \in {"chunk", "stop", "error"} =>
       Ending(wire, {"init", "chunk"})
  /\ stream = "write" /\ frame.kind = "done" /\ frame.next = "served" => Ending(wire, {"stop"})
  /\ stream = "write" /\ frame.kind = "done" /\ frame.next = "failed" => Ending(wire, {"error"})
  /\ stream = "write" /\ frame.kind = "done" /\ frame.next = "recovered" => Ending(wire, {"panic"})

StopInv ==
  StopStands(wire) =>
    \/ stream \in {"closeOk", "served", "stop", "join", "return", "done"}
    \/ stream = "write" /\ frame.kind = "done" /\ frame.next = "served"
    \/ stream = "write" /\ frame.kind = "panic" /\ Ending(wire, {"stop"})

Unopened == stream = "call" \/ (stream = "write" /\ frame.kind = "init")

Unpanicked ==
  \/ stream \in {"call", "scan", "closeOk", "closeErr", "tooMany"}
  \/ stream = "write" /\ frame.next # "recovered"

CountInv ==
  /\ Number(wire, "init") =< attempt
  /\ Number(wire, "panic") =< attempt
  /\ Unopened => Number(wire, "init") < attempt
  /\ Unpanicked => Number(wire, "panic") < attempt

ProtocolInv == ~broken => EndInv /\ StopInv /\ CountInv

LEMMA InitProtocol == Init => ProtocolInv
<1> SUFFICES ASSUME Init PROVE EndInv /\ StopInv /\ CountInv
  BY DEF ProtocolInv
<1>1. Places(wire, "init") = {} /\ Places(wire, "panic") = {}
  BY DEF Init, Places
<1>2. Number(wire, "init") = 0 /\ Number(wire, "panic") = 0
  BY <1>1, FS_EmptySet DEF Number
<1> QED
  BY <1>2 DEF Init, EndInv, StopInv, CountInv, StopStands, Unopened, Unpanicked

(* A frame that arrives is the one WriteOk was writing, or the JSON error. *)
LEMMA WireFacts ==
  ASSUME TypeInv, HandInv, ToldInv, ProtocolInv, [Next]_vars, ~broken'
  PROVE  /\ ~broken /\ stream # "tooMany"
         /\ WriteOk \/ ReplyError \/ UNCHANGED wire
<1> USE DEF output, context, ToldInv
<1>1. CASE Abort \/ Call \/ CallFails \/ CallOk \/ GiveUp \/ RetryLater \/ DelayEnds \/ Succeed
  BY <1>1 DEF Abort, Call, CallFails, CallOk, GiveUp, RetryLater, DelayEnds, Succeed, BeginFrame
<1>2. CASE LineWhenDone \/ ContentLine \/ OtherLine \/ EndOfStream \/ ReadCancelled \/ ReadFails
           \/ TooManyErrors \/ SendDone \/ WritePanics
  BY <1>2 DEF LineWhenDone, ContentLine, OtherLine, EndOfStream, ReadCancelled, ReadFails,
              TooManyErrors, SendDone, WritePanics, BeginFrame
<1>3. CASE WriteOk \/ WriteFails \/ Stop \/ Join \/ ReplyError \/ Return
  BY <1>3 DEF WriteOk, WriteFails, Stop, Join, ReplyError, Return
<1>4. CASE BeatStep \/ Break \/ Notice \/ UNCHANGED vars
  BY <1>4 DEF BeatStep, Beat, BeatOk, BeatFails, BeatStops, Break, Notice, vars
<1> QED
  BY <1>1, <1>2, <1>3, <1>4 DEF Next, StreamStep

LEMMA StepProtocol ==
  TypeInv /\ HandInv /\ ToldInv /\ ProtocolInv /\ [Next]_vars => ProtocolInv'
<1> SUFFICES ASSUME TypeInv, HandInv, ToldInv, ProtocolInv, [Next]_vars, ~broken'
             PROVE  EndInv' /\ StopInv' /\ CountInv'
  BY DEF ProtocolInv
<1> USE DEF output, context
<1>0. /\ ~broken /\ stream # "tooMany"
      /\ EndInv /\ StopInv /\ CountInv
      /\ wire \in Seq(Kinds) /\ attempt \in Nat
      /\ "init" \in Kinds /\ "panic" \in Kinds
  BY WireFacts, StreamAssumption DEF ProtocolInv, TypeInv, TypeOK, Kinds
<1>a. Number(wire, "init") \in Nat /\ Number(wire, "panic") \in Nat
  BY <1>0, AppendCounts
<1>b. ASSUME UNCHANGED wire
      PROVE  /\ Ending(wire, {"init", "chunk"})' = Ending(wire, {"init", "chunk"})
             /\ Ending(wire, {"stop"})' = Ending(wire, {"stop"})
             /\ Ending(wire, {"error"})' = Ending(wire, {"error"})
             /\ Ending(wire, {"panic"})' = Ending(wire, {"panic"})
             /\ StopStands(wire)' = StopStands(wire)
             /\ Number(wire, "init")' = Number(wire, "init")
             /\ Number(wire, "panic")' = Number(wire, "panic")
  BY <1>b DEF Ending, StopStands, Number, Places
<1>1. CASE WriteOk
  <2>1. /\ stream = "write" /\ stream' = frame.next /\ frame' = NoFrame
        /\ wire' = Append(wire, frame.kind)
        /\ UNCHANGED <<attempt, written>>
    BY <1>0, <1>1 DEF WriteOk, Arrive
  <2>2. /\ frame.kind \in Kinds \ {"json"}
        /\ stream' \notin {"call", "write", "tooMany"}
    BY <2>1 DEF TypeInv, FrameInv, Kinds
  <2>3. wire' # <<>> /\ wire'[Len(wire')] = frame.kind
    BY <1>0, <2>1, <2>2
  <2>4. EndInv'
    <3>1. Ending(wire, {"init", "chunk"})' <=> frame.kind \in {"init", "chunk"}
      BY <2>3 DEF Ending
    <3>2. /\ Ending(wire, {"stop"})' <=> frame.kind = "stop"
          /\ Ending(wire, {"error"})' <=> frame.kind = "error"
          /\ Ending(wire, {"panic"})' <=> frame.kind = "panic"
      BY <2>3 DEF Ending
    <3> QED
      BY <1>0, <2>1, <2>2, <3>1, <3>2 DEF EndInv, TypeInv, FrameInv
  <2>5. StopInv'
    <3>1. StopStands(wire)' <=> frame.kind = "stop" \/ (frame.kind # "panic" /\ StopStands(wire))
      BY <1>0, <2>1, <2>2, AppendStops
    <3>2. CASE frame.kind = "stop"
      BY <2>1, <3>2 DEF StopInv, TypeInv, FrameInv
    <3>3. CASE frame.kind # "stop" /\ frame.kind # "panic" /\ StopStands(wire)
      <4>1. frame.kind = "done" /\ frame.next = "served"
        BY <1>0, <2>1, <3>3 DEF StopInv
      <4> QED
        BY <2>1, <4>1 DEF StopInv
    <3> QED
      BY <3>1, <3>2, <3>3 DEF StopInv
  <2>6. CountInv'
    <3>1. /\ Number(wire', "init") = IF frame.kind = "init" THEN Number(wire, "init") + 1
                                                           ELSE Number(wire, "init")
          /\ Number(wire', "panic") = IF frame.kind = "panic" THEN Number(wire, "panic") + 1
                                                             ELSE Number(wire, "panic")
      BY <1>0, <2>1, <2>2, AppendCounts
    <3>2. ~Unopened' /\ (Unopened <=> frame.kind = "init")
      BY <2>1, <2>2 DEF Unopened
    <3>3. Unpanicked' => frame.kind # "panic" /\ Unpanicked
      BY <2>1, <2>2 DEF Unpanicked, TypeInv, FrameInv
    <3>4. frame.kind = "panic" => Unpanicked
      BY <2>1 DEF Unpanicked, TypeInv, FrameInv
    <3> QED
      BY <1>0, <1>a, <2>1, <3>1, <3>2, <3>3, <3>4 DEF CountInv
  <2> QED
    BY <2>4, <2>5, <2>6
<1>2. CASE ReplyError
  <2>1. /\ stream' = "done" /\ written' /\ wire' = Append(wire, "json") /\ "json" \in Kinds
        /\ UNCHANGED attempt
    BY <1>0, <1>2 DEF ReplyError, Arrive, Kinds
  <2>2. EndInv' /\ StopInv'
    BY <2>1 DEF EndInv, StopInv
  <2>3. Number(wire', "init") = Number(wire, "init") /\ Number(wire', "panic") = Number(wire, "panic")
    BY <1>0, <2>1, AppendCounts
  <2>4. ~Unopened' /\ ~Unpanicked'
    BY <2>1 DEF Unopened, Unpanicked
  <2> QED
    BY <1>0, <2>1, <2>2, <2>3, <2>4 DEF CountInv
<1>3. CASE BeatStep \/ Break \/ Notice \/ UNCHANGED vars
  <2>1. UNCHANGED <<wire, stream, frame, attempt>> /\ (written => written')
    BY <1>3 DEF BeatStep, Beat, BeatOk, BeatFails, BeatStops, StartWrite, Break, Notice, vars
  <2>2. Unopened' = Unopened /\ Unpanicked' = Unpanicked
    BY <2>1 DEF Unopened, Unpanicked
  <2> QED
    BY <1>0, <1>b, <2>1, <2>2 DEF EndInv, StopInv, CountInv
<1>4. CASE Abort \/ CallFails \/ GiveUp \/ RetryLater \/ DelayEnds \/ Succeed \/ Stop \/ Join \/ Return
  <2>1. UNCHANGED <<wire, attempt, written>>
    BY <1>4 DEF Abort, CallFails, GiveUp, RetryLater, DelayEnds, Succeed, Stop, Join, Return
  <2>2. /\ stream' \in {"stop", "failed", "delay", "top", "join", "return", "done"}
        /\ StopStands(wire) => stream' \in {"stop", "join", "return", "done"}
    BY <1>0, <1>4 DEF StopInv, Abort, CallFails, GiveUp, RetryLater, DelayEnds, Succeed, Stop, Join,
                      Return, Leave
  <2>3. ~Unopened' /\ ~Unpanicked'
    BY <2>2 DEF Unopened, Unpanicked
  <2> QED
    BY <1>0, <1>b, <2>1, <2>2, <2>3 DEF EndInv, StopInv, CountInv
<1>5. CASE Call
  <2>1. UNCHANGED <<wire, written>> /\ stream = "top" /\ stream' = "call" /\ attempt' = attempt + 1
    BY <1>5 DEF Call
  <2>2. EndInv' /\ StopInv'
    BY <1>0, <1>b, <2>1 DEF EndInv, StopInv
  <2> QED
    BY <1>0, <1>a, <1>b, <2>1, <2>2 DEF CountInv
<1>6. CASE LineWhenDone \/ OtherLine \/ ReadCancelled \/ WriteFails
  <2>1. /\ UNCHANGED <<wire, attempt, written>> /\ stream = "scan"
        /\ stream' = "scan" \/ (stream' \in {"served", "failed"})
    BY <1>0, <1>6 DEF LineWhenDone, OtherLine, ReadCancelled, WriteFails, ReadLine
  <2>2. ~StopStands(wire)
    BY <1>0, <2>1 DEF StopInv
  <2>3. ~Unopened' /\ Unpanicked
    BY <2>1 DEF Unopened, Unpanicked
  <2> QED
    BY <1>0, <1>b, <2>1, <2>2, <2>3 DEF EndInv, StopInv, CountInv
<1>7. ASSUME NEW kind, NEW next, BeginFrame(kind, next)
      PROVE  /\ stream' = "write" /\ frame'.kind = kind /\ frame'.next = next
             /\ written' /\ UNCHANGED wire
  BY <1>7 DEF BeginFrame, StartWrite
<1>8. CASE CallOk
  <2>1. BeginFrame("init", "scan") /\ stream = "call" /\ UNCHANGED attempt
    BY <1>8 DEF CallOk
  <2>2. /\ stream' = "write" /\ frame'.kind = "init" /\ frame'.next = "scan"
        /\ written' /\ UNCHANGED wire
    BY <1>7, <2>1
  <2>3. Unopened /\ Unpanicked /\ ~StopStands(wire)
    BY <1>0, <2>1 DEF Unopened, Unpanicked, StopInv
  <2> QED
    BY <1>0, <1>b, <2>1, <2>2, <2>3 DEF EndInv, StopInv, CountInv
<1>9. CASE ContentLine \/ EndOfStream \/ ReadFails
  <2>1. PICK kind \in {"chunk", "stop", "error"}, next \in {"scan", "closeOk", "closeErr"} :
          BeginFrame(kind, next)
    BY <1>9 DEF ContentLine, EndOfStream, ReadFails
  <2>2. stream = "scan" /\ UNCHANGED attempt
    BY <1>9 DEF ContentLine, EndOfStream, ReadFails, ReadLine
  <2>3. /\ stream' = "write" /\ frame'.kind = kind /\ frame'.next = next
        /\ written' /\ UNCHANGED wire
    BY <1>7, <2>1
  <2>4. Unpanicked /\ ~Unopened' /\ ~StopStands(wire)
    BY <1>0, <2>2, <2>3 DEF Unopened, Unpanicked, StopInv
  <2> QED
    BY <1>0, <1>b, <2>2, <2>3, <2>4 DEF EndInv, StopInv, CountInv
<1>10. CASE SendDone
  <2>1. /\ BeginFrame("done", AfterDone[stream]) /\ UNCHANGED attempt
        /\ \/ stream = "closeOk" /\ AfterDone[stream] = "served"
           \/ stream = "closeErr" /\ AfterDone[stream] = "failed"
           \/ stream = "closePanic" /\ AfterDone[stream] = "recovered"
    BY <1>10 DEF SendDone, AfterDone
  <2>2. /\ stream' = "write" /\ frame'.kind = "done" /\ frame'.next = AfterDone[stream]
        /\ written' /\ UNCHANGED wire
    BY <1>7, <2>1
  <2>3. EndInv'
    BY <1>0, <1>b, <2>1, <2>2 DEF EndInv
  <2>4. StopInv'
    BY <1>0, <1>b, <2>1, <2>2 DEF StopInv
  <2>5. ~Unopened' /\ (Unpanicked' => Unpanicked)
    BY <2>1, <2>2 DEF Unopened, Unpanicked
  <2> QED
    BY <1>0, <1>b, <2>1, <2>2, <2>3, <2>4, <2>5 DEF CountInv
<1>11. CASE WritePanics
  <2>1. /\ BeginFrame("panic", "closePanic") /\ stream = "write" /\ UNCHANGED attempt
        /\ frame.kind # "panic" /\ frame.next # "recovered"
    BY <1>11 DEF WritePanics
  <2>2. /\ stream' = "write" /\ frame'.kind = "panic" /\ frame'.next = "closePanic"
        /\ written' /\ UNCHANGED wire
    BY <1>7, <2>1
  <2>3. StopStands(wire) => Ending(wire, {"stop"})
    BY <1>0, <2>1 DEF StopInv, EndInv
  <2>4. Unpanicked /\ ~Unopened'
    BY <2>1, <2>2 DEF Unopened, Unpanicked
  <2> QED
    BY <1>0, <1>b, <2>1, <2>2, <2>3, <2>4 DEF EndInv, StopInv, CountInv
<1>12. CASE TooManyErrors
  BY <1>0, <1>12 DEF TooManyErrors
<1> QED
  BY <1>1, <1>2, <1>3, <1>4, <1>5, <1>6, <1>8, <1>9, <1>10, <1>11, <1>12 DEF Next, StreamStep

(* Whatever retries, broken writes, panics and a disconnected client do to it, the   *)
(* sequence of frames a client receives is one SSEProtocol allows: the stream        *)
(* implements the protocol (stream.go:89-123, 187-321, 516-578, chat.go:112).       *)
THEOREM Following == Spec => FollowsProtocol
<1>1. Init => Protocol!Init
  BY DEF Init, Protocol!Init
<1>2. TypeInv /\ HandInv /\ ToldInv /\ ProtocolInv /\ [Next]_vars => [Protocol!Next]_wire
  <2> SUFFICES ASSUME TypeInv, HandInv, ToldInv, ProtocolInv, [Next]_vars, ~UNCHANGED wire
               PROVE  Protocol!Next
    OBVIOUS
  <2>1. ~broken /\ ~broken' /\ (WriteOk \/ ReplyError)
    <3>1. broken => UNCHANGED wire
      <4> SUFFICES ASSUME broken PROVE UNCHANGED wire
        OBVIOUS
      <4> USE DEF output
      <4>1. CASE StreamStep
        BY <4>1 DEF StreamStep, Abort, Call, CallFails, CallOk, GiveUp, RetryLater, DelayEnds,
                    Succeed, LineWhenDone, ContentLine, OtherLine, EndOfStream, ReadCancelled,
                    ReadFails, TooManyErrors, SendDone, WriteOk, WriteFails, WritePanics, Stop,
                    Join, ReplyError, Return, BeginFrame, Arrive
      <4>2. CASE BeatStep \/ Break \/ Notice \/ UNCHANGED vars
        BY <4>2 DEF BeatStep, Beat, BeatOk, BeatFails, BeatStops, Break, Notice, vars
      <4> QED
        BY <4>1, <4>2 DEF Next
    <3>2. ~broken' \/ UNCHANGED wire
      <4>1. CASE Break
        BY <4>1 DEF Break, output
      <4>2. CASE ~Break
        BY <3>1, <4>2 DEF Next, StreamStep, Abort, Call, CallFails, CallOk, GiveUp, RetryLater,
                    DelayEnds, Succeed, LineWhenDone, ContentLine, OtherLine, EndOfStream,
                    ReadCancelled, ReadFails, TooManyErrors, SendDone, WriteOk, WriteFails,
                    WritePanics, Stop, Join, ReplyError, Return, BeatStep, Beat, BeatOk, BeatFails,
                    BeatStops, Notice, vars, context
      <4> QED
        BY <4>1, <4>2
    <3> QED
      BY <3>1, <3>2, WireFacts
  <2>2. /\ EndInv /\ StopInv /\ CountInv
        /\ attempt \in 0..Retry /\ Retry \in Nat /\ wire \in Seq(Kinds)
    BY <2>1, StreamAssumption DEF ProtocolInv, TypeInv, TypeOK
  <2>3. /\ \A kind : Protocol!Count(kind) = Number(wire, kind)
        /\ Protocol!Stopped <=> StopStands(wire)
        /\ \A kinds : Protocol!Ends(kinds) <=> Ending(wire, kinds)
    <3>1. \A kind : Protocol!Count(kind) = Number(wire, kind)
      BY Zenon DEF Protocol!Count, Number, Places, Cardinality, Protocol!Cardinality
    <3>2. Protocol!Stopped <=> StopStands(wire)
      BY Zenon DEF Protocol!Stopped, StopStands
    <3>3. \A kinds : Protocol!Ends(kinds) <=> Ending(wire, kinds)
      BY Zenon DEF Protocol!Ends, Ending
    <3> QED
      BY <3>1, <3>2, <3>3
  <2>4. Number(wire, "init") \in Nat /\ Number(wire, "panic") \in Nat
    BY <2>2, AppendCounts DEF Kinds
  <2>5. stream # "done" => Protocol!Count("json") = 0
    <3> SUFFICES ASSUME stream # "done" PROVE Protocol!Count("json") = 0
      OBVIOUS
    <3>1. Places(wire, "json") = {}
      BY DEF HandInv, Places
    <3> QED
      BY <2>3, <3>1, FS_EmptySet DEF Number
  <2>6. CASE ReplyError
    <3>1. wire = <<>> /\ Protocol!Emit("json")
      BY <2>1, <2>2, <2>6 DEF ReplyError, Arrive, EndInv, Protocol!Emit
    <3> QED
      BY <3>1 DEF Protocol!Next, Protocol!Refuse
  <2>7. CASE WriteOk
    <3>1. stream = "write" /\ Protocol!Emit(frame.kind)
      BY <2>1, <2>7 DEF WriteOk, Arrive, Protocol!Emit
    <3>2. Protocol!Count("json") = 0
      BY <2>5, <3>1
    <3>3. CASE frame.kind = "init"
      <4>1. Number(wire, "init") =< Retry - 1
        BY <2>2, <2>4, <3>1, <3>3 DEF CountInv, Unopened
      <4>2. ~StopStands(wire)
        BY <2>2, <3>1, <3>3 DEF StopInv
      <4> QED
        BY <2>3, <3>1, <3>2, <3>3, <4>1, <4>2 DEF Protocol!Next, Protocol!Open
    <3>4. CASE frame.kind \in {"chunk", "stop", "error"}
      BY <2>2, <2>3, <3>1, <3>4 DEF EndInv, Protocol!Next, Protocol!Delta, Protocol!Finish
    <3>5. CASE frame.kind = "panic"
      <4>1. Number(wire, "panic") =< Retry - 1
        BY <2>2, <2>4, <3>1, <3>5 DEF CountInv, Unpanicked, TypeInv, FrameInv
      <4>2. StopStands(wire) => Ending(wire, {"stop"})
        BY <2>2, <3>1, <3>5 DEF StopInv
      <4> QED
        BY <2>3, <3>1, <3>2, <3>5, <4>1, <4>2 DEF Protocol!Next, Protocol!Panic
    <3>6. CASE frame.kind = "done"
      <4>1. Ending(wire, {"stop", "error", "panic"})
        BY <2>2, <3>1, <3>6 DEF EndInv, TypeInv, FrameInv, Ending
      <4> QED
        BY <2>3, <3>1, <3>6, <4>1 DEF Protocol!Next, Protocol!Close
    <3> QED
      BY <3>1, <3>3, <3>4, <3>5, <3>6 DEF TypeInv, FrameInv
  <2> QED
    BY <2>1, <2>6, <2>7
<1> QED
  BY <1>1, <1>2, InitType, StepType, InitHand, StepHand, InitTold, StepTold, InitProtocol,
     StepProtocol, PTL DEF Spec, FollowsProtocol, Protocol!Spec
-----------------------------------------------------------------------------
(* That a stream ends is a matter of fairness; that it does not go on for ever    *)
(* is not.  Its rank counts what may still happen: the places ahead in this        *)
(* attempt, with two for each line left, the attempts left, the heartbeats left,  *)
(* and the end of the connection.  A frame is behind every frame whose write may   *)
(* turn into it by failing or by a panic.                                    *)
Ahead == [call |-> 2 * MaxLines + 16, tooMany |-> 13, closeOk |-> 11, closeErr |-> 11,
          closePanic |-> 8, failed |-> 6, recovered |-> 6, served |-> 6, delay |-> 5,
          top |-> 4, stop |-> 3, join |-> 2, return |-> 1, done |-> 0]

FrameRank ==
  IF frame.kind \in {"init", "chunk"} THEN 2 * (MaxLines - lines) + 15
  ELSE IF frame.kind \in {"stop", "error"} THEN 12
  ELSE IF frame.kind = "panic" THEN 9
  ELSE IF frame.next = "recovered" THEN 7
  ELSE 10

StreamRank ==
  IF stream = "write" THEN FrameRank
  ELSE IF stream = "scan" THEN 2 * (MaxLines - lines) + 14
  ELSE Ahead[stream]

AttemptsRank == (2 * MaxLines + 14) * (Retry - attempt)

BeatRank ==
  2 * (MaxBeats - beats) + (IF beat = "stopped" THEN 0 ELSE IF beat = "wait" THEN 1 ELSE 2)

EndRank == (IF broken THEN 0 ELSE 1) + (IF ctxDone THEN 0 ELSE 1)

Rank == StreamRank + AttemptsRank + BeatRank + EndRank

LEMMA RankType ==
  ASSUME TypeInv
  PROVE  /\ StreamRank \in Nat /\ AttemptsRank \in Nat /\ BeatRank \in Nat /\ EndRank \in Nat
         /\ MaxLines \in Nat /\ lines \in Nat /\ MaxLines - lines \in Nat
<1>1. MaxLines \in Nat /\ lines \in Nat /\ MaxLines - lines \in Nat
  BY StreamAssumption DEF TypeInv, TypeOK
<1>2. StreamRank \in Nat
  <2>1. CASE stream \in {"write", "scan"}
    BY <1>1, <2>1 DEF StreamRank, FrameRank
  <2>2. CASE stream \notin {"write", "scan"}
    <3>1. stream \in StreamPlaces
      BY DEF TypeInv, TypeOK
    <3>2. Ahead[stream] \in Nat
      BY <1>1, <2>2, <3>1 DEF StreamPlaces, Ahead
    <3> QED
      BY <2>2, <3>2 DEF StreamRank
  <2> QED
    BY <2>1, <2>2
<1>3. AttemptsRank \in Nat
  <2>1. Retry - attempt \in Nat /\ 2 * MaxLines + 14 \in Nat
    BY <1>1, StreamAssumption DEF TypeInv, TypeOK
  <2> QED
    BY <2>1 DEF AttemptsRank
<1>4. BeatRank \in Nat /\ EndRank \in Nat
  BY StreamAssumption DEF TypeInv, TypeOK, BeatRank, EndRank
<1> QED
  BY <1>1, <1>2, <1>3, <1>4

(* A step of the stream within an attempt. *)
LEMMA StreamRankFalls ==
  ASSUME TypeInv, StreamStep, ~Call
  PROVE  StreamRank' \in Int /\ StreamRank' < StreamRank
<1> USE DEF StreamRank, FrameRank, Ahead, reading
<1>0. MaxLines \in Nat /\ lines \in Nat /\ MaxLines - lines \in Nat
  BY RankType
<1>1. CASE Abort \/ GiveUp \/ Succeed
  <2>1. stream \in {"top", "delay", "failed", "recovered", "served"} /\ stream' = "stop"
    BY <1>1 DEF Abort, GiveUp, Succeed, Leave
  <2> QED
    BY <2>1
<1>2. CASE RetryLater \/ DelayEnds
  <2>1. \/ stream \in {"failed", "recovered"} /\ stream' = "delay"
        \/ stream = "delay" /\ stream' = "top"
    BY <1>2 DEF RetryLater, DelayEnds
  <2> QED
    BY <2>1
<1>3. CASE CallFails \/ CallOk
  <2>1. /\ stream = "call"
        /\ \/ stream' = "failed"
           \/ stream' = "write" /\ frame'.kind = "init" /\ lines' = 0
    BY <1>3 DEF CallFails, CallOk, BeginFrame
  <2> QED
    BY <1>0, <2>1
<1>4. CASE LineWhenDone \/ OtherLine \/ ContentLine
  <2>1. /\ stream = "scan" /\ lines < MaxLines /\ lines' = lines + 1
        /\ \/ stream' \in {"served", "scan"}
           \/ stream' = "write" /\ frame'.kind = "chunk"
    BY <1>4 DEF LineWhenDone, OtherLine, ContentLine, ReadLine, BeginFrame
  <2> QED
    BY <1>0, <2>1
<1>5. CASE EndOfStream \/ ReadFails \/ ReadCancelled \/ TooManyErrors
  <2>1. /\ stream \in {"scan", "tooMany"}
        /\ \/ stream' = "failed"
           \/ stream' = "write" /\ frame'.kind \in {"stop", "error"}
    BY <1>5 DEF EndOfStream, ReadFails, ReadCancelled, TooManyErrors, BeginFrame
  <2> QED
    BY <1>0, <2>1
<1>6. CASE SendDone
  <2>1. /\ \/ stream \in {"closeOk", "closeErr"}
           \/ stream = "closePanic" /\ frame'.next = "recovered"
        /\ stream' = "write" /\ frame'.kind = "done"
    BY <1>6 DEF SendDone, AfterDone, BeginFrame
  <2> QED
    BY <2>1
<1>7. CASE WriteOk
  <2>1. stream = "write" /\ stream' = frame.next /\ lines' = lines
    BY <1>7 DEF WriteOk
  <2>2. \/ frame.kind \in {"init", "chunk"} /\ frame.next = "scan"
        \/ frame.kind = "stop"  /\ frame.next = "closeOk"
        \/ frame.kind = "error" /\ frame.next = "closeErr"
        \/ frame.kind = "panic" /\ frame.next = "closePanic"
        \/ frame.kind = "done"  /\ frame.next \in {"served", "failed", "recovered"}
    BY <2>1 DEF TypeInv, FrameInv
  <2> QED
    BY <1>0, <2>1, <2>2
<1>8. CASE WriteFails
  <2>1. stream = "write" /\ lines' = lines
    BY <1>8 DEF WriteFails
  <2>2. \/ frame.kind = "chunk" /\ stream' \in {"tooMany", "scan"}
        \/ frame.kind = "error" /\ stream' = "closeErr"
        \/ frame.kind = "panic" /\ stream' = "closePanic"
        \/ frame.kind \notin {"chunk", "error", "panic"} /\ stream' = "failed"
    <3>1. CASE frame.kind = "chunk"
      BY <1>8, <3>1 DEF WriteFails
    <3>2. CASE frame.kind = "error"
      BY <1>8, <3>2 DEF WriteFails
    <3>3. CASE frame.kind = "panic"
      BY <1>8, <3>3 DEF WriteFails
    <3>4. CASE frame.kind \notin {"chunk", "error", "panic"}
      BY <1>8, <3>4 DEF WriteFails
    <3> QED
      BY <3>1, <3>2, <3>3, <3>4
  <2> QED
    BY <1>0, <2>1, <2>2
<1>9. CASE WritePanics
  <2>1. /\ stream = "write" /\ frame.kind # "panic" /\ frame.next # "recovered"
        /\ stream' = "write" /\ frame'.kind = "panic"
    BY <1>9 DEF WritePanics, BeginFrame
  <2> QED
    BY <1>0, <2>1
<1>10. CASE Stop \/ Join \/ ReplyError \/ Return
  <2>1. \/ stream = "stop" /\ stream' = "join"
        \/ stream = "join" /\ stream' = "return"
        \/ stream = "return" /\ stream' = "done"
    BY <1>10 DEF Stop, Join, ReplyError, Return
  <2> QED
    BY <2>1
<1> QED
  BY <1>1, <1>2, <1>3, <1>4, <1>5, <1>6, <1>7, <1>8, <1>9, <1>10 DEF StreamStep

(* Sums fall when a part of them does. *)
LEMMA TradeFalls ==
  ASSUME NEW a \in Int, NEW b \in Int, NEW aa \in Int, NEW bb \in Int, aa - a < b - bb
  PROVE  aa + bb < a + b
OBVIOUS

LEMMA SumFalls ==
  ASSUME NEW a \in Int, NEW b \in Int, NEW c \in Int, NEW d \in Int,
         NEW aa \in Int, NEW bb \in Int, NEW cc \in Int, NEW dd \in Int,
         aa + bb =< a + b, cc + dd =< c + d, aa + bb < a + b \/ cc + dd < c + d
  PROVE  aa + bb + cc + dd < a + b + c + d
OBVIOUS

LEMMA SumStays ==
  ASSUME NEW a \in Int, NEW b \in Int, a < b
  PROVE  a =< b
OBVIOUS

(* An attempt has fewer places ahead than the attempts left lose by it. *)
LEMMA CallFalls ==
  ASSUME TypeInv, Call
  PROVE  /\ StreamRank' \in Int /\ AttemptsRank' \in Int
         /\ StreamRank' + AttemptsRank' < StreamRank + AttemptsRank
<1>1. /\ MaxLines \in Nat /\ Retry \in Nat /\ attempt \in Nat /\ attempt' = attempt + 1
      /\ stream = "top" /\ stream' = "call"
  BY StreamAssumption DEF TypeInv, TypeOK, Call
<1>2. StreamRank = 4 /\ StreamRank' = 2 * MaxLines + 16
  BY <1>1 DEF StreamRank, Ahead
<1>3. AttemptsRank \in Int /\ AttemptsRank' \in Int /\ AttemptsRank = AttemptsRank' + (2 * MaxLines + 14)
  <2> DEFINE w == 2 * MaxLines + 14
             m == Retry - (attempt + 1)
  <2>1. w \in Int /\ m \in Int /\ Retry - attempt = m + 1 /\ Retry - attempt' = m
    BY <1>1
  <2>2. w * (m + 1) = w * m + w /\ w * m \in Int
    <3> HIDE DEF w, m
    <3> QED
      BY <2>1
  <2>3. AttemptsRank = w * (Retry - attempt) /\ AttemptsRank' = w * (Retry - attempt')
    BY DEF AttemptsRank
  <2>4. AttemptsRank = w * m + w /\ AttemptsRank' = w * m
    <3> HIDE DEF w, m
    <3> QED
      BY <2>1, <2>2, <2>3
  <2> QED
    <3>1. w = 2 * MaxLines + 14
      OBVIOUS
    <3> HIDE DEF w, m
    <3> QED
      BY <1>1, <2>1, <2>2, <2>4, <3>1
<1>4. StreamRank' \in Int /\ StreamRank \in Int /\ StreamRank' - StreamRank = 2 * MaxLines + 12
  BY <1>1, <1>2
<1>5. AttemptsRank - AttemptsRank' = 2 * MaxLines + 14
  <2>1. \A m, w \in Int : (m + w) - m = w
    OBVIOUS
  <2>2. 2 * MaxLines + 14 \in Int
    BY <1>1
  <2> QED
    BY <1>3, <2>1, <2>2, Zenon
<1>6. StreamRank' - StreamRank < AttemptsRank - AttemptsRank'
  <2>1. 2 * MaxLines + 12 < 2 * MaxLines + 14
    BY <1>1
  <2> QED
    BY <1>4, <1>5, <2>1, Zenon
<1> QED
  BY <1>3, <1>4, <1>6, TradeFalls, Zenon

LEMMA StreamDescends == TypeInv /\ StreamStep => Rank' < Rank
<1> SUFFICES ASSUME TypeInv, StreamStep PROVE Rank' < Rank
  OBVIOUS
<1>1. StreamRank \in Nat /\ AttemptsRank \in Nat /\ BeatRank \in Nat /\ EndRank \in Nat
  BY RankType
<1>2. UNCHANGED <<beat, beats, broken, ctxDone>>
  BY DEF StreamStep, Abort, Call, CallFails, CallOk, GiveUp, RetryLater, DelayEnds, Succeed,
         LineWhenDone, ContentLine, OtherLine, EndOfStream, ReadCancelled, ReadFails, TooManyErrors,
         SendDone, WriteOk, WriteFails, WritePanics, Stop, Join, ReplyError, Return, beating, context
<1>3. BeatRank' = BeatRank /\ EndRank' = EndRank
  BY <1>2 DEF BeatRank, EndRank
<1>4. /\ StreamRank' \in Int /\ AttemptsRank' \in Int
      /\ StreamRank' + AttemptsRank' < StreamRank + AttemptsRank
  <2>1. CASE Call
    BY <2>1, CallFalls
  <2>2. CASE ~Call
    <3>1. UNCHANGED attempt
      BY <2>2
         DEF StreamStep, Abort, CallFails, CallOk, GiveUp, RetryLater, DelayEnds, Succeed,
             LineWhenDone, ContentLine, OtherLine, EndOfStream, ReadCancelled, ReadFails,
             TooManyErrors, SendDone, WriteOk, WriteFails, WritePanics, Stop, Join, ReplyError, Return
    <3>2. AttemptsRank' = AttemptsRank
      BY <3>1 DEF AttemptsRank
    <3>3. StreamRank' \in Int /\ StreamRank' < StreamRank
      BY <2>2, StreamRankFalls
    <3>4. AttemptsRank' \in Int /\ StreamRank \in Int /\ AttemptsRank \in Int
      BY <1>1, <3>2
    <3>5. StreamRank' - StreamRank < AttemptsRank - AttemptsRank'
      <4>1. StreamRank' - StreamRank < 0
        <5>1. \A k, m \in Int : k < m => k - m < 0
          OBVIOUS
        <5> QED
          BY <3>3, <3>4, <5>1, Zenon
      <4>2. AttemptsRank - AttemptsRank' = 0
        BY <3>2, <3>4
      <4> QED
        BY <4>1, <4>2, Zenon
    <3> QED
      BY <3>3, <3>4, <3>5, TradeFalls, Zenon
  <2> QED
    BY <2>1, <2>2
<1>5. StreamRank' + AttemptsRank' =< StreamRank + AttemptsRank
  <2>1. StreamRank \in Int /\ AttemptsRank \in Int
    BY <1>1
  <2>2. StreamRank' + AttemptsRank' \in Int /\ StreamRank + AttemptsRank \in Int
    BY <1>4, <2>1
  <2> QED
    BY <1>4, <2>2, SumStays, Zenon
<1>6. /\ BeatRank' \in Int /\ EndRank' \in Int
      /\ BeatRank' + EndRank' =< BeatRank + EndRank
  BY <1>1, <1>3
<1>7. StreamRank \in Int /\ AttemptsRank \in Int /\ BeatRank \in Int /\ EndRank \in Int
  BY <1>1
<1> QED
  BY <1>4, <1>5, <1>6, <1>7, SumFalls, Zenon DEF Rank

LEMMA OthersDescend == TypeInv /\ (BeatStep \/ Break \/ Notice) => Rank' < Rank
<1> SUFFICES ASSUME TypeInv, BeatStep \/ Break \/ Notice PROVE Rank' < Rank
  OBVIOUS
<1> USE DEF reading, beating, output, context
<1>1. StreamRank \in Nat /\ AttemptsRank \in Nat /\ BeatRank \in Nat /\ EndRank \in Nat
  BY RankType
<1>2. StreamRank' = StreamRank /\ AttemptsRank' = AttemptsRank
  <2>1. UNCHANGED <<stream, attempt, frame, lines>>
    BY DEF BeatStep, Beat, BeatOk, BeatFails, BeatStops, Break, Notice
  <2> QED
    BY <2>1 DEF StreamRank, FrameRank, AttemptsRank
<1>3. /\ BeatRank' \in Int /\ EndRank' \in Int
      /\ BeatRank' - BeatRank < EndRank - EndRank'
  <2>1. CASE BeatStep
    <3>1. BeatRank' \in Int /\ BeatRank' - BeatRank < 0
      <4>1. MaxBeats \in Nat /\ beats \in 0..MaxBeats
        BY StreamAssumption DEF TypeInv, TypeOK
      <4> QED
        BY <2>1, <4>1 DEF BeatStep, Beat, BeatOk, BeatFails, BeatStops, BeatRank
    <3>2. EndRank' \in Int /\ EndRank - EndRank' = 0
      BY <1>1, <2>1 DEF BeatStep, Beat, BeatOk, BeatFails, BeatStops, EndRank
    <3> QED
      BY <3>1, <3>2, Zenon
  <2>2. CASE Break \/ Notice
    <3>1. BeatRank' \in Int /\ BeatRank' - BeatRank = 0
      BY <1>1, <2>2 DEF Break, Notice, BeatRank
    <3>2. EndRank' \in Int /\ 0 < EndRank - EndRank'
      BY <2>2 DEF Break, Notice, EndRank, TypeInv, TypeOK
    <3> QED
      BY <3>1, <3>2, Zenon
  <2> QED
    BY <2>1, <2>2
<1>4. StreamRank \in Int /\ AttemptsRank \in Int /\ BeatRank \in Int /\ EndRank \in Int
  BY <1>1
<1>5. BeatRank' + EndRank' < BeatRank + EndRank
  BY <1>3, <1>4, TradeFalls, Zenon
<1>6. BeatRank' + EndRank' =< BeatRank + EndRank
  <2>1. BeatRank' + EndRank' \in Int /\ BeatRank + EndRank \in Int
    BY <1>3, <1>4
  <2> QED
    BY <1>5, <2>1, SumStays, Zenon
<1>7. /\ StreamRank' \in Int /\ AttemptsRank' \in Int
      /\ StreamRank' + AttemptsRank' =< StreamRank + AttemptsRank
  BY <1>2, <1>4
<1> QED
  BY <1>3, <1>4, <1>5, <1>6, <1>7, SumFalls, Zenon DEF Rank

(* Every step lowers the rank: with responses of at most MaxLines lines and at     *)
(* most MaxBeats heartbeats a stream makes no more steps than its rank at the      *)
(* start.  No failed write, recovered panic, broken connection or retry leads      *)
(* back to where the stream was (stream.go:89-123, 187-321).                   *)
THEOREM Descending ==
  Spec => /\ Rank = (2 * MaxLines + 14) * Retry + 2 * MaxBeats + 7
          /\ [](Rank \in Nat)
          /\ [][Rank' < Rank]_vars
<1>1. Init => Rank = (2 * MaxLines + 14) * Retry + 2 * MaxBeats + 7
  <2>1. (2 * MaxLines + 14) * Retry \in Nat /\ Retry - 0 = Retry /\ MaxBeats \in Nat
    BY StreamAssumption
  <2> QED
    BY <2>1 DEF Init, Rank, StreamRank, Ahead, AttemptsRank, BeatRank, EndRank
<1>2. TypeInv => Rank \in Nat
  BY RankType DEF Rank
<1>3. TypeInv /\ [Next]_vars => [Rank' < Rank]_vars
  BY StreamDescends, OthersDescend DEF Next
<1> QED
  BY <1>1, <1>2, <1>3, InitType, StepType, PTL DEF Spec
-----------------------------------------------------------------------------
(* What the streams share: lastFlushTime, for any number of streams, any      *)
(* intervals and any clock.                                                  *)

(* The ticker of a live stream is never overdue nor further ahead than one      *)
(* interval; what its writer holds was written since the last beat, and a       *)
(* stream that is over holds nothing.                                        *)
BeatIsDue(s) ==
  /\ place[s] = "none" => held[s] = None
  /\ place[s] # "none" => /\ clock =< due[s] /\ due[s] =< clock + Heartbeat
                          /\ held[s] # None => due[s] - Heartbeat =< held[s]

(* No goroutine is ahead of the clock, and what it is about to store in        *)
(* lastFlushTime it took no later than the last flush.                       *)
StampIsBacked(s) ==
  /\ now[s] =< clock
  /\ place[s] = "stamp" => flushed # None /\ now[s] =< flushed

FlushInv ==
  /\ ThrottleTypeOK
  /\ \A s \in Streams : BeatIsDue(s) /\ StampIsBacked(s)
  /\ lastFlushTime # None => flushed # None /\ lastFlushTime =< flushed

LEMMA InitFlush == ThrottleInit => FlushInv
BY FlushAssumption DEF ThrottleInit, FlushInv, ThrottleTypeOK, Times, BeatIsDue, StampIsBacked

(* Every step of a stream, of a ticker and of the clock keeps the invariant. *)
LEMMA StepFlush == FlushInv /\ [ThrottleNext]_throttleVars => FlushInv'
<1> SUFFICES ASSUME FlushInv, [ThrottleNext]_throttleVars PROVE FlushInv'
  OBVIOUS
<1> USE FlushAssumption DEF FlushInv, ThrottleTypeOK, Times, BeatIsDue, StampIsBacked
<1>1. ASSUME NEW s \in Streams, Start(s) PROVE FlushInv'
  BY <1>1 DEF Start, Goto
<1>2. ASSUME NEW s \in Streams, Write(s) PROVE FlushInv'
  <2>1. PICK oldest \in {clock, None} \cup ({held[s]} \ {None}) :
          held' = [held EXCEPT ![s] = oldest]
    BY <1>2 DEF Write
  <2>2. /\ place' = [place EXCEPT ![s] = "check"] /\ place[s] = "idle"
        /\ now' = [now EXCEPT ![s] = clock]
        /\ UNCHANGED <<clock, lastFlushTime, due, flushed>>
    BY <1>2 DEF Write, Goto
  <2>3. ThrottleTypeOK'
    BY <2>1, <2>2
  <2>4. ASSUME NEW t \in Streams PROVE BeatIsDue(t)' /\ StampIsBacked(t)'
    BY <2>1, <2>2
  <2> QED
    BY <2>2, <2>3, <2>4
<1>3. ASSUME NEW s \in Streams, Pass(s) \/ Hold(s) PROVE FlushInv'
  BY <1>3 DEF Pass, Hold, Goto
<1>4. ASSUME NEW s \in Streams, Frame(s) \/ End(s) PROVE FlushInv'
  BY <1>4 DEF Frame, End, Goto, Empty
<1>5. ASSUME NEW s \in Streams, Stamp(s) PROVE FlushInv'
  BY <1>5 DEF Stamp, Goto
<1>6. ASSUME NEW s \in Streams, FlushBeat(s) PROVE FlushInv'
  BY <1>6 DEF FlushBeat, Empty
<1>7. CASE Tick
  BY <1>7 DEF Tick
<1>8. CASE UNCHANGED throttleVars
  BY <1>8 DEF throttleVars
<1>9. ASSUME NEW s \in Streams, Flush(s) PROVE FlushInv'
  <2>1. /\ place[s] = "flush" /\ place' = [place EXCEPT ![s] = "stamp"]
        /\ held' = [held EXCEPT ![s] = None] /\ flushed' = clock
        /\ UNCHANGED <<clock, lastFlushTime, now, due>>
    BY <1>9 DEF Flush, Goto, Empty
  <2>2. ThrottleTypeOK'
    BY <2>1
  <2>3. ASSUME NEW t \in Streams PROVE BeatIsDue(t)' /\ StampIsBacked(t)'
    BY <2>1
  <2> QED
    BY <2>1, <2>2, <2>3
<1> QED
  BY <1>1, <1>2, <1>3, <1>4, <1>5, <1>6, <1>7, <1>8, <1>9 DEF ThrottleNext

(* Every state is well typed; in particular no ticker is ever more than one      *)
(* interval past the last tick (stream.go:73-80).                            *)
THEOREM ThrottleTyping == ThrottleSpec => []ThrottleTypeOK
<1>1. FlushInv => ThrottleTypeOK
  BY DEF FlushInv
<1> QED
  BY <1>1, InitFlush, StepFlush, PTL DEF ThrottleSpec

(* However many streams share lastFlushTime, and whatever a racing read of it    *)
(* yields, no chunk waits longer than one heartbeat interval                    *)
(* (stream.go:73-80, 435-440).                                               *)
THEOREM Waiting == ThrottleSpec => []ChunksWaitAtMostABeat
<1>1. FlushInv => ChunksWaitAtMostABeat
  BY FlushAssumption DEF FlushInv, ThrottleTypeOK, Times, BeatIsDue, ChunksWaitAtMostABeat
<1> QED
  BY <1>1, InitFlush, StepFlush, PTL DEF ThrottleSpec

(* However many streams share lastFlushTime: a chunk is held back only if one    *)
(* was flushed at most the minimal interval before it was written, unless a      *)
(* torn read is to blame (stream.go:435-440).                                *)
THEOREM Holding == ThrottleSpec => HoldsFollowFlush
<1>1. ASSUME FlushInv, [ThrottleNext]_throttleVars, NEW s \in Streams,
             place[s] = "check", place'[s] = "idle"
      PROVE  Torn \/ (flushed # None /\ now[s] - flushed =< MinFlush)
  <2>1. CASE Hold(s)
    <3>1. CASE ~LongAgo(s)
      <4>1. lastFlushTime # None /\ now[s] - lastFlushTime =< MinFlush
        BY <1>1, <3>1, FlushAssumption DEF LongAgo, FlushInv, ThrottleTypeOK, Times
      <4> QED
        BY <1>1, <4>1, FlushAssumption DEF FlushInv, ThrottleTypeOK, Times
    <3> QED
      BY <2>1, <3>1 DEF Hold
  <2>2. CASE ~Hold(s)
    BY <1>1, <2>2 DEF ThrottleNext, Start, Write, Pass, Flush, Stamp, Frame, End, FlushBeat,
      Tick, Goto, throttleVars, FlushInv, ThrottleTypeOK, Hold
  <2> QED
    BY <2>1, <2>2
<1>2. FlushInv /\ [ThrottleNext]_throttleVars =>
        [\A s \in Streams : place[s] = "check" /\ place'[s] = "idle" =>
           Torn \/ (flushed # None /\ now[s] - flushed =< MinFlush)]_throttleVars
  BY <1>1
<1> QED
  BY <1>2, InitFlush, StepFlush, PTL DEF ThrottleSpec, HoldsFollowFlush
=============================================================================
