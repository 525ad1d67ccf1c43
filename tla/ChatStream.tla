----------------------------- MODULE ChatStream -----------------------------
(***************************************************************************)
(* Streaming chat completions (service/stream.go): the goroutine of the     *)
(* handler that calls the backend, retries, and turns the backend's lines   *)
(* into SSE frames, and the heartbeat goroutine, which writes to the same   *)
(* ResponseWriter without a lock.  The client may disconnect at any time;    *)
(* the server notices later, and cancels the request's context.             *)
(*                                                                          *)
(* A write is two steps, its begin and its end, so that the two goroutines  *)
(* can write at once.  That is a data race on the writer's buffer: the bytes  *)
(* of the two may mix (a frame stands for what arrives of it), or a write     *)
(* panics.  Left out are a panic of the heartbeat's write, which ends the      *)
(* process, and one of the frames that report a panic.                       *)
(***************************************************************************)
EXTENDS Integers, Sequences, SequencesExt

CONSTANTS Retry,     \* config.Client.Retry
          MaxErrors, \* maxErrors, consecutive errors tolerated (5 in the code)
          MaxLines,  \* bound on the lines of one backend response
          MaxBeats   \* bound on the heartbeats

ASSUME StreamAssumption ==
  /\ Retry \in Nat \ {0}
  /\ MaxErrors \in Nat \ {0}
  /\ MaxLines \in Nat
  /\ MaxBeats \in Nat

VARIABLES
  stream,    \* place of the handler's goroutine
  attempt,   \* attempts begun
  frame,     \* the frame it is writing, and where it goes then
  errCount,  \* consecutive errors of processResponseStream
  lines,     \* lines read in this attempt
  outcome,   \* what executeStreamRequest returned
  beat,      \* place of the heartbeat goroutine
  beats,     \* heartbeats begun
  raced,     \* the writers whose current write overlaps the other's
  wire,      \* the kinds of the frames the client received, but for heartbeats
  written,   \* c.Writer.Written()
  broken,    \* the connection is broken: writes fail or vanish
  ctxDone,   \* the request's context is cancelled
  cancelled  \* cancel() was called

reading == <<errCount, lines>>
beating == <<beat, beats>>
output  == <<raced, wire, written>>
context == <<broken, ctxDone, cancelled>>
vars == <<stream, attempt, frame, errCount, lines, outcome, beat, beats, raced,
          wire, written, broken, ctxDone, cancelled>>

NoFrame == [kind |-> "none", next |-> "none"]

Done == ctxDone \/ cancelled

Init ==
  /\ stream = "top" /\ attempt = 0 /\ frame = NoFrame
  /\ errCount = 0 /\ lines = 0 /\ outcome = "none"
  /\ beat = "wait" /\ beats = 0
  /\ raced = {} /\ wire = <<>> /\ written = FALSE
  /\ broken = FALSE /\ ctxDone = FALSE /\ cancelled = FALSE

(* A write begins: the header is out, and two writes at once race.           *)
StartWrite(writer, otherWrites) ==
  /\ written' = TRUE
  /\ raced' = IF otherWrites THEN {"stream", "beat"} ELSE raced \ {writer}

(* The client gets the frame of a finished write, unless the connection broke. *)
Arrive(kind) == wire' = IF broken THEN wire ELSE Append(wire, kind)

BeginFrame(kind, next) ==
  /\ stream' = "write"
  /\ frame' = [kind |-> kind, next |-> next]
  /\ StartWrite("stream", beat = "write")
  /\ UNCHANGED wire
-----------------------------------------------------------------------------
(* executeStreamRequest *)

Leave(how) == stream' = "stop" /\ outcome' = how

(* Top of the loop, or the delay before a retry: the context is done. *)
Abort ==
  /\ stream \in {"top", "delay"} /\ Done
  /\ Leave("err")
  /\ UNCHANGED <<attempt, frame, reading, beating, output, context>>

Call ==
  /\ stream = "top" /\ ~Done
  /\ stream' = "call" /\ attempt' = attempt + 1
  /\ UNCHANGED <<frame, reading, outcome, beating, output, context>>

(* processStreamResponse fails before the stream: no response, no body, or a *)
(* status other than 200.                                                    *)
CallFails ==
  /\ stream = "call" /\ stream' = "failed"
  /\ UNCHANGED <<attempt, frame, reading, outcome, beating, output, context>>

(* The backend answers 200: processResponseStream opens with the initial message. *)
CallOk ==
  /\ stream = "call"
  /\ errCount' = 0 /\ lines' = 0
  /\ BeginFrame("init", "scan")
  /\ UNCHANGED <<attempt, outcome, beating, context>>

GiveUp ==
  /\ stream \in {"failed", "recovered"} /\ attempt = Retry
  /\ Leave("err")
  /\ UNCHANGED <<attempt, frame, reading, beating, output, context>>

(* Fault: one retry too many. *)
RetryOffByOne ==
  /\ stream = "failed" /\ attempt =< Retry
  /\ stream' = "delay"
  /\ UNCHANGED <<attempt, frame, reading, outcome, beating, output, context>>

RetryLater ==
  /\ stream \in {"failed", "recovered"} /\ attempt < Retry
  /\ stream' = "delay"
  /\ UNCHANGED <<attempt, frame, reading, outcome, beating, output, context>>

DelayEnds ==
  /\ stream = "delay" /\ stream' = "top"
  /\ UNCHANGED <<attempt, frame, reading, outcome, beating, output, context>>

(* processResponseStream returned nil. *)
Succeed ==
  /\ stream = "served"
  /\ Leave("ok")
  /\ UNCHANGED <<attempt, frame, reading, beating, output, context>>
-----------------------------------------------------------------------------
(* The scan loop of processResponseStream *)

ReadLine == stream = "scan" /\ lines < MaxLines /\ lines' = lines + 1

(* The context is found done after a line was read: the stream just ends. *)
LineWhenDone ==
  /\ ReadLine /\ Done
  /\ stream' = "served"
  /\ UNCHANGED <<attempt, frame, errCount, outcome, beating, output, context>>

(* A "g:" or "0:" line becomes a content chunk. *)
ContentLine ==
  /\ ReadLine /\ ~Done
  /\ BeginFrame("chunk", "scan")
  /\ UNCHANGED <<attempt, errCount, outcome, beating, context>>

(* A "d:" line, or one of a kind that is skipped. *)
OtherLine ==
  /\ ReadLine /\ ~Done
  /\ errCount' = 0
  /\ UNCHANGED <<stream, attempt, frame, outcome, beating, output, context>>

EndOfStream ==
  /\ stream = "scan"
  /\ BeginFrame("stop", "closeOk")
  /\ UNCHANGED <<attempt, reading, outcome, beating, context>>

(* The read is interrupted because the context was cancelled. *)
ReadCancelled ==
  /\ stream = "scan" /\ Done
  /\ stream' = "failed"
  /\ UNCHANGED <<attempt, frame, reading, outcome, beating, output, context>>

(* Fault: any error of the scanner ends the attempt silently. *)
ReadFailsSilently ==
  /\ stream = "scan"
  /\ stream' = "failed"
  /\ UNCHANGED <<attempt, frame, reading, outcome, beating, output, context>>

(* Fault: the error chunk of a failed read is sent without [DONE] and the     *)
(* final message follows it.                                                 *)
ReadFailsThenStops ==
  /\ stream = "scan"
  /\ BeginFrame("error", "scan")
  /\ UNCHANGED <<attempt, reading, outcome, beating, context>>

(* Any other error of the scanner (a reset connection, a line over the limit): *)
(* sendErrorFinishSSE.                                                       *)
ReadFails ==
  /\ stream = "scan"
  /\ BeginFrame("error", "closeErr")
  /\ UNCHANGED <<attempt, reading, outcome, beating, context>>

(* maxErrors lines in a row could not be written. *)
TooManyErrors ==
  /\ stream = "tooMany"
  /\ BeginFrame("error", "closeErr")
  /\ UNCHANGED <<attempt, reading, outcome, beating, context>>

AfterDone == [closeOk |-> "served", closeErr |-> "failed", closePanic |-> "recovered"]

(* [DONE] follows the finishing chunk; after an error the attempt has failed. *)
SendDone ==
  /\ stream \in DOMAIN AfterDone
  /\ BeginFrame("done", AfterDone[stream])
  /\ UNCHANGED <<attempt, reading, outcome, beating, context>>
-----------------------------------------------------------------------------
(* The end of a write of the stream *)

WriteOk ==
  /\ stream = "write"
  /\ Arrive(frame.kind)
  /\ stream' = frame.next /\ frame' = NoFrame
  /\ errCount' = IF frame.kind = "chunk" THEN 0 ELSE errCount
  /\ UNCHANGED <<attempt, lines, outcome, beating, raced, written, context>>

(* A write into a broken connection reports an error.  Only the writes of an  *)
(* error or panic chunk and of the [DONE] after it ignore it.                 *)
WriteFails ==
  /\ stream = "write" /\ broken
  /\ frame' = NoFrame
  /\ IF frame.kind = "chunk"
       THEN /\ errCount' = errCount + 1
            /\ stream' = IF errCount' >= MaxErrors THEN "tooMany" ELSE "scan"
       ELSE /\ stream' = CASE frame.kind = "error" -> "closeErr"
                           [] frame.kind = "panic" -> "closePanic"
                           [] OTHER -> "failed"
            /\ UNCHANGED errCount
  /\ UNCHANGED <<attempt, lines, outcome, beating, output, context>>

(* Fault: the panic chunk is not followed by [DONE]. *)
WritePanicsSilently ==
  /\ stream = "write" /\ "stream" \in raced
  /\ frame.kind # "panic" /\ frame.next # "recovered"
  /\ BeginFrame("panic", "recovered")
  /\ UNCHANGED <<attempt, reading, outcome, beating, context>>

(* A racing write finds the buffer's indices out of bounds.  The deferred       *)
(* function of processResponseStream recovers and sends an error chunk        *)
(* (sendPanicErrorSSE); the attempt has failed.                              *)
WritePanics ==
  /\ stream = "write" /\ "stream" \in raced
  /\ frame.kind # "panic" /\ frame.next # "recovered"
  /\ BeginFrame("panic", "closePanic")
  /\ UNCHANGED <<attempt, reading, outcome, beating, context>>
-----------------------------------------------------------------------------
(* startHeartbeat *)

Beat ==
  /\ beat = "wait" /\ beats < MaxBeats
  /\ beat' = "write" /\ beats' = beats + 1
  /\ StartWrite("beat", stream = "write")
  /\ UNCHANGED <<stream, attempt, frame, reading, outcome, wire, context>>

BeatOk ==
  /\ beat = "write" /\ beat' = "wait"
  /\ UNCHANGED <<stream, attempt, frame, reading, outcome, beats, output, context>>

BeatFails ==
  /\ beat = "write" /\ broken /\ beat' = "stopped"
  /\ UNCHANGED <<stream, attempt, frame, reading, outcome, beats, output, context>>

BeatStops ==
  /\ beat = "wait" /\ Done /\ beat' = "stopped"
  /\ UNCHANGED <<stream, attempt, frame, reading, outcome, beats, output, context>>
-----------------------------------------------------------------------------
(* The end of doChatRequestAsync, and handleStreamRequest *)

(* Fault: cancel() is left out. *)
StopWithoutCancel ==
  /\ stream = "stop" /\ stream' = "join"
  /\ UNCHANGED <<attempt, frame, reading, outcome, beating, output, context>>

Stop ==
  /\ stream = "stop" /\ stream' = "join"
  /\ cancelled' = TRUE
  /\ UNCHANGED <<attempt, frame, reading, outcome, beating, output, broken, ctxDone>>

(* Fault: wg.Wait() is left out. *)
JoinAtOnce ==
  /\ stream = "join"
  /\ stream' = "return"
  /\ UNCHANGED <<attempt, frame, reading, outcome, beating, output, context>>

Join ==
  /\ stream = "join" /\ beat = "stopped"
  /\ stream' = "return"
  /\ UNCHANGED <<attempt, frame, reading, outcome, beating, output, context>>

(* Nothing was written yet: the client gets a JSON error. *)
ReplyError ==
  /\ stream = "return" /\ outcome = "err" /\ ~written
  /\ stream' = "done"
  /\ written' = TRUE
  /\ Arrive("json")
  /\ UNCHANGED <<attempt, frame, reading, outcome, beating, raced, context>>

Return ==
  /\ stream = "return" /\ (outcome = "ok" \/ written)
  /\ stream' = "done"
  /\ UNCHANGED <<attempt, frame, reading, outcome, beating, output, context>>
-----------------------------------------------------------------------------
(* The client, and net/http *)

(* The client goes away, or the server's WriteTimeout passes. *)
Break ==
  /\ stream # "done" /\ ~broken /\ broken' = TRUE
  /\ UNCHANGED <<stream, attempt, frame, reading, outcome, beating, output,
                 ctxDone, cancelled>>

Notice ==
  /\ stream # "done" /\ broken /\ ~ctxDone /\ ctxDone' = TRUE
  /\ UNCHANGED <<stream, attempt, frame, reading, outcome, beating, output,
                 broken, cancelled>>

StreamStep ==
  \/ Abort \/ Call \/ CallFails \/ CallOk \/ GiveUp \/ RetryLater \/ DelayEnds
  \/ Succeed \/ LineWhenDone \/ ContentLine \/ OtherLine \/ EndOfStream
  \/ ReadCancelled \/ ReadFails \/ TooManyErrors \/ SendDone
  \/ WriteOk \/ WriteFails \/ WritePanics \/ Stop \/ Join \/ ReplyError \/ Return

BeatStep == Beat \/ BeatOk \/ BeatFails \/ BeatStops

Next == StreamStep \/ BeatStep \/ Break \/ Notice

(* Both goroutines run when they can; the backend's response ends, for the    *)
(* HTTP client's timeout covers its body too.                                *)
Spec == Init /\ [][Next]_vars /\ WF_vars(StreamStep) /\ WF_vars(BeatStep)
-----------------------------------------------------------------------------
StreamPlaces == {"top", "call", "write", "scan", "tooMany", "closeOk", "closeErr",
                 "closePanic", "failed", "recovered", "served", "delay", "stop", "join", "return", "done"}
Kinds == {"init", "chunk", "stop", "error", "panic", "done", "json"}

TypeOK ==
  /\ stream \in StreamPlaces
  /\ attempt \in 0..Retry
  /\ frame = NoFrame \/ frame \in [kind : Kinds, next : StreamPlaces]
  /\ errCount \in 0..MaxErrors
  /\ lines \in 0..MaxLines
  /\ outcome \in {"none", "ok", "err"}
  /\ beat \in {"wait", "write", "stopped"}
  /\ beats \in 0..MaxBeats
  /\ raced \subseteq {"stream", "beat"}
  /\ wire \in Seq(Kinds)
  /\ written \in BOOLEAN /\ broken \in BOOLEAN
  /\ ctxDone \in BOOLEAN /\ cancelled \in BOOLEAN

(* Once doChatRequestAsync is about to look at Written() or has returned the  *)
(* writer to net/http, no heartbeat touches it (cancel and wg.Wait,           *)
(* stream.go:46-51), so the JSON error is never mixed with one (chat.go:112). *)
WriterHandedBack ==
  /\ stream \in {"return", "done"} => beat = "stopped"
  /\ (\E i \in DOMAIN wire : wire[i] = "json") => beats = 0

(* A client that stays connected learns how its request ended: its stream ends *)
(* with [DONE] or its response is the JSON error.  The exception is a request *)
(* that fails before any attempt streamed, but after a heartbeat had opened   *)
(* the response: it ends with nothing more (chat.go:112-115).                 *)
ConnectedClientIsTold ==
  stream = "done" /\ ~broken =>
    IF wire # <<>> THEN Last(wire) \in {"done", "json"}
                   ELSE outcome = "err" /\ beats > 0

(* Every streaming request ends and takes its heartbeat goroutine with it.    *)
StreamEnds == <>(stream = "done" /\ beat = "stopped")

(* However reads and writes fail, the client sees the protocol of SSEProtocol: *)
(* every attempt opens once, finishes at most once and is closed by [DONE] only *)
(* after that, none follows a success, a panic is reported once and closed, and *)
(* the JSON error comes alone (stream.go:89-123, 187-321, 516-578, chat.go:112). *)
Protocol == INSTANCE SSEProtocol
              WITH sent <- wire, Restarts <- Retry - 1
FollowsProtocol == Protocol!Spec

(* stream_helpers.go:57 sends [DONE] after an error "to properly close the    *)
(* stream from client's perspective": nothing but heartbeats follows it.      *)
DoneIsLast == \A i \in DOMAIN wire : wire[i] = "done" => i = Len(wire)
=============================================================================
