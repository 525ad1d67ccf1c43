--------------------------- MODULE FlushThrottle ---------------------------
(***************************************************************************)
(* When a written chunk leaves the server (service/stream.go:435-440).  A    *)
(* stream flushes after a chunk only if the last such flush is more than     *)
(* minFlushInterval ago, and lastFlushTime is a package variable: all streams *)
(* read and write it, without a lock, so each may hold back another's chunk.  *)
(* What is held back leaves with the stream's next frame of another kind or    *)
(* its next heartbeat, both of which flush always.                           *)
(*                                                                          *)
(* lastFlushTime is a struct of several words.  Once it is set, a racing read  *)
(* yields one of the values written; before, it may mix the zero time with    *)
(* the first value, and compare either way.                                  *)
(***************************************************************************)
EXTENDS Integers

CONSTANTS Streams,
          MinFlush,   \* minFlushInterval
          Heartbeat,  \* constants.HeartbeatInterval
          MaxTime,    \* bound on the clock
          None

ASSUME FlushAssumption ==
  /\ MinFlush \in Nat /\ Heartbeat \in Nat \ {0} /\ MaxTime \in Nat
  /\ None \notin Int

VARIABLES
  clock,
  lastFlushTime,  \* None is the zero time
  place,          \* of each stream's goroutine; "none": there is no stream
  now,            \* the time it took after writing a chunk
  held,           \* when the oldest chunk in its writer's buffer was written
  due,            \* when its ticker fires next
  flushed         \* history: when a stream last flushed after a chunk

throttleVars == <<clock, lastFlushTime, place, now, held, due, flushed>>

ThrottleInit ==
  /\ clock = 0 /\ lastFlushTime = None
  /\ place = [s \in Streams |-> "none"]
  /\ now = [s \in Streams |-> 0]
  /\ held = [s \in Streams |-> None]
  /\ due = [s \in Streams |-> 0]
  /\ flushed = None

Goto(s, from, to) == place[s] = from /\ place' = [place EXCEPT ![s] = to]

Empty(s) == held' = [held EXCEPT ![s] = None]
-----------------------------------------------------------------------------
(* startHeartbeat *)
Start(s) ==
  /\ Goto(s, "none", "idle")
  /\ due' = [due EXCEPT ![s] = clock + Heartbeat]
  /\ UNCHANGED <<clock, lastFlushTime, now, held, flushed>>

(* A chunk goes into the writer's buffer, and the time is taken.  A full buffer *)
(* pushes out what it had, and perhaps the chunk as well.                     *)
Write(s) ==
  /\ Goto(s, "idle", "check")
  /\ now' = [now EXCEPT ![s] = clock]
  /\ \E oldest \in {clock, None} \cup ({held[s]} \ {None}) :
       held' = [held EXCEPT ![s] = oldest]
  /\ UNCHANGED <<clock, lastFlushTime, due, flushed>>

(* Another stream is setting lastFlushTime for the first time. *)
Torn == lastFlushTime = None /\ \E t \in Streams : place[t] = "stamp"

LongAgo(s) ==
  IF lastFlushTime = None THEN TRUE ELSE now[s] - lastFlushTime > MinFlush

Pass(s) ==
  /\ LongAgo(s) \/ Torn
  /\ Goto(s, "check", "flush")
  /\ UNCHANGED <<clock, lastFlushTime, now, held, due, flushed>>

(* Fault: the time is stored also when nothing is flushed. *)
HoldStamps(s) ==
  /\ ~LongAgo(s) \/ Torn
  /\ Goto(s, "check", "idle")
  /\ lastFlushTime' = now[s]
  /\ UNCHANGED <<clock, now, held, due, flushed>>

Hold(s) ==
  /\ ~LongAgo(s) \/ Torn
  /\ Goto(s, "check", "idle")
  /\ UNCHANGED <<clock, lastFlushTime, now, held, due, flushed>>

Flush(s) ==
  /\ Goto(s, "flush", "stamp")
  /\ Empty(s)
  /\ flushed' = clock
  /\ UNCHANGED <<clock, lastFlushTime, now, due>>

(* The time stored was taken before the flush: a later one may be overwritten. *)
Stamp(s) ==
  /\ Goto(s, "stamp", "idle")
  /\ lastFlushTime' = now[s]
  /\ UNCHANGED <<clock, now, held, due, flushed>>

(* An initial or an error frame, which flush. *)
Frame(s) ==
  /\ place[s] = "idle"
  /\ Empty(s)
  /\ UNCHANGED <<clock, lastFlushTime, place, now, due, flushed>>

(* The final frame, or the return of the handler: net/http sends the rest. *)
End(s) ==
  /\ Goto(s, "idle", "none")
  /\ Empty(s)
  /\ UNCHANGED <<clock, lastFlushTime, now, due, flushed>>

(* Fault: the heartbeat is written but not flushed. *)
FlushBeatUnflushed(s) ==
  /\ place[s] # "none" /\ clock = due[s]
  /\ due' = [due EXCEPT ![s] = @ + Heartbeat]
  /\ UNCHANGED <<clock, lastFlushTime, place, now, held, flushed>>

(* Fault: the select of the heartbeat has a default case that beats as well. *)
FlushBeatAtOnce(s) ==
  /\ place[s] # "none"
  /\ due' = [due EXCEPT ![s] = @ + Heartbeat]
  /\ Empty(s)
  /\ UNCHANGED <<clock, lastFlushTime, place, now, flushed>>

(* The heartbeat goroutine of the stream, wherever the stream is. *)
FlushBeat(s) ==
  /\ place[s] # "none" /\ clock = due[s]
  /\ due' = [due EXCEPT ![s] = @ + Heartbeat]
  /\ Empty(s)
  /\ UNCHANGED <<clock, lastFlushTime, place, now, flushed>>

(* A ticker that fires is served before the clock moves on: delays of the       *)
(* scheduler are small against the heartbeat.  Those of a stream are not         *)
(* bounded.                                                                  *)
Tick ==
  /\ clock < MaxTime
  /\ \A s \in Streams : place[s] # "none" => clock < due[s]
  /\ clock' = clock + 1
  /\ UNCHANGED <<lastFlushTime, place, now, held, due, flushed>>

ThrottleNext ==
  \/ \E s \in Streams :
       \/ Start(s) \/ Write(s) \/ Pass(s) \/ Hold(s) \/ Flush(s) \/ Stamp(s)
       \/ Frame(s) \/ End(s) \/ FlushBeat(s)
  \/ Tick

ThrottleSpec == ThrottleInit /\ [][ThrottleNext]_throttleVars
-----------------------------------------------------------------------------
Times == 0..MaxTime

ThrottleTypeOK ==
  /\ clock \in Times
  /\ lastFlushTime \in Times \cup {None}
  /\ place \in [Streams -> {"none", "idle", "check", "flush", "stamp"}]
  /\ now \in [Streams -> Times]
  /\ held \in [Streams -> Times \cup {None}]
  /\ due \in [Streams -> 0..(MaxTime + Heartbeat)]
  /\ flushed \in (0..clock) \cup {None}

(* However the streams throttle each other, and whatever a racing read of       *)
(* lastFlushTime yields, no chunk stays in a buffer longer than a heartbeat     *)
(* interval (stream.go:73-80, 435-440).                                      *)
ChunksWaitAtMostABeat ==
  \A s \in Streams : held[s] # None => clock - held[s] =< Heartbeat

(* A chunk is held back only because one was flushed, by this stream or by      *)
(* another, at most the minimal interval before it was written: chunks that are *)
(* held back never put off the next flush.  Only while lastFlushTime is set for *)
(* the first time may a torn read hold one back without (stream.go:435-440).   *)
HoldsFollowFlush ==
  [][\A s \in Streams :
       place[s] = "check" /\ place'[s] = "idle" =>
         Torn \/ (flushed # None /\ now[s] - flushed =< MinFlush)]_throttleVars
=============================================================================
