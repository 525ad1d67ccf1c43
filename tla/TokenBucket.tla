---------------------------- MODULE TokenBucket ----------------------------
(***************************************************************************)
(* The token bucket of pkg/ratelimit/limiter.go and the requests polling it *)
(* through Wait.  Tokens are counted in sub-units: Unit sub-units make one  *)
(* token and Rate sub-units arrive per tick of the clock, so the floating   *)
(* point arithmetic of the code is exact integer arithmetic here.           *)
(*                                                                          *)
(* The body of Allow between Lock and Unlock is one step: the bucket is     *)
(* touched under l.mu only, and the one thing visible without the mutex,    *)
(* the atomic increment of a counter, happens once per critical section.    *)
(***************************************************************************)
EXTENDS Integers, Sequences, FiniteSets

CONSTANTS Requests,  \* the requests, each a goroutine calling Wait
          Unit,      \* sub-units that make one token
          Rate,      \* sub-units added per tick
          Burst,     \* capacity in tokens
          Poll,      \* ticks slept between two polls
          MaxTime    \* bound on the clock

ASSUME LimiterAssumption ==
  /\ Unit \in Nat \ {0}
  /\ Rate \in Nat
  /\ Burst \in Nat
  /\ Poll \in Nat \ {0}
  /\ MaxTime \in Nat

VARIABLES
  clock,          \* time.Now()
  tokens,         \* l.tokens, in sub-units
  lastTime,       \* l.lastTime
  enabled,        \* l.enabled
  requestCount, allowedCount, rejectedCount,
  pc,             \* where each request is in Wait
  wakeAt,         \* when the sleep of Wait ends
  ctxDone,        \* the request's context is cancelled
  grants          \* history: times of the admissions paid with a token

bucket   == <<tokens, lastTime>>
counters == <<requestCount, allowedCount, rejectedCount>>
vars == <<clock, tokens, lastTime, enabled, requestCount, allowedCount,
          rejectedCount, pc, wakeAt, ctxDone, grants>>

Capacity == Unit * Burst

MinOf(a, b) == IF a < b THEN a ELSE b

(* Fault: the refill is not limited to the capacity. *)
RefilledUncapped == tokens + Rate * (clock - lastTime)

(* The bucket as Allow finds it after adding the tokens of the time elapsed. *)
Refilled == MinOf(Capacity, tokens + Rate * (clock - lastTime))

Places == {"poll", "counted", "metered", "asleep", "admitted", "cancelled"}

Init ==
  /\ clock = 0
  /\ tokens = Capacity
  /\ lastTime = 0
  /\ enabled \in BOOLEAN
  /\ requestCount = 0 /\ allowedCount = 0 /\ rejectedCount = 0
  /\ pc = [r \in Requests |-> "poll"]
  /\ wakeAt = [r \in Requests |-> 0]
  /\ ctxDone = [r \in Requests |-> FALSE]
  /\ grants = <<>>

Goto(r, place) == pc' = [pc EXCEPT ![r] = place]

(* Wait: the context is done when the select looks. *)
GiveUp(r) ==
  /\ pc[r] = "poll" /\ ctxDone[r]
  /\ Goto(r, "cancelled")
  /\ UNCHANGED <<clock, bucket, enabled, counters, wakeAt, ctxDone, grants>>

(* Wait takes the default branch and Allow counts the call. *)
CountCall(r) ==
  /\ pc[r] = "poll" /\ ~ctxDone[r]
  /\ requestCount' = requestCount + 1
  /\ Goto(r, "counted")
  /\ UNCHANGED <<clock, bucket, enabled, allowedCount, rejectedCount, wakeAt,
                 ctxDone, grants>>

(* Fault: the bypass of a disabled limiter forgets to count the call. *)
BypassUncounted(r) ==
  /\ pc[r] = "counted" /\ ~enabled
  /\ Goto(r, "admitted")
  /\ UNCHANGED <<clock, bucket, enabled, counters, wakeAt, ctxDone, grants>>

(* Allow reads l.enabled without the mutex: disabled, everyone passes. *)
Bypass(r) ==
  /\ pc[r] = "counted" /\ ~enabled
  /\ allowedCount' = allowedCount + 1
  /\ Goto(r, "admitted")
  /\ UNCHANGED <<clock, bucket, enabled, requestCount, rejectedCount, wakeAt,
                 ctxDone, grants>>

(* ... enabled, the call goes on to the mutex, whatever enabled becomes. *)
EnterMeter(r) ==
  /\ pc[r] = "counted" /\ enabled
  /\ Goto(r, "metered")
  /\ UNCHANGED <<clock, bucket, enabled, counters, wakeAt, ctxDone, grants>>

(* Fault: any token left in part is enough. *)
AdmitOnCredit(r) ==
  /\ pc[r] = "metered" /\ Refilled > 0
  /\ tokens' = Refilled - Unit
  /\ lastTime' = clock
  /\ allowedCount' = allowedCount + 1
  /\ grants' = Append(grants, clock)
  /\ Goto(r, "admitted")
  /\ UNCHANGED <<clock, enabled, requestCount, rejectedCount, wakeAt, ctxDone>>

(* Fault: an admission does not move lastTime, so time is paid out twice. *)
AdmitKeepsLastTime(r) ==
  /\ pc[r] = "metered" /\ Refilled >= Unit
  /\ tokens' = Refilled - Unit
  /\ allowedCount' = allowedCount + 1
  /\ grants' = Append(grants, clock)
  /\ Goto(r, "admitted")
  /\ UNCHANGED <<clock, lastTime, enabled, requestCount, rejectedCount, wakeAt,
                 ctxDone>>

(* The critical section of Allow when a whole token is left after the refill. *)
Admit(r) ==
  /\ pc[r] = "metered" /\ Refilled >= Unit
  /\ tokens' = Refilled - Unit
  /\ lastTime' = clock
  /\ allowedCount' = allowedCount + 1
  /\ grants' = Append(grants, clock)
  /\ Goto(r, "admitted")
  /\ UNCHANGED <<clock, enabled, requestCount, rejectedCount, wakeAt, ctxDone>>

(* Fault: a rejected call moves lastTime and drops the refill. *)
RejectDropsRefill(r) ==
  /\ pc[r] = "metered" /\ Refilled < Unit
  /\ lastTime' = clock
  /\ rejectedCount' = rejectedCount + 1
  /\ wakeAt' = [wakeAt EXCEPT ![r] = clock + Poll]
  /\ Goto(r, "asleep")
  /\ UNCHANGED <<clock, tokens, enabled, requestCount, allowedCount, ctxDone,
                 grants>>

(* ... and when it is not: the refill is kept, and Wait sleeps. *)
Reject(r) ==
  /\ pc[r] = "metered" /\ Refilled < Unit
  /\ tokens' = Refilled
  /\ lastTime' = clock
  /\ rejectedCount' = rejectedCount + 1
  /\ wakeAt' = [wakeAt EXCEPT ![r] = clock + Poll]
  /\ Goto(r, "asleep")
  /\ UNCHANGED <<clock, enabled, requestCount, allowedCount, ctxDone, grants>>

Wake(r) ==
  /\ pc[r] = "asleep" /\ clock >= wakeAt[r]
  /\ Goto(r, "poll")
  /\ UNCHANGED <<clock, bucket, enabled, counters, wakeAt, ctxDone, grants>>

(* The client goes away while its request waits. *)
Cancel(r) ==
  /\ ~ctxDone[r] /\ pc[r] \notin {"admitted", "cancelled"}
  /\ ctxDone' = [ctxDone EXCEPT ![r] = TRUE]
  /\ UNCHANGED <<clock, bucket, enabled, counters, pc, wakeAt, grants>>

Enable ==
  /\ enabled' = TRUE
  /\ UNCHANGED <<clock, bucket, counters, pc, wakeAt, ctxDone, grants>>

Disable ==
  /\ enabled' = FALSE
  /\ UNCHANGED <<clock, bucket, counters, pc, wakeAt, ctxDone, grants>>

Tick ==
  /\ clock < MaxTime
  /\ clock' = clock + 1
  /\ UNCHANGED <<bucket, enabled, counters, pc, wakeAt, ctxDone, grants>>

Step(r) ==
  \/ GiveUp(r) \/ CountCall(r) \/ Bypass(r) \/ EnterMeter(r)
  \/ Admit(r) \/ Reject(r) \/ Wake(r) \/ Cancel(r)

Next == (\E r \in Requests : Step(r)) \/ Enable \/ Disable \/ Tick

Spec == Init /\ [][Next]_vars
-----------------------------------------------------------------------------
TypeOK ==
  /\ clock \in Nat /\ lastTime \in Nat /\ lastTime =< clock
  /\ tokens \in 0..Capacity
  /\ enabled \in BOOLEAN
  /\ requestCount \in Nat /\ allowedCount \in Nat /\ rejectedCount \in Nat
  /\ pc \in [Requests -> Places]
  /\ wakeAt \in [Requests -> Nat]
  /\ ctxDone \in [Requests -> BOOLEAN]
  /\ grants \in Seq(Nat)

(* Limiting: from any metered admission to any later one, at most Burst      *)
(* requests plus what Rate yields in between are admitted, in whatever order *)
(* the requests reach the mutex and however long they sleep (limiter.go,     *)
(* Allow).                                                                   *)
WindowBound ==
  \A j \in 1..Len(grants) : \A i \in 1..j :
    Unit * (j - i + 1) =< Capacity + Rate * (grants[j] - grants[i])

(* The room left in the window that begins with the i-th admission. *)
Room(i) ==
  Capacity + Rate * (lastTime - grants[i]) - Unit * (Len(grants) - i + 1)

(* The bucket is exactly the tightest of all the windows: it never hands out *)
(* more than a window has room for and never forgets a token a request is    *)
(* entitled to (the refill of a rejected call included).                     *)
BucketIsTightest ==
  /\ \A i \in 1..Len(grants) : tokens =< Room(i)
  /\ tokens = Capacity \/ \E i \in 1..Len(grants) : tokens = Room(i)

(* Every call that Allow counted is counted once more, as allowed or as      *)
(* rejected, or is still on its way: no path through Allow forgets its       *)
(* counter or bumps two (the atomic counters of limiter.go).                 *)
InFlight == {r \in Requests : pc[r] \in {"counted", "metered"}}

CallsAccounted ==
  requestCount = allowedCount + rejectedCount + Cardinality(InFlight)

(* The bucket limiter does exactly what the window limiter promises.         *)
Window == INSTANCE WindowLimit WITH refusals <- rejectedCount
ImplementsWindow == Window!Spec
=============================================================================
