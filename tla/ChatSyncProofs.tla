--------------------------- MODULE ChatSyncProofs ---------------------------
(***************************************************************************)
(* For any requests, cache keys and number of retries, with the cache on or   *)
(* off: the non-streaming chat is type correct, its answers and failures are  *)
(* genuine, and the worker of a handler that has returned soon rests.         *)
(***************************************************************************)
EXTENDS ChatSync, TLAPS

Ended(r) == gone[r] \/ expired[r]

(* What the place of the worker says of its attempts and its result. *)
WorkerInv(r) ==
  /\ worker[r] \in {"top", "begin", "backoff"} => attempt[r] < Retry
  /\ worker[r] = "call" => attempt[r] > 0
  /\ worker[r] = "none" => attempt[r] = 0
  /\ worker[r] \in {"deliver", "closing", "closed"} <=> result[r] # None
  /\ result[r] \in Answers => result[r][1] = r
  /\ result[r] = Failed => attempt[r] = Retry \/ Ended(r) \/ released[r]
  /\ channel[r] # None => channel[r] = result[r]

(* What the place of the handler says of the channel and of the context, and   *)
(* what it has received of the result.                                       *)
HandlerInv(r) ==
  /\ handler[r] \in {"limit", "bind"} => worker[r] = "none"
  /\ released[r] <=> handler[r] = "done"
  /\ handler[r] = "parked" => channel[r] = None /\ worker[r] # "closed" /\ ~Ended(r)
  /\ handler[r] \in {"select", "parked"} /\ worker[r] \in {"closing", "closed"} =>
       channel[r] # None \/ Ended(r)
  /\ handler[r] = "late" => Ended(r)
  /\ handler[r] = "send" => received[r] \in Answers
  /\ received[r] = Zero => Ended(r)
  /\ received[r] \notin {None, Zero} => received[r] = result[r]
  /\ received[r] = Failed => attempt[r] = Retry \/ Ended(r)

RequestInv == \A r \in Requests : WorkerInv(r) /\ HandlerInv(r)

ChatInv == TypeOK /\ RequestInv

LEMMA InitChat == Init => ChatInv
<1> SUFFICES ASSUME Init PROVE ChatInv
  OBVIOUS
<1> USE ChatAssumption DEF Init
<1>1. TypeOK
  BY DEF TypeOK, HandlerPlaces, WorkerPlaces, Answers
<1>2. RequestInv
  BY DEF RequestInv, WorkerInv, HandlerInv, Ended, Answers
<1> QED
  BY <1>1, <1>2 DEF ChatInv

LEMMA StepType == ChatInv /\ [Next]_vars => TypeOK'
<1> SUFFICES ASSUME ChatInv, [Next]_vars PROVE TypeOK'
  OBVIOUS
<1> USE ChatAssumption
    DEF ChatInv, TypeOK, HandlerPlaces, WorkerPlaces, Codes, hvars, wvars, cvars,
        HandlerTo, WorkerTo, Answer, CacheKey
<1>1. ASSUME NEW r \in Requests,
             LimitPass(r) \/ Launch(r) \/ TakeDone(r) \/ Park(r) \/ Succeed(r) \/ Return(r)
      PROVE  TypeOK'
  <2>1. CASE LimitPass(r) \/ Launch(r) \/ TakeDone(r) \/ Park(r) \/ Succeed(r)
    BY <2>1 DEF LimitPass, Launch, TakeDone, Park, Succeed
  <2>2. CASE Return(r)
    BY <2>2 DEF Return
  <2> QED
    BY <1>1, <2>1, <2>2
<1>2. ASSUME NEW r \in Requests,
             LimitRefuse(r) \/ Refuse(r) \/ Late(r) \/ Unavailable(r) \/ NilPanics(r)
               \/ ParseFails(r)
      PROVE  TypeOK'
  <2>1. ASSUME NEW code \in Codes, Answer(r, code, None),
               UNCHANGED <<received, wvars, cvars, cache>>
        PROVE  TypeOK'
    <3>1. [code |-> code, from |-> None] \in [code : Codes, from : Answers \cup {None}]
      OBVIOUS
    <3>2. /\ reply' = [reply EXCEPT ![r] = [code |-> code, from |-> None]]
          /\ handler' = [handler EXCEPT ![r] = "return"]
      BY <2>1
    <3>3. reply' \in [Requests -> [code : Codes, from : Answers \cup {None}] \cup {None}]
      BY <3>1, <3>2
    <3> QED
      BY <2>1, <3>2, <3>3
  <2>2. CASE LimitRefuse(r) \/ Refuse(r)
    BY <2>1, <2>2 DEF LimitRefuse, Refuse
  <2>3. CASE Late(r) \/ Unavailable(r)
    BY <2>1, <2>3 DEF Late, Unavailable
  <2>4. CASE NilPanics(r) \/ ParseFails(r)
    BY <2>1, <2>4 DEF NilPanics, ParseFails
  <2> QED
    BY <1>2, <2>2, <2>3, <2>4
<1>3. ASSUME NEW r \in Requests, Hit(r) \/ Send(r) PROVE TypeOK'
  <2>1. CASE Hit(r)
    BY <2>1 DEF Hit
  <2>2. CASE Send(r)
    BY <2>2 DEF Send, RequestInv, HandlerInv
  <2> QED
    BY <1>3, <2>1, <2>2
<1>4. ASSUME NEW r \in Requests, TakeResult(r) \/ TakeClosed(r) PROVE TypeOK'
  BY <1>4 DEF TakeResult, TakeClosed
<1>5. ASSUME NEW r \in Requests, Store(r) PROVE TypeOK'
  BY <1>5 DEF Store
<1>6. ASSUME NEW r \in Requests, Abort(r) \/ CallFails(r) \/ BackoffEnds(r) PROVE TypeOK'
  BY <1>6 DEF Abort, CallFails, BackoffEnds, Finish
<1>7. ASSUME NEW r \in Requests, Check(r) \/ Call(r) PROVE TypeOK'
  BY <1>7 DEF Check, Call, RequestInv, WorkerInv
<1>8. ASSUME NEW r \in Requests, CallOk(r) PROVE TypeOK'
  <2>1. <<r, attempt[r]>> \in Answers
    BY <1>8 DEF CallOk, RequestInv, WorkerInv, Answers
  <2> QED
    BY <1>8, <2>1 DEF CallOk, Finish
<1>9. ASSUME NEW r \in Requests, Deliver(r) \/ Close(r) PROVE TypeOK'
  <2>1. CASE Deliver(r)
    BY <2>1 DEF Deliver, Put
  <2>2. CASE Close(r)
    BY <2>2 DEF Close, Put
  <2> QED
    BY <1>9, <2>1, <2>2
<1>10. ASSUME NEW r \in Requests, Disconnect(r) \/ Expire(r) PROVE TypeOK'
  <2>1. CASE Disconnect(r)
    BY <2>1 DEF Disconnect, WakeLate
  <2>2. CASE Expire(r)
    BY <2>2 DEF Expire, WakeLate
  <2> QED
    BY <1>10, <2>1, <2>2
<1>11. ASSUME NEW k \in Keys, Evict(k) PROVE TypeOK'
  BY <1>11 DEF Evict
<1>12. CASE UNCHANGED vars
  BY <1>12 DEF vars
<1> QED
  BY <1>1, <1>2, <1>3, <1>4, <1>5, <1>6, <1>7, <1>8, <1>9, <1>10, <1>11, <1>12
     DEF Next, HandlerStep, WorkerStep

(* Every step moves one request at most: those it leaves alone keep their       *)
(* invariant.                                                                *)
LEMMA OthersKeep ==
  ASSUME NEW q \in Requests, WorkerInv(q), HandlerInv(q),
         handler'[q] = handler[q], worker'[q] = worker[q], attempt'[q] = attempt[q],
         result'[q] = result[q], channel'[q] = channel[q], received'[q] = received[q],
         gone'[q] = gone[q], expired'[q] = expired[q], released'[q] = released[q]
  PROVE  WorkerInv(q)' /\ HandlerInv(q)'
BY DEF WorkerInv, HandlerInv, Ended

LEMMA StepRequest == ChatInv /\ [Next]_vars => RequestInv'
<1> SUFFICES ASSUME ChatInv, [Next]_vars, NEW q \in Requests
             PROVE  WorkerInv(q)' /\ HandlerInv(q)'
  BY DEF RequestInv
<1>0. TypeOK /\ WorkerInv(q) /\ HandlerInv(q)
  BY DEF ChatInv, RequestInv
<1> DEFINE Kept == /\ handler'[q] = handler[q] /\ worker'[q] = worker[q]
                   /\ attempt'[q] = attempt[q] /\ result'[q] = result[q]
                   /\ channel'[q] = channel[q] /\ received'[q] = received[q]
                   /\ gone'[q] = gone[q] /\ expired'[q] = expired[q]
                   /\ released'[q] = released[q]
           Goal == WorkerInv(q)' /\ HandlerInv(q)'
<1>k. Kept => Goal
  BY <1>0, OthersKeep
<1> USE ChatAssumption
    DEF TypeOK, HandlerPlaces, WorkerPlaces, hvars, wvars, cvars,
        HandlerTo, WorkerTo, Answer
<1>1. ASSUME NEW r \in Requests,
             \/ LimitPass(r) \/ LimitRefuse(r) \/ Refuse(r) \/ Hit(r)
             \/ Late(r) \/ Unavailable(r) \/ Succeed(r) \/ NilPanics(r) \/ ParseFails(r)
             \/ Send(r)
      PROVE  Goal
  <2>1. CASE q = r
    BY <1>0, <1>1, <2>1
       DEF LimitPass, LimitRefuse, Refuse, Hit, Late, Unavailable, Succeed, NilPanics,
           ParseFails, Send, WorkerInv, HandlerInv, Ended
  <2>2. CASE q # r
    <3>1. Kept
      BY <1>0, <1>1, <2>2
         DEF LimitPass, LimitRefuse, Refuse, Hit, Late, Unavailable, Succeed, NilPanics,
             ParseFails, Send
    <3> QED
      BY <1>k, <3>1
  <2> QED
    BY <2>1, <2>2
<1>2. ASSUME NEW r \in Requests,
             \/ Launch(r) \/ TakeResult(r) \/ TakeClosed(r) \/ TakeDone(r) \/ Park(r)
             \/ Store(r) \/ Return(r)
      PROVE  Goal
  <2>1. CASE q = r
    BY <1>0, <1>2, <2>1
       DEF Launch, TakeResult, TakeClosed, TakeDone, Park, Store, Return, CtxDone,
           WorkerInv, HandlerInv, Ended
  <2>2. CASE q # r
    <3>1. Kept
      BY <1>0, <1>2, <2>2
         DEF Launch, TakeResult, TakeClosed, TakeDone, Park, Store, Return
    <3> QED
      BY <1>k, <3>1
  <2> QED
    BY <2>1, <2>2
<1>3. ASSUME NEW r \in Requests,
             Abort(r) \/ Check(r) \/ Call(r) \/ CallOk(r) \/ CallFails(r) \/ BackoffEnds(r)
      PROVE  Goal
  <2>1. CASE q = r
    <3>1. CallOk(r) => <<r, attempt[r]>> # None /\ <<r, attempt[r]>> # Failed
      BY <1>0, <2>1 DEF CallOk, WorkerInv, Answers
    <3> QED
      BY <1>0, <1>3, <2>1, <3>1
         DEF Abort, Check, Call, CallOk, CallFails, BackoffEnds, Finish, CtxDone, WorkerInv,
             HandlerInv, Ended
  <2>2. CASE q # r
    <3>1. Kept
      BY <1>0, <1>3, <2>2 DEF Abort, Check, Call, CallOk, CallFails, BackoffEnds, Finish
    <3> QED
      BY <1>k, <3>1
  <2> QED
    BY <2>1, <2>2
<1>4. ASSUME NEW r \in Requests, Deliver(r) \/ Close(r) PROVE Goal
  <2>1. CASE q = r
    BY <1>0, <1>4, <2>1 DEF Deliver, Close, Put, CtxDone, WorkerInv, HandlerInv, Ended
  <2>2. CASE q # r
    <3>1. Kept
      BY <1>0, <1>4, <2>2 DEF Deliver, Close, Put
    <3> QED
      BY <1>k, <3>1
  <2> QED
    BY <2>1, <2>2
<1>5. ASSUME NEW r \in Requests, Disconnect(r) \/ Expire(r) PROVE Goal
  <2>1. CASE q = r
    BY <1>0, <1>5, <2>1 DEF Disconnect, Expire, WakeLate, WorkerInv, HandlerInv, Ended
  <2>2. CASE q # r
    <3>1. Kept
      BY <1>0, <1>5, <2>2 DEF Disconnect, Expire, WakeLate
    <3> QED
      BY <1>k, <3>1
  <2> QED
    BY <2>1, <2>2
<1>6. CASE (\E k \in Keys : Evict(k)) \/ UNCHANGED vars
  <2>1. Kept
    BY <1>6 DEF Evict, vars
  <2> QED
    BY <1>k, <2>1
<1> QED
  BY <1>1, <1>2, <1>3, <1>4, <1>5, <1>6 DEF Next, HandlerStep, WorkerStep

LEMMA StepChat == ChatInv /\ [Next]_vars => ChatInv'
BY StepType, StepRequest DEF ChatInv

(* Every state is well typed; in particular no worker begins more than Retry    *)
(* attempts, and its channel carries what it finished with (chat.go:159-235).   *)
THEOREM Typing == Spec => []TypeOK
<1>1. ChatInv => TypeOK
  BY DEF ChatInv
<1> QED
  BY <1>1, InitChat, StepChat, PTL DEF Spec
-----------------------------------------------------------------------------
(* What was produced, and what became of the context, stays so.                *)
LEMMA Lasting ==
  ASSUME ChatInv, [Next]_vars, NEW r \in Requests
  PROVE  /\ gone[r] => gone'[r]
         /\ Ended(r) => Ended(r)'
         /\ result[r] # None => result'[r] = result[r] /\ attempt'[r] = attempt[r]
<1> USE DEF ChatInv, TypeOK, hvars, wvars, cvars, HandlerTo, WorkerTo, Answer
<1>1. ASSUME NEW q \in Requests, HandlerStep(q) \/ LimitPass(q) \/ LimitRefuse(q)
      PROVE  UNCHANGED <<gone, expired, result, attempt>>
  BY <1>1 DEF HandlerStep, Refuse, Hit, Launch, TakeResult, TakeClosed, TakeDone, Park, Late,
              Unavailable, Succeed, NilPanics, ParseFails, Store, Send, Return,
              LimitPass, LimitRefuse
<1>2. ASSUME NEW q \in Requests, WorkerStep(q)
      PROVE  /\ UNCHANGED <<gone, expired>>
             /\ result[r] # None => result'[r] = result[r] /\ attempt'[r] = attempt[r]
  <2>1. /\ UNCHANGED <<gone, expired>>
        /\ q # r => result'[r] = result[r] /\ attempt'[r] = attempt[r]
        /\ worker[q] \in {"deliver", "closing", "closed"} => UNCHANGED <<result, attempt>>
    BY <1>2 DEF WorkerStep, Abort, Check, Call, CallOk, CallFails, BackoffEnds, Deliver, Close, Finish
  <2> QED
    BY <2>1 DEF RequestInv, WorkerInv
<1>3. ASSUME NEW q \in Requests, Disconnect(q) \/ Expire(q)
      PROVE  /\ gone[r] => gone'[r]
             /\ expired[r] => expired'[r]
             /\ UNCHANGED <<result, attempt>>
  BY <1>3 DEF Disconnect, Expire
<1>4. CASE (\E k \in Keys : Evict(k)) \/ UNCHANGED vars
  BY <1>4 DEF Evict, vars, Ended
<1> QED
  BY <1>1, <1>2, <1>3, <1>4 DEF Next, Ended

(* A returned handler has cancelled the context, which no attempt after the one   *)
(* its worker had already decided on gets past.                              *)
OrphanInv(r) ==
  handler[r] = "done" =>
    /\ attempt[r] \in {atReturn[r], atReturn[r] + 1}
    /\ worker[r] = "begin" => attempt[r] = atReturn[r]

LEMMA StepOrphan ==
  ASSUME ChatInv, [Next]_vars, NEW r \in Requests, OrphanInv(r)
  PROVE  OrphanInv(r)'
<1> USE DEF ChatInv, TypeOK, hvars, wvars, cvars, HandlerTo, WorkerTo, Answer, OrphanInv
<1>1. handler[r] = "done" => CtxDone(r)
  BY DEF RequestInv, HandlerInv, CtxDone
<1>2. ASSUME NEW q \in Requests, LimitPass(q) \/ LimitRefuse(q) \/ HandlerStep(q)
      PROVE  OrphanInv(r)'
  <2>1. CASE Return(q)
    BY <2>1 DEF Return
  <2>2. CASE ~Return(q)
    <3>1. /\ UNCHANGED <<atReturn, attempt>>
          /\ handler'[r] = "done" => handler[r] = "done"
      BY <1>2, <2>2
         DEF HandlerStep, LimitPass, LimitRefuse, Refuse, Hit, Launch, TakeResult, TakeClosed,
             TakeDone, Park, Late, Unavailable, Succeed, NilPanics, ParseFails, Store, Send
    <3>2. handler[r] = "done" /\ worker'[r] = "begin" => worker[r] = "begin"
      BY <1>2, <2>2
         DEF HandlerStep, LimitPass, LimitRefuse, Refuse, Hit, Launch, TakeResult, TakeClosed,
             TakeDone, Park, Late, Unavailable, Succeed, NilPanics, ParseFails, Store, Send
    <3> QED
      BY <3>1, <3>2
  <2> QED
    BY <2>1, <2>2
<1>3. ASSUME NEW q \in Requests, WorkerStep(q) PROVE OrphanInv(r)'
  <2>1. /\ UNCHANGED atReturn
        /\ handler'[r] = "done" => handler[r] = "done"
    BY <1>3
       DEF WorkerStep, Abort, Check, Call, CallOk, CallFails, BackoffEnds, Deliver, Close, Put, Finish
  <2>2. CASE Call(q)
    BY <2>1, <2>2 DEF Call
  <2>3. CASE ~Call(q)
    <3>1. UNCHANGED attempt
      BY <1>3, <2>3
         DEF WorkerStep, Abort, Check, CallOk, CallFails, BackoffEnds, Deliver, Close, Finish
    <3>2. handler[r] = "done" /\ worker'[r] = "begin" => worker[r] = "begin"
      BY <1>1, <1>3, <2>3
         DEF WorkerStep, Abort, Check, CallOk, CallFails, BackoffEnds, Deliver, Close, Finish
    <3> QED
      BY <2>1, <3>1, <3>2
  <2> QED
    BY <2>2, <2>3
<1>4. CASE \/ \E q \in Requests : Disconnect(q) \/ Expire(q)
           \/ \E k \in Keys : Evict(k)
           \/ UNCHANGED vars
  <2>1. /\ UNCHANGED <<worker, attempt, atReturn>>
        /\ handler'[r] = "done" => handler[r] = "done"
    BY <1>4 DEF Disconnect, Expire, WakeLate, Evict, vars
  <2> QED
    BY <2>1
<1> QED
  BY <1>2, <1>3, <1>4 DEF Next

(* After its handler has returned, a worker begins at most one attempt more,     *)
(* for any number of attempts and however they end: the one for which it had      *)
(* looked at the context before (chat.go:129-130, 193-204, 227-231).           *)
THEOREM Orphans == Spec => []OrphansBeginAtMostOne
<1> DEFINE AllRest == \A r \in Requests : OrphanInv(r)
<1>1. Init => AllRest
  BY DEF Init, OrphanInv
<1>2. ChatInv /\ AllRest /\ [Next]_vars => AllRest'
  BY StepOrphan
<1>3. ChatInv /\ AllRest => OrphansBeginAtMostOne
  BY ChatAssumption DEF ChatInv, TypeOK, OrphanInv, OrphansBeginAtMostOne
<1> QED
  BY <1>1, <1>2, <1>3, InitChat, StepChat, PTL DEF Spec
-----------------------------------------------------------------------------
GenuineInv == AnswersAreGenuine /\ FailuresAreGenuine

LEMMA InitGenuine == Init => GenuineInv
BY DEF Init, GenuineInv, AnswersAreGenuine, FailuresAreGenuine

(* A genuine answer stays genuine, whatever its request does next.             *)
LEMMA StillProduced ==
  ASSUME ChatInv, [Next]_vars, NEW answer, NEW key, ProducedFor(answer, key)
  PROVE  ProducedFor(answer, key)'
<1>1. answer[1] \in Requests /\ result[answer[1]] # None
  BY ChatAssumption DEF ProducedFor, Answers
<1> QED
  BY <1>1, Lasting DEF ProducedFor

(* A reply is genuine for what is known when it is sent.                       *)
Genuine(r, code, from) ==
  /\ IF code = "200" THEN ProducedFor(from, KeyOf[r]) ELSE from = None
  /\ code = "503" => result[r] = Failed /\ (attempt[r] = Retry \/ Ended(r))
  /\ code \in {"timeout", "panic"} => Ended(r)
  /\ code = "429" => gone[r]

(* A step that writes at most one reply, a genuine one, and stores at most one  *)
(* answer, a genuine one, keeps all answers and failures genuine.             *)
LEMMA KeepsGenuine ==
  ASSUME ChatInv, [Next]_vars, GenuineInv,
         \A k \in Keys : cache'[k] \in {None, cache[k]} \/ ProducedFor(cache[k], k)',
         \A r \in Requests :
           reply'[r] = reply[r] \/ Genuine(r, reply'[r].code, reply'[r].from)
  PROVE  GenuineInv'
<1>1. ASSUME NEW k \in Keys, cache'[k] # None PROVE ProducedFor(cache[k], k)'
  BY <1>1, StillProduced DEF GenuineInv, AnswersAreGenuine, ProducedFor
<1>2. ASSUME NEW r \in Requests, reply'[r] # None
      PROVE  Genuine(r, reply'[r].code, reply'[r].from)
  BY <1>2 DEF GenuineInv, AnswersAreGenuine, FailuresAreGenuine, Genuine, Ended
<1>3. ASSUME NEW r \in Requests, reply'[r] # None
      PROVE  Genuine(r, reply[r].code, reply[r].from)'
  <2>1. CASE reply'[r].code = "200"
    <3>1. ProducedFor(reply[r].from, KeyOf[r])'
      BY <1>2, <1>3, <2>1, StillProduced DEF Genuine, ProducedFor
    <3> QED
      BY <2>1, <3>1 DEF Genuine
  <2>2. CASE reply'[r].code = "503"
    <3>1. result'[r] = Failed /\ (attempt'[r] = Retry \/ Ended(r)')
      BY <1>2, <1>3, <2>2, Lasting, ChatAssumption DEF Genuine
    <3> QED
      BY <1>2, <1>3, <2>2, <3>1 DEF Genuine
  <2>3. CASE reply'[r].code \notin {"200", "503"}
    BY <1>2, <1>3, <2>3, Lasting DEF Genuine
  <2> QED
    BY <2>1, <2>2, <2>3
<1> QED
  BY <1>1, <1>3 DEF GenuineInv, AnswersAreGenuine, FailuresAreGenuine, Genuine, Ended

LEMMA StepGenuine == ChatInv /\ GenuineInv /\ [Next]_vars => GenuineInv'
<1> SUFFICES ASSUME ChatInv, GenuineInv, [Next]_vars PROVE GenuineInv'
  OBVIOUS
<1> USE ChatAssumption
<1>0. TypeOK /\ RequestInv
  BY DEF ChatInv
(* What a handler has received is the result of its own worker. *)
<1>r. ASSUME NEW r \in Requests, received[r] \in Answers
      PROVE  ProducedFor(received[r], KeyOf[r])
  BY <1>0, <1>r DEF RequestInv, HandlerInv, WorkerInv, ProducedFor
<1>1. ASSUME NEW r \in Requests, NEW code \in Codes, NEW from, Genuine(r, code, from),
             reply' = [reply EXCEPT ![r] = [code |-> code, from |-> from]],
             UNCHANGED cache
      PROVE  GenuineInv'
  BY <1>0, <1>1, KeepsGenuine DEF TypeOK
<1>2. ASSUME NEW r \in Requests, LimitRefuse(r) \/ Refuse(r) \/ ParseFails(r)
      PROVE  GenuineInv'
  <2>1. CASE LimitRefuse(r)
    <3>1. Genuine(r, "429", None)
      BY <2>1 DEF LimitRefuse, Genuine
    <3> QED
      BY <1>1, <2>1, <3>1 DEF LimitRefuse, Answer, Codes
  <2>2. CASE Refuse(r)
    <3>1. Genuine(r, "400", None)
      BY DEF Genuine
    <3> QED
      BY <1>1, <2>2, <3>1 DEF Refuse, Answer, Codes
  <2>3. CASE ParseFails(r)
    <3>1. Genuine(r, "unparsed", None)
      BY DEF Genuine
    <3> QED
      BY <1>1, <2>3, <3>1 DEF ParseFails, Answer, Codes
  <2> QED
    BY <1>2, <2>1, <2>2, <2>3
<1>3. ASSUME NEW r \in Requests, Late(r) \/ Unavailable(r) \/ NilPanics(r)
      PROVE  GenuineInv'
  <2>1. CASE Late(r)
    <3>1. Genuine(r, "timeout", None)
      BY <1>0, <2>1 DEF Late, Genuine, RequestInv, HandlerInv
    <3> QED
      BY <1>1, <2>1, <3>1 DEF Late, Answer, Codes
  <2>2. CASE Unavailable(r)
    <3>1. Genuine(r, "503", None)
      BY <1>0, <2>2 DEF Unavailable, Genuine, RequestInv, HandlerInv
    <3> QED
      BY <1>1, <2>2, <3>1 DEF Unavailable, Answer, Codes
  <2>3. CASE NilPanics(r)
    <3>1. Genuine(r, "panic", None)
      BY <1>0, <2>3 DEF NilPanics, Genuine, RequestInv, HandlerInv
    <3> QED
      BY <1>1, <2>3, <3>1 DEF NilPanics, Answer, Codes
  <2> QED
    BY <1>3, <2>1, <2>2, <2>3
<1>4. ASSUME NEW r \in Requests, Hit(r) PROVE GenuineInv'
  <2>1. Genuine(r, "200", cache[CacheKey(r)])
    BY <1>4 DEF Hit, Genuine, GenuineInv, AnswersAreGenuine, CacheKey
  <2> QED
    BY <1>1, <1>4, <2>1 DEF Hit, Answer, Codes
<1>5. ASSUME NEW r \in Requests, Send(r) PROVE GenuineInv'
  <2>1. Genuine(r, "200", received[r])
    BY <1>0, <1>5, <1>r DEF Send, Genuine, RequestInv, HandlerInv
  <2> QED
    BY <1>1, <1>5, <2>1 DEF Send, Answer, Codes
<1>6. ASSUME NEW r \in Requests, Store(r) PROVE GenuineInv'
  <2>1. ProducedFor(received[r], KeyOf[r]) /\ UNCHANGED <<reply, result>>
    BY <1>6, <1>r DEF Store, wvars
  <2>2. ASSUME NEW k \in Keys, cache'[k] # cache[k] PROVE ProducedFor(cache[k], k)'
    BY <1>0, <1>6, <2>1, <2>2 DEF Store, ProducedFor, CacheKey, TypeOK
  <2> QED
    BY <2>1, <2>2, KeepsGenuine
<1>7. ASSUME NEW k \in Keys, Evict(k) PROVE GenuineInv'
  <2>1. UNCHANGED reply /\ \A j \in Keys : cache'[j] \in {None, cache[j]}
    BY <1>0, <1>7 DEF Evict, hvars, TypeOK
  <2> QED
    BY <2>1, KeepsGenuine
<1>8. CASE UNCHANGED <<reply, cache>>
  BY <1>8, KeepsGenuine
<1> QED
  BY <1>2, <1>3, <1>4, <1>5, <1>6, <1>7, <1>8
     DEF Next, HandlerStep, WorkerStep, LimitPass, Launch, TakeResult, TakeClosed, TakeDone,
         Park, Succeed, Return, Abort, Check, Call, CallOk, CallFails, BackoffEnds, Deliver, Close,
         Disconnect, Expire, hvars, vars

(* Whatever is cached or sent as an answer was produced by an attempt that        *)
(* succeeded, for a request with the same body, through any retries,            *)
(* cancellations and hits of any number of requests (chat.go:91-97, 363-399).    *)
THEOREM Answering == Spec => []AnswersAreGenuine
<1>1. GenuineInv => AnswersAreGenuine
  BY DEF GenuineInv
<1> QED
  BY <1>1, InitChat, StepChat, InitGenuine, StepGenuine, PTL DEF Spec

(* A client is told of a failure only when there was one: Retry failed attempts, *)
(* or the end of the context (chat.go:134-150, 183-235).                       *)
THEOREM Failing == Spec => []FailuresAreGenuine
<1>1. GenuineInv => FailuresAreGenuine
  BY DEF GenuineInv
<1> QED
  BY <1>1, InitChat, StepChat, InitGenuine, StepGenuine, PTL DEF Spec
-----------------------------------------------------------------------------
(* That a request is answered is a matter of fairness; that it does not go      *)
(* round in circles is not.  Its rank counts what may still happen to it: the   *)
(* places ahead of its handler and of its worker, four for each attempt left,   *)
(* and the end of its context.                                               *)
HandlerAhead == [limit |-> 9, bind |-> 8, select |-> 7, parked |-> 6, late |-> 5,
                 received |-> 5, parse |-> 4, send |-> 3, return |-> 2, done |-> 1]

WorkerAhead == [call |-> 6, backoff |-> 5, none |-> 4, top |-> 4, begin |-> 3,
                deliver |-> 2, closing |-> 1, closed |-> 0]

AttemptsAhead(r) ==
  IF worker[r] \in {"none", "top", "begin", "call", "backoff"}
    THEN 4 * (Retry - attempt[r]) ELSE 0

HandlerRank(r) == HandlerAhead[handler[r]]
WorkerRank(r)  == WorkerAhead[worker[r]] + AttemptsAhead(r)
ContextRank(r) == IF CtxDone(r) THEN 0 ELSE 1

Rank(r) == HandlerRank(r) + WorkerRank(r) + ContextRank(r)

LEMMA RankType ==
  ASSUME TypeOK, NEW r \in Requests
  PROVE  /\ HandlerRank(r) \in Nat /\ WorkerRank(r) \in Nat /\ ContextRank(r) \in {0, 1}
         /\ AttemptsAhead(r) \in Nat /\ Retry - attempt[r] \in Nat
<1>1. handler[r] \in HandlerPlaces /\ worker[r] \in WorkerPlaces
  BY DEF TypeOK
<1>2. Retry - attempt[r] \in Nat
  BY ChatAssumption DEF TypeOK
<1>3. HandlerAhead[handler[r]] \in Nat
  BY <1>1 DEF HandlerPlaces, HandlerAhead
<1>4. WorkerAhead[worker[r]] \in Nat
  BY <1>1 DEF WorkerPlaces, WorkerAhead
<1>5. AttemptsAhead(r) \in Nat
  BY <1>2 DEF AttemptsAhead
<1> QED
  BY <1>2, <1>3, <1>4, <1>5 DEF HandlerRank, WorkerRank, ContextRank

(* The end of a context is for good. *)
LEMMA ContextStays ==
  ASSUME NEW r \in Requests, CtxDone(r) => CtxDone(r)'
  PROVE  ContextRank(r)' \in {0, 1} /\ ContextRank(r)' =< ContextRank(r)
BY DEF ContextRank

(* A step of the handler brings it forward, and may start the worker. *)
LEMMA HandlerDescends ==
  ASSUME ChatInv, NEW r \in Requests, LimitPass(r) \/ LimitRefuse(r) \/ HandlerStep(r)
  PROVE  Rank(r)' < Rank(r)
<1> USE DEF hvars, wvars, cvars, HandlerTo, WorkerTo, Answer
<1>0. TypeOK
  BY DEF ChatInv
<1>1. handler \in [Requests -> HandlerPlaces] /\ worker \in [Requests -> WorkerPlaces]
  BY <1>0 DEF TypeOK
<1>2. HandlerRank(r) \in Nat /\ WorkerRank(r) \in Nat /\ ContextRank(r) \in {0, 1}
  BY <1>0, RankType
<1>3. HandlerRank(r)' \in Nat /\ HandlerRank(r)' < HandlerRank(r)
  <2> USE <1>1 DEF HandlerRank, HandlerAhead
  <2>1. CASE LimitPass(r) \/ LimitRefuse(r)
    BY <2>1 DEF LimitPass, LimitRefuse
  <2>2. CASE Refuse(r) \/ Hit(r) \/ Launch(r)
    BY <2>2 DEF Refuse, Hit, Launch
  <2>3. CASE TakeResult(r) \/ TakeClosed(r) \/ TakeDone(r) \/ Park(r)
    BY <2>3 DEF TakeResult, TakeClosed, TakeDone, Park
  <2>4. CASE Late(r) \/ Unavailable(r) \/ Succeed(r)
    BY <2>4 DEF Late, Unavailable, Succeed
  <2>5. CASE NilPanics(r) \/ ParseFails(r) \/ Store(r)
    BY <2>5 DEF NilPanics, ParseFails, Store
  <2>6. CASE Send(r) \/ Return(r)
    BY <2>6 DEF Send, Return
  <2> QED
    BY <2>1, <2>2, <2>3, <2>4, <2>5, <2>6 DEF HandlerStep
<1>4. WorkerRank(r)' \in Nat /\ WorkerRank(r)' =< WorkerRank(r)
  <2>1. CASE Launch(r)
    <3>1. worker[r] \in WorkerPlaces /\ worker'[r] = "top" /\ attempt'[r] = attempt[r]
      BY <1>1, <2>1 DEF Launch
    <3>2. AttemptsAhead(r) \in Nat /\ Retry - attempt[r] \in Nat
      BY <1>0, RankType
    <3>3. worker[r] = "none"
      BY <2>1 DEF ChatInv, RequestInv, HandlerInv, Launch
    <3> QED
      BY <3>1, <3>2, <3>3 DEF WorkerRank, WorkerAhead, AttemptsAhead
  <2>2. CASE ~Launch(r)
    <3>1. UNCHANGED <<worker, attempt>>
      BY <2>2 DEF HandlerStep, LimitPass, LimitRefuse, Refuse, Hit, TakeResult, TakeClosed, TakeDone,
             Park, Late, Unavailable, Succeed, NilPanics, ParseFails, Store, Send, Return
    <3> QED
      BY <1>2, <3>1 DEF WorkerRank, AttemptsAhead
  <2> QED
    BY <2>1, <2>2
<1>5. CtxDone(r) => CtxDone(r)'
  <2>1. CASE Return(r)
    BY <1>0, <2>1 DEF Return, CtxDone, TypeOK
  <2>2. CASE ~Return(r)
    <3>1. UNCHANGED cvars
      BY <2>2 DEF HandlerStep, LimitPass, LimitRefuse, Refuse, Hit, Launch, TakeResult, TakeClosed,
             TakeDone, Park, Late, Unavailable, Succeed, NilPanics, ParseFails, Store, Send
    <3> QED
      BY <3>1 DEF CtxDone
  <2> QED
    BY <2>1, <2>2
<1>6. ContextRank(r)' \in {0, 1} /\ ContextRank(r)' =< ContextRank(r)
  BY <1>5, ContextStays
<1> HIDE DEF HandlerRank, WorkerRank, ContextRank
<1> QED
  BY <1>2, <1>3, <1>4, <1>6 DEF Rank

(* A step of the worker brings it forward, and may hand its result to a handler  *)
(* that is parked.                                                           *)
LEMMA WorkerDescends ==
  ASSUME ChatInv, NEW r \in Requests, WorkerStep(r)
  PROVE  Rank(r)' < Rank(r)
<1> USE DEF hvars, wvars, cvars, HandlerTo, WorkerTo, Finish
<1>0. TypeOK
  BY DEF ChatInv
<1>1. /\ handler \in [Requests -> HandlerPlaces] /\ worker \in [Requests -> WorkerPlaces]
      /\ attempt \in [Requests -> 0..Retry] /\ Retry \in Nat
  BY <1>0, ChatAssumption DEF TypeOK
<1>2. /\ HandlerRank(r) \in Nat /\ WorkerRank(r) \in Nat /\ ContextRank(r) \in {0, 1}
      /\ Retry - attempt[r] \in Nat
  BY <1>0, RankType
<1>3. WorkerRank(r)' \in Int /\ WorkerRank(r)' < WorkerRank(r)
  <2> USE <1>1 DEF WorkerRank, WorkerAhead, AttemptsAhead
  <2>1. CASE Abort(r)
    <3>1. worker[r] \in {"top", "backoff"} /\ worker'[r] = "deliver"
      BY <2>1 DEF Abort
    <3> QED
      BY <1>2, <3>1
  <2>2. CASE Call(r)
    <3>1. worker[r] = "begin" /\ worker'[r] = "call" /\ attempt'[r] = attempt[r] + 1
      BY <2>2 DEF Call
    <3> QED
      BY <3>1
  <2>3. CASE CallOk(r) \/ CallFails(r)
    <3>1. /\ worker[r] = "call" /\ worker'[r] \in {"deliver", "backoff"}
          /\ attempt'[r] = attempt[r]
      BY <2>3 DEF CallOk, CallFails
    <3> QED
      BY <1>2, <3>1
  <2>4. CASE BackoffEnds(r)
    <3>1. worker[r] = "backoff" /\ worker'[r] = "top" /\ attempt'[r] = attempt[r]
      BY <2>4 DEF BackoffEnds
    <3> QED
      BY <3>1
  <2>5. CASE Deliver(r) \/ Close(r)
    <3>1. \/ worker[r] = "deliver" /\ worker'[r] = "closing"
          \/ worker[r] = "closing" /\ worker'[r] = "closed"
      BY <2>5 DEF Deliver, Close
    <3> QED
      BY <3>1
  <2>6. CASE Check(r)
    <3>1. worker[r] = "top" /\ worker'[r] = "begin" /\ attempt'[r] = attempt[r]
      BY <2>6 DEF Check
    <3> QED
      BY <3>1
  <2> QED
    BY <2>1, <2>2, <2>3, <2>4, <2>5, <2>6 DEF WorkerStep
<1>4. HandlerRank(r)' \in Nat /\ HandlerRank(r)' =< HandlerRank(r)
  <2>1. UNCHANGED handler \/ (handler[r] = "parked" /\ handler'[r] = "received")
    BY <1>1 DEF WorkerStep, Abort, Check, Call, CallOk, CallFails, BackoffEnds, Deliver, Close, Put
  <2> QED
    BY <1>2, <2>1 DEF HandlerRank, HandlerAhead
<1>5. ContextRank(r)' = ContextRank(r)
  <2>1. UNCHANGED cvars
    BY DEF WorkerStep, Abort, Check, Call, CallOk, CallFails, BackoffEnds, Deliver, Close
  <2> QED
    BY <2>1 DEF ContextRank, CtxDone
<1> HIDE DEF HandlerRank, WorkerRank, ContextRank
<1> QED
  BY <1>2, <1>3, <1>4, <1>5 DEF Rank

(* The context ends once; a parked handler is woken by it. *)
LEMMA ContextDescends ==
  ASSUME TypeOK, NEW r \in Requests, Disconnect(r) \/ Expire(r)
  PROVE  Rank(r)' < Rank(r)
<1> USE DEF hvars, wvars, cvars
<1>1. handler \in [Requests -> HandlerPlaces]
  BY DEF TypeOK
<1>2. HandlerRank(r) \in Nat /\ WorkerRank(r) \in Nat /\ ContextRank(r) \in {0, 1}
  BY RankType
<1>3. HandlerRank(r)' \in Nat /\ HandlerRank(r)' =< HandlerRank(r)
  <2>1. handler'[r] = (IF handler[r] = "parked" THEN "late" ELSE handler[r])
    BY <1>1 DEF Disconnect, Expire, WakeLate
  <2>2. CASE handler[r] = "parked"
    BY <2>1, <2>2 DEF HandlerRank, HandlerAhead
  <2>3. CASE handler[r] # "parked"
    BY <1>2, <2>1, <2>3 DEF HandlerRank
  <2> QED
    BY <2>2, <2>3
<1>4. WorkerRank(r)' = WorkerRank(r)
  BY DEF Disconnect, Expire, WorkerRank, AttemptsAhead
<1>5. ContextRank(r) = 1 /\ ContextRank(r)' = 0
  BY DEF Disconnect, Expire, ContextRank, CtxDone, TypeOK
<1> HIDE DEF HandlerRank, WorkerRank, ContextRank
<1> QED
  BY <1>2, <1>3, <1>4, <1>5 DEF Rank

(* What happens to one request leaves the others where they are. *)
LEMMA RankStays ==
  ASSUME NEW q \in Requests, handler'[q] = handler[q], worker'[q] = worker[q],
         attempt'[q] = attempt[q], gone'[q] = gone[q], expired'[q] = expired[q],
         released'[q] = released[q]
  PROVE  Rank(q)' = Rank(q)
BY DEF Rank, HandlerRank, WorkerRank, AttemptsAhead, ContextRank, CtxDone

RequestStep(r) ==
  \/ LimitPass(r) \/ LimitRefuse(r) \/ HandlerStep(r) \/ WorkerStep(r)
  \/ Disconnect(r) \/ Expire(r)

LEMMA OthersStay ==
  ASSUME TypeOK, NEW r \in Requests, RequestStep(r), NEW q \in Requests, q # r
  PROVE  Rank(q)' = Rank(q)
<1> USE DEF TypeOK, hvars, wvars, cvars, HandlerTo, WorkerTo, Answer, Finish
<1>1. handler'[q] = handler[q]
  BY DEF RequestStep, HandlerStep, WorkerStep, LimitPass, LimitRefuse, Refuse, Hit, Launch,
         TakeResult, TakeClosed, TakeDone, Park, Late, Unavailable, Succeed, NilPanics, ParseFails,
         Store, Send, Return, Abort, Check, Call, CallOk, CallFails, BackoffEnds, Deliver, Close, Put,
         Disconnect, Expire, WakeLate
<1>2. worker'[q] = worker[q] /\ attempt'[q] = attempt[q]
  BY DEF RequestStep, HandlerStep, WorkerStep, LimitPass, LimitRefuse, Refuse, Hit, Launch,
         TakeResult, TakeClosed, TakeDone, Park, Late, Unavailable, Succeed, NilPanics, ParseFails,
         Store, Send, Return, Abort, Check, Call, CallOk, CallFails, BackoffEnds, Deliver, Close,
         Disconnect, Expire
<1>3. gone'[q] = gone[q] /\ expired'[q] = expired[q] /\ released'[q] = released[q]
  BY DEF RequestStep, HandlerStep, WorkerStep, LimitPass, LimitRefuse, Refuse, Hit, Launch,
         TakeResult, TakeClosed, TakeDone, Park, Late, Unavailable, Succeed, NilPanics, ParseFails,
         Store, Send, Return, Abort, Check, Call, CallOk, CallFails, BackoffEnds, Deliver, Close,
         Disconnect, Expire
<1> QED
  BY <1>1, <1>2, <1>3, RankStays

(* Every step of a request, of its context's end included, lowers its rank and  *)
(* leaves those of the others; only evictions from the cache lower none.  So a    *)
(* request makes no more steps than its rank at the start, whatever the backend,  *)
(* the client and the cache do (chat.go:125-175, 192-235).                     *)
Forward ==
  \/ \E r \in Requests : /\ Rank(r)' < Rank(r)
                        /\ \A q \in Requests \ {r} : Rank(q)' = Rank(q)
  \/ UNCHANGED <<hvars, wvars, cvars>>

THEOREM Descending ==
  Spec => /\ \A r \in Requests : Rank(r) = 4 * Retry + 14
          /\ [](\A r \in Requests : Rank(r) \in Nat)
          /\ [][Forward]_vars
<1>1. Init => \A r \in Requests : Rank(r) = 4 * Retry + 14
  BY ChatAssumption
     DEF Init, Rank, HandlerRank, HandlerAhead, WorkerRank, WorkerAhead, AttemptsAhead,
         ContextRank, CtxDone
<1>2. ChatInv => \A r \in Requests : Rank(r) \in Nat
  <2> SUFFICES ASSUME ChatInv, NEW r \in Requests PROVE Rank(r) \in Nat
    OBVIOUS
  <2>1. HandlerRank(r) \in Nat /\ WorkerRank(r) \in Nat /\ ContextRank(r) \in {0, 1}
    BY RankType DEF ChatInv
  <2> QED
    BY <2>1 DEF Rank
<1>3. ChatInv /\ [Next]_vars => [Forward]_vars
  <2> SUFFICES ASSUME ChatInv, Next PROVE Forward
    OBVIOUS
  <2>0. TypeOK
    BY DEF ChatInv
  <2>1. ASSUME NEW r \in Requests, RequestStep(r) PROVE Forward
    <3>1. Rank(r)' < Rank(r)
      BY <2>0, <2>1, HandlerDescends, WorkerDescends, ContextDescends DEF RequestStep
    <3>2. \A q \in Requests \ {r} : Rank(q)' = Rank(q)
      BY <2>0, <2>1, OthersStay
    <3> QED
      BY <3>1, <3>2 DEF Forward
  <2>2. ASSUME NEW k \in Keys, Evict(k) PROVE Forward
    BY <2>2 DEF Evict, Forward
  <2> QED
    BY <2>1, <2>2 DEF Next, RequestStep
<1> QED
  BY <1>1, <1>2, <1>3, InitChat, StepChat, PTL DEF Spec
=============================================================================
