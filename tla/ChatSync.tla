------------------------------ MODULE ChatSync ------------------------------
(***************************************************************************)
(* Non-streaming chat completions (service/chat.go): for every request the  *)
(* handler goroutine, the worker goroutine that calls the backend with      *)
(* retries, the channel between them, and the request's context (client     *)
(* disconnect, deadline, deferred cancel).  The requests share the response *)
(* cache.                                                                   *)
(*                                                                          *)
(* A select that finds nothing ready parks its goroutine, and the event that *)
(* makes a case ready then decides which case runs; a select that finds     *)
(* several cases ready takes any of them.  Both matter here, so "select"    *)
(* (about to look) and "parked" are different places of the handler.        *)
(***************************************************************************)
EXTENDS Integers, FiniteSets

CONSTANTS Requests,
          Keys,       \* cache keys
          KeyOf,      \* the key of each request: equal for equal bodies
          Retry,      \* config.Client.Retry
          CacheOn,    \* the response cache is enabled
          None,       \* no value
          Failed,     \* a result that carries an error
          Zero        \* what a closed channel yields: no error and no response

(* An answer is named by the request and the attempt that produced it. *)
Answers == Requests \X (1..Retry)

ASSUME ChatAssumption ==
  /\ None # Failed /\ None # Zero /\ Failed # Zero
  /\ {None, Failed, Zero} \cap Answers = {}
  /\ KeyOf \in [Requests -> Keys]
  /\ Retry \in Nat \ {0}
  /\ CacheOn \in BOOLEAN

VARIABLES
  handler,   \* place of the handler goroutine of each request
  worker,    \* place of its worker goroutine
  attempt,   \* attempts the worker has begun
  result,    \* what executeRequestWithRetry returned
  channel,   \* the buffered result channel
  received,  \* what the handler took from the channel
  gone,      \* the client disconnected: its context is done
  expired,   \* the deadline of the derived context passed
  released,  \* the deferred cancel ran
  reply,     \* what was written to the client
  cache,     \* the response cache
  atReturn   \* history: the attempts begun when the handler returned

hvars == <<handler, received, reply>>
wvars == <<worker, attempt, result, channel>>
cvars == <<gone, expired, released, atReturn>>
vars  == <<handler, worker, attempt, result, channel, received, gone, expired,
           released, reply, cache, atReturn>>

CtxDone(r) == gone[r] \/ expired[r] \/ released[r]

CacheKey(r) == KeyOf[r]

Init ==
  /\ handler  = [r \in Requests |-> "limit"]
  /\ worker   = [r \in Requests |-> "none"]
  /\ attempt  = [r \in Requests |-> 0]
  /\ result   = [r \in Requests |-> None]
  /\ channel  = [r \in Requests |-> None]
  /\ received = [r \in Requests |-> None]
  /\ gone     = [r \in Requests |-> FALSE]
  /\ expired  = [r \in Requests |-> FALSE]
  /\ released = [r \in Requests |-> FALSE]
  /\ reply    = [r \in Requests |-> None]
  /\ cache    = [k \in Keys |-> None]
  /\ atReturn = [r \in Requests |-> 0]

HandlerTo(r, place) == handler' = [handler EXCEPT ![r] = place]
WorkerTo(r, place)  == worker' = [worker EXCEPT ![r] = place]

(* The handler writes its reply and is about to run its deferred calls. *)
Answer(r, code, from) ==
  /\ reply' = [reply EXCEPT ![r] = [code |-> code, from |-> from]]
  /\ HandlerTo(r, "return")
-----------------------------------------------------------------------------
(* preprocessChatRequest *)

(* The rate limiter lets the request through (its polling is in TokenBucket). *)
LimitPass(r) ==
  /\ handler[r] = "limit"
  /\ HandlerTo(r, "bind")
  /\ UNCHANGED <<received, reply, wvars, cvars, cache>>

(* Wait gives up only when the client is gone. *)
LimitRefuse(r) ==
  /\ handler[r] = "limit" /\ gone[r]
  /\ Answer(r, "429", None)
  /\ UNCHANGED <<received, wvars, cvars, cache>>

(* The body cannot be bound, or chatParamCheck refuses it (bodies are abstract: *)
(* either may happen).                                                       *)
Refuse(r) ==
  /\ handler[r] = "bind"
  /\ Answer(r, "400", None)
  /\ UNCHANGED <<received, wvars, cvars, cache>>

Hit(r) ==
  /\ handler[r] = "bind"
  /\ CacheOn /\ cache[CacheKey(r)] # None
  /\ Answer(r, "200", cache[CacheKey(r)])
  /\ UNCHANGED <<received, wvars, cvars, cache>>

(* No cached answer: handleSyncRequest derives the context with the deadline *)
(* and doChatRequestRegular starts the worker.                               *)
Launch(r) ==
  /\ handler[r] = "bind"
  /\ ~(CacheOn /\ cache[CacheKey(r)] # None)
  /\ HandlerTo(r, "select")
  /\ WorkerTo(r, "top")
  /\ UNCHANGED <<received, reply, attempt, result, channel, cvars, cache>>
-----------------------------------------------------------------------------
(* The select of handleSyncRequest *)

TakeResult(r) ==
  /\ handler[r] = "select" /\ channel[r] # None
  /\ received' = [received EXCEPT ![r] = channel[r]]
  /\ channel' = [channel EXCEPT ![r] = None]
  /\ HandlerTo(r, "received")
  /\ UNCHANGED <<reply, worker, attempt, result, cvars, cache>>

TakeClosed(r) ==
  /\ handler[r] = "select" /\ channel[r] = None /\ worker[r] = "closed"
  /\ received' = [received EXCEPT ![r] = Zero]
  /\ HandlerTo(r, "received")
  /\ UNCHANGED <<reply, wvars, cvars, cache>>

TakeDone(r) ==
  /\ handler[r] = "select" /\ CtxDone(r)
  /\ HandlerTo(r, "late")
  /\ UNCHANGED <<received, reply, wvars, cvars, cache>>

Park(r) ==
  /\ handler[r] = "select"
  /\ channel[r] = None /\ worker[r] # "closed" /\ ~CtxDone(r)
  /\ HandlerTo(r, "parked")
  /\ UNCHANGED <<received, reply, wvars, cvars, cache>>

(* The context of r becomes done: a parked handler is woken by it. *)
WakeLate(r) ==
  handler' = [handler EXCEPT ![r] = IF @ = "parked" THEN "late" ELSE @]
-----------------------------------------------------------------------------
(* The rest of handleSyncRequest and handleRegularResponse *)

Late(r) ==
  /\ handler[r] = "late"
  /\ Answer(r, "timeout", None)
  /\ UNCHANGED <<received, wvars, cvars, cache>>

Unavailable(r) ==
  /\ handler[r] = "received" /\ received[r] = Failed
  /\ Answer(r, "503", None)
  /\ UNCHANGED <<received, wvars, cvars, cache>>

(* No error in the result: it is taken for a success. *)
Succeed(r) ==
  /\ handler[r] = "received" /\ received[r] # Failed
  /\ HandlerTo(r, "parse")
  /\ UNCHANGED <<received, reply, wvars, cvars, cache>>

(* Fault: the recovered panic is logged and nothing is written. *)
NilPanicsSilently(r) ==
  /\ handler[r] = "parse" /\ received[r] = Zero
  /\ HandlerTo(r, "return")
  /\ UNCHANGED <<received, reply, wvars, cvars, cache>>

(* parseResponseBody dereferences a nil response; the panic unwinds to        *)
(* ErrorMiddleware, which answers.                                           *)
NilPanics(r) ==
  /\ handler[r] = "parse" /\ received[r] = Zero
  /\ Answer(r, "panic", None)
  /\ UNCHANGED <<received, wvars, cvars, cache>>

(* A line is too long, or the client is seen to be gone between two lines. *)
ParseFails(r) ==
  /\ handler[r] = "parse" /\ received[r] \in Answers
  /\ Answer(r, "unparsed", None)
  /\ UNCHANGED <<received, wvars, cvars, cache>>

(* Fault: an empty answer is stored for a missing response. *)
StoreUnchecked(r) ==
  /\ handler[r] = "parse"
  /\ cache' = IF CacheOn THEN [cache EXCEPT ![CacheKey(r)] = received[r]] ELSE cache
  /\ HandlerTo(r, "send")
  /\ UNCHANGED <<received, reply, wvars, cvars>>

(* createAndSendResponse stores the answer, then writes it. *)
Store(r) ==
  /\ handler[r] = "parse" /\ received[r] \in Answers
  /\ cache' = IF CacheOn THEN [cache EXCEPT ![CacheKey(r)] = received[r]] ELSE cache
  /\ HandlerTo(r, "send")
  /\ UNCHANGED <<received, reply, wvars, cvars>>

Send(r) ==
  /\ handler[r] = "send"
  /\ Answer(r, "200", received[r])
  /\ UNCHANGED <<received, wvars, cvars, cache>>

(* The handler returns: its deferred cancel runs. *)
Return(r) ==
  /\ handler[r] = "return"
  /\ released' = [released EXCEPT ![r] = TRUE]
  /\ atReturn' = [atReturn EXCEPT ![r] = attempt[r]]
  /\ HandlerTo(r, "done")
  /\ UNCHANGED <<received, reply, wvars, gone, expired, cache>>
-----------------------------------------------------------------------------
(* executeRequestWithRetry, in the worker *)

Finish(r, value) ==
  /\ result' = [result EXCEPT ![r] = value]
  /\ WorkerTo(r, "deliver")

(* The context is done at the top of the loop or during a backoff. *)
Abort(r) ==
  /\ worker[r] \in {"top", "backoff"} /\ CtxDone(r)
  /\ Finish(r, Failed)
  /\ UNCHANGED <<hvars, attempt, channel, cvars, cache>>

(* Fault: the loop does not look at the context. *)
CheckNothing(r) ==
  /\ worker[r] = "top"
  /\ WorkerTo(r, "begin")
  /\ UNCHANGED <<hvars, attempt, result, channel, cvars, cache>>

(* The select at the top of the loop finds the context alive ... *)
Check(r) ==
  /\ worker[r] = "top" /\ ~CtxDone(r)
  /\ WorkerTo(r, "begin")
  /\ UNCHANGED <<hvars, attempt, result, channel, cvars, cache>>

(* ... and the attempt begins, whatever has become of the context meanwhile. *)
Call(r) ==
  /\ worker[r] = "begin"
  /\ attempt' = [attempt EXCEPT ![r] = @ + 1]
  /\ WorkerTo(r, "call")
  /\ UNCHANGED <<hvars, result, channel, cvars, cache>>

(* executeRequest returns a 200 response. *)
CallOk(r) ==
  /\ worker[r] = "call"
  /\ Finish(r, <<r, attempt[r]>>)
  /\ UNCHANGED <<hvars, attempt, channel, cvars, cache>>

(* Fault: one failed attempt ends the loop. *)
CallFailsAtOnce(r) ==
  /\ worker[r] = "call"
  /\ Finish(r, Failed)
  /\ UNCHANGED <<hvars, attempt, channel, cvars, cache>>

(* Fault: the loop counts its attempts from zero to Retry. *)
CallFailsOffByOne(r) ==
  /\ worker[r] = "call"
  /\ IF attempt[r] =< Retry
       THEN WorkerTo(r, "backoff") /\ UNCHANGED result
       ELSE Finish(r, Failed)
  /\ UNCHANGED <<hvars, attempt, channel, cvars, cache>>

(* The attempt fails (transport error or status): back off, or give up. *)
CallFails(r) ==
  /\ worker[r] = "call"
  /\ IF attempt[r] < Retry
       THEN WorkerTo(r, "backoff") /\ UNCHANGED result
       ELSE Finish(r, Failed)
  /\ UNCHANGED <<hvars, attempt, channel, cvars, cache>>

BackoffEnds(r) ==
  /\ worker[r] = "backoff"
  /\ WorkerTo(r, "top")
  /\ UNCHANGED <<hvars, attempt, result, channel, cvars, cache>>
-----------------------------------------------------------------------------
(* The end of the goroutine of doChatRequestRegular *)

(* A value for the channel: a parked handler takes it at once. *)
Put(r, value) ==
  IF handler[r] = "parked"
    THEN /\ received' = [received EXCEPT ![r] = value]
         /\ HandlerTo(r, "received")
         /\ UNCHANGED channel
    ELSE /\ channel' = [channel EXCEPT ![r] = value]
         /\ UNCHANGED <<handler, received>>

(* Fault: the channel has no buffer and the send does not watch the context. *)
DeliverUnbuffered(r) ==
  /\ worker[r] = "deliver" /\ handler[r] = "parked"
  /\ Put(r, result[r])
  /\ WorkerTo(r, "closing")
  /\ UNCHANGED <<reply, attempt, result, cvars, cache>>

(* The select that sends the result: the buffer always has room, so both      *)
(* cases can be ready, and then the result may be dropped.                    *)
Deliver(r) ==
  /\ worker[r] = "deliver"
  /\ \/ Put(r, result[r])
     \/ CtxDone(r) /\ UNCHANGED <<handler, received, channel>>
  /\ WorkerTo(r, "closing")
  /\ UNCHANGED <<reply, attempt, result, cvars, cache>>

(* The deferred close; a parked handler would receive the zero value. *)
Close(r) ==
  /\ worker[r] = "closing"
  /\ WorkerTo(r, "closed")
  /\ IF handler[r] = "parked" THEN Put(r, Zero)
                              ELSE UNCHANGED <<handler, received, channel>>
  /\ UNCHANGED <<reply, attempt, result, cvars, cache>>
-----------------------------------------------------------------------------
(* The environment *)

(* Once the context is done for another reason, a disconnect changes nothing. *)
Disconnect(r) ==
  /\ handler[r] # "done" /\ ~CtxDone(r)
  /\ gone' = [gone EXCEPT ![r] = TRUE]
  /\ WakeLate(r)
  /\ UNCHANGED <<received, reply, wvars, expired, released, atReturn, cache>>

(* The deadline of context.WithTimeout, armed from Launch to Return. *)
Expire(r) ==
  /\ worker[r] # "none" /\ handler[r] # "done" /\ ~CtxDone(r)
  /\ expired' = [expired EXCEPT ![r] = TRUE]
  /\ WakeLate(r)
  /\ UNCHANGED <<received, reply, wvars, gone, released, atReturn, cache>>

(* An entry reaches its TTL, or the cache is cleared. *)
Evict(k) ==
  /\ cache[k] # None
  /\ cache' = [cache EXCEPT ![k] = None]
  /\ UNCHANGED <<hvars, wvars, cvars>>

HandlerStep(r) ==
  \/ Refuse(r) \/ Hit(r) \/ Launch(r)
  \/ TakeResult(r) \/ TakeClosed(r) \/ TakeDone(r) \/ Park(r)
  \/ Late(r) \/ Unavailable(r) \/ Succeed(r)
  \/ NilPanics(r) \/ ParseFails(r) \/ Store(r) \/ Send(r) \/ Return(r)

WorkerStep(r) ==
  \/ Abort(r) \/ Check(r) \/ Call(r) \/ CallOk(r) \/ CallFails(r) \/ BackoffEnds(r)
  \/ Deliver(r) \/ Close(r)

Next ==
  \/ \E r \in Requests :
       \/ LimitPass(r) \/ LimitRefuse(r)
       \/ HandlerStep(r) \/ WorkerStep(r)
       \/ Disconnect(r) \/ Expire(r)
  \/ \E k \in Keys : Evict(k)

(* Goroutines that can run eventually do, a call to the backend ends (the    *)
(* HTTP client has a timeout), and the deadline's timer fires.  The limiter   *)
(* promises nothing to a single request, so LimitPass is not fair.           *)
Fairness ==
  \A r \in Requests :
    WF_vars(HandlerStep(r)) /\ WF_vars(WorkerStep(r)) /\ WF_vars(Expire(r))

Spec == Init /\ [][Next]_vars /\ Fairness
-----------------------------------------------------------------------------
HandlerPlaces == {"limit", "bind", "select", "parked", "received", "late",
                  "parse", "send", "return", "done"}
WorkerPlaces  == {"none", "top", "begin", "call", "backoff", "deliver", "closing", "closed"}
Codes == {"200", "400", "429", "503", "timeout", "panic", "unparsed"}

TypeOK ==
  /\ handler \in [Requests -> HandlerPlaces]
  /\ worker \in [Requests -> WorkerPlaces]
  /\ attempt \in [Requests -> 0..Retry]
  /\ result \in [Requests -> Answers \cup {None, Failed}]
  /\ channel \in [Requests -> Answers \cup {None, Failed}]
  /\ received \in [Requests -> Answers \cup {None, Failed, Zero}]
  /\ gone \in [Requests -> BOOLEAN]
  /\ expired \in [Requests -> BOOLEAN]
  /\ released \in [Requests -> BOOLEAN]
  /\ reply \in [Requests -> [code : Codes, from : Answers \cup {None}] \cup {None}]
  /\ cache \in [Keys -> Answers \cup {None}]
  /\ atReturn \in [Requests -> 0..Retry]

(* Answers reach whom they belong to: what is cached or sent as 200, over any *)
(* number of retries, cancellations and cache hits, was produced by an attempt *)
(* that succeeded, for a request with the same body (chat.go:91-97, 363-399). *)
ProducedFor(answer, key) ==
  /\ answer \in Answers
  /\ result[answer[1]] = answer /\ KeyOf[answer[1]] = key

AnswersAreGenuine ==
  /\ \A k \in Keys : cache[k] # None => ProducedFor(cache[k], k)
  /\ \A r \in Requests :
       reply[r] # None =>
         IF reply[r].code = "200" THEN ProducedFor(reply[r].from, KeyOf[r])
                                  ELSE reply[r].from = None

(* The client is told of a failure only when there is one: 503 after Retry    *)
(* failed attempts or a cancellation, a timeout (or the panic that a dropped   *)
(* result leads to) only when the context was done (chat.go:134-150, 183-235). *)
FailuresAreGenuine ==
  \A r \in Requests :
    reply[r] # None =>
      /\ reply[r].code = "503" =>
           result[r] = Failed /\ (attempt[r] = Retry \/ gone[r] \/ expired[r])
      /\ reply[r].code \in {"timeout", "panic"} => gone[r] \/ expired[r]
      /\ reply[r].code = "429" => gone[r]

(* Orphans come to rest: the worker of a handler that has returned begins at  *)
(* most one attempt more.  It may begin that one, for between its look at the  *)
(* context and the attempt the handler may answer the deadline and return; but *)
(* however the attempt and its backoff end, another does not follow            *)
(* (chat.go:129-130, 193-204, 227-231).                                      *)
OrphansBeginAtMostOne ==
  \A r \in Requests : handler[r] = "done" => attempt[r] =< atReturn[r] + 1

(* Every request the limiter admitted is answered, whatever the backend does.  *)
EveryRequestAnswered ==
  \A r \in Requests : handler[r] = "bind" ~> reply[r] # None

(* The worker goroutine ends, also when nobody waits for its result any more  *)
(* (the buffer of resultChan and the ctx.Done case of the send).              *)
WorkersEnd == \A r \in Requests : worker[r] = "top" ~> worker[r] = "closed"

(* chat.go:143 logs a success and chat.go:25 documents the result's Resp as   *)
(* the HTTP response: what is handled as a success carries a response.        *)
SuccessHasResponse ==
  \A r \in Requests : handler[r] = "parse" => received[r] # Zero
=============================================================================
