------------------------------- MODULE Server -------------------------------
(***************************************************************************)
(* The process of main.go: requests pass ErrorMiddleware, AuthMiddleware    *)
(* and the counting middleware on their way to a handler, /metrics reads    *)
(* the three counters one by one, and a signal makes main shut the *)
(* server down, close the handler and exit.                                 *)
(***************************************************************************)
EXTENDS Integers, FiniteSets, Functions

CONSTANTS Requests,
          Scrapers,      \* the requests for /metrics
          Unauthorized   \* requests without the API key, and CORS preflights

ASSUME ServerAssumption ==
  /\ IsFiniteSet(Requests)
  /\ Scrapers \subseteq Requests /\ Unauthorized \subseteq Requests

VARIABLES
  server,   \* "running", "draining" in Shutdown, "closing", "exited"
  phase,    \* where each request is
  requestCount, successCount, errorCount,
  seen,     \* the counters each scraper has read so far
  overdue   \* Shutdown gave up after its ten seconds

counters == <<requestCount, successCount, errorCount>>
vars == <<server, phase, requestCount, successCount, errorCount, seen, overdue>>

Unread == -1

Active == {r \in Requests : phase[r] \notin {"away", "over", "panicked"}}

Init ==
  /\ server = "running" /\ overdue = FALSE
  /\ phase = [r \in Requests |-> "away"]
  /\ requestCount = 0 /\ successCount = 0 /\ errorCount = 0
  /\ seen = [r \in Requests |-> [request |-> Unread, success |-> Unread, error |-> Unread]]

Alive == server # "exited"

Move(r, from, to) == Alive /\ phase[r] = from /\ phase' = [phase EXCEPT ![r] = to]
-----------------------------------------------------------------------------
(* The listener accepts connections until Shutdown closes it. *)
Arrive(r) ==
  /\ server = "running" /\ Move(r, "away", "auth")
  /\ UNCHANGED <<server, counters, seen, overdue>>

(* AuthMiddleware aborts with 401 (and CorsMiddleware answers a preflight): the *)
(* middleware after them never run.                                          *)
Unauthorize(r) ==
  /\ r \in Unauthorized /\ Move(r, "auth", "over")
  /\ UNCHANGED <<server, counters, seen, overdue>>

(* Fault: requests are not counted on their way in. *)
CountNever(r) ==
  /\ r \notin Unauthorized
  /\ Move(r, "auth", IF r \in Scrapers THEN "scrape" ELSE "handle")
  /\ UNCHANGED <<server, counters, seen, overdue>>

Count(r) ==
  /\ r \notin Unauthorized
  /\ Move(r, "auth", IF r \in Scrapers THEN "scrape" ELSE "handle")
  /\ requestCount' = requestCount + 1
  /\ UNCHANGED <<server, successCount, errorCount, seen, overdue>>

(* The handler of a chat completion or a model list writes some status. *)
Handle(r) ==
  /\ \/ Move(r, "handle", "succeeded")
     \/ Move(r, "handle", "failed")
  /\ UNCHANGED <<server, counters, seen, overdue>>

(* The handler panics: the panic passes the counting middleware, which has no *)
(* defer, and ErrorMiddleware answers 500.                                   *)
Panic(r) ==
  /\ Move(r, "handle", "panicked")
  /\ UNCHANGED <<server, counters, seen, overdue>>

(* getMetricsHandler reads the counters one by one; the language leaves the    *)
(* order of the loads in a composite literal open.                           *)
ReadCounter(r, counter, value) ==
  /\ Alive /\ phase[r] = "scrape" /\ seen[r][counter] = Unread
  /\ seen' = [seen EXCEPT ![r][counter] = value]
  /\ phase' = [phase EXCEPT ![r] = IF Unread \in Range(seen'[r]) THEN @ ELSE "succeeded"]
  /\ UNCHANGED <<server, counters, overdue>>

(* Fault: the success counter is reported as the number of errors. *)
ReadCountersCopied(r) ==
  \/ ReadCounter(r, "request", requestCount)
  \/ ReadCounter(r, "success", successCount)
  \/ ReadCounter(r, "error", successCount)

ReadCounters(r) ==
  \/ ReadCounter(r, "request", requestCount)
  \/ ReadCounter(r, "success", successCount)
  \/ ReadCounter(r, "error", errorCount)

TallySuccess(r) ==
  /\ Move(r, "succeeded", "over")
  /\ successCount' = successCount + 1
  /\ UNCHANGED <<server, requestCount, errorCount, seen, overdue>>

(* Fault: a failed request is also counted as a success. *)
TallyErrorTwice(r) ==
  /\ Move(r, "failed", "over")
  /\ errorCount' = errorCount + 1 /\ successCount' = successCount + 1
  /\ UNCHANGED <<server, requestCount, seen, overdue>>

TallyError(r) ==
  /\ Move(r, "failed", "over")
  /\ errorCount' = errorCount + 1
  /\ UNCHANGED <<server, requestCount, successCount, seen, overdue>>
-----------------------------------------------------------------------------
(* SIGINT or SIGTERM: main calls server.Shutdown. *)
Signal ==
  /\ server = "running" /\ server' = "draining"
  /\ UNCHANGED <<phase, counters, seen, overdue>>

(* Fault: Close, which cuts the requests off, in place of Shutdown. *)
DrainNothing ==
  /\ server = "draining" /\ server' = "closing"
  /\ UNCHANGED <<phase, counters, seen, overdue>>

(* Shutdown returns once no connection is active. *)
Drained ==
  /\ server = "draining" /\ Active = {}
  /\ server' = "closing"
  /\ UNCHANGED <<phase, counters, seen, overdue>>

(* Fault: Shutdown with a context that has no deadline. *)
DrainForever ==
  /\ server = "draining" /\ Active = {} /\ overdue
  /\ server' = "closing"
  /\ UNCHANGED <<phase, counters, seen, overdue>>

(* ... or its context expires: the error is logged and main goes on. *)
DrainTimeout ==
  /\ server = "draining" /\ server' = "closing"
  /\ overdue' = TRUE
  /\ UNCHANGED <<phase, counters, seen>>

(* handler.Close releases nothing a request depends on; main returns. *)
Exit ==
  /\ server = "closing" /\ server' = "exited"
  /\ UNCHANGED <<phase, counters, seen, overdue>>

RequestStep(r) ==
  \/ Arrive(r) \/ Unauthorize(r) \/ Count(r) \/ Handle(r) \/ Panic(r)
  \/ ReadCounters(r)
  \/ TallySuccess(r) \/ TallyError(r)

ShutdownStep == Drained \/ DrainTimeout \/ Exit

Next == (\E r \in Requests : RequestStep(r)) \/ Signal \/ ShutdownStep

(* The main goroutine runs and the timer of Shutdown fires.  A request may    *)
(* take as long as it likes, a stream is open for minutes.                   *)
Spec == Init /\ [][Next]_vars /\ WF_vars(ShutdownStep)
-----------------------------------------------------------------------------
Phases == {"away", "auth", "handle", "scrape", "succeeded",
           "failed", "panicked", "over"}

TypeOK ==
  /\ server \in {"running", "draining", "closing", "exited"}
  /\ phase \in [Requests -> Phases]
  /\ requestCount \in 0..Cardinality(Requests)
  /\ successCount \in 0..requestCount /\ errorCount \in 0..requestCount
  /\ seen \in [Requests -> [request : -1..requestCount, success : -1..requestCount,
                            error : -1..requestCount]]
  /\ overdue \in BOOLEAN

(* Every request that was counted is on its way, has been counted once more   *)
(* as a success or as an error, or panicked (main.go:100-114).                *)
InFlight == {r \in Requests : phase[r] \in Phases \ {"away", "auth", "over", "panicked"}}
Panicked == {r \in Requests : phase[r] = "panicked"}

CountersAddUp ==
  requestCount =
    successCount + errorCount + Cardinality(InFlight) + Cardinality(Panicked)

(* What /metrics reports as finished was finished among the requests before   *)
(* the scrape itself ended, though the counters are read one by one while     *)
(* requests come and go: never more than were counted besides the scrape.     *)
ScrapeShowsNoGhosts ==
  \A r \in Scrapers :
    phase[r] = "succeeded" => seen[r].success + seen[r].error < requestCount

(* Shutdown is graceful: from the moment main closes the handler no request is *)
(* on its way and none gets in, unless Shutdown ran into its deadline         *)
(* (main.go:147-159).                                                        *)
ExitIsGraceful ==
  server \in {"closing", "exited"} => Active = {} \/ overdue

(* A signal ends the process, also when a stream never ends.                  *)
SignalEndsProcess == server = "draining" ~> server = "exited"
=============================================================================
