----------------------------- MODULE RetryStack -----------------------------
(***************************************************************************)
(* The retries of the service around those of the HTTP client: every attempt *)
(* of executeRequestWithRetry (service/chat.go) builds a new Request and     *)
(* runs Execute, whose client makes RetryCount = Retry - 1 further attempts  *)
(* of its own (service/handler.go:253).                                     *)
(***************************************************************************)
EXTENDS HttpExecute

CONSTANT Retry   \* config.Client.Retry

ASSUME StackAssumption == Retry \in Nat \ {0} /\ RetryCount = Retry - 1

VARIABLES
  calls,    \* attempts of executeRequestWithRetry begun
  level,    \* "top", "execute", "backoff", "ok" or "err"
  earlier   \* requests sent by the calls before this one

outer  == <<calls, level, earlier>>
svars  == <<place, attempt, route, left, length, sends, ctxDone, setting, calls, level, earlier>>

StackInit == Init /\ calls = 0 /\ level = "top" /\ earlier = 0

(* Fault: the Request is built once, outside the loop. *)
BeginKeepsRequest ==
  /\ level = "top" /\ ~ctxDone
  /\ level' = "execute" /\ calls' = calls + 1
  /\ earlier' = earlier + Len(sends)
  /\ place' = "prepare" /\ attempt' = 0 /\ route' = 1
  /\ length' = 0 /\ sends' = <<>>
  /\ UNCHANGED <<left, ctxDone, setting>>

(* A new Request with a new body: client.R().SetBody(...). *)
Begin ==
  /\ level = "top" /\ ~ctxDone
  /\ level' = "execute" /\ calls' = calls + 1
  /\ earlier' = earlier + Len(sends)
  /\ place' = "prepare" /\ attempt' = 0 /\ route' = 1
  /\ left' = BodyLen /\ length' = 0 /\ sends' = <<>>
  /\ UNCHANGED <<ctxDone, setting>>

Abort ==
  /\ level \in {"top", "backoff"} /\ ctxDone
  /\ level' = "err"
  /\ UNCHANGED <<xvars, ctxDone, setting, calls, earlier>>

Execute == level = "execute" /\ Step /\ UNCHANGED outer

(* The response has status 200. *)
Accept ==
  /\ level = "execute" /\ place = "ok"
  /\ level' = "ok"
  /\ UNCHANGED <<xvars, ctxDone, setting, calls, earlier>>

(* Fault: one call too many. *)
RejectOffByOne ==
  /\ level = "execute" /\ place \in {"ok", "err"}
  /\ level' = IF calls =< Retry THEN "backoff" ELSE "err"
  /\ UNCHANGED <<xvars, ctxDone, setting, calls, earlier>>

(* Execute failed, or the response has another status. *)
Reject ==
  /\ level = "execute" /\ place \in {"ok", "err"}
  /\ level' = IF calls < Retry THEN "backoff" ELSE "err"
  /\ UNCHANGED <<xvars, ctxDone, setting, calls, earlier>>

BackoffEnds ==
  /\ level = "backoff" /\ level' = "top"
  /\ UNCHANGED <<xvars, ctxDone, setting, calls, earlier>>

CancelStack == level \notin {"ok", "err"} /\ Cancel /\ UNCHANGED outer

StackStep == Begin \/ Abort \/ Execute \/ Accept \/ Reject \/ BackoffEnds

StackNext == StackStep \/ CancelStack

(* The worker runs when it can; sends end because the client has a timeout.   *)
StackSpec == StackInit /\ [][StackNext]_svars /\ WF_svars(StackStep)
-----------------------------------------------------------------------------
StackTypeOK ==
  /\ TypeOK
  /\ calls \in 0..Retry
  /\ level \in {"top", "execute", "backoff", "ok", "err"}
  /\ earlier \in Nat

Precedes(s, t) ==
  \E p, q \in DOMAIN Routes : p < q /\ Routes[p] = s.kind /\ Routes[q] = t.kind

(* Within one Execute the requests go out attempt by attempt and, in an        *)
(* attempt, in the order dynamic, static, direct; each at most once, and none  *)
(* after one that was answered (request.go:318-373).                          *)
FallbackOrder ==
  \A i, j \in DOMAIN sends : i < j =>
    /\ ~sends[i].answered
    /\ \/ sends[i].attempt < sends[j].attempt
       \/ /\ sends[i].attempt = sends[j].attempt
          /\ Precedes(sends[i], sends[j])

(* The backend is sent at most Retry * Retry requests over each route for one  *)
(* chat completion: the two retry loops multiply (chat.go:192, request.go:318). *)
TotalBudget == earlier + Len(sends) =< Retry * Retry * Len(Routes)

(* However sends fail, and whenever the client leaves, the loops end.         *)
StackEnds == <>(level \in {"ok", "err"})
=============================================================================
