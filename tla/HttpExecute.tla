---------------------------- MODULE HttpExecute ----------------------------
(***************************************************************************)
(* One call of Request.Execute (pkg/http/request.go): attempts with waits in *)
(* between, and in each attempt the routes dynamic proxy, static proxy and   *)
(* direct connection, all sending the one body that SetBody stored.         *)
(*                                                                          *)
(* The body is a bytes.Reader: what a failed send read from it is gone.      *)
(* http.NewRequest takes the content length from what is left when the       *)
(* attempt begins, and the transport refuses to complete a request whose    *)
(* body turns out shorter than its content length.                          *)
(*                                                                          *)
(* Static proxy and direct connection go through the same http.Client, whose *)
(* transport SetProxy configured: they differ in their order only.           *)
(***************************************************************************)
EXTENDS Integers, Sequences

CONSTANTS RetryCount,   \* client.retryCount: attempts after the first
          BodyLen       \* length of the body, in pieces a send may stop between

ASSUME ExecuteAssumption ==
  /\ RetryCount \in Nat
  /\ BodyLen \in Nat \ {0}

VARIABLES
  place,    \* "prepare", "send", "wait", "ok" or "err"
  attempt,  \* the attempt, from 0
  route,    \* index in Routes of the connection to try next
  left,     \* what r.body still yields
  length,   \* ContentLength of the prepared request
  sends,    \* history: the requests handed to the network by this Execute
  ctxDone,  \* r.context is cancelled
  setting   \* the proxies the client was created with: a manager of dynamic
            \* ones, a static address (SOCKS5_PROXY or HTTP_PROXY), both, none

xvars == <<place, attempt, route, left, length, sends>>

(* The static route is tried whenever an address was set: SetProxy keeps it    *)
(* even if it cannot apply it.                                               *)
Given(kind) == IF kind \in setting THEN <<kind>> ELSE <<>>

Routes == Given("dynamic") \o Given("static") \o <<"direct">>

Init ==
  /\ place = "prepare" /\ attempt = 0 /\ route = 1
  /\ left = BodyLen /\ length = 0
  /\ sends = <<>> /\ ctxDone = FALSE
  /\ setting \in SUBSET {"dynamic", "static"}

(* Fault: one attempt too many. *)
FailAttemptOffByOne == place' = IF attempt =< RetryCount THEN "wait" ELSE "err"

(* The attempt failed: wait for the next one, or report the last error. *)
FailAttempt == place' = IF attempt < RetryCount THEN "wait" ELSE "err"

(* Fault: the same route is tried again. *)
FailRouteRepeats ==
  IF route < Len(Routes)
    THEN UNCHANGED <<route, place>>
    ELSE FailAttempt /\ UNCHANGED route

(* The route failed: try the next one of this attempt. *)
FailRoute ==
  IF route < Len(Routes)
    THEN route' = route + 1 /\ UNCHANGED place
    ELSE FailAttempt /\ UNCHANGED route

Prepare ==
  /\ place = "prepare" /\ place' = "send"
  /\ route' = 1
  /\ length' = left
  /\ UNCHANGED <<attempt, left, sends, ctxDone, setting>>

(* The request cannot be built, or a beforeRequest function refuses it. *)
PrepareFails ==
  /\ place = "prepare"
  /\ FailAttempt
  /\ UNCHANGED <<attempt, route, left, length, sends, ctxDone, setting>>

(* The proxy manager has no proxy to offer, or an address that is no URL. *)
NoDynamicProxy ==
  /\ place = "send" /\ Routes[route] = "dynamic"
  /\ FailRoute
  /\ UNCHANGED <<attempt, left, length, sends, ctxDone, setting>>

(* The transport looks at the context first. *)
SendRefused ==
  /\ place = "send" /\ ctxDone
  /\ FailRoute
  /\ UNCHANGED <<attempt, left, length, sends, ctxDone, setting>>

Record(got, answered) ==
  sends' = Append(sends, [attempt |-> attempt, kind |-> Routes[route],
                          length |-> length, got |-> got, answered |-> answered])

(* The request goes out whole and its response is read. *)
SendOk ==
  /\ place = "send" /\ ~ctxDone
  /\ left = length
  /\ left' = 0
  /\ Record(length, TRUE)
  /\ place' = "ok"
  /\ UNCHANGED <<attempt, route, length, ctxDone, setting>>

(* The send fails: the dial (nothing is read from the body), in the middle of *)
(* the body, for a body that is too short, or waiting for and reading the     *)
(* response (the body is out).                                               *)
SendFails ==
  /\ place = "send" /\ ~ctxDone
  /\ \E got \in 0..left : left' = left - got /\ Record(got, FALSE)
  /\ FailRoute
  /\ UNCHANGED <<attempt, length, ctxDone, setting>>

(* Fault: the wait listens to the context only. *)
WaitForever ==
  /\ place = "wait" /\ ctxDone /\ place' = "err"
  /\ UNCHANGED <<attempt, route, left, length, sends, ctxDone, setting>>

WaitEnds ==
  /\ place = "wait" /\ place' = "prepare"
  /\ attempt' = attempt + 1
  /\ UNCHANGED <<route, left, length, sends, ctxDone, setting>>

WaitCancelled ==
  /\ place = "wait" /\ ctxDone /\ place' = "err"
  /\ UNCHANGED <<attempt, route, left, length, sends, ctxDone, setting>>

Cancel == ~ctxDone /\ ctxDone' = TRUE /\ UNCHANGED <<xvars, setting>>

Step ==
  \/ Prepare \/ PrepareFails \/ NoDynamicProxy \/ SendRefused
  \/ SendOk \/ SendFails \/ WaitEnds \/ WaitCancelled
-----------------------------------------------------------------------------
Sent == [attempt : 0..RetryCount, kind : {"dynamic", "static", "direct"},
         length : 0..BodyLen, got : 0..BodyLen, answered : BOOLEAN]

TypeOK ==
  /\ place \in {"prepare", "send", "wait", "ok", "err"}
  /\ attempt \in 0..RetryCount
  /\ route \in 1..Len(Routes)
  /\ left \in 0..BodyLen /\ length \in 0..BodyLen
  /\ sends \in Seq(Sent)
  /\ ctxDone \in BOOLEAN
  /\ setting \subseteq {"dynamic", "static"}

(* The request the backend saw whole: all of its content length arrived.      *)
Arrived(s) == s.got = s.length

(* A request that goes out with less than the whole body is always the late   *)
(* effect of an earlier attempt that failed after the body had been read, in  *)
(* this same Execute (request.go:164, 206, 318).                             *)
TruncationHasCause ==
  \A i \in DOMAIN sends :
    sends[i].length < BodyLen =>
      \E j \in 1..(i - 1) : sends[j].attempt < sends[i].attempt /\ sends[j].got > 0

(* README.md:20 has failed calls to the backend retried to make them more      *)
(* robust: every request that arrives there is the whole request.            *)
RetriesCarryBody ==
  \A i \in DOMAIN sends : Arrived(sends[i]) => sends[i].length = BodyLen
=============================================================================
