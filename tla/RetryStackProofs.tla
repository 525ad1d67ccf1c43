-------------------------- MODULE RetryStackProofs --------------------------
(***************************************************************************)
(* For any number of retries, any body and any proxies: the two retry loops   *)
(* are type correct, go through their routes in order, stay within their     *)
(* budget, and truncate a body only after an attempt that had read of it.     *)
(***************************************************************************)
EXTENDS RetryStack, TLAPS

Kinds == {"dynamic", "static", "direct"}

(* There is always a route. *)
LEMMA RoutesExist ==
  Len(Routes) \in 1..3 /\ \A p \in 1..Len(Routes) : Routes[p] \in Kinds
<1> USE DEF Routes, Given, Kinds
<1>1. CASE "dynamic" \in setting /\ "static" \in setting
  <2>1. Len(Routes) = 3
    BY <1>1
  <2>2. Routes[1] = "dynamic" /\ Routes[2] = "static" /\ Routes[3] = "direct"
    BY <1>1
  <2> QED
    BY <2>1, <2>2
<1>2. CASE "dynamic" \in setting /\ "static" \notin setting
  <2>1. Len(Routes) = 2
    BY <1>2
  <2>2. Routes[1] = "dynamic" /\ Routes[2] = "direct"
    BY <1>2
  <2> QED
    BY <2>1, <2>2
<1>3. CASE "dynamic" \notin setting /\ "static" \in setting
  <2>1. Len(Routes) = 2
    BY <1>3
  <2>2. Routes[1] = "static" /\ Routes[2] = "direct"
    BY <1>3
  <2> QED
    BY <2>1, <2>2
<1>4. CASE "dynamic" \notin setting /\ "static" \notin setting
  <2>1. Len(Routes) = 1 /\ Routes[1] = "direct"
    BY <1>4
  <2> QED
    BY <2>1
<1> QED
  BY <1>1, <1>2, <1>3, <1>4

LEMMA RoutesStay == setting' = setting => Routes' = Routes
BY DEF Routes, Given
-----------------------------------------------------------------------------
(* The loops are left for a wait or a backoff only while there are attempts.   *)
LoopInv ==
  /\ place = "wait" => attempt < RetryCount
  /\ level \in {"top", "backoff"} => calls < Retry
  /\ level # "top" => calls > 0 \/ level = "err"

TypeInv == StackTypeOK /\ LoopInv

LEMMA InitType == StackInit => TypeInv
<1> SUFFICES ASSUME StackInit PROVE TypeInv
  OBVIOUS
<1> USE ExecuteAssumption, StackAssumption DEF StackInit, Init
<1>1. route \in 1..Len(Routes) /\ sends \in Seq(Sent)
  BY RoutesExist
<1>2. left \in 0..BodyLen /\ length \in 0..BodyLen /\ attempt \in 0..RetryCount
  OBVIOUS
<1>3. setting \subseteq {"dynamic", "static"} /\ ctxDone \in BOOLEAN
  OBVIOUS
<1>4. TypeOK
  BY <1>1, <1>2, <1>3 DEF TypeOK
<1> QED
  BY <1>4 DEF TypeInv, StackTypeOK, LoopInv

(* A request that is sent is recorded as one of Sent. *)
LEMMA Recorded ==
  ASSUME TypeOK, NEW got \in 0..BodyLen, NEW answered \in BOOLEAN, Record(got, answered)
  PROVE  sends' \in Seq(Sent)
<1>1. Routes[route] \in Kinds
  BY RoutesExist DEF TypeOK
<1>2. [attempt |-> attempt, kind |-> Routes[route], length |-> length, got |-> got,
       answered |-> answered] \in Sent
  BY <1>1 DEF TypeOK, Sent, Kinds
<1> QED
  BY <1>2 DEF Record, TypeOK

LEMMA StepType == TypeInv /\ [StackNext]_svars => TypeInv'
<1> SUFFICES ASSUME TypeInv, [StackNext]_svars PROVE TypeInv'
  OBVIOUS
<1> USE ExecuteAssumption, StackAssumption
    DEF TypeInv, StackTypeOK, LoopInv, TypeOK, xvars, outer
<1>0. setting' = setting => Routes' = Routes
  BY RoutesStay
<1>1. CASE Begin
  BY <1>0, <1>1, RoutesExist DEF Begin
<1>2. CASE Abort \/ Accept \/ Reject \/ BackoffEnds
  BY <1>0, <1>2 DEF Abort, Accept, Reject, BackoffEnds
<1>3. CASE CancelStack
  BY <1>0, <1>3 DEF CancelStack, Cancel
<1>4. ASSUME Execute PROVE TypeInv'
  <2> USE <1>4 DEF Execute, FailRoute, FailAttempt
  <2>1. CASE Prepare
    BY <1>0, <2>1, RoutesExist DEF Prepare
  <2>2. CASE PrepareFails
    BY <1>0, <2>2 DEF PrepareFails
  <2>3. CASE NoDynamicProxy \/ SendRefused
    <3>1. UNCHANGED <<attempt, left, length, sends, ctxDone, setting, calls, level, earlier>>
      BY <2>3 DEF NoDynamicProxy, SendRefused
    <3>2. FailRoute
      BY <2>3 DEF NoDynamicProxy, SendRefused
    <3> QED
      BY <1>0, <3>1, <3>2, RoutesExist
  <2>4. CASE SendOk
    <3>1. sends' \in Seq(Sent)
      BY <2>4, Recorded DEF SendOk
    <3> QED
      BY <1>0, <2>4, <3>1 DEF SendOk
  <2>5. CASE SendFails
    <3>1. PICK got \in 0..left : left' = left - got /\ Record(got, FALSE)
      BY <2>5 DEF SendFails
    <3>2. got \in 0..BodyLen /\ left' \in 0..BodyLen
      BY <3>1
    <3>3. sends' \in Seq(Sent)
      BY <3>1, <3>2, Recorded
    <3> QED
      BY <1>0, <2>5, <3>2, <3>3, RoutesExist DEF SendFails
  <2>6. CASE WaitEnds
    <3>1. attempt' \in 0..RetryCount
      BY <2>6 DEF WaitEnds
    <3> QED
      BY <1>0, <2>6, <3>1 DEF WaitEnds
  <2>7. CASE WaitCancelled
    BY <1>0, <2>7 DEF WaitCancelled
  <2> QED
    BY <2>1, <2>2, <2>3, <2>4, <2>5, <2>6, <2>7 DEF Step
<1>5. CASE UNCHANGED svars
  BY <1>0, <1>5 DEF svars
<1> QED
  BY <1>1, <1>2, <1>3, <1>4, <1>5 DEF StackNext, StackStep

(* Every state of the two loops is well typed: neither begins more attempts than  *)
(* it is given (chat.go:192, request.go:318).                                 *)
THEOREM Typing == StackSpec => []StackTypeOK
<1>1. TypeInv => StackTypeOK
  BY DEF TypeInv
<1> QED
  BY <1>1, InitType, StepType, PTL DEF StackSpec
-----------------------------------------------------------------------------
(* What has been sent when a route is tried: earlier attempts, and the routes    *)
(* before it in this attempt, none of them answered.                          *)
SentBefore(s) == s.attempt < attempt \/ \E p \in 1..(route - 1) : Routes[p] = s.kind

OrderInv ==
  /\ \A j \in DOMAIN sends : sends[j].attempt =< attempt
  /\ place = "prepare" => \A j \in DOMAIN sends : sends[j].attempt < attempt
  /\ place = "send" => \A j \in DOMAIN sends : SentBefore(sends[j])
  /\ place # "ok" => \A j \in DOMAIN sends : ~sends[j].answered
  /\ FallbackOrder

LEMMA InitOrder == StackInit => OrderInv
BY DEF StackInit, Init, OrderInv, FallbackOrder

(* A request sent over the next route keeps the order.                         *)
LEMMA RecordOrder ==
  ASSUME TypeInv, OrderInv, place = "send", UNCHANGED <<attempt, setting>>,
         NEW got \in 0..BodyLen, NEW answered \in BOOLEAN, Record(got, answered)
  PROVE  /\ FallbackOrder'
         /\ \A j \in DOMAIN sends' :
              /\ sends'[j].attempt =< attempt
              /\ sends'[j].attempt < attempt \/ \E p \in 1..route : Routes[p] = sends'[j].kind
              /\ sends'[j].answered => answered
<1> DEFINE s == [attempt |-> attempt, kind |-> Routes[route], length |-> length, got |-> got,
                 answered |-> answered]
<1>1. sends \in Seq(Sent) /\ route \in 1..Len(Routes) /\ Len(Routes) \in 1..3 /\ attempt \in Nat
  BY RoutesExist, ExecuteAssumption DEF TypeInv, StackTypeOK, TypeOK
<1>2. /\ Len(sends') = Len(sends) + 1 /\ sends' \in Seq(Sent)
      /\ \A j \in 1..Len(sends) : sends'[j] = sends[j]
      /\ sends'[Len(sends) + 1] = s
  BY <1>1, Recorded DEF Record, TypeInv, StackTypeOK
<1>3. DOMAIN sends = 1..Len(sends) /\ DOMAIN sends' = 1..(Len(sends) + 1) /\ Len(sends) \in Nat
  BY <1>1, <1>2
<1>4. Routes' = Routes /\ DOMAIN Routes = 1..Len(Routes)
  BY RoutesStay DEF Routes, Given
<1>5. \A j \in 1..Len(sends) :
        sends[j].attempt =< attempt /\ SentBefore(sends[j]) /\ ~sends[j].answered
  BY <1>3 DEF OrderInv
<1>6. ASSUME NEW j \in 1..Len(sends), sends[j].attempt = attempt
      PROVE  \E p, q \in DOMAIN Routes : p < q /\ Routes[p] = sends[j].kind /\ Routes[q] = s.kind
  <2>1. PICK p \in 1..(route - 1) : Routes[p] = sends[j].kind
    BY <1>1, <1>5, <1>6 DEF SentBefore
  <2>2. p \in DOMAIN Routes /\ route \in DOMAIN Routes /\ p < route /\ Routes[route] = s.kind
    BY <1>1, <1>4, <2>1
  <2> QED
    BY <2>1, <2>2
<1>7. ASSUME NEW i \in DOMAIN sends', NEW j \in DOMAIN sends', i < j
      PROVE  /\ ~sends'[i].answered
             /\ \/ sends'[i].attempt < sends'[j].attempt
                \/ /\ sends'[i].attempt = sends'[j].attempt
                   /\ \E p, q \in DOMAIN Routes :
                        p < q /\ Routes[p] = sends'[i].kind /\ Routes[q] = sends'[j].kind
  <2>1. i \in 1..Len(sends) /\ sends'[i] = sends[i]
    BY <1>2, <1>3, <1>7
  <2>2. CASE j \in 1..Len(sends)
    BY <1>2, <1>3, <1>7, <2>1, <2>2 DEF OrderInv, FallbackOrder, Precedes
  <2>3. CASE j = Len(sends) + 1
    <3>1. sends[i] \in Sent
      BY <1>1, <2>1
    <3>2. CASE sends[i].attempt = attempt
      BY <1>2, <1>5, <1>6, <2>1, <2>3, <3>2
    <3>3. CASE sends[i].attempt # attempt
      <4>1. sends[i].attempt \in Nat
        BY <3>1, ExecuteAssumption DEF Sent
      <4>2. sends[i].attempt < attempt
        BY <1>1, <1>5, <2>1, <3>3, <4>1
      <4> QED
        BY <1>2, <1>5, <2>1, <2>3, <4>2
    <3> QED
      BY <3>2, <3>3
  <2> QED
    BY <1>3, <2>2, <2>3
<1>8. FallbackOrder'
  BY <1>4, <1>7 DEF FallbackOrder, Precedes
<1>9. ASSUME NEW j \in DOMAIN sends'
      PROVE  /\ sends'[j].attempt =< attempt
             /\ sends'[j].attempt < attempt \/ \E p \in 1..route : Routes[p] = sends'[j].kind
             /\ sends'[j].answered => answered
  <2>1. CASE j \in 1..Len(sends)
    <3>1. 1..(route - 1) \subseteq 1..route
      BY <1>1
    <3> QED
      BY <1>2, <1>5, <2>1, <3>1 DEF SentBefore
  <2>2. CASE j = Len(sends) + 1
    BY <1>1, <1>2, <2>2
  <2> QED
    BY <1>3, <2>1, <2>2
<1> QED
  BY <1>8, <1>9

LEMMA StepOrder == TypeInv /\ OrderInv /\ [StackNext]_svars => OrderInv'
<1> SUFFICES ASSUME TypeInv, OrderInv, [StackNext]_svars PROVE OrderInv'
  OBVIOUS
<1>0. /\ setting' = setting => Routes' = Routes
      /\ sends \in Seq(Sent) /\ attempt \in Nat /\ route \in Nat
      /\ \A j \in DOMAIN sends : sends[j].attempt \in Nat
  <2>1. sends \in Seq(Sent) /\ attempt \in Nat /\ route \in Nat
    BY RoutesExist, ExecuteAssumption DEF TypeInv, StackTypeOK, TypeOK
  <2>2. \A j \in DOMAIN sends : sends[j] \in Sent
    BY <2>1
  <2> QED
    BY <2>1, <2>2, RoutesStay, ExecuteAssumption DEF Sent
<1>1. UNCHANGED <<sends, setting>> => FallbackOrder'
  BY <1>0 DEF OrderInv, FallbackOrder, Precedes
<1>2. CASE Begin
  BY <1>2 DEF Begin, OrderInv, FallbackOrder
<1>3. ASSUME UNCHANGED <<place, attempt, route, sends, setting>> PROVE OrderInv'
  BY <1>0, <1>1, <1>3 DEF OrderInv, SentBefore
<1>4. CASE Abort \/ Accept \/ Reject \/ BackoffEnds \/ CancelStack \/ UNCHANGED svars
  BY <1>3, <1>4 DEF Abort, Accept, Reject, BackoffEnds, CancelStack, Cancel, xvars, svars
<1>5. ASSUME place # "ok", UNCHANGED <<sends, setting, attempt>>, place' \in {"wait", "err"}
      PROVE  OrderInv'
  BY <1>1, <1>5 DEF OrderInv
<1>6. CASE Prepare
  BY <1>1, <1>6 DEF Prepare, OrderInv, SentBefore
<1>7. CASE PrepareFails \/ WaitCancelled
  BY <1>5, <1>7 DEF PrepareFails, WaitCancelled, FailAttempt
<1>8. ASSUME place = "send", UNCHANGED <<attempt, setting>>, FailRoute, FallbackOrder',
             \A j \in DOMAIN sends' :
               /\ sends'[j].attempt =< attempt /\ ~sends'[j].answered
               /\ sends'[j].attempt < attempt \/ \E p \in 1..route : Routes[p] = sends'[j].kind
      PROVE  OrderInv'
  <2>1. CASE route < Len(Routes)
    <3>1. place' = "send" /\ route' = route + 1 /\ 1..(route' - 1) = 1..route
      BY <1>0, <1>8, <2>1 DEF FailRoute
    <3> QED
      BY <1>0, <1>8, <3>1 DEF OrderInv, SentBefore
  <2>2. CASE ~(route < Len(Routes))
    <3>1. place' \in {"wait", "err"}
      BY <1>8, <2>2 DEF FailRoute, FailAttempt
    <3> QED
      BY <1>8, <3>1 DEF OrderInv
  <2> QED
    BY <2>1, <2>2
<1>9. CASE NoDynamicProxy \/ SendRefused
  <2>1. place = "send" /\ FailRoute /\ UNCHANGED <<attempt, sends, setting>>
    BY <1>9 DEF NoDynamicProxy, SendRefused
  <2>2. 1..(route - 1) \subseteq 1..route
    BY <1>0
  <2> QED
    BY <1>1, <1>8, <2>1, <2>2 DEF OrderInv, SentBefore
<1>10. CASE SendFails
  <2>1. PICK got \in 0..left : Record(got, FALSE)
    BY <1>10 DEF SendFails
  <2>2. got \in 0..BodyLen /\ place = "send" /\ FailRoute /\ UNCHANGED <<attempt, setting>>
    BY <1>10, ExecuteAssumption DEF SendFails, TypeInv, StackTypeOK, TypeOK
  <2> QED
    BY <1>8, <2>1, <2>2, RecordOrder
<1>11. CASE SendOk
  <2>1. /\ length \in 0..BodyLen /\ place = "send" /\ place' = "ok"
        /\ Record(length, TRUE) /\ UNCHANGED <<attempt, setting>>
    BY <1>11 DEF SendOk, TypeInv, StackTypeOK, TypeOK
  <2> QED
    BY <2>1, RecordOrder DEF OrderInv
<1>12. CASE WaitEnds
  BY <1>0, <1>1, <1>12 DEF WaitEnds, OrderInv
<1> QED
  BY <1>2, <1>4, <1>6, <1>7, <1>9, <1>10, <1>11, <1>12 DEF StackNext, StackStep, Execute, Step

(* Within one Execute the requests go out attempt by attempt and, in an attempt,  *)
(* in the order dynamic, static, direct, each at most once, and none after one   *)
(* that was answered (request.go:318-373).                                    *)
THEOREM Ordering == StackSpec => []FallbackOrder
<1>1. OrderInv => FallbackOrder
  BY DEF OrderInv
<1> QED
  BY <1>1, InitType, StepType, InitOrder, StepOrder, PTL DEF StackSpec
-----------------------------------------------------------------------------
(* What is missing of the body was read by a request of this Execute, and what   *)
(* was missing when the attempt began by one of an earlier attempt.             *)
CauseInv ==
  /\ left < BodyLen => \E j \in DOMAIN sends : sends[j].got > 0
  /\ place = "send" /\ length < BodyLen =>
       \E j \in DOMAIN sends : sends[j].attempt < attempt /\ sends[j].got > 0
  /\ TruncationHasCause

LEMMA InitCause == StackInit => CauseInv
BY ExecuteAssumption DEF StackInit, Init, CauseInv, TruncationHasCause

(* A request that is sent with less than the whole body has its cause.          *)
LEMMA RecordCause ==
  ASSUME TypeInv, CauseInv, place = "send", UNCHANGED <<attempt, length>>,
         NEW got \in 0..left, NEW answered \in BOOLEAN, Record(got, answered),
         left' < left => got > 0
  PROVE  CauseInv'
<1> DEFINE s == [attempt |-> attempt, kind |-> Routes[route], length |-> length, got |-> got,
                 answered |-> answered]
<1>1. /\ sends \in Seq(Sent) /\ got \in 0..BodyLen /\ left \in 0..BodyLen /\ length \in 0..BodyLen
      /\ BodyLen \in Nat
  BY ExecuteAssumption DEF TypeInv, StackTypeOK, TypeOK
<1>2. /\ Len(sends') = Len(sends) + 1 /\ sends' \in Seq(Sent)
      /\ \A j \in 1..Len(sends) : sends'[j] = sends[j]
      /\ sends'[Len(sends) + 1] = s
  BY <1>1, Recorded DEF Record, TypeInv, StackTypeOK
<1>3. DOMAIN sends = 1..Len(sends) /\ DOMAIN sends' = 1..(Len(sends) + 1) /\ Len(sends) \in Nat
  BY <1>1, <1>2
<1>4. left' < BodyLen => \E j \in DOMAIN sends' : sends'[j].got > 0
  <2>1. CASE got > 0
    BY <1>2, <1>3, <2>1
  <2>2. CASE ~(got > 0)
    BY <1>1, <1>2, <1>3, <2>2 DEF CauseInv
  <2> QED
    BY <2>1, <2>2
<1>5. length < BodyLen =>
        \E j \in 1..Len(sends) : sends'[j].attempt < attempt /\ sends'[j].got > 0
  BY <1>2, <1>3 DEF CauseInv
<1>6. place' = "send" /\ length' < BodyLen =>
        \E j \in DOMAIN sends' : sends'[j].attempt < attempt' /\ sends'[j].got > 0
  BY <1>3, <1>5
<1>7. ASSUME NEW i \in DOMAIN sends', sends'[i].length < BodyLen
      PROVE  \E j \in 1..(i - 1) : sends'[j].attempt < sends'[i].attempt /\ sends'[j].got > 0
  <2>1. CASE i \in 1..Len(sends)
    <3>1. PICK j \in 1..(i - 1) : sends[j].attempt < sends[i].attempt /\ sends[j].got > 0
      BY <1>2, <1>3, <1>7, <2>1 DEF CauseInv, TruncationHasCause
    <3> QED
      BY <1>2, <2>1, <3>1
  <2>2. CASE i = Len(sends) + 1
    BY <1>2, <1>3, <1>5, <1>7, <2>2
  <2> QED
    BY <1>3, <2>1, <2>2
<1> QED
  BY <1>4, <1>6, <1>7 DEF CauseInv, TruncationHasCause

LEMMA StepCause == TypeInv /\ OrderInv /\ CauseInv /\ [StackNext]_svars => CauseInv'
<1> SUFFICES ASSUME TypeInv, OrderInv, CauseInv, [StackNext]_svars PROVE CauseInv'
  OBVIOUS
<1>1. CASE Begin
  BY <1>1, ExecuteAssumption DEF Begin, CauseInv, TruncationHasCause
<1>2. ASSUME UNCHANGED <<left, sends>>,
             \/ place' # "send"
             \/ UNCHANGED <<place, attempt, length>>
      PROVE  CauseInv'
  BY <1>2 DEF CauseInv, TruncationHasCause
<1>3. CASE Abort \/ Accept \/ Reject \/ BackoffEnds \/ CancelStack \/ UNCHANGED svars
  BY <1>2, <1>3 DEF Abort, Accept, Reject, BackoffEnds, CancelStack, Cancel, xvars, svars
<1>4. CASE Prepare
  BY <1>4 DEF Prepare, CauseInv, OrderInv, TruncationHasCause
<1>5. CASE PrepareFails \/ WaitCancelled \/ WaitEnds
  BY <1>2, <1>5 DEF PrepareFails, WaitCancelled, WaitEnds, FailAttempt
<1>6. CASE NoDynamicProxy \/ SendRefused
  BY <1>2, <1>6 DEF NoDynamicProxy, SendRefused, FailRoute, FailAttempt
<1>7. CASE SendOk
  <2>1. length \in 0..left /\ (left' < left => length > 0)
    BY <1>7, ExecuteAssumption DEF SendOk, TypeInv, StackTypeOK, TypeOK
  <2> QED
    BY <1>7, <2>1, RecordCause DEF SendOk
<1>8. CASE SendFails
  <2>1. PICK got \in 0..left : left' = left - got /\ Record(got, FALSE)
    BY <1>8 DEF SendFails
  <2>2. left' < left => got > 0
    BY <2>1, ExecuteAssumption DEF TypeInv, StackTypeOK, TypeOK
  <2> QED
    BY <1>8, <2>1, <2>2, RecordCause DEF SendFails
<1> QED
  BY <1>1, <1>3, <1>4, <1>5, <1>6, <1>7, <1>8 DEF StackNext, StackStep, Execute, Step

(* A request goes out with less than the whole body only after an earlier attempt *)
(* of the same Execute that failed when it had read of it (request.go:164, 206,   *)
(* 318).                                                                     *)
THEOREM Causing == StackSpec => []TruncationHasCause
<1>1. CauseInv => TruncationHasCause
  BY DEF CauseInv
<1> QED
  BY <1>1, InitType, StepType, InitOrder, StepOrder, InitCause, StepCause, PTL DEF StackSpec
-----------------------------------------------------------------------------
(* What one Execute may send. *)
Share == Retry * Len(Routes)

(* An attempt sends at most one request over each route it has tried, an Execute *)
(* its share, and the calls before this one theirs.                          *)
BudgetInv ==
  /\ place = "prepare" => Len(sends) =< attempt * Len(Routes)
  /\ place = "send" => Len(sends) =< attempt * Len(Routes) + route - 1
  /\ Len(sends) =< (attempt + 1) * Len(Routes)
  /\ calls = 0 => earlier = 0 /\ sends = <<>>
  /\ calls > 0 => earlier =< (calls - 1) * Share

LEMMA InitBudget == StackInit => BudgetInv
BY RoutesExist DEF StackInit, Init, BudgetInv

(* The types the arithmetic needs, and the share of one Execute. *)
LEMMA ShareBounds ==
  ASSUME TypeInv, BudgetInv
  PROVE  /\ Len(sends) \in Nat /\ attempt \in Nat /\ attempt + 1 =< Retry
         /\ Len(Routes) \in 1..3 /\ route \in 1..Len(Routes)
         /\ calls \in Nat /\ calls =< Retry /\ earlier \in Nat /\ Share \in Nat
         /\ Len(sends) =< Share
<1> USE ExecuteAssumption, StackAssumption
<1>1. /\ sends \in Seq(Sent) /\ attempt \in 0..RetryCount /\ route \in 1..Len(Routes)
      /\ calls \in 0..Retry /\ earlier \in Nat
  BY DEF TypeInv, StackTypeOK, TypeOK
<1>2. Len(sends) \in Nat /\ Len(Routes) \in 1..3 /\ attempt + 1 =< Retry
  BY <1>1, RoutesExist
<1>3. Share \in Nat /\ (attempt + 1) * Len(Routes) =< Share
  <2>1. CASE Len(Routes) = 1
    BY <1>1, <1>2, <2>1 DEF Share
  <2>2. CASE Len(Routes) = 2
    BY <1>1, <1>2, <2>2 DEF Share
  <2>3. CASE Len(Routes) = 3
    BY <1>1, <1>2, <2>3 DEF Share
  <2> QED
    BY <1>2, <2>1, <2>2, <2>3
<1> QED
  BY <1>1, <1>2, <1>3 DEF BudgetInv

LEMMA StepBudget == TypeInv /\ BudgetInv /\ [StackNext]_svars => BudgetInv'
<1> SUFFICES ASSUME TypeInv, BudgetInv, [StackNext]_svars PROVE BudgetInv'
  OBVIOUS
<1>0. /\ Len(sends) \in Nat /\ attempt \in Nat /\ attempt + 1 =< Retry
      /\ Len(Routes) \in 1..3 /\ route \in 1..Len(Routes)
      /\ calls \in Nat /\ calls =< Retry /\ earlier \in Nat /\ Share \in Nat
      /\ Len(sends) =< Share
  BY ShareBounds
<1>1. setting' = setting => Routes' = Routes /\ Share' = Share
  BY RoutesStay DEF Share
<1>2. CASE Begin
  <2>1. /\ setting' = setting /\ sends' = <<>> /\ attempt' = 0 /\ route' = 1 /\ place' = "prepare"
        /\ calls' = calls + 1 /\ earlier' = earlier + Len(sends)
    BY <1>2 DEF Begin
  <2>2. earlier' =< calls * Share
    <3>1. CASE calls = 0
      BY <1>0, <2>1, <3>1 DEF BudgetInv
    <3>2. CASE calls > 0
      <4>1. (calls - 1) * Share + Share = calls * Share
        BY <1>0
      <4>2. (calls - 1) * Share \in Int /\ calls * Share \in Int
        BY <1>0
      <4> QED
        BY <1>0, <2>1, <3>2, <4>1, <4>2 DEF BudgetInv
    <3> QED
      BY <1>0, <3>1, <3>2
  <2>3. calls' # 0 /\ calls' - 1 = calls
    BY <1>0, <2>1
  <2>4. Len(sends') = 0 /\ attempt' * Len(Routes) = 0 /\ (attempt' + 1) * Len(Routes) >= 0
    BY <1>0, <2>1
  <2> QED
    BY <1>0, <1>1, <2>1, <2>2, <2>3, <2>4 DEF BudgetInv
<1>3. CASE Abort \/ Accept \/ Reject \/ BackoffEnds \/ CancelStack \/ UNCHANGED svars
  <2>1. UNCHANGED <<place, attempt, route, sends, setting, calls, earlier>>
    BY <1>3 DEF Abort, Accept, Reject, BackoffEnds, CancelStack, Cancel, xvars, outer, svars
  <2> QED
    BY <1>1, <2>1 DEF BudgetInv
<1>4. ASSUME Execute PROVE BudgetInv'
  <2>0. level = "execute" /\ UNCHANGED outer /\ calls # 0
    BY <1>0, <1>4 DEF Execute, TypeInv, LoopInv
  <2>1. UNCHANGED <<setting, calls, earlier>> /\ calls # 0
    BY <1>4, <2>0
       DEF Execute, Step, Prepare, PrepareFails, NoDynamicProxy, SendRefused, SendOk,
           SendFails, WaitEnds, WaitCancelled, outer
  <2> USE <1>0, <1>1, <2>1 DEF BudgetInv
  <2>2. CASE Prepare
    BY <2>2 DEF Prepare
  <2>3. ASSUME UNCHANGED <<attempt, sends>>, place' \in {"wait", "err"}
        PROVE  BudgetInv'
    BY <2>3
  <2>4. CASE PrepareFails \/ WaitCancelled
    BY <2>3, <2>4 DEF PrepareFails, WaitCancelled, FailAttempt
  <2>5. ASSUME place = "send", UNCHANGED attempt, Len(sends') =< Len(sends) + 1, Len(sends') \in Nat,
               \/ place' \in {"ok", "wait", "err"}
               \/ place' = "send" /\ route' = route + 1 /\ route < Len(Routes)
        PROVE  BudgetInv'
    <3>1. attempt * Len(Routes) \in Nat /\ (attempt + 1) * Len(Routes) = attempt * Len(Routes) + Len(Routes)
      OBVIOUS
    <3>2. Len(sends) =< attempt * Len(Routes) + route - 1
      BY <2>5
    <3>3. place' = "send" => Len(sends') =< attempt * Len(Routes) + route' - 1
      BY <2>5, <3>1, <3>2
    <3>4. Len(sends') =< (attempt + 1) * Len(Routes)
      BY <2>5, <3>1, <3>2
    <3>5. attempt' = attempt /\ Routes' = Routes /\ place' # "prepare" /\ calls' = calls
          /\ earlier' = earlier /\ Share' = Share
      BY <2>5
    <3> QED
      BY <3>3, <3>4, <3>5
  <2>6. CASE NoDynamicProxy \/ SendRefused
    BY <2>5, <2>6 DEF NoDynamicProxy, SendRefused, FailRoute, FailAttempt
  <2>7. sends \in Seq(Sent)
    BY DEF TypeInv, StackTypeOK, TypeOK
  <2>8. ASSUME NEW s, sends' = Append(sends, s) PROVE Len(sends') = Len(sends) + 1
    BY <2>7, <2>8
  <2>9. CASE SendOk
    BY <2>5, <2>8, <2>9 DEF SendOk, Record
  <2>10. CASE SendFails
    BY <2>5, <2>8, <2>10 DEF SendFails, Record, FailRoute, FailAttempt
  <2>11. CASE WaitEnds
    <3>1. attempt' = attempt + 1 /\ UNCHANGED sends /\ place' = "prepare"
      BY <2>11 DEF WaitEnds
    <3>2. (attempt' + 1) * Len(Routes) = attempt' * Len(Routes) + Len(Routes)
      BY <3>1
    <3> QED
      BY <3>1, <3>2
  <2> QED
    BY <1>4, <2>2, <2>4, <2>6, <2>9, <2>10, <2>11 DEF Execute, Step
<1> QED
  BY <1>2, <1>3, <1>4 DEF StackNext, StackStep

(* One chat completion sends at most Retry * Retry requests over each route, for   *)
(* every number of retries: the two loops multiply, and nothing else does         *)
(* (chat.go:192, request.go:318).                                             *)
THEOREM Budgeting == StackSpec => []TotalBudget
<1>1. TypeInv /\ BudgetInv => TotalBudget
  <2> SUFFICES ASSUME TypeInv, BudgetInv PROVE TotalBudget
    OBVIOUS
  <2>1. /\ Len(sends) \in Nat /\ Len(sends) =< Share /\ Share \in Nat /\ earlier \in Nat
        /\ calls \in Nat /\ calls =< Retry /\ Len(Routes) \in Nat
    BY ShareBounds
  <2>2. calls * Share \in Nat /\ Retry * Share \in Nat /\ calls * Share =< Retry * Share
    <3>1. (Retry - calls) * Share >= 0
      BY <2>1, StackAssumption
    <3>2. (Retry - calls) * Share = Retry * Share - calls * Share
      BY <2>1, StackAssumption
    <3> QED
      BY <2>1, <3>1, <3>2, StackAssumption
  <2>3. Retry * Share = Retry * Retry * Len(Routes)
    BY <2>1, StackAssumption DEF Share
  <2>4. CASE calls = 0
    <3>1. earlier = 0 /\ Len(sends) = 0
      BY <2>4 DEF BudgetInv
    <3> QED
      BY <2>2, <2>3, <3>1 DEF TotalBudget
  <2>5. CASE calls > 0
    <3>1. (calls - 1) * Share + Share = calls * Share /\ (calls - 1) * Share \in Int
      BY <2>1
    <3> QED
      BY <2>1, <2>2, <2>3, <2>5, <3>1 DEF BudgetInv, TotalBudget
  <2> QED
    BY <2>1, <2>4, <2>5
<1> QED
  BY <1>1, InitType, StepType, InitBudget, StepBudget, PTL DEF StackSpec
-----------------------------------------------------------------------------
(* That the loops end is a matter of fairness; that they cannot go on for ever   *)
(* is not.  AttemptRank counts the steps this Execute may still make, three     *)
(* routes and a wait for every attempt, and Rank those of both loops.           *)
AttemptRank ==
  IF place = "prepare" THEN 6 * (RetryCount - attempt) + 5
  ELSE IF place = "send" THEN 6 * (RetryCount - attempt) + 5 - route
  ELSE IF place = "wait" THEN 6 * (RetryCount - attempt) + 1
  ELSE 0

CallRank(n) == (6 * Retry + 2) * (Retry - n)

Rank ==
  (IF ctxDone THEN 0 ELSE 1) +
    (IF level = "execute" THEN CallRank(calls) + 2 + AttemptRank
     ELSE IF level = "backoff" THEN CallRank(calls) + 1
     ELSE IF level = "top" THEN CallRank(calls)
     ELSE 0)

(* The calls left, and what the next one costs. *)
LEMMA CallRankBounds ==
  ASSUME NEW n \in 0..Retry
  PROVE  /\ CallRank(n) \in Nat
         /\ n < Retry => CallRank(n) = CallRank(n + 1) + 6 * Retry + 2
<1>1. Retry \in Nat /\ n \in Nat /\ Retry - n \in Nat
  BY StackAssumption
<1>2. CallRank(n) \in Nat
  BY <1>1 DEF CallRank
<1>3. (6 * Retry + 2) * (Retry - n) = (6 * Retry + 2) * (Retry - (n + 1)) + 6 * Retry + 2
  <2> DEFINE w == 6 * Retry + 2
             m == Retry - (n + 1)
  <2>1. w \in Int /\ m \in Int /\ Retry - n = m + 1
    BY <1>1
  <2>2. w * (m + 1) = w * m + w
    <3> HIDE DEF w, m
    <3> QED
      BY <2>1
  <2>3. w * (Retry - n) = w * m + w
    <3> HIDE DEF w, m
    <3> QED
      BY <2>1, <2>2
  <2> QED
    BY <1>1, <2>1, <2>3
<1> QED
  BY <1>2, <1>3 DEF CallRank

(* The attempts left, and the place among the routes. *)
LEMMA AttemptsLeft ==
  ASSUME TypeInv
  PROVE  /\ RetryCount - attempt \in Nat /\ RetryCount - attempt =< Retry - 1
         /\ place = "wait" => RetryCount - attempt > 0
         /\ route \in 1..3
<1>1. attempt \in 0..RetryCount /\ (place = "wait" => attempt < RetryCount)
  BY DEF TypeInv, StackTypeOK, TypeOK, LoopInv
<1>2. /\ RetryCount - attempt \in Nat /\ RetryCount - attempt =< Retry - 1
      /\ place = "wait" => RetryCount - attempt > 0
  BY <1>1, ExecuteAssumption, StackAssumption
<1>3. route \in 1..Len(Routes) /\ Len(Routes) \in 1..3
  BY RoutesExist DEF TypeInv, StackTypeOK, TypeOK
<1>4. route \in 1..3
  <2> DEFINE n == Len(Routes)
  <2>1. route \in 1..n /\ n \in 1..3
    BY <1>3
  <2> HIDE DEF n
  <2> QED
    BY <2>1
<1> QED
  BY <1>2, <1>4

(* Neither rank is ever negative; a wait leaves an attempt to make, and a      *)
(* backoff a call.                                                           *)
LEMMA RankBounds ==
  ASSUME TypeInv
  PROVE  /\ AttemptRank \in Nat /\ AttemptRank =< 6 * Retry - 1
         /\ CallRank(calls) \in Nat
         /\ level \in {"top", "backoff"} => calls < Retry
         /\ level \in {"top", "backoff"} =>
              /\ CallRank(calls) = CallRank(calls + 1) + 6 * Retry + 2
              /\ CallRank(calls + 1) \in Nat
         /\ Rank \in Nat
<1> USE ExecuteAssumption, StackAssumption
<1>1. /\ attempt \in 0..RetryCount /\ route \in 1..Len(Routes) /\ Len(Routes) \in 1..3
      /\ calls \in 0..Retry /\ (place = "wait" => attempt < RetryCount)
      /\ (level \in {"top", "backoff"} => calls < Retry)
  BY RoutesExist DEF TypeInv, StackTypeOK, TypeOK, LoopInv
<1>2. AttemptRank \in Nat /\ AttemptRank =< 6 * Retry - 1
  <2>1. /\ RetryCount - attempt \in Nat /\ RetryCount - attempt =< Retry - 1
        /\ route \in 1..3 /\ Retry \in Nat
    BY AttemptsLeft
  <2>2. CASE place = "prepare"
    BY <2>1, <2>2 DEF AttemptRank
  <2>3. CASE place = "send"
    BY <2>1, <2>3 DEF AttemptRank
  <2>4. CASE place = "wait"
    BY <2>1, <2>4 DEF AttemptRank
  <2>5. CASE place \notin {"prepare", "send", "wait"}
    BY <2>1, <2>5 DEF AttemptRank
  <2> QED
    BY <2>2, <2>3, <2>4, <2>5
<1>3. CallRank(calls) \in Nat
  BY <1>1, CallRankBounds
<1>4. calls < Retry => /\ CallRank(calls) = CallRank(calls + 1) + 6 * Retry + 2
                       /\ CallRank(calls + 1) \in Nat
  <2>1. calls < Retry => calls + 1 \in 0..Retry
    BY <1>1
  <2> QED
    BY <1>1, <2>1, CallRankBounds
<1>5. Rank \in Nat
  BY <1>2, <1>3 DEF Rank
<1> QED
  BY <1>1, <1>2, <1>3, <1>4, <1>5

(* Every step of Execute comes closer to its end. *)
LEMMA AttemptDescends == TypeInv /\ Step => AttemptRank' < AttemptRank
<1> SUFFICES ASSUME TypeInv, Step PROVE AttemptRank' < AttemptRank
  OBVIOUS
<1> USE ExecuteAssumption DEF AttemptRank
<1>1. /\ attempt \in 0..RetryCount /\ route \in 1..Len(Routes) /\ Len(Routes) \in 1..3
      /\ (place = "wait" => attempt < RetryCount)
  BY RoutesExist DEF TypeInv, StackTypeOK, TypeOK, LoopInv
<1>2. ASSUME place \in {"prepare", "send"}, FailAttempt, UNCHANGED attempt
      PROVE  AttemptRank' < AttemptRank
  <2> DEFINE m == 6 * (RetryCount - attempt)
  <2>1. m \in Nat /\ m' = m /\ route \in 1..3
    BY <1>2, AttemptsLeft
  <2>2. AttemptRank \in Int /\ AttemptRank >= m + 2
    BY <1>2, <2>1
  <2>3. place' \in {"wait", "err"}
    BY <1>2 DEF FailAttempt
  <2>4. AttemptRank' \in {m + 1, 0}
    BY <2>1, <2>3
  <2> QED
    <3> HIDE DEF m, AttemptRank
    <3> QED
      BY <2>1, <2>2, <2>4
<1>3. ASSUME place = "send", FailRoute, UNCHANGED attempt
      PROVE  AttemptRank' < AttemptRank
  <2>1. CASE route < Len(Routes)
    BY <1>1, <1>3, <2>1 DEF FailRoute
  <2>2. CASE ~(route < Len(Routes))
    <3>1. FailAttempt
      BY <1>3, <2>2 DEF FailRoute
    <3> QED
      BY <1>2, <1>3, <3>1
  <2> QED
    BY <2>1, <2>2
<1>4. CASE Prepare
  BY <1>1, <1>4 DEF Prepare
<1>5. CASE PrepareFails
  BY <1>2, <1>5 DEF PrepareFails
<1>6. CASE NoDynamicProxy \/ SendRefused \/ SendFails
  <2>1. place = "send" /\ FailRoute /\ UNCHANGED attempt
    BY <1>6 DEF NoDynamicProxy, SendRefused, SendFails
  <2> QED
    BY <1>3, <2>1
<1>7. CASE SendOk
  <2>1. place = "send" /\ place' = "ok" /\ RetryCount - attempt \in Nat /\ route \in 1..3
    BY <1>7, AttemptsLeft DEF SendOk
  <2>2. AttemptRank' = 0 /\ AttemptRank = 6 * (RetryCount - attempt) + 5 - route
    BY <2>1
  <2> QED
    <3> HIDE DEF AttemptRank
    <3> QED
      BY <2>1, <2>2
<1>8. CASE WaitEnds
  BY <1>1, <1>8 DEF WaitEnds
<1>9. CASE WaitCancelled
  BY <1>1, <1>9 DEF WaitCancelled
<1> QED
  BY <1>4, <1>5, <1>6, <1>7, <1>8, <1>9 DEF Step

LEMMA StackDescends == TypeInv /\ StackNext => Rank' < Rank
<1> SUFFICES ASSUME TypeInv, StackNext PROVE Rank' < Rank
  OBVIOUS
<1> USE ExecuteAssumption, StackAssumption
<1>1. /\ AttemptRank \in Nat /\ CallRank(calls) \in Nat
      /\ level \in {"top", "backoff"} => calls < Retry
      /\ level \in {"top", "backoff"} =>
           /\ CallRank(calls) = CallRank(calls + 1) + 6 * Retry + 2
           /\ CallRank(calls + 1) \in Nat
      /\ Retry \in Nat \ {0} /\ ctxDone \in BOOLEAN
  BY RankBounds DEF TypeInv, StackTypeOK, TypeOK
<1>2. CASE Begin
  <2>1. /\ level = "top" /\ level' = "execute" /\ calls' = calls + 1
        /\ AttemptRank' = 6 * RetryCount + 5 /\ ctxDone' = ctxDone
    BY <1>2 DEF Begin, AttemptRank
  <2>2. Rank = (IF ctxDone THEN 0 ELSE 1) + CallRank(calls)
    BY <2>1 DEF Rank
  <2>3. Rank' = (IF ctxDone THEN 0 ELSE 1) + (CallRank(calls + 1) + 2 + (6 * RetryCount + 5))
    BY <2>1 DEF Rank, CallRank
  <2> QED
    BY <1>1, <2>1, <2>2, <2>3
<1>3. CASE Abort \/ Accept \/ Reject \/ BackoffEnds
  <2>1. UNCHANGED <<calls, ctxDone>> /\ CallRank(calls)' = CallRank(calls)
    BY <1>3 DEF Abort, Accept, Reject, BackoffEnds, CallRank
  <2>2. CASE Abort
    <3>1. level \in {"top", "backoff"} /\ level' = "err"
      BY <2>2 DEF Abort
    <3> QED
      BY <1>1, <2>1, <3>1 DEF Rank
  <2>3. CASE Accept \/ Reject
    <3>1. level = "execute" /\ level' \in {"ok", "err", "backoff"}
      BY <2>3 DEF Accept, Reject
    <3> QED
      BY <1>1, <2>1, <3>1 DEF Rank
  <2>4. CASE BackoffEnds
    <3>1. level = "backoff" /\ level' = "top"
      BY <2>4 DEF BackoffEnds
    <3> QED
      BY <1>1, <2>1, <3>1 DEF Rank
  <2> QED
    BY <1>3, <2>2, <2>3, <2>4
<1>4. CASE Execute
  <2>1. /\ level = "execute" /\ UNCHANGED <<calls, level, ctxDone>>
        /\ AttemptRank' < AttemptRank /\ CallRank(calls)' = CallRank(calls)
    BY <1>4, AttemptDescends
       DEF Execute, Step, outer, Prepare, PrepareFails, NoDynamicProxy, SendRefused, SendOk,
           SendFails, WaitEnds, WaitCancelled, CallRank
  <2>2. AttemptRank' \in Int
    <3>1. TypeInv'
      BY <1>4, StepType DEF StackNext, StackStep
    <3>2. RetryCount \in Int /\ attempt' \in Int /\ route' \in Int
      BY <3>1 DEF TypeInv, StackTypeOK, TypeOK
    <3> QED
      BY <3>2 DEF AttemptRank
  <2> QED
    BY <1>1, <2>1, <2>2 DEF Rank
<1>5. CASE CancelStack
  <2>1. /\ ~ctxDone /\ ctxDone' /\ UNCHANGED <<level, calls>>
        /\ AttemptRank' = AttemptRank /\ CallRank(calls)' = CallRank(calls)
    BY <1>5 DEF CancelStack, Cancel, outer, xvars, AttemptRank, CallRank
  <2> QED
    BY <1>1, <2>1 DEF Rank
<1> QED
  BY <1>2, <1>3, <1>4, <1>5 DEF StackNext, StackStep

(* Every step lowers a natural number that begins below 6 * Retry * Retry +      *)
(* 2 * Retry + 2: however sends fail, and whenever the client leaves, the loops   *)
(* make no more steps than that (chat.go:192, request.go:318).                *)
THEOREM Descending ==
  StackSpec => /\ Rank = (6 * Retry + 2) * Retry + 1
               /\ [](Rank \in Nat)
               /\ [][Rank' < Rank]_svars
<1>1. StackInit => Rank = (6 * Retry + 2) * Retry + 1
  <2>1. (6 * Retry + 2) * Retry \in Nat /\ Retry - 0 = Retry
    BY StackAssumption
  <2> QED
    BY <2>1 DEF StackInit, Init, Rank, CallRank
<1>2. TypeInv => Rank \in Nat
  BY RankBounds
<1>3. TypeInv /\ [StackNext]_svars => [Rank' < Rank]_svars
  BY StackDescends
<1> QED
  BY <1>1, <1>2, <1>3, InitType, StepType, PTL DEF StackSpec
=============================================================================
