------------------------- MODULE TokenBucketProofs -------------------------
(***************************************************************************)
(* For any number of requests and any Unit, Rate, Burst and Poll: the token *)
(* bucket is type correct, its tokens are exactly the room of the tightest  *)
(* window, no window admits more than burst and rate allow, and the bucket  *)
(* implements WindowLimit.                                                  *)
(***************************************************************************)
EXTENDS TokenBucket, FiniteSetTheorems, TLAPS

(* The arithmetic of the module: multiplication distributes over time.       *)
LEMMA Distributes ==
  ASSUME NEW k \in Int, NEW a \in Int, NEW b \in Int, NEW c \in Int
  PROVE  /\ k * (a - b) \in Int
         /\ k * (a - c) = k * (a - b) + k * (b - c)
         /\ k * (a + 1) = k * a + k
         /\ k * a \in Int
  OBVIOUS

LEMMA NonNegative ==
  ASSUME NEW k \in Nat, NEW d \in Nat
  PROVE  k * d \in Nat
  OBVIOUS

LEMMA CapacityNat == Capacity \in Nat
  BY NonNegative, LimiterAssumption DEF Capacity

(* What the refill of Allow (limiter.go:64) yields: a number of sub-units     *)
(* within the capacity that is the capacity or everything accrued.           *)
LEMMA RefillFacts ==
  ASSUME TypeOK
  PROVE  /\ Refilled \in 0..Capacity
         /\ Refilled =< tokens + Rate * (clock - lastTime)
         /\ Refilled = Capacity \/ Refilled = tokens + Rate * (clock - lastTime)
<1>1. clock - lastTime \in Nat
  BY DEF TypeOK
<1>2. Rate * (clock - lastTime) \in Nat
  BY <1>1, NonNegative, LimiterAssumption
<1> QED
  BY <1>2, CapacityNat DEF TypeOK, Refilled, MinOf

-----------------------------------------------------------------------------
(* Every state of the limiter is well typed: in particular the bucket never  *)
(* holds less than nothing or more than its capacity (limiter.go, Allow).    *)
THEOREM Typing == Spec => []TypeOK
<1>1. Init => TypeOK
  BY CapacityNat DEF Init, TypeOK, Places
<1>2. TypeOK /\ [Next]_vars => TypeOK'
  <2> SUFFICES ASSUME TypeOK, [Next]_vars PROVE TypeOK'
    OBVIOUS
  <2> USE LimiterAssumption, CapacityNat DEF TypeOK, Places, Goto, bucket, counters
  <2>1. ASSUME NEW r \in Requests, GiveUp(r) PROVE TypeOK'
    BY <2>1 DEF GiveUp
  <2>2. ASSUME NEW r \in Requests, CountCall(r) PROVE TypeOK'
    BY <2>2 DEF CountCall
  <2>3. ASSUME NEW r \in Requests, Bypass(r) PROVE TypeOK'
    BY <2>3 DEF Bypass
  <2>4. ASSUME NEW r \in Requests, EnterMeter(r) PROVE TypeOK'
    BY <2>4 DEF EnterMeter
  <2>5. ASSUME NEW r \in Requests, Admit(r) PROVE TypeOK'
    <3>1. tokens' \in 0..Capacity
      BY <2>5, RefillFacts DEF Admit
    <3>2. grants' \in Seq(Nat)
      BY <2>5 DEF Admit
    <3>3. UNCHANGED Capacity
      BY DEF Capacity
    <3> QED
      BY <2>5, <3>1, <3>2, <3>3 DEF Admit
  <2>6. ASSUME NEW r \in Requests, Reject(r) PROVE TypeOK'
    BY <2>6, RefillFacts DEF Reject
  <2>7. ASSUME NEW r \in Requests, Wake(r) PROVE TypeOK'
    BY <2>7 DEF Wake
  <2>8. ASSUME NEW r \in Requests, Cancel(r) PROVE TypeOK'
    BY <2>8 DEF Cancel
  <2>9. CASE Enable
    BY <2>9 DEF Enable
  <2>10. CASE Disable
    BY <2>10 DEF Disable
  <2>11. CASE Tick
    BY <2>11 DEF Tick
  <2>12. CASE UNCHANGED vars
    BY <2>12 DEF vars
  <2> QED
    BY <2>1, <2>2, <2>3, <2>4, <2>5, <2>6, <2>7, <2>8, <2>9, <2>10, <2>11, <2>12
       DEF Next, Step
<1> QED
  BY <1>1, <1>2, PTL DEF Spec

-----------------------------------------------------------------------------
(* The room of a window after the bucket has caught up with the clock. *)
RoomNow(i) ==
  Capacity + Rate * (clock - grants[i]) - Unit * (Len(grants) - i + 1)

LEMMA RoomGrows ==
  ASSUME TypeOK, NEW i \in 1..Len(grants)
  PROVE  /\ Room(i) \in Int
         /\ RoomNow(i) = Room(i) + Rate * (clock - lastTime)
<1>1. /\ clock \in Int /\ lastTime \in Int /\ grants[i] \in Int
      /\ Len(grants) \in Int /\ Rate \in Int /\ Unit \in Int
  BY LimiterAssumption DEF TypeOK
<1>2. /\ Rate * (clock - grants[i])
           = Rate * (clock - lastTime) + Rate * (lastTime - grants[i])
      /\ Rate * (clock - lastTime) \in Int /\ Rate * (lastTime - grants[i]) \in Int
  BY <1>1, Distributes
<1>3. Unit * (Len(grants) - i + 1) \in Int
  BY <1>1
<1> QED
  BY <1>2, <1>3, CapacityNat DEF Room, RoomNow

(* After a refill the bucket is the tightest window as of now. *)
LEMMA RefillTightest ==
  ASSUME TypeOK, BucketIsTightest
  PROVE  /\ \A i \in 1..Len(grants) : Refilled =< RoomNow(i)
         /\ Refilled = Capacity \/ \E i \in 1..Len(grants) : Refilled = RoomNow(i)
<1>1. /\ tokens \in Int /\ Refilled \in Int /\ Rate * (clock - lastTime) \in Nat
      /\ Capacity \in Nat
  <2>1. clock - lastTime \in Nat
    BY DEF TypeOK
  <2> QED
    BY <2>1, RefillFacts, CapacityNat, NonNegative, LimiterAssumption DEF TypeOK
<1>2. ASSUME NEW i \in 1..Len(grants)
      PROVE  Refilled =< RoomNow(i)
  BY <1>1, RefillFacts, RoomGrows DEF BucketIsTightest
<1>3. CASE Refilled = Capacity
  BY <1>2, <1>3
<1>4. CASE Refilled = tokens + Rate * (clock - lastTime) /\ tokens = Capacity
  BY <1>1, <1>2, <1>4, RefillFacts
<1>5. ASSUME Refilled = tokens + Rate * (clock - lastTime),
             NEW i \in 1..Len(grants), tokens = Room(i)
      PROVE  Refilled = RoomNow(i)
  BY <1>5, RoomGrows
<1> QED
  BY <1>2, <1>3, <1>4, <1>5, RefillFacts DEF BucketIsTightest

(* A rejected call leaves the refilled bucket, an admission takes one token. *)
LEMMA RejectTightest ==
  ASSUME TypeOK, BucketIsTightest, NEW r \in Requests, Reject(r)
  PROVE  BucketIsTightest'
<1>1. tokens' = Refilled /\ lastTime' = clock /\ grants' = grants
  BY DEF Reject
<1>2. Capacity' = Capacity /\ \A i \in 1..Len(grants) : Room(i)' = RoomNow(i)
  BY <1>1 DEF Room, RoomNow, Capacity
<1> QED
  BY <1>1, <1>2, RefillTightest DEF BucketIsTightest

LEMMA AdmitTightest ==
  ASSUME TypeOK, BucketIsTightest, NEW r \in Requests, Admit(r)
  PROVE  BucketIsTightest'
<1>0. PICK n \in Nat : n = Len(grants)
  BY DEF TypeOK
<1>1. /\ tokens' = Refilled - Unit /\ lastTime' = clock
      /\ grants' = Append(grants, clock) /\ Refilled >= Unit
  BY DEF Admit
<1>2. /\ n \in Nat /\ Len(grants') = n + 1 /\ grants'[n + 1] = clock
      /\ \A i \in 1..n : grants'[i] = grants[i]
      /\ Capacity' = Capacity
  BY <1>0, <1>1 DEF TypeOK, Capacity
<1>3. ASSUME NEW i \in 1..n
      PROVE  Room(i)' = RoomNow(i) - Unit /\ RoomNow(i) \in Int
  <2>1. Room(i)' = Capacity + Rate * (clock - grants[i]) - Unit * ((n + 1) - i + 1)
    BY <1>1, <1>2 DEF Room
  <2>2. Unit * ((n + 1) - i + 1) = Unit * (n - i + 1) + Unit
    <3>1. (n + 1) - i + 1 = (n - i + 1) + 1 /\ n - i + 1 \in Int
      BY <1>2
    <3> QED
      BY <3>1, Distributes, LimiterAssumption
  <2>3. Rate * (clock - grants[i]) \in Int /\ Unit * (n - i + 1) \in Int
    BY <1>0, <1>2, LimiterAssumption DEF TypeOK
  <2> QED
    BY <1>0, <2>1, <2>2, <2>3, CapacityNat, LimiterAssumption DEF RoomNow
<1>4. Room(n + 1)' = Capacity - Unit
  <2>1. Room(n + 1)' = Capacity + Rate * (clock - clock) - Unit * ((n + 1) - (n + 1) + 1)
    BY <1>1, <1>2 DEF Room
  <2>2. Rate * (clock - clock) = 0 /\ Unit * ((n + 1) - (n + 1) + 1) = Unit
    BY <1>2, LimiterAssumption DEF TypeOK
  <2> QED
    BY <2>1, <2>2, CapacityNat, LimiterAssumption
<1>5. Refilled \in Int /\ Capacity \in Int /\ Unit \in Int /\ Refilled =< Capacity
  BY RefillFacts, CapacityNat, LimiterAssumption
<1>6. \A i \in 1..Len(grants') : tokens' =< Room(i)'
  <2>1. ASSUME NEW i \in 1..(n + 1) PROVE tokens' =< Room(i)'
    <3>1. CASE i = n + 1
      BY <3>1, <1>1, <1>4, <1>5
    <3>2. CASE i # n + 1
      <4>1. i \in 1..n
        BY <1>2, <3>2
      <4> QED
        BY <4>1, <1>0, <1>1, <1>3, <1>5, RefillTightest
    <3> QED
      BY <3>1, <3>2
  <2> QED
    BY <2>1, <1>2
<1>7. \E i \in 1..Len(grants') : tokens' = Room(i)'
  <2>1. CASE Refilled = Capacity
    BY <2>1, <1>1, <1>2, <1>4
  <2>2. ASSUME NEW i \in 1..n, Refilled = RoomNow(i)
        PROVE  tokens' = Room(i)' /\ i \in 1..Len(grants')
    BY <2>2, <1>1, <1>2, <1>3
  <2> QED
    BY <1>0, <2>1, <2>2, RefillTightest
<1> QED
  BY <1>6, <1>7 DEF BucketIsTightest

(* The bucket is the tightest window in every reachable state: polls that    *)
(* are rejected, sleeps and disabling never lose or create tokens            *)
(* (limiter.go:59-72).                                                       *)
THEOREM Tightest == Spec => []BucketIsTightest
<1>1. Init => BucketIsTightest
  BY DEF Init, BucketIsTightest
<1>2. TypeOK /\ BucketIsTightest /\ [Next]_vars => BucketIsTightest'
  <2> SUFFICES ASSUME TypeOK, BucketIsTightest, [Next]_vars
               PROVE  BucketIsTightest'
    OBVIOUS
  <2>1. ASSUME UNCHANGED <<tokens, lastTime, grants>> PROVE BucketIsTightest'
    BY <2>1 DEF BucketIsTightest, Room, Capacity
  <2>2. ASSUME NEW r \in Requests, Step(r) PROVE BucketIsTightest'
    <3>1. CASE Admit(r)
      BY <3>1, AdmitTightest
    <3>2. CASE Reject(r)
      BY <3>2, RejectTightest
    <3>3. CASE GiveUp(r) \/ CountCall(r) \/ Bypass(r) \/ EnterMeter(r)
                 \/ Wake(r) \/ Cancel(r)
      BY <3>3, <2>1
         DEF GiveUp, CountCall, Bypass, EnterMeter, Wake, Cancel, bucket
    <3> QED
      BY <2>2, <3>1, <3>2, <3>3 DEF Step
  <2>3. CASE Enable \/ Disable \/ Tick \/ UNCHANGED vars
    BY <2>1, <2>3 DEF Enable, Disable, Tick, vars, bucket
  <2> QED
    BY <2>2, <2>3 DEF Next
<1> QED
  BY <1>1, <1>2, Typing, PTL DEF Spec

-----------------------------------------------------------------------------
(* A token is there exactly when one more admission keeps every window within *)
(* burst and rate.                                                           *)
LEMMA TokenIffFits ==
  ASSUME TypeOK, BucketIsTightest
  PROVE  Refilled >= Unit <=> Window!Fits
<1>0. PICK n \in Nat : n = Len(grants)
  BY DEF TypeOK
<1>1. ASSUME NEW i \in 1..n
      PROVE  /\ RoomNow(i) \in Int
             /\ RoomNow(i) >= Unit
                  <=> Unit * (n - i + 2) =< Capacity + Rate * (clock - grants[i])
  <2>1. Unit * (n - i + 2) = Unit * (n - i + 1) + Unit
    <3>1. n - i + 2 = (n - i + 1) + 1 /\ n - i + 1 \in Int
      BY <1>0
    <3> QED
      BY <3>1, Distributes, LimiterAssumption
  <2>2. Rate * (clock - grants[i]) \in Int /\ Unit * (n - i + 1) \in Int
    BY <1>0, LimiterAssumption DEF TypeOK
  <2> QED
    BY <1>0, <2>1, <2>2, CapacityNat, LimiterAssumption DEF RoomNow
<1>2. Refilled \in Int /\ Capacity \in Int /\ Unit \in Int /\ Refilled =< Capacity
  BY RefillFacts, CapacityNat, LimiterAssumption
<1>3. Window!Fits <=> /\ Unit =< Capacity
                      /\ \A i \in 1..n : RoomNow(i) >= Unit
  BY <1>0, <1>1 DEF Window!Fits, Window!Capacity, Capacity
<1>4. ASSUME Refilled >= Unit PROVE Window!Fits
  BY <1>0, <1>1, <1>2, <1>3, <1>4, RefillTightest
<1>5. ASSUME Window!Fits PROVE Refilled >= Unit
  BY <1>0, <1>1, <1>2, <1>3, <1>5, RefillTightest
<1> QED
  BY <1>4, <1>5

LEMMA AdmitKeepsWindows ==
  ASSUME TypeOK, BucketIsTightest, WindowBound, NEW r \in Requests, Admit(r)
  PROVE  WindowBound'
<1>0. PICK n \in Nat : n = Len(grants)
  BY DEF TypeOK
<1>1. grants' = Append(grants, clock) /\ Window!Fits
  BY TokenIffFits DEF Admit
<1>2. /\ Len(grants') = n + 1 /\ grants'[n + 1] = clock
      /\ \A i \in 1..n : grants'[i] = grants[i]
      /\ Capacity' = Capacity
  BY <1>0, <1>1 DEF TypeOK, Capacity
<1>3. ASSUME NEW i \in 1..n
      PROVE  Unit * ((n + 1) - i + 1) =< Capacity + Rate * (clock - grants[i])
  <2>1. (n + 1) - i + 1 = n - i + 2
    BY <1>0
  <2> QED
    BY <1>0, <1>1, <2>1 DEF Window!Fits, Window!Capacity, Capacity
<1>4. Unit * ((n + 1) - (n + 1) + 1) =< Capacity + Rate * (clock - clock)
  <2>1. Unit * ((n + 1) - (n + 1) + 1) = Unit /\ Rate * (clock - clock) = 0
    BY LimiterAssumption DEF TypeOK
  <2> QED
    BY <1>1, <2>1, CapacityNat DEF Window!Fits, Window!Capacity, Capacity
<1>5. ASSUME NEW j \in 1..(n + 1), NEW i \in 1..j
      PROVE  Unit * (j - i + 1) =< Capacity' + Rate * (grants'[j] - grants'[i])
  <2>1. CASE j \in 1..n
    <3>1. i \in 1..n
      BY <2>1
    <3> QED
      BY <1>0, <1>2, <2>1, <3>1 DEF WindowBound
  <2>2. CASE j = n + 1 /\ i = n + 1
    BY <1>2, <1>4, <2>2
  <2>3. CASE j = n + 1 /\ i \in 1..n
    BY <1>2, <1>3, <2>3
  <2> QED
    BY <2>1, <2>2, <2>3
<1> QED
  BY <1>2, <1>5 DEF WindowBound

(* No window of time, however chosen, sees more admissions than burst and    *)
(* rate allow, for any number of requests polling in any order               *)
(* (limiter.go:48-75).                                                       *)
THEOREM Limiting == Spec => []WindowBound
<1>1. Init => WindowBound
  BY DEF Init, WindowBound
<1>2. TypeOK /\ BucketIsTightest /\ WindowBound /\ [Next]_vars => WindowBound'
  <2> SUFFICES ASSUME TypeOK, BucketIsTightest, WindowBound, [Next]_vars
               PROVE  WindowBound'
    OBVIOUS
  <2>1. ASSUME UNCHANGED grants PROVE WindowBound'
    BY <2>1 DEF WindowBound, Capacity
  <2>2. ASSUME NEW r \in Requests, Step(r) PROVE WindowBound'
    <3>1. CASE Admit(r)
      BY <3>1, AdmitKeepsWindows
    <3>2. CASE ~Admit(r)
      BY <2>1, <2>2, <3>2
         DEF Step, GiveUp, CountCall, Bypass, EnterMeter, Reject, Wake, Cancel
    <3> QED
      BY <3>1, <3>2
  <2>3. CASE Enable \/ Disable \/ Tick \/ UNCHANGED vars
    BY <2>1, <2>3 DEF Enable, Disable, Tick, vars
  <2> QED
    BY <2>2, <2>3 DEF Next
<1> QED
  BY <1>1, <1>2, Typing, Tightest, PTL DEF Spec

(* The bucket implements the window limiter: a metered admission happens only *)
(* when the windows have room, and a rejection only when they have none.     *)
THEOREM Implements == Spec => ImplementsWindow
<1>1. Init => Window!Init
  BY DEF Init, Window!Init
<1>2. TypeOK /\ BucketIsTightest /\ [Next]_vars => [Window!Next]_(Window!vars)
  <2> SUFFICES ASSUME TypeOK, BucketIsTightest, [Next]_vars
               PROVE  Window!Next \/ UNCHANGED Window!vars
    OBVIOUS
  <2>1. ASSUME NEW r \in Requests, Step(r)
        PROVE  Window!Next \/ UNCHANGED Window!vars
    <3>1. CASE Admit(r)
      BY <3>1, TokenIffFits DEF Admit, Window!Admit, Window!Next
    <3>2. CASE Reject(r)
      <4>1. ~(Refilled >= Unit)
        BY <3>2, RefillFacts, LimiterAssumption DEF Reject
      <4> QED
        BY <3>2, <4>1, TokenIffFits DEF Reject, Window!Refuse, Window!Next
    <3>3. CASE GiveUp(r) \/ CountCall(r) \/ Bypass(r) \/ EnterMeter(r)
                 \/ Wake(r) \/ Cancel(r)
      BY <3>3 DEF GiveUp, CountCall, Bypass, EnterMeter, Wake, Cancel, counters,
                  Window!vars
    <3> QED
      BY <2>1, <3>1, <3>2, <3>3 DEF Step
  <2>2. CASE Tick
    BY <2>2 DEF Tick, counters, Window!Pass, Window!Next
  <2>3. CASE Enable \/ Disable \/ UNCHANGED vars
    BY <2>3 DEF Enable, Disable, counters, vars, Window!vars
  <2> QED
    BY <2>1, <2>2, <2>3 DEF Next
<1> QED
  BY <1>1, <1>2, Typing, Tightest, PTL DEF Spec, ImplementsWindow, Window!Spec
-----------------------------------------------------------------------------
(* The calls in flight, counted: one joins, one leaves, or they stay as they   *)
(* are.  However many requests there are, only finitely many are in flight.   *)
Counted == IsFiniteSet(InFlight) /\ CallsAccounted

LEMMA FlightJoined ==
  ASSUME TypeOK, Counted, NEW r \in Requests, r \notin InFlight,
         pc' = [pc EXCEPT ![r] = "counted"]
  PROVE  IsFiniteSet(InFlight') /\ Cardinality(InFlight') = Cardinality(InFlight) + 1
<1>1. InFlight' = InFlight \cup {r}
  BY DEF InFlight, TypeOK
<1> QED
  BY <1>1, FS_AddElement DEF Counted

LEMMA FlightLeft ==
  ASSUME TypeOK, Counted, NEW r \in Requests, r \in InFlight,
         NEW place \in Places \ {"counted", "metered"},
         pc' = [pc EXCEPT ![r] = place]
  PROVE  /\ IsFiniteSet(InFlight') /\ Cardinality(InFlight') \in Nat
         /\ Cardinality(InFlight) = Cardinality(InFlight') + 1
<1>1. InFlight' = InFlight \ {r}
  BY DEF InFlight, TypeOK
<1>2. /\ IsFiniteSet(InFlight \ {r})
      /\ Cardinality(InFlight \ {r}) = Cardinality(InFlight) - 1
  BY FS_RemoveElement DEF Counted
<1>3. Cardinality(InFlight \ {r}) \in Nat /\ Cardinality(InFlight) \in Nat
  BY <1>2, FS_CardinalityType DEF Counted
<1> QED
  BY <1>1, <1>2, <1>3

LEMMA FlightKept ==
  ASSUME TypeOK, Counted, NEW r \in Requests, NEW place \in Places,
         r \in InFlight <=> place \in {"counted", "metered"},
         pc' = [pc EXCEPT ![r] = place]
  PROVE  InFlight' = InFlight
BY DEF InFlight, TypeOK

(* However requests poll, give up and are let through, no path through Allow   *)
(* forgets its counter or bumps two (limiter.go:48-75).                       *)
THEOREM Accounting == Spec => []CallsAccounted
<1>1. Init => Counted
  <2> SUFFICES ASSUME Init PROVE Counted
    OBVIOUS
  <2>1. InFlight = {}
    BY DEF Init, InFlight
  <2> QED
    BY <2>1, FS_EmptySet DEF Init, Counted, CallsAccounted
<1>2. TypeOK /\ Counted /\ [Next]_vars => Counted'
  <2> SUFFICES ASSUME TypeOK, Counted, [Next]_vars PROVE Counted'
    OBVIOUS
  <2>0. /\ requestCount \in Nat /\ allowedCount \in Nat /\ rejectedCount \in Nat
        /\ Cardinality(InFlight) \in Nat /\ IsFiniteSet(InFlight)
        /\ requestCount = allowedCount + rejectedCount + Cardinality(InFlight)
    BY FS_CardinalityType DEF TypeOK, Counted, CallsAccounted
  <2>1. ASSUME NEW r \in Requests, GiveUp(r) PROVE Counted'
    <3>1. InFlight' = InFlight
      BY <2>1, FlightKept DEF GiveUp, Goto, InFlight, Places
    <3> QED
      BY <2>0, <2>1, <3>1 DEF GiveUp, counters, Counted, CallsAccounted
  <2>2. ASSUME NEW r \in Requests, CountCall(r) PROVE Counted'
    <3>1. IsFiniteSet(InFlight') /\ Cardinality(InFlight') = Cardinality(InFlight) + 1
      BY <2>2, FlightJoined DEF CountCall, Goto, InFlight
    <3> QED
      BY <2>0, <2>2, <3>1 DEF CountCall, Counted, CallsAccounted
  <2>3. ASSUME NEW r \in Requests, Bypass(r) PROVE Counted'
    <3>1. /\ IsFiniteSet(InFlight') /\ Cardinality(InFlight') \in Nat
          /\ Cardinality(InFlight) = Cardinality(InFlight') + 1
      BY <2>3, FlightLeft DEF Bypass, Goto, InFlight, Places
    <3> QED
      BY <2>0, <2>3, <3>1 DEF Bypass, Counted, CallsAccounted
  <2>4. ASSUME NEW r \in Requests, EnterMeter(r) PROVE Counted'
    <3>1. InFlight' = InFlight
      BY <2>4, FlightKept DEF EnterMeter, Goto, InFlight, Places
    <3> QED
      BY <2>0, <2>4, <3>1 DEF EnterMeter, counters, Counted, CallsAccounted
  <2>5. ASSUME NEW r \in Requests, Admit(r) PROVE Counted'
    <3>1. /\ IsFiniteSet(InFlight') /\ Cardinality(InFlight') \in Nat
          /\ Cardinality(InFlight) = Cardinality(InFlight') + 1
      BY <2>5, FlightLeft DEF Admit, Goto, InFlight, Places
    <3> QED
      BY <2>0, <2>5, <3>1 DEF Admit, Counted, CallsAccounted
  <2>6. ASSUME NEW r \in Requests, Reject(r) PROVE Counted'
    <3>1. /\ IsFiniteSet(InFlight') /\ Cardinality(InFlight') \in Nat
          /\ Cardinality(InFlight) = Cardinality(InFlight') + 1
      BY <2>6, FlightLeft DEF Reject, Goto, InFlight, Places
    <3> QED
      BY <2>0, <2>6, <3>1 DEF Reject, Counted, CallsAccounted
  <2>7. ASSUME NEW r \in Requests, Wake(r) PROVE Counted'
    <3>1. InFlight' = InFlight
      BY <2>7, FlightKept DEF Wake, Goto, InFlight, Places
    <3> QED
      BY <2>0, <2>7, <3>1 DEF Wake, counters, Counted, CallsAccounted
  <2>8. ASSUME UNCHANGED <<counters, pc>> PROVE Counted'
    <3>1. InFlight' = InFlight
      BY <2>8 DEF InFlight
    <3> QED
      BY <2>0, <2>8, <3>1 DEF counters, Counted, CallsAccounted
  <2> QED
    BY <2>1, <2>2, <2>3, <2>4, <2>5, <2>6, <2>7, <2>8
       DEF Next, Step, Cancel, Enable, Disable, Tick, vars, counters
<1>3. Counted => CallsAccounted
  BY DEF Counted
<1> QED
  BY <1>1, <1>2, <1>3, Typing, PTL DEF Spec
=============================================================================
