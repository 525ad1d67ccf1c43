---------------------------- MODULE ServerProofs ----------------------------
(***************************************************************************)
(* For any finite set of requests, of scrapes and of requests without a key:  *)
(* the counters add up, a scrape reports nothing that was not there, and      *)
(* shutdown is graceful.                                                     *)
(***************************************************************************)
EXTENDS Server, FiniteSetTheorems, TLAPS

(* The requests in one of some phases. *)
In(phases) == {r \in Requests : phase[r] \in phases}

Counted == {"handle", "scrape", "succeeded", "failed"}
Before  == {"away", "auth"}

Typed ==
  /\ server \in {"running", "draining", "closing", "exited"}
  /\ phase \in [Requests -> Phases]
  /\ requestCount \in Nat /\ successCount \in Nat /\ errorCount \in Nat
  /\ seen \in [Requests -> [request : Int, success : Int, error : Int]]
  /\ overdue \in BOOLEAN

LEMMA InitTyped == Init => Typed
<1> SUFFICES ASSUME Init PROVE Typed
  OBVIOUS
<1>1. Unread \in Int
  BY DEF Unread
<1>2. seen \in [Requests -> [request : Int, success : Int, error : Int]]
  BY <1>1 DEF Init
<1>3. phase \in [Requests -> Phases]
  BY DEF Init, Phases
<1>4. server \in {"running", "draining", "closing", "exited"} /\ overdue \in BOOLEAN
  BY DEF Init
<1>5. requestCount \in Nat /\ successCount \in Nat /\ errorCount \in Nat
  BY DEF Init
<1> QED
  BY <1>2, <1>3, <1>4, <1>5 DEF Typed

LEMMA StepTyped == Typed /\ [Next]_vars => Typed'
<1> SUFFICES ASSUME Typed, [Next]_vars PROVE Typed'
  OBVIOUS
<1> USE DEF Typed, Phases, Move, counters
<1>1. ASSUME NEW r \in Requests,
             Arrive(r) \/ Unauthorize(r) \/ Count(r) \/ Handle(r) \/ Panic(r)
      PROVE  Typed'
  BY <1>1 DEF Arrive, Unauthorize, Count, Handle, Panic
<1>2. ASSUME NEW r \in Requests, NEW counter \in {"request", "success", "error"},
             NEW value \in Nat, ReadCounter(r, counter, value)
      PROVE  Typed'
  <2>1. seen' \in [Requests -> [request : Int, success : Int, error : Int]]
    BY <1>2 DEF ReadCounter
  <2>2. phase' \in [Requests -> Phases]
    BY <1>2 DEF ReadCounter
  <2> QED
    BY <1>2, <2>1, <2>2 DEF ReadCounter
<1>3. ASSUME NEW r \in Requests, TallySuccess(r) \/ TallyError(r) PROVE Typed'
  BY <1>3 DEF TallySuccess, TallyError
<1>4. CASE Signal \/ ShutdownStep
  BY <1>4 DEF Signal, ShutdownStep, Drained, DrainTimeout, Exit
<1>5. CASE UNCHANGED vars
  BY <1>5 DEF vars
<1> QED
  BY <1>1, <1>2, <1>3, <1>4, <1>5 DEF Next, RequestStep, ReadCounters
-----------------------------------------------------------------------------
(* The sum of CountersAddUp, and what bounds it: a request that was not counted *)
(* yet can be counted once.                                                  *)
Balance == requestCount = successCount + errorCount
                          + Cardinality(In(Counted)) + Cardinality(In({"panicked"}))

Room == requestCount + Cardinality(In(Before)) =< Cardinality(Requests)

CountInv == Balance /\ Room

(* How the number of requests in some phases changes when one request moves. *)
LEMMA MoveCounts ==
  ASSUME Typed, NEW r \in Requests, NEW to \in Phases, NEW phases,
         phase' = [phase EXCEPT ![r] = to]
  PROVE  /\ Cardinality(In(phases)) \in Nat
         /\ Cardinality(In(phases)') =
              Cardinality(In(phases))
                + (IF to \in phases THEN 1 ELSE 0) - (IF phase[r] \in phases THEN 1 ELSE 0)
<1>1. IsFiniteSet(In(phases)) /\ IsFiniteSet(In(phases)')
  BY ServerAssumption, FS_Subset DEF In
<1>2. Cardinality(In(phases)) \in Nat /\ Cardinality(In(phases)') \in Nat
  BY <1>1, FS_CardinalityType
<1>3. CASE phase[r] \in phases /\ to \in phases
  <2>1. In(phases)' = In(phases)
    BY <1>3 DEF In, Typed
  <2> QED
    BY <1>2, <1>3, <2>1
<1>4. CASE phase[r] \notin phases /\ to \in phases
  <2>1. In(phases)' = In(phases) \cup {r} /\ r \notin In(phases)
    BY <1>4 DEF In, Typed
  <2> QED
    BY <1>1, <1>2, <1>4, <2>1, FS_AddElement
<1>5. CASE phase[r] \in phases /\ to \notin phases
  <2>1. In(phases)' = In(phases) \ {r} /\ r \in In(phases)
    BY <1>5 DEF In, Typed
  <2> QED
    BY <1>1, <1>2, <1>5, <2>1, FS_RemoveElement
<1>6. CASE phase[r] \notin phases /\ to \notin phases
  <2>1. In(phases)' = In(phases)
    BY <1>6 DEF In, Typed
  <2> QED
    BY <1>2, <1>6, <2>1
<1> QED
  BY <1>3, <1>4, <1>5, <1>6

LEMMA InitCounts == Init => CountInv
<1> SUFFICES ASSUME Init PROVE CountInv
  OBVIOUS
<1>1. In(Counted) = {} /\ In({"panicked"}) = {} /\ In(Before) = Requests
  BY DEF Init, In, Counted, Before
<1>2. Cardinality(Requests) \in Nat /\ Cardinality({}) = 0
  BY ServerAssumption, FS_CardinalityType, FS_EmptySet
<1>3. requestCount = 0 /\ successCount = 0 /\ errorCount = 0
  BY DEF Init
<1>4. Balance
  BY <1>1, <1>2, <1>3 DEF Balance
<1>5. Room
  BY <1>1, <1>2, <1>3 DEF Room
<1> QED
  BY <1>4, <1>5 DEF CountInv

(* Every step keeps the sum and its bound: one lemma for every move of a       *)
(* request, and how the counters change with it.                             *)
LEMMA StepCounts == Typed /\ CountInv /\ [Next]_vars => CountInv'
<1> SUFFICES ASSUME Typed, CountInv, [Next]_vars PROVE CountInv'
  OBVIOUS
<1> USE DEF CountInv, Balance, Room
<1>0. Cardinality(Requests) \in Nat
  BY ServerAssumption, FS_CardinalityType
<1>1. ASSUME NEW r \in Requests, NEW from \in Phases, NEW to \in Phases,
             phase[r] = from, phase' = [phase EXCEPT ![r] = to],
             \/ /\ from \in Before /\ to \in Before \cup {"over"}
                /\ UNCHANGED counters
             \/ /\ from \in Before /\ to \in Counted
                /\ requestCount' = requestCount + 1
                /\ UNCHANGED <<successCount, errorCount>>
             \/ /\ from \in Counted /\ to \in Counted \cup {"panicked"}
                /\ UNCHANGED counters
             \/ /\ from \in Counted /\ to = "over"
                /\ successCount' = successCount + 1
                /\ UNCHANGED <<requestCount, errorCount>>
             \/ /\ from \in Counted /\ to = "over"
                /\ errorCount' = errorCount + 1
                /\ UNCHANGED <<requestCount, successCount>>
      PROVE  CountInv'
  <2> DEFINE Delta(phases) == (IF to \in phases THEN 1 ELSE 0)
                                - (IF from \in phases THEN 1 ELSE 0)
  <2>1. /\ Cardinality(In(Counted)) \in Nat
        /\ Cardinality(In(Counted)') = Cardinality(In(Counted)) + Delta(Counted)
    BY <1>1, MoveCounts
  <2>2. /\ Cardinality(In({"panicked"})) \in Nat
        /\ Cardinality(In({"panicked"})') = Cardinality(In({"panicked"})) + Delta({"panicked"})
    BY <1>1, MoveCounts
  <2>3. /\ Cardinality(In(Before)) \in Nat
        /\ Cardinality(In(Before)') = Cardinality(In(Before)) + Delta(Before)
    BY <1>1, MoveCounts
  <2> QED
    BY <1>0, <1>1, <2>1, <2>2, <2>3 DEF Typed, Counted, Before, counters
<1>2. ASSUME UNCHANGED <<phase, counters>> PROVE CountInv'
  BY <1>2 DEF In, counters
<1>3. ASSUME NEW r \in Requests, Arrive(r) PROVE CountInv'
  BY <1>1, <1>3 DEF Arrive, Move, Before, Phases
<1>4. ASSUME NEW r \in Requests, Unauthorize(r) PROVE CountInv'
  BY <1>1, <1>4 DEF Unauthorize, Move, Before, Phases
<1>5. ASSUME NEW r \in Requests, Count(r) PROVE CountInv'
  <2>1. CASE r \in Scrapers
    BY <1>1, <1>5, <2>1 DEF Count, Move, Before, Counted, Phases
  <2>2. CASE r \notin Scrapers
    BY <1>1, <1>5, <2>2 DEF Count, Move, Before, Counted, Phases
  <2> QED
    BY <2>1, <2>2
<1>6. ASSUME NEW r \in Requests, Handle(r) PROVE CountInv'
  <2>1. CASE Move(r, "handle", "succeeded")
    BY <1>1, <1>6, <2>1 DEF Handle, Move, Counted, Phases
  <2>2. CASE Move(r, "handle", "failed")
    BY <1>1, <1>6, <2>2 DEF Handle, Move, Counted, Phases
  <2> QED
    BY <1>6, <2>1, <2>2 DEF Handle
<1>7. ASSUME NEW r \in Requests, Panic(r) PROVE CountInv'
  BY <1>1, <1>7 DEF Panic, Move, Counted, Phases
<1>8. ASSUME NEW r \in Requests, ReadCounters(r) PROVE CountInv'
  <2>1. PICK counter, value : ReadCounter(r, counter, value)
    BY <1>8 DEF ReadCounters
  <2>2. CASE Unread \in Range(seen'[r])
    <3>1. UNCHANGED <<phase, counters>>
      BY <2>1, <2>2 DEF ReadCounter, Typed
    <3> QED
      BY <1>2, <3>1
  <2>3. CASE Unread \notin Range(seen'[r])
    BY <1>1, <2>1, <2>3 DEF ReadCounter, Counted, Phases
  <2> QED
    BY <2>2, <2>3
<1>9. ASSUME NEW r \in Requests, TallySuccess(r) PROVE CountInv'
  BY <1>1, <1>9 DEF TallySuccess, Move, Counted, Phases
<1>10. ASSUME NEW r \in Requests, TallyError(r) PROVE CountInv'
  BY <1>1, <1>10 DEF TallyError, Move, Counted, Phases
<1>11. CASE Signal \/ ShutdownStep \/ UNCHANGED vars
  BY <1>2, <1>11 DEF Signal, ShutdownStep, Drained, DrainTimeout, Exit, vars, counters
<1> QED
  BY <1>3, <1>4, <1>5, <1>6, <1>7, <1>8, <1>9, <1>10, <1>11 DEF Next, RequestStep

(* Every request that was counted on its way in is on its way, was counted once  *)
(* more on its way out, or panicked, however many there are (main.go:100-114).  *)
THEOREM Accounting == Spec => []CountersAddUp
<1>1. Typed /\ CountInv => CountersAddUp
  <2>1. InFlight \subseteq In(Counted) /\ In(Counted) \subseteq InFlight
    BY DEF InFlight, In, Counted, Typed, Phases
  <2>2. Panicked = In({"panicked"})
    BY DEF Panicked, In
  <2> QED
    BY <2>1, <2>2 DEF CountInv, Balance, CountersAddUp
<1> QED
  BY <1>1, InitTyped, StepTyped, InitCounts, StepCounts, PTL DEF Spec
-----------------------------------------------------------------------------
(* A scraper goes from the middleware straight to reading; what it has read is   *)
(* not ahead of the counters, and once it has read all, what it saw finished     *)
(* leaves room for itself.                                                   *)
ReadBefore(r) ==
  /\ -1 =< seen[r].request /\ seen[r].request =< requestCount
  /\ -1 =< seen[r].success /\ seen[r].success =< successCount
  /\ -1 =< seen[r].error   /\ seen[r].error =< errorCount

SeenInv ==
  /\ \A r \in Requests : ReadBefore(r)
  /\ \A r \in Scrapers :
       /\ phase[r] \notin {"handle", "failed"}
       /\ phase[r] = "succeeded" => seen[r].success + seen[r].error < requestCount

LEMMA InitSeen == Init => SeenInv
<1> SUFFICES ASSUME Init, NEW r \in Requests
             PROVE  ReadBefore(r) /\ phase[r] = "away"
  BY ServerAssumption DEF SeenInv
<1>1. seen[r] = [request |-> Unread, success |-> Unread, error |-> Unread]
  BY DEF Init
<1> QED
  BY <1>1 DEF Init, ReadBefore, Unread

(* A step that leaves what was read alone, and the counters no smaller.         *)
LEMMA OthersSeen ==
  ASSUME Typed, Typed', SeenInv, seen' = seen,
         requestCount =< requestCount', successCount =< successCount',
         errorCount =< errorCount',
         \A r \in Scrapers :
           phase'[r] \in {"handle", "failed", "succeeded"} => phase'[r] = phase[r]
  PROVE  SeenInv'
<1>1. ASSUME NEW r \in Requests PROVE ReadBefore(r)'
  BY <1>1 DEF SeenInv, ReadBefore, Typed
<1>2. ASSUME NEW r \in Scrapers
      PROVE  /\ phase'[r] \notin {"handle", "failed"}
             /\ phase'[r] = "succeeded" => seen[r].success + seen[r].error < requestCount'
  <2>1. seen[r].success \in Int /\ seen[r].error \in Int
    BY ServerAssumption DEF Typed
  <2> QED
    BY <2>1 DEF SeenInv, Typed
<1> QED
  BY <1>1, <1>2 DEF SeenInv

(* One counter is read: it is the last one unread, or the scraper stays.        *)
LEMMA ReadSeen ==
  ASSUME Typed, CountInv, SeenInv, NEW r \in Requests, ReadCounters(r)
  PROVE  SeenInv'
<1>1. /\ UNCHANGED counters /\ phase[r] = "scrape"
      /\ phase' = [phase EXCEPT ![r] = IF Unread \in Range(seen'[r]) THEN @ ELSE "succeeded"]
  BY DEF ReadCounters, ReadCounter
<1>2. \/ seen' = [seen EXCEPT ![r].request = requestCount]
      \/ seen' = [seen EXCEPT ![r].success = successCount]
      \/ seen' = [seen EXCEPT ![r].error = errorCount]
  BY DEF ReadCounters, ReadCounter
<1>3. \A q \in Requests : ReadBefore(q)'
  BY <1>1, <1>2 DEF SeenInv, ReadBefore, Typed, counters
<1>4. successCount + errorCount < requestCount
  <2>1. \A phases : IsFiniteSet(In(phases)) /\ Cardinality(In(phases)) \in Nat
    BY ServerAssumption, FS_Subset, FS_CardinalityType DEF In
  <2>2. r \in In(Counted)
    BY <1>1 DEF In, Counted
  <2>3. Cardinality(In(Counted)) # 0
    BY <2>1, <2>2, FS_EmptySet
  <2> QED
    BY <2>1, <2>3 DEF CountInv, Balance, Typed
<1>5. ASSUME NEW q \in Scrapers
      PROVE  /\ phase'[q] \notin {"handle", "failed"}
             /\ phase'[q] = "succeeded" => seen'[q].success + seen'[q].error < requestCount'
  <2>1. CASE q = r
    <3>1. /\ seen'[r].success =< successCount /\ seen'[r].error =< errorCount
          /\ seen'[r].success \in Int /\ seen'[r].error \in Int
      BY <1>1, <1>2, <1>3 DEF ReadBefore, counters, Typed
    <3>2. phase'[r] \in {"scrape", "succeeded"}
      BY <1>1 DEF Typed
    <3> QED
      BY <1>1, <1>4, <2>1, <3>1, <3>2 DEF counters, Typed
  <2>2. CASE q # r
    <3>1. phase'[q] = phase[q] /\ seen'[q] = seen[q]
      BY <1>1, <1>2, <2>2, ServerAssumption DEF Typed
    <3> QED
      BY <1>1, <3>1 DEF SeenInv, counters
  <2> QED
    BY <2>1, <2>2
<1> QED
  BY <1>3, <1>5 DEF SeenInv

LEMMA StepSeen == Typed /\ CountInv /\ SeenInv /\ [Next]_vars => SeenInv'
<1> SUFFICES ASSUME Typed, CountInv, SeenInv, [Next]_vars PROVE SeenInv'
  OBVIOUS
<1>0. Typed'
  BY StepTyped
<1>1. ASSUME NEW r \in Requests,
             \/ Arrive(r) \/ Unauthorize(r) \/ Count(r) \/ Handle(r) \/ Panic(r)
             \/ TallySuccess(r) \/ TallyError(r)
      PROVE  SeenInv'
  <2>1. /\ seen' = seen
        /\ requestCount =< requestCount' /\ successCount =< successCount'
        /\ errorCount =< errorCount'
    BY <1>1 DEF Arrive, Unauthorize, Count, Handle, Panic, TallySuccess, TallyError,
                counters, Typed
  <2>2. ASSUME NEW q \in Scrapers, phase'[q] \in {"handle", "failed", "succeeded"}
        PROVE  phase'[q] = phase[q]
    BY <1>1, <2>2, ServerAssumption
       DEF Arrive, Unauthorize, Count, Handle, Panic, TallySuccess, TallyError, Move,
           Typed, SeenInv
  <2> QED
    BY <1>0, <2>1, <2>2, OthersSeen
<1>2. ASSUME NEW r \in Requests, ReadCounters(r) PROVE SeenInv'
  BY <1>2, ReadSeen
<1>3. CASE Signal \/ ShutdownStep \/ UNCHANGED vars
  <2>1. UNCHANGED <<phase, seen, requestCount, successCount, errorCount>>
    BY <1>3 DEF Signal, ShutdownStep, Drained, DrainTimeout, Exit, vars, counters
  <2> QED
    BY <1>0, <2>1, OthersSeen DEF Typed
<1> QED
  BY <1>1, <1>2, <1>3 DEF Next, RequestStep

(* Every state is well typed, and no counter ever exceeds the number of        *)
(* requests counted (main.go:59-62, 100-114).                                *)
THEOREM Typing == Spec => []TypeOK
<1>1. Typed /\ CountInv /\ SeenInv => TypeOK
  <2> SUFFICES ASSUME Typed, CountInv, SeenInv PROVE TypeOK
    OBVIOUS
  <2>1. \A phases : Cardinality(In(phases)) \in Nat
    BY ServerAssumption, FS_Subset, FS_CardinalityType DEF In
  <2>2. Cardinality(Requests) \in Nat
    BY ServerAssumption, FS_CardinalityType
  <2>3. /\ requestCount \in 0..Cardinality(Requests)
        /\ successCount \in 0..requestCount /\ errorCount \in 0..requestCount
    BY <2>1, <2>2 DEF CountInv, Balance, Room, Typed
  <2>4. seen \in [Requests -> [request : -1..requestCount, success : -1..requestCount,
                               error : -1..requestCount]]
    <3>1. ASSUME NEW r \in Requests
          PROVE  seen[r] \in [request : -1..requestCount, success : -1..requestCount,
                              error : -1..requestCount]
      <4>1. /\ seen[r] = [request |-> seen[r].request, success |-> seen[r].success,
                          error |-> seen[r].error]
            /\ seen[r].request \in Int /\ seen[r].success \in Int /\ seen[r].error \in Int
        BY DEF Typed
      <4>2. /\ seen[r].request \in -1..requestCount
            /\ seen[r].success \in -1..requestCount
            /\ seen[r].error \in -1..requestCount
        BY <4>1, <2>3 DEF SeenInv, ReadBefore, Typed
      <4> QED
        BY <4>1, <4>2
    <3> QED
      BY <3>1 DEF Typed
  <2> QED
    BY <2>3, <2>4 DEF Typed, TypeOK
<1> QED
  BY <1>1, InitTyped, StepTyped, InitCounts, StepCounts, InitSeen, StepSeen, PTL DEF Spec

(* A scrape never reports more requests as finished than were counted besides    *)
(* the scrape itself, in whatever order it reads the counters while requests     *)
(* come and go (main.go:255-258).                                            *)
THEOREM NoGhosts == Spec => []ScrapeShowsNoGhosts
<1>1. SeenInv => ScrapeShowsNoGhosts
  BY ServerAssumption DEF SeenInv, ScrapeShowsNoGhosts
<1> QED
  BY <1>1, InitTyped, StepTyped, InitCounts, StepCounts, InitSeen, StepSeen, PTL DEF Spec
-----------------------------------------------------------------------------
(* Without Shutdown's deadline, main goes on only once no request is active,     *)
(* and after that none becomes active again (main.go:147-159).                 *)
THEOREM Graceful == Spec => []ExitIsGraceful
<1>1. Init => ExitIsGraceful
  BY DEF Init, ExitIsGraceful
<1>2. Typed /\ ExitIsGraceful /\ [Next]_vars => ExitIsGraceful'
  <2> SUFFICES ASSUME Typed, ExitIsGraceful, [Next]_vars PROVE ExitIsGraceful'
    OBVIOUS
  <2> USE DEF ExitIsGraceful, Active
  <2>1. ASSUME NEW r \in Requests, Arrive(r) PROVE ExitIsGraceful'
    BY <2>1 DEF Arrive
  <2>2. ASSUME NEW r \in Requests, phase[r] \in Phases \ {"away", "over", "panicked"},
               UNCHANGED <<server, overdue>>,
               \A q \in Requests : q # r => phase'[q] = phase[q]
        PROVE  ExitIsGraceful'
    BY <2>2
  <2>3. ASSUME NEW r \in Requests,
               \/ Unauthorize(r) \/ Count(r) \/ Handle(r) \/ Panic(r)
               \/ TallySuccess(r) \/ TallyError(r)
        PROVE  ExitIsGraceful'
    BY <2>2, <2>3 DEF Unauthorize, Count, Handle, Panic, TallySuccess, TallyError, Move,
                      Typed, Phases
  <2>4. ASSUME NEW r \in Requests, ReadCounters(r) PROVE ExitIsGraceful'
    BY <2>2, <2>4 DEF ReadCounters, ReadCounter, Typed, Phases
  <2>5. CASE Signal \/ ShutdownStep \/ UNCHANGED vars
    BY <2>5 DEF Signal, ShutdownStep, Drained, DrainTimeout, Exit, vars
  <2> QED
    BY <2>1, <2>3, <2>4, <2>5 DEF Next, RequestStep
<1> QED
  BY <1>1, <1>2, InitTyped, StepTyped, PTL DEF Spec
=============================================================================
