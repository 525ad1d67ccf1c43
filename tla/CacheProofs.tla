---------------------------- MODULE CacheProofs ----------------------------
(***************************************************************************)
(* For any keys, writers, callers of Stop, TTL and times: the cache is type  *)
(* correct, it serves nothing past its lifetime, and its cleaner removes only *)
(* what has expired.                                                         *)
(***************************************************************************)
EXTENDS Cache, FiniteSetTheorems, TLAPS

(* Every state of the cache is well typed; in particular no sweep works with a *)
(* time ahead of the clock (cache.go:183).                                   *)
THEOREM Typing == Spec => []TypeOK
<1> USE CacheAssumption DEF Times
<1>1. Init => TypeOK
  <2> SUFFICES ASSUME Init PROVE TypeOK
    OBVIOUS
  <2>1. Present(items) = {}
    BY DEF Init, Present
  <2>2. Cardinality({}) = 0
    BY FS_EmptySet
  <2> QED
    BY <2>1, <2>2 DEF Init, TypeOK, Waiting
<1>2. TypeOK /\ [Next]_vars => TypeOK'
  <2> SUFFICES ASSUME TypeOK, [Next]_vars PROVE TypeOK'
    OBVIOUS
  <2> USE DEF TypeOK, counts
  <2>0. UNCHANGED <<items, size>> => size' = Cardinality(Present(items))'
    BY DEF Present
  <2>1. ASSUME NEW w \in Writers, NEW k \in Keys, BeginSet(w, k) PROVE TypeOK'
    <3>1. Expiration \in 0..(MaxTime + TTL)
      BY DEF Expiration
    <3>2. [key |-> k, expiration |-> Expiration, begun |-> clock]
            \in [key : Keys, expiration : 0..(MaxTime + TTL), begun : Times]
      BY <3>1
    <3> QED
      BY <2>1, <3>2 DEF BeginSet
  <2>2. ASSUME NEW w \in Writers, StoreSet(w) PROVE TypeOK'
    <3>1. /\ writer[w].key \in Keys
          /\ [expiration |-> writer[w].expiration, begun |-> writer[w].begun] \in Item
      BY <2>2 DEF StoreSet, Item
    <3> QED
      BY <2>2, <3>1 DEF StoreSet, Replace
  <2>3. ASSUME NEW k \in Keys, Get(k) PROVE TypeOK'
    BY <2>3 DEF Get, Item
  <2>4. ASSUME NEW k \in Keys, Delete(k) PROVE TypeOK'
    BY <2>4 DEF Delete, Replace
  <2>5. CASE Clear
    BY <2>5 DEF Clear, Replace
  <2>6. CASE BeginSweep
    BY <2>6 DEF BeginSweep
  <2>7. CASE Sweep
    BY <2>7 DEF Sweep, Replace, Waiting
  <2>8. CASE Tick
    BY <2>8 DEF Tick
  <2>9. ASSUME NEW s \in Stoppers, BeginStop(s) PROVE TypeOK'
    BY <2>9 DEF BeginStop
  <2>10. ASSUME NEW s \in Stoppers, MeetStop(s) PROVE TypeOK'
    BY <2>10 DEF MeetStop, Stopped
  <2>11. CASE UNCHANGED vars
    BY <2>11 DEF vars
  <2> QED
    BY <2>1, <2>2, <2>3, <2>4, <2>5, <2>6, <2>7, <2>8, <2>9, <2>10, <2>11 DEF Next
<1> QED
  BY <1>1, <1>2, PTL DEF Spec
-----------------------------------------------------------------------------
(* An entry, stored or waiting for the lock, carries the lifetime that began   *)
(* with its Set.                                                             *)
Dated(e) == e # None => e.expiration = e.begun + TTL

Lifetimes ==
  /\ \A k \in Keys : Dated(items[k])
  /\ \A w \in Writers : Dated(writer[w])

LifetimeInv == (TTL > 0 => Lifetimes) /\ ServedWithinTTL

(* Nothing is served more than the TTL after the call of Set that stored it    *)
(* began, whatever happens between its clock reading and its store            *)
(* (cache.go:135-150, 164).                                                  *)
THEOREM Lifetime == Spec => []ServedWithinTTL
<1> USE CacheAssumption DEF Times
<1>1. Init => LifetimeInv
  BY DEF Init, LifetimeInv, Lifetimes, Dated, ServedWithinTTL
<1>2. TypeOK /\ LifetimeInv /\ [Next]_vars => LifetimeInv'
  <2> SUFFICES ASSUME TypeOK, LifetimeInv, [Next]_vars, TTL > 0
               PROVE  Lifetimes' /\ ServedWithinTTL'
    BY DEF LifetimeInv, ServedWithinTTL
  <2> USE DEF LifetimeInv, counts
  <2>1. ASSUME NEW w \in Writers, NEW k \in Keys, BeginSet(w, k)
        PROVE  Lifetimes' /\ ServedWithinTTL'
    BY <2>1 DEF BeginSet, Expiration, Lifetimes, Dated, ServedWithinTTL, TypeOK
  <2>2. ASSUME NEW w \in Writers, StoreSet(w) PROVE Lifetimes' /\ ServedWithinTTL'
    BY <2>2 DEF StoreSet, Replace, Lifetimes, Dated, ServedWithinTTL, TypeOK
  <2>3. ASSUME NEW k \in Keys, Get(k) PROVE Lifetimes' /\ ServedWithinTTL'
    BY <2>3 DEF Get, IsExpired, Lifetimes, Dated, ServedWithinTTL, TypeOK, Item
  <2>4. ASSUME \A k \in Keys : items'[k] \in {items[k], None}, UNCHANGED <<writer, lastRead>>
        PROVE  Lifetimes' /\ ServedWithinTTL'
    BY <2>4 DEF Lifetimes, Dated, ServedWithinTTL
  <2>5. ASSUME NEW k \in Keys, Delete(k) PROVE Lifetimes' /\ ServedWithinTTL'
    BY <2>4, <2>5 DEF Delete, Replace, TypeOK
  <2>6. CASE Clear
    BY <2>4, <2>6 DEF Clear, Replace
  <2>7. CASE Sweep
    BY <2>4, <2>7 DEF Sweep, Replace
  <2>8. CASE UNCHANGED <<items, writer, lastRead>>
    BY <2>4, <2>8
  <2> QED
    BY <2>1, <2>2, <2>3, <2>5, <2>6, <2>7, <2>8
       DEF Next, BeginSweep, Tick, BeginStop, MeetStop, vars
<1>3. LifetimeInv => ServedWithinTTL
  BY DEF LifetimeInv
<1> QED
  BY <1>1, <1>2, <1>3, Typing, PTL DEF Spec
-----------------------------------------------------------------------------
(* The cleaner removes nothing that Get would still serve, although the time   *)
(* it goes by is older than the lock it waited for (cache.go:183-193).        *)
THEOREM Sparing == Spec => SweepSparesTheLiving
<1>1. ASSUME TypeOK, [Next]_vars, cleaner.at = "sweep", cleaner' # cleaner,
             NEW k \in Keys, items[k] # None, items'[k] = None
      PROVE  IsExpired(items[k], clock)
  <2>1. Sweep
    BY <1>1 DEF Next, BeginSet, StoreSet, Get, Delete, Clear, BeginSweep, BeginStop,
                MeetStop, Tick, vars, Waiting
  <2>2. k \in Swept
    BY <1>1, <2>1 DEF Sweep, Replace
  <2>3. items[k] \in Item /\ cleaner.now =< clock /\ cleaner.now \in Int /\ clock \in Int
    BY <1>1, CacheAssumption DEF TypeOK, Times
  <2> QED
    BY <2>2, <2>3, CacheAssumption DEF Swept, IsExpired, Item
<1>2. TypeOK /\ [Next]_vars =>
        [cleaner.at = "sweep" /\ cleaner' # cleaner =>
           \A k \in Keys : items[k] # None /\ items'[k] = None => IsExpired(items[k], clock)
        ]_vars
  BY <1>1
<1> QED
  BY <1>2, Typing, PTL DEF Spec, SweepSparesTheLiving
=============================================================================
