------------------------------- MODULE Cache -------------------------------
(***************************************************************************)
(* The in-memory cache of pkg/cache/cache.go: goroutines that set, get,      *)
(* delete and clear entries, and the cleaner goroutine that removes expired  *)
(* ones.  Set and DeleteExpired read the clock before they take c.mu, so     *)
(* each is two steps here, and anything may happen while they wait for the   *)
(* lock.  What runs under c.mu is one step.                                  *)
(***************************************************************************)
EXTENDS Integers, FiniteSets

CONSTANTS Keys, Writers,
          Stoppers,  \* goroutines that call Stop
          TTL,       \* defaultExpiration; not positive: entries never expire
          MaxTime,   \* bound on the clock
          MaxReads,  \* bound on the calls of Get
          None       \* no entry, no call in progress

ASSUME CacheAssumption ==
  /\ TTL \in Nat
  /\ MaxTime \in Nat
  /\ MaxReads \in Nat

VARIABLES
  clock,
  items,     \* c.items
  size,      \* c.metrics.Size
  hits, misses,
  writer,    \* per writer, the Set that waits for the lock
  cleaner,   \* the cleaner goroutine: waiting, sweeping with a time, or stopped
  stopper,   \* the goroutines that call Stop
  lastRead   \* history: the entry the last successful Get returned, and when

counts == <<hits, misses, lastRead>>
vars == <<clock, items, size, hits, misses, writer, cleaner, stopper, lastRead>>

Times == 0..MaxTime
Waiting == [at |-> "wait", now |-> 0]
Stopped == [at |-> "stopped", now |-> 0]

Present(table) == {k \in Keys : table[k] # None}

(* Fault: the lifetime is taken from the time instead of added to it. *)
ExpirationInThePast == IF TTL > 0 THEN clock - TTL ELSE 0

(* The expiration Set gives an entry (UnixNano, 0 for none). *)
Expiration == IF TTL > 0 THEN clock + TTL ELSE 0

(* Fault: an entry expires only when the clock is two past its expiration.   *)
IsExpiredLate(item, now) == item.expiration # 0 /\ now > item.expiration + 1

IsExpired(item, now) == item.expiration # 0 /\ now > item.expiration

(* The table is replaced, and the size metric with it, before c.mu is released. *)
Replace(table) == items' = table /\ size' = Cardinality(Present(table))

Init ==
  /\ clock = 0
  /\ items = [k \in Keys |-> None]
  /\ size = 0 /\ hits = 0 /\ misses = 0
  /\ writer = [w \in Writers |-> None]
  /\ cleaner = Waiting
  /\ stopper = [s \in Stoppers |-> "idle"]
  /\ lastRead = None
-----------------------------------------------------------------------------
(* Set computes the expiration, then waits for the lock. *)
BeginSet(w, k) ==
  /\ writer[w] = None
  /\ writer' = [writer EXCEPT ![w] =
                  [key |-> k, expiration |-> Expiration, begun |-> clock]]
  /\ UNCHANGED <<clock, items, size, counts, cleaner, stopper>>

StoreSet(w) ==
  /\ writer[w] # None
  /\ Replace([items EXCEPT ![writer[w].key] =
                [expiration |-> writer[w].expiration, begun |-> writer[w].begun]])
  /\ writer' = [writer EXCEPT ![w] = None]
  /\ UNCHANGED <<clock, counts, cleaner, stopper>>

Get(k) ==
  /\ hits + misses < MaxReads
  /\ IF items[k] # None /\ ~IsExpired(items[k], clock)
       THEN /\ hits' = hits + 1 /\ UNCHANGED misses
            /\ lastRead' = [begun |-> items[k].begun, at |-> clock]
       ELSE misses' = misses + 1 /\ UNCHANGED <<hits, lastRead>>
  /\ UNCHANGED <<clock, items, size, writer, cleaner, stopper>>

Delete(k) ==
  /\ items[k] # None
  /\ Replace([items EXCEPT ![k] = None])
  /\ UNCHANGED <<clock, counts, writer, cleaner, stopper>>

Clear ==
  /\ Replace([k \in Keys |-> None])
  /\ UNCHANGED <<clock, counts, writer, cleaner, stopper>>
-----------------------------------------------------------------------------
(* The ticker of startCleanupTimer fires: DeleteExpired reads the clock. *)
BeginSweep ==
  /\ cleaner = Waiting
  /\ cleaner' = [at |-> "sweep", now |-> clock]
  /\ UNCHANGED <<clock, items, size, counts, writer, stopper>>

(* The entries DeleteExpired removes under the lock, by the time it read. *)
Swept == {k \in Present(items) : IsExpired(items[k], cleaner.now)}

(* Fault: an entry goes when its expiration is reached, not passed. *)
SweepEarly ==
  /\ cleaner.at = "sweep"
  /\ Replace([k \in Keys |-> IF items[k] # None /\ items[k].expiration # 0
                                /\ cleaner.now >= items[k].expiration
                             THEN None ELSE items[k]])
  /\ cleaner' = Waiting
  /\ UNCHANGED <<clock, counts, writer, stopper>>

Sweep ==
  /\ cleaner.at = "sweep"
  /\ Replace([k \in Keys |-> IF k \in Swept THEN None ELSE items[k]])
  /\ cleaner' = Waiting
  /\ UNCHANGED <<clock, counts, writer, stopper>>

(* Stop sends on an unbuffered channel: it waits for the cleaner's select. *)
BeginStop(s) ==
  /\ stopper[s] = "idle"
  /\ stopper' = [stopper EXCEPT ![s] = "sending"]
  /\ UNCHANGED <<clock, items, size, counts, writer, cleaner>>

MeetStop(s) ==
  /\ stopper[s] = "sending" /\ cleaner = Waiting
  /\ stopper' = [stopper EXCEPT ![s] = "returned"]
  /\ cleaner' = Stopped
  /\ UNCHANGED <<clock, items, size, counts, writer>>

Tick ==
  /\ clock < MaxTime /\ clock' = clock + 1
  /\ UNCHANGED <<items, size, counts, writer, cleaner, stopper>>

Next ==
  \/ \E w \in Writers : (\E k \in Keys : BeginSet(w, k)) \/ StoreSet(w)
  \/ \E k \in Keys : Get(k) \/ Delete(k)
  \/ Clear \/ BeginSweep \/ Sweep \/ Tick
  \/ \E s \in Stoppers : BeginStop(s) \/ MeetStop(s)

Spec == Init /\ [][Next]_vars
-----------------------------------------------------------------------------
Item == [expiration : 0..(MaxTime + TTL), begun : Times]

(* Every state is well typed; the size metric, which five operations keep up to *)
(* date, is the number of entries whenever c.mu is free (cache.go:149-205).    *)
TypeOK ==
  /\ clock \in Times
  /\ items \in [Keys -> Item \cup {None}]
  /\ size = Cardinality(Present(items))
  /\ hits \in Nat /\ misses \in Nat /\ hits + misses =< MaxReads
  /\ \A w \in Writers :
       writer[w] = None
         \/ writer[w] \in [key : Keys, expiration : 0..(MaxTime + TTL), begun : Times]
  /\ cleaner \in [at : {"wait", "sweep", "stopped"}, now : 0..clock]
  /\ stopper \in [Stoppers -> {"idle", "sending", "returned"}]
  /\ lastRead = None \/ lastRead \in [begun : Times, at : Times]

(* Get serves nothing older than the TTL counted from the call of Set, however *)
(* long Set waited for the lock and whether or not the cleaner came by        *)
(* (cache.go:135-137, 164).                                                  *)
ServedWithinTTL ==
  lastRead # None /\ TTL > 0 => lastRead.at =< lastRead.begun + TTL

(* The cleaner removes no entry that Get would still serve, although it        *)
(* decides by a time it read before it had the lock and entries may have been  *)
(* replaced since (cache.go:183-193).                                        *)
SweepSparesTheLiving ==
  [][cleaner.at = "sweep" /\ cleaner' # cleaner =>
       \A k \in Keys : items[k] # None /\ items'[k] = None => IsExpired(items[k], clock)
    ]_vars
=============================================================================
