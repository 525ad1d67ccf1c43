---------------------------- MODULE WindowLimit ----------------------------
(***************************************************************************)
(* What a rate limiter of rate Rate and burst Burst promises, without a     *)
(* bucket: in every window of time that begins with an admission, at most   *)
(* Burst requests plus what the rate allows for the window's length are     *)
(* admitted, and a request is refused only when admitting it would break    *)
(* that promise.  TokenBucket implements this specification.                *)
(***************************************************************************)
EXTENDS Integers, Sequences

CONSTANTS Unit, Rate, Burst

VARIABLES clock,    \* the time
          grants,   \* the times of the metered admissions, oldest first
          refusals  \* how often a request was turned away

vars == <<clock, grants, refusals>>

Capacity == Unit * Burst

(* A request may be admitted now: alone it fits in the burst, and with the   *)
(* admissions since each earlier one it stays within burst and rate.        *)
Fits ==
  /\ Unit =< Capacity
  /\ \A i \in 1..Len(grants) :
       Unit * (Len(grants) - i + 2) =< Capacity + Rate * (clock - grants[i])

Init == clock = 0 /\ grants = <<>> /\ refusals = 0

Admit == Fits /\ grants' = Append(grants, clock) /\ UNCHANGED <<clock, refusals>>

Refuse == ~Fits /\ refusals' = refusals + 1 /\ UNCHANGED <<clock, grants>>

Pass == clock' = clock + 1 /\ UNCHANGED <<grants, refusals>>

Next == Admit \/ Refuse \/ Pass

Spec == Init /\ [][Next]_vars
=============================================================================
