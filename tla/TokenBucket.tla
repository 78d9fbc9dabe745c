----------------------------- MODULE TokenBucket -----------------------------
(***************************************************************************)
(* TokenBucket (ingest/core/ratelimit.py): the per-venue REST budget that  *)
(* bucket_for hands to every repair task of a venue.                       *)
(*                                                                         *)
(* Time is counted in ticks and tokens in units: Rate units arrive per     *)
(* tick and a request costs Cost units, so that fractions of a token and   *)
(* of a second are integers.  A task that finds too few tokens sleeps the  *)
(* ticks the deficit takes and tries again; other tasks run meanwhile.     *)
(***************************************************************************)
EXTENDS Integers

CONSTANTS
  Rate,      \* rate_per_sec
  Capacity,  \* capacity, the burst
  Cost,      \* units of one token
  Tasks,     \* repair tasks sharing the bucket
  MaxTime    \* bound: ticks

ASSUME ConstantsAssumption ==
  /\ Rate \in Nat \ {0} /\ Cost \in Nat \ {0} /\ Capacity \in Nat
  /\ Cost <= Capacity /\ MaxTime \in Nat

VARIABLES
  now,      \* the monotonic clock
  tokens,   \* _tokens, in units
  updated,  \* _updated
  wake,     \* per task: when its sleep ends, 0 when it is not in acquire
  \* history, read by the properties only
  start,    \* when the window being watched began
  count,    \* requests granted in that window
  alone     \* per task: nobody was granted since it went to sleep

vars == <<now, tokens, updated, wake, start, count, alone>>

TypeOK ==
  /\ now \in Nat /\ tokens \in Nat /\ updated \in Nat
  /\ wake \in [Tasks -> Nat]
  /\ start \in Nat /\ count \in Nat
  /\ alone \in [Tasks -> BOOLEAN]

Init ==
  /\ now = 0 /\ tokens = Capacity /\ updated = 0
  /\ wake = [t \in Tasks |-> 0]
  /\ start = 0 /\ count = 0 /\ alone = [t \in Tasks |-> FALSE]

Tick ==
  /\ now < MaxTime
  /\ now' = now + 1
  /\ UNCHANGED <<tokens, updated, wake, start, count, alone>>

\* Any moment may open the window the rate is measured over.
Watch ==
  /\ start' = now /\ count' = 0
  /\ UNCHANGED <<now, tokens, updated, wake, alone>>

Lesser(a, b) == IF a < b THEN a ELSE b

\* _refill without the cap on the burst.
Refilled_Uncapped == tokens + (now - updated) * Rate

\* _refill: what has accrued since the last call, never above the capacity.
Refilled == Lesser(Capacity, tokens + (now - updated) * Rate)

\* deficit / rate_per_sec, in whole ticks.
SleepTicks(deficit) == (deficit + Rate - 1) \div Rate

\* try_acquire succeeds: acquire returns.
Grant(t) ==
  /\ Refilled >= Cost
  /\ tokens' = Refilled - Cost /\ updated' = now
  /\ wake' = [wake EXCEPT ![t] = 0]
  /\ count' = count + 1
  /\ alone' = [u \in Tasks |-> FALSE]
  /\ UNCHANGED <<now, start>>

\* try_acquire fails: the task sleeps for the deficit.
Sleep(t) ==
  /\ Refilled < Cost
  /\ tokens' = Refilled /\ updated' = now
  /\ wake' = [wake EXCEPT ![t] = now + SleepTicks(Cost - Refilled)]
  /\ alone' = [alone EXCEPT ![t] = TRUE]
  /\ UNCHANGED <<now, start, count>>

\* acquire is called, or goes round its loop after the sleep.
Acquire(t) == wake[t] <= now /\ (Grant(t) \/ Sleep(t))

Next == Tick \/ Watch \/ \E t \in Tasks : Acquire(t)

Spec == Init /\ [][Next]_vars
-----------------------------------------------------------------------------
\* What a bucket promises a venue (ratelimit.py try_acquire): over any window of
\* time, however many repair tasks share the bucket, the requests granted cost
\* at most the burst capacity plus what the rate gives in that window.
RateRespected == Cost * count <= Capacity + Rate * (now - start)

\* acquire sleeps long enough: a task nobody was granted ahead of finds its
\* token when its sleep ends, so the loop turns once.
SleepSuffices ==
  \A t \in Tasks :
    wake[t] > 0 /\ alone[t] => tokens + (wake[t] - updated) * Rate >= Cost

\* The strengthening RateRespected is proved from: the tokens in the bucket are
\* part of the same budget, counted up to the last refill (try_acquire, _refill).
BudgetInv ==
  /\ updated <= now /\ start <= now
  /\ tokens <= Capacity
  /\ IF start <= updated
     THEN Cost * count + tokens <= Capacity + Rate * (updated - start)
     ELSE count = 0
=============================================================================
