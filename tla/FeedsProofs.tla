----------------------------- MODULE FeedsProofs -----------------------------
(***************************************************************************)
(* What reaches the tables beside the live stream: the rows of the         *)
(* perpetual context are as fresh as their stamps say and its earliest     *)
(* poll is kept; the macro series answer point-in-time questions; what the *)
(* loader stages of an archive file is the whole of it.                    *)
(***************************************************************************)
EXTENDS PerpContext, MacroVintages, ArchiveLoad, FiniteSetTheorems, SequenceTheorems,
        WellFoundedInduction, TLAPS

-----------------------------------------------------------------------------
(***************************************************************************)
(* Floors: an instant rounded down to a grid.                              *)
(***************************************************************************)
GridStart(x, k) == x - (x % k)

\* What division by a positive number leaves.
LEMMA DivMod ==
  ASSUME NEW x \in Nat, NEW k \in Nat \ {0}
  PROVE  /\ x \div k \in Nat /\ x % k \in 0..(k - 1)
         /\ x = k * (x \div k) + (x % k)
OBVIOUS

\* The remainder is the only number below the divisor that is left over.
Splits(x, k, q, r) ==
  x \in Nat /\ k \in Nat \ {0} /\ q \in Int /\ r \in 0..(k - 1) /\ x = k * q + r

\* What splits a number that way is its remainder: the clock's grid is exact.
LEMMA RemainderIs == \A x, k, q, r : Splits(x, k, q, r) => x % k = r
<1> SUFFICES ASSUME NEW x \in Nat, NEW k \in Nat \ {0}, NEW q \in Int, NEW r \in 0..(k - 1),
                    x = k * q + r
             PROVE  x % k = r
  BY DEF Splits
<1> DEFINE p == x \div k
           s == x % k
<1>1. p \in Nat /\ s \in 0..(k - 1) /\ x = k * p + s
  BY DivMod
<1> HIDE DEF p, s
<1>2. ASSUME NEW a \in Int, NEW b \in Int, a >= b + 1 PROVE k * a >= k * b + k
  <2>1. (a - b - 1) * k >= 0
    BY <1>2
  <2>2. (a - b - 1) * k = k * a - k * b - k
    OBVIOUS
  <2>3. k * a \in Int /\ k * b \in Int
    OBVIOUS
  <2>4. QED
    BY <2>1, <2>2, <2>3
<1>3. k * q \in Int /\ k * p \in Int
  BY <1>1
<1>4. CASE q >= p + 1
  <2>1. k * q >= k * p + k
    BY <1>1, <1>2, <1>4
  <2>2. QED
    BY <1>1, <1>3, <2>1
<1>5. CASE p >= q + 1
  <2>1. k * p >= k * q + k
    BY <1>1, <1>2, <1>5
  <2>2. QED
    BY <1>1, <1>3, <2>1
<1>6. s = r
  BY <1>1, <1>3, <1>4, <1>5
<1>7. QED
  BY <1>6 DEF s

\* A floor in milliseconds is the floor in microseconds.
LEMMA FloorScales ==
  ASSUME NEW x \in Nat, NEW k \in Nat \ {0}
  PROVE  /\ GridStart(x, k) \in 0..x /\ x - GridStart(x, k) < k
         /\ GridStart(x * MicrosPerMilli, k * MicrosPerMilli) = GridStart(x, k) * MicrosPerMilli
         /\ (GridStart(x, k) * MicrosPerMilli) % (k * MicrosPerMilli) = 0
<1> DEFINE c == k * MicrosPerMilli
           q == x \div k
           r == x % k
<1>0. c = k * 1000 /\ c \in Nat \ {0}
  BY DEF MicrosPerMilli
<1>1. q \in Nat /\ r \in 0..(k - 1) /\ x = k * q + r
  BY DivMod
<1>2. GridStart(x, k) = k * q /\ GridStart(x, k) = x - r /\ GridStart(x, k) \in 0..x /\ x - GridStart(x, k) < k
  <2> HIDE DEF q, r
  <2>1. GridStart(x, k) = x - r
    BY DEF GridStart, r
  <2>2. k * q \in Int
    BY <1>1
  <2>3. x - r \in Int /\ x - r = k * q
    BY <1>1, <2>2
  <2>4. k * q >= 0
    BY <1>1
  <2>5. QED
    BY <1>1, <2>1, <2>2, <2>3, <2>4
<1>3. x * 1000 = c * q + r * 1000 /\ r * 1000 \in 0..(c - 1)
  <2> HIDE DEF q, r
  <2>1. c * q = (k * q) * 1000
    BY <1>0, <1>1
  <2>2. k * q \in Int
    BY <1>1
  <2>3. QED
    BY <1>0, <1>1, <2>1, <2>2
<1>4. (x * 1000) % c = r * 1000
  <2> DEFINE y == x * 1000
             t == r * 1000
  <2>1. Splits(y, c, q, t)
    BY <1>0, <1>1, <1>3 DEF Splits
  <2> HIDE DEF y, t, c, q
  <2>2. y % c = t
    BY <2>1, RemainderIs
  <2>3. QED
    BY <2>2 DEF y, t
<1>5. ((k * q) * 1000) % c = 0
  <2> DEFINE y == (k * q) * 1000
  <2>1. Splits(y, c, q, 0)
    <3> HIDE DEF q, r
    <3>1. k * q \in Nat
      BY <1>1
    <3>2. c * q = (k * q) * 1000
      BY <1>0, <1>1
    <3>3. QED
      BY <1>0, <1>1, <3>1, <3>2 DEF Splits
  <2> HIDE DEF y, c, q
  <2>2. y % c = 0
    BY <2>1, RemainderIs
  <2>3. QED
    BY <2>2 DEF y
<1>6. GridStart(x * MicrosPerMilli, k * MicrosPerMilli) = GridStart(x, k) * MicrosPerMilli
  <2>1. GridStart(x * 1000, c) = x * 1000 - r * 1000
    BY <1>4 DEF GridStart
  <2>2. r \in Int
    BY <1>1
  <2> HIDE DEF r, c, q
  <2>3. x * 1000 - r * 1000 = (x - r) * 1000
    BY <2>2
  <2>4. QED
    BY <1>2, <2>1, <2>3 DEF MicrosPerMilli, c
<1>7. QED
  BY <1>2, <1>5, <1>6 DEF MicrosPerMilli

-----------------------------------------------------------------------------
(***************************************************************************)
(* The perpetual context.                                                  *)
(***************************************************************************)
\* An instant the venue may have answered with between two others.
Recent(x, ts, t) == ts <= x + LagMs /\ x <= t

\* What a collect has by the time t: every reading was taken since it began, and
\* it is younger than the Lambda's timeout.
HonestJob(p, t) ==
  /\ p.ts <= t /\ t <= p.ts + MaxPollMs
  /\ p.step # 0 => Recent(p.mark, p.ts, t)
  /\ \A i \in Instruments : p.oi[i] # None => Recent(p.oi[i], p.ts, t)
  /\ \A i \in Instruments, f \in Families :
       \E n \in p.ts .. t : p.ratio[i][f] \in RatioAnswers(n)

\* What a row promises, whichever table holds it.
HonestRow(r) ==
  /\ r \in PerpRow
  /\ r.snap <= r.poll /\ r.poll < r.snap + GridMs * MicrosPerMilli
  /\ ReadFor(r.mark, r, LagMs + 1)
  /\ r.oi # 0 => ReadFor(r.oi, r, LagMs + 1)
  /\ \A f \in Families :
       r.ratio[f] # None => /\ ReadFor(r.ratio[f], r, GridMs + LagMs)
                            /\ r.ratio[f] % (GridMs * MicrosPerMilli) = 0

\* One row of a poll for an instrument, and one of an instrument's grid point in
\* Silver.
OneRowPerPoll == \A q, r \in bronze : q.inst = r.inst /\ q.poll = r.poll => q = r
OneRowPerGrid == \A r, t \in silver : SameGrid(r, t) => r = t

PerpInv ==
  /\ PerpTypeOK
  /\ \A p \in running : HonestJob(p, now)
  /\ \A r \in bronze \cup silver : HonestRow(r)
  /\ {<<r.poll, r.inst>> : r \in bronze} = answered
  /\ OneRowPerPoll /\ OneRowPerGrid

\* The constants of PerpContext and the elements of Pairs, for the arithmetic leaves.
LEMMA PerpConstants ==
  /\ GridMs \in Nat \ {0} /\ MaxPollMs \in Nat \ {0} /\ DayMs \in Nat \ {0}
  /\ MaxMs \in Nat \ {0} /\ MaxPolls \in Nat \ {0} /\ Lookback \in Nat \ {0} /\ LagMs \in Nat
  /\ Len(Pairs) \in Nat /\ \A n \in 1..Len(Pairs) : Pairs[n] \in Instruments
<1>1. Pairs \in Seq(Range(Pairs))
  BY PerpAssumption
<1>2. Len(Pairs) \in Nat /\ \A n \in 1..Len(Pairs) : Pairs[n] \in Range(Pairs)
  BY <1>1
<1>3. QED
  BY <1>2, PerpAssumption DEF Instruments

\* What a ratio endpoint answers: nothing, or a point of the grid last.
LEMMA RatioTypes ==
  ASSUME NEW n \in Nat, n <= MaxMs, NEW a \in RatioAnswers(n)
  PROVE  /\ a \in Seq(0..MaxMs)
         /\ a # <<>> => Last(a) \in Newest(n)
<1>1. CASE a = <<>>
  BY <1>1
<1>2. ASSUME NEW g \in Newest(n), a = IF g >= GridMs THEN <<g - GridMs, g>> ELSE <<g>>
      PROVE  a \in Seq(0..MaxMs) /\ Last(a) \in Newest(n)
  <2>1. g \in 0..MaxMs /\ (g >= GridMs => g - GridMs \in 0..MaxMs)
    BY PerpConstants DEF Newest
  <2>2. CASE g >= GridMs
    BY <1>2, <2>1, <2>2 DEF Last
  <2>3. CASE ~(g >= GridMs)
    BY <1>2, <2>1, <2>3 DEF Last
  <2>4. QED
    BY <2>2, <2>3
<1>3. QED
  BY <1>1, <1>2 DEF RatioAnswers

\* A point of the grid in milliseconds is one in microseconds.
LEMMA GridScales ==
  ASSUME NEW g \in Nat, NEW k \in Nat \ {0}, g % k = 0
  PROVE  (g * MicrosPerMilli) % (k * MicrosPerMilli) = 0
<1>1. GridStart(g, k) = g
  BY DEF GridStart
<1>2. (GridStart(g, k) * MicrosPerMilli) % (k * MicrosPerMilli) = 0
  BY FloorScales
<1>3. QED
  BY <1>1, <1>2

\* What a row keeps of an endpoint's answer.
LEMMA LatestHonest ==
  ASSUME NEW ts \in Nat, NEW t \in Nat, ts <= t, t <= ts + MaxPollMs, t <= MaxMs,
         NEW n \in ts .. t, NEW a \in RatioAnswers(n)
  PROVE  /\ Latest(a) \in Micros \cup {None}
         /\ Latest(a) # None =>
              /\ ts * MicrosPerMilli < Latest(a) + (GridMs + LagMs) * MicrosPerMilli
              /\ Latest(a) <= ts * MicrosPerMilli + MaxPollMs * MicrosPerMilli
              /\ Latest(a) % (GridMs * MicrosPerMilli) = 0
<1>1. CASE a = <<>>
  BY <1>1 DEF Latest
<1>2. CASE a # <<>>
  <2>1. n \in Nat /\ n <= MaxMs /\ ts <= n /\ n <= ts + MaxPollMs
    BY PerpConstants
  <2> DEFINE g == Last(a)
  <2>2. g \in Newest(n)
    BY <1>2, <2>1, RatioTypes
  <2>3. Latest(a) = g * MicrosPerMilli
    BY <1>2 DEF Latest, FromPayload
  <2> HIDE DEF g
  <2>4. g \in Nat /\ g <= n /\ g % GridMs = 0 /\ n < g + GridMs + LagMs
    BY <2>1, <2>2 DEF Newest
  <2>5. (g * MicrosPerMilli) % (GridMs * MicrosPerMilli) = 0
    BY <2>4, PerpConstants, GridScales
  <2>6. /\ MaxMs \in Nat /\ MaxPollMs \in Nat /\ GridMs \in Nat /\ LagMs \in Nat
        /\ g <= MaxMs /\ g <= ts + MaxPollMs /\ ts < g + GridMs + LagMs
    BY <2>1, <2>4, PerpConstants
  <2>7. /\ g * MicrosPerMilli \in Micros
        /\ ts * MicrosPerMilli < g * MicrosPerMilli + (GridMs + LagMs) * MicrosPerMilli
        /\ g * MicrosPerMilli <= ts * MicrosPerMilli + MaxPollMs * MicrosPerMilli
    BY <2>4, <2>6 DEF MicrosPerMilli, Micros
  <2>8. QED
    BY <2>3, <2>5, <2>7
<1>3. QED
  BY <1>1, <1>2

\* Milliseconds that are recent enough are microseconds a row may carry.
LEMMA RecentReads ==
  ASSUME NEW ts \in Nat, NEW t \in Nat, t <= ts + MaxPollMs, t <= MaxMs,
         NEW x \in Nat, Recent(x, ts, t), NEW r, r.poll = ts * MicrosPerMilli
  PROVE  x * MicrosPerMilli \in Micros /\ ReadFor(x * MicrosPerMilli, r, LagMs + 1)
<1>1. MaxMs \in Nat /\ MaxPollMs \in Nat /\ LagMs \in Nat /\ x <= MaxMs /\ ts < x + LagMs + 1
      /\ x <= ts + MaxPollMs
  BY PerpConstants DEF Recent
<1>2. QED
  BY <1>1 DEF MicrosPerMilli, Micros, ReadFor

\* build_rows makes honest rows of an honest collect.
LEMMA RowHonest ==
  ASSUME PerpTypeOK, NEW p \in running, HonestJob(p, now), p.step # 0, NEW i \in p.named,
         NEW r, r = [inst |-> i, poll |-> MillisToMicros(p.ts),
                     snap |-> FloorToGrid(MillisToMicros(p.ts)),
                     mark |-> MillisToMicros(p.mark), oi |-> MillisToMicros(p.oi[i]),
                     ratio |-> [f \in Families |-> Latest(p.ratio[i][f])]]
  PROVE  HonestRow(r)
<1>1. /\ now \in Nat /\ now <= MaxMs /\ p.ts \in Nat /\ i \in Instruments
      /\ p.mark \in Nat /\ p.oi[i] \in Nat \cup {None}
  BY PerpConstants DEF PerpTypeOK, Collecting, None
<1>2. p.ts <= now /\ now <= p.ts + MaxPollMs /\ Recent(p.mark, p.ts, now)
  BY DEF HonestJob
<1>3. r.poll = p.ts * MicrosPerMilli /\ r.mark = p.mark * MicrosPerMilli
  BY <1>1 DEF MillisToMicros, None
<1>4. r.snap = GridStart(p.ts, GridMs) * MicrosPerMilli
  <2>1. r.snap = GridStart(p.ts * MicrosPerMilli, GridMs * MicrosPerMilli)
    BY <1>3 DEF FloorToGrid, GridStart
  <2>2. QED
    BY <1>1, <2>1, PerpConstants, FloorScales
<1>5. GridStart(p.ts, GridMs) \in 0..p.ts /\ p.ts - GridStart(p.ts, GridMs) < GridMs
  BY <1>1, PerpConstants, FloorScales
<1>6. /\ r.poll \in Micros /\ r.snap \in Micros
      /\ r.snap <= r.poll /\ r.poll < r.snap + GridMs * MicrosPerMilli
  <2> DEFINE u == GridStart(p.ts, GridMs)
             ts == p.ts
  <2>1. /\ u \in Nat /\ ts \in Nat /\ MaxMs \in Nat /\ GridMs \in Nat
        /\ u <= ts /\ ts < u + GridMs /\ ts <= MaxMs
    BY <1>1, <1>2, <1>5, PerpConstants
  <2>2. r.poll = ts * MicrosPerMilli /\ r.snap = u * MicrosPerMilli
    BY <1>3, <1>4
  <2> HIDE DEF u, ts
  <2>3. /\ ts * MicrosPerMilli \in Micros /\ u * MicrosPerMilli \in Micros
        /\ u * MicrosPerMilli <= ts * MicrosPerMilli
        /\ ts * MicrosPerMilli < u * MicrosPerMilli + GridMs * MicrosPerMilli
    BY <2>1 DEF MicrosPerMilli, Micros
  <2>4. QED
    BY <2>2, <2>3
<1>7. /\ r.mark \in Micros /\ ReadFor(r.mark, r, LagMs + 1)
      /\ r.oi \in Micros /\ (r.oi # 0 => ReadFor(r.oi, r, LagMs + 1))
  <2>1. r.mark \in Micros /\ ReadFor(r.mark, r, LagMs + 1)
    BY <1>1, <1>2, <1>3, RecentReads
  <2>2. CASE p.oi[i] = None
    BY <2>1, <2>2, PerpConstants DEF MillisToMicros, Micros, MicrosPerMilli
  <2>3. CASE p.oi[i] # None
    <3>1. Recent(p.oi[i], p.ts, now) /\ r.oi = p.oi[i] * MicrosPerMilli /\ p.oi[i] \in Nat
      BY <1>1, <2>3 DEF HonestJob, MillisToMicros
    <3>2. QED
      BY <1>1, <1>2, <1>3, <2>1, <3>1, RecentReads
  <2>4. QED
    BY <2>2, <2>3
<1>8. ASSUME NEW f \in Families
      PROVE  /\ r.ratio[f] \in Micros \cup {None}
             /\ r.ratio[f] # None =>
                  /\ ReadFor(r.ratio[f], r, GridMs + LagMs)
                  /\ r.ratio[f] % (GridMs * MicrosPerMilli) = 0
  <2>1. PICK n \in p.ts .. now : p.ratio[i][f] \in RatioAnswers(n)
    BY <1>1 DEF HonestJob
  <2>2. r.ratio[f] = Latest(p.ratio[i][f])
    OBVIOUS
  <2>3. QED
    BY <1>1, <1>2, <1>3, <2>1, <2>2, LatestHonest DEF ReadFor
<1>9. r \in PerpRow
  <2>1. r.ratio \in [Families -> Micros \cup {None}]
    BY <1>8
  <2>2. QED
    BY <1>1, <1>6, <1>7, <2>1 DEF PerpRow
<1>10. QED
  BY <1>6, <1>7, <1>8, <1>9 DEF HonestRow

\* A function changed in one place keeps its type.
LEMMA UpdateTypes ==
  ASSUME NEW D, NEW R, NEW f \in [D -> R], NEW x, NEW v \in R
  PROVE  [f EXCEPT ![x] = v] \in [D -> R]
OBVIOUS

\* A collect stays honest while the Lambda may still run.
LEMMA JobAges ==
  ASSUME NEW p \in Collecting, NEW t \in Nat, HonestJob(p, t), t + 1 <= p.ts + MaxPollMs
  PROVE  HonestJob(p, t + 1)
<1>1. p.ts \in Nat
  BY PerpConstants DEF Collecting
<1>2. \A n \in p.ts .. t : n \in p.ts .. (t + 1)
  BY <1>1
<1>3. p.ts <= t + 1
  BY <1>1 DEF HonestJob
<1>4. \A x \in Int : Recent(x, p.ts, t) => Recent(x, p.ts, t + 1)
  BY DEF Recent
<1>5. p.mark \in Int /\ \A i \in Instruments : p.oi[i] # None => p.oi[i] \in Int
  BY DEF Collecting
<1>6. QED
  BY <1>2, <1>3, <1>4, <1>5 DEF HonestJob

\* A new collect has read nothing.
LEMMA JobStarts ==
  ASSUME PerpTypeOK,
         NEW p, p = [ts |-> now, step |-> 0, mark |-> 0, named |-> {},
                     oi |-> [i \in Instruments |-> None],
                     ratio |-> [i \in Instruments |-> [f \in Families |-> <<>>]]]
  PROVE  p \in Collecting /\ HonestJob(p, now)
<1>1. now \in 1..MaxMs /\ MaxMs \in Nat /\ MaxPollMs \in Nat /\ Len(Pairs) \in Nat
  BY PerpConstants DEF PerpTypeOK
<1>2. now \in Nat /\ 0 \in 0..MaxMs /\ 0 \in 0 .. Len(Pairs) + 1 /\ now <= now + MaxPollMs
  BY <1>1
<1>3. p.ratio \in [Instruments -> [Families -> Seq(0..MaxMs)]]
  OBVIOUS
<1>4. p \in Collecting
  BY <1>1, <1>2, <1>3 DEF Collecting
<1>5. now \in p.ts .. now /\ \A i \in Instruments, f \in Families : p.ratio[i][f] \in RatioAnswers(now)
  BY <1>2 DEF RatioAnswers
<1>6. QED
  BY <1>2, <1>4, <1>5 DEF HonestJob

\* What the venue stamps now is recent for any collect that runs now.
LEMMA StampsRecent ==
  ASSUME NEW t \in Nat, NEW ts \in Nat, ts <= t, NEW x \in Stamps(t)
  PROVE  Recent(x, ts, t)
BY PerpConstants DEF Stamps, Recent

\* premiumIndex answers a running collect.
LEMMA JobIndexes ==
  ASSUME PerpTypeOK, NEW p \in running, HonestJob(p, now), p.step = 0,
         NEW S \in SUBSET Instruments, NEW time \in Stamps(now),
         NEW q, q = [p EXCEPT !.step = 1, !.named = S, !.mark = time]
  PROVE  q \in Collecting /\ HonestJob(q, now) /\ q.ts = p.ts
<1>1. /\ now \in 1..MaxMs /\ p \in Collecting /\ MaxMs \in Nat /\ Len(Pairs) \in Nat
  BY PerpConstants DEF PerpTypeOK
<1>2. time \in 0..MaxMs /\ 1 \in 0 .. Len(Pairs) + 1 /\ p.ts \in Nat
  BY <1>1, PerpConstants DEF Collecting, Stamps
<1>3. /\ q.ts = p.ts /\ q.step = 1 /\ q.named = S /\ q.mark = time /\ q.oi = p.oi
      /\ q.ratio = p.ratio
  BY <1>1 DEF Collecting
<1>4. q \in Collecting
  BY <1>1, <1>2 DEF Collecting
<1>5. HonestJob(q, now)
  <2>1. Recent(q.mark, q.ts, now)
    BY <1>1, <1>2, <1>3, StampsRecent DEF HonestJob
  <2>2. QED
    BY <1>3, <2>1 DEF HonestJob
<1>6. QED
  BY <1>3, <1>4, <1>5

\* The endpoints of one instrument answer, or do not.
LEMMA JobReads ==
  ASSUME PerpTypeOK, NEW p \in running, HonestJob(p, now), p.step \in 1..Len(Pairs),
         NEW interest \in Stamps(now) \cup {None}, NEW R \in [Families -> RatioAnswers(now)],
         NEW q, q = [p EXCEPT !.step = p.step + 1, !.oi[Pairs[p.step]] = interest,
                              !.ratio[Pairs[p.step]] = R]
  PROVE  q \in Collecting /\ HonestJob(q, now) /\ q.ts = p.ts
<1> DEFINE j == Pairs[p.step]
<1>1. /\ now \in 1..MaxMs /\ p \in Collecting /\ MaxMs \in Nat /\ Len(Pairs) \in Nat
      /\ j \in Instruments
  BY PerpConstants DEF PerpTypeOK
<1>2. now \in Nat /\ now <= MaxMs /\ now \in 0..MaxMs /\ p.step + 1 \in 0 .. Len(Pairs) + 1
      /\ p.ts \in Nat /\ p.ts <= now /\ p.step + 1 # 0 /\ p.step # 0
  BY <1>1, PerpConstants DEF Collecting, HonestJob
<1>3. /\ p.oi \in [Instruments -> 0..MaxMs \cup {None}]
      /\ p.ratio \in [Instruments -> [Families -> Seq(0..MaxMs)]]
  BY <1>1 DEF Collecting
<1>4. R \in [Families -> Seq(0..MaxMs)]
  <2>1. RatioAnswers(now) \subseteq Seq(0..MaxMs)
    BY <1>2, RatioTypes
  <2>2. QED
    BY <2>1
<1> HIDE DEF j
<1>5. /\ q.ts = p.ts /\ q.step = p.step + 1 /\ q.named = p.named /\ q.mark = p.mark
      /\ q.oi = [p.oi EXCEPT ![j] = interest] /\ q.ratio = [p.ratio EXCEPT ![j] = R]
  BY <1>1 DEF Collecting, j
<1>6. /\ q.oi \in [Instruments -> 0..MaxMs \cup {None}]
      /\ q.ratio \in [Instruments -> [Families -> Seq(0..MaxMs)]]
  <2>1. interest \in 0..MaxMs \cup {None}
    BY <1>1, <1>2 DEF Stamps
  <2>2. q.oi \in [Instruments -> 0..MaxMs \cup {None}]
    <3>1. [p.oi EXCEPT ![j] = interest] \in [Instruments -> 0..MaxMs \cup {None}]
      BY <1>3, <2>1, UpdateTypes
    <3>2. QED
      BY <1>5, <3>1
  <2>3. q.ratio \in [Instruments -> [Families -> Seq(0..MaxMs)]]
    <3>1. [p.ratio EXCEPT ![j] = R] \in [Instruments -> [Families -> Seq(0..MaxMs)]]
      BY <1>3, <1>4, UpdateTypes
    <3>2. QED
      BY <1>5, <3>1
  <2>4. QED
    BY <2>2, <2>3
<1>7. q \in Collecting
  <2>1. q = [ts |-> q.ts, step |-> q.step, mark |-> q.mark, named |-> q.named, oi |-> q.oi,
             ratio |-> q.ratio]
    BY <1>1 DEF Collecting
  <2>2. /\ q.ts \in 1..MaxMs /\ q.step \in 0 .. Len(Pairs) + 1 /\ q.mark \in 0..MaxMs
        /\ q.named \in SUBSET Instruments
    BY <1>1, <1>2, <1>5 DEF Collecting
  <2>3. QED
    BY <1>6, <2>1, <2>2 DEF Collecting
<1>8. \A i \in Instruments : q.oi[i] # None => Recent(q.oi[i], q.ts, now)
  BY <1>1, <1>2, <1>3, <1>5, StampsRecent DEF HonestJob
<1>9. ASSUME NEW i \in Instruments, NEW f \in Families
      PROVE  \E n \in q.ts .. now : q.ratio[i][f] \in RatioAnswers(n)
  <2>1. CASE i = j
    <3>1. q.ratio[i][f] \in RatioAnswers(now)
      BY <1>3, <1>5, <2>1
    <3>2. now \in q.ts .. now
      BY <1>2, <1>5
    <3>3. QED
      BY <3>1, <3>2
  <2>2. CASE i # j
    BY <1>3, <1>5, <2>2 DEF HonestJob
  <2>3. QED
    BY <2>1, <2>2
<1>10. HonestJob(q, now)
  <2>1. q.ts <= now /\ now <= q.ts + MaxPollMs /\ Recent(q.mark, q.ts, now)
    BY <1>2, <1>5 DEF HonestJob
  <2>2. QED
    BY <1>8, <1>9, <2>1 DEF HonestJob
<1>11. QED
  BY <1>5, <1>7, <1>10

\* A step that changes one running collect, or adds one, and no table.
LEMMA RunningStep ==
  ASSUME PerpInv, NEW q \in Collecting, HonestJob(q, now),
         NEW old, running' = (running \ old) \cup {q}, polls' \in 0..MaxPolls,
         UNCHANGED <<now, answered, bronze, silver>>
  PROVE  PerpInv'
<1> USE DEF PerpInv
<1>1. PerpTypeOK'
  BY DEF PerpTypeOK
<1>2. \A p \in running' : HonestJob(p, now')
  BY DEF HonestJob
<1>3. OneRowPerPoll' /\ OneRowPerGrid'
  BY DEF OneRowPerPoll, OneRowPerGrid
<1>4. QED
  BY <1>1, <1>2, <1>3 DEF HonestJob

\* The object of a poll replaces what an invocation of the same instant put.
LEMMA PutStep ==
  ASSUME PerpInv, NEW p \in running, Put(p)
  PROVE  PerpInv'
<1> DEFINE P == MillisToMicros(p.ts)
           kept == {r \in bronze : r.poll # P}
<1>1. /\ p.step = Len(Pairs) + 1 /\ p.step # 0 /\ HonestJob(p, now) /\ PerpTypeOK
      /\ p.named \subseteq Instruments
  BY PerpConstants DEF Put, PerpInv, PerpTypeOK, Collecting
<1>2. /\ bronze' = kept \cup BuildRows(p)
      /\ answered' = {a \in answered : a[1] # P} \cup ({P} \X p.named)
      /\ running' = running \ {p} /\ UNCHANGED <<now, polls, silver>>
  BY DEF Put
<1>3. \A r \in BuildRows(p) : HonestRow(r) /\ r.poll = P /\ r.inst \in p.named
  <2> SUFFICES ASSUME NEW i \in p.named,
                      NEW r, r = [inst |-> i, poll |-> MillisToMicros(p.ts),
                                  snap |-> FloorToGrid(MillisToMicros(p.ts)),
                                  mark |-> MillisToMicros(p.mark),
                                  oi |-> MillisToMicros(p.oi[i]),
                                  ratio |-> [f \in Families |-> Latest(p.ratio[i][f])]]
               PROVE  HonestRow(r) /\ r.poll = P /\ r.inst \in p.named
    BY DEF BuildRows
  <2>1. HonestRow(r)
    BY <1>1, RowHonest
  <2>2. QED
    BY <2>1
<1>4. \A i \in p.named : \E r \in BuildRows(p) : r.poll = P /\ r.inst = i
  <2> SUFFICES ASSUME NEW i \in p.named PROVE \E r \in BuildRows(p) : r.poll = P /\ r.inst = i
    OBVIOUS
  <2> DEFINE r == [inst |-> i, poll |-> MillisToMicros(p.ts),
                   snap |-> FloorToGrid(MillisToMicros(p.ts)),
                   mark |-> MillisToMicros(p.mark), oi |-> MillisToMicros(p.oi[i]),
                   ratio |-> [f \in Families |-> Latest(p.ratio[i][f])]]
  <2>1. r \in BuildRows(p)
    BY DEF BuildRows
  <2>2. r.poll = P /\ r.inst = i
    OBVIOUS
  <2> HIDE DEF r
  <2>3. QED
    BY <2>1, <2>2
<1>5. \A q, r \in BuildRows(p) : q.inst = r.inst => q = r
  BY DEF BuildRows
<1>6. bronze' \subseteq PerpRow /\ answered' \subseteq Micros \X Instruments
  <2>1. \A r \in bronze' : r \in PerpRow
    BY <1>1, <1>2, <1>3 DEF PerpTypeOK, HonestRow
  <2>2. P \in Micros \/ p.named = {}
    BY <1>3, <1>4 DEF HonestRow, PerpRow
  <2>3. answered \subseteq Micros \X Instruments
    BY <1>1 DEF PerpTypeOK
  <2> HIDE DEF P
  <2>4. {P} \X p.named \subseteq Micros \X Instruments
    BY <1>1, <2>2
  <2>5. QED
    BY <1>2, <2>1, <2>3, <2>4
<1>7. PerpTypeOK'
  BY <1>1, <1>2, <1>6 DEF PerpTypeOK
<1> HIDE DEF P
<1>8. \A q \in running' : HonestJob(q, now')
  BY <1>2 DEF PerpInv, HonestJob
<1>9. \A r \in bronze' \cup silver' : HonestRow(r)
  BY <1>2, <1>3 DEF PerpInv
<1>10. {<<r.poll, r.inst>> : r \in bronze'} = answered'
  <2>1. \A r \in bronze' : <<r.poll, r.inst>> \in answered'
    <3> SUFFICES ASSUME NEW r \in bronze' PROVE <<r.poll, r.inst>> \in answered'
      OBVIOUS
    <3>1. CASE r \in kept
      <4>1. <<r.poll, r.inst>> \in answered /\ <<r.poll, r.inst>>[1] # P
        BY <3>1 DEF PerpInv
      <4>2. QED
        BY <1>2, <4>1
    <3>2. CASE r \in BuildRows(p)
      BY <1>2, <1>3, <3>2
    <3>3. QED
      BY <1>2, <3>1, <3>2
  <2>2. \A a \in answered' : \E r \in bronze' : a = <<r.poll, r.inst>>
    <3> SUFFICES ASSUME NEW a \in answered' PROVE \E r \in bronze' : a = <<r.poll, r.inst>>
      OBVIOUS
    <3>1. CASE a \in answered /\ a[1] # P
      <4>1. PICK r \in bronze : a = <<r.poll, r.inst>>
        BY <3>1 DEF PerpInv
      <4>2. r \in kept
        BY <3>1, <4>1
      <4>3. QED
        BY <1>2, <4>1, <4>2
    <3>2. CASE a \in {P} \X p.named
      <4>1. PICK i \in p.named : a = <<P, i>>
        BY <3>2
      <4>2. PICK r \in BuildRows(p) : r.poll = P /\ r.inst = i
        BY <1>4
      <4>3. r \in bronze' /\ a = <<r.poll, r.inst>>
        BY <1>2, <4>1, <4>2
      <4>4. QED
        BY <4>3
    <3>3. QED
      BY <1>2, <3>1, <3>2
  <2>3. QED
    BY <2>1, <2>2
<1>11. OneRowPerPoll'
  BY <1>2, <1>3, <1>5 DEF PerpInv, OneRowPerPoll
<1>12. OneRowPerGrid'
  BY <1>2 DEF PerpInv, OneRowPerGrid
<1>13. QED
  BY <1>7, <1>8, <1>9, <1>10, <1>11, <1>12 DEF PerpInv, HonestRow

\* Two rows of Bronze that are both the first poll of a grid point are one.
LEMMA FirstPollsUnique ==
  ASSUME PerpInv, NEW q \in FirstPolls(Window), NEW r \in FirstPolls(Window), SameGrid(q, r)
  PROVE  q = r
<1>1. q \in Window /\ r \in Window /\ q \in bronze /\ r \in bronze
  BY DEF FirstPolls, Window
<1>2. q.poll \in Nat /\ r.poll \in Nat
  BY <1>1 DEF PerpInv, PerpTypeOK, PerpRow, Micros
<1>3. q.poll <= r.poll /\ r.poll <= q.poll
  BY <1>1 DEF FirstPolls, SameGrid
<1>4. QED
  BY <1>1, <1>2, <1>3 DEF PerpInv, OneRowPerPoll, SameGrid

\* A merge copies first polls, where Silver has no row of the grid point.
LEMMA MergeStep == PerpInv /\ MergePerp => PerpInv'
<1> SUFFICES ASSUME PerpInv, MergePerp PROVE PerpInv'
  OBVIOUS
<1> DEFINE new == {r \in FirstPolls(Window) : NotMatched(r)}
<1>1. silver' = silver \cup new /\ UNCHANGED <<now, polls, running, answered, bronze>>
  BY DEF MergePerp
<1>2. new \subseteq bronze
  BY DEF FirstPolls, Window
<1>3. PerpTypeOK'
  BY <1>1, <1>2 DEF PerpInv, PerpTypeOK
<1>4. OneRowPerGrid'
  <2> SUFFICES ASSUME NEW r \in silver', NEW t \in silver', SameGrid(r, t) PROVE r = t
    BY DEF OneRowPerGrid, SameGrid
  <2>1. CASE r \in silver /\ t \in silver
    BY <2>1 DEF PerpInv, OneRowPerGrid
  <2>2. CASE r \in new /\ t \in new
    BY <2>2, FirstPollsUnique
  <2>3. CASE (r \in new /\ t \in silver) \/ (r \in silver /\ t \in new)
    BY <2>3 DEF NotMatched, SameGrid
  <2>4. QED
    BY <1>1, <2>1, <2>2, <2>3
<1> HIDE DEF new
<1>5. QED
  BY <1>1, <1>2, <1>3, <1>4 DEF PerpInv, OneRowPerPoll, HonestJob, HonestRow

\* The step of the invariant, one case per action.
LEMMA PerpStep == PerpInv /\ [PerpNext]_perpVars => PerpInv'
<1> SUFFICES ASSUME PerpInv, [PerpNext]_perpVars PROVE PerpInv'
  OBVIOUS
<1>a. /\ now \in 1..MaxMs /\ polls \in 0..MaxPolls /\ running \subseteq Collecting
      /\ MaxPolls \in Nat /\ PerpTypeOK
  BY PerpConstants DEF PerpInv, PerpTypeOK
<1>1. CASE Invoke
  <2> DEFINE q == [ts |-> now, step |-> 0, mark |-> 0, named |-> {},
                   oi |-> [i \in Instruments |-> None],
                   ratio |-> [i \in Instruments |-> [f \in Families |-> <<>>]]]
  <2>1. /\ running' = (running \ {}) \cup {q} /\ polls' \in 0..MaxPolls
        /\ UNCHANGED <<now, answered, bronze, silver>>
    BY <1>a, <1>1 DEF Invoke
  <2>2. q \in Collecting /\ HonestJob(q, now)
    BY <1>a, JobStarts
  <2> HIDE DEF q
  <2>3. QED
    BY <2>1, <2>2, RunningStep
<1>2. ASSUME NEW p \in running, NEW S \in SUBSET Instruments, NEW time \in Stamps(now),
             PremiumIndex(p, S, time)
      PROVE  PerpInv'
  <2> DEFINE q == [p EXCEPT !.step = 1, !.named = S, !.mark = time]
  <2>1. /\ running' = (running \ {p}) \cup {q} /\ polls' \in 0..MaxPolls
        /\ UNCHANGED <<now, answered, bronze, silver>> /\ p.step = 0
    BY <1>a, <1>2 DEF PremiumIndex
  <2>2. q \in Collecting /\ HonestJob(q, now)
    BY <1>a, <2>1, JobIndexes DEF PerpInv
  <2> HIDE DEF q
  <2>3. QED
    BY <2>1, <2>2, RunningStep
<1>3. ASSUME NEW p \in running, NEW interest \in Stamps(now) \cup {None},
             NEW answers \in [Families -> RatioAnswers(now)], Symbol(p, interest, answers)
      PROVE  PerpInv'
  <2> DEFINE q == [p EXCEPT !.step = p.step + 1, !.oi[Pairs[p.step]] = interest,
                            !.ratio[Pairs[p.step]] = answers]
  <2>1. /\ running' = (running \ {p}) \cup {q} /\ polls' \in 0..MaxPolls
        /\ UNCHANGED <<now, answered, bronze, silver>> /\ p.step \in 1..Len(Pairs)
    BY <1>a, <1>3 DEF Symbol
  <2>2. q \in Collecting /\ HonestJob(q, now)
    BY <1>a, <2>1, JobReads DEF PerpInv
  <2> HIDE DEF q
  <2>3. QED
    BY <2>1, <2>2, RunningStep
<1>4. ASSUME NEW p \in running, Put(p) PROVE PerpInv'
  BY <1>4, PutStep
<1>5. ASSUME NEW p \in running, Dies(p) PROVE PerpInv'
  <2>1. running' = running \ {p} /\ UNCHANGED <<now, polls, answered, bronze, silver>>
    BY <1>5 DEF Dies
  <2>2. QED
    BY <2>1 DEF PerpInv, PerpTypeOK, OneRowPerPoll, OneRowPerGrid, HonestJob
<1>6. CASE Tick
  <2>1. /\ now' = now + 1 /\ now < MaxMs /\ \A p \in running : now < p.ts + MaxPollMs
        /\ UNCHANGED <<polls, running, answered, bronze, silver>>
    BY <1>6 DEF Tick
  <2>2. now' \in 1..MaxMs /\ now \in Nat
    BY <1>a, <2>1, PerpConstants
  <2>3. \A p \in running : HonestJob(p, now + 1)
    <3> SUFFICES ASSUME NEW p \in running PROVE HonestJob(p, now + 1)
      OBVIOUS
    <3>1. p \in Collecting /\ p.ts \in Nat /\ MaxPollMs \in Nat
      BY <1>a, PerpConstants DEF Collecting
    <3>2. now + 1 <= p.ts + MaxPollMs
      BY <2>1, <2>2, <3>1
    <3>3. QED
      BY <2>2, <3>1, <3>2, JobAges DEF PerpInv
  <2>4. PerpTypeOK'
    BY <2>1, <2>2 DEF PerpInv, PerpTypeOK
  <2>5. OneRowPerPoll' /\ OneRowPerGrid'
    BY <2>1 DEF PerpInv, OneRowPerPoll, OneRowPerGrid
  <2>6. QED
    BY <2>1, <2>3, <2>4, <2>5 DEF PerpInv, HonestJob, HonestRow
<1>7. CASE MergePerp
  BY <1>7, MergeStep
<1>8. CASE UNCHANGED perpVars
  BY <1>8 DEF perpVars, PerpInv, PerpTypeOK, OneRowPerPoll, OneRowPerGrid, HonestJob
<1>9. QED
  BY <1>1, <1>2, <1>3, <1>4, <1>5, <1>6, <1>7, <1>8 DEF PerpNext, Fetch

\* Nothing has been polled at first.
LEMMA PerpStarts == PerpInit => PerpInv
<1> SUFFICES ASSUME PerpInit PROVE PerpInv
  OBVIOUS
<1>1. now \in 1..MaxMs /\ polls \in 0..MaxPolls
  BY PerpConstants DEF PerpInit
<1>2. QED
  BY <1>1 DEF PerpInit, PerpInv, PerpTypeOK, OneRowPerPoll, OneRowPerGrid

\* Every row of the perpetual context is complete where an endpoint answered,
\* empty where it did not, never past the invocation of the poll it is stamped
\* with and never older than the venue's lag and one period of the grid make it
\* (PerpCollector.collect, build_rows): for every grid, lag, timeout and overlap of
\* invocations.
THEOREM PerpRowsHonest == PerpSpec => []RowsHonest
<1>1. PerpInv => RowsHonest
  BY DEF PerpInv, HonestRow, RowsHonest, DegradesAlone, KnowledgeBounded
<1>2. QED
  BY <1>1, PerpStarts, PerpStep, PTL DEF PerpSpec

\* A merge stores the earliest poll of its window and replaces no row
\* (merge_silver_perp_context.sql).
THEOREM PerpKeepsEarliest == PerpSpec => EarliestPollKept
<1>1. PerpInv /\ PerpInv' /\ [PerpNext]_perpVars =>
        [ /\ silver \subseteq silver'
          /\ \A r, t \in silver' : SameGrid(r, t) => r = t
          /\ \A t \in silver' \ silver, r \in bronze :
               SameGrid(r, t) /\ InWindow(r) => t.poll <= r.poll ]_perpVars
  <2> SUFFICES ASSUME PerpInv, PerpInv', PerpNext
               PROVE  /\ silver \subseteq silver'
                      /\ \A r, t \in silver' : SameGrid(r, t) => r = t
                      /\ \A t \in silver' \ silver, r \in bronze :
                           SameGrid(r, t) /\ InWindow(r) => t.poll <= r.poll
    OBVIOUS
  <2>1. \A r, t \in silver' : SameGrid(r, t) => r = t
    BY DEF PerpInv, OneRowPerGrid, SameGrid
  <2>2. CASE MergePerp
    <3>1. silver' = silver \cup {r \in FirstPolls(Window) : NotMatched(r)}
      BY <2>2 DEF MergePerp
    <3>2. \A t \in FirstPolls(Window), r \in bronze :
            SameGrid(r, t) /\ InWindow(r) => t.poll <= r.poll
      BY DEF FirstPolls, Window, SameGrid
    <3>3. QED
      BY <2>1, <3>1, <3>2
  <2>3. CASE silver' = silver
    BY <2>1, <2>3
  <2>4. QED
    BY <2>2, <2>3 DEF PerpNext, Invoke, Tick, Fetch, PremiumIndex, Symbol, Put, Dies
<1>2. QED
  BY <1>1, PerpStarts, PerpStep, PTL DEF PerpSpec, EarliestPollKept

\* The clock, the collects and both tables keep their types.
THEOREM PerpTypes == PerpSpec => []PerpTypeOK
<1>1. PerpInv => PerpTypeOK
  BY DEF PerpInv
<1>2. QED
  BY <1>1, PerpStarts, PerpStep, PTL DEF PerpSpec

-----------------------------------------------------------------------------
(***************************************************************************)
(* The macro series.                                                       *)
(***************************************************************************)
\* What ALFRED shows and what an object holds has been shown on that day; an
\* object has one row of an observation.
ShownInv ==
  /\ \A c \in Cells : alfred[c] # Blank => <<c, day, alfred[c]>> \in shown
  /\ \A v \in DOMAIN vintage : \A r \in vintage[v] : <<r.cell, v, r.value>> \in shown
  /\ \A v \in DOMAIN vintage : \A q, r \in vintage[v] : q.cell = r.cell => q = r

\* A row of Silver has been shown on the day of its vintage, no object shows its
\* value earlier, and once merged no first row is left to insert.
StoredInv ==
  /\ \A m \in macro : m.vintage <= day /\ <<m.cell, m.vintage, m.value>> \in shown
  /\ \A m \in macro : \A q \in Rows :
       q.cell = m.cell /\ q.value = m.value => m.vintage <= q.vintage
  /\ merged => \A f \in Firsts : ~New(f)
  /\ OneRowPerRevision

MacroInv == MacroTypeOK /\ ShownInv /\ StoredInv

\* Of the naturals of a non-empty set, one is the smallest.
LEMMA SmallestNat ==
  ASSUME NEW V \in SUBSET Nat, V # {}
  PROVE  \E x \in V : \A y \in V : x <= y
<1> DEFINE R == {ss \in Nat \X Nat : ss[1] < ss[2]}
<1>1. IsWellFoundedOn(R, Nat)
  BY NatLessThanWellFounded DEF OpToRel
<1>2. PICK x \in V : \A y \in V : ~(<<y, x>> \in R)
  <2> HIDE DEF R
  <2>1. QED
    BY <1>1, WFMin
<1>3. \A y \in V : ~(y < x)
  <2>1. \A y \in V : y \in Nat /\ x \in Nat
    OBVIOUS
  <2>2. \A y \in V : y < x => <<y, x>> \in R
    BY <2>1
  <2>3. QED
    BY <1>2, <2>2
<1>4. \A y \in V : x <= y
  BY <1>3
<1>5. QED
  BY <1>4

\* The rows of Bronze.
LEMMA RowsAre ==
  ASSUME MacroTypeOK
  PROVE  /\ \A r \in Rows : /\ r.vintage \in DOMAIN vintage /\ r.vintage \in Nat
                            /\ r.vintage <= day /\ r.vintage \in 1..MaxVintage
                            /\ [cell |-> r.cell, value |-> r.value] \in vintage[r.vintage]
                            /\ r \in [cell : Cells, vintage : 1..MaxVintage, value : Readings]
         /\ \A v \in DOMAIN vintage : \A o \in vintage[v] :
              [cell |-> o.cell, value |-> o.value, vintage |-> v] \in Rows
<1>1. /\ DOMAIN vintage \subseteq 1..day /\ day \in 1..MaxVintage /\ MaxVintage \in Nat
      /\ \A v \in DOMAIN vintage : vintage[v] \subseteq MacroObservation
  BY MacroAssumption DEF MacroTypeOK
<1>2. \A v \in DOMAIN vintage : v \in Nat /\ v <= day /\ v \in 1..MaxVintage
  BY <1>1
<1>3. ASSUME NEW v \in DOMAIN vintage, NEW o \in vintage[v],
             NEW r, r = [cell |-> o.cell, value |-> o.value, vintage |-> v]
      PROVE  /\ r.vintage = v /\ [cell |-> r.cell, value |-> r.value] \in vintage[v]
             /\ r \in [cell : Cells, vintage : 1..MaxVintage, value : Readings]
  <2>1. o \in MacroObservation
    BY <1>1
  <2>2. [cell |-> o.cell, value |-> o.value] = o
    BY <2>1 DEF MacroObservation
  <2>3. QED
    BY <1>2, <1>3, <2>1, <2>2 DEF MacroObservation
<1>4. QED
  BY <1>2, <1>3 DEF Rows

\* A row has a first row: the same value at an earlier or the same vintage.
LEMMA FirstExists ==
  ASSUME MacroTypeOK, NEW r \in Rows
  PROVE  \E f \in Firsts : f \in Rows /\ f.cell = r.cell /\ f.value = r.value
                           /\ f.vintage <= r.vintage
<1> DEFINE Same == {q \in Rows : q.cell = r.cell /\ q.value = r.value}
           V == {q.vintage : q \in Same}
<1>1. V \in SUBSET Nat /\ V # {}
  BY RowsAre
<1>2. PICK x \in V : \A y \in V : x <= y
  <2> HIDE DEF V
  <2>1. QED
    BY <1>1, SmallestNat
<1>3. PICK f \in Same : f.vintage = x
  BY <1>2
<1>4. \A q \in Same : f.vintage <= q.vintage
  BY <1>2, <1>3
<1>5. QED
  BY <1>3, <1>4 DEF Firsts

\* An as-of read finds the value of the vintage, or one of the two exceptions.
LEMMA AsOfFound == MacroInv => AsOfReadsVintage
<1> SUFFICES ASSUME MacroInv, merged, NEW r \in Rows, ~Reverted(r), ~Overwritten(r)
             PROVE  \E m \in AsOf(r.cell, r.vintage) : m.value = r.value
  BY DEF AsOfReadsVintage
<1> USE DEF MacroInv
<1>1. PICK f \in Firsts : f \in Rows /\ f.cell = r.cell /\ f.value = r.value
                          /\ f.vintage <= r.vintage
  BY FirstExists
<1>2. PICK m \in macro : m.cell = f.cell /\ (m.value = f.value \/ m.vintage = f.vintage)
  BY <1>1 DEF StoredInv, New
<1>3. \A n \in macro : n.vintage \in Nat
  BY DEF MacroTypeOK
<1>4. r.vintage \in Nat /\ f.vintage \in Nat
  BY <1>1, RowsAre
<1>5. m.value = f.value
  <2> SUFFICES ASSUME m.vintage = f.vintage, m.value # f.value PROVE FALSE
    BY <1>2
  <2>1. f.vintage \in DOMAIN vintage /\ [cell |-> f.cell, value |-> f.value] \in vintage[f.vintage]
    BY <1>1, RowsAre
  <2>2. [cell |-> m.cell, value |-> m.value] \notin vintage[m.vintage]
    BY <1>2, <2>1 DEF ShownInv
  <2>3. Overwritten(r)
    BY <1>1, <1>2, <2>2 DEF Overwritten
  <2>4. QED
    BY <2>3
<1>6. m.vintage <= r.vintage
  BY <1>1, <1>2, <1>5 DEF StoredInv
<1>7. m \in AsOf(r.cell, r.vintage)
  <2> SUFFICES ASSUME NEW n \in macro, n.cell = r.cell, n.vintage <= r.vintage,
                      ~(n.vintage <= m.vintage)
               PROVE  FALSE
    BY <1>1, <1>2, <1>6 DEF AsOf
  <2>1. n.vintage \in m.vintage .. r.vintage /\ n # m
    BY <1>3, <1>4
  <2>2. Reverted(r)
    BY <1>1, <1>2, <1>5, <2>1 DEF Reverted
  <2>3. QED
    BY <2>2
<1>8. QED
  BY <1>1, <1>5, <1>7

\* PointInTime is what the invariant says.
LEMMA MacroPointInTime == MacroInv => PointInTime
<1> SUFFICES ASSUME MacroInv PROVE NoLookAhead
  BY AsOfFound DEF PointInTime, MacroInv, StoredInv
<1> SUFFICES ASSUME NEW m \in macro
             PROVE  /\ <<m.cell, m.vintage, m.value>> \in shown
                    /\ \A d \in Knowledge(m) .. MaxVintage :
                         \E s \in shown : s[1] = m.cell /\ s[3] = m.value /\ s[2] < d
  BY DEF NoLookAhead
<1> DEFINE s == <<m.cell, m.vintage, m.value>>
<1>1. s \in shown /\ s[1] = m.cell /\ s[3] = m.value /\ s[2] = m.vintage
  BY DEF MacroInv, StoredInv
<1>2. m.vintage \in Nat
  BY DEF MacroInv, MacroTypeOK
<1>3. \A d \in Knowledge(m) .. MaxVintage : m.vintage < d
  BY <1>2, MacroAssumption DEF Knowledge
<1> HIDE DEF s
<1>4. QED
  BY <1>1, <1>3 DEF s

\* ALFRED revises an observation, or the day turns: it shows more.
LEMMA ShownGrows ==
  ASSUME MacroInv, MacroTypeOK', shown \subseteq shown', day <= day',
         \A c \in Cells : alfred'[c] # Blank => <<c, day', alfred'[c]>> \in shown',
         UNCHANGED <<vintage, macro, merged>>
  PROVE  MacroInv'
<1>0. Rows' = Rows /\ Firsts' = Firsts
  BY DEF Rows, Firsts
<1>1. ShownInv'
  BY DEF MacroInv, ShownInv
<1>2. \A m \in macro : m.vintage \in Nat
  BY DEF MacroInv, MacroTypeOK
<1>3. day \in Nat /\ day' \in Nat
  BY DEF MacroInv, MacroTypeOK
<1>4. \A m \in macro' : m.vintage <= day' /\ <<m.cell, m.vintage, m.value>> \in shown'
  <2> SUFFICES ASSUME NEW m \in macro
               PROVE  m.vintage <= day' /\ <<m.cell, m.vintage, m.value>> \in shown'
    OBVIOUS
  <2>1. m.vintage <= day /\ <<m.cell, m.vintage, m.value>> \in shown
    BY DEF MacroInv, StoredInv
  <2>2. m.vintage <= day'
    BY <1>2, <1>3, <2>1
  <2>3. QED
    BY <2>1, <2>2
<1>5. StoredInv'
  BY <1>0, <1>4 DEF MacroInv, StoredInv, New, OneRowPerRevision
<1>6. QED
  BY <1>1, <1>5 DEF MacroInv

\* What a pull writes is what ALFRED shows today, one row an observation.
LEMMA PullStep ==
  ASSUME MacroInv, NEW U \in SUBSET Series, Pull(U)
  PROVE  MacroInv'
<1> DEFINE rows == UNION {Parse(s) : s \in Series \ U}
<1>1. /\ vintage' = [v \in DOMAIN vintage \cup {day} |-> IF v = day THEN rows ELSE vintage[v]]
      /\ merged' = FALSE /\ pulls' = pulls + 1 /\ pulls < MaxPulls
      /\ UNCHANGED <<day, alfred, shown, macro>>
  BY DEF Pull, Store
<1>2. \A r \in rows : /\ r \in MacroObservation /\ <<r.cell, day, r.value>> \in shown
                      /\ r.value = alfred[r.cell]
  <2> SUFFICES ASSUME NEW c \in Cells, alfred[c] # Blank,
                      NEW r, r = [cell |-> c, value |-> alfred[c]]
               PROVE  /\ r \in MacroObservation /\ <<r.cell, day, r.value>> \in shown
                      /\ r.value = alfred[r.cell]
    BY DEF Parse
  <2>1. alfred[c] \in Readings
    BY DEF MacroInv, MacroTypeOK, Values
  <2>2. QED
    BY <2>1 DEF MacroInv, ShownInv, MacroObservation
<1>3. \A q, r \in rows : q.cell = r.cell => q = r
  <2> SUFFICES ASSUME NEW q \in rows, NEW r \in rows, q.cell = r.cell PROVE q = r
    OBVIOUS
  <2>1. q \in MacroObservation /\ r \in MacroObservation /\ q.value = r.value
    BY <1>2
  <2> HIDE DEF rows
  <2>2. QED
    BY <2>1 DEF MacroObservation
<1> HIDE DEF rows
<1>4. /\ DOMAIN vintage' = DOMAIN vintage \cup {day} /\ vintage'[day] = rows
      /\ \A v \in DOMAIN vintage : v # day => vintage'[v] = vintage[v]
  BY <1>1
<1>5. /\ day \in 1..MaxVintage /\ DOMAIN vintage \subseteq 1..day
      /\ \A v \in DOMAIN vintage : vintage[v] \subseteq MacroObservation
  BY DEF MacroInv, MacroTypeOK
<1>6. MacroTypeOK'
  <2>1. pulls' \in 0..MaxPulls
    BY <1>1, MacroAssumption DEF MacroInv, MacroTypeOK
  <2>2. DOMAIN vintage' \subseteq 1..day'
    BY <1>1, <1>4, <1>5, MacroAssumption
  <2>3. \A v \in DOMAIN vintage' : vintage'[v] \subseteq MacroObservation
    BY <1>2, <1>4, <1>5
  <2>4. QED
    BY <1>1, <2>1, <2>2, <2>3 DEF MacroInv, MacroTypeOK
<1>7. ShownInv'
  <2>1. \A v \in DOMAIN vintage' : \A r \in vintage'[v] : <<r.cell, v, r.value>> \in shown
    BY <1>2, <1>4 DEF MacroInv, ShownInv
  <2>2. \A v \in DOMAIN vintage' : \A q, r \in vintage'[v] : q.cell = r.cell => q = r
    BY <1>3, <1>4 DEF MacroInv, ShownInv
  <2>3. QED
    BY <1>1, <2>1, <2>2 DEF MacroInv, ShownInv
<1>8. \A q \in Rows' : q \in Rows \/ q.vintage = day
  BY <1>4 DEF Rows
<1>9. \A m \in macro : \A q \in Rows' :
        q.cell = m.cell /\ q.value = m.value => m.vintage <= q.vintage
  BY <1>8 DEF MacroInv, StoredInv
<1>10. StoredInv'
  BY <1>1, <1>9 DEF MacroInv, StoredInv, OneRowPerRevision
<1>11. QED
  BY <1>6, <1>7, <1>10 DEF MacroInv

\* The merge inserts first rows of values Silver does not have.
LEMMA MacroMerges == MacroInv /\ MergeMacro => MacroInv'
<1> SUFFICES ASSUME MacroInv, MergeMacro PROVE MacroInv'
  OBVIOUS
<1> DEFINE new == {r \in Firsts : New(r)}
<1>1. /\ macro' = macro \cup new /\ merged' = TRUE
      /\ UNCHANGED <<day, alfred, shown, pulls, vintage>>
  BY DEF MergeMacro
<1>2. Rows' = Rows /\ Firsts' = Firsts
  BY <1>1 DEF Rows, Firsts
<1>3. \A r \in new : /\ r \in Rows /\ r \in Firsts /\ New(r)
  BY DEF Firsts
<1> HIDE DEF new
<1>4. \A r \in Rows : /\ r.vintage \in Nat /\ r.vintage <= day
                      /\ r \in [cell : Cells, vintage : 1..MaxVintage, value : Readings]
                      /\ <<r.cell, r.vintage, r.value>> \in shown
  <2>1. MacroTypeOK /\ \A v \in DOMAIN vintage : \A r \in vintage[v] : <<r.cell, v, r.value>> \in shown
    BY DEF MacroInv, ShownInv
  <2>2. QED
    BY <2>1, RowsAre
<1>5. MacroTypeOK'
  BY <1>1, <1>3, <1>4 DEF MacroInv, MacroTypeOK
<1>6. ShownInv'
  BY <1>1 DEF MacroInv, ShownInv
<1>7. \A m \in macro' : m.vintage <= day /\ <<m.cell, m.vintage, m.value>> \in shown
  BY <1>1, <1>3, <1>4 DEF MacroInv, StoredInv
<1>8. \A m \in macro' : \A q \in Rows :
        q.cell = m.cell /\ q.value = m.value => m.vintage <= q.vintage
  BY <1>1, <1>3 DEF MacroInv, StoredInv, Firsts
<1>9. \A f \in Firsts : ~New(f)'
  <2> SUFFICES ASSUME NEW f \in Firsts, New(f)' PROVE FALSE
    OBVIOUS
  <2>1. New(f)
    BY <1>1 DEF New
  <2>2. f \in macro'
    BY <1>1, <2>1 DEF new
  <2>3. QED
    BY <2>2 DEF New
<1>10. OneRowPerRevision'
  <2> SUFFICES ASSUME NEW m \in macro', NEW n \in macro', m.cell = n.cell,
                      m.value = n.value \/ m.vintage = n.vintage
               PROVE  m = n
    BY DEF OneRowPerRevision
  <2>1. CASE m \in macro /\ n \in macro
    BY <2>1 DEF MacroInv, StoredInv, OneRowPerRevision
  <2>2. CASE (m \in new /\ n \in macro) \/ (m \in macro /\ n \in new)
    BY <1>3, <2>2 DEF New
  <2>3. CASE m \in new /\ n \in new
    <3>1. m \in Rows /\ n \in Rows /\ m \in Firsts /\ n \in Firsts
      BY <1>3, <2>3
    <3>2. m.value = n.value
      <4> SUFFICES ASSUME m.vintage = n.vintage PROVE m.value = n.value
        OBVIOUS
      <4>1. /\ m.vintage \in DOMAIN vintage
            /\ [cell |-> m.cell, value |-> m.value] \in vintage[m.vintage]
            /\ [cell |-> n.cell, value |-> n.value] \in vintage[m.vintage]
        BY <3>1, RowsAre DEF MacroInv
      <4>2. [cell |-> m.cell, value |-> m.value] = [cell |-> n.cell, value |-> n.value]
        BY <4>1 DEF MacroInv, ShownInv
      <4>3. QED
        BY <4>2
    <3>3. m.vintage <= n.vintage /\ n.vintage <= m.vintage
      BY <3>1, <3>2 DEF Firsts
    <3>4. m.vintage = n.vintage
      <4>1. m.vintage \in Nat /\ n.vintage \in Nat
        BY <1>4, <3>1
      <4>2. QED
        BY <3>3, <4>1
    <3>5. /\ m = [cell |-> m.cell, vintage |-> m.vintage, value |-> m.value]
          /\ n = [cell |-> n.cell, vintage |-> n.vintage, value |-> n.value]
      BY <1>4, <3>1
    <3>6. QED
      BY <3>2, <3>4, <3>5
  <2>4. QED
    BY <1>1, <2>1, <2>2, <2>3
<1>11. StoredInv'
  BY <1>1, <1>2, <1>7, <1>8, <1>9, <1>10 DEF StoredInv
<1>12. QED
  BY <1>5, <1>6, <1>11 DEF MacroInv

\* The step of the invariant, one case per action.
LEMMA MacroStep == MacroInv /\ [MacroNext]_macroVars => MacroInv'
<1> SUFFICES ASSUME MacroInv, [MacroNext]_macroVars PROVE MacroInv'
  OBVIOUS
<1>a. /\ day \in 1..MaxVintage /\ alfred \in [Cells -> Values]
      /\ shown \subseteq Cells \X (1..MaxVintage) \X Readings
      /\ MaxVintage \in Nat /\ MaxPulls \in Nat
  BY MacroAssumption DEF MacroInv, MacroTypeOK
<1>1. ASSUME NEW c \in Cells, NEW w \in Readings, Publishes(c, w) PROVE MacroInv'
  <2>1. /\ alfred' = [alfred EXCEPT ![c] = w] /\ shown' = shown \cup {<<c, day, w>>}
        /\ UNCHANGED <<day, pulls, vintage, macro, merged>>
    BY <1>1 DEF Publishes
  <2>2. alfred' \in [Cells -> Values]
    BY <1>a, <2>1 DEF Values
  <2>3. shown' \subseteq Cells \X (1..MaxVintage) \X Readings
    BY <1>a, <2>1
  <2>4. MacroTypeOK'
    BY <2>1, <2>2, <2>3 DEF MacroInv, MacroTypeOK
  <2>5. \A e \in Cells : alfred'[e] # Blank => <<e, day, alfred'[e]>> \in shown'
    BY <1>a, <2>1 DEF MacroInv, ShownInv
  <2>6. day <= day' /\ day' = day /\ shown \subseteq shown'
    BY <1>a, <2>1
  <2>7. QED
    BY <2>1, <2>4, <2>5, <2>6, ShownGrows
<1>2. CASE NewDay
  <2>1. /\ day < MaxVintage /\ day' = day + 1 /\ pulls' = 0
        /\ shown' = shown \cup Seen(alfred, day + 1)
        /\ UNCHANGED <<alfred, vintage, macro, merged>>
    BY <1>2 DEF NewDay
  <2>2. day' \in 1..MaxVintage /\ day <= day' /\ 1..day \subseteq 1..day'
    BY <1>a, <2>1
  <2>3. shown' \subseteq Cells \X (1..MaxVintage) \X Readings
    <3>1. \A c \in Cells : alfred[c] # Blank => <<c, day', alfred[c]>> \in Cells \X (1..MaxVintage) \X Readings
      BY <1>a, <2>2 DEF Values
    <3>2. QED
      BY <1>a, <2>1, <3>1 DEF Seen
  <2>4. 0 \in 0..MaxPulls
    BY <1>a
  <2>5. MacroTypeOK'
    BY <2>1, <2>2, <2>3, <2>4 DEF MacroInv, MacroTypeOK
  <2>6. \A e \in Cells : alfred'[e] # Blank => <<e, day', alfred'[e]>> \in shown'
    BY <2>1 DEF Seen
  <2>7. QED
    BY <2>1, <2>2, <2>5, <2>6, ShownGrows
<1>3. CASE MergeMacro
  BY <1>3, MacroMerges
<1>4. CASE PullFails
  <2>1. /\ pulls' \in 0..MaxPulls /\ UNCHANGED <<day, alfred, shown, vintage, macro, merged>>
    BY <1>a, <1>4 DEF PullFails, MacroInv, MacroTypeOK
  <2>2. MacroTypeOK'
    BY <2>1 DEF MacroInv, MacroTypeOK
  <2>3. day <= day' /\ shown \subseteq shown'
    BY <1>a, <2>1
  <2>4. \A e \in Cells : alfred'[e] # Blank => <<e, day', alfred'[e]>> \in shown'
    BY <2>1 DEF MacroInv, ShownInv
  <2>5. QED
    BY <2>1, <2>2, <2>3, <2>4, ShownGrows
<1>5. ASSUME NEW U \in SUBSET Series, Pull(U) PROVE MacroInv'
  BY <1>5, PullStep
<1>6. CASE UNCHANGED macroVars
  <2>1. UNCHANGED <<day, alfred, shown, pulls, vintage, macro, merged>>
    BY <1>6 DEF macroVars
  <2>2. MacroTypeOK' /\ day <= day' /\ shown \subseteq shown'
    BY <1>a, <2>1 DEF MacroInv, MacroTypeOK
  <2>3. \A e \in Cells : alfred'[e] # Blank => <<e, day', alfred'[e]>> \in shown'
    BY <2>1 DEF MacroInv, ShownInv
  <2>4. QED
    BY <2>1, <2>2, <2>3, ShownGrows
<1>7. QED
  BY <1>1, <1>2, <1>3, <1>4, <1>5, <1>6 DEF MacroNext

\* Nothing has been pulled at first.
LEMMA MacroStarts == MacroInit => MacroInv
<1> SUFFICES ASSUME MacroInit PROVE MacroInv
  OBVIOUS
<1>1. /\ day = 1 /\ alfred \in [Cells -> Values] /\ shown = Seen(alfred, 1)
      /\ pulls = 0 /\ vintage = <<>> /\ macro = {} /\ merged = TRUE
  BY DEF MacroInit
<1>2. DOMAIN vintage = {} /\ Rows = {} /\ Firsts = {}
  BY <1>1 DEF Rows, Firsts
<1>3. shown \subseteq Cells \X (1..MaxVintage) \X Readings
  <2>1. 1 \in 1..MaxVintage
    BY MacroAssumption
  <2>2. \A c \in Cells : alfred[c] # Blank => <<c, 1, alfred[c]>> \in Cells \X (1..MaxVintage) \X Readings
    BY <1>1, <2>1 DEF Values
  <2>3. QED
    BY <1>1, <2>2 DEF Seen
<1>4. day \in 1..MaxVintage /\ pulls \in 0..MaxPulls
  BY <1>1, MacroAssumption
<1>5. MacroTypeOK
  BY <1>1, <1>2, <1>3, <1>4 DEF MacroTypeOK
<1>6. ShownInv
  BY <1>1, <1>2 DEF ShownInv, Seen
<1>7. StoredInv
  BY <1>1, <1>2 DEF StoredInv, OneRowPerRevision
<1>8. QED
  BY <1>5, <1>6, <1>7 DEF MacroInv

\* Silver answers point-in-time questions about the macro series
\* (merge_silver_macro.sql): for every set of series, dates and readings, every
\* order of revisions, pulls, failures and merges.
THEOREM MacroAnswersInTime == MacroSpec => []PointInTime
BY MacroStarts, MacroStep, MacroPointInTime, PTL DEF MacroSpec

\* ALFRED, the objects and Silver keep their types.
THEOREM MacroTypes == MacroSpec => []MacroTypeOK
<1>1. MacroInv => MacroTypeOK
  BY DEF MacroInv
<1>2. QED
  BY <1>1, MacroStarts, MacroStep, PTL DEF MacroSpec

-----------------------------------------------------------------------------
(***************************************************************************)
(* One archive file.                                                       *)
(***************************************************************************)
\* A line that a file of the tier x may hold if its unit is u.
Fit(x, l, u) ==
  /\ l.cols = Columns[x]
  /\ \A k \in DOMAIN l.unit : l.unit[k] = u
  /\ x = "HOT" => l.flag \in {"True", "False"}

\* The row r says what the line l means.
Says(x, l, r) ==
  /\ r.at = l.at
  /\ r.side = IF x = "HOT" THEN [True |-> "SELL", False |-> "BUY"][l.flag] ELSE "none"

\* The first n lines of the edition e have been parsed into o, with the unit u.
Parsed(x, e, n, u, o) ==
  /\ n \in 0..Len(e.lines) /\ u \in {"none", "ms", "us"}
  /\ o \in Seq(Row) /\ Len(o) = Place(e, n)
  /\ u # "none" => \E i \in Kept(e) : i <= n
  /\ \A i \in Kept(e) : i <= n =>
       u # "none" /\ Fit(x, e.lines[i], u) /\ Says(x, e.lines[i], o[Place(e, i)])

Csv(x, r) == IF x = "DEEP" THEN KlineCsv(r) ELSE TradeCsv(r)

\* What is staged is what parsing the whole edition gave.
Whole(x, e, rows) ==
  /\ e.members = 1
  /\ \E u \in {"none", "ms", "us"} : \E o \in Seq(Row) :
       Parsed(x, e, Len(e.lines), u, o) /\ rows = [i \in DOMAIN o |-> Csv(x, o[i])]

\* How far an invocation has come.
StageInv ==
  /\ pc \in {"start", "blob", "verify", "unzip", "parse", "return", "ended"}
  /\ sum \in 0..Len(editions) /\ blob \in 0..Len(editions)
  /\ pc = "start" => sum = 0 /\ blob = 0
  /\ pc = "blob" => sum # 0 /\ blob = 0
  /\ pc \in {"verify", "unzip", "parse", "return"} => blob # 0
  /\ blob # 0 => sum # 0
  /\ pc \in {"unzip", "parse", "return"} => Verified
  /\ pc \in {"parse", "return"} =>
       SoleMember(editions[blob]) /\ Parsed(tier, editions[blob], pos, fileUnit, out)
  /\ pc = "return" => AllParsed /\ staged = Body

\* A file that can be trusted, of the tier x.
Trusted(x, e) ==
  /\ e.named /\ e.members = 1
  /\ \E u \in {"ms", "us"} : \A i \in Kept(e) : Fit(x, e.lines[i], u)

\* What a finished invocation says, and what it leaves when it says DONE.
EndInv ==
  pc = "ended" =>
    /\ outcome.status =
         IF blob = 0 THEN "SKIPPED_NO_DATA"
         ELSE IF Trusted(tier, editions[blob]) /\ editions[sum] = editions[blob] THEN "DONE"
         ELSE "FAILED"
    /\ outcome.status = "DONE" =>
         \E s \in staged : s.edition = blob /\ Len(s.rows) = outcome.rows

ArchiveInv ==
  /\ tier \in Tiers /\ editions \in Seq(Edition(tier)) /\ Len(editions) > 0
  /\ StageInv
  /\ \A s \in staged : s.edition \in DOMAIN editions /\ Whole(tier, editions[s.edition], s.rows)
  /\ EndInv
-----------------------------------------------------------------------------
\* A factor can be cancelled from a comparison.
LEMMA Cancel ==
  ASSUME NEW a \in Int, NEW b \in Int, NEW k \in Nat \ {0}
  PROVE  (a * k <= b * k <=> a <= b) /\ (a * k < b * k <=> a < b)
<1>1. a <= b => a * k <= b * k
  <2>1. SUFFICES ASSUME a <= b PROVE a * k <= b * k
    OBVIOUS
  <2>2. (b - a) * k >= 0
    BY <2>1
  <2>3. (b - a) * k = b * k - a * k
    OBVIOUS
  <2>4. a * k \in Int /\ b * k \in Int
    OBVIOUS
  <2> QED
    BY <2>2, <2>3, <2>4
<1>2. b < a => b * k < a * k
  <2>1. SUFFICES ASSUME b < a PROVE b * k < a * k
    OBVIOUS
  <2>2. (a - b - 1) * k >= 0
    BY <2>1
  <2>3. (a - b - 1) * k = a * k - b * k - k
    OBVIOUS
  <2>4. a * k \in Int /\ b * k \in Int
    OBVIOUS
  <2> QED
    BY <2>2, <2>3, <2>4
<1>3. a < b => a * k < b * k
  <2>1. SUFFICES ASSUME a < b PROVE a * k < b * k
    OBVIOUS
  <2>2. (b - a - 1) * k >= 0
    BY <2>1
  <2>3. (b - a - 1) * k = b * k - a * k - k
    OBVIOUS
  <2>4. a * k \in Int /\ b * k \in Int
    OBVIOUS
  <2> QED
    BY <2>2, <2>3, <2>4
<1>4. b <= a => b * k <= a * k
  <2>1. SUFFICES ASSUME b <= a PROVE b * k <= a * k
    OBVIOUS
  <2>2. (a - b) * k >= 0
    BY <2>1
  <2>3. (a - b) * k = a * k - b * k
    OBVIOUS
  <2>4. a * k \in Int /\ b * k \in Int
    OBVIOUS
  <2> QED
    BY <2>2, <2>3, <2>4
<1>5. a * k \in Int /\ b * k \in Int
  OBVIOUS
<1> QED
  BY <1>1, <1>2, <1>3, <1>4, <1>5

\* The four bounds of the two ranges, in their order.
LEMMA Ranges ==
  LET K == Kilo * Kilo IN
  /\ Kilo \in Nat \ {0} /\ K \in Nat \ {0}
  /\ Floor * Kilo \in Nat /\ Ceil * Kilo \in Nat /\ Floor * K \in Nat /\ Ceil * K \in Nat
  /\ Floor \in Nat /\ Ceil \in Nat /\ Ceil <= Floor * Kilo /\ Ceil * Kilo <= Floor * K
  /\ Floor * Kilo * Kilo = Floor * K /\ Ceil * Kilo * Kilo = Ceil * K
  /\ Instants \subseteq Floor * K .. Ceil * K - 1
<1>1. /\ Kilo \in Nat \ {0} /\ Floor \in Nat /\ Ceil \in Nat /\ Ceil <= Floor * Kilo
      /\ Instants \subseteq Floor * Kilo * Kilo .. Ceil * Kilo * Kilo - 1
  BY EpochAssumption
<1>2. Kilo * Kilo \in Nat \ {0} /\ Floor * Kilo \in Nat /\ Ceil * Kilo \in Nat
  BY <1>1
<1>3. Floor * Kilo * Kilo = Floor * (Kilo * Kilo) /\ Ceil * Kilo * Kilo = Ceil * (Kilo * Kilo)
  BY <1>1
<1>4. Ceil * Kilo <= (Floor * Kilo) * Kilo
  BY <1>1, <1>2, Cancel
<1>5. Floor * (Kilo * Kilo) \in Nat /\ Ceil * (Kilo * Kilo) \in Nat
  BY <1>1, <1>2
<1> QED
  BY <1>1, <1>2, <1>3, <1>4, <1>5

\* The number a file holds for an instant is taken for milliseconds when it was
\* written in those, for microseconds when it was written in those, and for
\* nothing in any other unit (unit_of: disjoint ranges), and stands for it again.
LEMMA UnitsTold ==
  ASSUME NEW t \in Instants, NEW u \in Units, u = "ms" => t % Kilo = 0
  PROVE  /\ Written(t, u) \in Nat
         /\ UnitOf(Written(t, u)) = IF u \in {"ms", "us"} THEN u ELSE "none"
         /\ u \in {"ms", "us"} => ToMicros(Written(t, u), u) = t
<1> DEFINE K == Kilo * Kilo
<1>1. /\ Kilo \in Nat \ {0} /\ K \in Nat \ {0}
      /\ Floor * Kilo \in Nat /\ Ceil * Kilo \in Nat /\ Floor * K \in Nat /\ Ceil * K \in Nat
      /\ Floor \in Nat /\ Ceil \in Nat /\ Ceil <= Floor * Kilo /\ Ceil * Kilo <= Floor * K
      /\ Floor * Kilo * Kilo = Floor * K /\ Ceil * Kilo * Kilo = Ceil * K
  BY Ranges
<1>2. t \in Nat /\ Floor * K <= t /\ t < Ceil * K
  <2>1. t \in Floor * K .. Ceil * K - 1
    BY Ranges
  <2> HIDE DEF K
  <2> QED
    BY <1>1, <2>1
<1> DEFINE fm == Floor * Kilo
           cm == Ceil * Kilo
           fu == Floor * K
           cu == Ceil * K
<1>3. \A v : UnitOf(v) = IF fm <= v /\ v < cm THEN "ms" ELSE IF fu <= v /\ v < cu THEN "us" ELSE "none"
  BY <1>1 DEF UnitOf
<1>4. CASE u = "s"
  <2> DEFINE q == t \div K
             r == t % K
  <2>1. q \in Nat /\ r \in 0..(K - 1) /\ t = K * q + r
    BY <1>1, <1>2, DivMod
  <2>2. Written(t, u) = q
    BY <1>4 DEF Written
  <2> HIDE DEF q, r, K
  <2>3. q * K <= t
    <3>1. q * K = K * q /\ K * q \in Int
      BY <1>1, <2>1
    <3> QED
      BY <1>1, <2>1, <3>1
  <2>4. q * K < Ceil * K
    <3>1. q * K \in Int
      BY <1>1, <2>1
    <3> QED
      BY <1>1, <1>2, <2>3, <3>1
  <2>5. q < Ceil
    BY <1>1, <2>1, <2>4, Cancel
  <2>6. q < fm /\ q < fu /\ fm \in Nat /\ fu \in Nat
    BY <1>1, <2>1, <2>5
  <2> HIDE DEF fm, fu, cm, cu
  <2>7. ~(fm <= q) /\ ~(fu <= q)
    BY <2>1, <2>6
  <2>8. UnitOf(q) = "none"
    BY <1>3, <2>7
  <2> QED
    BY <1>4, <2>1, <2>2, <2>8
<1>5. CASE u = "ms"
  <2> DEFINE q == t \div Kilo
             r == t % Kilo
  <2>1. q \in Nat /\ r \in 0..(Kilo - 1) /\ t = Kilo * q + r /\ r = 0
    BY <1>1, <1>2, <1>5, DivMod
  <2>2. Written(t, u) = q
    BY <1>5 DEF Written
  <2> HIDE DEF q, r
  <2>3. t = q * Kilo
    <3>1. Kilo * q = q * Kilo /\ q * Kilo \in Int
      BY <1>1, <2>1
    <3> QED
      BY <2>1, <3>1
  <2>4. (Floor * Kilo) * Kilo <= q * Kilo /\ q * Kilo < (Ceil * Kilo) * Kilo
    BY <1>1, <1>2, <2>3
  <2>5. fm <= q /\ q < cm
    BY <1>1, <2>1, <2>4, Cancel
  <2> HIDE DEF fm, fu, cm, cu
  <2>6. UnitOf(q) = "ms"
    BY <1>3, <2>5
  <2> QED
    BY <1>5, <2>1, <2>2, <2>3, <2>6 DEF ToMicros
<1>6. CASE u = "us"
  <2>1. Written(t, u) = t
    BY <1>6 DEF Written
  <2> HIDE DEF K
  <2>2. ~(t < cm) /\ fu <= t /\ t < cu
    BY <1>1, <1>2
  <2> HIDE DEF fm, fu, cm, cu
  <2>3. UnitOf(t) = "us"
    BY <1>3, <2>2
  <2> QED
    BY <1>2, <1>6, <2>1, <2>3 DEF ToMicros
<1>7. CASE u = "ns"
  <2>1. Written(t, u) = t * Kilo
    BY <1>7 DEF Written
  <2> HIDE DEF K
  <2>2. cu <= t * Kilo
    <3>1. (Ceil * Kilo) * Kilo <= (Floor * K) * Kilo
      BY <1>1, Cancel
    <3>2. (Floor * K) * Kilo <= t * Kilo
      BY <1>1, <1>2, Cancel
    <3>3. t * Kilo \in Nat /\ (Floor * K) * Kilo \in Nat
      BY <1>1, <1>2
    <3> QED
      BY <1>1, <3>1, <3>2, <3>3
  <2>3. cm <= t * Kilo /\ t * Kilo \in Nat
    BY <1>1, <1>2, <2>2
  <2>4. t * Kilo \in Nat
    BY <1>1, <1>2
  <2> HIDE DEF fm, fu
  <2>5. ~(t * Kilo < cm) /\ ~(t * Kilo < cu)
    BY <1>1, <2>2, <2>3, <2>4
  <2> HIDE DEF cm, cu
  <2>6. UnitOf(t * Kilo) = "none"
    BY <1>3, <2>5
  <2> QED
    BY <1>7, <2>1, <2>4, <2>6
<1> QED
  BY <1>4, <1>5, <1>6, <1>7 DEF Units

-----------------------------------------------------------------------------
\* A sequence is a function on the numbers up to its length.
LEMMA SeqIs ==
  ASSUME NEW S, NEW s \in Seq(S)
  PROVE  /\ DOMAIN s = 1..Len(s) /\ Len(s) \in Nat /\ s = [i \in DOMAIN s |-> s[i]]
         /\ \A i \in DOMAIN s : s[i] \in S
<1>1. s \in [1..Len(s) -> S] /\ Len(s) \in Nat
  BY LenProperties
<1> QED
  BY <1>1

\* The tiers' lines: as many times as their tier has, each with its unit.
LEMMA LinesAre ==
  ASSUME NEW x \in Tiers, NEW l \in Lines[x]
  PROVE  /\ l.cols \in Nat /\ l.at \in Seq(Instants) /\ l.unit \in Seq(Units)
         /\ l.flag \in {"True", "False", "true", "none"}
         /\ DOMAIN l.at = 1..Len(l.at) /\ Len(l.at) \in Nat /\ DOMAIN l.unit = DOMAIN l.at
         /\ \A i \in DOMAIN l.at : l.at[i] \in Instants /\ l.unit[i] \in Units
         /\ \A i \in DOMAIN l.at : l.unit[i] = "ms" => l.at[i] % Kilo = 0
         /\ l.cols = Columns[x] => 1 \in DOMAIN l.at /\ Len(l.at) = (IF x = "HOT" THEN 1 ELSE 2)
<1>1. /\ l \in LineType /\ Len(l.unit) = Len(l.at)
      /\ l.cols = Columns[x] => Len(l.at) = TimeColumns[x]
      /\ \A i \in DOMAIN l.at : l.unit[i] = "ms" => l.at[i] % Kilo = 0
  BY EpochAssumption
<1>2. /\ l.cols \in Nat /\ l.at \in Seq(Instants) /\ l.unit \in Seq(Units)
      /\ l.flag \in {"True", "False", "true", "none"}
  BY <1>1 DEF LineType
<1>3. /\ DOMAIN l.at = 1..Len(l.at) /\ Len(l.at) \in Nat /\ DOMAIN l.unit = DOMAIN l.at
      /\ \A i \in DOMAIN l.at : l.at[i] \in Instants /\ l.unit[i] \in Units
  <2>1. /\ DOMAIN l.at = 1..Len(l.at) /\ Len(l.at) \in Nat
        /\ \A i \in DOMAIN l.at : l.at[i] \in Instants
    BY <1>2, SeqIs
  <2>2. DOMAIN l.unit = 1..Len(l.unit) /\ \A i \in DOMAIN l.unit : l.unit[i] \in Units
    BY <1>2, SeqIs
  <2> QED
    BY <1>1, <2>1, <2>2
<1>4. TimeColumns[x] = IF x = "HOT" THEN 1 ELSE 2
  BY DEF TimeColumns, Tiers
<1>5. l.cols = Columns[x] => 1 \in DOMAIN l.at /\ Len(l.at) = (IF x = "HOT" THEN 1 ELSE 2)
  BY <1>1, <1>3, <1>4
<1> QED
  BY <1>1, <1>2, <1>3, <1>5

\* A line fits a unit exactly when the parser, whose unit so far is none or the same,
\* takes the line (_fields, UnitNormaliser, _side_from_buyer_maker); it then knows
\* the unit and says what the line means.
LEMMA LineFits ==
  ASSUME tier \in Tiers, NEW l \in Lines[tier], NEW u \in {"ms", "us"}, fileUnit \in {"none", u},
         Fit(tier, l, u)
  PROVE  Parses(l) /\ UnitAfter(l, 1) = u /\ Says(tier, l, RowOf(l)) /\ RowOf(l) \in Row
<1>1. /\ l.at \in Seq(Instants) /\ 1 \in DOMAIN l.at
      /\ DOMAIN l.at = 1..Len(l.at) /\ Len(l.at) \in Nat
      /\ \A i \in DOMAIN l.at : l.at[i] \in Instants /\ l.unit[i] = u /\ u \in Units
      /\ \A i \in DOMAIN l.at : u = "ms" => l.at[i] % Kilo = 0
      /\ l.cols = Columns[tier] /\ (tier = "HOT" => l.flag \in {"True", "False"})
  BY LinesAre DEF Fit
<1>2. \A i \in DOMAIN l.at :
        /\ Times(l)[i] \in Nat /\ UnitOf(Times(l)[i]) = u
        /\ ToMicros(Times(l)[i], u) = l.at[i]
  <2> TAKE i \in DOMAIN l.at
  <2>1. Times(l)[i] = Written(l.at[i], u)
    BY <1>1 DEF Times
  <2>2. l.at[i] \in Instants /\ u \in Units /\ (u = "ms" => l.at[i] % Kilo = 0)
    BY <1>1
  <2> DEFINE t == l.at[i]
  <2> HIDE DEF t
  <2>3. /\ Written(t, u) \in Nat /\ UnitOf(Written(t, u)) = u
        /\ ToMicros(Written(t, u), u) = t
    <3>1. t \in Instants /\ (u = "ms" => t % Kilo = 0)
      BY <2>2 DEF t
    <3> QED
      BY <2>2, <3>1, UnitsTold
  <2> QED
    BY <2>1, <2>3 DEF t
<1>3. \A i \in DOMAIN l.at : UnitAfter(l, i - 1) \in {"none", u} /\ UnitAfter(l, 1) = u
  <2>1. \A i : UnitAfter(l, i) \in {fileUnit, UnitOf(Times(l)[1])}
    BY DEF UnitAfter
  <2>2. UnitAfter(l, 1) = IF fileUnit # "none" THEN fileUnit ELSE UnitOf(Times(l)[1])
    <3>1. 1 # 0
      OBVIOUS
    <3> QED
      BY <3>1, Zenon DEF UnitAfter
  <2>3. UnitOf(Times(l)[1]) = u
    BY <1>1, <1>2
  <2> QED
    BY <2>1, <2>2, <2>3
<1>4. \A i \in DOMAIN l.at : Agrees(UnitAfter(l, i - 1), Times(l)[i])
  BY <1>2, <1>3 DEF Agrees
<1>5. tier = "HOT" => Side(l.flag) = [True |-> "SELL", False |-> "BUY"][l.flag]
                      /\ Side(l.flag) \in {"SELL", "BUY"}
  <2>1. CASE l.flag = "True"
    BY <2>1 DEF Side
  <2>2. CASE l.flag = "False"
    BY <2>2 DEF Side
  <2> QED
    BY <1>1, <2>1, <2>2
<1>6. RowOf(l).at = l.at
  <2>1. RowOf(l).at = [i \in DOMAIN l.at |-> ToMicros(Times(l)[i], UnitOf(Times(l)[i]))]
    BY DEF RowOf
  <2>2. RowOf(l).at = [i \in DOMAIN l.at |-> l.at[i]]
    BY <1>2, <2>1
  <2>3. l.at = [i \in DOMAIN l.at |-> l.at[i]]
    BY <1>1, SeqIs
  <2> QED
    BY <2>2, <2>3
<1>7. l.at \in Seq(Nat)
  <2>1. Instants \subseteq Nat
    <3>1. Instants \subseteq Floor * (Kilo * Kilo) .. Ceil * (Kilo * Kilo) - 1
      BY Ranges
    <3>2. Floor * (Kilo * Kilo) \in Nat /\ Ceil * (Kilo * Kilo) \in Nat
      BY Ranges
    <3> DEFINE a == Floor * (Kilo * Kilo)
               b == Ceil * (Kilo * Kilo)
    <3> HIDE DEF a, b
    <3>3. Instants \subseteq a .. b - 1 /\ a \in Nat /\ b \in Nat
      BY <3>1, <3>2 DEF a, b
    <3> QED
      BY <3>3
  <2>2. l.at \in [1..Len(l.at) -> Instants] /\ Len(l.at) \in Nat
    BY <1>1, LenProperties
  <2>3. l.at \in [1..Len(l.at) -> Nat]
    BY <2>1, <2>2
  <2> QED
    BY <2>2, <2>3
<1>8. RowOf(l).side = IF tier = "HOT" THEN Side(l.flag) ELSE "none"
  BY DEF RowOf
<1>9. RowOf(l) \in Row
  <2> DEFINE y == IF tier = "HOT" THEN Side(l.flag) ELSE "none"
             a == l.at
  <2>1. RowOf(l) = [at |-> RowOf(l).at, side |-> y]
    BY DEF RowOf
  <2>2. y \in {"BUY", "SELL", "none"}
    BY <1>5
  <2>3. RowOf(l) = [at |-> a, side |-> y] /\ a \in Seq(Nat)
    BY <1>6, <1>7, <2>1
  <2> HIDE DEF y, a
  <2> QED
    BY <2>2, <2>3 DEF Row
<1>10. Parses(l)
  BY <1>1, <1>4, <1>5 DEF Parses
<1>11. Says(tier, l, RowOf(l))
  BY <1>5, <1>6, <1>8 DEF Says
<1> QED
  BY <1>1, <1>3, <1>9, <1>10, <1>11

\* The converse: what the parser takes fits the unit it then has.
LEMMA ParsedFits ==
  ASSUME tier \in Tiers, NEW l \in Lines[tier], fileUnit \in {"none", "ms", "us"}, Parses(l)
  PROVE  \E u \in {"ms", "us"} : fileUnit \in {"none", u} /\ Fit(tier, l, u)
<1>1. /\ l.cols = Columns[tier] /\ (tier = "HOT" => Side(l.flag) # "none")
      /\ \A i \in DOMAIN l.at : Agrees(UnitAfter(l, i - 1), Times(l)[i])
  BY DEF Parses
<1>2. /\ 1 \in DOMAIN l.at /\ DOMAIN l.unit = DOMAIN l.at
      /\ DOMAIN l.at = 1..Len(l.at) /\ Len(l.at) \in Nat
      /\ \A i \in DOMAIN l.at : l.at[i] \in Instants /\ l.unit[i] \in Units
      /\ \A i \in DOMAIN l.at : l.unit[i] = "ms" => l.at[i] % Kilo = 0
  BY <1>1, LinesAre
<1>3. \A i \in DOMAIN l.at :
        UnitOf(Times(l)[i]) = IF l.unit[i] \in {"ms", "us"} THEN l.unit[i] ELSE "none"
  <2> TAKE i \in DOMAIN l.at
  <2> DEFINE t == l.at[i]
             w == l.unit[i]
  <2>1. Times(l)[i] = Written(t, w)
    BY <1>2 DEF Times
  <2>2. t \in Instants /\ w \in Units /\ (w = "ms" => t % Kilo = 0)
    BY <1>2
  <2> HIDE DEF t, w
  <2>3. UnitOf(Written(t, w)) = IF w \in {"ms", "us"} THEN w ELSE "none"
    BY <2>2, UnitsTold
  <2> QED
    BY <2>1, <2>3 DEF w
<1> DEFINE u == l.unit[1]
<1>4. u \in {"ms", "us"} /\ UnitOf(Times(l)[1]) = u /\ fileUnit \in {"none", u}
  <2>1. UnitAfter(l, 1 - 1) = fileUnit
    <3>1. 1 - 1 = 0
      OBVIOUS
    <3>2. UnitAfter(l, 0) = fileUnit
      BY Zenon DEF UnitAfter
    <3> QED
      BY <3>1, <3>2
  <2>2. UnitOf(Times(l)[1]) # "none" /\ fileUnit \in {"none", UnitOf(Times(l)[1])}
    BY <1>1, <1>2, <2>1 DEF Agrees
  <2> QED
    BY <1>2, <1>3, <2>2
<1>5. \A i \in DOMAIN l.at : l.unit[i] = u
  <2> TAKE i \in DOMAIN l.at
  <2>1. i # 1 => UnitAfter(l, i - 1) = u
    <3>1. i # 1 => i - 1 # 0
      BY <1>2
    <3>2. i - 1 # 0 => UnitAfter(l, i - 1) = IF fileUnit # "none" THEN fileUnit ELSE UnitOf(Times(l)[1])
      BY Zenon DEF UnitAfter
    <3> QED
      BY <1>4, <3>1, <3>2
  <2>2. UnitOf(Times(l)[i]) # "none" /\ UnitAfter(l, i - 1) \in {"none", UnitOf(Times(l)[i])}
    BY <1>1 DEF Agrees
  <2> QED
    BY <1>2, <1>3, <1>4, <2>1, <2>2
<1>6. tier = "HOT" => l.flag \in {"True", "False"}
  BY <1>1 DEF Side
<1> QED
  BY <1>1, <1>2, <1>4, <1>5, <1>6 DEF Fit

-----------------------------------------------------------------------------
\* The rows of an edition among its first n lines.
Before(e, n) == {j \in Kept(e) : j <= n}

\* The rows in their order: one more line adds a place or none, and a place is one
\* of those counted so far.
LEMMA Places ==
  ASSUME NEW e, NEW n \in Nat, Kept(e) \subseteq Nat \ {0}
  PROVE  /\ IsFiniteSet(Before(e, n)) /\ Place(e, n) \in Nat
         /\ Place(e, 0) = 0
         /\ n + 1 \in Kept(e) => Place(e, n + 1) = Place(e, n) + 1
         /\ n + 1 \notin Kept(e) => Place(e, n + 1) = Place(e, n)
         /\ \A i \in Kept(e) : i <= n => Place(e, i) \in 1..Place(e, n)
<1>1. \A m \in Nat : IsFiniteSet(Before(e, m)) /\ Cardinality(Before(e, m)) \in Nat
  <2> TAKE m \in Nat
  <2>1. IsFiniteSet(1..m)
    BY FS_Interval
  <2>2. Before(e, m) \subseteq 1..m
    BY DEF Before
  <2> QED
    BY <2>1, <2>2, FS_Subset, FS_CardinalityType
<1>2. \A m : Place(e, m) = Cardinality(Before(e, m))
  BY DEF Place, Before
<1>3. Place(e, 0) = 0
  <2>1. Before(e, 0) = {}
    BY DEF Before
  <2> QED
    BY <1>2, <2>1, FS_EmptySet
<1>4. ASSUME n + 1 \in Kept(e) PROVE Place(e, n + 1) = Place(e, n) + 1
  <2>1. Before(e, n + 1) = Before(e, n) \cup {n + 1} /\ n + 1 \notin Before(e, n)
    BY <1>4 DEF Before
  <2>2. Cardinality(Before(e, n) \cup {n + 1}) = Cardinality(Before(e, n)) + 1
    BY <1>1, <2>1, FS_AddElement
  <2> QED
    BY <1>2, <2>1, <2>2
<1>5. ASSUME n + 1 \notin Kept(e) PROVE Place(e, n + 1) = Place(e, n)
  <2>1. Before(e, n + 1) = Before(e, n)
    BY <1>5 DEF Before
  <2> QED
    BY <1>2, <2>1
<1>6. ASSUME NEW i \in Kept(e), i <= n PROVE Place(e, i) \in 1..Place(e, n)
  <2>1. i \in Nat /\ i \in Before(e, i) /\ Before(e, i) \subseteq Before(e, n)
    BY <1>6 DEF Before
  <2>2. Cardinality(Before(e, i)) <= Cardinality(Before(e, n))
    BY <1>1, <2>1, FS_Subset
  <2>3. Cardinality(Before(e, i)) # 0
    BY <1>1, <2>1, FS_EmptySet
  <2> QED
    BY <1>1, <1>2, <2>1, <2>2, <2>3
<1> QED
  BY <1>1, <1>2, <1>3, <1>4, <1>5, <1>6

\* An edition's lines are its tier's.
LEMMA EditionIs ==
  ASSUME NEW x \in Tiers, NEW e \in Edition(x)
  PROVE  /\ DOMAIN e.lines = 1..Len(e.lines) /\ Len(e.lines) \in Nat
         /\ \A i \in DOMAIN e.lines : e.lines[i] \in Lines[x]
         /\ Kept(e) \subseteq DOMAIN e.lines /\ Kept(e) \subseteq Nat \ {0}
         /\ Before(e, Len(e.lines)) = Kept(e)
<1>1. PICK n \in 0..MaxLines : e.lines \in [1..n -> Lines[x]]
  BY DEF Edition
<1>2. MaxLines \in Nat
  BY EpochAssumption
<1>3. e.lines \in Seq(Lines[x]) /\ Len(e.lines) = n
  BY <1>1, <1>2
<1>4. DOMAIN e.lines = 1..Len(e.lines) /\ Len(e.lines) \in Nat
  BY <1>1, <1>2, <1>3
<1>5. Kept(e) \subseteq DOMAIN e.lines
  BY DEF Kept
<1> QED
  BY <1>1, <1>3, <1>4, <1>5 DEF Before

\* One more line: a blank one adds nothing, a row that fits is appended.
LEMMA ParsedGrows ==
  ASSUME NEW x \in Tiers, NEW e \in Edition(x), NEW n, NEW u, NEW o, Parsed(x, e, n, u, o),
         n < Len(e.lines)
  PROVE  /\ n + 1 \notin Kept(e) => Parsed(x, e, n + 1, u, o)
         /\ \A w \in {"ms", "us"}, r \in Row :
              n + 1 \in Kept(e) /\ u \in {"none", w} /\ Fit(x, e.lines[n + 1], w)
                /\ Says(x, e.lines[n + 1], r)
                => Parsed(x, e, n + 1, w, Append(o, r))
<1>1. /\ n \in Nat /\ n + 1 \in 0..Len(e.lines) /\ Kept(e) \subseteq Nat \ {0}
      /\ Len(e.lines) \in Nat
  BY EditionIs DEF Parsed
<1>2. /\ Place(e, n) \in Nat
      /\ n + 1 \in Kept(e) => Place(e, n + 1) = Place(e, n) + 1
      /\ n + 1 \notin Kept(e) => Place(e, n + 1) = Place(e, n)
      /\ \A i \in Kept(e) : i <= n => Place(e, i) \in 1..Place(e, n)
  BY <1>1, Places
<1>3. /\ o \in Seq(Row) /\ Len(o) = Place(e, n) /\ u \in {"none", "ms", "us"}
      /\ u # "none" => \E i \in Kept(e) : i <= n
      /\ \A i \in Kept(e) : i <= n =>
           u # "none" /\ Fit(x, e.lines[i], u) /\ Says(x, e.lines[i], o[Place(e, i)])
  BY DEF Parsed
<1>4. ASSUME n + 1 \notin Kept(e) PROVE Parsed(x, e, n + 1, u, o)
  <2>1. \A i \in Kept(e) : i <= n + 1 <=> i <= n
    BY <1>1, <1>4
  <2> QED
    BY <1>1, <1>2, <1>3, <1>4, <2>1 DEF Parsed
<1>5. ASSUME NEW w \in {"ms", "us"}, NEW r \in Row,
             n + 1 \in Kept(e), u \in {"none", w}, Fit(x, e.lines[n + 1], w),
             Says(x, e.lines[n + 1], r)
      PROVE  Parsed(x, e, n + 1, w, Append(o, r))
  <2>1. /\ Append(o, r) \in Seq(Row) /\ Len(Append(o, r)) = Len(o) + 1
        /\ Append(o, r)[Len(o) + 1] = r /\ \A k \in 1..Len(o) : Append(o, r)[k] = o[k]
    BY <1>3, AppendProperties
  <2>2. \A i \in Kept(e) : i <= n + 1 => i <= n \/ i = n + 1
    BY <1>1
  <2>3. ASSUME NEW i \in Kept(e), i <= n
        PROVE  Fit(x, e.lines[i], w) /\ Says(x, e.lines[i], Append(o, r)[Place(e, i)])
    <3>1. u = w /\ Fit(x, e.lines[i], w) /\ Says(x, e.lines[i], o[Place(e, i)])
      BY <1>3, <1>5, <2>3
    <3>2. Place(e, i) \in 1..Len(o)
      BY <1>2, <1>3, <2>3
    <3> QED
      BY <2>1, <3>1, <3>2
  <2>4. Fit(x, e.lines[n + 1], w) /\ Says(x, e.lines[n + 1], Append(o, r)[Place(e, n + 1)])
    BY <1>2, <1>3, <1>5, <2>1
  <2>5. \A i \in Kept(e) : i <= n + 1 =>
          Fit(x, e.lines[i], w) /\ Says(x, e.lines[i], Append(o, r)[Place(e, i)])
    BY <2>2, <2>3, <2>4
  <2>6. Len(Append(o, r)) = Place(e, n + 1) /\ n + 1 <= n + 1
    BY <1>1, <1>2, <1>3, <1>5, <2>1
  <2>7. w # "none" /\ w \in {"none", "ms", "us"}
    OBVIOUS
  <2> QED
    BY <1>1, <1>5, <2>1, <2>5, <2>6, <2>7 DEF Parsed
<1> QED
  BY <1>4, <1>5

-----------------------------------------------------------------------------
\* A row read back from the staging table is the one that was parsed: the header
\* is missing, so this is about the places of the columns.
LEMMA ReadBack ==
  ASSUME tier \in Tiers, NEW l \in Lines[tier], NEW u, Fit(tier, l, u),
         NEW r \in Row, Says(tier, l, r)
  PROVE  LET row == TableRow(Csv(tier, r))
         IN /\ row.at = l.at
            /\ tier = "HOT" => row.side = [True |-> "SELL", False |-> "BUY"][l.flag]
<1>1. /\ DOMAIN l.at = 1..Len(l.at) /\ Len(l.at) = (IF tier = "HOT" THEN 1 ELSE 2)
      /\ l.at = [i \in DOMAIN l.at |-> l.at[i]]
  BY LinesAre, SeqIs DEF Fit
<1>2. r.at = l.at /\ (tier = "HOT" => r.side = [True |-> "SELL", False |-> "BUY"][l.flag])
  BY DEF Says
<1>3. CASE tier = "HOT"
  <2>1. TableRow(Csv(tier, r)) = [at |-> <<r.at[1]>>, side |-> r.side]
    BY <1>3 DEF TableRow, Csv, TradeTable, TradeCsv
  <2>2. l.at = <<l.at[1]>>
    BY <1>1, <1>3
  <2> QED
    BY <1>2, <1>3, <2>1, <2>2
<1>4. CASE tier = "DEEP"
  <2>1. TableRow(Csv(tier, r)) = [at |-> <<r.at[1], r.at[2]>>, side |-> "none"]
    BY <1>4 DEF TableRow, Csv, KlineTable, KlineCsv
  <2>2. l.at = <<l.at[1], l.at[2]>>
    BY <1>1, <1>4
  <2> QED
    BY <1>2, <1>4, <2>1, <2>2
<1> QED
  BY <1>3, <1>4 DEF Tiers

\* What is staged is the whole file, of one unit.
LEMMA WholeMeans ==
  ASSUME tier \in Tiers, NEW e \in Edition(tier), NEW rows, Whole(tier, e, rows)
  PROVE  /\ e.members = 1 /\ Len(rows) = Cardinality(Kept(e))
         /\ \A i \in Kept(e) :
              LET row == TableRow(rows[Place(e, i)])
              IN /\ row.at = e.lines[i].at
                 /\ tier = "HOT" => row.side = [True |-> "SELL", False |-> "BUY"][e.lines[i].flag]
         /\ \A i, j \in Kept(e) : \A k \in DOMAIN e.lines[i].unit, n \in DOMAIN e.lines[j].unit :
              e.lines[i].unit[k] = e.lines[j].unit[n]
<1>1. PICK u \in {"none", "ms", "us"}, o \in Seq(Row) :
        Parsed(tier, e, Len(e.lines), u, o) /\ rows = [i \in DOMAIN o |-> Csv(tier, o[i])]
  BY DEF Whole
<1>2. /\ Len(e.lines) \in Nat /\ Kept(e) \subseteq Nat \ {0} /\ Before(e, Len(e.lines)) = Kept(e)
      /\ Kept(e) \subseteq 1..Len(e.lines) /\ \A i \in Kept(e) : e.lines[i] \in Lines[tier]
  BY EditionIs
<1>3. /\ Place(e, Len(e.lines)) = Cardinality(Kept(e)) /\ Place(e, Len(e.lines)) \in Nat
      /\ \A i \in Kept(e) : Place(e, i) \in 1..Place(e, Len(e.lines))
  BY <1>2, Places DEF Place, Before
<1>4. Len(o) = Place(e, Len(e.lines)) /\ DOMAIN o = 1..Len(o) /\ \A i \in DOMAIN o : o[i] \in Row
  BY <1>1, SeqIs DEF Parsed
<1>5. Len(rows) = Len(o)
  BY <1>1, <1>3, <1>4
<1>6. \A i \in Kept(e) : Fit(tier, e.lines[i], u) /\ Says(tier, e.lines[i], o[Place(e, i)])
  BY <1>1, <1>2 DEF Parsed
<1>7. ASSUME NEW i \in Kept(e)
      PROVE  LET row == TableRow(rows[Place(e, i)])
             IN /\ row.at = e.lines[i].at
                /\ tier = "HOT" => row.side = [True |-> "SELL", False |-> "BUY"][e.lines[i].flag]
  <2>1. Place(e, i) \in DOMAIN o /\ o[Place(e, i)] \in Row /\ e.lines[i] \in Lines[tier]
    BY <1>2, <1>3, <1>4
  <2>2. rows[Place(e, i)] = Csv(tier, o[Place(e, i)])
    BY <1>1, <2>1
  <2> DEFINE l == e.lines[i]
             r == o[Place(e, i)]
  <2>3. l \in Lines[tier] /\ r \in Row /\ Fit(tier, l, u) /\ Says(tier, l, r)
    BY <1>6, <2>1
  <2> HIDE DEF l, r
  <2>4. LET row == TableRow(Csv(tier, r))
        IN /\ row.at = l.at
           /\ tier = "HOT" => row.side = [True |-> "SELL", False |-> "BUY"][l.flag]
    BY <2>3, ReadBack
  <2> QED
    BY <2>2, <2>4 DEF l, r
<1>8. \A i, j \in Kept(e) : \A k \in DOMAIN e.lines[i].unit, n \in DOMAIN e.lines[j].unit :
        e.lines[i].unit[k] = e.lines[j].unit[n]
  BY <1>6 DEF Fit
<1>9. e.members = 1
  BY DEF Whole
<1> QED
  BY <1>3, <1>4, <1>5, <1>7, <1>8, <1>9

\* A file parsed to its end can be trusted; one whose next line raises cannot.
LEMMA VerdictOf ==
  ASSUME tier \in Tiers, NEW e \in Edition(tier), NEW n, NEW o,
         Parsed(tier, e, n, fileUnit, o), e.named, e.members = 1
  PROVE  /\ n = Len(e.lines) => Trusted(tier, e)
         /\ n < Len(e.lines) /\ n + 1 \in Kept(e) /\ ~Parses(e.lines[n + 1]) => ~Trusted(tier, e)
<1>1. /\ Len(e.lines) \in Nat /\ Kept(e) \subseteq 1..Len(e.lines) /\ n \in 0..Len(e.lines)
      /\ \A i \in Kept(e) : e.lines[i] \in Lines[tier]
  BY EditionIs DEF Parsed
<1>2. /\ fileUnit \in {"none", "ms", "us"}
      /\ fileUnit # "none" => \E i \in Kept(e) : i <= n
      /\ \A i \in Kept(e) : i <= n => fileUnit # "none" /\ Fit(tier, e.lines[i], fileUnit)
  BY DEF Parsed
<1>3. ASSUME n = Len(e.lines) PROVE Trusted(tier, e)
  <2>1. \A i \in Kept(e) : i <= n
    BY <1>1, <1>3
  <2>2. CASE fileUnit = "none"
    BY <1>2, <2>1, <2>2 DEF Trusted
  <2>3. CASE fileUnit # "none"
    BY <1>2, <2>1, <2>3 DEF Trusted
  <2> QED
    BY <2>2, <2>3
<1>4. ASSUME n + 1 \in Kept(e), Trusted(tier, e) PROVE Parses(e.lines[n + 1])
  <2>1. PICK w \in {"ms", "us"} : \A i \in Kept(e) : Fit(tier, e.lines[i], w)
    BY <1>4 DEF Trusted
  <2>2. fileUnit \in {"none", w}
    <3>1. CASE fileUnit # "none"
      <4>1. PICK i \in Kept(e) : i <= n
        BY <1>2, <3>1
      <4>2. Fit(tier, e.lines[i], fileUnit) /\ Fit(tier, e.lines[i], w)
        BY <1>2, <2>1, <4>1
      <4>3. e.lines[i].cols = Columns[tier] /\ e.lines[i] \in Lines[tier]
        BY <1>1, <4>2 DEF Fit
      <4>4. 1 \in DOMAIN e.lines[i].unit
        BY <4>3, LinesAre
      <4> QED
        BY <4>2, <4>4 DEF Fit
    <3> QED
      BY <3>1
  <2>3. e.lines[n + 1] \in Lines[tier] /\ Fit(tier, e.lines[n + 1], w)
    BY <1>1, <1>4, <2>1
  <2> DEFINE l == e.lines[n + 1]
  <2> HIDE DEF l
  <2>4. Parses(l)
    BY <2>2, <2>3, LineFits DEF l
  <2> QED
    BY <2>4 DEF l
<1> QED
  BY <1>3, <1>4
-----------------------------------------------------------------------------
\* Nothing is fetched, parsed or staged yet.
LEMMA ArchiveStarts == ArchiveInit => ArchiveInv
<1> SUFFICES ASSUME ArchiveInit PROVE ArchiveInv
  OBVIOUS
<1>1. PICK e \in Edition(tier) : editions = <<e>>
  BY DEF ArchiveInit
<1>2. editions \in Seq(Edition(tier)) /\ Len(editions) = 1
  BY <1>1
<1>3. tier \in Tiers /\ pc = "start" /\ sum = 0 /\ blob = 0 /\ staged = {}
  BY DEF ArchiveInit
<1> QED
  BY <1>2, <1>3 DEF ArchiveInv, StageInv, EndInv

\* The archive's own step: the editions so far stay what they are.
LEMMA RepublishedKeeps == ArchiveInv /\ Republished => ArchiveInv'
<1> SUFFICES ASSUME ArchiveInv, Republished PROVE ArchiveInv'
  OBVIOUS
<1>1. PICK e \in Edition(tier) : editions' = Append(editions, e)
  BY DEF Republished
<1>2. /\ tier' = tier /\ pc' = pc /\ sum' = sum /\ blob' = blob /\ staged' = staged
      /\ pos' = pos /\ fileUnit' = fileUnit /\ out' = out /\ outcome' = outcome
  BY DEF Republished, fetched, parser
<1>3. /\ tier \in Tiers /\ editions \in Seq(Edition(tier)) /\ StageInv /\ EndInv
      /\ \A s \in staged : s.edition \in DOMAIN editions /\ Whole(tier, editions[s.edition], s.rows)
  BY DEF ArchiveInv
<1>4. /\ editions' \in Seq(Edition(tier)) /\ Len(editions') = Len(editions) + 1
      /\ Len(editions) \in Nat /\ DOMAIN editions = 1..Len(editions)
      /\ DOMAIN editions' = 1..Len(editions')
      /\ \A i \in DOMAIN editions : editions'[i] = editions[i]
  BY <1>1, <1>3, AppendProperties, SeqIs
<1>5. /\ sum \in 0..Len(editions) /\ blob \in 0..Len(editions)
      /\ sum # 0 => editions'[sum] = editions[sum]
      /\ blob # 0 => editions'[blob] = editions[blob] /\ sum # 0
  BY <1>3, <1>4 DEF StageInv
<1>6. StageInv'
  <2>1. /\ sum' \in 0..Len(editions') /\ blob' \in 0..Len(editions')
        /\ pc \in {"start", "blob", "verify", "unzip", "parse", "return", "ended"}
        /\ pc = "start" => sum = 0 /\ blob = 0
        /\ pc = "blob" => sum # 0 /\ blob = 0
        /\ pc \in {"verify", "unzip", "parse", "return"} => blob # 0
        /\ blob # 0 => sum # 0
    BY <1>2, <1>3, <1>4, <1>5 DEF StageInv
  <2>2. pc \in {"unzip", "parse", "return"} => Verified'
    BY <1>2, <1>3, <1>5 DEF StageInv, Verified
  <2>3. pc \in {"parse", "return"} =>
          SoleMember(editions'[blob]) /\ Parsed(tier, editions'[blob], pos, fileUnit, out)
    BY <1>3, <1>5 DEF StageInv
  <2>4. pc = "return" => AllParsed' /\ staged = Body'
    <3>1. Body' = Body
      BY <1>2 DEF Body, CsvRow
    <3>2. pc = "return" => AllParsed /\ staged = Body /\ blob # 0
      BY <1>3 DEF StageInv
    <3> QED
      BY <1>2, <1>5, <3>1, <3>2 DEF AllParsed
  <2> QED
    BY <1>2, <2>1, <2>2, <2>3, <2>4 DEF StageInv
<1>7. EndInv'
  BY <1>2, <1>3, <1>5 DEF EndInv
<1>8. \A s \in staged' : s.edition \in DOMAIN editions' /\ Whole(tier', editions'[s.edition], s.rows)
  BY <1>2, <1>3, <1>4
<1>9. Len(editions') > 0
  BY <1>4
<1> QED
  BY <1>2, <1>3, <1>4, <1>6, <1>7, <1>8, <1>9 DEF ArchiveInv

\* What an invocation does before it parses, and another invocation.
LEMMA FetchesKeep ==
  ArchiveInv /\ (NotThere \/ FetchChecksum \/ FetchBlob \/ Verify \/ Again) => ArchiveInv'
<1> SUFFICES ASSUME ArchiveInv, NotThere \/ FetchChecksum \/ FetchBlob \/ Verify \/ Again
             PROVE  ArchiveInv'
  OBVIOUS
<1>1. /\ tier \in Tiers /\ editions \in Seq(Edition(tier)) /\ StageInv /\ EndInv
      /\ \A s \in staged : s.edition \in DOMAIN editions /\ Whole(tier, editions[s.edition], s.rows)
  BY DEF ArchiveInv
<1>2. /\ tier' = tier /\ editions' = editions /\ staged' = staged
      /\ pos' = pos /\ fileUnit' = fileUnit /\ out' = out
  BY DEF NotThere, FetchChecksum, FetchBlob, Verify, Again, archive, parser
<1>3. Len(editions) \in Nat
  BY <1>1, SeqIs
<1>4. Len(editions) # 0
  BY <1>3 DEF ArchiveInv
<1>5. CASE NotThere
  <2>1. /\ pc' = "ended" /\ sum' = sum /\ blob' = blob /\ blob = 0
        /\ outcome'.status = "SKIPPED_NO_DATA"
    BY <1>1, <1>5 DEF NotThere, Returns, fetched, StageInv
  <2>2. StageInv'
    BY <1>1, <1>2, <2>1 DEF StageInv
  <2>3. EndInv'
    BY <2>1 DEF EndInv
  <2> QED
    BY <1>1, <1>2, <2>2, <2>3 DEF ArchiveInv
<1>6. CASE FetchChecksum
  <2>1. pc' = "blob" /\ sum' = Len(editions) /\ blob' = blob /\ blob = 0
    BY <1>1, <1>6 DEF FetchChecksum, StageInv
  <2>2. StageInv'
    BY <1>2, <1>3, <1>4, <2>1 DEF StageInv
  <2>3. EndInv'
    BY <2>1 DEF EndInv
  <2> QED
    BY <1>1, <1>2, <2>2, <2>3 DEF ArchiveInv
<1>7. CASE FetchBlob
  <2>1. pc' = "verify" /\ sum' = sum /\ blob' = Len(editions) /\ sum # 0 /\ sum \in 0..Len(editions)
    BY <1>1, <1>7 DEF FetchBlob, StageInv
  <2>2. StageInv'
    BY <1>2, <1>3, <1>4, <2>1 DEF StageInv
  <2>3. EndInv'
    BY <2>1 DEF EndInv
  <2> QED
    BY <1>1, <1>2, <2>2, <2>3 DEF ArchiveInv
<1>8. CASE Verify
  <2>1. sum' = sum /\ blob' = blob /\ blob # 0
    BY <1>1, <1>8 DEF Verify, fetched, StageInv
  <2>2. CASE Verified /\ pc' = "unzip"
    <3>1. StageInv'
      BY <1>1, <1>2, <2>1, <2>2 DEF StageInv, Verified
    <3>2. EndInv'
      BY <2>2 DEF EndInv
    <3> QED
      BY <1>1, <1>2, <3>1, <3>2 DEF ArchiveInv
  <2>3. CASE ~Verified /\ Returns("FAILED", 0)
    <3>1. pc' = "ended" /\ outcome'.status = "FAILED"
      BY <2>3 DEF Returns
    <3>2. StageInv'
      BY <1>1, <1>2, <2>1, <3>1 DEF StageInv
    <3>3. ~(Trusted(tier, editions[blob]) /\ editions[sum] = editions[blob])
      BY <2>3 DEF Verified, Trusted
    <3>4. EndInv'
      BY <1>2, <2>1, <3>1, <3>3 DEF EndInv
    <3> QED
      BY <1>1, <1>2, <3>2, <3>4 DEF ArchiveInv
  <2> QED
    BY <1>8, <2>2, <2>3 DEF Verify
<1>9. CASE Again
  <2>1. pc' = "start" /\ sum' = 0 /\ blob' = 0
    BY <1>9 DEF Again
  <2>2. StageInv'
    BY <1>2, <1>3, <2>1 DEF StageInv
  <2>3. EndInv'
    BY <2>1 DEF EndInv
  <2> QED
    BY <1>1, <1>2, <2>2, <2>3 DEF ArchiveInv
<1> QED
  BY <1>5, <1>6, <1>7, <1>8, <1>9
\* The member's lines: a second member refuses the file, the parser starts anew.
LEMMA UnzipKeeps == ArchiveInv /\ Unzip => ArchiveInv'
<1> SUFFICES ASSUME ArchiveInv, Unzip PROVE ArchiveInv'
  OBVIOUS
<1>1. /\ tier \in Tiers /\ editions \in Seq(Edition(tier)) /\ StageInv /\ Len(editions) > 0
      /\ \A s \in staged : s.edition \in DOMAIN editions /\ Whole(tier, editions[s.edition], s.rows)
  BY DEF ArchiveInv
<1>2. /\ tier' = tier /\ editions' = editions /\ staged' = staged /\ sum' = sum /\ blob' = blob
      /\ pos' = 0 /\ fileUnit' = "none" /\ out' = <<>> /\ blob # 0 /\ Verified
  BY <1>1 DEF Unzip, archive, fetched, StageInv
<1> DEFINE e == editions[blob]
<1>3. CASE SoleMember(e) /\ pc' = "parse"
  <2>1. e \in Edition(tier)
    BY <1>1, <1>2, SeqIs DEF StageInv
  <2>2. /\ Len(e.lines) \in Nat /\ Kept(e) \subseteq Nat \ {0}
    BY <1>1, <2>1, EditionIs
  <2>3. Place(e, 0) = 0
    BY <2>2, Places
  <2>4. Parsed(tier, e, 0, "none", <<>>)
    <3>1. \A i \in Kept(e) : ~(i <= 0)
      BY <2>2
    <3>2. <<>> \in Seq(Row) /\ Len(<<>>) = 0
      OBVIOUS
    <3> HIDE DEF e
    <3> QED
      BY <2>2, <2>3, <3>1, <3>2 DEF Parsed
  <2>5. StageInv'
    BY <1>1, <1>2, <1>3, <2>4 DEF StageInv, Verified
  <2>6. EndInv'
    BY <1>3 DEF EndInv
  <2> QED
    BY <1>1, <1>2, <2>5, <2>6 DEF ArchiveInv
<1>4. CASE ~SoleMember(e) /\ Returns("FAILED", 0)
  <2>1. pc' = "ended" /\ outcome'.status = "FAILED"
    BY <1>4 DEF Returns
  <2>2. ~Trusted(tier, e)
    BY <1>4 DEF SoleMember, Trusted
  <2>3. StageInv'
    BY <1>1, <1>2, <2>1 DEF StageInv
  <2>4. EndInv'
    BY <1>2, <2>1, <2>2 DEF EndInv
  <2> QED
    BY <1>1, <1>2, <2>3, <2>4 DEF ArchiveInv
<1> QED
  BY <1>3, <1>4 DEF Unzip

\* One line: a bad one is the end of the invocation, any other is one more parsed.
LEMMA ParseNextKeeps == ArchiveInv /\ ParseNext => ArchiveInv'
<1> SUFFICES ASSUME ArchiveInv, ParseNext PROVE ArchiveInv'
  OBVIOUS
<1>1. /\ tier \in Tiers /\ editions \in Seq(Edition(tier)) /\ StageInv /\ Len(editions) > 0
      /\ \A s \in staged : s.edition \in DOMAIN editions /\ Whole(tier, editions[s.edition], s.rows)
  BY DEF ArchiveInv
<1> DEFINE e == editions[blob]
           l == e.lines[pos + 1]
<1>2. /\ tier' = tier /\ editions' = editions /\ staged' = staged /\ sum' = sum /\ blob' = blob
      /\ pc = "parse" /\ pos < Len(e.lines) /\ ParseLine(l)
  BY DEF ParseNext, archive, fetched
<1>3. /\ blob # 0 /\ sum # 0 /\ sum \in 0..Len(editions) /\ blob \in 0..Len(editions)
      /\ Verified /\ SoleMember(e) /\ Parsed(tier, e, pos, fileUnit, out)
  BY <1>1, <1>2 DEF StageInv
<1>4. e \in Edition(tier) /\ DOMAIN editions = 1..Len(editions) /\ Len(editions) \in Nat
  BY <1>1, <1>3, SeqIs
<1>5. /\ pos \in Nat /\ Len(e.lines) \in Nat /\ pos + 1 \in DOMAIN e.lines /\ l \in Lines[tier]
      /\ fileUnit \in {"none", "ms", "us"}
  BY <1>1, <1>2, <1>3, <1>4, EditionIs DEF Parsed
<1>6. pos + 1 \in Kept(e) <=> l.cols # 0
  BY <1>5 DEF Kept
<1>7. ASSUME pc' = pc, Parsed(tier, e, pos', fileUnit', out') PROVE ArchiveInv'
  <2>1. Verified'
    BY <1>2, <1>3 DEF Verified
  <2>2. StageInv'
    BY <1>1, <1>2, <1>3, <1>7, <2>1 DEF StageInv
  <2>3. EndInv'
    BY <1>2, <1>7 DEF EndInv
  <2> QED
    BY <1>1, <1>2, <2>2, <2>3 DEF ArchiveInv
<1>8. CASE l.cols = 0 /\ pos' = pos + 1 /\ UNCHANGED <<out, fileUnit, pc, outcome>>
  <2> HIDE DEF e, l
  <2>1. Parsed(tier, e, pos + 1, fileUnit, out)
    BY <1>1, <1>2, <1>3, <1>4, <1>6, <1>8, ParsedGrows
  <2> QED
    BY <1>7, <1>8, <2>1
<1>9. CASE /\ l.cols # 0 /\ Parses(l)
           /\ pos' = pos + 1 /\ out' = Append(out, RowOf(l)) /\ fileUnit' = UnitAfter(l, 1)
           /\ UNCHANGED <<pc, outcome>>
  <2> HIDE DEF e
  <2>1. \E u \in {"ms", "us"} : fileUnit \in {"none", u} /\ Fit(tier, l, u)
    <3> HIDE DEF l
    <3> QED
      BY <1>1, <1>5, <1>9, ParsedFits
  <2>2. PICK u \in {"ms", "us"} : fileUnit \in {"none", u} /\ Fit(tier, l, u)
    BY <2>1
  <2>3. UnitAfter(l, 1) = u /\ Says(tier, l, RowOf(l)) /\ RowOf(l) \in Row
    <3> HIDE DEF l
    <3> QED
      BY <1>1, <1>5, <2>2, LineFits
  <2>4. Parsed(tier, e, pos + 1, u, Append(out, RowOf(l)))
    BY <1>1, <1>2, <1>3, <1>4, <1>6, <1>9, <2>2, <2>3, ParsedGrows
  <2> QED
    BY <1>7, <1>9, <2>3, <2>4
<1>10. CASE l.cols # 0 /\ ~Parses(l) /\ Returns("FAILED", 0) /\ UNCHANGED parser
  <2>1. pc' = "ended" /\ outcome'.status = "FAILED"
    BY <1>10 DEF Returns
  <2>2. ~Trusted(tier, e)
    <3>1. e.members = 1 /\ e.named
      BY <1>3, <1>1 DEF SoleMember, Verified, Trusted
    <3> QED
      BY <1>1, <1>2, <1>3, <1>4, <1>6, <1>10, <3>1, VerdictOf DEF Trusted
  <2>3. StageInv'
    BY <1>1, <1>2, <1>3, <2>1 DEF StageInv
  <2>4. EndInv'
    BY <1>2, <1>3, <2>1, <2>2 DEF EndInv
  <2> QED
    BY <1>1, <1>2, <2>3, <2>4 DEF ArchiveInv
<1> QED
  BY <1>2, <1>8, <1>9, <1>10 DEF ParseLine

\* The put and the answer.
LEMMA PutKeeps == ArchiveInv /\ (PutBody \/ ReturnDone) => ArchiveInv'
<1> SUFFICES ASSUME ArchiveInv, PutBody \/ ReturnDone PROVE ArchiveInv'
  OBVIOUS
<1>1. /\ tier \in Tiers /\ editions \in Seq(Edition(tier)) /\ StageInv /\ Len(editions) > 0
      /\ \A s \in staged : s.edition \in DOMAIN editions /\ Whole(tier, editions[s.edition], s.rows)
  BY DEF ArchiveInv
<1> DEFINE e == editions[blob]
<1>2. /\ tier' = tier /\ editions' = editions /\ sum' = sum /\ blob' = blob
      /\ pos' = pos /\ fileUnit' = fileUnit /\ out' = out /\ pc \in {"parse", "return"} /\ AllParsed
  BY <1>1 DEF PutBody, ReturnDone, archive, fetched, parser, StageInv
<1>3. /\ blob # 0 /\ sum # 0 /\ sum \in 0..Len(editions) /\ blob \in 0..Len(editions)
      /\ Verified /\ SoleMember(e) /\ Parsed(tier, e, pos, fileUnit, out)
  BY <1>1, <1>2 DEF StageInv
<1>4. blob \in DOMAIN editions /\ e \in Edition(tier)
  BY <1>1, <1>3, SeqIs
<1>5. pos = Len(e.lines)
  BY <1>2 DEF AllParsed
<1>6. CASE PutBody
  <2>1. staged' = Body /\ pc' = "return"
    BY <1>6 DEF PutBody
  <2>2. \A s \in Body : s.edition = blob /\ s.rows = [i \in DOMAIN out |-> CsvRow(out[i])]
    BY DEF Body
  <2>3. \A r : CsvRow(r) = Csv(tier, r)
    BY DEF CsvRow, Csv
  <2>4. Whole(tier, e, [i \in DOMAIN out |-> CsvRow(out[i])])
    <3>1. [i \in DOMAIN out |-> CsvRow(out[i])] = [i \in DOMAIN out |-> Csv(tier, out[i])]
      BY <2>3
    <3>2. fileUnit \in {"none", "ms", "us"} /\ out \in Seq(Row) /\ e.members = 1
      BY <1>3 DEF Parsed, SoleMember
    <3> QED
      BY <1>3, <1>5, <3>1, <3>2 DEF Whole
  <2>5. Verified' /\ AllParsed' /\ Body' = Body
    BY <1>2, <1>3 DEF Verified, AllParsed, Body, CsvRow
  <2>6. StageInv'
    BY <1>1, <1>2, <1>3, <2>1, <2>5 DEF StageInv
  <2>7. EndInv'
    BY <2>1 DEF EndInv
  <2>8. \A s \in staged' : s.edition \in DOMAIN editions' /\ Whole(tier', editions'[s.edition], s.rows)
    BY <1>2, <1>4, <2>1, <2>2, <2>4
  <2> QED
    BY <1>1, <1>2, <2>6, <2>7, <2>8 DEF ArchiveInv
<1>7. CASE ReturnDone
  <2>1. pc' = "ended" /\ outcome' = [status |-> "DONE", rows |-> Len(out)] /\ staged' = staged
        /\ pc = "return"
    BY <1>7 DEF ReturnDone, Returns
  <2>2. Trusted(tier, e) /\ editions[sum] = e
    <3>1. e.members = 1 /\ e.named /\ editions[sum] = e
      BY <1>3 DEF SoleMember, Verified
    <3> HIDE DEF e
    <3> QED
      BY <1>1, <1>3, <1>4, <1>5, <3>1, VerdictOf
  <2>3. \E s \in staged' : s.edition = blob /\ Len(s.rows) = Len(out)
    <3>1. staged = Body
      BY <1>1, <2>1 DEF StageInv
    <3>2. DOMAIN out = 1..Len(out) /\ Len(out) \in Nat
      BY <1>3, SeqIs DEF Parsed
    <3>3. Len([i \in DOMAIN out |-> CsvRow(out[i])]) = Len(out)
      BY <3>2
    <3> QED
      BY <2>1, <3>1, <3>3 DEF Body
  <2>4. StageInv'
    BY <1>1, <1>2, <1>3, <2>1 DEF StageInv
  <2>5. EndInv'
    BY <1>2, <1>3, <2>1, <2>2, <2>3 DEF EndInv
  <2> QED
    BY <1>1, <1>2, <2>1, <2>4, <2>5 DEF ArchiveInv
<1> QED
  BY <1>6, <1>7


\* What is staged and what is said of it, from the invariant.
LEMMA ArchiveSafe == ArchiveInv => LoadSound
<1> SUFFICES ASSUME ArchiveInv PROVE LoadSound
  OBVIOUS
<1>1. /\ tier \in Tiers /\ editions \in Seq(Edition(tier)) /\ EndInv
      /\ \A s \in staged : s.edition \in DOMAIN editions /\ Whole(tier, editions[s.edition], s.rows)
      /\ \A i \in DOMAIN editions : editions[i] \in Edition(tier)
  BY SeqIs DEF ArchiveInv
<1>2. \A e \in Edition(tier) : Acceptable(e) = Trusted(tier, e)
  BY DEF Acceptable, Trusted, Fit
<1>3. StagedIsWholeFile
  BY <1>1, WholeMeans DEF StagedIsWholeFile
<1>4. OneUnitPerFile
  BY <1>1, WholeMeans DEF OneUnitPerFile
<1>5. DoneIsStaged
  BY <1>1 DEF DoneIsStaged, EndInv
<1>6. VerdictExact
  BY <1>1 DEF VerdictExact, EndInv, Acceptable, Trusted, Fit
<1> QED
  BY <1>3, <1>4, <1>5, <1>6 DEF LoadSound

\* The loader is all or nothing and its verdict exact (Loader.load, _load): Athena
\* reads from a staging object every row of one edition of the file, each with the
\* instants that were meant and the taker's side, of one unit; DONE is said of that
\* alone, with its count, and every other file is refused; whatever the file, the
\* moment it is replaced and the point an invocation is killed at.
THEOREM LoadIsAllOrNothing == ArchiveSpec => []LoadSound
<1>1. ArchiveInit => ArchiveInv
  BY ArchiveStarts
<1>2. ArchiveInv /\ [ArchiveNext]_archiveVars => ArchiveInv'
  <2>1. CASE UNCHANGED archiveVars
    BY <2>1 DEF archiveVars, archive, fetched, parser, ArchiveInv, StageInv, EndInv, Verified,
         AllParsed, Body, CsvRow
  <2> QED
    BY <2>1, RepublishedKeeps, FetchesKeep, UnzipKeeps, ParseNextKeeps, PutKeeps DEF ArchiveNext
<1>3. ArchiveInv => LoadSound
  BY ArchiveSafe
<1> QED
  BY <1>1, <1>2, <1>3, PTL DEF ArchiveSpec
=============================================================================
