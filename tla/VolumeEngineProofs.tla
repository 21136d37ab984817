------------------------- MODULE VolumeEngineProofs -------------------------
(* Proofs about VolumeEngine, for every set of legs, timeframes, volumes and *)
(* users: what is kept is enough for every estimate, and the prefilters let  *)
(* through whatever the router would accept.                                 *)
EXTENDS VolumeEngine, WellFoundedInduction, TLAPS

-----------------------------------------------------------------------------
(* The inductive invariant. *)

\* A series of minutes.
SeriesOK(f) == DOMAIN f \subseteq Int /\ \A m \in DOMAIN f : f[m] \in Nat

\* What is kept is what was received.
KeptInv(l) ==
    /\ DOMAIN buckets[l] \subseteq DOMAIN fed[l]
    /\ \A m \in DOMAIN buckets[l] : buckets[l][m] = fed[l][m]

\* What was received and is not kept is older than the retention, or is the minute
\* at its edge with nothing after it: the janitor drops a silent series, and its
\* last candle may have been of the minute after the one it came in.
LostInv(l) ==
    \A m \in DOMAIN fed[l] :
        \/ m \in DOMAIN buckets[l]
        \/ 2 * m < now - 2 * Retention
        \/ 2 * m <= now - 2 * Retention + 1 /\ m + 1 \notin DOMAIN fed[l]

\* No candle is more than a minute ahead of the clock, nor of the last write.
AheadInv(l) ==
    \A m \in DOMAIN fed[l] :
        2 * m <= now + 2 /\ (lastSeen[l] # Never => 2 * m <= lastSeen[l] + 2)

\* A series that the engine does not have has no buckets.
AbsentInv(l) == lastSeen[l] = Never => DOMAIN buckets[l] = {}

LegInv(l) ==
    /\ SeriesOK(fed[l])
    /\ lastSeen[l] \in Nat \cup {Never} /\ lastSeen[l] <= now
    /\ KeptInv(l) /\ LostInv(l) /\ AheadInv(l) /\ AbsentInv(l)

VolumeInv ==
    /\ now \in Nat /\ updates \in Nat
    /\ DOMAIN buckets = Legs /\ DOMAIN lastSeen = Legs /\ DOMAIN fed = Legs
    /\ \A l \in Legs : LegInv(l)

-----------------------------------------------------------------------------
(* The invariant is inductive. *)

\* The longest timeframe is one, and the retention exceeds it by the slack.
LEMMA RetentionFacts ==
    /\ Max(Timeframes) \in Nat
    /\ \A d \in Timeframes : d \in Nat /\ d >= 1 /\ d <= Max(Timeframes)
    /\ Slack \in Nat /\ Retention \in Nat /\ Retention = Max(Timeframes) + Slack
    /\ MaxLate \in Nat /\ Max(Timeframes) >= 2 /\ MaxLate + 2 < Retention
<1>1. /\ Timeframes \subseteq Nat \ {0} /\ Slack \in Nat /\ MaxLate \in Nat
      /\ \E longest \in Timeframes : \A d \in Timeframes : d <= longest
  BY VolumeAssumption DEF VolumeAssumption
<1>2. \E longest \in Timeframes : \A d \in Timeframes : longest >= d
  BY <1>1
<1>3. Max(Timeframes) \in Timeframes /\ \A d \in Timeframes : Max(Timeframes) >= d
  BY <1>2 DEF Max
<1>4. Max(Timeframes) \in Nat /\ \A d \in Timeframes : d \in Nat /\ d >= 1 /\ d <= Max(Timeframes)
  <2> DEFINE M == Max(Timeframes)
  <2>1. M \in Timeframes /\ \A d \in Timeframes : M >= d
    BY <1>3
  <2> HIDE DEF M
  <2>2. M \in Nat /\ \A d \in Timeframes : d \in Nat /\ d >= 1 /\ d <= M
    BY <1>1, <2>1
  <2> QED
    BY <2>2 DEF M
<1>5. Retention = Max(Timeframes) + Slack /\ Max(Timeframes) >= 2 /\ MaxLate + 2 < Retention
  BY LatenessAssumption DEF LatenessAssumption, Retention
<1> QED
  BY <1>1, <1>4, <1>5

\* Nothing has been received at first.
LEMMA InitInv == Init => VolumeInv
  BY RetentionFacts DEF Init, VolumeInv, LegInv, SeriesOK, KeptInv, LostInv, AheadInv, AbsentInv,
                        NoBuckets, Never

\* Pruning keeps the minutes of the retention as they are.
LEMMA PrunedFacts ==
    ASSUME NEW f
    PROVE  /\ DOMAIN Pruned(f) = {k \in DOMAIN f : 2 * k >= now - 2 * Retention}
           /\ \A k \in DOMAIN Pruned(f) : Pruned(f)[k] = f[k]
  BY DEF Pruned, Restrict

\* The janitor keeps a series that was written within the retention, pruned.
LEMMA SweepKeepsLegInv ==
    ASSUME VolumeInv, NEW l \in Legs, UNCHANGED now, fed'[l] = fed[l],
           buckets'[l] = Swept(buckets, lastSeen)[l], lastSeen'[l] = SweptSeen(lastSeen)[l]
    PROVE  LegInv(l)'
<1>1. /\ LegInv(l) /\ now \in Nat /\ Retention \in Nat /\ SeriesOK(fed[l])
      /\ lastSeen[l] \in Nat \cup {-1} /\ lastSeen[l] <= now
  BY RetentionFacts DEF VolumeInv, LegInv, Never
<1>2. CASE now - lastSeen[l] > 2 * Retention
  <2>1. buckets'[l] = NoBuckets /\ lastSeen'[l] = -1 /\ DOMAIN NoBuckets = {}
    BY <1>2 DEF Swept, SweptSeen, Never, NoBuckets
  <2>2. LostInv(l)'
    <3> SUFFICES ASSUME NEW m \in DOMAIN fed[l]
                 PROVE  \/ 2 * m < now - 2 * Retention
                        \/ 2 * m <= now - 2 * Retention + 1 /\ m + 1 \notin DOMAIN fed[l]
      BY DEF LostInv
    <3>1. m \in Int
      BY <1>1 DEF SeriesOK
    <3>2. CASE m \in DOMAIN buckets[l]
      <4>1. lastSeen[l] \in Nat /\ \A k \in DOMAIN fed[l] : 2 * k <= lastSeen[l] + 2
        BY <1>1, <3>2 DEF LegInv, AbsentInv, AheadInv, Never
      <4> QED
        BY <1>1, <1>2, <3>1, <4>1
    <3>3. CASE m \notin DOMAIN buckets[l]
      BY <1>1, <3>3 DEF LegInv, LostInv
    <3> QED
      BY <3>2, <3>3
  <2> QED
    BY <1>1, <2>1, <2>2 DEF LegInv, KeptInv, AheadInv, AbsentInv, Never, SeriesOK
<1>3. CASE ~(now - lastSeen[l] > 2 * Retention)
  <2>1. buckets'[l] = Pruned(buckets[l]) /\ lastSeen'[l] = lastSeen[l]
    BY <1>3 DEF Swept, SweptSeen
  <2>2. /\ DOMAIN buckets'[l] = {k \in DOMAIN buckets[l] : 2 * k >= now - 2 * Retention}
        /\ \A k \in DOMAIN buckets'[l] : buckets'[l][k] = buckets[l][k]
    BY <2>1, PrunedFacts
  <2>3. LostInv(l)'
    <3> SUFFICES ASSUME NEW m \in DOMAIN fed[l]
                 PROVE  \/ m \in DOMAIN buckets'[l] \/ 2 * m < now - 2 * Retention
                        \/ 2 * m <= now - 2 * Retention + 1 /\ m + 1 \notin DOMAIN fed[l]
      BY DEF LostInv
    <3>1. m \in Int
      BY <1>1 DEF SeriesOK
    <3> QED
      BY <1>1, <2>2, <3>1 DEF LegInv, LostInv
  <2> QED
    BY <1>1, <2>1, <2>2, <2>3 DEF LegInv, KeptInv, AheadInv, AbsentInv, SeriesOK
<1> QED
  BY <1>2, <1>3

\* A candle of leg l: the series keeps it unless it is older than the retention, and
\* no lost minute at the edge gets a successor so late.
LEMMA CandleKeepsLegInv ==
    ASSUME VolumeInv, NEW l \in Legs, NEW q \in Nat, UNCHANGED now,
           NEW m \in (Minute(now) - MaxLate)..(Minute(now) + 1),
           fed'[l] = With(fed[l], m, q), lastSeen'[l] = now,
           DOMAIN buckets'[l] = {k \in DOMAIN buckets[l] \cup {m} : 2 * k >= now - 2 * Retention},
           \A k \in DOMAIN buckets'[l] : buckets'[l][k] = With(buckets[l], m, q)[k]
    PROVE  LegInv(l)'
<1>1. /\ LegInv(l) /\ now \in Nat /\ Retention \in Nat /\ SeriesOK(fed[l])
      /\ lastSeen[l] \in Nat \cup {-1} /\ lastSeen[l] <= now
      /\ MaxLate \in Nat /\ MaxLate + 2 < Retention
  BY RetentionFacts DEF VolumeInv, LegInv, Never
<1>2. m \in Int /\ 2 * m >= now - 1 - 2 * MaxLate /\ 2 * m <= now + 2
  BY <1>1 DEF Minute
<1>3. /\ DOMAIN fed'[l] = DOMAIN fed[l] \cup {m} /\ fed'[l][m] = q
      /\ \A k \in DOMAIN fed[l] : k # m => fed'[l][k] = fed[l][k]
  BY DEF With
<1>4. SeriesOK(fed[l])'
  BY <1>1, <1>2, <1>3 DEF SeriesOK
<1>5. KeptInv(l)'
  <2>1. /\ DOMAIN buckets[l] \subseteq DOMAIN fed[l]
        /\ \A k \in DOMAIN buckets[l] : buckets[l][k] = fed[l][k]
    BY <1>1 DEF LegInv, KeptInv
  <2>2. With(buckets[l], m, q)[m] = q
    BY DEF With
  <2>3. \A k \in DOMAIN buckets[l] : k # m => With(buckets[l], m, q)[k] = buckets[l][k]
    BY DEF With
  <2> QED
    BY <1>3, <2>1, <2>2, <2>3 DEF KeptInv
<1>6. LostInv(l)'
  <2> SUFFICES ASSUME NEW k \in DOMAIN fed'[l]
               PROVE  \/ k \in DOMAIN buckets'[l] \/ 2 * k < now - 2 * Retention
                      \/ 2 * k <= now - 2 * Retention + 1 /\ k + 1 \notin DOMAIN fed'[l]
    BY DEF LostInv
  <2>1. k \in Int
    BY <1>1, <1>2, <1>3 DEF SeriesOK
  <2>2. CASE k \in DOMAIN buckets[l] \cup {m}
    BY <1>1, <2>1, <2>2
  <2>3. CASE k \notin DOMAIN buckets[l] \cup {m}
    <3>1. \/ 2 * k < now - 2 * Retention
          \/ 2 * k <= now - 2 * Retention + 1 /\ k + 1 \notin DOMAIN fed[l]
      BY <1>1, <1>3, <2>3 DEF LegInv, LostInv
    <3>2. 2 * k <= now - 2 * Retention + 1 => k + 1 # m
      BY <1>1, <1>2, <2>1
    <3> QED
      BY <1>3, <3>1, <3>2
  <2> QED
    BY <2>2, <2>3
<1>7. AheadInv(l)'
  <2> SUFFICES ASSUME NEW k \in DOMAIN fed'[l] PROVE 2 * k <= now + 2
    BY DEF AheadInv
  <2> QED
    BY <1>1, <1>2, <1>3 DEF LegInv, AheadInv
<1>8. AbsentInv(l)' /\ lastSeen'[l] \in Nat \cup {Never} /\ lastSeen'[l] <= now'
  BY <1>1 DEF AbsentInv, Never
<1> QED
  BY <1>4, <1>5, <1>6, <1>7, <1>8 DEF LegInv

\* A series that a step leaves alone.
LEMMA SameLegInv ==
    ASSUME NEW k \in Legs, LegInv(k), UNCHANGED now, fed'[k] = fed[k],
           buckets'[k] = buckets[k], lastSeen'[k] = lastSeen[k]
    PROVE  LegInv(k)'
  BY DEF LegInv, SeriesOK, KeptInv, LostInv, AheadInv, AbsentInv

\* UpdateCandle, with or without the janitor behind it.
LEMMA UpdateKeepsInv ==
    ASSUME VolumeInv, NEW l \in Legs, NEW q \in Volumes,
           NEW m \in (Minute(now) - MaxLate)..(Minute(now) + 1), UpdateCandle(l, m, q)
    PROVE  VolumeInv'
<1> DEFINE bs   == [buckets EXCEPT ![l] = Pruned(With(@, m, q))]
           seen == [lastSeen EXCEPT ![l] = now]
           due  == (updates + 1) % JanitorEvery = 0
<1>1. /\ now \in Nat /\ updates \in Nat /\ q \in Nat /\ Retention \in Nat
      /\ DOMAIN buckets = Legs /\ DOMAIN lastSeen = Legs /\ DOMAIN fed = Legs
  BY VolumeAssumption, RetentionFacts DEF VolumeAssumption, VolumeInv
<1>2. /\ buckets' = IF due THEN Swept(bs, seen) ELSE bs
      /\ lastSeen' = IF due THEN SweptSeen(seen) ELSE seen
      /\ updates' = updates + 1 /\ fed' = [fed EXCEPT ![l] = With(@, m, q)] /\ UNCHANGED now
  BY DEF UpdateCandle
<1>3. DOMAIN buckets' = Legs /\ DOMAIN lastSeen' = Legs /\ DOMAIN fed' = Legs
  BY <1>1, <1>2 DEF Swept, SweptSeen
<1>4. LegInv(l)'
  <2>1. bs[l] = Pruned(With(buckets[l], m, q)) /\ seen[l] = now
    BY <1>1
  <2>2. lastSeen'[l] = now /\ (buckets'[l] = bs[l] \/ buckets'[l] = Pruned(bs[l]))
    BY <1>1, <1>2, <2>1 DEF Swept, SweptSeen
  <2>3. DOMAIN With(buckets[l], m, q) = DOMAIN buckets[l] \cup {m}
    BY DEF With
  <2>4. /\ DOMAIN bs[l] = {k \in DOMAIN buckets[l] \cup {m} : 2 * k >= now - 2 * Retention}
        /\ \A k \in DOMAIN bs[l] : bs[l][k] = With(buckets[l], m, q)[k]
    <3> DEFINE w == With(buckets[l], m, q)
    <3>1. bs[l] = Pruned(w) /\ DOMAIN w = DOMAIN buckets[l] \cup {m}
      BY <2>1, <2>3
    <3> HIDE DEF w, bs
    <3> QED
      BY <3>1, PrunedFacts DEF w
  <2>5. /\ DOMAIN Pruned(bs[l]) = DOMAIN bs[l]
        /\ \A k \in DOMAIN Pruned(bs[l]) : Pruned(bs[l])[k] = bs[l][k]
    <3> HIDE DEF bs
    <3> QED
      BY <2>4, PrunedFacts
  <2>6. /\ DOMAIN buckets'[l] = {k \in DOMAIN buckets[l] \cup {m} : 2 * k >= now - 2 * Retention}
        /\ \A k \in DOMAIN buckets'[l] : buckets'[l][k] = With(buckets[l], m, q)[k]
    <3> HIDE DEF bs
    <3> QED
      BY <2>2, <2>4, <2>5
  <2>7. fed'[l] = With(fed[l], m, q)
    BY <1>1, <1>2
  <2> QED
    BY <1>1, <1>2, <2>2, <2>6, <2>7, CandleKeepsLegInv
<1>5. ASSUME NEW k \in Legs, k # l PROVE LegInv(k)'
  <2>1. bs[k] = buckets[k] /\ seen[k] = lastSeen[k] /\ fed'[k] = fed[k]
    BY <1>1, <1>2, <1>5
  <2>2. CASE due
    <3>1. /\ buckets'[k] = Swept(buckets, lastSeen)[k]
          /\ lastSeen'[k] = SweptSeen(lastSeen)[k]
      BY <1>2, <2>1, <2>2 DEF Swept, SweptSeen
    <3>2. UNCHANGED now /\ fed'[k] = fed[k]
      BY <1>2, <2>1
    <3> HIDE DEF bs, seen, due
    <3> QED
      BY <3>1, <3>2, SweepKeepsLegInv
  <2>3. CASE ~due
    <3>1. buckets'[k] = buckets[k] /\ lastSeen'[k] = lastSeen[k]
      BY <1>2, <2>1, <2>3
    <3>2. UNCHANGED now /\ fed'[k] = fed[k] /\ LegInv(k)
      BY <1>2, <2>1 DEF VolumeInv
    <3> QED
      BY <3>1, <3>2, SameLegInv
  <2> QED
    BY <2>2, <2>3
<1> QED
  BY <1>1, <1>2, <1>3, <1>4, <1>5 DEF VolumeInv

\* Every step keeps the invariant.
LEMMA StepInv == VolumeInv /\ [Next]_vars => VolumeInv'
<1> SUFFICES ASSUME VolumeInv, [Next]_vars PROVE VolumeInv'
  OBVIOUS
<1>1. ASSUME NEW l \in Legs, NEW q \in Volumes,
             NEW m \in (Minute(now) - MaxLate)..(Minute(now) + 1), UpdateCandle(l, m, q)
      PROVE  VolumeInv'
  BY <1>1, UpdateKeepsInv
<1>2. CASE Janitor
  <2>1. /\ buckets' = Swept(buckets, lastSeen) /\ lastSeen' = SweptSeen(lastSeen)
        /\ UNCHANGED <<now, updates, fed>>
    BY <1>2 DEF Janitor
  <2>2. \A l \in Legs : LegInv(l)'
    BY <2>1, SweepKeepsLegInv
  <2> QED
    BY <2>1, <2>2 DEF VolumeInv, Swept, SweptSeen
<1>3. CASE Clock
  <2>1. /\ now \in Nat /\ now' = now + 1 /\ UNCHANGED <<buckets, lastSeen, updates, fed>>
    BY <1>3 DEF Clock, VolumeInv
  <2>2. ASSUME NEW l \in Legs PROVE LegInv(l)'
    <3>1. /\ LegInv(l) /\ SeriesOK(fed[l]) /\ lastSeen[l] \in Nat \cup {-1} /\ Retention \in Nat
      BY RetentionFacts DEF VolumeInv, LegInv, Never
    <3>2. LostInv(l)'
      <4> SUFFICES ASSUME NEW m \in DOMAIN fed[l]
                   PROVE  \/ m \in DOMAIN buckets[l] \/ 2 * m < now' - 2 * Retention
                          \/ 2 * m <= now' - 2 * Retention + 1 /\ m + 1 \notin DOMAIN fed[l]
        BY <2>1 DEF LostInv
      <4>1. m \in Int
        BY <3>1 DEF SeriesOK
      <4> QED
        BY <2>1, <3>1, <4>1 DEF LegInv, LostInv
    <3>3. AheadInv(l)'
      <4> SUFFICES ASSUME NEW m \in DOMAIN fed[l]
                   PROVE  2 * m <= now + 1 + 2 /\ (lastSeen[l] # Never => 2 * m <= lastSeen[l] + 2)
        BY <2>1 DEF AheadInv
      <4>1. m \in Int
        BY <3>1 DEF SeriesOK
      <4> QED
        BY <2>1, <3>1, <4>1 DEF LegInv, AheadInv
    <3> QED
      BY <2>1, <3>1, <3>2, <3>3 DEF LegInv, SeriesOK, KeptInv, AbsentInv
  <2> QED
    BY <2>1, <2>2 DEF VolumeInv
<1>4. CASE UNCHANGED vars
  BY <1>4 DEF vars, VolumeInv, LegInv, SeriesOK, KeptInv, LostInv, AheadInv, AbsentInv
<1> QED
  BY <1>1, <1>2, <1>3, <1>4 DEF Next

\* The invariant holds throughout.
LEMMA Inductive == Spec => []VolumeInv
  BY InitInv, StepInv, PTL DEF Spec

-----------------------------------------------------------------------------
(* What the loop computes. *)

\* A set of naturals has a least element.
LEMMA LeastNatural ==
    ASSUME NEW T \in SUBSET Nat, T # {}
    PROVE  \E x \in T : \A y \in T : x <= y
<1>1. PICK x \in T : \A y \in T : <<y, x>> \notin OpToRel(<, Nat)
  BY NatLessThanWellFounded, WFMin
<1>2. \A y \in T : ~(y < x)
  BY <1>1 DEF OpToRel
<1> QED
  BY <1>2

\* The number of known minutes is that of the run that ends the window: all of its
\* minutes are there, and it fills the window or the one before it is missing.
IsRun(f, d, end, n) ==
    /\ n \in 0..d
    /\ \A k \in 0..(n - 1) : end - k \in DOMAIN f
    /\ n = d \/ end - n \notin DOMAIN f

\* There is such a run.
LEMMA RunExists ==
    ASSUME NEW f, NEW d \in Nat, NEW end \in Int
    PROVE  \E n \in Nat : IsRun(f, d, end, n)
<1> DEFINE T == {n \in 0..d : n = d \/ end - n \notin DOMAIN f}
<1>1. T \in SUBSET Nat /\ d \in T
  OBVIOUS
<1>2. PICK n \in T : \A k \in T : n <= k
  BY <1>1, LeastNatural
<1>3. n \in 0..d /\ \A k \in 0..d : k < n => end - k \in DOMAIN f
  BY <1>2
<1>4. \A k \in 0..(n - 1) : end - k \in DOMAIN f
  BY <1>3
<1> QED
  BY <1>2, <1>3, <1>4 DEF IsRun

\* There is only one.
LEMMA RunUnique ==
    ASSUME NEW f, NEW d \in Nat, NEW end \in Int, NEW n, NEW k,
           IsRun(f, d, end, n), IsRun(f, d, end, k)
    PROVE  n = k
  BY DEF IsRun

\* The loop finds it.
LEMMA KnownIsRun ==
    ASSUME NEW f, NEW d \in Nat, NEW end \in Int
    PROVE  IsRun(f, d, end, KnownMinutes(f, d, end))
<1> DEFINE Stop(n) == n = d \/ end - n \notin DOMAIN f
           Loop(r) == r = [n \in 0..d |-> IF Stop(n) THEN n ELSE r[n + 1]]
           run == CHOOSE r : Loop(r)
<1>1. PICK s \in Nat : IsRun(f, d, end, s)
  BY RunExists
<1>2. \E r : Loop(r)
  <2> DEFINE T(n) == {k \in n..d : Stop(k)}
             least(n) == CHOOSE k \in T(n) : \A j \in T(n) : k <= j
             g == [n \in 0..d |-> least(n)]
  <2>1. ASSUME NEW n \in 0..d, Stop(n) PROVE least(n) = n
    BY <2>1
  <2>2. ASSUME NEW n \in 0..d, ~Stop(n) PROVE least(n) = g[n + 1]
    <3>1. n + 1 \in 0..d /\ T(n) = T(n + 1)
      BY <2>2
    <3> QED
      BY <3>1
  <2> HIDE DEF least, Stop
  <2>3. g = [n \in 0..d |-> IF Stop(n) THEN n ELSE g[n + 1]]
    <3>1. \A n \in 0..d : g[n] = IF Stop(n) THEN n ELSE g[n + 1]
      BY <2>1, <2>2
    <3>2. g = [n \in 0..d |-> g[n]]
      OBVIOUS
    <3> HIDE DEF g
    <3> QED
      BY <3>1, <3>2
  <2> QED
    BY <2>3
<1>3. Loop(run)
  BY <1>2
<1>4. KnownMinutes(f, d, end) = run[0]
  BY DEF KnownMinutes
<1> HIDE DEF run
<1>5. s \in 0..d /\ Stop(s) /\ \A n \in 0..d : n < s => ~Stop(n)
  BY <1>1 DEF IsRun
<1>6. run[s] = s /\ \A n \in 0..d : n < s => run[n] = run[n + 1]
  BY <1>3, <1>5
<1>7. run[0] = s
  <2> DEFINE T == {k \in 0..s : run[s - k] # s}
  <2>1. SUFFICES ASSUME T # {} PROVE FALSE
    BY <1>5
  <2>2. T \in SUBSET Nat
    OBVIOUS
  <2>3. PICK k \in T : \A j \in T : k <= j
    BY <2>1, <2>2, LeastNatural
  <2>4. k \in 1..s
    BY <1>6, <2>3
  <2>5. run[s - k] = run[s - k + 1] /\ s - k + 1 = s - (k - 1)
    BY <1>5, <1>6, <2>4
  <2>6. k - 1 \notin T
    BY <2>3, <2>4
  <2> QED
    BY <2>3, <2>4, <2>5, <2>6
<1> QED
  BY <1>1, <1>4, <1>7

\* The running totals of the last n minutes, as the loop adds them up.
IsTotals(f, n, end, r) == r = [k \in 0..n |-> IF k = 0 THEN 0 ELSE r[k - 1] + f[end - k + 1]]

\* They exist and are natural numbers.
LEMMA TotalsExist ==
    ASSUME NEW f, NEW n \in Nat, NEW end \in Int, \A k \in 0..(n - 1) : f[end - k] \in Nat
    PROVE  \E r \in [0..n -> Nat] : IsTotals(f, n, end, r)
<1> DEFINE Has(j) == \E r \in [0..j -> Nat] : IsTotals(f, j, end, r)
           T == {j \in 0..n : ~Has(j)}
<1>1. SUFFICES ASSUME T # {} PROVE FALSE
  <2> HIDE DEF Has
  <2>1. n \in 0..n /\ (T = {} => Has(n))
    OBVIOUS
  <2> QED
    BY <2>1 DEF Has
<1>2. T \in SUBSET Nat
  OBVIOUS
<1>3. PICK j \in T : \A k \in T : j <= k
  BY <1>1, <1>2, LeastNatural
<1>4. Has(0)
  <2>1. [k \in 0..0 |-> 0] \in [0..0 -> Nat] /\ IsTotals(f, 0, end, [k \in 0..0 |-> 0])
    BY DEF IsTotals
  <2> QED
    BY <2>1
<1>5. j \in 1..n /\ Has(j - 1)
  <2> HIDE DEF Has
  <2> QED
    BY <1>3, <1>4
<1>6. PICK r \in [0..(j - 1) -> Nat] : IsTotals(f, j - 1, end, r)
  BY <1>5
<1> DEFINE g == [k \in 0..j |-> IF k = j THEN r[j - 1] + f[end - j + 1] ELSE r[k]]
<1>7. r[j - 1] \in Nat /\ f[end - j + 1] \in Nat
  <2>1. j - 1 \in 0..(n - 1) /\ j - 1 \in 0..(j - 1) /\ end - (j - 1) = end - j + 1
    <3> HIDE DEF Has
    <3> QED
      BY <1>5
  <2>2. f[end - (j - 1)] \in Nat
    BY <2>1
  <2> QED
    BY <1>6, <2>1, <2>2
<1>8. g \in [0..j -> Nat]
  BY <1>5, <1>7
<1>9. \A k \in 0..j : g[k] = IF k = 0 THEN 0 ELSE g[k - 1] + f[end - k + 1]
  <2>1. ASSUME NEW k \in 0..j PROVE g[k] = IF k = 0 THEN 0 ELSE g[k - 1] + f[end - k + 1]
    <3>1. CASE k = j
      BY <1>5, <3>1
    <3>2. CASE k # j
      <4>1. k \in 0..(j - 1) /\ g[k] = r[k] /\ (k # 0 => k - 1 \in 0..(j - 1) /\ g[k - 1] = r[k - 1])
        BY <1>5, <3>2
      <4>2. r[k] = IF k = 0 THEN 0 ELSE r[k - 1] + f[end - k + 1]
        BY <1>6, <4>1 DEF IsTotals
      <4> QED
        BY <4>1, <4>2
    <3> QED
      BY <3>1, <3>2
  <2> QED
    BY <2>1
<1>10. IsTotals(f, j, end, g)
  <2> HIDE DEF g
  <2> QED
    BY <1>8, <1>9 DEF IsTotals
<1> QED
  BY <1>3, <1>8, <1>10

\* The loop's total is a natural number, and nothing adds up to nothing.
LEMMA TotalNatural ==
    ASSUME NEW f, NEW n \in Nat, NEW end \in Int, \A k \in 0..(n - 1) : f[end - k] \in Nat
    PROVE  TotalVolume(f, n, end) \in Nat /\ (n = 0 => TotalVolume(f, n, end) = 0)
<1> DEFINE total == CHOOSE r : IsTotals(f, n, end, r)
<1>1. TotalVolume(f, n, end) = total[n]
  BY DEF TotalVolume, IsTotals
<1>2. IsTotals(f, n, end, total)
  BY TotalsExist
<1> HIDE DEF total
<1>3. /\ total[0] = 0
      /\ \A k \in 1..n : total[k] = total[k - 1] + f[end - k + 1]
  BY <1>2 DEF IsTotals
<1>4. \A k \in 1..n : f[end - k + 1] \in Nat
  <2>1. \A k \in 1..n : k - 1 \in 0..(n - 1) /\ end - (k - 1) = end - k + 1
    OBVIOUS
  <2> QED
    BY <2>1
<1>5. total[n] \in Nat
  <2> DEFINE T == {k \in 0..n : total[k] \notin Nat}
  <2>1. SUFFICES ASSUME T # {} PROVE FALSE
    OBVIOUS
  <2>2. T \in SUBSET Nat
    OBVIOUS
  <2>3. PICK k \in T : \A j \in T : k <= j
    BY <2>1, <2>2, LeastNatural
  <2>4. k \in 1..n /\ k - 1 \notin T
    BY <1>3, <2>3
  <2>5. total[k - 1] \in Nat
    BY <2>4
  <2> QED
    BY <1>3, <1>4, <2>3, <2>4, <2>5
<1> QED
  BY <1>1, <1>3, <1>5

\* Series that agree on the window have the same total.
LEMMA TotalsAgree ==
    ASSUME NEW f, NEW g, NEW n \in Nat, NEW end \in Int,
           \A k \in 0..(n - 1) : f[end - k] = g[end - k]
    PROVE  TotalVolume(f, n, end) = TotalVolume(g, n, end)
<1>1. \A k \in 1..n : f[end - k + 1] = g[end - k + 1]
  <2>1. \A k \in 1..n : k - 1 \in 0..(n - 1) /\ end - (k - 1) = end - k + 1
    OBVIOUS
  <2> QED
    BY <2>1
<1>2. ASSUME NEW r
      PROVE  [k \in 0..n |-> IF k = 0 THEN 0 ELSE r[k - 1] + f[end - k + 1]]
           = [k \in 0..n |-> IF k = 0 THEN 0 ELSE r[k - 1] + g[end - k + 1]]
  BY <1>1
<1>3. (CHOOSE r : IsTotals(f, n, end, r)) = (CHOOSE r : IsTotals(g, n, end, r))
  BY <1>2 DEF IsTotals
<1> QED
  BY <1>3 DEF TotalVolume, IsTotals

\* The reference's longest run is the run that the loop finds.
LEMMA ReferenceRun ==
    ASSUME NEW f, NEW d \in Nat, NEW end \in Int, NEW n, IsRun(f, d, end, n), DOMAIN f \subseteq Int
    PROVE  Max({k \in 0..d : (end - k + 1)..end \subseteq DOMAIN f}) = n
<1> DEFINE R == {k \in 0..d : (end - k + 1)..end \subseteq DOMAIN f}
<1>1. n \in 0..d /\ (n = d \/ end - n \notin DOMAIN f) /\ \A k \in 0..(n - 1) : end - k \in DOMAIN f
  BY DEF IsRun
<1>2. n \in R
  <2> SUFFICES ASSUME NEW m \in (end - n + 1)..end PROVE m \in DOMAIN f
    BY <1>1
  <2>1. end - m \in 0..(n - 1) /\ end - (end - m) = m
    BY <1>1
  <2> QED
    BY <1>1, <2>1
<1>3. ASSUME NEW k \in R PROVE n >= k
  <2>1. CASE k > n
    <3>1. end - n \in (end - k + 1)..end /\ n # d
      BY <1>1, <2>1
    <3> QED
      BY <1>1, <1>3, <3>1
  <2> QED
    BY <1>1, <2>1
<1>4. \A k \in R : (\A j \in R : k >= j) => k = n
  <2> SUFFICES ASSUME NEW k \in R, \A j \in R : k >= j PROVE k = n
    OBVIOUS
  <2>1. k >= n /\ n >= k
    BY <1>2, <1>3
  <2> QED
    BY <1>1, <2>1
<1> HIDE DEF R
<1>5. Max(R) = n
  BY <1>2, <1>3, <1>4 DEF Max
<1> QED
  BY <1>5 DEF R

-----------------------------------------------------------------------------
(* The theorems. *)

\* In the windows that the router may ask for, the minutes known to the engine
\* are those of everything that was ever received.
LEMMA SameRun ==
    ASSUME VolumeInv, NEW l \in Legs, NEW d \in Timeframes, NEW t \in (now - 2 * Slack)..now,
           NEW n, IsRun(buckets[l], d, Minute(t), n)
    PROVE  IsRun(fed[l], d, Minute(t), n)
<1> DEFINE end == Minute(t)
<1>1. /\ now \in Nat /\ d \in Nat /\ d >= 1 /\ d <= Max(Timeframes) /\ Max(Timeframes) >= 2
      /\ Max(Timeframes) \in Nat /\ Slack \in Nat /\ Retention = Max(Timeframes) + Slack
      /\ KeptInv(l) /\ LostInv(l)
  BY RetentionFacts DEF VolumeInv, LegInv
<1>2. end \in Int /\ 2 * end >= now - 2 * Slack - 1
  BY <1>1 DEF Minute
<1>3. /\ n \in 0..d /\ (n = d \/ end - n \notin DOMAIN buckets[l])
      /\ \A k \in 0..(n - 1) : end - k \in DOMAIN buckets[l]
  BY DEF IsRun
<1>4. \A k \in 0..(n - 1) : end - k \in DOMAIN fed[l]
  BY <1>1, <1>3 DEF KeptInv
<1>5. ASSUME n # d, end - n \in DOMAIN fed[l] PROVE FALSE
  <2>1. \/ 2 * (end - n) < now - 2 * Retention
        \/ 2 * (end - n) <= now - 2 * Retention + 1 /\ end - n + 1 \notin DOMAIN fed[l]
    BY <1>1, <1>3, <1>5 DEF LostInv
  <2>2. 2 * (end - n) >= now - 2 * Retention + 1
    BY <1>1, <1>2, <1>3, <1>5
  <2>3. end - n + 1 \notin DOMAIN fed[l] /\ 2 * (end - n) <= now - 2 * Retention + 1
    BY <1>1, <1>2, <1>3, <2>1, <2>2
  <2>4. CASE n = 0
    BY <1>1, <1>2, <2>3, <2>4
  <2>5. CASE n # 0
    <3>1. n - 1 \in 0..(n - 1) /\ end - (n - 1) = end - n + 1
      BY <1>2, <1>3, <2>5
    <3> QED
      BY <1>4, <2>3, <3>1
  <2> QED
    BY <2>4, <2>5
<1> QED
  BY <1>3, <1>4, <1>5 DEF IsRun

\* The estimate of every window the router may ask for is the one that all the
\* candles ever received give, whatever was pruned or swept.
THEOREM EstimatesAreReference == Spec => []EstimateIsReference
<1>1. VolumeInv => EstimateIsReference
  <2> SUFFICES ASSUME VolumeInv, NEW l \in Legs, NEW d \in Timeframes,
                      NEW t \in (now - 2 * Slack)..now
               PROVE  LET e == EstimateMarketVolume(buckets[l], d, Minute(t))
                          r == Reference(fed[l], d, Minute(t))
                      IN  /\ e.known = r.den
                          /\ e.known > 0 => e.num * r.den = r.num * e.den
                          /\ e.known = 0 => e.num = 0
    BY DEF EstimateIsReference
  <2> DEFINE end == Minute(t)
             n   == KnownMinutes(buckets[l], d, end)
             sum == TotalVolume(buckets[l], n, end)
             e   == EstimateMarketVolume(buckets[l], d, end)
             r   == Reference(fed[l], d, end)
  <2>1. now \in Nat /\ d \in Nat /\ d >= 1 /\ end \in Int /\ SeriesOK(fed[l]) /\ KeptInv(l)
    BY RetentionFacts DEF VolumeInv, LegInv, Minute
  <2>2. IsRun(buckets[l], d, end, n)
    BY <2>1, KnownIsRun
  <2>3. n \in 0..d /\ \A k \in 0..(n - 1) : end - k \in DOMAIN buckets[l]
    BY <2>2 DEF IsRun
  <2>4. Max({k \in 0..d : (end - k + 1)..end \subseteq DOMAIN fed[l]}) = n
    <3>1. IsRun(fed[l], d, end, n)
      BY <2>2, SameRun
    <3> HIDE DEF end, n
    <3> QED
      BY <2>1, <3>1, ReferenceRun DEF SeriesOK
  <2>5. \A k \in 0..(n - 1) : buckets[l][end - k] = fed[l][end - k] /\ buckets[l][end - k] \in Nat
    BY <2>1, <2>3 DEF KeptInv, SeriesOK
  <2>6. TotalVolume(buckets[l], n, end) = TotalVolume(fed[l], n, end)
    <3> HIDE DEF end, n
    <3>1. n \in Nat /\ \A k \in 0..(n - 1) : buckets[l][end - k] = fed[l][end - k]
      BY <2>3, <2>5
    <3> QED
      BY <2>1, <3>1, TotalsAgree
  <2>7. sum \in Nat /\ (n = 0 => sum = 0)
    <3> DEFINE f == buckets[l]
    <3> HIDE DEF end, n
    <3>1. n \in Nat /\ end \in Int /\ \A k \in 0..(n - 1) : f[end - k] \in Nat
      BY <2>1, <2>3, <2>5
    <3> HIDE DEF f
    <3>2. TotalVolume(f, n, end) \in Nat /\ (n = 0 => TotalVolume(f, n, end) = 0)
      BY <3>1, TotalNatural
    <3> QED
      BY <3>2 DEF f
  <2>8. r = [num |-> sum * d, den |-> n]
    BY <2>4, <2>6 DEF Reference
  <2>9. e = [num |-> IF n = d THEN sum ELSE sum * d, den |-> IF n \in {0, d} THEN 1 ELSE n,
             known |-> n, complete |-> n = d]
    BY DEF EstimateMarketVolume
  <2> HIDE DEF end, n, sum, e, r
  <2>10. e.known = n /\ r.den = n /\ r.num = sum * d
    BY <2>8, <2>9
  <2>11. /\ e.known = r.den /\ (e.known > 0 => e.num * r.den = r.num * e.den)
         /\ (e.known = 0 => e.num = 0)
    <3>1. CASE n = 0
      <4>1. e.num = 0
        BY <2>1, <2>7, <2>9, <3>1
      <4> QED
        BY <2>10, <3>1, <4>1
    <3>2. CASE n = d
      <4>1. e.num = sum /\ e.den = 1
        BY <2>9, <3>2
      <4> QED
        BY <2>1, <2>7, <2>10, <3>2, <4>1
    <3>3. CASE n # 0 /\ n # d
      <4>1. e.num = sum * d /\ e.den = n
        BY <2>9, <3>3
      <4> QED
        BY <2>3, <2>10, <3>3, <4>1
    <3> QED
      BY <3>1, <3>2, <3>3
  <2> QED
    BY <2>11 DEF e, r, end
<1> QED
  BY <1>1, Inductive, PTL

\* Two runs of a series for the same window are one.
LEMMA OneRun ==
    ASSUME NEW f, NEW d \in Nat, NEW end \in Int, NEW n, NEW k, IsRun(f, d, end, n), IsRun(f, d, end, k)
    PROVE  n = k
<1>1. n \in 0..d /\ (n = d \/ end - n \notin DOMAIN f) /\ \A j \in 0..(n - 1) : end - j \in DOMAIN f
  BY DEF IsRun
<1>2. k \in 0..d /\ (k = d \/ end - k \notin DOMAIN f) /\ \A j \in 0..(k - 1) : end - j \in DOMAIN f
  BY DEF IsRun
<1>3. ~(n < k)
  BY <1>1, <1>2
<1>4. ~(k < n)
  BY <1>1, <1>2
<1> QED
  BY <1>1, <1>2, <1>3, <1>4

\* In a window the router may ask for, the kept series and everything received
\* give the same estimate.
LEMMA SameEstimate ==
    ASSUME VolumeInv, NEW l \in Legs, NEW d \in Timeframes, NEW t \in (now - 2 * Slack)..now
    PROVE  EstimateMarketVolume(buckets[l], d, Minute(t)) = EstimateMarketVolume(fed[l], d, Minute(t))
<1> DEFINE end == Minute(t)
           n   == KnownMinutes(buckets[l], d, end)
           k   == KnownMinutes(fed[l], d, end)
<1>1. now \in Nat /\ d \in Nat /\ end \in Int /\ KeptInv(l)
  BY RetentionFacts DEF VolumeInv, LegInv, Minute
<1>2. IsRun(buckets[l], d, end, n) /\ IsRun(fed[l], d, end, k)
  BY <1>1, KnownIsRun
<1>3. IsRun(fed[l], d, end, n)
  BY <1>2, SameRun
<1>4. n = k
  <2> HIDE DEF end, n, k
  <2> QED
    BY <1>1, <1>2, <1>3, OneRun
<1>5. n \in Nat /\ \A j \in 0..(n - 1) : buckets[l][end - j] = fed[l][end - j]
  <2> HIDE DEF end, n, k
  <2> QED
    BY <1>1, <1>2 DEF IsRun, KeptInv
<1>6. TotalVolume(buckets[l], n, end) = TotalVolume(fed[l], n, end)
  <2> HIDE DEF end, n, k
  <2> QED
    BY <1>1, <1>5, TotalsAgree
<1> QED
  BY <1>4, <1>6 DEF EstimateMarketVolume

\* The smaller of two numbers is one of them.
LEMMA MinOfTwo ==
    ASSUME NEW x \in Nat, NEW y \in Nat
    PROVE  Min({x, y}) \in Nat /\ Min({x, y}) <= x /\ Min({x, y}) <= y
<1>1. \E z \in {x, y} : \A w \in {x, y} : z <= w
  BY SMT
<1>2. Min({x, y}) \in {x, y} /\ \A w \in {x, y} : Min({x, y}) <= w
  BY <1>1 DEF Min
<1> QED
  BY <1>2

\* What reaches a user's minimum at the opening passes the upper bound, and the
\* router's later looks at that window are those of the full history.
THEOREM PrefiltersAreConservative == Spec => []PrefiltersConservative
<1>1. ASSUME NEW u \in UserSet, NEW tickers \in [Legs -> Volumes], NEW b \in Legs, NEW s \in Legs,
             AtLeast(RouteVolume(buckets, u, b, s, tickers, now), u.min)
      PROVE  SymbolMayPassVolume({u}, tickers, {b, s})
  <2>1. u.min \in Nat /\ tickers[b] \in Nat /\ tickers[s] \in Nat
    BY VolumeAssumption DEF VolumeAssumption
  <2>2. CASE u.tf = Day
    <3> DEFINE q == Min({tickers[b], tickers[s]})
    <3>1. q \in Nat /\ q <= tickers[b]
      BY <2>1, MinOfTwo
    <3>2. q >= u.min * 1
      BY <1>1, <2>2 DEF RouteVolume, AtLeast, Day24
    <3> HIDE DEF q
    <3>3. tickers[b] >= u.min
      BY <2>1, <3>1, <3>2
    <3> QED
      BY <2>2, <3>3 DEF SymbolMayPassVolume
  <2>3. CASE u.tf # Day
    <3> DEFINE x == EstimateMarketVolume(buckets[b], u.tf, Minute(now))
               y == EstimateMarketVolume(buckets[s], u.tf, Minute(now))
               v == GetRouteVolumeEstimate(buckets, b, s, u.tf, Minute(now))
    <3>1. AtLeast(v, u.min)
      BY <1>1, <2>3 DEF RouteVolume
    <3>2. CASE x.known = 0 \/ y.known = 0
      <4>1. v = NoEstimate
        BY <3>2 DEF GetRouteVolumeEstimate
      <4>2. 0 >= u.min * 1
        BY <3>1, <4>1 DEF AtLeast, NoEstimate
      <4>3. u.min = 0
        BY <2>1, <4>2
      <4> QED
        BY <4>3 DEF SymbolMayPassVolume
    <3>3. CASE ~(x.known = 0 \/ y.known = 0)
      <4>1. \/ v.num = x.num /\ v.den = x.den
            \/ v.num = y.num /\ v.den = y.den
        BY <3>3 DEF GetRouteVolumeEstimate
      <4>2. AtLeast(x, u.min) \/ AtLeast(y, u.min)
        <5> HIDE DEF x, y, v
        <5> QED
          BY <3>1, <4>1 DEF AtLeast
      <4> QED
        BY <2>3, <4>2 DEF SymbolMayPassVolume
    <3> QED
      BY <3>2, <3>3
  <2> QED
    BY <2>2, <2>3
<1>2. ASSUME VolumeInv, NEW u \in UserSet, NEW tickers \in [Legs -> Volumes], NEW b \in Legs, NEW s \in Legs,
             NEW openedAt \in (now - 2 * Slack)..now
      PROVE  RouterAccepts(buckets, u, b, s, tickers, openedAt) <=> RouterAccepts(fed, u, b, s, tickers, openedAt)
  <2>1. CASE u.tf = Day
    BY <2>1 DEF RouterAccepts, RouteVolume
  <2>2. CASE u.tf # Day
    <3>1. u.tf \in Timeframes
      BY <2>2, VolumeAssumption DEF VolumeAssumption
    <3>2. \A l \in {b, s} : EstimateMarketVolume(buckets[l], u.tf, Minute(openedAt))
                              = EstimateMarketVolume(fed[l], u.tf, Minute(openedAt))
      BY <1>2, <3>1, SameEstimate
    <3>3. GetRouteVolumeEstimate(buckets, b, s, u.tf, Minute(openedAt))
            = GetRouteVolumeEstimate(fed, b, s, u.tf, Minute(openedAt))
      BY <3>2 DEF GetRouteVolumeEstimate
    <3> QED
      BY <3>3 DEF RouterAccepts, RouteVolume
  <2> QED
    BY <2>1, <2>2
<1>3. VolumeInv => PrefiltersConservative
  <2> SUFFICES ASSUME VolumeInv, NEW tickers \in [Legs -> Volumes], NEW b \in Legs, NEW s \in Legs \ {b}
               PROVE  /\ \A users \in SUBSET UserSet :
                            RouteVolumeEligible(users, b, s, tickers)
                                => SymbolMayPassVolume(users, tickers, {b, s})
                      /\ \A u \in UserSet, openedAt \in (now - 2 * Slack)..now :
                            RouterAccepts(buckets, u, b, s, tickers, openedAt)
                                <=> RouterAccepts(fed, u, b, s, tickers, openedAt)
    BY DEF PrefiltersConservative
  <2>1. ASSUME NEW users \in SUBSET UserSet, RouteVolumeEligible(users, b, s, tickers)
        PROVE  SymbolMayPassVolume(users, tickers, {b, s})
    <3>1. PICK u \in users : AtLeast(RouteVolume(buckets, u, b, s, tickers, now), u.min)
      BY <2>1 DEF RouteVolumeEligible
    <3>2. SymbolMayPassVolume({u}, tickers, {b, s})
      BY <1>1, <3>1
    <3> QED
      BY <3>2 DEF SymbolMayPassVolume
  <2>2. \A u \in UserSet, openedAt \in (now - 2 * Slack)..now :
            RouterAccepts(buckets, u, b, s, tickers, openedAt) <=> RouterAccepts(fed, u, b, s, tickers, openedAt)
    BY <1>2
  <2> QED
    BY <2>1, <2>2
<1> QED
  BY <1>3, Inductive, PTL
=============================================================================
