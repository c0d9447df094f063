---------------------------- MODULE PanelProofs ----------------------------
(***************************************************************************)
(* Theorems about what is made of the panel's readings: the runs a history *)
(* is cut into (Segments), what a probe concludes (Verdicts), whether a    *)
(* circuit is watched for trips (Eligibility), which devices are placed on *)
(* one (Attribution) and which changes are matched with its runs           *)
(* (Correlation), for any histories, devices, panels and limits.           *)
(***************************************************************************)
EXTENDS Segments, Verdicts, Eligibility, Attribution, Correlation,
        FiniteSetTheorems, WellFoundedInduction, TLAPS

-----------------------------------------------------------------------------
(* Segments.                                                               *)

On == {i \in DOMAIN samples : samples[i].on}

\* A dip that was seen to last longer than the tolerance begins after i.
PausedAfter(i) == \E k \in DOMAIN samples :
  /\ k > i /\ \A m \in i + 1 .. k : m \notin On
  /\ samples[k].at - samples[i].at > GAP_S

StartsWhole(i) == \A j \in On : j < i => \E k \in On : j <= k /\ k < i /\ PausedAfter(k)

Unbroken(i, j) == \A k \in On : i <= k /\ k < j => ~PausedAfter(k)

Whole == {r \in On \X On :
  /\ r[1] <= r[2]
  /\ Unbroken(r[1], r[2])
  /\ StartsWhole(r[1])
  /\ (\E i \in On : i > r[2]) => PausedAfter(r[2])}

Long(r) == samples[r[2]].at - samples[r[1]].at >= MIN_RUN_S

Found == {runs[k] : k \in DOMAIN runs}

SegmentsTypes ==
  /\ samples \in Seq([at : Int, on : BOOLEAN])
  /\ next \in 1 .. Len(samples) + 2
  /\ startI \in Int /\ lastOnI \in Int
  /\ runs \in Seq((DOMAIN samples) \X (DOMAIN samples))

\* No run is being followed: one that began now would be a new one.
Idle == startI = 0 /\ lastOnI = 0 /\ StartsWhole(next)

\* One is: it began where a run begins, and has not been broken yet.
Following ==
  /\ startI \in On /\ lastOnI \in On
  /\ startI <= lastOnI /\ lastOnI < next
  /\ \A m \in lastOnI + 1 .. next - 1 :
       m \notin On /\ samples[m].at - samples[lastOnI].at <= GAP_S
  /\ Unbroken(startI, lastOnI)
  /\ StartsWhole(startI)

\* The runs emitted are those that ended before the one being followed.
SegmentsInv ==
  /\ SegmentsTypes
  /\ next <= Len(samples) + 1 => Idle \/ Following
  /\ next = Len(samples) + 2 => startI = 0 /\ lastOnI = 0
  /\ Found = {r \in Whole : Long(r) /\ r[2] < IF startI = 0 THEN next ELSE startI}

\* The tolerances are numbers and the histories are of samples.
LEMMA SegmentsInitInv ==
  SegmentsInit => SegmentsInv
<1> SUFFICES ASSUME SegmentsInit PROVE SegmentsInv
  OBVIOUS
<1>1. SegmentsTypes
  BY SegmentsAssumption DEF SegmentsInit, SegmentsTypes
<1>2. Idle
  BY <1>1 DEF SegmentsInit, SegmentsTypes, Idle, On, StartsWhole
<1>3. Found = {}
  BY DEF SegmentsInit, Found
<1>4. {r \in Whole : Long(r) /\ r[2] < 1} = {}
  BY <1>1 DEF Whole, On, SegmentsTypes
<1> QED
  BY <1>1, <1>2, <1>3, <1>4 DEF SegmentsInit, SegmentsInv, SegmentsTypes

\* What depends on the samples alone does not change.
LEMMA SamplesStay ==
  ASSUME samples' = samples
  PROVE  /\ On' = On
         /\ Whole' = Whole
         /\ \A i : PausedAfter(i)' = PausedAfter(i)
         /\ \A i : StartsWhole(i)' = StartsWhole(i)
         /\ \A i, j : Unbroken(i, j)' = Unbroken(i, j)
         /\ \A r : Long(r)' = Long(r)
BY DEF On, Whole, PausedAfter, StartsWhole, Unbroken, Long

\* Samples are numbered.
LEMMA OnType ==
  ASSUME SegmentsTypes
  PROVE  On \subseteq Nat
BY DEF On, SegmentsTypes

\* Their times are numbers.
LEMMA TimesType ==
  ASSUME SegmentsTypes, NEW i \in DOMAIN samples
  PROVE  samples[i].at \in Int
<1> DEFINE Sample == [at : Int, on : BOOLEAN]
<1>1. samples \in Seq(Sample)
  BY DEF SegmentsTypes
<1>2. samples[i] \in Sample
  <2> HIDE DEF Sample
  <2> QED
    BY <1>1
<1> QED
  BY <1>2

\* A whole run that ends in the run being followed is that run.
LEMMA OneWholeRun ==
  ASSUME SegmentsTypes, Following, NEW r \in Whole, startI <= r[2], r[2] < next
  PROVE  r = <<startI, lastOnI>>
<1>1. PICK i \in On, j \in On : r = <<i, j>>
  BY DEF Whole
<1>2. /\ i <= j /\ Unbroken(i, j) /\ StartsWhole(i)
      /\ (\E k \in On : k > j) => PausedAfter(j)
  BY <1>1 DEF Whole
<1>3. i \in Nat /\ j \in Nat /\ startI \in Nat /\ lastOnI \in Nat /\ next \in Nat
  BY OnType DEF Following, SegmentsTypes
<1>4. startI <= j /\ j < next
  BY <1>1
<1>5. j = lastOnI
  <2>1. ~(lastOnI < j)
    BY <1>3, <1>4 DEF Following
  <2>2. ~(j < lastOnI)
    <3> SUFFICES ASSUME j < lastOnI PROVE FALSE
      OBVIOUS
    <3>1. PausedAfter(j)
      BY <1>2, <1>3 DEF Following
    <3> QED
      BY <3>1, <1>4 DEF Following, Unbroken
  <2> QED
    BY <2>1, <2>2, <1>3
<1>6. ~(i < startI)
  <2> SUFFICES ASSUME i < startI PROVE FALSE
    OBVIOUS
  <2>1. PICK k \in On : i <= k /\ k < startI /\ PausedAfter(k)
    BY <1>1 DEF Following, StartsWhole
  <2>2. k < j
    BY <2>1, <1>3, <1>4, OnType
  <2> QED
    BY <2>1, <2>2, <1>2 DEF Unbroken
<1>7. ~(startI < i)
  <2> SUFFICES ASSUME startI < i PROVE FALSE
    OBVIOUS
  <2>1. PICK k \in On : startI <= k /\ k < i /\ PausedAfter(k)
    BY <1>2 DEF Following, StartsWhole
  <2>2. k < lastOnI
    BY <2>1, <1>2, <1>3, <1>5, OnType
  <2> QED
    BY <2>1, <2>2 DEF Following, Unbroken
<1> QED
  BY <1>1, <1>3, <1>5, <1>6, <1>7

\* When it is over it is whole, and no other whole run ends before the next sample.
LEMMA FollowedRunIsWhole ==
  ASSUME SegmentsTypes, Following, (\E i \in On : i > lastOnI) => PausedAfter(lastOnI)
  PROVE  {r \in Whole : Long(r) /\ r[2] < next} =
           {r \in Whole : Long(r) /\ r[2] < startI}
             \cup {r \in {<<startI, lastOnI>>} : Long(r)}
<1> DEFINE f == <<startI, lastOnI>>
<1>1. f \in Whole
  BY DEF Following, Whole
<1>2. startI \in Nat /\ lastOnI \in Nat /\ next \in Nat /\ startI <= lastOnI /\ lastOnI < next
  BY OnType DEF Following, SegmentsTypes
<1>3. \A r \in Whole : r[2] \in Nat
  BY OnType DEF Whole
<1>4. \A r \in Whole : r[2] < startI => r[2] < next
  BY <1>2, <1>3
<1>5. \A r \in Whole : r[2] < next /\ ~(r[2] < startI) => r = f
  <2> SUFFICES ASSUME NEW r \in Whole, r[2] < next, ~(r[2] < startI) PROVE r = f
    OBVIOUS
  <2>1. startI <= r[2]
    BY <1>2, <1>3
  <2> QED
    BY <2>1, OneWholeRun
<1>6. f[2] < next
  BY <1>2
<1> QED
  BY <1>1, <1>4, <1>5, <1>6

\* What has been emitted grows by the run that is over, if it is long enough.
LEMMA EmittedFound ==
  ASSUME SegmentsTypes, NEW i \in DOMAIN samples, NEW j \in DOMAIN samples,
         samples' = samples, runs' = Emitted(i, j)
  PROVE  /\ runs' \in Seq((DOMAIN samples) \X (DOMAIN samples))
         /\ Found' = Found \cup {r \in {<<i, j>>} : Long(r)}
<1>1. samples[i].at \in Int /\ samples[j].at \in Int /\ MIN_RUN_S \in Nat
  BY SegmentsAssumption, TimesType
<1>2. Long(<<i, j>>) <=> ~(samples[j].at - samples[i].at < MIN_RUN_S)
  BY <1>1 DEF Long
<1>3. CASE Long(<<i, j>>)
  <2>1. runs' = Append(runs, <<i, j>>)
    BY <1>2, <1>3 DEF Emitted
  <2>2. /\ Len(runs) \in Nat /\ DOMAIN runs = 1 .. Len(runs)
        /\ DOMAIN runs' = 1 .. Len(runs) + 1
        /\ runs'[Len(runs) + 1] = <<i, j>>
        /\ \A k \in DOMAIN runs : runs'[k] = runs[k]
    BY <2>1 DEF SegmentsTypes
  <2>3. Found' = Found \cup {<<i, j>>}
    <3>1. \A k \in DOMAIN runs' : k \in DOMAIN runs \/ k = Len(runs) + 1
      BY <2>2
    <3>2. DOMAIN runs \subseteq DOMAIN runs' /\ Len(runs) + 1 \in DOMAIN runs'
      BY <2>2
    <3> QED
      BY <3>1, <3>2, <2>2 DEF Found
  <2>4. runs \in Seq((DOMAIN samples) \X (DOMAIN samples))
    BY DEF SegmentsTypes
  <2>5. runs' \in Seq((DOMAIN samples) \X (DOMAIN samples))
    BY <2>1, <2>4
  <2> QED
    BY <2>3, <2>5, <1>3
<1>4. CASE ~Long(<<i, j>>)
  BY <1>2, <1>4 DEF Emitted, Found, SegmentsTypes
<1> QED
  BY <1>3, <1>4

\* A sample above the threshold begins a run or goes on with it.
LEMMA AboveInv ==
  ASSUME SegmentsInv, AboveThreshold
  PROVE  SegmentsInv'
<1>1. /\ SegmentsTypes /\ next <= Len(samples) /\ next \in Nat \ {0} /\ next \in On
      /\ Len(samples) \in Nat /\ DOMAIN samples = 1 .. Len(samples)
      /\ samples' = samples /\ runs' = runs /\ next' = next + 1 /\ lastOnI' = next
  BY DEF SegmentsInv, SegmentsTypes, AboveThreshold, On
<1>2. Idle \/ Following
  BY <1>1 DEF SegmentsInv
<1>3. SegmentsTypes'
  BY <1>1, <1>2 DEF SegmentsTypes, AboveThreshold
<1>4. Found' = Found
  BY <1>1 DEF Found
<1>5. CASE Idle
  <2>1. startI' = next
    BY <1>5 DEF Idle, AboveThreshold
  <2>2. Following'
    <3>1. Unbroken(next, next)
      BY <1>1, OnType DEF Unbroken
    <3>2. StartsWhole(next)
      BY <1>5 DEF Idle
    <3> QED
      BY <3>1, <3>2, <2>1, <1>1, SamplesStay DEF Following
  <2>3. Found' = {r \in Whole : Long(r) /\ r[2] < next}
    BY <1>4, <1>5 DEF SegmentsInv, Idle
  <2>4. Found' = {r \in Whole : Long(r) /\ r[2] < startI}'
    BY <2>1, <2>3, <1>1, SamplesStay
  <2>5. startI' # 0 /\ next' <= Len(samples') + 1 /\ next' # Len(samples') + 2
    BY <2>1, <1>1
  <2> QED
    BY <2>2, <2>4, <2>5, <1>3 DEF SegmentsInv
<1>6. CASE Following
  <2>1. startI' = startI /\ startI # 0 /\ startI \in Nat /\ lastOnI \in Nat
    BY <1>1, <1>6, OnType DEF Following, AboveThreshold, On
  <2>2. ~PausedAfter(lastOnI)
    <3> SUFFICES ASSUME NEW k \in DOMAIN samples, k > lastOnI,
                        \A m \in lastOnI + 1 .. k : m \notin On,
                        samples[k].at - samples[lastOnI].at > GAP_S
                 PROVE  FALSE
      BY DEF PausedAfter
    <3>1. k < next
      <4>1. ~(next \in lastOnI + 1 .. k)
        BY <1>1
      <4> QED
        BY <4>1, <2>1, <1>1, <1>6 DEF Following
    <3>2. samples[k].at - samples[lastOnI].at <= GAP_S
      BY <3>1, <2>1, <1>1, <1>6 DEF Following
    <3>3. samples[k].at \in Int /\ samples[lastOnI].at \in Int /\ GAP_S \in Nat
      BY <1>1, <1>6, TimesType, SegmentsAssumption DEF Following, On
    <3> QED
      BY <3>2, <3>3
  <2>3. Unbroken(startI, next)
    <3> SUFFICES ASSUME NEW k \in On, startI <= k, k < next PROVE ~PausedAfter(k)
      BY DEF Unbroken
    <3>1. k \in Nat /\ ~(k \in lastOnI + 1 .. next - 1)
      BY <1>1, <1>6, OnType DEF Following
    <3>2. k = lastOnI \/ k < lastOnI
      BY <3>1, <2>1, <1>1
    <3> QED
      BY <3>2, <2>2, <1>6 DEF Following, Unbroken
  <2>4. Following'
    BY <2>1, <2>3, <1>1, <1>6, SamplesStay DEF Following
  <2>5. Found' = {r \in Whole : Long(r) /\ r[2] < startI}
    BY <2>1, <1>4 DEF SegmentsInv
  <2> QED
    BY <2>1, <2>4, <2>5, <1>1, <1>3, SamplesStay DEF SegmentsInv
<1> QED
  BY <1>2, <1>5, <1>6

\* A sample below it ends a run if the pause has become too long.
LEMMA BelowInv ==
  ASSUME SegmentsInv, BelowThreshold
  PROVE  SegmentsInv'
<1>1. /\ SegmentsTypes /\ next <= Len(samples) /\ next \in Nat \ {0} /\ next \notin On
      /\ Len(samples) \in Nat /\ DOMAIN samples = 1 .. Len(samples)
      /\ samples' = samples /\ next' = next + 1
  BY DEF SegmentsInv, SegmentsTypes, BelowThreshold, On
<1>2. Idle \/ Following
  BY <1>1 DEF SegmentsInv
<1>3. next' <= Len(samples') + 1 /\ next' # Len(samples') + 2
  BY <1>1
<1>4. \A r \in Whole : r[2] \in Nat /\ r[2] # next
  BY <1>1, OnType DEF Whole
<1>5. {r \in Whole : Long(r) /\ r[2] < next + 1} = {r \in Whole : Long(r) /\ r[2] < next}
  <2>1. \A r \in Whole : r[2] < next + 1 <=> r[2] < next
    BY <1>1, <1>4
  <2> QED
    BY <2>1
<1>6. CASE startI = 0
  <2>1. startI' = 0 /\ lastOnI' = 0 /\ runs' = runs
    BY <1>1, <1>2, <1>6 DEF BelowThreshold, Idle, Following, On
  <2>2. Idle'
    <3>1. StartsWhole(next)
      BY <1>1, <1>2, <1>6 DEF Idle, Following, On
    <3>2. StartsWhole(next + 1)
      <4> SUFFICES ASSUME NEW j \in On, j < next + 1
                   PROVE  \E k \in On : j <= k /\ k < next + 1 /\ PausedAfter(k)
        BY DEF StartsWhole
      <4>1. j \in Nat /\ j < next
        BY <1>1, OnType
      <4>2. PICK k \in On : j <= k /\ k < next /\ PausedAfter(k)
        BY <3>1, <4>1 DEF StartsWhole
      <4>3. k < next + 1
        BY <4>2, <1>1, OnType
      <4> QED
        BY <4>2, <4>3
    <3> QED
      BY <3>2, <2>1, <1>1, SamplesStay DEF Idle
  <2>3. SegmentsTypes'
    BY <2>1, <1>1 DEF SegmentsTypes
  <2>4. Found = {r \in Whole : Long(r) /\ r[2] < next}
    BY <1>6 DEF SegmentsInv
  <2>5. Found' = {r \in Whole : Long(r) /\ r[2] < next}'
    BY <2>1, <2>4, <1>1, <1>5, SamplesStay DEF Found
  <2> QED
    BY <2>1, <2>2, <2>3, <2>5, <1>1, <1>3 DEF SegmentsInv
<1>7. CASE startI # 0 /\ ~Paused
  <2>1. startI' = startI /\ lastOnI' = lastOnI /\ runs' = runs /\ Following
    BY <1>2, <1>7 DEF BelowThreshold, Idle
  <2>2. SegmentsTypes'
    BY <2>1, <1>1 DEF SegmentsTypes
  <2>3. samples[next].at - samples[lastOnI].at <= GAP_S
    <3>1. samples[next].at \in Int /\ samples[lastOnI].at \in Int /\ GAP_S \in Nat
      BY <2>1, <1>1, TimesType, SegmentsAssumption DEF Following, On
    <3> QED
      BY <3>1, <1>7 DEF Paused
  <2>4. Following'
    <3>1. ASSUME NEW m \in lastOnI + 1 .. next
          PROVE  m \notin On /\ samples[m].at - samples[lastOnI].at <= GAP_S
      <4>1. m = next \/ m \in lastOnI + 1 .. next - 1
        BY <1>1, <2>1, OnType DEF Following
      <4> QED
        BY <4>1, <2>1, <2>3, <1>1 DEF Following
    <3>2. lastOnI < next + 1
      BY <1>1, <2>1, OnType DEF Following
    <3>3. next' - 1 = next
      BY <1>1
    <3> QED
      BY <3>1, <3>2, <3>3, <2>1, <1>1, SamplesStay DEF Following
  <2>5. Found = {r \in Whole : Long(r) /\ r[2] < startI}
    BY <1>7 DEF SegmentsInv
  <2>6. Found' = {r \in Whole : Long(r) /\ r[2] < startI}'
    BY <2>1, <2>5, <1>1, SamplesStay DEF Found
  <2> QED
    BY <2>1, <2>2, <2>4, <2>6, <1>3, <1>7 DEF SegmentsInv
<1>8. CASE startI # 0 /\ Paused
  <2>1. startI' = 0 /\ lastOnI' = 0 /\ runs' = Emitted(startI, lastOnI) /\ Following
    BY <1>2, <1>8 DEF BelowThreshold, Idle
  <2>2. startI \in DOMAIN samples /\ lastOnI \in DOMAIN samples /\ lastOnI \in Nat
    BY <2>1, OnType, <1>1 DEF Following, On
  <2>3. PausedAfter(lastOnI)
    <3>1. \A m \in lastOnI + 1 .. next : m \notin On
      <4> SUFFICES ASSUME NEW m \in lastOnI + 1 .. next PROVE m \notin On
        OBVIOUS
      <4>1. m = next \/ m \in lastOnI + 1 .. next - 1
        BY <1>1, <2>2
      <4> QED
        BY <4>1, <2>1, <1>1 DEF Following
    <3>2. next > lastOnI
      BY <1>1, <2>1, <2>2 DEF Following
    <3> QED
      BY <3>1, <3>2, <1>1, <1>8 DEF PausedAfter, Paused
  <2>4. /\ runs' \in Seq((DOMAIN samples) \X (DOMAIN samples))
        /\ Found' = Found \cup {r \in {<<startI, lastOnI>>} : Long(r)}
    BY <2>1, <2>2, <1>1, EmittedFound
  <2>5. SegmentsTypes'
    BY <2>1, <2>4, <1>1 DEF SegmentsTypes
  <2>6. Idle'
    <3> SUFFICES ASSUME NEW j \in On, j < next + 1
                 PROVE  \E k \in On : j <= k /\ k < next + 1 /\ PausedAfter(k)
      BY <2>1, <1>1, SamplesStay DEF Idle, StartsWhole
    <3>1. j \in Nat /\ j # next /\ ~(j \in lastOnI + 1 .. next - 1)
      BY <1>1, <2>1, OnType DEF Following
    <3>2. j <= lastOnI /\ lastOnI < next + 1
      BY <3>1, <1>1, <2>1, <2>2 DEF Following
    <3> QED
      BY <3>2, <2>1, <2>3 DEF Following
  <2>7. Found = {r \in Whole : Long(r) /\ r[2] < startI}
    BY <1>8 DEF SegmentsInv
  <2>8. Found' = {r \in Whole : Long(r) /\ r[2] < next + 1}
    BY <2>1, <2>3, <2>4, <2>7, <1>1, <1>5, FollowedRunIsWhole
  <2>9. Found' = {r \in Whole : Long(r) /\ r[2] < next}'
    BY <2>8, <1>1, SamplesStay
  <2> QED
    BY <2>1, <2>5, <2>6, <2>9, <1>1, <1>3 DEF SegmentsInv
<1> QED
  BY <1>6, <1>7, <1>8

\* The end of the history ends the run being followed.
LEMMA EndInv ==
  ASSUME SegmentsInv, EndOfHistory
  PROVE  SegmentsInv'
<1>1. /\ SegmentsTypes /\ next = Len(samples) + 1 /\ next \in Nat
      /\ Len(samples) \in Nat /\ DOMAIN samples = 1 .. Len(samples)
      /\ samples' = samples /\ next' = next + 1 /\ startI' = 0 /\ lastOnI' = 0
  BY DEF SegmentsInv, SegmentsTypes, EndOfHistory
<1>2. Idle \/ Following
  BY <1>1 DEF SegmentsInv
<1>3. On \subseteq 1 .. next - 1
  BY <1>1 DEF On
<1>4. {r \in Whole : Long(r) /\ r[2] < next + 1} = {r \in Whole : Long(r) /\ r[2] < next}
  <2>1. \A r \in Whole : r[2] \in On
    BY DEF Whole
  <2>2. \A i \in On : i < next + 1 /\ i < next
    BY <1>1, <1>3
  <2> QED
    BY <2>1, <2>2
<1>5. /\ runs' \in Seq((DOMAIN samples) \X (DOMAIN samples))
      /\ Found' = {r \in Whole : Long(r) /\ r[2] < next}
  <2>1. CASE startI = 0
    BY <2>1 DEF EndOfHistory, Found, SegmentsInv, SegmentsTypes
  <2>2. CASE startI # 0
    <3>1. runs' = Emitted(startI, lastOnI) /\ Following
      BY <1>2, <2>2 DEF EndOfHistory, Idle
    <3>2. startI \in DOMAIN samples /\ lastOnI \in DOMAIN samples
      BY <3>1 DEF Following, On
    <3>3. ~ \E i \in On : i > lastOnI
      <4> SUFFICES ASSUME NEW i \in On, i > lastOnI PROVE FALSE
        OBVIOUS
      <4>1. i \in lastOnI + 1 .. next - 1
        BY <1>1, <1>3, <3>2
      <4> QED
        BY <4>1, <3>1 DEF Following
    <3>4. Found = {r \in Whole : Long(r) /\ r[2] < startI}
      BY <2>2 DEF SegmentsInv
    <3> QED
      BY <3>1, <3>2, <3>3, <3>4, <1>1, EmittedFound, FollowedRunIsWhole
  <2> QED
    BY <2>1, <2>2
<1>6. Found' = {r \in Whole : Long(r) /\ r[2] < next}'
  BY <1>1, <1>4, <1>5, SamplesStay
<1>7. SegmentsTypes'
  BY <1>1, <1>5 DEF SegmentsTypes
<1>8. next' = Len(samples') + 2 /\ ~(next' <= Len(samples') + 1)
  BY <1>1
<1> QED
  BY <1>1, <1>6, <1>7, <1>8 DEF SegmentsInv

\* Every step keeps the invariant.
LEMMA SegmentsStepInv ==
  SegmentsInv /\ [SegmentsNext]_segmenting => SegmentsInv'
<1> SUFFICES ASSUME SegmentsInv, [SegmentsNext]_segmenting PROVE SegmentsInv'
  OBVIOUS
<1>1. CASE UNCHANGED segmenting
  <2>1. samples' = samples /\ UNCHANGED <<next, startI, lastOnI, runs>>
    BY <1>1 DEF segmenting
  <2> QED
    BY <2>1, SamplesStay DEF SegmentsInv, SegmentsTypes, Idle, Following, Found
<1> QED
  BY <1>1, AboveInv, BelowInv, EndInv DEF SegmentsNext

(* The state of the cutting keeps its type, however long the history is.   *)
THEOREM CuttingTypes == SegmentsSpec => []SegmentsTypeOK
<1>1. SegmentsInv => SegmentsTypeOK
  <2> SUFFICES ASSUME SegmentsInv PROVE SegmentsTypeOK
    OBVIOUS
  <2>1. /\ next \in 1 .. Len(samples) + 2 /\ Len(samples) \in Nat
        /\ startI \in Int /\ lastOnI \in Int
        /\ On \subseteq 1 .. Len(samples)
        /\ \A k \in DOMAIN runs : runs[k] \in (DOMAIN samples) \X (DOMAIN samples)
    BY DEF SegmentsInv, SegmentsTypes, On
  <2>2. \/ startI = 0 /\ lastOnI = 0
        \/ startI \in On /\ lastOnI \in On /\ startI <= lastOnI
    BY <2>1 DEF SegmentsInv, Idle, Following
  <2>3. /\ startI \in 0 .. Len(samples) /\ lastOnI \in startI .. Len(samples)
        /\ startI = 0 <=> lastOnI = 0
    BY <2>1, <2>2
  <2> QED
    BY <2>1, <2>3 DEF SegmentsTypeOK
<1> QED
  BY <1>1, SegmentsInitInv, SegmentsStepInv, PTL DEF SegmentsSpec

(* The runs of any history, once it has been read, are its whole runs that *)
(* are long enough, and no others.                                         *)
THEOREM SegmentsAreWhole == SegmentsSpec => []RunsAreWhole
<1>1. SegmentsInv => RunsAreWhole
  <2> SUFFICES ASSUME SegmentsInv, next = Len(samples) + 2
               PROVE  Found = {r \in Whole : Long(r)}
    BY DEF RunsAreWhole, Found, Whole, Long, Unbroken, StartsWhole, PausedAfter, On
  <2>1. \A r \in Whole : r[2] < next
    BY DEF Whole, On, SegmentsInv, SegmentsTypes
  <2>2. startI = 0
    BY DEF SegmentsInv
  <2> QED
    BY <2>1, <2>2 DEF SegmentsInv
<1> QED
  BY <1>1, SegmentsInitInv, SegmentsStepInv, PTL DEF SegmentsSpec

-----------------------------------------------------------------------------
(* Verdicts.                                                               *)

\* Another load of channel c moved in this round as the device would have.
Coincides(r, c) ==
  /\ c \in r.read
  /\ Size(r.moves[c]) >= NOISE_W
  /\ r.metered => Match(r.moves[c], r.meter) >= 1000 - TOLERANCE_M

\* No other load does more than noise, and the device can be seen.
Quiet(r) ==
  /\ load.home \in r.read /\ r.meter # 0
  /\ \A c \in Channels : Size(r.moves[c]) < NOISE_W

\* The draw of a device on the panel stands out from the noise, and noise does not
\* make it another draw.
DrawsStandOut ==
  \A d \in Loads, m \in Steps : d.home # NoChannel /\ Size(m) < NOISE_W =>
    /\ Size(m + d.draw) >= NOISE_W
    /\ Match(m + d.draw, d.draw) >= 1000 - TOLERANCE_M

Round == [answer : Channels \cup {NoChannel}, metered : BOOLEAN, meter : Int \cup {Unread},
          read : SUBSET Channels, moves : [Channels -> Steps]]

\* What each round shows.
RoundOK(r) ==
  /\ r.metered <=> r.meter # Unread
  /\ r.answer \notin {NoChannel, load.home} => Coincides(r, r.answer)
  /\ DrawsStandOut /\ load.home # NoChannel /\ Quiet(r) => r.answer = load.home

VerdictsInv ==
  /\ load \in Loads /\ probes \in Nat /\ fired \in BOOLEAN
  /\ rounds \in Seq(Round) /\ Len(rounds) <= probes
  /\ \A i \in DOMAIN rounds : RoundOK(rounds[i])
  /\ \/ conclusion = Pending
     \/ /\ Len(rounds) = probes /\ probes > 0
        /\ conclusion = [circuit |-> Agree(rounds),
                         confidence |-> Grade(Agree(rounds), fired, rounds)]

\* A change is a perfect match of itself.
LEMMA SelfMatch ==
  ASSUME NEW x \in Int, x # 0
  PROVE  Match(x, x) = 1000
<1> DEFINE y == Size(x)
<1>1. y \in Nat /\ y > 0
  BY DEF Size
<1>2. Min({y, y}) = y /\ Max({y, y}) = y
  BY <1>1 DEF Min, Max
<1>3. (2000 * y + y) \div (2 * y) = 1000
  <2>1. 2000 * y + y = 1000 * (2 * y) + y
    BY <1>1
  <2> QED
    BY <2>1, <1>1
<1> QED
  BY <1>2, <1>3 DEF Match

\* Two of one sign.
LEMMA Product ==
  ASSUME NEW x \in Int, NEW y \in Int, x > 0, y > 0
  PROVE  x * y > 0
OBVIOUS

\* The answer is one of the candidates.
LEMMA DecideType ==
  ASSUME NEW delta, NEW S, NEW expected
  PROVE  Decide(delta, S, expected) \in S \cup {NoChannel}
<1> DEFINE clear(c) == \A d \in S \ {c} :
             Match(delta[c], expected) - Match(delta[d], expected) >= MARGIN
<1> HIDE DEF clear
<1>1. (IF \E c \in S : clear(c) THEN CHOOSE c \in S : clear(c) ELSE NoChannel)
        \in S \cup {NoChannel}
  OBVIOUS
<1> QED
  BY <1>1 DEF Decide, clear

\* What the steps of a round add up to, in a channel.
DeltaOf(moves) ==
  [c \in Channels |-> IF c = load.home THEN moves[c] + load.draw ELSE moves[c]]

\* A step of the call is a round that shows what RoundOK says.
LEMMA ProbeShows ==
  ASSUME VerdictsInv,
         NEW moves \in [Channels -> Steps], NEW read \in SUBSET Channels,
         NEW meter \in {0, load.draw, Unread},
         NEW expected \in Expected(DeltaOf(moves), read, meter),
         NEW r, r = [answer |-> Decide(DeltaOf(moves),
                                       Candidates(DeltaOf(moves), read, expected), expected),
                     metered |-> meter # Unread, meter |-> meter, read |-> read,
                     moves |-> moves]
  PROVE  r \in Round /\ RoundOK(r)
<1> DEFINE delta == DeltaOf(moves)
           candidates == Candidates(delta, read, expected)
<1>1. load \in Loads /\ load.draw \in Nat /\ NOISE_W \in Nat /\ TOLERANCE_M \in Nat
  BY VerdictsAssumption DEF VerdictsInv, Load
<1>2. candidates \subseteq read
  BY DEF Candidates
<1>3. r.answer \in candidates \cup {NoChannel}
  BY DecideType
<1>4. r \in Round
  <2>1. r.answer \in Channels \cup {NoChannel}
    BY <1>2, <1>3
  <2>2. r.meter \in Int \cup {Unread}
    BY <1>1
  <2> QED
    BY <2>1, <2>2 DEF Round
<1>5. /\ r.metered = (meter # Unread) /\ r.meter = meter
      /\ r.read = read /\ r.moves = moves
      /\ r.answer = Decide(delta, candidates, expected)
  OBVIOUS
<1>6. \A c \in Channels : moves[c] \in Int
  BY VerdictsAssumption
<1>7. ASSUME r.answer \notin {NoChannel, load.home}
      PROVE  Coincides(r, r.answer)
  <2>1. r.answer \in candidates /\ r.answer \in read /\ r.answer \in Channels
    BY <1>2, <1>3, <1>7
  <2>2. delta[r.answer] = moves[r.answer]
    BY <2>1, <1>7 DEF DeltaOf
  <2>3. /\ Size(delta[r.answer]) >= NOISE_W
        /\ Match(delta[r.answer], expected) >= 1000 - TOLERANCE_M
    BY <2>1 DEF Candidates
  <2>4. meter # Unread => expected = meter
    BY DEF Expected
  <2>5. r.metered => Match(r.moves[r.answer], r.meter) >= 1000 - TOLERANCE_M
    <3> SUFFICES ASSUME r.metered PROVE Match(moves[r.answer], meter) >= 1000 - TOLERANCE_M
      BY <1>5
    <3>1. expected = meter
      BY <2>4, <1>5
    <3> QED
      BY <3>1, <2>2, <2>3
  <2>6. r.answer \in r.read /\ Size(r.moves[r.answer]) >= NOISE_W
    BY <2>1, <2>2, <2>3, <1>5
  <2> QED
    BY <2>5, <2>6 DEF Coincides
<1>8. ASSUME DrawsStandOut, load.home # NoChannel, Quiet(r)
      PROVE  r.answer = load.home
  <2>0. PICK h : h = load.home
    OBVIOUS
  <2>1. /\ h \in read /\ h \in Channels /\ meter # 0
        /\ \A c \in Channels : Size(moves[c]) < NOISE_W
    BY <2>0, <1>5, <1>8 DEF Quiet
  <2>2. delta[h] = moves[h] + load.draw /\ \A c \in Channels : c # h => delta[c] = moves[c]
    BY <2>0, <2>1 DEF DeltaOf
  <2>3. moves[h] \in Steps /\ Size(moves[h]) < NOISE_W
    BY <2>1
  <2>4. /\ Size(delta[h]) >= NOISE_W
        /\ Match(delta[h], load.draw) >= 1000 - TOLERANCE_M
    BY <2>0, <2>2, <2>3, <1>1, <1>8 DEF DrawsStandOut
  <2>5. delta[h] \in Int /\ delta[h] > 0 /\ NOISE_W > 0
    BY <2>1, <2>2, <2>4, <1>1, <1>6 DEF Size
  <2>6. \A c \in read : c # h => ~(Size(delta[c]) >= NOISE_W)
    BY <2>1, <2>2, <1>1, <1>6 DEF Size
  <2>7. CASE meter # Unread
    <3>1. expected = meter /\ meter = load.draw /\ load.draw > 0
      BY <2>1, <2>7, <1>1 DEF Expected
    <3>2. delta[h] * expected > 0
      BY <3>1, <2>5, <1>1, Product
    <3>3. candidates = {h}
      BY <3>1, <3>2, <2>1, <2>4, <2>6 DEF Candidates
    <3> QED
      <4> HIDE DEF candidates, delta
      <4>1. Decide(delta, candidates, expected) = h
        BY <3>3 DEF Decide
      <4> QED
        BY <4>1, <1>5, <2>0
  <2>8. CASE meter = Unread
    <3>1. PICK x \in read : /\ expected = delta[x]
                            /\ \A y \in read : Size(delta[x]) >= Size(delta[y])
      BY <2>1, <2>8 DEF Expected
    <3>2. Size(delta[x]) >= Size(delta[h])
      BY <3>1, <2>1
    <3>3. x = h
      <4> SUFFICES ASSUME x # h PROVE FALSE
        OBVIOUS
      <4>1. Size(delta[x]) \in Int /\ Size(delta[h]) \in Int
        BY <2>1, <2>2, <2>5, <1>6 DEF Size
      <4> QED
        BY <4>1, <3>2, <2>4, <2>6, <1>1
    <3>4. delta[h] * expected > 0
      BY <3>1, <3>3, <2>5, Product
    <3>5. Match(delta[h], expected) >= 1000 - TOLERANCE_M
      BY <3>1, <3>3, <2>5, <1>1, SelfMatch
    <3>6. candidates = {h}
      BY <3>4, <3>5, <2>1, <2>4, <2>6 DEF Candidates
    <3> QED
      <4> HIDE DEF candidates, delta
      <4>1. Decide(delta, candidates, expected) = h
        BY <3>6 DEF Decide
      <4> QED
        BY <4>1, <1>5, <2>0
  <2> QED
    BY <2>7, <2>8
<1> QED
  BY <1>4, <1>5, <1>7, <1>8 DEF RoundOK

\* Before the first round nothing has been shown.
LEMMA VerdictsInitInv ==
  VerdictsInit => VerdictsInv
<1> SUFFICES ASSUME VerdictsInit PROVE VerdictsInv
  OBVIOUS
<1>1. probes \in Nat /\ 0 <= probes
  <2>1. probes \in 1 .. MaxRounds \/ probes = 0
    BY DEF VerdictsInit
  <2> QED
    BY <2>1, VerdictsAssumption
<1>2. rounds \in Seq(Round) /\ Len(rounds) = 0 /\ DOMAIN rounds = {}
  BY DEF VerdictsInit
<1> QED
  <2>1. \A i \in DOMAIN rounds : RoundOK(rounds[i])
    BY <1>2
  <2>2. load \in Loads /\ fired \in BOOLEAN /\ conclusion = Pending
    BY DEF VerdictsInit
  <2> QED
    BY <1>1, <1>2, <2>1, <2>2 DEF VerdictsInv

\* One more round.
LEMMA ProbeInv ==
  ASSUME VerdictsInv,
         NEW moves \in [Channels -> Steps], NEW read \in SUBSET Channels,
         NEW meter \in {0, load.draw, Unread}, Probe(moves, read, meter)
  PROVE  VerdictsInv'
<1>1. PICK r : /\ rounds' = Append(rounds, r)
               /\ r \in Round /\ RoundOK(r)
  <2>1. PICK expected \in Expected(DeltaOf(moves), read, meter) :
          rounds' = Append(rounds,
             [answer |-> Decide(DeltaOf(moves),
                                Candidates(DeltaOf(moves), read, expected), expected),
              metered |-> meter # Unread, meter |-> meter, read |-> read,
              moves |-> moves])
    BY DEF Probe, DeltaOf
  <2> QED
    BY <2>1, ProbeShows
<1>2. /\ Len(rounds) < probes /\ load' = load /\ probes' = probes /\ fired' = fired
      /\ conclusion' = conclusion
  BY DEF Probe
<1>3. /\ rounds \in Seq(Round) /\ probes \in Nat /\ Len(rounds) \in Nat
      /\ conclusion = Pending
  BY <1>2 DEF VerdictsInv
<1>4. /\ rounds' \in Seq(Round) /\ Len(rounds') = Len(rounds) + 1
      /\ DOMAIN rounds' = 1 .. Len(rounds) + 1 /\ DOMAIN rounds = 1 .. Len(rounds)
      /\ rounds'[Len(rounds) + 1] = r
      /\ \A i \in DOMAIN rounds : rounds'[i] = rounds[i]
  BY <1>1, <1>3
<1>5. \A i \in DOMAIN rounds' : RoundOK(rounds'[i])
  <2>1. \A i \in DOMAIN rounds' : i = Len(rounds) + 1 \/ i \in DOMAIN rounds
    BY <1>3, <1>4
  <2> QED
    BY <2>1, <1>1, <1>4 DEF VerdictsInv
<1>6. \A i \in DOMAIN rounds' : RoundOK(rounds[i])'
  BY <1>2, <1>5 DEF RoundOK, Coincides, Quiet
<1>7. Len(rounds') <= probes
  BY <1>2, <1>3, <1>4
<1> QED
  BY <1>2, <1>3, <1>4, <1>6, <1>7 DEF VerdictsInv, Pending

\* An automation fires before the conclusion, which says so.
LEMMA FiresInv ==
  ASSUME VerdictsInv, AutomationFires
  PROVE  VerdictsInv'
BY DEF VerdictsInv, AutomationFires, RoundOK, Coincides, Quiet, Pending

\* The conclusion is drawn from all rounds.
LEMMA ConcludeInv ==
  ASSUME VerdictsInv, Conclude
  PROVE  VerdictsInv'
BY DEF VerdictsInv, Conclude, RoundOK, Coincides, Quiet, Agree, Grade, Answered

\* Every step keeps the invariant.
LEMMA VerdictsStepInv ==
  VerdictsInv /\ [VerdictsNext]_call => VerdictsInv'
<1> SUFFICES ASSUME VerdictsInv, [VerdictsNext]_call PROVE VerdictsInv'
  OBVIOUS
<1>1. CASE UNCHANGED call
  BY <1>1 DEF call, VerdictsInv, RoundOK, Coincides, Quiet, Pending, Agree, Grade, Answered
<1>2. CASE VerdictsNext
  BY <1>2, ProbeInv, FiresInv, ConcludeInv DEF VerdictsNext
<1> QED
  BY <1>1, <1>2

\* The circuit that is agreed on is the answer of every probe that answered.
LEMMA AgreeOnOne ==
  ASSUME NEW made, NEW n \in Nat, DOMAIN made = 1 .. n, Agree(made) # NoChannel
  PROVE  /\ Answered(made) # {}
         /\ \A i \in Answered(made) : made[i].answer = Agree(made)
<1> DEFINE answers == {made[i].answer : i \in Answered(made)}
           f == [i \in Answered(made) |-> made[i].answer]
<1>1. Cardinality(answers) = 1 /\ Agree(made) = CHOOSE c \in answers : TRUE
  BY DEF Agree
<1>2. IsFiniteSet(Answered(made))
  BY FS_Interval, FS_Subset DEF Answered
<1>3. f \in Surjection(Answered(made), answers)
  BY DEF Surjection
<1>4. IsFiniteSet(answers)
  BY <1>2, <1>3, FS_Surjection
<1>5. PICK c : answers = {c}
  BY <1>1, <1>4, FS_Singleton
<1>6. Agree(made) \in answers
  BY <1>1, <1>5
<1> QED
  BY <1>5, <1>6

\* If every probe gave one circuit, that is agreed on.
LEMMA AllAgree ==
  ASSUME NEW made, NEW c, c # NoChannel, DOMAIN made # {},
         \A i \in DOMAIN made : made[i].answer = c
  PROVE  Agree(made) = c /\ Answered(made) = DOMAIN made
<1> DEFINE answers == {made[i].answer : i \in Answered(made)}
<1>1. Answered(made) = DOMAIN made
  BY DEF Answered
<1>2. answers = {c}
  BY <1>1
<1>3. Cardinality(answers) = 1
  BY <1>2, FS_Singleton
<1>4. (CHOOSE d \in answers : TRUE) = c
  BY <1>2
<1> QED
  BY <1>1, <1>3, <1>4 DEF Agree

\* A call makes no more probes than it may.
LEMMA ProbesBounded ==
  VerdictsSpec => [](probes <= MaxRounds)
<1>1. VerdictsInit => probes <= MaxRounds
  <2> SUFFICES ASSUME VerdictsInit PROVE probes <= MaxRounds
    OBVIOUS
  <2>1. probes \in 1 .. MaxRounds \/ probes = 0
    BY DEF VerdictsInit
  <2> QED
    BY <2>1, VerdictsAssumption
<1>2. probes <= MaxRounds /\ [VerdictsNext]_call => (probes <= MaxRounds)'
  BY DEF VerdictsNext, Probe, AutomationFires, Conclude, call
<1> QED
  BY <1>1, <1>2, PTL DEF VerdictsSpec

(* The state of a call keeps its type: however its probes come out, what   *)
(* is concluded is one channel of the panel or none.                       *)
THEOREM VerdictsTypes == VerdictsSpec => []VerdictsTypeOK
<1>1. VerdictsInv /\ probes <= MaxRounds => VerdictsTypeOK
  <2> SUFFICES ASSUME VerdictsInv, probes <= MaxRounds PROVE VerdictsTypeOK
    OBVIOUS
  <2>1. /\ rounds \in Seq(Round) /\ Len(rounds) \in Nat
        /\ DOMAIN rounds = 1 .. Len(rounds)
        /\ probes \in Nat /\ MaxRounds \in Nat
    BY VerdictsAssumption DEF VerdictsInv
  <2>2. \A i \in DOMAIN rounds : rounds[i].answer \in Channels \cup {NoChannel}
    <3>1. \A r \in Round : r.answer \in Channels \cup {NoChannel}
      BY DEF Round
    <3>2. \A i \in DOMAIN rounds : rounds[i] \in Round
      BY <2>1
    <3> QED
      BY <3>1, <3>2
  <2>3. Agree(rounds) \in Channels \cup {NoChannel}
    <3>1. CASE Agree(rounds) = NoChannel
      BY <3>1
    <3>2. CASE Agree(rounds) # NoChannel
      <4>1. PICK i \in Answered(rounds) : rounds[i].answer = Agree(rounds)
        BY <3>2, <2>1, AgreeOnOne
      <4> QED
        BY <4>1, <2>2 DEF Answered
    <3> QED
      BY <3>1, <3>2
  <2>4. conclusion.circuit \in Channels \cup {NoChannel}
    BY <2>3 DEF VerdictsInv, Pending
  <2>5. load \in Loads /\ fired \in BOOLEAN /\ Len(rounds) <= probes
    BY DEF VerdictsInv
  <2>6. probes \in 0 .. MaxRounds
    BY <2>1
  <2> QED
    BY <2>2, <2>4, <2>5, <2>6 DEF VerdictsTypeOK
<1> QED
  BY <1>1, VerdictsInitInv, VerdictsStepInv, ProbesBounded, PTL DEF VerdictsSpec

\* A wrong answer is measured only if another load of that circuit stepped as the device
\* would have in every single probe.
THEOREM WrongMeasurementsAreCoincidences == VerdictsSpec => []WrongTakesCoincidences
<1>1. VerdictsInv => WrongTakesCoincidences
  <2> SUFFICES ASSUME VerdictsInv, conclusion.confidence = "measured",
                      conclusion.circuit # load.home
               PROVE  /\ Len(rounds) >= 2 /\ ~fired
                      /\ \A i \in DOMAIN rounds : Coincides(rounds[i], conclusion.circuit)
                      /\ \E i \in DOMAIN rounds : rounds[i].metered
    BY DEF WrongTakesCoincidences, Coincides
  <2>1. /\ conclusion.circuit = Agree(rounds)
        /\ Grade(Agree(rounds), fired, rounds) = "measured"
    BY DEF VerdictsInv, Pending
  <2>2. Agree(rounds) # NoChannel /\ fired = FALSE
    BY <2>1 DEF Grade, VerdictsInv
  <2>3. /\ ~(Len(rounds) < 2) /\ Answered(rounds) = DOMAIN rounds
        /\ ~ \A i \in DOMAIN rounds : ~rounds[i].metered
    BY <2>1, <2>2 DEF Grade
  <2>4. rounds \in Seq(Round) /\ Len(rounds) \in Nat /\ DOMAIN rounds = 1 .. Len(rounds)
    BY DEF VerdictsInv
  <2>5. \A i \in DOMAIN rounds : rounds[i].answer = conclusion.circuit
    BY <2>1, <2>2, <2>3, <2>4, AgreeOnOne
  <2>6. \A i \in DOMAIN rounds : Coincides(rounds[i], conclusion.circuit)
    BY <2>1, <2>2, <2>5 DEF VerdictsInv, RoundOK
  <2> QED
    BY <2>2, <2>3, <2>4, <2>6
<1> QED
  BY <1>1, VerdictsInitInv, VerdictsStepInv, PTL DEF VerdictsSpec

\* On a quiet panel every device whose draw stands out is found, and measured once two
\* metered probes have been made.
THEOREM QuietPanelsAreMeasured ==
  ASSUME DrawsStandOut
  PROVE  VerdictsSpec => []QuietPanelIsMeasured
<1>1. VerdictsInv => QuietPanelIsMeasured
  <2> SUFFICES ASSUME VerdictsInv, conclusion # Pending, load.home # NoChannel,
                      \A i \in DOMAIN rounds : Quiet(rounds[i])
               PROVE  /\ conclusion.circuit = load.home
                      /\ ~fired /\ Len(rounds) >= 2 /\ (\A i \in DOMAIN rounds : rounds[i].metered)
                           => conclusion.confidence = "measured"
    BY DEF QuietPanelIsMeasured, Quiet
  <2>1. /\ Len(rounds) = probes /\ probes > 0 /\ probes \in Nat
        /\ conclusion = [circuit |-> Agree(rounds),
                         confidence |-> Grade(Agree(rounds), fired, rounds)]
    BY DEF VerdictsInv
  <2>2. rounds \in Seq(Round) /\ DOMAIN rounds = 1 .. probes
    BY <2>1 DEF VerdictsInv
  <2>3. \A i \in DOMAIN rounds : rounds[i].answer = load.home
    BY DrawsStandOut DEF VerdictsInv, RoundOK
  <2>4. Agree(rounds) = load.home /\ Answered(rounds) = DOMAIN rounds
    <3>1. 1 \in DOMAIN rounds
      BY <2>1, <2>2
    <3> QED
      BY <3>1, <2>3, AllAgree
  <2>5. conclusion.circuit = load.home
    BY <2>1, <2>4
  <2>6. ASSUME ~fired, Len(rounds) >= 2, \A i \in DOMAIN rounds : rounds[i].metered
        PROVE  conclusion.confidence = "measured"
    <3>1. 1 \in DOMAIN rounds /\ ~(Len(rounds) < 2)
      BY <2>1, <2>2, <2>6
    <3>2. Grade(Agree(rounds), fired, rounds) = "measured"
      BY <3>1, <2>4, <2>6 DEF Grade
    <3> QED
      BY <3>2, <2>1
  <2> QED
    BY <2>5, <2>6
<1> QED
  BY <1>1, VerdictsInitInv, VerdictsStepInv, PTL DEF VerdictsSpec

-----------------------------------------------------------------------------
(* Eligibility.                                                            *)

\* When the last query was made.
Queried == refreshAt - HOUR

\* A time so far back that the judgement does not look there.
Forgotten(h, from) == h * HOUR <= from - LOOKBACK_H * HOUR

\* The numbers of an hour are those of the readings in it.
LowsOK ==
  /\ \A h \in Hours : recorded[h] # None => h * HOUR <= clock
  /\ \A h \in Hours : hourly[h] # None => recorded[h] # None /\ recorded[h] <= hourly[h]

TimerOK ==
  IF listening
  THEN /\ refreshAt \in Nat /\ Queried <= clock /\ clock <= refreshAt
       /\ asked # None => asked = Queried
  ELSE asked = None /\ refreshAt = None /\ ~eligible

\* What a query answered is not lost.
ListedKept ==
  listening /\ asked = None /\ ~statsFailed => \A h \in Hours :
    (h + 1) * HOUR <= Queried /\ ~Forgotten(h, Queried) /\ recorded[h] # None
      => hourly[h] # None /\ hourly[h] <= recorded[h]

\* The hours that were over then and that a judgement looks at.
Ripe ==
  {h \in Hours : /\ (h + 1) * HOUR <= Queried /\ ~Forgotten(h, clock)
                 /\ hourly[h] # None /\ ~Excused(h)}

\* Why the circuit is watched, and why not.
JudgedRight ==
  listening /\ asked = None =>
    IF eligible THEN \A h \in Ripe : hourly[h] > FLOOR_W
    ELSE \/ \E h \in Hours : /\ hourly[h] # None /\ hourly[h] <= FLOOR_W
                             /\ ~Forgotten(h, Queried) /\ ~Excused(h)
         \/ Cardinality(Ripe) < MIN_HISTORY_H

EligibilityInv == EligibilityTypeOK /\ LowsOK /\ TimerOK /\ ListedKept /\ JudgedRight

\* The limits are numbers.
LEMMA EligibilityBounds ==
  /\ HOUR \in Nat \ {0} /\ LOOKBACK_H \in Nat \ {0} /\ MIN_HISTORY_H \in Nat \ {0}
  /\ ANSWER \in Nat \ {0} /\ ANSWER < HOUR
  /\ DEAD_W \in Nat /\ FLOOR_W \in Nat /\ DEAD_W < FLOOR_W /\ Watts \subseteq Nat
  /\ LastClock \in Nat /\ LastClock \div HOUR \in Nat
  /\ LOOKBACK_H * HOUR \in Nat
  /\ None \notin Int
<1>1. HOUR \in Nat \ {0} /\ LastClock \in Nat /\ LOOKBACK_H \in Nat
  BY EligibilityAssumption
<1>2. LastClock \div HOUR \in Nat
  BY <1>1
<1>3. LOOKBACK_H * HOUR \in Nat
  BY <1>1
<1> QED
  BY <1>1, <1>2, <1>3, EligibilityAssumption

\* There are finitely many hours, and each begins some time.
LEMMA HoursType ==
  /\ IsFiniteSet(Hours)
  /\ \A h \in Hours : h \in Nat /\ h * HOUR \in Nat /\ (h + 1) * HOUR = h * HOUR + HOUR
<1>1. LastClock \div HOUR \in Nat /\ HOUR \in Nat
  BY EligibilityBounds
<1>2. IsFiniteSet(Hours)
  BY <1>1, FS_Interval DEF Hours
<1>3. \A h \in Nat : h * HOUR \in Nat /\ (h + 1) * HOUR = h * HOUR + HOUR
  BY <1>1
<1> QED
  BY <1>1, <1>2, <1>3 DEF Hours

\* Now is in its hour.
LEMMA HourOfNow ==
  ASSUME NEW t \in Nat
  PROVE  HourOf(t) \in Nat /\ HourOf(t) * HOUR <= t /\ t < HourOf(t) * HOUR + HOUR
<1>1. HOUR \in Nat \ {0}
  BY EligibilityBounds
<1>2. t \div HOUR \in Nat
  BY <1>1
<1>3. (t \div HOUR) * HOUR <= t
  BY <1>1
<1>4. t < (t \div HOUR) * HOUR + HOUR
  BY <1>1
<1> QED
  BY <1>2, <1>3, <1>4 DEF HourOf

\* Once forgotten, an hour stays so.
LEMMA StaysForgotten ==
  ASSUME NEW h \in Hours, NEW from \in Int, NEW to \in Int, from <= to, Forgotten(h, from)
  PROVE  Forgotten(h, to)
<1>1. \A begun, span \in Int : begun <= from - span => begun <= to - span
  OBVIOUS
<1>2. h * HOUR \in Int /\ LOOKBACK_H * HOUR \in Int
  BY HoursType, EligibilityBounds
<1> QED
  BY <1>1, <1>2 DEF Forgotten

\* The queries' form of it.
LEMMA NotForgotten ==
  ASSUME NEW h \in Hours, NEW from \in Int
  PROVE  Forgotten(h, from) <=> ~(h * HOUR > from - LOOKBACK_H * HOUR)
<1>1. \A begun, span \in Int : begun <= from - span <=> ~(begun > from - span)
  OBVIOUS
<1>2. h * HOUR \in Int /\ LOOKBACK_H * HOUR \in Int
  BY HoursType, EligibilityBounds
<1> QED
  BY <1>1, <1>2 DEF Forgotten

LEMMA LowerType ==
  ASSUME NEW low \in Nat \cup {None}, NEW watts \in Nat
  PROVE  /\ Lower(low, watts) \in Nat /\ Lower(low, watts) # None
         /\ Lower(low, watts) \in {low, watts}
         /\ Lower(low, watts) <= watts
         /\ low # None => Lower(low, watts) <= low
BY EligibilityBounds DEF Lower

\* For an hour that has come, the trips that cover it excuse it.
LEMMA CoveredIsExcused ==
  ASSUME NEW h \in Hours, NEW trips, clock \in Nat,
         \A t \in trips : t.start \in Nat /\ t.end \in Nat \cup {None}
  PROVE  LET excused == \E t \in trips :
               t.shown /\ t.start < (h + 1) * HOUR /\ (t.end # None => t.end >= h * HOUR)
         IN  /\ Covered(h, trips) => excused
             /\ h * HOUR <= clock /\ excused => Covered(h, trips)
<1>1. h * HOUR \in Nat /\ (h + 1) * HOUR \in Nat
  BY HoursType, EligibilityBounds
<1>2. \A t \in trips : (t.start < (h + 1) * HOUR) <=> ((h + 1) * HOUR > t.start)
  BY <1>1
<1>3. \A t \in trips : t.end # None =>
        ((t.end >= h * HOUR) <=> (h * HOUR <= IF t.end = None THEN clock ELSE t.end))
  BY <1>1
<1>4. \A t \in trips : t.end = None =>
        (h * HOUR <= (IF t.end = None THEN clock ELSE t.end) <=> h * HOUR <= clock)
  BY <1>1
<1>5. ASSUME Covered(h, trips)
      PROVE  \E t \in trips :
               t.shown /\ t.start < (h + 1) * HOUR /\ (t.end # None => t.end >= h * HOUR)
  <2>1. PICK t \in trips : /\ t.shown
                           /\ h * HOUR <= IF t.end = None THEN clock ELSE t.end
                           /\ (h + 1) * HOUR > t.start
    BY <1>5 DEF Covered, Excusing
  <2> QED
    BY <1>2, <1>3, <2>1
<1>6. ASSUME h * HOUR <= clock, NEW t \in trips, t.shown, t.start < (h + 1) * HOUR,
             t.end # None => t.end >= h * HOUR
      PROVE  Covered(h, trips)
  <2>1. h * HOUR <= IF t.end = None THEN clock ELSE t.end
    BY <1>3, <1>4, <1>6
  <2> QED
    BY <1>2, <1>6, <2>1 DEF Covered, Excusing
<1> QED
  BY <1>5, <1>6

\* A judgement is right when it is made.
LEMMA JudgementIsRight ==
  ASSUME EligibilityTypeOK', LowsOK', clock' = clock, clock \in Nat,
         refreshAt' \in Nat, Queried' <= clock,
         eligible' = Eligible(hourly', recordedTrips')
  PROVE  JudgedRight'
<1>1. /\ hourly' \in [Hours -> Nat \cup {None}]
      /\ \A t \in recordedTrips' : t.start \in Nat /\ t.end \in Nat \cup {None}
  <2>1. hourly' \in [Hours -> Watts \cup {None}]
    BY DEF EligibilityTypeOK
  <2>2. Ticks \subseteq Nat
    BY DEF Ticks
  <2>3. \A t \in recordedTrips' : t.start \in Ticks /\ t.end \in Ticks \cup {None}
    BY DEF EligibilityTypeOK, Ticks
  <2> QED
    BY <2>1, <2>2, <2>3, EligibilityBounds
<1>2. \A h \in Hours : hourly'[h] # None => h * HOUR <= clock
  BY DEF LowsOK
<1>3. \A h \in Hours : /\ Covered(h, recordedTrips') => Excused(h)'
                       /\ hourly'[h] # None /\ Excused(h)' => Covered(h, recordedTrips')
  BY <1>1, <1>2, CoveredIsExcused DEF Excused
<1> DEFINE judged == {h \in Hours : /\ hourly'[h] # None
                                    /\ h * HOUR > clock - LOOKBACK_H * HOUR
                                    /\ ~Covered(h, recordedTrips')}
<1>4. eligible' = (/\ Cardinality(judged) >= MIN_HISTORY_H
                   /\ \A h \in judged : hourly'[h] > DEAD_W /\ hourly'[h] > FLOOR_W)
  BY DEF Eligible
<1>5. \A h \in Hours : Forgotten(h, clock) <=> ~(h * HOUR > clock - LOOKBACK_H * HOUR)
  BY NotForgotten
<1>6. Ripe' \subseteq judged
  BY <1>3, <1>5 DEF Ripe, Forgotten
<1>7. \A h \in judged : /\ h \in Hours /\ hourly'[h] \in Nat /\ hourly'[h] # None
                        /\ ~Excused(h)' /\ ~Forgotten(h, clock)
  BY <1>1, <1>3, <1>5
<1>8. \A h \in Hours : ~Forgotten(h, clock) => ~Forgotten(h, Queried)'
  <2>1. Queried' \in Int
    BY EligibilityBounds DEF Queried
  <2>2. \A h \in Hours : Forgotten(h, Queried') => Forgotten(h, clock)
    BY <2>1, StaysForgotten
  <2> QED
    BY <2>2 DEF Forgotten
<1>9. IsFiniteSet(judged)
  BY HoursType, FS_Subset
<1> HIDE DEF judged
<1>10. CASE eligible'
  <2>1. \A h \in Ripe' : hourly'[h] > FLOOR_W
    BY <1>4, <1>6, <1>10
  <2> QED
    BY <1>10, <2>1 DEF JudgedRight
<1>11. CASE ~eligible'
  <2>1. CASE ~(Cardinality(judged) >= MIN_HISTORY_H)
    <3>1. Cardinality(Ripe') <= Cardinality(judged) /\ IsFiniteSet(Ripe')
      BY <1>6, <1>9, FS_Subset
    <3>2. Cardinality(Ripe') \in Nat /\ Cardinality(judged) \in Nat
      BY <1>9, <3>1, FS_CardinalityType
    <3>3. Cardinality(Ripe') < MIN_HISTORY_H
      BY <2>1, <3>1, <3>2, EligibilityBounds
    <3> QED
      BY <1>11, <3>3 DEF JudgedRight
  <2>2. CASE Cardinality(judged) >= MIN_HISTORY_H
    <3>1. PICK h \in judged : ~(hourly'[h] > DEAD_W /\ hourly'[h] > FLOOR_W)
      BY <1>4, <1>11, <2>2
    <3>2. hourly'[h] <= FLOOR_W
      BY <1>7, <3>1, EligibilityBounds
    <3>3. h \in Hours /\ hourly'[h] # None /\ ~Forgotten(h, Queried)' /\ ~Excused(h)'
      BY <1>7, <1>8
    <3> QED
      BY <1>11, <3>2, <3>3 DEF JudgedRight, Forgotten
  <2> QED
    BY <2>1, <2>2
<1> QED
  BY <1>10, <1>11

LEMMA EligibilityInitInv ==
  EligibilityInit => EligibilityInv
<1> SUFFICES ASSUME EligibilityInit PROVE EligibilityInv
  OBVIOUS
<1>1. 0 \in Ticks
  BY EligibilityBounds DEF Ticks
<1>2. EligibilityTypeOK
  BY <1>1 DEF EligibilityInit, EligibilityTypeOK
<1> QED
  BY <1>2 DEF EligibilityInit, EligibilityInv, LowsOK, TimerOK, ListedKept, JudgedRight

\* Types of what the steps use.
LEMMA EligibilityFacts ==
  ASSUME EligibilityInv
  PROVE  /\ clock \in Nat /\ clock <= LastClock
         /\ hourly \in [Hours -> Nat \cup {None}]
         /\ recorded \in [Hours -> Nat \cup {None}]
         /\ listening => refreshAt \in Nat /\ Queried \in Int /\ Queried <= clock
         /\ asked # None => listening /\ asked = Queried
         /\ \A t \in recordedTrips : t.start \in Nat /\ t.end \in Nat \cup {None}
<1>1. Ticks \subseteq Nat /\ \A t \in Ticks : t <= LastClock
  BY DEF Ticks
<1>2. /\ hourly \in [Hours -> Watts \cup {None}]
      /\ recorded \in [Hours -> Watts \cup {None}]
      /\ clock \in Ticks
      /\ \A t \in recordedTrips : t.start \in Ticks /\ t.end \in Ticks \cup {None}
  BY DEF EligibilityInv, EligibilityTypeOK
<1>3. hourly \in [Hours -> Nat \cup {None}] /\ recorded \in [Hours -> Nat \cup {None}]
  BY <1>2, EligibilityBounds
<1>4. listening => refreshAt \in Nat /\ Queried \in Int /\ Queried <= clock
  BY EligibilityBounds DEF EligibilityInv, TimerOK, Queried
<1>5. asked # None => listening /\ asked = Queried
  BY DEF EligibilityInv, TimerOK
<1> QED
  BY <1>1, <1>2, <1>3, <1>4, <1>5

\* A reading lowers the lows of its hour.
LEMMA ReadsInv ==
  ASSUME EligibilityInv, NEW watts \in Watts, Reads(watts)
  PROVE  EligibilityInv'
<1> DEFINE now == HourOf(clock)
<1>1. /\ clock \in Nat /\ clock <= LastClock
      /\ hourly \in [Hours -> Nat \cup {None}] /\ recorded \in [Hours -> Nat \cup {None}]
      /\ listening /\ refreshAt \in Nat /\ Queried \in Int /\ Queried <= clock
      /\ \A t \in recordedTrips : t.start \in Nat /\ t.end \in Nat \cup {None}
  BY EligibilityFacts DEF Reads
<1>2. watts \in Nat /\ now \in Nat /\ now * HOUR <= clock /\ clock < now * HOUR + HOUR
  BY <1>1, EligibilityBounds, HourOfNow
<1>3. UNCHANGED <<clock, listening, asked, refreshAt, statsFailed>>
  BY DEF Reads
<1> HIDE DEF now
<1>4. /\ \A h \in Hours : h # now => recorded'[h] = recorded[h] /\ hourly'[h] = hourly[h]
      /\ \A h \in Hours : h = now => /\ recorded'[h] = Lower(recorded[h], watts)
                                     /\ hourly'[h] = Lower(hourly[h], watts)
  BY <1>1 DEF Reads, now
<1>5. \A h \in Hours : /\ Lower(recorded[h], watts) \in Watts /\ Lower(hourly[h], watts) \in Watts
  BY <1>1 DEF EligibilityInv, EligibilityTypeOK, Lower
<1>6. /\ recorded' \in [Hours -> Watts \cup {None}]
      /\ hourly' \in [Hours -> Watts \cup {None}]
  BY <1>5 DEF Reads, EligibilityInv, EligibilityTypeOK
<1>7. clock \in Ticks
  BY DEF EligibilityInv, EligibilityTypeOK
<1>8. \A t \in recordedTrips' : t.start \in Ticks /\ t.end \in Ticks \cup {None}
  <2>1. \A t \in Ended : t.start \in Ticks /\ t.end \in Ticks \cup {None}
    <3> SUFFICES ASSUME NEW t \in recordedTrips
                 PROVE  LET u == [t EXCEPT !.end = IF t.end = None THEN clock ELSE t.end]
                        IN  u.start \in Ticks /\ u.end \in Ticks \cup {None}
      BY DEF Ended
    <3> QED
      BY <1>7 DEF EligibilityInv, EligibilityTypeOK
  <2> QED
    BY <2>1 DEF Reads, EligibilityInv, EligibilityTypeOK
<1>9. incident' # None => incident'.start \in Ticks /\ incident'.live \in Ticks \cup {None}
  BY <1>7 DEF Reads, Followed, EligibilityInv, EligibilityTypeOK
<1>10. eligible' \in BOOLEAN
  BY DEF Reads, EligibilityInv, EligibilityTypeOK, Eligible
<1>11. EligibilityTypeOK'
  BY <1>3, <1>6, <1>8, <1>9, <1>10 DEF EligibilityInv, EligibilityTypeOK
<1>12. \A h \in Hours :
         /\ recorded[h] # None => recorded'[h] # None /\ recorded'[h] <= recorded[h]
         /\ hourly[h] # None => hourly'[h] # None /\ hourly'[h] <= hourly[h]
  <2> SUFFICES ASSUME NEW h \in Hours
               PROVE  /\ recorded[h] # None => recorded'[h] # None /\ recorded'[h] <= recorded[h]
                      /\ hourly[h] # None => hourly'[h] # None /\ hourly'[h] <= hourly[h]
    OBVIOUS
  <2>1. recorded[h] \in Nat \cup {None} /\ hourly[h] \in Nat \cup {None}
    BY <1>1
  <2>2. CASE h = now
    <3>1. \A low \in Nat \cup {None} :
            low # None => Lower(low, watts) # None /\ Lower(low, watts) <= low
      BY <1>2, LowerType
    <3>2. recorded'[h] = Lower(recorded[h], watts) /\ hourly'[h] = Lower(hourly[h], watts)
      BY <1>4, <2>2
    <3> QED
      BY <2>1, <3>1, <3>2
  <2>3. CASE h # now
    <3>1. recorded'[h] = recorded[h] /\ hourly'[h] = hourly[h]
      BY <1>4, <2>3
    <3>2. \A n \in Nat : n <= n
      OBVIOUS
    <3> QED
      BY <2>1, <3>1, <3>2
  <2> QED
    BY <2>2, <2>3
<1>13. LowsOK'
  <2>1. ASSUME NEW h \in Hours, h # now
        PROVE  /\ recorded'[h] # None => h * HOUR <= clock
               /\ hourly'[h] # None => recorded'[h] # None /\ recorded'[h] <= hourly'[h]
    BY <1>4, <2>1 DEF EligibilityInv, LowsOK
  <2>2. ASSUME NEW h \in Hours, h = now
        PROVE  h * HOUR <= clock /\ recorded'[h] # None /\ recorded'[h] <= hourly'[h]
    <3>1. recorded[h] \in Nat \cup {None} /\ hourly[h] \in Nat \cup {None}
      BY <1>1
    <3>2. hourly[h] # None => recorded[h] # None /\ recorded[h] <= hourly[h]
      BY DEF EligibilityInv, LowsOK
    <3>3. Lower(recorded[h], watts) <= Lower(hourly[h], watts) /\ Lower(recorded[h], watts) # None
      BY <1>2, <3>1, <3>2, EligibilityBounds DEF Lower
    <3> QED
      BY <1>2, <1>4, <2>2, <3>3
  <2> QED
    BY <1>3, <2>1, <2>2 DEF LowsOK
<1>14. TimerOK'
  BY <1>1, <1>3 DEF EligibilityInv, TimerOK, Queried
<1>15. \A h \in Hours : (h + 1) * HOUR <= Queried =>
                          recorded'[h] = recorded[h] /\ hourly'[h] = hourly[h]
  <2> SUFFICES ASSUME NEW h \in Hours, (h + 1) * HOUR <= Queried PROVE h # now
    BY <1>4
  <2>1. (h + 1) * HOUR = h * HOUR + HOUR /\ h * HOUR \in Nat
    BY HoursType
  <2> QED
    BY <1>1, <1>2, <2>1, EligibilityBounds
<1>16. Queried' = Queried
  BY <1>3 DEF Queried
<1>17. ListedKept'
  BY <1>3, <1>15, <1>16 DEF EligibilityInv, ListedKept, Forgotten
<1>18. JudgedRight'
  <2>1. CASE watts > DEAD_W /\ Ended # recordedTrips
    <3>1. eligible' = Eligible(hourly', recordedTrips')
      BY <2>1 DEF Reads
    <3> QED
      BY <1>1, <1>3, <1>11, <1>13, <1>16, <3>1, JudgementIsRight
  <2>2. CASE ~(watts > DEAD_W /\ Ended # recordedTrips)
    <3>1. recordedTrips' = recordedTrips /\ eligible' = eligible
      BY <2>2 DEF Reads
    <3>2. \A h : Excused(h)' = Excused(h)
      BY <3>1 DEF Excused
    <3>3. Ripe' = Ripe /\ \A h \in Ripe : hourly'[h] = hourly[h]
      BY <1>3, <1>15, <1>16, <3>2 DEF Ripe, Forgotten
    <3>4. ASSUME NEW h \in Hours, hourly[h] # None, hourly[h] <= FLOOR_W
          PROVE  hourly'[h] # None /\ hourly'[h] <= FLOOR_W
      <4>1. hourly[h] \in Nat /\ hourly'[h] \in Nat
        <5>1. hourly'[h] \in Nat \cup {None}
          BY <1>6, EligibilityBounds
        <5> QED
          BY <1>1, <1>12, <3>4, <5>1
      <4> QED
        BY <1>12, <3>4, <4>1, EligibilityBounds
    <3> QED
      BY <1>3, <1>16, <3>1, <3>2, <3>3, <3>4 DEF EligibilityInv, JudgedRight, Forgotten
  <2> QED
    BY <2>1, <2>2
<1> QED
  BY <1>11, <1>13, <1>14, <1>17, <1>18 DEF EligibilityInv

\* A recorded trip is judged at once.
LEMMA IncidentClosesInv ==
  ASSUME EligibilityInv, NEW shown \in BOOLEAN, NEW refused \in BOOLEAN,
         IncidentCloses(shown, refused)
  PROVE  EligibilityInv'
<1>1. /\ clock \in Nat
      /\ listening /\ refreshAt \in Nat /\ Queried \in Int /\ Queried <= clock
  BY EligibilityFacts DEF IncidentCloses
<1>2. UNCHANGED <<clock, recorded, listening, hourly, asked, refreshAt, statsFailed>>
  BY DEF IncidentCloses
<1>3. \A t \in recordedTrips' : t.start \in Ticks /\ t.end \in Ticks \cup {None}
  <2>1. CASE refused
    BY <2>1 DEF IncidentCloses, EligibilityInv, EligibilityTypeOK
  <2>2. CASE ~refused
    <3>1. ASSUME NEW t \in recordedTrips' PROVE t \in recordedTrips
            \/ t = [start |-> incident.start, end |-> incident.live, shown |-> shown]
      BY <2>2, <3>1 DEF IncidentCloses
    <3>2. incident.start \in Ticks /\ incident.live \in Ticks \cup {None}
      BY DEF IncidentCloses, EligibilityInv, EligibilityTypeOK
    <3> QED
      BY <3>1, <3>2 DEF EligibilityInv, EligibilityTypeOK
  <2> QED
    BY <2>1, <2>2
<1>4. eligible' \in BOOLEAN /\ incident' = None
  BY DEF IncidentCloses, EligibilityInv, EligibilityTypeOK, Eligible
<1>5. EligibilityTypeOK'
  BY <1>2, <1>3, <1>4 DEF EligibilityInv, EligibilityTypeOK
<1>6. LowsOK' /\ TimerOK' /\ ListedKept'
  BY <1>1, <1>2 DEF EligibilityInv, LowsOK, TimerOK, ListedKept, Queried, Forgotten
<1>7. JudgedRight'
  <2>1. CASE refused
    <3>1. recordedTrips' = recordedTrips /\ eligible' = eligible
      BY <2>1 DEF IncidentCloses
    <3> QED
      BY <1>2, <3>1 DEF EligibilityInv, JudgedRight, Ripe, Excused, Queried, Forgotten
  <2>2. CASE ~refused
    <3>1. eligible' = Eligible(hourly', recordedTrips')
      BY <1>2, <2>2 DEF IncidentCloses
    <3>2. refreshAt' \in Nat /\ Queried' <= clock
      BY <1>1, <1>2 DEF Queried
    <3> QED
      BY <1>1, <1>2, <1>5, <1>6, <3>1, <3>2, JudgementIsRight
  <2> QED
    BY <2>1, <2>2
<1> QED
  BY <1>5, <1>6, <1>7 DEF EligibilityInv

\* So is the evidence of an outage.
LEMMA OutageRecordedInv ==
  ASSUME EligibilityInv, NEW trip \in recordedTrips, NEW casualties \in BOOLEAN,
         OutageRecorded(trip, casualties)
  PROVE  EligibilityInv'
<1>1. /\ clock \in Nat
      /\ listening /\ refreshAt \in Nat /\ Queried \in Int /\ Queried <= clock
  BY EligibilityFacts DEF OutageRecorded
<1>2. /\ UNCHANGED <<clock, recorded, listening, hourly, asked, refreshAt, statsFailed,
                     incident>>
      /\ eligible' = Eligible(hourly', recordedTrips')
  BY DEF OutageRecorded
<1>3. \A t \in recordedTrips' : t.start \in Ticks /\ t.end \in Ticks \cup {None}
  <2>1. \A t \in recordedTrips : t.start \in Ticks /\ t.end \in Ticks \cup {None}
    BY DEF EligibilityInv, EligibilityTypeOK
  <2> DEFINE amended == [trip EXCEPT !.shown = @ \/ casualties]
  <2>2. amended.start = trip.start /\ amended.end = trip.end
    OBVIOUS
  <2>3. \A t \in recordedTrips' : t \in recordedTrips \/ t = amended
    BY DEF OutageRecorded
  <2> HIDE DEF amended
  <2> QED
    BY <2>1, <2>2, <2>3
<1>4. eligible' \in BOOLEAN
  BY <1>2 DEF Eligible
<1>5. EligibilityTypeOK'
  BY <1>2, <1>3, <1>4 DEF EligibilityInv, EligibilityTypeOK
<1>6. LowsOK' /\ TimerOK' /\ ListedKept'
  BY <1>1, <1>2 DEF EligibilityInv, LowsOK, TimerOK, ListedKept, Queried, Forgotten
<1>7. refreshAt' \in Nat /\ Queried' <= clock
  BY <1>1, <1>2 DEF Queried
<1>8. JudgedRight'
  BY <1>1, <1>2, <1>5, <1>6, <1>7, JudgementIsRight
<1> QED
  BY <1>5, <1>6, <1>8 DEF EligibilityInv

\* So are the numbers a query answered.
LEMMA RefreshEndsInv ==
  ASSUME EligibilityInv, NEW failed \in BOOLEAN, RefreshEnds(failed)
  PROVE  EligibilityInv'
<1> DEFINE merged == IF failed THEN hourly ELSE Merged(hourly, Listed)
<1>1. /\ clock \in Nat
      /\ hourly \in [Hours -> Nat \cup {None}] /\ recorded \in [Hours -> Nat \cup {None}]
      /\ listening /\ refreshAt \in Nat /\ Queried \in Int /\ Queried <= clock
      /\ asked = Queried
  BY EligibilityFacts DEF RefreshEnds
<1>2. /\ UNCHANGED <<clock, recorded, listening, refreshAt, incident, recordedTrips>>
      /\ asked' = None /\ statsFailed' = failed /\ Queried' = Queried
  BY DEF RefreshEnds, Queried
<1>3. \A h \in Hours : merged[h] = IF failed \/ Listed[h] = None THEN hourly[h]
                                   ELSE Lower(hourly[h], Listed[h])
  BY DEF Merged
<1>4. /\ \A h \in Hours : Listed[h] = None \/ (Listed[h] = recorded[h] /\ recorded[h] # None)
      /\ \A h \in Hours : (h + 1) * HOUR <= Queried /\ ~Forgotten(h, Queried)
                            => Listed[h] = recorded[h]
  <2>1. \A h \in Hours : Forgotten(h, Queried) <=> ~(h * HOUR > asked - LOOKBACK_H * HOUR)
    BY <1>1, NotForgotten
  <2> QED
    BY <1>1, <2>1 DEF Listed
<1>5. \A h \in Hours : hourly'[h] = IF Forgotten(h, Queried) THEN None ELSE merged[h]
  BY <1>1 DEF RefreshEnds, Forgotten
<1> HIDE DEF merged
<1>6. ASSUME NEW h \in Hours
      PROVE  /\ merged[h] \in Watts \cup {None}
             /\ merged[h] # None => recorded[h] # None /\ recorded[h] <= merged[h]
             /\ ~failed /\ Listed[h] # None => merged[h] # None /\ merged[h] <= recorded[h]
  <2>1. /\ hourly[h] \in Nat \cup {None} /\ recorded[h] \in Nat \cup {None}
        /\ hourly[h] \in Watts \cup {None} /\ recorded[h] \in Watts \cup {None}
        /\ hourly[h] # None => recorded[h] # None /\ recorded[h] <= hourly[h]
    BY <1>1 DEF EligibilityInv, EligibilityTypeOK, LowsOK
  <2>2. CASE failed \/ Listed[h] = None
    BY <1>3, <2>1, <2>2
  <2>3. CASE ~(failed \/ Listed[h] = None)
    <3>1. merged[h] = Lower(hourly[h], recorded[h]) /\ recorded[h] \in Nat
      BY <1>3, <1>4, <2>1, <2>3
    <3> QED
      BY <1>4, <2>1, <2>3, <3>1, EligibilityBounds DEF Lower
  <2> QED
    BY <2>2, <2>3
<1>7. hourly' \in [Hours -> Watts \cup {None}]
  BY <1>5, <1>6 DEF RefreshEnds
<1>8. eligible' = Eligible(hourly', recordedTrips')
  BY <1>2 DEF RefreshEnds
<1>9. EligibilityTypeOK'
  <2>1. eligible' \in BOOLEAN
    BY <1>8 DEF Eligible
  <2> QED
    BY <1>2, <1>7, <2>1 DEF EligibilityInv, EligibilityTypeOK
<1>10. LowsOK'
  BY <1>2, <1>5, <1>6 DEF EligibilityInv, LowsOK
<1>11. TimerOK'
  BY <1>1, <1>2 DEF EligibilityInv, TimerOK
<1>12. ListedKept'
  <2> SUFFICES ASSUME ~failed, NEW h \in Hours, (h + 1) * HOUR <= Queried,
                      ~Forgotten(h, Queried), recorded[h] # None
               PROVE  hourly'[h] # None /\ hourly'[h] <= recorded[h]
    BY <1>2 DEF ListedKept, Forgotten
  <2> QED
    BY <1>4, <1>5, <1>6
<1>13. JudgedRight'
  BY <1>1, <1>2, <1>8, <1>9, <1>10, JudgementIsRight
<1> QED
  BY <1>9, <1>10, <1>11, <1>12, <1>13 DEF EligibilityInv

\* A query begins when the last one was answered, or with the instance.
LEMMA QueryBegins ==
  ASSUME EligibilityInv,
         \/ RefreshBegins
         \/ \E state \in {None} \cup [hour : Hours, watts : Watts] : WatchStarts(state)
  PROVE  EligibilityInv'
<1>1. /\ clock \in Nat /\ clock \in Ticks /\ clock # None
      /\ recorded \in [Hours -> Nat \cup {None}]
  BY EligibilityFacts, EligibilityBounds DEF EligibilityInv, EligibilityTypeOK
<1>2. /\ asked' = clock /\ refreshAt' = clock + HOUR /\ listening'
      /\ UNCHANGED <<clock, recorded, statsFailed, eligible, incident, recordedTrips>>
  BY DEF RefreshBegins, WatchStarts
<1>3. Queried' = clock /\ refreshAt' \in Nat
  BY <1>1, <1>2, EligibilityBounds DEF Queried
<1>4. /\ hourly' \in [Hours -> Watts \cup {None}]
      /\ \A h \in Hours : hourly'[h] # None => recorded[h] # None /\ recorded[h] <= hourly'[h]
  <2>1. CASE RefreshBegins
    BY <2>1 DEF RefreshBegins, EligibilityInv, EligibilityTypeOK, LowsOK
  <2>2. ASSUME NEW state \in {None} \cup [hour : Hours, watts : Watts], WatchStarts(state)
        PROVE  /\ hourly' \in [Hours -> Watts \cup {None}]
               /\ \A h \in Hours :
                    hourly'[h] # None => recorded[h] # None /\ recorded[h] <= hourly'[h]
    BY <2>2 DEF WatchStarts
  <2> QED
    BY <2>1, <2>2
<1>5. EligibilityTypeOK'
  BY <1>1, <1>2, <1>3, <1>4 DEF EligibilityInv, EligibilityTypeOK
<1>6. LowsOK'
  BY <1>2, <1>4 DEF EligibilityInv, LowsOK
<1>7. TimerOK'
  BY <1>1, <1>2, <1>3, EligibilityBounds DEF TimerOK
<1>8. ListedKept' /\ JudgedRight'
  BY <1>1, <1>2 DEF ListedKept, JudgedRight
<1> QED
  BY <1>5, <1>6, <1>7, <1>8 DEF EligibilityInv

LEMMA WatchStopsInv ==
  ASSUME EligibilityInv, WatchStops
  PROVE  EligibilityInv'
<1>1. EligibilityTypeOK'
  BY DEF WatchStops, EligibilityInv, EligibilityTypeOK
<1> QED
  BY <1>1 DEF WatchStops, EligibilityInv, LowsOK, TimerOK, ListedKept, JudgedRight

\* Fewer and fewer hours are judged as time passes.
LEMMA TimePassesInv ==
  ASSUME EligibilityInv, TimePasses
  PROVE  EligibilityInv'
<1>1. /\ clock \in Nat /\ clock < LastClock /\ clock' = clock + 1
      /\ UNCHANGED <<recorded, listening, hourly, asked, refreshAt, statsFailed,
                     eligible, incident, recordedTrips>>
      /\ refreshAt # clock /\ Queried' = Queried
  BY EligibilityFacts DEF TimePasses, Queried
<1>2. clock' \in Ticks
  BY <1>1, EligibilityBounds DEF Ticks
<1>3. EligibilityTypeOK'
  BY <1>1, <1>2 DEF EligibilityInv, EligibilityTypeOK
<1>4. LowsOK'
  BY <1>1, HoursType DEF EligibilityInv, LowsOK
<1>5. TimerOK'
  <2>1. CASE listening
    <3>1. refreshAt \in Nat /\ Queried <= clock /\ clock <= refreshAt /\ Queried \in Int
      BY <2>1, EligibilityFacts DEF EligibilityInv, TimerOK
    <3> QED
      BY <1>1, <2>1, <3>1 DEF EligibilityInv, TimerOK
  <2>2. CASE ~listening
    BY <1>1, <2>2 DEF EligibilityInv, TimerOK
  <2> QED
    BY <2>1, <2>2
<1>6. ListedKept'
  BY <1>1 DEF EligibilityInv, ListedKept, Forgotten
<1>7. JudgedRight'
  <2>1. \A h \in Hours : Forgotten(h, clock) => Forgotten(h, clock')
    BY <1>1, StaysForgotten
  <2>2. \A h : Excused(h)' = Excused(h)
    BY <1>1 DEF Excused
  <2>3. Ripe' \subseteq Ripe
    BY <1>1, <2>1, <2>2 DEF Ripe, Forgotten
  <2>4. /\ Cardinality(Ripe') <= Cardinality(Ripe)
        /\ Cardinality(Ripe') \in Nat /\ Cardinality(Ripe) \in Nat
    <3>1. IsFiniteSet(Ripe)
      BY HoursType, FS_Subset DEF Ripe
    <3> QED
      BY <2>3, <3>1, FS_Subset, FS_CardinalityType
  <2>5. Cardinality(Ripe) < MIN_HISTORY_H => Cardinality(Ripe') < MIN_HISTORY_H
    BY <2>4, EligibilityBounds
  <2> QED
    BY <1>1, <2>2, <2>3, <2>5 DEF EligibilityInv, JudgedRight, Forgotten
<1> QED
  BY <1>3, <1>4, <1>5, <1>6, <1>7 DEF EligibilityInv

LEMMA EligibilityNextInv ==
  EligibilityInv /\ [EligibilityNext]_eligibilityVars => EligibilityInv'
<1> SUFFICES ASSUME EligibilityInv, [EligibilityNext]_eligibilityVars PROVE EligibilityInv'
  OBVIOUS
<1>1. ASSUME NEW watts \in Watts, Reads(watts) PROVE EligibilityInv'
  BY <1>1, ReadsInv
<1>2. ASSUME NEW shown \in BOOLEAN, NEW refused \in BOOLEAN, IncidentCloses(shown, refused)
      PROVE  EligibilityInv'
  BY <1>2, IncidentClosesInv
<1>3. ASSUME NEW trip \in recordedTrips, NEW casualties \in BOOLEAN,
             OutageRecorded(trip, casualties)
      PROVE  EligibilityInv'
  BY <1>3, OutageRecordedInv
<1>4. ASSUME NEW failed \in BOOLEAN, RefreshEnds(failed) PROVE EligibilityInv'
  BY <1>4, RefreshEndsInv
<1>5. CASE UNCHANGED eligibilityVars
  BY <1>5 DEF eligibilityVars, EligibilityInv, EligibilityTypeOK, LowsOK, TimerOK, ListedKept,
              JudgedRight, Ripe, Excused, Queried, Forgotten
<1> QED
  BY <1>1, <1>2, <1>3, <1>4, <1>5, QueryBegins, WatchStopsInv, TimePassesInv
     DEF EligibilityNext

\* An hour's readings at the floor end the watch.
LEMMA IdlingIsSeen ==
  EligibilityInv => IdlingEndsTheWatch
<1> SUFFICES ASSUME EligibilityInv, eligible, ~statsFailed, asked = None, NEW h \in Hours,
                    recorded[h] # None, recorded[h] <= FLOOR_W,
                    h * HOUR > clock - LOOKBACK_H * HOUR, ~Excused(h),
                    ~(clock < (h + 2) * HOUR)
             PROVE  FALSE
  BY DEF IdlingEndsTheWatch
<1>1. listening /\ clock <= refreshAt /\ refreshAt \in Nat
  BY DEF EligibilityInv, TimerOK
<1>2. /\ clock \in Nat /\ Queried <= clock /\ Queried \in Int
      /\ hourly \in [Hours -> Nat \cup {None}] /\ recorded \in [Hours -> Nat \cup {None}]
  BY <1>1, EligibilityFacts
<1>3. /\ h * HOUR \in Nat /\ (h + 1) * HOUR = h * HOUR + HOUR
      /\ (h + 2) * HOUR = h * HOUR + HOUR + HOUR
  BY HoursType, EligibilityBounds
<1>4. (h + 1) * HOUR <= Queried
  BY <1>1, <1>2, <1>3, EligibilityBounds DEF Queried
<1>5. ~Forgotten(h, Queried) /\ ~Forgotten(h, clock)
  BY <1>2, NotForgotten, StaysForgotten
<1>6. hourly[h] # None /\ hourly[h] <= recorded[h]
  BY <1>1, <1>4, <1>5 DEF EligibilityInv, ListedKept
<1>7. h \in Ripe
  BY <1>4, <1>5, <1>6 DEF Ripe
<1>8. hourly[h] > FLOOR_W
  BY <1>1, <1>7 DEF EligibilityInv, JudgedRight
<1>9. hourly[h] \in Nat /\ recorded[h] \in Nat
  BY <1>2, <1>6
<1> QED
  BY <1>6, <1>8, <1>9, EligibilityBounds

\* Trips alone do not.
LEMMA TripsAreExcused ==
  EligibilityInv => TripsDoNotEndTheWatch
<1> DEFINE before == clock - LOOKBACK_H * HOUR
           plain == {h \in Hours : /\ recorded[h] # None /\ ~Excused(h)
                                   /\ h * HOUR > before - HOUR}
           listed == {h \in plain : h * HOUR > before /\ (h + 2) * HOUR <= clock}
<1> SUFFICES ASSUME EligibilityInv, listening, ~statsFailed, asked = None,
                    \A h \in plain : recorded[h] > FLOOR_W,
                    Cardinality(listed) >= MIN_HISTORY_H, ~eligible
             PROVE  FALSE
  BY DEF TripsDoNotEndTheWatch
<1>1. clock <= refreshAt /\ refreshAt \in Nat
  BY DEF EligibilityInv, TimerOK
<1>2. /\ clock \in Nat /\ Queried <= clock /\ Queried \in Int
      /\ hourly \in [Hours -> Nat \cup {None}] /\ recorded \in [Hours -> Nat \cup {None}]
  BY EligibilityFacts
<1>3. clock - HOUR <= Queried
  BY <1>1, <1>2, EligibilityBounds DEF Queried
<1>4. ASSUME NEW h \in Hours
      PROVE  /\ h * HOUR \in Nat /\ (h + 1) * HOUR = h * HOUR + HOUR
             /\ (h + 2) * HOUR = h * HOUR + HOUR + HOUR
  BY HoursType, EligibilityBounds
<1>5. listed \subseteq Ripe
  <2> SUFFICES ASSUME NEW h \in listed PROVE h \in Ripe
    OBVIOUS
  <2>1. /\ h \in Hours /\ recorded[h] # None /\ ~Excused(h)
        /\ h * HOUR > clock - LOOKBACK_H * HOUR /\ (h + 2) * HOUR <= clock
    OBVIOUS
  <2>2. (h + 1) * HOUR <= Queried
    BY <1>2, <1>3, <1>4, <2>1, EligibilityBounds
  <2>3. ~Forgotten(h, Queried) /\ ~Forgotten(h, clock)
    BY <1>2, <2>1, NotForgotten, StaysForgotten
  <2>4. hourly[h] # None
    BY <2>1, <2>2, <2>3 DEF EligibilityInv, ListedKept
  <2> QED
    BY <2>1, <2>2, <2>3, <2>4 DEF Ripe
<1>6. ~(Cardinality(Ripe) < MIN_HISTORY_H)
  <2>1. IsFiniteSet(Ripe)
    BY HoursType, FS_Subset DEF Ripe
  <2> HIDE DEF listed
  <2>2. Cardinality(listed) <= Cardinality(Ripe) /\ Cardinality(listed) \in Nat
    BY <1>5, <2>1, FS_Subset, FS_CardinalityType
  <2>3. Cardinality(Ripe) \in Nat
    BY <2>1, FS_CardinalityType
  <2> QED
    BY <2>2, <2>3, EligibilityBounds
<1>7. PICK h \in Hours : /\ hourly[h] # None /\ hourly[h] <= FLOOR_W
                         /\ ~Forgotten(h, Queried) /\ ~Excused(h)
  BY <1>6 DEF EligibilityInv, JudgedRight
<1>8. recorded[h] # None /\ recorded[h] <= hourly[h]
  BY <1>7 DEF EligibilityInv, LowsOK
<1>9. h * HOUR > before - HOUR
  BY <1>2, <1>3, <1>4, <1>7, EligibilityBounds DEF Forgotten
<1>10. h \in plain
  BY <1>7, <1>8, <1>9
<1>11. recorded[h] > FLOOR_W
  BY <1>10
<1>12. recorded[h] \in Nat /\ hourly[h] \in Nat
  BY <1>2, <1>7, <1>8
<1> QED
  BY <1>7, <1>8, <1>11, <1>12, EligibilityBounds

(* For any history of readings, trips, failed queries and restarts: a      *)
(* circuit that idles is not watched once an hourly query was due, and one *)
(* that only tripped is (breaker.py:264-309, trips.py:200-310).            *)
THEOREM EligibilityIsJustified ==
  EligibilitySpec => []EligibilityFollowsTheReadings
<1>1. EligibilityInv => EligibilityFollowsTheReadings
  BY IdlingIsSeen, TripsAreExcused DEF EligibilityFollowsTheReadings
<1> QED
  BY <1>1, EligibilityInitInv, EligibilityNextInv, PTL DEF EligibilitySpec

(* The state of the watch keeps its type.                                  *)
THEOREM EligibilityTypes ==
  EligibilitySpec => []EligibilityTypeOK
<1>1. EligibilityInv => EligibilityTypeOK
  BY DEF EligibilityInv
<1> QED
  BY <1>1, EligibilityInitInv, EligibilityNextInv, PTL DEF EligibilitySpec

-----------------------------------------------------------------------------
(* Attribution.                                                            *)

\* The sums over sets of devices are folds: this is what they compute.
Some(s) == CHOOSE x \in s : TRUE

AddsUp(sum, traces, i, S) ==
  sum = [s \in SUBSET S |-> IF s = {} THEN 0 ELSE traces[Some(s)][i] + sum[s \ {Some(s)}]]

Together(traces, i, S) == (CHOOSE sum : AddsUp(sum, traces, i, S))[S]

Placed(c) == {d \in Metered : result[d] = c}

\* The cells in which what is placed and what is left exceed what was measured.
OverIn(c) ==
  {i \in 1 .. CELLS : Together(drawn, i, Placed(c)) + residual[c][i]
                        > measured[c][i] + MARGIN_W * Cardinality(Placed(c))}

AttributionInv ==
  /\ AttributionTypeOK
  /\ drawn \in [Metered -> [1 .. CELLS -> Nat]]
  /\ measured \in [Clamps -> [1 .. CELLS -> Nat]]
  /\ \A d \in remaining : result[d] = "open"
  /\ \A c \in Clamps : 100 * Cardinality(OverIn(c))
                         <= Cardinality(Placed(c)) * (100 - MIN_CONTAINMENT) * CELLS

\* Among sets of devices there is one that contains no other.
LEMMA MinimalSet ==
  ASSUME NEW M, IsFiniteSet(M), NEW C, C \subseteq SUBSET M, C # {}
  PROVE  \E s \in C : \A t \in C : t \subseteq s => t = s
<1>1. C \subseteq FiniteSubsetsOf(M)
  BY FS_Subset DEF FiniteSubsetsOf
<1>2. PICK s \in C : \A t \in C : ~(<<t, s>> \in StrictSubsetOrdering(M))
  BY <1>1, FS_StrictSubsetOrderingWellFounded, WFMin
<1> QED
  BY <1>2 DEF StrictSubsetOrdering

\* The element taken out first.
LEMMA SomeIsIn ==
  ASSUME NEW s, s # {}
  PROVE  Some(s) \in s /\ s \ {Some(s)} \subseteq s /\ s \ {Some(s)} # s
BY DEF Some

\* Two folds agree on the sets both are defined on.
LEMMA FoldsAgree ==
  ASSUME NEW traces, NEW i, NEW M, IsFiniteSet(M), NEW S \in SUBSET M, NEW T \in SUBSET M,
         NEW f, NEW g, AddsUp(f, traces, i, S), AddsUp(g, traces, i, T),
         NEW s, s \subseteq S, s \subseteq T
  PROVE  f[s] = g[s]
<1> DEFINE C == {u \in SUBSET M : u \subseteq S /\ u \subseteq T /\ f[u] # g[u]}
<1> SUFFICES ASSUME C # {} PROVE FALSE
  OBVIOUS
<1>0. C \subseteq SUBSET M
  OBVIOUS
<1> HIDE DEF C
<1>1. PICK u \in C : \A t \in C : t \subseteq u => t = u
  BY <1>0, MinimalSet
<1>2. u \subseteq S /\ u \subseteq T /\ f[u] # g[u]
  BY DEF C
<1>3. /\ f[u] = IF u = {} THEN 0 ELSE traces[Some(u)][i] + f[u \ {Some(u)}]
      /\ g[u] = IF u = {} THEN 0 ELSE traces[Some(u)][i] + g[u \ {Some(u)}]
  BY <1>2, Zenon DEF AddsUp
<1>4. u # {}
  BY <1>2, <1>3
<1>5. f[u \ {Some(u)}] = g[u \ {Some(u)}]
  BY <1>1, <1>2, <1>4, SomeIsIn DEF C
<1> QED
  BY <1>2, <1>3, <1>4, <1>5

LEMMA FoldExists ==
  ASSUME NEW traces, NEW i, NEW M, IsFiniteSet(M), NEW S \in SUBSET M
  PROVE  \E f : AddsUp(f, traces, i, S)
<1> DEFINE C == {u \in SUBSET M : ~\E f : AddsUp(f, traces, i, u)}
<1> SUFFICES ASSUME C # {} PROVE FALSE
  OBVIOUS
<1>0. C \subseteq SUBSET M
  OBVIOUS
<1> HIDE DEF C
<1>1. PICK u \in C : \A t \in C : t \subseteq u => t = u
  BY <1>0, MinimalSet
<1> DEFINE sum == [s \in SUBSET u |-> IF s = {} THEN 0 ELSE
                    traces[Some(s)][i] + Together(traces, i, s \ {Some(s)})]
<1>2. ASSUME NEW s \in SUBSET u, s # u
      PROVE  /\ AddsUp(CHOOSE f : AddsUp(f, traces, i, s), traces, i, s)
             /\ s \in SUBSET M
  BY <1>0, <1>1, <1>2 DEF C
<1>3. ASSUME NEW s \in SUBSET u, s # u
      PROVE  Together(traces, i, s) = sum[s]
  <2> DEFINE own == CHOOSE f : AddsUp(f, traces, i, s)
             rest == s \ {Some(s)}
             other == CHOOSE f : AddsUp(f, traces, i, rest)
  <2>1. AddsUp(own, traces, i, s)
    BY <1>2, <1>3
  <2> HIDE DEF own
  <2>2. Together(traces, i, s) = own[s]
    BY Zenon DEF Together, own
  <2>3. own[s] = IF s = {} THEN 0 ELSE traces[Some(s)][i] + own[rest]
    BY <2>1, Zenon DEF AddsUp
  <2>4. CASE s = {}
    BY <2>2, <2>3, <2>4
  <2>5. CASE s # {}
    <3>1. rest \subseteq s /\ rest # s
      BY <2>5, SomeIsIn
    <3>2. AddsUp(other, traces, i, rest) /\ rest \in SUBSET M /\ s \in SUBSET M
      BY <1>2, <1>3, <3>1
    <3> HIDE DEF other
    <3> HIDE DEF rest
    <3>3. own[rest] = other[rest]
      BY <2>1, <3>1, <3>2, FoldsAgree
    <3>4. Together(traces, i, rest) = other[rest]
      BY Zenon DEF Together, other
    <3> QED
      BY <2>2, <2>3, <2>5, <3>3, <3>4 DEF rest
  <2> QED
    BY <2>4, <2>5
<1>4. \A s \in SUBSET u : s # {} => Together(traces, i, s \ {Some(s)}) = sum[s \ {Some(s)}]
  BY <1>3, SomeIsIn
<1>5. sum = [s \in SUBSET u |-> IF s = {} THEN 0
                                ELSE traces[Some(s)][i] + sum[s \ {Some(s)}]]
  BY <1>4
<1> HIDE DEF sum
<1>6. AddsUp(sum, traces, i, u)
  BY <1>5, Zenon DEF AddsUp
<1> QED
  BY <1>6 DEF C

LEMMA TogetherFirst ==
  ASSUME NEW traces, NEW i, NEW S, IsFiniteSet(S)
  PROVE  Together(traces, i, S) =
           IF S = {} THEN 0 ELSE traces[Some(S)][i] + Together(traces, i, S \ {Some(S)})
<1> DEFINE own == CHOOSE f : AddsUp(f, traces, i, S)
           rest == S \ {Some(S)}
           other == CHOOSE f : AddsUp(f, traces, i, rest)
<1>1. AddsUp(own, traces, i, S) /\ AddsUp(other, traces, i, rest)
  BY FoldExists
<1> HIDE DEF own, other
<1>2. Together(traces, i, S) = own[S] /\ Together(traces, i, rest) = other[rest]
  BY Zenon DEF Together, own, other
<1>3. own[S] = IF S = {} THEN 0 ELSE traces[Some(S)][i] + own[rest]
  BY <1>1, Zenon DEF AddsUp
<1>4. own[rest] = other[rest]
  BY <1>1, FoldsAgree
<1> QED
  BY <1>2, <1>3, <1>4

LEMMA TogetherType ==
  ASSUME NEW traces \in [Metered -> [1 .. CELLS -> Nat]], NEW i \in 1 .. CELLS,
         NEW S \in SUBSET Metered
  PROVE  Together(traces, i, S) \in Nat
<1> DEFINE C == {u \in SUBSET Metered : Together(traces, i, u) \notin Nat}
<1> SUFFICES ASSUME C # {} PROVE FALSE
  OBVIOUS
<1>0. C \subseteq SUBSET Metered
  OBVIOUS
<1> HIDE DEF C
<1>1. PICK u \in C : \A t \in C : t \subseteq u => t = u
  <2>1. IsFiniteSet(Metered)
    BY AttributionAssumption
  <2> QED
    BY <1>0, <2>1, MinimalSet
<1>2. Together(traces, i, u) =
        IF u = {} THEN 0 ELSE traces[Some(u)][i] + Together(traces, i, u \ {Some(u)})
  BY <1>0, TogetherFirst, FS_Subset, AttributionAssumption
<1>3. Together(traces, i, u) \notin Nat
  BY DEF C
<1>4. CASE u = {}
  BY <1>2, <1>4, <1>3
<1>5. CASE u # {}
  <2>1. Together(traces, i, u \ {Some(u)}) \in Nat
    BY <1>0, <1>1, <1>5, SomeIsIn DEF C
  <2>2. traces[Some(u)][i] \in Nat
    <3>1. Some(u) \in Metered
      BY <1>0, <1>5, SomeIsIn
    <3> QED
      BY <3>1
  <2> QED
    BY <1>2, <1>5, <1>3, <2>1, <2>2
<1> QED
  BY <1>4, <1>5

\* The order in which the devices are added does not matter.
LEMMA TogetherAny ==
  ASSUME NEW traces \in [Metered -> [1 .. CELLS -> Nat]], NEW i \in 1 .. CELLS,
         NEW S \in SUBSET Metered, NEW d \in S
  PROVE  Together(traces, i, S) = traces[d][i] + Together(traces, i, S \ {d})
<1> DEFINE Adds(u, x) == Together(traces, i, u) = traces[x][i] + Together(traces, i, u \ {x})
           C == {u \in SUBSET Metered : \E x \in u : ~Adds(u, x)}
<1> SUFFICES ASSUME C # {} PROVE FALSE
  OBVIOUS
<1>0. C \subseteq SUBSET Metered
  OBVIOUS
<1> HIDE DEF C
<1>1. PICK u \in C : \A t \in C : t \subseteq u => t = u
  <2>1. IsFiniteSet(Metered)
    BY AttributionAssumption
  <2> QED
    BY <1>0, <2>1, MinimalSet
<1>2. PICK x \in u : ~Adds(u, x)
  BY DEF C
<1> DEFINE y == Some(u)
<1>3. y \in u /\ u \in SUBSET Metered
  BY <1>0, <1>2, SomeIsIn
<1>4. Together(traces, i, u) = traces[y][i] + Together(traces, i, u \ {y})
  BY <1>3, TogetherFirst, FS_Subset, AttributionAssumption
<1> HIDE DEF y
<1>5. x # y
  BY <1>2, <1>4
<1>6. Adds(u \ {y}, x) /\ Adds(u \ {x}, y)
  <2>1. /\ u \ {y} \in SUBSET Metered /\ u \ {y} \notin C /\ x \in u \ {y}
        /\ u \ {x} \in SUBSET Metered /\ u \ {x} \notin C /\ y \in u \ {x}
    BY <1>1, <1>2, <1>3, <1>5
  <2> HIDE DEF Adds
  <2> QED
    BY <2>1 DEF C
<1>7. (u \ {y}) \ {x} = (u \ {x}) \ {y}
  OBVIOUS
<1>8. /\ Together(traces, i, (u \ {x}) \ {y}) \in Nat
      /\ traces[x][i] \in Nat /\ traces[y][i] \in Nat
  BY <1>3, TogetherType
<1>9. Together(traces, i, u) # traces[x][i] + Together(traces, i, u \ {x})
  BY <1>2
<1>10. /\ Together(traces, i, u \ {y}) = traces[x][i] + Together(traces, i, (u \ {x}) \ {y})
       /\ Together(traces, i, u \ {x}) = traces[y][i] + Together(traces, i, (u \ {x}) \ {y})
  BY <1>6, <1>7
<1> QED
  BY <1>4, <1>8, <1>9, <1>10

\* What the model's sum is.
LEMMA TogetherIsTheSum ==
  ASSUME NEW i, NEW S
  PROVE  LET draw(d) == drawn[d][i] IN MapThenSumSet(draw, S) = Together(drawn, i, S)
BY DEF MapThenSumSet, MapThenFoldSet, Together, AddsUp, Some

LEMMA CarriedSum ==
  ASSUME NEW c, NEW others
  PROVE  Carried(c, others) =
           [i \in 1 .. CELLS |->
              others[c][i] + Together(drawn, i, {d \in Metered : home[d] = c})]
BY DEF Carried, MapThenSumSet, MapThenFoldSet, Together, AddsUp, Some

LEMMA PlacedSum ==
  PlacedDrawIsCarried <=>
    \A c \in Clamps :
      100 * Cardinality({i \in 1 .. CELLS :
                           Together(drawn, i, Placed(c))
                             > measured[c][i] + MARGIN_W * Cardinality(Placed(c))})
        <= Cardinality(Placed(c)) * (100 - MIN_CONTAINMENT) * CELLS
BY DEF PlacedDrawIsCarried, Placed, MapThenSumSet, MapThenFoldSet, Together, AddsUp, Some

LEMMA AttributionBounds ==
  /\ CELLS \in Nat /\ MARGIN_W \in Nat /\ 100 - MIN_CONTAINMENT \in Nat /\ MIN_CONTAINMENT \in Nat
  /\ Traces \subseteq [1 .. CELLS -> Nat] /\ OtherLoads \subseteq [1 .. CELLS -> Nat]
  /\ IsFiniteSet(Metered)
  /\ IsFiniteSet(1 .. CELLS) /\ Cardinality(1 .. CELLS) = CELLS
  /\ \A c \in Clamps : c \notin {"open", "no transition", "ambiguous", "no candidate"}
<1>1. CELLS \in Nat /\ CELLS # 0 /\ MARGIN_W \in Nat /\ MIN_CONTAINMENT \in 1 .. 100
  BY AttributionAssumption
<1>2. IsFiniteSet(1 .. CELLS) /\ Cardinality(1 .. CELLS) = CELLS
  BY <1>1, FS_Interval
<1>3. /\ Traces \subseteq [1 .. CELLS -> Nat] /\ OtherLoads \subseteq [1 .. CELLS -> Nat]
      /\ IsFiniteSet(Metered)
      /\ Clamps \cap {"open", "no transition", "ambiguous", "no candidate"} = {}
  BY AttributionAssumption
<1>4. MIN_CONTAINMENT \in Nat /\ 100 - MIN_CONTAINMENT \in Nat
  BY <1>1
<1>5. \A c \in Clamps : c \notin {"open", "no transition", "ambiguous", "no candidate"}
  BY <1>3
<1> QED
  BY <1>1, <1>2, <1>3, <1>4, <1>5

\* Arithmetic the solver does not do on larger terms.
LEMMA Shares ==
  \A a, b, e \in Nat :
    /\ a * b \in Nat /\ a * b * e \in Nat
    /\ 0 * b * e = 0
    /\ (a + 1) * b * e = a * b * e + b * e
<1>1. \A a, b \in Nat : a * b \in Nat /\ 0 * b = 0 /\ (a + 1) * b = a * b + b
  OBVIOUS
<1>2. \A a, b, e \in Nat : (a + b) * e = a * e + b * e
  OBVIOUS
<1> SUFFICES ASSUME NEW a \in Nat, NEW b \in Nat, NEW e \in Nat
             PROVE  /\ a * b \in Nat /\ a * b * e \in Nat
                    /\ 0 * b * e = 0
                    /\ (a + 1) * b * e = a * b * e + b * e
  OBVIOUS
<1>3. a * b \in Nat /\ 0 * b = 0 /\ (a + 1) * b = a * b + b
  BY <1>1
<1>4. a * b * e \in Nat /\ 0 * e = 0
  BY <1>1, <1>3
<1>5. (a * b + b) * e = a * b * e + b * e
  BY <1>2, <1>3
<1> QED
  BY <1>3, <1>4, <1>5

LEMMA Allowed ==
  ASSUME NEW n \in Nat
  PROVE  LET share == (100 - MIN_CONTAINMENT) * CELLS
         IN  /\ share \in Nat /\ n * (100 - MIN_CONTAINMENT) * CELLS \in Nat
             /\ 0 * (100 - MIN_CONTAINMENT) * CELLS = 0
             /\ (n + 1) * (100 - MIN_CONTAINMENT) * CELLS
                  = n * (100 - MIN_CONTAINMENT) * CELLS + share
<1> DEFINE x == 100 - MIN_CONTAINMENT
<1>1. x \in Nat /\ CELLS \in Nat
  BY AttributionBounds
<1> HIDE DEF x
<1>2. /\ x * CELLS \in Nat /\ n * x * CELLS \in Nat /\ 0 * x * CELLS = 0
      /\ (n + 1) * x * CELLS = n * x * CELLS + x * CELLS
  BY <1>1, Shares
<1> QED
  BY <1>2 DEF x

LEMMA PlacedFinite ==
  ASSUME NEW c
  PROVE  /\ Placed(c) \subseteq Metered /\ IsFiniteSet(Placed(c))
         /\ Cardinality(Placed(c)) \in Nat
<1>1. Placed(c) \subseteq Metered
  BY DEF Placed
<1>2. IsFiniteSet(Placed(c))
  BY <1>1, AttributionBounds, FS_Subset
<1> QED
  BY <1>1, <1>2, FS_CardinalityType

LEMMA AttributionInitInv ==
  AttributionInit => AttributionInv
<1> SUFFICES ASSUME AttributionInit PROVE AttributionInv
  OBVIOUS
<1>1. drawn \in [Metered -> [1 .. CELLS -> Nat]]
  BY AttributionBounds DEF AttributionInit
<1>2. measured \in [Clamps -> [1 .. CELLS -> Nat]]
  <2>1. PICK others \in [Clamps -> OtherLoads] : measured = [c \in Clamps |-> Carried(c, others)]
    BY DEF AttributionInit
  <2>2. ASSUME NEW c \in Clamps, NEW i \in 1 .. CELLS
        PROVE  others[c][i] + Together(drawn, i, {d \in Metered : home[d] = c}) \in Nat
    <3>1. Together(drawn, i, {d \in Metered : home[d] = c}) \in Nat
      BY <1>1, TogetherType
    <3>2. others[c] \in [1 .. CELLS -> Nat]
      BY AttributionBounds
    <3> QED
      BY <3>1, <3>2
  <2>3. \A c \in Clamps : Carried(c, others) \in [1 .. CELLS -> Nat]
    BY <2>2, CarriedSum
  <2> QED
    BY <2>1, <2>3
<1>3. residual = measured
  BY DEF AttributionInit
<1>4. result \in [Metered -> {"open", "no transition"}] /\ \A d \in remaining : result[d] = "open"
  BY DEF AttributionInit
<1>5. AttributionTypeOK
  BY <1>2, <1>3, <1>4 DEF AttributionTypeOK, AttributionInit
<1>6. ASSUME NEW c \in Clamps
      PROVE  100 * Cardinality(OverIn(c))
               <= Cardinality(Placed(c)) * (100 - MIN_CONTAINMENT) * CELLS
  <2>1. Placed(c) = {}
    BY <1>4, AttributionBounds DEF Placed
  <2>2. Cardinality(Placed(c)) = 0 /\ \A i : Together(drawn, i, Placed(c)) = 0
    BY <2>1, FS_EmptySet, TogetherFirst
  <2>3. ASSUME NEW i \in 1 .. CELLS, i \in OverIn(c) PROVE FALSE
    <3>1. 0 + residual[c][i] > measured[c][i] + MARGIN_W * 0
      BY <2>2, <2>3 DEF OverIn
    <3>2. residual[c][i] = measured[c][i] /\ measured[c][i] \in Nat
      BY <1>2, <1>3
    <3>3. MARGIN_W * 0 = 0
      <4>1. MARGIN_W \in Nat
        BY AttributionBounds
      <4> QED
        BY <4>1
    <3> QED
      BY <3>1, <3>2, <3>3
  <2>4. OverIn(c) = {}
    BY <2>3 DEF OverIn
  <2>5. Cardinality(OverIn(c)) = 0
    BY <2>4, FS_EmptySet
  <2>6. 0 * (100 - MIN_CONTAINMENT) * CELLS = 0
    BY Allowed
  <2> QED
    BY <2>2, <2>5, <2>6
<1> QED
  BY <1>1, <1>2, <1>4, <1>5, <1>6 DEF AttributionInv

\* A device that is placed was not, and fits the circuit.
LEMMA WinnerFits ==
  ASSUME NEW w \in MostConfident
  PROVE  /\ w[1] \in remaining /\ w[2] \in Clamps
         /\ Contained(drawn[w[1]], residual[w[2]])
<1>1. w \in Winners
  BY DEF MostConfident
<1>2. PICK d \in remaining : w \in {d} \X BestOf(drawn[d], residual)
  BY <1>1 DEF Winners
<1>3. w[1] = d /\ w[2] \in BestOf(drawn[d], residual)
  BY <1>2
<1>4. w[2] \in Qualified(drawn[d], residual)
  BY <1>3 DEF BestOf
<1> QED
  BY <1>3, <1>4 DEF Qualified

LEMMA MaxOfZero ==
  ASSUME NEW x \in Int
  PROVE  /\ Max({0, x}) \in Nat /\ Max({0, x}) >= x
         /\ x <= 0 => Max({0, x}) = 0
         /\ x >= 0 => Max({0, x}) = x
<1>1. CASE x >= 0
  <2>1. x \in {0, x} /\ \A y \in {0, x} : x >= y
    BY <1>1
  <2>2. \A z \in {0, x} : (\A y \in {0, x} : z >= y) => z = x
    BY <1>1
  <2>3. Max({0, x}) = x
    BY <2>1, <2>2 DEF Max
  <2> QED
    BY <1>1, <2>3
<1>2. CASE x < 0
  <2>1. 0 \in {0, x} /\ \A y \in {0, x} : 0 >= y
    BY <1>2
  <2>2. \A z \in {0, x} : (\A y \in {0, x} : z >= y) => z = 0
    BY <1>2
  <2>3. Max({0, x}) = 0
    BY <2>1, <2>2 DEF Max
  <2> QED
    BY <1>2, <2>3
<1> QED
  BY <1>1, <1>2

\* The cells in which a circuit does not carry a device it contains are few.
LEMMA FewCellsFail ==
  ASSUME NEW device, NEW circuit, Contained(device, circuit)
  PROVE  LET failing == {i \in 1 .. CELLS : ~(circuit[i] + MARGIN_W >= device[i])}
         IN  /\ IsFiniteSet(failing) /\ Cardinality(failing) \in Nat
             /\ 100 * Cardinality(failing) <= (100 - MIN_CONTAINMENT) * CELLS
<1> DEFINE carrying == {i \in 1 .. CELLS : circuit[i] + MARGIN_W >= device[i]}
           failing == {i \in 1 .. CELLS : ~(circuit[i] + MARGIN_W >= device[i])}
<1>1. failing = (1 .. CELLS) \ carrying /\ (1 .. CELLS) \cap carrying = carrying
  OBVIOUS
<1>2. 100 * Cardinality(carrying) >= MIN_CONTAINMENT * CELLS
  BY DEF Contained
<1>3. carrying \subseteq 1 .. CELLS
  OBVIOUS
<1> HIDE DEF carrying, failing
<1>4. IsFiniteSet(carrying) /\ Cardinality(carrying) \in Nat
  BY <1>3, AttributionBounds, FS_Subset, FS_CardinalityType
<1>5. IsFiniteSet(failing) /\ Cardinality(failing) = CELLS - Cardinality(carrying)
  BY <1>1, AttributionBounds, FS_Difference
<1>6. Cardinality(failing) \in Nat
  BY <1>5, FS_CardinalityType
<1>7. (100 - MIN_CONTAINMENT) * CELLS = 100 * CELLS - MIN_CONTAINMENT * CELLS
  <2>1. \A a, b \in Nat : (100 - a) * b = 100 * b - a * b
    OBVIOUS
  <2> QED
    BY <2>1, AttributionBounds
<1>8. MIN_CONTAINMENT * CELLS \in Nat /\ CELLS \in Nat
  <2>1. \A a, b \in Nat : a * b \in Nat
    OBVIOUS
  <2> QED
    BY <2>1, AttributionBounds
<1>9. 100 * Cardinality(failing) <= 100 * CELLS - MIN_CONTAINMENT * CELLS
  BY <1>2, <1>4, <1>5, <1>8
<1> QED
  BY <1>5, <1>6, <1>7, <1>9 DEF failing

\* A cell in which too much is placed was one before, or fails the containment of
\* the device placed now.
LEMMA NewlyOver ==
  ASSUME AttributionInv, NEW d \in remaining, NEW c \in Clamps, Place(d, c)
  PROVE  /\ Placed(c)' = Placed(c) \cup {d} /\ d \notin Placed(c)
         /\ OverIn(c)' \subseteq
              OverIn(c) \cup {i \in 1 .. CELLS : ~(residual[c][i] + MARGIN_W >= drawn[d][i])}
<1>1. /\ d \in Metered /\ result[d] = "open" /\ c # "open"
      /\ result \in [Metered -> Clamps \cup {"open", "no transition", "ambiguous", "no candidate"}]
      /\ residual \in [Clamps -> [1 .. CELLS -> Nat]]
      /\ measured \in [Clamps -> [1 .. CELLS -> Nat]]
      /\ drawn \in [Metered -> [1 .. CELLS -> Nat]]
  BY AttributionBounds DEF AttributionInv, AttributionTypeOK
<1>2. /\ result' = [result EXCEPT ![d] = c]
      /\ residual' = [residual EXCEPT ![c] = Subtract(residual[c], drawn[d])]
      /\ drawn' = drawn /\ measured' = measured
  BY DEF Place
<1>3. Placed(c)' = Placed(c) \cup {d} /\ d \notin Placed(c)
  BY <1>1, <1>2 DEF Placed
<1>4. Cardinality(Placed(c)') = Cardinality(Placed(c)) + 1
  BY <1>3, PlacedFinite, FS_AddElement
<1>5. ASSUME NEW i \in 1 .. CELLS, i \in OverIn(c)', residual[c][i] + MARGIN_W >= drawn[d][i]
      PROVE  i \in OverIn(c)
  <2> DEFINE before == Together(drawn, i, Placed(c))
             left == residual[c][i]
             draw == drawn[d][i]
             most == measured[c][i]
             count == Cardinality(Placed(c))
  <2>1. Together(drawn, i, Placed(c)') = draw + before
    <3> DEFINE all == Placed(c) \cup {d}
    <3>1. all \ {d} = Placed(c) /\ all \in SUBSET Metered /\ d \in all
      BY <1>1, <1>3, PlacedFinite
    <3>2. Placed(c)' = all
      BY <1>3
    <3> HIDE DEF all
    <3>3. Together(drawn, i, all) = drawn[d][i] + Together(drawn, i, all \ {d})
      <4>1. drawn \in [Metered -> [1 .. CELLS -> Nat]]
        BY <1>1
      <4>2. \A S \in SUBSET Metered : \A x \in S :
              Together(drawn, i, S) = drawn[x][i] + Together(drawn, i, S \ {x})
        BY <4>1, TogetherAny
      <4> QED
        BY <3>1, <4>2
    <3> QED
      BY <3>1, <3>2, <3>3
  <2>2. before \in Nat /\ left \in Nat /\ draw \in Nat /\ most \in Nat /\ count \in Nat
    <3>1. before \in Nat
      BY <1>1, PlacedFinite, TogetherType
    <3> QED
      BY <1>1, <3>1, PlacedFinite
  <2>3. residual'[c][i] = Max({0, left - draw})
    BY <1>1, <1>2 DEF Subtract
  <2>4. Together(drawn, i, Placed(c)') + residual'[c][i] > most + MARGIN_W * (count + 1)
    BY <1>2, <1>4, <1>5 DEF OverIn
  <2>5. MARGIN_W * (count + 1) = MARGIN_W * count + MARGIN_W /\ MARGIN_W * count \in Nat
    <3>1. \A a, b \in Nat : a * (b + 1) = a * b + a /\ a * b \in Nat
      OBVIOUS
    <3> QED
      BY <2>2, <3>1, AttributionBounds
  <2>6. left + MARGIN_W >= draw
    BY <1>5
  <2>7. i \in OverIn(c) <=> before + left > most + MARGIN_W * count
    BY DEF OverIn
  <2> DEFINE allowed == MARGIN_W * count
  <2>8. draw + before + residual'[c][i] > most + (allowed + MARGIN_W)
    BY <2>1, <2>4, <2>5
  <2>9. residual'[c][i] \in Nat /\ (residual'[c][i] = 0 \/ residual'[c][i] = left - draw)
    <3>1. left - draw \in Int /\ (left - draw <= 0 \/ left - draw >= 0)
      BY <2>2
    <3> QED
      BY <2>3, <3>1, MaxOfZero
  <2>10. allowed \in Nat /\ MARGIN_W \in Nat
    BY <2>5, AttributionBounds
  <2> HIDE DEF before, left, draw, most, count, allowed
  <2>11. before + left > most + allowed
    BY <2>2, <2>6, <2>8, <2>9, <2>10
  <2> QED
    BY <2>7, <2>11 DEF allowed
<1> QED
  BY <1>3, <1>5 DEF OverIn

LEMMA PlaceInv ==
  ASSUME AttributionInv, NEW w \in MostConfident, Place(w[1], w[2])
  PROVE  AttributionInv'
<1> DEFINE d == w[1]
           p == w[2]
<1>1. d \in remaining /\ p \in Clamps /\ Contained(drawn[d], residual[p])
  BY WinnerFits
<1>2. Place(d, p)
  OBVIOUS
<1> HIDE DEF d, p
<1>3. /\ d \in Metered /\ result[d] = "open" /\ remaining \subseteq Metered
      /\ result \in [Metered -> Clamps \cup {"open", "no transition", "ambiguous", "no candidate"}]
      /\ residual \in [Clamps -> [1 .. CELLS -> Nat]]
      /\ measured \in [Clamps -> [1 .. CELLS -> Nat]]
      /\ drawn \in [Metered -> [1 .. CELLS -> Nat]]
      /\ \A e \in remaining : result[e] = "open"
  BY <1>1 DEF AttributionInv, AttributionTypeOK
<1>4. /\ result' = [result EXCEPT ![d] = p]
      /\ residual' = [residual EXCEPT ![p] = Subtract(residual[p], drawn[d])]
      /\ drawn' = drawn /\ measured' = measured /\ remaining' = remaining \ {d}
  BY <1>2 DEF Place
<1>5. Subtract(residual[p], drawn[d]) \in [1 .. CELLS -> Nat]
  <2>1. ASSUME NEW i \in 1 .. CELLS PROVE Max({0, residual[p][i] - drawn[d][i]}) \in Nat
    <3>1. residual[p][i] - drawn[d][i] \in Int
      <4>1. residual[p] \in [1 .. CELLS -> Nat] /\ drawn[d] \in [1 .. CELLS -> Nat]
        BY <1>1, <1>3
      <4>2. residual[p][i] \in Nat /\ drawn[d][i] \in Nat
        BY <4>1
      <4> QED
        BY <4>2
    <3> QED
      BY <3>1, MaxOfZero
  <2> QED
    BY <2>1 DEF Subtract
<1>6. AttributionTypeOK'
  BY <1>1, <1>3, <1>4, <1>5 DEF AttributionTypeOK
<1>7. \A e \in remaining' : result'[e] = "open"
  BY <1>3, <1>4
<1>8. ASSUME NEW c \in Clamps
      PROVE  (100 * Cardinality(OverIn(c))
                <= Cardinality(Placed(c)) * (100 - MIN_CONTAINMENT) * CELLS)'
  <2>1. 100 * Cardinality(OverIn(c)) <= Cardinality(Placed(c)) * (100 - MIN_CONTAINMENT) * CELLS
    BY DEF AttributionInv
  <2>2. CASE c # p
    <3>1. residual'[c] = residual[c]
      BY <1>3, <1>4, <2>2
    <3>2. Placed(c)' = Placed(c)
      <4>1. result[d] # c /\ result'[d] # c
        BY <1>3, <1>4, <2>2, AttributionBounds
      <4>2. \A e \in Metered : result'[e] = c <=> result[e] = c
        BY <1>3, <1>4, <4>1
      <4> QED
        BY <4>2 DEF Placed
    <3>3. OverIn(c)' = OverIn(c)
      BY <1>4, <3>1, <3>2 DEF OverIn
    <3> QED
      BY <2>1, <3>2, <3>3
  <2>3. CASE c = p
    <3> DEFINE failing == {i \in 1 .. CELLS : ~(residual[c][i] + MARGIN_W >= drawn[d][i])}
               few == (100 - MIN_CONTAINMENT) * CELLS
               count == Cardinality(Placed(c))
    <3>1. /\ IsFiniteSet(failing) /\ Cardinality(failing) \in Nat
          /\ 100 * Cardinality(failing) <= few
      BY <1>1, <2>3, FewCellsFail
    <3>2. /\ Placed(c)' = Placed(c) \cup {d} /\ d \notin Placed(c)
          /\ OverIn(c)' \subseteq OverIn(c) \cup failing
      BY <1>1, <1>2, <2>3, NewlyOver
    <3>3. Cardinality(Placed(c)') = count + 1 /\ count \in Nat
      BY <3>2, PlacedFinite, FS_AddElement
    <3>4. IsFiniteSet(OverIn(c))
      BY AttributionBounds, FS_Subset DEF OverIn
    <3> HIDE DEF failing
    <3>5. /\ IsFiniteSet(OverIn(c) \cup failing)
          /\ Cardinality(OverIn(c) \cup failing) <= Cardinality(OverIn(c)) + Cardinality(failing)
      <4>1. /\ IsFiniteSet(OverIn(c) \cup failing)
            /\ Cardinality(OverIn(c) \cup failing) =
                 Cardinality(OverIn(c)) + Cardinality(failing)
                   - Cardinality(OverIn(c) \cap failing)
        BY <3>1, <3>4, FS_Union
      <4>2. Cardinality(OverIn(c) \cap failing) \in Nat /\ Cardinality(OverIn(c)) \in Nat
        BY <3>4, FS_Intersection, FS_CardinalityType
      <4> QED
        BY <3>1, <4>1, <4>2
    <3>6. /\ Cardinality(OverIn(c)') <= Cardinality(OverIn(c)) + Cardinality(failing)
          /\ Cardinality(OverIn(c)') \in Nat /\ Cardinality(OverIn(c)) \in Nat
      <4>1. /\ IsFiniteSet(OverIn(c)')
            /\ Cardinality(OverIn(c)') <= Cardinality(OverIn(c) \cup failing)
        BY <3>2, <3>5, FS_Subset
      <4>2. /\ Cardinality(OverIn(c)') \in Nat /\ Cardinality(OverIn(c)) \in Nat
            /\ Cardinality(OverIn(c) \cup failing) \in Nat
        BY <3>4, <3>5, <4>1, FS_CardinalityType
      <4> QED
        BY <3>1, <3>5, <4>1, <4>2
    <3>7. /\ (count + 1) * (100 - MIN_CONTAINMENT) * CELLS
               = count * (100 - MIN_CONTAINMENT) * CELLS + few
          /\ count * (100 - MIN_CONTAINMENT) * CELLS \in Nat /\ few \in Nat
      BY <3>3, Allowed, Zenon
    <3> DEFINE bound == count * (100 - MIN_CONTAINMENT) * CELLS
    <3>8. 100 * Cardinality(OverIn(c)) <= bound
      BY <2>1
    <3> HIDE DEF bound, few
    <3>9. 100 * Cardinality(OverIn(c)') <= bound + few
      BY <3>1, <3>6, <3>7, <3>8 DEF bound
    <3> QED
      BY <3>3, <3>7, <3>9 DEF bound
  <2> QED
    BY <2>2, <2>3
<1> QED
  BY <1>3, <1>4, <1>6, <1>7, <1>8 DEF AttributionInv

LEMMA LeaveUnplacedInv ==
  ASSUME AttributionInv, LeaveUnplaced
  PROVE  AttributionInv'
<1>1. /\ result \in [Metered -> Clamps \cup {"open", "no transition", "ambiguous", "no candidate"}]
      /\ \A e \in remaining : result[e] = "open"
  BY DEF AttributionInv, AttributionTypeOK
<1>2. UNCHANGED <<drawn, home, measured, residual>> /\ remaining' = {}
  BY DEF LeaveUnplaced
<1>3. \A e \in Metered : /\ e \notin remaining => result'[e] = result[e]
                         /\ e \in remaining => result'[e] \in {"ambiguous", "no candidate"}
  BY DEF LeaveUnplaced
<1>4. result' \in [Metered -> Clamps \cup {"open", "no transition", "ambiguous", "no candidate"}]
  <2>1. result' = [e \in Metered |-> result'[e]]
    BY DEF LeaveUnplaced
  <2>2. \A e \in Metered : result'[e] \in
          Clamps \cup {"open", "no transition", "ambiguous", "no candidate"}
    BY <1>1, <1>3
  <2> QED
    BY <2>1, <2>2
<1>5. ASSUME NEW c \in Clamps PROVE Placed(c)' = Placed(c) /\ OverIn(c)' = OverIn(c)
  <2>1. \A e \in Metered : result'[e] = c <=> result[e] = c
    BY <1>1, <1>3, AttributionBounds
  <2>2. Placed(c)' = Placed(c)
    BY <2>1 DEF Placed
  <2> QED
    BY <1>2, <2>2 DEF OverIn
<1> QED
  BY <1>2, <1>4, <1>5 DEF AttributionInv, AttributionTypeOK

LEMMA AttributionNextInv ==
  AttributionInv /\ [AttributionNext]_mapping => AttributionInv'
<1> SUFFICES ASSUME AttributionInv, [AttributionNext]_mapping PROVE AttributionInv'
  OBVIOUS
<1>1. CASE \E w \in MostConfident : Place(w[1], w[2])
  BY <1>1, PlaceInv
<1>2. CASE LeaveUnplaced
  BY <1>2, LeaveUnplacedInv
<1>3. CASE UNCHANGED mapping
  BY <1>3 DEF mapping, AttributionInv, AttributionTypeOK, OverIn, Placed
<1> QED
  BY <1>1, <1>2, <1>3 DEF AttributionNext

LEMMA PlacedIsCarried ==
  AttributionInv => PlacedDrawIsCarried
<1> SUFFICES ASSUME AttributionInv, NEW c \in Clamps
             PROVE  100 * Cardinality({i \in 1 .. CELLS :
                             Together(drawn, i, Placed(c))
                               > measured[c][i] + MARGIN_W * Cardinality(Placed(c))})
                      <= Cardinality(Placed(c)) * (100 - MIN_CONTAINMENT) * CELLS
  BY PlacedSum
<1> DEFINE over == {i \in 1 .. CELLS : Together(drawn, i, Placed(c))
                      > measured[c][i] + MARGIN_W * Cardinality(Placed(c))}
           bound == Cardinality(Placed(c)) * (100 - MIN_CONTAINMENT) * CELLS
<1>1. ASSUME NEW i \in over PROVE i \in OverIn(c)
  <2>1. /\ residual[c][i] \in Nat /\ measured[c][i] \in Nat
        /\ Together(drawn, i, Placed(c)) \in Nat
    BY PlacedFinite, TogetherType DEF AttributionInv, AttributionTypeOK
  <2>2. MARGIN_W * Cardinality(Placed(c)) \in Nat
    <3>1. \A a, b \in Nat : a * b \in Nat
      OBVIOUS
    <3> QED
      BY <3>1, PlacedFinite, AttributionBounds
  <2>3. \A s, r, m \in Nat : s > m => s + r > m
    OBVIOUS
  <2> DEFINE limit == measured[c][i] + MARGIN_W * Cardinality(Placed(c))
  <2>4. limit \in Nat /\ Together(drawn, i, Placed(c)) > limit
    BY <2>1, <2>2
  <2> HIDE DEF limit
  <2>5. Together(drawn, i, Placed(c)) + residual[c][i] > limit
    BY <2>1, <2>3, <2>4
  <2> QED
    BY <2>5 DEF OverIn, limit
<1>2. over \subseteq OverIn(c)
  BY <1>1
<1>3. IsFiniteSet(OverIn(c))
  BY AttributionBounds, FS_Subset DEF OverIn
<1>4. 100 * Cardinality(OverIn(c)) <= bound
  BY DEF AttributionInv
<1>5. bound \in Nat
  <2>1. \A a, b \in Nat : a * b \in Nat
    OBVIOUS
  <2> QED
    BY <2>1, PlacedFinite, AttributionBounds
<1> HIDE DEF over, bound
<1>6. /\ Cardinality(over) <= Cardinality(OverIn(c))
      /\ Cardinality(over) \in Nat /\ Cardinality(OverIn(c)) \in Nat
  BY <1>2, <1>3, FS_Subset, FS_CardinalityType
<1>7. 100 * Cardinality(over) <= bound
  BY <1>4, <1>5, <1>6
<1> QED
  BY <1>7 DEF over, bound

(* For any devices, circuits and traces, and whichever of the placements   *)
(* that score alike is made first: what is placed on a circuit, it can     *)
(* carry (attribution.py:224-300).                                         *)
THEOREM PlacedDrawsAreCarried ==
  AttributionSpec => []PlacedDrawIsCarried
<1> QED
  BY PlacedIsCarried, AttributionInitInv, AttributionNextInv, PTL DEF AttributionSpec

(* The state of the placement keeps its type.                              *)
THEOREM AttributionTypes ==
  AttributionSpec => []AttributionTypeOK
<1>1. AttributionInv => AttributionTypeOK
  BY DEF AttributionInv
<1> QED
  BY <1>1, AttributionInitInv, AttributionNextInv, PTL DEF AttributionSpec

-----------------------------------------------------------------------------
(* Correlation.                                                            *)

Near(u, k) == times[k] \in edges[u] - HALF_S .. edges[u] + HALF_S

\* What the greedy pairing guarantees at any moment: the pairs made (p), in order,
\* the events left out being too early for every later edge; and a choice of the
\* paired edges (B) such that an edge and an event near each other are either a
\* paired edge not in B, or an event paired with an edge in B.
Pairing(p, B) ==
  /\ p \in [hit -> 1 .. free - 1]
  /\ \A u, v \in hit : u < v => p[u] < p[v]
  /\ \A u \in hit : Near(u, p[u])
  /\ \A k \in 1 .. free - 1 : (\A u \in hit : p[u] # k) =>
       \A u \in 1 .. Len(edges) : u >= nextEdge \/ (u \in hit /\ p[u] > k)
                                    => times[k] < edges[u] - HALF_S
  /\ B \subseteq hit
  /\ \A u \in 1 .. nextEdge - 1 : \A k \in 1 .. Len(times) :
       Near(u, k) => u \in hit \ B \/ \E v \in B : p[v] = k

Ascending(s) ==
  /\ s \in Seq(Int)
  /\ \A i, j \in 1 .. Len(s) : i <= j => s[i] <= s[j]

CorrelationInv ==
  /\ CorrelationTypeOK
  /\ Ascending(times) /\ Ascending(edges)
  /\ \E p, B : Pairing(p, B)

LEMMA ImageIsFinite ==
  ASSUME NEW D, IsFiniteSet(D), NEW f, DOMAIN f = D
  PROVE  IsFiniteSet({f[i] : i \in D})
<1> DEFINE T == {f[i] : i \in D}
           s == [i \in D |-> f[i]]
<1>1. s \in Surjection(D, T)
  BY DEF Surjection
<1> QED
  BY <1>1, FS_Surjection

\* The numbers of a set in order.
LEMMA InOrderAscends ==
  ASSUME NEW N, N \subseteq Int, IsFiniteSet(N)
  PROVE  Ascending(InOrder(N))
<1> DEFINE below(x) == {y \in N : y < x}
           size == Cardinality(N)
           rank == [x \in N |-> Cardinality(below(x))]
<1>1. size \in Nat
  BY FS_CardinalityType
<1>2. \A x \in N : IsFiniteSet(below(x)) /\ rank[x] \in Nat
  BY FS_Subset, FS_CardinalityType
<1>3. \A x \in N : rank[x] \in 0 .. size - 1
  <2> SUFFICES ASSUME NEW x \in N PROVE rank[x] \in 0 .. size - 1
    OBVIOUS
  <2>1. IsFiniteSet(N \ {x}) /\ Cardinality(N \ {x}) = size - 1
    BY FS_RemoveElement
  <2>2. below(x) \subseteq N \ {x}
    OBVIOUS
  <2>3. Cardinality(below(x)) <= Cardinality(N \ {x})
    BY <2>1, <2>2, FS_Subset
  <2> QED
    BY <1>1, <1>2, <2>1, <2>3
<1>4. ASSUME NEW x \in N, NEW y \in N, x < y
      PROVE  rank[x] < rank[y]
  <2>1. below(x) \cup {x} \subseteq below(y) /\ x \notin below(x)
    <3>1. x \in Int /\ y \in Int /\ \A z \in N : z \in Int
      OBVIOUS
    <3>2. \A z \in N : z < x => z < y
      BY <1>4, <3>1
    <3>3. ~(x < x)
      BY <3>1
    <3> QED
      BY <1>4, <3>2, <3>3
  <2>2. Cardinality(below(x) \cup {x}) = Cardinality(below(x)) + 1
    BY <1>2, <2>1, FS_AddElement
  <2>3. Cardinality(below(x) \cup {x}) <= Cardinality(below(y))
    BY <1>2, <2>1, FS_Subset
  <2> QED
    BY <1>2, <2>2, <2>3
<1> HIDE DEF rank, size
<1>5. rank \in Injection(N, 0 .. size - 1)
  <2>1. rank \in [N -> 0 .. size - 1]
    BY <1>3 DEF rank
  <2>2. \A x, y \in N : rank[x] = rank[y] => x = y
    <3> SUFFICES ASSUME NEW x \in N, NEW y \in N, rank[x] = rank[y], x # y PROVE FALSE
      OBVIOUS
    <3>1. x < y \/ y < x
      OBVIOUS
    <3>2. rank[x] \in Nat /\ rank[y] \in Nat
      BY <1>2
    <3> QED
      BY <1>4, <3>1, <3>2
  <2> QED
    BY <2>1, <2>2 DEF Injection, IsInjective
<1>6. IsFiniteSet(0 .. size - 1) /\ Cardinality(0 .. size - 1) = size
  BY <1>1, FS_Interval
<1>7. rank \in Surjection(N, 0 .. size - 1)
  BY <1>5, <1>6, FS_Injection DEF size
<1>8. ASSUME NEW k \in 1 .. size
      PROVE  \E x \in N : rank[x] = k - 1
  <2>1. k - 1 \in 0 .. size - 1
    BY <1>1
  <2> QED
    BY <1>7, <2>1 DEF Surjection
<1> DEFINE s == InOrder(N)
           at(k) == CHOOSE x \in N : Cardinality({y \in N : y < x}) = k - 1
<1>9. ASSUME NEW k \in 1 .. size
      PROVE  s[k] \in N /\ rank[s[k]] = k - 1
  <2>1. \E x \in N : Cardinality({y \in N : y < x}) = k - 1
    BY <1>8 DEF rank
  <2>2. at(k) \in N /\ Cardinality({y \in N : y < at(k)}) = k - 1
    BY <2>1
  <2>3. s[k] = at(k)
    <3>1. InOrder(N) = [j \in 1 .. size |-> at(j)]
      BY Zenon DEF InOrder, size
    <3> HIDE DEF at
    <3> QED
      BY <3>1
  <2> HIDE DEF at, s
  <2> QED
    BY <2>2, <2>3 DEF rank
<1>10. s = [k \in 1 .. size |-> s[k]]
  <2>1. s = [j \in 1 .. size |-> at(j)]
    BY Zenon DEF InOrder, size
  <2> HIDE DEF at, s
  <2> QED
    BY <2>1
<1> HIDE DEF s
<1>11. s \in Seq(Int) /\ Len(s) = size
  <2>1. s \in [1 .. size -> Int]
    BY <1>9, <1>10
  <2> QED
    BY <1>1, <2>1
<1>12. ASSUME NEW i \in 1 .. size, NEW j \in 1 .. size, i <= j
       PROVE  s[i] <= s[j]
  <2>1. s[i] \in N /\ s[j] \in N /\ rank[s[i]] = i - 1 /\ rank[s[j]] = j - 1
    BY <1>9
  <2>2. s[j] < s[i] => rank[s[j]] < rank[s[i]]
    BY <1>4, <2>1
  <2>3. ~(j - 1 < i - 1)
    BY <1>1, <1>12
  <2>4. s[i] \in Int /\ s[j] \in Int /\ ~(s[j] < s[i])
    BY <2>1, <2>2, <2>3
  <2> QED
    BY <2>4
<1> QED
  BY <1>11, <1>12 DEF Ascending, s

\* A nonempty set of numbers has a least one.
LEMMA LeastNumber ==
  ASSUME NEW T, T \subseteq Nat, T # {}
  PROVE  \E m \in T : \A n \in T : m <= n
<1> DEFINE R == OpToRel(<, Nat)
<1>1. \A x, y \in Nat : y < x => <<y, x>> \in R
  BY DEF OpToRel
<1>2. IsWellFoundedOn(R, Nat)
  BY NatLessThanWellFounded, Zenon
<1> HIDE DEF R
<1>3. PICK x \in T : \A y \in T : ~(<<y, x>> \in R)
  BY <1>2, WFMin
<1>4. \A y \in T : ~(y < x)
  BY <1>1, <1>3
<1>5. x \in Nat /\ \A y \in T : y \in Nat
  OBVIOUS
<1> QED
  BY <1>4, <1>5

LEMMA CorrelationInitInv ==
  CorrelationInit => CorrelationInv
<1> SUFFICES ASSUME CorrelationInit PROVE CorrelationInv
  OBVIOUS
<1>1. Ascending(times)
  <2>1. PICK d \in Diaries, state \in {"on", "off"} : times = InOrder(Transitions(d, state))
    BY DEF CorrelationInit, Series
  <2>2. d \in Seq([at : Int, state : STRING])
    BY CorrelationAssumption
  <2> DEFINE at == [i \in 2 .. Len(d) |-> d[i].at]
  <2>3. \A i \in 2 .. Len(d) : at[i] \in Int
    <3>1. \A i \in 2 .. Len(d) : i \in 1 .. Len(d)
      OBVIOUS
    <3>2. ASSUME NEW i \in 1 .. Len(d) PROVE d[i].at \in Int
      <4> DEFINE Row == [at : Int, state : STRING]
      <4>1. d \in Seq(Row) /\ \A row \in Row : row.at \in Int
        BY <2>2
      <4> HIDE DEF Row
      <4>2. d[i] \in Row
        BY <4>1
      <4> QED
        BY <4>1, <4>2
    <3> QED
      BY <3>1, <3>2
  <2>4. IsFiniteSet({at[i] : i \in 2 .. Len(d)})
    <3>1. IsFiniteSet(2 .. Len(d))
      BY <2>2, FS_Interval
    <3> QED
      BY <3>1, ImageIsFinite
  <2>5. Transitions(d, state) \subseteq {at[i] : i \in 2 .. Len(d)}
    BY DEF Transitions
  <2>6. Transitions(d, state) \subseteq Int /\ IsFiniteSet(Transitions(d, state))
    BY <2>3, <2>4, <2>5, FS_Subset
  <2> QED
    BY <2>1, <2>6, InOrderAscends
<1>2. Ascending(edges)
  <2>1. PICK spans \in Spans, side \in {"start", "end"} :
          edges = Observed(spans, side, 0, WindowEnd)
    BY DEF CorrelationInit, EdgesSeen
  <2>2. spans \in Seq(Int \X Int)
    BY CorrelationAssumption
  <2> DEFINE seen(s) == IF side = "start" THEN s[1] > 0 ELSE s[2] < WindowEnd
             edge(s) == IF side = "start" THEN s[1] ELSE s[2]
             edgeAt == [i \in 1 .. Len(spans) |-> edge(spans[i])]
             N == {edge(spans[i]) : i \in {k \in DOMAIN spans : seen(spans[k])}}
  <2>3. edges = InOrder(N)
    BY <2>1 DEF Observed
  <2>4. DOMAIN spans = 1 .. Len(spans) /\ Len(spans) \in Nat
    BY <2>2
  <2>5. \A i \in 1 .. Len(spans) : edgeAt[i] \in Int
    BY <2>2
  <2>6. N \subseteq {edgeAt[i] : i \in 1 .. Len(spans)}
    BY <2>4
  <2>7. IsFiniteSet({edgeAt[i] : i \in 1 .. Len(spans)})
    <3>1. IsFiniteSet(1 .. Len(spans))
      BY <2>4, FS_Interval
    <3> QED
      BY <3>1, ImageIsFinite
  <2> HIDE DEF N, edgeAt
  <2>8. N \subseteq Int /\ IsFiniteSet(N)
    BY <2>5, <2>6, <2>7, FS_Subset
  <2> QED
    BY <2>3, <2>8, InOrderAscends
<1>3. Len(times) \in Nat /\ Len(edges) \in Nat
  BY <1>1, <1>2 DEF Ascending
<1>4. CorrelationTypeOK
  BY <1>3 DEF CorrelationTypeOK, CorrelationInit
<1>5. hit = {} /\ free = 1 /\ nextEdge = 1
  BY DEF CorrelationInit
<1>6. Pairing([u \in {} |-> 1], {})
  BY <1>5 DEF Pairing
<1> QED
  BY <1>1, <1>2, <1>4, <1>6 DEF CorrelationInv

\* The first free event that is not too early, if there is one.
LEMMA FirstFromIs ==
  ASSUME Ascending(times), free \in 1 .. Len(times) + 1, NEW at \in Int
  PROVE  /\ FirstFrom(at) \in free .. Len(times) + 1
         /\ \A j \in free .. FirstFrom(at) - 1 : j \in 1 .. Len(times) /\ times[j] < at
         /\ FirstFrom(at) <= Len(times) => times[FirstFrom(at)] >= at
<1> DEFINE late == {k \in free .. Len(times) : times[k] >= at} \cup {Len(times) + 1}
           k == FirstFrom(at)
<1>1. Len(times) \in Nat /\ free \in Nat \ {0} /\ \A j \in 1 .. Len(times) : times[j] \in Int
  BY DEF Ascending
<1>2. late \subseteq free .. Len(times) + 1 /\ late # {} /\ late \subseteq Nat
  BY <1>1
<1> HIDE DEF late
<1>3. \E x \in late : \A y \in late : x <= y
  BY <1>2, LeastNumber
<1>4. k \in late /\ \A y \in late : k <= y
  BY <1>3 DEF FirstFrom, Min, late
<1> HIDE DEF k
<1>5. k \in free .. Len(times) + 1
  BY <1>2, <1>4
<1>6. ASSUME NEW j \in free .. k - 1
      PROVE  j \in 1 .. Len(times) /\ times[j] < at
  <2>1. j \in free .. Len(times) /\ j \in 1 .. Len(times) /\ ~(k <= j)
    BY <1>1, <1>5
  <2>2. j \notin late
    BY <1>4, <2>1
  <2>3. ~(times[j] >= at)
    BY <2>1, <2>2 DEF late
  <2> QED
    BY <1>1, <2>1, <2>3
<1>7. k <= Len(times) => times[k] >= at
  BY <1>1, <1>4 DEF late
<1> QED
  BY <1>5, <1>6, <1>7 DEF k

\* Types of what the step of an edge uses.
LEMMA CorrelationFacts ==
  ASSUME CorrelationInv
  PROVE  /\ Len(times) \in Nat /\ Len(edges) \in Nat /\ HALF_S \in Nat
         /\ \A k \in 1 .. Len(times) : times[k] \in Int
         /\ \A u \in 1 .. Len(edges) : edges[u] \in Int
         /\ \A i, j \in 1 .. Len(times) : i <= j => times[i] <= times[j]
         /\ \A u, v \in 1 .. Len(edges) : u <= v => edges[u] <= edges[v]
         /\ nextEdge \in 1 .. Len(edges) + 1 /\ free \in 1 .. Len(times) + 1
         /\ hit \subseteq 1 .. nextEdge - 1
         /\ hit \subseteq 1 .. Len(edges)
<1>1. HALF_S \in Nat
  BY CorrelationAssumption
<1>2. Len(times) \in Nat /\ Len(edges) \in Nat
  BY DEF CorrelationInv, Ascending
<1>3. nextEdge \in 1 .. Len(edges) + 1 /\ hit \subseteq 1 .. nextEdge - 1
  BY DEF CorrelationInv, CorrelationTypeOK
<1>4. hit \subseteq 1 .. Len(edges)
  BY <1>2, <1>3
<1> QED
  BY <1>1, <1>2, <1>3, <1>4 DEF CorrelationInv, Ascending, CorrelationTypeOK

\* An edge with an event near it takes the first.
LEMMA PairedInv ==
  ASSUME CorrelationInv, Pair,
         hit' = hit \cup {nextEdge}
  PROVE  CorrelationInv'
<1> DEFINE e == nextEdge
           k == FirstFrom(edges[e] - HALF_S)
<1>1. PICK p, B : Pairing(p, B)
  BY DEF CorrelationInv
<1>2. /\ e \in 1 .. Len(edges) /\ edges[e] - HALF_S \in Int
      /\ Len(times) \in Nat /\ Len(edges) \in Nat /\ free \in 1 .. Len(times) + 1
      /\ hit \subseteq 1 .. e - 1 /\ e \notin hit
  BY CorrelationFacts DEF Pair
<1>3. UNCHANGED <<times, edges, found>> /\ nextEdge' = e + 1
  BY DEF Pair
<1>4. k <= Len(times) /\ times[k] <= edges[e] + HALF_S /\ free' = k + 1
  BY <1>2 DEF Pair
<1> HIDE DEF k
<1>5. /\ k \in free .. Len(times) /\ times[k] >= edges[e] - HALF_S
      /\ \A j \in free .. k - 1 : times[j] < edges[e] - HALF_S
  <2>1. Ascending(times)
    BY DEF CorrelationInv
  <2>2. /\ k \in free .. Len(times) + 1
        /\ \A j \in free .. k - 1 : j \in 1 .. Len(times) /\ times[j] < edges[e] - HALF_S
        /\ k <= Len(times) => times[k] >= edges[e] - HALF_S
    BY <1>2, <2>1, FirstFromIs DEF k
  <2> QED
    BY <1>2, <1>4, <2>2
<1>6. k \in 1 .. Len(times) /\ times[k] \in Int /\ edges[e] \in Int
  BY <1>2, <1>5, CorrelationFacts
<1>16. PICK q : q = [u \in hit \cup {e} |-> IF u = e THEN k ELSE p[u]]
  OBVIOUS
<1>7. q[e] = k /\ \A u \in hit : q[u] = p[u] /\ q[u] \in 1 .. free - 1
  BY <1>1, <1>2, <1>16 DEF Pairing
<1>8. q \in [hit' -> 1 .. free' - 1]
  <2>1. \A u \in hit' : q[u] \in 1 .. k
    BY <1>2, <1>5, <1>6, <1>7
  <2>2. 1 .. k = 1 .. free' - 1
    BY <1>4, <1>6
  <2> QED
    BY <1>16, <2>1, <2>2
<1>9. \A u, v \in hit' : u < v => q[u] < q[v]
  <2> SUFFICES ASSUME NEW u \in hit', NEW v \in hit', u < v PROVE q[u] < q[v]
    OBVIOUS
  <2>1. u \in hit
    BY <1>2
  <2>2. CASE v = e
    BY <1>2, <1>5, <1>7, <2>1, <2>2
  <2>3. CASE v \in hit
    BY <1>1, <1>7, <2>1, <2>3 DEF Pairing
  <2> QED
    BY <2>2, <2>3
<1>10. \A u \in hit' : Near(u, q[u])'
  <2>1. Near(e, q[e])
    BY <1>4, <1>5, <1>6, <1>7, CorrelationFacts DEF Near
  <2>2. \A u \in hit : Near(u, q[u])
    BY <1>1, <1>7 DEF Pairing
  <2> QED
    BY <1>3, <2>1, <2>2 DEF Near
<1>11. ASSUME NEW j \in 1 .. free' - 1, \A u \in hit' : q[u] # j,
              NEW u \in 1 .. Len(edges), u >= nextEdge' \/ (u \in hit' /\ q[u] > j)
       PROVE  times[j] < edges[u] - HALF_S
  <2>1. j \in 1 .. k - 1 /\ j \in 1 .. Len(times)
    BY <1>2, <1>4, <1>6, <1>7, <1>11
  <2>2. CASE j < free
    <3>1. j \in 1 .. free - 1 /\ \A v \in hit : p[v] # j
      BY <1>2, <1>7, <1>11, <2>1, <2>2
    <3>2. u >= nextEdge \/ (u \in hit /\ p[u] > j)
      BY <1>2, <1>3, <1>7, <1>11
    <3> QED
      BY <1>1, <3>1, <3>2 DEF Pairing
  <2>3. CASE j >= free
    <3>1. times[j] < edges[e] - HALF_S
      BY <1>2, <1>5, <2>1, <2>3
    <3>2. u >= e
      <4>1. CASE u \in hit
        BY <1>2, <1>7, <1>11, <1>3, <2>3, <4>1
      <4> QED
        BY <1>2, <1>3, <1>11, <4>1
    <3>3. edges[e] <= edges[u]
      BY <1>2, <3>2, CorrelationFacts
    <3>4. times[j] \in Int /\ edges[u] \in Int /\ edges[e] \in Int /\ HALF_S \in Nat
      BY <1>2, <2>1, CorrelationFacts
    <3> QED
      BY <3>1, <3>3, <3>4
  <2> QED
    BY <1>2, <2>1, <2>2, <2>3
<1>12. ASSUME NEW u \in 1 .. nextEdge' - 1, NEW i \in 1 .. Len(times), Near(u, i)
       PROVE  u \in hit' \ B \/ \E v \in B : q[v] = i
  <2>1. CASE u = e
    BY <1>1, <1>2, <2>1 DEF Pairing
  <2>2. CASE u # e
    <3>1. u \in 1 .. nextEdge - 1
      BY <1>2, <1>3, <2>2
    <3>2. u \in hit \ B \/ \E v \in B : p[v] = i
      BY <1>1, <1>12, <3>1 DEF Pairing
    <3>3. B \subseteq hit
      BY <1>1 DEF Pairing
    <3> QED
      BY <1>7, <3>2, <3>3
  <2> QED
    BY <2>1, <2>2
<1>13. Pairing(q, B)'
  <2>1. B \subseteq hit'
    BY <1>1 DEF Pairing
  <2>2. \A u, i : Near(u, i)' <=> Near(u, i)
    BY <1>3 DEF Near
  <2> QED
    BY <1>3, <1>8, <1>9, <1>10, <1>11, <1>12, <2>1, <2>2 DEF Pairing
<1>14. CorrelationTypeOK'
  BY <1>2, <1>3, <1>4, <1>6 DEF CorrelationInv, CorrelationTypeOK
<1> QED
  BY <1>3, <1>13, <1>14 DEF CorrelationInv, Ascending

\* An edge with none leaves its cluster to the events that are paired already.
LEMMA NotPairedInv ==
  ASSUME CorrelationInv, Pair, hit' = hit
  PROVE  CorrelationInv'
<1> DEFINE e == nextEdge
           k == FirstFrom(edges[e] - HALF_S)
<1>1. PICK p, B : Pairing(p, B)
  BY DEF CorrelationInv
<1>2. /\ e \in 1 .. Len(edges) /\ edges[e] - HALF_S \in Int
      /\ Len(times) \in Nat /\ Len(edges) \in Nat /\ free \in 1 .. Len(times) + 1
      /\ hit \subseteq 1 .. e - 1 /\ e \notin hit
  BY CorrelationFacts DEF Pair
<1>3. UNCHANGED <<times, edges, found>> /\ nextEdge' = e + 1
  BY DEF Pair
<1>4. ~(k <= Len(times) /\ times[k] <= edges[e] + HALF_S) /\ free' = k
  BY <1>2 DEF Pair
<1> HIDE DEF k
<1>5. /\ k \in free .. Len(times) + 1
      /\ \A j \in free .. k - 1 : j \in 1 .. Len(times) /\ times[j] < edges[e] - HALF_S
  BY <1>2, FirstFromIs DEF k, CorrelationInv
<1>6. \A j \in 1 .. Len(times) : j >= k => times[j] > edges[e] + HALF_S
  <2> SUFFICES ASSUME NEW j \in 1 .. Len(times), j >= k PROVE times[j] > edges[e] + HALF_S
    OBVIOUS
  <2>1. k \in 1 .. Len(times) /\ k <= j
    BY <1>2, <1>5
  <2>2. times[k] <= times[j] /\ times[k] \in Int /\ times[j] \in Int
    BY <2>1, CorrelationFacts
  <2>3. ~(times[k] <= edges[e] + HALF_S) /\ edges[e] \in Int /\ HALF_S \in Nat
    BY <1>2, <1>4, <2>1, CorrelationFacts
  <2> QED
    BY <2>2, <2>3
<1>7. p \in [hit -> 1 .. free' - 1]
  <2>1. \A u \in hit : p[u] \in 1 .. free - 1
    BY <1>1 DEF Pairing
  <2>2. 1 .. free - 1 \subseteq 1 .. free' - 1
    BY <1>2, <1>4, <1>5
  <2> QED
    BY <1>1, <2>1, <2>2 DEF Pairing
<1>8. ASSUME NEW j \in 1 .. free' - 1, \A u \in hit : p[u] # j,
             NEW u \in 1 .. Len(edges), u >= nextEdge' \/ (u \in hit /\ p[u] > j)
      PROVE  times[j] < edges[u] - HALF_S
  <2>1. p \in [hit -> 1 .. free - 1]
    BY <1>1 DEF Pairing
  <2>2. CASE j < free
    <3>1. j \in 1 .. free - 1
      BY <1>2, <2>2
    <3>2. u >= nextEdge \/ (u \in hit /\ p[u] > j)
      BY <1>2, <1>3, <1>8
    <3> QED
      BY <1>1, <1>8, <3>1, <3>2 DEF Pairing
  <2>3. CASE j >= free
    <3>1. j \in free .. k - 1
      BY <1>2, <1>4, <1>5, <2>3
    <3>2. times[j] < edges[e] - HALF_S /\ j \in 1 .. Len(times)
      BY <1>5, <3>1
    <3>3. u >= e
      BY <1>2, <1>3, <1>8, <2>1, <2>3
    <3>4. edges[e] <= edges[u]
      BY <1>2, <3>3, CorrelationFacts
    <3>5. times[j] \in Int /\ edges[u] \in Int /\ edges[e] \in Int /\ HALF_S \in Nat
      BY <1>2, <3>2, CorrelationFacts
    <3> QED
      BY <3>2, <3>4, <3>5
  <2> QED
    BY <1>2, <1>4, <1>5, <2>2, <2>3
<1> DEFINE used(j) == \E v \in hit : p[v] = j
           run == {j \in 1 .. free - 1 : \A m \in j .. free - 1 : used(m)}
           C == B \cup {u \in hit : p[u] \in run}
<1>9. \E D : /\ D \subseteq hit
             /\ \A u \in 1 .. e : \A i \in 1 .. Len(times) :
                  Near(u, i) => u \in hit \ D \/ \E v \in D : p[v] = i
  <2>1. B \subseteq hit
    BY <1>1 DEF Pairing
  <2>2. ASSUME NEW u \in 1 .. e - 1, NEW i \in 1 .. Len(times), Near(u, i)
        PROVE  u \in hit \ B \/ \E v \in B : p[v] = i
    BY <1>1, <2>2 DEF Pairing
  <2>3. CASE \A i \in 1 .. Len(times) : ~Near(e, i)
    <3>1. \A u \in 1 .. e : u \in 1 .. e - 1 \/ u = e
      BY <1>2
    <3> QED
      BY <2>1, <2>2, <2>3, <3>1
  <2>4. CASE \E i \in 1 .. Len(times) : Near(e, i)
    <3>1. PICK near \in 1 .. Len(times) : Near(e, near)
      BY <2>4
    <3>2. near < free /\ k = free
      <4>1. /\ times[near] >= edges[e] - HALF_S /\ times[near] <= edges[e] + HALF_S
            /\ times[near] \in Int
        BY <1>2, <3>1, CorrelationFacts DEF Near
      <4>2. ~(near >= k)
        BY <1>2, <1>6, <4>1, CorrelationFacts
      <4>3. ~(near \in free .. k - 1)
        BY <1>2, <1>5, <4>1, CorrelationFacts
      <4>4. near < free
        BY <1>2, <1>5, <4>2, <4>3
      <4>5. ASSUME k # free PROVE FALSE
        <5>1. free \in free .. k - 1
          BY <1>2, <1>5, <4>5
        <5>2. free \in 1 .. Len(times) /\ times[free] < edges[e] - HALF_S
          BY <1>5, <5>1
        <5>3. times[near] <= times[free] /\ times[free] \in Int
          BY <4>4, <5>2, CorrelationFacts
        <5> QED
          BY <1>2, <4>1, <5>2, <5>3, CorrelationFacts
      <4> QED
        BY <4>4, <4>5
    <3>3. \A m \in 1 .. free - 1 : ~used(m) => times[m] < edges[e] - HALF_S
      BY <1>1, <1>2 DEF Pairing
    <3>4. ASSUME NEW i \in 1 .. Len(times), i < free,
                 \A m \in i .. free - 1 : used(m)
          PROVE  \E v \in C : p[v] = i
      <4>1. i \in run /\ i \in i .. free - 1
        BY <1>2, <3>4
      <4>2. PICK v \in hit : p[v] = i
        BY <3>4, <4>1
      <4> QED
        BY <4>1, <4>2
    <3> HIDE DEF C, used
    <3>5. ASSUME NEW i \in 1 .. Len(times), Near(e, i)
          PROVE  \E v \in C : p[v] = i
      <4>1. /\ times[i] >= edges[e] - HALF_S /\ times[i] <= edges[e] + HALF_S
            /\ times[i] \in Int /\ edges[e] \in Int /\ HALF_S \in Nat
        BY <1>2, <3>5, CorrelationFacts DEF Near
      <4>2. i < free
        <5>1. ~(i >= k)
          BY <1>6, <4>1
        <5> QED
          BY <1>2, <3>2, <5>1
      <4>3. ASSUME NEW m \in i .. free - 1 PROVE used(m)
        <5>1. m \in 1 .. Len(times) /\ m \in 1 .. free - 1 /\ i <= m
          BY <1>2
        <5>2. times[i] <= times[m] /\ times[m] \in Int
          BY <5>1, CorrelationFacts
        <5> QED
          BY <3>3, <4>1, <5>1, <5>2
      <4> QED
        BY <3>4, <4>2, <4>3
    <3>6. ASSUME NEW u \in 1 .. e - 1, NEW i \in 1 .. Len(times), Near(u, i)
          PROVE  u \in hit \ C \/ \E v \in C : p[v] = i
      <4>1. CASE \E v \in B : p[v] = i
        BY <4>1 DEF C
      <4>2. CASE u \in hit \ B /\ p[u] \notin run
        BY <4>2 DEF C
      <4>3. CASE u \in hit \ B /\ p[u] \in run
        <5>1. /\ times[i] >= edges[u] - HALF_S /\ times[i] <= edges[u] + HALF_S
              /\ times[i] \in Int /\ edges[u] \in Int /\ edges[e] \in Int /\ HALF_S \in Nat
              /\ edges[u] <= edges[e]
          BY <1>2, <3>6, CorrelationFacts DEF Near
        <5>2. i < free
          <6>1. ~(times[i] > edges[e] + HALF_S)
            BY <5>1
          <6>2. ~(i >= k)
            BY <1>6, <6>1
          <6> QED
            BY <1>2, <3>2, <6>2
        <5>3. ASSUME NEW m \in i .. free - 1 PROVE used(m)
          <6>1. m \in 1 .. Len(times) /\ m \in 1 .. free - 1 /\ i <= m /\ m \in Nat
            BY <1>2
          <6>2. p[u] \in 1 .. free - 1 /\ \A j \in p[u] .. free - 1 : used(j)
            BY <4>3 DEF used
          <6>3. CASE m >= p[u]
            BY <1>2, <6>1, <6>2, <6>3
          <6>4. CASE m < p[u]
            <7>1. times[i] <= times[m] /\ times[m] \in Int
              BY <6>1, CorrelationFacts
            <7>2. ~(times[m] < edges[u] - HALF_S)
              BY <5>1, <7>1
            <7>3. ~used(m) => times[m] < edges[u] - HALF_S
              <8>1. u \in 1 .. Len(edges) /\ u \in hit /\ p[u] > m
                BY <1>2, <4>3, <6>1, <6>2, <6>4
              <8> QED
                BY <1>1, <6>1, <8>1 DEF Pairing, used
            <7> QED
              BY <7>2, <7>3
          <6> QED
            BY <1>2, <6>1, <6>2, <6>3, <6>4
        <5> QED
          BY <3>4, <5>2, <5>3
      <4> QED
        BY <2>2, <3>6, <4>1, <4>2, <4>3
    <3>7. C \subseteq hit
      BY <2>1 DEF C
    <3>8. \A u \in 1 .. e : u \in 1 .. e - 1 \/ u = e
      BY <1>2
    <3> QED
      BY <3>5, <3>6, <3>7, <3>8
  <2> QED
    BY <2>3, <2>4
<1>10. PICK D : /\ D \subseteq hit
                /\ \A u \in 1 .. e : \A i \in 1 .. Len(times) :
                     Near(u, i) => u \in hit \ D \/ \E v \in D : p[v] = i
  BY <1>9
<1> HIDE DEF run, C
<1>11. Pairing(p, D)'
  <2>1. \A u, i : Near(u, i)' <=> Near(u, i)
    BY <1>3 DEF Near
  <2>2. nextEdge' - 1 = e
    BY <1>2, <1>3
  <2>3. /\ \A u, v \in hit : u < v => p[u] < p[v]
        /\ \A u \in hit : Near(u, p[u])
    BY <1>1 DEF Pairing
  <2> QED
    BY <1>3, <1>7, <1>8, <1>10, <2>1, <2>2, <2>3 DEF Pairing
<1>12. CorrelationTypeOK'
  BY <1>2, <1>3, <1>4, <1>5 DEF CorrelationInv, CorrelationTypeOK
<1> QED
  BY <1>3, <1>11, <1>12 DEF CorrelationInv, Ascending

LEMMA CorrelationNextInv ==
  CorrelationInv /\ [CorrelationNext]_lining => CorrelationInv'
<1> SUFFICES ASSUME CorrelationInv, [CorrelationNext]_lining PROVE CorrelationInv'
  OBVIOUS
<1>1. CASE Pair
  <2>1. hit' = hit \cup {nextEdge} \/ hit' = hit
    BY <1>1 DEF Pair
  <2> QED
    BY <1>1, <2>1, PairedInv, NotPairedInv
<1>2. CASE \E luck \in Lucks : Line(luck)
  <2>1. UNCHANGED <<times, edges, nextEdge, free, hit>> /\ found' \in {"none", "weak", "clear"}
    BY <1>2 DEF Line, Judged
  <2>2. \A p, B : Pairing(p, B)' <=> Pairing(p, B)
    BY <2>1 DEF Pairing, Near
  <2> QED
    BY <2>1, <2>2 DEF CorrelationInv, CorrelationTypeOK, Ascending
<1>3. CASE UNCHANGED lining
  <2>1. \A p, B : Pairing(p, B)' <=> Pairing(p, B)
    BY <1>3 DEF Pairing, Near, lining
  <2> QED
    BY <1>3, <2>1 DEF lining, CorrelationInv, CorrelationTypeOK, Ascending
<1> QED
  BY <1>1, <1>2, <1>3 DEF CorrelationNext

\* Every pair of a matching takes one of the edges and events of the choice, and no
\* two pairs the same: it has no more pairs than there are paired edges.
LEMMA PairingIsMost ==
  CorrelationInv => MatchesAreMost
<1> SUFFICES ASSUME CorrelationInv PROVE MatchesAreMost
  OBVIOUS
<1>1. PICK p, B : Pairing(p, B)
  BY DEF CorrelationInv
<1>2. /\ hit \subseteq 1 .. nextEdge - 1 /\ nextEdge \in Nat /\ Len(times) \in Nat
      /\ free \in 1 .. Len(times) + 1 /\ DOMAIN times = 1 .. Len(times)
  BY CorrelationFacts DEF CorrelationInv, Ascending
<1>3. Matchable(hit)
  <2>1. p \in [hit -> DOMAIN times]
    <3>1. 1 .. free - 1 \subseteq DOMAIN times
      BY <1>2
    <3> QED
      BY <1>1, <3>1 DEF Pairing
  <2>2. \A u, v \in hit : p[u] = p[v] => u = v
    <3> SUFFICES ASSUME NEW u \in hit, NEW v \in hit, p[u] = p[v], u # v PROVE FALSE
      OBVIOUS
    <3>1. u < v \/ v < u
      BY <1>2
    <3>2. p[u] \in Nat /\ p[v] \in Nat
      BY <1>2, <2>1
    <3> QED
      BY <1>1, <3>1, <3>2 DEF Pairing
  <2>3. p \in Injection(hit, DOMAIN times)
    BY <2>1, <2>2 DEF Injection, IsInjective
  <2> QED
    BY <1>1, <2>3 DEF Pairing, Near, Matchable
<1>4. IsFiniteSet(hit) /\ Cardinality(hit) \in Nat
  <2>1. IsFiniteSet(1 .. nextEdge - 1)
    BY <1>2, FS_Interval
  <2> QED
    BY <1>2, <2>1, FS_Subset, FS_CardinalityType
<1>5. ASSUME NEW more \in SUBSET (1 .. nextEdge - 1), Matchable(more)
      PROVE  ~(Cardinality(more) > Cardinality(hit))
  <2>1. PICK f \in Injection(more, DOMAIN times) :
          \A i \in more : times[f[i]] \in edges[i] - HALF_S .. edges[i] + HALF_S
    BY <1>5 DEF Matchable
  <2>2. f \in [more -> DOMAIN times] /\ \A i, j \in more : f[i] = f[j] => i = j
    BY <2>1 DEF Injection, IsInjective
  <2>3. \A i \in more : i \in hit \ B \/ \E v \in B : p[v] = f[i]
    <3> SUFFICES ASSUME NEW i \in more PROVE i \in hit \ B \/ \E v \in B : p[v] = f[i]
      OBVIOUS
    <3>1. Near(i, f[i]) /\ f[i] \in 1 .. Len(times)
      BY <1>2, <2>1, <2>2 DEF Near
    <3> QED
      BY <1>1, <3>1 DEF Pairing
  <2> DEFINE taken(i) == CHOOSE v \in B : p[v] = f[i]
             h == [i \in more |-> IF i \in hit \ B THEN i ELSE taken(i)]
  <2>4. \A i \in more : IF i \in hit \ B THEN h[i] = i
                        ELSE h[i] \in B /\ p[h[i]] = f[i]
    <3>1. \A i \in more : i \notin hit \ B => taken(i) \in B /\ p[taken(i)] = f[i]
      BY <2>3
    <3> QED
      BY <3>1
  <2>5. h \in [more -> hit]
    <3>1. B \subseteq hit
      BY <1>1 DEF Pairing
    <3>2. \A i \in more : h[i] \in hit
      BY <2>4, <3>1
    <3> QED
      BY <3>2
  <2> HIDE DEF h
  <2>6. \A i, j \in more : h[i] = h[j] => i = j
    BY <2>2, <2>4
  <2>7. h \in Injection(more, hit)
    BY <2>5, <2>6 DEF Injection, IsInjective
  <2>8. Cardinality(more) <= Cardinality(hit) /\ IsFiniteSet(more)
    BY <1>4, <2>7, FS_Injection
  <2>9. Cardinality(more) \in Nat
    BY <2>8, FS_CardinalityType
  <2> QED
    BY <1>4, <2>8, <2>9
<1> QED
  BY <1>3, <1>5 DEF MatchesAreMost

(* For any history, runs and window: taking the earliest free event for    *)
(* each edge in turn matches as many edges as can be (correlate.py:119).   *)
THEOREM EarliestFirstMatchesMost ==
  CorrelationSpec => []MatchesAreMost
<1> QED
  BY PairingIsMost, CorrelationInitInv, CorrelationNextInv, PTL DEF CorrelationSpec

(* The state of the pairing keeps its type.                                *)
THEOREM CorrelationTypes ==
  CorrelationSpec => []CorrelationTypeOK
<1>1. CorrelationInv => CorrelationTypeOK
  BY DEF CorrelationInv
<1> QED
  BY <1>1, CorrelationInitInv, CorrelationNextInv, PTL DEF CorrelationSpec
=============================================================================
