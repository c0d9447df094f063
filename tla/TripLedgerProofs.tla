-------------------------- MODULE TripLedgerProofs --------------------------
(***************************************************************************)
(* Theorems about TripLedger, for any circuits, entities and devices, and  *)
(* any number of readings, restarts and crashes; and about the incident    *)
(* (BreakerIncident) it starts from.                                       *)
(***************************************************************************)
EXTENDS TripLedger, WellFoundedInduction, TLAPS

-----------------------------------------------------------------------------
(* The inductive invariant.                                                *)

\* Has the trip's circuit returned since it was recorded?
Gone(t, back) == \E r \in back[t.circuit] : r > t.noted

\* A trip's end is the first return after it was recorded, or came before that.
EndedRight(t, back) ==
  IF t.end > t.noted
  THEN /\ t.end \in back[t.circuit]
       /\ \A r \in back[t.circuit] : r > t.noted => t.end <= r
  ELSE t.start < t.end

TripOK(t, now, dark, back) ==
  /\ t.start <= t.noted /\ t.noted <= now
  /\ t.end = Never /\ ~Gone(t, back) => t.circuit \in dark
  /\ t.end # Never /\ ~t.missed => EndedRight(t, back)

\* Trips follow one another, and the detector's incident follows them all; a circuit
\* with a trip without an end has returned before it trips again.
Past(ts, now, dark, back, inc) ==
  /\ \A i \in DOMAIN ts : TripOK(ts[i], now, dark, back)
  /\ \A i, j \in DOMAIN ts : i < j =>
       /\ ts[i].start < ts[j].start
       /\ ts[i].circuit = ts[j].circuit /\ ts[i].end = Never => Gone(ts[i], back)
  /\ inc # Never => \A i \in DOMAIN ts :
       /\ ts[i].start < inc.start
       /\ ts[i].circuit = inc.circuit /\ ts[i].end = Never => Gone(ts[i], back)

\* Each key has one place, and casualties are suspected.
Shown(ts) ==
  \A i \in DOMAIN ts : /\ OnePlace(ts[i].outage)
                       /\ ts[i].outage.casualties \subseteq ts[i].suspected

\* i is the last trip of its circuit.
LastOf(ts, i) == \A j \in DOMAIN ts : j > i => ts[j].circuit # ts[i].circuit

\* The watch follows every trip whose end it can still see.
Followed(ts, open, back, on) ==
  /\ \A i \in DOMAIN ts : ts[i].end = Never /\ ~ts[i].missed =>
       ~Gone(ts[i], back) /\ (on => open[ts[i].circuit] = ts[i].start)
  /\ on => \A i \in DOMAIN ts : ts[i].end = Never /\ LastOf(ts, i) =>
       open[ts[i].circuit] = ts[i].start

\* What the watch has of the circuits.
Watch ==
  /\ \A c \in Breakers : \A r \in returns[c] : r <= clock
  /\ incident # Never => /\ incident.start <= clock
                         /\ IF incident.end = Never THEN incident.circuit \in dead
                            ELSE incident.start < incident.end /\ incident.end <= clock
  /\ \A c \in reported \ dead : openTrips[c] = Never
  /\ ~watching => incident = Never /\ reported = {}

Incident == [circuit : Breakers, start : Nat, end : Stamp]

\* The handler has the devices of its trip left, at most.
Handler == [circuit : Breakers, existing : {Never} \cup SUBSET Entities,
            todo : SUBSET DevicesOf(Entities), casualties : SUBSET Entities]

Writer == [circuit : Breakers, start : Nat, todo : SUBSET Entities, evidence : Outage]

HandlerOK ==
  \/ handler = Never
  \/ handler \in Handler /\ handler.todo \subseteq DevicesOf(handler.casualties)

WriterOK == writer = Never \/ writer \in Writer

Types ==
  /\ clock \in Nat
  /\ dead \subseteq Breakers /\ reported \subseteq Breakers
  /\ watching \in BOOLEAN
  /\ incident = Never \/ incident \in Incident
  /\ openTrips \in [Breakers -> Stamp]
  /\ trips \in Seq(Trip)
  /\ held \subseteq Entities
  /\ file \in Seq(Trip)
  /\ returns \in [Breakers -> SUBSET Nat]
  /\ HandlerOK /\ WriterOK

LedgerInv ==
  /\ Types /\ Watch
  /\ Past(trips, clock, dead, returns, incident) /\ Past(file, clock, dead, returns, incident)
  /\ Shown(trips) /\ Shown(file)
  /\ Followed(trips, openTrips, returns, watching)

-----------------------------------------------------------------------------
(* Lemmas on numbers and sequences.                                        *)

\* The bounds are numbers, and a number is not Never.
LEMMA Bounds ==
  /\ LOOKBACK \in Nat /\ MaxReadings \in Nat /\ MaxWrites \in Nat /\ Entities \subseteq Nat
  /\ \A n \in Nat : n # Never
BY TripLedgerAssumption

\* A nonempty set of numbers has a least one.
LEMMA Least ==
  ASSUME NEW T, T \subseteq Nat, T # {}
  PROVE  Min(T) \in T /\ \A y \in T : Min(T) <= y
<1> DEFINE R == OpToRel(<, Nat)
<1>1. \A x, y \in Nat : y < x => <<y, x>> \in R
  BY DEF OpToRel
<1>2. IsWellFoundedOn(R, Nat)
  BY NatLessThanWellFounded, Zenon
<1> HIDE DEF R
<1>3. PICK x \in T : \A y \in T : ~(<<y, x>> \in R)
  BY <1>2, WFMin
<1>4. \A y \in T : ~(y < x)
  BY <1>1, <1>3
<1>5. x \in Nat /\ \A y \in T : y \in Nat
  OBVIOUS
<1>6. \E m \in T : \A y \in T : m <= y
  BY <1>4, <1>5
<1> QED
  BY <1>6, Zenon DEF Min

\* One with a bound has a greatest one.
LEMMA Greatest ==
  ASSUME NEW n \in Nat, NEW T, T \subseteq 1 .. n, T # {}
  PROVE  Max(T) \in T /\ \A y \in T : y <= Max(T)
<1> DEFINE M == {k \in 0 .. n : n - k \in T}
<1>1. M \subseteq Nat
  OBVIOUS
<1>2. PICK x \in T : TRUE
  OBVIOUS
<1>3. n - x \in 0 .. n /\ n - (n - x) = x
  OBVIOUS
<1>4. n - x \in M
  BY <1>2, <1>3
<1> HIDE DEF M
<1>5. Min(M) \in M /\ \A k \in M : Min(M) <= k
  BY <1>1, <1>4, Least
<1>6. PICK k \in 0 .. n : k = Min(M) /\ n - k \in T
  BY <1>5 DEF M
<1>7. \A y \in T : y <= n - k
  <2> SUFFICES ASSUME NEW y \in T PROVE y <= n - k
    OBVIOUS
  <2>1. n - y \in 0 .. n /\ n - (n - y) = y
    OBVIOUS
  <2>2. n - y \in M
    BY <2>1 DEF M
  <2> QED
    BY <1>5, <1>6, <2>2
<1>8. \E m \in T : \A y \in T : m >= y
  BY <1>6, <1>7
<1>9. Max(T) \in T /\ \A y \in T : Max(T) >= y
  BY <1>8, Zenon DEF Max
<1> QED
  BY <1>9

\* What the recursive function of StartedSince has at n.
At(f, ts, from, n) ==
  IF n = 0 THEN <<>>
  ELSE IF ts[n].start >= from THEN Append(f[n - 1], ts[n]) ELSE f[n - 1]

IsKept(f, ts, from, n) == f = [k \in 0 .. n |-> At(f, ts, from, k)]

\* It exists.
LEMMA KeptExists ==
  ASSUME NEW ts, NEW from, NEW n \in Nat
  PROVE  \E f : IsKept(f, ts, from, n)
<1> USE DEF IsKept
<1> DEFINE P(m) == \E f : IsKept(f, ts, from, m)
           T == {m \in Nat : ~P(m)}
<1> SUFFICES ASSUME T # {} PROVE FALSE
  BY DEF P
<1> HIDE DEF P
<1>1. T \subseteq Nat
  OBVIOUS
<1>2. PICK m \in T : \A k \in T : m <= k
  BY <1>1, Least
<1>3. m \in Nat /\ ~P(m)
  OBVIOUS
<1>4. CASE m = 0
  <2> DEFINE f == [k \in 0 .. 0 |-> <<>>]
  <2>1. \A k \in 0 .. 0 : At(f, ts, from, k) = <<>>
    BY DEF At
  <2>2. f = [k \in 0 .. 0 |-> At(f, ts, from, k)]
    BY <2>1
  <2> HIDE DEF f
  <2> QED
    BY <1>3, <1>4, <2>2 DEF P
<1>5. CASE m # 0
  <2>1. m - 1 \in Nat /\ ~(m <= m - 1)
    BY <1>3, <1>5
  <2>2. P(m - 1)
    BY <1>2, <2>1
  <2>3. PICK f : f = [k \in 0 .. m - 1 |-> At(f, ts, from, k)]
    BY <2>2 DEF P
  <2> DEFINE g == [k \in 0 .. m |-> IF k = m THEN At(f, ts, from, m) ELSE f[k]]
  <2>4. \A k \in 0 .. m - 1 : g[k] = f[k]
    BY <1>3
  <2>5. g[m] = At(f, ts, from, m)
    BY <1>3
  <2>6. g = [k \in 0 .. m |-> g[k]]
    OBVIOUS
  <2> HIDE DEF g
  <2>7. ASSUME NEW k \in 0 .. m PROVE g[k] = At(g, ts, from, k)
    <3>1. CASE k = 0
      <4>1. 0 \in 0 .. m - 1
        BY <1>3, <1>5
      <4>2. g[0] = At(f, ts, from, 0)
        BY <2>3, <2>4, <4>1
      <4> QED
        BY <3>1, <4>2 DEF At
    <3>2. CASE k # 0
      <4>1. k - 1 \in 0 .. m - 1
        BY <1>3, <3>2
      <4>2. g[k - 1] = f[k - 1]
        BY <2>4, <4>1
      <4>3. At(g, ts, from, k) = At(f, ts, from, k)
        BY <4>2 DEF At
      <4>4. k = m \/ k \in 0 .. m - 1
        BY <1>3
      <4>5. k \in 0 .. m - 1 => f[k] = At(f, ts, from, k)
        BY <2>3
      <4> QED
        BY <2>4, <2>5, <4>3, <4>4, <4>5
    <3> QED
      BY <3>1, <3>2
  <2>8. g = [k \in 0 .. m |-> At(g, ts, from, k)]
    BY <2>6, <2>7
  <2> QED
    BY <1>3, <2>8 DEF P
<1> QED
  BY <1>4, <1>5

\* The first n trips of ts, as a selection of those that started since then.
Selection(u, ts, from, n) ==
  /\ u \in Seq(Trip)
  /\ \A j \in DOMAIN u : u[j].start >= from /\ \E i \in 1 .. n : u[j] = ts[i]
  /\ \A i \in 1 .. n : ts[i].start >= from => \E j \in DOMAIN u : u[j] = ts[i]
  /\ \A j, k \in DOMAIN u : j < k => u[j].start < u[k].start

Increasing(ts) == \A i, j \in DOMAIN ts : i < j => ts[i].start < ts[j].start

\* One more trip is looked at.
LEMMA SelectionGrows ==
  ASSUME NEW ts \in Seq(Trip), Increasing(ts), NEW from, NEW n \in DOMAIN ts,
         NEW u, Selection(u, ts, from, n - 1)
  PROVE  Selection(IF ts[n].start >= from THEN Append(u, ts[n]) ELSE u, ts, from, n)
<1>1. n \in Nat /\ n >= 1 /\ n <= Len(ts) /\ DOMAIN ts = 1 .. Len(ts) /\ Len(ts) \in Nat
  OBVIOUS
<1>2. ts[n] \in Trip
  OBVIOUS
<1>3. u \in Seq(Trip) /\ Len(u) \in Nat /\ DOMAIN u = 1 .. Len(u)
  BY DEF Selection
<1>4. \A i \in 1 .. n : i = n \/ i \in 1 .. n - 1
  BY <1>1
<1>5. \A i \in 1 .. n - 1 : i \in 1 .. n /\ i \in DOMAIN ts /\ i < n
  BY <1>1
<1>6. CASE ~(ts[n].start >= from)
  <2>1. Selection(u, ts, from, n)
    BY <1>4, <1>5, <1>6 DEF Selection
  <2> QED
    BY <1>6, <2>1
<1>7. CASE ts[n].start >= from
  <2> DEFINE w == Append(u, ts[n])
  <2>1. /\ w \in Seq(Trip) /\ Len(w) = Len(u) + 1 /\ DOMAIN w = 1 .. Len(u) + 1
        /\ w[Len(u) + 1] = ts[n] /\ \A j \in 1 .. Len(u) : w[j] = u[j]
    BY <1>2, <1>3
  <2> HIDE DEF w
  <2>2. \A j \in DOMAIN w : j = Len(u) + 1 \/ j \in DOMAIN u
    BY <1>3, <2>1
  <2>3. \A j \in DOMAIN u : j \in DOMAIN w /\ w[j] = u[j] /\ j < Len(u) + 1
    BY <1>3, <2>1
  <2>4. n \in 1 .. n /\ Len(u) + 1 \in DOMAIN w
    BY <1>1, <1>3, <2>1
  <2>5. \A j \in DOMAIN w : w[j].start >= from /\ \E i \in 1 .. n : w[j] = ts[i]
    BY <1>5, <1>7, <2>1, <2>2, <2>3, <2>4 DEF Selection
  <2>6. \A i \in 1 .. n : ts[i].start >= from => \E j \in DOMAIN w : w[j] = ts[i]
    BY <1>4, <2>1, <2>3, <2>4 DEF Selection
  <2>7. \A j, k \in DOMAIN w : j < k => w[j].start < w[k].start
    <3> SUFFICES ASSUME NEW j \in DOMAIN w, NEW k \in DOMAIN w, j < k
                 PROVE  w[j].start < w[k].start
      OBVIOUS
    <3>1. j \in DOMAIN u
      BY <1>3, <2>1
    <3>2. CASE k \in DOMAIN u
      BY <2>3, <3>1, <3>2 DEF Selection
    <3>3. CASE k = Len(u) + 1
      <4>1. PICK i \in 1 .. n - 1 : u[j] = ts[i]
        BY <3>1 DEF Selection
      <4>2. ts[i].start < ts[n].start
        BY <1>5 DEF Increasing
      <4> QED
        BY <2>1, <2>3, <3>1, <3>3, <4>1, <4>2
    <3> QED
      BY <2>2, <3>2, <3>3
  <2>8. Selection(w, ts, from, n)
    BY <2>1, <2>5, <2>6, <2>7 DEF Selection
  <2> QED
    BY <1>7, <2>8 DEF w
<1> QED
  BY <1>6, <1>7

\* StartedSince keeps exactly the trips that started since, in their order.
LEMMA StartedSinceSelects ==
  ASSUME NEW ts \in Seq(Trip), Increasing(ts), NEW from
  PROVE  Selection(StartedSince(ts, from), ts, from, Len(ts))
<1> DEFINE n == Len(ts)
           g == CHOOSE f : IsKept(f, ts, from, n)
<1>1. n \in Nat /\ DOMAIN ts = 1 .. n
  OBVIOUS
<1>2. g = [k \in 0 .. n |-> At(g, ts, from, k)]
  <2>1. \E f : IsKept(f, ts, from, n)
    BY <1>1, KeptExists
  <2>2. IsKept(g, ts, from, n)
    BY <2>1, Zenon
  <2> QED
    BY <2>2, Zenon DEF IsKept
<1>3. StartedSince(ts, from) = g[n]
  BY Zenon DEF StartedSince, IsKept, At
<1> HIDE DEF n, g
<1> DEFINE T == {k \in 0 .. n : ~Selection(g[k], ts, from, k)}
<1>4. T = {}
  <2> SUFFICES ASSUME T # {} PROVE FALSE
    OBVIOUS
  <2>1. T \subseteq Nat
    BY <1>1
  <2>2. PICK m \in T : \A k \in T : m <= k
    BY <2>1, Least
  <2>3. m \in 0 .. n /\ ~Selection(g[m], ts, from, m) /\ g[m] = At(g, ts, from, m)
    BY <1>2
  <2>4. CASE m = 0
    <3>1. g[m] = <<>>
      BY <2>3, <2>4 DEF At
    <3>2. Selection(<<>>, ts, from, 0)
      BY DEF Selection
    <3> QED
      BY <2>3, <2>4, <3>1, <3>2
  <2>5. CASE m # 0
    <3>1. m - 1 \in 0 .. n /\ ~(m <= m - 1) /\ m \in DOMAIN ts
      BY <1>1, <2>3, <2>5
    <3>2. Selection(g[m - 1], ts, from, m - 1)
      BY <2>2, <3>1
    <3>3. g[m] = IF ts[m].start >= from THEN Append(g[m - 1], ts[m]) ELSE g[m - 1]
      BY <2>3, <2>5 DEF At
    <3>4. PICK u : u = g[m - 1]
      OBVIOUS
    <3> QED
      BY <2>3, <3>1, <3>2, <3>3, <3>4, SelectionGrows
  <2> QED
    BY <2>4, <2>5
<1>5. n \in 0 .. n /\ n \notin T
  BY <1>1, <1>4
<1>6. Selection(g[n], ts, from, n)
  BY <1>5
<1> QED
  BY <1>3, <1>6 DEF n

\* The types of a trip's fields.
LEMMA TripType ==
  ASSUME NEW ts \in Seq(Trip), NEW i \in DOMAIN ts
  PROVE  /\ ts[i] \in Trip /\ ts[i].circuit \in Breakers /\ ts[i].start \in Nat
         /\ ts[i].end = Never \/ ts[i].end \in Nat
         /\ ts[i].noted \in Nat /\ ts[i].missed \in BOOLEAN
         /\ ts[i].suspected \subseteq Entities /\ ts[i].outage \in Outage
<1>1. ts[i] \in Trip
  OBVIOUS
<1> QED
  BY <1>1 DEF Trip, Stamp

-----------------------------------------------------------------------------
(* The store's operations, trip by trip.                                   *)

\* async_end_trip: the one trip that is asked for gets its end.
LEMMA EndedFacts ==
  ASSUME NEW ts \in Seq(Trip), Increasing(ts), NEW c, NEW start, NEW end \in Nat
  PROVE  LET u == Ended(ts, c, start, end)
         IN  /\ u \in Seq(Trip) /\ DOMAIN u = DOMAIN ts /\ Len(u) = Len(ts)
             /\ \A i \in DOMAIN ts :
                  u[i] = IF ts[i].circuit = c /\ ts[i].start = start /\ ts[i].end = Never
                         THEN [ts[i] EXCEPT !.end = end] ELSE ts[i]
<1> DEFINE found == {i \in DOMAIN ts : /\ ts[i].circuit = c /\ ts[i].start = start
                                       /\ ts[i].end = Never}
           u == Ended(ts, c, start, end)
<1>1. DOMAIN ts = 1 .. Len(ts) /\ Len(ts) \in Nat /\ found \subseteq Nat
  OBVIOUS
<1>2. u = IF found = {} THEN ts ELSE [ts EXCEPT ![Min(found)].end = end]
  BY DEF Ended
<1>3. CASE found = {}
  BY <1>1, <1>2, <1>3
<1>4. CASE found # {}
  <2>1. PICK m \in DOMAIN ts : m = Min(found) /\ m \in found
    BY <1>1, <1>4, Least
  <2>2. \A i \in found : i = m
    <3> SUFFICES ASSUME NEW i \in found, i # m PROVE FALSE
      OBVIOUS
    <3>1. i \in DOMAIN ts /\ ts[i].start = ts[m].start /\ ts[i].start \in Nat
      BY <2>1, TripType
    <3>2. i < m \/ m < i
      BY <1>1, <2>1
    <3> QED
      BY <2>1, <3>1, <3>2 DEF Increasing
  <2>3. u = [ts EXCEPT ![m] = [ts[m] EXCEPT !.end = end]]
    BY <1>2, <1>4, <2>1
  <2>4. [ts[m] EXCEPT !.end = end] \in Trip
    BY <2>1, TripType, ZenonT(30) DEF Trip, Stamp
  <2>5. \A i \in DOMAIN ts : u[i] = IF i \in found THEN [ts[i] EXCEPT !.end = end] ELSE ts[i]
    BY <2>1, <2>2, <2>3
  <2>6. u \in Seq(Trip) /\ DOMAIN u = DOMAIN ts /\ Len(u) = Len(ts)
    BY <1>1, <2>3, <2>4
  <2> QED
    BY <2>5, <2>6
<1> QED
  BY <1>3, <1>4

\* merge_outage: one place for each key, and none weaker than before.
LEMMA MergedFacts ==
  ASSUME NEW old \in Outage, NEW new \in Outage
  PROVE  /\ Merged(old, new) \in Outage /\ OnePlace(Merged(old, new))
         /\ Merged(old, new).casualties = old.casualties \cup new.casualties
         /\ \A key : Rank(Merged(old, new), key) >= Rank(old, key)
<1> DEFINE o == Merged(old, new)
<1>1. /\ o.casualties = old.casualties \cup new.casualties
      /\ o.answered = (old.answered \cup new.answered) \ o.casualties
      /\ o.recovered = (old.recovered \cup new.recovered) \ (o.casualties \cup o.answered)
      /\ o.indeterminate = (old.indeterminate \cup new.indeterminate)
                             \ (o.casualties \cup o.answered \cup o.recovered)
      /\ o = [casualties |-> o.casualties, answered |-> o.answered,
              recovered |-> o.recovered, indeterminate |-> o.indeterminate]
  BY DEF Merged
<1>2. /\ old.casualties \subseteq Entities /\ old.answered \subseteq Entities
      /\ old.recovered \subseteq Entities /\ old.indeterminate \subseteq Entities
      /\ new.casualties \subseteq Entities /\ new.answered \subseteq Entities
      /\ new.recovered \subseteq Entities /\ new.indeterminate \subseteq Entities
  BY DEF Outage
<1> HIDE DEF o
<1>3. /\ o.casualties \subseteq Entities /\ o.answered \subseteq Entities
      /\ o.recovered \subseteq Entities /\ o.indeterminate \subseteq Entities
  BY <1>1, <1>2
<1>4. o \in Outage
  BY <1>1, <1>3 DEF Outage
<1>5. OnePlace(o)
  BY <1>1 DEF OnePlace
<1>6. \A key : Rank(o, key) >= Rank(old, key)
  <2> TAKE key
  <2>1. CASE key \in o.casualties
    BY <2>1 DEF Rank
  <2>2. CASE key \notin o.casualties /\ key \in o.answered
    BY <1>1, <2>2 DEF Rank
  <2>3. CASE key \notin o.casualties /\ key \notin o.answered /\ key \in o.recovered
    BY <1>1, <2>3 DEF Rank
  <2>4. CASE key \notin o.casualties /\ key \notin o.answered /\ key \notin o.recovered
    BY <1>1, <2>4 DEF Rank
  <2> QED
    BY <2>1, <2>2, <2>3, <2>4
<1> QED
  BY <1>1, <1>4, <1>5, <1>6 DEF o

\* async_amend_trip: the one trip that is asked for is amended.
LEMMA AmendedFacts ==
  ASSUME NEW ts \in Seq(Trip), Increasing(ts), NEW c, NEW start, NEW evidence \in Outage
  PROVE  LET u == Amended(ts, c, start, evidence)
         IN  /\ u \in Seq(Trip) /\ DOMAIN u = DOMAIN ts /\ Len(u) = Len(ts)
             /\ \A i \in DOMAIN ts :
                  u[i] = IF ts[i].circuit = c /\ ts[i].start = start
                         THEN Amendment(ts[i], evidence) ELSE ts[i]
<1> DEFINE found == {i \in DOMAIN ts : ts[i].circuit = c /\ ts[i].start = start}
           u == Amended(ts, c, start, evidence)
<1>1. DOMAIN ts = 1 .. Len(ts) /\ Len(ts) \in Nat /\ found \subseteq Nat
  OBVIOUS
<1>2. u = IF found = {} THEN ts
          ELSE [ts EXCEPT ![Min(found)] = Amendment(ts[Min(found)], evidence)]
  BY DEF Amended
<1>3. CASE found = {}
  BY <1>1, <1>2, <1>3
<1>4. CASE found # {}
  <2>1. PICK m \in DOMAIN ts : m = Min(found) /\ m \in found
    BY <1>1, <1>4, Least
  <2>2. \A i \in found : i = m
    <3> SUFFICES ASSUME NEW i \in found, i # m PROVE FALSE
      OBVIOUS
    <3>1. i \in DOMAIN ts /\ ts[i].start = ts[m].start /\ ts[i].start \in Nat
      BY <2>1, TripType
    <3>2. i < m \/ m < i
      BY <1>1, <2>1
    <3> QED
      BY <2>1, <3>1, <3>2 DEF Increasing
  <2>3. u = [ts EXCEPT ![m] = Amendment(ts[m], evidence)]
    BY <1>2, <1>4, <2>1
  <2>4. Amendment(ts[m], evidence) \in Trip
    <3>1. ts[m] \in Trip /\ ts[m].outage \in Outage /\ evidence.casualties \subseteq Entities
      BY <2>1, TripType DEF Outage
    <3>2. Merged(ts[m].outage, evidence) \in Outage
      BY <3>1, MergedFacts
    <3> QED
      BY <3>1, <3>2 DEF Amendment, Trip
  <2> HIDE DEF u
  <2>5. \A i \in DOMAIN ts : u[i] = IF i \in found THEN Amendment(ts[i], evidence) ELSE ts[i]
    BY <2>1, <2>2, <2>3
  <2>6. u \in Seq(Trip) /\ DOMAIN u = DOMAIN ts /\ Len(u) = Len(ts)
    BY <1>1, <2>3, <2>4
  <2> QED
    BY <2>5, <2>6 DEF u
<1> QED
  BY <1>3, <1>4

\* Marking touches the trips whose end was missed.
LEMMA MarkMissedFacts ==
  ASSUME NEW ts \in Seq(Trip), NEW back
  PROVE  LET u == MarkMissed(ts, back)
         IN  /\ u \in Seq(Trip) /\ DOMAIN u = DOMAIN ts /\ Len(u) = Len(ts)
             /\ \A i \in DOMAIN ts :
                  u[i] = IF ts[i].end = Never /\ Gone(ts[i], back)
                         THEN [ts[i] EXCEPT !.missed = TRUE] ELSE ts[i]
<1> DEFINE u == MarkMissed(ts, back)
<1>1. u = [i \in DOMAIN ts |-> IF ts[i].end = Never /\ Gone(ts[i], back)
                               THEN [ts[i] EXCEPT !.missed = TRUE] ELSE ts[i]]
  BY DEF MarkMissed, Gone
<1>2. \A i \in DOMAIN ts : u[i] \in Trip
  <2> SUFFICES ASSUME NEW i \in DOMAIN ts PROVE u[i] \in Trip
    OBVIOUS
  <2>1. ts[i] \in Trip
    OBVIOUS
  <2>2. [ts[i] EXCEPT !.missed = TRUE] \in Trip
    BY <2>1 DEF Trip
  <2> QED
    BY <1>1, <2>1, <2>2
<1> HIDE DEF u
<1>3. u \in Seq(Trip) /\ DOMAIN u = DOMAIN ts /\ Len(u) = Len(ts)
  <2>1. DOMAIN ts = 1 .. Len(ts) /\ Len(ts) \in Nat
    OBVIOUS
  <2>2. DOMAIN u = 1 .. Len(ts) /\ u \in [1 .. Len(ts) -> Trip]
    BY <1>1, <1>2, <2>1
  <2> QED
    BY <2>1, <2>2
<1> QED
  BY <1>1, <1>3 DEF u

-----------------------------------------------------------------------------
(* The past of the trips, as time passes and as they are written to.       *)

\* From one reading to a later one: a circuit that is no longer dead has returned.
Passes(now, dark, back, now1, dark1, back1) ==
  /\ now \in Nat /\ now1 \in Nat /\ now <= now1
  /\ \A c \in Breakers :
       /\ back[c] \subseteq back1[c]
       /\ \A r \in back[c] : r \in Nat /\ r <= now
       /\ \A r \in back1[c] : r \in Nat /\ (r \in back[c] \/ r > now)
       /\ c \in dark => c \in dark1 \/ \E r \in back1[c] : r > now

\* u is the trip t, with more known of it.
Alike(t, u) ==
  /\ u.circuit = t.circuit /\ u.start = t.start /\ u.noted = t.noted /\ u.end = t.end
  /\ t.missed => u.missed

\* A trip stays in order as time passes and as more is known of it.
LEMMA TripPasses ==
  ASSUME NEW t \in Trip, NEW u \in Trip, Alike(t, u),
         NEW now, NEW dark, NEW back, NEW now1, NEW dark1, NEW back1,
         Passes(now, dark, back, now1, dark1, back1), TripOK(t, now, dark, back)
  PROVE  TripOK(u, now1, dark1, back1) /\ (Gone(t, back) => Gone(u, back1))
<1>1. /\ t.circuit \in Breakers /\ t.start \in Nat /\ t.noted \in Nat
      /\ t.end = Never \/ t.end \in Nat
      /\ t.missed \in BOOLEAN /\ u.missed \in BOOLEAN
      /\ u.circuit = t.circuit /\ u.start = t.start /\ u.noted = t.noted /\ u.end = t.end
      /\ t.missed => u.missed
  BY DEF Trip, Stamp, Alike
<1>2. PICK B, B1 : B = back[t.circuit] /\ B1 = back1[t.circuit]
  OBVIOUS
<1>3. /\ now \in Nat /\ now1 \in Nat /\ now <= now1 /\ B \subseteq B1
      /\ \A r \in B : r \in Nat /\ r <= now
      /\ \A r \in B1 : r \in Nat /\ (r \in B \/ r > now)
      /\ t.circuit \in dark => t.circuit \in dark1 \/ \E r \in B1 : r > now
  BY <1>1, <1>2 DEF Passes
<1>4. Gone(t, back) <=> \E r \in B : r > t.noted
  BY <1>2 DEF Gone
<1>5. Gone(u, back1) <=> \E r \in B1 : r > t.noted
  BY <1>1, <1>2 DEF Gone
<1>6. t.start <= t.noted /\ t.noted <= now
  BY DEF TripOK
<1>7. Gone(t, back) => Gone(u, back1)
  BY <1>3, <1>4, <1>5
<1>8. u.start <= u.noted /\ u.noted <= now1
  BY <1>1, <1>3, <1>6
<1>9. u.end = Never /\ ~Gone(u, back1) => u.circuit \in dark1
  <2> SUFFICES ASSUME t.end = Never, ~Gone(u, back1) PROVE t.circuit \in dark1
    BY <1>1
  <2>1. t.circuit \in dark
    BY <1>7 DEF TripOK
  <2>2. \A r \in B1 : ~(r > now)
    BY <1>1, <1>3, <1>5, <1>6
  <2> QED
    BY <1>3, <2>1, <2>2
<1>10. u.end # Never /\ ~u.missed => EndedRight(u, back1)
  <2> SUFFICES ASSUME t.end # Never, ~t.missed PROVE EndedRight(u, back1)
    BY <1>1
  <2>1. EndedRight(t, back)
    BY DEF TripOK
  <2>2. IF t.end > t.noted THEN t.end \in B /\ \A r \in B : r > t.noted => t.end <= r
        ELSE t.start < t.end
    BY <1>2, <2>1 DEF EndedRight
  <2>3. IF t.end > t.noted THEN t.end \in B1 /\ \A r \in B1 : r > t.noted => t.end <= r
        ELSE t.start < t.end
    <3>1. ASSUME t.end > t.noted PROVE t.end \in B1 /\ \A r \in B1 : r > t.noted => t.end <= r
      BY <1>3, <2>2, <3>1
    <3> QED
      BY <2>2, <3>1
  <2> QED
    BY <1>1, <1>2, <2>3 DEF EndedRight
<1> QED
  BY <1>7, <1>8, <1>9, <1>10 DEF TripOK

\* A step's incident is the one before it, or one that opens now at a live circuit.
Continues(inc, inc1, now, dark) ==
  inc1 # Never => \/ inc # Never /\ inc1.start = inc.start /\ inc1.circuit = inc.circuit
                  \/ inc1.start > now /\ inc1.circuit \notin dark

AlikeSeqs(ts, us) ==
  DOMAIN us = DOMAIN ts /\ \A i \in DOMAIN ts : Alike(ts[i], us[i])

\* So does a sequence of trips.
LEMMA PastPasses ==
  ASSUME NEW ts \in Seq(Trip), NEW us \in Seq(Trip), AlikeSeqs(ts, us),
         NEW now, NEW dark, NEW back, NEW now1, NEW dark1, NEW back1, NEW inc, NEW inc1,
         Passes(now, dark, back, now1, dark1, back1), Past(ts, now, dark, back, inc),
         inc1 # Never => inc1.start \in Nat, Continues(inc, inc1, now, dark)
  PROVE  Past(us, now1, dark1, back1, inc1)
<1>1. ASSUME NEW i \in DOMAIN ts
      PROVE  /\ TripOK(us[i], now1, dark1, back1) /\ (Gone(ts[i], back) => Gone(us[i], back1))
             /\ us[i].circuit = ts[i].circuit /\ us[i].start = ts[i].start
             /\ us[i].end = ts[i].end
             /\ ts[i].start \in Nat /\ ts[i].start <= now
  <2>1. PICK t \in Trip, u \in Trip : t = ts[i] /\ u = us[i] /\ Alike(t, u)
    BY DEF AlikeSeqs
  <2>2. TripOK(t, now, dark, back)
    BY <2>1 DEF Past
  <2>3. TripOK(u, now1, dark1, back1) /\ (Gone(t, back) => Gone(u, back1))
    BY <2>1, <2>2, TripPasses
  <2>4. t.start \in Nat /\ t.noted \in Nat /\ now \in Nat
    BY DEF Trip, Passes
  <2>5. t.start <= now
    BY <2>2, <2>4 DEF TripOK
  <2> QED
    BY <2>1, <2>3, <2>4, <2>5 DEF Alike
<1>2. DOMAIN us = DOMAIN ts
  BY DEF AlikeSeqs
<1>3. \A i, j \in DOMAIN us : i < j =>
        /\ us[i].start < us[j].start
        /\ us[i].circuit = us[j].circuit /\ us[i].end = Never => Gone(us[i], back1)
  BY <1>1, <1>2 DEF Past
<1>4. ASSUME inc1 # Never, NEW i \in DOMAIN us
      PROVE  /\ us[i].start < inc1.start
             /\ us[i].circuit = inc1.circuit /\ us[i].end = Never => Gone(us[i], back1)
  <2>1. CASE inc # Never /\ inc1.start = inc.start /\ inc1.circuit = inc.circuit
    BY <1>1, <1>2, <2>1 DEF Past
  <2>2. CASE inc1.start > now /\ inc1.circuit \notin dark
    <3>1. us[i].start < inc1.start
      <4>1. ts[i].start \in Nat /\ ts[i].start <= now /\ inc1.start \in Nat /\ now \in Nat
        BY <1>1, <1>2, <1>4 DEF Passes
      <4> QED
        BY <1>1, <1>2, <2>2, <4>1
    <3>2. ts[i].circuit = inc1.circuit /\ ts[i].end = Never => Gone(ts[i], back)
      BY <1>2, <2>2 DEF Past, TripOK
    <3> QED
      BY <1>1, <1>2, <3>1, <3>2
  <2> QED
    BY <1>4, <2>1, <2>2 DEF Continues
<1> QED
  BY <1>1, <1>2, <1>3, <1>4 DEF Past

\* The trip t ends at this reading, the first return since it was recorded.
EndsNow(t, u, now, back) ==
  /\ t.end = Never /\ u = [t EXCEPT !.end = now]
  /\ now \in back[t.circuit] /\ t.noted < now
  /\ ~t.missed => \A r \in back[t.circuit] : r > t.noted => now <= r

\* It does when trips end at their return.
LEMMA PastEnds ==
  ASSUME NEW ts \in Seq(Trip), NEW us \in Seq(Trip), DOMAIN us = DOMAIN ts,
         NEW now \in Nat, NEW dark, NEW back, NEW inc, Past(ts, now, dark, back, inc),
         \A i \in DOMAIN ts : us[i] = ts[i] \/ EndsNow(ts[i], us[i], now, back)
  PROVE  Past(us, now, dark, back, inc)
<1>1. ASSUME NEW i \in DOMAIN ts
      PROVE  /\ us[i].circuit = ts[i].circuit /\ us[i].start = ts[i].start
             /\ us[i].noted = ts[i].noted /\ us[i].missed = ts[i].missed
             /\ us[i].end = Never => ts[i].end = Never
             /\ us[i] = ts[i] \/ us[i].end = now
  <2>1. PICK t \in Trip, u \in Trip : t = ts[i] /\ u = us[i]
    OBVIOUS
  <2>2. CASE u = t
    BY <2>1, <2>2
  <2>3. CASE EndsNow(t, u, now, back)
    <3>1. t.end = Never /\ u = [t EXCEPT !.end = now]
      BY <2>3 DEF EndsNow
    <3>2. /\ u.circuit = t.circuit /\ u.start = t.start /\ u.noted = t.noted
          /\ u.missed = t.missed /\ u.end = now
      BY <3>1 DEF Trip
    <3> QED
      BY <2>1, <3>1, <3>2
  <2> QED
    BY <2>1, <2>2, <2>3
<1>2. \A i \in DOMAIN ts : Gone(us[i], back) <=> Gone(ts[i], back)
  BY <1>1 DEF Gone
<1>3. ASSUME NEW i \in DOMAIN ts PROVE TripOK(us[i], now, dark, back)
  <2>1. TripOK(ts[i], now, dark, back)
    BY DEF Past
  <2>2. CASE us[i] = ts[i]
    BY <2>1, <2>2
  <2>3. CASE EndsNow(ts[i], us[i], now, back)
    <3>1. PICK t \in Trip, u \in Trip : t = ts[i] /\ u = us[i]
      OBVIOUS
    <3>2. /\ u.circuit = t.circuit /\ u.start = t.start /\ u.noted = t.noted
          /\ u.missed = t.missed /\ u.end = now /\ now # Never /\ t.noted \in Nat
      <4>1. u = [t EXCEPT !.end = now]
        BY <2>3, <3>1 DEF EndsNow
      <4> QED
        BY <4>1, Bounds DEF Trip
    <3>3. u.start <= u.noted /\ u.noted <= now
      BY <2>1, <3>1, <3>2 DEF TripOK
    <3>4. ~u.missed => EndedRight(u, back)
      <4>1. /\ now \in back[t.circuit] /\ now > t.noted
            /\ ~t.missed => \A r \in back[t.circuit] : r > t.noted => now <= r
        BY <2>3, <3>1, <3>2 DEF EndsNow
      <4> QED
        BY <3>2, <4>1 DEF EndedRight
    <3> QED
      BY <3>1, <3>2, <3>3, <3>4 DEF TripOK
  <2> QED
    BY <2>2, <2>3
<1> QED
  BY <1>1, <1>2, <1>3 DEF Past

\* The trip of the incident inc, recorded now.
TripOf(t, inc, now) ==
  /\ t \in Trip /\ t.circuit = inc.circuit /\ t.start = inc.start /\ t.end = inc.end
  /\ t.noted = now /\ ~t.missed

\* And when the trip of an incident is recorded.
LEMMA PastRecords ==
  ASSUME NEW ts \in Seq(Trip), NEW now \in Nat, NEW dark, NEW back, NEW inc \in Incident,
         inc # Never, Past(ts, now, dark, back, inc), inc.start <= now,
         IF inc.end = Never THEN inc.circuit \in dark ELSE inc.start < inc.end /\ inc.end <= now,
         NEW t, TripOf(t, inc, now), NEW from, NEW k, Selection(k, ts, from, Len(ts))
  PROVE  Append(k, t) \in Seq(Trip) /\ Past(Append(k, t), now, dark, back, Never)
<1> DEFINE us == Append(k, t)
           n == Len(k)
<1>1. /\ k \in Seq(Trip) /\ n \in Nat /\ DOMAIN k = 1 .. n /\ t \in Trip
      /\ DOMAIN ts = 1 .. Len(ts)
  BY DEF Selection, TripOf
<1>2. us \in Seq(Trip) /\ DOMAIN us = 1 .. n + 1 /\ us[n + 1] = t
      /\ \A i \in DOMAIN k : us[i] = k[i]
  BY <1>1
<1>3. \A i \in DOMAIN us : i \in DOMAIN k \/ i = n + 1
  BY <1>1, <1>2
<1> HIDE DEF us, n
<1>4. ASSUME NEW i \in DOMAIN k
      PROVE  \E p \in DOMAIN ts : us[i] = ts[p]
  BY <1>1, <1>2 DEF Selection
<1>5. TripOK(t, now, dark, back)
  <2>1. inc.end = Never \/ inc.end \in Nat
    BY DEF Incident, Stamp
  <2>2. ~(inc.end # Never /\ inc.end > now)
    BY <2>1
  <2> QED
    BY <2>1, <2>2 DEF TripOK, TripOf, EndedRight
<1>6. \A i \in DOMAIN us : TripOK(us[i], now, dark, back)
  BY <1>2, <1>3, <1>4, <1>5 DEF Past
<1>7. ASSUME NEW i \in DOMAIN us, NEW j \in DOMAIN us, i < j
      PROVE  /\ us[i].start < us[j].start
             /\ us[i].circuit = us[j].circuit /\ us[i].end = Never => Gone(us[i], back)
  <2>1. i \in DOMAIN k
    BY <1>1, <1>2, <1>3, <1>7
  <2>2. PICK p \in DOMAIN ts : us[i] = ts[p]
    BY <1>4, <2>1
  <2>3. CASE j = n + 1
    BY <1>2, <2>2, <2>3 DEF Past, TripOf
  <2>4. CASE j \in DOMAIN k
    <3>1. PICK q \in DOMAIN ts : us[j] = ts[q]
      BY <1>4, <2>4
    <3>2. us[i].start < us[j].start
      BY <1>2, <1>7, <2>1, <2>4 DEF Selection
    <3>3. p < q
      <4>1. ts[p].start \in Nat /\ ts[q].start \in Nat
        BY TripType
      <4>2. p \in Nat /\ q \in Nat
        BY <1>1
      <4>3. q < p => ts[q].start < ts[p].start
        BY DEF Past
      <4> QED
        BY <2>2, <3>1, <3>2, <4>1, <4>2, <4>3
    <3> QED
      BY <2>2, <3>1, <3>2, <3>3 DEF Past
  <2> QED
    BY <1>3, <2>3, <2>4
<1>8. Past(us, now, dark, back, Never)
  BY <1>6, <1>7 DEF Past
<1> QED
  BY <1>2, <1>8 DEF us

-----------------------------------------------------------------------------
(* What the watch follows.                                                 *)

\* A trip recorded at its incident's close is followed if it has no end.
LEMMA FollowedRecords ==
  ASSUME NEW ts \in Seq(Trip), NEW now \in Nat, NEW dark, NEW back \in [Breakers -> SUBSET Nat],
         NEW inc \in Incident, inc # Never, Past(ts, now, dark, back, inc),
         \A c \in Breakers : \A r \in back[c] : r <= now,
         NEW t, TripOf(t, inc, now), NEW from \in Int, NEW k, Selection(k, ts, from, Len(ts)),
         NEW open \in [Breakers -> Stamp], NEW on, Followed(ts, open, back, on)
  PROVE  Followed(Append(k, t),
                  IF inc.end = Never THEN [open EXCEPT ![inc.circuit] = inc.start] ELSE open,
                  back, on)
<1> DEFINE us == Append(k, t)
           n == Len(k)
           open1 == IF inc.end = Never THEN [open EXCEPT ![inc.circuit] = inc.start] ELSE open
<1>1. /\ k \in Seq(Trip) /\ n \in Nat /\ DOMAIN k = 1 .. n /\ t \in Trip
      /\ DOMAIN ts = 1 .. Len(ts)
  BY DEF Selection, TripOf
<1>2. us \in Seq(Trip) /\ DOMAIN us = 1 .. n + 1 /\ us[n + 1] = t
      /\ \A i \in DOMAIN k : us[i] = k[i]
  BY <1>1
<1>3. \A i \in DOMAIN us : i \in DOMAIN k \/ i = n + 1
  BY <1>1, <1>2
<1>4. inc.circuit \in Breakers /\ inc.start \in Nat
  BY DEF Incident
<1>5. /\ inc.end = Never => open1[inc.circuit] = inc.start
      /\ \A c \in Breakers : c # inc.circuit \/ inc.end # Never => open1[c] = open[c]
  BY <1>4
<1> HIDE DEF us, n, open1
<1>6. ~Gone(t, back)
  <2>1. t.circuit \in Breakers /\ t.noted = now
    BY <1>4 DEF TripOf
  <2>2. \A r \in back[t.circuit] : r \in Nat /\ r <= now
    BY <2>1
  <2> QED
    BY <2>1, <2>2 DEF Gone
<1>7. t.end = Never => open1[t.circuit] = t.start
  BY <1>5 DEF TripOf
<1>8. ASSUME NEW i \in DOMAIN k
      PROVE  /\ us[i] \in Trip /\ us[i].circuit \in Breakers
             /\ us[i] = k[i] /\ us[i].start >= from
             /\ \E p \in DOMAIN ts : us[i] = ts[p]
  <2>1. k[i] \in Trip /\ k[i].circuit \in Breakers
    BY <1>1, TripType
  <2> QED
    BY <1>1, <1>2, <2>1 DEF Selection
<1>9. ASSUME NEW i \in DOMAIN us, us[i].end = Never, ~us[i].missed
      PROVE  ~Gone(us[i], back) /\ (on => open1[us[i].circuit] = us[i].start)
  <2>1. CASE i = n + 1
    BY <1>2, <1>6, <1>7, <1>9, <2>1
  <2>2. CASE i \in DOMAIN k
    <3>1. PICK p \in DOMAIN ts : us[i] = ts[p]
      BY <1>8, <2>2
    <3>2. ~Gone(ts[p], back) /\ (on => open[ts[p].circuit] = ts[p].start)
      BY <1>9, <3>1 DEF Followed
    <3>3. us[i].circuit # inc.circuit
      BY <1>9, <3>1, <3>2 DEF Past
    <3> QED
      BY <1>5, <1>8, <2>2, <3>1, <3>2, <3>3
  <2> QED
    BY <1>3, <2>1, <2>2
<1>10. ASSUME on, NEW i \in DOMAIN us, us[i].end = Never, LastOf(us, i)
       PROVE  open1[us[i].circuit] = us[i].start
  <2>1. CASE i = n + 1
    BY <1>2, <1>7, <1>10, <2>1
  <2>2. CASE i \in DOMAIN k
    <3>1. PICK p \in DOMAIN ts : us[i] = ts[p]
      BY <1>8, <2>2
    <3>2. us[i].circuit # inc.circuit
      <4>1. n + 1 \in DOMAIN us /\ n + 1 > i
        BY <1>1, <1>2, <2>2
      <4> QED
        BY <1>2, <1>10, <4>1 DEF LastOf, TripOf
    <3>3. ASSUME NEW q \in DOMAIN ts, q > p, ts[q].circuit = ts[p].circuit PROVE FALSE
      <4>1. ts[p].start < ts[q].start /\ ts[p].start \in Nat /\ ts[q].start \in Nat
        <5>1. p < q
          BY <1>1, <3>3
        <5> QED
          BY <5>1, TripType DEF Past
      <4>2. ts[q].start >= from
        BY <1>8, <2>2, <3>1, <4>1
      <4>3. PICK j \in DOMAIN k : k[j] = ts[q]
        BY <1>1, <4>2 DEF Selection
      <4>4. ~(j < i) /\ j # i
        BY <1>8, <2>2, <3>1, <4>1, <4>3 DEF Selection
      <4>5. j > i /\ j \in DOMAIN us
        BY <1>1, <1>2, <2>2, <4>4
      <4> QED
        BY <1>8, <1>10, <3>1, <3>3, <4>3, <4>5 DEF LastOf
    <3>4. LastOf(ts, p)
      BY <3>3 DEF LastOf
    <3>5. open[ts[p].circuit] = ts[p].start
      BY <1>10, <3>1, <3>4 DEF Followed
    <3> QED
      BY <1>5, <1>8, <2>2, <3>1, <3>2, <3>5
  <2> QED
    BY <1>3, <2>1, <2>2
<1>11. Followed(us, open1, back, on)
  BY <1>9, <1>10 DEF Followed
<1> QED
  BY <1>11 DEF us, open1

\* A return ends the trip the watch followed, and with it all it could have missed.
LEMMA FollowedEnds ==
  ASSUME NEW ts \in Seq(Trip), NEW us \in Seq(Trip), DOMAIN us = DOMAIN ts,
         NEW open \in [Breakers -> Stamp], NEW back \in [Breakers -> SUBSET Nat],
         NEW c \in Breakers, NEW end \in Nat, Followed(ts, open, back, TRUE),
         \A i \in DOMAIN ts :
           us[i] = IF ts[i].circuit = c /\ ts[i].start = open[c] /\ ts[i].end = Never
                   THEN [ts[i] EXCEPT !.end = end] ELSE ts[i]
  PROVE  Followed(us, [open EXCEPT ![c] = Never], [back EXCEPT ![c] = @ \cup {end}], TRUE)
<1> DEFINE open1 == [open EXCEPT ![c] = Never]
           back1 == [back EXCEPT ![c] = @ \cup {end}]
<1>1. \A d \in Breakers : d # c => open1[d] = open[d] /\ back1[d] = back[d]
  OBVIOUS
<1> HIDE DEF open1, back1
<1>2. ASSUME NEW i \in DOMAIN ts
      PROVE  /\ ts[i].circuit \in Breakers
             /\ us[i].circuit = ts[i].circuit
             /\ us[i].end = Never => us[i] = ts[i]
             /\ ts[i].circuit = c /\ ts[i].start = open[c] => us[i].end # Never
  <2>1. PICK t \in Trip : t = ts[i]
    OBVIOUS
  <2>2. CASE t.circuit = c /\ t.start = open[c] /\ t.end = Never
    <3>1. us[i] = [t EXCEPT !.end = end]
      BY <2>1, <2>2
    <3>2. us[i].end = end /\ us[i].circuit = t.circuit
      BY <3>1 DEF Trip
    <3> QED
      BY <2>1, <3>2, Bounds DEF Trip
  <2>3. CASE ~(t.circuit = c /\ t.start = open[c] /\ t.end = Never)
    <3>1. us[i] = ts[i]
      BY <2>1, <2>3
    <3> QED
      BY <2>1, <2>3, <3>1 DEF Trip
  <2> QED
    BY <2>2, <2>3
<1>3. ASSUME NEW i \in DOMAIN us, us[i].end = Never, ~us[i].missed
      PROVE  ~Gone(us[i], back1) /\ open1[us[i].circuit] = us[i].start
  <2>1. us[i] = ts[i] /\ ts[i].circuit \in Breakers
    BY <1>2, <1>3
  <2>2. ~Gone(ts[i], back) /\ open[ts[i].circuit] = ts[i].start
    BY <1>3, <2>1 DEF Followed
  <2>3. ts[i].circuit # c
    BY <1>2, <1>3, <2>2
  <2> QED
    BY <1>1, <2>1, <2>2, <2>3 DEF Gone
<1>4. ASSUME NEW i \in DOMAIN us, us[i].end = Never, LastOf(us, i)
      PROVE  open1[us[i].circuit] = us[i].start
  <2>1. us[i] = ts[i] /\ ts[i].circuit \in Breakers
    BY <1>2, <1>4
  <2>2. LastOf(ts, i)
    BY <1>2, <1>4 DEF LastOf
  <2>3. open[ts[i].circuit] = ts[i].start
    BY <1>4, <2>1, <2>2 DEF Followed
  <2>4. ts[i].circuit # c
    BY <1>2, <1>4, <2>3
  <2> QED
    BY <1>1, <2>1, <2>3, <2>4
<1>5. Followed(us, open1, back1, TRUE)
  BY <1>3, <1>4 DEF Followed
<1> QED
  BY <1>5 DEF open1, back1

\* A new watch follows the last trip without an end, the only one it can still see.
LEMMA FollowedStarts ==
  ASSUME NEW ts \in Seq(Trip), NEW now, NEW dark, NEW back, NEW inc, NEW open,
         Past(ts, now, dark, back, inc), Followed(ts, open, back, FALSE)
  PROVE  Followed(ts, OpenFrom(ts), back, TRUE)
<1> DEFINE unended(c) == {i \in DOMAIN ts : ts[i].circuit = c /\ ts[i].end = Never}
<1>1. DOMAIN ts = 1 .. Len(ts) /\ Len(ts) \in Nat
  OBVIOUS
<1>2. ASSUME NEW i \in DOMAIN ts, ts[i].end = Never
      PROVE  \E m \in DOMAIN ts :
               /\ OpenFrom(ts)[ts[i].circuit] = ts[m].start /\ m >= i
               /\ ts[m].circuit = ts[i].circuit
  <2>1. PICK c \in Breakers : c = ts[i].circuit
    BY TripType
  <2>2. i \in unended(c) /\ unended(c) \subseteq 1 .. Len(ts)
    BY <1>1, <1>2, <2>1
  <2>3. PICK m : m = Max(unended(c)) /\ m \in unended(c) /\ i <= m
    BY <1>1, <2>2, Greatest
  <2>4. OpenFrom(ts)[c] = ts[m].start
    BY <2>2, <2>3 DEF OpenFrom
  <2> QED
    BY <1>1, <2>1, <2>3, <2>4
<1>3. ASSUME NEW i \in DOMAIN ts, ts[i].end = Never, ~ts[i].missed
      PROVE  ~Gone(ts[i], back) /\ OpenFrom(ts)[ts[i].circuit] = ts[i].start
  <2>1. ~Gone(ts[i], back)
    BY <1>3 DEF Followed
  <2>2. PICK m \in DOMAIN ts : /\ OpenFrom(ts)[ts[i].circuit] = ts[m].start /\ m >= i
                               /\ ts[m].circuit = ts[i].circuit
    BY <1>2, <1>3
  <2>3. ~(i < m)
    BY <1>3, <2>1, <2>2 DEF Past
  <2>4. i = m
    BY <1>1, <2>2, <2>3
  <2> QED
    BY <2>1, <2>2, <2>4
<1>4. ASSUME NEW i \in DOMAIN ts, ts[i].end = Never, LastOf(ts, i)
      PROVE  OpenFrom(ts)[ts[i].circuit] = ts[i].start
  <2>1. PICK m \in DOMAIN ts : /\ OpenFrom(ts)[ts[i].circuit] = ts[m].start /\ m >= i
                               /\ ts[m].circuit = ts[i].circuit
    BY <1>2, <1>4
  <2>2. i = m
    BY <1>1, <1>4, <2>1 DEF LastOf
  <2> QED
    BY <2>1, <2>2
<1> QED
  BY <1>3, <1>4 DEF Followed

\* Trips marked as missed leave none that could still be seen and was not.
LEMMA FollowedMarked ==
  ASSUME NEW ts \in Seq(Trip), NEW us \in Seq(Trip), DOMAIN us = DOMAIN ts, NEW back, NEW open,
         \A i \in DOMAIN ts : us[i] = IF ts[i].end = Never /\ Gone(ts[i], back)
                                      THEN [ts[i] EXCEPT !.missed = TRUE] ELSE ts[i]
  PROVE  Followed(us, open, back, FALSE) /\ AlikeSeqs(ts, us)
<1>1. ASSUME NEW i \in DOMAIN ts
      PROVE  /\ Alike(ts[i], us[i])
             /\ us[i].end = Never /\ ~us[i].missed => ~Gone(us[i], back)
  <2>1. PICK t \in Trip : t = ts[i]
    OBVIOUS
  <2>2. CASE t.end = Never /\ Gone(t, back)
    <3>1. us[i] = [t EXCEPT !.missed = TRUE]
      BY <2>1, <2>2
    <3>2. /\ us[i].circuit = t.circuit /\ us[i].start = t.start /\ us[i].noted = t.noted
          /\ us[i].end = t.end /\ us[i].missed = TRUE
      BY <3>1 DEF Trip
    <3> QED
      BY <2>1, <3>2 DEF Alike
  <2>3. CASE ~(t.end = Never /\ Gone(t, back))
    <3>1. us[i] = ts[i]
      BY <2>1, <2>3
    <3> QED
      BY <2>1, <2>3, <3>1 DEF Alike
  <2> QED
    BY <2>2, <2>3
<1> QED
  BY <1>1 DEF Followed, AlikeSeqs

\* What marking leaves of a sequence of trips.
LEMMA Marked ==
  ASSUME NEW ts \in Seq(Trip), Shown(ts), NEW back, NEW open
  PROVE  LET us == MarkMissed(ts, back)
         IN  /\ us \in Seq(Trip) /\ Followed(us, open, back, FALSE) /\ AlikeSeqs(ts, us)
             /\ Shown(us)
<1> DEFINE us == MarkMissed(ts, back)
<1>1. /\ us \in Seq(Trip) /\ DOMAIN us = DOMAIN ts
      /\ \A i \in DOMAIN ts : us[i] = IF ts[i].end = Never /\ Gone(ts[i], back)
                                      THEN [ts[i] EXCEPT !.missed = TRUE] ELSE ts[i]
  BY MarkMissedFacts
<1> HIDE DEF us
<1>2. Followed(us, open, back, FALSE) /\ AlikeSeqs(ts, us)
  BY <1>1, FollowedMarked
<1>3. ASSUME NEW i \in DOMAIN ts
      PROVE  us[i].outage = ts[i].outage /\ us[i].suspected = ts[i].suspected
  <2>1. PICK t \in Trip : t = ts[i]
    OBVIOUS
  <2>2. us[i] = t \/ us[i] = [t EXCEPT !.missed = TRUE]
    BY <1>1, <2>1
  <2> QED
    BY <2>1, <2>2 DEF Trip
<1>4. Shown(us)
  BY <1>1, <1>3 DEF Shown
<1> QED
  BY <1>1, <1>2, <1>4 DEF us

-----------------------------------------------------------------------------
(* The invariant holds initially, and when no trip changes.                *)

\* The store is empty at first.
LEMMA InitLedgerInv ==
  LedgerInit => LedgerInv
<1> SUFFICES ASSUME LedgerInit PROVE LedgerInv
  OBVIOUS
<1> USE DEF LedgerInit
<1>1. <<>> \in Seq(Trip) /\ DOMAIN <<>> = {}
  OBVIOUS
<1>2. Types
  <2>1. openTrips \in [Breakers -> Stamp] /\ returns \in [Breakers -> SUBSET Nat]
    BY DEF Stamp
  <2>2. HandlerOK /\ WriterOK
    BY DEF HandlerOK, WriterOK
  <2> QED
    BY <1>1, <2>1, <2>2 DEF Types
<1>3. Watch
  BY DEF Watch
<1>4. /\ Past(trips, clock, dead, returns, incident) /\ Past(file, clock, dead, returns, incident)
      /\ Shown(trips) /\ Shown(file) /\ Followed(trips, openTrips, returns, watching)
  BY <1>1 DEF Past, Shown, Followed
<1> QED
  BY <1>2, <1>3, <1>4 DEF LedgerInv

\* A state leads to itself.
LEMMA StaysTheSame ==
  ASSUME LedgerInv
  PROVE  Passes(clock, dead, returns, clock, dead, returns)
<1>1. \A c \in Breakers : returns[c] \subseteq Nat /\ \A r \in returns[c] : r <= clock
  BY DEF LedgerInv, Types, Watch
<1> QED
  BY <1>1 DEF LedgerInv, Types, Passes

\* Nothing is alike as the same.
LEMMA SameIsAlike ==
  ASSUME NEW ts
  PROVE  AlikeSeqs(ts, ts)
BY DEF AlikeSeqs, Alike

\* Steps of the handler and of the writers, and a refused incident.
LEMMA QuietKeeps ==
  ASSUME LedgerInv,
         UNCHANGED <<clock, dead, reported, watching, openTrips, trips, file, returns>>,
         incident' = incident \/ incident' = Never,
         held' \subseteq Entities, HandlerOK', WriterOK'
  PROVE  LedgerInv'
<1> USE DEF LedgerInv
<1>1. Types'
  BY DEF Types
<1>2. Watch'
  BY DEF Watch
<1>3. Past(trips, clock, dead, returns, incident)'
  BY DEF Past
<1>4. Past(file, clock, dead, returns, incident)'
  BY DEF Past
<1> QED
  BY <1>1, <1>2, <1>3, <1>4

\* A key is an entity.
LEMMA KeyIsEntity ==
  ASSUME NEW d, NEW entities, entities \subseteq Entities, entities # {}, NEW existing
  PROVE  KeyFor(d, entities, existing) \in Entities
<1> DEFINE rows == Siblings(d) \cap existing
           meters == Siblings(d) \cap PowerMeters
           S == IF rows # {} THEN rows ELSE IF meters # {} THEN meters ELSE entities
<1>1. Siblings(d) \subseteq Entities
  BY DEF Siblings
<1>2. S \subseteq Entities /\ S # {}
  BY <1>1
<1>3. KeyFor(d, entities, existing) = Min(S)
  BY DEF KeyFor
<1> HIDE DEF S
<1>4. S \subseteq Nat
  BY <1>2, Bounds
<1> QED
  BY <1>2, <1>3, <1>4, Least

\* The keys of devices are entities.
LEMMA KeysAreEntities ==
  ASSUME NEW devices, devices \subseteq DevicesOf(Entities), NEW existing
  PROVE  KeysFor(devices, existing) \subseteq Entities
<1> SUFFICES ASSUME NEW d \in devices PROVE KeyFor(d, Siblings(d), existing) \in Entities
  BY DEF KeysFor
<1>1. Siblings(d) \subseteq Entities /\ Siblings(d) # {}
  BY DEF DevicesOf, Siblings
<1> QED
  BY <1>1, KeyIsEntity

\* A refused incident leaves nothing.
LEMMA RefuseKeeps ==
  ASSUME LedgerInv, RefuseIncident
  PROVE  LedgerInv'
<1>1. HandlerOK' /\ WriterOK' /\ held' \subseteq Entities
  BY DEF LedgerInv, Types, HandlerOK, WriterOK, RefuseIncident, Closes
<1> QED
  BY <1>1, QuietKeeps DEF RefuseIncident, Closes

\* The handler reads the rows,
LEMMA ReadRowsKeeps ==
  ASSUME LedgerInv, ReadRows
  PROVE  LedgerInv'
<1>1. handler \in Handler /\ handler.todo \subseteq DevicesOf(handler.casualties)
  BY DEF LedgerInv, Types, HandlerOK, ReadRows
<1>2. held \subseteq Entities /\ WriterOK
  BY DEF LedgerInv, Types
<1>3. handler' = [handler EXCEPT !.existing = held]
  BY DEF ReadRows
<1>4. HandlerOK'
  BY <1>1, <1>2, <1>3 DEF HandlerOK, Handler
<1>5. WriterOK' /\ held' \subseteq Entities
  BY <1>2 DEF ReadRows, WriterOK
<1> QED
  BY <1>4, <1>5, QuietKeeps DEF ReadRows

\* records the row of each device,
LEMMA RecordDeviceKeeps ==
  ASSUME LedgerInv, NEW d, RecordDevice(d)
  PROVE  LedgerInv'
<1>1. /\ handler \in Handler /\ handler.todo \subseteq DevicesOf(handler.casualties)
      /\ d \in handler.todo /\ handler.casualties \subseteq Entities
  BY DEF LedgerInv, Types, HandlerOK, RecordDevice, Handler
<1>2. held \subseteq Entities /\ WriterOK
  BY DEF LedgerInv, Types
<1>3. handler' = [handler EXCEPT !.todo = @ \ {d}]
  BY DEF RecordDevice
<1>4. HandlerOK'
  BY <1>1, <1>3 DEF HandlerOK, Handler
<1>5. held' \subseteq Entities
  <2>1. PICK e \in handler.casualties : DeviceOf[e] = d
    BY <1>1 DEF DevicesOf
  <2>2. /\ handler.casualties \cap Siblings(d) \subseteq Entities
        /\ handler.casualties \cap Siblings(d) # {}
    BY <1>1, <2>1 DEF Siblings
  <2>3. KeyFor(d, handler.casualties \cap Siblings(d), handler.existing) \in Entities
    BY <2>2, KeyIsEntity
  <2> QED
    BY <1>2, <2>3 DEF RecordDevice
<1>6. WriterOK'
  BY <1>2 DEF RecordDevice, WriterOK
<1> QED
  BY <1>4, <1>5, <1>6, QuietKeeps DEF RecordDevice

\* and ends.
LEMMA HandlerEndsKeeps ==
  ASSUME LedgerInv, HandlerEnds
  PROVE  LedgerInv'
<1>1. WriterOK' /\ held' \subseteq Entities
  BY DEF LedgerInv, Types, WriterOK, HandlerEnds
<1>2. HandlerOK'
  BY DEF HandlerOK, HandlerEnds
<1> QED
  BY <1>1, <1>2, QuietKeeps DEF HandlerEnds

\* A writer begins with keys of entities,
LEMMA BeginOutageKeeps ==
  ASSUME LedgerInv, NEW i, NEW cas \in SUBSET DevicesOf(Entities),
         NEW ans \in SUBSET DevicesOf(Entities), NEW ind \in SUBSET DevicesOf(Entities),
         NEW rec \in SUBSET DevicesOf(Entities), BeginOutage(i, cas, ans, ind, rec)
  PROVE  LedgerInv'
<1>1. /\ KeysFor(cas, held) \subseteq Entities /\ KeysFor(ans, held) \subseteq Entities
      /\ KeysFor(ind, held) \subseteq Entities /\ KeysFor(rec, held) \subseteq Entities
  BY KeysAreEntities
<1>2. i \in DOMAIN trips /\ trips \in Seq(Trip)
  BY DEF LedgerInv, Types, BeginOutage
<1>3. trips[i].circuit \in Breakers /\ trips[i].start \in Nat
  BY <1>2, TripType
<1>4. writer' \in Writer
  BY <1>1, <1>3 DEF BeginOutage, Writer, Outage
<1>5. HandlerOK' /\ WriterOK' /\ held' \subseteq Entities
  BY <1>4 DEF LedgerInv, Types, HandlerOK, WriterOK, BeginOutage
<1> QED
  BY <1>5, QuietKeeps DEF BeginOutage

\* and records the row of each casualty.
LEMMA RecordCasualtyKeeps ==
  ASSUME LedgerInv, NEW e \in Entities, RecordCasualty(e)
  PROVE  LedgerInv'
<1>1. writer \in Writer /\ writer' = [writer EXCEPT !.todo = @ \ {e}]
  BY DEF LedgerInv, Types, WriterOK, RecordCasualty
<1>2. writer' \in Writer
  BY <1>1 DEF Writer
<1>3. HandlerOK' /\ WriterOK' /\ held' \subseteq Entities
  BY <1>2 DEF LedgerInv, Types, HandlerOK, WriterOK, RecordCasualty
<1> QED
  BY <1>3, QuietKeeps DEF RecordCasualty

\* Rows are recorded and forgotten by others.
LEMMA OthersKeep ==
  ASSUME LedgerInv, NEW e \in Entities, OthersRecord(e) \/ OthersForget(e)
  PROVE  LedgerInv'
<1>1. HandlerOK' /\ WriterOK' /\ held' \subseteq Entities
  BY DEF LedgerInv, Types, HandlerOK, WriterOK, OthersRecord, OthersForget
<1> QED
  BY <1>1, QuietKeeps DEF OthersRecord, OthersForget

\* Nothing happens.
LEMMA LedgerStutterKeeps ==
  ASSUME LedgerInv, UNCHANGED ledger
  PROVE  LedgerInv'
<1>1. HandlerOK' /\ WriterOK' /\ held' \subseteq Entities
  BY DEF LedgerInv, Types, HandlerOK, WriterOK, ledger
<1> QED
  BY <1>1, QuietKeeps DEF ledger

\* The file takes the trips as they are.
LEMMA SaveKeeps ==
  ASSUME LedgerInv, Save
  PROVE  LedgerInv'
<1> USE DEF LedgerInv, Save
<1>1. Types'
  BY DEF Types, HandlerOK, WriterOK
<1>2. Watch' /\ Shown(trips)' /\ Shown(file)'
  BY DEF Watch
<1>3. Past(trips, clock, dead, returns, incident)' /\ Past(file, clock, dead, returns, incident)'
  BY DEF Past
<1> QED
  BY <1>1, <1>2, <1>3

-----------------------------------------------------------------------------
(* The readings.                                                           *)

\* The next reading is a number.
LEMMA NextReading ==
  ASSUME LedgerInv
  PROVE  clock \in Nat /\ clock + 1 \in Nat /\ clock < clock + 1 /\ clock + 1 # Never
BY Bounds DEF LedgerInv, Types

\* A dead reading opens an incident, or clears the end of the one there is.
LEMMA ReportsDeadKeeps ==
  ASSUME LedgerInv, NEW c \in Breakers, ReportsDead(c)
  PROVE  LedgerInv'
<1>1. /\ clock' = clock + 1 /\ dead' = dead \cup {c} /\ reported' = reported \cup {c} /\ watching
      /\ UNCHANGED <<watching, openTrips, trips, held, file, handler, writer, writes, returns>>
  BY DEF ReportsDead, ReadsDead
<1>2. \/ incident = Never /\ c \notin dead /\ incident' = NewIncident(c)
      \/ /\ incident # Never /\ incident \in Incident /\ incident.circuit = c
         /\ incident' = [incident EXCEPT !.end = Never]
      \/ (incident # Never => incident.circuit # c) /\ incident' = incident
  BY DEF ReportsDead, ReadsDead, OfIncident, LedgerInv, Types
<1>3. /\ clock \in Nat /\ clock + 1 \in Nat /\ clock < clock + 1 /\ clock + 1 # Never
  BY NextReading
<1>4. incident' # Never =>
        /\ incident' \in Incident /\ incident'.start \in Nat /\ incident'.start <= clock + 1
        /\ Continues(incident, incident', clock, dead)
        /\ IF incident'.end = Never THEN incident'.circuit \in dead'
           ELSE incident'.start < incident'.end /\ incident'.end <= clock + 1
  <2>1. CASE incident = Never /\ c \notin dead /\ incident' = NewIncident(c)
    BY <1>1, <1>3, <2>1 DEF NewIncident, Incident, Stamp, Continues
  <2>2. CASE /\ incident # Never /\ incident \in Incident /\ incident.circuit = c
             /\ incident' = [incident EXCEPT !.end = Never]
    <3>1. incident # Never => incident.start <= clock
      BY DEF LedgerInv, Watch
    <3>2. /\ incident' \in Incident /\ incident'.start = incident.start
          /\ incident'.circuit = c /\ incident'.end = Never /\ incident.start \in Nat
      BY <2>2 DEF Incident, Stamp
    <3> QED
      BY <1>1, <1>3, <2>2, <3>1, <3>2 DEF Continues
  <2>3. CASE incident' = incident
    <3>1. incident # Never =>
            /\ incident \in Incident /\ incident.start <= clock /\ incident.start \in Nat
            /\ incident.end = Never \/ incident.end \in Nat
            /\ IF incident.end = Never THEN incident.circuit \in dead
               ELSE incident.start < incident.end /\ incident.end <= clock
      BY DEF LedgerInv, Types, Watch, Incident, Stamp
    <3>2. incident # Never =>
            /\ incident.start <= clock + 1
            /\ IF incident.end = Never THEN incident.circuit \in dead'
               ELSE incident.start < incident.end /\ incident.end <= clock + 1
      BY <1>1, <1>3, <3>1
    <3> QED
      BY <2>3, <3>1, <3>2 DEF Continues
  <2> QED
    BY <1>2, <2>1, <2>2, <2>3
<1>5. Types'
  <2>1. dead' \subseteq Breakers /\ reported' \subseteq Breakers
    BY <1>1 DEF LedgerInv, Types
  <2> QED
    BY <1>1, <1>3, <1>4, <2>1 DEF LedgerInv, Types, HandlerOK, WriterOK
<1>6. Watch'
  <2>1. \A d \in Breakers : \A r \in returns[d] : r <= clock + 1
    <3> SUFFICES ASSUME NEW d \in Breakers, NEW r \in returns[d] PROVE r <= clock + 1
      OBVIOUS
    <3>1. r \in Nat /\ r <= clock
      BY DEF LedgerInv, Types, Watch
    <3> QED
      BY <1>3, <3>1
  <2> QED
    BY <1>1, <1>4, <2>1 DEF LedgerInv, Watch
<1>7. Passes(clock, dead, returns, clock', dead', returns')
  BY <1>1, <1>3, StaysTheSame DEF Passes
<1>8. incident' # Never => incident'.start \in Nat
  BY <1>4
<1>9. Continues(incident, incident', clock, dead)
  BY <1>4 DEF Continues
<1>10. Past(trips, clock, dead, returns, incident)' /\ Past(file, clock, dead, returns, incident)'
  BY <1>1, <1>7, <1>8, <1>9, PastPasses, SameIsAlike DEF LedgerInv, Types
<1>11. Shown(trips)' /\ Shown(file)' /\ Followed(trips, openTrips, returns, watching)'
  BY <1>1 DEF LedgerInv
<1> QED
  BY <1>5, <1>6, <1>10, <1>11 DEF LedgerInv

\* A live reading ends the trip that is followed, and no other trip of its circuit was.
LEMMA ReportsLiveKeeps ==
  ASSUME LedgerInv, NEW c \in Breakers, ReportsLive(c)
  PROVE  LedgerInv'
<1>1. /\ clock' = clock + 1 /\ dead' = dead \ {c} /\ reported' = reported \cup {c} /\ watching = TRUE
      /\ incident' = IF incident # Never /\ incident.circuit = c /\ incident.end = Never
                     THEN [incident EXCEPT !.end = clock + 1] ELSE incident
      /\ openTrips' = [openTrips EXCEPT ![c] = Never]
      /\ trips' = IF openTrips[c] = Never THEN trips ELSE Ended(trips, c, openTrips[c], clock + 1)
      /\ returns' = [returns EXCEPT ![c] = @ \cup {clock + 1}]
      /\ UNCHANGED <<watching, held, file, handler, writer, writes>>
  BY DEF ReportsLive, ReadsLive, OfIncident, LedgerInv, Types
<1>2. /\ clock \in Nat /\ clock + 1 \in Nat /\ clock < clock + 1 /\ clock + 1 # Never
  BY NextReading
<1>3. /\ trips \in Seq(Trip) /\ openTrips \in [Breakers -> Stamp]
      /\ returns \in [Breakers -> SUBSET Nat]
      /\ Past(trips, clock, dead, returns, incident)
  BY DEF LedgerInv, Types
<1>4. Increasing(trips)
  BY <1>3 DEF Past, Increasing
<1>5. /\ trips' \in Seq(Trip) /\ DOMAIN trips' = DOMAIN trips
      /\ \A i \in DOMAIN trips :
           trips'[i] = IF trips[i].circuit = c /\ trips[i].start = openTrips[c] /\ trips[i].end = Never
                       THEN [trips[i] EXCEPT !.end = clock + 1] ELSE trips[i]
  <2>1. CASE openTrips[c] = Never
    <3>1. \A i \in DOMAIN trips : trips[i].start # openTrips[c]
      BY <1>3, <2>1, TripType, Bounds
    <3> QED
      BY <1>1, <1>3, <2>1, <3>1
  <2>2. CASE openTrips[c] # Never
    BY <1>1, <1>2, <1>3, <1>4, <2>2, EndedFacts, SMTT(30)
  <2> QED
    BY <2>1, <2>2
<1>6. incident' # Never =>
        /\ incident # Never
        /\ incident' \in Incident /\ incident'.start \in Nat /\ incident'.start <= clock + 1
        /\ incident'.start = incident.start /\ incident'.circuit = incident.circuit
        /\ IF incident'.end = Never THEN incident'.circuit \in dead'
           ELSE incident'.start < incident'.end /\ incident'.end <= clock + 1
  <2> SUFFICES ASSUME incident' # Never
               PROVE  /\ incident # Never
                      /\ incident' \in Incident /\ incident'.start \in Nat
                      /\ incident'.start <= clock + 1
                      /\ incident'.start = incident.start /\ incident'.circuit = incident.circuit
                      /\ IF incident'.end = Never THEN incident'.circuit \in dead'
                         ELSE incident'.start < incident'.end /\ incident'.end <= clock + 1
    OBVIOUS
  <2>1. incident # Never
    BY <1>1
  <2>2. /\ incident \in Incident /\ incident.start <= clock /\ incident.start \in Nat
        /\ incident.end = Never \/ incident.end \in Nat
        /\ IF incident.end = Never THEN incident.circuit \in dead
           ELSE incident.start < incident.end /\ incident.end <= clock
    BY <2>1 DEF LedgerInv, Types, Watch, Incident, Stamp
  <2>3. CASE incident.circuit = c /\ incident.end = Never
    <3>1. incident' = [incident EXCEPT !.end = clock + 1]
      BY <1>1, <2>1, <2>3
    <3>2. /\ incident' \in Incident /\ incident'.start = incident.start
          /\ incident'.circuit = incident.circuit /\ incident'.end = clock + 1
      BY <1>2, <2>2, <3>1 DEF Incident, Stamp
    <3> QED
      BY <1>2, <2>1, <2>2, <3>2
  <2>4. CASE ~(incident.circuit = c /\ incident.end = Never)
    <3>1. incident' = incident
      BY <1>1, <2>4
    <3>2. incident.end = Never => incident.circuit \in dead'
      BY <1>1, <2>2, <2>4
    <3> QED
      BY <1>2, <2>1, <2>2, <3>1, <3>2
  <2> QED
    BY <2>3, <2>4
<1>7. Types'
  <2>1. dead' \subseteq Breakers /\ reported' \subseteq Breakers
    BY <1>1 DEF LedgerInv, Types
  <2>2. openTrips' \in [Breakers -> Stamp] /\ returns' \in [Breakers -> SUBSET Nat]
    BY <1>1, <1>2, <1>3 DEF Stamp
  <2> QED
    BY <1>1, <1>2, <1>5, <1>6, <2>1, <2>2 DEF LedgerInv, Types, HandlerOK, WriterOK
<1>8. \A d \in Breakers : /\ returns[d] \subseteq Nat /\ \A r \in returns[d] : r <= clock
                          /\ d # c => returns'[d] = returns[d]
                          /\ returns'[c] = returns[c] \cup {clock + 1}
  BY <1>1, <1>3 DEF LedgerInv, Watch
<1>9. Watch'
  <2>1. \A d \in Breakers : \A r \in returns'[d] : r <= clock + 1
    <3> SUFFICES ASSUME NEW d \in Breakers, NEW r \in returns'[d] PROVE r <= clock + 1
      OBVIOUS
    <3>1. r = clock + 1 \/ (r \in Nat /\ r <= clock)
      BY <1>8
    <3> QED
      BY <1>2, <3>1
  <2>2. \A d \in reported' \ dead' : openTrips'[d] = Never
    BY <1>1, <1>3 DEF LedgerInv, Types, Watch
  <2> QED
    BY <1>1, <1>6, <2>1, <2>2 DEF Watch
<1>10. Passes(clock, dead, returns, clock', dead', returns')
  <2> SUFFICES ASSUME NEW d \in Breakers
               PROVE  /\ returns[d] \subseteq returns'[d]
                      /\ \A r \in returns[d] : r \in Nat /\ r <= clock
                      /\ \A r \in returns'[d] : r \in Nat /\ (r \in returns[d] \/ r > clock)
                      /\ d \in dead => d \in dead' \/ \E r \in returns'[d] : r > clock
    BY <1>1, <1>2 DEF Passes
  <2>1. CASE d = c
    BY <1>2, <1>8, <2>1
  <2>2. CASE d # c
    BY <1>1, <1>8, <2>2
  <2> QED
    BY <2>1, <2>2
<1>11. Continues(incident, incident', clock, dead) /\ (incident' # Never => incident'.start \in Nat)
  BY <1>6 DEF Continues
<1>12. Past(trips, clock', dead', returns', incident') /\ Past(file, clock', dead', returns', incident')
  BY <1>3, <1>10, <1>11, PastPasses, SameIsAlike DEF LedgerInv, Types
<1>13. Past(trips, clock, dead, returns, incident)'
  <2>1. \A i \in DOMAIN trips : trips'[i] = trips[i] \/ EndsNow(trips[i], trips'[i], clock', returns')
    <3> SUFFICES ASSUME NEW i \in DOMAIN trips,
                        trips[i].circuit = c, trips[i].start = openTrips[c], trips[i].end = Never
                 PROVE  EndsNow(trips[i], trips'[i], clock', returns')
      BY <1>5
    <3>1. trips[i].noted \in Nat /\ trips[i].noted <= clock
      BY <1>3, TripType DEF Past, TripOK
    <3>2. trips'[i] = [trips[i] EXCEPT !.end = clock']
      BY <1>1, <1>5
    <3>3. clock' \in returns'[c] /\ trips[i].noted < clock'
      BY <1>1, <1>2, <1>8, <3>1
    <3>4. ~trips[i].missed => \A r \in returns'[c] : r > trips[i].noted => clock' <= r
      <4> SUFFICES ASSUME ~trips[i].missed, NEW r \in returns'[c], r > trips[i].noted
                   PROVE  clock' <= r
        OBVIOUS
      <4>1. ~Gone(trips[i], returns)
        BY DEF LedgerInv, Followed
      <4>2. r \notin returns[c]
        BY <4>1 DEF Gone
      <4> QED
        BY <1>1, <1>2, <1>8, <4>2
    <3> QED
      BY <3>2, <3>3, <3>4 DEF EndsNow
  <2>2. clock' \in Nat
    BY <1>1, <1>2
  <2> QED
    BY <1>3, <1>5, <1>12, <2>1, <2>2, PastEnds
<1>14. Past(file, clock, dead, returns, incident)'
  BY <1>1, <1>12
<1>15. Shown(trips)' /\ Shown(file)'
  <2>1. ASSUME NEW i \in DOMAIN trips
        PROVE  trips'[i].outage = trips[i].outage /\ trips'[i].suspected = trips[i].suspected
    <3>1. PICK t \in Trip : t = trips[i]
      BY <1>3
    <3>2. trips'[i] = t \/ trips'[i] = [t EXCEPT !.end = clock + 1]
      BY <1>5, <3>1
    <3> QED
      BY <3>1, <3>2 DEF Trip
  <2> QED
    BY <1>1, <1>5, <2>1 DEF LedgerInv, Shown
<1>16. Followed(trips, openTrips, returns, watching)'
  <2>1. Followed(trips, openTrips, returns, TRUE)
    BY <1>1 DEF LedgerInv
  <2>2. Followed(trips', [openTrips EXCEPT ![c] = Never],
                 [returns EXCEPT ![c] = @ \cup {clock + 1}], TRUE)
    BY <1>2, <1>3, <1>5, <2>1, FollowedEnds
  <2> QED
    BY <1>1, <2>2
<1> QED
  BY <1>7, <1>9, <1>13, <1>14, <1>15, <1>16 DEF LedgerInv

\* The circuit changes unseen: a trip it leaves behind is marked.
LEMMA ChangesUnseenKeeps ==
  ASSUME LedgerInv, NEW c \in Breakers, ChangesUnseen(c)
  PROVE  LedgerInv'
<1>1. /\ watching = FALSE /\ clock' = clock + 1
      /\ dead' = IF c \in dead THEN dead \ {c} ELSE dead \cup {c}
      /\ returns' = IF c \in dead THEN [returns EXCEPT ![c] = @ \cup {clock + 1}] ELSE returns
      /\ trips' = MarkMissed(trips, returns') /\ file' = MarkMissed(file, returns')
      /\ UNCHANGED <<reported, watching, incident, openTrips, held, handler, writer, writes>>
  BY DEF ChangesUnseen, LedgerInv, Types
<1>2. /\ clock \in Nat /\ clock + 1 \in Nat /\ clock < clock + 1 /\ clock + 1 # Never
  BY NextReading
<1>3. /\ trips \in Seq(Trip) /\ file \in Seq(Trip) /\ returns \in [Breakers -> SUBSET Nat]
      /\ incident = Never /\ reported = {}
  BY <1>1 DEF LedgerInv, Types, Watch
<1>5. /\ trips' \in Seq(Trip) /\ AlikeSeqs(trips, trips') /\ Shown(trips')
      /\ Followed(trips', openTrips, returns', FALSE)
  BY <1>1, <1>3, Marked DEF LedgerInv
<1>6. file' \in Seq(Trip) /\ AlikeSeqs(file, file') /\ Shown(file')
  BY <1>1, <1>3, Marked DEF LedgerInv
<1>7. \A d \in Breakers : /\ returns[d] \subseteq Nat /\ \A r \in returns[d] : r <= clock
                          /\ d # c \/ c \notin dead => returns'[d] = returns[d]
                          /\ c \in dead => returns'[c] = returns[c] \cup {clock + 1}
  BY <1>1, <1>3 DEF LedgerInv, Watch
<1>8. Types'
  <2>1. dead' \subseteq Breakers
    BY <1>1 DEF LedgerInv, Types
  <2>2. returns' \in [Breakers -> SUBSET Nat]
    BY <1>1, <1>2, <1>3
  <2> QED
    BY <1>1, <1>2, <1>5, <1>6, <2>1, <2>2 DEF LedgerInv, Types, HandlerOK, WriterOK
<1>9. Watch'
  <2>1. \A d \in Breakers : \A r \in returns'[d] : r <= clock + 1
    <3> SUFFICES ASSUME NEW d \in Breakers, NEW r \in returns'[d] PROVE r <= clock + 1
      OBVIOUS
    <3>1. r = clock + 1 \/ (r \in Nat /\ r <= clock)
      BY <1>7
    <3> QED
      BY <1>2, <3>1
  <2> QED
    BY <1>1, <1>3, <2>1 DEF Watch
<1>10. Passes(clock, dead, returns, clock', dead', returns')
  <2> SUFFICES ASSUME NEW d \in Breakers
               PROVE  /\ returns[d] \subseteq returns'[d]
                      /\ \A r \in returns[d] : r \in Nat /\ r <= clock
                      /\ \A r \in returns'[d] : r \in Nat /\ (r \in returns[d] \/ r > clock)
                      /\ d \in dead => d \in dead' \/ \E r \in returns'[d] : r > clock
    BY <1>1, <1>2 DEF Passes
  <2>1. CASE d = c /\ c \in dead
    BY <1>2, <1>7, <2>1
  <2>2. CASE d # c \/ c \notin dead
    BY <1>1, <1>7, <2>2
  <2> QED
    BY <2>1, <2>2
<1>11. Continues(incident, incident', clock, dead) /\ incident' = Never
  BY <1>1, <1>3 DEF Continues
<1>12. Past(trips', clock', dead', returns', incident')
  BY <1>3, <1>5, <1>10, <1>11, PastPasses DEF LedgerInv
<1>13. Past(file', clock', dead', returns', incident')
  BY <1>3, <1>6, <1>10, <1>11, PastPasses DEF LedgerInv
<1>14. Followed(trips, openTrips, returns, watching)'
  BY <1>1, <1>5
<1> QED
  BY <1>5, <1>6, <1>8, <1>9, <1>12, <1>13, <1>14 DEF LedgerInv

-----------------------------------------------------------------------------
(* Trips recorded and amended.                                             *)

\* The trip of an incident comes after all others, and is followed while it has no end.
LEMMA AcceptKeeps ==
  ASSUME LedgerInv, NEW confirmed \in SUBSET Entities, NEW suspected \in SUBSET Entities,
         AcceptIncident(confirmed, suspected)
  PROVE  LedgerInv'
<1> DEFINE t == NewTrip(confirmed, suspected)
           from == clock - LOOKBACK
           k == StartedSince(trips, from)
<1>1. /\ incident # Never /\ incident' = Never
      /\ openTrips' = IF incident.end = Never
                      THEN [openTrips EXCEPT ![incident.circuit] = incident.start] ELSE openTrips
      /\ trips' = Append(k, t)
      /\ UNCHANGED <<clock, dead, reported, watching, held, file, writer, writes, returns>>
  BY DEF AcceptIncident, Closes, Recorded
<1>2. handler' = [circuit |-> incident.circuit, existing |-> Never,
                  todo |-> DevicesOf(confirmed \cup suspected),
                  casualties |-> confirmed \cup suspected]
  BY DEF AcceptIncident
<1>3. /\ incident \in Incident /\ incident.circuit \in Breakers /\ incident.start \in Nat
      /\ incident.end \in Stamp /\ clock \in Nat /\ trips \in Seq(Trip)
      /\ openTrips \in [Breakers -> Stamp] /\ returns \in [Breakers -> SUBSET Nat]
  BY <1>1 DEF LedgerInv, Types, Incident
<1>4. /\ incident.start <= clock
      /\ IF incident.end = Never THEN incident.circuit \in dead
         ELSE incident.start < incident.end /\ incident.end <= clock
      /\ \A c \in Breakers : \A r \in returns[c] : r <= clock
  BY <1>1 DEF LedgerInv, Watch
<1>5. /\ t \in Trip /\ t.outage = NoOutage /\ TripOf(t, incident, clock)
  <2>1. NoOutage \in Outage
    BY DEF NoOutage, Outage
  <2> QED
    BY <1>3, <2>1 DEF NewTrip, Trip, TripOf
<1>6. from \in Int
  BY <1>3, Bounds
<1>7. Past(trips, clock, dead, returns, incident) /\ Increasing(trips)
  BY DEF LedgerInv, Past, Increasing
<1> HIDE DEF t, from
<1>8. Selection(k, trips, from, Len(trips))
  BY <1>3, <1>7, StartedSinceSelects
<1> HIDE DEF k
<1>9. trips' \in Seq(Trip) /\ Past(trips', clock, dead, returns, Never)
  BY <1>1, <1>3, <1>4, <1>5, <1>7, <1>8, PastRecords
<1>10. Types'
  <2>1. handler' \in Handler /\ handler'.todo \subseteq DevicesOf(handler'.casualties)
    <3>1. DevicesOf(confirmed \cup suspected) \subseteq DevicesOf(Entities)
      BY DEF DevicesOf
    <3> QED
      BY <1>2, <1>3, <3>1 DEF Handler
  <2>2. openTrips' \in [Breakers -> Stamp]
    BY <1>1, <1>3 DEF Stamp
  <2>3. HandlerOK' /\ WriterOK'
    BY <1>1, <2>1 DEF LedgerInv, Types, HandlerOK, WriterOK
  <2> QED
    BY <1>1, <1>9, <2>2, <2>3 DEF LedgerInv, Types
<1>11. Watch'
  <2>1. \A c \in reported \ dead : openTrips'[c] = Never
    <3> SUFFICES ASSUME NEW c \in reported \ dead PROVE openTrips'[c] = Never
      OBVIOUS
    <3>1. openTrips[c] = Never /\ c \in Breakers
      BY DEF LedgerInv, Types, Watch
    <3>2. incident.end = Never => c # incident.circuit
      BY <1>4
    <3> QED
      BY <1>1, <1>3, <3>1, <3>2
  <2> QED
    BY <1>1, <2>1 DEF LedgerInv, Watch
<1>12. Past(file, clock, dead, returns, incident)'
  BY <1>1 DEF LedgerInv, Past
<1>13. Shown(trips') /\ Shown(file')
  <2>1. k \in Seq(Trip) /\ t \in Trip
    BY <1>5, <1>8 DEF Selection
  <2>2. OnePlace(t.outage) /\ t.outage.casualties \subseteq t.suspected
    BY <1>5 DEF OnePlace, NoOutage
  <2>3. \A j \in DOMAIN k : OnePlace(k[j].outage) /\ k[j].outage.casualties \subseteq k[j].suspected
    <3>1. DOMAIN trips = 1 .. Len(trips)
      BY <1>3
    <3> QED
      BY <1>8, <3>1 DEF LedgerInv, Shown, Selection
  <2>4. \A i \in DOMAIN trips' : trips'[i] = t \/ (i \in DOMAIN k /\ trips'[i] = k[i])
    BY <1>1, <2>1
  <2>5. Shown(trips')
    BY <2>2, <2>3, <2>4 DEF Shown
  <2> QED
    BY <1>1, <2>5 DEF LedgerInv
<1>14. Followed(trips, openTrips, returns, watching)'
  <2>1. Followed(trips, openTrips, returns, watching)
    BY DEF LedgerInv
  <2>2. Followed(Append(k, t),
                 IF incident.end = Never
                 THEN [openTrips EXCEPT ![incident.circuit] = incident.start] ELSE openTrips,
                 returns, watching)
    BY <1>1, <1>3, <1>4, <1>5, <1>6, <1>7, <1>8, <2>1, FollowedRecords
  <2> QED
    BY <1>1, <2>2
<1> QED
  BY <1>1, <1>9, <1>10, <1>11, <1>12, <1>13, <1>14 DEF LedgerInv

\* What an amendment leaves of a trip, and what it shows of its devices.
LEMMA AmendmentFacts ==
  ASSUME NEW t \in Trip, NEW evidence \in Outage,
         t.outage.casualties \subseteq t.suspected
  PROVE  LET u == Amendment(t, evidence)
         IN  /\ Alike(t, u) /\ u.missed = t.missed
             /\ OnePlace(u.outage) /\ u.outage.casualties \subseteq u.suspected
             /\ \A key : Rank(u.outage, key) >= Rank(t.outage, key)
<1> DEFINE u == Amendment(t, evidence)
<1>1. /\ u.circuit = t.circuit /\ u.start = t.start /\ u.noted = t.noted /\ u.end = t.end
      /\ u.missed = t.missed /\ u.outage = Merged(t.outage, evidence)
      /\ u.suspected = t.suspected \cup evidence.casualties
  BY DEF Amendment, Trip
<1>2. t.outage \in Outage
  BY DEF Trip
<1> HIDE DEF u
<1>3. /\ OnePlace(u.outage)
      /\ u.outage.casualties = t.outage.casualties \cup evidence.casualties
      /\ \A key : Rank(u.outage, key) >= Rank(t.outage, key)
  BY <1>1, <1>2, MergedFacts
<1>4. Alike(t, u)
  BY <1>1 DEF Alike
<1> QED
  BY <1>1, <1>3, <1>4 DEF u

\* Evidence is written to a trip: when it began and ended stays as it was.
LEMMA AmendTripKeeps ==
  ASSUME LedgerInv, AmendTrip
  PROVE  LedgerInv'
<1>1. /\ writer \in Writer /\ writer.evidence \in Outage
      /\ trips' = Amended(trips, writer.circuit, writer.start, writer.evidence)
      /\ writer' = Never
      /\ UNCHANGED <<clock, dead, reported, watching, incident, openTrips, held, file,
                     handler, writes, returns>>
  BY DEF AmendTrip, LedgerInv, Types, WriterOK, Writer
<1>2. trips \in Seq(Trip) /\ Past(trips, clock, dead, returns, incident) /\ Shown(trips)
  BY DEF LedgerInv, Types
<1>3. Increasing(trips)
  BY <1>2 DEF Past, Increasing
<1>4. /\ trips' \in Seq(Trip) /\ DOMAIN trips' = DOMAIN trips
      /\ \A i \in DOMAIN trips :
           trips'[i] = IF trips[i].circuit = writer.circuit /\ trips[i].start = writer.start
                       THEN Amendment(trips[i], writer.evidence) ELSE trips[i]
  BY <1>1, <1>2, <1>3, AmendedFacts
<1>5. ASSUME NEW i \in DOMAIN trips
      PROVE  /\ Alike(trips[i], trips'[i]) /\ trips'[i].missed = trips[i].missed
             /\ OnePlace(trips'[i].outage)
             /\ trips'[i].outage.casualties \subseteq trips'[i].suspected
  <2>1. PICK t \in Trip : t = trips[i]
    BY <1>2
  <2>2. OnePlace(t.outage) /\ t.outage.casualties \subseteq t.suspected
    BY <1>2, <2>1 DEF Shown
  <2>3. CASE trips'[i] = Amendment(t, writer.evidence)
    BY <1>1, <2>1, <2>2, <2>3, AmendmentFacts
  <2>4. CASE trips'[i] = t
    BY <2>1, <2>2, <2>4 DEF Alike
  <2> QED
    BY <1>4, <2>1, <2>3, <2>4
<1>6. Types'
  BY <1>1, <1>4 DEF LedgerInv, Types, HandlerOK, WriterOK
<1>7. Watch'
  BY <1>1 DEF LedgerInv, Watch
<1>8. Past(trips, clock, dead, returns, incident)'
  <2>1. AlikeSeqs(trips, trips')
    BY <1>4, <1>5 DEF AlikeSeqs
  <2>2. Continues(incident, incident, clock, dead) /\ (incident # Never => incident.start \in Nat)
    BY DEF Continues, LedgerInv, Types, Incident
  <2>3. Past(trips', clock, dead, returns, incident)
    BY <1>2, <1>4, <2>1, <2>2, StaysTheSame, PastPasses
  <2> QED
    BY <1>1, <2>3
<1>9. Past(file, clock, dead, returns, incident)'
  BY <1>1 DEF LedgerInv
<1>10. Shown(trips)' /\ Shown(file)'
  BY <1>1, <1>4, <1>5 DEF LedgerInv, Shown
<1>11. Followed(trips, openTrips, returns, watching)'
  <2>1. ASSUME NEW i \in DOMAIN trips
        PROVE  /\ trips'[i].circuit = trips[i].circuit /\ trips'[i].start = trips[i].start
               /\ trips'[i].end = trips[i].end /\ trips'[i].missed = trips[i].missed
               /\ Gone(trips'[i], returns) <=> Gone(trips[i], returns)
               /\ LastOf(trips', i) <=> LastOf(trips, i)
    BY <1>4, <1>5 DEF Alike, Gone, LastOf
  <2> QED
    BY <1>1, <1>4, <2>1 DEF LedgerInv, Followed
<1> QED
  BY <1>6, <1>7, <1>8, <1>9, <1>10, <1>11 DEF LedgerInv

-----------------------------------------------------------------------------
(* The watch stops and starts.                                             *)

\* The watch stops, and what it holds is saved.
LEMMA UnloadsKeeps ==
  ASSUME LedgerInv, Unloads
  PROVE  LedgerInv'
<1>1. /\ watching' = FALSE /\ incident' = Never /\ handler' = Never /\ writer' = Never
      /\ openTrips' = [c \in Breakers |-> Never] /\ reported' = {} /\ file' = trips
      /\ UNCHANGED <<clock, dead, trips, held, writes, returns>>
  BY DEF Unloads, Stops
<1>2. Types'
  <2>1. openTrips' \in [Breakers -> Stamp]
    BY <1>1 DEF Stamp
  <2> QED
    BY <1>1, <2>1 DEF LedgerInv, Types, HandlerOK, WriterOK
<1>3. Watch'
  BY <1>1 DEF LedgerInv, Watch
<1>4. Past(trips, clock, dead, returns, incident)' /\ Past(file, clock, dead, returns, incident)'
  BY <1>1 DEF LedgerInv, Past
<1>5. Shown(trips)' /\ Shown(file)'
  BY <1>1 DEF LedgerInv
<1>6. Followed(trips, openTrips, returns, watching)'
  BY <1>1 DEF LedgerInv, Followed
<1> QED
  BY <1>2, <1>3, <1>4, <1>5, <1>6 DEF LedgerInv

\* The trips are those of the file again: an end that was not saved is missed.
LEMMA CrashesKeeps ==
  ASSUME LedgerInv, Crashes
  PROVE  LedgerInv'
<1>1. /\ watching' = FALSE /\ incident' = Never /\ handler' = Never /\ writer' = Never
      /\ openTrips' = [c \in Breakers |-> Never] /\ reported' = {}
      /\ trips' = MarkMissed(file, returns) /\ file' = trips'
      /\ UNCHANGED <<clock, dead, held, writes, returns>>
  BY DEF Crashes, Stops
<1>2. file \in Seq(Trip) /\ Shown(file) /\ Past(file, clock, dead, returns, incident)
  BY DEF LedgerInv, Types
<1>3. /\ trips' \in Seq(Trip) /\ AlikeSeqs(file, trips') /\ Shown(trips')
      /\ Followed(trips', openTrips', returns, FALSE)
  BY <1>1, <1>2, Marked
<1>4. Types'
  <2>1. openTrips' \in [Breakers -> Stamp]
    BY <1>1 DEF Stamp
  <2> QED
    BY <1>1, <1>3, <2>1 DEF LedgerInv, Types, HandlerOK, WriterOK
<1>5. Watch'
  BY <1>1 DEF LedgerInv, Watch
<1>6. Past(trips', clock, dead, returns, Never)
  <2>1. Continues(incident, Never, clock, dead)
    BY DEF Continues
  <2> QED
    BY <1>2, <1>3, <2>1, StaysTheSame, PastPasses
<1> QED
  BY <1>1, <1>3, <1>4, <1>5, <1>6 DEF LedgerInv

\* The watch takes up the trips that have no end.
LEMMA StartsKeeps ==
  ASSUME LedgerInv, Starts
  PROVE  LedgerInv'
<1>1. /\ watching = FALSE /\ watching' = TRUE /\ openTrips' = OpenFrom(trips)
      /\ UNCHANGED <<clock, dead, reported, incident, trips, held, file, handler, writer,
                     writes, returns>>
  BY DEF Starts, LedgerInv, Types
<1>2. trips \in Seq(Trip) /\ incident = Never /\ reported = {}
  BY <1>1 DEF LedgerInv, Types, Watch
<1>3. OpenFrom(trips) \in [Breakers -> Stamp]
  <2>1. DOMAIN trips = 1 .. Len(trips) /\ Len(trips) \in Nat
    BY <1>2
  <2>2. ASSUME NEW c \in Breakers,
               NEW T, T = {i \in DOMAIN trips : trips[i].circuit = c /\ trips[i].end = Never}
        PROVE  (IF T = {} THEN Never ELSE trips[Max(T)].start) \in Stamp
    <3>1. T # {} => Max(T) \in DOMAIN trips
      BY <2>1, <2>2, Greatest
    <3> QED
      BY <1>2, <3>1, TripType DEF Stamp
  <2> QED
    BY <2>2 DEF OpenFrom
<1>4. Types'
  BY <1>1, <1>3 DEF LedgerInv, Types, HandlerOK, WriterOK
<1>5. Watch'
  BY <1>1, <1>2 DEF LedgerInv, Watch
<1>6. Followed(trips, OpenFrom(trips), returns, TRUE)
  BY <1>1, <1>2, FollowedStarts DEF LedgerInv
<1> QED
  BY <1>1, <1>4, <1>5, <1>6 DEF LedgerInv

-----------------------------------------------------------------------------
(* The theorems.                                                           *)

\* Every step keeps the invariant.
LEMMA LedgerStepKeeps ==
  LedgerInv /\ [LedgerNext]_ledger => LedgerInv'
<1> SUFFICES ASSUME LedgerInv, [LedgerNext]_ledger PROVE LedgerInv'
  OBVIOUS
<1>1. CASE \E c \in Breakers : ReportsDead(c) \/ ReportsLive(c) \/ ChangesUnseen(c)
  BY <1>1, ReportsDeadKeeps, ReportsLiveKeeps, ChangesUnseenKeeps
<1>2. CASE RefuseIncident
  BY <1>2, RefuseKeeps
<1>3. CASE \E confirmed, suspected \in SUBSET Entities :
             confirmed \cap suspected = {} /\ AcceptIncident(confirmed, suspected)
  BY <1>3, AcceptKeeps
<1>4. CASE ReadRows
  BY <1>4, ReadRowsKeeps
<1>5. CASE \E d \in DevicesOf(Entities) : RecordDevice(d)
  BY <1>5, RecordDeviceKeeps
<1>6. CASE HandlerEnds
  BY <1>6, HandlerEndsKeeps
<1>7. CASE \E i \in DOMAIN trips, cas, ans, ind, rec \in SUBSET DevicesOf(Entities) :
             BeginOutage(i, cas, ans, ind, rec)
  BY <1>7, BeginOutageKeeps
<1>8. CASE \E e \in Entities : RecordCasualty(e) \/ OthersRecord(e) \/ OthersForget(e)
  BY <1>8, RecordCasualtyKeeps, OthersKeep
<1>9. CASE AmendTrip
  BY <1>9, AmendTripKeeps
<1>10. CASE Save
  BY <1>10, SaveKeeps
<1>11. CASE Unloads
  BY <1>11, UnloadsKeeps
<1>12. CASE Crashes
  BY <1>12, CrashesKeeps
<1>13. CASE Starts
  BY <1>13, StartsKeeps
<1>14. CASE UNCHANGED ledger
  BY <1>14, LedgerStutterKeeps
<1> QED
  BY <1>1, <1>2, <1>3, <1>4, <1>5, <1>6, <1>7, <1>8, <1>9, <1>10, <1>11, <1>12, <1>13, <1>14
  DEF LedgerNext

\* The invariant holds throughout: trips in order, their ends at their returns, and the
\* watch following each trip whose return it can still see.
THEOREM LedgerInvariant == LedgerSpec => []LedgerInv
BY InitLedgerInv, LedgerStepKeeps, PTL DEF LedgerSpec

\* The store's state has its types, and each key of an outage has one place.
THEOREM LedgerTypes == LedgerSpec => []LedgerTypeOK
<1>1. LedgerInv => LedgerTypeOK
  BY DEF LedgerInv, Types, Shown, LedgerTypeOK, OnePlacePerKey, Incident
<1> QED
  BY <1>1, LedgerInvariant, PTL

\* A trip without an end whose return the watch saw has not returned.
LEMMA InvEndsAtItsReturn ==
  LedgerInv => EndsAtItsReturn
<1> SUFFICES ASSUME LedgerInv, NEW i \in DOMAIN trips, ~trips[i].missed,
                    NEW later, later = {r \in returns[trips[i].circuit] : r > trips[i].noted}
             PROVE  IF trips[i].end = Never THEN later = {}
                    ELSE IF trips[i].end > trips[i].noted THEN trips[i].end = Min(later)
                    ELSE trips[i].start < trips[i].end
  BY DEF EndsAtItsReturn
<1>1. /\ trips \in Seq(Trip) /\ returns \in [Breakers -> SUBSET Nat]
      /\ TripOK(trips[i], clock, dead, returns)
  BY DEF LedgerInv, Types, Past
<1>2. /\ trips[i].circuit \in Breakers /\ later \subseteq Nat
      /\ trips[i].end = Never \/ trips[i].end \in Nat
  BY <1>1, TripType
<1>3. CASE trips[i].end = Never
  <2>1. ~Gone(trips[i], returns)
    BY <1>3 DEF LedgerInv, Followed
  <2> QED
    BY <1>3, <2>1 DEF Gone
<1>4. CASE trips[i].end # Never
  <2>1. EndedRight(trips[i], returns)
    BY <1>1, <1>4 DEF TripOK
  <2>2. CASE trips[i].end > trips[i].noted
    <3>1. trips[i].end \in later /\ \A r \in later : trips[i].end <= r
      BY <2>1, <2>2 DEF EndedRight
    <3>2. Min(later) \in later /\ Min(later) <= trips[i].end
      BY <1>2, <3>1, Least
    <3>3. trips[i].end \in Nat /\ Min(later) \in Nat /\ trips[i].end <= Min(later)
      BY <1>2, <1>4, <3>1, <3>2
    <3>4. trips[i].end = Min(later)
      BY <3>2, <3>3
    <3> QED
      BY <1>4, <2>2, <3>4
  <2>3. CASE ~(trips[i].end > trips[i].noted)
    BY <1>4, <2>1, <2>3 DEF EndedRight
  <2> QED
    BY <2>2, <2>3
<1> QED
  BY <1>3, <1>4

\* A trip without an end that is its circuit's last is followed, and the circuit is dead.
LEMMA InvLastTripIsOver ==
  LedgerInv => LiveCircuitsLastTripIsOver
<1> SUFFICES ASSUME LedgerInv, NEW c \in reported \ dead, NEW i \in DOMAIN trips,
                    trips[i].circuit = c, \A j \in DOMAIN trips : j > i => trips[j].circuit # c,
                    trips[i].end = Never
             PROVE  FALSE
  BY DEF LiveCircuitsLastTripIsOver
<1>1. watching = TRUE
  BY DEF LedgerInv, Types, Watch
<1>2. openTrips[c] = trips[i].start
  BY <1>1 DEF LedgerInv, Followed, LastOf
<1>3. openTrips[c] = Never
  BY DEF LedgerInv, Watch
<1>4. trips[i].start \in Nat
  BY TripType DEF LedgerInv, Types
<1> QED
  BY <1>2, <1>3, <1>4, Bounds

\* A trip recorded while its circuit was dead ends at the circuit's next live reading,
\* across restarts and crashes: async_start takes the last trip without an end of each
\* circuit, and async_end_trip ends the one that is followed.
THEOREM TripsComeToAnEnd == LedgerSpec => []TripsEnd
<1>1. LedgerInv => TripsEnd
  BY InvEndsAtItsReturn, InvLastTripIsOver DEF TripsEnd
<1> QED
  BY <1>1, LedgerInvariant, PTL

\* No trip of us shows less than the trip of ts that started when it did.
NoneWeakens(ts, us) ==
  \A i \in DOMAIN ts, j \in DOMAIN us : ts[i].start = us[j].start =>
    \A e \in Entities : Rank(us[j].outage, e) >= Rank(ts[i].outage, e)

\* Trips changed where they are, without what they show becoming less.
LEMMA RanksInPlace ==
  ASSUME NEW ts \in Seq(Trip), Increasing(ts), NEW us, DOMAIN us = DOMAIN ts,
         \A i \in DOMAIN ts : /\ us[i].start = ts[i].start
                              /\ \A e \in Entities : Rank(us[i].outage, e) >= Rank(ts[i].outage, e)
  PROVE  NoneWeakens(ts, us)
<1> SUFFICES ASSUME NEW i \in DOMAIN ts, NEW j \in DOMAIN us, ts[i].start = us[j].start
             PROVE  i = j
  BY DEF NoneWeakens
<1>1. i \in Nat /\ j \in Nat /\ j \in DOMAIN ts
  OBVIOUS
<1>2. ts[i].start \in Nat /\ ts[j].start = ts[i].start
  BY <1>1, TripType
<1>3. ~(i < j) /\ ~(j < i)
  BY <1>1, <1>2 DEF Increasing
<1> QED
  BY <1>1, <1>3

\* A place is no weaker than itself.
LEMMA RankStays ==
  \A o, e : Rank(o, e) >= Rank(o, e)
BY DEF Rank

\* Trips that did not change do not show less.
LEMMA SameNoWeaker ==
  ASSUME NEW ts \in Seq(Trip), Increasing(ts)
  PROVE  NoneWeakens(ts, ts)
BY RanksInPlace, RankStays

\* A write merges into the trip it is for, and a trip recorded is a new one.
LEMMA StepNoWeaker ==
  ASSUME LedgerInv, [LedgerNext]_ledger, watching'
  PROVE  NoneWeakens(trips, trips')
<1>1. trips \in Seq(Trip) /\ Past(trips, clock, dead, returns, incident) /\ Shown(trips)
  BY DEF LedgerInv, Types
<1>2. Increasing(trips)
  BY <1>1 DEF Past, Increasing
<1>3. CASE UNCHANGED trips
  BY <1>1, <1>2, <1>3, SameNoWeaker
<1>4. ASSUME NEW c \in Breakers, ReportsLive(c) PROVE NoneWeakens(trips, trips')
  <2>1. CASE openTrips[c] = Never
    BY <1>3, <1>4, <2>1 DEF ReportsLive
  <2>2. CASE openTrips[c] # Never
    <3>1. /\ DOMAIN trips' = DOMAIN trips
          /\ \A i \in DOMAIN trips :
               \/ trips'[i] = trips[i]
               \/ trips'[i] = [trips[i] EXCEPT !.end = clock + 1]
      <4>1. trips' = Ended(trips, c, openTrips[c], clock + 1)
        BY <1>4, <2>2 DEF ReportsLive
      <4>2. clock + 1 \in Nat
        BY NextReading
      <4> QED
        BY <1>1, <1>2, <4>1, <4>2, EndedFacts
    <3>2. ASSUME NEW i \in DOMAIN trips
          PROVE  trips'[i].start = trips[i].start /\ trips'[i].outage = trips[i].outage
      <4>1. PICK t \in Trip : t = trips[i]
        BY <1>1
      <4>2. trips'[i] = t \/ trips'[i] = [t EXCEPT !.end = clock + 1]
        BY <3>1, <4>1
      <4> QED
        BY <4>1, <4>2 DEF Trip
    <3> QED
      BY <1>1, <1>2, <3>1, <3>2, RankStays, RanksInPlace
  <2> QED
    BY <2>1, <2>2
<1>5. ASSUME NEW confirmed \in SUBSET Entities, NEW suspected \in SUBSET Entities,
             AcceptIncident(confirmed, suspected)
      PROVE  NoneWeakens(trips, trips')
  <2> DEFINE t == NewTrip(confirmed, suspected)
             k == StartedSince(trips, clock - LOOKBACK)
  <2>1. trips' = Append(k, t) /\ t.start = incident.start /\ incident # Never
    BY <1>5 DEF AcceptIncident, Recorded, NewTrip, Closes
  <2> HIDE DEF t
  <2>2. Selection(k, trips, clock - LOOKBACK, Len(trips))
    BY <1>1, <1>2, StartedSinceSelects
  <2> HIDE DEF k
  <2>3. k \in Seq(Trip)
    BY <2>2 DEF Selection
  <2>4. \A j \in DOMAIN trips' : trips'[j] = t \/ (j \in DOMAIN k /\ trips'[j] = k[j])
    BY <2>1, <2>3
  <2>5. incident.start \in Nat /\ \A i \in DOMAIN trips : trips[i].start < incident.start
    BY <1>1, <2>1 DEF Past, LedgerInv, Types, Incident
  <2> SUFFICES ASSUME NEW i \in DOMAIN trips, NEW j \in DOMAIN trips',
                      trips[i].start = trips'[j].start
               PROVE  \A e \in Entities : Rank(trips'[j].outage, e) >= Rank(trips[i].outage, e)
    BY DEF NoneWeakens
  <2>6. trips[i].start \in Nat
    BY <1>1, TripType
  <2>7. trips'[j] # t
    BY <2>1, <2>5, <2>6
  <2>8. PICK p \in DOMAIN trips : trips'[j] = trips[p]
    <3>1. DOMAIN trips = 1 .. Len(trips)
      BY <1>1
    <3> QED
      BY <2>2, <2>4, <2>7, <3>1 DEF Selection
  <2>9. NoneWeakens(trips, trips)
    BY <1>1, <1>2, SameNoWeaker
  <2> QED
    BY <2>8, <2>9 DEF NoneWeakens
<1>6. CASE AmendTrip
  <2>1. /\ writer.evidence \in Outage
        /\ trips' = Amended(trips, writer.circuit, writer.start, writer.evidence)
    BY <1>6 DEF AmendTrip, LedgerInv, Types, WriterOK, Writer
  <2>2. /\ DOMAIN trips' = DOMAIN trips
        /\ \A i \in DOMAIN trips : \/ trips'[i] = Amendment(trips[i], writer.evidence)
                                   \/ trips'[i] = trips[i]
    BY <1>1, <1>2, <2>1, AmendedFacts
  <2>3. ASSUME NEW i \in DOMAIN trips
        PROVE  /\ trips'[i].start = trips[i].start
               /\ \A e \in Entities : Rank(trips'[i].outage, e) >= Rank(trips[i].outage, e)
    <3>1. PICK t \in Trip : t = trips[i]
      BY <1>1
    <3>2. t.outage.casualties \subseteq t.suspected
      BY <1>1, <3>1 DEF Shown
    <3>3. CASE trips'[i] = Amendment(t, writer.evidence)
      BY <2>1, <3>1, <3>2, <3>3, AmendmentFacts DEF Alike
    <3>4. CASE trips'[i] = t
      BY <3>1, <3>4, RankStays
    <3> QED
      BY <2>2, <3>1, <3>3, <3>4
  <2> QED
    BY <1>1, <1>2, <2>2, <2>3, RanksInPlace
<1>7. CASE (\E c \in Breakers : ChangesUnseen(c)) \/ Crashes
  BY <1>7 DEF ChangesUnseen, Crashes, Stops
<1>8. CASE \E c \in Breakers : ReportsDead(c)
  BY <1>3, <1>8 DEF ReportsDead
<1>9. CASE RefuseIncident \/ ReadRows \/ HandlerEnds \/ Save \/ Unloads \/ Starts
  BY <1>3, <1>9 DEF RefuseIncident, ReadRows, HandlerEnds, Save, Unloads, Starts
<1>10. CASE \E d \in DevicesOf(Entities) : RecordDevice(d)
  BY <1>3, <1>10 DEF RecordDevice
<1>11. CASE \E i \in DOMAIN trips, cas, ans, ind, rec \in SUBSET DevicesOf(Entities) :
              BeginOutage(i, cas, ans, ind, rec)
  BY <1>3, <1>11 DEF BeginOutage
<1>12. CASE \E e \in Entities : RecordCasualty(e) \/ OthersRecord(e) \/ OthersForget(e)
  BY <1>3, <1>12 DEF RecordCasualty, OthersRecord, OthersForget
<1>13. CASE UNCHANGED ledger
  BY <1>3, <1>13 DEF ledger
<1> QED
  BY <1>4, <1>5, <1>6, <1>7, <1>8, <1>9, <1>10, <1>11, <1>12, <1>13 DEF LedgerNext

\* No write takes back what an earlier one showed (merge_outage), and a device that was
\* a casualty stays suspected on its trip (async_amend_trip).
THEOREM NoWriteWeakens == LedgerSpec => PlaceNeverWeakens
<1> DEFINE Strengthens ==
      \A i \in DOMAIN trips, j \in DOMAIN trips' :
        /\ trips[i].circuit = trips'[j].circuit /\ trips[i].start = trips'[j].start
        /\ watching'
        => /\ \A e \in Entities : Rank(trips'[j].outage, e) >= Rank(trips[i].outage, e)
           /\ trips'[j].outage.casualties \subseteq trips'[j].suspected
<1>1. LedgerInv /\ LedgerInv' /\ [LedgerNext]_ledger => Strengthens
  <2> SUFFICES ASSUME LedgerInv, LedgerInv', [LedgerNext]_ledger,
                      NEW i \in DOMAIN trips, NEW j \in DOMAIN trips',
                      trips[i].start = trips'[j].start, watching'
               PROVE  /\ \A e \in Entities : Rank(trips'[j].outage, e) >= Rank(trips[i].outage, e)
                      /\ trips'[j].outage.casualties \subseteq trips'[j].suspected
    OBVIOUS
  <2>1. NoneWeakens(trips, trips')
    BY StepNoWeaker
  <2>2. Shown(trips')
    BY DEF LedgerInv
  <2> QED
    BY <2>1, <2>2 DEF NoneWeakens, Shown
<1>2. LedgerInv /\ LedgerInv' /\ [LedgerNext]_ledger => [Strengthens]_ledger
  BY <1>1
<1> HIDE DEF Strengthens
<1>3. LedgerSpec => [][Strengthens]_ledger
  BY <1>2, LedgerInvariant, PTL DEF LedgerSpec
<1> QED
  BY <1>3 DEF PlaceNeverWeakens, Strengthens

-----------------------------------------------------------------------------
(* The incident, on its own and as the ledger's.                           *)

IncidentInv ==
  /\ clock \in Nat
  /\ incident = Never \/ incident \in Incident
  /\ incident # Never => incident.start <= clock
  /\ EndTellsTheCircuit

\* A dead reading opens an incident or takes back its end: its circuit is dead.
LEMMA ReadsDeadKeeps ==
  ASSUME IncidentInv, NEW c \in Breakers, ReadsDead(c), clock' \in Nat, clock' >= clock
  PROVE  IncidentInv'
<1>1. \A n \in Nat : n # Never
  BY Bounds
<1>2. dead' = dead \cup {c}
  BY DEF ReadsDead
<1>3. CASE incident = Never /\ incident' = NewIncident(c)
  <2>1. incident' = [circuit |-> c, start |-> clock', end |-> Never]
    BY <1>3 DEF NewIncident
  <2> QED
    BY <1>1, <1>2, <2>1 DEF IncidentInv, EndTellsTheCircuit, Incident, Stamp
<1>4. CASE OfIncident(c) /\ incident' = [incident EXCEPT !.end = Never]
  <2>1. /\ incident \in Incident /\ incident.circuit = c
        /\ incident.start \in Nat /\ incident.start <= clock
    BY <1>4 DEF IncidentInv, OfIncident, Incident
  <2>2. /\ incident' \in Incident /\ incident'.circuit = c
        /\ incident'.start = incident.start /\ incident'.end = Never
    BY <1>4, <2>1 DEF Incident, Stamp
  <2>3. incident'.start <= clock'
    BY <2>1, <2>2 DEF IncidentInv
  <2> QED
    BY <1>2, <2>2, <2>3 DEF IncidentInv, EndTellsTheCircuit
<1>5. CASE ~OfIncident(c) /\ UNCHANGED incident
  <2>1. incident # Never => /\ incident \in Incident /\ incident.start \in Nat
                            /\ incident.start <= clock
                            /\ incident.circuit \in dead' <=> incident.circuit \in dead
    BY <1>2, <1>5 DEF IncidentInv, OfIncident, Incident
  <2> QED
    BY <1>5, <2>1 DEF IncidentInv, EndTellsTheCircuit
<1> QED
  BY <1>3, <1>4, <1>5 DEF ReadsDead

\* A live reading ends the incident of its circuit, unless that was over.
LEMMA ReadsLiveKeeps ==
  ASSUME IncidentInv, NEW c \in Breakers, ReadsLive(c), clock' \in Nat, clock' >= clock
  PROVE  IncidentInv'
<1>1. \A n \in Nat : n # Never
  BY Bounds
<1>2. dead' = dead \ {c} /\ InOrderOfTime(c)
  BY DEF ReadsLive
<1>3. CASE OfIncident(c) /\ incident.end = Never
  <2>1. /\ incident \in Incident /\ incident.circuit = c /\ incident # Never
        /\ incident.start \in Nat /\ incident.start < clock'
    BY <1>2, <1>3 DEF IncidentInv, OfIncident, Incident, InOrderOfTime
  <2>2. incident' = [incident EXCEPT !.end = clock']
    BY <1>3 DEF ReadsLive
  <2>3. /\ incident' \in Incident /\ incident'.circuit = c
        /\ incident'.start = incident.start /\ incident'.end = clock'
    BY <2>1, <2>2 DEF Incident, Stamp
  <2>4. incident'.start <= clock'
    BY <2>1, <2>3
  <2> QED
    BY <1>1, <1>2, <2>1, <2>3, <2>4 DEF IncidentInv, EndTellsTheCircuit
<1>4. CASE ~(OfIncident(c) /\ incident.end = Never)
  <2>1. incident' = incident
    BY <1>4 DEF ReadsLive
  <2>2. incident # Never => /\ incident \in Incident /\ incident.start \in Nat
                            /\ incident.start <= clock
                            /\ incident.circuit \in dead' <=> incident.circuit \in dead
    BY <1>2, <1>4 DEF IncidentInv, EndTellsTheCircuit, OfIncident, Incident
  <2> QED
    BY <2>1, <2>2 DEF IncidentInv, EndTellsTheCircuit
<1> QED
  BY <1>3, <1>4

(* Whatever reads dead and live, in any order, an incident is without an   *)
(* end exactly while its circuit is dead: what decides in breaker.py and   *)
(* trips.py whether a trip is recorded open.                               *)
THEOREM EndAlwaysTellsTheCircuit == IncidentSpec => []EndTellsTheCircuit
<1>1. IncidentInit => IncidentInv
  BY DEF IncidentInit, IncidentInv, EndTellsTheCircuit
<1>2. IncidentInv /\ [IncidentNext]_observed => IncidentInv'
  <2> SUFFICES ASSUME IncidentInv, [IncidentNext]_observed PROVE IncidentInv'
    OBVIOUS
  <2>1. CASE UNCHANGED observed
    BY <2>1 DEF IncidentInv, EndTellsTheCircuit, observed
  <2>2. CASE IncidentNext
    <3>1. clock \in Nat /\ clock' \in Nat /\ clock' >= clock
      BY <2>2 DEF IncidentNext, IncidentInv
    <3>2. ASSUME NEW c \in Breakers, ReadsDead(c) PROVE IncidentInv'
      BY <3>1, <3>2, ReadsDeadKeeps
    <3>3. ASSUME NEW c \in Breakers, ReadsLive(c) PROVE IncidentInv'
      BY <3>1, <3>3, ReadsLiveKeeps
    <3>4. CASE Closes /\ UNCHANGED dead
      BY <3>1, <3>4 DEF Closes, IncidentInv, EndTellsTheCircuit
    <3>5. CASE UNCHANGED <<dead, incident>>
      <4>1. incident # Never => incident.start <= clock'
        BY <3>1 DEF IncidentInv, Incident
      <4> QED
        BY <3>1, <3>5, <4>1 DEF IncidentInv, EndTellsTheCircuit
    <3> QED
      BY <2>2, <3>2, <3>3, <3>4, <3>5 DEF IncidentNext
  <2> QED
    BY <2>1, <2>2
<1>3. IncidentInv => EndTellsTheCircuit
  BY DEF IncidentInv
<1> QED
  BY <1>1, <1>2, <1>3, PTL DEF IncidentSpec

(* The watch's incident is one of those, through reloads and crashes, and  *)
(* while nobody watches the circuits.                                      *)
THEOREM LedgerImplementsIncident == LedgerSpec => IncidentSpec
<1>1. LedgerInit => IncidentInit
  BY DEF LedgerInit, IncidentInit
<1>2. LedgerInv /\ [LedgerNext]_ledger => [IncidentNext]_observed
  <2> SUFFICES ASSUME LedgerInv, [LedgerNext]_ledger PROVE [IncidentNext]_observed
    OBVIOUS
  <2>1. clock \in Nat /\ clock + 1 \in Nat /\ clock < clock + 1
    BY NextReading
  <2>2. ASSUME NEW c \in Breakers, ReportsDead(c) PROVE IncidentNext
    BY <2>1, <2>2 DEF ReportsDead, IncidentNext
  <2>3. ASSUME NEW c \in Breakers, ReportsLive(c) PROVE IncidentNext
    BY <2>1, <2>3 DEF ReportsLive, IncidentNext
  <2>4. ASSUME NEW c \in Breakers, ChangesUnseen(c) PROVE IncidentNext
    <3>1. incident = Never /\ incident' = Never /\ clock' = clock + 1
      BY <2>4 DEF ChangesUnseen, LedgerInv, Watch
    <3>2. ReadsDead(c) \/ ReadsLive(c)
      BY <2>4, <3>1 DEF ChangesUnseen, ReadsDead, ReadsLive, InOrderOfTime, OfIncident
    <3> QED
      BY <2>1, <3>1, <3>2 DEF IncidentNext
  <2>5. ASSUME clock' = clock, UNCHANGED dead, Closes \/ UNCHANGED incident PROVE IncidentNext
    BY <2>1, <2>5 DEF IncidentNext
  <2>6. CASE RefuseIncident
    BY <2>5, <2>6 DEF RefuseIncident
  <2>7. CASE \E confirmed, suspected \in SUBSET Entities : AcceptIncident(confirmed, suspected)
    BY <2>5, <2>7 DEF AcceptIncident
  <2>8. CASE Unloads \/ Crashes
    <3>1. clock' = clock /\ dead' = dead /\ incident' = Never
      BY <2>8 DEF Unloads, Crashes, Stops
    <3> QED
      BY <2>5, <3>1 DEF Closes
  <2>9. CASE UNCHANGED <<clock, dead, incident>>
    BY <2>5, <2>9
  <2> QED
    BY <2>2, <2>3, <2>4, <2>6, <2>7, <2>8, <2>9
    DEF LedgerNext, ReadRows, RecordDevice, HandlerEnds, BeginOutage, RecordCasualty,
        AmendTrip, OthersRecord, OthersForget, Save, Starts, ledger
<1> QED
  BY <1>1, <1>2, LedgerInvariant, PTL DEF LedgerSpec, IncidentSpec
=============================================================================
