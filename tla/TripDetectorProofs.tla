------------------------- MODULE TripDetectorProofs -------------------------
(***************************************************************************)
(* Theorems about TripDetector, for any circuits, devices and delays: an   *)
(* open incident always has a timer in time for it, and is over within the *)
(* bound that _HORIZON_S is built from; its end is its circuit's last      *)
(* return; if meters report often enough, what was pruned never matters to *)
(* its judgement; and its steps are those of BreakerIncident.              *)
(***************************************************************************)
EXTENDS TripDetector, WellFoundedInduction, TLAPS

\* The types of what the proofs use.
ClockOK ==
  /\ now \in Nat
  /\ timer \in Nat \cup {None}
  /\ open \in Incident \cup {None}
  /\ circuitLog \in [Circuits -> Seq(Reading)]

\* Nothing is reported from the future.
LogsArePast ==
  \A c \in Circuits : \A i \in 1 .. Len(circuitLog[c]) : circuitLog[c][i].t <= now

\* A circuit is lost no later than its first timer may run.
LostIsBounded ==
  open # None /\ open.lost # None =>
    open.end = None /\ open.lost <= open.start + CAP_S + LATE_S

Inv ==
  /\ ClockOK
  /\ LogsArePast
  /\ LostIsBounded
  /\ TimerCoversTheIncident
  /\ IncidentIsBounded

-----------------------------------------------------------------------------
\* The delays and readings are numbers, and None is not.
LEMMA Numbers ==
  /\ {TOGETHER_S, GRACE_S, CAP_S, STABLE_S, LATE_S} \subseteq Nat
  /\ DEAD_W \in Int /\ Watts \subseteq Int /\ None \notin Int /\ None \notin Nat
BY TripDetectorAssumption

\* A due time is a number, and bounded by what ended the incident.
LEMMA DueProperties ==
  ASSUME NEW incident \in Incident
  PROVE  /\ Due(incident) \in Nat
         /\ incident.end = None /\ incident.lost = None
              => Due(incident) = incident.start + CAP_S
BY Numbers DEF Due, Incident

\* _schedule leaves a timer exactly when there is an incident, in time for it.
LEMMA ScheduleProperties ==
  ASSUME NEW incident \in Incident \cup {None}, timer \in Nat \cup {None}, Schedule(incident)
  PROVE  /\ timer' \in Nat \cup {None}
         /\ incident = None <=> timer' = None
         /\ incident # None => timer' <= Due(incident)
BY DueProperties, Numbers DEF Schedule

\* A reading of the open incident's circuit keeps it an incident of the same
\* start, and an end or a loss it sets lies before its first timer's last
\* moment.
LEMMA FollowProperties ==
  ASSUME Inv, Listening, open # None, NEW w \in Watts \cup {None}
  PROVE  LET next == Follow(open, w, now)
         IN  /\ next \in Incident
             /\ next.circuit = open.circuit
             /\ next.start = open.start /\ next.lastLive = open.lastLive
             /\ next.lost # None =>
                  next.end = None /\ next.lost <= next.start + CAP_S + LATE_S
             /\ next.end # None =>
                  next.start <= next.end /\ next.end <= next.start + CAP_S + LATE_S
<1> DEFINE next == Follow(open, w, now)
<1>1. /\ open \in Incident /\ now \in Nat
      /\ open.start \in Nat /\ open.start <= now
      /\ timer \in Nat /\ timer <= Due(open) /\ now <= timer + LATE_S
  BY Numbers DEF Inv, ClockOK, TimerCoversTheIncident, IncidentIsBounded, Listening, Incident
<1>2. open.end = None /\ open.lost = None => now <= open.start + CAP_S + LATE_S
  BY <1>1, DueProperties, Numbers
<1>3. CASE open.lost # None
  BY <1>1, <1>3, Numbers DEF Follow, Inv, LostIsBounded
<1>4. CASE open.lost = None /\ w = None
  <2>1. CASE open.end = None
    <3>1. next = [open EXCEPT !.lost = now]
      BY <1>4, <2>1 DEF Follow
    <3> QED
      BY <1>1, <1>2, <1>4, <2>1, <3>1, Numbers DEF Incident
  <2>2. CASE open.end # None
    BY <1>1, <1>4, <2>2 DEF Follow, Inv, IncidentIsBounded
  <2> QED
    BY <2>1, <2>2
<1>5. CASE open.lost = None /\ w # None /\ w > DEAD_W
  <2>1. CASE open.end = None
    <3>1. next = [open EXCEPT !.end = now]
      BY <1>5, <2>1 DEF Follow
    <3> QED
      BY <1>1, <1>2, <1>5, <2>1, <3>1, Numbers DEF Incident
  <2>2. CASE open.end # None
    BY <1>1, <1>5, <2>2 DEF Follow, Inv, IncidentIsBounded
  <2> QED
    BY <2>1, <2>2
<1>6. CASE open.lost = None /\ w # None /\ ~(w > DEAD_W)
  <2>1. next = [open EXCEPT !.end = None]
    BY <1>6 DEF Follow
  <2> QED
    BY <1>1, <1>6, <2>1, Numbers DEF Incident
<1> QED
  BY <1>3, <1>4, <1>5, <1>6

-----------------------------------------------------------------------------
\* At the start there is no incident and no timer.
LEMMA InitInv ==
  Init => Inv
<1> SUFFICES ASSUME Init PROVE Inv
  OBVIOUS
<1>1. circuitLog \in [Circuits -> Seq(Reading)]
  <2> DEFINE First == {<<[t |-> 0, w |-> w]>> : w \in Watts \cup {None}}
  <2>1. ASSUME NEW w \in Watts \cup {None} PROVE <<[t |-> 0, w |-> w]>> \in Seq(Reading)
    <3>1. [t |-> 0, w |-> w] \in Reading
      BY DEF Reading
    <3> QED
      BY <3>1
  <2>2. First \subseteq Seq(Reading)
    BY <2>1, Zenon
  <2>3. circuitLog \in [Circuits -> {<<>>} \cup First]
    BY DEF Init
  <2>4. <<>> \in Seq(Reading)
    OBVIOUS
  <2> HIDE DEF First
  <2> QED
    BY <2>2, <2>3, <2>4
<1>2. LogsArePast
  <2> SUFFICES ASSUME NEW c \in Circuits, NEW i \in 1 .. Len(circuitLog[c])
               PROVE  circuitLog[c][i].t <= now
    BY DEF LogsArePast
  <2>1. circuitLog[c] # <<>>
    BY DEF Init
  <2>2. PICK w \in Watts \cup {None} : circuitLog[c] = <<[t |-> 0, w |-> w]>>
    BY <2>1 DEF Init
  <2> QED
    BY <2>2 DEF Init
<1> QED
  BY <1>1, <1>2 DEF Init, Inv, ClockOK, LostIsBounded, TimerCoversTheIncident,
                    IncidentIsBounded

\* A log with one more reading, no later than now, is still in the past.
LEMMA FedLog ==
  ASSUME now \in Nat, NEW log \in Seq(Reading), NEW t \in Nat, t <= now,
         NEW w \in Watts \cup {None},
         \A i \in 1 .. Len(log) : log[i].t <= now
  PROVE  LET fed == Append(log, [t |-> t, w |-> w])
         IN  /\ fed \in Seq(Reading)
             /\ \A i \in 1 .. Len(fed) : fed[i].t <= now
<1>1. [t |-> t, w |-> w] \in Reading
  BY DEF Reading
<1> QED
  BY <1>1

\* A circuit's state change keeps the invariant.
LEMMA CircuitInv ==
  ASSUME Inv, NEW c \in Circuits, NEW w \in Watts \cup {None}, NEW again \in 0 .. LastEvent,
         CircuitChanges(c, w, again)
  PROVE  Inv'
<1> DEFINE log  == circuitLog[c]
           last == log[Len(log)]
           fed  == IF log # <<>> /\ again > last.t
                   THEN Append(log, [t |-> again, w |-> last.w]) ELSE log
           next == Append(fed, [t |-> now, w |-> w])
<1>1. /\ now \in Nat /\ now' = now /\ Listening
      /\ again \in Nat /\ again < now
      /\ circuitLog' = [circuitLog EXCEPT ![c] = next]
      /\ open' = After(c, fed, w, now)
      /\ Schedule(open')
  BY TripDetectorAssumption DEF CircuitChanges, Inv, ClockOK
<1>2. log \in Seq(Reading) /\ \A i \in 1 .. Len(log) : log[i].t <= now
  BY DEF Inv, ClockOK, LogsArePast
<1>3. fed \in Seq(Reading) /\ \A i \in 1 .. Len(fed) : fed[i].t <= now
  <2>1. CASE log # <<>> /\ again > last.t
    <3>1. last \in Reading
      BY <1>2, <2>1
    <3>2. last.w \in Watts \cup {None}
      BY <3>1 DEF Reading
    <3>3. fed = Append(log, [t |-> again, w |-> last.w]) /\ again <= now
      BY <1>1, <2>1
    <3> HIDE DEF log, last, fed
    <3> QED
      BY <1>1, <1>2, <3>2, <3>3, FedLog
  <2>2. CASE ~(log # <<>> /\ again > last.t)
    BY <1>2, <2>2
  <2> QED
    BY <2>1, <2>2
<1>4. next \in Seq(Reading) /\ \A i \in 1 .. Len(next) : next[i].t <= now
  <2> HIDE DEF fed
  <2> QED
    BY <1>1, <1>3, FedLog
<1>5. circuitLog' \in [Circuits -> Seq(Reading)] /\ LogsArePast'
  <2> HIDE DEF next
  <2>1. circuitLog \in [Circuits -> Seq(Reading)]
    BY DEF Inv, ClockOK
  <2>2. circuitLog'[c] = next /\ \A k \in Circuits \ {c} : circuitLog'[k] = circuitLog[k]
    BY <1>1, <2>1
  <2>3. LogsArePast'
    BY <1>1, <1>4, <2>2 DEF Inv, LogsArePast
  <2> QED
    BY <1>1, <1>4, <2>1, <2>3
<1> HIDE DEF log, last, fed, next
<1>6. /\ open' \in Incident \cup {None}
      /\ open' # None =>
           /\ open'.lastLive <= open'.start /\ open'.start <= now
           /\ now <= open'.start + CAP_S + GRACE_S + 2 * LATE_S
           /\ open'.end # None => /\ open'.start <= open'.end
                                  /\ open'.end <= open'.start + CAP_S + LATE_S
           /\ open'.lost # None => /\ open'.end = None
                                   /\ open'.lost <= open'.start + CAP_S + LATE_S
  <2>1. CASE open # None /\ open.circuit = c
    <3>1. open' = Follow(open, w, now)
      BY <1>1, <2>1 DEF After
    <3>2. open.lastLive <= open.start /\ open.start <= now
          /\ now <= open.start + CAP_S + GRACE_S + 2 * LATE_S
      BY <2>1 DEF Inv, IncidentIsBounded
    <3> QED
      BY <1>1, <2>1, <3>1, <3>2, FollowProperties
  <2>2. CASE open # None /\ open.circuit # c
    <3>1. open' = open
      BY <1>1, <2>2 DEF After
    <3> QED
      BY <2>2, <3>1 DEF Inv, ClockOK, IncidentIsBounded, LostIsBounded
  <2>3. CASE open = None /\ fed # <<>> /\ Opens(c, fed[Len(fed)], w, now)
    <3>1. open' = [circuit |-> c, start |-> now, lastLive |-> fed[Len(fed)].t,
                   end |-> None, lost |-> None]
      BY <1>1, <2>3 DEF After
    <3>2. Len(fed) \in 1 .. Len(fed) /\ fed[Len(fed)] \in Reading
      BY <1>3, <2>3
    <3>3. fed[Len(fed)].t \in Nat /\ fed[Len(fed)].t <= now
      BY <1>3, <3>2 DEF Reading
    <3> QED
      BY <1>1, <3>1, <3>3, Numbers DEF Incident
  <2>4. CASE open = None /\ ~(fed # <<>> /\ Opens(c, fed[Len(fed)], w, now))
    BY <1>1, <2>4 DEF After
  <2> QED
    BY <2>1, <2>2, <2>3, <2>4
<1>7. /\ timer' \in Nat \cup {None}
      /\ open' = None <=> timer' = None
      /\ open' # None => timer' <= Due(open')
  BY <1>1, <1>6, ScheduleProperties DEF Inv, ClockOK
<1>8. TimerCoversTheIncident'
  BY <1>7 DEF TimerCoversTheIncident, Due
<1> QED
  BY <1>1, <1>5, <1>6, <1>7, <1>8 DEF Inv, ClockOK, LostIsBounded, IncidentIsBounded

\* A timer that fires closes the incident or waits for its due time.
LEMMA TimerInv ==
  ASSUME Inv, TimerFires
  PROVE  Inv'
<1>1. /\ timer # None /\ open # None /\ open \in Incident
      /\ now' = now /\ circuitLog' = circuitLog
  BY DEF Inv, ClockOK, TimerCoversTheIncident, TimerFires, logs
<1>2. Due(open) \in Nat
  BY <1>1, DueProperties
<1>3. CASE now >= Due(open)
  <2>1. open' = None /\ timer' = None
    BY <1>3 DEF TimerFires
  <2> QED
    BY <1>1, <2>1 DEF Inv, ClockOK, LogsArePast, LostIsBounded, TimerCoversTheIncident,
                      IncidentIsBounded
<1>4. CASE ~(now >= Due(open))
  <2>1. open' = open /\ timer' = Due(open)
    BY <1>4 DEF TimerFires
  <2>2. TimerCoversTheIncident'
    BY <1>1, <1>2, <2>1, Numbers DEF TimerCoversTheIncident, Due
  <2> QED
    BY <1>1, <1>2, <2>1, <2>2 DEF Inv, ClockOK, LogsArePast, LostIsBounded,
                                  IncidentIsBounded
<1> QED
  BY <1>3, <1>4

\* A tick waits for a timer that is overdue.
LEMMA TickInv ==
  ASSUME Inv, Tick
  PROVE  Inv'
<1>1. /\ now \in Nat /\ now' = now + 1 /\ timer' = timer /\ open' = open
      /\ circuitLog' = circuitLog
      /\ timer # None => now < timer + LATE_S
  BY DEF Inv, ClockOK, Tick, logs
<1>2. ClockOK' /\ LostIsBounded' /\ TimerCoversTheIncident'
  BY <1>1 DEF Inv, ClockOK, LostIsBounded, TimerCoversTheIncident, Due
<1>3. LogsArePast'
  <2> SUFFICES ASSUME NEW c \in Circuits, NEW i \in 1 .. Len(circuitLog[c])
               PROVE  circuitLog[c][i].t <= now + 1
    BY <1>1 DEF LogsArePast
  <2>1. circuitLog[c] \in Seq(Reading) /\ circuitLog[c][i].t <= now
    BY DEF Inv, ClockOK, LogsArePast
  <2>2. circuitLog[c][i] \in Reading
    BY <2>1
  <2> QED
    BY <1>1, <2>1, <2>2 DEF Reading
<1>4. IncidentIsBounded'
  <2> SUFFICES ASSUME open # None
               PROVE  /\ open.start <= now + 1
                      /\ now + 1 <= open.start + CAP_S + GRACE_S + 2 * LATE_S
    BY <1>1 DEF Inv, IncidentIsBounded
  <2>1. /\ open \in Incident /\ open.start \in Nat /\ open.start <= now
        /\ timer \in Nat /\ timer <= Due(open)
    BY Numbers DEF Inv, ClockOK, TimerCoversTheIncident, IncidentIsBounded, Incident
  <2>2. Due(open) <= open.start + CAP_S + LATE_S + GRACE_S
    <3>1. open.end # None => open.end \in Nat /\ open.end <= open.start + CAP_S + LATE_S
      BY <2>1 DEF Inv, IncidentIsBounded, Incident
    <3>2. open.lost # None => open.lost \in Nat /\ open.lost <= open.start + CAP_S + LATE_S
      BY <2>1 DEF Inv, LostIsBounded, Incident
    <3> QED
      BY <2>1, <3>1, <3>2, Numbers DEF Due
  <2>3. Due(open) \in Nat
    BY <2>1, DueProperties
  <2> QED
    BY <1>1, <2>1, <2>2, <2>3, Numbers
<1> QED
  BY <1>2, <1>3, <1>4 DEF Inv

\* A device's change sets a timer for the incident that is open.
LEMMA DeviceInv ==
  ASSUME Inv, NEW d \in Devices, NEW s \in DeviceState, DeviceChanges(d, s)
  PROVE  Inv'
<1>1. /\ now' = now /\ open' = open /\ circuitLog' = circuitLog
      /\ Schedule(open) /\ open \in Incident \cup {None} /\ timer \in Nat \cup {None}
  BY DEF Inv, ClockOK, DeviceChanges
<1>2. /\ timer' \in Nat \cup {None}
      /\ open = None <=> timer' = None
      /\ open # None => timer' <= Due(open)
  BY <1>1, ScheduleProperties
<1>3. TimerCoversTheIncident'
  BY <1>1, <1>2 DEF TimerCoversTheIncident, Due
<1> QED
  BY <1>1, <1>2, <1>3 DEF Inv, ClockOK, LogsArePast, LostIsBounded, IncidentIsBounded

\* Every step keeps the invariant.
LEMMA NextInv ==
  Inv /\ [Next]_vars => Inv'
<1> SUFFICES ASSUME Inv, [Next]_vars PROVE Inv'
  OBVIOUS
<1>1. ASSUME NEW c \in Circuits, NEW w \in Watts \cup {None}, NEW again \in 0 .. LastEvent,
             CircuitChanges(c, w, again)
      PROVE  Inv'
  BY <1>1, CircuitInv
<1>2. ASSUME NEW d \in Devices, NEW s \in DeviceState, DeviceChanges(d, s) PROVE Inv'
  BY <1>2, DeviceInv
<1>3. CASE TimerFires
  BY <1>3, TimerInv
<1>4. CASE Tick
  BY <1>4, TickInv
<1>5. CASE UNCHANGED <<now, logs, open, timer>>
  <2>1. now' = now /\ circuitLog' = circuitLog /\ open' = open /\ timer' = timer
    BY <1>5 DEF logs
  <2> QED
    BY <2>1 DEF Inv, ClockOK, LogsArePast, LostIsBounded, TimerCoversTheIncident,
                IncidentIsBounded, Due
<1>6. CASE Started
  BY <1>5, <1>6 DEF Started
<1>7. ASSUME NEW S \in Eligibilities, Rejudge(S) PROVE Inv'
  BY <1>5, <1>7 DEF Rejudge
<1>8. CASE UNCHANGED vars
  BY <1>5, <1>8 DEF vars
<1> QED
  BY <1>1, <1>2, <1>3, <1>4, <1>6, <1>7, <1>8 DEF Next

\* The inductive invariant holds.
LEMMA Invariant ==
  Spec => []Inv
BY InitInv, NextInv, PTL DEF Spec

-----------------------------------------------------------------------------
(* An open incident has a timer no later than its due time, through all    *)
(* the flapping and re-scheduling of trips.py:452-484.                     *)
THEOREM TimerAlwaysCoversTheIncident ==
  Spec => []TimerCoversTheIncident
<1>1. Inv => TimerCoversTheIncident
  BY DEF Inv
<1> QED
  BY <1>1, Invariant, PTL

(* An incident is over within CAP_S + GRACE_S and twice the lateness of a  *)
(* timer: what _HORIZON_S (breaker.py:355) takes for granted.              *)
THEOREM IncidentIsAlwaysBounded ==
  Spec => []IncidentIsBounded
<1>1. Inv => IncidentIsBounded
  BY DEF Inv
<1> QED
  BY <1>1, Invariant, PTL

-----------------------------------------------------------------------------
(* Least and greatest numbers.                                             *)

\* A nonempty set of numbers has a least one.
LEMMA Least ==
  ASSUME NEW T, T \subseteq Nat, T # {}
  PROVE  Min(T) \in T /\ \A y \in T : Min(T) <= y
<1> DEFINE R == OpToRel(<, Nat)
<1>1. \A x, y \in Nat : y < x => <<y, x>> \in R
  BY DEF OpToRel
<1>2. IsWellFoundedOn(R, Nat)
  BY NatLessThanWellFounded, Zenon
<1> HIDE DEF R
<1>3. PICK x \in T : \A y \in T : ~(<<y, x>> \in R)
  BY <1>2, WFMin
<1>4. \A y \in T : ~(y < x)
  BY <1>1, <1>3
<1>5. x \in Nat /\ \A y \in T : y \in Nat
  OBVIOUS
<1>6. \E m \in T : \A y \in T : m <= y
  BY <1>4, <1>5
<1> QED
  BY <1>6, Zenon DEF Min

\* One with a bound has a greatest one.
LEMMA Greatest ==
  ASSUME NEW n \in Nat, NEW T, T \subseteq 0 .. n, T # {}
  PROVE  Max(T) \in T /\ \A y \in T : y <= Max(T)
<1> DEFINE M == {k \in 0 .. n : n - k \in T}
<1>1. M \subseteq Nat
  OBVIOUS
<1>2. PICK x \in T : TRUE
  OBVIOUS
<1>3. n - x \in 0 .. n /\ n - (n - x) = x
  OBVIOUS
<1>4. n - x \in M
  BY <1>2, <1>3
<1> HIDE DEF M
<1>5. Min(M) \in M /\ \A k \in M : Min(M) <= k
  BY <1>1, <1>4, Least
<1>6. PICK k \in 0 .. n : k = Min(M) /\ n - k \in T
  BY <1>5 DEF M
<1>7. \A y \in T : y <= n - k
  <2> SUFFICES ASSUME NEW y \in T PROVE y <= n - k
    OBVIOUS
  <2>1. n - y \in 0 .. n /\ n - (n - y) = y
    OBVIOUS
  <2>2. n - y \in M
    BY <2>1 DEF M
  <2> QED
    BY <1>5, <1>6, <2>2
<1>8. \E m \in T : \A y \in T : m >= y
  BY <1>6, <1>7
<1>9. Max(T) \in T /\ \A y \in T : Max(T) >= y
  BY <1>8, Zenon DEF Max
<1> QED
  BY <1>9

-----------------------------------------------------------------------------
(* A log, and what pruning leaves of it.                                   *)

InOrder(log) == \A i, j \in DOMAIN log : i <= j => log[i].t <= log[j].t

\* What was dropped lies at or before `edge`.
KeptFrom(log, kept, edge) ==
  /\ kept \in Nat \ {0}
  /\ kept = 1 \/ (kept \in DOMAIN log /\ log[kept].t <= edge)

Log(log) == \A i \in DOMAIN log : log[i].t \in Nat

\* Pruning at an edge drops nothing after a later one.
LEMMA PruneKeeps ==
  ASSUME NEW log, NEW n \in Nat, DOMAIN log = 1 .. n, Len(log) = n, Log(log),
         NEW edge \in Int, NEW later \in Int, edge <= later,
         NEW kept, KeptFrom(log, kept, later)
  PROVE  KeptFrom(log, Prune(log, kept, edge), later)
<1> DEFINE T == {kept} \cup {i \in kept .. n : log[i].t <= edge}
<1>1. kept \in Nat \ {0} /\ (kept = 1 \/ kept \in 1 .. n)
  BY DEF KeptFrom
<1>2. T \subseteq 0 .. n + 1 /\ T # {} /\ n + 1 \in Nat
  BY <1>1
<1>3. Prune(log, kept, edge) = Max(T)
  BY DEF Prune
<1>4. Max(T) \in T
  <2> HIDE DEF T
  <2> QED
    BY <1>2, Greatest
<1>5. CASE Max(T) = kept
  BY <1>3, <1>5
<1>6. CASE Max(T) # kept
  <2>1. Max(T) \in kept .. n /\ log[Max(T)].t <= edge
    BY <1>4, <1>6
  <2>2. Max(T) \in 1 .. n /\ Max(T) \in Nat \ {0}
    BY <1>1, <2>1
  <2> HIDE DEF T
  <2>3. log[Max(T)].t \in Nat
    BY <2>2 DEF Log
  <2>4. log[Max(T)].t <= later
    BY <2>1, <2>3
  <2> QED
    BY <1>3, <2>2, <2>4 DEF KeptFrom
<1> QED
  BY <1>5, <1>6

\* From the edge on, a pruned log reads like the whole one.
LEMMA PrunedReadsTheSame ==
  ASSUME NEW log, NEW n \in Nat, DOMAIN log = 1 .. n, Len(log) = n,
         Log(log), InOrder(log), NEW kept, NEW edge \in Int, KeptFrom(log, kept, edge),
         NEW stamp \in Int, edge <= stamp
  PROVE  /\ \A to : Within(log, kept, stamp, to) = Within(log, 1, stamp, to)
         /\ InForce(log, kept, stamp) = InForce(log, 1, stamp)
         /\ kept = 1 \/ InForce(log, kept, stamp) # 0
<1>1. CASE kept = 1
  BY <1>1
<1>2. CASE kept # 1
  <2>1. /\ kept \in 1 .. n /\ \A i \in 1 .. n : log[i].t \in Nat
        /\ log[kept].t <= stamp
    BY <1>2 DEF KeptFrom, Log
  <2>2. \A i \in 1 .. n : i < kept => log[i].t <= stamp
    <3> SUFFICES ASSUME NEW i \in 1 .. n, i < kept PROVE log[i].t <= stamp
      OBVIOUS
    <3>1. log[i].t <= log[kept].t
      BY <2>1 DEF InOrder
    <3> QED
      BY <2>1, <3>1
  <2>3. \A to : Within(log, kept, stamp, to) = Within(log, 1, stamp, to)
    <3> TAKE to
    <3>1. \A i \in 1 .. n : stamp < log[i].t => i \in kept .. n
      BY <2>1, <2>2
    <3>2. \A i \in kept .. n : i \in 1 .. n
      BY <2>1
    <3> QED
      BY <3>1, <3>2 DEF Within
  <2> DEFINE S == {0} \cup {i \in kept .. n : log[i].t <= stamp}
             T == {0} \cup {i \in 1 .. n : log[i].t <= stamp}
  <2>4. S \subseteq 0 .. n /\ T \subseteq 0 .. n /\ S \subseteq T /\ kept \in S
    BY <2>1
  <2>5. \A i \in T : i >= kept => i \in S
    BY <2>1
  <2>6. InForce(log, kept, stamp) = Max(S) /\ InForce(log, 1, stamp) = Max(T)
    BY DEF InForce
  <2> HIDE DEF S, T
  <2>7. /\ Max(S) \in S /\ \A y \in S : y <= Max(S)
        /\ Max(T) \in T /\ \A y \in T : y <= Max(T)
    <3>1. S # {} /\ T # {}
      BY <2>4
    <3> QED
      BY <2>4, <3>1, Greatest
  <2>8. Max(S) = Max(T) /\ Max(S) # 0
    <3>1. Max(S) \in 0 .. n /\ Max(T) \in 0 .. n /\ kept \in 1 .. n
      BY <2>1, <2>4, <2>7
    <3>2. kept <= Max(T) /\ kept <= Max(S) /\ Max(S) <= Max(T)
      BY <2>4, <2>7
    <3>3. Max(T) <= Max(S)
      BY <2>5, <2>7, <3>1, <3>2
    <3> QED
      BY <2>1, <3>1, <3>2, <3>3
  <2> QED
    BY <2>3, <2>6, <2>8
<1> QED
  BY <1>1, <1>2

\* A log with its latest report and one more reading.
Fed(log, again) ==
  IF log # <<>> /\ again > log[Len(log)].t
  THEN Append(log, [t |-> again, w |-> log[Len(log)].w]) ELSE log

\* Those go on from the log, in order.
LEMMA FedFacts ==
  ASSUME NEW log \in Seq(Reading), InOrder(log),
         NEW again \in Nat, NEW at \in Nat, again < at, NEW w \in Watts \cup {None},
         log # <<>> => log[Len(log)].t <= again
  PROVE  LET fed  == Fed(log, again)
             next == Append(fed, [t |-> at, w |-> w])
         IN  /\ fed \in Seq(Reading) /\ next \in Seq(Reading)
             /\ Len(fed) >= Len(log) /\ \A i \in DOMAIN log : fed[i] = log[i]
             /\ \A i \in DOMAIN fed : i > Len(log) => log # <<>> /\ fed[i].w = log[Len(log)].w
             /\ Len(next) = Len(fed) + 1 /\ \A i \in DOMAIN fed : next[i] = fed[i]
             /\ next[Len(fed) + 1] = [t |-> at, w |-> w]
             /\ InOrder(next) /\ \A i \in DOMAIN next : next[i].t <= at
             /\ fed # <<>> => /\ log # <<>> /\ fed[Len(fed)].t = again
                              /\ fed[Len(fed)].w = log[Len(log)].w
<1> DEFINE n == Len(log)
           fed == Fed(log, again)
           k == Len(fed)
           next == Append(fed, [t |-> at, w |-> w])
<1>1. n \in Nat /\ DOMAIN log = 1 .. n /\ \A i \in 1 .. n : log[i] \in Reading
  OBVIOUS
<1>2. /\ \A i \in 1 .. n : log[i].t \in Nat /\ log[i].w \in Watts \cup {None}
      /\ \A i, j \in 1 .. n : i <= j => log[i].t <= log[j].t
  BY <1>1 DEF Reading, InOrder
<1>3. \A i \in 1 .. n : log[i].t <= again
  <2> SUFFICES ASSUME NEW i \in 1 .. n PROVE log[i].t <= again
    OBVIOUS
  <2>1. log # <<>> /\ n \in 1 .. n /\ i <= n
    BY <1>1
  <2>2. log[i].t <= log[n].t /\ log[n].t <= again
    BY <1>2, <2>1
  <2> QED
    BY <1>2, <2>1, <2>2
<1>4. /\ fed \in Seq(Reading) /\ k \in Nat /\ k >= n /\ DOMAIN fed = 1 .. k
      /\ \A i \in 1 .. n : fed[i] = log[i]
      /\ \A i \in 1 .. k : i > n => log # <<>> /\ fed[i].w = log[n].w /\ fed[i].t = again
      /\ fed # <<>> => log # <<>> /\ fed[k].t = again /\ fed[k].w = log[n].w
      /\ k <= n + 1
  <2>1. CASE log # <<>> /\ again > log[n].t
    <3> DEFINE r == [t |-> again, w |-> log[n].w]
    <3>1. r \in Reading /\ fed = Append(log, r)
      BY <1>1, <1>2, <2>1 DEF Fed, Reading
    <3>2. /\ fed \in Seq(Reading) /\ k = n + 1 /\ DOMAIN fed = 1 .. n + 1
          /\ fed[n + 1] = r /\ \A i \in 1 .. n : fed[i] = log[i]
      BY <1>1, <3>1
    <3> HIDE DEF fed, k
    <3>3. \A i \in 1 .. k : i > n => i = n + 1
      BY <1>1, <3>2
    <3>4. r.t = again /\ r.w = log[n].w
      OBVIOUS
    <3> HIDE DEF r, n
    <3> QED
      BY <1>1, <2>1, <3>2, <3>3, <3>4
  <2>2. CASE ~(log # <<>> /\ again > log[n].t)
    <3>1. fed = log
      BY <2>2 DEF Fed
    <3>2. log # <<>> => log[n].t = again
      <4> SUFFICES ASSUME log # <<>> PROVE log[n].t = again
        OBVIOUS
      <4>1. log[n].t \in Nat /\ log[n].t <= again /\ ~(again > log[n].t)
        BY <1>1, <1>2, <2>2
      <4> QED
        BY <4>1
    <3> QED
      BY <1>1, <3>1, <3>2
  <2> QED
    BY <2>1, <2>2
<1>5. \A i \in 1 .. k : fed[i].t \in Nat /\ fed[i].t <= again
  BY <1>1, <1>2, <1>3, <1>4
<1>6. \A i, j \in 1 .. k : i <= j => fed[i].t <= fed[j].t
  <2> SUFFICES ASSUME NEW i \in 1 .. k, NEW j \in 1 .. k, i <= j PROVE fed[i].t <= fed[j].t
    OBVIOUS
  <2>1. CASE j \in 1 .. n
    BY <1>1, <1>2, <1>4, <2>1
  <2>2. CASE j \notin 1 .. n
    BY <1>1, <1>4, <1>5, <2>2
  <2> QED
    BY <2>1, <2>2
<1> HIDE DEF n, fed, k
<1>7. [t |-> at, w |-> w] \in Reading
  BY DEF Reading
<1>8. /\ next \in Seq(Reading) /\ Len(next) = k + 1 /\ DOMAIN next = 1 .. k + 1
      /\ next[k + 1] = [t |-> at, w |-> w] /\ \A i \in 1 .. k : next[i] = fed[i]
  BY <1>4, <1>7 DEF k
<1> HIDE DEF next
<1>9. \A i \in 1 .. k + 1 : i \in 1 .. k \/ i = k + 1
  BY <1>4
<1>10. \A i \in 1 .. k + 1 : next[i].t \in Nat /\ next[i].t <= at
  BY <1>5, <1>8, <1>9
<1>11. InOrder(next)
  <2> SUFFICES ASSUME NEW i \in 1 .. k + 1, NEW j \in 1 .. k + 1, i <= j
               PROVE  next[i].t <= next[j].t
    BY <1>8 DEF InOrder
  <2>1. CASE j = k + 1
    BY <1>8, <1>10, <2>1
  <2>2. CASE j \in 1 .. k
    <3>1. i \in 1 .. k
      BY <1>4, <2>2
    <3> QED
      BY <1>6, <1>8, <2>2, <3>1
  <2> QED
    BY <1>9, <2>1, <2>2
<1> QED
  BY <1>1, <1>4, <1>8, <1>10, <1>11 DEF n, fed, k, next

-----------------------------------------------------------------------------
(* A circuit's last return.                                                *)

Dead(r) == r.w # None /\ r.w <= DEAD_W

\* m is the circuit's last dead reading.
LastDead(log, m) == Dead(log[m]) /\ \A i \in DOMAIN log : i > m => ~Dead(log[i])

\* `end` is its first live reading after that.
ReturnOK(log, end) ==
  \E m \in DOMAIN log :
    /\ LastDead(log, m)
    /\ IF end = None THEN \A i \in DOMAIN log : i > m => log[i].w = None
       ELSE \E k \in DOMAIN log :
              /\ k > m /\ log[k].w # None /\ end = log[k].t
              /\ \A i \in DOMAIN log : m < i /\ i < k => log[i].w = None

\* A reading that repeats the last one does not change it.
LEMMA RepeatIsNoReturn ==
  ASSUME NEW log \in Seq(Reading), NEW fed \in Seq(Reading), NEW end,
         Len(fed) >= Len(log), \A i \in DOMAIN log : fed[i] = log[i],
         \A i \in DOMAIN fed : i > Len(log) => fed[i].w = log[Len(log)].w,
         ReturnOK(log, end)
  PROVE  ReturnOK(fed, end)
<1> DEFINE n == Len(log)
           k == Len(fed)
<1>1. n \in Nat /\ k \in Nat /\ k >= n /\ DOMAIN log = 1 .. n /\ DOMAIN fed = 1 .. k
  OBVIOUS
<1> HIDE DEF n, k
<1>2. PICK m \in 1 .. n :
        /\ LastDead(log, m)
        /\ IF end = None THEN \A i \in 1 .. n : i > m => log[i].w = None
           ELSE \E j \in 1 .. n :
                  /\ j > m /\ log[j].w # None /\ end = log[j].t
                  /\ \A i \in 1 .. n : m < i /\ i < j => log[i].w = None
  BY <1>1 DEF ReturnOK
<1>3. /\ \A i \in 1 .. n : i \in 1 .. k /\ fed[i] = log[i]
      /\ \A i \in 1 .. k : i \in 1 .. n \/ (i > n /\ fed[i].w = log[n].w)
      /\ n \in 1 .. n
  BY <1>1 DEF n
<1>4. CASE Dead(log[n])
  <2>1. m = n
    BY <1>1, <1>2, <1>3, <1>4 DEF LastDead
  <2>2. end = None
    BY <1>1, <1>2, <2>1
  <2>3. \A i \in 1 .. k : i >= n => fed[i].w = log[n].w
    BY <1>1, <1>3
  <2>4. k \in 1 .. k /\ k >= n /\ Dead(fed[k])
    BY <1>1, <1>3, <1>4, <2>3 DEF Dead
  <2>5. \A i \in 1 .. k : ~(i > k)
    BY <1>1
  <2> QED
    BY <1>1, <2>2, <2>4, <2>5 DEF ReturnOK, LastDead
<1>5. CASE ~Dead(log[n])
  <2>1. m < n /\ m \in 1 .. k
    <3>1. m # n
      BY <1>2, <1>5 DEF LastDead
    <3> QED
      BY <1>1, <1>3, <3>1
  <2>2. LastDead(fed, m)
    BY <1>1, <1>2, <1>3, <1>5 DEF LastDead, Dead
  <2>3. CASE end = None
    <3>1. log[n].w = None
      BY <1>2, <1>3, <2>1, <2>3
    <3>2. \A i \in 1 .. k : i > m => fed[i].w = None
      BY <1>2, <1>3, <2>3, <3>1
    <3> QED
      BY <1>1, <2>1, <2>2, <2>3, <3>2 DEF ReturnOK
  <2>4. CASE end # None
    <3>1. PICK j \in 1 .. n : /\ j > m /\ log[j].w # None /\ end = log[j].t
                              /\ \A i \in 1 .. n : m < i /\ i < j => log[i].w = None
      BY <1>2, <2>4
    <3>2. \A i \in 1 .. k : i < j => i \in 1 .. n
      BY <1>1
    <3>3. j \in 1 .. k /\ fed[j] = log[j] /\ \A i \in 1 .. k : m < i /\ i < j => fed[i].w = None
      BY <1>3, <3>1, <3>2
    <3> QED
      BY <1>1, <2>1, <2>2, <2>4, <3>1, <3>3 DEF ReturnOK
  <2> QED
    BY <2>3, <2>4
<1> QED
  BY <1>4, <1>5

\* The circuit reads w at time `at`: what Follow makes of the incident's end is right.
LEMMA FollowReturns ==
  ASSUME NEW incident \in Incident, incident.lost = None,
         NEW fed \in Seq(Reading), ReturnOK(fed, incident.end),
         NEW at \in Nat, NEW w \in Watts \cup {None}, NEW next, next = Append(fed, [t |-> at, w |-> w]),
         Follow(incident, w, at).lost = None
  PROVE  ReturnOK(next, Follow(incident, w, at).end)
<1> DEFINE k == Len(fed)
           after == Follow(incident, w, at)
<1>1. /\ k \in Nat /\ DOMAIN fed = 1 .. k /\ DOMAIN next = 1 .. k + 1
      /\ next[k + 1] = [t |-> at, w |-> w] /\ \A i \in 1 .. k : next[i] = fed[i]
  <2>1. [t |-> at, w |-> w] \in Reading
    BY DEF Reading
  <2> QED
    BY <2>1
<1> HIDE DEF k
<1>2. /\ \A i \in 1 .. k + 1 : i \in 1 .. k \/ i = k + 1
      /\ \A i \in 1 .. k : i \in 1 .. k + 1 /\ i < k + 1
      /\ k + 1 \in 1 .. k + 1 /\ at # None /\ \A i \in 1 .. k + 1 : ~(i > k + 1)
  BY <1>1, Numbers
<1>3. /\ next[k + 1].w = w /\ next[k + 1].t = at
      /\ Dead(next[k + 1]) <=> w # None /\ ~(w > DEAD_W)
  <2>1. next[k + 1].w = w /\ next[k + 1].t = at
    BY <1>1
  <2>2. Dead(next[k + 1]) <=> w # None /\ w <= DEAD_W
    BY <2>1 DEF Dead
  <2>3. DEAD_W \in Int /\ (w # None => w \in Int)
    BY Numbers
  <2>4. w # None => (w <= DEAD_W <=> ~(w > DEAD_W))
    BY <2>3
  <2> QED
    BY <2>1, <2>2, <2>4
<1>4. PICK m \in 1 .. k :
        /\ LastDead(fed, m)
        /\ IF incident.end = None THEN \A i \in 1 .. k : i > m => fed[i].w = None
           ELSE \E j \in 1 .. k :
                  /\ j > m /\ fed[j].w # None /\ incident.end = fed[j].t
                  /\ \A i \in 1 .. k : m < i /\ i < j => fed[i].w = None
  BY <1>1, SMTT(30) DEF ReturnOK
<1>5. CASE w # None /\ ~(w > DEAD_W)
  <2>1. after.end = None
    BY <1>5 DEF Follow, Incident
  <2>2. Dead(next[k + 1])
    BY <1>3, <1>5
  <2>3. LastDead(next, k + 1)
    BY <1>1, <1>2, <2>2 DEF LastDead
  <2> QED
    BY <1>1, <1>2, <2>1, <2>3 DEF ReturnOK
<1>6. CASE w = None \/ w > DEAD_W
  <2>1. ~Dead(next[k + 1])
    BY <1>3, <1>6
  <2>2. LastDead(next, m) /\ m \in 1 .. k + 1
    BY <1>1, <1>2, <1>4, <2>1 DEF LastDead
  <2>3. CASE incident.end # None
    <3>1. after.end = incident.end
      BY <1>6, <2>3 DEF Follow
    <3>2. PICK j \in 1 .. k : /\ j > m /\ fed[j].w # None /\ incident.end = fed[j].t
                              /\ \A i \in 1 .. k : m < i /\ i < j => fed[i].w = None
      BY <1>4, <2>3
    <3>3. \A i \in 1 .. k + 1 : i < j => i \in 1 .. k
      BY <1>1
    <3>4. /\ j \in 1 .. k + 1 /\ next[j] = fed[j]
          /\ \A i \in 1 .. k + 1 : m < i /\ i < j => next[i].w = None
      BY <1>1, <1>2, <3>2, <3>3
    <3> QED
      BY <1>1, <2>2, <2>3, <3>1, <3>2, <3>4 DEF ReturnOK
  <2>4. CASE incident.end = None /\ w = None
    <3>1. after.lost = at
      BY <2>4 DEF Follow, Incident
    <3> QED
      BY <1>2, <3>1
  <2>5. CASE incident.end = None /\ w # None
    <3>1. after.end = at
      BY <1>6, <2>5 DEF Follow, Incident
    <3>2. /\ k + 1 > m /\ next[k + 1].w # None /\ next[k + 1].t = at
          /\ \A i \in 1 .. k + 1 : m < i /\ i < k + 1 => next[i].w = None
      BY <1>1, <1>2, <1>3, <1>4, <2>5
    <3> QED
      BY <1>1, <1>2, <2>2, <3>1, <3>2 DEF ReturnOK
  <2> QED
    BY <2>3, <2>4, <2>5
<1> QED
  BY <1>5, <1>6, Numbers

-----------------------------------------------------------------------------
(* The logs and what is kept of them, as an invariant.                     *)

\* A readable circuit reports often enough for what an incident needs of its past.
MetersReport == MAX_GAP_S <= CAP_S + GRACE_S + TOGETHER_S + SLACK_S

AllKept(edge) ==
  /\ \A c \in Circuits : KeptFrom(circuitLog[c], circuitKept[c], edge)
  /\ \A d \in Devices : KeptFrom(deviceLog[d], deviceKept[d], edge)

OtherTypes ==
  /\ armedFrom \in Nat \cup {None}
  /\ eligible \in Eligibilities
  /\ circuitKept \in [Circuits -> Nat \ {0}]
  /\ deviceLog \in [Devices -> Seq(Record)]
  /\ deviceKept \in [Devices -> Nat \ {0}]
  /\ device \in [Devices -> DeviceState]

Ordered ==
  /\ \A c \in Circuits : InOrder(circuitLog[c])
  /\ \A d \in Devices : /\ InOrder(deviceLog[d])
                        /\ \A i \in DOMAIN deviceLog[d] : deviceLog[d][i].t <= now

\* Nothing was dropped that the incident is judged by.
Needed ==
  open # None /\ MetersReport =>
    AllKept(open.lastLive - STABLE_S) /\ AllKept(open.start - TOGETHER_S)

Returned ==
  open # None /\ open.lost = None => ReturnOK(circuitLog[open.circuit], open.end)

LogInv ==
  /\ OtherTypes /\ Ordered /\ AllKept(now - HORIZON_S) /\ Needed /\ Returned

\* The other delays are numbers too, and the horizon is the sum of them.
LEMMA Delays ==
  /\ {SLACK_S, MAX_GAP_S, HORIZON_S} \subseteq Nat
  /\ HORIZON_S = STABLE_S + CAP_S + GRACE_S + TOGETHER_S + SLACK_S
BY TripDetectorAssumption DEF HORIZON_S

\* What lies before an edge lies before a later one.
LEMMA LaterEdge ==
  ASSUME NEW log, Log(log), NEW kept, NEW edge \in Int, NEW later \in Int, edge <= later,
         KeptFrom(log, kept, edge)
  PROVE  KeptFrom(log, kept, later)
BY DEF KeptFrom, Log

\* The edge of the window leaves what the incident needs.
LEMMA EdgeFacts ==
  ASSUME Inv
  PROVE  /\ now - HORIZON_S \in Int /\ Edge(now) \in Int /\ Edge(now) <= now - HORIZON_S
         /\ open # None =>
              /\ open.lastLive - STABLE_S \in Int /\ open.start - TOGETHER_S \in Int
              /\ Edge(now) <= open.lastLive - STABLE_S /\ Edge(now) <= open.start - TOGETHER_S
<1>1. now \in Nat /\ HORIZON_S \in Nat /\ STABLE_S \in Nat /\ TOGETHER_S \in Nat
  BY Numbers, Delays DEF Inv, ClockOK
<1>2. CASE open = None
  BY <1>1, <1>2 DEF Edge
<1>3. CASE open # None
  <2>1. open.lastLive \in Nat /\ open.start \in Nat /\ open.lastLive <= open.start
    BY <1>3 DEF Inv, ClockOK, IncidentIsBounded, Incident
  <2>2. Edge(now) = IF open.lastLive - STABLE_S - TOGETHER_S < now - HORIZON_S
                    THEN open.lastLive - STABLE_S - TOGETHER_S ELSE now - HORIZON_S
    BY <1>3 DEF Edge
  <2> QED
    BY <1>1, <2>1, <2>2
<1> QED
  BY <1>2, <1>3

\* A log that goes on is cut where it was, or at the edge.
LEMMA CutKeeps ==
  ASSUME NEW log, NEW n \in Nat, DOMAIN log = 1 .. n,
         NEW next, NEW k \in Nat, DOMAIN next = 1 .. k, Len(next) = k, n <= k, Log(next),
         \A i \in DOMAIN log : next[i] = log[i],
         NEW edge \in Int, NEW later \in Int, edge <= later,
         NEW kept, KeptFrom(log, kept, later)
  PROVE  KeptFrom(next, Prune(next, kept, edge), later)
<1>1. KeptFrom(next, kept, later)
  BY DEF KeptFrom
<1> QED
  BY <1>1, PruneKeeps

\* Readings and records have times.
LEMMA LogsHaveTimes ==
  /\ \A log \in Seq(Reading) : Log(log)
  /\ \A log \in Seq(Record) : Log(log)
<1>1. ASSUME NEW log \in Seq(Reading), NEW i \in DOMAIN log PROVE log[i].t \in Nat
  <2>1. log[i] \in Reading
    OBVIOUS
  <2> QED
    BY <2>1 DEF Reading
<1>2. ASSUME NEW log \in Seq(Record), NEW i \in DOMAIN log PROVE log[i].t \in Nat
  <2>1. log[i] \in Record
    OBVIOUS
  <2> QED
    BY <2>1 DEF Record
<1> QED
  BY <1>1, <1>2 DEF Log

\* At the start every log has one reading at most.
LEMMA InitLogInv ==
  Init => LogInv
<1> SUFFICES ASSUME Init PROVE LogInv
  OBVIOUS
<1>1. now \in Nat /\ now - HORIZON_S \in Int /\ open = None
  BY Delays DEF Init
<1>2. OtherTypes
  <2>1. <<>> \in Seq(Record)
    OBVIOUS
  <2> QED
    BY <2>1 DEF Init, OtherTypes
<1>3. ASSUME NEW c \in Circuits PROVE InOrder(circuitLog[c])
  <2>1. CASE circuitLog[c] = <<>>
    BY <2>1 DEF InOrder
  <2>2. CASE circuitLog[c] # <<>>
    <3>1. PICK w \in Watts \cup {None} : circuitLog[c] = <<[t |-> 0, w |-> w]>>
      BY <2>2 DEF Init
    <3>2. \A i \in DOMAIN circuitLog[c] : circuitLog[c][i].t = 0
      BY <3>1
    <3> QED
      BY <3>2 DEF InOrder
  <2> QED
    BY <2>1, <2>2
<1>4. ASSUME NEW d \in Devices
      PROVE  InOrder(deviceLog[d]) /\ \A i \in DOMAIN deviceLog[d] : deviceLog[d][i].t <= now
  BY DEF Init, InOrder
<1>5. AllKept(now - HORIZON_S)
  BY DEF Init, AllKept, KeptFrom
<1> QED
  BY <1>1, <1>2, <1>3, <1>4, <1>5 DEF LogInv, Ordered, Needed, Returned

\* A circuit's change goes on in its log, and prunes it.
LEMMA CircuitLogInv ==
  ASSUME Inv, LogInv, NEW c \in Circuits, NEW w \in Watts \cup {None},
         NEW again \in 0 .. LastEvent, CircuitChanges(c, w, again)
  PROVE  LogInv'
<1> DEFINE log  == circuitLog[c]
           fed  == Fed(log, again)
           next == Append(fed, [t |-> now, w |-> w])
<1>1. /\ now \in Nat /\ now' = now /\ again \in Nat /\ again < now
      /\ log # <<>> => log[Len(log)].t <= again
      /\ log # <<>> /\ log[Len(log)].w # None => now - again <= MAX_GAP_S
      /\ circuitLog' = [circuitLog EXCEPT ![c] = next]
      /\ circuitKept' = [circuitKept EXCEPT ![c] = Prune(next, circuitKept[c], Edge(now))]
      /\ open' = After(c, fed, w, now)
      /\ UNCHANGED <<armedFrom, eligible, deviceLog, deviceKept, device>>
  BY TripDetectorAssumption DEF CircuitChanges, Inv, ClockOK, Fed
<1>2. /\ log \in Seq(Reading) /\ InOrder(log) /\ KeptFrom(log, circuitKept[c], now - HORIZON_S)
      /\ circuitLog \in [Circuits -> Seq(Reading)] /\ circuitKept \in [Circuits -> Nat \ {0}]
  BY DEF Inv, ClockOK, LogInv, Ordered, AllKept, OtherTypes
<1> HIDE DEF log
<1>3. /\ fed \in Seq(Reading) /\ next \in Seq(Reading)
      /\ Len(fed) >= Len(log) /\ \A i \in DOMAIN log : fed[i] = log[i]
      /\ \A i \in DOMAIN fed : i > Len(log) => log # <<>> /\ fed[i].w = log[Len(log)].w
      /\ Len(next) = Len(fed) + 1 /\ \A i \in DOMAIN fed : next[i] = fed[i]
      /\ next[Len(fed) + 1] = [t |-> now, w |-> w]
      /\ InOrder(next)
      /\ fed # <<>> => /\ log # <<>> /\ fed[Len(fed)].t = again
                       /\ fed[Len(fed)].w = log[Len(log)].w
  BY <1>1, <1>2, FedFacts
<1> HIDE DEF fed
<1>4. next = Append(fed, [t |-> now, w |-> w])
  OBVIOUS
<1> HIDE DEF next
<1>5. /\ circuitLog'[c] = next /\ circuitKept'[c] = Prune(next, circuitKept[c], Edge(now))
      /\ \A b \in Circuits \ {c} : /\ circuitLog'[b] = circuitLog[b]
                                   /\ circuitKept'[b] = circuitKept[b]
  BY <1>1, <1>2
<1>6. ASSUME NEW e \in Int, Edge(now) <= e, AllKept(e) PROVE AllKept(e)'
  <2>1. KeptFrom(log, circuitKept[c], e)
    BY <1>6 DEF AllKept, log
  <2>2. /\ Len(log) \in Nat /\ DOMAIN log = 1 .. Len(log)
        /\ Len(next) \in Nat /\ DOMAIN next = 1 .. Len(next) /\ Len(log) <= Len(next)
        /\ \A i \in DOMAIN log : next[i] = log[i]
        /\ Log(next)
    BY <1>2, <1>3, LogsHaveTimes
  <2>3. KeptFrom(next, Prune(next, circuitKept[c], Edge(now)), e)
    BY <1>6, <2>1, <2>2, CutKeeps, EdgeFacts
  <2> QED
    BY <1>1, <1>5, <1>6, <2>3 DEF AllKept
<1>7. AllKept(now - HORIZON_S)'
  BY <1>1, <1>6, EdgeFacts DEF LogInv
<1>8. OtherTypes'
  <2>1. circuitKept'[c] \in Nat \ {0}
    BY <1>7 DEF AllKept, KeptFrom
  <2> QED
    BY <1>1, <1>2, <1>5, <2>1 DEF LogInv, OtherTypes
<1>9. Ordered'
  BY <1>1, <1>3, <1>5 DEF LogInv, Ordered
<1>10. CASE open # None
  <2>1. open \in Incident /\ open.circuit \in Circuits
    BY <1>10 DEF Inv, ClockOK, Incident
  <2>2. open' = IF open.circuit = c THEN Follow(open, w, now) ELSE open
    BY <1>1, <1>10 DEF After
  <2>3. open' # None /\ open'.start = open.start /\ open'.lastLive = open.lastLive
        /\ open'.circuit = open.circuit
    <3>1. Listening
      BY DEF CircuitChanges
    <3>2. /\ Follow(open, w, now) \in Incident /\ Follow(open, w, now).start = open.start
          /\ Follow(open, w, now).lastLive = open.lastLive
          /\ Follow(open, w, now).circuit = open.circuit
      BY <1>10, <3>1, FollowProperties
    <3> QED
      BY <1>10, <2>2, <3>2, NoneAssumption
  <2>4. Needed'
    <3> SUFFICES ASSUME MetersReport
                 PROVE  AllKept(open.lastLive - STABLE_S)' /\ AllKept(open.start - TOGETHER_S)'
      BY <2>3 DEF Needed
    <3>1. AllKept(open.lastLive - STABLE_S) /\ AllKept(open.start - TOGETHER_S)
      BY <1>10 DEF LogInv, Needed
    <3>2. PICK e \in Int, f \in Int : e = open.lastLive - STABLE_S /\ f = open.start - TOGETHER_S
      BY <1>10, EdgeFacts
    <3>3. Edge(now) <= e /\ Edge(now) <= f /\ AllKept(e) /\ AllKept(f)
      BY <1>10, <3>1, <3>2, EdgeFacts
    <3>4. AllKept(e)' /\ AllKept(f)'
      BY <1>6, <3>3
    <3>5. open'.lastLive - STABLE_S = e /\ open'.start - TOGETHER_S = f
      BY <2>3, <3>2
    <3> QED
      BY <3>4, <3>5 DEF AllKept
  <2>5. Returned'
    <3> SUFFICES ASSUME open'.lost = None
                 PROVE  ReturnOK(circuitLog'[open'.circuit], open'.end)
      BY DEF Returned
    <3>1. CASE open.circuit = c
      <4>1. open' = Follow(open, w, now) /\ circuitLog'[open'.circuit] = next
        BY <1>5, <2>2, <2>3, <3>1
      <4>2. open.lost = None
        BY <4>1 DEF Follow
      <4>3. ReturnOK(log, open.end)
        BY <1>10, <3>1, <4>2 DEF LogInv, Returned, log
      <4>4. ReturnOK(fed, open.end)
        BY <1>2, <1>3, <4>3, RepeatIsNoReturn
      <4> QED
        BY <1>1, <1>3, <1>4, <2>1, <4>1, <4>2, <4>4, FollowReturns
    <3>2. CASE open.circuit # c
      BY <1>5, <1>10, <2>1, <2>2, <3>2 DEF LogInv, Returned
    <3> QED
      BY <3>1, <3>2
  <2> QED
    BY <1>7, <1>8, <1>9, <2>4, <2>5 DEF LogInv
<1>11. CASE open = None /\ fed # <<>> /\ Opens(c, fed[Len(fed)], w, now)
  <2>1. open' = [circuit |-> c, start |-> now, lastLive |-> fed[Len(fed)].t,
                 end |-> None, lost |-> None]
    BY <1>1, <1>11 DEF After
  <2>2. fed[Len(fed)].t = again /\ now - again <= MAX_GAP_S
    BY <1>1, <1>3, <1>11 DEF Opens
  <2>3. Needed'
    <3> SUFFICES ASSUME MetersReport
                 PROVE  AllKept(open.lastLive - STABLE_S)' /\ AllKept(open.start - TOGETHER_S)'
      BY DEF Needed
    <3>1. /\ now \in Nat /\ again \in Nat /\ HORIZON_S \in Nat
          /\ STABLE_S \in Nat /\ CAP_S \in Nat /\ GRACE_S \in Nat /\ TOGETHER_S \in Nat
          /\ SLACK_S \in Nat /\ MAX_GAP_S \in Nat
      BY <1>1, Numbers, Delays
    <3>2. PICK e \in Int, f \in Int, g \in Int :
            e = now - HORIZON_S /\ f = again - STABLE_S /\ g = now - TOGETHER_S
      BY <3>1
    <3>3. e <= f
      <4>1. HORIZON_S >= STABLE_S + MAX_GAP_S
        BY <3>1, Delays DEF MetersReport
      <4> QED
        BY <2>2, <3>1, <3>2, <4>1
    <3>4. e <= g
      <4>1. HORIZON_S >= TOGETHER_S
        BY <3>1, Delays
      <4> QED
        BY <3>1, <3>2, <4>1
    <3>5. f = open'.lastLive - STABLE_S /\ g = open'.start - TOGETHER_S
      BY <2>1, <2>2, <3>2
    <3>6. AllKept(e)'
      BY <1>1, <1>7, <3>2 DEF AllKept
    <3>7. \A b \in Circuits : Log(circuitLog'[b])
      BY <1>2, <1>3, <1>5, LogsHaveTimes
    <3>8. \A d \in Devices : Log(deviceLog'[d])
      BY <1>8, LogsHaveTimes DEF OtherTypes
    <3>9. ASSUME NEW later \in Int, e <= later PROVE AllKept(later)'
      BY <3>6, <3>7, <3>8, <3>9, LaterEdge DEF AllKept
    <3>10. AllKept(f)' /\ AllKept(g)'
      BY <3>3, <3>4, <3>9
    <3> QED
      BY <3>5, <3>10 DEF AllKept
  <2>4. Returned'
    <3>1. Len(fed) + 1 \in DOMAIN next /\ \A i \in DOMAIN next : ~(i > Len(fed) + 1)
      BY <1>3
    <3>2. Dead(next[Len(fed) + 1])
      <4>1. next[Len(fed) + 1].w = w
        BY <1>3
      <4> QED
        BY <1>11, <4>1 DEF Dead, Opens
    <3>3. ReturnOK(next, None)
      BY <3>1, <3>2 DEF ReturnOK, LastDead
    <3> QED
      BY <1>5, <2>1, <3>3 DEF Returned
  <2> QED
    BY <1>7, <1>8, <1>9, <2>3, <2>4 DEF LogInv
<1>12. CASE open = None /\ ~(fed # <<>> /\ Opens(c, fed[Len(fed)], w, now))
  <2>1. open' = None
    BY <1>1, <1>12 DEF After
  <2> QED
    BY <1>7, <1>8, <1>9, <2>1 DEF LogInv, Needed, Returned
<1> QED
  BY <1>10, <1>11, <1>12

\* A device's change goes on in its log, and prunes it.
LEMMA DeviceLogInv ==
  ASSUME Inv, LogInv, NEW d \in Devices, NEW s \in DeviceState, DeviceChanges(d, s)
  PROVE  LogInv'
<1> DEFINE log  == deviceLog[d]
           r    == [t |-> now, was |-> device[d], is |-> s]
           next == Append(log, r)
<1>1. /\ now \in Nat /\ now' = now
      /\ \A i \in DOMAIN log : log[i].t < now
      /\ device' = [device EXCEPT ![d] = s]
      /\ deviceLog' = [deviceLog EXCEPT ![d] = next]
      /\ deviceKept' = [deviceKept EXCEPT ![d] = Prune(next, deviceKept[d], Edge(now))]
      /\ UNCHANGED <<armedFrom, eligible, circuitLog, circuitKept, open>>
  BY DEF DeviceChanges, Inv, ClockOK
<1>2. /\ log \in Seq(Record) /\ InOrder(log) /\ r \in Record
      /\ deviceLog \in [Devices -> Seq(Record)] /\ deviceKept \in [Devices -> Nat \ {0}]
      /\ device \in [Devices -> DeviceState]
  BY <1>1 DEF LogInv, Ordered, OtherTypes, Record
<1>3. r.t = now
  OBVIOUS
<1> HIDE DEF log, r
<1>4. /\ next \in Seq(Record) /\ Len(next) = Len(log) + 1 /\ Len(log) \in Nat
      /\ DOMAIN log = 1 .. Len(log) /\ DOMAIN next = 1 .. Len(log) + 1
      /\ next[Len(log) + 1] = r /\ \A i \in DOMAIN log : next[i] = log[i]
  BY <1>2
<1> HIDE DEF next
<1>5. /\ deviceLog'[d] = next /\ deviceKept'[d] = Prune(next, deviceKept[d], Edge(now))
      /\ \A e \in Devices \ {d} : /\ deviceLog'[e] = deviceLog[e]
                                  /\ deviceKept'[e] = deviceKept[e]
  BY <1>1, <1>2
<1>6. Log(next) /\ Log(log)
  BY <1>2, <1>4, LogsHaveTimes
<1>7. ASSUME NEW e \in Int, Edge(now) <= e, AllKept(e) PROVE AllKept(e)'
  <2>1. KeptFrom(log, deviceKept[d], e)
    BY <1>7 DEF AllKept, log
  <2>2. Len(next) \in Nat /\ DOMAIN next = 1 .. Len(next) /\ Len(log) <= Len(next)
    BY <1>4
  <2>3. KeptFrom(next, Prune(next, deviceKept[d], Edge(now)), e)
    BY <1>4, <1>6, <1>7, <2>1, <2>2, CutKeeps, EdgeFacts
  <2> QED
    BY <1>1, <1>5, <1>7, <2>3 DEF AllKept
<1>8. AllKept(now - HORIZON_S)'
  BY <1>1, <1>7, EdgeFacts DEF LogInv
<1>9. OtherTypes'
  <2>1. deviceKept'[d] \in Nat \ {0}
    BY <1>8 DEF AllKept, KeptFrom
  <2> QED
    BY <1>1, <1>2, <1>4, <1>5, <2>1 DEF LogInv, OtherTypes
<1>10. Ordered'
  <2>1. \A i \in DOMAIN next : i \in DOMAIN log \/ i = Len(log) + 1
    BY <1>4
  <2>2. \A i \in DOMAIN next : next[i].t \in Nat /\ next[i].t <= now
    BY <1>1, <1>3, <1>4, <1>6, <2>1 DEF Log
  <2>3. InOrder(next)
    <3> SUFFICES ASSUME NEW i \in DOMAIN next, NEW j \in DOMAIN next, i <= j
                 PROVE  next[i].t <= next[j].t
      BY DEF InOrder
    <3>1. CASE j = Len(log) + 1
      BY <1>3, <1>4, <2>2, <3>1
    <3>2. CASE j \in DOMAIN log
      <4>1. i \in DOMAIN log
        BY <1>4, <3>2
      <4> QED
        BY <1>2, <1>4, <3>2, <4>1 DEF InOrder
    <3> QED
      BY <2>1, <3>1, <3>2
  <2> QED
    BY <1>1, <1>5, <2>2, <2>3 DEF LogInv, Ordered
<1>11. Needed'
  <2> SUFFICES ASSUME open # None, MetersReport
               PROVE  AllKept(open.lastLive - STABLE_S)' /\ AllKept(open.start - TOGETHER_S)'
    BY <1>1 DEF Needed
  <2>1. PICK e \in Int, f \in Int : e = open.lastLive - STABLE_S /\ f = open.start - TOGETHER_S
    BY EdgeFacts
  <2>2. Edge(now) <= e /\ Edge(now) <= f /\ AllKept(e) /\ AllKept(f)
    BY <2>1, EdgeFacts DEF LogInv, Needed
  <2>3. AllKept(e)' /\ AllKept(f)'
    BY <1>7, <2>2
  <2> QED
    BY <1>1, <2>1, <2>3 DEF AllKept
<1>12. Returned'
  BY <1>1 DEF LogInv, Returned
<1> QED
  BY <1>8, <1>9, <1>10, <1>11, <1>12 DEF LogInv

\* Other steps leave the logs as they are: an incident at most ends, and time passes.
LEMMA OtherLogInv ==
  ASSUME Inv, LogInv, UNCHANGED <<logs, device>>, open' = open \/ open' = None,
         armedFrom' \in Nat \cup {None}, eligible' \in Eligibilities,
         now' = now \/ now' = now + 1
  PROVE  LogInv'
<1>1. UNCHANGED <<circuitLog, circuitKept, deviceLog, deviceKept, device>>
  BY DEF logs
<1>2. now \in Nat /\ HORIZON_S \in Nat
  BY Delays DEF Inv, ClockOK
<1>3. /\ \A c \in Circuits : Log(circuitLog[c])
      /\ \A d \in Devices : Log(deviceLog[d])
  BY LogsHaveTimes DEF Inv, ClockOK, LogInv, OtherTypes
<1>4. OtherTypes'
  BY <1>1 DEF LogInv, OtherTypes
<1>5. Ordered'
  <2> SUFFICES ASSUME NEW d \in Devices, NEW i \in DOMAIN deviceLog[d]
               PROVE  deviceLog[d][i].t <= now'
    BY <1>1 DEF LogInv, Ordered
  <2>1. deviceLog[d][i].t <= now /\ deviceLog[d][i].t \in Nat
    BY <1>3 DEF LogInv, Ordered, Log
  <2> QED
    BY <1>2, <2>1
<1>6. AllKept(now - HORIZON_S)'
  <2>1. PICK e \in Int, f \in Int : e = now - HORIZON_S /\ f = now' - HORIZON_S /\ e <= f
    BY <1>2
  <2>2. AllKept(e)
    BY <2>1 DEF LogInv
  <2>3. AllKept(f)
    BY <1>3, <2>1, <2>2, LaterEdge DEF AllKept
  <2> QED
    BY <1>1, <2>1, <2>3 DEF AllKept
<1>7. Needed' /\ Returned'
  BY <1>1 DEF LogInv, Needed, Returned, AllKept
<1> QED
  BY <1>4, <1>5, <1>6, <1>7 DEF LogInv

\* Every step keeps the invariant.
LEMMA NextLogInv ==
  Inv /\ LogInv /\ [Next]_vars => LogInv'
<1> SUFFICES ASSUME Inv, LogInv, [Next]_vars PROVE LogInv'
  OBVIOUS
<1>1. ASSUME NEW c \in Circuits, NEW w \in Watts \cup {None}, NEW again \in 0 .. LastEvent,
             CircuitChanges(c, w, again)
      PROVE  LogInv'
  BY <1>1, CircuitLogInv
<1>2. ASSUME NEW d \in Devices, NEW s \in DeviceState, DeviceChanges(d, s) PROVE LogInv'
  BY <1>2, DeviceLogInv
<1>3. now \in Nat /\ armedFrom \in Nat \cup {None} /\ eligible \in Eligibilities
  BY DEF Inv, ClockOK, LogInv, OtherTypes
<1>4. CASE TimerFires
  BY <1>3, <1>4, OtherLogInv DEF TimerFires
<1>5. CASE Tick
  BY <1>3, <1>5, OtherLogInv DEF Tick
<1>6. CASE Started
  <2>1. now + STABLE_S \in Nat
    BY <1>3, Numbers
  <2> QED
    BY <1>3, <1>6, <2>1, OtherLogInv DEF Started
<1>7. ASSUME NEW S \in Eligibilities, Rejudge(S) PROVE LogInv'
  BY <1>3, <1>7, OtherLogInv DEF Rejudge
<1>8. CASE UNCHANGED vars
  BY <1>3, <1>8, OtherLogInv DEF vars
<1> QED
  BY <1>1, <1>2, <1>4, <1>5, <1>6, <1>7, <1>8 DEF Next

\* It holds with the first.
LEMMA LogInvariant ==
  Spec => [](Inv /\ LogInv)
<1>1. Init => Inv /\ LogInv
  BY InitInv, InitLogInv
<1>2. (Inv /\ LogInv) /\ [Next]_vars => (Inv /\ LogInv)'
  BY NextInv, NextLogInv
<1> QED
  BY <1>1, <1>2, PTL DEF Spec

-----------------------------------------------------------------------------
(* The state of the detector and of its watcher keeps its types.           *)
THEOREM DetectorTypes ==
  Spec => []TypeOK
<1>1. Inv /\ LogInv => TypeOK
  BY DEF Inv, ClockOK, LogInv, OtherTypes, TypeOK
<1> QED
  BY <1>1, LogInvariant, PTL

\* The first live reading after a log's last dead one.
Return(log) ==
  LET dead  == {i \in DOMAIN log : log[i].w # None /\ log[i].w <= DEAD_W}
      lives == {i \in DOMAIN log : i > Max(dead) /\ log[i].w # None}
  IN  IF lives = {} THEN None ELSE log[Min(lives)].t

\* It is what Follow keeps.
LEMMA LastReturnIsTheEnd ==
  ASSUME NEW log \in Seq(Reading), NEW end, ReturnOK(log, end)
  PROVE  end = Return(log)
<1> SUFFICES ASSUME NEW dead, dead = {i \in DOMAIN log : log[i].w # None /\ log[i].w <= DEAD_W},
                    NEW lives, lives = {i \in DOMAIN log : i > Max(dead) /\ log[i].w # None}
             PROVE  end = IF lives = {} THEN None ELSE log[Min(lives)].t
  BY DEF Return
<1> DEFINE n == Len(log)
<1>1. n \in Nat /\ DOMAIN log = 1 .. n
  OBVIOUS
<1> HIDE DEF n
<1>2. \A i \in 1 .. n : i \in dead <=> Dead(log[i])
  BY <1>1 DEF Dead
<1>3. PICK m \in 1 .. n :
        /\ LastDead(log, m)
        /\ IF end = None THEN \A i \in 1 .. n : i > m => log[i].w = None
           ELSE \E k \in 1 .. n :
                  /\ k > m /\ log[k].w # None /\ end = log[k].t
                  /\ \A i \in 1 .. n : m < i /\ i < k => log[i].w = None
  BY <1>1 DEF ReturnOK
<1>4. Max(dead) = m
  <2>1. dead \subseteq 0 .. n /\ m \in dead
    BY <1>1, <1>2, <1>3 DEF LastDead
  <2>2. Max(dead) \in dead /\ m <= Max(dead)
    BY <1>1, <2>1, Greatest
  <2>3. Max(dead) \in 1 .. n /\ Dead(log[Max(dead)])
    BY <1>1, <1>2, <2>2
  <2>4. ~(Max(dead) > m)
    BY <1>1, <1>3, <2>3 DEF LastDead
  <2> QED
    BY <2>2, <2>3, <2>4
<1>5. \A i \in 1 .. n : i \in lives <=> i > m /\ log[i].w # None
  BY <1>1, <1>4
<1>6. lives \subseteq 1 .. n
  BY <1>1
<1>7. CASE end = None
  <2>1. lives = {}
    BY <1>3, <1>5, <1>6, <1>7
  <2> QED
    BY <1>7, <2>1
<1>8. CASE end # None
  <2>1. PICK k \in 1 .. n : /\ k > m /\ log[k].w # None /\ end = log[k].t
                            /\ \A i \in 1 .. n : m < i /\ i < k => log[i].w = None
    BY <1>3, <1>8
  <2>2. k \in lives
    BY <1>5, <2>1
  <2>3. Min(lives) \in lives /\ Min(lives) <= k
    <3>1. lives \subseteq Nat /\ lives # {}
      BY <1>6, <2>2
    <3> QED
      BY <2>2, <3>1, Least
  <2>4. Min(lives) \in 1 .. n /\ Min(lives) > m /\ log[Min(lives)].w # None
    BY <1>5, <1>6, <2>3
  <2>5. ~(Min(lives) < k)
    BY <2>1, <2>4
  <2>6. Min(lives) = k
    BY <2>3, <2>4, <2>5
  <2> QED
    BY <2>1, <2>2, <2>6
<1> QED
  BY <1>7, <1>8

(* An incident's end is its circuit's first live reading after its last    *)
(* dead one, however it flaps (breaker.py's Follow, trips.py's handler).   *)
THEOREM EndIsAlwaysTheLastReturn ==
  Spec => []EndIsTheLastReturn
<1>1. Inv /\ LogInv => EndIsTheLastReturn
  <2> SUFFICES ASSUME Inv, LogInv, open # None, open.lost = None
               PROVE  open.end = Return(circuitLog[open.circuit])
    BY DEF EndIsTheLastReturn, Return
  <2>1. circuitLog[open.circuit] \in Seq(Reading)
    BY DEF Inv, ClockOK, Incident
  <2>2. ReturnOK(circuitLog[open.circuit], open.end)
    BY DEF LogInv, Returned
  <2> QED
    BY <2>1, <2>2, LastReturnIsTheEnd
<1> QED
  BY <1>1, LogInvariant, PTL

\* The judgement reads no log before what is kept.
LEMMA JudgedOnWhatIsKept ==
  ASSUME MetersReport, Inv, LogInv, open # None
  PROVE  Judged(circuitKept, deviceKept) = Judged(Everything, EveryRecord)
<1>1. /\ open.lastLive \in Nat /\ open.start \in Nat
      /\ STABLE_S \in Nat /\ TOGETHER_S \in Nat
      /\ AllKept(open.lastLive - STABLE_S) /\ AllKept(open.start - TOGETHER_S)
  BY Numbers DEF Inv, ClockOK, Incident, LogInv, Needed
<1>2. PICK stable \in Int, fall \in Int, live \in Nat :
        /\ stable = open.lastLive - STABLE_S /\ fall = open.start - TOGETHER_S
        /\ live = open.lastLive /\ stable <= live
  BY <1>1
<1>3. AllKept(stable) /\ AllKept(fall)
  BY <1>1, <1>2
<1>4. ASSUME NEW c \in Circuits PROVE Fell(c, circuitKept) <=> Fell(c, Everything)
  <2>1. circuitLog[c] \in Seq(Reading) /\ Log(circuitLog[c])
    BY LogsHaveTimes DEF Inv, ClockOK
  <2>2. /\ Len(circuitLog[c]) \in Nat /\ DOMAIN circuitLog[c] = 1 .. Len(circuitLog[c])
        /\ InOrder(circuitLog[c]) /\ KeptFrom(circuitLog[c], circuitKept[c], fall)
    BY <1>3, <2>1 DEF LogInv, Ordered, AllKept
  <2>3. /\ \A to : Within(circuitLog[c], circuitKept[c], fall, to)
                     = Within(circuitLog[c], 1, fall, to)
        /\ InForce(circuitLog[c], circuitKept[c], fall) = InForce(circuitLog[c], 1, fall)
    BY <2>1, <2>2, PrunedReadsTheSame
  <2>4. Everything[c] = 1
    BY DEF Everything
  <2> QED
    BY <1>2, <2>3, <2>4 DEF Fell
<1>5. ASSUME NEW d \in Devices
      PROVE  /\ Counted(d, deviceKept) <=> Counted(d, EveryRecord)
             /\ Dropped(d, deviceKept) <=> Dropped(d, EveryRecord)
             /\ Collapsed(d, deviceKept) <=> Collapsed(d, EveryRecord)
  <2> DEFINE log == deviceLog[d]
             kept == deviceKept[d]
  <2>1. log \in Seq(Record) /\ Log(log)
    BY LogsHaveTimes DEF LogInv, OtherTypes
  <2>2. /\ Len(log) \in Nat /\ DOMAIN log = 1 .. Len(log)
        /\ InOrder(log) /\ KeptFrom(log, kept, stable)
    BY <1>3, <2>1 DEF LogInv, Ordered, AllKept
  <2> HIDE DEF log, kept
  <2>3. ASSUME NEW stamp \in Int, stable <= stamp
        PROVE  /\ \A to : Within(log, kept, stamp, to) = Within(log, 1, stamp, to)
               /\ InForce(log, kept, stamp) = InForce(log, 1, stamp)
               /\ kept = 1 \/ InForce(log, kept, stamp) # 0
    BY <2>1, <2>2, <2>3, PrunedReadsTheSame
  <2>4. /\ \A to : Within(log, kept, stable, to) = Within(log, 1, stable, to)
        /\ InForce(log, kept, stable) = InForce(log, 1, stable)
        /\ kept = 1 \/ InForce(log, kept, stable) # 0
    BY <2>3
  <2>5. /\ \A to : Within(log, kept, live, to) = Within(log, 1, live, to)
        /\ InForce(log, kept, live) = InForce(log, 1, live)
        /\ kept = 1 \/ InForce(log, kept, live) # 0
    BY <1>2, <2>3
  <2>6. EveryRecord[d] = 1
    BY DEF EveryRecord
  <2>7. Stable(log, kept, live) <=> Stable(log, 1, live)
    <3>1. live - STABLE_S = stable
      BY <1>2
    <3> QED
      BY <2>4, <3>1 DEF Stable
  <2>8. ReadingAt(log, kept, live) = ReadingAt(log, 1, live)
    BY <2>5 DEF ReadingAt
  <2>9. /\ Counted(d, deviceKept) <=> /\ Within(log, kept, live, Due(open)) # {}
                                      /\ Stable(log, kept, live)
        /\ Counted(d, EveryRecord) <=> /\ Within(log, 1, live, Due(open)) # {}
                                       /\ Stable(log, 1, live)
    BY <1>2, <2>6 DEF Counted, log, kept
  <2>10. Dropped(d, deviceKept) <=> Dropped(d, EveryRecord)
    BY <1>2, <2>5, <2>6 DEF Dropped, log, kept
  <2>11. Collapsed(d, deviceKept) <=> Collapsed(d, EveryRecord)
    BY <1>2, <2>5, <2>6, <2>8 DEF Collapsed, log, kept
  <2> QED
    BY <2>5, <2>7, <2>9, <2>10, <2>11
<1>6. {c \in Circuits : Fell(c, circuitKept)} = {c \in Circuits : Fell(c, Everything)}
  BY <1>4
<1>7. {d \in Devices : Counted(d, deviceKept) /\ Dropped(d, deviceKept)}
        = {d \in Devices : Counted(d, EveryRecord) /\ Dropped(d, EveryRecord)}
  BY <1>5
<1>8. ASSUME NEW D
      PROVE  {d \in Devices \ D : Counted(d, deviceKept) /\ Collapsed(d, deviceKept)}
               = {d \in Devices \ D : Counted(d, EveryRecord) /\ Collapsed(d, EveryRecord)}
  BY <1>5
<1> QED
  BY <1>6, <1>7, <1>8, Zenon DEF Judged

(* If readable circuits report at least every CAP_S + GRACE_S + TOGETHER_S *)
(* and 60 s, nothing that _HORIZON_S prunes (breaker.py:355) would have    *)
(* changed the judgement of an incident.                                   *)
THEOREM PruningIsInvisible ==
  ASSUME MetersReport
  PROVE  Spec => []NothingJudgedWasPruned
<1>1. Inv /\ LogInv => NothingJudgedWasPruned
  BY JudgedOnWhatIsKept DEF NothingJudgedWasPruned
<1> QED
  BY <1>1, LogInvariant, PTL

(* Then also "a device counts only if it was available for this long       *)
(* before the circuit died" (breaker.py:48) is true of everything that the *)
(* device ever reported: it takes a rarely reporting meter to break it.    *)
THEOREM CasualtiesWereStable ==
  ASSUME MetersReport
  PROVE  Spec => []CasualtyWasStable
<1>1. Inv /\ LogInv => CasualtyWasStable
  <2> SUFFICES ASSUME Inv, LogInv, open # None,
                      NEW d \in Judged(circuitKept, deviceKept).confirmed
                                  \cup Judged(circuitKept, deviceKept).suspected
               PROVE  Stable(deviceLog[d], 1, open.lastLive)
    BY DEF CasualtyWasStable
  <2>1. d \in Judged(Everything, EveryRecord).confirmed
                \cup Judged(Everything, EveryRecord).suspected
    BY JudgedOnWhatIsKept
  <2>2. d \in Devices /\ Counted(d, EveryRecord)
    BY <2>1, Zenon DEF Judged
  <2>3. EveryRecord[d] = 1
    BY <2>2 DEF EveryRecord
  <2> QED
    BY <2>2, <2>3 DEF Counted
<1> QED
  BY <1>1, LogInvariant, PTL

-----------------------------------------------------------------------------
(* What the rest of the watch sees.                                        *)

\* The incident's circuit reported when it opened, or later.
Opened ==
  open # None =>
    \E i \in DOMAIN circuitLog[open.circuit] : circuitLog[open.circuit][i].t >= open.start

\* What a circuit's change does to whether its log reads dead.
LEMMA NextReads ==
  ASSUME NEW log \in Seq(Reading), InOrder(log),
         NEW again \in Nat, NEW at \in Nat, again < at, NEW w \in Watts \cup {None},
         log # <<>> => log[Len(log)].t <= again
  PROVE  LET fed  == Fed(log, again)
             next == Append(fed, [t |-> at, w |-> w])
         IN  /\ ReadDead(next) <=> IF w = None THEN ReadDead(log) ELSE w <= DEAD_W
             /\ fed # <<>> /\ fed[Len(fed)].w # None /\ fed[Len(fed)].w > DEAD_W
                  => ~ReadDead(log)
<1> DEFINE n == Len(log)
           fed == Fed(log, again)
           k == Len(fed)
           next == Append(fed, [t |-> at, w |-> w])
<1>1. /\ fed \in Seq(Reading) /\ next \in Seq(Reading)
      /\ k >= n /\ \A i \in DOMAIN log : fed[i] = log[i]
      /\ \A i \in DOMAIN fed : i > n => log # <<>> /\ fed[i].w = log[n].w
      /\ Len(next) = k + 1 /\ \A i \in DOMAIN fed : next[i] = fed[i]
      /\ next[k + 1] = [t |-> at, w |-> w]
      /\ fed # <<>> => log # <<>> /\ fed[k].w = log[n].w
  BY FedFacts
<1>2. /\ n \in Nat /\ k \in Nat /\ DOMAIN log = 1 .. n /\ DOMAIN fed = 1 .. k
      /\ DOMAIN next = 1 .. k + 1
      /\ log # <<>> => n \in 1 .. n
      /\ \A i \in 1 .. n : log[i].w \in Int \cup {None}
  <2>1. \A i \in 1 .. n : log[i] \in Reading
    OBVIOUS
  <2> HIDE DEF n, fed, k, next
  <2>2. /\ n \in Nat /\ k \in Nat /\ DOMAIN log = 1 .. n /\ DOMAIN fed = 1 .. k
        /\ DOMAIN next = 1 .. k + 1
    BY <1>1 DEF n, k
  <2>3. log # <<>> => n \in 1 .. n
    BY DEF n
  <2> QED
    BY <2>1, <2>2, <2>3, Numbers DEF Reading
<1>3. next[k + 1].w = w
  BY <1>1
<1> HIDE DEF n, fed, k, next
<1>4. ASSUME w # None PROVE ReadDead(next) <=> w <= DEAD_W
  <2>1. \A i \in 1 .. k + 1 : i = k + 1 \/ k + 1 > i
    BY <1>2
  <2>2. k + 1 \in 1 .. k + 1 /\ \A i \in 1 .. k + 1 : ~(i > k + 1)
    BY <1>2
  <2> QED
    BY <1>2, <1>3, <1>4, <2>1, <2>2 DEF ReadDead
<1>5. ASSUME w = None PROVE ReadDead(next) <=> ReadDead(log)
  <2>1. /\ \A i \in 1 .. k : i \in 1 .. k + 1 /\ next[i] = fed[i]
        /\ \A i \in 1 .. k + 1 : i \in 1 .. k \/ i = k + 1
        /\ \A i \in 1 .. n : i \in 1 .. k /\ fed[i] = log[i]
        /\ \A i \in 1 .. k : i \in 1 .. n \/ i > n
    <3>1. k >= n /\ n \in Nat /\ k \in Nat
      BY <1>1, <1>2
    <3>2. /\ \A i \in 1 .. k : i \in 1 .. k + 1
          /\ \A i \in 1 .. k + 1 : i \in 1 .. k \/ i = k + 1
          /\ \A i \in 1 .. n : i \in 1 .. k
          /\ \A i \in 1 .. k : i \in 1 .. n \/ i > n
      BY <3>1
    <3> QED
      BY <1>1, <1>2, <3>2
  <2>2. ASSUME ReadDead(log) PROVE ReadDead(next)
    <3>1. PICK i \in 1 .. n : /\ log[i].w # None /\ log[i].w <= DEAD_W
                              /\ \A j \in 1 .. n : j > i => log[j].w = None
      BY <1>2, <2>2 DEF ReadDead
    <3>2. n \in 1 .. n
      BY <1>2, <3>1
    <3>3. CASE i = n /\ k > n
      <4>1. k \in 1 .. k /\ k > n
        BY <1>2, <3>3
      <4>2. fed[k].w = log[n].w
        BY <1>1, <1>2, <4>1
      <4>3. \A j \in 1 .. k + 1 : j > k => j = k + 1
        BY <1>2
      <4> QED
        BY <1>2, <1>3, <1>5, <2>1, <3>1, <3>3, <4>1, <4>2, <4>3 DEF ReadDead
    <3>4. CASE ~(i = n /\ k > n)
      <4>1. \A j \in 1 .. k : j > i => fed[j].w = None
        <5> SUFFICES ASSUME NEW j \in 1 .. k, j > i PROVE fed[j].w = None
          OBVIOUS
        <5>1. CASE j \in 1 .. n
          BY <2>1, <3>1, <5>1
        <5>2. CASE j > n
          <6>1. n > i
            BY <1>2, <3>2, <3>4, <5>2
          <6> QED
            BY <1>1, <1>2, <3>1, <3>2, <5>2, <6>1
        <5> QED
          BY <2>1, <5>1, <5>2
      <4>2. next[i] = log[i] /\ i \in 1 .. k + 1
        BY <2>1
      <4>3. \A j \in 1 .. k + 1 : j > i => next[j].w = None
        BY <1>3, <1>5, <2>1, <4>1
      <4> QED
        BY <1>2, <3>1, <4>2, <4>3 DEF ReadDead
    <3> QED
      BY <3>3, <3>4
  <2>3. ASSUME ReadDead(next) PROVE ReadDead(log)
    <3>1. PICK i \in 1 .. k + 1 : /\ next[i].w # None /\ next[i].w <= DEAD_W
                                  /\ \A j \in 1 .. k + 1 : j > i => next[j].w = None
      BY <1>2, <2>3 DEF ReadDead
    <3>2. i \in 1 .. k /\ fed[i].w # None /\ fed[i].w <= DEAD_W
          /\ \A j \in 1 .. k : j > i => fed[j].w = None
      BY <1>3, <1>5, <2>1, <3>1
    <3>3. CASE i \in 1 .. n
      BY <1>2, <2>1, <3>2, <3>3 DEF ReadDead
    <3>4. CASE i > n
      <4>1. log # <<>> /\ fed[i].w = log[n].w
        BY <1>1, <1>2, <3>2, <3>4
      <4>2. n \in 1 .. n /\ \A j \in 1 .. n : ~(j > n)
        BY <1>2, <4>1
      <4> QED
        BY <1>2, <3>2, <4>1, <4>2 DEF ReadDead
    <3> QED
      BY <2>1, <3>2, <3>3, <3>4
  <2> QED
    BY <1>5, <2>2, <2>3
<1>6. ASSUME fed # <<>>, fed[k].w # None, fed[k].w > DEAD_W PROVE ~ReadDead(log)
  <2>1. n \in 1 .. n /\ log[n].w # None /\ log[n].w > DEAD_W /\ log[n].w \in Int
    BY <1>1, <1>2, <1>6
  <2>2. \A i \in 1 .. n : i = n \/ n > i
    BY <1>2
  <2> QED
    BY <1>2, <2>1, <2>2, Numbers DEF ReadDead
<1> QED
  BY <1>4, <1>5, <1>6 DEF n, fed, k, next

\* A circuit's change is one reading of the abstract incident, or none.
LEMMA CircuitImplements ==
  ASSUME Inv, LogInv, Opened, NEW c \in Circuits, NEW w \in Watts \cup {None},
         NEW again \in 0 .. LastEvent, CircuitChanges(c, w, again)
  PROVE  Seen!IncidentNext /\ Opened'
<1> DEFINE log  == circuitLog[c]
           fed  == Fed(log, again)
           next == Append(fed, [t |-> now, w |-> w])
           reads == {b \in Circuits : ReadDead(circuitLog[b])}
<1>1. /\ now \in Nat /\ now' = now /\ again \in Nat /\ again < now
      /\ log # <<>> => log[Len(log)].t <= again
      /\ circuitLog' = [circuitLog EXCEPT ![c] = next]
      /\ open' = After(c, fed, w, now)
      /\ open \in Incident \cup {None} /\ open' \in Incident \cup {None}
  <2>1. open' \in Incident \cup {None}
    BY CircuitInv DEF Inv, ClockOK
  <2> QED
    BY <2>1, TripDetectorAssumption DEF CircuitChanges, Inv, ClockOK, Fed
<1>2. /\ log \in Seq(Reading) /\ InOrder(log) /\ circuitLog \in [Circuits -> Seq(Reading)]
  BY DEF Inv, ClockOK, LogInv, Ordered
<1> HIDE DEF log
<1>3. /\ ReadDead(next) <=> IF w = None THEN ReadDead(log) ELSE w <= DEAD_W
      /\ fed # <<>> /\ fed[Len(fed)].w # None /\ fed[Len(fed)].w > DEAD_W => ~ReadDead(log)
      /\ next[Len(fed) + 1].t = now /\ Len(fed) + 1 \in DOMAIN next
      /\ fed # <<>> => fed[Len(fed)].t \in Nat
      /\ \A i \in DOMAIN log : i \in DOMAIN next /\ next[i] = log[i]
  <2>1. /\ ReadDead(next) <=> IF w = None THEN ReadDead(log) ELSE w <= DEAD_W
        /\ fed # <<>> /\ fed[Len(fed)].w # None /\ fed[Len(fed)].w > DEAD_W => ~ReadDead(log)
    BY <1>1, <1>2, NextReads
  <2>2. /\ fed \in Seq(Reading) /\ next \in Seq(Reading)
        /\ Len(fed) >= Len(log) /\ \A i \in DOMAIN log : fed[i] = log[i]
        /\ Len(next) = Len(fed) + 1 /\ \A i \in DOMAIN fed : next[i] = fed[i]
        /\ next[Len(fed) + 1] = [t |-> now, w |-> w]
    BY <1>1, <1>2, FedFacts
  <2> HIDE DEF fed, next
  <2>3. Len(fed) + 1 \in DOMAIN next /\ \A i \in DOMAIN log : i \in DOMAIN fed
    BY <1>2, <2>2
  <2>4. \A i \in DOMAIN fed : i \in DOMAIN next
    BY <2>2
  <2>5. ASSUME fed # <<>> PROVE fed[Len(fed)].t \in Nat
    BY <2>2, <2>5, LogsHaveTimes DEF Log
  <2> QED
    BY <2>1, <2>2, <2>3, <2>4, <2>5
<1> HIDE DEF fed, next
<1>4. circuitLog'[c] = next /\ \A b \in Circuits \ {c} : circuitLog'[b] = circuitLog[b]
  BY <1>1, <1>2
<1>5. /\ w # None /\ w <= DEAD_W => reads' = reads \cup {c}
      /\ w # None /\ ~(w <= DEAD_W) => reads' = reads \ {c}
      /\ w = None => reads' = reads
  <2>1. reads' = {b \in Circuits : ReadDead(circuitLog'[b])}
    BY DEF ReadDead
  <2> QED
    BY <1>3, <1>4, <2>1 DEF log
<1>6. Opened'
  <2> SUFFICES ASSUME open' # None
               PROVE  \E i \in DOMAIN circuitLog'[open'.circuit] :
                        circuitLog'[open'.circuit][i].t >= open'.start
    BY DEF Opened
  <2>1. CASE open = None
    <3>1. open'.circuit = c /\ open'.start = now
      BY <1>1, <2>1 DEF After
    <3> QED
      BY <1>1, <1>3, <1>4, <3>1
  <2>2. CASE open # None
    <3>1. open'.circuit = open.circuit /\ open'.start = open.start
      BY <1>1, <2>2, FollowProperties DEF After, CircuitChanges
    <3>2. PICK i \in DOMAIN circuitLog[open.circuit] :
            circuitLog[open.circuit][i].t >= open.start
      BY <2>2 DEF Opened
    <3>3. open.circuit \in Circuits
      BY <1>1, <2>2 DEF Incident
    <3>4. CASE open.circuit = c
      BY <1>3, <1>4, <3>1, <3>2, <3>4 DEF log
    <3>5. CASE open.circuit # c
      BY <1>4, <3>1, <3>2, <3>3, <3>5
    <3> QED
      BY <3>4, <3>5
  <2> QED
    BY <2>1, <2>2
\* The reading is later than the one that opened its incident.
<1>7. open # None /\ open.circuit = c => open.start < now
  <2> SUFFICES ASSUME open # None, open.circuit = c PROVE open.start < now
    OBVIOUS
  <2>1. PICK i \in DOMAIN log : log[i].t >= open.start
    BY DEF Opened, log
  <2>2. log # <<>> /\ Len(log) \in DOMAIN log /\ i <= Len(log)
    BY <1>2, <2>1
  <2>3. log[i].t <= log[Len(log)].t
    BY <1>2, <2>2 DEF InOrder
  <2>4. log[i].t \in Nat /\ log[Len(log)].t \in Nat /\ open.start \in Nat
    BY <1>1, <1>2, <2>2, LogsHaveTimes DEF Log, Incident
  <2> QED
    BY <1>1, <2>1, <2>2, <2>3, <2>4
<1>8. SeenIncident # None <=> open # None /\ open.lost = None
  BY <1>1, NoneAssumption DEF SeenIncident, SeenIncidents, Incident
<1>9. now' \in Nat /\ now' >= now
  BY <1>1
<1>10. Seen!InOrderOfTime(c)
  BY <1>1, <1>7, <1>8 DEF Seen!InOrderOfTime, Seen!OfIncident, SeenIncident
<1>11. Seen!OfIncident(c) <=> open # None /\ open.lost = None /\ open.circuit = c
  BY <1>8 DEF Seen!OfIncident, SeenIncident
<1> HIDE DEF reads
<1>12. CASE w # None /\ w <= DEAD_W
  <2>1. \/ SeenIncident = None /\ c \notin reads
           /\ SeenIncident' = [circuit |-> c, start |-> now, end |-> None]
        \/ Seen!OfIncident(c) /\ SeenIncident' = [SeenIncident EXCEPT !.end = None]
        \/ ~Seen!OfIncident(c) /\ SeenIncident' = SeenIncident
    <3>1. CASE open # None /\ open.circuit = c
      <4>1. open' = Follow(open, w, now)
        BY <1>1, <3>1 DEF After
      <4>2. CASE open.lost = None
        <5>1. open' = [open EXCEPT !.end = None] /\ open \in Incident
          BY <1>1, <1>12, <3>1, <4>1, <4>2, Numbers DEF Follow
        <5>2. /\ open'.circuit = open.circuit /\ open'.start = open.start
              /\ open'.end = None /\ open'.lost = None
          BY <4>2, <5>1 DEF Incident
        <5>3. open' # None
          BY <3>1, <4>1, FollowProperties, NoneAssumption DEF CircuitChanges
        <5>4. /\ SeenIncident = [circuit |-> open.circuit, start |-> open.start,
                                 end |-> open.end]
              /\ SeenIncident' = [circuit |-> open.circuit, start |-> open.start, end |-> None]
          BY <3>1, <4>2, <5>2, <5>3 DEF SeenIncident
        <5> QED
          BY <1>11, <3>1, <4>2, <5>4
      <4>3. CASE open.lost # None
        <5>1. open' = open
          BY <4>1, <4>3 DEF Follow
        <5> QED
          BY <1>11, <4>3, <5>1 DEF SeenIncident
      <4> QED
        BY <4>2, <4>3
    <3>2. CASE open # None /\ open.circuit # c
      <4>1. open' = open
        BY <1>1, <3>2 DEF After
      <4> QED
        BY <1>11, <3>2, <4>1 DEF SeenIncident
    <3>3. CASE open = None /\ fed # <<>> /\ Opens(c, fed[Len(fed)], w, now)
      <4>1. open' = [circuit |-> c, start |-> now, lastLive |-> fed[Len(fed)].t,
                     end |-> None, lost |-> None]
        BY <1>1, <3>3 DEF After
      <4>2. SeenIncident = None /\ open' # None
        <5>1. open' \in Incident
          BY <1>1, <1>3, <3>3, <4>1 DEF Incident
        <5> QED
          BY <3>3, <5>1, NoneAssumption DEF SeenIncident
      <4>3. SeenIncident' = [circuit |-> c, start |-> now, end |-> None]
        BY <4>1, <4>2 DEF SeenIncident
      <4>4. c \notin reads
        BY <1>3, <3>3 DEF Opens, reads, log
      <4> QED
        BY <4>2, <4>3, <4>4
    <3>4. CASE open = None /\ ~(fed # <<>> /\ Opens(c, fed[Len(fed)], w, now))
      <4>1. open' = None
        BY <1>1, <3>4 DEF After
      <4> QED
        BY <1>11, <3>4, <4>1 DEF SeenIncident
    <3> QED
      BY <3>1, <3>2, <3>3, <3>4
  <2>2. Seen!ReadsDead(c)
    BY <1>1, <1>5, <1>10, <1>12, <2>1 DEF Seen!ReadsDead, Seen!NewIncident, reads
  <2> QED
    BY <1>6, <1>9, <2>2 DEF Seen!IncidentNext
<1>13. CASE w # None /\ ~(w <= DEAD_W)
  <2>1. w \in Int /\ w > DEAD_W
    <3>1. w \in Int /\ DEAD_W \in Int
      BY <1>13, Numbers
    <3> QED
      BY <1>13, <3>1
  <2>2. SeenIncident' = IF Seen!OfIncident(c) /\ SeenIncident.end = None
                        THEN [SeenIncident EXCEPT !.end = now] ELSE SeenIncident
    <3>1. CASE open # None /\ open.circuit = c
      <4>1. open' = Follow(open, w, now) /\ open' # None
        BY <1>1, <3>1, FollowProperties, NoneAssumption DEF After, CircuitChanges
      <4>2. CASE open.lost = None /\ open.end = None
        <5>1. open' = [open EXCEPT !.end = now] /\ open \in Incident
          BY <1>1, <1>13, <2>1, <3>1, <4>1, <4>2 DEF Follow
        <5>2. /\ open'.circuit = open.circuit /\ open'.start = open.start
              /\ open'.end = now /\ open'.lost = None
          BY <4>2, <5>1 DEF Incident
        <5>3. /\ SeenIncident = [circuit |-> open.circuit, start |-> open.start, end |-> None]
              /\ SeenIncident' = [circuit |-> open.circuit, start |-> open.start, end |-> now]
          BY <3>1, <4>1, <4>2, <5>2 DEF SeenIncident
        <5> QED
          BY <1>11, <3>1, <4>2, <5>3
      <4>3. CASE ~(open.lost = None /\ open.end = None)
        <5>1. open' = open
          BY <1>13, <2>1, <4>1, <4>3 DEF Follow
        <5>2. SeenIncident' = SeenIncident
          BY <5>1 DEF SeenIncident
        <5>3. ~(Seen!OfIncident(c) /\ SeenIncident.end = None)
          BY <1>11, <4>3 DEF SeenIncident
        <5> QED
          BY <5>2, <5>3
      <4> QED
        BY <4>2, <4>3
    <3>2. CASE open = None \/ open.circuit # c
      <4>1. open' = open
        <5>1. open = None => open' = None
          BY <1>1, <1>13 DEF After, Opens
        <5>2. open # None => open' = open
          BY <1>1, <3>2 DEF After
        <5> QED
          BY <5>1, <5>2
      <4> QED
        BY <1>11, <3>2, <4>1 DEF SeenIncident
    <3> QED
      BY <3>1, <3>2
  <2>3. Seen!ReadsLive(c)
    BY <1>1, <1>5, <1>10, <1>13, <2>2 DEF Seen!ReadsLive, reads
  <2> QED
    BY <1>6, <1>9, <2>3 DEF Seen!IncidentNext
<1>14. CASE w = None
  <2>1. \/ SeenIncident' = SeenIncident
        \/ SeenIncident # None /\ SeenIncident' = None
    <3>1. CASE open # None /\ open.circuit = c
      <4>1. open' = Follow(open, w, now)
        BY <1>1, <3>1 DEF After
      <4>2. CASE open.lost = None /\ open.end = None
        <5>1. open' = [open EXCEPT !.lost = now] /\ open \in Incident
          BY <1>1, <1>14, <3>1, <4>1, <4>2 DEF Follow
        <5>2. open'.lost = now /\ now # None
          BY <1>1, <5>1, Numbers DEF Incident
        <5>3. SeenIncident' = None
          BY <5>2 DEF SeenIncident
        <5> QED
          BY <1>8, <3>1, <4>2, <5>3
      <4>3. CASE ~(open.lost = None /\ open.end = None)
        <5>1. open' = open
          BY <1>14, <4>1, <4>3 DEF Follow
        <5> QED
          BY <5>1 DEF SeenIncident
      <4> QED
        BY <4>2, <4>3
    <3>2. CASE open = None \/ open.circuit # c
      <4>1. open' = open
        <5>1. open = None => open' = None
          BY <1>1, <1>14 DEF After, Opens
        <5>2. open # None => open' = open
          BY <1>1, <3>2 DEF After
        <5> QED
          BY <5>1, <5>2
      <4> QED
        BY <4>1 DEF SeenIncident
    <3> QED
      BY <3>1, <3>2
  <2>2. \/ Seen!Closes /\ UNCHANGED reads
        \/ UNCHANGED <<reads, SeenIncident>>
    BY <1>5, <1>14, <2>1 DEF Seen!Closes
  <2> QED
    BY <1>6, <1>9, <2>2 DEF Seen!IncidentNext, reads
<1> QED
  BY <1>12, <1>13, <1>14

(* Every behaviour of the detector is one of BreakerIncident: what the     *)
(* watch makes of its incidents (TripLedger) holds of the incidents that   *)
(* TripDetector.circuit and .close and the timer of trips.py produce.      *)
THEOREM DetectorImplementsIncident == Spec => ImplementsIncident
<1> DEFINE reads == {c \in Circuits : ReadDead(circuitLog[c])}
<1>1. Init => Seen!IncidentInit /\ Opened
  BY DEF Init, Seen!IncidentInit, SeenIncident, Opened
<1>2. Inv /\ LogInv /\ Opened /\ [Next]_vars => [Seen!IncidentNext]_(Seen!observed) /\ Opened'
  <2> SUFFICES ASSUME Inv, LogInv, Opened, [Next]_vars
               PROVE  [Seen!IncidentNext]_(Seen!observed) /\ Opened'
    OBVIOUS
  <2>1. ASSUME NEW c \in Circuits, NEW w \in Watts \cup {None},
               NEW again \in 0 .. LastEvent, CircuitChanges(c, w, again)
        PROVE  Seen!IncidentNext /\ Opened'
    BY <2>1, CircuitImplements
  \* The others leave the logs as they are.
  <2>2. ASSUME UNCHANGED circuitLog, open' = open \/ open' = None,
               now' = now \/ now' = now + 1
        PROVE  Seen!IncidentNext /\ Opened'
    <3>1. now' \in Nat /\ now' >= now
      BY <2>2 DEF Inv, ClockOK
    <3>2. UNCHANGED reads
      BY <2>2 DEF ReadDead
    <3>3. \/ SeenIncident' = SeenIncident
          \/ SeenIncident # None /\ SeenIncident' = None
      BY <2>2 DEF SeenIncident
    <3>4. Opened'
      BY <2>2 DEF Opened
    <3> QED
      BY <3>1, <3>2, <3>3, <3>4 DEF Seen!IncidentNext, Seen!Closes
  <2>3. ASSUME NEW d \in Devices, NEW s \in DeviceState, DeviceChanges(d, s)
        PROVE  Seen!IncidentNext /\ Opened'
    BY <2>2, <2>3 DEF DeviceChanges
  <2>4. CASE TimerFires \/ Started \/ Tick
    BY <2>2, <2>4 DEF TimerFires, Started, Tick, logs
  <2>5. ASSUME NEW S \in Eligibilities, Rejudge(S) PROVE Seen!IncidentNext /\ Opened'
    BY <2>2, <2>5 DEF Rejudge, logs
  <2>6. CASE UNCHANGED vars
    BY <2>2, <2>6 DEF vars, logs
  <2> QED
    BY <2>1, <2>3, <2>4, <2>5, <2>6 DEF Next
<1> QED
  BY <1>1, <1>2, LogInvariant, PTL DEF Spec, ImplementsIncident, Seen!IncidentSpec
=============================================================================
