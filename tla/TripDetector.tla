---------------------------- MODULE TripDetector ----------------------------
(***************************************************************************)
(* TripDetector (breaker.py) and the event handler and timer that drive it *)
(* in BreakerWatch (trips.py): circuit and device readings arrive in time  *)
(* order, one eligible circuit falling to the noise floor opens an         *)
(* incident, a timer closes it, and the kept readings are judged.          *)
(*                                                                         *)
(* A reading log is a sequence with everything ever fed to it; the deque   *)
(* of the code is the part from index `kept` on, so pruning only moves     *)
(* that index.  Keeping the rest makes "what would have been judged with   *)
(* nothing dropped" a state function, which the properties compare with.   *)
(*                                                                         *)
(* Time is a number of ticks, short enough that an entity changes at most  *)
(* once in one; the delays of breaker.py are constants.                    *)
(* Home Assistant hands over a state change when a value changes; a sensor *)
(* that repeats itself only moves last_reported, which the handler reads   *)
(* with the next change.                                                   *)
(***************************************************************************)
EXTENDS Integers, Sequences, FiniteSets, FiniteSetsExt

CONSTANTS
  Circuits, Devices,
  Meters,        \* the devices that report watts
  Eligibilities, \* the sets a refresh of the eligibility can find
  Watts,         \* what a circuit can read
  DeviceWatts,   \* what a meter can read
  None,          \* no number: unavailable, unknown, or not set
  DEAD_W, ALIVE_W, TOGETHER_S, GRACE_S, CAP_S, STABLE_S,
  SLACK_S,       \* the 60 s at the end of _HORIZON_S
  LATE_S,        \* how late the event loop may run a timer
  MAX_GAP_S,     \* longest between two reports of a readable circuit
  LastStart,     \* bounds of the model: the last tick Home Assistant may
  LastEvent,     \*   finish starting at, the last with a state change, and
  MaxEvents      \*   the number of readings fed

ASSUME TripDetectorAssumption ==
  /\ Meters \subseteq Devices
  /\ Eligibilities \subseteq SUBSET Circuits
  /\ Watts \subseteq Int /\ DeviceWatts \subseteq Int /\ None \notin Int
  /\ DEAD_W \in Int /\ ALIVE_W \in Int /\ DEAD_W <= ALIVE_W
  /\ {TOGETHER_S, GRACE_S, CAP_S, STABLE_S, SLACK_S, LATE_S, MAX_GAP_S,
      LastStart, LastEvent, MaxEvents} \subseteq Nat

VARIABLES
  now,
  armedFrom,   \* detector.armed_from; None stands for infinity
  eligible,    \* detector.eligible
  circuitLog,  \* per circuit, every reading fed to the detector
  circuitKept, \* per circuit, the index the kept readings start at
  deviceLog,   \* per device, every record
  deviceKept,
  device,      \* per device, its current state
  open,        \* detector._open
  timer,       \* _timer_due; None when no timer is set
  outcome      \* what the last close returned

logs == <<circuitLog, circuitKept, deviceLog, deviceKept>>
vars == <<now, armedFrom, eligible, logs, device, open, timer, outcome>>

\* Mutant: the stable period is left out of the horizon.
HORIZON_NO_STABLE == CAP_S + GRACE_S + TOGETHER_S + SLACK_S

HORIZON_S == STABLE_S + CAP_S + GRACE_S + TOGETHER_S + SLACK_S

Reading == [t : Nat, w : Watts \cup {None}]
DeviceState == [up : BOOLEAN, w : DeviceWatts \cup {None}]
Record == [t : Nat, was : DeviceState, is : DeviceState]
Incident == [circuit : Circuits, start : Nat, lastLive : Nat,
             end : Nat \cup {None}, lost : Nat \cup {None}]

\* What others see of one.
SeenIncidents == [circuit : Circuits, start : Nat, end : Nat \cup {None}]

ASSUME NoneAssumption == None \notin Incident /\ None \notin SeenIncidents

-----------------------------------------------------------------------------
(* The window a log keeps.                                                 *)

\* Oldest time a record is kept for; an open incident's needs come first.
Edge(stamp) ==
  LET edge  == stamp - HORIZON_S
      needs == open.lastLive - STABLE_S - TOGETHER_S
  IN  IF open # None /\ needs < edge THEN needs ELSE edge

\* Mutant: indices counted from 0, as the deque's are.
PruneFromZero(log, kept, edge) ==
  Max({kept} \cup {i \in kept..Len(log) : log[i].t <= edge}) - 1

\* Everything before the last record at or before the edge is dropped.
Prune(log, kept, edge) ==
  Max({kept} \cup {i \in kept..Len(log) : log[i].t <= edge})

\* The indices of a log's records in (from, to].
Within(log, kept, from, to) ==
  {i \in kept..Len(log) : from < log[i].t /\ log[i].t <= to}

\* The index of the record in force at `stamp`, 0 when there is none.
InForce(log, kept, stamp) ==
  Max({0} \cup {i \in kept..Len(log) : log[i].t <= stamp})

-----------------------------------------------------------------------------
(* TripDetector.due and .close.                                            *)

\* Mutant: a circuit that is back waits for the cap again.
DueCapAfterReturn(incident) ==
  IF incident.lost # None THEN incident.lost
  ELSE IF incident.end # None THEN incident.end + CAP_S + GRACE_S
  ELSE incident.start + CAP_S

Due(incident) ==
  IF incident.lost # None THEN incident.lost
  ELSE IF incident.end # None THEN incident.end + GRACE_S
  ELSE incident.start + CAP_S

\* Fell from above ALIVE_W to the floor across the together window.
Fell(c, kept) ==
  LET log    == circuitLog[c]
      edge   == open.start - TOGETHER_S
      before == InForce(log, kept[c], edge)
  IN  /\ before # 0
      /\ log[before].w # None
      /\ log[before].w > ALIVE_W
      /\ \E i \in Within(log, kept[c], edge, Due(open)) :
           log[i].w # None /\ log[i].w <= DEAD_W

\* Available for all of STABLE_S before the circuit's last live reading.
Stable(log, kept, lastLive) ==
  LET before == InForce(log, kept, lastLive - STABLE_S)
  IN  /\ IF before # 0 THEN log[before].is.up ELSE log[kept].was.up
      /\ \A i \in Within(log, kept, lastLive - STABLE_S, lastLive) :
           log[i].was.up /\ log[i].is.up

\* A meter's reading at `stamp`, from the record before it or the one after.
ReadingAt(log, kept, stamp) ==
  LET before == InForce(log, kept, stamp)
      state  == IF before # 0 THEN log[before].is ELSE log[kept].was
  IN  IF state.up THEN state.w ELSE None

Counted(d, kept) ==
  /\ Within(deviceLog[d], kept[d], open.lastLive, Due(open)) # {}
  /\ Stable(deviceLog[d], kept[d], open.lastLive)

\* Went away inside the window.
Dropped(d, kept) ==
  \E i \in Within(deviceLog[d], kept[d], open.lastLive, Due(open)) :
    deviceLog[d][i].was.up /\ ~deviceLog[d][i].is.up

\* Its own meter fell to a tenth of what it drew (DEAD_FRACTION).
Collapsed(d, kept) ==
  LET log   == deviceLog[d]
      drew  == ReadingAt(log, kept[d], open.lastLive)
  IN  /\ drew # None /\ drew > 0
      /\ \E i \in Within(log, kept[d], open.lastLive, Due(open)) :
           log[i].is.w # None /\ 10 * log[i].is.w <= drew

\* The outcome of closing the open incident on the given part of the logs.
Judged(cKept, dKept) ==
  LET dead  == {c \in Circuits : Fell(c, cKept)}
      kind  == IF open.lost # None THEN "lost"
               ELSE IF dead = {open.circuit} THEN "trip"
               ELSE IF Cardinality(dead) > 1 THEN "together"
               ELSE "unseen"
      gone  == {d \in Devices : Counted(d, dKept) /\ Dropped(d, dKept)}
      fell  == {d \in Devices \ gone : Counted(d, dKept) /\ Collapsed(d, dKept)}
  IN  [circuit |-> open.circuit, start |-> open.start, lastLive |-> open.lastLive,
       end |-> IF open.lost # None THEN None ELSE open.end,
       kind |-> kind, together |-> dead \ {open.circuit},
       confirmed |-> IF kind = "trip" THEN fell ELSE {},
       suspected |-> IF kind = "trip" THEN gone ELSE gone \cup fell]

-----------------------------------------------------------------------------
(* TripDetector.circuit.                                                   *)

\* Mutant: dying again does not take the end back.
FollowFirstReturn(incident, w, t) ==
  IF incident.lost # None THEN incident
  ELSE IF w = None
       THEN IF incident.end = None THEN [incident EXCEPT !.lost = t] ELSE incident
  ELSE IF w > DEAD_W /\ incident.end = None THEN [incident EXCEPT !.end = t]
  ELSE incident

\* What a reading of the open incident's own circuit does to it.
Follow(incident, w, t) ==
  IF incident.lost # None THEN incident
  ELSE IF w = None
       THEN IF incident.end = None THEN [incident EXCEPT !.lost = t] ELSE incident
  ELSE IF w > DEAD_W
       THEN IF incident.end = None THEN [incident EXCEPT !.end = t] ELSE incident
  ELSE [incident EXCEPT !.end = None]

\* Mutant: an unreadable report counts as live.
OpensAfterGap(c, prev, w, t) ==
  /\ armedFrom # None /\ t >= armedFrom
  /\ c \in eligible
  /\ prev.w = None \/ prev.w > DEAD_W
  /\ w # None /\ w <= DEAD_W

\* A fall of an armed, eligible circuit between two readable values.
Opens(c, prev, w, t) ==
  /\ armedFrom # None /\ t >= armedFrom
  /\ c \in eligible
  /\ prev.w # None /\ prev.w > DEAD_W
  /\ w # None /\ w <= DEAD_W

\* The incident after one reading; `log` is the circuit's log before it.
After(c, log, w, t) ==
  IF open # None THEN IF open.circuit = c THEN Follow(open, w, t) ELSE open
  ELSE IF log # <<>> /\ Opens(c, log[Len(log)], w, t)
  THEN [circuit |-> c, start |-> t, lastLive |-> log[Len(log)].t,
        end |-> None, lost |-> None]
  ELSE None

\* Mutant: a timer once set is never brought forward.
ScheduleOnce(incident) ==
  timer' = IF incident = None THEN None
           ELSE IF timer # None THEN timer ELSE Due(incident)

\* BreakerWatch._schedule: an earlier timer stays, a later one is replaced.
Schedule(incident) ==
  timer' = IF incident = None THEN None
           ELSE IF timer # None /\ timer <= Due(incident) THEN timer
           ELSE Due(incident)

-----------------------------------------------------------------------------
Init ==
  /\ now = 0
  /\ armedFrom = None
  /\ eligible \in Eligibilities
  \* async_start feeds the state of each circuit that has one.
  /\ circuitLog \in [Circuits -> {<<>>} \cup {<<[t |-> 0, w |-> w]>> :
                                                w \in Watts \cup {None}}]
  /\ circuitKept = [c \in Circuits |-> 1]
  /\ deviceLog = [d \in Devices |-> <<>>]
  /\ deviceKept = [d \in Devices |-> 1]
  /\ device \in [Devices -> DeviceState]
  /\ \A d \in Devices : device[d].w # None => device[d].up /\ d \in Meters
  /\ open = None
  /\ timer = None
  /\ outcome = None

\* The state changes so far, for the bound on them.
Events ==
  MapThenSumSet(LAMBDA c : Len(circuitLog[c]), Circuits)
    + MapThenSumSet(LAMBDA d : Len(deviceLog[d]), Devices)

\* The event loop hands over state changes while its timer is not overdue.
Listening ==
  /\ now <= LastEvent
  /\ Events < MaxEvents
  /\ timer # None => now <= timer + LATE_S

\* A circuit's state changes.  `again` is the last_reported of the value it
\* replaces: that report is fed first, so that the circuit's last live
\* reading is its last and not its first.
CircuitChanges(c, w, again) ==
  LET log  == circuitLog[c]
      last == log[Len(log)]
      fed  == IF log # <<>> /\ again > last.t
              THEN Append(log, [t |-> again, w |-> last.w]) ELSE log
      next == Append(fed, [t |-> now, w |-> w])
  IN  /\ Listening
      /\ again < now
      /\ log # <<>> => /\ w # last.w /\ last.t <= again
                       /\ last.w # None => now - again <= MAX_GAP_S
      /\ circuitLog' = [circuitLog EXCEPT ![c] = next]
      /\ circuitKept' = [circuitKept EXCEPT ![c] = Prune(next, @, Edge(now))]
      /\ open' = After(c, fed, w, now)
      /\ Schedule(open')
      /\ UNCHANGED <<now, armedFrom, eligible, deviceLog, deviceKept, device, outcome>>

\* A meter reports, or another entity comes or goes.
DeviceChanges(d, s) ==
  LET next == Append(deviceLog[d], [t |-> now, was |-> device[d], is |-> s])
  IN  /\ Listening
      /\ s # device[d]
      /\ \A i \in DOMAIN deviceLog[d] : deviceLog[d][i].t < now
      /\ s.w # None => s.up /\ d \in Meters
      /\ device' = [device EXCEPT ![d] = s]
      /\ deviceLog' = [deviceLog EXCEPT ![d] = next]
      /\ deviceKept' = [deviceKept EXCEPT ![d] = Prune(next, @, Edge(now))]
      /\ Schedule(open)
      /\ UNCHANGED <<now, armedFrom, eligible, circuitLog, circuitKept, open, outcome>>

\* Mutant: a timer that fires early is not set again.
TimerFiresOnce ==
  /\ timer # None /\ now >= timer
  /\ IF now >= Due(open)
     THEN /\ outcome' = Judged(circuitKept, deviceKept)
          /\ open' = None
     ELSE UNCHANGED <<open, outcome>>
  /\ timer' = None
  /\ UNCHANGED <<now, armedFrom, eligible, logs, device>>

\* _on_due: close the incident, or wait again when its due time has moved.
TimerFires ==
  /\ timer # None /\ now >= timer
  /\ IF now >= Due(open)
     THEN /\ outcome' = Judged(circuitKept, deviceKept)
          /\ open' = None
          /\ timer' = None
     ELSE /\ timer' = Due(open)
          /\ UNCHANGED <<open, outcome>>
  /\ UNCHANGED <<now, armedFrom, eligible, logs, device>>

\* Home Assistant has started: _on_started arms the detector.
Started ==
  /\ armedFrom = None /\ now <= LastStart
  /\ armedFrom' = now + STABLE_S
  /\ UNCHANGED <<now, eligible, logs, device, open, timer, outcome>>

\* _rejudge: the hourly refresh, or one after a trip.
Rejudge(S) ==
  /\ S # eligible
  /\ now <= LastEvent
  /\ eligible' = S
  /\ UNCHANGED <<now, armedFrom, logs, device, open, timer, outcome>>

\* A tick passes.  A timer is at most LATE_S late.
Tick ==
  /\ now <= LastEvent + CAP_S + GRACE_S + 2 * LATE_S
  /\ timer # None => now < timer + LATE_S
  /\ now' = now + 1
  /\ UNCHANGED <<armedFrom, eligible, logs, device, open, timer, outcome>>

Next ==
  \/ \E c \in Circuits, w \in Watts \cup {None}, again \in 0..LastEvent :
       CircuitChanges(c, w, again)
  \/ \E d \in Devices, s \in DeviceState : DeviceChanges(d, s)
  \/ TimerFires
  \/ Started
  \/ \E S \in Eligibilities : Rejudge(S)
  \/ Tick

\* The clock advances and the event loop runs the timers that are due.
Fairness == WF_vars(Tick) /\ WF_vars(TimerFires)

Spec == Init /\ [][Next]_vars /\ Fairness

-----------------------------------------------------------------------------
TypeOK ==
  /\ now \in Nat
  /\ armedFrom \in Nat \cup {None}
  /\ eligible \in Eligibilities
  /\ circuitLog \in [Circuits -> Seq(Reading)]
  /\ circuitKept \in [Circuits -> Nat \ {0}]
  /\ deviceLog \in [Devices -> Seq(Record)]
  /\ deviceKept \in [Devices -> Nat \ {0}]
  /\ device \in [Devices -> DeviceState]
  /\ open \in Incident \cup {None}
  /\ timer \in Nat \cup {None}

(* While an incident is open a timer is set for no later than its due      *)
(* time, however often the circuit's flapping moves that time; with no     *)
(* incident there is no timer.                                             *)
TimerCoversTheIncident ==
  /\ open = None <=> timer = None
  /\ open # None => timer <= Due(open)

(* However a circuit flaps and however late the timers run, an incident is *)
(* over within CAP_S + GRACE_S of its start, give or take twice the        *)
(* lateness.  _HORIZON_S counts on it.                                     *)
IncidentIsBounded ==
  open # None =>
    /\ open.lastLive <= open.start /\ open.start <= now
    /\ now <= open.start + CAP_S + GRACE_S + 2 * LATE_S
    /\ open.end # None => open.start <= open.end /\ open.end <= open.start + CAP_S + LATE_S

Everything == [c \in Circuits |-> 1]
EveryRecord == [d \in Devices |-> 1]

(* Dropping old readings is invisible: an incident is judged exactly as it *)
(* would be on everything ever reported.  Needs a meter that reports often *)
(* enough (MAX_GAP_S), see CasualtyWasStable.                              *)
NothingJudgedWasPruned ==
  open # None => Judged(circuitKept, deviceKept) = Judged(Everything, EveryRecord)

(* `end` is the first live reading after the circuit's last dead one, and  *)
(* there is none while the circuit's last word is that it is dead: what    *)
(* decides whether a trip is recorded without an end.                      *)
EndIsTheLastReturn ==
  open # None /\ open.lost = None =>
    LET log   == circuitLog[open.circuit]
        dead  == {i \in DOMAIN log : log[i].w # None /\ log[i].w <= DEAD_W}
        lives == {i \in DOMAIN log : i > Max(dead) /\ log[i].w # None}
    IN  open.end = IF lives = {} THEN None ELSE log[Min(lives)].t

(* A device counted as a casualty was available for STABLE_S before the    *)
(* circuit's last live reading (breaker.py:48), on everything it reported. *)
CasualtyWasStable ==
  open # None =>
    LET judged == Judged(circuitKept, deviceKept)
    IN  \A d \in judged.confirmed \cup judged.suspected :
          Stable(deviceLog[d], 1, open.lastLive)

(* Every incident is closed: the circuit is free for the next one.         *)
IncidentCloses == open # None ~> open = None

-----------------------------------------------------------------------------
(* What the rest of the watch sees of the detector.                        *)

\* The last readable reading in the log is dead.
ReadDead(log) ==
  \E i \in DOMAIN log : /\ log[i].w # None /\ log[i].w <= DEAD_W
                        /\ \A j \in DOMAIN log : j > i => log[j].w = None

\* An incident whose circuit is lost comes to nothing.
SeenIncident ==
  IF open = None THEN None
  ELSE IF open.lost # None THEN None
  ELSE [circuit |-> open.circuit, start |-> open.start, end |-> open.end]

Seen == INSTANCE BreakerIncident
          WITH Breakers <- Circuits, Never <- None, clock <- now,
               dead <- {c \in Circuits : ReadDead(circuitLog[c])},
               incident <- SeenIncident

(* The detector implements the incident the other modules start from:      *)
(* whatever the order and the lateness of readings and timers, whichever   *)
(* circuits are eligible and whatever was pruned, each step opens, ends,   *)
(* takes back or closes an incident as BreakerIncident says, or nothing.   *)
ImplementsIncident == Seen!IncidentSpec
=============================================================================
