----------------------------- MODULE OutageRun -----------------------------
(***************************************************************************)
(* OutageRun (probes.py): what is asked while one incident lasts, and when *)
(* the evidence is handed over.  BreakerWatch (trips.py) starts it with    *)
(* the reading that opened the incident, tells it of its circuit's further *)
(* readings, and decides it when the incident is closed.                   *)
(*                                                                         *)
(* The behaviours start with the fall, at time 0.  Each timer, each answer *)
(* to a request and each state change is one step; timers run on time, but *)
(* in any order within a tick.  A pass that is cancelled sends and records *)
(* nothing more.                                                           *)
(*                                                                         *)
(* The circuit's power and its reading are told apart: the reading trails  *)
(* by less than METER_LAG_S, and power does not change again before it was *)
(* reported.  What a request can come to follows from the power: a device  *)
(* on the circuit answers only while it has power, or still had some left. *)
(***************************************************************************)
EXTENDS OutageEvidence

CONSTANTS
  Fed,               \* the devices the circuit feeds
  MAX_OUTAGE_S, SETTLE_S, DECIDE_S, REQUEST_TIMEOUT_S,
  GRACE_S, CAP_S,    \* of the incident, see TripDetector
  LastEvent, MaxFlaps, MaxChanges
    \* bounds: the last tick at which the power or a watched device changes,
    \* how often the power does, and how often each device does

ASSUME OutageRunAssumption ==
  /\ {MAX_OUTAGE_S, SETTLE_S, DECIDE_S, REQUEST_TIMEOUT_S, GRACE_S, CAP_S,
      LastEvent, MaxFlaps, MaxChanges} \subseteq Nat

VARIABLES
  now,
  power,    \* whether the circuit has power, since when, how often it changed
  live,     \* does the circuit's last reading say so?
  incident, \* the detector's incident, None once closed
  deciding, \* accepted, and async_handle has not come to run.decide
  evidence,
  run

vars == <<now, power, live, incident, deciding, evidence, run>>

Time == Nat \cup {None}

\* One request, and whether its device may have had power at any time of it.
Request == [device : Zigbee, sent : Nat, lit : BOOLEAN]

\* A control task: the requests to make, the one in flight, the pings to send.
Pass == [todo : SUBSET Zigbee, pings : SUBSET Nodes, asking : Request \cup {None}]

ASSUME OutageNoneAssumption == None \notin Pass /\ None \notin Request

NewPass(devices, nodes) == [todo |-> devices, pings |-> nodes, asking |-> None]

Run == [probe : BOOLEAN,    \* the option: ask, or only watch
        decided : BOOLEAN, finished : BOOLEAN, afterDone : BOOLEAN,
        deadAt : Time, probeAt : Time,                   \* the timers of a death
        settledAt : Time, tickAt : Time, expireAt : Time, \* those of a return
        during : Pass \cup {None}, after : Pass \cup {None},
        handed : Time]      \* when the evidence was handed over

NewRun(probe) ==
  [probe |-> probe, decided |-> FALSE, finished |-> FALSE, afterDone |-> ~probe,
   deadAt |-> MAX_OUTAGE_S, probeAt |-> PROBE_DELAY_S,
   settledAt |-> None, tickAt |-> None, expireAt |-> None,
   during |-> None, after |-> None, handed |-> None]

-----------------------------------------------------------------------------
(* The incident, as TripDetector follows it.                               *)

Incident == [end : Time, lost : Time]

Due(i) == IF i.lost # None THEN i.lost
          ELSE IF i.end # None THEN i.end + GRACE_S ELSE CAP_S

-----------------------------------------------------------------------------
(* The run.                                                                *)

\* Mutant: the tasks go on.
StoppedTimersOnly(r) ==
  [r EXCEPT !.finished = TRUE, !.deadAt = None, !.probeAt = None, !.settledAt = None,
            !.tickAt = None, !.expireAt = None]

Stopped(r) ==
  [r EXCEPT !.finished = TRUE, !.deadAt = None, !.probeAt = None, !.settledAt = None,
            !.tickAt = None, !.expireAt = None, !.during = None, !.after = None]

\* _check: hand the evidence over once everything it waits for has happened.
Checked(r, e) ==
  IF \/ r.finished \/ e.restored = None \/ ~r.afterDone
     \/ Waiting(e, now) \/ ~r.decided
  THEN r
  ELSE [Stopped(r) EXCEPT !.handed = now]

\* The nodes that read dead.
StillDead(e) ==
  {n \in Nodes : e.track[n] # <<>> /\ ~e.track[n][Len(e.track[n])].up}

Over(pass) == pass.todo = {} /\ pass.pings = {} /\ pass.asking = None

\* The run once its task of this phase is `pass`.
Proceeds(r, phase, pass, e) ==
  IF phase = "during"
  THEN [r EXCEPT !.during = IF Over(pass) THEN None ELSE pass]
  ELSE IF Over(pass) THEN Checked([r EXCEPT !.after = None, !.afterDone = TRUE], e)
  ELSE [r EXCEPT !.after = pass]

Returns(r) ==
  [r EXCEPT !.deadAt = None, !.probeAt = None, !.during = None,
            !.settledAt = now + SETTLE_S, !.tickAt = now + RETURN_S,
            !.expireAt = now + RETURN_S + DECIDE_S]

\* Mutant: the devices that failed need not be asked again.
DiesKeepingAfterDone(r) ==
  [r EXCEPT !.settledAt = None, !.tickAt = None, !.expireAt = None, !.after = None,
            !.deadAt = MAX_OUTAGE_S, !.probeAt = now + PROBE_DELAY_S]

\* Mutant: the requests of the return go on.
DiesStillAsking(r) ==
  [r EXCEPT !.settledAt = None, !.tickAt = None, !.expireAt = None,
            !.afterDone = ~r.probe,
            !.deadAt = MAX_OUTAGE_S, !.probeAt = now + PROBE_DELAY_S]

\* Mutant: the deadline the return cancelled is not set again.
DiesForGood(r) ==
  [r EXCEPT !.settledAt = None, !.tickAt = None, !.expireAt = None, !.after = None,
            !.afterDone = ~r.probe, !.probeAt = now + PROBE_DELAY_S]

DiesAgain(r) ==
  [r EXCEPT !.settledAt = None, !.tickAt = None, !.expireAt = None, !.after = None,
            !.afterDone = ~r.probe,
            !.deadAt = MAX_OUTAGE_S, !.probeAt = now + PROBE_DELAY_S]

-----------------------------------------------------------------------------
Init ==
  /\ now = 0
  /\ power = [on |-> FALSE, since |-> 0, flaps |-> 0]
  /\ live = FALSE
  /\ incident = [end |-> None, lost |-> None]
  /\ deciding = FALSE
  /\ evidence = NoEvidence(0)
  /\ run \in {NewRun(probe) : probe \in BOOLEAN}

\* Power reaching a device while a request to it is open.
Lit(pass) ==
  IF pass = None \/ pass.asking = None THEN pass
  ELSE [pass EXCEPT !.asking.lit = TRUE]

\* Somebody works the breaker.
PowerChanges ==
  /\ ~run.finished /\ now <= LastEvent /\ power.flaps < MaxFlaps
  /\ power.on = live
  /\ power' = [on |-> ~power.on, since |-> now, flaps |-> power.flaps + 1]
  /\ run' = [run EXCEPT !.during = Lit(@), !.after = Lit(@)]
  /\ UNCHANGED <<now, live, incident, deciding, evidence>>

\* The circuit reports its return: detector, then _follow_outage.
ReadsLive ==
  /\ power.on /\ ~live
  /\ live' = TRUE
  /\ incident' = IF incident # None /\ incident.lost = None /\ incident.end = None
                 THEN [incident EXCEPT !.end = now] ELSE incident
  /\ IF evidence.restored # None \/ run.finished
     THEN UNCHANGED <<evidence, run>>
     ELSE /\ evidence' = Restored(evidence, now)
          /\ run' = Returns(run)
  /\ UNCHANGED <<now, power, deciding>>

\* It reports that it is dead again; only while the incident of the run is
\* open is that the same outage.
ReadsDead ==
  /\ ~power.on /\ live
  /\ live' = FALSE
  /\ incident' = IF incident # None /\ incident.lost = None
                 THEN [incident EXCEPT !.end = None] ELSE incident
  /\ IF incident = None \/ evidence.restored = None \/ run.finished
     THEN UNCHANGED <<evidence, run>>
     ELSE /\ evidence' = DeadAgain(evidence, now)
          /\ run' = DiesAgain(run)
  /\ UNCHANGED <<now, power, deciding>>

\* Its meter goes unreadable before it came back: the incident is lost.
ReadsNothing ==
  /\ ~run.finished /\ now <= LastEvent
  /\ incident # None /\ incident.end = None /\ incident.lost = None
  /\ incident' = [incident EXCEPT !.lost = now]
  /\ UNCHANGED <<now, power, live, deciding, evidence, run>>

\* BreakerWatch._on_due and async_handle: a refused incident ends the run at
\* once, an accepted one is recorded first.
CloseIncident ==
  /\ incident # None /\ now >= Due(incident)
  /\ incident' = None
  /\ \/ /\ incident.lost = None
        /\ deciding' = TRUE
        /\ UNCHANGED run
     \/ /\ run' = Stopped([run EXCEPT !.decided = TRUE])
        /\ UNCHANGED deciding
  /\ UNCHANGED <<now, power, live, evidence>>

\* The trip and its devices are recorded: run.decide.
Decide ==
  /\ deciding
  /\ deciding' = FALSE
  /\ run' = Checked([run EXCEPT !.decided = TRUE], evidence)
  /\ UNCHANGED <<now, power, live, incident, evidence>>

-----------------------------------------------------------------------------
(* The timers of the run.                                                  *)

OnProbe ==
  /\ run.probeAt # None /\ now >= run.probeAt
  /\ LET timed == [run EXCEPT !.probeAt = None]
         pass  == NewPass(Zigbee \ AskedWhileDead(evidence), Nodes)
     IN  run' = IF run.probe /\ evidence.restored = None /\ run.during = None
                THEN Proceeds(timed, "during", pass, evidence) ELSE timed
  /\ UNCHANGED <<now, power, live, incident, deciding, evidence>>

OnSettled ==
  /\ run.settledAt # None /\ now >= run.settledAt
  /\ LET timed == [run EXCEPT !.settledAt = None]
         pass  == NewPass(FailedZigbee(evidence), StillDead(evidence))
     IN  run' = IF run.probe THEN Proceeds(timed, "after", pass, evidence) ELSE timed
  /\ UNCHANGED <<now, power, live, incident, deciding, evidence>>

\* The return window is over.
OnTick ==
  /\ run.tickAt # None /\ now >= run.tickAt
  /\ run' = Checked([run EXCEPT !.tickAt = None, !.after = None, !.afterDone = TRUE],
                    evidence)
  /\ UNCHANGED <<now, power, live, incident, deciding, evidence>>

\* The circuit stayed dead, or no decision came.
OnExpired ==
  /\ \/ run.deadAt # None /\ now >= run.deadAt
     \/ run.expireAt # None /\ now >= run.expireAt
  /\ run' = Stopped(run)
  /\ UNCHANGED <<now, power, live, incident, deciding, evidence>>

\* The entry is unloaded: BreakerWatch.async_stop.
Unload ==
  /\ now <= LastEvent /\ ~run.finished
  /\ run' = Stopped(run)
  /\ incident' = None /\ deciding' = FALSE
  /\ UNCHANGED <<now, power, live, evidence>>

-----------------------------------------------------------------------------
(* The requests.  `run[phase]` is the task.                                *)

Phases == {"during", "after"}

\* Power left in a device on the circuit, PROBE_DELAY_S after it went.
HasPower(device) ==
  device \notin Fed \/ power.on \/ now < power.since + PROBE_DELAY_S

\* One request at a time, and none once the power is back.
Asks(phase, device) ==
  /\ run[phase] # None /\ run[phase].asking = None
  /\ device \in run[phase].todo
  /\ LET pass == run[phase]
         left == [pass EXCEPT !.todo = @ \ {device},
                    !.asking = [device |-> device, sent |-> now, lit |-> HasPower(device)]]
         none == [pass EXCEPT !.todo = {}]
     IN  run' = Proceeds(run, phase,
                         IF phase = "during" /\ evidence.restored # None THEN none ELSE left,
                         evidence)
  /\ UNCHANGED <<now, power, live, incident, deciding, evidence>>

\* It is answered, fails, or times out.
Answers(phase, answered) ==
  /\ run[phase] # None /\ run[phase].asking # None
  /\ answered = TRUE => run[phase].asking.lit
  /\ LET asked  == run[phase].asking
         result == [device |-> asked.device, phase |-> phase, sent |-> asked.sent,
                    done |-> now, answered |-> answered]
     IN  evidence' = [evidence EXCEPT !.probes = @ \cup {result}]
  /\ run' = Proceeds(run, phase, [run[phase] EXCEPT !.asking = None], evidence')
  /\ UNCHANGED <<now, power, live, incident, deciding>>

\* A node's ping button is pressed, unless it is back.
Pings(phase, node) ==
  /\ run[phase] # None /\ node \in run[phase].pings
  /\ run' = Proceeds(run, phase, [run[phase] EXCEPT !.pings = @ \ {node}], evidence)
  /\ UNCHANGED <<now, power, live, incident, deciding, evidence>>

\* A watched device goes down or comes up: feed.
Changes(device, byPerson) ==
  LET track == evidence.track[device]
      up    == track = <<>> \/ track[Len(track)].up
  IN  /\ ~run.finished
      /\ now <= LastEvent /\ Len(track) < MaxChanges
      /\ track # <<>> => track[Len(track)].t < now
      /\ byPerson => device \in TVs
      /\ device \in Fed => power.on = ~up
      /\ evidence' = [evidence EXCEPT !.track[device] =
                        Append(@, [t |-> now, up |-> ~up, byPerson |-> byPerson])]
      /\ run' = Checked(run, evidence')
      /\ UNCHANGED <<now, power, live, incident, deciding>>

Overdue(t) == t # None /\ now >= t

\* A tick passes: no timer is due, no request or ping is waiting to be sent
\* or has run out of time, and the meter is not too late.
Tick ==
  /\ ~run.finished /\ now <= MAX_OUTAGE_S + RETURN_S + DECIDE_S
  /\ \A t \in {run.deadAt, run.probeAt, run.settledAt, run.tickAt, run.expireAt} : ~Overdue(t)
  /\ incident # None => ~Overdue(Due(incident))
  /\ power.on # live => now + 1 < power.since + METER_LAG_S
  /\ \A phase \in Phases : run[phase] # None =>
       /\ run[phase].asking = None => run[phase].todo = {}
       /\ run[phase].asking # None => now < run[phase].asking.sent + REQUEST_TIMEOUT_S
  /\ now' = now + 1
  /\ UNCHANGED <<power, live, incident, deciding, evidence, run>>

Timers == OnProbe \/ OnSettled \/ OnTick \/ OnExpired

Requests ==
  \E phase \in Phases :
    \/ \E device \in Zigbee : Asks(phase, device)
    \/ \E answered \in BOOLEAN \cup {None} : Answers(phase, answered)

Next ==
  \/ PowerChanges \/ ReadsLive \/ ReadsDead \/ ReadsNothing
  \/ CloseIncident \/ Decide \/ Unload
  \/ Timers
  \/ Requests
  \/ \E phase \in Phases, node \in Nodes : Pings(phase, node)
  \/ \E device \in Nodes \cup TVs, byPerson \in BOOLEAN : Changes(device, byPerson)
  \/ Tick

\* The clock advances, the event loop runs its timers and the requests end;
\* the meter reports.  Nothing makes the handler of the trip finish.
Fairness ==
  /\ WF_vars(Tick) /\ WF_vars(Timers) /\ WF_vars(Requests)
  /\ WF_vars(CloseIncident) /\ WF_vars(ReadsLive \/ ReadsDead)

Spec == Init /\ [][Next]_vars /\ Fairness

-----------------------------------------------------------------------------
TypeOK ==
  /\ now \in Nat
  /\ power \in [on : BOOLEAN, since : Nat, flaps : Nat]
  /\ live \in BOOLEAN
  /\ incident \in Incident \cup {None}
  /\ deciding \in BOOLEAN
  /\ evidence \in Evidence
  /\ run \in Run

(* However the breaker is worked and however the requests straddle it, a   *)
(* device on the circuit is never handed over as answering with its        *)
(* circuit dead, which would say that it is fed from elsewhere.            *)
AnsweredIsElsewhere ==
  run.handed # None => Judge(evidence).answered \cap Fed = {}

(* Evidence handed over before its window ended is complete: every device  *)
(* that failed while the circuit was dead was asked again, and every       *)
(* watched one that went down is back.                                     *)
HandOverIsComplete ==
  run.handed # None /\ run.handed < evidence.restored + RETURN_S =>
    /\ FailedZigbee(evidence) \subseteq {p.device : p \in {q \in evidence.probes : After(evidence, q)}}
    /\ \A d \in Out(evidence) : Back(evidence, d) # 0

(* "One request at a time: a busy mesh fails requests of its own"          *)
(* (probes.py:405), also of two passes of the same run.                    *)
OneRequestAtATime ==
  \A phase \in Phases : run[phase] # None =>
    \A other \in Phases \ {phase} : run[other] = None

(* A run that goes on has a deadline: to find its circuit alive, or to be  *)
(* decided once it was; a run that ended has no timer left.                *)
AlwaysADeadline ==
  /\ ~run.finished => IF evidence.restored = None THEN run.deadAt = MAX_OUTAGE_S
                      ELSE run.expireAt = evidence.restored + RETURN_S + DECIDE_S
  /\ run.finished => \A t \in {run.deadAt, run.probeAt, run.settledAt, run.tickAt,
                               run.expireAt} : t = None

(* Once a run has ended nothing is added to its evidence, and it is not    *)
(* handed over any more: the requests and the timers are gone.             *)
HandOverIsFinal == [][run.finished => UNCHANGED <<evidence, run.handed>>]_vars

(* Every run ends, and lets the next incident's start.                     *)
RunEnds == <>run.finished
=============================================================================
