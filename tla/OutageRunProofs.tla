-------------------------- MODULE OutageRunProofs --------------------------
(***************************************************************************)
(* Theorems about OutageRun, for any devices, any delays and any bounds:   *)
(* the state keeps its type, a run that goes on has a deadline, two passes *)
(* of one run never ask at the same time, and the evidence it hands over   *)
(* is final, complete, and calls no device of the circuit fed from         *)
(* elsewhere.                                                              *)
(***************************************************************************)
EXTENDS OutageRun, TLAPS

\* A run with the evidence so far: a deadline while it goes on, and what its
\* tasks and timers say about the circuit.
RunOK(r, e) ==
  /\ r \in Run
  /\ ~r.finished => IF e.restored = None THEN r.deadAt = MAX_OUTAGE_S
                    ELSE r.expireAt = e.restored + RETURN_S + DECIDE_S
  /\ r.finished => /\ r.deadAt = None /\ r.probeAt = None /\ r.settledAt = None
                   /\ r.tickAt = None /\ r.expireAt = None
  /\ r.during # None => ~r.finished /\ e.restored = None
  /\ r.after # None => ~r.finished /\ e.restored # None
  /\ r.settledAt # None => e.restored # None
  /\ r.tickAt # None => e.restored # None

\* The inductive invariant.
Inv ==
  /\ now \in Nat
  /\ power \in [on : BOOLEAN, since : Nat, flaps : Nat]
  /\ live \in BOOLEAN
  /\ incident \in Incident \cup {None}
  /\ deciding \in BOOLEAN
  /\ evidence \in Evidence
  /\ RunOK(run, evidence)

-----------------------------------------------------------------------------
(* Types of what the steps are built from.                                 *)

\* None is not a time.
LEMMA NoneIsNoTime == None \notin Nat /\ None \notin BOOLEAN
  BY EvidenceAssumption

\* The delays are numbers.
LEMMA DelaysAreNat ==
  /\ PROBE_DELAY_S \in Nat /\ RETURN_S \in Nat /\ METER_LAG_S \in Nat
  /\ MAX_OUTAGE_S \in Nat /\ SETTLE_S \in Nat /\ DECIDE_S \in Nat
  BY EvidenceAssumption, OutageRunAssumption

\* The devices of a pass are devices of the circuit's run.
LEMMA Devices ==
  ASSUME NEW e \in Evidence
  PROVE  AskedWhileDead(e) \subseteq Zigbee /\ FailedZigbee(e) \subseteq Zigbee
<1>1. e.probes \subseteq ProbeResult
  BY DEF Evidence
<1>2. \A p \in e.probes : p.device \in Zigbee
  BY <1>1 DEF ProbeResult
<1> QED
  BY <1>2 DEF AskedWhileDead, FailedZigbee, During

\* A new pass has its type.
LEMMA NewPassType ==
  ASSUME NEW D \in SUBSET Zigbee, NEW N \in SUBSET Nodes
  PROVE  NewPass(D, N) \in Pass
  BY DEF NewPass, Pass

\* So have the devices that are lit.
LEMMA LitType ==
  ASSUME NEW pass \in Pass \cup {None}
  PROVE  /\ Lit(pass) \in Pass \cup {None}
         /\ Lit(pass) = None <=> pass = None
<1>1. CASE pass = None \/ pass.asking = None
  BY <1>1 DEF Lit
<1>2. CASE pass # None /\ pass.asking # None
  <2>1. pass.asking \in Request
    BY <1>2 DEF Pass
  <2>2. [pass.asking EXCEPT !.lit = TRUE] \in Request
    BY <2>1 DEF Request
  <2>3. Lit(pass) = [pass EXCEPT !.asking = [pass.asking EXCEPT !.lit = TRUE]]
    BY <1>2 DEF Lit
  <2>4. Lit(pass) \in Pass
    BY <1>2, <2>2, <2>3 DEF Pass
  <2> QED
    BY <1>2, <2>4, OutageNoneAssumption
<1> QED
  BY <1>1, <1>2

\* A stopped run has no task and no timer, and neither has one handed over.
LEMMA StoppedOK ==
  ASSUME NEW r \in Run, NEW e, now \in Nat
  PROVE  RunOK(Stopped(r), e) /\ RunOK([Stopped(r) EXCEPT !.handed = now], e)
<1> DEFINE s == Stopped(r)
<1>1. /\ s \in Run /\ s.finished
      /\ s.during = None /\ s.after = None
      /\ s.deadAt = None /\ s.probeAt = None /\ s.settledAt = None
      /\ s.tickAt = None /\ s.expireAt = None
  BY DEF Stopped, Run, Time
<1> HIDE DEF s
<1>2. RunOK(s, e)
  BY <1>1 DEF RunOK
<1>3. RunOK([s EXCEPT !.handed = now], e)
  BY <1>1 DEF RunOK, Run, Time
<1> QED
  BY <1>2, <1>3 DEF s

\* Once checked for its end, a run is still in order.
LEMMA CheckedOK ==
  ASSUME NEW r, NEW e, now \in Nat, RunOK(r, e)
  PROVE  RunOK(Checked(r, e), e)
<1>1. r \in Run
  BY DEF RunOK
<1> QED
  BY <1>1, StoppedOK DEF Checked

\* A return sets the timers of a return, and a death those of a death.
LEMMA ReturnsOK ==
  ASSUME NEW r, NEW old, NEW e, now \in Nat, RunOK(r, old), old.restored = None,
         ~r.finished, e.restored = now
  PROVE  RunOK(Returns(r), e)
<1> DEFINE s == Returns(r)
<1>0. /\ r \in Run /\ None \in Time
      /\ now + SETTLE_S \in Time /\ now + RETURN_S \in Time
      /\ now + RETURN_S + DECIDE_S \in Time
  BY DelaysAreNat DEF RunOK, Time
<1>1. s \in Run
  BY <1>0, ZenonT(30) DEF Run, Returns
<1>2. /\ s.during = None /\ s.after = r.after /\ s.finished = r.finished
      /\ s.expireAt = now + RETURN_S + DECIDE_S
  BY DEF RunOK, Run, Returns
<1>3. r.after = None
  BY DEF RunOK
<1> QED
  BY <1>1, <1>2, <1>3, NoneIsNoTime DEF RunOK

\* So does a circuit that dies again.
LEMMA DiesAgainOK ==
  ASSUME NEW r, NEW old, NEW e, now \in Nat, RunOK(r, old), old.restored # None,
         ~r.finished, e.restored = None
  PROVE  RunOK(DiesAgain(r), e)
<1> DEFINE s == DiesAgain(r)
<1>0. /\ r \in Run /\ None \in Time
      /\ MAX_OUTAGE_S \in Time /\ now + PROBE_DELAY_S \in Time
  BY DelaysAreNat DEF RunOK, Time
<1>1. s \in Run
  BY <1>0, ZenonT(30) DEF Run, DiesAgain
<1>2. /\ s.during = r.during /\ s.after = None /\ s.finished = r.finished
      /\ s.settledAt = None /\ s.tickAt = None /\ s.deadAt = MAX_OUTAGE_S
  BY DEF RunOK, Run, DiesAgain
<1>3. r.during = None
  BY DEF RunOK
<1> QED
  BY <1>1, <1>2, <1>3 DEF RunOK

\* A task that goes on, or ends, in its phase.
LEMMA ProceedsOK ==
  ASSUME NEW r, NEW e, now \in Nat, RunOK(r, e), ~r.finished,
         NEW phase \in Phases, NEW pass \in Pass,
         phase = "during" <=> e.restored = None
  PROVE  RunOK(Proceeds(r, phase, pass, e), e)
<1>1. CASE phase = "during"
  <2>1. RunOK([r EXCEPT !.during = None], e) /\ RunOK([r EXCEPT !.during = pass], e)
    BY <1>1 DEF RunOK, Run
  <2> QED
    BY <1>1, <2>1 DEF Proceeds
<1>2. CASE phase # "during"
  <2>1. RunOK([r EXCEPT !.after = pass], e)
    BY <1>2 DEF RunOK, Run
  <2>2. RunOK([r EXCEPT !.after = None, !.afterDone = TRUE], e)
    BY <1>2 DEF RunOK, Run
  <2>3. RunOK(Checked([r EXCEPT !.after = None, !.afterDone = TRUE], e), e)
    BY <2>2, CheckedOK
  <2> QED
    BY <1>2, <2>1, <2>3 DEF Proceeds
<1> QED
  BY <1>1, <1>2

-----------------------------------------------------------------------------
(* Types of the evidence.                                                  *)

\* The evidence of an outage that starts has its type,
LEMMA EvidenceStart == NoEvidence(0) \in Evidence /\ NoEvidence(0).restored = None
  BY DEF NoEvidence, Evidence, Change

\* also after a return,
LEMMA EvidenceReturn ==
  ASSUME NEW e \in Evidence, NEW t \in Nat
  PROVE  /\ Restored(e, t) \in Evidence
         /\ e.restored = None => Restored(e, t).restored = t
         /\ DeadAgain(e, t) \in Evidence
         /\ DeadAgain(e, t).restored = None
<1>1. Restored(e, t) \in Evidence /\ (e.restored = None => Restored(e, t).restored = t)
  BY DEF Restored, Evidence
<1>2. e.restored # None => [live |-> e.restored, dead |-> t] \in Flicker
  BY DEF Evidence, Flicker
<1>3. DeadAgain(e, t) \in Evidence /\ DeadAgain(e, t).restored = None
  BY <1>2 DEF DeadAgain, Evidence
<1> QED
  BY <1>1, <1>3

\* a request,
LEMMA EvidenceProbe ==
  ASSUME NEW e \in Evidence, NEW p \in ProbeResult
  PROVE  /\ [e EXCEPT !.probes = @ \cup {p}] \in Evidence
         /\ [e EXCEPT !.probes = @ \cup {p}].restored = e.restored
  BY DEF Evidence

\* and a change of a device.
LEMMA EvidenceTrack ==
  ASSUME NEW e \in Evidence, NEW d \in Nodes \cup TVs, NEW c \in Change
  PROVE  /\ [e EXCEPT !.track[d] = Append(@, c)] \in Evidence
         /\ [e EXCEPT !.track[d] = Append(@, c)].restored = e.restored
<1>1. e.track \in [Nodes \cup TVs -> Seq(Change)]
  BY DEF Evidence
<1>2. Append(e.track[d], c) \in Seq(Change)
  BY <1>1
<1>3. [e.track EXCEPT ![d] = Append(e.track[d], c)] \in [Nodes \cup TVs -> Seq(Change)]
  BY <1>1, <1>2
<1>4. [e EXCEPT !.track[d] = Append(@, c)]
        = [e EXCEPT !.track = [e.track EXCEPT ![d] = Append(e.track[d], c)]]
  OBVIOUS
<1> QED
  BY <1>3, <1>4 DEF Evidence

-----------------------------------------------------------------------------
(* The steps.                                                              *)

\* The invariant holds initially.
LEMMA InitInv == Init => Inv
<1> SUFFICES ASSUME Init PROVE Inv
  OBVIOUS
<1>1. \A probe \in BOOLEAN : RunOK(NewRun(probe), NoEvidence(0))
  BY DelaysAreNat, EvidenceStart DEF NewRun, RunOK, Run, Time
<1>2. [end |-> None, lost |-> None] \in Incident
  BY DEF Incident, Time
<1> QED
  BY <1>1, <1>2, EvidenceStart DEF Init, Inv

\* The power, the readings of it, and the watched devices.
LEMMA HouseInv ==
  ASSUME Inv, PowerChanges \/ ReadsLive \/ ReadsDead \/ ReadsNothing
  PROVE  Inv'
<1> USE DEF Inv
<1>1. CASE PowerChanges
  <2>1. run.during \in Pass \cup {None} /\ run.after \in Pass \cup {None}
    BY DEF RunOK, Run
  <2>2. /\ Lit(run.during) \in Pass \cup {None} /\ Lit(run.after) \in Pass \cup {None}
        /\ Lit(run.during) = None <=> run.during = None
        /\ Lit(run.after) = None <=> run.after = None
    BY <2>1, LitType
  <2>3. run' = [run EXCEPT !.during = Lit(run.during), !.after = Lit(run.after)]
    BY <1>1 DEF PowerChanges
  <2>4. RunOK(run', evidence)
    BY <2>2, <2>3 DEF RunOK, Run
  <2>5. power' \in [on : BOOLEAN, since : Nat, flaps : Nat]
    BY <1>1 DEF PowerChanges
  <2> QED
    BY <1>1, <2>4, <2>5 DEF PowerChanges
<1>2. CASE ReadsLive
  <2>1. incident' \in Incident \cup {None}
    BY <1>2 DEF ReadsLive, Incident, Time
  <2>2. CASE evidence.restored # None \/ run.finished
    BY <1>2, <2>1, <2>2 DEF ReadsLive
  <2>3. CASE evidence.restored = None /\ ~run.finished
    <3>1. evidence' = Restored(evidence, now) /\ run' = Returns(run)
      BY <1>2, <2>3 DEF ReadsLive
    <3>2. evidence' \in Evidence /\ evidence'.restored = now
      BY <2>3, <3>1, EvidenceReturn
    <3>3. RunOK(Returns(run), evidence')
      BY <2>3, <3>2, ReturnsOK
    <3> QED
      BY <1>2, <2>1, <3>1, <3>2, <3>3 DEF ReadsLive
  <2> QED
    BY <2>2, <2>3
<1>3. CASE ReadsDead
  <2>1. incident' \in Incident \cup {None}
    BY <1>3 DEF ReadsDead, Incident, Time
  <2>2. CASE incident = None \/ evidence.restored = None \/ run.finished
    BY <1>3, <2>1, <2>2 DEF ReadsDead
  <2>3. CASE incident # None /\ evidence.restored # None /\ ~run.finished
    <3>1. evidence' = DeadAgain(evidence, now) /\ run' = DiesAgain(run)
      BY <1>3, <2>3 DEF ReadsDead
    <3>2. evidence' \in Evidence /\ evidence'.restored = None
      BY <3>1, EvidenceReturn
    <3>3. RunOK(DiesAgain(run), evidence')
      BY <2>3, <3>2, DiesAgainOK
    <3> QED
      BY <1>3, <2>1, <3>1, <3>2, <3>3 DEF ReadsDead
  <2> QED
    BY <2>2, <2>3
<1>4. CASE ReadsNothing
  BY <1>4 DEF ReadsNothing, Incident, Time
<1> QED
  BY <1>1, <1>2, <1>3, <1>4

\* The changes of the circuit and its devices keep it.
LEMMA ChangesInv ==
  ASSUME Inv, NEW d \in Nodes \cup TVs, NEW byPerson \in BOOLEAN, Changes(d, byPerson)
  PROVE  Inv'
<1> USE DEF Inv
<1> DEFINE track == evidence.track[d]
           up    == track = <<>> \/ track[Len(track)].up
           c     == [t |-> now, up |-> ~up, byPerson |-> byPerson]
<1>1. track \in Seq(Change)
  BY DEF Evidence
<1>2. up \in BOOLEAN
  BY <1>1 DEF Change
<1>3. c \in Change
  BY <1>2 DEF Change
<1>4. evidence' = [evidence EXCEPT !.track[d] = Append(@, c)]
  BY DEF Changes
<1> HIDE DEF c
<1>5. evidence' \in Evidence /\ evidence'.restored = evidence.restored
  BY <1>3, <1>4, EvidenceTrack
<1>6. RunOK(run, evidence')
  BY <1>5 DEF RunOK
<1>7. RunOK(run', evidence')
  BY <1>6, CheckedOK DEF Changes
<1> QED
  BY <1>5, <1>7 DEF Changes

\* The incident is closed and decided; the entry is unloaded.
LEMMA TripInv ==
  ASSUME Inv, CloseIncident \/ Decide \/ Unload
  PROVE  Inv'
<1> USE DEF Inv
<1>1. run \in Run
  BY DEF RunOK
<1>2. [run EXCEPT !.decided = TRUE] \in Run /\ RunOK([run EXCEPT !.decided = TRUE], evidence)
  BY DEF RunOK, Run
<1>3. CASE CloseIncident
  BY <1>2, <1>3, StoppedOK DEF CloseIncident
<1>4. CASE Decide
  BY <1>2, <1>4, CheckedOK DEF Decide
<1>5. CASE Unload
  BY <1>1, <1>5, StoppedOK DEF Unload
<1> QED
  BY <1>3, <1>4, <1>5

\* The timers keep it.
LEMMA TimersInv ==
  ASSUME Inv, Timers
  PROVE  Inv'
<1> USE DEF Inv
<1>1. run \in Run
  BY DEF RunOK
<1>2. CASE OnProbe
  <2> DEFINE timed == [run EXCEPT !.probeAt = None]
             pass  == NewPass(Zigbee \ AskedWhileDead(evidence), Nodes)
  <2>1. RunOK(timed, evidence) /\ timed.finished = run.finished
    BY DEF RunOK, Run, Time
  <2>2. ~run.finished
    BY <1>2 DEF OnProbe, RunOK
  <2>3. pass \in Pass
    BY NewPassType
  <2> HIDE DEF timed, pass
  <2>4. evidence.restored = None => RunOK(Proceeds(timed, "during", pass, evidence), evidence)
    BY <2>1, <2>2, <2>3, ProceedsOK DEF Phases
  <2>5. RunOK(run', evidence)
    BY <1>2, <2>1, <2>4 DEF OnProbe, timed, pass
  <2> QED
    BY <1>2, <2>5 DEF OnProbe
<1>3. CASE OnSettled
  <2> DEFINE timed == [run EXCEPT !.settledAt = None]
             pass  == NewPass(FailedZigbee(evidence), StillDead(evidence))
  <2>1. RunOK(timed, evidence) /\ timed.finished = run.finished
    BY DEF RunOK, Run, Time
  <2>2. ~run.finished /\ evidence.restored # None
    BY <1>3 DEF OnSettled, RunOK
  <2>3. pass \in Pass
    BY NewPassType, Devices DEF StillDead
  <2> HIDE DEF timed, pass
  <2>4. RunOK(Proceeds(timed, "after", pass, evidence), evidence)
    BY <2>1, <2>2, <2>3, ProceedsOK DEF Phases
  <2>5. RunOK(run', evidence)
    BY <1>3, <2>1, <2>4 DEF OnSettled, timed, pass
  <2> QED
    BY <1>3, <2>5 DEF OnSettled
<1>4. CASE OnTick
  <2> DEFINE timed == [run EXCEPT !.tickAt = None, !.after = None, !.afterDone = TRUE]
  <2>1. RunOK(timed, evidence)
    BY DEF RunOK, Run, Time
  <2>2. RunOK(run', evidence)
    BY <1>4, <2>1, CheckedOK DEF OnTick
  <2> QED
    BY <1>4, <2>2 DEF OnTick
<1>5. CASE OnExpired
  BY <1>1, <1>5, StoppedOK DEF OnExpired
<1> QED
  BY <1>2, <1>3, <1>4, <1>5 DEF Timers

\* One step of a task.
LEMMA RequestsInv ==
  ASSUME Inv, NEW phase \in Phases, run[phase] # None,
         \/ \E device \in Zigbee : Asks(phase, device)
         \/ \E answered \in BOOLEAN \cup {None} : Answers(phase, answered)
         \/ \E node \in Nodes : Pings(phase, node)
  PROVE  Inv'
<1> USE DEF Inv
<1>1. run \in Run
  BY DEF RunOK
<1>2. phase = "during" \/ phase = "after"
  BY DEF Phases
<1>3. run[phase] \in Pass
  BY <1>1, <1>2 DEF Run
<1>4. ~run.finished /\ (phase = "during" <=> evidence.restored = None)
  BY <1>2 DEF RunOK
<1>5. ASSUME NEW device \in Zigbee, Asks(phase, device) PROVE Inv'
  <2> DEFINE left == [run[phase] EXCEPT !.todo = @ \ {device},
                        !.asking = [device |-> device, sent |-> now, lit |-> HasPower(device)]]
             none == [run[phase] EXCEPT !.todo = {}]
             pass == IF phase = "during" /\ evidence.restored # None THEN none ELSE left
  <2>1. HasPower(device) \in BOOLEAN
    BY DEF HasPower
  <2>2. left \in Pass /\ none \in Pass
    BY <1>3, <2>1 DEF Pass, Request
  <2>3. run' = Proceeds(run, phase, pass, evidence)
    BY <1>5 DEF Asks
  <2> HIDE DEF left, none
  <2>4. RunOK(Proceeds(run, phase, pass, evidence), evidence)
    BY <1>4, <2>2, ProceedsOK
  <2> QED
    BY <1>5, <2>3, <2>4 DEF Asks
<1>6. ASSUME NEW answered \in BOOLEAN \cup {None}, Answers(phase, answered) PROVE Inv'
  <2> DEFINE asked  == run[phase].asking
             result == [device |-> asked.device, phase |-> phase, sent |-> asked.sent,
                        done |-> now, answered |-> answered]
             pass   == [run[phase] EXCEPT !.asking = None]
  <2>1. asked \in Request
    BY <1>3, <1>6 DEF Answers, Pass
  <2>2. result \in ProbeResult
    BY <1>2, <2>1 DEF ProbeResult, Request
  <2>3. pass \in Pass
    BY <1>3 DEF Pass
  <2>4. /\ evidence' = [evidence EXCEPT !.probes = @ \cup {result}]
        /\ run' = Proceeds(run, phase, pass, evidence')
    BY <1>6 DEF Answers
  <2> HIDE DEF result, pass
  <2>5. evidence' \in Evidence /\ evidence'.restored = evidence.restored
    BY <2>2, <2>4, EvidenceProbe
  <2>6. RunOK(run, evidence')
    BY <2>5 DEF RunOK
  <2>7. RunOK(Proceeds(run, phase, pass, evidence'), evidence')
    BY <1>4, <2>3, <2>5, <2>6, ProceedsOK
  <2> QED
    BY <1>6, <2>4, <2>5, <2>7 DEF Answers
<1>7. ASSUME NEW node \in Nodes, Pings(phase, node) PROVE Inv'
  <2> DEFINE pass == [run[phase] EXCEPT !.pings = @ \ {node}]
  <2>1. pass \in Pass
    BY <1>3 DEF Pass
  <2>2. run' = Proceeds(run, phase, pass, evidence)
    BY <1>7 DEF Pings
  <2> HIDE DEF pass
  <2>3. RunOK(Proceeds(run, phase, pass, evidence), evidence)
    BY <1>4, <2>1, ProceedsOK
  <2> QED
    BY <1>7, <2>2, <2>3 DEF Pings
<1> QED
  BY <1>5, <1>6, <1>7

\* Every step keeps it.
LEMMA NextInv ==
  Inv /\ [Next]_vars => Inv'
<1> SUFFICES ASSUME Inv, [Next]_vars PROVE Inv'
  OBVIOUS
<1>1. CASE PowerChanges \/ ReadsLive \/ ReadsDead \/ ReadsNothing
  BY <1>1, HouseInv
<1>2. CASE CloseIncident \/ Decide \/ Unload
  BY <1>2, TripInv
<1>3. CASE Timers
  BY <1>3, TimersInv
<1>4. CASE Requests
  BY <1>4, RequestsInv DEF Requests, Asks, Answers
<1>5. ASSUME NEW phase \in Phases, NEW node \in Nodes, Pings(phase, node) PROVE Inv'
  BY <1>5, RequestsInv DEF Pings
<1>6. ASSUME NEW d \in Nodes \cup TVs, NEW byPerson \in BOOLEAN, Changes(d, byPerson)
      PROVE  Inv'
  BY <1>6, ChangesInv
<1>7. CASE Tick
  BY <1>7 DEF Tick, Inv
<1>8. CASE UNCHANGED vars
  BY <1>8 DEF vars, Inv
<1> QED
  BY <1>1, <1>2, <1>3, <1>4, <1>5, <1>6, <1>7, <1>8 DEF Next

\* It holds throughout.
LEMMA Invariant == Spec => []Inv
BY InitInv, NextInv, PTL DEF Spec

-----------------------------------------------------------------------------
(* The state of a run keeps its type.                                      *)
THEOREM OutageTypes == Spec => []TypeOK
<1>1. Inv => TypeOK
  BY DEF Inv, RunOK, TypeOK
<1> QED
  BY <1>1, Invariant, PTL

(* A run that goes on always has a deadline, whatever its circuit does     *)
(* (probes.py:215-219, 282-316), so none is left behind to keep the next   *)
(* incident from being followed (trips.py:408-424).                        *)
THEOREM ARunAlwaysHasADeadline == Spec => []AlwaysADeadline
<1>1. Inv => AlwaysADeadline
  BY DEF Inv, RunOK, AlwaysADeadline
<1> QED
  BY <1>1, Invariant, PTL

(* The pass of the dead circuit and the pass of its return never run       *)
(* together, so one run has one request under way (probes.py:404-412).     *)
THEOREM OneRequestIsUnderWay == Spec => []OneRequestAtATime
<1>1. Inv => OneRequestAtATime
  BY DEF Inv, RunOK, OneRequestAtATime, Phases
<1> QED
  BY <1>1, Invariant, PTL

(* Nothing is added to the evidence of a run that ended and it is not      *)
(* handed over again, since no task and no timer of it is left             *)
(* (probes.py:220-232).                                                    *)
THEOREM WhatIsHandedOverIsFinal == Spec => HandOverIsFinal
<1> DEFINE Final == run.finished => UNCHANGED <<evidence, run.handed>>
<1>1. ASSUME Inv, Next, run.finished PROVE UNCHANGED <<evidence, run.handed>>
  <2>1. /\ run \in Run /\ run.during = None /\ run.after = None
        /\ run.deadAt = None /\ run.probeAt = None /\ run.settledAt = None
        /\ run.tickAt = None /\ run.expireAt = None
    BY <1>1 DEF Inv, RunOK
  <2>2. \A phase \in Phases : run[phase] = None
    BY <2>1 DEF Phases
  <2>3. /\ Stopped(run).handed = run.handed
        /\ Stopped([run EXCEPT !.decided = TRUE]).handed = run.handed
        /\ Checked([run EXCEPT !.decided = TRUE], evidence).handed = run.handed
    BY <1>1, <2>1 DEF Stopped, Checked, Run
  <2>4. CASE PowerChanges
    <3>1. FALSE
      BY <1>1, <2>4 DEF PowerChanges
    <3> QED
      BY <3>1
  <2>5. CASE ReadsLive
    BY <1>1, <2>5 DEF ReadsLive
  <2>6. CASE ReadsDead
    BY <1>1, <2>6 DEF ReadsDead
  <2>7. CASE ReadsNothing
    BY <2>7 DEF ReadsNothing
  <2>8. CASE CloseIncident
    BY <2>3, <2>8 DEF CloseIncident
  <2>9. CASE Decide
    BY <2>3, <2>9 DEF Decide
  <2>10. CASE Unload
    BY <2>3, <2>10 DEF Unload
  <2>11. CASE Timers
    BY <2>1, <2>11 DEF Timers, OnProbe, OnSettled, OnTick, OnExpired
  <2>12. CASE Requests
    BY <2>2, <2>12 DEF Requests, Asks, Answers
  <2>13. CASE \E phase \in Phases, node \in Nodes : Pings(phase, node)
    BY <2>2, <2>13 DEF Pings
  <2>14. CASE \E d \in Nodes \cup TVs, byPerson \in BOOLEAN : Changes(d, byPerson)
    BY <1>1, <2>14 DEF Changes
  <2>15. CASE Tick
    BY <2>15 DEF Tick
  <2> QED
    BY <1>1, <2>4, <2>5, <2>6, <2>7, <2>8, <2>9, <2>10, <2>11, <2>12, <2>13, <2>14,
       <2>15 DEF Next
<1>2. Inv /\ [Next]_vars => [Final]_vars
  BY <1>1
<1> QED
  BY <1>2, Invariant, PTL DEF Spec, HandOverIsFinal

-----------------------------------------------------------------------------
(* What was asked, and what was answered.  The invariant above says        *)
(* nothing of it; this one relates each request to the power that may have *)
(* reached it.                                                             *)

\* A change of the power is read within METER_LAG_S.
HouseOK ==
  /\ power.since <= now
  /\ power.on # live => now < power.since + METER_LAG_S

\* Power may have reached this request, and it does not count as made while
\* the circuit was dead: it is too near to a return, or will be.
Tainted(p, e) ==
  \/ \E f \in e.flickers : /\ f.live < p.done + METER_LAG_S
                           /\ p.sent < f.dead + PROBE_DELAY_S
  \/ e.restored # None /\ e.restored < p.done + METER_LAG_S
  \/ e.restored = None /\ power.on /\ power.since <= p.done

\* An answer of a device on the circuit that was asked with the circuit dead.
Suspicious(p) == p.phase = "during" /\ p.device \in Fed /\ p.answered = TRUE

\* The request in flight.
InFlight(pass) == pass # None /\ pass.asking # None

RequestsOK(r, e) ==
  /\ e.restored # None => e.restored <= now
  /\ e.restored = None /\ ~r.finished => ~live
  /\ \A p \in e.probes : p.sent <= p.done /\ p.done <= now
  /\ \A p \in e.probes : Suspicious(p) => Tainted(p, e)
  /\ InFlight(r.during) =>
       /\ r.during.asking.sent <= now
       /\ r.during.asking.lit /\ r.during.asking.device \in Fed => power.on
  /\ InFlight(r.after) => r.after.asking.sent <= now
  /\ e.restored = None /\ ~power.on =>
       /\ r.probeAt # None => power.since + PROBE_DELAY_S <= r.probeAt
       /\ r.during # None => power.since + PROBE_DELAY_S <= now

\* The devices asked again after the return.
AskedAgain(e) == {p.device : p \in {q \in e.probes : After(e, q)}}

\* Those a task has still to ask, or is asking.
Left(pass) == pass.todo \cup IF pass.asking = None THEN {} ELSE {pass.asking.device}

Early(e) == e.restored # None /\ now < e.restored + RETURN_S

Complete(e) == FailedZigbee(e) \subseteq AskedAgain(e) /\ \A d \in Out(e) : Back(e, d) # 0

\* Until the window ends, whoever failed is asked again or about to be.
DoneOK(r, e) ==
  /\ ~r.probe => e.probes = {} /\ r.during = None /\ r.after = None
  /\ e.restored = None /\ r.probe => ~r.afterDone
  /\ r.tickAt # None => r.tickAt = e.restored + RETURN_S
  /\ InFlight(r.after) => e.restored <= r.after.asking.sent
  /\ Early(e) =>
       /\ r.after # None => FailedZigbee(e) \subseteq Left(r.after) \cup AskedAgain(e)
       /\ r.afterDone => FailedZigbee(e) \subseteq AskedAgain(e)
  /\ r.handed # None =>
       /\ r.finished /\ e.restored # None
       /\ r.handed < e.restored + RETURN_S => Complete(e)

AskInv == HouseOK /\ RequestsOK(run, evidence) /\ DoneOK(run, evidence)

-----------------------------------------------------------------------------
(* Lemmas on requests.                                                     *)

\* The times of the evidence are numbers.
LEMMA EvidenceTimes ==
  ASSUME NEW e \in Evidence
  PROVE  /\ e.restored \in Nat \cup {None}
         /\ \A p \in e.probes : p.sent \in Nat /\ p.done \in Nat /\ p.device \in Zigbee
         /\ \A f \in e.flickers : f.live \in Nat /\ f.dead \in Nat
<1>1. e.probes \subseteq ProbeResult /\ e.flickers \subseteq Flicker
  BY DEF Evidence
<1> QED
  BY <1>1 DEF Evidence, ProbeResult, Flicker

\* A pass in flight has a device and a time.
LEMMA InFlightType ==
  ASSUME NEW pass \in Pass \cup {None}, InFlight(pass)
  PROVE  pass \in Pass /\ pass.asking \in Request
BY DEF InFlight, Pass

\* What failed, and what was asked again, rest on the requests and the returns alone.
LEMMA SameRequests ==
  ASSUME NEW e, NEW f, f.probes = e.probes, f.restored = e.restored,
         f.flickers = e.flickers, f.fall = e.fall
  PROVE  FailedZigbee(f) = FailedZigbee(e) /\ AskedAgain(f) = AskedAgain(e)
<1>1. \A p : WhileDead(f, p) <=> WhileDead(e, p)
  BY DEF WhileDead
<1>2. \A p : After(f, p) <=> After(e, p)
  BY DEF After
<1>3. During(f) = During(e)
  BY <1>1 DEF During
<1> QED
  BY <1>2, <1>3 DEF FailedZigbee, AskedAgain

\* Without a request nothing failed.
LEMMA NothingFailed ==
  ASSUME NEW e, e.probes = {}
  PROVE  FailedZigbee(e) = {}
BY DEF FailedZigbee, During

\* Power reaching a device changes no request but its chances.
LEMMA LitKeeps ==
  ASSUME NEW pass \in Pass \cup {None}
  PROVE  /\ Lit(pass) = None <=> pass = None
         /\ pass # None => Left(Lit(pass)) = Left(pass)
         /\ InFlight(Lit(pass)) <=> InFlight(pass)
         /\ InFlight(pass) => Lit(pass).asking.sent = pass.asking.sent
<1>1. CASE ~InFlight(pass)
  <2>1. Lit(pass) = pass
    BY <1>1 DEF InFlight, Lit
  <2> QED
    BY <1>1, <2>1
<1>2. CASE InFlight(pass)
  <2>1. pass \in Pass /\ pass.asking \in Request
    BY <1>2, InFlightType
  <2>2. PICK asked \in Request :
          asked = [pass.asking EXCEPT !.lit = TRUE]
    BY <2>1 DEF Request
  <2>3. asked.sent = pass.asking.sent /\ asked.device = pass.asking.device
    BY <2>1, <2>2 DEF Request
  <2>4. Lit(pass) = [pass EXCEPT !.asking = asked]
    BY <1>2, <2>2 DEF InFlight, Lit
  <2>5. Lit(pass).asking = asked /\ Lit(pass).todo = pass.todo /\ Lit(pass) \in Pass
    BY <2>1, <2>4 DEF Pass
  <2>6. asked # None /\ pass.asking # None /\ pass # None /\ Lit(pass) # None
    <3>1. Lit(pass) # None
      BY <2>5, OutageNoneAssumption
    <3>2. Lit(pass) \in Pass /\ InFlight(pass)
      BY <1>2, <2>5
    <3>3. asked # None
      BY <2>2, OutageNoneAssumption
    <3> QED
      BY <1>2, <3>1, <3>3 DEF InFlight
  <2> QED
    BY <2>3, <2>5, <2>6 DEF Left, InFlight
<1> QED
  BY <1>1, <1>2

-----------------------------------------------------------------------------
(* The end of a run.                                                       *)

\* A run that is stopped keeps what was asked.
LEMMA StoppedAsks ==
  ASSUME NEW r \in Run, NEW e, RequestsOK(r, e), DoneOK(r, e)
  PROVE  RequestsOK(Stopped(r), e) /\ DoneOK(Stopped(r), e)
<1> DEFINE s == Stopped(r)
<1>1. /\ s.finished /\ s.during = None /\ s.after = None /\ s.probeAt = None
      /\ s.tickAt = None /\ s.probe = r.probe /\ s.afterDone = r.afterDone
      /\ s.handed = r.handed
  BY DEF Stopped, Run
<1> HIDE DEF s
<1>2. RequestsOK(s, e)
  BY <1>1 DEF RequestsOK, InFlight
<1>3. DoneOK(s, e)
  BY <1>1 DEF DoneOK, InFlight
<1> QED
  BY <1>2, <1>3 DEF s

\* One that is handed over early is complete.
LEMMA CheckedAsks ==
  ASSUME NEW r, NEW e \in Evidence, now \in Nat, RunOK(r, e), RequestsOK(r, e), DoneOK(r, e)
  PROVE  RequestsOK(Checked(r, e), e) /\ DoneOK(Checked(r, e), e)
<1>1. r \in Run
  BY DEF RunOK
<1> DEFINE s == Stopped(r)
           over == [s EXCEPT !.handed = now]
<1>2. RequestsOK(s, e) /\ DoneOK(s, e)
  BY <1>1, StoppedAsks
<1>3. CASE \/ r.finished \/ e.restored = None \/ ~r.afterDone
           \/ Waiting(e, now) \/ ~r.decided
  BY <1>3 DEF Checked
<1>4. CASE ~(\/ r.finished \/ e.restored = None \/ ~r.afterDone
             \/ Waiting(e, now) \/ ~r.decided)
  <2>1. Checked(r, e) = over
    BY <1>4 DEF Checked
  <2>2. /\ over.finished /\ over.during = None /\ over.after = None /\ over.probeAt = None
        /\ over.tickAt = None /\ over.probe = r.probe /\ over.afterDone = r.afterDone
        /\ over.handed = now
    BY <1>1 DEF Stopped, Run
  <2> HIDE DEF s, over
  <2>3. RequestsOK(over, e)
    BY <1>2, <2>2 DEF RequestsOK, InFlight
  <2>4. now < e.restored + RETURN_S => Complete(e)
    <3> SUFFICES ASSUME now < e.restored + RETURN_S PROVE Complete(e)
      OBVIOUS
    <3>1. Early(e)
      BY <1>4 DEF Early
    <3>2. FailedZigbee(e) \subseteq AskedAgain(e)
      <4>1. CASE r.probe
        BY <1>4, <3>1 DEF DoneOK
      <4>2. CASE ~r.probe
        BY <4>2, NothingFailed DEF DoneOK
      <4> QED
        BY <4>1, <4>2
    <3>3. \A d \in Out(e) : Back(e, d) # 0
      BY <1>4 DEF Waiting
    <3> QED
      BY <3>2, <3>3 DEF Complete
  <2>5. DoneOK(over, e)
    BY <1>4, <2>2, <2>4 DEF DoneOK, InFlight
  <2> QED
    BY <2>1, <2>3, <2>5
<1> QED
  BY <1>3, <1>4

\* What a task of each phase may be.
PassOK(pass, phase, e) ==
  IF phase = "during"
  THEN /\ ~power.on => power.since + PROBE_DELAY_S <= now
       /\ InFlight(pass) =>
            /\ pass.asking.sent <= now
            /\ pass.asking.lit /\ pass.asking.device \in Fed => power.on
  ELSE /\ InFlight(pass) => e.restored <= pass.asking.sent /\ pass.asking.sent <= now
       /\ Early(e) => FailedZigbee(e) \subseteq Left(pass) \cup AskedAgain(e)

\* A task that goes on keeps what was asked, and one that ends has asked.
LEMMA ProceedsAsks ==
  ASSUME NEW r, NEW e \in Evidence, now \in Nat, RunOK(r, e), RequestsOK(r, e), DoneOK(r, e),
         ~r.finished, r.probe, NEW phase \in Phases, NEW pass \in Pass,
         phase = "during" <=> e.restored = None, PassOK(pass, phase, e)
  PROVE  /\ RequestsOK(Proceeds(r, phase, pass, e), e)
         /\ DoneOK(Proceeds(r, phase, pass, e), e)
<1>1. r \in Run
  BY DEF RunOK
<1>2. CASE phase = "during"
  <2>1. /\ e.restored = None /\ r.after = None
        /\ ~power.on => power.since + PROBE_DELAY_S <= now
        /\ InFlight(pass) =>
             /\ pass.asking.sent <= now
             /\ pass.asking.lit /\ pass.asking.device \in Fed => power.on
    BY <1>2 DEF PassOK, RunOK
  <2>2. ASSUME NEW p, p = None \/ p = pass
        PROVE  RequestsOK([r EXCEPT !.during = p], e) /\ DoneOK([r EXCEPT !.during = p], e)
    <3> DEFINE s == [r EXCEPT !.during = p]
    <3>1. /\ s.during = p /\ s.after = None /\ s.probeAt = r.probeAt /\ s.tickAt = r.tickAt
          /\ s.finished = r.finished /\ s.probe = r.probe /\ s.afterDone = r.afterDone
          /\ s.handed = r.handed
      BY <1>1, <2>1 DEF Run
    <3> HIDE DEF s
    <3>2. InFlight(p) => InFlight(pass) /\ p = pass
      BY <2>2 DEF InFlight
    <3>3. RequestsOK(s, e)
      BY <2>1, <3>1, <3>2 DEF RequestsOK, InFlight
    <3>4. DoneOK(s, e)
      BY <2>1, <3>1 DEF DoneOK, InFlight
    <3> QED
      BY <3>3, <3>4 DEF s
  <2>3. Proceeds(r, phase, pass, e) \in {[r EXCEPT !.during = None], [r EXCEPT !.during = pass]}
    BY <1>2 DEF Proceeds
  <2> QED
    BY <2>2, <2>3
<1>3. CASE phase # "during"
  <2>1. /\ e.restored # None /\ r.during = None
        /\ InFlight(pass) => e.restored <= pass.asking.sent /\ pass.asking.sent <= now
        /\ Early(e) => FailedZigbee(e) \subseteq Left(pass) \cup AskedAgain(e)
    BY <1>3 DEF PassOK, RunOK
  <2>2. RequestsOK([r EXCEPT !.after = pass], e) /\ DoneOK([r EXCEPT !.after = pass], e)
    <3> DEFINE s == [r EXCEPT !.after = pass]
    <3>1. /\ s.during = None /\ s.after = pass /\ s.probeAt = r.probeAt /\ s.tickAt = r.tickAt
          /\ s.finished = r.finished /\ s.probe = r.probe /\ s.afterDone = r.afterDone
          /\ s.handed = r.handed
      BY <1>1, <2>1 DEF Run
    <3> HIDE DEF s
    <3>2. RequestsOK(s, e)
      BY <2>1, <3>1 DEF RequestsOK, InFlight
    <3>3. DoneOK(s, e)
      BY <2>1, <3>1 DEF DoneOK
    <3> QED
      BY <3>2, <3>3 DEF s
  <2>3. CASE Over(pass)
    <3> DEFINE s == [r EXCEPT !.after = None, !.afterDone = TRUE]
    <3>1. /\ s.during = None /\ s.after = None /\ s.probeAt = r.probeAt /\ s.tickAt = r.tickAt
          /\ s.finished = r.finished /\ s.probe = r.probe /\ s.afterDone
          /\ s.handed = r.handed
      BY <1>1, <2>1 DEF Run
    <3>2. Left(pass) = {}
      BY <2>3 DEF Over, Left
    <3>3. RunOK(s, e)
      BY <1>3, <2>1 DEF RunOK, Run
    <3> HIDE DEF s
    <3>4. RequestsOK(s, e)
      BY <2>1, <3>1 DEF RequestsOK, InFlight
    <3>5. DoneOK(s, e)
      BY <2>1, <3>1, <3>2 DEF DoneOK, InFlight
    <3>6. Proceeds(r, phase, pass, e) = Checked(s, e)
      BY <1>3, <2>3 DEF Proceeds, s
    <3> QED
      BY <3>3, <3>4, <3>5, <3>6, CheckedAsks
  <2>4. CASE ~Over(pass)
    BY <1>3, <2>2, <2>4 DEF Proceeds
  <2> QED
    BY <2>3, <2>4
<1> QED
  BY <1>2, <1>3

-----------------------------------------------------------------------------
(* The steps.                                                              *)

\* Initially nothing was asked.
LEMMA InitAskInv ==
  Init => AskInv
<1> SUFFICES ASSUME Init PROVE AskInv
  OBVIOUS
<1>1. HouseOK
  <2>1. power.on = FALSE /\ power.since = 0 /\ now = 0 /\ live = FALSE
    BY DEF Init
  <2>2. power.on = live
    BY <2>1, Zenon
  <2>3. power.since <= now
    BY <2>1
  <2> QED
    BY <2>2, <2>3, Zenon DEF HouseOK
<1>2. ASSUME NEW probe \in BOOLEAN
      PROVE  RequestsOK(NewRun(probe), NoEvidence(0)) /\ DoneOK(NewRun(probe), NoEvidence(0))
  <2>1. /\ NewRun(probe).probe = probe /\ ~NewRun(probe).finished
        /\ NewRun(probe).afterDone = ~probe /\ NewRun(probe).probeAt = PROBE_DELAY_S
        /\ NewRun(probe).tickAt = None /\ NewRun(probe).during = None
        /\ NewRun(probe).after = None /\ NewRun(probe).handed = None
    BY DEF NewRun
  <2>2. NoEvidence(0).probes = {} /\ NoEvidence(0).restored = None
    BY DEF NoEvidence
  <2>3. RequestsOK(NewRun(probe), NoEvidence(0))
    BY <2>1, <2>2, DelaysAreNat DEF Init, RequestsOK, InFlight
  <2>4. DoneOK(NewRun(probe), NoEvidence(0))
    BY <2>1, <2>2 DEF DoneOK, InFlight, Early
  <2> QED
    BY <2>3, <2>4
<1> QED
  BY <1>1, <1>2 DEF Init, AskInv

\* A step of the run alone.
LEMMA RunStep ==
  ASSUME AskInv, UNCHANGED <<now, power, live>>,
         RequestsOK(run', evidence'), DoneOK(run', evidence')
  PROVE  AskInv'
<1>1. HouseOK'
  BY DEF AskInv, HouseOK
<1>2. RequestsOK(run, evidence)'
  BY DEF RequestsOK, Tainted
<1>3. DoneOK(run, evidence)'
  BY DEF DoneOK, Early
<1> QED
  BY <1>1, <1>2, <1>3 DEF AskInv

\* Somebody works the breaker.
LEMMA PowerAskInv ==
  ASSUME Inv, AskInv, PowerChanges
  PROVE  AskInv'
<1>1. /\ ~run.finished /\ power.on = live
      /\ power' = [on |-> ~power.on, since |-> now, flaps |-> power.flaps + 1]
      /\ run' = [run EXCEPT !.during = Lit(@), !.after = Lit(@)]
      /\ UNCHANGED <<now, live, evidence>>
  BY DEF PowerChanges
<1>2. /\ now \in Nat /\ run \in Run /\ evidence \in Evidence /\ power.on \in BOOLEAN
      /\ run.during \in Pass \cup {None} /\ run.after \in Pass \cup {None}
      /\ power.since \in Nat /\ live \in BOOLEAN
  BY DEF Inv, RunOK, Run
<1>3. /\ run'.during = Lit(run.during) /\ run'.after = Lit(run.after)
      /\ run'.probe = run.probe /\ run'.finished = run.finished
      /\ run'.afterDone = run.afterDone /\ run'.probeAt = run.probeAt
      /\ run'.tickAt = run.tickAt /\ run'.handed = run.handed
  BY <1>1, <1>2 DEF Run
<1>4. /\ power'.on = ~power.on /\ power'.since = now
      /\ METER_LAG_S \in Nat \ {0} /\ PROBE_DELAY_S \in Nat
  BY <1>1, EvidenceAssumption
<1>5. evidence.restored = None => ~live /\ power'.on
  BY <1>1, <1>4 DEF AskInv, RequestsOK
<1>6. HouseOK'
  BY <1>1, <1>2, <1>4 DEF HouseOK
<1>7. /\ InFlight(Lit(run.during)) => InFlight(run.during)
      /\ InFlight(run.during) => Lit(run.during).asking.sent = run.during.asking.sent
      /\ InFlight(Lit(run.after)) => InFlight(run.after)
      /\ InFlight(run.after) => Lit(run.after).asking.sent = run.after.asking.sent
      /\ Lit(run.during) = None <=> run.during = None
      /\ Lit(run.after) = None <=> run.after = None
      /\ run.after # None => Left(Lit(run.after)) = Left(run.after)
  BY <1>2, LitKeeps
<1>8. RequestsOK(run, evidence)'
  <2>1. ASSUME NEW p \in evidence.probes, Suspicious(p)
        PROVE  Tainted(p, evidence)'
    <3>1. Tainted(p, evidence)
      BY <2>1 DEF AskInv, RequestsOK
    <3> QED
      BY <3>1, <1>1, <1>5 DEF Tainted
  <2>2. InFlight(run'.during) =>
          /\ run'.during.asking.sent <= now
          /\ run'.during.asking.lit /\ run'.during.asking.device \in Fed => power'.on
    <3> SUFFICES ASSUME InFlight(run'.during)
                 PROVE  run'.during.asking.sent <= now /\ power'.on
      OBVIOUS
    <3>1. InFlight(run.during)
      BY <1>3, <1>7
    <3>2. evidence.restored = None
      BY <3>1 DEF InFlight, Inv, RunOK
    <3> QED
      BY <1>3, <1>5, <1>7, <3>1, <3>2 DEF AskInv, RequestsOK
  <2>3. InFlight(run'.after) => run'.after.asking.sent <= now
    BY <1>3, <1>7 DEF AskInv, RequestsOK
  <2> QED
    BY <1>1, <1>3, <1>5, <2>1, <2>2, <2>3 DEF AskInv, RequestsOK
<1>9. DoneOK(run, evidence)'
  BY <1>1, <1>3, <1>7 DEF AskInv, DoneOK, Early
<1> QED
  BY <1>6, <1>8, <1>9 DEF AskInv

\* The circuit reports its return.
LEMMA LiveAskInv ==
  ASSUME Inv, AskInv, ReadsLive
  PROVE  AskInv'
<1>1. /\ power.on /\ ~live /\ live' = TRUE /\ now' = now /\ power' = power
      /\ IF evidence.restored # None \/ run.finished
         THEN UNCHANGED <<evidence, run>>
         ELSE evidence' = Restored(evidence, now) /\ run' = Returns(run)
  BY DEF ReadsLive
<1>2. /\ now \in Nat /\ run \in Run /\ evidence \in Evidence
      /\ power.since \in Nat /\ METER_LAG_S \in Nat /\ RETURN_S \in Nat
  BY DelaysAreNat DEF Inv, RunOK
<1>3. HouseOK'
  BY <1>1 DEF AskInv, HouseOK
<1>4. CASE evidence.restored # None \/ run.finished
  <2>1. RequestsOK(run, evidence)'
    BY <1>1, <1>4 DEF AskInv, RequestsOK, Tainted
  <2>2. DoneOK(run, evidence)'
    BY <1>1, <1>4 DEF AskInv, DoneOK, Early
  <2> QED
    BY <1>3, <2>1, <2>2 DEF AskInv
<1>5. CASE evidence.restored = None /\ ~run.finished
  <2>1. /\ evidence'.restored = now /\ evidence'.probes = evidence.probes
        /\ evidence'.flickers = evidence.flickers
    BY <1>1, <1>2, <1>5 DEF Restored, Evidence
  <2>2. run' = Returns(run)
    BY <1>1, <1>5
  <2>3. /\ run'.during = None /\ run'.after = run.after /\ run'.probeAt = None
        /\ run'.tickAt = now + RETURN_S /\ run'.finished = run.finished
        /\ run'.probe = run.probe /\ run'.afterDone = run.afterDone
        /\ run'.handed = run.handed
    BY <1>2, <2>2 DEF Returns, Run
  <2>4. run.after = None /\ run.handed = None
    BY <1>5 DEF Inv, RunOK, AskInv, DoneOK
  <2>5. now # None
    BY <1>2, NoneIsNoTime
  <2>6. RequestsOK(run, evidence)'
    <3>1. ASSUME NEW p \in evidence.probes, Suspicious(p)
          PROVE  Tainted(p, evidence)'
      <4>1. Tainted(p, evidence) /\ p.done \in Nat
        BY <1>2, <3>1, EvidenceTimes DEF AskInv, RequestsOK
      <4>2. now < power.since + METER_LAG_S
        BY <1>1 DEF AskInv, HouseOK
      <4>3. CASE evidence.restored = None /\ power.on /\ power.since <= p.done
        <5>1. now < p.done + METER_LAG_S
          BY <1>2, <4>1, <4>2, <4>3
        <5> QED
          BY <2>1, <2>5, <5>1 DEF Tainted
      <4>4. CASE \E f \in evidence.flickers : /\ f.live < p.done + METER_LAG_S
                                              /\ p.sent < f.dead + PROBE_DELAY_S
        BY <2>1, <4>4 DEF Tainted
      <4> QED
        BY <1>5, <4>1, <4>3, <4>4 DEF Tainted
    <3> QED
      BY <1>1, <1>2, <2>1, <2>3, <2>4, <2>5, <3>1 DEF AskInv, RequestsOK, InFlight
  <2>7. DoneOK(run, evidence)'
    <3>1. ~run.probe => evidence'.probes = {} /\ FailedZigbee(evidence') = {}
      BY <2>1, NothingFailed DEF AskInv, DoneOK
    <3>2. run.probe => ~run.afterDone
      BY <1>5 DEF AskInv, DoneOK
    <3> QED
      BY <1>1, <2>1, <2>3, <2>4, <2>5, <3>1, <3>2 DEF AskInv, DoneOK, InFlight
  <2> QED
    BY <1>3, <2>6, <2>7 DEF AskInv
<1> QED
  BY <1>4, <1>5

\* It reports that it is dead again.
LEMMA DeadAskInv ==
  ASSUME Inv, AskInv, ReadsDead
  PROVE  AskInv'
<1>1. /\ ~power.on /\ live /\ live' = FALSE /\ now' = now /\ power' = power
      /\ IF incident = None \/ evidence.restored = None \/ run.finished
         THEN UNCHANGED <<evidence, run>>
         ELSE evidence' = DeadAgain(evidence, now) /\ run' = DiesAgain(run)
  BY DEF ReadsDead
<1>2. /\ now \in Nat /\ run \in Run /\ evidence \in Evidence /\ power.since \in Nat
      /\ METER_LAG_S \in Nat /\ PROBE_DELAY_S \in Nat \ {0}
  BY EvidenceAssumption DEF Inv, RunOK
<1>3. HouseOK'
  BY <1>1 DEF AskInv, HouseOK
<1>4. CASE UNCHANGED <<evidence, run>>
  <2>1. RequestsOK(run, evidence)'
    BY <1>1, <1>4 DEF AskInv, RequestsOK, Tainted
  <2>2. DoneOK(run, evidence)'
    BY <1>1, <1>4 DEF AskInv, DoneOK, Early
  <2> QED
    BY <1>3, <2>1, <2>2 DEF AskInv
<1>5. CASE /\ evidence.restored # None /\ ~run.finished
           /\ evidence' = DeadAgain(evidence, now) /\ run' = DiesAgain(run)
  <2>1. /\ evidence'.restored = None /\ evidence'.probes = evidence.probes
        /\ evidence'.flickers = evidence.flickers
                                  \cup {[live |-> evidence.restored, dead |-> now]}
    BY <1>2, <1>5 DEF DeadAgain, Evidence
  <2>2. /\ run'.during = run.during /\ run'.after = None /\ run'.tickAt = None
        /\ run'.probeAt = now + PROBE_DELAY_S /\ run'.finished = run.finished
        /\ run'.probe = run.probe /\ run'.afterDone = ~run.probe
        /\ run'.handed = run.handed
    BY <1>2, <1>5 DEF DiesAgain, Run
  <2>3. run.during = None /\ run.handed = None
    BY <1>5 DEF Inv, RunOK, AskInv, DoneOK
  <2>4. RequestsOK(run, evidence)'
    <3>1. ASSUME NEW p \in evidence.probes, Suspicious(p)
          PROVE  Tainted(p, evidence)'
      <4>1. /\ Tainted(p, evidence) /\ p.done \in Nat /\ p.sent \in Nat
            /\ p.sent <= p.done /\ p.done <= now
        BY <1>2, <3>1, EvidenceTimes DEF AskInv, RequestsOK
      <4>2. CASE \E f \in evidence.flickers : /\ f.live < p.done + METER_LAG_S
                                              /\ p.sent < f.dead + PROBE_DELAY_S
        BY <2>1, <4>2 DEF Tainted
      <4>3. CASE evidence.restored < p.done + METER_LAG_S
        <5> DEFINE f == [live |-> evidence.restored, dead |-> now]
        <5>1. f \in evidence'.flickers /\ f.live < p.done + METER_LAG_S
          BY <2>1, <4>3
        <5>2. p.sent < f.dead + PROBE_DELAY_S
          BY <1>2, <4>1
        <5> HIDE DEF f
        <5> QED
          BY <5>1, <5>2 DEF Tainted
      <4> QED
        BY <1>5, <4>1, <4>2, <4>3 DEF Tainted
    <3>2. power.since + PROBE_DELAY_S <= now + PROBE_DELAY_S
      BY <1>2 DEF AskInv, HouseOK
    <3> QED
      BY <1>1, <2>1, <2>2, <2>3, <3>1, <3>2 DEF AskInv, RequestsOK, InFlight
  <2>5. DoneOK(run, evidence)'
    BY <2>1, <2>2, <2>3 DEF AskInv, DoneOK, InFlight, Early
  <2> QED
    BY <1>3, <2>4, <2>5 DEF AskInv
<1> QED
  BY <1>1, <1>4, <1>5

\* The incident is closed and decided, or the entry is unloaded.
LEMMA TripAskInv ==
  ASSUME Inv, AskInv, CloseIncident \/ Decide \/ Unload
  PROVE  AskInv'
<1>1. /\ run \in Run /\ evidence \in Evidence /\ now \in Nat
      /\ RunOK(run, evidence) /\ RequestsOK(run, evidence) /\ DoneOK(run, evidence)
  BY DEF Inv, RunOK, AskInv
<1> DEFINE s == [run EXCEPT !.decided = TRUE]
<1>2. s \in Run /\ RunOK(s, evidence)
  BY <1>1 DEF RunOK, Run
<1>3. /\ s.during = run.during /\ s.after = run.after /\ s.probeAt = run.probeAt
      /\ s.tickAt = run.tickAt /\ s.finished = run.finished /\ s.probe = run.probe
      /\ s.afterDone = run.afterDone /\ s.handed = run.handed
  BY <1>1 DEF Run
<1>4. /\ UNCHANGED <<now, power, live, evidence>>
      /\ run' \in {run, Stopped(run), Stopped(s), Checked(s, evidence)}
  BY DEF CloseIncident, Decide, Unload
<1> HIDE DEF s
<1>5. RequestsOK(s, evidence) /\ DoneOK(s, evidence)
  <2>1. RequestsOK(s, evidence)
    BY <1>1, <1>3 DEF RequestsOK
  <2>2. DoneOK(s, evidence)
    BY <1>1, <1>3 DEF DoneOK
  <2> QED
    BY <2>1, <2>2
<1>6. RequestsOK(run', evidence) /\ DoneOK(run', evidence)
  BY <1>1, <1>2, <1>4, <1>5, StoppedAsks, CheckedAsks
<1> QED
  BY <1>4, <1>6, RunStep

\* The timers of the run.
LEMMA TimersAskInv ==
  ASSUME Inv, AskInv, Timers
  PROVE  AskInv'
<1>1. /\ run \in Run /\ evidence \in Evidence /\ now \in Nat
      /\ RunOK(run, evidence) /\ RequestsOK(run, evidence) /\ DoneOK(run, evidence)
  BY DEF Inv, RunOK, AskInv
<1>2. UNCHANGED <<now, power, live, evidence>>
  BY DEF Timers, OnProbe, OnSettled, OnTick, OnExpired
<1>3. CASE OnProbe
  <2> DEFINE s    == [run EXCEPT !.probeAt = None]
             pass == NewPass(Zigbee \ AskedWhileDead(evidence), Nodes)
  <2>1. /\ s.during = run.during /\ s.after = run.after /\ s.probeAt = None
        /\ s.tickAt = run.tickAt /\ s.finished = run.finished /\ s.probe = run.probe
        /\ s.afterDone = run.afterDone /\ s.handed = run.handed
    BY <1>1 DEF Run
  <2>2. RunOK(s, evidence)
    BY <1>1 DEF RunOK, Run, Time
  <2>3. pass \in Pass /\ ~InFlight(pass)
    <3>1. pass \in Pass
      BY NewPassType
    <3> QED
      BY <3>1 DEF NewPass, InFlight
  <2>4. /\ ~run.finished /\ run.probeAt # None /\ now >= run.probeAt /\ run.probeAt \in Nat
        /\ run' = IF run.probe /\ evidence.restored = None /\ run.during = None
                  THEN Proceeds(s, "during", pass, evidence) ELSE s
    BY <1>1, <1>3 DEF OnProbe, RunOK, Run, Time
  <2> HIDE DEF s, pass
  <2>5. RequestsOK(s, evidence) /\ DoneOK(s, evidence)
    <3>1. RequestsOK(s, evidence)
      BY <1>1, <2>1 DEF RequestsOK
    <3>2. DoneOK(s, evidence)
      BY <1>1, <2>1 DEF DoneOK
    <3> QED
      BY <3>1, <3>2
  <2>6. CASE run.probe /\ evidence.restored = None /\ run.during = None
    <3>1. ~power.on => power.since + PROBE_DELAY_S <= now
      <4>1. power.since \in Nat /\ PROBE_DELAY_S \in Nat
        BY DelaysAreNat DEF Inv
      <4> QED
        BY <1>1, <2>4, <2>6, <4>1 DEF RequestsOK
    <3>2. PassOK(pass, "during", evidence)
      BY <2>3, <3>1 DEF PassOK
    <3>3. /\ RequestsOK(Proceeds(s, "during", pass, evidence), evidence)
          /\ DoneOK(Proceeds(s, "during", pass, evidence), evidence)
      BY <1>1, <2>1, <2>2, <2>3, <2>4, <2>5, <2>6, <3>2, ProceedsAsks DEF Phases
    <3> QED
      BY <1>2, <2>4, <2>6, <3>3, RunStep
  <2>7. CASE ~(run.probe /\ evidence.restored = None /\ run.during = None)
    BY <1>2, <2>4, <2>5, <2>7, RunStep
  <2> QED
    BY <2>6, <2>7
<1>4. CASE OnSettled
  <2> DEFINE s    == [run EXCEPT !.settledAt = None]
             pass == NewPass(FailedZigbee(evidence), StillDead(evidence))
  <2>1. /\ s.during = run.during /\ s.after = run.after /\ s.probeAt = run.probeAt
        /\ s.tickAt = run.tickAt /\ s.finished = run.finished /\ s.probe = run.probe
        /\ s.afterDone = run.afterDone /\ s.handed = run.handed
    BY <1>1 DEF Run
  <2>2. RunOK(s, evidence)
    BY <1>1 DEF RunOK, Run, Time
  <2>3. pass \in Pass /\ ~InFlight(pass) /\ pass.todo = FailedZigbee(evidence)
    <3>1. pass \in Pass
      BY <1>1, NewPassType, Devices DEF StillDead
    <3> QED
      BY <3>1 DEF NewPass, InFlight
  <2>4. /\ ~run.finished /\ evidence.restored # None
        /\ run' = IF run.probe THEN Proceeds(s, "after", pass, evidence) ELSE s
    BY <1>1, <1>4 DEF OnSettled, RunOK
  <2> HIDE DEF s, pass
  <2>5. RequestsOK(s, evidence) /\ DoneOK(s, evidence)
    <3>1. RequestsOK(s, evidence)
      BY <1>1, <2>1 DEF RequestsOK
    <3>2. DoneOK(s, evidence)
      BY <1>1, <2>1 DEF DoneOK
    <3> QED
      BY <3>1, <3>2
  <2>6. CASE run.probe
    <3>1. PassOK(pass, "after", evidence)
      BY <2>3 DEF PassOK, Left
    <3>2. /\ RequestsOK(Proceeds(s, "after", pass, evidence), evidence)
          /\ DoneOK(Proceeds(s, "after", pass, evidence), evidence)
      BY <1>1, <2>1, <2>2, <2>3, <2>4, <2>5, <2>6, <3>1, ProceedsAsks DEF Phases
    <3> QED
      BY <1>2, <2>4, <2>6, <3>2, RunStep
  <2>7. CASE ~run.probe
    BY <1>2, <2>4, <2>5, <2>7, RunStep
  <2> QED
    BY <2>6, <2>7
<1>5. CASE OnTick
  <2> DEFINE s == [run EXCEPT !.tickAt = None, !.after = None, !.afterDone = TRUE]
  <2>1. /\ s.during = run.during /\ s.after = None /\ s.probeAt = run.probeAt
        /\ s.tickAt = None /\ s.finished = run.finished /\ s.probe = run.probe
        /\ s.afterDone = TRUE /\ s.handed = run.handed
    BY <1>1 DEF Run
  <2>2. RunOK(s, evidence)
    BY <1>1 DEF RunOK, Run, Time
  <2>3. /\ ~Early(evidence) /\ evidence.restored # None
        /\ run' = Checked(s, evidence)
    <3>1. run.tickAt # None /\ now >= run.tickAt /\ run' = Checked(s, evidence)
      BY <1>5 DEF OnTick
    <3>2. run.tickAt = evidence.restored + RETURN_S /\ evidence.restored # None
      BY <1>1, <3>1 DEF RunOK, DoneOK
    <3>3. evidence.restored \in Nat /\ RETURN_S \in Nat
      BY <1>1, <3>2, EvidenceTimes, DelaysAreNat
    <3> QED
      BY <1>1, <3>1, <3>2, <3>3 DEF Early
  <2> HIDE DEF s
  <2>4. RequestsOK(s, evidence)
    BY <1>1, <2>1 DEF RequestsOK, InFlight
  <2>5. DoneOK(s, evidence)
    BY <1>1, <2>1, <2>3 DEF DoneOK, InFlight
  <2>6. RequestsOK(run', evidence) /\ DoneOK(run', evidence)
    BY <1>1, <2>2, <2>3, <2>4, <2>5, CheckedAsks
  <2> QED
    BY <1>2, <2>6, RunStep
<1>6. CASE OnExpired
  <2>1. run' = Stopped(run)
    BY <1>6 DEF OnExpired
  <2>2. RequestsOK(run', evidence) /\ DoneOK(run', evidence)
    BY <1>1, <2>1, StoppedAsks
  <2> QED
    BY <1>2, <2>2, RunStep
<1> QED
  BY <1>3, <1>4, <1>5, <1>6 DEF Timers

\* A watched device goes or comes.
LEMMA ChangesAskInv ==
  ASSUME Inv, AskInv, NEW d \in Nodes \cup TVs, NEW byPerson \in BOOLEAN,
         Changes(d, byPerson)
  PROVE  AskInv'
<1>1. /\ run \in Run /\ evidence \in Evidence /\ now \in Nat
      /\ RunOK(run, evidence) /\ RequestsOK(run, evidence) /\ DoneOK(run, evidence)
  BY DEF Inv, RunOK, AskInv
<1>2. /\ ~run.finished /\ UNCHANGED <<now, power, live>>
      /\ run' = Checked(run, evidence')
  BY DEF Changes
<1>3. /\ evidence'.probes = evidence.probes /\ evidence'.restored = evidence.restored
      /\ evidence'.flickers = evidence.flickers /\ evidence'.fall = evidence.fall
  <2>1. PICK c : evidence' = [evidence EXCEPT !.track[d] = Append(@, c)]
    BY DEF Changes
  <2> QED
    BY <1>1, <2>1 DEF Evidence
<1>4. evidence' \in Evidence
  BY ChangesInv DEF Inv
<1>5. /\ FailedZigbee(evidence') = FailedZigbee(evidence)
      /\ AskedAgain(evidence') = AskedAgain(evidence)
  BY <1>3, SameRequests
<1>6. RunOK(run, evidence')
  BY <1>1, <1>3 DEF RunOK
<1>7. RequestsOK(run, evidence')
  BY <1>1, <1>3 DEF RequestsOK, Tainted
<1>8. run.handed = None
  BY <1>1, <1>2 DEF DoneOK
<1>9. DoneOK(run, evidence')
  BY <1>1, <1>3, <1>5, <1>8 DEF DoneOK, Early
<1>10. RequestsOK(run', evidence') /\ DoneOK(run', evidence')
  BY <1>1, <1>2, <1>4, <1>6, <1>7, <1>9, CheckedAsks
<1> QED
  BY <1>2, <1>10, RunStep

\* One step of a task.
LEMMA RequestsAskInv ==
  ASSUME Inv, AskInv, NEW phase \in Phases, run[phase] # None,
         \/ \E device \in Zigbee : Asks(phase, device)
         \/ \E answered \in BOOLEAN \cup {None} : Answers(phase, answered)
         \/ \E node \in Nodes : Pings(phase, node)
  PROVE  AskInv'
<1>1. /\ run \in Run /\ evidence \in Evidence /\ now \in Nat /\ power.since \in Nat
      /\ RunOK(run, evidence) /\ RequestsOK(run, evidence) /\ DoneOK(run, evidence)
  BY DEF Inv, RunOK, AskInv
<1>2. phase = "during" \/ phase = "after"
  BY DEF Phases
<1>3. PICK pass \in Pass : pass = run[phase]
  BY <1>1, <1>2 DEF Run
<1>4. /\ ~run.finished /\ run.probe /\ run.handed = None
      /\ phase = "during" <=> evidence.restored = None
  BY <1>1, <1>2 DEF RunOK, DoneOK
<1>5. PassOK(pass, phase, evidence)
  <2>1. CASE phase = "during"
    <3>1. pass = run.during
      BY <1>3, <2>1
    <3> QED
      BY <1>1, <1>4, <2>1, <3>1 DEF PassOK, RequestsOK
  <2>2. CASE phase = "after"
    <3>1. pass = run.after /\ run.after # None
      BY <1>3, <2>2
    <3>2. InFlight(pass) => evidence.restored <= pass.asking.sent /\ pass.asking.sent <= now
      BY <1>1, <3>1 DEF RequestsOK, DoneOK
    <3>3. Early(evidence) => FailedZigbee(evidence) \subseteq Left(pass) \cup AskedAgain(evidence)
      BY <1>1, <3>1 DEF DoneOK
    <3> QED
      BY <2>2, <3>2, <3>3 DEF PassOK
  <2> QED
    BY <1>2, <2>1, <2>2
<1>6. ASSUME NEW device \in Zigbee, Asks(phase, device) PROVE AskInv'
  <2> DEFINE asked == [device |-> device, sent |-> now, lit |-> HasPower(device)]
             left  == [pass EXCEPT !.todo = @ \ {device}, !.asking = asked]
  <2>1. /\ pass.asking = None /\ device \in pass.todo
        /\ UNCHANGED <<now, power, live, evidence>>
        /\ run' = Proceeds(run, phase, left, evidence)
    BY <1>2, <1>3, <1>4, <1>6 DEF Asks
  <2>2. /\ asked \in Request /\ asked.sent = now /\ asked.device = device
        /\ asked.lit = HasPower(device)
    BY <1>1 DEF Request, HasPower
  <2> HIDE DEF asked
  <2>3. /\ left \in Pass /\ left.asking = asked /\ left.todo = pass.todo \ {device}
        /\ asked # None
    BY <2>2, OutageNoneAssumption DEF Pass
  <2> HIDE DEF left
  <2>4. CASE phase = "during"
    <3>1. ~power.on => power.since + PROBE_DELAY_S <= now
      BY <1>5, <2>4 DEF PassOK
    <3>2. HasPower(device) /\ device \in Fed => power.on
      BY <1>1, <3>1, DelaysAreNat DEF HasPower
    <3>3. PassOK(left, phase, evidence)
      BY <1>1, <2>2, <2>3, <2>4, <3>1, <3>2 DEF PassOK
    <3> QED
      BY <1>1, <1>4, <2>1, <2>3, <3>3, ProceedsAsks, RunStep
  <2>5. CASE phase = "after"
    <3>1. Left(left) = Left(pass)
      BY <2>1, <2>2, <2>3 DEF Left
    <3>2. evidence.restored <= now
      BY <1>1, <1>4, <2>5 DEF RequestsOK
    <3>3. PassOK(left, phase, evidence)
      BY <1>1, <1>5, <2>2, <2>3, <2>5, <3>1, <3>2 DEF PassOK
    <3> QED
      BY <1>1, <1>4, <2>1, <2>3, <3>3, ProceedsAsks, RunStep
  <2> QED
    BY <1>2, <2>4, <2>5
<1>7. ASSUME NEW answered \in BOOLEAN \cup {None}, Answers(phase, answered) PROVE AskInv'
  <2>1. PICK asked \in Request : asked = pass.asking
    BY <1>2, <1>3, <1>7 DEF Answers, Pass
  <2> DEFINE result == [device |-> asked.device, phase |-> phase, sent |-> asked.sent,
                        done |-> now, answered |-> answered]
             over   == [pass EXCEPT !.asking = None]
  <2>2. /\ InFlight(pass) /\ (answered = TRUE => asked.lit)
        /\ UNCHANGED <<now, power, live>>
        /\ evidence' = [evidence EXCEPT !.probes = @ \cup {result}]
        /\ run' = Proceeds(run, phase, over, evidence')
    BY <1>2, <1>3, <1>7, <2>1, OutageNoneAssumption DEF Answers, InFlight
  <2>3. over \in Pass /\ over.asking = None /\ over.todo = pass.todo
    BY DEF Pass
  <2>4. /\ result.device = asked.device /\ result.phase = phase /\ result.sent = asked.sent
        /\ result.done = now /\ result.answered = answered
        /\ asked.sent \in Nat /\ asked.device \in Zigbee
    BY <2>1 DEF Request
  <2>5. result \in ProbeResult
    BY <1>1, <1>2, <2>4 DEF ProbeResult
  <2> HIDE DEF result, over
  <2>6. evidence' \in Evidence /\ evidence'.restored = evidence.restored
    BY <1>1, <2>2, <2>5, EvidenceProbe
  <2>7. /\ evidence'.probes = evidence.probes \cup {result}
        /\ evidence'.flickers = evidence.flickers /\ evidence'.fall = evidence.fall
    BY <1>1, <2>2 DEF Evidence
  <2>8. asked.sent <= now
    BY <1>1, <1>2, <1>3, <2>1, <2>2 DEF RequestsOK
  <2>9. \A p : Tainted(p, evidence') <=> Tainted(p, evidence)
    BY <2>6, <2>7 DEF Tainted
  <2>10. Suspicious(result) => Tainted(result, evidence)
    <3> SUFFICES ASSUME Suspicious(result) PROVE Tainted(result, evidence)
      OBVIOUS
    <3>1. phase = "during" /\ asked.device \in Fed /\ answered = TRUE
      BY <2>4 DEF Suspicious
    <3>2. power.on /\ evidence.restored = None
      BY <1>4, <1>5, <2>1, <2>2, <3>1 DEF PassOK
    <3>3. power.since <= now
      BY DEF AskInv, HouseOK
    <3> QED
      BY <2>4, <3>2, <3>3 DEF Tainted
  <2>11. RequestsOK(run, evidence')
    BY <1>1, <2>4, <2>6, <2>7, <2>8, <2>9, <2>10 DEF RequestsOK
  <2>12. RunOK(run, evidence')
    BY <1>1, <2>6 DEF RunOK
  <2>13. AskedAgain(evidence) \subseteq AskedAgain(evidence')
    BY <2>6, <2>7 DEF AskedAgain, After
  <2>14. phase = "after" => FailedZigbee(evidence') = FailedZigbee(evidence)
    <3> SUFFICES ASSUME phase = "after" PROVE FailedZigbee(evidence') = FailedZigbee(evidence)
      OBVIOUS
    <3>1. \A p : WhileDead(evidence', p) <=> WhileDead(evidence, p)
      BY <2>6, <2>7 DEF WhileDead
    <3>2. During(evidence') = During(evidence)
      BY <2>4, <2>7, <3>1 DEF During
    <3> QED
      BY <3>2 DEF FailedZigbee
  <2>15. Early(evidence') => phase = "after" /\ Early(evidence)
    BY <1>2, <1>4, <2>6 DEF Early
  <2>16. DoneOK(run, evidence')
    BY <1>1, <1>4, <2>6, <2>13, <2>14, <2>15 DEF DoneOK
  <2>17. PassOK(over, phase, evidence')
    <3>1. ~InFlight(over)
      BY <2>3 DEF InFlight
    <3>2. CASE phase = "during"
      BY <1>5, <3>1, <3>2 DEF PassOK
    <3>3. CASE phase = "after"
      <4> SUFFICES ASSUME Early(evidence'), NEW z \in FailedZigbee(evidence')
                   PROVE  z \in Left(over) \cup AskedAgain(evidence')
        BY <3>1, <3>3 DEF PassOK
      <4>1. z \in Left(pass) \cup AskedAgain(evidence)
        BY <1>5, <2>14, <2>15, <3>3 DEF PassOK
      <4>2. CASE z = asked.device
        <5>1. evidence'.restored <= asked.sent
          BY <1>5, <2>1, <2>2, <2>6, <3>3 DEF PassOK
        <5>2. evidence.restored \in Nat /\ RETURN_S \in Nat /\ now < evidence.restored + RETURN_S
          BY <1>1, <2>15, EvidenceTimes, DelaysAreNat DEF Early
        <5>3. After(evidence', result)
          BY <1>1, <2>4, <2>6, <2>15, <3>3, <5>1, <5>2, NoneIsNoTime DEF After
        <5> QED
          BY <2>4, <2>7, <4>2, <5>3 DEF AskedAgain
      <4>3. CASE z # asked.device
        BY <2>1, <2>2, <2>3, <2>13, <4>1, <4>3 DEF Left
      <4> QED
        BY <4>2, <4>3
    <3> QED
      BY <1>2, <3>2, <3>3
  <2>18. /\ RequestsOK(run', evidence') /\ DoneOK(run', evidence')
    BY <1>1, <1>4, <2>2, <2>3, <2>6, <2>11, <2>12, <2>16, <2>17, ProceedsAsks
  <2> QED
    BY <2>2, <2>18, RunStep
<1>8. ASSUME NEW node \in Nodes, Pings(phase, node) PROVE AskInv'
  <2> DEFINE rest == [pass EXCEPT !.pings = @ \ {node}]
  <2>1. rest \in Pass /\ rest.asking = pass.asking /\ rest.todo = pass.todo
    BY DEF Pass
  <2>2. run' = Proceeds(run, phase, rest, evidence) /\ UNCHANGED <<now, power, live, evidence>>
    BY <1>2, <1>3, <1>8 DEF Pings
  <2> HIDE DEF rest
  <2>3. rest # None /\ pass # None
    BY <2>1, OutageNoneAssumption
  <2>4. Left(rest) = Left(pass) /\ (InFlight(rest) <=> InFlight(pass))
    BY <2>1, <2>3 DEF Left, InFlight
  <2>5. PassOK(rest, phase, evidence)
    BY <1>5, <2>1, <2>4 DEF PassOK
  <2> QED
    BY <1>1, <1>4, <2>1, <2>2, <2>5, ProceedsAsks, RunStep
<1> QED
  BY <1>6, <1>7, <1>8

\* A tick passes.
LEMMA TickAskInv ==
  ASSUME Inv, AskInv, Tick
  PROVE  AskInv'
<1>1. /\ now' = now + 1 /\ UNCHANGED <<power, live, evidence, run>>
      /\ power.on # live => now + 1 < power.since + METER_LAG_S
  BY DEF Tick
<1>2. /\ run \in Run /\ evidence \in Evidence /\ now \in Nat /\ power.since \in Nat
      /\ RequestsOK(run, evidence) /\ DoneOK(run, evidence)
      /\ run.during \in Pass \cup {None} /\ run.after \in Pass \cup {None}
      /\ PROBE_DELAY_S \in Nat /\ RETURN_S \in Nat
  BY DelaysAreNat DEF Inv, RunOK, Run, AskInv
<1>3. HouseOK'
  BY <1>1, <1>2 DEF AskInv, HouseOK
<1>4. RequestsOK(run, evidence)'
  <2>1. /\ evidence.restored \in Nat \cup {None}
        /\ \A p \in evidence.probes : p.sent \in Nat /\ p.done \in Nat
    BY <1>2, EvidenceTimes
  <2>2. /\ InFlight(run.during) => run.during.asking.sent \in Nat
        /\ InFlight(run.after) => run.after.asking.sent \in Nat
    BY <1>2, InFlightType DEF Request
  <2>3. /\ evidence.restored # None => evidence.restored <= now + 1
        /\ \A p \in evidence.probes : p.sent <= p.done /\ p.done <= now + 1
        /\ InFlight(run.during) => run.during.asking.sent <= now + 1
        /\ InFlight(run.after) => run.after.asking.sent <= now + 1
    BY <1>2, <2>1, <2>2 DEF RequestsOK
  <2>4. \A p \in evidence.probes : Suspicious(p) => Tainted(p, evidence)'
    BY <1>1, <1>2 DEF RequestsOK, Tainted
  <2>5. evidence.restored = None /\ ~power.on =>
          /\ run.probeAt # None => power.since + PROBE_DELAY_S <= run.probeAt
          /\ run.during # None => power.since + PROBE_DELAY_S <= now + 1
    BY <1>2 DEF RequestsOK
  <2>6. InFlight(run.during) =>
          (run.during.asking.lit /\ run.during.asking.device \in Fed => power.on)
    BY <1>2 DEF RequestsOK
  <2>7. evidence.restored = None /\ ~run.finished => ~live
    BY <1>2 DEF RequestsOK
  <2> QED
    BY <1>1, <2>3, <2>4, <2>5, <2>6, <2>7 DEF RequestsOK
<1>5. DoneOK(run, evidence)'
  <2>1. Early(evidence)' => Early(evidence)
    <3>1. evidence.restored \in Nat \cup {None}
      BY <1>2, EvidenceTimes
    <3> QED
      BY <1>1, <1>2, <3>1 DEF Early
  <2> QED
    BY <1>1, <1>2, <2>1 DEF DoneOK
<1> QED
  BY <1>3, <1>4, <1>5 DEF AskInv

\* Every step keeps it.
LEMMA NextAskInv ==
  Inv /\ AskInv /\ [Next]_vars => AskInv'
<1> SUFFICES ASSUME Inv, AskInv, [Next]_vars PROVE AskInv'
  OBVIOUS
<1>1. CASE ReadsNothing \/ UNCHANGED vars
  <2>1. UNCHANGED <<now, power, live, evidence, run>>
    BY <1>1 DEF ReadsNothing, vars
  <2>2. RequestsOK(run', evidence') /\ DoneOK(run', evidence')
    BY <2>1 DEF AskInv
  <2> QED
    BY <2>1, <2>2, RunStep
<1>2. CASE PowerChanges \/ ReadsLive \/ ReadsDead
  BY <1>2, PowerAskInv, LiveAskInv, DeadAskInv
<1>3. CASE CloseIncident \/ Decide \/ Unload
  BY <1>3, TripAskInv
<1>4. CASE Timers
  BY <1>4, TimersAskInv
<1>5. CASE Requests
  BY <1>5, RequestsAskInv DEF Requests, Asks, Answers
<1>6. ASSUME NEW phase \in Phases, NEW node \in Nodes, Pings(phase, node) PROVE AskInv'
  BY <1>6, RequestsAskInv DEF Pings
<1>7. ASSUME NEW d \in Nodes \cup TVs, NEW byPerson \in BOOLEAN, Changes(d, byPerson)
      PROVE  AskInv'
  BY <1>7, ChangesAskInv
<1>8. CASE Tick
  BY <1>8, TickAskInv
<1> QED
  BY <1>1, <1>2, <1>3, <1>4, <1>5, <1>6, <1>7, <1>8 DEF Next

\* It holds throughout.
LEMMA AskInvariant ==
  Spec => [](Inv /\ AskInv)
<1>1. Init => Inv /\ AskInv
  BY InitInv, InitAskInv
<1>2. (Inv /\ AskInv) /\ [Next]_vars => (Inv /\ AskInv)'
  BY NextInv, NextAskInv
<1> QED
  BY <1>1, <1>2, PTL DEF Spec

-----------------------------------------------------------------------------
(* A device on the circuit is never handed over as fed from elsewhere,     *)
(* however the requests straddle the breaker: the delay before asking, the *)
(* meter's lag and the returns that did not hold (outage.py:196-212) rule  *)
(* out every answer that power may have reached.                           *)
THEOREM NoCasualtyIsElsewhere ==
  Spec => []AnsweredIsElsewhere
<1>1. Inv /\ AskInv => AnsweredIsElsewhere
  <2> SUFFICES ASSUME Inv, AskInv, run.handed # None,
                      NEW p \in During(evidence), p.answered = TRUE, p.device \in Fed
               PROVE  FALSE
    BY DEF AnsweredIsElsewhere, Judge, Answered
  <2>1. /\ evidence \in Evidence /\ evidence.restored # None /\ METER_LAG_S \in Nat
        /\ PROBE_DELAY_S \in Nat
    BY DelaysAreNat DEF Inv, AskInv, DoneOK
  <2>2. p \in evidence.probes /\ p.phase = "during" /\ WhileDead(evidence, p)
    BY DEF During
  <2>3. Tainted(p, evidence)
    BY <2>2 DEF AskInv, RequestsOK, Suspicious
  <2>4. /\ p.sent \in Nat /\ p.done \in Nat /\ evidence.restored \in Nat
        /\ \A f \in evidence.flickers : f.live \in Nat /\ f.dead \in Nat
    BY <2>1, <2>2, EvidenceTimes
  <2>5. ~(evidence.restored < p.done + METER_LAG_S)
    BY <2>1, <2>2, <2>4 DEF WhileDead
  <2>6. ASSUME NEW f \in evidence.flickers
        PROVE  ~(f.live < p.done + METER_LAG_S /\ p.sent < f.dead + PROBE_DELAY_S)
    BY <2>1, <2>2, <2>4 DEF WhileDead
  <2> QED
    BY <2>1, <2>3, <2>5, <2>6 DEF Tainted
<1> QED
  BY <1>1, AskInvariant, PTL

(* Evidence handed over before its window ended has asked every device     *)
(* that failed again, and every device that went down is back              *)
(* (probes.py:333-353, outage.py:214-239).                                 *)
THEOREM EarlyHandOverIsComplete ==
  Spec => []HandOverIsComplete
<1>1. Inv /\ AskInv => HandOverIsComplete
  BY DEF AskInv, DoneOK, Complete, AskedAgain, HandOverIsComplete
<1> QED
  BY <1>1, AskInvariant, PTL
=============================================================================
