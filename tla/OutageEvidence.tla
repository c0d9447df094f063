--------------------------- MODULE OutageEvidence ---------------------------
(***************************************************************************)
(* OutageEvidence (outage.py): what one outage showed of devices that do   *)
(* not go unavailable without power.  Zigbee devices are asked while the   *)
(* circuit is dead and again after it returned; Z-Wave nodes and TVs are   *)
(* watched.                                                                *)
(*                                                                         *)
(* Evidence is a record: the time of the fall, the time of the return or   *)
(* None, the returns that did not hold, the finished requests, and for     *)
(* each node and TV that was up and stable at the fall the changes since   *)
(* (the others count for nothing).  The times of a verdict are left out.   *)
(***************************************************************************)
EXTENDS Integers, Sequences, FiniteSets, FiniteSetsExt

CONSTANTS
  Zigbee, Nodes, TVs, \* devices asked, and devices watched
  None,               \* no time yet; no answer known
  PROBE_DELAY_S, RETURN_S, MEDIA_OFF_S, METER_LAG_S

ASSUME EvidenceAssumption ==
  /\ {RETURN_S, MEDIA_OFF_S} \subseteq Nat
  /\ {PROBE_DELAY_S, METER_LAG_S} \subseteq Nat \ {0}
  /\ None \notin Nat /\ None \notin BOOLEAN

ProbeResult == [device : Zigbee, phase : {"during", "after"},
                sent : Nat, done : Nat, answered : BOOLEAN \cup {None}]
Flicker == [live : Nat, dead : Nat]
Change == [t : Nat, up : BOOLEAN, byPerson : BOOLEAN]
Evidence == [fall : Nat, restored : Nat \cup {None}, flickers : SUBSET Flicker,
             probes : SUBSET ProbeResult, track : [Nodes \cup TVs -> Seq(Change)]]

NoEvidence(fall) ==
  [fall |-> fall, restored |-> None, flickers |-> {}, probes |-> {},
   track |-> [d \in Nodes \cup TVs |-> <<>>]]

-----------------------------------------------------------------------------
(* The circuit.                                                            *)

Restored(e, t) == IF e.restored = None THEN [e EXCEPT !.restored = t] ELSE e

\* Mutant: the return is cleared before it is noted.
DeadAgainCleared(e, t) ==
  IF e.restored = None THEN e
  ELSE [e EXCEPT !.flickers = @ \cup {[live |-> None, dead |-> t]}, !.restored = None]

\* The return did not hold.
DeadAgain(e, t) ==
  IF e.restored = None THEN e
  ELSE [e EXCEPT !.flickers = @ \cup {[live |-> e.restored, dead |-> t]},
                 !.restored = None]

-----------------------------------------------------------------------------
(* The requests.                                                           *)

\* Mutant: what was asked before a return that did not hold still counts.
WhileDeadLast(e, p) ==
  /\ p.sent >= e.fall
  /\ e.restored # None => p.done <= e.restored - METER_LAG_S

\* Sent and finished inside the outage; one near a return says nothing.
WhileDead(e, p) ==
  /\ p.sent >= e.fall
  /\ e.restored # None => p.done <= e.restored - METER_LAG_S
  /\ \A f \in e.flickers : \/ p.done <= f.live - METER_LAG_S
                           \/ p.sent >= f.dead + PROBE_DELAY_S

\* Sent after the return and finished inside its window.
After(e, p) ==
  /\ p.phase = "after"
  /\ e.restored # None
  /\ e.restored <= p.sent /\ p.done <= e.restored + RETURN_S

During(e) == {p \in e.probes : p.phase = "during" /\ WhileDead(e, p)}

AskedWhileDead(e) == {p.device : p \in During(e)}

\* Failed while the circuit was dead: to be asked again.
FailedZigbee(e) == {p.device : p \in {q \in During(e) : q.answered = FALSE}}

-----------------------------------------------------------------------------
(* The devices watched.                                                    *)

InWindow(e, t) == e.restored # None => t <= e.restored + RETURN_S

\* The index of a first change, 0 when there is none.
First(S) == IF S = {} THEN 0 ELSE Min(S)

\* The first going down after the fall.
Down(e, d) ==
  First({i \in DOMAIN e.track[d] : /\ e.track[d][i].t > e.fall
                                   /\ InWindow(e, e.track[d][i].t)
                                   /\ ~e.track[d][i].up})

\* When, after that, it came back with the power.
Back(e, d) ==
  First({i \in DOMAIN e.track[d] : /\ e.track[d][i].up
                                   /\ e.track[d][i].t > e.track[d][Down(e, d)].t
                                   /\ e.restored - METER_LAG_S <= e.track[d][i].t
                                   /\ InWindow(e, e.track[d][i].t)})

Out(e) == {d \in Nodes \cup TVs : Down(e, d) # 0}

\* A device that went down is not back, inside the return window.
Waiting(e, now) ==
  e.restored = None \/ (now < e.restored + RETURN_S /\ \E d \in Out(e) : Back(e, d) = 0)

-----------------------------------------------------------------------------
(* The verdict.                                                            *)

\* Answering with the circuit dead, a device is fed from elsewhere.
Answered(e) == {p.device : p \in {q \in During(e) : q.answered = TRUE}}

\* A failure counts only beside a success on the same device.
Recovered(e) ==
  FailedZigbee(e) \cap {p.device : p \in {q \in e.probes : After(e, q) /\ q.answered = TRUE}}

\* A watched device went down with the circuit and came back with it.
WentWithIt(e, d) ==
  LET down == e.track[d][Down(e, d)]
  IN  /\ ~down.byPerson
      /\ down.t <= e.restored
      /\ d \in TVs => down.t <= e.fall + MEDIA_OFF_S
      /\ Back(e, d) # 0

Judge(e) ==
  LET zigbee  == Recovered(e) \ Answered(e)
      watched == IF e.restored = None THEN {} ELSE {d \in Out(e) : WentWithIt(e, d)}
      found   == zigbee \cup watched
      doubt   == {p.device : p \in e.probes}
                   \cup IF e.restored = None THEN {} ELSE Out(e)
  IN  [casualties |-> found, answered |-> Answered(e) \ found,
       indeterminate |-> doubt \ (found \cup Answered(e))]
=============================================================================
