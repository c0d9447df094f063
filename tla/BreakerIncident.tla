--------------------------- MODULE BreakerIncident ---------------------------
(***************************************************************************)
(* What TripDetector (breaker.py) promises to the rest of the watch: one   *)
(* incident at a time, opened by a circuit that falls, ended by its return *)
(* and no longer ended when it falls again, closed at any time.  The       *)
(* module TripDetector implements this with its logs, delays, timer and    *)
(* eligibility; TripLedger goes on from here: its circuits and its         *)
(* incident do what these actions allow.                                   *)
(***************************************************************************)
EXTENDS Naturals

CONSTANTS
  Breakers, \* the circuits
  Never

VARIABLES
  clock,    \* the time of the latest reading, or later
  dead,     \* the circuits that last read dead
  incident  \* circuit, start and end, Never when there is none

observed == <<clock, dead, incident>>

IncidentInit ==
  /\ clock = 0
  /\ dead \in SUBSET Breakers
  /\ incident = Never

NewIncident(c) == [circuit |-> c, start |-> clock', end |-> Never]

OfIncident(c) == incident # Never /\ incident.circuit = c

\* A reading of the incident's circuit comes after the one that opened it.
InOrderOfTime(c) == OfIncident(c) => incident.start < clock'

\* The circuit c reads dead: a fall may open an incident; an incident of its own is
\* no longer over.
ReadsDead(c) ==
  /\ InOrderOfTime(c)
  /\ dead' = dead \cup {c}
  /\ \/ /\ incident = Never /\ c \notin dead
        /\ incident' = NewIncident(c)
     \/ /\ OfIncident(c)
        /\ incident' = [incident EXCEPT !.end = Never]
     \/ /\ ~OfIncident(c)
        /\ UNCHANGED incident

\* It reads live: its incident is over, since the first such reading.
ReadsLive(c) ==
  /\ InOrderOfTime(c)
  /\ dead' = dead \ {c}
  /\ incident' = IF OfIncident(c) /\ incident.end = Never
                 THEN [incident EXCEPT !.end = clock'] ELSE incident

\* It was judged, or its circuit lost before it returned.
Closes ==
  /\ incident # Never
  /\ incident' = Never

IncidentNext ==
  /\ clock' \in Nat /\ clock' >= clock
  /\ \/ \E c \in Breakers : ReadsDead(c) \/ ReadsLive(c)
     \/ Closes /\ UNCHANGED dead
     \/ UNCHANGED <<dead, incident>>

IncidentSpec == IncidentInit /\ [][IncidentNext]_observed

-----------------------------------------------------------------------------
(* An incident has no end exactly while its circuit is dead, and its end   *)
(* came after its start.                                                   *)
EndTellsTheCircuit ==
  incident # Never =>
    /\ incident.end = Never <=> incident.circuit \in dead
    /\ incident.end # Never => incident.start < incident.end
=============================================================================
