----------------------------- MODULE Eligibility -----------------------------
(***************************************************************************)
(* Whether a circuit is watched for trips (breaker.py's eligibility, and   *)
(* BreakerWatch in trips.py): a circuit that reads at the floor while no   *)
(* trip excuses it cannot be told apart from one whose breaker went.       *)
(*                                                                         *)
(* The verdict rests on hourly lows: of the recorder's statistics, asked   *)
(* for at the start and every hour after, and of what this instance reads. *)
(* One circuit is modelled.  A tick is a part of an hour, and what happens *)
(* at a tick happens after its first moment.  A judgement is made when the *)
(* query is answered or has failed, and when a trip is recorded, ended or  *)
(* given an outage's evidence; what else these handlers do is in           *)
(* TripLedger, and the wait for the save that comes before the judgement   *)
(* is left out here.                                                       *)
(*                                                                         *)
(* External: the recorder hears whatever this instance does, and lists an  *)
(* hour when it is over.  It answers within ANSWER ticks.                  *)
(***************************************************************************)
EXTENDS Integers, FiniteSets

CONSTANTS
  HOUR,        \* ticks of an hour, REFRESH
  LOOKBACK_H, MIN_HISTORY_H,
  DEAD_W,
  FLOOR_W,     \* floor_w, above DEAD_W
  Watts,       \* the readings
  ANSWER,
  None,
  LastClock, MaxTrips, MaxStarts \* bounds

ASSUME EligibilityAssumption ==
  /\ {HOUR, LOOKBACK_H, MIN_HISTORY_H, ANSWER} \subseteq Nat \ {0}
  /\ ANSWER < HOUR /\ MIN_HISTORY_H < LOOKBACK_H
  /\ DEAD_W \in Nat /\ FLOOR_W \in Nat /\ DEAD_W < FLOOR_W /\ Watts \subseteq Nat
  /\ {LastClock, MaxTrips, MaxStarts} \subseteq Nat
  /\ None \notin Int

VARIABLES
  clock,
  recorded,    \* the recorder: the low of each hour
  listening,   \* between async_start and async_stop
  hourly,      \* _hourly of the circuit
  asked,       \* when the query under way was made
  refreshAt,   \* the timer
  statsFailed, \* _stats_failed
  eligible,
  incident,    \* being followed: its start and its circuit's return
  recordedTrips, \* in the store
  starts

eligibilityVars == <<clock, recorded, listening, hourly, asked, refreshAt,
                     statsFailed, eligible, incident, recordedTrips, starts>>

Hours == 0 .. LastClock \div HOUR
Ticks == 0 .. LastClock

HourOf(t) == t \div HOUR

Lower(low, watts) == IF low = None \/ watts < low THEN watts ELSE low

EligibilityInit ==
  /\ clock = 0
  /\ recorded = [h \in Hours |-> None]
  /\ listening = FALSE
  /\ hourly = [h \in Hours |-> None]
  /\ asked = None /\ refreshAt = None
  /\ statsFailed = FALSE
  /\ eligible = FALSE
  /\ incident = None
  /\ recordedTrips = {}
  /\ starts = 0

-----------------------------------------------------------------------------
(* The judgement.                                                          *)

\* Mutant: a trip that took no device with it excuses the circuit too.
ExcusingAny(trips) == trips

\* _trips_on
Excusing(trips) == {t \in trips : t.shown}

\* _covered
Covered(h, trips) ==
  \E t \in Excusing(trips) :
    /\ h * HOUR <= IF t.end = None THEN clock ELSE t.end
    /\ (h + 1) * HOUR > t.start

\* eligibility
Eligible(lows, trips) ==
  LET judged == {h \in Hours : /\ lows[h] # None
                               /\ h * HOUR > clock - LOOKBACK_H * HOUR
                               /\ ~Covered(h, trips)}
  IN  /\ Cardinality(judged) >= MIN_HISTORY_H
      /\ \A h \in judged : lows[h] > DEAD_W /\ lows[h] > FLOOR_W

-----------------------------------------------------------------------------
(* The circuit's readings.                                                 *)

\* A dead reading of a watched circuit may begin an incident (TripDetector).
Followed(watts) ==
  IF incident = None
  THEN IF eligible /\ watts <= DEAD_W THEN [start |-> clock, live |-> None] ELSE None
  ELSE [incident EXCEPT !.live = IF watts <= DEAD_W THEN None
                                 ELSE IF @ = None THEN clock ELSE @]

\* async_end_trip, for a trip recorded while the circuit was dead
Ended == {[t EXCEPT !.end = IF t.end = None THEN clock ELSE t.end] : t \in recordedTrips}

\* _note_hour, and a live reading ends an open trip.
Reads(watts) ==
  /\ listening
  /\ recorded' = [recorded EXCEPT ![HourOf(clock)] = Lower(@, watts)]
  /\ hourly' = [hourly EXCEPT ![HourOf(clock)] = Lower(@, watts)]
  /\ incident' = Followed(watts)
  /\ IF watts > DEAD_W /\ Ended # recordedTrips
     THEN recordedTrips' = Ended /\ eligible' = Eligible(hourly', Ended)
     ELSE UNCHANGED <<recordedTrips, eligible>>
  /\ UNCHANGED <<clock, listening, asked, refreshAt, statsFailed, starts>>

\* An incident closes: it is recorded as a trip, with what it showed, or refused.
IncidentCloses(shown, refused) ==
  /\ listening /\ incident # None
  /\ incident' = None
  /\ IF refused
     THEN UNCHANGED <<recordedTrips, eligible>>
     ELSE /\ recordedTrips' =
               {t \in recordedTrips : t.start >= clock - LOOKBACK_H * HOUR}
                 \cup {[start |-> incident.start, end |-> incident.live,
                        shown |-> shown]}
          /\ Cardinality(recordedTrips') <= MaxTrips
          /\ eligible' = Eligible(hourly, recordedTrips')
  /\ UNCHANGED <<clock, recorded, listening, hourly, asked, refreshAt,
                 statsFailed, starts>>

\* async_record_outage, for a recorded trip: its evidence may be the first that shows
\* devices, which makes the trip an excuse.
OutageRecorded(trip, casualties) ==
  /\ listening
  /\ recordedTrips' = (recordedTrips \ {trip})
                        \cup {[trip EXCEPT !.shown = @ \/ casualties]}
  /\ eligible' = Eligible(hourly, recordedTrips')
  /\ UNCHANGED <<clock, recorded, listening, hourly, asked, refreshAt,
                 statsFailed, incident, starts>>

-----------------------------------------------------------------------------
(* The statistics.                                                         *)

RefreshBegins ==
  /\ listening /\ refreshAt = clock /\ asked = None
  /\ asked' = clock
  /\ refreshAt' = clock + HOUR
  /\ UNCHANGED <<clock, recorded, listening, hourly, statsFailed, eligible,
                 incident, recordedTrips, starts>>

\* The hours that were over when the query was made.
Listed ==
  [h \in Hours |-> IF (h + 1) * HOUR <= asked /\ h * HOUR > asked - LOOKBACK_H * HOUR
                   THEN recorded[h] ELSE None]

Merged(own, rows) ==
  [h \in Hours |-> IF rows[h] = None THEN own[h] ELSE Lower(own[h], rows[h])]

\* Without an answer the circuit is judged on what is there.
RefreshEnds(failed) ==
  /\ asked # None
  /\ asked' = None
  /\ statsFailed' = failed
  /\ hourly' =
       LET merged == IF failed THEN hourly ELSE Merged(hourly, Listed)
       IN  [h \in Hours |-> IF h * HOUR <= asked - LOOKBACK_H * HOUR THEN None
                            ELSE merged[h]]
  /\ eligible' = Eligible(hourly', recordedTrips)
  /\ UNCHANGED <<clock, recorded, listening, refreshAt, incident,
                 recordedTrips, starts>>

-----------------------------------------------------------------------------
(* The instance, and time.                                                 *)

\* async_start, and the first refresh of the setup.  `state` is what Home Assistant
\* holds of the circuit, if anything: a reading of the last hour there was one.
WatchStarts(state) ==
  /\ ~listening /\ starts < MaxStarts
  /\ state # None =>
       /\ recorded[state.hour] # None /\ recorded[state.hour] <= state.watts
       /\ \A h \in Hours : h > state.hour => recorded[h] = None
  /\ starts' = starts + 1
  /\ listening' = TRUE
  /\ hourly' = [h \in Hours |-> IF state # None /\ h = state.hour THEN state.watts
                                ELSE None]
  /\ asked' = clock
  /\ refreshAt' = clock + HOUR
  /\ UNCHANGED <<clock, recorded, statsFailed, eligible, incident, recordedTrips>>

\* async_stop, a shutdown or a crash: only the trips are kept.
WatchStops ==
  /\ listening
  /\ listening' = FALSE
  /\ hourly' = [h \in Hours |-> None]
  /\ asked' = None /\ refreshAt' = None
  /\ statsFailed' = FALSE
  /\ eligible' = FALSE
  /\ incident' = None
  /\ UNCHANGED <<clock, recorded, recordedTrips, starts>>

TimePasses ==
  /\ clock < LastClock
  /\ refreshAt # clock
  /\ asked # None => clock < asked + ANSWER
  /\ clock' = clock + 1
  /\ UNCHANGED <<recorded, listening, hourly, asked, refreshAt, statsFailed,
                 eligible, incident, recordedTrips, starts>>

EligibilityNext ==
  \/ \E watts \in Watts : Reads(watts)
  \/ \E shown, refused \in BOOLEAN : IncidentCloses(shown, refused)
  \/ \E trip \in recordedTrips, casualties \in BOOLEAN : OutageRecorded(trip, casualties)
  \/ RefreshBegins
  \/ \E failed \in BOOLEAN : RefreshEnds(failed)
  \/ \E state \in {None} \cup [hour : Hours, watts : Watts] : WatchStarts(state)
  \/ WatchStops \/ TimePasses

EligibilitySpec == EligibilityInit /\ [][EligibilityNext]_eligibilityVars

-----------------------------------------------------------------------------
EligibilityTypeOK ==
  /\ clock \in Ticks
  /\ recorded \in [Hours -> Watts \cup {None}]
  /\ hourly \in [Hours -> Watts \cup {None}]
  /\ listening \in BOOLEAN /\ statsFailed \in BOOLEAN /\ eligible \in BOOLEAN
  /\ asked \in Ticks \cup {None}
  /\ incident # None => incident.start \in Ticks /\ incident.live \in Ticks \cup {None}
  /\ refreshAt \in Nat \cup {None}
  /\ \A t \in recordedTrips : t.start \in Ticks /\ t.end \in Ticks \cup {None}

\* An hour whose readings a trip that took devices with it does not excuse.
Excused(h) == \E t \in recordedTrips :
  t.shown /\ t.start < (h + 1) * HOUR /\ (t.end # None => t.end >= h * HOUR)

(* A circuit that idles is not watched, whatever was recorded as a trip    *)
(* meanwhile and whoever read it: once an hourly query made after the hour *)
(* of the reading is due, while none is under way, and as long as queries  *)
(* do not fail.  Until then it may be (breaker.py:270, trips.py:268): an   *)
(* instance started within that hour does not know.                        *)
IdlingEndsTheWatch ==
  eligible /\ ~statsFailed /\ asked = None => \A h \in Hours :
    /\ recorded[h] # None /\ recorded[h] <= FLOOR_W
    /\ h * HOUR > clock - LOOKBACK_H * HOUR
    /\ ~Excused(h)
    => clock < (h + 2) * HOUR

(* "or a circuit would lose its eligibility by tripping once"              *)
(* (breaker.py:290): a circuit with enough hours of history whose readings *)
(* at the floor were all in trips is watched.                              *)
TripsDoNotEndTheWatch ==
  LET before == clock - LOOKBACK_H * HOUR
      plain  == {h \in Hours : /\ recorded[h] # None /\ ~Excused(h)
                               /\ h * HOUR > before - HOUR}
      listed == {h \in plain : h * HOUR > before /\ (h + 2) * HOUR <= clock}
  IN  /\ listening /\ ~statsFailed /\ asked = None
      /\ \A h \in plain : recorded[h] > FLOOR_W
      /\ Cardinality(listed) >= MIN_HISTORY_H
      => eligible

EligibilityFollowsTheReadings == IdlingEndsTheWatch /\ TripsDoNotEndTheWatch
=============================================================================
