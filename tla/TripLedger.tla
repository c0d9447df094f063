----------------------------- MODULE TripLedger -----------------------------
(***************************************************************************)
(* The trips BreakerWatch (trips.py) records in the store and what is      *)
(* written to them afterwards: the end of a trip recorded while its        *)
(* circuit was still dead, and the evidence of its outage, from the        *)
(* outage run and from the record_breaker_evidence action (services.py),   *)
(* in any order and more than once.                                        *)
(*                                                                         *)
(* Time is the number of readings of the circuits.  Of the detector there  *)
(* is its incident, which does what BreakerIncident allows (TripDetector   *)
(* implements that) and is closed accepted or refused.  Entities are       *)
(* numbers, in the order of their ids.  Every change of the store is       *)
(* followed by a save, so the file holds the trips as they were at some    *)
(* earlier point; a reload saves first.  Rows a crash loses are rows       *)
(* forgotten.  A handler runs up to its first save at once                 *)
(* (async_create_background_task), and is cancelled when the entry is      *)
(* unloaded.                                                               *)
(*                                                                         *)
(* `returns`, and of a trip `noted` and `missed`, are history: when each   *)
(* circuit read live, when the trip was recorded, and whether its circuit  *)
(* came back unseen or its end was lost in a crash.                        *)
(***************************************************************************)
EXTENDS BreakerIncident, Integers, Sequences, FiniteSets, FiniteSetsExt

CONSTANTS
  Entities,     \* entities that can be casualties
  DeviceOf,     \* the device of each, itself for one without
  PowerMeters,  \* those that are power sensors
  LOOKBACK,     \* how long trips are kept
  MaxReadings, MaxWrites \* bounds: readings, and outage evidence written

ASSUME TripLedgerAssumption ==
  /\ Entities \subseteq Nat
  /\ PowerMeters \subseteq Entities
  /\ {LOOKBACK, MaxReadings, MaxWrites} \subseteq Nat
  /\ Never \notin Nat

VARIABLES
  reported,   \* those that reported since the watch started
  watching,   \* between async_start and async_stop
  openTrips,  \* _open_trips: the start of each circuit's trip without an end
  trips,      \* store._trips
  held,       \* the entities store._assignments has a row for
  file,       \* the trips as last saved
  handler,    \* async_handle of a recorded trip, Never when none is running
  writer,     \* async_record_outage, likewise
  writes,     \* how many were begun
  returns

ledger == <<clock, dead, reported, watching, incident, openTrips, trips, held,
            file, handler, writer, writes, returns>>

Stamp == Nat \cup {Never}

Outage == [casualties : SUBSET Entities, answered : SUBSET Entities,
           indeterminate : SUBSET Entities, recovered : SUBSET Entities]

Trip == [circuit : Breakers, start : Nat, end : Stamp, confirmed : SUBSET Entities,
         suspected : SUBSET Entities, outage : Outage, noted : Nat, missed : BOOLEAN]

NoOutage == [casualties |-> {}, answered |-> {}, indeterminate |-> {}, recovered |-> {}]

-----------------------------------------------------------------------------
(* The key a device's row goes under.                                      *)

Siblings(device) == {e \in Entities : DeviceOf[e] = device}

DevicesOf(entities) == {DeviceOf[e] : e \in entities}

\* The row the device has, else its power sensor, else its first entity.
KeyFor(device, entities, existing) ==
  LET rows   == Siblings(device) \cap existing
      meters == Siblings(device) \cap PowerMeters
  IN  Min(IF rows # {} THEN rows ELSE IF meters # {} THEN meters ELSE entities)

KeysFor(devices, existing) == {KeyFor(d, Siblings(d), existing) : d \in devices}

-----------------------------------------------------------------------------
(* merge_outage.                                                           *)

\* Mutant: what answered in an earlier write stays there.
MergedByUnion(old, new) ==
  [casualties |-> old.casualties \cup new.casualties,
   answered |-> old.answered \cup new.answered,
   recovered |-> old.recovered \cup new.recovered,
   indeterminate |-> old.indeterminate \cup new.indeterminate]

\* Mutant: the write's places take precedence over the trip's.
MergedLatestWins(old, new) ==
  LET said == new.casualties \cup new.answered \cup new.recovered \cup new.indeterminate
  IN  [casualties |-> new.casualties \cup (old.casualties \ said),
       answered |-> (new.answered \ new.casualties) \cup (old.answered \ said),
       recovered |-> (new.recovered \ (new.casualties \cup new.answered))
                       \cup (old.recovered \ said),
       indeterminate |-> (new.indeterminate
                            \ (new.casualties \cup new.answered \cup new.recovered))
                           \cup (old.indeterminate \ said)]

\* Each key in one place: casualty, answered, recovered, indeterminate.
Merged(old, new) ==
  LET casualties == old.casualties \cup new.casualties
      answered   == (old.answered \cup new.answered) \ casualties
      recovered  == (old.recovered \cup new.recovered) \ (casualties \cup answered)
  IN  [casualties |-> casualties, answered |-> answered, recovered |-> recovered,
       indeterminate |-> (old.indeterminate \cup new.indeterminate)
                           \ (casualties \cup answered \cup recovered)]

-----------------------------------------------------------------------------
(* The store.                                                              *)

\* Mutant: the oldest trip without an end is the one to follow.
OpenFromFirst(ts) ==
  [c \in Breakers |->
     LET unended == {i \in DOMAIN ts : ts[i].circuit = c /\ ts[i].end = Never}
     IN  IF unended = {} THEN Never ELSE ts[Min(unended)].start]

\* async_start: of each circuit's trips without an end, the last.
OpenFrom(ts) ==
  [c \in Breakers |->
     LET unended == {i \in DOMAIN ts : ts[i].circuit = c /\ ts[i].end = Never}
     IN  IF unended = {} THEN Never ELSE ts[Max(unended)].start]

\* async_end_trip
Ended(ts, c, start, end) ==
  LET found == {i \in DOMAIN ts : /\ ts[i].circuit = c /\ ts[i].start = start
                                  /\ ts[i].end = Never}
  IN  IF found = {} THEN ts ELSE [ts EXCEPT ![Min(found)].end = end]

\* The trips that started since keepAfter.  SelectSeq, by recursion on what was looked at.
StartedSince(ts, keepAfter) ==
  LET kept[n \in 0 .. Len(ts)] ==
        IF n = 0 THEN <<>>
        ELSE IF ts[n].start >= keepAfter THEN Append(kept[n - 1], ts[n]) ELSE kept[n - 1]
  IN  kept[Len(ts)]

\* async_record_trip
Recorded(ts, trip, keepAfter) == Append(StartedSince(ts, keepAfter), trip)

\* async_amend_trip, and what it makes of the trip.
Amendment(trip, evidence) ==
  [trip EXCEPT !.suspected = @ \cup evidence.casualties, !.outage = Merged(@, evidence)]

Amended(ts, c, start, evidence) ==
  LET found == {i \in DOMAIN ts : ts[i].circuit = c /\ ts[i].start = start}
  IN  IF found = {} THEN ts ELSE [ts EXCEPT ![Min(found)] = Amendment(@, evidence)]

\* History: the trips without an end whose circuit has returned since.
MarkMissed(ts, back) ==
  [i \in DOMAIN ts |->
     IF ts[i].end = Never /\ \E t \in back[ts[i].circuit] : t > ts[i].noted
     THEN [ts[i] EXCEPT !.missed = TRUE] ELSE ts[i]]

-----------------------------------------------------------------------------
LedgerInit ==
  /\ clock = 0
  /\ dead = {}
  /\ reported = {}
  /\ watching = TRUE
  /\ incident = Never
  /\ openTrips = [c \in Breakers |-> Never]
  /\ trips = <<>>
  /\ held = {}
  /\ file = <<>>
  /\ handler = Never
  /\ writer = Never
  /\ writes = 0
  /\ returns = [c \in Breakers |-> {}]

\* _on_state_changed: the circuit c reads dead.
ReportsDead(c) ==
  /\ watching /\ clock < MaxReadings
  /\ clock' = clock + 1
  /\ ReadsDead(c)
  /\ reported' = reported \cup {c}
  /\ UNCHANGED <<watching, openTrips, trips, held, file, handler, writer, writes, returns>>

\* It reads live: its open trip ends.
ReportsLive(c) ==
  /\ watching /\ clock < MaxReadings
  /\ clock' = clock + 1
  /\ ReadsLive(c)
  /\ reported' = reported \cup {c}
  /\ openTrips' = [openTrips EXCEPT ![c] = Never]
  /\ trips' = IF openTrips[c] = Never THEN trips
              ELSE Ended(trips, c, openTrips[c], clock + 1)
  /\ returns' = [returns EXCEPT ![c] = @ \cup {clock + 1}]
  /\ UNCHANGED <<watching, held, file, handler, writer, writes>>

\* The circuit changes while nobody watches.
ChangesUnseen(c) ==
  /\ ~watching /\ clock < MaxReadings
  /\ clock' = clock + 1
  /\ dead' = IF c \in dead THEN dead \ {c} ELSE dead \cup {c}
  /\ returns' = IF c \in dead THEN [returns EXCEPT ![c] = @ \cup {clock + 1}] ELSE returns
  /\ trips' = MarkMissed(trips, returns')
  /\ file' = MarkMissed(file, returns')
  /\ UNCHANGED <<reported, watching, incident, openTrips, held, handler, writer, writes>>

-----------------------------------------------------------------------------
(* An incident is closed: _on_due, async_handle and _record_devices.       *)

\* Refused: nothing is kept of it.
RefuseIncident ==
  /\ Closes
  /\ UNCHANGED <<clock, dead, reported, watching, openTrips, trips, held, file, handler,
                 writer, writes, returns>>

NewTrip(confirmed, suspected) ==
  [circuit |-> incident.circuit, start |-> incident.start, end |-> incident.end,
   confirmed |-> confirmed, suspected |-> suspected, outage |-> NoOutage,
   noted |-> clock, missed |-> FALSE]

\* Accepted: the trip is recorded, and followed while it has no end.
AcceptIncident(confirmed, suspected) ==
  /\ Closes /\ handler = Never
  /\ openTrips' = IF incident.end = Never
                  THEN [openTrips EXCEPT ![incident.circuit] = incident.start] ELSE openTrips
  /\ trips' = Recorded(trips, NewTrip(confirmed, suspected), clock - LOOKBACK)
  /\ handler' = [circuit |-> incident.circuit, existing |-> Never,
                 todo |-> DevicesOf(confirmed \cup suspected),
                 casualties |-> confirmed \cup suspected]
  /\ UNCHANGED <<clock, dead, reported, watching, held, file, writer, writes, returns>>

\* The trip is saved; the rows are read once, for all of its devices.
ReadRows ==
  /\ handler # Never /\ handler.existing = Never
  /\ handler' = [handler EXCEPT !.existing = held]
  /\ UNCHANGED <<clock, dead, reported, watching, incident, openTrips, trips, held, file,
                 writer, writes, returns>>

\* One device's row is recorded.
RecordDevice(device) ==
  /\ handler # Never /\ handler.existing # Never
  /\ device \in handler.todo
  /\ held' = held \cup {KeyFor(device, handler.casualties \cap Siblings(device),
                               handler.existing)}
  /\ handler' = [handler EXCEPT !.todo = @ \ {device}]
  /\ UNCHANGED <<clock, dead, reported, watching, incident, openTrips, trips, file,
                 writer, writes, returns>>

\* The event is fired and the run decided.
HandlerEnds ==
  /\ handler # Never /\ handler.existing # Never /\ handler.todo = {}
  /\ handler' = Never
  /\ UNCHANGED <<clock, dead, reported, watching, incident, openTrips, trips, held, file,
                 writer, writes, returns>>

-----------------------------------------------------------------------------
(* async_record_outage.                                                    *)

\* _record_outage, and the run's own rules: a device that came back with its circuit
\* needs the circuit back.
Admissible(trip, casualties, recovered) ==
  casualties \cup recovered # {} => trip.end # Never

\* The run hands over what it found indeterminate, the service what had recovered.
BeginOutage(i, casualties, answered, indeterminate, recovered) ==
  /\ watching /\ writer = Never /\ writes < MaxWrites
  /\ i \in DOMAIN trips
  /\ indeterminate = {} \/ recovered = {}
  /\ Admissible(trips[i], casualties, recovered)
  /\ casualties \cup answered \cup indeterminate \cup recovered # {}
  /\ writes' = writes + 1
  /\ writer' = [circuit |-> trips[i].circuit, start |-> trips[i].start,
                todo |-> KeysFor(casualties, held),
                evidence |-> [casualties |-> KeysFor(casualties, held),
                              answered |-> KeysFor(answered, held),
                              indeterminate |-> KeysFor(indeterminate, held),
                              recovered |-> KeysFor(recovered, held)]]
  /\ UNCHANGED <<clock, dead, reported, watching, incident, openTrips, trips, held, file,
                 handler, returns>>

\* A casualty's row is recorded.
RecordCasualty(key) ==
  /\ writer # Never /\ key \in writer.todo
  /\ held' = held \cup {key}
  /\ writer' = [writer EXCEPT !.todo = @ \ {key}]
  /\ UNCHANGED <<clock, dead, reported, watching, incident, openTrips, trips, file,
                 handler, writes, returns>>

AmendTrip ==
  /\ writer # Never /\ writer.todo = {}
  /\ trips' = Amended(trips, writer.circuit, writer.start, writer.evidence)
  /\ writer' = Never
  /\ UNCHANGED <<clock, dead, reported, watching, incident, openTrips, held, file,
                 handler, writes, returns>>

-----------------------------------------------------------------------------
(* The rest of the integration, and the process.                           *)

\* A probe or a sweep records a row, or a row is forgotten.
OthersRecord(entity) ==
  /\ entity \notin held
  /\ held' = held \cup {entity}
  /\ UNCHANGED <<clock, dead, reported, watching, incident, openTrips, trips, file,
                 handler, writer, writes, returns>>

OthersForget(entity) ==
  /\ entity \in held
  /\ held' = held \ {entity}
  /\ UNCHANGED <<clock, dead, reported, watching, incident, openTrips, trips, file,
                 handler, writer, writes, returns>>

Save ==
  /\ file # trips
  /\ file' = trips
  /\ UNCHANGED <<clock, dead, reported, watching, incident, openTrips, trips, held,
                 handler, writer, writes, returns>>

Stops ==
  /\ watching
  /\ watching' = FALSE
  /\ incident' = Never /\ handler' = Never /\ writer' = Never
  /\ openTrips' = [c \in Breakers |-> Never]
  /\ reported' = {}

\* The entry is unloaded.
Unloads ==
  /\ Stops
  /\ file' = trips
  /\ UNCHANGED <<clock, dead, trips, held, writes, returns>>

\* The process dies: what was not saved is lost.
Crashes ==
  /\ Stops
  /\ trips' = MarkMissed(file, returns)
  /\ file' = trips'
  /\ UNCHANGED <<clock, dead, held, writes, returns>>

\* async_start
Starts ==
  /\ ~watching
  /\ watching' = TRUE
  /\ openTrips' = OpenFrom(trips)
  /\ UNCHANGED <<clock, dead, reported, incident, trips, held, file, handler, writer,
                 writes, returns>>

LedgerNext ==
  \/ \E c \in Breakers : ReportsDead(c) \/ ReportsLive(c) \/ ChangesUnseen(c)
  \/ RefuseIncident
  \/ \E confirmed, suspected \in SUBSET Entities :
       confirmed \cap suspected = {} /\ AcceptIncident(confirmed, suspected)
  \/ ReadRows
  \/ \E d \in DevicesOf(Entities) : RecordDevice(d)
  \/ HandlerEnds
  \/ \E i \in DOMAIN trips, cas, ans, ind, rec \in SUBSET DevicesOf(Entities) :
       BeginOutage(i, cas, ans, ind, rec)
  \/ \E e \in Entities : RecordCasualty(e) \/ OthersRecord(e) \/ OthersForget(e)
  \/ AmendTrip
  \/ Save \/ Unloads \/ Crashes \/ Starts

LedgerSpec == LedgerInit /\ [][LedgerNext]_ledger

-----------------------------------------------------------------------------
(* "Each device sits in one place" (outage.py:272) - under one key, that   *)
(* is - however many writes a trip's evidence came in.                     *)
OnePlace(o) ==
  /\ o.casualties \cap (o.answered \cup o.recovered \cup o.indeterminate) = {}
  /\ o.answered \cap (o.recovered \cup o.indeterminate) = {}
  /\ o.recovered \cap o.indeterminate = {}

OnePlacePerKey == \A i \in DOMAIN trips : OnePlace(trips[i].outage)

LedgerTypeOK ==
  /\ clock \in Nat
  /\ dead \subseteq Breakers /\ reported \subseteq Breakers
  /\ watching \in BOOLEAN
  /\ incident = Never \/ incident \in [circuit : Breakers, start : Nat, end : Stamp]
  /\ openTrips \in [Breakers -> Stamp]
  /\ trips \in Seq(Trip)
  /\ held \subseteq Entities
  /\ file \in Seq(Trip)
  /\ returns \in [Breakers -> SUBSET Nat]
  /\ OnePlacePerKey

(* "A trip recorded while its circuit was still dead ends at the circuit's *)
(* next live reading, including one after a restart" (trips.py:162), as    *)
(* long as the watch saw that reading: one that came while nothing was     *)
(* watching, or whose end was lost in a crash, is never made up for.       *)
EndsAtItsReturn ==
  \A i \in DOMAIN trips :
    LET t == trips[i]
        later == {r \in returns[t.circuit] : r > t.noted}
    IN  ~t.missed => IF t.end = Never THEN later = {}
                     ELSE IF t.end > t.noted THEN t.end = Min(later)
                     ELSE t.start < t.end

(* Whatever was missed, a circuit that has read live since the watch       *)
(* started has no trip without an end but ones older than a later trip of  *)
(* its own: the one shown as its last trip is over.                        *)
LiveCircuitsLastTripIsOver ==
  \A c \in reported \ dead : \A i \in DOMAIN trips :
    /\ trips[i].circuit = c
    /\ \A j \in DOMAIN trips : j > i => trips[j].circuit # c
    => trips[i].end # Never

(* Both: no trip of a circuit that is back is left open for nothing.       *)
TripsEnd == EndsAtItsReturn /\ LiveCircuitsLastTripIsOver

Rank(o, key) ==
  IF key \in o.casualties THEN 4 ELSE IF key \in o.answered THEN 3
  ELSE IF key \in o.recovered THEN 2 ELSE IF key \in o.indeterminate THEN 1 ELSE 0

(* No write takes back what an earlier one showed: a key only moves to a   *)
(* stronger place, and a casualty stays suspected on its trip.             *)
PlaceNeverWeakens ==
  [][\A i \in DOMAIN trips, j \in DOMAIN trips' :
       /\ trips[i].circuit = trips'[j].circuit /\ trips[i].start = trips'[j].start
       /\ watching'
       => /\ \A e \in Entities : Rank(trips'[j].outage, e) >= Rank(trips[i].outage, e)
          /\ trips'[j].outage.casualties \subseteq trips'[j].suspected]_ledger
=============================================================================
