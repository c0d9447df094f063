---------------------------- MODULE Assignments ----------------------------
(***************************************************************************)
(* The circuit assignments of FingerprintStore (store.py): for each device *)
(* the circuit it was found on, on what evidence, and the disagreements    *)
(* kept beside it.                                                         *)
(*                                                                         *)
(* Probes, breaker trips, outage runs and passive sweeps all write here,   *)
(* in any order.  A row keeps one answer; the rule is that a weaker answer *)
(* never replaces a stronger one and that a disagreement is kept on the    *)
(* row instead of being dropped.                                           *)
(*                                                                         *)
(* Abstracted: evidence is reduced to its `result`, the only field the     *)
(* store reads.  An answer whose circuit is None changes nothing           *)
(* (store.py:300) and is not enumerated.  Every write is followed by a     *)
(* save, so a restart reads back the same rows.                            *)
(*                                                                         *)
(* `heard`, `overflowed` and `renames` are history variables: all answers  *)
(* a device's row was built from, in order, whether its conflict list ever *)
(* had to drop an entry, and how many times a circuit was renamed.         *)
(***************************************************************************)
EXTENDS Integers, Sequences, FiniteSets, SequencesExt

CONSTANTS
  DeviceIds,     \* entity ids a device can have, renames included
  CircuitIds,    \* entity ids a circuit can have, renames included
  LiveDevices,   \* the ids in use at the start
  LiveCircuits,
  OwnSensors,    \* this integration's own sensors, rows of an old version only
  MAX_CONFLICTS, \* disagreements kept on a row
  MaxHeard,      \* bounds of the model: answers one row is built from,
  MaxRenames,    \*   and renames of circuits
  NoRow          \* a device without an assignment

ASSUME AssignmentsAssumption ==
  /\ LiveDevices \subseteq DeviceIds
  /\ LiveCircuits \subseteq CircuitIds
  /\ OwnSensors \cap DeviceIds = {}
  /\ MAX_CONFLICTS \in Nat \ {0}
  /\ MaxHeard \in Nat /\ MaxRenames \in Nat

VARIABLES
  rows,          \* store._assignments: the answer of each device's row
  conflicts,     \*   and the disagreements on it, oldest first
  loaded,        \* has async_load run on this file?
  live,          \* the entity ids the registry knows now
  heard,         \* history: answers since the row was last absent
  overflowed,    \* history: was a conflict ever pushed out by the limit?
  renames        \* history: how many times a circuit was renamed

vars == <<rows, conflicts, loaded, live, heard, overflowed, renames>>

Keys == DeviceIds \cup OwnSensors

-----------------------------------------------------------------------------
(* What the callers write: services.py and trips.py.                       *)

Evidence ==
  {[source |-> "probe", confidence |-> c, result |-> "none"] :
      c \in {"measured", "inferred", "suspect"}}
  \cup {[source |-> "probe", confidence |-> "inferred", result |-> "suspected"]}
  \cup {[source |-> "breaker", confidence |-> "inferred", result |-> r] :
      r \in {"confirmed", "suspected"}}
  \cup {[source |-> "correlation", confidence |-> "inferred", result |-> "none"]}

\* Rows of a file written before minor version 2 may call a passive
\* placement measured.
OldEvidence ==
  Evidence \cup {[source |-> s, confidence |-> "measured", result |-> "none"] :
      s \in {"breaker", "correlation"}}

Answer(e, c) == [circuit |-> c, source |-> e.source,
                 confidence |-> e.confidence, result |-> e.result]

Sources == {"probe", "breaker", "correlation"}

Answers == [circuit : CircuitIds, source : Sources,
            confidence : {"measured", "inferred", "suspect"},
            result : {"none", "confirmed", "suspected"}]

ASSUME NoRowAssumption == NoRow \notin Answers

Conflicts == [source : Sources, circuit : CircuitIds]

Strength(a) ==
  IF a.source = "probe" THEN IF a.confidence = "measured" THEN 4 ELSE 2
  ELSE IF a.source = "breaker" THEN IF a.result = "confirmed" THEN 3 ELSE 1
  ELSE 0

\* Mutant: the migration and the write rule are both lost.
MeasuredByAnyone(a) == a

\* `measured` is kept for probes, on load and on every write.
Reserve(a) ==
  IF a.source # "probe" /\ a.confidence = "measured"
  THEN [a EXCEPT !.confidence = "inferred"] ELSE a

Newest(s) == SubSeq(s, IF Len(s) > MAX_CONFLICTS THEN Len(s) - MAX_CONFLICTS + 1 ELSE 1,
                    Len(s))

Disagreement(a) == [source |-> a.source, circuit |-> a.circuit]

\* Those of cs that name another circuit, each once.
Kept(cs, circuit) ==
  LET kept[n \in 0 .. Len(cs)] ==
        IF n = 0 THEN <<>>
        ELSE IF cs[n].circuit = circuit \/ cs[n] \in ToSet(kept[n - 1]) THEN kept[n - 1]
        ELSE Append(kept[n - 1], cs[n])
  IN  kept[Len(cs)]

\* A row's disagreements once its circuit becomes `circuit`: the earlier ones
\* and the answer replaced, if it disagrees.
Carried(d, circuit) ==
  Kept(IF rows[d].circuit = circuit THEN conflicts[d]
       ELSE Append(conflicts[d], Disagreement(rows[d])), circuit)

\* Mutant: one disagreement per source, so a second circuit is dropped.
NotedOncePerSource(d, a) ==
  IF \/ a.circuit = rows[d].circuit
     \/ \E c \in ToSet(conflicts[d]) : c.source = a.source
  THEN conflicts[d]
  ELSE Append(conflicts[d], Disagreement(a))

\* A weaker answer: noted when it names another circuit and is news.
Noted(d, a) ==
  IF a.circuit = rows[d].circuit \/ Disagreement(a) \in ToSet(conflicts[d])
  THEN conflicts[d]
  ELSE Append(conflicts[d], Disagreement(a))

-----------------------------------------------------------------------------
Init ==
  /\ loaded = FALSE
  /\ live = LiveDevices \cup LiveCircuits
  /\ \E old \in [LiveDevices \cup OwnSensors ->
                   {NoRow} \cup {Answer(e, c) : e \in OldEvidence, c \in LiveCircuits}] :
       rows = [k \in Keys |-> IF k \in DOMAIN old THEN old[k] ELSE NoRow]
  /\ heard = [k \in Keys |-> IF rows[k] = NoRow THEN <<>>
                             ELSE <<Reserve(rows[k])>>]
  /\ conflicts = [k \in Keys |-> <<>>]
  /\ overflowed = [k \in Keys |-> FALSE]
  /\ renames = 0

\* async_load with its migration; run again by every restart.
Load ==
  /\ rows' = [k \in Keys |->
                IF k \in OwnSensors \/ rows[k] = NoRow THEN NoRow
                ELSE Reserve(rows[k])]
  /\ conflicts' = [k \in Keys |-> IF k \in OwnSensors THEN <<>> ELSE conflicts[k]]
  /\ heard' = [k \in Keys |-> IF k \in OwnSensors THEN <<>> ELSE heard[k]]
  /\ loaded' = TRUE
  /\ UNCHANGED <<live, overflowed, renames>>

Replace(d, a) ==
  LET carried == IF rows[d] = NoRow THEN <<>> ELSE Carried(d, a.circuit)
  IN  /\ rows' = [rows EXCEPT ![d] = a]
      /\ conflicts' = [conflicts EXCEPT ![d] = Newest(carried)]
      /\ overflowed' = [overflowed EXCEPT ![d] = @ \/ Len(carried) > MAX_CONFLICTS]

NoteConflict(d, a) ==
  LET noted == Noted(d, a)
  IN  /\ UNCHANGED rows
      /\ conflicts' = [conflicts EXCEPT ![d] = Newest(noted)]
      /\ overflowed' = [overflowed EXCEPT ![d] = @ \/ Len(noted) > MAX_CONFLICTS]

\* Mutant: an equal answer is treated as a weaker one.
RecordOnlyStronger(d, e, c) ==
  LET a == Reserve(Answer(e, c))
  IN  /\ loaded
      /\ {d, c} \subseteq live
      /\ Len(heard[d]) < MaxHeard
      /\ IF rows[d] # NoRow /\ Strength(a) <= Strength(rows[d])
         THEN NoteConflict(d, a)
         ELSE Replace(d, a)
      /\ heard' = [heard EXCEPT ![d] = Append(@, a)]
      /\ UNCHANGED <<loaded, live, renames>>

\* Mutant: a weaker answer that names another circuit is believed.
RecordNews(d, e, c) ==
  LET a == Reserve(Answer(e, c))
  IN  /\ loaded
      /\ {d, c} \subseteq live
      /\ Len(heard[d]) < MaxHeard
      /\ IF rows[d] # NoRow /\ Strength(a) < Strength(rows[d]) /\ a.circuit = rows[d].circuit
         THEN NoteConflict(d, a)
         ELSE Replace(d, a)
      /\ heard' = [heard EXCEPT ![d] = Append(@, a)]
      /\ UNCHANGED <<loaded, live, renames>>

\* async_record_assignment(d, c, ...) with the evidence e.
RecordAssignment(d, e, c) ==
  LET a == Reserve(Answer(e, c))
  IN  /\ loaded
      /\ {d, c} \subseteq live
      /\ Len(heard[d]) < MaxHeard
      /\ IF rows[d] # NoRow /\ Strength(a) < Strength(rows[d])
         THEN NoteConflict(d, a)
         ELSE Replace(d, a)
      /\ heard' = [heard EXCEPT ![d] = Append(@, a)]
      /\ UNCHANGED <<loaded, live, renames>>

ForgetAssignment(d) ==
  /\ loaded
  /\ rows[d] # NoRow
  /\ rows' = [rows EXCEPT ![d] = NoRow]
  /\ conflicts' = [conflicts EXCEPT ![d] = <<>>]
  /\ heard' = [heard EXCEPT ![d] = <<>>]
  /\ overflowed' = [overflowed EXCEPT ![d] = FALSE]
  /\ UNCHANGED <<loaded, live, renames>>

-----------------------------------------------------------------------------
(* async_migrate_entity_id: the registry renames `old` to `new`.           *)

\* A device: its row moves to the new key, over any row left there.
MigrateDevice(old, new) ==
  /\ loaded
  /\ old \in DeviceIds \cap live /\ new \in DeviceIds \ live
  /\ live' = (live \ {old}) \cup {new}
  /\ IF rows[old] = NoRow
     THEN UNCHANGED <<rows, conflicts, heard, overflowed>>
     ELSE /\ rows' = [rows EXCEPT ![new] = rows[old], ![old] = NoRow]
          /\ conflicts' = [conflicts EXCEPT ![new] = conflicts[old], ![old] = <<>>]
          /\ heard' = [heard EXCEPT ![new] = heard[old], ![old] = <<>>]
          /\ overflowed' = [overflowed EXCEPT ![new] = overflowed[old], ![old] = FALSE]
  /\ UNCHANGED <<loaded, renames>>

Moved(a, old, new) == IF a.circuit = old THEN [a EXCEPT !.circuit = new] ELSE a

\* A circuit: every row placed on it follows; the conflicts do not.
MigrateCircuit(old, new) ==
  /\ loaded
  /\ old \in CircuitIds \cap live /\ new \in CircuitIds \ live
  /\ renames < MaxRenames
  /\ live' = (live \ {old}) \cup {new}
  /\ rows' = [k \in Keys |-> IF rows[k] = NoRow THEN NoRow ELSE Moved(rows[k], old, new)]
  /\ heard' = [k \in Keys |-> [i \in DOMAIN heard[k] |-> Moved(heard[k][i], old, new)]]
  /\ renames' = renames + 1
  /\ UNCHANGED <<conflicts, loaded, overflowed>>

Next ==
  \/ Load
  \/ \E d \in DeviceIds, e \in Evidence, c \in CircuitIds : RecordAssignment(d, e, c)
  \/ \E d \in DeviceIds : ForgetAssignment(d)
  \/ \E old, new \in DeviceIds : MigrateDevice(old, new)
  \/ \E old, new \in CircuitIds : MigrateCircuit(old, new)

Spec == Init /\ [][Next]_vars

-----------------------------------------------------------------------------
\* Each row is absent or a placement with a list of disagreements.
TypeOK ==
  /\ loaded \in BOOLEAN
  /\ live \subseteq DeviceIds \cup CircuitIds
  /\ rows \in [Keys -> Answers \cup {NoRow}]
  /\ conflicts \in [Keys -> Seq(Conflicts)]
  /\ heard \in [Keys -> Seq(Answers)]
  /\ overflowed \in [Keys -> BOOLEAN]
  /\ renames \in 0 .. MaxRenames

\* The answer at `i` is the newest of the strongest in the sequence s.
Wins(s, i) ==
  /\ i \in DOMAIN s
  /\ \A j \in DOMAIN s : /\ Strength(s[j]) <= Strength(s[i])
                         /\ j > i => Strength(s[j]) < Strength(s[i])

(* Whatever order the evidence arrived in, restarts and renames between,   *)
(* the row holds the newest of the strongest answers heard: a later weak   *)
(* sweep never erases a probe, and a later equal one is believed.          *)
LatestOfTheStrongest ==
  loaded => \A k \in Keys :
    IF rows[k] = NoRow THEN heard[k] = <<>>
    ELSE \E i \in DOMAIN heard[k] : Wins(heard[k], i) /\ rows[k] = heard[k][i]

(* Once the file has been loaded nothing but a probe is called measured,   *)
(* however old the file and whatever a caller passes.                      *)
MeasuredIsAProbe ==
  loaded => \A k \in Keys :
    rows[k] # NoRow /\ rows[k].confidence = "measured"
      => rows[k].source = "probe"

(* What a row shows was earned: it is the best answer heard, and is called *)
(* measured only for a probe.                                              *)
RowsAreEarned == LatestOfTheStrongest /\ MeasuredIsAProbe

(* A row never lists a disagreement twice, never more than MAX_CONFLICTS,  *)
(* and never its own circuit, through any number of changes of mind.  The  *)
(* last holds until a circuit is renamed: async_migrate_entity_id (store.  *)
(* py:429) moves the rows but leaves the old id in their disagreements.    *)
ConflictsDisagree ==
  \A k \in Keys : rows[k] # NoRow =>
    LET cs == conflicts[k]
    IN  /\ Len(cs) <= MAX_CONFLICTS
        /\ \A i, j \in DOMAIN cs : cs[i] = cs[j] => i = j
        /\ renames = 0 => \A i \in DOMAIN cs : cs[i].circuit # rows[k].circuit

(* Every circuit any answer ever named is still readable off the row, as   *)
(* its circuit or as a disagreement, unless the limit pushed one out or a  *)
(* circuit was renamed.                                                    *)
DisagreementsKept ==
  \A k \in Keys : rows[k] # NoRow /\ ~overflowed[k] /\ renames = 0 =>
    \A i \in DOMAIN heard[k] :
      heard[k][i].circuit \in {rows[k].circuit}
                              \cup {c.circuit : c \in ToSet(conflicts[k])}

(* What a reader of the page learns about disagreements is true and        *)
(* complete.                                                               *)
Disagreements == ConflictsDisagree /\ DisagreementsKept

(* Only forgetting weakens a row: no recording, load or circuit rename     *)
(* leaves a device with weaker evidence than it had.                       *)
EvidenceNeverWeakens ==
  [][\A d \in DeviceIds :
       rows[d] # NoRow /\ rows'[d] # NoRow /\ d \in live /\ d \in live'
         => Strength(rows'[d]) >= Strength(rows[d])]_vars

-----------------------------------------------------------------------------
(* What a reader sees of a row.                                            *)
PlaceOf(d) ==
  IF rows[d] = NoRow THEN NoRow
  ELSE [circuit |-> rows[d].circuit, strength |-> Strength(rows[d])]

ASSUME NoPlaceAssumption == NoRow \notin [circuit : CircuitIds, strength : 0 .. 4]

P == INSTANCE Placement
       WITH Devices <- DeviceIds, Circuits <- CircuitIds, Nowhere <- NoRow,
            placed <- [d \in DeviceIds |-> PlaceOf(d)]

(* The rows implement the placement: whatever the sources, the migration   *)
(* of the file, the restarts, the renames and the disagreements, every     *)
(* step either leaves a device where it was, with the same strength, or    *)
(* moves it for an answer at least as strong.                              *)
ImplementsPlacement == P!Spec
=============================================================================
