# TLA+ models of power_fingerprint

This directory models the stateful core of the Home Assistant integration in
`custom_components/power_fingerprint` in TLA+. TLC checks the models on small
instances, and TLAPS proves their safety properties for every instance, under
hypotheses that are named where they are needed. All source paths below are
relative to that directory.

- [What the system is](#what-the-system-is)
- [The models](#the-models)
- [The runs](#the-runs)
- [Fairness](#fairness)
- [The proofs](#the-proofs)
- [What the code does not guarantee](#what-the-code-does-not-guarantee)
- [Not modelled](#not-modelled)
- [Plan](#plan)

## What the system is

The integration reads the power of each circuit of a house and works out which
device hangs on which circuit. It does so in several ways: it clusters the
switching events of a circuit into fingerprints, it switches a device and
watches the circuits (`verify_circuit`), it watches what goes away when a
breaker trips, and it correlates meters. Everything runs in Home Assistant's
single event loop, so every `await`, callback and timer is a place where
something else may run in between, and every save may be the last before a
crash.

### Components

| component | source | state | operations | talks to |
|---|---|---|---|---|
| Store | `store.py` | one file: assignments, fingerprints, labels, trips, pause list, last seen, heartbeat | load with migration, record and forget assignments, trips, pause list, renames, immediate and delayed saves | everything |
| Trip detector | `breaker.py` | logs of circuit and device readings, the open incident, arming, eligible circuits | `circuit`, `device`, `due`, `close` | driven by the watcher |
| Breaker watcher | `trips.py` | one timer, the outage run, open trips, hourly minima | state changes, timer, outcome handling, eligibility refresh | detector, outage run, store |
| Outage run | `probes.py` | five timers, two background passes, a decision | `start`, `restore`, `dead_again`, `feed`, `decide`, `stop` | watcher, evidence, radios |
| Outage evidence | `outage.py` | requests, device tracks, flickers | feed, `waiting`, `judge`; `merge_outage` | outage run |
| Active probe | `services.py`, `verify.py` | a running service call, the stored pause list | pause automations, switch a device back and forth, grade, restore | store, Home Assistant services |
| Coordinator | `coordinator.py`, `analysis.py` | last seen, blind time, heartbeat | poll, events, absence verdicts | store, entities |
| Fingerprint library | `fingerprint.py`, `services.py` | clusters and labels in the store | learn, label, autolabel | store |
| Entry lifecycle | `__init__.py` | the store object, the coordinator, the watcher | setup with recovery, reload, unload, renames | all of them |
| Segmentation, correlation, attribution, virtual power | `analysis.py`, `correlate.py`, `attribution.py`, `virtual.py` | none | computations over a history | services |
| Entities, forms, dashboard, diagnostics, tools | the rest | none of their own | presentation | coordinator |

### What is hard about it

- **Assignments.** Evidence about one device comes from four sources of
  different strength, in any order, over weeks, across restarts, renames and a
  file format in which "measured" meant something else. Correct means: the row
  is the newest of the strongest answers; a disagreement is neither lost nor
  invented.
- **Trip detector.** A tripping breaker is a matter of seconds in a stream of
  readings that flap, go unreadable and come late. Correct means: an incident
  always has a timer, is closed within a bound, ends at the last return, and is
  judged as if no reading had ever been dropped.
- **Outage run.** Requests are sent while a circuit is dead and again when it
  is back, and the breaker may be worked in the middle of either. The meter's
  reading trails the power. Correct means: no device on the circuit is taken for
  one fed from elsewhere, the evidence is complete and final when it is handed
  over, and the run ends.
- **Active probe.** It switches off the user's automations and switches a
  device. Correct means: whatever fails or dies, the house is handed back as it
  was found, and what the user switched off stays off.
- **Absence.** "Overdue" must rest on time in which the circuit was watched, and
  an appliance that has died must still be noticed.
- **Trips.** A trip is recorded while its circuit may still be dead and is
  written to afterwards by the watcher, an outage run and a person, across
  restarts. Correct means: it ends when its circuit returned, and no write takes
  back what another one showed.
- **Names.** Shapes are learned again and again from other runs. Correct means:
  a name stays on its appliance, and no task overwrites one a person gave.
- **Sources.** The ids of the sources are renamed by a person at any moment, in
  the middle of a reload or of another rename. Correct means: store, entry and
  running instance agree in the end.
- **Eligibility.** Whether a circuit is watched rests on what the recorder, this
  instance and the recorded trips say of each hour. Correct means: a circuit that
  idles is not watched, and one that trips stays watched.

`PROJECT.json` lists these hazards at their lines, with the properties that
would catch them.

## The models

| module | models | extended by |
|---|---|---|
| `Placement` | what the evidence rows promise a reader: an abstract specification | |
| `Assignments` | the evidence rows of `store.py`, which implement `Placement` | `MCStore`, `StoreProofs` |
| `BreakerIncident` | what the trip detector promises the rest of the watch: an abstract specification | `TripLedger` |
| `TripLedger` | the trips `trips.py` records, their ends, and the evidence written to them | `MCStore`, `TripLedgerProofs` |
| `Library` | `fingerprint.py`'s clusters and labels, and the learn, label and autolabel actions | `MCStore`, `LibraryProofs` |
| `TripDetector` | `breaker.py`, and the event handler and timer of `trips.py`, which implement `BreakerIncident` | `MCTripDetector`, `TripDetectorProofs` |
| `OutageEvidence` | `outage.py` without `merge_outage`: a module of operators | `OutageRun` |
| `OutageRun` | `OutageRun` of `probes.py`, composed with the evidence, the incident it belongs to, and the physical circuit | `MCOutageRun`, `OutageRunProofs` |
| `ProbePause` | `verify_circuit` in `services.py`, the setup in `__init__.py`, the pause list in `store.py` | `MCProbePause`, `ProbePauseProofs` |
| `Absence` | the poll of `coordinator.py`, `analysis.absence`, the delayed save, stops and starts | `MCAbsence`, `MCRuntime`, `RuntimeProofs` |
| `Verdicts` | what a probe concludes: `verify.py`, as `services.py` uses it | `MCRuntime`, `PanelProofs` |
| `SourceRenames` | the config entry in `__init__.py` and `config_flow.py`: setup, renames, forms, reload | `MCRuntime`, `RuntimeProofs` |
| `Eligibility` | `breaker.eligibility` and the hourly history behind it in `trips.py` | `MCRuntime`, `PanelProofs` |
| `Segments` | `analysis.segment` | `MCRuntime`, `PanelProofs` |
| `Correlation` | the matching of `correlate.py` | `MCRuntime`, `PanelProofs` |
| `Attribution` | `attribution.assign` | `MCRuntime`, `PanelProofs` |

The `MC` modules give values to constants. `MCStore` and `MCRuntime` are also
sums: several modules that share no state are set up side by side, a behaviour
picks one of them at the start (`part`) and takes its steps only. A sum checks
what separate runs would, and its state count is the sum of theirs. That the
parts are independent is taken from the code, not shown by the sum, whose
definition takes it for granted: the parts meet through the results they hand
on, which each module takes as inputs, and where one operation of the code is
about the data of several (the migration of an id in `store.py:420-440` renames
it in rows and in trips) each module has its share of it.

`PROJECT.json` maps every definition to the lines it stands for. Operators
marked "Mutant" are plausible bugs; putting one in the place of the operator
below it makes the property that it belongs to fail, which shows that the
property looks at the code.

**Placement and Assignments.** `rows` is the `assignments` table; a row keeps
what the code compares: circuit, source, confidence, result, conflicts.
`RecordAssignment` is `async_record_assignment` with its three outcomes: note the
weaker answer as a conflict, replace the row and carry its conflicts, or replace
it plainly. `Load` is `async_load` with `reserve_measured_for_probes`; the two
renames are `async_migrate_entity_id`. `heard` and `renames` are history
variables: what was answered so far, against which the row is compared.
`Placement` says the same of a device's circuit and its strength alone: an answer
moves a device if it is at least as strong. The refinement maps each row to its
circuit and strength; sources, results, migrations, conflicts and restarts
disappear.

**TripLedger.** `trips` is the store's list and `file` what was saved of it,
`openTrips` the watcher's map of circuits to trips without an end. Of the
detector there is its incident, as in `BreakerIncident`. `async_handle` is the
steps `AcceptIncident`, `ReadRows`, `RecordDevice` and `HandlerEnds`, one for
each await;
`async_record_outage` is `BeginOutage`, `RecordCasualty` and `AmendTrip`, for the
outage run and for the service, of any trip recorded so far. While the entry is
unloaded or the process is dead the circuits change unseen. One handler and one
writer run at a time, which is more than the code says: the detector has one
incident and closes it after a delay of seconds, and the service is called by a
person.

**Library.** A run's features are a point on a line, since the algorithms only
compare distances. `Groups` is `cluster`: merge the closest pair under complete
linkage until it is too far. `CarryLabels` is `carry_labels`, nearest pairs first.
`LearnCircuit`, `Label` and the autolabel task are the actions; the task is
interrupted at each write and decides from a list it made at its start.

**TripDetector.** A log holds everything ever fed, and `kept` is the index from
which the code's deque goes on, so that "what would have been judged with
nothing dropped" is a state function. One action per handler: `CircuitChanges`
is `_on_state_changed` for a circuit with everything it calls (the last report
of the old value first, prune, open or follow, schedule), `DeviceChanges` for
another entity, `TimerFires` is `_on_due`, `Started` arms, `Rejudge` changes
eligibility.

`BreakerIncident` has of all this what `trips.py` goes on from: which circuits
read dead, and one incident with its circuit, start and end. `Seen` maps a
circuit to the last readable entry of its log, and an incident whose circuit was
lost to none, since nothing is made of it; logs, delays, the timer, arming and
eligibility disappear. `TripLedger` extends it and closes the incident accepted or
refused, so that the two models meet: what the ledger takes for granted about
incidents is what the detector is shown to do.

**OutageEvidence and OutageRun.** The behaviours begin with the fall. `power` is
what the breaker does, `live` what the meter last said. The timers and tasks of
the code are fields of `run`, a timer being the time it is due; a background pass
is the set of devices still to ask, the request in flight and the pings left.
`Asks` and `Answers` are the two ends of one awaited request. `restore`,
`dead_again`, `decide`, `_check` and `stop` are the operators `Returns`,
`DiesAgain`, `Decide`, `Checked` and `Stopped`. The answer to a request is
nondeterministic as far as the power allows: a device on the circuit answers only
if it had power, or still had some left, at some moment of the request. Two
assumptions are about the house: the reading trails by less than `METER_LAG_S`,
and power does not come and go between two reports. A third is about asyncio: a
cancelled pass sends and records nothing more.

**ProbePause.** Each call of the service has a program counter, and every
await is a step. The entry may be reloaded, which replaces the store object
while running calls keep theirs; a crash may come at any step, and the next
start reads the file and restores. A call that raises outside its `finally`
block, or in it, ends with its list still in the store (`left`). `enabled` and
`device` are the house, `borrowed`, `userOff` and `found` history: what is off
because of a probe, what the user switched off while no call and no setup held
it, whatever lists were on record, and what the device was when last left alone.
Which automations are safe to pause (`safe_to_pause`) is an input, `Watching`.

**Verdicts.** The same call as its measurements see it: each probe changes the
device's draw, other loads change each channel by any of a few steps, channels
may be unreadable and the device's meter may be late, and the ranking, decision,
agreement and grade of `verify.py` follow. Where the device really is, `home`, is
in the state, so that a conclusion can be wrong.

**Absence.** One tick is one poll. `Poll` is the whole update: blind time,
sightings, verdicts, persistence. `watched` is a history variable: how long
the circuit was really watched since the appliance was seen.

**SourceRenames.** The registry (`ids`), the entry's data and options, the
configuration the running instance was set up with, its subscription, the ids in
the store object and those in the file. The sources are the mains and the
circuits (`Required`: setup needs their states), what else the pairs name
(`Configured`), and the devices the store has assigned, which need not be
configured. An entry is down, tried again, loading its store object, set up,
loaded or unloading. `Rename` runs the handler up to its first await, which is
the store's write when the store knew the id, and `RenameEnds` is the rest; the
update listener asks for a reload. `UnloadBegins` and `UnloadEnds` are the two
ends of the unload's save, and `StoreLoads` reads the file into a store object of
the new instance. A handler of a rename during that save waits behind it (`late`)
and writes the old object when the new one may have been loaded. Assumed of Home
Assistant: the writes of the last instance are done when an entry is loaded, and
an id is not given away while its rename is being followed. A crash is left out.

**Eligibility.** One circuit and its hours. `recorded` is the recorder, `hourly`
what this instance knows. `RefreshBegins` and `RefreshEnds` are the two ends of a
query, which may fail; a trip recorded, ended or amended by an outage's evidence
(`OutageRecorded`) is judged at once, the wait for its save left out. A restart
keeps the trips and forgets the rest.

**Segments, Correlation, Attribution.** These are algorithms, one step of the
model being one turn of their loop: a sample, an edge, a placement. Their inputs
are all histories of a small size. The reference definitions in `RunsAreWhole`
and `MatchesAreMost` quantify over sets of samples and matchings where the code
walks a list once; `PlacedDrawIsCarried` adds up what was placed, from the traces
before anything was subtracted.

## The runs

Each is a `.cfg` of the same name. The states are distinct ones, the times for two
workers.

| run | shows | instance | states |
|---|---|---|---|
| `Store`, part rows | the row rules and the refinement | one live device and its new name, three circuits and a new name, four answers, one rename; circuits are symmetric | 0.9 M and 70 s for all parts |
| part ends | trips get their ends | a circuit, seven readings, stops of both kinds | |
| part evidence | evidence keeps its place | a device with a sensor and a power sensor, two writes, no restart | |
| part library | shapes and names | two circuits, windows of up to three runs on four points, two learn passes | |
| `Runtime`, part absence | verdicts and heartbeat | an appliance, 14 polls, a limit of two, two stops of any kind | 4.1 M and 170 s for all parts |
| part probe | right and wrong conclusions | two channels, two probes, five loads | |
| part entry | renames are followed | a circuit, an assigned switch and one the store does not know, three renames, a form | |
| part watch | eligibility | five hours of two ticks, a trip, a restart | |
| part history | runs | every history of up to eight samples | |
| part correlate | matchings | histories of seven rows, three or four runs | |
| part map | placements | three devices, two circuits, four cells | |
| `TripFlaps` | timer, bound, end, closing, and the refinement | two circuits, eligible or not; delays of one tick, timers one tick late, five readings | 1.5 M, 55 s |
| `TripJudged` | pruning of records | a circuit and a metered plug; a stable period of two ticks, five readings | 5.6 M, 90 s |
| `ProbeCrash` | the house is handed back | two calls in turn, two automations, two switchings, two crashes | 1.2 M, 100 s |
| `ProbeOverlap` | what the user switched off stays off, devices are as found | two calls at once for two devices, one reload; any call may raise but a device's own restore | 0.3 M, 4 s |
| `Outage` | soundness, completeness and end of a run | a Zigbee device and a node, three workings of the breaker, five ticks of events | 1.7 M, 60 s |

`TripSilentCircuit`, `ProbeOverlapCrash`, `ProbeSameDevice`, `ProbeSetupFails`
and `AbsenceBlindRestart` each end in a counterexample: see
[What the code does not guarantee](#what-the-code-does-not-guarantee).

### Why the bounds are enough

- *Assignments*: `MAX_CONFLICTS` is two, so three disagreements overflow it, and
  four answers of three circuits with every source and result reach every
  branch from every kind of row. Deeper histories repeat: the row holds no more than
  the newest strongest answer and the conflicts.
- *TripLedger*: seven readings are three falls and returns and one more, so a
  trip may be dropped (`LOOKBACK` is two), missed, ended late or overtaken by
  the next one, across restarts and crashes with and without a save. The evidence
  part has a device whose key changes when rows come and go; two writes are the
  run's and the service's.
- *Library*: with three runs on four points and a threshold of one, clusters
  chain, tie and split; a second pass over other runs moves, drops and merges
  the shapes named after the first.
- *TripDetector*: the delays are shrunk so that everything the real ones allow
  happens within the bound on readings: a flap inside the grace period, a
  timer that fires after its due time moved, readings at and beyond the edge of
  every window while an incident is open. `LastEvent` and `MaxEvents` bound the
  stream, after which time goes on until the incident is closed.
  `LATE_S` is how late a timer runs, `MAX_GAP_S` how long a meter may be silent.
- *ProbePause*: two calls are what overlaps; a crash may hit the recovery
  from another crash. `ROUNDS` two has a switching between two others. In
  `ProbeOverlap` a list left by a call that raised meets the other call, the
  user, and the setup of a reload. That a device's own restore raises is left
  to the proof of `UserOffStaysOff`, since `DeviceAsFound` cannot hold then.
- *Verdicts*: a step of other loads may oppose the device's, be noise or be
  about as large, on either channel and in either probe; every channel may be
  unread in each and the device's meter late or unread in each.
- *Absence*: with a limit of two polls and fourteen polls an appliance is
  overdue, seen again, overdue again, on both sides of two stops.
- *SourceRenames*: three renames are two of one source with one of another
  between them; each may come at any point of a reload, which there is time for
  after each. Of the two switches of pairs, which setup does not need, one is
  assigned and one unknown to the store. A form may come at any moment.
- *Eligibility*: an hour is two ticks, so a query may be answered in the hour of
  the reading or after it; four hours are judged and two are enough. A trip does
  not get old enough to be dropped.
- *Segments*: every sequence of samples above and below the threshold and of
  missing ones over eight ticks, with a tolerance and a minimal run of two.
- *Correlation*: a window of one tick about edges one or more ticks apart, so
  that events are contested by neighbouring runs.
- *Attribution*: traces that step up, step up and down, and do not step, on a
  grid of four cells; other loads step where the devices do. On a grid that short
  a device must be contained in every cell.
- *OutageRun*: three workings give a return that does not hold, and one that
  does; `MAX_OUTAGE_S` is within reach of a dead circuit, and events stop early
  enough that each of the window, the deadline and the expiry ends some run.
  With two devices asked, or a TV beside the node, the run is out of TLC's
  time; the device asked stands for each of them, as a pass asks one at a time
  and the evidence of a device depends on its own requests alone. TVs are
  therefore in the model but not in the run.

`CHECK_DEADLOCK FALSE` is given where a bounded clock or a finished computation
stops: in the store, runtime, trip, absence and outage runs.

### What the properties say

*Assignments*: `RowsAreEarned`, the row against everything heard
(`LatestOfTheStrongest`) and, after a load, what it calls measured
(`MeasuredIsAProbe`); `ImplementsPlacement`, the refinement; `Disagreements`,
conflicts name other circuits, once each, and none is lost while there is room.
The last says nothing of rows after a circuit was renamed, see below.

*TripLedger*: `TripsEnd`, a trip recorded while its circuit was dead ends at
the circuit's next live reading if the watch saw it, and a circuit that has read
live since the start has no last trip without an end. `PlaceNeverWeakens`, no
order of writes takes back what one showed; that a key has one place is part of
`LedgerTypeOK`.

*Library*: `ShapesAreCompact`, against a definition of clusters that knows
nothing of merging; `NamesFollowTheirShapes`, no learn pass loses, duplicates or
misplaces a name; `AutolabelKeepsNames`.

*TripDetector*: `TimerCoversTheIncident`, `IncidentIsBounded`,
`EndIsTheLastReturn`, `NothingJudgedWasPruned` and, under fairness,
`IncidentCloses`; `ImplementsIncident`, the refinement: every step opens, ends,
takes back or closes an incident as `BreakerIncident` says, or nothing.

*OutageRun*: `AnsweredIsElsewhere` is what the thresholds `PROBE_DELAY_S`,
`METER_LAG_S` and the flickers of `_while_dead` are for. `HandOverIsComplete`:
an early hand-over left nothing open. `OneRequestAtATime`, also across a pass
that is replaced by another. `AlwaysADeadline` and `RunEnds`: a run that is
never finished would keep the watcher from following any later outage.
`HandOverIsFinal`: no timer, answer or state change of an ended run counts.

*ProbePause*: `WriteAhead`, what a probe switched off is on the stored list;
`UserOffStaysOff`, with one exception: what is on the list of a call that raised
and left it on record; `DeviceAsFound`; `EventuallyHandedBack`.

*Verdicts*: `WrongTakesCoincidences`, what must have happened for a measured
answer to be wrong; `QuietPanelIsMeasured`, the other way round.

*Absence*: `SilenceWasWatched`, an overdue verdict rests on watched time, as
long as nothing was stopped or the one stop was clean and nothing had been
unreadable before; `DeadIsNoticed`; `HeartbeatIsRecent`.

*SourceRenames*: `RenamesAreFollowed`, of every source configured or known to the
store, the switches and circuits of pairs among them, by the store, the entry
and the running instance. Excepted are sources renamed while nothing was
subscribed to their id or while an unload saved, and, for the entry, saved
options.

*Eligibility*: `EligibilityFollowsTheReadings`, a circuit that idles ends its
watch within an hour's query, and one that only tripped keeps it.

*Segments*, *Correlation*, *Attribution*: `RunsAreWhole`, `MatchesAreMost`,
`PlacedDrawIsCarried`.

Every module has one type invariant besides; those of a sum are checked as one.

## Fairness

- *TripDetector*, *OutageRun*: the clock advances and a due timer is run (the event
  loop does both). In `OutageRun` also: a request ends, by `asyncio.timeout` at
  the latest, the incident's timer is run, and the meter reports a changed
  value. Nothing makes the handler of a trip reach `run.decide`: the run must
  end without it.
- *ProbePause*: a call that was begun goes on, a start goes on, and Home
  Assistant is started again after a crash. Nothing makes the user or another
  caller do anything.
- The other modules have safety properties only. Nothing in the code bounds how
  long a service call, a query or a person takes, and the algorithms end because
  their loops do.

## The proofs

TLAPS checks these for every value of the constants that satisfies the named
assumptions of the modules. `SMT`, `Zenon` and `LS4` are the provers used. Each
theorem follows from an inductive invariant of its module, which says what the
property does not: why it still holds after the next step.

| module | theorems | argument |
|---|---|---|
| `StoreProofs`, rows | `RowIsLatestOfTheStrongest`, `MeasuredIsAlwaysAProbe`, `RowsAreAlwaysEarned`, `EvidenceIsNeverWeakened`, `PlacementIsImplemented`, `RowTypes`, `DisagreementsAreTrueAndKept` | `Inv`: a row is typed, holds a winner of what was heard about it, and is reserved for probes once loaded. The row alone does not say why it is the winner, so the invariant relates it to `heard`; a rename moves both. For the refinement each action maps to the abstract one of its name, or to none: a noted conflict changes no place, and a winner is as strong as the row it replaces. `ListInv` says of the conflicts that with the row they name all that was heard while there was room |
| `StoreProofs`, the store | `StoreTypes`, `StoreKeepsItsPromises` | by the sum's definition, in which the parts are independent, a behaviour of it is one of each part, and has what is proved of each |
| `TripLedgerProofs`, trips | `LedgerTypes`, `TripsComeToAnEnd`, `NoWriteWeakens` | `Past`: trips follow one another, and one without an end has a dark circuit, or one that has returned unseen; it holds of memory, of the file and of what each handler holds on to, so a stop or a crash changes nothing. `Shown`: a key has one place and casualties are suspected; `Merged` keeps this, and moves keys to stronger places only |
| `TripLedgerProofs`, incident | `EndAlwaysTellsTheCircuit`, `LedgerImplementsIncident` | an incident follows its circuit while it is open, so it has no end exactly while the circuit is dead; times are in order, so an end comes after the start. The ledger's steps are those of the incident: a stop, a crash or an outcome closes it, and what a circuit does unseen finds none |
| `LibraryProofs` | `LibraryTypes`, `CompleteLinkageIsCompact`, `LearningKeepsNames`, `AutolabelOverwritesNoName` | after `k` merges of `n` runs the groups are nonempty, cover the runs, hold runs that are alike, and either no two could be one or there are at most `n - k`; so merging `n` times is enough. The pairs that carry names are a matching of named shapes and new ones near them; with the shapes that are kept it relates the shapes of a name before and after one to one, so they are as many. The order by size gives each group one place, and with it its own number |
| `TripDetectorProofs`, detector | `DetectorTypes`, `TimerAlwaysCoversTheIncident`, `IncidentIsAlwaysBounded`, `EndIsAlwaysTheLastReturn`, `PruningIsInvisible`, `CasualtiesWereStable` | that the timer is no later than due is not inductive while an end can be taken back; with the bound on `end` and the lateness of the timer it is. The end is tied to the log by what its circuit last read. For the pruning the invariant bounds how far back each window looks, and says that of each log one reading from before that is kept |
| `TripDetectorProofs`, refinement | `DetectorImplementsIncident` | a report of the old value that is fed before a change does not alter what the log reads last, so one call of the handler is one reading or, unreadable, none; a fall from above the floor means the circuit did not read dead. The incident's circuit has reported when it opened (`Opened`), so each later reading of it comes later |
| `OutageRunProofs` | `OutageTypes`, `ARunAlwaysHasADeadline`, `OneRequestIsUnderWay`, `WhatIsHandedOverIsFinal`, `NoCasualtyIsElsewhere`, `EarlyHandOverIsComplete` | `RunOK` ties the tasks and the timers to the circuit: a pass of the dead circuit and a pass of its return exist only while the circuit is dead, or back, and the run goes on. Exclusion and finality follow, since an ended run has no task left. `AskInv` ties each request, done or under way, to the history of the power: an answer from a device of the circuit lies near a moment with power, and `_while_dead` discounts what lies near one |
| `ProbePauseProofs` | `ProbeTypes`, `UserOffAlwaysStaysOff`, `PauseListIsWrittenAhead`, `StartupHandsEverythingBack`, `DevicesAreHandedBack` | the invariant says what is on the lists, and where the device stands, at each program counter. What is on the list of a store object in use, or of the file, is held by a running call or setup or was left there by a call that raised; nothing the user switched off meanwhile is on a list something is to be switched on from, but for the latter. For the two that follow, the one store object holds the list of the one call that runs, or what setup has yet to hand back |
| `RuntimeProofs`, absence | `AbsenceTypes`, `OverdueWasWatched`, `StoppedAppliancesAreNoticed`, `CrashLosesLittle` | blind and watched time together are the time since a sighting, up to what a restart forgets: at least it for the first theorem, at most for the second. The third ties a save that is due to the poll that asked for it |
| `RuntimeProofs`, the whole | `RuntimeTypes`, `RuntimeKeepsItsPromises` | as for the store; of the history, the series and the devices, which are set up only in the behaviours about them, the others have none, and they keep their types all the same |
| `RuntimeProofs`, sources | `SourceTypes`, `SourcesAreFollowed` | each id of the entry that is behind is followed by a walk through the handlers under way, in the order they will write, to where the registry has it; so none is left behind when they are done. What a late handler will write to the file is up to date already. The subscription holds what the running configuration names, and no handler waits for an id that is still in use |
| `PanelProofs`, segments | `CuttingTypes`, `SegmentsAreWhole` | what the loop has found is the set of maximal runs of the samples it has seen, and the run it holds open is the next |
| `PanelProofs`, verdicts | `VerdictsTypes`, `WrongMeasurementsAreCoincidences`, `QuietPanelsAreMeasured` | each round's answer is right or rests on another load that stepped; a quiet panel leaves one candidate to rank first |
| `PanelProofs`, eligibility | `EligibilityTypes`, `EligibilityIsJustified` | an hour is never known lower than it was read, and one that was over at the last query that succeeded is known as it was read; so the judgement in force is right about the hours it looks at, with the trips that excuse them |
| `PanelProofs`, attribution | `AttributionTypes`, `PlacedDrawsAreCarried` | the cells of a circuit in which what was placed and what is left exceed what was measured, margins apart, are at most the share containment lets pass for each device placed; a device that is placed adds only the cells in which it does not fit |
| `PanelProofs`, correlation | `CorrelationTypes`, `EarliestFirstMatchesMost` | the pairs found are a matching, and are covered by as many edges and events as there are pairs, so no matching has more |

Theorems that need a hypothesis besides the modules' assumptions:

- `OverdueWasWatched`: no two appliances share a circuit. With two it is false,
  because a sighting of one clears the blind time of both
  (`coordinator.py:488`, among the hazards).
- `PruningIsInvisible`, `CasualtiesWereStable`: a readable circuit reports at least as often as the
  slack of `_HORIZON_S` allows (`MetersReport`). Without that they are false, see
  `TripSilentCircuit`; `TripJudged` has the bound with equality.
- `PauseListIsWrittenAhead`, `StartupHandsEverythingBack`: no reload, no overlap
  (false with it, see `ProbeOverlapCrash`), and no failure but the probe's own.
- `DevicesAreHandedBack`: no two calls for one device at once (false otherwise,
  see `ProbeSameDevice`), and the call that switches it back does not raise.
- `QuietPanelsAreMeasured`: the device's draw stands out of the noise.
- `RuntimeKeepsItsPromises`: those of `OverdueWasWatched` and
  `QuietPanelsAreMeasured`.

The assumptions on constants are few: delays are numbers, and those that keep
two events apart (`PROBE_DELAY_S`, `METER_LAG_S`) are not zero; sets that are
counted or summed over are finite; "none" is not a value.

Some of these are inductions over data: a fold, a recursive function or a list of
any length. The library's induction theorems cannot be cited, as they take an
operator as a parameter, so the proofs take a smallest counterexample instead:
`LeastNumber` among the numbers, `MinimalSet` among the finite sets, from the
well-foundedness of either. Folds of the community modules are expanded to their
definitions.

Only model-checked is liveness (`IncidentCloses`, `EventuallyHandedBack`,
`RunEnds`): fairness and `ENABLED` are out of the prover's reach. Every other
property of a run that passes is a theorem, the two refinements and the type
invariants of the sums included.

## What the code does not guarantee

Runs that end in a counterexample, each against a statement of the repository
quoted in `PROJECT.json`:

- `TripSilentCircuit`: until an incident opens, records are kept for `_HORIZON_S`,
  540 s, and the incident looks back 300 s (`STABLE_S`) from its circuit's last
  live reading. With a meter that was silent for more than the difference, 240 s
  (`CAP_S`, `GRACE_S`, `TOGETHER_S` and the slack), the records that show a device
  unavailable in the stable period are gone, and the device is counted. In the
  run the slack is nothing and the three delays are together three ticks.
- `ProbeOverlapCrash`: a second `verify_circuit` call replaces the stored pause
  list of the first; after a crash the first one's automations stay off. A
  later call, made after one that raised and left its list on record, replaces
  that list in the same way.
- `ProbeSameDevice`: two calls for one device at once leave it switched the
  wrong way.
- `ProbeSetupFails`: restores are sent at setup without waiting, so the record
  is cleared although one failed.
- `AbsenceBlindRestart`: blind time is only in memory; after a restart it counts
  as watched silence.

Met while modelling, without a run of their own; most are among the hazards:

- a circuit rename leaves its old id in the conflicts kept on rows
  (`store.py:429-431`);
- the pausing is outside the `try` block: a call in which a `turn_off` raises
  ends with its list on record, and so does one whose `finally` block raises
  (`services.py:888-896`, `982-991`). What the user then switches off, with no
  probe running, the next setup turns on, for which a reload is enough;
  `store.py:388-390` calls such a record harmless. It is the exception of
  `UserOffStaysOff`;
- a probe that outlives a reload of the entry records its verdict in a store
  object that is no longer read, and saves the whole of it over the file of the
  one in use (`services.py:797`, `1007`);
- a delayed save is postponed by every sighting and may never be written while
  the house is busy (`store.py:370`);
- a sighting of one appliance resets the blind time of the others on its circuit
  (`coordinator.py:488`);
- a run is not told that its circuit died after the incident was closed
  (`trips.py:418`);
- a circuit that is live again when the watch starts leaves its trip without an
  end until it reports again, and with that report's time; a trip recorded
  before that takes the earlier one's place in `_open_trips` for good
  (`trips.py:162`);
- the rows a device's key is chosen by are read before the awaits
  (`trips.py:561`): "so the device keeps one" (`546`) fails when another part
  writes a row for another of its entities meanwhile, and the places
  `merge_outage` keeps apart (`outage.py:272`) are those of a key, which a
  device may change between two writes;
- outage evidence for a trip whose circuit is renamed during the write is
  dropped (`trips.py:617`, `660`);
- `autolabel` looks for circuits with "exactly ONE learned shape" before its
  first await; a shape learned while it waits may be named although it is one
  of several (`services.py:1265`);
- a label is given by the name a report showed: after another learn pass the
  same `unnamed_N` is another shape (`store.py:470`);
- a rename is written to the entry's data, over which its options take
  precedence, and one made while nothing is subscribed is missed
  (`__init__.py:125-181`);
- a rename of a device that is subscribed to because the store has it assigned
  changes no entry, so nothing reloads and its next rename is missed:
  "updating the entry fires the reload listener, which rebuilds everything -
  including this subscription" (`__init__.py:170`) does not come about;
- the subscription is undone after the unload's save (`__init__.py:211-224`): a
  rename during it is written to the old store object behind that save, and the
  next instance may have loaded the file before, with the old id. Both are
  exceptions of `RenamesAreFollowed` (`missed`, `raced`);
- `remove: true` "takes every label back off" (`services.py:1322`) only those
  the current assignments and titles name;
- a device metered in one of several probes is graded as if metered in all
  (`services.py:997`);
- after a restart an instance does not know the current hour's lows until the
  next query after it, and meanwhile a circuit that idles may be watched
  (`trips.py:200`);
- a run of `segment` spans a hole in the history however long it is
  (`analysis.py:259`);
- the load of a device is checked once, before a probe's awaits
  (`services.py:844`).

## Not modelled

- `virtual.py` is a stateless conversion of states into watts. `on_threshold`,
  `cadence` and `parse_pairs` are formulas over one list, and so are the
  confidence of a fingerprint's match, and `role`, `fit` and `step_at` of
  `correlate.py`, which phrase a match. What chance would match is statistics:
  an input of `Correlation`.
- `resample` puts traces on one grid, `discover` in `probes.py` picks the
  targets of a run from the registry: inputs of `Attribution` and `OutageRun`.
- `combine` of `verify.py` and `walk` of `breaker.py` are called by their tests
  only.
- `apply_circuit_labels` writes Home Assistant's label registry and keeps
  nothing; it is looked at under "What the code does not guarantee".
- Entities, dashboard, diagnostics and the pages of the configuration flow have
  no state beyond what they show. The tools in `tools/` are not part of the
  running system.

## Plan

The models cover what keeps state, and every property that a run checks, but for
liveness, is a theorem about its module, with the hypotheses above. What could
follow:

1. the hazards in `PROJECT.json` that no property covers: their notes say what
   each would take. Most need a module to be opened to another, as `Verdicts` to
   `ProbePause` for the load that is checked before a probe's awaits, or two
   appliances on a circuit in `Absence`;
2. the incident of `OutageRun`, whose falls and returns are its own, as a
   `BreakerIncident` with the meter's delay between;
3. a refinement for the trips, as `Placement` is for the rows: what a reader of a
   trip may rely on while its evidence is written.
