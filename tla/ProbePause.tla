----------------------------- MODULE ProbePause -----------------------------
(***************************************************************************)
(* The verify_circuit service (services.py) and the setup of the entry     *)
(* (__init__.py): a probe switches a device back and forth, with the       *)
(* automations that watch it switched off meanwhile, and hands both back.  *)
(* The list of what it switched off is stored first, so that the next      *)
(* start can hand the automations back if the probe died.                  *)
(*                                                                         *)
(* Every await is a step boundary: other probes, the user, a reload of the *)
(* entry (which replaces the store object while running services keep      *)
(* theirs) and a crash come between.                                       *)
(*                                                                         *)
(* Abstracted: the measurement, except that it ends in a verdict or in     *)
(* none; the order of the pause list; an exception and a cancelled call    *)
(* are both "fails".  A stored save is one step: it writes the whole       *)
(* object, and Home Assistant writes one at a time.                        *)
(*                                                                         *)
(* A call that raises outside its finally block, or in it, is `left`: it   *)
(* has ended and its list stays in the store.                              *)
(*                                                                         *)
(* `borrowed`, `userOff`, `found` and `crashes` are history variables.     *)
(***************************************************************************)
EXTENDS Integers, FiniteSets

CONSTANTS
  Probes,       \* calls of the service; each runs once
  Devices, Automations,
  Target,       \* the device each call probes
  Watching,     \* the automations it may pause if they are on
  ROUNDS,       \* switchings per call
  MayOverlap,   \* may a call be made while another is running?
  Failures,     \* the kinds of calls to Home Assistant that may fail
  MaxCrashes, MaxReloads \* bounds of the model

ASSUME ProbePauseAssumption ==
  /\ Target \in [Probes -> Devices]
  /\ Watching \in [Probes -> SUBSET Automations]
  /\ ROUNDS \in Nat \ {0}
  /\ MayOverlap \in BOOLEAN
  /\ Failures \subseteq {"pause", "probe", "device", "automation", "setup"}
  /\ MaxCrashes \in Nat /\ MaxReloads \in Nat

VARIABLES
  phase,     \* the entry: up, setup, restored or down
  gen,       \* which store object the entry uses
  stores,    \* the store objects: pause list and recorded verdicts
  disk,      \* the file
  enabled,   \* automations that are on
  device,    \* the devices that are on
  pc,        \* where each call is
  using,     \* the store object it uses
  prior,     \* was its device on when it began?
  paused,    \* its pause list
  todo,      \* the part of it still to switch
  rounds,    \* switchings left
  borrowed,  \* automations off because a call switched them off
  userOff,   \* automations the user switched off while nothing held them
  found,     \* the devices that were on when last left to the user
  crashes

probeVars == <<pc, using, prior, paused, todo, rounds>>
storage == <<gen, stores, disk>>
house == <<enabled, device, borrowed, userOff, found>>
vars == <<phase, storage, house, probeVars, crashes>>

Generations == 1 .. MaxReloads + 1

\* A call that has read its device and not yet returned.
ActiveAt == {"asking", "pausing", "ready", "switched", "restoring", "raising",
             "enabling", "failing", "grading"}
Active(p) == pc[p] \in ActiveAt

\* The automations a running call or the setup under way is to hand back.
Held ==
  (UNION {paused[p] : p \in {q \in Probes : pc[q] \in ActiveAt \ {"grading"}}})
    \cup (IF phase = "up" THEN {} ELSE stores[gen].paused)

\* Those on the list of a call that raised before it cleared the list.
LeftOnRecord == UNION {paused[p] : p \in {q \in Probes : pc[q] = "left"}}

\* self._paused or the assignments are changed and everything is saved.
SaveStore(g, content) ==
  /\ stores' = [stores EXCEPT ![g] = content]
  /\ disk' = content

-----------------------------------------------------------------------------
Init ==
  /\ phase = "up" /\ gen = 1
  /\ disk = [paused |-> {}, placed |-> {}]
  /\ stores = [g \in Generations |-> disk]
  /\ enabled \in SUBSET Automations
  /\ device \in SUBSET Devices
  /\ pc = [p \in Probes |-> "idle"]
  /\ using = [p \in Probes |-> 1]
  /\ prior = [p \in Probes |-> FALSE]
  /\ paused = [p \in Probes |-> {}]
  /\ todo = [p \in Probes |-> {}]
  /\ rounds = [p \in Probes |-> ROUNDS]
  /\ borrowed = {}
  /\ userOff = Automations \ enabled
  /\ found = device
  /\ crashes = 0

-----------------------------------------------------------------------------
(* verify_circuit.                                                         *)

\* Mutant: _pausable lists the automations that are off too.
PausableAll(p) == Watching[p]

Pausable(p) == Watching[p] \cap enabled

\* The checks up to the first await: prior state, pause list, the store.
Begin(p, pause) ==
  /\ phase = "up" /\ pc[p] = "idle"
  /\ MayOverlap \/ \A q \in Probes : ~Active(q)
  /\ pc' = [pc EXCEPT ![p] = IF pause THEN "asking" ELSE "ready"]
  /\ using' = [using EXCEPT ![p] = gen]
  /\ prior' = [prior EXCEPT ![p] = Target[p] \in device]
  /\ paused' = [paused EXCEPT ![p] = IF pause THEN Pausable(p) ELSE {}]
  /\ UNCHANGED <<phase, storage, house, todo, rounds, crashes>>

\* The user may control them all: async_record_paused, before any turn_off.
Record(p) ==
  /\ pc[p] = "asking"
  /\ SaveStore(using[p], [stores[using[p]] EXCEPT !.paused = paused[p]])
  /\ pc' = [pc EXCEPT ![p] = "pausing"]
  /\ todo' = [todo EXCEPT ![p] = paused[p]]
  /\ UNCHANGED <<phase, gen, house, using, prior, paused, rounds, crashes>>

\* automation.turn_off for the next one on the list.
Pause(p, a) ==
  /\ pc[p] = "pausing" /\ a \in todo[p]
  /\ enabled' = enabled \ {a}
  /\ borrowed' = borrowed \cup ({a} \cap enabled)
  /\ todo' = [todo EXCEPT ![p] = @ \ {a}]
  /\ UNCHANGED <<phase, storage, device, userOff, found, pc, using, prior, paused,
                 rounds, crashes>>

\* One of them raises: this is outside the try, so nothing is handed back and the
\* list stays on record.
PauseFails(p) ==
  /\ "pause" \in Failures
  /\ pc[p] = "pausing" /\ todo[p] # {}
  /\ pc' = [pc EXCEPT ![p] = "left"]
  /\ UNCHANGED <<phase, storage, house, using, prior, paused, todo, rounds, crashes>>

Ready(p) == pc[p] = "ready" \/ (pc[p] = "pausing" /\ todo[p] = {})

\* The device in the state `on`.
SwitchDevice(p, on) ==
  device' = IF on THEN device \cup {Target[p]} ELSE device \ {Target[p]}

\* The device is switched away from the state it was found in.
SwitchAway(p) ==
  /\ Ready(p)
  /\ SwitchDevice(p, ~prior[p])
  /\ pc' = [pc EXCEPT ![p] = "switched"]
  /\ UNCHANGED <<phase, storage, enabled, borrowed, userOff, found, using, prior, paused,
                 todo, rounds, crashes>>

\* Mutant: one round too many.
SwitchBackOnceMore(p) ==
  /\ pc[p] = "switched"
  /\ SwitchDevice(p, prior[p])
  /\ rounds' = [rounds EXCEPT ![p] = @ - 1]
  /\ pc' = [pc EXCEPT ![p] = IF rounds[p] = 0 THEN "restoring" ELSE "ready"]
  /\ UNCHANGED <<phase, storage, enabled, borrowed, userOff, found, using, prior, paused,
                 todo, crashes>>

\* And back; after the last round the finally block begins.
SwitchBack(p) ==
  /\ pc[p] = "switched"
  /\ SwitchDevice(p, prior[p])
  /\ rounds' = [rounds EXCEPT ![p] = @ - 1]
  /\ pc' = [pc EXCEPT ![p] = IF rounds[p] = 1 THEN "restoring" ELSE "ready"]
  /\ UNCHANGED <<phase, storage, enabled, borrowed, userOff, found, using, prior, paused,
                 todo, crashes>>

\* Mutant: the restore is on the happy path.
ProbeFailsOut(p) ==
  /\ "probe" \in Failures
  /\ Ready(p) \/ pc[p] = "switched"
  /\ pc' = [pc EXCEPT ![p] = "gone"]
  /\ UNCHANGED <<phase, storage, house, using, prior, paused, todo, rounds, crashes>>

\* A sample or a switching raises: the finally block begins.
ProbeFails(p) ==
  /\ "probe" \in Failures
  /\ Ready(p) \/ pc[p] = "switched"
  /\ pc' = [pc EXCEPT ![p] = "raising"]
  /\ UNCHANGED <<phase, storage, house, using, prior, paused, todo, rounds, crashes>>

\* finally: first the device, whatever its state.
RestoreDevice(p) ==
  /\ pc[p] \in {"restoring", "raising"}
  /\ SwitchDevice(p, prior[p])
  /\ todo' = [todo EXCEPT ![p] = paused[p]]
  /\ pc' = [pc EXCEPT ![p] = IF @ = "restoring" THEN "enabling" ELSE "failing"]
  /\ UNCHANGED <<phase, storage, enabled, borrowed, userOff, found, using, prior, paused,
                 rounds, crashes>>

\* Then the automations, one by one.
Enable(p, a) ==
  /\ pc[p] \in {"enabling", "failing"} /\ a \in todo[p]
  /\ enabled' = enabled \cup {a}
  /\ borrowed' = borrowed \ {a}
  /\ todo' = [todo EXCEPT ![p] = @ \ {a}]
  /\ UNCHANGED <<phase, storage, device, userOff, found, pc, using, prior, paused,
                 rounds, crashes>>

\* A call of the finally block raises: the rest of it is skipped, the clearing too.
RestoreFails(p) ==
  /\ \/ "device" \in Failures /\ pc[p] \in {"restoring", "raising"}
     \/ "automation" \in Failures /\ pc[p] \in {"enabling", "failing"} /\ todo[p] # {}
  /\ pc' = [pc EXCEPT ![p] = "left"]
  /\ UNCHANGED <<phase, storage, house, using, prior, paused, todo, rounds, crashes>>

\* Mutant: the record is cleared when the finally block begins.
ClearEarly(p) ==
  /\ pc[p] \in {"enabling", "failing"}
  /\ IF paused[p] # {}
     THEN SaveStore(using[p], [stores[using[p]] EXCEPT !.paused = {}])
     ELSE UNCHANGED <<stores, disk>>
  /\ pc' = IF todo[p] # {} THEN pc
           ELSE [pc EXCEPT ![p] = IF @ = "enabling" THEN "grading" ELSE "gone"]
  /\ UNCHANGED <<phase, gen, house, using, prior, paused, todo, rounds, crashes>>

\* Last the record, if there was anything on it; an exception goes on.
Clear(p) ==
  /\ pc[p] \in {"enabling", "failing"} /\ todo[p] = {}
  /\ IF paused[p] # {}
     THEN SaveStore(using[p], [stores[using[p]] EXCEPT !.paused = {}])
     ELSE UNCHANGED <<stores, disk>>
  /\ pc' = [pc EXCEPT ![p] = IF @ = "enabling" THEN "grading" ELSE "gone"]
  /\ UNCHANGED <<phase, gen, house, using, prior, paused, todo, rounds, crashes>>

\* The verdict is recorded, if there is one.
Grade(p, verdict) ==
  /\ pc[p] = "grading"
  /\ IF verdict
     THEN SaveStore(using[p], [stores[using[p]] EXCEPT !.placed = @ \cup {p}])
     ELSE UNCHANGED <<stores, disk>>
  /\ pc' = [pc EXCEPT ![p] = IF verdict THEN "placed" ELSE "gone"]
  /\ UNCHANGED <<phase, gen, house, using, prior, paused, todo, rounds, crashes>>

-----------------------------------------------------------------------------
(* The entry and the rest of the house.                                    *)

\* Any other save of the store in use, of which a poll makes many.
OtherSave ==
  /\ phase = "up"
  /\ disk' = stores[gen]
  /\ UNCHANGED <<phase, gen, stores, house, probeVars, crashes>>

\* async_unload_entry saves, async_setup_entry loads; calls keep running.
Reload ==
  /\ phase = "up" /\ gen <= MaxReloads
  /\ phase' = "setup"
  /\ gen' = gen + 1
  /\ disk' = stores[gen]
  /\ stores' = [stores EXCEPT ![gen + 1] = stores[gen]]
  /\ UNCHANGED <<house, probeVars, crashes>>

\* The process dies, and every call in it.
Crash ==
  /\ phase # "down" /\ crashes < MaxCrashes
  /\ phase' = "down"
  /\ crashes' = crashes + 1
  /\ pc' = [p \in Probes |-> IF Active(p) THEN "gone" ELSE pc[p]]
  /\ UNCHANGED <<storage, house, using, prior, paused, todo, rounds>>

\* Home Assistant starts and the store is loaded.
Start ==
  /\ phase = "down"
  /\ phase' = "setup"
  /\ stores' = [stores EXCEPT ![gen] = disk]
  /\ UNCHANGED <<gen, disk, house, probeVars, crashes>>

\* Setup sends a turn_on for everything recorded, without waiting: one that
\* fails is logged by Home Assistant.
SendRestores(failed) ==
  LET on == stores[gen].paused \ failed
  IN  /\ phase = "setup"
      /\ failed = {} \/ "setup" \in Failures
      /\ enabled' = enabled \cup on
      /\ borrowed' = borrowed \ on
      /\ phase' = "restored"
      /\ UNCHANGED <<storage, device, userOff, found, probeVars, crashes>>

\* Then the record is cleared, and the entry is up.
ClearOrphans ==
  /\ phase = "restored"
  /\ phase' = "up"
  /\ IF stores[gen].paused # {}
     THEN SaveStore(gen, [stores[gen] EXCEPT !.paused = {}])
     ELSE UNCHANGED <<stores, disk>>
  /\ UNCHANGED <<gen, house, probeVars, crashes>>

\* The user switches an automation, whatever a probe is doing; there are none to
\* switch while Home Assistant is down.
UserSwitchesAutomation(a) ==
  /\ phase # "down"
  /\ IF a \in enabled
     THEN /\ enabled' = enabled \ {a}
          /\ userOff' = IF a \in Held THEN userOff ELSE userOff \cup {a}
     ELSE /\ enabled' = enabled \cup {a}
          /\ userOff' = userOff \ {a}
  /\ borrowed' = borrowed \ {a}
  /\ UNCHANGED <<phase, storage, device, found, probeVars, crashes>>

\* The user switches a device that is not being probed.
UserSwitchesDevice(d) ==
  /\ \A p \in Probes : Active(p) => Target[p] # d
  /\ device' = (device \ {d}) \cup ({d} \ device)
  /\ found' = (found \ {d}) \cup ({d} \ device)
  /\ UNCHANGED <<phase, storage, enabled, borrowed, userOff, probeVars, crashes>>

ProbeStep(p) ==
  \/ Record(p) \/ PauseFails(p)
  \/ SwitchAway(p) \/ SwitchBack(p) \/ ProbeFails(p)
  \/ RestoreDevice(p) \/ RestoreFails(p) \/ Clear(p)
  \/ \E a \in Automations : Pause(p, a) \/ Enable(p, a)
  \/ \E verdict \in BOOLEAN : Grade(p, verdict)

SetupStep ==
  \/ Start
  \/ \E failed \in SUBSET Automations : SendRestores(failed)
  \/ ClearOrphans

Next ==
  \/ \E p \in Probes, pause \in BOOLEAN : Begin(p, pause)
  \/ \E p \in Probes : ProbeStep(p)
  \/ SetupStep
  \/ OtherSave \/ Reload \/ Crash
  \/ \E a \in Automations : UserSwitchesAutomation(a)
  \/ \E d \in Devices : UserSwitchesDevice(d)

\* A call that is running goes on, and Home Assistant is started again.
Fairness ==
  /\ \A p \in Probes : WF_vars(ProbeStep(p))
  /\ WF_vars(SetupStep)

Spec == Init /\ [][Next]_vars /\ Fairness

-----------------------------------------------------------------------------
Content == [paused : SUBSET Automations, placed : SUBSET Probes]

TypeOK ==
  /\ phase \in {"up", "setup", "restored", "down"}
  /\ gen \in Generations
  /\ stores \in [Generations -> Content]
  /\ disk \in Content
  /\ enabled \subseteq Automations
  /\ device \subseteq Devices
  /\ pc \in [Probes -> ActiveAt \cup {"idle", "placed", "left", "gone"}]
  /\ using \in [Probes -> Generations]
  /\ prior \in [Probes -> BOOLEAN]
  /\ paused \in [Probes -> SUBSET Automations]
  /\ todo \in [Probes -> SUBSET Automations]
  /\ rounds \in [Probes -> 0 .. ROUNDS]
  /\ borrowed \subseteq Automations
  /\ userOff \subseteq Automations
  /\ found \subseteq Devices
  /\ crashes \in 0 .. MaxCrashes

(* Whatever a probe has switched off is on the stored pause list: a crash  *)
(* at any moment, in the middle of a restore included, strands nothing.    *)
WriteAhead == borrowed \subseteq disk.paused

(* An automation the user switched off while no call and no setup held it  *)
(* stays off, however the calls that follow overlap, raise or die: nothing *)
(* turns on what it did not turn off.  The exception is what is on the     *)
(* list of a call that raised and left it on record (services.py:888-896,  *)
(* 982-991): the next setup turns that on, although store.py:388-390 calls *)
(* such a record harmless.                                                 *)
UserOffStaysOff ==
  (userOff \ LeftOnRecord) \cap enabled = {} /\ borrowed \cap enabled = {}

(* A device nobody is probing is as its user left it, whatever raised in   *)
(* the middle (services.py:972; README.md:450, "always restores its prior  *)
(* state").                                                                *)
DeviceAsFound ==
  crashes = 0 =>
    \A d \in Devices : (\A p \in Probes : Active(p) => Target[p] # d)
                         => (d \in device <=> d \in found)

(* README.md:408: "restored at the next startup if a probe dies mid-run".  *)
(* An entry that has come up, with no call running, has left nothing off.  *)
StartupRestores ==
  phase = "up" /\ (\A p \in Probes : ~Active(p)) => borrowed = {}

(* store.py:406: "a failed restore keeps the record for the next attempt". *)
FailedRestoreIsKept ==
  [][\A a \in borrowed : a \in disk.paused /\ a \in borrowed' => a \in disk'.paused]_vars

(* Whatever a probe switches off is switched on again, by the probe, by    *)
(* the next startup or by the user.                                        *)
EventuallyHandedBack == \A a \in Automations : a \in borrowed ~> a \notin borrowed
=============================================================================
