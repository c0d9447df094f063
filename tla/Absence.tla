------------------------------ MODULE Absence ------------------------------
(***************************************************************************)
(* Absence detection: what the coordinator (coordinator.py) remembers of   *)
(* when each named appliance last ran and of how long its circuit could    *)
(* not be watched, what of that the store (store.py) puts on disk, and     *)
(* when analysis.absence calls an appliance overdue.                       *)
(*                                                                         *)
(* Time is counted in polls (POLL_SECONDS): a tick is a poll, or a poll's  *)
(* length without Home Assistant.  One poll is one action, as the code has *)
(* no await in it before its last call.                                    *)
(*                                                                         *)
(* Abstracted: matching.  A poll finds each readable circuit idle, or      *)
(* running one of its named appliances ("starting" and "unknown" count as  *)
(* idle, which is what _note_seen does with them).                         *)
(* External, as store.py uses it: Home Assistant's delayed save, which     *)
(* each call postpones, and which a shutdown performs at once.             *)
(*                                                                         *)
(* `watched`, `polledAt`, `startedAt`, `obscured`, `restarts` and          *)
(* `crashed` are history variables.                                        *)
(***************************************************************************)
EXTENDS Integers, FiniteSets

CONSTANTS
  Circuits, Appliances,
  CircuitOf,     \* the circuit each appliance was learned on
  LIMIT,         \* patience times its p90 gap
  HEARTBEAT,     \* HEARTBEAT_SECONDS
  SAVE_DELAY,    \* the 60 s of async_delay_save
  SHORT_GAP,     \* a restart as short as this is not counted as blind
  MayBlind,      \* may a circuit be unreadable at a poll?
  Stops,         \* the ways the coordinator may stop
  Never,         \* no time
  LastTick, MaxRestarts \* bounds of the model

ASSUME AbsenceAssumption ==
  /\ CircuitOf \in [Appliances -> Circuits]
  /\ {LIMIT, HEARTBEAT, LastTick, MaxRestarts} \subseteq Nat
  /\ SHORT_GAP \in Nat \ {0}
  /\ SAVE_DELAY \in 1 .. HEARTBEAT - 1
  /\ MayBlind \in BOOLEAN
  /\ Stops \subseteq {"reload", "shutdown", "crash"}
  /\ Never \notin Int

VARIABLES
  now,
  phase,       \* down; new until its first poll; then up
  memory,      \* store._last_seen and ._last_poll
  disk,        \* the same in the file
  saveAt,      \* when the delayed save is due
  lastBeat,    \* coordinator._last_heartbeat
  blind,       \* coordinator._blind_s
  verdict,     \* coordinator.data["absence_detail"]
  watched,     \* polls' time an appliance's circuit was watched since it ran
  polledAt,    \* the last poll
  startedAt,   \* the first poll of this run
  obscured,    \* was a circuit ever unreadable at a poll?
  restarts, crashed

vars == <<now, phase, memory, disk, saveAt, lastBeat, blind, verdict,
          watched, polledAt, startedAt, obscured, restarts, crashed>>

Times == 0 .. LastTick

-----------------------------------------------------------------------------
Init ==
  /\ now = 0
  /\ phase = "new"
  /\ memory = [seen |-> [a \in Appliances |-> Never], poll |-> Never]
  /\ disk = memory
  /\ saveAt = Never
  /\ lastBeat = Never
  /\ blind = [c \in Circuits |-> 0]
  /\ verdict = [a \in Appliances |-> "none"]
  /\ watched = [a \in Appliances |-> 0]
  /\ polledAt = 0
  /\ startedAt = 0
  /\ obscured = FALSE
  /\ restarts = 0
  /\ crashed = FALSE

\* Mutant: the time Home Assistant was down is not looked at.
GapNever == 0

\* The time since the recorded poll, resolved once, at the first poll.
Gap ==
  IF phase = "new" /\ memory.poll # Never /\ now + 1 - memory.poll > SHORT_GAP
  THEN now + 1 - memory.poll ELSE 0

\* Mutant: a sighting leaves the blind time.
BlindUnreset(readable, running) ==
  [c \in Circuits |-> blind[c] + Gap + IF c \in readable THEN 0 ELSE 1]

\* _accrue_blind_time, then the reset of _note_seen.
Blind(readable, running) ==
  [c \in Circuits |->
     IF c \in {CircuitOf[a] : a \in running} THEN 0
     ELSE blind[c] + Gap + IF c \in readable THEN 0 ELSE 1]

\* analysis.absence of an appliance at the poll now + 1.
Judge(seen, b) ==
  LET silent == now + 1 - seen
  IN  IF seen = Never THEN "none"
      ELSE IF 2 * b > silent THEN "unknown"
      ELSE IF silent - b > LIMIT THEN "overdue" ELSE "ok"

\* Mutant: the heartbeat is only stored with a sighting.
BeatOnSighting(sighted) == sighted

\* async_persist_seen: is something stored at the poll now + 1?
Beat(sighted) ==
  sighted \/ lastBeat = Never \/ now + 1 - lastBeat >= HEARTBEAT

\* _async_update_data with these circuits readable and appliances running.
Poll(readable, running) ==
  LET seen == [a \in Appliances |-> IF a \in running THEN now + 1 ELSE memory.seen[a]]
      b    == Blind(readable, running)
      gap  == now + 1 - polledAt
  IN  /\ phase # "down" /\ now < LastTick
      /\ saveAt # Never => now < saveAt
      /\ MayBlind \/ readable = Circuits
      /\ \A a \in running : CircuitOf[a] \in readable
      /\ \A a1, a2 \in running : CircuitOf[a1] = CircuitOf[a2] => a1 = a2
      /\ now' = now + 1
      /\ phase' = "up"
      /\ blind' = b
      /\ verdict' = [a \in Appliances |-> Judge(seen[a], b[CircuitOf[a]])]
      /\ IF Beat(running # {})
         THEN /\ memory' = [seen |-> seen, poll |-> now + 1]
              /\ lastBeat' = now + 1
              /\ saveAt' = now + 1 + SAVE_DELAY
         ELSE UNCHANGED <<memory, lastBeat, saveAt>>
      /\ watched' = [a \in Appliances |->
                       IF a \in running THEN 0
                       ELSE IF gap > SHORT_GAP THEN watched[a]
                       ELSE watched[a] + gap
                              - IF CircuitOf[a] \in readable THEN 0 ELSE 1]
      /\ polledAt' = now + 1
      /\ obscured' = (obscured \/ readable # Circuits)
      /\ startedAt' = IF phase = "new" THEN now + 1 ELSE startedAt
      /\ UNCHANGED <<disk, restarts, crashed>>

-----------------------------------------------------------------------------
(* What reaches the disk.                                                  *)

\* The delayed save, due between two polls, and any save in between.
Save ==
  /\ phase # "down"
  /\ disk' = memory
  /\ saveAt' = Never
  /\ UNCHANGED <<now, phase, memory, lastBeat, blind, verdict, watched, polledAt,
                 startedAt, obscured, restarts, crashed>>

Stopped ==
  /\ phase' = "down"
  /\ saveAt' = Never
  /\ restarts < MaxRestarts
  /\ restarts' = restarts + 1
  /\ UNCHANGED <<now, lastBeat, blind, verdict, watched, polledAt, startedAt,
                 obscured>>

\* async_unload_entry: the heartbeat is stamped and saved.
Unload ==
  /\ "reload" \in Stops /\ phase = "up"
  /\ Stopped
  /\ memory' = [memory EXCEPT !.poll = now]
  /\ disk' = memory'
  /\ UNCHANGED crashed

\* Home Assistant stops: only a save that is due is made.
Shutdown ==
  /\ "shutdown" \in Stops /\ phase = "up"
  /\ Stopped
  /\ disk' = IF saveAt = Never THEN disk ELSE memory
  /\ UNCHANGED <<memory, crashed>>

Crash ==
  /\ "crash" \in Stops /\ phase = "up"
  /\ Stopped
  /\ crashed' = TRUE
  /\ UNCHANGED <<memory, disk>>

\* Time passes without Home Assistant.
Down ==
  /\ phase = "down" /\ now < LastTick
  /\ now' = now + 1
  /\ UNCHANGED <<phase, memory, disk, saveAt, lastBeat, blind, verdict, watched,
                 polledAt, startedAt, obscured, restarts, crashed>>

\* Mutant: the file's sightings are not read.
StartWithoutSeen ==
  /\ phase = "down"
  /\ phase' = "new"
  /\ memory' = [disk EXCEPT !.seen = [a \in {} |-> Never]]
  /\ lastBeat' = Never
  /\ blind' = [c \in Circuits |-> 0]
  /\ verdict' = [a \in Appliances |-> "none"]
  /\ UNCHANGED <<now, disk, saveAt, watched, polledAt, startedAt, obscured, restarts, crashed>>

\* A new coordinator and store: only the file is left.
Start ==
  /\ phase = "down"
  /\ phase' = "new"
  /\ memory' = disk
  /\ lastBeat' = Never
  /\ blind' = [c \in Circuits |-> 0]
  /\ verdict' = [a \in Appliances |-> "none"]
  /\ UNCHANGED <<now, disk, saveAt, watched, polledAt, startedAt, obscured, restarts, crashed>>

Next ==
  \/ \E readable \in SUBSET Circuits, running \in SUBSET Appliances :
       Poll(readable, running)
  \/ Save
  \/ Unload \/ Shutdown \/ Crash
  \/ Down \/ Start

Spec == Init /\ [][Next]_vars

-----------------------------------------------------------------------------
MaybeTimes == Times \cup {Never}
Stored == [seen : [Appliances -> MaybeTimes], poll : MaybeTimes]

TypeOK ==
  /\ now \in Times
  /\ phase \in {"new", "up", "down"}
  /\ memory \in Stored /\ disk \in Stored
  /\ saveAt \in 0 .. LastTick + SAVE_DELAY \cup {Never}
  /\ lastBeat \in MaybeTimes
  /\ blind \in [Circuits -> 0 .. 2 * LastTick]
  /\ verdict \in [Appliances -> {"none", "ok", "unknown", "overdue"}]
  /\ watched \in [Appliances -> Times]
  /\ polledAt \in Times /\ startedAt \in Times
  /\ obscured \in BOOLEAN /\ restarts \in 0 .. MaxRestarts /\ crashed \in BOOLEAN

(* Blind time is not silence (analysis.py:363): an appliance is called     *)
(* overdue only if its circuit was really watched for longer than the      *)
(* limit since it last ran.                                                *)
NoFabricatedSilence ==
  \A a \in Appliances : verdict[a] = "overdue" => watched[a] > LIMIT

(* It is so up to the first restart, and after one if every circuit was    *)
(* readable before: blind polls are taken off the silence, and so is the   *)
(* time down.                                                              *)
SilenceWasWatched ==
  restarts = 0 \/ (restarts = 1 /\ ~obscured /\ ~crashed) => NoFabricatedSilence

(* The other direction: an appliance that stopped is reported, once it has *)
(* been watched for the limit and for more than half of the time, allowing *)
(* a heartbeat and a short gap for each restart (store.py:375).            *)
DeadIsNoticed ==
  \A a \in Appliances :
    LET silent == now - memory.seen[a]
        lost   == restarts * (HEARTBEAT + SHORT_GAP)
    IN  /\ phase = "up" /\ ~crashed /\ memory.seen[a] # Never
        /\ watched[a] > LIMIT + lost
        /\ 2 * (silent - watched[a] + lost) <= silent
        => verdict[a] = "overdue"

(* While nothing runs, a crash is credited as at most a heartbeat and a    *)
(* save of blind time (coordinator.py:538).                                *)
HeartbeatIsRecent ==
  /\ phase = "up" /\ now - startedAt > SAVE_DELAY
  /\ \A a \in Appliances : memory.seen[a] = Never \/ now - memory.seen[a] > SAVE_DELAY
  => disk.poll # Never /\ now - disk.poll <= HEARTBEAT + SAVE_DELAY
=============================================================================
