---------------------------- MODULE RuntimeProofs ---------------------------
(***************************************************************************)
(* Theorems about an entry across its restarts and reloads: the appliances *)
(* its coordinator has last seen (Absence), for any circuits, appliances,  *)
(* limits and delays and any number of restarts, and the sources it is set *)
(* up with (SourceRenames), for any sources and ids and any number of      *)
(* renames, forms and handlers under way.  And about all that becomes of   *)
(* the readings (MCRuntime), from those and PanelProofs.                   *)
(***************************************************************************)
EXTENDS MCRuntime, PanelProofs

-----------------------------------------------------------------------------
(* Absence: the inductive invariant.                                       *)

\* What a coordinator started now would find.
Kept == IF phase = "down" THEN disk ELSE memory

\* A watched time is one of polls; a delayed save is not overdue.
TimesOrdered ==
  /\ polledAt <= now /\ startedAt <= now
  /\ phase = "up" \/ restarts = 0 => polledAt = now
  /\ \A c \in Circuits : blind[c] <= now
  /\ \A a \in Appliances : watched[a] <= polledAt
  /\ saveAt # Never => now <= saveAt

\* A sighting is stored with the poll it was made in, or one before.
RecordOK(r) ==
  /\ r.poll # Never => 1 <= r.poll /\ r.poll <= polledAt
  /\ \A a \in Appliances : r.seen[a] # Never => r.poll # Never /\ r.seen[a] <= r.poll

\* What memory and the file have in common, and how old the heartbeat is.
Records ==
  /\ RecordOK(memory) /\ RecordOK(disk)
  /\ phase = "new" => disk = memory /\ saveAt = Never /\ lastBeat = Never
  /\ phase = "up" => /\ lastBeat # Never /\ memory.poll = lastBeat
                     /\ now - lastBeat < HEARTBEAT
                     /\ saveAt = Never => disk = memory
                     /\ saveAt # Never => saveAt = lastBeat + SAVE_DELAY
  /\ phase = "down" => saveAt = Never
  /\ restarts = 0 => phase # "down" /\ (phase = "new" => memory.poll = Never)

\* The verdicts are those of the last poll.
VerdictOf(a) ==
  LET seen == memory.seen[a]
      b    == blind[CircuitOf[a]]
  IN  IF seen = Never THEN "none"
      ELSE IF 2 * b > now - seen THEN "unknown"
      ELSE IF now - seen - b > LIMIT THEN "overdue" ELSE "ok"

VerdictsAreCurrent ==
  /\ phase = "up" => \A a \in Appliances : verdict[a] = VerdictOf(a)
  /\ phase = "new" => /\ \A a \in Appliances : verdict[a] = "none"
                      /\ \A c \in Circuits : blind[c] = 0

\* A heartbeat that is not in the file yet came after one that is, or with a sighting.
LateBeat ==
  phase = "up" /\ saveAt # Never =>
    \/ lastBeat = startedAt
    \/ \E a \in Appliances : memory.seen[a] = lastBeat
    \/ disk.poll # Never /\ disk.poll = lastBeat - HEARTBEAT

\* Without a crash a stop loses less than a heartbeat of the polls.
StoppedWell ==
  ~crashed /\ phase # "up" /\ Kept.poll # Never => polledAt - Kept.poll < HEARTBEAT

\* What a restart can add to the blind time beyond the time it took.
Lost == HEARTBEAT + SHORT_GAP

\* Time is not both watched and blind, but for what restarts add.
BlindAtMost ==
  ~crashed => \A a \in Appliances : Kept.seen[a] # Never =>
    IF phase = "up"
    THEN blind[CircuitOf[a]] + watched[a] <= now - Kept.seen[a] + restarts * Lost
    ELSE restarts >= 1 /\ watched[a] + Lost <= polledAt - Kept.seen[a] + restarts * Lost

\* No two appliances share a circuit: the sighting of one clears the blind time of all.
Apart == \A a1, a2 \in Appliances : CircuitOf[a1] = CircuitOf[a2] => a1 = a2

NothingForgotten == restarts = 0 \/ (restarts = 1 /\ ~obscured /\ ~crashed)

\* Time that was not watched is blind.
BlindAtLeast ==
  Apart /\ NothingForgotten => \A a \in Appliances : Kept.seen[a] # Never =>
    polledAt - Kept.seen[a] <= watched[a] + IF phase = "up" THEN blind[CircuitOf[a]] ELSE 0

NeverBlind == restarts = 0 /\ ~obscured => \A c \in Circuits : blind[c] = 0

NoneFabricated == Apart /\ NothingForgotten => NoFabricatedSilence

AbsenceInv ==
  /\ TypeOK /\ TimesOrdered /\ Records /\ VerdictsAreCurrent /\ LateBeat /\ StoppedWell
  /\ BlindAtMost /\ BlindAtLeast /\ NeverBlind /\ NoneFabricated

-----------------------------------------------------------------------------
(* Lemmas on times.                                                        *)

\* The limits are numbers, and a time is not Never.
LEMMA Limits ==
  /\ LIMIT \in Nat /\ HEARTBEAT \in Nat /\ SHORT_GAP \in Nat /\ SHORT_GAP >= 1
  /\ LastTick \in Nat /\ MaxRestarts \in Nat
  /\ SAVE_DELAY \in Nat /\ SAVE_DELAY >= 1 /\ SAVE_DELAY < HEARTBEAT
  /\ Lost \in Nat /\ Lost = HEARTBEAT + SHORT_GAP
  /\ \A i \in Int : i # Never
BY AbsenceAssumption DEF Lost

\* Each restart counts once.
LEMMA LostType ==
  ASSUME NEW r \in Nat
  PROVE  r * Lost \in Nat /\ (r + 1) * Lost = r * Lost + Lost
BY Limits

\* The types of what is read from a record.
LEMMA StoredType ==
  ASSUME NEW r \in Stored
  PROVE  /\ r.poll = Never \/ r.poll \in Nat
         /\ \A a \in Appliances : r.seen[a] = Never \/ r.seen[a] \in Nat
         /\ r = [seen |-> r.seen, poll |-> r.poll]
BY AbsenceAssumption DEF Stored, MaybeTimes, Times

\* Types, as numbers.
LEMMA Numbers ==
  ASSUME TypeOK
  PROVE  /\ now \in Nat /\ polledAt \in Nat /\ startedAt \in Nat /\ restarts \in Nat
         /\ now <= LastTick
         /\ \A c \in Circuits : blind[c] \in Nat
         /\ \A a \in Appliances : watched[a] \in Nat /\ CircuitOf[a] \in Circuits
         /\ saveAt = Never \/ saveAt \in Nat
         /\ lastBeat = Never \/ lastBeat \in Nat
         /\ memory \in Stored /\ disk \in Stored /\ Kept \in Stored
BY AbsenceAssumption DEF TypeOK, Times, MaybeTimes, Kept

-----------------------------------------------------------------------------
(* Initially nothing has been seen.                                        *)
LEMMA InitAbsenceInv ==
  Init => AbsenceInv
<1> SUFFICES ASSUME Init PROVE AbsenceInv
  OBVIOUS
<1>1. TypeOK
  <2>1. [seen |-> [a \in Appliances |-> Never], poll |-> Never] \in Stored
    BY DEF Stored, MaybeTimes
  <2>2. 0 \in Times /\ 0 \in 0 .. 2 * LastTick /\ 0 \in 0 .. MaxRestarts
    BY Limits DEF Times
  <2>3. blind \in [Circuits -> 0 .. 2 * LastTick] /\ watched \in [Appliances -> Times]
    BY <2>2 DEF Init
  <2> QED
    BY <2>1, <2>2, <2>3 DEF Init, TypeOK, MaybeTimes
<1>2. /\ \A a \in Appliances : memory.seen[a] = Never /\ verdict[a] = "none" /\ watched[a] = 0
      /\ memory.poll = Never /\ disk = memory /\ \A c \in Circuits : blind[c] = 0
  BY DEF Init
<1>3. TimesOrdered
  BY <1>2, Limits DEF Init, TimesOrdered
<1>4. Records
  BY <1>2 DEF Init, Records, RecordOK
<1>5. VerdictsAreCurrent
  BY <1>2 DEF Init, VerdictsAreCurrent
<1>6. LateBeat /\ StoppedWell /\ BlindAtMost /\ BlindAtLeast
  BY <1>2 DEF Init, LateBeat, StoppedWell, BlindAtMost, BlindAtLeast, Kept
<1>7. NeverBlind /\ NoneFabricated
  BY <1>2 DEF NeverBlind, NoneFabricated, NoFabricatedSilence
<1> QED
  BY <1>1, <1>3, <1>4, <1>5, <1>6, <1>7 DEF AbsenceInv

-----------------------------------------------------------------------------
(* What the bounds on the blind time say of a verdict.                     *)

\* An appliance called overdue has been watched for as long.
LEMMA UpIsHonest ==
  TypeOK /\ TimesOrdered /\ Records /\ VerdictsAreCurrent /\ BlindAtLeast /\ phase = "up" => NoneFabricated
<1> SUFFICES ASSUME TypeOK, TimesOrdered, Records, VerdictsAreCurrent, BlindAtLeast, phase = "up"
             PROVE  NoneFabricated
  OBVIOUS
<1> SUFFICES ASSUME Apart, NothingForgotten, NEW a \in Appliances, verdict[a] = "overdue"
             PROVE  watched[a] > LIMIT
  BY DEF NoneFabricated, NoFabricatedSilence
<1>1. /\ now \in Nat /\ polledAt = now /\ watched[a] \in Nat /\ memory \in Stored
      /\ blind[CircuitOf[a]] \in Nat
  BY Numbers DEF TimesOrdered
<1>2. PICK s, b, w : s = memory.seen[a] /\ b = blind[CircuitOf[a]] /\ w = watched[a]
  OBVIOUS
<1>3. VerdictOf(a) = "overdue"
  BY DEF VerdictsAreCurrent
<1>4. s # Never /\ now - s - b > LIMIT
  <2>1. VerdictOf(a) = IF s = Never THEN "none"
                       ELSE IF 2 * b > now - s THEN "unknown"
                       ELSE IF now - s - b > LIMIT THEN "overdue" ELSE "ok"
    BY <1>2, Zenon DEF VerdictOf
  <2> QED
    BY <1>3, <2>1
<1>5. s \in Nat
  BY <1>1, <1>2, <1>4, StoredType
<1>6. now - s <= w + b
  BY <1>1, <1>2, <1>4 DEF BlindAtLeast, Kept
<1> QED
  BY <1>1, <1>2, <1>4, <1>5, <1>6, Limits

-----------------------------------------------------------------------------
(* A poll.                                                                 *)

\* How long since the last poll, and whether this one could not watch a.
Since == now + 1 - polledAt

Unwatched(a, readable) == IF CircuitOf[a] \in readable THEN 0 ELSE 1

\* What a poll does to each appliance.
LEMMA PollFacts ==
  ASSUME AbsenceInv, NEW readable \in SUBSET Circuits, NEW running \in SUBSET Appliances,
         Poll(readable, running)
  PROVE  /\ now' = now + 1 /\ now < LastTick /\ phase # "down" /\ phase' = "up"
         /\ polledAt' = now + 1 /\ restarts' = restarts /\ crashed' = crashed /\ disk' = disk
         /\ obscured' = (obscured \/ readable # Circuits)
         /\ startedAt' = IF phase = "new" THEN now + 1 ELSE startedAt
         /\ saveAt # Never => now < saveAt
         /\ memory' \in Stored
         /\ \A a \in Appliances :
              /\ memory'.seen[a] = IF a \in running THEN now + 1 ELSE memory.seen[a]
              /\ verdict'[a] = VerdictOf(a)'
              /\ watched'[a] = IF a \in running THEN 0
                               ELSE IF Since > SHORT_GAP THEN watched[a]
                               ELSE watched[a] + Since - Unwatched(a, readable)
              /\ a \in running => CircuitOf[a] \in readable
         /\ blind' = Blind(readable, running)
         /\ \/ /\ memory'.poll = now + 1 /\ lastBeat' = now + 1
               /\ saveAt' = now + 1 + SAVE_DELAY
               /\ running # {} \/ lastBeat = Never \/ now + 1 - lastBeat >= HEARTBEAT
            \/ /\ UNCHANGED <<memory, lastBeat, saveAt>>
               /\ running = {} /\ lastBeat # Never /\ ~(now + 1 - lastBeat >= HEARTBEAT)
<1> DEFINE seen == [a \in Appliances |-> IF a \in running THEN now + 1 ELSE memory.seen[a]]
           b == Blind(readable, running)
<1> USE DEF AbsenceInv
<1>1. /\ now' = now + 1 /\ now < LastTick /\ phase # "down" /\ phase' = "up"
      /\ polledAt' = now + 1 /\ restarts' = restarts /\ crashed' = crashed /\ disk' = disk
      /\ obscured' = (obscured \/ readable # Circuits)
      /\ startedAt' = IF phase = "new" THEN now + 1 ELSE startedAt
      /\ saveAt # Never => now < saveAt
      /\ \A a \in running : CircuitOf[a] \in readable
      /\ blind' = b
      /\ verdict' = [a \in Appliances |-> Judge(seen[a], b[CircuitOf[a]])]
      /\ watched' = [a \in Appliances |->
                       IF a \in running THEN 0
                       ELSE IF Since > SHORT_GAP THEN watched[a]
                       ELSE watched[a] + Since - Unwatched(a, readable)]
  BY DEF Poll, Since, Unwatched
<1>2. \/ /\ memory' = [seen |-> seen, poll |-> now + 1] /\ lastBeat' = now + 1
         /\ saveAt' = now + 1 + SAVE_DELAY
         /\ running # {} \/ lastBeat = Never \/ now + 1 - lastBeat >= HEARTBEAT
      \/ /\ UNCHANGED <<memory, lastBeat, saveAt>>
         /\ running = {} /\ lastBeat # Never /\ ~(now + 1 - lastBeat >= HEARTBEAT)
  <2>1. Beat(running # {}) <=>
          (running # {} \/ lastBeat = Never \/ now + 1 - lastBeat >= HEARTBEAT)
    BY DEF Beat
  <2> QED
    BY <2>1 DEF Poll
<1>3. now + 1 \in Times /\ now + 1 \in MaybeTimes /\ memory \in Stored /\ now \in Nat
  <2>1. TypeOK
    OBVIOUS
  <2>2. now \in Nat /\ memory \in Stored /\ LastTick \in Nat
    BY <2>1, Numbers, Limits
  <2> QED
    BY <2>2, <1>1 DEF Times, MaybeTimes
<1>4. memory' \in Stored /\ \A a \in Appliances : memory'.seen[a] = seen[a]
  <2>1. \A a \in Appliances : memory.seen[a] \in MaybeTimes
    BY <1>3 DEF Stored
  <2>2. seen \in [Appliances -> MaybeTimes]
    BY <2>1, <1>3
  <2> HIDE DEF seen
  <2>3. CASE memory' = [seen |-> seen, poll |-> now + 1]
    BY <2>2, <2>3, <1>3 DEF Stored
  <2>4. CASE memory' = memory /\ running = {}
    BY <2>4, <1>3 DEF seen
  <2> QED
    BY <1>2, <2>3, <2>4
<1>5. \A a \in Appliances : verdict'[a] = VerdictOf(a)'
  <2> SUFFICES ASSUME NEW a \in Appliances PROVE verdict'[a] = VerdictOf(a)'
    OBVIOUS
  <2> HIDE DEF AbsenceInv, b, seen
  <2>1. verdict'[a] = Judge(memory'.seen[a], blind'[CircuitOf[a]])
    BY <1>1, <1>4
  <2>2. PICK silent : silent = now' - memory'.seen[a]
    OBVIOUS
  <2>3. PICK s, t : s = memory'.seen[a] /\ t = blind'[CircuitOf[a]]
    OBVIOUS
  <2>4. VerdictOf(a)' = IF s = Never THEN "none"
                        ELSE IF 2 * t > silent THEN "unknown"
                        ELSE IF silent - t > LIMIT THEN "overdue" ELSE "ok"
    BY <2>2, <2>3, Zenon DEF VerdictOf
  <2>5. s = Never \/ (s \in Nat /\ now + 1 - s = silent)
    <3>1. now' = now + 1 /\ silent = now' - s
      BY <1>1, <2>2, <2>3
    <3>2. s = Never \/ s \in Nat
      BY <1>4, <2>3, StoredType
    <3> QED
      BY <3>1, <3>2, <1>3
  <2>6. Judge(s, t) = IF s = Never THEN "none"
                      ELSE IF 2 * t > silent THEN "unknown"
                      ELSE IF silent - t > LIMIT THEN "overdue" ELSE "ok"
    BY <2>5, Zenon DEF Judge
  <2> QED
    BY <2>1, <2>3, <2>4, <2>6, Zenon
<1>6. memory'.poll = now + 1 \/ memory' = memory
  BY <1>2
<1>7. memory' = [seen |-> seen, poll |-> now + 1] => memory'.poll = now + 1
  OBVIOUS
<1> QED
  BY <1>1, <1>2, <1>4, <1>5, <1>7

\* What it does to the blind time of an appliance's circuit.
LEMMA PollBlind ==
  ASSUME AbsenceInv, NEW readable \in SUBSET Circuits, NEW running \in SUBSET Appliances,
         NEW a \in Appliances
  PROVE  LET b == Blind(readable, running)[CircuitOf[a]]
         IN  /\ b = 0 \/ b = blind[CircuitOf[a]] + Gap + Unwatched(a, readable)
             /\ a \in running => b = 0
             /\ a \notin running /\ Apart =>
                  b = blind[CircuitOf[a]] + Gap + Unwatched(a, readable)
<1>1. CircuitOf[a] \in Circuits
  BY AbsenceAssumption
<1> QED
  BY <1>1 DEF Blind, Unwatched, Apart

\* The time since the recorded poll, at the first poll of a run.
LEMMA GapType ==
  ASSUME AbsenceInv, phase # "down"
  PROVE  /\ Gap \in Nat
         /\ phase = "up" => Gap = 0
         /\ phase = "new" /\ memory.poll # Never =>
              /\ memory.poll \in Nat /\ 1 <= memory.poll /\ memory.poll <= polledAt
              /\ Gap = IF now + 1 - memory.poll > SHORT_GAP THEN now + 1 - memory.poll ELSE 0
         /\ phase = "new" /\ memory.poll = Never => Gap = 0
<1>1. now \in Nat /\ memory \in Stored /\ polledAt \in Nat /\ polledAt <= now
  BY Numbers DEF AbsenceInv, TimesOrdered
<1>2. memory.poll = Never
        \/ (memory.poll \in Nat /\ 1 <= memory.poll /\ memory.poll <= polledAt)
  BY <1>1, StoredType DEF AbsenceInv, Records, RecordOK
<1> QED
  BY <1>1, <1>2, Limits DEF Gap

\* Blind time grows by at most the time that passed.
LEMMA PollBlindBound ==
  ASSUME AbsenceInv, NEW readable \in SUBSET Circuits, NEW running \in SUBSET Appliances,
         phase # "down", NEW c \in Circuits
  PROVE  Blind(readable, running)[c] \in 0 .. now + 1
<1>1. now \in Nat /\ blind[c] \in Nat /\ blind[c] <= now /\ phase \in {"new", "up"}
  BY Numbers DEF AbsenceInv, TimesOrdered, TypeOK
<1>2. phase = "new" => blind[c] = 0
  BY DEF AbsenceInv, VerdictsAreCurrent
<1>3. Gap \in Nat /\ Gap <= now /\ (phase = "up" => Gap = 0)
  <2>1. polledAt \in Nat /\ polledAt <= now
    BY Numbers DEF AbsenceInv, TimesOrdered
  <2> QED
    BY <1>1, <2>1, GapType
<1>4. blind[c] + Gap \in 0 .. now
  BY <1>1, <1>2, <1>3
<1>5. Blind(readable, running)[c] \in {0, blind[c] + Gap, blind[c] + Gap + 1}
  BY <1>1, <1>3 DEF Blind
<1> QED
  BY <1>1, <1>4, <1>5

\* The watched time of a poll.
LEMMA PollWatched ==
  ASSUME AbsenceInv, NEW readable \in SUBSET Circuits, NEW running \in SUBSET Appliances,
         Poll(readable, running), NEW a \in Appliances
  PROVE  watched'[a] \in 0 .. now + 1
<1>1. /\ now \in Nat /\ polledAt \in Nat /\ polledAt <= now
      /\ watched[a] \in Nat /\ watched[a] <= polledAt
  BY Numbers DEF AbsenceInv, TimesOrdered
<1>2. watched'[a] = IF a \in running THEN 0
                    ELSE IF Since > SHORT_GAP THEN watched[a]
                    ELSE watched[a] + Since - Unwatched(a, readable)
  BY PollFacts
<1>3. Unwatched(a, readable) \in {0, 1} /\ Since \in Nat /\ 1 <= Since
      /\ polledAt + Since = now + 1
  BY <1>1 DEF Unwatched, Since
<1> QED
  BY <1>1, <1>2, <1>3

\* A poll keeps the types.
LEMMA PollType ==
  ASSUME AbsenceInv, NEW readable \in SUBSET Circuits, NEW running \in SUBSET Appliances,
         Poll(readable, running)
  PROVE  TypeOK'
<1>1. TypeOK /\ now \in Nat /\ LastTick \in Nat /\ now < LastTick /\ now' = now + 1
  BY PollFacts, Numbers, Limits DEF AbsenceInv
<1>2. now + 1 \in Times
  BY <1>1 DEF Times
<1>3. /\ now' \in Times /\ phase' \in {"new", "up", "down"} /\ memory' \in Stored /\ disk' \in Stored
      /\ polledAt' \in Times /\ startedAt' \in Times /\ obscured' \in BOOLEAN
      /\ restarts' \in 0 .. MaxRestarts /\ crashed' \in BOOLEAN
  BY <1>1, <1>2, PollFacts, ZenonT(30) DEF TypeOK
<1>4. saveAt' \in 0 .. LastTick + SAVE_DELAY \cup {Never} /\ lastBeat' \in MaybeTimes
  <2>1. now + 1 + SAVE_DELAY \in 0 .. LastTick + SAVE_DELAY
    BY <1>1, Limits
  <2> QED
    BY <2>1, <1>1, <1>2, PollFacts DEF TypeOK, MaybeTimes
<1>5. blind' \in [Circuits -> 0 .. 2 * LastTick]
  <2>1. \A c \in Circuits : Blind(readable, running)[c] \in 0 .. 2 * LastTick
    <3> SUFFICES ASSUME NEW c \in Circuits
                 PROVE  Blind(readable, running)[c] \in 0 .. 2 * LastTick
      OBVIOUS
    <3>1. Blind(readable, running)[c] \in 0 .. now + 1
      BY PollFacts, PollBlindBound
    <3> QED
      BY <3>1, <1>1
  <2>2. blind' = Blind(readable, running)
    BY PollFacts
  <2> QED
    BY <2>1, <2>2 DEF Blind
<1>6. watched' \in [Appliances -> Times]
  <2>1. \A a \in Appliances : watched'[a] \in Times
    <3> SUFFICES ASSUME NEW a \in Appliances PROVE watched'[a] \in Times
      OBVIOUS
    <3>1. watched'[a] \in 0 .. now + 1
      BY PollWatched
    <3> QED
      BY <3>1, <1>1 DEF Times
  <2>2. watched' = [a \in Appliances |-> watched'[a]]
    BY DEF Poll
  <2> QED
    BY <2>1, <2>2
<1>7. verdict' \in [Appliances -> {"none", "ok", "unknown", "overdue"}]
  <2>1. \A x, b : Judge(x, b) \in {"none", "ok", "unknown", "overdue"}
    BY DEF Judge
  <2> QED
    BY <2>1 DEF Poll
<1> QED
  BY <1>3, <1>4, <1>5, <1>6, <1>7 DEF TypeOK

\* It keeps the order of the times.
LEMMA PollTimes ==
  ASSUME AbsenceInv, NEW readable \in SUBSET Circuits, NEW running \in SUBSET Appliances,
         Poll(readable, running)
  PROVE  TimesOrdered'
<1>1. /\ now \in Nat /\ now' = now + 1 /\ polledAt' = now + 1 /\ phase # "down"
      /\ startedAt' \in {now + 1, startedAt} /\ startedAt \in Nat /\ startedAt <= now
  BY PollFacts, Numbers DEF AbsenceInv, TimesOrdered
<1>2. \A c \in Circuits : blind'[c] <= now'
  <2>1. ASSUME NEW c \in Circuits PROVE blind'[c] \in 0 .. now + 1
    <3>1. blind'[c] = Blind(readable, running)[c]
      BY PollFacts
    <3>2. Blind(readable, running)[c] \in 0 .. now + 1
      BY <1>1, PollBlindBound
    <3> QED
      BY <3>1, <3>2
  <2> QED
    BY <1>1, <2>1
<1>3. \A a \in Appliances : watched'[a] <= polledAt'
  BY <1>1, PollWatched
<1>4. saveAt' # Never => now' <= saveAt'
  <2>1. saveAt = Never \/ (saveAt \in Nat /\ now < saveAt)
    BY PollFacts, Numbers DEF AbsenceInv
  <2>2. saveAt' = now + 1 + SAVE_DELAY \/ saveAt' = saveAt
    BY PollFacts
  <2> QED
    BY <1>1, <2>1, <2>2, Limits
<1> QED
  BY <1>1, <1>2, <1>3, <1>4 DEF TimesOrdered

\* The two ways a poll leaves the heartbeat.
LEMMA PollBeat ==
  ASSUME AbsenceInv, NEW readable \in SUBSET Circuits, NEW running \in SUBSET Appliances,
         Poll(readable, running)
  PROVE  /\ now \in Nat
         /\ \/ /\ memory'.poll = now + 1 /\ lastBeat' = now + 1
               /\ saveAt' = now + 1 + SAVE_DELAY /\ saveAt' # Never
               /\ \/ running # {}
                  \/ phase = "new"
                  \/ /\ phase = "up" /\ saveAt = Never /\ disk = memory
                     /\ lastBeat \in Nat /\ lastBeat = now + 1 - HEARTBEAT
            \/ /\ UNCHANGED <<memory, lastBeat, saveAt>> /\ running = {} /\ phase = "up"
               /\ lastBeat \in Nat /\ now + 1 - lastBeat < HEARTBEAT
<1>1. now \in Nat /\ phase # "down" /\ phase \in {"new", "up", "down"} /\ TypeOK
  BY PollFacts, Numbers DEF AbsenceInv, TypeOK
<1>2. lastBeat = Never => phase = "new"
  BY <1>1 DEF AbsenceInv, Records
<1>3. phase = "new" => lastBeat = Never
  BY DEF AbsenceInv, Records
<1>4. lastBeat = Never \/ lastBeat \in Nat
  BY <1>1, Numbers
<1>5. ASSUME running = {}, lastBeat # Never, now + 1 - lastBeat >= HEARTBEAT
      PROVE  saveAt = Never /\ disk = memory /\ lastBeat = now + 1 - HEARTBEAT
  <2>1. phase = "up" /\ lastBeat \in Nat /\ now - lastBeat < HEARTBEAT
    BY <1>1, <1>3, <1>4, <1>5 DEF AbsenceInv, Records
  <2>2. lastBeat = now + 1 - HEARTBEAT
    BY <1>1, <1>5, <2>1, Limits
  <2>3. saveAt = Never
    <3>1. SUFFICES ASSUME saveAt # Never PROVE FALSE
      OBVIOUS
    <3>2. saveAt = lastBeat + SAVE_DELAY
      BY <3>1, <2>1 DEF AbsenceInv, Records
    <3>3. now < saveAt
      BY <3>1, PollFacts
    <3> QED
      BY <1>1, <2>1, <2>2, <3>2, <3>3, Limits
  <2> QED
    BY <2>1, <2>2, <2>3 DEF AbsenceInv, Records
<1>6. now + 1 + SAVE_DELAY # Never
  BY <1>1, Limits
<1>7. CASE /\ memory'.poll = now + 1 /\ lastBeat' = now + 1
           /\ saveAt' = now + 1 + SAVE_DELAY
           /\ running # {} \/ lastBeat = Never \/ now + 1 - lastBeat >= HEARTBEAT
  BY <1>1, <1>2, <1>3, <1>4, <1>5, <1>6, <1>7
<1>8. CASE /\ UNCHANGED <<memory, lastBeat, saveAt>>
           /\ running = {} /\ lastBeat # Never /\ ~(now + 1 - lastBeat >= HEARTBEAT)
  BY <1>1, <1>3, <1>4, <1>8, Limits
<1> QED
  BY PollFacts, <1>7, <1>8

\* Its records and verdicts are those of its sightings.
LEMMA PollRecords ==
  ASSUME AbsenceInv, NEW readable \in SUBSET Circuits, NEW running \in SUBSET Appliances,
         Poll(readable, running)
  PROVE  Records'
<1>1. /\ now \in Nat /\ now' = now + 1 /\ polledAt' = now + 1 /\ phase' = "up"
      /\ polledAt \in Nat /\ polledAt <= now /\ disk' = disk /\ restarts' = restarts
      /\ memory \in Stored /\ disk \in Stored
  BY PollFacts, Numbers DEF AbsenceInv, TimesOrdered
<1>2. RecordOK(disk)'
  <2> SUFFICES /\ disk.poll # Never => 1 <= disk.poll /\ disk.poll <= now + 1
               /\ \A a \in Appliances : disk.seen[a] # Never =>
                    disk.poll # Never /\ disk.seen[a] <= disk.poll
    BY <1>1 DEF RecordOK
  <2>1. RecordOK(disk)
    BY DEF AbsenceInv, Records
  <2>2. disk.poll = Never \/ disk.poll \in Nat
    BY <1>1, StoredType
  <2> QED
    BY <1>1, <2>1, <2>2 DEF RecordOK
<1>3. RecordOK(memory)'
  <2>1. RecordOK(memory)
    BY DEF AbsenceInv, Records
  <2>2. memory.poll = Never \/ memory.poll \in Nat
    BY <1>1, StoredType
  <2>3. memory'.poll = now + 1 \/ memory' = memory
    BY PollBeat
  <2>4. memory'.poll # Never => 1 <= memory'.poll /\ memory'.poll <= now + 1
    BY <1>1, <2>1, <2>2, <2>3 DEF RecordOK
  <2>5. ASSUME NEW a \in Appliances, memory'.seen[a] # Never
        PROVE  memory'.poll # Never /\ memory'.seen[a] <= memory'.poll
    <3>1. memory.seen[a] = Never \/ memory.seen[a] \in Nat
      BY <1>1, StoredType
    <3>2. a \in running => memory'.seen[a] = now + 1 /\ memory'.poll = now + 1
      BY PollBeat, PollFacts
    <3>3. a \notin running => memory'.seen[a] = memory.seen[a]
      BY PollFacts
    <3>4. a \notin running => memory.poll \in Nat /\ memory.poll <= now
                             /\ memory.seen[a] \in Nat /\ memory.seen[a] <= memory.poll
      BY <1>1, <2>1, <2>2, <2>5, <3>1, <3>3 DEF RecordOK
    <3> QED
      BY <1>1, <2>3, <3>2, <3>3, <3>4, Limits
  <2> QED
    BY <1>1, <2>4, <2>5 DEF RecordOK
<1>4. /\ lastBeat' # Never /\ memory'.poll = lastBeat' /\ now' - lastBeat' < HEARTBEAT
      /\ saveAt' = Never => disk' = memory'
      /\ saveAt' # Never => saveAt' = lastBeat' + SAVE_DELAY
  <2>1. phase = "up" => /\ memory.poll = lastBeat
                        /\ saveAt = Never => disk = memory
                        /\ saveAt # Never => saveAt = lastBeat + SAVE_DELAY
    BY DEF AbsenceInv, Records
  <2> QED
    BY <1>1, <2>1, PollBeat, Limits
<1> QED
  BY <1>1, <1>2, <1>3, <1>4 DEF Records

\* The save it asks for is due before the heartbeat is too old.
LEMMA PollLateBeat ==
  ASSUME AbsenceInv, NEW readable \in SUBSET Circuits, NEW running \in SUBSET Appliances,
         Poll(readable, running)
  PROVE  LateBeat'
<1>1. CASE running # {} /\ lastBeat' = now + 1
  <2>1. PICK a \in running : TRUE
    BY <1>1
  <2>2. a \in Appliances /\ memory'.seen[a] = lastBeat'
    BY <1>1, <2>1, PollFacts
  <2> QED
    BY <2>2 DEF LateBeat
<1>2. CASE phase = "new" /\ lastBeat' = now + 1
  <2>1. startedAt' = now + 1
    BY <1>2, PollFacts
  <2> QED
    BY <1>2, <2>1 DEF LateBeat
<1>3. CASE /\ phase = "up" /\ disk = memory /\ lastBeat' = now + 1
           /\ lastBeat \in Nat /\ lastBeat = now + 1 - HEARTBEAT
  <2>1. memory.poll = lastBeat /\ lastBeat # Never
    BY <1>3 DEF AbsenceInv, Records
  <2>2. disk' = disk
    BY PollFacts
  <2>3. now \in Nat /\ HEARTBEAT \in Nat
    BY PollBeat, Limits
  <2>4. disk'.poll # Never /\ disk'.poll = lastBeat' - HEARTBEAT
    BY <1>3, <2>1, <2>2, <2>3
  <2> QED
    BY <2>4 DEF LateBeat
<1>4. CASE UNCHANGED <<memory, lastBeat, saveAt>> /\ phase = "up"
  <2>1. startedAt' = startedAt /\ disk' = disk
    BY <1>4, PollFacts
  <2> QED
    BY <1>4, <2>1 DEF AbsenceInv, LateBeat
<1> QED
  BY PollBeat, <1>1, <1>2, <1>3, <1>4

\* An appliance that does not run at a poll: its sighting, blind and watched times.
UnseenAtPoll(a, readable, s, b, w, u, g, d, b1, w1) ==
  /\ memory.seen[a] = s /\ memory'.seen[a] = s /\ s <= polledAt
  /\ blind[CircuitOf[a]] = b /\ watched[a] = w /\ Gap = g
  /\ blind'[CircuitOf[a]] = b1 /\ watched'[a] = w1
  /\ polledAt + d = now + 1 /\ d >= 1 /\ Since = d
  /\ u <= 1 /\ (u = 1 => readable # Circuits)
  /\ b1 = 0 \/ b1 = b + g + u
  /\ Apart => b1 = b + g + u
  /\ w1 = IF d > SHORT_GAP THEN w ELSE w + d - u
  /\ phase = "up" => g = 0 /\ d = 1
  /\ phase = "new" => b = 0
\* What a poll does to an appliance that does not run, as numbers.
LEMMA PollNumbers ==
  ASSUME AbsenceInv, NEW readable \in SUBSET Circuits, NEW running \in SUBSET Appliances,
         Poll(readable, running), NEW a \in Appliances, a \notin running,
         memory'.seen[a] # Never
  PROVE  \E s, b, w, u, g, d, b1, w1 \in Nat : UnseenAtPoll(a, readable, s, b, w, u, g, d, b1, w1)
<1>1. /\ now \in Nat /\ polledAt \in Nat /\ polledAt <= now /\ CircuitOf[a] \in Circuits
      /\ blind[CircuitOf[a]] \in Nat /\ watched[a] \in Nat /\ memory \in Stored
      /\ phase # "down" /\ memory'.seen[a] = memory.seen[a]
  BY PollFacts, Numbers DEF AbsenceInv, TimesOrdered
<1>2. memory.seen[a] \in Nat /\ memory.seen[a] <= polledAt
  <2>1. memory.seen[a] \in Nat /\ memory.poll \in Nat
    BY <1>1, StoredType DEF AbsenceInv, Records, RecordOK
  <2> QED
    BY <1>1, <2>1 DEF AbsenceInv, Records, RecordOK
<1>3. blind'[CircuitOf[a]] \in Nat /\ watched'[a] \in Nat
  <2>1. /\ watched'[a] \in 0 .. now + 1
        /\ Blind(readable, running)[CircuitOf[a]] \in 0 .. now + 1
    BY <1>1, PollWatched, PollBlindBound
  <2> QED
    BY <1>1, <2>1, PollFacts
<1>4. PICK u \in Nat : u = Unwatched(a, readable) /\ u <= 1 /\ (u = 1 => readable # Circuits)
  BY <1>1 DEF Unwatched
<1>5. PICK g \in Nat : g = Gap /\ (phase = "up" => g = 0)
  BY <1>1, GapType
<1>6. PICK d \in Nat : d = Since /\ polledAt + d = now + 1 /\ d >= 1
  BY <1>1 DEF Since
<1>7. phase = "up" => d = 1
  BY <1>1, <1>6 DEF AbsenceInv, TimesOrdered
<1>8. phase = "new" => blind[CircuitOf[a]] = 0
  BY <1>1 DEF AbsenceInv, VerdictsAreCurrent
<1>9. watched'[a] = IF d > SHORT_GAP THEN watched[a] ELSE watched[a] + d - u
  BY <1>4, <1>6, PollFacts
<1>10. LET b == Blind(readable, running)[CircuitOf[a]]
       IN  /\ b = 0 \/ b = blind[CircuitOf[a]] + g + u
           /\ Apart => b = blind[CircuitOf[a]] + g + u
  BY <1>4, <1>5, PollBlind
<1>11. blind'[CircuitOf[a]] = Blind(readable, running)[CircuitOf[a]]
  BY PollFacts
<1>12. memory.seen[a] \in Nat /\ blind[CircuitOf[a]] \in Nat /\ watched[a] \in Nat
  BY <1>1, <1>2
<1> USE <1>3, <1>12
<1> WITNESS memory.seen[a] \in Nat, blind[CircuitOf[a]] \in Nat, watched[a] \in Nat, u \in Nat,
            g \in Nat, d \in Nat, blind'[CircuitOf[a]] \in Nat, watched'[a] \in Nat
<1> QED
  BY <1>1, <1>2, <1>4, <1>5, <1>6, <1>7, <1>8, <1>9, <1>10, <1>11 DEF UnseenAtPoll

\* An appliance that runs starts from nothing.
LEMMA PollRunning ==
  ASSUME AbsenceInv, NEW readable \in SUBSET Circuits, NEW running \in SUBSET Appliances,
         Poll(readable, running), NEW a \in running
  PROVE  /\ memory'.seen[a] = now + 1 /\ watched'[a] = 0 /\ blind'[CircuitOf[a]] = 0
  BY PollFacts, PollBlind

\* It adds no more blind time than nobody watched.
LEMMA PollAtMost ==
  ASSUME AbsenceInv, NEW readable \in SUBSET Circuits, NEW running \in SUBSET Appliances,
         Poll(readable, running)
  PROVE  BlindAtMost'
<1>1. /\ phase' = "up" /\ now' = now + 1 /\ crashed' = crashed /\ restarts' = restarts
      /\ phase # "down" /\ phase \in {"new", "up", "down"}
      /\ now \in Nat /\ polledAt \in Nat /\ polledAt <= now /\ restarts \in Nat
  BY PollFacts, Numbers DEF AbsenceInv, TimesOrdered, TypeOK
<1>2. PICK r \in Nat : r = restarts * Lost
  BY <1>1, LostType
<1> SUFFICES ASSUME ~crashed, NEW a \in Appliances, memory'.seen[a] # Never
             PROVE  blind'[CircuitOf[a]] + watched'[a] <= now' - memory'.seen[a] + r
  BY <1>1, <1>2 DEF BlindAtMost, Kept
<1>3. CASE a \in running
  BY <1>1, <1>2, <1>3, PollRunning
<1>4. CASE a \notin running
  <2>0. PICK s, b, w, u, g, d, b1, w1 \in Nat : UnseenAtPoll(a, readable, s, b, w, u, g, d, b1, w1)
    BY <1>4, PollNumbers
  <2>1. /\ memory.seen[a] = s /\ memory'.seen[a] = s /\ s <= polledAt
        /\ blind[CircuitOf[a]] = b /\ watched[a] = w /\ Gap = g
        /\ blind'[CircuitOf[a]] = b1 /\ watched'[a] = w1
        /\ polledAt + d = now + 1 /\ d >= 1 /\ u <= 1
        /\ b1 = 0 \/ b1 = b + g + u
        /\ w1 = IF d > SHORT_GAP THEN w ELSE w + d - u
        /\ phase = "up" => g = 0 /\ d = 1
        /\ phase = "new" => b = 0
    BY <2>0 DEF UnseenAtPoll
  <2>2. s # Never /\ memory.seen[a] # Never
    BY <2>1, Limits
  <2> SUFFICES b1 + w1 <= now + 1 - s + r
    BY <1>1, <2>1
  <2>3. CASE phase = "up"
    <3>1. b + w <= now - s + r
      BY <1>2, <2>1, <2>2, <2>3 DEF AbsenceInv, BlindAtMost, Kept
    <3>2. w1 + u = w + 1
      BY <2>1, <2>3, Limits
    <3> QED
      BY <1>1, <2>1, <2>3, <3>1, <3>2
  <2>4. CASE phase = "new"
    <3>1. w + Lost <= polledAt - s + r
      BY <1>2, <2>1, <2>2, <2>4 DEF AbsenceInv, BlindAtMost, Kept
    <3>2. memory.poll # Never
      BY <2>2 DEF AbsenceInv, Records, RecordOK
    <3>3. memory.poll \in Nat /\ polledAt - memory.poll < HEARTBEAT
      BY <2>4, <3>2, GapType DEF AbsenceInv, StoppedWell, Kept
    <3>4. g = 0 \/ g = now + 1 - memory.poll
      BY <2>1, <2>4, <3>2, GapType
    <3>5. g <= d + HEARTBEAT
      BY <1>1, <2>1, <3>3, <3>4, Limits
    <3>6. b1 <= g + u /\ w1 <= w + SHORT_GAP - u
      BY <2>1, <2>4, Limits
    <3>7. Lost = HEARTBEAT + SHORT_GAP /\ HEARTBEAT \in Nat /\ SHORT_GAP \in Nat
      BY Limits
    <3> QED
      BY <1>1, <2>1, <3>1, <3>5, <3>6, <3>7
  <2> QED
    BY <1>1, <2>3, <2>4
<1> QED
  BY <1>3, <1>4

\* Before a forgotten blind time, a first poll knows of no sighting or of no blind poll.
LEMMA PollAtLeast ==
  ASSUME AbsenceInv, NEW readable \in SUBSET Circuits, NEW running \in SUBSET Appliances,
         Poll(readable, running)
  PROVE  BlindAtLeast' /\ NeverBlind'
<1>1. /\ phase' = "up" /\ now' = now + 1 /\ polledAt' = now + 1 /\ restarts' = restarts
      /\ crashed' = crashed /\ obscured' = (obscured \/ readable # Circuits)
      /\ phase # "down" /\ phase \in {"new", "up", "down"}
      /\ now \in Nat /\ polledAt \in Nat /\ polledAt <= now /\ restarts \in Nat
  BY PollFacts, Numbers DEF AbsenceInv, TimesOrdered, TypeOK
<1>2. BlindAtLeast'
  <2> SUFFICES ASSUME Apart, NothingForgotten', NEW a \in Appliances, memory'.seen[a] # Never
               PROVE  now' - memory'.seen[a] <= watched'[a] + blind'[CircuitOf[a]]
    BY <1>1 DEF BlindAtLeast, Kept, Apart
  <2>1. CASE a \in running
    BY <1>1, <2>1, PollRunning
  <2>2. CASE a \notin running
    <3>0. PICK s, b, w, u, g, d, b1, w1 \in Nat : UnseenAtPoll(a, readable, s, b, w, u, g, d, b1, w1)
      BY <2>2, PollNumbers
    <3>1. /\ memory.seen[a] = s /\ memory'.seen[a] = s /\ s <= polledAt
          /\ blind[CircuitOf[a]] = b /\ watched[a] = w /\ Gap = g
          /\ blind'[CircuitOf[a]] = b1 /\ watched'[a] = w1
          /\ polledAt + d = now + 1 /\ d >= 1 /\ u <= 1 /\ (u = 1 => readable # Circuits)
          /\ b1 = b + g + u
          /\ w1 = IF d > SHORT_GAP THEN w ELSE w + d - u
          /\ phase = "up" => g = 0 /\ d = 1
          /\ phase = "new" => b = 0
      BY <3>0 DEF UnseenAtPoll
    <3>2. s # Never /\ memory.seen[a] # Never /\ memory.poll # Never
      BY <3>1, Limits DEF AbsenceInv, Records, RecordOK
    <3>3. NothingForgotten
      BY <1>1 DEF NothingForgotten
    <3> SUFFICES now + 1 - s <= w1 + b1
      BY <1>1, <3>1
    <3>4. CASE phase = "up"
      <4>1. polledAt - s <= w + b
        BY <3>1, <3>2, <3>3, <3>4 DEF AbsenceInv, BlindAtLeast, Kept
      <4> QED
        BY <1>1, <3>1, <3>4, <4>1, Limits
    <3>5. CASE phase = "new"
      <4>1. polledAt - s <= w
        BY <1>1, <3>1, <3>2, <3>3, <3>5 DEF AbsenceInv, BlindAtLeast, Kept
      <4>2. restarts # 0
        BY <3>2, <3>5 DEF AbsenceInv, Records
      <4>3. u = 0
        <5>1. ~obscured'
          BY <1>1, <4>2 DEF NothingForgotten
        <5>2. readable = Circuits
          BY <1>1, <5>1
        <5> QED
          BY <3>1, <5>2
      <4>4. /\ memory.poll \in Nat /\ memory.poll <= polledAt
            /\ g = IF now + 1 - memory.poll > SHORT_GAP THEN now + 1 - memory.poll ELSE 0
        BY <3>1, <3>2, <3>5, GapType
      <4>5. d > SHORT_GAP => g >= d
        BY <1>1, <3>1, <4>4, Limits
      <4> QED
        BY <1>1, <3>1, <3>5, <4>1, <4>3, <4>5, Limits
    <3> QED
      BY <1>1, <3>4, <3>5
  <2> QED
    BY <2>1, <2>2
<1>3. NeverBlind'
  <2> SUFFICES ASSUME restarts = 0, ~obscured, readable = Circuits, NEW c \in Circuits
               PROVE  blind'[c] = 0
    BY <1>1 DEF NeverBlind
  <2>1. blind[c] = 0
    BY DEF AbsenceInv, NeverBlind
  <2>2. Gap = 0
    BY <1>1, GapType DEF AbsenceInv, Records
  <2>3. blind' = Blind(readable, running)
    BY PollFacts
  <2> QED
    BY <2>1, <2>2, <2>3 DEF Blind
<1> QED
  BY <1>2, <1>3

\* A poll keeps the invariant.
LEMMA PollKeeps ==
  ASSUME AbsenceInv, NEW readable \in SUBSET Circuits, NEW running \in SUBSET Appliances,
         Poll(readable, running)
  PROVE  AbsenceInv'
<1>1. TypeOK' /\ TimesOrdered' /\ Records' /\ LateBeat' /\ BlindAtMost' /\ BlindAtLeast' /\ NeverBlind'
  BY PollType, PollTimes, PollRecords, PollLateBeat, PollAtMost, PollAtLeast
<1>2. phase' = "up" /\ \A a \in Appliances : verdict'[a] = VerdictOf(a)'
  BY PollFacts
<1>3. VerdictsAreCurrent' /\ StoppedWell'
  BY <1>2 DEF VerdictsAreCurrent, StoppedWell
<1>4. (phase = "up")'
  BY <1>2
<1>5. NoneFabricated'
  BY <1>1, <1>3, <1>4, UpIsHonest, PTL
<1> QED
  BY <1>1, <1>3, <1>5 DEF AbsenceInv

-----------------------------------------------------------------------------
(* The steps that leave the polls alone.                                   *)

\* What the bounds on the blind time speak of, unchanged.
LEMMA SameTimes ==
  ASSUME StoppedWell, BlindAtMost, BlindAtLeast, NeverBlind, NoneFabricated,
         Kept' = Kept, (phase' = "up") <=> (phase = "up"),
         UNCHANGED <<watched, polledAt, obscured, restarts, crashed>>,
         phase' = "up" => now' = now,
         UNCHANGED blind \/ (phase # "up" /\ restarts # 0),
         \A a \in Appliances : verdict'[a] = verdict[a] \/ verdict'[a] = "none"
  PROVE  StoppedWell' /\ BlindAtMost' /\ BlindAtLeast' /\ NeverBlind' /\ NoneFabricated'
<1>1. StoppedWell'
  BY DEF StoppedWell
<1>2. BlindAtMost'
  BY DEF BlindAtMost
<1>3. BlindAtLeast'
  BY DEF BlindAtLeast, NothingForgotten
<1>4. NeverBlind'
  BY DEF NeverBlind
<1>5. NoneFabricated'
  BY DEF NoneFabricated, NoFabricatedSilence, NothingForgotten
<1> QED
  BY <1>1, <1>2, <1>3, <1>4, <1>5

\* The file takes what the coordinator holds.
LEMMA SaveKeeps ==
  ASSUME AbsenceInv, Save
  PROVE  AbsenceInv'
<1>1. /\ phase # "down" /\ disk' = memory /\ saveAt' = Never
      /\ UNCHANGED <<now, phase, memory, lastBeat, blind, verdict, watched, polledAt,
                     startedAt, obscured, restarts, crashed>>
  BY DEF Save
<1>2. TypeOK' /\ TimesOrdered'
  BY <1>1 DEF AbsenceInv, TypeOK, TimesOrdered
<1>3. Records'
  BY <1>1 DEF AbsenceInv, Records, RecordOK
<1>4. VerdictsAreCurrent' /\ LateBeat'
  BY <1>1 DEF AbsenceInv, VerdictsAreCurrent, VerdictOf, LateBeat
<1>5. StoppedWell' /\ BlindAtMost' /\ BlindAtLeast' /\ NeverBlind' /\ NoneFabricated'
  <2>1. Kept' = Kept
    BY <1>1 DEF Kept
  <2> QED
    BY <1>1, <2>1, SameTimes DEF AbsenceInv
<1> QED
  BY <1>2, <1>3, <1>4, <1>5 DEF AbsenceInv

\* Time passes while Home Assistant is down.
LEMMA DownKeeps ==
  ASSUME AbsenceInv, Down
  PROVE  AbsenceInv'
<1>1. /\ phase = "down" /\ now < LastTick /\ now' = now + 1
      /\ UNCHANGED <<phase, memory, disk, saveAt, lastBeat, blind, verdict, watched,
                     polledAt, startedAt, obscured, restarts, crashed>>
  BY DEF Down
<1>2. /\ now \in Nat /\ polledAt \in Nat /\ startedAt \in Nat /\ saveAt = Never
      /\ restarts # 0 /\ \A c \in Circuits : blind[c] \in Nat
  BY <1>1, Numbers DEF AbsenceInv, Records
<1>3. TypeOK'
  <2>1. now' \in Times
    BY <1>1, <1>2, Limits DEF Times
  <2> QED
    BY <1>1, <2>1 DEF AbsenceInv, TypeOK
<1>4. TimesOrdered'
  BY <1>1, <1>2 DEF AbsenceInv, TimesOrdered
<1>5. Records' /\ VerdictsAreCurrent' /\ LateBeat'
  BY <1>1, <1>2 DEF AbsenceInv, Records, RecordOK, VerdictsAreCurrent, LateBeat
<1>6. StoppedWell' /\ BlindAtMost' /\ BlindAtLeast' /\ NeverBlind' /\ NoneFabricated'
  <2>1. Kept' = Kept
    BY <1>1 DEF Kept
  <2> QED
    BY <1>1, <2>1, SameTimes DEF AbsenceInv
<1> QED
  BY <1>3, <1>4, <1>5, <1>6 DEF AbsenceInv

\* A start counts the time since the heartbeat as blind.
LEMMA StartKeeps ==
  ASSUME AbsenceInv, Start
  PROVE  AbsenceInv'
<1>1. /\ phase = "down" /\ phase' = "new" /\ memory' = disk /\ lastBeat' = Never
      /\ blind' = [c \in Circuits |-> 0] /\ verdict' = [a \in Appliances |-> "none"]
      /\ UNCHANGED <<now, disk, saveAt, watched, polledAt, startedAt, obscured, restarts, crashed>>
  BY DEF Start
<1>2. now \in Nat /\ saveAt = Never /\ restarts # 0
  BY <1>1, Numbers DEF AbsenceInv, Records
<1>3. /\ \A c \in Circuits : blind'[c] = 0
      /\ \A a \in Appliances : verdict'[a] = "none"
  BY <1>1
<1>4. TypeOK'
  <2>1. blind' \in [Circuits -> 0 .. 2 * LastTick]
    BY <1>1, Limits
  <2> QED
    BY <1>1, <2>1 DEF AbsenceInv, TypeOK, MaybeTimes
<1>5. TimesOrdered'
  BY <1>1, <1>2, <1>3 DEF AbsenceInv, TimesOrdered
<1>6. Records' /\ VerdictsAreCurrent' /\ LateBeat'
  BY <1>1, <1>2, <1>3 DEF AbsenceInv, Records, RecordOK, VerdictsAreCurrent, LateBeat
<1>7. StoppedWell' /\ BlindAtMost' /\ BlindAtLeast' /\ NeverBlind' /\ NoneFabricated'
  <2>1. Kept' = Kept
    BY <1>1 DEF Kept
  <2> QED
    BY <1>1, <1>2, <1>3, <2>1, SameTimes DEF AbsenceInv
<1> QED
  BY <1>4, <1>5, <1>6, <1>7 DEF AbsenceInv

\* Any stop: the file ends with what memory had seen, or it was a crash.
LEMMA StopKeeps ==
  ASSUME AbsenceInv, phase = "up", Stopped,
         memory' \in Stored, disk' \in Stored, crashed' \in BOOLEAN,
         memory'.seen = memory.seen, memory'.poll \in {memory.poll, now},
         \/ disk' = memory' /\ crashed' = crashed
         \/ disk' = disk /\ crashed' = TRUE
  PROVE  AbsenceInv'
<1>1. /\ phase' = "down" /\ saveAt' = Never /\ restarts < MaxRestarts /\ restarts' = restarts + 1
      /\ UNCHANGED <<now, lastBeat, blind, verdict, watched, polledAt, startedAt, obscured>>
  BY DEF Stopped
<1>2. /\ now \in Nat /\ polledAt = now /\ restarts \in Nat /\ restarts' # 0 /\ memory \in Stored
      /\ lastBeat \in Nat /\ now - lastBeat < HEARTBEAT /\ memory.poll = lastBeat
      /\ 1 <= lastBeat /\ lastBeat <= now
  <2>1. /\ now \in Nat /\ polledAt = now /\ restarts \in Nat /\ memory \in Stored
        /\ lastBeat \in Nat /\ now - lastBeat < HEARTBEAT /\ memory.poll = lastBeat
        /\ memory.poll # Never
    BY Numbers DEF AbsenceInv, TimesOrdered, Records
  <2>2. 1 <= lastBeat /\ lastBeat <= now
    BY <2>1 DEF AbsenceInv, Records, RecordOK
  <2> QED
    BY <1>1, <2>1, <2>2
<1>3. TypeOK'
  <2>1. restarts' \in 0 .. MaxRestarts
    BY <1>1, <1>2, Limits
  <2> QED
    BY <1>1, <2>1 DEF AbsenceInv, TypeOK
<1>4. TimesOrdered'
  BY <1>1, <1>2 DEF AbsenceInv, TimesOrdered
<1>5. memory'.poll \in Nat /\ memory'.poll # Never /\ now - memory'.poll < HEARTBEAT
      /\ lastBeat <= memory'.poll /\ memory'.poll <= now
  BY <1>2, Limits
<1>6. Records'
  <2>1. RecordOK(memory)'
    <3>1. \A a \in Appliances : memory'.seen[a] # Never => memory'.seen[a] <= memory'.poll
      <4> SUFFICES ASSUME NEW a \in Appliances, memory.seen[a] # Never
                   PROVE  memory.seen[a] <= memory'.poll
        OBVIOUS
      <4>1. memory.seen[a] \in Nat /\ memory.seen[a] <= lastBeat
        BY <1>2, StoredType DEF AbsenceInv, Records, RecordOK
      <4> QED
        BY <1>2, <1>5, <4>1
    <3> QED
      BY <1>1, <1>2, <1>5, <3>1 DEF RecordOK
  <2>2. RecordOK(disk)'
    BY <1>1, <2>1 DEF AbsenceInv, Records, RecordOK
  <2> QED
    BY <1>1, <1>2, <2>1, <2>2 DEF Records
<1>7. VerdictsAreCurrent' /\ LateBeat'
  BY <1>1 DEF VerdictsAreCurrent, LateBeat
<1>8. Kept' = disk' /\ Kept = memory
  BY <1>1 DEF Kept
<1>9. StoppedWell'
  BY <1>1, <1>2, <1>5, <1>8 DEF StoppedWell
<1>10. BlindAtMost'
  <2>1. PICK r \in Nat : r = restarts * Lost /\ restarts' * Lost = r + Lost
    BY <1>1, <1>2, LostType
  <2> SUFFICES ASSUME ~crashed', NEW a \in Appliances, disk'.seen[a] # Never
               PROVE  watched[a] + Lost <= polledAt - disk'.seen[a] + restarts' * Lost
    BY <1>1, <1>2, <1>8 DEF BlindAtMost
  <2>2. disk'.seen[a] = memory.seen[a] /\ ~crashed
    OBVIOUS
  <2>3. PICK s, b, w : s = memory.seen[a] /\ b = blind[CircuitOf[a]] /\ w = watched[a]
    OBVIOUS
  <2>4. s \in Nat /\ b \in Nat /\ w \in Nat
    BY <1>2, <2>2, <2>3, StoredType, Numbers DEF AbsenceInv
  <2>5. b + w <= now - s + r
    BY <1>8, <2>1, <2>2, <2>3 DEF AbsenceInv, BlindAtMost
  <2> QED
    BY <1>2, <2>1, <2>2, <2>3, <2>4, <2>5, Limits
<1>11. BlindAtLeast'
  <2> SUFFICES ASSUME Apart, NothingForgotten', NEW a \in Appliances, disk'.seen[a] # Never
               PROVE  polledAt - disk'.seen[a] <= watched[a]
    <3>1. \A a \in Appliances : watched[a] \in Nat
      BY Numbers DEF AbsenceInv
    <3> QED
      BY <1>1, <1>8, <3>1 DEF BlindAtLeast
  <2>1. restarts = 0 /\ ~obscured /\ ~crashed'
    BY <1>1, <1>2 DEF NothingForgotten
  <2>2. disk'.seen[a] = memory.seen[a]
    BY <2>1
  <2>3. blind[CircuitOf[a]] = 0 /\ watched[a] \in Nat
    BY <2>1, Numbers DEF AbsenceInv, NeverBlind
  <2>4. polledAt - memory.seen[a] <= watched[a] + blind[CircuitOf[a]]
    BY <1>8, <2>1, <2>2 DEF AbsenceInv, BlindAtLeast, NothingForgotten
  <2> QED
    BY <2>2, <2>3, <2>4
<1>12. NeverBlind' /\ NoneFabricated'
  BY <1>1, <1>2 DEF AbsenceInv, NeverBlind, NoneFabricated, NoFabricatedSilence, NothingForgotten
<1> QED
  BY <1>3, <1>4, <1>6, <1>7, <1>9, <1>10, <1>11, <1>12 DEF AbsenceInv

\* An unload writes the heartbeat.
LEMMA UnloadKeeps ==
  ASSUME AbsenceInv, Unload
  PROVE  AbsenceInv'
<1>1. /\ phase = "up" /\ Stopped /\ memory' = [memory EXCEPT !.poll = now]
      /\ disk' = memory' /\ crashed' = crashed
  BY DEF Unload
<1>2. now \in Times /\ memory \in Stored /\ crashed \in BOOLEAN
  BY DEF AbsenceInv, TypeOK
<1>3. memory' \in Stored /\ memory'.seen = memory.seen /\ memory'.poll = now
  BY <1>1, <1>2 DEF Stored, MaybeTimes
<1> QED
  BY <1>1, <1>2, <1>3, StopKeeps

\* So does an orderly shutdown.
LEMMA ShutdownKeeps ==
  ASSUME AbsenceInv, Shutdown
  PROVE  AbsenceInv'
<1>1. /\ phase = "up" /\ Stopped /\ UNCHANGED <<memory, crashed>>
      /\ disk' = IF saveAt = Never THEN disk ELSE memory
  BY DEF Shutdown
<1>2. memory \in Stored /\ crashed \in BOOLEAN
  BY DEF AbsenceInv, TypeOK
<1>3. disk' = memory
  BY <1>1 DEF AbsenceInv, Records
<1> QED
  BY <1>1, <1>2, <1>3, StopKeeps

\* A crash leaves the file as it was last saved.
LEMMA CrashKeeps ==
  ASSUME AbsenceInv, Crash
  PROVE  AbsenceInv'
<1>1. phase = "up" /\ Stopped /\ crashed' = TRUE /\ UNCHANGED <<memory, disk>>
  BY DEF Crash
<1>2. memory \in Stored /\ disk \in Stored
  BY DEF AbsenceInv, TypeOK
<1> QED
  BY <1>1, <1>2, StopKeeps

\* A step that changes nothing.
LEMMA StutterKeeps ==
  ASSUME AbsenceInv, UNCHANGED vars
  PROVE  AbsenceInv'
<1> USE DEF AbsenceInv, vars
<1>1. TypeOK' /\ TimesOrdered' /\ Records'
  BY DEF TypeOK, TimesOrdered, Records, RecordOK
<1>2. VerdictsAreCurrent' /\ LateBeat'
  BY DEF VerdictsAreCurrent, VerdictOf, LateBeat
<1>3. StoppedWell' /\ BlindAtMost' /\ BlindAtLeast' /\ NeverBlind' /\ NoneFabricated'
  <2>1. Kept' = Kept
    BY DEF Kept
  <2> QED
    BY <2>1, SameTimes
<1> QED
  BY <1>1, <1>2, <1>3

\* The invariant holds in every reachable state.
LEMMA AbsenceInvariant ==
  Spec => []AbsenceInv
<1>1. Init => AbsenceInv
  BY InitAbsenceInv
<1>2. AbsenceInv /\ [Next]_vars => AbsenceInv'
  <2> SUFFICES ASSUME AbsenceInv, [Next]_vars PROVE AbsenceInv'
    OBVIOUS
  <2>1. CASE \E readable \in SUBSET Circuits, running \in SUBSET Appliances :
               Poll(readable, running)
    BY <2>1, PollKeeps
  <2>2. CASE Save
    BY <2>2, SaveKeeps
  <2>3. CASE Unload
    BY <2>3, UnloadKeeps
  <2>4. CASE Shutdown
    BY <2>4, ShutdownKeeps
  <2>5. CASE Crash
    BY <2>5, CrashKeeps
  <2>6. CASE Down
    BY <2>6, DownKeeps
  <2>7. CASE Start
    BY <2>7, StartKeeps
  <2>8. CASE UNCHANGED vars
    BY <2>8, StutterKeeps
  <2> QED
    BY <2>1, <2>2, <2>3, <2>4, <2>5, <2>6, <2>7, <2>8 DEF Next
<1> QED
  BY <1>1, <1>2, PTL DEF Spec

-----------------------------------------------------------------------------
(* Types: every time stays on the clock, blind time included, whatever     *)
(* restarts add to it.                                                     *)
THEOREM AbsenceTypes ==
  Spec => []TypeOK
<1>1. AbsenceInv => TypeOK
  BY DEF AbsenceInv
<1> QED
  BY <1>1, AbsenceInvariant, PTL

(* Where no two appliances share a circuit, one is called overdue only     *)
(* when its circuit was watched for the limit since it ran, up to the      *)
(* first restart, and after it if nothing was forgotten (analysis.py:363). *)
(* With two on a circuit it is false: coordinator.py:488 clears the blind  *)
(* time of both when one is seen.                                          *)
THEOREM OverdueWasWatched ==
  ASSUME Apart
  PROVE  Spec => []SilenceWasWatched
<1>1. AbsenceInv => SilenceWasWatched
  BY DEF AbsenceInv, NoneFabricated, NothingForgotten, SilenceWasWatched
<1> QED
  BY <1>1, AbsenceInvariant, PTL

(* However often Home Assistant was restarted, an appliance that stopped   *)
(* is called overdue once its circuit was watched for the limit, a         *)
(* heartbeat and a short gap for each restart, and for half of the time.   *)
THEOREM StoppedAppliancesAreNoticed ==
  Spec => []DeadIsNoticed
<1>1. AbsenceInv => DeadIsNoticed
  <2> SUFFICES ASSUME AbsenceInv, NEW a \in Appliances,
                      phase = "up", ~crashed, memory.seen[a] # Never,
                      watched[a] > LIMIT + restarts * Lost,
                      2 * (now - memory.seen[a] - watched[a] + restarts * Lost)
                        <= now - memory.seen[a]
               PROVE  verdict[a] = "overdue"
    BY DEF DeadIsNoticed, Lost
  <2>1. now \in Nat /\ restarts \in Nat /\ watched[a] \in Nat /\ memory \in Stored
        /\ blind[CircuitOf[a]] \in Nat
    BY Numbers DEF AbsenceInv
  <2>2. PICK r \in Nat : r = restarts * Lost
    BY <2>1, LostType
  <2>3. PICK s, b, w : s = memory.seen[a] /\ b = blind[CircuitOf[a]] /\ w = watched[a]
    OBVIOUS
  <2>4. s \in Nat /\ b \in Nat /\ w \in Nat /\ s # Never
    BY <2>1, <2>3, StoredType
  <2>5. b + w <= now - s + r
    BY <2>2, <2>3 DEF AbsenceInv, BlindAtMost, Kept
  <2>6. w > LIMIT + r /\ 2 * (now - s - w + r) <= now - s
    BY <2>2, <2>3
  <2>7. ~(2 * b > now - s) /\ now - s - b > LIMIT
    BY <2>1, <2>2, <2>4, <2>5, <2>6, Limits
  <2>8. VerdictOf(a) = IF s = Never THEN "none"
                       ELSE IF 2 * b > now - s THEN "unknown"
                       ELSE IF now - s - b > LIMIT THEN "overdue" ELSE "ok"
    BY <2>3, Zenon DEF VerdictOf
  <2>9. verdict[a] = VerdictOf(a)
    BY DEF AbsenceInv, VerdictsAreCurrent
  <2> QED
    BY <2>4, <2>7, <2>8, <2>9
<1> QED
  BY <1>1, AbsenceInvariant, PTL

(* While nothing runs, the file's poll is never older than a heartbeat and *)
(* the delay of a save (coordinator.py:538): a heartbeat that is not yet   *)
(* in the file followed one that is.                                       *)
THEOREM CrashLosesLittle ==
  Spec => []HeartbeatIsRecent
<1>1. AbsenceInv => HeartbeatIsRecent
  <2> SUFFICES ASSUME AbsenceInv, phase = "up", now - startedAt > SAVE_DELAY,
                      \A a \in Appliances :
                        memory.seen[a] = Never \/ now - memory.seen[a] > SAVE_DELAY
               PROVE  disk.poll # Never /\ now - disk.poll <= HEARTBEAT + SAVE_DELAY
    BY DEF HeartbeatIsRecent
  <2>1. /\ now \in Nat /\ startedAt \in Nat /\ lastBeat \in Nat /\ lastBeat # Never
        /\ memory.poll = lastBeat /\ now - lastBeat < HEARTBEAT
    BY Numbers DEF AbsenceInv, Records
  <2>2. CASE saveAt = Never
    <3>1. disk = memory
      BY <2>2 DEF AbsenceInv, Records
    <3> QED
      BY <2>1, <3>1, Limits
  <2>3. CASE saveAt # Never
    <3>1. saveAt = lastBeat + SAVE_DELAY /\ now <= saveAt
      BY <2>3 DEF AbsenceInv, Records, TimesOrdered
    <3>2. now - lastBeat <= SAVE_DELAY
      BY <2>1, <3>1, Limits
    <3>3. lastBeat # startedAt
      BY <2>1, <3>2, Limits
    <3>4. \A a \in Appliances : memory.seen[a] # lastBeat
      BY <2>1, <3>2, Limits
    <3>5. disk.poll # Never /\ disk.poll = lastBeat - HEARTBEAT
      BY <2>3, <3>3, <3>4 DEF AbsenceInv, LateBeat
    <3> QED
      BY <2>1, <3>2, <3>5, Limits
  <2> QED
    BY <2>2, <2>3
<1> QED
  BY <1>1, AbsenceInvariant, PTL

-----------------------------------------------------------------------------
(* SourceRenames: the inductive invariant.                                 *)

Handler == [old : Ids, new : Ids, content : [Known -> Ids]]

Away == missed \cup raced

\* Where the handlers take an id, one after the other.
IsWalk(f, from, to) ==
  /\ f[1] = from
  /\ \A i \in DOMAIN handlers :
       f[i + 1] = IF f[i] = handlers[i].old THEN handlers[i].new ELSE f[i]
  /\ f[Len(handlers) + 1] = to

Walks(from, to) == \E f \in [1 .. Len(handlers) + 1 -> Ids] : IsWalk(f, from, to)

\* The ids that are being given up are nobody's.
OldIdsAreFree ==
  /\ \A i \in DOMAIN handlers : handlers[i].old \notin Range(ids)
  /\ \A i \in DOMAIN late : late[i].old \notin Range(ids)

\* The handlers will bring the entry up to date; a source whose id in the entry is
\* behind is one whose id is in the store.
DataWillFollow ==
  \A s \in Configured \ Away :
    /\ Walks(data[s], ids[s])
    /\ data[s] # ids[s] => ids[s] \in Range(shelved)

\* The store object knows the ids, and so does what the next one may be loaded from.
ShelvedFollows ==
  \A s \in Known \ Away :
    /\ shelved[s] = ids[s]
    /\ \A i \in DOMAIN late : late[i].content[s] = ids[s]
    /\ stage # "loaded" => file[s] = ids[s]

\* Handlers begin while the entry is subscribed to what it was set up with, and the
\* last instance's are done when the next is loaded.
Subscribed ==
  /\ IF Listening THEN Range(config) \subseteq tracked ELSE tracked = {} /\ handlers = <<>>
  /\ stage = "loaded" => late = <<>>

\* A setup or an instance that is not about to reload is of the entry's data.
ConfigIsData ==
  options = NoOptions /\ ~reloading /\ stage \in {"loading", "setup", "loaded"} =>
    \A s \in Configured \ Away : config[s] = data[s]

EntryInv ==
  /\ SourcesTypeOK /\ handlers \in Seq(Handler) /\ late \in Seq(Handler)
  /\ OldIdsAreFree /\ DataWillFollow /\ ShelvedFollows
  /\ Subscribed /\ ConfigIsData

-----------------------------------------------------------------------------
(* Lemmas on ids, and on where the handlers take them.                     *)

\* Two sources have two ids, and a source's id is in use.
LEMMA IdsDiffer ==
  ASSUME SourcesTypeOK
  PROVE  /\ ids \in [Sources -> Ids]
         /\ \A s, t \in Sources : ids[s] = ids[t] => s = t
         /\ \A s \in Sources : ids[s] \in Range(ids)
         /\ \A x \in Range(ids) : \E s \in Sources : x = ids[s]
BY DEF SourcesTypeOK, Injection, IsInjective, Range

\* A nonempty set of numbers has a least one.
LEMMA Smallest ==
  ASSUME NEW T, T \subseteq Nat, T # {}
  PROVE  \E x \in T : \A y \in T : x <= y
<1> DEFINE R == OpToRel(<, Nat)
<1>1. \A x, y \in Nat : y < x => <<y, x>> \in R
  BY DEF OpToRel
<1>2. IsWellFoundedOn(R, Nat)
  BY NatLessThanWellFounded, Zenon
<1> HIDE DEF R
<1>3. PICK x \in T : \A y \in T : ~(<<y, x>> \in R)
  BY <1>2, WFMin
<1>4. \A y \in T : ~(y < x)
  BY <1>1, <1>3
<1>5. x \in Nat /\ \A y \in T : y \in Nat
  OBVIOUS
<1> QED
  BY <1>4, <1>5

\* An id no handler gives up stays where it is.
LEMMA WalkStays ==
  ASSUME handlers \in Seq(Handler), NEW x, NEW f, NEW to, IsWalk(f, x, to),
         \A i \in DOMAIN handlers : handlers[i].old # x
  PROVE  to = x
<1> DEFINE n == Len(handlers)
           moved == {i \in 1 .. n + 1 : f[i] # x}
<1>1. n \in Nat /\ DOMAIN handlers = 1 .. n
  OBVIOUS
<1>2. f[1] = x /\ f[n + 1] = to
  BY DEF IsWalk
<1>3. moved = {}
  <2> SUFFICES ASSUME moved # {} PROVE FALSE
    OBVIOUS
  <2>1. moved \subseteq Nat
    BY <1>1
  <2>2. PICK i \in moved : \A j \in moved : i <= j
    BY <2>1, Smallest
  <2>3. i # 1 /\ i - 1 \in 1 .. n /\ i - 1 \notin moved
    BY <1>1, <1>2, <2>2
  <2>4. f[i - 1] = x
    BY <2>3, <1>1
  <2>5. f[(i - 1) + 1] = x
    BY <2>3, <2>4, <1>1 DEF IsWalk
  <2>6. (i - 1) + 1 = i
    BY <1>1
  <2> QED
    BY <2>2, <2>5, <2>6
<1>4. n + 1 \in 1 .. n + 1
  BY <1>1
<1> QED
  BY <1>2, <1>3, <1>4

\* Conversely, it is its own walk.
LEMMA StaysWalks ==
  ASSUME handlers \in Seq(Handler), NEW x \in Ids,
         \A i \in DOMAIN handlers : handlers[i].old # x
  PROVE  Walks(x, x)
<1> DEFINE n == Len(handlers)
           f == [i \in 1 .. n + 1 |-> x]
<1>1. n \in Nat /\ DOMAIN handlers = 1 .. n
  OBVIOUS
<1>2. /\ f[1] = x /\ f[n + 1] = x
      /\ \A i \in 1 .. n : f[i] = x /\ f[i + 1] = x
  BY <1>1
<1>3. f \in [1 .. n + 1 -> Ids]
  OBVIOUS
<1> HIDE DEF f
<1>4. IsWalk(f, x, x)
  BY <1>1, <1>2 DEF IsWalk
<1> QED
  BY <1>3, <1>4 DEF Walks

\* An id in use, if the handlers take it to one, is that one.
LEMMA InUseIsThere ==
  ASSUME handlers \in Seq(Handler), OldIdsAreFree, NEW x \in Range(ids), NEW to, Walks(x, to)
  PROVE  to = x
BY WalkStays DEF Walks, OldIdsAreFree

\* With no handlers left it is there.
LEMMA EmptyWalk ==
  ASSUME handlers = <<>>, NEW x, NEW y, Walks(x, y)
  PROVE  x = y
BY DEF Walks, IsWalk

-----------------------------------------------------------------------------
(* The invariant holds initially and after every step.                     *)

\* At first every name is the id.
LEMMA InitEntryInv ==
  SourcesInit => EntryInv
<1> SUFFICES ASSUME SourcesInit PROVE EntryInv
  OBVIOUS
<1>1. /\ FirstIds \in [Sources -> Ids] /\ FirstIds \in Injection(Sources, Ids)
      /\ Configured \subseteq Sources /\ Known \subseteq Sources
  BY SourceRenamesAssumption DEF Injection
<1>2. /\ ids = FirstIds /\ data = [s \in Configured |-> FirstIds[s]]
      /\ shelved = [s \in Known |-> FirstIds[s]] /\ file = shelved /\ config = data
      /\ options \in {NoOptions, data} /\ stage = "down" /\ tracked = {}
      /\ reloading = FALSE /\ missed = {} /\ raced = {}
      /\ handlers = <<>> /\ late = <<>>
  BY DEF SourcesInit
<1>3. data \in [Configured -> Ids] /\ shelved \in [Known -> Ids]
  BY <1>1, <1>2
<1>4. SourcesTypeOK
  BY <1>1, <1>2, <1>3 DEF SourcesTypeOK
<1>5. /\ handlers \in Seq(Handler) /\ DOMAIN handlers = {}
      /\ late \in Seq(Handler) /\ DOMAIN late = {}
  BY <1>2
<1>6. DataWillFollow
  BY <1>1, <1>2, <1>3, <1>5, StaysWalks DEF DataWillFollow
<1>7. ShelvedFollows
  BY <1>1, <1>2, <1>5 DEF ShelvedFollows
<1>8. Subscribed /\ ConfigIsData
  BY <1>2 DEF Subscribed, ConfigIsData, Listening
<1> QED
  BY <1>4, <1>5, <1>6, <1>7, <1>8 DEF EntryInv, OldIdsAreFree

\* What says nothing about setup is kept where ids, handlers and names stay.
LEMMA NamesStay ==
  ASSUME UNCHANGED <<ids, data, handlers, late, shelved, missed, raced>>,
         OldIdsAreFree, DataWillFollow
  PROVE  (OldIdsAreFree /\ DataWillFollow)'
BY DEF OldIdsAreFree, DataWillFollow, Walks, IsWalk, Away

\* Setup reads the entry with no handler left to end, so all it reads is up to date.
LEMMA SetupInv ==
  ASSUME EntryInv, SetupStep
  PROVE  EntryInv'
<1> USE DEF EntryInv
<1>1. UNCHANGED <<ids, data, options, handlers, late, missed, raced>> /\ Away' = Away
  BY DEF SetupStep, SetupNotReady, SetupBegins, StoreLoads, SetupEnds, UnloadBegins,
         UnloadEnds, Away
<1>2. reloading' \in BOOLEAN
  BY DEF SetupStep, SetupNotReady, SetupBegins, StoreLoads, SetupEnds, UnloadBegins,
         UnloadEnds, SetupStarts, SourcesTypeOK
<1>3. ASSUME shelved' = shelved,
             \A s \in Known \ Away : stage' # "loaded" => file'[s] = ids[s]
      PROVE  (OldIdsAreFree /\ DataWillFollow /\ ShelvedFollows)'
  <2>1. (OldIdsAreFree /\ DataWillFollow)'
    BY <1>1, <1>3, NamesStay
  <2> QED
    BY <1>1, <1>3, <2>1 DEF ShelvedFollows
<1>4. CASE SetupNotReady
  <2>1. /\ UNCHANGED <<config, tracked, shelved, file>> /\ stage' = "retry"
        /\ stage \in {"down", "retry"}
    BY <1>4 DEF SetupNotReady
  <2>2. SourcesTypeOK'
    BY <1>1, <1>2, <2>1 DEF SourcesTypeOK
  <2>3. (OldIdsAreFree /\ DataWillFollow /\ ShelvedFollows)'
    BY <1>3, <2>1 DEF ShelvedFollows
  <2>4. Subscribed' /\ ConfigIsData'
    BY <1>1, <2>1 DEF Subscribed, ConfigIsData, Listening
  <2> QED
    BY <1>1, <2>2, <2>3, <2>4
<1>5. CASE SetupBegins
  <2>1. /\ UNCHANGED <<tracked, shelved, file>> /\ stage' = "loading"
        /\ stage \in {"down", "retry"} /\ config' = Effective(data, options)
    BY <1>5 DEF SetupBegins
  <2>2. SourcesTypeOK'
    BY <1>1, <1>2, <2>1 DEF SourcesTypeOK, Effective
  <2>3. (OldIdsAreFree /\ DataWillFollow /\ ShelvedFollows)'
    BY <1>3, <2>1 DEF ShelvedFollows
  <2>4. Subscribed' /\ ConfigIsData'
    BY <1>1, <2>1 DEF Subscribed, ConfigIsData, Listening, Effective
  <2> QED
    BY <1>1, <2>2, <2>3, <2>4
<1>6. CASE StoreLoads
  <2>1. /\ UNCHANGED <<config, tracked, file, reloading>> /\ stage' = "setup"
        /\ stage = "loading" /\ shelved' = file
    BY <1>6 DEF StoreLoads
  <2>2. SourcesTypeOK'
    BY <1>1, <2>1 DEF SourcesTypeOK
  <2>3. \A s \in Configured \ Away : data[s] = ids[s]
    BY <2>1, EmptyWalk DEF Subscribed, Listening, DataWillFollow
  <2>4. OldIdsAreFree'
    BY <1>1 DEF OldIdsAreFree
  <2>5. \A x, y : Walks(x, y) => Walks(x, y)'
    BY <1>1 DEF Walks, IsWalk
  <2>6. DataWillFollow'
    BY <1>1, <2>3, <2>5 DEF DataWillFollow
  <2>7. ShelvedFollows'
    BY <1>1, <2>1 DEF ShelvedFollows
  <2>8. Subscribed' /\ ConfigIsData'
    BY <1>1, <2>1 DEF Subscribed, ConfigIsData, Listening
  <2> QED
    BY <1>1, <2>2, <2>4, <2>6, <2>7, <2>8
<1>7. CASE SetupEnds
  <2>1. /\ UNCHANGED <<config, shelved, file, reloading>> /\ stage' = "loaded"
        /\ stage = "setup" /\ late = <<>>
        /\ tracked' = Range(config) \cup {shelved[s] : s \in Assigned}
    BY <1>7 DEF SetupEnds
  <2>2. tracked' \subseteq Ids
    BY <2>1, SourceRenamesAssumption DEF SourcesTypeOK, Range
  <2>3. SourcesTypeOK'
    BY <1>1, <2>1, <2>2 DEF SourcesTypeOK
  <2>4. (OldIdsAreFree /\ DataWillFollow /\ ShelvedFollows)'
    BY <1>3, <2>1
  <2>5. Subscribed' /\ ConfigIsData'
    BY <1>1, <2>1 DEF Subscribed, ConfigIsData, Listening
  <2> QED
    BY <1>1, <2>3, <2>4, <2>5
<1>8. CASE UnloadBegins
  <2>1. /\ UNCHANGED <<config, tracked, shelved>> /\ stage' = "unloading"
        /\ stage = "loaded" /\ file' = shelved
    BY <1>8 DEF UnloadBegins
  <2>2. SourcesTypeOK'
    BY <1>1, <1>2, <2>1 DEF SourcesTypeOK
  <2>3. (OldIdsAreFree /\ DataWillFollow /\ ShelvedFollows)'
    BY <1>3, <2>1 DEF ShelvedFollows
  <2>4. Subscribed' /\ ConfigIsData'
    BY <1>1, <2>1 DEF Subscribed, ConfigIsData, Listening
  <2> QED
    BY <1>1, <2>2, <2>3, <2>4
<1>9. CASE UnloadEnds
  <2>1. /\ UNCHANGED <<config, shelved, reloading>> /\ stage' = "down" /\ tracked' = {}
        /\ stage = "unloading" /\ handlers = <<>> /\ file' \in {file, shelved}
    BY <1>9 DEF UnloadEnds
  <2>2. SourcesTypeOK'
    BY <1>1, <2>1 DEF SourcesTypeOK
  <2>3. (OldIdsAreFree /\ DataWillFollow /\ ShelvedFollows)'
    BY <1>3, <2>1 DEF ShelvedFollows
  <2>4. Subscribed' /\ ConfigIsData'
    BY <1>1, <2>1 DEF Subscribed, ConfigIsData, Listening
  <2> QED
    BY <1>1, <2>2, <2>3, <2>4
<1> QED
  BY <1>4, <1>5, <1>6, <1>7, <1>8, <1>9 DEF SetupStep

\* A form names by its id what setup needs; what it names otherwise is not followed.
LEMMA FormsInv ==
  ASSUME EntryInv, NEW f \in [Configured -> Ids], SaveOptions(f) \/ Reconfigure(f)
  PROVE  EntryInv'
<1> USE DEF EntryInv
<1>1. CASE SaveOptions(f)
  <2>1. /\ UNCHANGED <<ids, data, config, stage, tracked, handlers, late, shelved, file,
                       missed, raced>>
        /\ options' = f /\ reloading' = (reloading \/ (options # f /\ Listening))
    BY <1>1 DEF SaveOptions
  <2>2. (OldIdsAreFree /\ DataWillFollow)'
    BY <2>1, NamesStay
  <2>3. options' # NoOptions
    BY <2>1, SourceRenamesAssumption
  <2>4. SourcesTypeOK'
    BY <2>1 DEF SourcesTypeOK
  <2>5. ShelvedFollows'
    BY <2>1 DEF ShelvedFollows, Away
  <2>6. Subscribed' /\ ConfigIsData'
    BY <2>1, <2>3 DEF Subscribed, ConfigIsData, Listening
  <2> QED
    BY <2>1, <2>2, <2>4, <2>5, <2>6
<1>2. CASE Reconfigure(f)
  <2>1. /\ UNCHANGED <<ids, config, stage, tracked, handlers, late, shelved, file, raced>>
        /\ data' = f /\ options' = NoOptions /\ reloading' = TRUE
        /\ missed' = missed \cup {s \in Configured : f[s] # ids[s]}
    BY <1>2 DEF Reconfigure
  <2>2. SourcesTypeOK'
    BY <2>1, SourceRenamesAssumption DEF SourcesTypeOK
  <2>3. OldIdsAreFree'
    BY <2>1 DEF OldIdsAreFree
  <2>4. ShelvedFollows'
    BY <2>1 DEF ShelvedFollows, Away
  <2>5. ASSUME NEW s \in Configured, s \notin Away'
        PROVE  Walks(data'[s], ids[s]) /\ data'[s] = ids[s]
    <3>1. data'[s] = ids[s]
      BY <2>1, <2>5 DEF Away
    <3>2. ids[s] \in Ids /\ ids[s] \in Range(ids)
      BY IdsDiffer, SourceRenamesAssumption
    <3>3. \A i \in DOMAIN handlers : handlers[i].old # ids[s]
      BY <3>2 DEF OldIdsAreFree
    <3> QED
      BY <3>1, <3>2, <3>3, StaysWalks
  <2>6. DataWillFollow'
    BY <2>1, <2>5 DEF DataWillFollow, Walks, IsWalk
  <2>7. Subscribed' /\ ConfigIsData'
    BY <2>1 DEF Subscribed, ConfigIsData, Listening
  <2> QED
    BY <2>1, <2>2, <2>3, <2>4, <2>6, <2>7
<1> QED
  BY <1>1, <1>2

\* A handler ends: the entry is one step further on its walk.
LEMMA RenameEndsInv ==
  ASSUME EntryInv, RenameEnds
  PROVE  EntryInv'
<1> USE DEF EntryInv
<1> DEFINE h == handlers[1]
           n == Len(handlers)
<1>1. /\ n \in Nat /\ n >= 1 /\ DOMAIN handlers = 1 .. n
      /\ h \in Handler /\ h = Head(handlers)
      /\ handlers' \in Seq(Handler) /\ Len(handlers') = n - 1 /\ DOMAIN handlers' = 1 .. n - 1
      /\ \A i \in 1 .. n - 1 : handlers'[i] = handlers[i + 1]
  BY DEF RenameEnds
<1>2. /\ UNCHANGED <<ids, options, config, stage, tracked, late, shelved, file, missed, raced>>
      /\ data' = Rewritten(data, h.old, h.new)
      /\ reloading' = (reloading \/ (data' # data /\ Listening))
  BY <1>1 DEF RenameEnds, EntryUpdated
<1>3. /\ data' \in [Configured -> Ids]
      /\ \A s \in Configured : data'[s] = IF data[s] = h.old THEN h.new ELSE data[s]
  <2>1. data \in [Configured -> Ids] /\ h.old \in Ids /\ h.new \in Ids
    BY <1>1 DEF SourcesTypeOK, Handler
  <2> QED
    BY <2>1, <1>2 DEF Rewritten
<1>4. SourcesTypeOK'
  BY <1>2, <1>3 DEF SourcesTypeOK
<1>5. OldIdsAreFree' /\ ShelvedFollows'
  <2>1. \A i \in 1 .. n - 1 : i + 1 \in DOMAIN handlers
    BY <1>1
  <2> QED
    BY <1>1, <1>2, <2>1 DEF OldIdsAreFree, ShelvedFollows, Away
<1>6. h.old \notin Range(ids)
  BY <1>1 DEF OldIdsAreFree
<1>7. \A s \in Configured : data[s] = ids[s] => data'[s] = data[s]
  BY <1>3, <1>6, IdsDiffer, SourceRenamesAssumption
<1>8. DataWillFollow'
  <2> SUFFICES ASSUME NEW s \in Configured \ Away
               PROVE  /\ Walks(data[s], ids[s])'
                      /\ data'[s] # ids[s] => ids[s] \in Range(shelved)
    BY <1>2 DEF DataWillFollow, Range, Away
  <2>1. PICK f \in [1 .. n + 1 -> Ids] : IsWalk(f, data[s], ids[s])
    BY DEF DataWillFollow, Walks
  <2> DEFINE g == [i \in 1 .. n |-> f[i + 1]]
  <2>2. g \in [1 .. (n - 1) + 1 -> Ids]
    BY <1>1
  <2>3. f[2] = data'[s]
    <3>1. 1 \in DOMAIN handlers /\ f[1] = data[s]
      BY <2>1, <1>1 DEF IsWalk
    <3>2. f[1 + 1] = IF f[1] = h.old THEN h.new ELSE f[1]
      BY <3>1, <2>1 DEF IsWalk
    <3> QED
      BY <3>1, <3>2, <1>3
  <2>4. g[1] = data'[s] /\ g[(n - 1) + 1] = ids[s]
    BY <2>1, <2>3, <1>1 DEF IsWalk
  <2>5. ASSUME NEW i \in 1 .. n - 1
        PROVE  g[i + 1] = IF g[i] = handlers'[i].old THEN handlers'[i].new ELSE g[i]
    <3>1. i + 1 \in 1 .. n /\ i \in 1 .. n
      BY <1>1
    <3>2. f[(i + 1) + 1] = IF f[i + 1] = handlers[i + 1].old THEN handlers[i + 1].new
                           ELSE f[i + 1]
      BY <3>1, <2>1, <1>1 DEF IsWalk
    <3> QED
      BY <3>1, <3>2, <1>1
  <2> HIDE DEF g
  <2>6. Walks(data[s], ids[s])'
    BY <2>2, <2>4, <2>5, <1>1, <1>2 DEF Walks, IsWalk
  <2>7. data'[s] # ids[s] => data[s] # ids[s]
    BY <1>7
  <2> QED
    BY <2>6, <2>7 DEF DataWillFollow
<1>9. Listening /\ Listening'
  BY <1>1, <1>2 DEF Subscribed, Listening
<1>10. Subscribed'
  BY <1>2, <1>9 DEF Subscribed
<1>11. ConfigIsData'
  <2>1. ~reloading' => data' = data /\ ~reloading
    BY <1>2, <1>9
  <2> QED
    BY <1>2, <2>1 DEF ConfigIsData, Away
<1> QED
  BY <1>1, <1>2, <1>4, <1>5, <1>8, <1>10, <1>11

\* A late handler ends: the entry has what it gives, and its file is the store of the
\* last instance.
LEMMA LateRenameEndsInv ==
  ASSUME EntryInv, LateRenameEnds
  PROVE  EntryInv'
<1> USE DEF EntryInv
<1> DEFINE h == late[1]
           n == Len(late)
<1>1. /\ n \in Nat /\ n >= 1 /\ DOMAIN late = 1 .. n
      /\ h \in Handler /\ h = Head(late)
      /\ late' \in Seq(Handler) /\ Len(late') = n - 1 /\ DOMAIN late' = 1 .. n - 1
      /\ \A i \in 1 .. n - 1 : late'[i] = late[i + 1]
  BY DEF LateRenameEnds
<1>2. /\ UNCHANGED <<ids, options, config, stage, tracked, handlers, shelved, missed, raced>>
      /\ data' = Rewritten(data, h.old, h.new) /\ file' = h.content
      /\ reloading' = (reloading \/ (data' # data /\ Listening))
      /\ late # <<>> /\ stage # "unloading"
  BY <1>1 DEF LateRenameEnds, EntryUpdated
<1>3. /\ data' \in [Configured -> Ids]
      /\ \A s \in Configured : data'[s] = IF data[s] = h.old THEN h.new ELSE data[s]
  <2>1. data \in [Configured -> Ids] /\ h.old \in Ids /\ h.new \in Ids
    BY <1>1 DEF SourcesTypeOK, Handler
  <2> QED
    BY <2>1, <1>2 DEF Rewritten
<1>4. SourcesTypeOK'
  <2>1. h.content \in [Known -> Ids]
    BY <1>1 DEF Handler
  <2>2. reloading' \in BOOLEAN
    BY <1>2 DEF SourcesTypeOK
  <2> QED
    BY <1>2, <1>3, <2>1, <2>2 DEF SourcesTypeOK
<1>5. \A i \in 1 .. n - 1 : i + 1 \in DOMAIN late
  BY <1>1
<1>6. OldIdsAreFree' /\ ShelvedFollows'
  <2>1. 1 \in DOMAIN late
    BY <1>1
  <2>2. OldIdsAreFree'
    BY <1>1, <1>2, <1>5 DEF OldIdsAreFree
  <2>3. ASSUME NEW s \in Known \ Away
        PROVE  /\ shelved[s] = ids[s]
               /\ \A i \in 1 .. n - 1 : late'[i].content[s] = ids[s]
               /\ file'[s] = ids[s]
    <3>1. \A i \in DOMAIN late : late[i].content[s] = ids[s]
      BY DEF ShelvedFollows
    <3>2. file'[s] = ids[s]
      BY <3>1, <2>1, <1>2
    <3>3. \A i \in 1 .. n - 1 : late'[i].content[s] = ids[s]
      BY <3>1, <1>1, <1>5
    <3> QED
      BY <3>2, <3>3 DEF ShelvedFollows
  <2>4. ShelvedFollows'
    BY <1>1, <1>2, <2>3 DEF ShelvedFollows, Away
  <2> QED
    BY <2>2, <2>4
<1>7. ~Listening /\ handlers = <<>>
  BY <1>2 DEF Subscribed, Listening
<1>8. \A s \in Configured \ Away : data[s] = ids[s]
  BY <1>7, EmptyWalk DEF DataWillFollow
<1>9. \A s \in Configured \ Away : data'[s] = data[s]
  <2>1. h.old \notin Range(ids)
    BY <1>1 DEF OldIdsAreFree
  <2> QED
    BY <1>3, <1>8, <2>1, IdsDiffer, SourceRenamesAssumption
<1>10. DataWillFollow'
  <2>1. \A x, y : Walks(x, y) => Walks(x, y)'
    BY <1>2 DEF Walks, IsWalk
  <2> QED
    BY <1>2, <1>8, <1>9, <2>1 DEF DataWillFollow, Away
<1>11. Subscribed'
  BY <1>1, <1>2, <1>7 DEF Subscribed, Listening
<1>12. ConfigIsData'
  BY <1>2, <1>9 DEF ConfigIsData, Away
<1> QED
  BY <1>1, <1>2, <1>4, <1>6, <1>10, <1>11, <1>12

\* A rename of any source leaves the ids different, and the one given up nobody's.
LEMMA RenamedIds ==
  ASSUME SourcesTypeOK, OldIdsAreFree,
         NEW s \in Sources, NEW new \in Ids, Rename(s, new)
  PROVE  /\ new \notin Range(ids) /\ ids[s] # new
         /\ ids' \in [Sources -> Ids] /\ ids'[s] = new
         /\ \A t \in Sources : t # s => ids'[t] = ids[t] /\ ids[t] # ids[s]
         /\ ids' \in Injection(Sources, Ids)
         /\ ids[s] \in Ids /\ ids[s] \in Range(ids) /\ ids[s] \notin Range(ids')
         /\ \A i \in DOMAIN handlers : handlers[i].old \notin Range(ids')
         /\ \A i \in DOMAIN late : late[i].old \notin Range(ids')
<1>1. /\ new \notin Range(ids) /\ ids' = [ids EXCEPT ![s] = new]
      /\ \A i \in DOMAIN handlers : new # handlers[i].old
      /\ \A i \in DOMAIN late : new # late[i].old
  BY DEF Rename
<1>2. /\ ids' \in [Sources -> Ids] /\ ids'[s] = new /\ ids[s] \in Ids /\ ids[s] # new
      /\ \A t \in Sources : t # s => ids'[t] = ids[t] /\ ids[t] # ids[s]
      /\ ids[s] \in Range(ids)
  BY <1>1, IdsDiffer
<1>3. ids' \in Injection(Sources, Ids)
  <2>1. \A t, u \in Sources : ids'[t] = ids'[u] => t = u
    BY <1>1, <1>2, IdsDiffer
  <2> QED
    BY <1>2, <2>1 DEF Injection, IsInjective
<1>4. \A x \in Range(ids') : x = new \/ x \in Range(ids)
  BY <1>2, IdsDiffer DEF Range
<1>5. ids[s] \notin Range(ids')
  BY <1>2 DEF Range
<1> QED
  BY <1>1, <1>2, <1>3, <1>4, <1>5 DEF OldIdsAreFree

\* A rename nothing is subscribed to is missed.
LEMMA MissedInv ==
  ASSUME EntryInv, NEW s \in Sources, NEW new \in Ids, Rename(s, new),
         ids[s] \notin tracked
  PROVE  EntryInv'
<1> USE DEF EntryInv
<1>1. /\ missed' = missed \cup {s}
      /\ UNCHANGED <<data, options, config, stage, tracked, handlers, late, reloading,
                     shelved, file, raced>>
  BY DEF Rename
<1>2. SourcesTypeOK' /\ OldIdsAreFree'
  BY <1>1, RenamedIds DEF SourcesTypeOK, OldIdsAreFree
<1>3. Configured \subseteq Sources /\ Known \subseteq Sources
  BY SourceRenamesAssumption
<1>4. /\ \A t \in Configured \ Away' : t \in Configured \ Away /\ ids'[t] = ids[t]
      /\ \A t \in Known \ Away' : t \in Known \ Away /\ ids'[t] = ids[t]
  BY <1>1, <1>3, RenamedIds DEF Away
<1>5. DataWillFollow'
  <2>1. \A x, y : Walks(x, y) => Walks(x, y)'
    BY <1>1 DEF Walks, IsWalk
  <2> QED
    BY <1>1, <1>4, <2>1 DEF DataWillFollow
<1>6. ShelvedFollows'
  BY <1>1, <1>4 DEF ShelvedFollows
<1>7. Subscribed' /\ ConfigIsData'
  BY <1>1, <1>4 DEF Subscribed, ConfigIsData, Listening
<1> QED
  BY <1>1, <1>2, <1>5, <1>6, <1>7

\* A rename that is heard reaches the store at once, and the entry in turn if the store
\* knew the id.
LEMMA FollowedInv ==
  ASSUME EntryInv, NEW s \in Sources, NEW new \in Ids, Rename(s, new),
         ids[s] \in tracked
  PROVE  EntryInv'
<1> USE DEF EntryInv
<1> DEFINE old == ids[s]
           n == Len(handlers)
<1>1. /\ shelved' = Rewritten(shelved, old, new)
      /\ UNCHANGED <<options, config, stage, tracked, file, missed>>
  BY DEF Rename
<1>2. /\ ids' \in [Sources -> Ids] /\ ids'[s] = new /\ old \in Ids /\ old # new
      /\ \A t \in Sources : t # s => ids'[t] = ids[t] /\ ids[t] # old
      /\ old \in Range(ids) /\ old \notin Range(ids') /\ new \notin Range(ids)
  BY RenamedIds
<1>3. /\ shelved' \in [Known -> Ids]
      /\ \A t \in Known : shelved'[t] = IF shelved[t] = old THEN new ELSE shelved[t]
  BY <1>1, <1>2 DEF SourcesTypeOK, Rewritten
<1>4. Configured \subseteq Sources /\ Known \subseteq Sources
  BY SourceRenamesAssumption
<1>5. /\ \A i \in DOMAIN handlers : handlers[i].old \notin Range(ids')
      /\ \A i \in DOMAIN late : late[i].old \notin Range(ids')
  BY RenamedIds
<1>6. \A t \in Known \ Away : shelved'[t] = ids'[t]
  BY <1>2, <1>3, <1>4 DEF ShelvedFollows
<1>7. stage \in {"loaded", "unloading"} /\ Listening /\ Listening'
  BY <1>1 DEF Subscribed, Listening
<1>8. stage = "loaded" => late = <<>>
  BY DEF Subscribed
<1>9. \A t \in Known : t # s => ids'[t] = ids[t]
  BY <1>2, <1>4
<1>10. CASE shelved' = shelved
  <2>1. /\ UNCHANGED <<handlers, late, raced>> /\ data' = Rewritten(data, old, new)
        /\ reloading' = (reloading \/ (data' # data /\ Listening))
    BY <1>10 DEF Rename, EntryUpdated
  <2>2. /\ data' \in [Configured -> Ids]
        /\ \A t \in Configured : data'[t] = IF data[t] = old THEN new ELSE data[t]
    BY <2>1, <1>2 DEF SourcesTypeOK, Rewritten
  <2>3. SourcesTypeOK'
    BY <2>1, <2>2, <1>1, <1>3, RenamedIds DEF SourcesTypeOK
  <2>4. OldIdsAreFree'
    BY <2>1, <1>5 DEF OldIdsAreFree
  <2>5. old \notin Range(shelved)
    BY <1>2, <1>3, <1>10 DEF Range, SourcesTypeOK
  <2>6. Away' = Away
    BY <2>1, <1>1 DEF Away
  <2>7. ShelvedFollows'
    <3>1. s \notin Known \ Away
      BY <2>5 DEF ShelvedFollows, SourcesTypeOK, Range
    <3>2. \A t \in Known \ Away : ids'[t] = ids[t]
      BY <3>1, <1>9
    <3> QED
      BY <2>1, <2>6, <3>2, <1>1, <1>10 DEF ShelvedFollows
  <2>8. \A x, y : Walks(x, y) => Walks(x, y)'
    BY <2>1 DEF Walks, IsWalk
  <2>9. ASSUME NEW t \in Configured \ Away
        PROVE  /\ Walks(data'[t], ids'[t])
               /\ data'[t] # ids'[t] => ids'[t] \in Range(shelved)
    <3>1. Walks(data[t], ids[t]) /\ (data[t] # ids[t] => ids[t] \in Range(shelved))
      BY DEF DataWillFollow
    <3>2. CASE t = s
      <4>1. data[s] = old
        BY <3>1, <3>2, <2>5
      <4>2. data'[s] = new /\ ids'[s] = new
        BY <4>1, <3>2, <2>2, <1>2
      <4>3. \A i \in DOMAIN handlers : handlers[i].old # new
        BY DEF Rename
      <4> QED
        BY <3>2, <4>2, <4>3, StaysWalks
    <3>3. CASE t # s
      <4>1. ids'[t] = ids[t] /\ ids[t] # old
        BY <3>3, <1>2, <1>4
      <4>2. data[t] # old
        BY <3>1, <4>1, <1>2, InUseIsThere
      <4>3. data'[t] = data[t]
        BY <4>2, <2>2
      <4> QED
        BY <4>1, <4>3, <3>1
    <3> QED
      BY <3>2, <3>3
  <2>10. DataWillFollow'
    BY <2>6, <2>8, <2>9, <1>10 DEF DataWillFollow
  <2>11. Subscribed'
    BY <2>1, <1>1, <1>7 DEF Subscribed
  <2>12. ConfigIsData'
    BY <2>1, <2>6, <1>1, <1>7 DEF ConfigIsData
  <2> QED
    BY <2>1, <2>3, <2>4, <2>7, <2>10, <2>11, <2>12
<1>11. ASSUME shelved' # shelved
       PROVE  /\ new \in Range(shelved')
              /\ \A x \in Range(shelved) : x # old => x \in Range(shelved')
  <2>1. PICK t \in Known : shelved[t] = old
    BY <1>3, <1>11 DEF SourcesTypeOK
  <2> QED
    BY <2>1, <1>3 DEF Range, SourcesTypeOK
<1>12. CASE shelved' # shelved /\ stage = "unloading"
  <2> DEFINE h == [old |-> old, new |-> new, content |-> shelved']
  <2>1. /\ late' = Append(late, h) /\ raced' = raced \cup {s}
        /\ UNCHANGED <<data, handlers, reloading>>
    BY <1>12 DEF Rename, HandlerWaits
  <2>2. h \in Handler
    BY <1>2, <1>3 DEF Handler
  <2>3. /\ late' \in Seq(Handler)
        /\ \A i \in DOMAIN late' : \/ i \in DOMAIN late /\ late'[i] = late[i]
                                   \/ late'[i] = h
    BY <2>1, <2>2
  <2>4. SourcesTypeOK'
    BY <2>1, <1>1, <1>3, RenamedIds DEF SourcesTypeOK
  <2>5. OldIdsAreFree'
    BY <2>1, <2>3, <1>2, <1>5 DEF OldIdsAreFree
  <2>6. s \in Away' /\ Away \subseteq Away'
    BY <2>1, <1>1 DEF Away
  <2>7. ShelvedFollows'
    <3> SUFFICES ASSUME NEW t \in Known \ Away'
                 PROVE  /\ shelved'[t] = ids'[t]
                        /\ \A i \in DOMAIN late' : late'[i].content[t] = ids'[t]
                        /\ file'[t] = ids'[t]
      BY DEF ShelvedFollows
    <3>1. t \in Known \ Away /\ ids'[t] = ids[t]
      BY <2>6, <1>9
    <3>2. shelved'[t] = ids'[t]
      BY <3>1, <1>6
    <3> QED
      BY <3>1, <3>2, <2>3, <1>1, <1>12 DEF ShelvedFollows
  <2>8. DataWillFollow'
    <3>1. \A x, y : Walks(x, y) => Walks(x, y)'
      BY <2>1 DEF Walks, IsWalk
    <3>2. \A t \in Configured \ Away' :
            t \in Configured \ Away /\ ids'[t] = ids[t] /\ ids[t] # old
      BY <2>6, <1>2, <1>4
    <3> QED
      BY <2>1, <3>1, <3>2, <1>11, <1>12 DEF DataWillFollow
  <2>9. Subscribed' /\ ConfigIsData'
    BY <2>1, <1>1, <1>7, <1>12 DEF Subscribed, ConfigIsData
  <2> QED
    BY <2>1, <2>3, <2>4, <2>5, <2>7, <2>8, <2>9
<1>13. CASE shelved' # shelved /\ stage = "loaded"
  <2> DEFINE h == [old |-> old, new |-> new, content |-> shelved']
  <2>1. handlers' = Append(handlers, h) /\ UNCHANGED <<data, late, raced, reloading>>
    BY <1>13 DEF Rename, HandlerWaits
  <2>2. h \in Handler
    BY <1>2, <1>3 DEF Handler
  <2>3. /\ n \in Nat /\ DOMAIN handlers = 1 .. n
        /\ handlers' \in Seq(Handler) /\ Len(handlers') = n + 1 /\ DOMAIN handlers' = 1 .. n + 1
        /\ handlers'[n + 1] = h
        /\ \A i \in 1 .. n : handlers'[i] = handlers[i]
    BY <2>1, <2>2
  <2>4. SourcesTypeOK'
    BY <2>1, <1>1, <1>3, RenamedIds DEF SourcesTypeOK
  <2>5. OldIdsAreFree'
    <3> SUFFICES ASSUME NEW i \in 1 .. n + 1 PROVE handlers'[i].old \notin Range(ids')
      BY <2>1, <2>3, <1>5 DEF OldIdsAreFree
    <3>1. CASE i = n + 1
      BY <3>1, <2>3, <1>2
    <3>2. CASE i # n + 1
      <4>1. i \in DOMAIN handlers /\ handlers'[i] = handlers[i]
        BY <3>2, <2>3
      <4> QED
        BY <4>1, <1>5
    <3> QED
      BY <3>1, <3>2
  <2>6. Away' = Away
    BY <2>1, <1>1 DEF Away
  <2>7. ShelvedFollows'
    BY <2>1, <2>6, <1>1, <1>6, <1>8, <1>13 DEF ShelvedFollows
  <2>8. ASSUME NEW t \in Configured \ Away
        PROVE  /\ \E f \in [1 .. n + 2 -> Ids] :
                    /\ f[1] = data[t]
                    /\ \A i \in 1 .. n + 1 :
                         f[i + 1] = IF f[i] = handlers'[i].old THEN handlers'[i].new ELSE f[i]
                    /\ f[n + 2] = ids'[t]
               /\ data[t] # ids'[t] => ids'[t] \in Range(shelved')
    <3>1. Walks(data[t], ids[t]) /\ (data[t] # ids[t] => ids[t] \in Range(shelved))
      BY DEF DataWillFollow
    <3>2. PICK f \in [1 .. n + 1 -> Ids] : IsWalk(f, data[t], ids[t])
      BY <3>1 DEF Walks
    <3> DEFINE g == [i \in 1 .. n + 2 |-> IF i = n + 2 THEN ids'[t] ELSE f[i]]
    <3>3. g \in [1 .. n + 2 -> Ids]
      BY <2>3, <1>2, <1>4
    <3>4. g[n + 2] = ids'[t] /\ \A i \in 1 .. n + 1 : g[i] = f[i]
      BY <2>3
    <3> HIDE DEF g
    <3>5. g[1] = data[t] /\ g[n + 1] = ids[t]
      BY <3>2, <3>4, <2>3 DEF IsWalk
    <3>6. \A i \in 1 .. n : g[i + 1] = IF g[i] = handlers'[i].old THEN handlers'[i].new ELSE g[i]
      <4> SUFFICES ASSUME NEW i \in 1 .. n
                   PROVE  g[i + 1] = IF g[i] = handlers'[i].old THEN handlers'[i].new ELSE g[i]
        OBVIOUS
      <4>1. i \in 1 .. n + 1 /\ i + 1 \in 1 .. n + 1
        BY <2>3
      <4> QED
        BY <4>1, <3>2, <3>4, <2>3 DEF IsWalk
    <3>7. g[(n + 1) + 1] = IF g[n + 1] = old THEN new ELSE g[n + 1]
      BY <3>4, <3>5, <1>2, <1>4, <2>3
    <3>8. \A i \in 1 .. n + 1 : g[i + 1] = IF g[i] = handlers'[i].old THEN handlers'[i].new ELSE g[i]
      <4> SUFFICES ASSUME NEW i \in 1 .. n + 1
                   PROVE  g[i + 1] = IF g[i] = handlers'[i].old THEN handlers'[i].new ELSE g[i]
        OBVIOUS
      <4>1. i = n + 1 \/ i \in 1 .. n
        BY <2>3
      <4> QED
        BY <4>1, <3>6, <3>7, <2>3
    <3>9. data[t] # ids'[t] => ids'[t] \in Range(shelved')
      BY <3>1, <1>2, <1>4, <1>11, <1>13
    <3> QED
      BY <3>3, <3>4, <3>5, <3>8, <3>9
  <2>9. DataWillFollow'
    <3>1. Len(handlers') + 1 = n + 2
      BY <2>3
    <3>2. ASSUME NEW t \in Configured \ Away
          PROVE  Walks(data[t], ids[t])'
      <4>1. PICK f \in [1 .. n + 2 -> Ids] :
              /\ f[1] = data[t]
              /\ \A i \in 1 .. n + 1 :
                   f[i + 1] = IF f[i] = handlers'[i].old THEN handlers'[i].new ELSE f[i]
              /\ f[n + 2] = ids'[t]
        BY <2>8, <3>2
      <4>2. f[Len(handlers') + 1] = ids'[t] /\ f[1] = data'[t]
        BY <2>1, <3>1, <4>1
      <4>3. IsWalk(f, data[t], ids[t])'
        BY <2>3, <4>1, <4>2 DEF IsWalk
      <4>4. f \in [1 .. Len(handlers') + 1 -> Ids]
        BY <3>1, <4>1
      <4> QED
        BY <4>3, <4>4 DEF Walks
    <3> QED
      BY <2>1, <2>6, <2>8, <3>2 DEF DataWillFollow
  <2>10. Subscribed' /\ ConfigIsData'
    BY <2>1, <2>6, <1>1, <1>7 DEF Subscribed, ConfigIsData
  <2> QED
    BY <2>1, <2>3, <2>4, <2>5, <2>7, <2>9, <2>10
<1> QED
  BY <1>7, <1>10, <1>12, <1>13

-----------------------------------------------------------------------------
\* The invariant is inductive.
LEMMA StepEntryInv ==
  EntryInv /\ [SourcesNext]_entry => EntryInv'
<1> SUFFICES ASSUME EntryInv, [SourcesNext]_entry PROVE EntryInv'
  OBVIOUS
<1>1. CASE UNCHANGED entry
  <2>1. UNCHANGED <<ids, data, options, config, stage, tracked, handlers, late, reloading,
                    shelved, file, missed, raced>>
    BY <1>1 DEF entry
  <2>2. (OldIdsAreFree /\ DataWillFollow)'
    BY <2>1, NamesStay DEF EntryInv
  <2>3. ShelvedFollows' /\ Subscribed' /\ ConfigIsData'
    BY <2>1 DEF EntryInv, ShelvedFollows, Subscribed, ConfigIsData, Listening, Away
  <2> QED
    BY <2>1, <2>2, <2>3 DEF EntryInv, SourcesTypeOK
<1>2. CASE SourcesNext
  <2>1. ASSUME NEW s \in Sources, NEW new \in Ids, Rename(s, new) PROVE EntryInv'
    BY <2>1, MissedInv, FollowedInv
  <2> QED
    BY <1>2, <2>1, SetupInv, FormsInv, RenameEndsInv, LateRenameEndsInv DEF SourcesNext
<1> QED
  BY <1>1, <1>2

\* The names of sources and the registry keep their types.
THEOREM SourceTypes == SourcesSpec => []SourcesTypeOK
BY InitEntryInv, StepEntryInv, PTL DEF SourcesSpec, EntryInv

(* As long as a source's renames come while its id is subscribed to and    *)
(* not while an unload saves, and no options are in the way, the store and *)
(* the entry follow, and so does a loaded instance: the mains, the         *)
(* circuits and what the pairs name.                                       *)
THEOREM SourcesAreFollowed == SourcesSpec => []RenamesAreFollowed
<1>1. EntryInv => RenamesAreFollowed
  <2> SUFFICES ASSUME EntryInv PROVE RenamesAreFollowed
    OBVIOUS
  <2>1. ASSUME handlers = <<>>, options = NoOptions, NEW s \in Configured \ Away
        PROVE  /\ data[s] = ids[s]
               /\ stage = "loaded" /\ ~reloading => config[s] = ids[s] /\ ids[s] \in tracked
    <3>1. data[s] = ids[s]
      BY <2>1, EmptyWalk DEF EntryInv, DataWillFollow
    <3>2. ASSUME stage = "loaded", ~reloading
          PROVE  config[s] = ids[s] /\ ids[s] \in tracked
      <4>1. config[s] = ids[s]
        BY <2>1, <3>1, <3>2 DEF EntryInv, ConfigIsData
      <4>2. Range(config) \subseteq tracked /\ config[s] \in Range(config)
        BY <3>2 DEF EntryInv, Subscribed, Listening, Range, SourcesTypeOK
      <4> QED
        BY <4>1, <4>2
    <3> QED
      BY <3>1, <3>2
  <2> QED
    BY <2>1 DEF EntryInv, ShelvedFollows, RenamesAreFollowed, Away
<1> QED
  BY <1>1, InitEntryInv, StepEntryInv, PTL DEF SourcesSpec

-----------------------------------------------------------------------------
(* All that becomes of the readings.                                       *)

\* A behaviour of the sum is one of each part: by its definition, which takes the parts
\* for independent.  Of the three with many inputs only the one looked at is set up.
LEMMA RuntimeIsItsParts ==
  RuntimeSpec => /\ Spec /\ VerdictsSpec /\ SourcesSpec /\ EligibilitySpec
                 /\ part = "history" => SegmentsSpec
                 /\ part = "correlate" => CorrelationSpec
                 /\ part = "map" => AttributionSpec
<1>1. RuntimeInit => /\ Init /\ VerdictsInit /\ SourcesInit /\ EligibilityInit
                     /\ part = "history" => SegmentsInit
                     /\ part = "correlate" => CorrelationInit
                     /\ part = "map" => AttributionInit
  BY DEF RuntimeInit
<1>2. [RuntimeNext]_<<vars, call, entry, eligibilityVars, segmenting, lining, mapping, part>>
        => /\ [Next]_vars /\ [VerdictsNext]_call /\ [SourcesNext]_entry
           /\ [EligibilityNext]_eligibilityVars /\ [SegmentsNext]_segmenting
           /\ [CorrelationNext]_lining /\ [AttributionNext]_mapping
  BY DEF RuntimeNext
<1> QED
  BY <1>1, <1>2, PTL DEF RuntimeSpec, Spec, VerdictsSpec, SourcesSpec, EligibilitySpec,
     SegmentsSpec, CorrelationSpec, AttributionSpec

\* A part that is not looked at stays as it was set up.
LEMMA OtherPartsStay ==
  RuntimeSpec => /\ part # "history" => [](NoHistory)
                 /\ part # "correlate" => [](NoSeries)
                 /\ part # "map" => [](NoDevices)
<1>1. RuntimeInit => /\ part # "history" => NoHistory
                     /\ part # "correlate" => NoSeries
                     /\ part # "map" => NoDevices
  BY DEF RuntimeInit
<1>2. ASSUME [RuntimeNext]_<<vars, call, entry, eligibilityVars, segmenting, lining,
                             mapping, part>>
      PROVE  /\ part' = part
             /\ part # "history" => UNCHANGED segmenting
             /\ part # "correlate" => UNCHANGED lining
             /\ part # "map" => UNCHANGED mapping
  BY <1>2 DEF RuntimeNext
<1>3. NoHistory /\ UNCHANGED segmenting => NoHistory'
  BY DEF NoHistory, segmenting
<1>4. NoSeries /\ UNCHANGED lining => NoSeries'
  BY DEF NoSeries, lining
<1>5. NoDevices /\ UNCHANGED mapping => NoDevices'
  BY DEF NoDevices, mapping
<1>6. [RuntimeNext]_<<vars, call, entry, eligibilityVars, segmenting, lining, mapping, part>>
        => /\ part # "history" /\ NoHistory => (part # "history" /\ NoHistory)'
           /\ part # "correlate" /\ NoSeries => (part # "correlate" /\ NoSeries)'
           /\ part # "map" /\ NoDevices => (part # "map" /\ NoDevices)'
  BY <1>2, <1>3, <1>4, <1>5
<1> QED
  BY <1>1, <1>6, PTL DEF RuntimeSpec

(* Whichever part is looked at, the state of every part keeps its type.    *)
THEOREM RuntimeTypes == RuntimeSpec => []RuntimeTypeOK
<1>1. NoHistory => SegmentsTypeOK
  BY DEF NoHistory, SegmentsTypeOK
<1>2. NoSeries => CorrelationTypeOK
  BY DEF NoSeries, CorrelationTypeOK
<1>3. NoDevices => AttributionTypeOK
  <2> SUFFICES ASSUME NoDevices PROVE AttributionTypeOK
    OBVIOUS
  <2>1. Flat \in [1 .. CELLS -> Nat]
    BY DEF Flat
  <2>2. residual \in [Clamps -> [1 .. CELLS -> Nat]]
    BY <2>1, Zenon DEF NoDevices
  <2>3. remaining \subseteq Metered
    BY DEF NoDevices
  <2>4. result \in [Metered -> Clamps \cup {"open", "no transition", "ambiguous",
                                             "no candidate"}]
    BY DEF NoDevices
  <2> QED
    BY <2>2, <2>3, <2>4 DEF AttributionTypeOK
<1>4. /\ TypeOK /\ VerdictsTypeOK /\ SourcesTypeOK /\ EligibilityTypeOK
      /\ SegmentsTypeOK /\ CorrelationTypeOK /\ AttributionTypeOK
      => RuntimeTypeOK
  BY DEF RuntimeTypeOK
<1>5. /\ part = "history" \/ part # "history"
      /\ part = "correlate" \/ part # "correlate"
      /\ part = "map" \/ part # "map"
  OBVIOUS
<1> QED
  BY <1>1, <1>2, <1>3, <1>4, <1>5, RuntimeIsItsParts, OtherPartsStay, AbsenceTypes, VerdictsTypes,
     SourceTypes, EligibilityTypes, CuttingTypes, CorrelationTypes, AttributionTypes, PTL

(* All that is promised of the readings at once: who is silent was         *)
(* watched, who stopped is noticed, a crash loses little, a measured       *)
(* answer is right but for coincidences, renames are followed, and a       *)
(* circuit is watched as its readings say; of a history, a series and a    *)
(* set of devices that are looked at, runs are whole, matches are the most *)
(* there can be, and draws are carried.  The hypotheses are those of       *)
(* OverdueWasWatched and QuietPanelsAreMeasured.                           *)
THEOREM RuntimeKeepsItsPromises ==
  ASSUME Apart, DrawsStandOut
  PROVE  RuntimeSpec =>
           /\ [](SilenceWasWatched /\ DeadIsNoticed /\ HeartbeatIsRecent)
           /\ [](WrongTakesCoincidences /\ QuietPanelIsMeasured)
           /\ [](RenamesAreFollowed /\ EligibilityFollowsTheReadings)
           /\ part = "history" => []RunsAreWhole
           /\ part = "correlate" => []MatchesAreMost
           /\ part = "map" => []PlacedDrawIsCarried
<1>1. Spec => []SilenceWasWatched
  BY OverdueWasWatched
<1>2. VerdictsSpec => []QuietPanelIsMeasured
  BY QuietPanelsAreMeasured
<1> QED
  BY <1>1, <1>2, RuntimeIsItsParts, StoppedAppliancesAreNoticed, CrashLosesLittle,
     WrongMeasurementsAreCoincidences, SourcesAreFollowed, EligibilityIsJustified,
     SegmentsAreWhole, EarliestFirstMatchesMost, PlacedDrawsAreCarried, PTL
=============================================================================
