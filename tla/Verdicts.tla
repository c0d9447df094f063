------------------------------ MODULE Verdicts ------------------------------
(***************************************************************************)
(* What a probe concludes (verify.py, called by _verify in services.py):   *)
(* the device is switched a number of times, and every time each channel   *)
(* of the panel is read before and after, the device's own meter too.      *)
(*                                                                         *)
(* A call is modelled from its checks to its conclusion; the switching and *)
(* the automations are in ProbePause.  Watts are whole; a match is in      *)
(* thousandths, as the code rounds it.  Meanwhile other loads change each  *)
(* channel by one of Steps, a channel may be unreadable, and the device's  *)
(* meter reports the draw, has not reported it yet, or is unreadable.  A   *)
(* device that was on draws less while it is probed: its steps are then    *)
(* the negatives of these.                                                 *)
(***************************************************************************)
EXTENDS Integers, Sequences, FiniteSets, FiniteSetsExt

CONSTANTS
  Channels,    \* the circuits of the panel
  Loads,       \* what may be asked about, records as in Load below
  Steps,       \* what other loads change a channel by during a round
  NOISE_W,     \* min change of a channel that is a step
  RUNNING_W,   \* a device drawing more than this is in use
  TOLERANCE_M, \* how far a match may be from 1000
  MARGIN,      \* by how much the best match must win
  MaxRounds,   \* bound: probes of a call
  Unread, NoChannel

Load == [domain : STRING, category : STRING, siblings : SUBSET STRING, on : BOOLEAN,
         watts : Nat \cup {Unread}, draw : Nat, home : Channels \cup {NoChannel},
         force : BOOLEAN]

ASSUME VerdictsAssumption ==
  /\ Loads \subseteq Load /\ Steps \subseteq Int
  /\ {NOISE_W, RUNNING_W, TOLERANCE_M, MARGIN, MaxRounds} \subseteq Nat
  /\ NoChannel \notin Channels /\ Unread \notin Int

Size(watts) == IF watts < 0 THEN -watts ELSE watts

-----------------------------------------------------------------------------
(* What may be probed at all.                                              *)

MayProbe(d) ==
  d.domain \in {"switch", "light"} /\ d.category \notin {"config", "diagnostic"}

IsBatteryPowered(d) ==
  /\ "battery" \in d.siblings
  /\ d.siblings \cap {"power", "energy", "current", "apparent_power"} = {}

SafeToSwitchOff(d) == d.on => d.watts # Unread /\ d.watts <= RUNNING_W

-----------------------------------------------------------------------------
(* What one probe shows.                                                   *)

\* rank_deltas: how alike two changes in one direction are.
Match(delta, expected) ==
  LET small == Min({Size(delta), Size(expected)})
      large == Max({Size(delta), Size(expected)})
  IN  (2000 * small + large) \div (2 * large)

\* The channels, of those read, that changed as expected.
Candidates(delta, read, expected) ==
  {c \in read : /\ Size(delta[c]) >= NOISE_W
                /\ delta[c] * expected > 0
                /\ Match(delta[c], expected) >= 1000 - TOLERANCE_M}

\* decide: the best match, if it beats every other.
Decide(delta, candidates, expected) ==
  LET clear(c) == \A d \in candidates \ {c} :
                    Match(delta[c], expected) - Match(delta[d], expected) >= MARGIN
  IN  IF \E c \in candidates : clear(c) THEN CHOOSE c \in candidates : clear(c)
      ELSE NoChannel

\* The device's own change or, unmetered, the largest change of a channel.
Expected(delta, read, meter) ==
  IF meter # Unread THEN {meter}
  ELSE IF read = {} THEN {0}
  ELSE {delta[c] : c \in {x \in read : \A y \in read : Size(delta[x]) >= Size(delta[y])}}

-----------------------------------------------------------------------------
(* What the call concludes.                                                *)

Answered(made) == {i \in DOMAIN made : made[i].answer # NoChannel}

\* Mutant: the first answer stands.
AgreeOnFirst(made) ==
  IF Answered(made) = {} THEN NoChannel ELSE made[Min(Answered(made))].answer

\* agree: every probe that answered gave the same channel.
Agree(made) ==
  LET answers == {made[i].answer : i \in Answered(made)}
  IN  IF Cardinality(answers) = 1 THEN CHOOSE c \in answers : TRUE ELSE NoChannel

\* Mutant: off by one.
GradeOfThree(circuit, isFired, made) ==
  CASE circuit = NoChannel -> "unknown"
    [] circuit # NoChannel /\ isFired -> "suspect"
    [] circuit # NoChannel /\ ~isFired ->
         IF \/ Len(made) <= 2
            \/ \A i \in DOMAIN made : ~made[i].metered
            \/ Answered(made) # DOMAIN made
         THEN "inferred" ELSE "measured"

\* grade, given whether an automation fired meanwhile.
Grade(circuit, isFired, made) ==
  CASE circuit = NoChannel -> "unknown"
    [] circuit # NoChannel /\ isFired -> "suspect"
    [] circuit # NoChannel /\ ~isFired ->
         IF \/ Len(made) < 2
            \/ \A i \in DOMAIN made : ~made[i].metered
            \/ Answered(made) # DOMAIN made
         THEN "inferred" ELSE "measured"

-----------------------------------------------------------------------------
VARIABLES
  load,     \* the device asked about, with where it really is
  probes,   \* the probes to make, 0 when the call is refused
  rounds,   \* those made, with what other loads did (history)
  fired,    \* an automation fired during the call
  conclusion

call == <<load, probes, rounds, fired, conclusion>>

Pending == [circuit |-> NoChannel, confidence |-> "pending"]

VerdictsInit ==
  /\ load \in Loads
  /\ probes \in IF /\ MayProbe(load) /\ ~IsBatteryPowered(load)
                   /\ SafeToSwitchOff(load) \/ load.force
                THEN 1 .. MaxRounds ELSE {0}
  /\ rounds = <<>>
  /\ fired = FALSE
  /\ conclusion = Pending

\* The device is switched away and back; other loads change by `moves`.
Probe(moves, read, meter) ==
  /\ Len(rounds) < probes
  /\ LET delta == [c \in Channels |-> IF c = load.home THEN moves[c] + load.draw
                                      ELSE moves[c]]
     IN  \E expected \in Expected(delta, read, meter) :
           rounds' = Append(rounds,
             [answer |-> Decide(delta, Candidates(delta, read, expected), expected),
              metered |-> meter # Unread, meter |-> meter, read |-> read,
              moves |-> moves])
  /\ UNCHANGED <<load, probes, fired, conclusion>>

\* One that touches the device or a circuit is triggered, which interference sees.
AutomationFires ==
  /\ conclusion = Pending /\ probes > 0 /\ ~fired
  /\ fired' = TRUE
  /\ UNCHANGED <<load, probes, rounds, conclusion>>

Conclude ==
  /\ probes > 0 /\ Len(rounds) = probes /\ conclusion = Pending
  /\ conclusion' = [circuit |-> Agree(rounds),
                 confidence |-> Grade(Agree(rounds), fired, rounds)]
  /\ UNCHANGED <<load, probes, rounds, fired>>

VerdictsNext ==
  \/ \E moves \in [Channels -> Steps], read \in SUBSET Channels,
        meter \in {0, load.draw, Unread} : Probe(moves, read, meter)
  \/ AutomationFires
  \/ Conclude

VerdictsSpec == VerdictsInit /\ [][VerdictsNext]_call

-----------------------------------------------------------------------------
VerdictsTypeOK ==
  /\ load \in Loads
  /\ probes \in 0 .. MaxRounds
  /\ Len(rounds) <= probes
  /\ \A i \in DOMAIN rounds : rounds[i].answer \in Channels \cup {NoChannel}
  /\ fired \in BOOLEAN
  /\ conclusion.circuit \in Channels \cup {NoChannel}

(* "A single probe cannot be `measured`" (verify.py:294): a measured       *)
(* answer that is wrong takes two coincidences or more.  Another load of   *)
(* that channel stepped the right way in every single probe and, where the *)
(* device's meter was read, by about what it reported.  One read in one of *)
(* the probes is enough for `measured`.                                    *)
WrongTakesCoincidences ==
  LET wrong == conclusion.circuit
  IN  conclusion.confidence = "measured" /\ wrong # load.home =>
        /\ Len(rounds) >= 2 /\ ~fired
        /\ \A i \in DOMAIN rounds : wrong \in rounds[i].read
        /\ \A i \in DOMAIN rounds : Size(rounds[i].moves[wrong]) >= NOISE_W
        /\ \A i \in DOMAIN rounds : rounds[i].metered =>
             Match(rounds[i].moves[wrong], rounds[i].meter) >= 1000 - TOLERANCE_M
        /\ \E i \in DOMAIN rounds : rounds[i].metered

(* The other way round: while no other load does more than noise, a device *)
(* that is on the panel is found, and a meter that answered in each of two *)
(* probes makes it measured.                                               *)
QuietPanelIsMeasured ==
  LET quiet == \A i \in DOMAIN rounds :
                 /\ load.home \in rounds[i].read /\ rounds[i].meter # 0
                 /\ \A c \in Channels : Size(rounds[i].moves[c]) < NOISE_W
  IN  conclusion # Pending /\ load.home # NoChannel /\ quiet =>
        /\ conclusion.circuit = load.home
        /\ ~fired /\ Len(rounds) >= 2 /\ (\A i \in DOMAIN rounds : rounds[i].metered)
             => conclusion.confidence = "measured"
=============================================================================
