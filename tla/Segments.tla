------------------------------ MODULE Segments ------------------------------
(***************************************************************************)
(* A circuit's history cut into runs (analysis.py's segment), one sample   *)
(* at a time.  A sample is a time and whether the circuit drew more than   *)
(* the threshold; the readings of a run are those between its first and    *)
(* its last sample above the threshold.                                    *)
(***************************************************************************)
EXTENDS Integers, Sequences, FiniteSets

CONSTANTS
  Histories,   \* sequences of [at, on], in order of time
  GAP_S,       \* gap_tolerance_s
  MIN_RUN_S    \* min_duration_s

ASSUME SegmentsAssumption ==
  /\ GAP_S \in Nat /\ MIN_RUN_S \in Nat
  /\ Histories \subseteq Seq([at : Int, on : BOOLEAN])
  /\ \A h \in Histories : \A i \in 2 .. Len(h) : h[i - 1].at < h[i].at

VARIABLES
  samples,
  next,        \* the next sample
  startI, lastOnI, \* 0 when no run is being followed
  runs         \* <<first, last>> samples of the runs

segmenting == <<samples, next, startI, lastOnI, runs>>

SegmentsInit ==
  /\ samples \in Histories
  /\ next = 1
  /\ startI = 0 /\ lastOnI = 0
  /\ runs = <<>>

\* _emit: a run that is too short is dropped.
Emitted(i, j) ==
  IF samples[j].at - samples[i].at < MIN_RUN_S THEN runs ELSE Append(runs, <<i, j>>)

AboveThreshold ==
  /\ next <= Len(samples) /\ samples[next].on
  /\ startI' = IF startI = 0 THEN next ELSE startI
  /\ lastOnI' = next
  /\ next' = next + 1
  /\ UNCHANGED <<samples, runs>>

\* Mutant: the pause is measured from the start of the run.
PausedSinceStart == samples[next].at - samples[startI].at > GAP_S

Paused == samples[next].at - samples[lastOnI].at > GAP_S

BelowThreshold ==
  /\ next <= Len(samples) /\ ~samples[next].on
  /\ IF startI # 0 /\ Paused
     THEN runs' = Emitted(startI, lastOnI) /\ startI' = 0 /\ lastOnI' = 0
     ELSE UNCHANGED <<runs, startI, lastOnI>>
  /\ next' = next + 1
  /\ UNCHANGED samples

EndOfHistory ==
  /\ next = Len(samples) + 1
  /\ runs' = IF startI # 0 THEN Emitted(startI, lastOnI) ELSE runs
  /\ startI' = 0 /\ lastOnI' = 0
  /\ next' = next + 1
  /\ UNCHANGED samples

SegmentsNext == AboveThreshold \/ BelowThreshold \/ EndOfHistory

SegmentsSpec == SegmentsInit /\ [][SegmentsNext]_segmenting

-----------------------------------------------------------------------------
SegmentsTypeOK ==
  /\ next \in 1 .. Len(samples) + 2
  /\ startI \in 0 .. Len(samples) /\ lastOnI \in startI .. Len(samples)
  /\ startI = 0 <=> lastOnI = 0
  /\ \A k \in DOMAIN runs : runs[k] \in (DOMAIN samples) \X (DOMAIN samples)

(* What a run is: samples above the threshold with no dip between them     *)
(* that was seen to last longer than the tolerance ("bridges brief dips",  *)
(* analysis.py:239), and all of them.  A dip is seen to last by a sample   *)
(* below the threshold: where the history has a hole, a run may span it.   *)
RunsAreWhole ==
  LET on == {i \in DOMAIN samples : samples[i].on}
      pausedAfter(i) == \E k \in DOMAIN samples :
        /\ k > i /\ \A m \in i + 1 .. k : m \notin on
        /\ samples[k].at - samples[i].at > GAP_S
      whole == {r \in on \X on :
        /\ r[1] <= r[2]
        /\ \A i \in on : r[1] <= i /\ i < r[2] => ~pausedAfter(i)
        /\ \A i \in on : i < r[1] => \E k \in on : i <= k /\ k < r[1] /\ pausedAfter(k)
        /\ (\E i \in on : i > r[2]) => pausedAfter(r[2])}
  IN  next = Len(samples) + 2 =>
        {runs[k] : k \in DOMAIN runs} =
          {r \in whole : samples[r[2]].at - samples[r[1]].at >= MIN_RUN_S}
=============================================================================
