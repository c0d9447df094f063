----------------------------- MODULE Attribution -----------------------------
(***************************************************************************)
(* Which circuit each device that meters itself is on, from the history of *)
(* both (attribution.py's assign, called by _map in services.py).          *)
(*                                                                         *)
(* All traces are on one grid already.  Scores are in hundredths, watts in *)
(* units of the smallest step, MIN_DELTA_W.  One step of the model is one  *)
(* pass of assign's loop: the most confident placement of any device is    *)
(* made, and its trace taken out of the circuit's.  Placements that score  *)
(* alike are made in any order; the code takes the order of the entities.  *)
(*                                                                         *)
(* A circuit carries the devices that are on it (`home`, history) and      *)
(* other loads.                                                            *)
(***************************************************************************)
EXTENDS Integers, Sequences, FiniteSets, FiniteSetsExt

CONSTANTS
  Metered,     \* devices
  Clamps,      \* circuits
  Traces,      \* what a device may draw
  OtherLoads,  \* what else a circuit may carry
  CELLS,       \* length of the grid
  MARGIN_W,    \* of containment
  MIN_R, MIN_CONTAINMENT, MIN_STEP_MATCH, MIN_MARGIN, \* hundredths
  STEP_TOLERANCE, \* hundredths
  NoClamp

ASSUME AttributionAssumption ==
  /\ CELLS \in Nat \ {0, 1} /\ MARGIN_W \in Nat
  /\ Traces \subseteq [1 .. CELLS -> Nat] /\ OtherLoads \subseteq [1 .. CELLS -> Nat]
  /\ {MIN_R, MIN_CONTAINMENT, MIN_STEP_MATCH, MIN_MARGIN} \subseteq 1 .. 100
  /\ STEP_TOLERANCE \in 0 .. 100
  /\ NoClamp \notin Clamps
  /\ IsFiniteSet(Metered)
  /\ Clamps \cap {"open", "no transition", "ambiguous", "no candidate"} = {}

Abs(x) == IF x < 0 THEN -x ELSE x

-----------------------------------------------------------------------------
(* How well a device's trace agrees with a circuit's.                      *)

Change(trace, i) == trace[i] - trace[i - 1]

\* steps
StepsOf(trace) == {i \in 2 .. CELLS : Change(trace, i) # 0}

Traceable(trace) == StepsOf(trace) # {}

\* step_match, to within one cell
Alike(a, b) ==
  /\ a * b > 0
  /\ 100 * Min({Abs(a), Abs(b)}) >= (100 - STEP_TOLERANCE) * Max({Abs(a), Abs(b)})

StepMatch(device, circuit) ==
  LET shown == {i \in StepsOf(device) : \E j \in (i - 1 .. i + 1) \cap (2 .. CELLS) :
                                          Alike(Change(device, i), Change(circuit, j))}
  IN  (100 * Cardinality(shown)) \div Cardinality(StepsOf(device))

SumOver(f(_)) == MapThenSumSet(f, 1 .. CELLS)

\* The covariance, times CELLS squared.
Covariance(a, b) ==
  LET product(i) == a[i] * b[i]
      first(i)   == a[i]
      second(i)  == b[i]
  IN  CELLS * SumOver(product) - SumOver(first) * SumOver(second)

\* pearson; where it is negative it never counts
Pearson(a, b) ==
  LET cov == Covariance(a, b)
      var == Covariance(a, a) * Covariance(b, b)
  IN  IF var = 0 \/ cov <= 0 THEN 0
      ELSE Max({q \in 0 .. 100 : q * q * var <= 10000 * cov * cov})

Contained(device, circuit) ==
  100 * Cardinality({i \in 1 .. CELLS : circuit[i] + MARGIN_W >= device[i]})
    >= MIN_CONTAINMENT * CELLS

-----------------------------------------------------------------------------
(* The circuits of the panel, for one device.                              *)

Score(device, circuit) == Max({StepMatch(device, circuit), Pearson(device, circuit)})

\* Those which pass the bars; _score_one
Qualified(device, residuals) ==
  {c \in Clamps : /\ Contained(device, residuals[c])
                  /\ \/ StepMatch(device, residuals[c]) >= MIN_STEP_MATCH
                     \/ Pearson(device, residuals[c]) >= MIN_R}

\* The one that wins by enough, if any.
BestOf(device, residuals) ==
  LET score == [c \in Qualified(device, residuals) |-> Score(device, residuals[c])]
  IN  {c \in DOMAIN score : \A d \in DOMAIN score \ {c} : score[c] - score[d] >= MIN_MARGIN}

-----------------------------------------------------------------------------
VARIABLES
  drawn,       \* each device's trace
  home,        \* where it really is
  measured,    \* each circuit's trace
  residual,    \* less the devices placed on it
  remaining,   \* the devices not placed yet
  result       \* of each device: a circuit, or why none

mapping == <<drawn, home, measured, residual, remaining, result>>

Carried(c, others) ==
  [i \in 1 .. CELLS |->
     LET draw(d) == drawn[d][i]
     IN  others[c][i] + MapThenSumSet(draw, {d \in Metered : home[d] = c})]

\* Devices without a step are set aside before any is scored.
AttributionInit ==
  /\ drawn \in [Metered -> Traces]
  /\ home \in [Metered -> Clamps \cup {NoClamp}]
  /\ \E others \in [Clamps -> OtherLoads] :
       measured = [c \in Clamps |-> Carried(c, others)]
  /\ residual = measured
  /\ remaining = {d \in Metered : Traceable(drawn[d])}
  /\ result = [d \in Metered |-> IF d \in remaining THEN "open" ELSE "no transition"]

\* Mutant: what explains a device explains others too.
SubtractNothing(trace, device) == trace

Subtract(trace, device) == [i \in 1 .. CELLS |-> Max({0, trace[i] - device[i]})]

Winners == UNION {{d} \X BestOf(drawn[d], residual) : d \in remaining}

\* The most confident placements of all.
MostConfident ==
  LET score == [w \in Winners |-> Score(drawn[w[1]], residual[w[2]])]
  IN  {w \in DOMAIN score : \A v \in DOMAIN score : score[w] >= score[v]}

\* It is made, and spent.
Place(d, c) ==
  /\ remaining' = remaining \ {d}
  /\ residual' = [residual EXCEPT ![c] = Subtract(@, drawn[d])]
  /\ result' = [result EXCEPT ![d] = c]
  /\ UNCHANGED <<drawn, home, measured>>

\* No device clears the bars any more.
LeaveUnplaced ==
  /\ remaining # {} /\ Winners = {}
  /\ result' = [d \in Metered |->
       IF d \notin remaining THEN result[d]
       ELSE IF Qualified(drawn[d], residual) # {} THEN "ambiguous" ELSE "no candidate"]
  /\ remaining' = {}
  /\ UNCHANGED <<drawn, home, measured, residual>>

AttributionNext ==
  \/ \E w \in MostConfident : Place(w[1], w[2])
  \/ LeaveUnplaced

AttributionSpec == AttributionInit /\ [][AttributionNext]_mapping

-----------------------------------------------------------------------------
AttributionTypeOK ==
  /\ residual \in [Clamps -> [1 .. CELLS -> Nat]]
  /\ remaining \subseteq Metered
  /\ result \in [Metered ->
                  Clamps \cup {"open", "no transition", "ambiguous", "no candidate"}]

(* "Each confirmed device is spent" (attribution.py:224): whatever order   *)
(* the devices are placed in, those placed on a circuit can all be on it.  *)
(* Together they never draw more than it carries, but for the margin each  *)
(* of them is allowed and the share of the grid its containment lets pass  *)
(* (less than a cell of a grid as short as TLC's).                         *)
PlacedDrawIsCarried ==
  \A c \in Clamps :
    LET placed == {d \in Metered : result[d] = c}
        over(i) == LET draw(d) == drawn[d][i]
                   IN  MapThenSumSet(draw, placed)
                         > measured[c][i] + MARGIN_W * Cardinality(placed)
    IN  100 * Cardinality({i \in 1 .. CELLS : over(i)})
          <= Cardinality(placed) * (100 - MIN_CONTAINMENT) * CELLS
=============================================================================
