------------------------------ MODULE MCRuntime ------------------------------
(***************************************************************************)
(* What the integration makes of the readings while it runs, for TLC: a    *)
(* sum of parts.  A behaviour is one of one part, chosen at the start, and *)
(* the others stay as they were set up.  That the parts leave each other   *)
(* alone is taken from the code, not shown.                                *)
(*                                                                         *)
(*   absence      Absence                                                  *)
(*   probe        Verdicts                                                 *)
(*   entry        SourceRenames                                            *)
(*   watch        Eligibility                                              *)
(*   history      Segments: every history of up to eight samples           *)
(*   correlate    Correlation                                              *)
(*   map          Attribution                                              *)
(***************************************************************************)
EXTENDS Absence, Verdicts, SourceRenames, Eligibility, Segments, Correlation, Attribution

CONSTANTS c1, fridge, v1, v2, s1, s2, i1, i2, i3

VARIABLE part

MCCircuitOf == [a \in Appliances |-> c1]

\* A light that draws 40 W and has a meter; one the panel does not feed; two that
\* may not be probed; one that is in use.
MCLamp == [domain |-> "light", category |-> "none", siblings |-> {"battery", "power"},
           on |-> FALSE, watts |-> 0, draw |-> 40, home |-> v1, force |-> FALSE]

MCLoads ==
  {MCLamp, [MCLamp EXCEPT !.home = NoChannel], [MCLamp EXCEPT !.category = "config"],
   [MCLamp EXCEPT !.siblings = {"battery"}], [MCLamp EXCEPT !.on = TRUE, !.watts = 40]}

MCSteps == {-40, 0, 2, 36}

MCFirstIds == [s \in Sources |-> CASE s = s1 -> i1 [] s = s2 -> i2 [] OTHER -> i3]

\* Any of these times has a sample above the threshold, one below it, or none.
Sampled(on, off) ==
  LET at == InOrder(on \cup off)
  IN  [i \in DOMAIN at |-> [at |-> at[i], on |-> at[i] \in on]]

MCHistories == UNION {{Sampled(on, off) : off \in SUBSET ((0 .. 7) \ on)} : on \in SUBSET (0 .. 7)}

Rows(states) ==
  LET at == InOrder({t \in DOMAIN states : states[t] # "no row"})
  IN  [i \in DOMAIN at |-> [at |-> at[i], state |-> states[at[i]]]]

MCDiaries == {Rows(f) : f \in [0 .. 6 -> {"on", "off", "unavailable", "no row"}]}

\* Runs from the first of these times to the second, and so on.
RunsBetween(numbers) ==
  LET at == InOrder(numbers)
  IN  [i \in 1 .. Len(at) \div 2 |-> <<at[2 * i - 1], at[2 * i]>>]

MCSpans == {RunsBetween(t) : t \in kSubset(6, 0 .. 8) \cup kSubset(8, 0 .. 8)}

Flat == [i \in 1 .. CELLS |-> 0]
MCTraces == {Flat, <<0, 4, 4, 0>>, <<0, 0, 4, 4>>, <<3, 3, 3, 3>>}
MCOtherLoads == {Flat, <<0, 3, 3, 5>>}

Parts == {"absence", "probe", "entry", "watch", "history", "correlate", "map"}

\* The parts with many initial states, while another part is looked at.
NoHistory == samples = <<>> /\ next = 1 /\ startI = 0 /\ lastOnI = 0 /\ runs = <<>>
NoSeries == times = <<>> /\ edges = <<>> /\ nextEdge = 1 /\ free = 1 /\ hit = {} /\ found = "open"
NoDevices ==
  /\ drawn = [d \in Metered |-> Flat] /\ home = [d \in Metered |-> NoClamp]
  /\ measured = [c \in Clamps |-> Flat] /\ residual = measured
  /\ remaining = {} /\ result = [d \in Metered |-> "no transition"]

RuntimeInit ==
  /\ part \in Parts
  /\ Init /\ EligibilityInit
  /\ VerdictsInit /\ (part # "probe" => load.category = "config")
  /\ SourcesInit /\ (part # "entry" => options = NoOptions)
  /\ IF part = "history" THEN SegmentsInit ELSE NoHistory
  /\ IF part = "correlate" THEN CorrelationInit ELSE NoSeries
  /\ IF part = "map" THEN AttributionInit ELSE NoDevices

RuntimeNext ==
  \/ /\ part = "absence" /\ Next
     /\ UNCHANGED <<call, entry, eligibilityVars, segmenting, lining, mapping, part>>
  \/ /\ part = "probe" /\ VerdictsNext
     /\ UNCHANGED <<vars, entry, eligibilityVars, segmenting, lining, mapping, part>>
  \/ /\ part = "entry" /\ SourcesNext
     /\ UNCHANGED <<vars, call, eligibilityVars, segmenting, lining, mapping, part>>
  \/ /\ part = "watch" /\ EligibilityNext
     /\ UNCHANGED <<vars, call, entry, segmenting, lining, mapping, part>>
  \/ /\ part = "history" /\ SegmentsNext
     /\ UNCHANGED <<vars, call, entry, eligibilityVars, lining, mapping, part>>
  \/ /\ part = "correlate" /\ CorrelationNext
     /\ UNCHANGED <<vars, call, entry, eligibilityVars, segmenting, mapping, part>>
  \/ /\ part = "map" /\ AttributionNext
     /\ UNCHANGED <<vars, call, entry, eligibilityVars, segmenting, lining, part>>

RuntimeSpec ==
  RuntimeInit /\ [][RuntimeNext]_<<vars, call, entry, eligibilityVars, segmenting,
                                   lining, mapping, part>>

(* The types of all parts.                                                 *)
RuntimeTypeOK ==
  /\ TypeOK /\ VerdictsTypeOK /\ SourcesTypeOK /\ EligibilityTypeOK
  /\ SegmentsTypeOK /\ CorrelationTypeOK /\ AttributionTypeOK
=============================================================================
