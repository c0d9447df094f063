----------------------------- MODULE Correlation -----------------------------
(***************************************************************************)
(* Which changes of an entity line up with the runs of a shape             *)
(* (correlate.py, called by _correlate in services.py): the entity's       *)
(* history gives the times at which it entered a state, and each edge of   *)
(* the shape's runs, their starts or their ends, is paired with one of     *)
(* these within HALF_S.                                                    *)
(*                                                                         *)
(* The edges are taken in turn; one step is one edge.  What chance alone   *)
(* would match (binomial_tail times the number of tests) is any of Lucks.  *)
(***************************************************************************)
EXTENDS Integers, Sequences, FiniteSets, Functions, FiniteSetsExt

CONSTANTS
  Diaries,     \* an entity's history: sequences of [at, state]
  Spans,       \* a shape's runs: sequences of <<start, end>>
  SKIP_STATES,
  HALF_S,
  WindowEnd,   \* the window is from 0 to WindowEnd
  DAY,
  MIN_MATCHED

ASSUME CorrelationAssumption ==
  /\ {HALF_S, WindowEnd, DAY, MIN_MATCHED} \subseteq Nat
  /\ Diaries \subseteq Seq([at : Int, state : STRING]) /\ Spans \subseteq Seq(Int \X Int)
  /\ \A d \in Diaries : \A i \in 2 .. Len(d) : d[i - 1].at <= d[i].at
  /\ \A s \in Spans : \A i \in DOMAIN s : s[i][1] < s[i][2]
  /\ \A s \in Spans : \A i \in 2 .. Len(s) : s[i - 1][2] < s[i][1]

InOrder(numbers) ==
  [k \in 1 .. Cardinality(numbers) |->
     CHOOSE x \in numbers : Cardinality({y \in numbers : y < x}) = k - 1]

\* Against the limits CLEAR and WEAK.
Lucks == {"clear", "weak", "chance"}

\* transitions: when the entity entered a state, dropouts aside.  A device's meter
\* is on while it reads above its threshold (power_edges).
Transitions(diary, state) ==
  {diary[i].at : i \in {k \in 2 .. Len(diary) : /\ diary[k].state = state
                                                /\ diary[k - 1].state # state
                                                /\ diary[k - 1].state \notin SKIP_STATES}}

\* observed: a run under way at the first or last reading has no such edge
Observed(spans, side, first, last) ==
  LET seen(s) == IF side = "start" THEN s[1] > first ELSE s[2] < last
      edge(s) == IF side = "start" THEN s[1] ELSE s[2]
  IN  InOrder({edge(spans[i]) : i \in {k \in DOMAIN spans : seen(spans[k])}})

\* day_controlled
DayControlled(points) ==
  \E i \in DOMAIN points, d \in {-3, -2, -1, 1, 2, 3} : points[i] + d * DAY \in 0 .. WindowEnd

-----------------------------------------------------------------------------
VARIABLES
  times,       \* the events of the series, in order
  edges,       \* the edges seen, in order
  nextEdge,    \* pairs: the edge it is at
  free,        \* and the first event it may still use
  hit,         \* the edges paired
  found        \* the match: its verdict, or "open"

lining == <<times, edges, nextEdge, free, hit, found>>

\* _build_series
Series == {InOrder(t) : t \in
             {Transitions(d, state) : d \in Diaries, state \in {"on", "off"}}}

\* Each side of each shape's runs.
EdgesSeen == {Observed(s, side, 0, WindowEnd) : s \in Spans, side \in {"start", "end"}}

CorrelationInit ==
  /\ times \in Series
  /\ edges \in EdgesSeen
  /\ nextEdge = 1 /\ free = 1
  /\ hit = {}
  /\ found = "open"

\* bisect_left of what is free
FirstFrom(at) == Min({k \in free .. Len(times) : times[k] >= at} \cup {Len(times) + 1})

\* Mutant: an event may serve every edge near it.
PairAgain ==
  /\ nextEdge <= Len(edges)
  /\ LET k == FirstFrom(edges[nextEdge] - HALF_S)
         near == k <= Len(times) /\ times[k] <= edges[nextEdge] + HALF_S
     IN  /\ hit' = IF near THEN hit \cup {nextEdge} ELSE hit
         /\ free' = k
  /\ nextEdge' = nextEdge + 1
  /\ UNCHANGED <<times, edges, found>>

\* The earliest free event within reach serves this edge.
Pair ==
  /\ nextEdge <= Len(edges)
  /\ LET k == FirstFrom(edges[nextEdge] - HALF_S)
         near == k <= Len(times) /\ times[k] <= edges[nextEdge] + HALF_S
     IN  /\ hit' = IF near THEN hit \cup {nextEdge} ELSE hit
         /\ free' = IF near THEN k + 1 ELSE k
  /\ nextEdge' = nextEdge + 1
  /\ UNCHANGED <<times, edges, found>>

\* score: too few events or matches are no match, and are not tested.
Judged(luck) ==
  IF luck = "chance" \/ Len(times) < MIN_MATCHED \/ Cardinality(hit) < MIN_MATCHED
  THEN "none"
  ELSE IF luck = "clear" /\ Cardinality(hit) > MIN_MATCHED /\ DayControlled(edges)
  THEN "clear" ELSE "weak"

Line(luck) ==
  /\ nextEdge > Len(edges) /\ found = "open"
  /\ found' = Judged(luck)
  /\ UNCHANGED <<times, edges, nextEdge, free, hit>>

CorrelationNext == Pair \/ \E luck \in Lucks : Line(luck)

CorrelationSpec == CorrelationInit /\ [][CorrelationNext]_lining

-----------------------------------------------------------------------------
CorrelationTypeOK ==
  /\ nextEdge \in 1 .. Len(edges) + 1
  /\ free \in 1 .. Len(times) + 1
  /\ hit \subseteq 1 .. nextEdge - 1
  /\ found \in {"open", "none", "weak", "clear"}

\* Each of these edges can have an event of its own.
Matchable(some) ==
  \E f \in Injection(some, DOMAIN times) :
    \A i \in some : times[f[i]] \in edges[i] - HALF_S .. edges[i] + HALF_S

(* "Taking the earliest free event for each edge in turn matches as many   *)
(* as can be" (correlate.py:124), and no event twice: there is a matching  *)
(* of the edges taken so far that are paired, and none of more of them.    *)
MatchesAreMost ==
  /\ Matchable(hit)
  /\ \A more \in SUBSET (1 .. nextEdge - 1) :
       Cardinality(more) > Cardinality(hit) => ~Matchable(more)
=============================================================================
