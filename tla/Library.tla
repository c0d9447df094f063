------------------------------ MODULE Library ------------------------------
(***************************************************************************)
(* The learned shapes of each circuit (fingerprint.py, and their rows in   *)
(* store.py): learned from the runs of a window, named by a person or      *)
(* after the circuit's title, and learned again later from other runs.     *)
(*                                                                         *)
(* A run's features are a point on a line and distances are absolute       *)
(* differences: the algorithms only compare distances.  A label is a name, *)
(* or a number for `unnamed_N`.  The shapes of one circuit are kept in     *)
(* order; the circuits' are independent.                                   *)
(*                                                                         *)
(* A learn pass computes a circuit's new shapes without reading the store, *)
(* so it is the one step in which it stores them.  `autolabel` is a task:  *)
(* it looks at all circuits first and may be interrupted after each name   *)
(* it has written; the order of the circuits, sorted in the code, is left  *)
(* open.  `learned` is history: the runs a circuit's shapes were last      *)
(* learned from.                                                           *)
(***************************************************************************)
EXTENDS Integers, Sequences, FiniteSets, FiniteSetsExt, SequencesExt, TLC

CONSTANTS
  Panel,      \* the circuits
  Names,      \* labels that name an appliance: not unnamed_N
  Windows,    \* what a window of each circuit may hold: sequences of runs
  TitleName,  \* the appliance each circuit's title names, NoName for none
  THRESHOLD,  \* clusters are cut at this distance
  TOLERANCE,  \* a name is carried no further than this
  MaxLearns,  \* bound: learn passes
  NoName, Idle

ASSUME LibraryAssumption ==
  /\ \A c \in Panel : Windows[c] \subseteq Seq(Nat)
  /\ TitleName \in [Panel -> Names \cup {NoName}] /\ NoName \notin Names
  /\ Names \cap Nat = {}
  /\ THRESHOLD \in Nat /\ TOLERANCE \in Nat
  /\ MaxLearns \in Nat

Apart(x, y) == IF x < y THEN y - x ELSE x - y

-----------------------------------------------------------------------------
(* cluster: agglomerative, with complete linkage.  Groups of indexes of    *)
(* `points`.                                                               *)

\* Mutant: single linkage.
LinkageNearest(points, g, h) == Min({Apart(points[a], points[b]) : a \in g, b \in h})

Linkage(points, g, h) == Max({Apart(points[a], points[b]) : a \in g, b \in h})

\* Of pairs, the one at the smallest distance, the first on a tie.
Closest(distance) ==
  LET pairs == DOMAIN distance
  IN  CHOOSE p \in pairs : \A q \in pairs \ {p} :
        \/ distance[p] < distance[q]
        \/ distance[p] = distance[q] /\ (p[1] < q[1] \/ (p[1] = q[1] /\ p[2] < q[2]))

ClosestPair(points, groups) ==
  Closest([p \in {p \in (DOMAIN groups) \X (DOMAIN groups) : p[1] < p[2]} |->
             Linkage(points, groups[p[1]], groups[p[2]])])

MergeClosest(points, groups) ==
  IF Len(groups) < 2 THEN groups
  ELSE LET p == ClosestPair(points, groups)
       IN  IF Linkage(points, groups[p[1]], groups[p[2]]) > THRESHOLD THEN groups
           ELSE RemoveAt([groups EXCEPT ![p[1]] = @ \cup groups[p[2]]], p[2])

\* As many merges as there can be.
Groups(points) ==
  LET merged[k \in 0 .. Len(points)] ==
        IF k = 0 THEN [i \in DOMAIN points |-> {i}]
        ELSE MergeClosest(points, merged[k - 1])
  IN  merged[Len(points)]

\* The group in the k-th place, largest first, equal ones in order.
KthLargest(groups, k) ==
  CHOOSE i \in DOMAIN groups :
    k = 1 + Cardinality({j \in DOMAIN groups \ {i} :
              \/ Cardinality(groups[j]) > Cardinality(groups[i])
              \/ Cardinality(groups[j]) = Cardinality(groups[i]) /\ j < i})

-----------------------------------------------------------------------------
(* The shapes.                                                             *)

Shape == [label : Names \cup Nat, at : Nat, runs : Nat]

IsNamed(shape) == shape.label \in Names

Median(points, group) ==
  LET half == Cardinality(group) \div 2
      below(v) == Cardinality({i \in group : points[i] < v})
      upTo(v) == Cardinality({i \in group : points[i] <= v})
  IN  CHOOSE v \in {points[i] : i \in group} : below(v) <= half /\ half < upTo(v)

\* summarize: a shape for each cluster, at the median of its runs.
Summarize(points) ==
  LET groups == Groups(points)
  IN  [k \in DOMAIN groups |->
         LET group == groups[KthLargest(groups, k)]
         IN  [label |-> k - 1, at |-> Median(points, group), runs |-> Cardinality(group)]]

\* Which name goes to which new shape: nearest pairs first, one name per new shape
\* and one new shape per name.
CarriedPairs(named, old, new) ==
  LET distance(p) == Apart(old[p[1]].at, new[p[2]].at)
      near == {p \in named \X DOMAIN new : distance(p) <= TOLERANCE}
      carried[k \in 0 .. Cardinality(named)] ==
        IF k = 0 THEN {}
        ELSE LET done == carried[k - 1]
                 free == {p \in near : \A q \in done : p[1] # q[1] /\ p[2] # q[2]}
             IN  IF free = {} THEN done
                 ELSE done \cup {Closest([p \in free |-> distance(p)])}
  IN  carried[Cardinality(named)]

\* The k-th of a set of indexes, in order.
KthOf(kept, k) == CHOOSE i \in kept : k = 1 + Cardinality({j \in kept : j < i})

\* The new shapes with the names of those, and the ones not found.
WithNames(named, old, new) ==
  LET pairs == CarriedPairs(named, old, new)
      kept  == named \ {p[1] : p \in pairs}
  IN  [j \in DOMAIN new |->
         IF \E p \in pairs : p[2] = j
         THEN [new[j] EXCEPT !.label = old[(CHOOSE p \in pairs : p[2] = j)[1]].label]
         ELSE new[j]]
      \o [k \in 1 .. Cardinality(kept) |-> old[KthOf(kept, k)]]

\* Mutant: labels nobody gave are carried too.
CarryLabelsOfAll(old, new) == WithNames(DOMAIN old, old, new)

\* carry_labels: only names are carried.
CarryLabels(old, new) == WithNames({i \in DOMAIN old : IsNamed(old[i])}, old, new)

-----------------------------------------------------------------------------
VARIABLES
  library,   \* store._fingerprints, by circuit
  autolabel, \* the task, Idle when none is running
  learns,
  learned    \* history

shelf == <<library, autolabel, learns, learned>>

LibraryInit ==
  /\ library = [c \in Panel |-> <<>>]
  /\ autolabel = Idle
  /\ learns = 0
  /\ learned = [c \in Panel |-> <<>>]

\* A task that is not waiting for a write to end is not interrupted.
Interruptible == autolabel # Idle => autolabel.waiting

\* async_replace_circuit with what _learn found in this window.
LearnCircuit(c, points) ==
  /\ Interruptible /\ learns < MaxLearns
  /\ learns' = learns + 1
  /\ library' = [library EXCEPT ![c] = CarryLabels(@, Summarize(points))]
  /\ learned' = [learned EXCEPT ![c] = points]
  /\ autolabel' = IF autolabel = Idle THEN Idle
                  ELSE [autolabel EXCEPT !.replaced = @ @@ (c :> library[c])]

\* async_relabel: the first shape of the circuit with this label.
Relabelled(shapes, label, name) ==
  LET found == {i \in DOMAIN shapes : shapes[i].label = label}
  IN  IF found = {} THEN shapes ELSE [shapes EXCEPT ![Min(found)].label = name]

\* The label action.  `unnamed_N` takes a name off (README.md:141).
Label(c, label, name) ==
  /\ Interruptible
  /\ \E i \in DOMAIN library[c] : library[c][i].label = label
  /\ library' = [library EXCEPT ![c] = Relabelled(@, label, name)]
  /\ UNCHANGED <<autolabel, learns, learned>>

BeginAutolabel ==
  /\ autolabel = Idle
  /\ autolabel' = [todo |-> {c \in Panel : library[c] # <<>>}, waiting |-> FALSE,
                   replaced |-> [c \in {} |-> <<>>]]
  /\ UNCHANGED <<library, learns, learned>>

\* The shapes the task looks at: those found when it began.
LookedAt(c) ==
  IF c \in DOMAIN autolabel.replaced THEN autolabel.replaced[c] ELSE library[c]

\* Mutant: a name somebody gave is replaced.
AutolabelNamed(c) ==
  LET shapes == LookedAt(c)
      sole   == TitleName[c] # NoName /\ Len(shapes) = 1
      after  == IF sole THEN Relabelled(library[c], shapes[1].label, TitleName[c])
                ELSE library[c]
  IN  /\ library' = [library EXCEPT ![c] = after]
      /\ autolabel' = [autolabel EXCEPT !.todo = @ \ {c}, !.waiting = after # library[c]]
      /\ UNCHANGED <<learns, learned>>

\* The sole shape of a circuit whose title names an appliance gets its name.
AutolabelCircuit(c) ==
  LET shapes == LookedAt(c)
      sole   == TitleName[c] # NoName /\ Len(shapes) = 1 /\ ~IsNamed(shapes[1])
      after  == IF sole THEN Relabelled(library[c], shapes[1].label, TitleName[c])
                ELSE library[c]
  IN  /\ library' = [library EXCEPT ![c] = after]
      /\ autolabel' = [autolabel EXCEPT !.todo = @ \ {c}, !.waiting = after # library[c]]
      /\ UNCHANGED <<learns, learned>>

Autolabel ==
  /\ autolabel # Idle
  /\ IF autolabel.todo = {}
     THEN autolabel' = Idle /\ UNCHANGED <<library, learns, learned>>
     ELSE \E c \in autolabel.todo : AutolabelCircuit(c)

LibraryNext ==
  \/ \E c \in Panel : \E points \in Windows[c] : LearnCircuit(c, points)
  \/ \E c \in Panel, name \in Names \cup {0}, label \in Names \cup 0 .. 3 :
       Label(c, label, name)
  \/ BeginAutolabel
  \/ Autolabel

LibrarySpec == LibraryInit /\ [][LibraryNext]_shelf

-----------------------------------------------------------------------------
LibraryTypeOK ==
  /\ library \in [Panel -> Seq(Shape)]
  /\ learns \in 0 .. MaxLearns
  /\ \A c \in Panel : learned[c] = <<>> \/ learned[c] \in Windows[c]

(* "Complete linkage keeps clusters compact" (fingerprint.py:92): any two  *)
(* runs of one shape are alike, and no two shapes are so alike that all of *)
(* their runs could be one.                                                *)
ShapesAreCompact ==
  \A c \in Panel :
    LET points == learned[c]
        groups == Groups(points)
        alike(S) == \A a, b \in S : Apart(points[a], points[b]) <= THRESHOLD
    IN  /\ \A i \in DOMAIN points : \E g \in DOMAIN groups : i \in groups[g]
        /\ \A g \in DOMAIN groups : alike(groups[g])
        /\ \A g, h \in DOMAIN groups : g # h => ~alike(groups[g] \cup groups[h])

\* Unnamed shapes can be told apart by their label: the label action, which
\* renames the first match (store.py:470), finds the one meant.
UnnamedAreDistinct(shapes) ==
  \A i, j \in DOMAIN shapes :
    shapes[i].label = shapes[j].label /\ ~IsNamed(shapes[i]) => i = j

Called(shapes, name) == {i \in DOMAIN shapes : shapes[i].label = name}

(* Learning again neither loses a name nor gives it to a second shape, and *)
(* a name that is on one shape follows it no further than a live match     *)
(* would (fingerprint.py:274, 371); what has no name can be told apart.    *)
NamesFollowTheirShapes ==
  [][learns' # learns => \A c \in Panel :
       /\ library'[c] # library[c] => UnnamedAreDistinct(library'[c])
       /\ \A name \in Names :
            LET old == Called(library[c], name)
                new == Called(library'[c], name)
            IN  /\ Cardinality(new) = Cardinality(old)
                /\ \A i \in old, j \in new : Cardinality(old) = 1 =>
                     Apart(library[c][i].at, library'[c][j].at) <= TOLERANCE]_shelf

(* "Never overwrites a name a person gave" (services.py:1258): the task    *)
(* names shapes that had none, even of circuits learned again or named by  *)
(* somebody while it waited.                                               *)
AutolabelKeepsNames ==
  [][autolabel # Idle /\ autolabel' # autolabel => \A c \in Panel :
       \A i \in DOMAIN library[c] \cap DOMAIN library'[c] :
         IsNamed(library[c][i]) /\ learns' = learns
           => library'[c][i].label = library[c][i].label]_shelf
=============================================================================
