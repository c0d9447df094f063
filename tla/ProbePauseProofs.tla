-------------------------- MODULE ProbePauseProofs --------------------------
(***************************************************************************)
(* Theorems about ProbePause, for any calls, devices and automations and   *)
(* any number of crashes and reloads, but for what each theorem assumes.   *)
(***************************************************************************)
EXTENDS ProbePause, TLAPS

\* What is still to switch was on the pause list.
TodoPaused ==
  \A p \in Probes : pc[p] \in {"pausing", "enabling", "failing"} => todo[p] \subseteq paused[p]

SetsOK ==
  /\ enabled \subseteq Automations
  /\ pc \in [Probes -> ActiveAt \cup {"idle", "placed", "left", "gone"}]
  /\ paused \in [Probes -> SUBSET Automations]
  /\ todo \in [Probes -> SUBSET Automations]

-----------------------------------------------------------------------------
(* The automations of the user.                                            *)

StoresOK ==
  /\ gen \in Generations
  /\ using \in [Probes -> Generations]
  /\ stores \in [Generations -> Content]
  /\ disk \in Content
  /\ phase \in {"up", "setup", "restored", "down"}

\* A call with a list it has still to hand back.
Listing(p) == pc[p] \in ActiveAt \ {"grading"}

\* An automation that a call using g holds, or a call left on record.
HeldBy(a, g) ==
  \E p \in Probes : a \in paused[p] /\ (pc[p] = "left" \/ (Listing(p) /\ using[p] = g))

HeldByCall(a) == \E p \in Probes : a \in paused[p] /\ (pc[p] = "left" \/ Listing(p))

\* What is on the list of a store in use, or of the file, is held by a call or was
\* left there by one; setup has a list of its own.
ListsOK ==
  /\ \A p \in Probes : Active(p) =>
       /\ phase # "down" /\ (phase # "up" => using[p] # gen)
       /\ using[p] <= gen
       /\ \A a \in stores[using[p]].paused : HeldBy(a, using[p])
  /\ phase = "up" => \A a \in stores[gen].paused : HeldBy(a, gen)
  /\ phase # "down" =>
       \A a \in disk.paused : HeldByCall(a) \/ (phase # "up" /\ a \in stores[gen].paused)

\* Nothing the user switched off is on a list of things to switch on.
ChoiceOK ==
  \A a \in userOff \ LeftOnRecord :
    /\ a \notin enabled
    /\ \A p \in Probes : Listing(p) => a \notin paused[p]
    /\ phase = "down" => a \notin disk.paused
    /\ phase \in {"setup", "restored"} => a \notin stores[gen].paused

UserInv ==
  /\ SetsOK
  /\ StoresOK
  /\ TodoPaused
  /\ ListsOK
  /\ ChoiceOK
  /\ borrowed \cap enabled = {}

\* The invariant holds initially.
LEMMA UserInit ==
  Init => UserInv
<1> SUFFICES ASSUME Init PROVE UserInv
  OBVIOUS
<1>1. 1 \in Generations
  BY ProbePauseAssumption DEF Generations
<1>2. disk \in Content /\ disk.paused = {}
  BY DEF Init, Content
<1>3. /\ gen = 1 /\ using = [p \in Probes |-> 1] /\ stores = [g \in Generations |-> disk]
      /\ phase = "up" /\ userOff = Automations \ enabled /\ borrowed = {}
      /\ pc = [p \in Probes |-> "idle"]
  BY DEF Init
<1>4. StoresOK /\ stores[gen].paused = {}
  BY <1>1, <1>2, <1>3 DEF StoresOK
<1>5. SetsOK /\ TodoPaused
  BY DEF Init, SetsOK, TodoPaused
<1>6. \A p \in Probes : ~Active(p) /\ ~Listing(p)
  BY <1>3 DEF Active, ActiveAt, Listing
<1>7. ListsOK /\ ChoiceOK
  BY <1>2, <1>3, <1>4, <1>6 DEF ListsOK, ChoiceOK
<1> QED
  BY <1>3, <1>4, <1>5, <1>7 DEF UserInv

\* A call that moves on or is left on record still holds what it held.
LEMMA HeldKept ==
  ASSUME SetsOK, NEW p \in Probes, pc' = [pc EXCEPT ![p] = pc'[p]], pc[p] # "left",
         Listing(p) => Listing(p)' \/ pc'[p] = "left", UNCHANGED <<using, paused>>
  PROVE  \A a, g : /\ HeldBy(a, g) => HeldBy(a, g)'
                   /\ HeldByCall(a) => HeldByCall(a)'
<1>1. \A q \in Probes : /\ pc[q] = "left" => pc'[q] = "left"
                        /\ Listing(q) => Listing(q)' \/ pc'[q] = "left"
  BY DEF SetsOK, Listing
<1> QED
  BY <1>1 DEF HeldBy, HeldByCall

\* A call that saves nothing goes on, and switches on at most what it holds.
LEMMA UserGoesOn ==
  ASSUME UserInv, NEW p \in Probes, Active(p), pc' = [pc EXCEPT ![p] = pc'[p]],
         Listing(p)' => Listing(p),
         \A a, g : /\ HeldBy(a, g) => HeldBy(a, g)'
                   /\ HeldByCall(a) => HeldByCall(a)',
         UNCHANGED <<phase, storage, userOff, using, paused>>,
         Active(p)' \/ pc'[p] \in {"left", "placed", "gone"},
         enabled' \subseteq enabled \/ (Listing(p) /\ enabled' \subseteq enabled \cup paused[p]),
         borrowed' \cap enabled' = {},
         todo' \in [Probes -> SUBSET Automations], TodoPaused'
  PROVE  UserInv'
<1>1. /\ SetsOK /\ StoresOK /\ ListsOK /\ ChoiceOK
  BY DEF UserInv
<1>2. /\ gen' = gen /\ stores' = stores /\ disk' = disk
  BY DEF storage
<1>3. SetsOK'
  <2>1. pc'[p] \in ActiveAt \cup {"idle", "placed", "left", "gone"}
    BY DEF Active
  <2> QED
    BY <1>1, <2>1 DEF SetsOK
<1>4. \A q \in Probes : Active(q)' => Active(q)
  BY <1>1 DEF SetsOK, Active
<1>5. \A q \in Probes : Listing(q)' => Listing(q)
  BY <1>1 DEF SetsOK, Listing
<1>6. LeftOnRecord \subseteq LeftOnRecord'
  <2>1. pc[p] # "left"
    BY DEF Active, ActiveAt
  <2>2. \A q \in Probes : pc[q] = "left" => pc'[q] = "left"
    BY <1>1, <2>1 DEF SetsOK
  <2> QED
    BY <2>2 DEF LeftOnRecord
<1>7. StoresOK'
  BY <1>1, <1>2 DEF StoresOK
<1>8. ListsOK'
  BY <1>1, <1>2, <1>4 DEF ListsOK
<1>9. ChoiceOK'
  <2> SUFFICES ASSUME NEW a \in userOff \ LeftOnRecord'
               PROVE  /\ a \notin enabled'
                      /\ \A q \in Probes : Listing(q) => a \notin paused[q]
                      /\ phase = "down" => a \notin disk.paused
                      /\ phase \in {"setup", "restored"} => a \notin stores[gen].paused
    BY <1>2, <1>5 DEF ChoiceOK
  <2>1. a \in userOff \ LeftOnRecord
    BY <1>6
  <2> QED
    BY <1>1, <2>1 DEF ChoiceOK
<1> QED
  BY <1>3, <1>7, <1>8, <1>9 DEF UserInv

\* A call saves its store object with a list that a call holds.
LEMMA UserSaves ==
  ASSUME UserInv, NEW p \in Probes, Active(p), pc' = [pc EXCEPT ![p] = pc'[p]],
         pc'[p] # "left", Listing(p)' => Listing(p),
         NEW content \in Content, SaveStore(using[p], content),
         \A a \in content.paused : HeldBy(a, using[p])',
         \A a, g : g # using[p] => (HeldBy(a, g) => HeldBy(a, g)'),
         Active(p)' \/ pc'[p] \in {"placed", "gone"},
         UNCHANGED <<phase, gen, house, using, paused>>,
         todo' \in [Probes -> SUBSET Automations], TodoPaused'
  PROVE  UserInv'
<1>1. /\ SetsOK /\ StoresOK /\ ListsOK /\ ChoiceOK /\ borrowed \cap enabled = {}
  BY DEF UserInv
<1>2. /\ enabled' = enabled /\ userOff' = userOff /\ borrowed' = borrowed
      /\ stores' = [stores EXCEPT ![using[p]] = content] /\ disk' = content
      /\ using[p] \in Generations
  BY <1>1 DEF house, SaveStore, StoresOK
<1>3. SetsOK'
  <2>1. pc'[p] \in ActiveAt \cup {"idle", "placed", "left", "gone"}
    BY DEF Active
  <2> QED
    BY <1>1, <1>2, <2>1 DEF SetsOK
<1>4. \A q \in Probes : Active(q)' => Active(q)
  BY <1>1 DEF SetsOK, Active
<1>5. \A q \in Probes : Listing(q)' => Listing(q)
  BY <1>1 DEF SetsOK, Listing
<1>6. LeftOnRecord' = LeftOnRecord
  <2>1. pc[p] # "left"
    BY DEF Active, ActiveAt
  <2>2. \A q \in Probes : pc[q] = "left" <=> pc'[q] = "left"
    BY <1>1, <2>1 DEF SetsOK
  <2> QED
    BY <2>2 DEF LeftOnRecord
<1>7. StoresOK'
  BY <1>1, <1>2 DEF StoresOK
<1>8. \A g \in Generations : stores'[g] = IF g = using[p] THEN content ELSE stores[g]
  BY <1>1, <1>2 DEF StoresOK
<1>9. ListsOK'
  <2>1. ASSUME NEW q \in Probes, Active(q)'
        PROVE  /\ phase # "down" /\ (phase # "up" => using[q] # gen) /\ using[q] <= gen
               /\ \A a \in stores'[using[q]].paused : HeldBy(a, using[q])'
    BY <1>1, <1>4, <1>8, <2>1 DEF ListsOK, StoresOK
  <2>2. phase = "up" => \A a \in stores'[gen].paused : HeldBy(a, gen)'
    BY <1>1, <1>8 DEF ListsOK, StoresOK
  <2>3. \A a \in content.paused : HeldByCall(a)'
    BY DEF HeldBy, HeldByCall
  <2> QED
    BY <1>2, <2>1, <2>2, <2>3 DEF ListsOK
<1>10. ChoiceOK'
  <2>1. phase # "down" /\ (phase # "up" => stores'[gen] = stores[gen])
    BY <1>1, <1>8 DEF ListsOK, StoresOK
  <2> QED
    BY <1>1, <1>2, <1>5, <1>6, <2>1 DEF ChoiceOK
<1> QED
  BY <1>1, <1>2, <1>3, <1>7, <1>9, <1>10 DEF UserInv

\* A step of the verify_circuit service.
LEMMA UserProbe ==
  ASSUME UserInv, NEW p \in Probes,
         ProbeStep(p) \/ \E pause \in BOOLEAN : Begin(p, pause)
  PROVE  UserInv'
<1>1. /\ SetsOK /\ StoresOK /\ TodoPaused /\ ListsOK /\ ChoiceOK /\ borrowed \cap enabled = {}
  BY DEF UserInv
<1>2. ASSUME NEW pause \in BOOLEAN, Begin(p, pause) PROVE UserInv'
  <2>1. /\ gen' = gen /\ stores' = stores /\ disk' = disk /\ userOff' = userOff
        /\ enabled' = enabled /\ borrowed' = borrowed /\ todo' = todo /\ phase' = phase
        /\ phase = "up" /\ pc[p] = "idle"
        /\ pc' = [pc EXCEPT ![p] = IF pause THEN "asking" ELSE "ready"]
        /\ using' = [using EXCEPT ![p] = gen]
        /\ paused' = [paused EXCEPT ![p] = IF pause THEN Pausable(p) ELSE {}]
    BY <1>2 DEF Begin, storage, house
  <2>2. Pausable(p) \subseteq enabled /\ gen \in Nat
    BY <1>1, ProbePauseAssumption DEF Pausable, StoresOK, Generations
  <2>3. SetsOK' /\ StoresOK'
    BY <1>1, <2>1, <2>2 DEF SetsOK, StoresOK, ActiveAt
  <2>4. TodoPaused'
    BY <1>1, <2>1 DEF TodoPaused, SetsOK
  <2>5. \A q \in Probes : q # p => /\ pc'[q] = pc[q] /\ paused'[q] = paused[q]
                                   /\ using'[q] = using[q]
    BY <1>1, <2>1 DEF SetsOK, StoresOK
  <2>6. \A a, g : HeldBy(a, g) => HeldBy(a, g)'
    BY <2>1, <2>5 DEF HeldBy, Listing, ActiveAt
  <2>7. \A a : HeldByCall(a) => HeldByCall(a)'
    BY <2>1, <2>5 DEF HeldByCall, Listing, ActiveAt
  <2>8. LeftOnRecord' = LeftOnRecord
    <3>1. {q \in Probes : pc'[q] = "left"} = {q \in Probes : pc[q] = "left"}
      BY <1>1, <2>1, <2>5 DEF SetsOK
    <3>2. \A q \in {r \in Probes : pc[r] = "left"} : paused'[q] = paused[q]
      BY <2>1, <2>5
    <3> QED
      BY <3>1, <3>2 DEF LeftOnRecord
  <2>9. ListsOK'
    <3>1. ASSUME NEW q \in Probes, Active(q)'
          PROVE  /\ using'[q] <= gen
                 /\ \A a \in stores[using'[q]].paused : HeldBy(a, using[q])'
      <4>1. CASE q = p
        <5>1. using'[q] = gen
          BY <1>1, <2>1, <4>1 DEF StoresOK
        <5>2. \A a \in stores[gen].paused : HeldBy(a, using[q])'
          BY <1>1, <2>1, <2>6, <5>1 DEF ListsOK
        <5> QED
          BY <2>2, <5>1, <5>2
      <4>2. CASE q # p
        <5>1. Active(q) /\ using'[q] = using[q]
          BY <2>5, <3>1, <4>2 DEF Active
        <5>2. using[q] <= gen /\ \A a \in stores[using[q]].paused : HeldBy(a, using[q])
          BY <1>1, <5>1 DEF ListsOK
        <5>3. \A a \in stores[using[q]].paused : HeldBy(a, using[q])'
          BY <2>6, <5>1, <5>2
        <5> QED
          BY <5>1, <5>2, <5>3
      <4> QED
        BY <4>1, <4>2
    <3> QED
      BY <1>1, <2>1, <2>6, <2>7, <3>1 DEF ListsOK
  <2>10. ChoiceOK'
    <3>1. ASSUME NEW a \in userOff \ LeftOnRecord, NEW q \in Probes, Listing(q)'
          PROVE  a \notin paused'[q]
      <4>1. CASE q = p
        BY <1>1, <2>1, <2>2, <4>1 DEF ChoiceOK, SetsOK
      <4>2. CASE q # p
        BY <1>1, <2>5, <3>1, <4>2 DEF ChoiceOK, Listing
      <4> QED
        BY <4>1, <4>2
    <3> QED
      BY <1>1, <2>1, <2>8, <3>1 DEF ChoiceOK
  <2> QED
    BY <1>1, <2>1, <2>3, <2>4, <2>9, <2>10 DEF UserInv
<1>3. CASE Record(p)
  <2> DEFINE content == [stores[using[p]] EXCEPT !.paused = paused[p]]
  <2>1. using[p] \in Generations /\ stores[using[p]] \in Content /\ paused[p] \subseteq Automations
    BY <1>1 DEF StoresOK, SetsOK
  <2>2. content \in Content /\ content.paused = paused[p]
    BY <2>1 DEF Content
  <2>3. /\ SaveStore(using[p], content) /\ UNCHANGED <<phase, gen, house, using, paused>>
        /\ pc[p] = "asking" /\ pc' = [pc EXCEPT ![p] = "pausing"]
        /\ todo' = [todo EXCEPT ![p] = paused[p]]
    BY <1>3 DEF Record
  <2> HIDE DEF content
  <2>4. pc'[p] = "pausing" /\ pc' = [pc EXCEPT ![p] = pc'[p]]
    BY <1>1, <2>3 DEF SetsOK
  <2>5. Active(p) /\ Active(p)' /\ Listing(p) /\ Listing(p)' /\ pc[p] # "left"
    BY <2>3, <2>4 DEF Active, Listing, ActiveAt
  <2>6. \A a, g : HeldBy(a, g) => HeldBy(a, g)'
    BY <1>1, <2>3, <2>4, <2>5, HeldKept
  <2>7. \A a \in content.paused : HeldBy(a, using[p])'
    BY <2>2, <2>3, <2>5 DEF HeldBy
  <2>8. todo' \in [Probes -> SUBSET Automations] /\ TodoPaused'
    BY <1>1, <2>1, <2>3, <2>4 DEF SetsOK, TodoPaused
  <2> QED
    BY <2>2, <2>3, <2>4, <2>5, <2>6, <2>7, <2>8, UserSaves
<1>4. CASE PauseFails(p) \/ SwitchAway(p) \/ SwitchBack(p) \/ ProbeFails(p) \/ RestoreFails(p)
  <2>1. /\ UNCHANGED <<phase, storage, enabled, borrowed, userOff, using, paused, todo>>
        /\ pc' = [pc EXCEPT ![p] = pc'[p]]
        /\ pc[p] \in {"pausing", "ready", "switched", "restoring", "raising", "enabling", "failing"}
        /\ pc'[p] \in {"left", "ready", "switched", "restoring", "raising"}
    BY <1>1, <1>4 DEF PauseFails, SwitchAway, SwitchBack, ProbeFails, RestoreFails, Ready,
                      house, SetsOK
  <2>2. /\ Active(p) /\ Listing(p) /\ pc[p] # "left"
        /\ Active(p)' \/ pc'[p] = "left"
        /\ Listing(p)' \/ pc'[p] = "left"
    BY <2>1 DEF Active, Listing, ActiveAt
  <2>3. \A a, g : /\ HeldBy(a, g) => HeldBy(a, g)'
                  /\ HeldByCall(a) => HeldByCall(a)'
    BY <1>1, <2>1, <2>2, HeldKept
  <2>4. todo' \in [Probes -> SUBSET Automations] /\ TodoPaused'
    <3>1. pc'[p] \notin {"pausing", "enabling", "failing"}
      BY <2>1
    <3> QED
      BY <1>1, <2>1, <3>1 DEF SetsOK, TodoPaused
  <2>5. borrowed' \cap enabled' = {} /\ enabled' \subseteq enabled
    BY <1>1, <2>1
  <2> QED
    BY <2>1, <2>2, <2>3, <2>4, <2>5, UserGoesOn
<1>5. CASE RestoreDevice(p)
  <2>1. /\ UNCHANGED <<phase, storage, enabled, borrowed, userOff, using, paused>>
        /\ pc' = [pc EXCEPT ![p] = pc'[p]]
        /\ todo' = [todo EXCEPT ![p] = paused[p]]
        /\ pc[p] \in {"restoring", "raising"} /\ pc'[p] \in {"enabling", "failing"}
    BY <1>1, <1>5 DEF RestoreDevice, SetsOK
  <2>2. Active(p) /\ Listing(p) /\ pc[p] # "left" /\ Active(p)' /\ Listing(p)'
    BY <2>1 DEF Active, Listing, ActiveAt
  <2>3. \A a, g : /\ HeldBy(a, g) => HeldBy(a, g)'
                  /\ HeldByCall(a) => HeldByCall(a)'
    BY <1>1, <2>1, <2>2, HeldKept
  <2>4. todo' \in [Probes -> SUBSET Automations] /\ TodoPaused'
    BY <1>1, <2>1 DEF SetsOK, TodoPaused
  <2>5. borrowed' \cap enabled' = {} /\ enabled' \subseteq enabled
    BY <1>1, <2>1
  <2> QED
    BY <2>1, <2>2, <2>3, <2>4, <2>5, UserGoesOn
<1>6. ASSUME NEW a \in Automations, Pause(p, a) \/ Enable(p, a) PROVE UserInv'
  <2>1. /\ UNCHANGED <<phase, storage, userOff, using, paused>>
        /\ pc' = pc /\ todo' = [todo EXCEPT ![p] = todo[p] \ {a}]
        /\ pc[p] \in {"pausing", "enabling", "failing"} /\ a \in todo[p]
        /\ \/ enabled' = enabled \ {a} /\ borrowed' = borrowed \cup ({a} \cap enabled)
           \/ enabled' = enabled \cup {a} /\ borrowed' = borrowed \ {a}
    BY <1>6 DEF Pause, Enable
  <2>2. pc' = [pc EXCEPT ![p] = pc'[p]]
    BY <1>1, <2>1 DEF SetsOK
  <2>3. Active(p) /\ Listing(p) /\ pc[p] # "left" /\ Active(p)' /\ Listing(p)'
    BY <2>1 DEF Active, Listing, ActiveAt
  <2>4. \A b, g : /\ HeldBy(b, g) => HeldBy(b, g)'
                  /\ HeldByCall(b) => HeldByCall(b)'
    BY <1>1, <2>1, <2>2, <2>3, HeldKept
  <2>5. todo' \in [Probes -> SUBSET Automations] /\ TodoPaused'
    BY <1>1, <2>1 DEF SetsOK, TodoPaused
  <2>6. borrowed' \cap enabled' = {} /\ enabled' \subseteq enabled \cup paused[p]
    BY <1>1, <2>1 DEF TodoPaused
  <2> QED
    BY <2>1, <2>2, <2>3, <2>4, <2>5, <2>6, UserGoesOn
<1>7. CASE Clear(p)
  <2> DEFINE content == [stores[using[p]] EXCEPT !.paused = {}]
  <2>1. /\ UNCHANGED <<phase, gen, house, using, paused, todo>>
        /\ pc' = [pc EXCEPT ![p] = pc'[p]]
        /\ pc[p] \in {"enabling", "failing"} /\ pc'[p] \in {"grading", "gone"}
        /\ IF paused[p] # {} THEN SaveStore(using[p], content) ELSE UNCHANGED <<stores, disk>>
    BY <1>1, <1>7 DEF Clear, SetsOK
  <2>2. content \in Content /\ content.paused = {}
    BY <1>1 DEF Content, StoresOK
  <2> HIDE DEF content
  <2>3. /\ Active(p) /\ Listing(p) /\ ~Listing(p)' /\ pc[p] # "left" /\ pc'[p] # "left"
        /\ Active(p)' \/ pc'[p] = "gone"
    BY <2>1 DEF Active, Listing, ActiveAt
  <2>4. todo' \in [Probes -> SUBSET Automations] /\ TodoPaused'
    BY <1>1, <2>1 DEF SetsOK, TodoPaused
  <2>5. \A q \in Probes : q # p => pc'[q] = pc[q] /\ (Listing(q)' <=> Listing(q))
    BY <1>1, <2>1 DEF SetsOK, Listing
  <2>6. CASE paused[p] # {}
    <3>1. \A a, g : g # using[p] => (HeldBy(a, g) => HeldBy(a, g)')
      BY <2>1, <2>3, <2>5 DEF HeldBy
    <3>2. \A a \in content.paused : HeldBy(a, using[p])'
      BY <2>2
    <3>3. SaveStore(using[p], content) /\ Active(p) /\ (Listing(p)' => Listing(p))
      BY <2>1, <2>3, <2>6
    <3> QED
      BY <2>1, <2>2, <2>3, <2>4, <3>1, <3>2, <3>3, UserSaves
  <2>7. CASE paused[p] = {}
    <3>1. \A a, g : /\ HeldBy(a, g) => HeldBy(a, g)'
                    /\ HeldByCall(a) => HeldByCall(a)'
      BY <2>1, <2>3, <2>5, <2>7 DEF HeldBy, HeldByCall
    <3>2. UNCHANGED <<phase, storage, userOff, using, paused>> /\ (Listing(p)' => Listing(p))
      BY <2>1, <2>3, <2>7 DEF storage, house
    <3>3. borrowed' \cap enabled' = {} /\ enabled' \subseteq enabled
      BY <1>1, <2>1 DEF house
    <3> QED
      BY <2>1, <2>3, <2>4, <3>1, <3>2, <3>3, UserGoesOn
  <2> QED
    BY <2>6, <2>7
<1>8. ASSUME NEW verdict \in BOOLEAN, Grade(p, verdict) PROVE UserInv'
  <2> DEFINE content == [stores[using[p]] EXCEPT !.placed = @ \cup {p}]
  <2>1. /\ UNCHANGED <<phase, gen, house, using, paused, todo>>
        /\ pc' = [pc EXCEPT ![p] = pc'[p]]
        /\ pc[p] = "grading" /\ pc'[p] \in {"placed", "gone"}
        /\ IF verdict THEN SaveStore(using[p], content) ELSE UNCHANGED <<stores, disk>>
    BY <1>1, <1>8 DEF Grade, SetsOK
  <2>2. content \in Content /\ content.paused = stores[using[p]].paused
    BY <1>1 DEF Content, StoresOK
  <2> HIDE DEF content
  <2>3. /\ Active(p) /\ ~Listing(p) /\ ~Listing(p)' /\ pc[p] # "left" /\ pc'[p] # "left"
        /\ pc'[p] \in {"placed", "gone"}
    BY <2>1 DEF Active, Listing, ActiveAt
  <2>4. todo' \in [Probes -> SUBSET Automations] /\ TodoPaused'
    BY <1>1, <2>1 DEF SetsOK, TodoPaused
  <2>5. \A a, g : /\ HeldBy(a, g) => HeldBy(a, g)'
                  /\ HeldByCall(a) => HeldByCall(a)'
    BY <1>1, <2>1, <2>3, HeldKept
  <2>6. CASE verdict
    <3>1. \A a \in content.paused : HeldBy(a, using[p])'
      BY <1>1, <2>1, <2>2, <2>3, <2>5 DEF ListsOK
    <3>2. SaveStore(using[p], content) /\ (Listing(p)' => Listing(p))
      BY <2>1, <2>3, <2>6
    <3> QED
      BY <2>1, <2>2, <2>3, <2>4, <2>5, <3>1, <3>2, UserSaves
  <2>7. CASE ~verdict
    <3>1. UNCHANGED <<phase, storage, userOff, using, paused>> /\ (Listing(p)' => Listing(p))
      BY <2>1, <2>3, <2>7 DEF storage, house
    <3>2. borrowed' \cap enabled' = {} /\ enabled' \subseteq enabled
      BY <1>1, <2>1 DEF house
    <3> QED
      BY <2>1, <2>3, <2>4, <2>5, <3>1, <3>2, UserGoesOn
  <2> QED
    BY <2>6, <2>7
<1> QED
  BY <1>2, <1>3, <1>4, <1>5, <1>6, <1>7, <1>8 DEF ProbeStep

\* A step of the entry, the user or a crash.
LEMMA UserOther ==
  ASSUME UserInv,
         \/ SetupStep \/ OtherSave \/ Reload \/ Crash
         \/ \E a \in Automations : UserSwitchesAutomation(a)
         \/ \E d \in Devices : UserSwitchesDevice(d)
         \/ UNCHANGED vars
  PROVE  UserInv'
<1>1. /\ SetsOK /\ StoresOK /\ TodoPaused /\ ListsOK /\ ChoiceOK /\ borrowed \cap enabled = {}
  BY DEF UserInv
<1>2. ASSUME UNCHANGED <<pc, using, paused, todo>>
      PROVE  /\ \A p \in Probes : (Active(p)' <=> Active(p)) /\ (Listing(p)' <=> Listing(p))
             /\ \A a, g : (HeldBy(a, g)' <=> HeldBy(a, g)) /\ (HeldByCall(a)' <=> HeldByCall(a))
             /\ LeftOnRecord' = LeftOnRecord /\ TodoPaused'
             /\ enabled' \subseteq Automations => SetsOK'
  <2>1. \A p \in Probes : (Active(p)' <=> Active(p)) /\ (Listing(p)' <=> Listing(p))
    BY <1>2 DEF Active, Listing
  <2>2. LeftOnRecord' = LeftOnRecord /\ TodoPaused'
    BY <1>1, <1>2 DEF LeftOnRecord, TodoPaused
  <2>3. enabled' \subseteq Automations => SetsOK'
    BY <1>1, <1>2 DEF SetsOK
  <2>4. \A a, g : (HeldBy(a, g)' <=> HeldBy(a, g)) /\ (HeldByCall(a)' <=> HeldByCall(a))
    BY <1>2 DEF HeldBy, HeldByCall, Listing
  <2> QED
    BY <2>1, <2>2, <2>3, <2>4
<1>3. \A p \in Probes : Listing(p) => Active(p)
  BY DEF Listing, Active
<1>4. \A a \in userOff \ LeftOnRecord : ~HeldByCall(a)
  BY <1>1 DEF ChoiceOK, HeldByCall, LeftOnRecord
<1>5. \A a, g : HeldBy(a, g) => HeldByCall(a)
  BY DEF HeldBy, HeldByCall
<1>6. CASE Start
  <2>1. /\ phase = "down" /\ phase' = "setup" /\ stores' = [stores EXCEPT ![gen] = disk]
        /\ UNCHANGED <<gen, disk, enabled, userOff, borrowed, pc, using, paused, todo>>
    BY <1>6 DEF Start, house, probeVars
  <2>2. stores'[gen] = disk /\ StoresOK'
    BY <1>1, <2>1 DEF StoresOK
  <2>3. \A p \in Probes : ~Active(p)
    BY <1>1, <2>1 DEF ListsOK
  <2>4. ListsOK'
    BY <1>2, <2>1, <2>2, <2>3 DEF ListsOK
  <2>5. ChoiceOK'
    BY <1>1, <1>2, <2>1, <2>2 DEF ChoiceOK
  <2> QED
    BY <1>1, <1>2, <2>1, <2>2, <2>4, <2>5 DEF UserInv, SetsOK
<1>7. ASSUME NEW failed \in SUBSET Automations, SendRestores(failed) PROVE UserInv'
  <2>1. /\ enabled' = enabled \cup (stores[gen].paused \ failed)
        /\ borrowed' = borrowed \ (stores[gen].paused \ failed)
        /\ phase = "setup" /\ phase' = "restored"
        /\ UNCHANGED <<gen, stores, disk, userOff, pc, using, paused, todo>>
    BY <1>7 DEF SendRestores, storage, probeVars
  <2>2. stores[gen].paused \subseteq Automations
    BY <1>1 DEF StoresOK, Content
  <2>3. StoresOK' /\ enabled' \subseteq Automations
    BY <1>1, <2>1, <2>2 DEF StoresOK, SetsOK
  <2>4. ListsOK'
    BY <1>1, <1>2, <2>1 DEF ListsOK
  <2>5. ChoiceOK'
    BY <1>1, <1>2, <2>1 DEF ChoiceOK
  <2> QED
    BY <1>1, <1>2, <2>1, <2>3, <2>4, <2>5 DEF UserInv
<1>8. CASE ClearOrphans
  <2> DEFINE content == [stores[gen] EXCEPT !.paused = {}]
  <2>1. gen \in Generations /\ stores[gen] \in Content
    BY <1>1 DEF StoresOK
  <2>2. content \in Content /\ content.paused = {}
    BY <2>1 DEF Content
  <2>3. /\ phase = "restored" /\ phase' = "up"
        /\ UNCHANGED <<gen, enabled, userOff, borrowed, pc, using, paused, todo>>
        /\ IF stores[gen].paused # {} THEN SaveStore(gen, content) ELSE UNCHANGED <<stores, disk>>
    BY <1>8 DEF ClearOrphans, house, probeVars
  <2> HIDE DEF content
  <2>4. /\ StoresOK' /\ stores'[gen].paused = {}
        /\ \A g \in Generations : g # gen => stores'[g] = stores[g]
        /\ disk'.paused = {} \/ (disk' = disk /\ stores[gen].paused = {})
    BY <1>1, <2>2, <2>3 DEF StoresOK, SaveStore
  <2>5. \A p \in Probes : Active(p) => using[p] \in Generations /\ using[p] # gen
    BY <1>1, <2>3 DEF ListsOK, StoresOK
  <2>6. ListsOK'
    BY <1>1, <1>2, <2>3, <2>4, <2>5 DEF ListsOK
  <2>7. ChoiceOK'
    BY <1>1, <1>2, <2>3 DEF ChoiceOK
  <2> QED
    BY <1>1, <1>2, <2>3, <2>4, <2>6, <2>7 DEF UserInv, SetsOK
<1>9. CASE OtherSave
  <2>1. /\ phase = "up" /\ disk' = stores[gen]
        /\ UNCHANGED <<phase, gen, stores, enabled, userOff, borrowed, pc, using, paused, todo>>
    BY <1>9 DEF OtherSave, house, probeVars
  <2>2. StoresOK'
    BY <1>1, <2>1 DEF StoresOK
  <2>3. ListsOK'
    BY <1>1, <1>2, <1>5, <2>1 DEF ListsOK
  <2>4. ChoiceOK'
    BY <1>1, <1>2, <2>1 DEF ChoiceOK
  <2> QED
    BY <1>1, <1>2, <2>1, <2>2, <2>3, <2>4 DEF UserInv, SetsOK
<1>10. CASE Reload
  <2>1. gen \in Generations /\ gen + 1 \in Generations /\ gen # gen + 1 /\ gen \in Nat
    BY <1>1, <1>10, ProbePauseAssumption DEF Reload, StoresOK, Generations
  <2>2. /\ phase = "up" /\ phase' = "setup" /\ gen' = gen + 1 /\ disk' = stores[gen]
        /\ stores' = [stores EXCEPT ![gen + 1] = stores[gen]]
        /\ UNCHANGED <<enabled, userOff, borrowed, pc, using, paused, todo>>
    BY <1>10 DEF Reload, house, probeVars
  <2>3. /\ stores'[gen'] = stores[gen]
        /\ \A g \in Generations : g # gen' => stores'[g] = stores[g]
    BY <1>1, <2>1, <2>2 DEF StoresOK
  <2>4. StoresOK'
    BY <1>1, <2>1, <2>2 DEF StoresOK
  <2>5. \A p \in Probes : Active(p) => /\ using[p] \in Generations /\ using[p] # gen'
                                       /\ using[p] <= gen'
    BY <1>1, <2>1, <2>2 DEF ListsOK, StoresOK, Generations
  <2>6. ListsOK'
    BY <1>1, <1>2, <2>2, <2>3, <2>5 DEF ListsOK
  <2>7. ChoiceOK'
    <3>1. \A a \in stores[gen].paused : HeldByCall(a)
      BY <1>1, <1>5, <2>2 DEF ListsOK
    <3> QED
      BY <1>1, <1>2, <1>4, <2>2, <2>3, <3>1 DEF ChoiceOK
  <2> QED
    BY <1>1, <1>2, <2>2, <2>4, <2>6, <2>7 DEF UserInv, SetsOK
<1>11. CASE Crash
  <2>1. /\ phase # "down" /\ phase' = "down"
        /\ pc' = [p \in Probes |-> IF Active(p) THEN "gone" ELSE pc[p]]
        /\ UNCHANGED <<gen, stores, disk, enabled, userOff, borrowed, using, paused, todo>>
    BY <1>11 DEF Crash, storage, house
  <2>2. \A p \in Probes : ~Active(p)' /\ ~Listing(p)'
    BY <2>1 DEF Active, Listing, ActiveAt
  <2>3. LeftOnRecord' = LeftOnRecord
    <3>1. {p \in Probes : pc'[p] = "left"} = {p \in Probes : pc[p] = "left"}
      BY <2>1 DEF Active, ActiveAt
    <3> QED
      BY <2>1, <3>1 DEF LeftOnRecord
  <2>4. SetsOK' /\ TodoPaused' /\ StoresOK'
    <3>1. pc' \in [Probes -> ActiveAt \cup {"idle", "placed", "left", "gone"}]
      BY <1>1, <2>1 DEF SetsOK
    <3>2. \A p \in Probes : pc'[p] \notin {"pausing", "enabling", "failing"}
      BY <2>2 DEF Active, ActiveAt
    <3> QED
      BY <1>1, <2>1, <3>1, <3>2 DEF SetsOK, TodoPaused, StoresOK
  <2>5. ListsOK'
    BY <2>1, <2>2 DEF ListsOK
  <2>6. ChoiceOK'
    <3>1. \A a \in userOff \ LeftOnRecord : a \notin disk.paused
      BY <1>1, <1>4, <2>1 DEF ListsOK, ChoiceOK, StoresOK
    <3> QED
      BY <1>1, <2>1, <2>2, <2>3, <3>1 DEF ChoiceOK
  <2> QED
    BY <1>1, <2>1, <2>4, <2>5, <2>6 DEF UserInv
<1>12. ASSUME NEW a \in Automations, UserSwitchesAutomation(a) PROVE UserInv'
  <2>1. /\ phase # "down" /\ borrowed' = borrowed \ {a}
        /\ UNCHANGED <<phase, gen, stores, disk, pc, using, paused, todo>>
    BY <1>12 DEF UserSwitchesAutomation, storage, probeVars
  <2>2. \/ /\ enabled' = enabled \ {a}
           /\ userOff' = userOff \/ (userOff' = userOff \cup {a} /\ a \notin Held)
        \/ enabled' = enabled \cup {a} /\ userOff' = userOff \ {a}
    BY <1>12 DEF UserSwitchesAutomation
  <2>3. a \notin Held => /\ \A p \in Probes : Listing(p) => a \notin paused[p]
                         /\ phase # "up" => a \notin stores[gen].paused
    BY DEF Held, Listing
  <2>4. StoresOK' /\ ListsOK'
    BY <1>1, <1>2, <2>1 DEF StoresOK, ListsOK
  <2>5. ChoiceOK'
    <3>1. ASSUME NEW b \in userOff' \ LeftOnRecord
          PROVE  /\ b \notin enabled'
                 /\ \A p \in Probes : Listing(p) => b \notin paused[p]
                 /\ phase \in {"setup", "restored"} => b \notin stores[gen].paused
      <4>1. CASE b \in userOff
        BY <1>1, <2>2, <3>1, <4>1 DEF ChoiceOK
      <4>2. CASE b \notin userOff
        <5>1. b = a /\ a \notin Held /\ a \notin enabled'
          BY <2>2, <3>1, <4>2
        <5>2. a \notin Held
          BY <5>1
        <5>3. (\A p \in Probes : Listing(p) => a \notin paused[p])
                /\ (phase # "up" => a \notin stores[gen].paused)
          BY <2>3, <5>2
        <5> QED
          BY <5>1, <5>3
      <4> QED
        BY <4>1, <4>2
    <3> QED
      BY <1>2, <2>1, <3>1 DEF ChoiceOK
  <2>6. enabled' \subseteq Automations /\ borrowed' \cap enabled' = {}
    BY <1>1, <2>1, <2>2 DEF SetsOK
  <2> QED
    BY <1>2, <2>1, <2>4, <2>5, <2>6 DEF UserInv
<1>13. CASE (\E d \in Devices : UserSwitchesDevice(d)) \/ UNCHANGED vars
  <2>1. UNCHANGED <<phase, gen, stores, disk, enabled, userOff, borrowed, pc, using, paused, todo>>
    BY <1>13 DEF UserSwitchesDevice, vars, storage, house, probeVars
  <2>2. StoresOK' /\ ListsOK' /\ ChoiceOK'
    BY <1>1, <1>2, <2>1 DEF StoresOK, ListsOK, ChoiceOK
  <2> QED
    BY <1>1, <1>2, <2>1, <2>2 DEF UserInv, SetsOK
<1> QED
  BY <1>6, <1>7, <1>8, <1>9, <1>10, <1>11, <1>12, <1>13 DEF SetupStep

(* Neither a call (services.py:796-991) nor the restore at startup         *)
(* (__init__.py:88-105) switches on what the user switched off while no    *)
(* call and no setup held it, whatever overlaps, raises, crashes or is     *)
(* reloaded, but for what is on the list of a call that raised before it   *)
(* cleared the list.                                                       *)
THEOREM UserOffAlwaysStaysOff ==
  Spec => []UserOffStaysOff
<1>1. Init => UserInv
  BY UserInit
<1>2. UserInv /\ [Next]_vars => UserInv'
  <2> SUFFICES ASSUME UserInv, [Next]_vars PROVE UserInv'
    OBVIOUS
  <2>1. ASSUME NEW p \in Probes, ProbeStep(p) \/ \E pause \in BOOLEAN : Begin(p, pause)
        PROVE  UserInv'
    BY <2>1, UserProbe
  <2> QED
    BY <2>1, UserOther DEF Next
<1>3. UserInv => UserOffStaysOff
  BY DEF UserInv, ChoiceOK, UserOffStaysOff
<1> QED
  BY <1>1, <1>2, <1>3, PTL DEF Spec

-----------------------------------------------------------------------------
(* The pause list.                                                         *)

\* Without a reload there is one store object, and the file equals it.
OneStore ==
  /\ gen = 1 /\ using = [p \in Probes |-> 1]
  /\ DOMAIN stores = {1}
  /\ stores[1] = disk
  /\ disk \in Content

\* Between the recording of its list and its clearing.
Recording(p) ==
  pc[p] \in {"pausing", "ready", "switched", "restoring", "raising", "enabling", "failing"}

\* The record is the list of the one call that is running; while nothing
\* runs it is empty, unless setup has yet to hand back what is on it.
PauseInv ==
  /\ SetsOK
  /\ OneStore
  /\ TodoPaused
  /\ WriteAhead
  /\ phase \in {"up", "setup", "restored", "down"}
  /\ \A p, q \in Probes : Active(p) /\ Active(q) => p = q
  /\ \A p \in Probes : Active(p) => phase = "up"
  /\ \A p \in Probes : Recording(p) => disk.paused = paused[p]
  /\ phase = "up" /\ (\A p \in Probes : ~Recording(p)) => disk.paused = {}
  /\ \A p \in Probes : pc[p] \in {"enabling", "failing"} => borrowed \subseteq todo[p]
  /\ phase = "restored" => borrowed = {}

\* The invariant holds initially.
LEMMA PauseInit ==
  ASSUME MaxReloads = 0
  PROVE  Init => PauseInv
<1>1. Generations = {1}
  BY DEF Generations
<1> QED
  BY <1>1 DEF Init, PauseInv, SetsOK, OneStore, TodoPaused, WriteAhead, Active, ActiveAt,
              Recording, Content

\* A save by a running call.
LEMMA SaveByCall ==
  ASSUME OneStore, NEW p \in Probes, NEW content \in Content, SaveStore(using[p], content),
         gen' = gen, using' = using
  PROVE  OneStore' /\ disk' = content
<1>1. using[p] = 1
  BY DEF OneStore
<1> QED
  BY <1>1 DEF OneStore, SaveStore

\* A step of the verify_circuit service.
LEMMA PauseProbe ==
  ASSUME MaxReloads = 0, MayOverlap = FALSE, Failures \subseteq {"probe"},
         PauseInv, NEW p \in Probes,
         ProbeStep(p) \/ \E pause \in BOOLEAN : Begin(p, pause)
  PROVE  PauseInv'
<1> USE DEF PauseInv
<1>1. ASSUME NEW pause \in BOOLEAN, Begin(p, pause) PROVE PauseInv'
  <2>1. /\ gen' = gen /\ stores' = stores /\ disk' = disk /\ phase' = phase
        /\ enabled' = enabled /\ borrowed' = borrowed /\ todo' = todo
        /\ phase = "up" /\ pc[p] = "idle"
    BY <1>1 DEF Begin, storage, house
  <2>2. using' = using
    BY <1>1 DEF Begin, OneStore
  <2>3. \A q \in Probes : ~Active(q) /\ ~Recording(q)
    BY <1>1 DEF Begin, Active, ActiveAt, Recording
  <2>4. disk.paused = {} /\ borrowed = {}
    BY <2>1, <2>3 DEF WriteAhead
  <2>5. /\ pc' = [pc EXCEPT ![p] = IF pause THEN "asking" ELSE "ready"]
        /\ paused' = [paused EXCEPT ![p] = IF pause THEN Pausable(p) ELSE {}]
        /\ Pausable(p) \in SUBSET Automations
    BY <1>1 DEF Begin, Pausable, SetsOK
  <2>6. SetsOK'
    BY <2>1, <2>5 DEF SetsOK, ActiveAt
  <2>7. /\ \A q \in Probes : Active(q)' => q = p
        /\ \A q \in Probes : Recording(q)' => q = p /\ paused'[q] = {}
    BY <2>3, <2>5 DEF Active, Recording, ActiveAt, SetsOK
  <2>8. \A q \in Probes : pc'[q] \notin {"pausing", "enabling", "failing"}
    BY <2>3, <2>5 DEF Recording, SetsOK
  <2> QED
    BY <2>1, <2>2, <2>4, <2>6, <2>7, <2>8 DEF OneStore, TodoPaused, WriteAhead
<1>2. CASE Record(p)
  <2> DEFINE content == [disk EXCEPT !.paused = paused[p]]
  <2>1. /\ gen' = gen /\ using' = using /\ enabled' = enabled /\ paused' = paused
        /\ borrowed' = borrowed /\ phase' = phase
        /\ pc[p] = "asking" /\ pc' = [pc EXCEPT ![p] = "pausing"]
        /\ todo' = [todo EXCEPT ![p] = paused[p]]
    BY <1>2 DEF Record, house
  <2>2. content \in Content /\ content.paused = paused[p]
    BY DEF OneStore, Content, SetsOK
  <2>3. SaveStore(using[p], content)
    BY <1>2 DEF Record, OneStore
  <2>4. OneStore' /\ disk'.paused = paused[p]
    BY <2>1, <2>2, <2>3, SaveByCall
  <2>5. Active(p) /\ \A q \in Probes : Active(q) => q = p
    BY <2>1 DEF Active, ActiveAt
  <2>6. \A q \in Probes : ~Recording(q)
    BY <2>1, <2>5 DEF Recording, Active, ActiveAt
  <2>7. borrowed = {} /\ phase = "up"
    BY <2>5, <2>6 DEF WriteAhead
  <2> HIDE DEF content
  <2> QED
    BY <2>1, <2>4, <2>5, <2>6, <2>7
       DEF SetsOK, TodoPaused, WriteAhead, Active, ActiveAt, Recording
<1>3. ASSUME NEW a \in Automations, Pause(p, a) PROVE PauseInv'
  BY <1>3 DEF Pause, storage, SetsOK, OneStore, TodoPaused, WriteAhead, Active, ActiveAt,
              Recording
<1>4. CASE PauseFails(p)
  BY <1>4 DEF PauseFails
<1>5. CASE SwitchAway(p)
  BY <1>5 DEF SwitchAway, Ready, storage, SetsOK, OneStore, TodoPaused, WriteAhead,
              Active, ActiveAt, Recording
<1>6. CASE SwitchBack(p)
  BY <1>6 DEF SwitchBack, storage, SetsOK, OneStore, TodoPaused, WriteAhead, Active,
              ActiveAt, Recording
<1>7. CASE ProbeFails(p)
  BY <1>7 DEF ProbeFails, Ready, storage, house, SetsOK, OneStore, TodoPaused, WriteAhead,
              Active, ActiveAt, Recording
<1>8. CASE RestoreDevice(p)
  BY <1>8 DEF RestoreDevice, storage, SetsOK, OneStore, TodoPaused, WriteAhead, Active,
              ActiveAt, Recording
<1>9. CASE RestoreFails(p)
  BY <1>9 DEF RestoreFails
<1>10. ASSUME NEW a \in Automations, Enable(p, a) PROVE PauseInv'
  BY <1>10 DEF Enable, storage, SetsOK, OneStore, TodoPaused, WriteAhead, Active, ActiveAt,
               Recording
<1>11. CASE Clear(p)
  <2> DEFINE content == [disk EXCEPT !.paused = {}]
  <2>1. /\ gen' = gen /\ using' = using /\ enabled' = enabled /\ paused' = paused
        /\ borrowed' = borrowed /\ phase' = phase /\ todo' = todo
        /\ pc[p] \in {"enabling", "failing"} /\ todo[p] = {}
        /\ pc' = [pc EXCEPT ![p] = IF @ = "enabling" THEN "grading" ELSE "gone"]
    BY <1>11 DEF Clear, house
  <2>2. OneStore' /\ disk'.paused = {}
    <3>1. CASE paused[p] # {}
      <4>1. content \in Content /\ content.paused = {}
        BY DEF OneStore, Content
      <4>2. SaveStore(using[p], content)
        BY <1>11, <3>1 DEF Clear, OneStore
      <4> QED
        BY <2>1, <4>1, <4>2, SaveByCall
    <3>2. CASE paused[p] = {}
      BY <1>11, <2>1, <3>2 DEF Clear, OneStore, Recording
    <3> QED
      BY <3>1, <3>2
  <2>3. borrowed = {}
    BY <2>1
  <2>4. Active(p) /\ \A q \in Probes : Active(q) => q = p
    BY <2>1 DEF Active, ActiveAt
  <2>5. \A q \in Probes : ~Recording(q)'
    BY <2>1, <2>4 DEF Recording, Active, ActiveAt, SetsOK
  <2> HIDE DEF content
  <2> QED
    BY <2>1, <2>2, <2>3, <2>4, <2>5
       DEF SetsOK, TodoPaused, WriteAhead, Active, ActiveAt, Recording
<1>12. ASSUME NEW verdict \in BOOLEAN, Grade(p, verdict) PROVE PauseInv'
  <2> DEFINE content == [disk EXCEPT !.placed = disk.placed \cup {p}]
  <2>1. /\ gen' = gen /\ using' = using /\ enabled' = enabled /\ paused' = paused
        /\ borrowed' = borrowed /\ phase' = phase /\ todo' = todo
        /\ pc[p] = "grading"
        /\ pc' = [pc EXCEPT ![p] = IF verdict THEN "placed" ELSE "gone"]
    BY <1>12 DEF Grade, house
  <2>2. OneStore' /\ disk'.paused = disk.paused
    <3>1. CASE verdict
      <4>1. content \in Content /\ content.paused = disk.paused
        BY DEF OneStore, Content
      <4>2. SaveStore(using[p], content)
        BY <1>12, <3>1 DEF Grade, OneStore
      <4> QED
        BY <2>1, <4>1, <4>2, SaveByCall
    <3>2. CASE ~verdict
      BY <1>12, <2>1, <3>2 DEF Grade, OneStore
    <3> QED
      BY <3>1, <3>2
  <2> HIDE DEF content
  <2> QED
    BY <2>1, <2>2 DEF SetsOK, TodoPaused, WriteAhead, Active, ActiveAt, Recording
<1> QED
  BY <1>1, <1>2, <1>3, <1>4, <1>5, <1>6, <1>7, <1>8, <1>9, <1>10, <1>11, <1>12
     DEF ProbeStep

\* A step of the entry, the user or a crash.
LEMMA PauseOther ==
  ASSUME MaxReloads = 0, Failures \subseteq {"probe"}, PauseInv,
         \/ SetupStep \/ OtherSave \/ Reload \/ Crash
         \/ \E a \in Automations : UserSwitchesAutomation(a)
         \/ \E d \in Devices : UserSwitchesDevice(d)
         \/ UNCHANGED vars
  PROVE  PauseInv'
<1> USE DEF PauseInv
<1>1. CASE Start
  BY <1>1 DEF Start, house, probeVars, SetsOK, OneStore, TodoPaused, WriteAhead, Active,
              ActiveAt, Recording
<1>2. ASSUME NEW failed \in SUBSET Automations, SendRestores(failed) PROVE PauseInv'
  <2>1. /\ enabled' = enabled \cup disk.paused /\ borrowed' = {}
        /\ phase = "setup" /\ phase' = "restored"
        /\ gen' = gen /\ using' = using /\ stores' = stores /\ disk' = disk
        /\ pc' = pc /\ paused' = paused /\ todo' = todo
    BY <1>2 DEF SendRestores, OneStore, WriteAhead, storage, probeVars
  <2>2. \A q \in Probes : ~Active(q) /\ ~Recording(q)
    BY <2>1 DEF Active, ActiveAt, Recording
  <2> QED
    BY <2>1, <2>2 DEF SetsOK, OneStore, TodoPaused, WriteAhead, Active, ActiveAt,
                      Recording, Content
<1>3. CASE ClearOrphans
  <2>1. \A q \in Probes : ~Active(q) /\ ~Recording(q)
    BY <1>3 DEF ClearOrphans, Active, ActiveAt, Recording
  <2>2. OneStore' /\ disk'.paused = {}
    BY <1>3 DEF ClearOrphans, SaveStore, probeVars, OneStore, Content
  <2> QED
    BY <1>3, <2>1, <2>2 DEF ClearOrphans, house, probeVars, SetsOK, TodoPaused, WriteAhead,
                            Active, ActiveAt, Recording
<1>4. CASE OtherSave
  BY <1>4 DEF OtherSave, house, probeVars, SetsOK, OneStore, TodoPaused, WriteAhead,
              Active, ActiveAt, Recording
<1>5. CASE Reload
  BY <1>5 DEF Reload, OneStore
<1>6. CASE Crash
  <2>1. \A q \in Probes : ~Active(q)' /\ ~Recording(q)'
    BY <1>6 DEF Crash, Active, ActiveAt, Recording, SetsOK
  <2> QED
    BY <1>6, <2>1 DEF Crash, storage, house, SetsOK, OneStore, TodoPaused, WriteAhead,
                      Active, ActiveAt, Recording
<1>7. ASSUME NEW a \in Automations, UserSwitchesAutomation(a) PROVE PauseInv'
  <2>1. /\ enabled' \subseteq Automations /\ borrowed' \subseteq borrowed
    BY <1>7 DEF UserSwitchesAutomation, SetsOK
  <2> QED
    BY <1>7, <2>1 DEF UserSwitchesAutomation, storage, probeVars, SetsOK, OneStore,
                      TodoPaused, WriteAhead, Active, ActiveAt, Recording
<1>8. ASSUME NEW d \in Devices, UserSwitchesDevice(d) PROVE PauseInv'
  BY <1>8 DEF UserSwitchesDevice, storage, probeVars, SetsOK, OneStore, TodoPaused,
              WriteAhead, Active, ActiveAt, Recording
<1>9. CASE UNCHANGED vars
  BY <1>9 DEF vars, storage, house, probeVars, SetsOK, OneStore, TodoPaused, WriteAhead,
              Active, ActiveAt, Recording
<1> QED
  BY <1>1, <1>2, <1>3, <1>4, <1>5, <1>6, <1>7, <1>8, <1>9 DEF SetupStep

\* It holds in every behaviour with one call at a time.
LEMMA PauseAlways ==
  ASSUME MaxReloads = 0, MayOverlap = FALSE, Failures \subseteq {"probe"}
  PROVE  Spec => []PauseInv
<1>1. Init => PauseInv
  BY PauseInit
<1>2. PauseInv /\ [Next]_vars => PauseInv'
  <2> SUFFICES ASSUME PauseInv, [Next]_vars PROVE PauseInv'
    OBVIOUS
  <2>1. ASSUME NEW p \in Probes, ProbeStep(p) \/ \E pause \in BOOLEAN : Begin(p, pause)
        PROVE  PauseInv'
    BY <2>1, PauseProbe
  <2> QED
    BY <2>1, PauseOther DEF Next
<1> QED
  BY <1>1, <1>2, PTL DEF Spec

(* While calls are made one after the other, the entry is not reloaded     *)
(* under them and the calls that switch automations do not raise, all that *)
(* a probe has switched off is on the stored list (services.py:884-900):   *)
(* a crash at any moment strands nothing.                                  *)
THEOREM PauseListIsWrittenAhead ==
  ASSUME MaxReloads = 0, MayOverlap = FALSE, Failures \subseteq {"probe"}
  PROVE  Spec => []WriteAhead
<1>1. PauseInv => WriteAhead
  BY DEF PauseInv
<1> QED
  BY <1>1, PauseAlways, PTL

(* Under the same conditions, "restored at the next startup if a probe     *)
(* dies mid-run" (README.md:408) is true: an entry that has come up, with  *)
(* no call running, has left nothing off.                                  *)
THEOREM StartupHandsEverythingBack ==
  ASSUME MaxReloads = 0, MayOverlap = FALSE, Failures \subseteq {"probe"}
  PROVE  Spec => []StartupRestores
<1>1. PauseInv => StartupRestores
  <2> SUFFICES ASSUME PauseInv, phase = "up", \A p \in Probes : ~Active(p)
               PROVE  borrowed = {}
    BY DEF StartupRestores
  <2>1. \A p \in Probes : ~Recording(p)
    BY DEF Active, ActiveAt, Recording
  <2> QED
    BY <2>1 DEF PauseInv, WriteAhead
<1> QED
  BY <1>1, PauseAlways, PTL

-----------------------------------------------------------------------------
(* Types, whatever overlaps, fails, crashes or is reloaded.                *)

\* A call with a switching left to do.
Switching(p) == pc[p] \in {"idle", "asking", "pausing", "ready", "switched"}

TypeInv == TypeOK /\ \A p \in Probes : Switching(p) => rounds[p] # 0

\* A save writes something of the store's type.
LEMMA SaveType ==
  ASSUME stores \in [Generations -> Content], NEW g \in Generations, NEW content \in Content,
         SaveStore(g, content)
  PROVE  stores' \in [Generations -> Content] /\ disk' \in Content
BY DEF SaveStore

\* A new list or a new verdict has it.
LEMMA ContentType ==
  ASSUME NEW content \in Content, NEW list \in SUBSET Automations, NEW p \in Probes
  PROVE  /\ [content EXCEPT !.paused = list] \in Content
         /\ [content EXCEPT !.placed = @ \cup {p}] \in Content
BY DEF Content

\* The types hold initially.
LEMMA TypeInit ==
  Init => TypeInv
<1> SUFFICES ASSUME Init PROVE TypeInv
  OBVIOUS
<1>1. 1 \in Generations /\ ROUNDS \in Nat \ {0} /\ MaxCrashes \in Nat
  BY ProbePauseAssumption DEF Generations
<1>2. disk \in Content
  BY DEF Init, Content
<1>3. stores \in [Generations -> Content]
  BY <1>2 DEF Init
<1>4. /\ rounds = [p \in Probes |-> ROUNDS] /\ pc = [p \in Probes |-> "idle"]
  BY DEF Init
<1>5. rounds \in [Probes -> 0 .. ROUNDS] /\ \A p \in Probes : rounds[p] # 0
  BY <1>1, <1>4
<1>6. pc \in [Probes -> ActiveAt \cup {"idle", "placed", "left", "gone"}]
  BY <1>4
<1>7. TypeOK
  BY <1>1, <1>2, <1>3, <1>5, <1>6 DEF Init, TypeOK
<1> QED
  BY <1>5, <1>7 DEF TypeInv

\* A step of the verify_circuit service keeps them.
LEMMA TypeProbe ==
  ASSUME TypeInv, NEW p \in Probes,
         ProbeStep(p) \/ \E pause \in BOOLEAN : Begin(p, pause)
  PROVE  TypeInv'
<1> USE DEF TypeInv, TypeOK
<1>1. /\ using[p] \in Generations /\ stores[using[p]] \in Content
      /\ paused[p] \in SUBSET Automations
  OBVIOUS
<1>2. ASSUME NEW pause \in BOOLEAN, Begin(p, pause) PROVE TypeInv'
  <2>1. Pausable(p) \in SUBSET Automations /\ (Target[p] \in device) \in BOOLEAN
    BY ProbePauseAssumption DEF Pausable
  <2>2. /\ using' = [using EXCEPT ![p] = gen]
        /\ prior' = [prior EXCEPT ![p] = Target[p] \in device]
        /\ paused' = [paused EXCEPT ![p] = IF pause THEN Pausable(p) ELSE {}]
        /\ pc' = [pc EXCEPT ![p] = IF pause THEN "asking" ELSE "ready"]
        /\ pc[p] = "idle"
    BY <1>2 DEF Begin
  <2>3. /\ using' \in [Probes -> Generations] /\ prior' \in [Probes -> BOOLEAN]
        /\ paused' \in [Probes -> SUBSET Automations]
    BY <2>1, <2>2
  <2>4. pc' \in [Probes -> ActiveAt \cup {"idle", "placed", "left", "gone"}]
    BY <2>2 DEF ActiveAt
  <2>5. \A q \in Probes : Switching(q)' => Switching(q)
    BY <2>2 DEF Switching
  <2> QED
    BY <1>2, <2>3, <2>4, <2>5 DEF Begin, storage, house
<1>3. CASE Record(p)
  <2>1. [stores[using[p]] EXCEPT !.paused = paused[p]] \in Content
    BY <1>1, ContentType
  <2>2. stores' \in [Generations -> Content] /\ disk' \in Content
    BY <1>1, <1>3, <2>1, SaveType DEF Record
  <2>3. /\ pc' = [pc EXCEPT ![p] = "pausing"] /\ pc[p] = "asking"
        /\ todo' \in [Probes -> SUBSET Automations]
    BY <1>1, <1>3 DEF Record
  <2>4. pc' \in [Probes -> ActiveAt \cup {"idle", "placed", "left", "gone"}]
    BY <2>3 DEF ActiveAt
  <2>5. \A q \in Probes : Switching(q)' => Switching(q)
    BY <2>3 DEF Switching
  <2> QED
    BY <1>3, <2>2, <2>3, <2>4, <2>5 DEF Record, house
<1>4. ASSUME NEW a \in Automations, Pause(p, a) \/ Enable(p, a) PROVE TypeInv'
  <2>1. /\ enabled' \subseteq Automations /\ borrowed' \subseteq Automations
        /\ todo' \in [Probes -> SUBSET Automations]
        /\ UNCHANGED <<phase, storage, device, userOff, found, pc, using, prior, paused,
                       rounds, crashes>>
    BY <1>4 DEF Pause, Enable
  <2> QED
    BY <2>1 DEF storage, Switching
<1>5. CASE SwitchAway(p) \/ RestoreDevice(p)
  <2>1. device' \subseteq Devices
    BY <1>5, ProbePauseAssumption DEF SwitchAway, RestoreDevice, SwitchDevice
  <2>2. /\ pc' = [pc EXCEPT ![p] = pc'[p]] /\ pc'[p] \in {"switched", "enabling", "failing"}
        /\ pc'[p] = "switched" => Switching(p)
    BY <1>5 DEF SwitchAway, RestoreDevice, Ready, Switching
  <2>3. pc' \in [Probes -> ActiveAt \cup {"idle", "placed", "left", "gone"}]
    BY <2>2 DEF ActiveAt
  <2>4. \A q \in Probes : Switching(q)' => Switching(q)
    BY <2>2 DEF Switching
  <2>5. todo' \in [Probes -> SUBSET Automations]
    BY <1>1, <1>5 DEF SwitchAway, RestoreDevice
  <2> QED
    BY <1>5, <2>1, <2>3, <2>4, <2>5 DEF SwitchAway, RestoreDevice, storage
<1>6. CASE SwitchBack(p)
  <2>1. device' \subseteq Devices
    BY <1>6, ProbePauseAssumption DEF SwitchBack, SwitchDevice
  <2>2. rounds[p] \in 1 .. ROUNDS /\ ROUNDS \in Nat
    BY <1>6, ProbePauseAssumption DEF SwitchBack, Switching
  <2>3. /\ rounds' = [rounds EXCEPT ![p] = rounds[p] - 1]
        /\ pc' = [pc EXCEPT ![p] = IF rounds[p] = 1 THEN "restoring" ELSE "ready"]
    BY <1>6 DEF SwitchBack
  <2>4. rounds' \in [Probes -> 0 .. ROUNDS]
    BY <2>2, <2>3
  <2>5. pc' \in [Probes -> ActiveAt \cup {"idle", "placed", "left", "gone"}]
    BY <2>3 DEF ActiveAt
  <2>6. ASSUME NEW q \in Probes, Switching(q)' PROVE rounds'[q] # 0
    <3>1. CASE q = p
      <4>1. rounds[p] # 1
        BY <2>3, <2>6, <3>1 DEF Switching
      <4>2. rounds'[p] = rounds[p] - 1
        BY <2>3
      <4> QED
        BY <2>2, <3>1, <4>1, <4>2
    <3>2. CASE q # p
      BY <2>3, <2>6, <3>2 DEF Switching
    <3> QED
      BY <3>1, <3>2
  <2> QED
    BY <1>6, <2>1, <2>4, <2>5, <2>6 DEF SwitchBack, storage
<1>7. CASE PauseFails(p) \/ ProbeFails(p) \/ RestoreFails(p)
  <2>1. /\ pc' = [pc EXCEPT ![p] = pc'[p]] /\ pc'[p] \in {"left", "raising"}
        /\ UNCHANGED <<phase, storage, house, using, prior, paused, todo, rounds, crashes>>
    BY <1>7 DEF PauseFails, ProbeFails, RestoreFails
  <2>2. pc' \in [Probes -> ActiveAt \cup {"idle", "placed", "left", "gone"}]
    BY <2>1 DEF ActiveAt
  <2>3. \A q \in Probes : Switching(q)' => Switching(q)
    BY <2>1 DEF Switching
  <2> QED
    BY <2>1, <2>2, <2>3 DEF storage, house
<1>8. ASSUME Clear(p) \/ \E verdict \in BOOLEAN : Grade(p, verdict) PROVE TypeInv'
  <2>1. /\ pc' = [pc EXCEPT ![p] = pc'[p]] /\ pc'[p] \in {"grading", "placed", "gone"}
        /\ UNCHANGED <<phase, gen, house, using, prior, paused, todo, rounds, crashes>>
    BY <1>8 DEF Clear, Grade
  <2>2. /\ [stores[using[p]] EXCEPT !.paused = {}] \in Content
        /\ [stores[using[p]] EXCEPT !.placed = @ \cup {p}] \in Content
    BY <1>1, ContentType
  <2>3. stores' \in [Generations -> Content] /\ disk' \in Content
    BY <1>1, <1>8, <2>2, SaveType DEF Clear, Grade
  <2>4. pc' \in [Probes -> ActiveAt \cup {"idle", "placed", "left", "gone"}]
    BY <2>1 DEF ActiveAt
  <2>5. \A q \in Probes : Switching(q)' => Switching(q)
    BY <2>1 DEF Switching
  <2> QED
    BY <2>1, <2>3, <2>4, <2>5 DEF house
<1> QED
  BY <1>2, <1>3, <1>4, <1>5, <1>6, <1>7, <1>8 DEF ProbeStep

\* So does a step of the entry, the user or a crash.
LEMMA TypeOther ==
  ASSUME TypeInv,
         \/ SetupStep \/ OtherSave \/ Reload \/ Crash
         \/ \E a \in Automations : UserSwitchesAutomation(a)
         \/ \E d \in Devices : UserSwitchesDevice(d)
         \/ UNCHANGED vars
  PROVE  TypeInv'
<1> USE DEF TypeInv, TypeOK
<1>1. CASE Start
  BY <1>1 DEF Start, house, probeVars, Switching
<1>2. ASSUME NEW failed \in SUBSET Automations, SendRestores(failed) PROVE TypeInv'
  <2>1. stores[gen].paused \in SUBSET Automations
    BY DEF Content
  <2> QED
    BY <1>2, <2>1 DEF SendRestores, storage, probeVars, Switching
<1>3. CASE ClearOrphans
  <2>1. [stores[gen] EXCEPT !.paused = {}] \in Content
    BY DEF Content
  <2>2. stores' \in [Generations -> Content] /\ disk' \in Content
    BY <1>3, <2>1, SaveType DEF ClearOrphans
  <2> QED
    BY <1>3, <2>2 DEF ClearOrphans, house, probeVars, Switching
<1>4. CASE OtherSave
  BY <1>4 DEF OtherSave, house, probeVars, Switching
<1>5. CASE Reload
  <2>1. gen' \in Generations
    BY <1>5, ProbePauseAssumption DEF Reload, Generations
  <2> QED
    BY <1>5, <2>1 DEF Reload, house, probeVars, Switching
<1>6. CASE Crash
  <2>1. pc' \in [Probes -> ActiveAt \cup {"idle", "placed", "left", "gone"}]
    BY <1>6 DEF Crash, ActiveAt
  <2>2. \A q \in Probes : Switching(q)' => Switching(q)
    BY <1>6 DEF Crash, Switching
  <2>3. crashes' \in 0 .. MaxCrashes
    BY <1>6, ProbePauseAssumption DEF Crash
  <2> QED
    BY <1>6, <2>1, <2>2, <2>3 DEF Crash, storage, house
<1>7. ASSUME NEW a \in Automations, UserSwitchesAutomation(a) PROVE TypeInv'
  <2>1. /\ enabled' \subseteq Automations /\ borrowed' \subseteq Automations
        /\ userOff' \subseteq Automations
        /\ UNCHANGED <<phase, storage, device, found, probeVars, crashes>>
    BY <1>7 DEF UserSwitchesAutomation
  <2> QED
    BY <2>1 DEF storage, probeVars, Switching
<1>8. ASSUME NEW d \in Devices, UserSwitchesDevice(d) PROVE TypeInv'
  BY <1>8 DEF UserSwitchesDevice, storage, probeVars, Switching
<1>9. CASE UNCHANGED vars
  BY <1>9 DEF vars, storage, house, probeVars, Switching
<1> QED
  BY <1>1, <1>2, <1>3, <1>4, <1>5, <1>6, <1>7, <1>8, <1>9 DEF SetupStep

\* Every step keeps them.
LEMMA TypeNext ==
  TypeInv /\ [Next]_vars => TypeInv'
<1> SUFFICES ASSUME TypeInv, [Next]_vars PROVE TypeInv'
  OBVIOUS
<1>1. ASSUME NEW p \in Probes, ProbeStep(p) \/ \E pause \in BOOLEAN : Begin(p, pause)
      PROVE  TypeInv'
  BY <1>1, TypeProbe
<1> QED
  BY <1>1, TypeOther DEF Next

(* The calls, the stores and the house keep their types, and no call       *)
(* switches its device once too often.                                     *)
THEOREM ProbeTypes ==
  Spec => []TypeOK
BY TypeInit, TypeNext, PTL DEF Spec, TypeInv

-----------------------------------------------------------------------------
(* The devices.                                                            *)

\* Calls for one device do not overlap.
OneCallPerDevice ==
  MayOverlap = FALSE \/ \A p, q \in Probes : Target[p] = Target[q] => p = q

\* The device of a call is as it was found, except between the switchings.
DeviceInv ==
  crashes = 0 =>
    /\ \A p, q \in Probes : Active(p) /\ Active(q) /\ Target[p] = Target[q] => p = q
    /\ \A p \in Probes : Active(p) => (prior[p] <=> Target[p] \in found)
    /\ \A p \in Probes : pc[p] \in ActiveAt \ {"switched", "restoring", "raising"}
                           => (Target[p] \in device <=> Target[p] \in found)
    /\ DeviceAsFound

\* A step of a call keeps that, if the calls that switch its device back
\* do not raise.
LEMMA DeviceProbe ==
  ASSUME OneCallPerDevice, "device" \notin Failures, TypeInv, DeviceInv, NEW p \in Probes,
         ProbeStep(p) \/ \E pause \in BOOLEAN : Begin(p, pause)
  PROVE  DeviceInv'
<1> SUFFICES ASSUME crashes' = 0 PROVE DeviceInv'
  BY DEF DeviceInv
<1>1. crashes = 0 /\ found' = found
  BY DEF ProbeStep, Begin, Record, PauseFails, SwitchAway, SwitchBack, ProbeFails,
         RestoreDevice, RestoreFails, Clear, Pause, Enable, Grade, house
<1>2. /\ \A q, r \in Probes : Active(q) /\ Active(r) /\ Target[q] = Target[r] => q = r
      /\ \A q \in Probes : Active(q) => (prior[q] <=> Target[q] \in found)
      /\ \A q \in Probes : pc[q] \in ActiveAt \ {"switched", "restoring", "raising"}
                             => (Target[q] \in device <=> Target[q] \in found)
      /\ \A d \in Devices : (\A q \in Probes : Active(q) => Target[q] # d)
                              => (d \in device <=> d \in found)
  BY <1>1 DEF DeviceInv, DeviceAsFound
<1>3. /\ pc \in [Probes -> ActiveAt \cup {"idle", "placed", "left", "gone"}]
      /\ prior \in [Probes -> BOOLEAN] /\ Target \in [Probes -> Devices]
  BY ProbePauseAssumption DEF TypeInv, TypeOK
<1>4. ASSUME NEW pause \in BOOLEAN, Begin(p, pause) PROVE DeviceInv'
  <2>1. /\ pc' = [pc EXCEPT ![p] = pc'[p]] /\ pc'[p] \in {"asking", "ready"}
        /\ prior' = [prior EXCEPT ![p] = Target[p] \in device]
        /\ device' = device /\ pc[p] = "idle"
    BY <1>3, <1>4 DEF Begin, house
  <2>2. \A q \in Probes : Active(q) /\ Target[q] = Target[p] => q = p
    BY <1>4 DEF Begin, OneCallPerDevice
  <2>3. Target[p] \in device <=> Target[p] \in found
    <3>1. \A q \in Probes : Active(q) => Target[q] # Target[p]
      BY <2>1, <2>2 DEF Active, ActiveAt
    <3> QED
      BY <1>2, <1>3, <3>1
  <2>4. \A q \in Probes : Active(q)' <=> Active(q) \/ q = p
    BY <1>3, <2>1 DEF Active, ActiveAt
  <2>5. \A q, r \in Probes : Active(q)' /\ Active(r)' /\ Target[q] = Target[r] => q = r
    BY <1>2, <2>2, <2>4
  <2>6. \A q \in Probes : Active(q)' => (prior'[q] <=> Target[q] \in found)
    BY <1>2, <1>3, <2>1, <2>3, <2>4
  <2>7. \A q \in Probes : pc'[q] \in ActiveAt \ {"switched", "restoring", "raising"}
                            => (Target[q] \in device <=> Target[q] \in found)
    BY <1>2, <1>3, <2>1, <2>3
  <2>8. DeviceAsFound'
    BY <1>1, <1>2, <2>1, <2>4 DEF DeviceAsFound
  <2> QED
    BY <1>1, <2>1, <2>5, <2>6, <2>7, <2>8 DEF DeviceInv
<1>5. ASSUME prior' = prior, pc' = [pc EXCEPT ![p] = pc'[p]], Active(p),
             \/ device' = device
             \/ device' = device \cup {Target[p]}
             \/ device' = device \ {Target[p]},
             pc'[p] \in {"switched", "restoring", "raising"}
               \/ (Target[p] \in device' <=> prior[p])
      PROVE  DeviceInv'
  <2>1. /\ \A q \in Probes : q # p => (Active(q)' <=> Active(q)) /\ pc'[q] = pc[q]
        /\ \A q \in Probes : Active(q)' => Active(q)
    BY <1>3, <1>5 DEF Active
  <2>2. \A q \in Probes : q # p /\ Active(q) => Target[q] # Target[p]
    BY <1>2, <1>5
  <2>3. \A d : d # Target[p] => (d \in device' <=> d \in device)
    BY <1>5
  <2>4. \A q, r \in Probes : Active(q)' /\ Active(r)' /\ Target[q] = Target[r] => q = r
    BY <1>2, <2>1
  <2>5. \A q \in Probes : Active(q)' => (prior'[q] <=> Target[q] \in found)
    BY <1>2, <1>5, <2>1
  <2>6. ASSUME NEW q \in Probes, pc'[q] \in ActiveAt \ {"switched", "restoring", "raising"}
        PROVE  Target[q] \in device' <=> Target[q] \in found
    <3>1. CASE q = p
      BY <1>2, <1>5, <2>6, <3>1
    <3>2. CASE q # p
      BY <1>2, <2>1, <2>2, <2>3, <2>6, <3>2 DEF Active
    <3> QED
      BY <3>1, <3>2
  <2>7. ASSUME NEW d \in Devices, \A q \in Probes : Active(q)' => Target[q] # d
        PROVE  d \in device' <=> d \in found
    <3>1. CASE d = Target[p]
      <4>1. ~Active(p)'
        BY <2>7, <3>1
      <4>2. pc'[p] \notin {"switched", "restoring", "raising"}
        BY <4>1 DEF Active, ActiveAt
      <4> QED
        BY <1>2, <1>5, <3>1, <4>2
    <3>2. CASE d # Target[p]
      <4>1. \A q \in Probes : Active(q) => Target[q] # d
        BY <2>1, <2>7, <3>2
      <4> QED
        BY <1>2, <2>3, <3>2, <4>1
    <3> QED
      BY <3>1, <3>2
  <2>8. DeviceAsFound'
    BY <1>1, <2>7 DEF DeviceAsFound
  <2> QED
    BY <1>1, <2>4, <2>5, <2>6, <2>8 DEF DeviceInv
<1>6. pc[p] \in ActiveAt \ {"switched", "restoring", "raising"} =>
        (Target[p] \in device <=> prior[p])
  BY <1>2 DEF Active
<1>7. CASE Record(p) \/ PauseFails(p) \/ Clear(p) \/ (\E verdict \in BOOLEAN : Grade(p, verdict))
           \/ (\E a \in Automations : Pause(p, a) \/ Enable(p, a))
  <2>1. /\ prior' = prior /\ device' = device /\ pc' = [pc EXCEPT ![p] = pc'[p]]
        /\ pc[p] \in {"asking", "pausing", "enabling", "failing", "grading"}
    BY <1>3, <1>7 DEF Record, PauseFails, Clear, Grade, Pause, Enable, house
  <2>2. Active(p) /\ pc[p] \in ActiveAt \ {"switched", "restoring", "raising"}
    BY <2>1 DEF Active, ActiveAt
  <2> QED
    BY <1>5, <1>6, <2>1, <2>2
<1>8. CASE SwitchAway(p) \/ SwitchBack(p) \/ RestoreDevice(p)
  <2>1. /\ prior' = prior /\ pc' = [pc EXCEPT ![p] = pc'[p]]
        /\ pc[p] \in {"ready", "pausing", "switched", "restoring", "raising"}
        /\ \/ SwitchDevice(p, ~prior[p]) /\ pc'[p] = "switched"
           \/ SwitchDevice(p, prior[p])
    BY <1>3, <1>8 DEF SwitchAway, SwitchBack, RestoreDevice, Ready
  <2>2. Active(p)
    BY <2>1 DEF Active, ActiveAt
  <2>3. \/ device' = device \cup {Target[p]}
        \/ device' = device \ {Target[p]}
    BY <2>1 DEF SwitchDevice
  <2>4. pc'[p] = "switched" \/ (Target[p] \in device' <=> prior[p])
    BY <2>1 DEF SwitchDevice
  <2> QED
    BY <1>5, <2>1, <2>2, <2>3, <2>4
<1>9. CASE ProbeFails(p)
  <2>1. /\ prior' = prior /\ device' = device /\ pc' = [pc EXCEPT ![p] = pc'[p]]
        /\ pc'[p] = "raising" /\ pc[p] \in {"ready", "pausing", "switched"}
    BY <1>3, <1>9 DEF ProbeFails, Ready, house
  <2>2. Active(p)
    BY <2>1 DEF Active, ActiveAt
  <2> QED
    BY <1>5, <2>1, <2>2
<1>10. CASE RestoreFails(p)
  <2>1. /\ prior' = prior /\ device' = device /\ pc' = [pc EXCEPT ![p] = pc'[p]]
        /\ pc[p] \in {"enabling", "failing"}
    BY <1>3, <1>10 DEF RestoreFails, house
  <2>2. Active(p) /\ pc[p] \in ActiveAt \ {"switched", "restoring", "raising"}
    BY <2>1 DEF Active, ActiveAt
  <2> QED
    BY <1>5, <1>6, <2>1, <2>2
<1> QED
  BY <1>4, <1>7, <1>8, <1>9, <1>10 DEF ProbeStep

\* So does a step of the entry or the user.
LEMMA DeviceOther ==
  ASSUME TypeInv, DeviceInv,
         \/ SetupStep \/ OtherSave \/ Reload \/ Crash
         \/ \E a \in Automations : UserSwitchesAutomation(a)
         \/ \E d \in Devices : UserSwitchesDevice(d)
         \/ UNCHANGED vars
  PROVE  DeviceInv'
<1> SUFFICES ASSUME crashes' = 0 PROVE DeviceInv'
  BY DEF DeviceInv
<1>1. CASE Crash
  <2>1. FALSE
    BY <1>1 DEF Crash, TypeInv, TypeOK
  <2> QED
    BY <2>1
<1>2. CASE \/ SetupStep \/ OtherSave \/ Reload
           \/ \E a \in Automations : UserSwitchesAutomation(a)
           \/ UNCHANGED vars
  <2>1. UNCHANGED <<pc, prior, device, found, crashes>>
    BY <1>2 DEF SetupStep, Start, SendRestores, ClearOrphans, OtherSave, Reload,
                UserSwitchesAutomation, vars, house, probeVars
  <2> QED
    BY <2>1 DEF DeviceInv, DeviceAsFound, Active
<1>3. ASSUME NEW d \in Devices, UserSwitchesDevice(d) PROVE DeviceInv'
  <2>1. /\ UNCHANGED <<pc, prior, crashes>>
        /\ \A p \in Probes : Active(p) => Target[p] # d
        /\ device' = (device \ {d}) \cup ({d} \ device)
        /\ found' = (found \ {d}) \cup ({d} \ device)
    BY <1>3 DEF UserSwitchesDevice, probeVars
  <2>2. \A e : IF e = d THEN e \in device' <=> e \in found'
               ELSE (e \in device' <=> e \in device) /\ (e \in found' <=> e \in found)
    BY <2>1
  <2>3. \A p \in Probes : (Active(p)' <=> Active(p)) /\ pc'[p] = pc[p]
    BY <2>1 DEF Active
  <2>4. \A p \in Probes : pc[p] \in ActiveAt \ {"switched", "restoring", "raising"} => Active(p)
    BY DEF Active
  <2>5. DeviceAsFound'
    BY <2>1, <2>2, <2>3 DEF DeviceInv, DeviceAsFound
  <2> QED
    BY <2>1, <2>2, <2>3, <2>4, <2>5 DEF DeviceInv
<1> QED
  BY <1>1, <1>2, <1>3

(* While calls for one device are not made at once and the calls that      *)
(* switch it back do not raise, a device nobody is probing is as its user  *)
(* left it (services.py:912-991), whatever else raises, overlaps or is     *)
(* reloaded.                                                               *)
THEOREM DevicesAreHandedBack ==
  ASSUME OneCallPerDevice, "device" \notin Failures
  PROVE  Spec => []DeviceAsFound
<1>1. Init => TypeInv /\ DeviceInv
  <2>1. Init => DeviceInv
    BY DEF Init, DeviceInv, DeviceAsFound, Active, ActiveAt
  <2> QED
    BY <2>1, TypeInit
<1>2. (TypeInv /\ DeviceInv) /\ [Next]_vars => (TypeInv /\ DeviceInv)'
  <2> SUFFICES ASSUME TypeInv, DeviceInv, [Next]_vars PROVE TypeInv' /\ DeviceInv'
    OBVIOUS
  <2>1. TypeInv'
    BY TypeNext
  <2>2. ASSUME NEW p \in Probes, ProbeStep(p) \/ \E pause \in BOOLEAN : Begin(p, pause)
        PROVE  DeviceInv'
    BY <2>2, DeviceProbe
  <2> QED
    BY <2>1, <2>2, DeviceOther DEF Next
<1>3. DeviceInv => DeviceAsFound
  BY DEF DeviceInv, DeviceAsFound
<1> QED
  BY <1>1, <1>2, <1>3, PTL DEF Spec
=============================================================================
