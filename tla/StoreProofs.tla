---------------------------- MODULE StoreProofs ----------------------------
(***************************************************************************)
(* Theorems about Assignments, for any devices, circuits and limits, and   *)
(* about everything the store keeps (MCStore), from those and the theorems *)
(* about TripLedger and Library.                                           *)
(***************************************************************************)
EXTENDS MCStore, TripLedgerProofs, LibraryProofs

\* The types of what the proofs use.
RowsOK ==
  /\ loaded \in BOOLEAN
  /\ live \subseteq DeviceIds \cup CircuitIds
  /\ rows \in [Keys -> Answers \cup {NoRow}]
  /\ heard \in [Keys -> Seq(Answers)]

\* A row holds the newest of the strongest answers in its history.
HoldsWinner(row, s) ==
  IF row = NoRow THEN s = <<>>
  ELSE \E i \in DOMAIN s : Wins(s, i) /\ row = s[i]

\* Before the first load the migration of the row is still to come.
RowsAreWinners ==
  \A k \in Keys : HoldsWinner(IF loaded \/ rows[k] = NoRow THEN rows[k]
                              ELSE Reserve(rows[k]), heard[k])

\* Once loaded, the migration has nothing left to do.
RowsReserved ==
  loaded => \A k \in Keys : rows[k] # NoRow => Reserve(rows[k]) = rows[k]

Inv == RowsOK /\ RowsAreWinners /\ RowsReserved

-----------------------------------------------------------------------------
(* Lemmas on answers.                                                      *)

\* Reserve keeps the type of an answer, changes it at most once, and leaves
\* no passive answer measured.
LEMMA ReserveProperties ==
  ASSUME NEW a \in Answers
  PROVE  /\ Reserve(a) \in Answers
         /\ Reserve(Reserve(a)) = Reserve(a)
         /\ Reserve(a) = a => (a.confidence = "measured" => a.source = "probe")
BY DEF Reserve, Answers, Sources

\* The answers the services write are answers.
LEMMA AnswerType ==
  ASSUME NEW e \in OldEvidence, NEW c \in CircuitIds
  PROVE  Answer(e, c) \in Answers
BY DEF OldEvidence, Evidence, Answer, Answers, Sources

\* Strengths are numbers.
LEMMA StrengthType ==
  ASSUME NEW a \in Answers
  PROVE  Strength(a) \in 0 .. 4
BY DEF Strength, Answers

\* A single answer wins.
LEMMA SingletonWins ==
  ASSUME NEW a \in Answers
  PROVE  HoldsWinner(a, <<a>>)
<1>1. DOMAIN <<a>> = {1} /\ <<a>>[1] = a
  OBVIOUS
<1>2. a # NoRow
  BY NoRowAssumption
<1>3. Wins(<<a>>, 1)
  BY <1>1, StrengthType DEF Wins
<1> QED
  BY <1>1, <1>2, <1>3 DEF HoldsWinner

\* An answer at least as strong as the row becomes the winner.
LEMMA StrongerWins ==
  ASSUME NEW s \in Seq(Answers), NEW row \in Answers \cup {NoRow}, NEW a \in Answers,
         HoldsWinner(row, s),
         row = NoRow \/ ~(Strength(a) < Strength(row))
  PROVE  HoldsWinner(a, Append(s, a))
<1> DEFINE t == Append(s, a)
           n == Len(s) + 1
<1>1. /\ DOMAIN t = 1 .. n /\ n \in Nat /\ n >= 1
      /\ t[n] = a
      /\ \A j \in 1 .. n : j # n => j \in DOMAIN s /\ t[j] = s[j]
  OBVIOUS
<1>2. \A j \in DOMAIN s : s[j] \in Answers
  OBVIOUS
<1>3. \A j \in DOMAIN s : Strength(s[j]) <= Strength(a)
  <2>1. CASE row = NoRow
    BY <2>1 DEF HoldsWinner
  <2>2. CASE row # NoRow
    <3>1. PICK i \in DOMAIN s : Wins(s, i) /\ row = s[i]
      BY <2>2 DEF HoldsWinner
    <3>2. Strength(row) <= Strength(a)
      BY <2>2, StrengthType
    <3>3. \A j \in DOMAIN s : Strength(s[j]) <= Strength(row)
      BY <3>1 DEF Wins
    <3> QED
      BY <3>2, <3>3, <2>2, <1>2, StrengthType
  <2> QED
    BY <2>1, <2>2
<1>4. Wins(t, n)
  <2>1. n \in DOMAIN t
    BY <1>1
  <2>2. ASSUME NEW j \in DOMAIN t
        PROVE  Strength(t[j]) <= Strength(t[n]) /\ (j > n => Strength(t[j]) < Strength(t[n]))
    BY <1>1, <1>3, StrengthType
  <2> QED
    BY <2>1, <2>2 DEF Wins
<1>5. a # NoRow
  BY NoRowAssumption
<1> QED
  BY <1>1, <1>4, <1>5 DEF HoldsWinner

\* A weaker answer changes nothing.
LEMMA WeakerLoses ==
  ASSUME NEW s \in Seq(Answers), NEW row \in Answers, NEW a \in Answers,
         HoldsWinner(row, s), Strength(a) < Strength(row)
  PROVE  HoldsWinner(row, Append(s, a))
<1> DEFINE t == Append(s, a)
           n == Len(s) + 1
<1>1. row # NoRow
  BY NoRowAssumption
<1>2. PICK i \in DOMAIN s : Wins(s, i) /\ row = s[i]
  BY <1>1 DEF HoldsWinner
<1>3. /\ DOMAIN t = 1 .. n /\ n \in Nat /\ n >= 1
      /\ t[n] = a
      /\ \A j \in 1 .. n : j # n => j \in DOMAIN s /\ t[j] = s[j]
      /\ i \in 1 .. n /\ i # n /\ t[i] = row
  BY <1>2
<1>4. Wins(t, i)
  <2>1. ASSUME NEW j \in DOMAIN t
        PROVE  Strength(t[j]) <= Strength(t[i]) /\ (j > i => Strength(t[j]) < Strength(t[i]))
    <3>1. CASE j = n
      BY <3>1, <1>3, StrengthType
    <3>2. CASE j # n
      <4>1. j \in DOMAIN s /\ t[j] = s[j] /\ t[i] = s[i]
        BY <3>2, <1>2, <1>3
      <4> QED
        BY <4>1, <1>2 DEF Wins
    <3> QED
      BY <3>1, <3>2
  <2> QED
    BY <2>1, <1>3 DEF Wins
<1> QED
  BY <1>1, <1>3, <1>4 DEF HoldsWinner

-----------------------------------------------------------------------------
(* The invariant is inductive.                                             *)

\* Initially each row is its own history, as the migration will leave it.
LEMMA InitInv ==
  Init => Inv
<1> SUFFICES ASSUME Init PROVE Inv
  OBVIOUS
<1>1. rows \in [Keys -> Answers \cup {NoRow}]
  BY AssignmentsAssumption, AnswerType DEF Init, Keys
<1>2. heard \in [Keys -> Seq(Answers)]
  BY <1>1, ReserveProperties DEF Init
<1>3. RowsOK
  BY <1>1, <1>2, AssignmentsAssumption DEF Init, RowsOK
<1>4. RowsAreWinners
  <2> SUFFICES ASSUME NEW k \in Keys
               PROVE  HoldsWinner(IF rows[k] = NoRow THEN rows[k] ELSE Reserve(rows[k]),
                                  heard[k])
    BY DEF Init, RowsAreWinners
  <2>1. CASE rows[k] = NoRow
    BY <2>1 DEF Init, HoldsWinner
  <2>2. CASE rows[k] # NoRow
    <3>1. Reserve(rows[k]) \in Answers
      BY <1>1, <2>2, ReserveProperties
    <3>2. heard[k] = <<Reserve(rows[k])>>
      BY <2>2 DEF Init
    <3> QED
      BY <3>1, <3>2, <2>2, SingletonWins
  <2> QED
    BY <2>1, <2>2
<1>5. RowsReserved
  BY DEF Init, RowsReserved
<1> QED
  BY <1>3, <1>4, <1>5 DEF Inv

\* A load brings every row to its reserved form.
LEMMA LoadInv ==
  ASSUME Inv, Load
  PROVE  Inv'
<1> USE DEF Inv
<1>1. RowsOK'
  BY ReserveProperties DEF RowsOK, Load
<1>2. RowsAreWinners'
  <2> SUFFICES ASSUME NEW k \in Keys PROVE HoldsWinner(rows[k], heard[k])'
    BY DEF Load, RowsAreWinners
  <2>1. CASE k \in OwnSensors
    BY <2>1 DEF Load, HoldsWinner
  <2>2. CASE k \notin OwnSensors /\ rows[k] = NoRow
    BY <2>2 DEF Load, HoldsWinner, RowsAreWinners
  <2>3. CASE k \notin OwnSensors /\ rows[k] # NoRow
    <3>1. rows'[k] = Reserve(rows[k]) /\ heard'[k] = heard[k]
      BY <2>3 DEF Load
    <3>2. HoldsWinner(Reserve(rows[k]), heard[k])
      BY <2>3 DEF RowsAreWinners, RowsReserved
    <3> QED
      BY <3>1, <3>2 DEF HoldsWinner
  <2> QED
    BY <2>1, <2>2, <2>3
<1>3. RowsReserved'
  BY ReserveProperties DEF RowsOK, Load, RowsReserved
<1> QED
  BY <1>1, <1>2, <1>3

\* A recording adds an answer and keeps the winner.
LEMMA RecordInv ==
  ASSUME Inv, NEW d \in DeviceIds, NEW e \in Evidence, NEW c \in CircuitIds,
         RecordAssignment(d, e, c)
  PROVE  Inv'
<1> USE DEF Inv
<1> DEFINE a == Reserve(Answer(e, c))
<1>1. a \in Answers /\ Reserve(a) = a
  BY AnswerType, ReserveProperties DEF OldEvidence
<1>2. d \in Keys /\ loaded /\ loaded'
  BY DEF Keys, RecordAssignment
<1>3. heard' = [heard EXCEPT ![d] = Append(@, a)]
  BY DEF RecordAssignment
<1>4. \/ /\ rows' = rows
         /\ rows[d] # NoRow /\ Strength(a) < Strength(rows[d])
      \/ /\ rows' = [rows EXCEPT ![d] = a]
         /\ rows[d] = NoRow \/ ~(Strength(a) < Strength(rows[d]))
  BY DEF RecordAssignment, NoteConflict, Replace
<1>5. RowsOK'
  <2>1. heard' \in [Keys -> Seq(Answers)]
    BY <1>1, <1>2, <1>3 DEF RowsOK
  <2>2. rows' \in [Keys -> Answers \cup {NoRow}]
    BY <1>1, <1>2, <1>4 DEF RowsOK
  <2> QED
    BY <2>1, <2>2 DEF RowsOK, RecordAssignment
<1>6. RowsAreWinners'
  <2> SUFFICES ASSUME NEW k \in Keys PROVE HoldsWinner(rows'[k], heard'[k])
    BY <1>2 DEF RowsAreWinners, HoldsWinner
  <2>1. HoldsWinner(rows[k], heard[k])
    BY <1>2 DEF RowsAreWinners
  <2>2. CASE k # d
    <3>1. rows'[k] = rows[k] /\ heard'[k] = heard[k]
      BY <2>2, <1>3, <1>4 DEF RowsOK
    <3> QED
      BY <3>1, <2>1
  <2>3. CASE k = d
    <3>1. heard'[k] = Append(heard[k], a) /\ heard[k] \in Seq(Answers)
      BY <2>3, <1>2, <1>3 DEF RowsOK
    <3>2. CASE rows' = rows /\ rows[d] # NoRow /\ Strength(a) < Strength(rows[d])
      <4>1. rows[k] \in Answers /\ rows'[k] = rows[k]
        BY <3>2, <2>3 DEF RowsOK
      <4> QED
        BY <4>1, <3>1, <3>2, <2>1, <2>3, <1>1, WeakerLoses
    <3>3. CASE /\ rows' = [rows EXCEPT ![d] = a]
               /\ rows[d] = NoRow \/ ~(Strength(a) < Strength(rows[d]))
      <4>1. rows[k] \in Answers \cup {NoRow} /\ rows'[k] = a
        BY <3>3, <2>3 DEF RowsOK
      <4> QED
        BY <4>1, <3>1, <3>3, <2>1, <2>3, <1>1, StrongerWins
    <3> QED
      BY <1>4, <3>2, <3>3
  <2> QED
    BY <2>2, <2>3
<1>7. RowsReserved'
  BY <1>1, <1>2, <1>4 DEF RowsReserved, RowsOK
<1> QED
  BY <1>5, <1>6, <1>7

\* Forgetting a row forgets its history.
LEMMA ForgetInv ==
  ASSUME Inv, NEW d \in DeviceIds, ForgetAssignment(d)
  PROVE  Inv'
<1>1. RowsOK'
  <2>1. heard' \in [Keys -> Seq(Answers)]
    <3>1. heard' = [heard EXCEPT ![d] = <<>>] /\ <<>> \in Seq(Answers)
      BY DEF ForgetAssignment
    <3> QED
      BY <3>1 DEF Inv, RowsOK
  <2>2. rows' \in [Keys -> Answers \cup {NoRow}]
    BY DEF Inv, RowsOK, ForgetAssignment
  <2> QED
    BY <2>1, <2>2 DEF Inv, RowsOK, ForgetAssignment
<1>2. RowsAreWinners'
  <2> SUFFICES ASSUME NEW k \in Keys PROVE HoldsWinner(rows'[k], heard'[k])
    BY DEF ForgetAssignment, RowsAreWinners, HoldsWinner
  <2> QED
    BY DEF Inv, RowsOK, RowsAreWinners, HoldsWinner, ForgetAssignment
<1>3. RowsReserved'
  BY DEF Inv, RowsOK, RowsReserved, ForgetAssignment
<1> QED
  BY <1>1, <1>2, <1>3 DEF Inv

\* A renamed device takes its row and its history along.
LEMMA MigrateDeviceInv ==
  ASSUME Inv, NEW old \in DeviceIds, NEW new \in DeviceIds, MigrateDevice(old, new)
  PROVE  Inv'
<1>1. old \in Keys /\ new \in Keys /\ old # new
  BY DEF Keys, MigrateDevice
<1>2. RowsOK
  BY DEF Inv
<1>3. CASE rows[old] = NoRow
  <2>1. rows' = rows /\ heard' = heard /\ loaded' = loaded
    BY <1>3 DEF MigrateDevice
  <2>2. live' \subseteq DeviceIds \cup CircuitIds
    BY <1>2 DEF RowsOK, MigrateDevice
  <2> QED
    BY <2>1, <2>2 DEF Inv, RowsOK, RowsAreWinners, HoldsWinner, RowsReserved
<1>4. CASE rows[old] # NoRow
  <2>1. /\ rows' = [rows EXCEPT ![new] = rows[old], ![old] = NoRow]
        /\ heard' = [heard EXCEPT ![new] = heard[old], ![old] = <<>>]
        /\ loaded' = loaded /\ loaded
    BY <1>4 DEF MigrateDevice
  <2>2. \A k \in Keys : /\ rows'[k] = IF k = old THEN NoRow
                                       ELSE IF k = new THEN rows[old] ELSE rows[k]
                        /\ heard'[k] = IF k = old THEN <<>>
                                        ELSE IF k = new THEN heard[old] ELSE heard[k]
    BY <2>1, <1>1, <1>2 DEF RowsOK
  <2>3. RowsOK'
    <3>1. rows' \in [Keys -> Answers \cup {NoRow}]
      BY <2>1, <1>1, <1>2 DEF RowsOK
    <3>2. heard' \in [Keys -> Seq(Answers)]
      <4>1. <<>> \in Seq(Answers)
        OBVIOUS
      <4> QED
        BY <4>1, <2>1, <1>1, <1>2 DEF RowsOK
    <3> QED
      BY <3>1, <3>2, <1>2 DEF RowsOK, MigrateDevice
  <2>4. RowsAreWinners'
    <3> SUFFICES ASSUME NEW k \in Keys PROVE HoldsWinner(rows'[k], heard'[k])
      BY <2>1 DEF RowsAreWinners
    <3>1. \A h \in Keys : HoldsWinner(rows[h], heard[h])
      BY <2>1 DEF Inv, RowsAreWinners
    <3>2. CASE k = old
      BY <3>2, <2>2 DEF HoldsWinner
    <3>3. CASE k # old
      BY <3>1, <3>3, <2>2, <1>1
    <3> QED
      BY <3>2, <3>3
  <2>5. RowsReserved'
    BY <2>1, <2>2, <1>1, ZenonT(30) DEF Inv, RowsReserved
  <2> QED
    BY <2>3, <2>4, <2>5 DEF Inv
<1> QED
  BY <1>3, <1>4

\* A circuit's new name changes neither the strength nor the form of an answer.
LEMMA MovedProperties ==
  ASSUME NEW a \in Answers, NEW old \in CircuitIds, NEW new \in CircuitIds
  PROVE  /\ Moved(a, old, new) \in Answers
         /\ Strength(Moved(a, old, new)) = Strength(a)
         /\ Reserve(a) = a => Reserve(Moved(a, old, new)) = Moved(a, old, new)
BY DEF Moved, Answers, Strength, Reserve

\* A renamed circuit changes its rows and their history alike.
LEMMA MigrateCircuitInv ==
  ASSUME Inv, NEW old \in CircuitIds, NEW new \in CircuitIds, MigrateCircuit(old, new)
  PROVE  Inv'
<1> DEFINE m(a) == Moved(a, old, new)
<1>1. \A a \in Answers : m(a) \in Answers /\ Strength(m(a)) = Strength(a)
  BY MovedProperties
<1>2. \A k \in Keys : /\ heard[k] \in Seq(Answers)
                      /\ heard'[k] = [i \in DOMAIN heard[k] |-> m(heard[k][i])]
  BY DEF Inv, RowsOK, MigrateCircuit
<1>3. \A k \in Keys : heard'[k] \in Seq(Answers) /\ DOMAIN heard'[k] = DOMAIN heard[k]
  <2> SUFFICES ASSUME NEW k \in Keys
               PROVE  heard'[k] \in Seq(Answers) /\ DOMAIN heard'[k] = DOMAIN heard[k]
    OBVIOUS
  <2>1. heard[k] \in Seq(Answers) /\ heard'[k] = [i \in DOMAIN heard[k] |-> m(heard[k][i])]
    BY <1>2
  <2>2. \A i \in DOMAIN heard[k] : heard[k][i] \in Answers
    BY <2>1
  <2>3. \A i \in DOMAIN heard[k] : m(heard[k][i]) \in Answers
    BY <2>2, <1>1
  <2> HIDE DEF m
  <2>4. DOMAIN heard[k] = 1 .. Len(heard[k]) /\ Len(heard[k]) \in Nat
    BY <2>1
  <2>5. heard'[k] \in [1 .. Len(heard[k]) -> Answers]
    BY <2>1, <2>3, <2>4
  <2> QED
    BY <2>1, <2>4, <2>5
<1>4. RowsOK'
  <2>1. rows' \in [Keys -> Answers \cup {NoRow}]
    BY <1>1 DEF Inv, RowsOK, MigrateCircuit
  <2>2. heard' \in [Keys -> Seq(Answers)]
    BY <1>3 DEF MigrateCircuit
  <2> QED
    BY <2>1, <2>2 DEF Inv, RowsOK, MigrateCircuit
<1>5. RowsAreWinners'
  <2> SUFFICES ASSUME NEW k \in Keys PROVE HoldsWinner(rows'[k], heard'[k])
    BY DEF MigrateCircuit, RowsAreWinners, HoldsWinner
  <2>1. HoldsWinner(rows[k], heard[k])
    BY DEF Inv, RowsAreWinners, MigrateCircuit
  <2>2. CASE rows[k] = NoRow
    BY <2>1, <2>2, <1>2 DEF HoldsWinner, MigrateCircuit
  <2>3. CASE rows[k] # NoRow
    <3>1. PICK i \in DOMAIN heard[k] : Wins(heard[k], i) /\ rows[k] = heard[k][i]
      BY <2>1, <2>3 DEF HoldsWinner
    <3>2. rows'[k] = m(rows[k]) /\ rows[k] \in Answers /\ rows'[k] # NoRow
      BY <2>3, <1>1, NoRowAssumption DEF Inv, RowsOK, MigrateCircuit
    <3>3. rows'[k] = heard'[k][i]
      BY <3>1, <3>2, <1>2
    <3>4. \A j \in DOMAIN heard[k] : Strength(heard'[k][j]) = Strength(heard[k][j])
      <4>1. heard[k] \in Seq(Answers)
        BY <1>2
      <4>2. \A j \in DOMAIN heard[k] : heard[k][j] \in Answers
        BY <4>1
      <4> HIDE DEF m
      <4> QED
        BY <1>1, <1>2, <4>2
    <3>5. Wins(heard'[k], i)
      BY <3>1, <3>4, <1>3 DEF Wins
    <3> QED
      BY <3>1, <3>2, <3>3, <3>5, <1>3 DEF HoldsWinner
  <2> QED
    BY <2>2, <2>3
<1>6. RowsReserved'
  BY MovedProperties, NoRowAssumption DEF Inv, RowsOK, RowsReserved, MigrateCircuit
<1> QED
  BY <1>4, <1>5, <1>6 DEF Inv

\* Every step keeps the invariant.
LEMMA NextInv ==
  Inv /\ [Next]_vars => Inv'
<1> SUFFICES ASSUME Inv, [Next]_vars PROVE Inv'
  OBVIOUS
<1>1. CASE Load
  BY <1>1, LoadInv
<1>2. ASSUME NEW d \in DeviceIds, NEW e \in Evidence, NEW c \in CircuitIds,
             RecordAssignment(d, e, c)
      PROVE  Inv'
  BY <1>2, RecordInv
<1>3. ASSUME NEW d \in DeviceIds, ForgetAssignment(d) PROVE Inv'
  BY <1>3, ForgetInv
<1>4. ASSUME NEW old \in DeviceIds, NEW new \in DeviceIds, MigrateDevice(old, new)
      PROVE  Inv'
  BY <1>4, MigrateDeviceInv
<1>5. ASSUME NEW old \in CircuitIds, NEW new \in CircuitIds, MigrateCircuit(old, new)
      PROVE  Inv'
  BY <1>5, MigrateCircuitInv
<1>6. CASE UNCHANGED vars
  <2>1. UNCHANGED <<rows, loaded, live, heard>>
    BY <1>6 DEF vars
  <2> QED
    BY <2>1 DEF Inv, RowsOK, RowsAreWinners, HoldsWinner, RowsReserved
<1> QED
  BY <1>1, <1>2, <1>3, <1>4, <1>5, <1>6 DEF Next

\* The inductive invariant holds.
LEMMA Invariant ==
  Spec => []Inv
BY InitInv, NextInv, PTL DEF Spec

-----------------------------------------------------------------------------
(* Whatever order the evidence arrives in (store.py:274-336), the row is   *)
(* the newest of the strongest answers heard.                              *)
THEOREM RowIsLatestOfTheStrongest ==
  Spec => []LatestOfTheStrongest
<1>1. Inv => LatestOfTheStrongest
  BY DEF Inv, RowsAreWinners, HoldsWinner, LatestOfTheStrongest
<1> QED
  BY <1>1, Invariant, PTL

(* Once loaded, only a probe's answer is called measured (store.py:59-74). *)
THEOREM MeasuredIsAlwaysAProbe ==
  Spec => []MeasuredIsAProbe
<1>1. Inv => MeasuredIsAProbe
  BY ReserveProperties DEF Inv, RowsOK, RowsReserved, MeasuredIsAProbe
<1> QED
  BY <1>1, Invariant, PTL

(* Both: a row shows nothing that was not earned, in whatever order, from  *)
(* whatever file and with whatever restarts and renames its answers came.  *)
THEOREM RowsAreAlwaysEarned ==
  Spec => []RowsAreEarned
<1>1. LatestOfTheStrongest /\ MeasuredIsAProbe => RowsAreEarned
  BY DEF RowsAreEarned
<1> QED
  BY <1>1, RowIsLatestOfTheStrongest, MeasuredIsAlwaysAProbe, PTL

\* The migration does not change an answer's strength.
LEMMA ReserveStrength ==
  ASSUME NEW a \in Answers
  PROVE  Strength(Reserve(a)) = Strength(a)
BY DEF Strength, Reserve, Answers

\* A device's evidence is no weaker after the step, if it keeps its id.
NotWeaker(d) ==
  rows[d] # NoRow /\ rows'[d] # NoRow /\ d \in live /\ d \in live'
    => Strength(rows'[d]) >= Strength(rows[d])

(* No recording, load or rename leaves a device with weaker evidence than  *)
(* it had (store.py:296-336); only forgetting its row does.                *)
THEOREM EvidenceIsNeverWeakened ==
  Spec => EvidenceNeverWeakens
<1>1. Inv /\ [Next]_vars => [\A d \in DeviceIds : NotWeaker(d)]_vars
  <2> SUFFICES ASSUME Inv, Next, NEW d \in DeviceIds,
                      rows[d] # NoRow, rows'[d] # NoRow, d \in live, d \in live'
               PROVE  Strength(rows'[d]) >= Strength(rows[d])
    BY DEF NotWeaker
  <2>1. d \in Keys /\ rows[d] \in Answers /\ rows \in [Keys -> Answers \cup {NoRow}]
    BY DEF Keys, Inv, RowsOK
  <2>2. Strength(rows[d]) \in Int
    BY <2>1, StrengthType
  <2>3. CASE Load
    <3>1. rows'[d] = Reserve(rows[d])
      BY <2>1, <2>3 DEF Load
    <3> QED
      BY <3>1, <2>1, <2>2, ReserveStrength
  <2>4. ASSUME NEW e \in Evidence, NEW c \in CircuitIds, NEW f \in DeviceIds,
               RecordAssignment(f, e, c)
        PROVE  Strength(rows'[d]) >= Strength(rows[d])
    <3> DEFINE a == Reserve(Answer(e, c))
    <3>1. a \in Answers /\ Strength(a) \in Int
      BY AnswerType, ReserveProperties, StrengthType DEF OldEvidence
    <3>2. \/ rows' = rows
          \/ /\ rows' = [rows EXCEPT ![f] = a]
             /\ rows[f] = NoRow \/ ~(Strength(a) < Strength(rows[f]))
      BY <2>4 DEF RecordAssignment, NoteConflict, Replace
    <3> HIDE DEF a
    <3> QED
      BY <3>1, <3>2, <2>1, <2>2
  <2>5. ASSUME NEW f \in DeviceIds, ForgetAssignment(f)
        PROVE  Strength(rows'[d]) >= Strength(rows[d])
    BY <2>1, <2>2, <2>5 DEF ForgetAssignment
  <2>6. ASSUME NEW old \in DeviceIds, NEW new \in DeviceIds, MigrateDevice(old, new)
        PROVE  Strength(rows'[d]) >= Strength(rows[d])
    <3>1. d # old /\ d # new
      BY <2>6 DEF MigrateDevice
    <3>2. rows'[d] = rows[d]
      BY <2>1, <2>6, <3>1 DEF MigrateDevice
    <3> QED
      BY <3>2, <2>2
  <2>7. ASSUME NEW old \in CircuitIds, NEW new \in CircuitIds, MigrateCircuit(old, new)
        PROVE  Strength(rows'[d]) >= Strength(rows[d])
    <3>1. rows'[d] = Moved(rows[d], old, new)
      BY <2>1, <2>7 DEF MigrateCircuit
    <3> QED
      BY <3>1, <2>1, <2>2, MovedProperties
  <2> QED
    BY <2>3, <2>4, <2>5, <2>6, <2>7 DEF Next
<1>2. EvidenceNeverWeakens <=> [][\A d \in DeviceIds : NotWeaker(d)]_vars
  BY DEF EvidenceNeverWeakens, NotWeaker
<1>3. Spec => [][\A d \in DeviceIds : NotWeaker(d)]_vars
  BY <1>1, Invariant, PTL DEF Spec
<1> QED
  BY <1>2, <1>3

-----------------------------------------------------------------------------
(* Rows, as a reader sees them, implement Placement.                       *)

Place(a) == IF a = NoRow THEN NoRow
            ELSE [circuit |-> a.circuit, strength |-> Strength(a)]

Placed == [d \in DeviceIds |-> PlaceOf(d)]

\* The place of a row, before and after a step.
LEMMA PlacedIs ==
  /\ Placed = [d \in DeviceIds |-> Place(rows[d])]
  /\ Placed' = [d \in DeviceIds |-> Place(rows'[d])]
BY DEF Placed, PlaceOf, Place

\* A place has its type.
LEMMA PlaceType ==
  ASSUME NEW a \in Answers
  PROVE  Place(a) \in P!Place
<1>1. a # NoRow
  BY NoRowAssumption
<1>2. Strength(a) \in 0 .. 4
  BY DEF Strength, Answers
<1> QED
  BY <1>1, <1>2 DEF Place, P!Place, Answers

\* A migrated row has the same place.
LEMMA PlaceOfReserved ==
  ASSUME NEW a \in Answers
  PROVE  Place(Reserve(a)) = Place(a)
<1>1. a # NoRow /\ Reserve(a) # NoRow
  BY ReserveProperties, NoRowAssumption
<1>2. Strength(Reserve(a)) = Strength(a) /\ Reserve(a).circuit = a.circuit
  BY DEF Strength, Reserve, Answers
<1> QED
  BY <1>1, <1>2 DEF Place

\* Each action on the rows is an action on the places, or none.
LEMMA StepImplementsPlacement ==
  ASSUME Inv, Next
  PROVE  P!Next \/ Placed' = Placed
<1>1. /\ rows \in [Keys -> Answers \cup {NoRow}]
      /\ DeviceIds \subseteq Keys /\ DeviceIds \cap OwnSensors = {}
      /\ \A k \in DeviceIds : rows[k] \in Answers \/ rows[k] = NoRow
  BY AssignmentsAssumption DEF Inv, RowsOK, Keys
<1>2. NoRow \notin Answers
  BY NoRowAssumption
<1>3. P!Next <=>
        \/ \E d \in DeviceIds :
             \/ Placed' = [Placed EXCEPT ![d] = NoRow]
             \/ \E place \in P!Place :
                  /\ Placed[d] # NoRow => place.strength >= Placed[d].strength
                  /\ Placed' = [Placed EXCEPT ![d] = place]
        \/ \E old, new \in DeviceIds :
             Placed' = [Placed EXCEPT ![new] = Placed[old], ![old] = NoRow]
        \/ \E old, new \in CircuitIds :
             Placed' = [d \in DeviceIds |->
                          IF Placed[d] # NoRow /\ Placed[d].circuit = old
                          THEN [Placed[d] EXCEPT !.circuit = new] ELSE Placed[d]]
  BY Zenon DEF P!Next, P!Forget, P!Learn, P!RenameDevice, P!RenameCircuit, Placed
<1>4. CASE Load
  <2>1. \A d \in DeviceIds : Place(rows'[d]) = Place(rows[d])
    BY <1>1, <1>4, PlaceOfReserved DEF Load
  <2> QED
    BY <2>1, PlacedIs
<1>5. ASSUME NEW e \in Evidence, NEW c \in CircuitIds, NEW f \in DeviceIds,
             RecordAssignment(f, e, c)
      PROVE  P!Next \/ Placed' = Placed
  <2> DEFINE a == Reserve(Answer(e, c))
  <2>1. a \in Answers /\ Strength(a) \in Int
    BY AnswerType, ReserveProperties, StrengthType DEF OldEvidence
  <2>2. \/ rows' = rows
        \/ /\ rows' = [rows EXCEPT ![f] = a]
           /\ rows[f] = NoRow \/ ~(Strength(a) < Strength(rows[f]))
    BY <1>5 DEF RecordAssignment, NoteConflict, Replace
  <2> HIDE DEF a
  <2>3. CASE rows' = rows
    BY <2>3, PlacedIs
  <2>4. CASE /\ rows' = [rows EXCEPT ![f] = a]
             /\ rows[f] = NoRow \/ ~(Strength(a) < Strength(rows[f]))
    <3>1. Placed' = [Placed EXCEPT ![f] = Place(a)]
      <4>1. \A d \in DeviceIds : rows'[d] = IF d = f THEN a ELSE rows[d]
        BY <1>1, <2>4
      <4> QED
        BY <4>1, PlacedIs
    <3>2. Place(a) \in P!Place /\ Place(a).strength = Strength(a)
      BY <2>1, <1>2, PlaceType DEF Place
    <3>3. Placed[f] # NoRow => Place(a).strength >= Placed[f].strength
      <4>1. Placed[f] = Place(rows[f])
        BY PlacedIs
      <4>2. CASE rows[f] = NoRow
        BY <4>1, <4>2 DEF Place
      <4>3. CASE rows[f] # NoRow
        <5>1. Strength(rows[f]) \in Int
          BY <1>1, <4>3, StrengthType
        <5>2. Placed[f].strength = Strength(rows[f])
          BY <4>1, <4>3 DEF Place
        <5> QED
          BY <5>1, <5>2, <2>1, <2>4, <3>2, <4>3
      <4> QED
        BY <4>2, <4>3
    <3> QED
      BY <1>3, <3>1, <3>2, <3>3
  <2> QED
    BY <2>2, <2>3, <2>4
<1>6. ASSUME NEW f \in DeviceIds, ForgetAssignment(f)
      PROVE  P!Next
  <2>1. \A d \in DeviceIds : rows'[d] = IF d = f THEN NoRow ELSE rows[d]
    BY <1>1, <1>6 DEF ForgetAssignment
  <2>2. Placed' = [Placed EXCEPT ![f] = NoRow]
    BY <2>1, PlacedIs DEF Place
  <2> QED
    BY <2>2, <1>3
<1>7. ASSUME NEW old \in DeviceIds, NEW new \in DeviceIds, MigrateDevice(old, new)
      PROVE  P!Next \/ Placed' = Placed
  <2>1. old # new
    BY <1>7 DEF MigrateDevice
  <2>2. CASE rows[old] = NoRow
    <3>1. rows' = rows
      BY <1>7, <2>2 DEF MigrateDevice
    <3> QED
      BY <3>1, PlacedIs
  <2>3. CASE rows[old] # NoRow
    <3>1. rows' = [rows EXCEPT ![new] = rows[old], ![old] = NoRow]
      BY <1>7, <2>3 DEF MigrateDevice
    <3>2. \A d \in DeviceIds : rows'[d] = IF d = old THEN NoRow
                                          ELSE IF d = new THEN rows[old] ELSE rows[d]
      BY <1>1, <3>1
    <3>3. Placed' = [Placed EXCEPT ![new] = Placed[old], ![old] = NoRow]
      BY <3>2, <2>1, PlacedIs DEF Place
    <3> QED
      BY <3>3, <1>3
  <2> QED
    BY <2>2, <2>3
<1>8. ASSUME NEW old \in CircuitIds, NEW new \in CircuitIds, MigrateCircuit(old, new)
      PROVE  P!Next
  <2>1. \A d \in DeviceIds : rows'[d] = IF rows[d] = NoRow THEN NoRow
                                        ELSE Moved(rows[d], old, new)
    BY <1>1, <1>8 DEF MigrateCircuit
  <2>2. ASSUME NEW d \in DeviceIds
        PROVE  Placed'[d] = IF Placed[d] # NoRow /\ Placed[d].circuit = old
                            THEN [Placed[d] EXCEPT !.circuit = new] ELSE Placed[d]
    <3>1. Placed'[d] = Place(rows'[d]) /\ Placed[d] = Place(rows[d])
      BY PlacedIs
    <3>2. CASE rows[d] = NoRow
      BY <2>1, <3>1, <3>2 DEF Place
    <3>3. CASE rows[d] # NoRow
      <4>1. rows[d] \in Answers
        BY <1>1, <3>3
      <4>2. /\ rows'[d] = Moved(rows[d], old, new)
            /\ Moved(rows[d], old, new) \in Answers
            /\ Strength(Moved(rows[d], old, new)) = Strength(rows[d])
        BY <4>1, <2>1, <3>3, MovedProperties
      <4>3. rows'[d] # NoRow
        BY <4>2, <1>2
      <4>4. /\ Placed'[d] = [circuit |-> rows'[d].circuit, strength |-> Strength(rows[d])]
            /\ Placed[d] = [circuit |-> rows[d].circuit, strength |-> Strength(rows[d])]
        BY <3>1, <3>3, <4>2, <4>3 DEF Place
      <4>5. rows'[d].circuit = IF rows[d].circuit = old THEN new ELSE rows[d].circuit
        BY <4>1, <4>2 DEF Moved, Answers
      <4>6. Placed[d] # NoRow
        <5>1. Placed[d] \in P!Place
          BY <3>1, <4>1, PlaceType
        <5> QED
          BY <5>1, NoPlaceAssumption DEF P!Place
      <4> QED
        BY <4>4, <4>5, <4>6
    <3> QED
      BY <3>2, <3>3
  <2>3. Placed' = [d \in DeviceIds |->
                     IF Placed[d] # NoRow /\ Placed[d].circuit = old
                     THEN [Placed[d] EXCEPT !.circuit = new] ELSE Placed[d]]
    BY <2>2, PlacedIs
  <2> QED
    BY <2>3, <1>3
<1> QED
  BY <1>4, <1>5, <1>6, <1>7, <1>8 DEF Next

(* Placement's rule, that only an answer at least as strong moves a        *)
(* device, is what the store does (store.py:274-336, 411-442), over any    *)
(* history of answers, restarts and renames.                               *)
THEOREM PlacementIsImplemented == Spec => ImplementsPlacement
<1>1. Init => P!Init
  <2> SUFFICES ASSUME Init PROVE P!Init
    OBVIOUS
  <2>1. Inv
    BY InitInv
  <2>2. \A d \in DeviceIds : rows[d] \in Answers \/ rows[d] = NoRow
    BY <2>1 DEF Inv, RowsOK, Keys
  <2>3. \A d \in DeviceIds : Place(rows[d]) \in P!Place \cup {NoRow}
    BY <2>2, PlaceType DEF Place
  <2>4. Placed \in [DeviceIds -> P!Place \cup {NoRow}]
    BY <2>3, PlacedIs
  <2> QED
    BY <2>4 DEF P!Init, Placed
<1>2. Inv /\ [Next]_vars => [P!Next]_([d \in DeviceIds |-> PlaceOf(d)])
  <2>1. CASE vars' = vars
    <3>1. rows' = rows
      BY <2>1 DEF vars
    <3>2. Placed' = Placed
      BY <3>1, PlacedIs
    <3> QED
      BY <3>2 DEF Placed
  <2>2. ASSUME Inv, Next
        PROVE  [P!Next]_([d \in DeviceIds |-> PlaceOf(d)])
    BY <2>2, StepImplementsPlacement DEF Placed
  <2> QED
    BY <2>1, <2>2
<1> QED
  BY <1>1, <1>2, Invariant, PTL DEF Spec, ImplementsPlacement, P!Spec

-----------------------------------------------------------------------------
(* Lists of disagreements.                                                 *)

Distinct(cs) == \A i, j \in DOMAIN cs : cs[i] = cs[j] => i = j

\* What the recursive function of Kept has at n.
ListAt(f, cs, circuit, n) ==
  IF n = 0 THEN <<>>
  ELSE IF cs[n].circuit = circuit \/ cs[n] \in ToSet(f[n - 1]) THEN f[n - 1]
  ELSE Append(f[n - 1], cs[n])

IsKeptList(f, cs, circuit, n) == f = [k \in 0 .. n |-> ListAt(f, cs, circuit, k)]

\* It exists.
LEMMA KeptListExists ==
  ASSUME NEW cs, NEW circuit, NEW n \in Nat
  PROVE  \E f : IsKeptList(f, cs, circuit, n)
<1> USE DEF IsKeptList
<1> DEFINE Exists(m) == \E f : IsKeptList(f, cs, circuit, m)
           T == {m \in Nat : ~Exists(m)}
<1> SUFFICES ASSUME T # {} PROVE FALSE
  BY DEF Exists
<1> HIDE DEF Exists
<1>1. T \subseteq Nat
  OBVIOUS
<1>2. PICK m \in T : \A k \in T : m <= k
  BY <1>1, LeastNumber
<1>3. m \in Nat /\ ~Exists(m)
  OBVIOUS
<1>4. CASE m = 0
  <2> DEFINE f == [k \in 0 .. 0 |-> <<>>]
  <2>1. \A k \in 0 .. 0 : ListAt(f, cs, circuit, k) = <<>>
    BY DEF ListAt
  <2>2. f = [k \in 0 .. 0 |-> ListAt(f, cs, circuit, k)]
    BY <2>1
  <2> HIDE DEF f
  <2> QED
    BY <1>3, <1>4, <2>2 DEF Exists
<1>5. CASE m # 0
  <2>1. m - 1 \in Nat /\ ~(m <= m - 1)
    BY <1>3, <1>5
  <2>2. Exists(m - 1)
    BY <1>2, <2>1
  <2>3. PICK f : f = [k \in 0 .. m - 1 |-> ListAt(f, cs, circuit, k)]
    BY <2>2 DEF Exists
  <2> DEFINE g == [k \in 0 .. m |-> IF k = m THEN ListAt(f, cs, circuit, m) ELSE f[k]]
  <2>4. \A k \in 0 .. m - 1 : g[k] = f[k]
    BY <1>3
  <2>5. g[m] = ListAt(f, cs, circuit, m)
    BY <1>3
  <2>6. g = [k \in 0 .. m |-> g[k]]
    OBVIOUS
  <2> HIDE DEF g
  <2>7. ASSUME NEW k \in 0 .. m PROVE g[k] = ListAt(g, cs, circuit, k)
    <3>1. CASE k = 0
      <4>1. 0 \in 0 .. m - 1
        BY <1>3, <1>5
      <4>2. g[0] = ListAt(f, cs, circuit, 0)
        BY <2>3, <2>4, <4>1
      <4> QED
        BY <3>1, <4>2 DEF ListAt
    <3>2. CASE k # 0
      <4>1. k - 1 \in 0 .. m - 1
        BY <1>3, <3>2
      <4>2. g[k - 1] = f[k - 1]
        BY <2>4, <4>1
      <4>3. ListAt(g, cs, circuit, k) = ListAt(f, cs, circuit, k)
        BY <4>2 DEF ListAt
      <4>4. k = m \/ k \in 0 .. m - 1
        BY <1>3
      <4>5. k \in 0 .. m - 1 => f[k] = ListAt(f, cs, circuit, k)
        BY <2>3
      <4> QED
        BY <2>4, <2>5, <4>3, <4>4, <4>5
    <3> QED
      BY <3>1, <3>2
  <2>8. g = [k \in 0 .. m |-> ListAt(g, cs, circuit, k)]
    BY <2>6, <2>7
  <2> QED
    BY <1>3, <2>8 DEF Exists
<1> QED
  BY <1>4, <1>5

\* The first n disagreements of cs, each once, but those naming the circuit.
PickedTo(u, cs, circuit, n) ==
  /\ u \in Seq(Conflicts)
  /\ Distinct(u)
  /\ \A j \in DOMAIN u : u[j].circuit # circuit
  /\ \A i \in 1 .. n : cs[i].circuit # circuit => \E j \in DOMAIN u : u[j] = cs[i]

\* A disagreement that is not on the list is added.
LEMMA AppendDistinct ==
  ASSUME NEW u \in Seq(Conflicts), Distinct(u), NEW c \in Conflicts, c \notin ToSet(u)
  PROVE  /\ Append(u, c) \in Seq(Conflicts)
         /\ Distinct(Append(u, c))
         /\ Len(Append(u, c)) = Len(u) + 1
         /\ \A j \in DOMAIN u : j \in DOMAIN Append(u, c) /\ Append(u, c)[j] = u[j]
         /\ Len(u) + 1 \in DOMAIN Append(u, c) /\ Append(u, c)[Len(u) + 1] = c
         /\ \A j \in DOMAIN Append(u, c) : j \in DOMAIN u \/ j = Len(u) + 1
<1> DEFINE w == Append(u, c)
<1>1. /\ w \in Seq(Conflicts) /\ Len(w) = Len(u) + 1 /\ DOMAIN w = 1 .. Len(u) + 1
      /\ Len(u) \in Nat /\ DOMAIN u = 1 .. Len(u)
      /\ w[Len(u) + 1] = c /\ \A j \in 1 .. Len(u) : w[j] = u[j]
  OBVIOUS
<1> HIDE DEF w
<1>2. \A j \in DOMAIN u : j \in DOMAIN w /\ w[j] = u[j] /\ u[j] # c
  BY <1>1 DEF ToSet
<1>3. /\ Len(u) + 1 \in DOMAIN w
      /\ \A j \in DOMAIN w : j \in DOMAIN u \/ j = Len(u) + 1
  BY <1>1
<1>4. Distinct(w)
  BY <1>1, <1>2, <1>3 DEF Distinct
<1> QED
  BY <1>1, <1>2, <1>3, <1>4 DEF w

\* One more is looked at.
LEMMA PickedGrows ==
  ASSUME NEW cs \in Seq(Conflicts), NEW circuit, NEW n \in DOMAIN cs,
         NEW u, PickedTo(u, cs, circuit, n - 1)
  PROVE  PickedTo(IF cs[n].circuit = circuit \/ cs[n] \in ToSet(u) THEN u
                   ELSE Append(u, cs[n]), cs, circuit, n)
<1>1. n \in Nat /\ cs[n] \in Conflicts
  OBVIOUS
<1>2. \A i \in 1 .. n : i = n \/ i \in 1 .. n - 1
  BY <1>1
<1>3. CASE cs[n].circuit = circuit \/ cs[n] \in ToSet(u)
  <2>1. cs[n].circuit # circuit => \E j \in DOMAIN u : u[j] = cs[n]
    BY <1>3 DEF ToSet
  <2>2. PickedTo(u, cs, circuit, n)
    BY <1>2, <2>1 DEF PickedTo
  <2> QED
    BY <1>3, <2>2
<1>4. CASE ~(cs[n].circuit = circuit \/ cs[n] \in ToSet(u))
  <2>1. u \in Seq(Conflicts) /\ Distinct(u) /\ cs[n] \notin ToSet(u)
    BY <1>4 DEF PickedTo
  <2> DEFINE w == Append(u, cs[n])
  <2>2. /\ w \in Seq(Conflicts) /\ Distinct(w)
        /\ \A j \in DOMAIN u : j \in DOMAIN w /\ w[j] = u[j]
        /\ \E j \in DOMAIN w : w[j] = cs[n]
        /\ \A j \in DOMAIN w : w[j] = cs[n] \/ (j \in DOMAIN u /\ w[j] = u[j])
    BY <1>1, <2>1, AppendDistinct
  <2> HIDE DEF w
  <2>3. PickedTo(w, cs, circuit, n)
    <3>1. \A j \in DOMAIN w : w[j].circuit # circuit
      BY <1>4, <2>2 DEF PickedTo
    <3>2. \A i \in 1 .. n : cs[i].circuit # circuit => \E j \in DOMAIN w : w[j] = cs[i]
      BY <1>2, <2>2 DEF PickedTo
    <3> QED
      BY <2>2, <3>1, <3>2 DEF PickedTo
  <2> QED
    BY <1>4, <2>3 DEF w
<1> QED
  BY <1>3, <1>4

\* Kept keeps exactly those that name another circuit, each once.
LEMMA KeptSelects ==
  ASSUME NEW cs \in Seq(Conflicts), NEW circuit
  PROVE  PickedTo(Kept(cs, circuit), cs, circuit, Len(cs))
<1> DEFINE n == Len(cs)
           g == CHOOSE f : IsKeptList(f, cs, circuit, n)
<1>1. n \in Nat /\ DOMAIN cs = 1 .. n
  OBVIOUS
<1>2. g = [k \in 0 .. n |-> ListAt(g, cs, circuit, k)]
  <2>1. \E f : IsKeptList(f, cs, circuit, n)
    BY <1>1, KeptListExists
  <2>2. IsKeptList(g, cs, circuit, n)
    BY <2>1, Zenon
  <2> QED
    BY <2>2, Zenon DEF IsKeptList
<1>3. Kept(cs, circuit) = g[n]
  BY Zenon DEF Kept, IsKeptList, ListAt
<1> HIDE DEF n, g
<1> DEFINE T == {k \in 0 .. n : ~PickedTo(g[k], cs, circuit, k)}
<1>4. T = {}
  <2> SUFFICES ASSUME T # {} PROVE FALSE
    OBVIOUS
  <2>1. T \subseteq Nat
    BY <1>1
  <2>2. PICK m \in T : \A k \in T : m <= k
    BY <2>1, LeastNumber
  <2>3. m \in 0 .. n /\ ~PickedTo(g[m], cs, circuit, m) /\ g[m] = ListAt(g, cs, circuit, m)
    BY <1>2
  <2>4. CASE m = 0
    <3>1. g[m] = <<>>
      BY <2>3, <2>4 DEF ListAt
    <3>2. PickedTo(<<>>, cs, circuit, 0)
      BY DEF PickedTo, Distinct
    <3> QED
      BY <2>3, <2>4, <3>1, <3>2
  <2>5. CASE m # 0
    <3>1. m - 1 \in 0 .. n /\ ~(m <= m - 1) /\ m \in DOMAIN cs
      BY <1>1, <2>3, <2>5
    <3>2. PickedTo(g[m - 1], cs, circuit, m - 1)
      BY <2>2, <3>1
    <3>3. g[m] = IF cs[m].circuit = circuit \/ cs[m] \in ToSet(g[m - 1]) THEN g[m - 1]
                 ELSE Append(g[m - 1], cs[m])
      BY <2>3, <2>5 DEF ListAt
    <3> DEFINE u == g[m - 1]
    <3> HIDE DEF u
    <3>4. PickedTo(u, cs, circuit, m - 1)
      BY <3>2 DEF u
    <3>5. PickedTo(IF cs[m].circuit = circuit \/ cs[m] \in ToSet(u) THEN u
                    ELSE Append(u, cs[m]), cs, circuit, m)
      BY <3>1, <3>4, PickedGrows
    <3>6. g[m] = IF cs[m].circuit = circuit \/ cs[m] \in ToSet(u) THEN u
                 ELSE Append(u, cs[m])
      BY <3>3 DEF u
    <3> QED
      BY <2>3, <3>5, <3>6
  <2> QED
    BY <2>4, <2>5
<1>5. n \in 0 .. n /\ n \notin T
  BY <1>1, <1>4
<1>6. PickedTo(g[n], cs, circuit, n)
  BY <1>5
<1> QED
  BY <1>3, <1>6 DEF n

\* The newest of a list are some of it, or all if they fit.
LEMMA NewestOfAList ==
  ASSUME NEW cs \in Seq(Conflicts), Distinct(cs)
  PROVE  /\ Newest(cs) \in Seq(Conflicts) /\ Len(Newest(cs)) <= MAX_CONFLICTS
         /\ Distinct(Newest(cs))
         /\ \A i \in DOMAIN Newest(cs) : \E j \in DOMAIN cs : Newest(cs)[i] = cs[j]
         /\ Len(cs) <= MAX_CONFLICTS => Newest(cs) = cs
<1> DEFINE n == Len(cs)
           first == IF n > MAX_CONFLICTS THEN n - MAX_CONFLICTS + 1 ELSE 1
           u == SubSeq(cs, first, n)
<1>1. n \in Nat /\ DOMAIN cs = 1 .. n /\ MAX_CONFLICTS \in Nat \ {0}
  BY AssignmentsAssumption
<1>2. first \in 1 .. n + 1 /\ n - first + 1 <= MAX_CONFLICTS
  <2>1. CASE n > MAX_CONFLICTS
    <3>1. first = n - MAX_CONFLICTS + 1
      BY <2>1
    <3> QED
      BY <1>1, <2>1, <3>1
  <2>2. CASE ~(n > MAX_CONFLICTS)
    <3>1. first = 1
      BY <2>2
    <3> QED
      BY <1>1, <2>2, <3>1
  <2> QED
    BY <2>1, <2>2
<1>3. Newest(cs) = u
  BY DEF Newest
<1>4. n <= MAX_CONFLICTS => first = 1
  BY <1>1
<1> HIDE DEF first
<1>5. /\ u \in Seq(Conflicts) /\ Len(u) = n - first + 1 /\ DOMAIN u = 1 .. n - first + 1
      /\ \A i \in 1 .. n - first + 1 : u[i] = cs[first + i - 1]
  BY <1>1, <1>2
<1> HIDE DEF u
<1>6. \A i \in 1 .. n - first + 1 : first + i - 1 \in DOMAIN cs
  BY <1>1, <1>2
<1>7. Distinct(u)
  <2> SUFFICES ASSUME NEW i \in DOMAIN u, NEW j \in DOMAIN u, u[i] = u[j] PROVE i = j
    BY DEF Distinct
  <2>1. first + i - 1 = first + j - 1
    BY <1>5, <1>6 DEF Distinct
  <2> QED
    BY <1>1, <1>2, <1>5, <2>1
<1>8. n <= MAX_CONFLICTS => u = cs
  <2> SUFFICES ASSUME n <= MAX_CONFLICTS PROVE u = cs
    OBVIOUS
  <2>1. first = 1 /\ Len(u) = n /\ \A i \in 1 .. n : u[i] = cs[i]
    BY <1>1, <1>4, <1>5
  <2> QED
    BY <1>5, <2>1
<1> QED
  BY <1>2, <1>3, <1>5, <1>6, <1>7, <1>8

-----------------------------------------------------------------------------
(* The disagreements on a row.                                             *)

\* They name other circuits, and with the row's name all that were heard.
Complete(row, cs, hs, over) ==
  /\ \A i \in DOMAIN cs : cs[i].circuit # row.circuit
  /\ ~over => \A i \in DOMAIN hs :
       hs[i].circuit = row.circuit \/ \E j \in DOMAIN cs : cs[j].circuit = hs[i].circuit

ListsOK ==
  /\ conflicts \in [Keys -> Seq(Conflicts)]
  /\ overflowed \in [Keys -> BOOLEAN]
  /\ renames \in 0 .. MaxRenames
  /\ \A k \in Keys : Len(conflicts[k]) <= MAX_CONFLICTS /\ Distinct(conflicts[k])

ListsComplete ==
  renames = 0 => \A k \in Keys :
    rows[k] # NoRow => Complete(rows[k], conflicts[k], heard[k], overflowed[k])

ListInv == ListsOK /\ ListsComplete

\* The empty list is one.
LEMMA EmptyList ==
  <<>> \in Seq(Conflicts) /\ Len(<<>>) <= MAX_CONFLICTS /\ Distinct(<<>>)
BY AssignmentsAssumption DEF Distinct

LEMMA DisagreementType ==
  ASSUME NEW a \in Answers
  PROVE  Disagreement(a) \in Conflicts /\ Disagreement(a).circuit = a.circuit
BY DEF Disagreement, Answers, Conflicts

LEMMA InitLists ==
  Init => ListInv
<1> SUFFICES ASSUME Init PROVE ListInv
  OBVIOUS
<1>1. ListsOK
  BY EmptyList, AssignmentsAssumption DEF Init, ListsOK
<1>2. ASSUME NEW k \in Keys, rows[k] # NoRow
      PROVE  Complete(rows[k], conflicts[k], heard[k], overflowed[k])
  <2>1. Inv
    BY InitInv
  <2>2. rows[k] \in Answers /\ conflicts[k] = <<>> /\ heard[k] = <<Reserve(rows[k])>>
    BY <1>2, <2>1 DEF Init, Inv, RowsOK
  <2>3. Reserve(rows[k]).circuit = rows[k].circuit
    BY <2>2 DEF Reserve, Answers
  <2> QED
    BY <2>2, <2>3 DEF Complete
<1> QED
  BY <1>1, <1>2 DEF ListInv, ListsComplete

\* A disagreement is noted, or the answer replaced becomes one.
LEMMA RecordLists ==
  ASSUME Inv, ListInv, NEW d \in DeviceIds, NEW e \in Evidence, NEW c \in CircuitIds,
         RecordAssignment(d, e, c)
  PROVE  ListInv'
<1> DEFINE a == Reserve(Answer(e, c))
<1>1. a \in Answers /\ d \in Keys /\ renames' = renames /\ loaded
  BY AnswerType, ReserveProperties DEF OldEvidence, Keys, RecordAssignment
<1>2. heard' = [heard EXCEPT ![d] = Append(heard[d], a)]
  BY DEF RecordAssignment
<1>3. /\ rows \in [Keys -> Answers \cup {NoRow}] /\ heard \in [Keys -> Seq(Answers)]
      /\ conflicts \in [Keys -> Seq(Conflicts)] /\ overflowed \in [Keys -> BOOLEAN]
      /\ renames \in 0 .. MaxRenames
      /\ \A k \in Keys : Len(conflicts[k]) <= MAX_CONFLICTS /\ Distinct(conflicts[k])
  BY DEF Inv, RowsOK, ListInv, ListsOK
<1>4. \A i \in DOMAIN heard'[d] :
        heard'[d][i] = a \/ (i \in DOMAIN heard[d] /\ heard'[d][i] = heard[d][i])
  BY <1>1, <1>2, <1>3
<1> HIDE DEF a
<1>5. ASSUME NEW row \in Answers, NEW all \in Seq(Conflicts), Distinct(all),
             rows' = [rows EXCEPT ![d] = row],
             conflicts' = [conflicts EXCEPT ![d] = Newest(all)],
             overflowed' = [overflowed EXCEPT ![d] = overflowed[d] \/ Len(all) > MAX_CONFLICTS],
             renames = 0 => Complete(row, all, heard'[d], overflowed[d])
      PROVE  ListInv'
  <2>1. /\ Newest(all) \in Seq(Conflicts) /\ Len(Newest(all)) <= MAX_CONFLICTS
        /\ Distinct(Newest(all))
        /\ \A i \in DOMAIN Newest(all) : \E j \in DOMAIN all : Newest(all)[i] = all[j]
        /\ Len(all) <= MAX_CONFLICTS => Newest(all) = all
    BY <1>5, NewestOfAList
  <2>2. /\ conflicts' \in [Keys -> Seq(Conflicts)] /\ conflicts'[d] = Newest(all)
        /\ overflowed' \in [Keys -> BOOLEAN]
        /\ overflowed'[d] = (overflowed[d] \/ Len(all) > MAX_CONFLICTS)
        /\ rows'[d] = row
        /\ \A k \in Keys : k # d => /\ conflicts'[k] = conflicts[k] /\ rows'[k] = rows[k]
                                    /\ heard'[k] = heard[k] /\ overflowed'[k] = overflowed[k]
    BY <1>1, <1>2, <1>3, <1>5, <2>1
  <2>3. ListsOK'
    BY <1>1, <1>3, <2>1, <2>2 DEF ListsOK
  <2>4. ASSUME renames = 0
        PROVE  Complete(row, Newest(all), heard'[d], overflowed'[d])
    <3>1. \A i \in DOMAIN Newest(all) : Newest(all)[i].circuit # row.circuit
      BY <1>5, <2>1, <2>4 DEF Complete
    <3>2. ~overflowed'[d] => ~overflowed[d] /\ Newest(all) = all
      <4>1. Len(all) > MAX_CONFLICTS \/ Len(all) <= MAX_CONFLICTS
        BY AssignmentsAssumption
      <4>2. overflowed'[d] <=> overflowed[d] \/ Len(all) > MAX_CONFLICTS
        BY <2>2, Zenon
      <4> QED
        BY <2>1, <4>1, <4>2
    <3> QED
      BY <1>5, <2>4, <3>1, <3>2 DEF Complete
  <2>5. ListsComplete'
    BY <1>1, <2>2, <2>4 DEF ListInv, ListsComplete
  <2> QED
    BY <2>3, <2>5 DEF ListInv
<1>6. CASE rows[d] # NoRow /\ Strength(a) < Strength(rows[d])
  <2> DEFINE old == conflicts[d]
             all == Noted(d, a)
  <2>1. rows[d] \in Answers /\ old \in Seq(Conflicts) /\ Distinct(old)
    BY <1>1, <1>3, <1>6
  <2>2. renames = 0 => Complete(rows[d], old, heard[d], overflowed[d])
    BY <1>1, <1>6 DEF ListInv, ListsComplete
  <2>3. /\ rows' = [rows EXCEPT ![d] = rows[d]]
        /\ conflicts' = [conflicts EXCEPT ![d] = Newest(all)]
        /\ overflowed' = [overflowed EXCEPT ![d] = overflowed[d] \/ Len(all) > MAX_CONFLICTS]
    BY <1>3, <1>6 DEF RecordAssignment, NoteConflict, a
  <2>4. /\ all \in Seq(Conflicts) /\ Distinct(all)
        /\ renames = 0 => Complete(rows[d], all, heard'[d], overflowed[d])
    <3>1. CASE a.circuit = rows[d].circuit \/ Disagreement(a) \in ToSet(old)
      <4>1. all = old
        BY <3>1 DEF Noted
      <4>2. a.circuit = rows[d].circuit \/ \E j \in DOMAIN old : old[j].circuit = a.circuit
        BY <1>1, <3>1, DisagreementType DEF ToSet
      <4> HIDE DEF old, all
      <4> QED
        BY <1>4, <2>1, <2>2, <4>1, <4>2 DEF Complete
    <3>2. CASE ~(a.circuit = rows[d].circuit \/ Disagreement(a) \in ToSet(old))
      <4>1. all = Append(old, Disagreement(a))
        BY <3>2 DEF Noted
      <4>2. /\ all \in Seq(Conflicts) /\ Distinct(all)
            /\ \A j \in DOMAIN old : j \in DOMAIN all /\ all[j] = old[j]
            /\ \E j \in DOMAIN all : all[j] = Disagreement(a)
            /\ \A j \in DOMAIN all :
                 all[j] = Disagreement(a) \/ (j \in DOMAIN old /\ all[j] = old[j])
        BY <1>1, <2>1, <3>2, <4>1, AppendDistinct, DisagreementType
      <4>3. Disagreement(a).circuit = a.circuit
        BY <1>1, DisagreementType
      <4> HIDE DEF old, all
      <4> QED
        BY <1>4, <2>2, <3>2, <4>2, <4>3 DEF Complete
    <3> QED
      BY <3>1, <3>2
  <2> HIDE DEF old, all
  <2> QED
    BY <1>5, <2>1, <2>3, <2>4
<1>7. CASE rows[d] = NoRow
  <2>1. heard[d] = <<>>
    BY <1>1, <1>7 DEF Inv, RowsAreWinners, HoldsWinner
  <2>2. /\ rows' = [rows EXCEPT ![d] = a]
        /\ conflicts' = [conflicts EXCEPT ![d] = Newest(<<>>)]
        /\ overflowed' = [overflowed EXCEPT ![d] = overflowed[d] \/ Len(<<>>) > MAX_CONFLICTS]
    BY <1>7 DEF RecordAssignment, Replace, a
  <2>3. Complete(a, <<>>, heard'[d], overflowed[d])
    BY <1>4, <2>1 DEF Complete
  <2> QED
    BY <1>1, <1>5, <2>2, <2>3, EmptyList
<1>8. CASE rows[d] # NoRow /\ ~(Strength(a) < Strength(rows[d]))
  <2> DEFINE old == conflicts[d]
             out == IF rows[d].circuit = a.circuit THEN old
                    ELSE Append(old, Disagreement(rows[d]))
             all == Kept(out, a.circuit)
  <2>1. rows[d] \in Answers /\ old \in Seq(Conflicts)
    BY <1>1, <1>3, <1>8
  <2>2. renames = 0 => Complete(rows[d], old, heard[d], overflowed[d])
    BY <1>1, <1>8 DEF ListInv, ListsComplete
  <2>3. /\ rows' = [rows EXCEPT ![d] = a]
        /\ conflicts' = [conflicts EXCEPT ![d] = Newest(all)]
        /\ overflowed' = [overflowed EXCEPT ![d] = overflowed[d] \/ Len(all) > MAX_CONFLICTS]
    BY <1>8 DEF RecordAssignment, Replace, Carried, a
  <2>4. Disagreement(rows[d]) \in Conflicts /\ Disagreement(rows[d]).circuit = rows[d].circuit
    BY <2>1, DisagreementType
  <2>5. /\ out \in Seq(Conflicts)
        /\ \A j \in DOMAIN old : j \in DOMAIN out /\ out[j] = old[j]
        /\ rows[d].circuit = a.circuit \/ \E j \in DOMAIN out : out[j].circuit = rows[d].circuit
    <3>1. CASE rows[d].circuit = a.circuit
      <4>1. out = old
        BY <3>1
      <4> QED
        BY <2>1, <3>1, <4>1
    <3>2. CASE rows[d].circuit # a.circuit
      <4>1. out = Append(old, Disagreement(rows[d]))
        BY <3>2
      <4>2. /\ out \in Seq(Conflicts) /\ DOMAIN out = 1 .. Len(old) + 1 /\ Len(old) \in Nat
            /\ \A j \in DOMAIN old : j \in DOMAIN out /\ out[j] = old[j]
            /\ out[Len(old) + 1] = Disagreement(rows[d])
        BY <2>1, <2>4, <4>1
      <4>3. Len(old) + 1 \in DOMAIN out
        BY <4>2
      <4> QED
        BY <2>4, <4>2, <4>3
    <3> QED
      BY <3>1, <3>2
  <2> HIDE DEF out
  <2>6. PickedTo(all, out, a.circuit, Len(out)) /\ DOMAIN out = 1 .. Len(out)
    BY <2>5, KeptSelects
  <2> HIDE DEF old, all
  <2>7. \A i \in DOMAIN out : out[i].circuit = a.circuit
                              \/ \E j \in DOMAIN all : all[j].circuit = out[i].circuit
    BY <2>6 DEF PickedTo
  <2>8. renames = 0 => Complete(a, all, heard'[d], overflowed[d])
    <3> SUFFICES ASSUME renames = 0, ~overflowed[d], NEW i \in DOMAIN heard'[d],
                        heard'[d][i] # a
                 PROVE  heard'[d][i].circuit = a.circuit
                        \/ \E j \in DOMAIN all : all[j].circuit = heard'[d][i].circuit
      BY <2>6 DEF Complete, PickedTo
    <3>1. heard'[d][i].circuit = rows[d].circuit
          \/ \E j \in DOMAIN old : old[j].circuit = heard'[d][i].circuit
      BY <1>4, <2>2 DEF Complete
    <3>2. heard'[d][i].circuit = a.circuit
          \/ \E j \in DOMAIN out : out[j].circuit = heard'[d][i].circuit
      BY <2>5, <3>1
    <3> QED
      BY <2>7, <3>2
  <2>9. all \in Seq(Conflicts) /\ Distinct(all)
    BY <2>6 DEF PickedTo
  <2> QED
    BY <1>1, <1>5, <2>3, <2>8, <2>9
<1> QED
  BY <1>6, <1>7, <1>8

\* Loading, forgetting and renaming a device take the list along or drop it.
LEMMA OtherLists ==
  ASSUME Inv, ListInv,
         \/ Load
         \/ \E d \in DeviceIds : ForgetAssignment(d)
         \/ \E old, new \in DeviceIds : MigrateDevice(old, new)
         \/ UNCHANGED vars
  PROVE  ListInv'
<1>1. /\ rows \in [Keys -> Answers \cup {NoRow}] /\ heard \in [Keys -> Seq(Answers)]
      /\ conflicts \in [Keys -> Seq(Conflicts)] /\ overflowed \in [Keys -> BOOLEAN]
      /\ renames \in 0 .. MaxRenames
      /\ \A k \in Keys : Len(conflicts[k]) <= MAX_CONFLICTS /\ Distinct(conflicts[k])
  BY DEF Inv, RowsOK, ListInv, ListsOK
<1>2. renames = 0 => \A k \in Keys :
        rows[k] # NoRow => Complete(rows[k], conflicts[k], heard[k], overflowed[k])
  BY DEF ListInv, ListsComplete
<1>3. CASE Load
  <2>1. \A k \in Keys : conflicts'[k] = IF k \in OwnSensors THEN <<>> ELSE conflicts[k]
    BY <1>3 DEF Load
  <2>2. conflicts' \in [Keys -> Seq(Conflicts)]
    BY <1>1, <1>3, EmptyList DEF Load
  <2>3. ListsOK'
    BY <1>1, <1>3, <2>1, <2>2, EmptyList DEF Load, ListsOK
  <2>4. ASSUME NEW k \in Keys, rows'[k] # NoRow
        PROVE  /\ rows[k] # NoRow /\ rows'[k].circuit = rows[k].circuit
               /\ conflicts'[k] = conflicts[k] /\ heard'[k] = heard[k]
               /\ overflowed'[k] = overflowed[k]
    <3>1. k \notin OwnSensors /\ rows[k] # NoRow /\ rows'[k] = Reserve(rows[k])
      BY <1>3, <2>4 DEF Load
    <3>2. Reserve(rows[k]).circuit = rows[k].circuit
      BY <1>1, <3>1 DEF Reserve, Answers
    <3> QED
      BY <1>3, <3>1, <3>2 DEF Load
  <2>5. ListsComplete'
    BY <1>2, <1>3, <2>4 DEF Load, ListsComplete, Complete
  <2> QED
    BY <2>3, <2>5 DEF ListInv
<1>4. ASSUME NEW d \in DeviceIds, ForgetAssignment(d) PROVE ListInv'
  <2>1. d \in Keys /\ renames' = renames
    BY <1>4 DEF Keys, ForgetAssignment
  <2>2. \A k \in Keys : /\ conflicts'[k] = IF k = d THEN <<>> ELSE conflicts[k]
                        /\ rows'[k] = IF k = d THEN NoRow ELSE rows[k]
                        /\ k # d => heard'[k] = heard[k] /\ overflowed'[k] = overflowed[k]
    BY <1>1, <1>4, <2>1 DEF ForgetAssignment
  <2>3. conflicts' \in [Keys -> Seq(Conflicts)] /\ overflowed' \in [Keys -> BOOLEAN]
    BY <1>1, <1>4, EmptyList DEF ForgetAssignment
  <2>4. ListsOK'
    BY <1>1, <2>1, <2>2, <2>3, EmptyList DEF ListsOK
  <2>5. ListsComplete'
    BY <1>2, <2>1, <2>2 DEF ListsComplete
  <2> QED
    BY <2>4, <2>5 DEF ListInv
<1>5. ASSUME NEW old \in DeviceIds, NEW new \in DeviceIds, MigrateDevice(old, new)
      PROVE  ListInv'
  <2>1. old \in Keys /\ new \in Keys /\ old # new /\ renames' = renames
    BY <1>5 DEF Keys, MigrateDevice
  <2>2. CASE rows[old] = NoRow
    <3>1. UNCHANGED <<rows, conflicts, heard, overflowed>>
      BY <1>5, <2>2 DEF MigrateDevice
    <3> QED
      BY <2>1, <3>1 DEF ListInv, ListsOK, ListsComplete
  <2>3. CASE rows[old] # NoRow
    <3>1. /\ rows' = [rows EXCEPT ![new] = rows[old], ![old] = NoRow]
          /\ conflicts' = [conflicts EXCEPT ![new] = conflicts[old], ![old] = <<>>]
          /\ heard' = [heard EXCEPT ![new] = heard[old], ![old] = <<>>]
          /\ overflowed' = [overflowed EXCEPT ![new] = overflowed[old], ![old] = FALSE]
      BY <1>5, <2>3 DEF MigrateDevice
    <3>2. conflicts' \in [Keys -> Seq(Conflicts)] /\ overflowed' \in [Keys -> BOOLEAN]
      BY <1>1, <2>1, <3>1, EmptyList
    <3>3. \A k \in Keys :
            IF k = old THEN rows'[k] = NoRow /\ conflicts'[k] = <<>>
            ELSE \E h \in Keys :
              /\ rows'[k] = rows[h] /\ conflicts'[k] = conflicts[h]
              /\ heard'[k] = heard[h] /\ overflowed'[k] = overflowed[h]
      <4>1. \A k \in Keys : k = old => rows'[k] = NoRow /\ conflicts'[k] = <<>>
        BY <1>1, <2>1, <3>1
      <4>2. /\ rows'[new] = rows[old] /\ conflicts'[new] = conflicts[old]
            /\ heard'[new] = heard[old] /\ overflowed'[new] = overflowed[old]
        BY <1>1, <2>1, <3>1
      <4>3. \A k \in Keys : k # old /\ k # new =>
              /\ rows'[k] = rows[k] /\ conflicts'[k] = conflicts[k]
              /\ heard'[k] = heard[k] /\ overflowed'[k] = overflowed[k]
        BY <1>1, <2>1, <3>1
      <4> QED
        BY <2>1, <4>1, <4>2, <4>3
    <3>4. ListsOK'
      BY <1>1, <2>1, <3>2, <3>3, EmptyList DEF ListsOK
    <3>5. ListsComplete'
      BY <1>2, <2>1, <3>3 DEF ListsComplete
    <3> QED
      BY <3>4, <3>5 DEF ListInv
  <2> QED
    BY <2>2, <2>3
<1>6. CASE UNCHANGED vars
  BY <1>6 DEF vars, ListInv, ListsOK, ListsComplete
<1> QED
  BY <1>3, <1>4, <1>5, <1>6

LEMMA NextLists ==
  Inv /\ ListInv /\ [Next]_vars => ListInv'
<1> SUFFICES ASSUME Inv, ListInv, [Next]_vars PROVE ListInv'
  OBVIOUS
<1>1. ASSUME NEW old \in CircuitIds, NEW new \in CircuitIds, MigrateCircuit(old, new)
      PROVE  ListInv'
  <2>1. /\ conflicts' = conflicts /\ overflowed' = overflowed
        /\ renames' = renames + 1 /\ renames < MaxRenames
    BY <1>1 DEF MigrateCircuit
  <2>2. renames \in 0 .. MaxRenames /\ MaxRenames \in Nat
    BY AssignmentsAssumption DEF ListInv, ListsOK
  <2>3. renames' \in 0 .. MaxRenames /\ renames' # 0
    BY <2>1, <2>2
  <2> QED
    BY <2>1, <2>3 DEF ListInv, ListsOK, ListsComplete
<1>2. ASSUME NEW d \in DeviceIds, NEW e \in Evidence, NEW c \in CircuitIds,
             RecordAssignment(d, e, c)
      PROVE  ListInv'
  BY <1>2, RecordLists
<1> QED
  BY <1>1, <1>2, OtherLists DEF Next

LEMMA ListInvariant ==
  Spec => [](Inv /\ ListInv)
<1>1. (Inv /\ ListInv) /\ [Next]_vars => (Inv /\ ListInv)'
  BY NextInv, NextLists
<1> QED
  BY <1>1, InitInv, InitLists, PTL DEF Spec

(* The state of the store keeps its type.                                  *)
THEOREM RowTypes ==
  Spec => []TypeOK
<1>1. Inv /\ ListInv => TypeOK
  BY DEF Inv, RowsOK, ListInv, ListsOK, TypeOK
<1> QED
  BY <1>1, ListInvariant, PTL

(* However often minds change, a row lists each disagreement once, the     *)
(* newest of them, and never its own circuit; and with the row every       *)
(* circuit ever named is still readable (store.py:308-331), until the      *)
(* limit drops one or a circuit is renamed.                                *)
THEOREM DisagreementsAreTrueAndKept ==
  Spec => []Disagreements
<1>1. Inv /\ ListInv => ConflictsDisagree
  BY DEF ListInv, ListsOK, ListsComplete, ConflictsDisagree, Complete, Distinct
<1>2. Inv /\ ListInv => DisagreementsKept
  <2> SUFFICES ASSUME Inv, ListInv, NEW k \in Keys, rows[k] # NoRow, ~overflowed[k],
                      renames = 0, NEW i \in DOMAIN heard[k]
               PROVE  heard[k][i].circuit
                        \in {rows[k].circuit} \cup {c.circuit : c \in ToSet(conflicts[k])}
    BY DEF DisagreementsKept
  <2>1. heard[k][i].circuit = rows[k].circuit
        \/ \E j \in DOMAIN conflicts[k] : conflicts[k][j].circuit = heard[k][i].circuit
    BY DEF ListInv, ListsComplete, Complete
  <2> QED
    BY <2>1 DEF ToSet
<1> QED
  BY <1>1, <1>2, ListInvariant, PTL DEF Disagreements

-----------------------------------------------------------------------------
(* Everything the store keeps.                                             *)

\* A behaviour of the sum is one of each part: by its definition, which takes the parts
\* for independent.
LEMMA StoreIsItsParts == StoreSpec => Spec /\ LedgerSpec /\ LibrarySpec
<1>1. StoreInit => Init /\ LedgerInit /\ LibraryInit
  BY DEF StoreInit
<1>2. [StoreNext]_<<vars, ledger, shelf, part>>
        => [Next]_vars /\ [LedgerNext]_ledger /\ [LibraryNext]_shelf
  BY DEF StoreNext
<1> QED
  BY <1>1, <1>2, PTL DEF StoreSpec, Spec, LedgerSpec, LibrarySpec

(* Whichever part moves, the state of every part keeps its type.           *)
THEOREM StoreTypes == StoreSpec => []StoreTypeOK
<1>1. TypeOK /\ LedgerTypeOK /\ LibraryTypeOK => StoreTypeOK
  BY DEF StoreTypeOK
<1> QED
  BY <1>1, StoreIsItsParts, RowTypes, LedgerTypes, LibraryTypes, PTL

(* All that is promised of the store at once: a row is the latest of the   *)
(* strongest answers, measured rows are probes, disagreements are listed,  *)
(* trips end, shapes are compact, a device's place is never weakened, no   *)
(* write takes back what an earlier one showed, and names stay.            *)
THEOREM StoreKeepsItsPromises ==
  StoreSpec => /\ [](RowsAreEarned /\ Disagreements)
               /\ [](TripsEnd /\ ShapesAreCompact)
               /\ ImplementsPlacement /\ PlaceNeverWeakens
               /\ NamesFollowTheirShapes /\ AutolabelKeepsNames
BY StoreIsItsParts, RowsAreAlwaysEarned, PlacementIsImplemented,
   DisagreementsAreTrueAndKept, TripsComeToAnEnd, NoWriteWeakens, CompleteLinkageIsCompact,
   LearningKeepsNames, AutolabelOverwritesNoName, PTL
=============================================================================
