------------------------------- MODULE MCStore -------------------------------
(***************************************************************************)
(* What the integration keeps (store.py), for TLC: a sum of the parts of   *)
(* the store.  A behaviour is one of one part, chosen at the start, and    *)
(* the others stay as they were set up.  That the parts leave each other   *)
(* alone is taken from the code, not shown: one migration renames the ids  *)
(* in all of them (store.py:420), and is part of each module.              *)
(*                                                                         *)
(*   rows      Assignments; the circuits in use are interchangeable        *)
(*   ends      TripLedger: trips that show no device, many readings        *)
(*   evidence  TripLedger: two readings, and the evidence of outages;      *)
(*             no restart                                                  *)
(*   library   Library                                                     *)
(***************************************************************************)
EXTENDS Assignments, TripLedger, Library, TLC

CONSTANTS b1, k1, k2, washer, dryer

VARIABLE part

CircuitSymmetry == Permutations(LiveCircuits)

\* One device with a sensor and a power sensor.
MCDeviceOf == [e \in Entities |-> 0]

\* Two circuits are named after an appliance; the first learns most.
MCWindows ==
  (k1 :> UNION {[1 .. n -> 0 .. 3] : n \in 0 .. 3}) @@ (k2 :> {<<1>>, <<0, 2>>})

MCTitle == (k1 :> washer) @@ (k2 :> dryer)

StoreInit ==
  /\ part \in {"rows", "ends", "evidence", "library"}
  /\ Init /\ LedgerInit /\ LibraryInit
  /\ part # "rows" => rows = [k \in Keys |-> NoRow]

StoreNext ==
  \/ part = "rows" /\ Next /\ UNCHANGED <<ledger, shelf, part>>
  \/ /\ part = "ends" /\ LedgerNext /\ UNCHANGED <<vars, shelf, part>>
     /\ held' = {} /\ writes' = 0
     /\ \A i \in DOMAIN trips' : trips'[i].confirmed = {} /\ trips'[i].suspected = {}
  \/ /\ part = "evidence" /\ LedgerNext /\ UNCHANGED <<vars, shelf, part>>
     /\ clock' <= 2 /\ watching' /\ file' = file
  \/ part = "library" /\ LibraryNext /\ UNCHANGED <<vars, ledger, part>>

(* The types of all parts.                                                 *)
StoreTypeOK == TypeOK /\ LedgerTypeOK /\ LibraryTypeOK

StoreSpec == StoreInit /\ [][StoreNext]_<<vars, ledger, shelf, part>>
=============================================================================
