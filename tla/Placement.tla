----------------------------- MODULE Placement -----------------------------
(***************************************************************************)
(* What the assignments of FingerprintStore promise to whoever reads them: *)
(* each device is on one circuit, known with some strength, and only an    *)
(* answer at least as strong moves it.  Assignments implements this with   *)
(* rows of four sources, migrations of old files, and the disagreements    *)
(* kept on each row.                                                       *)
(***************************************************************************)
EXTENDS Integers

CONSTANTS Devices, Circuits, Nowhere

VARIABLE placed

Place == [circuit : Circuits, strength : 0 .. 4]

Init == placed \in [Devices -> Place \cup {Nowhere}]

\* An answer at least as strong as the one known, or the first.
Learn(d, place) ==
  /\ placed[d] # Nowhere => place.strength >= placed[d].strength
  /\ placed' = [placed EXCEPT ![d] = place]

Forget(d) == placed' = [placed EXCEPT ![d] = Nowhere]

\* A device is known under another name; what that name had is gone.
RenameDevice(old, new) ==
  placed' = [placed EXCEPT ![new] = placed[old], ![old] = Nowhere]

RenameCircuit(old, new) ==
  placed' = [d \in Devices |->
               IF placed[d] # Nowhere /\ placed[d].circuit = old
               THEN [placed[d] EXCEPT !.circuit = new] ELSE placed[d]]

Next ==
  \/ \E d \in Devices : Forget(d) \/ \E place \in Place : Learn(d, place)
  \/ \E old, new \in Devices : RenameDevice(old, new)
  \/ \E old, new \in Circuits : RenameCircuit(old, new)

Spec == Init /\ [][Next]_placed
=============================================================================
