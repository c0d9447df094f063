---------------------------- MODULE MCTripDetector ----------------------------
(***************************************************************************)
(* Values for TripDetector's constants that a .cfg file cannot write.      *)
(***************************************************************************)
EXTENDS TripDetector

CONSTANTS c1, c2

\* The first circuit is watched, and sometimes it is not.
MCWatchedOrNot == {{c1}, {}}

\* It is watched throughout.
MCWatched == {{c1}}
=============================================================================
