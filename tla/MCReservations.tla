--------------------------- MODULE MCReservations ---------------------------
(* Instances of Reservations for TLC.  Devices, users, requests and batch   *)
(* ids are interchangeable, so the runs of safety properties are reduced by *)
(* symmetry; the run of the liveness property is not.                       *)
EXTENDS Reservations, TLC

Symmetry == Permutations(Devices) \cup Permutations(Users)
                \cup Permutations(Callers) \cup Permutations(Batches)
=============================================================================
