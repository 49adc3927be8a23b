------------------------------ MODULE MCRunner ------------------------------
(* Instances of Runner for TLC.  Devices and users are interchangeable; run *)
(* and batch numbers are not, the scheduler takes the oldest run first.     *)
EXTENDS Runner, TLC

Symmetry == Permutations(Devices) \cup Permutations(Users)
=============================================================================
