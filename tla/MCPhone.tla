------------------------------ MODULE MCPhone ------------------------------
(* One phone, two users and one request at a time, for TLC.               *)
EXTENDS Phone, TLC

UserSymmetry == Permutations(Users)
=============================================================================
