------------------------------- MODULE MCWda -------------------------------
(***************************************************************************)
(* Two histories of the farm, for TLC: phones that are adopted, with faults *)
(* and a user's restart on the way, and a server that starts again while   *)
(* every phone is served, so that Resume works on all of them at once.     *)
(* Wda reaches both.                                                       *)
(***************************************************************************)
EXTENDS Wda

Adoptions == Fresh /\ faults = 0 /\ requests = 0 /\ restarts = MaxRestarts

Serving ==
    /\ plugged = Phones
    /\ up = Phones
    /\ built = TRUE
    /\ adopted = Phones
    /\ screen = CHOOSE f \in [Phones -> Ports] : \A p, r \in Phones : f[p] = f[r] => p = r
    /\ procs = screen
    /\ endpoint = screen
    /\ listener = [q \in Ports |-> IF \E p \in Phones : screen[p] = q
                                   THEN CHOOSE p \in Phones : screen[p] = q ELSE NoPhone]
    /\ dead = {}
    /\ job = [p \in Phones |-> Idle]
    /\ resumed = [p \in Phones |-> Written]
    /\ late = {}
    /\ heal = [p \in Phones |-> [fails |-> 0, heals |-> 0]]
    /\ faults = MaxFaults
    /\ requests = MaxRequests
    /\ restarts = 0

MCInit == Adoptions \/ Serving

MCSpec == MCInit /\ [][Next]_vars /\ Fairness
=============================================================================
