------------------------------ MODULE RunQueue ------------------------------
(***************************************************************************)
(* What the test runner promises of its runs, with none of its machinery:  *)
(* a run is queued when it is submitted, begins when every run submitted   *)
(* before it has ended, and ends once.  Runner implements this, across     *)
(* crashes of the process.                                                 *)
(***************************************************************************)
EXTENDS Naturals

CONSTANTS
    MaxRuns,    \* bound on the runs submitted
    Results     \* how a run can end

VARIABLE state  \* state[n]: "none", "queued", "running", or the run's result

Runs == 1..MaxRuns

Init == state = [n \in Runs |-> "none"]

\* Runs are numbered as they are submitted.
Submit(n) ==
    /\ state[n] = "none"
    /\ \A m \in Runs : m < n => state[m] # "none"
    /\ state' = [state EXCEPT ![n] = "queued"]

Begin(n) ==
    /\ state[n] = "queued"
    /\ \A m \in Runs : m < n => state[m] \in Results
    /\ state' = [state EXCEPT ![n] = "running"]

\* With the result of its devices, or because the process that ran it died.
End(n, r) ==
    /\ state[n] = "running"
    /\ state' = [state EXCEPT ![n] = r]

Next == \E n \in Runs : Submit(n) \/ Begin(n) \/ \E r \in Results : End(n, r)

Spec == Init /\ [][Next]_state
=============================================================================
