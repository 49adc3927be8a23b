-------------------------------- MODULE Lease --------------------------------
(***************************************************************************)
(* What the reservation service promises, with none of its machinery: a    *)
(* device has one holder or none; a booking takes a set of devices that    *)
(* are all unheld, all of them in one step; and a held device becomes      *)
(* unheld before anybody else can hold it.  Reservations implements this.  *)
(***************************************************************************)

CONSTANTS
    Devices,    \* the devices of the farm
    Users,      \* the people and agents that reserve them
    Nobody      \* the holder of an unheld device, not one of Users

VARIABLE holder     \* holder[d]: the user that holds device d, or Nobody

Init == holder = [d \in Devices |-> Nobody]

\* One booking, of a single device or of a batch.
Acquire(u, D) ==
    /\ \A d \in D : holder[d] = Nobody
    /\ holder' = [d \in Devices |-> IF d \in D THEN u ELSE holder[d]]

\* The end of one device's lease, whatever ended it.
Drop(d) ==
    /\ holder[d] # Nobody
    /\ holder' = [holder EXCEPT ![d] = Nobody]

Next ==
    \/ \E u \in Users, D \in (SUBSET Devices) \ {{}} : Acquire(u, D)
    \/ \E d \in Devices : Drop(d)

Spec == Init /\ [][Next]_holder
==============================================================================
