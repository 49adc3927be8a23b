------------------------- MODULE ReservationsProofs -------------------------
(***************************************************************************)
(* Proofs about Reservations, for every number of devices, users and       *)
(* concurrent requests, and every clock: the state stays typed, a device   *)
(* has at most one lease, a lease ends only for one of the three reasons,  *)
(* the service implements Lease, what a row says of its booking is true,   *)
(* no renewal moves the cap, and the status column follows the leases.     *)
(***************************************************************************)
EXTENDS Reservations, TLAPS

USE DEF Idle, Booking, Ending, Row

-----------------------------------------------------------------------------
(* The rows that one renewal or one release leaves.                        *)

\* A renewal changes no row but its time stamp.
LEMMA RenewedRows ==
    ASSUME TypeOK, NEW S \in SUBSET rows
    PROVE  /\ Renewed(S) \subseteq Row
           /\ \A r \in Renewed(S) : \E q \in rows :
                    /\ r.dev = q.dev /\ r.user = q.user /\ r.batch = q.batch
                    /\ r = IF q \in S THEN [q EXCEPT !.renewed = now] ELSE q
           /\ \A q \in rows : \E r \in Renewed(S) : r.dev = q.dev
<1> DEFINE fresh(q) == [q EXCEPT !.renewed = now]
<1>1. \A q \in rows : fresh(q) \in Row /\ fresh(q).dev = q.dev
                        /\ fresh(q).user = q.user /\ fresh(q).batch = q.batch
    BY DEF TypeOK
<1> HIDE DEF fresh
<1>2. Renewed(S) = (rows \ S) \cup {fresh(q) : q \in S}
    BY DEF Renewed, fresh
<1>3. Renewed(S) \subseteq Row
    BY <1>1, <1>2 DEF TypeOK
<1>4. ASSUME NEW r \in Renewed(S)
      PROVE  \E q \in rows :
                /\ r.dev = q.dev /\ r.user = q.user /\ r.batch = q.batch
                /\ r = IF q \in S THEN fresh(q) ELSE q
    <2>1. CASE r \in rows \ S
        BY <2>1
    <2>2. CASE \E q \in S : r = fresh(q)
        BY <2>2, <1>1
    <2>3. QED
        BY <1>2, <2>1, <2>2
<1>5. ASSUME NEW q \in rows
      PROVE  \E r \in Renewed(S) : r.dev = q.dev
    BY <1>1, <1>2
<1>6. QED
    BY <1>3, <1>4, <1>5 DEF fresh

-----------------------------------------------------------------------------
(* Types                                                                   *)

LEMMA TypeInit == Init => TypeOK
BY ReservationsAssumption DEF Init, TypeOK, Statuses

\* A release, whoever asks for it, keeps the tables typed.
LEMMA EndLeaseType ==
    ASSUME TypeOK, NEW d \in Devices, NEW u \in Users, NEW admin \in BOOLEAN,
           EndLease(d, u, admin)
    PROVE  rows' \subseteq rows /\ status' \in [Devices -> Statuses]
BY DEF EndLease, TypeOK, Statuses

LEMMA TypeStep == TypeOK /\ [Next]_vars => TypeOK'
<1> SUFFICES ASSUME TypeOK, [Next]_vars PROVE TypeOK'
    OBVIOUS
<1>1. ASSUME NEW c \in Callers, NEW u \in Users, NEW d \in Devices, Reserve(c, u, d)
      PROVE  TypeOK'
    BY <1>1 DEF Reserve, TypeOK
<1>2. ASSUME NEW c \in Callers, NEW u \in Users, NEW D \in (SUBSET Devices) \ {{}},
             ReserveMany(c, u, D)
      PROVE  TypeOK'
    BY <1>2 DEF ReserveMany, TypeOK
<1>3. ASSUME NEW c \in Callers, NEW d \in Devices, CheckDevice(c, d)
      PROVE  TypeOK'
    <2>1. call[c] \in Booking
        BY <1>3 DEF CheckDevice, TypeOK
    <2>2. [call[c] EXCEPT !.unread = @ \ {d}] \in Booking
        BY <2>1
    <2>3. QED
        BY <1>3, <2>2 DEF CheckDevice, TypeOK
<1>4. ASSUME NEW c \in Callers, Book(c)
      PROVE  TypeOK'
    <2>1. call[c] \in Booking
        BY <1>4 DEF Book, TypeOK
    <2>2. \A b \in Batches : Inserted(call[c], b) \subseteq Row
        BY <2>1 DEF Inserted
    <2>3. rows' \subseteq Row /\ issued' \subseteq Batches
        BY <1>4, <2>2 DEF Book, TypeOK
    <2>4. status' \in [Devices -> Statuses]
        BY <1>4 DEF Book, TypeOK, Statuses, HeldStatuses
    <2>5. call' \in [Callers -> {Idle} \cup Booking \cup Ending]
        BY <1>4 DEF Book, TypeOK
    <2>6. QED
        BY <1>4, <2>3, <2>4, <2>5 DEF Book, TypeOK
<1>5. ASSUME NEW u \in Users, NEW d \in Devices, Heartbeat(u, d)
      PROVE  TypeOK'
    <2>1. rows' \subseteq Row
        BY <1>5, RenewedRows DEF Heartbeat
    <2>2. QED
        BY <1>5, <2>1 DEF Heartbeat, TypeOK
<1>6. ASSUME NEW u \in Users, NEW b \in Batches \cup {"mine"}, HeartbeatBatch(u, b)
      PROVE  TypeOK'
    <2>1. rows' \subseteq Row
        BY <1>6, RenewedRows DEF HeartbeatBatch, BatchRows
    <2>2. QED
        BY <1>6, <2>1 DEF HeartbeatBatch, TypeOK
<1>7. ASSUME NEW c \in Callers, NEW u \in Users, NEW d \in Devices, Release(c, u, d)
      PROVE  TypeOK'
    BY <1>7 DEF Release, TypeOK
<1>8. ASSUME NEW c \in Callers, NEW u \in Users, NEW b, NEW admin \in BOOLEAN,
             ReleaseBatch(c, u, b, admin)
      PROVE  TypeOK'
    <2> DEFINE mine == BatchRows(b, u)
               ids == {r.dev : r \in IF admin /\ mine = {}
                                     THEN {r \in rows : r.batch = b} ELSE mine}
               req == [op |-> "end", user |-> u, admin |-> admin, todo |-> ids]
    <2>1. mine \subseteq rows
        BY DEF BatchRows
    <2>2. ids \subseteq Devices
        BY <2>1 DEF TypeOK
    <2>3. /\ ids # {}
          /\ call' = [call EXCEPT ![c] = req]
          /\ UNCHANGED <<status, rows, issued, reap, now, restarts>>
        BY <1>8 DEF ReleaseBatch
    <2> HIDE DEF ids
    <2>4. req \in Ending
        BY <2>2, <2>3
    <2> HIDE DEF req
    <2>5. QED
        BY <2>3, <2>4 DEF TypeOK
<1>9. ASSUME NEW c \in Callers, NEW d \in Devices, ReleaseNext(c, d)
      PROVE  TypeOK'
    <2>1. call[c] \in Ending
        BY <1>9 DEF ReleaseNext, TypeOK
    <2>2. call[c].todo # {d} => [call[c] EXCEPT !.todo = @ \ {d}] \in Ending
        BY <1>9, <2>1 DEF ReleaseNext
    <2>3. rows' \subseteq rows /\ status' \in [Devices -> Statuses]
        BY <1>9, <2>1, EndLeaseType DEF ReleaseNext
    <2>4. QED
        BY <1>9, <2>2, <2>3 DEF ReleaseNext, TypeOK
<1>10. ASSUME ReapSelect
       PROVE  TypeOK'
    BY <1>10 DEF ReapSelect, TypeOK
<1>11. ASSUME NEW d \in Devices, ReapNext(d)
       PROVE  TypeOK'
    <2>1. rows' \subseteq rows /\ status' \in [Devices -> Statuses]
        BY <1>11, EndLeaseType DEF ReapNext
    <2>2. QED
        BY <1>11, <2>1 DEF ReapNext, TypeOK
<1>12. ASSUME NEW d \in Devices, NEW s \in WrittenStatuses, SetDeviceStatus(d, s)
       PROVE  TypeOK'
    BY <1>12, ReservationsAssumption DEF SetDeviceStatus, TypeOK
<1>13. CASE Tick
    BY <1>13 DEF Tick, TypeOK
<1>14. CASE Restart
    BY <1>14 DEF Restart, TypeOK
<1>15. CASE UNCHANGED vars
    BY <1>15 DEF vars, TypeOK
<1>16. ASSUME NEW c \in Callers, NEW r \in rows, ReleaseBatch(c, r.user, r.batch, TRUE)
       PROVE  TypeOK'
    BY <1>8, <1>16 DEF TypeOK
<1>17. QED
    BY <1>1, <1>2, <1>3, <1>4, <1>5, <1>6, <1>7, <1>8, <1>9, <1>10, <1>11, <1>12,
       <1>13, <1>14, <1>15, <1>16 DEF Next

\* Type correctness: every table and every request in flight keeps its shape.
THEOREM TypeCorrect == Spec => []TypeOK
<1>1. Init => TypeOK
    BY TypeInit
<1>2. TypeOK /\ [Next]_vars => TypeOK'
    BY TypeStep
<1>3. QED
    BY <1>1, <1>2, PTL DEF Spec

-----------------------------------------------------------------------------
(* The steps that touch the table of reservations                          *)

\* Every step leaves the table alone, books, renews some rows, or ends the
\* lease of one device for a request or for the reaper.
LEMMA RowSteps ==
    ASSUME TypeOK, [Next]_vars
    PROVE  \/ rows' = rows
           \/ \E c \in Callers : Book(c)
           \/ \E S \in SUBSET rows : rows' = Renewed(S)
           \/ \E c \in Callers, d \in Devices : ReleaseNext(c, d)
           \/ \E d \in Devices : ReapNext(d)
<1>1. ASSUME NEW u \in Users, NEW d \in Devices, Heartbeat(u, d)
      PROVE  \E S \in SUBSET rows : rows' = Renewed(S)
    BY <1>1 DEF Heartbeat
<1>2. ASSUME NEW u \in Users, NEW b \in Batches \cup {"mine"}, HeartbeatBatch(u, b)
      PROVE  \E S \in SUBSET rows : rows' = Renewed(S)
    BY <1>2 DEF HeartbeatBatch, BatchRows
<1>3. ASSUME NEW c \in Callers, NEW u, NEW b, NEW admin, ReleaseBatch(c, u, b, admin)
      PROVE  rows' = rows
    BY <1>3 DEF ReleaseBatch
<1>4. QED
    BY <1>1, <1>2, <1>3
    DEF Next, vars, Reserve, ReserveMany, CheckDevice, Release, ReapSelect,
        SetDeviceStatus, Tick, Restart

\* The rows one booking adds: one per device, all of its user and batch.
LEMMA InsertedRows ==
    ASSUME NEW req, NEW b
    PROVE  /\ \A r \in Inserted(req, b) : /\ r.dev \in req.devs
                                          /\ r.user = req.user
                                          /\ r.batch = b
           /\ \A d \in req.devs : \E r \in Inserted(req, b) : r.dev = d
<1>1. ASSUME NEW d \in req.devs
      PROVE  \E r \in Inserted(req, b) : r.dev = d
    <2> DEFINE row == [dev |-> d, user |-> req.user, batch |-> b,
                       created |-> req.at, renewed |-> req.at]
    <2>1. row \in Inserted(req, b)
        BY DEF Inserted
    <2>2. row.dev = d
        OBVIOUS
    <2>3. QED
        BY <2>1, <2>2
<1>2. QED
    BY <1>1 DEF Inserted

\* The rows one release removes: the active row of the device, if the caller
\* may end it.
LEMMA EndLeaseRows ==
    ASSUME NEW d, NEW u, NEW admin, EndLease(d, u, admin)
    PROVE  /\ rows' \subseteq rows
           /\ \A r \in rows : r \notin rows' => r.dev = d /\ (admin \/ r.user = u)
           /\ \A r \in rows : r.dev = d /\ (admin \/ r.user = u) => r \notin rows'
BY DEF EndLease

-----------------------------------------------------------------------------
(* One lease per device                                                    *)

LEMMA OneLeaseStep == TypeOK /\ OneLeasePerDevice /\ [Next]_vars => OneLeasePerDevice'
<1> SUFFICES ASSUME TypeOK, OneLeasePerDevice, [Next]_vars,
                    NEW r \in rows', NEW s \in rows', r.dev = s.dev
             PROVE  r = s
    BY DEF OneLeasePerDevice
<1>1. CASE rows' = rows
    BY <1>1 DEF OneLeasePerDevice
<1>2. ASSUME NEW c \in Callers, Book(c)
      PROVE  r = s
    <2>1. CASE rows' = rows
        BY <2>1 DEF OneLeasePerDevice
    <2>2. CASE rows' # rows
        <3>1. PICK b \in Batches : rows' = rows \cup Inserted(call[c], b)
            BY <1>2, <2>2 DEF Book
        <3>2. \A q \in Inserted(call[c], b) : q.dev \in call[c].devs /\ ~Taken(q.dev)
            BY <1>2, <2>2 DEF Book, Inserted
        <3>3. \A q \in rows : Taken(q.dev)
            BY DEF Taken
        <3>4. \A p, q \in Inserted(call[c], b) : p.dev = q.dev => p = q
            BY DEF Inserted
        <3>5. QED
            BY <3>1, <3>2, <3>3, <3>4 DEF OneLeasePerDevice
    <2>3. QED
        BY <2>1, <2>2
<1>3. ASSUME NEW S \in SUBSET rows, rows' = Renewed(S)
      PROVE  r = s
    <2>1. PICK p \in rows : /\ r.dev = p.dev
                            /\ r = IF p \in S THEN [p EXCEPT !.renewed = now] ELSE p
        BY <1>3, RenewedRows
    <2>2. PICK q \in rows : /\ s.dev = q.dev
                            /\ s = IF q \in S THEN [q EXCEPT !.renewed = now] ELSE q
        BY <1>3, RenewedRows
    <2>3. p = q
        BY <2>1, <2>2 DEF OneLeasePerDevice
    <2>4. QED
        BY <2>1, <2>2, <2>3
<1>4. ASSUME NEW c \in Callers, NEW d \in Devices, ReleaseNext(c, d)
      PROVE  r = s
    BY <1>4, EndLeaseRows DEF ReleaseNext, OneLeasePerDevice
<1>5. ASSUME NEW d \in Devices, ReapNext(d)
      PROVE  r = s
    BY <1>5, EndLeaseRows DEF ReapNext, OneLeasePerDevice
<1>6. QED
    BY <1>1, <1>2, <1>3, <1>4, <1>5, RowSteps

\* At most one active reservation per device, whatever the interleaving of the
\* bookings' reads and inserts and whatever is written to devices.status.
THEOREM ExclusiveLease == Spec => []OneLeasePerDevice
<1>1. Init => OneLeasePerDevice
    BY DEF Init, OneLeasePerDevice
<1>2. TypeOK /\ OneLeasePerDevice /\ [Next]_vars => OneLeasePerDevice'
    BY OneLeaseStep
<1>3. QED
    BY <1>1, <1>2, TypeCorrect, PTL DEF Spec

-----------------------------------------------------------------------------
(* How leases begin and end                                                *)

\* A step that makes an unheld device held is one booking, and books all of it.
THEOREM BookingIsAtomic == Spec => AllOrNothing
<1> DEFINE new == {r \in rows' : ~Taken(r.dev)}
           Whole == \E c \in Callers, b \in Batches \ issued :
                        /\ call[c].op = "book"
                        /\ {r.dev : r \in new} = call[c].devs
                        /\ \A r \in new : r.batch = b /\ r.user = call[c].user
<1>1. ASSUME TypeOK, [Next]_vars, new # {}
      PROVE  Whole
    <2>1. CASE \A r \in rows' : \E q \in rows : q.dev = r.dev
        BY <1>1, <2>1 DEF Taken
    <2>2. ASSUME NEW c \in Callers, Book(c)
          PROVE  Whole
        <3>1. CASE rows' = rows
            BY <2>1, <3>1
        <3>2. CASE rows' # rows
            <4>1. PICK b \in Batches \ issued : rows' = rows \cup Inserted(call[c], b)
                BY <2>2, <3>2 DEF Book
            <4>2. \A d \in call[c].devs : ~Taken(d)
                BY <2>2, <3>2 DEF Book
            <4>3. \A r \in rows : Taken(r.dev)
                BY DEF Taken
            <4>4. new = Inserted(call[c], b)
                BY <4>1, <4>2, <4>3 DEF Inserted
            <4>5. {r.dev : r \in new} = call[c].devs
                BY <4>4, InsertedRows
            <4>6. \A r \in new : r.batch = b /\ r.user = call[c].user
                BY <4>4, InsertedRows
            <4>7. call[c].op = "book"
                BY <2>2 DEF Book
            <4>8. QED
                BY <4>5, <4>6, <4>7
        <3>3. QED
            BY <3>1, <3>2
    <2>3. ASSUME NEW S \in SUBSET rows, rows' = Renewed(S)
          PROVE  \A r \in rows' : \E q \in rows : q.dev = r.dev
        BY <1>1, <2>3, RenewedRows
    <2>4. ASSUME NEW c \in Callers, NEW d \in Devices, ReleaseNext(c, d)
          PROVE  \A r \in rows' : \E q \in rows : q.dev = r.dev
        BY <2>4, EndLeaseRows DEF ReleaseNext
    <2>5. ASSUME NEW d \in Devices, ReapNext(d)
          PROVE  \A r \in rows' : \E q \in rows : q.dev = r.dev
        BY <2>5, EndLeaseRows DEF ReapNext
    <2>6. QED
        BY <1>1, <2>1, <2>2, <2>3, <2>4, <2>5, RowSteps
<1>2. TypeOK /\ [Next]_vars => [new # {} => Whole]_vars
    BY <1>1
<1>3. QED
    BY <1>2, TypeCorrect, PTL DEF Spec, AllOrNothing

\* No request of one user ends the lease of another, not even a release that
\* works through a list it took before the device changed hands.
THEOREM OnlyOwnLeasesEnd == Spec => NoForeignRelease
<1> DEFINE Cause(r) == \/ \E c \in Callers : /\ call[c].op = "end"
                                             /\ call'[c] # call[c]
                                             /\ r.dev \in call[c].todo
                                             /\ call[c].admin \/ call[c].user = r.user
                       \/ r.dev \in reap \ reap'
<1>1. ASSUME TypeOK, [Next]_vars, NEW r \in rows, \A s \in rows' : s.dev # r.dev
      PROVE  Cause(r)
    <2>1. CASE \E s \in rows' : s.dev = r.dev
        BY <1>1, <2>1
    <2>2. ASSUME NEW c \in Callers, Book(c)
          PROVE  r \in rows'
        BY <2>2 DEF Book
    <2>3. ASSUME NEW S \in SUBSET rows, rows' = Renewed(S)
          PROVE  \E s \in rows' : s.dev = r.dev
        BY <1>1, <2>3, RenewedRows
    <2>4. ASSUME NEW c \in Callers, NEW d \in Devices, ReleaseNext(c, d)
          PROVE  Cause(r)
        <3>1. call[c] \in Ending /\ d \in call[c].todo
            BY <1>1, <2>4 DEF ReleaseNext, TypeOK
        <3>2. call'[c] # call[c]
            <4>1. CASE call[c].todo = {d}
                BY <1>1, <2>4, <3>1, <4>1 DEF ReleaseNext, TypeOK
            <4>2. CASE call[c].todo # {d}
                <5>1. call'[c] = [call[c] EXCEPT !.todo = @ \ {d}]
                    BY <1>1, <2>4, <4>2 DEF ReleaseNext, TypeOK
                <5>2. d \notin call'[c].todo
                    BY <3>1, <5>1
                <5>3. QED
                    BY <3>1, <5>2
            <4>3. QED
                BY <4>1, <4>2
        <3>3. r.dev = d /\ (call[c].admin \/ call[c].user = r.user)
            BY <1>1, <2>4, EndLeaseRows DEF ReleaseNext
        <3>4. QED
            BY <3>1, <3>2, <3>3
    <2>5. ASSUME NEW d \in Devices, ReapNext(d)
          PROVE  Cause(r)
        <3>1. PICK u \in Users : EndLease(d, u, TRUE)
            BY <2>5 DEF ReapNext
        <3>2. r.dev = d
            BY <1>1, <3>1, EndLeaseRows
        <3>3. QED
            BY <2>5, <3>2 DEF ReapNext
    <2>6. QED
        BY <1>1, <2>1, <2>2, <2>3, <2>4, <2>5, RowSteps
<1>2. TypeOK /\ [Next]_vars =>
        [\A r \in rows : (\A s \in rows' : s.dev # r.dev) => Cause(r)]_vars
    BY <1>1
<1>3. QED
    BY <1>2, TypeCorrect, PTL DEF Spec, NoForeignRelease

-----------------------------------------------------------------------------
(* Reservations implements Lease                                           *)

\* The holder a table of reservations shows, when no device has two rows.
LEMMA HolderOfRow ==
    ASSUME NEW R, \A r, s \in R : r.dev = s.dev => r = s
    PROVE  /\ \A r \in R : HolderIn(R, r.dev) = r.user
           /\ \A d : (\A r \in R : r.dev # d) => HolderIn(R, d) = Nobody
BY DEF HolderIn

\* A lookup after a renewal finds the same user.
LEMMA RenewalKeepsHolders ==
    ASSUME TypeOK, OneLeasePerDevice, OneLeasePerDevice',
           NEW S \in SUBSET rows, rows' = Renewed(S)
    PROVE  holder' = holder
<1>1. ASSUME NEW d \in Devices
      PROVE  HolderIn(rows', d) = HolderIn(rows, d)
    <2>1. CASE \E q \in rows : q.dev = d
        <3>1. PICK r \in rows' : r.dev = d
            BY <2>1, RenewedRows
        <3>2. PICK q \in rows : q.dev = d /\ q.user = r.user
            BY <3>1, RenewedRows
        <3>3. QED
            BY <3>1, <3>2, HolderOfRow DEF OneLeasePerDevice
    <2>2. CASE \A q \in rows : q.dev # d
        <3>1. \A r \in rows' : r.dev # d
            BY <2>2, RenewedRows
        <3>2. QED
            BY <2>2, <3>1, HolderOfRow DEF OneLeasePerDevice
    <2>3. QED
        BY <2>1, <2>2
<1>2. QED
    BY <1>1 DEF holder

\* A committed booking is one Acquire of Lease.
LEMMA BookingAcquires ==
    ASSUME TypeOK, OneLeasePerDevice, OneLeasePerDevice',
           NEW c \in Callers, Book(c), rows' # rows
    PROVE  Promise!Next
<1> DEFINE D == call[c].devs
           u == call[c].user
<1>1. PICK b \in Batches : rows' = rows \cup Inserted(call[c], b)
    BY DEF Book
<1>2. u \in Users /\ D \in (SUBSET Devices) \ {{}}
    BY DEF Book, TypeOK
<1>3. \A d \in D : \A r \in rows : r.dev # d
    BY DEF Book, Taken
<1>4. \A d \in D : holder[d] = Nobody
    BY <1>2, <1>3, HolderOfRow DEF holder, OneLeasePerDevice
<1>5. ASSUME NEW d \in Devices
      PROVE  HolderIn(rows', d) = IF d \in D THEN u ELSE HolderIn(rows, d)
    <2>1. CASE d \in D
        <3>1. \E r \in rows' : r.dev = d /\ r.user = u
            BY <1>1, <2>1, InsertedRows
        <3>2. QED
            BY <2>1, <3>1, HolderOfRow DEF OneLeasePerDevice
    <2>2. CASE d \notin D /\ \E r \in rows : r.dev = d
        BY <1>1, <2>2, HolderOfRow DEF OneLeasePerDevice
    <2>3. CASE d \notin D /\ \A r \in rows : r.dev # d
        <3>1. \A r \in rows' : r.dev # d
            BY <1>1, <2>3 DEF Inserted
        <3>2. QED
            BY <2>3, <3>1, HolderOfRow DEF OneLeasePerDevice
    <2>4. QED
        BY <2>1, <2>2, <2>3
<1>6. holder' = [d \in Devices |-> IF d \in D THEN u ELSE holder[d]]
    BY <1>5 DEF holder
<1>7. QED
    BY <1>2, <1>4, <1>6 DEF Promise!Next, Promise!Acquire

\* A release that removes a row is one Drop of Lease.
LEMMA ReleaseDrops ==
    ASSUME TypeOK, OneLeasePerDevice, OneLeasePerDevice',
           NEW d \in Devices, NEW u \in Users, NEW admin \in BOOLEAN,
           EndLease(d, u, admin), rows' # rows
    PROVE  Promise!Next
<1>1. PICK r \in rows : r \notin rows' /\ r.dev = d
    BY EndLeaseRows
<1>2. rows' = rows \ {r}
    BY <1>1, EndLeaseRows DEF OneLeasePerDevice
<1>3. holder[d] # Nobody
    <2>1. holder[d] = r.user
        BY <1>1, HolderOfRow DEF holder, OneLeasePerDevice
    <2>2. r.user \in Users
        BY DEF TypeOK
    <2>3. QED
        BY <2>1, <2>2, ReservationsAssumption
<1>4. HolderIn(rows', d) = Nobody
    <2>1. \A s \in rows' : s.dev # d
        BY <1>1, <1>2 DEF OneLeasePerDevice
    <2>2. QED
        BY <2>1, HolderOfRow DEF OneLeasePerDevice
<1>5. ASSUME NEW e \in Devices, e # d
      PROVE  HolderIn(rows', e) = HolderIn(rows, e)
    <2>1. CASE \E s \in rows : s.dev = e
        BY <1>1, <1>2, <1>5, <2>1, HolderOfRow DEF OneLeasePerDevice
    <2>2. CASE \A s \in rows : s.dev # e
        BY <1>2, <2>2, HolderOfRow DEF OneLeasePerDevice
    <2>3. QED
        BY <2>1, <2>2
<1>6. holder' = [holder EXCEPT ![d] = Nobody]
    BY <1>4, <1>5 DEF holder
<1>7. QED
    BY <1>3, <1>6 DEF Promise!Next, Promise!Drop

\* The service keeps the promise of Lease: every step is one booking of unheld
\* devices, the end of one device's lease, or invisible.
THEOREM ReservationsImplementLease == Spec => ImplementsLease
<1>1. Init => Promise!Init
    BY DEF Init, Promise!Init, holder, HolderIn
<1>2. TypeOK /\ OneLeasePerDevice /\ OneLeasePerDevice' /\ [Next]_vars
        => [Promise!Next]_holder
    <2> SUFFICES ASSUME TypeOK, OneLeasePerDevice, OneLeasePerDevice', [Next]_vars
                 PROVE  Promise!Next \/ holder' = holder
        OBVIOUS
    <2>1. CASE rows' = rows
        BY <2>1 DEF holder
    <2>2. ASSUME NEW c \in Callers, Book(c), rows' # rows
          PROVE  Promise!Next
        BY <2>2, BookingAcquires
    <2>3. ASSUME NEW S \in SUBSET rows, rows' = Renewed(S)
          PROVE  holder' = holder
        BY <2>3, RenewalKeepsHolders
    <2>4. ASSUME NEW c \in Callers, NEW d \in Devices, ReleaseNext(c, d), rows' # rows
          PROVE  Promise!Next
        <3>1. call[c].user \in Users /\ call[c].admin \in BOOLEAN
            BY <2>4 DEF ReleaseNext, TypeOK
        <3>2. QED
            BY <2>4, <3>1, ReleaseDrops DEF ReleaseNext
    <2>5. ASSUME NEW d \in Devices, ReapNext(d), rows' # rows
          PROVE  Promise!Next
        BY <2>5, ReleaseDrops DEF ReapNext
    <2>6. QED
        BY <2>1, <2>2, <2>3, <2>4, <2>5, RowSteps
<1>3. QED
    BY <1>1, <1>2, TypeCorrect, ExclusiveLease, PTL
    DEF Spec, ImplementsLease, Promise!Spec

-----------------------------------------------------------------------------
(* What a reservation says of the booking it comes from                    *)

\* A device a booking has read was connected to the farm, and the clock has not
\* passed the booking by.
BookingsCheck ==
    \A c \in Callers : call[c].op = "book" =>
        /\ call[c].devs \ call[c].unread \subseteq Adopted
        /\ call[c].at <= now

\* Only connected devices are reserved, no row is renewed before it is created
\* or later than now, and its batch id is used up.
RowsAreSound ==
    \A r \in rows : /\ r.dev \in Adopted
                    /\ r.batch \in issued
                    /\ r.created <= r.renewed
                    /\ r.renewed <= now

\* The rows of one batch come from one booking of one user.
BookedTogether ==
    \A r, s \in rows : r.batch = s.batch => r.user = s.user /\ r.created = s.created

BookingInv == BookingsCheck /\ RowsAreSound /\ BookedTogether

\* The clock never goes back.
LEMMA ClockAdvances ==
    ASSUME TypeOK, [Next]_vars
    PROVE  now' \in Nat /\ now <= now'
<1>1. CASE Tick
    BY <1>1 DEF Tick, TypeOK
<1>2. CASE ~Tick
    <2>1. ASSUME NEW c \in Callers, NEW u, NEW b, NEW admin, ReleaseBatch(c, u, b, admin)
          PROVE  now' = now
        BY <2>1 DEF ReleaseBatch
    <2>2. now' = now
        BY <1>2, <2>1
        DEF Next, vars, Reserve, ReserveMany, CheckDevice, Book, Heartbeat,
            HeartbeatBatch, Release, ReleaseNext, ReapSelect, ReapNext,
            SetDeviceStatus, Restart
    <2>3. QED
        BY <2>2 DEF TypeOK
<1>3. QED
    BY <1>1, <1>2

\* Where the bookings in flight come from.
LEMMA BookingSteps ==
    ASSUME TypeOK, [Next]_vars, NEW c \in Callers, call'[c].op = "book"
    PROVE  \/ call'[c] = call[c]
           \/ /\ call'[c].devs \ call'[c].unread \subseteq Adopted
              /\ call'[c].at = now
           \/ /\ call[c].op = "book"
              /\ call'[c].at = call[c].at
              /\ call'[c].devs = call[c].devs
              /\ \E d \in Adopted : call'[c].unread = call[c].unread \ {d}
<1> DEFINE New == /\ call'[c].devs \ call'[c].unread \subseteq Adopted
                  /\ call'[c].at = now
           Read == /\ call[c].op = "book"
                   /\ call'[c].at = call[c].at
                   /\ call'[c].devs = call[c].devs
                   /\ \E d \in Adopted : call'[c].unread = call[c].unread \ {d}
           Goal == call'[c] = call[c] \/ New \/ Read
<1>1. ASSUME NEW k \in Callers, NEW u \in Users, NEW d \in Devices, Reserve(k, u, d)
      PROVE  Goal
    BY <1>1 DEF Reserve, Bookable, TypeOK
<1>2. ASSUME NEW k \in Callers, NEW u \in Users, NEW D \in (SUBSET Devices) \ {{}},
             ReserveMany(k, u, D)
      PROVE  Goal
    BY <1>2 DEF ReserveMany, TypeOK
<1>3. ASSUME NEW k \in Callers, NEW d \in Devices, CheckDevice(k, d)
      PROVE  Goal
    <2>1. CASE k # c \/ ~Bookable(d)
        BY <1>3, <2>1 DEF CheckDevice, TypeOK
    <2>2. CASE k = c /\ Bookable(d)
        <3>1. call[c] \in Booking /\ d \in Adopted
            BY <1>3, <2>2 DEF CheckDevice, Bookable, TypeOK
        <3>2. call'[c] = [call[c] EXCEPT !.unread = @ \ {d}]
            BY <1>3, <2>2 DEF CheckDevice, TypeOK
        <3>3. Read
            BY <3>1, <3>2
        <3>4. QED
            BY <3>3
    <2>3. QED
        BY <2>1, <2>2
<1>4. ASSUME NEW k \in Callers, NEW u, NEW b, NEW admin, ReleaseBatch(k, u, b, admin)
      PROVE  Goal
    <2>1. CASE k = c
        <3>1. call'[c].op = "end"
            BY <1>4, <2>1 DEF ReleaseBatch, TypeOK
        <3>2. QED
            BY <3>1
    <2>2. CASE k # c
        BY <1>4, <2>2 DEF ReleaseBatch, TypeOK
    <2>3. QED
        BY <2>1, <2>2
<1>5. ASSUME NEW k \in Callers, NEW d \in Devices, ReleaseNext(k, d)
      PROVE  Goal
    <2>1. CASE k = c
        <3>1. call[c] \in Ending /\ [call[c] EXCEPT !.todo = @ \ {d}].op = "end"
            BY <1>5, <2>1 DEF ReleaseNext, TypeOK
        <3>2. call'[c].op # "book"
            BY <1>5, <2>1, <3>1 DEF ReleaseNext, TypeOK
        <3>3. QED
            BY <3>2
    <2>2. CASE k # c
        BY <1>5, <2>2 DEF ReleaseNext, TypeOK
    <2>3. QED
        BY <2>1, <2>2
<1>6. ASSUME NEW k \in Callers, Book(k)
      PROVE  Goal
    BY <1>6 DEF Book, TypeOK
<1>7. ASSUME NEW k \in Callers, NEW u \in Users, NEW d \in Devices, Release(k, u, d)
      PROVE  Goal
    BY <1>7 DEF Release, TypeOK
<1>8. CASE Restart
    BY <1>8 DEF Restart
<1>9. QED
    BY <1>1, <1>2, <1>3, <1>4, <1>5, <1>6, <1>7, <1>8
    DEF Next, vars, Heartbeat, HeartbeatBatch, ReapSelect, ReapNext, SetDeviceStatus,
        Tick

LEMMA BookingInit == Init => BookingInv
BY DEF Init, BookingInv, BookingsCheck, RowsAreSound, BookedTogether

LEMMA BookingsCheckStep ==
    ASSUME TypeOK, BookingsCheck, [Next]_vars
    PROVE  BookingsCheck'
<1> SUFFICES ASSUME NEW c \in Callers, call'[c].op = "book"
             PROVE  /\ call'[c].devs \ call'[c].unread \subseteq Adopted
                    /\ call'[c].at <= now'
    BY DEF BookingsCheck
<1>1. now \in Nat /\ now' \in Nat /\ now <= now'
    BY ClockAdvances DEF TypeOK
<1>2. call[c].op = "book" => call[c].at \in Nat
    BY DEF TypeOK
<1>3. CASE call'[c] = call[c]
    BY <1>1, <1>2, <1>3 DEF BookingsCheck
<1>4. CASE call'[c].devs \ call'[c].unread \subseteq Adopted /\ call'[c].at = now
    BY <1>1, <1>4
<1>5. ASSUME call[c].op = "book",
             call'[c].at = call[c].at, call'[c].devs = call[c].devs,
             NEW d \in Adopted, call'[c].unread = call[c].unread \ {d}
      PROVE  /\ call'[c].devs \ call'[c].unread \subseteq Adopted
             /\ call'[c].at <= now'
    <2>1. call[c].devs \ call[c].unread \subseteq Adopted /\ call[c].at <= now
        BY <1>5 DEF BookingsCheck
    <2>2. call'[c].devs \ call'[c].unread \subseteq Adopted
        BY <1>5, <2>1
    <2>3. QED
        BY <1>1, <1>2, <1>5, <2>1, <2>2
<1>6. QED
    BY <1>3, <1>4, <1>5, BookingSteps

\* What one committed booking adds.
LEMMA BookedRows ==
    ASSUME TypeOK, BookingsCheck, NEW c \in Callers, Book(c), rows' # rows
    PROVE  \E b \in Batches \ issued :
              /\ rows' = rows \cup Inserted(call[c], b)
              /\ issued' = issued \cup {b}
              /\ \A r \in Inserted(call[c], b) :
                    /\ r.dev \in Adopted /\ r.batch = b /\ r.user = call[c].user
                    /\ r.created = call[c].at /\ r.renewed = call[c].at
              /\ call[c].at \in Nat
              /\ call[c].at <= now
<1>1. PICK b \in Batches \ issued : /\ rows' = rows \cup Inserted(call[c], b)
                                    /\ issued' = issued \cup {b}
    BY DEF Book
<1>2. /\ call[c].op = "book" /\ call[c].unread = {}
      /\ call[c].at \in Nat
    BY DEF Book, TypeOK
<1>3. call[c].devs \subseteq Adopted /\ call[c].at <= now
    BY <1>2 DEF BookingsCheck
<1>4. \A r \in Inserted(call[c], b) :
            /\ r.dev \in Adopted /\ r.batch = b /\ r.user = call[c].user
            /\ r.created = call[c].at /\ r.renewed = call[c].at
    BY <1>3 DEF Inserted
<1>5. QED
    BY <1>1, <1>2, <1>3, <1>4

\* What a renewal leaves of a row: everything but its time stamp, which is its
\* old one or the present.
LEMMA RenewedRow ==
    ASSUME TypeOK, NEW S \in SUBSET rows, NEW r \in Renewed(S)
    PROVE  \E q \in rows : /\ r.dev = q.dev /\ r.user = q.user /\ r.batch = q.batch
                           /\ r.created = q.created
                           /\ r.renewed \in {q.renewed, now}
<1>1. PICK q \in rows : /\ r.dev = q.dev /\ r.user = q.user /\ r.batch = q.batch
                        /\ r = IF q \in S THEN [q EXCEPT !.renewed = now] ELSE q
    BY RenewedRows
<1>2. q \in Row
    BY DEF TypeOK
<1>3. r.created = q.created /\ r.renewed \in {q.renewed, now}
    BY <1>1, <1>2
<1>4. QED
    BY <1>1, <1>3

\* Every row of the next table is new, or it is an old row, perhaps renewed.
LEMMA WhereRowsComeFrom ==
    ASSUME TypeOK, BookingsCheck, [Next]_vars
    PROVE  \/ \E c \in Callers : Book(c) /\ rows' # rows
           \/ /\ issued \subseteq issued'
              /\ \A r \in rows' : \E q \in rows :
                    /\ r.dev = q.dev /\ r.user = q.user /\ r.batch = q.batch
                    /\ r.created = q.created
                    /\ r.renewed \in {q.renewed, now}
<1> DEFINE Old == \A r \in rows' : \E q \in rows :
                    /\ r.dev = q.dev /\ r.user = q.user /\ r.batch = q.batch
                    /\ r.created = q.created
                    /\ r.renewed \in {q.renewed, now}
<1>1. ASSUME rows' \subseteq rows
      PROVE  Old
    BY <1>1
<1>2. ASSUME NEW S \in SUBSET rows, rows' = Renewed(S)
      PROVE  Old
    BY <1>2, RenewedRow
<1>3. ASSUME NEW c \in Callers, NEW d \in Devices, ReleaseNext(c, d)
      PROVE  rows' \subseteq rows
    BY <1>3, EndLeaseRows DEF ReleaseNext
<1>4. ASSUME NEW d \in Devices, ReapNext(d)
      PROVE  rows' \subseteq rows
    BY <1>4, EndLeaseRows DEF ReapNext
<1>5. (\E c \in Callers : Book(c) /\ rows' # rows) \/ Old
    BY <1>1, <1>2, <1>3, <1>4, RowSteps
<1>6. issued \subseteq issued'
    <2>1. ASSUME NEW c \in Callers, NEW u, NEW b, NEW admin, ReleaseBatch(c, u, b, admin)
          PROVE  issued' = issued
        BY <2>1 DEF ReleaseBatch
    <2>2. QED
        BY <2>1
        DEF Next, vars, Reserve, ReserveMany, CheckDevice, Book, Heartbeat,
            HeartbeatBatch, Release, ReleaseNext, ReapSelect, ReapNext,
            SetDeviceStatus, Tick, Restart
<1>7. QED
    BY <1>5, <1>6

LEMMA RowsAreSoundStep ==
    ASSUME TypeOK, BookingsCheck, RowsAreSound, [Next]_vars
    PROVE  RowsAreSound'
<1> SUFFICES ASSUME NEW r \in rows'
             PROVE  /\ r.dev \in Adopted
                    /\ r.batch \in issued'
                    /\ r.created <= r.renewed
                    /\ r.renewed <= now'
    BY DEF RowsAreSound
<1>1. now \in Nat /\ now' \in Nat /\ now <= now'
    BY ClockAdvances DEF TypeOK
<1>2. ASSUME NEW q \in rows
      PROVE  /\ q.created \in Nat /\ q.renewed \in Nat
             /\ q.dev \in Adopted /\ q.batch \in issued
             /\ q.created <= q.renewed /\ q.renewed <= now
    BY DEF TypeOK, RowsAreSound
<1>3. ASSUME NEW c \in Callers, Book(c), rows' # rows
      PROVE  /\ r.dev \in Adopted
             /\ r.batch \in issued'
             /\ r.created <= r.renewed
             /\ r.renewed <= now'
    <2>1. PICK b \in Batches \ issued :
              /\ rows' = rows \cup Inserted(call[c], b)
              /\ issued' = issued \cup {b}
              /\ \A s \in Inserted(call[c], b) :
                    /\ s.dev \in Adopted /\ s.batch = b
                    /\ s.created = call[c].at /\ s.renewed = call[c].at
              /\ call[c].at \in Nat
              /\ call[c].at <= now
        BY <1>3, BookedRows
    <2>2. CASE r \in rows
        BY <1>1, <1>2, <2>1, <2>2
    <2>3. CASE r \in Inserted(call[c], b)
        BY <1>1, <2>1, <2>3
    <2>4. QED
        BY <2>1, <2>2, <2>3
<1>4. ASSUME issued \subseteq issued', NEW q \in rows, r.dev = q.dev, r.batch = q.batch,
             r.created = q.created, r.renewed \in {q.renewed, now}
      PROVE  /\ r.dev \in Adopted
             /\ r.batch \in issued'
             /\ r.created <= r.renewed
             /\ r.renewed <= now'
    BY <1>1, <1>2, <1>4
<1>5. QED
    BY <1>3, <1>4, WhereRowsComeFrom

LEMMA BookedTogetherStep ==
    ASSUME TypeOK, BookingInv, [Next]_vars
    PROVE  BookedTogether'
<1> SUFFICES ASSUME NEW r \in rows', NEW s \in rows', r.batch = s.batch
             PROVE  r.user = s.user /\ r.created = s.created
    BY DEF BookedTogether
<1>1. ASSUME NEW c \in Callers, Book(c), rows' # rows
      PROVE  r.user = s.user /\ r.created = s.created
    <2>1. PICK b \in Batches \ issued :
              /\ rows' = rows \cup Inserted(call[c], b)
              /\ \A q \in Inserted(call[c], b) :
                    /\ q.batch = b /\ q.user = call[c].user
                    /\ q.created = call[c].at
        BY <1>1, BookedRows DEF BookingInv
    <2>2. \A q \in rows : q.batch # b
        BY DEF BookingInv, RowsAreSound
    <2>3. QED
        BY <2>1, <2>2 DEF BookingInv, BookedTogether
<1>2. ASSUME \A p \in rows' : \E q \in rows : /\ p.user = q.user /\ p.batch = q.batch
                                              /\ p.created = q.created
      PROVE  r.user = s.user /\ r.created = s.created
    BY <1>2 DEF BookingInv, BookedTogether
<1>3. QED
    <2>1. CASE \E c \in Callers : Book(c) /\ rows' # rows
        BY <1>1, <2>1
    <2>2. CASE ~\E c \in Callers : Book(c) /\ rows' # rows
        <3>1. \A p \in rows' : \E q \in rows : /\ p.user = q.user /\ p.batch = q.batch
                                               /\ p.created = q.created
            BY <2>2, WhereRowsComeFrom DEF BookingInv
        <3>2. QED
            BY <1>2, <3>1
    <2>3. QED
        BY <2>1, <2>2

LEMMA BookingStep == TypeOK /\ BookingInv /\ [Next]_vars => BookingInv'
BY BookingsCheckStep, RowsAreSoundStep, BookedTogetherStep DEF BookingInv

\* A device is reserved only if a booking read it as connected (the status is
\* read before the transaction, and not again in it), one batch id stands for
\* one booking of one user, and the times of a row are in order: what a release
\* or a renewal "of the batch" touches is one user's one booking.
THEOREM ReservationsAreSound == Spec => [](RowsAreSound /\ BookedTogether)
<1>1. BookingInv => RowsAreSound /\ BookedTogether
    BY DEF BookingInv
<1>2. QED
    BY <1>1, BookingInit, BookingStep, TypeCorrect, PTL DEF Spec

-----------------------------------------------------------------------------
(* Renewals and the cap                                                    *)

\* A step that leaves a lease of a device under the same batch id leaves the time
\* it was created, from which the cap counts, and never sets its renewal back.
RenewalsKeepTheCap ==
    \A r \in rows, s \in rows' :
        r.dev = s.dev /\ r.batch = s.batch =>
            s.created = r.created /\ s.renewed >= r.renewed

\* No heartbeat, of one device or of a batch, moves the cap of a lease, and no
\* later booking of the device can be taken for an earlier one: its batch id is
\* another.
THEOREM HeartbeatsKeepTheCap == Spec => [][RenewalsKeepTheCap]_vars
<1>1. ASSUME TypeOK, OneLeasePerDevice, BookingInv, [Next]_vars
      PROVE  RenewalsKeepTheCap
    <2> SUFFICES ASSUME NEW r \in rows, NEW s \in rows',
                        r.dev = s.dev, r.batch = s.batch
                 PROVE  s.created = r.created /\ s.renewed >= r.renewed
        BY DEF RenewalsKeepTheCap
    <2>1. r.renewed \in Nat /\ now \in Nat /\ r.renewed <= now
        BY <1>1 DEF TypeOK, BookingInv, RowsAreSound
    <2>2. ASSUME NEW c \in Callers, Book(c), rows' # rows
          PROVE  s = r
        <3>1. PICK b \in Batches \ issued :
                  /\ rows' = rows \cup Inserted(call[c], b)
                  /\ \A q \in Inserted(call[c], b) : q.batch = b
            BY <1>1, <2>2, BookedRows DEF BookingInv
        <3>2. r.batch # b
            BY <1>1 DEF BookingInv, RowsAreSound
        <3>3. QED
            BY <1>1, <3>1, <3>2 DEF OneLeasePerDevice
    <2>3. ASSUME NEW q \in rows, s.dev = q.dev, s.created = q.created,
                 s.renewed \in {q.renewed, now}
          PROVE  s.created = r.created /\ s.renewed >= r.renewed
        <3>1. q = r
            BY <1>1, <2>3 DEF OneLeasePerDevice
        <3>2. QED
            BY <2>1, <2>3, <3>1
    <2>4. s = r => s.created = r.created /\ s.renewed >= r.renewed
        BY <2>1
    <2>5. QED
        <3>1. CASE \E c \in Callers : Book(c) /\ rows' # rows
            BY <2>2, <2>4, <3>1
        <3>2. CASE ~\E c \in Callers : Book(c) /\ rows' # rows
            <4>1. \E q \in rows : /\ s.dev = q.dev /\ s.created = q.created
                                  /\ s.renewed \in {q.renewed, now}
                BY <1>1, <3>2, WhereRowsComeFrom DEF BookingInv
            <4>2. QED
                BY <2>3, <4>1
        <3>3. QED
            BY <3>1, <3>2
<1>2. TypeOK /\ OneLeasePerDevice /\ BookingInv /\ [Next]_vars
        => [RenewalsKeepTheCap]_vars
    BY <1>1
<1>3. QED
    BY <1>2, BookingInit, BookingStep, TypeCorrect, ExclusiveLease, PTL DEF Spec

-----------------------------------------------------------------------------
(* The status of a device and its lease                                    *)

\* What a step of the program may do to the status of a device: a lease begins
\* by writing "reserved" over whatever is there, it ends by giving back a status
\* that still says held and nothing else, and a step that does neither leaves
\* the status alone or is a write of somebody who does not look at leases.
StatusFollowsLease(d) ==
    /\ Taken(d)' /\ ~Taken(d) => status'[d] = "reserved"
    /\ ~Taken(d)' /\ Taken(d) =>
            status'[d] = IF status[d] \in HeldStatuses THEN "free" ELSE status[d]
    /\ (Taken(d)' <=> Taken(d)) =>
            \/ status'[d] = status[d]
            \/ \E s \in WrittenStatuses : SetDeviceStatus(d, s)

\* A release of a device writes its status exactly when it ends its lease.
LEMMA EndLeaseStatus ==
    ASSUME TypeOK, OneLeasePerDevice, NEW d \in Devices, NEW u, NEW admin,
           EndLease(d, u, admin), NEW e \in Devices
    PROVE  /\ Taken(e)' => Taken(e)
           /\ ~Taken(e)' /\ Taken(e) =>
                  status'[e] = IF status[e] \in HeldStatuses THEN "free" ELSE status[e]
           /\ (Taken(e)' <=> Taken(e)) => status'[e] = status[e]
<1> DEFINE hit == {r \in rows : r.dev = d /\ (admin \/ r.user = u)}
<1>1. /\ rows' = rows \ hit
      /\ status' = IF hit # {} /\ status[d] \in HeldStatuses
                   THEN [status EXCEPT ![d] = "free"] ELSE status
    BY DEF EndLease
<1>2. Taken(e)' => Taken(e)
    BY <1>1 DEF Taken
<1>3. CASE hit = {}
    <2>1. rows' = rows /\ status' = status
        BY <1>1, <1>3
    <2>2. QED
        BY <2>1 DEF Taken
<1>4. CASE hit # {}
    <2>1. PICK r \in rows : r \in hit /\ r.dev = d
        BY <1>4
    <2>2. \A s \in rows : s.dev = d => s = r
        BY <2>1 DEF OneLeasePerDevice
    <2>3. Taken(d) /\ ~Taken(d)'
        BY <1>1, <2>1, <2>2 DEF Taken
    <2>4. e # d => (Taken(e)' <=> Taken(e)) /\ status'[e] = status[e]
        BY <1>1 DEF Taken, TypeOK
    <2>5. status'[d] = IF status[d] \in HeldStatuses THEN "free" ELSE status[d]
        BY <1>1, <1>4 DEF TypeOK
    <2>6. QED
        BY <1>2, <2>3, <2>4, <2>5
<1>5. QED
    BY <1>3, <1>4

\* A step that writes neither table leaves every status; the others are the
\* bookings, the releases, the renewals and the writes from outside.
LEMMA StatusWriters ==
    ASSUME [Next]_vars
    PROVE  \/ status' = status /\ rows' = rows
           \/ \E c \in Callers : Book(c)
           \/ \E S \in SUBSET rows : rows' = Renewed(S) /\ status' = status
           \/ \E c \in Callers, d \in Devices : ReleaseNext(c, d)
           \/ \E d \in Devices : ReapNext(d)
           \/ \E d \in Devices, s \in WrittenStatuses : SetDeviceStatus(d, s)
<1>1. ASSUME NEW u \in Users, NEW d \in Devices, Heartbeat(u, d)
      PROVE  \E S \in SUBSET rows : rows' = Renewed(S) /\ status' = status
    BY <1>1 DEF Heartbeat
<1>2. ASSUME NEW u \in Users, NEW b \in Batches \cup {"mine"}, HeartbeatBatch(u, b)
      PROVE  \E S \in SUBSET rows : rows' = Renewed(S) /\ status' = status
    BY <1>2 DEF HeartbeatBatch, BatchRows
<1>3. ASSUME NEW c \in Callers, NEW u, NEW b, NEW admin, ReleaseBatch(c, u, b, admin)
      PROVE  status' = status /\ rows' = rows
    BY <1>3 DEF ReleaseBatch
<1>4. QED
    BY <1>1, <1>2, <1>3
    DEF Next, vars, Reserve, ReserveMany, CheckDevice, Release, ReapSelect, Tick, Restart

\* The two columns that say whether a device is in use are written together: a
\* lease never begins or ends without the status the pool relies on, and the end
\* of a lease never overwrites what the poller found in the meantime.
THEOREM StatusFollowsLeases ==
    Spec => [][\A d \in Devices : StatusFollowsLease(d)]_vars
<1>1. ASSUME TypeOK, OneLeasePerDevice, [Next]_vars, NEW e \in Devices
      PROVE  StatusFollowsLease(e)
    <2>1. CASE status' = status /\ rows' = rows
        BY <2>1 DEF StatusFollowsLease, Taken
    <2>2. ASSUME NEW c \in Callers, Book(c)
          PROVE  StatusFollowsLease(e)
        <3>1. CASE rows' = rows /\ status' = status
            BY <3>1 DEF StatusFollowsLease, Taken
        <3>2. CASE ~(rows' = rows /\ status' = status)
            <4>1. PICK b \in Batches \ issued : rows' = rows \cup Inserted(call[c], b)
                BY <2>2, <3>2 DEF Book
            <4>2. status' = [d \in Devices |->
                                IF d \in call[c].devs THEN "reserved" ELSE status[d]]
                BY <2>2, <3>2 DEF Book
            <4>3. CASE e \in call[c].devs
                <5>1. ~Taken(e)
                    BY <2>2, <3>2, <4>3 DEF Book
                <5>2. Taken(e)'
                    BY <4>1, <4>3, InsertedRows DEF Taken
                <5>3. QED
                    BY <4>2, <4>3, <5>1, <5>2 DEF StatusFollowsLease
            <4>4. CASE e \notin call[c].devs
                <5>1. Taken(e)' <=> Taken(e)
                    BY <4>1, <4>4, InsertedRows DEF Taken
                <5>2. QED
                    BY <4>2, <4>4, <5>1 DEF StatusFollowsLease
            <4>5. QED
                BY <4>3, <4>4
        <3>3. QED
            BY <3>1, <3>2
    <2>3. ASSUME NEW S \in SUBSET rows, rows' = Renewed(S), status' = status
          PROVE  StatusFollowsLease(e)
        <3>1. Taken(e)' <=> Taken(e)
            BY <1>1, <2>3, RenewedRows DEF Taken
        <3>2. QED
            BY <2>3, <3>1 DEF StatusFollowsLease
    <2>4. ASSUME NEW c \in Callers, NEW d \in Devices, ReleaseNext(c, d)
          PROVE  StatusFollowsLease(e)
        <3>1. EndLease(d, call[c].user, call[c].admin)
            BY <2>4 DEF ReleaseNext
        <3>2. QED
            BY <1>1, <3>1, EndLeaseStatus DEF StatusFollowsLease
    <2>5. ASSUME NEW d \in Devices, ReapNext(d)
          PROVE  StatusFollowsLease(e)
        <3>1. PICK u \in Users : EndLease(d, u, TRUE)
            BY <2>5 DEF ReapNext
        <3>2. QED
            BY <1>1, <3>1, EndLeaseStatus DEF StatusFollowsLease
    <2>6. ASSUME NEW d \in Devices, NEW s \in WrittenStatuses, SetDeviceStatus(d, s)
          PROVE  StatusFollowsLease(e)
        <3>1. Taken(e)' <=> Taken(e)
            BY <2>6 DEF SetDeviceStatus, Taken
        <3>2. CASE d = e
            BY <2>6, <3>1, <3>2 DEF StatusFollowsLease
        <3>3. CASE d # e
            <4>1. status'[e] = status[e]
                BY <1>1, <2>6, <3>3 DEF SetDeviceStatus, TypeOK
            <4>2. QED
                BY <3>1, <4>1 DEF StatusFollowsLease
        <3>4. QED
            BY <3>2, <3>3
    <2>7. QED
        BY <1>1, <2>1, <2>2, <2>3, <2>4, <2>5, <2>6, StatusWriters
<1>2. TypeOK /\ OneLeasePerDevice /\ [Next]_vars
        => [\A d \in Devices : StatusFollowsLease(d)]_vars
    BY <1>1
<1>3. QED
    BY <1>2, TypeCorrect, ExclusiveLease, PTL DEF Spec
=============================================================================
