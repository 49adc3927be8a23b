---------------------------- MODULE Reservations ----------------------------
(***************************************************************************)
(* The reservation service: internal/reserve/reserve.go over the tables    *)
(* `reservations` and `devices` of internal/store/schema.sql.              *)
(*                                                                         *)
(* Every SQL statement or transaction is one step (store.Open allows one   *)
(* connection, so they are serialised), and what an operation does in      *)
(* several statements it does in several steps: a booking reads the status *)
(* of each device before its transaction, ReleaseBatch and ReapExpired     *)
(* select first and release the devices one at a time afterwards.          *)
(*                                                                         *)
(* devices.status belongs to nobody: the poller, the installers and the    *)
(* runner overwrite it without a condition (store.SetDeviceStatus).  Here  *)
(* it may change to anything at any moment, so what is checked about       *)
(* leases does not rest on it.                                             *)
(***************************************************************************)
EXTENDS Naturals, FiniteSets

CONSTANTS
    Devices,
    Adopted,        \* the devices connected to the farm; the others are candidates
    Users,
    Nobody,         \* the refinement's name for "no holder"
    Callers,        \* goroutines that serve requests (API, MCP, the runner)
    Batches,        \* batch ids newBatchID may draw: bounds the number of bookings
    WrittenStatuses,\* what the rest of the program writes into devices.status
    IdleTimeout,
    MaxLease,
    MaxTime,        \* bound on the clock
    MaxRestarts     \* bound on the number of times the process dies

HeldStatuses == {"reserved", "busy", "running"}
Statuses == HeldStatuses \cup
            {"offline", "unauthorized", "free", "degraded", "maintenance"}

ASSUME ReservationsAssumption ==
    /\ Adopted \subseteq Devices
    /\ Nobody \notin Users
    /\ WrittenStatuses \subseteq Statuses
    /\ IdleTimeout \in Nat
    /\ MaxLease \in Nat
    /\ MaxTime \in Nat
    /\ MaxRestarts \in Nat

VARIABLES
    status,     \* devices.status
    rows,       \* the rows of `reservations` with released = 0
    issued,     \* batch ids drawn so far
    call,       \* call[c]: what request c still has to do
    reap,       \* devices ReapExpired selected and has not released yet
    now,
    restarts

vars == <<status, rows, issued, call, reap, now, restarts>>

Row == [dev : Devices, user : Users, batch : Batches, created : Nat, renewed : Nat]

\* A booking that is still reading devices, or about to open its transaction
\* (unread = {}); a release that still has to visit the devices in todo.
Idle == [op |-> "idle"]
Booking == [op : {"book"}, user : Users, devs : (SUBSET Devices) \ {{}},
            unread : SUBSET Devices, at : Nat]
Ending == [op : {"end"}, user : Users, admin : BOOLEAN, todo : (SUBSET Devices) \ {{}}]

TypeOK ==
    /\ status \in [Devices -> Statuses]
    /\ rows \subseteq Row
    /\ issued \subseteq Batches
    /\ call \in [Callers -> {Idle} \cup Booking \cup Ending]
    /\ reap \subseteq Devices
    /\ now \in Nat
    /\ restarts \in Nat

Init ==
    /\ status = [d \in Devices |-> "free"]
    /\ rows = {}
    /\ issued = {}
    /\ call = [c \in Callers |-> Idle]
    /\ reap = {}
    /\ now = 0
    /\ restarts = 0

-----------------------------------------------------------------------------
(* Booking                                                                 *)

Bookable(d) == d \in Adopted /\ status[d] = "free"

\* The unique partial index over the active rows.  (Variant: the status column
\* is trusted instead of an index.)
Taken_StatusOnly(d) == status[d] \in HeldStatuses
Taken(d) == \E r \in rows : r.dev = d

\* Reserve up to its transaction: one read decides, then the clock is taken.
Reserve(c, u, d) ==
    /\ call[c] = Idle
    /\ Bookable(d)
    /\ call' = [call EXCEPT ![c] = [op |-> "book", user |-> u, devs |-> {d},
                                    unread |-> {}, at |-> now]]
    /\ UNCHANGED <<status, rows, issued, reap, now, restarts>>

\* ReserveMany takes the clock first and then reads the devices one by one.
ReserveMany(c, u, D) ==
    /\ call[c] = Idle
    /\ call' = [call EXCEPT ![c] = [op |-> "book", user |-> u, devs |-> D,
                                    unread |-> D, at |-> now]]
    /\ UNCHANGED <<status, rows, issued, reap, now, restarts>>

CheckDevice(c, d) ==
    /\ call[c].op = "book"
    /\ d \in call[c].unread
    /\ call' = [call EXCEPT ![c] = IF Bookable(d)
                                   THEN [call[c] EXCEPT !.unread = @ \ {d}]
                                   ELSE Idle]
    /\ UNCHANGED <<status, rows, issued, reap, now, restarts>>

Inserted(req, b) ==
    {[dev |-> d, user |-> req.user, batch |-> b, created |-> req.at, renewed |-> req.at] :
        d \in req.devs}

\* Variant: no transaction, the devices that are still unheld are booked.
Book_Partial(c) ==
    /\ call[c].op = "book"
    /\ call[c].unread = {}
    /\ \E b \in Batches \ issued :
          /\ rows' = rows \cup {r \in Inserted(call[c], b) : ~Taken(r.dev)}
          /\ issued' = issued \cup {b}
    /\ status' = [d \in Devices |-> IF d \in call[c].devs THEN "reserved" ELSE status[d]]
    /\ call' = [call EXCEPT ![c] = Idle]
    /\ UNCHANGED <<reap, now, restarts>>

\* Variant: INSERT OR REPLACE, the new booking takes the device over.
Book_Replace(c) ==
    /\ call[c].op = "book"
    /\ call[c].unread = {}
    /\ \E b \in Batches \ issued :
          /\ rows' = {r \in rows : r.dev \notin call[c].devs} \cup Inserted(call[c], b)
          /\ issued' = issued \cup {b}
    /\ status' = [d \in Devices |-> IF d \in call[c].devs THEN "reserved" ELSE status[d]]
    /\ call' = [call EXCEPT ![c] = Idle]
    /\ UNCHANGED <<reap, now, restarts>>

\* The transaction: every INSERT passes the unique index, or it is rolled back.
Book(c) ==
    /\ call[c].op = "book"
    /\ call[c].unread = {}
    /\ \/ /\ \A d \in call[c].devs : ~Taken(d)
          /\ \E b \in Batches \ issued :
                /\ rows' = rows \cup Inserted(call[c], b)
                /\ issued' = issued \cup {b}
          /\ status' = [d \in Devices |->
                            IF d \in call[c].devs THEN "reserved" ELSE status[d]]
       \/ /\ \E d \in call[c].devs : Taken(d)
          /\ UNCHANGED <<status, rows, issued>>
    /\ call' = [call EXCEPT ![c] = Idle]
    /\ UNCHANGED <<reap, now, restarts>>

-----------------------------------------------------------------------------
(* Renewal                                                                 *)

Renewed(S) == (rows \ S) \cup {[r EXCEPT !.renewed = now] : r \in S}

\* One UPDATE; no row of the caller's matches: ErrNotHolder and no change.
Heartbeat(u, d) ==
    /\ rows' = Renewed({r \in rows : r.dev = d /\ r.user = u})
    /\ UNCHANGED <<status, issued, call, reap, now, restarts>>

\* The rows a batch id stands for: "mine" is every row of the user.
BatchRows(b, u) == {r \in rows : r.user = u /\ (b = "mine" \/ r.batch = b)}

HeartbeatBatch(u, b) ==
    /\ rows' = Renewed(BatchRows(b, u))
    /\ UNCHANGED <<status, issued, call, reap, now, restarts>>

-----------------------------------------------------------------------------
(* Release                                                                 *)

\* Variant: the holder is not part of the UPDATE's condition.
EndLease_AnyHolder(d, u, admin) ==
    LET hit == {r \in rows : r.dev = d}
    IN  /\ rows' = rows \ hit
        /\ status' = IF hit # {} /\ status[d] \in HeldStatuses
                     THEN [status EXCEPT ![d] = "free"] ELSE status

\* Release(d, u, admin), one transaction: end the active row of the device and
\* give the device back if its status still says it is held.
EndLease(d, u, admin) ==
    LET hit == {r \in rows : r.dev = d /\ (admin \/ r.user = u)}
    IN  /\ rows' = rows \ hit
        /\ status' = IF hit # {} /\ status[d] \in HeldStatuses
                     THEN [status EXCEPT ![d] = "free"] ELSE status

\* A user releases one device.
Release(c, u, d) ==
    /\ call[c] = Idle
    /\ call' = [call EXCEPT ![c] = [op |-> "end", user |-> u, admin |-> FALSE,
                                    todo |-> {d}]]
    /\ UNCHANGED <<status, rows, issued, reap, now, restarts>>

\* The SELECT of ReleaseBatch.  As admin (the runner, for its own batch) the
\* rows of the batch are looked up without the user when none is the user's.
ReleaseBatch(c, u, b, admin) ==
    LET mine == BatchRows(b, u)
        ids == {r.dev : r \in IF admin /\ mine = {}
                              THEN {r \in rows : r.batch = b} ELSE mine}
    IN  /\ call[c] = Idle
        /\ ids # {}
        /\ call' = [call EXCEPT ![c] = [op |-> "end", user |-> u, admin |-> admin,
                                        todo |-> ids]]
        /\ UNCHANGED <<status, rows, issued, reap, now, restarts>>

\* Variant: the loop never ends.
ReleaseNext_NoReturn(c, d) ==
    /\ call[c].op = "end"
    /\ d \in call[c].todo
    /\ EndLease(d, call[c].user, call[c].admin)
    /\ call' = [call EXCEPT ![c].todo = @ \ {d}]
    /\ UNCHANGED <<issued, reap, now, restarts>>

\* One iteration of its loop; the error of Release is dropped.
ReleaseNext(c, d) ==
    /\ call[c].op = "end"
    /\ d \in call[c].todo
    /\ EndLease(d, call[c].user, call[c].admin)
    /\ call' = [call EXCEPT ![c] = IF call[c].todo = {d} THEN Idle
                                   ELSE [call[c] EXCEPT !.todo = @ \ {d}]]
    /\ UNCHANGED <<issued, reap, now, restarts>>

-----------------------------------------------------------------------------
(* Expiry: reapLoop calls ReapExpired every minute, from one goroutine.    *)

Expired(r) == r.created + MaxLease < now
\* Variant: only the idle timeout counts.
Stale_IdleOnly(r) == r.renewed + IdleTimeout < now
Stale(r) == r.renewed + IdleTimeout < now \/ Expired(r)

ReapSelect ==
    /\ reap = {}
    /\ reap' = {r.dev : r \in {s \in rows : Stale(s)}}
    /\ UNCHANGED <<status, rows, issued, call, now, restarts>>

\* Released as admin: whoever holds the device by now loses it.
ReapNext(d) ==
    /\ d \in reap
    /\ \E u \in Users : EndLease(d, u, TRUE)
    /\ reap' = reap \ {d}
    /\ UNCHANGED <<issued, call, now, restarts>>

-----------------------------------------------------------------------------
(* The rest of the program, the clock, and the end of the process.         *)

SetDeviceStatus(d, s) ==
    /\ status' = [status EXCEPT ![d] = s]
    /\ UNCHANGED <<rows, issued, call, reap, now, restarts>>

Tick ==
    /\ now < MaxTime
    /\ now' = now + 1
    /\ UNCHANGED <<status, rows, issued, call, reap, restarts>>

\* The process dies between two steps: only the database survives.
Restart ==
    /\ restarts < MaxRestarts
    /\ restarts' = restarts + 1
    /\ call' = [c \in Callers |-> Idle]
    /\ reap' = {}
    /\ UNCHANGED <<status, rows, issued, now>>

Next ==
    \/ \E c \in Callers, u \in Users, d \in Devices : Reserve(c, u, d)
    \/ \E c \in Callers, u \in Users, D \in (SUBSET Devices) \ {{}} : ReserveMany(c, u, D)
    \/ \E c \in Callers, d \in Devices : CheckDevice(c, d)
    \/ \E c \in Callers : Book(c)
    \/ \E u \in Users, d \in Devices : Heartbeat(u, d)
    \/ \E u \in Users, b \in Batches \cup {"mine"} : HeartbeatBatch(u, b)
    \/ \E c \in Callers, u \in Users, d \in Devices : Release(c, u, d)
    \/ \E c \in Callers, u \in Users, b \in Batches \cup {"mine"} :
            ReleaseBatch(c, u, b, FALSE)
    \/ \E c \in Callers, r \in rows : ReleaseBatch(c, r.user, r.batch, TRUE)
    \/ \E c \in Callers, d \in Devices : ReleaseNext(c, d)
    \/ ReapSelect
    \/ \E d \in Devices : ReapNext(d)
    \/ \E d \in Devices, s \in WrittenStatuses : SetDeviceStatus(d, s)
    \/ Tick
    \/ Restart

\* The reaper runs for as long as the process does (main.go starts it once).
Fairness ==
    /\ WF_vars(ReapSelect)
    /\ \A d \in Devices : WF_vars(ReapNext(d))

Spec == Init /\ [][Next]_vars /\ Fairness

-----------------------------------------------------------------------------
(* Properties                                                              *)

\* Two bookings that both read "free" before either inserted, and any write to
\* devices.status in between, still leave at most one active reservation per
\* device (reserve.go: "one active holder per device").
OneLeasePerDevice ==
    \A r, s \in rows : r.dev = s.dev => r = s

\* A booking is atomic ("if any is unavailable, nothing is reserved"): the
\* rows one step adds are exactly the devices of one request, for its user,
\* under a batch id no other booking has.
AllOrNothing ==
    [][LET new == {r \in rows' : ~Taken(r.dev)}
       IN  new # {} =>
            \E c \in Callers, b \in Batches \ issued :
                /\ call[c].op = "book"
                /\ {r.dev : r \in new} = call[c].devs
                /\ \A r \in new : r.batch = b /\ r.user = call[c].user]_vars

\* A lease ends only by a request of its own holder, by the runner's release of
\* a batch, or by a reaper pass that had found a lease of that device stale:
\* the list ReleaseBatch took may be old when its loop reaches a device, which
\* somebody else may hold by then.
NoForeignRelease ==
    [][\A r \in rows : (\A s \in rows' : s.dev # r.dev) =>
            \/ \E c \in Callers : /\ call[c].op = "end"
                                  /\ call'[c] # call[c]
                                  /\ r.dev \in call[c].todo
                                  /\ call[c].admin \/ call[c].user = r.user
            \/ r.dev \in reap \ reap']_vars

\* The hard cap: a lease older than maxLease ends, however often its holder (or
\* the run that renews its batch) sends heartbeats, and even if the process
\* dies in the middle of a pass.
CapEnforced ==
    \A d \in Devices, b \in Batches :
        (\E r \in rows : r.dev = d /\ r.batch = b /\ r.created + MaxLease < now)
            ~> ~\E r \in rows : r.dev = d /\ r.batch = b

\* The holder of a device as /api/devices reports it.
HolderIn(R, d) == IF \E r \in R : r.dev = d THEN (CHOOSE r \in R : r.dev = d).user
                  ELSE Nobody
holder == [d \in Devices |-> HolderIn(rows, d)]

Promise == INSTANCE Lease WITH Devices <- Devices, Users <- Users, Nobody <- Nobody,
                             holder <- holder

\* Reservations implements Lease: bookings of several devices take effect at
\* once, and a device is never handed from one user to another in one step.
ImplementsLease == Promise!Spec
=============================================================================
