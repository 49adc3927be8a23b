------------------------------ MODULE Tunnels ------------------------------
(***************************************************************************)
(* The personal adb tunnels: one TCP port per developer on which `adb      *)
(* devices` shows the Android phones that developer holds and no others.   *)
(* Requests and the minute sweep bring the list of a tunnel up to date     *)
(* (internal/api/debugtunnel.go), in several statements each, while leases *)
(* come and go; the ports are rows of adb_tunnel_ports                     *)
(* (internal/store/adbtunnel.go) and the listeners are in memory           *)
(* (internal/adbfilter).                                                   *)
(*                                                                         *)
(* Leases are as Lease promises them.  The reads of the database succeed,  *)
(* and no other program listens on the ports of the range.                 *)
(***************************************************************************)
EXTENDS Naturals, FiniteSets

CONSTANTS
    Devices,        \* the Android devices
    Users,
    Callers,        \* requests that may be served at the same time
    Sweeper,        \* the goroutine of the minute sweep
    Nobody,         \* the holder of no lease
    Ports,          \* the configured range
    MaxCrashes      \* bound on the number of times the process dies

ASSUME TunnelsAssumption ==
    /\ Nobody \notin Users
    /\ Sweeper \notin Callers
    /\ Ports \subseteq Nat \ {0}
    /\ MaxCrashes \in Nat

VARIABLES
    lease,      \* lease[d]: the user who holds device d
    port,       \* port[u]: the port in the row of user u
    listening,  \* listening[u]: the port u's listener is open on
    allowed,    \* allowed[u]: the devices u's tunnel shows
    proc,       \* proc[p]: the request or the sync that p is in
    sweep,      \* the rest of a sweep: the users it still has to sync
    serving,    \* has the startup sweep ended?
    crashes

vars == <<lease, port, listening, allowed, proc, sweep, serving, crashes>>

Procs == Callers \cup {Sweeper}
NoPort == 0
Held(u) == {d \in Devices : lease[d] = u}

\* todo: the devices a batch release has still to give back; unread: the
\* devices whose holder is still to be read; seen: those found to be u's;
\* info: is it the setup page, which opens the tunnel and leaves its list alone?
Request(pc, u, todo, unread, info) ==
    [pc |-> pc, user |-> u, todo |-> todo, unread |-> unread, seen |-> {},
     port |-> NoPort, info |-> info]
Idle == Request("idle", Nobody, {}, {}, FALSE)
Sync(u) == Request("read", u, {}, Devices, FALSE)

NoSweep == [pc |-> "idle", todo |-> {}]

\* A listener is open on its user's own port, and only a listener has a list.
TypeOK ==
    /\ lease \in [Devices -> Users \cup {Nobody}]
    /\ port \in [Users -> Ports \cup {NoPort}]
    /\ listening \in [Users -> Ports \cup {NoPort}]
    /\ allowed \in [Users -> SUBSET Devices]
    /\ proc \in [Procs -> [pc : {"idle", "release", "read", "port", "pick", "insert",
                                 "listen", "apply"},
                           user : Users \cup {Nobody}, todo : SUBSET Devices,
                           unread : SUBSET Devices, seen : SUBSET Devices,
                           port : Ports \cup {NoPort}, info : BOOLEAN]]
    /\ sweep \in [pc : {"idle", "active", "users"}, todo : SUBSET Users]
    /\ serving \in BOOLEAN
    /\ crashes \in 0..MaxCrashes
    /\ \A u \in Users : /\ listening[u] \in {NoPort, port[u]}
                        /\ listening[u] = NoPort => allowed[u] = {}

Init ==
    /\ lease = [d \in Devices |-> Nobody]
    /\ port = [u \in Users |-> NoPort]
    /\ listening = [u \in Users |-> NoPort]
    /\ allowed = [u \in Users |-> {}]
    /\ proc = [p \in Procs |-> Idle]
    /\ sweep = NoSweep
    /\ serving = FALSE
    /\ crashes = 0

-----------------------------------------------------------------------------
(* The requests that sync: one device, a batch, or an agent's tool         *)

Enter(c, req) ==
    /\ serving
    /\ proc[c] = Idle
    /\ proc' = [proc EXCEPT ![c] = req]

\* A booking, of one device or of a batch; one that is refused syncs nothing.
Reserve(c, u, D) ==
    /\ Enter(c, Sync(u))
    /\ \A d \in D : lease[d] = Nobody
    /\ lease' = [d \in Devices |-> IF d \in D THEN u ELSE lease[d]]
    /\ UNCHANGED <<port, listening, allowed, sweep, serving, crashes>>

Release(c, u, d) ==
    /\ Enter(c, Sync(u))
    /\ lease[d] = u
    /\ lease' = [lease EXCEPT ![d] = Nobody]
    /\ UNCHANGED <<port, listening, allowed, sweep, serving, crashes>>

\* The devices of a batch are listed first and then released one by one.
BatchRelease(c, u, D) ==
    /\ Enter(c, Request("release", u, D, {}, FALSE))
    /\ D \subseteq Held(u)
    /\ UNCHANGED <<lease, port, listening, allowed, sweep, serving, crashes>>

ReleaseNext(c, d) ==
    /\ proc[c].pc = "release"
    /\ d \in proc[c].todo
    /\ lease' = IF lease[d] = proc[c].user THEN [lease EXCEPT ![d] = Nobody] ELSE lease
    /\ proc' = [proc EXCEPT ![c] = IF proc[c].todo = {d} THEN Sync(proc[c].user)
                                   ELSE [proc[c] EXCEPT !.todo = @ \ {d}]]
    /\ UNCHANGED <<port, listening, allowed, sweep, serving, crashes>>

\* A renewal syncs too: it heals a tunnel that died since the booking.
Heartbeat(c, u) ==
    /\ Enter(c, Sync(u))
    /\ Held(u) # {}
    /\ UNCHANGED <<lease, port, listening, allowed, sweep, serving, crashes>>

\* The one-time setup page opens the listener and shows its port.
DeviceDebugTunnelInfo(c, u) ==
    /\ Enter(c, Request("port", u, {}, {}, TRUE))
    /\ UNCHANGED <<lease, port, listening, allowed, sweep, serving, crashes>>

\* Leases also begin and end where no tunnel is synced: the runner books and
\* releases batches, the reaper ends what has expired.
Elsewhere(d) ==
    /\ \/ lease[d] = Nobody /\ \E u \in Users : lease' = [lease EXCEPT ![d] = u]
       \/ lease[d] # Nobody /\ lease' = [lease EXCEPT ![d] = Nobody]
    /\ serving
    /\ UNCHANGED <<port, listening, allowed, proc, sweep, serving, crashes>>

-----------------------------------------------------------------------------
(* syncUserTunnel                                                          *)

\* One query of the holder per device.
ReadHolder(p, d) ==
    /\ proc[p].pc = "read"
    /\ d \in proc[p].unread
    /\ proc' = [proc EXCEPT ![p] =
            [proc[p] EXCEPT !.unread = @ \ {d},
                            !.seen = IF lease[d] = proc[p].user THEN @ \cup {d} ELSE @,
                            !.pc = IF proc[p].unread = {d} THEN "port" ELSE "read"]]
    /\ UNCHANGED <<lease, port, listening, allowed, sweep, serving, crashes>>

\* TunnelPort: the row of the user, if there is one.
ReadPort(p) ==
    LET at == port[proc[p].user]
    IN  /\ proc[p].pc = "port"
        /\ proc' = [proc EXCEPT ![p] =
                [@ EXCEPT !.pc = IF at = NoPort THEN "pick" ELSE "listen", !.port = at]]
        /\ UNCHANGED <<lease, port, listening, allowed, sweep, serving, crashes>>

\* The first port no row has; none is left: the sync ends in an error.
PickPort(p) ==
    LET free == Ports \ {port[u] : u \in Users}
    IN  /\ proc[p].pc = "pick"
        /\ proc' = [proc EXCEPT ![p] =
                IF free = {} THEN Idle
                ELSE [@ EXCEPT !.pc = "insert",
                               !.port = CHOOSE n \in free : \A m \in free : n <= m]]
        /\ UNCHANGED <<lease, port, listening, allowed, sweep, serving, crashes>>

\* Mutant: the error of the INSERT is ignored.
InsertPort_Ignored(p) ==
    LET u == proc[p].user
        unique == port[u] = NoPort /\ \A v \in Users : port[v] # proc[p].port
    IN  /\ proc[p].pc = "insert"
        /\ port' = IF unique THEN [port EXCEPT ![u] = proc[p].port] ELSE port
        /\ proc' = [proc EXCEPT ![p] = [@ EXCEPT !.pc = "listen"]]
        /\ UNCHANGED <<lease, listening, allowed, sweep, serving, crashes>>

\* Mutant: INSERT OR REPLACE.
InsertPort_Replace(p) ==
    LET u == proc[p].user
    IN  /\ proc[p].pc = "insert"
        /\ port' = [v \in Users |-> IF v = u THEN proc[p].port
                                    ELSE IF port[v] = proc[p].port THEN NoPort ELSE port[v]]
        /\ proc' = [proc EXCEPT ![p] = [@ EXCEPT !.pc = "listen"]]
        /\ UNCHANGED <<lease, listening, allowed, sweep, serving, crashes>>

\* The user and the port are both unique: a row made since the reads refuses
\* the INSERT, and the sync ends in an error.
InsertPort(p) ==
    LET u == proc[p].user
        unique == port[u] = NoPort /\ \A v \in Users : port[v] # proc[p].port
    IN  /\ proc[p].pc = "insert"
        /\ port' = IF unique THEN [port EXCEPT ![u] = proc[p].port] ELSE port
        /\ proc' = [proc EXCEPT ![p] = IF unique THEN [@ EXCEPT !.pc = "listen"] ELSE Idle]
        /\ UNCHANGED <<lease, listening, allowed, sweep, serving, crashes>>

\* Ensure, under the manager's lock; a listener that is open stays as it is.
Ensure(p) ==
    LET u == proc[p].user
    IN  /\ proc[p].pc = "listen"
        /\ listening' = IF listening[u] = NoPort THEN [listening EXCEPT ![u] = proc[p].port]
                        ELSE listening
        /\ proc' = [proc EXCEPT ![p] = IF proc[p].info THEN Idle
                                       ELSE [@ EXCEPT !.pc = "apply"]]
        /\ UNCHANGED <<lease, port, allowed, sweep, serving, crashes>>

\* SetAllowed: what was read, however long ago.
SetAllowed(p) ==
    /\ proc[p].pc = "apply"
    /\ allowed' = [allowed EXCEPT ![proc[p].user] = proc[p].seen]
    /\ proc' = [proc EXCEPT ![p] = Idle]
    /\ UNCHANGED <<lease, port, listening, sweep, serving, crashes>>

-----------------------------------------------------------------------------
(* SyncADBTunnels: at startup, before any request is served, and then once *)
(* a minute.                                                               *)

\* Mutant: whoever holds no device any more is not visited.
SweepListeners_Holders ==
    /\ sweep.pc = "idle"
    /\ sweep' = [pc |-> "active", todo |-> {}]
    /\ UNCHANGED <<lease, port, listening, allowed, proc, serving, crashes>>

SweepListeners ==
    /\ sweep.pc = "idle"
    /\ sweep' = [pc |-> "active", todo |-> {u \in Users : listening[u] # NoPort}]
    /\ UNCHANGED <<lease, port, listening, allowed, proc, serving, crashes>>

SweepHolders ==
    /\ sweep.pc = "active"
    /\ sweep' = [pc |-> "users", todo |-> sweep.todo \cup {u \in Users : Held(u) # {}}]
    /\ UNCHANGED <<lease, port, listening, allowed, proc, serving, crashes>>

SweepUser(u) ==
    /\ sweep.pc = "users"
    /\ u \in sweep.todo
    /\ proc[Sweeper] = Idle
    /\ proc' = [proc EXCEPT ![Sweeper] = Sync(u)]
    /\ sweep' = [sweep EXCEPT !.todo = @ \ {u}]
    /\ UNCHANGED <<lease, port, listening, allowed, serving, crashes>>

SweepEnd ==
    /\ sweep = [pc |-> "users", todo |-> {}]
    /\ proc[Sweeper] = Idle
    /\ sweep' = NoSweep
    /\ serving' = TRUE
    /\ UNCHANGED <<lease, port, listening, allowed, proc, crashes>>

\* The process dies and starts again: only the database survives.
Restart ==
    /\ crashes < MaxCrashes
    /\ crashes' = crashes + 1
    /\ listening' = [u \in Users |-> NoPort]
    /\ allowed' = [u \in Users |-> {}]
    /\ proc' = [p \in Procs |-> Idle]
    /\ sweep' = NoSweep
    /\ serving' = FALSE
    /\ UNCHANGED <<lease, port>>

SyncStep(p) ==
    \/ \E d \in Devices : ReadHolder(p, d)
    \/ ReadPort(p)
    \/ PickPort(p)
    \/ InsertPort(p)
    \/ Ensure(p)
    \/ SetAllowed(p)

SweepStep ==
    \/ SweepListeners
    \/ SweepHolders
    \/ \E u \in Users : SweepUser(u)
    \/ SweepEnd

Next ==
    \/ \E c \in Callers, u \in Users, D \in (SUBSET Devices) \ {{}} : Reserve(c, u, D)
    \/ \E c \in Callers, u \in Users, d \in Devices : Release(c, u, d)
    \/ \E c \in Callers, u \in Users, D \in (SUBSET Devices) \ {{}} : BatchRelease(c, u, D)
    \/ \E c \in Callers, d \in Devices : ReleaseNext(c, d)
    \/ \E c \in Callers, u \in Users : Heartbeat(c, u)
    \/ \E c \in Callers, u \in Users : DeviceDebugTunnelInfo(c, u)
    \/ \E d \in Devices : Elsewhere(d)
    \/ \E p \in Procs : SyncStep(p)
    \/ SweepStep
    \/ Restart

\* A request that was accepted is carried through, and the sweep goes on for as
\* long as the process does; nobody has to call.
Fairness ==
    /\ \A p \in Procs : WF_vars(SyncStep(p))
    /\ \A c \in Callers : WF_vars(\E d \in Devices : ReleaseNext(c, d))
    /\ WF_vars(SweepStep)

Spec == Init /\ [][Next]_vars /\ Fairness

-----------------------------------------------------------------------------
(* Properties                                                              *)

\* filterDeviceList: what `adb devices` prints on the tunnel of u.
Listed(u) == IF listening[u] = NoPort THEN {} ELSE allowed[u]

\* A developer's tunnel comes to show a phone they keep, and to hide one they
\* do not get back, without any further request: whichever sync read the
\* leases first and wrote its list last, whether the lease began or ended where
\* no tunnel is synced, and after a restart dropped every listener.
FollowsLeases ==
    \A u \in Users, d \in Devices :
        /\ <>[](lease[d] = u) => <>[](d \in Listed(u))
        /\ <>[](lease[d] # u) => <>[](d \notin Listed(u))

\* "The assignment sticks forever": two syncs that look for a free port at the
\* same time, of one user or of two, and a restart between the row and the
\* listener, never move a user to another port or give the port to somebody
\* else.
PortsAreForLife ==
    [][\A u \in Users : port[u] # NoPort =>
            /\ port'[u] = port[u]
            /\ \A v \in Users \ {u} : port'[v] # port[u]]_vars
=============================================================================
