---------------------------- MODULE TunnelsProofs ----------------------------
(***************************************************************************)
(* Proofs about Tunnels, for every number of devices, users and concurrent *)
(* requests, and every range of ports: the state stays typed, a port is    *)
(* its user's for life and never another's tunnel, and the leases that the *)
(* tunnels read are leases as Lease promises them.                         *)
(***************************************************************************)
EXTENDS Tunnels, WellFoundedInduction, TLAPS

\* The requests and the syncs a process can be in.
Work == [pc : {"idle", "release", "read", "port", "pick", "insert", "listen", "apply"},
         user : Users \cup {Nobody}, todo : SUBSET Devices,
         unread : SUBSET Devices, seen : SUBSET Devices,
         port : Ports \cup {NoPort}, info : BOOLEAN]

\* What a sync has found out stays true while it goes on: whose it is, the port
\* it is about to use, and that the listener it is to give a list is open.
SyncsKnow ==
    \A p \in Procs :
        /\ proc[p].pc # "idle" => proc[p].user \in Users
        /\ proc[p].pc = "insert" => proc[p].port # NoPort
        /\ proc[p].pc = "listen" => /\ proc[p].port # NoPort
                                    /\ proc[p].port = port[proc[p].user]
        /\ proc[p].pc = "apply" => listening[proc[p].user] # NoPort

\* No two rows have the same port.
PortsDiffer ==
    \A u, v \in Users : u # v => port[u] = NoPort \/ port[u] # port[v]

IInv == TypeOK /\ SyncsKnow /\ PortsDiffer

-----------------------------------------------------------------------------
(* The first free port                                                     *)

\* A set of numbers that is not empty has a least one, which is the one that
\* the query for the first free port returns.
LEMMA LeastPort ==
    ASSUME NEW S \in SUBSET Nat, S # {}
    PROVE  (CHOOSE n \in S : \A m \in S : n <= m) \in S
<1> DEFINE R == {e \in Nat \X Nat : e[1] < e[2]}
<1>1. IsWellFoundedOn(R, Nat)
    BY NatLessThanWellFounded DEF OpToRel
<1>2. \A n, m \in S : m < n => <<m, n>> \in R
    OBVIOUS
<1> HIDE DEF R
<1>3. PICK n \in S : \A m \in S : ~(<<m, n>> \in R)
    BY <1>1, WFMin
<1>4. \A m \in S : ~(m < n)
    BY <1>2, <1>3
<1>5. \A m \in S : n <= m
    BY <1>4
<1>6. QED
    BY <1>5

-----------------------------------------------------------------------------
(* The inductive invariant                                                 *)

\* A process that does nothing, and a sync that begins.
LEMMA Beginnings ==
    /\ Idle \in Work /\ Idle.pc = "idle"
    /\ \A u \in Users : Sync(u) \in Work /\ Sync(u).user = u /\ Sync(u).pc = "read"
    /\ Callers \subseteq Procs /\ Sweeper \in Procs
    /\ NoSweep \in [pc : {"idle", "active", "users"}, todo : SUBSET Users]
    /\ 0 \in 0..MaxCrashes
BY TunnelsAssumption DEF Sync, Idle, Request, Work, NoPort, Procs, NoSweep

LEMMA InvariantInit == Init => IInv
<1> SUFFICES ASSUME Init PROVE IInv
    OBVIOUS
<1>1. /\ proc \in [Procs -> Work] /\ \A p \in Procs : proc[p].pc = "idle"
      /\ \A u \in Users : port[u] = NoPort
    BY Beginnings DEF Init
<1>2. TypeOK
    BY <1>1, Beginnings DEF Init, TypeOK, Work
<1>3. QED
    BY <1>1, <1>2 DEF IInv, SyncsKnow, PortsDiffer

\* The beginning of a request that syncs, or of a sync of the sweep.
LEMMA BeginWork ==
    ASSUME IInv, NEW p \in Procs, NEW w \in Work, w.user \in Users,
           w.pc \in {"release", "read", "port"}, proc' = [proc EXCEPT ![p] = w],
           lease' \in [Devices -> Users \cup {Nobody}],
           sweep' \in [pc : {"idle", "active", "users"}, todo : SUBSET Users],
           UNCHANGED <<port, listening, allowed, serving, crashes>>
    PROVE  IInv'
<1>1. TypeOK'
    BY DEF IInv, TypeOK, Work
<1>2. SyncsKnow'
    BY DEF IInv, TypeOK, SyncsKnow
<1>3. PortsDiffer'
    BY DEF IInv, PortsDiffer
<1>4. QED
    BY <1>1, <1>2, <1>3 DEF IInv

LEMMA InvariantStep == IInv /\ [Next]_vars => IInv'
<1> SUFFICES ASSUME IInv, [Next]_vars PROVE IInv'
    OBVIOUS
<1>1. ASSUME NEW c \in Callers, NEW u \in Users, NEW D \in (SUBSET Devices) \ {{}},
             Reserve(c, u, D)
      PROVE  IInv'
    <2>1. lease' \in [Devices -> Users \cup {Nobody}]
        BY <1>1 DEF Reserve, IInv, TypeOK
    <2>2. sweep' \in [pc : {"idle", "active", "users"}, todo : SUBSET Users]
        BY <1>1 DEF Reserve, IInv, TypeOK
    <2>3. QED
        BY Beginnings, <1>1, <2>1, <2>2, BeginWork DEF Reserve, Enter
<1>2. ASSUME NEW c \in Callers, NEW u \in Users, NEW d \in Devices, Release(c, u, d)
      PROVE  IInv'
    <2>1. lease' \in [Devices -> Users \cup {Nobody}]
        BY <1>2 DEF Release, IInv, TypeOK
    <2>2. sweep' \in [pc : {"idle", "active", "users"}, todo : SUBSET Users]
        BY <1>2 DEF Release, IInv, TypeOK
    <2>3. QED
        BY Beginnings, <1>2, <2>1, <2>2, BeginWork DEF Release, Enter
<1>3. ASSUME NEW c \in Callers, NEW u \in Users, NEW D \in (SUBSET Devices) \ {{}},
             BatchRelease(c, u, D)
      PROVE  IInv'
    <2> DEFINE w == Request("release", u, D, {}, FALSE)
    <2>1. w \in Work /\ w.user = u /\ w.pc = "release"
        BY DEF Request, Work, NoPort
    <2>2. proc' = [proc EXCEPT ![c] = w]
        BY <1>3 DEF BatchRelease, Enter
    <2>3. /\ lease' \in [Devices -> Users \cup {Nobody}]
          /\ sweep' \in [pc : {"idle", "active", "users"}, todo : SUBSET Users]
        BY <1>3 DEF BatchRelease, IInv, TypeOK
    <2> HIDE DEF w
    <2>4. QED
        BY Beginnings, <1>3, <2>1, <2>2, <2>3, BeginWork DEF BatchRelease
<1>4. ASSUME NEW c \in Callers, NEW d \in Devices, ReleaseNext(c, d)
      PROVE  IInv'
    <2> DEFINE w == IF proc[c].todo = {d} THEN Sync(proc[c].user)
                    ELSE [proc[c] EXCEPT !.todo = @ \ {d}]
    <2>1. proc[c] \in Work /\ proc[c].user \in Users /\ proc[c].pc = "release"
        BY Beginnings, <1>4 DEF ReleaseNext, IInv, TypeOK, SyncsKnow, Work
    <2>2. w \in Work /\ w.user \in Users /\ w.pc \in {"release", "read"}
        BY Beginnings, <2>1 DEF Work
    <2>3. proc' = [proc EXCEPT ![c] = w]
        BY <1>4 DEF ReleaseNext
    <2>4. /\ lease' \in [Devices -> Users \cup {Nobody}]
          /\ sweep' \in [pc : {"idle", "active", "users"}, todo : SUBSET Users]
        BY <1>4 DEF ReleaseNext, IInv, TypeOK
    <2> HIDE DEF w
    <2>5. QED
        BY Beginnings, <1>4, <2>2, <2>3, <2>4, BeginWork DEF ReleaseNext
<1>5. ASSUME NEW c \in Callers, NEW u \in Users, Heartbeat(c, u)
      PROVE  IInv'
    <2>1. /\ lease' \in [Devices -> Users \cup {Nobody}]
          /\ sweep' \in [pc : {"idle", "active", "users"}, todo : SUBSET Users]
        BY <1>5 DEF Heartbeat, IInv, TypeOK
    <2>2. QED
        BY Beginnings, <1>5, <2>1, BeginWork DEF Heartbeat, Enter
<1>6. ASSUME NEW c \in Callers, NEW u \in Users, DeviceDebugTunnelInfo(c, u)
      PROVE  IInv'
    <2> DEFINE w == Request("port", u, {}, {}, TRUE)
    <2>1. w \in Work /\ w.user = u /\ w.pc = "port"
        BY DEF Request, Work, NoPort
    <2>2. proc' = [proc EXCEPT ![c] = w]
        BY <1>6 DEF DeviceDebugTunnelInfo, Enter
    <2>3. /\ lease' \in [Devices -> Users \cup {Nobody}]
          /\ sweep' \in [pc : {"idle", "active", "users"}, todo : SUBSET Users]
        BY <1>6 DEF DeviceDebugTunnelInfo, IInv, TypeOK
    <2> HIDE DEF w
    <2>4. QED
        BY Beginnings, <1>6, <2>1, <2>2, <2>3, BeginWork DEF DeviceDebugTunnelInfo
<1>7. ASSUME NEW d \in Devices, Elsewhere(d)
      PROVE  IInv'
    <2>1. lease' \in [Devices -> Users \cup {Nobody}]
        BY <1>7 DEF Elsewhere, IInv, TypeOK
    <2>2. QED
        BY <1>7, <2>1 DEF Elsewhere, IInv, TypeOK, SyncsKnow, PortsDiffer
<1>8. ASSUME NEW p \in Procs, SyncStep(p)
      PROVE  IInv'
    <2>1. proc[p] \in Work /\ (proc[p].pc # "idle" => proc[p].user \in Users)
        BY DEF IInv, TypeOK, SyncsKnow, Work
    <2>2. ASSUME NEW d \in Devices, ReadHolder(p, d)
          PROVE  IInv'
        <3>1. /\ proc'[p] \in Work
              /\ proc'[p].user = proc[p].user
              /\ proc'[p].pc \in {"read", "port"}
            BY <2>1, <2>2 DEF ReadHolder, IInv, TypeOK, Work
        <3>2. proc' = [proc EXCEPT ![p] = proc'[p]]
            BY <2>2 DEF ReadHolder, IInv, TypeOK
        <3>3. proc[p].user \in Users
            BY <2>1, <2>2 DEF ReadHolder
        <3>4. QED
            BY <2>2, <3>1, <3>2, <3>3, BeginWork DEF ReadHolder, IInv, TypeOK
    <2>3. CASE ReadPort(p)
        <3>1. port[proc[p].user] \in Ports \cup {NoPort} /\ proc[p].user \in Users
            BY <2>1, <2>3 DEF ReadPort, IInv, TypeOK
        <3>2. proc'[p] \in Work
            BY <2>1, <2>3, <3>1 DEF ReadPort, IInv, TypeOK, Work
        <3>3. TypeOK'
            BY <2>3, <3>2 DEF ReadPort, IInv, TypeOK, Work
        <3>4. SyncsKnow'
            BY <2>1, <2>3, <3>1 DEF ReadPort, IInv, TypeOK, SyncsKnow, Work
        <3>5. QED
            BY <2>3, <3>3, <3>4 DEF ReadPort, IInv, PortsDiffer
    <2>4. CASE PickPort(p)
        <3> DEFINE free == Ports \ {port[u] : u \in Users}
                   n == CHOOSE n \in free : \A m \in free : n <= m
        <3>1. free \subseteq Ports /\ free \subseteq Nat
            BY TunnelsAssumption
        <3>2. proc' = [proc EXCEPT ![p] =
                  IF free = {} THEN Idle ELSE [@ EXCEPT !.pc = "insert", !.port = n]]
            BY <2>4 DEF PickPort
        <3> HIDE DEF free
        <3>3. free # {} => n \in free
            BY <3>1, LeastPort
        <3> HIDE DEF n
        <3>4. free # {} => n \in Ports /\ n # NoPort
            BY <3>1, <3>3, TunnelsAssumption DEF NoPort
        <3> DEFINE w == IF free = {} THEN Idle
                        ELSE [proc[p] EXCEPT !.pc = "insert", !.port = n]
        <3>5. /\ w \in Work /\ w.pc \in {"idle", "insert"}
              /\ w.pc # "idle" => w.user = proc[p].user /\ w.port # NoPort
            BY Beginnings, <2>1, <3>4 DEF Work
        <3>6. /\ proc' = [proc EXCEPT ![p] = w] /\ proc[p].user \in Users
              /\ UNCHANGED <<lease, port, listening, allowed, sweep, serving, crashes>>
            BY <2>1, <2>4, <3>2 DEF PickPort
        <3> HIDE DEF w
        <3>7. TypeOK'
            BY <3>5, <3>6 DEF IInv, TypeOK, Work
        <3>8. SyncsKnow'
            BY <3>5, <3>6 DEF IInv, TypeOK, SyncsKnow
        <3>9. QED
            BY <3>6, <3>7, <3>8 DEF IInv, PortsDiffer
    <2>5. CASE InsertPort(p)
        <3> DEFINE unique == /\ port[proc[p].user] = NoPort
                             /\ \A v \in Users : port[v] # proc[p].port
        <3>1. /\ proc[p].user \in Users
              /\ proc[p].port \in Ports /\ proc[p].port # NoPort
            BY <2>1, <2>5 DEF InsertPort, IInv, SyncsKnow, Work
        <3>2. CASE unique
            <4>1. /\ port' = [port EXCEPT ![proc[p].user] = proc[p].port]
                  /\ proc' = [proc EXCEPT ![p] = [@ EXCEPT !.pc = "listen"]]
                BY <2>5, <3>2 DEF InsertPort
            <4>2. proc'[p] \in Work
                BY <2>1, <4>1 DEF IInv, TypeOK, Work
            <4>3. TypeOK'
                BY <2>5, <3>1, <3>2, <4>1, <4>2 DEF InsertPort, IInv, TypeOK, Work
            <4>4. SyncsKnow'
                BY <2>1, <2>5, <3>1, <3>2, <4>1
                   DEF InsertPort, IInv, TypeOK, SyncsKnow, Work
            <4>5. PortsDiffer'
                BY <3>1, <3>2, <4>1 DEF IInv, TypeOK, PortsDiffer
            <4>6. QED
                BY <4>3, <4>4, <4>5 DEF IInv
        <3>3. CASE ~unique
            <4>1. port' = port /\ proc' = [proc EXCEPT ![p] = Idle]
                BY <2>5, <3>3 DEF InsertPort
            <4>2. TypeOK'
                BY Beginnings, <2>5, <4>1 DEF InsertPort, IInv, TypeOK, Work
            <4>3. QED
                BY Beginnings, <2>5, <4>1, <4>2
                   DEF InsertPort, IInv, TypeOK, SyncsKnow, PortsDiffer
        <3>4. QED
            BY <3>2, <3>3
    <2>6. CASE Ensure(p)
        <3>1. /\ proc[p].user \in Users
              /\ proc[p].port = port[proc[p].user] /\ proc[p].port # NoPort
            BY <2>1, <2>6 DEF Ensure, IInv, SyncsKnow
        <3> DEFINE w == IF proc[p].info THEN Idle ELSE [proc[p] EXCEPT !.pc = "apply"]
        <3>2. /\ w \in Work /\ w.pc \in {"idle", "apply"}
              /\ w.pc # "idle" => w.user = proc[p].user
            BY Beginnings, <2>1 DEF Work
        <3>3. proc' = [proc EXCEPT ![p] = w]
            BY <2>6 DEF Ensure
        <3> HIDE DEF w
        <3>4. TypeOK'
            BY <2>6, <3>1, <3>2, <3>3 DEF Ensure, IInv, TypeOK, Work
        <3>5. SyncsKnow'
            BY <2>6, <3>1, <3>2, <3>3 DEF Ensure, IInv, TypeOK, SyncsKnow
        <3>6. QED
            BY <2>6, <3>4, <3>5 DEF Ensure, IInv, PortsDiffer
    <2>7. CASE SetAllowed(p)
        <3>1. proc[p].user \in Users /\ listening[proc[p].user] # NoPort
            BY <2>1, <2>7 DEF SetAllowed, IInv, SyncsKnow
        <3>2. proc[p].seen \in SUBSET Devices
            BY <2>1 DEF Work
        <3>3. TypeOK'
            BY Beginnings, <2>7, <3>1, <3>2 DEF SetAllowed, IInv, TypeOK, Work
        <3>4. QED
            BY Beginnings, <2>7, <3>3 DEF SetAllowed, IInv, TypeOK, SyncsKnow, PortsDiffer
    <2>8. QED
        BY <1>8, <2>2, <2>3, <2>4, <2>5, <2>6, <2>7 DEF SyncStep
<1>9. ASSUME SweepStep
      PROVE  IInv'
    <2>1. CASE SweepListeners \/ SweepHolders
        BY <2>1 DEF SweepListeners, SweepHolders, IInv, TypeOK, SyncsKnow, PortsDiffer
    <2>2. ASSUME NEW u \in Users, SweepUser(u)
          PROVE  IInv'
        <3>1. sweep' \in [pc : {"idle", "active", "users"}, todo : SUBSET Users]
            BY <2>2 DEF SweepUser, IInv, TypeOK
        <3>2. QED
            BY Beginnings, <2>2, <3>1, BeginWork DEF SweepUser, IInv, TypeOK
    <2>3. CASE SweepEnd
        BY <2>3 DEF SweepEnd, NoSweep, IInv, TypeOK, SyncsKnow, PortsDiffer
    <2>4. QED
        BY <1>9, <2>1, <2>2, <2>3 DEF SweepStep
<1>10. ASSUME Restart
       PROVE  IInv'
    <2>1. crashes' \in 0..MaxCrashes
        BY <1>10, TunnelsAssumption DEF Restart, IInv, TypeOK
    <2>2. proc' \in [Procs -> Work]
        BY <1>10, Beginnings DEF Restart
    <2>3. TypeOK'
        BY <1>10, <2>1, <2>2, Beginnings DEF Restart, IInv, TypeOK, Work
    <2>4. QED
        BY Beginnings, <1>10, <2>3 DEF Restart, IInv, SyncsKnow, PortsDiffer
<1>11. CASE UNCHANGED vars
    BY <1>11 DEF vars, IInv, TypeOK, SyncsKnow, PortsDiffer
<1>12. QED
    BY <1>1, <1>2, <1>3, <1>4, <1>5, <1>6, <1>7, <1>8, <1>9, <1>10, <1>11 DEF Next

\* The state stays typed: a listener is open on its user's own port and on no
\* other, whatever two syncs did to the row and to the listener between them,
\* and only an open listener has a list of phones.
THEOREM Typing == Spec => []TypeOK
<1>1. IInv => TypeOK
    BY DEF IInv
<1>2. QED
    BY <1>1, InvariantInit, InvariantStep, PTL DEF Spec

-----------------------------------------------------------------------------
(* Ports                                                                   *)

\* Only a user who has no row gets one, with a port that no row has.
LEMMA PortsStay ==
    ASSUME IInv, [Next]_vars, NEW u \in Users, port[u] # NoPort
    PROVE  /\ port'[u] = port[u]
           /\ \A v \in Users \ {u} : port'[v] # port[u]
<1>1. ASSUME NEW p \in Procs, InsertPort(p)
      PROVE  /\ port'[u] = port[u]
             /\ \A v \in Users \ {u} : port'[v] # port[u]
    <2>1. proc[p].user \in Users
        BY <1>1 DEF InsertPort, IInv, SyncsKnow
    <2>2. QED
        BY <1>1, <2>1 DEF InsertPort, IInv, TypeOK, PortsDiffer
<1>2. ASSUME port' = port
      PROVE  /\ port'[u] = port[u]
             /\ \A v \in Users \ {u} : port'[v] # port[u]
    BY <1>2 DEF IInv, PortsDiffer
<1>3. port' = port \/ \E p \in Procs : InsertPort(p)
    BY DEF Next, vars, Reserve, Release, BatchRelease, ReleaseNext, Heartbeat,
           DeviceDebugTunnelInfo, Elsewhere, SyncStep, ReadHolder, ReadPort, PickPort,
           Ensure, SetAllowed, SweepStep, SweepListeners, SweepHolders, SweepUser,
           SweepEnd, Restart
<1>4. QED
    BY <1>1, <1>2, <1>3

\* "The assignment sticks forever": whatever syncs look for a free port at the
\* same time, and whenever the process dies, no step moves a user to another
\* port or gives the port to somebody else.
THEOREM PortsForLife == Spec => PortsAreForLife
<1>1. IInv /\ [Next]_vars =>
        [\A u \in Users : port[u] # NoPort =>
            /\ port'[u] = port[u]
            /\ \A v \in Users \ {u} : port'[v] # port[u]]_vars
    BY PortsStay
<1>2. QED
    BY <1>1, InvariantInit, InvariantStep, PTL DEF Spec, PortsAreForLife

-----------------------------------------------------------------------------
(* Leases                                                                  *)

Promise == INSTANCE Lease WITH holder <- lease

\* Every step of the tunnels and of what goes on beside them books unheld
\* devices, ends one lease, or touches none.
LEMMA LeaseStep == IInv /\ [Next]_vars => [Promise!Next]_lease
<1> SUFFICES ASSUME IInv, [Next]_vars PROVE [Promise!Next]_lease
    OBVIOUS
<1>1. ASSUME NEW c \in Callers, NEW u \in Users, NEW D \in (SUBSET Devices) \ {{}},
             Reserve(c, u, D)
      PROVE  Promise!Next
    BY <1>1 DEF Reserve, Promise!Next, Promise!Acquire
<1>2. ASSUME NEW c \in Callers, NEW u \in Users, NEW d \in Devices, Release(c, u, d)
      PROVE  Promise!Next
    BY <1>2, TunnelsAssumption DEF Release, Promise!Next, Promise!Drop
<1>3. ASSUME NEW c \in Callers, NEW d \in Devices, ReleaseNext(c, d)
      PROVE  Promise!Next \/ UNCHANGED lease
    <2>1. proc[c].user # Nobody
        BY <1>3, TunnelsAssumption DEF ReleaseNext, IInv, SyncsKnow, Procs
    <2>2. QED
        BY <1>3, <2>1 DEF ReleaseNext, Promise!Next, Promise!Drop
<1>4. ASSUME NEW d \in Devices, Elsewhere(d)
      PROVE  Promise!Next
    <2>1. CASE lease[d] # Nobody /\ lease' = [lease EXCEPT ![d] = Nobody]
        BY <2>1 DEF Promise!Next, Promise!Drop
    <2>2. ASSUME NEW u \in Users, lease[d] = Nobody, lease' = [lease EXCEPT ![d] = u]
          PROVE  Promise!Next
        <3>1. lease' = [e \in Devices |-> IF e \in {d} THEN u ELSE lease[e]]
            BY <2>2 DEF IInv, TypeOK
        <3>2. Promise!Acquire(u, {d})
            BY <2>2, <3>1 DEF Promise!Acquire
        <3>3. QED
            BY <3>2 DEF Promise!Next
    <2>3. QED
        BY <1>4, <2>1, <2>2 DEF Elsewhere
<1>5. \/ UNCHANGED lease
      \/ \E c \in Callers, u \in Users, D \in (SUBSET Devices) \ {{}} : Reserve(c, u, D)
      \/ \E c \in Callers, u \in Users, d \in Devices : Release(c, u, d)
      \/ \E c \in Callers, d \in Devices : ReleaseNext(c, d)
      \/ \E d \in Devices : Elsewhere(d)
    BY DEF Next, vars, BatchRelease, Heartbeat, DeviceDebugTunnelInfo, SyncStep,
           ReadHolder, ReadPort, PickPort, InsertPort, Ensure, SetAllowed, SweepStep,
           SweepListeners, SweepHolders, SweepUser, SweepEnd, Restart
<1>6. QED
    BY <1>1, <1>2, <1>3, <1>4, <1>5

\* The leases that the syncs read change as Lease says they do: what the tunnels
\* follow is what the reservation service promises.
THEOREM LeasesAreLeases == Spec => Promise!Spec
<1>1. Init => Promise!Init
    BY DEF Init, Promise!Init
<1>2. QED
    BY <1>1, InvariantInit, InvariantStep, LeaseStep, PTL DEF Spec, Promise!Spec

-----------------------------------------------------------------------------
(* Whose tunnel answers on a port                                          *)

\* A port that a row gives to a user is no other user's tunnel, now or after the
\* step.
TunnelsArePrivate ==
    \A u, v \in Users : u # v /\ port[u] # NoPort =>
        listening[v] # port[u] /\ listening'[v] # port[u]

\* Whoever is connected to the port of one developer never finds the phones of
\* another there, though a sync reads the row of its user, or picks a port and
\* inserts it, some statements before it opens the listener, and a restart closes
\* them all (debugtunnel.go: syncUserTunnel; adbtunnel.go: TunnelPort).
THEOREM PortsArePrivate == Spec => [][TunnelsArePrivate]_vars
<1>1. ASSUME IInv, NEW u \in Users, NEW v \in Users, u # v, port[u] # NoPort
      PROVE  listening[v] # port[u]
    BY <1>1 DEF IInv, TypeOK, PortsDiffer
<1>2. ASSUME IInv, IInv', [Next]_vars,
             NEW u \in Users, NEW v \in Users, u # v, port[u] # NoPort
      PROVE  listening'[v] # port[u]
    <2>1. port'[u] = port[u]
        BY <1>2, PortsStay
    <2>2. listening'[v] \in {NoPort, port'[v]} /\ (port'[u] # port'[v])
        BY <1>2, <2>1 DEF IInv, TypeOK, PortsDiffer
    <2>3. QED
        BY <1>2, <2>1, <2>2
<1>3. IInv /\ IInv' /\ [Next]_vars => [TunnelsArePrivate]_vars
    BY <1>1, <1>2 DEF TunnelsArePrivate
<1>4. QED
    BY <1>3, InvariantInit, InvariantStep, PTL DEF Spec
==============================================================================
