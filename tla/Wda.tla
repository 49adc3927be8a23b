-------------------------------- MODULE Wda --------------------------------
(***************************************************************************)
(* The screens of iPhones: jobs that install and start WebDriverAgent and  *)
(* forward its ports (internal/provision: ios.go, lifecycle.go), and the   *)
(* watchdog that restarts a screen which has stopped answering             *)
(* (cmd/poligon/watchdog.go).                                              *)
(*                                                                         *)
(* A port stands for the pair (wda, mjpeg) that is always reserved,        *)
(* forwarded and freed together.  Phones have their proper names before    *)
(* they are adopted, as the poll gives them to every iPhone it can read:   *)
(* `jobs' and `procs' have one key per phone.                              *)
(***************************************************************************)
EXTENDS Naturals, FiniteSets

CONSTANTS
    Phones,
    NoPhone,        \* who listens on a port that nobody listens on
    Ports,          \* the ports from the configured base on
    MaxHeals,       \* restarts the watchdog allows itself in 10 minutes (3)
    MaxFaults,      \* bound on what goes wrong with phones and builds
    MaxRequests,    \* bound on the restarts users ask for
    MaxRestarts     \* bound on the restarts of the server

ASSUME WdaAssumption ==
    /\ NoPhone \notin Phones
    /\ Ports \subseteq Nat \ {0}
    /\ IsFiniteSet(Phones) /\ IsFiniteSet(Ports)
    /\ Cardinality(Ports) > Cardinality(Phones)
    /\ {MaxHeals, MaxFaults, MaxRequests, MaxRestarts} \subseteq Nat

VARIABLES
    plugged,    \* phones that can be reached
    up,         \* phones whose WebDriverAgent answers
    listener,   \* listener[q]: the phone that port q is forwarded to
    built,      \* is WebDriverAgent built?
    procs,      \* procs[p]: the port reserved for phone p
    adopted,    \* phones that are on the farm
    endpoint,   \* endpoint[p]: where the server looks for p's screen
    screen,     \* screen[p]: the port in p's row of `ios_screen`
    dead,       \* phones that are watched and have sent no frame for 45 seconds
    job,        \* job[p]: the job that works on p
    resumed,    \* resumed[p]: what Resume writes for p after the end of its job
    late,       \* phones whose endpoint Resume wrote when a newer job had begun
    heal,       \* heal[p]: the watchdog's count for p
    faults, requests, restarts

world == <<plugged, up, listener, built>>
tables == <<adopted, screen>>
bounds == <<faults, requests, restarts>>
served == <<endpoint, dead>>
writes == <<resumed, late>>
vars == <<world, procs, tables, served, job, writes, heal, bounds>>

NoPort == 0
Idle == [pc |-> "none", port |-> NoPort, resume |-> FALSE]
Written == [pc |-> "none", port |-> NoPort]

TypeOK ==
    /\ plugged \subseteq Phones
    /\ up \subseteq Phones
    /\ listener \in [Ports -> Phones \cup {NoPhone}]
    /\ built \in BOOLEAN
    /\ procs \in [Phones -> Ports \cup {NoPort}]
    /\ adopted \subseteq Phones
    /\ endpoint \in [Phones -> Ports \cup {NoPort}]
    /\ screen \in [Phones -> Ports \cup {NoPort}]
    /\ job \in [Phones -> [pc : {"none", "unset", "stop", "free", "build", "building", "install",
                                 "clear", "cleared", "reserve", "forward", "probe", "register",
                                 "set", "row"},
                           port : Ports \cup {NoPort}, resume : BOOLEAN]]
    /\ dead \subseteq Phones
    /\ resumed \in [Phones -> [pc : {"none", "set", "row"}, port : Ports \cup {NoPort}]]
    /\ late \subseteq Phones
    /\ heal \in [Phones -> [fails : 0..1, heals : 0..MaxHeals]]
    /\ faults \in 0..MaxFaults
    /\ requests \in 0..MaxRequests
    /\ restarts \in 0..MaxRestarts
    \* reservePorts: two phones never hold the same port
    /\ \A p, q \in Phones : p # q /\ procs[p] # NoPort => procs[p] # procs[q]

\* A server that has never run, the phones plugged in.
Fresh ==
    /\ plugged = Phones
    /\ up = {}
    /\ listener = [q \in Ports |-> NoPhone]
    /\ built = FALSE
    /\ procs = [p \in Phones |-> NoPort]
    /\ adopted = {}
    /\ endpoint = [p \in Phones |-> NoPort]
    /\ screen = [p \in Phones |-> NoPort]
    /\ dead = {}
    /\ job = [p \in Phones |-> Idle]
    /\ resumed = [p \in Phones |-> Written]
    /\ late = {}
    /\ heal = [p \in Phones |-> [fails |-> 0, heals |-> 0]]

Init == Fresh /\ faults = 0 /\ requests = 0 /\ restarts = 0

At(p, pc) == job[p].pc = pc
Goto(p, pc) == job' = [job EXCEPT ![p].pc = pc]
End(p) == job' = [job EXCEPT ![p] = Idle]

\* Does anything answer /status on port q?
Answers(q) == q # NoPort /\ listener[q] \in up
Shown(p) == endpoint[p] # NoPort /\ listener[endpoint[p]] = p /\ p \in up \ dead

-----------------------------------------------------------------------------
(* Starting WebDriverAgent                                                 *)

\* A candidate: pairing and specs need the phone.
Adopt(p) ==
    /\ At(p, "none")
    /\ p \notin adopted
    /\ p \in plugged
    /\ Goto(p, "build")
    /\ UNCHANGED <<world, procs, tables, served, writes, heal, bounds>>

\* One build serves every phone, and a second one waits for it.
Build(p) ==
    /\ At(p, "build")
    /\ IF built THEN Goto(p, "install")
       ELSE (\A q \in Phones : ~At(q, "building")) /\ Goto(p, "building")
    /\ UNCHANGED <<world, procs, tables, served, writes, heal, bounds>>

Built(p) ==
    /\ At(p, "building")
    /\ \/ /\ built' = TRUE
          /\ Goto(p, "install")
          /\ UNCHANGED faults
       \/ /\ faults < MaxFaults
          /\ faults' = faults + 1
          /\ End(p)
          /\ UNCHANGED built
    /\ UNCHANGED <<plugged, up, listener, procs, tables, served, writes, heal, requests, restarts>>

Install(p) ==
    /\ At(p, "install")
    /\ IF p \in plugged THEN Goto(p, "clear") ELSE End(p)
    /\ UNCHANGED <<world, procs, tables, served, writes, heal, bounds>>

\* stopWDA: the entry goes under the lock; the runner and the forwards of this
\* udid are killed...
StopWDA(p, next) ==
    /\ procs' = [procs EXCEPT ![p] = NoPort]
    /\ job' = [job EXCEPT ![p].pc = next, ![p].port = procs[p]]
    /\ up' = up \ {p}
    /\ listener' = [q \in Ports |-> IF listener[q] = p THEN NoPhone ELSE listener[q]]

\* ... and after them whatever listens on the entry's port by now.
FreePort(p, next) ==
    /\ listener' = IF job[p].port = NoPort THEN listener
                   ELSE [listener EXCEPT ![job[p].port] = NoPhone]
    /\ job' = [job EXCEPT ![p].pc = next, ![p].port = NoPort]

Clear(p) ==
    /\ At(p, "clear")
    /\ StopWDA(p, "cleared")
    /\ UNCHANGED <<plugged, built, tables, served, writes, heal, bounds>>

Cleared(p) ==
    /\ At(p, "cleared")
    /\ FreePort(p, "reserve")
    /\ UNCHANGED <<plugged, up, built, procs, tables, served, writes, heal, bounds>>

\* Variant: only the listeners are asked.
FreePorts_Unreserved == {q \in Ports : listener[q] = NoPhone}

\* The first port that no entry holds and nobody listens on.
FreePorts == {q \in Ports : listener[q] = NoPhone /\ \A p \in Phones : procs[p] # q}

ReservePorts(p) ==
    /\ At(p, "reserve")
    /\ \E q \in FreePorts :
          /\ \A r \in FreePorts : q <= r
          /\ procs' = [procs EXCEPT ![p] = q]
          /\ job' = [job EXCEPT ![p].pc = "forward", ![p].port = q]
    /\ UNCHANGED <<world, tables, served, writes, heal, bounds>>

\* The runner and the forwards start; the forward of a port in use gives up.
Forward(p) ==
    /\ At(p, "forward")
    /\ up' = IF p \in plugged THEN up \cup {p} ELSE up
    /\ listener' = IF listener[job[p].port] = NoPhone
                   THEN [listener EXCEPT ![job[p].port] = p] ELSE listener
    /\ Goto(p, "probe")
    /\ UNCHANGED <<plugged, built, procs, tables, served, writes, heal, bounds>>

\* Ready when something answers on the port: a job of Resume is done with that,
\* what follows is written after it.  If nothing answers within 90 seconds the
\* processes are killed and the reservation is given up.
Probe(p) ==
    LET port == job[p].port
    IN  /\ At(p, "probe")
        /\ \/ /\ Answers(port) /\ ~job[p].resume
              /\ Goto(p, "set")
              /\ UNCHANGED <<up, listener, procs, resumed>>
           \/ /\ Answers(port) /\ job[p].resume
              /\ End(p)
              /\ resumed' = [resumed EXCEPT ![p] = [pc |-> "set", port |-> port]]
              /\ UNCHANGED <<up, listener, procs>>
           \/ /\ ~Answers(port)
              /\ End(p)
              /\ up' = up \ {p}
              /\ listener' = [q \in Ports |-> IF listener[q] = p THEN NoPhone ELSE listener[q]]
              /\ procs' = [procs EXCEPT ![p] = NoPort]
              /\ UNCHANGED resumed
        /\ UNCHANGED <<plugged, built, tables, served, late, heal, bounds>>

\* Controller.Set stops the stream of the old endpoint.
Set(p, port) ==
    /\ endpoint' = [endpoint EXCEPT ![p] = port]
    /\ dead' = dead \ {p}

SetEndpoint(p) ==
    /\ At(p, "set")
    /\ Set(p, job[p].port)
    /\ late' = late \ {p}
    /\ Goto(p, IF p \in adopted THEN "row" ELSE "register")
    /\ UNCHANGED <<world, procs, tables, resumed, heal, bounds>>

\* finishRegistration: it may fail, and leaves WebDriverAgent running and the
\* candidate with an endpoint.
Registered(p) ==
    /\ At(p, "register")
    /\ \/ /\ adopted' = adopted \cup {p}
          /\ Goto(p, "row")
          /\ UNCHANGED faults
       \/ /\ faults < MaxFaults
          /\ faults' = faults + 1
          /\ End(p)
          /\ UNCHANGED adopted
    /\ UNCHANGED <<world, procs, screen, served, writes, heal, requests, restarts>>

SetIOSScreen(p) ==
    /\ At(p, "row")
    /\ screen' = [screen EXCEPT ![p] = job[p].port]
    /\ End(p)
    /\ UNCHANGED <<world, procs, adopted, served, writes, heal, bounds>>

\* Resume's goroutine, its job done, goes on: a restart of the screen may have
\* begun by then and given the port up.
ResumeSet(p) ==
    /\ resumed[p].pc = "set"
    /\ Set(p, resumed[p].port)
    /\ resumed' = [resumed EXCEPT ![p].pc = "row"]
    /\ late' = IF At(p, "none") /\ procs[p] = resumed[p].port THEN late \ {p} ELSE late \cup {p}
    /\ UNCHANGED <<world, procs, tables, job, heal, bounds>>

ResumeRow(p) ==
    /\ resumed[p].pc = "row"
    /\ screen' = [screen EXCEPT ![p] = resumed[p].port]
    /\ resumed' = [resumed EXCEPT ![p] = Written]
    /\ UNCHANGED <<world, procs, adopted, served, job, late, heal, bounds>>

-----------------------------------------------------------------------------
(* Restarting a screen                                                     *)

\* A job that runs already is all the caller gets.
RestartScreen(p) == At(p, "none") /\ Goto(p, "unset")

UserRestarts(p) ==
    /\ p \in adopted
    /\ requests < MaxRequests
    /\ requests' = requests + 1
    /\ RestartScreen(p)
    /\ UNCHANGED <<world, procs, tables, served, writes, heal, faults, restarts>>

\* Variant: the endpoint stays until there is a new one.
RestartUnset_Later(p) ==
    /\ At(p, "unset")
    /\ Goto(p, "stop")
    /\ UNCHANGED <<world, procs, tables, served, writes, heal, bounds>>

\* The screen is reported down while it is rebuilt.
RestartUnset(p) ==
    /\ At(p, "unset")
    /\ Set(p, NoPort)
    /\ late' = late \ {p}
    /\ Goto(p, "stop")
    /\ UNCHANGED <<world, procs, tables, resumed, heal, bounds>>

RestartStop(p) ==
    /\ At(p, "stop")
    /\ StopWDA(p, "free")
    /\ UNCHANGED <<plugged, built, tables, served, writes, heal, bounds>>

RestartFree(p) ==
    /\ At(p, "free")
    /\ FreePort(p, "build")
    /\ UNCHANGED <<plugged, up, built, procs, tables, served, writes, heal, bounds>>

-----------------------------------------------------------------------------
(* The watchdog, every 30 seconds                                          *)

\* Variant: whatever answers /status is healthy.
Healthy_Status(p) == Answers(screen[p])

\* /status alone is not enough: the stream may have stopped.
Healthy(p) == Answers(screen[p]) /\ p \notin dead

\* At the second failure in a row, unless a job runs or the window is used up, a
\* job starts; more failures in a row than one count as one.
Watch(p) ==
    /\ screen[p] # NoPort
    /\ \/ /\ Healthy(p)
          /\ heal' = [heal EXCEPT ![p].fails = 0]
          /\ UNCHANGED job
       \/ /\ ~Healthy(p)
          /\ heal[p].fails = 1 /\ At(p, "none") /\ heal[p].heals < MaxHeals
          /\ heal' = [heal EXCEPT ![p] = [fails |-> 0, heals |-> @.heals + 1]]
          /\ RestartScreen(p)
       \/ /\ ~Healthy(p)
          /\ ~(heal[p].fails = 1 /\ At(p, "none") /\ heal[p].heals < MaxHeals)
          /\ heal' = [heal EXCEPT ![p].fails = 1]
          /\ UNCHANGED job
    /\ UNCHANGED <<world, procs, tables, served, writes, bounds>>

\* More than ten minutes since the window was opened.
WindowEnds(p) ==
    /\ heal[p].heals > 0
    /\ heal' = [heal EXCEPT ![p].heals = 0]
    /\ UNCHANGED <<world, procs, tables, served, writes, job, bounds>>

-----------------------------------------------------------------------------
(* Faults, and restarts of the server                                      *)

\* Whoever watches p gets nothing for 45 seconds...
Stall(p) ==
    /\ endpoint[p] # NoPort
    /\ p \notin dead
    /\ faults < MaxFaults
    /\ faults' = faults + 1
    /\ dead' = dead \cup {p}
    /\ UNCHANGED <<world, procs, tables, endpoint, job, writes, heal, requests, restarts>>

\* ... until a frame comes or nobody watches any longer.
Flow(p) ==
    /\ p \in dead
    /\ dead' = dead \ {p}
    /\ UNCHANGED <<world, procs, tables, endpoint, job, writes, heal, bounds>>

WdaDies(p) ==
    /\ p \in up
    /\ faults < MaxFaults
    /\ faults' = faults + 1
    /\ up' = up \ {p}
    /\ UNCHANGED <<plugged, listener, built, procs, tables, served, writes, job, heal,
                   requests, restarts>>

Unplug(p) ==
    /\ p \in plugged
    /\ faults < MaxFaults
    /\ faults' = faults + 1
    /\ plugged' = plugged \ {p}
    /\ up' = up \ {p}
    /\ UNCHANGED <<listener, built, procs, tables, served, writes, job, heal, requests, restarts>>

Plug(p) ==
    /\ p \notin plugged
    /\ plugged' = plugged \cup {p}
    /\ UNCHANGED <<up, listener, built, procs, tables, served, writes, job, heal, bounds>>

\* Killed or shut down, the server starts again: ReapOrphans kills what is left
\* and Resume drops every endpoint and starts a job per row of `ios_screen'.
\* Its loop waits for nothing but the database.
Restart ==
    /\ restarts < MaxRestarts
    /\ restarts' = restarts + 1
    /\ up' = {}
    /\ listener' = [q \in Ports |-> NoPhone]
    /\ procs' = [p \in Phones |-> NoPort]
    /\ endpoint' = [p \in Phones |-> NoPort]
    /\ dead' = {}
    /\ job' = [p \in Phones |-> IF screen[p] = NoPort THEN Idle
                                ELSE [Idle EXCEPT !.pc = "build", !.resume = TRUE]]
    /\ resumed' = [p \in Phones |-> Written]
    /\ late' = {}
    /\ heal' = [p \in Phones |-> [fails |-> 0, heals |-> 0]]
    /\ UNCHANGED <<plugged, built, tables, faults, requests>>

JobStep(p) ==
    \/ Build(p) \/ Built(p) \/ Install(p) \/ Clear(p) \/ Cleared(p) \/ ReservePorts(p)
    \/ Forward(p) \/ Probe(p) \/ Registered(p) \/ SetEndpoint(p) \/ SetIOSScreen(p)
    \/ RestartUnset(p) \/ RestartStop(p) \/ RestartFree(p)

ResumeStep(p) == ResumeSet(p) \/ ResumeRow(p)

Next ==
    \/ \E p \in Phones : Adopt(p) \/ JobStep(p) \/ ResumeStep(p) \/ UserRestarts(p)
    \/ \E p \in Phones : Watch(p) \/ WindowEnds(p)
    \/ \E p \in Phones : WdaDies(p) \/ Unplug(p) \/ Plug(p) \/ Stall(p) \/ Flow(p)
    \/ Restart

Fairness ==
    \A p \in Phones : /\ WF_vars(JobStep(p)) /\ WF_vars(ResumeStep(p))
                      /\ WF_vars(Watch(p)) /\ WF_vars(WindowEnds(p))

Spec == Init /\ [][Next]_vars /\ Fairness

-----------------------------------------------------------------------------
(* Properties                                                              *)

\* Nobody sees another phone's screen: the port the server looks at for a phone
\* is forwarded to it or to nobody, whoever is given which port meanwhile.  A
\* phone that is not on the farm yet cannot be reserved, nor its screen opened.
\* Excepted is what Resume wrote over a newer restart, its own job being done: the
\* port may be another's by then.
NoCrossTalk ==
    \A p \in adopted \ late : endpoint[p] # NoPort => listener[endpoint[p]] \in {p, NoPhone}

Masked(p) == screen[p] # NoPort /\ listener[screen[p]] \notin {p, NoPhone}

\* The watchdog brings back a screen whose phone stays plugged in, its stream
\* included, unless another phone answers on the port the table remembers for it,
\* or Resume wrote the endpoint over a newer restart and the row did not stay.
ScreensComeBack ==
    \A p \in Phones :
        <>[](p \in plugged /\ screen[p] # NoPort /\ ~Masked(p) /\ p \notin late) => []<>Shown(p)
=============================================================================
