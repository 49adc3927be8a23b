----------------------------- MODULE WdaProofs ------------------------------
(***************************************************************************)
(* Proofs about Wda, for every set of phones and ports and every bound on  *)
(* faults and restarts: the state stays typed, with no port held by two    *)
(* phones; nobody sees another phone's screen, unless the server's start   *)
(* wrote an endpoint over a newer restart of the screen; and ports change  *)
(* hands only through being free.                                          *)
(***************************************************************************)
EXTENDS Wda, TLAPS

Steps == {"none", "unset", "stop", "free", "build", "building", "install", "clear", "cleared",
          "reserve", "forward", "probe", "register", "set", "row"}
Job == [pc : Steps, port : Ports \cup {NoPort}, resume : BOOLEAN]
Heal == [fails : 0..1, heals : 0..MaxHeals]
Resumed == [pc : {"none", "set", "row"}, port : Ports \cup {NoPort}]

\* The steps of a job with the phone's screen taken down and no other set yet.
Rebuilding == {"stop", "free", "build", "building", "install", "clear", "cleared", "reserve",
               "forward", "probe", "set"}

-----------------------------------------------------------------------------
(* The inductive invariant                                                 *)

\* A job reserves a port only when its phone holds none, and has then in hand
\* the port that the phone holds.
PortInHand ==
    \A p \in Phones :
        /\ job[p].pc \in {"cleared", "reserve"} => procs[p] = NoPort
        /\ job[p].pc \in {"forward", "probe", "set", "register", "row"} =>
              job[p].port = procs[p] /\ procs[p] # NoPort
        /\ job[p].pc = "register" /\ p \notin late => endpoint[p] = job[p].port

\* The server looks for the screen of a phone on the farm where the phone has
\* its port, and nowhere from the stop of the old WebDriverAgent to the start of
\* the new one, unless Resume wrote over that.
EndpointIsHeld ==
    \A p \in adopted \ late :
        /\ endpoint[p] # NoPort => endpoint[p] = procs[p]
        /\ job[p].pc \in Rebuilding => endpoint[p] = NoPort

\* A port is forwarded to the phone that holds it, or to nobody.
ListenerHolds ==
    \A q \in Ports, p \in Phones : listener[q] = p => procs[p] = q

IInv == TypeOK /\ PortInHand /\ EndpointIsHeld /\ ListenerHolds

-----------------------------------------------------------------------------
(* What a step of one phone leaves alone                                   *)

Own(p) == Adopt(p) \/ JobStep(p) \/ ResumeStep(p) \/ UserRestarts(p) \/ Watch(p)

\* No step for one phone touches the job, the port or the endpoint of another.
LEMMA OthersStay ==
    ASSUME TypeOK, NEW r \in Phones, Own(r), NEW p \in Phones, p # r
    PROVE  /\ job'[p] = job[p] /\ procs'[p] = procs[p] /\ endpoint'[p] = endpoint[p]
           /\ p \in adopted' <=> p \in adopted
           /\ p \in late' <=> p \in late
<1>1. job'[p] = job[p]
    BY DEF TypeOK, Own, Adopt, JobStep, ResumeStep, UserRestarts, Watch, Build, Built, Install,
       Clear, Cleared, ReservePorts, Forward, Probe, Registered, SetEndpoint, SetIOSScreen,
       ResumeSet, ResumeRow, RestartUnset, RestartStop, RestartFree, RestartScreen, StopWDA,
       FreePort, Goto, End
<1>2. procs'[p] = procs[p]
    BY DEF TypeOK, Own, Adopt, JobStep, ResumeStep, UserRestarts, Watch, Build, Built, Install,
       Clear, Cleared, ReservePorts, Forward, Probe, Registered, SetEndpoint, SetIOSScreen,
       ResumeSet, ResumeRow, RestartUnset, RestartStop, RestartFree, StopWDA
<1>3. endpoint'[p] = endpoint[p]
    BY DEF TypeOK, Own, Adopt, JobStep, ResumeStep, UserRestarts, Watch, Build, Built, Install,
       Clear, Cleared, ReservePorts, Forward, Probe, Registered, SetEndpoint, SetIOSScreen,
       ResumeSet, ResumeRow, RestartUnset, RestartStop, RestartFree, Set, served
<1>4. p \in adopted' <=> p \in adopted
    BY DEF tables, Own, Adopt, JobStep, ResumeStep, UserRestarts, Watch, Build, Built, Install,
       Clear, Cleared, ReservePorts, Forward, Probe, Registered, SetEndpoint, SetIOSScreen,
       ResumeSet, ResumeRow, RestartUnset, RestartStop, RestartFree
<1>5. p \in late' <=> p \in late
    BY DEF writes, Own, Adopt, JobStep, ResumeStep, UserRestarts, Watch, Build, Built, Install,
       Clear, Cleared, ReservePorts, Forward, Probe, Registered, SetEndpoint, SetIOSScreen,
       ResumeSet, ResumeRow, RestartUnset, RestartStop, RestartFree
<1>6. QED
    BY <1>1, <1>2, <1>3, <1>4, <1>5

\* What the steps that are nobody's own leave alone.
LEMMA WorldSteps ==
    ASSUME NEW p \in Phones,
           WindowEnds(p) \/ WdaDies(p) \/ Unplug(p) \/ Plug(p) \/ Stall(p) \/ Flow(p)
    PROVE  UNCHANGED <<listener, built, procs, adopted, endpoint, screen, job, writes>>
BY DEF WindowEnds, WdaDies, Unplug, Plug, Stall, Flow, world, tables, served

-----------------------------------------------------------------------------
(* Types                                                                   *)

LEMMA Constants ==
    /\ NoPort \notin Ports /\ Ports \subseteq Nat /\ NoPhone \notin Phones
    /\ Idle \in Job /\ Written \in Resumed /\ MaxHeals \in Nat
BY WdaAssumption DEF NoPort, Idle, Written, Resumed, Job, Steps

\* A job goes from step to step and carries the port it was given.
LEMMA JobTyped ==
    ASSUME TypeOK, [Next]_vars
    PROVE  job' \in [Phones -> Job]
<1>0. job \in [Phones -> Job] /\ procs \in [Phones -> Ports \cup {NoPort}]
    BY DEF TypeOK, Job, Steps
<1>1. ASSUME NEW p \in Phones, NEW pc \in Steps, Goto(p, pc)
      PROVE  job' \in [Phones -> Job]
    <2>1. [job[p] EXCEPT !.pc = pc] \in Job
        BY <1>0 DEF Job
    <2>2. job' = [job EXCEPT ![p] = [job[p] EXCEPT !.pc = pc]]
        BY <1>0, <1>1 DEF Goto
    <2>3. QED
        BY <1>0, <2>1, <2>2
<1>2. ASSUME NEW p \in Phones, End(p)
      PROVE  job' \in [Phones -> Job]
    BY <1>0, <1>2, Constants DEF End
<1>3. ASSUME NEW p \in Phones, NEW pc \in Steps, NEW q \in Ports \cup {NoPort},
             job' = [job EXCEPT ![p].pc = pc, ![p].port = q]
      PROVE  job' \in [Phones -> Job]
    <2>1. [job[p] EXCEPT !.pc = pc, !.port = q] \in Job
        BY <1>0 DEF Job
    <2>2. job' = [job EXCEPT ![p] = [job[p] EXCEPT !.pc = pc, !.port = q]]
        BY <1>0, <1>3
    <2>3. QED
        BY <1>0, <2>1, <2>2
<1>4. ASSUME NEW p \in Phones, Own(p)
      PROVE  job' \in [Phones -> Job]
    <2>1. CASE Adopt(p)
        BY <1>1, <2>1 DEF Adopt, Steps
    <2>2. CASE Build(p)
        BY <1>1, <2>2 DEF Build, Steps
    <2>3. CASE Built(p)
        BY <1>1, <1>2, <2>3 DEF Built, Steps
    <2>4. CASE Install(p)
        BY <1>1, <1>2, <2>4 DEF Install, Steps
    <2>5. CASE Clear(p) \/ RestartStop(p)
        BY <1>0, <1>3, <2>5 DEF Clear, RestartStop, StopWDA, Steps
    <2>6. CASE Cleared(p) \/ RestartFree(p)
        BY <1>0, <1>3, <2>6 DEF Cleared, RestartFree, FreePort, Steps
    <2>7. CASE ReservePorts(p)
        BY <1>0, <1>3, <2>7 DEF ReservePorts, FreePorts, Steps
    <2>8. CASE Forward(p) \/ RestartUnset(p)
        BY <1>1, <2>8 DEF Forward, RestartUnset, Steps
    <2>9. CASE Probe(p) \/ Registered(p)
        BY <1>1, <1>2, <2>9 DEF Probe, Registered, Steps
    <2>10. CASE SetEndpoint(p)
        BY <1>1, <2>10 DEF SetEndpoint, Steps
    <2>11. CASE SetIOSScreen(p)
        BY <1>2, <2>11 DEF SetIOSScreen
    <2>12. CASE UserRestarts(p)
        BY <1>1, <2>12 DEF UserRestarts, RestartScreen, Steps
    <2>13. CASE Watch(p)
        BY <1>0, <1>1, <2>13 DEF Watch, RestartScreen, Steps
    <2>14. CASE ResumeStep(p)
        BY <1>0, <2>14 DEF ResumeStep, ResumeSet, ResumeRow
    <2>15. QED
        BY <1>4, <2>1, <2>2, <2>3, <2>4, <2>5, <2>6, <2>7, <2>8, <2>9, <2>10, <2>11, <2>12, <2>13,
           <2>14 DEF Own, JobStep
<1>5. CASE Restart
    <2>1. [Idle EXCEPT !.pc = "build", !.resume = TRUE] \in Job
        BY Constants DEF Job, Steps
    <2>2. QED
        BY <1>5, <2>1, Constants DEF Restart
<1>6. CASE UNCHANGED job
    BY <1>0, <1>6
<1>7. QED
    BY <1>4, <1>5, <1>6, WorldSteps DEF Next, Own, vars

\* The watchdog's count of failures stops at one, and its count of restarts at
\* the window's.
LEMMA HealTyped ==
    ASSUME TypeOK, [Next]_vars
    PROVE  heal' \in [Phones -> Heal]
<1>0. heal \in [Phones -> Heal]
    BY DEF TypeOK, Heal
<1>1. ASSUME NEW p \in Phones, Watch(p)
      PROVE  heal' \in [Phones -> Heal]
    <2> DEFINE failing == [heal[p] EXCEPT !.fails = 1]
               healed == [fails |-> 0, heals |-> heal[p].heals + 1]
    <2>1. heal[p] \in Heal /\ MaxHeals \in Nat
        BY <1>0, Constants
    <2>2. failing \in Heal /\ [heal[p] EXCEPT !.fails = 0] \in Heal
        BY <2>1 DEF Heal
    <2>3. heal[p].heals < MaxHeals => healed \in Heal
        BY <2>1 DEF Heal
    <2>4. \/ heal' = [heal EXCEPT ![p] = [heal[p] EXCEPT !.fails = 0]]
          \/ heal[p].heals < MaxHeals /\ heal' = [heal EXCEPT ![p] = healed]
          \/ heal' = [heal EXCEPT ![p] = failing]
        BY <1>0, <1>1 DEF Watch
    <2> HIDE DEF failing, healed
    <2>5. QED
        BY <1>0, <2>2, <2>3, <2>4
<1>2. ASSUME NEW p \in Phones, WindowEnds(p)
      PROVE  heal' \in [Phones -> Heal]
    <2>1. [heal[p] EXCEPT !.heals = 0] \in Heal
        BY <1>0, Constants DEF Heal
    <2>2. heal' = [heal EXCEPT ![p] = [heal[p] EXCEPT !.heals = 0]]
        BY <1>0, <1>2 DEF WindowEnds
    <2>3. QED
        BY <1>0, <2>1, <2>2
<1>3. CASE Restart
    BY <1>3, Constants DEF Restart, Heal
<1>4. ASSUME NEW p \in Phones, Adopt(p) \/ JobStep(p) \/ ResumeStep(p) \/ UserRestarts(p)
      PROVE  UNCHANGED heal
    BY <1>4 DEF Adopt, JobStep, ResumeStep, UserRestarts, Build, Built, Install, Clear, Cleared,
       ReservePorts, Forward, Probe, Registered, SetEndpoint, SetIOSScreen, ResumeSet, ResumeRow,
       Set, RestartUnset, RestartStop, RestartFree
<1>5. ASSUME NEW p \in Phones, WdaDies(p) \/ Unplug(p) \/ Plug(p) \/ Stall(p) \/ Flow(p)
      PROVE  UNCHANGED heal
    BY <1>5 DEF WdaDies, Unplug, Plug, Stall, Flow
<1>6. QED
    BY <1>0, <1>1, <1>2, <1>3, <1>4, <1>5 DEF Next, vars

\* The screens without frames, and what Resume has still to write.
LEMMA WritesTyped ==
    ASSUME TypeOK, [Next]_vars
    PROVE  dead' \subseteq Phones /\ resumed' \in [Phones -> Resumed] /\ late' \subseteq Phones
<1>0. /\ dead \subseteq Phones /\ resumed \in [Phones -> Resumed] /\ late \subseteq Phones
      /\ job \in [Phones -> Job]
    BY DEF TypeOK, Job, Steps, Resumed
<1>1. ASSUME NEW p \in Phones, SetEndpoint(p) \/ RestartUnset(p)
      PROVE  dead' \subseteq Phones /\ resumed' \in [Phones -> Resumed] /\ late' \subseteq Phones
    BY <1>0, <1>1 DEF SetEndpoint, RestartUnset, Set
<1>2. ASSUME NEW p \in Phones, ResumeStep(p)
      PROVE  dead' \subseteq Phones /\ resumed' \in [Phones -> Resumed] /\ late' \subseteq Phones
    <2>1. [resumed[p] EXCEPT !.pc = "row"] \in Resumed
        BY <1>0 DEF Resumed
    <2>2. /\ \/ resumed' = [resumed EXCEPT ![p] = [resumed[p] EXCEPT !.pc = "row"]]
             \/ resumed' = [resumed EXCEPT ![p] = Written]
          /\ dead' \in {dead, dead \ {p}} /\ late' \in {late, late \ {p}, late \cup {p}}
        BY <1>0, <1>2 DEF ResumeStep, ResumeSet, ResumeRow, Set, served
    <2>3. QED
        BY <1>0, <2>1, <2>2, Constants
<1>3. ASSUME NEW p \in Phones, Probe(p)
      PROVE  dead' \subseteq Phones /\ resumed' \in [Phones -> Resumed] /\ late' \subseteq Phones
    <2>1. [pc |-> "set", port |-> job[p].port] \in Resumed
        BY <1>0 DEF Job, Resumed
    <2>2. /\ \/ resumed' = resumed
             \/ resumed' = [resumed EXCEPT ![p] = [pc |-> "set", port |-> job[p].port]]
          /\ dead' = dead /\ late' = late
        BY <1>3 DEF Probe, served
    <2>3. QED
        BY <1>0, <2>1, <2>2
<1>4. ASSUME NEW p \in Phones, Own(p), ~SetEndpoint(p), ~RestartUnset(p), ~ResumeStep(p), ~Probe(p)
      PROVE  UNCHANGED <<dead, resumed, late>>
    BY <1>4 DEF Own, Adopt, JobStep, UserRestarts, Watch, Build, Built, Install, Clear, Cleared,
       ReservePorts, Forward, Registered, SetIOSScreen, RestartStop, RestartFree, served, writes
<1>5. ASSUME NEW p \in Phones,
             WindowEnds(p) \/ WdaDies(p) \/ Unplug(p) \/ Plug(p) \/ Stall(p) \/ Flow(p)
      PROVE  dead' \in {dead, dead \cup {p}, dead \ {p}} /\ UNCHANGED <<resumed, late>>
    BY <1>5 DEF WindowEnds, WdaDies, Unplug, Plug, Stall, Flow, served, writes
<1>6. CASE Restart
    BY <1>0, <1>6, Constants DEF Restart
<1>7. CASE UNCHANGED <<dead, resumed, late>>
    BY <1>0, <1>7
<1>8. QED
    BY <1>0, <1>1, <1>2, <1>3, <1>4, <1>5, <1>6, <1>7 DEF Next, Own, vars, served, writes

\* What is out in the world, and the bounds.
LEMMA WorldTyped ==
    ASSUME TypeOK, [Next]_vars
    PROVE  /\ plugged' \subseteq Phones /\ up' \subseteq Phones /\ built' \in BOOLEAN
           /\ faults' \in 0..MaxFaults /\ requests' \in 0..MaxRequests
           /\ restarts' \in 0..MaxRestarts
<1>0. /\ plugged \subseteq Phones /\ up \subseteq Phones /\ built \in BOOLEAN
      /\ faults \in 0..MaxFaults /\ requests \in 0..MaxRequests /\ restarts \in 0..MaxRestarts
      /\ {MaxFaults, MaxRequests, MaxRestarts} \subseteq Nat
    BY WdaAssumption DEF TypeOK
<1>1. ASSUME NEW p \in Phones, Own(p)
      PROVE  /\ plugged' = plugged /\ restarts' = restarts
             /\ built' \in BOOLEAN /\ up' \subseteq Phones
    BY <1>0, <1>1 DEF Own, Adopt, JobStep, ResumeStep, UserRestarts, Watch, Build, Built, Install,
       Clear, Cleared, ReservePorts, Forward, Probe, Registered, SetEndpoint, SetIOSScreen,
       ResumeSet, ResumeRow, Set, RestartUnset, RestartStop, RestartFree, StopWDA, world, bounds
<1>2. ASSUME NEW p \in Phones, Own(p)
      PROVE  faults' \in 0..MaxFaults /\ requests' \in 0..MaxRequests
    BY <1>0, <1>2 DEF Own, Adopt, JobStep, ResumeStep, UserRestarts, Watch, Build, Built, Install,
       Clear, Cleared, ReservePorts, Forward, Probe, Registered, SetEndpoint, SetIOSScreen,
       ResumeSet, ResumeRow, Set, RestartUnset, RestartStop, RestartFree, bounds
<1>3. ASSUME NEW p \in Phones,
             WindowEnds(p) \/ WdaDies(p) \/ Unplug(p) \/ Plug(p) \/ Stall(p) \/ Flow(p)
      PROVE  /\ plugged' \subseteq Phones /\ up' \subseteq Phones
             /\ faults' \in 0..MaxFaults /\ UNCHANGED <<built, requests, restarts>>
    BY <1>0, <1>3 DEF WindowEnds, WdaDies, Unplug, Plug, Stall, Flow, world, bounds
<1>4. ASSUME Restart
      PROVE  /\ up' = {} /\ restarts' \in 0..MaxRestarts
             /\ UNCHANGED <<plugged, built, faults, requests>>
    BY <1>0, <1>4 DEF Restart
<1>5. QED
    BY <1>0, <1>1, <1>2, <1>3, <1>4 DEF Next, Own, vars, world, bounds

-----------------------------------------------------------------------------
(* Ports, endpoints and listeners                                          *)

\* The ports held, the endpoints, the farm and the rows stay typed, and no port
\* is given to two phones.
LEMMA PortsTyped ==
    ASSUME IInv, [Next]_vars
    PROVE  /\ procs' \in [Phones -> Ports \cup {NoPort}]
           /\ \A p, q \in Phones : p # q /\ procs'[p] # NoPort => procs'[p] # procs'[q]
           /\ adopted' \subseteq Phones
           /\ endpoint' \in [Phones -> Ports \cup {NoPort}]
           /\ screen' \in [Phones -> Ports \cup {NoPort}]
           /\ listener' \in [Ports -> Phones \cup {NoPhone}]
<1> DEFINE Distinct == \A p, q \in Phones : p # q /\ procs[p] # NoPort => procs[p] # procs[q]
<1>0. /\ procs \in [Phones -> Ports \cup {NoPort}] /\ Distinct
      /\ adopted \subseteq Phones /\ job \in [Phones -> Job] /\ resumed \in [Phones -> Resumed]
      /\ endpoint \in [Phones -> Ports \cup {NoPort}]
      /\ screen \in [Phones -> Ports \cup {NoPort}]
      /\ listener \in [Ports -> Phones \cup {NoPhone}]
    BY DEF IInv, TypeOK, Job, Steps, Resumed
<1>1. ASSUME NEW p \in Phones, procs' = [procs EXCEPT ![p] = NoPort] \/ UNCHANGED procs
      PROVE  procs' \in [Phones -> Ports \cup {NoPort}] /\ Distinct'
    BY <1>0, <1>1
<1>2. ASSUME NEW p \in Phones, ReservePorts(p)
      PROVE  procs' \in [Phones -> Ports \cup {NoPort}] /\ Distinct'
    <2>1. PICK q \in Ports : /\ \A r \in Phones : procs[r] # q
                             /\ procs' = [procs EXCEPT ![p] = q]
        BY <1>2 DEF ReservePorts, FreePorts
    <2>2. QED
        BY <1>0, <2>1
<1>3. ASSUME NEW p \in Phones, Own(p)
      PROVE  procs' \in [Phones -> Ports \cup {NoPort}] /\ Distinct'
    <2>1. CASE ReservePorts(p)
        BY <1>2, <2>1
    <2>2. CASE ~ReservePorts(p)
        <3>1. procs' = [procs EXCEPT ![p] = NoPort] \/ UNCHANGED procs
            BY <1>3, <2>2 DEF Own, Adopt, JobStep, ResumeStep, UserRestarts, Watch, Build, Built,
               Install, Clear, Cleared, Forward, Probe, Registered, SetEndpoint, SetIOSScreen,
               ResumeSet, ResumeRow, Set, RestartUnset, RestartStop, RestartFree, StopWDA
        <3>2. QED
            BY <1>1, <3>1
    <2>3. QED
        BY <2>1, <2>2
<1>4. ASSUME NEW p \in Phones, Own(p)
      PROVE  adopted' \subseteq Phones /\ endpoint' \in [Phones -> Ports \cup {NoPort}]
    <2>1. job[p].port \in Ports \cup {NoPort} /\ resumed[p].port \in Ports \cup {NoPort}
        BY <1>0 DEF Job, Resumed
    <2>2. QED
        BY <1>0, <1>4, <2>1 DEF Own, Adopt, JobStep, ResumeStep, UserRestarts, Watch, Build, Built,
           Install, Clear, Cleared, ReservePorts, Forward, Probe, Registered, SetEndpoint,
           SetIOSScreen, ResumeSet, ResumeRow, Set, RestartUnset, RestartStop, RestartFree, tables,
           served
<1>5. ASSUME NEW p \in Phones, Own(p)
      PROVE  screen' \in [Phones -> Ports \cup {NoPort}]
    <2>1. job[p].port \in Ports \cup {NoPort} /\ resumed[p].port \in Ports \cup {NoPort}
        BY <1>0 DEF Job, Resumed
    <2>2. QED
        BY <1>0, <1>5, <2>1 DEF Own, Adopt, JobStep, ResumeStep, UserRestarts, Watch, Build, Built,
           Install, Clear, Cleared, ReservePorts, Forward, Probe, Registered, SetEndpoint,
           SetIOSScreen, ResumeSet, ResumeRow, Set, RestartUnset, RestartStop, RestartFree, tables
<1>6. ASSUME NEW p \in Phones, Own(p)
      PROVE  listener' \in [Ports -> Phones \cup {NoPhone}]
    <2>1. CASE Clear(p) \/ RestartStop(p) \/ Probe(p)
        BY <1>0, <2>1 DEF Clear, RestartStop, Probe, StopWDA
    <2>2. CASE Cleared(p) \/ RestartFree(p) \/ Forward(p)
        BY <1>0, <2>2 DEF Cleared, RestartFree, FreePort, Forward
    <2>3. QED
        BY <1>0, <1>6, <2>1, <2>2 DEF Own, Adopt, JobStep, ResumeStep, UserRestarts, Watch, Build,
           Built, Install, ReservePorts, Registered, SetEndpoint, SetIOSScreen, ResumeSet,
           ResumeRow, Set, RestartUnset, world
<1>7. CASE Restart
    BY <1>0, <1>7 DEF Restart, tables
<1>8. CASE UNCHANGED <<procs, adopted, endpoint, screen, listener>>
    BY <1>0, <1>8
<1>9. QED
    BY <1>3, <1>4, <1>5, <1>6, <1>7, <1>8, WorldSteps DEF Next, Own, vars, world, tables,
       served

\* What a job's own step does to its port in hand and to its phone's endpoint.
LEMMA OwnPort ==
    ASSUME IInv, NEW p \in Phones, Own(p), job' \in [Phones -> Job]
    PROVE  /\ job'[p].pc \in {"cleared", "reserve"} => procs'[p] = NoPort
           /\ job'[p].pc \in {"forward", "probe", "set", "register", "row"} =>
                 job'[p].port = procs'[p] /\ procs'[p] # NoPort
           /\ job'[p].pc = "register" /\ p \notin late' => endpoint'[p] = job'[p].port
           /\ p \in adopted' \ late' => /\ endpoint'[p] # NoPort => endpoint'[p] = procs'[p]
                                        /\ job'[p].pc \in Rebuilding => endpoint'[p] = NoPort
<1>0. /\ job \in [Phones -> Job] /\ procs \in [Phones -> Ports \cup {NoPort}]
      /\ endpoint \in [Phones -> Ports \cup {NoPort}] /\ NoPort \notin Ports
      /\ job[p].pc \in {"cleared", "reserve"} => procs[p] = NoPort
      /\ job[p].pc \in {"forward", "probe", "set", "register", "row"} =>
            job[p].port = procs[p] /\ procs[p] # NoPort
      /\ job[p].pc = "register" /\ p \notin late => endpoint[p] = job[p].port
      /\ p \in adopted \ late => /\ endpoint[p] # NoPort => endpoint[p] = procs[p]
                                 /\ job[p].pc \in Rebuilding => endpoint[p] = NoPort
    BY Constants DEF IInv, TypeOK, Job, Steps, PortInHand, EndpointIsHeld
<1>1. ASSUME NEW pc, Goto(p, pc)
      PROVE  job'[p].pc = pc /\ job'[p].port = job[p].port
    BY <1>0, <1>1 DEF Goto, Job
<1>2. ASSUME End(p)
      PROVE  job'[p].pc = "none"
    BY <1>0, <1>2 DEF End, Idle
<1>3. CASE Adopt(p)
    BY <1>0, <1>1, <1>3 DEF Adopt, At, tables, served, writes, Rebuilding
<1>4. CASE Build(p)
    BY <1>0, <1>1, <1>4 DEF Build, At, tables, served, writes, Rebuilding
<1>5. CASE Built(p)
    BY <1>0, <1>1, <1>2, <1>5 DEF Built, At, tables, served, writes, Rebuilding
<1>6. CASE Install(p)
    BY <1>0, <1>1, <1>2, <1>6 DEF Install, At, tables, served, writes, Rebuilding
<1>7. CASE Clear(p)
    <2>1. procs'[p] = NoPort /\ job'[p].pc = "cleared" /\ UNCHANGED <<endpoint, adopted, late>>
        BY <1>0, <1>7 DEF Clear, StopWDA, Job, tables, served, writes
    <2>2. QED
        BY <1>0, <1>7, <2>1 DEF Clear, At, Rebuilding
<1>8. CASE Cleared(p)
    <2>1. job'[p].pc = "reserve" /\ UNCHANGED <<procs, endpoint, adopted, late>>
        BY <1>0, <1>8 DEF Cleared, FreePort, Job, tables, served, writes
    <2>2. QED
        BY <1>0, <1>8, <2>1 DEF Cleared, At, Rebuilding
<1>9. CASE ReservePorts(p)
    <2>1. PICK q \in Ports : /\ procs' = [procs EXCEPT ![p] = q]
                             /\ job' = [job EXCEPT ![p].pc = "forward", ![p].port = q]
        BY <1>9 DEF ReservePorts, FreePorts
    <2>2. /\ procs'[p] = q /\ job'[p].pc = "forward" /\ job'[p].port = q
          /\ UNCHANGED <<endpoint, adopted, late>>
        BY <1>0, <1>9, <2>1 DEF ReservePorts, Job, tables, served, writes
    <2>3. QED
        BY <1>0, <1>9, <2>2 DEF ReservePorts, At, Rebuilding
<1>10. CASE Forward(p)
    BY <1>0, <1>1, <1>10 DEF Forward, At, tables, served, writes, Rebuilding
<1>11. CASE Probe(p)
    BY <1>0, <1>1, <1>2, <1>11 DEF Probe, At, tables, served, writes, Rebuilding
<1>12. CASE SetEndpoint(p)
    BY <1>0, <1>1, <1>12 DEF SetEndpoint, Set, At, tables, Rebuilding
<1>13. CASE Registered(p)
    BY <1>0, <1>1, <1>2, <1>13 DEF Registered, At, served, writes, Rebuilding
<1>14. CASE SetIOSScreen(p)
    BY <1>0, <1>2, <1>14 DEF SetIOSScreen, At, served, writes, Rebuilding
<1>15. CASE RestartUnset(p)
    BY <1>0, <1>1, <1>15 DEF RestartUnset, Set, At, tables, Rebuilding
<1>16. CASE RestartStop(p)
    <2>1. procs'[p] = NoPort /\ job'[p].pc = "free" /\ UNCHANGED <<endpoint, adopted, late>>
        BY <1>0, <1>16 DEF RestartStop, StopWDA, Job, tables, served, writes
    <2>2. QED
        BY <1>0, <1>16, <2>1 DEF RestartStop, At, Rebuilding
<1>17. CASE RestartFree(p)
    <2>1. job'[p].pc = "build" /\ UNCHANGED <<procs, endpoint, adopted, late>>
        BY <1>0, <1>17 DEF RestartFree, FreePort, Job, tables, served, writes
    <2>2. QED
        BY <1>0, <1>17, <2>1 DEF RestartFree, At, Rebuilding
<1>18. CASE UserRestarts(p)
    BY <1>0, <1>1, <1>18 DEF UserRestarts, RestartScreen, At, tables, served,
       writes, Rebuilding
<1>19. CASE Watch(p)
    <2>1. /\ UNCHANGED <<procs, endpoint, adopted, late>>
          /\ UNCHANGED job \/ Goto(p, "unset")
        BY <1>19 DEF Watch, RestartScreen, tables, served, writes
    <2>2. QED
        BY <1>0, <1>1, <2>1 DEF Rebuilding
<1>20. CASE ResumeSet(p)
    <2>1. /\ endpoint'[p] = resumed[p].port /\ UNCHANGED <<procs, adopted, job>>
          /\ p \notin late' => job[p].pc = "none" /\ procs[p] = resumed[p].port
        BY <1>0, <1>20 DEF ResumeSet, Set, At, tables
    <2>2. QED
        BY <1>0, <2>1 DEF Rebuilding
<1>21. CASE ResumeRow(p)
    BY <1>0, <1>21 DEF ResumeRow, served, Rebuilding
<1>22. QED
    BY <1>3, <1>4, <1>5, <1>6, <1>7, <1>8, <1>9, <1>10, <1>11, <1>12, <1>13, <1>14, <1>15, <1>16,
       <1>17, <1>18, <1>19, <1>20, <1>21 DEF Own, JobStep, ResumeStep

LEMMA EndpointStep ==
    ASSUME IInv, [Next]_vars
    PROVE  PortInHand' /\ EndpointIsHeld'
<1>1. PortInHand /\ EndpointIsHeld /\ TypeOK
    BY DEF IInv
<1>2. job' \in [Phones -> Job] /\ adopted' \subseteq Phones /\ adopted \subseteq Phones
    BY <1>1, JobTyped, PortsTyped DEF TypeOK
<1>3. ASSUME NEW r \in Phones, Own(r)
      PROVE  PortInHand' /\ EndpointIsHeld'
    <2>1. ASSUME NEW p \in Phones
          PROVE  /\ job'[p].pc \in {"cleared", "reserve"} => procs'[p] = NoPort
                 /\ job'[p].pc \in {"forward", "probe", "set", "register", "row"} =>
                       job'[p].port = procs'[p] /\ procs'[p] # NoPort
                 /\ job'[p].pc = "register" /\ p \notin late' => endpoint'[p] = job'[p].port
                 /\ p \in adopted' \ late' => /\ endpoint'[p] # NoPort => endpoint'[p] = procs'[p]
                                              /\ job'[p].pc \in Rebuilding => endpoint'[p] = NoPort
        <3>1. CASE p = r
            BY <1>2, <1>3, <3>1, OwnPort
        <3>2. CASE p # r
            BY <1>1, <1>3, <3>2, OthersStay DEF PortInHand, EndpointIsHeld
        <3>3. QED
            BY <3>1, <3>2
    <2>2. QED
        BY <1>2, <2>1 DEF PortInHand, EndpointIsHeld
<1>4. CASE Restart
    <2>1. ASSUME NEW p \in Phones
          PROVE  job'[p].pc \in {"none", "build"} /\ endpoint'[p] = NoPort
        BY <1>4 DEF Restart, Idle
    <2>2. QED
        BY <1>2, <2>1 DEF PortInHand, EndpointIsHeld
<1>5. CASE UNCHANGED <<job, procs, endpoint, adopted, late>>
    BY <1>1, <1>5 DEF PortInHand, EndpointIsHeld
<1>6. QED
    BY <1>3, <1>4, <1>5, WorldSteps DEF Next, Own, vars, tables, served, writes

\* Only Forward makes a phone listen, on the port it holds; and no phone gives up
\* its port, or takes one, with a listener of its own left behind.
LEMMA ListenerStep ==
    ASSUME IInv, [Next]_vars
    PROVE  ListenerHolds'
<1>0. /\ ListenerHolds /\ PortInHand /\ job \in [Phones -> Job]
      /\ listener \in [Ports -> Phones \cup {NoPhone}]
      /\ procs \in [Phones -> Ports \cup {NoPort}]
      /\ NoPhone \notin Phones /\ NoPort \notin Ports
    BY Constants DEF IInv, TypeOK, Job, Steps
<1>1. ASSUME NEW r \in Phones, Own(r)
      PROVE  ListenerHolds'
    <2>1. ASSUME \A q \in Ports : listener'[q] \in Phones => listener'[q] = listener[q],
                 UNCHANGED procs
          PROVE  ListenerHolds'
        BY <1>0, <2>1 DEF ListenerHolds
    <2>2. ASSUME \A q \in Ports :
                    listener'[q] \in Phones => listener'[q] = listener[q] /\ listener[q] # r,
                 procs' = [procs EXCEPT ![r] = NoPort]
          PROVE  ListenerHolds'
        BY <1>0, <2>2 DEF ListenerHolds
    <2>3. CASE Clear(r) \/ RestartStop(r)
        <3>1. /\ listener' = [q \in Ports |-> IF listener[q] = r THEN NoPhone ELSE listener[q]]
              /\ procs' = [procs EXCEPT ![r] = NoPort]
            BY <2>3 DEF Clear, RestartStop, StopWDA
        <3>2. QED
            BY <1>0, <2>2, <3>1
    <2>4. CASE Cleared(r) \/ RestartFree(r)
        <3>1. /\ \/ UNCHANGED listener
                 \/ \E q \in Ports : listener' = [listener EXCEPT ![q] = NoPhone]
              /\ UNCHANGED procs
            <4>1. job[r].port \in Ports \cup {NoPort}
                BY <1>0 DEF Job
            <4>2. QED
                BY <2>4, <4>1 DEF Cleared, RestartFree, FreePort
        <3>2. QED
            BY <1>0, <2>1, <3>1
    <2>5. CASE ReservePorts(r)
        <3>1. UNCHANGED listener /\ \E q \in Ports : procs' = [procs EXCEPT ![r] = q]
            BY <2>5 DEF ReservePorts, FreePorts, world
        <3>2. procs[r] = NoPort
            BY <1>0, <2>5 DEF ReservePorts, At, PortInHand
        <3>3. QED
            BY <1>0, <3>1, <3>2 DEF ListenerHolds
    <2>6. CASE Forward(r)
        <3>1. /\ procs[r] = job[r].port /\ procs[r] \in Ports
              /\ UNCHANGED procs
              /\ UNCHANGED listener \/ listener' = [listener EXCEPT ![job[r].port] = r]
            BY <1>0, <2>6 DEF Forward, At, PortInHand
        <3>2. QED
            BY <1>0, <3>1 DEF ListenerHolds
    <2>7. CASE Probe(r)
        <3>1. \/ UNCHANGED <<listener, procs>>
              \/ /\ listener' = [q \in Ports |-> IF listener[q] = r THEN NoPhone ELSE listener[q]]
                 /\ procs' = [procs EXCEPT ![r] = NoPort]
            BY <2>7 DEF Probe
        <3>2. QED
            BY <1>0, <2>1, <2>2, <3>1
    <2>8. UNCHANGED <<listener, procs>> => ListenerHolds'
        BY <2>1
    <2>9. QED
        BY <1>1, <2>3, <2>4, <2>5, <2>6, <2>7, <2>8 DEF Own, JobStep, ResumeStep, Adopt, Build,
           Built, Install, Registered, SetEndpoint, SetIOSScreen, ResumeSet, ResumeRow,
           RestartUnset, UserRestarts, Watch, world
<1>2. CASE Restart
    BY <1>0, <1>2 DEF Restart, ListenerHolds
<1>3. CASE UNCHANGED <<listener, procs>>
    BY <1>0, <1>3 DEF ListenerHolds
<1>4. QED
    BY <1>1, <1>2, <1>3, WorldSteps DEF Next, Own, vars, world

-----------------------------------------------------------------------------
(* The invariant                                                           *)

LEMMA InvariantInit == ASSUME Init PROVE IInv
<1>1. /\ \A n \in {MaxHeals, MaxFaults, MaxRequests, MaxRestarts} : n \in Nat /\ 0 \in 0..n
      /\ [fails |-> 0, heals |-> 0] \in Heal
    BY WdaAssumption DEF Heal
<1>2. TypeOK
    BY <1>1, Constants DEF Init, Fresh, TypeOK, Job, Heal, Steps, Resumed
<1>3. QED
    BY <1>2, Constants DEF Init, Fresh, IInv, PortInHand, EndpointIsHeld, ListenerHolds, Idle

LEMMA InvariantStep ==
    ASSUME IInv, [Next]_vars
    PROVE  IInv'
<1>1. TypeOK
    BY DEF IInv
<1>2. TypeOK'
    BY <1>1, JobTyped, HealTyped, WritesTyped, WorldTyped, PortsTyped DEF TypeOK, Job, Heal,
       Steps, Resumed
<1>3. QED
    BY <1>2, EndpointStep, ListenerStep DEF IInv

\* The four parts together hold from the start and through every step of the
\* jobs, the watchdog and a restart.
THEOREM Invariant == Spec => []IInv
<1>1. IInv /\ [Next]_vars => IInv'
    BY InvariantStep
<1>2. QED
    BY InvariantInit, <1>1, PTL DEF Spec

-----------------------------------------------------------------------------
(* What a reader should know of                                            *)

\* The state stays typed, and no port is ever reserved for two phones
\* (provision.reservePorts).
THEOREM Typing == Spec => []TypeOK
<1>1. IInv => TypeOK
    BY DEF IInv
<1>2. QED
    BY Invariant, <1>1, PTL

\* The port the server looks at for a phone on the farm is forwarded to that
\* phone or to nobody, whatever jobs, watchdog, faults and restarts do to the
\* ports meanwhile (provision.stopWDA, reservePorts, SetEndpoint), as long as
\* Resume has not written it over a newer restart of the same screen.
THEOREM NobodySeesAnother == Spec => []NoCrossTalk
<1>1. ASSUME IInv, NEW p \in adopted \ late, endpoint[p] # NoPort
      PROVE  listener[endpoint[p]] \in {p, NoPhone}
    <2>1. /\ procs[p] = endpoint[p] /\ p \in Phones /\ endpoint[p] \in Ports
          /\ listener[endpoint[p]] \in Phones \cup {NoPhone}
        BY <1>1 DEF IInv, TypeOK, EndpointIsHeld
    <2>2. CASE listener[endpoint[p]] \in Phones
        <3> DEFINE r == listener[endpoint[p]]
        <3>1. procs[r] = procs[p]
            BY <1>1, <2>1, <2>2 DEF IInv, ListenerHolds
        <3>2. r = p
            BY <1>1, <2>1, <2>2, <3>1 DEF IInv, TypeOK
        <3>3. QED
            BY <3>2
    <2>3. QED
        BY <2>1, <2>2
<1>2. IInv => NoCrossTalk
    BY <1>1 DEF NoCrossTalk
<1>3. QED
    BY Invariant, <1>2, PTL

-----------------------------------------------------------------------------
(* How ports change hands                                                  *)

\* A port that a phone holds is not given to another in the step that takes it
\* away, and a phone of the farm that loses its port has no screen to look for
\* when it does, unless Resume wrote one over a newer restart.
PortsAreGivenBack ==
    \A p \in Phones : procs[p] # NoPort =>
        /\ \A r \in Phones \ {p} : procs'[r] # procs[p]
        /\ procs'[p] # procs[p] =>
              /\ procs'[p] = NoPort
              /\ p \in adopted' \ late' => endpoint'[p] = NoPort

\* A phone's entry stays, goes, or is a free port where there was none.
LEMMA ProcSteps ==
    ASSUME IInv, [Next]_vars, NEW p \in Phones
    PROVE  \/ procs'[p] \in {procs[p], NoPort}
           \/ procs[p] = NoPort /\ procs'[p] \in FreePorts
<1>0. TypeOK
    BY DEF IInv
<1>1. ASSUME NEW r \in Phones, ReservePorts(r)
      PROVE  \/ procs'[p] \in {procs[p], NoPort}
             \/ procs[p] = NoPort /\ procs'[p] \in FreePorts
    <2>1. PICK q \in FreePorts : procs' = [procs EXCEPT ![r] = q]
        BY <1>1 DEF ReservePorts
    <2>2. procs[r] = NoPort
        BY <1>1 DEF ReservePorts, At, IInv, PortInHand
    <2>3. QED
        BY <1>0, <2>1, <2>2 DEF TypeOK
<1>2. ASSUME NEW r \in Phones, Clear(r) \/ RestartStop(r) \/ Probe(r)
      PROVE  procs'[p] \in {procs[p], NoPort}
    <2>1. procs' = procs \/ procs' = [procs EXCEPT ![r] = NoPort]
        BY <1>2 DEF Clear, RestartStop, Probe, StopWDA
    <2>2. QED
        BY <1>0, <2>1 DEF TypeOK
<1>3. ASSUME NEW r \in Phones, Own(r), ~ReservePorts(r), ~Clear(r), ~RestartStop(r), ~Probe(r)
      PROVE  procs' = procs
    BY <1>3 DEF Own, Adopt, JobStep, ResumeStep, UserRestarts, Watch, Build, Built, Install,
       Cleared, Forward, Registered, SetEndpoint, SetIOSScreen, ResumeSet, ResumeRow, Set,
       RestartUnset, RestartFree
<1>4. CASE Restart
    BY <1>4 DEF Restart
<1>5. CASE UNCHANGED procs
    BY <1>5
<1>6. QED
    BY <1>1, <1>2, <1>3, <1>4, <1>5, WorldSteps DEF Next, Own, vars

\* A port passes from one phone to another only through being free, and never
\* while the server still looks at it for the phone that had it
\* (provision.stopWDA deletes the entry, RestartScreen unsets the endpoint first),
\* but for an endpoint that Resume wrote over the restart that unset it.
THEOREM PortsPassThroughFree == Spec => [][PortsAreGivenBack]_vars
<1>1. ASSUME IInv, IInv', [Next]_vars
      PROVE  PortsAreGivenBack
    <2> SUFFICES ASSUME NEW p \in Phones, procs[p] # NoPort
                 PROVE  /\ \A r \in Phones \ {p} : procs'[r] # procs[p]
                        /\ procs'[p] # procs[p] =>
                              /\ procs'[p] = NoPort
                              /\ p \in adopted' \ late' => endpoint'[p] = NoPort
        BY DEF PortsAreGivenBack
    <2>1. ASSUME NEW r \in Phones \ {p}
          PROVE  procs'[r] # procs[p]
        <3>1. CASE procs'[r] \in {procs[r], NoPort}
            BY <1>1, <3>1 DEF IInv, TypeOK
        <3>2. CASE procs'[r] \in FreePorts
            BY <3>2 DEF FreePorts
        <3>3. QED
            BY <1>1, <3>1, <3>2, ProcSteps
    <2>2. ASSUME procs'[p] # procs[p]
          PROVE  procs'[p] = NoPort
        BY <1>1, <2>2, ProcSteps
    <2>3. ASSUME procs'[p] = NoPort, p \in adopted' \ late'
          PROVE  endpoint'[p] = NoPort
        BY <1>1, <2>3 DEF IInv, EndpointIsHeld
    <2>4. QED
        BY <2>1, <2>2, <2>3
<1>2. IInv /\ IInv' /\ [Next]_vars => [PortsAreGivenBack]_vars
    BY <1>1
<1>3. QED
    BY <1>2, Invariant, PTL DEF Spec
=============================================================================
