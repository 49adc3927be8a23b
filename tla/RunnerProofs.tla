---------------------------- MODULE RunnerProofs -----------------------------
(***************************************************************************)
(* Proofs about Runner, for every number of devices, users, runs and       *)
(* crashes: the state stays typed, one run executes at a time, the results *)
(* of ended runs are complete, correct and final, the batches of ended     *)
(* runs are given back, no wake-up is lost, the leases are as Lease        *)
(* promises them, and the runs are served as RunQueue says.                *)
(***************************************************************************)
EXTENDS Runner, FiniteSetTheorems, TLAPS

LeaseRow == [user : Users \cup {Nobody}, batch : Batches \cup {NoBatch},
             idle : 0..(IdleTimeout + 1)]
RunRow == [status : {"none", "queued", "running"} \cup Ended,
           user : Users \cup {Nobody}, batch : Batches \cup {NoBatch}]
DeviceRow == {"none", "pending", "running"} \cup Verdicts
Submissions == [pc : {"idle", "classify", "create", "undo", "signal"},
                user : Users \cup {Nobody}, devs : SUBSET Devices,
                unread : SUBSET Devices, held : SUBSET Devices,
                batch : Batches \cup {NoBatch}]
Schedulers == [pc : {"start", "orphans", "orphan", "scan", "drained", "wait",
                     "begin", "work", "list", "release"},
               n : RunIds \cup {0}, todo : SUBSET RunIds, devs : SUBSET Devices]

-----------------------------------------------------------------------------
(* The inductive invariant                                                 *)

\* The rows marked "running" are those the scheduler knows to be: the run it
\* executes, or the orphans it has still to recover.
RunningIsKnown ==
    /\ \A m, n \in Having("running") : m = n
    /\ sched.pc \in {"scan", "drained", "wait", "begin"} => Having("running") = {}
    /\ sched.pc = "begin" => sched.n \in Having("queued") /\ sched.todo = {}
    /\ sched.pc = "work" => Having("running") = {sched.n} /\ sched.todo = {}
    /\ sched.pc \in {"orphans", "list", "release"} => Having("running") = sched.todo
    /\ sched.pc = "orphan" => /\ sched.n \notin sched.todo
                              /\ Having("running") = sched.todo \cup {sched.n}
    /\ sched.pc \in {"list", "release"} => sched.n \in RunIds

\* A row that was created has devices, and a verdict for each when it ends.
RunsHaveDevices ==
    /\ \A n \in RunIds : run[n].status # "none" => Got(n) # {}
    /\ \A n \in RunIds : run[n].status \in Ended => Got(n) \subseteq Verdicts
    /\ sched.pc = "orphan" => Got(sched.n) \subseteq Verdicts

\* The request in Submit: it has devices and a row to create, the batch it has
\* booked is nobody else's, and it knows all of it when it gives it back.
SubmissionKnows ==
    /\ sub.pc \in {"classify", "create"} =>
            /\ sub.devs # {} /\ Having("none") # {}
            /\ sub.user \in Users
    /\ sub.pc = "classify" => sub.batch = NoBatch
    /\ sub.pc \in {"create", "undo"} /\ sub.batch # NoBatch =>
            \A n \in RunIds : run[n].batch # sub.batch
    /\ sub.pc = "undo" => /\ sub.batch # NoBatch
                          /\ InBatch(sub.batch) \subseteq sub.unread

\* Batches with devices that neither a run nor the request in Submit knows of:
\* each was booked just before the process died.
Lost == {b \in Batches : /\ InBatch(b) # {}
                         /\ \A n \in RunIds : run[n].batch # b
                         /\ sub.pc \in {"create", "undo"} => sub.batch # b}

BatchesAreKnown ==
    /\ \A n \in RunIds : run[n].status = "none" => run[n].batch = NoBatch
    /\ IsFiniteSet(Lost)
    /\ Cardinality(Lost) <= crashes
    /\ sched.pc = "release" => /\ run[sched.n].batch # NoBatch
                               /\ InBatch(run[sched.n].batch) \subseteq sched.devs

\* NoLostWakeup, also between the query that found no run and the select.
QueuedIsAnnounced ==
    sched.pc \in {"drained", "wait"} /\ Having("queued") # {} => wake \/ sub.pc = "signal"

IInv ==
    /\ TypeOK
    /\ RunningIsKnown
    /\ RunsHaveDevices
    /\ PassedRunsHaveNoFailure
    /\ SubmissionKnows
    /\ BatchesAreKnown
    /\ EndedRunsHoldNothing
    /\ QueuedIsAnnounced

-----------------------------------------------------------------------------
(* Run and batch numbers                                                   *)

\* A set of numbers that is not empty has a least one.
LEMMA LeastNumber ==
    ASSUME NEW S \in SUBSET Nat, S # {}
    PROVE  Least(S) \in S /\ \A m \in S : Least(S) <= m
<1> DEFINE R == {e \in Nat \X Nat : e[1] < e[2]}
<1>1. IsWellFoundedOn(R, Nat)
    BY NatLessThanWellFounded DEF OpToRel
<1>2. \A n, m \in S : m < n => <<m, n>> \in R
    OBVIOUS
<1> HIDE DEF R
<1>3. PICK n \in S : \A m \in S : ~(<<m, n>> \in R)
    BY <1>1, WFMin
<1>4. \A m \in S : ~(m < n)
    BY <1>2, <1>3
<1>5. \A m \in S : n <= m
    BY <1>4
<1>6. QED
    BY <1>5 DEF Least

\* The oldest run of those that have a status is one of them.
LEMMA LeastRun ==
    ASSUME NEW st, Having(st) # {}
    PROVE  Least(Having(st)) \in RunIds /\ run[Least(Having(st))].status = st
<1>1. Having(st) \in SUBSET Nat
    BY RunnerAssumption DEF Having, RunIds
<1> HIDE DEF Having
<1>2. Least(Having(st)) \in Having(st)
    BY <1>1, LeastNumber
<1>3. QED
    BY <1>2 DEF Having

\* The runs' batches, at least one run being without, and those that crashes
\* have cut off are fewer than the batch numbers: Submit finds a fresh one.
LEMMA FreshBatch ==
    ASSUME IInv, sub.pc = "classify"
    PROVE  /\ UnusedBatch \in Batches
           /\ InBatch(UnusedBatch) = {}
           /\ \A n \in RunIds : run[n].batch # UnusedBatch
<1> DEFINE free == {b \in Batches : InBatch(b) = {} /\ \A n \in RunIds : run[n].batch # b}
           others(k) == RunIds \ {k}
           batchOf(k) == [n \in others(k) |-> run[n].batch]
           owned(k) == {batchOf(k)[n] : n \in others(k)}
<1>1. PICK k \in RunIds : run[k].status = "none"
    BY DEF IInv, SubmissionKnows, Having
<1>2. IsFiniteSet(RunIds) /\ Cardinality(RunIds) = MaxRuns
    BY FS_Interval, RunnerAssumption DEF RunIds
<1>3. IsFiniteSet(others(k)) /\ Cardinality(others(k)) = MaxRuns - 1
    BY <1>2, FS_RemoveElement
<1>4. batchOf(k) \in Surjection(others(k), owned(k))
    BY DEF Surjection
<1> HIDE DEF batchOf
<1>5. IsFiniteSet(owned(k)) /\ Cardinality(owned(k)) <= MaxRuns - 1
    BY <1>3, <1>4, FS_Surjection
<1>6. IsFiniteSet(owned(k) \cup Lost)
      /\ Cardinality(owned(k) \cup Lost) <= MaxRuns - 1 + MaxCrashes
    <2>1. /\ IsFiniteSet(owned(k) \cup Lost)
          /\ Cardinality(owned(k) \cup Lost)
                = Cardinality(owned(k)) + Cardinality(Lost) - Cardinality(owned(k) \cap Lost)
        BY <1>5, FS_Union DEF IInv, BatchesAreKnown
    <2>2. IsFiniteSet(owned(k) \cap Lost)
        BY <1>5, FS_Intersection
    <2>3. /\ Cardinality(owned(k)) \in Nat /\ Cardinality(Lost) \in Nat
          /\ Cardinality(owned(k) \cap Lost) \in Nat
        BY <1>5, <2>2, FS_CardinalityType DEF IInv, BatchesAreKnown
    <2>4. Cardinality(Lost) <= MaxCrashes
        BY <2>3, RunnerAssumption DEF IInv, BatchesAreKnown, TypeOK
    <2>5. QED
        BY <1>5, <2>1, <2>3, <2>4, RunnerAssumption
<1>7. IsFiniteSet(Batches) /\ Cardinality(Batches) = MaxRuns + MaxCrashes
    <2> DEFINE m == MaxRuns + MaxCrashes
    <2>1. m \in Nat
        BY RunnerAssumption
    <2> HIDE DEF m
    <2>2. IsFiniteSet(1..m) /\ Cardinality(1..m) = IF 1 > m THEN 0 ELSE m - 1 + 1
        BY <2>1, FS_Interval
    <2>3. IsFiniteSet(1..m) /\ Cardinality(1..m) = m
        BY <2>1, <2>2
    <2>4. QED
        BY <2>3 DEF Batches, m
<1>8. ~(Batches \subseteq owned(k) \cup Lost)
    <2>1. SUFFICES ASSUME Batches \subseteq owned(k) \cup Lost PROVE FALSE
        OBVIOUS
    <2>2. Cardinality(Batches) <= Cardinality(owned(k) \cup Lost)
        BY <1>6, <2>1, FS_Subset
    <2>3. Cardinality(owned(k) \cup Lost) \in Nat
        BY <1>6, FS_CardinalityType
    <2>4. QED
        BY <1>6, <1>7, <2>2, <2>3, RunnerAssumption
<1>9. PICK b \in Batches : b \notin owned(k) /\ b \notin Lost
    BY <1>8
<1>10. run[k].batch # b
    BY <1>1, RunnerAssumption DEF IInv, BatchesAreKnown, Batches, NoBatch
<1>11. \A n \in RunIds : run[n].batch # b
    BY <1>9, <1>10 DEF batchOf
<1>12. b \in free
    BY <1>9, <1>11 DEF Lost
<1>13. free \in SUBSET Nat
    BY RunnerAssumption DEF Batches
<1> HIDE DEF free
<1>14. Least(free) \in free
    BY <1>12, <1>13, LeastNumber
<1>15. UnusedBatch = Least(free)
    BY DEF UnusedBatch, free
<1>16. QED
    BY <1>14, <1>15 DEF free

-----------------------------------------------------------------------------
(* Types                                                                   *)

\* What the actions write into the tables and the processes.
LEMMA Values ==
    /\ NoLease \in LeaseRow /\ NoSubmission \in Submissions
    /\ NoSubmission.pc = "idle"
    /\ \A u \in Users, b \in Batches \cup {NoBatch} :
            [user |-> u, batch |-> b, idle |-> 0] \in LeaseRow
    /\ \A pc \in {"start", "orphans", "orphan", "scan", "drained", "wait", "begin"},
          n \in RunIds \cup {0}, todo \in SUBSET RunIds :
            /\ Scheduler(pc, n, todo, {}) \in Schedulers
            /\ Scheduler(pc, n, todo, {}).pc = pc
            /\ Scheduler(pc, n, todo, {}).n = n
            /\ Scheduler(pc, n, todo, {}).todo = todo
    /\ 0 \in 0..MaxCrashes
<1>1. 0 \in 0..(IdleTimeout + 1) /\ 0 \in 0..MaxCrashes
    BY RunnerAssumption
<1>2. QED
    BY <1>1 DEF NoLease, NoSubmission, Submission, Scheduler, LeaseRow, Submissions,
                Schedulers, NoBatch

LEMMA TypeInit == Init => TypeOK
<1> SUFFICES ASSUME Init PROVE TypeOK
    OBVIOUS
<1>1. lease \in [Devices -> LeaseRow]
    BY Values DEF Init
<1>2. run \in [RunIds -> RunRow]
    BY DEF Init, RunRow
<1>3. verdict \in [RunIds -> [Devices -> DeviceRow]]
    BY DEF Init, DeviceRow
<1>4. sub \in Submissions /\ sub.pc # "undo"
    BY Values DEF Init
<1>5. sched \in Schedulers /\ sched.pc # "release"
    BY Values DEF Init
<1>6. QED
    BY <1>1, <1>2, <1>3, <1>4, <1>5, Values
       DEF Init, TypeOK, LeaseRow, RunRow, DeviceRow, Submissions, Schedulers

\* The only steps that write the leases.
LEMMA LeaseWriters ==
    ASSUME [Next]_vars
    PROVE  \/ UNCHANGED lease
           \/ \E d \in Devices : lease' = [lease EXCEPT ![d] = NoLease]
           \/ SubmitReserve
           \/ \E u \in Users, d \in Devices : Hold(u, d)
           \/ \E d \in Devices : Renew(d)
           \/ Tick
BY DEF Next, vars, SubmitStart, SubmitHolder, SubmitCreate, SubmitCreateFails,
       SubmitUndo, SubmitSignal, Schedule, RecoverScan, RecoverDevices, RecoverStatus,
       RecoverDone, Scan, Sleep, WakeUp, Begin, Finish, ReleaseList, ReleaseNext,
       DeviceStart, DeviceEnd, Cancel, Drop, Reap, Crash

\* Whatever happens, the leases stay typed.
LEMMA LeaseType == IInv /\ [Next]_vars => lease' \in [Devices -> LeaseRow]
<1> SUFFICES ASSUME IInv, [Next]_vars PROVE lease' \in [Devices -> LeaseRow]
    OBVIOUS
<1>1. lease \in [Devices -> LeaseRow]
    BY DEF IInv, TypeOK, LeaseRow
<1>2. CASE SubmitReserve
    <2>1. sub.pc = "classify" /\ sub.user \in Users
        BY <1>2 DEF SubmitReserve, IInv, SubmissionKnows
    <2>2. [user |-> sub.user, batch |-> UnusedBatch, idle |-> 0] \in LeaseRow
        BY <2>1, FreshBatch, Values
    <2>3. QED
        BY <1>1, <1>2, <2>2 DEF SubmitReserve
<1>3. ASSUME NEW u \in Users, NEW d \in Devices, Hold(u, d)
      PROVE  lease' \in [Devices -> LeaseRow]
    BY <1>1, <1>3, Values DEF Hold
<1>4. ASSUME NEW d \in Devices, Renew(d)
      PROVE  lease' \in [Devices -> LeaseRow]
    <2>1. [lease[d] EXCEPT !.idle = 0] \in LeaseRow
        BY <1>1, RunnerAssumption DEF LeaseRow
    <2>2. lease' = [lease EXCEPT ![d] = [lease[d] EXCEPT !.idle = 0]]
        BY <1>1, <1>4 DEF Renew
    <2>3. QED
        BY <1>1, <2>1, <2>2
<1>5. CASE Tick
    <2>1. ASSUME NEW d \in Devices
          PROVE  /\ [lease[d] EXCEPT !.idle = 0] \in LeaseRow
                 /\ lease[d].idle <= IdleTimeout
                        => [lease[d] EXCEPT !.idle = lease[d].idle + 1] \in LeaseRow
        <3>1. lease[d] \in LeaseRow
            BY <1>1
        <3>2. 0 \in 0..(IdleTimeout + 1)
            BY RunnerAssumption
        <3>3. lease[d].idle <= IdleTimeout => lease[d].idle + 1 \in 0..(IdleTimeout + 1)
            BY <3>1, RunnerAssumption DEF LeaseRow
        <3>4. QED
            BY <3>1, <3>2, <3>3 DEF LeaseRow
    <2>2. QED
        BY <1>1, <1>5, <2>1 DEF Tick
<1>6. ASSUME NEW d \in Devices, lease' = [lease EXCEPT ![d] = NoLease]
      PROVE  lease' \in [Devices -> LeaseRow]
    BY <1>1, <1>6, Values
<1>7. QED
    BY <1>1, <1>2, <1>3, <1>4, <1>5, <1>6, LeaseWriters

\* The request in Submit.
LEMMA SubmissionType ==
    IInv /\ [Next]_vars => sub' \in Submissions /\ (sub'.pc = "undo" => sub'.unread # {})
<1> SUFFICES ASSUME IInv, [Next]_vars
             PROVE  sub' \in Submissions /\ (sub'.pc = "undo" => sub'.unread # {})
    OBVIOUS
<1>1. sub \in Submissions /\ (sub.pc = "undo" => sub.unread # {})
    BY DEF IInv, TypeOK, Submissions
<1>2. ASSUME NEW u \in Users, NEW D \in (SUBSET Devices) \ {{}}, SubmitStart(u, D)
      PROVE  sub' \in Submissions /\ sub'.pc = "classify"
    BY <1>2 DEF SubmitStart, Submission, Submissions
<1>3. ASSUME NEW d \in Devices, SubmitHolder(d)
      PROVE  sub' \in Submissions /\ sub'.pc # "undo"
    <2> DEFINE free == [sub EXCEPT !.unread = @ \ {d}]
               mine == [sub EXCEPT !.unread = @ \ {d}, !.held = @ \cup {d}]
    <2>1. sub.pc = "classify" /\ sub' \in {free, mine, NoSubmission}
        BY <1>3 DEF SubmitHolder
    <2>2. /\ free \in Submissions /\ free.pc = sub.pc
          /\ mine \in Submissions /\ mine.pc = sub.pc
        BY <1>1 DEF Submissions
    <2> HIDE DEF free, mine
    <2>3. QED
        BY <2>1, <2>2, Values
<1>4. ASSUME SubmitReserve
      PROVE  sub' \in Submissions /\ sub'.pc # "undo"
    <2>1. UnusedBatch \in Batches
        BY <1>4, FreshBatch DEF SubmitReserve
    <2> DEFINE borrowed == [sub EXCEPT !.pc = "create"]
               booked == [sub EXCEPT !.pc = "create", !.batch = UnusedBatch]
    <2>2. sub' \in {borrowed, booked, NoSubmission}
        BY <1>4 DEF SubmitReserve
    <2>3. /\ borrowed \in Submissions /\ borrowed.pc = "create"
          /\ booked \in Submissions /\ booked.pc = "create"
        BY <1>1, <2>1 DEF Submissions
    <2> HIDE DEF borrowed, booked
    <2>4. QED
        BY <2>2, <2>3, Values
<1>5. ASSUME SubmitCreate
      PROVE  sub' \in Submissions /\ sub'.pc # "undo"
    BY <1>1, <1>5 DEF SubmitCreate, Submissions
<1>6. ASSUME SubmitCreateFails
      PROVE  sub' \in Submissions /\ (sub'.pc = "undo" => sub'.unread # {})
    <2> DEFINE ids == InBatch(sub.batch)
    <2>1. ids \in SUBSET Devices
        BY DEF InBatch
    <2>2. sub' = IF ids = {} \/ sub.batch = NoBatch THEN NoSubmission
                 ELSE [sub EXCEPT !.pc = "undo", !.unread = ids]
        BY <1>6 DEF SubmitCreateFails
    <2> HIDE DEF ids
    <2>3. QED
        BY <1>1, <2>1, <2>2, Values DEF Submissions
<1>7. ASSUME NEW d \in Devices, SubmitUndo(d)
      PROVE  sub' \in Submissions /\ (sub'.pc = "undo" => sub'.unread # {})
    BY <1>1, <1>7, Values DEF SubmitUndo, Submissions
<1>8. CASE sub' = NoSubmission
    BY <1>8, Values
<1>9. \/ UNCHANGED sub \/ sub' = NoSubmission
      \/ \E u \in Users, D \in (SUBSET Devices) \ {{}} : SubmitStart(u, D)
      \/ \E d \in Devices : SubmitHolder(d) \/ SubmitUndo(d)
      \/ SubmitReserve \/ SubmitCreate \/ SubmitCreateFails
    BY DEF Next, vars, SubmitSignal, Schedule, RecoverScan, RecoverDevices, RecoverStatus,
           RecoverDone, Scan, Sleep, WakeUp, Begin, Finish, ReleaseList, ReleaseNext,
           DeviceStart, DeviceEnd, Cancel, Hold, Drop, Renew, Reap, Tick, Crash
<1>10. QED
    BY <1>1, <1>2, <1>3, <1>4, <1>5, <1>6, <1>7, <1>8, <1>9

\* The only steps that move the scheduler.
LEMMA SchedulerSteps ==
    ASSUME [Next]_vars
    PROVE  \/ UNCHANGED sched
           \/ RecoverScan \/ RecoverStatus \/ Begin \/ Finish \/ RecoverDone \/ Sleep
           \/ WakeUp \/ Crash \/ Scan \/ ReleaseList
           \/ \E n \in RunIds : RecoverDevices(n)
           \/ \E d \in Devices : ReleaseNext(d)
BY DEF Next, vars, SubmitStart, SubmitHolder, SubmitReserve, SubmitCreate,
       SubmitCreateFails, SubmitUndo, SubmitSignal, Schedule, DeviceStart, DeviceEnd,
       Cancel, Hold, Drop, Renew, Reap, Tick

\* The scheduler.
LEMMA SchedulerType ==
    IInv /\ [Next]_vars =>
        sched' \in Schedulers /\ (sched'.pc = "release" => sched'.devs # {})
<1> DEFINE Typed == sched' \in Schedulers /\ (sched'.pc = "release" => sched'.devs # {})
<1> SUFFICES ASSUME IInv, [Next]_vars PROVE Typed
    OBVIOUS
<1>1. sched \in Schedulers /\ (sched.pc = "release" => sched.devs # {})
    BY DEF IInv, TypeOK, Schedulers
<1>2. Having("running") \in SUBSET RunIds
    BY DEF Having
<1>3. CASE RecoverScan
    BY <1>2, <1>3, Values DEF RecoverScan
<1>4. ASSUME NEW n \in RunIds, RecoverDevices(n)
      PROVE  Typed
    <2>1. sched.todo \ {n} \in SUBSET RunIds
        BY <1>1 DEF Schedulers
    <2>2. QED
        BY <1>4, <2>1, Values DEF RecoverDevices
<1>5. CASE RecoverStatus \/ Begin \/ Finish
    BY <1>1, <1>5 DEF RecoverStatus, Begin, Finish, Schedulers
<1>6. CASE RecoverDone \/ Sleep \/ WakeUp \/ Crash
    <2>1. \E pc \in {"scan", "wait", "start"} : sched' = Scheduler(pc, 0, {}, {})
        BY <1>6 DEF RecoverDone, Sleep, WakeUp, Crash
    <2>2. QED
        BY <2>1, Values
<1>7. CASE Scan
    <2>1. Having("queued") # {} => Least(Having("queued")) \in RunIds
        BY LeastRun
    <2>2. QED
        BY <1>7, <2>1, Values DEF Scan
<1>8. AfterRelease \in Schedulers /\ AfterRelease.pc \in {"scan", "orphans"}
    <2>1. sched.todo \in SUBSET RunIds
        BY <1>1 DEF Schedulers
    <2>2. QED
        BY <2>1, Values DEF AfterRelease
<1>9. CASE ReleaseList
    <2> DEFINE ids == IF run[sched.n].batch = NoBatch THEN {} ELSE InBatch(run[sched.n].batch)
    <2>1. ids \in SUBSET Devices
        BY DEF InBatch
    <2>2. sched' = IF ids = {} THEN AfterRelease
                   ELSE [sched EXCEPT !.pc = "release", !.devs = ids]
        BY <1>9 DEF ReleaseList
    <2> HIDE DEF ids
    <2>3. QED
        BY <1>1, <1>8, <2>1, <2>2 DEF Schedulers
<1>10. ASSUME NEW d \in Devices, ReleaseNext(d)
       PROVE  Typed
    <2>1. sched' = IF sched.devs = {d} THEN AfterRelease ELSE [sched EXCEPT !.devs = @ \ {d}]
        BY <1>10 DEF ReleaseNext
    <2>2. d \in sched.devs
        BY <1>10 DEF ReleaseNext
    <2>3. QED
        BY <1>1, <1>8, <2>1, <2>2 DEF Schedulers
<1>11. QED
    BY <1>1, <1>3, <1>4, <1>5, <1>6, <1>7, <1>9, <1>10, SchedulerSteps

\* The only steps that write a row of `runs`: ...
LEMMA RunWriters ==
    ASSUME [Next]_vars
    PROVE  UNCHANGED run \/ SubmitCreate \/ RecoverStatus \/ Begin \/ Finish
BY DEF Next, vars, SubmitStart, SubmitHolder, SubmitReserve, SubmitCreateFails,
       SubmitUndo, SubmitSignal, Schedule, RecoverScan, RecoverDevices, RecoverDone,
       Scan, Sleep, WakeUp, ReleaseList, ReleaseNext, DeviceStart, DeviceEnd, Cancel,
       Hold, Drop, Renew, Reap, Tick, Crash

\* ... one creates a row, the others change the status of the run the scheduler
\* has in hand.
LEMMA RunSteps ==
    ASSUME IInv, [Next]_vars
    PROVE  \/ UNCHANGED run
           \/ SubmitCreate
           \/ \E st \in {"running"} \cup Ended :
                /\ sched.pc \in {"orphan", "begin", "work"}
                /\ sched.n \in RunIds
                /\ run[sched.n].status \in {"queued", "running"}
                /\ st = "running" <=> sched.pc = "begin"
                /\ sched.pc = "orphan" => st = "error"
                /\ sched.pc = "work" => /\ Got(sched.n) \cap {"pending", "running"} = {}
                                       /\ st = Outcome(sched.n)
                /\ run' = [run EXCEPT ![sched.n].status = st]
                /\ run'[sched.n].status = st
                /\ st # "running" => sched' = [sched EXCEPT !.pc = "list"]
                /\ UNCHANGED <<lease, verdict, sub, wake, canceled, cut, crashes>>
<1>1. ASSUME sched.pc \in {"orphan", "begin", "work"}
      PROVE  sched.n \in RunIds /\ run[sched.n].status \in {"queued", "running"}
    BY <1>1 DEF IInv, RunningIsKnown, Having
<1>2. Outcome(sched.n) \in Ended
    BY DEF Outcome, Ended
<1>3. ASSUME NEW st, run' = [run EXCEPT ![sched.n].status = st], sched.n \in RunIds
      PROVE  run'[sched.n].status = st
    BY <1>3 DEF IInv, TypeOK
<1>4. CASE RecoverStatus
    BY <1>1, <1>3, <1>4 DEF RecoverStatus, Ended
<1>5. CASE Begin
    BY <1>1, <1>3, <1>5 DEF Begin
<1>6. CASE Finish
    <2>1. "running" \notin Ended
        BY DEF Ended
    <2>2. QED
        BY <1>1, <1>2, <1>3, <1>6, <2>1 DEF Finish
<1>7. UNCHANGED run \/ SubmitCreate \/ RecoverStatus \/ Begin \/ Finish
    BY RunWriters
<1>8. QED
    BY <1>4, <1>5, <1>6, <1>7

\* The only steps that write a row of `run_devices`.
LEMMA VerdictSteps ==
    ASSUME IInv, [Next]_vars
    PROVE  \/ UNCHANGED verdict
           \/ SubmitCreate
           \/ \E n \in RunIds : RecoverDevices(n)
           \/ \E d \in Devices, v \in {"running"} \cup Verdicts :
                /\ sched.pc = "work"
                /\ verdict[sched.n][d] \in {"pending", "running"}
                /\ verdict' = [verdict EXCEPT ![sched.n][d] = v]
                /\ UNCHANGED <<run, sched>>
<1>1. ASSUME NEW d \in Devices, DeviceStart(d)
      PROVE  \E v \in {"running"} \cup Verdicts :
                /\ sched.pc = "work"
                /\ verdict[sched.n][d] \in {"pending", "running"}
                /\ verdict' = [verdict EXCEPT ![sched.n][d] = v]
                /\ UNCHANGED <<run, sched>>
    BY <1>1 DEF DeviceStart
<1>2. ASSUME NEW d \in Devices, NEW v \in Verdicts, DeviceEnd(d, v)
      PROVE  /\ sched.pc = "work"
             /\ verdict[sched.n][d] \in {"pending", "running"}
             /\ verdict' = [verdict EXCEPT ![sched.n][d] = v]
             /\ UNCHANGED <<run, sched>>
    BY <1>2 DEF DeviceEnd
<1>3. \/ UNCHANGED verdict
      \/ SubmitCreate
      \/ \E n \in RunIds : RecoverDevices(n)
      \/ \E d \in Devices : DeviceStart(d)
      \/ \E d \in Devices, v \in Verdicts : DeviceEnd(d, v)
    BY DEF Next, vars, SubmitStart, SubmitHolder, SubmitReserve, SubmitCreateFails,
           SubmitUndo, SubmitSignal, Schedule, RecoverScan, RecoverStatus, RecoverDone,
           Scan, Sleep, WakeUp, Begin, Finish, ReleaseList, ReleaseNext, Cancel, Hold,
           Drop, Renew, Reap, Tick, Crash
<1>4. QED
    BY <1>1, <1>2, <1>3

LEMMA TypeStep == IInv /\ [Next]_vars => TypeOK'
<1> SUFFICES ASSUME IInv, [Next]_vars PROVE TypeOK'
    OBVIOUS
<1>1. run \in [RunIds -> RunRow] /\ verdict \in [RunIds -> [Devices -> DeviceRow]]
    BY DEF IInv, TypeOK, RunRow, DeviceRow
<1>2. run' \in [RunIds -> RunRow]
    <2>1. CASE SubmitCreate
        <3>1. Least(Having("none")) \in RunIds
            BY <2>1, LeastRun DEF SubmitCreate, IInv, SubmissionKnows
        <3>2. [status |-> "queued", user |-> sub.user, batch |-> sub.batch] \in RunRow
            BY DEF IInv, TypeOK, RunRow
        <3>3. QED
            BY <1>1, <2>1, <3>1, <3>2 DEF SubmitCreate
    <2>2. ASSUME NEW st \in {"running"} \cup Ended, sched.n \in RunIds,
                 run' = [run EXCEPT ![sched.n].status = st]
          PROVE  run' \in [RunIds -> RunRow]
        BY <1>1, <2>2 DEF RunRow
    <2>3. QED
        BY <1>1, <2>1, <2>2, RunSteps
<1>3. verdict' \in [RunIds -> [Devices -> DeviceRow]]
    <2>1. CASE SubmitCreate
        BY <1>1, <2>1 DEF SubmitCreate, DeviceRow
    <2>2. ASSUME NEW n \in RunIds, RecoverDevices(n)
          PROVE  verdict' \in [RunIds -> [Devices -> DeviceRow]]
        <3>1. [d \in Devices |-> IF verdict[n][d] \in {"pending", "running"} THEN "error"
                                 ELSE verdict[n][d]] \in [Devices -> DeviceRow]
            BY <1>1 DEF DeviceRow, Verdicts
        <3>2. QED
            BY <1>1, <2>2, <3>1 DEF RecoverDevices
    <2>3. ASSUME NEW d \in Devices, NEW v \in {"running"} \cup Verdicts,
                 verdict' = [verdict EXCEPT ![sched.n][d] = v]
          PROVE  verdict' \in [RunIds -> [Devices -> DeviceRow]]
        BY <1>1, <2>3 DEF DeviceRow
    <2>4. QED
        BY <1>1, <2>1, <2>2, <2>3, VerdictSteps
<1>4. /\ wake' \in BOOLEAN /\ canceled' \in BOOLEAN
      /\ cut' \subseteq RunIds /\ crashes' \in 0..MaxCrashes
    <2>1. CASE Crash
        <3>1. crashes' \in 0..MaxCrashes
            BY <2>1, RunnerAssumption DEF Crash, IInv, TypeOK
        <3>2. QED
            BY <2>1, <3>1 DEF Crash, IInv, TypeOK
    <2>2. CASE UNCHANGED <<cut, crashes>> /\ wake' \in {wake, TRUE, FALSE}
               /\ canceled' \in {canceled, TRUE, FALSE}
        BY <2>2 DEF IInv, TypeOK
    <2>3. Crash \/ /\ UNCHANGED <<cut, crashes>> /\ wake' \in {wake, TRUE, FALSE}
                   /\ canceled' \in {canceled, TRUE, FALSE}
        BY DEF Next, vars, SubmitStart, SubmitHolder, SubmitReserve, SubmitCreate,
               SubmitCreateFails, SubmitUndo, SubmitSignal, Schedule, RecoverScan,
               RecoverDevices, RecoverStatus, RecoverDone, Scan, Sleep, WakeUp, Begin,
               Finish, ReleaseList, ReleaseNext, DeviceStart, DeviceEnd, Cancel, Hold,
               Drop, Renew, Reap, Tick
    <2>4. QED
        BY <2>1, <2>2, <2>3
<1>5. QED
    BY <1>2, <1>3, <1>4, LeaseType, SubmissionType, SchedulerType
       DEF TypeOK, LeaseRow, RunRow, DeviceRow, Submissions, Schedulers

-----------------------------------------------------------------------------
(* One run at a time                                                       *)

\* A run that is created or changes its status joins and leaves the sets of the
\* runs that have a status; no other run does.
LEMMA HavingAfter ==
    ASSUME TypeOK, NEW n \in RunIds, NEW r \in RunRow, run' = [run EXCEPT ![n] = r], NEW st
    PROVE  Having(st)' = IF r.status = st THEN Having(st) \cup {n} ELSE Having(st) \ {n}
BY DEF TypeOK, Having

LEMMA StatusAfter ==
    ASSUME TypeOK, NEW n \in RunIds, NEW t \in {"running"} \cup Ended,
           run' = [run EXCEPT ![n].status = t], NEW st
    PROVE  Having(st)' = IF t = st THEN Having(st) \cup {n} ELSE Having(st) \ {n}
<1> DEFINE r == [run[n] EXCEPT !.status = t]
<1>1. r \in RunRow /\ r.status = t
    BY DEF TypeOK, RunRow
<1>2. run' = [run EXCEPT ![n] = r]
    BY DEF TypeOK
<1> HIDE DEF r
<1>3. QED
    BY <1>1, <1>2, HavingAfter

\* The row that Submit creates was none, and is queued.
LEMMA Created ==
    ASSUME IInv, SubmitCreate
    PROVE  \E n \in Having("none") : \E r \in RunRow :
                /\ n = Least(Having("none"))
                /\ r = [status |-> "queued", user |-> sub.user, batch |-> sub.batch]
                /\ run' = [run EXCEPT ![n] = r]
                /\ run'[n] = r
                /\ verdict' = [verdict EXCEPT ![n] = [d \in Devices |->
                                    IF d \in sub.devs THEN "pending" ELSE "none"]]
<1> DEFINE n == Least(Having("none"))
           r == [status |-> "queued", user |-> sub.user, batch |-> sub.batch]
<1>1. n \in RunIds /\ run[n].status = "none"
    BY LeastRun DEF SubmitCreate, IInv, SubmissionKnows
<1>2. n \in Having("none")
    BY <1>1 DEF Having
<1>3. r \in RunRow
    BY DEF IInv, TypeOK, RunRow
<1>4. /\ run' = [run EXCEPT ![n] = r]
      /\ verdict' = [verdict EXCEPT ![n] = [d \in Devices |->
                                    IF d \in sub.devs THEN "pending" ELSE "none"]]
    BY DEF SubmitCreate
<1>5. run'[n] = r
    BY <1>1, <1>4 DEF IInv, TypeOK
<1> HIDE DEF n
<1>6. QED
    BY <1>2, <1>3, <1>4, <1>5 DEF n

LEMMA RunningInit == Init => RunningIsKnown
<1> SUFFICES ASSUME Init PROVE RunningIsKnown
    OBVIOUS
<1>1. Having("running") = {}
    BY DEF Init, Having
<1>2. sched.pc = "start"
    BY DEF Init, Scheduler
<1>3. QED
    BY <1>1, <1>2 DEF RunningIsKnown

LEMMA RunningStep == IInv /\ [Next]_vars => RunningIsKnown'
<1> SUFFICES ASSUME IInv, [Next]_vars PROVE RunningIsKnown'
    OBVIOUS
<1>1. TypeOK /\ RunningIsKnown
    BY DEF IInv
<1>2. CASE UNCHANGED <<run, sched>>
    BY <1>1, <1>2 DEF RunningIsKnown, Having
<1>3. CASE SubmitCreate
    <2>1. PICK n \in Having("none"), r \in RunRow :
            r.status = "queued" /\ run' = [run EXCEPT ![n] = r]
        BY <1>3, Created
    <2>2. n \in RunIds /\ n \notin Having("running") /\ n \notin Having("queued")
        BY <2>1 DEF Having
    <2>3. "queued" # "running"
        OBVIOUS
    <2>4. Having("running")' = Having("running") \ {n}
        BY <1>1, <2>1, <2>2, <2>3, HavingAfter
    <2>5. Having("running")' = Having("running")
        BY <2>2, <2>4
    <2>6. Having("queued")' = Having("queued") \cup {n}
        BY <1>1, <2>1, <2>2, HavingAfter
    <2>7. UNCHANGED sched
        BY <1>3 DEF SubmitCreate
    <2>8. QED
        BY <1>1, <2>7, <2>5, <2>6 DEF RunningIsKnown
<1>4. CASE UNCHANGED run /\ sched'.pc = "start"
    BY <1>1, <1>4 DEF RunningIsKnown, Having
<1>5. CASE RecoverScan
    <2>1. Having("running")' = Having("running")
        BY <1>5 DEF RecoverScan, Having
    <2>2. sched'.pc = "orphans" /\ sched'.todo = Having("running")
        BY <1>5 DEF RecoverScan, Scheduler
    <2>3. QED
        BY <1>1, <2>1, <2>2 DEF RunningIsKnown
<1>6. ASSUME NEW n \in RunIds, RecoverDevices(n)
      PROVE  RunningIsKnown'
    <2>1. Having("running")' = Having("running")
        BY <1>6 DEF RecoverDevices, Having
    <2>2. /\ sched.pc = "orphans" /\ n \in sched.todo
          /\ sched'.pc = "orphan" /\ sched'.n = n /\ sched'.todo = sched.todo \ {n}
        BY <1>6 DEF RecoverDevices, Scheduler
    <2>3. QED
        BY <1>1, <2>1, <2>2 DEF RunningIsKnown
<1>7. CASE RecoverDone
    <2>1. Having("running")' = Having("running")
        BY <1>7 DEF RecoverDone, Having
    <2>2. sched.pc = "orphans" /\ sched.todo = {} /\ sched'.pc = "scan"
        BY <1>7 DEF RecoverDone, Scheduler
    <2>3. QED
        BY <1>1, <2>1, <2>2 DEF RunningIsKnown
<1>8. CASE Scan
    <2>1. Having("running")' = Having("running") /\ Having("queued")' = Having("queued")
        BY <1>8 DEF Scan, Having
    <2>2. Having("queued") # {} => Least(Having("queued")) \in Having("queued")
        BY LeastRun DEF Having
    <2>3. CASE Having("queued") = {}
        <3>1. sched.pc = "scan" /\ sched'.pc = "drained"
            BY <1>8, <2>3 DEF Scan, Scheduler
        <3>2. QED
            BY <1>1, <2>1, <3>1 DEF RunningIsKnown
    <2>4. CASE Having("queued") # {}
        <3>1. /\ sched.pc = "scan" /\ sched'.pc = "begin" /\ sched'.todo = {}
              /\ sched'.n = Least(Having("queued"))
            BY <1>8, <2>4 DEF Scan, Scheduler
        <3>2. QED
            BY <1>1, <2>1, <2>2, <2>4, <3>1 DEF RunningIsKnown
    <2>5. QED
        BY <2>3, <2>4
<1>9. CASE Sleep \/ WakeUp
    <2>1. Having("running")' = Having("running")
        BY <1>9 DEF Sleep, WakeUp, Having
    <2>2. Sleep => sched.pc = "drained" /\ sched'.pc = "wait"
        BY DEF Sleep, Scheduler
    <2>3. WakeUp => sched.pc = "wait" /\ sched'.pc = "scan"
        BY DEF WakeUp, Scheduler
    <2>4. QED
        BY <1>1, <1>9, <2>1, <2>2, <2>3 DEF RunningIsKnown
<1>10. sched \in Schedulers
    BY <1>1 DEF TypeOK, Schedulers
<1>11. CASE RecoverStatus
    <2>1. sched.pc = "orphan" /\ run' = [run EXCEPT ![sched.n].status = "error"]
        BY <1>11 DEF RecoverStatus
    <2>2. sched.n \in RunIds
        BY <1>1, <2>1 DEF RunningIsKnown, Having
    <2>3. "error" \in {"running"} \cup Ended /\ "error" # "running"
        BY DEF Ended
    <2>4. Having("running")' = Having("running") \ {sched.n}
        BY <1>1, <2>1, <2>2, <2>3, StatusAfter
    <2>5. sched'.pc = "list" /\ sched'.n = sched.n /\ sched'.todo = sched.todo
        BY <1>10, <1>11 DEF RecoverStatus, Schedulers
    <2>6. QED
        BY <1>1, <2>1, <2>2, <2>4, <2>5 DEF RunningIsKnown
<1>12. CASE Begin
    <2>1. sched.pc = "begin" /\ run' = [run EXCEPT ![sched.n].status = "running"]
        BY <1>12 DEF Begin
    <2>2. sched.n \in RunIds /\ Having("running") = {}
        BY <1>1, <2>1 DEF RunningIsKnown, Having
    <2>3. Having("running")' = {sched.n}
        BY <1>1, <2>1, <2>2, StatusAfter
    <2>4. sched'.pc = "work" /\ sched'.n = sched.n /\ sched'.todo = sched.todo
        BY <1>10, <1>12 DEF Begin, Schedulers
    <2>5. QED
        BY <1>1, <2>1, <2>2, <2>3, <2>4 DEF RunningIsKnown
<1>13. CASE Finish
    <2>1. sched.pc = "work" /\ run' = [run EXCEPT ![sched.n].status = Outcome(sched.n)]
        BY <1>13 DEF Finish
    <2>2. sched.n \in RunIds /\ Having("running") = {sched.n} /\ sched.todo = {}
        BY <1>1, <2>1 DEF RunningIsKnown, Having
    <2> DEFINE st == Outcome(sched.n)
    <2>3. st \in {"running"} \cup Ended /\ st # "running"
        BY DEF Outcome, Ended
    <2>4. run' = [run EXCEPT ![sched.n].status = st]
        BY <2>1
    <2> HIDE DEF st
    <2>5. Having("running")' = Having("running") \ {sched.n}
        BY <1>1, <2>2, <2>3, <2>4, StatusAfter
    <2>6. Having("running")' = {}
        BY <2>2, <2>5
    <2>7. sched'.pc = "list" /\ sched'.n = sched.n /\ sched'.todo = sched.todo
        BY <1>10, <1>13 DEF Finish, Schedulers
    <2>8. QED
        BY <1>1, <2>1, <2>2, <2>6, <2>7 DEF RunningIsKnown
<1>14. AfterRelease.pc = (IF sched.todo = {} THEN "scan" ELSE "orphans")
       /\ AfterRelease.todo = sched.todo
    BY DEF AfterRelease, Scheduler
<1>15. ASSUME sched.pc \in {"list", "release"}, UNCHANGED run,
              \/ sched' = AfterRelease
              \/ sched'.pc = "release" /\ sched'.n = sched.n /\ sched'.todo = sched.todo
       PROVE  RunningIsKnown'
    <2>1. Having("running")' = Having("running")
        BY <1>15 DEF Having
    <2>2. QED
        BY <1>1, <1>14, <1>15, <2>1 DEF RunningIsKnown
<1>16. CASE ReleaseList
    BY <1>10, <1>15, <1>16 DEF ReleaseList, Schedulers
<1>17. ASSUME NEW d \in Devices, ReleaseNext(d)
       PROVE  RunningIsKnown'
    BY <1>10, <1>15, <1>17 DEF ReleaseNext, Schedulers
<1>18. CASE Crash
    BY <1>4, <1>18 DEF Crash, Scheduler
<1>19. \/ UNCHANGED <<run, sched>>
       \/ SubmitCreate \/ RecoverScan \/ RecoverDone \/ Scan \/ Sleep \/ WakeUp
       \/ RecoverStatus \/ Begin \/ Finish \/ ReleaseList \/ Crash
       \/ \E n \in RunIds : RecoverDevices(n)
       \/ \E d \in Devices : ReleaseNext(d)
    BY DEF Next, vars, SubmitStart, SubmitHolder, SubmitReserve, SubmitCreateFails,
           SubmitUndo, SubmitSignal, Schedule, DeviceStart, DeviceEnd, Cancel, Hold, Drop,
           Renew, Reap, Tick
<1>20. QED
    BY <1>2, <1>3, <1>5, <1>6, <1>7, <1>8, <1>9, <1>11, <1>12, <1>13, <1>16, <1>17,
       <1>18, <1>19

-----------------------------------------------------------------------------
(* The results of runs                                                     *)

\* A run that has ended is neither created nor in the scheduler's hand, so no
\* step writes its row or those of its devices.
LEMMA EndedStays ==
    ASSUME IInv, [Next]_vars, NEW n \in RunIds, run[n].status \in Ended
    PROVE  run'[n] = run[n] /\ verdict'[n] = verdict[n]
<1>1. run[n].status \notin {"none", "queued", "running"}
    BY DEF Ended
<1>2. CASE SubmitCreate
    <2>1. PICK m \in Having("none") :
            /\ run' = [run EXCEPT ![m] = run'[m]]
            /\ verdict' = [verdict EXCEPT ![m] = verdict'[m]]
        <3>1. PICK m \in Having("none"), r \in RunRow :
                /\ run' = [run EXCEPT ![m] = r] /\ run'[m] = r
                /\ verdict' = [verdict EXCEPT ![m] = [d \in Devices |->
                                    IF d \in sub.devs THEN "pending" ELSE "none"]]
            BY <1>2, Created
        <3>2. verdict'[m] = [d \in Devices |-> IF d \in sub.devs THEN "pending" ELSE "none"]
            BY <3>1 DEF IInv, TypeOK, Having
        <3>3. QED
            BY <3>1, <3>2
    <2>2. m # n
        BY <1>1, <2>1 DEF Having
    <2>3. QED
        BY <2>1, <2>2 DEF IInv, TypeOK, Having
<1>3. CASE ~SubmitCreate
    <2>1. run'[n] = run[n]
        <3>1. ASSUME NEW st, run' = [run EXCEPT ![sched.n].status = st],
                     run[sched.n].status \in {"queued", "running"}
              PROVE  run'[n] = run[n]
            <4>1. sched.n # n
                BY <1>1, <3>1
            <4>2. QED
                BY <3>1, <4>1 DEF IInv, TypeOK
        <3>2. QED
            BY <1>3, <3>1, RunSteps
    <2>2. verdict'[n] = verdict[n]
        <3>1. ASSUME NEW m \in RunIds, RecoverDevices(m)
              PROVE  verdict'[n] = verdict[n]
            <4>1. m \in Having("running")
                BY <3>1 DEF RecoverDevices, IInv, RunningIsKnown
            <4>2. m # n
                BY <1>1, <4>1 DEF Having
            <4>3. QED
                BY <3>1, <4>2 DEF RecoverDevices, IInv, TypeOK
        <3>2. ASSUME NEW d \in Devices, NEW v, sched.pc = "work",
                     verdict' = [verdict EXCEPT ![sched.n][d] = v]
              PROVE  verdict'[n] = verdict[n]
            <4>1. sched.n \in Having("running")
                BY <3>2 DEF IInv, RunningIsKnown
            <4>2. sched.n # n
                BY <1>1, <4>1 DEF Having
            <4>3. QED
                BY <3>2, <4>2 DEF IInv, TypeOK
        <3>3. QED
            BY <1>3, <3>1, <3>2, VerdictSteps
    <2>3. QED
        BY <2>1, <2>2
<1>4. QED
    BY <1>2, <1>3

\* What the rows of a run's devices hold follows from those rows alone.
LEMMA GotStays ==
    ASSUME NEW n, verdict'[n] = verdict[n]
    PROVE  Got(n)' = Got(n)
BY DEF Got

LEMMA DevicesInit == Init => RunsHaveDevices /\ PassedRunsHaveNoFailure
BY DEF Init, RunsHaveDevices, PassedRunsHaveNoFailure, Ended, Scheduler

\* A run that exists has devices, also after any step.
LEMMA DevicesStay ==
    ASSUME IInv, [Next]_vars, NEW n \in RunIds, run'[n].status # "none"
    PROVE  Got(n)' # {}
<1>1. /\ verdict \in [RunIds -> [Devices -> DeviceRow]]
      /\ run[n].status # "none" => Got(n) # {}
    BY DEF IInv, TypeOK, DeviceRow, RunsHaveDevices
<1>2. CASE SubmitCreate
    <2>1. PICK m \in Having("none"), r \in RunRow :
            /\ run' = [run EXCEPT ![m] = r]
            /\ verdict' = [verdict EXCEPT ![m] = [d \in Devices |->
                                IF d \in sub.devs THEN "pending" ELSE "none"]]
        BY <1>2, Created
    <2>2. CASE n = m
        <3>1. PICK d \in Devices : d \in sub.devs
            BY <1>2 DEF SubmitCreate, IInv, TypeOK, SubmissionKnows
        <3>2. verdict'[n][d] = "pending"
            BY <1>1, <2>1, <2>2, <3>1 DEF Having
        <3>3. QED
            BY <3>2 DEF Got
    <2>3. CASE n # m
        <3>1. run'[n] = run[n] /\ verdict'[n] = verdict[n]
            BY <2>1, <2>3 DEF IInv, TypeOK, Having
        <3>2. QED
            BY <1>1, <3>1, GotStays
    <2>4. QED
        BY <2>2, <2>3
<1>3. CASE ~SubmitCreate
    <2>1. run[n].status # "none"
        <3>1. ASSUME NEW st, run' = [run EXCEPT ![sched.n].status = st],
                     run[sched.n].status \in {"queued", "running"}
              PROVE  run[n].status # "none"
            BY <3>1 DEF IInv, TypeOK
        <3>2. QED
            BY <1>3, <3>1, RunSteps
    <2>2. PICK d \in Devices : verdict[n][d] # "none"
        BY <1>1, <2>1 DEF Got
    <2>3. \E e \in Devices : verdict'[n][e] # "none"
        <3>1. ASSUME NEW m \in RunIds, RecoverDevices(m)
              PROVE  verdict'[n][d] # "none"
            BY <1>1, <2>2, <3>1 DEF RecoverDevices
        <3>2. ASSUME NEW e \in Devices, NEW v \in {"running"} \cup Verdicts,
                     verdict' = [verdict EXCEPT ![sched.n][e] = v]
              PROVE  verdict'[n][d] # "none"
            BY <1>1, <2>2, <3>2 DEF Verdicts
        <3>3. QED
            BY <1>3, <2>2, <3>1, <3>2, VerdictSteps
    <2>4. QED
        BY <2>3 DEF Got
<1>4. QED
    BY <1>2, <1>3

\* A run that ends just now ends with what the rows of its devices say.
LEMMA JustEnded ==
    ASSUME IInv, [Next]_vars, NEW n \in RunIds, run'[n].status \in Ended,
           run[n].status \notin Ended
    PROVE  /\ verdict'[n] = verdict[n]
           /\ Got(n) \subseteq Verdicts
           /\ run'[n].status = "error" \/ run'[n].status = Outcome(n)
<1>1. ~SubmitCreate
    <2>1. SUFFICES ASSUME SubmitCreate PROVE FALSE
        OBVIOUS
    <2>2. PICK m \in Having("none"), r \in RunRow :
            r.status = "queued" /\ run' = [run EXCEPT ![m] = r] /\ run'[m] = r
        BY <2>1, Created
    <2>3. QED
        BY <2>2 DEF IInv, TypeOK, Having, Ended
<1>2. PICK st \in {"running"} \cup Ended :
        /\ sched.pc \in {"orphan", "begin", "work"}
        /\ sched.n \in RunIds
        /\ st = "running" <=> sched.pc = "begin"
        /\ sched.pc = "orphan" => st = "error"
        /\ sched.pc = "work" => /\ Got(sched.n) \cap {"pending", "running"} = {}
                               /\ st = Outcome(sched.n)
        /\ run' = [run EXCEPT ![sched.n].status = st]
        /\ run'[sched.n].status = st
        /\ UNCHANGED verdict
    BY <1>1, RunSteps
<1>3. n = sched.n
    BY <1>2 DEF IInv, TypeOK
<1>4. st \in Ended /\ st # "running"
    BY <1>2, <1>3 DEF Ended
<1>5. Got(n) \subseteq DeviceRow \ {"none"}
    BY DEF Got, IInv, TypeOK, DeviceRow
<1>6. CASE sched.pc = "orphan"
    BY <1>2, <1>3, <1>6 DEF IInv, RunsHaveDevices
<1>7. CASE sched.pc = "work"
    BY <1>2, <1>3, <1>5, <1>7 DEF DeviceRow
<1>8. QED
    BY <1>2, <1>4, <1>6, <1>7

LEMMA DevicesStep == IInv /\ [Next]_vars => RunsHaveDevices' /\ PassedRunsHaveNoFailure'
<1> SUFFICES ASSUME IInv, [Next]_vars PROVE RunsHaveDevices' /\ PassedRunsHaveNoFailure'
    OBVIOUS
<1>1. ASSUME NEW n \in RunIds, run'[n].status \in Ended
      PROVE  /\ Got(n)' = Got(n)
             /\ Got(n) \subseteq Verdicts
    <2>1. CASE run[n].status \in Ended
        BY <2>1, EndedStays, GotStays DEF IInv, RunsHaveDevices
    <2>2. CASE run[n].status \notin Ended
        BY <1>1, <2>2, JustEnded, GotStays
    <2>3. QED
        BY <2>1, <2>2
<1>2. ASSUME NEW n \in RunIds, run'[n].status = "passed"
      PROVE  /\ Got(n)' \cap {"failed", "error"} = {}
             /\ "skipped" \in Got(n)' => "passed" \in Got(n)'
    <2>1. run'[n].status \in Ended
        BY <1>2 DEF Ended
    <2>2. CASE run[n].status \in Ended
        BY <1>1, <1>2, <2>1, <2>2, EndedStays DEF IInv, PassedRunsHaveNoFailure
    <2>3. CASE run[n].status \notin Ended
        <3>1. Outcome(n) = "passed"
            BY <1>2, <2>1, <2>3, JustEnded
        <3>2. /\ "error" \notin Got(n) /\ "failed" \notin Got(n)
              /\ ~("skipped" \in Got(n) /\ "passed" \notin Got(n))
            BY <3>1 DEF Outcome
        <3>3. QED
            BY <1>1, <2>1, <3>2
    <2>4. QED
        BY <2>2, <2>3
<1>3. ASSUME sched'.pc = "orphan"
      PROVE  Got(sched.n)' \subseteq Verdicts
    <2>1. ASSUME NEW n \in RunIds, RecoverDevices(n)
          PROVE  Got(sched.n)' \subseteq Verdicts
        <3>1. sched'.n = n
            BY <2>1 DEF RecoverDevices, Scheduler
        <3>2. \A d \in Devices : verdict'[n][d] \in Verdicts \cup {"none"}
            BY <2>1 DEF RecoverDevices, Verdicts, IInv, TypeOK
        <3>3. QED
            BY <3>1, <3>2 DEF Got
    <2>2. ASSUME UNCHANGED sched
          PROVE  Got(sched.n)' \subseteq Verdicts
        <3>1. sched.pc = "orphan" /\ sched.n \in Having("running")
            BY <1>3, <2>2 DEF IInv, RunningIsKnown
        <3>2. Got(sched.n) \subseteq Verdicts
            BY <3>1 DEF IInv, RunsHaveDevices
        <3>3. verdict'[sched.n] = verdict[sched.n]
            <4>1. CASE SubmitCreate
                <5>1. PICK m \in Having("none") : \E f :
                        verdict' = [verdict EXCEPT ![m] = f]
                    BY <4>1, Created
                <5>2. m # sched.n
                    BY <3>1 DEF Having
                <5>3. QED
                    BY <3>1, <5>1, <5>2 DEF IInv, TypeOK, Having
            <4>2. ASSUME NEW n \in RunIds, RecoverDevices(n)
                  PROVE  FALSE
                BY <3>1, <4>2 DEF RecoverDevices
            <4>3. QED
                BY <3>1, <4>1, <4>2, VerdictSteps
        <3>4. QED
            BY <2>2, <3>2, <3>3 DEF Got
    <2>3. UNCHANGED sched \/ \E n \in RunIds : RecoverDevices(n)
        <3>1. sched \in Schedulers
            BY DEF IInv, TypeOK, Schedulers
        <3>2. RecoverStatus \/ Begin \/ Finish => sched'.pc # "orphan"
            BY <3>1 DEF RecoverStatus, Begin, Finish, Schedulers
        <3>3. RecoverScan \/ RecoverDone \/ Scan => sched'.pc # "orphan"
            BY DEF RecoverScan, RecoverDone, Scan, Scheduler
        <3>4. Sleep \/ Crash => sched'.pc # "orphan"
            BY DEF Sleep, Crash, Scheduler
        <3>5. WakeUp => sched'.pc # "orphan"
            BY DEF WakeUp, Scheduler
        <3>6. AfterRelease.pc # "orphan"
            BY DEF AfterRelease, Scheduler
        <3>7. ReleaseList => sched'.pc # "orphan"
            BY <3>1, <3>6 DEF ReleaseList, Schedulers
        <3>8. \A d \in Devices : ReleaseNext(d) => sched'.pc # "orphan"
            BY <3>1, <3>6 DEF ReleaseNext, Schedulers
        <3>9. QED
            BY <1>3, <3>2, <3>3, <3>4, <3>7, <3>8, <3>5, SchedulerSteps
    <2>4. QED
        BY <2>1, <2>2, <2>3
<1>4. QED
    BY <1>1, <1>2, <1>3, DevicesStay DEF RunsHaveDevices, PassedRunsHaveNoFailure

-----------------------------------------------------------------------------
(* Batches                                                                 *)

\* The devices of a batch only ever become fewer, but for the step in which
\* Submit books it.
LEMMA BatchShrinks ==
    ASSUME IInv, [Next]_vars, NEW b \in Batches
    PROVE  \/ InBatch(b)' \subseteq InBatch(b)
           \/ /\ SubmitReserve /\ b = UnusedBatch
              /\ sub'.pc = "create" /\ sub'.batch = b
<1>1. lease \in [Devices -> LeaseRow] /\ b # NoBatch
    BY RunnerAssumption DEF IInv, TypeOK, LeaseRow, Batches, NoBatch
<1>2. ASSUME NEW d \in Devices, lease' = [lease EXCEPT ![d] = NoLease]
      PROVE  InBatch(b)' \subseteq InBatch(b)
    BY <1>1, <1>2 DEF InBatch, Leased, NoLease
<1>3. ASSUME NEW u \in Users, NEW d \in Devices, Hold(u, d)
      PROVE  InBatch(b)' \subseteq InBatch(b)
    BY <1>1, <1>3 DEF Hold, InBatch, Leased
<1>4. ASSUME \A d \in Devices : /\ lease'[d].user = lease[d].user
                                 /\ lease'[d].batch = lease[d].batch
      PROVE  InBatch(b)' = InBatch(b)
    BY <1>4 DEF InBatch, Leased
<1>5. ASSUME NEW d \in Devices, Renew(d)
      PROVE  InBatch(b)' \subseteq InBatch(b)
    BY <1>1, <1>4, <1>5 DEF Renew, LeaseRow
<1>6. CASE Tick
    BY <1>1, <1>4, <1>6 DEF Tick, LeaseRow
<1>7. CASE SubmitReserve
    <2>1. CASE UNCHANGED lease
        BY <1>4, <2>1
    <2>2. CASE ~UNCHANGED lease
        <3>1. /\ sub' = [sub EXCEPT !.pc = "create", !.batch = UnusedBatch]
              /\ lease' = [d \in Devices |->
                              IF d \in sub.devs
                              THEN [user |-> sub.user, batch |-> UnusedBatch, idle |-> 0]
                              ELSE lease[d]]
            BY <1>7, <2>2 DEF SubmitReserve
        <3>2. sub'.pc = "create" /\ sub'.batch = UnusedBatch
            BY <3>1 DEF IInv, TypeOK
        <3> DEFINE m == UnusedBatch
        <3>3. /\ sub'.pc = "create" /\ sub'.batch = m
              /\ lease' = [d \in Devices |->
                              IF d \in sub.devs
                              THEN [user |-> sub.user, batch |-> m, idle |-> 0]
                              ELSE lease[d]]
            BY <3>1, <3>2
        <3> HIDE DEF m
        <3>4. CASE b # m
            BY <3>3, <3>4 DEF InBatch, Leased
        <3>5. CASE b = m
            BY <1>7, <3>3, <3>5 DEF m
        <3>6. QED
            BY <3>4, <3>5
    <2>3. QED
        BY <2>1, <2>2
<1>8. QED
    BY <1>2, <1>3, <1>4, <1>5, <1>6, <1>7, LeaseWriters

\* A run gets its batch when it is created, and keeps it.
LEMMA BatchOfRun ==
    ASSUME IInv, [Next]_vars, NEW n \in RunIds
    PROVE  \/ run'[n].batch = run[n].batch
           \/ /\ SubmitCreate /\ run[n].status = "none"
              /\ run'[n].batch = sub.batch /\ run'[n].status = "queued"
<1>1. CASE SubmitCreate
    <2>1. PICK m \in Having("none"), r \in RunRow :
            /\ r = [status |-> "queued", user |-> sub.user, batch |-> sub.batch]
            /\ run' = [run EXCEPT ![m] = r]
        BY <1>1, Created
    <2>2. run[m].status = "none"
        BY DEF Having
    <2>3. QED
        BY <1>1, <2>1, <2>2 DEF IInv, TypeOK
<1>2. ASSUME NEW st, run' = [run EXCEPT ![sched.n].status = st]
      PROVE  run'[n].batch = run[n].batch
    BY <1>2 DEF IInv, TypeOK
<1>3. QED
    BY <1>1, <1>2, RunSteps

\* The run whose row a release goes by has kept its batch.
LEMMA BatchKept ==
    ASSUME IInv, [Next]_vars, NEW n \in RunIds, run[n].batch # NoBatch
    PROVE  /\ run'[n].batch = run[n].batch
           /\ InBatch(run[n].batch)' \subseteq InBatch(run[n].batch)
<1>1. run[n].batch \in Batches
    BY DEF IInv, TypeOK
<1>2. run[n].status # "none"
    BY DEF IInv, BatchesAreKnown
<1>3. run'[n].batch = run[n].batch
    BY <1>2, BatchOfRun
<1>4. SubmitReserve => run[n].batch # UnusedBatch
    BY FreshBatch DEF SubmitReserve
<1>5. QED
    BY <1>1, <1>3, <1>4, BatchShrinks

LEMMA SubmissionInit == Init => SubmissionKnows
BY DEF Init, SubmissionKnows, NoSubmission, Submission

\* The only steps that touch the request in Submit.
LEMMA SubmissionSteps ==
    ASSUME [Next]_vars
    PROVE  \/ UNCHANGED sub /\ ~SubmitCreate
           \/ sub' = NoSubmission /\ (Crash \/ SubmitSignal)
           \/ \E u \in Users, D \in (SUBSET Devices) \ {{}} : SubmitStart(u, D)
           \/ \E d \in Devices : SubmitHolder(d)
           \/ \E d \in Devices : SubmitUndo(d)
           \/ SubmitReserve \/ SubmitCreate \/ SubmitCreateFails
BY DEF Next, vars, SubmitSignal, Schedule, RecoverScan, RecoverDevices, RecoverStatus,
       RecoverDone, Scan, Sleep, WakeUp, Begin, Finish, ReleaseList, ReleaseNext,
       DeviceStart, DeviceEnd, Cancel, Hold, Drop, Renew, Reap, Tick, Crash

\* The devices of Submit's batch after a step, named by what the batch is then.
LEMMA BatchOfSubmission ==
    ASSUME NEW b, sub'.batch = b
    PROVE  InBatch(sub.batch)'
                = {d \in Devices : lease'[d].user # Nobody /\ lease'[d].batch = b}
BY DEF InBatch, Leased

LEMMA SubmissionStep == IInv /\ [Next]_vars => SubmissionKnows'
<1> SUFFICES ASSUME IInv, [Next]_vars PROVE SubmissionKnows'
    OBVIOUS
<1>1. SubmissionKnows /\ sub \in Submissions
    BY DEF IInv, TypeOK, Submissions
<1>2. ASSUME sub'.pc = "idle" \/ sub'.pc = "signal"
      PROVE  SubmissionKnows'
    BY <1>2 DEF SubmissionKnows
<1>3. CASE sub' = NoSubmission
    BY <1>2, <1>3, Values
<1>4. CASE UNCHANGED sub /\ ~SubmitCreate
    <2>1. sub.pc \in {"classify", "create"} => Having("none")' # {}
        <3>1. ASSUME NEW n \in Having("none"), ~(n \in Having("none")')
              PROVE  FALSE
            <4>1. run'[n] = run[n]
                BY <1>4, <3>1, RunSteps DEF Having, IInv, TypeOK
            <4>2. QED
                BY <3>1, <4>1 DEF Having
        <3>2. QED
            BY <1>1, <3>1 DEF SubmissionKnows
    <2>2. \A n \in RunIds : run'[n].batch = run[n].batch
        BY <1>4, BatchOfRun
    <2>3. sub.pc = "undo" => InBatch(sub.batch)' \subseteq InBatch(sub.batch)
        <3>1. SUFFICES ASSUME sub.pc = "undo"
                       PROVE  InBatch(sub.batch)' \subseteq InBatch(sub.batch)
            OBVIOUS
        <3>2. PICK b \in Batches : b = sub.batch
            BY <1>1, <3>1 DEF SubmissionKnows, Submissions
        <3>3. InBatch(b)' \subseteq InBatch(b)
            BY <3>1, BatchShrinks DEF SubmitReserve
        <3>4. InBatch(sub.batch)' = InBatch(b)'
            BY <1>4, <3>2, BatchOfSubmission DEF InBatch, Leased
        <3>5. QED
            BY <3>2, <3>3, <3>4
    <2>4. QED
        BY <1>1, <1>4, <2>1, <2>2, <2>3 DEF SubmissionKnows
<1>5. ASSUME NEW u \in Users, NEW D \in (SUBSET Devices) \ {{}}, SubmitStart(u, D)
      PROVE  SubmissionKnows'
    <2>1. /\ sub'.pc = "classify" /\ sub'.devs = D /\ sub'.user = u
          /\ sub'.batch = NoBatch
        BY <1>5 DEF SubmitStart, Submission
    <2>2. Having("none")' # {}
        BY <1>5 DEF SubmitStart, Having
    <2>3. QED
        BY <2>1, <2>2 DEF SubmissionKnows
<1>6. ASSUME sub.pc = "classify", sub'.pc \in {"classify", "create"},
             sub'.devs = sub.devs, sub'.user = sub.user, UNCHANGED run,
             \/ sub'.batch = NoBatch
             \/ sub'.pc = "create" /\ \A n \in RunIds : run[n].batch # sub'.batch
      PROVE  SubmissionKnows'
    <2>1. Having("none")' = Having("none")
        BY <1>6 DEF Having
    <2>2. QED
        BY <1>1, <1>6, <2>1 DEF SubmissionKnows
<1>7. ASSUME NEW d \in Devices, SubmitHolder(d)
      PROVE  SubmissionKnows'
    <2> DEFINE free == [sub EXCEPT !.unread = @ \ {d}]
               mine == [sub EXCEPT !.unread = @ \ {d}, !.held = @ \cup {d}]
    <2>1. sub.pc = "classify" /\ sub' \in {free, mine, NoSubmission} /\ UNCHANGED run
        BY <1>7 DEF SubmitHolder
    <2>2. \A w \in {free, mine} : /\ w.pc = sub.pc /\ w.devs = sub.devs
                                  /\ w.user = sub.user /\ w.batch = sub.batch
        BY <1>1 DEF Submissions
    <2> HIDE DEF free, mine
    <2>3. sub.batch = NoBatch
        BY <1>1, <2>1 DEF SubmissionKnows
    <2>4. QED
        BY <1>3, <1>6, <2>1, <2>2, <2>3
<1>8. CASE SubmitReserve
    <2> DEFINE m == UnusedBatch
               borrowed == [sub EXCEPT !.pc = "create"]
               booked == [sub EXCEPT !.pc = "create", !.batch = m]
    <2>1. sub.pc = "classify" /\ sub' \in {borrowed, booked, NoSubmission} /\ UNCHANGED run
        BY <1>8 DEF SubmitReserve
    <2>2. \A n \in RunIds : run[n].batch # m
        BY <2>1, FreshBatch
    <2> HIDE DEF m
    <2>3. /\ borrowed.pc = "create" /\ borrowed.devs = sub.devs
          /\ borrowed.user = sub.user /\ borrowed.batch = sub.batch
          /\ booked.pc = "create" /\ booked.devs = sub.devs
          /\ booked.user = sub.user /\ booked.batch = m
        BY <1>1 DEF Submissions
    <2> HIDE DEF borrowed, booked
    <2>4. sub.batch = NoBatch
        BY <1>1, <2>1 DEF SubmissionKnows
    <2>5. QED
        BY <1>3, <1>6, <2>1, <2>2, <2>3, <2>4
<1>9. CASE SubmitCreate
    <2>1. sub'.pc = "signal"
        BY <1>1, <1>9 DEF SubmitCreate, Submissions
    <2>2. QED
        BY <1>2, <2>1
<1>10. CASE SubmitCreateFails
    <2> DEFINE ids == InBatch(sub.batch)
    <2>1. CASE ids = {} \/ sub.batch = NoBatch
        BY <1>3, <1>10, <2>1 DEF SubmitCreateFails
    <2>2. CASE ids # {} /\ sub.batch # NoBatch
        <3>1. sub' = [sub EXCEPT !.pc = "undo", !.unread = ids] /\ UNCHANGED <<lease, run>>
            BY <1>10, <2>2 DEF SubmitCreateFails
        <3> HIDE DEF ids
        <3>2. sub'.pc = "undo" /\ sub'.batch = sub.batch /\ sub'.unread = ids
            BY <1>1, <3>1 DEF Submissions
        <3>3. InBatch(sub.batch)' = ids
            BY <3>1, <3>2, BatchOfSubmission DEF InBatch, Leased, ids
        <3>4. sub.pc = "create"
            BY <1>10 DEF SubmitCreateFails
        <3>5. QED
            BY <1>1, <2>2, <3>1, <3>2, <3>3, <3>4 DEF SubmissionKnows
    <2>3. QED
        BY <2>1, <2>2
<1>11. ASSUME NEW d \in Devices, SubmitUndo(d)
       PROVE  SubmissionKnows'
    <2>1. CASE sub.unread = {d}
        BY <1>3, <1>11, <2>1 DEF SubmitUndo
    <2>2. CASE sub.unread # {d}
        <3>1. /\ sub.pc = "undo" /\ sub' = [sub EXCEPT !.unread = @ \ {d}]
              /\ lease' = [lease EXCEPT ![d] = NoLease] /\ UNCHANGED run
            BY <1>11, <2>2 DEF SubmitUndo
        <3>2. /\ sub'.pc = "undo" /\ sub'.batch = sub.batch
              /\ sub'.unread = sub.unread \ {d}
            BY <1>1, <3>1 DEF Submissions
        <3>3. InBatch(sub.batch)' \subseteq InBatch(sub.batch) \ {d}
            BY <3>1, <3>2, BatchOfSubmission DEF InBatch, Leased, NoLease, IInv, TypeOK
        <3>4. QED
            BY <1>1, <3>1, <3>2, <3>3 DEF SubmissionKnows
    <2>3. QED
        BY <2>1, <2>2
<1>12. QED
    BY <1>3, <1>4, <1>5, <1>7, <1>8, <1>9, <1>10, <1>11, SubmissionSteps

LEMMA BatchesInit == Init => BatchesAreKnown
<1> SUFFICES ASSUME Init PROVE BatchesAreKnown
    OBVIOUS
<1>1. Lost = {}
    BY DEF Init, Lost, InBatch, Leased, NoLease
<1>2. IsFiniteSet(Lost) /\ Cardinality(Lost) = 0
    BY <1>1, FS_EmptySet
<1>3. /\ crashes = 0 /\ sched.pc = "start"
      /\ \A n \in RunIds : run[n].batch = NoBatch
    BY DEF Init, Scheduler
<1> HIDE DEF Lost
<1>4. QED
    BY <1>2, <1>3 DEF BatchesAreKnown

\* A batch is lost only when the process dies on the request that booked it.
LEMMA LostStays ==
    ASSUME IInv, [Next]_vars, NEW b \in Batches, b \in Lost', b \notin Lost
    PROVE  Crash /\ b = sub.batch
<1>1. /\ InBatch(b)' # {}
      /\ \A n \in RunIds : run'[n].batch # b
      /\ sub'.pc \in {"create", "undo"} => sub'.batch # b
    BY DEF Lost
<1>2. b # NoBatch
    BY RunnerAssumption DEF Batches, NoBatch
<1>3. InBatch(b) # {}
    BY <1>1, BatchShrinks
<1>4. \A n \in RunIds : run[n].batch # b
    BY <1>1, <1>2, BatchOfRun DEF IInv, BatchesAreKnown
<1>5. sub.pc \in {"create", "undo"} /\ sub.batch = b
    BY <1>3, <1>4 DEF Lost
<1>6. CASE UNCHANGED sub
    BY <1>1, <1>5, <1>6
<1>7. CASE Crash
    BY <1>5, <1>7
<1>8. CASE SubmitCreate
    <2>1. PICK m \in Having("none"), r \in RunRow :
            r.batch = sub.batch /\ run' = [run EXCEPT ![m] = r] /\ run'[m] = r
        BY <1>8, Created
    <2>2. QED
        BY <1>1, <1>5, <2>1 DEF Having
<1>9. CASE SubmitCreateFails
    <2>1. sub' = [sub EXCEPT !.pc = "undo", !.unread = InBatch(sub.batch)]
        BY <1>2, <1>3, <1>5, <1>9 DEF SubmitCreateFails
    <2>2. sub'.pc = "undo" /\ sub'.batch = b
        BY <1>5, <2>1 DEF IInv, TypeOK
    <2>3. QED
        BY <1>1, <2>2
<1>10. ASSUME NEW d \in Devices, SubmitUndo(d)
       PROVE  FALSE
    <2>1. sub.pc = "undo" /\ lease' = [lease EXCEPT ![d] = NoLease]
        BY <1>10 DEF SubmitUndo
    <2>2. InBatch(b) \subseteq sub.unread
        BY <1>5, <2>1 DEF IInv, SubmissionKnows
    <2>3. CASE sub.unread = {d}
        BY <1>1, <2>1, <2>2, <2>3 DEF InBatch, Leased, NoLease, IInv, TypeOK
    <2>4. CASE sub.unread # {d}
        BY <1>1, <1>5, <1>10, <2>4 DEF SubmitUndo, IInv, TypeOK
    <2>5. QED
        BY <2>3, <2>4
<1>11. ASSUME NEW u \in Users, NEW D \in (SUBSET Devices) \ {{}}, SubmitStart(u, D)
       PROVE  FALSE
    BY <1>5, <1>11 DEF SubmitStart
<1>12. ASSUME NEW d \in Devices, SubmitHolder(d)
       PROVE  FALSE
    BY <1>5, <1>12 DEF SubmitHolder
<1>13. ~SubmitReserve /\ ~SubmitSignal
    BY <1>5 DEF SubmitReserve, SubmitSignal
<1>14. QED
    BY <1>6, <1>7, <1>8, <1>9, <1>10, <1>11, <1>12, <1>13, SubmissionSteps

\* As many batches are lost as the process has died, at most.
LEMMA LostStep == IInv /\ [Next]_vars => IsFiniteSet(Lost') /\ Cardinality(Lost') <= crashes'
<1> SUFFICES ASSUME IInv, [Next]_vars
             PROVE  IsFiniteSet(Lost') /\ Cardinality(Lost') <= crashes'
    OBVIOUS
<1>1. IsFiniteSet(Lost) /\ Cardinality(Lost) <= crashes /\ crashes \in Nat
    BY RunnerAssumption DEF IInv, BatchesAreKnown, TypeOK
<1>2. Cardinality(Lost) \in Nat
    BY <1>1, FS_CardinalityType
<1>3. Lost' \subseteq Batches
    BY DEF Lost
<1>4. CASE Crash
    <2>1. Lost' \subseteq Lost \cup {sub.batch}
        BY <1>3, LostStays
    <2>2. IsFiniteSet(Lost \cup {sub.batch})
          /\ Cardinality(Lost \cup {sub.batch}) <= Cardinality(Lost) + 1
        BY <1>1, <1>2, FS_AddElement
    <2>3. IsFiniteSet(Lost') /\ Cardinality(Lost') <= Cardinality(Lost \cup {sub.batch})
        BY <2>1, <2>2, FS_Subset
    <2>4. Cardinality(Lost') \in Nat /\ Cardinality(Lost \cup {sub.batch}) \in Nat
        BY <2>2, <2>3, FS_CardinalityType
    <2>5. crashes' = crashes + 1
        BY <1>4 DEF Crash
    <2>6. QED
        BY <1>1, <1>2, <2>2, <2>3, <2>4, <2>5
<1>5. CASE ~Crash
    <2>1. Lost' \subseteq Lost
        BY <1>3, <1>5, LostStays
    <2>2. IsFiniteSet(Lost') /\ Cardinality(Lost') <= Cardinality(Lost)
        BY <1>1, <2>1, FS_Subset
    <2>3. Cardinality(Lost') \in Nat
        BY <2>2, FS_CardinalityType
    <2>4. UNCHANGED crashes
        BY <1>5 DEF Next, vars, SubmitStart, SubmitHolder, SubmitReserve, SubmitCreate,
               SubmitCreateFails, SubmitUndo, SubmitSignal, Schedule, RecoverScan,
               RecoverDevices, RecoverStatus, RecoverDone, Scan, Sleep, WakeUp, Begin,
               Finish, ReleaseList, ReleaseNext, DeviceStart, DeviceEnd, Cancel, Hold,
               Drop, Renew, Reap, Tick
    <2>5. QED
        BY <1>1, <1>2, <2>2, <2>3, <2>4
<1>6. QED
    BY <1>4, <1>5

\* The devices left to a release, after a step, named by the batch it goes by.
LEMMA BatchOfRelease ==
    ASSUME NEW b, run'[sched'.n].batch = b
    PROVE  InBatch(run[sched.n].batch)'
                = {d \in Devices : lease'[d].user # Nobody /\ lease'[d].batch = b}
BY DEF InBatch, Leased

LEMMA BatchesStep == IInv /\ [Next]_vars => BatchesAreKnown'
<1> SUFFICES ASSUME IInv, [Next]_vars PROVE BatchesAreKnown'
    OBVIOUS
<1>1. ASSUME NEW n \in RunIds, run'[n].status = "none"
      PROVE  run'[n].batch = NoBatch
    <2>1. run'[n].batch = run[n].batch
        BY <1>1, BatchOfRun
    <2>2. run[n].status = "none"
        <3>1. ASSUME NEW st \in {"running"} \cup Ended,
                     run' = [run EXCEPT ![sched.n].status = st]
              PROVE  run[n].status = "none"
            BY <1>1, <3>1 DEF IInv, TypeOK, Ended
        <3>2. CASE SubmitCreate
            <4>1. PICK m \in Having("none"), r \in RunRow :
                    run' = [run EXCEPT ![m] = r]
                BY <3>2, Created
            <4>2. QED
                BY <1>1, <4>1 DEF IInv, TypeOK, Having
        <3>3. QED
            BY <1>1, <3>1, <3>2, RunSteps
    <2>3. QED
        BY <2>1, <2>2 DEF IInv, BatchesAreKnown
<1>2. ASSUME sched'.pc = "release"
      PROVE  /\ run'[sched'.n].batch # NoBatch
             /\ InBatch(run[sched.n].batch)' \subseteq sched'.devs
    <2>1. sched \in Schedulers
        BY DEF IInv, TypeOK, Schedulers
    <2>2. CASE ReleaseList
        <3> DEFINE ids == IF run[sched.n].batch = NoBatch THEN {}
                          ELSE InBatch(run[sched.n].batch)
        <3>1. AfterRelease.pc # "release"
            BY DEF AfterRelease, Scheduler
        <3>2. /\ ids # {} /\ sched' = [sched EXCEPT !.pc = "release", !.devs = ids]
              /\ UNCHANGED <<run, lease>>
            BY <1>2, <2>2, <3>1 DEF ReleaseList
        <3>3. run[sched.n].batch # NoBatch /\ ids = InBatch(run[sched.n].batch)
            BY <3>2
        <3> HIDE DEF ids
        <3>4. sched'.n = sched.n /\ sched'.devs = ids
            BY <2>1, <3>2 DEF Schedulers
        <3>5. InBatch(run[sched.n].batch)' = InBatch(run[sched.n].batch)
            BY <3>2, <3>4, BatchOfRelease DEF InBatch, Leased
        <3>6. QED
            BY <3>2, <3>3, <3>4, <3>5
    <2>3. ASSUME NEW d \in Devices, ReleaseNext(d)
          PROVE  /\ run'[sched'.n].batch # NoBatch
                 /\ InBatch(run[sched.n].batch)' \subseteq sched'.devs
        <3>1. AfterRelease.pc # "release"
            BY DEF AfterRelease, Scheduler
        <3>2. /\ sched.pc = "release" /\ sched' = [sched EXCEPT !.devs = @ \ {d}]
              /\ lease' = [lease EXCEPT ![d] = NoLease] /\ UNCHANGED run
            BY <1>2, <2>3, <3>1 DEF ReleaseNext
        <3>3. sched'.n = sched.n /\ sched'.devs = sched.devs \ {d}
            BY <2>1, <3>2 DEF Schedulers
        <3>4. /\ run[sched.n].batch # NoBatch
              /\ InBatch(run[sched.n].batch) \subseteq sched.devs
            BY <3>2 DEF IInv, BatchesAreKnown
        <3>5. InBatch(run[sched.n].batch)' \subseteq InBatch(run[sched.n].batch) \ {d}
            BY <3>2, <3>3, BatchOfRelease DEF InBatch, Leased, NoLease, IInv, TypeOK
        <3>6. QED
            BY <3>2, <3>3, <3>4, <3>5
    <2>4. CASE UNCHANGED sched
        <3>1. sched.pc = "release" /\ sched.n \in RunIds
            BY <1>2, <2>4 DEF IInv, RunningIsKnown
        <3>2. /\ run[sched.n].batch # NoBatch
              /\ InBatch(run[sched.n].batch) \subseteq sched.devs
            BY <3>1 DEF IInv, BatchesAreKnown
        <3>3. PICK n \in RunIds : n = sched.n
            BY <3>1
        <3>4. /\ run'[n].batch = run[n].batch
              /\ InBatch(run[n].batch)' \subseteq InBatch(run[n].batch)
            BY <3>2, <3>3, BatchKept
        <3>5. InBatch(run[sched.n].batch)' = InBatch(run[n].batch)'
            BY <2>4, <3>3, BatchOfRelease DEF InBatch, Leased
        <3>6. QED
            BY <2>4, <3>2, <3>3, <3>4, <3>5
    <2>5. RecoverStatus \/ Begin \/ Finish => sched'.pc # "release"
        BY <2>1 DEF RecoverStatus, Begin, Finish, Schedulers
    <2>6. RecoverScan \/ RecoverDone \/ Scan => sched'.pc # "release"
        BY DEF RecoverScan, RecoverDone, Scan, Scheduler
    <2>7. Sleep \/ Crash => sched'.pc # "release"
        BY DEF Sleep, Crash, Scheduler
    <2>8. WakeUp => sched'.pc # "release"
        BY DEF WakeUp, Scheduler
    <2>9. \A n \in RunIds : RecoverDevices(n) => sched'.pc # "release"
        BY DEF RecoverDevices, Scheduler
    <2>10. QED
        BY <1>2, <2>2, <2>3, <2>4, <2>5, <2>6, <2>7, <2>8, <2>9, SchedulerSteps
<1>3. QED
    BY <1>1, <1>2, LostStep DEF BatchesAreKnown

LEMMA HoldNothingInit == Init => EndedRunsHoldNothing
BY DEF Init, EndedRunsHoldNothing, Ended

\* A run leaves the scheduler's hand when its last device is given back, or when
\* there was none to give back.
LEMMA HandedBack ==
    ASSUME IInv, [Next]_vars, sched.pc \in {"list", "release"}, ~Crash,
           run[sched.n].batch # NoBatch,
           ~(sched'.pc \in {"list", "release"} /\ sched'.n = sched.n)
    PROVE  /\ UNCHANGED run
           /\ \A d \in Devices : lease'[d].user # Nobody =>
                                     lease'[d].batch # run[sched.n].batch
<1>1. CASE ReleaseList
    <2>1. UNCHANGED <<run, lease>>
        BY <1>1 DEF ReleaseList
    <2>2. InBatch(run[sched.n].batch) = {}
        BY <1>1 DEF ReleaseList, IInv, TypeOK
    <2>3. QED
        BY <2>1, <2>2 DEF InBatch, Leased
<1>2. ASSUME NEW d \in Devices, ReleaseNext(d)
      PROVE  /\ UNCHANGED run
             /\ \A e \in Devices : lease'[e].user # Nobody =>
                                       lease'[e].batch # run[sched.n].batch
    <2>1. sched.pc = "release" /\ UNCHANGED run /\ lease' = [lease EXCEPT ![d] = NoLease]
        BY <1>2 DEF ReleaseNext
    <2>2. sched.devs = {d}
        BY <1>2, <2>1 DEF ReleaseNext, IInv, TypeOK
    <2>3. InBatch(run[sched.n].batch) \subseteq {d}
        BY <2>1, <2>2 DEF IInv, BatchesAreKnown
    <2>4. QED
        BY <2>1, <2>3 DEF InBatch, Leased, NoLease, IInv, TypeOK
<1>3. ~UNCHANGED sched
    OBVIOUS
<1>4. ~(RecoverScan \/ RecoverStatus \/ Begin \/ Finish \/ RecoverDone \/ Sleep)
    BY DEF RecoverScan, RecoverStatus, Begin, Finish, RecoverDone, Sleep
<1>5. ~(WakeUp \/ Scan \/ \E n \in RunIds : RecoverDevices(n))
    BY DEF WakeUp, Scan, RecoverDevices
<1>6. QED
    BY <1>1, <1>2, <1>3, <1>4, <1>5, SchedulerSteps

LEMMA HoldNothingStep == IInv /\ [Next]_vars => EndedRunsHoldNothing'
<1> SUFFICES ASSUME IInv, [Next]_vars,
                    NEW n \in RunIds, n \notin cut', run'[n].status \in Ended,
                    run'[n].batch # NoBatch,
                    ~(sched'.pc \in {"list", "release"} /\ sched'.n = n)
             PROVE  \A d \in Devices : lease'[d].user # Nobody =>
                                            lease'[d].batch # run'[n].batch
    BY DEF EndedRunsHoldNothing, InBatch, Leased
<1>1. CASE Crash
    <2>1. InBatch(run[n].batch) = {} /\ UNCHANGED <<run, lease>>
        BY <1>1 DEF Crash
    <2>2. QED
        BY <2>1 DEF InBatch, Leased
<1>2. CASE ~Crash
    <2>1. n \notin cut
        BY <1>2 DEF Next, vars, SubmitStart, SubmitHolder, SubmitReserve, SubmitCreate,
               SubmitCreateFails, SubmitUndo, SubmitSignal, Schedule, RecoverScan,
               RecoverDevices, RecoverStatus, RecoverDone, Scan, Sleep, WakeUp, Begin,
               Finish, ReleaseList, ReleaseNext, DeviceStart, DeviceEnd, Cancel, Hold,
               Drop, Renew, Reap, Tick
    <2>2. run[n].status \in Ended
        <3>1. SUFFICES ASSUME run[n].status \notin Ended PROVE FALSE
            OBVIOUS
        <3>2. ~SubmitCreate
            <4>1. SUFFICES ASSUME SubmitCreate PROVE FALSE
                OBVIOUS
            <4>2. PICK m \in Having("none"), r \in RunRow :
                    r.status = "queued" /\ run' = [run EXCEPT ![m] = r] /\ run'[m] = r
                BY <4>1, Created
            <4>3. QED
                BY <3>1, <4>2 DEF IInv, TypeOK, Having, Ended
        <3>3. run' # run
            BY <3>1
        <3>4. PICK st \in {"running"} \cup Ended :
                /\ sched.n \in RunIds
                /\ run' = [run EXCEPT ![sched.n].status = st]
                /\ run'[sched.n].status = st
                /\ st # "running" => sched' = [sched EXCEPT !.pc = "list"]
            BY <3>2, <3>3, RunSteps
        <3>5. n = sched.n
            BY <3>1, <3>4 DEF IInv, TypeOK
        <3>6. sched' = [sched EXCEPT !.pc = "list"]
            BY <3>4, <3>5 DEF Ended
        <3>7. QED
            BY <3>5, <3>6 DEF IInv, TypeOK
    <2>3. run'[n] = run[n]
        BY <2>2, EndedStays
    <2>4. CASE sched.pc \in {"list", "release"} /\ sched.n = n
        BY <1>2, <2>3, <2>4, HandedBack
    <2>5. CASE ~(sched.pc \in {"list", "release"} /\ sched.n = n)
        <3>1. InBatch(run[n].batch) = {}
            BY <2>1, <2>2, <2>3, <2>5 DEF IInv, EndedRunsHoldNothing
        <3>2. InBatch(run[n].batch)' = {}
            BY <2>3, <3>1, BatchKept
        <3>3. QED
            BY <3>2 DEF InBatch, Leased
    <2>6. QED
        BY <2>4, <2>5
<1>3. QED
    BY <1>1, <1>2

-----------------------------------------------------------------------------
(* Wake-ups                                                                *)

LEMMA QueuedInit == Init => QueuedIsAnnounced
BY DEF Init, QueuedIsAnnounced, Scheduler

LEMMA QueuedStep == IInv /\ [Next]_vars => QueuedIsAnnounced'
<1> SUFFICES ASSUME IInv, [Next]_vars, sched'.pc \in {"drained", "wait"},
                    Having("queued")' # {}
             PROVE  wake' \/ sub'.pc = "signal"
    BY DEF QueuedIsAnnounced
<1>1. sched \in Schedulers /\ sub \in Submissions
    BY DEF IInv, TypeOK, Schedulers, Submissions
<1>2. CASE SubmitCreate
    BY <1>1, <1>2 DEF SubmitCreate, Submissions
<1>3. CASE SubmitSignal
    BY <1>3 DEF SubmitSignal
<1>4. CASE Scan
    <2>1. Having("queued")' = Having("queued")
        BY <1>4 DEF Scan, Having
    <2>2. sched'.pc = "begin"
        BY <1>4, <2>1 DEF Scan, Scheduler
    <2>3. QED
        BY <2>2
<1>5. CASE Sleep
    <2>1. Having("queued")' = Having("queued")
        BY <1>5 DEF Sleep, Having
    <2>2. QED
        BY <1>5, <2>1 DEF Sleep, IInv, QueuedIsAnnounced
<1>6. CASE UNCHANGED sched /\ ~SubmitCreate /\ ~SubmitSignal /\ ~Crash /\ ~WakeUp
    <2>1. UNCHANGED run
        BY <1>6, RunSteps
    <2>2. Having("queued")' = Having("queued")
        BY <2>1 DEF Having
    <2>3. wake \/ sub.pc = "signal"
        BY <1>6, <2>2 DEF IInv, QueuedIsAnnounced
    <2>4. UNCHANGED wake
        BY <1>6 DEF Next, vars, SubmitStart, SubmitHolder, SubmitReserve,
               SubmitCreateFails, SubmitUndo, Schedule, RecoverScan, RecoverDevices,
               RecoverStatus, RecoverDone, Scan, Sleep, Begin, Finish, ReleaseList,
               ReleaseNext, DeviceStart, DeviceEnd, Cancel, Hold, Drop, Renew, Reap, Tick
    <2>5. sub.pc = "signal" => UNCHANGED sub
        BY <1>6, SubmissionSteps
           DEF SubmitStart, SubmitHolder, SubmitUndo, SubmitReserve, SubmitCreateFails
    <2>6. QED
        BY <2>3, <2>4, <2>5
<1>7. ASSUME sched'.pc = "scan" \/ sched'.pc = "start"
      PROVE  FALSE
    BY <1>7
<1>8. ~WakeUp /\ ~Crash
    <2>1. WakeUp => sched'.pc = "scan"
        BY DEF WakeUp, Scheduler
    <2>2. Crash => sched'.pc = "start"
        BY DEF Crash, Scheduler
    <2>3. QED
        BY <1>7, <2>1, <2>2
<1>9. ~(RecoverStatus \/ Begin \/ Finish)
    BY <1>1 DEF RecoverStatus, Begin, Finish, Schedulers
<1>10. ~(RecoverScan \/ RecoverDone \/ \E n \in RunIds : RecoverDevices(n))
    BY DEF RecoverScan, RecoverDone, RecoverDevices, Scheduler
<1>11. AfterRelease.pc \in {"scan", "orphans"}
    BY DEF AfterRelease, Scheduler
<1>12. ~(ReleaseList \/ \E d \in Devices : ReleaseNext(d))
    BY <1>1, <1>11 DEF ReleaseList, ReleaseNext, Schedulers
<1>13. QED
    BY <1>2, <1>3, <1>4, <1>5, <1>6, <1>8, <1>9, <1>10, <1>12, SchedulerSteps

-----------------------------------------------------------------------------
(* The theorems                                                            *)

LEMMA InvariantInit == Init => IInv
BY TypeInit, RunningInit, DevicesInit, SubmissionInit, BatchesInit, HoldNothingInit,
   QueuedInit DEF IInv

LEMMA InvariantStep == IInv /\ [Next]_vars => IInv'
BY TypeStep, RunningStep, DevicesStep, SubmissionStep, BatchesStep, HoldNothingStep,
   QueuedStep DEF IInv

LEMMA Invariant == Spec => []IInv
BY InvariantInit, InvariantStep, PTL DEF Spec

\* The state stays typed: Submit always finds a batch number that no device, no
\* run and no other request uses, however many runs and crashes there were.
THEOREM Typing == Spec => []TypeOK
<1>1. IInv => TypeOK
    BY DEF IInv
<1>2. QED
    BY <1>1, Invariant, PTL

\* "One run executes at a time", also counting the runs that a process left
\* "running" when it died: they are recovered before another begins.
THEOREM OneAtATime == Spec => []OneRunAtATime
<1>1. IInv => OneRunAtATime
    <2> SUFFICES ASSUME IInv PROVE OneRunAtATime
        OBVIOUS
    <2> DEFINE R == Having("running")
    <2>1. \A m, n \in R : m = n
        BY DEF IInv, RunningIsKnown
    <2> HIDE DEF R
    <2>2. CASE R = {}
        <3>1. Cardinality(R) = 0
            BY <2>2, FS_EmptySet
        <3>2. QED
            BY <3>1 DEF OneRunAtATime, R
    <2>3. CASE R # {}
        <3>1. PICK n \in R : R = {n}
            BY <2>1, <2>3
        <3>2. Cardinality(R) = 1
            BY <3>1, FS_Singleton
        <3>3. QED
            BY <3>2 DEF OneRunAtATime, R
    <2>4. QED
        BY <2>2, <2>3
<1>2. QED
    BY <1>1, Invariant, PTL

\* A run that has ended has a verdict for every one of its devices, and there is
\* at least one: recovery settles what a dead process left behind.
THEOREM EndedAreSettled == Spec => []EndedRunsAreSettled
<1>1. IInv => EndedRunsAreSettled
    BY DEF IInv, RunsHaveDevices, EndedRunsAreSettled, Ended
<1>2. QED
    BY <1>1, Invariant, PTL

\* A run that is reported passed has no device that failed or could not run, and
\* one that passed if any was skipped.
THEOREM PassedHaveNoFailure == Spec => []PassedRunsHaveNoFailure
<1>1. IInv => PassedRunsHaveNoFailure
    BY DEF IInv
<1>2. QED
    BY <1>1, Invariant, PTL

\* An ended run's batch is given back, unless the process died on it.
THEOREM EndedHoldNothing == Spec => []EndedRunsHoldNothing
<1>1. IInv => EndedRunsHoldNothing
    BY DEF IInv
<1>2. QED
    BY <1>1, Invariant, PTL

\* The scheduler never sleeps on a queued run that nobody is about to announce:
\* a signal sent between its last query and its sleep is kept in the channel.
THEOREM WakeupsAreKept == Spec => []NoLostWakeup
<1>1. IInv => NoLostWakeup
    BY DEF IInv, QueuedIsAnnounced, NoLostWakeup
<1>2. QED
    BY <1>1, Invariant, PTL

\* The result of a run is final: no late worker, no cancel and no recovery writes
\* the row of an ended run or of its devices.
THEOREM FinalResults == Spec => ResultsAreFinal
<1>1. IInv /\ [Next]_vars =>
        [\A n \in RunIds : run[n].status \in Ended =>
            run'[n] = run[n] /\ verdict'[n] = verdict[n]]_vars
    BY EndedStays
<1>2. QED
    BY <1>1, Invariant, PTL DEF Spec, ResultsAreFinal

-----------------------------------------------------------------------------
(* Leases                                                                  *)

\* The user who holds each device.
holder == [d \in Devices |-> lease[d].user]

Promise == INSTANCE Lease WITH Devices <- Devices, Users <- Users, Nobody <- Nobody,
                               holder <- holder

LEMMA LeaseStep == IInv /\ [Next]_vars => [Promise!Next]_holder
<1> SUFFICES ASSUME IInv, [Next]_vars PROVE Promise!Next \/ holder' = holder
    OBVIOUS
<1>1. lease \in [Devices -> LeaseRow]
    BY DEF IInv, TypeOK, LeaseRow
<1>2. ASSUME NEW d \in Devices, lease' = [lease EXCEPT ![d] = NoLease]
      PROVE  Promise!Next \/ holder' = holder
    <2>1. holder' = [holder EXCEPT ![d] = Nobody]
        BY <1>1, <1>2 DEF holder, NoLease
    <2>2. CASE holder[d] = Nobody
        BY <2>1, <2>2 DEF holder
    <2>3. CASE holder[d] # Nobody
        BY <2>1, <2>3 DEF Promise!Next, Promise!Drop
    <2>4. QED
        BY <2>2, <2>3
<1>3. ASSUME NEW u \in Users, NEW D \in (SUBSET Devices) \ {{}}, NEW b,
             \A d \in D : ~Leased(d),
             lease' = [d \in Devices |-> IF d \in D THEN [user |-> u, batch |-> b, idle |-> 0]
                                         ELSE lease[d]]
      PROVE  Promise!Next
    <2>1. \A d \in D : holder[d] = Nobody
        BY <1>3 DEF holder, Leased
    <2>2. holder' = [d \in Devices |-> IF d \in D THEN u ELSE holder[d]]
        BY <1>3 DEF holder
    <2>3. QED
        BY <2>1, <2>2 DEF Promise!Next, Promise!Acquire
<1>4. CASE SubmitReserve
    <2>1. sub.user \in Users /\ sub.devs \in (SUBSET Devices) \ {{}}
        BY <1>4 DEF SubmitReserve, IInv, SubmissionKnows, TypeOK
    <2> DEFINE b == UnusedBatch
    <2>2. \/ UNCHANGED lease
          \/ /\ \A d \in sub.devs : ~Leased(d)
             /\ lease' = [d \in Devices |->
                             IF d \in sub.devs
                             THEN [user |-> sub.user, batch |-> b, idle |-> 0]
                             ELSE lease[d]]
        BY <1>4 DEF SubmitReserve
    <2> HIDE DEF b
    <2>3. QED
        BY <1>3, <2>1, <2>2 DEF holder
<1>5. ASSUME NEW u \in Users, NEW d \in Devices, Hold(u, d)
      PROVE  Promise!Next
    <2>1. lease' = [e \in Devices |-> IF e \in {d}
                                      THEN [user |-> u, batch |-> NoBatch, idle |-> 0]
                                      ELSE lease[e]]
        BY <1>1, <1>5 DEF Hold
    <2>2. \A e \in {d} : ~Leased(e)
        BY <1>5 DEF Hold
    <2>3. {d} \in (SUBSET Devices) \ {{}}
        OBVIOUS
    <2>4. QED
        BY <1>3, <2>1, <2>2, <2>3
<1>6. ASSUME \A d \in Devices : lease'[d].user = lease[d].user
      PROVE  holder' = holder
    BY <1>6 DEF holder
<1>7. ASSUME NEW d \in Devices, Renew(d)
      PROVE  holder' = holder
    BY <1>1, <1>6, <1>7 DEF Renew, LeaseRow
<1>8. CASE Tick
    BY <1>1, <1>6, <1>8 DEF Tick, LeaseRow
<1>9. CASE UNCHANGED lease
    BY <1>9 DEF holder
<1>10. QED
    BY <1>2, <1>4, <1>5, <1>7, <1>8, <1>9, LeaseWriters

\* However Submit, its undoing, the scheduler's releases and the others interleave,
\* the leases change as Lease says: a run books only devices that are all unheld,
\* all of them at once, and no device passes from one user to another directly.
THEOREM LeasesAreLeases == Spec => Promise!Spec
<1>1. Init => Promise!Init
    BY DEF Init, Promise!Init, holder, NoLease
<1>2. QED
    BY <1>1, Invariant, LeaseStep, PTL DEF Spec, Promise!Spec

-----------------------------------------------------------------------------
(* The queue                                                               *)

\* Runs are created in the order of their numbers, none after a run that has not
\* ended has begun, and the one about to begin is the first that has not ended.
InOrder ==
    /\ \A m, n \in RunIds : m < n /\ run[m].status = "none" => run[n].status = "none"
    /\ \A m, n \in RunIds :
            m < n /\ run[m].status \notin Ended => run[n].status \in {"none", "queued"}
    /\ sched.pc = "begin" =>
            \A m \in RunIds : m < sched.n => run[m].status \in Ended

\* The oldest run with a status, of those that have it.
LEMMA OldestRun ==
    ASSUME NEW st, NEW m \in RunIds, run[m].status = st
    PROVE  Least(Having(st)) <= m
<1>1. Having(st) \in SUBSET Nat /\ m \in Having(st)
    BY RunnerAssumption DEF Having, RunIds
<1>2. QED
    BY <1>1, LeastNumber

\* The run that Submit creates is the first that was not created, ...
LEMMA CreatedInOrder ==
    ASSUME IInv, InOrder, SubmitCreate
    PROVE  /\ InOrder'
           /\ \E n \in RunIds : /\ run[n].status = "none"
                                /\ \A m \in RunIds : m < n => run[m].status # "none"
                                /\ run' = [run EXCEPT ![n] = run'[n]]
                                /\ run'[n].status = "queued"
<1>1. PICK n \in Having("none"), r \in RunRow :
        /\ n = Least(Having("none"))
        /\ r = [status |-> "queued", user |-> sub.user, batch |-> sub.batch]
        /\ run' = [run EXCEPT ![n] = r]
        /\ run'[n] = r
    BY Created
<1>2. n \in RunIds /\ run[n].status = "none" /\ r.status = "queued"
    BY <1>1 DEF Having
<1>3. ASSUME NEW m \in RunIds, m < n
      PROVE  run[m].status # "none"
    <2>1. ~(n <= m)
        BY <1>2, <1>3 DEF RunIds
    <2>2. QED
        BY <1>1, <2>1, OldestRun
<1>4. \A m \in RunIds : m # n => run'[m] = run[m]
    BY <1>1, <1>2 DEF IInv, TypeOK
<1>5. run'[n].status = "queued"
    BY <1>1, <1>2
<1>6. UNCHANGED sched
    BY DEF SubmitCreate
<1>7. ASSUME NEW k \in RunIds, NEW m \in RunIds, k < m, run'[k].status = "none"
      PROVE  run'[m].status = "none"
    <2>1. k # n /\ run[k].status = "none"
        BY <1>4, <1>5, <1>7
    <2>2. ~(k < n)
        BY <1>3, <2>1
    <2>3. m # n
        BY <1>2, <1>7, <2>1, <2>2 DEF RunIds
    <2>4. QED
        BY <1>4, <1>7, <2>1, <2>3 DEF InOrder
<1>8. ASSUME NEW k \in RunIds, NEW m \in RunIds, k < m, run'[k].status \notin Ended
      PROVE  run'[m].status \in {"none", "queued"}
    <2>1. CASE m = n
        BY <1>5, <2>1
    <2>2. CASE m # n /\ k # n
        BY <1>4, <1>8, <2>2 DEF InOrder
    <2>3. CASE m # n /\ k = n
        BY <1>2, <1>4, <1>8, <2>3 DEF InOrder
    <2>4. QED
        BY <2>1, <2>2, <2>3
<1>9. ASSUME sched'.pc = "begin", NEW m \in RunIds, m < sched'.n
      PROVE  run'[m].status \in Ended
    <2>1. run[m].status \in Ended
        BY <1>6, <1>9 DEF InOrder
    <2>2. m # n
        BY <1>2, <2>1 DEF Ended
    <2>3. QED
        BY <1>4, <2>1, <2>2
<1>10. InOrder'
    BY <1>7, <1>8, <1>9 DEF InOrder
<1>11. QED
    BY <1>1, <1>2, <1>3, <1>5, <1>10

\* ... and the one the scheduler begins is the first that has not ended.
LEMMA BegunInOrder ==
    ASSUME IInv, InOrder, NEW st \in {"running"} \cup Ended,
           sched.pc \in {"orphan", "begin", "work"}, sched.n \in RunIds,
           st = "running" <=> sched.pc = "begin",
           run' = [run EXCEPT ![sched.n].status = st], sched'.pc # "begin"
    PROVE  InOrder'
<1> DEFINE n == sched.n
<1>1. \A m \in RunIds : m # n => run'[m] = run[m]
    BY DEF IInv, TypeOK
<1>2. run'[n].status = st
    BY DEF IInv, TypeOK
<1>3. run[n].status \in {"queued", "running"} /\ st # "none" /\ st # "queued"
    BY DEF IInv, RunningIsKnown, Having, Ended
<1>4. "queued" \notin Ended /\ "running" \notin Ended /\ "none" \notin Ended
    BY DEF Ended
<1>5. ASSUME NEW k \in RunIds, NEW m \in RunIds, k < m, run'[k].status = "none"
      PROVE  run'[m].status = "none"
    <2>1. k # n /\ run[k].status = "none"
        BY <1>1, <1>2, <1>3, <1>5
    <2>2. run[m].status = "none"
        BY <1>5, <2>1 DEF InOrder
    <2>3. QED
        BY <1>1, <1>3, <2>2
<1>6. ASSUME NEW k \in RunIds, NEW m \in RunIds, k < m, run'[k].status \notin Ended
      PROVE  run'[m].status \in {"none", "queued"}
    <2>1. run[k].status \notin Ended
        BY <1>1, <1>3, <1>4, <1>6
    <2>2. run[m].status \in {"none", "queued"}
        BY <1>6, <2>1 DEF InOrder
    <2>3. m # n
        <3>1. SUFFICES ASSUME m = n PROVE FALSE
            OBVIOUS
        <3>2. CASE sched.pc = "begin"
            BY <1>6, <2>1, <3>1, <3>2 DEF InOrder
        <3>3. CASE sched.pc # "begin"
            <4>1. run[n].status = "running"
                BY <3>3 DEF IInv, RunningIsKnown, Having
            <4>2. QED
                BY <2>2, <3>1, <4>1
        <3>4. QED
            BY <3>2, <3>3
    <2>4. QED
        BY <1>1, <2>2, <2>3
<1>7. QED
    BY <1>5, <1>6 DEF InOrder

\* The queue stays in order when only the scheduler moves.
LEMMA ScannedInOrder ==
    ASSUME IInv, InOrder, [Next]_vars, UNCHANGED run
    PROVE  InOrder'
<1>1. ASSUME sched'.pc = "begin", NEW m \in RunIds, m < sched'.n
      PROVE  run[m].status \in Ended
    <2>1. CASE UNCHANGED sched
        BY <1>1, <2>1 DEF InOrder
    <2>2. CASE Scan
        <3> DEFINE q == Least(Having("queued"))
        <3>1. Having("queued") # {} /\ sched'.n = q
            BY <1>1, <2>2 DEF Scan, Scheduler
        <3>2. q \in RunIds /\ run[q].status = "queued"
            BY <3>1, LeastRun
        <3> HIDE DEF q
        <3>3. run[m].status # "queued"
            <4>1. ~(q <= m)
                BY <1>1, <3>1, <3>2 DEF RunIds
            <4>2. QED
                BY <4>1, OldestRun DEF q
        <3>4. run[m].status # "running"
            BY <2>2 DEF Scan, IInv, RunningIsKnown, Having
        <3>5. run[m].status # "none"
            BY <1>1, <3>1, <3>2 DEF InOrder
        <3>6. QED
            BY <3>3, <3>4, <3>5 DEF IInv, TypeOK
    <2>3. CASE ~UNCHANGED sched /\ ~Scan
        <3>1. sched \in Schedulers
            BY DEF IInv, TypeOK, Schedulers
        <3>2. CASE RecoverStatus \/ Begin \/ Finish
            BY <1>1, <3>1, <3>2 DEF RecoverStatus, Begin, Finish, Schedulers
        <3>3. CASE RecoverScan \/ RecoverDone \/ Sleep \/ WakeUp \/ Crash
            <4>1. \E pc \in {"start", "orphans", "scan", "wait"}, todo \in SUBSET RunIds :
                        sched' = Scheduler(pc, 0, todo, {})
                BY <3>3 DEF RecoverScan, RecoverDone, Sleep, WakeUp, Crash, Having
            <4>2. QED
                BY <1>1, <4>1 DEF Scheduler
        <3>4. AfterRelease.pc # "begin"
            BY DEF AfterRelease, Scheduler
        <3>5. CASE ReleaseList
            BY <1>1, <3>1, <3>4, <3>5 DEF ReleaseList, Schedulers
        <3>6. ASSUME NEW d \in Devices, ReleaseNext(d)
              PROVE  sched'.pc # "begin"
            BY <3>1, <3>4, <3>6 DEF ReleaseNext, Schedulers
        <3>7. ASSUME NEW n \in RunIds, RecoverDevices(n)
              PROVE  sched'.pc # "begin"
            BY <3>7 DEF RecoverDevices, Scheduler
        <3>8. QED
            BY <1>1, <2>3, <3>2, <3>3, <3>5, <3>6, <3>7, SchedulerSteps
    <2>4. QED
        BY <2>1, <2>2, <2>3
<1>2. QED
    BY <1>1 DEF InOrder

LEMMA InOrderInit == Init => InOrder
BY DEF Init, InOrder, Ended, Scheduler

LEMMA InOrderStep == IInv /\ InOrder /\ [Next]_vars => InOrder'
<1> SUFFICES ASSUME IInv, InOrder, [Next]_vars PROVE InOrder'
    OBVIOUS
<1>1. CASE UNCHANGED run
    BY <1>1, ScannedInOrder
<1>2. CASE SubmitCreate
    BY <1>2, CreatedInOrder
<1>3. CASE RecoverStatus \/ Begin \/ Finish
    <2>1. sched'.pc # "begin"
        BY <1>3 DEF RecoverStatus, Begin, Finish, IInv, TypeOK
    <2>2. Outcome(sched.n) \in Ended
        BY DEF Outcome, Ended
    <2>3. sched.pc \in {"orphan", "begin", "work"} => sched.n \in RunIds
        BY DEF IInv, RunningIsKnown, Having
    <2>4. "running" \notin Ended /\ "error" \in Ended
        BY DEF Ended
    <2>5. QED
        BY <1>3, <2>1, <2>2, <2>3, <2>4, BegunInOrder DEF RecoverStatus, Begin, Finish
<1>4. UNCHANGED run \/ SubmitCreate \/ RecoverStatus \/ Begin \/ Finish
    BY RunWriters
<1>5. QED
    BY <1>1, <1>2, <1>3, <1>4

\* The status of each run, as RunQueue sees it.
state == [n \in RunIds |-> run[n].status]

\* Every step is one of the queue, or nothing to it.
LEMMA QueueStep == IInv /\ InOrder /\ [Next]_vars => [Queue!Next]_state
<1> SUFFICES ASSUME IInv, InOrder, [Next]_vars PROVE [Queue!Next]_state
    OBVIOUS
<1>1. run \in [RunIds -> RunRow] /\ Queue!Runs = RunIds
    BY DEF IInv, TypeOK, RunRow, Queue!Runs, RunIds
<1>2. ASSUME NEW n \in RunIds, NEW st, \A m \in RunIds \ {n} : run'[m] = run[m], run'[n].status = st
      PROVE  state' = [state EXCEPT ![n] = st]
    BY <1>2 DEF state
<1>3. CASE UNCHANGED run
    BY <1>3 DEF state
<1> DEFINE Known(n) == Queue!Submit(n) \/ Queue!Begin(n) \/ \E r \in Ended : Queue!End(n, r)
<1>4. ASSUME NEW n \in RunIds, Known(n)
      PROVE  Queue!Next
    BY <1>1, <1>4 DEF Queue!Next
<1>5. CASE SubmitCreate
    <2>1. PICK n \in RunIds : /\ run[n].status = "none"
                              /\ \A m \in RunIds : m < n => run[m].status # "none"
                              /\ run' = [run EXCEPT ![n] = run'[n]]
                              /\ run'[n].status = "queued"
        BY <1>5, CreatedInOrder
    <2>2. \A m \in RunIds \ {n} : run'[m] = run[m]
        BY <1>1, <2>1
    <2>3. state' = [state EXCEPT ![n] = "queued"]
        BY <1>2, <2>1, <2>2
    <2>4. Queue!Submit(n)
        BY <1>1, <2>1, <2>3 DEF Queue!Submit, state
    <2>5. QED
        BY <1>4, <2>4
<1>6. CASE Begin
    <2>1. PICK n \in RunIds : n = sched.n /\ run[n].status = "queued"
        BY <1>6 DEF Begin, IInv, RunningIsKnown, Having
    <2>2. /\ \A m \in RunIds \ {n} : run'[m] = run[m]
          /\ run'[n].status = "running"
        BY <1>1, <1>6, <2>1 DEF Begin
    <2>3. \A m \in RunIds : m < n => run[m].status \in Ended
        BY <1>6, <2>1 DEF Begin, InOrder
    <2>4. state' = [state EXCEPT ![n] = "running"]
        BY <1>2, <2>1, <2>2
    <2>5. Queue!Begin(n)
        BY <1>1, <2>1, <2>3, <2>4 DEF Queue!Begin, state
    <2>6. QED
        BY <1>4, <2>1, <2>5
<1>7. CASE RecoverStatus \/ Finish
    <2>1. PICK n \in RunIds : n = sched.n /\ run[n].status = "running"
        BY <1>7 DEF RecoverStatus, Finish, IInv, RunningIsKnown, Having
    <2>2. Outcome(n) \in Ended /\ "error" \in Ended
        BY DEF Outcome, Ended
    <2>3. PICK r \in Ended : run' = [run EXCEPT ![n].status = r]
        BY <1>7, <2>1, <2>2 DEF RecoverStatus, Finish
    <2>4. (\A m \in RunIds \ {n} : run'[m] = run[m]) /\ run'[n].status = r
        BY <1>1, <2>1, <2>3 DEF RunRow
    <2>5. state' = [state EXCEPT ![n] = r]
        BY <1>2, <2>1, <2>4
    <2>6. Queue!End(n, r)
        BY <1>1, <2>1, <2>5 DEF Queue!End, state
    <2>7. QED
        BY <1>4, <2>1, <2>3, <2>6
<1>8. QED
    BY <1>3, <1>5, <1>6, <1>7, RunWriters

\* Runs begin in the order in which they were submitted, each when all before it
\* have ended, and end once: the scheduler takes the oldest queued run, one at a
\* time, and recovers what a dead process left before it begins another.
THEOREM RunsFollowQueue == Spec => FollowsQueue
<1>1. Init => Queue!Init
    BY DEF Init, Queue!Init, Queue!Runs, RunIds
<1>2. QED
    BY <1>1, Invariant, InOrderInit, InOrderStep, QueueStep, PTL
       DEF Spec, FollowsQueue, Queue!Spec, state
==============================================================================
