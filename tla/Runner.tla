------------------------------- MODULE Runner -------------------------------
(***************************************************************************)
(* The test runner, internal/runner/runner.go, over the tables `runs` and  *)
(* `run_devices` (internal/store/runs.go): requests submit runs, one       *)
(* scheduler goroutine executes them one at a time, each fanning out over  *)
(* its devices, and recovers what an earlier process left behind.          *)
(*                                                                         *)
(* Leases appear as Lease promises them: a booking takes all its devices   *)
(* in one step.  A run either owns the batch it booked or borrows devices  *)
(* its user already held.  Statements on the database succeed, except the  *)
(* creation of a run, whose failure Submit handles.                        *)
(***************************************************************************)
EXTENDS Naturals, FiniteSets

CONSTANTS
    Devices,
    Users,
    Nobody,         \* the user of no lease
    MaxRuns,        \* bound on the runs submitted
    Par,            \* devices of a run that work at the same time (4)
    IdleTimeout,    \* in ticks, a tick being much longer than the 45 s between
                    \* the heartbeats of an executing run
    MaxCrashes      \* bound on the number of times the process dies

ASSUME RunnerAssumption ==
    /\ Nobody \notin Users
    /\ MaxRuns \in Nat
    /\ Par \in Nat \ {0}
    /\ IdleTimeout \in Nat
    /\ MaxCrashes \in Nat

VARIABLES
    lease,      \* lease[d]: the active reservation of device d
    run,        \* run[n]: the n-th row of `runs`
    verdict,    \* verdict[n][d]: the row of device d in run n
    sub,        \* the request in Submit
    sched,      \* the scheduler goroutine
    wake,       \* does the channel that wakes it hold a signal?
    canceled,   \* has the context of the executing run been canceled?
    cut,        \* (history) runs that ended just before the process died,
                \* before their batch was given back
    crashes

vars == <<lease, run, verdict, sub, sched, wake, canceled, cut, crashes>>

RunIds == 1..MaxRuns
NoBatch == 0
Batches == 1..(MaxRuns + MaxCrashes)

Ended == {"passed", "failed", "error", "canceled"}
Verdicts == {"passed", "failed", "error", "skipped", "canceled"}

NoLease == [user |-> Nobody, batch |-> NoBatch, idle |-> 0]
Leased(d) == lease[d].user # Nobody

\* n is the run in hand, todo the orphans and devs the devices still to do.
Scheduler(pc, n, todo, devs) == [pc |-> pc, n |-> n, todo |-> todo, devs |-> devs]
Submission(pc, u, D, unread, held, b) ==
    [pc |-> pc, user |-> u, devs |-> D, unread |-> unread, held |-> held, batch |-> b]
NoSubmission == Submission("idle", Nobody, {}, {}, {}, NoBatch)

TypeOK ==
    /\ lease \in [Devices -> [user : Users \cup {Nobody}, batch : Batches \cup {NoBatch},
                              idle : 0..(IdleTimeout + 1)]]
    /\ run \in [RunIds -> [status : {"none", "queued", "running"} \cup Ended,
                           user : Users \cup {Nobody}, batch : Batches \cup {NoBatch}]]
    /\ verdict \in [RunIds -> [Devices -> {"none", "pending", "running"} \cup Verdicts]]
    /\ sub \in [pc : {"idle", "classify", "create", "undo", "signal"},
                user : Users \cup {Nobody}, devs : SUBSET Devices,
                unread : SUBSET Devices, held : SUBSET Devices,
                batch : Batches \cup {NoBatch}]
    /\ sched \in [pc : {"start", "orphans", "orphan", "scan", "drained", "wait",
                        "begin", "work", "list", "release"},
                  n : RunIds \cup {0}, todo : SUBSET RunIds, devs : SUBSET Devices]
    /\ sub.pc = "undo" => sub.unread # {}
    /\ sched.pc = "release" => sched.devs # {}
    /\ wake \in BOOLEAN
    /\ canceled \in BOOLEAN
    /\ cut \subseteq RunIds
    /\ crashes \in 0..MaxCrashes

Init ==
    /\ lease = [d \in Devices |-> NoLease]
    /\ run = [n \in RunIds |-> [status |-> "none", user |-> Nobody, batch |-> NoBatch]]
    /\ verdict = [n \in RunIds |-> [d \in Devices |-> "none"]]
    /\ sub = NoSubmission
    /\ sched = Scheduler("start", 0, {}, {})
    /\ wake = FALSE
    /\ canceled = FALSE
    /\ cut = {}
    /\ crashes = 0

Least(S) == CHOOSE n \in S : \A m \in S : n <= m
Having(st) == {n \in RunIds : run[n].status = st}
InBatch(b) == {d \in Devices : Leased(d) /\ lease[d].batch = b}

-----------------------------------------------------------------------------
(* Submit                                                                  *)

SubmitStart(u, D) ==
    /\ sub.pc = "idle"
    /\ Having("none") # {}
    /\ sub' = Submission("classify", u, D, D, {}, NoBatch)
    /\ UNCHANGED <<lease, run, verdict, sched, wake, canceled, cut, crashes>>

\* One query of the holder per device; another user's device refuses the run.
SubmitHolder(d) ==
    /\ sub.pc = "classify"
    /\ d \in sub.unread
    /\ sub' = IF ~Leased(d) THEN [sub EXCEPT !.unread = @ \ {d}]
              ELSE IF lease[d].user = sub.user
              THEN [sub EXCEPT !.unread = @ \ {d}, !.held = @ \cup {d}]
              ELSE NoSubmission
    /\ UNCHANGED <<lease, run, verdict, sched, wake, canceled, cut, crashes>>

UnusedBatch == Least({b \in Batches : InBatch(b) = {} /\ \A n \in RunIds : run[n].batch # b})

\* All of them held by the user: borrowed.  None: book a batch, or fail because
\* somebody was faster or a status is not "free".  A mix is refused.
SubmitReserve ==
    /\ sub.pc = "classify"
    /\ sub.unread = {}
    /\ \/ /\ sub.held = sub.devs
          /\ sub' = [sub EXCEPT !.pc = "create"]
          /\ UNCHANGED lease
       \/ /\ sub.held = {}
          /\ \A d \in sub.devs : ~Leased(d)
          /\ sub' = [sub EXCEPT !.pc = "create", !.batch = UnusedBatch]
          /\ lease' = [d \in Devices |->
                          IF d \in sub.devs
                          THEN [user |-> sub.user, batch |-> UnusedBatch, idle |-> 0]
                          ELSE lease[d]]
       \/ /\ sub.held # sub.devs
          /\ sub' = NoSubmission
          /\ UNCHANGED lease
    /\ UNCHANGED <<run, verdict, sched, wake, canceled, cut, crashes>>

\* CreateRun: one row of the run and one per device, in one transaction.
SubmitCreate ==
    LET n == Least(Having("none"))
    IN  /\ sub.pc = "create"
        /\ run' = [run EXCEPT ![n] = [status |-> "queued", user |-> sub.user,
                                      batch |-> sub.batch]]
        /\ verdict' = [verdict EXCEPT ![n] = [d \in Devices |->
                            IF d \in sub.devs THEN "pending" ELSE "none"]]
        /\ sub' = [sub EXCEPT !.pc = "signal"]
        /\ UNCHANGED <<lease, sched, wake, canceled, cut, crashes>>

\* It failed: the batch just booked is listed, and given back below.
SubmitCreateFails ==
    /\ sub.pc = "create"
    /\ sub' = IF InBatch(sub.batch) = {} \/ sub.batch = NoBatch THEN NoSubmission
              ELSE [sub EXCEPT !.pc = "undo", !.unread = InBatch(sub.batch)]
    /\ UNCHANGED <<lease, run, verdict, sched, wake, canceled, cut, crashes>>

\* Variant: the loop never ends.
SubmitUndo_NoReturn(d) ==
    /\ sub.pc = "undo"
    /\ d \in sub.unread
    /\ lease' = [lease EXCEPT ![d] = NoLease]
    /\ sub' = [sub EXCEPT !.unread = @ \ {d}]
    /\ UNCHANGED <<run, verdict, sched, wake, canceled, cut, crashes>>

SubmitUndo(d) ==
    /\ sub.pc = "undo"
    /\ d \in sub.unread
    /\ lease' = [lease EXCEPT ![d] = NoLease]
    /\ sub' = IF sub.unread = {d} THEN NoSubmission ELSE [sub EXCEPT !.unread = @ \ {d}]
    /\ UNCHANGED <<run, verdict, sched, wake, canceled, cut, crashes>>

\* Variant: a channel without a buffer, whose signal is lost on a busy scheduler.
SubmitSignal_Unbuffered ==
    /\ sub.pc = "signal"
    /\ wake' = (wake \/ sched.pc = "wait")
    /\ sub' = NoSubmission
    /\ UNCHANGED <<lease, run, verdict, sched, canceled, cut, crashes>>

SubmitSignal ==
    /\ sub.pc = "signal"
    /\ wake' = TRUE
    /\ sub' = NoSubmission
    /\ UNCHANGED <<lease, run, verdict, sched, canceled, cut, crashes>>

-----------------------------------------------------------------------------
(* Recovery of the runs an earlier process left "running"                  *)

\* Variant: whatever is not queued.
RecoverScan_Any ==
    /\ sched.pc = "start"
    /\ sched' = Scheduler("orphans", 0, RunIds \ (Having("none") \cup Having("queued")), {})
    /\ UNCHANGED <<lease, run, verdict, sub, wake, canceled, cut, crashes>>

RecoverScan ==
    /\ sched.pc = "start"
    /\ sched' = Scheduler("orphans", 0, Having("running"), {})
    /\ UNCHANGED <<lease, run, verdict, sub, wake, canceled, cut, crashes>>

\* Variant: only the devices that were at work.
RecoverDevices_Running(n) ==
    /\ sched.pc = "orphans"
    /\ n \in sched.todo
    /\ verdict' = [verdict EXCEPT ![n] = [d \in Devices |->
                        IF verdict[n][d] = "running" THEN "error" ELSE verdict[n][d]]]
    /\ sched' = Scheduler("orphan", n, sched.todo \ {n}, {})
    /\ UNCHANGED <<lease, run, sub, wake, canceled, cut, crashes>>

\* FailRunDevicesNotDone.
RecoverDevices(n) ==
    /\ sched.pc = "orphans"
    /\ n \in sched.todo
    /\ verdict' = [verdict EXCEPT ![n] = [d \in Devices |->
                        IF verdict[n][d] \in {"pending", "running"} THEN "error"
                        ELSE verdict[n][d]]]
    /\ sched' = Scheduler("orphan", n, sched.todo \ {n}, {})
    /\ UNCHANGED <<lease, run, sub, wake, canceled, cut, crashes>>

\* Variant: the devices fail but the run stays as it was.
RecoverStatus_Kept ==
    /\ sched.pc = "orphan"
    /\ sched' = [sched EXCEPT !.pc = "list"]
    /\ UNCHANGED <<lease, run, verdict, sub, wake, canceled, cut, crashes>>

RecoverStatus ==
    /\ sched.pc = "orphan"
    /\ run' = [run EXCEPT ![sched.n].status = "error"]
    /\ sched' = [sched EXCEPT !.pc = "list"]
    /\ UNCHANGED <<lease, verdict, sub, wake, canceled, cut, crashes>>

\* recover, with no orphan left.
RecoverDone ==
    /\ sched.pc = "orphans"
    /\ sched.todo = {}
    /\ sched' = Scheduler("scan", 0, {}, {})
    /\ UNCHANGED <<lease, run, verdict, sub, wake, canceled, cut, crashes>>

-----------------------------------------------------------------------------
(* The scheduler loop and the execution of one run                         *)

\* Variant: the newest run is taken first.
Scan_Newest ==
    /\ sched.pc = "scan"
    /\ sched' = IF Having("queued") = {} THEN Scheduler("drained", 0, {}, {})
                ELSE Scheduler("begin", CHOOSE n \in Having("queued") :
                                            \A m \in Having("queued") : n >= m, {}, {})
    /\ canceled' = FALSE
    /\ UNCHANGED <<lease, run, verdict, sub, wake, cut, crashes>>

\* QueuedRunIDs, oldest first, until there are none.
Scan ==
    /\ sched.pc = "scan"
    /\ sched' = IF Having("queued") = {} THEN Scheduler("drained", 0, {}, {})
                ELSE Scheduler("begin", Least(Having("queued")), {}, {})
    /\ canceled' = FALSE
    /\ UNCHANGED <<lease, run, verdict, sub, wake, cut, crashes>>

\* A signal may come between the query and the select of Run.
Sleep ==
    /\ sched.pc = "drained"
    /\ sched' = Scheduler("wait", 0, {}, {})
    /\ UNCHANGED <<lease, run, verdict, sub, wake, canceled, cut, crashes>>

\* The select: the wake channel or the 15 s ticker.
WakeUp ==
    /\ sched.pc = "wait"
    /\ wake' \in {FALSE, wake}
    /\ sched' = Scheduler("scan", 0, {}, {})
    /\ UNCHANGED <<lease, run, verdict, sub, canceled, cut, crashes>>

Begin ==
    /\ sched.pc = "begin"
    /\ run' = [run EXCEPT ![sched.n].status = "running"]
    /\ sched' = [sched EXCEPT !.pc = "work"]
    /\ UNCHANGED <<lease, verdict, sub, wake, canceled, cut, crashes>>

\* A worker takes one of the Par slots, whatever has become of the run.
DeviceStart(d) ==
    /\ sched.pc = "work"
    /\ verdict[sched.n][d] = "pending"
    /\ Cardinality({e \in Devices : verdict[sched.n][e] = "running"}) < Par
    /\ verdict' = [verdict EXCEPT ![sched.n][d] = "running"]
    /\ UNCHANGED <<lease, run, sub, sched, wake, canceled, cut, crashes>>

\* runDevice returns: the executor's verdict, "canceled" when the device's
\* context ended first (the run was canceled, or the device's own timeout), and
\* "error" when there was none.
DeviceEnd(d, v) ==
    /\ sched.pc = "work"
    /\ verdict[sched.n][d] = "running"
    /\ verdict' = [verdict EXCEPT ![sched.n][d] = v]
    /\ UNCHANGED <<lease, run, sub, sched, wake, canceled, cut, crashes>>

\* Cancel finds the run in r.cancels until execute returns.
Cancel ==
    /\ sched.pc \in {"begin", "work"}
    /\ ~canceled
    /\ canceled' = TRUE
    /\ UNCHANGED <<lease, run, verdict, sub, sched, wake, cut, crashes>>

Got(n) == {verdict[n][d] : d \in Devices} \ {"none"}

\* Variant: the case of a run type every device skips is missing.
Outcome_SkipPasses(n) ==
    IF canceled THEN "canceled"
    ELSE IF "error" \in Got(n) THEN "error"
    ELSE IF "failed" \in Got(n) THEN "failed"
    ELSE "passed"

\* The switch of execute: a device that was canceled counts for nothing.
Outcome(n) ==
    IF canceled THEN "canceled"
    ELSE IF "error" \in Got(n) THEN "error"
    ELSE IF "failed" \in Got(n) THEN "failed"
    ELSE IF "skipped" \in Got(n) /\ "passed" \notin Got(n) THEN "error"
    ELSE "passed"

Finish ==
    /\ sched.pc = "work"
    /\ Got(sched.n) \cap {"pending", "running"} = {}
    /\ run' = [run EXCEPT ![sched.n].status = Outcome(sched.n)]
    /\ sched' = [sched EXCEPT !.pc = "list"]
    /\ UNCHANGED <<lease, verdict, sub, wake, canceled, cut, crashes>>

AfterRelease == Scheduler(IF sched.todo = {} THEN "scan" ELSE "orphans", 0, sched.todo, {})

\* Variant: only a run that passed gives its batch back.
ReleaseList_IfPassed ==
    LET ids == IF run[sched.n].batch = NoBatch \/ run[sched.n].status # "passed"
               THEN {} ELSE InBatch(run[sched.n].batch)
    IN  /\ sched.pc = "list"
        /\ sched' = IF ids = {} THEN AfterRelease
                    ELSE [sched EXCEPT !.pc = "release", !.devs = ids]
        /\ UNCHANGED <<lease, run, verdict, sub, wake, canceled, cut, crashes>>

\* ReleaseBatch as admin, for a run that owns its batch: the devices first ...
ReleaseList ==
    LET ids == IF run[sched.n].batch = NoBatch THEN {} ELSE InBatch(run[sched.n].batch)
    IN  /\ sched.pc = "list"
        /\ sched' = IF ids = {} THEN AfterRelease
                    ELSE [sched EXCEPT !.pc = "release", !.devs = ids]
        /\ UNCHANGED <<lease, run, verdict, sub, wake, canceled, cut, crashes>>

\* ... then one release each, whoever holds the device by now.
ReleaseNext(d) ==
    /\ sched.pc = "release"
    /\ d \in sched.devs
    /\ lease' = [lease EXCEPT ![d] = NoLease]
    /\ sched' = IF sched.devs = {d} THEN AfterRelease ELSE [sched EXCEPT !.devs = @ \ {d}]
    /\ UNCHANGED <<run, verdict, sub, wake, canceled, cut, crashes>>

-----------------------------------------------------------------------------
(* What others do to the leases, time, and the end of the process          *)

Hold(u, d) ==
    /\ ~Leased(d)
    /\ lease' = [lease EXCEPT ![d] = [user |-> u, batch |-> NoBatch, idle |-> 0]]
    /\ UNCHANGED <<run, verdict, sub, sched, wake, canceled, cut, crashes>>

\* By its user, by an admin, or at the hard cap.
Drop(d) ==
    /\ Leased(d)
    /\ lease' = [lease EXCEPT ![d] = NoLease]
    /\ UNCHANGED <<run, verdict, sub, sched, wake, canceled, cut, crashes>>

Renew(d) ==
    /\ lease' = [lease EXCEPT ![d].idle = 0]
    /\ UNCHANGED <<run, verdict, sub, sched, wake, canceled, cut, crashes>>

Reap(d) ==
    /\ Leased(d)
    /\ lease[d].idle > IdleTimeout
    /\ lease' = [lease EXCEPT ![d] = NoLease]
    /\ UNCHANGED <<run, verdict, sub, sched, wake, canceled, cut, crashes>>

\* The batch of the executing run is renewed all the time, and only that one.
Renewed(d) ==
    /\ sched.pc = "work"
    /\ run[sched.n].batch # NoBatch
    /\ d \in InBatch(run[sched.n].batch)

Tick ==
    /\ lease' = [d \in Devices |->
                    IF Renewed(d) THEN [lease[d] EXCEPT !.idle = 0]
                    ELSE IF Leased(d) /\ lease[d].idle <= IdleTimeout
                    THEN [lease[d] EXCEPT !.idle = lease[d].idle + 1]
                    ELSE lease[d]]
    /\ UNCHANGED <<run, verdict, sub, sched, wake, canceled, cut, crashes>>

Crash ==
    /\ crashes < MaxCrashes
    /\ crashes' = crashes + 1
    /\ cut' = cut \cup {n \in RunIds : /\ run[n].status \in Ended
                                       /\ run[n].batch # NoBatch
                                       /\ InBatch(run[n].batch) # {}}
    /\ sub' = NoSubmission
    /\ sched' = Scheduler("start", 0, {}, {})
    /\ wake' = FALSE
    /\ canceled' = FALSE
    /\ UNCHANGED <<lease, run, verdict>>

Schedule ==
    \/ RecoverScan
    \/ \E n \in RunIds : RecoverDevices(n)
    \/ RecoverStatus
    \/ RecoverDone
    \/ Scan
    \/ Sleep
    \/ WakeUp
    \/ Begin
    \/ Finish
    \/ ReleaseList
    \/ \E d \in Devices : ReleaseNext(d)

Next ==
    \/ \E u \in Users, D \in (SUBSET Devices) \ {{}} : SubmitStart(u, D)
    \/ \E d \in Devices : SubmitHolder(d)
    \/ SubmitReserve
    \/ SubmitCreate
    \/ SubmitCreateFails
    \/ \E d \in Devices : SubmitUndo(d)
    \/ SubmitSignal
    \/ Schedule
    \/ \E d \in Devices : DeviceStart(d)
    \/ \E d \in Devices, v \in Verdicts : DeviceEnd(d, v)
    \/ Cancel
    \/ \E u \in Users, d \in Devices : Hold(u, d)
    \/ \E d \in Devices : Drop(d) \/ Renew(d) \/ Reap(d)
    \/ Tick
    \/ Crash

\* The scheduler goroutine runs, and every executor returns: its context ends
\* at the device's timeout (20 minutes unless the run says otherwise).
Fairness ==
    /\ WF_vars(Schedule)
    /\ WF_vars(\E d \in Devices : DeviceStart(d))
    /\ \A d \in Devices : WF_vars(\E v \in Verdicts : DeviceEnd(d, v))

Spec == Init /\ [][Next]_vars /\ Fairness

-----------------------------------------------------------------------------
(* Properties                                                              *)

\* "One run executes at a time", also counting what a dead process left.
OneRunAtATime == Cardinality(Having("running")) <= 1

\* A run that has ended has a verdict for each of its devices, wherever the
\* process died and however often.
EndedRunsAreSettled ==
    \A n \in RunIds : run[n].status \in Ended =>
        Got(n) # {} /\ Got(n) \subseteq Verdicts

\* The result of a run never changes once it is written: not by a late worker,
\* a cancel, or the recovery of a later process.
ResultsAreFinal ==
    [][\A n \in RunIds : run[n].status \in Ended =>
            run'[n] = run[n] /\ verdict'[n] = verdict[n]]_vars

\* A run is reported passed only if no device failed or could not run, and not
\* when devices skipped it and none passed.
PassedRunsHaveNoFailure ==
    \A n \in RunIds : run[n].status = "passed" =>
        /\ Got(n) \cap {"failed", "error"} = {}
        /\ "skipped" \in Got(n) => "passed" \in Got(n)

\* No batch is left behind by a run that has ended, except when the process
\* died between the result and the release (the reaper's job then).
EndedRunsHoldNothing ==
    \A n \in RunIds \ cut :
        /\ run[n].status \in Ended
        /\ run[n].batch # NoBatch
        /\ ~(sched.pc \in {"list", "release"} /\ sched.n = n)
        => InBatch(run[n].batch) = {}

\* The scheduler never sleeps on a queued run that nobody is about to announce,
\* so a run does not wait for the ticker.
NoLostWakeup ==
    sched.pc = "wait" /\ Having("queued") # {} => wake \/ sub.pc = "signal"

Queue == INSTANCE RunQueue WITH Results <- Ended, state <- [n \in RunIds |-> run[n].status]

\* Runs begin in the order in which they were submitted, each when all before it
\* have ended, and end once, wherever the process died and however often
\* ("One run executes at a time"; QueuedRunIDs, oldest first).
FollowsQueue == Queue!Spec

\* Every submitted run ends, even if the process dies while it executes.
SubmittedRunsEnd ==
    \A n \in RunIds : run[n].status = "queued" ~> run[n].status \in Ended

\* runner.go gives a device that "timed out after" its limit the verdict error,
\* which makes the run an error: no device of a passed run was cut short.
PassedRunsRanEverywhere ==
    \A n \in RunIds : run[n].status = "passed" => "canceled" \notin Got(n)
=============================================================================
