---------------------------- MODULE PhoneProofs -----------------------------
(***************************************************************************)
(* Proofs about Phone, for every set of users and callers, every throttle  *)
(* and timeout and any number of runs: the state stays typed, an agent     *)
(* that keeps calling tools keeps its phone, a smoke run passes only with  *)
(* its own build up and without a crash, and the lease is as Lease         *)
(* promises it, whoever takes the phone and whatever ends its use.         *)
(***************************************************************************)
EXTENDS Phone, TLAPS

Call == [pc : {"none", "beat", "renew", "act", "wipe", "forget"}, user : Users \cup {Nobody},
         work : BOOLEAN, via : {"mcp", "http"}]
App == [build : {"none", "run", "other"}, alive : BOOLEAN]
Stages == {"none", "queued", "clear", "install", "testapk", "settle", "attempt", "dump", "wipe",
           "verdict", "done", "orphan", "list", "release"}
Sources == {"none", "staged", "new", "clobbered", "gone"}
Outs == {"none", "ok", "refused", "fail", "unclear"}
Verdicts == {"none", "passed", "failed", "error", "canceled", "skipped"}
Run == [pc : Stages, kind : Kinds, src : Sources, user : Users \cup {Nobody}, ended : BOOLEAN,
        tries : 0..2, out : Outs, crash : BOOLEAN, verdict : Verdicts]

-----------------------------------------------------------------------------
(* The inductive invariant                                                 *)

\* A lease that is a run's batch is of the run that there is.
BatchHasRun == batched => holder # Nobody /\ run.pc # "none"

\* Nothing is started before its turn, and again only a flow.
TriesAreCounted ==
    /\ run.pc \in {"none", "queued", "clear", "install", "testapk", "settle", "orphan", "list",
                 "release"} => run.tries = 0
    /\ run.pc = "attempt" => run.tries \in {0, 1} /\ (run.tries = 1 => run.kind = "maestro")

\* The stamp of the phone stands for a renewal of its lease: one that a call has
\* still to send, one that was lost, or one at least as recent.
StampRenews ==
    \/ holder = Nobody
    \/ lost
    \/ \E c \in Callers : call[c].pc = "renew"
    \/ beat > Throttle
    \/ idle <= beat

\* A smoke run that has given no verdict yet and whose phone nobody has meddled
\* with.
Fair == run.kind = "smoke" /\ run.verdict = "none" /\ ~spoiled

\* A crash of the build is in the log until the log is read, and in the run's
\* result from then on; what runs is the run's build.
CrashIsSeen ==
    /\ run.pc \in {"none", "queued", "clear", "install", "orphan", "list", "release"} => ~crashed
    /\ run.pc \in {"testapk", "attempt"} => run.kind # "smoke"
    /\ app.build = "none" => ~app.alive
    /\ run.pc \in {"settle", "dump", "wipe", "verdict"} /\ Fair => app.build # "other"
    /\ run.pc \in {"settle", "dump"} /\ Fair /\ crashed => log
    /\ run.pc \in {"wipe", "verdict"} /\ Fair /\ crashed => run.crash

IInv == /\ TypeOK /\ BatchHasRun /\ TriesAreCounted
        /\ StampRenews /\ KeptAlive /\ CrashIsSeen

-----------------------------------------------------------------------------
(* Types                                                                   *)

LEMMA Constants ==
    /\ Nobody \notin Users /\ Throttle \in Nat /\ Throttle > 0 /\ IdleTimeout \in Nat
    /\ Throttle < IdleTimeout /\ MaxRuns \in Nat
    /\ NoRequest \in Call /\ NoRun \in Run
BY PhoneAssumption DEF NoRequest, Request, Call, NoRun, Run, Stages, Kinds, Sources, Outs, Verdicts

LEMMA Typed ==
    ASSUME IInv
    PROVE  /\ holder \in Users \cup {Nobody} /\ batched \in BOOLEAN /\ lost \in BOOLEAN
           /\ idle \in 0..(IdleTimeout + 1) /\ beat \in 0..(Throttle + 1)
           /\ silent \in 0..IdleTimeout /\ due \in BOOLEAN
           /\ call \in [Callers -> Call] /\ app \in App /\ log \in BOOLEAN /\ run \in Run
           /\ crashed \in BOOLEAN /\ spoiled \in BOOLEAN /\ runs \in 0..MaxRuns
           /\ batched => holder = run.user
BY DEF IInv, TypeOK, Call, App, Run, Stages, Sources, Outs, Verdicts

\* What is left of a run when its executor has returned.
LEMMA LeavingRun ==
    ASSUME run \in Run, NEW pc \in Stages, NEW v \in Verdicts
    PROVE  /\ Leaving(pc) \in Run /\ Result(v) \in Run
           /\ Leaving(pc).pc = pc /\ Leaving(pc).user = run.user /\ Leaving(pc).tries = 0
           /\ Leaving(pc).verdict = "none"
           /\ Result(v).pc = "done" /\ Result(v).user = run.user /\ Result(v).tries = 0
           /\ Result(v).verdict = v
<1>1. /\ Leaving(pc) = [NoRun EXCEPT !.pc = pc, !.user = run.user]
      /\ Result(v) = [NoRun EXCEPT !.pc = "done", !.user = run.user, !.verdict = v]
    BY DEF Leaving, Result, NoRun
<1>2. run.user \in Users \cup {Nobody} /\ "done" \in Stages
    BY DEF Run, Stages
<1>3. Leaving(pc) \in Run /\ Result(v) \in Run
    BY <1>1, <1>2, Constants DEF Run
<1>4. QED
    BY <1>1, <1>3 DEF NoRun

\* Only these steps write the run.
LEMMA RunWriters ==
    ASSUME [Next]_vars
    PROVE  \/ UNCHANGED run \/ CreateUpload \/ Overwrite \/ Execute \/ Restart \/ Recover
           \/ \E u \in Users, kind \in Kinds, src \in {"new", "staged"} : Queue(u, kind, src)
<1>1. ASSUME NEW c \in Callers, Serve(c)
      PROVE  UNCHANGED run
    BY <1>1 DEF Serve, ToolRelease, AgentDevice, WaitRun, HeldDevice, Forget, AgentBeat, Heartbeat,
       Launch, Stop, Uninstall, Gesture, Shell, ReadLogs, WipeLogs, ToolInstall, Install, Installed
<1>2. ASSUME NEW u \in Users, ToolReserve(u) \/ Release(u)
      PROVE  UNCHANGED run
    BY <1>2 DEF ToolReserve, Release
<1>3. ReapSelect \/ ReapRelease \/ Tick \/ Crash => UNCHANGED run
    BY DEF ReapSelect, ReapRelease, Tick, Crash
<1>4. ASSUME NEW u \in Users, NEW kind \in Kinds,
             CreateRun(u, kind) \/ ToolStartRun(u, kind) \/ Rerun(u, kind)
      PROVE  \E src \in {"new", "staged"} : Queue(u, kind, src)
    BY <1>4 DEF CreateRun, ToolStartRun, Rerun
<1>5. QED
    BY <1>1, <1>2, <1>3, <1>4 DEF Next, vars

\* One step of the run's executor keeps the run's fields in their ranges.
LEMMA ExecuteTyped ==
    ASSUME IInv, Execute
    PROVE  run' \in Run
<1>0. run \in Run /\ TriesAreCounted
    BY Typed DEF IInv
<1>1. ASSUME NEW pc \in Stages
      PROVE  [run EXCEPT !.pc = pc] \in Run
    BY <1>0 DEF Run
<1>2. ASSUME NEW v \in Verdicts
      PROVE  Result(v) \in Run
    BY <1>0, LeavingRun, <1>2 DEF Stages
<1>3. ASSUME NEW pc \in Stages
      PROVE  [run EXCEPT !.src = "none", !.pc = pc] \in Run
    BY <1>0 DEF Run, Sources
<1>4. CASE RunDevice \/ ClearLogs \/ TestApk \/ Settle
    <2>1. CASE RunDevice
        BY <1>1, <1>2, <1>3, <2>1 DEF RunDevice, Goto, Stages, Verdicts
    <2>2. CASE ClearLogs
        BY <1>1, <2>2 DEF ClearLogs, Goto, Stages
    <2>3. CASE TestApk
        <3>1. [run EXCEPT !.verdict = "error", !.pc = "dump"] \in Run
            BY <1>0 DEF Run, Verdicts, Stages
        <3>2. QED
            BY <1>1, <2>3, <3>1 DEF TestApk, Goto, Stages
    <2>4. CASE Settle
        BY <1>1, <1>2, <2>4 DEF Settle, Goto, Stages, Verdicts
    <2>5. QED
        BY <1>4, <2>1, <2>2, <2>3, <2>4
<1>5. CASE RunInstall
    <2>1. [run EXCEPT !.src = "none", !.verdict = "error", !.pc = "dump"] \in Run
        BY <1>0 DEF Run, Sources, Verdicts, Stages
    <2>2. PICK pc \in Stages :
             \/ run' = [run EXCEPT !.src = "none", !.pc = pc]
             \/ run' = [run EXCEPT !.src = "none", !.verdict = "error", !.pc = "dump"]
        BY <1>5 DEF RunInstall, Stages
    <2>3. QED
        BY <1>3, <2>1, <2>2
<1>6. CASE Attempt
    <2>1. PICK out \in Outcomes, pc \in {"attempt", "dump"} :
            run' = [run EXCEPT !.tries = @ + 1,
                               !.out = IF out = "fail" /\ @ = "refused" THEN @ ELSE out,
                               !.pc = pc]
        BY <1>6 DEF Attempt
    <2>2. out \in Outs /\ pc \in Stages /\ run.tries \in {0, 1}
        BY <1>0, <1>6 DEF Outcomes, Outs, Stages, Attempt, At, TriesAreCounted
    <2>3. run.tries + 1 \in 0..2
        BY <2>2
    <2>4. QED
        BY <1>0, <2>1, <2>2, <2>3 DEF Run
<1>7. CASE Dump
    <2>1. ScanCrash \in BOOLEAN
        BY Typed DEF ScanCrash, Watched
    <2>2. [run EXCEPT !.crash = ScanCrash, !.pc = "wipe"] \in Run
        BY <1>0, <2>1 DEF Run, Stages
    <2>3. QED
        BY <1>1, <1>7, <2>2 DEF Dump, Goto, Stages
<1>8. CASE Wipe
    BY <1>1, <1>8 DEF Wipe, Goto, Stages
<1>9. CASE Verdict
    <2> DEFINE v == IF run.verdict # "none" THEN run.verdict
                    ELSE IF run.kind = "smoke" THEN SmokeVerdict ELSE ToolVerdict
    <2>1. run' = Result(v)
        BY <1>9 DEF Verdict
    <2>2. SmokeVerdict \in Verdicts
        BY DEF SmokeVerdict, Verdicts
    <2>3. ToolVerdict \in Verdicts
        BY <1>0 DEF ToolVerdict, Verdicts, Run
    <2>4. run.verdict \in Verdicts
        BY <1>0 DEF Run
    <2>5. v \in Verdicts
        BY <2>2, <2>3, <2>4
    <2> HIDE DEF v
    <2>6. QED
        BY <1>2, <2>1, <2>5
<1>10. CASE EndRun \/ ListBatch \/ ReleaseBatch
    <2>1. Leaving("list") \in Run
        BY <1>0, LeavingRun DEF Stages, Verdicts
    <2>2. run' \in {Leaving("list"), NoRun, [run EXCEPT !.pc = "release"]}
        BY <1>10 DEF EndRun, ListBatch, ReleaseBatch
    <2>3. QED
        BY <1>1, <2>1, <2>2, Constants DEF Stages
<1>11. CASE RunBeat
    BY <1>0, <1>11 DEF RunBeat
<1>12. CASE EndContext
    BY <1>0, <1>12 DEF EndContext, Run
<1>13. QED
    BY <1>4, <1>5, <1>6, <1>7, <1>8, <1>9, <1>10, <1>11, <1>12 DEF Execute

LEMMA RunTyped ==
    ASSUME IInv, [Next]_vars
    PROVE  run' \in Run
<1>0. run \in Run
    BY Typed
<1>1. ASSUME NEW u \in Users, NEW kind \in Kinds, NEW src \in {"new", "staged"},
             Queue(u, kind, src)
      PROVE  run' \in Run
    <2>1. run' = [NoRun EXCEPT !.pc = "queued", !.kind = kind, !.src = src, !.user = u]
        BY <1>1 DEF Queue
    <2>2. QED
        BY <2>1, Constants DEF Run, Stages, Sources
<1>2. ASSUME NEW src \in Sources
      PROVE  [run EXCEPT !.src = src] \in Run
    BY <1>0 DEF Run
<1>3. ASSUME NEW pc \in {"orphan", "list"}
      PROVE  Leaving(pc) \in Run
    BY <1>0, LeavingRun DEF Stages, Verdicts
<1>4. CASE CreateUpload \/ Overwrite
    BY <1>2, <1>4 DEF CreateUpload, Overwrite, Sources
<1>5. CASE Restart \/ Recover
    <2>1. run' \in {Leaving("orphan"), Leaving("list"), NoRun, run}
        BY <1>5 DEF Restart, Recover
    <2>2. QED
        BY <1>0, <1>3, <2>1, Constants
<1>6. QED
    BY <1>0, <1>1, <1>4, <1>5, ExecuteTyped, RunWriters

\* A request is one of those that there are, and at one of their steps.
LEMMA CallTyped ==
    ASSUME IInv, [Next]_vars
    PROVE  call' \in [Callers -> Call]
<1>0. call \in [Callers -> Call]
    BY Typed
<1>1. ASSUME NEW c \in Callers, NEW q \in Call, call' = [call EXCEPT ![c] = q]
      PROVE  call' \in [Callers -> Call]
    BY <1>0, <1>1
<1>2. ASSUME NEW c \in Callers, Done(c)
      PROVE  call' \in [Callers -> Call]
    BY <1>1, <1>2, Constants DEF Done
<1>3. ASSUME NEW pc \in {"beat", "act", "wipe", "forget"}, NEW u \in Users \cup {Nobody},
             NEW w \in BOOLEAN, NEW via \in {"mcp", "http"}
      PROVE  Request(pc, u, w, via) \in Call
    BY <1>3 DEF Request, Call
<1>4. ASSUME NEW c \in Callers, NEW pc \in {"renew", "act"}
      PROVE  [call[c] EXCEPT !.pc = pc] \in Call
    BY <1>0 DEF Call
<1>5. ASSUME NEW c \in Callers
      PROVE  Renewed(c) => call' \in [Callers -> Call]
    <2>1. [call EXCEPT ![c].pc = "act"] = [call EXCEPT ![c] = [call[c] EXCEPT !.pc = "act"]]
        BY <1>0
    <2>2. QED
        BY <1>1, <1>2, <1>4, <2>1 DEF Renewed
<1>6. ASSUME NEW c \in Callers, Serve(c)
      PROVE  call' \in [Callers -> Call]
    <2>1. ASSUME NEW u \in Users, ToolRelease(c, u) \/ AgentDevice(c, u) \/ WaitRun(c, u)
                                  \/ HeldDevice(c, u)
          PROVE  call' \in [Callers -> Call]
        BY <1>1, <1>3, <2>1 DEF ToolRelease, AgentDevice, WaitRun, HeldDevice
    <2>2. CASE ReadLogs(c)
        BY <1>1, <1>3, <2>2 DEF ReadLogs
    <2>3. CASE AgentBeat(c)
        <3>1. [call EXCEPT ![c].pc = "renew"] = [call EXCEPT ![c] = [call[c] EXCEPT !.pc = "renew"]]
            BY <1>0
        <3>2. QED
            BY <1>1, <1>4, <1>5, <2>3, <3>1 DEF AgentBeat
    <2>4. CASE Heartbeat(c)
        BY <1>5, <2>4 DEF Heartbeat
    <2>5. CASE ToolInstall(c)
        <3> DEFINE q == [call[c] EXCEPT !.pc = "beat", !.work = FALSE]
        <3>1. q \in Call
            BY <1>0 DEF Call
        <3>2. call' = [call EXCEPT ![c] = q]
            BY <1>0, <2>5 DEF ToolInstall
        <3> HIDE DEF q
        <3>3. QED
            BY <1>1, <3>1, <3>2
    <2>6. QED
        BY <1>2, <1>6, <2>1, <2>2, <2>3, <2>4, <2>5 DEF Serve, Forget, Launch, Stop, Uninstall,
           Gesture, Shell, WipeLogs, Install
<1>7. CASE Restart
    BY <1>7, Constants DEF Restart
<1>8. Execute => UNCHANGED call
    BY DEF Execute, RunDevice, ClearLogs, RunInstall, TestApk, Settle, Attempt, Dump, Wipe, Verdict,
       EndRun, ListBatch, ReleaseBatch, RunBeat, EndContext
<1>9. ASSUME NEW u \in Users, NEW kind \in Kinds, NEW src, Queue(u, kind, src)
      PROVE  UNCHANGED call
    BY <1>9 DEF Queue
<1>10. QED
    BY <1>0, <1>6, <1>7, <1>8, <1>9 DEF Next, vars, ToolReserve, Release, CreateRun, ToolStartRun,
       Rerun, ReapSelect, ReapRelease, Tick, CreateUpload, Overwrite, Crash, Recover

\* The app, its log and what the history says of them.
LEMMA PhoneTyped ==
    ASSUME IInv, [Next]_vars
    PROVE  /\ app' \in App /\ log' \in BOOLEAN /\ crashed' \in BOOLEAN /\ spoiled' \in BOOLEAN
           /\ app'.build = "none" => ~app'.alive
<1>0. /\ app \in App /\ log \in BOOLEAN /\ crashed \in BOOLEAN /\ spoiled \in BOOLEAN
      /\ Watched \in BOOLEAN
      /\ app.build = "none" => ~app.alive
    BY Typed DEF IInv, CrashIsSeen, Watched
<1>1. ASSUME NEW b \in {"none", "run", "other"}, NEW a \in BOOLEAN
      PROVE  [build |-> b, alive |-> a] \in App
    BY DEF App
<1>2. ASSUME NEW a \in BOOLEAN
      PROVE  [app EXCEPT !.alive = a] = [build |-> app.build, alive |-> a]
             /\ app.build \in {"none", "run", "other"}
    BY <1>0 DEF App
<1>3. ASSUME NEW c \in Callers, Serve(c)
      PROVE  /\ app' \in App /\ log' \in BOOLEAN /\ crashed' \in BOOLEAN /\ spoiled' \in BOOLEAN
             /\ app'.build = "none" => ~app'.alive
    <2>1. CASE Launch(c)
        BY <1>0, <1>1, <1>2, <2>1 DEF Launch
    <2>2. CASE Stop(c)
        BY <1>0, <1>1, <1>2, <2>2 DEF Stop
    <2>3. CASE Gesture(c)
        <3>1. PICK b \in BOOLEAN : app' = [app EXCEPT !.alive = b /\ app.build # "none"]
            BY <2>3 DEF Gesture
        <3>2. app' = [build |-> app.build, alive |-> b /\ app.build # "none"]
            BY <1>2, <3>1
        <3>3. app' \in App
            BY <1>1, <1>2, <3>2
        <3>4. app'.build = "none" => ~app'.alive
            BY <3>2
        <3>5. QED
            BY <1>0, <2>3, <3>3, <3>4 DEF Gesture
    <2>4. CASE Uninstall(c)
        BY <1>0, <1>1, <2>4 DEF Uninstall
    <2>5. CASE Shell(c) \/ WipeLogs(c)
        BY <1>0, <2>5 DEF Shell, WipeLogs
    <2>6. CASE ToolInstall(c) \/ Install(c)
        <3>1. UNCHANGED <<log, crashed>> /\ Installed(c)
            BY <2>6 DEF ToolInstall, Install, Installed
        <3>2. [build |-> "other", alive |-> TRUE] \in App
            BY <1>1
        <3>3. app' \in App /\ (app'.build = "none" => ~app'.alive)
            <4>1. UNCHANGED app \/ app' = [build |-> "other", alive |-> TRUE]
                BY <3>1 DEF Installed
            <4>2. CASE UNCHANGED app
                BY <1>0, <4>2
            <4>3. CASE app' = [build |-> "other", alive |-> TRUE]
                <5>1. app' \in App
                    BY <3>2, <4>3
                <5>2. app'.build = "other"
                    BY <4>3
                <5>3. QED
                    BY <5>1, <5>2
            <4>4. QED
                BY <4>1, <4>2, <4>3
        <3>4. spoiled' \in BOOLEAN
            BY <1>0, <3>1 DEF Installed
        <3>5. QED
            BY <1>0, <3>1, <3>3, <3>4
    <2>7. QED
        BY <1>0, <1>3, <2>1, <2>2, <2>3, <2>4, <2>5, <2>6 DEF Serve, ToolRelease, AgentDevice,
           WaitRun, HeldDevice, Forget, AgentBeat, Heartbeat, ReadLogs, phone
<1>4. ASSUME Execute
      PROVE  /\ app' \in App /\ log' \in BOOLEAN /\ crashed' \in BOOLEAN /\ spoiled' \in BOOLEAN
             /\ app'.build = "none" => ~app'.alive
    <2>1. CASE RunInstall
        <3>1. (run.kind = "smoke" /\ run.src = "clobbered") \in BOOLEAN
            OBVIOUS
        <3>2. UNCHANGED <<log, crashed>> /\ spoiled' \in BOOLEAN
            BY <1>0, <2>1, <3>1 DEF RunInstall
        <3>3. \/ UNCHANGED app
              \/ \E b \in {"run", "other"}, a \in BOOLEAN : app' = [build |-> b, alive |-> a]
            BY <2>1 DEF RunInstall
        <3>4. QED
            BY <1>0, <1>1, <3>2, <3>3
    <2>2. QED
        BY <1>0, <1>4, <2>1 DEF Execute, RunDevice, ClearLogs, TestApk, Settle, Attempt, Dump,
           Wipe, Verdict, EndRun, ListBatch, ReleaseBatch, RunBeat, EndContext, phone
<1>5. CASE Crash
    <2>1. app' \in App /\ app'.build = "run"
        BY <1>0, <1>1, <1>2, <1>5 DEF Crash
    <2>2. log' \in BOOLEAN /\ crashed' \in BOOLEAN /\ UNCHANGED spoiled
        BY <1>0, <1>5 DEF Crash
    <2>3. QED
        BY <1>0, <2>1, <2>2
<1>6. CASE Restart
    BY <1>0, <1>6 DEF Restart
<1>7. ASSUME NEW u \in Users, NEW kind \in Kinds, NEW src, Queue(u, kind, src)
      PROVE  UNCHANGED phone
    BY <1>7 DEF Queue
<1>8. CASE UNCHANGED phone
    BY <1>0, <1>8 DEF phone
<1>9. QED
    BY <1>3, <1>4, <1>5, <1>6, <1>7, <1>8 DEF Next, vars, ToolReserve, Release, CreateRun,
       ToolStartRun, Rerun, ReapSelect, ReapRelease, Tick, CreateUpload, Overwrite, Recover

\* The lease with its ages, and the bound on the runs.
LEMMA LeaseTyped ==
    ASSUME IInv, [Next]_vars
    PROVE  /\ holder' \in Users \cup {Nobody} /\ batched' \in BOOLEAN /\ lost' \in BOOLEAN
           /\ idle' \in 0..(IdleTimeout + 1) /\ beat' \in 0..(Throttle + 1)
           /\ silent' \in 0..IdleTimeout /\ runs' \in 0..MaxRuns /\ due' \in BOOLEAN
<1>0. /\ holder \in Users \cup {Nobody} /\ batched \in BOOLEAN /\ lost \in BOOLEAN
      /\ idle \in 0..(IdleTimeout + 1) /\ beat \in 0..(Throttle + 1) /\ silent \in 0..IdleTimeout
      /\ runs \in 0..MaxRuns /\ due \in BOOLEAN
    BY Typed
<1>1. /\ {0, IdleTimeout} \subseteq 0..IdleTimeout /\ 0 \in 0..(IdleTimeout + 1)
      /\ {0, Throttle + 1} \subseteq 0..(Throttle + 1)
    BY Constants
<1>2. ASSUME NEW cap \in Nat, NEW n \in 0..cap
      PROVE  Older(n, cap) \in 0..cap
    BY DEF Older
<1>3. ASSUME NEW c \in Callers, Serve(c)
      PROVE  /\ holder' \in Users \cup {Nobody} /\ batched' \in BOOLEAN /\ lost' \in BOOLEAN
             /\ idle' \in 0..(IdleTimeout + 1) /\ beat' \in 0..(Throttle + 1)
             /\ silent' \in 0..IdleTimeout /\ runs' \in 0..MaxRuns /\ due' \in BOOLEAN
    BY <1>0, <1>1, <1>3 DEF Serve, ToolRelease, AgentDevice, WaitRun, HeldDevice, Forget, AgentBeat,
       Heartbeat, Launch, Stop, Uninstall, Gesture, Shell, ReadLogs, WipeLogs, ToolInstall,
       Install, Installed, End, lease
<1>4. ASSUME Execute
      PROVE  /\ holder' \in Users \cup {Nobody} /\ batched' \in BOOLEAN /\ lost' \in BOOLEAN
             /\ idle' \in 0..(IdleTimeout + 1) /\ beat' \in 0..(Throttle + 1)
             /\ silent' \in 0..IdleTimeout /\ runs' \in 0..MaxRuns /\ due' \in BOOLEAN
    BY <1>0, <1>1, <1>4 DEF Execute, RunDevice, ClearLogs, RunInstall, TestApk, Settle, Attempt,
       Dump, Wipe, Verdict, EndRun, ListBatch, ReleaseBatch, RunBeat, EndContext, End, lease
<1>5. ASSUME NEW u \in Users, ToolReserve(u) \/ Release(u)
      PROVE  /\ holder' \in Users \cup {Nobody} /\ batched' \in BOOLEAN /\ lost' \in BOOLEAN
             /\ idle' \in 0..(IdleTimeout + 1) /\ beat' \in 0..(Throttle + 1)
             /\ silent' \in 0..IdleTimeout /\ runs' \in 0..MaxRuns /\ due' \in BOOLEAN
    BY <1>0, <1>1, <1>5 DEF ToolReserve, Release, Begin, End
<1>6. ASSUME NEW u \in Users, NEW kind \in Kinds, NEW src, Queue(u, kind, src)
      PROVE  /\ holder' \in Users \cup {Nobody} /\ batched' \in BOOLEAN /\ lost' \in BOOLEAN
             /\ idle' \in 0..(IdleTimeout + 1) /\ beat' \in 0..(Throttle + 1)
             /\ silent' \in 0..IdleTimeout /\ runs' \in 0..MaxRuns /\ due' \in BOOLEAN
    <2>1. runs' \in 0..MaxRuns
        BY <1>0, <1>6, Constants DEF Queue
    <2>2. QED
        BY <1>0, <1>1, <1>6, <2>1 DEF Queue, Begin, lease
<1>7. CASE Tick
    <2>1. IdleTimeout + 1 \in Nat /\ Throttle + 1 \in Nat /\ IdleTimeout \in Nat
        BY Constants
    <2>2. QED
        BY <1>0, <1>2, <1>7, <2>1 DEF Tick
<1>8. CASE Restart
    BY <1>0, <1>1, <1>8 DEF Restart
<1>9. CASE ReapSelect \/ ReapRelease
    BY <1>0, <1>1, <1>9 DEF ReapSelect, ReapRelease, End
<1>10. CASE UNCHANGED <<lease, runs>>
    BY <1>0, <1>10 DEF lease
<1>11. QED
    BY <1>3, <1>4, <1>5, <1>6, <1>7, <1>8, <1>9, <1>10 DEF Next, vars, CreateRun, ToolStartRun,
       Rerun, CreateUpload, Overwrite, Crash, Recover

-----------------------------------------------------------------------------
(* The batch and the tries                                                 *)

\* What a step of the executor leaves of the run, as long as it has a batch: whose
\* it is.
LEMMA ExecuteKeeps ==
    ASSUME IInv, Execute, batched'
    PROVE  /\ run'.user = run.user /\ run'.pc # "none" /\ run.pc # "none"
           /\ UNCHANGED <<holder, batched>>
<1>0. /\ run \in Run
      /\ Leaving("list").user = run.user /\ Leaving("list").pc = "list"
      /\ \A v \in Verdicts : Result(v).user = run.user /\ Result(v).pc = "done"
    BY Typed, LeavingRun DEF Stages, Verdicts
<1>1. CASE Attempt
    BY <1>0, <1>1 DEF Attempt, At, Run, lease
<1>2. CASE RunInstall
    BY <1>0, <1>2 DEF RunInstall, At, Run, lease
<1>3. CASE RunDevice \/ ClearLogs \/ TestApk \/ Settle
    BY <1>0, <1>3 DEF RunDevice, ClearLogs, TestApk, Settle, Goto, At, Run, Verdicts, lease
<1>4. CASE Dump \/ Wipe
    BY <1>0, <1>4 DEF Dump, Wipe, Goto, At, Run, lease
<1>5. CASE Verdict
    <2>1. PICK v \in Verdicts : run' = Result(v)
        BY <1>0, <1>5 DEF Verdict, SmokeVerdict, ToolVerdict, Verdicts, Run
    <2>2. QED
        BY <1>0, <1>5, <2>1 DEF Verdict, At, lease
<1>6. CASE EndRun \/ ListBatch
    BY <1>0, <1>6 DEF EndRun, ListBatch, At, Run, lease
<1>7. CASE ReleaseBatch
    BY <1>7 DEF ReleaseBatch, End
<1>8. CASE RunBeat \/ EndContext
    BY <1>0, <1>8 DEF RunBeat, EndContext, Executing, Run, lease
<1>9. QED
    BY <1>1, <1>2, <1>3, <1>4, <1>5, <1>6, <1>7, <1>8 DEF Execute

\* A batch is of the run that there is, whose user holds the phone by it: it ends
\* before the run is gone, and no lease is taken while it lasts.
LEMMA BatchStep ==
    ASSUME IInv, [Next]_vars
    PROVE  BatchHasRun' /\ (batched' => holder' = run'.user)
<1>0. /\ batched => holder = run.user /\ holder # Nobody /\ run.pc # "none"
      /\ Nobody \notin Users /\ run \in Run
    BY Typed, Constants DEF IInv, BatchHasRun
<1>1. ASSUME UNCHANGED <<holder, batched>> \/ ~batched', run'.user = run.user,
             run.pc # "none" => run'.pc # "none"
      PROVE  BatchHasRun' /\ (batched' => holder' = run'.user)
    BY <1>0, <1>1 DEF BatchHasRun
<1>2. ASSUME NEW c \in Callers, Serve(c)
      PROVE  (UNCHANGED <<holder, batched>> \/ ~batched') /\ UNCHANGED run
    BY <1>2 DEF Serve, ToolRelease, AgentDevice, WaitRun, HeldDevice, Forget, AgentBeat,
       Heartbeat, Launch, Stop, Uninstall, Gesture, Shell, ReadLogs, WipeLogs, ToolInstall,
       Install, Installed, End, lease
<1>3. CASE Execute
    BY <1>0, <1>3, ExecuteKeeps DEF BatchHasRun
<1>4. ASSUME NEW u \in Users, NEW kind \in Kinds, NEW src \in {"new", "staged"},
             Queue(u, kind, src)
      PROVE  BatchHasRun' /\ (batched' => holder' = run'.user)
    <2>1. run'.pc = "queued" /\ run'.user = u
        BY <1>4, Constants DEF Queue, Run
    <2>2. ~batched
        BY <1>0, <1>4 DEF Queue
    <2>3. batched' => holder' = u
        BY <1>4, <2>2 DEF Queue, Begin, lease
    <2>4. QED
        BY <1>0, <2>1, <2>3 DEF BatchHasRun
<1>5. ASSUME NEW u \in Users, ToolReserve(u) \/ Release(u)
      PROVE  ~batched' /\ UNCHANGED run
    BY <1>0, <1>5 DEF ToolReserve, Release, Begin, End
<1>6. CASE CreateUpload \/ Overwrite
    <2>1. UNCHANGED <<holder, batched>>
        BY <1>6 DEF CreateUpload, Overwrite, lease
    <2>2. run'.user = run.user /\ run'.pc = run.pc
        BY <1>0, <1>6 DEF CreateUpload, Overwrite, Run
    <2>3. QED
        BY <1>1, <2>1, <2>2
<1>7. CASE Restart \/ Recover
    <2>1. \A pc \in {"orphan", "list"} : Leaving(pc).user = run.user /\ Leaving(pc).pc = pc
        BY <1>0, LeavingRun DEF Stages, Verdicts
    <2>2. batched' => run' \in {run, Leaving("orphan"), Leaving("list")}
        BY <1>7 DEF Restart, Recover
    <2>3. batched' => holder' = holder /\ batched
        BY <1>7 DEF Restart, Recover, lease
    <2>4. QED
        BY <1>0, <2>1, <2>2, <2>3 DEF BatchHasRun
<1>8. CASE ReapSelect \/ ReapRelease \/ Tick \/ Crash
    <2>1. (UNCHANGED <<holder, batched>> \/ ~batched') /\ UNCHANGED run
        BY <1>8 DEF ReapSelect, ReapRelease, Tick, Crash, End, lease
    <2>2. QED
        BY <1>1, <2>1
<1>9. CASE UNCHANGED <<lease, run>>
    BY <1>1, <1>9 DEF lease
<1>10. QED
    BY <1>1, <1>2, <1>3, <1>4, <1>5, <1>6, <1>7, <1>8, <1>9 DEF Next, vars, CreateRun,
       ToolStartRun, Rerun

LEMMA TriesStep ==
    ASSUME IInv, [Next]_vars
    PROVE  TriesAreCounted' /\ (run'.tries = 2 => run'.kind = "maestro")
<1>0. run \in Run /\ TriesAreCounted /\ (run.tries = 2 => run.kind = "maestro")
    BY Typed DEF IInv, TypeOK
<1>1. /\ NoRun.pc = "none" /\ NoRun.tries = 0
      /\ \A pc \in Stages, v \in Verdicts : /\ Leaving(pc).pc = pc /\ Leaving(pc).tries = 0
                                           /\ Result(v).pc = "done" /\ Result(v).tries = 0
    BY <1>0, LeavingRun DEF NoRun
<1>2. CASE run' = NoRun \/ \E pc \in Stages, v \in Verdicts : run' = Leaving(pc) \/ run' = Result(v)
    <2>1. run'.tries = 0 /\ run'.pc \in Stages
        BY <1>1, <1>2 DEF Stages
    <2>2. QED
        BY <2>1 DEF TriesAreCounted
<1>3. ASSUME NEW u \in Users, NEW kind \in Kinds, NEW src \in {"new", "staged"},
             Queue(u, kind, src)
      PROVE  TriesAreCounted' /\ (run'.tries = 2 => run'.kind = "maestro")
    <2>1. run'.pc = "queued" /\ run'.tries = 0
        BY <1>1, <1>3, Constants DEF Queue, Run
    <2>2. QED
        BY <2>1 DEF TriesAreCounted
<1>4. CASE Attempt
    <2>1. PICK out \in Outcomes :
            run' = [run EXCEPT !.tries = @ + 1,
                               !.out = IF out = "fail" /\ @ = "refused" THEN @ ELSE out,
                               !.pc = IF out = "refused" /\ run.tries = 0 /\ ~run.ended
                                      THEN "attempt" ELSE "dump"]
        BY <1>4 DEF Attempt
    <2>2. run.tries \in {0, 1} /\ (run.tries = 1 => run.kind = "maestro")
        BY <1>0, <1>4 DEF Attempt, At, TriesAreCounted
    <2>3. out = "refused" => run.kind = "maestro"
        BY DEF Outcomes
    <2>4. /\ run'.tries = run.tries + 1 /\ run'.kind = run.kind
          /\ run'.pc \in {"attempt", "dump"}
          /\ run'.pc = "attempt" => out = "refused" /\ run.tries = 0
        BY <1>0, <2>1 DEF Run
    <2>5. QED
        BY <2>2, <2>3, <2>4 DEF TriesAreCounted
<1>5. CASE RunDevice \/ ClearLogs \/ RunInstall \/ TestApk \/ Settle
    <2>1. run.tries = 0
        BY <1>0, <1>5 DEF RunDevice, ClearLogs, RunInstall, TestApk, Settle, At, TriesAreCounted
    <2>2. run'.tries = 0 /\ run'.pc \in Stages
        BY <1>0, <1>1, <1>5, <2>1, RunTyped DEF RunDevice, ClearLogs, RunInstall, TestApk, Settle,
           Goto, Run, Verdicts
    <2>3. QED
        BY <2>2 DEF TriesAreCounted
<1>6. CASE Dump \/ Wipe
    <2>1. /\ run'.tries = run.tries /\ run'.kind = run.kind
          /\ run'.pc \in {"wipe", "verdict"}
        BY <1>0, <1>6 DEF Dump, Wipe, Goto, Run
    <2>2. QED
        BY <1>0, <2>1 DEF TriesAreCounted
<1>7. CASE Verdict
    <2>1. PICK v \in Verdicts : run' = Result(v)
        BY <1>0, <1>7 DEF Verdict, SmokeVerdict, ToolVerdict, Verdicts, Run
    <2>2. QED
        BY <1>2, <2>1 DEF Stages
<1>8. CASE ListBatch /\ run' # NoRun
    <2>1. run.pc = "list" /\ run'.pc = "release" /\ run'.tries = run.tries
        BY <1>0, <1>8 DEF ListBatch, At, Run
    <2>2. QED
        BY <1>0, <2>1 DEF TriesAreCounted
<1>9. ASSUME RunBeat \/ EndContext \/ CreateUpload \/ Overwrite
      PROVE  run'.pc = run.pc /\ run'.tries = run.tries /\ run'.kind = run.kind
    BY <1>0, <1>9 DEF RunBeat, EndContext, CreateUpload, Overwrite, Run
<1>10. CASE run'.pc = run.pc /\ run'.tries = run.tries /\ run'.kind = run.kind
    BY <1>0, <1>10 DEF TriesAreCounted
<1>11. EndRun \/ Recover \/ ReleaseBatch \/ Restart =>
         UNCHANGED run \/ run' \in {NoRun, Leaving("list"), Leaving("orphan")}
    BY DEF EndRun, Recover, ReleaseBatch, Restart
<1>12. EndRun \/ Recover \/ ReleaseBatch \/ Restart =>
         TriesAreCounted' /\ (run'.tries = 2 => run'.kind = "maestro")
    BY <1>2, <1>10, <1>11 DEF Stages, Verdicts
<1>13. QED
    BY <1>2, <1>3, <1>4, <1>5, <1>6, <1>7, <1>8, <1>9, <1>10, <1>12, RunWriters DEF Execute

-----------------------------------------------------------------------------
(* The renewals of an agent                                                *)

\* A request on its way to the lease stays on its way, whatever another does.
LEMMA CallsGoOn ==
    ASSUME IInv, NEW c \in Callers, Serve(c), NEW d \in Callers, d # c
    PROVE  call'[d] = call[d]
<1>1. call \in [Callers -> Call]
    BY Typed
<1>2. QED
    BY <1>1 DEF Serve, ToolRelease, AgentDevice, WaitRun, HeldDevice, Forget, AgentBeat, Heartbeat,
       Launch, Stop, Uninstall, Gesture, Shell, ReadLogs, WipeLogs, ToolInstall, Install,
       Renewed, Done

\* The stamp stands for a renewal, and the lease is as old as the agent's silence
\* at most: a call that moves the stamp has a renewal to send, and one that does
\* not finds a lease that is younger than the throttle.
LEMMA StampStep ==
    ASSUME IInv, [Next]_vars
    PROVE  StampRenews' /\ KeptAlive'
<1>0. /\ StampRenews /\ KeptAlive /\ call \in [Callers -> Call]
      /\ idle \in 0..(IdleTimeout + 1) /\ beat \in 0..(Throttle + 1) /\ silent \in 0..IdleTimeout
      /\ Throttle \in Nat /\ Throttle > 0 /\ IdleTimeout \in Nat
    BY Typed, Constants DEF IInv
<1>1. ASSUME \A d \in Callers : call[d].pc \in {"beat", "renew"} => call'[d].pc = call[d].pc,
             UNCHANGED lease
      PROVE  StampRenews' /\ KeptAlive'
    BY <1>0, <1>1 DEF StampRenews, KeptAlive, lease
<1>2. CASE holder' = Nobody
    BY <1>2 DEF StampRenews, KeptAlive
<1>3. ASSUME idle' = 0, beat' \in Nat, silent' \in Nat
      PROVE  StampRenews' /\ KeptAlive'
    BY <1>0, <1>3 DEF StampRenews, KeptAlive
<1>4. ASSUME NEW c \in Callers, Serve(c)
      PROVE  StampRenews' /\ KeptAlive'
    <2>1. ASSUME call[c].pc \notin {"beat", "renew"}, NEW d \in Callers,
                 call[d].pc \in {"beat", "renew"}
          PROVE  call'[d].pc = call[d].pc
        BY <1>4, <2>1, CallsGoOn
    <2>2. ASSUME NEW u \in Users, ToolRelease(c, u)
          PROVE  StampRenews' /\ KeptAlive'
        BY <1>2, <2>2 DEF ToolRelease, End
    <2>3. ASSUME NEW u \in Users, AgentDevice(c, u) \/ WaitRun(c, u)
          PROVE  StampRenews' /\ KeptAlive'
        <3>1. call[c].pc = "none" /\ call'[c].pc = "beat" /\ UNCHANGED <<holder, lost, beat, idle>>
            BY <1>0, <2>3 DEF AgentDevice, WaitRun, NoRequest, Request
        <3>2. KeptAlive'
            BY <3>1 DEF KeptAlive
        <3>3. StampRenews'
            BY <1>0, <2>1, <3>1 DEF StampRenews
        <3>4. QED
            BY <3>2, <3>3
    <2>4. ASSUME NEW u \in Users, HeldDevice(c, u)
          PROVE  StampRenews' /\ KeptAlive'
        BY <1>1, <2>1, <2>4 DEF HeldDevice, NoRequest, Request
    <2>5. CASE Forget(c)
        <3>1. beat' > Throttle /\ UNCHANGED <<holder, lost, idle, silent>> /\ call[c].pc = "forget"
            BY <1>0, <2>5 DEF Forget
        <3>2. StampRenews'
            BY <3>1 DEF StampRenews
        <3>3. KeptAlive'
            BY <1>0, <2>1, <3>1 DEF KeptAlive
        <3>4. QED
            BY <3>2, <3>3
    <2>6. CASE AgentBeat(c)
        <3>1. CASE beat > Throttle
            <4>1. call'[c].pc = "renew"
                BY <1>0, <2>6, <3>1 DEF AgentBeat, Call
            <4>2. QED
                BY <4>1 DEF StampRenews, KeptAlive
        <3>2. CASE ~(beat > Throttle)
            <4>1. UNCHANGED <<holder, lost, idle, silent, beat>> /\ call[c].pc = "beat"
                BY <2>6, <3>2 DEF AgentBeat
            <4>2. \A d \in Callers : call[d].pc = "renew" => call'[d].pc = "renew"
                BY <1>4, <4>1, CallsGoOn
            <4>3. holder = Nobody \/ lost \/ idle <= beat \/ \E d \in Callers : call[d].pc = "renew"
                BY <1>0, <3>2 DEF StampRenews
            <4>4. idle <= beat => idle <= silent + Throttle
                BY <1>0, <3>2
            <4>5. QED
                BY <4>1, <4>2, <4>3, <4>4 DEF StampRenews, KeptAlive
        <3>3. QED
            BY <3>1, <3>2
    <2>7. CASE Heartbeat(c)
        <3>1. lost' \/ holder' = Nobody \/ (idle' = 0 /\ UNCHANGED <<beat, silent>>)
            BY <2>7 DEF Heartbeat
        <3>2. lost' => StampRenews' /\ KeptAlive'
            BY DEF StampRenews, KeptAlive
        <3>3. QED
            BY <1>0, <1>2, <1>3, <3>1, <3>2
    <2>8. ASSUME Launch(c) \/ Stop(c) \/ Uninstall(c) \/ Gesture(c) \/ Shell(c) \/ ReadLogs(c)
                 \/ WipeLogs(c) \/ ToolInstall(c) \/ Install(c)
          PROVE  StampRenews' /\ KeptAlive'
        <3>1. UNCHANGED lease /\ call[c].pc \notin {"beat", "renew"}
            BY <2>8 DEF Launch, Stop, Uninstall, Gesture, Shell, ReadLogs, WipeLogs, ToolInstall,
               Install, Installed, Doing
        <3>2. QED
            BY <1>1, <2>1, <3>1
    <2>9. QED
        BY <1>4, <2>2, <2>3, <2>4, <2>5, <2>6, <2>7, <2>8 DEF Serve
<1>5. CASE Execute
    <2>1. UNCHANGED call
        BY <1>5 DEF Execute, RunDevice, ClearLogs, RunInstall, TestApk, Settle, Attempt, Dump, Wipe,
           Verdict, EndRun, ListBatch, ReleaseBatch, RunBeat, EndContext
    <2>2. UNCHANGED lease \/ holder' = Nobody \/ (idle' = 0 /\ UNCHANGED <<beat, silent>>)
        BY <1>5 DEF Execute, RunDevice, ClearLogs, RunInstall, TestApk, Settle, Attempt, Dump, Wipe,
           Verdict, EndRun, ListBatch, ReleaseBatch, RunBeat, EndContext, End
    <2>3. QED
        BY <1>0, <1>1, <1>2, <1>3, <2>1, <2>2
<1>6. ASSUME NEW u \in Users, NEW kind \in Kinds, NEW src, Queue(u, kind, src)
      PROVE  StampRenews' /\ KeptAlive'
    <2>1. UNCHANGED call /\ (UNCHANGED lease \/ (idle' = 0 /\ beat' = beat /\ silent' = 0))
        BY <1>6 DEF Queue, Begin
    <2>2. QED
        BY <1>0, <1>1, <1>3, <2>1
<1>7. ASSUME NEW u \in Users, ToolReserve(u)
      PROVE  StampRenews' /\ KeptAlive'
    BY <1>0, <1>3, <1>7 DEF ToolReserve, Begin
<1>8. ASSUME (\E u \in Users : Release(u)) \/ ReapRelease
      PROVE  StampRenews' /\ KeptAlive'
    BY <1>2, <1>8 DEF Release, ReapRelease, End
<1>9. CASE Tick /\ holder # Nobody
    <2>1. /\ UNCHANGED <<holder, lost, call>>
          /\ idle' = IF idle < IdleTimeout + 1 THEN idle + 1 ELSE IdleTimeout + 1
          /\ silent' = IF silent < IdleTimeout THEN silent + 1 ELSE IdleTimeout
          /\ beat' = IF beat < Throttle + 1 THEN beat + 1 ELSE Throttle + 1
        BY <1>9 DEF Tick, Older
    <2>2. idle <= silent + Throttle => idle' <= silent' + Throttle
        BY <1>0, <2>1
    <2>3. beat > Throttle \/ idle <= beat => beat' > Throttle \/ idle' <= beat'
        BY <1>0, <2>1
    <2>4. KeptAlive'
        BY <1>0, <2>1, <2>2 DEF KeptAlive
    <2>5. StampRenews'
        BY <1>0, <2>1, <2>3 DEF StampRenews
    <2>6. QED
        BY <2>4, <2>5
<1>10. CASE Restart /\ holder # Nobody
    <2>1. beat' > Throttle /\ silent' = IdleTimeout /\ idle' = idle
        BY <1>0, <1>10 DEF Restart
    <2>2. idle' <= silent' + Throttle
        BY <1>0, <2>1
    <2>3. QED
        BY <2>1, <2>2 DEF StampRenews, KeptAlive
<1>11. CASE UNCHANGED <<lease, call>>
    BY <1>1, <1>11
<1>12. CASE holder = Nobody /\ (Tick \/ Restart)
    BY <1>2, <1>12 DEF Tick, Restart
<1>13. CASE ReapSelect
    BY <1>0, <1>13 DEF ReapSelect, StampRenews, KeptAlive
<1>14. QED
    BY <1>4, <1>5, <1>6, <1>7, <1>8, <1>9, <1>10, <1>11, <1>12, <1>13 DEF Next, vars, CreateRun,
       ToolStartRun, Rerun, CreateUpload, Overwrite, Crash, Recover

-----------------------------------------------------------------------------
(* The crash of a smoke run's build                                        *)

\* Whoever works on the phone meanwhile takes the log or replaces the build only
\* in the open.
LEMMA ServeSeen ==
    ASSUME IInv, NEW c \in Callers, Serve(c)
    PROVE  CrashIsSeen'
<1>0. CrashIsSeen /\ run \in Run /\ app \in App /\ spoiled \in BOOLEAN
    BY Typed DEF IInv
<1>1. app'.build = "none" => ~app'.alive
    BY PhoneTyped DEF Next
<1>2. UNCHANGED <<run, crashed>>
    BY DEF Serve, ToolRelease, AgentDevice, WaitRun, HeldDevice, Forget, AgentBeat, Heartbeat,
       Launch, Stop, Uninstall, Gesture, Shell, ReadLogs, WipeLogs, ToolInstall, Install,
       Installed, phone
<1>3. \/ UNCHANGED <<log, spoiled>> /\ app'.build \in {app.build, "none"}
      \/ spoiled' = (spoiled \/ Watched)
    <2>1. CASE Launch(c) \/ Stop(c) \/ Uninstall(c) \/ Gesture(c)
        BY <1>0, <2>1 DEF Launch, Stop, Uninstall, Gesture, App
    <2>2. CASE Shell(c) \/ WipeLogs(c)
        BY <2>2 DEF Shell, WipeLogs
    <2>3. CASE ToolInstall(c) \/ Install(c)
        BY <2>3 DEF ToolInstall, Install, Installed
    <2>4. QED
        BY <2>1, <2>2, <2>3 DEF Serve, ToolRelease, AgentDevice, WaitRun, HeldDevice, Forget,
           AgentBeat, Heartbeat, ReadLogs, phone
<1>4. spoiled' = (spoiled \/ Watched) /\ run.pc \in {"settle", "dump", "wipe", "verdict"} => ~Fair'
    BY <1>2 DEF Fair, Watched
<1>5. UNCHANGED spoiled => (Fair' <=> Fair)
    BY <1>2 DEF Fair
<1>6. CASE UNCHANGED <<log, spoiled>> /\ app'.build \in {app.build, "none"}
    BY <1>0, <1>1, <1>2, <1>5, <1>6 DEF CrashIsSeen
<1>7. CASE spoiled' = (spoiled \/ Watched)
    BY <1>0, <1>1, <1>2, <1>4, <1>7 DEF CrashIsSeen
<1>8. QED
    BY <1>3, <1>6, <1>7

\* The executor: nothing has crashed when the build is installed, the log is
\* scanned before it is emptied, and a scan that failed is in the open.
LEMMA ExecuteSeen ==
    ASSUME IInv, Execute
    PROVE  CrashIsSeen'
<1>0. /\ CrashIsSeen /\ run \in Run /\ app \in App
      /\ log \in BOOLEAN /\ spoiled \in BOOLEAN /\ crashed \in BOOLEAN
    BY Typed DEF IInv
<1>1. app'.build = "none" => ~app'.alive
    BY PhoneTyped DEF Next
<1>2. CASE (RunDevice \/ ClearLogs) /\ run'.pc # "done"
    <2>1. \A v \in {"skipped", "error"} : Result(v).pc = "done"
        BY <1>0, LeavingRun DEF Verdicts, Stages
    <2>2. /\ run'.pc \in {"clear", "install", "attempt"} /\ run'.kind = run.kind
          /\ run'.pc = "attempt" => run.kind # "smoke"
          /\ UNCHANGED <<crashed, spoiled, app>> /\ run.pc \in {"queued", "clear"}
        <3>1. CASE RunDevice
            <4>1. \/ run' = [run EXCEPT !.pc = "clear"]
                  \/ run' = [run EXCEPT !.src = "none", !.pc = "attempt"] /\ run.kind # "smoke"
                BY <1>2, <2>1, <3>1 DEF RunDevice, Goto
            <4>2. QED
                BY <1>0, <3>1, <4>1 DEF RunDevice, At, Run, phone
        <3>2. CASE ClearLogs
            BY <1>0, <3>2 DEF ClearLogs, Goto, At, Run
        <3>3. QED
            BY <1>2, <3>1, <3>2
    <2>3. QED
        BY <1>0, <1>1, <2>2 DEF CrashIsSeen
<1>3. CASE RunInstall
    <2>1. ~crashed /\ UNCHANGED <<log, crashed>>
        BY <1>0, <1>3 DEF RunInstall, At, CrashIsSeen
    <2>2. CASE run' = [run EXCEPT !.src = "none", !.verdict = "error", !.pc = "dump"]
        <3>1. run'.pc = "dump" /\ run'.verdict = "error"
            BY <1>0, <2>2 DEF Run
        <3>2. QED
            BY <1>1, <2>1, <3>1 DEF CrashIsSeen, Fair
    <2>3. CASE run' # [run EXCEPT !.src = "none", !.verdict = "error", !.pc = "dump"]
        <3>1. /\ \E b \in BOOLEAN :
                    app' = [build |-> IF run.src = "clobbered" THEN "other" ELSE "run", alive |-> b]
              /\ spoiled' = (run.kind = "smoke" /\ run.src = "clobbered")
              /\ run' = [run EXCEPT !.src = "none",
                                    !.pc = CASE run.kind = "smoke" -> "settle"
                                             [] run.kind = "test"  -> "testapk"
                                             [] OTHER              -> "attempt"]
            BY <1>3, <2>3 DEF RunInstall
        <3>2. /\ run'.kind = run.kind
              /\ \/ run'.pc = "settle" /\ run.kind = "smoke"
                 \/ run'.pc \in {"testapk", "attempt"} /\ run.kind # "smoke"
            BY <1>0, <3>1 DEF Run
        <3>3. app'.build = "other" => spoiled' \/ run.kind # "smoke"
            <4>1. app'.build = IF run.src = "clobbered" THEN "other" ELSE "run"
                BY <3>1
            <4>2. app'.build = "other" => run.src = "clobbered"
                BY <4>1
            <4>3. run.kind = "smoke" /\ run.src = "clobbered" => spoiled'
                BY <3>1
            <4>4. QED
                BY <4>2, <4>3
        <3>4. QED
            BY <1>1, <2>1, <3>2, <3>3 DEF CrashIsSeen, Fair
    <2>4. QED
        BY <2>2, <2>3
<1>4. CASE TestApk \/ Attempt
    <2>1. /\ run'.kind = run.kind /\ run.kind # "smoke" /\ UNCHANGED <<app, crashed>>
          /\ run'.pc \in {"attempt", "dump"}
        BY <1>0, <1>4 DEF TestApk, Attempt, Goto, At, Run, CrashIsSeen, phone
    <2>2. QED
        BY <1>1, <2>1 DEF CrashIsSeen, Fair
<1>5. CASE Settle /\ run'.pc # "done"
    <2>1. /\ run'.kind = run.kind /\ run.pc = "settle" /\ UNCHANGED phone
          /\ run'.pc = "dump" /\ run'.verdict = run.verdict
        BY <1>0, <1>5, LeavingRun DEF Settle, Goto, At, Run, Verdicts, Stages
    <2>2. QED
        BY <1>0, <1>1, <2>1 DEF CrashIsSeen, Fair, phone
<1>6. CASE Dump
    <2>1. /\ run'.kind = run.kind /\ run'.verdict = run.verdict /\ run.pc = "dump"
          /\ UNCHANGED <<app, log, crashed>>
          /\ \/ run'.pc = "wipe" /\ run'.crash = ScanCrash /\ UNCHANGED spoiled
             \/ run'.pc = "verdict" /\ spoiled' = (spoiled \/ Watched)
        BY <1>0, <1>6 DEF Dump, Goto, At, Run
    <2>2. run.kind = "smoke" => Watched
        BY <2>1 DEF Watched
    <2>3. CASE run'.pc = "wipe"
        <3>1. run'.crash = ScanCrash /\ UNCHANGED spoiled
            BY <2>1, <2>3
        <3>2. Fair' => Fair /\ Watched
            BY <2>1, <2>2, <3>1 DEF Fair
        <3>3. Fair' /\ crashed' => run'.crash
            BY <1>0, <2>1, <3>1, <3>2 DEF CrashIsSeen, ScanCrash
        <3>4. QED
            BY <1>0, <1>1, <2>1, <2>3, <3>2, <3>3 DEF CrashIsSeen
    <2>4. CASE run'.pc = "verdict"
        <3>1. ~Fair'
            BY <2>1, <2>2, <2>4 DEF Fair
        <3>2. QED
            BY <1>1, <2>4, <3>1 DEF CrashIsSeen
    <2>5. QED
        BY <2>1, <2>3, <2>4
<1>7. CASE Wipe
    <2>1. /\ run'.kind = run.kind /\ run'.verdict = run.verdict /\ run.pc = "wipe"
          /\ run'.pc = "verdict" /\ run'.crash = run.crash /\ UNCHANGED <<app, crashed, spoiled>>
        BY <1>0, <1>7 DEF Wipe, Goto, At, Run
    <2>2. QED
        BY <1>0, <1>1, <2>1 DEF CrashIsSeen, Fair
<1>8. CASE Verdict
    <2>1. PICK v \in Verdicts : run' = Result(v)
        BY <1>0, <1>8 DEF Verdict, SmokeVerdict, ToolVerdict, Verdicts, Run
    <2>2. QED
        BY <1>0, <1>1, <2>1, LeavingRun DEF Stages, CrashIsSeen
<1>9. CASE EndRun \/ ListBatch \/ ReleaseBatch
    <2>1. ~crashed'
        BY <1>0, <1>9 DEF EndRun, ListBatch, ReleaseBatch, At, CrashIsSeen, phone
    <2>2. run'.pc \in {"none", "list", "release"}
        BY <1>0, <1>9, LeavingRun DEF EndRun, ListBatch, ReleaseBatch, NoRun, Stages, Verdicts, Run
    <2>3. QED
        BY <1>1, <2>1, <2>2 DEF CrashIsSeen
<1>10. CASE RunBeat \/ EndContext
    <2>1. /\ run'.pc = run.pc /\ run'.kind = run.kind /\ run'.verdict = run.verdict
          /\ run'.crash = run.crash /\ UNCHANGED phone
        BY <1>0, <1>10 DEF RunBeat, EndContext, Run
    <2>2. QED
        BY <1>0, <2>1 DEF CrashIsSeen, Fair, phone
<1>11. CASE run'.pc = "done"
    BY <1>1, <1>11 DEF CrashIsSeen
<1>12. QED
    BY <1>2, <1>3, <1>4, <1>5, <1>6, <1>7, <1>8, <1>9, <1>10, <1>11 DEF Execute

LEMMA SeenStep ==
    ASSUME IInv, [Next]_vars
    PROVE  CrashIsSeen'
<1>0. /\ CrashIsSeen /\ run \in Run /\ app \in App /\ crashed \in BOOLEAN
    BY Typed DEF IInv
<1>1. app'.build = "none" => ~app'.alive
    BY PhoneTyped
<1>2. CASE Crash
    <2>1. /\ app'.build = "run" /\ log' = TRUE /\ UNCHANGED <<run, spoiled>>
          /\ crashed' => crashed \/ run.pc \in {"settle", "dump"}
        BY <1>0, <1>2 DEF Crash, App
    <2>2. Fair' <=> Fair
        BY <2>1 DEF Fair
    <2>3. QED
        BY <1>0, <1>1, <2>1, <2>2 DEF CrashIsSeen
<1>3. ASSUME NEW u \in Users, NEW kind \in Kinds, NEW src \in {"new", "staged"},
             Queue(u, kind, src)
      PROVE  CrashIsSeen'
    <2>1. run'.pc = "queued" /\ run.pc = "none" /\ UNCHANGED crashed
        BY <1>3, Constants DEF Queue, Run, phone
    <2>2. QED
        BY <1>0, <1>1, <2>1 DEF CrashIsSeen
<1>4. CASE Restart \/ Recover
    <2>1. ~crashed'
        BY <1>0, <1>4 DEF Restart, Recover, At, CrashIsSeen, phone
    <2>2. run'.pc \in {"none", "queued", "orphan", "list"}
        <3>1. /\ Leaving("orphan").pc = "orphan" /\ Leaving("list").pc = "list"
              /\ NoRun.pc = "none"
            BY <1>0, LeavingRun DEF Stages, Verdicts, NoRun
        <3>2. QED
            BY <1>4, <3>1 DEF Restart, Recover, Executing
    <2>3. QED
        BY <1>1, <2>1, <2>2 DEF CrashIsSeen
<1>5. CASE CreateUpload \/ Overwrite
    <2>1. /\ run'.pc = run.pc /\ run'.kind = run.kind /\ run'.verdict = run.verdict
          /\ run'.crash = run.crash /\ UNCHANGED phone
        BY <1>0, <1>5 DEF CreateUpload, Overwrite, Run
    <2>2. QED
        BY <1>0, <2>1 DEF CrashIsSeen, Fair, phone
<1>6. CASE UNCHANGED <<run, phone>>
    BY <1>0, <1>6 DEF CrashIsSeen, Fair, phone
<1>7. QED
    BY <1>2, <1>3, <1>4, <1>5, <1>6, ServeSeen, ExecuteSeen DEF Next, vars, ToolReserve, Release,
       CreateRun, ToolStartRun, Rerun, ReapSelect, ReapRelease, Tick

-----------------------------------------------------------------------------
(* The invariant                                                           *)

LEMMA InvariantInit == ASSUME Init PROVE IInv
<1>1. /\ 0 \in 0..(IdleTimeout + 1) /\ 0 \in 0..IdleTimeout /\ Throttle + 1 \in 0..(Throttle + 1)
      /\ 0 \in 0..MaxRuns
    BY Constants
<1>2. [build |-> "none", alive |-> FALSE] \in App
    BY DEF App
<1>3. call \in [Callers -> Call] /\ run \in Run /\ run.tries = 0
    BY Constants DEF Init, NoRun
<1>4. /\ holder \in Users \cup {Nobody} /\ batched \in BOOLEAN /\ lost \in BOOLEAN
      /\ idle \in 0..(IdleTimeout + 1) /\ beat \in 0..(Throttle + 1)
      /\ silent \in 0..IdleTimeout /\ runs \in 0..MaxRuns
    BY <1>1 DEF Init
<1>5. /\ app \in App /\ log \in BOOLEAN /\ crashed \in BOOLEAN /\ spoiled \in BOOLEAN
      /\ ~batched /\ due \in BOOLEAN
    BY <1>2 DEF Init
<1>6. TypeOK
    BY <1>3, <1>4, <1>5 DEF TypeOK, Call, App, Run, Stages, Sources, Outs, Verdicts
<1>7. QED
    BY <1>6 DEF Init, IInv, BatchHasRun, TriesAreCounted, StampRenews, KeptAlive, CrashIsSeen, NoRun

LEMMA InvariantStep ==
    ASSUME IInv, [Next]_vars
    PROVE  IInv'
<1>1. TypeOK'
    BY RunTyped, CallTyped, PhoneTyped, LeaseTyped, BatchStep, TriesStep
       DEF TypeOK, Call, App, Run, Stages, Sources, Outs, Verdicts
<1>2. QED
    BY <1>1, BatchStep, TriesStep, StampStep, SeenStep DEF IInv

\* The six parts together hold from the start and through every step of the
\* agents, the dashboard and the run.
THEOREM Invariant == Spec => []IInv
<1>1. IInv /\ [Next]_vars => IInv'
    BY InvariantStep
<1>2. QED
    BY InvariantInit, <1>1, PTL DEF Spec

-----------------------------------------------------------------------------
(* What a reader should know of                                            *)

\* The state stays typed, whatever meets on the phone: nothing but a flow is
\* started twice and nothing three times, and a run's batch is its user's lease.
THEOREM Typing == Spec => []TypeOK
<1>1. IInv => TypeOK
    BY DEF IInv
<1>2. QED
    BY Invariant, <1>1, PTL

\* However many calls of however many agents are served at once, the lease of an
\* agent that goes on calling tools is renewed in time, unless a renewal was
\* refused or lost (api.agentBeat, mcp.go:82).
THEOREM AgentsKeepTheirPhones == Spec => []KeptAlive
<1>1. IInv => KeptAlive
    BY DEF IInv
<1>2. QED
    BY Invariant, <1>1, PTL

\* A smoke run passes only with its own build up and without a crash since its
\* installation, unless somebody else has meddled with log or build
\* (runner.smokeVerdict, saveLog).
THEOREM PassesAreClean == Spec => CleanPass
<1>1. ASSUME IInv, [Next]_vars, run'.verdict = "passed", run.verdict = "none", run.kind = "smoke"
      PROVE  spoiled \/ (~crashed /\ app = [build |-> "run", alive |-> TRUE])
    <2>0. /\ run \in Run /\ app \in App /\ CrashIsSeen
          /\ \A pc \in Stages, v \in Verdicts : Leaving(pc).verdict = "none"
                                               /\ Result(v).verdict = v
        BY <1>1, Typed, LeavingRun DEF IInv
    <2>1. Verdict
        <3>1. run'.verdict # run.verdict
            BY <1>1
        <3>2. ASSUME NEW u \in Users, NEW kind \in Kinds, NEW src \in {"new", "staged"},
                     Queue(u, kind, src)
              PROVE  FALSE
            <4>1. run' = [NoRun EXCEPT !.pc = "queued", !.kind = kind, !.src = src, !.user = u]
                BY <3>2 DEF Queue
            <4>2. run'.verdict = "none"
                BY <4>1 DEF NoRun
            <4>3. QED
                BY <1>1, <4>2
        <3>3. ~CreateUpload /\ ~Overwrite
            BY <2>0, <3>1 DEF CreateUpload, Overwrite, Run
        <3>4. ~Restart /\ ~Recover /\ ~EndRun /\ ~ListBatch /\ ~ReleaseBatch
            <4>1. run' \notin {run, NoRun, Leaving("orphan"), Leaving("list")}
                BY <1>1, <2>0 DEF NoRun, Stages, Verdicts
            <4>2. run' # [run EXCEPT !.pc = "release"]
                BY <1>1, <2>0 DEF Run
            <4>3. QED
                BY <4>1, <4>2 DEF Restart, Recover, EndRun, ListBatch, ReleaseBatch
        <3>5. ~RunDevice /\ ~ClearLogs /\ ~RunInstall /\ ~TestApk /\ ~Settle
            BY <1>1, <2>0 DEF RunDevice, ClearLogs, RunInstall, TestApk, Settle, Goto, Run,
               Verdicts, Stages
        <3>6. ~Attempt /\ ~Dump /\ ~Wipe /\ ~RunBeat /\ ~EndContext
            BY <1>1, <2>0 DEF Attempt, Dump, Wipe, RunBeat, EndContext, Goto, Run
        <3>7. QED
            BY <1>1, <3>1, <3>2, <3>3, <3>4, <3>5, <3>6, RunWriters DEF Execute
    <2>2. run'.verdict = SmokeVerdict /\ run.pc = "verdict"
        <3>1. run' = Result(SmokeVerdict) /\ run.pc = "verdict"
            BY <1>1, <2>1 DEF Verdict, At
        <3>2. SmokeVerdict \in Verdicts
            BY DEF SmokeVerdict, Verdicts
        <3>3. QED
            BY <2>0, <3>1, <3>2 DEF Stages
    <2>3. ~run.crash /\ app.alive
        BY <1>1, <2>2 DEF SmokeVerdict
    <2>4. CASE ~spoiled
        <3>1. ~crashed /\ app.build \in {"run"}
            BY <1>1, <2>0, <2>2, <2>3, <2>4 DEF CrashIsSeen, Fair, App
        <3>2. app.alive = TRUE /\ app = [build |-> app.build, alive |-> app.alive]
            BY <2>0, <2>3 DEF App
        <3>3. QED
            BY <3>1, <3>2
    <2>5. QED
        BY <2>4
<1>2. IInv /\ [Next]_vars =>
        [(run'.verdict = "passed" /\ run.verdict = "none" /\ run.kind = "smoke")
         => \/ spoiled
            \/ ~crashed /\ app = [build |-> "run", alive |-> TRUE]]_vars
    BY <1>1
<1>3. QED
    BY Invariant, <1>2, PTL DEF Spec, CleanPass

-----------------------------------------------------------------------------
(* The lease                                                               *)

\* The steps that change who holds the phone.
LEMMA HolderWriters ==
    ASSUME [Next]_vars
    PROVE  \/ UNCHANGED holder
           \/ \E u \in Users : Begin(u)
           \/ \E u \in Users : Release(u) \/ \E c \in Callers : ToolRelease(c, u)
           \/ (ReapRelease \/ ReleaseBatch) /\ holder' = Nobody
<1>1. ASSUME NEW c \in Callers, Serve(c)
      PROVE  UNCHANGED holder \/ \E u \in Users : ToolRelease(c, u)
    BY <1>1 DEF Serve, AgentDevice, WaitRun, HeldDevice, Forget, AgentBeat, Heartbeat, Launch,
       Stop, Uninstall, Gesture, Shell, ReadLogs, WipeLogs, ToolInstall, Install, Installed, lease
<1>2. Execute => UNCHANGED holder \/ ReleaseBatch
    <2>1. RunDevice \/ ClearLogs \/ TestApk \/ Settle => UNCHANGED lease
        BY DEF RunDevice, ClearLogs, TestApk, Settle
    <2>2. Attempt => UNCHANGED lease
        BY Zenon DEF Attempt
    <2>3. RunInstall \/ Dump \/ Wipe \/ Verdict \/ EndContext => UNCHANGED lease
        BY DEF RunInstall, Dump, Wipe, Verdict, EndContext
    <2>4. EndRun \/ ListBatch => UNCHANGED lease
        BY DEF EndRun, ListBatch
    <2>5. RunBeat => UNCHANGED holder
        BY DEF RunBeat
    <2>6. QED
        BY <2>1, <2>2, <2>3, <2>4, <2>5 DEF Execute, lease
<1>3. ASSUME NEW u \in Users, NEW kind \in Kinds, NEW src, Queue(u, kind, src)
      PROVE  UNCHANGED holder \/ Begin(u)
    BY <1>3 DEF Queue, lease
<1>4. ReapRelease \/ ReleaseBatch => holder' = Nobody
    BY DEF ReapRelease, ReleaseBatch, End
<1>5. Tick \/ CreateUpload \/ Overwrite \/ Crash \/ Restart \/ Recover \/ ReapSelect
        => UNCHANGED holder
    BY DEF Tick, CreateUpload, Overwrite, Crash, Restart, Recover, ReapSelect, lease
<1>6. ASSUME NEW u \in Users, ToolReserve(u) \/ Release(u)
      PROVE  Begin(u) \/ Release(u)
    BY <1>6 DEF ToolReserve
<1>7. ASSUME NEW u \in Users, NEW kind \in Kinds,
             CreateRun(u, kind) \/ ToolStartRun(u, kind) \/ Rerun(u, kind)
      PROVE  UNCHANGED holder \/ Begin(u)
    BY <1>3, <1>7 DEF CreateRun, ToolStartRun, Rerun
<1>8. QED
    BY <1>1, <1>2, <1>4, <1>5, <1>6, <1>7 DEF Next, vars, lease

\* The phone as the one device of Lease.
Device == {"phone"}
holders == [d \in Device |-> holder]

Promise == INSTANCE Lease WITH Devices <- Device, holder <- holders

LEMMA LeaseStep == IInv /\ [Next]_vars => [Promise!Next]_holders
<1> SUFFICES ASSUME IInv, [Next]_vars PROVE [Promise!Next]_holders
    OBVIOUS
<1>1. CASE UNCHANGED holder
    BY <1>1 DEF holders
<1>2. ASSUME NEW u \in Users, Begin(u)
      PROVE  Promise!Next
    <2>1. Promise!Acquire(u, Device)
        BY <1>2 DEF Begin, Promise!Acquire, holders, Device
    <2>2. Device \in (SUBSET Device) \ {{}}
        BY DEF Device
    <2>3. QED
        BY <2>1, <2>2 DEF Promise!Next
<1>3. CASE holder' = Nobody
    <2>1. CASE holder = Nobody
        BY <1>3, <2>1 DEF holders
    <2>2. CASE holder # Nobody
        <3>1. Promise!Drop("phone")
            BY <1>3, <2>2 DEF Promise!Drop, holders, Device
        <3>2. QED
            BY <3>1 DEF Promise!Next, Device
    <2>3. QED
        BY <2>1, <2>2
<1>4. ASSUME NEW u \in Users, Release(u) \/ \E c \in Callers : ToolRelease(c, u)
      PROVE  holder' = Nobody
    BY <1>4 DEF Release, ToolRelease, End
<1>5. QED
    BY <1>1, <1>2, <1>3, <1>4, HolderWriters

\* Whoever reserves the phone, by a tool, the dashboard or the submission of a run,
\* takes it from nobody, and whatever takes it away, the reaper and the end of a
\* run included, leaves it to nobody: the lease changes as Lease says.
THEOREM LeasesAreLeases == Spec => Promise!Spec
<1>1. Init => Promise!Init
    BY DEF Init, Promise!Init, holders
<1>2. QED
    BY <1>1, Invariant, LeaseStep, PTL DEF Spec, Promise!Spec
==============================================================================
