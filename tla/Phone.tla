------------------------------- MODULE Phone -------------------------------
(***************************************************************************)
(* One Android phone and what works on it at the same time: the tools of   *)
(* an agent (internal/api/mcp.go, mcp_tools.go) and the requests of the    *)
(* dashboard (api.go, batch.go, capture.go, apps.go), which check once     *)
(* that their caller holds the phone and then take their time, and the     *)
(* executor of a run (internal/runner), whose lease may be the caller's    *)
(* own.  They share the lease, the app, and a log buffer that every reader *)
(* empties.                                                                *)
(*                                                                         *)
(* The lease is as Lease promises it, with the age of its last renewal;    *)
(* the status column is DevicePool's subject, and the queue and the result *)
(* of the whole run are Runner's: here there is one run at a time, queued, *)
(* executed or on its way out.  A tick is 30 seconds.                      *)
(***************************************************************************)
EXTENDS Naturals

CONSTANTS
    Users,
    Nobody,         \* the holder of no lease
    Callers,        \* requests that may be served at the same time
    Throttle,       \* an agent's renewals are more than this far apart
    IdleTimeout,    \* in ticks
    MaxRuns         \* bound on the runs

ASSUME PhoneAssumption ==
    /\ Nobody \notin Users
    /\ Throttle \in Nat \ {0}
    /\ IdleTimeout \in Nat
    /\ Throttle < IdleTimeout
    /\ MaxRuns \in Nat

VARIABLES
    holder,     \* who holds the phone
    batched,    \* is that lease the batch of the run?
    due,        \* has the reaper selected a lease of the phone, to release it?
    idle,       \* the age of the last renewal
    beat,       \* agentState.beats: the age of the last renewal an agent sent
    silent,     \* (history) the age of the last tool call of the holder
    lost,       \* (history) was the renewal that beat stands for refused or lost?
    call,       \* call[c]: the request c is in
    app,        \* the installed build, and whether it runs
    log,        \* does the log buffer hold a crash of the run's build?
    run,        \* the run of the phone, as far as its executor has come
    crashed,    \* (history) the run's build has crashed since it was installed
    spoiled,    \* (history) ... and its log has been emptied by somebody else or
                \* could not be read, or it is not the build on the phone any more
    runs

lease == <<holder, batched, due, idle, beat, silent, lost>>
phone == <<app, log, crashed, spoiled>>
vars == <<lease, call, phone, run, runs>>

Older(n, cap) == IF n < cap THEN n + 1 ELSE cap

\* A request of the agent ("mcp") or the dashboard ("http"); user: in whose name
\* it will still renew the lease; work: will it do something on the phone then?
Request(pc, u, work, via) == [pc |-> pc, user |-> u, work |-> work, via |-> via]
NoRequest == Request("none", Nobody, FALSE, "mcp")
Doing(c) == call[c].pc = "act"
Done(c) == call' = [call EXCEPT ![c] = NoRequest]

\* src: its build is a staged upload, or came with a request ("new"); it may be
\* swept, or written over, before it is installed.
\* ended: is its context canceled or past its deadline?  crash: does the log it
\* saved show one?
NoRun == [pc |-> "none", kind |-> "smoke", src |-> "none", user |-> Nobody, ended |-> FALSE,
          tries |-> 0, out |-> "none", crash |-> FALSE, verdict |-> "none"]
Kinds == {"smoke", "maestro", "command", "test"}
At(pc) == run.pc = pc
Executing == run.pc \notin {"none", "queued", "orphan", "list", "release"}

\* The executor has returned: whose run it was is all that matters...
Leaving(pc) == [NoRun EXCEPT !.pc = pc, !.user = run.user]

\* ... and what it found.
Result(v) == [Leaving("done") EXCEPT !.verdict = v]

\* Is a smoke run between the installation of its build and its verdict?
Watched == run.kind = "smoke" /\ run.pc \in {"settle", "dump", "wipe", "verdict"}

\* A flow is started again at most once, and nothing else ever is.
TypeOK ==
    /\ holder \in Users \cup {Nobody}
    /\ batched \in BOOLEAN
    /\ due \in BOOLEAN
    /\ idle \in 0..(IdleTimeout + 1)
    /\ beat \in 0..(Throttle + 1)
    /\ silent \in 0..IdleTimeout
    /\ lost \in BOOLEAN
    /\ call \in [Callers -> [pc : {"none", "beat", "renew", "act", "wipe", "forget"},
                             user : Users \cup {Nobody}, work : BOOLEAN, via : {"mcp", "http"}]]
    /\ app \in [build : {"none", "run", "other"}, alive : BOOLEAN]
    /\ log \in BOOLEAN
    /\ run \in [pc : {"none", "queued", "clear", "install", "testapk", "settle", "attempt",
                      "dump", "wipe", "verdict", "done", "orphan", "list", "release"},
                kind : Kinds, src : {"none", "staged", "new", "clobbered", "gone"},
                user : Users \cup {Nobody}, ended : BOOLEAN, tries : 0..2,
                out : {"none", "ok", "refused", "fail", "unclear"}, crash : BOOLEAN,
                verdict : {"none", "passed", "failed", "error", "canceled", "skipped"}]
    /\ crashed \in BOOLEAN
    /\ spoiled \in BOOLEAN
    /\ runs \in 0..MaxRuns
    /\ run.tries = 2 => run.kind = "maestro"
    /\ batched => holder = run.user

Init ==
    /\ holder = Nobody
    /\ batched = FALSE
    /\ due = FALSE
    /\ idle = 0
    /\ beat = Throttle + 1
    /\ silent = 0
    /\ lost = FALSE
    /\ call = [c \in Callers |-> NoRequest]
    /\ app = [build |-> "none", alive |-> FALSE]
    /\ log = FALSE
    /\ run = NoRun
    /\ crashed = FALSE
    /\ spoiled = FALSE
    /\ runs = 0

-----------------------------------------------------------------------------
(* The lease                                                               *)

Begin(u) ==
    /\ holder = Nobody
    /\ holder' = u
    /\ idle' = 0
    /\ silent' = 0
    /\ lost' = FALSE
    /\ UNCHANGED <<beat, due>>

\* Release of whatever lease there is; without a lease there are no ages of it.
End ==
    /\ holder' = Nobody
    /\ batched' = FALSE
    /\ idle' = 0
    /\ silent' = 0
    /\ lost' = FALSE
    /\ UNCHANGED beat

ToolReserve(u) ==
    /\ Begin(u)
    /\ UNCHANGED <<batched, call, phone, run, runs>>

\* release_device also forgets the stamp, in a step of its own.
ToolRelease(c, u) ==
    /\ call[c] = NoRequest
    /\ holder = u
    /\ End
    /\ call' = [call EXCEPT ![c] = Request("forget", Nobody, FALSE, "mcp")]
    /\ UNCHANGED <<due, phone, run, runs>>

Forget(c) ==
    /\ call[c].pc = "forget"
    /\ beat' = Throttle + 1
    /\ Done(c)
    /\ UNCHANGED <<holder, batched, due, idle, silent, lost, phone, run, runs>>

\* The dashboard's button does not.
Release(u) ==
    /\ holder = u
    /\ End
    /\ UNCHANGED <<due, call, phone, run, runs>>

\* ReapExpired selects a lease past its idle timeout, or past its hard cap, which
\* the age of its renewal does not tell...
ReapSelect ==
    /\ holder # Nobody
    /\ due' = TRUE
    /\ UNCHANGED <<holder, batched, idle, beat, silent, lost, call, phone, run, runs>>

\* ... and releases the phone as an administrator, renewed or another's by now.
ReapRelease ==
    /\ due
    /\ due' = FALSE
    /\ End
    /\ UNCHANGED <<call, phone, run, runs>>

Tick ==
    /\ IF holder = Nobody
       THEN UNCHANGED <<idle, silent>>
       ELSE idle' = Older(idle, IdleTimeout + 1) /\ silent' = Older(silent, IdleTimeout)
    /\ beat' = Older(beat, Throttle + 1)
    /\ UNCHANGED <<holder, batched, due, lost, call, phone, run, runs>>

-----------------------------------------------------------------------------
(* Requests                                                                *)

\* agentDevice: the caller holds the phone now.
AgentDevice(c, u) ==
    /\ call[c] = NoRequest
    /\ holder = u
    /\ silent' = 0
    /\ call' = [call EXCEPT ![c] = Request("beat", u, TRUE, "mcp")]
    /\ UNCHANGED <<holder, batched, due, idle, beat, lost, phone, run, runs>>

\* A get_run that waits looks at the phones of its run in the same way, again
\* and again, and does nothing with them.
WaitRun(c, u) ==
    /\ call[c] = NoRequest
    /\ runs > 0
    /\ holder = u
    /\ silent' = 0
    /\ call' = [call EXCEPT ![c] = Request("beat", u, FALSE, "mcp")]
    /\ UNCHANGED <<holder, batched, due, idle, beat, lost, phone, run, runs>>

\* The dashboard's requests check the same and renew nothing.
HeldDevice(c, u) ==
    /\ call[c] = NoRequest
    /\ holder = u
    /\ call' = [call EXCEPT ![c] = Request("act", Nobody, TRUE, "http")]
    /\ UNCHANGED <<lease, phone, run, runs>>

Renewed(c) == IF call[c].work THEN call' = [call EXCEPT ![c].pc = "act"] ELSE Done(c)

\* Mutant: every call moves the stamp.
AgentBeat_Always(c) ==
    /\ call[c].pc = "beat"
    /\ beat' = 0
    /\ IF beat > Throttle THEN call' = [call EXCEPT ![c].pc = "renew"] ELSE Renewed(c)
    /\ UNCHANGED <<holder, batched, due, idle, silent, lost, phone, run, runs>>

\* agentBeat: the stamp of the phone, whoever's call it is, under the lock; the
\* renewal itself comes after.
AgentBeat(c) ==
    /\ call[c].pc = "beat"
    /\ beat' = IF beat > Throttle THEN 0 ELSE beat
    /\ IF beat > Throttle THEN call' = [call EXCEPT ![c].pc = "renew"] ELSE Renewed(c)
    /\ UNCHANGED <<holder, batched, due, idle, silent, lost, phone, run, runs>>

\* Heartbeat, whose error is dropped: the caller may not be the holder any more.
Heartbeat(c) ==
    /\ call[c].pc = "renew"
    /\ \E ok \in BOOLEAN :
        /\ ok => holder = call[c].user
        /\ idle' = IF ok THEN 0 ELSE idle
        /\ lost' = (~ok /\ holder # Nobody)
    /\ Renewed(c)
    /\ UNCHANGED <<holder, batched, due, beat, silent, phone, run, runs>>

\* launch_app, and the dashboard's launch.
Launch(c) ==
    /\ Doing(c)
    /\ app.build # "none"
    /\ app' = [app EXCEPT !.alive = TRUE]
    /\ Done(c)
    /\ UNCHANGED <<lease, log, crashed, spoiled, run, runs>>

\* stop_app and clear_app_data end the process.
Stop(c) ==
    /\ Doing(c)
    /\ app' = [app EXCEPT !.alive = FALSE]
    /\ Done(c)
    /\ UNCHANGED <<lease, log, crashed, spoiled, run, runs>>

Uninstall(c) ==
    /\ Doing(c)
    /\ app' = [build |-> "none", alive |-> FALSE]
    /\ Done(c)
    /\ UNCHANGED <<lease, log, crashed, spoiled, run, runs>>

\* A key, a tap, a swipe, some text or a URL: the app may come up or go down.
Gesture(c) ==
    /\ Doing(c)
    /\ \E b \in BOOLEAN : app' = [app EXCEPT !.alive = b /\ app.build # "none"]
    /\ Done(c)
    /\ UNCHANGED <<lease, log, crashed, spoiled, run, runs>>

\* A command line on the phone may empty the log as well.
Shell(c) ==
    /\ Doing(c)
    /\ log' = FALSE
    /\ spoiled' = (spoiled \/ Watched)
    /\ Done(c)
    /\ UNCHANGED <<lease, app, crashed, run, runs>>

\* get_logs and the dashboard's download read the buffer and then empty it.
ReadLogs(c) ==
    /\ Doing(c)
    /\ call' = [call EXCEPT ![c] = Request("wipe", Nobody, TRUE, "http")]
    /\ UNCHANGED <<lease, phone, run, runs>>

WipeLogs(c) ==
    /\ call[c].pc = "wipe"
    /\ log' = FALSE
    /\ spoiled' = (spoiled \/ Watched)
    /\ Done(c)
    /\ UNCHANGED <<lease, app, crashed, run, runs>>

\* What installs a build of the caller's: install_app renews once more when the
\* installation has ended, whoever holds the phone then.
Installed(c) ==
    /\ \/ /\ app' = [build |-> "other", alive |-> TRUE]
          /\ spoiled' = (spoiled \/ Watched)
       \/ UNCHANGED <<app, spoiled>>
    /\ UNCHANGED <<lease, log, crashed, run, runs>>

ToolInstall(c) ==
    /\ Doing(c)
    /\ call[c].via = "mcp"
    /\ call' = [call EXCEPT ![c].pc = "beat", ![c].work = FALSE]
    /\ Installed(c)

\* The dashboard's installation, alone or of a batch.
Install(c) ==
    /\ Doing(c)
    /\ call[c].via = "http"
    /\ Done(c)
    /\ Installed(c)

-----------------------------------------------------------------------------
(* Uploads and the submission of a run                                     *)

\* Every upload first sweeps the staged ones of two days ago, used by a run or
\* not: how long a run has been queued is not bounded.
CreateUpload ==
    /\ run.src = "staged"
    /\ run' = [run EXCEPT !.src = "gone"]
    /\ UNCHANGED <<lease, call, phone, runs>>

Queue(u, kind, src) ==
    /\ run.pc = "none"
    /\ runs < MaxRuns
    /\ runs' = runs + 1
    /\ run' = [NoRun EXCEPT !.pc = "queued", !.kind = kind, !.src = src, !.user = u]
    /\ \/ holder = u /\ UNCHANGED lease
       \/ Begin(u) /\ batched' = TRUE
    /\ UNCHANGED <<call, phone>>

\* The build comes with the request, or from a URL.
CreateRun(u, kind) == Queue(u, kind, "new")

\* The directory of an upload is named for the second of the request: a build of
\* the same name replaces the other's, late when it is downloaded from a URL.
Overwrite ==
    /\ run.src = "new"
    /\ run.pc \in {"queued", "clear", "install"}
    /\ run' = [run EXCEPT !.src = "clobbered"]
    /\ UNCHANGED <<lease, call, phone, runs>>

\* start_run with an upload_id, which is looked up now and read much later.
ToolStartRun(u, kind) == Queue(u, kind, "staged")

\* Another run with the files of an earlier one, which are looked up as well.
Rerun(u, kind) == \E src \in {"staged", "new"} : Queue(u, kind, src)

-----------------------------------------------------------------------------
(* The executor                                                            *)

Goto(pc) == run' = [run EXCEPT !.pc = pc]

\* A flow and a command may come without a build; a build or a test that is not
\* for the phone's platform skips it, and whatever else is missing is an error.
RunDevice ==
    /\ At("queued")
    /\ \/ Goto("clear")
       \/ run.kind \in {"smoke", "test"} /\ run' = Result("skipped")
       \/ run' = Result("error")
       \/ /\ run.kind \in {"maestro", "command"}
          /\ run' = [run EXCEPT !.src = "none", !.pc = "attempt"]
    /\ UNCHANGED <<lease, call, phone, runs>>

\* Its error is dropped.
ClearLogs ==
    /\ At("clear")
    /\ log' \in {log, FALSE}
    /\ run.ended => UNCHANGED log
    /\ Goto("install")
    /\ UNCHANGED <<lease, call, app, crashed, spoiled, runs>>

\* The installer also launches the app.
RunInstall ==
    /\ At("install")
    /\ \/ /\ ~run.ended
          /\ run.src # "gone"
          /\ \E b \in BOOLEAN :
                app' = [build |-> IF run.src = "clobbered" THEN "other" ELSE "run", alive |-> b]
          /\ spoiled' = (run.kind = "smoke" /\ run.src = "clobbered")
          /\ run' = [run EXCEPT !.src = "none", !.pc = CASE run.kind = "smoke" -> "settle"
                                                          [] run.kind = "test"  -> "testapk"
                                                          [] OTHER              -> "attempt"]
       \/ /\ run' = [run EXCEPT !.src = "none", !.verdict = "error", !.pc = "dump"]
          /\ UNCHANGED <<app, spoiled>>
    /\ UNCHANGED <<lease, call, log, crashed, runs>>

TestApk ==
    /\ At("testapk")
    /\ \/ ~run.ended /\ Goto("attempt")
       \/ run' = [run EXCEPT !.verdict = "error", !.pc = "dump"]
    /\ UNCHANGED <<lease, call, phone, runs>>

\* A canceled run ends here without its log.
Settle ==
    /\ At("settle")
    /\ \/ Goto("dump")
       \/ run.ended /\ run' = Result("canceled")
    /\ UNCHANGED <<lease, call, phone, runs>>

\* "unclear": nothing the runner can read a result from, or, of a flow, another
\* known failure of an installation.
Outcomes == CASE run.kind = "maestro" -> {"ok", "refused", "unclear", "fail"}
              [] run.kind = "test"    -> {"ok", "fail", "none", "unclear"}
              [] OTHER                -> {"ok", "fail"}

\* Mutant: a refused driver is retried without a limit of its own, whatever the tool.
Attempt_Again ==
    /\ At("attempt")
    /\ run.tries < 2
    /\ \E out \in Outcomes :
        run' = [run EXCEPT !.tries = @ + 1, !.out = out,
                           !.pc = IF out \in {"refused", "fail"} /\ run.tries = 0
                                  THEN "attempt" ELSE "dump"]
    /\ UNCHANGED <<lease, call, phone, runs>>

\* The flow, the command or the instrumentation.  A flow whose driver the phone
\* refused to install is started once more, and the first output stays before the
\* second.
Attempt ==
    /\ At("attempt")
    /\ \E out \in Outcomes :
        /\ run.ended => out # "ok"
        /\ run' = [run EXCEPT !.tries = @ + 1,
                              !.out = IF out = "fail" /\ @ = "refused" THEN @ ELSE out,
                              !.pc = IF out = "refused" /\ run.tries = 0 /\ ~run.ended
                                     THEN "attempt" ELSE "dump"]
    /\ UNCHANGED <<lease, call, phone, runs>>

\* Only a smoke run scans what it reads, and only for crashes of its build.
ScanCrash == log /\ Watched

\* saveLog: an error reads as an empty log.
Dump ==
    /\ At("dump")
    /\ \/ /\ ~run.ended
          /\ run' = [run EXCEPT !.crash = ScanCrash, !.pc = "wipe"]
          /\ UNCHANGED spoiled
       \/ /\ Goto("verdict")
          /\ spoiled' = (spoiled \/ Watched)
    /\ UNCHANGED <<lease, call, app, log, crashed, runs>>

Wipe ==
    /\ At("wipe")
    /\ log' \in {log, FALSE}
    /\ Goto("verdict")
    /\ UNCHANGED <<lease, call, app, crashed, spoiled, runs>>

\* Mutant: what counts is whether the app is up in the end.
SmokeVerdict_Alive == IF app.alive /\ ~run.ended THEN "passed" ELSE "failed"

\* The process is looked up last, and a context that has ended finds none.
SmokeVerdict ==
    IF run.crash \/ ~app.alive \/ run.ended THEN "failed" ELSE "passed"

ToolVerdict ==
    CASE run.ended                                     -> "canceled"
      [] ~run.ended /\ run.out = "ok"                  -> "passed"
      [] ~run.ended /\ run.out = "fail"                -> "failed"
      [] ~run.ended /\ run.out \notin {"ok", "fail"}   -> "error"

Verdict ==
    /\ At("verdict")
    /\ run' = Result(CASE run.verdict # "none"                         -> run.verdict
                       [] run.verdict = "none" /\ run.kind = "smoke"   -> SmokeVerdict
                       [] run.verdict = "none" /\ run.kind # "smoke"   -> ToolVerdict)
    /\ UNCHANGED <<lease, call, phone, runs>>

\* SetRunStatus: the row says that the run has ended, and only then its batch is
\* given up.
EndRun ==
    /\ At("done")
    /\ run' = Leaving("list")
    /\ crashed' = FALSE
    /\ spoiled' = FALSE
    /\ UNCHANGED <<lease, call, app, log, runs>>

\* ReleaseBatch lists what the batch of the run still holds, which is nothing when
\* the run borrowed its phone...
ListBatch ==
    /\ At("list")
    /\ run' = IF batched THEN [run EXCEPT !.pc = "release"] ELSE NoRun
    /\ UNCHANGED <<lease, call, phone, runs>>

\* ... and releases it as an administrator, whoever holds it by now.
ReleaseBatch ==
    /\ At("release")
    /\ End
    /\ run' = NoRun
    /\ UNCHANGED <<due, call, phone, runs>>

\* The goroutine that renews the batch while the run is executed; its last renewal
\* may come late.
RunBeat ==
    /\ run.pc \notin {"none", "queued", "orphan"}
    /\ batched
    /\ idle' = 0
    /\ UNCHANGED <<holder, batched, due, beat, silent, lost, call, phone, run, runs>>

\* Cancel, or the time limit of the run on this phone.
EndContext ==
    /\ Executing
    /\ ~At("done") /\ ~run.ended
    /\ run' = [run EXCEPT !.ended = TRUE]
    /\ UNCHANGED <<lease, call, phone, runs>>

\* The app of the run crashes; the system may start it again.
Crash ==
    /\ app = [build |-> "run", alive |-> TRUE]
    /\ log' = TRUE
    /\ \E b \in BOOLEAN : app' = [app EXCEPT !.alive = b]
    /\ crashed' = (crashed \/ (Watched /\ run.pc \in {"settle", "dump"}))
    /\ UNCHANGED <<lease, spoiled, call, run, runs>>

\* The process dies with its requests, its stamps, its reaper and its executor.  A
\* queued run waits on; one whose row had ended already is nobody's business any
\* more, and its batch is left to the reaper.  Calls the server has lost count for
\* nothing.
Restart ==
    /\ call' = [c \in Callers |-> NoRequest]
    /\ beat' = Throttle + 1
    /\ silent' = IF holder = Nobody THEN silent ELSE IdleTimeout
    /\ lost' = FALSE
    /\ due' = FALSE
    /\ run' = CASE Executing                      -> Leaving("orphan")
                [] run.pc \in {"list", "release"} -> NoRun
                [] OTHER                          -> run
    /\ batched' = (batched /\ run.pc \notin {"list", "release"})
    /\ crashed' = FALSE
    /\ spoiled' = FALSE
    /\ UNCHANGED <<holder, idle, app, log, runs>>

\* recover, beside the requests: the run that was executed has failed, and then its
\* batch is given up like any other.
Recover ==
    /\ At("orphan")
    /\ run' = Leaving("list")
    /\ UNCHANGED <<lease, call, phone, runs>>

-----------------------------------------------------------------------------
Serve(c) ==
    \/ \E u \in Users : \/ ToolRelease(c, u) \/ AgentDevice(c, u) \/ WaitRun(c, u)
                        \/ HeldDevice(c, u)
    \/ Forget(c) \/ AgentBeat(c) \/ Heartbeat(c)
    \/ Launch(c) \/ Stop(c) \/ Uninstall(c) \/ Gesture(c) \/ Shell(c)
    \/ ReadLogs(c) \/ WipeLogs(c) \/ ToolInstall(c) \/ Install(c)

Execute ==
    \/ RunDevice \/ ClearLogs \/ RunInstall \/ TestApk \/ Settle \/ Attempt
    \/ Dump \/ Wipe \/ Verdict \/ EndRun \/ ListBatch \/ ReleaseBatch \/ RunBeat \/ EndContext

Next ==
    \/ \E c \in Callers : Serve(c)
    \/ \E u \in Users : ToolReserve(u) \/ Release(u)
    \/ \E u \in Users, kind \in Kinds : \/ CreateRun(u, kind)
                                       \/ ToolStartRun(u, kind) \/ Rerun(u, kind)
    \/ ReapSelect \/ ReapRelease \/ Tick \/ CreateUpload \/ Overwrite
    \/ Execute \/ Crash \/ Restart \/ Recover

Spec == Init /\ [][Next]_vars

-----------------------------------------------------------------------------
(* Properties                                                              *)

\* An agent that keeps calling tools keeps its phone: the lease is never idle
\* for longer than the agent has been silent, give or take the throttle
\* (mcp.go:82), although the stamp that throttles is the phone's and not the
\* holder's, survives the lease, and is written before the renewal is.  Except:
\* while a call is between the two, and when the renewal the stamp stands for
\* was refused or failed, which nobody notices.
KeptAlive ==
    \/ holder = Nobody
    \/ idle <= silent + Throttle
    \/ lost
    \/ \E c \in Callers : call[c].pc \in {"beat", "renew"}

\* A smoke run passes only if its build is the one on the phone, runs, and has
\* not crashed between its installation and the reading of its log, whoever else
\* touches the phone meanwhile, and although it comes up again after a crash.
\* Except when somebody has emptied the log or replaced the build under the run,
\* or the run could not read its log: the verdict is "passed" then, too.
CleanPass ==
    [][(run'.verdict = "passed" /\ run.verdict = "none" /\ run.kind = "smoke")
        => \/ spoiled
           \/ ~crashed /\ app = [build |-> "run", alive |-> TRUE]]_vars
=============================================================================
