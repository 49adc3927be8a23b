# A TLA+ model of poligon

poligon is a farm of Android and iOS phones behind one Go process. People,
agents and CI jobs reserve phones over HTTP or MCP, install builds, watch
screens, and submit automated test runs. State that must survive lives in one
SQLite database behind one connection; everything else is goroutines that read
and write it without a common lock. This directory models the parts of the
program where that matters, checks them with TLC and proves the central ones
with TLAPS.

## 1. Inventory

| component | code | state | operations | hard because |
|---|---|---|---|---|
| reservations | `internal/reserve` | table `reservations`, `devices.status` | Reserve, ReserveMany, Heartbeat(Batch), Release(Batch), ReapExpired | checks outside transactions, lists taken before loops, timeouts, restarts |
| device pool | `internal/devices` | `devices.status`, flap history, `heldSince` | poll, auto-registration, upgrade of pending rows, spec refresh | reads long before it writes; competes with every other writer of the status |
| test runner | `internal/runner`, `store/runs.go` | tables `runs`, `run_devices`, wake channel, cancel functions | Submit, scheduler loop, execute, runDevice, Cancel, recover | one scheduler, parallel workers, crashes, leases that end meanwhile |
| accounts | `internal/auth`, `store/auth.go` | users, sessions, one-time links, API tokens, limiter | Register, Login, SetPassword, ChangePassword, Logout, middleware | check-then-act, sliding expiry, lockout |
| adb tunnels | `internal/adbfilter`, `api/debugtunnel.go`, `store/adbtunnel.go` | a listener and an allow list per user, ports | Ensure, SetAllowed, sync on each reservation change | list read and applied in two steps |
| provisioning | `internal/provision` | one job per device, ports, helper processes | Start, run, adopt, Resume, RestartScreen, ReapOrphans, Shutdown | long jobs, renames, restarts |
| iOS screens | `internal/iosscreen` | one upstream stream per device and its viewers | Subscribe, Close, idle stop, stall detection | references to replaced streams |
| supervision | `cmd/poligon` | restart budgets | reap loop, watchdog, adb guard, shutdown | rate limits, loops on a dead server |
| API, MCP | `internal/api` | staged uploads, the agents' renewal stamps | handlers of all of the above | a check of the holder long before the work it admits; a stamp per phone and not per holder |
| executors | `runner/maestro.go`, `command.go`, `integration_test_run.go`, `crash.go` | the app and the log buffer of a phone, which are not theirs alone | install, run, read the log, judge | everybody else's tools work on the same app and log |
| device I/O, pages, config | `adb`, `ios`, `install`, `capture`, `live`, `uitree`, `webui`, `config` | none | external commands, byte streams | outside a model of control, but for the log buffer that a reader empties |

How they interact: the API calls reservations, the runner and the installers;
the runner books and releases batches; the poll asks reservations whether a
device is held; poll, reservations, installers and runner all write
`devices.status`. The reservation row is the truth about who holds a device,
the status is a cache of it that anybody writes. The poll and the provisioning
jobs write the same rows of `devices`; the watchdog, users and a restart start
the same jobs; the sweep of `reapLoop`, the requests and a restart write the same
allow lists; the host's commands write the accounts from another process.

What makes each part correct: a device has one holder; a booking is atomic; a
lease ends for a reason; no lease outlives the cap; the status of a device
follows its lease and its cable; a submitted run ends once with a settled
result, gives its batch back, and is not delayed by a lost signal; no
reader of a device's screen is forgotten, it ends when nobody watches, and a screen
shows its own device and no other; a phone's name is for good, and a phone that is plugged in
gets one; a developer's tunnel follows their leases on a port that never changes;
a change of password ends the sessions there were, and what is revoked stays
revoked; an agent that keeps calling keeps its phone; a smoke run that passes ran
its own build, which is up and has not crashed.  Where the code keeps less than that,
section 3 says so and the properties name the exception.

`PROJECT.json` lists every component (also those left out, with the reason) and
the hazards, each at its line with the properties that watch it.

## 2. Modules

| module | what it is |
|---|---|
| `Lease` | what reservations promise: bookings of unheld devices in one step, ends of single leases |
| `Reservations` | `reserve.go` statement by statement; implements `Lease` |
| `ReservationsProofs` | the proofs about it |
| `DevicePool` | one device and every writer of its status |
| `RunQueue` | what the runner promises of runs: they begin in order, one at a time, and end once |
| `Runner` | submission, scheduler, execution, recovery; implements `RunQueue` |
| `RunnerProofs` | proofs: settled and final results, no lost wake-up, `Lease` and `RunQueue` refined |
| `Screen` | the streams of one iOS device and their viewers |
| `ScreenProofs` | proofs: every reader is known, no sleeper left behind, counts in bounds |
| `Accounts` | one account: logins, sessions, links, tokens, the limiter, the host's commands |
| `AccountsProofs` | proofs: changes end sessions, the lock holds, sessions end |
| `Registry` | the rows of phones: the poll against the jobs that adopt them |
| `RegistryProofs` | proofs: names are for good, rows are bounded |
| `Wda` | WebDriverAgent on iPhones: jobs, ports, endpoints, the watchdog |
| `WdaProofs` | proofs: no port of two phones, no screen of another but for Resume's late write, ports pass through free |
| `Tunnels` | the developers' adb tunnels and everything that brings them up to date |
| `TunnelsProofs` | proofs: ports for life, no tunnel on another's port, `Lease` refined |
| `Phone` | one Android phone under an agent, the dashboard and a run: composes the lease, the app, the log and the executor |
| `PhoneProofs` | proofs: calling agents keep their phones, passes are clean, `Lease` refined |
| `MCReservations`, `MCRunner`, `MCAccounts`, `MCPhone` | instances for TLC: the symmetry sets |
| `MCWda` | an instance for TLC with two histories: phones being adopted, and a server that starts again while it serves them |

### Reservations

`rows` are the active rows of the table, `status` the column of the devices. A
statement or transaction is one step because the store has one connection.
`Reserve` is its check (`Reserve`) and its transaction (`Book`); `ReserveMany`
takes the clock, reads the devices one at a time (`CheckDevice`) and shares
`Book`, which either inserts all rows and writes all statuses or, when the
unique index refuses one, nothing. `Release` is one transaction (`EndLease`).
`ReleaseBatch` and `ReapExpired` select first (`ReleaseBatch`, `ReapSelect`) and
then release device by device (`ReleaseNext`, `ReapNext`), as admin where the
code does. `SetDeviceStatus` lets the rest of the program write any status at
any time, so no property of leases depends on it. `Restart` drops what requests
and the reaper were doing. Bounds: `Batches` (bookings), `MaxTime`,
`MaxRestarts`.

### DevicePool

One device. `poll` is the poll in progress: `PollRead` samples the link and the
status and does the bookkeeping of `isFlapping` and `heldOfflineTooLong`, which
only the poll goroutine touches; `PollAsk` is the query of the reservations for
a device that is back; `PollWrite` writes the decision. Time is in poll
intervals and only ages are kept: `changes[i]` is the age of the i-th latest
change of connectivity, so three changes within the window is
`changes[3] < FlapWindow`, exactly the length test of the code. `since` is the
entry of `heldSince`. A device the adb server does not report, because it is
unplugged or because the server hangs, is `link = "gone"`: the poll cannot tell
them apart. Installs and tests are `job`s: admitted while the device is held,
started and ended later, writing statuses blindly as the code does. Polls do
not read the clock twice, so a tick between the steps of one poll changes
nothing.

### Runner

`lease` is the abstract lease table (what `Lease` promises, refined by
`Reservations`) with an idle age; `run` and `verdict` are the two tables of the
runner; `sub` is a request inside `Submit`, one step per query or transaction;
`sched` is the scheduler goroutine from recovery through the queue to the
release of a batch. The heartbeat of an executing run is part of `Tick`, since a
tick stands for much more than 45 s. An executor is a choice of verdict:
"canceled" is possible whenever the device's context ended, by a cancel or by
its own timeout, and the code treats both alike. Statements on existing rows
succeed; `CreateRun` may fail. `Crash` empties the memory of the process; `cut`
remembers runs whose release the crash prevented. Bounds: `MaxRuns`,
`MaxCrashes`.

`sched` passes through `drained` between finding the queue empty and waiting:
that is where a signal without the channel's buffer would be lost.

`RunQueue` has only the status of each run. `FollowsQueue` says that `Runner`
implements it, reading the status off the table. Runs are numbered in the order of
their rows: `created_at`, by which `QueuedRunIDs` sorts, is taken inside the
transaction of `CreateRun`, and the one connection admits one at a time. (A wall
clock set back would change the order; the model's clock does not go back.)

### Screen

The streams of one device (`stream`), the one in `c.streams` (`listed`) and the
requests that watch (`viewer`). A stream is open, failing (an error that viewers
get until the next frame) or closed, and its `pump` reads, has been canceled and
may still read, or is off: closing a stream and ending its reader are two things.
`Subscribe` and `Join` are the two halves of Subscribe, between which the stream
found may be closed, since `c.mu` is held but `s.mu` is not; `Look` and `Sleep`
are a round of the loop of `Next` and its wait, with `s.mu` held in between, and
`Write` is a round that finds a frame. `Leave` is Close. The idle callback is three
steps: `StopIfIdle` closes the stream under `s.mu`, `Cancel` cancels its pump without
a lock, `Unlist` takes it from the map under `c.mu`. `Configure` is Set or Unset,
which closes and cancels while it holds `c.mu`. `Publish` and `Fail` are the pump,
also one that was canceled while it had a frame in hand, and `PumpEnds` is its end:
reading, scanning for frames, stall timer and backoff only decide
which comes when. What a frame shows, its age, and which endpoint a stream reads
are abstracted; a joining viewer may or may not find a frame. A stream that is
closed and unlisted is looked at by nobody, so its count is reset, and the
number of a stream to which nobody refers is used again: the run is not bounded
in the number of streams, only in how many are referred to at once
(`MaxStreams`) and in idle callbacks under way for one (`MaxFired`).

### Accounts

One account, so that the tables become a record (`account`), a function of
session names (`session`: the ages that `expires_at` and `created_at` come down
to), a set of links and a flag for a token; `bucket` is the limiter's entry for
the account. A handler is the sequence of its statements: `LoginUser`,
`LoginPassword`, `IssueSession` are the two queries and the insert of Login;
`FromSession`, `CookieOwner`, `CookieTouch` the queries and the update of
fromSession; `ChangeStore`, `ChangeRevoke` the two writes of ChangePassword, and
so on. `cli` is the host's command, a process of its own that does the same with
the same tables and may die in between (`CommandDies`). A password is right or
wrong; a right one needs a stored hash. `owed` remembers which sessions a change
has to end: those alive when the account was written. It is dropped when the
process dies between the two writes, since nobody then comes back to revoke
them. The first window of a session is the idle timeout as it is
(`auth.go:272`); only the later ones are cut down to the cap. `bucket.over`
counts the failures that follow a lock. Bounds: two requests in flight, two
session rows, one link, an idle window of 1 and a cap of 2 ticks, a lock at 2
failures; names of sessions and links are used again once no request in flight
carries them.

### Registry

`row[id]` is the phone in row `id`; ids are the proper names, which compete
because all phones are of one model, and the provisional `pending-` ids. `poll`
is one pass of `pollOnce`: it reads adb's list and the pool once (`PollRead`) and
works from them (`UpgradeCreate` and `UpgradeDelete` are the two statements of
upgradePending, `AutoRegister` the insert of autoRegister). `job[id]` is an
adoption: it waits for the phone (`Authorized`), asks which names are taken
(`ChooseName`), and renames and flags the row (`RenameDevice`, `SetAdopted`).
Bounds: two phones, one pulled cable, two jobs, one crash; there are more names
than rows can ever be.

### Wda

`procs` and `listener` are the ports that are reserved and those that are
forwarded, `endpoint` is the memory of the screen controller, `screen` the table
`ios_screen`, `job` the goroutine that works on a phone. `StopWDA` and `FreePort`
are the two halves of stopWDA, between which the lock is free. `dead` are the
screens somebody watches without getting a frame, StreamDead, for which `Stall` and
`Flow` stand: a screen is `Healthy` when something answers /status and its stream is
not dead (`watchdog.go:65-67`). `Watch` is the watchdog's look at one row,
`WindowEnds` its ten minutes, `RestartScreen` what it and the users share. `Restart`
is the end of the process with ReapOrphans and Resume, whose loop drops the
endpoints and starts the jobs. A job of Resume is done when WebDriverAgent answers
(`Probe`), and its goroutine sets the endpoint and the row after that: `resumed` is
what it has still to write (`ResumeSet`, `ResumeRow`), and another job of the same
phone may have begun by then. `late` remembers for which phones it wrote over such
a job, until that one sets an endpoint of its own. Faults are phones that lose
WebDriverAgent or their cable, streams that freeze, and builds and registrations
that fail. Phones have their names before they are adopted, as the
poll gives them to every iPhone it can read. Bounds: two phones, three ports, one
healing per window, and one fault and one user's restart on the way of an adoption,
or one restart of the server; `MCWda` has both histories, which `Wda` reaches.

### Tunnels

`port` is the table, `listening` and `allowed` the filter's memory. A sync is a
process with a program counter: it reads the holder of each device (`ReadHolder`),
its port (`ReadPort`, `PickPort`, `InsertPort`: two queries and an insert that the
table's constraints may refuse), opens the listener (`Ensure`) and writes the list
(`SetAllowed`). Requests sync the user they are of; the sweep syncs every user that
has a listener or a lease, one after the other; the leases themselves also change
where no tunnel is synced (`Elsewhere`). A restart keeps the table and syncs
everybody before it serves. Bounds: two users, one phone, one request at a time
beside the sweep, one crash.

### Phone

The composition of what the other modules take apart, for one phone: the lease
with the age of its renewal, the app (`app`: whose build, and whether it runs),
the log buffer (`log`: does it hold a crash of the run's build), requests that
checked the holder once and then take their time (`call`), and the executor of a
run of any kind (`run`, one step per command on the phone). `AgentBeat` is the
look at the stamp under the lock and `Heartbeat` the renewal after it. What the
build of a run may have become before it is installed is in `run.src`; a request
of the same second may write over it at any time until then, since it may have to
download its own. `ReapSelect` marks the lease the reaper has selected (`due`), and
`ReapRelease` ends later whatever lease there is: the hard cap, for which no age is
kept, makes any lease selectable. `EndRun` gives the result, and the batch is given
back in two more steps, `ListBatch` and `ReleaseBatch`, which may end a lease that
began in between. A restart starts recovery, which marks the run an error and
releases its batch in the same two steps beside the server; the batch of a run that
had its result before the crash is left to the reaper. The
histories are for the two properties: `silent` and `lost` for the agent's lease,
`crashed` and `spoiled` for the run's verdict. Bounds: two users, one request at a
time beside the run, one run, throttle 1 and idle timeout 2 ticks of 30 seconds.

## 3. Runs

| run | instance | shows |
|---|---|---|
| `reservations_race` | 2 devices, users, requests, batches; 1 restart; symmetry | exclusive leases, atomic bookings, no foreign release, refinement of `Lease` |
| `reservations_expiry` | 2 devices, 1 user, time to 3, cap 2, idle 1 | the hard cap ends every lease |
| `device_pool` | install and test jobs, flap limit 3 within 3 polls, grace 2, 1 restart | the status follows lease and cable in the end |
| `runner_outcome` | 2 devices, 1 run, 1 slot, 2 crashes, symmetry | results, device rows and batches agree |
| `runner_queue` | 1 device, 2 runs, 2 crashes | one at a time in the order of submission (refinement of `RunQueue`), no lost wake-up, final results, every run ends |
| `runner_timeout` | violation | a run that timed out is passed |
| `screen` | 2 viewers, 2 streams referred to at once, 1 idle callback per stream | no reader is lost, no sleeper on a stopped stream, viewers return, unwatched streams stop |
| `accounts` | 2 requests, 2 sessions, 1 link, symmetry | changes end sessions, a lock lets nobody new in, sessions end for good and in time |
| `registry` | 2 phones, 2 jobs, 1 unplugged cable, 1 crash | names are stable, rows bounded, a plugged phone gets its name |
| `wda` | 2 phones, 3 ports, 1 healing; adoption with 1 fault and 1 request, or 1 restart of the server | no cross-talk between screens but for Resume's late write, dead and frozen screens come back |
| `tunnels` | 2 users, 1 phone, 1 request, the sweep, 1 crash | ports for life, lists follow leases |
| `phone` | 2 users, 1 request, 1 run of each kind, symmetry | a calling agent keeps its lease, a passed smoke run is a clean one |

Why the bounds suffice: the races are between two actors over one or two
devices (a booking of one against a batch of two is the smallest case in which
atomicity can fail); a third device or user only repeats them, and for the safety
properties the proofs cover all sizes. In `device_pool` the flap limit is
the code's 3; window and grace are scaled down but keep their order of
magnitude in polls relative to the limit (a window that holds exactly three
changes, a grace of more than one poll). Two crashes let recovery itself be
interrupted. Two viewers and two streams are the least with which a viewer can
hold a stream that another one has replaced; `NoLostReader` is proved for all.
Two requests are the least with which a revocation meets a login or a touch in
flight, and a limiter of two failures the least that both counts and locks. Two
phones of one model compete for one name, and two phones over three ports for one
port. Two users suffice for a port and for a lease that passes from one to the
other. On one phone a single request beside the run already meets every step of
the run; with three requests and no run `KeptAlive` has been checked as well.

Deadlock checking is off where a bounded model may stop: when the bounds on
bookings, runs, time and restarts are used up there may be nothing left to do. In
`wda` that is a phone on the farm without a row in `ios_screen` (below) when the
users' restarts are used up.

### What the code does, met on the way

One disagreement with the code's own texts is a finding, shown by `runner_timeout`:
a run whose devices timed out is stored as passed. The first two below are against a
comment as well, for a moment, and the rest contradicts no doc,
comment or test; properties are stated so that these cases stay visible:

* `stream.go:221`: between closing an idle stream and canceling its pump (`:225`),
  a viewer may start the next one, and two connections read the device, which
  `stream.go:19` ("exactly once") rules out. `NoLostReader` and
  `UnwatchedStreamsStop` say that the first one ends.
* `ios.go:259`: Resume marks its job done before it sets the endpoint and the row.
  A restart of the screen that begins in between unsets the endpoint ("don't serve
  the old endpoint while rebuilding", `ios.go:316`) and gives the port up, and then
  Resume restores both: the port may be another phone's by then (`late`).
* `reserve.go:244`, `:364`: ReleaseBatch and the reaper release by device what
  they listed as leases, and may end a lease that began, or was renewed, meanwhile.
* `devices.go:149`: the poll's write-back may leave `reserved` on a device nobody
  holds until a lease of it ends. `devices.go:270`: an entry of `heldSince`
  survives the lease it is about and shortens the next holder's grace.
* `runner.go:233`: a queued run's batch is not renewed until the run starts.
* `stream.go:199`: a viewer of a replaced stream discounts the new one, which may
  stop under its viewers.
* `auth.go:233`: a login under way across a change of password, a reset or a
  disabling issues its session after the revocation. `auth.go:186`: a one-time
  link works twice if both requests look it up before one spends it.
  `auth.go:378`: a touch that comes late reopens a session whose idle window has
  passed meanwhile, though no revoked one and none past its cap. `auth.go:272`: the
  first window is not cut down to the cap, which matters when the idle timeout is the
  longer of the two.
* `provision.go:169`, `:178`: a rename of no row succeeds and the job then marks
  whatever row has the name as adopted; the job is reported done.
  `devices.go:254`: a phone may have two rows after a race with a job or a crash
  (`RowsAreBounded` says how many).
* `watchdog.go:67`: the watchdog asks the address in `ios_screen`; when that port
  has gone to another phone, a dead screen looks healthy (`Masked`).
  `ios.go:365`: ports are freed after the lock is let go. `ios.go:72`: a crash
  before the row is written leaves a phone the watchdog never looks at.
* `mcp.go:109`: the stamp that throttles renewals is the phone's; a renewal that
  fails or is refused is not tried again within the throttle (`lost`).
* `adb.go:531`: every reader empties the log, so what a smoke run scans may be
  what others left; `runner.go:460`: a log that cannot be read counts as clean;
  `runs.go:55`: uploads of the same second share a directory, also while one of
  them downloads (`spoiled`).
  `uploads.go:101`: the sweep takes staged builds that a queued run refers to,
  which then ends as an error.

## 4. Fairness

* `Reservations`: the reaper's two steps are weakly fair; `reapLoop` runs in a
  goroutine of its own for the life of the process, once a minute.
* `DevicePool`: the poll's steps and the clock; `Manager.Run` polls on a ticker
  and its calls to the device tools have timeouts. Nothing is assumed about
  requests, jobs, releases or the cable.
* `Registry`: the poll's steps, for the same reason. Jobs are not fair.
* `Wda`: every job's steps (external commands that return or time out), what a
  goroutine of Resume has still to write, and the watchdog's look at each row and
  its window, by a ticker of 30 seconds.
* `Tunnels`: the steps of a sync, the loop of ReleaseBatch and the sweep, which
  `reapLoop` runs every minute. Requests and leases are free.
* `Accounts` and `Phone` state no fairness: their properties are safety.
* `Runner`: the scheduler goroutine, and every device's executor returns, since
  its context ends at the device's timeout. Users are not fair: nobody has to
  submit, renew or release.

* `Screen`: a viewer that has subscribed goes on to its wait or its Close, and an
  idle timer fires and its callback runs. These steps take a mutex others take
  too, and `sync.Mutex` hands itself over to a waiter that starves, which is
  strong fairness. The pump of an open stream publishes or fails within the stall
  timeout and the backoff; a device may fail for ever. A callback goes on to cancel
  its pump, and a canceled pump ends: its request and its backoff watch the context. Nothing is assumed of
  slow clients (until they are gone), of disconnects, of endpoints, and of the
  broadcast for a canceled context, which can be lost: viewers return without it.

## 5. Proofs

`ReservationsProofs` proves for all devices, users, requests, batch ids, times
and timeouts:

* `TypeCorrect`: `[]TypeOK`, by one lemma with a step per action (`TypeStep`).
* `ExclusiveLease`: `[]OneLeasePerDevice`. The invariant is inductive together
  with the type invariant: rows are only added by `Book`, guarded by the index
  and at most one per device of a request (`InsertedRows`), and renewal maps the
  rows of a device to rows of the same device (`RenewedRows`).
* `BookingIsAtomic` and `OnlyOwnLeasesEnd`: the action properties, from
  `RowSteps`, which says what each action does to `rows`.
* `ReservationsImplementLease`: `Spec => Promise!Spec`. The mapping reads the
  holder off the row; it needs `OneLeasePerDevice` to make that well defined.
  Renewals stutter (`RenewalKeepsHolders`), a booking is `Acquire`
  (`BookingAcquires`), a release `Drop` or a stutter (`ReleaseDrops`).
* `ReservationsAreSound`: what a row says of its booking is true, although the
  booking read the devices before its transaction. The invariant is `BookingInv`:
  `BookingsCheck` says what a request in flight has established of the devices it
  has read (`BookingSteps`), `RowsAreSound` and `BookedTogether` what that leaves in
  the table (`WhereRowsComeFrom`); that a batch id is one booking rests on every row's
  id being among those issued.
* `HeartbeatsKeepTheCap`: no step moves `created`, from which the cap counts. It
  needs one lease per device and used-up batch ids, without which a later booking
  of the device could be taken for the earlier one. It is the safety half of
  `CapEnforced`, whose other half, that the reaper comes, is liveness.
* `StatusFollowsLeases`: how the status column changes when a lease begins, when it
  ends, and when neither happens. This is what `Book` and `Release` of `DevicePool`
  take from the service; its other writes are the ones `Reservations` leaves open.

The invariants of the other components are seldom inductive either. Each proof
module defines the conjunction that is (`IInv`; `ViewInv` on top of it for
`Screen`), of named parts, and proves it part by part; an "only these steps write
it" lemma (`RowWriters`, `JobWriters`, `PollWriters`...) leaves the steps that
matter. What the types do not say:

| module | theorems | the inductive invariant, beside `TypeOK` |
|---|---|---|
| `ScreenProofs` | `ReadersAreKnown`, `SleepersAreWoken`, `Typing` | `Known`: a pump that goes on is the listed open stream's, or the callback that closed its stream has still to cancel it; a stream with a callback past the closing is closed. `ViewersKnow`: who is about to join has the map locked, so its stream is the listed one; who has found nothing new has the stream locked, so it is open. `CountsFit`: the listed stream's count is at least minus the viewers outside and at most the others, although viewers of a replaced stream discount it |
| `RunnerProofs` | `RunsFollowQueue`, `OneAtATime`, `EndedAreSettled`, `PassedHaveNoFailure`, `EndedHoldNothing`, `WakeupsAreKept`, `FinalResults`, `LeasesAreLeases`, `Typing` | `RunningIsKnown`: the rows marked running are those the scheduler executes or has to recover. `RunsHaveDevices`, `SubmissionKnows`: what a run and a request have in the tables. `BatchesAreKnown`: a batch that nobody knows of was booked just before a crash, so there is always a fresh one. `QueuedIsAnnounced`: `NoLostWakeup`, already between the query that finds nothing and the wait. `InOrder`: runs are created in order, none after a run that has not ended has begun, and the one about to begin has only ended runs before it |
| `AccountsProofs` | `ChangesEnd`, `LocksHold`, `SessionsDoEnd`, `Typing` | `WindowsEnd`: a live session's window ends by its cap, or by its first window if that is longer. `OwedIsPending`: a session that must end and is alive is one that some change has still to revoke. `GuessesAreCounted`: a failure after the lock is of a request that passed the check before, and the one that set the lock is not among them |
| `RegistryProofs` | `NamesAreForGood`, `FewRows`, `Typing` | `PollKnows`, `JobKnows`: what a pass and a job found is still so where they rely on it. `NamesSuffice`, `NamesAreFew`: the names given and those to come are two for each phone and one for each crash, in all and for each |
| `WdaProofs` | `NobodySeesAnother`, `PortsPassThroughFree`, `Typing` | `PortInHand`: a job has in hand the port its phone holds. `EndpointIsHeld`: a phone of the farm is looked for at its own port, and nowhere while it is rebuilt, unless Resume wrote over that. `ListenerHolds`: a port is forwarded to the phone that holds it |
| `TunnelsProofs` | `PortsForLife`, `PortsArePrivate`, `LeasesAreLeases`, `Typing` | `SyncsKnow`: the port that a sync read or took is its user's until it is done, and the listener it gives a list is open. `PortsDiffer`: the table's unique constraint |
| `PhoneProofs` | `AgentsKeepTheirPhones`, `PassesAreClean`, `LeasesAreLeases`, `Typing` | `StampRenews`: the stamp that throttles renewals stands for one that was sent, that a call has still to send, or that was lost. `CrashIsSeen`: a crash is in the log until it is read and in the result from then on. `BatchHasRun`, `TriesAreCounted` |

Of these, some arguments are worth following:

* `RegistryProofs`. `RowsAreBounded` counts rows a phone has, and no step on its
  own shows that it cannot get another. `First` and `Second` are the phones that
  may still be given a name, and those that may be given two: a phone without a
  name, or with a provisional row that no upgrade is about to delete. Every step
  keeps both (`Keeps`), gives one name to a phone that has one less to come
  (`Gives`), or is a crash (`Dies`), after which the phone between the two
  statements of `upgradePending` has one more to come (`StepKinds`,
  `CountStep`). The sum over all phones is also why `UniqueID` always finds a
  name (`NameIsFree`, `FirstFree`), which the types need.
* `RunnerProofs`. That the results of a run are final, and that it never holds
  devices after its end, depend on which rows the scheduler believes to be
  running at each point of its loop; `RunningIsKnown` says that it is right.
  `LeasesAreLeases` here, in `TunnelsProofs` and in `PhoneProofs` show that the
  three modules that have leases of their own change them only as `Lease` allows,
  the promise that `ReservationsImplementLease` proves of the service: they assume
  no lease to begin or end in a way the service excludes.
* `RunsFollowQueue`. A crash leaves a run marked running while later ones are
  queued, and recovery ends it only after other statements. That `Begin` never finds
  such a run needs `RunningIsKnown` (when the scheduler scans, nothing is marked
  running) together with `InOrder`; `LeastNumber` gives the oldest queued run, and
  `RunWriters` the few steps that touch the table of runs at all.
* `PhoneProofs`. The lease of the phone is ended by whoever comes first, the reaper,
  a late release of a batch, recovery; `KeptAlive` does not depend on who did, only
  on the throttle being the shorter of the two times (`PhoneAssumption`).
* `WdaProofs`. Jobs hold the port of their phone from the reservation to the row,
  except those of Resume, which hold it only up to the probe. What such a goroutine
  writes is either the port its phone still holds, or it wrote over a newer job
  (`late`): the theorems are about everything else.
* `AccountsProofs`. `LockHolds` counts attempts after the lock with the requests
  in flight (`Guessing`); `GuessesAreCounted` is the strict inequality that the
  request whose failure set the lock gives away.
* `ScreenProofs`. No lock is a variable; which steps it excludes is in their
  guards (`MapFree`, `Free`), and `OthersWake` uses exactly these: a stream is
  stopped only when nobody is between the check and the wait on it.

The assumptions are those the modules declare for their constants, and TLC
evaluates them: the kinds of the bounds and time-outs, names for "nobody" that
are nobody, and, where the proofs count, finite sets of phones, ports, viewers
and requests in flight (`AccountsAssumption`, `RegistryAssumption`,
`ScreenAssumption`, `WdaAssumption`). `WdaAssumption` has more ports than phones,
as `freePort` tries 500 of them, and `PhoneAssumption` a throttle shorter than the
idle timeout, as the code's 30 s are beside the 15 minutes of the configuration.

Model-checked only are the liveness properties, which this prover cannot reach
(`CapEnforced`, `HeldComesBack`, `DegradedRecovers`, `AbsenceShows`,
`SubmittedRunsEnd`, `GoneViewersReturn`, `UnwatchedStreamsStop`,
`PluggedGetsName`, `ScreensComeBack`, `FollowsLeases`), and the types of
`DevicePool`, whose other properties are of that kind too: no run checks a safety
property of it beyond its types, which come down to the bounds of its ages. Every other safety
property that a run checks and finds to hold is a theorem. For the liveness
properties the theorems give the part that is safety: `HeartbeatsKeepTheCap` for
the cap, `QueuedIsAnnounced` and `RunsFollowQueue` for the runs,
`SleepersAreWoken` for the viewers.

## 6. Not modelled, and the plan

What is left to model first is `Screen` with endpoints told apart: which
WebDriverAgent a new stream reads when the endpoint changes during Subscribe.

Not modelled, of the parts that are:

* iPhones adopted under a provisional id: their processes are kept under two keys
  until the job has re-keyed them; the poll names every iPhone it can read before.
* The moment in which a start of the server still shows the endpoints of the table
  before Resume drops them (`main.go:114`).
* Listings of adb over a tunnel: `track-devices` tells a client of a change only
  when the upstream does, and a transport that is open outlives the lease.
* iOS branches of runs and tools, which drive WebDriverAgent.
* Failing database statements, except where a transaction has to undo them, where
  constraints refuse, and where an error is dropped and matters (`Heartbeat` and
  the log in `Phone`).

Left out altogether: the adb guard (counters nobody else touches, over programs
outside the repository), the callback of a run and its workspace, external
commands and what they do to a phone beyond its app and its log, byte streams
between phone and browser, pages, configuration, formatting.
