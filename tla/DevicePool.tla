----------------------------- MODULE DevicePool -----------------------------
(***************************************************************************)
(* One device of the pool and everything that writes its devices.status:   *)
(* the poll of internal/devices/devices.go, the bookings and releases of   *)
(* internal/reserve/reserve.go, the installers of internal/api and the     *)
(* runner's executors.  None of them looks at the status it overwrites.    *)
(*                                                                         *)
(* Time is in poll intervals and only ages are kept: of the device's last  *)
(* changes of connectivity, and of its first absence while it was held.    *)
(***************************************************************************)
EXTENDS Integers

CONSTANTS
    JobKinds,       \* which of install, batchInstall and test are at work
    FlapLimit,      \* changes of connectivity that make a device degraded (3)
    FlapWindow,     \* and the time within which they count (60 s)
    Grace,          \* heldOfflineGrace (90 s)
    MaxRestarts     \* bound on the number of times the process dies

HeldStatuses == {"reserved", "busy", "running"}
Statuses == HeldStatuses \cup
            {"offline", "unauthorized", "free", "degraded", "maintenance"}
Links == {"gone", "unauthorized", "ready"}

ASSUME DevicePoolAssumption ==
    /\ JobKinds \subseteq {"install", "batchInstall", "test"}
    /\ FlapLimit \in Nat \ {0}
    /\ FlapWindow \in Nat
    /\ Grace \in Nat
    /\ MaxRestarts \in Nat

VARIABLES
    status,     \* devices.status
    lease,      \* is there an active reservation of the device?
    booking,    \* has a request read "free" and not run its transaction yet?
    job,        \* job[k]: "none", "admitted" (its holder was checked), "working"
    link,       \* what adb or libimobiledevice would answer now
    due,        \* the poll ticker has fired
    poll,       \* the poll in progress
    seen,       \* flap.online, "never" before the first poll
    changes,    \* changes[i]: age of the i-th latest change; FlapWindow: too old
    since,      \* heldSince as an age, Grace + 1 when older; -1: no entry
    restarts

vars == <<status, lease, booking, job, link, due, poll, seen, changes, since,
          restarts>>
memory == <<poll, seen, changes, since>>

Resting == [pc |-> "idle"]
Polling == [pc : {"ask", "write"}, online : BOOLEAN, was : Statuses, next : Statuses]

TypeOK ==
    /\ status \in Statuses
    /\ lease \in BOOLEAN
    /\ booking \in BOOLEAN
    /\ job \in [JobKinds -> {"none", "admitted", "working"}]
    /\ link \in Links
    /\ due \in BOOLEAN
    /\ poll \in {Resting} \cup Polling
    /\ seen \in {"never", "present", "gone"}
    /\ changes \in [1..FlapLimit -> 0..FlapWindow]
    /\ since \in -1..(Grace + 1)
    /\ restarts \in 0..MaxRestarts

Init ==
    /\ status \in {"offline", "free"}
    /\ lease = FALSE
    /\ booking = FALSE
    /\ job = [k \in JobKinds |-> "none"]
    /\ link \in Links
    /\ due = TRUE
    /\ poll = Resting
    /\ seen = "never"
    /\ changes = [i \in 1..FlapLimit |-> FlapWindow]
    /\ since = -1
    /\ restarts = 0

-----------------------------------------------------------------------------
(* The poll.  adb and the pool are read once; the decision is written      *)
(* later, after the other devices' turns and, for a device that is back,   *)
(* a query of the reservations.  Runs in one goroutine, so seen, changes   *)
(* and since are its own.                                                  *)

\* isFlapping's bookkeeping: the change just seen becomes the latest one.
Presence(online) == IF online THEN "present" ELSE "gone"
Flaps(online) ==
    IF seen \in {"never", Presence(online)} THEN changes
    ELSE [i \in 1..FlapLimit |-> IF i = 1 THEN 0 ELSE changes[i - 1]]
Flapping(ages) == ages[FlapLimit] < FlapWindow

\* Variant: a degraded device waits for somebody to clear it.
Reconcile_Sticky(was, online, authorized) ==
    CASE was = "maintenance" -> was
      [] was \in HeldStatuses ->
            IF ~online /\ since > Grace THEN "offline" ELSE was
      [] was = "degraded" -> was
      [] OTHER -> IF ~online THEN "offline"
                  ELSE IF authorized THEN "free" ELSE "unauthorized"

\* reconcile, for a device that is not flapping and up to the query.
Reconcile(was, online, authorized) ==
    CASE was = "maintenance" -> was
      [] was \in HeldStatuses ->
            IF ~online /\ since > Grace THEN "offline" ELSE was
      [] was = "degraded" ->
            IF online /\ authorized THEN "free" ELSE was
      [] OTHER -> IF ~online THEN "offline"
                  ELSE IF authorized THEN "free" ELSE "unauthorized"

\* Variant: every poll that misses a held device starts its grace period anew.
HeldSince_Renewed(was, online) ==
    CASE was \notin HeldStatuses -> since
      [] online -> -1
      [] OTHER -> 0

\* heldOfflineTooLong's and clearHeldSince's bookkeeping: reached only for a
\* held device, and left as it is by everything else.
HeldSince(was, online) ==
    CASE was \notin HeldStatuses -> since
      [] online -> -1
      [] OTHER -> IF since = -1 THEN 0 ELSE since

PollRead ==
    LET online == link # "gone"
        authorized == link = "ready"
        ages == Flaps(online)
        flapping == Flapping(ages)
        asks == /\ ~flapping
                /\ status \notin HeldStatuses \cup {"maintenance", "degraded"}
                /\ authorized
    IN  /\ due
        /\ poll = Resting
        /\ due' = FALSE
        /\ seen' = Presence(online)
        /\ changes' = ages
        /\ since' = IF flapping THEN since ELSE HeldSince(status, online)
        /\ poll' = [pc |-> IF asks THEN "ask" ELSE "write",
                    online |-> online,
                    was |-> status,
                    next |-> IF flapping THEN "degraded"
                             ELSE Reconcile(status, online, authorized)]
        /\ UNCHANGED <<status, lease, booking, job, link, restarts>>

\* Variant: a device that is back is always free.
PollAsk_Free ==
    /\ poll.pc = "ask"
    /\ poll' = [poll EXCEPT !.pc = "write"]
    /\ UNCHANGED <<status, lease, booking, job, link, due, seen, changes, since,
                   restarts>>

\* isHeld: the device is back; is its lease still alive?
PollAsk ==
    /\ poll.pc = "ask"
    /\ poll' = [poll EXCEPT !.pc = "write",
                            !.next = IF lease THEN "reserved" ELSE "free"]
    /\ UNCHANGED <<status, lease, booking, job, link, due, seen, changes, since,
                   restarts>>

\* A decision that changes nothing is still written for an online device, to
\* bump last_seen.
PollWrite ==
    /\ poll.pc = "write"
    /\ status' = IF poll.next # poll.was \/ poll.online THEN poll.next ELSE status
    /\ poll' = Resting
    /\ UNCHANGED <<lease, booking, job, link, due, seen, changes, since, restarts>>

-----------------------------------------------------------------------------
(* Leases, as Reservations has them: a check, then a transaction.          *)

Reserve ==
    /\ ~booking
    /\ status = "free"
    /\ booking' = TRUE
    /\ UNCHANGED <<status, lease, job, link, due, memory, restarts>>

Book ==
    /\ booking
    /\ booking' = FALSE
    /\ lease' = TRUE
    /\ status' = IF lease THEN status ELSE "reserved"
    /\ UNCHANGED <<job, link, due, memory, restarts>>

\* By the holder, the runner or the reaper.
Release ==
    /\ lease
    /\ lease' = FALSE
    /\ status' = IF status \in HeldStatuses THEN "free" ELSE status
    /\ UNCHANGED <<booking, job, link, due, memory, restarts>>

-----------------------------------------------------------------------------
(* Installs and tests: the holder is checked first (or the runner books    *)
(* the device), the upload or the queue takes its time, then the work      *)
(* starts without another look.                                            *)

JobAdmit(k) ==
    /\ job[k] = "none"
    /\ lease
    /\ job' = [job EXCEPT ![k] = "admitted"]
    /\ UNCHANGED <<status, lease, booking, link, due, memory, restarts>>

JobStart(k) ==
    /\ job[k] = "admitted"
    /\ job' = [job EXCEPT ![k] = "working"]
    /\ status' = IF k = "test" THEN "running" ELSE "busy"
    /\ UNCHANGED <<lease, booking, link, due, memory, restarts>>

\* An install of one device leaves it busy.
JobEnd(k) ==
    /\ job[k] = "working"
    /\ job' = [job EXCEPT ![k] = "none"]
    /\ status' = IF k = "install" THEN status ELSE "reserved"
    /\ UNCHANGED <<lease, booking, link, due, memory, restarts>>

-----------------------------------------------------------------------------
(* The device's cable, the clock, and the end of the process.              *)

\* A device that comes and goes, and an adb server that does not answer: the
\* poll cannot tell them apart.
SetLink(l) ==
    /\ link' = l
    /\ UNCHANGED <<status, lease, booking, job, due, memory, restarts>>

\* Variant: nothing is ever too old.
Older_Unbounded(age, oldest) == age + 1
Older(age, oldest) == IF age < oldest THEN age + 1 ELSE oldest
Aged(age) == IF age = -1 THEN -1 ELSE Older(age, Grace + 1)

\* A poll interval passes; the ticker's channel holds one tick and drops more.
Tick ==
    /\ due' = TRUE
    /\ changes' = [i \in 1..FlapLimit |-> Older(changes[i], FlapWindow)]
    /\ since' = Aged(since)
    /\ UNCHANGED <<status, lease, booking, job, link, poll, seen, restarts>>

\* The database survives; the poll's memory, requests and jobs do not, and the
\* status a job would have set back stays.
Restart ==
    /\ restarts < MaxRestarts
    /\ restarts' = restarts + 1
    /\ booking' = FALSE
    /\ job' = [k \in JobKinds |-> "none"]
    /\ due' = TRUE
    /\ poll' = Resting
    /\ seen' = "never"
    /\ changes' = [i \in 1..FlapLimit |-> FlapWindow]
    /\ since' = -1
    /\ UNCHANGED <<status, lease, link>>

Next ==
    \/ PollRead
    \/ PollAsk
    \/ PollWrite
    \/ Reserve
    \/ Book
    \/ Release
    \/ \E k \in JobKinds : JobAdmit(k) \/ JobStart(k) \/ JobEnd(k)
    \/ \E l \in Links : SetLink(l)
    \/ Tick
    \/ Restart

\* Run polls for as long as the process lives, and time passes.
Fairness ==
    /\ WF_vars(PollRead)
    /\ WF_vars(PollAsk)
    /\ WF_vars(PollWrite)
    /\ WF_vars(Tick)

Spec == Init /\ [][Next]_vars /\ Fairness

-----------------------------------------------------------------------------
(* Properties                                                              *)

\* The device came back and its lease is alive: whatever flapping, grace
\* periods and stale writes did to its status, it ends up held for good
\* (devices.go: "a device that briefly dropped off USB mid-session returns to
\* reserved, not free").
HeldComesBack ==
    <>[](lease /\ link = "ready") => <>[](status \in HeldStatuses)

\* A device that stays connected and authorized leaves "degraded" for good: the
\* flaps that put it there leave the window, and nobody has to clear it.
DegradedRecovers ==
    <>[](link = "ready") => <>[](status # "degraded")

\* A device that stays away is shown offline (or degraded) again and again,
\* however often jobs, bookings and releases write over it.
AbsenceShows ==
    <>[](link = "gone") => []<>(status \in {"offline", "degraded"})
=============================================================================
