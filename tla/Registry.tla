------------------------------ MODULE Registry ------------------------------
(***************************************************************************)
(* How a phone gets its row in `devices`: the poll that registers whatever *)
(* is plugged in (internal/devices/devices.go) and the jobs that adopt a   *)
(* candidate (internal/provision: provision.go, android.go), which name    *)
(* the same rows at the same time.                                         *)
(*                                                                         *)
(* All phones are of one make and model, so that their names compete: name *)
(* n stands for base, base-2, base-3...  The provisional id "pending-xxxx" *)
(* of a phone is the phone itself.                                         *)
(***************************************************************************)
EXTENDS Naturals, FiniteSets

CONSTANTS
    Phones,
    Nobody,         \* the phone of no row
    MaxUnplugs,     \* bound on the times a cable is pulled
    MaxJobs,        \* bound on the adoptions started
    MaxCrashes      \* bound on the number of times the process dies

ASSUME RegistryAssumption ==
    /\ IsFiniteSet(Phones)
    /\ Phones \cap Nat = {}
    /\ Nobody \notin Phones
    /\ MaxUnplugs \in Nat
    /\ MaxJobs \in Nat
    /\ MaxCrashes \in Nat

VARIABLES
    cable,      \* cable[p]: how adb lists phone p
    row,        \* row[id]: the phone whose serial is in row id of `devices`
    adopted,    \* rows whose adopted flag is set
    poll,       \* the goroutine that polls
    job,        \* job[id]: the job started for row id
    unplugs, jobs, crashes

vars == <<cable, row, adopted, poll, job, unplugs, jobs, crashes>>

Names == 1..(2 * Cardinality(Phones) + MaxCrashes)
Ids == Phones \cup Names
RowsOf(p) == {id \in Ids : row[id] = p}
Used == {id \in Ids : row[id] # Nobody}
Named(p) == RowsOf(p) \cap Names # {}

NoJob == [pc |-> "none", phone |-> Nobody, new |-> 0]

\* taken: names the pass knows to be taken; upgrade, new: pending rows to replace
\* and phones to register; cur: the pending row to delete next.
Pass(pc, taken, upgrade, new, cur) ==
    [pc |-> pc, taken |-> taken, upgrade |-> upgrade, new |-> new, cur |-> cur]
NoPass == Pass("idle", {}, {}, {}, Nobody)

TypeOK ==
    /\ cable \in [Phones -> {"out", "unauthorized", "device"}]
    /\ row \in [Ids -> Phones \cup {Nobody}]
    /\ adopted \subseteq Used \cap Names
    /\ poll \in [pc : {"idle", "rows", "delete"}, taken : SUBSET Names, upgrade : SUBSET Phones,
                 new : SUBSET (Phones \X {"unauthorized", "device"}), cur : Phones \cup {Nobody}]
    /\ job \in [Ids -> [pc : {"none", "wait", "name", "rename", "adopt"},
                        phone : Phones \cup {Nobody}, new : Ids \cup {0}]]
    /\ unplugs \in 0..MaxUnplugs
    /\ jobs \in 0..MaxJobs
    /\ crashes \in 0..MaxCrashes
    /\ \A p \in Phones : row[p] \in {p, Nobody}

Init ==
    /\ cable = [p \in Phones |-> "out"]
    /\ row = [id \in Ids |-> Nobody]
    /\ adopted = {}
    /\ poll = NoPass
    /\ job = [id \in Ids |-> NoJob]
    /\ unplugs = 0
    /\ jobs = 0
    /\ crashes = 0

\* The first of base, base-2, base-3... that is not taken.
UniqueID(taken) == CHOOSE n \in Names \ taken : \A m \in Names \ taken : n <= m

\* Mutant: the row of whoever has the id is replaced.
CreateAutoDevice_Replace(id, p) == row' = [row EXCEPT ![id] = p]

\* INSERT ... ON CONFLICT(id) DO NOTHING.
CreateAutoDevice(id, p) == row' = IF row[id] = Nobody THEN [row EXCEPT ![id] = p] ELSE row

-----------------------------------------------------------------------------
(* The phones                                                              *)

Plug(p) ==
    /\ cable[p] = "out"
    /\ cable' = [cable EXCEPT ![p] = "unauthorized"]
    /\ UNCHANGED <<row, adopted, poll, job, unplugs, jobs, crashes>>

\* "Allow USB debugging", or a computer the phone remembers.
Allow(p) ==
    /\ cable[p] = "unauthorized"
    /\ cable' = [cable EXCEPT ![p] = "device"]
    /\ UNCHANGED <<row, adopted, poll, job, unplugs, jobs, crashes>>

Unplug(p) ==
    /\ cable[p] # "out"
    /\ unplugs < MaxUnplugs
    /\ unplugs' = unplugs + 1
    /\ cable' = [cable EXCEPT ![p] = "out"]
    /\ UNCHANGED <<row, adopted, poll, job, jobs, crashes>>

-----------------------------------------------------------------------------
(* The poll                                                                *)

\* Mutant: the phones that already have a row are registered again.
PollRead_Unknown ==
    /\ poll.pc = "idle"
    /\ poll' = Pass("rows", Used \cap Names,
                    {p \in Phones : row[p] = p /\ cable[p] = "device"},
                    {<<p, cable[p]>> : p \in {q \in Phones : cable[q] # "out"}}, Nobody)
    /\ UNCHANGED <<cable, row, adopted, job, unplugs, jobs, crashes>>

\* Mutant: a pending row is never replaced.
PollRead_Pending ==
    /\ poll.pc = "idle"
    /\ poll' = Pass("rows", Used \cap Names, {},
                    {<<p, cable[p]>> : p \in {q \in Phones : RowsOf(q) = {} /\ cable[q] # "out"}},
                    Nobody)
    /\ UNCHANGED <<cable, row, adopted, job, unplugs, jobs, crashes>>

\* adb's list and the pool are read once; everything after works from them.
PollRead ==
    /\ poll.pc = "idle"
    /\ poll' = Pass("rows", Used \cap Names,
                    {p \in Phones : row[p] = p /\ cable[p] = "device"},
                    {<<p, cable[p]>> : p \in {q \in Phones : RowsOf(q) = {} /\ cable[q] # "out"}},
                    Nobody)
    /\ UNCHANGED <<cable, row, adopted, job, unplugs, jobs, crashes>>

\* upgradePending, for a pending row whose phone has been authorized: the row
\* with the proper name first...
UpgradeCreate(p) ==
    LET id == UniqueID(poll.taken)
    IN  /\ poll.pc = "rows"
        /\ p \in poll.upgrade
        /\ CreateAutoDevice(id, p)
        /\ poll' = [poll EXCEPT !.pc = "delete", !.taken = @ \cup {id},
                                !.upgrade = @ \ {p}, !.cur = p]
        /\ UNCHANGED <<cable, adopted, job, unplugs, jobs, crashes>>

\* ... and then the pending row goes.
UpgradeDelete ==
    /\ poll.pc = "delete"
    /\ row' = [row EXCEPT ![poll.cur] = Nobody]
    /\ poll' = [poll EXCEPT !.pc = "rows", !.cur = Nobody]
    /\ UNCHANGED <<cable, adopted, job, unplugs, jobs, crashes>>

\* A phone that has no row: a pending one until it is authorized.
AutoRegister(p, st) ==
    LET id == IF st = "device" THEN UniqueID(poll.taken) ELSE p
    IN  /\ poll.pc = "rows"
        /\ poll.upgrade = {}
        /\ <<p, st>> \in poll.new
        /\ CreateAutoDevice(id, p)
        /\ poll' = [poll EXCEPT !.new = @ \ {<<p, st>>}, !.taken = @ \cup ({id} \cap Names)]
        /\ UNCHANGED <<cable, adopted, job, unplugs, jobs, crashes>>

PollEnd ==
    /\ poll.pc = "rows"
    /\ poll.upgrade = {}
    /\ poll.new = {}
    /\ poll' = NoPass
    /\ UNCHANGED <<cable, row, adopted, job, unplugs, jobs, crashes>>

-----------------------------------------------------------------------------
(* Adoption, one job per row id; a job that has ended makes room           *)

Start(id) ==
    /\ row[id] # Nobody
    /\ id \notin adopted
    /\ job[id].pc = "none"
    /\ jobs < MaxJobs
    /\ jobs' = jobs + 1
    /\ job' = [job EXCEPT ![id] = [pc |-> "wait", phone |-> row[id], new |-> 0]]
    /\ UNCHANGED <<cable, row, adopted, poll, unplugs, crashes>>

\* The job waits for adb to list the phone as authorized, 120 seconds at most,
\* and reads its specs; either may fail.
Authorized(id) ==
    /\ job[id].pc = "wait"
    /\ \/ /\ cable[job[id].phone] = "device"
          /\ job' = [job EXCEPT ![id].pc = "name"]
       \/ job' = [job EXCEPT ![id] = NoJob]
    /\ UNCHANGED <<cable, row, adopted, poll, unplugs, jobs, crashes>>

\* takenIDs is a query of its own; a row with a proper name keeps it.
ChooseName(id) ==
    /\ job[id].pc = "name"
    /\ job' = [job EXCEPT ![id] = IF id \in Phones
                  THEN [@ EXCEPT !.pc = "rename", !.new = UniqueID(Used \cap Names)]
                  ELSE [@ EXCEPT !.pc = "adopt", !.new = id]]
    /\ UNCHANGED <<cable, row, adopted, poll, unplugs, jobs, crashes>>

\* Renaming no row at all succeeds; renaming one to an id in use fails the job.
RenameDevice(id) ==
    LET new == job[id].new
    IN  /\ job[id].pc = "rename"
        /\ IF row[id] # Nobody /\ row[new] # Nobody
           THEN job' = [job EXCEPT ![id] = NoJob] /\ UNCHANGED row
           ELSE /\ job' = [job EXCEPT ![id].pc = "adopt"]
                /\ row' = IF row[id] = Nobody THEN row
                          ELSE [row EXCEPT ![new] = row[id], ![id] = Nobody]
        /\ UNCHANGED <<cable, adopted, poll, unplugs, jobs, crashes>>

\* Mutant: the flag is inserted where there is no row.
SetAdopted_Upsert(id) ==
    /\ job[id].pc = "adopt"
    /\ adopted' = adopted \cup {job[id].new}
    /\ job' = [job EXCEPT ![id] = NoJob]
    /\ UNCHANGED <<cable, row, poll, unplugs, jobs, crashes>>

\* SetAdopted, of whatever row has the new id now.
SetAdopted(id) ==
    /\ job[id].pc = "adopt"
    /\ adopted' = adopted \cup ({job[id].new} \cap Used)
    /\ job' = [job EXCEPT ![id] = NoJob]
    /\ UNCHANGED <<cable, row, poll, unplugs, jobs, crashes>>

\* The process dies, with its poll and its jobs.
Restart ==
    /\ crashes < MaxCrashes
    /\ crashes' = crashes + 1
    /\ poll' = NoPass
    /\ job' = [id \in Ids |-> NoJob]
    /\ UNCHANGED <<cable, row, adopted, unplugs, jobs>>

Poll ==
    \/ PollRead \/ UpgradeDelete \/ PollEnd
    \/ \E p \in Phones : UpgradeCreate(p) \/ \E st \in {"unauthorized", "device"} : AutoRegister(p, st)

Job(id) == Authorized(id) \/ ChooseName(id) \/ RenameDevice(id) \/ SetAdopted(id)

Next ==
    \/ \E p \in Phones : Plug(p) \/ Allow(p) \/ Unplug(p)
    \/ Poll
    \/ \E id \in Ids : Start(id) \/ Job(id)
    \/ Restart

\* The ticker polls for ever, and dies only as often as the process does.
Fairness == WF_vars(Poll)

Spec == Init /\ [][Next]_vars /\ Fairness

-----------------------------------------------------------------------------
(* Properties                                                              *)

\* A proper name is for good: whatever the poll inserts from a pool it read a
\* while ago and whatever jobs rename, the row under a name never vanishes, never
\* becomes another phone's, and stays adopted once it is (devices.go:254,
\* store.RenameDevice).  Reservations, runs and tunnels refer to it by its id.
NamesAreStable ==
    [][/\ \A n \in Names : row[n] # Nobody => row'[n] = row[n]
       /\ adopted \subseteq adopted']_vars

\* Polls and jobs race to name a phone, and nothing makes its serial unique: it
\* may end up with a second row, and with another for each process that died
\* between the two statements of upgradePending, but never with more.
RowsAreBounded == \A p \in Phones : Cardinality(RowsOf(p)) <= 2 + crashes

\* A phone that stays plugged in and authorized gets a row of its own with a
\* proper name, even if a stale pass loses the one it had (devices.go:98).
PluggedGetsName ==
    \A p \in Phones : <>[](cable[p] = "device") => <>Named(p)
=============================================================================
