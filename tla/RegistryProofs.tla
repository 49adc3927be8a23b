--------------------------- MODULE RegistryProofs ----------------------------
(***************************************************************************)
(* Proofs about Registry, for every set of phones and every bound on       *)
(* cables pulled, jobs and crashes: the state stays typed, names are for   *)
(* good, and a phone has two rows at most and one more for each crash.     *)
(***************************************************************************)
EXTENDS Registry, FiniteSetTheorems, TLAPS

Taken == Used \cap Names
NamesOf(p) == {n \in Names : row[n] = p}
States == {"unauthorized", "device"}
PollType == [pc : {"idle", "rows", "delete"}, taken : SUBSET Names, upgrade : SUBSET Phones,
             new : SUBSET (Phones \X States), cur : Phones \cup {Nobody}]
JobType == [pc : {"none", "wait", "name", "rename", "adopt"}, phone : Phones \cup {Nobody},
            new : Ids \cup {0}]

-----------------------------------------------------------------------------
(* The inductive invariant                                                 *)

\* What a pass knows of the rows is still so: the names it takes for taken are,
\* and the phones it will register have no row.
PollKnows ==
    /\ poll.pc = "idle" => poll.upgrade = {} /\ poll.new = {}
    /\ poll.pc = "delete" => poll.cur \in Phones /\ poll.cur \notin poll.upgrade
    /\ poll.pc # "delete" => poll.cur = Nobody
    /\ poll.taken \subseteq Used
    /\ \A e \in poll.new : /\ RowsOf(e[1]) = {} /\ e[1] \notin poll.upgrade
                           /\ \A f \in poll.new : e[1] = f[1] => e = f

\* A job renames a provisional row to a proper name; and while it has not chosen
\* one, a pass that means to replace the row finds it there.
JobKnows ==
    /\ \A id \in Ids : /\ job[id].pc \in {"rename", "adopt"} => job[id].new \in Names
                       /\ job[id].pc = "rename" => id \in Phones
    /\ \A p \in poll.upgrade : job[p].pc \in {"wait", "name"} => row[p] = p

\* The phones that may still be given a name, and those that may be given two.
First == {p \in Phones : \/ ~Named(p) \/ row[p] = p \/ p \in poll.upgrade
                         \/ job[p].pc \in {"wait", "name"}}
Second == {p \in Phones : ~Named(p) \/ (row[p] = p /\ poll.cur # p)}
ToCome(p) == (IF p \in First THEN 1 ELSE 0) + (IF p \in Second THEN 1 ELSE 0)

\* The names there are and those to come are two for each phone, and one for each
\* crash: of all the phones together...
NamesSuffice ==
    Cardinality(Taken) + Cardinality(First) + Cardinality(Second)
        <= 2 * Cardinality(Phones) + crashes

\* ... and of each.
NamesAreFew == \A p \in Phones : Cardinality(NamesOf(p)) + ToCome(p) <= 2 + crashes

IInv == TypeOK /\ PollKnows /\ JobKnows /\ NamesSuffice /\ NamesAreFew

-----------------------------------------------------------------------------
(* Names                                                                   *)

LEMMA Constants ==
    /\ IsFiniteSet(Phones) /\ Cardinality(Phones) \in Nat
    /\ IsFiniteSet(Names) /\ Names \subseteq Nat /\ 0 \notin Names
    /\ Cardinality(Names) = 2 * Cardinality(Phones) + MaxCrashes
    /\ Phones \cap Names = {} /\ Nobody \notin Phones /\ MaxCrashes \in Nat
<1>1. Cardinality(Phones) \in Nat /\ MaxCrashes \in Nat
    BY RegistryAssumption, FS_CardinalityType
<1>2. 1 \in Int /\ 2 * Cardinality(Phones) + MaxCrashes \in Nat
    BY <1>1
<1>3. IsFiniteSet(Names)
    BY <1>2, FS_Interval DEF Names
<1>4. Cardinality(Names) = 2 * Cardinality(Phones) + MaxCrashes
    BY <1>2, FS_Interval DEF Names
<1>5. QED
    BY <1>1, <1>3, <1>4, RegistryAssumption DEF Names

\* As long as some name is free, the first one that is free is found.
LEMMA FirstFree ==
    ASSUME NEW taken, ~(Names \subseteq taken)
    PROVE  UniqueID(taken) \in Names \ taken
<1> DEFINE R == {e \in Nat \X Nat : e[1] < e[2]}
           Available == Names \ taken
<1>1. IsWellFoundedOn(R, Nat)
    BY NatLessThanWellFounded DEF OpToRel
<1>2. Available \subseteq Nat /\ Available # {}
    BY Constants
<1>3. PICK n \in Available : \A m \in Nat : <<m, n>> \in R => m \notin Available
    BY <1>1, <1>2, WFMin
<1>4. ASSUME NEW m \in Available
      PROVE  n <= m
    <2>1. m \in Nat /\ n \in Nat /\ <<m, n>> \notin R
        BY <1>2, <1>3
    <2>2. ~(m < n)
        BY <2>1
    <2>3. QED
        BY <2>1, <2>2
<1>5. \E k \in Names \ taken : \A m \in Names \ taken : k <= m
    BY <1>3, <1>4
<1>6. QED
    BY <1>5 DEF UniqueID

LEMMA Typed ==
    ASSUME IInv
    PROVE  /\ row \in [Ids -> Phones \cup {Nobody}] /\ poll \in PollType /\ job \in [Ids -> JobType]
           /\ adopted \subseteq Taken /\ crashes \in 0..MaxCrashes
           /\ \A p \in Phones : row[p] \in {p, Nobody}
           /\ Ids = Phones \cup Names
           /\ Taken = {n \in Names : row[n] # Nobody}
BY DEF IInv, TypeOK, PollType, JobType, States, Taken, Used, Ids

\* A set of phones, of names, and their sizes.
LEMMA Sizes ==
    /\ IsFiniteSet(Taken) /\ Cardinality(Taken) \in Nat
    /\ IsFiniteSet(First) /\ Cardinality(First) \in Nat
    /\ IsFiniteSet(Second) /\ Cardinality(Second) \in Nat
    /\ \A p \in Phones : /\ IsFiniteSet(NamesOf(p)) /\ Cardinality(NamesOf(p)) \in Nat
                         /\ ToCome(p) \in 0..2
<1>1. Taken \subseteq Names /\ First \subseteq Phones /\ Second \subseteq Phones
    BY DEF Taken, First, Second
<1>2. \A p : NamesOf(p) \subseteq Names
    BY DEF NamesOf
<1>3. \A p : ToCome(p) \in 0..2
    BY DEF ToCome
<1>4. QED
    BY <1>1, <1>2, <1>3, Constants, FS_Subset, FS_CardinalityType

\* While a phone may still be given a name, there is a free one.
LEMMA NameIsFree ==
    ASSUME IInv, NEW p \in First, NEW taken, taken \subseteq Taken
    PROVE  UniqueID(taken) \in Names \ taken
<1>1. Cardinality(First) > 0
    BY Sizes, FS_EmptySet
<1>2. crashes \in Nat /\ crashes <= MaxCrashes
    BY Typed, Constants
<1>3. Cardinality(Taken) + Cardinality(First) + Cardinality(Second)
        <= 2 * Cardinality(Phones) + crashes
    BY DEF IInv, NamesSuffice
<1>4. Cardinality(Taken) < Cardinality(Names)
    BY <1>1, <1>2, <1>3, Sizes, Constants
<1>5. Taken # Names
    BY <1>4, Sizes
<1>6. Taken \subseteq Names
    BY DEF Taken
<1>7. QED
    BY <1>5, <1>6, FirstFree

-----------------------------------------------------------------------------
(* The steps that write rows                                               *)

LEMMA RowWriters ==
    ASSUME [Next]_vars
    PROVE  \/ UNCHANGED row
           \/ \E p \in Phones : UpgradeCreate(p)
           \/ \E p \in Phones, st \in States : AutoRegister(p, st)
           \/ UpgradeDelete
           \/ \E id \in Ids : RenameDevice(id)
BY DEF Next, vars, Plug, Allow, Unplug, Poll, PollRead, PollEnd, Start, Job, Authorized, ChooseName,
   SetAdopted, Restart, States

\* A pass upgrades a phone it means to upgrade, under a free name or one that was
\* taken meanwhile.
LEMMA Upgrading ==
    ASSUME IInv, NEW p \in Phones, UpgradeCreate(p)
    PROVE  /\ poll.pc = "rows" /\ p \in poll.upgrade /\ p \in First
           /\ \E n \in Names :
                /\ CreateAutoDevice(n, p)
                /\ poll' = [poll EXCEPT !.pc = "delete", !.taken = @ \cup {n},
                                        !.upgrade = @ \ {p}, !.cur = p]
<1>1. poll.pc = "rows" /\ p \in poll.upgrade
    BY DEF UpgradeCreate
<1>2. p \in First
    BY <1>1 DEF First
<1>3. poll.taken \subseteq Taken
    BY Typed DEF IInv, PollKnows, Taken, PollType
<1>4. UniqueID(poll.taken) \in Names
    BY <1>2, <1>3, NameIsFree
<1>5. QED
    BY <1>1, <1>2, <1>4 DEF UpgradeCreate

\* A phone the pass registers has no row, and gets its provisional one or a name.
LEMMA Registering ==
    ASSUME IInv, NEW p \in Phones, NEW st \in States, AutoRegister(p, st)
    PROVE  /\ poll.pc = "rows" /\ poll.upgrade = {} /\ <<p, st>> \in poll.new
           /\ RowsOf(p) = {} /\ row[p] = Nobody /\ ~Named(p)
           /\ \E id \in Names \cup {p} :
                /\ CreateAutoDevice(id, p)
                /\ poll' = [poll EXCEPT !.new = @ \ {<<p, st>>}, !.taken = @ \cup ({id} \cap Names)]
<1>1. poll.pc = "rows" /\ poll.upgrade = {} /\ <<p, st>> \in poll.new
    BY DEF AutoRegister
<1>2. RowsOf(p) = {}
    BY <1>1 DEF IInv, PollKnows
<1>3. row[p] = Nobody /\ ~Named(p)
    BY <1>2, Typed DEF RowsOf, Named
<1>4. p \in First /\ poll.taken \subseteq Taken
    BY <1>3, Typed DEF First, IInv, PollKnows, Taken, PollType
<1>5. UniqueID(poll.taken) \in Names
    BY <1>4, NameIsFree
<1>6. QED
    BY <1>1, <1>2, <1>3, <1>5 DEF AutoRegister

\* A job renames the provisional row of its phone to a name that is free, or
\* nothing at all.
LEMMA Renaming ==
    ASSUME IInv, NEW id \in Ids, RenameDevice(id)
    PROVE  /\ id \in Phones /\ job[id].pc = "rename" /\ UNCHANGED <<poll, crashes, adopted>>
           /\ \/ UNCHANGED row
              \/ /\ row[id] = id /\ row[job[id].new] = Nobody /\ job[id].new \in Names
                 /\ row' = [row EXCEPT ![job[id].new] = id, ![id] = Nobody]
           /\ job' = [job EXCEPT ![id] = NoJob] \/ job' = [job EXCEPT ![id].pc = "adopt"]
<1>1. job[id].pc = "rename" /\ UNCHANGED <<poll, crashes, adopted>>
    BY DEF RenameDevice
<1>2. id \in Phones /\ job[id].new \in Names
    BY <1>1 DEF IInv, JobKnows
<1>3. row[id] \in {id, Nobody}
    BY <1>2, Typed
<1>4. QED
    BY <1>1, <1>2, <1>3 DEF RenameDevice

\* The rows stay typed, and the row under a proper name stays as it is.
LEMMA RowStep ==
    ASSUME IInv, [Next]_vars
    PROVE  /\ row' \in [Ids -> Phones \cup {Nobody}]
           /\ \A p \in Phones : row'[p] \in {p, Nobody}
           /\ \A n \in Names : row[n] # Nobody => row'[n] = row[n]
<1>0. /\ row \in [Ids -> Phones \cup {Nobody}] /\ Ids = Phones \cup Names
      /\ \A p \in Phones : row[p] \in {p, Nobody}
      /\ Phones \cap Names = {} /\ Nobody \notin Phones
    BY Typed, Constants
<1>1. ASSUME NEW p \in Phones, NEW id \in Names \cup {p}, CreateAutoDevice(id, p)
      PROVE  /\ row' \in [Ids -> Phones \cup {Nobody}]
             /\ \A q \in Phones : row'[q] \in {q, Nobody}
             /\ \A n \in Names : row[n] # Nobody => row'[n] = row[n]
    BY <1>0, <1>1 DEF CreateAutoDevice
<1>2. CASE \E p \in Phones : UpgradeCreate(p)
    BY <1>1, <1>2, Upgrading
<1>3. CASE \E p \in Phones, st \in States : AutoRegister(p, st)
    BY <1>1, <1>3, Registering
<1>4. CASE UpgradeDelete
    <2>1. poll.cur \in Phones /\ row' = [row EXCEPT ![poll.cur] = Nobody]
        BY <1>4 DEF UpgradeDelete, IInv, PollKnows
    <2>2. QED
        BY <1>0, <2>1
<1>5. ASSUME NEW id \in Ids, RenameDevice(id)
      PROVE  /\ row' \in [Ids -> Phones \cup {Nobody}]
             /\ \A q \in Phones : row'[q] \in {q, Nobody}
             /\ \A n \in Names : row[n] # Nobody => row'[n] = row[n]
    <2> DEFINE new == job[id].new
    <2>1. \/ UNCHANGED row
          \/ /\ row[new] = Nobody /\ new \in Names /\ id \in Phones
             /\ row' = [row EXCEPT ![new] = id, ![id] = Nobody]
        BY <1>5, Renaming
    <2> HIDE DEF new
    <2>2. QED
        BY <1>0, <2>1
<1>6. CASE UNCHANGED row
    BY <1>0, <1>6
<1>7. QED
    BY <1>2, <1>3, <1>4, <1>5, <1>6, RowWriters

\* A name that is taken stays taken, and what is adopted stays adopted.
LEMMA NamesStay ==
    ASSUME IInv, [Next]_vars
    PROVE  Taken \subseteq Taken' /\ adopted \subseteq adopted' /\ adopted' \subseteq Taken'
<1>0. /\ Taken = {n \in Names : row[n] # Nobody} /\ adopted \subseteq Taken
      /\ Names \subseteq Ids /\ Ids = Phones \cup Names
    BY Typed
<1>1. Taken' = {n \in Names : row'[n] # Nobody}
    BY <1>0 DEF Taken, Used
<1>2. Taken \subseteq Taken'
    BY <1>0, <1>1, RowStep
<1>3. ASSUME NEW id \in Ids, SetAdopted(id)
      PROVE  adopted \subseteq adopted' /\ adopted' \subseteq Taken'
    <2>1. job[id].new \in Names /\ UNCHANGED row
        BY <1>3 DEF SetAdopted, IInv, JobKnows
    <2>2. adopted' = adopted \cup ({job[id].new} \cap Used)
        BY <1>3 DEF SetAdopted
    <2>3. {job[id].new} \cap Used \subseteq Taken
        BY <2>1 DEF Taken
    <2>4. QED
        BY <1>0, <1>2, <2>2, <2>3
<1>4. (\A id \in Ids : ~SetAdopted(id)) => UNCHANGED adopted
    BY DEF Next, vars, Plug, Allow, Unplug, Poll, PollRead, UpgradeCreate, UpgradeDelete,
       AutoRegister, PollEnd, Start, Job, Authorized, ChooseName, RenameDevice, Restart
<1>5. QED
    BY <1>0, <1>2, <1>3, <1>4

-----------------------------------------------------------------------------
(* The pass of the poll                                                    *)

\* Only these steps write what the pass knows.
LEMMA PollWriters ==
    ASSUME [Next]_vars
    PROVE  \/ UNCHANGED poll \/ PollRead \/ UpgradeDelete \/ poll' = NoPass
           \/ \E p \in Phones : UpgradeCreate(p)
           \/ \E p \in Phones, st \in States : AutoRegister(p, st)
BY DEF Next, vars, Plug, Allow, Unplug, Poll, PollEnd, Start, Job, Authorized, ChooseName,
   RenameDevice, SetAdopted, Restart, States

\* A row that is nobody's own appears for a phone without one by the poll only.
LEMMA NoNewRows ==
    ASSUME IInv, [Next]_vars, NEW p \in Phones, RowsOf(p) = {},
           ~UpgradeCreate(p), \A st \in States : ~AutoRegister(p, st)
    PROVE  RowsOf(p)' = {}
<1> SUFFICES \A i \in Ids : row'[i] # p
    BY DEF RowsOf
<1>0. /\ row \in [Ids -> Phones \cup {Nobody}] /\ Nobody \notin Phones
      /\ \A id \in Ids : row[id] # p
    BY Typed, Constants DEF RowsOf
<1>1. ASSUME NEW q \in Phones, q # p, NEW id, CreateAutoDevice(id, q)
      PROVE  \A i \in Ids : row'[i] # p
    BY <1>0, <1>1 DEF CreateAutoDevice
<1>2. CASE \E q \in Phones : UpgradeCreate(q)
    BY <1>1, <1>2, Upgrading
<1>3. ASSUME NEW q \in Phones, NEW st \in States, AutoRegister(q, st)
      PROVE  \A i \in Ids : row'[i] # p
    <2>1. q # p
        BY <1>3
    <2>2. \E id \in Names \cup {q} : CreateAutoDevice(id, q)
        BY <1>3, Registering
    <2>3. QED
        BY <1>1, <2>1, <2>2
<1>4. CASE UpgradeDelete
    BY <1>0, <1>4 DEF UpgradeDelete
<1>5. ASSUME NEW id \in Ids, RenameDevice(id)
      PROVE  \A i \in Ids : row'[i] # p
    BY <1>0, <1>5, Renaming
<1>6. QED
    BY <1>0, <1>2, <1>3, <1>4, <1>5, RowWriters

LEMMA PollStep ==
    ASSUME IInv, [Next]_vars
    PROVE  poll' \in PollType /\ PollKnows'
<1>0. /\ poll \in PollType /\ PollKnows
      /\ Taken \subseteq Taken' /\ Taken' \subseteq Used' /\ Nobody \notin Phones
    BY Typed, NamesStay, Constants DEF IInv, Taken
<1>1. poll.taken \subseteq Taken
    BY <1>0 DEF PollKnows, PollType, Taken
<1>2. CASE poll' = NoPass
    BY <1>2, Constants DEF NoPass, Pass, PollType, PollKnows
<1>3. CASE PollRead
    <2> DEFINE up == {p \in Phones : row[p] = p /\ cable[p] = "device"}
               new == {<<p, cable[p]>> : p \in {q \in Phones : RowsOf(q) = {} /\ cable[q] # "out"}}
    <2>1. poll' = Pass("rows", Taken, up, new, Nobody) /\ UNCHANGED row
        BY <1>3 DEF PollRead, Taken
    <2>2. cable \in [Phones -> {"out", "unauthorized", "device"}]
        BY DEF IInv, TypeOK
    <2>3. /\ poll'.pc = "rows" /\ poll'.taken = Taken /\ poll'.upgrade = up /\ poll'.new = new
          /\ poll'.cur = Nobody /\ poll' = [pc |-> "rows", taken |-> Taken, upgrade |-> up,
                                            new |-> new, cur |-> Nobody]
        BY <2>1 DEF Pass
    <2>4. Taken \in SUBSET Names /\ up \in SUBSET Phones
        BY DEF Taken
    <2>5. new \in SUBSET (Phones \X States)
        BY <2>2 DEF States
    <2>6. ASSUME NEW e \in new
          PROVE  /\ RowsOf(e[1]) = {} /\ e[1] \notin up
                 /\ \A f \in new : e[1] = f[1] => e = f
        <3>1. PICK p \in Phones : e = <<p, cable[p]>> /\ RowsOf(p) = {}
            OBVIOUS
        <3>2. \A f \in new : f = <<f[1], cable[f[1]]>>
            OBVIOUS
        <3>3. row[p] # p
            BY <3>1, Typed DEF RowsOf
        <3>4. QED
            BY <3>1, <3>2, <3>3
    <2> HIDE DEF up, new
    <2>7. \A p : RowsOf(p)' = RowsOf(p)
        BY <2>1 DEF RowsOf
    <2>8. poll' \in PollType
        BY <2>3, <2>4, <2>5 DEF PollType
    <2>9. PollKnows'
        BY <1>0, <2>3, <2>6, <2>7 DEF PollKnows
    <2>10. QED
        BY <2>8, <2>9
<1>4. CASE UNCHANGED poll
    <2>1. ASSUME NEW e \in poll.new
          PROVE  RowsOf(e[1])' = {}
        <3>1. e[1] \in Phones /\ RowsOf(e[1]) = {} /\ e[1] \notin poll.upgrade
            BY <1>0 DEF PollType, PollKnows
        <3>2. ~UpgradeCreate(e[1])
            BY <3>1 DEF UpgradeCreate
        <3>3. ASSUME NEW st \in States, AutoRegister(e[1], st)
              PROVE  FALSE
            <4>1. <<e[1], st>> \in poll.new
                  /\ \E taken : poll' = [poll EXCEPT !.new = @ \ {<<e[1], st>>}, !.taken = taken]
                BY <3>1, <3>3, Registering
            <4>2. <<e[1], st>> \notin poll'.new
                BY <1>0, <4>1 DEF PollType
            <4>3. QED
                BY <1>4, <4>1, <4>2
        <3>4. QED
            BY <3>1, <3>2, <3>3, NoNewRows
    <2>2. QED
        BY <1>0, <1>1, <1>4, <2>1 DEF PollKnows
<1>5. CASE UpgradeDelete
    <2>1. /\ poll' = [poll EXCEPT !.pc = "rows", !.cur = Nobody] /\ poll.pc = "delete"
        BY <1>5 DEF UpgradeDelete
    <2>2. /\ poll'.pc = "rows" /\ poll'.cur = Nobody /\ poll'.new = poll.new
          /\ poll'.upgrade = poll.upgrade /\ poll'.taken = poll.taken /\ poll' \in PollType
        BY <1>0, <2>1 DEF PollType
    <2>3. ASSUME NEW e \in poll.new
          PROVE  RowsOf(e[1])' = {}
        <3>1. e[1] \in Phones /\ RowsOf(e[1]) = {}
            BY <1>0 DEF PollType, PollKnows
        <3>2. ~UpgradeCreate(e[1]) /\ \A st \in States : ~AutoRegister(e[1], st)
            BY <2>1 DEF UpgradeCreate, AutoRegister
        <3>3. QED
            BY <3>1, <3>2, NoNewRows
    <2>4. QED
        BY <1>0, <1>1, <2>2, <2>3 DEF PollKnows
<1>6. ASSUME NEW p \in Phones, UpgradeCreate(p)
      PROVE  poll' \in PollType /\ PollKnows'
    <2>1. PICK n \in Names : /\ CreateAutoDevice(n, p)
                             /\ poll' = [poll EXCEPT !.pc = "delete", !.taken = @ \cup {n},
                                                     !.upgrade = @ \ {p}, !.cur = p]
        BY <1>6, Upgrading
    <2>2. p \in poll.upgrade /\ poll.pc = "rows"
        BY <1>6, Upgrading
    <2>3. /\ poll'.pc = "delete" /\ poll'.cur = p /\ poll'.new = poll.new
          /\ poll'.upgrade = poll.upgrade \ {p} /\ poll'.taken = poll.taken \cup {n}
          /\ poll' \in PollType
        BY <1>0, <2>1 DEF PollType
    <2>4. n \in Used'
        BY <1>0, <2>1, Typed DEF CreateAutoDevice, Used
    <2>5. ASSUME NEW e \in poll.new
          PROVE  RowsOf(e[1])' = {}
        <3>1. e[1] \in Phones /\ RowsOf(e[1]) = {} /\ e[1] \notin poll.upgrade
            BY <1>0 DEF PollType, PollKnows
        <3>2. ~UpgradeCreate(e[1])
            BY <3>1 DEF UpgradeCreate
        <3>3. ASSUME NEW st \in States, AutoRegister(e[1], st)
              PROVE  FALSE
            BY <2>2, <3>3 DEF AutoRegister
        <3>4. QED
            BY <3>1, <3>2, <3>3, NoNewRows
    <2>6. QED
        BY <1>0, <1>1, <2>3, <2>4, <2>5 DEF PollKnows
<1>7. ASSUME NEW p \in Phones, NEW st \in States, AutoRegister(p, st)
      PROVE  poll' \in PollType /\ PollKnows'
    <2>1. PICK id \in Names \cup {p} :
            /\ CreateAutoDevice(id, p)
            /\ poll' = [poll EXCEPT !.new = @ \ {<<p, st>>}, !.taken = @ \cup ({id} \cap Names)]
        BY <1>7, Registering
    <2>2. poll.pc = "rows" /\ poll.upgrade = {} /\ <<p, st>> \in poll.new
        BY <1>7, Registering
    <2>3. /\ poll'.pc = "rows" /\ poll'.cur = poll.cur /\ poll'.new = poll.new \ {<<p, st>>}
          /\ poll'.upgrade = {} /\ poll'.taken = poll.taken \cup ({id} \cap Names)
          /\ poll' \in PollType
        BY <1>0, <2>1, <2>2 DEF PollType
    <2>4. id \in Names => id \in Used'
        BY <1>0, <2>1, Typed DEF CreateAutoDevice, Used
    <2>5. ASSUME NEW e \in poll'.new
          PROVE  RowsOf(e[1])' = {}
        <3>1. e[1] \in Phones /\ RowsOf(e[1]) = {} /\ e \in poll.new /\ e # <<p, st>>
            BY <1>0, <2>3 DEF PollType, PollKnows
        <3>2. e[1] # p
            BY <1>0, <2>2, <3>1 DEF PollKnows
        <3>3. \A i \in Ids : row[i] # e[1]
            BY <3>1 DEF RowsOf
        <3>4. \A i \in Ids : row'[i] # e[1]
            BY <2>1, <3>2, <3>3, Typed DEF CreateAutoDevice
        <3>5. QED
            BY <3>4 DEF RowsOf
    <2>6. QED
        BY <1>0, <1>1, <2>2, <2>3, <2>4, <2>5 DEF PollKnows
<1>8. QED
    BY <1>2, <1>3, <1>4, <1>5, <1>6, <1>7, PollWriters

-----------------------------------------------------------------------------
(* The jobs                                                                *)

LEMMA JobWriters ==
    ASSUME [Next]_vars
    PROVE  \/ UNCHANGED job \/ Restart
           \/ \E id \in Ids : Start(id) \/ Authorized(id) \/ ChooseName(id) \/ RenameDevice(id)
                              \/ SetAdopted(id)
BY DEF Next, vars, Plug, Allow, Unplug, Poll, PollRead, UpgradeCreate, UpgradeDelete, AutoRegister,
   PollEnd, Job

\* A step of one job: what it becomes, and what the row of its phone has to do
\* with it.
LEMMA OneJob ==
    ASSUME IInv, NEW id \in Ids,
           Start(id) \/ Authorized(id) \/ ChooseName(id) \/ RenameDevice(id) \/ SetAdopted(id)
    PROVE  \E j \in JobType :
              /\ job' = [job EXCEPT ![id] = j]
              /\ j.pc \in {"rename", "adopt"} => j.new \in Names
              /\ j.pc = "rename" => id \in Phones
              /\ j.pc \in {"wait", "name"} => job[id].pc = "wait" \/ row[id] # Nobody
<1>0. /\ job \in [Ids -> JobType] /\ row \in [Ids -> Phones \cup {Nobody}]
      /\ Ids = Phones \cup Names
    BY Typed
<1>1. NoJob \in JobType /\ NoJob.pc = "none"
    BY DEF NoJob, JobType
<1>2. CASE job' = [job EXCEPT ![id] = NoJob]
    BY <1>1, <1>2
<1>3. CASE Start(id)
    <2> DEFINE j == [pc |-> "wait", phone |-> row[id], new |-> 0]
    <2>1. job' = [job EXCEPT ![id] = j] /\ row[id] # Nobody
        BY <1>3 DEF Start
    <2>2. j \in JobType
        BY <1>0 DEF JobType
    <2>3. QED
        BY <2>1, <2>2
<1>4. CASE Authorized(id) /\ job' # [job EXCEPT ![id] = NoJob]
    <2> DEFINE j == [job[id] EXCEPT !.pc = "name"]
    <2>1. job' = [job EXCEPT ![id] = j] /\ job[id].pc = "wait"
        BY <1>0, <1>4 DEF Authorized
    <2>2. j \in JobType /\ j.pc = "name"
        BY <1>0 DEF JobType
    <2>3. QED
        BY <2>1, <2>2
<1>5. CASE ChooseName(id)
    <2>1. CASE id \in Phones
        <3> DEFINE n == UniqueID(Used \cap Names)
                   j == [job[id] EXCEPT !.pc = "rename", !.new = n]
        <3>1. job' = [job EXCEPT ![id] = j] /\ job[id].pc = "name"
            BY <1>0, <1>5, <2>1 DEF ChooseName
        <3>2. id \in First
            BY <2>1, <3>1 DEF First
        <3>3. n \in Names
            BY <3>2, NameIsFree DEF Taken
        <3> HIDE DEF n
        <3>4. j \in JobType /\ j.pc = "rename" /\ j.new = n
            BY <1>0, <3>3 DEF JobType
        <3>5. QED
            BY <2>1, <3>1, <3>3, <3>4
    <2>2. CASE id \notin Phones
        <3> DEFINE j == [job[id] EXCEPT !.pc = "adopt", !.new = id]
        <3>1. job' = [job EXCEPT ![id] = j]
            BY <1>0, <1>5, <2>2 DEF ChooseName
        <3>2. j \in JobType /\ j.pc = "adopt" /\ j.new = id
            BY <1>0 DEF JobType
        <3>3. QED
            BY <1>0, <2>2, <3>1, <3>2
    <2>3. QED
        BY <2>1, <2>2
<1>6. CASE RenameDevice(id) /\ job' # [job EXCEPT ![id] = NoJob]
    <2> DEFINE j == [job[id] EXCEPT !.pc = "adopt"]
    <2>1. job' = [job EXCEPT ![id] = j] /\ job[id].pc = "rename"
        BY <1>0, <1>6 DEF RenameDevice
    <2>2. j \in JobType /\ j.pc = "adopt" /\ j.new = job[id].new
        BY <1>0 DEF JobType
    <2>3. job[id].new \in Names
        BY <2>1 DEF IInv, JobKnows
    <2>4. QED
        BY <2>1, <2>2, <2>3
<1>7. SetAdopted(id) => job' = [job EXCEPT ![id] = NoJob]
    BY DEF SetAdopted
<1>8. QED
    BY <1>2, <1>3, <1>4, <1>5, <1>6, <1>7

LEMMA JobStep ==
    ASSUME IInv, [Next]_vars
    PROVE  job' \in [Ids -> JobType] /\ JobKnows'
<1>0. /\ job \in [Ids -> JobType] /\ JobKnows /\ poll \in PollType /\ Phones \subseteq Ids
      /\ \A p \in Phones : row[p] \in {p, Nobody}
      /\ Nobody \notin Phones /\ Phones \cap Names = {}
    BY Typed, Constants DEF IInv
<1>1. CASE Restart
    <2>1. job' = [id \in Ids |-> NoJob] /\ poll' = NoPass
        BY <1>1 DEF Restart
    <2>2. QED
        BY <2>1 DEF NoJob, NoPass, Pass, JobType, JobKnows
<1>2. ASSUME NEW id \in Ids,
             Start(id) \/ Authorized(id) \/ ChooseName(id) \/ RenameDevice(id) \/ SetAdopted(id)
      PROVE  job' \in [Ids -> JobType] /\ JobKnows'
    <2>1. PICK j \in JobType :
              /\ job' = [job EXCEPT ![id] = j]
              /\ j.pc \in {"rename", "adopt"} => j.new \in Names
              /\ j.pc = "rename" => id \in Phones
              /\ j.pc \in {"wait", "name"} => job[id].pc = "wait" \/ row[id] # Nobody
        BY <1>2, OneJob
    <2>2. UNCHANGED poll
        BY <1>2 DEF Start, Authorized, ChooseName, RenameDevice, SetAdopted
    <2>3. ASSUME NEW p \in poll.upgrade, job'[p].pc \in {"wait", "name"}
          PROVE  row'[p] = p
        <3>1. p \in Phones
            BY <1>0 DEF PollType
        <3>2. row[p] = p
            BY <1>0, <2>1, <2>3, <3>1 DEF JobKnows
        <3>3. ~RenameDevice(p)
            BY <1>0, <2>3, <3>1, Renaming DEF NoJob, JobType
        <3>4. CASE RenameDevice(id)
            <4>1. p # id
                BY <3>3, <3>4
            <4>2. UNCHANGED row \/ row' = [row EXCEPT ![job[id].new] = id, ![id] = Nobody]
                BY <3>4, Renaming
            <4>3. job[id].new \in Names
                BY <3>4 DEF RenameDevice, IInv, JobKnows
            <4>4. QED
                BY <1>0, <3>1, <3>2, <4>1, <4>2, <4>3, Typed
        <3>5. CASE ~RenameDevice(id)
            BY <1>2, <3>2, <3>5 DEF Start, Authorized, ChooseName, SetAdopted
        <3>6. QED
            BY <3>4, <3>5
    <2>4. QED
        BY <1>0, <2>1, <2>2, <2>3 DEF JobKnows
<1>3. CASE UNCHANGED job
    <2>1. ASSUME NEW p \in poll'.upgrade, job[p].pc \in {"wait", "name"}
          PROVE  row'[p] = p
        <3>1. CASE PollRead
            BY <2>1, <3>1 DEF PollRead, Pass
        <3>2. CASE poll' = NoPass
            BY <2>1, <3>2 DEF NoPass, Pass
        <3>3. ASSUME p \in poll.upgrade, ~RenameDevice(p), ~UpgradeDelete
              PROVE  row'[p] = p
            <4>1. p \in Phones /\ row[p] = p
                BY <1>0, <2>1, <3>3 DEF PollType, JobKnows
            <4>2. ASSUME NEW id \in Ids, RenameDevice(id), id # p
                  PROVE  row'[p] = p
                <5>1. UNCHANGED row \/ row' = [row EXCEPT ![job[id].new] = id, ![id] = Nobody]
                    BY <4>2, Renaming
                <5>2. job[id].new \in Names
                    BY <4>2 DEF RenameDevice, IInv, JobKnows
                <5>3. QED
                    BY <1>0, <4>1, <4>2, <5>1, <5>2, Typed
            <4>3. ASSUME NEW q, NEW id, CreateAutoDevice(id, q)
                  PROVE  row'[p] = p
                BY <1>0, <4>1, <4>3, Typed DEF CreateAutoDevice
            <4>4. QED
                BY <3>3, <4>1, <4>2, <4>3, RowWriters, Upgrading, Registering
        <3>4. ~RenameDevice(p)
            BY <2>1 DEF RenameDevice
        <3>5. CASE UpgradeDelete
            <4>1. /\ poll.cur \in Phones /\ poll.cur \notin poll.upgrade
                  /\ row' = [row EXCEPT ![poll.cur] = Nobody]
                  /\ poll' = [poll EXCEPT !.pc = "rows", !.cur = Nobody]
                BY <3>5 DEF UpgradeDelete, IInv, PollKnows
            <4>2. p \in poll.upgrade
                BY <1>0, <2>1, <4>1 DEF PollType
            <4>3. row[p] = p /\ p \in Phones
                BY <1>0, <2>1, <4>2 DEF PollType, JobKnows
            <4>4. QED
                BY <1>0, <4>1, <4>2, <4>3, Typed
        <3>6. ASSUME ~PollRead, poll' # NoPass, ~UpgradeDelete
              PROVE  p \in poll.upgrade
            <4>1. ASSUME NEW q \in Phones, UpgradeCreate(q)
                  PROVE  p \in poll.upgrade
                <5>1. \E taken : poll' = [poll EXCEPT !.pc = "delete", !.taken = taken,
                                                      !.upgrade = @ \ {q}, !.cur = q]
                    BY <4>1, Upgrading
                <5>2. QED
                    BY <1>0, <2>1, <5>1 DEF PollType
            <4>2. ASSUME NEW q \in Phones, NEW st \in States, AutoRegister(q, st)
                  PROVE  p \in poll.upgrade
                <5>1. \E new, taken : poll' = [poll EXCEPT !.new = new, !.taken = taken]
                    BY <4>2, Registering
                <5>2. QED
                    BY <1>0, <2>1, <5>1 DEF PollType
            <4>3. QED
                BY <2>1, <3>6, <4>1, <4>2, PollWriters
        <3>7. QED
            BY <3>1, <3>2, <3>3, <3>4, <3>5, <3>6
    <2>2. QED
        BY <1>0, <1>3, <2>1 DEF JobKnows
<1>4. QED
    BY <1>1, <1>2, <1>3, JobWriters

-----------------------------------------------------------------------------
(* What a step does to the names there are and to those to come            *)

SameNames == \A n \in Names : row'[n] = row[n]
Fewer == First' \subseteq First /\ Second' \subseteq Second

\* Nothing is named.
Keeps == SameNames /\ Fewer /\ UNCHANGED crashes

\* Name n is given to phone p, which has one less to come.
Gives(p, n) ==
    /\ row[n] = Nobody /\ row'[n] = p
    /\ \A m \in Names : m # n => row'[m] = row[m]
    /\ Fewer /\ (p \in First \ First' \/ p \in Second \ Second')
    /\ UNCHANGED crashes

\* Whoever was between the two statements of an upgrade has one more to come.
Dies ==
    /\ SameNames /\ First' \subseteq First /\ Second' \subseteq Second \cup {poll.cur}
    /\ crashes' = crashes + 1

LEMMA NamedIs ==
    ASSUME NEW p
    PROVE  /\ Named(p) <=> \E n \in Names : row[n] = p
           /\ Named(p)' <=> \E n \in Names : row'[n] = p
BY DEF Named, RowsOf, Ids

LEMMA KeepsIf ==
    ASSUME SameNames, UNCHANGED crashes,
           \A p \in Phones :
              /\ row'[p] = p => \/ ~Named(p)
                                \/ row[p] = p /\ (poll'.cur # p => poll.cur # p)
              /\ p \in poll'.upgrade \/ job'[p].pc \in {"wait", "name"} => p \in First
    PROVE  Keeps
<1>1. \A p : Named(p)' <=> Named(p)
    BY NamedIs DEF SameNames
<1>2. First' \subseteq First
    BY <1>1 DEF First
<1>3. Second' \subseteq Second
    BY <1>1 DEF Second
<1>4. QED
    BY <1>2, <1>3 DEF Keeps, Fewer

\* The poll names a phone that it has found without a row, or with its
\* provisional one.
LEMMA PollNames ==
    ASSUME IInv, [Next]_vars, UNCHANGED job, UNCHANGED crashes,
           \A id \in Ids : ~RenameDevice(id)
    PROVE  Keeps \/ \E p \in Phones, n \in Names : Gives(p, n)
<1>0. /\ row \in [Ids -> Phones \cup {Nobody}] /\ poll \in PollType /\ PollKnows /\ JobKnows
      /\ \A p \in Phones : row[p] \in {p, Nobody}
      /\ Nobody \notin Phones /\ Phones \cap Names = {} /\ Ids = Phones \cup Names
    BY Typed, Constants DEF IInv
<1>1. \A p \in Phones : p \in poll.upgrade \/ job'[p].pc \in {"wait", "name"} => p \in First
    BY DEF First
<1>2. CASE UNCHANGED row /\ UNCHANGED poll
    BY <1>1, <1>2, KeepsIf DEF SameNames
<1>3. CASE UNCHANGED row /\ PollRead
    <2>1. poll'.upgrade \subseteq {p \in Phones : row[p] = p} /\ poll.cur = Nobody
        BY <1>0, <1>3 DEF PollRead, Pass, PollKnows
    <2>2. \A p \in poll'.upgrade : p \in First
        BY <2>1 DEF First
    <2>3. QED
        BY <1>0, <1>1, <1>3, <2>1, <2>2, KeepsIf DEF SameNames
<1>4. CASE UNCHANGED row /\ PollEnd
    <2>1. poll'.upgrade = {} /\ poll.cur = Nobody
        BY <1>0, <1>4 DEF PollEnd, NoPass, Pass, PollKnows
    <2>2. QED
        BY <1>0, <1>1, <1>4, <2>1, KeepsIf DEF SameNames
<1>5. CASE UpgradeDelete
    <2>1. /\ poll.cur \in Phones /\ row' = [row EXCEPT ![poll.cur] = Nobody]
          /\ poll'.upgrade = poll.upgrade
        BY <1>0, <1>5 DEF UpgradeDelete, PollKnows, PollType
    <2>2. SameNames
        BY <1>0, <2>1 DEF SameNames
    <2>3. \A p \in Phones : row'[p] = p => row[p] = p /\ poll.cur # p
        BY <1>0, <2>1
    <2>4. QED
        BY <1>1, <2>1, <2>2, <2>3, KeepsIf
<1>6. ASSUME NEW p \in Phones, UpgradeCreate(p)
      PROVE  Keeps \/ \E n \in Names : Gives(p, n)
    <2>1. PICK n \in Names : /\ CreateAutoDevice(n, p)
                             /\ poll' = [poll EXCEPT !.pc = "delete", !.taken = @ \cup {n},
                                                     !.upgrade = @ \ {p}, !.cur = p]
        BY <1>6, Upgrading
    <2>2. p \in poll.upgrade /\ poll.cur = Nobody /\ p \in First
        BY <1>0, <1>6, Upgrading DEF PollKnows
    <2>3. poll'.upgrade = poll.upgrade \ {p} /\ poll'.cur = p
        BY <1>0, <2>1 DEF PollType
    <2>4. CASE row[n] # Nobody
        <3>1. UNCHANGED row
            BY <2>1, <2>4 DEF CreateAutoDevice
        <3>2. QED
            BY <1>0, <1>1, <2>2, <2>3, <3>1, KeepsIf DEF SameNames
    <2>5. CASE row[n] = Nobody
        <3>1. row' = [row EXCEPT ![n] = p]
            BY <2>1, <2>5 DEF CreateAutoDevice
        <3>2. /\ row'[n] = p /\ \A m \in Names : m # n => row'[m] = row[m]
              /\ \A q \in Phones : row'[q] = row[q]
            BY <1>0, <3>1
        <3>3. \A q \in Phones : q # p => (Named(q)' <=> Named(q))
            BY <1>0, <2>5, <3>2, NamedIs
        <3>4. Named(p)'
            BY <3>2, NamedIs
        <3>5. First' \subseteq First
            BY <1>1, <2>2, <2>3, <3>2, <3>3 DEF First
        <3>6. Second' \subseteq Second \ {p}
            BY <1>0, <2>2, <2>3, <3>2, <3>3, <3>4 DEF Second
        <3>7. p \in First \ First' \/ p \in Second \ Second'
            <4>1. CASE row[p] = p
                BY <1>0, <2>2, <3>6, <4>1 DEF Second
            <4>2. CASE row[p] # p
                <5>1. job'[p].pc \notin {"wait", "name"}
                    BY <1>0, <2>2, <4>2 DEF JobKnows
                <5>2. p \notin First'
                    BY <2>3, <3>2, <3>4, <4>2, <5>1 DEF First
                <5>3. QED
                    BY <2>2, <5>2
            <4>3. QED
                BY <4>1, <4>2
        <3>8. QED
            BY <2>5, <3>2, <3>5, <3>6, <3>7 DEF Gives, Fewer
    <2>6. QED
        BY <2>4, <2>5
<1>7. ASSUME NEW p \in Phones, NEW st \in States, AutoRegister(p, st)
      PROVE  Keeps \/ \E n \in Names : Gives(p, n)
    <2>1. PICK id \in Names \cup {p} :
            /\ CreateAutoDevice(id, p)
            /\ poll' = [poll EXCEPT !.new = @ \ {<<p, st>>}, !.taken = @ \cup ({id} \cap Names)]
        BY <1>7, Registering
    <2>2. poll.upgrade = {} /\ row[p] = Nobody /\ ~Named(p)
        BY <1>7, Registering
    <2>3. poll'.upgrade = {} /\ poll'.cur = poll.cur
        BY <1>0, <2>1, <2>2 DEF PollType
    <2>4. CASE row[id] # Nobody \/ id = p
        <3>1. SameNames /\ \A q \in Phones : q # p => row'[q] = row[q]
            BY <1>0, <2>1, <2>4 DEF CreateAutoDevice, SameNames
        <3>2. QED
            BY <1>0, <1>1, <2>2, <2>3, <3>1, KeepsIf
    <2>5. CASE row[id] = Nobody /\ id \in Names
        <3>1. row' = [row EXCEPT ![id] = p]
            BY <2>1, <2>5 DEF CreateAutoDevice
        <3>2. /\ row'[id] = p /\ \A m \in Names : m # id => row'[m] = row[m]
              /\ \A q \in Phones : row'[q] = row[q]
            BY <1>0, <2>5, <3>1
        <3>3. \A q \in Phones : q # p => (Named(q)' <=> Named(q))
            BY <1>0, <2>5, <3>2, NamedIs
        <3>4. Named(p)'
            BY <2>5, <3>2, NamedIs
        <3>5. First' \subseteq First
            BY <1>1, <2>2, <2>3, <3>2, <3>3 DEF First
        <3>6. Second' \subseteq Second \ {p}
            BY <1>0, <2>2, <2>3, <3>2, <3>3, <3>4 DEF Second
        <3>7. p \in Second
            BY <2>2 DEF Second
        <3>8. QED
            BY <2>5, <3>2, <3>5, <3>6, <3>7 DEF Gives, Fewer
    <2>6. QED
        BY <2>4, <2>5
<1>8. CASE UNCHANGED row /\ (\A p \in Phones : ~UpgradeCreate(p)) /\ ~UpgradeDelete
           /\ (\A p \in Phones, st \in States : ~AutoRegister(p, st))
    <2>1. crashes \in Nat
        BY Typed, Constants
    <2>2. ~Restart
        BY <2>1 DEF Restart
    <2>3. UNCHANGED poll \/ PollRead \/ PollEnd
        BY <1>8, <2>2 DEF Next, vars, Plug, Allow, Unplug, Poll, Start, Job, Authorized, ChooseName,
           RenameDevice, SetAdopted, States
    <2>4. QED
        BY <1>2, <1>3, <1>4, <1>8, <2>3
<1>9. QED
    BY <1>5, <1>6, <1>7, <1>8, RowWriters

\* A job names the phone whose provisional row it renames.
LEMMA JobNames ==
    ASSUME IInv, NEW id \in Ids,
           Start(id) \/ Authorized(id) \/ ChooseName(id) \/ RenameDevice(id) \/ SetAdopted(id)
    PROVE  Keeps \/ \E p \in Phones, n \in Names : Gives(p, n)
<1>0. /\ row \in [Ids -> Phones \cup {Nobody}] /\ poll \in PollType /\ job \in [Ids -> JobType]
      /\ \A p \in Phones : row[p] \in {p, Nobody}
      /\ Nobody \notin Phones /\ Phones \cap Names = {} /\ Ids = Phones \cup Names
    BY Typed, Constants
<1>1. UNCHANGED <<poll, crashes>>
    BY DEF Start, Authorized, ChooseName, RenameDevice, SetAdopted
<1>2. \A p \in Phones : job'[p].pc \in {"wait", "name"} => p \in First
    <2>1. PICK j \in JobType :
              /\ job' = [job EXCEPT ![id] = j]
              /\ j.pc \in {"wait", "name"} => job[id].pc = "wait" \/ row[id] # Nobody
        BY OneJob
    <2>2. QED
        BY <1>0, <2>1 DEF First
<1>3. \A p \in Phones : p \in poll'.upgrade => p \in First
    BY <1>1 DEF First
<1>4. CASE UNCHANGED row
    BY <1>0, <1>1, <1>2, <1>3, <1>4, KeepsIf DEF SameNames
<1>5. CASE RenameDevice(id) /\ ~UNCHANGED row
    <2> DEFINE new == job[id].new
    <2>1. /\ id \in Phones /\ row[id] = id /\ row[new] = Nobody /\ new \in Names
          /\ row' = [row EXCEPT ![new] = id, ![id] = Nobody]
        BY <1>5, Renaming
    <2>2. job'[id].pc \notin {"wait", "name"}
        BY <1>0, <1>5, Renaming DEF NoJob, JobType
    <2>3. \A q \in Ids : q # id => job'[q] = job[q]
        BY <1>0, <1>5 DEF RenameDevice
    <2> HIDE DEF new
    <2>4. /\ row'[new] = id /\ \A m \in Names : m # new => row'[m] = row[m]
          /\ row'[id] = Nobody /\ \A q \in Phones : q # id => row'[q] = row[q]
        BY <1>0, <2>1
    <2>5. \A q \in Phones : q # id => (Named(q)' <=> Named(q))
        BY <1>0, <2>1, <2>4, NamedIs
    <2>6. Named(id)' /\ row'[id] # id
        BY <1>0, <2>1, <2>4, NamedIs
    <2>7. id \in First
        BY <2>1 DEF First
    <2>8. First' \subseteq First
        BY <1>0, <1>1, <2>3, <2>4, <2>5, <2>7 DEF First
    <2>9. Second' \subseteq Second \ {id}
        BY <1>0, <1>1, <2>4, <2>5, <2>6 DEF Second
    <2>10. CASE poll.cur = id
        <3>1. poll.cur \notin poll.upgrade
            BY <1>0, <2>1, <2>10 DEF IInv, PollKnows
        <3>2. id \notin First'
            BY <1>1, <2>2, <2>6, <2>10, <3>1 DEF First
        <3>3. QED
            BY <1>1, <2>1, <2>4, <2>7, <2>8, <2>9, <3>2 DEF Gives, Fewer
    <2>11. CASE poll.cur # id
        <3>1. id \in Second
            BY <2>1, <2>11 DEF Second
        <3>2. QED
            BY <1>1, <2>1, <2>4, <2>8, <2>9, <3>1 DEF Gives, Fewer
    <2>12. QED
        BY <2>10, <2>11
<1>6. QED
    BY <1>4, <1>5 DEF Start, Authorized, ChooseName, SetAdopted

LEMMA StepKinds ==
    ASSUME IInv, [Next]_vars
    PROVE  Keeps \/ Dies \/ \E p \in Phones, n \in Names : Gives(p, n)
<1>1. CASE Restart
    <2>1. /\ UNCHANGED row /\ poll' = NoPass /\ job' = [id \in Ids |-> NoJob]
          /\ crashes' = crashes + 1
        BY <1>1 DEF Restart
    <2>2. SameNames /\ \A p : Named(p)' <=> Named(p)
        BY <2>1, NamedIs DEF SameNames
    <2>3. \A p \in Phones : p \notin poll'.upgrade /\ job'[p].pc = "none"
        BY <2>1 DEF NoPass, Pass, NoJob, Ids
    <2>4. First' \subseteq First
        BY <2>1, <2>2, <2>3 DEF First
    <2>5. Second' \subseteq Second \cup {poll.cur}
        BY <2>1, <2>2 DEF Second
    <2>6. QED
        BY <2>1, <2>2, <2>4, <2>5 DEF Dies
<1>2. CASE ~Restart
    <2>1. UNCHANGED crashes
        BY <1>2 DEF Next, vars, Plug, Allow, Unplug, Poll, PollRead, UpgradeCreate, UpgradeDelete,
           AutoRegister, PollEnd, Start, Job, Authorized, ChooseName, RenameDevice, SetAdopted
    <2>2. CASE UNCHANGED job /\ \A id \in Ids : ~RenameDevice(id)
        BY <2>1, <2>2, PollNames
    <2>3. QED
        BY <1>2, <2>1, <2>2, JobNames, JobWriters
<1>3. QED
    BY <1>1, <1>2

-----------------------------------------------------------------------------
(* The counts                                                              *)

LEMMA SizesNext ==
    /\ IsFiniteSet(Taken') /\ Cardinality(Taken') \in Nat
    /\ IsFiniteSet(First') /\ Cardinality(First') \in Nat
    /\ IsFiniteSet(Second') /\ Cardinality(Second') \in Nat
    /\ \A p \in Phones : IsFiniteSet(NamesOf(p)') /\ Cardinality(NamesOf(p)') \in Nat
<1>1. Taken' \subseteq Names /\ First' \subseteq Phones /\ Second' \subseteq Phones
    BY DEF Taken, First, Second
<1>2. \A p : NamesOf(p)' \subseteq Names
    BY DEF NamesOf
<1>3. QED
    BY <1>1, <1>2, Constants, FS_Subset, FS_CardinalityType

\* The names taken, and those of each phone, when none is given and when one is.
LEMMA NamesAfter ==
    ASSUME IInv, [Next]_vars
    PROVE  /\ SameNames => /\ Taken' = Taken
                           /\ \A q \in Phones : NamesOf(q)' = NamesOf(q)
           /\ \A p \in Phones, n \in Names : Gives(p, n) =>
                /\ Cardinality(Taken') = Cardinality(Taken) + 1
                /\ Cardinality(NamesOf(p)') = Cardinality(NamesOf(p)) + 1
                /\ \A q \in Phones : q # p => NamesOf(q)' = NamesOf(q)
<1>0. /\ Taken = {n \in Names : row[n] # Nobody} /\ Taken' = {n \in Names : row'[n] # Nobody}
      /\ Nobody \notin Phones
    BY Typed, Constants DEF Taken, Used
<1>1. ASSUME SameNames
      PROVE  Taken' = Taken /\ \A q \in Phones : NamesOf(q)' = NamesOf(q)
    BY <1>0, <1>1 DEF SameNames, NamesOf
<1>2. ASSUME NEW p \in Phones, NEW n \in Names, Gives(p, n)
      PROVE  /\ Cardinality(Taken') = Cardinality(Taken) + 1
             /\ Cardinality(NamesOf(p)') = Cardinality(NamesOf(p)) + 1
             /\ \A q \in Phones : q # p => NamesOf(q)' = NamesOf(q)
    <2>1. n \notin Taken /\ Taken' = Taken \cup {n}
        BY <1>0, <1>2 DEF Gives
    <2>2. n \notin NamesOf(p) /\ NamesOf(p)' = NamesOf(p) \cup {n}
        BY <1>0, <1>2 DEF Gives, NamesOf
    <2>3. \A q \in Phones : q # p => NamesOf(q)' = NamesOf(q)
        BY <1>0, <1>2 DEF Gives, NamesOf
    <2>4. QED
        BY <2>1, <2>2, <2>3, Sizes, FS_AddElement
<1>3. QED
    BY <1>1, <1>2

\* A set of which one element goes is smaller.
LEMMA LosesOne ==
    ASSUME NEW S, NEW T, IsFiniteSet(S), T \subseteq S, NEW e \in S, e \notin T
    PROVE  IsFiniteSet(T) /\ Cardinality(T) + 1 <= Cardinality(S)
<1>1. T \subseteq S \ {e}
    OBVIOUS
<1>2. IsFiniteSet(S \ {e}) /\ Cardinality(S \ {e}) = Cardinality(S) - 1
    BY FS_RemoveElement
<1>3. IsFiniteSet(T) /\ Cardinality(T) <= Cardinality(S \ {e})
    BY <1>1, <1>2, FS_Subset
<1>4. Cardinality(T) \in Nat /\ Cardinality(S) \in Nat
    BY <1>3, FS_CardinalityType
<1>5. QED
    BY <1>2, <1>3, <1>4

LEMMA CountStep ==
    ASSUME IInv, [Next]_vars
    PROVE  NamesSuffice' /\ NamesAreFew'
<1>0. /\ crashes \in Nat /\ Cardinality(Phones) \in Nat
      /\ NamesSuffice /\ NamesAreFew
    BY Typed, Constants DEF IInv
<1> DEFINE Less == Cardinality(First') <= Cardinality(First)
                   /\ Cardinality(Second') <= Cardinality(Second)
<1>1. ASSUME Fewer
      PROVE  Less /\ \A p \in Phones : ToCome(p)' <= ToCome(p) /\ ToCome(p)' \in 0..2
    <2>1. Less
        BY <1>1, Sizes, FS_Subset DEF Fewer
    <2>2. \A p \in Phones : ToCome(p)' <= ToCome(p) /\ ToCome(p)' \in 0..2
        BY <1>1 DEF Fewer, ToCome
    <2>3. QED
        BY <2>1, <2>2
<1>2. CASE Keeps
    <2>1. Taken' = Taken /\ (\A q \in Phones : NamesOf(q)' = NamesOf(q)) /\ crashes' = crashes
        BY <1>2, NamesAfter DEF Keeps
    <2>2. NamesSuffice'
        BY <1>0, <1>1, <1>2, <2>1, Sizes, SizesNext DEF Keeps, NamesSuffice
    <2>3. NamesAreFew'
        BY <1>0, <1>1, <1>2, <2>1, Sizes, SizesNext DEF Keeps, NamesAreFew
    <2>4. QED
        BY <2>2, <2>3
<1>3. ASSUME NEW p \in Phones, NEW n \in Names, Gives(p, n)
      PROVE  NamesSuffice' /\ NamesAreFew'
    <2>1. /\ Cardinality(Taken') = Cardinality(Taken) + 1
          /\ Cardinality(NamesOf(p)') = Cardinality(NamesOf(p)) + 1
          /\ \A q \in Phones : q # p => NamesOf(q)' = NamesOf(q)
        BY <1>3, NamesAfter
    <2>2. /\ Fewer /\ crashes' = crashes
          /\ p \in First \ First' \/ p \in Second \ Second'
        BY <1>3 DEF Gives
    <2>3. Cardinality(First') + Cardinality(Second') + 1
            <= Cardinality(First) + Cardinality(Second)
        <3>1. CASE p \in First \ First'
            BY <1>1, <2>2, <3>1, Sizes, SizesNext, LosesOne DEF Fewer
        <3>2. CASE p \in Second \ Second'
            BY <1>1, <2>2, <3>2, Sizes, SizesNext, LosesOne DEF Fewer
        <3>3. QED
            BY <2>2, <3>1, <3>2
    <2>4. ToCome(p)' + 1 <= ToCome(p)
        BY <2>2 DEF ToCome, Fewer
    <2>5. NamesSuffice'
        BY <1>0, <2>1, <2>2, <2>3, Sizes, SizesNext DEF NamesSuffice
    <2>6. ASSUME NEW q \in Phones
          PROVE  Cardinality(NamesOf(q)') + ToCome(q)' <= 2 + crashes'
        <3>1. Cardinality(NamesOf(q)) + ToCome(q) <= 2 + crashes
            BY <1>0 DEF NamesAreFew
        <3>2. ToCome(q)' <= ToCome(q) /\ ToCome(q)' \in 0..2
            BY <1>1, <2>2
        <3>3. QED
            BY <1>0, <2>1, <2>2, <2>4, <3>1, <3>2, Sizes, SizesNext
    <2>7. QED
        BY <2>5, <2>6 DEF NamesAreFew
<1>4. CASE Dies
    <2>1. Taken' = Taken /\ (\A q \in Phones : NamesOf(q)' = NamesOf(q)) /\ crashes' = crashes + 1
        BY <1>4, NamesAfter DEF Dies
    <2>2. Cardinality(First') <= Cardinality(First)
        BY <1>4, Sizes, FS_Subset DEF Dies
    <2>3. Cardinality(Second') <= Cardinality(Second) + 1
        <3>1. /\ IsFiniteSet(Second \cup {poll.cur})
              /\ Cardinality(Second \cup {poll.cur}) <= Cardinality(Second) + 1
            <4>1. CASE poll.cur \in Second
                <5>1. Second \cup {poll.cur} = Second
                    BY <4>1
                <5>2. QED
                    BY <5>1, Sizes
            <4>2. CASE poll.cur \notin Second
                <5>1. /\ IsFiniteSet(Second \cup {poll.cur})
                      /\ Cardinality(Second \cup {poll.cur}) = Cardinality(Second) + 1
                    BY <4>2, Sizes, FS_AddElement
                <5>2. QED
                    BY <5>1, Sizes
            <4>3. QED
                BY <4>1, <4>2
        <3>2. Cardinality(Second') <= Cardinality(Second \cup {poll.cur})
            BY <1>4, <3>1, FS_Subset DEF Dies
        <3>3. Cardinality(Second \cup {poll.cur}) \in Nat
            BY <3>1, FS_CardinalityType
        <3>4. QED
            BY <3>1, <3>2, <3>3, Sizes, SizesNext
    <2>4. NamesSuffice'
        BY <1>0, <2>1, <2>2, <2>3, Sizes, SizesNext DEF NamesSuffice
    <2>5. ASSUME NEW q \in Phones
          PROVE  Cardinality(NamesOf(q)') + ToCome(q)' <= 2 + crashes'
        <3>1. Cardinality(NamesOf(q)) + ToCome(q) <= 2 + crashes
            BY <1>0 DEF NamesAreFew
        <3>2. ToCome(q)' <= ToCome(q) + 1
            BY <1>4 DEF Dies, ToCome
        <3>3. ToCome(q)' \in 0..2
            BY DEF ToCome
        <3>4. QED
            BY <1>0, <2>1, <3>1, <3>2, <3>3, Sizes
    <2>6. QED
        BY <2>4, <2>5 DEF NamesAreFew
<1>5. QED
    BY <1>2, <1>3, <1>4, StepKinds

-----------------------------------------------------------------------------
(* The invariant is inductive                                              *)

LEMMA InvariantInit ==
    ASSUME Init
    PROVE  IInv
<1>1. TypeOK
    BY RegistryAssumption, Constants DEF Init, TypeOK, NoPass, Pass, NoJob, Used, Ids
<1>2. PollKnows /\ JobKnows
    BY DEF Init, PollKnows, JobKnows, NoPass, Pass, NoJob
<1>3. Taken = {} /\ \A p \in Phones : NamesOf(p) = {}
    BY Constants DEF Init, Taken, Used, NamesOf, Ids
<1>4. Cardinality({}) = 0
    BY FS_EmptySet
<1>5. /\ Cardinality(First) <= Cardinality(Phones)
      /\ Cardinality(Second) <= Cardinality(Phones)
    BY Constants, FS_Subset DEF First, Second
<1>6. crashes = 0
    BY DEF Init
<1>7. NamesSuffice
    BY <1>3, <1>4, <1>5, <1>6, Constants, Sizes DEF NamesSuffice
<1>8. NamesAreFew
    BY <1>3, <1>4, <1>6, Sizes DEF NamesAreFew
<1>9. QED
    BY <1>1, <1>2, <1>7, <1>8 DEF IInv

LEMMA InvariantStep ==
    ASSUME IInv, [Next]_vars
    PROVE  IInv'
<1>1. cable' \in [Phones -> {"out", "unauthorized", "device"}]
    BY DEF IInv, TypeOK, Next, vars, Plug, Allow, Unplug, Poll, PollRead,
       UpgradeCreate, UpgradeDelete, AutoRegister, PollEnd, Start, Job, Authorized, ChooseName,
       RenameDevice, SetAdopted, Restart
<1>2. /\ UNCHANGED unplugs \/ (unplugs < MaxUnplugs /\ unplugs' = unplugs + 1)
      /\ UNCHANGED jobs \/ (jobs < MaxJobs /\ jobs' = jobs + 1)
      /\ UNCHANGED crashes \/ (crashes < MaxCrashes /\ crashes' = crashes + 1)
    BY DEF Next, vars, Plug, Allow, Unplug, Poll, PollRead, UpgradeCreate, UpgradeDelete,
       AutoRegister, PollEnd, Start, Job, Authorized, ChooseName, RenameDevice, SetAdopted, Restart
<1>3. unplugs' \in 0..MaxUnplugs /\ jobs' \in 0..MaxJobs /\ crashes' \in 0..MaxCrashes
    BY <1>2, RegistryAssumption DEF IInv, TypeOK
<1>4. adopted' \subseteq Used' \cap Names
    BY NamesStay DEF Taken
<1>5. TypeOK'
    BY <1>1, <1>3, <1>4, RowStep, PollStep, JobStep DEF TypeOK, PollType, JobType, States
<1>6. QED
    BY <1>5, PollStep, JobStep, CountStep DEF IInv

\* The five parts together hold from the start and through every step of the
\* poll and of the jobs, a crash between any two of them included.
THEOREM Invariant == Spec => []IInv
<1>1. Init => IInv
    BY InvariantInit
<1>2. IInv /\ [Next]_vars => IInv'
    BY InvariantStep
<1>3. QED
    BY <1>1, <1>2, PTL DEF Spec

-----------------------------------------------------------------------------
(* The theorems                                                            *)

\* Every variable stays in its set: a provisional row is that of its own phone,
\* and only a row that is there is adopted.
THEOREM Typing == Spec => []TypeOK
<1>1. IInv => TypeOK
    BY DEF IInv
<1>2. QED
    BY <1>1, Invariant, PTL

\* Whatever a stale pass inserts and whatever jobs rename, the row under a proper
\* name stays that phone's for ever, and adopted once it is.
THEOREM NamesAreForGood == Spec => NamesAreStable
<1>1. IInv /\ [Next]_vars => /\ \A n \in Names : row[n] # Nobody => row'[n] = row[n]
                             /\ adopted \subseteq adopted'
    BY RowStep, NamesStay
<1>2. QED
    BY <1>1, Invariant, PTL DEF Spec, NamesAreStable

\* However often the process dies, and however the poll and the jobs race, a
\* phone has no more than two rows and one for each time it died.
THEOREM FewRows == Spec => []RowsAreBounded
<1>1. ASSUME IInv, NEW p \in Phones
      PROVE  Cardinality(RowsOf(p)) <= 2 + crashes
    <2>0. /\ Ids = Phones \cup Names /\ Phones \cap Names = {} /\ Nobody \notin Phones
          /\ \A q \in Phones : row[q] \in {q, Nobody}
          /\ crashes \in Nat
        BY <1>1, Typed, Constants
    <2>1. Cardinality(NamesOf(p)) + ToCome(p) <= 2 + crashes
        BY <1>1 DEF IInv, NamesAreFew
    <2>2. CASE row[p] = p
        <3>1. RowsOf(p) = NamesOf(p) \cup {p} /\ p \notin NamesOf(p)
            BY <2>0, <2>2 DEF RowsOf, NamesOf
        <3>2. Cardinality(RowsOf(p)) = Cardinality(NamesOf(p)) + 1
            BY <3>1, Sizes, FS_AddElement
        <3>3. ToCome(p) >= 1
            BY <2>2 DEF ToCome, First
        <3>4. QED
            BY <2>0, <2>1, <3>2, <3>3, Sizes
    <2>3. CASE row[p] # p
        <3>1. RowsOf(p) = NamesOf(p)
            BY <2>0, <2>3 DEF RowsOf, NamesOf
        <3>2. QED
            BY <2>0, <2>1, <3>1, Sizes
    <2>4. QED
        BY <2>2, <2>3
<1>2. IInv => RowsAreBounded
    BY <1>1 DEF RowsAreBounded
<1>3. QED
    BY <1>2, Invariant, PTL
=============================================================================
