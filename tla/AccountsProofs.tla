--------------------------- MODULE AccountsProofs ----------------------------
(***************************************************************************)
(* Proofs about Accounts, for every number of requests in flight, sessions *)
(* and links, and every window, cap and limit: the state stays typed, a    *)
(* revoked session and one past its cap stay ended, a change of password,  *)
(* a reset and a disabling end the sessions there were, and a locked key   *)
(* lets nobody in to guess.                                                *)
(***************************************************************************)
EXTENDS Accounts, FiniteSetTheorems, TLAPS

Sizes == 0..Cardinality(Requests)
Account == [row : BOOLEAN, pass : BOOLEAN, disabled : BOOLEAN]
SessionRow == [row : {"none", "live", "revoked"}, left : 0..Idle, age : 0..TTL]
Bucket == [fails : 0..(MaxFails - 1), locked : BOOLEAN, over : Sizes]
Steps == {"idle", "user", "password", "issue", "create", "store", "choose", "spend",
          "owner", "touch", "served", "change", "others"}
Request == [pc : Steps, ref : Sessions \cup Links \cup {None}]

-----------------------------------------------------------------------------
(* The inductive invariant                                                 *)

\* The window of a session that is live ends by its cap, or by the first window
\* when that is longer, and a row that is not live has none.
WindowsEnd ==
    \A s \in Sessions :
        /\ session[s].row = "live" => session[s].left + session[s].age <= Max2(Idle, TTL)
        /\ session[s].row # "live" => session[s].left = 0

\* A session that has to end and has not is not the caller's own in one of the
\* changes that have still to revoke.
OwedIsPending ==
    \A s \in owed \cap Rows("live") :
        cli \in {"reset", "disable"} \/ \E r \in Requests : At(r, "others") /\ req[r].ref # s

\* The requests that have passed the check of the limiter and not yet compared.
Guessing == {r \in Requests : req[r].pc \in {"user", "password"}}

\* Every failure after the lock is of such a request, and one request is not
\* among them: the one whose failure set the lock.
GuessesAreCounted ==
    /\ ~bucket.locked => bucket.over = 0
    /\ bucket.locked => bucket.over + Cardinality(Guessing) < Cardinality(Requests)

IInv == TypeOK /\ WindowsEnd /\ OwedIsPending /\ GuessesAreCounted

-----------------------------------------------------------------------------
(* The rows of sessions                                                    *)

\* The only steps that write the sessions, and what each writes.
LEMMA SessionWriters ==
    ASSUME [Next]_vars
    PROVE  \/ UNCHANGED session
           \/ \E r \in Requests : IssueSession(r) \/ CookieTouch(r)
           \/ \E S \in SUBSET Sessions : Revoke(S)
           \/ PurgeExpiredSessions
           \/ Tick
<1>1. ASSUME NEW r \in Requests, Serve(r)
      PROVE  UNCHANGED session \/ IssueSession(r) \/ CookieTouch(r)
                \/ \E S \in SUBSET Sessions : Revoke(S)
    <2>1. ChangeRevoke(r) => \E S \in SUBSET Sessions : Revoke(S)
        BY DEF ChangeRevoke
    <2>2. UNCHANGED session \/ IssueSession(r) \/ CookieTouch(r) \/ ChangeRevoke(r)
        BY <1>1 DEF Serve, Login, LoginUser, LoginPassword, Register, RegisterCreate,
               RegisterStore, EnrollTokenUser, SetupStore, UseEnrollToken, FromSession,
               CookieOwner, FromBearer, Answer, CreateToken, RevokeToken, ChangePassword,
               ChangeStore
    <2>3. QED
        BY <2>1, <2>2
<1>2. ASSUME NEW s \in Sessions, Logout(s)
      PROVE  \E S \in SUBSET Sessions : Revoke(S)
    BY <1>2 DEF Logout
<1>3. ASSUME Host
      PROVE  UNCHANGED session \/ \E S \in SUBSET Sessions : Revoke(S)
    BY <1>3 DEF Host, UserAdd, UserResetPassword, RevokeUserSessions, NewSetupToken,
           SetUserDisabled, UserEnable, TokenCmd, CommandDies
<1>4. QED
    BY <1>1, <1>2, <1>3 DEF Next, vars, LockLapses, LimiterGc, LinkExpires, Purge, Restart

\* Every write keeps the rows typed and the window of a live session in bounds:
\* the first row, a touch however late, a tick, a revocation, a purge.
LEMMA SessionStep ==
    ASSUME IInv, [Next]_vars
    PROVE  session' \in [Sessions -> SessionRow] /\ WindowsEnd'
<1>0. /\ session \in [Sessions -> SessionRow] /\ WindowsEnd
      /\ Idle \in Nat /\ TTL \in Nat
    BY AccountsAssumption DEF IInv, TypeOK, SessionRow
<1>1. NoSession \in SessionRow /\ NoSession.row = "none" /\ NoSession.left = 0
    BY <1>0 DEF NoSession, SessionRow
<1>2. [NoSession EXCEPT !.row = "revoked"] \in SessionRow
      /\ [NoSession EXCEPT !.row = "revoked"].row = "revoked"
      /\ [NoSession EXCEPT !.row = "revoked"].left = 0
    BY <1>0 DEF NoSession, SessionRow
<1>3. ASSUME NEW r \in Requests, IssueSession(r)
      PROVE  session' \in [Sessions -> SessionRow] /\ WindowsEnd'
    <2> DEFINE fresh == [row |-> "live", left |-> Idle, age |-> 0]
    <2>1. PICK s \in Sessions : session' = [session EXCEPT ![s] = fresh]
        BY <1>3 DEF IssueSession, Rows
    <2>2. Idle \in 0..Idle /\ Idle + 0 <= Max2(Idle, TTL) /\ 0 \in 0..TTL
        BY <1>0 DEF Max2
    <2>3. fresh \in SessionRow /\ fresh.left + fresh.age <= Max2(Idle, TTL) /\ fresh.row = "live"
        BY <2>2 DEF SessionRow
    <2> HIDE DEF fresh
    <2>4. QED
        BY <1>0, <2>1, <2>3 DEF WindowsEnd
<1>4. ASSUME NEW r \in Requests, CookieTouch(r)
      PROVE  session' \in [Sessions -> SessionRow] /\ WindowsEnd'
    <2> DEFINE s == req[r].ref
               left == IF session[s].row = "live" THEN Min2(Idle, TTL - session[s].age) ELSE 0
               touched == [session[s] EXCEPT !.left = left]
    <2>1. session' = [session EXCEPT ![s].left = left]
        BY <1>4 DEF CookieTouch, TouchSession
    <2>2. CASE s \in Sessions
        <3>1. session[s] \in SessionRow
            BY <1>0, <2>2
        <3>2. /\ left \in 0..Idle
              /\ session[s].row = "live" => left + session[s].age <= Max2(Idle, TTL)
            BY <1>0, <3>1 DEF Min2, Max2, SessionRow
        <3>3. session[s].row # "live" => left = 0
            OBVIOUS
        <3> HIDE DEF left
        <3>4. /\ touched \in SessionRow /\ touched.row = session[s].row
              /\ touched.left = left /\ touched.age = session[s].age
            BY <3>1, <3>2 DEF SessionRow
        <3>5. session' = [session EXCEPT ![s] = touched]
            BY <1>0, <2>1, <2>2
        <3> HIDE DEF touched, s
        <3>6. QED
            BY <1>0, <2>2, <3>2, <3>3, <3>4, <3>5 DEF WindowsEnd
    <2>3. CASE s \notin Sessions
        <3>1. session' = session
            BY <1>0, <2>1, <2>3
        <3>2. QED
            BY <1>0, <3>1 DEF WindowsEnd
    <2>4. QED
        BY <2>2, <2>3
<1>5. ASSUME NEW S \in SUBSET Sessions, Revoke(S)
      PROVE  session' \in [Sessions -> SessionRow] /\ WindowsEnd'
    BY <1>0, <1>2, <1>5 DEF Revoke, WindowsEnd
<1>6. CASE PurgeExpiredSessions
    BY <1>0, <1>1, <1>6 DEF PurgeExpiredSessions, WindowsEnd
<1>7. CASE Tick
    <2> DEFINE older(q) == [q EXCEPT !.age = Min2(TTL, @ + 1), !.left = IF @ = 0 THEN 0 ELSE @ - 1]
    <2>1. session' = [s \in Sessions |-> IF session[s].row # "live" THEN session[s]
                                         ELSE older(session[s])]
        BY <1>7 DEF Tick
    <2>2. ASSUME NEW q \in SessionRow, q.left + q.age <= Max2(Idle, TTL)
          PROVE  /\ older(q) \in SessionRow /\ older(q).row = q.row
                 /\ older(q).left + older(q).age <= Max2(Idle, TTL)
        <3>1. Min2(TTL, q.age + 1) \in 0..TTL /\ (IF q.left = 0 THEN 0 ELSE q.left - 1) \in 0..Idle
            BY <1>0 DEF Min2, SessionRow
        <3>2. (IF q.left = 0 THEN 0 ELSE q.left - 1) + Min2(TTL, q.age + 1) <= Max2(Idle, TTL)
            BY <1>0, <2>2 DEF Min2, Max2, SessionRow
        <3>3. /\ older(q).age = Min2(TTL, q.age + 1) /\ older(q).row = q.row
              /\ older(q).left = IF q.left = 0 THEN 0 ELSE q.left - 1
            BY DEF SessionRow
        <3>4. QED
            BY <3>1, <3>2, <3>3 DEF SessionRow
    <2> HIDE DEF older
    <2>3. QED
        BY <1>0, <2>1, <2>2 DEF WindowsEnd
<1>8. CASE UNCHANGED session
    BY <1>0, <1>8 DEF WindowsEnd
<1>9. QED
    BY <1>3, <1>4, <1>5, <1>6, <1>7, <1>8, SessionWriters

\* Only a login makes a session live, and only of a row that is free.
LEMMA LiveRows ==
    ASSUME IInv, [Next]_vars, NEW s \in Sessions, session'[s].row = "live",
           session[s].row # "live"
    PROVE  session[s].row = "none" /\ s \notin owed'
<1>0. session \in [Sessions -> SessionRow]
    BY DEF IInv, TypeOK, SessionRow
<1>1. ASSUME NEW r \in Requests, IssueSession(r)
      PROVE  session[s].row = "none" /\ s \notin owed'
    <2>1. PICK t \in Rows("none") :
            /\ session' = [session EXCEPT ![t] = [row |-> "live", left |-> Idle, age |-> 0]]
            /\ owed' = owed \ {t}
        BY <1>1 DEF IssueSession
    <2>2. s = t
        BY <1>0, <2>1
    <2>3. QED
        BY <2>1, <2>2 DEF Rows
<1>2. ASSUME NEW r \in Requests, CookieTouch(r)
      PROVE  FALSE
    BY <1>0, <1>2 DEF CookieTouch, TouchSession, SessionRow
<1>3. ASSUME NEW S \in SUBSET Sessions, Revoke(S)
      PROVE  FALSE
    BY <1>3 DEF Revoke, NoSession
<1>4. ~PurgeExpiredSessions
    BY DEF PurgeExpiredSessions, NoSession
<1>5. ~Tick
    BY DEF Tick
<1>6. QED
    BY <1>1, <1>2, <1>3, <1>4, <1>5, SessionWriters

-----------------------------------------------------------------------------
(* The requests                                                            *)

\* A request's step is its own: nobody else's changes with it.
LEMMA OthersStay ==
    ASSUME IInv, NEW q \in Requests, Serve(q), NEW r \in Requests, r # q
    PROVE  req'[r] = req[r]
<1>1. req \in [Requests -> Request]
    BY DEF IInv, TypeOK, Request, Steps
<1>2. QED
    BY <1>1 DEF Serve, Login, LoginUser, LoginPassword, IssueSession, Register, RegisterCreate,
           RegisterStore, EnrollTokenUser, SetupStore, UseEnrollToken, FromSession, CookieOwner,
           CookieTouch, FromBearer, Answer, CreateToken, RevokeToken, ChangePassword,
           ChangeStore, ChangeRevoke, Goto, Done

\* A request goes from step to step, and keeps what it carries or drops it.
LEMMA RequestStep ==
    ASSUME IInv, [Next]_vars
    PROVE  req' \in [Requests -> Request]
<1>1. req \in [Requests -> Request]
    BY DEF IInv, TypeOK, Request, Steps
<1>2. NoRequest \in Request
    BY DEF NoRequest, Request, Steps
<1>3. ASSUME NEW r \in Requests, NEW pc \in Steps, Goto(r, pc)
      PROVE  req' \in [Requests -> Request]
    <2>1. [req[r] EXCEPT !.pc = pc] \in Request
        BY <1>1 DEF Request
    <2>2. req' = [req EXCEPT ![r] = [req[r] EXCEPT !.pc = pc]]
        BY <1>1, <1>3 DEF Goto
    <2>3. QED
        BY <1>1, <2>1, <2>2
<1>4. ASSUME NEW r \in Requests, Done(r)
      PROVE  req' \in [Requests -> Request]
    BY <1>1, <1>2, <1>4 DEF Done
<1>5. ASSUME NEW r \in Requests, Serve(r)
      PROVE  req' \in [Requests -> Request]
    <2>1. CASE \E pc \in Steps : Goto(r, pc)
        BY <1>3, <2>1
    <2>2. CASE Done(r)
        BY <1>4, <2>2
    <2>3. CASE \E l \in Links : EnrollTokenUser(r, l)
        BY <1>1, <2>3 DEF EnrollTokenUser, Request, Steps
    <2>4. CASE \E s \in Sessions : FromSession(r, s)
        BY <1>1, <2>4 DEF FromSession, Request, Steps
    <2>5. QED
        BY <1>5, <2>1, <2>2, <2>3, <2>4 DEF Serve, Login, LoginUser, LoginPassword,
           IssueSession, Register, RegisterCreate, RegisterStore, SetupStore, UseEnrollToken,
           CookieOwner, CookieTouch, FromBearer, Answer, CreateToken, RevokeToken,
           ChangePassword, ChangeStore, ChangeRevoke, Steps
<1>6. CASE Restart
    BY <1>2, <1>6 DEF Restart
<1>7. CASE UNCHANGED req
    BY <1>1, <1>7
<1>8. Host => UNCHANGED req
    BY DEF Host, UserAdd, UserResetPassword, RevokeUserSessions, NewSetupToken,
           SetUserDisabled, UserEnable, TokenCmd, CommandDies
<1>9. QED
    BY <1>5, <1>6, <1>7, <1>8 DEF Next, vars, LockLapses, LimiterGc, LinkExpires, Purge, Tick,
       Logout

\* The one step that a change of password that has still to revoke can take.
LEMMA OthersWaits ==
    ASSUME IInv, [Next]_vars, NEW r \in Requests, At(r, "others")
    PROVE  req'[r] = req[r] \/ ChangeRevoke(r) \/ Restart
<1>1. ASSUME NEW q \in Requests, Serve(q)
      PROVE  req'[r] = req[r] \/ ChangeRevoke(r)
    <2>1. CASE q = r
        BY <1>1, <2>1 DEF Serve, Login, LoginUser, LoginPassword, IssueSession, Register,
           RegisterCreate, RegisterStore, EnrollTokenUser, SetupStore, UseEnrollToken,
           FromSession, CookieOwner, CookieTouch, FromBearer, Answer, CreateToken,
           RevokeToken, ChangePassword, ChangeStore, At
    <2>2. QED
        BY <1>1, <2>1, OthersStay
<1>2. Host => UNCHANGED req
    BY DEF Host, UserAdd, UserResetPassword, RevokeUserSessions, NewSetupToken,
           SetUserDisabled, UserEnable, TokenCmd, CommandDies
<1>3. QED
    BY <1>1, <1>2 DEF Next, vars, LockLapses, LimiterGc, LinkExpires, Purge, Tick, Logout

-----------------------------------------------------------------------------
(* The limiter                                                             *)

\* What a step does to the bucket and to those who are guessing: a failure takes
\* the request that failed from among them, and none joins while the key is
\* locked.
LEMMA BucketWriters ==
    ASSUME IInv, [Next]_vars
    PROVE  \/ bucket' = NoBucket
           \/ LockLapses
           \/ UNCHANGED bucket /\ (bucket.locked => Guessing' \subseteq Guessing)
           \/ \E r \in Guessing : Fail /\ Guessing' = Guessing \ {r}
<1>0. req \in [Requests -> Request]
    BY DEF IInv, TypeOK, Request, Steps
<1>1. ASSUME NEW r \in Requests, Serve(r)
      PROVE  \/ bucket' = NoBucket
             \/ UNCHANGED bucket /\ (bucket.locked => Guessing' \subseteq Guessing)
             \/ \E q \in Guessing : Fail /\ Guessing' = Guessing \ {q}
    <2>1. ASSUME At(r, "user") \/ At(r, "password"), Done(r), Fail
          PROVE  \E q \in Guessing : Fail /\ Guessing' = Guessing \ {q}
        <3>1. r \in Guessing
            BY <2>1 DEF Guessing, At
        <3>2. Guessing' = Guessing \ {r}
            BY <1>0, <2>1 DEF Guessing, Done, NoRequest
        <3>3. QED
            BY <2>1, <3>1, <3>2
    <2>2. CASE LoginUser(r)
        <3>1. CASE User
            <4>1. UNCHANGED bucket /\ Goto(r, "password") /\ r \in Guessing
                BY <2>2, <3>1 DEF LoginUser, Guessing, At
            <4>2. Guessing' \subseteq Guessing
                BY <1>0, <4>1 DEF Guessing, Goto
            <4>3. QED
                BY <4>1, <4>2
        <3>2. QED
            BY <2>1, <2>2, <3>1 DEF LoginUser
    <2>3. CASE LoginPassword(r)
        BY <2>1, <2>3 DEF LoginPassword, Ok
    <2>4. CASE Login(r)
        BY <2>4 DEF Login, Blocked
    <2>5. ASSUME ~LoginUser(r), ~LoginPassword(r), ~Login(r)
          PROVE  UNCHANGED bucket /\ Guessing' \subseteq Guessing
        <3>1. UNCHANGED bucket /\ req'[r].pc \notin {"user", "password"}
            BY <1>0, <1>1, <2>5 DEF Serve, IssueSession, Register, RegisterCreate, RegisterStore,
               EnrollTokenUser, SetupStore, UseEnrollToken, FromSession, CookieOwner,
               CookieTouch, FromBearer, Answer, CreateToken, RevokeToken, ChangePassword,
               ChangeStore, ChangeRevoke, Goto, Done, NoRequest, Request
        <3>2. QED
            BY <1>1, <3>1, OthersStay DEF Guessing
    <2>6. QED
        BY <2>2, <2>3, <2>4, <2>5
<1>2. Host => UNCHANGED <<bucket, req>>
    BY DEF Host, UserAdd, UserResetPassword, RevokeUserSessions, NewSetupToken,
           SetUserDisabled, UserEnable, TokenCmd, CommandDies
<1>3. UNCHANGED req => Guessing' = Guessing
    BY DEF Guessing
<1>4. QED
    BY <1>1, <1>2, <1>3 DEF Next, vars, LimiterGc, LinkExpires, Purge, Tick, Logout, Restart

\* The count of the failures past the lock stays below the requests there are.
LEMMA BucketStep ==
    ASSUME IInv, [Next]_vars
    PROVE  bucket' \in Bucket /\ GuessesAreCounted'
<1>0. /\ bucket \in Bucket /\ GuessesAreCounted
      /\ MaxFails \in Nat \ {0}
    BY AccountsAssumption DEF IInv, TypeOK, Bucket, Sizes
<1>1. /\ IsFiniteSet(Requests) /\ Cardinality(Requests) \in Nat
      /\ Cardinality(Requests) > 0
    BY AccountsAssumption, FS_CardinalityType, FS_EmptySet
<1>2. ASSUME NEW G \in SUBSET Requests
      PROVE  IsFiniteSet(G) /\ Cardinality(G) \in Nat /\ Cardinality(G) <= Cardinality(Requests)
    BY <1>1, FS_Subset, FS_CardinalityType
<1>3. Guessing \subseteq Requests /\ Guessing' \subseteq Requests
    BY DEF Guessing
<1>4. NoBucket \in Bucket /\ ~NoBucket.locked /\ NoBucket.over = 0
    BY <1>0, <1>1 DEF NoBucket, Bucket, Sizes
<1>5. CASE bucket' = NoBucket
    BY <1>4, <1>5 DEF GuessesAreCounted
<1>6. CASE LockLapses
    <2>1. bucket' = [bucket EXCEPT !.locked = FALSE, !.over = 0]
        BY <1>6 DEF LockLapses
    <2>2. bucket' = [fails |-> bucket.fails, locked |-> FALSE, over |-> 0]
        BY <1>0, <2>1 DEF Bucket
    <2>3. 0 \in Sizes /\ bucket.fails \in 0..(MaxFails - 1)
        BY <1>0, <1>1 DEF Bucket, Sizes
    <2>4. bucket' \in Bucket /\ ~bucket'.locked /\ bucket'.over = 0
        BY <2>2, <2>3 DEF Bucket
    <2>5. QED
        BY <2>4 DEF GuessesAreCounted
<1>7. CASE UNCHANGED bucket /\ (bucket.locked => Guessing' \subseteq Guessing)
    <2>1. bucket.locked => Cardinality(Guessing') <= Cardinality(Guessing)
        BY <1>2, <1>3, <1>7, FS_Subset
    <2>2. bucket.over \in Nat
        BY <1>0, <1>1 DEF Bucket, Sizes
    <2>3. Cardinality(Guessing') \in Nat /\ Cardinality(Guessing) \in Nat
        BY <1>2, <1>3
    <2>4. QED
        BY <1>0, <1>1, <1>7, <2>1, <2>2, <2>3 DEF GuessesAreCounted
<1>8. ASSUME NEW r \in Guessing, Fail, Guessing' = Guessing \ {r}
      PROVE  bucket' \in Bucket /\ GuessesAreCounted'
    <2> DEFINE n == Cardinality(Guessing)
    <2>1. /\ n \in Nat /\ n <= Cardinality(Requests)
          /\ Cardinality(Guessing') = n - 1
        BY <1>2, <1>3, <1>8, FS_RemoveElement
    <2>2. /\ bucket'.fails = IF bucket.fails + 1 >= MaxFails THEN 0 ELSE bucket.fails + 1
          /\ bucket'.locked = (bucket.locked \/ bucket.fails + 1 >= MaxFails)
          /\ bucket'.over = IF bucket.locked THEN bucket.over + 1 ELSE 0
          /\ bucket' = [fails |-> bucket'.fails, locked |-> bucket'.locked, over |-> bucket'.over]
        BY <1>8 DEF Fail
    <2>3. /\ bucket.fails \in 0..(MaxFails - 1) /\ bucket.over \in Nat /\ bucket.locked \in BOOLEAN
        BY <1>0, <1>1 DEF Bucket, Sizes
    <2>4. bucket'.fails \in 0..(MaxFails - 1)
        BY <1>0, <2>2, <2>3
    <2>5. bucket'.locked \in BOOLEAN
        BY <2>2
    <2> HIDE DEF n
    <2>6. bucket.locked => bucket.over + n < Cardinality(Requests)
        BY <1>0 DEF GuessesAreCounted, n
    <2>7. bucket'.over \in Nat /\ bucket'.over + (n - 1) < Cardinality(Requests)
        BY <1>1, <2>1, <2>2, <2>3, <2>6
    <2>8. n > 0
        BY <1>2, <1>3, <2>1
    <2>9. bucket'.over \in Sizes
        BY <1>1, <2>1, <2>7, <2>8 DEF Sizes
    <2>10. ~bucket'.locked => bucket'.over = 0
        BY <2>2
    <2>11. GuessesAreCounted'
        BY <2>1, <2>7, <2>10 DEF GuessesAreCounted
    <2>12. QED
        BY <2>2, <2>4, <2>5, <2>9, <2>11 DEF Bucket
<1>9. QED
    BY <1>5, <1>6, <1>7, <1>8, BucketWriters

-----------------------------------------------------------------------------
(* The invariant                                                           *)

LEMMA InvariantInit == ASSUME Init PROVE IInv
<1>1. Cardinality(Requests) \in Nat /\ Idle \in Nat /\ TTL \in Nat /\ MaxFails \in Nat \ {0}
    BY AccountsAssumption, FS_CardinalityType
<1>2. NoSession \in SessionRow /\ NoBucket \in Bucket /\ NoRequest \in Request
    BY <1>1 DEF NoSession, SessionRow, NoBucket, Bucket, Sizes, NoRequest, Request, Steps
<1>3. TypeOK
    BY <1>2 DEF Init, TypeOK, SessionRow, Bucket, Request, Steps, Sizes
<1>4. WindowsEnd /\ OwedIsPending
    BY DEF Init, WindowsEnd, OwedIsPending, NoSession
<1>5. GuessesAreCounted
    BY DEF Init, GuessesAreCounted, NoBucket
<1>6. QED
    BY <1>3, <1>4, <1>5 DEF IInv

\* The tables, the host's command and the history stay typed.
LEMMA TypeStep ==
    ASSUME IInv, [Next]_vars
    PROVE  TypeOK'
<1>1. /\ account \in Account /\ link \subseteq Links /\ token \in BOOLEAN
      /\ cli \in {"idle", "link", "reset", "disable"} /\ owed \subseteq Sessions
    BY DEF IInv, TypeOK, Account
<1>0. /\ [row |-> TRUE, pass |-> FALSE, disabled |-> FALSE] \in Account
      /\ \A a \in Account, b \in BOOLEAN :
            [a EXCEPT !.pass = b] \in Account /\ [a EXCEPT !.disabled = b] \in Account
    BY DEF Account
<1>2. ASSUME NEW r \in Requests, Serve(r)
      PROVE  /\ account' \in Account /\ link' \subseteq Links /\ token' \in BOOLEAN
             /\ UNCHANGED cli /\ owed' \subseteq Sessions
    <2>1. account' \in Account
        BY <1>0, <1>1, <1>2 DEF Serve, Login, LoginUser, LoginPassword, IssueSession, Register,
           RegisterCreate, RegisterStore, EnrollTokenUser, SetupStore, UseEnrollToken,
           FromSession, CookieOwner, CookieTouch, FromBearer, Answer, CreateToken,
           RevokeToken, ChangePassword, ChangeStore, ChangeRevoke, SetPassword
    <2>2. link' \subseteq Links /\ token' \in BOOLEAN /\ UNCHANGED cli
        BY <1>1, <1>2 DEF Serve, Login, LoginUser, LoginPassword, IssueSession, Register,
           RegisterCreate, RegisterStore, EnrollTokenUser, SetupStore, UseEnrollToken,
           FromSession, CookieOwner, CookieTouch, FromBearer, Answer, CreateToken,
           RevokeToken, ChangePassword, ChangeStore, ChangeRevoke, CreateAPIToken,
           DeleteAPIToken
    <2>3. owed' \subseteq Sessions
        BY <1>1, <1>2 DEF Serve, Login, LoginUser, LoginPassword, IssueSession, Register,
           RegisterCreate, RegisterStore, EnrollTokenUser, SetupStore, UseEnrollToken,
           FromSession, CookieOwner, CookieTouch, FromBearer, Answer, CreateToken,
           RevokeToken, ChangePassword, ChangeStore, ChangeRevoke, Rows
    <2>4. QED
        BY <2>1, <2>2, <2>3
<1>3. ASSUME Host
      PROVE  /\ account' \in Account /\ link' \subseteq Links /\ token' \in BOOLEAN
             /\ cli' \in {"idle", "link", "reset", "disable"} /\ owed' \subseteq Sessions
    <2>1. account' \in Account
        BY <1>0, <1>1, <1>3 DEF Host, UserAdd, UserResetPassword, RevokeUserSessions,
           NewSetupToken, SetUserDisabled, UserEnable, TokenCmd, CommandDies, ClearPassword
    <2>2. link' \subseteq Links /\ token' \in BOOLEAN
        BY <1>1, <1>3 DEF Host, UserAdd, UserResetPassword, RevokeUserSessions,
           NewSetupToken, SetUserDisabled, UserEnable, TokenCmd, CommandDies,
           CreateEnrollToken, CreateAPIToken, DeleteAPIToken
    <2>3. cli' \in {"idle", "link", "reset", "disable"} /\ owed' \subseteq Sessions
        BY <1>1, <1>3 DEF Host, UserAdd, UserResetPassword, RevokeUserSessions,
           NewSetupToken, SetUserDisabled, UserEnable, TokenCmd, CommandDies, Rows
    <2>4. QED
        BY <2>1, <2>2, <2>3
<1>4. ASSUME \/ UNCHANGED vars \/ LockLapses \/ LimiterGc \/ Tick \/ Purge \/ Restart
             \/ \E s \in Sessions : Logout(s)
             \/ \E l \in Links : LinkExpires(l)
      PROVE  /\ account' \in Account /\ link' \subseteq Links /\ token' \in BOOLEAN
             /\ UNCHANGED cli /\ owed' \subseteq Sessions
    BY <1>1, <1>4 DEF vars, LockLapses, LimiterGc, Tick, Purge, Restart, Logout, LinkExpires
<1>5. /\ account' \in Account /\ link' \subseteq Links /\ token' \in BOOLEAN
      /\ cli' \in {"idle", "link", "reset", "disable"} /\ owed' \subseteq Sessions
    BY <1>1, <1>2, <1>3, <1>4 DEF Next
<1>6. QED
    BY <1>5, SessionStep, RequestStep, BucketStep
       DEF TypeOK, Account, SessionRow, Bucket, Sizes, Request, Steps

\* A session that becomes owed belongs to a command or to a change of password
\* that has its revocation before it.
LEMMA NewlyOwed ==
    ASSUME IInv, [Next]_vars, NEW s \in owed', s \notin owed
    PROVE  \/ cli' \in {"reset", "disable"}
           \/ \E r \in Requests : At(r, "others")' /\ req'[r].ref # s
<1>0. req \in [Requests -> Request]
    BY DEF IInv, TypeOK, Request, Steps
<1>1. ASSUME NEW r \in Requests, Serve(r)
      PROVE  At(r, "others")' /\ req'[r].ref # s
    <2>1. ChangeStore(r)
        BY <1>1 DEF Serve, Login, LoginUser, LoginPassword, IssueSession, Register,
           RegisterCreate, RegisterStore, EnrollTokenUser, SetupStore, UseEnrollToken,
           FromSession, CookieOwner, CookieTouch, FromBearer, Answer, CreateToken,
           RevokeToken, ChangePassword, ChangeRevoke
    <2>2. s # req[r].ref /\ req' = [req EXCEPT ![r].pc = "others"]
        BY <2>1 DEF ChangeStore, Goto
    <2>3. QED
        BY <1>0, <2>2 DEF At, Request
<1>2. Host => cli' \in {"reset", "disable"}
    BY DEF Host, UserAdd, UserResetPassword, RevokeUserSessions, NewSetupToken,
       SetUserDisabled, UserEnable, TokenCmd, CommandDies
<1>3. QED
    BY <1>1, <1>2 DEF Next, vars, LockLapses, LimiterGc, LinkExpires, Purge, Tick, Logout,
       Restart

\* The command of the host that has still to revoke either revokes every session,
\* or is interrupted and owes nothing more.
LEMMA CommandWaits ==
    ASSUME IInv, [Next]_vars, cli \in {"reset", "disable"}
    PROVE  UNCHANGED cli \/ Revoke(Sessions) \/ owed' = {}
<1>1. ASSUME NEW r \in Requests, Serve(r)
      PROVE  UNCHANGED cli
    BY <1>1 DEF Serve, Login, LoginUser, LoginPassword, IssueSession, Register,
       RegisterCreate, RegisterStore, EnrollTokenUser, SetupStore, UseEnrollToken,
       FromSession, CookieOwner, CookieTouch, FromBearer, Answer, CreateToken,
       RevokeToken, ChangePassword, ChangeStore, ChangeRevoke
<1>2. Host => Revoke(Sessions) \/ owed' = {}
    BY DEF Host, UserAdd, UserResetPassword, RevokeUserSessions, NewSetupToken,
       SetUserDisabled, UserEnable, TokenCmd, CommandDies
<1>3. QED
    BY <1>1, <1>2 DEF Next, vars, LockLapses, LimiterGc, LinkExpires, Purge, Tick, Logout,
       Restart

LEMMA OwedStep ==
    ASSUME IInv, [Next]_vars
    PROVE  OwedIsPending'
<1> SUFFICES ASSUME NEW s \in Sessions, s \in owed', session'[s].row = "live"
             PROVE  \/ cli' \in {"reset", "disable"}
                    \/ \E r \in Requests : At(r, "others")' /\ req'[r].ref # s
    BY TypeStep DEF OwedIsPending, Rows, TypeOK
<1>1. session[s].row = "live"
    BY LiveRows
<1>2. CASE s \notin owed
    BY <1>2, NewlyOwed
<1>3. ASSUME s \in owed, cli \in {"reset", "disable"}
      PROVE  cli' \in {"reset", "disable"}
    <2>1. ~Revoke(Sessions)
        BY DEF Revoke, NoSession
    <2>2. QED
        BY <1>3, <2>1, CommandWaits
<1>4. ASSUME s \in owed, cli \notin {"reset", "disable"}, NEW r \in Requests,
             At(r, "others"), req[r].ref # s
      PROVE  At(r, "others")' /\ req'[r].ref # s
    <2>1. ~ChangeRevoke(r)
        BY <1>4 DEF ChangeRevoke, Revoke, NoSession
    <2>2. ~Restart
        BY <1>4 DEF Restart
    <2>3. QED
        BY <1>4, <2>1, <2>2, OthersWaits DEF At
<1>5. s \in owed => \/ cli \in {"reset", "disable"}
                    \/ \E r \in Requests : At(r, "others") /\ req[r].ref # s
    BY <1>1 DEF IInv, OwedIsPending, Rows
<1>6. QED
    BY <1>2, <1>3, <1>4, <1>5

LEMMA InvariantStep ==
    ASSUME IInv, [Next]_vars
    PROVE  IInv'
BY TypeStep, SessionStep, OwedStep, BucketStep DEF IInv

\* The four parts together hold from the start and through every step, of the
\* server's handlers and of the host's command.
THEOREM Invariant == Spec => []IInv
<1>1. IInv /\ [Next]_vars => IInv'
    BY InvariantStep
<1>2. QED
    BY InvariantInit, <1>1, PTL DEF Spec

-----------------------------------------------------------------------------
(* What a reader should know of                                            *)

\* Every request, row, link and bucket keeps its type, whatever is in flight:
\* the count of failures never runs past the requests there are (auth.go's
\* handlers over store/auth.go).
THEOREM Typing == Spec => []TypeOK
<1>1. IInv => TypeOK
    BY DEF IInv
<1>2. QED
    BY Invariant, <1>1, PTL

\* Only a touch lengthens the window of a live session, and never past the cap.
LEMMA LongerWindow ==
    ASSUME IInv, [Next]_vars, NEW s \in Sessions, session[s].row = "live",
           session'[s].left > session[s].left
    PROVE  session'[s].left + session'[s].age <= TTL
<1>0. session \in [Sessions -> SessionRow] /\ Idle \in Nat /\ TTL \in Nat
    BY AccountsAssumption DEF IInv, TypeOK, SessionRow
<1>1. session[s] \in SessionRow /\ ~(session[s].left > session[s].left)
    BY <1>0 DEF SessionRow
<1>2. ASSUME NEW r \in Requests, CookieTouch(r)
      PROVE  session'[s].left + session'[s].age <= TTL
    <2> DEFINE left == Min2(Idle, TTL - session[s].age)
    <2>1. left + session[s].age <= TTL
        BY <1>0, <1>1 DEF Min2, SessionRow
    <2>2. req[r].ref = s => session'[s].left = left /\ session'[s].age = session[s].age
        BY <1>0, <1>1, <1>2 DEF CookieTouch, TouchSession, SessionRow
    <2>3. req[r].ref = s
        BY <1>0, <1>1, <1>2 DEF CookieTouch, TouchSession
    <2>4. QED
        BY <2>1, <2>2, <2>3
<1>3. ASSUME NEW r \in Requests, IssueSession(r)
      PROVE  FALSE
    <2>1. PICK t \in Rows("none") :
            session' = [session EXCEPT ![t] = [row |-> "live", left |-> Idle, age |-> 0]]
        BY <1>3 DEF IssueSession
    <2>2. session'[s] = session[s]
        BY <1>0, <2>1 DEF Rows
    <2>3. QED
        BY <1>1, <2>2
<1>4. ASSUME NEW S \in SUBSET Sessions, Revoke(S)
      PROVE  FALSE
    <2>1. session'[s].left \in {session[s].left, 0}
        BY <1>0, <1>4 DEF Revoke, NoSession
    <2>2. QED
        BY <1>1, <2>1 DEF SessionRow
<1>5. CASE PurgeExpiredSessions
    <2>1. session'[s].left \in {session[s].left, 0}
        BY <1>0, <1>5 DEF PurgeExpiredSessions, NoSession
    <2>2. QED
        BY <1>1, <2>1 DEF SessionRow
<1>6. CASE Tick
    <2>1. session'[s].left = IF session[s].left = 0 THEN 0 ELSE session[s].left - 1
        BY <1>0, <1>1, <1>6 DEF Tick, SessionRow
    <2>2. QED
        BY <1>1, <2>1 DEF SessionRow
<1>7. QED
    BY <1>1, <1>2, <1>3, <1>4, <1>5, <1>6, SessionWriters

\* A revoked session never comes back to life, no touch, however late it lands,
\* carries a session past its absolute cap, and none is good for longer than the
\* cap or the first window, which the code does not cap (store.SessionByToken,
\* TouchSession, auth.issueSession).  One whose idle window has passed may be
\* reopened by a late touch.
THEOREM SessionsDoEnd == Spec => SessionsEnd
<1> DEFINE Ends(s) ==
        /\ session[s].row = "revoked" => session'[s].row # "live"
        /\ session[s].row = "live" /\ session'[s].left > session[s].left =>
              session'[s].age + session'[s].left <= TTL
        /\ session'[s].left > 0 => session'[s].age + session'[s].left <= Max2(Idle, TTL)
<1>1. ASSUME IInv, [Next]_vars, NEW s \in Sessions
      PROVE  Ends(s)
    <2>1. session[s].row = "revoked" => session'[s].row # "live"
        BY <1>1, LiveRows
    <2>2. session' \in [Sessions -> SessionRow] /\ WindowsEnd' /\ TTL \in Nat /\ Idle \in Nat
        BY <1>1, SessionStep, AccountsAssumption
    <2>3. session'[s].left > 0 => session'[s].age + session'[s].left <= Max2(Idle, TTL)
        BY <2>2 DEF SessionRow, WindowsEnd
    <2>4. session[s].row = "live" /\ session'[s].left > session[s].left =>
             session'[s].age + session'[s].left <= TTL
        BY <1>1, <2>2, LongerWindow DEF SessionRow
    <2>5. QED
        BY <2>1, <2>3, <2>4
<1>2. IInv /\ [Next]_vars => [\A s \in Sessions : Ends(s)]_vars
    BY <1>1
<1>3. QED
    BY Invariant, <1>2, PTL DEF Spec, SessionsEnd

\* A session that a change of password, a reset or a disabling has to end is
\* still good only while that change has its revocation before it
\* (auth.ChangePassword, the command `poligon user').
THEOREM ChangesEnd == Spec => []ChangesEndSessions
<1>1. IInv => ChangesEndSessions
    BY DEF IInv, OwedIsPending, ChangesEndSessions
<1>2. QED
    BY Invariant, <1>1, PTL

\* Fewer failures than there are requests get past the lock of a key
\* (limiter.blocked, limiter.fail).
THEOREM LocksHold == Spec => []LockHolds
<1>1. ASSUME IInv
      PROVE  LockHolds
    <2>1. IsFiniteSet(Requests) /\ Requests # {} /\ Cardinality(Requests) \in Nat
        BY AccountsAssumption, FS_CardinalityType
    <2>2. Cardinality(Requests) # 0
        BY <2>1, FS_EmptySet
    <2>3. Cardinality(Guessing) \in Nat
        BY <2>1, FS_Subset, FS_CardinalityType DEF Guessing
    <2>4. bucket.over \in Nat
        BY <1>1, <2>1 DEF IInv, TypeOK
    <2>5. \/ bucket.over = 0
          \/ bucket.over + Cardinality(Guessing) < Cardinality(Requests)
        BY <1>1 DEF IInv, TypeOK, GuessesAreCounted
    <2>6. QED
        BY <2>1, <2>2, <2>3, <2>4, <2>5 DEF LockHolds
<1>2. QED
    BY Invariant, <1>1, PTL
==============================================================================
