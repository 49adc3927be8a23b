------------------------------ MODULE Accounts ------------------------------
(***************************************************************************)
(* Accounts, sessions and tokens: internal/auth/auth.go over the tables    *)
(* `users`, `sessions`, `enroll_tokens` and `api_tokens`                   *)
(* (internal/store/auth.go, apitokens.go), with the commands of the host,  *)
(* `poligon user` and `poligon token`, that write the same tables from a   *)
(* process of their own.                                                   *)
(*                                                                         *)
(* One account.  Every statement is one atomic step of SQLite, every       *)
(* handler a sequence of them, and handlers interleave.  A password is     *)
(* what a comparison finds it to be, right or wrong: only a right one      *)
(* needs a stored hash.  Cookies, tokens and links are their hashes: a     *)
(* row is created under a name no request in flight carries.               *)
(***************************************************************************)
EXTENDS Naturals, FiniteSets

CONSTANTS
    Requests,       \* the requests the server can have in flight
    Sessions,       \* names of session rows
    Links,          \* names of set-password links
    None,           \* the credential of a request that carries none
    Idle,           \* sliding window of a session, in ticks
    TTL,            \* absolute cap on a session, in ticks
    MaxFails        \* failures that lock a key (5)

ASSUME AccountsAssumption ==
    /\ IsFiniteSet(Requests) /\ Requests # {}
    /\ None \notin Sessions \cup Links
    /\ Idle \in Nat \ {0}
    /\ TTL \in Nat \ {0}
    /\ MaxFails \in Nat \ {0}

VARIABLES
    account,    \* the row of `users`
    session,    \* session[s]: row s of `sessions`
    link,       \* the set-password links that are unspent and in their 72 hours
    token,      \* is there a personal API token?
    bucket,     \* the limiter's count for the account's key
    req,        \* req[r]: what request r is doing
    cli,        \* what the host's command is doing
    owed        \* (history) sessions a finished or running change of password,
                \* reset or disabling has to end

vars == <<account, session, link, token, bucket, req, cli, owed>>

NoBucket == [fails |-> 0, locked |-> FALSE, over |-> 0]
NoSession == [row |-> "none", left |-> 0, age |-> 0]

NoRequest == [pc |-> "idle", ref |-> None]

TypeOK ==
    /\ account \in [row : BOOLEAN, pass : BOOLEAN, disabled : BOOLEAN]
    /\ session \in [Sessions -> [row : {"none", "live", "revoked"}, left : 0..Idle, age : 0..TTL]]
    /\ link \subseteq Links
    /\ token \in BOOLEAN
    /\ bucket \in [fails : 0..(MaxFails - 1), locked : BOOLEAN, over : 0..Cardinality(Requests)]
    /\ req \in [Requests -> [pc : {"idle", "user", "password", "issue", "create", "store",
                                   "choose", "spend", "owner", "touch", "served",
                                   "change", "others"},
                             ref : Sessions \cup Links \cup {None}]]
    /\ cli \in {"idle", "link", "reset", "disable"}
    /\ owed \subseteq Sessions

Init ==
    /\ account = [row |-> FALSE, pass |-> FALSE, disabled |-> FALSE]
    /\ session = [s \in Sessions |-> NoSession]
    /\ link = {}
    /\ token = FALSE
    /\ bucket = NoBucket
    /\ req = [r \in Requests |-> NoRequest]
    /\ cli = "idle"
    /\ owed = {}

Min2(a, b) == IF a <= b THEN a ELSE b
Max2(a, b) == IF a <= b THEN b ELSE a
InFlight(ref) == \E r \in Requests : req[r].ref = ref
At(r, pc) == req[r].pc = pc
Goto(r, pc) == req' = [req EXCEPT ![r].pc = pc]
Done(r) == req' = [req EXCEPT ![r] = NoRequest]

-----------------------------------------------------------------------------
(* Statements on the tables                                                *)

Rows(st) == {s \in Sessions : session[s].row = st}
Expired == {s \in Rows("live") : session[s].left = 0}

SetPassword == account' = [account EXCEPT !.pass = TRUE]
ClearPassword == account' = [account EXCEPT !.pass = FALSE]

\* Of a session row the query wants it unrevoked and unexpired.
SessionByToken(s) == session[s].row = "live" /\ session[s].left > 0

\* Mutant: the cap is forgotten.
TouchSession_NoCap(s) ==
    session' = [session EXCEPT ![s].left = IF session[s].row = "live" THEN Idle ELSE 0]

\* The idle window slides, never past the cap.  A second touch within one
\* minute, which the code leaves out, would write the same row.
TouchSession(s) ==
    session' = [session EXCEPT ![s].left =
                   IF session[s].row = "live" THEN Min2(Idle, TTL - session[s].age) ELSE 0]

\* Mutant: only sessions that have not expired.
Revoke_Unexpired(S) ==
    session' = [s \in Sessions |-> IF s \in S /\ SessionByToken(s)
                                   THEN [NoSession EXCEPT !.row = "revoked"]
                                   ELSE session[s]]

\* UPDATE sessions SET revoked = 1 for the sessions S, whose dates no longer
\* matter.
Revoke(S) ==
    session' = [s \in Sessions |-> IF s \in S /\ session[s].row = "live"
                                   THEN [NoSession EXCEPT !.row = "revoked"]
                                   ELSE session[s]]

CreateAPIToken == ~token /\ token' = TRUE
DeleteAPIToken == token' = FALSE

\* Of a token's owner the query wants it not disabled.
APITokenUser == token /\ ~account.disabled

\* What Login wants of the account's row.
User == account.row /\ ~account.disabled /\ account.pass

CreateEnrollToken == \E l \in Links \ link : ~InFlight(l) /\ link' = link \cup {l}

\* Rows revoked, or expired more than a day ago, which some of the expired are.
PurgeExpiredSessions ==
    \E long \in SUBSET Expired :
        session' = [s \in Sessions |-> IF s \in Rows("revoked") \cup long
                                       THEN NoSession ELSE session[s]]

-----------------------------------------------------------------------------
(* The limiter, in memory, for logins to the account                       *)

Blocked == bucket.locked

\* Mutant: the count goes on after the lock.
Fail_NoReset ==
    bucket' = [fails |-> bucket.fails + 1,
               locked |-> bucket.locked \/ bucket.fails + 1 >= MaxFails,
               over |-> IF bucket.locked THEN bucket.over + 1 ELSE 0]

\* At MaxFails the key is locked for 15 minutes and the count starts again.
\* `over' counts (history) the failures of requests let in before the lock.
Fail ==
    LET full == bucket.fails + 1 >= MaxFails
    IN  bucket' = [fails |-> IF full THEN 0 ELSE bucket.fails + 1,
                   locked |-> bucket.locked \/ full,
                   over |-> IF bucket.locked THEN bucket.over + 1 ELSE 0]

\* A right password deletes the bucket, and with it a lock.
Ok == bucket' = NoBucket

\* 15 minutes after the lock was set.
LockLapses ==
    /\ bucket.locked
    /\ bucket' = [bucket EXCEPT !.locked = FALSE, !.over = 0]
    /\ UNCHANGED <<account, session, link, token, req, cli, owed>>

\* Every 10 minutes buckets not failed for 15 and not locked are forgotten.
LimiterGc ==
    /\ ~bucket.locked
    /\ bucket.fails > 0
    /\ bucket' = NoBucket
    /\ UNCHANGED <<account, session, link, token, req, cli, owed>>

-----------------------------------------------------------------------------
(* Login and registration                                                  *)

\* Mutant: nobody asks whether the key is locked.
Login_Unchecked(r) ==
    /\ At(r, "idle")
    /\ Goto(r, "user")
    /\ UNCHANGED <<account, session, link, token, bucket, cli, owed>>

Login(r) ==
    /\ At(r, "idle")
    /\ ~Blocked
    /\ Goto(r, "user")
    /\ UNCHANGED <<account, session, link, token, bucket, cli, owed>>

LoginUser(r) ==
    /\ At(r, "user")
    /\ IF User
       THEN Goto(r, "password") /\ UNCHANGED bucket
       ELSE Done(r) /\ Fail
    /\ UNCHANGED <<account, session, link, token, cli, owed>>

\* The hash is read by a query of its own.
LoginPassword(r) ==
    /\ At(r, "password")
    /\ \/ account.pass /\ Ok /\ Goto(r, "issue")
       \/ Fail /\ Done(r)
    /\ UNCHANGED <<account, session, link, token, cli, owed>>

\* The first window is the idle one, whatever the cap.
IssueSession(r) ==
    /\ At(r, "issue")
    /\ \E s \in Rows("none") :
          /\ ~InFlight(s)
          /\ session' = [session EXCEPT ![s] = [row |-> "live", left |-> Idle, age |-> 0]]
          /\ owed' = owed \ {s}
    /\ Done(r)
    /\ UNCHANGED <<account, link, token, bucket, cli>>

\* Registrations are limited by a key of their own, the caller's address: any
\* may be refused, and is not modelled then.
Register(r) ==
    /\ At(r, "idle")
    /\ Goto(r, "create")
    /\ UNCHANGED <<account, session, link, token, bucket, cli, owed>>

\* CreateUser: the name is the primary key.
RegisterCreate(r) ==
    /\ At(r, "create")
    /\ IF account.row
       THEN Done(r) /\ UNCHANGED account
       ELSE /\ account' = [row |-> TRUE, pass |-> FALSE, disabled |-> FALSE]
            /\ Goto(r, "store")
    /\ UNCHANGED <<session, link, token, bucket, cli, owed>>

RegisterStore(r) ==
    /\ At(r, "store")
    /\ SetPassword
    /\ Goto(r, "issue")
    /\ UNCHANGED <<session, link, token, bucket, cli, owed>>

-----------------------------------------------------------------------------
(* A set-password link                                                     *)

EnrollTokenUser(r, l) ==
    /\ At(r, "idle")
    /\ l \in link
    /\ req' = [req EXCEPT ![r] = [pc |-> "choose", ref |-> l]]
    /\ UNCHANGED <<account, session, link, token, bucket, cli, owed>>

SetupStore(r) ==
    /\ At(r, "choose")
    /\ SetPassword
    /\ Goto(r, "spend")
    /\ UNCHANGED <<session, link, token, bucket, cli, owed>>

UseEnrollToken(r) ==
    /\ At(r, "spend")
    /\ link' = link \ {req[r].ref}
    /\ Goto(r, "issue")
    /\ UNCHANGED <<account, session, token, bucket, cli, owed>>

LinkExpires(l) ==
    /\ l \in link
    /\ link' = link \ {l}
    /\ UNCHANGED <<account, session, token, bucket, req, cli, owed>>

-----------------------------------------------------------------------------
(* A request that is authenticated by its cookie or its token              *)

FromSession(r, s) ==
    /\ At(r, "idle")
    /\ SessionByToken(s)
    /\ req' = [req EXCEPT ![r] = [pc |-> "owner", ref |-> s]]
    /\ UNCHANGED <<account, session, link, token, bucket, cli, owed>>

CookieOwner(r) ==
    /\ At(r, "owner")
    /\ IF account.disabled THEN Done(r) ELSE Goto(r, "touch")
    /\ UNCHANGED <<account, session, link, token, bucket, cli, owed>>

CookieTouch(r) ==
    /\ At(r, "touch")
    /\ TouchSession(req[r].ref)
    /\ Goto(r, "served")
    /\ UNCHANGED <<account, link, token, bucket, cli, owed>>

\* One query joins the token to its owner.
FromBearer(r) ==
    /\ At(r, "idle")
    /\ APITokenUser
    /\ Goto(r, "served")
    /\ UNCHANGED <<account, session, link, token, bucket, cli, owed>>

\* Any other handler, and a write refused for its CSRF token.
Answer(r) ==
    /\ At(r, "served")
    /\ Done(r)
    /\ UNCHANGED <<account, session, link, token, bucket, cli, owed>>

CreateToken(r) ==
    /\ At(r, "served")
    /\ CreateAPIToken
    /\ Done(r)
    /\ UNCHANGED <<account, session, link, bucket, cli, owed>>

RevokeToken(r) ==
    /\ At(r, "served")
    /\ DeleteAPIToken
    /\ Done(r)
    /\ UNCHANGED <<account, session, link, bucket, cli, owed>>

\* Logout asks for no more than the cookie.
Logout(s) ==
    /\ Revoke({s})
    /\ UNCHANGED <<account, link, token, bucket, req, cli, owed>>

\* The current password is compared; a wrong one changes nothing.
ChangePassword(r) ==
    /\ At(r, "served")
    /\ account.pass
    /\ Goto(r, "change")
    /\ UNCHANGED <<account, session, link, token, bucket, cli, owed>>

ChangeStore(r) ==
    /\ At(r, "change")
    /\ SetPassword
    /\ owed' = owed \cup (Rows("live") \ {req[r].ref})
    /\ Goto(r, "others")
    /\ UNCHANGED <<session, link, token, bucket, cli>>

\* A caller with a token has no session to keep.
ChangeRevoke(r) ==
    /\ At(r, "others")
    /\ Revoke(Sessions \ {req[r].ref})
    /\ Done(r)
    /\ UNCHANGED <<account, link, token, bucket, cli, owed>>

-----------------------------------------------------------------------------
(* `poligon user' and `poligon token', in a process of their own           *)

UserAdd ==
    /\ cli = "idle"
    /\ ~account.row
    /\ account' = [row |-> TRUE, pass |-> FALSE, disabled |-> FALSE]
    /\ cli' = "link"
    /\ UNCHANGED <<session, link, token, bucket, req, owed>>

UserResetPassword ==
    /\ cli = "idle"
    /\ account.row
    /\ ClearPassword
    /\ owed' = owed \cup Rows("live")
    /\ cli' = "reset"
    /\ UNCHANGED <<session, link, token, bucket, req>>

RevokeUserSessions ==
    /\ cli \in {"reset", "disable"}
    /\ Revoke(Sessions)
    /\ cli' = IF cli = "reset" THEN "link" ELSE "idle"
    /\ UNCHANGED <<account, link, token, bucket, req, owed>>

NewSetupToken ==
    /\ cli = "link"
    /\ CreateEnrollToken
    /\ cli' = "idle"
    /\ UNCHANGED <<account, session, token, bucket, req, owed>>

SetUserDisabled ==
    /\ cli = "idle"
    /\ account.row
    /\ account' = [account EXCEPT !.disabled = TRUE]
    /\ owed' = owed \cup Rows("live")
    /\ cli' = "disable"
    /\ UNCHANGED <<session, link, token, bucket, req>>

UserEnable ==
    /\ cli = "idle"
    /\ account.disabled
    /\ account' = [account EXCEPT !.disabled = FALSE]
    /\ UNCHANGED <<session, link, token, bucket, req, cli, owed>>

TokenCmd ==
    /\ cli = "idle"
    /\ account.row
    /\ \/ CreateAPIToken
       \/ DeleteAPIToken
    /\ UNCHANGED <<account, session, link, bucket, req, cli, owed>>

\* The command is interrupted; what it had still to revoke stays.
CommandDies ==
    /\ cli # "idle"
    /\ cli' = "idle"
    /\ owed' = IF cli = "link" THEN owed ELSE {}
    /\ UNCHANGED <<account, session, link, token, bucket, req>>

-----------------------------------------------------------------------------
(* Time and the server's process                                           *)

Tick ==
    /\ session' = [s \in Sessions |->
                      IF session[s].row # "live" THEN session[s]
                      ELSE [session[s] EXCEPT !.age = Min2(TTL, @ + 1),
                                              !.left = IF @ = 0 THEN 0 ELSE @ - 1]]
    /\ UNCHANGED <<account, link, token, bucket, req, cli, owed>>

Purge ==
    /\ PurgeExpiredSessions
    /\ UNCHANGED <<account, link, token, bucket, req, cli, owed>>

\* The limiter and the requests are gone, the tables stay; serve() purges.
Restart ==
    /\ bucket' = NoBucket
    /\ req' = [r \in Requests |-> NoRequest]
    /\ PurgeExpiredSessions
    /\ owed' = IF (\E r \in Requests : At(r, "others")) /\ cli \notin {"reset", "disable"}
               THEN {} ELSE owed
    /\ UNCHANGED <<account, link, token, cli>>

Serve(r) ==
    \/ Login(r) \/ LoginUser(r) \/ LoginPassword(r) \/ IssueSession(r)
    \/ Register(r) \/ RegisterCreate(r) \/ RegisterStore(r)
    \/ \E l \in Links : EnrollTokenUser(r, l)
    \/ SetupStore(r) \/ UseEnrollToken(r)
    \/ \E s \in Sessions : FromSession(r, s)
    \/ CookieOwner(r) \/ CookieTouch(r) \/ FromBearer(r)
    \/ Answer(r) \/ CreateToken(r) \/ RevokeToken(r)
    \/ ChangePassword(r) \/ ChangeStore(r) \/ ChangeRevoke(r)

Host ==
    \/ UserAdd \/ UserResetPassword \/ RevokeUserSessions \/ NewSetupToken
    \/ SetUserDisabled \/ UserEnable \/ TokenCmd \/ CommandDies

Next ==
    \/ \E r \in Requests : Serve(r)
    \/ \E s \in Sessions : Logout(s)
    \/ LockLapses \/ LimiterGc
    \/ \E l \in Links : LinkExpires(l)
    \/ Host \/ Tick \/ Purge \/ Restart

Spec == Init /\ [][Next]_vars

-----------------------------------------------------------------------------
(* Properties                                                              *)

\* Sessions end, whatever was in flight: a revoked one never comes back, no touch
\* carries a session past its absolute cap, however late it lands, and none is
\* good for longer than the cap or the first window (store.SessionByToken,
\* TouchSession, auth.go:272, 373).  A late touch may well reopen a session whose
\* idle window has passed.
SessionsEnd ==
    [][\A s \in Sessions :
          /\ session[s].row = "revoked" => session'[s].row # "live"
          /\ session[s].row = "live" /\ session'[s].left > session[s].left =>
                session'[s].age + session'[s].left <= TTL
          /\ session'[s].left > 0 => session'[s].age + session'[s].left <= Max2(Idle, TTL)]_vars

\* A change of password, a reset and a disabling end the sessions there were,
\* but the caller's own: one that is still good belongs to a change that has
\* written the account and not yet revoked (auth.go:193, main.go's user command).
ChangesEndSessions ==
    owed \cap Rows("live") # {} =>
        cli \in {"reset", "disable"} \/ \E r \in Requests : At(r, "others")

\* While a key is locked nobody new is let in to guess: at most the requests
\* that had passed the check before the lock still fail (limiter.blocked, fail).
LockHolds == bucket.over < Cardinality(Requests)
=============================================================================
