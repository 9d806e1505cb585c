---------------------------- MODULE AccountStore ----------------------------
(***************************************************************************)
(* Accounts and their sessions (common/auth_store.rs, auth_sqlite.rs,        *)
(* authn.rs) behind the account gate and the account routes                  *)
(* (server/guards.rs, server/routes/auth.rs).                                *)
(*                                                                          *)
(* Opening the store is a sequence of file writes with a possible crash       *)
(* between any two: the setup-code file, the staged database, the marker,     *)
(* and for homes of an older release the rotation of the shipped password.    *)
(* Every mutation is one SQLite commit followed by the publication of the     *)
(* in-memory copy, under one lock; requests, however, are admitted by the     *)
(* gate at one moment and act at a later one.                                 *)
(*                                                                          *)
(* Passwords are compared only: a password is a user's own choice, a setup    *)
(* code (numbered by the open that drew it), the shipped name, or pending.    *)
(***************************************************************************)
EXTENDS Integers, FiniteSets

CONSTANTS
    Names,           \* canonical usernames
    Admin,           \* BOOTSTRAP_USERNAME
    Tokens,          \* random session ids
    AccountRequests,        \* concurrent console requests
    IdleLimit, AbsoluteLimit,              \* session limits
    RestrictedIdle, RestrictedAbsolute,  \* ... while the password must change
    TouchInterval,   \* least time between two slides of the idle window
    MaxUsers, MaxSessions,       \* 128 and 4096 in the code
    LockThreshold, LockBase, LockCeiling, \* authn.rs lockout constants
    MaxClock, MaxFailures, MaxCrashes     \* bounds

ASSUME AccountAssumption ==
    /\ Admin \in Names
    /\ IdleLimit \in Nat /\ AbsoluteLimit \in Nat /\ TouchInterval \in Nat \ {0}
    /\ RestrictedIdle \in 1..IdleLimit /\ RestrictedAbsolute \in 1..AbsoluteLimit
    /\ MaxUsers \in Nat /\ MaxSessions \in Nat

VARIABLES
    authFiles,       \* the home: setup code, legacy auth.json, its backup, database, marker
    authServer,      \* where the process is: down, opening (by step), or up
    stagedAccounts,      \* accounts the opening process is about to install or publish
    live,        \* the published in-memory AuthDb
    accountClock,
    accountRequests,    \* gate results carried by the requests in flight
    codes,       \* setup codes drawn so far
    crashes,
    lastUse,     \* history: when each session last passed the gate
    ended,       \* history: sessions ended by logout, password, role, disable or delete
    admissions   \* history: gate admissions whose session was outside its limits

accountVars == <<authFiles, authServer, stagedAccounts, live, accountClock, accountRequests, codes,
                 crashes, lastUse, ended, admissions>>

Roles == {"admin", "operator"}   \* audit and portal_auditor accounts pass no admin check either
Chosen == [kind |-> "own", n |-> 0]
SetupCode(n) == [kind |-> "code", n |-> n]
Shipped == [kind |-> "shipped", n |-> 0]
PendingRecord == [kind |-> "pending", n |-> 0]

NoUser == [role |-> "none", disabled |-> FALSE, must |-> FALSE, pw |-> Chosen, failed |-> 0, lockedUntil |-> 0]
NoLogin == [user |-> Admin, created |-> 0, seen |-> 0, expires |-> 0, revoked |-> TRUE]
NoDb == [users |-> [n \in Names |-> NoUser], sessions |-> [s \in Tokens |-> NoLogin], held |-> {}]
User(role, must, pw) == [NoUser EXCEPT !.role = role, !.must = must, !.pw = pw]
HasUser(db, n) == db.users[n] # NoUser
WithUsers(db) == [NoDb EXCEPT !.users = db]
NoToken == "none"
Idling == [pc |-> "idle", actor |-> Admin, role |-> "none", op |-> "none", target |-> Admin, token |-> NoToken]

(* ------------------------------ authn.rs ------------------------------ *)
LockoutDelay(failed) ==
    LET d == LockBase * 2 ^ (failed - LockThreshold)
    IN  IF failed < LockThreshold THEN 0 ELSE IF d < LockCeiling THEN d ELSE LockCeiling
IsLocked(user) == user.lockedUntil > 0 /\ accountClock < user.lockedUntil
(* verify_password: a pending record never verifies.                          *)
Verifies(user, pw) == user.pw = pw /\ pw # PendingRecord

(* ---------------------------- auth_store.rs --------------------------- *)
EnabledAdmins(db) == {n \in Names : db.users[n].role = "admin" /\ ~db.users[n].disabled}
IsLastEnabledAdmin(db, n) == n \in EnabledAdmins(db) /\ Cardinality(EnabledAdmins(db)) <= 1
ValidDb(db) ==
    /\ Cardinality({n \in Names : HasUser(db, n)}) \in 1..MaxUsers
    /\ Cardinality(db.held) <= MaxSessions
    /\ EnabledAdmins(db) # {}
    /\ \A s \in db.held : HasUser(db, db.sessions[s].user)

(* sqlite::persist rewrites both tables in one transaction, touch_session one  *)
(* row; either is committed before the in-memory copy is replaced, and a        *)
(* refused or failed commit changes neither.                                    *)
Committed(db) == [authFiles EXCEPT !.db = db]
PersistDb(db) ==
    /\ ValidDb(db)
    /\ authFiles' = Committed(db)
    /\ live' = db
TouchSession(s, row) ==
    LET db == [live EXCEPT !.sessions[s] = row]
    IN  authFiles' = [authFiles EXCEPT !.db = db] /\ live' = db

SessionLimits(must) ==
    IF must THEN [idle |-> RestrictedIdle, absolute |-> RestrictedAbsolute]
            ELSE [idle |-> IdleLimit, absolute |-> AbsoluteLimit]
RevokeSessionsFor(db, n) ==
    [db EXCEPT !.sessions = [s \in Tokens |->
        [db.sessions[s] EXCEPT !.revoked = @ \/ (s \in db.held /\ db.sessions[s].user = n)]]]
SessionsOf(db, n) == {s \in db.held : db.sessions[s].user = n}
EndSessionsOf(n) == ended' = ended \cup SessionsOf(live, n)

(* Ended and expired rows are dropped before the new one is counted.          *)
Retained(db) ==
    {s \in db.held : LET row == db.sessions[s] IN
        ~row.revoked /\ row.expires > accountClock /\ row.seen + IdleLimit > accountClock}
CreateSession(db, n, s) ==
    [db EXCEPT !.held = Retained(db) \cup {s},
               !.sessions[s] = [user |-> n, created |-> accountClock, seen |-> accountClock, revoked |-> FALSE,
                                expires |-> accountClock + SessionLimits(db.users[n].must).absolute]]
FreshToken(s) == s \notin live.held /\ s \notin ended /\ lastUse[s] = 0
HasAccountRoom(db) == Cardinality(Retained(db)) < MaxSessions

(* ------------------------------ opening ------------------------------- *)
ShippedAdmin(db) ==
    LET u == db.users[Admin]
    IN  HasUser(db, Admin) /\ ~u.disabled /\ (u.pw = PendingRecord \/ (u.must /\ u.pw = Shipped))

OpenFresh ==
    /\ authServer = "down" /\ authFiles.db = NoDb /\ ~authFiles.marker /\ authFiles.legacy = NoDb
    /\ codes' = codes + 1
    /\ authFiles' = [authFiles EXCEPT !.code = SetupCode(codes + 1)]
    /\ stagedAccounts' = WithUsers([NoDb.users EXCEPT ![Admin] = User("admin", TRUE, SetupCode(codes + 1))])
    /\ authServer' = "install"
    /\ UNCHANGED <<live, accountClock, accountRequests, crashes, lastUse, ended, admissions>>

(* A legacy auth.json is copied aside once, and its sessions are not kept.    *)
OpenLegacy ==
    /\ authServer = "down" /\ authFiles.db = NoDb /\ ~authFiles.marker /\ authFiles.legacy # NoDb
    /\ ValidDb(authFiles.legacy)
    /\ authFiles' = [authFiles EXCEPT !.backup = authFiles.legacy]
    /\ stagedAccounts' = WithUsers(authFiles.legacy.users)
    /\ authServer' = "install"
    /\ UNCHANGED <<live, accountClock, accountRequests, codes, crashes, lastUse, ended, admissions>>

OpenAccounts ==
    /\ authServer = "down" /\ authFiles.db # NoDb
    /\ ValidDb(authFiles.db)
    /\ stagedAccounts' = authFiles.db
    /\ authServer' = "mark"
    /\ UNCHANGED <<authFiles, live, accountClock, accountRequests, codes, crashes, lastUse, ended, admissions>>

(* persist_noclobber: the database appears whole or not at all.               *)
InstallDb ==
    /\ authServer = "install"
    /\ authFiles' = [authFiles EXCEPT !.db = stagedAccounts]
    /\ authServer' = "mark"
    /\ UNCHANGED <<stagedAccounts, live, accountClock, accountRequests, codes, crashes, lastUse, ended, admissions>>

WriteAccountMarker ==
    /\ authServer = "mark"
    /\ authFiles' = [authFiles EXCEPT !.marker = TRUE]
    /\ authServer' = IF ShippedAdmin(stagedAccounts) THEN "rotate" ELSE "up"
    /\ live' = stagedAccounts
    /\ stagedAccounts' = NoDb
    /\ UNCHANGED <<accountClock, accountRequests, codes, crashes, lastUse, ended, admissions>>

(* Homes of older releases: draw a code, write it, then rotate the record.    *)
WriteCode ==
    /\ authServer = "rotate"
    /\ codes' = codes + 1
    /\ authFiles' = [authFiles EXCEPT !.code = SetupCode(codes + 1)]
    /\ authServer' = "rotated"
    /\ UNCHANGED <<stagedAccounts, live, accountClock, accountRequests, crashes, lastUse, ended, admissions>>
RotateShipped ==
    /\ authServer = "rotated"
    /\ PersistDb(RevokeSessionsFor(
          [live EXCEPT !.users[Admin] = [@ EXCEPT !.pw = authFiles.code, !.must = TRUE,
                                                    !.failed = 0, !.lockedUntil = 0]], Admin))
    /\ ended' = ended \cup SessionsOf(live, Admin)
    /\ authServer' = "up"
    /\ UNCHANGED <<stagedAccounts, accountClock, accountRequests, codes, crashes, lastUse, admissions>>

ServerCrash ==
    /\ authServer # "down" /\ crashes < MaxCrashes
    /\ crashes' = crashes + 1
    /\ authServer' = "down"
    /\ stagedAccounts' = NoDb /\ live' = NoDb
    /\ accountRequests' = [r \in AccountRequests |-> Idling]
    /\ UNCHANGED <<authFiles, accountClock, codes, lastUse, ended, admissions>>

(* The operator removes the database file while the server is stopped.        *)
LoseDatabase ==
    /\ authServer = "down" /\ authFiles.db # NoDb /\ crashes = MaxCrashes
    /\ authFiles' = [authFiles EXCEPT !.db = NoDb]
    /\ UNCHANGED <<authServer, stagedAccounts, live, accountClock, accountRequests, codes, crashes, lastUse, ended, admissions>>

(* ------------------------------ sessions ------------------------------ *)
LoggedIn(db, n, s) ==
    CreateSession([db EXCEPT !.users[n] = [@ EXCEPT !.failed = 0, !.lockedUntil = 0]], n, s)
LogIn(n, pw, s) ==
    /\ authServer = "up" /\ HasUser(live, n) /\ ~IsLocked(live.users[n])
    /\ ~live.users[n].disabled /\ Verifies(live.users[n], pw)
    /\ FreshToken(s) /\ HasAccountRoom(live)
    /\ PersistDb(LoggedIn(live, n, s))
    /\ lastUse' = [lastUse EXCEPT ![s] = accountClock]
    /\ UNCHANGED <<authServer, stagedAccounts, accountClock, accountRequests, codes, crashes, ended, admissions>>

(* A failure is counted, and may lock the account, whether the password is     *)
(* wrong or the account disabled.                                             *)
FailedLogin(n, pw) ==
    LET row == live.users[n]
    IN  /\ authServer = "up" /\ HasUser(live, n) /\ ~IsLocked(row)
        /\ row.disabled \/ ~Verifies(row, pw)
        /\ row.failed < MaxFailures
        /\ PersistDb([live EXCEPT !.users[n] = [row EXCEPT !.failed = @ + 1,
                        !.lockedUntil = accountClock + LockoutDelay(row.failed + 1)]])
        /\ UNCHANGED <<authServer, stagedAccounts, accountClock, accountRequests, codes, crashes, lastUse, ended, admissions>>

Expired(row, limits) ==
    \/ accountClock >= row.expires
    \/ accountClock >= row.created + limits.absolute
    \/ accountClock >= row.seen + limits.idle
MutTouched(row, limits) == [row EXCEPT !.seen = accountClock, !.revoked = FALSE]
(* The row after a lookup: an expiry is written, a slide at most once per     *)
(* interval.                                                                  *)
Touched(row, limits) ==
    IF Expired(row, limits) THEN [row EXCEPT !.revoked = TRUE]
    ELSE IF accountClock - row.seen >= TouchInterval THEN [row EXCEPT !.seen = accountClock]
    ELSE row

OwnOps == {"changePassword", "logout"}
AdminOps == {"createUser", "setPassword", "promote", "demote", "disable", "enable", "delete"}

(* account_gate: the session is validated (and touched), and the account it   *)
(* names is captured with its role for the handler that runs later.           *)
AccountRequestGate(r, s, op, target) ==
    LET row    == live.sessions[s]
        user   == live.users[row.user]
        limits == SessionLimits(user.must)
        passes == ~Expired(row, limits) /\ HasUser(live, row.user) /\ ~user.disabled
        may    == op \in OwnOps \/ (~user.must /\ user.role = "admin")
    IN  /\ authServer = "up" /\ accountRequests[r].pc = "idle"
        /\ s \in live.held /\ ~row.revoked
        /\ TouchSession(s, Touched(row, limits))
        /\ accountRequests' = IF passes /\ may
                       THEN [accountRequests EXCEPT ![r] = [pc |-> "gated", actor |-> row.user, role |-> user.role,
                                                     op |-> op, target |-> target, token |-> s]]
                       ELSE accountRequests
        /\ lastUse' = IF passes THEN [lastUse EXCEPT ![s] = accountClock] ELSE lastUse
        /\ admissions' = IF passes /\ \/ accountClock - lastUse[s] >= SessionLimits(user.must).idle
                                      \/ accountClock - row.created >= SessionLimits(user.must).absolute
                                      \/ s \in ended
                         THEN admissions \cup {s} ELSE admissions
        /\ UNCHANGED <<authServer, stagedAccounts, accountClock, codes, crashes, ended>>

(* -------------------------- account operations ------------------------ *)
GatedFor(r, op) == authServer = "up" /\ accountRequests[r].pc = "gated" /\ accountRequests[r].op = op
FinishRequest(r) == accountRequests' = [accountRequests EXCEPT ![r] = Idling]
TargetOf(r) == accountRequests[r].target
SameServer == UNCHANGED <<authServer, stagedAccounts, accountClock, codes, crashes, admissions>>

WithNewUser(db, n, role) == [db EXCEPT !.users[n] = User(role, FALSE, Chosen)]
CreateUser(r) ==
    /\ GatedFor(r, "createUser") /\ ~HasUser(live, TargetOf(r))
    /\ Cardinality({n \in Names : HasUser(live, n)}) < MaxUsers
    /\ \E role \in Roles : PersistDb(WithNewUser(live, TargetOf(r), role))
    /\ FinishRequest(r) /\ UNCHANGED <<lastUse, ended>> /\ SameServer

(* forget_setup_code runs after the commit and its failure is ignored; the     *)
(* code file then stays, but opens nothing (setup_code_active asks both).      *)
ForgetSetupCode(n) == IF n = Admin THEN [kind |-> "none", n |-> 0] ELSE authFiles.code
WithPassword(db, n) ==
    RevokeSessionsFor([db EXCEPT !.users[n] = [@ EXCEPT !.pw = Chosen, !.must = FALSE,
                                                        !.failed = 0, !.lockedUntil = 0]], n)
PersistAndForget(db, n) ==
    /\ ValidDb(db)
    /\ live' = db
    /\ \E forgot \in BOOLEAN :
          authFiles' = [Committed(db) EXCEPT !.code = IF forgot THEN ForgetSetupCode(n) ELSE @]
SetPassword(r) ==
    /\ GatedFor(r, "setPassword") /\ HasUser(live, TargetOf(r))
    /\ PersistAndForget(WithPassword(live, TargetOf(r)), TargetOf(r))
    /\ EndSessionsOf(TargetOf(r))
    /\ FinishRequest(r) /\ UNCHANGED lastUse /\ SameServer

(* The caller proves the current password again, must choose another, and     *)
(* gets the only session that stays valid.                                    *)
WithChangedPassword(db, n, s) == CreateSession(WithPassword(db, n), n, s)
ChangePassword(r, s) ==
    LET n == accountRequests[r].actor
    IN  /\ GatedFor(r, "changePassword") /\ HasUser(live, n) /\ ~live.users[n].disabled
        /\ FreshToken(s) /\ HasAccountRoom(WithPassword(live, n))
        /\ PersistAndForget(WithChangedPassword(live, n, s), n)
        /\ EndSessionsOf(n)
        /\ lastUse' = [lastUse EXCEPT ![s] = accountClock]
        /\ FinishRequest(r) /\ SameServer

WithRole(db, n, role) == RevokeSessionsFor([db EXCEPT !.users[n].role = role], n)
SetRole(r) ==
    \E op \in {"promote", "demote"} :
        /\ GatedFor(r, op) /\ HasUser(live, TargetOf(r))
        /\ op = "demote" => ~IsLastEnabledAdmin(live, TargetOf(r))
        /\ PersistDb(WithRole(live, TargetOf(r), IF op = "promote" THEN "admin" ELSE "operator"))
        /\ EndSessionsOf(TargetOf(r))
        /\ FinishRequest(r) /\ UNCHANGED lastUse /\ SameServer

(* Enabling is a decision to make the account usable now: it unlocks it.       *)
WithDisabled(db, n, disabled) ==
    IF disabled THEN RevokeSessionsFor([db EXCEPT !.users[n].disabled = TRUE], n)
    ELSE [db EXCEPT !.users[n] = [@ EXCEPT !.disabled = FALSE, !.failed = 0, !.lockedUntil = 0]]
SetDisabled(r) ==
    \E op \in {"disable", "enable"} :
        /\ GatedFor(r, op) /\ HasUser(live, TargetOf(r))
        /\ op = "disable" => ~IsLastEnabledAdmin(live, TargetOf(r))
        /\ PersistDb(WithDisabled(live, TargetOf(r), op = "disable"))
        /\ IF op = "disable" THEN EndSessionsOf(TargetOf(r)) ELSE UNCHANGED ended
        /\ FinishRequest(r) /\ UNCHANGED lastUse /\ SameServer

WithoutUser(db, n) == [db EXCEPT !.users[n] = NoUser, !.held = @ \ SessionsOf(db, n)]
DeleteUser(r) ==
    /\ GatedFor(r, "delete") /\ HasUser(live, TargetOf(r)) /\ ~IsLastEnabledAdmin(live, TargetOf(r))
    /\ PersistDb(WithoutUser(live, TargetOf(r)))
    /\ EndSessionsOf(TargetOf(r))
    /\ FinishRequest(r) /\ UNCHANGED lastUse /\ SameServer

LoggedOut(db, s) == [db EXCEPT !.sessions[s].revoked = TRUE]
LogOut(r) ==
    LET s == accountRequests[r].token
    IN  /\ GatedFor(r, "logout")
        /\ IF s \in live.held /\ ~live.sessions[s].revoked
           THEN PersistDb(LoggedOut(live, s))
           ELSE UNCHANGED <<authFiles, live>>
        /\ ended' = ended \cup {s}
        /\ FinishRequest(r) /\ UNCHANGED lastUse /\ SameServer

(* Not found, last administrator, limit reached or wrong password: an error   *)
(* response and no change.                                                    *)
RequestRefused(r) ==
    LET n == TargetOf(r)
    IN  /\ authServer = "up" /\ accountRequests[r].pc = "gated"
        /\ CASE accountRequests[r].op = "createUser" -> HasUser(live, n) \/ Cardinality({m \in Names : HasUser(live, m)}) >= MaxUsers
             [] accountRequests[r].op = "changePassword" -> TRUE
             [] accountRequests[r].op \in {"demote", "disable", "delete"} -> ~HasUser(live, n) \/ IsLastEnabledAdmin(live, n)
             [] accountRequests[r].op \in {"promote", "enable", "setPassword"} -> ~HasUser(live, n)
             [] OTHER -> FALSE
        /\ FinishRequest(r)
        /\ UNCHANGED <<authFiles, live, lastUse, ended>> /\ SameServer

ClockTicks ==
    /\ accountClock < MaxClock
    /\ accountClock' = accountClock + 1
    /\ UNCHANGED <<authFiles, authServer, stagedAccounts, live, accountRequests, codes, crashes, lastUse, ended, admissions>>

(* A new home, a home with a legacy auth.json whose administrator is pending, *)
(* or a home of a release that shipped admin/admin.                           *)
NoFiles == [code |-> [kind |-> "none", n |-> 0], legacy |-> NoDb, backup |-> NoDb, db |-> NoDb, marker |-> FALSE]
Homes ==
    {NoFiles}
    \cup {[NoFiles EXCEPT !.legacy = WithUsers([NoDb.users EXCEPT ![Admin] = User("admin", FALSE, PendingRecord)])],
          [NoFiles EXCEPT !.marker = TRUE, !.db = WithUsers([NoDb.users EXCEPT ![Admin] = User("admin", TRUE, Shipped)])]}

AccountInit ==
    /\ authFiles \in Homes
    /\ authServer = "down" /\ stagedAccounts = NoDb /\ live = NoDb
    /\ accountClock = 1
    /\ accountRequests = [r \in AccountRequests |-> Idling]
    /\ codes = 0 /\ crashes = 0
    /\ lastUse = [s \in Tokens |-> 0]
    /\ ended = {} /\ admissions = {}

AccountNext ==
    \/ OpenFresh \/ OpenLegacy \/ OpenAccounts \/ InstallDb \/ WriteAccountMarker
    \/ WriteCode \/ RotateShipped \/ ServerCrash \/ LoseDatabase \/ ClockTicks
    \/ \E n \in Names, pw \in {Chosen, authFiles.code}, s \in Tokens : LogIn(n, pw, s)
    \/ \E n \in Names, pw \in {Chosen, authFiles.code} : FailedLogin(n, pw)
    \/ \E r \in AccountRequests, s \in Tokens, op \in OwnOps \cup AdminOps, n \in Names : AccountRequestGate(r, s, op, n)
    \/ \E r \in AccountRequests : \/ CreateUser(r) \/ SetPassword(r) \/ SetRole(r) \/ SetDisabled(r)
                                  \/ DeleteUser(r) \/ LogOut(r) \/ RequestRefused(r)
                                  \/ \E s \in Tokens : ChangePassword(r, s)
AccountSpec == AccountInit /\ [][AccountNext]_accountVars

AccountTypeOK ==
    /\ authServer \in {"down", "install", "mark", "rotate", "rotated", "up"}
    /\ \A n \in Names : live.users[n].role \in Roles \cup {"none"}
    /\ live.held \subseteq Tokens /\ ended \subseteq Tokens /\ admissions \subseteq Tokens
    /\ accountClock \in 1..MaxClock /\ crashes \in 0..MaxCrashes

(* Somebody can always administer the home: whenever a database exists it has *)
(* an enabled administrator, and one whose password somebody knows - it was    *)
(* chosen by a person, or it is the code in the setup-code file, or it is the   *)
(* shipped or pending record the next open replaces by a code.  Concurrent      *)
(* demotions, disables and deletions, and a crash between any two of the file   *)
(* writes of an open, keep it (auth_sqlite.rs:226, auth_store.rs:342).          *)
AdminCanSignIn ==
    authFiles.db # NoDb =>
        \E n \in Names : LET u == authFiles.db.users[n] IN
            /\ u.role = "admin" /\ ~u.disabled
            /\ \/ u.pw = Chosen
               \/ u.pw = authFiles.code
               \/ n = Admin /\ authServer # "up" /\ ShippedAdmin(authFiles.db)

(* A session the gate admits has been used within the idle limit and opened    *)
(* within the absolute limit of its account's present state, and was not ended  *)
(* by a logout, a password or role change, a disable or a deletion - although   *)
(* the idle window is written only once per interval and the process may        *)
(* restart in between (auth_store.rs:554-592).                                  *)
AdmittedIsLive == admissions = {}
=============================================================================
