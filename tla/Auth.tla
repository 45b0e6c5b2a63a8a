-------------------------------- MODULE Auth --------------------------------
(***************************************************************************)
(* Users and sessions of wgRift: internal/auth/auth.go, the part of        *)
(* internal/auth/oidc.go that finds or provisions a user, the handlers of  *)
(* handler_auth.go, handler_users.go and handler_oidc.go, the middleware   *)
(* and the statements of store_users.go.                                   *)
(*                                                                         *)
(* A request is a sequence of database statements; the statements of all   *)
(* requests interleave and time passes between them.  What a password, a   *)
(* CSRF token or an identity token says is the client's or the provider's  *)
(* choice: the model keeps only whether it is accepted.                    *)
(***************************************************************************)
EXTENDS Naturals, FiniteSets

CONSTANTS
    Workers,         \* goroutines that can run a handler
    Users,           \* user ids that can ever be generated
    Sessions,        \* session ids that can ever be generated
    Bases,           \* user names as a client or a provider writes them
    Subjects,        \* identities of the OIDC provider
    SessionTimeout,  \* longest time a session may be idle
    MaxSessionAge,   \* longest time from sign-in to the end of a session
    Ops,             \* the requests this instance issues
    ForeignKeys,     \* subset of BOOLEAN: is the cascade on for the connection used
    Faults,          \* subset of {"db"}: database statements may fail
    MaxTime,         \* bound on the clock
    MaxRequests,     \* bound on the number of requests
    MaxCrashes,      \* bound on the number of restarts
    None             \* no row, no value

AllOps == {"setup", "login", "oidc", "logout", "request", "createUser",
           "deleteUser", "changePassword"}
\* The requests that check the users and then write by what they found.
Solo == {"setup", "deleteUser"}

ASSUME TimesAssumption == /\ SessionTimeout \in Nat /\ MaxSessionAge \in Nat
                          /\ MaxTime \in Nat /\ MaxRequests \in Nat
                          /\ MaxCrashes \in Nat
ASSUME ChoicesAssumption == /\ Ops \subseteq AllOps
                            /\ ForeignKeys \subseteq BOOLEAN /\ ForeignKeys # {}
                            /\ Faults \subseteq {"db"}

Time  == 0..MaxTime
Roles == {"admin", "viewer"}
\* A user name: as written, or with the provider's suffix appended.
Names == Bases \X BOOLEAN

UserRow    == [name: Names, role: Roles, initial: BOOLEAN,
               oidc: Subjects \cup {None}]
SessionRow == [user: Users, expires: 0..(MaxTime + MaxSessionAge), seen: Time]

ASSUME NoneAssumption == /\ None \notin UserRow /\ None \notin SessionRow
                         /\ None \notin Users /\ None \notin Sessions
                         /\ None \notin Subjects /\ None \notin Time

Labels == {"idle", "count", "byName", "byIdentity", "jitName", "insertUser",
           "updateUser", "createSession", "getSession", "judge", "drop", "touch",
           "getUser", "getTarget", "deleteRow", "deleteSession"}

\* The local variables of a request: the cookie, the session and the user the
\* middleware found, the user the request is about and the row it will write.
Job == [op: AllOps \cup {"none"}, sess: Sessions \cup {None},
        copy: SessionRow \cup {None}, caller: Users \cup {None},
        target: Users \cup {None}, row: UserRow \cup {None}]

NoJob == [op |-> "none", sess |-> None, copy |-> None, caller |-> None,
          target |-> None, row |-> None]

VARIABLES
    now,       \* the clock
    users,     \* table users
    sessions,  \* table sessions
    pc,        \* per worker: the next step of its request
    job,       \* per worker: the request and its local variables
    result,    \* per worker: how its last request ended
    cleaned,   \* has this process run CleanExpiredSessions
    born,      \* history: when a session was created, None before that
    used,      \* history: when a session was last created or touched
    bornUsers, \* history: the user ids ever inserted
    before,    \* history, per worker: what had ended before its request began
    overlap,   \* history: the Solo operations two requests for which met
    demoted,   \* history: the provider took the admin role from a user
    requests,  \* number of requests so far
    crashes    \* number of restarts so far

tables  == <<users, sessions>>
history == <<born, used, bornUsers, demoted>>
begun   == <<before, overlap, requests>>
vars    == <<now, tables, pc, job, result, cleaned, history, begun, crashes>>

TypeOK ==
    /\ now \in Time
    /\ users \in [Users -> UserRow \cup {None}]
    /\ sessions \in [Sessions -> SessionRow \cup {None}]
    /\ pc \in [Workers -> Labels]
    /\ job \in [Workers -> Job]
    /\ result \in [Workers -> {"none", "ok", "err"}]
    /\ cleaned \in BOOLEAN
    /\ born \in [Sessions -> Time \cup {None}]
    /\ used \in [Sessions -> Time \cup {None}]
    /\ bornUsers \subseteq Users
    /\ before \in [Workers -> [users: SUBSET Users, sessions: SUBSET Sessions]]
    /\ overlap \subseteq Solo /\ demoted \in BOOLEAN
    /\ requests \in 0..MaxRequests
    /\ crashes \in 0..MaxCrashes

\* A new installation.
Init ==
    /\ now = 0
    /\ users = [u \in Users |-> None]
    /\ sessions = [s \in Sessions |-> None]
    /\ pc = [w \in Workers |-> "idle"]
    /\ job = [w \in Workers |-> NoJob]
    /\ result = [w \in Workers |-> "none"]
    /\ cleaned = FALSE
    /\ born = [s \in Sessions |-> None] /\ used = [s \in Sessions |-> None]
    /\ bornUsers = {}
    /\ before = [w \in Workers |-> [users |-> {}, sessions |-> {}]]
    /\ overlap = {} /\ demoted = FALSE
    /\ requests = 0 /\ crashes = 0

-----------------------------------------------------------------------------
(***************************************************************************)
(* Control flow.                                                           *)
(***************************************************************************)
At(w, l) == pc[w] = l /\ UNCHANGED <<now, cleaned, begun, crashes>>
Me(w)    == job[w]

Goto(w, l)   == pc' = [pc EXCEPT ![w] = l] /\ UNCHANGED result
Stay(w, l)   == Goto(w, l) /\ UNCHANGED job
Finish(w, r) == /\ pc' = [pc EXCEPT ![w] = "idle"]
                /\ result' = [result EXCEPT ![w] = r]
                /\ job' = [job EXCEPT ![w] = [@ EXCEPT !.copy = None,
                                               !.target = None, !.row = None]]

\* A statement that may fail: the handler answers with an error.
Fail(w) == "db" \in Faults /\ Finish(w, "err") /\ UNCHANGED <<tables, history>>

\* Ids that existed and do not exist any more.
EndedUsers    == {u \in bornUsers : users[u] = None}
EndedSessions == {s \in Sessions : born[s] # None /\ sessions[s] = None}

\* The operations for which a request is under way.
UnderWay == {job[w].op : w \in {v \in Workers : pc[v] # "idle"}}

(***************************************************************************)
(* A request arrives.  A cookie is the id of a session that was created    *)
(* once.                                                                   *)
(***************************************************************************)
Begin(w, j, l) ==
    /\ pc[w] = "idle" /\ requests < MaxRequests /\ j.op \in Ops
    /\ pc' = [pc EXCEPT ![w] = l]
    /\ job' = [job EXCEPT ![w] = j]
    /\ result' = [result EXCEPT ![w] = "none"]
    /\ requests' = requests + 1
    /\ before' = [before EXCEPT ![w] = [users |-> EndedUsers,
                                        sessions |-> EndedSessions]]
    /\ overlap' = overlap \cup (Solo \cap UnderWay \cap {j.op})
    /\ UNCHANGED <<now, tables, cleaned, history, crashes>>

NewRow(n, r, i, o) == [name |-> n, role |-> r, initial |-> i, oidc |-> o]

\* handleSetup, handleLogin and handleOIDCCallback: nobody is signed in yet.
\* A provider exists only once an administrator has configured it.
BeginSignIn(w) ==
    \E b \in Bases :
        \/ Begin(w, [NoJob EXCEPT !.op = "setup",
                       !.row = NewRow(<<b, FALSE>>, "admin", TRUE, None)], "count")
        \/ Begin(w, [NoJob EXCEPT !.op = "login",
                       !.row = NewRow(<<b, FALSE>>, "viewer", FALSE, None)], "byName")
        \/ \E i \in Subjects, r \in Roles :
            /\ bornUsers # {}
            /\ Begin(w, [NoJob EXCEPT !.op = "oidc",
                          !.row = NewRow(<<b, FALSE>>, r, FALSE, i)], "byIdentity")

\* handleLogout needs the cookie only.
BeginLogout(w) ==
    \E s \in Sessions :
        /\ born[s] # None
        /\ Begin(w, [NoJob EXCEPT !.op = "logout", !.sess = s], "deleteSession")

\* The protected routes: authRequired first.  "request" is any route that
\* changes neither table, handleGetSession included.
BeginProtected(w) ==
    \E s \in Sessions :
        /\ born[s] # None
        /\ \/ Begin(w, [NoJob EXCEPT !.op = "request", !.sess = s], "getSession")
           \/ \E b \in Bases, r \in Roles :
                Begin(w, [NoJob EXCEPT !.op = "createUser", !.sess = s,
                            !.row = NewRow(<<b, FALSE>>, r, FALSE, None)],
                      "getSession")
           \/ \E o \in {"deleteUser", "changePassword"}, u \in bornUsers :
                Begin(w, [NoJob EXCEPT !.op = o, !.sess = s, !.target = u],
                      "getSession")

-----------------------------------------------------------------------------
(***************************************************************************)
(* Signing in.                                                             *)
(***************************************************************************)

\* Mutant of Count: only users of the requested name are counted.
MutCount(w) ==
    /\ At(w, "count")
    /\ \/ /\ \A u \in Users : users[u] # None => users[u].name # Me(w).row.name
          /\ Stay(w, "insertUser")
       \/ Finish(w, "err")
    /\ UNCHANGED <<tables, history>>

\* CreateInitialAdmin: NeedsSetup counts the users; a weak password is refused.
Count(w) ==
    /\ At(w, "count")
    /\ \/ (\A u \in Users : users[u] = None) /\ Stay(w, "insertUser")
       \/ Finish(w, "err")
    /\ UNCHANGED <<tables, history>>

\* Authenticate: the user of that name, if the password is right.  An SSO
\* user has no password hash that could match.
ByName(w) ==
    /\ At(w, "byName")
    /\ \/ \E u \in Users :
            /\ users[u] # None /\ users[u].name = Me(w).row.name
            /\ users[u].oidc = None
            /\ job' = [job EXCEPT ![w].caller = u]
            /\ Goto(w, "createSession")
       \/ Finish(w, "err")
    /\ UNCHANGED <<tables, history>>

\* HandleCallback, once the token is verified: the user of that identity gets
\* the role and the display name of the token's claims, if they differ;
\* otherwise one is provisioned.
ByIdentity(w) ==
    /\ At(w, "byIdentity")
    /\ LET found == {u \in Users : /\ users[u] # None
                                   /\ users[u].oidc = Me(w).row.oidc}
           role  == Me(w).row.role
       IN \/ found = {} /\ Stay(w, "jitName")
          \/ \E u \in found, l \in {"updateUser", "createSession"} :
               /\ l = "createSession" => users[u].role = role
               /\ job' = [job EXCEPT ![w] = [@ EXCEPT !.caller = u, !.target = u,
                                             !.row = [users[u] EXCEPT !.role = role]]]
               /\ Goto(w, l)
          \/ "db" \in Faults /\ Finish(w, "err")
    /\ UNCHANGED <<tables, history>>

\* Mutant of JitName: the suffix is appended to the whole name.
MutJitName(w) ==
    /\ At(w, "jitName")
    /\ IF \E u \in Users : users[u] # None /\ users[u].name = Me(w).row.name
       THEN job' = [job EXCEPT ![w].row.name = <<@, TRUE>>]
       ELSE UNCHANGED job
    /\ Goto(w, "insertUser")
    /\ UNCHANGED <<tables, history>>

\* A taken user name gets the provider's suffix; a lookup that fails counts
\* as a free name.
JitName(w) ==
    /\ At(w, "jitName")
    /\ LET taken == \E u \in Users : /\ users[u] # None
                                     /\ users[u].name = Me(w).row.name
       IN \/ taken /\ job' = [job EXCEPT ![w].row.name = <<@[1], TRUE>>]
          \/ (~taken \/ "db" \in Faults) /\ UNCHANGED job
    /\ Goto(w, "insertUser")
    /\ UNCHANGED <<tables, history>>

\* The unique indexes of the table on the name and on the identity.
Insertable(row) == \A u \in Users : users[u] # None =>
                        /\ users[u].name # row.name
                        /\ row.oidc # None => users[u].oidc # row.oidc

\* store.CreateUser, for setup, provisioning and handleCreateUser.
InsertUser(w) ==
    /\ At(w, "insertUser")
    /\ \/ /\ Insertable(Me(w).row)
          /\ \E u \in Users \ bornUsers :
               /\ users' = [users EXCEPT ![u] = Me(w).row]
               /\ bornUsers' = bornUsers \cup {u}
               /\ IF Me(w).op = "createUser" THEN Finish(w, "ok")
                  ELSE /\ job' = [job EXCEPT ![w].caller = u]
                       /\ Goto(w, "createSession")
          /\ UNCHANGED <<sessions, born, used, demoted>>
       \/ /\ ~Insertable(Me(w).row)
          /\ Finish(w, "err") /\ UNCHANGED <<tables, history>>
       \/ Fail(w)

\* store.UpdateUser writes every column and does nothing when the row is gone.
\* The error of an update at sign-in is dropped.
UpdateUser(w) ==
    /\ At(w, "updateUser")
    /\ LET u == Me(w).target
           gone == users[u] = None
           after == IF Me(w).op = "oidc" THEN Stay(w, "createSession")
                                         ELSE Finish(w, "ok")
       IN \/ /\ users' = [users EXCEPT ![u] = IF gone THEN @ ELSE Me(w).row]
             /\ demoted' = (demoted \/ (~gone /\ users[u].role # Me(w).row.role
                                        /\ Me(w).row.role = "viewer"))
             /\ after
             /\ UNCHANGED <<sessions, born, used, bornUsers>>
          \/ /\ Me(w).op = "oidc" /\ "db" \in Faults
             /\ after /\ UNCHANGED <<tables, history>>
          \/ Me(w).op # "oidc" /\ Fail(w)

\* auth.CreateSession: a new id, the foreign key on the user.
CreateSession(w) ==
    /\ At(w, "createSession")
    /\ \/ \E s \in {t \in Sessions : born[t] = None}, fk \in ForeignKeys :
            LET u == Me(w).caller IN
            IF fk /\ users[u] = None
            THEN Finish(w, "err") /\ UNCHANGED <<tables, history>>
            ELSE /\ sessions' = [sessions EXCEPT ![s] =
                       [user |-> u, expires |-> now + MaxSessionAge, seen |-> now]]
                 /\ born' = [born EXCEPT ![s] = now]
                 /\ used' = [used EXCEPT ![s] = now]
                 /\ Finish(w, "ok")
                 /\ UNCHANGED <<users, bornUsers, demoted>>
       \/ Fail(w)

-----------------------------------------------------------------------------
(***************************************************************************)
(* ValidateSession.                                                        *)
(***************************************************************************)
GetSession(w) ==
    /\ At(w, "getSession")
    /\ LET row == sessions[Me(w).sess] IN
       \/ row = None /\ Finish(w, "err")
       \/ row # None /\ job' = [job EXCEPT ![w].copy = row] /\ Goto(w, "judge")
       \/ "db" \in Faults /\ Finish(w, "err")
    /\ UNCHANGED <<tables, history>>

\* Mutant of Stale: only the idle timeout is checked.
MutStale(row) == now - row.seen > SessionTimeout

\* The absolute expiry and the idle timeout, by the row that was read.
Stale(row) == now > row.expires \/ now - row.seen > SessionTimeout

Judge(w) ==
    /\ At(w, "judge")
    /\ Stay(w, IF Stale(Me(w).copy) THEN "drop" ELSE "touch")
    /\ UNCHANGED <<tables, history>>

\* DeleteSession of a session that is refused; its error is dropped.
Drop(w) ==
    /\ At(w, "drop")
    /\ \/ sessions' = [sessions EXCEPT ![Me(w).sess] = None]
       \/ "db" \in Faults /\ UNCHANGED sessions
    /\ Finish(w, "err")
    /\ UNCHANGED <<users, history>>

\* Mutant of Touched: the row is written as it was read.
MutTouched(w) == [Me(w).copy EXCEPT !.seen = now]

\* TouchSession: an UPDATE, which finds no row that is gone.
Touched(w) == LET row == sessions[Me(w).sess]
              IN IF row = None THEN None ELSE [row EXCEPT !.seen = now]

Touch(w) ==
    /\ At(w, "touch")
    /\ \/ /\ sessions' = [sessions EXCEPT ![Me(w).sess] = Touched(w)]
          /\ used' = [used EXCEPT ![Me(w).sess] = now]
          /\ Stay(w, "getUser")
          /\ UNCHANGED <<users, born, bornUsers, demoted>>
       \/ Fail(w)

\* Mutant of Allowed: an administrator may delete himself.
MutAllowed(j, u, role) ==
    CASE j.op = "createUser"     -> role = "admin"
      [] j.op = "deleteUser"     -> role = "admin"
      [] j.op = "changePassword" -> role = "admin" \/ j.target = u
      [] OTHER                   -> TRUE

\* What the role allows: csrfProtect and the checks at the head of a handler.
Allowed(j, u, role) ==
    CASE j.op = "createUser"     -> role = "admin"
      [] j.op = "deleteUser"     -> role = "admin" /\ j.target # u
      [] j.op = "changePassword" -> role = "admin" \/ j.target = u
      [] OTHER                   -> TRUE

\* Mutant of GetUser: the session's user is trusted to exist.
MutGetUser(w) ==
    /\ At(w, "getUser")
    /\ job' = [job EXCEPT ![w] = [@ EXCEPT !.caller = Me(w).copy.user,
                                          !.copy = None]]
    /\ IF Me(w).op = "deleteUser" THEN Goto(w, "deleteRow")
       ELSE /\ pc' = [pc EXCEPT ![w] = "idle"]
            /\ result' = [result EXCEPT ![w] = "ok"]
    /\ UNCHANGED <<tables, history>>

\* The user of the session; the session of a user who is gone is dropped.
\* Any handler may refuse the request for its token or its body.
GetUser(w) ==
    /\ At(w, "getUser")
    /\ LET u == Me(w).copy.user
           entry == CASE Me(w).op = "createUser"     -> "insertUser"
                      [] Me(w).op = "deleteUser"     -> "deleteRow"
                      [] Me(w).op = "changePassword" -> "getTarget"
                      [] OTHER                       -> "idle"
       IN \/ /\ users[u] = None /\ Stay(w, "drop")
          \/ /\ users[u] # None /\ Allowed(Me(w), u, users[u].role)
             /\ job' = [job EXCEPT ![w] = [@ EXCEPT !.caller = u, !.copy = None]]
             /\ pc' = [pc EXCEPT ![w] = entry]
             /\ result' = [result EXCEPT ![w] = IF entry = "idle" THEN "ok" ELSE @]
          \/ users[u] # None /\ Finish(w, "err")
          \/ "db" \in Faults /\ Finish(w, "err")
    /\ UNCHANGED <<tables, history>>

-----------------------------------------------------------------------------
(***************************************************************************)
(* The handlers behind the middleware.                                     *)
(***************************************************************************)

\* handleDeleteUser: the sessions go with the user when the cascade is on.
DeleteRow(w) ==
    /\ At(w, "deleteRow")
    /\ \/ /\ users' = [users EXCEPT ![Me(w).target] = None]
          /\ \E fk \in ForeignKeys :
               sessions' = [s \in Sessions |->
                    IF /\ fk /\ sessions[s] # None
                       /\ sessions[s].user = Me(w).target
                    THEN None ELSE sessions[s]]
          /\ Finish(w, "ok")
          /\ UNCHANGED history
       \/ Fail(w)

\* handleChangePassword: the row is read and written back with the new hash.
GetTarget(w) ==
    /\ At(w, "getTarget")
    /\ LET row == users[Me(w).target] IN
       \/ /\ row # None /\ row.oidc = None
          /\ job' = [job EXCEPT ![w].row = row] /\ Goto(w, "updateUser")
       \/ /\ row = None \/ (row # None /\ row.oidc # None) \/ "db" \in Faults
          /\ Finish(w, "err")
    /\ UNCHANGED <<tables, history>>

\* handleLogout: the error of the delete is dropped.
DeleteSession(w) ==
    /\ At(w, "deleteSession")
    /\ \/ sessions' = [sessions EXCEPT ![Me(w).sess] = None]
       \/ "db" \in Faults /\ UNCHANGED sessions
    /\ Finish(w, "ok")
    /\ UNCHANGED <<users, history>>

-----------------------------------------------------------------------------
Tick == /\ now < MaxTime /\ now' = now + 1
        /\ UNCHANGED <<tables, pc, job, result, cleaned, history, begun, crashes>>

\* CleanExpiredSessions, which Start runs once.
Clean ==
    /\ ~cleaned /\ cleaned' = TRUE
    /\ \/ sessions' = [s \in Sessions |->
              IF sessions[s] # None /\ sessions[s].expires < now THEN None
              ELSE sessions[s]]
       \/ "db" \in Faults /\ UNCHANGED sessions
    /\ UNCHANGED <<now, users, pc, job, result, history, begun, crashes>>

\* The process dies and is started again.
Crash ==
    /\ crashes < MaxCrashes /\ crashes' = crashes + 1
    /\ pc' = [w \in Workers |-> "idle"]
    /\ job' = [w \in Workers |-> NoJob]
    /\ result' = [w \in Workers |-> "none"]
    /\ cleaned' = FALSE
    /\ UNCHANGED <<now, tables, history, begun>>

Arrive(w) == BeginSignIn(w) \/ BeginLogout(w) \/ BeginProtected(w)

Advance(w) ==
    \/ Count(w) \/ ByName(w) \/ ByIdentity(w) \/ JitName(w) \/ InsertUser(w)
    \/ UpdateUser(w) \/ CreateSession(w)
    \/ GetSession(w) \/ Judge(w) \/ Drop(w) \/ Touch(w) \/ GetUser(w)
    \/ DeleteRow(w) \/ GetTarget(w) \/ DeleteSession(w)

Next == \/ \E w \in Workers : Arrive(w) \/ Advance(w)
        \/ Tick \/ Clean \/ Crash

Spec == Init /\ [][Next]_vars

-----------------------------------------------------------------------------
(***************************************************************************)
(* Properties.                                                             *)
(***************************************************************************)

\* The middleware has let the request of w through to its handler.
Admitted(w) == /\ job[w].sess # None /\ job[w].caller # None
               /\ pc[w] # "idle" \/ result[w] = "ok"

(***************************************************************************)
(* A request that began after a user was deleted is not served in his      *)
(* name and does not sign him in, even where the cascade left his sessions *)
(* in the table.                                                           *)
(***************************************************************************)
DeletedUsersRefused ==
    \A w \in Workers :
        (Admitted(w) \/ (result[w] = "ok" /\ job[w].caller # None)) =>
            job[w].caller \notin before[w].users

(***************************************************************************)
(* A request that began after its session had ended, by logout, expiry or  *)
(* the deletion of the user, is not served, whatever requests on the       *)
(* session were under way when it ended.                                   *)
(***************************************************************************)
EndedSessionsRefused ==
    \A w \in Workers : Admitted(w) => job[w].sess \notin before[w].sessions

(***************************************************************************)
(* A session is judged usable only within the idle timeout of its last     *)
(* real use and within the maximal age since its sign-in, however often it *)
(* was touched meanwhile.                                                  *)
(***************************************************************************)
JudgedInTime ==
    [][\A w \in Workers : (pc[w] = "judge" /\ pc'[w] = "touch") =>
        LET s == job[w].sess IN /\ now <= used[s] + SessionTimeout
                                /\ now <= born[s] + MaxSessionAge]_vars

(***************************************************************************)
(* An installation is never left without an administrator, in whatever     *)
(* order the steps of sign-ins, password changes, new users and a deletion *)
(* come: unless two deletions were under way at once, each by one of the   *)
(* last two administrators, or the identity provider demotes one.          *)
(***************************************************************************)
AdminRemains ==
    ("deleteUser" \notin overlap /\ ~demoted /\ \E u \in Users : users[u] # None) =>
        \E u \in Users : users[u] # None /\ users[u].role = "admin"

OneInitialAdmin == Cardinality({u \in Users : users[u] # None /\ users[u].initial}) <= 1

(***************************************************************************)
(* The installation is set up once, whatever else goes on: a later setup   *)
(* is refused whoever was created and deleted in between.  Only two setups *)
(* under way at once may both count no users.                              *)
(***************************************************************************)
SetupOnce == "setup" \in overlap \/ OneInitialAdmin
=============================================================================
