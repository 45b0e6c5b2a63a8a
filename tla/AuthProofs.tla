----------------------------- MODULE AuthProofs -----------------------------
(***************************************************************************)
(* Proofs about Auth: for any number of users, sessions and concurrent     *)
(* requests, any timeouts, any failures, with or without the cascade.      *)
(***************************************************************************)
EXTENDS Auth, TLAPS, FiniteSetTheorems

-----------------------------------------------------------------------------
(***************************************************************************)
(* The shape of a step.                                                    *)
(***************************************************************************)
Results == {"none", "ok", "err"}
SignIn  == {"setup", "login", "oidc"}
Guarded == {"request", "createUser", "deleteUser", "changePassword"}
Front   == {"getSession", "judge", "drop", "touch", "getUser"}

TypeReq == /\ pc \in [Workers -> Labels]
           /\ job \in [Workers -> Job]
           /\ result \in [Workers -> Results]

\* What the local variables of a request hold at each of its steps.
LocalOf(l, j) ==
    /\ j.op \in SignIn => j.sess = None
    /\ l \in {"count", "byName", "byIdentity", "jitName", "createSession"} =>
            j.op \in SignIn
    /\ l \in Front => j.op \in Guarded /\ j.caller = None
    /\ l \in Front \cup {"deleteSession"} => j.sess \in Sessions
    /\ l \in {"judge", "touch", "getUser"} => j.copy \in SessionRow
    /\ (l # "idle" /\ j.op \in SignIn \cup {"createUser"}) => j.row \in UserRow
    /\ (l # "idle" /\ j.op \in {"deleteUser", "changePassword"}) => j.target \in Users
    /\ l = "count" => j.op = "setup"
    /\ l \in {"byIdentity", "jitName"} => j.op = "oidc"
    /\ l = "insertUser" => j.op \in {"setup", "oidc", "createUser"}
    /\ l = "updateUser" => /\ j.op \in {"oidc", "changePassword"}
                           /\ j.target \in Users /\ j.row \in UserRow
                           /\ j.caller \in Users
    /\ l = "createSession" => j.caller \in Users
    /\ l = "deleteRow" => j.op = "deleteUser" /\ j.caller \in Users
    /\ l = "getTarget" => j.op = "changePassword" /\ j.caller \in Users

Locals == \A w \in Workers : LocalOf(pc[w], job[w])

Inv1 == TypeOK /\ Locals

\* Worker w moves to l with the local variables j and the answer r.
Moves(w, l, j, r) == /\ pc' = [pc EXCEPT ![w] = l]
                     /\ job' = [job EXCEPT ![w] = j]
                     /\ result' = [result EXCEPT ![w] = r]

\* The local variables after the answer.
Done(w) == [job[w] EXCEPT !.copy = None, !.target = None, !.row = None]

LEMMA MovesFacts ==
    ASSUME TypeReq, NEW w \in Workers, NEW l \in Labels, NEW j \in Job,
           NEW r \in Results, Moves(w, l, j, r)
    PROVE  /\ TypeReq'
           /\ pc'[w] = l /\ job'[w] = j /\ result'[w] = r
           /\ \A v \in Workers \ {w} : /\ pc'[v] = pc[v] /\ job'[v] = job[v]
                                       /\ result'[v] = result[v]
BY DEF TypeReq, Moves

LEMMA MovesInv1 ==
    ASSUME Inv1, NEW w \in Workers, NEW l \in Labels, NEW j \in Job,
           NEW r \in Results, Moves(w, l, j, r), LocalOf(l, j)
    PROVE  TypeReq' /\ Locals'
<1>1. TypeReq
  BY DEF Inv1, TypeOK, TypeReq, Results
<1> QED BY <1>1, MovesFacts DEF Inv1, Locals

LEMMA FinishMoves ==
    ASSUME Inv1, NEW w \in Workers, NEW r \in Results, Finish(w, r)
    PROVE  /\ Moves(w, "idle", Done(w), r) /\ Done(w) \in Job
           /\ LocalOf("idle", Done(w))
           /\ Done(w).op = job[w].op /\ Done(w).sess = job[w].sess
           /\ Done(w).caller = job[w].caller
<1>1. job[w] \in Job /\ LocalOf(pc[w], job[w])
  BY DEF Inv1, TypeOK, Locals
<1>2. Done(w) \in Job /\ Done(w).op = job[w].op /\ Done(w).sess = job[w].sess
      /\ Done(w).caller = job[w].caller
  BY <1>1 DEF Done, Job
<1>3. LocalOf("idle", Done(w))
  BY <1>1, <1>2 DEF LocalOf, SignIn, Front
<1>4. Moves(w, "idle", Done(w), r)
  BY DEF Finish, Moves, Done
<1> QED BY <1>2, <1>3, <1>4

\* The job is replaced and the answer stays.
LEMMA GotoMoves ==
    ASSUME Inv1, NEW w \in Workers, NEW l, Goto(w, l), NEW j,
           job' = [job EXCEPT ![w] = j]
    PROVE  Moves(w, l, j, result[w]) /\ result[w] \in Results
BY DEF Inv1, TypeOK, Goto, Moves, Results

LEMMA StayMoves ==
    ASSUME Inv1, NEW w \in Workers, NEW l, Stay(w, l)
    PROVE  Moves(w, l, job[w], result[w]) /\ result[w] \in Results
BY DEF Inv1, TypeOK, Stay, Goto, Moves, Results

-----------------------------------------------------------------------------
(***************************************************************************)
(* Inv1, action by action.                                                 *)
(***************************************************************************)

\* The part of TypeOK that is not about requests under way.
TypeRest == /\ now \in Time
            /\ users \in [Users -> UserRow \cup {None}]
            /\ sessions \in [Sessions -> SessionRow \cup {None}]
            /\ cleaned \in BOOLEAN
            /\ born \in [Sessions -> Time \cup {None}]
            /\ used \in [Sessions -> Time \cup {None}]
            /\ bornUsers \subseteq Users
            /\ before \in [Workers -> [users: SUBSET Users, sessions: SUBSET Sessions]]
            /\ overlap \subseteq Solo /\ demoted \in BOOLEAN
            /\ requests \in 0..MaxRequests
            /\ crashes \in 0..MaxCrashes

LEMMA Inv1Parts == Inv1 <=> TypeReq /\ TypeRest /\ Locals
BY DEF Inv1, TypeOK, TypeReq, TypeRest, Results

LEMMA Inv1PartsNext == Inv1' <=> TypeReq' /\ TypeRest' /\ Locals'
BY DEF Inv1, TypeOK, TypeReq, TypeRest, Results

LEMMA RestUnchanged ==
    ASSUME Inv1, UNCHANGED <<now, cleaned, begun, crashes, tables, history>>
    PROVE  TypeRest'
BY Inv1Parts DEF TypeRest, begun, tables, history

LEMMA WorkerFacts ==
    ASSUME Inv1, NEW w \in Workers
    PROVE  /\ pc[w] \in Labels /\ job[w] \in Job /\ LocalOf(pc[w], job[w])
           /\ result[w] \in Results
BY DEF Inv1, TypeOK, Locals, Results

LEMMA FinishInv1 ==
    ASSUME Inv1, NEW w \in Workers, NEW r \in {"ok", "err"}, Finish(w, r), TypeRest'
    PROVE  Inv1'
BY FinishMoves, MovesInv1, Inv1PartsNext DEF Results, Labels

\* A step that changes no table and answers, or moves on.
LEMMA MoveInv1 ==
    ASSUME Inv1, NEW w \in Workers, NEW l \in Labels, NEW j \in Job,
           NEW r \in Results, Moves(w, l, j, r), LocalOf(l, j), TypeRest'
    PROVE  Inv1'
BY MovesInv1, Inv1PartsNext

LEMMA BeginInv1 ==
    ASSUME Inv1, NEW w \in Workers, NEW j \in Job, NEW l \in Labels,
           Begin(w, j, l), LocalOf(l, j)
    PROVE  Inv1'
<1>1. Moves(w, l, j, "none")
  BY DEF Begin, Moves
<1>2. EndedUsers \subseteq Users /\ EndedSessions \subseteq Sessions
  BY DEF EndedUsers, EndedSessions, Inv1, TypeOK
<1>3. before' \in [Workers -> [users: SUBSET Users, sessions: SUBSET Sessions]]
  BY <1>2 DEF Begin, Inv1, TypeOK
<1>4. requests' \in 0..MaxRequests /\ overlap' \subseteq Solo
  BY TimesAssumption DEF Begin, Inv1, TypeOK
<1>5. TypeRest'
  BY <1>3, <1>4, Inv1Parts DEF Begin, TypeRest, tables, history
<1> QED BY <1>1, <1>5, MoveInv1 DEF Results

LEMMA NoJobFacts == /\ NoJob \in Job
                    /\ NoJob.op = "none" /\ NoJob.sess = None
                    /\ NoJob.copy = None /\ NoJob.caller = None
                    /\ NoJob.target = None /\ NoJob.row = None
BY DEF NoJob, Job

LEMMA NewRowType ==
    ASSUME NEW b \in Bases, NEW r \in Roles, NEW i \in BOOLEAN,
           NEW o \in Subjects \cup {None}
    PROVE  NewRow(<<b, FALSE>>, r, i, o) \in UserRow
BY DEF NewRow, UserRow, Names

LEMMA BeginSignInInv1 ==
    ASSUME Inv1, NEW w \in Workers, BeginSignIn(w) PROVE Inv1'
<1> PICK b \in Bases :
        \/ Begin(w, [NoJob EXCEPT !.op = "setup",
                       !.row = NewRow(<<b, FALSE>>, "admin", TRUE, None)], "count")
        \/ Begin(w, [NoJob EXCEPT !.op = "login",
                       !.row = NewRow(<<b, FALSE>>, "viewer", FALSE, None)], "byName")
        \/ \E i \in Subjects, r \in Roles :
            Begin(w, [NoJob EXCEPT !.op = "oidc",
                        !.row = NewRow(<<b, FALSE>>, r, FALSE, i)], "byIdentity")
  BY DEF BeginSignIn
<1>0. ASSUME NEW row \in UserRow, NEW o \in SignIn, NEW l \in Labels,
             l \in {"count", "byName", "byIdentity"},
             l = "count" => o = "setup", l = "byIdentity" => o = "oidc",
             Begin(w, [NoJob EXCEPT !.op = o, !.row = row], l)
      PROVE  Inv1'
  <2> DEFINE j == [NoJob EXCEPT !.op = o, !.row = row]
  <2>1. j \in Job /\ j.op = o /\ j.row = row /\ j.sess = None
    BY <1>0, NoJobFacts DEF Job, SignIn, AllOps
  <2> HIDE DEF j
  <2>2. LocalOf(l, j)
    BY <1>0, <2>1 DEF LocalOf, SignIn, Front, Labels
  <2> QED BY <1>0, <2>1, <2>2, BeginInv1 DEF j
<1>1. CASE Begin(w, [NoJob EXCEPT !.op = "setup",
                       !.row = NewRow(<<b, FALSE>>, "admin", TRUE, None)], "count")
  BY <1>0, <1>1, NewRowType DEF Roles, SignIn, Labels
<1>2. CASE Begin(w, [NoJob EXCEPT !.op = "login",
                       !.row = NewRow(<<b, FALSE>>, "viewer", FALSE, None)], "byName")
  BY <1>0, <1>2, NewRowType DEF Roles, SignIn, Labels
<1>3. ASSUME NEW i \in Subjects, NEW r \in Roles,
             Begin(w, [NoJob EXCEPT !.op = "oidc",
                         !.row = NewRow(<<b, FALSE>>, r, FALSE, i)], "byIdentity")
      PROVE  Inv1'
  BY <1>0, <1>3, NewRowType DEF Roles, SignIn, Labels
<1> QED BY <1>1, <1>2, <1>3

LEMMA BeginLogoutInv1 ==
    ASSUME Inv1, NEW w \in Workers, BeginLogout(w) PROVE Inv1'
<1> PICK s \in Sessions :
        Begin(w, [NoJob EXCEPT !.op = "logout", !.sess = s], "deleteSession")
  BY DEF BeginLogout
<1> DEFINE j == [NoJob EXCEPT !.op = "logout", !.sess = s]
<1>1. j \in Job /\ j.op = "logout" /\ j.sess = s
  BY NoJobFacts DEF Job, AllOps
<1>2. Begin(w, j, "deleteSession")
  OBVIOUS
<1> HIDE DEF j
<1>3. LocalOf("deleteSession", j)
  BY <1>1 DEF LocalOf, SignIn, Front
<1> QED BY <1>1, <1>2, <1>3, BeginInv1 DEF Labels

\* A protected request starts at the middleware.
LEMMA BeginGuardedInv1 ==
    ASSUME Inv1, NEW w \in Workers, NEW o \in Guarded, NEW s \in Sessions,
           NEW j \in Job, j.op = o, j.sess = s, j.caller = None,
           o = "createUser" => j.row \in UserRow,
           o \in {"deleteUser", "changePassword"} => j.target \in Users,
           Begin(w, j, "getSession")
    PROVE  Inv1'
<1>1. LocalOf("getSession", j)
  BY DEF LocalOf, SignIn, Front, Guarded
<1> QED BY <1>1, BeginInv1 DEF Labels

LEMMA BeginProtectedInv1 ==
    ASSUME Inv1, NEW w \in Workers, BeginProtected(w) PROVE Inv1'
<1> PICK s \in Sessions :
        \/ Begin(w, [NoJob EXCEPT !.op = "request", !.sess = s], "getSession")
        \/ \E b \in Bases, r \in Roles :
             Begin(w, [NoJob EXCEPT !.op = "createUser", !.sess = s,
                         !.row = NewRow(<<b, FALSE>>, r, FALSE, None)], "getSession")
        \/ \E o \in {"deleteUser", "changePassword"}, u \in bornUsers :
             Begin(w, [NoJob EXCEPT !.op = o, !.sess = s, !.target = u], "getSession")
  BY DEF BeginProtected
<1>1. CASE Begin(w, [NoJob EXCEPT !.op = "request", !.sess = s], "getSession")
  <2> DEFINE j == [NoJob EXCEPT !.op = "request", !.sess = s]
  <2>1. j \in Job /\ j.op = "request" /\ j.sess = s /\ j.caller = None
    BY NoJobFacts DEF Job, AllOps
  <2>2. Begin(w, j, "getSession")
    BY <1>1
  <2> HIDE DEF j
  <2> QED BY <2>1, <2>2, BeginGuardedInv1 DEF Guarded
<1>2. ASSUME NEW b \in Bases, NEW r \in Roles,
             Begin(w, [NoJob EXCEPT !.op = "createUser", !.sess = s,
                         !.row = NewRow(<<b, FALSE>>, r, FALSE, None)], "getSession")
      PROVE  Inv1'
  <2> DEFINE row == NewRow(<<b, FALSE>>, r, FALSE, None)
             j == [NoJob EXCEPT !.op = "createUser", !.sess = s, !.row = row]
  <2>1. row \in UserRow
    BY NewRowType
  <2>2. Begin(w, j, "getSession")
    BY <1>2
  <2> HIDE DEF row
  <2>3. /\ j \in Job /\ j.op = "createUser" /\ j.sess = s /\ j.caller = None
        /\ j.row = row
    BY <2>1, NoJobFacts DEF Job, AllOps
  <2> HIDE DEF j
  <2> QED BY <2>1, <2>2, <2>3, BeginGuardedInv1 DEF Guarded
<1>3. ASSUME NEW o \in {"deleteUser", "changePassword"}, NEW u \in bornUsers,
             Begin(w, [NoJob EXCEPT !.op = o, !.sess = s, !.target = u], "getSession")
      PROVE  Inv1'
  <2> DEFINE j == [NoJob EXCEPT !.op = o, !.sess = s, !.target = u]
  <2>1. u \in Users
    BY DEF Inv1, TypeOK
  <2>2. /\ j \in Job /\ j.op = o /\ j.sess = s /\ j.caller = None
        /\ j.target = u
    BY <2>1, NoJobFacts DEF Job, AllOps
  <2>3. Begin(w, j, "getSession")
    BY <1>3
  <2> HIDE DEF j
  <2> QED BY <2>1, <2>2, <2>3, BeginGuardedInv1 DEF Guarded
<1> QED BY <1>1, <1>2, <1>3

LEMMA CountInv1 == ASSUME Inv1, NEW w \in Workers, Count(w) PROVE Inv1'
<1>1. TypeRest'
  BY RestUnchanged DEF Count, At
<1>2. CASE Stay(w, "insertUser")
  <2>1. LocalOf("insertUser", job[w])
    BY WorkerFacts DEF Count, At, LocalOf, Front, SignIn
  <2> QED BY <1>1, <1>2, <2>1, StayMoves, MoveInv1, WorkerFacts DEF Labels
<1> QED BY <1>1, <1>2, FinishInv1 DEF Count

LEMMA ByNameInv1 == ASSUME Inv1, NEW w \in Workers, ByName(w) PROVE Inv1'
<1>1. TypeRest'
  BY RestUnchanged DEF ByName, At
<1>2. ASSUME NEW u \in Users, job' = [job EXCEPT ![w].caller = u],
             Goto(w, "createSession")
      PROVE  Inv1'
  <2> DEFINE j == [job[w] EXCEPT !.caller = u]
  <2>1. /\ j \in Job /\ j.caller = u /\ j.op = job[w].op /\ j.row = job[w].row
        /\ j.sess = job[w].sess
    BY WorkerFacts DEF Job
  <2>2. job' = [job EXCEPT ![w] = j]
    BY <1>2
  <2> HIDE DEF j
  <2>3. LocalOf("createSession", j)
    BY WorkerFacts, <2>1 DEF ByName, At, LocalOf, Front, SignIn
  <2> QED BY <1>1, <1>2, <2>1, <2>2, <2>3, GotoMoves, MoveInv1 DEF Labels
<1> QED BY <1>1, <1>2, FinishInv1 DEF ByName

LEMMA ByIdentityInv1 == ASSUME Inv1, NEW w \in Workers, ByIdentity(w) PROVE Inv1'
<1>1. TypeRest'
  BY RestUnchanged DEF ByIdentity, At
<1>2. CASE Stay(w, "jitName")
  <2>1. LocalOf("jitName", job[w])
    BY WorkerFacts DEF ByIdentity, At, LocalOf, Front, SignIn
  <2> QED BY <1>1, <1>2, <2>1, StayMoves, MoveInv1, WorkerFacts DEF Labels
<1>3. ASSUME NEW u \in Users, users[u] # None, NEW l \in {"updateUser", "createSession"},
             job' = [job EXCEPT ![w] = [@ EXCEPT !.caller = u, !.target = u,
                         !.row = [users[u] EXCEPT !.role = Me(w).row.role]]],
             Goto(w, l)
      PROVE  Inv1'
  <2> DEFINE row == [users[u] EXCEPT !.role = Me(w).row.role]
             j == [job[w] EXCEPT !.caller = u, !.target = u, !.row = row]
  <2>1. job[w].row \in UserRow /\ job[w].op = "oidc" /\ job[w].sess = None
    BY WorkerFacts DEF ByIdentity, At, LocalOf, SignIn
  <2>2. row \in UserRow
    BY <1>3, <2>1 DEF Inv1, TypeOK, UserRow, Me
  <2>3. job' = [job EXCEPT ![w] = j]
    BY <1>3
  <2> HIDE DEF row
  <2>4. /\ j \in Job /\ j.caller = u /\ j.target = u /\ j.row = row
        /\ j.op = job[w].op /\ j.sess = job[w].sess
    BY <2>2, WorkerFacts DEF Job
  <2> HIDE DEF j
  <2>5. LocalOf(l, j)
    BY <2>1, <2>2, <2>4 DEF LocalOf, Front, SignIn
  <2>6. Moves(w, l, j, result[w]) /\ result[w] \in Results
    BY <1>3, <2>3, GotoMoves
  <2>7. l \in Labels
    BY DEF Labels
  <2> QED BY <1>1, <2>4, <2>5, <2>6, <2>7, MoveInv1
<1> QED BY <1>1, <1>2, <1>3, FinishInv1 DEF ByIdentity

LEMMA JitNameInv1 == ASSUME Inv1, NEW w \in Workers, JitName(w) PROVE Inv1'
<1>1. TypeRest'
  BY RestUnchanged DEF JitName, At
<1>2. job[w].row \in UserRow /\ job[w].op = "oidc" /\ job[w].sess = None
  BY WorkerFacts DEF JitName, At, LocalOf, SignIn
<1>3. ASSUME job' = [job EXCEPT ![w].row.name = <<@[1], TRUE>>] PROVE Inv1'
  <2> DEFINE row == [job[w].row EXCEPT !.name = <<@[1], TRUE>>]
             j == [job[w] EXCEPT !.row = row]
  <2>1. job[w].row.name \in Bases \X BOOLEAN
    BY <1>2 DEF UserRow, Names
  <2>2. <<job[w].row.name[1], TRUE>> \in Names
    BY <2>1 DEF Names
  <2>3. row \in UserRow
    BY <1>2, <2>2 DEF UserRow
  <2>4. job' = [job EXCEPT ![w] = j]
    BY <1>3
  <2> HIDE DEF row
  <2>5. j \in Job /\ j.row = row /\ j.op = job[w].op /\ j.sess = job[w].sess
    BY <2>3, WorkerFacts DEF Job
  <2> HIDE DEF j
  <2>6. LocalOf("insertUser", j)
    BY <1>2, <2>3, <2>5 DEF LocalOf, Front, SignIn
  <2> QED BY <1>1, <2>4, <2>5, <2>6, GotoMoves, MoveInv1 DEF JitName, Labels
<1>4. CASE UNCHANGED job
  <2>1. LocalOf("insertUser", job[w])
    BY <1>2, WorkerFacts DEF JitName, At, LocalOf, Front, SignIn
  <2>2. Stay(w, "insertUser")
    BY <1>4 DEF JitName, Stay
  <2> QED BY <1>1, <2>1, <2>2, StayMoves, MoveInv1, WorkerFacts DEF Labels
<1> QED BY <1>3, <1>4 DEF JitName

\* A request whose caller becomes u goes on to create his session.
LEMMA CallerInv1 ==
    ASSUME Inv1, NEW w \in Workers, NEW u \in Users,
           pc[w] = "insertUser", job[w].op # "createUser",
           job' = [job EXCEPT ![w].caller = u],
           Goto(w, "createSession"), TypeRest'
    PROVE  Inv1'
<1> DEFINE j == [job[w] EXCEPT !.caller = u]
<1>1. /\ j \in Job /\ j.caller = u /\ j.op = job[w].op /\ j.row = job[w].row
      /\ j.sess = job[w].sess
  BY WorkerFacts DEF Job
<1>2. job' = [job EXCEPT ![w] = j]
  OBVIOUS
<1> HIDE DEF j
<1>3. LocalOf("createSession", j)
  BY WorkerFacts, <1>1 DEF LocalOf, Front, SignIn
<1> QED BY <1>1, <1>2, <1>3, GotoMoves, MoveInv1 DEF Labels

LEMMA InsertUserInv1 == ASSUME Inv1, NEW w \in Workers, InsertUser(w) PROVE Inv1'
<1>1. job[w].row \in UserRow /\ pc[w] = "insertUser"
  BY WorkerFacts DEF InsertUser, At, LocalOf, SignIn
<1>2. ASSUME NEW u \in Users \ bornUsers,
             users' = [users EXCEPT ![u] = Me(w).row],
             bornUsers' = bornUsers \cup {u},
             IF Me(w).op = "createUser" THEN Finish(w, "ok")
             ELSE job' = [job EXCEPT ![w].caller = u] /\ Goto(w, "createSession"),
             UNCHANGED <<sessions, born, used, demoted>>
      PROVE  Inv1'
  <2>1. users' \in [Users -> UserRow \cup {None}] /\ bornUsers' \subseteq Users
    BY <1>1, <1>2 DEF Inv1, TypeOK, Me
  <2>2. TypeRest'
    BY <1>2, <2>1, Inv1Parts DEF TypeRest, InsertUser, At, begun
  <2>3. CASE Me(w).op = "createUser"
    BY <1>2, <2>2, <2>3, FinishInv1
  <2>4. CASE Me(w).op # "createUser"
    BY <1>1, <1>2, <2>2, <2>4, CallerInv1 DEF Me
  <2> QED BY <2>3, <2>4
<1>3. ASSUME Finish(w, "err"), UNCHANGED <<tables, history>> PROVE Inv1'
  BY <1>3, RestUnchanged, FinishInv1 DEF InsertUser, At
<1> QED BY <1>2, <1>3 DEF InsertUser, Fail

LEMMA UpdateUserInv1 == ASSUME Inv1, NEW w \in Workers, UpdateUser(w) PROVE Inv1'
<1>1. /\ job[w].target \in Users /\ job[w].row \in UserRow /\ pc[w] = "updateUser"
      /\ job[w].op \in {"oidc", "changePassword"} /\ job[w].caller \in Users
  BY WorkerFacts DEF UpdateUser, At, LocalOf
<1>2. TypeRest'
  <2>1. CASE UNCHANGED <<tables, history>>
    BY <2>1, RestUnchanged DEF UpdateUser, At
  <2>2. ASSUME users' = [users EXCEPT ![Me(w).target] =
                            IF users[Me(w).target] = None THEN @ ELSE Me(w).row],
               demoted' \in BOOLEAN, UNCHANGED <<sessions, born, used, bornUsers>>
        PROVE  TypeRest'
    <3>1. users' \in [Users -> UserRow \cup {None}]
      BY <1>1, <2>2 DEF Inv1, TypeOK, Me
    <3> QED BY <2>2, <3>1, Inv1Parts DEF TypeRest, UpdateUser, At, begun
  <2> QED BY <2>1, <2>2 DEF UpdateUser, Fail
<1>3. ASSUME job[w].op = "oidc", Stay(w, "createSession") PROVE Inv1'
  <2>1. LocalOf("createSession", job[w])
    BY <1>1, <1>3, WorkerFacts DEF LocalOf, Front, SignIn
  <2> QED BY <1>2, <1>3, <2>1, StayMoves, MoveInv1, WorkerFacts DEF Labels
<1> QED BY <1>2, <1>3, FinishInv1 DEF UpdateUser, Fail, Me

LEMMA CreateSessionInv1 ==
    ASSUME Inv1, NEW w \in Workers, CreateSession(w) PROVE Inv1'
<1>1. job[w].caller \in Users
  BY WorkerFacts DEF CreateSession, At, LocalOf
<1>2. ASSUME NEW s \in Sessions,
             sessions' = [sessions EXCEPT ![s] = [user |-> Me(w).caller,
                             expires |-> now + MaxSessionAge, seen |-> now]],
             born' = [born EXCEPT ![s] = now], used' = [used EXCEPT ![s] = now],
             UNCHANGED <<users, bornUsers, demoted>>
      PROVE  TypeRest'
  <2> DEFINE row == [user |-> Me(w).caller, expires |-> now + MaxSessionAge,
                     seen |-> now]
  <2>1. now \in Time /\ now + MaxSessionAge \in 0..(MaxTime + MaxSessionAge)
    BY TimesAssumption DEF Inv1, TypeOK, Time
  <2>2. row \in SessionRow
    BY <1>1, <2>1 DEF SessionRow, Me
  <2>3. sessions' = [sessions EXCEPT ![s] = row]
    BY <1>2
  <2> HIDE DEF row
  <2>4. /\ sessions' \in [Sessions -> SessionRow \cup {None}]
        /\ born' \in [Sessions -> Time \cup {None}]
        /\ used' \in [Sessions -> Time \cup {None}]
    BY <1>2, <2>1, <2>2, <2>3 DEF Inv1, TypeOK
  <2> QED BY <1>2, <2>4, Inv1Parts DEF TypeRest, CreateSession, At, begun
<1>3. CASE UNCHANGED <<tables, history>>
  BY <1>3, RestUnchanged, FinishInv1 DEF CreateSession, At, Fail, tables
<1> QED BY <1>2, <1>3, FinishInv1 DEF CreateSession, Fail

LEMMA GetSessionInv1 == ASSUME Inv1, NEW w \in Workers, GetSession(w) PROVE Inv1'
<1>1. TypeRest'
  BY RestUnchanged DEF GetSession, At
<1>2. ASSUME sessions[job[w].sess] # None, Goto(w, "judge"),
             job' = [job EXCEPT ![w].copy = sessions[job[w].sess]]
      PROVE  Inv1'
  <2> DEFINE row == sessions[job[w].sess]
             j == [job[w] EXCEPT !.copy = row]
  <2>1. row \in SessionRow
    BY <1>2, WorkerFacts DEF GetSession, At, LocalOf, Front, Inv1, TypeOK
  <2>2. job' = [job EXCEPT ![w] = j]
    BY <1>2
  <2> HIDE DEF row
  <2>3. /\ j \in Job /\ j.copy = row /\ j.op = job[w].op /\ j.sess = job[w].sess
        /\ j.caller = job[w].caller /\ j.target = job[w].target /\ j.row = job[w].row
    BY <2>1, WorkerFacts DEF Job
  <2> HIDE DEF j
  <2>4. LocalOf("judge", j)
    BY <2>1, <2>3, WorkerFacts DEF GetSession, At, LocalOf, Front, SignIn
  <2> QED BY <1>1, <1>2, <2>2, <2>3, <2>4, GotoMoves, MoveInv1 DEF Labels
<1> QED BY <1>1, <1>2, FinishInv1 DEF GetSession, Me

LEMMA JudgeInv1 == ASSUME Inv1, NEW w \in Workers, Judge(w) PROVE Inv1'
<1>1. TypeRest'
  BY RestUnchanged DEF Judge, At
<1>2. ASSUME NEW l \in {"drop", "touch"}, Stay(w, l) PROVE Inv1'
  <2>1. LocalOf(l, job[w]) /\ l \in Labels
    BY WorkerFacts DEF Judge, At, LocalOf, Front, SignIn, Labels
  <2> QED BY <1>1, <1>2, <2>1, StayMoves, MoveInv1, WorkerFacts
<1> QED BY <1>2 DEF Judge

\* Rows of sessions may go at any time.
LEMMA SessionsType ==
    ASSUME Inv1, sessions' \in [Sessions -> SessionRow \cup {None}],
           UNCHANGED <<now, begun, crashes, born, used, bornUsers, demoted>>,
           users' \in [Users -> UserRow \cup {None}], cleaned' \in BOOLEAN
    PROVE  TypeRest'
BY Inv1Parts DEF TypeRest, begun

LEMMA DropInv1 == ASSUME Inv1, NEW w \in Workers, Drop(w) PROVE Inv1'
<1>1. sessions' \in [Sessions -> SessionRow \cup {None}]
  BY DEF Drop, Inv1, TypeOK
<1>2. TypeRest'
  BY <1>1, SessionsType DEF Drop, At, history, Inv1, TypeOK
<1> QED BY <1>2, FinishInv1 DEF Drop

LEMMA DeleteSessionInv1 ==
    ASSUME Inv1, NEW w \in Workers, DeleteSession(w) PROVE Inv1'
<1>1. sessions' \in [Sessions -> SessionRow \cup {None}]
  BY DEF DeleteSession, Inv1, TypeOK
<1>2. TypeRest'
  BY <1>1, SessionsType DEF DeleteSession, At, history, Inv1, TypeOK
<1> QED BY <1>2, FinishInv1 DEF DeleteSession

LEMMA TouchInv1 == ASSUME Inv1, NEW w \in Workers, Touch(w) PROVE Inv1'
<1>1. CASE Fail(w)
  BY <1>1, RestUnchanged, FinishInv1 DEF Touch, At, Fail
<1>2. ASSUME sessions' = [sessions EXCEPT ![job[w].sess] = Touched(w)],
             used' = [used EXCEPT ![job[w].sess] = now], Stay(w, "getUser"),
             UNCHANGED <<users, born, bornUsers, demoted>>
      PROVE  Inv1'
  <2>1. job[w].sess \in Sessions
    BY WorkerFacts DEF Touch, At, LocalOf, Front
  <2>2. Touched(w) \in SessionRow \cup {None}
    <3>1. now \in Time /\ sessions[job[w].sess] \in SessionRow \cup {None}
      BY <2>1 DEF Inv1, TypeOK
    <3> QED BY <3>1 DEF Touched, Me, SessionRow
  <2>3. /\ sessions' \in [Sessions -> SessionRow \cup {None}]
        /\ used' \in [Sessions -> Time \cup {None}]
    BY <1>2, <2>2 DEF Inv1, TypeOK
  <2>4. TypeRest'
    BY <1>2, <2>3, Inv1Parts DEF TypeRest, Touch, At, begun
  <2>5. LocalOf("getUser", job[w])
    BY WorkerFacts DEF Touch, At, LocalOf, Front, SignIn
  <2> QED BY <1>2, <2>4, <2>5, StayMoves, MoveInv1, WorkerFacts DEF Labels
<1> QED BY <1>1, <1>2 DEF Touch, Me

LEMMA GetUserInv1 == ASSUME Inv1, NEW w \in Workers, GetUser(w) PROVE Inv1'
<1> DEFINE u == job[w].copy.user
           j == [job[w] EXCEPT !.caller = u, !.copy = None]
<1>1. TypeRest'
  BY RestUnchanged DEF GetUser, At
<1>2. u \in Users /\ job[w].op \in Guarded
  BY WorkerFacts DEF GetUser, At, LocalOf, Front, SessionRow
<1>3. CASE Stay(w, "drop")
  <2>1. LocalOf("drop", job[w])
    BY WorkerFacts DEF GetUser, At, LocalOf, Front, SignIn
  <2> QED BY <1>1, <1>3, <2>1, StayMoves, MoveInv1, WorkerFacts DEF Labels
<1>4. ASSUME NEW l \in {"insertUser", "deleteRow", "getTarget", "idle"},
             l = "insertUser" => job[w].op = "createUser",
             l = "deleteRow" => job[w].op = "deleteUser",
             l = "getTarget" => job[w].op = "changePassword",
             job' = [job EXCEPT ![w] = j], pc' = [pc EXCEPT ![w] = l],
             result' = [result EXCEPT ![w] = IF l = "idle" THEN "ok" ELSE @]
      PROVE  Inv1'
  <2> DEFINE r == IF l = "idle" THEN "ok" ELSE result[w]
  <2>1. /\ j \in Job /\ j.op = job[w].op /\ j.sess = job[w].sess
        /\ j.caller = u /\ j.target = job[w].target /\ j.row = job[w].row
    BY <1>2, WorkerFacts DEF Job
  <2>2. Moves(w, l, j, r)
    BY <1>4 DEF Moves
  <2>3. r \in Results /\ l \in Labels
    BY WorkerFacts DEF Results, Labels
  <2> HIDE DEF j, r
  <2>4. LocalOf(l, j)
    BY <1>2, <1>4, <2>1, WorkerFacts DEF GetUser, At, LocalOf, Front, SignIn, Guarded
  <2> QED BY <1>1, <2>1, <2>2, <2>3, <2>4, MoveInv1
<1> DEFINE entry == CASE job[w].op = "createUser"     -> "insertUser"
                      [] job[w].op = "deleteUser"     -> "deleteRow"
                      [] job[w].op = "changePassword" -> "getTarget"
                      [] OTHER                        -> "idle"
<1>5. /\ entry \in {"insertUser", "deleteRow", "getTarget", "idle"}
      /\ entry = "insertUser" => job[w].op = "createUser"
      /\ entry = "deleteRow" => job[w].op = "deleteUser"
      /\ entry = "getTarget" => job[w].op = "changePassword"
  OBVIOUS
<1>6. \/ Stay(w, "drop") \/ Finish(w, "err")
      \/ /\ job' = [job EXCEPT ![w] = j] /\ pc' = [pc EXCEPT ![w] = entry]
         /\ result' = [result EXCEPT ![w] = IF entry = "idle" THEN "ok" ELSE @]
  BY DEF GetUser, Me
<1> HIDE DEF entry, j
<1> QED BY <1>1, <1>3, <1>4, <1>5, <1>6, FinishInv1

LEMMA DeleteRowInv1 == ASSUME Inv1, NEW w \in Workers, DeleteRow(w) PROVE Inv1'
<1>1. CASE Fail(w)
  BY <1>1, RestUnchanged, FinishInv1 DEF DeleteRow, At, Fail
<1>2. ASSUME users' = [users EXCEPT ![job[w].target] = None], Finish(w, "ok"),
             UNCHANGED history, NEW fk \in ForeignKeys,
             sessions' = [s \in Sessions |->
                    IF /\ fk /\ sessions[s] # None
                       /\ sessions[s].user = job[w].target
                    THEN None ELSE sessions[s]]
      PROVE  Inv1'
  <2>1. /\ users' \in [Users -> UserRow \cup {None}]
        /\ sessions' \in [Sessions -> SessionRow \cup {None}]
    BY <1>2 DEF Inv1, TypeOK
  <2>2. TypeRest'
    BY <1>2, <2>1, SessionsType DEF DeleteRow, At, history, Inv1, TypeOK
  <2> QED BY <1>2, <2>2, FinishInv1
<1> QED BY <1>1, <1>2 DEF DeleteRow, Me

LEMMA GetTargetInv1 == ASSUME Inv1, NEW w \in Workers, GetTarget(w) PROVE Inv1'
<1>1. TypeRest'
  BY RestUnchanged DEF GetTarget, At
<1>2. ASSUME users[job[w].target] # None, Goto(w, "updateUser"),
             job' = [job EXCEPT ![w].row = users[job[w].target]]
      PROVE  Inv1'
  <2> DEFINE row == users[job[w].target]
             j == [job[w] EXCEPT !.row = row]
  <2>1. row \in UserRow /\ job[w].target \in Users /\ job[w].caller \in Users
    BY <1>2, WorkerFacts DEF GetTarget, At, LocalOf, Inv1, TypeOK
  <2>2. job' = [job EXCEPT ![w] = j]
    BY <1>2
  <2> HIDE DEF row
  <2>3. /\ j \in Job /\ j.row = row /\ j.op = job[w].op /\ j.sess = job[w].sess
        /\ j.caller = job[w].caller /\ j.target = job[w].target
    BY <2>1, WorkerFacts DEF Job
  <2> HIDE DEF j
  <2>4. LocalOf("updateUser", j)
    BY <2>1, <2>3, WorkerFacts DEF GetTarget, At, LocalOf, Front, SignIn
  <2> QED BY <1>1, <1>2, <2>2, <2>3, <2>4, GotoMoves, MoveInv1 DEF Labels
<1> QED BY <1>1, <1>2, FinishInv1 DEF GetTarget, Me

LEMMA TickInv1 == ASSUME Inv1, Tick PROVE Inv1'
<1>1. now' \in Time
  BY TimesAssumption DEF Tick, Time, Inv1, TypeOK
<1>2. TypeRest'
  BY <1>1, Inv1Parts DEF Tick, TypeRest, tables, history, begun
<1> QED BY <1>2, Inv1Parts, Inv1PartsNext DEF Tick, TypeReq, Locals

LEMMA CleanInv1 == ASSUME Inv1, Clean PROVE Inv1'
<1>1. sessions' \in [Sessions -> SessionRow \cup {None}]
  BY DEF Clean, Inv1, TypeOK
<1>2. TypeRest'
  BY <1>1, SessionsType DEF Clean, history, Inv1, TypeOK
<1> QED BY <1>2, Inv1Parts, Inv1PartsNext DEF Clean, TypeReq, Locals

LEMMA CrashInv1 == ASSUME Inv1, Crash PROVE Inv1'
<1>1. crashes' \in 0..MaxCrashes
  BY TimesAssumption DEF Crash, Inv1, TypeOK
<1>2. TypeRest'
  BY <1>1, Inv1Parts DEF Crash, TypeRest, tables, history, begun
<1>3. TypeReq'
  BY NoJobFacts DEF Crash, TypeReq, Labels, Results
<1>4. Locals'
  BY NoJobFacts DEF Crash, Locals, LocalOf, SignIn, Front
<1> QED BY <1>2, <1>3, <1>4, Inv1PartsNext

LEMMA StutterInv1 == ASSUME Inv1, UNCHANGED vars PROVE Inv1'
BY RestUnchanged, Inv1Parts, Inv1PartsNext DEF vars, TypeReq, Locals

LEMMA InitInv1 == ASSUME Init PROVE Inv1
<1>1. TypeReq
  BY NoJobFacts DEF Init, TypeReq, Labels, Results
<1>2. before \in [Workers -> [users: SUBSET Users, sessions: SUBSET Sessions]]
  BY DEF Init
<1>3. now \in Time /\ requests \in 0..MaxRequests /\ crashes \in 0..MaxCrashes
  BY TimesAssumption DEF Init, Time
<1>4. TypeRest
  BY <1>2, <1>3 DEF Init, TypeRest
<1>5. Locals
  BY NoJobFacts DEF Init, Locals, LocalOf, SignIn, Front
<1> QED BY <1>1, <1>4, <1>5, Inv1Parts

LEMMA ArriveInv1 == ASSUME Inv1, NEW w \in Workers, Arrive(w) PROVE Inv1'
BY BeginSignInInv1, BeginLogoutInv1, BeginProtectedInv1 DEF Arrive

LEMMA AdvanceInv1 == ASSUME Inv1, NEW w \in Workers, Advance(w) PROVE Inv1'
BY CountInv1, ByNameInv1, ByIdentityInv1, JitNameInv1, InsertUserInv1,
   UpdateUserInv1, CreateSessionInv1, GetSessionInv1, JudgeInv1, DropInv1,
   TouchInv1, GetUserInv1, DeleteRowInv1, GetTargetInv1, DeleteSessionInv1
   DEF Advance

LEMMA NextInv1 == ASSUME Inv1, [Next]_vars PROVE Inv1'
BY ArriveInv1, AdvanceInv1, TickInv1, CleanInv1, CrashInv1, StutterInv1 DEF Next

LEMMA Inv1Correct == Spec => []Inv1
BY InitInv1, NextInv1, PTL DEF Spec

(***************************************************************************)
(* The state of users, sessions and requests stays within its types, for   *)
(* any constants: in particular no handler of handler_users.go or          *)
(* handler_auth.go stores a row it did not build or read.                  *)
(***************************************************************************)
THEOREM TypeOKCorrect == Spec => []TypeOK
<1>1. Inv1 => TypeOK
  BY DEF Inv1
<1> QED BY <1>1, Inv1Correct, PTL

-----------------------------------------------------------------------------
(***************************************************************************)
(* What has ended stays ended, and no row is younger than its history.     *)
(***************************************************************************)

\* A row of session s, in the table or as a request has read it.
RowOf(row, s) == /\ born[s] \in Time /\ used[s] \in Time
                 /\ row.seen <= used[s]
                 /\ row.expires = born[s] + MaxSessionAge

Rows == /\ \A s \in Sessions : sessions[s] # None => RowOf(sessions[s], s)
        /\ \A s \in Sessions : used[s] # None => used[s] <= now

EndedStay == \A w \in Workers :
    /\ \A s \in before[w].sessions : born[s] # None /\ sessions[s] = None
    /\ \A u \in before[w].users : u \in bornUsers /\ users[u] = None

Sane(w) ==
    /\ job[w].caller # None => job[w].caller \notin before[w].users
    /\ (pc[w] \in {"judge", "touch", "getUser"} \/ Admitted(w)) =>
            job[w].sess \notin before[w].sessions
    /\ pc[w] = "judge" => RowOf(job[w].copy, job[w].sess)

Inv2 == Rows /\ EndedStay /\ \A w \in Workers : Sane(w)

\* What every step does to the tables and the history of the past.
Grows ==
    /\ \A s \in Sessions : born[s] # None =>
            /\ born'[s] = born[s]
            /\ sessions[s] = None => sessions'[s] = None
    /\ \A s \in Sessions : used[s] \in Time => used'[s] \in Time /\ used'[s] >= used[s]
    /\ \A u \in bornUsers : u \in bornUsers' /\ (users[u] = None => users'[u] = None)

LEMMA SameGrows == ASSUME Inv1, UNCHANGED <<tables, history>> PROVE Grows
BY DEF Grows, tables, history, Inv1, TypeOK, Time

LEMMA SameRows ==
    ASSUME Inv2, UNCHANGED <<now, tables, history>> PROVE Rows'
BY DEF Inv2, Rows, RowOf, tables, history

\* Rows of sessions only go.
LEMMA GoneRows ==
    ASSUME Inv1, Inv2, UNCHANGED <<now, history>>,
           \A s \in Sessions : sessions'[s] = sessions[s] \/ sessions'[s] = None
    PROVE  Rows'
BY DEF Inv2, Rows, RowOf, history

LEMMA GoneGrows ==
    ASSUME Inv1, UNCHANGED history,
           \A s \in Sessions : sessions'[s] = sessions[s] \/ sessions'[s] = None,
           \A u \in Users : users'[u] = users[u] \/ users'[u] = None
    PROVE  Grows
BY DEF Grows, history, Inv1, TypeOK, Time

LEMMA InsertUserTables ==
    ASSUME Inv1, Inv2, NEW w \in Workers, InsertUser(w) PROVE Rows' /\ Grows
<1>1. CASE UNCHANGED <<tables, history>>
  BY <1>1, SameRows, SameGrows DEF InsertUser, At
<1>2. ASSUME NEW u \in Users \ bornUsers,
             users' = [users EXCEPT ![u] = Me(w).row],
             bornUsers' = bornUsers \cup {u},
             UNCHANGED <<sessions, born, used, demoted>>
      PROVE  Rows' /\ Grows
  <2>1. Rows'
    BY <1>2 DEF InsertUser, At, Inv2, Rows, RowOf
  <2>2. Grows
    BY <1>2 DEF Grows, Inv1, TypeOK, Time
  <2> QED BY <2>1, <2>2
<1> QED BY <1>1, <1>2 DEF InsertUser, Fail

LEMMA UpdateUserTables ==
    ASSUME Inv1, Inv2, NEW w \in Workers, UpdateUser(w) PROVE Rows' /\ Grows
<1>1. CASE UNCHANGED <<tables, history>>
  BY <1>1, SameRows, SameGrows DEF UpdateUser, At
<1>2. ASSUME users' = [users EXCEPT ![Me(w).target] =
                          IF users[Me(w).target] = None THEN @ ELSE Me(w).row],
             UNCHANGED <<sessions, born, used, bornUsers>>
      PROVE  Rows' /\ Grows
  <2>1. Rows'
    BY <1>2 DEF UpdateUser, At, Inv2, Rows, RowOf
  <2>2. Grows
    BY <1>2 DEF Grows, Inv1, TypeOK, Time
  <2> QED BY <2>1, <2>2
<1> QED BY <1>1, <1>2 DEF UpdateUser, Fail

LEMMA CreateSessionTables ==
    ASSUME Inv1, Inv2, NEW w \in Workers, CreateSession(w) PROVE Rows' /\ Grows
<1>1. CASE UNCHANGED <<tables, history>>
  BY <1>1, SameRows, SameGrows DEF CreateSession, At
<1>2. ASSUME NEW s \in Sessions, born[s] = None,
             sessions' = [sessions EXCEPT ![s] = [user |-> Me(w).caller,
                             expires |-> now + MaxSessionAge, seen |-> now]],
             born' = [born EXCEPT ![s] = now], used' = [used EXCEPT ![s] = now],
             UNCHANGED <<users, bornUsers, demoted>>, UNCHANGED now
      PROVE  Rows' /\ Grows
  <2>1. now \in Time /\ now \in Nat
    BY TimesAssumption DEF Inv1, TypeOK, Time
  <2>2. /\ sessions'[s].seen = now /\ sessions'[s].expires = now + MaxSessionAge
        /\ born'[s] = now /\ used'[s] = now
        /\ \A t \in Sessions \ {s} : /\ sessions'[t] = sessions[t]
                                     /\ born'[t] = born[t] /\ used'[t] = used[t]
    BY <1>2 DEF Inv1, TypeOK
  <2>3. Rows'
    BY <1>2, <2>1, <2>2 DEF Inv2, Rows, RowOf
  <2>4. \A t \in Sessions : born[t] # None => t # s
    BY <1>2
  <2>5. used[s] \in Time => used[s] <= now
    BY NoneAssumption DEF Inv2, Rows
  <2>6. \A t \in Sessions : used[t] \in Time => used'[t] \in Time /\ used'[t] >= used[t]
    BY <2>1, <2>2, <2>5, TimesAssumption DEF Time
  <2>7. Grows
    BY <1>2, <2>2, <2>4, <2>6 DEF Grows
  <2> QED BY <2>3, <2>7
<1> QED BY <1>1, <1>2 DEF CreateSession, Fail, At

LEMMA TouchTables ==
    ASSUME Inv1, Inv2, NEW w \in Workers, Touch(w) PROVE Rows' /\ Grows
<1>1. CASE UNCHANGED <<tables, history>>
  BY <1>1, SameRows, SameGrows DEF Touch, At
<1>2. ASSUME sessions' = [sessions EXCEPT ![job[w].sess] = Touched(w)],
             used' = [used EXCEPT ![job[w].sess] = now],
             UNCHANGED <<users, born, bornUsers, demoted>>, UNCHANGED now
      PROVE  Rows' /\ Grows
  <2> DEFINE s == job[w].sess
  <2>0. s \in Sessions
    BY WorkerFacts DEF Touch, At, LocalOf, Front
  <2>1. now \in Time /\ now \in Nat
    BY TimesAssumption DEF Inv1, TypeOK, Time
  <2>2. /\ sessions'[s] = Touched(w) /\ used'[s] = now
        /\ \A t \in Sessions \ {s} : sessions'[t] = sessions[t] /\ used'[t] = used[t]
    BY <1>2, <2>0 DEF Inv1, TypeOK
  <2>3. sessions[s] = None => sessions'[s] = None
    BY <2>2 DEF Touched, Me
  <2>4. sessions[s] # None => /\ sessions'[s].seen = now
                              /\ sessions'[s].expires = sessions[s].expires
    BY <2>0, <2>2 DEF Touched, Me, Inv1, TypeOK, SessionRow
  <2>5. Rows'
    <3>1. \A t \in Sessions : sessions'[t] # None => RowOf(sessions[t], t)
      BY <2>2, <2>3 DEF Inv2, Rows
    <3>2. \A t \in Sessions : sessions'[t] # None => RowOf(sessions[t], t)'
      BY <1>2, <2>1, <2>2, <2>3, <2>4, <3>1 DEF RowOf
    <3>3. \A t \in Sessions : used'[t] # None => used'[t] <= now'
      BY <1>2, <2>1, <2>2 DEF Inv2, Rows
    <3> QED BY <3>2, <3>3 DEF Rows
  <2>6. used[s] \in Time => used[s] <= now
    BY <2>0, NoneAssumption DEF Inv2, Rows
  <2>7. \A t \in Sessions : used[t] \in Time => used'[t] \in Time /\ used'[t] >= used[t]
    BY <2>1, <2>2, <2>6, TimesAssumption DEF Time
  <2>8. Grows
    BY <1>2, <2>2, <2>3, <2>7 DEF Grows
  <2> QED BY <2>5, <2>8
<1> QED BY <1>1, <1>2 DEF Touch, Fail, At, Me

LEMMA DropTables ==
    ASSUME Inv1, Inv2, NEW w \in Workers, Drop(w) \/ DeleteSession(w)
    PROVE  Rows' /\ Grows
<1>1. \A s \in Sessions : sessions'[s] = sessions[s] \/ sessions'[s] = None
  BY DEF Drop, DeleteSession, Inv1, TypeOK
<1> QED BY <1>1, GoneRows, GoneGrows DEF Drop, DeleteSession, At

LEMMA DeleteRowTables ==
    ASSUME Inv1, Inv2, NEW w \in Workers, DeleteRow(w) PROVE Rows' /\ Grows
<1>1. /\ \A s \in Sessions : sessions'[s] = sessions[s] \/ sessions'[s] = None
      /\ \A u \in Users : users'[u] = users[u] \/ users'[u] = None
  BY DEF DeleteRow, Fail, tables, Inv1, TypeOK
<1> QED BY <1>1, GoneRows, GoneGrows DEF DeleteRow, Fail, At

\* The steps of a request that read only.
Reads(w) == \/ Count(w) \/ ByName(w) \/ ByIdentity(w) \/ JitName(w)
            \/ GetSession(w) \/ Judge(w) \/ GetUser(w) \/ GetTarget(w)

LEMMA ReadsTables ==
    ASSUME Inv1, Inv2, NEW w \in Workers, Reads(w) PROVE Rows' /\ Grows
<1>1. UNCHANGED <<now, tables, history>>
  BY DEF Reads, Count, ByName, ByIdentity, JitName, GetSession, Judge, GetUser,
         GetTarget, At
<1> QED BY <1>1, SameRows, SameGrows

LEMMA AdvanceTables ==
    ASSUME Inv1, Inv2, NEW w \in Workers, Advance(w) PROVE Rows' /\ Grows
BY InsertUserTables, UpdateUserTables, CreateSessionTables, TouchTables,
   DropTables, DeleteRowTables, ReadsTables DEF Advance, Reads

(***************************************************************************)
(* Requests.                                                               *)
(***************************************************************************)
Checked == {"judge", "touch", "getUser"}

\* Worker w has taken a step of a request under way.
Own(w) == /\ pc[w] # "idle" /\ before' = before
          /\ \A v \in Workers \ {w} : /\ pc'[v] = pc[v] /\ job'[v] = job[v]
                                      /\ result'[v] = result[v]

LEMMA OthersSane ==
    ASSUME Inv1, Inv2, Grows, NEW v \in Workers, pc'[v] = pc[v], job'[v] = job[v],
           result'[v] = result[v], before'[v] = before[v]
    PROVE  Sane(v)'
<1>1. Sane(v)
  BY DEF Inv2
<1>2. pc[v] = "judge" => RowOf(job[v].copy, job[v].sess)'
  <2> SUFFICES ASSUME pc[v] = "judge" PROVE RowOf(job[v].copy, job[v].sess)'
    OBVIOUS
  <2>1. job[v].sess \in Sessions /\ job[v].copy \in SessionRow
    BY WorkerFacts DEF LocalOf, Front
  <2>2. RowOf(job[v].copy, job[v].sess)
    BY <1>1 DEF Sane
  <2>3. /\ born'[job[v].sess] = born[job[v].sess]
        /\ used'[job[v].sess] \in Time /\ used'[job[v].sess] >= used[job[v].sess]
    BY <2>1, <2>2, NoneAssumption DEF RowOf, Grows
  <2>4. job[v].copy.seen \in Nat
    BY <2>1, TimesAssumption DEF SessionRow, Time
  <2> QED BY <2>2, <2>3, <2>4, TimesAssumption DEF RowOf, Time
<1> QED BY <1>1, <1>2 DEF Sane, Admitted

LEMMA EndedStayNext ==
    ASSUME Inv1, Inv2, Grows, before' = before PROVE EndedStay'
<1> SUFFICES ASSUME NEW w \in Workers
             PROVE  /\ \A s \in before[w].sessions : born'[s] # None /\ sessions'[s] = None
                    /\ \A u \in before[w].users : u \in bornUsers' /\ users'[u] = None
  BY DEF EndedStay
<1>1. before[w].sessions \subseteq Sessions
  BY DEF Inv1, TypeOK
<1> QED BY <1>1 DEF Inv2, EndedStay, Grows

\* The part of a request that Sane is about.
LEMMA StepSane ==
    ASSUME Inv1, Inv2, NEW w \in Workers, Own(w),
           job'[w].sess = job[w].sess,
           \/ job'[w].caller = job[w].caller
           \/ job'[w].caller \notin before[w].users,
           \/ pc'[w] \in Checked
           \/ job[w].caller = None /\ job'[w].caller # None /\ job'[w].sess # None
           => job[w].sess \notin before[w].sessions,
           pc'[w] = "judge" => RowOf(job[w].copy, job[w].sess)'
    PROVE  Sane(w)'
BY DEF Own, Inv2, Sane, Admitted, Checked

LEMMA OwnInv2 ==
    ASSUME Inv1, Inv2, NEW w \in Workers, Own(w), Rows', Grows, Sane(w)'
    PROVE  Inv2'
<1>1. \A v \in Workers \ {w} : Sane(v)'
  BY OthersSane DEF Own
<1>2. EndedStay'
  BY EndedStayNext DEF Own
<1> QED BY <1>1, <1>2 DEF Inv2

LEMMA FinishSane ==
    ASSUME Inv1, Inv2, NEW w \in Workers, pc[w] # "idle", before' = before,
           NEW r \in Results, Finish(w, r)
    PROVE  Own(w) /\ Sane(w)'
<1>1. TypeReq
  BY Inv1Parts
<1>2. /\ pc'[w] = "idle" /\ job'[w].sess = job[w].sess
      /\ job'[w].caller = job[w].caller
  BY <1>1, FinishMoves, MovesFacts DEF Labels
<1>3. Own(w)
  BY <1>1, FinishMoves, MovesFacts DEF Labels, Own
<1> QED BY <1>2, <1>3, StepSane DEF Checked

LEMMA GotoOwn ==
    ASSUME Inv1, NEW w \in Workers, pc[w] # "idle", before' = before, NEW l,
           Goto(w, l), NEW j, job' = [job EXCEPT ![w] = j]
    PROVE  Own(w) /\ pc'[w] = l /\ job'[w] = j
BY DEF Goto, Own, Inv1, TypeOK

LEMMA StaySane ==
    ASSUME Inv1, Inv2, NEW w \in Workers, pc[w] # "idle", before' = before, NEW l,
           Stay(w, l), l # "judge",
           l \in Checked => job[w].sess \notin before[w].sessions
    PROVE  Own(w) /\ Sane(w)'
<1>1. Own(w) /\ pc'[w] = l /\ job'[w] = job[w]
  BY DEF Stay, Goto, Own, Inv1, TypeOK
<1> QED BY <1>1, StepSane

\* A request learns who its caller is and goes on to l.
LEMMA CallerSane ==
    ASSUME Inv1, Inv2, NEW w \in Workers, before' = before, pc[w] # "idle", NEW l,
           l \notin Checked, Goto(w, l), NEW j, job' = [job EXCEPT ![w] = j],
           j.sess = None, job[w].sess = None, j.caller \notin before[w].users
    PROVE  Own(w) /\ Sane(w)'
BY GotoOwn, StepSane DEF Checked

LEMMA LivingNotEnded ==
    ASSUME Inv1, Inv2, NEW w \in Workers
    PROVE  /\ \A u \in Users : users[u] # None \/ u \notin bornUsers =>
                    u \notin before[w].users
           /\ \A s \in Sessions : sessions[s] # None => s \notin before[w].sessions
BY DEF Inv2, EndedStay

LEMMA CountInv2 == ASSUME Inv1, Inv2, NEW w \in Workers, Count(w) PROVE Inv2'
<1>1. Own(w) /\ Sane(w)'
  BY FinishSane, StaySane DEF Count, At, begun, Results, Checked
<1> QED BY <1>1, ReadsTables, OwnInv2 DEF Reads

LEMMA ByNameInv2 == ASSUME Inv1, Inv2, NEW w \in Workers, ByName(w) PROVE Inv2'
<1>1. pc[w] = "byName" /\ job[w].sess = None /\ before' = before
  BY WorkerFacts DEF ByName, At, LocalOf, begun
<1>2. ASSUME NEW u \in Users, users[u] # None, Goto(w, "createSession"),
             job' = [job EXCEPT ![w].caller = u]
      PROVE  Own(w) /\ Sane(w)'
  <2> DEFINE j == [job[w] EXCEPT !.caller = u]
  <2>1. j.sess = None /\ j.caller = u
    BY <1>1, WorkerFacts DEF Job
  <2>2. job' = [job EXCEPT ![w] = j]
    BY <1>2
  <2> HIDE DEF j
  <2> QED BY <1>1, <1>2, <2>1, <2>2, CallerSane, LivingNotEnded DEF Checked
<1>3. Own(w) /\ Sane(w)'
  BY <1>1, <1>2, FinishSane DEF ByName, Results
<1> QED BY <1>3, ReadsTables, OwnInv2 DEF Reads

LEMMA ByIdentityInv2 == ASSUME Inv1, Inv2, NEW w \in Workers, ByIdentity(w) PROVE Inv2'
<1>1. pc[w] = "byIdentity" /\ job[w].sess = None /\ before' = before
  BY WorkerFacts DEF ByIdentity, At, LocalOf, SignIn, begun
<1>2. ASSUME NEW u \in Users, users[u] # None, NEW l \in {"updateUser", "createSession"},
             Goto(w, l), NEW row,
             job' = [job EXCEPT ![w] = [@ EXCEPT !.caller = u, !.target = u,
                                        !.row = row]]
      PROVE  Own(w) /\ Sane(w)'
  <2> DEFINE j == [job[w] EXCEPT !.caller = u, !.target = u, !.row = row]
  <2>1. j.sess = None /\ j.caller = u
    BY <1>1, WorkerFacts DEF Job
  <2>2. job' = [job EXCEPT ![w] = j]
    BY <1>2
  <2> HIDE DEF j
  <2> QED BY <1>1, <1>2, <2>1, <2>2, CallerSane, LivingNotEnded DEF Checked
<1>3. ASSUME Stay(w, "jitName") \/ Finish(w, "err")
      PROVE  Own(w) /\ Sane(w)'
  BY <1>1, <1>3, FinishSane, StaySane DEF Results, Checked
<1>4. Own(w) /\ Sane(w)'
  BY <1>2, <1>3 DEF ByIdentity
<1> QED BY <1>4, ReadsTables, OwnInv2 DEF Reads

LEMMA JitNameInv2 == ASSUME Inv1, Inv2, NEW w \in Workers, JitName(w) PROVE Inv2'
<1>1. pc[w] = "jitName" /\ job[w].sess = None /\ before' = before
  BY WorkerFacts DEF JitName, At, LocalOf, SignIn, begun
<1>2. PICK j : /\ job' = [job EXCEPT ![w] = j]
               /\ j.sess = job[w].sess /\ j.caller = job[w].caller
  <2>1. CASE UNCHANGED job
    BY <2>1 DEF Inv1, TypeOK
  <2>2. CASE job' = [job EXCEPT ![w].row.name = <<@[1], TRUE>>]
    <3> DEFINE j == [job[w] EXCEPT !.row.name = <<@[1], TRUE>>]
    <3>1. job' = [job EXCEPT ![w] = j]
      BY <2>2
    <3>2. j.sess = job[w].sess /\ j.caller = job[w].caller
      BY WorkerFacts DEF Job
    <3> QED BY <3>1, <3>2
  <2> QED BY <2>1, <2>2 DEF JitName
<1>3. Own(w) /\ pc'[w] = "insertUser" /\ job'[w] = j
  BY <1>1, <1>2, GotoOwn DEF JitName
<1>4. Sane(w)'
  BY <1>1, <1>2, <1>3, StepSane DEF Checked
<1> QED BY <1>3, <1>4, ReadsTables, OwnInv2 DEF Reads

LEMMA InsertUserInv2 == ASSUME Inv1, Inv2, NEW w \in Workers, InsertUser(w) PROVE Inv2'
<1>1. pc[w] = "insertUser" /\ before' = before
  BY DEF InsertUser, At, begun
<1>2. ASSUME NEW u \in Users \ bornUsers, Goto(w, "createSession"),
             job[w].op # "createUser", job' = [job EXCEPT ![w].caller = u]
      PROVE  Own(w) /\ Sane(w)'
  <2> DEFINE j == [job[w] EXCEPT !.caller = u]
  <2>1. job[w].sess = None
    BY <1>1, <1>2, WorkerFacts DEF LocalOf, SignIn
  <2>2. j.sess = None /\ j.caller = u
    BY <2>1, WorkerFacts DEF Job
  <2>3. job' = [job EXCEPT ![w] = j]
    BY <1>2
  <2> HIDE DEF j
  <2> QED BY <1>1, <1>2, <2>1, <2>2, <2>3, CallerSane, LivingNotEnded DEF Checked
<1>3. ASSUME Finish(w, "ok") \/ Finish(w, "err")
      PROVE  Own(w) /\ Sane(w)'
  BY <1>1, <1>3, FinishSane DEF Results
<1>4. Own(w) /\ Sane(w)'
  BY <1>2, <1>3 DEF InsertUser, Fail, Me
<1> QED BY <1>4, InsertUserTables, OwnInv2

LEMMA UpdateUserInv2 == ASSUME Inv1, Inv2, NEW w \in Workers, UpdateUser(w) PROVE Inv2'
<1>1. pc[w] = "updateUser" /\ before' = before
  BY DEF UpdateUser, At, begun
<1>2. Stay(w, "createSession") \/ Finish(w, "ok") \/ Finish(w, "err")
  BY DEF UpdateUser, Fail
<1>3. Own(w) /\ Sane(w)'
  BY <1>1, <1>2, FinishSane, StaySane DEF Results, Checked
<1> QED BY <1>3, UpdateUserTables, OwnInv2

LEMMA CreateSessionInv2 ==
    ASSUME Inv1, Inv2, NEW w \in Workers, CreateSession(w) PROVE Inv2'
<1>1. pc[w] = "createSession" /\ before' = before
  BY DEF CreateSession, At, begun
<1>2. Finish(w, "ok") \/ Finish(w, "err")
  BY DEF CreateSession, Fail
<1>3. Own(w) /\ Sane(w)'
  BY <1>1, <1>2, FinishSane DEF Results
<1> QED BY <1>3, CreateSessionTables, OwnInv2

LEMMA GetSessionInv2 == ASSUME Inv1, Inv2, NEW w \in Workers, GetSession(w) PROVE Inv2'
<1>1. /\ pc[w] = "getSession" /\ job[w].sess \in Sessions /\ before' = before
      /\ UNCHANGED <<now, tables, history>> /\ job[w].caller = None
  BY WorkerFacts DEF GetSession, At, LocalOf, Front, begun
<1>2. ASSUME sessions[job[w].sess] # None, Goto(w, "judge"),
             job' = [job EXCEPT ![w].copy = sessions[job[w].sess]]
      PROVE  Own(w) /\ Sane(w)'
  <2> DEFINE j == [job[w] EXCEPT !.copy = sessions[job[w].sess]]
  <2>1. /\ j.sess = job[w].sess /\ j.caller = job[w].caller
        /\ j.copy = sessions[job[w].sess]
    BY WorkerFacts DEF Job
  <2>2. job' = [job EXCEPT ![w] = j]
    BY <1>2
  <2> HIDE DEF j
  <2>3. Own(w) /\ pc'[w] = "judge" /\ job'[w] = j
    BY <1>1, <1>2, <2>2, GotoOwn
  <2>4. RowOf(sessions[job[w].sess], job[w].sess)
    BY <1>1, <1>2 DEF Inv2, Rows
  <2>5. RowOf(job[w].copy, job[w].sess)'
    BY <1>1, <2>1, <2>3, <2>4 DEF RowOf, history
  <2> QED BY <1>1, <1>2, <2>1, <2>3, <2>5, StepSane, LivingNotEnded
<1>3. Own(w) /\ Sane(w)'
  BY <1>1, <1>2, FinishSane DEF GetSession, Me, Results
<1> QED BY <1>3, ReadsTables, OwnInv2 DEF Reads

LEMMA JudgeInv2 == ASSUME Inv1, Inv2, NEW w \in Workers, Judge(w) PROVE Inv2'
<1>1. job[w].sess \notin before[w].sessions
  BY DEF Judge, At, Inv2, Sane
<1>2. Own(w) /\ Sane(w)'
  BY <1>1, StaySane DEF Judge, At, begun
<1> QED BY <1>2, ReadsTables, OwnInv2 DEF Reads

LEMMA DropInv2 ==
    ASSUME Inv1, Inv2, NEW w \in Workers, Drop(w) \/ DeleteSession(w) PROVE Inv2'
<1>1. Own(w) /\ Sane(w)'
  BY FinishSane DEF Drop, DeleteSession, At, begun, Results
<1> QED BY <1>1, DropTables, OwnInv2

LEMMA TouchInv2 == ASSUME Inv1, Inv2, NEW w \in Workers, Touch(w) PROVE Inv2'
<1>1. job[w].sess \notin before[w].sessions
  BY DEF Touch, At, Inv2, Sane
<1>2. Own(w) /\ Sane(w)'
  BY <1>1, StaySane, FinishSane DEF Touch, Fail, At, begun, Results
<1> QED BY <1>2, TouchTables, OwnInv2

LEMMA GetUserInv2 == ASSUME Inv1, Inv2, NEW w \in Workers, GetUser(w) PROVE Inv2'
<1> DEFINE u == job[w].copy.user
           j == [job[w] EXCEPT !.caller = u, !.copy = None]
<1>1. /\ pc[w] = "getUser" /\ before' = before /\ u \in Users
      /\ job[w].sess \notin before[w].sessions
  BY WorkerFacts DEF GetUser, At, LocalOf, begun, Inv2, Sane, SessionRow
<1>2. ASSUME users[u] # None, job' = [job EXCEPT ![w] = j],
             NEW l \in {"insertUser", "deleteRow", "getTarget", "idle"},
             pc' = [pc EXCEPT ![w] = l], NEW r, result' = [result EXCEPT ![w] = r]
      PROVE  Own(w) /\ Sane(w)'
  <2>1. j.sess = job[w].sess /\ j.caller = u
    BY WorkerFacts DEF Job
  <2>2. Own(w) /\ pc'[w] = l /\ job'[w] = j
    BY <1>1, <1>2 DEF Own, Inv1, TypeOK
  <2> HIDE DEF j
  <2> QED BY <1>1, <1>2, <2>1, <2>2, StepSane, LivingNotEnded DEF Checked
<1>3. ASSUME Stay(w, "drop") \/ Finish(w, "err")
      PROVE  Own(w) /\ Sane(w)'
  BY <1>1, <1>3, FinishSane, StaySane DEF Results, Checked
<1> DEFINE entry == CASE job[w].op = "createUser"     -> "insertUser"
                      [] job[w].op = "deleteUser"     -> "deleteRow"
                      [] job[w].op = "changePassword" -> "getTarget"
                      [] OTHER                        -> "idle"
<1>4. \/ Stay(w, "drop") \/ Finish(w, "err")
      \/ /\ users[u] # None
         /\ job' = [job EXCEPT ![w] = j] /\ pc' = [pc EXCEPT ![w] = entry]
         /\ result' = [result EXCEPT ![w] = IF entry = "idle" THEN "ok" ELSE @]
  BY DEF GetUser, Me
<1>5. entry \in {"insertUser", "deleteRow", "getTarget", "idle"}
  OBVIOUS
<1>6. result' = [result EXCEPT ![w] = IF entry = "idle" THEN "ok" ELSE @]
      => \E r : result' = [result EXCEPT ![w] = r]
  OBVIOUS
<1> HIDE DEF entry, j
<1>7. Own(w) /\ Sane(w)'
  BY <1>2, <1>3, <1>4, <1>5, <1>6
<1> QED BY <1>7, ReadsTables, OwnInv2 DEF Reads

LEMMA DeleteRowInv2 == ASSUME Inv1, Inv2, NEW w \in Workers, DeleteRow(w) PROVE Inv2'
<1>1. Own(w) /\ Sane(w)'
  BY FinishSane DEF DeleteRow, Fail, At, begun, Results
<1> QED BY <1>1, DeleteRowTables, OwnInv2

LEMMA GetTargetInv2 == ASSUME Inv1, Inv2, NEW w \in Workers, GetTarget(w) PROVE Inv2'
<1>1. pc[w] = "getTarget" /\ before' = before
  BY DEF GetTarget, At, begun
<1>2. ASSUME NEW row, Goto(w, "updateUser"), job' = [job EXCEPT ![w].row = row]
      PROVE  Own(w) /\ Sane(w)'
  <2> DEFINE j == [job[w] EXCEPT !.row = row]
  <2>1. j.sess = job[w].sess /\ j.caller = job[w].caller
    BY WorkerFacts DEF Job
  <2>2. job' = [job EXCEPT ![w] = j]
    BY <1>2
  <2> HIDE DEF j
  <2>3. Own(w) /\ pc'[w] = "updateUser" /\ job'[w] = j
    BY <1>1, <1>2, <2>2, GotoOwn
  <2> QED BY <2>1, <2>3, StepSane DEF Checked
<1>3. Own(w) /\ Sane(w)'
  BY <1>1, <1>2, FinishSane DEF GetTarget, Results
<1> QED BY <1>3, ReadsTables, OwnInv2 DEF Reads

LEMMA BeginInv2 ==
    ASSUME Inv1, Inv2, NEW w \in Workers, NEW j, j.caller = None, NEW l,
           l \notin Checked, Begin(w, j, l)
    PROVE  Inv2'
<1>1. UNCHANGED <<now, tables, history>>
  BY DEF Begin
<1>2. Rows' /\ Grows
  BY <1>1, SameRows, SameGrows
<1>3. /\ pc'[w] = l /\ job'[w] = j
      /\ before'[w] = [users |-> EndedUsers, sessions |-> EndedSessions]
      /\ \A v \in Workers \ {w} : /\ pc'[v] = pc[v] /\ job'[v] = job[v]
                                  /\ result'[v] = result[v] /\ before'[v] = before[v]
  BY DEF Begin, Inv1, TypeOK
<1>4. \A v \in Workers \ {w} : Sane(v)'
  BY <1>2, <1>3, OthersSane
<1>5. Sane(w)'
  BY <1>3 DEF Sane, Admitted, Checked
<1>6. EndedStay'
  <2>1. /\ \A s \in EndedSessions : born[s] # None /\ sessions[s] = None
        /\ \A u \in EndedUsers : u \in bornUsers /\ users[u] = None
    BY DEF EndedSessions, EndedUsers
  <2>2. users' = users /\ sessions' = sessions /\ born' = born /\ bornUsers' = bornUsers
    BY <1>1 DEF tables, history
  <2> QED BY <1>3, <2>1, <2>2 DEF EndedStay, Inv2
<1> QED BY <1>2, <1>4, <1>5, <1>6 DEF Inv2

LEMMA ArriveInv2 == ASSUME Inv1, Inv2, NEW w \in Workers, Arrive(w) PROVE Inv2'
<1>1. \E j, l : j.caller = None /\ l \notin Checked /\ Begin(w, j, l)
  <2>1. CASE BeginSignIn(w)
    BY <2>1 DEF BeginSignIn, NoJob, Checked
  <2>2. CASE BeginLogout(w)
    BY <2>2 DEF BeginLogout, NoJob, Checked
  <2>3. CASE BeginProtected(w)
    BY <2>3 DEF BeginProtected, NoJob, Checked
  <2> QED BY <2>1, <2>2, <2>3 DEF Arrive
<1> QED BY <1>1, BeginInv2

LEMMA AdvanceInv2 == ASSUME Inv1, Inv2, NEW w \in Workers, Advance(w) PROVE Inv2'
BY CountInv2, ByNameInv2, ByIdentityInv2, JitNameInv2, InsertUserInv2,
   UpdateUserInv2, CreateSessionInv2, GetSessionInv2, JudgeInv2, DropInv2,
   TouchInv2, GetUserInv2, DeleteRowInv2, GetTargetInv2 DEF Advance

LEMMA TickInv2 == ASSUME Inv1, Inv2, Tick PROVE Inv2'
<1>1. Grows
  BY SameGrows DEF Tick
<1>2. Rows'
  <2>1. \A s \in Sessions : used[s] # None => used[s] \in Nat
    BY TimesAssumption DEF Inv1, TypeOK, Time
  <2>2. now \in Nat /\ now' = now + 1
    BY TimesAssumption DEF Tick, Inv1, TypeOK, Time
  <2> QED BY <2>1, <2>2 DEF Tick, tables, history, Inv2, Rows, RowOf
<1>3. \A v \in Workers : Sane(v)'
  BY <1>1, OthersSane DEF Tick, begun
<1>4. EndedStay'
  BY <1>1, EndedStayNext DEF Tick, begun
<1> QED BY <1>2, <1>3, <1>4 DEF Inv2

LEMMA CleanInv2 == ASSUME Inv1, Inv2, Clean PROVE Inv2'
<1>1. \A s \in Sessions : sessions'[s] = sessions[s] \/ sessions'[s] = None
  BY DEF Clean, Inv1, TypeOK
<1>2. Grows /\ Rows'
  BY <1>1, GoneGrows, GoneRows DEF Clean
<1>3. \A v \in Workers : Sane(v)'
  BY <1>2, OthersSane DEF Clean, begun
<1>4. EndedStay'
  BY <1>2, EndedStayNext DEF Clean, begun
<1> QED BY <1>2, <1>3, <1>4 DEF Inv2

LEMMA CrashInv2 == ASSUME Inv1, Inv2, Crash PROVE Inv2'
<1>1. Grows /\ Rows'
  BY SameGrows, SameRows DEF Crash
<1>2. \A v \in Workers : Sane(v)'
  BY NoJobFacts DEF Crash, Sane, Admitted
<1>3. EndedStay'
  BY <1>1, EndedStayNext DEF Crash, begun
<1> QED BY <1>1, <1>2, <1>3 DEF Inv2

LEMMA StutterInv2 == ASSUME Inv1, Inv2, UNCHANGED vars PROVE Inv2'
<1>1. Grows /\ Rows'
  BY SameGrows, SameRows DEF vars
<1>2. \A v \in Workers : Sane(v)'
  BY <1>1, OthersSane DEF vars, begun
<1>3. EndedStay'
  BY <1>1, EndedStayNext DEF vars, begun
<1> QED BY <1>1, <1>2, <1>3 DEF Inv2

LEMMA InitInv2 == ASSUME Init PROVE Inv2
<1>1. Rows
  BY DEF Init, Rows
<1>2. EndedStay
  BY DEF Init, EndedStay
<1>3. \A w \in Workers : Sane(w)
  BY NoJobFacts DEF Init, Sane, Admitted
<1> QED BY <1>1, <1>2, <1>3 DEF Inv2

LEMMA NextInv2 == ASSUME Inv1, Inv2, [Next]_vars PROVE Inv2'
BY ArriveInv2, AdvanceInv2, TickInv2, CleanInv2, CrashInv2, StutterInv2 DEF Next

LEMMA Inv2Correct == Spec => [](Inv1 /\ Inv2)
<1>1. Init => Inv1 /\ Inv2
  BY InitInv1, InitInv2
<1>2. Inv1 /\ Inv2 /\ [Next]_vars => (Inv1 /\ Inv2)'
  BY NextInv1, NextInv2
<1> QED BY <1>1, <1>2, PTL DEF Spec

(***************************************************************************)
(* A request that began after a user was deleted is never served in his    *)
(* name and never signs him in, whether or not the cascade removed his     *)
(* sessions: ValidateSession looks the user up at every request.           *)
(***************************************************************************)
THEOREM DeletedUsersRefusedCorrect == Spec => []DeletedUsersRefused
<1>1. Inv2 => DeletedUsersRefused
  BY DEF Inv2, Sane, DeletedUsersRefused, Admitted
<1> QED BY <1>1, Inv2Correct, PTL

(***************************************************************************)
(* A session that has ended stays ended: no touch of a request under way   *)
(* brings its row back for a later request.                                *)
(***************************************************************************)
THEOREM EndedSessionsRefusedCorrect == Spec => []EndedSessionsRefused
<1>1. Inv2 => EndedSessionsRefused
  BY DEF Inv2, Sane, EndedSessionsRefused
<1> QED BY <1>1, Inv2Correct, PTL

\* A step of w moves w only.
LEMMA AdvanceAt ==
    ASSUME NEW w \in Workers, Advance(w)
    PROVE  /\ \E l : pc' = [pc EXCEPT ![w] = l]
           /\ pc[w] # "idle" /\ overlap' = overlap
<1>1. \E l : pc' = [pc EXCEPT ![w] = l]
  BY DEF Advance, Count, ByName, ByIdentity, JitName, InsertUser, UpdateUser,
         CreateSession, GetSession, Judge, Drop, Touch, GetUser, DeleteRow,
         GetTarget, DeleteSession, Fail, Finish, Stay, Goto
<1>2. \E l \in Labels \ {"idle"} : At(w, l)
  BY DEF Advance, Count, ByName, ByIdentity, JitName, InsertUser, UpdateUser,
         CreateSession, GetSession, Judge, Drop, Touch, GetUser, DeleteRow,
         GetTarget, DeleteSession, Labels
<1> QED BY <1>1, <1>2 DEF At, begun

\* Only Judge lets a request through.
LEMMA JudgeOnly ==
    ASSUME Inv1, [Next]_vars, NEW w \in Workers, pc[w] = "judge", pc'[w] = "touch"
    PROVE  Judge(w)
<1>1. CASE UNCHANGED vars \/ Tick \/ Clean \/ Crash
  BY <1>1 DEF vars, Tick, Clean, Crash
<1>2. ASSUME NEW v \in Workers, Arrive(v) PROVE Judge(w)
  <2>1. pc[v] = "idle" /\ \E l : pc' = [pc EXCEPT ![v] = l]
    BY <1>2 DEF Arrive, BeginSignIn, BeginLogout, BeginProtected, Begin
  <2> QED BY <2>1 DEF Inv1, TypeOK
<1>3. ASSUME NEW v \in Workers, Advance(v) PROVE Judge(w)
  <2>2. v = w
    BY <1>3, AdvanceAt DEF Inv1, TypeOK
  <2> QED BY <1>3, <2>2 DEF Advance, Count, ByName, ByIdentity, JitName,
        InsertUser, UpdateUser, CreateSession, GetSession, Drop, Touch, GetUser,
        DeleteRow, GetTarget, DeleteSession, At
<1> QED BY <1>1, <1>2, <1>3 DEF Next

(***************************************************************************)
(* ValidateSession accepts a session only within SessionTimeout of its     *)
(* last use and MaxSessionAge of its sign-in, though it judges a row it    *)
(* read earlier.                                                           *)
(***************************************************************************)
THEOREM JudgedInTimeCorrect == Spec => JudgedInTime
<1> DEFINE InTime(w) == (pc[w] = "judge" /\ pc'[w] = "touch") =>
                LET s == job[w].sess IN /\ now <= used[s] + SessionTimeout
                                        /\ now <= born[s] + MaxSessionAge
<1>1. ASSUME Inv1, Inv2, [Next]_vars, NEW w \in Workers,
             pc[w] = "judge", pc'[w] = "touch"
      PROVE  InTime(w)
  <2> DEFINE s == job[w].sess  c == job[w].copy
  <2>1. Judge(w)
    BY <1>1, JudgeOnly
  <2>2. ~Stale(c)
    BY <1>1, <2>1 DEF Judge, Stay, Goto, Me, Inv1, TypeOK
  <2>3. RowOf(c, s)
    BY <1>1 DEF Inv2, Sane
  <2>4. c.seen \in Nat /\ c.expires \in Nat /\ now \in Nat
    BY <1>1, WorkerFacts, TimesAssumption
       DEF LocalOf, SessionRow, Time, Inv1, TypeOK
  <2> QED BY <2>2, <2>3, <2>4, TimesAssumption DEF Stale, RowOf, Time
<1>2. Inv1 /\ Inv2 /\ [Next]_vars => [\A w \in Workers : InTime(w)]_vars
  BY <1>1
<1> QED BY <1>2, Inv2Correct, PTL DEF Spec, JudgedInTime

-----------------------------------------------------------------------------
(***************************************************************************)
(* The requests and the users: what each relies on while others run.       *)
(***************************************************************************)
Known == \A u \in Users : users[u] # None => u \in bornUsers

\* No two requests for an operation met, unless overlap says so.
Alone == \A op \in Solo \ overlap : \A v, w \in Workers :
            (/\ pc[v] # "idle" /\ job[v].op = op
             /\ pc[w] # "idle" /\ job[w].op = op) => v = w

AdminExists == \E u \in Users : users[u] # None /\ users[u].role = "admin"

UniqueInitial == \A u, v \in Users :
    (/\ users[u] # None /\ users[v] # None
     /\ users[u].initial /\ users[v].initial) => u = v

Governed == ("deleteUser" \notin overlap /\ ~demoted /\ bornUsers # {}) => AdminExists

\* What a request may rely on, whatever the other ones do meanwhile.
Rely(w) ==
    /\ (pc[w] \in {"count", "insertUser"} /\ job[w].op = "setup") =>
            job[w].row.role = "admin"
    /\ (pc[w] = "insertUser" /\ job[w].op = "setup" /\ "setup" \notin overlap) =>
            \A u \in Users : users[u] # None => ~users[u].initial
    /\ (pc[w] \in {"byIdentity", "jitName", "insertUser"} /\ job[w].op = "oidc") =>
            ~job[w].row.initial /\ bornUsers # {}
    /\ pc[w] = "byIdentity" => job[w].row.oidc # None
    /\ (pc[w] # "idle" /\ job[w].op = "createUser") => ~job[w].row.initial
    /\ (pc[w] = "insertUser" /\ job[w].op = "createUser") => bornUsers # {}
    /\ (pc[w] # "idle" /\ job[w].op = "changePassword") => job[w].target \in bornUsers
    /\ pc[w] = "updateUser" =>
            LET new == job[w].row  old == users[job[w].target] IN
            /\ job[w].target \in bornUsers
            /\ (job[w].op = "oidc") = (new.oidc # None)
            /\ old # None => /\ new.initial = old.initial /\ new.oidc = old.oidc
                             /\ new.oidc = None => new.role = old.role
    /\ (/\ pc[w] = "deleteRow"
        /\ "deleteUser" \notin overlap /\ ~demoted) =>
            LET row == users[job[w].caller] IN row # None /\ row.role = "admin"
    /\ pc[w] = "deleteRow" => job[w].target # job[w].caller

\* What the step of a request leaves to the other ones.
Leaves(w) ==
    /\ bornUsers \subseteq bornUsers' /\ (demoted => demoted')
    /\ \A u \in bornUsers : users'[u] # None =>
            /\ users[u] # None
            /\ users'[u].initial = users[u].initial /\ users'[u].oidc = users[u].oidc
            /\ users[u].oidc = None => users'[u].role = users[u].role
    /\ \A u \in Users \ bornUsers : users'[u] # None =>
            u \in bornUsers' /\ (users'[u].initial => job[w].op = "setup")
    /\ \A u \in bornUsers :
            (/\ users[u] # None /\ users[u].role = "admin"
             /\ ~demoted' /\ job[w].op # "deleteUser") =>
                users'[u] # None /\ users'[u].role = "admin"

Inv3 == /\ Known /\ Alone /\ ("setup" \notin overlap => UniqueInitial) /\ Governed
        /\ \A w \in Workers : Rely(w)

\* A step of w keeps the operation, and everything of the other requests.
LEMMA AdvanceJob ==
    ASSUME Inv1, NEW w \in Workers, Advance(w)
    PROVE  /\ job'[w].op = job[w].op /\ pc[w] # "idle" /\ overlap' = overlap
           /\ \A v \in Workers \ {w} : pc'[v] = pc[v] /\ job'[v] = job[v]
<1> DEFINE Kept == /\ job'[w].op = job[w].op
                   /\ \A v \in Workers \ {w} : job'[v] = job[v]
<1>1. job \in [Workers -> Job] /\ job[w] \in Job
  BY DEF Inv1, TypeOK
<1>2. ASSUME NEW j, job' = [job EXCEPT ![w] = j], j.op = job[w].op PROVE Kept
  BY <1>1, <1>2
<1>3. ASSUME NEW r, Finish(w, r) PROVE Kept
  <2>1. Done(w).op = job[w].op
    BY <1>1 DEF Done, Job
  <2> QED BY <1>3, <1>2, <2>1 DEF Finish, Done
<1>4. ASSUME UNCHANGED job PROVE Kept
  BY <1>4
<1>5. ASSUME NEW u, job' = [job EXCEPT ![w].caller = u] PROVE Kept
  <2>1. [job[w] EXCEPT !.caller = u].op = job[w].op
    BY <1>1 DEF Job
  <2> QED BY <1>2, <1>5, <2>1
<1> HIDE DEF Kept
<1>6. ASSUME Count(w) PROVE Kept
  BY <1>3, <1>4, <1>6 DEF Count, Stay
<1>7. ASSUME ByName(w) PROVE Kept
  BY <1>3, <1>5, <1>7 DEF ByName
<1>8. ASSUME ByIdentity(w) PROVE Kept
  <2>1. ASSUME NEW u, NEW row,
               job' = [job EXCEPT ![w] = [@ EXCEPT !.caller = u, !.target = u,
                                                   !.row = row]]
        PROVE  Kept
    <3>1. [job[w] EXCEPT !.caller = u, !.target = u, !.row = row].op = job[w].op
      BY <1>1 DEF Job
    <3> QED BY <1>2, <2>1, <3>1
  <2> QED BY <1>3, <1>4, <1>8, <2>1 DEF ByIdentity, Stay
<1>9. ASSUME JitName(w) PROVE Kept
  <2>1. ASSUME job' = [job EXCEPT ![w].row.name = <<@[1], TRUE>>] PROVE Kept
    <3>1. [job[w] EXCEPT !.row.name = <<@[1], TRUE>>].op = job[w].op
      BY <1>1 DEF Job
    <3> QED BY <1>2, <2>1, <3>1
  <2> QED BY <1>4, <1>9, <2>1 DEF JitName
<1>10. ASSUME InsertUser(w) PROVE Kept
  BY <1>3, <1>5, <1>10 DEF InsertUser, Fail
<1>11. ASSUME UpdateUser(w) PROVE Kept
  BY <1>3, <1>4, <1>11 DEF UpdateUser, Fail, Stay
<1>12. ASSUME CreateSession(w) \/ Drop(w) \/ DeleteRow(w) \/ DeleteSession(w) PROVE Kept
  BY <1>3, <1>12 DEF CreateSession, Drop, DeleteRow, DeleteSession, Fail
<1>13. ASSUME GetSession(w) PROVE Kept
  <2>1. ASSUME NEW row, job' = [job EXCEPT ![w].copy = row] PROVE Kept
    <3>1. [job[w] EXCEPT !.copy = row].op = job[w].op
      BY <1>1 DEF Job
    <3> QED BY <1>2, <2>1, <3>1
  <2> QED BY <1>3, <1>13, <2>1 DEF GetSession
<1>14. ASSUME Judge(w) \/ Touch(w) PROVE Kept
  BY <1>3, <1>4, <1>14 DEF Judge, Touch, Fail, Stay
<1>15. ASSUME GetUser(w) PROVE Kept
  <2>1. ASSUME NEW u, job' = [job EXCEPT ![w] = [@ EXCEPT !.caller = u, !.copy = None]]
        PROVE  Kept
    <3>1. [job[w] EXCEPT !.caller = u, !.copy = None].op = job[w].op
      BY <1>1 DEF Job
    <3> QED BY <1>2, <2>1, <3>1
  <2> QED BY <1>3, <1>4, <1>15, <2>1 DEF GetUser, Stay
<1>16. ASSUME GetTarget(w) PROVE Kept
  <2>1. ASSUME NEW row, job' = [job EXCEPT ![w].row = row] PROVE Kept
    <3>1. [job[w] EXCEPT !.row = row].op = job[w].op
      BY <1>1 DEF Job
    <3> QED BY <1>2, <2>1, <3>1
  <2> QED BY <1>3, <1>16, <2>1 DEF GetTarget
<1>17. Kept
  BY <1>6, <1>7, <1>8, <1>9, <1>10, <1>11, <1>12, <1>13, <1>14, <1>15, <1>16 DEF Advance
<1> QED BY <1>17, AdvanceAt DEF Kept, Inv1, TypeOK

\* What a step leaves is enough for the others.
LEMMA OthersRely ==
    ASSUME Inv1, Inv3, NEW w \in Workers, Advance(w), Leaves(w),
           NEW v \in Workers \ {w}
    PROVE  Rely(v)'
<1>1. /\ pc'[v] = pc[v] /\ job'[v] = job[v] /\ overlap' = overlap /\ pc[w] # "idle"
  BY AdvanceJob
<1>2. Rely(v) /\ bornUsers \subseteq Users
  BY DEF Inv3, Inv1, TypeOK
<1>3. (pc[v] = "insertUser" /\ job[v].op = "setup" /\ "setup" \notin overlap) =>
            \A u \in Users : users'[u] # None => ~users'[u].initial
  <2> SUFFICES ASSUME pc[v] = "insertUser", job[v].op = "setup", "setup" \notin overlap,
                      NEW u \in Users, users'[u] # None
               PROVE  ~users'[u].initial
    OBVIOUS
  <2>1. job[w].op # "setup"
    BY <1>1 DEF Inv3, Alone, Solo
  <2>2. CASE u \in bornUsers
    BY <1>2, <2>2 DEF Leaves, Rely
  <2>3. CASE u \notin bornUsers
    <3>1. users'[u].initial => job[w].op = "setup"
      BY <2>3 DEF Leaves
    <3> QED BY <2>1, <3>1
  <2> QED BY <2>2, <2>3
<1>4. pc[v] = "updateUser" =>
            LET new == job[v].row  old == users'[job[v].target] IN
            old # None => /\ new.initial = old.initial /\ new.oidc = old.oidc
                          /\ new.oidc = None => new.role = old.role
  BY <1>2 DEF Rely, Leaves
<1>5. (pc[v] = "deleteRow" /\ "deleteUser" \notin overlap /\ ~demoted') =>
            LET row == users'[job[v].caller] IN row # None /\ row.role = "admin"
  <2> SUFFICES ASSUME pc[v] = "deleteRow", "deleteUser" \notin overlap, ~demoted'
               PROVE  LET row == users'[job[v].caller] IN row # None /\ row.role = "admin"
    OBVIOUS
  <2>1. job[v].op = "deleteUser" /\ job[v].caller \in Users
    BY WorkerFacts DEF LocalOf
  <2>2. job[w].op # "deleteUser"
    BY <1>1, <2>1 DEF Inv3, Alone, Solo
  <2>3. users[job[v].caller] # None /\ users[job[v].caller].role = "admin"
    BY <1>2 DEF Rely, Leaves
  <2>4. job[v].caller \in bornUsers
    BY <2>1, <2>3 DEF Inv3, Known
  <2> QED BY <2>2, <2>3, <2>4 DEF Leaves
<1>6. bornUsers \subseteq bornUsers'
  BY DEF Leaves
<1> QED BY <1>1, <1>2, <1>3, <1>4, <1>5, <1>6 DEF Rely

\* It remains to show what the step's own action is about.
LEMMA AdvanceInv3 ==
    ASSUME Inv1, Inv3, NEW w \in Workers, Advance(w), Leaves(w),
           "setup" \notin overlap => UniqueInitial', Governed', Rely(w)'
    PROVE  Inv3'
<1>1. /\ job'[w].op = job[w].op /\ pc[w] # "idle" /\ overlap' = overlap
      /\ \A v \in Workers \ {w} : pc'[v] = pc[v] /\ job'[v] = job[v]
  BY AdvanceJob
<1>2. Alone'
  BY <1>1 DEF Inv3, Alone
<1>3. Known'
  BY DEF Inv3, Known, Leaves
<1> QED BY <1>1, <1>2, <1>3, OthersRely DEF Inv3

LEMMA IdleRely == ASSUME NEW w \in Workers, pc'[w] = "idle" PROVE Rely(w)'
BY DEF Rely

LEMMA FinishRely ==
    ASSUME Inv1, NEW w \in Workers, NEW r, Finish(w, r) PROVE Rely(w)'
BY IdleRely DEF Finish, Inv1, TypeOK

\* The steps that leave the users alone.
LEMMA QuietInv3 ==
    ASSUME Inv1, Inv3, NEW w \in Workers, Advance(w),
           UNCHANGED <<users, bornUsers, demoted>>, Rely(w)'
    PROVE  Inv3'
<1>1. overlap' = overlap
  BY AdvanceJob
<1>2. ("setup" \notin overlap => UniqueInitial') /\ Governed'
  BY <1>1 DEF Inv3, UniqueInitial, Governed, AdminExists
<1>3. Leaves(w)
  BY DEF Leaves, Inv3, Known
<1> QED BY <1>2, <1>3, AdvanceInv3

\* The rows of InsertUser.
LEMMA InsertUserInv3 == ASSUME Inv1, Inv3, NEW w \in Workers, InsertUser(w) PROVE Inv3'
<1>0. pc[w] = "insertUser" /\ Advance(w)
  BY DEF InsertUser, At, Advance
<1>1. CASE UNCHANGED <<tables, history>> /\ Finish(w, "err")
  BY <1>0, <1>1, FinishRely, QuietInv3 DEF tables, history
<1>2. ASSUME NEW u \in Users \ bornUsers,
             users' = [users EXCEPT ![u] = job[w].row],
             bornUsers' = bornUsers \cup {u}, UNCHANGED demoted,
             \/ Finish(w, "ok")
             \/ /\ job[w].op # "createUser"
                /\ job' = [job EXCEPT ![w].caller = u] /\ Goto(w, "createSession")
      PROVE  Inv3'
  <2> DEFINE row == job[w].row
  <2>1. row \in UserRow /\ row # None /\ job[w].op \in {"setup", "oidc", "createUser"}
    BY <1>0, WorkerFacts, NoneAssumption DEF LocalOf, SignIn
  <2>2. users'[u] = row /\ \A v \in Users \ {u} : users'[v] = users[v]
    BY <1>2 DEF Inv1, TypeOK
  <2>3. /\ Known /\ ("setup" \notin overlap => UniqueInitial) /\ Governed /\ Rely(w)
        /\ overlap' = overlap
    BY <1>0, AdvanceJob DEF Inv3
  <2>4. job[w].op # "setup" => ~row.initial /\ bornUsers # {}
    BY <1>0, <2>1, <2>3 DEF Rely
  <2>5. Leaves(w)
    BY <1>2, <2>2, <2>3, <2>4 DEF Leaves, Known, Inv1, TypeOK
  <2>6. Rely(w)'
    <3>1. CASE Finish(w, "ok")
      BY <3>1, FinishRely
    <3>2. CASE /\ job[w].op # "createUser"
               /\ job' = [job EXCEPT ![w].caller = u] /\ Goto(w, "createSession")
      <4>1. pc'[w] = "createSession" /\ job'[w].op = job[w].op
        BY <3>2, WorkerFacts DEF Goto, Inv1, TypeOK, Job
      <4> QED BY <2>1, <3>2, <4>1 DEF Rely
    <3> QED BY <1>2, <3>1, <3>2
  <2>7. ASSUME "setup" \notin overlap PROVE UniqueInitial'
    <3>1. CASE job[w].op = "setup"
      <4>1. \A v \in Users : users[v] # None => ~users[v].initial
        BY <1>0, <2>3, <2>7, <3>1 DEF Rely
      <4> QED BY <2>2, <4>1 DEF UniqueInitial
    <3>2. CASE job[w].op # "setup"
      BY <2>2, <2>3, <2>4, <2>7, <3>2 DEF UniqueInitial
    <3> QED BY <3>1, <3>2
  <2>8. Governed'
    <3>1. CASE job[w].op = "setup"
      <4>1. row.role = "admin"
        BY <1>0, <2>3, <3>1 DEF Rely
      <4> QED BY <2>1, <2>2, <4>1 DEF Governed, AdminExists
    <3>2. CASE job[w].op # "setup"
      <4>1. \A v \in Users : users[v] # None => v # u
        BY <1>2, <2>3 DEF Known
      <4> QED BY <1>2, <2>2, <2>3, <2>4, <3>2, <4>1 DEF Governed, AdminExists
    <3> QED BY <3>1, <3>2
  <2> QED BY <1>0, <2>5, <2>6, <2>7, <2>8, AdvanceInv3
<1> QED BY <1>1, <1>2 DEF InsertUser, Fail, Me

LEMMA UpdateUserInv3 == ASSUME Inv1, Inv3, NEW w \in Workers, UpdateUser(w) PROVE Inv3'
<1> DEFINE t == job[w].target  row == job[w].row
<1>0. /\ pc[w] = "updateUser" /\ Advance(w) /\ t \in Users /\ row \in UserRow
      /\ job[w].op \in {"oidc", "changePassword"}
  BY WorkerFacts DEF UpdateUser, At, Advance, LocalOf
<1>1. Rely(w)'
  <2>1. CASE job[w].op = "oidc" /\ Stay(w, "createSession")
    <3>1. pc'[w] = "createSession" /\ job'[w].op = "oidc"
      BY <2>1 DEF Stay, Goto, Inv1, TypeOK
    <3> QED BY <3>1 DEF Rely
  <2>2. CASE Finish(w, "ok") \/ Finish(w, "err")
    BY <2>2, FinishRely
  <2> QED BY <2>1, <2>2 DEF UpdateUser, Fail, Me
<1>2. CASE UNCHANGED <<tables, history>>
  BY <1>0, <1>1, <1>2, QuietInv3 DEF tables, history
<1>3. ASSUME users' = [users EXCEPT ![t] = IF users[t] = None THEN @ ELSE row],
             demoted' = (demoted \/ (users[t] # None /\ users[t].role # row.role
                                     /\ row.role = "viewer")),
             UNCHANGED bornUsers
      PROVE  Inv3'
  <2>1. /\ users'[t] = IF users[t] = None THEN None ELSE row
        /\ \A v \in Users \ {t} : users'[v] = users[v]
    BY <1>0, <1>3 DEF Inv1, TypeOK
  <2>2. /\ Known /\ ("setup" \notin overlap => UniqueInitial) /\ Governed
        /\ overlap' = overlap
    BY <1>0, AdvanceJob DEF Inv3
  <2>3. users[t] # None => /\ row.initial = users[t].initial /\ row.oidc = users[t].oidc
                           /\ row.oidc = None => row.role = users[t].role
    BY <1>0 DEF Inv3, Rely
  <2>4. row # None /\ row.role \in {"admin", "viewer"}
    BY <1>0, NoneAssumption DEF UserRow, Roles
  <2>5. (~demoted' /\ users[t] # None /\ users[t].role = "admin") => row.role = "admin"
    BY <1>3, <2>4
  <2>6. (~demoted' => ~demoted) /\ bornUsers' = bornUsers /\ bornUsers \subseteq Users
    BY <1>3 DEF Inv1, TypeOK
  <2> HIDE DEF row, t
  <2>7. Leaves(w)
    BY <1>0, <2>1, <2>2, <2>3, <2>4, <2>5, <2>6 DEF Leaves, Known
  <2>8. "setup" \notin overlap => UniqueInitial'
    BY <2>1, <2>2, <2>3 DEF UniqueInitial
  <2>9. Governed'
    BY <1>0, <2>1, <2>2, <2>4, <2>5, <2>6 DEF Governed, AdminExists
  <2> QED BY <1>0, <1>1, <2>7, <2>8, <2>9, AdvanceInv3
<1> QED BY <1>2, <1>3 DEF UpdateUser, Fail, Me

LEMMA DeleteRowInv3 == ASSUME Inv1, Inv3, NEW w \in Workers, DeleteRow(w) PROVE Inv3'
<1> DEFINE t == job[w].target  c == job[w].caller
<1>0. /\ pc[w] = "deleteRow" /\ Advance(w) /\ t \in Users /\ c \in Users
      /\ job[w].op = "deleteUser"
  BY WorkerFacts DEF DeleteRow, At, Advance, LocalOf
<1>1. Rely(w)'
  BY FinishRely DEF DeleteRow, Fail
<1>2. CASE UNCHANGED <<tables, history>>
  BY <1>0, <1>1, <1>2, QuietInv3 DEF tables, history
<1>3. ASSUME users' = [users EXCEPT ![t] = None], UNCHANGED history PROVE Inv3'
  <2>1. users'[t] = None /\ \A v \in Users \ {t} : users'[v] = users[v]
    BY <1>0, <1>3 DEF Inv1, TypeOK
  <2>2. bornUsers' = bornUsers /\ demoted' = demoted /\ bornUsers \subseteq Users
    BY <1>3 DEF Inv1, TypeOK, history
  <2>3. /\ Known /\ ("setup" \notin overlap => UniqueInitial) /\ Governed /\ Rely(w)
        /\ overlap' = overlap
    BY <1>0, AdvanceJob DEF Inv3
  <2>4. Leaves(w)
    BY <1>0, <2>1, <2>2, <2>3 DEF Leaves, Known
  <2>5. Governed'
    <3>1. ("deleteUser" \notin overlap /\ ~demoted) =>
                users[c] # None /\ users[c].role = "admin" /\ t # c
      BY <1>0, <2>3 DEF Rely
    <3> QED BY <1>0, <2>1, <2>2, <2>3, <3>1 DEF Governed, AdminExists
  <2>6. "setup" \notin overlap => UniqueInitial'
    BY <2>1, <2>3 DEF UniqueInitial
  <2> QED BY <1>0, <1>1, <2>4, <2>5, <2>6, AdvanceInv3
<1> QED BY <1>2, <1>3 DEF DeleteRow, Fail, Me

LEMMA CountInv3 == ASSUME Inv1, Inv3, NEW w \in Workers, Count(w) PROVE Inv3'
<1>1. UNCHANGED <<users, bornUsers, demoted>> /\ Advance(w)
  BY DEF Count, tables, history, Advance
<1>2. ASSUME \A u \in Users : users[u] = None, Stay(w, "insertUser")
      PROVE  Rely(w)'
  <2>1. pc'[w] = "insertUser" /\ job'[w] = job[w] /\ job[w].op = "setup"
    BY <1>2, WorkerFacts DEF Stay, Goto, Inv1, TypeOK, Count, At, LocalOf
  <2>2. job[w].row.role = "admin"
    BY <1>2, <2>1 DEF Inv3, Rely, Count, At
  <2> QED BY <1>1, <1>2, <2>1, <2>2 DEF Rely
<1> QED BY <1>1, <1>2, FinishRely, QuietInv3 DEF Count

LEMMA ByNameInv3 == ASSUME Inv1, Inv3, NEW w \in Workers, ByName(w) PROVE Inv3'
<1>1. UNCHANGED <<users, bornUsers, demoted>> /\ Advance(w)
  BY DEF ByName, tables, history, Advance
<1>2. ASSUME NEW u \in Users, Goto(w, "createSession"),
             job' = [job EXCEPT ![w].caller = u]
      PROVE  Rely(w)'
  <2>1. pc'[w] = "createSession" /\ job'[w].op = job[w].op /\ job[w].op \in SignIn
    BY <1>2, WorkerFacts DEF Goto, Inv1, TypeOK, Job, ByName, At, LocalOf
  <2> QED BY <2>1 DEF Rely, SignIn
<1> QED BY <1>1, <1>2, FinishRely, QuietInv3 DEF ByName

LEMMA ByIdentityInv3 == ASSUME Inv1, Inv3, NEW w \in Workers, ByIdentity(w) PROVE Inv3'
<1>1. UNCHANGED <<users, bornUsers, demoted>> /\ Advance(w)
  BY DEF ByIdentity, tables, history, Advance
<1>2. /\ pc[w] = "byIdentity" /\ job[w].op = "oidc" /\ job[w].row \in UserRow
      /\ job[w].row.oidc # None
  BY WorkerFacts DEF ByIdentity, At, LocalOf, SignIn, Inv3, Rely
<1>3. ASSUME Stay(w, "jitName") PROVE Rely(w)'
  <2>1. pc'[w] = "jitName" /\ job'[w] = job[w]
    BY <1>3 DEF Stay, Goto, Inv1, TypeOK
  <2>2. ~job[w].row.initial /\ bornUsers # {}
    BY <1>2, <1>3 DEF Inv3, Rely
  <2> QED BY <1>1, <1>2, <2>1, <2>2 DEF Rely
<1>4. ASSUME NEW u \in Users, users[u] # None, users[u].oidc = job[w].row.oidc,
             NEW l \in {"updateUser", "createSession"},
             job' = [job EXCEPT ![w] = [@ EXCEPT !.caller = u, !.target = u,
                         !.row = [users[u] EXCEPT !.role = job[w].row.role]]],
             Goto(w, l)
      PROVE  Rely(w)'
  <2> DEFINE row == [users[u] EXCEPT !.role = job[w].row.role]
             j == [job[w] EXCEPT !.caller = u, !.target = u, !.row = row]
  <2>1. users[u] \in UserRow
    BY <1>4 DEF Inv1, TypeOK
  <2>2. row.initial = users[u].initial /\ row.oidc = users[u].oidc /\ u \in bornUsers
    BY <1>4, <2>1 DEF UserRow, Inv3, Known
  <2>3. pc'[w] = l /\ job'[w] = j
    BY <1>4 DEF Goto, Inv1, TypeOK
  <2> HIDE DEF row
  <2>4. j.op = job[w].op /\ j.target = u /\ j.row = row
    BY WorkerFacts DEF Job
  <2> HIDE DEF j
  <2> QED BY <1>1, <1>2, <1>4, <2>2, <2>3, <2>4 DEF Rely
<1>5. Rely(w)'
  BY <1>3, <1>4, FinishRely DEF ByIdentity, Me
<1> QED BY <1>1, <1>5, QuietInv3

LEMMA JitNameInv3 == ASSUME Inv1, Inv3, NEW w \in Workers, JitName(w) PROVE Inv3'
<1>1. UNCHANGED <<users, bornUsers, demoted>> /\ Advance(w)
  BY DEF JitName, tables, history, Advance
<1>2. pc[w] = "jitName" /\ job[w].op = "oidc" /\ job[w].row \in UserRow
  BY WorkerFacts DEF JitName, At, LocalOf, SignIn
<1>3. /\ pc'[w] = "insertUser" /\ job'[w].op = "oidc"
      /\ job'[w].row.initial = job[w].row.initial
  <2>1. CASE UNCHANGED job
    BY <1>2, <2>1 DEF JitName, Goto, Inv1, TypeOK
  <2>2. CASE job' = [job EXCEPT ![w].row.name = <<@[1], TRUE>>]
    <3> DEFINE row == [job[w].row EXCEPT !.name = <<@[1], TRUE>>]
               j == [job[w] EXCEPT !.row = row]
    <3>1. row.initial = job[w].row.initial
      BY <1>2 DEF UserRow
    <3>2. job'[w] = j
      BY <2>2 DEF Inv1, TypeOK
    <3> HIDE DEF row
    <3>3. j.op = job[w].op /\ j.row = row
      BY WorkerFacts DEF Job
    <3> HIDE DEF j
    <3> QED BY <1>2, <3>1, <3>2, <3>3 DEF JitName, Goto, Inv1, TypeOK
  <2> QED BY <2>1, <2>2 DEF JitName
<1>4. Rely(w)'
  BY <1>1, <1>2, <1>3 DEF Inv3, Rely
<1> QED BY <1>1, <1>4, QuietInv3

\* At the middleware a request carries the row that it came with.
LEMMA FrontRely ==
    ASSUME Inv1, Inv3, NEW w \in Workers, pc[w] # "idle",
           pc'[w] \in Front, job'[w].op = job[w].op, job'[w].row = job[w].row,
           job'[w].target = job[w].target, UNCHANGED bornUsers
    PROVE  Rely(w)'
BY DEF Inv3, Rely, Front

LEMMA GetSessionInv3 == ASSUME Inv1, Inv3, NEW w \in Workers, GetSession(w) PROVE Inv3'
<1>1. UNCHANGED <<users, bornUsers, demoted>> /\ Advance(w) /\ pc[w] = "getSession"
  BY DEF GetSession, tables, history, Advance, At
<1>2. ASSUME NEW row, Goto(w, "judge"), job' = [job EXCEPT ![w].copy = row]
      PROVE  /\ pc'[w] = "judge" /\ job'[w].op = job[w].op /\ job'[w].row = job[w].row
             /\ job'[w].target = job[w].target
  BY <1>2, WorkerFacts DEF Goto, Inv1, TypeOK, Job
<1>3. Rely(w)'
  BY <1>1, <1>2, FrontRely, FinishRely DEF GetSession, Front
<1> QED BY <1>1, <1>3, QuietInv3

LEMMA StayFrontRely ==
    ASSUME Inv1, Inv3, NEW w \in Workers, pc[w] # "idle",
           NEW l \in Front, Stay(w, l), UNCHANGED bornUsers
    PROVE  Rely(w)'
<1>1. pc'[w] = l /\ job'[w] = job[w]
  BY DEF Stay, Goto, Inv1, TypeOK
<1> QED BY <1>1, FrontRely

LEMMA JudgeInv3 == ASSUME Inv1, Inv3, NEW w \in Workers, Judge(w) PROVE Inv3'
<1>1. UNCHANGED <<users, bornUsers, demoted>> /\ Advance(w) /\ pc[w] = "judge"
  BY DEF Judge, tables, history, Advance, At
<1>2. Stay(w, "drop") \/ Stay(w, "touch")
  BY DEF Judge
<1> QED BY <1>1, <1>2, StayFrontRely, QuietInv3 DEF Front

LEMMA TouchInv3 == ASSUME Inv1, Inv3, NEW w \in Workers, Touch(w) PROVE Inv3'
<1>1. UNCHANGED <<users, bornUsers, demoted>> /\ Advance(w) /\ pc[w] = "touch"
  BY DEF Touch, Fail, tables, history, Advance, At
<1>2. Stay(w, "getUser") \/ Finish(w, "err")
  BY DEF Touch, Fail
<1> QED BY <1>1, <1>2, StayFrontRely, FinishRely, QuietInv3 DEF Front

LEMMA FinishInv3 ==
    ASSUME Inv1, Inv3, NEW w \in Workers,
           Drop(w) \/ DeleteSession(w) \/ CreateSession(w)
    PROVE  Inv3'
<1>1. UNCHANGED <<users, bornUsers, demoted>> /\ Advance(w)
  BY DEF Drop, DeleteSession, CreateSession, Fail, tables, history, Advance
<1>2. Finish(w, "ok") \/ Finish(w, "err")
  BY DEF Drop, DeleteSession, CreateSession, Fail
<1> QED BY <1>1, <1>2, FinishRely, QuietInv3

LEMMA GetUserInv3 == ASSUME Inv1, Inv3, NEW w \in Workers, GetUser(w) PROVE Inv3'
<1> DEFINE u == job[w].copy.user
           j == [job[w] EXCEPT !.caller = u, !.copy = None]
           entry == CASE job[w].op = "createUser"     -> "insertUser"
                      [] job[w].op = "deleteUser"     -> "deleteRow"
                      [] job[w].op = "changePassword" -> "getTarget"
                      [] OTHER                        -> "idle"
<1>1. UNCHANGED <<users, bornUsers, demoted>> /\ Advance(w) /\ pc[w] = "getUser"
  BY DEF GetUser, tables, history, Advance, At
<1>2. u \in Users
  BY <1>1, WorkerFacts DEF LocalOf, SessionRow
<1>3. \/ Stay(w, "drop") \/ Finish(w, "err")
      \/ /\ users[u] # None /\ Allowed(job[w], u, users[u].role)
         /\ job' = [job EXCEPT ![w] = j] /\ pc' = [pc EXCEPT ![w] = entry]
  BY DEF GetUser, Me
<1>4. ASSUME users[u] # None, Allowed(job[w], u, users[u].role),
             job' = [job EXCEPT ![w] = j], pc' = [pc EXCEPT ![w] = entry]
      PROVE  Rely(w)'
  <2>1. /\ j.op = job[w].op /\ j.row = job[w].row /\ j.target = job[w].target
        /\ j.caller = u
    BY WorkerFacts DEF Job
  <2>2. job'[w] = j /\ pc'[w] = entry
    BY <1>4 DEF Inv1, TypeOK
  <2>3. bornUsers # {}
    BY <1>2, <1>4 DEF Inv3, Known
  <2>4. job[w].op = "createUser" => ~job[w].row.initial
    BY <1>1, <1>4 DEF Inv3, Rely
  <2>5. /\ entry \in {"insertUser", "deleteRow", "getTarget", "idle"}
        /\ entry = "insertUser" => job[w].op = "createUser"
        /\ entry = "deleteRow" => job[w].op = "deleteUser"
    OBVIOUS
  <2>6. /\ job[w].op = "deleteUser" => users[u].role = "admin" /\ job[w].target # u
        /\ job[w].op = "changePassword" => job[w].target \in bornUsers
    BY <1>1, <1>4 DEF Allowed, Inv3, Rely
  <2> HIDE DEF entry, j
  <2> QED BY <1>1, <1>4, <2>1, <2>2, <2>3, <2>4, <2>5, <2>6 DEF Rely
<1>5. Rely(w)'
  BY <1>1, <1>3, <1>4, StayFrontRely, FinishRely DEF Front
<1> QED BY <1>1, <1>5, QuietInv3

LEMMA GetTargetInv3 == ASSUME Inv1, Inv3, NEW w \in Workers, GetTarget(w) PROVE Inv3'
<1>1. UNCHANGED <<users, bornUsers, demoted>> /\ Advance(w)
  BY DEF GetTarget, tables, history, Advance
<1>2. ASSUME users[job[w].target] # None, users[job[w].target].oidc = None,
             Goto(w, "updateUser"),
             job' = [job EXCEPT ![w].row = users[job[w].target]]
      PROVE  Rely(w)'
  <2>1. /\ pc'[w] = "updateUser" /\ job'[w].op = job[w].op
        /\ job'[w].target = job[w].target /\ job'[w].row = users[job[w].target]
    BY <1>2, WorkerFacts DEF Goto, Inv1, TypeOK, Job
  <2>2. job[w].op = "changePassword" /\ job[w].target \in bornUsers
    BY WorkerFacts DEF GetTarget, At, LocalOf, Inv3, Rely
  <2> QED BY <1>1, <1>2, <2>1, <2>2 DEF Rely
<1>3. Rely(w)'
  BY <1>2, FinishRely DEF GetTarget, Me
<1> QED BY <1>1, <1>3, QuietInv3

LEMMA BeginInv3 ==
    ASSUME Inv1, Inv3, NEW w \in Workers, NEW j,
           NEW l \in {"count", "byName", "byIdentity", "deleteSession", "getSession"},
           Begin(w, j, l), l = "byIdentity" => j.op = "oidc",
           j.op = "setup" => j.row.role = "admin",
           j.op = "oidc" => ~j.row.initial /\ j.row.oidc # None /\ bornUsers # {},
           j.op = "createUser" => ~j.row.initial,
           j.op = "changePassword" => j.target \in bornUsers
    PROVE  Inv3'
<1>1. /\ pc'[w] = l /\ job'[w] = j /\ pc[w] = "idle"
      /\ \A v \in Workers \ {w} : pc'[v] = pc[v] /\ job'[v] = job[v]
      /\ overlap' = overlap \cup (Solo \cap UnderWay \cap {j.op})
      /\ UNCHANGED <<users, bornUsers, demoted>>
  BY DEF Begin, tables, history, Inv1, TypeOK
<1>2. Alone'
  <2> SUFFICES ASSUME NEW op \in Solo \ overlap', NEW v \in Workers, NEW x \in Workers,
                      pc'[v] # "idle", job'[v].op = op, pc'[x] # "idle", job'[x].op = op
               PROVE  v = x
    BY DEF Alone
  <2>1. CASE v # w /\ x # w
    BY <1>1, <2>1 DEF Inv3, Alone
  <2>2. ASSUME NEW y \in Workers \ {w}, pc'[y] # "idle", job'[y].op = op, j.op = op
        PROVE  FALSE
    <3>1. op \in UnderWay
      BY <1>1, <2>2 DEF UnderWay
    <3> QED BY <1>1, <2>2, <3>1
  <2> QED BY <1>1, <2>1, <2>2
<1>3. \A v \in Workers : Rely(v)'
  <2>1. Rely(w)'
    BY <1>1 DEF Rely
  <2>2. ASSUME NEW v \in Workers \ {w} PROVE Rely(v)'
    BY <1>1 DEF Inv3, Rely
  <2> QED BY <2>1, <2>2
<1>4. Known' /\ ("setup" \notin overlap' => UniqueInitial') /\ Governed'
  BY <1>1 DEF Inv3, Known, UniqueInitial, Governed, AdminExists
<1> QED BY <1>2, <1>3, <1>4 DEF Inv3

LEMMA ArriveInv3 == ASSUME Inv1, Inv3, NEW w \in Workers, Arrive(w) PROVE Inv3'
<1>1. ASSUME NEW b \in Bases,
             Begin(w, [NoJob EXCEPT !.op = "setup",
                         !.row = NewRow(<<b, FALSE>>, "admin", TRUE, None)], "count")
      PROVE  Inv3'
  <2> DEFINE row == NewRow(<<b, FALSE>>, "admin", TRUE, None)
             j == [NoJob EXCEPT !.op = "setup", !.row = row]
  <2>0. row.role = "admin"
    BY DEF NewRow
  <2>1. Begin(w, j, "count")
    BY <1>1
  <2> HIDE DEF row
  <2>2. j.op = "setup" /\ j.row = row
    BY DEF NoJob
  <2> HIDE DEF j
  <2> QED BY <2>0, <2>1, <2>2, BeginInv3
<1>2. ASSUME NEW b \in Bases,
             Begin(w, [NoJob EXCEPT !.op = "login",
                         !.row = NewRow(<<b, FALSE>>, "viewer", FALSE, None)], "byName")
      PROVE  Inv3'
  <2> DEFINE j == [NoJob EXCEPT !.op = "login",
                     !.row = NewRow(<<b, FALSE>>, "viewer", FALSE, None)]
  <2>1. j.op = "login" /\ Begin(w, j, "byName")
    BY <1>2 DEF NoJob
  <2> HIDE DEF j
  <2> QED BY <2>1, BeginInv3
<1>3. ASSUME NEW b \in Bases, NEW i \in Subjects, NEW r \in Roles, bornUsers # {},
             Begin(w, [NoJob EXCEPT !.op = "oidc",
                         !.row = NewRow(<<b, FALSE>>, r, FALSE, i)], "byIdentity")
      PROVE  Inv3'
  <2> DEFINE row == NewRow(<<b, FALSE>>, r, FALSE, i)
             j == [NoJob EXCEPT !.op = "oidc", !.row = row]
  <2>0. ~row.initial /\ row.oidc # None
    BY NoneAssumption DEF NewRow
  <2>1. Begin(w, j, "byIdentity")
    BY <1>3
  <2> HIDE DEF row
  <2>2. j.op = "oidc" /\ j.row = row
    BY DEF NoJob
  <2> HIDE DEF j
  <2> QED BY <1>3, <2>0, <2>1, <2>2, BeginInv3
<1>4. ASSUME NEW s \in Sessions, NEW b \in Bases, NEW r \in Roles,
             Begin(w, [NoJob EXCEPT !.op = "createUser", !.sess = s,
                         !.row = NewRow(<<b, FALSE>>, r, FALSE, None)], "getSession")
      PROVE  Inv3'
  <2> DEFINE row == NewRow(<<b, FALSE>>, r, FALSE, None)
             j == [NoJob EXCEPT !.op = "createUser", !.sess = s, !.row = row]
  <2>0. ~row.initial
    BY DEF NewRow
  <2>1. Begin(w, j, "getSession")
    BY <1>4
  <2> HIDE DEF row
  <2>2. j.op = "createUser" /\ j.row = row
    BY DEF NoJob
  <2> HIDE DEF j
  <2> QED BY <2>0, <2>1, <2>2, BeginInv3
<1>5. ASSUME NEW j, NEW l \in {"deleteSession", "getSession"}, Begin(w, j, l),
             j.op \in {"logout", "request", "deleteUser", "changePassword"},
             j.op = "changePassword" => j.target \in bornUsers
      PROVE  Inv3'
  BY <1>5, BeginInv3
<1>6. CASE BeginSignIn(w)
  BY <1>1, <1>2, <1>3, <1>6 DEF BeginSignIn
<1>7. CASE BeginLogout(w)
  BY <1>5, <1>7 DEF BeginLogout, NoJob
<1>8. CASE BeginProtected(w)
  BY <1>4, <1>5, <1>8 DEF BeginProtected, NoJob
<1> QED BY <1>6, <1>7, <1>8 DEF Arrive

LEMMA AdvanceAllInv3 == ASSUME Inv1, Inv3, NEW w \in Workers, Advance(w) PROVE Inv3'
BY CountInv3, ByNameInv3, ByIdentityInv3, JitNameInv3, InsertUserInv3,
   UpdateUserInv3, GetSessionInv3, JudgeInv3, TouchInv3, FinishInv3,
   GetUserInv3, DeleteRowInv3, GetTargetInv3 DEF Advance

\* Time, the cleaner and a restart leave the users alone.
LEMMA OtherInv3 ==
    ASSUME Inv3, Tick \/ Clean \/ Crash \/ UNCHANGED vars PROVE Inv3'
<1>1. UNCHANGED <<users, bornUsers, demoted, overlap>>
  BY DEF Tick, Clean, Crash, vars, tables, history, begun
<1>2. Known' /\ ("setup" \notin overlap' => UniqueInitial') /\ Governed'
  BY <1>1 DEF Inv3, Known, UniqueInitial, Governed, AdminExists
<1>3. CASE UNCHANGED <<pc, job>>
  <2>1. Alone' /\ \A w \in Workers : Rely(w)'
    BY <1>1, <1>3 DEF Inv3, Alone, Rely
  <2> QED BY <1>2, <2>1 DEF Inv3
<1>4. CASE Crash
  <2>1. Alone' /\ \A w \in Workers : Rely(w)'
    BY <1>4, IdleRely DEF Crash, Alone
  <2> QED BY <1>2, <2>1 DEF Inv3
<1> QED BY <1>3, <1>4 DEF Tick, Clean, vars

LEMMA Inv3Correct == Spec => [](Inv1 /\ Inv3)
<1>1. Init => Inv1 /\ Inv3
  <2> SUFFICES ASSUME Init PROVE Inv3
    BY InitInv1
  <2>1. Known /\ Alone /\ UniqueInitial /\ Governed
    BY DEF Init, Known, Alone, UniqueInitial, Governed
  <2>2. \A w \in Workers : Rely(w)
    BY DEF Init, Rely
  <2> QED BY <2>1, <2>2 DEF Inv3
<1>2. Inv1 /\ Inv3 /\ [Next]_vars => (Inv1 /\ Inv3)'
  BY NextInv1, ArriveInv3, AdvanceAllInv3, OtherInv3 DEF Next
<1> QED BY <1>1, <1>2, PTL DEF Spec

(***************************************************************************)
(* An installation that has users has an administrator, however the steps  *)
(* of all requests interleave, as long as no two handleDeleteUser were     *)
(* under way at once and the provider demoted nobody: the caller who was   *)
(* found to be an administrator, and is not the one to delete, still is    *)
(* one when the row goes, and no stale row of a password change or a       *)
(* sign-in takes the role from him.                                        *)
(***************************************************************************)
THEOREM AdminRemainsCorrect == Spec => []AdminRemains
<1>1. Inv3 => AdminRemains
  BY DEF Inv3, Known, Governed, AdminExists, AdminRemains
<1> QED BY <1>1, Inv3Correct, PTL

(***************************************************************************)
(* There is at most one user that CreateInitialAdmin made, however the     *)
(* steps of all requests interleave, unless two setups were under way at   *)
(* once: what NeedsSetup counted still holds of initial users at the       *)
(* insert, and stale rows are written to their own ids only.               *)
(***************************************************************************)
THEOREM SetupOnceCorrect == Spec => []SetupOnce
<1>1. ASSUME Inv3 PROVE SetupOnce
  <2> DEFINE S == {u \in Users : users[u] # None /\ users[u].initial}
  <2>1. CASE "setup" \in overlap
    BY <2>1 DEF SetupOnce
  <2>2. CASE S = {}
    <3>1. Cardinality(S) = 0
      BY <2>2, FS_EmptySet
    <3> QED BY <3>1 DEF SetupOnce, OneInitialAdmin
  <2>3. ASSUME "setup" \notin overlap, NEW u \in S PROVE SetupOnce
    <3>1. S = {u}
      BY <1>1, <2>3 DEF Inv3, UniqueInitial
    <3>2. Cardinality(S) = 1
      BY <3>1, FS_Singleton
    <3> QED BY <3>2 DEF SetupOnce, OneInitialAdmin
  <2> QED BY <2>1, <2>2, <2>3
<1> QED BY <1>1, Inv3Correct, PTL
=============================================================================
