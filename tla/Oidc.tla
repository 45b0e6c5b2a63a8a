-------------------------------- MODULE Oidc --------------------------------
(***************************************************************************)
(* OIDC single sign-on: internal/auth/oidc.go, handler_oidc.go, the        *)
(* provider handlers of handler_settings.go and the statements of          *)
(* store_settings.go they use.                                             *)
(*                                                                         *)
(* The providers exist twice: as rows, and resolved in memory, where       *)
(* Reload puts them after discovery.  Reload runs in the goroutine that    *)
(* starts with the process and at the end of every request that changes a  *)
(* provider; nothing serialises two of them.  A sign-in is two requests    *)
(* with the identity provider between them, joined by a state token in the *)
(* database.  Sessions are the subject of Auth.                            *)
(***************************************************************************)
EXTENDS Naturals, FiniteSets

CONSTANTS
    Workers,      \* goroutines that can run a handler
    Boot,         \* the goroutine NewOIDCService starts
    Ids,          \* provider ids that can ever be generated
    Names,        \* provider names
    Issuers,      \* identity providers
    Offers,       \* the providers an administrator may configure
    Subjects,     \* subjects an identity provider knows
    Tokens,       \* state tokens that can ever be generated
    Codes,        \* authorization codes that can ever be issued
    TTL,          \* life time of a state token
    Ops,          \* the requests this instance issues
    Faults,       \* subset of {"db", "net"}: what may fail
    MaxTime,      \* bound on the clock
    MaxRequests,  \* bound on the number of requests
    MaxCrashes,   \* bound on the number of restarts
    None          \* no row, no value

AllOps == {"create", "update", "delete", "login", "callback"}

ASSUME BoundsAssumption == /\ TTL \in Nat /\ MaxTime \in Nat
                           /\ MaxRequests \in Nat /\ MaxCrashes \in Nat
ASSUME ChoicesAssumption == /\ Boot \notin Workers /\ Ops \subseteq AllOps
                            /\ Faults \subseteq {"db", "net"}

Time   == 0..MaxTime
Procs  == Workers \cup {Boot}

Provider == [name: Names, issuer: Issuers, enabled: BOOLEAN]
ASSUME OffersAssumption == Offers \subseteq Provider

State    == [prov: Ids, created: Time]
\* What an identity provider remembers of a code: whom it identifies and the
\* authorization request, with its nonce, that it answers.
Code     == [token: Tokens, issuer: Issuers, sub: Subjects, used: BOOLEAN]
\* A row of the table users that belongs to an identity.  The issuer that
\* vouched for it is history: the code stores only the provider's name.
Account  == [name: Names, sub: Subjects, origin: Issuers]

ASSUME NoneAssumption == /\ None \notin Provider /\ None \notin State
                         /\ None \notin Code /\ None \notin Ids
                         /\ None \notin Tokens /\ None \notin Codes

Labels == {"idle", "putRow", "list", "install", "putState", "dropState", "check",
           "exchange", "account", "provision"}

\* The local variables of a request or a reload.
Job == [id: Ids \cup {None}, row: Provider \cup {None},
        listed: [Ids -> Provider \cup {None}], token: Tokens \cup {None},
        state: State \cup {None}, code: Codes \cup {None}]

NoRows == [i \in Ids |-> None]
NoJob  == [id |-> None, row |-> None, listed |-> NoRows, token |-> None,
           state |-> None, code |-> None]

VARIABLES
    now,       \* the clock
    rows,      \* table oidc_providers
    states,    \* table oidc_states
    accounts,  \* table users, the rows with an OIDC identity
    resolved,  \* OIDCService.providers
    ready,     \* OIDCService.ready is closed
    asked,     \* the browser: the issuer an authorization request went to
    codes,     \* the identity providers: codes they have issued
    pc, job,   \* per goroutine: its next step and its local variables
    bornIds,   \* history: provider ids ever generated
    bornTokens,\* history: tokens ever generated
    named,     \* history: <<name, issuer>> of every row ever stored
    answered,  \* history: tokens whose callback has been answered
    kept,      \* history: tokens whose deletion failed
    mixed,     \* history: a row changed while another reload was under way
    lost,      \* history: the latest reload could not list the rows
    signIns,   \* history: the sign-ins, as <<account, issuer of the code>>
    requests, crashes

tables  == <<rows, states, accounts>>
memory  == <<resolved, ready>>
history == <<bornIds, bornTokens, named, answered, kept, mixed, lost, signIns>>
outside == <<asked, codes>>
vars    == <<now, tables, memory, outside, pc, job, history, requests,
             crashes>>

TypeOK ==
    /\ now \in Time
    /\ rows \in [Ids -> Provider \cup {None}]
    /\ states \in [Tokens -> State \cup {None}]
    /\ accounts \subseteq Account
    /\ resolved \in [Ids -> Provider \cup {None}]
    /\ ready \in BOOLEAN
    /\ asked \in [Tokens -> Issuers \cup {None}]
    /\ codes \in [Codes -> Code \cup {None}]
    /\ pc \in [Procs -> Labels] /\ job \in [Procs -> Job]
    /\ bornIds \subseteq Ids /\ bornTokens \subseteq Tokens
    /\ named \subseteq Names \X Issuers
    /\ answered \subseteq Tokens /\ kept \subseteq Tokens
    /\ mixed \in BOOLEAN /\ lost \in BOOLEAN
    /\ signIns \subseteq Account \X Issuers
    /\ requests \in 0..MaxRequests /\ crashes \in 0..MaxCrashes

\* NewOIDCService: nothing resolved, Reload under way in the background.
BootPc  == [w \in Procs |-> IF w = Boot THEN "list" ELSE "idle"]
BootJob == [w \in Procs |-> NoJob]

\* A start of the process: providers and accounts are those of an earlier one.
Init ==
    /\ now = 0
    /\ rows \in [Ids -> Offers \cup {None}]
    /\ \A i, k \in Ids : i # k /\ rows[i] # None /\ rows[k] # None =>
                            rows[i].name # rows[k].name
    /\ states = [t \in Tokens |-> None]
    /\ accounts \in SUBSET {[name |-> rows[i].name, origin |-> rows[i].issuer, sub |-> s] :
                              i \in {k \in Ids : rows[k] # None}, s \in Subjects}
    /\ resolved = NoRows /\ ready = FALSE
    /\ asked = [t \in Tokens |-> None]
    /\ codes = [c \in Codes |-> None]
    /\ pc = BootPc /\ job = BootJob
    /\ bornIds = {i \in Ids : rows[i] # None} /\ bornTokens = {}
    /\ named = {<<rows[i].name, rows[i].issuer>> : i \in bornIds} /\ answered = {}
    /\ kept = {}
    /\ mixed = FALSE /\ lost = FALSE /\ signIns = {}
    /\ requests = 0 /\ crashes = 0

-----------------------------------------------------------------------------
At(w, l) == pc[w] = l /\ UNCHANGED <<now, requests, crashes>>
Me(w)    == job[w]

Goto(w, l) == pc' = [pc EXCEPT ![w] = l]
Stay(w, l) == Goto(w, l) /\ UNCHANGED job
\* The local variables of w become j.
Hold(w, j) == job' = [job EXCEPT ![w] = j]
\* The request is answered, with success or with an error.
Finish(w)  == Goto(w, "idle") /\ Hold(w, NoJob)
\* The row is stored and the handler calls Reload.
Reload(w)  == Goto(w, "list") /\ Hold(w, NoJob)

\* An error answer before anything has changed.
Refuse(w) == Finish(w) /\ UNCHANGED <<tables, memory, outside, history>>

\* A request arrives and its handler runs up to its first statement.
Arrive(w, op) ==
    /\ w # Boot /\ pc[w] = "idle" /\ requests < MaxRequests /\ op \in Ops
    /\ requests' = requests + 1
    /\ UNCHANGED <<now, crashes>>

-----------------------------------------------------------------------------
(***************************************************************************)
(* The provider handlers, for an administrator and a body that passes the  *)
(* checks at their head.                                                   *)
(***************************************************************************)

\* Some other goroutine has listed the rows and will install what it listed.
OtherReload(w) == \E v \in Procs \ {w} : pc[v] = "install"

\* The row of i is written; the name is unique.
Store(w, i, p) ==
    /\ \A k \in Ids \ {i} : rows[k] # None => rows[k].name # p.name
    /\ rows' = [rows EXCEPT ![i] = p]
    /\ named' = named \cup {<<p.name, p.issuer>>}
    /\ mixed' = (mixed \/ OtherReload(w))
    /\ UNCHANGED <<states, accounts, memory, outside, bornTokens, answered, kept,
                   lost, signIns>>

\* handleCreateOIDCProvider up to the reload.
Create(w) ==
    /\ Arrive(w, "create")
    /\ \/ \E i \in Ids \ bornIds, p \in Offers :
            /\ Store(w, i, p) /\ bornIds' = bornIds \cup {i}
            /\ Reload(w)
       \/ Refuse(w)

\* handleUpdateOIDCProvider: the row is read, 404 when there is none ...
GetRow(w) ==
    /\ Arrive(w, "update")
    /\ \/ \E i \in Ids, p \in Offers :
            /\ rows[i] # None
            /\ Hold(w, [NoJob EXCEPT !.id = i, !.row = p]) /\ Goto(w, "putRow")
            /\ UNCHANGED <<tables, memory, outside, history>>
       \/ Refuse(w)

\* ... and written back; an UPDATE of a row that is gone does nothing.
PutRow(w) ==
    /\ At(w, "putRow")
    /\ \/ /\ IF rows[Me(w).id] = None
             THEN UNCHANGED <<tables, memory, outside, history>>
             ELSE Store(w, Me(w).id, Me(w).row) /\ UNCHANGED bornIds
          /\ Reload(w)
       \/ Refuse(w)

\* Mutant of DeleteRow: the handler answers without the reload.
MutDeleteRow(w) ==
    /\ Arrive(w, "delete")
    /\ \E i \in bornIds : rows' = [rows EXCEPT ![i] = None]
    /\ Finish(w)
    /\ UNCHANGED <<states, accounts, memory, outside, history>>

\* handleDeleteOIDCProvider.
DeleteRow(w) ==
    /\ Arrive(w, "delete")
    /\ \/ /\ \E i \in bornIds : rows' = [rows EXCEPT ![i] = None]
          /\ mixed' = (mixed \/ OtherReload(w))
          /\ Reload(w)
          /\ UNCHANGED <<states, accounts, memory, outside, bornIds, bornTokens,
                         named, answered, kept, lost, signIns>>
       \/ "db" \in Faults /\ Refuse(w)

(***************************************************************************)
(* Reload.                                                                 *)
(***************************************************************************)

\* ListOIDCProviders; when it fails Reload returns, and a handler that called
\* it answers with success nonetheless.
List(w) ==
    /\ At(w, "list")
    /\ \/ /\ job' = [job EXCEPT ![w].listed = rows] /\ Goto(w, "install")
          /\ UNCHANGED <<tables, memory, outside, history>>
       \/ /\ "db" \in Faults /\ Finish(w) /\ lost' = TRUE
          /\ UNCHANGED <<tables, memory, outside, bornIds, bornTokens, named,
                         answered, kept, mixed, signIns>>

\* The enabled rows whose secret decrypts and whose discovery succeeds.
Discovered(w, failed) ==
    [i \in Ids |-> LET p == Me(w).listed[i]
                   IN IF p # None /\ p.enabled /\ i \notin failed THEN p ELSE None]

\* The new map replaces the old one, and the first one closes ready.
Install(w) ==
    /\ At(w, "install")
    /\ \E failed \in SUBSET Ids :
         /\ "net" \in Faults \/ failed = {}
         /\ resolved' = Discovered(w, failed)
    /\ ready' = TRUE
    /\ lost' = FALSE
    /\ Finish(w)
    /\ UNCHANGED <<tables, outside, bornIds, bornTokens, named, answered, kept,
                   mixed, signIns>>

-----------------------------------------------------------------------------
(***************************************************************************)
(* Signing in, first half: handleOIDCLogin and AuthorizationURL.           *)
(***************************************************************************)

\* WaitReady goes on when ready is closed and gives up after five seconds; then
\* the provider, under the read lock.
Lookup(w) ==
    /\ Arrive(w, "login")
    /\ \/ \E i \in bornIds :
            /\ ready /\ resolved[i] # None
            /\ Hold(w, [NoJob EXCEPT !.id = i, !.row = resolved[i]])
            /\ Goto(w, "putState")
            /\ UNCHANGED <<tables, memory, outside, history>>
       \/ Refuse(w)

\* Mutant of NewState: the time of creation is not set.
MutNewState(w) == [prov |-> Me(w).id, created |-> None]
NewState(w) == [prov |-> Me(w).id, created |-> now]

\* CreateOIDCState, and the redirect to the identity provider.
PutState(w) ==
    /\ At(w, "putState")
    /\ \/ \E t \in Tokens \ bornTokens :
            /\ states' = [states EXCEPT ![t] = NewState(w)]
            /\ bornTokens' = bornTokens \cup {t}
            /\ Finish(w)
            /\ asked' = [asked EXCEPT ![t] = Me(w).row.issuer]
            /\ UNCHANGED <<rows, accounts, memory, codes, bornIds, named, answered,
                           kept, mixed, lost, signIns>>
       \/ "db" \in Faults /\ Refuse(w)

(***************************************************************************)
(* Second half: handleOIDCCallback and HandleCallback.                     *)
(***************************************************************************)

\* The browser comes back with any token and a code, new or used before, that
\* answers any of the authorization requests; GetOIDCState.
GetState(w) ==
    /\ Arrive(w, "callback")
    /\ \/ \E t, u \in bornTokens, c \in Codes, s \in Subjects :
            /\ states[t] # None
            /\ \/ codes[c] # None /\ UNCHANGED codes
               \/ /\ codes[c] = None
                  /\ codes' = [codes EXCEPT ![c] = [token |-> u, issuer |-> asked[u],
                                                    sub |-> s, used |-> FALSE]]
            /\ Hold(w, [NoJob EXCEPT !.token = t, !.state = states[t], !.code = c])
            /\ Goto(w, "dropState")
            /\ UNCHANGED <<tables, memory, asked, history>>
       \/ Refuse(w)

\* Mutant of DropState: an expired token stays for the cleanup.
MutDropState(w) ==
    /\ At(w, "dropState")
    /\ IF now - Me(w).state.created > TTL THEN UNCHANGED states
       ELSE states' = [states EXCEPT ![Me(w).token] = None]
    /\ Stay(w, "check")
    /\ UNCHANGED <<rows, accounts, memory, outside, history>>

\* DeleteOIDCState, whose error is dropped.
DropState(w) ==
    /\ At(w, "dropState")
    /\ \/ states' = [states EXCEPT ![Me(w).token] = None] /\ UNCHANGED kept
       \/ "db" \in Faults /\ UNCHANGED states /\ kept' = kept \cup {Me(w).token}
    /\ Stay(w, "check")
    /\ UNCHANGED <<rows, accounts, memory, outside, bornIds, bornTokens, named,
                   answered, mixed, lost, signIns>>

\* The answer of a callback that had found its token.
Answer(w) == Finish(w) /\ answered' = answered \cup {Me(w).token}
Reject(w) == /\ Answer(w)
             /\ UNCHANGED <<tables, memory, outside, bornIds, bornTokens, named,
                            kept, mixed, lost, signIns>>

\* The token's age and the provider, as it is resolved now.
Check(w) ==
    /\ At(w, "check")
    /\ LET s == Me(w).state
           p == resolved[s.prov]
       IN \/ /\ now - s.created <= TTL /\ p # None
             /\ job' = [job EXCEPT ![w].row = p] /\ Goto(w, "exchange")
             /\ UNCHANGED <<tables, memory, outside, history>>
          \/ (now - s.created > TTL \/ p = None) /\ Reject(w)

\* The identity provider accepts a code of its own once; the ID token carries
\* the nonce of the request the code answers, stored with the state token.
Vouched(w) == LET c == codes[Me(w).code]
              IN /\ ~c.used /\ c.issuer = Me(w).row.issuer
                 /\ c.token = Me(w).token

Exchange(w) ==
    /\ At(w, "exchange")
    /\ \/ /\ Vouched(w)
          /\ codes' = [codes EXCEPT ![Me(w).code].used = TRUE] /\ UNCHANGED asked
          /\ Stay(w, "account")
          /\ UNCHANGED <<tables, memory, history>>
       \/ (~Vouched(w) \/ "net" \in Faults) /\ Reject(w)

\* Mutant of SameIdentity: the subject alone identifies the account.
MutSameIdentity(a, name, sub) == a.sub = sub
\* GetUserByOIDCIdentity: the provider's name and the subject.
SameIdentity(a, name, sub) == a.name = name /\ a.sub = sub

\* Signed in to account a.
SignIn(w, a) == /\ Answer(w)
                /\ signIns' = signIns \cup {<<a, codes[Me(w).code].issuer>>}
                /\ UNCHANGED <<bornIds, bornTokens, named, kept, mixed, lost>>

\* The account of the identity, if there is one.
FindAccount(w) ==
    /\ At(w, "account")
    /\ LET found == {a \in accounts :
                        SameIdentity(a, Me(w).row.name, codes[Me(w).code].sub)}
       IN \/ /\ \E a \in found : SignIn(w, a)
             /\ UNCHANGED <<tables, memory, outside>>
          \/ /\ found = {} /\ Stay(w, "provision")
             /\ UNCHANGED <<tables, memory, outside, history>>
          \/ "db" \in Faults /\ Reject(w)

\* A new account; the index on the identity refuses a second one.
Provision(w) ==
    /\ At(w, "provision")
    /\ LET a == [name |-> Me(w).row.name, sub |-> codes[Me(w).code].sub,
                 origin |-> codes[Me(w).code].issuer]
           taken == \E b \in accounts : b.name = a.name /\ b.sub = a.sub
       IN \/ /\ ~taken /\ accounts' = accounts \cup {a} /\ SignIn(w, a)
             /\ UNCHANGED <<rows, states, memory, outside>>
          \/ (taken \/ "db" \in Faults) /\ Reject(w)

-----------------------------------------------------------------------------
Tick == /\ now < MaxTime /\ now' = now + 1
        /\ UNCHANGED <<tables, memory, outside, pc, job, history, requests,
                       crashes>>

\* The process dies and is started again.
Crash ==
    /\ crashes < MaxCrashes /\ crashes' = crashes + 1
    /\ resolved' = NoRows /\ ready' = FALSE
    /\ pc' = BootPc /\ job' = BootJob
    /\ mixed' = FALSE /\ lost' = FALSE
    /\ UNCHANGED <<now, tables, outside, bornIds, bornTokens, named, answered, kept,
                   signIns, requests>>

Request(w) == Create(w) \/ GetRow(w) \/ DeleteRow(w) \/ Lookup(w) \/ GetState(w)
Advance(w) ==
    \/ PutRow(w) \/ List(w) \/ Install(w) \/ PutState(w) \/ DropState(w)
    \/ Check(w) \/ Exchange(w) \/ FindAccount(w) \/ Provision(w)

Next == \/ \E w \in Procs : Request(w) \/ Advance(w)
        \/ Tick \/ Crash

Spec == Init /\ [][Next]_vars

-----------------------------------------------------------------------------
(***************************************************************************)
(* Properties.                                                             *)
(***************************************************************************)

\* No provider request and no reload is under way.
Settled == \A w \in Procs : pc[w] \notin {"putRow", "list", "install"}

(***************************************************************************)
(* Once the provider requests are answered, ListProviders and the sign-ins *)
(* know only providers that are enabled rows, and know them as they are:   *)
(* a provider that was disabled, deleted or edited is gone from memory.    *)
(* Excepted are a reload that could not list the rows, and rows that       *)
(* changed while another reload held an older list (Reload takes its lock  *)
(* only to store the map).                                                 *)
(***************************************************************************)
ResolvedCurrent ==
    (Settled /\ ~mixed /\ ~lost) =>
        \A i \in Ids : resolved[i] # None => /\ rows[i] = resolved[i]
                                             /\ rows[i].enabled

(***************************************************************************)
(* The state token is single-use (HandleCallback): once a callback with a  *)
(* token has been answered, whatever the answer was, no other callback     *)
(* finds the token, unless its deletion failed.                            *)
(***************************************************************************)
SpentRefused ==
    [][\A w \in Workers : (pc[w] = "idle" /\ pc'[w] = "dropState") =>
        job'[w].token \notin answered \ kept]_vars

(***************************************************************************)
(* Whoever signs in reaches an account that was provisioned for the same   *)
(* issuer, however providers are edited, renamed and deleted meanwhile, as *)
(* long as no name is ever given to a second issuer: the accounts carry    *)
(* the provider's name and not its issuer.                                 *)
(***************************************************************************)
OwnAccount ==
    \A s \in signIns :
        (\A m, n \in named : m[1] = s[1].name /\ n[1] = s[1].name => m[2] = n[2])
            => s[1].origin = s[2]
=============================================================================
