# A TLA+ model of wgRift

wgRift is a web application that manages WireGuard tunnels on one Linux host.
It keeps interfaces, peers, users and sessions in SQLite, writes the conf files
of wg-quick, drives the kernel device, watches who is connected and sends
alerts. This directory holds TLA+ modules of its core, TLC configurations that
check them on small instances, and proofs that TLAPS checks for all instances.

## The system

| Component | State | Operations | Interacts with |
|---|---|---|---|
| WireGuard manager (`internal/wg/manager.go`, `netmanager_linux.go`) | rows `interfaces` and `peers`, `/etc/wireguard/<name>.conf`, kernel device | create, import, adopt, update, delete, sync, start, stop, restart of an interface; add, remove, enable, disable, update of a peer; `SyncAll` at start | store, wg-quick, `wg syncconf`, handlers, poller |
| Connection poller (`internal/server/poller.go`) | snapshots in memory, `connection_logs`, the `notify` channel | seed, poll, kick, cleanup | manager's `GetStatus`, store, alerts |
| Users and sessions (`internal/auth/auth.go`, `handler_auth.go`, `handler_users.go`, `middleware.go`) | `users`, `sessions` | setup, login, logout, validate, create and delete users, change password, clean expired sessions | store, every protected route |
| OIDC sign-in (`internal/auth/oidc.go`, `handler_oidc.go`) | resolved providers in memory, `oidc_providers`, `oidc_states`, `users` | create, update, delete a provider, reload, authorization URL, callback with provisioning | identity provider, store |
| Settings and mail (`handler_settings.go`, `smtp.go`, `handler_email.go`, `alert.go`, `internal/mail`, `ui/web/settings.go`) | `settings`, the form and `smtpEnabled` of each tab | read, write and clear key by key; test, peer e-mail, alert | SMTP server, poller |
| Tunnel addresses (`ui/web/peer_form.go`, `handler_peers.go`, `IsTunnelIPInUse`) | peer rows, the addresses a form was opened with | suggest, check in the form, check in the handler, insert, update | web UI, store |
| Conf files (`internal/confgen`) | none | generate, strip, parse | manager |
| Log pages (`store_logs.go`, `handler_logs.go`) | none | list, compute durations | poller's log |
| Store (`internal/store`) | SQLite file, connection pool | statements, migrations | everything |
| Web UI (`ui/web`) | route, view, intervals, requests under way, forms; session and local storage | session check, sign-in, navigation, fetch, refresh, poll, forms | HTTP API |
| Command line, configuration, encryption, QR codes, demo mode, packaging | files, flags | | |

What is hard here: `net/http` runs every handler in a goroutine of its own and
neither the manager nor the store takes a lock across two statements, so the
statements and commands of all requests, of the poller and of the start-up
goroutines interleave; each external command and each statement may fail; the
process may die between any two of them, and at start the database, the conf
files and the kernel may all disagree; rows are read, changed in memory and
written back whole; one SQLite pragma holds for one pooled connection only; six settings
rows are one value to their readers; and in the browser every answer may arrive
when another view is mounted, another form open or the session gone.
`PROJECT.json` lists these hazards line by line. Where the code lets a hazard
happen no property denies it: the hazard has a note that says which property
excepts it and what is left of it. The property is then about the rest, and is
not counted as a guard against the hazard.

## Modules

| Module | Contents |
|---|---|
| `Reconciler` | what the manager promises of tables, files and devices (abstract) |
| `WgManager` | the manager, its handlers and the poller's row writes |
| `MCWgManager` | symmetry sets for TLC |
| `WgManagerProofs` | theorems about `WgManager`: types, what a request holds, exact syncs |
| `WgManagerSafety` | theorems about `WgManager`: whose peers, which rows, what raises an interface, and that it implements `Reconciler` |
| `Poller` | the poller, `GetStatus` as it uses it, the connection log |
| `MCPoller` | symmetry set for TLC |
| `PollerProofs` | theorems about `Poller` |
| `Auth` | users, sessions, setup, the middleware, provisioning of OIDC users |
| `MCAuth` | symmetry set for TLC |
| `AuthProofs` | theorems about `Auth` |
| `Oidc` | providers in the table and in memory, state tokens, callbacks, accounts |
| `OidcProofs` | theorems about `Oidc` |
| `MCOidc` | the providers an administrator may configure, symmetry |
| `SmtpRegister` | what the mail settings promise: one register (abstract) |
| `Mail` | the six settings rows, their form, and everything that sends mail |
| `MCMail` | settings, edits and address lists for TLC |
| `MailProofs` | theorems about `Mail`, and that it implements `SmtpRegister` |
| `ConfFile` | generating and parsing a configuration file, line by line |
| `Addr` | tunnel addresses: forms, handlers, rows, and the file made of the rows |
| `MCAddr` | subnets, rows and networks for TLC |
| `AddrProofs` | theorems about `Addr` |
| `Web` | a browser tab: session, router, views, intervals, requests, forms |
| `MCWeb` | interfaces and addresses for TLC |
| `WebProofs` | theorems about `Web` |

Definitions named `Mut...` are faulty variants of the definition that follows
them. They are in no specification; replacing a definition by its variant shows
that a property notices the fault.

### WgManager, Reconciler

The state is the three copies of a tunnel's configuration: `ifaces` and `peers`
(database), `conf` (files) and `dev` (kernel). A worker is a goroutine that
serves one request; `pc[w]` is the statement or command it executes next and
`job[w]` its local variables, in particular the rows it read. Every operation of
`Manager` is the path of its steps:

* `SyncInterface`: `SyncGet`, then `SyncDown` for a disabled interface, or
  `SyncList`, `Exists`, and either `SyncConf` and `SaveAfter` or `SaveConf` and
  `SyncUp`. It is the tail of add, remove, enable, disable and update.
* start: `GetIface`, `UpdateIface`, `QuickUp`, with `SyncInterface` as fallback.
  stop: `GetIface`, `QuickDown`, `StopDown` if that failed, `UpdateIface`.
  restart: `QuickDown`, `QuickUp`, no look at the row.
* import and adopt: (`ReadConf`,) `InsertIface`, `ImportPeer` for each peer.
* delete: `GetIface`, `NetDelete`, `DeleteRow` with the cascade if the
  connection enforces foreign keys (`ForeignKeys`, `pooled`).
* a poll of a peer: `PollGet`, `UpdatePeer`.

`DbFault` and the fault branches of the commands are the error paths; `Crash`
may come between any two steps and `BootSync` is `SyncAll`. A configuration is
abstracted to a key, a port (what `wg syncconf` applies), a link value (address,
MTU and hooks: what only wg-quick applies) and a set of peer blocks. wg-quick
and the kernel are external and modelled from how the code uses them.

`Reconciler` is the specification that one request at a time should meet: what
is wanted of each interface (`want`), which ones are enabled (`on`), the file
and the kernel. An `Edit` concerns one interface and switches off only one whose
device is down; `Apply` and `Save` take what is wanted at that instant, `Raise`
is wg-quick, which trusts the file, and `Remove`, `Lower` and `Reboot` take
devices away. `WgManager` implements it (`ReconcilerImplemented`) under the
mapping `want |-> Want`, the configuration `ConfOf` that the rows call for now,
`on |-> On`, `file |-> conf`, `kernel |-> dev`. What is hard in it is time:
`SyncInterface` builds the configuration from an interface row and a list of
peers that it reads in two statements, then looks for the device, and applies it
only after that. That some syncs are missing (a peer added while the interface is
disabled, a failed `SaveConf`) does not contradict it: a step may be left out,
but nothing older than the tables is applied. With two workers it is false:
of two overlapping syncs the older may apply last (`manager.go:123`).

### Poller

`lastState`, `seed` and `notify` are the fields of the Go struct; `status`,
`todo` and `cur` are the locals of `poll`. The step `Visit` writes the log row
of a transition and starts its alert if `ShouldAlert`, `WriteStats` writes the
counters and stores the snapshot. The `alert` of a row is the set of events the
peer has alerts for: `AlertOnConnect` and `AlertOnDisconnect`, and nothing when
`AlertEmails` is empty. `SetAlerts` edits it at any moment; a poll goes by the row
it has read, and `WrittenBack` undoes an edit made since, because `UpdatePeer`
writes every column. `alertFn` is never nil in the server (`server.go:45`).
Handshakes, peers, interfaces and the clock change around it. `alerts`, `lost` and
`born` are history: `alerts` holds the last alert a process started of a peer and
whether it has found the opposite change since.

A page of the log is a query and no step: `Older` is the rest of the log below
it, `Match` the pairing of `computeLogDurations` and `Duration` what the page
shows. `DurationsTrue` looks at every page of the log in every state.

### Auth

`users` and `sessions` are the tables. `ValidateSession` is `GetSession`,
`Judge`, `Touch` or `Drop`, `GetUser`; a handler goes on with the role that
`GetUser` read. Sign-ins are `Count` or `ByName` or `ByIdentity`, `JitName`,
`InsertUser` or `UpdateUser`, and `CreateSession`. Passwords, CSRF tokens,
identity tokens and request bodies are accepted or refused by choice. `before`
records what had ended when a request began; `used` and `born` record the real
times of a session, whatever the table says.

### Oidc

`rows`, `states` and `accounts` are tables, `resolved` and `ready` the fields of
`OIDCService`, `asked` and `codes` what browser and identity providers remember
(external). A provider request is `Create`, `GetRow` and `PutRow`, or
`DeleteRow`, followed by `Reload`: `List`, then `Install`, with discovery as a
choice of the rows that fail. The goroutine `Boot` starts with a `Reload`. A
sign-in is `Lookup` and `PutState`; the callback is `GetState`, `DropState`
(whose error the code drops), `Check`, `Exchange`, `FindAccount`, `Provision`.
The browser may come back with any token and any code, used or not.

### Mail, SmtpRegister

`table` holds the six rows, `config` the section of the configuration file.
`Put` and `Clear` write the next row of a request, `Read` reads the next row of
a sender or of the page; a failed read counts as an empty value, as in the code.
`Send` mails the next address. The form of a tab is filled by the answer of its
load (`Prefill`), edited and sent back whole (`Save`). A stored or configured
password that cannot be deciphered makes `Use` end without mail.

`SmtpRegister` is the specification the six rows should meet: a register that is
disturbed, committed and read. `Mail` implements it under the mapping
`agreed |-> Effective(agreed)`, `view |-> job[p].view`, where the history
`agreed` is what the last complete request asked for and `view` what was agreed
when a reader began. Both are `Torn` once nothing is promised: after a request
that failed half way or met another, and for a reader that a writer met.

### ConfFile, Addr

A file is a sequence of lines; `ServerConf` writes it and `ParseConfig` folds
`ParseLine` over it. `Addr` has the interface's row and the peers' rows, and per
tab a form with the addresses that were taken when it was opened (`used`) and
the row it was opened for (`was`). `Submit` is the check in the form, `GetPeer`
and `Check` the reads of the handler, `Insert` and `Write` the statement after
them, `CheckMove` and `Move` the two halves of an interface update. `Network`,
`Plus`, `NextAvailable` and `Available` are the arithmetic of the form over
addresses of two bytes with `ByteBase` values each, without a carry as in the
code. `InUse` is one step for the two queries of `IsTunnelIPInUse`; what is
written between them is written by a request that meets this one, which `Unique`
excepts. The numbers in a file are numbers, as in every generated one, so
`ParseConfig` leaves out the errors of `Atoi` (`parse.go:110`).

### Web

The program in the browser is one thread of callbacks, so an action is a whole
callback. The package variables (`route`, `handle`, `dash`, `selected`, `logs`,
`current`, `editing`, ...) survive a refresh; the mounted `view` does not, which
is what `mountRoute` does and `Mounted` says. `ticking` holds the intervals that
really run and `handle` those whose variable is set, so an interval whose
variable is overwritten stays visible. `calls` is the bag of requests under way;
`own` tells whether the view that asked is still mounted. `Answer`, `Fail`,
`Denied` and `SignedOut` are the ends of a request; the list of interfaces shows
its form even when its rows could not be loaded. `Start`, `Setup`, `Login`,
`ToProvider`, `FromProvider` are the way in; `path`, `saved` and `celebrated`
are the address bar and the two storages.

## Runs

Every run gives sets of a few model values and the bounds below;
`CHECK_DEADLOCK FALSE` because the bounds on requests, crashes and time end
every behaviour.

| Run | Question | Bounds, and why they suffice |
|---|---|---|
| `wg_serial` | Does the manager implement `Reconciler`, does the cascade hold, do peers stay on their interface, who raises a disabled interface, under failures and a restart? | 1 worker, 2 interfaces, 2 peers, 4 requests, 1 crash, all faults: create both, add a peer, then any request |
| `wg_races` | Is an undisturbed sync exact, and does no stale write bring a row back, when two requests interleave and statements and commands fail? | 2 workers, 1 interface, 2 peers, 2 ports, 4 requests, all faults: create, add, and any two requests against each other |
| `wg_boot` | Does `SyncAll` restore every enabled interface? | no faults, 4 requests, 2 crashes, with or without a reboot, a preset interface to adopt |
| `poll_log` | Does the log alternate, is no alert repeated before the opposite change, and are the durations on every page true? | 1 peer (snapshots and rows of different peers do not meet), with an alert of connections or of both and edits between the two, threshold 2, retention 1, 4 instants, 3 events, 1 crash, failing statements, cascade on or off. One counter value: that counters are written back between the alerts is left to `poll_live` and to the proof |
| `poll_live` | Is a lost peer noticed, are old rows deleted, is a kick served? | 1 peer without alerts, two transfer counters, 4 instants, 1 event, 1 crash, no failing statements |
| `auth_admin` | Does an administrator remain, is setup done once, whatever other requests do between the check and the write? | 2 workers, all operations, 3 users, 2 sessions, 2 names, 4 requests, 1 crash, failing statements, no time: set up, sign a second administrator in, and a deletion against any other request |
| `auth_races` | Are deleted users, ended and overdue sessions refused? | 2 workers, 2 users, 2 sessions, 4 requests, 4 instants, timeout 1, age 2, cascade on or off |
| `oidc` | Are the providers in memory the enabled rows, is a token used once, does everybody reach an account of their own issuer? | 2 workers and the boot goroutine, 2 provider ids, 2 issuers, 2 tokens, 2 codes, 3 requests, 1 crash, failing statements: any two provider requests against a reload, or a change between the halves of a sign-in. Discovery always succeeds: a row it drops is only missing from memory |
| `mail` | Do the six rows behave like one register, does a removal hold, does an edit keep the rest, is every address tried? | 2 tabs and the alert goroutine, 3 requests, 1 failure, with and without configuration file and stored settings: load, save and a reader or second writer in between |
| `addr` | Are addresses unique, suggestions right, edits harmless, and does the file read back? | 2 tabs, 2 submitted requests and any deletions, up to 3 rows, subnets of 1, 2, 4 and 8 addresses, one of them across a byte of base 4 |
| `web` | Does one interval run, does a sign-in return, do drafts survive, does the log page settle? | 2 clicks, 2 requests under way, 1 failure, 1 expired session, 2 interfaces, 8 addresses: a click or an answer meets one request of an earlier view |

The run `wg_v_start` shows that the code does not do what a comment in it says
(the quoted line is under "findings" in `PROJECT.json`): a peer removed while
its interface is stopped is back in the kernel after the next start, because
`SyncInterface` does not write the conf file of a disabled interface and start
uses that file.

The models have further behaviours of the code that a maintainer may not expect,
and the properties except them by name instead of hiding them:

* Two overlapping requests leave a removed peer in the kernel when the older
  peer list is applied last (`manager.go:123`): `SyncExact` speaks of
  undisturbed syncs.
* A poll that read a peer before it was disabled enables it again
  (`poller.go:205`): `NoResurrection` speaks of deleted rows.
* A peer with one kind of alert gets the same one every time it connects, or
  leaves (`poller.go:181`): `AlertsAlternate` asks only that the opposite change
  was found in between.
* A log row that cannot be written is skipped (`poller.go:176`): `LogAlternates`
  and `DurationsTrue` except that peer in that process.
* Two deletions at once may leave no administrator (`handler_users.go:116`), two
  setups at once may make two (`auth.go:161`): `AdminRemains` and `SetupOnce`
  except these pairs and nothing else but a demotion by the provider.
* Two requests, or an import, may take one address (`store.go:330`,
  `manager.go:595`): `Unique` excepts requests that meet.
* Interrupted or overlapping writers of the mail settings leave a mixture
  (`handler_settings.go:308`), and so do failed reads (`smtp.go:12`):
  `RegisterImplemented` promises nothing then.
* A session that was touched after it was read may be dropped by the older copy
  (`auth.go:110`): `JudgedInTime` speaks of sessions that are accepted.
* An import with a peer fails on the `type` check of migration 008 and leaves
  the interface without its peers (`manager.go:607`).
* A peer that is connected at its first poll gets neither a log row nor an alert
  (`poller.go:161`).
* Two reloads at once: the older list may be installed last (`oidc.go:60`), so
  `ResolvedCurrent` excepts rows that changed meanwhile.
* An account belongs to a provider's name: when a name moves to another issuer
  its subjects reach the accounts made before (`oidc.go:240`), so `OwnAccount`
  excepts names that had two issuers.
* Saving the mail form over settings of the configuration file loses the
  password (`EditKeepsRest`).
* An edit of a peer clears its endpoint and turns a keepalive of zero into 25,
  and a field that is empty in the form takes what the handler reads, which may
  be a value that came while the form was open (`EditKeepsRow`); a peer without a name takes the name written above its
  successor (`ConfRoundTrip`).
* A path saved before a visit to the dashboard wins at the next sign-in
  (`RedirectKept`); a first load of the log page that fails is never repeated
  (`LogsSettle`); the configuration page may lose its interval to a late answer
  (`TimerOfView`).

### Fairness

`WgManager!FairSpec`: a handler that runs goes on, and `runServe` goes on with
`SyncAll`; requests need not arrive. `Poller!FairSpec`: weak fairness for the
steps of a poll, and strong fairness for the kick and the cleanup cases of the
`select`, because Go chooses among ready cases with equal probability and both
are ready again and again. The poll ticker is not assumed; `DisconnectNoticed`
has it as a hypothesis.

`Web!Spec`: weak fairness of the deferred mount, of the intervals and of the
answers, because the browser runs its timers and a request is aborted after ten
seconds. Clicks, failures and expiry are not fair. `LogsSettle` uses it.

## Proofs

`WgManagerProofs` proves, for all sets of workers, interfaces, peers, keys and
operations, all bounds and all combinations of faults:

* `TypeOKCorrect`: `Spec => []TypeOK`. The inductive invariant is `Inv1`, which
  adds what the local variables of a request hold at each of its steps
  (`Locals`): a step may use the row or the parameters an earlier step read.
* `SyncExactCorrect`: `Spec => []SyncExact`. `SyncExact` speaks of the end of a
  request; the inductive invariant follows an undisturbed request through
  `SyncInterface` and says at each label which of database, conf file and device
  already agree with what it holds. A step of another worker either changes
  nothing or marks the request as touched.

`WgManagerSafety` goes on from `Inv1`:

* `PeersStayHomeCorrect`: `Spec => []PeersStayHome`. `HomeInv` adds that rows
  (`RowsHome`) and what a request has read or is about to apply (`HomeOf`) name,
  for each peer, the interface its id was generated for. Without that last part
  the invariant is not inductive: a conf file is written from what `SyncList`
  read several steps before.
* `NoOrphansUnsharedCorrect`: `OrphanInv` adds that a process with a second
  connection, where foreign keys may be off, is one that the history records
  (`pooled => shared`). An insert of a peer checks the interface, a delete cascades; a row
  written back keeps its interface by `HomeInv`.
* `NoResurrectionCorrect`: every statement but an `INSERT` leaves a row absent
  that is absent (`AbsentAdvance`), and an `INSERT` moves `pc` (`InsertMoves`).
* `OnlyRestartRaisesDisabledCorrect`, under the hypothesis that there is one
  worker (`\A v, w \in Workers : v = w`), without which it is false: two
  handlers may each start and stop an interface. `SerialOf` says that the row a
  request holds is the row that is stored, that a sync past its look at the row
  runs on an enabled interface, and that a stop which is about to store
  `enabled = false` has taken the device down before. It is inductive
  (`Serial`, `SerialNext`).
* `ReconcilerImplementedCorrect`: `Spec => ReconcilerImplemented`, the refinement
  of `Reconciler`, under the same hypothesis, which again it needs. `ReconInit`
  maps the initial states and `AdvanceReconciles`, `CrashReconciles` and
  `ReconStutter` every step to a step or a stutter. Most of what it needs is
  there: with one worker no request is ever touched (`Untouched`), so `SyncInv`
  says at every step that the configuration in hand is what the rows call for
  (`SyncReconciles`); `Serial` says what a stop has done before it writes the row
  (`RowsReconcile`); and `HomeInv` that a write of a peer's row concerns one
  interface (`PeersReconcile`).

They rest on the assumptions in `WgManager` that `None` is no row, that the
preset interfaces are interfaces and that the bounds are naturals.

`PollerProofs` proves, for any peers, interfaces, counters, thresholds and
retention, with failing statements, cascades, cleanups and restarts:

* `TypeOKCorrect`, from `Inv`: the types and that `WriteStats` has a status of the
  peer it writes (`Visiting`).
* `AlertsAlternateCorrect` and `LogAlternatesCorrect`. The goroutine decides by
  its snapshot, so the invariants `AlertInv` and `LastRowInv` say that what it
  holds of a peer (`LastSeen`, with the transition under way between `Visit` and
  `WriteStats`) is the last change found of it in this process, which is the last
  alert unless the opposite was found since, and is what its last row says, and
  `Ordered` that the log is in the order of its times.
* `DurationsTrueCorrect`, from the same: on every page of every log the row that
  `computeLogDurations` pairs with a disconnect is the connect row before it.

A cleanup or a cascade deletes rows anywhere in the log. `Kept`, a recursive
function over the places of the log, says what is left; `KeptFacts` proves that
it keeps the order and exactly the rows to be kept. The induction is over sets
of numbers (`SetInduction`, from the library's facts on well-founded relations),
since the induction theorems that take an operator cannot be instantiated here.
The proofs rest on `TimesAssumption`, `RxAssumption`, `ChoicesAssumption` and
`NoneAssumption` in `Poller`: bounds and counters are naturals, a counter may be
zero, and `None` is no row, status or snapshot.

`MailProofs` proves, for any tabs, senders, values, edits and address lists:

* `TypeOKCorrect`, and `RemovalHoldsCorrect` from `Inv`. Its parts: what is agreed
  is in the table when nobody writes (`Agreed`), an undisturbed writer is alone
  (`Alone`) and has written or cleared its keys up to the next one (`Puts`,
  `Clears`), a reader that met no writer has read the agreed values up to the next
  one (`Reads`, `Sends`), no reader
  is promised anything while nothing is agreed (`Unseen`), and after a
  removal there is no host and no save under way (`Removed`).
* `RegisterImplementedCorrect`: `Spec => RegisterImplemented`, the refinement. The
  arrival of a request that writes maps to the disturbance of the register, its
  last statement to the commit, the start of a reader to a read; every other
  step is a stutter (`RegisterBegin`, `RegisterDisturb`, `RegisterWrite`,
  `RegisterStep`).
* `EditKeepsRestCorrect`, from `FormInv`: a form shows what was agreed when it was
  loaded (`Forms`), and a save in progress has a host (`Saved`).
* `EveryAddressTriedCorrect`, from `AlertLists`: the addresses tried and those left
  are the whole list at every step of the alert.

They rest on the assumptions in `Mail`: a form has fields of the six keys
(`FormsAssumption`), lists are sequences of addresses (`ListsAssumption`), the
alert goroutine is no tab, and `None` and `Torn` are no settings.

`AddrProofs` proves, for any tabs, subnets, names, networks and base of a byte, and
whatever rows the database has at the start:

* `TypeOKCorrect`, from `Inv`: the types, one row for each id (`Keyed`), and what a
  form and a handler hold at each step (`Held`). A suggestion is a least number
  of its kind (`LeastNumber`), so that it is an address or none.
* `UniqueCorrect`, from `FreeInv`: while no two requests met, the address that a
  request checked is still free at its write (`Free`). The form's own check is not
  needed, nor how old the form is.
* `EditKeepsRowCorrect`, from `EditInv`: a form shows the row it was opened for
  (`Shows`), and a handler merges it into the row it reads (`Takes`). The proof
  found a case that two tabs do not reach: with three tabs, a field that is
  empty in the form and in the row takes a value that another edit stored while
  the form was open and a third one cleared. The property now excepts it.
* `SuggestsLowestFreeCorrect`: a new form suggests the lowest free address or
  none, and the count of free addresses is right. The code adds offsets byte by
  byte and drops the carry; `NoCarry` shows that none is lost, because a subnet
  starts at a multiple of its size (`Aligned`). From it follow the interval of
  hosts (`HostInterval`), the search (`LowestFree`) and the count (`CountsFree`).
* `ConfRoundTripCorrect`: the file of the rows reads back as the interface and
  the peers. `ParsedStates` is the induction over the lines: it turns the fold of
  `ParseConfig` into the parser's state after each line, and `ParsedAppend` adds
  one line. `SetInduction` derives it from the least number of a set, because no
  theorem of the library with an operator as parameter can be used. On it rest the
  sections: `IfaceParsed` for `[Interface]` with any number of hooks
  (`HooksParsed`), `PeerParsed` for one peer, whichever of its settings are there,
  and `SectionsParsed` for all of them. `Named` is what a name above a section
  needs: the peer before it, which the parser still has open, has a name of its
  own. `Readable` says so of the rows, and is what `Misread` excepts.

They rest on the assumptions in `Addr`: the stored rows at the start have ids of
their own (`ExistingAssumption`), networks are lists of addresses, `None` is no
address, name or row and not the key of the interface, hooks are a list of commands
(`HooksAssumption`), bounds are naturals, and a subnet has a size that a prefix
length can give (`SizeAssumption`): it divides a byte, or is made of whole bytes
and divides the address space.

`WebProofs` proves, for any list of interfaces, any addresses and any bounds:

* `TypeOKCorrect` and `TimerOfViewCorrect`, from `Inv`, that is `Tab` and `Types`.
  `Tab` says of the package variables as one record (`Rec`): the intervals
  that run are those whose variable is set, and only the mounted view's is
  (`Timers`); a request that a mounted view waits for is of a kind its page sends
  (`Asked`); a mount that waits, and a delete whose answer leads to one, stem from
  something the user did. A mount restores `Rec` from `Timers` alone
  (`MountedRec`), because it disowns every request.
* `DraftKeptCorrect`, from the same invariant: an interface's page with an open form
  waits for at most the status it is loaded with, and for none afterwards
  (`Drafted`), since its interval skips during edits; and what is typed is in an
  open form unless the page is being left (`Held`).
* `RedirectKeptCorrect`, from `Way`: as long as a page is wanted the tab is on its
  way to a sign in, and the page is in the storage or with the provider.

The requests under way are a bag, so the lemmas begin with what adding, taking
out and disowning a request does to the number of its copies (`MoreCalls`,
`LessCalls`, `DisownedCalls`). The theorems rest on `WebAssumption`: the addresses
are routes, there is an interface, and `None` is none of them.

`AuthProofs` proves, for any number of users, sessions, names and concurrent
requests, any timeouts, with or without failures and the cascade:

* `TypeOKCorrect`, from `Inv1`: the types and, again, what the local variables of
  a request hold at each of its steps.
* `DeletedUsersRefusedCorrect`, `EndedSessionsRefusedCorrect` and
  `JudgedInTimeCorrect`, from `Inv2`. Its parts: an id that had ended when a
  request began never gets a row again (`EndedStay`; a touch is an `UPDATE`, and
  new ids are fresh), a request past the lookup holds a session or a caller that
  had not ended (`Sane`), and a row of a session, in the table or as read
  earlier, is never younger than the last real use (`Rows`, `RowOf`). `Grows`
  says what a step of any worker does to the past, so that the requests of the
  others keep their part.
* `AdminRemainsCorrect` and `SetupOnceCorrect`, from `Inv3`, a rely-guarantee
  argument: `Rely` says what a request may count on at each step, `Leaves` what the
  step of one request leaves to all others, and `OthersRely` that this is enough.
  The caller about to delete still is an administrator other than the target,
  because ids are not used again, roles are taken away by a provider only, and no
  other deletion is under way (`Alone`); the setup about to insert still finds no
  initial user, because nobody else inserts one; and a row written back has the
  role and the mark of the row it replaces.

They rest on the assumptions in `Auth` that `None` is no row, id or time and
that timeouts and bounds are naturals.

`OidcProofs` proves, for any number of goroutines, providers, tokens and codes,
with any failures and restarts:

* `TypeOKCorrect`, from `Inv1`: the types, what a request's local variables hold
  at each step, and that every token born has an issuer it was sent to.
* `SpentRefusedCorrect`, from `Inv2`: a token is `Spent` (gone from the table or
  its deletion failed) from the deletion of its callback on, so it is when the
  callback is answered; a spent token stays spent because new tokens are fresh.
  Only `GetState` takes a token up, and it takes one that is in the table.
* `ResolvedCurrentCorrect`, from `Inv3`: without overlap a list about to be
  installed is that of the rows (`ListFresh`), and as long as no reload is under
  way the map agrees with the rows (`MapCurrent`).
* `OwnAccountCorrect`, from `Inv4`: rows, lists, map, accounts and sign-ins carry
  a provider's name only with an issuer that it was once configured for, and
  after the exchange the code's issuer is that of the provider in hand.

They rest on the assumptions in `Oidc` that `None` is no row, code or token, that
the offers are providers and that the bounds are naturals.

Only model-checked:

* `BootRestores`, `DisconnectNoticed`, `ExpiredLogsGo`, `KickServed` and
  `LogsSettle`: liveness, for which the prover has neither fairness nor
  `ENABLED`.

## Not modelled

* Encryption, QR codes, message texts and the SMTP dialogue: computation or I/O
  without protocol state.
* The migration runner, the command line and the YAML file: run alone before the
  server listens.
* The external URL setting, one row written by one statement; rendering, layout
  and animation of the web interface.
* The demo mode, packaging and deployment.
* A conf file truncated by a crash inside one write is not a value of `conf`.
* The order in which alert goroutines deliver their mail; the order in which they
  are started is inside the model.
* IPv6 tunnel addresses, which `nextAvailableIP` does not handle.
* `CleanExpiredStates`, which nothing calls.

## Plan

The settings page's provider forms in `Web`, with two tabs.
