-------------------------------- MODULE Web ---------------------------------
(***************************************************************************)
(* A tab of the web interface (ui/web): the session check before the start *)
(* (state.go, main.go), the login and setup pages, the router, the fetch   *)
(* wrapper and the views with their polling, their requests and their      *)
(* forms.                                                                  *)
(*                                                                         *)
(* The program is one thread of callbacks: an action is a click, a timer   *)
(* or the answer to a request, and runs to its end.  What interleaves is   *)
(* the order in which answers arrive while the user moves on.  Every view  *)
(* is mounted anew whenever its route is refreshed; package variables      *)
(* survive that, signals and what was typed do not.                        *)
(***************************************************************************)
EXTENDS Naturals, Sequences, FiniteSets, Bags

CONSTANTS
    Ifaces,       \* the interfaces, in the order the server lists them
    Paths,        \* the addresses the user goes to: [page, id]
    Entries,      \* the ones the tab is opened with
    None,         \* nothing, nil, the empty string
    MaxActs,      \* bound on what the user does
    MaxCalls,     \* bound on the requests under way
    MaxFails,     \* bound on requests that fail or are denied
    MaxExpiries   \* bound on sessions that expire

IfaceSet == {Ifaces[n] : n \in 1..Len(Ifaces)}
\* "new" is the list of interfaces with ?action=create.
Pages == {"dashboard", "interfaces", "new", "detail", "config", "logs", "users"}
Path == [page: Pages, id: IfaceSet \cup {None}]
Home == [page |-> "dashboard", id |-> None]
List == [page |-> "interfaces", id |-> None]
LogsOf(i) == [page |-> "logs", id |-> i]
\* The route of an address has no query string.
RouteOf(p) == IF p.page = "new" THEN List ELSE p

ASSUME WebAssumption == /\ Paths \subseteq Path /\ Entries \subseteq Paths
                        /\ Ifaces \in Seq(IfaceSet) /\ Len(Ifaces) > 0
                        /\ None \notin IfaceSet /\ None \notin Path
                        /\ {MaxActs, MaxCalls, MaxFails, MaxExpiries} \subseteq Nat

\* The views that poll, and the ones that have a form.
Polling == {"dashboard", "detail", "logs", "config"}
Forms   == {"interfaces", "detail", "users"}

\* What a request was made for.  own says that the view that is mounted made it.
Kinds == {"dash", "ifaces", "logs", "status", "page", "check", "act", "clear", "save",
          "delete", "logout", "alive"}
Call == [kind: Kinds, id: IfaceSet \cup Forms \cup {None}, own: BOOLEAN]

VARIABLES
    \* the server and the browser
    session,   \* the cookie's session is valid
    fresh,     \* there is no user yet
    path,      \* the address bar
    saved,     \* sessionStorage: the path to return to
    celebrated,\* localStorage: interfaces whose peer was seen to connect
    \* the page that is loaded
    screen,    \* "load", "setup", "login", "idp" (at the provider) or "app"
    ways,      \* the login page knows the ways to sign in
    bound,     \* where the provider's answer leads
    \* package variables
    route, pending,                \* currentRoute; mounts waiting for setTimeout
    view,                          \* the mounted view
    handle, ticking,               \* the interval variables; the intervals that run
    dash,                          \* cachedDashboard is set
    ifaces, selected, logs,        \* cachedLogsIfaces is set, cachedLogsIface, cachedLogs
    current, editing,              \* detailCurrentID; the forms that are open
    calls,                         \* a bag: the requests under way
    \* history and bounds
    want,      \* the page the user was on when the session was found lost
    acts, fails, expiries

server  == <<session, fresh>>
browser == <<path, saved, celebrated>>
entry   == <<screen, ways, bound>>
pkg     == <<route, pending, view, handle, ticking, dash, ifaces, selected, logs, current,
             editing, calls>>
bounds  == <<acts, fails, expiries>>
vars    == <<server, browser, entry, pkg, want, bounds>>

NoView == [at |-> None, loaded |-> FALSE, typed |-> FALSE]

TypeOK ==
    /\ {session, fresh, ways, dash, ifaces} \subseteq BOOLEAN
    /\ path \in Path /\ route \in Path
    /\ {saved, bound, want} \subseteq Path \cup {None}
    /\ screen \in {"load", "setup", "login", "idp", "app"}
    /\ pending \in 0..(MaxActs + 1)
    /\ view \in [at: Path \cup {None}, loaded: BOOLEAN, typed: BOOLEAN]
    /\ handle \subseteq Polling
    /\ ticking \subseteq [page: Polling, own: BOOLEAN]
    /\ {selected, logs, current} \subseteq IfaceSet \cup {None}
    /\ editing \subseteq Forms /\ celebrated \subseteq IfaceSet
    /\ IsABag(calls) /\ BagToSet(calls) \subseteq Call
    /\ acts \in 0..MaxActs /\ fails \in 0..MaxFails /\ expiries \in 0..MaxExpiries

-----------------------------------------------------------------------------
(***************************************************************************)
(* Loading a page: the program starts anew, only the browser's storage and *)
(* its address bar are left.                                               *)
(***************************************************************************)

\* The package variables of a program that has not started.
Blank(p) ==
    /\ route' = p /\ pending' = 0 /\ view' = NoView
    /\ handle' = {} /\ ticking' = {}
    /\ dash' = FALSE /\ ifaces' = FALSE /\ selected' = None /\ logs' = None
    /\ current' = None /\ editing' = {} /\ calls' = EmptyBag

Load(p) == /\ path' = p /\ screen' = "load" /\ ways' = FALSE /\ bound' = None
           /\ Blank(RouteOf(p))

\* Mutant of SavePath: a path that is there already is kept.
MutSavePath(p) == IF p = Home \/ saved # None THEN saved ELSE p
\* saveRedirectPath; the dashboard is not worth saving.
SavePath(p) == IF p = Home THEN saved ELSE p

Init ==
    /\ session \in BOOLEAN /\ fresh \in BOOLEAN /\ (session => ~fresh)
    /\ path \in Entries /\ saved = None /\ celebrated = {}
    /\ screen = "load" /\ ways = FALSE /\ bound = None
    /\ route = RouteOf(path) /\ pending = 0 /\ view = NoView
    /\ handle = {} /\ ticking = {}
    /\ dash = FALSE /\ ifaces = FALSE /\ selected = None /\ logs = None
    /\ current = None /\ editing = {} /\ calls = EmptyBag
    /\ want = None /\ acts = 0 /\ fails = 0 /\ expiries = 0

\* checkSessionPreload and App.  Three attempts that fail count as one; the
\* login page then offers no way to sign in.
Start(ok) ==
    /\ screen = "load"
    /\ ok \/ fails < MaxFails
    /\ fails' = IF ok THEN fails ELSE fails + 1
    /\ screen' = IF ok /\ fresh THEN "setup" ELSE IF ok /\ session THEN "app" ELSE "login"
    /\ ways' = (ok /\ ~fresh /\ ~session)
    /\ saved' = IF screen' = "login" THEN SavePath(path) ELSE saved
    /\ pending' = IF screen' = "app" THEN 1 ELSE 0
    /\ UNCHANGED <<server, path, celebrated, bound, route, view, handle, ticking, dash,
                   ifaces, selected, logs, current, editing, calls, want, acts, expiries>>

\* The user reloads the page, or types an address.
Open(p) ==
    /\ acts < MaxActs /\ acts' = acts + 1
    /\ screen \in {"login", "idp", "app"}
    /\ screen # "app" => p = path
    /\ Load(p)
    /\ UNCHANGED <<server, saved, celebrated, want, fails, expiries>>

\* doSetup.
Setup ==
    /\ screen = "setup"
    /\ session' = TRUE /\ fresh' = FALSE
    /\ Load(path)
    /\ UNCHANGED <<saved, celebrated, want, bounds>>

\* doLogin, with the right password.
Login ==
    /\ screen = "login" /\ ways
    /\ session' = TRUE /\ saved' = None /\ want' = None
    /\ Load(IF saved # None THEN saved ELSE path)
    /\ UNCHANGED <<fresh, celebrated, bounds>>

\* A button of an OIDC provider takes the saved path along.
ToProvider ==
    /\ screen = "login" /\ ways
    /\ screen' = "idp" /\ bound' = saved /\ saved' = None
    /\ UNCHANGED <<server, path, celebrated, ways, pkg, want, bounds>>

\* handleOIDCCallback: a failure leads to the dashboard's address.
FromProvider(ok) ==
    /\ screen = "idp"
    /\ ok \/ fails < MaxFails
    /\ fails' = IF ok THEN fails ELSE fails + 1
    /\ session' = (session \/ ok)
    /\ want' = None
    /\ Load(IF ok /\ bound # None THEN bound ELSE Home)
    /\ UNCHANGED <<fresh, saved, celebrated, acts, expiries>>

Expire ==
    /\ session /\ expiries < MaxExpiries
    /\ session' = FALSE /\ expiries' = expiries + 1
    /\ UNCHANGED <<fresh, browser, entry, pkg, want, acts, fails>>

-----------------------------------------------------------------------------
(***************************************************************************)
(* Views.  A step that mounts one computes the package variables as a      *)
(* record: answers change some of them before the mount.                   *)
(***************************************************************************)
State == [path |-> path, view |-> view, handle |-> handle, ticking |-> ticking,
          dash |-> dash, ifaces |-> ifaces, selected |-> selected, logs |-> logs,
          current |-> current, editing |-> editing, calls |-> calls,
          celebrated |-> celebrated]
Put(s) == /\ path' = s.path /\ view' = s.view /\ handle' = s.handle
          /\ ticking' = s.ticking /\ dash' = s.dash /\ ifaces' = s.ifaces
          /\ selected' = s.selected /\ logs' = s.logs /\ current' = s.current
          /\ editing' = s.editing /\ calls' = s.calls /\ celebrated' = s.celebrated

\* apiFetch: the request leaves.
Ask(s, kind, id, own) ==
    [s EXCEPT !.calls = @ (+) SetToBag({[kind |-> kind, id |-> id, own |-> own]})]
Room == BagCardinality(calls) < MaxCalls

\* Mutant of StopPolling: the interval of the configuration page is forgotten.
MutStopPolling(s) == [s EXCEPT !.ticking = {x \in @ : x.page \notin s.handle \ {"config"}},
                               !.handle = @ \cap {"config"}]
\* stopPolling: the intervals the four variables hold.
StopPolling(s) == [s EXCEPT !.ticking = {x \in @ : x.page \notin s.handle}, !.handle = {}]

\* setInterval, after the view has cleared what its variable held.
SetInterval(s, page) ==
    [s EXCEPT !.ticking = (IF page \in s.handle THEN {x \in @ : x.page # page} ELSE @)
                              \cup {[page |-> page, own |-> TRUE]},
              !.handle = @ \cup {page}]

DashboardView(s) == IF s.dash THEN s ELSE Ask(s, "dash", None, TRUE)

\* The form may be asked for in the address.
InterfacesView(s) ==
    Ask(IF s.path.page = "new" THEN [s EXCEPT !.editing = @ \cup {"interfaces"}] ELSE s,
        "page", None, TRUE)

UsersView(s) == Ask(s, "page", None, TRUE)

\* The forms are closed when another interface is shown.
DetailView(s, id) ==
    Ask(IF id = s.current THEN s
        ELSE [s EXCEPT !.editing = @ \ {"detail"}, !.current = id],
        "status", id, TRUE)

\* Nothing is polled for a peer that was celebrated.
ConfigView(s, id) ==
    LET t == Ask(s, "page", id, TRUE)
    IN IF id \in s.celebrated THEN t ELSE SetInterval(Ask(t, "check", id, TRUE), "config")

\* The first load, a route to another interface, or the cached rows.
LogsView(s, id) ==
    IF ~s.ifaces THEN Ask(s, "ifaces", id, TRUE)
    ELSE IF id \notin {None, s.selected}
    THEN Ask([s EXCEPT !.selected = id, !.logs = None], "logs", id, TRUE)
    ELSE [s EXCEPT !.view.loaded = TRUE]

\* How often a request is under way.
Copies(b, c) == IF c \in BagToSet(b) THEN b[c] ELSE 0
\* The requests under way when their view is gone.
Disowned(b) == [c \in {[d EXCEPT !.own = FALSE] : d \in BagToSet(b)} |->
                    Copies(b, c) + Copies(b, [c EXCEPT !.own = TRUE])]

\* mountRoute: everything of the old view is dropped, its requests are not.
Mounted(s0, r) ==
    LET t == [StopPolling(s0) EXCEPT
                !.view  = [at |-> r, loaded |-> FALSE, typed |-> FALSE],
                !.calls = Disowned(@),
                !.ticking = {[x EXCEPT !.own = FALSE] : x \in @}]
        s == IF r.page \in Polling \ {"config"} THEN SetInterval(t, r.page) ELSE t
    IN CASE r.page = "dashboard"  -> DashboardView(s)
         [] r.page = "interfaces" -> InterfacesView(s)
         [] r.page = "detail"     -> DetailView(s, r.id)
         [] r.page = "config"     -> ConfigView(s, r.id)
         [] r.page = "logs"       -> LogsView(s, r.id)
         [] r.page = "users"      -> UsersView(s)

Refresh(s) == Put(Mounted(s, route)) /\ UNCHANGED <<route, pending>>

\* The timeout of Router's effect.
Mount ==
    /\ screen = "app" /\ pending > 0
    /\ pending' = pending - 1 /\ Put(Mounted(State, route))
    /\ UNCHANGED <<server, saved, entry, route, want, bounds>>

\* setRoute: Router's effect schedules a mount when the route is another one.
SetRoute(s, r) == /\ route' = r /\ pending' = IF r = route THEN pending ELSE pending + 1
                  /\ Put(s)
\* navigate.
Navigate(s, p) ==
    LET s1 == [s EXCEPT !.path = p]
    IN IF RouteOf(p) = route THEN Refresh(s1) ELSE SetRoute(s1, RouteOf(p))

-----------------------------------------------------------------------------
(***************************************************************************)
(* What the user does.                                                     *)
(***************************************************************************)
Act == /\ screen = "app" /\ acts < MaxActs /\ acts' = acts + 1
       /\ UNCHANGED <<server, saved, entry, want, fails, expiries>>
On(pages) == view.at # None /\ view.at.page \in pages

\* The navigation, and the links of the views.  The way back from an interface
\* closes its forms, the navigation does not.
Go(p) ==
    /\ Act /\ (p.page = "logs" => p.id = None)
    /\ \/ Navigate(State, p)
       \/ /\ On({"detail"}) /\ p = List
          /\ Navigate([State EXCEPT !.editing = @ \ {"detail"}], p)

\* The browser's back and forward buttons.
PopState(p) == Act /\ SetRoute([State EXCEPT !.path = p], RouteOf(p))

\* The buttons that open a form, also in place of another one, and close it.
Toggle ==
    /\ Act /\ On(Forms)
    /\ LET page == view.at.page
       IN \E e \in SUBSET {page} :
            /\ page \in editing \/ e = {page}
            /\ Refresh([State EXCEPT !.editing = (@ \ {page}) \cup e,
                                     !.path = IF page = "interfaces" THEN List ELSE @])

Showing == On(Forms) /\ view.at.page \in editing /\ (view.loaded \/ On({"users"}))
Type ==
    /\ screen = "app" /\ Showing /\ ~view.typed
    /\ view' = [view EXCEPT !.typed = TRUE]
    /\ UNCHANGED <<server, browser, entry, route, pending, handle, ticking, dash, ifaces,
                   selected, logs, current, editing, calls, want, bounds>>

\* The selector of the log page.
Select(i) ==
    /\ Act /\ On({"logs"}) /\ view.loaded
    /\ Refresh([State EXCEPT !.selected = i, !.logs = None, !.path = LogsOf(i)])

\* Buttons that send a request: start, stop and restart ("act"), sync and the
\* buttons of a peer or a user ("clear"), delete, sign out.
Press(kind) ==
    /\ Act /\ Room
    /\ kind = "act" => On({"dashboard", "detail"})
    /\ kind = "clear" => On({"detail", "users"})
    /\ kind = "delete" => On({"detail"})
    /\ Put(Ask(State, kind, IF kind = "clear" THEN view.at.page ELSE None, TRUE))
    /\ UNCHANGED <<route, pending>>

\* The button of a form.
SaveForm ==
    /\ Act /\ Room /\ Showing
    /\ Put(Ask(State, "save", view.at.page, TRUE)) /\ UNCHANGED <<route, pending>>

\* startSessionWatch: the tab becomes visible again.
Visible ==
    /\ Act /\ Room
    /\ Put(Ask(State, "alive", None, TRUE)) /\ UNCHANGED <<route, pending>>

\* Mutant of Polls: an open form stops nothing.
MutPolls(page) == page = "logs" => selected # None
\* What an interval looks at first: the interface's page skips during edits.
Polls(page) == /\ page = "logs" => selected # None
               /\ page = "detail" => "detail" \notin editing

\* Mutant of PolledLogs: the interface the view was mounted for.
MutPolledLogs == IF view.at.id = None THEN Ifaces[1] ELSE view.at.id
\* The rows to poll: cachedLogsIface when the interval elapses.
PolledLogs == selected

\* An interval elapses.
Tick(x) ==
    /\ screen = "app" /\ x \in ticking /\ Room /\ Polls(x.page)
    /\ LET kind == CASE x.page = "dashboard" -> "dash" [] x.page = "logs" -> "logs"
                     [] x.page = "detail" -> "status" [] x.page = "config" -> "check"
           id == CASE x.page = "logs" -> PolledLogs [] x.page = "dashboard" -> None
                   [] OTHER -> view.at.id
       IN Put(Ask(State, kind, id, x.own))
    /\ UNCHANGED <<server, saved, entry, route, pending, want, bounds>>

-----------------------------------------------------------------------------
(***************************************************************************)
(* Answers.                                                                *)
(***************************************************************************)
Arrives(c) == screen = "app" /\ c \in BagToSet(calls)
Less(c) == [State EXCEPT !.calls = @ (-) SetToBag({c})]

\* A request without a session: apiFetch and checkSessionAlive.
Denied(c) ==
    /\ Arrives(c) /\ ~session
    /\ saved' = SavePath(path) /\ want' = path /\ Load(path)
    /\ UNCHANGED <<server, celebrated, bounds>>

\* Signing out ends the session, if the request gets there, and reloads.
SignedOut(c, ok) ==
    /\ Arrives(c) /\ session /\ c.kind = "logout"
    /\ ok \/ fails < MaxFails
    /\ fails' = IF ok THEN fails ELSE fails + 1
    /\ session' = ~ok /\ Load(path)
    /\ UNCHANGED <<fresh, saved, celebrated, want, acts, expiries>>

\* The buttons do not look at the answer.  Some close some of the forms.
Done(c) ==
    LET s == Less(c)
    IN \/ c.kind \in {"act", "clear"} /\ Refresh(s)
       \/ /\ c.kind = "clear" /\ c.id \in editing
          /\ Refresh([s EXCEPT !.editing = @ \ {c.id}])
       \/ c.kind = "delete" /\ Navigate(s, List)

\* The rows of the log page are kept, whatever is selected by now.
Cached(s, id) == [s EXCEPT !.logs = id]

\* The list of interfaces: the first one is taken if the route names none.
Listed(s, c) ==
    LET i == IF c.id = None THEN Ifaces[1] ELSE c.id
    IN Ask([s EXCEPT !.ifaces = TRUE, !.selected = i,
                     !.path = IF c.id = None THEN LogsOf(i) ELSE @], "logs", i, c.own)

\* A form was saved: it closes.  On an interface's page another one may be open.
Saved(s, page) == [s EXCEPT !.editing = @ \ {page},
                            !.path = IF page = "interfaces" THEN List ELSE @]

\* Mutant of Connected: what is remembered does not say which peer it was.
MutConnected(s, id) ==
    [s EXCEPT !.celebrated = @ \cup {None}, !.handle = @ \ {"config"},
              !.ticking = IF "config" \in s.handle THEN {x \in @ : x.page # "config"} ELSE @]

\* The peer is connected: celebrate, and stop polling.
Connected(s, id) ==
    [s EXCEPT !.celebrated = @ \cup {id}, !.handle = @ \ {"config"},
              !.ticking = IF "config" \in s.handle THEN {x \in @ : x.page # "config"} ELSE @]

\* The signals of a view: only the mounted one shows the answer.  The page of an
\* interface is rendered again.
Rendered(s, c) ==
    IF ~c.own THEN s
    ELSE [s EXCEPT !.view.loaded = TRUE, !.view.typed = @ /\ c.kind # "status"]

Stay(s) == Put(s) /\ UNCHANGED <<route, pending>>

\* No peer is connected in the status of no interface.
Answer(c) ==
    /\ Arrives(c) /\ session
    /\ LET s == Less(c)
       IN \/ Done(c)
          \/ c.kind = "dash"   /\ Refresh([s EXCEPT !.dash = TRUE])
          \/ c.kind = "logs"   /\ Refresh(Cached(s, c.id))
          \/ c.kind = "ifaces" /\ Stay(Listed(s, c))
          \/ c.kind \in {"status", "page"} /\ Stay(Rendered(s, c))
          \/ c.kind = "save"   /\ Refresh(Saved(s, c.id))
          \/ c.kind = "save"   /\ c.id = "detail" /\ Refresh(s)
          \/ c.kind = "check"  /\ Stay(s)
          \/ c.kind = "check"  /\ c.id \in IfaceSet /\ Stay(Connected(s, c.id))
          \/ c.kind = "alive"  /\ Stay(s)
    /\ UNCHANGED <<server, saved, entry, want, bounds>>

\* An error or a timeout: a form shows it, the buttons go on, a view gives up.  The
\* list of interfaces then has no rows, but shows its form as if they had come.
Fail(c) ==
    /\ Arrives(c) /\ session /\ fails < MaxFails /\ fails' = fails + 1
    /\ LET s == Less(c)
       IN \/ Done(c)
          \/ c.kind = "page" /\ Stay(Rendered(s, c))
          \/ c.kind \notin {"act", "clear", "delete", "logout", "page"} /\ Stay(s)
    /\ UNCHANGED <<server, saved, entry, want, acts, expiries>>

-----------------------------------------------------------------------------
Answers == \E c \in BagToSet(calls) : Denied(c) \/ SignedOut(c, TRUE) \/ Answer(c)
Ticks   == \E x \in ticking : Tick(x)

Next ==
    \/ \E ok \in BOOLEAN : Start(ok) \/ FromProvider(ok)
    \/ \E p \in Paths : Open(p) \/ Go(p) \/ PopState(p)
    \/ Setup \/ Login \/ ToProvider \/ Expire
    \/ Mount \/ Toggle \/ Type
    \/ \E i \in IfaceSet : Select(i)
    \/ \E k \in {"act", "clear", "delete", "logout"} : Press(k)
    \/ SaveForm \/ Visible
    \/ Ticks \/ Answers
    \/ \E c \in BagToSet(calls) : Fail(c) \/ SignedOut(c, FALSE)

(***************************************************************************)
(* The browser runs timeouts and intervals, and a request is answered: it  *)
(* is aborted after ten seconds otherwise.                                 *)
(***************************************************************************)
Fairness == WF_vars(Mount) /\ WF_vars(Ticks) /\ WF_vars(Answers)

Spec == Init /\ [][Next]_vars /\ Fairness

-----------------------------------------------------------------------------
(***************************************************************************)
(* Properties.                                                             *)
(***************************************************************************)

(***************************************************************************)
(* The interval that runs is the one of the mounted view, and a view that  *)
(* polls has one: however routes change, views are refreshed and answers   *)
(* come late, no interval outlives its view and none is lost.  The page of *)
(* a configuration may have stopped: it celebrates once.                   *)
(***************************************************************************)
TimerOfView ==
    LET mine == {[page |-> p, own |-> TRUE] : p \in {q \in Polling : On({q})}}
    IN IF On({"config"}) THEN ticking \subseteq mine ELSE ticking = mine

(***************************************************************************)
(* A user whose session was found lost returns, by password or through a   *)
(* provider at the first attempt, to the page they were on.  Excepted is   *)
(* the dashboard, which is not saved: a path saved earlier wins.           *)
(***************************************************************************)
RedirectKept ==
    [][(~session /\ session' /\ want \notin {None, Home}) => path' = want]_vars

(***************************************************************************)
(* The rows on the log page end up being those of the interface the        *)
(* selector shows, in whatever order answers arrive, once the user lets    *)
(* the page be.  Excepted is a first load whose list of interfaces failed: *)
(* nothing asks for it again.                                              *)
(***************************************************************************)
LogsSettle == []<>(On({"logs"}) /\ ifaces /\ screen = "app" => logs = selected)

\* The requests no button was pressed for.
Background == {"dash", "ifaces", "logs", "status", "page", "check", "alive"}

(***************************************************************************)
(* What the user has typed into a form is not lost to the background work  *)
(* of its own page: an answer takes it away only if an earlier page asked  *)
(* for it, or the user pressed a button here or has left the page, or      *)
(* there is no session.                                                    *)
(***************************************************************************)
DraftKept ==
    [][\A c \in BagToSet(calls) :
        (c.own /\ c.kind \in Background /\ view.typed /\ pending = 0 /\ Answer(c))
            => view'.typed]_vars
=============================================================================
