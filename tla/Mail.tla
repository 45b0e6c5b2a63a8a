-------------------------------- MODULE Mail --------------------------------
(***************************************************************************)
(* The SMTP settings and the mail sent with them: the SMTP handlers of     *)
(* handler_settings.go, smtp.go, handler_email.go, alert.go, mail.go, the  *)
(* settings table of store_settings.go, and the pages that drive them      *)
(* (ui/web/settings.go and email_modal.go).                                *)
(*                                                                         *)
(* The settings are six rows that are written and read one statement at a  *)
(* time, with neither a transaction nor a lock.  A process here is either  *)
(* a browser tab together with the handler of the request it waits for, or *)
(* the goroutine that mails the alerts of the poller.                      *)
(***************************************************************************)
EXTENDS Naturals, Sequences

CONSTANTS
    Tabs,         \* open tabs of administrators
    Alerter,      \* the goroutine that sends an alert
    Values,       \* values of a setting
    Default,      \* the port and the TLS mode that stand for an empty one
    Configs,      \* what the configuration file may hold: settings, or None
    Stored,       \* what an earlier process may have left in the table
    Edits,        \* what a user may do to a form: fields and their new values
    Lists,        \* alert addresses of a peer, as split at the commas
    MaxFailures,  \* bound on the number of statements and mails that fail
    MaxRequests,  \* bound on the number of requests
    None,         \* the empty string; nothing
    Torn          \* history: the settings are between two requests

\* The keys in the order in which they are written, cleared and read.
Order  == <<"host", "port", "username", "password", "from", "tls">>
Fields == {"host", "port", "username", "password", "from", "tls"}
Setting == [Fields -> Values \cup {None, Default}]
Blank   == [k \in Fields |-> None]
Procs   == Tabs \cup {Alerter}

ASSUME BoundAssumption == MaxRequests \in Nat /\ MaxFailures \in Nat
ASSUME ChoicesAssumption == /\ Configs \subseteq Setting \cup {None} /\ Configs # {}
                            /\ Stored \subseteq Setting
                            /\ Alerter \notin Tabs /\ Default \notin Values
ASSUME NoneAssumption == None \notin Setting \cup Values \cup {Default, Torn}

Labels == {"idle", "put", "clear", "read", "send"}
Ops    == {"load", "save", "remove", "mail"}
Range(s) == {s[i] : i \in 1..Len(s)}
Addresses == UNION {Range(l) : l \in Lists} \ {None}

\* A form has the six fields, and strings.Split returns a list.
ASSUME FormsAssumption == \A e \in Edits : /\ DOMAIN e \subseteq Fields
                                         /\ \A k \in DOMAIN e :
                                                e[k] \in Values \cup {None, Default}
ASSUME ListsAssumption == Lists \subseteq Seq(Addresses \cup {None})

\* The local variables of a request: the position in Order, the body or what
\* has been read, the addresses left, and history.
Job == [op: Ops \cup {None}, i: 1..6, set: Setting, left: Seq(Addresses \cup {None}),
        all: Seq(Addresses \cup {None}), alone: BOOLEAN, base: Setting \cup {Torn},
        view: Setting \cup {None, Torn}]
NoJob == [op |-> None, i |-> 1, set |-> Blank, left |-> <<>>, all |-> <<>>,
          alone |-> TRUE, base |-> Torn, view |-> Torn]

VARIABLES
    config,    \* the smtp section of the configuration file
    table,     \* table settings, the smtp_ keys
    pc, job,   \* per process: its next statement and its local variables
    form,      \* per tab: the open SMTP form
    enabled,   \* per tab: the signal smtpEnabled
    agreed,    \* history: the table as the last complete request left it
    sent,      \* history, per process: the settings of its latest mail
    tried,     \* history: addresses the alert under way was sent to
    off,       \* history: a removal has begun and no save since
    loaded,    \* history, per tab: agreed when its form was filled
    requests, failures

history == <<agreed, sent, tried, off, loaded>>
vars == <<config, table, pc, job, form, enabled, history, requests, failures>>

TypeOK ==
    /\ config \in Configs
    /\ table \in Setting
    /\ pc \in [Procs -> Labels] /\ job \in [Procs -> Job]
    /\ form \in [Tabs -> Setting \cup {None}]
    /\ enabled \in [Tabs -> BOOLEAN]
    /\ agreed \in Setting \cup {Torn}
    /\ sent \in [Procs -> Setting \cup {None}]
    /\ tried \subseteq Addresses
    /\ off \in BOOLEAN
    /\ loaded \in [Tabs -> Setting \cup {None, Torn}]
    /\ requests \in 0..MaxRequests /\ failures \in 0..MaxFailures

-----------------------------------------------------------------------------
\* An empty port or TLS mode stands for the default.
Norm(k, x) == IF x = None /\ k \in {"port", "tls"} THEN Default ELSE x

\* smtpSettings: the rows when there is a host, else the configuration file,
\* else None.
Effective(t) ==
    IF t["host"] # None THEN [k \in Fields |-> Norm(k, t[k])]
    ELSE IF config # None THEN [k \in Fields |-> Norm(k, config[k])] ELSE None

\* smtpEnabled, which the session answer carries to the browser.
SmtpEnabled == table["host"] # None \/ config # None

\* A start of the process; the tabs have been loaded.
Init ==
    /\ config \in Configs
    /\ table \in Stored
    /\ pc = [p \in Procs |-> "idle"] /\ job = [p \in Procs |-> NoJob]
    /\ form = [t \in Tabs |-> None]
    /\ enabled = [t \in Tabs |-> SmtpEnabled]
    /\ agreed = table /\ sent = [p \in Procs |-> None] /\ tried = {}
    /\ off = FALSE /\ loaded = [t \in Tabs |-> None]
    /\ requests = 0 /\ failures = 0

-----------------------------------------------------------------------------
Me(p)  == job[p]
Key(p) == Order[Me(p).i]
Goto(p, l) == pc' = [pc EXCEPT ![p] = l]

Arrive(p) == /\ pc[p] = "idle" /\ requests < MaxRequests
             /\ requests' = requests + 1 /\ UNCHANGED <<config, failures>>
At(p, l) == pc[p] = l /\ UNCHANGED <<config, requests>>

\* A statement or a mail fails, or none does.
Fails == failures < MaxFailures /\ failures' = failures + 1
Works == UNCHANGED failures

Finish(p) == Goto(p, "idle") /\ job' = [job EXCEPT ![p] = NoJob]

Writers == {p \in Procs : pc[p] \in {"put", "clear"}}

\* A request that changes the settings begins: history only.
Disturb(p, j) ==
    /\ agreed' = Torn
    /\ job' = [q \in Procs |->
                 IF q = p THEN [j EXCEPT !.alone = (Writers = {}), !.base = agreed]
                 ELSE [job[q] EXCEPT !.view = Torn, !.alone = (q \notin Writers)]]

\* It ends, well (v) or not.  When it met another nothing is agreed.
Settle(p, v) == agreed' = IF Me(p).alone THEN v ELSE agreed

(***************************************************************************)
(* The settings page: smtpSection and smtpSettingsForm.                    *)
(***************************************************************************)

\* Opening the form mounts the page again, which loads the settings first.
Open(t) ==
    /\ Arrive(t) /\ form[t] = None
    /\ job' = [job EXCEPT ![t] = [NoJob EXCEPT !.op = "load", !.view =
                                    IF agreed = Torn THEN Torn ELSE Effective(agreed)]]
    /\ Goto(t, "read")
    /\ UNCHANGED <<table, form, enabled, history>>

\* Mutant of Prefill: the form starts with the default TLS mode.
MutPrefill(s) == [s EXCEPT !["password"] = None, !["tls"] = Default]

\* The fields of a form; the password is never sent to the browser.
Prefill(s) == [s EXCEPT !["password"] = None]
Empty == [k \in Fields |-> Norm(k, None)]

Body(t, e) == [k \in Fields |-> IF k \in DOMAIN e THEN e[k] ELSE form[t][k]]

\* doSave: the checks of the form and of the handler.  A configured server is
\* edited and may leave the password blank.
Valid(t, b) ==
    /\ b["host"] # None /\ b["from"] # None
    /\ (form[t]["host"] = None /\ b["username"] # None) => b["password"] # None

Save(t) ==
    /\ Arrive(t) /\ form[t] # None
    /\ \E e \in Edits :
         /\ Valid(t, Body(t, e))
         /\ Disturb(t, [NoJob EXCEPT !.op = "save", !.set = Body(t, e)])
    /\ off' = FALSE
    /\ Goto(t, "put")
    /\ UNCHANGED <<table, form, enabled, sent, tried, loaded>>

Cancel(t) ==
    /\ pc[t] = "idle" /\ form[t] # None
    /\ form' = [form EXCEPT ![t] = None]
    /\ UNCHANGED <<config, table, pc, job, enabled, history, requests, failures>>

\* Remove, after its confirmation.
Remove(t) ==
    /\ Arrive(t)
    /\ Disturb(t, [NoJob EXCEPT !.op = "remove"])
    /\ Goto(t, "clear")
    /\ UNCHANGED <<table, form, enabled, sent, tried, off, loaded>>

(***************************************************************************)
(* handleUpdateSMTP.                                                       *)
(***************************************************************************)

\* Mutant of Skips: a blank password is written like every other field.
MutSkips(p) == FALSE
\* A blank password keeps the stored one.
Skips(p) == Key(p) = "password" /\ Me(p).set["password"] = None

\* The settings a save asks for, on top of those it found.
Asked(p) ==
    LET b == Me(p).set
    IN IF b["password"] # None THEN [k \in Fields |-> Norm(k, b[k])]
       ELSE IF Me(p).base = Torn THEN Torn
       ELSE [k \in Fields |-> IF k = "password" THEN Me(p).base[k] ELSE Norm(k, b[k])]

\* The next key.  After the last one the form closes, smtpEnabled is set and
\* the page is mounted again; an error leaves the form open.
Put(p) ==
    /\ At(p, "put")
    /\ \/ /\ Works
          /\ table' = IF Skips(p) THEN table
                      ELSE [table EXCEPT ![Key(p)] = Norm(Key(p), Me(p).set[Key(p)])]
          /\ IF Me(p).i < 6
             THEN /\ job' = [job EXCEPT ![p].i = @ + 1]
                  /\ UNCHANGED <<pc, form, enabled, agreed>>
             ELSE /\ Settle(p, Asked(p)) /\ Finish(p)
                  /\ form' = [form EXCEPT ![p] = None]
                  /\ enabled' = [enabled EXCEPT ![p] = TRUE]
       \/ /\ Fails /\ ~Skips(p)
          /\ Finish(p) /\ UNCHANGED <<table, form, enabled, agreed>>
    /\ UNCHANGED <<sent, tried, off, loaded>>

(***************************************************************************)
(* handleDeleteSMTP, and what Remove does when the answer comes: it does   *)
(* not look at it.                                                         *)
(***************************************************************************)

\* Mutant of ClearKey: the keys are cleared from the last to the first.
MutClearKey(p) == Order[7 - Me(p).i]
ClearKey(p) == Order[Me(p).i]

Clear(p) ==
    /\ At(p, "clear")
    /\ \/ /\ Works
          /\ table' = [table EXCEPT ![ClearKey(p)] = None]
          /\ off' = (Me(p).alone \/ off)
          /\ IF Me(p).i < 6
             THEN /\ job' = [job EXCEPT ![p].i = @ + 1]
                  /\ UNCHANGED <<pc, form, enabled, agreed>>
             ELSE /\ Settle(p, Blank) /\ Finish(p)
                  /\ form' = [form EXCEPT ![p] = None]
                  /\ enabled' = [enabled EXCEPT ![p] = FALSE]
       \/ /\ Fails
          /\ Finish(p)
          /\ form' = [form EXCEPT ![p] = None]
          /\ enabled' = [enabled EXCEPT ![p] = FALSE]
          /\ UNCHANGED <<table, agreed, off>>
    /\ UNCHANGED <<sent, tried, loaded>>

-----------------------------------------------------------------------------
(***************************************************************************)
(* Reading the settings: smtpSettings, and loadSMTPSettingsData, which     *)
(* reads the same keys for the page.                                       *)
(***************************************************************************)

\* handleTestSMTP, handleEmailPeerConfig (offered while smtpEnabled) and
\* sendPeerAlert, with requests that pass their checks.
Begin(p, op, l) ==
    /\ Arrive(p)
    /\ job' = [job EXCEPT ![p] = [NoJob EXCEPT !.op = op, !.left = l, !.all = l, !.view =
                                    IF agreed = Torn THEN Torn ELSE Effective(agreed)]]
    /\ Goto(p, "read")
    /\ tried' = IF p = Alerter THEN {} ELSE tried
    /\ UNCHANGED <<table, form, enabled, agreed, sent, off, loaded>>

ToOne(t) == \E a \in Addresses : Begin(t, "mail", <<a>>)
Test(t)  == form[t] = None /\ ToOne(t)
Email(t) == enabled[t] /\ ToOne(t)
Alert    == \E l \in Lists : Begin(Alerter, "mail", l)

\* What was read is complete: the form is filled, or mail is sent, or there is
\* none: no mail server, or a password that Decrypt or the configuration does
\* not yield.  v is the view of the reader now (history).
Use(p, s, v) ==
    \/ /\ Me(p).op = "load" /\ Finish(p)
       /\ form' = [form EXCEPT ![p] = IF s = None THEN Empty ELSE Prefill(s)]
       /\ loaded' = [loaded EXCEPT ![p] = IF v = Torn THEN Torn ELSE agreed]
    \/ /\ Me(p).op # "load" /\ (s # None => s["password"] # None)
       /\ Finish(p) /\ UNCHANGED <<form, loaded>>
    \/ /\ Me(p).op # "load" /\ s # None
       /\ job' = [job EXCEPT ![p].set = s, ![p].i = 1, ![p].view = v]
       /\ Goto(p, "send") /\ UNCHANGED <<form, loaded>>

\* GetSetting has answered x.  Without a host the configuration file decides.
Got(p, x, v) ==
    LET got == [Me(p).set EXCEPT ![Key(p)] = x]
    IN IF Me(p).i = 1 /\ x = None THEN Use(p, Effective(Blank), v)
       ELSE IF Me(p).i = 6 THEN Use(p, Effective(got), v)
       ELSE /\ job' = [job EXCEPT ![p].set = got, ![p].i = @ + 1, ![p].view = v]
            /\ UNCHANGED <<pc, form, loaded>>

\* One GetSetting; its error is dropped and the value is then empty.
Read(p) ==
    /\ At(p, "read")
    /\ \/ Works /\ Got(p, table[Key(p)], Me(p).view)
       \/ Fails /\ Got(p, None, Torn)
    /\ UNCHANGED <<table, enabled, agreed, sent, tried, off>>

-----------------------------------------------------------------------------
(***************************************************************************)
(* Sending: sendMail, over STARTTLS, TLS or plain TCP.                     *)
(***************************************************************************)

\* Mutant of AfterError: the alert ends with the first address that fails.
MutAfterError(p) == <<>>
\* A failed address is logged and the loop goes on.
AfterError(p) == Tail(Me(p).left)

\* Mutant of Skipped: an empty entry is mailed to.
MutSkipped(to) == FALSE
Skipped(to) == to = None

\* The next address.
Send(p) ==
    /\ At(p, "send")
    /\ IF Me(p).left = <<>> THEN Works /\ Finish(p) /\ UNCHANGED <<sent, tried>>
       ELSE LET to == Head(Me(p).left)
            IN /\ \/ /\ ~Skipped(to) /\ Works
                     /\ sent' = [sent EXCEPT ![p] = Me(p).set]
                     /\ job' = [job EXCEPT ![p].left = Tail(@)]
                  \/ /\ ~Skipped(to) /\ Fails /\ UNCHANGED sent
                     /\ job' = [job EXCEPT ![p].left = AfterError(p)]
                  \/ /\ Skipped(to) /\ Works /\ UNCHANGED sent
                     /\ job' = [job EXCEPT ![p].left = Tail(@)]
               /\ tried' = IF p = Alerter /\ ~Skipped(to) THEN tried \cup {to} ELSE tried
               /\ UNCHANGED pc
    /\ UNCHANGED <<table, form, enabled, agreed, off, loaded>>

-----------------------------------------------------------------------------
Next == \/ \E t \in Tabs : Open(t) \/ Save(t) \/ Cancel(t) \/ Remove(t) \/ Test(t)
                           \/ Email(t)
        \/ Alert
        \/ \E p \in Procs : Put(p) \/ Clear(p) \/ Read(p) \/ Send(p)

Spec == Init /\ [][Next]_vars

-----------------------------------------------------------------------------
(***************************************************************************)
(* Properties.                                                             *)
(***************************************************************************)

Register == INSTANCE SmtpRegister WITH
    Senders <- Procs, Settings <- Setting, Off <- None, Torn <- Torn,
    agreed <- IF agreed = Torn THEN Torn ELSE Effective(agreed),
    view <- [p \in Procs |-> job[p].view], sent <- sent

(***************************************************************************)
(* The six rows behave like one register: a mail for which the settings    *)
(* were read while no request changed them carries exactly what the last   *)
(* complete request asked for, with the password kept when it was left     *)
(* blank, or what the configuration file says.  Nothing is promised after  *)
(* a request that failed half way or met another, until one is complete,   *)
(* nor to a reader one of whose statements failed.                         *)
(***************************************************************************)
RegisterImplemented == Register!Spec

(***************************************************************************)
(* A removal turns stored mail settings off with its first statement: even *)
(* when it fails half way there is no host left that mail would be sent to *)
(* without its password or sender, until somebody saves again.             *)
(***************************************************************************)
RemovalHolds == off => table["host"] = None

(***************************************************************************)
(* A form that is loaded, edited and saved while nobody else changes the   *)
(* settings leaves every field alone that the user left alone, and "leave  *)
(* blank to keep current" keeps the password.  Excepted is the password of *)
(* the configuration file: saving the form moves every other field of it   *)
(* into the database, and mail is sent without a password from then on.    *)
(***************************************************************************)
EditKeepsRest ==
    [][\A t \in Tabs :
        LET was == loaded[t]
            new == Effective(table')
        IN (/\ pc[t] = "put" /\ pc'[t] = "idle" /\ form'[t] = None
            /\ Me(t).alone /\ was # Torn /\ was = Me(t).base /\ Effective(was) # None) =>
              \A k \in Fields : Me(t).set[k] = form[t][k] =>
                  \/ new[k] = Effective(was)[k]
                  \/ k = "password" /\ was["host"] = None]_vars

(***************************************************************************)
(* An alert for which there is a mail server, with a password that can be  *)
(* had if it has one, is sent to every address of the peer: one that fails *)
(* does not keep the others from theirs.                                   *)
(***************************************************************************)
EveryAddressTried ==
    [][(pc[Alerter] = "send" /\ pc'[Alerter] = "idle") =>
        tried' = Range(Me(Alerter).all) \ {None}]_vars
=============================================================================
