------------------------------ MODULE WgManager ------------------------------
(***************************************************************************)
(* The WireGuard manager of wgRift (internal/wg/manager.go) with the HTTP  *)
(* handlers that call it (internal/server/handler_interfaces.go and        *)
(* handler_peers.go) and the row writes of the connection poller.          *)
(*                                                                         *)
(* The manager keeps three copies of a tunnel's configuration in step:     *)
(* the rows of the SQLite database, the file /etc/wireguard/<name>.conf    *)
(* that wg-quick reads, and the kernel device.  No lock orders the         *)
(* requests: net/http runs every handler in its own goroutine.  A handler  *)
(* is therefore a sequence of steps, one for each database statement and   *)
(* each external command, and the steps of all requests interleave.        *)
(*                                                                         *)
(* A peer is identified by its id; its public key is generated with the    *)
(* id and never changes, so the blocks of a conf file and of a device name *)
(* the peer by the same value.                                             *)
(***************************************************************************)
EXTENDS Naturals, FiniteSets

CONSTANTS
    Workers,      \* goroutines that can run a handler or a poll
    Ifaces,       \* interface names (wg0, ...)
    Peers,        \* peer ids that can ever be generated
    Keys,         \* interface private keys
    Ports,        \* listen ports: the part of [Interface] "wg syncconf" applies
    Links,        \* Address, MTU, PostUp, PostDown: applied by wg-quick only
    Attrs,        \* what a [Peer] block says besides the key
    Preset,       \* interfaces wg-quick managed before wgRift was installed
    Ops,          \* the requests this instance issues
    Faults,       \* subset of {"db", "net"}: which outside calls may fail
    MaxRequests,  \* bound on the number of requests of a behaviour
    MaxCrashes,   \* bound on the number of restarts
    None          \* absence of a row, a file, a device or a local value

IfaceOps == {"create", "import", "adopt", "delete", "updateIface", "sync",
             "addPeer", "start", "stop", "restart"}
PeerOps  == {"remove", "enable", "disable", "update", "setKey", "poll"}

ASSUME OpsAssumption    == Ops \subseteq IfaceOps \cup PeerOps
ASSUME PresetAssumption == Preset \subseteq Ifaces
ASSUME FaultsAssumption == Faults \subseteq {"db", "net"}
ASSUME BoundsAssumption == MaxRequests \in Nat /\ MaxCrashes \in Nat

(***************************************************************************)
(* The data.  An interface row and a peer row of the database, the conf    *)
(* file, and the device.  A peer block is <<peer, attributes>>.            *)
(***************************************************************************)
IfaceRow == [key: Keys, port: Ports, link: Links, enabled: BOOLEAN]
PeerRow  == [iface: Ifaces, attr: Attrs, enabled: BOOLEAN]
Block    == Peers \X Attrs
Conf     == [key: Keys, port: Ports, link: Links, peers: SUBSET Block]
Device   == [key: Keys, port: Ports, link: Links, peers: SUBSET Block,
             up: BOOLEAN]

ASSUME NoneAssumption ==
    /\ None \notin IfaceRow /\ None \notin PeerRow
    /\ None \notin Conf /\ None \notin Device
    /\ None \notin Ifaces /\ None \notin Peers

\* Where a request stands: the statement or command it executes next.
Labels == {"idle", "insertIface", "importPeer", "readConf", "getIface",
           "netDelete", "deleteRow", "updateIface", "getPeer", "pollGet",
           "insertPeer", "deletePeer", "updatePeer", "quickDown", "stopDown",
           "quickUp", "syncGet", "syncDown", "syncList", "exists", "syncConf",
           "saveAfter", "saveConf", "syncUp"}

(***************************************************************************)
(* How a request ended: an error, a plain success, a success of            *)
(* SyncInterface on an enabled interface with the conf file written        *)
(* ("synced") or not ("unsaved"), SyncInterface on a disabled interface    *)
(* ("down"), or a successful "wg-quick up" ("quick").                      *)
(***************************************************************************)
Results == {"none", "err", "ok", "synced", "unsaved", "down", "quick"}

\* The local variables of a handler.
Job == [op: IfaceOps \cup PeerOps \cup {"none", "boot"},
        ifc: Ifaces \cup {None}, pid: Peers \cup {None},
        irow: IfaceRow \cup {None}, prow: PeerRow \cup {None},
        params: Conf \cup {None}]

NewJob(o, i, p, row, c) == [op |-> o, ifc |-> i, pid |-> p, irow |-> row,
                            prow |-> None, params |-> c]

NoJob == NewJob("none", None, None, None, None)

VARIABLES
    ifaces,    \* table interfaces: a row or None for every name
    peers,     \* table peers: a row or None for every id
    conf,      \* /etc/wireguard/<name>.conf
    dev,       \* the kernel's WireGuard devices
    home,      \* history: the interface a peer id was generated for
    usedKeys,  \* history: the interface keys generated so far
    pc,        \* per worker: the next step of its request
    job,       \* per worker: the request and its local variables
    result,    \* per worker: how its last request ended
    touched,   \* history: another worker changed the system during or after it
    booting,   \* interfaces SyncAll has still to visit before the server listens
    pooled,    \* this process has opened a second database connection
    shared,    \* history: some process has opened a second one
    requests,  \* number of requests so far
    crashes    \* number of restarts so far

sys     == <<ifaces, peers, conf, dev>>
history == <<home, usedKeys>>
control == <<booting, pooled, shared, requests, crashes>>
vars    == <<sys, history, pc, job, result, touched, control>>

TypeOK ==
    /\ ifaces \in [Ifaces -> IfaceRow \cup {None}]
    /\ peers \in [Peers -> PeerRow \cup {None}]
    /\ conf \in [Ifaces -> Conf \cup {None}]
    /\ dev \in [Ifaces -> Device \cup {None}]
    /\ home \in [Peers -> Ifaces \cup {None}]
    /\ usedKeys \subseteq Keys
    /\ pc \in [Workers -> Labels]
    /\ job \in [Workers -> Job]
    /\ result \in [Workers -> Results]
    /\ touched \in [Workers -> BOOLEAN]
    /\ booting \subseteq Ifaces
    /\ pooled \in BOOLEAN
    /\ shared \in BOOLEAN
    /\ requests \in 0..MaxRequests
    /\ crashes \in 0..MaxCrashes

\* Bound on the peers of an imported or adopted conf file: the type check
\* fails on the first one, so a second one would never be reached.
ImportBound == 1

\* The device "wg-quick up" creates from a conf file.
Raised(c) == [key |-> c.key, port |-> c.port, link |-> c.link,
              peers |-> c.peers, up |-> TRUE]

(***************************************************************************)
(* A fresh installation: an empty database and runServe past an empty      *)
(* SyncAll.  A preset interface already has a conf file with at most       *)
(* ImportBound peers, and may be running: what handleAdoptInterface is     *)
(* there for.                                                              *)
(***************************************************************************)
Init ==
    /\ ifaces = [i \in Ifaces |-> None]
    /\ peers = [p \in Peers |-> None]
    /\ conf \in [Ifaces -> Conf \cup {None}]
    /\ \A i \in Ifaces : conf[i] # None <=> i \in Preset
    /\ \A i \in Preset : Cardinality(conf[i].peers) <= ImportBound
    /\ home \in [Peers -> Preset \cup {None}]
    /\ \A i \in Preset, p \in Peers :
            home[p] = i <=> \E b \in conf[i].peers : b[1] = p
    /\ usedKeys = {conf[i].key : i \in Preset}
    /\ \E R \in SUBSET Preset :
            dev = [i \in Ifaces |-> IF i \in R THEN Raised(conf[i]) ELSE None]
    /\ pc = [w \in Workers |-> "idle"]
    /\ job = [w \in Workers |-> NoJob]
    /\ result = [w \in Workers |-> "none"]
    /\ touched = [w \in Workers |-> FALSE]
    /\ booting = {}
    /\ pooled \in BOOLEAN
    /\ shared = pooled
    /\ requests = 0
    /\ crashes = 0

-----------------------------------------------------------------------------
(***************************************************************************)
(* Reads of the store, and the configuration SyncInterface derives.        *)
(***************************************************************************)

\* Mutants of Blocks: blocks without their AllowedIPs; no interface filter.
MutBlocksBare(i) == {q \in Peers : /\ peers[q] # None /\ peers[q].iface = i
                                   /\ peers[q].enabled}
MutBlocksAll(i) == {<<p, peers[p].attr>> :
                      p \in {q \in Peers : peers[q] # None /\ peers[q].enabled}}

\* ListPeers(id) with the disabled peers dropped: the blocks of the config.
Blocks(i) == {<<p, peers[p].attr>> :
                p \in {q \in Peers : /\ peers[q] # None
                                     /\ peers[q].iface = i
                                     /\ peers[q].enabled}}

\* confgen.ServerConfParams of the interface row and the enabled peers.
ConfOf(row, i) == [key |-> row.key, port |-> row.port, link |-> row.link,
                   peers |-> Blocks(i)]

\* Mutant of Stripped: "wg addconf", which never drops a peer.
MutStripped(d, c) == [key |-> c.key, port |-> c.port, link |-> d.link,
                      peers |-> d.peers \cup c.peers, up |-> d.up]

\* What "wg syncconf" does to a device: keys, port and peers, never the link.
Stripped(d, c) == [key |-> c.key, port |-> c.port, link |-> d.link,
                   peers |-> c.peers, up |-> d.up]

\* Mutant of ForeignKeys: the pragma is never set.
MutForeignKeys == {TRUE, FALSE}

(***************************************************************************)
(* PRAGMA foreign_keys is a property of one connection and store.New sets  *)
(* it on the first one only.  The pool opens another when a statement runs *)
(* while the first one is busy: when two requests overlap, or at boot,     *)
(* when OIDCService.Reload and the first poll run beside the main          *)
(* goroutine.  From then on a statement may run on either.                 *)
(***************************************************************************)
ForeignKeys == IF pooled THEN {TRUE, FALSE} ELSE {TRUE}

\* The column check of migration 008 on the type a request inserts.
PeerTypeValid(op) == op \notin {"import", "adopt"}

\* CreatePeer succeeds: primary key, type check and foreign key all hold.
CanCreatePeer(p, i, op, fk) == /\ peers[p] = None
                               /\ PeerTypeValid(op)
                               /\ fk => ifaces[i] # None

NetFault == "net" \in Faults

\* Control flow of a handler.
Goto(w, l)   == pc' = [pc EXCEPT ![w] = l] /\ UNCHANGED result
Stay(w, l)   == Goto(w, l) /\ UNCHANGED job
Finish(w, r) == /\ pc' = [pc EXCEPT ![w] = "idle"]
                /\ result' = [result EXCEPT ![w] = r]
                /\ job' = [job EXCEPT ![w] = [@ EXCEPT !.irow = None,
                                               !.prow = None, !.params = None]]

At(w, l) == pc[w] = l /\ UNCHANGED <<history, control>>
Me(w)    == job[w]

-----------------------------------------------------------------------------
(***************************************************************************)
(* A request arrives.  Identifiers and keys a handler generates are chosen *)
(* here; nothing but the history sees the choice before the row is stored. *)
(***************************************************************************)
Serving == booting = {} /\ \A v \in Workers : pc[v] # "idle" => job[v].op # "boot"

Begin(w, j, l) ==
    /\ pc[w] = "idle" /\ Serving /\ requests < MaxRequests
    /\ pc' = [pc EXCEPT ![w] = l]
    /\ job' = [job EXCEPT ![w] = j]
    /\ result' = [result EXCEPT ![w] = "none"]
    /\ requests' = requests + 1
    /\ pooled' = (pooled \/ \E v \in Workers : pc[v] # "idle")
    /\ shared' = (shared \/ pooled')
    /\ UNCHANGED <<sys, booting, crashes>>

\* Requests on an interface that generate nothing.
BeginIface(w) ==
    \E o \in Ops \cap {"adopt", "delete", "updateIface", "sync", "start", "stop",
                       "restart"},
       i \in Ifaces :
        /\ Begin(w, NewJob(o, i, None, None, None),
                 CASE o = "adopt"   -> "readConf"
                   [] o = "sync"    -> "syncGet"
                   [] o = "restart" -> "quickDown"
                   [] OTHER         -> "getIface")
        /\ UNCHANGED history

\* handleCreateInterface: CreateInterface generates the private key.
BeginCreate(w) ==
    /\ "create" \in Ops
    /\ \E i \in Ifaces, k \in Keys \ usedKeys, t \in Ports, l \in Links :
        /\ Begin(w, NewJob("create", i, None,
                          [key |-> k, port |-> t, link |-> l, enabled |-> TRUE],
                          None), "insertIface")
        /\ usedKeys' = usedKeys \cup {k}
    /\ UNCHANGED home

\* handleImportInterface: a config of the user's with at most ImportBound peers.
BeginImport(w) ==
    /\ "import" \in Ops
    /\ \E i \in Ifaces, k \in Keys, t \in Ports, l \in Links,
          B \in SUBSET Block :
        /\ Cardinality(B) <= ImportBound /\ \A b \in B : home[b[1]] = None
        /\ Begin(w, NewJob("import", i, None,
                          [key |-> k, port |-> t, link |-> l, enabled |-> TRUE],
                          [key |-> k, port |-> t, link |-> l, peers |-> B]),
                 "insertIface")
        /\ home' = [p \in Peers |-> IF \E b \in B : b[1] = p THEN i ELSE home[p]]
    /\ UNCHANGED usedKeys

\* handleAddPeer: AddPeer generates the peer's id and key pair.
BeginAddPeer(w) ==
    /\ "addPeer" \in Ops
    /\ \E i \in Ifaces, p \in Peers :
        /\ home[p] = None
        /\ Begin(w, NewJob("addPeer", i, p, None, None), "getIface")
        /\ home' = [home EXCEPT ![p] = i]
    /\ UNCHANGED usedKeys

\* Requests on a peer the caller has seen, and a poll that visits it.
BeginPeer(w) ==
    \E o \in Ops \cap PeerOps, p \in Peers :
        /\ home[p] # None
        /\ Begin(w, NewJob(o, None, p, None, None),
                 IF o = "poll" THEN "pollGet" ELSE "getPeer")
        /\ UNCHANGED history

-----------------------------------------------------------------------------
(***************************************************************************)
(* Interface rows.                                                         *)
(***************************************************************************)

\* handleAdoptInterface: read and parse /etc/wireguard/<id>.conf.
ReadConf(w) ==
    /\ At(w, "readConf")
    /\ LET c == conf[Me(w).ifc] IN
       IF c = None
       THEN Finish(w, "err")
       ELSE /\ job' = [job EXCEPT ![w] = [@ EXCEPT !.params = c,
                         !.irow = [key |-> c.key, port |-> c.port,
                                   link |-> c.link, enabled |-> TRUE]]]
            /\ Goto(w, "insertIface")
    /\ UNCHANGED sys

\* store.CreateInterface, for CreateInterface and ImportInterface.
InsertIface(w) ==
    /\ At(w, "insertIface")
    /\ IF ifaces[Me(w).ifc] # None
       THEN Finish(w, "err") /\ UNCHANGED ifaces
       ELSE /\ ifaces' = [ifaces EXCEPT ![Me(w).ifc] = Me(w).irow]
            /\ IF Me(w).op = "create" THEN Finish(w, "ok")
                                      ELSE Stay(w, "importPeer")
    /\ UNCHANGED <<peers, conf, dev>>

\* The parsed peers that remain after one of them.
Without(c, b) == [key |-> c.key, port |-> c.port, link |-> c.link,
                  peers |-> c.peers \ {b}]

\* One round of ImportInterface's loop over the parsed peers.
ImportPeer(w) ==
    /\ At(w, "importPeer")
    /\ IF Me(w).params.peers = {}
       THEN Finish(w, "ok") /\ UNCHANGED peers
       ELSE \E b \in Me(w).params.peers, fk \in ForeignKeys :
            IF CanCreatePeer(b[1], Me(w).ifc, Me(w).op, fk)
            THEN /\ peers' = [peers EXCEPT ![b[1]] =
                               [iface |-> Me(w).ifc, attr |-> b[2],
                                enabled |-> TRUE]]
                 /\ job' = [job EXCEPT ![w].params = Without(@, b)]
                 /\ Goto(w, "importPeer")
            ELSE Finish(w, "err") /\ UNCHANGED peers
    /\ UNCHANGED <<ifaces, conf, dev>>

\* store.GetInterface at the head of a handler: not found ends it.
GetIface(w) ==
    /\ At(w, "getIface")
    /\ LET row == ifaces[Me(w).ifc] IN
       IF row = None
       THEN Finish(w, "err")
       ELSE /\ job' = [job EXCEPT ![w].irow = row]
            /\ Goto(w, CASE Me(w).op = "delete"  -> "netDelete"
                         [] Me(w).op = "addPeer" -> "insertPeer"
                         [] Me(w).op = "stop"    -> "quickDown"
                         [] OTHER                -> "updateIface")
    /\ UNCHANGED sys

(***************************************************************************)
(* store.UpdateInterface writes every column of the row the handler read   *)
(* before, and does nothing when the row is gone.                          *)
(***************************************************************************)
Rewritten(op, row, t, l) ==
    CASE op = "start" -> [row EXCEPT !.enabled = TRUE]
      [] op = "stop"  -> [row EXCEPT !.enabled = FALSE]
      [] OTHER        -> [row EXCEPT !.port = t, !.link = l]

UpdateIface(w) ==
    /\ At(w, "updateIface")
    /\ \E t \in Ports, l \in Links :
        ifaces' = [ifaces EXCEPT ![Me(w).ifc] =
                    IF @ = None THEN @ ELSE Rewritten(Me(w).op, Me(w).irow, t, l)]
    /\ IF Me(w).op = "start" THEN Stay(w, "quickUp") ELSE Finish(w, "ok")
    /\ UNCHANGED <<peers, conf, dev>>

\* DeleteInterface: the device first, whose failure is ignored ...
NetDelete(w) ==
    /\ At(w, "netDelete")
    /\ \/ dev' = [dev EXCEPT ![Me(w).ifc] = None]
       \/ NetFault /\ UNCHANGED dev
    /\ Stay(w, "deleteRow")
    /\ UNCHANGED <<ifaces, peers, conf>>

\* ... then the row, with its peers when the connection enforces the cascade.
DeleteRow(w) ==
    /\ At(w, "deleteRow")
    /\ ifaces' = [ifaces EXCEPT ![Me(w).ifc] = None]
    /\ \E fk \in ForeignKeys :
        peers' = [p \in Peers |-> IF /\ fk /\ ifaces[Me(w).ifc] # None
                                     /\ peers[p] # None
                                     /\ peers[p].iface = Me(w).ifc
                                  THEN None ELSE peers[p]]
    /\ Finish(w, "ok")
    /\ UNCHANGED <<conf, dev>>

-----------------------------------------------------------------------------
(***************************************************************************)
(* Peer rows.                                                              *)
(***************************************************************************)

\* AddPeer: store.CreatePeer, then SyncInterface.
InsertPeer(w) ==
    /\ At(w, "insertPeer")
    /\ \E a \in Attrs, fk \in ForeignKeys :
        IF CanCreatePeer(Me(w).pid, Me(w).ifc, Me(w).op, fk)
        THEN /\ peers' = [peers EXCEPT ![Me(w).pid] =
                           [iface |-> Me(w).ifc, attr |-> a, enabled |-> TRUE]]
             /\ Stay(w, "syncGet")
        ELSE Finish(w, "err") /\ UNCHANGED peers
    /\ UNCHANGED <<ifaces, conf, dev>>

\* store.GetPeer at the head of a peer handler: not found ends it.
GetPeer(w) ==
    /\ At(w, "getPeer")
    /\ LET row == peers[Me(w).pid] IN
       IF row = None
       THEN Finish(w, "err")
       ELSE /\ job' = [job EXCEPT ![w] = [@ EXCEPT !.prow = row,
                                                   !.ifc = row.iface]]
            /\ Goto(w, IF Me(w).op = "remove" THEN "deletePeer" ELSE "updatePeer")
    /\ UNCHANGED sys

\* Poller.poll: GetStatus reads the peers of an enabled interface.
PollGet(w) ==
    /\ At(w, "pollGet")
    /\ LET row == peers[Me(w).pid] IN
       IF row = None \/ (row # None /\ (\/ ifaces[row.iface] = None
                                        \/ ~ifaces[row.iface].enabled))
       THEN Finish(w, "ok")
       ELSE /\ job' = [job EXCEPT ![w] = [@ EXCEPT !.prow = row,
                                                   !.ifc = row.iface]]
            /\ Goto(w, "updatePeer")
    /\ UNCHANGED sys

\* RemovePeer: store.DeletePeer, then SyncInterface.
DeletePeer(w) ==
    /\ At(w, "deletePeer")
    /\ peers' = [peers EXCEPT ![Me(w).pid] = None]
    /\ Stay(w, "syncGet")
    /\ UNCHANGED <<ifaces, conf, dev>>

\* The row a handler or a poll writes back: the one it read, with its change.
\* A stored private key and the transfer counters are not part of the model.
NewPeerRow(j, a) ==
    CASE j.op = "enable"  -> [j.prow EXCEPT !.enabled = TRUE]
      [] j.op = "disable" -> [j.prow EXCEPT !.enabled = FALSE]
      [] j.op = "update"  -> [j.prow EXCEPT !.attr = a]
      [] OTHER            -> j.prow

\* Mutant of UpdatePeer: INSERT OR REPLACE instead of UPDATE.
MutUpdatePeer(w) ==
    /\ At(w, "updatePeer")
    /\ \E a \in Attrs : peers' = [peers EXCEPT ![Me(w).pid] = NewPeerRow(Me(w), a)]
    /\ IF Me(w).op \in {"setKey", "poll"} THEN Finish(w, "ok")
                                          ELSE Stay(w, "syncGet")
    /\ UNCHANGED <<ifaces, conf, dev>>

(***************************************************************************)
(* store.UpdatePeer writes every column and does nothing when the row is   *)
(* gone.  setPeerEnabled and handleUpdatePeer go on to SyncInterface;      *)
(* handleSetPeerPrivateKey and the poller do not.                          *)
(***************************************************************************)
UpdatePeer(w) ==
    /\ At(w, "updatePeer")
    /\ \E a \in Attrs :
        peers' = [peers EXCEPT ![Me(w).pid] =
                    IF @ = None THEN @ ELSE NewPeerRow(Me(w), a)]
    /\ IF Me(w).op \in {"setKey", "poll"} THEN Finish(w, "ok")
                                          ELSE Stay(w, "syncGet")
    /\ UNCHANGED <<ifaces, conf, dev>>

\* handleUpdatePeer, handleUpdateInterface and handleSetPeerPrivateKey refuse
\* the request's body, which they read after the row.
Reject(w) ==
    /\ pc[w] \in {"updatePeer", "updateIface"}
    /\ Me(w).op \in {"update", "updateIface", "setKey"}
    /\ At(w, pc[w])
    /\ Finish(w, "err")
    /\ UNCHANGED sys

-----------------------------------------------------------------------------
(***************************************************************************)
(* SyncInterface.                                                          *)
(***************************************************************************)

SyncGet(w) ==
    /\ At(w, "syncGet")
    /\ LET row == ifaces[Me(w).ifc] IN
       IF row = None
       THEN Finish(w, "err")
       ELSE /\ job' = [job EXCEPT ![w].irow = row]
            /\ Goto(w, IF row.enabled THEN "syncList" ELSE "syncDown")
    /\ UNCHANGED sys

\* A disabled interface is taken down and nothing else is done.
SyncDown(w) ==
    /\ At(w, "syncDown")
    /\ \/ dev' = [dev EXCEPT ![Me(w).ifc] =
                    IF @ = None THEN @ ELSE [@ EXCEPT !.up = FALSE]]
       \/ NetFault /\ UNCHANGED dev
    /\ Finish(w, "down")
    /\ UNCHANGED <<ifaces, peers, conf>>

SyncList(w) ==
    /\ At(w, "syncList")
    /\ job' = [job EXCEPT ![w].params = ConfOf(Me(w).irow, Me(w).ifc)]
    /\ Goto(w, "exists")
    /\ UNCHANGED sys

\* Mutant of Exists: a running interface is brought up again by wg-quick.
MutExists(w) ==
    /\ At(w, "exists")
    /\ Stay(w, "saveConf")
    /\ UNCHANGED sys

\* Exists reports every error of net.InterfaceByName as "does not exist".
Exists(w) ==
    /\ At(w, "exists")
    /\ \/ dev[Me(w).ifc] # None /\ Stay(w, "syncConf")
       \/ (dev[Me(w).ifc] = None \/ NetFault) /\ Stay(w, "saveConf")
    /\ UNCHANGED sys

SyncConf(w) ==
    /\ At(w, "syncConf")
    /\ \/ /\ dev[Me(w).ifc] # None
          /\ dev' = [dev EXCEPT ![Me(w).ifc] = Stripped(@, Me(w).params)]
          /\ Stay(w, "saveAfter")
       \/ /\ dev[Me(w).ifc] = None \/ NetFault
          /\ Finish(w, "err")
          /\ UNCHANGED dev
    /\ UNCHANGED <<ifaces, peers, conf>>

\* Mutant of SaveAfter: the conf file is not written.
MutSaveAfter(w) ==
    /\ At(w, "saveAfter")
    /\ Finish(w, "synced")
    /\ UNCHANGED sys

\* SaveConf after a syncconf: its error is dropped.
SaveAfter(w) ==
    /\ At(w, "saveAfter")
    /\ \/ /\ conf' = [conf EXCEPT ![Me(w).ifc] = Me(w).params]
          /\ Finish(w, "synced")
       \/ NetFault /\ Finish(w, "unsaved") /\ UNCHANGED conf
    /\ UNCHANGED <<ifaces, peers, dev>>

\* SaveConf before the interface is brought up: its error is returned.
SaveConf(w) ==
    /\ At(w, "saveConf")
    /\ \/ /\ conf' = [conf EXCEPT ![Me(w).ifc] = Me(w).params]
          /\ Stay(w, "syncUp")
       \/ NetFault /\ Finish(w, "err") /\ UNCHANGED conf
    /\ UNCHANGED <<ifaces, peers, dev>>

(***************************************************************************)
(* wg-quick (external).  "up" needs a conf file and no device of that      *)
(* name; when a later command of the script fails it deletes the device it *)
(* created.  "down" needs a conf file and a device; a failing PreDown      *)
(* keeps the device, a failing PostDown has already removed it.            *)
(***************************************************************************)
UpOk(i)   == conf[i] # None /\ dev[i] = None
DownOk(i) == conf[i] # None /\ dev[i] # None

\* QuickUp at the end of SyncInterface.
SyncUp(w) ==
    /\ At(w, "syncUp")
    /\ \/ /\ UpOk(Me(w).ifc)
          /\ dev' = [dev EXCEPT ![Me(w).ifc] = Raised(conf[Me(w).ifc])]
          /\ Finish(w, "synced")
       \/ /\ ~UpOk(Me(w).ifc) \/ NetFault
          /\ Finish(w, "err")
          /\ UNCHANGED dev
    /\ UNCHANGED <<ifaces, peers, conf>>

-----------------------------------------------------------------------------
(***************************************************************************)
(* StartInterface, StopInterface, RestartInterface.                        *)
(***************************************************************************)

\* QuickUp of Start and Restart: a failure falls back to SyncInterface.
QuickUp(w) ==
    /\ At(w, "quickUp")
    /\ \/ /\ UpOk(Me(w).ifc)
          /\ dev' = [dev EXCEPT ![Me(w).ifc] = Raised(conf[Me(w).ifc])]
          /\ Finish(w, "quick")
       \/ /\ ~UpOk(Me(w).ifc) \/ NetFault
          /\ Stay(w, "syncGet")
          /\ UNCHANGED dev
    /\ UNCHANGED <<ifaces, peers, conf>>

\* QuickDown of Stop and Restart.  Restart ignores a failure.
QuickDown(w) ==
    /\ At(w, "quickDown")
    /\ LET i == Me(w).ifc
           after(l) == Stay(w, IF Me(w).op = "restart" THEN "quickUp" ELSE l)
       IN \/ /\ DownOk(i)
             /\ dev' = [dev EXCEPT ![i] = None]
             /\ after("updateIface")
          \/ /\ ~DownOk(i) \/ NetFault
             /\ UNCHANGED dev
             /\ after("stopDown")
          \/ /\ DownOk(i) /\ NetFault
             /\ dev' = [dev EXCEPT ![i] = None]
             /\ after("stopDown")
    /\ UNCHANGED <<ifaces, peers, conf>>

\* Mutant of StopDown: an error of SetDown is ignored.
MutStopDown(w) ==
    /\ At(w, "stopDown")
    /\ \/ dev' = [dev EXCEPT ![Me(w).ifc] =
                    IF @ = None THEN @ ELSE [@ EXCEPT !.up = FALSE]]
       \/ NetFault /\ UNCHANGED dev
    /\ Stay(w, "updateIface")
    /\ UNCHANGED <<ifaces, peers, conf>>

\* SetDown when StopInterface's wg-quick failed: an error ends the request.
StopDown(w) ==
    /\ At(w, "stopDown")
    /\ \/ /\ dev[Me(w).ifc] # None
          /\ dev' = [dev EXCEPT ![Me(w).ifc].up = FALSE]
          /\ Stay(w, "updateIface")
       \/ /\ dev[Me(w).ifc] = None \/ NetFault
          /\ Finish(w, "err")
          /\ UNCHANGED dev
    /\ UNCHANGED <<ifaces, peers, conf>>

\* A database statement fails: every handler returns the error at once.
DbFault(w) ==
    /\ "db" \in Faults
    /\ pc[w] \in {"insertIface", "importPeer", "getIface", "deleteRow",
                  "updateIface", "getPeer", "pollGet", "insertPeer",
                  "deletePeer", "updatePeer", "syncGet", "syncList"}
    /\ At(w, pc[w])
    /\ Finish(w, "err")
    /\ UNCHANGED sys

-----------------------------------------------------------------------------
(***************************************************************************)
(* Restart.  The process dies between two steps and is started again, or   *)
(* the machine reboots and the devices are gone too.  runServe syncs every *)
(* interface before the server listens and only logs the errors.           *)
(***************************************************************************)
Crash ==
    /\ crashes < MaxCrashes
    /\ crashes' = crashes + 1
    /\ \/ UNCHANGED dev
       \/ dev' = [i \in Ifaces |-> None]
    /\ pc' = [w \in Workers |-> "idle"]
    /\ job' = [w \in Workers |-> NoJob]
    /\ result' = [w \in Workers |-> "none"]
    /\ touched' = [w \in Workers |-> FALSE]
    /\ pooled' \in BOOLEAN
    /\ shared' = (shared \/ pooled')
    /\ booting' = {i \in Ifaces : ifaces[i] # None}
    /\ UNCHANGED <<ifaces, peers, conf, history, requests>>

\* SyncAll takes the next interface.
BootSync(w) ==
    /\ \A v \in Workers : pc[v] = "idle"
    /\ \E i \in booting :
        /\ booting' = booting \ {i}
        /\ job' = [job EXCEPT ![w] = NewJob("boot", i, None, None, None)]
    /\ pc' = [pc EXCEPT ![w] = "syncGet"]
    /\ result' = [result EXCEPT ![w] = "none"]
    /\ UNCHANGED <<sys, history, pooled, shared, requests, crashes>>

-----------------------------------------------------------------------------
Arrive(w) == \/ BeginIface(w) \/ BeginCreate(w) \/ BeginImport(w)
             \/ BeginAddPeer(w) \/ BeginPeer(w)

Advance(w) ==
    \/ ReadConf(w) \/ InsertIface(w) \/ ImportPeer(w) \/ GetIface(w)
    \/ UpdateIface(w) \/ NetDelete(w) \/ DeleteRow(w)
    \/ InsertPeer(w) \/ GetPeer(w) \/ PollGet(w) \/ DeletePeer(w)
    \/ UpdatePeer(w) \/ Reject(w)
    \/ SyncGet(w) \/ SyncDown(w) \/ SyncList(w) \/ Exists(w) \/ SyncConf(w)
    \/ SaveAfter(w) \/ SaveConf(w) \/ SyncUp(w)
    \/ QuickUp(w) \/ QuickDown(w) \/ StopDown(w) \/ DbFault(w)

\* History: w starts untouched; a change it makes touches everybody else.
Mark(w) == touched' = [v \in Workers |->
                         IF v = w THEN pc[w] # "idle" /\ touched[w]
                                  ELSE touched[v] \/ sys' # sys]

Next == \/ \E w \in Workers : (Arrive(w) \/ Advance(w) \/ BootSync(w)) /\ Mark(w)
        \/ Crash

Spec == Init /\ [][Next]_vars

\* A handler that runs goes on running, and runServe goes on booting.
Fairness == \A w \in Workers : WF_vars((Advance(w) \/ BootSync(w)) /\ Mark(w))

FairSpec == Spec /\ Fairness

-----------------------------------------------------------------------------
(***************************************************************************)
(* Properties.                                                             *)
(***************************************************************************)

\* The device carries the key, the port and exactly the enabled peers of the
\* database.
DevExact(i) == /\ ifaces[i] # None /\ dev[i] # None
               /\ dev[i].key = ifaces[i].key /\ dev[i].port = ifaces[i].port
               /\ dev[i].peers = Blocks(i)

(***************************************************************************)
(* A request that ended in a successful SyncInterface while nobody else    *)
(* changed the system left the kernel exactly as the database says, and,   *)
(* unless the write of the conf file failed, the file too.  SyncInterface  *)
(* reads, checks and applies in six separate steps; this says that the six *)
(* together do what its comment promises when they are not disturbed, with *)
(* failing commands and after any earlier history.                         *)
(***************************************************************************)
SyncExact ==
    \A w \in Workers :
        (pc[w] = "idle" /\ result[w] \in {"synced", "unsaved"} /\ ~touched[w]) =>
            LET i == job[w].ifc IN
            /\ DevExact(i)
            /\ ifaces[i].enabled
            /\ result[w] = "synced" => conf[i] = ConfOf(ifaces[i], i)

(***************************************************************************)
(* A peer's block appears only in the conf file and the device of the      *)
(* interface the peer was created on, whatever is deleted, re-created,     *)
(* imported or raced meanwhile.                                            *)
(***************************************************************************)
PeersStayHome ==
    \A i \in Ifaces :
        /\ conf[i] # None => \A b \in conf[i].peers : home[b[1]] = i
        /\ dev[i] # None => \A b \in dev[i].peers : home[b[1]] = i

(***************************************************************************)
(* As long as no second database connection has been opened, no peer row   *)
(* outlives its interface: the foreign key of the only connection holds    *)
(* through deletes, restarts and failures.                                 *)
(***************************************************************************)
NoOrphans == \A p \in Peers : peers[p] # None => ifaces[peers[p].iface] # None

NoOrphansUnshared == shared \/ NoOrphans

(***************************************************************************)
(* With one request at a time, a disabled interface comes up only by       *)
(* RestartInterface: neither Start, Sync nor the SyncAll of a restart that *)
(* fell between two steps of a Stop raises one.                            *)
(***************************************************************************)
DisabledUp(i) == /\ ifaces[i] # None /\ ~ifaces[i].enabled
                 /\ dev[i] # None /\ dev[i].up

OnlyRestartRaisesDisabled ==
    [][\A i \in Ifaces : DisabledUp(i)' /\ ~DisabledUp(i) =>
        \E w \in Workers : job[w].op = "restart" /\ job[w].ifc = i]_vars

(***************************************************************************)
(* A row that was deleted does not come back by a write of a row that was  *)
(* read before: while a handler or a poll holds a stale copy of it, only   *)
(* an insert makes an id present again.                                    *)
(***************************************************************************)
NoResurrection ==
    [][/\ \A p \in Peers : (peers[p] = None /\ peers'[p] # None) =>
            \E w \in Workers : /\ pc[w] \in {"insertPeer", "importPeer"}
                               /\ <<pc'[w], job'[w]>> # <<pc[w], job[w]>>
       /\ \A i \in Ifaces : (ifaces[i] = None /\ ifaces'[i] # None) =>
            \E w \in Workers : pc[w] = "insertIface" /\ pc'[w] # pc[w]]_vars

(***************************************************************************)
(* When no command fails, SyncAll at start brings every enabled interface  *)
(* of the database to the kernel, whatever state the last process left.    *)
(***************************************************************************)
BootRestores ==
    \A i \in Ifaces :
        (i \in booting /\ ifaces[i] # None /\ ifaces[i].enabled) ~> DevExact(i)

\* What the tables call for, and the interfaces they enable.
Want == [i \in Ifaces |-> IF ifaces[i] = None THEN None ELSE ConfOf(ifaces[i], i)]
On   == {i \in Ifaces : ifaces[i] # None /\ ifaces[i].enabled}

Recon == INSTANCE Reconciler WITH want <- Want, on <- On, file <- conf, kernel <- dev

(***************************************************************************)
(* With one request at a time the manager implements the reconciler: the   *)
(* steps of SyncInterface, which reads the row and the peers, looks for    *)
(* the device and only then applies and saves what it has built, act as if *)
(* each application happened at one instant; an edit concerns one          *)
(* interface; and one is stored as disabled when its device is down.       *)
(***************************************************************************)
ReconcilerImplemented == Recon!Spec

-----------------------------------------------------------------------------
(***************************************************************************)
(* What comments and tests say of this code and the code does not do.      *)
(***************************************************************************)

(***************************************************************************)
(* StartInterface runs wg-quick on the conf file SyncInterface "updates    *)
(* ... so wg-quick stays in sync": a start nobody disturbed leaves exactly *)
(* the enabled peers in the kernel.                                        *)
(***************************************************************************)
StartedExact ==
    \A w \in Workers : (/\ pc[w] = "idle" /\ ~touched[w]
                        /\ job[w].op = "start" /\ result[w] = "quick")
                       => DevExact(job[w].ifc)
=============================================================================
