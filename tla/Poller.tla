------------------------------- MODULE Poller -------------------------------
(***************************************************************************)
(* The connection poller of wgRift (internal/server/poller.go) with the    *)
(* status it reads from the manager (wg.Manager.GetStatus) and the         *)
(* connection log it writes (internal/store/store_logs.go).                *)
(*                                                                         *)
(* One goroutine compares what the kernel says of every peer with the      *)
(* snapshot of the poll before, in memory, and writes a log row and starts *)
(* an alert for every difference.  Peers come and go, handshakes happen    *)
(* and time passes between its steps, and the process may die at any of    *)
(* them: the snapshots are then rebuilt from the log.                      *)
(***************************************************************************)
EXTENDS Naturals, Sequences

CONSTANTS
    Peers,        \* peer ids, each with the public key generated with it
    Ifaces,       \* interface names
    Rx,           \* values of the transfer counters; 0 is one of them
    Threshold,    \* GetStatus: a handshake younger than this is a connection
    Retention,    \* connection log rows older than this are deleted
    ForeignKeys,  \* subset of BOOLEAN: is the cascade on for the connection used
    Faults,       \* subset of {"db"}: database statements may fail
    MaxTime,      \* bound on the clock
    AlertChoices, \* the sets of events an administrator asks alerts for
    MaxEvents,    \* bound on the changes of a peer after which it stays silent
    MaxCrashes,   \* bound on the number of restarts
    None          \* no row, no snapshot

ASSUME TimesAssumption == /\ Threshold \in Nat \ {0} /\ Retention \in Nat
                          /\ MaxTime \in Nat /\ MaxCrashes \in Nat
                          /\ MaxEvents \in Nat
ASSUME RxAssumption == Rx \subseteq Nat /\ 0 \in Rx

Time   == 0..MaxTime
Events == {"connected", "disconnected"}

ASSUME ChoicesAssumption == /\ ForeignKeys \subseteq BOOLEAN /\ ForeignKeys # {}
                            /\ Faults \subseteq {"db"}
                            /\ AlertChoices \subseteq SUBSET Events

\* A peers row, the kernel's entry of a peer, what GetStatus says of a peer
\* and of its row, the snapshot of the last poll, and a row of the connection
\* log.  alert stands for AlertOnConnect, AlertOnDisconnect and AlertEmails: the
\* events that are mailed, none without an address.
Row      == [iface: Ifaces, rx: Rx, alert: SUBSET Events]
Live     == [hs: Time, rx: Rx]
Status   == [connected: BOOLEAN, hs: Time, rx: Rx, alert: SUBSET Events]
Snapshot == [connected: BOOLEAN, since: Time, rx: Rx]
LogRow   == [peer: Peers, event: Events, at: Time, epoch: 0..MaxCrashes]

\* What this process has told of a peer: its last alert, whether it has found
\* the opposite change since, and, of all processes, the number of changes.
Told     == [event: Events \cup {None}, opposite: BOOLEAN, n: Nat]

ASSUME NoneAssumption == /\ None \notin Row /\ None \notin Live
                         /\ None \notin Status /\ None \notin Snapshot
                         /\ None \notin Peers /\ None \notin Events

VARIABLES
    now,        \* the clock
    row,        \* table peers
    born,       \* history: the ids that were ever inserted
    enabled,    \* table interfaces: the enabled column
    live,       \* the kernel's entry for the peer's public key
    logs,       \* table connection_logs, in the order of its ids
    pc,         \* the next step of the poller goroutine
    lastState,  \* Poller.lastState
    seed,       \* Poller.seedConnected; 0 for a peer that is not in it
    notify,     \* is the channel Poller.notify full
    todo,       \* the enabled interfaces poll has still to visit
    cur,        \* the peer it visits
    status,     \* what GetStatus said of the peers it has still to visit
    alerts,     \* history, per peer: what was told of it
    lost,       \* history: <<peer, epoch>> with a log row that was not written
    crashes     \* number of restarts

poller == <<pc, lastState, seed, todo, cur, status>>
world  == <<now, row, born, enabled, live>>
vars   == <<world, logs, poller, notify, alerts, lost, crashes>>

TypeOK ==
    /\ now \in Time
    /\ row \in [Peers -> Row \cup {None}]
    /\ born \subseteq Peers
    /\ enabled \in [Ifaces -> BOOLEAN]
    /\ live \in [Peers -> Live \cup {None}]
    /\ logs \in Seq(LogRow)
    /\ pc \in {"load", "list", "next", "device", "visit", "stats", "loop"}
    /\ lastState \in [Peers -> Snapshot \cup {None}]
    /\ seed \in [Peers -> Time]
    /\ notify \in BOOLEAN
    /\ todo \subseteq Ifaces
    /\ cur \in Peers \cup {None}
    /\ status \in [Peers -> Status \cup {None}]
    /\ alerts \in [Peers -> Told]
    /\ lost \subseteq Peers \X (0..MaxCrashes)
    /\ crashes \in 0..MaxCrashes

NoneOf(S) == [x \in S |-> None]

\* The rows of a peer, by their places in the log.
RowsOf(p) == {n \in 1..Len(logs) : logs[n].peer = p}

\* DELETE FROM connection_logs: the rows at the places in keep, in their order.
Kept(s, keep) ==
    LET kept[n \in 0..Len(s)] ==
            IF n = 0 THEN <<>>
            ELSE IF n \in keep THEN Append(kept[n - 1], s[n]) ELSE kept[n - 1]
    IN kept[Len(s)]

\* A new installation: no peers, an empty log, the goroutine just started.
Init ==
    /\ now = 0
    /\ row = NoneOf(Peers) /\ born = {} /\ live = NoneOf(Peers)
    /\ enabled \in [Ifaces -> BOOLEAN]
    /\ logs = <<>>
    /\ pc = "load"
    /\ lastState = NoneOf(Peers)
    /\ seed = [p \in Peers |-> 0]
    /\ notify = FALSE
    /\ todo = {} /\ cur = None /\ status = NoneOf(Peers)
    /\ alerts = [p \in Peers |-> [event |-> None, opposite |-> FALSE, n |-> 0]]
    /\ lost = {}
    /\ crashes = 0

-----------------------------------------------------------------------------
(***************************************************************************)
(* What happens around the poller: time, the kernel, and the manager's     *)
(* requests, of which WgManager has the detail.                            *)
(***************************************************************************)
Tick == /\ now < MaxTime /\ now' = now + 1
        /\ UNCHANGED <<row, born, enabled, live, logs, poller, notify, alerts,
                       lost, crashes>>

\* A handshake of a peer the device knows.
Handshake(p) ==
    /\ live[p] # None /\ now > 0 /\ alerts[p].n < MaxEvents
    /\ \E x \in Rx : live' = [live EXCEPT ![p] = [hs |-> now, rx |-> x]]
    /\ UNCHANGED <<now, row, born, enabled, logs, poller, notify, alerts, lost,
                   crashes>>

\* SyncInterface puts a peer's key on the device or takes it off.
SetLive(p) ==
    /\ live' = [live EXCEPT ![p] = IF @ = None THEN [hs |-> 0, rx |-> 0] ELSE None]
    /\ UNCHANGED <<now, row, born, enabled, logs, poller, notify, alerts, lost,
                   crashes>>

AddPeer(p) ==
    /\ p \notin born
    /\ \E i \in Ifaces, a \in AlertChoices :
        row' = [row EXCEPT ![p] = [iface |-> i, rx |-> 0, alert |-> a]]
    /\ born' = born \cup {p}
    /\ UNCHANGED <<now, enabled, live, logs, poller, notify, alerts, lost, crashes>>

\* handleUpdatePeer, of which the poller sees the alerts.
SetAlerts(p) ==
    /\ row[p] # None
    /\ \E a \in AlertChoices : row' = [row EXCEPT ![p].alert = a]
    /\ UNCHANGED <<now, born, enabled, live, logs, poller, notify, alerts, lost,
                   crashes>>

\* DeletePeer, with the log rows of the peer when the cascade is on.
RemovePeer(p) ==
    /\ row[p] # None
    /\ row' = [row EXCEPT ![p] = None]
    /\ \E fk \in ForeignKeys :
        logs' = IF fk THEN Kept(logs, (1..Len(logs)) \ RowsOf(p)) ELSE logs
    /\ UNCHANGED <<now, born, enabled, live, poller, notify, alerts, lost, crashes>>

\* StartInterface and StopInterface.
SetEnabled(i) ==
    /\ enabled' = [enabled EXCEPT ![i] = ~@]
    /\ UNCHANGED <<now, row, born, live, logs, poller, notify, alerts, lost, crashes>>

\* handleInterfaceStatus ends with a Kick: a send that never blocks.
Kick == /\ notify' = TRUE
        /\ UNCHANGED <<world, logs, poller, alerts, lost, crashes>>

-----------------------------------------------------------------------------
(***************************************************************************)
(* The goroutine.                                                          *)
(***************************************************************************)

\* The "connected" rows of a peer that no "disconnected" row follows.
Opening(p) == {n \in RowsOf(p) :
                 /\ logs[n].event = "connected"
                 /\ \A m \in RowsOf(p) : logs[m].event = "disconnected" => m < n}

\* Mutant of LastConnected: the time at which that connection would expire.
MutLastConnected(p) ==
    LET open == Opening(p)
    IN IF open = {} THEN 0
       ELSE logs[CHOOSE n \in open : \A m \in open : m <= n].at + Threshold

\* LastConnectedEvents: the time of the last "connected" row of a peer that
\* has no "disconnected" row after it.
LastConnected(p) ==
    LET open == Opening(p)
    IN IF open = {} THEN 0
       ELSE logs[CHOOSE n \in open : \A m \in open : m <= n].at

\* The select of Run, and the end of a poll.
Wait == /\ pc' = "loop" /\ todo' = {} /\ cur' = None /\ status' = NoneOf(Peers)
        /\ seed' = [p \in Peers |-> 0]

\* Run: load the seed; an error leaves it empty.  Then poll.
LoadSeed ==
    /\ pc = "load"
    /\ \/ seed' = [p \in Peers |-> LastConnected(p)]
       \/ "db" \in Faults /\ UNCHANGED seed
    /\ pc' = "list"
    /\ UNCHANGED <<world, logs, lastState, todo, cur, status, notify, alerts, lost,
                   crashes>>

\* poll: ListInterfaces, the disabled ones skipped.
ListInterfaces ==
    /\ pc = "list"
    /\ \/ /\ todo' = {i \in Ifaces : enabled[i]}
          /\ pc' = "next"
          /\ UNCHANGED <<seed, cur, status>>
       \/ "db" \in Faults /\ Wait
    /\ UNCHANGED <<world, logs, lastState, notify, alerts, lost, crashes>>

\* The next interface; GetStatus reads its peers.  An error, such as that the
\* interface was deleted in the meantime, skips it.
NextInterface ==
    /\ pc = "next"
    /\ IF todo = {} THEN Wait
       ELSE \E i \in todo :
            /\ todo' = todo \ {i}
            /\ \/ /\ pc' = "device"
                  /\ status' = [p \in Peers |->
                        IF row[p] # None /\ row[p].iface = i
                        THEN [connected |-> FALSE, hs |-> 0, rx |-> 0,
                              alert |-> row[p].alert] ELSE None]
               \/ "db" \in Faults /\ UNCHANGED <<pc, status>>
            /\ UNCHANGED <<seed, cur>>
    /\ UNCHANGED <<world, logs, lastState, notify, alerts, lost, crashes>>

\* Mutant of Alive: a peer that ever had a handshake is connected.
MutAlive(l) == l.hs # 0

\* GetStatus: a peer with a recent handshake is connected.
Alive(l) == l.hs # 0 /\ now - l.hs < Threshold

\* GetStatus: the live data of the device, if there is one.
ReadDevice ==
    /\ pc = "device"
    /\ status' = [p \in Peers |->
            IF status[p] = None \/ live[p] = None THEN status[p]
            ELSE [status[p] EXCEPT !.connected = Alive(live[p]),
                                   !.hs = live[p].hs, !.rx = live[p].rx]]
    /\ pc' = "visit"
    /\ UNCHANGED <<world, logs, lastState, seed, todo, cur, notify, alerts, lost,
                   crashes>>

\* The peers that are left of the interface.
Pending == {p \in Peers : status[p] # None}

Prev(p) == lastState[p]

\* A transition: the peer was seen before and the answer has changed.
Transition(p) == Prev(p) # None /\ Prev(p).connected # status[p].connected

EventOf(p) == IF status[p].connected THEN "connected" ELSE "disconnected"

\* shouldAlert, of the row that GetStatus has read.
ShouldAlert(p) == EventOf(p) \in status[p].alert

\* An alert is started for the change, or not.
Telling(p) ==
    LET a == alerts[p]
    IN IF ShouldAlert(p)
       THEN [event |-> EventOf(p), opposite |-> FALSE, n |-> a.n + 1]
       ELSE [event |-> a.event, opposite |-> a.opposite \/ a.event # EventOf(p),
             n |-> a.n + 1]

\* ConnectedSince of the new snapshot.  A connected peer has a handshake, so
\* the fallback to the present time is never taken.
SinceOf(p) == CASE ~status[p].connected -> 0
                [] Prev(p) # None /\ Prev(p).connected -> Prev(p).since
                [] Prev(p) # None -> status[p].hs
                [] seed[p] # 0 -> seed[p]
                [] OTHER -> status[p].hs

\* The inner loop of poll, up to the log row and the alert of a transition.
\* A log row that cannot be written is skipped: the alert starts anyway.
Visit ==
    /\ pc = "visit"
    /\ IF Pending = {}
       THEN pc' = "next" /\ UNCHANGED <<logs, alerts, lost, cur>>
       ELSE \E p \in Pending :
            /\ pc' = "stats" /\ cur' = p
            /\ IF ~Transition(p) THEN UNCHANGED <<logs, alerts, lost>>
               ELSE /\ \/ /\ FALSE \in ForeignKeys \/ row[p] # None
                          /\ logs' = Append(logs, [peer |-> p, event |-> EventOf(p),
                                                   at |-> now, epoch |-> crashes])
                          /\ UNCHANGED lost
                       \/ /\ "db" \in Faults \/ (TRUE \in ForeignKeys /\ row[p] = None)
                          /\ lost' = lost \cup {<<p, crashes>>}
                          /\ UNCHANGED logs
                    /\ alerts' = [alerts EXCEPT ![p] = Telling(p)]
    /\ UNCHANGED <<world, lastState, seed, todo, status, notify, crashes>>

\* UpdatePeer writes back the whole row that GetStatus read, with the new
\* counters: an edit made since is undone.  A row that is gone stays gone.
WrittenBack(p) ==
    IF row[p] = None THEN None
    ELSE [row[p] EXCEPT !.rx = status[p].rx, !.alert = status[p].alert]

\* Mutant of WriteStats: the snapshot is kept unless the counters changed.
MutWriteStats ==
    /\ pc = "stats"
    /\ LET p == cur
           old == IF Prev(p) = None THEN 0 ELSE Prev(p).rx
       IN IF status[p].rx = old /\ Prev(p) # None
          THEN UNCHANGED <<lastState, row>>
          ELSE /\ lastState' = [lastState EXCEPT ![p] =
                      [connected |-> status[p].connected, since |-> SinceOf(p),
                       rx |-> status[p].rx]]
               /\ row' = [row EXCEPT ![p] = WrittenBack(p)]
    /\ status' = [status EXCEPT ![cur] = None]
    /\ pc' = "visit" /\ cur' = None
    /\ UNCHANGED <<now, born, enabled, live, logs, seed, todo, notify, alerts,
                   lost, crashes>>

\* The rest of it: UpdatePeer when the counters changed, and the snapshot.
WriteStats ==
    /\ pc = "stats"
    /\ LET p == cur
           old == IF Prev(p) = None THEN 0 ELSE Prev(p).rx
       IN /\ IF status[p].rx = old THEN UNCHANGED row
             ELSE \/ row' = [row EXCEPT ![p] = WrittenBack(p)]
                  \/ "db" \in Faults /\ UNCHANGED row
          /\ lastState' = [lastState EXCEPT ![p] =
                [connected |-> status[p].connected, since |-> SinceOf(p),
                 rx |-> status[p].rx]]
    /\ status' = [status EXCEPT ![cur] = None]
    /\ pc' = "visit" /\ cur' = None
    /\ UNCHANGED <<now, born, enabled, live, logs, seed, todo, notify, alerts,
                   lost, crashes>>

\* The cases of Run's select.
TickerPoll ==
    /\ pc = "loop" /\ pc' = "list"
    /\ UNCHANGED <<world, logs, lastState, seed, todo, cur, status, notify, alerts,
                   lost, crashes>>

\* Mutant of KickPoll: the notification is dropped.
MutKickPoll ==
    /\ pc = "loop" /\ notify
    /\ notify' = FALSE
    /\ UNCHANGED <<world, logs, poller, alerts, lost, crashes>>

KickPoll ==
    /\ pc = "loop" /\ notify
    /\ notify' = FALSE /\ pc' = "list"
    /\ UNCHANGED <<world, logs, lastState, seed, todo, cur, status, alerts, lost,
                   crashes>>

\* Mutant of Expired: rows of open connections are kept.
MutExpired(r) == r.event = "disconnected" /\ r.at + Retention < now

\* DeleteOldConnectionLogs: recorded_at < now - retention.
Expired(r) == r.at + Retention < now

Cleanup ==
    /\ pc = "loop"
    /\ \/ logs' = Kept(logs, {n \in 1..Len(logs) : ~Expired(logs[n])})
       \/ "db" \in Faults /\ UNCHANGED logs
    /\ UNCHANGED <<world, poller, notify, alerts, lost, crashes>>

\* The process dies and is started again: all that is in memory is gone.
Crash ==
    /\ crashes < MaxCrashes /\ crashes' = crashes + 1
    /\ pc' = "load"
    /\ lastState' = NoneOf(Peers)
    /\ seed' = [p \in Peers |-> 0]
    /\ notify' = FALSE
    /\ todo' = {} /\ cur' = None /\ status' = NoneOf(Peers)
    /\ alerts' = [p \in Peers |->
                    [event |-> None, opposite |-> FALSE, n |-> alerts[p].n]]
    /\ UNCHANGED <<now, row, born, enabled, live, logs, lost>>

-----------------------------------------------------------------------------
(***************************************************************************)
(* The pages of the log: ListPeerConnectionLogs and computeLogDurations.   *)
(* Rows are recorded in the order of their ids, so newest first is the     *)
(* table backwards.  A page is named by the ids of its newest and oldest   *)
(* row, which stand for its offset and its limit.                          *)
(***************************************************************************)

\* The rows of a peer on the page from hi down to lo that are older than k.
Older(p, lo, hi, k) == {j \in lo..hi : j < k /\ logs[j].peer = p}

\* Mutant of Match: the scan goes on to the oldest connect of the page.
MutMatch(p, lo, hi, k) ==
    LET found == {j \in Older(p, lo, hi, k) : logs[j].event = "connected"}
    IN IF found = {} THEN 0 ELSE CHOOSE j \in found : \A m \in found : j <= m

\* The first connect that a scan towards older rows meets; 0 when none is left.
Match(p, lo, hi, k) ==
    LET found == {j \in Older(p, lo, hi, k) : logs[j].event = "connected"}
    IN IF found = {} THEN 0 ELSE CHOOSE j \in found : \A m \in found : j >= m

\* computeLogDurations for row k of a page; 0 when it is not a disconnect or
\* its connect is not on the page.
Duration(lo, hi, k) ==
    LET j == Match(logs[k].peer, lo, hi, k)
    IN IF logs[k].event = "disconnected" /\ j # 0 THEN logs[k].at - logs[j].at ELSE 0

-----------------------------------------------------------------------------
World == \/ Tick \/ Kick
         \/ \E p \in Peers : \/ Handshake(p) \/ SetLive(p)
                            \/ AddPeer(p) \/ SetAlerts(p) \/ RemovePeer(p)
         \/ \E i \in Ifaces : SetEnabled(i)

PollStep == LoadSeed \/ ListInterfaces \/ NextInterface \/ ReadDevice \/ Visit
            \/ WriteStats

Next == World \/ PollStep \/ TickerPoll \/ KickPoll \/ Cleanup \/ Crash

Spec == Init /\ [][Next]_vars

(***************************************************************************)
(* A poll that has begun goes on.  When several cases of a select are      *)
(* ready Go takes each of them with the same probability, so a kick and    *)
(* the hourly cleanup, which are ready again and again, are taken.  The    *)
(* poll interval is the administrator's: the ticker is not assumed here    *)
(* but named by the property that needs it.                                *)
(***************************************************************************)
Fairness == WF_vars(PollStep) /\ SF_vars(KickPoll) /\ SF_vars(Cleanup)

FairSpec == Spec /\ Fairness

-----------------------------------------------------------------------------
(***************************************************************************)
(* Properties.                                                             *)
(***************************************************************************)

\* i and j are neighbours among the log rows that one process wrote of a peer.
Neighbours(i, j) ==
    /\ i < j /\ logs[i].peer = logs[j].peer /\ logs[i].epoch = logs[j].epoch
    /\ \A k \in (i + 1)..(j - 1) : logs[k].peer # logs[i].peer

(***************************************************************************)
(* The log of a peer alternates between "connected" and "disconnected"     *)
(* while one process writes it, whatever is added, removed, enabled or     *)
(* cleaned up between the steps of a poll, as long as no write failed.     *)
(* computeLogDurations pairs the rows on this ground.                      *)
(***************************************************************************)
LogAlternates ==
    \A i, j \in 1..Len(logs) :
        (Neighbours(i, j) /\ <<logs[i].peer, logs[i].epoch>> \notin lost) =>
            logs[i].event # logs[j].event

(***************************************************************************)
(* The duration a page of the log shows for a disconnect is how long that  *)
(* connection lasted, wherever the page begins and ends: the time since    *)
(* the row of the peer before it in the whole log, or nothing when that    *)
(* row is on a later page.  It rests on LogAlternates and so excepts the   *)
(* same failed writes; rows of two processes may be unrelated.             *)
(***************************************************************************)
DurationsTrue ==
    \A i, k \in 1..Len(logs) :
        (/\ Neighbours(i, k) /\ <<logs[k].peer, logs[k].epoch>> \notin lost
         /\ logs[k].event = "disconnected") =>
            \A lo \in 1..k, hi \in k..Len(logs) :
                Duration(lo, hi, k) = IF lo <= i THEN logs[k].at - logs[i].at ELSE 0

(***************************************************************************)
(* A process does not start the same alert of a peer again before it has   *)
(* found the opposite change, not even when log rows could not be written  *)
(* or the peer left and came back.  That change has an alert of its own    *)
(* only if the row that was read asked for one (AlertOnConnect,            *)
(* AlertOnDisconnect, AlertEmails): a peer with one kind of alert gets the *)
(* same one every time.                                                    *)
(***************************************************************************)
AlertsAlternate ==
    [][\A p \in Peers :
        (/\ alerts'[p].n > alerts[p].n /\ ~alerts'[p].opposite
         /\ alerts'[p].event = alerts[p].event) => alerts[p].opposite]_vars

(***************************************************************************)
(* A Kick is followed by a whole poll, even one that arrives while the     *)
(* channel is full or a poll is under way, and without help of the ticker. *)
(***************************************************************************)
KickServed == notify ~> pc = "list"

\* The peer is in the database on an enabled interface and has no connection.
Gone(p) == /\ row[p] # None /\ enabled[row[p].iface]
           /\ live[p] # None => (live[p].hs = 0 \/ live[p].hs + Threshold <= now)

(***************************************************************************)
(* When no statement fails and the ticker goes on ticking, a peer that is  *)
(* gone for good is recorded as disconnected in the end: by age, by        *)
(* removal from the device or across a restart.                            *)
(***************************************************************************)
DisconnectNoticed ==
    ([]<><<TickerPoll>>_vars) =>
        \A p \in Peers : <>[]Gone(p) =>
            <>[](lastState[p] # None /\ ~lastState[p].connected)

(***************************************************************************)
(* A log row past its retention is deleted in the end.                     *)
(***************************************************************************)
ExpiredLogsGo ==
    (\E k \in 1..Len(logs) : logs[k].at + Retention < now) ~>
        (\A k \in 1..Len(logs) : logs[k].at + Retention >= now)
=============================================================================
