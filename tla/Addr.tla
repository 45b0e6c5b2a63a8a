-------------------------------- MODULE Addr --------------------------------
(***************************************************************************)
(* Tunnel addresses: the peer forms of ui/web/peer_form.go, which suggest  *)
(* and check an address, the handlers that check it again and write the    *)
(* row (handler_peers.go, handler_interfaces.go, IsTunnelIPInUse in        *)
(* store.go), and the configuration file made of the rows.                 *)
(*                                                                         *)
(* A process is a browser tab with the handler of the request it waits     *)
(* for.  The form knows the addresses of the page it was opened on; the    *)
(* handler asks the database; the row is written one statement later.      *)
(* Addresses are numbers of two bytes, of which only the base is small.    *)
(***************************************************************************)
EXTENDS ConfFile, FiniteSets

CONSTANTS
    Tabs,         \* browser tabs
    Ids,          \* peer ids that can ever be generated
    ByteBase,     \* number of values of a byte
    Subnets,      \* addresses of the interface: [ip, size of the subnet]
    Foreign,      \* addresses that belong to other interfaces and their peers
    Picks,        \* addresses a user may type
    NetChoices,   \* networks a user may enter: lists of addresses
    Names,        \* peer names
    Existing,     \* lists of rows an earlier process may have left
    Hooks,        \* PostUp commands of the interface
    MaxRequests,  \* bound on the number of forms that are submitted
    MaxPeers      \* bound on the number of rows

Addrs == 0..(ByteBase * ByteBase - 1)
ASSUME AddrAssumption == /\ ByteBase \in Nat \ {0} /\ MaxRequests \in Nat
                         /\ MaxPeers \in Nat /\ Foreign \subseteq Addrs
                         /\ Picks \subseteq Addrs \cup {None}
                         /\ Subnets \subseteq [ip: Addrs, size: Nat \ {0}]

\* A prefix length makes the size a power of two: it divides a byte, or is made
\* of whole bytes and divides the address space.
ASSUME SizeAssumption ==
    \A s \in Subnets : \/ ByteBase % s.size = 0
                       \/ s.size % ByteBase = 0 /\ (ByteBase * ByteBase) % s.size = 0

\* A peers row.  ep is the endpoint, ka the keepalive, alert the alert columns.
Row == [id: Ids \cup {None}, name: Names \cup {None}, addr: Addrs \cup {None}, nets: Seq(Addrs),
        ka: Nat, ep: STRING \cup {None}, alert: BOOLEAN]
\* A form: what it shows, the addresses it takes for used, and the row it was
\* opened for.
Form == [row: Row, used: SUBSET Addrs, was: Row \cup {None}]
\* The primary key of the table, and what the handlers accept for networks.
ASSUME ExistingAssumption ==
    \A s \in Existing : /\ s \in Seq(Row) /\ Len(s) <= MaxPeers
                        /\ \A n \in 1..Len(s) : s[n].id \in Ids
                        /\ \A m, n \in 1..Len(s) : s[m].id = s[n].id => m = n
ASSUME NetsAssumption == NetChoices \subseteq Seq(Addrs)
ASSUME NoneAssumption == None \notin Addrs /\ None \notin Names /\ None \notin Ids /\ None \notin Row
\* The settings of the interface: its commands, and a key that is not empty.
ASSUME HooksAssumption == Hooks \in Seq(STRING) /\ None # "key"

VARIABLES
    iface,     \* the row of the interface
    rows,      \* its peers, in the order of their creation
    pc, form,  \* per tab: its next step and its form
    job,       \* per tab: the row or the interface the handler will write
    born,      \* history: ids ever generated
    raced,     \* history: a write between the reads and the write of another
    requests

vars == <<iface, rows, pc, form, job, born, raced, requests>>

RowSet == {rows[n] : n \in 1..Len(rows)}

TypeOK ==
    /\ iface \in Subnets
    /\ rows \in Seq(Row) /\ Len(rows) <= MaxPeers /\ {r.id : r \in RowSet} \subseteq born
    /\ pc \in [Tabs -> {"idle", "form", "check", "insert", "get", "write", "move"}]
    /\ form \in [Tabs -> Form \cup {None}]
    /\ job \in [Tabs -> Row \cup Subnets \cup {None}]
    /\ born \subseteq Ids /\ raced \in BOOLEAN
    /\ requests \in 0..MaxRequests

AddrsOf(S) == {r.addr : r \in {q \in S : q.addr # None}}
Others(id) == {r \in RowSet : r.id # id}

\* No address is given twice.
Distinct == \A r \in RowSet : r.addr = None \/ r.addr \notin
                AddrsOf(Others(r.id)) \cup {iface.ip} \cup Foreign

Init ==
    /\ iface \in Subnets
    /\ rows \in Existing /\ Distinct
    /\ pc = [t \in Tabs |-> "idle"]
    /\ form = [t \in Tabs |-> None] /\ job = [t \in Tabs |-> None]
    /\ born = {rows[n].id : n \in 1..Len(rows)}
    /\ raced = FALSE /\ requests = 0

-----------------------------------------------------------------------------
(***************************************************************************)
(* The arithmetic of the form.                                             *)
(***************************************************************************)

\* Mutant of Network: the interface's own address.
MutNetwork(i) == i.ip
\* The address of the subnet: ip & mask.
Network(i) == i.ip - (i.ip % i.size)

\* The n-th address after base, added byte by byte without a carry.
Plus(base, n) ==
    LET high == (base \div ByteBase) + (n \div ByteBase)
        low  == (base % ByteBase) + (n % ByteBase)
    IN (high % ByteBase) * ByteBase + (low % ByteBase)

\* nextAvailableIP: the first address after the network's that is not used,
\* short of the last one, which is the broadcast address.
NextAvailable(i, used) ==
    LET hosts == {n \in 1..(i.size - 1) : n < i.size - 1}
        free  == {n \in hosts : Plus(Network(i), n) \notin used \cup {i.ip}}
    IN IF free = {} THEN None
       ELSE Plus(Network(i), CHOOSE n \in free : \A m \in free : n <= m)

\* formatAvailableIPs: what the page says is left; None for /31 and /32.
Available(i, count) ==
    IF i.size < 4 THEN None
    ELSE LET left == i.size - 3 IN IF left > count THEN left - count ELSE 0

\* mergeAllowedIPStrings: the tunnel address first, without duplicates.
Merged(r) == IF r.addr = None THEN r.nets
             ELSE <<r.addr>> \o SelectSeq(r.nets, LAMBDA a : a # r.addr)

BlockOf(r) == [name |-> r.name, publickey |-> r.id, allowedips |-> Merged(r),
               endpoint |-> r.ep, persistentkeepalive |-> r.ka]
IfaceOf(i) == [privatekey |-> "key", address |-> <<i.ip, i.size>>,
               listenport |-> 51820, mtu |-> 1420, postup |-> Hooks]

-----------------------------------------------------------------------------
Goto(t, l) == pc' = [pc EXCEPT ![t] = l]

\* PeerForm: an empty form with the next address.
OpenAdd(t) ==
    /\ pc[t] = "idle" /\ Goto(t, "form")
    /\ LET used == AddrsOf(RowSet) \cup {iface.ip}
       IN form' = [form EXCEPT ![t] =
             [row |-> [id |-> None, name |-> None, addr |-> NextAvailable(iface, used),
                       nets |-> <<>>, ka |-> 25, ep |-> None, alert |-> FALSE],
              used |-> used, was |-> None]]
    /\ UNCHANGED <<iface, rows, job, born, raced, requests>>

\* Mutant of Prefill: the alert switches start off.
MutPrefill(r) == [r EXCEPT !.ka = IF @ > 0 THEN @ ELSE 25, !.ep = None, !.alert = FALSE]
\* PeerEditForm: the row; no keepalive shows as 25, and there is no endpoint.
Prefill(r) == [r EXCEPT !.ka = IF @ > 0 THEN @ ELSE 25, !.ep = None]

OpenEdit(t) ==
    /\ pc[t] = "idle" /\ Goto(t, "form")
    /\ \E r \in RowSet : form' = [form EXCEPT ![t] =
          [row |-> Prefill(r), used |-> AddrsOf(Others(r.id)) \cup {iface.ip},
           was |-> r]]
    /\ UNCHANGED <<iface, rows, job, born, raced, requests>>

Close(t) ==
    /\ pc[t] = "form" /\ Goto(t, "idle") /\ form' = [form EXCEPT ![t] = None]
    /\ UNCHANGED <<iface, rows, job, born, raced, requests>>

\* Networks left empty become the tunnel address.
Filled(r) == [r EXCEPT !.nets = IF @ = <<>> /\ r.addr # None THEN <<r.addr>> ELSE @]

\* The user edits the fields and presses the button; the checks of doAdd and
\* doSave, which look at the addresses the form was opened with.
Submit(t) ==
    /\ pc[t] = "form" /\ requests < MaxRequests
    /\ requests' = requests + 1
    /\ \E a \in Picks \cup {form[t].row.addr}, nm \in Names \cup {form[t].row.name},
          ns \in NetChoices \cup {form[t].row.nets} :
         LET r == Filled([form[t].row EXCEPT !.addr = a, !.name = nm, !.nets = ns])
         IN /\ a \notin form[t].used /\ r.nets # <<>>
            /\ form[t].was = None => nm # None
            /\ form' = [form EXCEPT ![t].row = r]
    /\ Goto(t, IF form[t].was = None THEN "check" ELSE "get")
    /\ UNCHANGED <<iface, rows, job, born, raced>>

-----------------------------------------------------------------------------
(***************************************************************************)
(* The handlers.                                                           *)
(***************************************************************************)

\* Mutant of InUse: other interfaces are not looked at.
MutInUse(a, id) == a # None /\ (a \in AddrsOf(Others(id)) \/ a = iface.ip)
\* IsTunnelIPInUse, with the row id left out.  Its query of the peers and that of
\* the interfaces are one step here: a row written in between is that of a request
\* that meets this one.
InUse(a, id) == a # None /\ (a \in AddrsOf(Others(id)) \/ a = iface.ip \/ a \in Foreign)

\* A request that has read what it will decide or has decided by.
Decided(t) == pc[t] \in {"insert", "write", "move"}
              \/ (pc[t] = "check" /\ form[t].was # None)
Race(t) == raced' = (raced \/ \E u \in Tabs \ {t} : Decided(u))

\* A validation error: the form stays open.
Refuse(t) == /\ Goto(t, "form") /\ job' = [job EXCEPT ![t] = None]
             /\ UNCHANGED <<iface, rows, form, born, raced, requests>>
\* Success: the form closes.
Done(t) == /\ Goto(t, "idle") /\ form' = [form EXCEPT ![t] = None]
           /\ job' = [job EXCEPT ![t] = None]

\* handleUpdatePeer: GetPeer, and the fields of the request.  An empty name,
\* address or network list keeps the stored one.
Keep(new, empty, old) == IF new = empty THEN old ELSE new
GetPeer(t) ==
    /\ pc[t] = "get"
    /\ LET f == form[t].row
           found == {r \in RowSet : r.id = f.id}
       IN \/ found = {} /\ Refuse(t)
          \/ \E r \in found :
               /\ job' = [job EXCEPT ![t] =
                    [f EXCEPT !.name = Keep(f.name, None, r.name),
                              !.addr = Keep(f.addr, None, r.addr),
                              !.nets = Keep(f.nets, <<>>, r.nets)]]
               /\ Goto(t, IF f.addr \in {None, r.addr} THEN "write" ELSE "check")
               /\ UNCHANGED <<iface, rows, form, born, raced, requests>>

\* The check of both handlers; an update that keeps its address makes none.
Check(t) ==
    /\ pc[t] = "check"
    /\ LET f == form[t].row
       IN \/ InUse(f.addr, f.id) /\ Refuse(t)
          \/ /\ ~InUse(f.addr, f.id)
             /\ Goto(t, IF form[t].was = None THEN "insert" ELSE "write")
             /\ UNCHANGED <<iface, rows, form, job, born, raced, requests>>

\* Mutant of Stored: the row keeps the id of the request, which has none.
MutStored(r, id) == r
\* The row the request describes, under the id that is generated for it.
Stored(r, id) == [r EXCEPT !.id = id]

\* AddPeer: the id and the keys are generated and the row is inserted.
Insert(t) ==
    /\ pc[t] = "insert" /\ Len(rows) < MaxPeers
    /\ \E id \in Ids \ born :
         /\ rows' = Append(rows, Stored(form[t].row, id))
         /\ born' = born \cup {id}
    /\ Race(t) /\ Done(t)
    /\ UNCHANGED <<iface, requests>>

\* UpdatePeer: the whole row, if it is still there.
Write(t) ==
    /\ pc[t] = "write"
    /\ rows' = [n \in 1..Len(rows) |-> IF rows[n].id = job[t].id THEN job[t] ELSE rows[n]]
    /\ Race(t) /\ Done(t)
    /\ UNCHANGED <<iface, born, requests>>

RemovePeer(id) ==
    /\ \E n \in 1..Len(rows) : rows[n].id = id /\ rows' = RemoveAt(rows, n)
    /\ UNCHANGED <<iface, pc, form, job, born, raced, requests>>

\* handleUpdateInterface: the check, unless the address stays ...
CheckMove(t) ==
    /\ pc[t] = "idle" /\ requests < MaxRequests /\ requests' = requests + 1
    /\ \E s \in Subnets :
         /\ s.ip = iface.ip \/ s.ip \notin AddrsOf(RowSet) \cup Foreign
         /\ job' = [job EXCEPT ![t] = s]
    /\ Goto(t, "move")
    /\ UNCHANGED <<iface, rows, form, born, raced>>

\* ... and UpdateInterface.
Move(t) ==
    /\ pc[t] = "move" /\ iface' = job[t]
    /\ Race(t) /\ Done(t)
    /\ UNCHANGED <<rows, born, requests>>

-----------------------------------------------------------------------------
Next ==
    \/ \E t \in Tabs : \/ OpenAdd(t) \/ OpenEdit(t) \/ Close(t) \/ Submit(t)
                       \/ GetPeer(t) \/ Check(t) \/ Insert(t) \/ Write(t)
                       \/ CheckMove(t) \/ Move(t)
    \/ \E id \in Ids : RemovePeer(id)

Spec == Init /\ [][Next]_vars

-----------------------------------------------------------------------------
(***************************************************************************)
(* Properties.                                                             *)
(***************************************************************************)

(***************************************************************************)
(* No tunnel address is given to two peers, to a peer and its interface or *)
(* to one that another interface has, however stale the forms were that    *)
(* asked for it.  Excepted are requests that meet: the handlers check      *)
(* first and write afterwards, and an update writes back a row it read.    *)
(***************************************************************************)
Unique == raced \/ Distinct

\* The addresses of the subnet that a peer may have.
HostsOf(i) ==
    LET inside == {a \in Addrs : a \div i.size = i.ip \div i.size}
    IN {a \in inside : (\E b \in inside : b < a) /\ (\E b \in inside : b > a)}

(***************************************************************************)
(* A new form suggests the lowest address of the subnet that is free, or   *)
(* none when there is none, for every prefix length and wherever the       *)
(* subnet lies; and when the peers have addresses of the subnet the number *)
(* of addresses the page calls available is the number that is free.       *)
(***************************************************************************)
SuggestsLowestFree ==
    [][\A t \in Tabs : (pc[t] = "idle" /\ pc'[t] = "form" /\ form'[t].was = None) =>
        LET taken == AddrsOf(RowSet)
            free  == HostsOf(iface) \ (taken \cup {iface.ip})
            a     == form'[t].row.addr
        IN /\ IF free = {} THEN a = None ELSE a \in free /\ \A b \in free : a <= b
           /\ (/\ iface.size >= 4 /\ iface.ip \in HostsOf(iface) \ taken
               /\ taken \subseteq HostsOf(iface)
               /\ Cardinality(taken) = Len(rows)) =>
                    Available(iface, Len(rows)) = Cardinality(free)]_vars

\* What the request says of a field by leaving it empty: nothing.
Blank == [name |-> None, addr |-> None, nets |-> <<>>]

(***************************************************************************)
(* Editing a peer that nobody else changes meanwhile leaves alone what the *)
(* user leaves alone: the form shows the row, and the handler keeps what   *)
(* the request does not say.  Excepted are two columns the form does lose: *)
(* the endpoint, which it does not send and the handler then clears, and a *)
(* keepalive of zero, which it shows as 25.  A field that is empty on both *)
(* sides takes what the handler found, which, when requests met, may be a  *)
(* value that came and went while the form was open.                       *)
(***************************************************************************)
EditKeepsRow ==
    [][\A t \in Tabs : (pc[t] = "write" /\ pc'[t] = "idle") =>
        LET was == form[t].was
            new == CHOOSE r \in {rows'[n] : n \in 1..Len(rows')} : r.id = was.id
        IN was \in RowSet =>
             /\ new.alert = was.alert
             /\ was.ka > 0 => new.ka = was.ka
             /\ \A k \in DOMAIN Blank :
                  (form[t].row[k] = was[k] /\ ~(raced /\ was[k] = Blank[k]))
                    => new[k] = was[k]]_vars

\* What the peers of a file should be: the n-th name belongs to the n-th peer.
Blocks == [n \in 1..Len(rows) |-> BlockOf(rows[n])]

\* A peer without a name, followed by one whose name stands above it, takes
\* that name too: ParseConfig cannot tell it from a comment of its own.
Misread(above) == \E n \in 1..(Len(rows) - 1) :
                    rows[n].name = None /\ rows[n + 1].name # None /\ above[n + 1]

(***************************************************************************)
(* The file made of the rows reads back as the same interface and the same *)
(* peers, in order and with their names, whether these stand inside the    *)
(* sections, as the code writes them, or above them, as people do.  It is  *)
(* looked at when no form is open: every form can be finished or closed,   *)
(* so no rows are missed.                                                  *)
(***************************************************************************)
ConfRoundTrip == (\A t \in Tabs : pc[t] = "idle") =>
    LET blocks == Blocks
        face   == IfaceOf(iface)
    IN \A above \in [1..Len(rows) -> BOOLEAN] :
        Misread(above)
        \/ ParseConfig(ServerConf(face, blocks, above)) = [iface |-> face, peers |-> blocks]
=============================================================================
