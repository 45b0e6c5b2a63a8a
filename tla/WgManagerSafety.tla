---------------------------- MODULE WgManagerSafety ----------------------------
(***************************************************************************)
(* More theorems about WgManager: where the blocks of a peer appear, which *)
(* rows there are, and what raises a disabled interface.                   *)
(***************************************************************************)
EXTENDS WgManagerProofs

-----------------------------------------------------------------------------
(***************************************************************************)
(* PeersStayHome.  The induction carries that a peer's row, the copy of it *)
(* a request holds and the blocks a request has read or built all name the *)
(* interface the peer's id was generated for.                              *)
(***************************************************************************)
RowsHome == \A p \in Peers : peers[p] # None => peers[p].iface = home[p]

HomeOf(w) ==
    /\ pc[w] = "getIface" /\ job[w].op = "addPeer" => home[job[w].pid] = job[w].ifc
    /\ pc[w] = "insertPeer" => home[job[w].pid] = job[w].ifc
    /\ pc[w] = "updatePeer" => job[w].prow.iface = home[job[w].pid]
    /\ (pc[w] \in WithParams \/ (pc[w] = "insertIface" /\ job[w].op # "create")) =>
            \A b \in job[w].params.peers : home[b[1]] = job[w].ifc

HomeInv == RowsHome /\ PeersStayHome /\ \A w \in Workers : HomeOf(w)

LEMMA InitHome == Init => HomeInv
<1> SUFFICES ASSUME Init PROVE HomeInv
  OBVIOUS
<1>1. RowsHome /\ \A w \in Workers : HomeOf(w)
  BY DEF Init, RowsHome, HomeOf, WithParams
<1>2. ASSUME NEW i \in Ifaces, conf[i] # None, NEW b \in conf[i].peers PROVE home[b[1]] = i
  <2>1. i \in Preset /\ conf[i] \in Conf
    BY <1>2 DEF Init
  <2>2. b[1] \in Peers
    BY <1>2, <2>1 DEF Conf, Block
  <2> QED BY <1>2, <2>1, <2>2 DEF Init
<1>3. ASSUME NEW i \in Ifaces, dev[i] # None
      PROVE  conf[i] # None /\ dev[i].peers = conf[i].peers
  <2>1. PICK R \in SUBSET Preset :
            dev = [j \in Ifaces |-> IF j \in R THEN Raised(conf[j]) ELSE None]
    BY DEF Init
  <2>2. i \in R /\ dev[i] = Raised(conf[i])
    BY <1>3, <2>1
  <2> QED BY <2>2 DEF Init, Raised
<1>4. PeersStayHome
  BY <1>2, <1>3 DEF PeersStayHome
<1> QED BY <1>1, <1>4 DEF HomeInv

\* The files and the devices, and the rows, when a step leaves them alone.
LEMMA FilesFrame ==
    ASSUME PeersStayHome, UNCHANGED <<conf, dev, home>> PROVE PeersStayHome'
BY DEF PeersStayHome

LEMMA RowsFrame == ASSUME RowsHome, UNCHANGED <<peers, home>> PROVE RowsHome'
BY DEF RowsHome

\* At most labels a request holds nothing that names a home.
HomeLabels == WithParams \cup {"getIface", "insertPeer", "updatePeer", "insertIface"}

LEMMA HomeVoid == ASSUME NEW w, pc'[w] \notin HomeLabels PROVE HomeOf(w)'
BY DEF HomeOf, HomeLabels

\* The blocks a request holds pass from one label to the next.
LEMMA HomeKeep ==
    ASSUME NEW w, HomeOf(w), pc[w] \in WithParams, pc'[w] \in WithParams,
           job'[w] = job[w], home' = home
    PROVE  HomeOf(w)'
BY DEF HomeOf, WithParams

\* What is left to show for a step of a request under way.
LEMMA HomeAdvance ==
    ASSUME HomeInv, NEW w \in Workers, Others(w), UNCHANGED home,
           RowsHome', PeersStayHome', HomeOf(w)'
    PROVE  HomeInv'
<1>1. ASSUME NEW v \in Workers \ {w} PROVE HomeOf(v)'
  BY DEF HomeInv, HomeOf, Others
<1> QED BY <1>1 DEF HomeInv

-----------------------------------------------------------------------------
\* Steps that change none of the copies.
LEMMA ReadsHome ==
    ASSUME Inv1, HomeInv, NEW w \in Workers,
           \/ SyncGet(w) \/ Exists(w) \/ Reject(w) \/ DbFault(w)
    PROVE  HomeInv'
<1>1. TypeReq /\ HomeOf(w)
  BY Inv1Facts DEF HomeInv
<1>2. UNCHANGED <<sys, home>> /\ Others(w)
  <2>1. UNCHANGED <<sys, home>>
    BY DEF SyncGet, Exists, Reject, DbFault, At, history
  <2> QED BY <1>1, <2>1, AdvanceOthers DEF Advance
<1>3. HomeOf(w)'
  <2>1. CASE Exists(w)
    <3>1. /\ pc[w] = "exists" /\ job'[w] = job[w] /\ pc'[w] \in {"syncConf", "saveConf"}
      BY <1>1, <2>1 DEF Exists, At, Stay, Goto, TypeReq
    <3> QED BY <1>1, <1>2, <3>1, HomeKeep DEF WithParams
  <2>2. CASE ~Exists(w)
    <3>1. pc'[w] \in {"idle", "syncList", "syncDown"}
      BY <1>1, <2>2 DEF SyncGet, Reject, DbFault, Finish, Goto, TypeReq
    <3> QED BY <3>1, HomeVoid DEF HomeLabels, WithParams
  <2> QED BY <2>1, <2>2
<1>4. RowsHome' /\ PeersStayHome'
  BY <1>2, RowsFrame, FilesFrame DEF HomeInv, sys
<1> QED BY <1>2, <1>3, <1>4, HomeAdvance

\* Reads that fill the local variables.
LEMMA ReadConfHome == ASSUME Inv1, HomeInv, NEW w \in Workers, ReadConf(w) PROVE HomeInv'
<1>1. TypeReq /\ job[w] \in Job /\ pc[w] = "readConf" /\ job[w].ifc \in Ifaces
  BY Inv1Facts DEF TypeReq, ReadConf, At, Inv1, Locals, LocalsOf, WithIface, Labels
<1>2. UNCHANGED <<sys, home>> /\ Others(w)
  BY <1>1, AdvanceOthers DEF Advance, ReadConf, At, history
<1> DEFINE c == conf[job[w].ifc]
<1>3. HomeOf(w)'
  <2>1. CASE c = None
    <3>1. pc'[w] = "idle"
      BY <1>1, <2>1 DEF ReadConf, Me, Finish, TypeReq
    <3> QED BY <3>1, HomeVoid DEF HomeLabels, WithParams
  <2>2. CASE c # None
    <3>1. /\ pc'[w] = "insertIface"
          /\ job' = [job EXCEPT ![w] = [@ EXCEPT !.params = c,
                            !.irow = [key |-> c.key, port |-> c.port,
                                      link |-> c.link, enabled |-> TRUE]]]
      BY <1>1, <2>2 DEF ReadConf, Me, Goto, TypeReq
    <3>2. job'[w].params = c /\ job'[w].ifc = job[w].ifc
      BY <1>1, <3>1 DEF TypeReq, Job
    <3>3. \A b \in c.peers : home[b[1]] = job[w].ifc
      BY <1>1, <2>2 DEF HomeInv, PeersStayHome
    <3> QED BY <1>2, <3>1, <3>2, <3>3 DEF HomeOf, WithParams
  <2> QED BY <2>1, <2>2
<1>4. RowsHome' /\ PeersStayHome'
  BY <1>2, RowsFrame, FilesFrame DEF HomeInv, sys
<1> QED BY <1>2, <1>3, <1>4, HomeAdvance

LEMMA GetIfaceHome == ASSUME Inv1, HomeInv, NEW w \in Workers, GetIface(w) PROVE HomeInv'
<1>1. TypeReq /\ job[w] \in Job /\ pc[w] = "getIface"
  BY Inv1Facts DEF TypeReq, GetIface, At
<1>2. UNCHANGED <<sys, home>> /\ Others(w)
  BY <1>1, AdvanceOthers DEF Advance, GetIface, At, history
<1> DEFINE row == ifaces[job[w].ifc]
<1>3. HomeOf(w)'
  <2>1. CASE row = None
    <3>1. pc'[w] = "idle"
      BY <1>1, <2>1 DEF GetIface, Me, Finish, TypeReq
    <3> QED BY <3>1, HomeVoid DEF HomeLabels, WithParams
  <2>2. CASE row # None
    <3>1. /\ pc'[w] \in {"netDelete", "insertPeer", "quickDown", "updateIface"}
          /\ pc'[w] = "insertPeer" => job[w].op = "addPeer"
          /\ job' = [job EXCEPT ![w].irow = row]
      BY <1>1, <2>2 DEF GetIface, Me, Goto, TypeReq
    <3>2. job'[w].pid = job[w].pid /\ job'[w].ifc = job[w].ifc
      BY <1>1, <3>1 DEF TypeReq, Job
    <3> QED BY <1>1, <1>2, <3>1, <3>2 DEF HomeInv, HomeOf, WithParams
  <2> QED BY <2>1, <2>2
<1>4. RowsHome' /\ PeersStayHome'
  BY <1>2, RowsFrame, FilesFrame DEF HomeInv, sys
<1> QED BY <1>2, <1>3, <1>4, HomeAdvance

LEMMA GetPeerHome ==
    ASSUME Inv1, HomeInv, NEW w \in Workers, GetPeer(w) \/ PollGet(w) PROVE HomeInv'
<1>1. /\ TypeReq /\ job[w] \in Job /\ pc[w] \in {"getPeer", "pollGet"}
      /\ job[w].pid \in Peers
  BY Inv1Facts DEF TypeReq, GetPeer, PollGet, At, Inv1, Locals, LocalsOf, WithPeer
<1>2. UNCHANGED <<sys, home>> /\ Others(w)
  BY <1>1, AdvanceOthers DEF Advance, GetPeer, PollGet, At, history
<1> DEFINE row == peers[job[w].pid]
<1>3. HomeOf(w)'
  <2>1. CASE Finish(w, "err") \/ Finish(w, "ok")
    <3>1. pc'[w] = "idle"
      BY <1>1, <2>1 DEF Finish, TypeReq
    <3> QED BY <3>1, HomeVoid DEF HomeLabels, WithParams
  <2>2. CASE /\ row # None /\ pc'[w] \in {"deletePeer", "updatePeer"}
             /\ job' = [job EXCEPT ![w] = [@ EXCEPT !.prow = row, !.ifc = row.iface]]
    <3>1. job'[w].pid = job[w].pid /\ job'[w].prow = row
      BY <1>1, <2>2 DEF TypeReq, Job
    <3>2. row.iface = home[job[w].pid]
      BY <1>1, <2>2 DEF HomeInv, RowsHome
    <3> QED BY <1>2, <2>2, <3>1, <3>2 DEF HomeOf, WithParams
  <2> QED BY <1>1, <2>1, <2>2 DEF GetPeer, PollGet, Me, Goto, TypeReq
<1>4. RowsHome' /\ PeersStayHome'
  BY <1>2, RowsFrame, FilesFrame DEF HomeInv, sys
<1> QED BY <1>2, <1>3, <1>4, HomeAdvance

LEMMA SyncListHome == ASSUME Inv1, HomeInv, NEW w \in Workers, SyncList(w) PROVE HomeInv'
<1>1. TypeReq /\ job[w] \in Job
  BY Inv1Facts DEF TypeReq
<1>2. UNCHANGED <<sys, home>> /\ Others(w)
  BY <1>1, AdvanceOthers DEF Advance, SyncList, At, history
<1>3. /\ pc'[w] = "exists"
      /\ job' = [job EXCEPT ![w].params = ConfOf(job[w].irow, job[w].ifc)]
  BY <1>1 DEF SyncList, Me, Goto, TypeReq
<1>4. job'[w].params = ConfOf(job[w].irow, job[w].ifc) /\ job'[w].ifc = job[w].ifc
  BY <1>1, <1>3 DEF TypeReq, Job
<1>5. \A b \in Blocks(job[w].ifc) : home[b[1]] = job[w].ifc
  BY DEF Blocks, HomeInv, RowsHome
<1>6. HomeOf(w)'
  BY <1>2, <1>3, <1>4, <1>5 DEF HomeOf, ConfOf, WithParams
<1>7. RowsHome' /\ PeersStayHome'
  BY <1>2, RowsFrame, FilesFrame DEF HomeInv, sys
<1> QED BY <1>2, <1>6, <1>7, HomeAdvance

\* Steps that write an interface row.
LEMMA IfaceRowHome ==
    ASSUME Inv1, HomeInv, NEW w \in Workers, InsertIface(w) \/ UpdateIface(w)
    PROVE  HomeInv'
<1>1. TypeReq /\ job[w] \in Job /\ HomeOf(w)
  BY Inv1Facts DEF TypeReq, HomeInv
<1>2. UNCHANGED <<peers, conf, dev, home>> /\ Others(w)
  BY <1>1, AdvanceOthers DEF Advance, InsertIface, UpdateIface, At, history
<1>3. HomeOf(w)'
  <2>1. CASE pc'[w] \in {"idle", "quickUp"}
    BY <2>1, HomeVoid DEF HomeLabels, WithParams
  <2>2. CASE /\ pc[w] = "insertIface" /\ job[w].op # "create"
             /\ pc'[w] = "importPeer" /\ job'[w] = job[w]
    BY <1>1, <1>2, <2>2 DEF HomeOf, WithParams
  <2> QED BY <1>1, <2>1, <2>2 DEF InsertIface, UpdateIface, At, Me, Stay, Goto, Finish, TypeReq
<1>4. RowsHome' /\ PeersStayHome'
  BY <1>2, RowsFrame, FilesFrame DEF HomeInv
<1> QED BY <1>2, <1>3, <1>4, HomeAdvance

\* Steps that change the device or the file of the request's interface: it gets
\* the blocks the request has built, those of the other copy, or no new ones.
LEMMA DevHome ==
    ASSUME Inv1, HomeInv, NEW i \in Ifaces, UNCHANGED <<conf, home>>, NEW d,
           dev' = [dev EXCEPT ![i] = d],
           \/ d = None
           \/ dev[i] # None /\ d.peers = dev[i].peers
           \/ \A b \in d.peers : home[b[1]] = i
    PROVE  PeersStayHome'
<1>1. dev'[i] = d /\ \A k \in Ifaces \ {i} : dev'[k] = dev[k]
  BY DEF Inv1, TypeOK
<1> QED BY <1>1 DEF HomeInv, PeersStayHome

LEMMA ConfHome ==
    ASSUME Inv1, HomeInv, NEW i \in Ifaces, UNCHANGED <<dev, home>>, NEW c,
           conf' = [conf EXCEPT ![i] = c], \A b \in c.peers : home[b[1]] = i
    PROVE  PeersStayHome'
<1>1. conf'[i] = c /\ \A k \in Ifaces \ {i} : conf'[k] = conf[k]
  BY DEF Inv1, TypeOK
<1> QED BY <1>1 DEF HomeInv, PeersStayHome

LEMMA DownHome ==
    ASSUME Inv1, HomeInv, NEW w \in Workers,
           NetDelete(w) \/ SyncDown(w) \/ StopDown(w) \/ QuickDown(w)
    PROVE  HomeInv'
<1> DEFINE i == job[w].ifc
<1>1. TypeReq /\ i \in Ifaces /\ HomeOf(w)
  BY Inv1Facts DEF TypeReq, NetDelete, SyncDown, StopDown, QuickDown, At, Inv1, Locals,
     LocalsOf, WithIface, Labels, HomeInv
<1>2. UNCHANGED <<peers, conf, home>> /\ Others(w)
  BY <1>1, AdvanceOthers DEF Advance, NetDelete, SyncDown, StopDown, QuickDown, At, history
<1>3. HomeOf(w)'
  <2>1. pc'[w] \in {"deleteRow", "idle", "updateIface", "quickUp", "stopDown"}
    BY <1>1 DEF NetDelete, SyncDown, StopDown, QuickDown, Stay, Goto, Finish, TypeReq
  <2> QED BY <2>1, HomeVoid DEF HomeLabels, WithParams
<1>4. PeersStayHome'
  <2>1. CASE UNCHANGED dev
    BY <1>2, <2>1, FilesFrame DEF HomeInv
  <2>2. CASE dev' = [dev EXCEPT ![i] = None]
    BY <1>1, <1>2, <2>2, DevHome
  <2>3. CASE dev' = [dev EXCEPT ![i] = IF @ = None THEN @ ELSE [@ EXCEPT !.up = FALSE]]
    <3> DEFINE d == IF dev[i] = None THEN None ELSE [dev[i] EXCEPT !.up = FALSE]
    <3>1. d = None \/ (dev[i] # None /\ d.peers = dev[i].peers)
      BY <1>1 DEF Inv1, TypeOK, Device
    <3>2. dev' = [dev EXCEPT ![i] = d]
      BY <2>3
    <3> HIDE DEF d
    <3> QED BY <1>1, <1>2, <3>1, <3>2, DevHome
  <2>4. CASE dev[i] # None /\ dev' = [dev EXCEPT ![i].up = FALSE]
    <3> DEFINE d == [dev[i] EXCEPT !.up = FALSE]
    <3>1. d.peers = dev[i].peers
      BY <1>1, <2>4 DEF Inv1, TypeOK, Device
    <3>2. dev' = [dev EXCEPT ![i] = d]
      BY <2>4
    <3> HIDE DEF d
    <3> QED BY <1>1, <1>2, <2>4, <3>1, <3>2, DevHome
  <2> QED BY <2>1, <2>2, <2>3, <2>4 DEF NetDelete, SyncDown, StopDown, QuickDown, Me
<1>5. RowsHome'
  BY <1>2, RowsFrame DEF HomeInv
<1> QED BY <1>2, <1>3, <1>4, <1>5, HomeAdvance

LEMMA UpHome ==
    ASSUME Inv1, HomeInv, NEW w \in Workers, SyncUp(w) \/ QuickUp(w)
    PROVE  HomeInv'
<1> DEFINE i == job[w].ifc
<1>1. TypeReq /\ i \in Ifaces
  BY Inv1Facts DEF TypeReq, SyncUp, QuickUp, At, Inv1, Locals, LocalsOf, WithIface, Labels
<1>2. UNCHANGED <<peers, conf, home>> /\ Others(w)
  BY <1>1, AdvanceOthers DEF Advance, SyncUp, QuickUp, At, history
<1>3. HomeOf(w)'
  <2>1. pc'[w] \in {"idle", "syncGet"}
    BY <1>1 DEF SyncUp, QuickUp, Stay, Goto, Finish, TypeReq
  <2> QED BY <2>1, HomeVoid DEF HomeLabels, WithParams
<1>4. PeersStayHome'
  <2>1. CASE UNCHANGED dev
    BY <1>2, <2>1, FilesFrame DEF HomeInv
  <2>2. CASE conf[i] # None /\ dev' = [dev EXCEPT ![i] = Raised(conf[i])]
    <3>1. \A b \in Raised(conf[i]).peers : home[b[1]] = i
      BY <1>1, <2>2 DEF HomeInv, PeersStayHome, Raised
    <3> QED BY <1>1, <1>2, <2>2, <3>1, DevHome
  <2> QED BY <2>1, <2>2 DEF SyncUp, QuickUp, UpOk, Me
<1>5. RowsHome'
  BY <1>2, RowsFrame DEF HomeInv
<1> QED BY <1>2, <1>3, <1>4, <1>5, HomeAdvance

\* The steps of SyncInterface that apply the configuration it has built.
LEMMA ApplyHome ==
    ASSUME Inv1, HomeInv, NEW w \in Workers, SyncConf(w) \/ SaveAfter(w) \/ SaveConf(w)
    PROVE  HomeInv'
<1> DEFINE i == job[w].ifc
<1>1. TypeReq /\ i \in Ifaces /\ HomeOf(w) /\ pc[w] \in {"syncConf", "saveAfter", "saveConf"}
  BY Inv1Facts DEF TypeReq, SyncConf, SaveAfter, SaveConf, At, Inv1, Locals, LocalsOf,
     WithIface, Labels, HomeInv
<1>2. UNCHANGED <<peers, home>> /\ Others(w)
  BY <1>1, AdvanceOthers DEF Advance, SyncConf, SaveAfter, SaveConf, At, history
<1>3. \A b \in job[w].params.peers : home[b[1]] = i
  BY <1>1 DEF HomeOf, WithParams
<1>4. HomeOf(w)'
  <2>1. CASE pc'[w] = "idle"
    BY <2>1, HomeVoid DEF HomeLabels, WithParams
  <2>2. CASE pc'[w] \in {"saveAfter", "syncUp"} /\ job'[w] = job[w]
    BY <1>1, <1>2, <2>2, HomeKeep DEF WithParams
  <2> QED BY <1>1, <2>1, <2>2 DEF SyncConf, SaveAfter, SaveConf, Stay, Goto, Finish, TypeReq
<1>5. PeersStayHome'
  <2>1. CASE UNCHANGED <<conf, dev>>
    BY <1>2, <2>1, FilesFrame DEF HomeInv
  <2>2. CASE UNCHANGED conf /\ dev' = [dev EXCEPT ![i] = Stripped(@, job[w].params)]
    <3>1. \A b \in Stripped(dev[i], job[w].params).peers : home[b[1]] = i
      BY <1>3 DEF Stripped
    <3> QED BY <1>1, <1>2, <2>2, <3>1, DevHome
  <2>3. CASE UNCHANGED dev /\ conf' = [conf EXCEPT ![i] = job[w].params]
    BY <1>1, <1>2, <1>3, <2>3, ConfHome
  <2> QED BY <2>1, <2>2, <2>3 DEF SyncConf, SaveAfter, SaveConf, Me
<1>6. RowsHome'
  BY <1>2, RowsFrame DEF HomeInv
<1> QED BY <1>2, <1>4, <1>5, <1>6, HomeAdvance

-----------------------------------------------------------------------------
\* Steps that write peer rows: a row is new and at home, keeps its interface, or goes.
LEMMA RowHome ==
    ASSUME Inv1, HomeInv, UNCHANGED home, NEW p \in Peers, NEW r,
           peers' = [peers EXCEPT ![p] = r], r # None => r.iface = home[p]
    PROVE  RowsHome'
<1>1. peers'[p] = r /\ \A q \in Peers \ {p} : peers'[q] = peers[q]
  BY DEF Inv1, TypeOK
<1> QED BY <1>1 DEF HomeInv, RowsHome

LEMMA ImportPeerHome ==
    ASSUME Inv1, HomeInv, NEW w \in Workers, ImportPeer(w) PROVE HomeInv'
<1>1. /\ TypeReq /\ job[w] \in Job /\ HomeOf(w) /\ pc[w] = "importPeer"
      /\ job[w].params \in Conf
  BY Inv1Facts DEF TypeReq, ImportPeer, At, Inv1, Locals, LocalsOf, WithParams, HomeInv
<1>2. UNCHANGED <<conf, dev, home>> /\ Others(w)
  BY <1>1, AdvanceOthers DEF Advance, ImportPeer, At, history
<1>3. PeersStayHome'
  BY <1>2, FilesFrame DEF HomeInv
<1>4. \A b \in job[w].params.peers : home[b[1]] = job[w].ifc
  BY <1>1 DEF HomeOf, WithParams
<1>5. CASE UNCHANGED peers /\ pc'[w] = "idle"
  BY <1>2, <1>3, <1>5, RowsFrame, HomeVoid, HomeAdvance DEF HomeInv, HomeLabels, WithParams
<1>6. ASSUME NEW b \in job[w].params.peers,
             peers' = [peers EXCEPT ![b[1]] = [iface |-> job[w].ifc, attr |-> b[2],
                                               enabled |-> TRUE]],
             job' = [job EXCEPT ![w].params = Without(@, b)], pc'[w] = "importPeer"
      PROVE  HomeInv'
  <2> DEFINE r == [iface |-> job[w].ifc, attr |-> b[2], enabled |-> TRUE]
  <2>1. b[1] \in Peers /\ r.iface = home[b[1]]
    BY <1>1, <1>4, <1>6 DEF Conf, Block
  <2>2. RowsHome'
    <3> HIDE DEF r
    <3> QED BY <1>2, <1>6, <2>1, RowHome DEF r
  <2>3. job'[w].params = Without(job[w].params, b) /\ job'[w].ifc = job[w].ifc
    BY <1>1, <1>6 DEF TypeReq, Job
  <2>4. HomeOf(w)'
    BY <1>2, <1>4, <1>6, <2>3 DEF HomeOf, Without, WithParams
  <2> QED BY <1>2, <1>3, <2>2, <2>4, HomeAdvance
<1> QED BY <1>1, <1>5, <1>6 DEF ImportPeer, Me, Goto, Finish, TypeReq

LEMMA PeerRowHome ==
    ASSUME Inv1, HomeInv, NEW w \in Workers, InsertPeer(w) \/ DeletePeer(w) \/ UpdatePeer(w)
    PROVE  HomeInv'
<1>1. /\ TypeReq /\ HomeOf(w) /\ job[w].pid \in Peers
      /\ pc[w] \in {"insertPeer", "deletePeer", "updatePeer"}
  BY Inv1Facts DEF TypeReq, InsertPeer, DeletePeer, UpdatePeer, At, Inv1, Locals, LocalsOf,
     WithPeer, HomeInv
<1>2. UNCHANGED <<conf, dev, home>> /\ Others(w)
  BY <1>1, AdvanceOthers DEF Advance, InsertPeer, DeletePeer, UpdatePeer, At, history
<1>3. HomeOf(w)'
  <2>1. pc'[w] \in {"syncGet", "idle"}
    BY <1>1 DEF InsertPeer, DeletePeer, UpdatePeer, Stay, Goto, Finish, TypeReq
  <2> QED BY <2>1, HomeVoid DEF HomeLabels, WithParams
<1>4. RowsHome'
  <2>1. CASE UNCHANGED peers
    BY <1>2, <2>1, RowsFrame DEF HomeInv
  <2>2. CASE InsertPeer(w) /\ ~UNCHANGED peers
    <3>1. PICK a \in Attrs : peers' = [peers EXCEPT ![job[w].pid] =
                                [iface |-> job[w].ifc, attr |-> a, enabled |-> TRUE]]
      BY <2>2 DEF InsertPeer, Me
    <3>2. home[job[w].pid] = job[w].ifc
      BY <1>1, <2>2 DEF InsertPeer, At, HomeOf
    <3> DEFINE r == [iface |-> job[w].ifc, attr |-> a, enabled |-> TRUE]
    <3>3. r.iface = home[job[w].pid] /\ peers' = [peers EXCEPT ![job[w].pid] = r]
      BY <3>1, <3>2
    <3> HIDE DEF r
    <3> QED BY <1>1, <1>2, <3>3, RowHome
  <2>3. CASE DeletePeer(w)
    <3>1. peers' = [peers EXCEPT ![job[w].pid] = None]
      BY <2>3 DEF DeletePeer, Me
    <3> QED BY <1>1, <1>2, <3>1, RowHome
  <2>4. CASE UpdatePeer(w)
    <3>1. PICK a \in Attrs : peers' = [peers EXCEPT ![job[w].pid] =
                                IF @ = None THEN @ ELSE NewPeerRow(job[w], a)]
      BY <2>4 DEF UpdatePeer, Me
    <3>2. job[w].prow.iface = home[job[w].pid] /\ job[w].prow \in PeerRow
      BY <1>1, <2>4 DEF UpdatePeer, At, HomeOf, Inv1, Locals, LocalsOf
    <3>3. NewPeerRow(job[w], a).iface = home[job[w].pid]
      BY <3>2 DEF NewPeerRow, PeerRow
    <3> DEFINE r == IF peers[job[w].pid] = None THEN None ELSE NewPeerRow(job[w], a)
    <3>4. (r # None => r.iface = home[job[w].pid]) /\ peers' = [peers EXCEPT ![job[w].pid] = r]
      BY <3>1, <3>3
    <3> HIDE DEF r
    <3> QED BY <1>1, <1>2, <3>4, RowHome
  <2> QED BY <2>1, <2>2, <2>3, <2>4
<1>5. PeersStayHome'
  BY <1>2, FilesFrame DEF HomeInv
<1> QED BY <1>2, <1>3, <1>4, <1>5, HomeAdvance

LEMMA DeleteRowHome ==
    ASSUME Inv1, HomeInv, NEW w \in Workers, DeleteRow(w) PROVE HomeInv'
<1>1. TypeReq
  BY Inv1Facts
<1>2. UNCHANGED <<conf, dev, home>> /\ Others(w)
  BY <1>1, AdvanceOthers DEF Advance, DeleteRow, At, history
<1>3. pc'[w] = "idle"
  BY <1>1 DEF DeleteRow, Finish, TypeReq
<1>4. \A p \in Peers : peers'[p] \in {None, peers[p]}
  BY DEF DeleteRow
<1>5. RowsHome'
  BY <1>2, <1>4 DEF HomeInv, RowsHome
<1>6. PeersStayHome' /\ HomeOf(w)'
  BY <1>2, <1>3, FilesFrame, HomeVoid DEF HomeInv, HomeLabels, WithParams
<1> QED BY <1>2, <1>5, <1>6, HomeAdvance

-----------------------------------------------------------------------------
\* A request that starts may give new ids a home; those that have one keep it.
LEMMA StartHome ==
    ASSUME Inv1, HomeInv, NEW w \in Workers, UNCHANGED sys, Others(w),
           \A p \in Peers : home[p] # None => home'[p] = home[p], HomeOf(w)'
    PROVE  HomeInv'
<1>1. ASSUME NEW p \in Peers, NEW i \in Ifaces, home[p] = i PROVE home'[p] = i
  <2>1. i # None
    BY NoneAssumption
  <2> QED BY <1>1, <2>1
<1>2. RowsHome'
  <2>1. ASSUME NEW p \in Peers, peers[p] # None PROVE home'[p] = peers[p].iface
    <3>1. peers[p].iface \in Ifaces /\ home[p] = peers[p].iface
      BY <2>1 DEF Inv1, TypeOK, PeerRow, HomeInv, RowsHome
    <3> QED BY <1>1, <3>1
  <2> QED BY <2>1 DEF RowsHome, sys
<1>3. PeersStayHome'
  <2>1. ASSUME NEW i \in Ifaces, conf[i] # None, NEW b \in conf[i].peers PROVE home'[b[1]] = i
    <3>1. b[1] \in Peers
      BY <2>1 DEF Inv1, TypeOK, Conf, Block
    <3>2. home[b[1]] = i
      BY <2>1 DEF HomeInv, PeersStayHome
    <3> QED BY <1>1, <3>1, <3>2
  <2>2. ASSUME NEW i \in Ifaces, dev[i] # None, NEW b \in dev[i].peers PROVE home'[b[1]] = i
    <3>1. b[1] \in Peers
      BY <2>2 DEF Inv1, TypeOK, Device, Block
    <3>2. home[b[1]] = i
      BY <2>2 DEF HomeInv, PeersStayHome
    <3> QED BY <1>1, <3>1, <3>2
  <2> QED BY <2>1, <2>2 DEF PeersStayHome, sys
<1>4. ASSUME NEW v \in Workers \ {w} PROVE HomeOf(v)'
  <2>1. /\ pc'[v] = pc[v] /\ job'[v] = job[v] /\ LocalsOf(v) /\ HomeOf(v)
    BY DEF Others, Inv1, Locals, HomeInv
  <2>2. (pc[v] = "getIface" /\ job[v].op = "addPeer") => home'[job[v].pid] = job[v].ifc
    BY <1>1, <2>1 DEF HomeOf, LocalsOf, WithIface, Labels
  <2>3. pc[v] = "insertPeer" => home'[job[v].pid] = job[v].ifc
    BY <1>1, <2>1 DEF HomeOf, LocalsOf, WithIface, WithPeer, Labels
  <2>4. pc[v] = "updatePeer" => job[v].prow.iface = home'[job[v].pid]
    BY <1>1, <2>1 DEF HomeOf, LocalsOf, WithPeer, PeerRow
  <2>5. ASSUME pc[v] \in WithParams \/ (pc[v] = "insertIface" /\ job[v].op # "create"),
               NEW b \in job[v].params.peers
        PROVE  home'[b[1]] = job[v].ifc
    <3>1. job[v].params \in Conf /\ job[v].ifc \in Ifaces /\ home[b[1]] = job[v].ifc
      BY <2>1, <2>5 DEF HomeOf, LocalsOf, WithParams, WithIface, Labels
    <3>2. b[1] \in Peers
      BY <2>5, <3>1 DEF Conf, Block
    <3> QED BY <1>1, <3>1, <3>2
  <2> QED BY <2>1, <2>2, <2>3, <2>4, <2>5 DEF HomeOf
<1> QED BY <1>2, <1>3, <1>4 DEF HomeInv

LEMMA ArriveHome ==
    ASSUME Inv1, HomeInv, NEW w \in Workers, Arrive(w) \/ BootSync(w) PROVE HomeInv'
<1>1. TypeReq /\ Others(w) /\ UNCHANGED sys
  BY Inv1Facts, StartOthers
<1>2. CASE BeginIface(w) \/ BeginPeer(w) \/ BootSync(w)
  <2>1. home' = home
    BY <1>2 DEF BeginIface, BeginPeer, BootSync, history
  <2>2. /\ pc'[w] \in {"readConf", "syncGet", "quickDown", "getIface", "pollGet", "getPeer"}
        /\ pc'[w] = "getIface" => job'[w].op # "addPeer"
    BY <1>1, <1>2 DEF BeginIface, BeginPeer, BootSync, Begin, NewJob, TypeReq
  <2>3. HomeOf(w)'
    BY <2>2 DEF HomeOf, WithParams
  <2> QED BY <1>1, <2>1, <2>3, StartHome
<1>3. CASE BeginCreate(w)
  <2>1. home' = home /\ pc'[w] = "insertIface" /\ job'[w].op = "create"
    BY <1>1, <1>3 DEF BeginCreate, Begin, NewJob, TypeReq
  <2>2. HomeOf(w)'
    BY <2>1 DEF HomeOf, WithParams
  <2> QED BY <1>1, <2>1, <2>2, StartHome
<1>4. CASE BeginAddPeer(w)
  <2>1. PICK i \in Ifaces, p \in Peers :
          /\ home[p] = None /\ home' = [home EXCEPT ![p] = i]
          /\ Begin(w, NewJob("addPeer", i, p, None, None), "getIface")
    BY <1>4 DEF BeginAddPeer
  <2>2. /\ pc'[w] = "getIface" /\ job'[w].pid = p /\ job'[w].ifc = i
    BY <1>1, <2>1 DEF Begin, NewJob, TypeReq
  <2>3. home'[p] = i /\ \A q \in Peers : home[q] # None => home'[q] = home[q]
    BY <2>1 DEF Inv1, TypeOK
  <2>4. HomeOf(w)'
    BY <2>2, <2>3 DEF HomeOf, WithParams
  <2> QED BY <1>1, <2>3, <2>4, StartHome
<1>5. CASE BeginImport(w)
  <2>1. PICK i \in Ifaces, k \in Keys, t \in Ports, l \in Links, B \in SUBSET Block :
          /\ Cardinality(B) <= ImportBound /\ \A b \in B : home[b[1]] = None
          /\ Begin(w, NewJob("import", i, None,
                            [key |-> k, port |-> t, link |-> l, enabled |-> TRUE],
                            [key |-> k, port |-> t, link |-> l, peers |-> B]),
                   "insertIface")
          /\ home' = [p \in Peers |-> IF \E b \in B : b[1] = p THEN i ELSE home[p]]
    BY <1>5, Zenon DEF BeginImport
  <2>2. pc'[w] = "insertIface" /\ job'[w].params.peers = B /\ job'[w].ifc = i
    BY <1>1, <2>1 DEF Begin, NewJob, TypeReq
  <2>3. \A q \in Peers : home[q] # None => home'[q] = home[q]
    BY <2>1
  <2>4. \A b \in B : home'[b[1]] = i
    <3>1. \A b \in B : b[1] \in Peers
      BY DEF Block
    <3> QED BY <2>1, <3>1
  <2>5. HomeOf(w)'
    BY <2>2, <2>4 DEF HomeOf, WithParams
  <2> QED BY <1>1, <2>3, <2>5, StartHome
<1> QED BY <1>2, <1>3, <1>4, <1>5 DEF Arrive

LEMMA NextHome == Inv1 /\ HomeInv /\ [Next]_vars => HomeInv'
<1> SUFFICES ASSUME Inv1, HomeInv, [Next]_vars PROVE HomeInv'
  OBVIOUS
<1>1. ASSUME NEW w \in Workers, Advance(w) PROVE HomeInv'
  BY <1>1, ReadsHome, ReadConfHome, GetIfaceHome, GetPeerHome, SyncListHome, IfaceRowHome,
     DownHome, UpHome, ApplyHome, ImportPeerHome, PeerRowHome, DeleteRowHome DEF Advance
<1>2. CASE Crash
  <2>1. RowsHome' /\ \A w \in Workers : HomeOf(w)'
    BY <1>2 DEF Crash, history, HomeInv, RowsHome, HomeOf, WithParams
  <2>2. PeersStayHome'
    BY <1>2 DEF Crash, history, HomeInv, PeersStayHome
  <2> QED BY <2>1, <2>2 DEF HomeInv
<1>3. CASE UNCHANGED vars
  <2>1. RowsHome' /\ PeersStayHome'
    BY <1>3, RowsFrame, FilesFrame DEF vars, sys, history, HomeInv
  <2>2. \A w \in Workers : HomeOf(w)'
    BY <1>3 DEF vars, history, HomeInv, HomeOf
  <2> QED BY <2>1, <2>2 DEF HomeInv
<1> QED BY <1>1, <1>2, <1>3, ArriveHome DEF Next

(***************************************************************************)
(* A peer row, the blocks of every file and device, and the values every   *)
(* handler holds belong to the interface AddPeer or ImportInterface made   *)
(* the peer's id for: the inductive invariant of the theorems below.       *)
(***************************************************************************)
THEOREM HomeCorrect == Spec => [](Inv1 /\ HomeInv)
BY InitHome, NextHome, TypeCorrect, PTL DEF Spec

(***************************************************************************)
(* SyncInterface, ImportInterface and wg-quick put the block of a peer     *)
(* only into the file and the device of the interface its id was made for, *)
(* with any number of requests, failures and restarts under way.           *)
(***************************************************************************)
THEOREM PeersStayHomeCorrect == Spec => []PeersStayHome
BY HomeCorrect, PTL DEF HomeInv

-----------------------------------------------------------------------------
(***************************************************************************)
(* Rows of peers without their interface.                                  *)
(***************************************************************************)

\* While no process has opened a second connection, the one there is enforces
\* the foreign key.
OrphanInv == (pooled => shared) /\ NoOrphansUnshared

LEMMA InitOrphan == Init => OrphanInv
BY DEF Init, OrphanInv, NoOrphansUnshared, NoOrphans

\* No row is added and no interface goes.
LEMMA OrphanFrame ==
    ASSUME NoOrphans, \A p \in Peers : peers'[p] \in {None, peers[p]},
           \A i \in Ifaces : ifaces[i] # None => ifaces'[i] # None, Inv1
    PROVE  NoOrphans'
BY DEF NoOrphans, Inv1, TypeOK, PeerRow

LEMMA AdvanceOrphan ==
    ASSUME Inv1, HomeInv, NoOrphans, ~pooled, NEW w \in Workers, Advance(w)
    PROVE  NoOrphans'
<1> DEFINE i == job[w].ifc
<1>1. ForeignKeys = {TRUE} /\ TypeReq /\ TypeSys
  BY Inv1Facts DEF ForeignKeys
<1>2. CASE UNCHANGED <<ifaces, peers>>
  BY <1>2, OrphanFrame
<1>3. CASE InsertIface(w) \/ UpdateIface(w)
  <2>1. i \in Ifaces /\ job[w].irow \in IfaceRow /\ UNCHANGED peers
    BY <1>3 DEF InsertIface, UpdateIface, At, Inv1, Locals, LocalsOf, WithIface, Labels
  <2>2. CASE InsertIface(w)
    <3>1. \A j \in Ifaces : ifaces[j] # None => ifaces'[j] # None
      BY <1>1, <2>1, <2>2 DEF InsertIface, Me, TypeSys
    <3> QED BY <2>1, <3>1, OrphanFrame
  <2>3. CASE UpdateIface(w)
    <3>1. PICK t \in Ports, l \in Links :
            ifaces' = [ifaces EXCEPT ![i] =
               IF @ = None THEN @ ELSE Rewritten(job[w].op, job[w].irow, t, l)]
      BY <2>3 DEF UpdateIface, Me
    <3>2. Rewritten(job[w].op, job[w].irow, t, l) # None
      BY <2>1, RewrittenFacts, NoneAssumption
    <3>3. \A j \in Ifaces : ifaces[j] # None => ifaces'[j] # None
      BY <1>1, <2>1, <3>1, <3>2 DEF TypeSys
    <3> QED BY <2>1, <3>3, OrphanFrame
  <2> QED BY <1>3, <2>2, <2>3
<1>4. CASE DeleteRow(w)
  <2>1. /\ i \in Ifaces /\ ifaces' = [ifaces EXCEPT ![i] = None]
        /\ peers' = [p \in Peers |-> IF /\ ifaces[i] # None /\ peers[p] # None
                                        /\ peers[p].iface = i
                                     THEN None ELSE peers[p]]
    BY <1>1, <1>4 DEF DeleteRow, At, Me, Inv1, Locals, LocalsOf, WithIface, Labels
  <2>2. ASSUME NEW p \in Peers, peers'[p] # None PROVE ifaces'[peers'[p].iface] # None
    <3>1. peers'[p] = peers[p] /\ peers[p] # None
      BY <2>1, <2>2
    <3>2. ifaces[peers[p].iface] # None /\ peers[p].iface \in Ifaces
      BY <1>1, <3>1 DEF NoOrphans, TypeSys, PeerRow
    <3>3. peers[p].iface # i
      BY <2>1, <3>1, <3>2
    <3> QED BY <1>1, <2>1, <3>1, <3>2, <3>3 DEF TypeSys
  <2> QED BY <2>2 DEF NoOrphans
<1>5. CASE DeletePeer(w)
  <2>1. (\A p \in Peers : peers'[p] \in {None, peers[p]}) /\ ifaces' = ifaces
    BY <1>1, <1>5 DEF DeletePeer, TypeSys
  <2> QED BY <2>1, OrphanFrame
<1>6. ASSUME NEW p \in Peers, NEW r, peers' = [peers EXCEPT ![p] = r], UNCHANGED ifaces,
             r # None => ifaces[r.iface] # None
      PROVE  NoOrphans'
  BY <1>1, <1>6 DEF NoOrphans, TypeSys
<1>7. CASE InsertPeer(w) /\ ~UNCHANGED peers
  <2>1. PICK a \in Attrs :
          /\ ifaces[i] # None
          /\ peers' = [peers EXCEPT ![job[w].pid] =
                         [iface |-> i, attr |-> a, enabled |-> TRUE]]
    BY <1>1, <1>7 DEF InsertPeer, CanCreatePeer, Me
  <2> DEFINE r == [iface |-> i, attr |-> a, enabled |-> TRUE]
  <2>2. /\ ifaces[r.iface] # None /\ peers' = [peers EXCEPT ![job[w].pid] = r]
        /\ job[w].pid \in Peers /\ ifaces' = ifaces
    BY <1>7, <2>1 DEF InsertPeer, At, Inv1, Locals, LocalsOf, WithPeer
  <2> HIDE DEF r
  <2> QED BY <1>6, <2>2
<1>8. CASE ImportPeer(w) /\ ~UNCHANGED peers
  <2>1. PICK b \in job[w].params.peers :
          /\ ifaces[i] # None
          /\ peers' = [peers EXCEPT ![b[1]] = [iface |-> i, attr |-> b[2], enabled |-> TRUE]]
    BY <1>1, <1>8 DEF ImportPeer, CanCreatePeer, Me
  <2> DEFINE r == [iface |-> i, attr |-> b[2], enabled |-> TRUE]
  <2>2. job[w].params \in Conf
    BY <1>8 DEF ImportPeer, At, Inv1, Locals, LocalsOf, WithParams
  <2>3. /\ ifaces[r.iface] # None /\ peers' = [peers EXCEPT ![b[1]] = r]
        /\ b[1] \in Peers /\ ifaces' = ifaces
    BY <1>8, <2>1, <2>2 DEF ImportPeer, Conf, Block
  <2> HIDE DEF r
  <2> QED BY <1>6, <2>3
<1>9. CASE UpdatePeer(w)
  <2> DEFINE p == job[w].pid
  <2>1. PICK a \in Attrs :
          peers' = [peers EXCEPT ![p] = IF @ = None THEN @ ELSE NewPeerRow(job[w], a)]
    BY <1>9 DEF UpdatePeer, Me
  <2>2. /\ p \in Peers /\ job[w].prow \in PeerRow /\ job[w].prow.iface = home[p]
        /\ ifaces' = ifaces
    BY <1>9 DEF UpdatePeer, At, Inv1, Locals, LocalsOf, WithPeer, HomeInv, HomeOf
  <2>3. NewPeerRow(job[w], a).iface = home[p]
    BY <2>2 DEF NewPeerRow, PeerRow
  <2>4. peers[p] # None => ifaces[home[p]] # None
    BY <2>2 DEF NoOrphans, HomeInv, RowsHome
  <2> DEFINE r == IF peers[p] = None THEN None ELSE NewPeerRow(job[w], a)
  <2>5. peers' = [peers EXCEPT ![p] = r]
    BY <2>1, Zenon
  <2>6. ASSUME r # None PROVE ifaces[r.iface] # None
    <3>1. peers[p] # None /\ r = NewPeerRow(job[w], a)
      BY <2>6, Zenon
    <3> HIDE DEF r
    <3>2. r.iface = home[p]
      BY <3>1, <2>3
    <3> QED BY <3>1, <3>2, <2>4
  <2> HIDE DEF r
  <2> QED BY <1>6, <2>2, <2>5, <2>6
<1>10. UNCHANGED <<ifaces, peers>> \/ InsertIface(w) \/ UpdateIface(w) \/ DeleteRow(w)
       \/ DeletePeer(w) \/ InsertPeer(w) \/ ImportPeer(w) \/ UpdatePeer(w)
  BY DEF Advance, ReadConf, GetIface, NetDelete, GetPeer, PollGet, Reject, SyncGet, SyncDown,
     SyncList, Exists, SyncConf, SaveAfter, SaveConf, SyncUp, QuickUp, QuickDown, StopDown,
     DbFault, sys
<1>11. CASE (InsertPeer(w) \/ ImportPeer(w)) /\ UNCHANGED peers
  BY <1>2, <1>11 DEF InsertPeer, ImportPeer
<1> QED BY <1>2, <1>3, <1>4, <1>5, <1>7, <1>8, <1>9, <1>10, <1>11

LEMMA NextOrphan == Inv1 /\ HomeInv /\ OrphanInv /\ [Next]_vars => OrphanInv'
<1> SUFFICES ASSUME Inv1, HomeInv, OrphanInv, [Next]_vars PROVE OrphanInv'
  OBVIOUS
<1>1. pooled \in BOOLEAN /\ shared \in BOOLEAN
  BY DEF Inv1, TypeOK
<1>2. ASSUME NEW w \in Workers, Advance(w) PROVE OrphanInv'
  <2>1. UNCHANGED <<pooled, shared>>
    BY <1>2 DEF Advance, ReadConf, InsertIface, ImportPeer, GetIface, UpdateIface,
       NetDelete, DeleteRow, InsertPeer, GetPeer, PollGet, DeletePeer, UpdatePeer, Reject,
       SyncGet, SyncDown, SyncList, Exists, SyncConf, SaveAfter, SaveConf, SyncUp, QuickUp,
       QuickDown, StopDown, DbFault, At, control
  <2>2. ~shared => NoOrphans'
    BY <1>1, <1>2, AdvanceOrphan DEF OrphanInv, NoOrphansUnshared
  <2> QED BY <2>1, <2>2 DEF OrphanInv, NoOrphansUnshared
<1>3. ASSUME UNCHANGED <<ifaces, peers>>, pooled' => shared', shared => shared'
      PROVE  OrphanInv'
  BY <1>3 DEF OrphanInv, NoOrphansUnshared, NoOrphans
<1>4. ASSUME NEW w \in Workers, NEW j, NEW l, Begin(w, j, l) PROVE OrphanInv'
  <2>1. UNCHANGED <<ifaces, peers>> /\ (pooled' => shared') /\ (shared => shared')
    BY <1>4, Zenon DEF Begin, sys
  <2> QED BY <1>3, <2>1
<1>5. ASSUME NEW w \in Workers, Arrive(w) PROVE OrphanInv'
  BY <1>4, <1>5 DEF Arrive, BeginIface, BeginCreate, BeginImport, BeginAddPeer, BeginPeer
<1>6. ASSUME NEW w \in Workers, BootSync(w) PROVE OrphanInv'
  BY <1>3, <1>6 DEF BootSync, sys, OrphanInv
<1>7. CASE Crash
  <2>1. UNCHANGED <<ifaces, peers>> /\ (pooled' => shared') /\ (shared => shared')
    BY <1>7, Zenon DEF Crash
  <2> QED BY <1>3, <2>1
<1>8. CASE UNCHANGED vars
  BY <1>3, <1>8 DEF vars, sys, control, OrphanInv
<1> QED BY <1>2, <1>5, <1>6, <1>7, <1>8 DEF Next

(***************************************************************************)
(* The foreign key of migration 001 keeps every peer row with its          *)
(* interface as long as the pool has not opened a second connection, on    *)
(* which the pragma is not set.                                            *)
(***************************************************************************)
THEOREM NoOrphansUnsharedCorrect == Spec => []NoOrphansUnshared
BY InitOrphan, NextOrphan, HomeCorrect, PTL DEF Spec, OrphanInv

-----------------------------------------------------------------------------
(***************************************************************************)
(* Rows that are gone stay gone.                                           *)
(***************************************************************************)

\* Every statement but an INSERT leaves an absent row absent.
LEMMA AbsentAdvance ==
    ASSUME Inv1, NEW w \in Workers, Advance(w)
    PROVE  /\ \A p \in Peers : peers[p] = None =>
                peers'[p] = None \/ InsertPeer(w) \/ ImportPeer(w)
           /\ \A i \in Ifaces : ifaces[i] = None =>
                ifaces'[i] = None \/ InsertIface(w)
<1>1. TypeSys
  BY Inv1Facts
<1>2. ASSUME NEW p \in Peers, peers[p] = None
      PROVE  peers'[p] = None \/ InsertPeer(w) \/ ImportPeer(w)
  <2>1. CASE DeleteRow(w)
    BY <1>2, <2>1 DEF DeleteRow
  <2>2. CASE DeletePeer(w)
    BY <1>1, <1>2, <2>2 DEF DeletePeer, TypeSys
  <2>3. CASE UpdatePeer(w)
    <3>1. PICK a \in Attrs : peers' = [peers EXCEPT ![job[w].pid] =
                                IF @ = None THEN @ ELSE NewPeerRow(job[w], a)]
      BY <2>3 DEF UpdatePeer, Me
    <3> QED BY <1>1, <1>2, <3>1 DEF TypeSys
  <2>4. UNCHANGED peers \/ DeleteRow(w) \/ DeletePeer(w) \/ UpdatePeer(w)
        \/ InsertPeer(w) \/ ImportPeer(w)
    BY DEF Advance, ReadConf, InsertIface, GetIface, UpdateIface, NetDelete, GetPeer, PollGet,
       Reject, SyncGet, SyncDown, SyncList, Exists, SyncConf, SaveAfter, SaveConf, SyncUp,
       QuickUp, QuickDown, StopDown, DbFault, sys
  <2> QED BY <1>2, <2>1, <2>2, <2>3, <2>4
<1>3. ASSUME NEW i \in Ifaces, ifaces[i] = None
      PROVE  ifaces'[i] = None \/ InsertIface(w)
  <2>1. CASE DeleteRow(w)
    BY <1>1, <1>3, <2>1 DEF DeleteRow, TypeSys
  <2>2. CASE UpdateIface(w)
    <3>1. PICK r : ifaces' = [ifaces EXCEPT ![job[w].ifc] = IF @ = None THEN @ ELSE r]
      BY <2>2 DEF UpdateIface, Me
    <3> QED BY <1>1, <1>3, <3>1 DEF TypeSys
  <2>3. UNCHANGED ifaces \/ DeleteRow(w) \/ UpdateIface(w) \/ InsertIface(w)
    BY DEF Advance, ReadConf, ImportPeer, GetIface, NetDelete, InsertPeer, GetPeer, PollGet,
       DeletePeer, UpdatePeer, Reject, SyncGet, SyncDown, SyncList, Exists, SyncConf,
       SaveAfter, SaveConf, SyncUp, QuickUp, QuickDown, StopDown, DbFault, sys
  <2> QED BY <1>3, <2>1, <2>2, <2>3
<1> QED BY <1>2, <1>3

\* An insert that adds a row moves the request on.
LEMMA InsertMoves ==
    ASSUME Inv1, NEW w \in Workers, ~UNCHANGED <<ifaces, peers>>
    PROVE  /\ InsertPeer(w) => pc[w] = "insertPeer" /\ pc'[w] # pc[w]
           /\ ImportPeer(w) => pc[w] = "importPeer" /\ job'[w] # job[w]
           /\ InsertIface(w) => pc[w] = "insertIface" /\ pc'[w] # pc[w]
<1>1. TypeReq
  BY Inv1Facts
<1>2. CASE InsertPeer(w)
  <2>1. pc[w] = "insertPeer" /\ (Stay(w, "syncGet") \/ Finish(w, "err"))
    BY <1>2 DEF InsertPeer, At
  <2> QED BY <1>1, <1>2, <2>1 DEF Stay, Goto, Finish, TypeReq, ImportPeer, InsertIface, At
<1>3. CASE ImportPeer(w)
  <2>1. pc[w] = "importPeer" /\ job[w].params \in Conf /\ UNCHANGED ifaces
    BY <1>3 DEF ImportPeer, At, Inv1, Locals, LocalsOf, WithParams
  <2>2. PICK b \in job[w].params.peers : job' = [job EXCEPT ![w].params = Without(@, b)]
    BY <1>3, <2>1, Zenon DEF ImportPeer, Me
  <2>3. job'[w].params.peers = job[w].params.peers \ {b}
    BY <1>1, <2>2 DEF TypeReq, Job, Without
  <2> QED BY <1>3, <2>1, <2>2, <2>3 DEF InsertPeer, InsertIface, At
<1>4. CASE InsertIface(w)
  <2>1. pc[w] = "insertIface" /\ (Stay(w, "importPeer") \/ Finish(w, "ok") \/ Finish(w, "err"))
    BY <1>4 DEF InsertIface, At
  <2> QED BY <1>1, <1>4, <2>1 DEF Stay, Goto, Finish, TypeReq, InsertPeer, ImportPeer, At
<1> QED BY <1>2, <1>3, <1>4

\* The tables change only by a statement of a request.
LEMMA RowsByAdvance ==
    ASSUME Inv1, [Next]_vars, ~UNCHANGED <<ifaces, peers>>
    PROVE  \E w \in Workers : Advance(w)
<1>1. ASSUME NEW w \in Workers, Arrive(w) \/ BootSync(w) PROVE UNCHANGED sys
  BY <1>1, Inv1Facts, StartOthers
<1>2. ~UNCHANGED sys /\ ~Crash /\ ~UNCHANGED vars
  BY DEF sys, vars, Crash
<1> QED BY <1>1, <1>2 DEF Next

(***************************************************************************)
(* setPeerEnabled, handleUpdatePeer, handleUpdateInterface, the poller and *)
(* the others that write back a whole row they read earlier never make a   *)
(* row present that DeletePeer or DeleteInterface removed meanwhile: only  *)
(* CreatePeer and CreateInterface add one, in any interleaving.            *)
(***************************************************************************)
THEOREM NoResurrectionCorrect == Spec => NoResurrection
<1> DEFINE A ==
      /\ \A p \in Peers : (peers[p] = None /\ peers'[p] # None) =>
            \E w \in Workers : /\ pc[w] \in {"insertPeer", "importPeer"}
                               /\ <<pc'[w], job'[w]>> # <<pc[w], job[w]>>
      /\ \A i \in Ifaces : (ifaces[i] = None /\ ifaces'[i] # None) =>
            \E w \in Workers : pc[w] = "insertIface" /\ pc'[w] # pc[w]
<1>1. Inv1 /\ [Next]_vars => A
  <2> SUFFICES ASSUME Inv1, [Next]_vars PROVE A
    OBVIOUS
  <2>1. ASSUME NEW p \in Peers, peers[p] = None, peers'[p] # None
        PROVE  \E w \in Workers : /\ pc[w] \in {"insertPeer", "importPeer"}
                                  /\ <<pc'[w], job'[w]>> # <<pc[w], job[w]>>
    <3>1. PICK w \in Workers : Advance(w)
      BY <2>1, RowsByAdvance
    <3>2. InsertPeer(w) \/ ImportPeer(w)
      BY <2>1, <3>1, AbsentAdvance
    <3>3. /\ pc[w] \in {"insertPeer", "importPeer"}
          /\ <<pc'[w], job'[w]>> # <<pc[w], job[w]>>
      BY <2>1, <3>2, InsertMoves
    <3> QED BY <3>3
  <2>2. ASSUME NEW i \in Ifaces, ifaces[i] = None, ifaces'[i] # None
        PROVE  \E w \in Workers : pc[w] = "insertIface" /\ pc'[w] # pc[w]
    <3>1. PICK w \in Workers : Advance(w)
      BY <2>2, RowsByAdvance
    <3>2. InsertIface(w)
      BY <2>2, <3>1, AbsentAdvance
    <3> QED BY <2>2, <3>2, InsertMoves
  <2> QED BY <2>1, <2>2
<1>2. Inv1 /\ [Next]_vars => [A]_vars
  BY <1>1
<1> QED BY <1>2, TypeCorrect, PTL DEF Spec, NoResurrection

-----------------------------------------------------------------------------
(***************************************************************************)
(* What raises a disabled interface.  With one worker a request is never   *)
(* disturbed: the row it read is the row that is stored.                   *)
(***************************************************************************)
Running(i) == ifaces[i] # None /\ ifaces[i].enabled

SerialOf(w) ==
    /\ pc[w] = "getIface" => job[w].op \in {"delete", "updateIface", "start", "stop", "addPeer"}
    /\ pc[w] = "insertIface" => job[w].irow.enabled
    /\ pc[w] = "updateIface" => job[w].op \in {"updateIface", "start", "stop"}
    /\ pc[w] = "stopDown" => job[w].op = "stop"
    /\ pc[w] = "quickDown" => job[w].op \in {"stop", "restart"}
    /\ (pc[w] \in {"updateIface", "stopDown"} \/ (pc[w] = "quickDown" /\ job[w].op = "stop")) =>
            job[w].irow = ifaces[job[w].ifc]
    /\ (pc[w] = "updateIface" /\ job[w].op = "stop") =>
            dev[job[w].ifc] = None \/ ~dev[job[w].ifc].up
    /\ pc[w] = "quickUp" => job[w].op = "restart" \/ Running(job[w].ifc)
    /\ pc[w] \in SyncLabels => Running(job[w].ifc)

SerialLabels == SyncLabels \cup {"getIface", "insertIface", "updateIface", "stopDown",
                                 "quickDown", "quickUp"}

LEMMA SerialVoid == ASSUME NEW w, pc'[w] \notin SerialLabels PROVE SerialOf(w)'
BY DEF SerialOf, SerialLabels

\* A step raises no disabled interface, or it is a restart of it.
RaisesNone(w) == \A i \in Ifaces : DisabledUp(i)' /\ ~DisabledUp(i) =>
                    job[w].op = "restart" /\ job[w].ifc = i

LEMMA RaisesFrame ==
    ASSUME NEW w, UNCHANGED ifaces,
           \A i \in Ifaces : (dev'[i] # None /\ dev'[i].up) => dev[i] # None /\ dev[i].up
    PROVE  RaisesNone(w)
BY DEF RaisesNone, DisabledUp

LEMMA ControlFacts ==
    ASSUME TypeReq, NEW w \in Workers
    PROVE  /\ \A r : Finish(w, r) => pc'[w] = "idle"
           /\ \A l : Goto(w, l) => pc'[w] = l
           /\ \A l : Stay(w, l) => pc'[w] = l /\ job'[w] = job[w]
<1>1. ASSUME NEW r, Finish(w, r) PROVE pc'[w] = "idle"
  BY <1>1 DEF Finish, TypeReq
<1>2. ASSUME NEW l, Goto(w, l) PROVE pc'[w] = l
  BY <1>2 DEF Goto, TypeReq
<1>3. ASSUME NEW l, Stay(w, l) PROVE pc'[w] = l /\ job'[w] = job[w]
  BY <1>3 DEF Stay, Goto, TypeReq
<1> QED BY <1>1, <1>2, <1>3

\* The statements that read, and those on peers, change neither rows of
\* interfaces nor devices.
LEMMA ReadsSerial ==
    ASSUME Inv1, NEW w \in Workers, SerialOf(w),
           \/ ImportPeer(w) \/ InsertPeer(w) \/ GetPeer(w) \/ PollGet(w) \/ DeletePeer(w)
           \/ UpdatePeer(w) \/ Reject(w) \/ DbFault(w) \/ SaveAfter(w)
    PROVE  SerialOf(w)' /\ RaisesNone(w)
<1>1. TypeReq
  BY Inv1Facts
<1>2. UNCHANGED <<ifaces, dev>>
  BY DEF ImportPeer, InsertPeer, GetPeer, PollGet, DeletePeer, UpdatePeer, Reject, DbFault,
         SaveAfter, sys
<1>3. pc'[w] \in {"idle", "importPeer", "syncGet", "deletePeer", "updatePeer"}
  <2>1. CASE ImportPeer(w)
    <3>1. Finish(w, "ok") \/ Finish(w, "err") \/ Goto(w, "importPeer")
      BY <2>1, Zenon DEF ImportPeer
    <3> QED BY <1>1, <3>1, ControlFacts
  <2>2. CASE InsertPeer(w) \/ DeletePeer(w) \/ UpdatePeer(w)
    BY <1>1, <2>2, ControlFacts DEF InsertPeer, DeletePeer, UpdatePeer
  <2>3. CASE GetPeer(w)
    BY <1>1, <2>3, ControlFacts DEF GetPeer
  <2>4. CASE PollGet(w)
    BY <1>1, <2>4, ControlFacts DEF PollGet
  <2>5. CASE Reject(w) \/ DbFault(w) \/ SaveAfter(w)
    BY <1>1, <2>5, ControlFacts DEF Reject, DbFault, SaveAfter
  <2> QED BY <2>1, <2>2, <2>3, <2>4, <2>5
<1>4. SerialOf(w)'
  BY <1>3, SerialVoid DEF SerialLabels, SyncLabels
<1> QED BY <1>2, <1>4, RaisesFrame

\* The head of a request on an interface.
LEMMA HeadSerial ==
    ASSUME Inv1, NEW w \in Workers, SerialOf(w), ReadConf(w) \/ GetIface(w) \/ SyncGet(w)
    PROVE  SerialOf(w)' /\ RaisesNone(w)
<1>1. TypeReq /\ job[w] \in Job
  BY Inv1Facts DEF TypeReq
<1>2. UNCHANGED <<ifaces, dev>>
  BY DEF ReadConf, GetIface, SyncGet, sys
<1>3. CASE \E r : Finish(w, r)
  <2>1. PICK r : Finish(w, r)
    BY <1>3
  <2>2. pc'[w] = "idle"
    BY <1>1, <2>1, ControlFacts
  <2>3. SerialOf(w)'
    BY <2>2, SerialVoid DEF SerialLabels, SyncLabels
  <2> QED BY <1>2, <2>3, RaisesFrame
<1>4. CASE ReadConf(w) /\ ~(\E r : Finish(w, r))
  <2>1. pc'[w] = "insertIface"
    BY <1>1, <1>4, ControlFacts DEF ReadConf
  <2>2. job'[w].irow.enabled
    <3>1. PICK c : job' = [job EXCEPT ![w] = [@ EXCEPT !.params = c,
                       !.irow = [key |-> c.key, port |-> c.port,
                                 link |-> c.link, enabled |-> TRUE]]]
      BY <1>4 DEF ReadConf
    <3> QED BY <1>1, <3>1 DEF TypeReq, Job
  <2>3. SerialOf(w)'
    BY <2>1, <2>2 DEF SerialOf, SyncLabels
  <2> QED BY <1>2, <2>3, RaisesFrame
<1>5. CASE GetIface(w) /\ ~(\E r : Finish(w, r))
  <2>1. /\ job' = [job EXCEPT ![w].irow = ifaces[job[w].ifc]] /\ pc[w] = "getIface"
        /\ Goto(w, CASE job[w].op = "delete"  -> "netDelete"
                     [] job[w].op = "addPeer" -> "insertPeer"
                     [] job[w].op = "stop"    -> "quickDown"
                     [] OTHER                 -> "updateIface")
    BY <1>5 DEF GetIface, Me, At
  <2>2. /\ job'[w].irow = ifaces[job[w].ifc] /\ job'[w].op = job[w].op
        /\ job'[w].ifc = job[w].ifc
    BY <1>1, <2>1 DEF TypeReq, Job
  <2>3. job[w].op \in {"delete", "updateIface", "start", "stop", "addPeer"}
    BY <2>1 DEF SerialOf
  <2>4. pc'[w] = CASE job[w].op = "delete"  -> "netDelete"
                   [] job[w].op = "addPeer" -> "insertPeer"
                   [] job[w].op = "stop"    -> "quickDown"
                   [] OTHER                 -> "updateIface"
    BY <1>1, <2>1, ControlFacts
  <2>5. \/ pc'[w] \in {"netDelete", "insertPeer"}
        \/ pc'[w] = "quickDown" /\ job[w].op = "stop"
        \/ pc'[w] = "updateIface" /\ job[w].op \in {"updateIface", "start"}
    BY <2>3, <2>4
  <2>6. SerialOf(w)'
    BY <1>2, <2>2, <2>5 DEF SerialOf, SyncLabels
  <2> QED BY <1>2, <2>6, RaisesFrame
<1>6. CASE SyncGet(w) /\ ~(\E r : Finish(w, r))
  <2>1. /\ ifaces[job[w].ifc] # None
        /\ job' = [job EXCEPT ![w].irow = ifaces[job[w].ifc]]
        /\ Goto(w, IF ifaces[job[w].ifc].enabled THEN "syncList" ELSE "syncDown")
    BY <1>6 DEF SyncGet, Me
  <2>2. job'[w].ifc = job[w].ifc
    BY <1>1, <2>1 DEF TypeReq, Job
  <2>3. pc'[w] = IF ifaces[job[w].ifc].enabled THEN "syncList" ELSE "syncDown"
    BY <1>1, <2>1, ControlFacts
  <2>4. pc'[w] = "syncDown" \/ (pc'[w] = "syncList" /\ Running(job[w].ifc))
    BY <2>1, <2>3 DEF Running
  <2>5. SerialOf(w)'
    BY <1>2, <2>2, <2>4 DEF SerialOf, SyncLabels, Running
  <2> QED BY <1>2, <2>5, RaisesFrame
<1> QED BY <1>3, <1>4, <1>5, <1>6

\* The statements on the row of an interface.
LEMMA RowSerial ==
    ASSUME Inv1, NEW w \in Workers, SerialOf(w),
           InsertIface(w) \/ UpdateIface(w) \/ DeleteRow(w)
    PROVE  SerialOf(w)' /\ RaisesNone(w)
<1>1. TypeReq /\ TypeSys /\ UNCHANGED dev
  BY Inv1Facts DEF InsertIface, UpdateIface, DeleteRow
<1>2. LocalsOf(w)
  BY DEF Inv1, Locals
<1>3. CASE InsertIface(w)
  <2>1. pc[w] = "insertIface" /\ job[w].irow.enabled /\ job[w].ifc \in Ifaces
    BY <1>2, <1>3 DEF InsertIface, At, SerialOf, LocalsOf, WithIface, Labels
  <2>2. pc'[w] \in {"idle", "importPeer"}
    BY <1>1, <1>3, ControlFacts DEF InsertIface
  <2>3. ifaces' = ifaces \/ ifaces' = [ifaces EXCEPT ![job[w].ifc] = job[w].irow]
    BY <1>3 DEF InsertIface, Me
  <2>4. RaisesNone(w)
    BY <1>1, <2>1, <2>3 DEF RaisesNone, DisabledUp, TypeSys
  <2> QED BY <2>2, <2>4, SerialVoid DEF SerialLabels, SyncLabels
<1>4. CASE UpdateIface(w)
  <2>1. /\ pc[w] = "updateIface" /\ job[w].irow \in IfaceRow /\ job[w].ifc \in Ifaces
        /\ job[w].irow = ifaces[job[w].ifc] /\ job[w].op \in {"updateIface", "start", "stop"}
        /\ job[w].op = "stop" => dev[job[w].ifc] = None \/ ~dev[job[w].ifc].up
    BY <1>2, <1>4 DEF UpdateIface, At, SerialOf, LocalsOf, WithIface, Labels
  <2>2. PICK t \in Ports, l \in Links :
          ifaces' = [ifaces EXCEPT ![job[w].ifc] =
             IF @ = None THEN @ ELSE Rewritten(job[w].op, job[w].irow, t, l)]
    BY <1>4 DEF UpdateIface, Me
  <2> DEFINE new == Rewritten(job[w].op, job[w].irow, t, l)
  <2>3. /\ new \in IfaceRow
        /\ job[w].op = "start" => new.enabled
        /\ job[w].op = "updateIface" => new.enabled = job[w].irow.enabled
    BY <2>1, RewrittenFacts
  <2>4. ifaces' = [ifaces EXCEPT ![job[w].ifc] = IF @ = None THEN @ ELSE new]
    BY <2>2
  <2> HIDE DEF new
  <2>5. /\ ifaces'[job[w].ifc] = new /\ new # None
        /\ \A i \in Ifaces : i # job[w].ifc => ifaces'[i] = ifaces[i]
    <3>1. ifaces[job[w].ifc] # None /\ new # None
      BY <2>1, <2>3, NoneAssumption
    <3>2. ifaces \in [Ifaces -> IfaceRow \cup {None}]
      BY <1>1 DEF TypeSys
    <3> QED BY <2>1, <2>4, <3>1, <3>2
  <2>6. RaisesNone(w)
    <3>1. new.enabled \/ ~ifaces[job[w].ifc].enabled
          \/ dev[job[w].ifc] = None \/ ~dev[job[w].ifc].up
      BY <2>1, <2>3
    <3>2. ifaces[job[w].ifc] # None
      BY <2>1, NoneAssumption
    <3>3. \A i \in Ifaces : DisabledUp(i)' => DisabledUp(i)
      BY <1>1, <2>5, <3>1, <3>2 DEF DisabledUp
    <3> QED BY <3>3 DEF RaisesNone
  <2>7. CASE job[w].op = "start"
    <3>1. pc'[w] = "quickUp" /\ job'[w] = job[w]
      BY <1>1, <1>4, <2>7, ControlFacts DEF UpdateIface, Me
    <3> QED BY <2>3, <2>5, <2>6, <2>7, <3>1 DEF SerialOf, SyncLabels, Running
  <2>8. CASE job[w].op # "start"
    <3>1. pc'[w] = "idle"
      BY <1>1, <1>4, <2>8, ControlFacts DEF UpdateIface, Me
    <3> QED BY <2>6, <3>1, SerialVoid DEF SerialLabels, SyncLabels
  <2> QED BY <2>7, <2>8
<1>5. CASE DeleteRow(w)
  <2>1. pc'[w] = "idle"
    BY <1>1, <1>5, ControlFacts DEF DeleteRow
  <2>2. ifaces' = [ifaces EXCEPT ![job[w].ifc] = None]
    BY <1>5 DEF DeleteRow, Me
  <2>3. RaisesNone(w)
    BY <1>1, <2>2 DEF RaisesNone, DisabledUp, TypeSys
  <2> QED BY <2>1, <2>3, SerialVoid DEF SerialLabels, SyncLabels
<1> QED BY <1>3, <1>4, <1>5

\* Commands that take a device down or away.
LEMMA DownSerial ==
    ASSUME Inv1, NEW w \in Workers, SerialOf(w),
           NetDelete(w) \/ SyncDown(w) \/ QuickDown(w) \/ StopDown(w)
    PROVE  SerialOf(w)' /\ RaisesNone(w)
<1>1. TypeReq /\ TypeSys /\ UNCHANGED ifaces
  BY Inv1Facts DEF NetDelete, SyncDown, QuickDown, StopDown
<1>2. LocalsOf(w)
  BY DEF Inv1, Locals
<1>3. CASE NetDelete(w)
  <2>1. dev' = dev \/ dev' = [dev EXCEPT ![job[w].ifc] = None]
    BY <1>3 DEF NetDelete, Me
  <2>2. pc'[w] = "deleteRow"
    BY <1>1, <1>3, ControlFacts DEF NetDelete
  <2>3. RaisesNone(w)
    BY <1>1, <2>1, RaisesFrame DEF TypeSys
  <2> QED BY <2>2, <2>3, SerialVoid DEF SerialLabels, SyncLabels
<1>4. CASE SyncDown(w)
  <2>1. \/ dev' = dev
        \/ dev' = [dev EXCEPT ![job[w].ifc] = IF @ = None THEN @ ELSE [@ EXCEPT !.up = FALSE]]
    BY <1>4 DEF SyncDown, Me
  <2>2. pc'[w] = "idle"
    BY <1>1, <1>4, ControlFacts DEF SyncDown
  <2>3. RaisesNone(w)
    BY <1>1, <2>1, RaisesFrame DEF TypeSys, Device
  <2> QED BY <2>2, <2>3, SerialVoid DEF SerialLabels, SyncLabels
<1>5. CASE QuickDown(w)
  <2>1. dev' = dev \/ dev' = [dev EXCEPT ![job[w].ifc] = None]
    BY <1>5 DEF QuickDown, Me
  <2>2. RaisesNone(w)
    BY <1>1, <2>1, RaisesFrame DEF TypeSys
  <2>3. /\ pc[w] = "quickDown" /\ job[w].ifc \in Ifaces /\ job[w].op \in {"stop", "restart"}
        /\ job[w].op = "stop" => job[w].irow = ifaces[job[w].ifc]
    BY <1>2, <1>5 DEF QuickDown, At, SerialOf, LocalsOf, WithIface, Labels
  <2>4. CASE job[w].op = "restart"
    <3>1. pc'[w] = "quickUp" /\ job'[w] = job[w]
      BY <1>1, <1>5, <2>4, ControlFacts DEF QuickDown, Me
    <3> QED BY <2>2, <2>4, <3>1 DEF SerialOf, SyncLabels
  <2>5. CASE job[w].op = "stop"
    <3>1. /\ job'[w] = job[w]
          /\ \/ pc'[w] = "updateIface" /\ dev' = [dev EXCEPT ![job[w].ifc] = None]
             \/ pc'[w] = "stopDown"
      BY <1>1, <1>5, <2>5, ControlFacts DEF QuickDown, Me
    <3>2. pc'[w] = "updateIface" => dev'[job[w].ifc] = None
      BY <1>1, <2>3, <3>1 DEF TypeSys
    <3> QED BY <1>1, <2>2, <2>3, <2>5, <3>1, <3>2 DEF SerialOf, SyncLabels
  <2> QED BY <2>3, <2>4, <2>5
<1>6. CASE StopDown(w)
  <2>1. /\ pc[w] = "stopDown" /\ job[w].ifc \in Ifaces /\ job[w].op = "stop"
        /\ job[w].irow = ifaces[job[w].ifc]
    BY <1>2, <1>6 DEF StopDown, At, SerialOf, LocalsOf, WithIface, Labels
  <2>2. CASE pc'[w] = "idle"
    <3>1. dev' = dev \/ dev' = [dev EXCEPT ![job[w].ifc].up = FALSE]
      BY <1>6 DEF StopDown, Me
    <3>2. dev' = [dev EXCEPT ![job[w].ifc].up = FALSE] => Stay(w, "updateIface") \/ dev' = dev
      BY <1>6 DEF StopDown, Me
    <3>3. dev' = dev
      BY <1>1, <2>2, <3>1, <3>2, ControlFacts
    <3> QED BY <1>1, <2>2, <3>3, RaisesFrame, SerialVoid DEF SerialLabels, SyncLabels
  <2>3. CASE pc'[w] # "idle"
    <3>1. /\ dev[job[w].ifc] # None /\ dev' = [dev EXCEPT ![job[w].ifc].up = FALSE]
          /\ Stay(w, "updateIface")
      BY <1>1, <1>6, <2>3, ControlFacts DEF StopDown, Me
    <3>2. dev[job[w].ifc] \in Device
      BY <1>1, <2>1, <3>1 DEF TypeSys
    <3>3. /\ ~dev'[job[w].ifc].up
          /\ \A i \in Ifaces : i # job[w].ifc => dev'[i] = dev[i]
      BY <1>1, <2>1, <3>1, <3>2 DEF TypeSys, Device
    <3>4. RaisesNone(w)
      BY <1>1, <3>3, RaisesFrame
    <3>5. pc'[w] = "updateIface" /\ job'[w] = job[w]
      BY <1>1, <3>1, ControlFacts
    <3> QED BY <1>1, <2>1, <3>3, <3>4, <3>5 DEF SerialOf, SyncLabels
  <2> QED BY <2>2, <2>3
<1> QED BY <1>3, <1>4, <1>5, <1>6

\* SyncInterface past its look at the row, and wg-quick up.
LEMMA SyncSerial ==
    ASSUME Inv1, NEW w \in Workers, SerialOf(w),
           SyncList(w) \/ Exists(w) \/ SyncConf(w) \/ SaveConf(w) \/ SyncUp(w) \/ QuickUp(w)
    PROVE  SerialOf(w)' /\ RaisesNone(w)
<1>1. TypeReq /\ TypeSys /\ UNCHANGED ifaces /\ job[w] \in Job
  BY Inv1Facts DEF SyncList, Exists, SyncConf, SaveConf, SyncUp, QuickUp, sys, TypeReq
<1>2. job[w].ifc \in Ifaces /\ (QuickUp(w) \/ Running(job[w].ifc))
  <2>1. pc[w] \in SyncLabels \cup {"quickUp"} /\ (pc[w] = "quickUp" => QuickUp(w))
    BY DEF SyncList, Exists, SyncConf, SaveConf, SyncUp, QuickUp, At, SyncLabels
  <2> QED BY <2>1 DEF Inv1, Locals, LocalsOf, SerialOf, WithIface, Labels, SyncLabels
<1>3. \/ pc'[w] \in {"idle", "syncGet"}
      \/ pc'[w] \in SyncLabels /\ job'[w].ifc = job[w].ifc /\ Running(job[w].ifc)
  <2>1. CASE SyncList(w)
    <3>1. PICK c : job' = [job EXCEPT ![w].params = c]
      BY <2>1 DEF SyncList
    <3>2. pc'[w] = "exists"
      BY <1>1, <2>1, ControlFacts DEF SyncList
    <3>3. job'[w].ifc = job[w].ifc
      BY <1>1, <3>1 DEF TypeReq, Job
    <3>4. Running(job[w].ifc)
      BY <2>1 DEF SyncList, At, SerialOf, SyncLabels
    <3> QED BY <3>2, <3>3, <3>4 DEF SyncLabels
  <2>2. CASE Exists(w) \/ SyncConf(w) \/ SaveConf(w) \/ SyncUp(w)
    <3>1. Running(job[w].ifc)
      BY <2>2 DEF Exists, SyncConf, SaveConf, SyncUp, At, SerialOf, SyncLabels
    <3>2. \/ pc'[w] = "idle"
          \/ pc'[w] \in SyncLabels /\ job'[w] = job[w]
      BY <1>1, <2>2, ControlFacts DEF Exists, SyncConf, SaveConf, SyncUp, SyncLabels
    <3> QED BY <3>1, <3>2
  <2>3. CASE QuickUp(w)
    BY <1>1, <2>3, ControlFacts DEF QuickUp
  <2> QED BY <2>1, <2>2, <2>3
<1>4. SerialOf(w)'
  <2>1. CASE pc'[w] \in {"idle", "syncGet"}
    BY <2>1, SerialVoid DEF SerialLabels, SyncLabels
  <2>2. CASE pc'[w] \in SyncLabels /\ job'[w].ifc = job[w].ifc /\ Running(job[w].ifc)
    BY <1>1, <2>2 DEF SerialOf, SyncLabels, Running
  <2> QED BY <1>3, <2>1, <2>2
<1>5. RaisesNone(w)
  <2>1. CASE SyncList(w) \/ Exists(w) \/ SaveConf(w)
    <3>1. UNCHANGED dev
      BY <2>1 DEF SyncList, Exists, SaveConf, sys
    <3> QED BY <1>1, <3>1, RaisesFrame
  <2>2. CASE SyncConf(w)
    <3>1. \/ dev' = dev
          \/ /\ dev[job[w].ifc] # None
             /\ dev' = [dev EXCEPT ![job[w].ifc] = Stripped(@, job[w].params)]
      BY <2>2 DEF SyncConf, Me
    <3> QED BY <1>1, <1>2, <3>1, RaisesFrame DEF TypeSys, Stripped
  <2>3. CASE SyncUp(w) \/ QuickUp(w)
    <3>1. dev' = dev \/ dev' = [dev EXCEPT ![job[w].ifc] = Raised(conf[job[w].ifc])]
      BY <2>3 DEF SyncUp, QuickUp, Me
    <3>2. \A i \in Ifaces : i # job[w].ifc => dev'[i] = dev[i]
      BY <1>1, <3>1 DEF TypeSys
    <3>3. job[w].op = "restart" \/ Running(job[w].ifc)
      BY <2>3 DEF SyncUp, QuickUp, At, SerialOf, SyncLabels
    <3> QED BY <1>1, <3>2, <3>3 DEF RaisesNone, DisabledUp, Running
  <2> QED BY <2>1, <2>2, <2>3
<1> QED BY <1>4, <1>5

LEMMA StartSerial ==
    ASSUME Inv1, NEW w \in Workers, Arrive(w) \/ BootSync(w)
    PROVE  SerialOf(w)' /\ UNCHANGED <<ifaces, dev>>
<1>1. TypeReq /\ UNCHANGED <<ifaces, dev>>
  BY Inv1Facts, StartOthers DEF sys
<1>2. CASE BeginIface(w)
  <2>1. PICK o \in {"adopt", "delete", "updateIface", "sync", "start", "stop", "restart"},
             i \in Ifaces :
          Begin(w, NewJob(o, i, None, None, None),
                CASE o = "adopt"   -> "readConf"
                  [] o = "sync"    -> "syncGet"
                  [] o = "restart" -> "quickDown"
                  [] OTHER         -> "getIface")
    BY <1>2 DEF BeginIface
  <2>2. /\ job'[w].op = o
        /\ pc'[w] = CASE o = "adopt"   -> "readConf"
                      [] o = "sync"    -> "syncGet"
                      [] o = "restart" -> "quickDown"
                      [] OTHER         -> "getIface"
    BY <1>1, <2>1 DEF Begin, NewJob, TypeReq
  <2>3. \/ pc'[w] \in {"readConf", "syncGet"}
        \/ pc'[w] = "quickDown" /\ job'[w].op = "restart"
        \/ pc'[w] = "getIface" /\ job'[w].op \in {"delete", "updateIface", "start", "stop"}
    BY <2>2
  <2> QED BY <1>1, <2>3 DEF SerialOf, SyncLabels
<1>3. CASE BeginCreate(w) \/ BeginImport(w)
  <2>1. pc'[w] = "insertIface" /\ job'[w].irow.enabled
    BY <1>1, <1>3 DEF BeginCreate, BeginImport, Begin, NewJob, TypeReq
  <2> QED BY <1>1, <2>1 DEF SerialOf, SyncLabels
<1>4. CASE BeginAddPeer(w)
  <2>1. pc'[w] = "getIface" /\ job'[w].op = "addPeer"
    BY <1>1, <1>4 DEF BeginAddPeer, Begin, NewJob, TypeReq
  <2> QED BY <1>1, <2>1 DEF SerialOf, SyncLabels
<1>5. CASE BeginPeer(w) \/ BootSync(w)
  <2>1. pc'[w] \in {"pollGet", "getPeer", "syncGet"}
    BY <1>1, <1>5 DEF BeginPeer, Begin, BootSync, TypeReq
  <2> QED BY <1>1, <2>1, SerialVoid DEF SerialLabels, SyncLabels
<1> QED BY <1>2, <1>3, <1>4, <1>5 DEF Arrive

-----------------------------------------------------------------------------
\* With one worker, what it knows of the tables is theirs, and stays so.
Serial == \A w \in Workers : SerialOf(w)

LEMMA SerialInit == Init => Serial
BY DEF Init, Serial, SerialOf, SyncLabels

LEMMA SerialAdvance ==
    ASSUME Inv1, NEW w \in Workers, SerialOf(w), Advance(w)
    PROVE  SerialOf(w)' /\ RaisesNone(w)
BY ReadsSerial, HeadSerial, RowSerial, DownSerial, SyncSerial DEF Advance

LEMMA SerialNext ==
    ASSUME \A v, w \in Workers : v = w
    PROVE  Inv1 /\ Serial /\ [Next]_vars => Serial'
<1> SUFFICES ASSUME Inv1, Serial, [Next]_vars PROVE Serial'
  OBVIOUS
<1>1. ASSUME NEW w \in Workers, SerialOf(w)' PROVE Serial'
  BY <1>1 DEF Serial
<1>2. ASSUME NEW w \in Workers, Advance(w) PROVE Serial'
  BY <1>1, <1>2, SerialAdvance DEF Serial
<1>3. ASSUME NEW w \in Workers, Arrive(w) \/ BootSync(w) PROVE Serial'
  BY <1>1, <1>3, StartSerial
<1>4. CASE Crash
  BY <1>4 DEF Crash, Serial, SerialOf, SyncLabels
<1>5. CASE UNCHANGED vars
  BY <1>5 DEF vars, sys, Serial, SerialOf, Running
<1> QED BY <1>2, <1>3, <1>4, <1>5 DEF Next

(***************************************************************************)
(* With one request at a time, whatever fails and wherever the process is  *)
(* restarted, only RestartInterface, which does not look at the row,       *)
(* raises an interface that StopInterface has disabled: SyncInterface and  *)
(* StartInterface act on the row as it is stored, and StopInterface has    *)
(* taken the device down before it writes the row.                         *)
(***************************************************************************)
THEOREM OnlyRestartRaisesDisabledCorrect ==
    ASSUME \A v, w \in Workers : v = w
    PROVE  Spec => OnlyRestartRaisesDisabled
<1> DEFINE A == \A i \in Ifaces : DisabledUp(i)' /\ ~DisabledUp(i) =>
                   \E w \in Workers : job[w].op = "restart" /\ job[w].ifc = i
<1>1. ASSUME NEW w \in Workers, RaisesNone(w) PROVE A
  BY <1>1 DEF RaisesNone
<1>2. ASSUME Inv1, Serial, NEW w \in Workers, Advance(w) \/ Arrive(w) \/ BootSync(w)
      PROVE  A
  BY <1>1, <1>2, SerialAdvance, StartSerial, RaisesFrame DEF Serial
<1>3. ASSUME Crash PROVE A
  <2>1. ifaces' = ifaces /\ \A i \in Ifaces : dev'[i] = None \/ dev'[i] = dev[i]
    BY <1>3 DEF Crash
  <2> QED BY <2>1 DEF DisabledUp
<1>4. Inv1 /\ Serial /\ [Next]_vars => [A]_vars
  <2> HIDE DEF A
  <2> QED BY <1>2, <1>3 DEF Next
<1>5. OnlyRestartRaisesDisabled <=> [][A]_vars
  BY DEF OnlyRestartRaisesDisabled
<1> HIDE DEF A
<1> QED BY <1>4, <1>5, SerialInit, SerialNext, TypeCorrect, PTL DEF Spec

-----------------------------------------------------------------------------
(***************************************************************************)
(* The abstract reconciler.  With one worker nothing touches a request, so *)
(* that its SyncView always holds; each lemma maps a group of actions.     *)
(***************************************************************************)
Reconciles == [Recon!Next]_(Recon!vars)

LEMMA WantFrame == ASSUME UNCHANGED <<ifaces, peers>> PROVE UNCHANGED <<Want, On>>
<1>1. \A i : Blocks(i)' = Blocks(i)
  BY BlocksFrame
<1>2. \A i \in Ifaces : ConfOf(ifaces[i], i)' = ConfOf(ifaces[i], i)
  BY <1>1 DEF ConfOf
<1> QED BY <1>2 DEF Want, On

LEMMA ReconStutter == ASSUME UNCHANGED sys PROVE Reconciles
BY WantFrame DEF sys, Reconciles, Recon!vars

LEMMA WantSome ==
    ASSUME TypeSys, NEW i \in Ifaces, ifaces[i] # None
    PROVE  /\ Want[i] = ConfOf(ifaces[i], i) /\ Want[i] # None
           /\ Want[i].key = ifaces[i].key /\ Want[i].port = ifaces[i].port
<1>1. ifaces[i] \in IfaceRow
  BY DEF TypeSys
<1>2. Blocks(i) \subseteq Block
  BY DEF TypeSys, Blocks, Block, PeerRow
<1>3. ConfOf(ifaces[i], i) \in Conf
  BY <1>1, <1>2 DEF ConfOf, Conf, IfaceRow
<1>4. Want[i] = ConfOf(ifaces[i], i)
  BY DEF Want
<1> QED BY <1>3, <1>4, NoneAssumption DEF ConfOf

\* Rows change, of one interface.
LEMMA ReconEdit ==
    ASSUME TypeSys, NEW i \in Ifaces, UNCHANGED <<conf, dev>>,
           \A j \in Ifaces : j # i => ifaces'[j] = ifaces[j] /\ Blocks(j)' = Blocks(j),
           (ifaces'[i] # None /\ ~ifaces'[i].enabled) =>
                ifaces[i] # None /\ (ifaces[i].enabled => dev[i] = None \/ ~dev[i].up)
    PROVE  Reconciles
<1>1. \A j \in Ifaces : j # i => Want'[j] = Want[j]
  BY DEF Want, ConfOf
<1>2. Want' = [Want EXCEPT ![i] = Want'[i]]
  BY <1>1 DEF Want
<1>3. On' \in {On \cup {i}, On \ {i}}
  <2>1. \A j \in Ifaces : j # i => (j \in On' <=> j \in On)
    BY DEF On
  <2>2. On' \subseteq Ifaces /\ On \subseteq Ifaces
    BY DEF On
  <2>3. CASE i \in On'
    <3>1. On' = On \cup {i}
      BY <2>1, <2>2, <2>3
    <3> QED BY <3>1
  <2>4. CASE i \notin On'
    <3>1. On' = On \ {i}
      BY <2>1, <2>2, <2>4
    <3> QED BY <3>1
  <2> QED BY <2>3, <2>4
<1>4. ASSUME Want'[i] # None, i \notin On'
      PROVE  Want[i] # None /\ (i \in On => Recon!Down(i))
  <2>1. ifaces'[i] # None /\ ~ifaces'[i].enabled
    BY <1>4 DEF Want, On
  <2>2. ifaces[i] # None /\ (ifaces[i].enabled => dev[i] = None \/ ~dev[i].up)
    BY <2>1
  <2> QED BY <2>2, WantSome DEF On, Recon!Down
<1>5. Recon!Edit(i)
  BY <1>2, <1>3, <1>4 DEF Recon!Edit
<1> QED BY <1>5 DEF Reconciles, Recon!Next

\* Peers other than those of i keep their blocks.
LEMMA OtherBlocks ==
    ASSUME NEW i,
           \A p \in Peers : \/ peers'[p] = peers[p]
                          \/ /\ peers[p] = None \/ peers[p].iface = i
                             /\ peers'[p] = None \/ peers'[p].iface = i
    PROVE  \A j \in Ifaces : j # i => Blocks(j)' = Blocks(j)
<1> SUFFICES ASSUME NEW j \in Ifaces, j # i PROVE Blocks(j)' = Blocks(j)
  OBVIOUS
<1> DEFINE Q == {q \in Peers : peers[q] # None /\ peers[q].iface = j /\ peers[q].enabled}
<1>1. /\ Q' = Q
      /\ \A p \in Q : peers'[p] = peers[p]
  OBVIOUS
<1>2. Blocks(j) = {<<p, peers[p].attr>> : p \in Q}
  BY DEF Blocks
<1>3. Blocks(j)' = {<<p, peers'[p].attr>> : p \in Q'}
  BY DEF Blocks
<1> HIDE DEF Q
<1> QED BY <1>1, <1>2, <1>3

\* A statement on one row of peers.
LEMMA ReconPeer ==
    ASSUME TypeSys, NEW q \in Peers, NEW i \in Ifaces, UNCHANGED <<ifaces, conf, dev>>,
           NEW r, peers' = [peers EXCEPT ![q] = r],
           peers[q] = None \/ peers[q].iface = i, r = None \/ r.iface = i
    PROVE  Reconciles
<1>1. \A p \in Peers : \/ peers'[p] = peers[p]
                      \/ /\ peers[p] = None \/ peers[p].iface = i
                         /\ peers'[p] = None \/ peers'[p].iface = i
  BY DEF TypeSys
<1>2. \A j \in Ifaces : j # i => Blocks(j)' = Blocks(j)
  BY <1>1, OtherBlocks
<1> QED BY <1>2, ReconEdit

LEMMA PeersReconcile ==
    ASSUME Inv1, HomeInv, NEW w \in Workers,
           ImportPeer(w) \/ InsertPeer(w) \/ DeletePeer(w) \/ UpdatePeer(w)
    PROVE  Reconciles
<1>1. /\ TypeSys /\ LocalsOf(w) /\ HomeOf(w) /\ RowsHome
      /\ UNCHANGED <<ifaces, conf, dev>>
  BY Inv1Facts DEF HomeInv, Locals, ImportPeer, InsertPeer, DeletePeer, UpdatePeer
<1>2. peers' = peers => Reconciles
  BY <1>1, ReconStutter DEF sys
<1>3. CASE ImportPeer(w)
  <2>1. job[w].ifc \in Ifaces /\ job[w].params \in Conf
    BY <1>1, <1>3 DEF ImportPeer, At, LocalsOf, WithIface, WithParams, Labels
  <2>2. SUFFICES ASSUME peers' # peers PROVE Reconciles
    BY <1>2
  <2>3. PICK b \in job[w].params.peers :
          /\ peers[b[1]] = None
          /\ peers' = [peers EXCEPT ![b[1]] =
                 [iface |-> job[w].ifc, attr |-> b[2], enabled |-> TRUE]]
    BY <1>3, <2>2 DEF ImportPeer, Me, CanCreatePeer
  <2>4. b[1] \in Peers
    BY <2>1 DEF Conf, Block
  <2> QED BY <1>1, <2>1, <2>3, <2>4, ReconPeer
<1>4. CASE InsertPeer(w)
  <2>1. job[w].ifc \in Ifaces /\ job[w].pid \in Peers
    BY <1>1, <1>4 DEF InsertPeer, At, LocalsOf, WithIface, WithPeer, Labels
  <2>2. SUFFICES ASSUME peers' # peers PROVE Reconciles
    BY <1>2
  <2>3. PICK a \in Attrs :
          /\ peers[job[w].pid] = None
          /\ peers' = [peers EXCEPT ![job[w].pid] =
                 [iface |-> job[w].ifc, attr |-> a, enabled |-> TRUE]]
    BY <1>4, <2>2 DEF InsertPeer, Me, CanCreatePeer
  <2> QED BY <1>1, <2>1, <2>3, ReconPeer
<1>5. CASE DeletePeer(w)
  <2>1. /\ job[w].ifc \in Ifaces /\ job[w].pid \in Peers
        /\ peers' = [peers EXCEPT ![job[w].pid] = None]
    BY <1>1, <1>5 DEF DeletePeer, At, LocalsOf, WithIface, WithPeer, Labels, Me
  <2>2. PICK i \in Ifaces : peers[job[w].pid] = None \/ peers[job[w].pid].iface = i
    BY <1>1, <2>1 DEF TypeSys, PeerRow
  <2> QED BY <1>1, <2>1, <2>2, ReconPeer
<1>6. CASE UpdatePeer(w)
  <2>1. /\ job[w].pid \in Peers /\ job[w].prow \in PeerRow
        /\ job[w].prow.iface = home[job[w].pid]
    BY <1>1, <1>6 DEF UpdatePeer, At, LocalsOf, HomeOf, WithPeer
  <2>2. PICK a \in Attrs :
          peers' = [peers EXCEPT ![job[w].pid] = IF @ = None THEN @ ELSE NewPeerRow(job[w], a)]
    BY <1>6 DEF UpdatePeer, Me
  <2>3. CASE peers[job[w].pid] = None
    <3>1. peers' = peers
      BY <1>1, <2>1, <2>2, <2>3 DEF TypeSys
    <3> QED BY <1>2, <3>1
  <2>4. CASE peers[job[w].pid] # None
    <3>1. NewPeerRow(job[w], a).iface = job[w].prow.iface
      BY <2>1 DEF NewPeerRow, PeerRow
    <3>2. peers[job[w].pid].iface = home[job[w].pid] /\ peers[job[w].pid] \in PeerRow
      BY <1>1, <2>1, <2>4 DEF RowsHome, TypeSys
    <3>3. home[job[w].pid] \in Ifaces
      BY <3>2 DEF PeerRow
    <3>4. peers' = [peers EXCEPT ![job[w].pid] = NewPeerRow(job[w], a)]
      BY <2>2, <2>4
    <3> QED BY <1>1, <2>1, <3>1, <3>2, <3>3, <3>4, ReconPeer
  <2> QED BY <2>3, <2>4
<1> QED BY <1>3, <1>4, <1>5, <1>6

LEMMA RowsReconcile ==
    ASSUME Inv1, NEW w \in Workers, SerialOf(w),
           InsertIface(w) \/ UpdateIface(w) \/ DeleteRow(w)
    PROVE  Reconciles
<1>1. TypeSys /\ UNCHANGED <<conf, dev>>
  BY Inv1Facts DEF InsertIface, UpdateIface, DeleteRow
<1>0. LocalsOf(w)
  BY DEF Inv1, Locals
<1>2. job[w].ifc \in Ifaces
  <2>1. pc[w] \in {"insertIface", "updateIface", "deleteRow"}
    BY DEF InsertIface, UpdateIface, DeleteRow, At
  <2> QED BY <1>0, <2>1 DEF LocalsOf, WithIface, Labels
<1>3. CASE InsertIface(w)
  <2>1. job[w].irow.enabled
    BY <1>3 DEF InsertIface, At, SerialOf
  <2>2. UNCHANGED peers /\ (ifaces' = ifaces \/ ifaces' = [ifaces EXCEPT ![job[w].ifc] = job[w].irow])
    BY <1>3 DEF InsertIface, Me
  <2>3. CASE ifaces' = ifaces
    BY <1>1, <2>2, <2>3, ReconStutter DEF sys
  <2>4. CASE ifaces' = [ifaces EXCEPT ![job[w].ifc] = job[w].irow]
    <3>1. \A j \in Ifaces : j # job[w].ifc => ifaces'[j] = ifaces[j] /\ Blocks(j)' = Blocks(j)
      BY <2>2, <2>4, BlocksFrame DEF TypeSys
    <3>2. ifaces'[job[w].ifc].enabled
      BY <1>1, <1>2, <2>1, <2>4 DEF TypeSys
    <3> QED BY <1>1, <1>2, <3>1, <3>2, ReconEdit
  <2> QED BY <2>2, <2>3, <2>4
<1>4. CASE UpdateIface(w)
  <2>1. /\ job[w].irow \in IfaceRow /\ job[w].irow = ifaces[job[w].ifc]
        /\ job[w].op = "stop" => dev[job[w].ifc] = None \/ ~dev[job[w].ifc].up
    BY <1>0, <1>4 DEF UpdateIface, At, SerialOf, LocalsOf, WithIface, Labels
  <2>2. PICK t \in Ports, l \in Links :
          ifaces' = [ifaces EXCEPT ![job[w].ifc] =
             IF @ = None THEN @ ELSE Rewritten(job[w].op, job[w].irow, t, l)]
    BY <1>4 DEF UpdateIface, Me
  <2> DEFINE new == Rewritten(job[w].op, job[w].irow, t, l)
  <2>3. ~new.enabled => job[w].op = "stop" \/ ~job[w].irow.enabled
    BY <2>1, RewrittenFacts
  <2>4. ifaces' = [ifaces EXCEPT ![job[w].ifc] = IF @ = None THEN @ ELSE new]
    BY <2>2
  <2> HIDE DEF new
  <2>5. ifaces[job[w].ifc] # None
    BY <2>1, NoneAssumption
  <2>6. /\ ifaces'[job[w].ifc] = new
        /\ \A j \in Ifaces : j # job[w].ifc => ifaces'[j] = ifaces[j]
    BY <1>1, <1>2, <2>4, <2>5 DEF TypeSys
  <2>7. \A j \in Ifaces : Blocks(j)' = Blocks(j)
    <3>1. UNCHANGED peers
      BY <1>4 DEF UpdateIface
    <3> QED BY <3>1, BlocksFrame
  <2>8. ~ifaces'[job[w].ifc].enabled => (ifaces[job[w].ifc].enabled => dev[job[w].ifc] = None \/ ~dev[job[w].ifc].up)
    BY <2>1, <2>3, <2>6
  <2> QED BY <1>1, <1>2, <2>5, <2>6, <2>7, <2>8, ReconEdit
<1>5. CASE DeleteRow(w)
  <2>1. PICK fk :
          /\ ifaces' = [ifaces EXCEPT ![job[w].ifc] = None]
          /\ peers' = [p \in Peers |-> IF /\ fk /\ ifaces[job[w].ifc] # None
                                          /\ peers[p] # None /\ peers[p].iface = job[w].ifc
                                       THEN None ELSE peers[p]]
    BY <1>5 DEF DeleteRow, Me
  <2>2. \A p \in Peers : peers'[p] = peers[p] \/ (peers[p].iface = job[w].ifc /\ peers'[p] = None)
    BY <2>1
  <2>3. \A j \in Ifaces : j # job[w].ifc => Blocks(j)' = Blocks(j)
    BY <2>2, OtherBlocks
  <2>4. /\ ifaces'[job[w].ifc] = None
        /\ \A j \in Ifaces : j # job[w].ifc => ifaces'[j] = ifaces[j]
    BY <1>1, <1>2, <2>1 DEF TypeSys
  <2> QED BY <1>1, <1>2, <2>3, <2>4, ReconEdit
<1> QED BY <1>3, <1>4, <1>5

\* Commands on a device and writes of a file, at whatever step.
LEMMA ReconDevice ==
    ASSUME TypeSys, NEW i \in Ifaces, UNCHANGED <<ifaces, peers, conf>>,
           \/ dev' = dev
           \/ dev' = [dev EXCEPT ![i] = None]
           \/ dev[i] # None /\ dev' = [dev EXCEPT ![i] = [dev[i] EXCEPT !.up = FALSE]]
           \/ UpOk(i) /\ dev' = [dev EXCEPT ![i] = Raised(conf[i])]
    PROVE  Reconciles
<1>1. UNCHANGED <<Want, On>>
  BY WantFrame
<1>2. CASE dev' = dev
  BY <1>2, ReconStutter DEF sys
<1>3. CASE dev' = [dev EXCEPT ![i] = None]
  <2>1. Recon!Remove(i)
    BY <1>1, <1>3 DEF Recon!Remove
  <2> QED BY <2>1 DEF Reconciles, Recon!Next
<1>4. CASE dev[i] # None /\ dev' = [dev EXCEPT ![i] = [dev[i] EXCEPT !.up = FALSE]]
  <2>1. Recon!Lower(i)
    BY <1>1, <1>4 DEF Recon!Lower
  <2> QED BY <2>1 DEF Reconciles, Recon!Next
<1>5. CASE UpOk(i) /\ dev' = [dev EXCEPT ![i] = Raised(conf[i])]
  <2>1. Recon!Raise(i)
    BY <1>1, <1>5 DEF Recon!Raise, Recon!Up, UpOk, Raised
  <2> QED BY <2>1 DEF Reconciles, Recon!Next
<1> QED BY <1>2, <1>3, <1>4, <1>5

LEMMA CommandsReconcile ==
    ASSUME Inv1, NEW w \in Workers,
           \/ NetDelete(w) \/ SyncDown(w) \/ QuickDown(w) \/ StopDown(w)
           \/ SyncUp(w) \/ QuickUp(w)
    PROVE  Reconciles
<1> DEFINE i == job[w].ifc
<1>1. TypeSys /\ LocalsOf(w)
  BY Inv1Facts DEF Locals
<1>2. i \in Ifaces /\ UNCHANGED <<ifaces, peers, conf>>
  BY <1>1 DEF NetDelete, SyncDown, QuickDown, StopDown, SyncUp, QuickUp, At, LocalsOf,
              WithIface, Labels
<1>3. CASE NetDelete(w) \/ QuickDown(w)
  <2>1. dev' = dev \/ dev' = [dev EXCEPT ![i] = None]
    BY <1>3 DEF NetDelete, QuickDown, Me
  <2> QED BY <1>1, <1>2, <2>1, ReconDevice
<1>4. CASE SyncDown(w) \/ StopDown(w)
  <2>1. \/ dev' = dev
        \/ dev' = [dev EXCEPT ![i] = IF @ = None THEN @ ELSE [@ EXCEPT !.up = FALSE]]
        \/ dev[i] # None /\ dev' = [dev EXCEPT ![i].up = FALSE]
    BY <1>4 DEF SyncDown, StopDown, Me
  <2>2. \/ dev' = dev
        \/ dev[i] # None /\ dev' = [dev EXCEPT ![i] = [dev[i] EXCEPT !.up = FALSE]]
    BY <1>1, <1>2, <2>1 DEF TypeSys
  <2> QED BY <1>1, <1>2, <2>2, ReconDevice
<1>5. CASE SyncUp(w) \/ QuickUp(w)
  <2>1. dev' = dev \/ (UpOk(i) /\ dev' = [dev EXCEPT ![i] = Raised(conf[i])])
    BY <1>5 DEF SyncUp, QuickUp, Me
  <2> QED BY <1>1, <1>2, <2>1, ReconDevice
<1> QED BY <1>3, <1>4, <1>5

\* SyncInterface applies and saves what it built from rows that are still those
\* of the tables.
LEMMA SyncReconciles ==
    ASSUME Inv1, NEW w \in Workers, SyncView(w),
           SyncConf(w) \/ SaveAfter(w) \/ SaveConf(w)
    PROVE  Reconciles
<1> DEFINE i == job[w].ifc
<1>1. TypeSys /\ LocalsOf(w)
  BY Inv1Facts DEF Locals
<1>2. /\ i \in Ifaces /\ pc[w] \in SyncLabels \ {"syncList"}
      /\ UNCHANGED <<ifaces, peers>>
  BY <1>1 DEF SyncConf, SaveAfter, SaveConf, At, LocalsOf, WithIface, Labels, SyncLabels
<1>3. Wanted(w)
  BY <1>2 DEF SyncView
<1>4. i \in On /\ job[w].params = Want[i] /\ UNCHANGED <<Want, On>>
  BY <1>2, <1>3, WantFrame DEF Wanted, Want, On
<1>5. CASE SyncConf(w)
  <2>1. conf' = conf
    BY <1>5 DEF SyncConf
  <2>2. CASE dev' = dev
    BY <1>2, <2>1, <2>2, ReconStutter DEF sys
  <2>3. CASE dev' # dev
    <3>1. dev[i] # None /\ dev' = [dev EXCEPT ![i] = Stripped(dev[i], job[w].params)]
      BY <1>5, <2>3 DEF SyncConf, Me
    <3>2. Recon!Apply(i)
      BY <1>4, <2>1, <3>1 DEF Recon!Apply, Stripped
    <3> QED BY <3>2, <1>2 DEF Reconciles, Recon!Next
  <2> QED BY <2>2, <2>3
<1>6. CASE SaveAfter(w) \/ SaveConf(w)
  <2>1. dev' = dev /\ (conf' = conf \/ conf' = [conf EXCEPT ![i] = job[w].params])
    BY <1>6 DEF SaveAfter, SaveConf, Me
  <2>2. CASE conf' = conf
    BY <1>2, <2>1, <2>2, ReconStutter DEF sys
  <2>3. CASE conf' = [conf EXCEPT ![i] = job[w].params]
    <3>1. Recon!Save(i)
      BY <1>4, <2>1, <2>3 DEF Recon!Save
    <3> QED BY <3>1, <1>2 DEF Reconciles, Recon!Next
  <2> QED BY <2>1, <2>2, <2>3
<1> QED BY <1>5, <1>6

LEMMA AdvanceReconciles ==
    ASSUME Inv1, HomeInv, NEW w \in Workers, SerialOf(w), SyncView(w), Advance(w)
    PROVE  Reconciles
<1>1. CASE \/ ReadConf(w) \/ GetIface(w) \/ GetPeer(w) \/ PollGet(w) \/ Reject(w)
           \/ SyncGet(w) \/ SyncList(w) \/ Exists(w) \/ DbFault(w)
  <2>1. UNCHANGED sys
    BY <1>1 DEF ReadConf, GetIface, GetPeer, PollGet, Reject, SyncGet, SyncList, Exists, DbFault
  <2> QED BY <2>1, ReconStutter
<1> QED BY <1>1, PeersReconcile, RowsReconcile, CommandsReconcile, SyncReconciles DEF Advance

LEMMA ReconInit == Init => Recon!Init
<1> SUFFICES ASSUME Init PROVE Recon!Init
  OBVIOUS
<1>1. Want = [i \in Ifaces |-> None] /\ On = {}
  BY DEF Init, Want, On
<1>2. PICK R \in SUBSET Preset :
          dev = [i \in Ifaces |-> IF i \in R THEN Raised(conf[i]) ELSE None]
  BY DEF Init
<1>3. ASSUME NEW i \in Ifaces, dev[i] # None
      PROVE  conf[i] # None /\ dev[i] = Recon!Up(conf[i])
  <2>1. i \in R /\ dev[i] = Raised(conf[i])
    BY <1>2, <1>3
  <2> QED BY <2>1 DEF Init, Raised, Recon!Up
<1> QED BY <1>1, <1>3 DEF Recon!Init

\* With one worker, its request is never touched by another.
Untouched == \A w \in Workers : ~touched[w]

LEMMA UntouchedNext ==
    ASSUME \A v, w \in Workers : v = w
    PROVE  Untouched /\ [Next]_vars => Untouched'
<1> SUFFICES ASSUME Untouched, [Next]_vars PROVE Untouched'
  OBVIOUS
<1>1. CASE \E w \in Workers : Mark(w)
  BY <1>1 DEF Mark, Untouched
<1>2. CASE Crash
  BY <1>2 DEF Crash, Untouched
<1>3. CASE UNCHANGED vars
  BY <1>3 DEF vars, Untouched
<1> QED BY <1>1, <1>2, <1>3 DEF Next

\* A crash stops the process, and may take every device with it.
LEMMA CrashReconciles == ASSUME Crash PROVE Reconciles
<1>1. UNCHANGED <<Want, On, conf>>
  BY WantFrame DEF Crash
<1>2. CASE dev' = dev
  BY <1>2, ReconStutter DEF Crash, sys
<1>3. CASE dev' = [i \in Ifaces |-> None]
  BY <1>1, <1>3 DEF Reconciles, Recon!Next, Recon!Reboot
<1> QED BY <1>2, <1>3 DEF Crash

(***************************************************************************)
(* With one request at a time, whatever fails and wherever the process is  *)
(* restarted, the manager implements the reconciler: what SyncInterface    *)
(* applies to a device and saves into a file is what the tables call for   *)
(* when it does so, although it has read them several steps before, and    *)
(* StopInterface switches off what is down.                                *)
(***************************************************************************)
THEOREM ReconcilerImplementedCorrect ==
    ASSUME \A v, w \in Workers : v = w
    PROVE  Spec => ReconcilerImplemented
<1> DEFINE Inv == Inv1 /\ HomeInv /\ Serial /\ SyncInv /\ Untouched
<1>1. Init => SyncInv /\ Untouched
  BY DEF Init, SyncInv, SyncView, SyncLabels, Synced, Untouched
<1>2. Inv /\ [Next]_vars => Reconciles
  <2> SUFFICES ASSUME Inv, [Next]_vars PROVE Reconciles
    OBVIOUS
  <2>1. ASSUME NEW w \in Workers, Advance(w) PROVE Reconciles
    <3>1. SerialOf(w) /\ SyncView(w)
      BY DEF Serial, SyncInv, Untouched
    <3> QED BY <2>1, <3>1, AdvanceReconciles
  <2>2. ASSUME NEW w \in Workers, Arrive(w) \/ BootSync(w) PROVE Reconciles
    BY <2>2, StartOthers, ReconStutter, Inv1Facts
  <2>3. CASE UNCHANGED vars
    BY <2>3, ReconStutter DEF vars
  <2> QED BY <2>1, <2>2, <2>3, CrashReconciles DEF Next
<1> QED BY <1>1, <1>2, ReconInit, HomeCorrect, SerialInit, SerialNext, SyncInvNext,
       UntouchedNext, PTL DEF Spec, ReconcilerImplemented, Recon!Spec, Reconciles
=============================================================================
