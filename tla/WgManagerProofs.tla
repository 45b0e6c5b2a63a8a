--------------------------- MODULE WgManagerProofs ---------------------------
(***************************************************************************)
(* Theorems about WgManager for every set of workers, interfaces, peers,   *)
(* keys and operations, every choice of failing commands and every bound.  *)
(***************************************************************************)
EXTENDS WgManager, TLAPS

USE NoneAssumption, OpsAssumption, PresetAssumption, BoundsAssumption

(***************************************************************************)
(* What the local variables of a request hold at each of its steps.        *)
(***************************************************************************)
WithIface == Labels \ {"idle", "getPeer", "pollGet"}
WithParams == {"importPeer", "exists", "syncConf", "saveAfter", "saveConf",
               "syncUp"}
WithPeer == {"getPeer", "pollGet", "deletePeer", "updatePeer", "insertPeer"}

LocalsOf(w) ==
    /\ pc[w] \in WithIface => job[w].ifc \in Ifaces
    /\ pc[w] \in WithPeer => job[w].pid \in Peers
    /\ pc[w] = "getIface" /\ job[w].op = "addPeer" => job[w].pid \in Peers
    /\ pc[w] \in {"insertIface", "updateIface", "syncList", "stopDown"} =>
            job[w].irow \in IfaceRow
    /\ pc[w] = "quickDown" /\ job[w].op # "restart" => job[w].irow \in IfaceRow
    /\ pc[w] = "stopDown" => job[w].op # "restart"
    /\ pc[w] = "updatePeer" => job[w].prow \in PeerRow
    /\ pc[w] \in WithParams => job[w].params \in Conf
    /\ pc[w] = "insertIface" /\ job[w].op # "create" => job[w].params \in Conf
    /\ result[w] \in {"synced", "unsaved", "quick"} => job[w].ifc \in Ifaces

Locals == \A w \in Workers : LocalsOf(w)

Inv1 == TypeOK /\ Locals

LEMMA InitInv1 == Init => Inv1
<1> SUFFICES ASSUME Init PROVE Inv1 OBVIOUS
<1>1. TypeOK
  <2>1. \A i \in Preset : conf[i] \in Conf
    BY DEF Init
  <2>2. usedKeys \subseteq Keys
    BY <2>1 DEF Init, Conf
  <2>3. dev \in [Ifaces -> Device \cup {None}]
    <3>1. \A i \in Preset : Raised(conf[i]) \in Device
      BY <2>1 DEF Conf, Device, Raised
    <3> QED BY <3>1 DEF Init
  <2>4. /\ ifaces \in [Ifaces -> IfaceRow \cup {None}]
        /\ peers \in [Peers -> PeerRow \cup {None}]
        /\ home \in [Peers -> Ifaces \cup {None}]
    BY DEF Init
  <2>5. /\ pc \in [Workers -> Labels]
        /\ result \in [Workers -> Results]
        /\ touched \in [Workers -> BOOLEAN]
    BY DEF Init, Labels, Results
  <2>6. job \in [Workers -> Job]
    BY DEF Init, NoJob, NewJob, Job
  <2>7. booting \subseteq Ifaces /\ requests \in 0..MaxRequests /\ crashes \in 0..MaxCrashes
    BY DEF Init
  <2> QED BY <2>2, <2>3, <2>4, <2>5, <2>6, <2>7 DEF Init, TypeOK
<1>2. Locals
  BY DEF Init, Locals, LocalsOf, WithIface, WithParams, WithPeer, NoJob, NewJob
<1> QED BY <1>1, <1>2 DEF Inv1

-----------------------------------------------------------------------------
(***************************************************************************)
(* How the control operators move a request, stated once.                  *)
(***************************************************************************)
TypeReq == /\ pc \in [Workers -> Labels]
           /\ job \in [Workers -> Job]
           /\ result \in [Workers -> Results]

\* Nobody but w moves.
Others(w) == \A v \in Workers \ {w} :
                pc'[v] = pc[v] /\ job'[v] = job[v] /\ result'[v] = result[v]

LEMMA FinishFacts ==
    ASSUME TypeReq, NEW w \in Workers, NEW r \in Results, Finish(w, r)
    PROVE  /\ TypeReq' /\ Others(w)
           /\ pc'[w] = "idle" /\ result'[w] = r
           /\ job'[w].ifc = job[w].ifc /\ job'[w].op = job[w].op
           /\ job'[w].pid = job[w].pid
<1>1. job[w] \in Job
  BY DEF TypeReq
<1>2. [job[w] EXCEPT !.irow = None, !.prow = None, !.params = None] \in Job
  BY <1>1 DEF Job
<1>3. job' \in [Workers -> Job]
  BY <1>2 DEF Finish, TypeReq
<1>4. /\ job'[w].ifc = job[w].ifc /\ job'[w].op = job[w].op
      /\ job'[w].pid = job[w].pid
  BY <1>1 DEF Finish, TypeReq, Job
<1> QED BY <1>3, <1>4 DEF Finish, TypeReq, Others, Labels

LEMMA StayFacts ==
    ASSUME TypeReq, NEW w \in Workers, NEW l \in Labels, Stay(w, l)
    PROVE  /\ TypeReq' /\ Others(w)
           /\ pc'[w] = l /\ result'[w] = result[w] /\ job'[w] = job[w]
BY DEF Stay, Goto, TypeReq, Others

\* A step that changes the local variables of w and goes on.
LEMMA MoveFacts ==
    ASSUME TypeReq, NEW w \in Workers, NEW l \in Labels, NEW j \in Job,
           job' = [job EXCEPT ![w] = j], Goto(w, l)
    PROVE  /\ TypeReq' /\ Others(w)
           /\ pc'[w] = l /\ result'[w] = result[w] /\ job'[w] = j
BY DEF Goto, TypeReq, Others

LEMMA BeginFacts ==
    ASSUME Inv1, NEW w \in Workers, NEW l \in Labels, NEW j \in Job,
           Begin(w, j, l)
    PROVE  /\ TypeReq' /\ Others(w)
           /\ pc'[w] = l /\ result'[w] = "none" /\ job'[w] = j
           /\ requests' \in 0..MaxRequests /\ UNCHANGED <<sys, booting, crashes>>
           /\ pooled' \in BOOLEAN /\ shared' \in BOOLEAN
<1>1. requests' \in 0..MaxRequests
  BY DEF Begin, Inv1, TypeOK
<1>2. pooled' \in BOOLEAN /\ shared' \in BOOLEAN
  BY Zenon DEF Begin
<1> QED BY <1>1, <1>2 DEF Begin, Inv1, TypeOK, TypeReq, Others, Results

\* The requests that do not move keep what their locals hold.
LEMMA OthersLocals ==
    ASSUME Locals, NEW w \in Workers, Others(w), LocalsOf(w)'
    PROVE  Locals'
BY DEF Locals, LocalsOf, Others

TypeSys == /\ ifaces \in [Ifaces -> IfaceRow \cup {None}]
           /\ peers \in [Peers -> PeerRow \cup {None}]
           /\ conf \in [Ifaces -> Conf \cup {None}]
           /\ dev \in [Ifaces -> Device \cup {None}]

\* The system is untouched by the step.
LEMMA SysFrame == ASSUME Inv1, UNCHANGED sys PROVE TypeSys'
BY DEF Inv1, TypeOK, TypeSys, sys

LEMMA Inv1Facts == Inv1 => TypeSys /\ TypeReq /\ Locals
BY DEF Inv1, TypeOK, TypeSys, TypeReq

\* What is left to show for a step of a request under way.
LEMMA AdvanceInv1 ==
    ASSUME Inv1, NEW w \in Workers, Mark(w), UNCHANGED <<history, control>>,
           TypeSys', TypeReq', Others(w), LocalsOf(w)'
    PROVE  Inv1'
<1>1. Locals'
  BY OthersLocals DEF Inv1
<1>2. touched' \in [Workers -> BOOLEAN]
  <2>1. \A v \in Workers : (pc[w] # "idle" /\ touched[w]) \in BOOLEAN
                        /\ (touched[v] \/ sys' # sys) \in BOOLEAN
    BY Zenon
  <2> QED BY <2>1 DEF Mark
<1> QED BY <1>1, <1>2 DEF Inv1, TypeOK, TypeSys, TypeReq, history, control

\* A request that has ended has no obligation but to name its interface.
LEMMA FinishLocals ==
    ASSUME Inv1, NEW w \in Workers, NEW r \in Results, Finish(w, r),
           r \in {"synced", "unsaved", "quick"} => job[w].ifc \in Ifaces
    PROVE  TypeReq' /\ Others(w) /\ LocalsOf(w)'
<1>1. /\ TypeReq' /\ Others(w)
      /\ pc'[w] = "idle" /\ result'[w] = r
      /\ job'[w].ifc = job[w].ifc
  BY FinishFacts, Inv1Facts
<1> QED BY <1>1 DEF LocalsOf, WithIface, WithParams, WithPeer

-----------------------------------------------------------------------------
(***************************************************************************)
(* The type invariant: one lemma per group of actions.                     *)
(***************************************************************************)
\* Records keep their type when one field is replaced by a value of its type.
LEMMA RecordUpdates ==
    /\ \A d \in Device : [d EXCEPT !.up = FALSE] \in Device
    /\ \A r \in IfaceRow, b \in BOOLEAN : [r EXCEPT !.enabled = b] \in IfaceRow
    /\ \A r \in IfaceRow, t \in Ports, l \in Links :
            [r EXCEPT !.port = t, !.link = l] \in IfaceRow
    /\ \A r \in PeerRow, b \in BOOLEAN : [r EXCEPT !.enabled = b] \in PeerRow
    /\ \A r \in PeerRow, a \in Attrs : [r EXCEPT !.attr = a] \in PeerRow
<1>1. \A d \in Device : [d EXCEPT !.up = FALSE] \in Device
  BY DEF Device
<1>2. \A r \in IfaceRow, b \in BOOLEAN : [r EXCEPT !.enabled = b] \in IfaceRow
  BY DEF IfaceRow
<1>3. \A r \in IfaceRow, t \in Ports, l \in Links :
            [r EXCEPT !.port = t, !.link = l] \in IfaceRow
  BY DEF IfaceRow
<1>4. \A r \in PeerRow, b \in BOOLEAN : [r EXCEPT !.enabled = b] \in PeerRow
  BY DEF PeerRow
<1>5. \A r \in PeerRow, a \in Attrs : [r EXCEPT !.attr = a] \in PeerRow
  BY DEF PeerRow
<1> QED BY <1>1, <1>2, <1>3, <1>4, <1>5

\* UpdateInterface keeps every column but the ones the handler writes.
LEMMA RewrittenFacts ==
    ASSUME NEW op, NEW r \in IfaceRow, NEW t \in Ports, NEW l \in Links
    PROVE  /\ Rewritten(op, r, t, l) \in IfaceRow
           /\ op = "start" => Rewritten(op, r, t, l).enabled
           /\ op \notin {"start", "stop"} => Rewritten(op, r, t, l).enabled = r.enabled
  BY DEF Rewritten, IfaceRow

LEMMA SyncGetInv1 ==
    ASSUME Inv1, NEW w \in Workers, SyncGet(w), Mark(w) PROVE Inv1'
<1>0. /\ job[w] \in Job /\ pc[w] = "syncGet" /\ UNCHANGED <<history, control>>
      /\ job[w].ifc \in Ifaces
  BY DEF SyncGet, At, Inv1, TypeOK, Locals, LocalsOf, WithIface, WithParams,
         WithPeer, Labels
<1> DEFINE row == ifaces[job[w].ifc]
<1>1. TypeSys'
  BY SysFrame DEF SyncGet
<1>2. CASE row = None
  <2>1. Finish(w, "err")
    BY <1>2 DEF SyncGet, Me
  <2> QED BY <2>1, FinishLocals, <1>0, <1>1, AdvanceInv1 DEF Results
<1>3. CASE ~(row = None)
  <2>1. row \in IfaceRow
    BY <1>3, <1>0 DEF Inv1, TypeOK
  <2> DEFINE j == [job[w] EXCEPT !.irow = row]
             l == IF row.enabled THEN "syncList" ELSE "syncDown"
  <2>2. j \in Job /\ j.irow = row /\ j.ifc = job[w].ifc
    BY <2>1, <1>0 DEF Job
  <2>3. job' = [job EXCEPT ![w] = j] /\ Goto(w, l)
    BY <1>3 DEF SyncGet, Me
  <2>4. l \in {"syncList", "syncDown"} /\ l \in Labels
    BY DEF Labels
  <2> HIDE DEF j, l, row
  <2>5. TypeReq' /\ Others(w) /\ pc'[w] = l /\ result'[w] = result[w] /\ job'[w] = j
    BY <2>2, <2>3, <2>4, MoveFacts, Inv1Facts
  <2>6. LocalsOf(w)'
    BY <2>5, <2>4, <2>2, <2>1, <1>0, Inv1Facts
       DEF Locals, LocalsOf, WithIface, WithParams, WithPeer
  <2> QED BY <2>5, <2>6, <1>0, <1>1, AdvanceInv1
<1> QED BY <1>2, <1>3

LEMMA SyncDownInv1 ==
    ASSUME Inv1, NEW w \in Workers, SyncDown(w), Mark(w) PROVE Inv1'
<1>0. /\ job[w] \in Job /\ pc[w] = "syncDown" /\ UNCHANGED <<history, control>>
      /\ job[w].ifc \in Ifaces
  BY DEF SyncDown, At, Inv1, TypeOK, Locals, LocalsOf, WithIface, WithParams,
         WithPeer, Labels
<1>1. TypeSys'
  <2>1. dev[job[w].ifc] # None => [dev[job[w].ifc] EXCEPT !.up = FALSE] \in Device
    BY <1>0, RecordUpdates DEF Inv1, TypeOK
  <2> QED BY <2>1, <1>0, Inv1Facts DEF SyncDown, TypeSys, Me
<1>2. TypeReq' /\ Others(w) /\ LocalsOf(w)'
  <2>1. CASE Finish(w, "down")
    BY <2>1, <1>0, FinishLocals DEF Results
  <2> QED BY <2>1, <1>0 DEF SyncDown
<1> QED BY <1>0, <1>1, <1>2, AdvanceInv1

LEMMA SyncListInv1 ==
    ASSUME Inv1, NEW w \in Workers, SyncList(w), Mark(w) PROVE Inv1'
<1>0. /\ job[w] \in Job /\ pc[w] = "syncList" /\ UNCHANGED <<history, control>>
      /\ job[w].ifc \in Ifaces
      /\ job[w].irow \in IfaceRow
  BY DEF SyncList, At, Inv1, TypeOK, Locals, LocalsOf, WithIface, WithParams,
         WithPeer, Labels
<1>1. TypeSys'
  BY SysFrame DEF SyncList
<1> DEFINE c == ConfOf(job[w].irow, job[w].ifc)
           j == [job[w] EXCEPT !.params = c]
<1>2. c \in Conf
  <2>1. Blocks(job[w].ifc) \in SUBSET Block
    BY DEF Blocks, Block, Inv1, TypeOK, PeerRow
  <2> QED BY <2>1, <1>0 DEF ConfOf, Conf, IfaceRow
<1>3. j \in Job /\ j.params = c /\ j.ifc = job[w].ifc
  <2> HIDE DEF c
  <2> QED BY <1>0, <1>2 DEF Job
<1>4. job' = [job EXCEPT ![w] = j] /\ Goto(w, "exists")
  BY DEF SyncList, Me
<1> HIDE DEF j, c
<1>5. TypeReq' /\ Others(w) /\ pc'[w] = "exists" /\ result'[w] = result[w] /\ job'[w] = j
  BY <1>3, <1>4, MoveFacts, Inv1Facts DEF Labels
<1>6. LocalsOf(w)'
  BY <1>5, <1>3, <1>2, <1>0 DEF LocalsOf, WithIface, WithParams, WithPeer
<1> QED BY <1>5, <1>6, <1>0, <1>1, AdvanceInv1

LEMMA ExistsInv1 ==
    ASSUME Inv1, NEW w \in Workers, Exists(w), Mark(w) PROVE Inv1'
<1>0. /\ job[w] \in Job /\ pc[w] = "exists" /\ UNCHANGED <<history, control>>
      /\ job[w].ifc \in Ifaces
      /\ job[w].params \in Conf
  BY DEF Exists, At, Inv1, TypeOK, Locals, LocalsOf, WithIface, WithParams,
         WithPeer, Labels
<1>1. TypeSys'
  BY SysFrame DEF Exists
<1>2. TypeReq' /\ Others(w) /\ LocalsOf(w)'
  <2>1. CASE Stay(w, "syncConf")
    <3>1. /\ TypeReq' /\ Others(w) /\ pc'[w] = "syncConf"
          /\ result'[w] = result[w] /\ job'[w] = job[w]
      BY <2>1, StayFacts, Inv1Facts DEF Labels
    <3> QED BY <3>1, <1>0, Inv1Facts DEF Locals, LocalsOf, WithIface, WithParams, WithPeer
  <2>2. CASE Stay(w, "saveConf")
    <3>1. /\ TypeReq' /\ Others(w) /\ pc'[w] = "saveConf"
          /\ result'[w] = result[w] /\ job'[w] = job[w]
      BY <2>2, StayFacts, Inv1Facts DEF Labels
    <3> QED BY <3>1, <1>0, Inv1Facts DEF Locals, LocalsOf, WithIface, WithParams, WithPeer
  <2> QED BY <2>1, <2>2, <1>0 DEF Exists
<1> QED BY <1>0, <1>1, <1>2, AdvanceInv1

LEMMA SyncConfInv1 ==
    ASSUME Inv1, NEW w \in Workers, SyncConf(w), Mark(w) PROVE Inv1'
<1>0. /\ job[w] \in Job /\ pc[w] = "syncConf" /\ UNCHANGED <<history, control>>
      /\ job[w].ifc \in Ifaces
      /\ job[w].params \in Conf
  BY DEF SyncConf, At, Inv1, TypeOK, Locals, LocalsOf, WithIface, WithParams,
         WithPeer, Labels
<1>1. TypeSys'
  <2>1. dev[job[w].ifc] # None => Stripped(dev[job[w].ifc], job[w].params) \in Device
    BY <1>0 DEF Inv1, TypeOK, Stripped, Conf, Device
  <2> QED BY <2>1, <1>0, Inv1Facts DEF SyncConf, TypeSys, Me
<1>2. TypeReq' /\ Others(w) /\ LocalsOf(w)'
  <2>1. CASE Finish(w, "err")
    BY <2>1, <1>0, FinishLocals DEF Results
  <2>2. CASE Stay(w, "saveAfter")
    <3>1. /\ TypeReq' /\ Others(w) /\ pc'[w] = "saveAfter"
          /\ result'[w] = result[w] /\ job'[w] = job[w]
      BY <2>2, StayFacts, Inv1Facts DEF Labels
    <3> QED BY <3>1, <1>0, Inv1Facts DEF Locals, LocalsOf, WithIface, WithParams, WithPeer
  <2> QED BY <2>1, <2>2, <1>0 DEF SyncConf
<1> QED BY <1>0, <1>1, <1>2, AdvanceInv1

LEMMA SaveAfterInv1 ==
    ASSUME Inv1, NEW w \in Workers, SaveAfter(w), Mark(w) PROVE Inv1'
<1>0. /\ job[w] \in Job /\ pc[w] = "saveAfter" /\ UNCHANGED <<history, control>>
      /\ job[w].ifc \in Ifaces
      /\ job[w].params \in Conf
  BY DEF SaveAfter, At, Inv1, TypeOK, Locals, LocalsOf, WithIface, WithParams,
         WithPeer, Labels
<1>1. TypeSys'
  BY <1>0, Inv1Facts DEF SaveAfter, TypeSys, Me
<1>2. TypeReq' /\ Others(w) /\ LocalsOf(w)'
  <2>1. CASE Finish(w, "synced")
    BY <2>1, <1>0, FinishLocals DEF Results
  <2>2. CASE Finish(w, "unsaved")
    BY <2>2, <1>0, FinishLocals DEF Results
  <2> QED BY <2>1, <2>2, <1>0 DEF SaveAfter
<1> QED BY <1>0, <1>1, <1>2, AdvanceInv1

LEMMA SaveConfInv1 ==
    ASSUME Inv1, NEW w \in Workers, SaveConf(w), Mark(w) PROVE Inv1'
<1>0. /\ job[w] \in Job /\ pc[w] = "saveConf" /\ UNCHANGED <<history, control>>
      /\ job[w].ifc \in Ifaces
      /\ job[w].params \in Conf
  BY DEF SaveConf, At, Inv1, TypeOK, Locals, LocalsOf, WithIface, WithParams,
         WithPeer, Labels
<1>1. TypeSys'
  BY <1>0, Inv1Facts DEF SaveConf, TypeSys, Me
<1>2. TypeReq' /\ Others(w) /\ LocalsOf(w)'
  <2>1. CASE Finish(w, "err")
    BY <2>1, <1>0, FinishLocals DEF Results
  <2>2. CASE Stay(w, "syncUp")
    <3>1. /\ TypeReq' /\ Others(w) /\ pc'[w] = "syncUp"
          /\ result'[w] = result[w] /\ job'[w] = job[w]
      BY <2>2, StayFacts, Inv1Facts DEF Labels
    <3> QED BY <3>1, <1>0, Inv1Facts DEF Locals, LocalsOf, WithIface, WithParams, WithPeer
  <2> QED BY <2>1, <2>2, <1>0 DEF SaveConf
<1> QED BY <1>0, <1>1, <1>2, AdvanceInv1

LEMMA SyncUpInv1 ==
    ASSUME Inv1, NEW w \in Workers, SyncUp(w), Mark(w) PROVE Inv1'
<1>0. /\ job[w] \in Job /\ pc[w] = "syncUp" /\ UNCHANGED <<history, control>>
      /\ job[w].ifc \in Ifaces
      /\ job[w].params \in Conf
  BY DEF SyncUp, At, Inv1, TypeOK, Locals, LocalsOf, WithIface, WithParams,
         WithPeer, Labels
<1>1. TypeSys'
  <2>1. conf[job[w].ifc] # None => Raised(conf[job[w].ifc]) \in Device
    BY <1>0 DEF Inv1, TypeOK, Raised, Conf, Device
  <2> QED BY <2>1, <1>0, Inv1Facts DEF SyncUp, UpOk, TypeSys, Me
<1>2. TypeReq' /\ Others(w) /\ LocalsOf(w)'
  <2>1. CASE Finish(w, "synced")
    BY <2>1, <1>0, FinishLocals DEF Results
  <2>2. CASE Finish(w, "err")
    BY <2>2, <1>0, FinishLocals DEF Results
  <2> QED BY <2>1, <2>2, <1>0 DEF SyncUp
<1> QED BY <1>0, <1>1, <1>2, AdvanceInv1

LEMMA QuickUpInv1 ==
    ASSUME Inv1, NEW w \in Workers, QuickUp(w), Mark(w) PROVE Inv1'
<1>0. /\ job[w] \in Job /\ pc[w] = "quickUp" /\ UNCHANGED <<history, control>>
      /\ job[w].ifc \in Ifaces
  BY DEF QuickUp, At, Inv1, TypeOK, Locals, LocalsOf, WithIface, WithParams,
         WithPeer, Labels
<1>1. TypeSys'
  <2>1. conf[job[w].ifc] # None => Raised(conf[job[w].ifc]) \in Device
    BY <1>0 DEF Inv1, TypeOK, Raised, Conf, Device
  <2> QED BY <2>1, <1>0, Inv1Facts DEF QuickUp, UpOk, TypeSys, Me
<1>2. TypeReq' /\ Others(w) /\ LocalsOf(w)'
  <2>1. CASE Finish(w, "quick")
    BY <2>1, <1>0, FinishLocals DEF Results
  <2>2. CASE Stay(w, "syncGet")
    <3>1. /\ TypeReq' /\ Others(w) /\ pc'[w] = "syncGet"
          /\ result'[w] = result[w] /\ job'[w] = job[w]
      BY <2>2, StayFacts, Inv1Facts DEF Labels
    <3> QED BY <3>1, <1>0, Inv1Facts DEF Locals, LocalsOf, WithIface, WithParams, WithPeer
  <2> QED BY <2>1, <2>2, <1>0 DEF QuickUp
<1> QED BY <1>0, <1>1, <1>2, AdvanceInv1

LEMMA QuickDownInv1 ==
    ASSUME Inv1, NEW w \in Workers, QuickDown(w), Mark(w) PROVE Inv1'
<1>0. /\ job[w] \in Job /\ pc[w] = "quickDown" /\ UNCHANGED <<history, control>>
      /\ job[w].ifc \in Ifaces
      /\ job[w].op # "restart" => job[w].irow \in IfaceRow
  BY DEF QuickDown, At, Inv1, TypeOK, Locals, LocalsOf, WithIface, WithParams,
         WithPeer, Labels
<1>1. TypeSys'
  BY <1>0, Inv1Facts DEF QuickDown, TypeSys, Me
<1>2. TypeReq' /\ Others(w) /\ LocalsOf(w)'
  <2>1. CASE Stay(w, "quickUp")
    <3>1. /\ TypeReq' /\ Others(w) /\ pc'[w] = "quickUp"
          /\ result'[w] = result[w] /\ job'[w] = job[w]
      BY <2>1, StayFacts, Inv1Facts DEF Labels
    <3> QED BY <3>1, <1>0, Inv1Facts DEF Locals, LocalsOf, WithIface, WithParams, WithPeer
  <2>2. CASE job[w].op # "restart" /\ Stay(w, "updateIface")
    <3>1. /\ TypeReq' /\ Others(w) /\ pc'[w] = "updateIface"
          /\ result'[w] = result[w] /\ job'[w] = job[w]
      BY <2>2, StayFacts, Inv1Facts DEF Labels
    <3> QED BY <3>1, <2>2, <1>0, Inv1Facts DEF Locals, LocalsOf, WithIface, WithParams, WithPeer
  <2>3. CASE job[w].op # "restart" /\ Stay(w, "stopDown")
    <3>1. /\ TypeReq' /\ Others(w) /\ pc'[w] = "stopDown"
          /\ result'[w] = result[w] /\ job'[w] = job[w]
      BY <2>3, StayFacts, Inv1Facts DEF Labels
    <3> QED BY <3>1, <2>3, <1>0, Inv1Facts DEF Locals, LocalsOf, WithIface, WithParams, WithPeer
  <2> QED BY <2>1, <2>2, <2>3, <1>0 DEF QuickDown, Me
<1> QED BY <1>0, <1>1, <1>2, AdvanceInv1

LEMMA StopDownInv1 ==
    ASSUME Inv1, NEW w \in Workers, StopDown(w), Mark(w) PROVE Inv1'
<1>0. /\ job[w] \in Job /\ pc[w] = "stopDown" /\ UNCHANGED <<history, control>>
      /\ job[w].ifc \in Ifaces
      /\ job[w].irow \in IfaceRow
  BY DEF StopDown, At, Inv1, TypeOK, Locals, LocalsOf, WithIface, WithParams,
         WithPeer, Labels
<1>1. TypeSys'
  <2>1. dev[job[w].ifc] # None => [dev[job[w].ifc] EXCEPT !.up = FALSE] \in Device
    BY <1>0, RecordUpdates DEF Inv1, TypeOK
  <2> QED BY <2>1, <1>0, Inv1Facts DEF StopDown, TypeSys, Me
<1>2. TypeReq' /\ Others(w) /\ LocalsOf(w)'
  <2>1. CASE Finish(w, "err")
    BY <2>1, <1>0, FinishLocals DEF Results
  <2>2. CASE Stay(w, "updateIface")
    <3>1. /\ TypeReq' /\ Others(w) /\ pc'[w] = "updateIface"
          /\ result'[w] = result[w] /\ job'[w] = job[w]
      BY <2>2, StayFacts, Inv1Facts DEF Labels
    <3> QED BY <3>1, <1>0, Inv1Facts DEF Locals, LocalsOf, WithIface, WithParams, WithPeer
  <2> QED BY <2>1, <2>2, <1>0 DEF StopDown
<1> QED BY <1>0, <1>1, <1>2, AdvanceInv1

LEMMA DbFaultInv1 ==
    ASSUME Inv1, NEW w \in Workers, DbFault(w), Mark(w) PROVE Inv1'
<1>0. UNCHANGED <<history, control>> /\ Finish(w, "err")
  BY DEF DbFault, At
<1>1. TypeSys'
  BY SysFrame DEF DbFault
<1>2. TypeReq' /\ Others(w) /\ LocalsOf(w)'
  BY <1>0, FinishLocals DEF Results
<1> QED BY <1>0, <1>1, <1>2, AdvanceInv1

LEMMA RejectInv1 ==
    ASSUME Inv1, NEW w \in Workers, Reject(w), Mark(w) PROVE Inv1'
<1>0. UNCHANGED <<history, control>> /\ Finish(w, "err")
  BY DEF Reject, At
<1>1. TypeSys'
  BY SysFrame DEF Reject
<1>2. TypeReq' /\ Others(w) /\ LocalsOf(w)'
  BY <1>0, FinishLocals DEF Results
<1> QED BY <1>0, <1>1, <1>2, AdvanceInv1

LEMMA ReadConfInv1 ==
    ASSUME Inv1, NEW w \in Workers, ReadConf(w), Mark(w) PROVE Inv1'
<1>0. /\ job[w] \in Job /\ pc[w] = "readConf" /\ UNCHANGED <<history, control>>
      /\ job[w].ifc \in Ifaces
  BY DEF ReadConf, At, Inv1, TypeOK, Locals, LocalsOf, WithIface, WithParams,
         WithPeer, Labels
<1> DEFINE c == conf[job[w].ifc]
<1>1. TypeSys'
  BY SysFrame DEF ReadConf
<1>2. CASE c = None
  <2>1. Finish(w, "err")
    BY <1>2 DEF ReadConf, Me
  <2> QED BY <2>1, FinishLocals, <1>0, <1>1, AdvanceInv1 DEF Results
<1>3. CASE c # None
  <2>1. c \in Conf
    BY <1>3, <1>0 DEF Inv1, TypeOK
  <2> DEFINE r == [key |-> c.key, port |-> c.port, link |-> c.link, enabled |-> TRUE]
             j == [job[w] EXCEPT !.params = c, !.irow = r]
  <2>2. r \in IfaceRow
    BY <2>1 DEF Conf, IfaceRow
  <2>3. job' = [job EXCEPT ![w] = j] /\ Goto(w, "insertIface")
    BY <1>3 DEF ReadConf, Me
  <2> HIDE DEF c, r
  <2>4. j \in Job /\ j.params = c /\ j.irow = r /\ j.ifc = job[w].ifc
    BY <2>1, <2>2, <1>0 DEF Job
  <2> HIDE DEF j
  <2>5. /\ TypeReq' /\ Others(w) /\ pc'[w] = "insertIface"
        /\ result'[w] = result[w] /\ job'[w] = j
    BY <2>3, <2>4, MoveFacts, Inv1Facts DEF Labels
  <2>6. LocalsOf(w)'
    BY <2>5, <2>4, <2>2, <2>1, <1>0 DEF LocalsOf, WithIface, WithParams, WithPeer
  <2> QED BY <2>5, <2>6, <1>0, <1>1, AdvanceInv1
<1> QED BY <1>2, <1>3

LEMMA InsertIfaceInv1 ==
    ASSUME Inv1, NEW w \in Workers, InsertIface(w), Mark(w) PROVE Inv1'
<1>0. /\ job[w] \in Job /\ pc[w] = "insertIface" /\ UNCHANGED <<history, control>>
      /\ job[w].ifc \in Ifaces
      /\ job[w].irow \in IfaceRow
      /\ job[w].op # "create" => job[w].params \in Conf
  BY DEF InsertIface, At, Inv1, TypeOK, Locals, LocalsOf, WithIface, WithParams,
         WithPeer, Labels
<1>1. TypeSys'
  BY <1>0, Inv1Facts DEF InsertIface, TypeSys, Me
<1>2. TypeReq' /\ Others(w) /\ LocalsOf(w)'
  <2>1. CASE Finish(w, "err") \/ Finish(w, "ok")
    BY <2>1, <1>0, FinishLocals DEF Results
  <2>2. CASE job[w].op # "create" /\ Stay(w, "importPeer")
    <3>1. /\ TypeReq' /\ Others(w) /\ pc'[w] = "importPeer"
          /\ result'[w] = result[w] /\ job'[w] = job[w]
      BY <2>2, StayFacts, Inv1Facts DEF Labels
    <3> QED BY <3>1, <2>2, <1>0 DEF LocalsOf, WithIface, WithParams, WithPeer
  <2> QED BY <2>1, <2>2 DEF InsertIface, Me
<1> QED BY <1>0, <1>1, <1>2, AdvanceInv1

LEMMA ImportPeerInv1 ==
    ASSUME Inv1, NEW w \in Workers, ImportPeer(w), Mark(w) PROVE Inv1'
<1>0. /\ job[w] \in Job /\ pc[w] = "importPeer" /\ UNCHANGED <<history, control>>
      /\ job[w].ifc \in Ifaces
      /\ job[w].params \in Conf
  BY DEF ImportPeer, At, Inv1, TypeOK, Locals, LocalsOf, WithIface, WithParams,
         WithPeer, Labels
<1>1. CASE Finish(w, "ok") /\ UNCHANGED peers
  <2>1. TypeSys'
    BY <1>1, Inv1Facts DEF ImportPeer, TypeSys
  <2> QED BY <1>0, <1>1, <2>1, FinishLocals, AdvanceInv1 DEF Results
<1>2. CASE Finish(w, "err") /\ UNCHANGED peers
  <2>1. TypeSys'
    BY <1>2, Inv1Facts DEF ImportPeer, TypeSys
  <2> QED BY <1>0, <1>2, <2>1, FinishLocals, AdvanceInv1 DEF Results
<1>3. ASSUME NEW b \in job[w].params.peers,
             peers' = [peers EXCEPT ![b[1]] =
                         [iface |-> job[w].ifc, attr |-> b[2], enabled |-> TRUE]],
             job' = [job EXCEPT ![w].params = Without(@, b)],
             Goto(w, "importPeer")
      PROVE  Inv1'
  <2>0. Goto(w, "importPeer")
    BY <1>3
  <2>1. b \in Block
    BY <1>0 DEF Conf
  <2>2. TypeSys'
    BY <2>1, <1>0, <1>3, Inv1Facts DEF TypeSys, ImportPeer, Block, PeerRow
  <2> DEFINE c == Without(job[w].params, b)
             j == [job[w] EXCEPT !.params = c]
  <2>3. c \in Conf
    BY <2>1, <1>0 DEF Without, Conf
  <2>4. job' = [job EXCEPT ![w] = j]
    BY <1>3
  <2> HIDE DEF c
  <2>5. j \in Job /\ j.params = c /\ j.ifc = job[w].ifc
    BY <2>3, <1>0 DEF Job
  <2> HIDE DEF j
  <2>6. /\ TypeReq' /\ Others(w) /\ pc'[w] = "importPeer"
        /\ result'[w] = result[w] /\ job'[w] = j
    BY <2>0, <2>4, <2>5, MoveFacts, Inv1Facts DEF Labels
  <2>7. LocalsOf(w)'
    BY <2>6, <2>5, <2>3, <1>0 DEF LocalsOf, WithIface, WithParams, WithPeer
  <2> QED BY <2>2, <2>6, <2>7, <1>0, AdvanceInv1
<1> QED BY <1>0, <1>1, <1>2, <1>3 DEF ImportPeer, Me

LEMMA GetIfaceInv1 ==
    ASSUME Inv1, NEW w \in Workers, GetIface(w), Mark(w) PROVE Inv1'
<1>0. /\ job[w] \in Job /\ pc[w] = "getIface" /\ UNCHANGED <<history, control>>
      /\ job[w].ifc \in Ifaces
      /\ job[w].op = "addPeer" => job[w].pid \in Peers
  BY DEF GetIface, At, Inv1, TypeOK, Locals, LocalsOf, WithIface, WithParams,
         WithPeer, Labels
<1> DEFINE row == ifaces[job[w].ifc]
<1>1. TypeSys'
  BY SysFrame DEF GetIface
<1>2. CASE row = None
  <2>1. Finish(w, "err")
    BY <1>2 DEF GetIface, Me
  <2> QED BY <2>1, FinishLocals, <1>0, <1>1, AdvanceInv1 DEF Results
<1>3. CASE ~(row = None)
  <2>1. row \in IfaceRow
    BY <1>3, <1>0 DEF Inv1, TypeOK
  <2> DEFINE j == [job[w] EXCEPT !.irow = row]
             l == CASE job[w].op = "delete"  -> "netDelete"
                    [] job[w].op = "addPeer" -> "insertPeer"
                    [] job[w].op = "stop"    -> "quickDown"
                    [] OTHER                 -> "updateIface"
  <2>2. job' = [job EXCEPT ![w] = j] /\ Goto(w, l)
    BY <1>3 DEF GetIface, Me
  <2>3. l \in {"netDelete", "insertPeer", "quickDown", "updateIface"}
        /\ (l = "insertPeer" => job[w].op = "addPeer")
        /\ l \in Labels
    BY DEF Labels
  <2> HIDE DEF l, row
  <2>4. j \in Job /\ j.irow = row /\ j.ifc = job[w].ifc /\ j.op = job[w].op /\ j.pid = job[w].pid
    BY <2>1, <1>0 DEF Job
  <2> HIDE DEF j
  <2>5. TypeReq' /\ Others(w) /\ pc'[w] = l /\ result'[w] = result[w] /\ job'[w] = j
    BY <2>2, <2>3, <2>4, MoveFacts, Inv1Facts
  <2>6. LocalsOf(w)'
    BY <2>5, <2>4, <2>3, <2>1, <1>0, Inv1Facts
       DEF Locals, LocalsOf, WithIface, WithParams, WithPeer
  <2> QED BY <2>5, <2>6, <1>0, <1>1, AdvanceInv1
<1> QED BY <1>2, <1>3

LEMMA UpdateIfaceInv1 ==
    ASSUME Inv1, NEW w \in Workers, UpdateIface(w), Mark(w) PROVE Inv1'
<1>0. /\ job[w] \in Job /\ pc[w] = "updateIface" /\ UNCHANGED <<history, control>>
      /\ job[w].ifc \in Ifaces
      /\ job[w].irow \in IfaceRow
  BY DEF UpdateIface, At, Inv1, TypeOK, Locals, LocalsOf, WithIface, WithParams,
         WithPeer, Labels
<1>1. TypeSys'
  <2>1. PICK t \in Ports, l \in Links :
          ifaces' = [ifaces EXCEPT ![job[w].ifc] =
             IF @ = None THEN @ ELSE Rewritten(job[w].op, job[w].irow, t, l)]
    BY DEF UpdateIface, Me
  <2>2. Rewritten(job[w].op, job[w].irow, t, l) \in IfaceRow
    BY <1>0, RewrittenFacts
  <2>3. ifaces' \in [Ifaces -> IfaceRow \cup {None}]
    BY <2>1, <2>2, <1>0, Inv1Facts DEF TypeSys
  <2> QED BY <2>3, <1>0, Inv1Facts DEF UpdateIface, TypeSys
<1>2. TypeReq' /\ Others(w) /\ LocalsOf(w)'
  <2>1. CASE Stay(w, "quickUp")
    <3>1. /\ TypeReq' /\ Others(w) /\ pc'[w] = "quickUp"
          /\ result'[w] = result[w] /\ job'[w] = job[w]
      BY <2>1, StayFacts, Inv1Facts DEF Labels
    <3> QED BY <3>1, <1>0, Inv1Facts DEF Locals, LocalsOf, WithIface, WithParams, WithPeer
  <2>2. CASE Finish(w, "ok")
    BY <2>2, <1>0, FinishLocals DEF Results
  <2> QED BY <2>1, <2>2, <1>0 DEF UpdateIface, Me
<1> QED BY <1>0, <1>1, <1>2, AdvanceInv1

LEMMA NetDeleteInv1 ==
    ASSUME Inv1, NEW w \in Workers, NetDelete(w), Mark(w) PROVE Inv1'
<1>0. /\ job[w] \in Job /\ pc[w] = "netDelete" /\ UNCHANGED <<history, control>>
      /\ job[w].ifc \in Ifaces
  BY DEF NetDelete, At, Inv1, TypeOK, Locals, LocalsOf, WithIface, WithParams,
         WithPeer, Labels
<1>1. TypeSys'
  BY <1>0, Inv1Facts DEF NetDelete, TypeSys, Me
<1>2. TypeReq' /\ Others(w) /\ LocalsOf(w)'
  <2>1. CASE Stay(w, "deleteRow")
    <3>1. /\ TypeReq' /\ Others(w) /\ pc'[w] = "deleteRow"
          /\ result'[w] = result[w] /\ job'[w] = job[w]
      BY <2>1, StayFacts, Inv1Facts DEF Labels
    <3> QED BY <3>1, <1>0, Inv1Facts DEF Locals, LocalsOf, WithIface, WithParams, WithPeer
  <2> QED BY <2>1, <1>0 DEF NetDelete
<1> QED BY <1>0, <1>1, <1>2, AdvanceInv1

LEMMA DeleteRowInv1 ==
    ASSUME Inv1, NEW w \in Workers, DeleteRow(w), Mark(w) PROVE Inv1'
<1>0. /\ job[w] \in Job /\ pc[w] = "deleteRow" /\ UNCHANGED <<history, control>>
      /\ job[w].ifc \in Ifaces
  BY DEF DeleteRow, At, Inv1, TypeOK, Locals, LocalsOf, WithIface, WithParams,
         WithPeer, Labels
<1>1. TypeSys'
  BY <1>0, Inv1Facts DEF DeleteRow, TypeSys, Me
<1>2. TypeReq' /\ Others(w) /\ LocalsOf(w)'
  <2>1. CASE Finish(w, "ok")
    BY <2>1, <1>0, FinishLocals DEF Results
  <2> QED BY <2>1, <1>0 DEF DeleteRow
<1> QED BY <1>0, <1>1, <1>2, AdvanceInv1

LEMMA InsertPeerInv1 ==
    ASSUME Inv1, NEW w \in Workers, InsertPeer(w), Mark(w) PROVE Inv1'
<1>0. /\ job[w] \in Job /\ pc[w] = "insertPeer" /\ UNCHANGED <<history, control>>
      /\ job[w].ifc \in Ifaces
      /\ job[w].pid \in Peers
  BY DEF InsertPeer, At, Inv1, TypeOK, Locals, LocalsOf, WithIface, WithParams,
         WithPeer, Labels
<1>1. TypeSys'
  <2>1. \A a \in Attrs : [iface |-> job[w].ifc, attr |-> a, enabled |-> TRUE] \in PeerRow
    BY <1>0 DEF PeerRow
  <2> QED BY <2>1, <1>0, Inv1Facts DEF InsertPeer, TypeSys, Me
<1>2. TypeReq' /\ Others(w) /\ LocalsOf(w)'
  <2>1. CASE Stay(w, "syncGet")
    <3>1. /\ TypeReq' /\ Others(w) /\ pc'[w] = "syncGet"
          /\ result'[w] = result[w] /\ job'[w] = job[w]
      BY <2>1, StayFacts, Inv1Facts DEF Labels
    <3> QED BY <3>1, <1>0, Inv1Facts DEF Locals, LocalsOf, WithIface, WithParams, WithPeer
  <2>2. CASE Finish(w, "err")
    BY <2>2, <1>0, FinishLocals DEF Results
  <2> QED BY <2>1, <2>2, <1>0 DEF InsertPeer
<1> QED BY <1>0, <1>1, <1>2, AdvanceInv1

LEMMA GetPeerInv1 ==
    ASSUME Inv1, NEW w \in Workers, GetPeer(w), Mark(w) PROVE Inv1'
<1>0. /\ job[w] \in Job /\ pc[w] = "getPeer" /\ UNCHANGED <<history, control>>
      /\ job[w].pid \in Peers
  BY DEF GetPeer, At, Inv1, TypeOK, Locals, LocalsOf, WithIface, WithParams,
         WithPeer, Labels
<1> DEFINE row == peers[job[w].pid]
<1>1. TypeSys'
  BY SysFrame DEF GetPeer
<1>2. CASE row = None
  <2>1. Finish(w, "err")
    BY <1>2 DEF GetPeer, Me
  <2> QED BY <2>1, FinishLocals, <1>0, <1>1, AdvanceInv1 DEF Results
<1>3. CASE ~(row = None)
  <2>1. row \in PeerRow
    BY <1>3, <1>0 DEF Inv1, TypeOK
  <2> DEFINE j == [job[w] EXCEPT !.prow = row, !.ifc = row.iface]
             l == IF job[w].op = "remove" THEN "deletePeer" ELSE "updatePeer"
  <2>2. job' = [job EXCEPT ![w] = j] /\ Goto(w, l)
    BY <1>3 DEF GetPeer, Me
  <2>3. l \in {"deletePeer", "updatePeer"}
        /\ l \in Labels
    BY DEF Labels
  <2> HIDE DEF l, row
  <2>4. j \in Job /\ j.prow = row /\ j.ifc \in Ifaces /\ j.pid = job[w].pid
    BY <2>1, <1>0 DEF Job, PeerRow
  <2> HIDE DEF j
  <2>5. TypeReq' /\ Others(w) /\ pc'[w] = l /\ result'[w] = result[w] /\ job'[w] = j
    BY <2>2, <2>3, <2>4, MoveFacts, Inv1Facts
  <2>6. LocalsOf(w)'
    BY <2>5, <2>4, <2>3, <2>1, <1>0, Inv1Facts
       DEF Locals, LocalsOf, WithIface, WithParams, WithPeer
  <2> QED BY <2>5, <2>6, <1>0, <1>1, AdvanceInv1
<1> QED BY <1>2, <1>3

LEMMA PollGetInv1 ==
    ASSUME Inv1, NEW w \in Workers, PollGet(w), Mark(w) PROVE Inv1'
<1>0. /\ job[w] \in Job /\ pc[w] = "pollGet" /\ UNCHANGED <<history, control>>
      /\ job[w].pid \in Peers
  BY DEF PollGet, At, Inv1, TypeOK, Locals, LocalsOf, WithIface, WithParams,
         WithPeer, Labels
<1> DEFINE row == peers[job[w].pid]
<1>1. TypeSys'
  BY SysFrame DEF PollGet
<1>2. CASE row = None \/ (row # None /\ (\/ ifaces[row.iface] = None
                                  \/ ~ifaces[row.iface].enabled))
  <2>1. Finish(w, "ok")
    BY <1>2 DEF PollGet, Me
  <2> QED BY <2>1, FinishLocals, <1>0, <1>1, AdvanceInv1 DEF Results
<1>3. CASE ~(row = None \/ (row # None /\ (\/ ifaces[row.iface] = None
                                  \/ ~ifaces[row.iface].enabled)))
  <2>1. row \in PeerRow
    BY <1>3, <1>0 DEF Inv1, TypeOK
  <2> DEFINE j == [job[w] EXCEPT !.prow = row, !.ifc = row.iface]
             l == "updatePeer"
  <2>2. job' = [job EXCEPT ![w] = j] /\ Goto(w, l)
    BY <1>3 DEF PollGet, Me
  <2>3. l \in {"updatePeer"}
        /\ l \in Labels
    BY DEF Labels
  <2> HIDE DEF l, row
  <2>4. j \in Job /\ j.prow = row /\ j.ifc \in Ifaces /\ j.pid = job[w].pid
    BY <2>1, <1>0 DEF Job, PeerRow
  <2> HIDE DEF j
  <2>5. TypeReq' /\ Others(w) /\ pc'[w] = l /\ result'[w] = result[w] /\ job'[w] = j
    BY <2>2, <2>3, <2>4, MoveFacts, Inv1Facts
  <2>6. LocalsOf(w)'
    BY <2>5, <2>4, <2>3, <2>1, <1>0, Inv1Facts
       DEF Locals, LocalsOf, WithIface, WithParams, WithPeer
  <2> QED BY <2>5, <2>6, <1>0, <1>1, AdvanceInv1
<1> QED BY <1>2, <1>3

LEMMA DeletePeerInv1 ==
    ASSUME Inv1, NEW w \in Workers, DeletePeer(w), Mark(w) PROVE Inv1'
<1>0. /\ job[w] \in Job /\ pc[w] = "deletePeer" /\ UNCHANGED <<history, control>>
      /\ job[w].ifc \in Ifaces
      /\ job[w].pid \in Peers
  BY DEF DeletePeer, At, Inv1, TypeOK, Locals, LocalsOf, WithIface, WithParams,
         WithPeer, Labels
<1>1. TypeSys'
  BY <1>0, Inv1Facts DEF DeletePeer, TypeSys, Me
<1>2. TypeReq' /\ Others(w) /\ LocalsOf(w)'
  <2>1. CASE Stay(w, "syncGet")
    <3>1. /\ TypeReq' /\ Others(w) /\ pc'[w] = "syncGet"
          /\ result'[w] = result[w] /\ job'[w] = job[w]
      BY <2>1, StayFacts, Inv1Facts DEF Labels
    <3> QED BY <3>1, <1>0, Inv1Facts DEF Locals, LocalsOf, WithIface, WithParams, WithPeer
  <2> QED BY <2>1, <1>0 DEF DeletePeer
<1> QED BY <1>0, <1>1, <1>2, AdvanceInv1

LEMMA UpdatePeerInv1 ==
    ASSUME Inv1, NEW w \in Workers, UpdatePeer(w), Mark(w) PROVE Inv1'
<1>0. /\ job[w] \in Job /\ pc[w] = "updatePeer" /\ UNCHANGED <<history, control>>
      /\ job[w].ifc \in Ifaces
      /\ job[w].pid \in Peers
      /\ job[w].prow \in PeerRow
  BY DEF UpdatePeer, At, Inv1, TypeOK, Locals, LocalsOf, WithIface, WithParams,
         WithPeer, Labels
<1>1. TypeSys'
  <2>1. \A a \in Attrs : NewPeerRow(job[w], a) \in PeerRow
    BY <1>0, RecordUpdates DEF NewPeerRow
  <2> QED BY <2>1, <1>0, Inv1Facts DEF UpdatePeer, TypeSys, Me
<1>2. TypeReq' /\ Others(w) /\ LocalsOf(w)'
  <2>1. CASE Stay(w, "syncGet")
    <3>1. /\ TypeReq' /\ Others(w) /\ pc'[w] = "syncGet"
          /\ result'[w] = result[w] /\ job'[w] = job[w]
      BY <2>1, StayFacts, Inv1Facts DEF Labels
    <3> QED BY <3>1, <1>0, Inv1Facts DEF Locals, LocalsOf, WithIface, WithParams, WithPeer
  <2>2. CASE Finish(w, "ok")
    BY <2>2, <1>0, FinishLocals DEF Results
  <2> QED BY <2>1, <2>2, <1>0 DEF UpdatePeer, Me
<1> QED BY <1>0, <1>1, <1>2, AdvanceInv1

-----------------------------------------------------------------------------
\* What is left to show for a step that starts a request.
LEMMA StartInv1 ==
    ASSUME Inv1, NEW w \in Workers, Mark(w), UNCHANGED sys,
           TypeReq', Others(w), LocalsOf(w)',
           home' \in [Peers -> Ifaces \cup {None}], usedKeys' \subseteq Keys,
           booting' \subseteq Ifaces, requests' \in 0..MaxRequests,
           pooled' \in BOOLEAN, shared' \in BOOLEAN, crashes' = crashes
    PROVE  Inv1'
<1>1. Locals'
  BY OthersLocals DEF Inv1
<1>2. touched' \in [Workers -> BOOLEAN]
  <2>1. \A v \in Workers : (pc[w] # "idle" /\ touched[w]) \in BOOLEAN
                        /\ (touched[v] \/ sys' # sys) \in BOOLEAN
    BY Zenon
  <2> QED BY <2>1 DEF Mark
<1>3. TypeSys' /\ crashes' \in 0..MaxCrashes
  BY SysFrame DEF Inv1, TypeOK
<1> QED BY <1>1, <1>2, <1>3 DEF Inv1, TypeOK, TypeSys, TypeReq

\* The same for a request: Begin gives everything but its local variables.
LEMMA BeginInv1 ==
    ASSUME Inv1, NEW w \in Workers, Mark(w), NEW l \in Labels, NEW j \in Job,
           Begin(w, j, l),
           home' \in [Peers -> Ifaces \cup {None}], usedKeys' \subseteq Keys,
           l \in WithIface => j.ifc \in Ifaces,
           l \in {"getPeer", "pollGet"} => j.pid \in Peers,
           l \in {"readConf", "getIface", "syncGet", "quickDown", "insertIface",
                  "getPeer", "pollGet"},
           j.op = "addPeer" => j.pid \in Peers,
           l = "insertIface" => j.irow \in IfaceRow,
           l = "insertIface" /\ j.op # "create" => j.params \in Conf,
           l = "quickDown" => j.op = "restart"
    PROVE  Inv1'
<1>1. /\ TypeReq' /\ Others(w)
      /\ pc'[w] = l /\ result'[w] = "none" /\ job'[w] = j
      /\ requests' \in 0..MaxRequests /\ UNCHANGED <<sys, booting, crashes>>
      /\ pooled' \in BOOLEAN /\ shared' \in BOOLEAN
  BY BeginFacts
<1>2. LocalsOf(w)'
  BY <1>1 DEF LocalsOf, WithParams, WithPeer
<1>3. booting' \subseteq Ifaces /\ UNCHANGED sys /\ crashes' = crashes
  BY <1>1 DEF Inv1, TypeOK
<1> QED BY <1>1, <1>2, <1>3, StartInv1

\* The requests of a worker name an operation, an interface and a peer.
LEMMA NewJobFacts ==
    ASSUME NEW o \in IfaceOps \cup PeerOps \cup {"none", "boot"},
           NEW i \in Ifaces \cup {None}, NEW p \in Peers \cup {None},
           NEW row \in IfaceRow \cup {None}, NEW c \in Conf \cup {None}
    PROVE  LET j == NewJob(o, i, p, row, c) IN
           /\ j \in Job /\ j.op = o /\ j.ifc = i /\ j.pid = p /\ j.irow = row
           /\ j.params = c
BY DEF NewJob, Job

LEMMA BeginIfaceInv1 ==
    ASSUME Inv1, NEW w \in Workers, BeginIface(w), Mark(w) PROVE Inv1'
<1>1. PICK o \in Ops \cap {"adopt", "delete", "updateIface", "sync", "start", "stop",
                           "restart"}, i \in Ifaces :
        /\ Begin(w, NewJob(o, i, None, None, None),
                 CASE o = "adopt"   -> "readConf"
                   [] o = "sync"    -> "syncGet"
                   [] o = "restart" -> "quickDown"
                   [] OTHER         -> "getIface")
        /\ UNCHANGED history
  BY DEF BeginIface
<1> DEFINE j == NewJob(o, i, None, None, None)
           l == CASE o = "adopt"   -> "readConf"
                  [] o = "sync"    -> "syncGet"
                  [] o = "restart" -> "quickDown"
                  [] OTHER         -> "getIface"
<1>2. j \in Job /\ j.op = o /\ j.ifc = i
  <2>1. o \in IfaceOps
    BY DEF IfaceOps
  <2> QED BY <2>1, NewJobFacts
<1>3. /\ l \in {"readConf", "getIface", "syncGet", "quickDown"}
      /\ l = "quickDown" => o = "restart"
  OBVIOUS
<1>4. Begin(w, j, l)
  BY <1>1
<1>5. home' \in [Peers -> Ifaces \cup {None}] /\ usedKeys' \subseteq Keys
  BY <1>1 DEF history, Inv1, TypeOK
<1> HIDE DEF j, l
<1> QED BY <1>2, <1>3, <1>4, <1>5, BeginInv1 DEF Labels

LEMMA BeginCreateInv1 ==
    ASSUME Inv1, NEW w \in Workers, BeginCreate(w), Mark(w) PROVE Inv1'
<1>1. PICK i \in Ifaces, k \in Keys \ usedKeys, t \in Ports, l \in Links :
        /\ Begin(w, NewJob("create", i, None,
                          [key |-> k, port |-> t, link |-> l, enabled |-> TRUE],
                          None), "insertIface")
        /\ usedKeys' = usedKeys \cup {k}
  BY DEF BeginCreate
<1> DEFINE r == [key |-> k, port |-> t, link |-> l, enabled |-> TRUE]
           j == NewJob("create", i, None, r, None)
<1>2. r \in IfaceRow
  BY DEF IfaceRow
<1>3. Begin(w, j, "insertIface")
  BY <1>1
<1> HIDE DEF r
<1>4. j \in Job /\ j.op = "create" /\ j.ifc = i /\ j.irow = r
  <2>1. "create" \in IfaceOps
    BY DEF IfaceOps
  <2> QED BY <2>1, <1>2, NewJobFacts
<1>5. home' \in [Peers -> Ifaces \cup {None}] /\ usedKeys' \subseteq Keys
  BY <1>1 DEF BeginCreate, Inv1, TypeOK
<1> HIDE DEF j
<1> QED BY <1>2, <1>3, <1>4, <1>5, BeginInv1 DEF Labels

LEMMA BeginImportInv1 ==
    ASSUME Inv1, NEW w \in Workers, BeginImport(w), Mark(w) PROVE Inv1'
<1>1. PICK i \in Ifaces, k \in Keys, t \in Ports, l \in Links,
           B \in SUBSET Block :
        /\ Cardinality(B) <= ImportBound /\ \A b \in B : home[b[1]] = None
        /\ Begin(w, NewJob("import", i, None,
                          [key |-> k, port |-> t, link |-> l, enabled |-> TRUE],
                          [key |-> k, port |-> t, link |-> l, peers |-> B]),
                 "insertIface")
        /\ home' = [p \in Peers |-> IF \E b \in B : b[1] = p THEN i ELSE home[p]]
  BY Zenon DEF BeginImport
<1> DEFINE r == [key |-> k, port |-> t, link |-> l, enabled |-> TRUE]
           c == [key |-> k, port |-> t, link |-> l, peers |-> B]
           j == NewJob("import", i, None, r, c)
<1>2. r \in IfaceRow /\ c \in Conf
  BY DEF IfaceRow, Conf
<1>3. Begin(w, j, "insertIface")
  BY <1>1
<1> HIDE DEF r, c
<1>4. j \in Job /\ j.op = "import" /\ j.ifc = i /\ j.irow = r /\ j.params = c
  <2>1. "import" \in IfaceOps
    BY DEF IfaceOps
  <2> QED BY <2>1, <1>2, NewJobFacts
<1>5. home' \in [Peers -> Ifaces \cup {None}] /\ usedKeys' \subseteq Keys
  BY <1>1 DEF BeginImport, Inv1, TypeOK
<1> HIDE DEF j
<1> QED BY <1>2, <1>3, <1>4, <1>5, BeginInv1 DEF Labels

LEMMA BeginAddPeerInv1 ==
    ASSUME Inv1, NEW w \in Workers, BeginAddPeer(w), Mark(w) PROVE Inv1'
<1>1. PICK i \in Ifaces, p \in Peers :
        /\ Begin(w, NewJob("addPeer", i, p, None, None), "getIface")
        /\ home' = [home EXCEPT ![p] = i]
  BY DEF BeginAddPeer
<1> DEFINE j == NewJob("addPeer", i, p, None, None)
<1>2. j \in Job /\ j.op = "addPeer" /\ j.ifc = i /\ j.pid = p
  <2>1. "addPeer" \in IfaceOps \cup PeerOps
    BY DEF IfaceOps, PeerOps
  <2> QED BY <2>1, NewJobFacts
<1>3. Begin(w, j, "getIface")
  BY <1>1
<1>4. home' \in [Peers -> Ifaces \cup {None}] /\ usedKeys' \subseteq Keys
  BY <1>1 DEF BeginAddPeer, Inv1, TypeOK
<1> HIDE DEF j
<1> QED BY <1>2, <1>3, <1>4, BeginInv1 DEF Labels

LEMMA BeginPeerInv1 ==
    ASSUME Inv1, NEW w \in Workers, BeginPeer(w), Mark(w) PROVE Inv1'
<1>1. PICK o \in Ops \cap PeerOps, p \in Peers :
        /\ Begin(w, NewJob(o, None, p, None, None),
                 IF o = "poll" THEN "pollGet" ELSE "getPeer")
        /\ UNCHANGED history
  BY DEF BeginPeer
<1> DEFINE j == NewJob(o, None, p, None, None)
           l == IF o = "poll" THEN "pollGet" ELSE "getPeer"
<1>2. j \in Job /\ j.op = o /\ j.pid = p
  BY NewJobFacts
<1>3. Begin(w, j, l) /\ l \in {"pollGet", "getPeer"} /\ o # "addPeer"
  BY <1>1 DEF PeerOps
<1>4. home' \in [Peers -> Ifaces \cup {None}] /\ usedKeys' \subseteq Keys
  BY <1>1 DEF history, Inv1, TypeOK
<1> HIDE DEF j, l
<1> QED BY <1>2, <1>3, <1>4, BeginInv1 DEF Labels, WithIface

LEMMA BootSyncInv1 ==
    ASSUME Inv1, NEW w \in Workers, BootSync(w), Mark(w) PROVE Inv1'
<1>1. PICK i \in booting :
        /\ booting' = booting \ {i}
        /\ job' = [job EXCEPT ![w] = NewJob("boot", i, None, None, None)]
  BY DEF BootSync
<1> DEFINE j == NewJob("boot", i, None, None, None)
<1>2. i \in Ifaces
  BY DEF Inv1, TypeOK
<1>3. j \in Job /\ j.op = "boot" /\ j.ifc = i
  BY <1>2, NewJobFacts
<1>4. job' = [job EXCEPT ![w] = j]
  BY <1>1
<1> HIDE DEF j
<1>5. /\ TypeReq' /\ Others(w)
      /\ pc'[w] = "syncGet" /\ result'[w] = "none" /\ job'[w] = j
  BY <1>3, <1>4, Inv1Facts DEF BootSync, TypeReq, Others, Labels, Results
<1>6. LocalsOf(w)'
  BY <1>5, <1>3, <1>2 DEF LocalsOf, WithParams, WithPeer
<1>7. /\ home' \in [Peers -> Ifaces \cup {None}] /\ usedKeys' \subseteq Keys
      /\ booting' \subseteq Ifaces /\ requests' \in 0..MaxRequests
      /\ pooled' \in BOOLEAN /\ shared' \in BOOLEAN /\ crashes' = crashes
      /\ UNCHANGED sys
  BY <1>1 DEF BootSync, history, Inv1, TypeOK
<1> QED BY <1>5, <1>6, <1>7, StartInv1

LEMMA CrashInv1 == ASSUME Inv1, Crash PROVE Inv1'
<1>1. NoJob \in Job
  BY DEF NoJob, NewJob, Job
<1>2. TypeReq'
  BY <1>1 DEF Crash, TypeReq, Labels, Results
<1>3. Locals'
  BY DEF Crash, Locals, LocalsOf, WithIface, WithParams, WithPeer
<1>4. TypeSys'
  BY Inv1Facts DEF Crash, TypeSys
<1>5. /\ home' \in [Peers -> Ifaces \cup {None}] /\ usedKeys' \subseteq Keys
      /\ booting' \subseteq Ifaces /\ requests' \in 0..MaxRequests
      /\ shared' \in BOOLEAN /\ crashes' \in 0..MaxCrashes
      /\ touched' \in [Workers -> BOOLEAN]
  BY DEF Crash, history, Inv1, TypeOK
<1>6. pooled' \in BOOLEAN
  BY DEF Crash
<1> QED BY <1>2, <1>3, <1>4, <1>5, <1>6 DEF Inv1, TypeOK, TypeSys, TypeReq

LEMMA StutterInv1 == ASSUME Inv1, UNCHANGED vars PROVE Inv1'
BY DEF Inv1, TypeOK, Locals, LocalsOf, vars, sys, history, control

LEMMA NextInv1 == Inv1 /\ [Next]_vars => Inv1'
<1> SUFFICES ASSUME Inv1, [Next]_vars PROVE Inv1'
  OBVIOUS
<1>1. ASSUME NEW w \in Workers, Arrive(w), Mark(w) PROVE Inv1'
  BY <1>1, BeginIfaceInv1, BeginCreateInv1, BeginImportInv1, BeginAddPeerInv1,
     BeginPeerInv1 DEF Arrive
<1>2. ASSUME NEW w \in Workers, Advance(w), Mark(w) PROVE Inv1'
  BY <1>2, ReadConfInv1, InsertIfaceInv1, ImportPeerInv1, GetIfaceInv1,
     UpdateIfaceInv1, NetDeleteInv1, DeleteRowInv1, InsertPeerInv1, GetPeerInv1,
     PollGetInv1, DeletePeerInv1, UpdatePeerInv1, RejectInv1, SyncGetInv1,
     SyncDownInv1, SyncListInv1, ExistsInv1, SyncConfInv1, SaveAfterInv1,
     SaveConfInv1, SyncUpInv1, QuickUpInv1, QuickDownInv1, StopDownInv1,
     DbFaultInv1 DEF Advance
<1> QED BY <1>1, <1>2, BootSyncInv1, CrashInv1, StutterInv1 DEF Next

(***************************************************************************)
(* Every state the manager reaches is well typed, and at each step of a    *)
(* request the local values the step uses are there: no handler works on a *)
(* row it has not read.                                                    *)
(***************************************************************************)
THEOREM TypeCorrect == Spec => []Inv1
<1>1. Init => Inv1
  BY InitInv1
<1>2. Inv1 /\ [Next]_vars => Inv1'
  BY NextInv1
<1> QED BY <1>1, <1>2, PTL DEF Spec

(***************************************************************************)
(* Every reachable state of the manager's tables, files, devices and       *)
(* requests is well typed, for any number of workers, peers and failures.  *)
(***************************************************************************)
THEOREM TypeOKCorrect == Spec => []TypeOK
<1>1. Inv1 => TypeOK
  BY DEF Inv1
<1> QED BY <1>1, TypeCorrect, PTL

-----------------------------------------------------------------------------
(***************************************************************************)
(* SyncExact.  The induction carries, for a request nobody has disturbed,  *)
(* what SyncInterface has established so far: the row it read is the row   *)
(* of the table, the configuration it built is the one the tables still    *)
(* call for, and the copies already written agree with it.                 *)
(***************************************************************************)
SyncLabels == {"syncList", "exists", "syncConf", "saveAfter", "saveConf", "syncUp"}

Synced(w) == pc[w] = "idle" /\ result[w] \in {"synced", "unsaved"}

Wanted(w) == /\ ifaces[job[w].ifc] # None /\ ifaces[job[w].ifc].enabled
             /\ job[w].params = ConfOf(ifaces[job[w].ifc], job[w].ifc)

SyncView(w) ==
    /\ pc[w] = "syncList" => /\ job[w].irow = ifaces[job[w].ifc]
                             /\ ifaces[job[w].ifc].enabled
    /\ pc[w] \in SyncLabels \ {"syncList"} => Wanted(w)
    /\ pc[w] = "saveAfter" => DevExact(job[w].ifc)
    /\ pc[w] = "syncUp" => conf[job[w].ifc] = job[w].params
    /\ Synced(w) => /\ DevExact(job[w].ifc) /\ ifaces[job[w].ifc].enabled
                    /\ result[w] = "synced" =>
                         conf[job[w].ifc] = ConfOf(ifaces[job[w].ifc], job[w].ifc)

SyncInv == \A w \in Workers : ~touched[w] => SyncView(w)

LEMMA BlocksFrame == ASSUME UNCHANGED peers PROVE \A i : Blocks(i)' = Blocks(i)
BY DEF Blocks

LEMMA SyncViewFrame ==
    ASSUME NEW v, UNCHANGED sys, SyncView(v),
           pc'[v] = pc[v], job'[v] = job[v], result'[v] = result[v]
    PROVE  SyncView(v)'
<1>1. \A i : Blocks(i)' = Blocks(i)
  BY BlocksFrame DEF sys
<1>2. \A i : DevExact(i)' <=> DevExact(i)
  BY <1>1 DEF DevExact, sys
<1>3. \A r, i : ConfOf(r, i)' = ConfOf(r, i)
  BY <1>1 DEF ConfOf
<1>4. UNCHANGED <<ifaces, conf>>
  BY DEF sys
<1>5. ConfOf(ifaces[job[v].ifc], job[v].ifc)' = ConfOf(ifaces[job[v].ifc], job[v].ifc)
  BY <1>1, <1>4 DEF ConfOf
<1> QED BY <1>2, <1>4, <1>5 DEF SyncView, Wanted, Synced

\* A step outside SyncInterface, or one that ends it in an error, is no claim.
LEMMA SyncViewVoid ==
    ASSUME NEW w, pc'[w] \notin SyncLabels,
           pc'[w] = "idle" => result'[w] \notin {"synced", "unsaved"}
    PROVE  SyncView(w)'
BY DEF SyncView, SyncLabels, Synced

\* Every step of w leaves the requests of the other workers alone.
LEMMA AdvanceOthers ==
    ASSUME TypeReq, NEW w \in Workers, Advance(w) PROVE Others(w)
<1>1. CASE ReadConf(w) \/ InsertIface(w) \/ ImportPeer(w) \/ GetIface(w)
           \/ UpdateIface(w) \/ NetDelete(w) \/ DeleteRow(w)
  BY <1>1 DEF TypeReq, Others, ReadConf, InsertIface, ImportPeer, GetIface,
              UpdateIface, NetDelete, DeleteRow, Finish, Stay, Goto
<1>2. CASE InsertPeer(w) \/ GetPeer(w) \/ PollGet(w) \/ DeletePeer(w)
           \/ UpdatePeer(w) \/ Reject(w) \/ DbFault(w)
  BY <1>2 DEF TypeReq, Others, InsertPeer, GetPeer, PollGet, DeletePeer,
              UpdatePeer, Reject, DbFault, Finish, Stay, Goto
<1>3. CASE SyncGet(w) \/ SyncDown(w) \/ SyncList(w) \/ Exists(w) \/ SyncConf(w)
           \/ SaveAfter(w) \/ SaveConf(w) \/ SyncUp(w)
  BY <1>3 DEF TypeReq, Others, SyncGet, SyncDown, SyncList, Exists, SyncConf,
              SaveAfter, SaveConf, SyncUp, Finish, Stay, Goto
<1>4. CASE QuickUp(w) \/ QuickDown(w) \/ StopDown(w)
  BY <1>4 DEF TypeReq, Others, QuickUp, QuickDown, StopDown, Finish, Stay, Goto
<1> QED BY <1>1, <1>2, <1>3, <1>4 DEF Advance

LEMMA BeginOthers ==
    ASSUME TypeReq, NEW w \in Workers, NEW j, NEW l, Begin(w, j, l)
    PROVE  Others(w) /\ UNCHANGED sys /\ result'[w] = "none" /\ pc'[w] = l
BY DEF Begin, TypeReq, Others

LEMMA StartOthers ==
    ASSUME TypeReq, NEW w \in Workers, Arrive(w) \/ BootSync(w)
    PROVE  /\ Others(w) /\ UNCHANGED sys /\ result'[w] = "none"
           /\ pc'[w] \in {"readConf", "getIface", "syncGet", "quickDown",
                          "insertIface", "getPeer", "pollGet"}
<1>1. CASE Arrive(w)
  <2>1. CASE BeginIface(w)
    BY <2>1, BeginOthers DEF BeginIface
  <2>2. CASE BeginCreate(w)
    BY <2>2, BeginOthers DEF BeginCreate
  <2>3. CASE BeginImport(w)
    BY <2>3, BeginOthers DEF BeginImport
  <2>4. CASE BeginAddPeer(w)
    BY <2>4, BeginOthers DEF BeginAddPeer
  <2>5. CASE BeginPeer(w)
    BY <2>5, BeginOthers DEF BeginPeer
  <2> QED BY <1>1, <2>1, <2>2, <2>3, <2>4, <2>5 DEF Arrive
<1>2. CASE BootSync(w)
  BY <1>2 DEF BootSync, TypeReq, Others
<1> QED BY <1>1, <1>2

\* The worker that moves, outside SyncInterface.
LEMMA PlainStepView ==
    ASSUME Inv1, NEW w \in Workers,
           \/ ReadConf(w) \/ InsertIface(w) \/ ImportPeer(w) \/ GetIface(w)
           \/ UpdateIface(w) \/ NetDelete(w) \/ DeleteRow(w)
           \/ InsertPeer(w) \/ GetPeer(w) \/ PollGet(w) \/ DeletePeer(w)
           \/ UpdatePeer(w) \/ Reject(w) \/ DbFault(w)
           \/ QuickUp(w) \/ QuickDown(w) \/ StopDown(w) \/ SyncDown(w)
    PROVE  SyncView(w)'
<1>0. TypeReq
  BY Inv1Facts
<1>1. CASE ReadConf(w) \/ InsertIface(w) \/ ImportPeer(w) \/ GetIface(w)
           \/ UpdateIface(w) \/ NetDelete(w) \/ DeleteRow(w)
  <2>1. /\ pc'[w] \notin SyncLabels
        /\ pc'[w] = "idle" => result'[w] \notin {"synced", "unsaved"}
    BY <1>0, <1>1 DEF TypeReq, SyncLabels, ReadConf, InsertIface, ImportPeer,
              GetIface, UpdateIface, NetDelete, DeleteRow, Finish, Stay, Goto
  <2> QED BY <2>1, SyncViewVoid
<1>2. CASE InsertPeer(w) \/ GetPeer(w) \/ PollGet(w) \/ DeletePeer(w)
           \/ UpdatePeer(w) \/ Reject(w) \/ DbFault(w)
  <2>1. /\ pc'[w] \notin SyncLabels
        /\ pc'[w] = "idle" => result'[w] \notin {"synced", "unsaved"}
    BY <1>0, <1>2 DEF TypeReq, SyncLabels, InsertPeer, GetPeer, PollGet,
              DeletePeer, UpdatePeer, Reject, DbFault, Finish, Stay, Goto
  <2> QED BY <2>1, SyncViewVoid
<1>3. CASE QuickUp(w) \/ QuickDown(w) \/ StopDown(w) \/ SyncDown(w)
  <2>1. /\ pc'[w] \notin SyncLabels
        /\ pc'[w] = "idle" => result'[w] \notin {"synced", "unsaved"}
    BY <1>0, <1>3 DEF TypeReq, SyncLabels, QuickUp, QuickDown, StopDown,
              SyncDown, Finish, Stay, Goto
  <2> QED BY <2>1, SyncViewVoid
<1> QED BY <1>1, <1>2, <1>3

\* The worker that moves, inside SyncInterface: one step for each action.
LEMMA SyncStepView ==
    ASSUME Inv1, NEW w \in Workers, SyncView(w),
           \/ SyncGet(w) \/ SyncList(w) \/ Exists(w) \/ SyncConf(w)
           \/ SaveAfter(w) \/ SaveConf(w) \/ SyncUp(w)
    PROVE  SyncView(w)'
<1> DEFINE i == job[w].ifc
<1>0. TypeReq /\ TypeSys /\ job[w] \in Job
  BY Inv1Facts DEF TypeReq
<1>e. CASE Finish(w, "err")
  <2>1. pc'[w] = "idle" /\ result'[w] = "err"
    BY <1>e, <1>0, FinishFacts DEF Results
  <2> QED BY <2>1, SyncViewVoid DEF SyncLabels
<1>1. CASE SyncGet(w) /\ ~Finish(w, "err")
  <2>1. /\ ifaces[i] # None /\ UNCHANGED sys
        /\ job' = [job EXCEPT ![w].irow = ifaces[i]]
        /\ pc'[w] = IF ifaces[i].enabled THEN "syncList" ELSE "syncDown"
    BY <1>1, <1>0 DEF SyncGet, Me, Goto, TypeReq
  <2>2. job'[w].irow = ifaces[i] /\ job'[w].ifc = i
    BY <2>1, <1>0 DEF TypeReq, Job
  <2> QED BY <2>1, <2>2 DEF SyncView, SyncLabels, Synced, sys
<1>2. CASE SyncList(w)
  <2>1. /\ pc[w] = "syncList" /\ UNCHANGED sys /\ pc'[w] = "exists"
        /\ job' = [job EXCEPT ![w].params = ConfOf(job[w].irow, i)]
        /\ job[w].irow \in IfaceRow
    BY <1>2, <1>0 DEF SyncList, At, Me, Goto, TypeReq, Inv1, Locals, LocalsOf
  <2>2. job'[w].params = ConfOf(job[w].irow, i) /\ job'[w].ifc = i
    BY <2>1, <1>0 DEF TypeReq, Job
  <2>3. job[w].irow = ifaces[i] /\ ifaces[i].enabled /\ ifaces[i] # None
    BY <2>1 DEF SyncView
  <2>4. ConfOf(ifaces[i], i)' = ConfOf(ifaces[i], i)
    BY <2>1, <2>2, BlocksFrame DEF ConfOf, sys
  <2>5. Wanted(w)'
    BY <2>1, <2>2, <2>3, <2>4 DEF Wanted, sys, ConfOf
  <2> QED BY <2>1, <2>5 DEF SyncView, SyncLabels, Synced
<1>3. CASE Exists(w)
  <2>1. /\ pc[w] = "exists" /\ UNCHANGED sys /\ job'[w] = job[w]
        /\ pc'[w] \in {"syncConf", "saveConf"}
    BY <1>3, <1>0 DEF Exists, At, Stay, Goto, TypeReq
  <2>2. Wanted(w)
    BY <2>1 DEF SyncView, SyncLabels
  <2>3. Wanted(w)'
    BY <2>1, <2>2, BlocksFrame DEF Wanted, ConfOf, sys
  <2> QED BY <2>1, <2>3 DEF SyncView, SyncLabels, Synced
<1>4. CASE SyncConf(w) /\ ~Finish(w, "err")
  <2>1. /\ pc[w] = "syncConf" /\ UNCHANGED <<ifaces, peers, conf>>
        /\ job'[w] = job[w] /\ pc'[w] = "saveAfter" /\ dev[i] # None
        /\ dev' = [dev EXCEPT ![i] = Stripped(@, job[w].params)]
    BY <1>4, <1>0 DEF SyncConf, At, Stay, Goto, TypeReq, Me
  <2>2. Wanted(w) /\ i \in Ifaces
    BY <2>1 DEF SyncView, SyncLabels, Inv1, Locals, LocalsOf, WithIface, Labels
  <2>3. Wanted(w)'
    BY <2>1, <2>2, BlocksFrame DEF Wanted, ConfOf
  <2>4. dev'[i] = Stripped(dev[i], job[w].params) /\ dev'[i] # None
    BY <2>1, <2>2, <1>0 DEF TypeSys, Stripped, Device, Wanted, ConfOf,
       Inv1, Locals, LocalsOf, WithParams, Conf
  <2>5. DevExact(i)'
    BY <2>1, <2>2, <2>4, BlocksFrame DEF DevExact, Stripped, Wanted, ConfOf
  <2> QED BY <2>1, <2>3, <2>5 DEF SyncView, SyncLabels, Synced
<1>5. CASE SaveAfter(w)
  <2>1. /\ pc[w] = "saveAfter" /\ UNCHANGED <<ifaces, peers, dev>>
        /\ \/ Finish(w, "synced") /\ conf' = [conf EXCEPT ![i] = job[w].params]
           \/ Finish(w, "unsaved") /\ conf' = conf
    BY <1>5 DEF SaveAfter, At, Me
  <2>2. Wanted(w) /\ DevExact(i) /\ i \in Ifaces
    BY <2>1 DEF SyncView, SyncLabels, Inv1, Locals, LocalsOf, WithIface, Labels
  <2>3. /\ pc'[w] = "idle" /\ job'[w].ifc = i
        /\ \/ result'[w] = "synced" /\ conf'[i] = job[w].params
           \/ result'[w] = "unsaved"
    BY <2>1, <2>2, <1>0, FinishFacts DEF Results, TypeSys
  <2>4. DevExact(i)' /\ ConfOf(ifaces[i], i)' = ConfOf(ifaces[i], i)
    BY <2>1, <2>2, <2>3, BlocksFrame DEF DevExact, ConfOf
  <2> QED BY <2>1, <2>2, <2>3, <2>4 DEF SyncView, SyncLabels, Synced, Wanted
<1>6. CASE SaveConf(w) /\ ~Finish(w, "err")
  <2>1. /\ pc[w] = "saveConf" /\ UNCHANGED <<ifaces, peers, dev>>
        /\ job'[w] = job[w] /\ pc'[w] = "syncUp"
        /\ conf' = [conf EXCEPT ![i] = job[w].params]
    BY <1>6, <1>0 DEF SaveConf, At, Stay, Goto, TypeReq, Me
  <2>2. Wanted(w) /\ i \in Ifaces
    BY <2>1 DEF SyncView, SyncLabels, Inv1, Locals, LocalsOf, WithIface, Labels
  <2>3. Wanted(w)' /\ conf'[i] = job[w].params
    BY <2>1, <2>2, <1>0, BlocksFrame DEF Wanted, ConfOf, TypeSys
  <2> QED BY <2>1, <2>3 DEF SyncView, SyncLabels, Synced
<1>7. CASE SyncUp(w) /\ ~Finish(w, "err")
  <2>1. /\ pc[w] = "syncUp" /\ UNCHANGED <<ifaces, peers, conf>>
        /\ Finish(w, "synced") /\ dev' = [dev EXCEPT ![i] = Raised(conf[i])]
    BY <1>7 DEF SyncUp, At, Me
  <2>2. /\ Wanted(w) /\ conf[i] = job[w].params /\ i \in Ifaces
        /\ job[w].params \in Conf
    BY <2>1 DEF SyncView, SyncLabels, Inv1, Locals, LocalsOf, WithIface,
                WithParams, Labels
  <2>3. pc'[w] = "idle" /\ job'[w].ifc = i /\ result'[w] = "synced"
    BY <2>1, <1>0, FinishFacts DEF Results
  <2>4. dev'[i] = Raised(job[w].params)
    BY <2>1, <2>2, <1>0 DEF TypeSys
  <2>5. Raised(job[w].params) \in Device
    BY <2>2 DEF Raised, Conf, Device
  <2>6. DevExact(i)' /\ ConfOf(ifaces[i], i)' = ConfOf(ifaces[i], i)
    <3>1. dev'[i] # None
      BY <2>4, <2>5
    <3> QED BY <2>1, <2>2, <2>3, <2>4, <3>1, BlocksFrame
            DEF DevExact, ConfOf, Raised, Wanted
  <2> QED BY <2>1, <2>2, <2>3, <2>6 DEF SyncView, SyncLabels, Synced, Wanted
<1> QED BY <1>e, <1>1, <1>2, <1>3, <1>4, <1>5, <1>6, <1>7

LEMMA SyncInvNext == Inv1 /\ SyncInv /\ [Next]_vars => SyncInv'
<1> SUFFICES ASSUME Inv1, SyncInv, [Next]_vars PROVE SyncInv'
  OBVIOUS
<1>0. TypeReq
  BY Inv1Facts
<1>1. ASSUME NEW w \in Workers, Mark(w), Others(w), SyncView(w)' \/ touched'[w]
      PROVE  SyncInv'
  <2> SUFFICES ASSUME NEW v \in Workers, ~touched'[v] PROVE SyncView(v)'
    BY DEF SyncInv
  <2>1. CASE v = w
    BY <2>1, <1>1
  <2>2. CASE v # w
    <3>1. ~touched[v] /\ UNCHANGED sys
      BY <2>2, <1>1 DEF Mark
    <3> QED BY <3>1, <2>2, <1>1, SyncViewFrame DEF SyncInv, Others
  <2> QED BY <2>1, <2>2
<1>2. ASSUME NEW w \in Workers, Arrive(w) \/ BootSync(w), Mark(w) PROVE SyncInv'
  <2>1. /\ Others(w) /\ UNCHANGED sys /\ result'[w] = "none"
        /\ pc'[w] \in {"readConf", "getIface", "syncGet", "quickDown",
                       "insertIface", "getPeer", "pollGet"}
    BY <1>0, <1>2, StartOthers
  <2>2. SyncView(w)'
    BY <2>1, SyncViewVoid DEF SyncLabels
  <2> QED BY <1>1, <1>2, <2>1, <2>2
<1>3. ASSUME NEW w \in Workers, Advance(w), Mark(w) PROVE SyncInv'
  <2>1. Others(w)
    BY <1>0, <1>3, AdvanceOthers
  <2>2. touched'[w] \/ SyncView(w) \/ pc[w] = "idle"
    BY <1>3 DEF Mark, SyncInv
  <2>3. pc[w] # "idle"
    BY <1>3 DEF Advance, ReadConf, InsertIface, ImportPeer, GetIface, UpdateIface,
       NetDelete, DeleteRow, InsertPeer, GetPeer, PollGet, DeletePeer, UpdatePeer,
       Reject, SyncGet, SyncDown, SyncList, Exists, SyncConf, SaveAfter, SaveConf,
       SyncUp, QuickUp, QuickDown, StopDown, DbFault, At
  <2>4. SyncView(w)' \/ touched'[w]
    BY <1>3, <2>2, <2>3, PlainStepView, SyncStepView DEF Advance
  <2> QED BY <1>1, <1>3, <2>1, <2>4
<1>4. CASE Crash
  BY <1>4 DEF Crash, SyncInv, SyncView, SyncLabels, Synced
<1>5. CASE UNCHANGED vars
  <2>1. UNCHANGED <<sys, pc, job, result, touched>>
    BY <1>5 DEF vars
  <2>2. ASSUME NEW v \in Workers, ~touched'[v] PROVE SyncView(v)'
    BY <2>1, <2>2, SyncViewFrame DEF SyncInv
  <2> QED BY <2>2 DEF SyncInv
<1> QED BY <1>2, <1>3, <1>4, <1>5 DEF Next

(***************************************************************************)
(* For any number of concurrent requests, failures and restarts: a request *)
(* whose SyncInterface succeeded and that no other worker disturbed leaves *)
(* the device, and the conf file when its write succeeded, exactly as the  *)
(* database says.                                                          *)
(***************************************************************************)
THEOREM SyncExactCorrect == Spec => []SyncExact
<1>1. Init => SyncInv
  BY DEF Init, SyncInv, SyncView, SyncLabels, Synced
<1>2. Inv1 /\ SyncInv /\ [Next]_vars => SyncInv'
  BY SyncInvNext
<1>3. SyncInv => SyncExact
  BY DEF SyncInv, SyncExact, SyncView, Synced
<1> QED BY <1>1, <1>2, <1>3, TypeCorrect, PTL DEF Spec

=============================================================================
