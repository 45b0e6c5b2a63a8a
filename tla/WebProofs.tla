------------------------------- MODULE WebProofs -------------------------------
(***************************************************************************)
(* Theorems about Web for every sequence of interfaces, every set of       *)
(* addresses and every bound.                                              *)
(***************************************************************************)
EXTENDS Web, TLAPS

-----------------------------------------------------------------------------
(***************************************************************************)
(* Requests under way.  A button of a form names the page of the form, any *)
(* other request an interface or nothing.                                  *)
(***************************************************************************)
RightCall == {c \in Call : /\ c.kind \in {"clear", "save"} => c.id \in Forms
                           /\ c.kind \notin {"clear", "save"} => c.id \in IfaceSet \cup {None}
                           /\ c.kind \in {"dash", "delete"} => c.id = None}
CallBag == UNION {[S -> Nat \ {0}] : S \in SUBSET RightCall}

Own(kind, id)  == [kind |-> kind, id |-> id, own |-> TRUE]
Late(kind, id) == [kind |-> kind, id |-> id, own |-> FALSE]

LEMMA BagType ==
    ASSUME NEW b
    PROVE  /\ b \in CallBag => IsABag(b) /\ BagToSet(b) \subseteq Call
           /\ (IsABag(b) /\ BagToSet(b) \subseteq RightCall) => b \in CallBag
BY DEF CallBag, IsABag, BagToSet, RightCall

LEMMA CopiesType ==
    ASSUME NEW b \in CallBag, NEW c
    PROVE  Copies(b, c) \in Nat /\ (c \in BagToSet(b) <=> Copies(b, c) > 0)
BY DEF CallBag, Copies, BagToSet

LEMMA MoreCalls ==
    ASSUME NEW b \in CallBag, NEW c \in RightCall
    PROVE  LET m == b (+) SetToBag({c})
           IN /\ m \in CallBag /\ BagToSet(m) = BagToSet(b) \cup {c}
              /\ \A d : Copies(m, d) = Copies(b, d) + IF d = c THEN 1 ELSE 0
<1> DEFINE m == b (+) SetToBag({c})
<1>1. /\ DOMAIN m = DOMAIN b \cup {c}
      /\ \A e \in DOMAIN b \cup {c} : m[e] = Copies(b, e) + IF e = c THEN 1 ELSE 0
  BY DEF Copies, SetToBag, BagToSet, (+)
<1> m = [e \in DOMAIN m |-> m[e]]
  BY DEF (+)
<1>2. \A e : Copies(b, e) \in Nat
  BY CopiesType
<1>3. DOMAIN b \in SUBSET RightCall
  BY DEF CallBag
<1>4. m \in [DOMAIN b \cup {c} -> Nat \ {0}]
  <2>1. \A e \in DOMAIN b \cup {c} : (Copies(b, e) + IF e = c THEN 1 ELSE 0) \in Nat \ {0}
    BY <1>2, CopiesType DEF BagToSet
  <2> QED BY <1>1, <2>1
<1>5. m \in CallBag
  BY <1>3, <1>4 DEF CallBag
<1>6. BagToSet(m) = BagToSet(b) \cup {c}
  BY <1>1 DEF BagToSet
<1>7. ASSUME NEW d PROVE Copies(m, d) = Copies(b, d) + IF d = c THEN 1 ELSE 0
  <2>1. CASE d \in DOMAIN b \cup {c}
    BY <1>1, <2>1 DEF Copies, BagToSet
  <2>2. CASE d \notin DOMAIN b \cup {c}
    BY <1>1, <2>2 DEF Copies, BagToSet
  <2> QED BY <2>1, <2>2
<1> QED BY <1>5, <1>6, <1>7

LEMMA LessCalls ==
    ASSUME NEW b \in CallBag, NEW c \in BagToSet(b)
    PROVE  LET m == b (-) SetToBag({c})
           IN /\ m \in CallBag /\ BagToSet(m) \subseteq BagToSet(b)
              /\ \A d : Copies(m, d) = Copies(b, d) - IF d = c THEN 1 ELSE 0
<1> DEFINE m == b (-) SetToBag({c})
           f == [e \in DOMAIN b |-> IF e = c THEN b[e] - 1 ELSE b[e]]
           D == {d \in DOMAIN b : f[d] > 0}
<1>0. /\ DOMAIN SetToBag({c}) = {c} /\ SetToBag({c})[c] = 1
  BY DEF SetToBag
<1>1. m = [e \in D |-> f[e]]
  <2>1. \A e \in DOMAIN b : (IF e \in DOMAIN SetToBag({c}) THEN b[e] - SetToBag({c})[e] ELSE b[e]) = f[e]
    BY <1>0
  <2> QED BY <2>1 DEF (-)
<1>2. b \in [DOMAIN b -> Nat \ {0}] /\ DOMAIN b \in SUBSET RightCall
  BY DEF CallBag
<1>3. f \in [DOMAIN b -> Nat]
  BY <1>2
<1>4. m \in [D -> Nat \ {0}] /\ D \in SUBSET RightCall
  <2>1. \A e \in D : f[e] \in Nat \ {0}
    BY <1>3
  <2> HIDE DEF f
  <2> QED BY <1>1, <1>2, <2>1
<1>5. m \in CallBag
  BY <1>4 DEF CallBag
<1>6. BagToSet(m) \subseteq BagToSet(b)
  BY <1>1 DEF BagToSet
<1>7. ASSUME NEW d PROVE Copies(m, d) = Copies(b, d) - IF d = c THEN 1 ELSE 0
  <2> HIDE DEF m, f, D
  <2>1. CASE d \in D
    BY <1>1, <1>2, <2>1 DEF Copies, BagToSet, D, f
  <2>2. CASE d \in DOMAIN b \ D
    <3>1. f[d] = 0 /\ d = c /\ b[d] = 1
      BY <1>2, <1>3, <2>2 DEF D, f
    <3> QED BY <1>1, <2>2, <3>1 DEF Copies, BagToSet
  <2>3. CASE d \notin DOMAIN b
    BY <1>1, <2>3 DEF Copies, BagToSet, D
  <2> QED BY <2>1, <2>2, <2>3
<1> QED BY <1>5, <1>6, <1>7

LEMMA DisownedCalls ==
    ASSUME NEW b \in CallBag
    PROVE  /\ Disowned(b) \in CallBag
           /\ \A c \in BagToSet(Disowned(b)) : ~c.own
           /\ \A kind \in Kinds, id \in IfaceSet \cup Forms \cup {None} :
                Copies(Disowned(b), Late(kind, id)) =
                    Copies(b, Late(kind, id)) + Copies(b, Own(kind, id))
<1> DEFINE m == Disowned(b)
           D == {[d EXCEPT !.own = FALSE] : d \in BagToSet(b)}
<1>1. m = [c \in D |-> Copies(b, c) + Copies(b, [c EXCEPT !.own = TRUE])]
  BY DEF Disowned
<1>2. BagToSet(b) \subseteq RightCall
  BY DEF CallBag, BagToSet
<1>3. ASSUME NEW c \in D PROVE c \in RightCall /\ ~c.own /\ m[c] \in Nat \ {0}
  <2>1. PICK d \in BagToSet(b) : c = [d EXCEPT !.own = FALSE]
    BY <1>3
  <2>2. d \in RightCall /\ d \in Call
    BY <1>2, <2>1 DEF RightCall
  <2>3. c \in RightCall /\ ~c.own
    BY <2>1, <2>2 DEF RightCall, Call
  <2>4. d = c \/ d = [c EXCEPT !.own = TRUE]
    BY <2>1, <2>2 DEF Call
  <2>5. Copies(b, d) > 0 /\ Copies(b, c) \in Nat /\ Copies(b, [c EXCEPT !.own = TRUE]) \in Nat
    BY <2>1, CopiesType
  <2>6. m[c] = Copies(b, c) + Copies(b, [c EXCEPT !.own = TRUE])
    BY <1>1, <1>3
  <2> HIDE DEF m
  <2>7. m[c] \in Nat /\ m[c] > 0
    <3>1. CASE d = c
      BY <2>5, <2>6, <3>1
    <3>2. CASE d = [c EXCEPT !.own = TRUE]
      BY <2>5, <2>6, <3>2
    <3> QED BY <2>4, <3>1, <3>2
  <2> QED BY <2>3, <2>7
<1>4. m \in CallBag
  <2>1. D \in SUBSET RightCall
    BY <1>3
  <2>2. DOMAIN m = D
    BY <1>1
  <2>3. m \in [D -> Nat \ {0}]
    BY <1>1, <1>3
  <2> QED BY <2>1, <2>3 DEF CallBag
<1>5. BagToSet(m) = D
  BY <1>1 DEF BagToSet
<1>6. ASSUME NEW kind \in Kinds, NEW id \in IfaceSet \cup Forms \cup {None}
      PROVE  Copies(m, Late(kind, id)) =
                    Copies(b, Late(kind, id)) + Copies(b, Own(kind, id))
  <2> DEFINE f == Late(kind, id)
             t == Own(kind, id)
  <2>1. /\ t = [f EXCEPT !.own = TRUE]
        /\ f = [t EXCEPT !.own = FALSE]
        /\ f = [f EXCEPT !.own = FALSE]
    <3>0. f \in Call /\ t \in Call /\ ~f.own /\ t.own /\ f.kind = t.kind /\ f.id = t.id
      BY DEF Own, Late, Call
    <3>1. t = [f EXCEPT !.own = TRUE]
      BY <3>0 DEF Call
    <3>2. f = [t EXCEPT !.own = FALSE]
      BY <3>0 DEF Call
    <3>3. f = [f EXCEPT !.own = FALSE]
      BY <3>0 DEF Call
    <3> QED BY <3>1, <3>2, <3>3
  <2> SUFFICES Copies(m, f) = Copies(b, f) + Copies(b, t)
    OBVIOUS
  <2> HIDE DEF m, D, f, t
  <2>2. (f \in BagToSet(b) \/ t \in BagToSet(b)) => f \in D
    BY <2>1 DEF D
  <2>3. CASE f \in D
    BY <1>1, <1>5, <2>1, <2>3 DEF Copies
  <2>4. CASE f \notin D
    BY <1>5, <2>2, <2>4 DEF Copies
  <2> QED BY <2>3, <2>4
<1> QED BY <1>3, <1>4, <1>5, <1>6

-----------------------------------------------------------------------------
(***************************************************************************)
(* The package variables as a record.  The three parts of the invariant:   *)
(* the intervals are those of the mounted view (Timers), a request of the  *)
(* mounted view is of a kind its page sends (Asked), and an interface's    *)
(* page with an open form waits for at most the answer that it is loaded   *)
(* with (Drafted).                                                         *)
(***************************************************************************)
ViewSet == [at: Path \cup {None}, loaded: BOOLEAN, typed: BOOLEAN]
StateSet == [path: Path, view: ViewSet, handle: SUBSET Polling,
             ticking: SUBSET [page: Polling, own: BOOLEAN],
             dash: BOOLEAN, ifaces: BOOLEAN, selected: IfaceSet \cup {None},
             logs: IfaceSet \cup {None}, current: IfaceSet \cup {None},
             editing: SUBSET Forms, calls: CallBag, celebrated: SUBSET IfaceSet]

Mine(v) == IF v.at = None THEN {} ELSE {v.at.page} \cap Polling
Timers(s) == /\ s.ticking = {[page |-> p, own |-> TRUE] : p \in s.handle}
             /\ s.handle \subseteq Mine(s.view)
             /\ (s.view.at # None /\ s.view.at.page # "config") => s.handle = Mine(s.view)

\* What the mounted view v may have asked.
Asks == {<<"dash", "dashboard">>, <<"ifaces", "logs">>, <<"logs", "logs">>,
         <<"status", "detail">>, <<"check", "config">>, <<"page", "interfaces">>,
         <<"page", "users">>, <<"page", "config">>}
Fits(v, c) == (c.own /\ c.kind \in Background \ {"alive"}) =>
                 /\ v.at # None /\ <<c.kind, v.at.page>> \in Asks
                 /\ c.kind = "status" => c.id = v.at.id
Asked(s) == \A c \in BagToSet(s.calls) : Fits(s.view, c)

Status(id) == Own("status", id)
OnDetail(v) == v.at # None /\ v.at.page = "detail"
Drafted(s) ==
    /\ s.view.typed => /\ s.view.at # None /\ s.view.at.page \in Forms
                       /\ s.view.at.page = "detail" => s.view.loaded
    /\ (OnDetail(s.view) /\ "detail" \in s.editing) =>
            Copies(s.calls, Status(s.view.at.id)) <= IF s.view.loaded THEN 0 ELSE 1

Rec(s) == s \in StateSet /\ Timers(s) /\ Asked(s) /\ Drafted(s)

Deletes(b) == Copies(b, Own("delete", None)) + Copies(b, Late("delete", None))

LEMMA Fields ==
    ASSUME NEW s \in StateSet
    PROVE  /\ s.path \in Path /\ s.view \in ViewSet /\ s.handle \subseteq Polling
           /\ s.ticking \subseteq [page: Polling, own: BOOLEAN]
           /\ {s.dash, s.ifaces} \subseteq BOOLEAN
           /\ {s.selected, s.logs, s.current} \subseteq IfaceSet \cup {None}
           /\ s.editing \subseteq Forms /\ s.calls \in CallBag
           /\ s.celebrated \subseteq IfaceSet
BY DEF StateSet

\* A view shows what it has asked for.
LEMMA Shown ==
    ASSUME NEW v \in ViewSet
    PROVE  /\ [v EXCEPT !.loaded = TRUE] \in ViewSet
           /\ [v EXCEPT !.loaded = TRUE].at = v.at
           /\ [v EXCEPT !.loaded = TRUE].typed = v.typed
           /\ [v EXCEPT !.loaded = TRUE].loaded
BY DEF ViewSet

\* A request leaves.
Sent(s, c) == [s EXCEPT !.calls = @ (+) SetToBag({c})]

LEMMA SentFields ==
    ASSUME NEW s \in StateSet, NEW c \in RightCall, NEW t, t = Sent(s, c)
    PROVE  /\ t \in StateSet /\ t.calls = s.calls (+) SetToBag({c})
           /\ t.path = s.path /\ t.view = s.view /\ t.handle = s.handle
           /\ t.ticking = s.ticking /\ t.dash = s.dash /\ t.ifaces = s.ifaces
           /\ t.selected = s.selected /\ t.logs = s.logs /\ t.current = s.current
           /\ t.editing = s.editing /\ t.celebrated = s.celebrated
<1> DEFINE b == s.calls (+) SetToBag({c})
<1>1. b \in CallBag
  BY MoreCalls DEF StateSet
<1>2. t = [s EXCEPT !.calls = b]
  BY DEF Sent
<1> HIDE DEF b
<1> QED BY <1>1, <1>2 DEF StateSet, b

\* An open form of an interface's page: only one status is asked for, at first.
Timely(s, c) == (c.kind = "status" /\ c.own /\ OnDetail(s.view) /\ "detail" \in s.editing) =>
                    /\ ~s.view.loaded /\ Copies(s.calls, Status(s.view.at.id)) = 0

\* A request leaves that the mounted view may send.
LEMMA SentRec ==
    ASSUME NEW s, Rec(s), NEW c \in RightCall, Fits(s.view, c), Timely(s, c),
           NEW t, t = Sent(s, c)
    PROVE  /\ Rec(t) /\ t.view = s.view /\ t.editing = s.editing
           /\ BagToSet(t.calls) = BagToSet(s.calls) \cup {c}
           /\ Deletes(t.calls) = Deletes(s.calls) + IF c.kind = "delete" THEN 1 ELSE 0
           /\ Deletes(s.calls) \in Nat
<1>1. s \in StateSet /\ s.calls \in CallBag /\ Timers(s) /\ Asked(s) /\ Drafted(s)
  BY Fields DEF Rec
<1>2. /\ t \in StateSet /\ t.calls = s.calls (+) SetToBag({c})
      /\ t.view = s.view /\ t.handle = s.handle
      /\ t.ticking = s.ticking /\ t.editing = s.editing
  BY <1>1, SentFields
<1>3. /\ BagToSet(t.calls) = BagToSet(s.calls) \cup {c}
      /\ \A d : Copies(t.calls, d) = Copies(s.calls, d) + IF d = c THEN 1 ELSE 0
  BY <1>1, <1>2, MoreCalls
<1>4. \A d : Copies(s.calls, d) \in Nat
  BY <1>1, CopiesType
<1>5. Timers(t)
  BY <1>1, <1>2 DEF Timers
<1>6. Asked(t)
  BY <1>1, <1>2, <1>3 DEF Asked
<1>7. Drafted(t)
  <2>1. Status(s.view.at.id) = c => c.kind = "status" /\ c.own
    BY DEF Status, Own
  <2>2. CASE Status(s.view.at.id) = c
    <3>1. OnDetail(s.view) /\ "detail" \in s.editing =>
             ~s.view.loaded /\ Copies(s.calls, c) = 0
      BY <2>1, <2>2 DEF Timely
    <3>2. Copies(t.calls, c) = Copies(s.calls, c) + 1
      BY <1>3
    <3> QED BY <1>1, <1>2, <2>2, <3>1, <3>2 DEF Drafted
  <2>3. CASE Status(s.view.at.id) # c
    BY <1>1, <1>2, <1>3, <1>4, <2>3 DEF Drafted
  <2> QED BY <2>2, <2>3
<1>8. Deletes(t.calls) = Deletes(s.calls) + IF c.kind = "delete" THEN 1 ELSE 0
  <2>1. CASE c.kind = "delete"
    <3>1. c \in Call /\ c.id = None
      BY <2>1 DEF RightCall
    <3>2. Own("delete", None) # Late("delete", None)
          /\ (c = Own("delete", None) \/ c = Late("delete", None))
      BY <2>1, <3>1 DEF Own, Late, Call
    <3> QED BY <1>3, <1>4, <2>1, <3>2 DEF Deletes
  <2>2. CASE c.kind # "delete"
    <3>1. c # Own("delete", None) /\ c # Late("delete", None)
      BY <2>2 DEF Own, Late
    <3> QED BY <1>3, <1>4, <2>2, <3>1 DEF Deletes
  <2> QED BY <2>1, <2>2
<1>9. Deletes(s.calls) \in Nat
  BY <1>4 DEF Deletes
<1> QED BY <1>2, <1>3, <1>5, <1>6, <1>7, <1>8, <1>9 DEF Rec

\* A change that leaves the view, the intervals and the requests alone, and
\* opens no form of an interface's page.
LEMMA EditRec ==
    ASSUME NEW s, Rec(s), NEW t \in StateSet,
           t.view = s.view, t.handle = s.handle, t.ticking = s.ticking, t.calls = s.calls,
           "detail" \in t.editing => "detail" \in s.editing
    PROVE  Rec(t)
BY DEF Rec, Timers, Asked, Drafted

-----------------------------------------------------------------------------
(***************************************************************************)
(* mountRoute.                                                             *)
(***************************************************************************)
Unseen(r) == [at |-> r, loaded |-> FALSE, typed |-> FALSE]
Dropped(s, r) == [StopPolling(s) EXCEPT
                    !.view  = [at |-> r, loaded |-> FALSE, typed |-> FALSE],
                    !.calls = Disowned(@),
                    !.ticking = {[x EXCEPT !.own = FALSE] : x \in @}]
Base(s, r) == IF r.page \in Polling \ {"config"} THEN SetInterval(Dropped(s, r), r.page)
              ELSE Dropped(s, r)

LEMMA MountedBase ==
    ASSUME NEW s, NEW r
    PROVE  /\ r.page = "dashboard"  => Mounted(s, r) = DashboardView(Base(s, r))
           /\ r.page = "interfaces" => Mounted(s, r) = InterfacesView(Base(s, r))
           /\ r.page = "detail"     => Mounted(s, r) = DetailView(Base(s, r), r.id)
           /\ r.page = "config"     => Mounted(s, r) = ConfigView(Base(s, r), r.id)
           /\ r.page = "logs"       => Mounted(s, r) = LogsView(Base(s, r), r.id)
           /\ r.page = "users"      => Mounted(s, r) = UsersView(Base(s, r))
BY DEF Mounted, Dropped, Base

\* The fields that the mount of a view does not change at first.
Same(s, t) == /\ t.path = s.path /\ t.dash = s.dash /\ t.ifaces = s.ifaces
              /\ t.selected = s.selected /\ t.logs = s.logs /\ t.current = s.current
              /\ t.editing = s.editing /\ t.celebrated = s.celebrated

LEMMA DroppedFacts ==
    ASSUME NEW s \in StateSet, \A x \in s.ticking : x.page \in s.handle, NEW r \in Path
    PROVE  LET d == Dropped(s, r)
           IN /\ d \in StateSet /\ d.view = Unseen(r) /\ d.handle = {} /\ d.ticking = {}
              /\ d.calls = Disowned(s.calls) /\ Same(s, d)
<1> DEFINE b == Disowned(s.calls)
           v == Unseen(r)
           t == StopPolling(s)
           d == [t EXCEPT !.view = v, !.calls = b, !.ticking = {}]
<1>1. b \in CallBag /\ v \in ViewSet
  BY Fields, DisownedCalls DEF ViewSet, Unseen
<1>2. /\ t \in StateSet /\ t.handle = {} /\ t.ticking = {} /\ t.calls = s.calls /\ Same(s, t)
  <2>1. {x \in s.ticking : x.page \notin s.handle} = {}
    OBVIOUS
  <2>2. t = [s EXCEPT !.ticking = {}, !.handle = {}]
    BY <2>1 DEF StopPolling
  <2> HIDE DEF t
  <2> QED BY <2>2 DEF StateSet, Same
<1>3. Dropped(s, r) = d
  <2> HIDE DEF t
  <2>1. {[x EXCEPT !.own = FALSE] : x \in t.ticking} = {}
    BY <1>2
  <2> QED BY <1>2, <2>1 DEF Dropped, Unseen, t
<1> HIDE DEF b, v, t
<1>4. d \in StateSet /\ d.view = v /\ d.handle = {} /\ d.ticking = {} /\ d.calls = b /\ Same(s, d)
  BY <1>1, <1>2 DEF StateSet, Same
<1> QED BY <1>3, <1>4 DEF b, v

LEMMA IntervalFacts ==
    ASSUME NEW s \in StateSet, NEW page \in Polling,
           s.ticking = {[page |-> p, own |-> TRUE] : p \in s.handle}
    PROVE  LET t == SetInterval(s, page)
           IN /\ t \in StateSet /\ t.view = s.view /\ t.calls = s.calls /\ Same(s, t)
              /\ t.handle = s.handle \cup {page}
              /\ t.ticking = {[page |-> p, own |-> TRUE] : p \in t.handle}
<1> DEFINE h == s.handle \cup {page}
           k == {[page |-> p, own |-> TRUE] : p \in h}
           t == [s EXCEPT !.ticking = k, !.handle = h]
<1>1. h \subseteq Polling /\ k \subseteq [page: Polling, own: BOOLEAN]
  <2>1. h \subseteq Polling
    BY Fields
  <2>2. ASSUME NEW p \in h PROVE [page |-> p, own |-> TRUE] \in [page: Polling, own: BOOLEAN]
    BY <2>1
  <2> HIDE DEF h
  <2> QED BY <2>1, <2>2
<1>2. (IF page \in s.handle THEN {x \in s.ticking : x.page # page} ELSE s.ticking)
         \cup {[page |-> page, own |-> TRUE]} = k
  OBVIOUS
<1>3. SetInterval(s, page) = t
  BY <1>2 DEF SetInterval
<1> HIDE DEF h, k
<1>4. t \in StateSet /\ t.view = s.view /\ t.calls = s.calls /\ Same(s, t)
      /\ t.handle = h /\ t.ticking = k
  BY <1>1 DEF StateSet, Same
<1> QED BY <1>3, <1>4 DEF h, k

LEMMA BaseRec ==
    ASSUME NEW s \in StateSet, Timers(s), NEW r \in Path
    PROVE  LET b == Base(s, r)
           IN /\ Rec(b) /\ b.view = Unseen(r) /\ \A c \in BagToSet(b.calls) : ~c.own
              /\ Same(s, b) /\ Deletes(b.calls) = Deletes(s.calls)
<1> DEFINE d == Dropped(s, r)
           b == Base(s, r)
<1>1. s \in StateSet /\ \A x \in s.ticking : x.page \in s.handle
  BY DEF Rec, Timers
<1>2. /\ d \in StateSet /\ d.view = Unseen(r) /\ d.handle = {} /\ d.ticking = {}
      /\ d.calls = Disowned(s.calls) /\ Same(s, d)
  BY <1>1, DroppedFacts
<1>3. /\ b \in StateSet /\ b.view = Unseen(r) /\ b.calls = Disowned(s.calls) /\ Same(s, b)
      /\ b.handle = {r.page} \cap (Polling \ {"config"})
      /\ b.ticking = {[page |-> p, own |-> TRUE] : p \in b.handle}
  <2>1. CASE r.page \in Polling \ {"config"}
    <3>1. b = SetInterval(d, r.page)
      BY <2>1 DEF Base
    <3> HIDE DEF b, d
    <3> QED BY <1>2, <2>1, <3>1, IntervalFacts DEF Same
  <2>2. CASE r.page \notin Polling \ {"config"}
    <3>1. b = d
      BY <2>2 DEF Base
    <3> HIDE DEF b, d
    <3> QED BY <1>2, <2>2, <3>1
  <2> QED BY <2>1, <2>2
<1>4. s.calls \in CallBag
  BY <1>1, Fields
<1> HIDE DEF b, d
<1>5. \A c \in BagToSet(b.calls) : ~c.own
  <2>1. \A c \in BagToSet(Disowned(s.calls)) : ~c.own
    BY <1>4, DisownedCalls
  <2>2. b.calls = Disowned(s.calls)
    BY <1>3
  <2> QED BY <2>1, <2>2, Zenon
<1>6. Timers(b)
  <2>1. b.view.at = r /\ r # None
    BY <1>3, WebAssumption DEF Unseen
  <2> QED BY <1>3, <2>1 DEF Timers, Mine
<1>7. Asked(b)
  BY <1>5 DEF Asked, Fits
<1>8. Drafted(b)
  <2>1. Status(b.view.at.id) \notin BagToSet(b.calls)
    BY <1>5 DEF Status, Own
  <2>2. Copies(b.calls, Status(b.view.at.id)) = 0
    BY <2>1 DEF Copies
  <2> QED BY <1>3, <2>2 DEF Drafted, Unseen
<1>9. Deletes(b.calls) = Deletes(s.calls)
  <2> DEFINE dt == Own("delete", None)
             df == Late("delete", None)
  <2>0. Deletes(b.calls) = Copies(b.calls, dt) + Copies(b.calls, df)
        /\ Deletes(s.calls) = Copies(s.calls, dt) + Copies(s.calls, df)
    BY DEF Deletes
  <2>1. Copies(b.calls, df) = Copies(s.calls, df) + Copies(s.calls, dt)
    <3>1. "delete" \in Kinds /\ None \in IfaceSet \cup Forms \cup {None}
      BY DEF Kinds
    <3> QED BY <1>3, <1>4, <3>1, DisownedCalls, Zenon
  <2>2. Copies(b.calls, dt) = 0
    <3>1. dt \notin BagToSet(b.calls)
      BY <1>5 DEF Own
    <3> QED BY <3>1 DEF Copies
  <2>3. Copies(s.calls, df) \in Nat /\ Copies(s.calls, dt) \in Nat
    BY <1>4, CopiesType
  <2> HIDE DEF dt, df
  <2> QED BY <2>0, <2>1, <2>2, <2>3
<1> QED BY <1>3, <1>5, <1>6, <1>7, <1>8, <1>9 DEF Rec, b

\* What a view asks for when it is mounted.
LEMMA FreshSent ==
    ASSUME NEW s, Rec(s), NEW r \in Path, s.view = Unseen(r),
           \A d \in BagToSet(s.calls) : ~d.own \/ d.kind # "status",
           NEW c \in RightCall, c.own,
           <<c.kind, r.page>> \in Asks, c.kind = "status" => c.id = r.id,
           NEW t, t = Sent(s, c)
    PROVE  /\ Rec(t) /\ t.view = s.view /\ Deletes(t.calls) = Deletes(s.calls)
           /\ c.kind # "status" => \A d \in BagToSet(t.calls) : ~d.own \/ d.kind # "status"
<1>1. c.kind \in {"dash", "ifaces", "logs", "status", "check", "page"}
  BY DEF Asks
<1>2. r # None /\ s.view.at = r /\ ~s.view.loaded
  BY WebAssumption DEF Unseen
<1>3. Fits(s.view, c)
  BY <1>2 DEF Fits
<1>4. Copies(s.calls, Status(s.view.at.id)) = 0
  <2>1. Status(s.view.at.id) \notin BagToSet(s.calls)
    BY DEF Status, Own
  <2> QED BY <2>1 DEF Copies
<1>5. /\ Rec(t) /\ t.view = s.view /\ BagToSet(t.calls) = BagToSet(s.calls) \cup {c}
      /\ Deletes(t.calls) = Deletes(s.calls) + IF c.kind = "delete" THEN 1 ELSE 0
      /\ Deletes(s.calls) \in Nat
  <2>1. Timely(s, c)
    BY <1>2, <1>4 DEF Timely
  <2> QED BY <1>3, <2>1, SentRec
<1> QED BY <1>1, <1>5

LEMMA OwnType ==
    ASSUME NEW kind \in {"ifaces", "logs", "status", "check", "page"},
           NEW id \in IfaceSet \cup {None}
    PROVE  /\ Own(kind, id) \in RightCall /\ Own(kind, id).own
           /\ Own(kind, id).kind = kind /\ Own(kind, id).id = id
BY DEF Own, RightCall, Call, Kinds

LEMMA MountedRec ==
    ASSUME NEW s \in StateSet, Timers(s), NEW r \in Path, r.page # "new"
    PROVE  LET m == Mounted(s, r)
           IN Rec(m) /\ ~m.view.typed /\ Deletes(m.calls) = Deletes(s.calls)
<1> DEFINE b == Base(s, r)
           m == Mounted(s, r)
<1>1. /\ Rec(b) /\ b.view = Unseen(r) /\ \A c \in BagToSet(b.calls) : ~c.own
      /\ Same(s, b) /\ Deletes(b.calls) = Deletes(s.calls)
  BY BaseRec
<1>2. b \in StateSet /\ r.id \in IfaceSet \cup {None} /\ r.page \in Pages /\ ~Unseen(r).typed
  BY <1>1 DEF Rec, Path, Unseen
<1>3. None \in IfaceSet \cup {None}
  OBVIOUS
<1> HIDE DEF b, m
<1>4. CASE r.page = "dashboard"
  <2>1. m = IF b.dash THEN b ELSE Sent(b, Own("dash", None))
    BY <1>4, MountedBase DEF DashboardView, Ask, Sent, Own, b, m
  <2>2. <<"dash", r.page>> \in Asks
    BY <1>4 DEF Asks
  <2>3. /\ Own("dash", None) \in RightCall /\ Own("dash", None).own
        /\ Own("dash", None).kind = "dash"
    BY DEF Own, RightCall, Call, Kinds
  <2> QED BY <1>1, <1>2, <2>1, <2>2, <2>3, FreshSent DEF m
<1>5. CASE r.page = "interfaces"
  <2> DEFINE e == IF b.path.page = "new" THEN [b EXCEPT !.editing = @ \cup {"interfaces"}] ELSE b
  <2>1. m = Sent(e, Own("page", None))
    BY <1>5, MountedBase DEF InterfacesView, Ask, Sent, Own, b, m
  <2>2. /\ e \in StateSet /\ e.view = b.view /\ e.handle = b.handle
        /\ e.ticking = b.ticking /\ e.calls = b.calls
        /\ "detail" \in e.editing => "detail" \in b.editing
    BY <1>2 DEF StateSet, Forms
  <2>3. <<"page", r.page>> \in Asks
    BY <1>5 DEF Asks
  <2> HIDE DEF e
  <2>4. Rec(e)
    BY <1>1, <2>2, EditRec
  <2> QED BY <1>1, <1>2, <1>3, <2>1, <2>2, <2>3, <2>4, FreshSent, OwnType DEF m
<1>6. CASE r.page = "users"
  <2>1. m = Sent(b, Own("page", None))
    BY <1>6, MountedBase DEF UsersView, Ask, Sent, Own, b, m
  <2>2. <<"page", r.page>> \in Asks
    BY <1>6 DEF Asks
  <2> QED BY <1>1, <1>2, <1>3, <2>1, <2>2, FreshSent, OwnType DEF m
<1>7. CASE r.page = "detail"
  <2> DEFINE e == IF r.id = b.current THEN b
                  ELSE [b EXCEPT !.editing = @ \ {"detail"}, !.current = r.id]
  <2>1. m = Sent(e, Own("status", r.id))
    BY <1>7, MountedBase DEF DetailView, Ask, Sent, Own, b, m
  <2>2. /\ e \in StateSet /\ e.view = b.view /\ e.handle = b.handle
        /\ e.ticking = b.ticking /\ e.calls = b.calls
        /\ "detail" \in e.editing => "detail" \in b.editing
    BY <1>2 DEF StateSet
  <2>3. <<"status", r.page>> \in Asks
    BY <1>7 DEF Asks
  <2> HIDE DEF e
  <2>4. Rec(e)
    BY <1>1, <2>2, EditRec
  <2> QED BY <1>1, <1>2, <2>1, <2>2, <2>3, <2>4, FreshSent, OwnType DEF m
<1>8. CASE r.page = "config"
  <2> DEFINE t == Sent(b, Own("page", r.id))
             u == Sent(t, Own("check", r.id))
  <2>1. m = IF r.id \in b.celebrated THEN t ELSE SetInterval(u, "config")
    <3>1. m = ConfigView(b, r.id)
      BY <1>8, MountedBase DEF b, m
    <3> QED BY <3>1 DEF ConfigView, Ask, Sent, Own
  <2>2. <<"page", r.page>> \in Asks /\ <<"check", r.page>> \in Asks
    BY <1>8 DEF Asks
  <2>3. /\ Rec(t) /\ t.view = b.view /\ Deletes(t.calls) = Deletes(b.calls)
        /\ \A c \in BagToSet(t.calls) : ~c.own \/ c.kind # "status"
    BY <1>1, <1>2, <2>2, FreshSent, OwnType
  <2> HIDE DEF t
  <2>4. Rec(u) /\ u.view = t.view /\ Deletes(u.calls) = Deletes(t.calls)
    BY <1>1, <1>2, <2>2, <2>3, FreshSent, OwnType
  <2> HIDE DEF u
  <2>5. CASE r.id \in b.celebrated
    BY <1>1, <1>2, <2>1, <2>3, <2>5 DEF m
  <2>6. CASE r.id \notin b.celebrated
    <3>1. m = SetInterval(u, "config")
      BY <2>1, <2>6
    <3>2. u \in StateSet /\ u.ticking = {[page |-> p, own |-> TRUE] : p \in u.handle}
          /\ u.handle \subseteq Mine(u.view)
      BY <2>4 DEF Rec, Timers
    <3>3. /\ m \in StateSet /\ m.view = u.view /\ m.calls = u.calls /\ Same(u, m)
          /\ m.handle = u.handle \cup {"config"}
          /\ m.ticking = {[page |-> p, own |-> TRUE] : p \in m.handle}
      BY <3>1, <3>2, IntervalFacts DEF Polling
    <3>4. Timers(m)
      <4>1. m.view.at = r /\ u.view.at = r /\ r # None
        BY <1>1, <2>3, <2>4, <3>3, WebAssumption DEF Unseen
      <4>2. Mine(m.view) = {"config"} /\ Mine(u.view) = {"config"}
        BY <1>8, <4>1 DEF Mine, Polling
      <4> QED BY <1>8, <3>2, <3>3, <4>1, <4>2 DEF Timers
    <3>5. Asked(m) /\ Drafted(m)
      BY <2>4, <3>3 DEF Rec, Asked, Drafted, Same
    <3> QED BY <1>1, <1>2, <2>3, <2>4, <3>3, <3>4, <3>5 DEF Rec, m
  <2> QED BY <2>5, <2>6
<1>9. CASE r.page = "logs"
  <2>1. m = LogsView(b, r.id)
    BY <1>9, MountedBase DEF b, m
  <2>2. <<"ifaces", r.page>> \in Asks /\ <<"logs", r.page>> \in Asks
    BY <1>9 DEF Asks
  <2>3. CASE ~b.ifaces
    <3>1. m = Sent(b, Own("ifaces", r.id))
      BY <2>1, <2>3 DEF LogsView, Ask, Sent, Own
    <3> QED BY <1>1, <1>2, <2>2, <3>1, FreshSent, OwnType DEF m
  <2>4. CASE b.ifaces /\ r.id \notin {None, b.selected}
    <3> DEFINE e == [b EXCEPT !.selected = r.id, !.logs = None]
    <3>1. m = Sent(e, Own("logs", r.id))
      BY <2>1, <2>4 DEF LogsView, Ask, Sent, Own
    <3>2. /\ e \in StateSet /\ e.view = b.view /\ e.handle = b.handle
          /\ e.ticking = b.ticking /\ e.calls = b.calls /\ e.editing = b.editing
      BY <1>2 DEF StateSet
    <3> HIDE DEF e
    <3>3. Rec(e)
      BY <1>1, <3>2, EditRec
    <3> QED BY <1>1, <1>2, <2>2, <3>1, <3>2, <3>3, FreshSent, OwnType DEF m
  <2>5. CASE b.ifaces /\ r.id \in {None, b.selected}
    <3> DEFINE v == [b.view EXCEPT !.loaded = TRUE]
    <3>1. m = [b EXCEPT !.view = v]
      BY <2>1, <2>5 DEF LogsView
    <3>2. v \in ViewSet /\ v.at = r /\ ~v.typed
      <4>1. b.view \in ViewSet /\ b.view.at = r /\ ~b.view.typed
        BY <1>1, <1>2, Fields DEF Unseen
      <4> QED BY <4>1, Shown
    <3> HIDE DEF v
    <3>3. /\ m \in StateSet /\ m.handle = b.handle /\ m.ticking = b.ticking
          /\ m.calls = b.calls /\ m.editing = b.editing /\ m.view = v
      BY <1>2, <3>1, <3>2 DEF StateSet
    <3>4. Timers(m) /\ Asked(m)
      <4>1. b.view.at = r /\ m.view.at = r
        BY <1>1, <3>2, <3>3 DEF Unseen
      <4>2. Timers(m)
        BY <1>1, <3>3, <4>1 DEF Rec, Timers, Mine
      <4>3. Asked(m)
        BY <1>1, <3>3 DEF Asked, Fits
      <4> QED BY <4>2, <4>3
    <3>5. Drafted(m)
      BY <1>9, <3>2, <3>3 DEF Drafted, OnDetail
    <3> QED BY <1>1, <3>2, <3>3, <3>4, <3>5 DEF Rec, m
  <2> QED BY <2>3, <2>4, <2>5
<1> QED BY <1>2, <1>4, <1>5, <1>6, <1>7, <1>8, <1>9 DEF Pages

-----------------------------------------------------------------------------
(***************************************************************************)
(* The way back to the page the user was on: as long as want is set the    *)
(* tab waits for a sign in, and the path is in its storage or on its way   *)
(* through the provider.                                                   *)
(***************************************************************************)
Way == /\ session => ~fresh
       /\ (ways \/ screen \in {"idp", "app"}) => ~fresh
       /\ want # None =>
             /\ ~session /\ ~fresh /\ screen \in {"load", "login", "idp"} /\ path = want
             /\ want # Home => /\ screen = "login" => saved = want
                               /\ screen = "idp" => bound = want

\* In the program itself nothing is wanted, and its steps change nothing of Way
\* but the path.
LEMMA AppWay ==
    ASSUME Way, screen = "app", UNCHANGED <<server, entry, want>>
    PROVE  Way'
BY DEF Way, server, entry

\* Loading a page without a session is a step on the way.
LEMMA LoadWay ==
    ASSUME Way, NEW p, Load(p), want' = None, session' => ~fresh'
    PROVE  Way'
BY DEF Way, Load, Blank

LEMMA InitWay == Init => Way
BY DEF Init, Way

LEMMA StepWay ==
    ASSUME Way, [Next]_vars
    PROVE  Way'
<1>1. ASSUME NEW ok \in BOOLEAN, Start(ok) PROVE Way'
  BY <1>1 DEF Way, Start, SavePath, server
<1>2. ASSUME NEW ok \in BOOLEAN, FromProvider(ok) PROVE Way'
  <2>1. session' => ~fresh'
    BY <1>2 DEF FromProvider, Way
  <2>2. PICK p : Load(p)
    BY <1>2 DEF FromProvider
  <2> QED BY <1>2, <2>1, <2>2, LoadWay DEF FromProvider
<1>3. ASSUME NEW p \in Paths, Open(p) PROVE Way'
  <2>1. screen = "app" => want = None
    BY DEF Way
  <2> QED BY <1>3, <2>1 DEF Open, Load, Blank, Way, server
<1>4. ASSUME Act PROVE Way'
  BY <1>4, AppWay DEF Act
<1>5. ASSUME NEW p \in Paths, Go(p) \/ PopState(p) PROVE Way'
  BY <1>4, <1>5 DEF Go, PopState
<1>6. CASE Setup
  <2>1. want' = None /\ (session' => ~fresh')
    BY <1>6 DEF Setup, Way
  <2> QED BY <1>6, <2>1, LoadWay DEF Setup
<1>7. CASE Login
  <2>1. want' = None /\ (session' => ~fresh')
    BY <1>7 DEF Login, Way
  <2>2. PICK p : Load(p)
    BY <1>7 DEF Login
  <2> QED BY <2>1, <2>2, LoadWay
<1>8. CASE ToProvider
  BY <1>8 DEF ToProvider, Way, server
<1>9. CASE Expire
  BY <1>9 DEF Expire, Way, browser, entry
<1>10. CASE Mount
  BY <1>10, AppWay DEF Mount
<1>11. CASE Toggle \/ SaveForm \/ Visible
  BY <1>4, <1>11 DEF Toggle, SaveForm, Visible
<1>12. CASE Type
  BY <1>12, AppWay DEF Type
<1>13. ASSUME NEW i \in IfaceSet, Select(i) PROVE Way'
  BY <1>4, <1>13 DEF Select
<1>14. ASSUME NEW k, Press(k) PROVE Way'
  BY <1>4, <1>14 DEF Press
<1>15. ASSUME NEW x, Tick(x) PROVE Way'
  BY <1>15, AppWay DEF Tick
<1>16. ASSUME NEW c, Denied(c) PROVE Way'
  BY <1>16 DEF Denied, Arrives, Way, Load, Blank, server
<1>17. ASSUME NEW c, NEW ok \in BOOLEAN, SignedOut(c, ok) PROVE Way'
  <2>1. want' = None /\ (session' => ~fresh')
    BY <1>17 DEF SignedOut, Arrives, Way
  <2> QED BY <1>17, <2>1, LoadWay DEF SignedOut
<1>18. ASSUME NEW c, Answer(c) PROVE Way'
  BY <1>18, AppWay DEF Answer, Arrives
<1>19. ASSUME NEW c, Fail(c) PROVE Way'
  BY <1>19, AppWay DEF Fail, Arrives
<1>20. CASE UNCHANGED vars
  BY <1>20 DEF vars, server, browser, entry, Way
<1> QED
  BY <1>1, <1>2, <1>3, <1>5, <1>6, <1>7, <1>8, <1>9, <1>10, <1>11, <1>12, <1>13, <1>14,
     <1>15, <1>16, <1>17, <1>18, <1>19, <1>20 DEF Next, Ticks, Answers

(***************************************************************************)
(* Whoever signs in after the session was found lost is back on the page   *)
(* they were on (doLogin, handleOIDCCallback and saveRedirectPath).        *)
(***************************************************************************)
THEOREM RedirectKeptCorrect == Spec => RedirectKept
<1>1. ASSUME Way, [Next]_vars
      PROVE  (~session /\ session' /\ want \notin {None, Home}) => path' = want
  <2> SUFFICES ASSUME ~session, session', want \notin {None, Home} PROVE path' = want
    OBVIOUS
  <2>1. screen \notin {"setup", "app"}
    BY <1>1 DEF Way
  <2>2. CASE Login
    BY <1>1, <2>2 DEF Login, Load, Way
  <2>3. ASSUME NEW ok \in BOOLEAN, FromProvider(ok) PROVE path' = want
    BY <1>1, <2>3 DEF FromProvider, Load, Way
  <2>4. CASE Act
    BY <2>4 DEF Act, server
  <2>5. ASSUME NEW c, Arrives(c) PROVE FALSE
    BY <2>1, <2>5 DEF Arrives
  <2>6. \A p : ~Go(p) /\ ~PopState(p)
    BY <2>4, <2>1 DEF Go, PopState, Act
  <2>7. ~Toggle /\ ~SaveForm /\ ~Visible /\ \A k : ~Press(k) /\ ~Select(k)
    BY <2>1 DEF Toggle, SaveForm, Visible, Press, Select, Act
  <2>8. /\ \A ok : ~Start(ok)
        /\ \A p : ~Open(p)
        /\ ~Setup /\ ~ToProvider /\ ~Expire /\ ~Mount /\ ~Type
        /\ \A x : ~Tick(x)
    BY <2>1 DEF Start, Open, Setup, ToProvider, Expire, Mount, Type, Tick, server
  <2>9. \A c : ~Denied(c) /\ ~Answer(c) /\ ~Fail(c) /\ \A ok : ~SignedOut(c, ok)
    BY <2>5 DEF Denied, Answer, Fail, SignedOut
  <2>10. ~UNCHANGED vars
    BY DEF vars, server
  <2> QED BY <1>1, <2>2, <2>3, <2>6, <2>7, <2>8, <2>9, <2>10 DEF Next, Ticks, Answers
<1>2. Way /\ [Next]_vars => [(~session /\ session' /\ want \notin {None, Home})
                                 => path' = want]_vars
  BY <1>1
<1> QED BY <1>2, InitWay, StepWay, PTL DEF Spec, RedirectKept

-----------------------------------------------------------------------------
(***************************************************************************)
(* The inductive invariant of a tab.  A mount that waits, and a delete     *)
(* that leads to one, stem from something the user did.  What is typed on  *)
(* an interface's page is in an open form unless the page is being left.   *)
(***************************************************************************)
Held(s, n) == (n = 0 /\ s.view.typed /\ OnDetail(s.view)) => "detail" \in s.editing

Tab == /\ Rec(State)
       /\ route \in Path /\ route.page # "new"
       /\ pending \in Nat /\ acts \in Nat /\ pending + Deletes(calls) <= acts + 1
       /\ Held(State, pending)

LEMMA PathFacts ==
    /\ Home \in Path /\ List \in Path /\ Paths \subseteq Path /\ Entries \subseteq Path
    /\ None \notin Path
    /\ \A i \in IfaceSet : LogsOf(i) \in Path
    /\ \A p \in Path : RouteOf(p) \in Path /\ RouteOf(p).page # "new"
    /\ Ifaces[1] \in IfaceSet
BY WebAssumption DEF Path, Pages, Home, List, LogsOf, RouteOf, IfaceSet

LEMMA EmptyCalls == EmptyBag \in CallBag /\ \A c : Copies(EmptyBag, c) = 0
<1>1. EmptyBag = SetToBag({})
  BY DEF EmptyBag
<1>2. EmptyBag \in [{} -> Nat \ {0}]
  BY <1>1 DEF SetToBag
<1> QED BY <1>2 DEF CallBag, Copies, BagToSet

LEMMA PutState ==
    ASSUME NEW s \in StateSet, Put(s)
    PROVE  State' = s
BY DEF Put, State, StateSet

LEMMA PutTab ==
    ASSUME NEW s, Rec(s), Put(s), NEW r \in Path, r.page # "new", route' = r,
           NEW n \in Nat, pending' = n, NEW a \in Nat, acts' = a,
           n + Deletes(s.calls) <= a + 1, Held(s, n)
    PROVE  Tab'
<1>1. s \in StateSet
  BY DEF Rec
<1>2. State' = s /\ calls' = s.calls
  BY <1>1, PutState DEF Put
<1> QED BY <1>2 DEF Tab

LEMMA DeletesType ==
    ASSUME NEW s \in StateSet
    PROVE  Deletes(s.calls) \in Nat
BY Fields, CopiesType DEF Deletes

\* Refresh: the view is mounted anew.
LEMMA RefreshTab ==
    ASSUME Tab, NEW s \in StateSet, Timers(s), Refresh(s), NEW a \in Nat, acts' = a,
           pending + Deletes(s.calls) <= a + 1
    PROVE  Tab'
<1> DEFINE m == Mounted(s, route)
<1>1. Rec(m) /\ ~m.view.typed /\ Deletes(m.calls) = Deletes(s.calls)
  BY MountedRec DEF Tab
<1>2. Put(m) /\ route' = route /\ pending' = pending
  BY DEF Refresh
<1>3. Held(m, pending)
  BY <1>1 DEF Held
<1> HIDE DEF m
<1> QED BY <1>1, <1>2, <1>3, PutTab DEF Tab

\* The record of an address that is set.
LEMMA PathRec ==
    ASSUME NEW s \in StateSet, NEW p \in Path, NEW t, t = [s EXCEPT !.path = p]
    PROVE  /\ t \in StateSet /\ t.view = s.view /\ t.calls = s.calls /\ t.editing = s.editing
           /\ t.handle = s.handle /\ t.ticking = s.ticking
BY DEF StateSet

LEMMA SetRouteTab ==
    ASSUME Tab, NEW s, Rec(s), NEW p \in Path, SetRoute(s, RouteOf(p)), NEW a \in Nat, acts' = a,
           pending + 1 + Deletes(s.calls) <= a + 1, Held(s, pending) \/ RouteOf(p) # route
    PROVE  Tab'
<1> DEFINE r == RouteOf(p)
           n == IF r = route THEN pending ELSE pending + 1
<1>1. r \in Path /\ r.page # "new"
  BY PathFacts
<1>2. s \in StateSet /\ Deletes(s.calls) \in Nat /\ pending \in Nat
  BY DeletesType DEF Rec, Tab
<1>3. route' = r /\ pending' = n /\ Put(s)
  BY DEF SetRoute
<1>4. n \in Nat /\ n + Deletes(s.calls) <= a + 1
  BY <1>2
<1>5. Held(s, n)
  <2>1. CASE r = route
    BY <2>1
  <2>2. CASE r # route
    BY <1>2, <2>2 DEF Held
  <2> QED BY <2>1, <2>2
<1> HIDE DEF r, n
<1> QED BY <1>1, <1>3, <1>4, <1>5, PutTab

LEMMA NavigateTab ==
    ASSUME Tab, NEW s, Rec(s), NEW p \in Path, Navigate(s, p), NEW a \in Nat, acts' = a,
           pending + 1 + Deletes(s.calls) <= a + 1
    PROVE  Tab'
<1> DEFINE t == [s EXCEPT !.path = p]
<1>1. s \in StateSet /\ Timers(s) /\ Deletes(s.calls) \in Nat /\ pending \in Nat
  BY DeletesType DEF Rec, Tab
<1>2. /\ t \in StateSet /\ t.view = s.view /\ t.calls = s.calls /\ t.editing = s.editing
      /\ t.handle = s.handle /\ t.ticking = s.ticking
  BY <1>1, PathRec
<1>3. IF RouteOf(p) = route THEN Refresh(t) ELSE SetRoute(t, RouteOf(p))
  BY DEF Navigate
<1> HIDE DEF t
<1>4. Rec(t)
  BY <1>2, EditRec
<1>5. CASE RouteOf(p) = route
  BY <1>1, <1>2, <1>3, <1>4, <1>5, RefreshTab DEF Rec
<1>6. CASE RouteOf(p) # route
  BY <1>1, <1>2, <1>3, <1>4, <1>6, SetRouteTab
<1> QED BY <1>5, <1>6

\* The package variables of a program that starts at p.
Started(p, cel) ==
    [path |-> p, view |-> NoView, handle |-> {}, ticking |-> {}, dash |-> FALSE,
     ifaces |-> FALSE, selected |-> None, logs |-> None, current |-> None,
     editing |-> {}, calls |-> EmptyBag, celebrated |-> cel]

LEMMA StartedRec ==
    ASSUME NEW p \in Path, NEW cel \in SUBSET IfaceSet
    PROVE  LET s == Started(p, cel)
           IN /\ Rec(s) /\ Deletes(s.calls) = 0 /\ \A n : Held(s, n)
<1> DEFINE s == Started(p, cel)
<1>1. s \in StateSet
  BY EmptyCalls DEF Started, StateSet, NoView, ViewSet
<1>2. Deletes(s.calls) = 0
  BY EmptyCalls DEF Started, Deletes
<1>3. Rec(s)
  BY <1>1 DEF Started, Rec, Timers, Asked, Drafted, Mine, OnDetail, NoView, BagToSet,
     EmptyBag, SetToBag
<1>4. \A n : Held(s, n)
  BY DEF Held, Started, NoView
<1> QED BY <1>2, <1>3, <1>4

LEMMA InitTab == Init => Tab
<1> SUFFICES ASSUME Init PROVE Tab
  OBVIOUS
<1>1. path \in Path /\ route \in Path /\ route.page # "new" /\ pending = 0 /\ acts = 0
  BY PathFacts DEF Init
<1>2. State = Started(path, {}) /\ calls = State.calls
  BY DEF Init, State, Started
<1>3. Rec(State) /\ Deletes(calls) = 0 /\ Held(State, pending)
  BY <1>1, <1>2, StartedRec
<1> QED BY <1>1, <1>3 DEF Tab

LEMMA LoadTab ==
    ASSUME Tab, NEW p \in Path, Load(p), UNCHANGED celebrated, NEW a \in Nat, acts' = a
    PROVE  Tab'
<1> DEFINE s == Started(p, celebrated)
<1>1. RouteOf(p) \in Path /\ RouteOf(p).page # "new"
  BY PathFacts
<1>2. celebrated \in SUBSET IfaceSet
  BY Fields DEF Tab, Rec, State
<1>3. Put(s) /\ route' = RouteOf(p) /\ pending' = 0
  BY DEF Put, Load, Blank, Started
<1>4. Rec(s) /\ Deletes(s.calls) = 0 /\ Held(s, 0)
  BY <1>2, StartedRec
<1> HIDE DEF s
<1> QED BY <1>1, <1>3, <1>4, PutTab

\* An answer has come.
LEMMA LessRec ==
    ASSUME Rec(State), NEW c \in BagToSet(calls), NEW s, s = Less(c)
    PROVE  /\ Rec(s) /\ s.view = view /\ s.editing = editing /\ s.path = path
           /\ s.celebrated = celebrated /\ s.handle = handle /\ s.ticking = ticking
           /\ c \in RightCall /\ Fits(view, c)
           /\ BagToSet(s.calls) \subseteq BagToSet(calls)
           /\ \A d : Copies(s.calls, d) = Copies(calls, d) - IF d = c THEN 1 ELSE 0
           /\ \A d : Copies(calls, d) \in Nat
           /\ Deletes(s.calls) = Deletes(calls) - IF c.kind = "delete" THEN 1 ELSE 0
           /\ Deletes(calls) \in Nat
<1> DEFINE b == calls (-) SetToBag({c})
<1>1. State \in StateSet /\ calls \in CallBag /\ State.calls = calls /\ State.view = view
  BY Fields DEF Rec, State
<1>2. /\ b \in CallBag /\ BagToSet(b) \subseteq BagToSet(calls)
      /\ \A d : Copies(b, d) = Copies(calls, d) - IF d = c THEN 1 ELSE 0
  BY <1>1, LessCalls
<1>3. s = [State EXCEPT !.calls = b]
  BY DEF Less, State
<1>4. \A d : Copies(calls, d) \in Nat
  BY <1>1, CopiesType
<1> HIDE DEF b
<1>5. /\ s \in StateSet /\ s.view = view /\ s.editing = editing /\ s.path = path
      /\ s.celebrated = celebrated /\ s.handle = handle /\ s.ticking = ticking
      /\ s.calls = b
  BY <1>1, <1>2, <1>3 DEF StateSet, State
<1>6. Timers(s)
  BY <1>5 DEF Rec, Timers, State
<1>7. Asked(s) /\ Fits(view, c)
  BY <1>1, <1>2, <1>5 DEF Rec, Asked
<1>8. Drafted(s)
  <2>1. \A d : Copies(b, d) <= Copies(calls, d)
    BY <1>2, <1>4
  <2>2. \A d : Copies(b, d) \in Nat
    BY <1>2, CopiesType
  <2>3. Drafted(State)
    BY DEF Rec
  <2>4. State.editing = editing
    BY DEF State
  <2> QED BY <1>1, <1>4, <1>5, <2>1, <2>2, <2>3, <2>4 DEF Drafted
<1>9. c \in RightCall
  BY <1>1 DEF CallBag, BagToSet
<1>10. Deletes(b) = Deletes(calls) - IF c.kind = "delete" THEN 1 ELSE 0
  <2>1. CASE c.kind = "delete"
    <3>1. c \in Call /\ c.id = None
      BY <1>9, <2>1 DEF RightCall
    <3>2. Own("delete", None) # Late("delete", None)
          /\ (c = Own("delete", None) \/ c = Late("delete", None))
      BY <2>1, <3>1 DEF Own, Late, Call
    <3> QED BY <1>2, <1>4, <2>1, <3>2 DEF Deletes
  <2>2. CASE c.kind # "delete"
    <3>1. c # Own("delete", None) /\ c # Late("delete", None)
      BY <2>2 DEF Own, Late
    <3> QED BY <1>2, <1>4, <2>2, <3>1 DEF Deletes
  <2> QED BY <2>1, <2>2
<1>11. Deletes(calls) \in Nat
  BY <1>4 DEF Deletes
<1> QED BY <1>2, <1>4, <1>5, <1>6, <1>7, <1>8, <1>9, <1>10, <1>11 DEF Rec

\* The rest of the state.  A program that has not started has no requests.
Types == /\ {session, fresh, ways} \subseteq BOOLEAN
         /\ {saved, bound, want} \subseteq Path \cup {None}
         /\ screen \in {"load", "setup", "login", "idp", "app"}
         /\ screen = "load" => calls = EmptyBag /\ view = NoView
         /\ acts \in 0..MaxActs /\ fails \in 0..MaxFails /\ expiries \in 0..MaxExpiries

LEMMA TabFacts ==
    ASSUME Tab
    PROVE  /\ State \in StateSet /\ Rec(State) /\ Timers(State)
           /\ State.path = path /\ State.view = view /\ State.editing = editing
           /\ State.calls = calls /\ State.handle = handle /\ State.ticking = ticking
           /\ State.celebrated = celebrated
           /\ path \in Path /\ view \in ViewSet /\ editing \subseteq Forms
           /\ celebrated \subseteq IfaceSet /\ calls \in CallBag
           /\ selected \in IfaceSet \cup {None}
           /\ pending \in Nat /\ acts \in Nat /\ acts + 1 \in Nat /\ Deletes(calls) \in Nat
           /\ pending + Deletes(calls) <= acts + 1
<1>1. State \in StateSet /\ Rec(State) /\ Timers(State)
  BY DEF Tab, Rec
<1>2. /\ State.path = path /\ State.view = view /\ State.editing = editing
      /\ State.calls = calls /\ State.handle = handle /\ State.ticking = ticking
      /\ State.celebrated = celebrated /\ State.selected = selected
  BY DEF State
<1>3. Deletes(calls) \in Nat
  BY <1>1, <1>2, DeletesType
<1>4. /\ path \in Path /\ view \in ViewSet /\ editing \subseteq Forms
      /\ celebrated \subseteq IfaceSet /\ calls \in CallBag
      /\ selected \in IfaceSet \cup {None}
  BY <1>1, <1>2, Fields
<1> QED BY <1>1, <1>2, <1>3, <1>4 DEF Tab

\* Nothing of the program changes.
LEMMA KeepTab ==
    ASSUME Tab, UNCHANGED <<path, celebrated, pkg, acts>>
    PROVE  Tab'
<1>1. Put(State) /\ route' = route /\ pending' = pending /\ acts' = acts
  BY DEF Put, State, pkg
<1> QED BY <1>1, TabFacts, PutTab DEF Tab

LEMMA StartTab ==
    ASSUME Tab, Types, NEW ok \in BOOLEAN, Start(ok)
    PROVE  Tab'
<1>1. Deletes(calls) = 0 /\ \A n : Held(State, n)
  BY EmptyCalls DEF Start, Types, NoView, Deletes, Held, State
<1>2. Put(State) /\ route' = route /\ acts' = acts /\ (pending' = 0 \/ pending' = 1)
  BY DEF Start, Put, State
<1>3. pending' \in Nat /\ pending' + Deletes(State.calls) <= acts + 1
  BY <1>1, <1>2, TabFacts
<1> QED BY <1>1, <1>2, <1>3, TabFacts, PutTab DEF Tab

LEMMA OpenTab ==
    ASSUME Tab, Types,
           \/ \E p \in Paths : Open(p)
           \/ Setup \/ Login
           \/ \E ok \in BOOLEAN : FromProvider(ok)
           \/ \E c : Denied(c) \/ \E ok \in BOOLEAN : SignedOut(c, ok)
    PROVE  Tab'
<1>1. path \in Path /\ Home \in Path /\ Paths \subseteq Path /\ acts \in Nat /\ acts + 1 \in Nat
      /\ {saved, bound} \subseteq Path \cup {None}
  BY TabFacts, PathFacts DEF Types
<1>2. CASE \E p \in Paths : Open(p)
  BY <1>1, <1>2, LoadTab DEF Open
<1>3. CASE Setup
  BY <1>1, <1>3, LoadTab DEF Setup, bounds
<1>4. CASE Login
  BY <1>1, <1>4, LoadTab DEF Login, bounds
<1>5. CASE \E ok \in BOOLEAN : FromProvider(ok)
  <2>1. PICK ok \in BOOLEAN : FromProvider(ok)
    BY <1>5
  <2>2. (IF ok /\ bound # None THEN bound ELSE Home) \in Path
    BY <1>1
  <2> QED BY <1>1, <2>1, <2>2, LoadTab DEF FromProvider
<1>6. CASE \E c : Denied(c)
  BY <1>1, <1>6, LoadTab DEF Denied, bounds
<1>7. CASE \E c : \E ok \in BOOLEAN : SignedOut(c, ok)
  BY <1>1, <1>7, LoadTab DEF SignedOut
<1> QED BY <1>2, <1>3, <1>4, <1>5, <1>6, <1>7

LEMMA GoTab ==
    ASSUME Tab, NEW p \in Paths, Go(p)
    PROVE  Tab'
<1>1. acts' = acts + 1 /\ p \in Path
  BY PathFacts DEF Go, Act
<1>2. pending + 1 + Deletes(calls) <= acts + 1 + 1
  BY TabFacts
<1>3. CASE Navigate(State, p)
  BY <1>1, <1>2, <1>3, TabFacts, NavigateTab
<1>4. CASE Navigate([State EXCEPT !.editing = @ \ {"detail"}], p)
  <2> DEFINE t == [State EXCEPT !.editing = @ \ {"detail"}]
  <2>1. /\ t \in StateSet /\ t.view = State.view /\ t.handle = State.handle
        /\ t.ticking = State.ticking /\ t.calls = State.calls /\ "detail" \notin t.editing
    BY TabFacts DEF StateSet
  <2>2. Rec(t)
    BY <2>1, TabFacts, EditRec
  <2> QED BY <1>1, <1>2, <1>4, <2>1, <2>2, TabFacts, NavigateTab
<1> QED BY <1>3, <1>4 DEF Go

LEMMA PopStateTab ==
    ASSUME Tab, NEW p \in Paths, PopState(p)
    PROVE  Tab'
<1> DEFINE t == [State EXCEPT !.path = p]
<1>1. acts' = acts + 1 /\ p \in Path /\ SetRoute(t, RouteOf(p))
  BY PathFacts DEF PopState, Act
<1>2. pending + 1 + Deletes(calls) <= acts + 1 + 1
  BY TabFacts
<1>3. /\ t \in StateSet /\ t.view = State.view /\ t.calls = State.calls
      /\ t.editing = State.editing /\ t.handle = State.handle /\ t.ticking = State.ticking
  BY <1>1, TabFacts, PathRec
<1> HIDE DEF t
<1>4. Rec(t)
  BY <1>3, TabFacts, EditRec
<1>5. Held(t, pending)
  BY <1>3 DEF Tab, Held
<1> QED BY <1>1, <1>2, <1>3, <1>4, <1>5, TabFacts, SetRouteTab

LEMMA ToggleTab ==
    ASSUME Tab, Toggle
    PROVE  Tab'
<1> DEFINE page == view.at.page
<1>1. PICK e \in SUBSET {page} :
        Refresh([State EXCEPT !.editing = (@ \ {page}) \cup e,
                              !.path = IF page = "interfaces" THEN List ELSE @])
  BY DEF Toggle
<1>2. page \in Forms /\ acts' = acts + 1
  BY DEF Toggle, On, Act
<1> DEFINE q == IF page = "interfaces" THEN List ELSE path
           f == (editing \ {page}) \cup e
           t == [State EXCEPT !.editing = f, !.path = q]
<1>3. Refresh(t)
  BY <1>1, TabFacts
<1>4. q \in Path /\ f \subseteq Forms
  BY <1>2, TabFacts, PathFacts
<1> HIDE DEF page, q, f
<1>5. /\ t \in StateSet /\ t.view = State.view /\ t.calls = State.calls
      /\ t.handle = State.handle /\ t.ticking = State.ticking
  BY <1>4, TabFacts DEF StateSet
<1> HIDE DEF t
<1>6. Timers(t)
  BY <1>5, TabFacts DEF Timers
<1>7. pending + Deletes(t.calls) <= (acts + 1) + 1
  BY <1>5, TabFacts
<1> QED BY <1>2, <1>3, <1>5, <1>6, <1>7, TabFacts, RefreshTab

LEMMA TypeTab ==
    ASSUME Tab, Type
    PROVE  Tab'
<1> DEFINE v == [view EXCEPT !.typed = TRUE]
           t == [State EXCEPT !.view = v]
<1>1. /\ v \in ViewSet /\ v.at = view.at /\ v.loaded = view.loaded
  BY TabFacts DEF ViewSet
<1>2. /\ view.at # None /\ view.at.page \in Forms /\ view.at.page \in editing
      /\ view.loaded \/ view.at.page = "users"
  BY DEF Type, Showing, On
<1>3. view' = v /\ UNCHANGED <<path, celebrated, route, pending, handle, ticking, dash, ifaces,
                               selected, logs, current, editing, calls, acts>>
  BY DEF Type, browser, bounds
<1> HIDE DEF v
<1>4. /\ t \in StateSet /\ t.view = v /\ t.calls = calls /\ t.handle = handle
      /\ t.ticking = ticking /\ t.editing = editing
  BY <1>1, TabFacts DEF StateSet
<1>5. Put(t)
  BY <1>3 DEF Put, State
<1> HIDE DEF t
<1>6. Timers(t)
  BY <1>1, <1>4, TabFacts DEF Timers, Mine
<1>7. Asked(t)
  BY <1>1, <1>4, TabFacts DEF Rec, Asked, Fits
<1>8. Drafted(t)
  <2>1. Drafted(State)
    BY TabFacts DEF Rec
  <2>2. (OnDetail(t.view) /\ "detail" \in t.editing) =>
            Copies(t.calls, Status(t.view.at.id)) <= IF t.view.loaded THEN 0 ELSE 1
    BY <1>1, <1>4, <2>1, TabFacts DEF Drafted, OnDetail
  <2>3. /\ t.view.at # None /\ t.view.at.page \in Forms
        /\ t.view.at.page = "detail" => t.view.loaded
    BY <1>1, <1>2, <1>4
  <2> QED BY <2>2, <2>3 DEF Drafted
<1>9. Held(t, pending)
  BY <1>1, <1>2, <1>4 DEF Held, OnDetail
<1> QED BY <1>3, <1>4, <1>5, <1>6, <1>7, <1>8, <1>9, TabFacts, PutTab DEF Rec, Tab

LEMMA SelectTab ==
    ASSUME Tab, NEW i \in IfaceSet, Select(i)
    PROVE  Tab'
<1> DEFINE t == [State EXCEPT !.selected = i, !.logs = None, !.path = LogsOf(i)]
<1>1. Refresh(t) /\ acts' = acts + 1
  BY DEF Select, Act
<1>2. /\ t \in StateSet /\ t.view = State.view /\ t.calls = State.calls
      /\ t.handle = State.handle /\ t.ticking = State.ticking
  BY TabFacts, PathFacts DEF StateSet
<1> HIDE DEF t
<1>3. Timers(t)
  BY <1>2, TabFacts DEF Timers
<1>4. pending + Deletes(t.calls) <= (acts + 1) + 1
  BY <1>2, TabFacts
<1> QED BY <1>1, <1>2, <1>3, <1>4, TabFacts, RefreshTab

\* A request leaves that no view waits for.
LEMMA AskTab ==
    ASSUME Tab, NEW s, Rec(s), s.view = view, s.editing = editing,
           NEW c \in RightCall, Fits(view, c), Timely(s, c),
           Put(Sent(s, c)), UNCHANGED <<route, pending>>, NEW a \in Nat, acts' = a,
           pending + Deletes(s.calls) + (IF c.kind = "delete" THEN 1 ELSE 0) <= a + 1
    PROVE  Tab'
<1> DEFINE t == Sent(s, c)
<1>1. /\ Rec(t) /\ t.view = view /\ t.editing = editing
      /\ Deletes(t.calls) = Deletes(s.calls) + IF c.kind = "delete" THEN 1 ELSE 0
      /\ Deletes(s.calls) \in Nat
  BY SentRec
<1> HIDE DEF t
<1>2. pending + Deletes(t.calls) <= a + 1
  BY <1>1, TabFacts
<1>3. Held(t, pending)
  BY <1>1, TabFacts DEF Held, Tab
<1> QED BY <1>1, <1>2, <1>3, TabFacts, PutTab DEF Tab, t

\* A button.
LEMMA PressTab ==
    ASSUME Tab, NEW kind \in {"act", "clear", "delete", "logout", "save", "alive"},
           NEW id, IF kind \in {"clear", "save"} THEN id \in Forms ELSE id = None,
           Put(Ask(State, kind, id, TRUE)), UNCHANGED <<route, pending>>, acts' = acts + 1
    PROVE  Tab'
<1> DEFINE c == Own(kind, id)
<1>1. c \in RightCall /\ c.kind = kind
  BY DEF Own, RightCall, Call, Kinds
<1>2. Fits(view, c)
  BY <1>1 DEF Fits, Background
<1>3. Timely(State, c)
  BY <1>1 DEF Timely
<1>4. Put(Sent(State, c))
  BY DEF Ask, Sent, Own
<1> HIDE DEF c
<1>5. pending + Deletes(State.calls) + (IF c.kind = "delete" THEN 1 ELSE 0) <= (acts + 1) + 1
  BY TabFacts
<1> QED BY <1>1, <1>2, <1>3, <1>4, <1>5, TabFacts, AskTab

LEMMA PressesTab ==
    ASSUME Tab,
           \/ \E k \in {"act", "clear", "delete", "logout"} : Press(k)
           \/ SaveForm \/ Visible
    PROVE  Tab'
<1>1. ASSUME NEW k \in {"act", "clear", "delete", "logout"}, Press(k) PROVE Tab'
  <2> DEFINE id == IF k = "clear" THEN view.at.page ELSE None
  <2>1. Put(Ask(State, k, id, TRUE)) /\ UNCHANGED <<route, pending>> /\ acts' = acts + 1
    BY <1>1 DEF Press, Act
  <2>2. IF k \in {"clear", "save"} THEN id \in Forms ELSE id = None
    BY <1>1 DEF Press, On, Forms
  <2> HIDE DEF id
  <2> QED BY <2>1, <2>2, PressTab
<1>2. CASE SaveForm
  <2> DEFINE id == view.at.page
  <2>1. Put(Ask(State, "save", id, TRUE)) /\ UNCHANGED <<route, pending>> /\ acts' = acts + 1
    BY <1>2 DEF SaveForm, Act
  <2>2. id \in Forms
    BY <1>2 DEF SaveForm, Showing, On
  <2> HIDE DEF id
  <2> QED BY <2>1, <2>2, PressTab
<1>3. CASE Visible
  BY <1>3, PressTab DEF Visible, Act
<1> QED BY <1>1, <1>2, <1>3

\* An interval that runs is the one of the mounted view.
LEMMA TickTab ==
    ASSUME Tab, NEW x, Tick(x)
    PROVE  Tab'
<1>1. /\ x.own /\ x.page \in Polling /\ view.at # None /\ view.at.page = x.page /\ x \in ticking
  <2>1. PICK p \in handle : x = [page |-> p, own |-> TRUE]
    BY TabFacts DEF Tick, Timers
  <2>2. handle \subseteq Mine(view)
    BY TabFacts DEF Timers
  <2>3. x.page = p /\ x.own
    BY <2>1
  <2> QED BY <2>1, <2>2, <2>3 DEF Mine, Tick
<1>2. view.at \in Path
  BY <1>1, TabFacts DEF ViewSet
<1> DEFINE kind == CASE x.page = "dashboard" -> "dash" [] x.page = "logs" -> "logs"
                     [] x.page = "detail" -> "status" [] x.page = "config" -> "check"
           id == CASE x.page = "logs" -> PolledLogs [] x.page = "dashboard" -> None
                   [] OTHER -> view.at.id
           c == Own(kind, id)
<1>3. id \in IfaceSet \cup {None} /\ (x.page = "dashboard" => id = None)
      /\ (x.page \in {"detail", "config"} => id = view.at.id)
  BY <1>2, TabFacts DEF PolledLogs, Path
<1>4. /\ x.page = "dashboard" => kind = "dash"
      /\ x.page = "logs" => kind = "logs"
      /\ x.page = "detail" => kind = "status"
      /\ x.page = "config" => kind = "check"
  OBVIOUS
<1>5. Put(Sent(State, c)) /\ UNCHANGED <<route, pending>> /\ acts' = acts /\ Polls(x.page)
  <2>1. Put(Ask(State, kind, id, x.own))
    BY DEF Tick
  <2>2. Ask(State, kind, id, x.own) = Sent(State, c)
    <3>1. [kind |-> kind, id |-> id, own |-> x.own] = c
      <4>1. x.own = TRUE
        <5>1. x \in [page: Polling, own: BOOLEAN]
          BY <1>1, TabFacts, Fields
        <5> QED BY <1>1, <5>1
      <4> QED BY <4>1 DEF Own
    <3> HIDE DEF c, kind, id
    <3> QED BY <3>1 DEF Ask, Sent
  <2> QED BY <2>1, <2>2 DEF Tick, bounds
<1> HIDE DEF kind, id
<1>6. c \in RightCall /\ c.kind = kind /\ c.id = id /\ kind # "delete"
  BY <1>1, <1>3, <1>4 DEF Own, RightCall, Call, Kinds, Polling
<1> HIDE DEF c
<1>7. Fits(view, c)
  BY <1>1, <1>3, <1>4, <1>6 DEF Fits, Asks, Polling
<1>8. Timely(State, c)
  BY <1>1, <1>4, <1>5, <1>6, TabFacts DEF Timely, Polls, OnDetail, Polling
<1> QED BY <1>5, <1>6, <1>7, <1>8, TabFacts, AskTab

LEMMA MountTab ==
    ASSUME Tab, Mount
    PROVE  Tab'
<1> DEFINE m == Mounted(State, route)
           n == pending - 1
<1>1. Rec(m) /\ ~m.view.typed /\ Deletes(m.calls) = Deletes(calls)
  BY TabFacts, MountedRec DEF Tab
<1>2. Put(m) /\ route' = route /\ pending' = n /\ acts' = acts
  BY DEF Mount, bounds
<1>3. n \in Nat /\ n + Deletes(calls) <= acts + 1
  BY TabFacts DEF Mount
<1>4. Held(m, n)
  BY <1>1 DEF Held
<1> HIDE DEF m, n
<1> QED BY <1>1, <1>2, <1>3, <1>4, TabFacts, PutTab DEF Tab

\* An answer that changes no more than a little leaves the view.
LEMMA StayTab ==
    ASSUME Tab, NEW s, Rec(s), Stay(s), acts' = acts,
           Deletes(s.calls) <= Deletes(calls), Held(s, pending)
    PROVE  Tab'
<1>1. s \in StateSet /\ Deletes(s.calls) \in Nat
  BY DeletesType DEF Rec
<1>2. pending + Deletes(s.calls) <= acts + 1
  BY <1>1, TabFacts
<1> QED BY <1>2, TabFacts, PutTab DEF Stay, Tab

\* An answer after which the view is mounted again.
LEMMA AgainTab ==
    ASSUME Tab, NEW s, Rec(s), NEW t \in StateSet, Refresh(t), acts' = acts,
           t.calls = s.calls, t.handle = s.handle, t.ticking = s.ticking, t.view = s.view,
           Deletes(s.calls) <= Deletes(calls)
    PROVE  Tab'
<1>1. Timers(t)
  BY DEF Rec, Timers
<1>2. pending + Deletes(t.calls) <= acts + 1
  <2>1. Deletes(t.calls) \in Nat
    BY DeletesType
  <2> QED BY <2>1, TabFacts
<1> QED BY <1>1, <1>2, TabFacts, RefreshTab

LEMMA LessFacts ==
    ASSUME Tab, NEW c \in BagToSet(calls), NEW s, s = Less(c)
    PROVE  /\ s \in StateSet /\ Rec(s) /\ Held(s, pending)
           /\ Deletes(s.calls) \in Nat /\ Deletes(s.calls) <= Deletes(calls)
           /\ c \in RightCall /\ c.id \in IfaceSet \cup Forms \cup {None}
<1>1. Held(s, pending)
  BY LessRec, TabFacts DEF Held, Tab
<1>2. Deletes(s.calls) \in Nat /\ Deletes(s.calls) <= Deletes(calls)
  <2>1. s \in StateSet
    BY LessRec, TabFacts DEF Rec
  <2>2. Deletes(s.calls) = Deletes(calls) - IF c.kind = "delete" THEN 1 ELSE 0
    BY LessRec, TabFacts
  <2>3. Deletes(s.calls) \in Nat
    BY <2>1, DeletesType
  <2> QED BY <2>2, <2>3, TabFacts
<1>3. c \in RightCall /\ c.id \in IfaceSet \cup Forms \cup {None}
  BY LessRec, TabFacts DEF RightCall, Call
<1> QED BY <1>1, <1>2, <1>3, LessRec, TabFacts DEF Rec

LEMMA DoneTab ==
    ASSUME Tab, NEW c \in BagToSet(calls), Done(c), acts' = acts
    PROVE  Tab'
<1> DEFINE s == Less(c)
<1>1. /\ s \in StateSet /\ Rec(s) /\ Deletes(s.calls) \in Nat
      /\ Deletes(s.calls) <= Deletes(calls)
  BY LessFacts
<1>2. Deletes(s.calls) = Deletes(calls) - IF c.kind = "delete" THEN 1 ELSE 0
  BY LessRec, TabFacts
<1>3. \/ Refresh(s)
      \/ Refresh([s EXCEPT !.editing = @ \ {c.id}])
      \/ c.kind = "delete" /\ Navigate(s, List)
  BY DEF Done
<1> HIDE DEF s
<1>4. CASE Refresh(s)
  BY <1>1, <1>4, AgainTab
<1>5. CASE Refresh([s EXCEPT !.editing = @ \ {c.id}])
  <2> DEFINE t == [s EXCEPT !.editing = @ \ {c.id}]
  <2>1. /\ t \in StateSet /\ t.calls = s.calls /\ t.handle = s.handle
        /\ t.ticking = s.ticking /\ t.view = s.view
    BY <1>1 DEF StateSet
  <2> HIDE DEF t
  <2> QED BY <1>1, <1>5, <2>1, AgainTab DEF t
<1>6. CASE c.kind = "delete" /\ Navigate(s, List)
  <2>1. pending + 1 + Deletes(s.calls) <= acts + 1
    BY <1>1, <1>2, <1>6, TabFacts
  <2> QED BY <1>1, <1>6, <2>1, TabFacts, PathFacts, NavigateTab
<1> QED BY <1>3, <1>4, <1>5, <1>6

\* The answer a view has waited for is shown.
LEMMA RenderedTab ==
    ASSUME Tab, NEW c \in BagToSet(calls), c.kind \in {"status", "page"},
           Stay(Rendered(Less(c), c)), acts' = acts
    PROVE  Tab'
<1> DEFINE s == Less(c)
<1>1. /\ s \in StateSet /\ Rec(s) /\ Held(s, pending) /\ Deletes(s.calls) <= Deletes(calls)
      /\ c \in RightCall
  BY LessFacts
<1>2. /\ s.view = view /\ s.editing = editing /\ Fits(view, c)
      /\ \A d : Copies(s.calls, d) = Copies(calls, d) - IF d = c THEN 1 ELSE 0
      /\ \A d : Copies(calls, d) \in Nat
  BY LessRec, TabFacts
<1> HIDE DEF s
<1>3. CASE ~c.own
  BY <1>1, <1>3, StayTab DEF Rendered, s
<1>4. CASE c.own
  <2> DEFINE typed == view.typed /\ c.kind # "status"
             w == [view EXCEPT !.loaded = TRUE]
             v == [w EXCEPT !.typed = typed]
             t == [s EXCEPT !.view = v]
  <2>1. w \in ViewSet /\ w.at = view.at /\ w.loaded /\ w.typed = view.typed
    BY TabFacts, Shown
  <2>2. Rendered(s, c) = t
    <3> DEFINE u == [s EXCEPT !.view = w]
    <3>1. Rendered(s, c) = [u EXCEPT !.view.typed = @ /\ c.kind # "status"]
      BY <1>2, <1>4 DEF Rendered
    <3> HIDE DEF w
    <3>2. u.view = w /\ u \in StateSet
      BY <1>1, <2>1 DEF StateSet
    <3>3. t = [u EXCEPT !.view = v]
      BY <1>1, <3>2 DEF StateSet
    <3> HIDE DEF u
    <3>4. Rendered(s, c) = [u EXCEPT !.view = v]
      BY <2>1, <3>1, <3>2
    <3> QED BY <3>3, <3>4
  <2>3. /\ v \in ViewSet /\ v.at = view.at /\ v.loaded /\ v.typed = typed
    <3>1. typed \in BOOLEAN
      BY TabFacts DEF ViewSet
    <3> HIDE DEF typed, w
    <3>2. v \in ViewSet /\ v.at = w.at /\ v.typed = typed /\ v.loaded = w.loaded
      BY <2>1, <3>1 DEF ViewSet
    <3> HIDE DEF v
    <3> QED BY <2>1, <3>2
  <2> HIDE DEF w, v
  <2>4. /\ t \in StateSet /\ t.view = v /\ t.calls = s.calls /\ t.handle = s.handle
        /\ t.ticking = s.ticking /\ t.editing = s.editing
    BY <1>1, <2>3 DEF StateSet
  <2> HIDE DEF t
  <2>5. Timers(t)
    BY <1>1, <1>2, <2>3, <2>4 DEF Rec, Timers, Mine
  <2>6. Asked(t)
    BY <1>1, <1>2, <2>3, <2>4 DEF Rec, Asked, Fits
  <2>7. Drafted(t)
    <3>1. Drafted(s) /\ Drafted(State)
      BY <1>1, TabFacts DEF Rec
    <3>2. ASSUME OnDetail(v), "detail" \in editing
          PROVE  Copies(s.calls, Status(v.at.id)) <= 0
      <4>1. c.kind = "status" /\ c.id = view.at.id /\ view.at.page = "detail"
        BY <1>2, <1>4, <2>3, <3>2 DEF Fits, Asks, Background, OnDetail
      <4>2. c = Status(view.at.id)
        <5>1. c \in Call
          BY <1>1 DEF RightCall
        <5> QED BY <1>4, <4>1, <5>1 DEF Status, Own, Call
      <4>3. Copies(calls, Status(view.at.id)) <= 1
        <5>1. OnDetail(State.view) /\ "detail" \in State.editing
          BY <2>3, <3>2, TabFacts DEF OnDetail
        <5>2. Copies(calls, Status(view.at.id)) <= IF State.view.loaded THEN 0 ELSE 1
          BY <3>1, <5>1, TabFacts DEF Drafted
        <5> QED BY <1>2, <5>2
      <4> QED BY <1>2, <2>3, <4>2, <4>3
    <3> QED BY <1>2, <2>3, <2>4, <3>1, <3>2 DEF Drafted, OnDetail
  <2>8. Held(t, pending)
    BY <1>1, <1>2, <2>3, <2>4 DEF Held, OnDetail
  <2>9. Rec(t) /\ Deletes(t.calls) <= Deletes(calls) /\ Stay(t)
    BY <1>1, <2>2, <2>4, <2>5, <2>6, <2>7 DEF Rec, s
  <2> QED BY <2>8, <2>9, StayTab
<1> QED BY <1>3, <1>4

\* The list of interfaces has come: the rows of one are asked for.
LEMMA ListedTab ==
    ASSUME Tab, NEW c \in BagToSet(calls), c.kind = "ifaces",
           Stay(Listed(Less(c), c)), acts' = acts
    PROVE  Tab'
<1> DEFINE s == Less(c)
           i == IF c.id = None THEN Ifaces[1] ELSE c.id
           q == IF c.id = None THEN LogsOf(i) ELSE path
           t == [s EXCEPT !.ifaces = TRUE, !.selected = i, !.path = q]
           d == [kind |-> "logs", id |-> i, own |-> c.own]
<1>1. /\ s \in StateSet /\ Rec(s) /\ Held(s, pending) /\ Deletes(s.calls) <= Deletes(calls)
      /\ c \in RightCall /\ Deletes(s.calls) \in Nat
  BY LessFacts
<1>2. s.view = view /\ s.editing = editing /\ s.path = path /\ Fits(view, c)
  BY LessRec, TabFacts
<1>3. i \in IfaceSet
  BY <1>1, PathFacts DEF RightCall
<1>4. Listed(s, c) = Sent(t, d)
  <2>1. Listed(s, c) = Sent([s EXCEPT !.ifaces = TRUE, !.selected = i,
                                      !.path = IF c.id = None THEN LogsOf(i) ELSE @], d)
    BY DEF Listed, Ask, Sent
  <2>2. (IF c.id = None THEN LogsOf(i) ELSE s.path) = q
    BY <1>2
  <2> HIDE DEF s, i, q, d
  <2> QED BY <2>1, <2>2
<1>5. q \in Path
  BY <1>3, PathFacts, TabFacts
<1>6. d \in RightCall /\ d.kind = "logs" /\ d.own = c.own
  BY <1>1, <1>3 DEF RightCall, Call, Kinds
<1>7. Stay(Listed(s, c))
  OBVIOUS
<1> HIDE DEF s, i, q, d
<1>8. /\ t \in StateSet /\ t.view = s.view /\ t.handle = s.handle /\ t.ticking = s.ticking
      /\ t.calls = s.calls /\ t.editing = s.editing
  BY <1>1, <1>3, <1>5 DEF StateSet
<1> HIDE DEF t
<1>9. Rec(t)
  BY <1>1, <1>8, EditRec
<1>10. Fits(view, d)
  BY <1>2, <1>6 DEF Fits, Asks, Background
<1>11. Timely(t, d)
  BY <1>6 DEF Timely
<1>12. Put(Sent(t, d)) /\ UNCHANGED <<route, pending>>
  BY <1>4, <1>7 DEF Stay
<1>13. pending + Deletes(t.calls) + (IF d.kind = "delete" THEN 1 ELSE 0) <= acts + 1
  BY <1>1, <1>6, <1>8, TabFacts
<1> QED BY <1>2, <1>6, <1>8, <1>9, <1>10, <1>11, <1>12, <1>13, TabFacts, AskTab

\* The peer is connected: the interval of its page is cleared.
LEMMA ConnectedTab ==
    ASSUME Tab, NEW c \in BagToSet(calls), c.id \in IfaceSet,
           Stay(Connected(Less(c), c.id)), acts' = acts
    PROVE  Tab'
<1> DEFINE s == Less(c)
           h == s.handle \ {"config"}
           k == IF "config" \in s.handle THEN {x \in s.ticking : x.page # "config"}
                ELSE s.ticking
           l == s.celebrated \cup {c.id}
           t == [s EXCEPT !.celebrated = l, !.handle = h, !.ticking = k]
<1>1. /\ s \in StateSet /\ Rec(s) /\ Held(s, pending) /\ Deletes(s.calls) <= Deletes(calls)
  BY LessFacts
<1>2. Connected(s, c.id) = t /\ Stay(Connected(s, c.id))
  BY DEF Connected
<1> HIDE DEF s
<1>3. /\ s.ticking = {[page |-> p, own |-> TRUE] : p \in s.handle}
      /\ s.handle \subseteq Mine(s.view)
      /\ (s.view.at # None /\ s.view.at.page # "config") => s.handle = Mine(s.view)
  BY <1>1 DEF Rec, Timers
<1>4. k = {[page |-> p, own |-> TRUE] : p \in h}
  BY <1>3
<1>5. h \subseteq Polling /\ k \subseteq [page: Polling, own: BOOLEAN] /\ l \subseteq IfaceSet
  BY <1>1, Fields
<1> HIDE DEF h, k, l
<1>6. /\ t \in StateSet /\ t.view = s.view /\ t.handle = h /\ t.ticking = k
      /\ t.calls = s.calls /\ t.editing = s.editing
  BY <1>1, <1>5 DEF StateSet
<1> HIDE DEF t
<1>7. Timers(t)
  BY <1>3, <1>4, <1>6 DEF Timers, Mine, h
<1>8. Rec(t)
  BY <1>1, <1>6, <1>7 DEF Rec, Asked, Drafted
<1>9. Held(t, pending)
  BY <1>1, <1>6 DEF Held
<1> QED BY <1>1, <1>2, <1>6, <1>8, <1>9, StayTab

LEMMA AnswerTab ==
    ASSUME Tab, NEW c, Answer(c)
    PROVE  Tab'
<1> DEFINE s == Less(c)
<1>1. c \in BagToSet(calls) /\ acts' = acts
  BY DEF Answer, Arrives, bounds
<1>2. /\ s \in StateSet /\ Rec(s) /\ Held(s, pending) /\ Deletes(s.calls) <= Deletes(calls)
      /\ c \in RightCall
  BY <1>1, LessFacts
<1>3. \/ Done(c)
      \/ c.kind = "dash"   /\ Refresh([s EXCEPT !.dash = TRUE])
      \/ c.kind = "logs"   /\ Refresh(Cached(s, c.id))
      \/ c.kind = "ifaces" /\ Stay(Listed(s, c))
      \/ c.kind \in {"status", "page"} /\ Stay(Rendered(s, c))
      \/ c.kind = "save"   /\ Refresh(Saved(s, c.id))
      \/ Refresh(s)
      \/ Stay(s)
      \/ c.id \in IfaceSet /\ Stay(Connected(s, c.id))
  BY DEF Answer
<1>4. CASE Done(c)
  BY <1>1, <1>4, DoneTab
<1>5. CASE Refresh([s EXCEPT !.dash = TRUE])
  <2> DEFINE t == [s EXCEPT !.dash = TRUE]
  <2> HIDE DEF s
  <2>1. /\ t \in StateSet /\ t.calls = s.calls /\ t.handle = s.handle
        /\ t.ticking = s.ticking /\ t.view = s.view
    BY <1>2 DEF StateSet
  <2> HIDE DEF t
  <2> QED BY <1>1, <1>2, <1>5, <2>1, AgainTab DEF t
<1>6. CASE c.kind = "logs" /\ Refresh(Cached(s, c.id))
  <2> DEFINE t == [s EXCEPT !.logs = c.id]
  <2> HIDE DEF s
  <2>1. c.id \in IfaceSet \cup {None}
    BY <1>2, <1>6 DEF RightCall
  <2>2. /\ t \in StateSet /\ t.calls = s.calls /\ t.handle = s.handle
        /\ t.ticking = s.ticking /\ t.view = s.view
    BY <1>2, <2>1 DEF StateSet
  <2>3. Refresh(t)
    BY <1>6 DEF Cached
  <2> HIDE DEF t
  <2> QED BY <1>1, <1>2, <2>2, <2>3, AgainTab
<1>7. CASE c.kind = "ifaces" /\ Stay(Listed(s, c))
  BY <1>1, <1>7, ListedTab
<1>8. CASE c.kind \in {"status", "page"} /\ Stay(Rendered(s, c))
  BY <1>1, <1>8, RenderedTab
<1>9. CASE Refresh(Saved(s, c.id))
  <2> DEFINE q == IF c.id = "interfaces" THEN List ELSE s.path
             t == [s EXCEPT !.editing = @ \ {c.id}, !.path = q]
  <2> HIDE DEF s
  <2>1. q \in Path
    BY <1>2, PathFacts, Fields
  <2>2. Refresh(t)
    BY <1>9 DEF Saved
  <2> HIDE DEF q
  <2>3. /\ t \in StateSet /\ t.calls = s.calls /\ t.handle = s.handle
        /\ t.ticking = s.ticking /\ t.view = s.view
    BY <1>2, <2>1 DEF StateSet
  <2> HIDE DEF t
  <2> QED BY <1>1, <1>2, <2>2, <2>3, AgainTab
<1>10. CASE Refresh(s)
  BY <1>1, <1>2, <1>10, AgainTab
<1>11. CASE Stay(s)
  BY <1>1, <1>2, <1>11, StayTab
<1>12. CASE c.id \in IfaceSet /\ Stay(Connected(s, c.id))
  BY <1>1, <1>12, ConnectedTab
<1> QED BY <1>3, <1>4, <1>5, <1>6, <1>7, <1>8, <1>9, <1>10, <1>11, <1>12

LEMMA FailTab ==
    ASSUME Tab, NEW c, Fail(c)
    PROVE  Tab'
<1>1. c \in BagToSet(calls) /\ acts' = acts
  BY DEF Fail, Arrives
<1>2. CASE Done(c)
  BY <1>1, <1>2, DoneTab
<1>3. CASE c.kind = "page" /\ Stay(Rendered(Less(c), c))
  BY <1>1, <1>3, RenderedTab
<1>4. CASE Stay(Less(c))
  BY <1>1, <1>4, LessFacts, StayTab
<1> QED BY <1>2, <1>3, <1>4 DEF Fail

LEMMA StepTab ==
    ASSUME Tab, Types, [Next]_vars
    PROVE  Tab'
<1>1. ASSUME NEW ok \in BOOLEAN, Start(ok) \/ FromProvider(ok) PROVE Tab'
  BY <1>1, StartTab, OpenTab
<1>2. ASSUME NEW p \in Paths, Open(p) \/ Go(p) \/ PopState(p) PROVE Tab'
  BY <1>2, OpenTab, GoTab, PopStateTab
<1>3. CASE Setup \/ Login
  BY <1>3, OpenTab
<1>4. CASE ToProvider \/ Expire \/ UNCHANGED vars
  BY <1>4, KeepTab DEF ToProvider, Expire, vars, browser, bounds
<1>5. CASE Mount \/ Toggle \/ Type
  BY <1>5, MountTab, ToggleTab, TypeTab
<1>6. ASSUME NEW i \in IfaceSet, Select(i) PROVE Tab'
  BY <1>6, SelectTab
<1>7. CASE \/ \E k \in {"act", "clear", "delete", "logout"} : Press(k)
           \/ SaveForm \/ Visible
  BY <1>7, PressesTab
<1>8. ASSUME NEW x, Tick(x) PROVE Tab'
  BY <1>8, TickTab
<1>9. ASSUME NEW c, NEW ok \in BOOLEAN, Denied(c) \/ SignedOut(c, ok) PROVE Tab'
  BY <1>9, OpenTab
<1>10. ASSUME NEW c, Answer(c) \/ Fail(c) PROVE Tab'
  BY <1>10, AnswerTab, FailTab
<1> QED
  BY <1>1, <1>2, <1>3, <1>4, <1>5, <1>6, <1>7, <1>8, <1>9, <1>10 DEF Next, Ticks, Answers

\* In the program itself a step changes of the rest at most what the user and
\* failures have used up.
LEMMA AppTypes ==
    ASSUME Types, screen = "app", UNCHANGED <<server, saved, entry, want, expiries>>,
           acts' \in 0..MaxActs, fails' \in 0..MaxFails
    PROVE  Types'
BY DEF Types, server, entry

LEMMA LoadTypes ==
    ASSUME Types, NEW p \in Path, Load(p),
           {session', fresh'} \subseteq BOOLEAN, {saved', want'} \subseteq Path \cup {None},
           acts' \in 0..MaxActs, fails' \in 0..MaxFails, expiries' \in 0..MaxExpiries
    PROVE  Types'
BY DEF Types, Load, Blank

LEMMA InitTypes == Init => Types
<1> SUFFICES ASSUME Init PROVE Types
  OBVIOUS
<1>1. acts \in 0..MaxActs /\ fails \in 0..MaxFails /\ expiries \in 0..MaxExpiries
  BY WebAssumption DEF Init
<1>2. {saved, bound, want} \subseteq Path \cup {None}
  BY DEF Init
<1>3. {session, fresh, ways} \subseteq BOOLEAN
  BY DEF Init
<1> QED BY <1>1, <1>2, <1>3 DEF Init, Types

LEMMA StepTypes ==
    ASSUME Tab, Types, [Next]_vars
    PROVE  Types'
<1> USE WebAssumption
<1>0. path \in Path /\ Home \in Path /\ Paths \subseteq Path
  BY TabFacts, PathFacts
<1>1. ASSUME NEW ok \in BOOLEAN, Start(ok) PROVE Types'
  <2>1. SavePath(path) \in Path \cup {None}
    BY <1>0 DEF SavePath, Types
  <2>2. screen' \in {"setup", "app", "login"} /\ ways' \in BOOLEAN /\ fails' \in 0..MaxFails
    BY <1>1 DEF Start, Types
  <2>3. saved' \in Path \cup {None}
    BY <1>1, <2>1 DEF Start, Types
  <2> QED BY <1>1, <2>2, <2>3 DEF Start, Types, server
<1>2. ASSUME NEW ok \in BOOLEAN, FromProvider(ok) PROVE Types'
  <2>1. (IF ok /\ bound # None THEN bound ELSE Home) \in Path
    BY <1>0 DEF Types
  <2>2. {session', fresh'} \subseteq BOOLEAN /\ fails' \in 0..MaxFails
        /\ {saved', want'} \subseteq Path \cup {None}
    BY <1>2 DEF FromProvider, Types
  <2> QED BY <1>2, <2>1, <2>2, LoadTypes DEF FromProvider, Types
<1>3. ASSUME NEW p \in Paths, Open(p) PROVE Types'
  <2>1. p \in Path /\ acts' \in 0..MaxActs
    BY <1>0, <1>3 DEF Open, Types
  <2> QED BY <1>3, <2>1, LoadTypes DEF Open, Types, server
<1>4. ASSUME Act PROVE Types'
  <2>1. acts' \in 0..MaxActs
    BY <1>4 DEF Act, Types
  <2> QED BY <1>4, <2>1, AppTypes DEF Act, Types
<1>5. ASSUME NEW p \in Paths, Go(p) \/ PopState(p) PROVE Types'
  BY <1>4, <1>5 DEF Go, PopState
<1>6. CASE Setup
  BY <1>0, <1>6, LoadTypes DEF Setup, Types, bounds
<1>7. CASE Login
  <2>1. (IF saved # None THEN saved ELSE path) \in Path
    BY <1>0 DEF Types
  <2> QED BY <1>7, <2>1, LoadTypes DEF Login, Types, bounds
<1>8. CASE ToProvider
  <2>1. screen' = "idp" /\ bound' = saved /\ saved' = None
        /\ UNCHANGED <<session, fresh, ways, want, acts, fails, expiries>>
    BY <1>8 DEF ToProvider, server, bounds
  <2>2. {saved', bound', want'} \subseteq Path \cup {None}
    BY <2>1 DEF Types
  <2>3. {session', fresh', ways'} \subseteq BOOLEAN
    BY <2>1 DEF Types
  <2>4. acts' \in 0..MaxActs /\ fails' \in 0..MaxFails /\ expiries' \in 0..MaxExpiries
    BY <2>1 DEF Types
  <2>5. screen' \in {"load", "setup", "login", "idp", "app"} /\ screen' # "load"
    BY <2>1
  <2> HIDE DEF Types
  <2> QED BY <2>2, <2>3, <2>4, <2>5 DEF Types
<1>9. CASE Expire
  <2>1. expiries' \in 0..MaxExpiries
    BY <1>9 DEF Expire, Types
  <2>2. {session', fresh', ways'} \subseteq BOOLEAN
    BY <1>9 DEF Expire, Types, entry
  <2>3. UNCHANGED <<saved, bound, want, screen, calls, view, acts, fails>>
    BY <1>9 DEF Expire, browser, entry, pkg
  <2> QED BY <2>1, <2>2, <2>3 DEF Types
<1>10. CASE Mount
  BY <1>10, AppTypes DEF Mount, bounds, Types
<1>11. CASE Toggle \/ SaveForm \/ Visible
  BY <1>4, <1>11 DEF Toggle, SaveForm, Visible
<1>12. CASE Type
  BY <1>12, AppTypes DEF Type, bounds, browser, Types
<1>13. ASSUME NEW i \in IfaceSet, Select(i) PROVE Types'
  BY <1>4, <1>13 DEF Select
<1>14. ASSUME NEW k, Press(k) PROVE Types'
  BY <1>4, <1>14 DEF Press
<1>15. ASSUME NEW x, Tick(x) PROVE Types'
  BY <1>15, AppTypes DEF Tick, bounds, Types
<1>16. ASSUME NEW c, Denied(c) PROVE Types'
  <2>1. SavePath(path) \in Path \cup {None}
    BY <1>0 DEF SavePath, Types
  <2> QED BY <1>0, <1>16, <2>1, LoadTypes DEF Denied, Types, bounds, server
<1>17. ASSUME NEW c, NEW ok \in BOOLEAN, SignedOut(c, ok) PROVE Types'
  <2>1. {session', fresh'} \subseteq BOOLEAN /\ fails' \in 0..MaxFails
    BY <1>17 DEF SignedOut, Types
  <2> QED BY <1>0, <1>17, <2>1, LoadTypes DEF SignedOut, Types
<1>18. ASSUME NEW c, Answer(c) PROVE Types'
  BY <1>18, AppTypes DEF Answer, Arrives, bounds, Types
<1>19. ASSUME NEW c, Fail(c) PROVE Types'
  <2>1. fails' \in 0..MaxFails
    BY <1>19 DEF Fail, Types
  <2> QED BY <1>19, <2>1, AppTypes DEF Fail, Arrives, Types
<1>20. CASE UNCHANGED vars
  BY <1>20 DEF vars, server, browser, entry, pkg, bounds, Types
<1> QED
  BY <1>1, <1>2, <1>3, <1>5, <1>6, <1>7, <1>8, <1>9, <1>10, <1>11, <1>12, <1>13, <1>14,
     <1>15, <1>16, <1>17, <1>18, <1>19, <1>20 DEF Next, Ticks, Answers

Inv == Tab /\ Types

LEMMA InvHolds == Spec => []Inv
<1>1. Init => Inv
  BY InitTab, InitTypes DEF Inv
<1>2. Inv /\ [Next]_vars => Inv'
  BY StepTab, StepTypes DEF Inv
<1> QED BY <1>1, <1>2, PTL DEF Spec

-----------------------------------------------------------------------------
(***************************************************************************)
(* The theorems.                                                           *)
(***************************************************************************)

(***************************************************************************)
(* Every variable has its type; no more mounts wait than the user has done *)
(* things, whatever deletes are answered late.                             *)
(***************************************************************************)
THEOREM TypeOKCorrect == Spec => []TypeOK
<1>1. Inv => TypeOK
  <2> SUFFICES ASSUME Inv PROVE TypeOK
    OBVIOUS
  <2> Tab /\ Types
    BY DEF Inv
  <2>1. {dash, ifaces} \subseteq BOOLEAN /\ {selected, logs, current} \subseteq IfaceSet \cup {None}
        /\ ticking \subseteq [page: Polling, own: BOOLEAN] /\ handle \subseteq Polling
    BY TabFacts, Fields DEF State
  <2>2. IsABag(calls) /\ BagToSet(calls) \subseteq Call
    BY TabFacts, BagType
  <2>3. pending \in 0..(MaxActs + 1)
    BY TabFacts, WebAssumption DEF Types
  <2>4. route \in Path
    BY DEF Tab
  <2> QED BY <2>1, <2>2, <2>3, <2>4, TabFacts DEF TypeOK, Types, ViewSet
<1> QED BY <1>1, InvHolds, PTL

(***************************************************************************)
(* The interval that runs is the one of the mounted view: mountRoute       *)
(* clears what ran before, whatever the order of mounts and answers.       *)
(***************************************************************************)
THEOREM TimerOfViewCorrect == Spec => []TimerOfView
<1>1. Inv => TimerOfView
  <2> SUFFICES ASSUME Inv PROVE TimerOfView
    OBVIOUS
  <2>1. Timers(State)
    BY TabFacts DEF Inv
  <2>2. /\ ticking = {[page |-> p, own |-> TRUE] : p \in handle}
        /\ handle \subseteq Mine(view)
        /\ (view.at # None /\ view.at.page # "config") => handle = Mine(view)
    BY <2>1 DEF Timers, State
  <2>3. Mine(view) = {q \in Polling : On({q})}
    BY DEF Mine, On
  <2> QED BY <2>2, <2>3 DEF TimerOfView, On, Mine
<1> QED BY <1>1, InvHolds, PTL

(***************************************************************************)
(* What the user has typed stays while the page's own requests are         *)
(* answered: the page of an interface, which its status renders anew, has  *)
(* none under way once a form is open (loadDetail skips during edits).     *)
(***************************************************************************)
THEOREM DraftKeptCorrect == Spec => DraftKept
<1>1. ASSUME Inv, NEW c \in BagToSet(calls), c.own, c.kind \in Background, view.typed,
             pending = 0, Answer(c)
      PROVE  view'.typed
  <2> DEFINE s == Less(c)
  <2>1. Tab
    BY <1>1 DEF Inv
  <2>2. /\ s \in StateSet /\ s.view = view /\ Fits(view, c) /\ c \in RightCall /\ c \in Call
        /\ Copies(calls, c) > 0
    BY <1>1, <2>1, TabFacts, LessFacts, LessRec, CopiesType DEF RightCall
  <2>3. Drafted(State) /\ view \in ViewSet
    BY <2>1, TabFacts DEF Rec
  <2>4. /\ view.at # None /\ view.at.page \in Forms
        /\ view.at.page = "detail" => view.loaded
    BY <1>1, <2>1, <2>3, TabFacts DEF Drafted
  <2>5. c.kind \in {"page", "check", "alive"}
    <3>1. c.kind \notin {"dash", "ifaces", "logs"}
      BY <1>1, <2>2, <2>4 DEF Fits, Asks, Forms, Background
    <3>2. ASSUME c.kind = "status" PROVE FALSE
      <4>1. view.at.page = "detail" /\ c.id = view.at.id
        BY <1>1, <2>2, <3>2 DEF Fits, Asks, Background
      <4>2. c = Status(view.at.id)
        BY <1>1, <2>2, <3>2, <4>1 DEF Status, Own, Call
      <4>3. OnDetail(view) /\ "detail" \in editing
        BY <1>1, <2>1, <2>4, <4>1, TabFacts DEF OnDetail, Tab, Held
      <4>4. Copies(calls, c) <= 0
        BY <2>1, <2>3, <2>4, <4>1, <4>2, <4>3, TabFacts DEF Drafted
      <4> QED BY <2>1, <2>2, <4>4, CopiesType, TabFacts
    <3> QED BY <1>1, <3>1, <3>2 DEF Background
  <2>6. \/ c.kind = "page" /\ Stay(Rendered(s, c))
        \/ Stay(s)
        \/ Stay(Connected(s, c.id))
    BY <1>1, <2>5 DEF Answer, Done
  <2> HIDE DEF s
  <2>7. CASE c.kind = "page" /\ Stay(Rendered(s, c))
    <3> DEFINE t == Rendered(s, c)
    <3>1. t.view.typed
      BY <1>1, <2>2, <2>3, <2>7 DEF Rendered, StateSet, ViewSet
    <3> QED BY <2>7, <3>1 DEF Stay, Put
  <2>8. CASE Stay(s)
    BY <1>1, <2>2, <2>8 DEF Stay, Put
  <2>9. CASE Stay(Connected(s, c.id))
    <3>1. Connected(s, c.id).view = s.view
      BY <2>2 DEF Connected, StateSet
    <3> QED BY <1>1, <2>2, <2>9, <3>1 DEF Stay, Put
  <2> QED BY <2>6, <2>7, <2>8, <2>9
<1>2. Inv => [\A c \in BagToSet(calls) :
                (c.own /\ c.kind \in Background /\ view.typed /\ pending = 0 /\ Answer(c))
                    => view'.typed]_vars
  BY <1>1
<1> QED BY <1>2, InvHolds, PTL DEF DraftKept
=============================================================================
