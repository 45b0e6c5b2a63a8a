----------------------------- MODULE PollerProofs -----------------------------
(***************************************************************************)
(* Theorems about Poller for every set of peers and interfaces, every      *)
(* threshold and retention, every choice of failing statements and of the  *)
(* cascade, and every bound.                                               *)
(***************************************************************************)
EXTENDS Poller, WellFoundedInduction, TLAPS

USE TimesAssumption, RxAssumption, NoneAssumption

-----------------------------------------------------------------------------
(***************************************************************************)
(* Induction, for a set of numbers rather than for a predicate.            *)
(***************************************************************************)
LEMMA SetInduction ==
    ASSUME NEW S, 0 \in S, \A n \in Nat : n \in S => n + 1 \in S
    PROVE  Nat \subseteq S
<1> DEFINE Less == {ss \in Nat \X Nat : ss[1] < ss[2]}
           T == Nat \ S
<1>1. IsWellFoundedOn(Less, Nat)
  BY NatLessThanWellFounded DEF OpToRel
<1>2. SUFFICES ASSUME T # {} PROVE FALSE
  OBVIOUS
<1>3. PICK x \in T : \A y \in T : ~ (<<y, x>> \in Less)
  <2> HIDE DEF Less
  <2> QED BY <1>1, <1>2, WFMin
<1>4. x - 1 \in T /\ <<x - 1, x>> \in Less
  BY <1>3
<1> QED BY <1>3, <1>4

\* A set of places in a sequence that is not empty has a last one.
LEMMA LastPlace ==
    ASSUME NEW N \in Nat, NEW S \in SUBSET (1..N), S # {}
    PROVE  \E n \in S : \A m \in S : m <= n
<1> DEFINE Below == {k \in Nat : (\A m \in S : m <= k) => \E n \in S : \A m \in S : m <= n}
<1>1. 0 \in Below
  <2>1. PICK m \in S : m \in 1..N
    OBVIOUS
  <2>2. ~ (m <= 0)
    BY <2>1
  <2> QED BY <2>2
<1>2. ASSUME NEW k \in Nat, k \in Below PROVE k + 1 \in Below
  <2> SUFFICES ASSUME \A m \in S : m <= k + 1 PROVE \E n \in S : \A m \in S : m <= n
    OBVIOUS
  <2>1. CASE k + 1 \in S
    BY <2>1
  <2>2. CASE k + 1 \notin S
    <3>1. \A m \in S : m <= k
      BY <2>2
    <3> QED BY <1>2, <3>1
  <2> QED BY <2>1, <2>2
<1> HIDE DEF Below
<1>3. Nat \subseteq Below
  BY <1>1, <1>2, SetInduction
<1>4. N \in Below
  BY <1>3
<1> QED BY <1>4 DEF Below

-----------------------------------------------------------------------------
(***************************************************************************)
(* What a DELETE leaves of the log.                                        *)
(***************************************************************************)
KeptStep(s, keep, g, n) ==
    IF n = 0 THEN <<>>
    ELSE IF n \in keep THEN Append(g[n - 1], s[n]) ELSE g[n - 1]

\* The recursion in Kept defines a function.
LEMMA KeptExists ==
    ASSUME NEW s, NEW keep, NEW N \in Nat
    PROVE  \E g : g = [n \in 0..N |-> KeptStep(s, keep, g, n)]
<1> DEFINE S == {m \in Nat : \E g : g = [n \in 0..m |-> KeptStep(s, keep, g, n)]}
<1>1. 0 \in S
  <2> DEFINE g == [n \in 0..0 |-> <<>>]
  <2>1. g = [n \in 0..0 |-> KeptStep(s, keep, g, n)]
    BY DEF KeptStep
  <2> QED BY <2>1
<1>2. ASSUME NEW m \in Nat, m \in S PROVE m + 1 \in S
  <2>1. PICK g : g = [n \in 0..m |-> KeptStep(s, keep, g, n)]
    BY <1>2
  <2> DEFINE h == [n \in 0..(m + 1) |-> IF n <= m THEN g[n] ELSE KeptStep(s, keep, g, n)]
  <2>2. ASSUME NEW n \in 0..(m + 1) PROVE h[n] = KeptStep(s, keep, h, n)
    <3>1. h[n] = KeptStep(s, keep, g, n)
      <4>1. CASE n <= m
        <5>1. g[n] = KeptStep(s, keep, g, n)
          BY <2>1, <4>1
        <5> QED BY <4>1, <5>1
      <4>2. CASE ~(n <= m)
        BY <4>2
      <4> QED BY <4>1, <4>2
    <3>2. n # 0 => h[n - 1] = g[n - 1]
      OBVIOUS
    <3> HIDE DEF h
    <3> QED BY <3>1, <3>2 DEF KeptStep
  <2>3. h = [n \in 0..(m + 1) |-> KeptStep(s, keep, h, n)]
    BY <2>2
  <2> HIDE DEF h
  <2> QED BY <2>3
<1>3. Nat \subseteq S
  <2> HIDE DEF S
  <2> QED BY <1>1, <1>2, SetInduction
<1>4. N \in S
  BY <1>3
<1> QED BY <1>4

LEMMA KeptUnfold ==
    ASSUME NEW s, NEW keep, Len(s) \in Nat
    PROVE  \E g : /\ g = [n \in 0..Len(s) |-> KeptStep(s, keep, g, n)]
                  /\ Kept(s, keep) = g[Len(s)]
<1> DEFINE g == CHOOSE h : h = [n \in 0..Len(s) |-> KeptStep(s, keep, h, n)]
<1>1. g = [n \in 0..Len(s) |-> KeptStep(s, keep, g, n)]
  BY KeptExists
<1>2. Kept(s, keep) = g[Len(s)]
  BY DEF Kept, KeptStep
<1> QED BY <1>1, <1>2

\* t holds the first m places of s that are in keep, and f tells which.
Thinned(t, s, keep, m, f) ==
    /\ f \in [1..Len(t) -> keep \cap (1..m)]
    /\ \A j, k \in 1..Len(t) : j < k => f[j] < f[k]
    /\ \A i \in keep \cap (1..m) : \E k \in 1..Len(t) : f[k] = i
    /\ \A k \in 1..Len(t) : t[k] = s[f[k]]

\* The rows that stay are those at the places kept, in the order they had.
LEMMA KeptFacts ==
    ASSUME NEW X, NEW s \in Seq(X), NEW keep
    PROVE  /\ Kept(s, keep) \in Seq(X)
           /\ \E f : Thinned(Kept(s, keep), s, keep, Len(s), f)
<1>1. PICK g : /\ g = [n \in 0..Len(s) |-> KeptStep(s, keep, g, n)]
               /\ Kept(s, keep) = g[Len(s)]
  <2>1. Len(s) \in Nat
    OBVIOUS
  <2> QED BY <2>1, KeptUnfold
<1>2. /\ g[0] = <<>>
      /\ \A m \in 0..Len(s) : m + 1 <= Len(s) =>
           g[m + 1] = IF m + 1 \in keep THEN Append(g[m], s[m + 1]) ELSE g[m]
  <2>1. \A n \in 0..Len(s) : g[n] = KeptStep(s, keep, g, n)
    BY <1>1
  <2>2. ASSUME NEW m \in 0..Len(s), m + 1 <= Len(s)
        PROVE  g[m + 1] = IF m + 1 \in keep THEN Append(g[m], s[m + 1]) ELSE g[m]
    <3>1. g[m + 1] = KeptStep(s, keep, g, m + 1)
      BY <2>1, <2>2
    <3>2. (m + 1) - 1 = m /\ m + 1 # 0
      OBVIOUS
    <3> QED BY <3>1, <3>2 DEF KeptStep
  <2> QED BY <2>1, <2>2 DEF KeptStep
<1> DEFINE S == {m \in Nat : m <= Len(s) =>
                    /\ g[m] \in Seq(X) /\ \E f : Thinned(g[m], s, keep, m, f)}
<1>3. 0 \in S
  <2> DEFINE f == [k \in 1..0 |-> 0]
  <2>1. Len(<<>>) = 0 /\ 1..0 = {} /\ f \in [1..0 -> keep \cap (1..0)]
    OBVIOUS
  <2> HIDE DEF f
  <2>2. Thinned(<<>>, s, keep, 0, f)
    BY <2>1 DEF Thinned
  <2>3. <<>> \in Seq(X)
    OBVIOUS
  <2> QED BY <1>2, <2>2, <2>3
<1>4. ASSUME NEW m \in Nat, m \in S PROVE m + 1 \in S
  <2> SUFFICES ASSUME m + 1 <= Len(s)
               PROVE  /\ g[m + 1] \in Seq(X)
                      /\ \E f : Thinned(g[m + 1], s, keep, m + 1, f)
    OBVIOUS
  <2> DEFINE t == g[m]
  <2>1. t \in Seq(X) /\ s[m + 1] \in X
    BY <1>4
  <2>2. PICK f : Thinned(t, s, keep, m, f)
    BY <1>4
  <2>3. CASE m + 1 \in keep
    <3>1. g[m + 1] = Append(t, s[m + 1])
      <4>1. m \in 0..Len(s)
        OBVIOUS
      <4> QED BY <1>2, <2>3, <4>1
    <3> HIDE DEF t
    <3> DEFINE u == Append(t, s[m + 1])
               h == [k \in 1..(Len(t) + 1) |-> IF k <= Len(t) THEN f[k] ELSE m + 1]
    <3>2. /\ u \in Seq(X) /\ Len(u) = Len(t) + 1 /\ u[Len(t) + 1] = s[m + 1]
          /\ \A k \in 1..Len(t) : u[k] = t[k]
      BY <2>1
    <3>3. Len(t) \in Nat
      BY <2>1
    <3> HIDE DEF u
    <3>4. h \in [1..Len(u) -> keep \cap (1..(m + 1))]
      <4>1. \A k \in 1..Len(t) : f[k] \in keep \cap (1..m)
        BY <2>2 DEF Thinned
      <4> QED BY <2>3, <3>2, <3>3, <4>1
    <3>5. \A j, k \in 1..Len(u) : j < k => h[j] < h[k]
      <4>1. \A k \in 1..Len(t) : f[k] \in 1..m
        BY <2>2 DEF Thinned
      <4> QED BY <2>2, <3>2, <3>3, <4>1 DEF Thinned
    <3>6. \A i \in keep \cap (1..(m + 1)) : \E k \in 1..Len(u) : h[k] = i
      <4> TAKE i \in keep \cap (1..(m + 1))
      <4>1. CASE i = m + 1
        BY <3>2, <3>3, <4>1
      <4>2. CASE i # m + 1
        <5>1. PICK k \in 1..Len(t) : f[k] = i
          BY <2>2, <4>2 DEF Thinned
        <5>2. k \in 1..Len(u) /\ h[k] = i
          BY <3>2, <3>3, <5>1
        <5> QED BY <5>2
      <4> QED BY <4>1, <4>2
    <3>7. \A k \in 1..Len(u) : u[k] = s[h[k]]
      BY <2>2, <3>2, <3>3 DEF Thinned
    <3> HIDE DEF h
    <3>8. Thinned(u, s, keep, m + 1, h)
      BY <3>4, <3>5, <3>6, <3>7 DEF Thinned
    <3> QED BY <3>1, <3>2, <3>8 DEF u
  <2>4. CASE m + 1 \notin keep
    <3>1. g[m + 1] = t
      BY <1>2, <2>4
    <3> HIDE DEF t
    <3>2. keep \cap (1..(m + 1)) = keep \cap (1..m)
      BY <2>4
    <3>3. Thinned(t, s, keep, m + 1, f)
      BY <2>2, <3>2 DEF Thinned
    <3> QED BY <2>1, <3>1, <3>3
  <2> QED BY <2>3, <2>4
<1>5. Nat \subseteq S
  <2> HIDE DEF S
  <2> QED BY <1>3, <1>4, SetInduction
<1>6. Len(s) \in S
  BY <1>5
<1> QED BY <1>1, <1>6

-----------------------------------------------------------------------------
(***************************************************************************)
(* The type invariant: while the counters of a peer are written, the       *)
(* goroutine holds that peer and what GetStatus said of it.                *)
(***************************************************************************)
Visiting == pc = "stats" => cur \in Peers /\ status[cur] # None

Inv == TypeOK /\ Visiting

LEMMA InitInv == Init => Inv
<1> SUFFICES ASSUME Init PROVE Inv
  OBVIOUS
<1>1. logs \in Seq(LogRow)
  BY DEF Init
<1>2. alerts \in [Peers -> Told]
  <2>1. [event |-> None, opposite |-> FALSE, n |-> 0] \in Told
    BY DEF Told
  <2> QED BY <2>1 DEF Init
<1>3. 0 \in Time /\ 0 \in 0..MaxCrashes
  BY DEF Time
<1> QED BY <1>1, <1>2, <1>3 DEF Init, Inv, TypeOK, Visiting, NoneOf

\* A DELETE leaves a log.
LEMMA KeptType == ASSUME TypeOK, NEW keep PROVE Kept(logs, keep) \in Seq(LogRow)
BY KeptFacts DEF TypeOK

LEMMA LastConnectedType == ASSUME TypeOK, NEW p \in Peers PROVE LastConnected(p) \in Time
<1>1. CASE Opening(p) = {}
  BY <1>1 DEF LastConnected, Time
<1>2. CASE Opening(p) # {}
  <2> DEFINE n == CHOOSE n \in Opening(p) : \A m \in Opening(p) : m <= n
  <2>1. Len(logs) \in Nat /\ Opening(p) \in SUBSET (1..Len(logs))
    BY DEF Opening, RowsOf, TypeOK
  <2>2. n \in 1..Len(logs)
    <3>1. \E k \in Opening(p) : \A m \in Opening(p) : m <= k
      BY <1>2, <2>1, LastPlace
    <3>2. n \in Opening(p)
      BY <3>1
    <3> QED BY <2>1, <3>2
  <2>3. LastConnected(p) = logs[n].at
    BY <1>2 DEF LastConnected
  <2> HIDE DEF n
  <2>4. logs[n] \in LogRow
    BY <2>2 DEF TypeOK
  <2> QED BY <2>3, <2>4 DEF LogRow
<1> QED BY <1>1, <1>2

LEMMA WorldInv == ASSUME Inv, World PROVE Inv'
<1>1. CASE Tick
  BY <1>1 DEF Tick, poller, Inv, TypeOK, Visiting, Time
<1>2. CASE Kick
  BY <1>2 DEF Kick, poller, world, Inv, TypeOK, Visiting
<1>3. ASSUME NEW p \in Peers, Handshake(p) PROVE Inv'
  <2>1. PICK x \in Rx : live' = [live EXCEPT ![p] = [hs |-> now, rx |-> x]]
    BY <1>3 DEF Handshake
  <2>2. [hs |-> now, rx |-> x] \in Live
    BY DEF Inv, TypeOK, Live
  <2>3. live' \in [Peers -> Live \cup {None}]
    BY <2>1, <2>2 DEF Inv, TypeOK
  <2> QED BY <1>3, <2>3 DEF Handshake, poller, Inv, TypeOK, Visiting
<1>4. ASSUME NEW p \in Peers, SetLive(p) PROVE Inv'
  <2>1. [hs |-> 0, rx |-> 0] \in Live
    BY DEF Live, Time
  <2>2. live' \in [Peers -> Live \cup {None}]
    BY <1>4, <2>1 DEF SetLive, Inv, TypeOK
  <2> QED BY <1>4, <2>2 DEF SetLive, poller, Inv, TypeOK, Visiting
<1>5. ASSUME NEW p \in Peers, AddPeer(p) PROVE Inv'
  <2>1. PICK i \in Ifaces, a \in AlertChoices :
          row' = [row EXCEPT ![p] = [iface |-> i, rx |-> 0, alert |-> a]]
    BY <1>5 DEF AddPeer
  <2>2. [iface |-> i, rx |-> 0, alert |-> a] \in Row
    BY ChoicesAssumption DEF Row
  <2>3. row' \in [Peers -> Row \cup {None}]
    BY <2>1, <2>2 DEF Inv, TypeOK
  <2> QED BY <1>5, <2>3 DEF AddPeer, poller, Inv, TypeOK, Visiting
<1>6. ASSUME NEW p \in Peers, RemovePeer(p) PROVE Inv'
  <2>1. logs' \in Seq(LogRow)
    BY <1>6, KeptType DEF RemovePeer, Inv, TypeOK
  <2>2. row' \in [Peers -> Row \cup {None}]
    BY <1>6 DEF RemovePeer, Inv, TypeOK
  <2> QED BY <1>6, <2>1, <2>2 DEF RemovePeer, poller, Inv, TypeOK, Visiting
<1>7. ASSUME NEW i \in Ifaces, SetEnabled(i) PROVE Inv'
  <2>1. enabled' \in [Ifaces -> BOOLEAN]
    BY <1>7 DEF SetEnabled, Inv, TypeOK
  <2> QED BY <1>7, <2>1 DEF SetEnabled, poller, Inv, TypeOK, Visiting
<1>8. ASSUME NEW p \in Peers, SetAlerts(p) PROVE Inv'
  <2>1. PICK a \in AlertChoices : row' = [row EXCEPT ![p].alert = a]
    BY <1>8 DEF SetAlerts
  <2>2. row[p] \in Row
    BY <1>8 DEF SetAlerts, Inv, TypeOK
  <2>3. [row[p] EXCEPT !.alert = a] \in Row
    BY <2>2, ChoicesAssumption DEF Row
  <2>4. row' \in [Peers -> Row \cup {None}]
    BY <2>1, <2>3 DEF Inv, TypeOK
  <2> QED BY <1>8, <2>4 DEF SetAlerts, poller, Inv, TypeOK, Visiting
<1> QED BY <1>1, <1>2, <1>3, <1>4, <1>5, <1>6, <1>7, <1>8 DEF World

\* The snapshot poll stores has its type.
LEMMA SinceType ==
    ASSUME Inv, pc = "stats"
    PROVE  /\ SinceOf(cur) \in Time
           /\ [connected |-> status[cur].connected, since |-> SinceOf(cur),
               rx |-> status[cur].rx] \in Snapshot
<1>1. cur \in Peers /\ status[cur] \in Status
  BY DEF Inv, Visiting, TypeOK
<1>2. status[cur].hs \in Time /\ status[cur].connected \in BOOLEAN /\ status[cur].rx \in Rx
  BY <1>1 DEF Status
<1>3. Prev(cur) # None => Prev(cur).since \in Time
  BY <1>1 DEF Prev, Inv, TypeOK, Snapshot
<1>4. seed[cur] \in Time /\ 0 \in Time
  BY <1>1 DEF Inv, TypeOK, Time
<1>5. SinceOf(cur) \in Time
  BY <1>2, <1>3, <1>4, Zenon DEF SinceOf
<1> QED BY <1>2, <1>5 DEF Snapshot

\* What is told of a change: that change itself, or that the last alert is out
\* of date when it said the opposite.
LEMMA TellingFacts ==
    ASSUME Inv, NEW p \in Peers, EventOf(p) \in Events
    PROVE  /\ Telling(p) \in Told
           /\ \/ Telling(p).event = EventOf(p) /\ ~Telling(p).opposite
              \/ /\ Telling(p).event = alerts[p].event
                 /\ Telling(p).opposite = (alerts[p].opposite \/ alerts[p].event # EventOf(p))
<1> DEFINE e == alerts[p].event
           o == alerts[p].opposite
           m == alerts[p].n + 1
           b == o \/ e # EventOf(p)
<1>1. alerts[p] \in Told
  BY DEF Inv, TypeOK
<1>2. e \in Events \cup {None} /\ o \in BOOLEAN /\ m \in Nat
  BY <1>1 DEF Told
<1>3. b \in BOOLEAN
  BY <1>2
<1>4. Telling(p) = IF ShouldAlert(p) THEN [event |-> EventOf(p), opposite |-> FALSE, n |-> m]
                   ELSE [event |-> e, opposite |-> b, n |-> m]
  BY DEF Telling
<1>5. alerts[p].event = e /\ (alerts[p].opposite \/ alerts[p].event # EventOf(p)) = b
  OBVIOUS
<1> HIDE DEF b, e, o, m
<1>6. CASE ShouldAlert(p)
  BY <1>2, <1>4, <1>6 DEF Told
<1>7. CASE ~ShouldAlert(p)
  <2>1. Telling(p) = [event |-> e, opposite |-> b, n |-> m]
    BY <1>4, <1>7
  <2>2. Telling(p) \in Told
    BY <1>2, <1>3, <2>1 DEF Told
  <2>3. Telling(p).event = e /\ Telling(p).opposite = b
    BY <2>1
  <2> QED BY <1>5, <2>2, <2>3
<1> QED BY <1>6, <1>7

LEMMA VisitInv == ASSUME Inv, Visit PROVE Inv'
<1>1. /\ UNCHANGED <<now, row, born, enabled, live, lastState, seed, todo, status, notify, crashes>>
  BY DEF Visit, world
<1>2. CASE Pending = {}
  BY <1>1, <1>2 DEF Visit, Inv, TypeOK, Visiting
<1>3. CASE Pending # {}
  <2>1. PICK p \in Pending :
          /\ pc' = "stats" /\ cur' = p
          /\ IF ~Transition(p) THEN UNCHANGED <<logs, alerts, lost>>
             ELSE /\ \/ /\ logs' = Append(logs, [peer |-> p, event |-> EventOf(p),
                                                 at |-> now, epoch |-> crashes])
                        /\ UNCHANGED lost
                     \/ /\ lost' = lost \cup {<<p, crashes>>}
                        /\ UNCHANGED logs
                  /\ alerts' = [alerts EXCEPT ![p] = Telling(p)]
    BY <1>3, Zenon DEF Visit
  <2>2. p \in Peers /\ status[p] # None /\ EventOf(p) \in Events
    BY DEF Pending, EventOf, Events
  <2>3. [peer |-> p, event |-> EventOf(p), at |-> now, epoch |-> crashes] \in LogRow
    BY <2>2 DEF LogRow, Inv, TypeOK
  <2>4. logs' \in Seq(LogRow)
    <3> DEFINE r == [peer |-> p, event |-> EventOf(p), at |-> now, epoch |-> crashes]
    <3>1. r \in LogRow /\ (logs' = logs \/ logs' = Append(logs, r))
      BY <2>1, <2>3
    <3> HIDE DEF r
    <3>2. logs \in Seq(LogRow)
      BY DEF Inv, TypeOK
    <3> QED BY <3>1, <3>2
  <2>5. lost' \subseteq Peers \X (0..MaxCrashes)
    BY <2>1, <2>2 DEF Inv, TypeOK
  <2>6. alerts' \in [Peers -> Told]
    <3>1. Telling(p) \in Told
      BY <2>2, TellingFacts
    <3>2. alerts' = alerts \/ alerts' = [alerts EXCEPT ![p] = Telling(p)]
      BY <2>1
    <3> QED BY <2>2, <3>1, <3>2 DEF Inv, TypeOK
  <2> QED BY <1>1, <2>1, <2>2, <2>4, <2>5, <2>6 DEF Inv, TypeOK, Visiting
<1> QED BY <1>2, <1>3

LEMMA WriteStatsInv == ASSUME Inv, WriteStats PROVE Inv'
<1> DEFINE snap == [connected |-> status[cur].connected, since |-> SinceOf(cur),
                    rx |-> status[cur].rx]
<1>1. /\ pc = "stats" /\ pc' = "visit" /\ cur' = None
      /\ UNCHANGED <<now, born, enabled, live, logs, seed, todo, notify, alerts, lost, crashes>>
      /\ lastState' = [lastState EXCEPT ![cur] = snap]
      /\ status' = [status EXCEPT ![cur] = None]
  BY DEF WriteStats
<1>2. snap \in Snapshot
  BY <1>1, SinceType
<1>3. cur \in Peers /\ status[cur] \in Status
  BY <1>1 DEF Inv, Visiting, TypeOK
<1>4. row' \in [Peers -> Row \cup {None}]
  <2>1. row' = row \/ row' = [row EXCEPT ![cur] = WrittenBack(cur)]
    BY DEF WriteStats
  <2>2. WrittenBack(cur) \in Row \cup {None}
    <3> DEFINE x == status[cur].rx
               a == status[cur].alert
    <3>1. x \in Rx /\ a \in SUBSET Events /\ row[cur] \in Row \cup {None}
      BY <1>3 DEF Inv, TypeOK, Status
    <3>2. WrittenBack(cur) = IF row[cur] = None THEN None
                             ELSE [row[cur] EXCEPT !.rx = x, !.alert = a]
      BY DEF WrittenBack
    <3> HIDE DEF x, a
    <3> QED BY <3>1, <3>2 DEF Row
  <2> QED BY <1>3, <2>1, <2>2 DEF Inv, TypeOK
<1> HIDE DEF snap
<1>5. /\ lastState' \in [Peers -> Snapshot \cup {None}]
      /\ status' \in [Peers -> Status \cup {None}]
  BY <1>1, <1>2, <1>3 DEF Inv, TypeOK
<1> QED BY <1>1, <1>4, <1>5 DEF Inv, TypeOK, Visiting

LEMMA WaitInv ==
    ASSUME Inv, Wait, UNCHANGED <<world, logs, lastState, notify, alerts, lost, crashes>>
    PROVE  Inv'
BY DEF Wait, NoneOf, world, Inv, TypeOK, Visiting, Time

LEMMA NextInv == ASSUME Inv, [Next]_vars PROVE Inv'
<1>1. CASE LoadSeed
  <2>1. seed' \in [Peers -> Time]
    BY <1>1, LastConnectedType DEF LoadSeed, Inv, TypeOK
  <2> QED BY <1>1, <2>1 DEF LoadSeed, world, Inv, TypeOK, Visiting
<1>2. CASE ListInterfaces
  <2>1. CASE Wait
    BY <1>2, <2>1, WaitInv DEF ListInterfaces
  <2>2. CASE ~Wait
    BY <1>2, <2>2 DEF ListInterfaces, world, Inv, TypeOK, Visiting
  <2> QED BY <2>1, <2>2
<1>3. CASE NextInterface
  <2>1. CASE todo = {}
    BY <1>3, <2>1, WaitInv DEF NextInterface
  <2>2. CASE todo # {}
    <3>2. /\ status' \in [Peers -> Status \cup {None}]
          /\ pc' \in {"device", "next"} /\ todo' \subseteq Ifaces
      <4>1. PICK i \in todo :
              /\ todo' = todo \ {i}
              /\ \/ /\ pc' = "device"
                    /\ status' = [p \in Peers |->
                          IF row[p] # None /\ row[p].iface = i
                          THEN [connected |-> FALSE, hs |-> 0, rx |-> 0,
                                alert |-> row[p].alert] ELSE None]
                 \/ UNCHANGED <<pc, status>>
        BY <1>3, <2>2 DEF NextInterface
      <4>2. status' \in [Peers -> Status \cup {None}]
        <5> DEFINE fresh(p) == [connected |-> FALSE, hs |-> 0, rx |-> 0,
                                alert |-> row[p].alert]
                   new == [p \in Peers |-> IF row[p] # None /\ row[p].iface = i
                                            THEN fresh(p) ELSE None]
        <5>1. status' = status \/ status' = new
          BY <4>1
        <5> HIDE DEF fresh
        <5>2. \A p \in Peers : row[p] # None => fresh(p) \in Status
          <6> TAKE p \in Peers
          <6> HAVE row[p] # None
          <6>1. row[p].alert \in SUBSET Events
            BY DEF Inv, TypeOK, Row
          <6> QED BY <6>1 DEF fresh, Status, Time
        <5>3. new \in [Peers -> Status \cup {None}]
          BY <5>2
        <5> HIDE DEF new
        <5> QED BY <5>1, <5>3 DEF Inv, TypeOK
      <4>3. pc = "next" /\ todo \subseteq Ifaces
        BY <1>3 DEF NextInterface, Inv, TypeOK
      <4> QED BY <4>1, <4>2, <4>3
    <3> QED BY <1>3, <2>2, <3>2 DEF NextInterface, world, Inv, TypeOK, Visiting
  <2> QED BY <2>1, <2>2
<1>4. CASE ReadDevice
  <2>1. \A p \in Peers : (live[p] # None /\ status[p] # None) =>
          [status[p] EXCEPT !.connected = Alive(live[p]), !.hs = live[p].hs,
                            !.rx = live[p].rx] \in Status
    <3> TAKE p \in Peers
    <3> HAVE live[p] # None /\ status[p] # None
    <3> DEFINE c == Alive(live[p])
               h == live[p].hs
               x == live[p].rx
    <3>1. h \in Time /\ x \in Rx
      BY DEF Inv, TypeOK, Live
    <3>2. c \in BOOLEAN
      BY DEF Alive
    <3>3. status[p] \in Status
      BY DEF Inv, TypeOK
    <3> HIDE DEF c, h, x
    <3>4. [status[p] EXCEPT !.connected = c, !.hs = h, !.rx = x] \in Status
      BY <3>1, <3>2, <3>3 DEF Status
    <3> QED BY <3>4 DEF c, h, x
  <2>2. status' \in [Peers -> Status \cup {None}]
    BY <1>4, <2>1 DEF ReadDevice, Inv, TypeOK
  <2> QED BY <1>4, <2>2 DEF ReadDevice, world, Inv, TypeOK, Visiting
<1>5. CASE TickerPoll \/ KickPoll
  BY <1>5 DEF TickerPoll, KickPoll, world, Inv, TypeOK, Visiting
<1>6. CASE Cleanup
  <2>1. logs' \in Seq(LogRow)
    BY <1>6, KeptType DEF Cleanup, Inv, TypeOK
  <2> QED BY <1>6, <2>1 DEF Cleanup, world, poller, Inv, TypeOK, Visiting
<1>7. CASE Crash
  <2>1. alerts' \in [Peers -> Told]
    <3>1. \A p \in Peers : [event |-> None, opposite |-> FALSE, n |-> alerts[p].n] \in Told
      BY DEF Inv, TypeOK, Told
    <3>2. alerts' = [p \in Peers |->
                        [event |-> None, opposite |-> FALSE, n |-> alerts[p].n]]
      BY <1>7 DEF Crash
    <3> QED BY <3>1, <3>2
  <2>2. /\ lastState' \in [Peers -> Snapshot \cup {None}]
        /\ status' \in [Peers -> Status \cup {None}]
        /\ seed' \in [Peers -> Time]
    BY <1>7 DEF Crash, NoneOf, Time
  <2>3. crashes' \in 0..MaxCrashes
    BY <1>7 DEF Crash, Inv, TypeOK
  <2> QED BY <1>7, <2>1, <2>2, <2>3 DEF Crash, Inv, TypeOK, Visiting
<1>8. CASE UNCHANGED vars
  BY <1>8 DEF vars, world, poller, Inv, TypeOK, Visiting
<1> QED BY <1>1, <1>2, <1>3, <1>4, <1>5, <1>6, <1>7, <1>8, WorldInv, VisitInv, WriteStatsInv
        DEF Next, PollStep

(***************************************************************************)
(* The poller's tables, snapshots and log are well typed whatever fails,   *)
(* restarts or changes meanwhile; its status answer is always there for    *)
(* the peer whose counters it writes.                                      *)
(***************************************************************************)
THEOREM TypeOKCorrect == Spec => []TypeOK
BY InitInv, NextInv, PTL DEF Spec, Inv

-----------------------------------------------------------------------------
(***************************************************************************)
(* What the goroutine holds of a peer decides the next row and alert.      *)
(***************************************************************************)

\* The answer the next one will be compared with.
LastSeen(p) == IF pc = "stats" /\ cur = p THEN EventOf(p)
               ELSE IF lastState[p].connected THEN "connected" ELSE "disconnected"

\* The last alert of this process agrees with it, unless the opposite change
\* was found since ...
AlertInv == \A p \in Peers : alerts[p].event # None =>
                /\ lastState[p] # None
                /\ alerts[p].opposite \/ LastSeen(p) = alerts[p].event

\* ... and so does the last row of a peer, if this process wrote it ...
LastRowInv ==
    \A k \in 1..Len(logs) :
        LET p == logs[k].peer
        IN (/\ logs[k].epoch = crashes /\ <<p, crashes>> \notin lost
            /\ \A m \in (k + 1)..Len(logs) : logs[m].peer # p) =>
                lastState[p] # None /\ LastSeen(p) = logs[k].event

\* ... and the rows stand in the order of their times.
Ordered ==
    /\ \A k \in 1..Len(logs) : logs[k].at <= now /\ logs[k].epoch <= crashes
    /\ \A j, k \in 1..Len(logs) : j < k => logs[j].at <= logs[k].at

LogInv == Ordered /\ LastRowInv /\ LogAlternates

LEMMA InitLog == Init => AlertInv /\ LogInv
BY DEF Init, AlertInv, LogInv, Ordered, LastRowInv, LogAlternates

\* The two ways a poll visits a peer.
Notes(p) ==
    /\ Transition(p)
    /\ \/ /\ logs' = Append(logs, [peer |-> p, event |-> EventOf(p), at |-> now,
                                   epoch |-> crashes])
          /\ UNCHANGED lost
       \/ /\ lost' = lost \cup {<<p, crashes>>}
          /\ UNCHANGED logs
    /\ alerts' = [alerts EXCEPT ![p] = Telling(p)]

LEMMA VisitFacts ==
    ASSUME Visit
    PROVE  /\ pc = "visit" /\ UNCHANGED <<now, lastState, status, crashes>>
           /\ \/ pc' = "next" /\ UNCHANGED <<logs, alerts, lost>>
              \/ \E p \in Peers : /\ pc' = "stats" /\ cur' = p /\ status[p] # None
                                  /\ \/ ~Transition(p) /\ UNCHANGED <<logs, alerts, lost>>
                                     \/ Notes(p)
<1>1. pc = "visit" /\ UNCHANGED <<now, lastState, status, crashes>>
  BY DEF Visit, world
<1>2. CASE Pending = {}
  BY <1>1, <1>2 DEF Visit
<1>3. CASE Pending # {}
  <2>1. PICK p \in Pending :
          /\ pc' = "stats" /\ cur' = p
          /\ IF ~Transition(p) THEN UNCHANGED <<logs, alerts, lost>>
             ELSE /\ \/ /\ logs' = Append(logs, [peer |-> p, event |-> EventOf(p),
                                                 at |-> now, epoch |-> crashes])
                        /\ UNCHANGED lost
                     \/ /\ lost' = lost \cup {<<p, crashes>>}
                        /\ UNCHANGED logs
                  /\ alerts' = [alerts EXCEPT ![p] = Telling(p)]
    BY <1>3, Zenon DEF Visit
  <2>2. p \in Peers /\ status[p] # None
    BY DEF Pending
  <2>3. (~Transition(p) /\ UNCHANGED <<logs, alerts, lost>>) \/ Notes(p)
    BY <2>1 DEF Notes
  <2> QED BY <1>1, <2>1, <2>2, <2>3
<1> QED BY <1>2, <1>3

\* What a step does to the log and the alerts, and to what the goroutine has
\* seen of a peer.
LEMMA SeenFrame ==
    ASSUME NEW p \in Peers, UNCHANGED lastState, pc # "stats", pc' # "stats"
    PROVE  LastSeen(p)' = LastSeen(p)
BY DEF LastSeen

LEMMA SeenStill ==
    ASSUME NEW p \in Peers, UNCHANGED <<lastState, pc, cur, status>>
    PROVE  LastSeen(p)' = LastSeen(p)
BY DEF LastSeen, EventOf

\* A visit that notes nothing changes nothing that was seen.
LEMMA SeenVisit ==
    ASSUME Inv, NEW p \in Peers, pc = "visit", pc' = "stats", cur' = p,
           UNCHANGED <<lastState, status>>, ~Transition(p), lastState[p] # None
    PROVE  LastSeen(p)' = LastSeen(p)
BY DEF LastSeen, EventOf, Transition, Prev

LEMMA SeenWrite ==
    ASSUME Inv, WriteStats, NEW p \in Peers, lastState[p] # None
    PROVE  lastState'[p] # None /\ LastSeen(p)' = LastSeen(p)
<1> DEFINE snap == [connected |-> status[cur].connected, since |-> SinceOf(cur),
                    rx |-> status[cur].rx]
<1>1. /\ pc = "stats" /\ pc' = "visit" /\ cur \in Peers
      /\ lastState' = [lastState EXCEPT ![cur] = snap]
  BY DEF WriteStats, Inv, Visiting
<1>2. snap # None /\ snap.connected = status[cur].connected
  BY <1>1, SinceType
<1> HIDE DEF snap
<1> QED BY <1>1, <1>2 DEF LastSeen, EventOf, Inv, TypeOK

\* A DELETE that spares a row spares the later rows of its peer.
Spares(keep) ==
    /\ keep \subseteq 1..Len(logs)
    /\ \A k \in keep, m \in 1..Len(logs) :
            (k < m /\ logs[m].peer = logs[k].peer) => m \in keep

\* The three kinds of steps: nothing is noted; a difference is noted; restart.
Quiet ==
    /\ UNCHANGED <<alerts, lost, crashes>> /\ now <= now'
    /\ UNCHANGED logs \/ \E keep : Spares(keep) /\ logs' = Kept(logs, keep)
    /\ \A p \in Peers : lastState[p] # None =>
            lastState'[p] # None /\ LastSeen(p)' = LastSeen(p)

Noted(p) ==
    /\ pc = "visit" /\ pc' = "stats" /\ cur' = p /\ status[p] # None
    /\ UNCHANGED <<now, lastState, status, crashes>> /\ Notes(p)

LEMMA DeletesSpare ==
    ASSUME Inv, Ordered
    PROVE  /\ \A p \in Peers : Spares((1..Len(logs)) \ RowsOf(p))
           /\ Spares({n \in 1..Len(logs) : ~Expired(logs[n])})
<1>1. ASSUME NEW p \in Peers PROVE Spares((1..Len(logs)) \ RowsOf(p))
  BY DEF Spares, RowsOf
<1>2. Spares({n \in 1..Len(logs) : ~Expired(logs[n])})
  <2> SUFFICES ASSUME NEW k \in 1..Len(logs), ~Expired(logs[k]), NEW m \in 1..Len(logs), k < m
               PROVE  ~Expired(logs[m])
    BY DEF Spares
  <2>1. logs[k].at <= logs[m].at
    BY DEF Ordered
  <2>2. logs[k] \in LogRow /\ logs[m] \in LogRow
    BY DEF Inv, TypeOK
  <2>3. logs[k].at \in Nat /\ logs[m].at \in Nat /\ now \in Nat
    <3>1. logs[k].at \in Time /\ logs[m].at \in Time /\ now \in Time
      BY <2>2 DEF LogRow, Inv, TypeOK
    <3> QED BY <3>1 DEF Time
  <2> QED BY <2>1, <2>3 DEF Expired
<1> QED BY <1>1, <1>2

LEMMA StepKinds ==
    ASSUME Inv, Ordered, [Next]_vars
    PROVE  Quiet \/ (\E p \in Peers : Noted(p)) \/ Crash
<1>0. now \in Nat
  BY DEF Inv, TypeOK, Time
<1>1. CASE World
  <2>1. UNCHANGED <<poller, alerts, lost, crashes>> /\ now <= now'
    <3>1. UNCHANGED <<poller, alerts, lost, crashes>> /\ (now' = now \/ now' = now + 1)
      BY <1>1, Zenon DEF World, Tick, Kick, Handshake, SetLive, AddPeer, SetAlerts, RemovePeer,
         SetEnabled, world
    <3> QED BY <1>0, <3>1
  <2>2. UNCHANGED logs \/ \E keep : Spares(keep) /\ logs' = Kept(logs, keep)
    <3>1. ASSUME NEW p \in Peers, RemovePeer(p)
          PROVE  UNCHANGED logs \/ \E keep : Spares(keep) /\ logs' = Kept(logs, keep)
      BY <3>1, DeletesSpare DEF RemovePeer
    <3> QED BY <1>1, <3>1 DEF World, Tick, Kick, Handshake, SetLive, AddPeer, SetAlerts, SetEnabled
  <2> QED BY <2>1, <2>2, SeenStill DEF Quiet, poller
<1>2. CASE Cleanup
  <2>1. UNCHANGED <<poller, alerts, lost, crashes, now>>
    BY <1>2 DEF Cleanup, world
  <2>2. UNCHANGED logs \/ \E keep : Spares(keep) /\ logs' = Kept(logs, keep)
    BY <1>2, DeletesSpare DEF Cleanup
  <2> QED BY <1>0, <2>1, <2>2, SeenStill DEF Quiet, poller
<1>3. CASE LoadSeed \/ ListInterfaces \/ NextInterface \/ ReadDevice \/ TickerPoll \/ KickPoll
  <2>1. UNCHANGED <<logs, alerts, lost, crashes, now, lastState>>
    BY <1>3 DEF LoadSeed, ListInterfaces, NextInterface, ReadDevice, TickerPoll, KickPoll, world
  <2>2. pc # "stats" /\ pc' # "stats"
    BY <1>3 DEF LoadSeed, ListInterfaces, NextInterface, ReadDevice, TickerPoll, KickPoll, Wait
  <2> QED BY <1>0, <2>1, <2>2, SeenFrame DEF Quiet
<1>4. CASE WriteStats
  <2>1. UNCHANGED <<logs, alerts, lost, crashes, now>>
    BY <1>4 DEF WriteStats
  <2> QED BY <1>0, <1>4, <2>1, SeenWrite DEF Quiet
<1>5. CASE Visit
  <2>1. pc = "visit" /\ UNCHANGED <<now, lastState, status, crashes>>
    BY <1>5, VisitFacts
  <2>2. CASE pc' = "next" /\ UNCHANGED <<logs, alerts, lost>>
    BY <1>0, <2>1, <2>2, SeenFrame DEF Quiet
  <2>3. ASSUME NEW p \in Peers, pc' = "stats", cur' = p, ~Transition(p),
               UNCHANGED <<logs, alerts, lost>>
        PROVE  Quiet
    <3>1. ASSUME NEW q \in Peers, lastState[q] # None PROVE LastSeen(q)' = LastSeen(q)
      <4>1. CASE q = p
        BY <2>1, <2>3, <3>1, <4>1, SeenVisit
      <4>2. CASE q # p
        BY <2>1, <2>3, <4>2 DEF LastSeen
      <4> QED BY <4>1, <4>2
    <3> QED BY <1>0, <2>1, <2>3, <3>1 DEF Quiet
  <2>4. ASSUME NEW p \in Peers, pc' = "stats", cur' = p, status[p] # None, Notes(p)
        PROVE  Noted(p)
    BY <2>1, <2>4 DEF Noted
  <2> QED BY <1>5, <2>2, <2>3, <2>4, VisitFacts
<1>6. CASE UNCHANGED vars
  BY <1>0, <1>6, SeenStill DEF Quiet, vars, world, poller
<1> QED BY <1>1, <1>2, <1>3, <1>4, <1>5, <1>6 DEF Next, PollStep

\* What is noted differs from what was seen before.
LEMMA NotedSeen ==
    ASSUME Inv, NEW p \in Peers, Noted(p)
    PROVE  /\ lastState[p] # None /\ UNCHANGED lastState
           /\ LastSeen(p) # EventOf(p) /\ EventOf(p) \in Events
           /\ LastSeen(p)' = EventOf(p)
           /\ \A q \in Peers : q # p => LastSeen(q)' = LastSeen(q)
<1>1. /\ pc = "visit" /\ pc' = "stats" /\ cur' = p /\ UNCHANGED <<lastState, status>>
      /\ Transition(p)
  BY DEF Noted, Notes
<1>2. LastSeen(p) # EventOf(p) /\ lastState[p] # None /\ EventOf(p) \in Events
  <2>1. lastState[p] # None /\ lastState[p].connected # status[p].connected
    BY <1>1 DEF Transition, Prev
  <2>2. lastState[p] \in Snapshot /\ pc # "stats"
    BY <1>1, <2>1 DEF Inv, TypeOK
  <2>3. lastState[p].connected \in BOOLEAN
    BY <2>2 DEF Snapshot
  <2>4. status[p].connected \in BOOLEAN
    <3>1. status[p] \in Status
      BY DEF Noted, Inv, TypeOK
    <3> QED BY <3>1 DEF Status
  <2> QED BY <2>1, <2>2, <2>3, <2>4 DEF LastSeen, EventOf, Events
<1> QED BY <1>1, <1>2 DEF LastSeen, EventOf

LEMMA NextAlert == ASSUME Inv, Ordered, AlertInv, [Next]_vars PROVE AlertInv'
<1>1. CASE Quiet
  BY <1>1 DEF Quiet, AlertInv
<1>2. ASSUME NEW p \in Peers, Noted(p) PROVE AlertInv'
  <2>1. alerts'[p] = Telling(p) /\ \A q \in Peers : q # p => alerts'[q] = alerts[q]
    BY <1>2 DEF Noted, Notes, Inv, TypeOK
  <2>2. /\ lastState'[p] # None /\ UNCHANGED lastState /\ LastSeen(p)' = EventOf(p)
        /\ EventOf(p) \in Events
        /\ \A q \in Peers : q # p => LastSeen(q)' = LastSeen(q)
    BY <1>2, NotedSeen
  <2>3. alerts'[p].opposite \/ alerts'[p].event = EventOf(p)
    BY <2>1, <2>2, TellingFacts
  <2> QED BY <2>1, <2>2, <2>3 DEF AlertInv
<1>3. CASE Crash
  BY <1>3 DEF Crash, AlertInv
<1> QED BY <1>1, <1>2, <1>3, StepKinds

\* After a DELETE the rows that stay are where f says; between two of them, and
\* after one, no row of the same peer has gone.
LEMMA KeptPlaces ==
    ASSUME Inv, NEW keep, Spares(keep), logs' = Kept(logs, keep)
    PROVE  \E f \in [1..Len(logs') -> 1..Len(logs)] :
             /\ \A j, k \in 1..Len(logs') : j < k => f[j] < f[k]
             /\ \A k \in 1..Len(logs') : logs'[k] = logs[f[k]]
             /\ \A k \in 1..Len(logs'), m \in 1..Len(logs) :
                  (f[k] < m /\ logs[m].peer = logs[f[k]].peer) =>
                      \E l \in 1..Len(logs') : f[l] = m /\ k < l
<1> DEFINE t == Kept(logs, keep)
<1>1. t \in Seq(LogRow) /\ logs \in Seq(LogRow) /\ logs' = t
  BY KeptType DEF Inv, TypeOK
<1>2. PICK f : Thinned(t, logs, keep, Len(logs), f)
  BY <1>1, KeptFacts
<1> HIDE DEF t
<1>3. Len(t) \in Nat /\ Len(logs) \in Nat
  BY <1>1
<1>4. keep \cap (1..Len(logs)) = keep
  BY DEF Spares
<1>5. /\ f \in [1..Len(t) -> keep]
      /\ \A j, k \in 1..Len(t) : j < k => f[j] < f[k]
      /\ \A i \in keep : \E k \in 1..Len(t) : f[k] = i
      /\ \A k \in 1..Len(t) : t[k] = logs[f[k]]
  BY <1>2, <1>4 DEF Thinned
<1>6. f \in [1..Len(t) -> 1..Len(logs)]
  BY <1>5 DEF Spares
<1>7. ASSUME NEW k \in 1..Len(t), NEW m \in 1..Len(logs), f[k] < m,
             logs[m].peer = logs[f[k]].peer
      PROVE  \E l \in 1..Len(t) : f[l] = m /\ k < l
  <2>1. m \in keep
    BY <1>5, <1>7 DEF Spares
  <2>2. PICK l \in 1..Len(t) : f[l] = m
    BY <1>5, <2>1
  <2>3. f[l] \in Nat /\ f[k] \in Nat /\ l \in Nat /\ k \in Nat
    <3>1. f[l] \in 1..Len(logs) /\ f[k] \in 1..Len(logs)
      BY <1>6
    <3> QED BY <1>3, <3>1
  <2>4. ~ (l <= k)
    <3>1. l < k => f[l] < f[k]
      BY <1>5
    <3> QED BY <1>7, <2>2, <2>3, <3>1
  <2> QED BY <2>2, <2>3, <2>4
<1>8. logs' = t
  BY <1>1
<1>9. /\ f \in [1..Len(logs') -> 1..Len(logs)]
      /\ \A j, k \in 1..Len(logs') : j < k => f[j] < f[k]
      /\ \A k \in 1..Len(logs') : logs'[k] = logs[f[k]]
      /\ \A k \in 1..Len(logs'), m \in 1..Len(logs) :
           (f[k] < m /\ logs[m].peer = logs[f[k]].peer) =>
               \E l \in 1..Len(logs') : f[l] = m /\ k < l
  BY <1>5, <1>6, <1>7, <1>8
<1> QED BY <1>9, Zenon

LEMMA KeptLog ==
    ASSUME Inv, Inv', LogInv, NEW keep, Spares(keep), logs' = Kept(logs, keep), Quiet
    PROVE  LogInv'
<1>1. PICK f \in [1..Len(logs') -> 1..Len(logs)] :
         /\ \A j, k \in 1..Len(logs') : j < k => f[j] < f[k]
         /\ \A k \in 1..Len(logs') : logs'[k] = logs[f[k]]
         /\ \A k \in 1..Len(logs'), m \in 1..Len(logs) :
              (f[k] < m /\ logs[m].peer = logs[f[k]].peer) =>
                  \E l \in 1..Len(logs') : f[l] = m /\ k < l
  BY KeptPlaces
<1>2. logs \in Seq(LogRow) /\ logs' \in Seq(LogRow) /\ Len(logs) \in Nat /\ Len(logs') \in Nat
  <2>1. logs \in Seq(LogRow) /\ logs' \in Seq(LogRow)
    BY KeptType DEF Inv, TypeOK
  <2> QED BY <2>1
<1>3. UNCHANGED <<lost, crashes>> /\ now <= now'
  BY DEF Quiet
<1>4. Ordered'
  <2>1. ASSUME NEW k \in 1..Len(logs') PROVE logs'[k].at <= now' /\ logs'[k].epoch <= crashes'
    <3>1. logs[f[k]] \in LogRow /\ logs[f[k]].at <= now /\ logs[f[k]].epoch <= crashes
      BY <1>2, <2>1 DEF LogInv, Ordered
    <3>2. logs[f[k]].at \in Time /\ now \in Time
      BY <3>1 DEF LogRow, Inv, TypeOK
    <3>3. logs[f[k]].at <= now'
      <4>1. now' \in Time
        BY DEF Inv, TypeOK
      <4> QED BY <1>3, <3>1, <3>2, <4>1 DEF Time
    <3> QED BY <1>1, <1>3, <2>1, <3>1, <3>3
  <2>2. ASSUME NEW j \in 1..Len(logs'), NEW k \in 1..Len(logs'), j < k
        PROVE  logs'[j].at <= logs'[k].at
    <3>1. f[j] < f[k] /\ f[j] \in 1..Len(logs) /\ f[k] \in 1..Len(logs)
      BY <1>1, <2>2
    <3> QED BY <1>1, <2>2, <3>1 DEF LogInv, Ordered
  <2> QED BY <2>1, <2>2 DEF Ordered
<1>5. LogAlternates'
  <2> SUFFICES ASSUME NEW i \in 1..Len(logs'), NEW j \in 1..Len(logs'), Neighbours(i, j)',
                      <<logs'[i].peer, logs'[i].epoch>> \notin lost
               PROVE  logs'[i].event # logs'[j].event
    BY <1>3 DEF LogAlternates
  <2>1. /\ i < j /\ logs'[i].peer = logs'[j].peer /\ logs'[i].epoch = logs'[j].epoch
        /\ \A k \in (i + 1)..(j - 1) : logs'[k].peer # logs'[i].peer
    BY DEF Neighbours
  <2>2. f[i] \in 1..Len(logs) /\ f[j] \in 1..Len(logs) /\ f[i] < f[j]
        /\ logs'[i] = logs[f[i]] /\ logs'[j] = logs[f[j]]
    BY <1>1, <2>1
  <2>3. ASSUME NEW m \in (f[i] + 1)..(f[j] - 1), logs[m].peer = logs[f[i]].peer PROVE FALSE
    <3>1. m \in 1..Len(logs) /\ f[i] < m /\ m < f[j]
      BY <2>2
    <3>2. PICK l \in 1..Len(logs') : f[l] = m /\ i < l
      BY <1>1, <2>3, <3>1
    <3>3. l < j
      <4>1. l = j \/ j < l \/ l < j
        BY <1>2
      <4>2. j < l => f[j] < f[l]
        BY <1>1
      <4> QED BY <2>2, <3>1, <3>2, <4>1, <4>2
    <3>4. l \in (i + 1)..(j - 1) /\ logs'[l] = logs[m]
      BY <1>1, <1>2, <3>2, <3>3
    <3> QED BY <2>1, <2>2, <2>3, <3>4
  <2>4. Neighbours(f[i], f[j])
    BY <2>1, <2>2, <2>3 DEF Neighbours
  <2> QED BY <2>2, <2>4 DEF LogInv, LogAlternates
<1>6. LastRowInv'
  <2> SUFFICES ASSUME NEW k \in 1..Len(logs'), logs'[k].epoch = crashes,
                      NEW p, p = logs'[k].peer, <<p, crashes>> \notin lost,
                      \A m \in (k + 1)..Len(logs') : logs'[m].peer # p
               PROVE  lastState'[p] # None /\ LastSeen(p)' = logs'[k].event
    BY <1>3, Zenon DEF LastRowInv
  <2>1. f[k] \in 1..Len(logs) /\ logs'[k] = logs[f[k]]
    BY <1>1
  <2>2. ASSUME NEW m \in (f[k] + 1)..Len(logs), logs[m].peer = p PROVE FALSE
    <3>1. m \in 1..Len(logs) /\ f[k] < m
      BY <1>2, <2>1
    <3>2. PICK l \in 1..Len(logs') : f[l] = m /\ k < l
      BY <1>1, <2>2, <3>1
    <3>3. l \in (k + 1)..Len(logs') /\ logs'[l] = logs[m]
      BY <1>1, <1>2, <3>2
    <3> QED BY <2>1, <2>2, <3>3
  <2>3. p \in Peers
    <3>1. logs[f[k]] \in LogRow
      BY <1>2, <2>1
    <3> QED BY <2>1, <3>1 DEF LogRow
  <2>4. lastState[p] # None /\ LastSeen(p) = logs[f[k]].event
    BY <2>1, <2>2 DEF LogInv, LastRowInv
  <2> QED BY <2>1, <2>3, <2>4 DEF Quiet
<1> QED BY <1>4, <1>5, <1>6 DEF LogInv

LEMMA NotedLog == ASSUME Inv, LogInv, NEW p \in Peers, Noted(p) PROVE LogInv'
<1>1. /\ lastState[p] # None /\ UNCHANGED <<lastState, now, crashes>>
      /\ LastSeen(p) # EventOf(p)
      /\ LastSeen(p)' = EventOf(p)
      /\ \A q \in Peers : q # p => LastSeen(q)' = LastSeen(q)
  BY NotedSeen DEF Noted
<1>2. logs \in Seq(LogRow) /\ Len(logs) \in Nat /\ \A k \in 1..Len(logs) : logs[k] \in LogRow
  BY DEF Inv, TypeOK
<1>3. \A k \in 1..Len(logs) : logs[k].peer \in Peers
  BY <1>2 DEF LogRow
<1>4. now \in Nat /\ crashes \in Nat
  BY DEF Inv, TypeOK, Time
<1>5. CASE lost' = lost \cup {<<p, crashes>>} /\ UNCHANGED logs
  <2>1. Ordered'
    BY <1>1, <1>5 DEF LogInv, Ordered
  <2>2. LogAlternates'
    BY <1>5 DEF LogInv, LogAlternates, Neighbours
  <2>3. LastRowInv'
    <3> SUFFICES ASSUME NEW k \in 1..Len(logs), logs[k].epoch = crashes,
                        NEW q, q = logs[k].peer, <<q, crashes>> \notin lost',
                        \A m \in (k + 1)..Len(logs) : logs[m].peer # q
                 PROVE  lastState[q] # None /\ LastSeen(q)' = logs[k].event
      BY <1>1, <1>5, Zenon DEF LastRowInv
    <3>1. q \in Peers /\ q # p /\ <<q, crashes>> \notin lost
      BY <1>3, <1>5
    <3>2. lastState[q] # None /\ LastSeen(q) = logs[k].event
      BY <3>1 DEF LogInv, LastRowInv
    <3> QED BY <1>1, <3>1, <3>2
  <2> QED BY <2>1, <2>2, <2>3 DEF LogInv
<1>6. CASE /\ logs' = Append(logs, [peer |-> p, event |-> EventOf(p), at |-> now,
                                    epoch |-> crashes])
           /\ UNCHANGED lost
  <2> DEFINE N == Len(logs)
             r == [peer |-> p, event |-> EventOf(p), at |-> now, epoch |-> crashes]
  <2>1. /\ r.peer = p /\ r.event = EventOf(p) /\ r.at = now /\ r.epoch = crashes
        /\ logs' = Append(logs, r)
    BY <1>6
  <2> HIDE DEF r
  <2>2. Len(logs') = N + 1 /\ logs'[N + 1] = r /\ \A k \in 1..N : logs'[k] = logs[k]
    BY <1>2, <2>1
  <2>3. N \in Nat
    BY <1>2
  <2> HIDE DEF N
  <2>4. 1..N = 1..Len(logs) /\ \A k : (k + 1)..N = (k + 1)..Len(logs)
    BY DEF N
  <2>5. Ordered'
    <3>1. ASSUME NEW k \in 1..(N + 1) PROVE logs'[k].at <= now /\ logs'[k].epoch <= crashes
      BY <1>4, <2>1, <2>2, <2>3, <2>4 DEF LogInv, Ordered
    <3>2. ASSUME NEW j \in 1..(N + 1), NEW k \in 1..(N + 1), j < k
          PROVE  logs'[j].at <= logs'[k].at
      <4>1. CASE k = N + 1
        BY <2>1, <2>2, <3>1, <4>1
      <4>2. CASE k # N + 1
        <5>1. j \in 1..N /\ k \in 1..N
          BY <2>3, <3>2, <4>2
        <5> QED BY <2>2, <2>4, <3>2, <5>1 DEF LogInv, Ordered
      <4> QED BY <4>1, <4>2
    <3> QED BY <1>1, <2>2, <3>1, <3>2 DEF Ordered
  <2>6. LogAlternates'
    <3> SUFFICES ASSUME NEW i \in 1..(N + 1), NEW j \in 1..(N + 1), Neighbours(i, j)',
                        <<logs'[i].peer, logs'[i].epoch>> \notin lost
                 PROVE  logs'[i].event # logs'[j].event
      BY <1>6, <2>2 DEF LogAlternates
    <3>1. /\ i < j /\ logs'[i].peer = logs'[j].peer /\ logs'[i].epoch = logs'[j].epoch
          /\ \A k \in (i + 1)..(j - 1) : logs'[k].peer # logs'[i].peer
      BY DEF Neighbours
    <3>2. i \in 1..N /\ logs'[i] = logs[i]
      BY <2>2, <2>3, <3>1
    <3>3. CASE j = N + 1
      <4>1. logs[i].peer = p /\ logs[i].epoch = crashes /\ <<p, crashes>> \notin lost
        BY <2>1, <2>2, <3>1, <3>2, <3>3
      <4>2. \A m \in (i + 1)..N : logs[m].peer # p
        <5> TAKE m \in (i + 1)..N
        <5>1. m \in (i + 1)..(j - 1) /\ m \in 1..N
          BY <2>3, <3>2, <3>3
        <5> QED BY <2>2, <3>1, <3>2, <4>1, <5>1
      <4>3. LastSeen(p) = logs[i].event
        BY <2>4, <3>2, <4>1, <4>2 DEF LogInv, LastRowInv
      <4> QED BY <1>1, <2>1, <2>2, <3>2, <3>3, <4>3
    <3>4. CASE j # N + 1
      <4>1. j \in 1..N /\ logs'[j] = logs[j]
        BY <2>2, <2>3, <3>4
      <4>2. \A m \in (i + 1)..(j - 1) : logs'[m] = logs[m]
        BY <2>2, <2>3, <3>2, <4>1
      <4>3. Neighbours(i, j)
        BY <3>1, <3>2, <4>1, <4>2 DEF Neighbours
      <4> QED BY <2>4, <3>2, <4>1, <4>3 DEF LogInv, LogAlternates
    <3> QED BY <3>3, <3>4
  <2>7. LastRowInv'
    <3>a. lost' = lost /\ crashes' = crashes /\ lastState' = lastState
      BY <1>1, <1>6
    <3> SUFFICES ASSUME NEW k \in 1..Len(logs'), logs'[k].epoch = crashes,
                        NEW q, q = logs'[k].peer, <<q, crashes>> \notin lost,
                        \A m \in (k + 1)..Len(logs') : logs'[m].peer # q
                 PROVE  lastState[q] # None /\ LastSeen(q)' = logs'[k].event
      BY <3>a, Zenon DEF LastRowInv
    <3>0. k \in 1..(N + 1) /\ \A m \in (k + 1)..(N + 1) : logs'[m].peer # q
      BY <2>2
    <3>1. CASE k = N + 1
      BY <1>1, <2>1, <2>2, <3>1
    <3>2. CASE k # N + 1
      <4>1. k \in 1..N /\ logs'[k] = logs[k]
        BY <2>2, <2>3, <3>0, <3>2
      <4>2. N + 1 \in (k + 1)..(N + 1)
        BY <2>3, <4>1
      <4>3. q \in Peers /\ q # p
        BY <1>3, <2>1, <2>2, <2>4, <3>0, <4>1, <4>2
      <4>4. \A m \in (k + 1)..N : logs[m].peer # q
        <5> TAKE m \in (k + 1)..N
        <5>1. m \in (k + 1)..(N + 1) /\ m \in 1..N
          BY <2>3, <4>1
        <5> QED BY <2>2, <3>0, <5>1
      <4>5. lastState[q] # None /\ LastSeen(q) = logs[k].event
        BY <2>4, <4>1, <4>4 DEF LogInv, LastRowInv
      <4> QED BY <1>1, <4>1, <4>3, <4>5
    <3> QED BY <3>1, <3>2
  <2> QED BY <2>5, <2>6, <2>7 DEF LogInv
<1> QED BY <1>5, <1>6 DEF Noted, Notes

LEMMA NextLog == ASSUME Inv, LogInv, [Next]_vars PROVE LogInv'
<1>1. Inv'
  BY NextInv
<1>2. CASE Quiet /\ UNCHANGED logs
  <2>1. now <= now' /\ now \in Nat /\ now' \in Nat
    BY <1>1, <1>2 DEF Quiet, Inv, TypeOK, Time
  <2>2. \A k \in 1..Len(logs) : logs[k].at \in Nat /\ logs[k].peer \in Peers
    <3> TAKE k \in 1..Len(logs)
    <3>1. logs[k] \in LogRow
      BY DEF Inv, TypeOK
    <3> QED BY <3>1 DEF LogRow, Time
  <2>3. UNCHANGED <<logs, lost, crashes>>
    BY <1>2 DEF Quiet
  <2>4. Ordered'
    BY <2>1, <2>2, <2>3 DEF LogInv, Ordered
  <2>5. LogAlternates'
    BY <2>3 DEF LogInv, LogAlternates, Neighbours
  <2>6. LastRowInv'
    <3> SUFFICES ASSUME NEW k \in 1..Len(logs), logs[k].epoch = crashes,
                        NEW p, p = logs[k].peer, <<p, crashes>> \notin lost,
                        \A m \in (k + 1)..Len(logs) : logs[m].peer # p
                 PROVE  lastState'[p] # None /\ LastSeen(p)' = logs[k].event
      BY <2>3, Zenon DEF LastRowInv
    <3>1. p \in Peers /\ lastState[p] # None /\ LastSeen(p) = logs[k].event
      BY <2>2 DEF LogInv, LastRowInv
    <3> QED BY <1>2, <3>1 DEF Quiet
  <2> QED BY <2>4, <2>5, <2>6 DEF LogInv
<1>3. CASE Quiet /\ ~UNCHANGED logs
  BY <1>1, <1>3, KeptLog DEF Quiet
<1>4. CASE Crash
  <2>1. UNCHANGED <<now, logs, lost>> /\ crashes' = crashes + 1 /\ crashes \in Nat
    BY <1>4 DEF Crash, Inv, TypeOK
  <2>2. \A k \in 1..Len(logs) : logs[k].epoch <= crashes /\ logs[k].epoch \in Nat
    <3> TAKE k \in 1..Len(logs)
    <3>1. logs[k] \in LogRow
      BY DEF Inv, TypeOK
    <3> QED BY <3>1 DEF LogRow, LogInv, Ordered
  <2>3. Ordered'
    BY <2>1, <2>2 DEF LogInv, Ordered
  <2>4. LogAlternates'
    BY <2>1 DEF LogInv, LogAlternates, Neighbours
  <2>5. LastRowInv'
    BY <2>1, <2>2 DEF LastRowInv
  <2> QED BY <2>3, <2>4, <2>5 DEF LogInv
<1> QED BY <1>2, <1>3, <1>4, NotedLog, StepKinds DEF LogInv

(***************************************************************************)
(* The inductive invariant of the poller: what it holds in memory of a     *)
(* peer is what its last log row says, and what its last alert says unless *)
(* the opposite change was found since, of which the row asked no alert;   *)
(* and the log is in the order of its times, whatever                      *)
(* DeleteOldConnectionLogs and the cascade of DeletePeer take out of it.   *)
(***************************************************************************)
THEOREM LogInvCorrect == Spec => [](Inv /\ AlertInv /\ LogInv)
<1>1. Init => Inv /\ AlertInv /\ LogInv
  BY InitInv, InitLog
<1>2. Inv /\ AlertInv /\ LogInv /\ [Next]_vars => (Inv /\ AlertInv /\ LogInv)'
  BY NextInv, NextAlert, NextLog DEF LogInv
<1> QED BY <1>1, <1>2, PTL DEF Spec

(***************************************************************************)
(* Between two rows that one process writes of a peer poll has seen it     *)
(* change: the log alternates, for any number of peers and through every   *)
(* cleanup, removal and restart, unless a write failed.                    *)
(***************************************************************************)
THEOREM LogAlternatesCorrect == Spec => []LogAlternates
BY LogInvCorrect, PTL DEF LogInv

(***************************************************************************)
(* computeLogDurations, which only sees one page, names for a disconnect   *)
(* the time since the connect it belongs to, or none: on every page of a   *)
(* log of any length.                                                      *)
(***************************************************************************)
THEOREM DurationsTrueCorrect == Spec => []DurationsTrue
<1>1. Inv /\ LogInv => DurationsTrue
  <2> SUFFICES ASSUME Inv, LogInv, NEW i \in 1..Len(logs), NEW k \in 1..Len(logs),
                      Neighbours(i, k), <<logs[k].peer, logs[k].epoch>> \notin lost,
                      logs[k].event = "disconnected",
                      NEW lo \in 1..k, NEW hi \in k..Len(logs)
               PROVE  Duration(lo, hi, k) = IF lo <= i THEN logs[k].at - logs[i].at ELSE 0
    BY DEF DurationsTrue
  <2>1. Len(logs) \in Nat /\ logs[i] \in LogRow /\ logs[k] \in LogRow
    BY DEF Inv, TypeOK
  <2>2. /\ i < k /\ logs[i].peer = logs[k].peer /\ logs[i].epoch = logs[k].epoch
        /\ \A m \in (i + 1)..(k - 1) : logs[m].peer # logs[i].peer
    BY DEF Neighbours
  <2>3. logs[i].event = "connected"
    <3>1. logs[i].event # logs[k].event
      BY <2>2 DEF LogInv, LogAlternates
    <3> QED BY <2>1, <3>1 DEF LogRow, Events
  <2> DEFINE found == {j \in Older(logs[k].peer, lo, hi, k) : logs[j].event = "connected"}
  <2>4. \A j \in found : j \in lo..hi /\ j <= i
    <3> SUFFICES ASSUME NEW j \in lo..hi, j < k, logs[j].peer = logs[k].peer
                 PROVE  j <= i
      BY DEF Older
    <3>1. j \in Nat /\ i \in Nat /\ k \in Nat
      BY <2>1
    <3>2. i < j => j \in (i + 1)..(k - 1)
      BY <3>1
    <3> QED BY <2>2, <3>1, <3>2
  <2>5. CASE lo <= i
    <3>1. i \in found
      BY <2>1, <2>2, <2>3, <2>5 DEF Older
    <3>2. Match(logs[k].peer, lo, hi, k) = CHOOSE j \in found : \A m \in found : j >= m
      BY <3>1 DEF Match
    <3>3. (CHOOSE j \in found : \A m \in found : j >= m) = i
      <4>1. \A m \in found : i >= m
        BY <2>1, <2>4
      <4>2. \A j \in found : (\A m \in found : j >= m) => j = i
        BY <2>1, <2>4, <3>1
      <4> HIDE DEF found
      <4> QED BY <3>1, <4>1, <4>2
    <3>4. Match(logs[k].peer, lo, hi, k) = i /\ i # 0
      BY <3>2, <3>3
    <3> HIDE DEF found
    <3> QED BY <2>5, <3>4 DEF Duration
  <2>6. CASE ~(lo <= i)
    <3>1. found = {}
      BY <2>1, <2>4, <2>6
    <3>2. Match(logs[k].peer, lo, hi, k) = 0
      BY <3>1 DEF Match
    <3> QED BY <2>6, <3>2 DEF Duration
  <2> QED BY <2>5, <2>6
<1> QED BY <1>1, LogInvCorrect, PTL

(***************************************************************************)
(* poll starts an alert of a peer again only when it has found the         *)
(* opposite change since, also when CreateConnectionLog failed in between; *)
(* it tells of that change if the flags of the row say so.                 *)
(***************************************************************************)
THEOREM AlertsAlternateCorrect == Spec => AlertsAlternate
<1>1. Inv /\ AlertInv /\ LogInv /\ [Next]_vars =>
        [\A p \in Peers :
            (/\ alerts'[p].n > alerts[p].n /\ ~alerts'[p].opposite
             /\ alerts'[p].event = alerts[p].event) => alerts[p].opposite]_vars
  <2> SUFFICES ASSUME Inv, AlertInv, LogInv, [Next]_vars, NEW p \in Peers,
                      alerts'[p].n > alerts[p].n, ~alerts'[p].opposite,
                      alerts'[p].event = alerts[p].event, ~alerts[p].opposite
               PROVE  FALSE
    BY Zenon
  <2>1. alerts[p].n \in Nat
    BY DEF Inv, TypeOK, Told
  <2>2. ~Quiet /\ ~Crash
    BY <2>1 DEF Quiet, Crash
  <2>3. PICK q \in Peers : Noted(q)
    BY <2>2, StepKinds DEF LogInv
  <2>4. q = p /\ alerts'[p] = Telling(p)
    BY <2>1, <2>3 DEF Noted, Notes, Inv, TypeOK
  <2>5. LastSeen(p) # EventOf(p) /\ EventOf(p) \in Events
    BY <2>3, <2>4, NotedSeen
  <2>6. alerts[p].event # EventOf(p)
    BY <2>5 DEF AlertInv
  <2> QED BY <2>4, <2>5, <2>6, TellingFacts
<1> QED BY <1>1, LogInvCorrect, PTL DEF Spec, AlertsAlternate
=============================================================================
