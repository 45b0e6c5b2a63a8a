------------------------------ MODULE AddrProofs ------------------------------
(***************************************************************************)
(* Theorems about Addr for every set of tabs, ids, subnets, names, hooks   *)
(* and networks, every base of a byte, every content the database may      *)
(* have at the start, and every bound.                                     *)
(***************************************************************************)
EXTENDS Addr, SequenceTheorems, FiniteSetTheorems, WellFoundedInduction, TLAPS

-----------------------------------------------------------------------------
(***************************************************************************)
(* The configuration file, for every file ConfFile can write.  Sequences   *)
(* are kept behind operators of their own (File, Cat, PeersOf, Grown), as  *)
(* the provers take long over Seq and \o.                                  *)
(***************************************************************************)

\* A set of numbers that is not empty has a least one.
LEMMA LeastNumber ==
    ASSUME NEW S \in SUBSET Nat, S # {}
    PROVE  \E n \in S : \A m \in S : n <= m
<1> DEFINE Less == {ss \in Nat \X Nat : ss[1] < ss[2]}
<1>1. IsWellFoundedOn(Less, Nat)
  BY NatLessThanWellFounded DEF OpToRel
<1>2. PICK n \in S : \A m \in S : ~ (<<m, n>> \in Less)
  <2> HIDE DEF Less
  <2> QED BY <1>1, WFMin
<1>3. \A m \in S : n <= m
  <2> SUFFICES ASSUME NEW m \in S, m < n PROVE FALSE
    OBVIOUS
  <2>1. <<m, n>> \in Less
    OBVIOUS
  <2> QED BY <1>2, <2>1
<1> QED BY <1>3

-----------------------------------------------------------------------------
(***************************************************************************)
(* Induction, and the greatest number of a finite set.                     *)
(***************************************************************************)
LEMMA SetInduction ==
    ASSUME NEW S, 0 \in S, \A n \in Nat : n \in S => n + 1 \in S
    PROVE  Nat \subseteq S
<1> DEFINE T == Nat \ S
<1> SUFFICES ASSUME T # {} PROVE FALSE
  OBVIOUS
<1>1. PICK n \in T : \A m \in T : n <= m
  BY LeastNumber
<1>2. n # 0
  OBVIOUS
<1>3. n - 1 \in Nat /\ n - 1 \notin T
  BY <1>1, <1>2
<1> QED BY <1>3

LEMMA Greatest ==
    ASSUME NEW N \in Nat, NEW S \in SUBSET (1..N), S # {}
    PROVE  Max(S) \in S /\ \A m \in S : m <= Max(S)
<1> DEFINE T == {k \in Nat : \A m \in S : m <= k}
<1>1. N \in T
  OBVIOUS
<1>2. PICK n \in T : \A m \in T : n <= m
  BY <1>1, LeastNumber
<1>3. n \in S
  <2> SUFFICES ASSUME n \notin S PROVE FALSE
    OBVIOUS
  <2>1. PICK m \in S : TRUE
    OBVIOUS
  <2>2. n # 0
    BY <2>1
  <2>3. n - 1 \in T
    BY <2>2
  <2> QED BY <1>2, <2>3
<1>4. \E x \in S : \A y \in S : x >= y
  BY <1>3
<1>5. /\ Max(S) \in S
      /\ \A y \in S : Max(S) >= y
  BY <1>4 DEF Max
<1> QED BY <1>5

LEMMA BelowGreatest ==
    ASSUME NEW m \in Nat, NEW S \in SUBSET (1..(m + 1)),
           NEW x \in S, \A k \in S : k <= x
    PROVE  S \ {x} \in SUBSET (1..m) /\ m + 1 \notin S \ {x}
<1>1. ASSUME NEW k \in S \ {x} PROVE k \in 1..m /\ k # m + 1
  <2>1. k <= x /\ x \in 1..(m + 1) /\ k \in 1..(m + 1) /\ k # x
    OBVIOUS
  <2> QED BY <2>1
<1> QED BY <1>1

-----------------------------------------------------------------------------
(***************************************************************************)
(* Parsing as a fold: the state after one more line.                       *)
(***************************************************************************)
Parsed(lines) == FoldLeft(ParseLine, Start, lines)

FoldStep(s, g, t) ==
    IF t = {} THEN Start ELSE ParseLine(g[t \ {Max(t)}], s[Max(t)])

\* The recursion of the fold defines a function.
LEMMA FoldExists ==
    ASSUME NEW s, NEW N \in Nat
    PROVE  \E g : g = [t \in SUBSET (1..N) |-> FoldStep(s, g, t)]
<1> DEFINE S == {m \in Nat : \E g : g = [t \in SUBSET (1..m) |-> FoldStep(s, g, t)]}
<1>1. 0 \in S
  <2> DEFINE g == [t \in SUBSET (1..0) |-> Start]
  <2>1. \A t \in SUBSET (1..0) : t = {}
    OBVIOUS
  <2>2. g = [t \in SUBSET (1..0) |-> FoldStep(s, g, t)]
    BY <2>1 DEF FoldStep
  <2> QED BY <2>2
<1>2. ASSUME NEW m \in Nat, m \in S PROVE m + 1 \in S
  <2>1. PICK g : g = [t \in SUBSET (1..m) |-> FoldStep(s, g, t)]
    BY <1>2
  <2> DEFINE h == [t \in SUBSET (1..(m + 1)) |->
                     IF m + 1 \in t THEN FoldStep(s, g, t) ELSE g[t]]
  <2>2. ASSUME NEW t \in SUBSET (1..(m + 1)) PROVE h[t] = FoldStep(s, h, t)
    <3>1. CASE t = {}
      <4>1. h[t] = g[t] /\ t \in SUBSET (1..m)
        BY <3>1
      <4>2. g[t] = FoldStep(s, g, t)
        BY <2>1, <4>1
      <4> HIDE DEF h
      <4> QED BY <3>1, <4>1, <4>2 DEF FoldStep
    <3>2. CASE t # {}
      <4> DEFINE r == t \ {Max(t)}
      <4>0. m + 1 \in Nat
        OBVIOUS
      <4>1. Max(t) \in t /\ \A k \in t : k <= Max(t)
        BY <3>2, <4>0, Greatest
      <4>2. h[t] = FoldStep(s, g, t)
        <5>1. CASE m + 1 \in t
          BY <5>1
        <5>2. CASE m + 1 \notin t
          <6>1. t \in SUBSET (1..m)
            BY <5>2
          <6>2. g[t] = FoldStep(s, g, t)
            BY <2>1, <6>1
          <6> QED BY <5>2, <6>2
        <5> QED BY <5>1, <5>2
      <4>3. r \in SUBSET (1..m) /\ m + 1 \notin r
        BY <4>1, BelowGreatest
      <4>4. h[r] = g[r]
        BY <4>3
      <4> HIDE DEF h
      <4> QED BY <3>2, <4>2, <4>4 DEF FoldStep
    <3> QED BY <3>1, <3>2
  <2>3. h = [t \in SUBSET (1..(m + 1)) |-> FoldStep(s, h, t)]
    <3>1. h = [t \in SUBSET (1..(m + 1)) |-> h[t]]
      OBVIOUS
    <3> HIDE DEF h
    <3> QED BY <2>2, <3>1
  <2> HIDE DEF h
  <2> QED BY <2>3
<1>3. Nat \subseteq S
  <2> HIDE DEF S
  <2> QED BY <1>1, <1>2, SetInduction
<1> QED BY <1>3

LEMMA ParsedUnfold ==
    ASSUME NEW s, Len(s) \in Nat, DOMAIN s = 1..Len(s)
    PROVE  \E g : /\ g = [t \in SUBSET (1..Len(s)) |-> FoldStep(s, g, t)]
                  /\ Parsed(s) = g[1..Len(s)]
<1> DEFINE g == CHOOSE h : h = [t \in SUBSET (1..Len(s)) |-> FoldStep(s, h, t)]
<1>1. g = [t \in SUBSET (1..Len(s)) |-> FoldStep(s, g, t)]
  BY FoldExists
<1>2. Parsed(s) = g[1..Len(s)]
  BY DEF Parsed, FoldLeft, MapThenFoldSet, FoldStep
<1> QED BY <1>1, <1>2

\* The same along the lines of the file.
LEMMA ParsedStates ==
    ASSUME NEW X, NEW s \in Seq(X)
    PROVE  \E st : /\ st[0] = Start
                   /\ \A n \in 1..Len(s) : st[n] = ParseLine(st[n - 1], s[n])
                   /\ Parsed(s) = st[Len(s)]
<1>0. Len(s) \in Nat /\ DOMAIN s = 1..Len(s)
  OBVIOUS
<1>1. PICK g : /\ g = [t \in SUBSET (1..Len(s)) |-> FoldStep(s, g, t)]
               /\ Parsed(s) = g[1..Len(s)]
  BY <1>0, ParsedUnfold
<1> DEFINE st == [n \in 0..Len(s) |-> g[1..n]]
<1>2. \A t \in SUBSET (1..Len(s)) : g[t] = FoldStep(s, g, t)
  BY <1>1
<1>3. st[0] = Start
  <2>1. 1..0 = {} /\ {} \in SUBSET (1..Len(s))
    OBVIOUS
  <2>2. st[0] = g[{}]
    BY <2>1
  <2> QED BY <1>2, <2>1, <2>2 DEF FoldStep
<1>4. ASSUME NEW n \in 1..Len(s) PROVE st[n] = ParseLine(st[n - 1], s[n])
  <2>1. 1..n \in SUBSET (1..Len(s)) /\ 1..n # {}
    OBVIOUS
  <2>2. Max(1..n) = n
    <3>0. n \in Nat /\ 1..n \in SUBSET (1..n)
      OBVIOUS
    <3>1. Max(1..n) \in 1..n /\ \A k \in 1..n : k <= Max(1..n)
      BY Greatest, <2>1, <3>0
    <3>2. n <= Max(1..n)
      BY <3>1
    <3> QED BY <3>1, <3>2
  <2>3. (1..n) \ {n} = 1..(n - 1)
    OBVIOUS
  <2>4. g[1..n] = ParseLine(g[1..(n - 1)], s[n])
    <3>1. g[1..n] = FoldStep(s, g, 1..n)
      BY <1>2, <2>1
    <3> QED BY <3>1, <2>1, <2>2, <2>3 DEF FoldStep
  <2> QED BY <2>4
<1>5. Parsed(s) = st[Len(s)]
  BY <1>1
<1> HIDE DEF st
<1> QED BY <1>3, <1>4, <1>5

LEMMA ParsedEmpty == Parsed(<<>>) = Start
<1>1. <<>> \in Seq({}) /\ Len(<<>>) = 0
  OBVIOUS
<1>2. PICK st : st[0] = Start /\ Parsed(<<>>) = st[Len(<<>>)]
  BY <1>1, ParsedStates
<1> QED BY <1>1, <1>2

LEMMA ParsedAppend ==
    ASSUME NEW X, NEW s \in Seq(X), NEW l \in X
    PROVE  Parsed(Append(s, l)) = ParseLine(Parsed(s), l)
<1> DEFINE u == Append(s, l)
<1>1. PICK st : /\ st[0] = Start
                /\ \A n \in 1..Len(s) : st[n] = ParseLine(st[n - 1], s[n])
                /\ Parsed(s) = st[Len(s)]
  BY ParsedStates
<1>2. /\ u \in Seq(X) /\ Len(u) = Len(s) + 1 /\ u[Len(u)] = l
      /\ \A n \in 1..Len(s) : u[n] = s[n]
  OBVIOUS
<1>3. PICK su : /\ su[0] = Start
                /\ \A n \in 1..Len(u) : su[n] = ParseLine(su[n - 1], u[n])
                /\ Parsed(u) = su[Len(u)]
  BY <1>2, ParsedStates
<1> HIDE DEF u
<1> DEFINE S == {n \in Nat : n <= Len(s) => st[n] = su[n]}
<1>4. 0 \in S
  BY <1>1, <1>3
<1>5. ASSUME NEW n \in Nat, n \in S PROVE n + 1 \in S
  <2> SUFFICES ASSUME n + 1 <= Len(s) PROVE st[n + 1] = su[n + 1]
    OBVIOUS
  <2>0. n + 1 \in 1..Len(s) /\ n + 1 \in 1..Len(u) /\ (n + 1) - 1 = n
    BY <1>2
  <2>1. st[n] = su[n]
    BY <1>5
  <2>2. st[n + 1] = ParseLine(st[n], s[n + 1])
    BY <1>1, <2>0
  <2>3. su[n + 1] = ParseLine(su[n], u[n + 1])
    BY <1>3, <2>0
  <2>4. u[n + 1] = s[n + 1]
    BY <1>2, <2>0
  <2> QED BY <2>1, <2>2, <2>3, <2>4
<1>6. Nat \subseteq S
  <2> HIDE DEF S
  <2> QED BY <1>4, <1>5, SetInduction
<1>7. st[Len(s)] = su[Len(s)]
  BY <1>6
<1>8. su[Len(u)] = ParseLine(su[Len(s)], l)
  BY <1>2, <1>3
<1> QED BY <1>1, <1>3, <1>7, <1>8 DEF u

\* The settings, the lines made of values in V, and what is parsed from them.
Settings == {"privatekey", "address", "listenport", "mtu", "postup", "publickey",
             "allowedips", "endpoint", "persistentkeepalive"}
Lines(V) == [t: {"iface", "peer", "comment", "kv"}, k: Settings \cup {None}, v: V]
File(V)  == Seq(Lines(V))
Cat(s, t) == s \o t
PeerOf(V) == [name: V, publickey: V, allowedips: V, endpoint: V,
              persistentkeepalive: V \cap Nat]
PeersOf(V) == Seq(PeerOf(V))
IfaceFrom(V) == [privatekey: V, address: V, listenport: V, mtu: V \cap Nat, postup: Seq(V)]

State(c, l, i, ps) == [cur |-> c, last |-> l, iface |-> i, peers |-> ps]

LEMMA CatFile ==
    ASSUME NEW V, NEW s \in File(V), NEW t \in File(V)
    PROVE  Cat(s, t) \in File(V)
BY DEF Cat, File

LEMMA CatGroups ==
    ASSUME NEW V, NEW s \in File(V), NEW t \in File(V), NEW u \in File(V)
    PROVE  Cat(Cat(s, t), u) = Cat(s, Cat(t, u))
BY ConcatAssociative DEF Cat, File

LEMMA OneLine ==
    ASSUME NEW V, NEW a \in Lines(V)
    PROVE  <<a>> \in File(V)
<1> DEFINE X == Lines(V)
<1>1. a \in X
  OBVIOUS
<1> HIDE DEF X
<1>2. <<a>> \in Seq(X)
  BY <1>1
<1> QED BY <1>2 DEF X, File

LEMMA Pair ==
    ASSUME NEW X, NEW a \in X, NEW b \in X
    PROVE  <<a, b>> = Append(<<a>>, b) /\ <<a>> \in Seq(X)
OBVIOUS

LEMMA PairConcat ==
    ASSUME NEW X, NEW a \in X, NEW b \in X
    PROVE  <<a, b>> = <<a>> \o <<b>> /\ <<a, b>> \in Seq(X)
<1>1. <<a>> \in Seq(X) /\ <<a, b>> = Append(<<a>>, b)
  BY Pair
<1>2. Append(<<a>>, b) = <<a>> \o <<b>>
  BY <1>1, AppendIsConcat
<1>3. <<a, b>> \in Seq(X)
  OBVIOUS
<1> QED BY <1>1, <1>2, <1>3

LEMMA TwoLines ==
    ASSUME NEW V, NEW a \in Lines(V), NEW b \in Lines(V)
    PROVE  /\ <<a, b>> = Append(<<a>>, b) /\ <<a, b>> = <<a>> \o <<b>>
           /\ <<a, b>> = Cat(<<a>>, <<b>>) /\ <<a, b>> \in File(V)
BY Pair, PairConcat DEF File, Cat

LEMMA ParsedOne ==
    ASSUME NEW V, NEW s \in File(V), NEW a \in Lines(V)
    PROVE  Parsed(Cat(s, <<a>>)) = ParseLine(Parsed(s), a)
<1>1. s \in Seq(Lines(V))
  BY DEF File
<1>2. s \o <<a>> = Append(s, a)
  BY <1>1, AppendIsConcat
<1>3. Parsed(Append(s, a)) = ParseLine(Parsed(s), a)
  BY <1>1, ParsedAppend
<1> QED BY <1>2, <1>3 DEF Cat

LEMMA ParsedTwo ==
    ASSUME NEW V, NEW s \in File(V), NEW a \in Lines(V), NEW b \in Lines(V)
    PROVE  Parsed(Cat(s, <<a, b>>)) = ParseLine(ParseLine(Parsed(s), a), b)
<1>1. <<a>> \in File(V) /\ <<b>> \in File(V)
  BY OneLine
<1>2. Cat(s, <<a>>) \in File(V)
  BY <1>1, CatFile
<1>3. Parsed(Cat(Cat(s, <<a>>), <<b>>)) = ParseLine(Parsed(Cat(s, <<a>>)), b)
  BY <1>2, ParsedOne
<1>4. Parsed(Cat(s, <<a>>)) = ParseLine(Parsed(s), a)
  BY ParsedOne
<1>5. Cat(Cat(s, <<a>>), <<b>>) = Cat(s, Cat(<<a>>, <<b>>))
  BY <1>1, CatGroups
<1>6. <<a, b>> = Cat(<<a>>, <<b>>)
  BY TwoLines
<1> QED BY <1>3, <1>4, <1>5, <1>6

LEMMA ParsedWhen ==
    ASSUME NEW V, NEW s \in File(V), NEW l \in Lines(V), NEW c \in BOOLEAN
    PROVE  /\ When(c, l) \in File(V)
           /\ Parsed(Cat(s, When(c, l))) = IF c THEN ParseLine(Parsed(s), l) ELSE Parsed(s)
<1>1. CASE c
  <2>1. When(c, l) = <<l>> /\ <<l>> \in File(V)
    BY <1>1, OneLine DEF When
  <2>2. Parsed(Cat(s, <<l>>)) = ParseLine(Parsed(s), l)
    BY ParsedOne
  <2> QED BY <1>1, <2>1, <2>2
<1>2. CASE ~c
  <2>1. When(c, l) = <<>> /\ <<>> \in File(V) /\ Cat(s, <<>>) = s
    BY <1>2 DEF When, File, Cat
  <2> QED BY <1>2, <2>1
<1> QED BY <1>1, <1>2

LEMMA LastReplaced ==
    ASSUME NEW P, NEW ps \in Seq(P), NEW r \in P, NEW w \in P
    PROVE  ReplaceAt(Append(ps, r), Len(ps) + 1, w) = Append(ps, w)
<1> DEFINE f == ReplaceAt(Append(ps, r), Len(ps) + 1, w)
           g == Append(ps, w)
<1>1. f \in Seq(P) /\ Len(f) = Len(ps) + 1 /\ f[Len(ps) + 1] = w
  BY DEF ReplaceAt
<1>2. g \in Seq(P) /\ Len(g) = Len(ps) + 1 /\ g[Len(ps) + 1] = w
  OBVIOUS
<1>3. ASSUME NEW n \in 1..Len(ps) PROVE f[n] = ps[n] /\ g[n] = ps[n]
  <2>1. Append(ps, r)[n] = ps[n] /\ g[n] = ps[n]
    OBVIOUS
  <2>2. n # Len(ps) + 1 /\ n \in DOMAIN Append(ps, r)
    OBVIOUS
  <2>3. f[n] = Append(ps, r)[n]
    BY <2>2 DEF ReplaceAt
  <2> QED BY <2>1, <2>3
<1>4. \A n \in 1..Len(f) : f[n] = g[n]
  <2> HIDE DEF f, g
  <2> QED BY <1>1, <1>2, <1>3
<1> HIDE DEF f, g
<1>5. f = g
  BY <1>1, <1>2, <1>4, SeqEqual
<1> QED BY <1>5 DEF f, g

With(s, m, x) == [s EXCEPT !.last = m, !.peers = x]

LEMMA StateWith ==
    ASSUME NEW c, NEW l, NEW i, NEW q, NEW m, NEW x
    PROVE  With(State(c, l, i, q), m, x) = State(c, m, i, x)
<1>1. [State(c, l, i, q) EXCEPT !.last = m] = State(c, m, i, q)
  BY DEF State
<1>2. [State(c, m, i, q) EXCEPT !.peers = x] = State(c, m, i, x)
  BY DEF State
<1>3. [State(c, l, i, q) EXCEPT !.last = m, !.peers = x]
        = [[State(c, l, i, q) EXCEPT !.last = m] EXCEPT !.peers = x]
  OBVIOUS
<1> QED BY <1>1, <1>2, <1>3 DEF With

Grown(ps, r) == Append(ps, r)

Renamed(r, c) == [r EXCEPT !.name = c]
Changed(r, k, v) == [r EXCEPT ![k] = v]

\* The last peer of a list, and a list in which another stands there.
LEMMA LastPeer ==
    ASSUME NEW V, NEW ps \in PeersOf(V), NEW r \in PeerOf(V), NEW w \in PeerOf(V)
    PROVE  /\ Grown(ps, r) \in PeersOf(V)
           /\ Len(Grown(ps, r)) > 0 /\ Grown(ps, r)[Len(Grown(ps, r))] = r
           /\ ReplaceAt(Grown(ps, r), Len(Grown(ps, r)), w) = Grown(ps, w)
<1>1. ps \in Seq(PeerOf(V))
  BY DEF PeersOf
<1>2. Len(ps) \in Nat /\ Grown(ps, r) \in Seq(PeerOf(V)) /\ Len(Grown(ps, r)) = Len(ps) + 1
      /\ Grown(ps, r)[Len(ps) + 1] = r
  BY <1>1, AppendProperties DEF Grown
<1>3. ReplaceAt(Grown(ps, r), Len(ps) + 1, w) = Grown(ps, w)
  BY <1>1, LastReplaced DEF Grown
<1> QED BY <1>2, <1>3 DEF PeersOf

PeerSettings == {"publickey", "allowedips", "endpoint", "persistentkeepalive"}

LEMMA SetPeer ==
    ASSUME NEW V, NEW ps \in PeersOf(V), NEW r \in PeerOf(V), NEW l, NEW i, NEW v,
           NEW k \in PeerSettings, NEW w \in PeerOf(V), w = Changed(r, k, v)
    PROVE  ParseLine(State("peer", l, i, Grown(ps, r)), KV(k, v))
             = State("peer", None, i, Grown(ps, w))
<1> DEFINE q == Grown(ps, r)
           s == State("peer", l, i, q)
<1>1. ParseLine(s, KV(k, v)) = AtSetting(s, k, v)
  BY DEF ParseLine, KV
<1>2. /\ s.cur = "peer" /\ s.peers = q /\ q[Len(q)] = r
      /\ ReplaceAt(q, Len(q), w) = Grown(ps, w)
  <2>1. s.cur = "peer" /\ s.peers = q
    BY DEF State
  <2>2. q[Len(q)] = r /\ ReplaceAt(q, Len(q), w) = Grown(ps, w)
    BY LastPeer
  <2> QED BY <2>1, <2>2
<1>3. k \in DOMAIN NoPeer \ {"name"}
  BY DEF NoPeer, PeerSettings
<1>4. AtSetting(s, k, v) = With(s, None, ReplaceAt(q, Len(q), w))
  <2> HIDE DEF s, q
  <2> QED BY <1>2, <1>3 DEF AtSetting, With, Changed
<1>5. With(s, None, Grown(ps, w)) = State("peer", None, i, Grown(ps, w))
  BY StateWith
<1> QED BY <1>1, <1>2, <1>4, <1>5

LEMMA SetIface ==
    ASSUME NEW ps, NEW l, NEW i, NEW v, NEW k \in {"privatekey", "address", "listenport", "mtu"}
    PROVE  ParseLine(State("iface", l, i, ps), KV(k, v))
             = State("iface", None, Changed(i, k, v), ps)
<1>1. k \in DOMAIN NoIface \ {"postup"}
  BY DEF NoIface
<1> QED BY <1>1 DEF ParseLine, KV, AtSetting, State, Changed

LEMMA AddHook ==
    ASSUME NEW ps, NEW l, NEW i, NEW v
    PROVE  ParseLine(State("iface", l, i, ps), KV("postup", v))
             = State("iface", None, [i EXCEPT !.postup = Append(@, v)], ps)
BY DEF ParseLine, KV, AtSetting, State

LEMMA NewPeer ==
    ASSUME NEW c, NEW l, NEW i, NEW ps
    PROVE  ParseLine(State(c, l, i, ps), Header("peer"))
             = State("peer", None, i, Grown(ps, Renamed(NoPeer, l)))
BY DEF ParseLine, Header, AtPeer, State, Grown, Renamed

\* A comment names the last peer, or none when that has a name already.
LEMMA NameLast ==
    ASSUME NEW V, NEW ps \in PeersOf(V), NEW r \in PeerOf(V), NEW l, NEW i, NEW c,
           r.name = None, NEW w \in PeerOf(V), w = Renamed(r, c)
    PROVE  ParseLine(State("peer", l, i, Grown(ps, r)), Comment(c))
             = State("peer", c, i, Grown(ps, w))
<1> DEFINE q == Grown(ps, r)
           s == State("peer", l, i, q)
<1>1. ParseLine(s, Comment(c)) = AtComment(s, c)
  BY DEF ParseLine, Comment
<1>2. /\ s.cur = "peer" /\ s.peers = q /\ q[Len(q)] = r /\ Len(q) > 0
      /\ ReplaceAt(q, Len(q), w) = Grown(ps, w)
  <2>1. s.cur = "peer" /\ s.peers = q
    BY DEF State
  <2>2. Len(q) > 0 /\ q[Len(q)] = r /\ ReplaceAt(q, Len(q), w) = Grown(ps, w)
    BY LastPeer
  <2> QED BY <2>1, <2>2
<1>3. AtComment(s, c) = With(s, c, ReplaceAt(q, Len(q), w))
  <2> HIDE DEF s, q
  <2> QED BY <1>2 DEF AtComment, With, Renamed
<1>4. With(s, c, Grown(ps, w)) = State("peer", c, i, Grown(ps, w))
  BY StateWith
<1> QED BY <1>1, <1>2, <1>3, <1>4

\* Where the section before leaves no peer without a name.
Named(cur, ps) == cur = "peer" => Len(ps) > 0 /\ ps[Len(ps)].name # None

LEMMA KeepName ==
    ASSUME NEW ps, NEW cur, NEW l, NEW i, NEW c, Named(cur, ps)
    PROVE  ParseLine(State(cur, l, i, ps), Comment(c)) = State(cur, c, i, ps)
<1> DEFINE s == State(cur, l, i, ps)
<1>1. ParseLine(s, Comment(c)) = AtComment(s, c)
  BY DEF ParseLine, Comment
<1>2. s.cur = cur /\ s.peers = ps
  BY DEF State
<1>3. AtComment(s, c) = With(s, c, ps)
  <2> HIDE DEF s
  <2> QED BY <1>2 DEF AtComment, With, Named
<1>4. With(s, c, ps) = State(cur, c, i, ps)
  BY StateWith
<1> QED BY <1>1, <1>3, <1>4

-----------------------------------------------------------------------------
(***************************************************************************)
(* The section of a peer adds the peer, if the section before it does not  *)
(* leave a peer without a name for a comment above this one.               *)
(***************************************************************************)
PeerHead(b, above) ==
    LET name == When(b.name # None, Comment(b.name))
    IN IF above THEN Append(name, Header("peer")) ELSE <<Header("peer")>> \o name

LEMMA HeadParsed ==
    ASSUME NEW V, None \in V, 0 \in V, NEW s \in File(V), NEW b \in PeerOf(V),
           NEW above \in BOOLEAN, NEW cur, NEW i, NEW ps \in PeersOf(V),
           Parsed(s) = State(cur, None, i, ps),
           above /\ b.name # None => Named(cur, ps),
           NEW w \in PeerOf(V), w = Renamed(NoPeer, b.name)
    PROVE  /\ PeerHead(b, above) \in File(V)
           /\ \E l : Parsed(Cat(s, PeerHead(b, above))) = State("peer", l, i, Grown(ps, w))
<1> DEFINE h == Header("peer")
           c == Comment(b.name)
           r == Renamed(NoPeer, None)
<1>1. h \in Lines(V) /\ c \in Lines(V)
  BY DEF Lines, Header, Comment, PeerOf
<1>2. r \in PeerOf(V) /\ r.name = None /\ w = Renamed(r, b.name)
  BY DEF PeerOf, NoPeer, Renamed
<1> HIDE DEF h, c, r
<1>3. ParseLine(State(cur, None, i, ps), h) = State("peer", None, i, Grown(ps, r))
  BY NewPeer DEF h, r
<1>4. CASE b.name = None
  <2>1. PeerHead(b, above) = <<h>>
    BY <1>4 DEF PeerHead, When, h
  <2>2. <<h>> \in File(V) /\ Parsed(Cat(s, <<h>>)) = ParseLine(Parsed(s), h)
    BY <1>1, OneLine, ParsedOne
  <2>3. r = w
    BY <1>4 DEF r
  <2> QED BY <1>3, <2>1, <2>2, <2>3
<1>5. CASE b.name # None /\ above
  <2>0. <<c, h>> = Append(<<c>>, h) /\ <<c, h>> \in File(V)
    BY <1>1, TwoLines
  <2>1. PeerHead(b, above) = Append(<<c>>, h)
    BY <1>5 DEF PeerHead, When, h, c
  <2>2. ParseLine(State(cur, None, i, ps), c) = State(cur, b.name, i, ps)
    BY <1>5, KeepName DEF c
  <2>3. ParseLine(State(cur, b.name, i, ps), h) = State("peer", None, i, Grown(ps, w))
    BY NewPeer DEF h
  <2>4. Parsed(Cat(s, <<c, h>>)) = ParseLine(ParseLine(Parsed(s), c), h)
    BY <1>1, ParsedTwo
  <2> QED BY <2>0, <2>1, <2>2, <2>3, <2>4
<1>6. CASE b.name # None /\ ~above
  <2>0. <<h, c>> = <<h>> \o <<c>> /\ <<h, c>> \in File(V)
    BY <1>1, TwoLines
  <2>1. PeerHead(b, above) = <<h>> \o <<c>>
    BY <1>6 DEF PeerHead, When, h, c
  <2>2. ParseLine(State("peer", None, i, Grown(ps, r)), c) = State("peer", b.name, i, Grown(ps, w))
    BY <1>2, NameLast DEF c
  <2>3. Parsed(Cat(s, <<h, c>>)) = ParseLine(ParseLine(Parsed(s), h), c)
    BY <1>1, ParsedTwo
  <2> QED BY <1>3, <2>0, <2>1, <2>2, <2>3
<1> QED BY <1>4, <1>5, <1>6

LEMMA ChangedFacts ==
    ASSUME NEW V, NEW r \in PeerOf(V), NEW b \in PeerOf(V), None \in V, 0 \in V
    PROVE  /\ Renamed(NoPeer, b.name) \in PeerOf(V)
           /\ Changed(r, "publickey", b.publickey) \in PeerOf(V)
           /\ Changed(r, "allowedips", b.allowedips) \in PeerOf(V)
           /\ Changed(r, "endpoint", b.endpoint) \in PeerOf(V)
           /\ Changed(r, "persistentkeepalive", b.persistentkeepalive) \in PeerOf(V)
BY DEF PeerOf, NoPeer, Renamed, Changed

\* Setting after setting the peer becomes b, also where a setting is left out.
LEMMA AllSet ==
    ASSUME NEW V, NEW b \in PeerOf(V), None \in V, 0 \in V, NEW w0, NEW w1, NEW w2, NEW w3,
           w0 = Renamed(NoPeer, b.name),
           w1 = Changed(w0, "publickey", b.publickey),
           w2 = Changed(w1, "allowedips", b.allowedips),
           w3 = IF b.endpoint # None THEN Changed(w2, "endpoint", b.endpoint) ELSE w2
    PROVE  b = IF b.persistentkeepalive > 0
               THEN Changed(w3, "persistentkeepalive", b.persistentkeepalive) ELSE w3
<1>1. /\ w0 \in PeerOf(V) /\ w0.endpoint = None /\ w0.persistentkeepalive = 0
      /\ w0.name = b.name
  BY DEF PeerOf, NoPeer, Renamed
<1>2. /\ w1 \in PeerOf(V) /\ w1.endpoint = None /\ w1.persistentkeepalive = 0
      /\ w1.name = b.name /\ w1.publickey = b.publickey
  BY <1>1 DEF PeerOf, Changed
<1>3. /\ w2 \in PeerOf(V) /\ w2.endpoint = None /\ w2.persistentkeepalive = 0
      /\ w2.name = b.name /\ w2.publickey = b.publickey /\ w2.allowedips = b.allowedips
  BY <1>2 DEF PeerOf, Changed
<1>4. /\ w3 \in PeerOf(V) /\ w3.persistentkeepalive = 0 /\ w3.endpoint = b.endpoint
      /\ w3.name = b.name /\ w3.publickey = b.publickey /\ w3.allowedips = b.allowedips
  BY <1>3 DEF PeerOf, Changed
<1>5. CASE b.persistentkeepalive > 0
  BY <1>4, <1>5 DEF PeerOf, Changed
<1>6. CASE ~(b.persistentkeepalive > 0)
  <2>1. b.persistentkeepalive = 0
    BY <1>6 DEF PeerOf
  <2> QED BY <1>4, <1>6, <2>1 DEF PeerOf
<1> QED BY <1>5, <1>6

LEMMA PeerParsed ==
    ASSUME NEW V, None \in V, 0 \in V, NEW s \in File(V), NEW b \in PeerOf(V),
           NEW above \in BOOLEAN, NEW cur, NEW i, NEW ps \in PeersOf(V),
           Parsed(s) = State(cur, None, i, ps),
           above /\ b.name # None => Named(cur, ps)
    PROVE  /\ PeerLines(b, above) \in File(V)
           /\ Parsed(Cat(s, PeerLines(b, above))) = State("peer", None, i, Grown(ps, b))
<1> DEFINE k1 == KV("publickey", b.publickey)
           k2 == KV("allowedips", b.allowedips)
           k3 == KV("endpoint", b.endpoint)
           k4 == KV("persistentkeepalive", b.persistentkeepalive)
           w0 == Renamed(NoPeer, b.name)
           w1 == Changed(w0, "publickey", b.publickey)
           w2 == Changed(w1, "allowedips", b.allowedips)
           w3 == IF b.endpoint # None THEN Changed(w2, "endpoint", b.endpoint) ELSE w2
           h == PeerHead(b, above)
           m == <<k1, k2>>
           e == When(b.endpoint # None, k3)
           k == When(b.persistentkeepalive > 0, k4)
           Is(f, w) == Parsed(f) = State("peer", None, i, Grown(ps, w))
<1>1. k1 \in Lines(V) /\ k2 \in Lines(V) /\ k3 \in Lines(V) /\ k4 \in Lines(V)
  BY DEF Lines, KV, PeerOf, Settings
<1>2. w0 \in PeerOf(V) /\ w1 \in PeerOf(V) /\ w2 \in PeerOf(V) /\ w3 \in PeerOf(V)
  <2>1. w0 \in PeerOf(V)
    BY ChangedFacts
  <2> HIDE DEF w0
  <2>2. w1 \in PeerOf(V)
    BY <2>1, ChangedFacts
  <2> HIDE DEF w1
  <2>3. w2 \in PeerOf(V)
    BY <2>2, ChangedFacts
  <2> HIDE DEF w2
  <2>4. w3 \in PeerOf(V)
    BY <2>3, ChangedFacts
  <2> QED BY <2>1, <2>2, <2>3, <2>4
<1>3. (b.persistentkeepalive > 0) \in BOOLEAN
  BY DEF PeerOf
<1>4. PICK l : h \in File(V) /\ Parsed(Cat(s, h)) = State("peer", l, i, Grown(ps, w0))
  BY <1>2, HeadParsed
<1>5. m \in File(V) /\ Cat(Cat(s, h), m) \in File(V) /\ Is(Cat(Cat(s, h), m), w2)
  <2>1. m \in File(V) /\ Cat(s, h) \in File(V)
    BY <1>1, <1>4, TwoLines, CatFile
  <2>2. Cat(Cat(s, h), m) \in File(V)
    BY <2>1, CatFile
  <2>3. Parsed(Cat(Cat(s, h), m)) = ParseLine(ParseLine(Parsed(Cat(s, h)), k1), k2)
    BY <1>1, <2>1, ParsedTwo
  <2>4. ParseLine(State("peer", l, i, Grown(ps, w0)), k1) = State("peer", None, i, Grown(ps, w1))
    BY <1>2, SetPeer DEF PeerSettings
  <2>5. ParseLine(State("peer", None, i, Grown(ps, w1)), k2) = State("peer", None, i, Grown(ps, w2))
    BY <1>2, SetPeer DEF PeerSettings
  <2> QED BY <1>4, <2>1, <2>2, <2>3, <2>4, <2>5
<1>6. e \in File(V) /\ Cat(Cat(Cat(s, h), m), e) \in File(V) /\ Is(Cat(Cat(Cat(s, h), m), e), w3)
  <2> HIDE DEF m, w2
  <2>1. ASSUME NEW f \in File(V), Is(f, w2)
        PROVE  e \in File(V) /\ Cat(f, e) \in File(V) /\ Is(Cat(f, e), w3)
    <3>1. /\ e \in File(V)
          /\ Parsed(Cat(f, e)) = IF b.endpoint # None THEN ParseLine(Parsed(f), k3) ELSE Parsed(f)
      BY <1>1, ParsedWhen
    <3>2. CASE b.endpoint # None
      <4>1. w3 = Changed(w2, "endpoint", b.endpoint)
        BY <3>2
      <4>2. ParseLine(State("peer", None, i, Grown(ps, w2)), k3) = State("peer", None, i, Grown(ps, w3))
        BY <1>2, <4>1, SetPeer DEF PeerSettings
      <4> QED BY <2>1, <3>1, <3>2, <4>2, CatFile
    <3>3. CASE b.endpoint = None
      BY <2>1, <3>1, <3>3, CatFile
    <3> QED BY <3>2, <3>3
  <2> QED BY <1>5, <2>1
<1>7. /\ k \in File(V)
      /\ Is(Cat(Cat(Cat(Cat(s, h), m), e), k), b)
  <2>1. b = IF b.persistentkeepalive > 0
            THEN Changed(w3, "persistentkeepalive", b.persistentkeepalive) ELSE w3
    BY AllSet
  <2> HIDE DEF m, e, w3
  <2>2. ASSUME NEW f \in File(V), Is(f, w3)
        PROVE  k \in File(V) /\ Is(Cat(f, k), b)
    <3>1. /\ k \in File(V)
          /\ Parsed(Cat(f, k)) = IF b.persistentkeepalive > 0 THEN ParseLine(Parsed(f), k4)
                                                              ELSE Parsed(f)
      BY <1>1, <1>3, ParsedWhen
    <3>2. CASE b.persistentkeepalive > 0
      <4>1. b = Changed(w3, "persistentkeepalive", b.persistentkeepalive)
        BY <2>1, <3>2
      <4>2. ParseLine(State("peer", None, i, Grown(ps, w3)), k4) = State("peer", None, i, Grown(ps, b))
        BY <1>2, <4>1, SetPeer DEF PeerSettings
      <4> QED BY <2>2, <3>1, <3>2, <4>2
    <3>3. CASE ~(b.persistentkeepalive > 0)
      BY <2>1, <2>2, <3>1, <3>3
    <3> QED BY <3>2, <3>3
  <2> QED BY <1>6, <2>2
<1>8. PeerLines(b, above) = Cat(Cat(Cat(h, m), e), k)
  BY DEF PeerLines, PeerHead, Cat
<1> HIDE DEF h, m, e, k
<1>9. Cat(h, m) \in File(V) /\ Cat(Cat(h, m), e) \in File(V) /\ Cat(Cat(Cat(h, m), e), k) \in File(V)
  BY <1>4, <1>5, <1>6, <1>7, CatFile
<1>10. Cat(Cat(Cat(Cat(s, h), m), e), k) = Cat(s, Cat(Cat(Cat(h, m), e), k))
  <2>1. Cat(Cat(s, h), m) = Cat(s, Cat(h, m))
    BY <1>4, <1>5, CatGroups
  <2>2. Cat(Cat(s, Cat(h, m)), e) = Cat(s, Cat(Cat(h, m), e))
    BY <1>6, <1>9, CatGroups
  <2>3. Cat(Cat(s, Cat(Cat(h, m), e)), k) = Cat(s, Cat(Cat(Cat(h, m), e), k))
    BY <1>7, <1>9, CatGroups
  <2> QED BY <2>1, <2>2, <2>3
<1> QED BY <1>7, <1>8, <1>9, <1>10


-----------------------------------------------------------------------------
(***************************************************************************)
(* The interface section sets the interface and no peers.                  *)
(***************************************************************************)
HookLines(q) == [n \in 1..Len(q) |-> KV("postup", q[n])]
Hooked(i, q) == [i EXCEPT !.postup = q]

\* The hooks up to the n-th, and the lines they make.
LEMMA OneMoreHook ==
    ASSUME NEW V, NEW h \in Seq(V), NEW n \in Nat, n + 1 <= Len(h)
    PROVE  LET p == SubSeq(h, 1, n)
               q == SubSeq(h, 1, n + 1)
           IN q = Append(p, h[n + 1]) /\ HookLines(q) = Append(HookLines(p), KV("postup", h[n + 1]))
<1> DEFINE p == SubSeq(h, 1, n)
           q == SubSeq(h, 1, n + 1)
           x == HookLines(p)
           y == HookLines(q)
           l == KV("postup", h[n + 1])
<1>1. /\ p \in Seq(V) /\ Len(p) = n /\ \A k \in 1..n : p[k] = h[k]
      /\ q \in Seq(V) /\ Len(q) = n + 1 /\ \A k \in 1..(n + 1) : q[k] = h[k]
  <2>1. n \in 0..Len(h) /\ n + 1 \in 1..Len(h)
    OBVIOUS
  <2> QED BY <2>1, SubSeqProperties
<1>2. h[n + 1] \in V
  OBVIOUS
<1>3. q = Append(p, h[n + 1])
  <2> DEFINE a == Append(p, h[n + 1])
  <2> HIDE DEF p, q
  <2>1. a \in Seq(V) /\ Len(a) = n + 1 /\ a[n + 1] = h[n + 1] /\ \A k \in 1..n : a[k] = p[k]
    BY <1>1, <1>2
  <2> HIDE DEF a
  <2>2. \A k \in 1..Len(q) : q[k] = a[k]
    BY <1>1, <2>1
  <2>3. q = a
    BY <1>1, <2>1, <2>2, SeqEqual
  <2> QED BY <2>3 DEF a
<1>4. y = Append(x, l)
  <2> DEFINE L == {KV("postup", v) : v \in V}
             a == Append(x, l)
  <2> HIDE DEF p, q
  <2>1. x \in Seq(L) /\ Len(x) = n /\ \A k \in 1..n : x[k] = KV("postup", p[k])
    BY <1>1 DEF HookLines
  <2>2. y \in Seq(L) /\ Len(y) = n + 1 /\ \A k \in 1..(n + 1) : y[k] = KV("postup", q[k])
    BY <1>1 DEF HookLines
  <2>3. l \in L
    BY <1>2
  <2> HIDE DEF x, y, L
  <2>4. a \in Seq(L) /\ Len(a) = n + 1 /\ a[n + 1] = l /\ \A k \in 1..n : a[k] = x[k]
    BY <2>1, <2>3
  <2> HIDE DEF a
  <2>5. \A k \in 1..Len(y) : y[k] = a[k]
    <3> HIDE DEF l
    <3>1. y[n + 1] = l
      BY <1>1, <2>2 DEF l
    <3>2. ASSUME NEW k \in 1..n PROVE y[k] = a[k]
      <4>1. y[k] = KV("postup", q[k])
        BY <2>2
      <4>2. a[k] = KV("postup", p[k])
        BY <2>1, <2>4
      <4>3. p[k] = q[k]
        BY <1>1
      <4> QED BY <4>1, <4>2, <4>3
    <3> QED BY <2>2, <2>4, <3>1, <3>2
  <2>6. y = a
    BY <2>2, <2>4, <2>5, SeqEqual
  <2> QED BY <2>6 DEF a
<1> QED BY <1>3, <1>4

LEMMA HookFile ==
    ASSUME NEW V, None \in V, NEW q \in Seq(V)
    PROVE  HookLines(q) \in File(V)
<1>1. ASSUME NEW n \in 1..Len(q) PROVE KV("postup", q[n]) \in Lines(V)
  BY DEF Lines, KV, Settings
<1> QED BY <1>1 DEF HookLines, File

LEMMA HooksParsed ==
    ASSUME NEW V, None \in V, NEW f \in File(V), NEW i \in IfaceFrom(V), NEW h \in Seq(V), NEW ps,
           Parsed(f) = State("iface", None, Hooked(i, <<>>), ps)
    PROVE  Parsed(Cat(f, HookLines(h))) = State("iface", None, Hooked(i, h), ps)
<1> DEFINE Is(q) == Parsed(Cat(f, HookLines(q))) = State("iface", None, Hooked(i, q), ps)
           S == {n \in Nat : n <= Len(h) => Is(SubSeq(h, 1, n))}
<1>1. 0 \in S
  <2>1. SubSeq(h, 1, 0) = <<>> /\ HookLines(<<>>) = <<>> /\ Cat(f, <<>>) = f
    BY DEF HookLines, Cat, File
  <2>2. Is(<<>>)
    BY <2>1
  <2> QED BY <2>1, <2>2
<1>2. ASSUME NEW n \in Nat, n \in S PROVE n + 1 \in S
  <2> SUFFICES ASSUME n + 1 <= Len(h) PROVE Is(SubSeq(h, 1, n + 1))
    OBVIOUS
  <2> DEFINE p == SubSeq(h, 1, n)
             v == h[n + 1]
  <2>1. Is(p)
    BY <1>2
  <2>2. p \in Seq(V) /\ v \in V
    OBVIOUS
  <2>3. SubSeq(h, 1, n + 1) = Append(p, v)
    BY OneMoreHook
  <2>4. HookLines(Append(p, v)) = Append(HookLines(p), KV("postup", v))
    BY OneMoreHook
  <2> HIDE DEF p, v
  <2>5. HookLines(p) \in File(V) /\ KV("postup", v) \in Lines(V)
    BY <2>2, HookFile DEF Lines, KV, Settings
  <2>6. Append(HookLines(p), KV("postup", v)) = Cat(HookLines(p), <<KV("postup", v)>>)
    BY <2>5, AppendIsConcat DEF File, Cat
  <2>7. /\ <<KV("postup", v)>> \in File(V)
        /\ Cat(f, HookLines(p)) \in File(V)
        /\ Cat(f, Cat(HookLines(p), <<KV("postup", v)>>)) = Cat(Cat(f, HookLines(p)), <<KV("postup", v)>>)
    <3>1. <<KV("postup", v)>> \in File(V)
      BY <2>5, OneLine
    <3>2. Cat(f, HookLines(p)) \in File(V)
      BY <2>5, CatFile
    <3>3. Cat(Cat(f, HookLines(p)), <<KV("postup", v)>>) = Cat(f, Cat(HookLines(p), <<KV("postup", v)>>))
      BY <2>5, <3>1, CatGroups
    <3> QED BY <3>1, <3>2, <3>3
  <2>8. Parsed(Cat(Cat(f, HookLines(p)), <<KV("postup", v)>>))
          = ParseLine(Parsed(Cat(f, HookLines(p))), KV("postup", v))
    BY <2>5, <2>7, ParsedOne
  <2>9. ParseLine(State("iface", None, Hooked(i, p), ps), KV("postup", v))
          = State("iface", None, Hooked(i, Append(p, v)), ps)
    <3>1. [Hooked(i, p) EXCEPT !.postup = Append(@, v)] = Hooked(i, Append(p, v))
      BY DEF Hooked, IfaceFrom
    <3> QED BY <3>1, AddHook
  <2> QED BY <2>1, <2>3, <2>4, <2>6, <2>7, <2>8, <2>9
<1>3. Nat \subseteq S
  <2> HIDE DEF S
  <2> QED BY <1>1, <1>2, SetInduction
<1>4. Is(SubSeq(h, 1, Len(h))) /\ SubSeq(h, 1, Len(h)) = h
  BY <1>3
<1> QED BY <1>4

\* The lines before the hooks.
IfaceTop(i) == <<Header("iface"), KV("privatekey", i.privatekey), KV("address", i.address),
                 KV("listenport", i.listenport)>>

LEMMA FourLines ==
    ASSUME NEW V, NEW a \in Lines(V), NEW b \in Lines(V), NEW c \in Lines(V), NEW d \in Lines(V)
    PROVE  /\ <<a, b>> \in File(V) /\ <<c, d>> \in File(V)
           /\ <<a, b, c, d>> = Cat(<<a, b>>, <<c, d>>)
<1> DEFINE X == Lines(V)
<1>1. a \in X /\ b \in X /\ c \in X /\ d \in X
  OBVIOUS
<1> HIDE DEF X
<1>2. <<a, b>> \in Seq(X) /\ <<c, d>> \in Seq(X) /\ <<a, b, c, d>> \in Seq(X)
  BY <1>1
<1> DEFINE u == <<a, b>> \o <<c, d>>
           w == <<a, b, c, d>>
<1>3. u \in Seq(X) /\ Len(u) = 4 /\ u[1] = a /\ u[2] = b /\ u[3] = c /\ u[4] = d
  BY <1>2
<1>4. w \in Seq(X) /\ Len(w) = 4 /\ w[1] = a /\ w[2] = b /\ w[3] = c /\ w[4] = d
  BY <1>2
<1>5. u = w
  <2> HIDE DEF u, w
  <2>1. \A n \in 1..Len(u) : u[n] = w[n]
    BY <1>3, <1>4
  <2> QED BY <1>3, <1>4, <2>1, SeqEqual
<1> QED BY <1>2, <1>5 DEF X, File, Cat

LEMMA TopParsed ==
    ASSUME NEW V, None \in V, 0 \in V, NEW i \in IfaceFrom(V)
    PROVE  /\ IfaceTop(i) \in File(V)
           /\ Parsed(IfaceTop(i)) = State("iface", None, [i EXCEPT !.mtu = 0, !.postup = <<>>], <<>>)
<1> DEFINE a == Header("iface")
           b == KV("privatekey", i.privatekey)
           c == KV("address", i.address)
           d == KV("listenport", i.listenport)
           j1 == Changed(NoIface, "privatekey", i.privatekey)
           j2 == Changed(j1, "address", i.address)
           j3 == Changed(j2, "listenport", i.listenport)
<1>1. a \in Lines(V) /\ b \in Lines(V) /\ c \in Lines(V) /\ d \in Lines(V)
  BY DEF Lines, Header, KV, IfaceFrom, Settings
<1>2. <<>> \in File(V) /\ Cat(<<>>, <<a, b>>) = <<a, b>>
  <2>1. <<a, b>> \in File(V)
    BY <1>1, FourLines
  <2> QED BY <2>1 DEF Cat, File
<1>3. ParseLine(Parsed(<<>>), a) = State("iface", None, NoIface, <<>>)
  <2>1. Parsed(<<>>) = State("none", None, NoIface, <<>>)
    BY ParsedEmpty DEF Start, State
  <2>2. ParseLine(State("none", None, NoIface, <<>>), a) = State("iface", None, NoIface, <<>>)
    BY DEF ParseLine, Header, State
  <2> QED BY <2>1, <2>2
<1>4. ParseLine(State("iface", None, NoIface, <<>>), b) = State("iface", None, j1, <<>>)
  BY SetIface
<1>5. ParseLine(State("iface", None, j1, <<>>), c) = State("iface", None, j2, <<>>)
  BY SetIface
<1>6. ParseLine(State("iface", None, j2, <<>>), d) = State("iface", None, j3, <<>>)
  BY SetIface
<1>7. j3 = [i EXCEPT !.mtu = 0, !.postup = <<>>]
  <2>1. j1 = [privatekey |-> i.privatekey, address |-> None, listenport |-> 0, mtu |-> 0,
              postup |-> <<>>]
    BY DEF NoIface, Changed
  <2> HIDE DEF j1
  <2>2. j2 = [privatekey |-> i.privatekey, address |-> i.address, listenport |-> 0, mtu |-> 0,
              postup |-> <<>>]
    BY <2>1 DEF Changed
  <2> HIDE DEF j2
  <2>3. j3 = [privatekey |-> i.privatekey, address |-> i.address, listenport |-> i.listenport,
              mtu |-> 0, postup |-> <<>>]
    BY <2>2 DEF Changed
  <2> HIDE DEF j3
  <2> DEFINE m == [i EXCEPT !.mtu = 0]
  <2>4. m = [privatekey |-> i.privatekey, address |-> i.address, listenport |-> i.listenport,
             mtu |-> 0, postup |-> i.postup]
    BY DEF IfaceFrom
  <2>5. [i EXCEPT !.mtu = 0, !.postup = <<>>] = [m EXCEPT !.postup = <<>>]
    OBVIOUS
  <2> HIDE DEF m
  <2>6. [m EXCEPT !.postup = <<>>] = j3
    BY <2>3, <2>4
  <2> QED BY <2>5, <2>6
<1> HIDE DEF a, b, c, d, j1, j2, j3
<1>8. Parsed(Cat(<<>>, <<a, b>>)) = State("iface", None, j1, <<>>)
  BY <1>1, <1>2, <1>3, <1>4, ParsedTwo
<1>9. Parsed(Cat(<<a, b>>, <<c, d>>)) = State("iface", None, j3, <<>>)
  <2>1. <<a, b>> \in File(V)
    BY <1>1, FourLines
  <2> QED BY <1>1, <1>2, <1>5, <1>6, <1>8, <2>1, ParsedTwo
<1>10. IfaceTop(i) = Cat(<<a, b>>, <<c, d>>) /\ Cat(<<a, b>>, <<c, d>>) \in File(V)
  <2>1. IfaceTop(i) = <<a, b, c, d>>
    BY DEF IfaceTop, a, b, c, d
  <2> QED BY <1>1, <2>1, FourLines, CatFile
<1> QED BY <1>7, <1>9, <1>10

LEMMA IfaceParsed ==
    ASSUME NEW V, None \in V, 0 \in V, NEW i \in IfaceFrom(V)
    PROVE  IfaceLines(i) \in File(V) /\ Parsed(IfaceLines(i)) = State("iface", None, i, <<>>)
<1> DEFINE f == IfaceTop(i)
           m == KV("mtu", i.mtu)
           e == When(i.mtu > 0, m)
           h == HookLines(i.postup)
           j == [i EXCEPT !.mtu = 0, !.postup = <<>>]
<1>1. m \in Lines(V) /\ (i.mtu > 0) \in BOOLEAN /\ i.postup \in Seq(V)
  BY DEF Lines, KV, IfaceFrom, Settings
<1>2. f \in File(V) /\ Parsed(f) = State("iface", None, j, <<>>)
  BY TopParsed
<1>3. e \in File(V) /\ Parsed(Cat(f, e)) = State("iface", None, Hooked(i, <<>>), <<>>)
  <2>1. /\ e \in File(V)
        /\ Parsed(Cat(f, e)) = IF i.mtu > 0 THEN ParseLine(Parsed(f), m) ELSE Parsed(f)
    BY <1>1, <1>2, ParsedWhen
  <2>2. CASE i.mtu > 0
    <3>1. ParseLine(State("iface", None, j, <<>>), m)
            = State("iface", None, Changed(j, "mtu", i.mtu), <<>>)
      BY SetIface
    <3>2. Changed(j, "mtu", i.mtu) = Hooked(i, <<>>)
      BY DEF IfaceFrom, Hooked, Changed
    <3> HIDE DEF j, m, e, f
    <3> QED BY <1>2, <2>1, <2>2, <3>1, <3>2
  <2>3. CASE ~(i.mtu > 0)
    <3>1. i.mtu = 0
      BY <2>3 DEF IfaceFrom
    <3>2. j = Hooked(i, <<>>)
      BY <3>1 DEF IfaceFrom, Hooked
    <3> HIDE DEF j, m, e, f
    <3> QED BY <1>2, <2>1, <2>3, <3>2
  <2> QED BY <2>2, <2>3
<1>4. IfaceLines(i) = Cat(Cat(f, e), h)
  BY DEF IfaceLines, IfaceTop, HookLines, Cat
<1>5. Hooked(i, i.postup) = i
  BY DEF Hooked, IfaceFrom
<1> HIDE DEF f, e, h
<1>6. h \in File(V) /\ Cat(f, e) \in File(V) /\ Cat(Cat(f, e), h) \in File(V)
  BY <1>1, <1>2, <1>3, HookFile, CatFile DEF h
<1>7. Parsed(Cat(Cat(f, e), h)) = State("iface", None, Hooked(i, i.postup), <<>>)
  BY <1>1, <1>3, <1>6, HooksParsed DEF h
<1> QED BY <1>4, <1>5, <1>6, <1>7

-----------------------------------------------------------------------------
(***************************************************************************)
(* The sections one after the other.                                       *)
(***************************************************************************)
FlatStep(q, g, n) == IF n = 1 THEN q[n] ELSE g[n - 1] \o q[n]

\* The recursion in FlattenSeq defines a function.
LEMMA FlatExists ==
    ASSUME NEW q, NEW N \in Nat
    PROVE  \E g : g = [n \in 1..N |-> FlatStep(q, g, n)]
<1> DEFINE S == {m \in Nat : \E g : g = [n \in 1..m |-> FlatStep(q, g, n)]}
<1>1. 0 \in S
  <2> DEFINE g == [n \in 1..0 |-> 0]
  <2>1. g = [n \in 1..0 |-> FlatStep(q, g, n)]
    OBVIOUS
  <2> QED BY <2>1
<1>2. ASSUME NEW m \in Nat, m \in S PROVE m + 1 \in S
  <2>1. PICK g : g = [n \in 1..m |-> FlatStep(q, g, n)]
    BY <1>2
  <2> DEFINE h == [n \in 1..(m + 1) |-> IF n <= m THEN g[n] ELSE FlatStep(q, g, n)]
  <2>2. ASSUME NEW n \in 1..(m + 1) PROVE h[n] = FlatStep(q, h, n)
    <3>1. h[n] = FlatStep(q, g, n)
      <4>1. CASE n <= m
        <5>1. g[n] = FlatStep(q, g, n)
          BY <2>1, <4>1
        <5> QED BY <4>1, <5>1
      <4>2. CASE ~(n <= m)
        BY <4>2
      <4> QED BY <4>1, <4>2
    <3>2. n # 1 => h[n - 1] = g[n - 1]
      OBVIOUS
    <3> HIDE DEF h
    <3> QED BY <3>1, <3>2 DEF FlatStep
  <2>3. h = [n \in 1..(m + 1) |-> FlatStep(q, h, n)]
    <3>1. h = [n \in 1..(m + 1) |-> h[n]]
      OBVIOUS
    <3> HIDE DEF h
    <3> QED BY <2>2, <3>1
  <2> HIDE DEF h
  <2> QED BY <2>3
<1>3. Nat \subseteq S
  <2> HIDE DEF S
  <2> QED BY <1>1, <1>2, SetInduction
<1> QED BY <1>3

LEMMA FlatUnfold ==
    ASSUME NEW q, Len(q) \in Nat, Len(q) # 0
    PROVE  \E g : /\ g = [n \in 1..Len(q) |-> FlatStep(q, g, n)]
                  /\ FlattenSeq(q) = g[Len(q)]
<1> DEFINE g == CHOOSE h : h = [n \in 1..Len(q) |-> FlatStep(q, h, n)]
<1>1. g = [n \in 1..Len(q) |-> FlatStep(q, g, n)]
  BY FlatExists
<1>2. FlattenSeq(q) = g[Len(q)]
  BY DEF FlattenSeq, FlatStep
<1> QED BY <1>1, <1>2

\* What the file has of them after each section.
LEMMA FlatStates ==
    ASSUME NEW V, NEW q, q \in Seq(File(V))
    PROVE  \E h : /\ h[0] = <<>>
                  /\ \A n \in 1..Len(q) : h[n] = Cat(h[n - 1], q[n])
                  /\ FlattenSeq(q) = h[Len(q)]
<1>0. Len(q) \in Nat
  OBVIOUS
<1>1. CASE Len(q) = 0
  <2> DEFINE h == [n \in 0..0 |-> <<>>]
  <2>1. q = <<>> /\ FlattenSeq(q) = q /\ 1..Len(q) = {}
    BY <1>1 DEF FlattenSeq
  <2>2. h[0] = <<>> /\ FlattenSeq(q) = h[Len(q)]
    BY <1>1, <2>1
  <2> QED BY <2>1, <2>2
<1>2. CASE Len(q) # 0
  <2>1. PICK g : /\ g = [n \in 1..Len(q) |-> FlatStep(q, g, n)]
                 /\ FlattenSeq(q) = g[Len(q)]
    BY <1>0, <1>2, FlatUnfold
  <2> DEFINE h == [n \in 0..Len(q) |-> IF n = 0 THEN <<>> ELSE g[n]]
  <2>2. h[0] = <<>> /\ FlattenSeq(q) = h[Len(q)]
    BY <1>0, <1>2, <2>1
  <2>3. ASSUME NEW n \in 1..Len(q) PROVE h[n] = Cat(h[n - 1], q[n])
    <3>1. h[n] = g[n] /\ g[n] = FlatStep(q, g, n)
      BY <2>1
    <3>2. CASE n = 1
      <4>1. h[n - 1] = <<>> /\ q[n] \in File(V)
        BY <3>2
      <4>2. Cat(<<>>, q[n]) = q[n]
        BY <4>1 DEF Cat, File
      <4>3. FlatStep(q, g, n) = q[n]
        BY <3>2 DEF FlatStep
      <4> QED BY <3>1, <4>1, <4>2, <4>3
    <3>3. CASE n # 1
      <4>1. h[n - 1] = g[n - 1]
        BY <3>3
      <4>2. FlatStep(q, g, n) = Cat(g[n - 1], q[n])
        BY <3>3 DEF FlatStep, Cat
      <4> QED BY <3>1, <4>1, <4>2
    <3> QED BY <3>2, <3>3
  <2> HIDE DEF h
  <2> QED BY <2>2, <2>3
<1> QED BY <1>1, <1>2

\* The first peers of a list, one more, and all of them.
LEMMA FirstPeers ==
    ASSUME NEW V, NEW bs \in PeersOf(V), NEW n \in Nat, n + 1 <= Len(bs)
    PROVE  /\ SubSeq(bs, 1, n) \in PeersOf(V) /\ Len(SubSeq(bs, 1, n)) = n
           /\ n > 0 => SubSeq(bs, 1, n)[n] = bs[n]
           /\ bs[n + 1] \in PeerOf(V)
           /\ SubSeq(bs, 1, n + 1) = Grown(SubSeq(bs, 1, n), bs[n + 1])
<1> DEFINE P == PeerOf(V)
           p == SubSeq(bs, 1, n)
           q == SubSeq(bs, 1, n + 1)
           a == Append(p, bs[n + 1])
<1>1. bs \in Seq(P)
  BY DEF PeersOf
<1> HIDE DEF P
<1>2. /\ p \in Seq(P) /\ Len(p) = n /\ \A k \in 1..n : p[k] = bs[k]
      /\ q \in Seq(P) /\ Len(q) = n + 1 /\ \A k \in 1..(n + 1) : q[k] = bs[k]
      /\ bs[n + 1] \in P
  <2>1. n \in 0..Len(bs) /\ n + 1 \in 1..Len(bs)
    BY <1>1
  <2> QED BY <1>1, <2>1, SubSeqProperties
<1>3. q = a
  <2> HIDE DEF p, q
  <2>1. a \in Seq(P) /\ Len(a) = n + 1 /\ a[n + 1] = bs[n + 1] /\ \A k \in 1..n : a[k] = p[k]
    BY <1>2
  <2> HIDE DEF a
  <2>2. \A k \in 1..Len(q) : q[k] = a[k]
    BY <1>2, <2>1
  <2> QED BY <1>2, <2>1, <2>2, SeqEqual
<1> QED BY <1>2, <1>3 DEF P, PeersOf, Grown

\* Every name above a section follows a peer that has one of its own.
Readable(bs, above) ==
    \A n \in 1..(Len(bs) - 1) : bs[n + 1].name # None /\ above[n + 1] => bs[n].name # None

Sections(bs, above) == [n \in 1..Len(bs) |-> PeerLines(bs[n], above[n])]

\* A section is a part of a file wherever it stands.
LEMMA SectionFile ==
    ASSUME NEW V, None \in V, 0 \in V, NEW b \in PeerOf(V), NEW a \in BOOLEAN
    PROVE  PeerLines(b, a) \in File(V)
<1> DEFINE s == <<Header("iface")>>
<1>1. Header("iface") \in Lines(V)
  BY DEF Lines, Header
<1>2. <<>> \in File(V) /\ <<>> \in PeersOf(V)
  BY DEF File, PeersOf
<1>3. s \in File(V)
  BY <1>1, OneLine
<1>4. Cat(<<>>, s) = s
  BY <1>3 DEF Cat, File
<1>5. Parsed(s) = ParseLine(Start, Header("iface"))
  BY <1>1, <1>2, <1>4, ParsedOne, ParsedEmpty
<1>6. Parsed(s) = State("iface", None, NoIface, <<>>)
  BY <1>5 DEF ParseLine, Header, State, Start
<1>7. Named("iface", <<>>)
  BY DEF Named
<1> HIDE DEF s
<1> QED BY <1>2, <1>3, <1>6, <1>7, PeerParsed

LEMMA SectionsParsed ==
    ASSUME NEW V, None \in V, 0 \in V, NEW s \in File(V), NEW i, NEW bs \in PeersOf(V),
           NEW above \in [1..Len(bs) -> BOOLEAN], Readable(bs, above),
           Parsed(s) = State("iface", None, i, <<>>)
    PROVE  \E cur : Parsed(Cat(s, FlattenSeq(Sections(bs, above)))) = State(cur, None, i, bs)
<1> DEFINE q == Sections(bs, above)
           Cur(n) == IF n = 0 THEN "iface" ELSE "peer"
           Is(f, n) == Parsed(Cat(s, f)) = State(Cur(n), None, i, SubSeq(bs, 1, n))
<1>1. /\ Len(bs) \in Nat /\ \A n \in 1..Len(bs) : bs[n] \in PeerOf(V)
      /\ SubSeq(bs, 1, 0) = <<>> /\ SubSeq(bs, 1, Len(bs)) = bs
  BY DEF PeersOf
<1>2. /\ q \in Seq(File(V)) /\ Len(q) = Len(bs)
      /\ \A n \in 1..Len(bs) : q[n] = PeerLines(bs[n], above[n]) /\ q[n] \in File(V)
  <2>1. \A n \in 1..Len(bs) : PeerLines(bs[n], above[n]) \in File(V)
    BY <1>1, SectionFile
  <2>2. q = [n \in 1..Len(bs) |-> PeerLines(bs[n], above[n])]
    BY DEF Sections
  <2> HIDE DEF q
  <2> QED BY <1>1, <2>1, <2>2
<1> HIDE DEF q
<1>3. PICK h : /\ h[0] = <<>>
               /\ \A n \in 1..Len(q) : h[n] = Cat(h[n - 1], q[n])
               /\ FlattenSeq(q) = h[Len(q)]
  BY <1>2, FlatStates
<1> DEFINE S == {n \in Nat : n <= Len(bs) => h[n] \in File(V) /\ Is(h[n], n)}
<1>4. 0 \in S
  <2>1. <<>> \in File(V) /\ Cat(s, <<>>) = s
    BY DEF File, Cat
  <2>2. h[0] \in File(V) /\ Is(h[0], 0)
    BY <1>1, <1>3, <2>1
  <2> QED BY <2>2
<1>5. ASSUME NEW n \in Nat, n \in S PROVE n + 1 \in S
  <2> SUFFICES ASSUME n + 1 <= Len(bs) PROVE h[n + 1] \in File(V) /\ Is(h[n + 1], n + 1)
    OBVIOUS
  <2> DEFINE ps == SubSeq(bs, 1, n)
             b == bs[n + 1]
             x == PeerLines(b, above[n + 1])
  <2>1. h[n] \in File(V) /\ Is(h[n], n)
    BY <1>1, <1>5
  <2>2. n + 1 \in 1..Len(q) /\ (n + 1) - 1 = n /\ n + 1 # 0
    BY <1>2
  <2>3. h[n + 1] = Cat(h[n], x) /\ x \in File(V)
    BY <1>2, <1>3, <2>2
  <2>4. /\ ps \in PeersOf(V) /\ Len(ps) = n /\ b \in PeerOf(V)
        /\ n > 0 => ps[n] = bs[n]
        /\ SubSeq(bs, 1, n + 1) = Grown(ps, b)
    BY FirstPeers
  <2>5. above[n + 1] \in BOOLEAN
    BY <1>2, <2>2
  <2>6. above[n + 1] /\ b.name # None => Named(Cur(n), ps)
    <3> SUFFICES ASSUME above[n + 1], b.name # None PROVE Named(Cur(n), ps)
      OBVIOUS
    <3>1. CASE n = 0
      BY <3>1 DEF Named
    <3>2. CASE n # 0
      <4>1. n \in 1..(Len(bs) - 1)
        BY <1>1, <3>2
      <4>2. bs[n].name # None
        BY <4>1 DEF Readable
      <4>3. n > 0 /\ ps[n] = bs[n]
        BY <2>4, <3>2
      <4> HIDE DEF ps
      <4> QED BY <2>4, <4>2, <4>3 DEF Named
    <3> QED BY <3>1, <3>2
  <2> HIDE DEF ps, b
  <2>7. Cat(s, h[n]) \in File(V)
    BY <2>1, CatFile
  <2>8. Parsed(Cat(Cat(s, h[n]), x)) = State("peer", None, i, Grown(ps, b))
    <3>1. Parsed(Cat(s, h[n])) = State(Cur(n), None, i, ps)
      BY <2>1 DEF ps
    <3> HIDE DEF Cur
    <3> QED BY <2>4, <2>5, <2>6, <2>7, <3>1, PeerParsed
  <2>9. Cat(Cat(s, h[n]), x) = Cat(s, Cat(h[n], x)) /\ Cat(h[n], x) \in File(V)
    <3> HIDE DEF x
    <3>1. Cat(h[n], x) \in File(V)
      BY <2>1, <2>3, CatFile
    <3>2. Cat(Cat(s, h[n]), x) = Cat(s, Cat(h[n], x))
      BY <2>1, <2>3, CatGroups
    <3> QED BY <3>1, <3>2
  <2>10. Cur(n + 1) = "peer"
    BY <2>2
  <2> QED BY <2>3, <2>4, <2>8, <2>9, <2>10
<1>6. Nat \subseteq S
  <2> HIDE DEF S
  <2> QED BY <1>4, <1>5, SetInduction
<1>7. Is(h[Len(bs)], Len(bs))
  BY <1>1, <1>6
<1>8. Parsed(Cat(s, FlattenSeq(q))) = State(Cur(Len(bs)), None, i, bs)
  BY <1>1, <1>2, <1>3, <1>7
<1> QED BY <1>8 DEF q

(***************************************************************************)
(* The file of an interface and its peers reads back as both.              *)
(***************************************************************************)
LEMMA ReadsBack ==
    ASSUME NEW V, None \in V, 0 \in V, NEW i \in IfaceFrom(V), i.privatekey # None,
           NEW bs \in PeersOf(V), NEW above \in [1..Len(bs) -> BOOLEAN], Readable(bs, above)
    PROVE  ParseConfig(ServerConf(i, bs, above)) = [iface |-> i, peers |-> bs]
<1>1. IfaceLines(i) \in File(V) /\ Parsed(IfaceLines(i)) = State("iface", None, i, <<>>)
  BY IfaceParsed
<1>2. PICK cur : Parsed(Cat(IfaceLines(i), FlattenSeq(Sections(bs, above)))) = State(cur, None, i, bs)
  BY <1>1, SectionsParsed
<1>3. ServerConf(i, bs, above) = Cat(IfaceLines(i), FlattenSeq(Sections(bs, above)))
  BY DEF ServerConf, Sections, Cat
<1>4. FoldLeft(ParseLine, Start, ServerConf(i, bs, above)) = State(cur, None, i, bs)
  BY <1>2, <1>3 DEF Parsed
<1>5. State(cur, None, i, bs).iface = i /\ State(cur, None, i, bs).peers = bs
  BY DEF State
<1> QED BY <1>4, <1>5 DEF ParseConfig

USE AddrAssumption, NoneAssumption

-----------------------------------------------------------------------------
(***************************************************************************)
(* The arithmetic.                                                         *)
(***************************************************************************)

\* Division with a remainder, and that there is only one.
LEMMA Division ==
    ASSUME NEW a \in Nat, NEW b \in Nat \ {0}
    PROVE  /\ a \div b \in Nat /\ a % b \in Nat /\ a % b < b
           /\ a = b * (a \div b) + (a % b)
OBVIOUS

\* A product grows with its factor.
LEMMA Monotone ==
    ASSUME NEW b \in Nat, NEW x \in Int, NEW y \in Int, x <= y
    PROVE  b * x <= b * y /\ b * x \in Int /\ b * y \in Int
OBVIOUS

LEMMA OneDivision ==
    ASSUME NEW b \in Nat \ {0}, NEW q \in Nat, NEW r \in Nat, r < b, NEW a, a = b * q + r
    PROVE  a \in Nat /\ a \div b = q /\ a % b = r
<1> DEFINE p == a \div b
<1>1. b * q \in Nat
  OBVIOUS
<1>2. a \in Nat
  BY <1>1
<1>3. p \in Nat /\ a % b \in Nat /\ a % b < b /\ a = b * p + (a % b)
  BY <1>2, Division
<1> HIDE DEF p
<1>4. CASE p < q
  <2>1. b * (p + 1) <= b * q
    BY <1>3, <1>4, Monotone
  <2>2. b * (p + 1) = b * p + b
    BY <1>3
  <2> QED BY <1>1, <1>3, <2>1, <2>2
<1>5. CASE p > q
  <2>1. b * (q + 1) <= b * p
    BY <1>3, <1>5, Monotone
  <2>2. b * (q + 1) = b * q + b
    OBVIOUS
  <2> QED BY <1>1, <1>3, <2>1, <2>2
<1>6. CASE p = q
  BY <1>1, <1>3, <1>6 DEF p
<1> QED BY <1>3, <1>4, <1>5, <1>6

\* A number below the divisor, a multiple of it, and a number that it divides.
LEMMA Small ==
    ASSUME NEW b \in Nat \ {0}, NEW r \in Nat, r < b
    PROVE  r \div b = 0 /\ r % b = r
<1>1. r = b * 0 + r
  OBVIOUS
<1> QED BY <1>1, OneDivision

LEMMA Multiple ==
    ASSUME NEW b \in Nat \ {0}, NEW q \in Nat, NEW a, a = b * q
    PROVE  a \div b = q /\ a % b = 0
<1> DEFINE r == 0
<1>1. r \in Nat /\ r < b
  OBVIOUS
<1>2. b * q \in Nat /\ a = b * q + r
  OBVIOUS
<1> HIDE DEF r
<1>3. a \div b = q /\ a % b = r
  BY <1>1, <1>2, OneDivision
<1> QED BY <1>3 DEF r

LEMMA Exact ==
    ASSUME NEW a \in Nat, NEW b \in Nat \ {0}, a % b = 0
    PROVE  \E k \in Nat : a = b * k
<1> DEFINE k == a \div b
<1>1. k \in Nat /\ a = b * k + (a % b)
  BY Division
<1> HIDE DEF k
<1>2. b * k \in Nat
  BY <1>1
<1>3. a = b * k
  BY <1>1, <1>2
<1> QED BY <1>1, <1>3

\* A subnet is aligned: it ends inside the address space, and inside the byte
\* it begins in unless it has whole bytes.
LEMMA Aligned ==
    ASSUME NEW i \in Subnets
    PROVE  /\ i.size \in Nat \ {0} /\ i.ip \in Nat /\ i.ip \div i.size \in Nat
           /\ Network(i) = i.size * (i.ip \div i.size)
           /\ Network(i) \in Nat /\ Network(i) <= i.ip
           /\ Network(i) + i.size <= ByteBase * ByteBase
<1> DEFINE S == i.size
           B == ByteBase
           q == i.ip \div S
<1>1. S \in Nat \ {0} /\ B \in Nat \ {0} /\ i.ip \in Nat /\ i.ip < B * B /\ B * B \in Nat
  BY DEF Addrs
<1>2. q \in Nat /\ i.ip % S \in Nat /\ i.ip = S * q + (i.ip % S) /\ S * q \in Nat
  BY <1>1, Division
<1>3. Network(i) = S * q
  BY <1>1, <1>2 DEF Network
<1>4. PICK m \in Nat : B * B = S * m
  <2>1. CASE B % S = 0
    <3> DEFINE k == B \div S
    <3>1. k \in Nat /\ B = S * k
      BY <1>1, <2>1, Division
    <3> HIDE DEF k
    <3>2. B * B = S * (k * B) /\ k * B \in Nat
      BY <1>1, <3>1
    <3> QED BY <3>2
  <2>2. CASE (B * B) % S = 0
    <3> DEFINE k == (B * B) \div S
    <3>1. k \in Nat /\ B * B = S * k
      BY <1>1, <2>2, Division
    <3> QED BY <3>1
  <2> QED BY <2>1, <2>2, SizeAssumption
<1> HIDE DEF S, B, q
<1>5. q < m
  <2> SUFFICES ASSUME m <= q PROVE FALSE
    BY <1>2
  <2>1. S * m <= S * q
    BY <1>1, <1>2, Monotone
  <2> QED BY <1>1, <1>2, <1>4, <2>1
<1>6. S * (q + 1) <= S * m /\ S * (q + 1) = S * q + S
  BY <1>1, <1>2, <1>5, Monotone
<1> QED BY <1>1, <1>2, <1>3, <1>4, <1>6 DEF S, B, q

\* Hence no byte is carried into the next one.
LEMMA NoCarry ==
    ASSUME NEW i \in Subnets, NEW n \in Nat, n < i.size
    PROVE  Plus(Network(i), n) = Network(i) + n /\ Network(i) + n \in Addrs
<1> DEFINE S == i.size
           B == ByteBase
           N == Network(i)
           q == i.ip \div S
           h == N \div B
           l == N % B
<1>1. /\ S \in Nat \ {0} /\ B \in Nat \ {0} /\ q \in Nat /\ N = S * q /\ N \in Nat
      /\ N + S <= B * B /\ B * B \in Nat
  BY Aligned
<1>2. h \in Nat /\ l \in Nat /\ l < B /\ N = B * h + l /\ B * h \in Nat
  BY <1>1, Division
<1>3. n \div B \in Nat /\ n % B \in Nat /\ n % B < B /\ n = B * (n \div B) + (n % B)
  BY <1>1, Division
<1>4. Plus(N, n) = ((h + (n \div B)) % B) * B + ((l + (n % B)) % B)
  BY DEF Plus
<1> HIDE DEF N
<1>5. CASE B % S = 0
  <2> HIDE DEF S, B, q, h, l
  <2>1. PICK k \in Nat : B = S * k
    BY <1>1, <1>5, Exact
  <2>2. k > 0
    BY <1>1, <2>1
  <2>3. S <= B
    <3>1. S * 1 <= S * k
      BY <1>1, <2>1, <2>2, Monotone
    <3> QED BY <1>1, <2>1, <3>1
  <2>4. l = S * (q - k * h)
    <3>1. B * h = S * (k * h)
      BY <1>1, <1>2, <2>1
    <3>2. S * (q - k * h) = S * q - S * (k * h)
      BY <1>1, <1>2, <2>1
    <3> QED BY <1>1, <1>2, <3>1, <3>2
  <2>5. l + S <= B
    <3> DEFINE d == q - k * h
    <3>1. d \in Int
      BY <1>1, <1>2, <2>1
    <3> HIDE DEF d
    <3>2. d < k
      <4> SUFFICES ASSUME k <= d PROVE FALSE
        BY <2>1, <3>1
      <4>1. S * k <= S * d
        BY <1>1, <2>1, <3>1, Monotone
      <4> QED BY <1>1, <1>2, <2>1, <2>4, <4>1 DEF d
    <3>3. S * (d + 1) <= S * k /\ S * (d + 1) = S * d + S
      BY <1>1, <2>1, <3>1, <3>2, Monotone
    <3> QED BY <1>1, <1>2, <2>1, <2>4, <3>3 DEF d
  <2>6. n < B
    BY <1>1, <2>3 DEF S
  <2>7. n \div B = 0 /\ n % B = n
    BY <1>1, <2>6, Small
  <2>8. l + n \in Nat /\ l + n < B
    BY <1>1, <1>2, <2>5 DEF S
  <2>9. (l + n) % B = l + n
    BY <1>1, <2>8, Small
  <2>10. h < B
    <3> SUFFICES ASSUME B <= h PROVE FALSE
      BY <1>1, <1>2
    <3>1. B * B <= B * h
      BY <1>1, <1>2, Monotone
    <3> QED BY <1>1, <1>2, <3>1
  <2>11. h % B = h
    BY <1>1, <1>2, <2>10, Small
  <2>12. Plus(N, n) = h * B + (l + n)
    BY <1>2, <1>4, <2>7, <2>9, <2>11
  <2>13. h * B = B * h
    BY <1>1, <1>2
  <2> QED BY <1>1, <1>2, <2>12, <2>13 DEF Addrs, S, B, N
<1>6. CASE S % B = 0
  <2> HIDE DEF S, B, q, h, l
  <2>1. PICK k \in Nat : S = B * k
    BY <1>1, <1>6, Exact
  <2>2. l = 0 /\ h = k * q
    <3> DEFINE p == k * q
    <3>1. N = B * p /\ p \in Nat
      BY <1>1, <2>1
    <3> HIDE DEF p
    <3>2. N \div B = p /\ N % B = 0
      BY <1>1, <3>1, Multiple
    <3> QED BY <3>2 DEF h, l, p
  <2>3. (l + (n % B)) % B = n % B
    <3>1. l + (n % B) = n % B
      BY <1>3, <2>2
    <3> QED BY <1>1, <1>3, <3>1, Small
  <2>4. h + (n \div B) < B
    <3> SUFFICES ASSUME B <= h + (n \div B) PROVE FALSE
      BY <1>1, <1>2, <1>3
    <3>1. B * B <= B * (h + (n \div B))
      BY <1>1, <1>2, <1>3, Monotone
    <3>2. B * (h + (n \div B)) = B * h + B * (n \div B)
      BY <1>1, <1>2, <1>3
    <3>3. B * (n \div B) \in Nat
      BY <1>1, <1>3
    <3>4. B * (n \div B) <= n /\ n < S
      BY <1>3, <3>3 DEF S
    <3>5. B * h = N
      BY <1>2, <2>2
    <3> QED BY <1>1, <3>1, <3>2, <3>3, <3>4, <3>5
  <2>5. h + (n \div B) \in Nat
    BY <1>2, <1>3
  <2>6. (h + (n \div B)) % B = h + (n \div B)
    BY <1>1, <2>4, <2>5, Small
  <2>7. Plus(N, n) = (h + (n \div B)) * B + (n % B)
    BY <1>4, <2>3, <2>6
  <2>8. (h + (n \div B)) * B = B * h + B * (n \div B)
    BY <1>1, <1>2, <1>3
  <2>9. B * (n \div B) \in Nat
    BY <1>1, <1>3
  <2>10. Plus(N, n) = N + n
    BY <1>2, <1>3, <2>2, <2>7, <2>8, <2>9
  <2> QED BY <1>1, <2>10 DEF Addrs, S, B, N
<1> QED BY <1>5, <1>6, SizeAssumption

\* Two bytes make an address, whatever was carried or lost on the way.
LEMMA TwoBytes ==
    ASSUME NEW x \in Nat, NEW y \in Nat
    PROVE  (x % ByteBase) * ByteBase + (y % ByteBase) \in Addrs
<1> DEFINE h == x % ByteBase
           l == y % ByteBase
<1>1. h \in Nat /\ h <= ByteBase - 1 /\ l \in Nat /\ l <= ByteBase - 1
  OBVIOUS
<1> HIDE DEF h, l
<1>2. h * ByteBase \in Nat /\ h * ByteBase <= (ByteBase - 1) * ByteBase
  BY <1>1
<1>3. (ByteBase - 1) * ByteBase = ByteBase * ByteBase - ByteBase
  BY ByteBase \in Nat
<1>4. ByteBase * ByteBase \in Nat
  OBVIOUS
<1>5. h * ByteBase + l \in Nat /\ h * ByteBase + l <= ByteBase * ByteBase - 1
  BY <1>1, <1>2, <1>3, <1>4
<1>6. h * ByteBase + l \in Addrs
  BY <1>4, <1>5 DEF Addrs
<1> QED BY <1>6 DEF h, l

LEMMA PlusType ==
    ASSUME NEW base \in Nat, NEW n \in Nat
    PROVE  Plus(base, n) \in Addrs
<1>1. ASSUME NEW x \in Nat PROVE x \div ByteBase \in Nat /\ x % ByteBase \in Nat
  <2>1. ByteBase \in Nat /\ ByteBase > 0
    OBVIOUS
  <2> QED BY ONLY x \in Nat, <2>1
<1>2. /\ (base \div ByteBase) + (n \div ByteBase) \in Nat
      /\ (base % ByteBase) + (n % ByteBase) \in Nat
  BY <1>1
<1> QED BY <1>2, TwoBytes DEF Plus

\* What the form suggests is an address.
LEMMA SuggestedType ==
    ASSUME NEW i \in Subnets, NEW used
    PROVE  NextAvailable(i, used) \in Addrs \cup {None}
<1> DEFINE hosts == {n \in 1..(i.size - 1) : n < i.size - 1}
           free  == {n \in hosts : Plus(Network(i), n) \notin used \cup {i.ip}}
           n     == CHOOSE k \in free : \A m \in free : k <= m
<1>1. i.ip \in Nat /\ i.size \in Nat \ {0}
  BY DEF Addrs
<1>2. Network(i) \in Nat
  <2>1. i.ip % i.size <= i.ip /\ i.ip % i.size \in Nat
    BY <1>1
  <2> QED BY <1>1, <2>1 DEF Network
<1>3. CASE free = {}
  BY <1>3 DEF NextAvailable
<1>4. CASE free # {}
  <2>1. free \in SUBSET Nat
    BY <1>1
  <2>2. n \in free
    <3> HIDE DEF free
    <3> QED BY <1>4, <2>1, LeastNumber
  <2>3. n \in Nat
    BY <2>1, <2>2
  <2>4. NextAvailable(i, used) = Plus(Network(i), n)
    BY <1>4, Zenon DEF NextAvailable
  <2> HIDE DEF n
  <2> QED BY <1>2, <2>3, <2>4, PlusType
<1> QED BY <1>3, <1>4

-----------------------------------------------------------------------------
(***************************************************************************)
(* The rows the form and the handlers make of a row.                       *)
(***************************************************************************)
LEMMA PrefillFacts ==
    ASSUME NEW r \in Row
    PROVE  /\ Prefill(r) \in Row /\ Prefill(r).id = r.id /\ Prefill(r).alert = r.alert
           /\ r.ka > 0 => Prefill(r).ka = r.ka
BY DEF Prefill, Row

LEMMA StoredFacts ==
    ASSUME NEW r \in Row, NEW id \in Ids
    PROVE  Stored(r, id) \in Row /\ Stored(r, id).id = id /\ Stored(r, id).addr = r.addr
BY DEF Stored, Row

LEMMA FilledFacts ==
    ASSUME NEW r \in Row
    PROVE  /\ Filled(r) \in Row /\ Filled(r).id = r.id
           /\ Filled(r).alert = r.alert /\ Filled(r).ka = r.ka
<1>1. r.addr # None => <<r.addr>> \in Seq(Addrs)
  BY DEF Row
<1> QED BY <1>1 DEF Filled, Row

\* The fields the user changes.
Typed(r, a, nm, ns) == [r EXCEPT !.addr = a, !.name = nm, !.nets = ns]

LEMMA TypedFacts ==
    ASSUME NEW r \in Row, NEW a \in Picks \cup {r.addr}, NEW nm \in Names \cup {r.name},
           NEW ns \in NetChoices \cup {r.nets}
    PROVE  LET q == Typed(r, a, nm, ns)
           IN q \in Row /\ q.id = r.id /\ q.alert = r.alert /\ q.ka = r.ka
BY NetsAssumption DEF Row, Typed

\* An empty field keeps what is stored.
Kept(f, r) == [f EXCEPT !.name = Keep(f.name, None, r.name),
                        !.addr = Keep(f.addr, None, r.addr),
                        !.nets = Keep(f.nets, <<>>, r.nets)]

LEMMA KeepFacts ==
    ASSUME NEW f \in Row, NEW r \in Row
    PROVE  LET q == Kept(f, r)
           IN /\ q \in Row /\ q.id = f.id /\ q.alert = f.alert /\ q.ka = f.ka
              /\ q.addr = Keep(f.addr, None, r.addr)
              /\ \A k \in DOMAIN Blank : q[k] = IF f[k] # Blank[k] THEN f[k] ELSE r[k]
<1> DEFINE q == Kept(f, r)
<1>1. q \in Row /\ q.id = f.id /\ q.alert = f.alert /\ q.ka = f.ka
  <2>1. /\ Keep(f.name, None, r.name) \in Names \cup {None}
        /\ Keep(f.addr, None, r.addr) \in Addrs \cup {None}
        /\ Keep(f.nets, <<>>, r.nets) \in Seq(Addrs)
    BY DEF Row, Keep
  <2> QED BY <2>1 DEF Row, Kept
<1>2. /\ q.addr = Keep(f.addr, None, r.addr) /\ q.name = Keep(f.name, None, r.name)
      /\ q.nets = Keep(f.nets, <<>>, r.nets)
  BY DEF Row, Kept
<1> HIDE DEF q
<1>3. ASSUME NEW k \in DOMAIN Blank
      PROVE  q[k] = IF f[k] # Blank[k] THEN f[k] ELSE r[k]
  <2>1. k \in {"name", "addr", "nets"}
    BY DEF Blank
  <2> QED BY <1>2, <2>1 DEF Blank, Keep
<1> QED BY <1>1, <1>2, <1>3 DEF q

(***************************************************************************)
(* What a tab and its request hold at each step.                           *)
(***************************************************************************)
FormOf(t) ==
    /\ form[t] \in Form
    /\ form[t].was = None => form[t].row.id = None
    /\ form[t].was # None => form[t].was \in Row /\ form[t].row.id = form[t].was.id

\* An update that has read the row it will write.
Updates(t) == pc[t] = "write" \/ (pc[t] = "check" /\ form[t].was # None)

Held(t) ==
    /\ pc[t] \in {"form", "check", "insert", "get", "write"} => FormOf(t)
    /\ pc[t] = "insert" => form[t].was = None
    /\ pc[t] \in {"get", "write"} => form[t].was # None
    /\ Updates(t) => job[t] \in Row /\ job[t].id = form[t].row.id
    /\ (pc[t] = "check" /\ form[t].was # None) => job[t].addr = form[t].row.addr
    /\ pc[t] = "move" => job[t] \in Subnets

\* The primary key.
Keyed == \A m, n \in 1..Len(rows) : rows[m].id = rows[n].id => m = n

Inv == TypeOK /\ Keyed /\ \A t \in Tabs : Held(t)


-----------------------------------------------------------------------------
(***************************************************************************)
(* The rows of the table.                                                  *)
(***************************************************************************)
LEMMA RowFacts ==
    ASSUME Inv, NEW r \in RowSet
    PROVE  /\ r \in Row /\ r.id \in Ids /\ r.id \in born
           /\ \E n \in 1..Len(rows) : rows[n] = r
<1>1. PICK n \in 1..Len(rows) : r = rows[n]
  BY DEF RowSet
<1>2. rows \in Seq(Row) /\ {q.id : q \in RowSet} \subseteq born /\ born \subseteq Ids
  BY DEF Inv, TypeOK
<1>3. r \in Row
  BY <1>1, <1>2
<1> QED BY <1>1, <1>2, <1>3

\* The rows are told apart by their ids.
LEMMA SameId ==
    ASSUME Inv, NEW q \in RowSet, NEW r \in RowSet, q.id = r.id
    PROVE  q = r
BY DEF Inv, Keyed, RowSet

\* A step that leaves the table alone.
LEMMA TableFrame ==
    ASSUME Inv, UNCHANGED <<rows, born>>
    PROVE  /\ rows' \in Seq(Row) /\ Len(rows') <= MaxPeers
           /\ {r.id : r \in RowSet}' \subseteq born' /\ born' \subseteq Ids /\ Keyed'
BY DEF Inv, TypeOK, RowSet, Keyed

\* A tab that takes no step.
LEMMA HeldFrame ==
    ASSUME NEW u, Held(u), pc'[u] = pc[u], form'[u] = form[u], job'[u] = job[u]
    PROVE  Held(u)'
BY DEF Held, FormOf, Updates

\* A step of one tab.
LEMMA OneTab ==
    ASSUME Inv, NEW t \in Tabs,
           NEW l \in {"idle", "form", "check", "insert", "get", "write", "move"},
           NEW f \in Form \cup {None}, NEW j \in Row \cup Subnets \cup {None},
           pc' = [pc EXCEPT ![t] = l], form' = [form EXCEPT ![t] = f],
           job' = [job EXCEPT ![t] = j],
           Held(t)', iface' \in Subnets,
           rows' \in Seq(Row) /\ Len(rows') <= MaxPeers,
           {r.id : r \in RowSet}' \subseteq born', born' \subseteq Ids, Keyed',
           raced' \in BOOLEAN, requests' \in 0..MaxRequests
    PROVE  Inv'
<1>1. /\ pc \in [Tabs -> {"idle", "form", "check", "insert", "get", "write", "move"}]
      /\ form \in [Tabs -> Form \cup {None}]
      /\ job \in [Tabs -> Row \cup Subnets \cup {None}]
  BY DEF Inv, TypeOK
<1>2. TypeOK'
  BY <1>1 DEF TypeOK
<1>3. ASSUME NEW u \in Tabs, u # t PROVE Held(u)'
  <2>1. pc'[u] = pc[u] /\ form'[u] = form[u] /\ job'[u] = job[u]
    BY <1>1, <1>3
  <2>2. Held(u)
    BY DEF Inv
  <2> QED BY <2>1, <2>2, HeldFrame
<1> QED BY <1>2, <1>3, Zenon DEF Inv

\* The values of that tab after the step.
LEMMA AtTab ==
    ASSUME Inv, NEW t \in Tabs
    PROVE  /\ \A x : [pc EXCEPT ![t] = x][t] = x
           /\ \A x : [form EXCEPT ![t] = x][t] = x
           /\ \A x : [job EXCEPT ![t] = x][t] = x
           /\ [pc EXCEPT ![t] = pc[t]] = pc /\ [form EXCEPT ![t] = form[t]] = form
           /\ [job EXCEPT ![t] = job[t]] = job
           /\ form[t] \in Form \cup {None} /\ job[t] \in Row \cup Subnets \cup {None}
           /\ raced \in BOOLEAN /\ requests \in 0..MaxRequests /\ iface \in Subnets
           /\ Held(t)
BY DEF Inv, TypeOK

-----------------------------------------------------------------------------
(***************************************************************************)
(* The forms.                                                              *)
(***************************************************************************)
LEMMA InitInv == Init => Inv
<1> SUFFICES ASSUME Init PROVE Inv
  OBVIOUS
<1>1. /\ rows \in Seq(Row) /\ Len(rows) <= MaxPeers /\ Keyed
      /\ \A n \in 1..Len(rows) : rows[n].id \in Ids
  BY ExistingAssumption DEF Init, Keyed
<1>2. TypeOK
  <2>1. {r.id : r \in RowSet} \subseteq born /\ born \subseteq Ids
    BY <1>1 DEF Init, RowSet
  <2>2. pc \in [Tabs -> {"idle", "form", "check", "insert", "get", "write", "move"}]
    BY DEF Init
  <2>3. form \in [Tabs -> Form \cup {None}] /\ job \in [Tabs -> Row \cup Subnets \cup {None}]
    BY DEF Init
  <2>4. iface \in Subnets /\ requests \in 0..MaxRequests
    BY DEF Init
  <2>5. raced \in BOOLEAN
    BY Zenon DEF Init
  <2> QED BY <1>1, <2>1, <2>2, <2>3, <2>4, <2>5, Zenon DEF TypeOK
<1>3. ASSUME NEW t \in Tabs PROVE Held(t)
  BY DEF Init, Held, Updates
<1> QED BY <1>1, <1>2, <1>3 DEF Inv

LEMMA OpenAddInv ==
    ASSUME Inv, NEW t \in Tabs, OpenAdd(t)
    PROVE  Inv'
<1> DEFINE used == AddrsOf(RowSet) \cup {iface.ip}
           r    == [id |-> None, name |-> None, addr |-> NextAvailable(iface, used),
                    nets |-> <<>>, ka |-> 25, ep |-> None, alert |-> FALSE]
           f    == [row |-> r, used |-> used, was |-> None]
<1>1. /\ pc' = [pc EXCEPT ![t] = "form"] /\ form' = [form EXCEPT ![t] = f]
      /\ UNCHANGED <<iface, rows, job, born, raced, requests>>
  BY DEF OpenAdd, Goto
<1>2. f \in Form
  <2>1. iface \in Subnets /\ iface.ip \in Addrs
    BY AtTab
  <2>2. used \subseteq Addrs
    BY <2>1, RowFacts DEF AddrsOf, Row
  <2>3. NextAvailable(iface, used) \in Addrs \cup {None}
    BY <2>1, SuggestedType
  <2> HIDE DEF used
  <2>4. r \in Row
    BY <2>3 DEF Row
  <2> HIDE DEF r
  <2> QED BY <2>2, <2>4 DEF Form
<1>3. f.was = None /\ f.row.id = None
  OBVIOUS
<1> HIDE DEF f
<1>4. Held(t)'
  <2>1. pc'[t] = "form" /\ form'[t] = f
    BY <1>1, AtTab
  <2> QED BY <1>2, <1>3, <2>1 DEF Held, FormOf, Updates
<1> QED BY <1>1, <1>2, <1>4, AtTab, TableFrame, OneTab

LEMMA OpenEditInv ==
    ASSUME Inv, NEW t \in Tabs, OpenEdit(t)
    PROVE  Inv'
<1>1. PICK r \in RowSet : form' = [form EXCEPT ![t] =
          [row |-> Prefill(r), used |-> AddrsOf(Others(r.id)) \cup {iface.ip}, was |-> r]]
  BY DEF OpenEdit
<1> DEFINE f == [row |-> Prefill(r), used |-> AddrsOf(Others(r.id)) \cup {iface.ip}, was |-> r]
<1>2. /\ pc' = [pc EXCEPT ![t] = "form"] /\ form' = [form EXCEPT ![t] = f]
      /\ UNCHANGED <<iface, rows, job, born, raced, requests>>
  BY <1>1 DEF OpenEdit, Goto
<1>3. r \in Row /\ Prefill(r) \in Row /\ Prefill(r).id = r.id
  BY RowFacts, PrefillFacts
<1>4. f \in Form
  <2>1. iface.ip \in Addrs
    BY AtTab
  <2>2. AddrsOf(Others(r.id)) \cup {iface.ip} \subseteq Addrs
    BY <2>1, RowFacts DEF AddrsOf, Others, Row
  <2> QED BY <1>3, <2>2 DEF Form
<1>5. f.was = r /\ f.row.id = r.id
  BY <1>3
<1> HIDE DEF f
<1>6. Held(t)'
  <2>1. pc'[t] = "form" /\ form'[t] = f
    BY <1>2, AtTab
  <2> QED BY <1>3, <1>4, <1>5, <2>1 DEF Held, FormOf, Updates
<1> QED BY <1>2, <1>4, <1>6, AtTab, TableFrame, OneTab

LEMMA CloseInv ==
    ASSUME Inv, NEW t \in Tabs, Close(t)
    PROVE  Inv'
<1>1. /\ pc' = [pc EXCEPT ![t] = "idle"] /\ form' = [form EXCEPT ![t] = None]
      /\ UNCHANGED <<iface, rows, job, born, raced, requests>>
  BY DEF Close, Goto
<1>2. Held(t)'
  <2>1. pc'[t] = "idle"
    BY <1>1, AtTab
  <2> QED BY <2>1 DEF Held, Updates
<1> QED BY <1>1, <1>2, AtTab, TableFrame, OneTab

\* What the submitted form is.
LEMMA SubmitFacts ==
    ASSUME Inv, NEW t \in Tabs, Submit(t)
    PROVE  /\ pc[t] = "form" /\ FormOf(t)
           /\ \E f \in Form :
                /\ form' = [form EXCEPT ![t] = f]
                /\ f.was = form[t].was /\ f.row.id = form[t].row.id
                /\ f.row.alert = form[t].row.alert /\ f.row.ka = form[t].row.ka
           /\ pc' = [pc EXCEPT ![t] = IF form[t].was = None THEN "check" ELSE "get"]
           /\ requests' \in 0..MaxRequests
           /\ UNCHANGED <<iface, rows, job, born, raced>>
<1>1. pc[t] = "form" /\ FormOf(t)
  BY AtTab DEF Submit, Held
<1>2. form[t] \in Form /\ form[t].row \in Row
  BY <1>1 DEF FormOf, Form
<1>3. PICK a \in Picks \cup {form[t].row.addr}, nm \in Names \cup {form[t].row.name},
           ns \in NetChoices \cup {form[t].row.nets} :
         form' = [form EXCEPT ![t].row =
                    Filled([form[t].row EXCEPT !.addr = a, !.name = nm, !.nets = ns])]
  BY Zenon DEF Submit
<1> DEFINE p == Typed(form[t].row, a, nm, ns)
<1>4. p \in Row /\ p.id = form[t].row.id /\ p.alert = form[t].row.alert /\ p.ka = form[t].row.ka
  BY <1>2, TypedFacts
<1>12. form' = [form EXCEPT ![t].row = Filled(p)]
  BY <1>3 DEF Typed
<1> HIDE DEF p
<1> DEFINE q == Filled(p)
<1>11. q \in Row /\ q.id = p.id /\ q.alert = p.alert /\ q.ka = p.ka
  BY <1>4, FilledFacts
<1>5. form' = [form EXCEPT ![t].row = q]
  BY <1>12
<1> HIDE DEF q
<1> DEFINE f == [form[t] EXCEPT !.row = q]
<1>6. form' = [form EXCEPT ![t] = f]
  BY <1>5
<1>7. f \in Form /\ f.was = form[t].was /\ f.row = q
  BY <1>2, <1>11 DEF Form
<1> HIDE DEF f
<1>8. \E g \in Form :
         /\ form' = [form EXCEPT ![t] = g]
         /\ g.was = form[t].was /\ g.row.id = form[t].row.id
         /\ g.row.alert = form[t].row.alert /\ g.row.ka = form[t].row.ka
  <2>1. f.row.id = form[t].row.id /\ f.row.alert = form[t].row.alert /\ f.row.ka = form[t].row.ka
    BY <1>4, <1>7, <1>11
  <2> QED BY <1>6, <1>7, <2>1
<1>9. /\ pc' = [pc EXCEPT ![t] = IF form[t].was = None THEN "check" ELSE "get"]
      /\ requests < MaxRequests /\ requests' = requests + 1
      /\ UNCHANGED <<iface, rows, job, born, raced>>
  BY DEF Submit, Goto
<1>10. requests' \in 0..MaxRequests
  BY <1>9, AtTab
<1> QED BY <1>1, <1>8, <1>9, <1>10

LEMMA SubmitInv ==
    ASSUME Inv, NEW t \in Tabs, Submit(t)
    PROVE  Inv'
<1>1. PICK f \in Form :
         /\ form' = [form EXCEPT ![t] = f]
         /\ f.was = form[t].was /\ f.row.id = form[t].row.id
  BY SubmitFacts
<1> DEFINE l == IF form[t].was = None THEN "check" ELSE "get"
<1>2. /\ pc' = [pc EXCEPT ![t] = l] /\ requests' \in 0..MaxRequests
      /\ UNCHANGED <<iface, rows, job, born, raced>> /\ FormOf(t)
  BY SubmitFacts
<1>3. /\ l \in {"idle", "form", "check", "insert", "get", "write", "move"}
      /\ form[t].was = None => l = "check"
      /\ form[t].was # None => l = "get"
  OBVIOUS
<1> HIDE DEF l
<1>4. Held(t)'
  <2>1. pc'[t] = l /\ form'[t] = f
    BY <1>1, <1>2, AtTab
  <2>2. FormOf(t)'
    BY <1>1, <1>2, <2>1 DEF FormOf
  <2> QED BY <1>1, <1>3, <2>1, <2>2 DEF Held, Updates
<1>5. job' = [job EXCEPT ![t] = job[t]] /\ job[t] \in Row \cup Subnets \cup {None}
  BY <1>2, AtTab
<1>6. raced' \in BOOLEAN /\ iface' \in Subnets
  BY <1>2, AtTab
<1> QED BY <1>1, <1>2, <1>3, <1>4, <1>5, <1>6, TableFrame, OneTab

-----------------------------------------------------------------------------
(***************************************************************************)
(* The handlers.                                                           *)
(***************************************************************************)

\* A refused request leaves the form as it was.
LEMMA RefuseInv ==
    ASSUME Inv, NEW t \in Tabs, FormOf(t), Refuse(t)
    PROVE  Inv'
<1>1. /\ pc' = [pc EXCEPT ![t] = "form"] /\ job' = [job EXCEPT ![t] = None]
      /\ UNCHANGED <<iface, rows, form, born, raced, requests>>
  BY DEF Refuse, Goto
<1>2. Held(t)'
  <2>1. pc'[t] = "form"
    BY <1>1, AtTab
  <2>2. FormOf(t)'
    BY <1>1 DEF FormOf
  <2> QED BY <2>1, <2>2 DEF Held, Updates
<1> QED BY <1>1, <1>2, AtTab, TableFrame, OneTab

\* A request that is done, whatever it wrote.
LEMMA DoneInv ==
    ASSUME Inv, NEW t \in Tabs, Done(t), Race(t), iface' \in Subnets,
           rows' \in Seq(Row) /\ Len(rows') <= MaxPeers,
           {r.id : r \in RowSet}' \subseteq born', born' \subseteq Ids, Keyed',
           UNCHANGED requests
    PROVE  Inv'
<1>1. /\ pc' = [pc EXCEPT ![t] = "idle"] /\ form' = [form EXCEPT ![t] = None]
      /\ job' = [job EXCEPT ![t] = None]
  BY DEF Done, Goto
<1>2. raced' \in BOOLEAN
  BY Zenon DEF Race
<1>3. Held(t)'
  <2>1. pc'[t] = "idle"
    BY <1>1, AtTab
  <2> QED BY <2>1 DEF Held, Updates
<1>4. requests' \in 0..MaxRequests
  BY AtTab
<1> QED BY <1>1, <1>2, <1>3, <1>4, OneTab

\* What a request takes of the row it found.
LEMMA GetPeerFacts ==
    ASSUME Inv, NEW t \in Tabs, GetPeer(t), ~Refuse(t)
    PROVE  /\ pc[t] = "get" /\ FormOf(t) /\ form[t].was # None /\ form[t].row \in Row
           /\ \E r \in RowSet, j \in Row :
                /\ r.id = form[t].row.id /\ j.id = r.id
                /\ j.alert = form[t].row.alert /\ j.ka = form[t].row.ka
                /\ j.addr = Keep(form[t].row.addr, None, r.addr)
                /\ \A k \in DOMAIN Blank :
                     j[k] = IF form[t].row[k] # Blank[k] THEN form[t].row[k] ELSE r[k]
                /\ job' = [job EXCEPT ![t] = j]
                /\ pc' = [pc EXCEPT ![t] = IF form[t].row.addr \in {None, r.addr}
                                           THEN "write" ELSE "check"]
           /\ UNCHANGED <<iface, rows, form, born, raced, requests>>
<1>1. pc[t] = "get" /\ FormOf(t) /\ form[t].was # None
  BY AtTab DEF GetPeer, Held
<1>2. form[t].row \in Row
  BY <1>1 DEF FormOf, Form
<1>3. PICK r \in RowSet :
        /\ r.id = form[t].row.id
        /\ job' = [job EXCEPT ![t] =
             [form[t].row EXCEPT !.name = Keep(form[t].row.name, None, r.name),
                                 !.addr = Keep(form[t].row.addr, None, r.addr),
                                 !.nets = Keep(form[t].row.nets, <<>>, r.nets)]]
        /\ Goto(t, IF form[t].row.addr \in {None, r.addr} THEN "write" ELSE "check")
        /\ UNCHANGED <<iface, rows, form, born, raced, requests>>
  BY Zenon DEF GetPeer
<1> DEFINE j == Kept(form[t].row, r)
<1>4. r \in Row
  BY RowFacts
<1>5. /\ j \in Row /\ j.id = form[t].row.id
      /\ j.alert = form[t].row.alert /\ j.ka = form[t].row.ka
      /\ j.addr = Keep(form[t].row.addr, None, r.addr)
      /\ \A k \in DOMAIN Blank :
           j[k] = IF form[t].row[k] # Blank[k] THEN form[t].row[k] ELSE r[k]
  BY <1>2, <1>4, KeepFacts, Zenon
<1>6. job' = [job EXCEPT ![t] = j]
  BY <1>3 DEF Kept
<1> HIDE DEF j
<1>7. pc' = [pc EXCEPT ![t] = IF form[t].row.addr \in {None, r.addr} THEN "write" ELSE "check"]
  BY <1>3 DEF Goto
<1>8. j.id = r.id
  BY <1>3, <1>5
<1>9. UNCHANGED <<iface, rows, form, born, raced, requests>>
  BY <1>3
<1> QED BY <1>1, <1>2, <1>3, <1>5, <1>6, <1>7, <1>8, <1>9, Zenon

LEMMA GetPeerInv ==
    ASSUME Inv, NEW t \in Tabs, GetPeer(t)
    PROVE  Inv'
<1>1. CASE Refuse(t)
  <2>1. FormOf(t)
    BY AtTab DEF GetPeer, Held
  <2> QED BY <1>1, <2>1, RefuseInv
<1>2. CASE ~Refuse(t)
  <2>1. PICK r \in RowSet, j \in Row :
          /\ j.id = form[t].row.id
          /\ j.addr = Keep(form[t].row.addr, None, r.addr)
          /\ job' = [job EXCEPT ![t] = j]
          /\ pc' = [pc EXCEPT ![t] = IF form[t].row.addr \in {None, r.addr}
                                     THEN "write" ELSE "check"]
    BY <1>2, GetPeerFacts
  <2>2. /\ FormOf(t) /\ form[t].was # None
        /\ UNCHANGED <<iface, rows, form, born, raced, requests>>
    BY <1>2, GetPeerFacts
  <2> DEFINE l == IF form[t].row.addr \in {None, r.addr} THEN "write" ELSE "check"
  <2>3. /\ l \in {"write", "check"}
        /\ l = "check" => j.addr = form[t].row.addr
    BY <2>1 DEF Keep
  <2>4. pc' = [pc EXCEPT ![t] = l]
    BY <2>1
  <2> HIDE DEF l
  <2>5. Held(t)'
    <3>1. pc'[t] = l /\ form'[t] = form[t]
      BY <2>2, <2>4, AtTab
    <3>3. job'[t] = j
      <4>1. job' = [job EXCEPT ![t] = j]
        BY <2>1
      <4> QED BY <4>1, AtTab
    <3>2. FormOf(t)'
      BY <2>2 DEF FormOf
    <3> QED BY <2>1, <3>3, <2>2, <2>3, <3>1, <3>2 DEF Held, Updates
  <2>6. form' = [form EXCEPT ![t] = form[t]] /\ form[t] \in Form \cup {None}
    BY <2>2, AtTab
  <2>7. raced' \in BOOLEAN /\ iface' \in Subnets /\ requests' \in 0..MaxRequests
    BY <2>2, AtTab
  <2> QED BY <2>1, <2>2, <2>3, <2>4, <2>5, <2>6, <2>7, TableFrame, OneTab
<1> QED BY <1>1, <1>2

LEMMA CheckInv ==
    ASSUME Inv, NEW t \in Tabs, Check(t)
    PROVE  Inv'
<1>1. pc[t] = "check" /\ FormOf(t) /\ Held(t)
  BY AtTab DEF Check, Held
<1>2. CASE Refuse(t)
  BY <1>1, <1>2, RefuseInv
<1>3. CASE ~Refuse(t)
  <2> DEFINE l == IF form[t].was = None THEN "insert" ELSE "write"
  <2>1. /\ pc' = [pc EXCEPT ![t] = l]
        /\ UNCHANGED <<iface, rows, form, job, born, raced, requests>>
    BY <1>3 DEF Check, Goto
  <2>2. /\ l \in {"insert", "write"}
        /\ l = "insert" => form[t].was = None
        /\ l = "write" => form[t].was # None
    OBVIOUS
  <2> HIDE DEF l
  <2>3. Held(t)'
    <3>1. pc'[t] = l /\ job'[t] = job[t] /\ form'[t] = form[t]
      BY <2>1, AtTab
    <3>2. FormOf(t)'
      BY <1>1, <2>1 DEF FormOf
    <3> QED BY <1>1, <2>2, <3>1, <3>2 DEF Held, Updates
  <2>4. /\ job' = [job EXCEPT ![t] = job[t]] /\ job[t] \in Row \cup Subnets \cup {None}
        /\ form' = [form EXCEPT ![t] = form[t]] /\ form[t] \in Form \cup {None}
    BY <2>1, AtTab
  <2>5. raced' \in BOOLEAN /\ iface' \in Subnets /\ requests' \in 0..MaxRequests
    BY <2>1, AtTab
  <2>6. UNCHANGED <<rows, born>>
    BY <2>1
  <2> QED BY <2>1, <2>2, <2>3, <2>4, <2>5, <2>6, TableFrame, OneTab
<1> QED BY <1>2, <1>3

-----------------------------------------------------------------------------
(***************************************************************************)
(* The statements that change the table.                                   *)
(***************************************************************************)

\* INSERT: the rows and one more, whose id was never used.
LEMMA InsertFacts ==
    ASSUME Inv, NEW t \in Tabs, Insert(t)
    PROVE  \E r \in Row :
             /\ RowSet' = RowSet \cup {r} /\ r.addr = form[t].row.addr
             /\ r.id \in Ids \ born
             /\ rows' \in Seq(Row) /\ Len(rows') <= MaxPeers
             /\ {q.id : q \in RowSet}' \subseteq born' /\ born' \subseteq Ids /\ Keyed'
<1>1. PICK id \in Ids \ born : /\ rows' = Append(rows, Stored(form[t].row, id))
                               /\ born' = born \cup {id}
  BY DEF Insert
<1>2. form[t].row \in Row
  BY AtTab DEF Insert, Held, FormOf, Form
<1> DEFINE r == Stored(form[t].row, id)
<1>3. r \in Row /\ r.id = id /\ r.addr = form[t].row.addr
  BY <1>2, StoredFacts
<1>4. rows' = Append(rows, r)
  BY <1>1
<1> HIDE DEF r
<1>5. /\ rows \in Seq(Row) /\ Len(rows) < MaxPeers /\ MaxPeers \in Nat /\ Keyed
      /\ born \subseteq Ids /\ {q.id : q \in RowSet} \subseteq born
  BY DEF Inv, TypeOK, Insert
<1>6. /\ rows' \in Seq(Row) /\ Len(rows') = Len(rows) + 1 /\ Len(rows) \in Nat
      /\ \A n \in 1..Len(rows) : rows'[n] = rows[n]
      /\ rows'[Len(rows) + 1] = r
  BY <1>3, <1>4, <1>5
<1>7. RowSet' = RowSet \cup {r}
  BY <1>6 DEF RowSet
<1>8. {q.id : q \in RowSet}' \subseteq born' /\ born' \subseteq Ids
  BY <1>1, <1>3, <1>5, <1>7
<1>9. \A n \in 1..Len(rows) : rows[n].id # id
  BY <1>1, <1>5 DEF RowSet
<1>10. Keyed'
  <2> SUFFICES ASSUME NEW k \in 1..Len(rows'), NEW m \in 1..Len(rows'),
                      rows'[k].id = rows'[m].id
               PROVE  k = m
    BY DEF Keyed
  <2>1. CASE k \in 1..Len(rows) /\ m \in 1..Len(rows)
    BY <1>5, <1>6, <2>1 DEF Keyed
  <2>2. CASE k = Len(rows) + 1 /\ m \in 1..Len(rows)
    BY <1>3, <1>6, <1>9, <2>2
  <2>3. CASE k \in 1..Len(rows) /\ m = Len(rows) + 1
    BY <1>3, <1>6, <1>9, <2>3
  <2> QED BY <1>6, <2>1, <2>2, <2>3
<1>11. Len(rows') <= MaxPeers
  BY <1>5, <1>6
<1> QED BY <1>1, <1>3, <1>6, <1>7, <1>8, <1>10, <1>11

LEMMA InsertInv ==
    ASSUME Inv, NEW t \in Tabs, Insert(t)
    PROVE  Inv'
<1>1. Done(t) /\ Race(t) /\ UNCHANGED <<iface, requests>>
  BY DEF Insert
<1>2. iface' \in Subnets
  BY <1>1, AtTab
<1>3. /\ rows' \in Seq(Row) /\ Len(rows') <= MaxPeers
      /\ {q.id : q \in RowSet}' \subseteq born' /\ born' \subseteq Ids /\ Keyed'
  BY InsertFacts
<1> QED BY <1>1, <1>2, <1>3, DoneInv

\* UPDATE: the row of the request, and the others as they were.
LEMMA WriteFacts ==
    ASSUME Inv, NEW t \in Tabs, Write(t)
    PROVE  /\ job[t] \in Row
           /\ \A r \in RowSet' : r = job[t] \/ r \in Others(job[t].id)
           /\ Others(job[t].id) \subseteq RowSet'
           /\ (\E r \in RowSet : r.id = job[t].id) => job[t] \in RowSet'
           /\ rows' \in Seq(Row) /\ Len(rows') <= MaxPeers
           /\ {q.id : q \in RowSet}' \subseteq born' /\ born' \subseteq Ids /\ Keyed'
<1>1. job[t] \in Row
  BY AtTab DEF Write, Held, Updates
<1>2. /\ rows' = [n \in 1..Len(rows) |-> IF rows[n].id = job[t].id THEN job[t] ELSE rows[n]]
      /\ born' = born
  BY DEF Write
<1>3. /\ rows \in Seq(Row) /\ Len(rows) <= MaxPeers /\ Keyed /\ Len(rows) \in Nat
      /\ born \subseteq Ids /\ {q.id : q \in RowSet} \subseteq born
  BY DEF Inv, TypeOK
<1>4. rows' \in Seq(Row) /\ Len(rows') = Len(rows)
  BY <1>1, <1>2, <1>3
<1>5. /\ \A n \in 1..Len(rows) : rows[n].id = job[t].id => rows'[n] = job[t]
      /\ \A n \in 1..Len(rows) : rows[n].id # job[t].id => rows'[n] = rows[n]
  BY <1>2
<1>6. \A n \in 1..Len(rows) : rows'[n].id = rows[n].id
  BY <1>5
<1>7. Keyed'
  BY <1>3, <1>4, <1>6 DEF Keyed
<1>8. {q.id : q \in RowSet}' \subseteq born' /\ born' \subseteq Ids
  BY <1>2, <1>3, <1>4, <1>6 DEF RowSet
<1>9. \A r \in RowSet' : r = job[t] \/ r \in Others(job[t].id)
  BY <1>4, <1>5 DEF RowSet, Others
<1>10. Others(job[t].id) \subseteq RowSet'
  BY <1>4, <1>5 DEF RowSet, Others
<1>11. (\E r \in RowSet : r.id = job[t].id) => job[t] \in RowSet'
  BY <1>4, <1>5 DEF RowSet
<1> QED BY <1>1, <1>3, <1>4, <1>7, <1>8, <1>9, <1>10, <1>11

LEMMA WriteInv ==
    ASSUME Inv, NEW t \in Tabs, Write(t)
    PROVE  Inv'
<1>1. Done(t) /\ Race(t) /\ UNCHANGED <<iface, born, requests>>
  BY DEF Write
<1>2. iface' \in Subnets
  BY <1>1, AtTab
<1>3. /\ rows' \in Seq(Row) /\ Len(rows') <= MaxPeers
      /\ {q.id : q \in RowSet}' \subseteq born' /\ born' \subseteq Ids /\ Keyed'
  BY WriteFacts
<1> QED BY <1>1, <1>2, <1>3, DoneInv

\* A place of a sequence taken out.
LEMMA RemoveAtFacts ==
    ASSUME NEW X, NEW s \in Seq(X), NEW n \in 1..Len(s)
    PROVE  /\ RemoveAt(s, n) \in Seq(X) /\ Len(RemoveAt(s, n)) = Len(s) - 1
           /\ \A m \in 1..(Len(s) - 1) :
                RemoveAt(s, n)[m] = IF m < n THEN s[m] ELSE s[m + 1]
<1> DEFINE a == SubSeq(s, 1, n - 1)
           b == SubSeq(s, n + 1, Len(s))
<1>1. a \in Seq(X) /\ Len(a) = n - 1 /\ \A m \in 1..(n - 1) : a[m] = s[m]
  OBVIOUS
<1>2. /\ b \in Seq(X) /\ Len(b) = Len(s) - n
      /\ \A m \in 1..(Len(s) - n) : b[m] = s[n + m]
  OBVIOUS
<1>3. RemoveAt(s, n) = a \o b
  BY DEF RemoveAt
<1>4. Len(s) \in Nat
  OBVIOUS
<1> HIDE DEF a, b
<1>5. /\ a \o b \in Seq(X) /\ Len(a \o b) = Len(a) + Len(b)
      /\ \A m \in 1..(Len(a) + Len(b)) :
           (a \o b)[m] = IF m <= Len(a) THEN a[m] ELSE b[m - Len(a)]
  <2>1. a \in Seq(X) /\ b \in Seq(X)
    BY <1>1, <1>2
  <2> QED BY <2>1, ConcatProperties, Zenon
<1>6. ASSUME NEW m \in 1..(Len(s) - 1)
      PROVE  (a \o b)[m] = IF m < n THEN s[m] ELSE s[m + 1]
  <2>1. CASE m < n
    BY <1>1, <1>2, <1>4, <1>5, <2>1
  <2>2. CASE ~(m < n)
    <3>1. m - (n - 1) \in 1..(Len(s) - n) /\ n + (m - (n - 1)) = m + 1
      BY <1>4, <2>2
    <3>2. (a \o b)[m] = b[m - (n - 1)]
      BY <1>1, <1>2, <1>4, <1>5, <2>2
    <3>3. b[m - (n - 1)] = s[n + (m - (n - 1))]
      BY <1>2, <3>1
    <3> QED BY <2>2, <3>1, <3>2, <3>3
  <2> QED BY <2>1, <2>2
<1> QED BY <1>1, <1>2, <1>3, <1>4, <1>5, <1>6

\* DELETE.
LEMMA RemoveFacts ==
    ASSUME Inv, NEW id \in Ids, RemovePeer(id)
    PROVE  /\ RowSet' \subseteq RowSet
           /\ rows' \in Seq(Row) /\ Len(rows') <= MaxPeers
           /\ {q.id : q \in RowSet}' \subseteq born' /\ born' \subseteq Ids /\ Keyed'
           /\ UNCHANGED <<iface, pc, form, job, born, raced, requests>>
<1>1. PICK n \in 1..Len(rows) : rows' = RemoveAt(rows, n)
  BY DEF RemovePeer
<1>2. UNCHANGED <<iface, pc, form, job, born, raced, requests>>
  BY DEF RemovePeer
<1>3. /\ rows \in Seq(Row) /\ Len(rows) <= MaxPeers /\ Keyed /\ Len(rows) \in Nat
      /\ born \subseteq Ids /\ {q.id : q \in RowSet} \subseteq born /\ MaxPeers \in Nat
  BY DEF Inv, TypeOK
<1>4. /\ rows' \in Seq(Row) /\ Len(rows') = Len(rows) - 1
      /\ \A m \in 1..(Len(rows) - 1) : rows'[m] = IF m < n THEN rows[m] ELSE rows[m + 1]
  BY <1>1, <1>3, RemoveAtFacts
<1>5. RowSet' \subseteq RowSet
  <2> SUFFICES ASSUME NEW m \in 1..Len(rows') PROVE rows'[m] \in RowSet
    BY DEF RowSet
  <2>1. m \in 1..(Len(rows) - 1) /\ m \in 1..Len(rows) /\ m + 1 \in 1..Len(rows)
    BY <1>3, <1>4
  <2>2. rows'[m] = rows[m] \/ rows'[m] = rows[m + 1]
    BY <1>4, <2>1
  <2> QED BY <2>1, <2>2 DEF RowSet
<1>6. {q.id : q \in RowSet}' \subseteq born' /\ born' \subseteq Ids
  BY <1>2, <1>3, <1>5
<1>7. Keyed'
  <2> SUFFICES ASSUME NEW k \in 1..Len(rows'), NEW m \in 1..Len(rows'),
                      rows'[k].id = rows'[m].id
               PROVE  k = m
    BY DEF Keyed
  <2> DEFINE at(x) == IF x < n THEN x ELSE x + 1
  <2>1. at(k) \in 1..Len(rows) /\ at(m) \in 1..Len(rows)
    BY <1>3, <1>4
  <2>2. rows'[k] = rows[at(k)] /\ rows'[m] = rows[at(m)]
    BY <1>3, <1>4
  <2> HIDE DEF at
  <2>3. at(k) = at(m)
    BY <1>3, <2>1, <2>2 DEF Keyed
  <2> QED BY <2>3 DEF at
<1>8. Len(rows') <= MaxPeers
  BY <1>3, <1>4
<1> QED BY <1>2, <1>4, <1>5, <1>6, <1>7, <1>8

LEMMA RemoveInv ==
    ASSUME Inv, NEW id \in Ids, RemovePeer(id)
    PROVE  Inv'
<1>1. ASSUME NEW u \in Tabs PROVE Held(u)'
  <2>1. pc'[u] = pc[u] /\ form'[u] = form[u] /\ job'[u] = job[u] /\ Held(u)
    BY RemoveFacts DEF Inv
  <2> QED BY <2>1, HeldFrame
<1>2. TypeOK'
  <2>1. UNCHANGED <<iface, pc, form, job, born, raced, requests>>
    BY RemoveFacts
  <2>2. /\ rows' \in Seq(Row) /\ Len(rows') <= MaxPeers
        /\ {q.id : q \in RowSet}' \subseteq born'
    BY RemoveFacts
  <2> QED BY <2>1, <2>2, Zenon DEF Inv, TypeOK
<1> QED BY <1>1, <1>2, RemoveFacts, Zenon DEF Inv

LEMMA CheckMoveInv ==
    ASSUME Inv, NEW t \in Tabs, CheckMove(t)
    PROVE  Inv'
<1>1. PICK s \in Subnets : job' = [job EXCEPT ![t] = s]
  BY DEF CheckMove
<1>2. /\ pc' = [pc EXCEPT ![t] = "move"] /\ UNCHANGED <<iface, rows, form, born, raced>>
      /\ requests < MaxRequests /\ requests' = requests + 1
  BY DEF CheckMove, Goto
<1>3. Held(t)'
  <2>1. pc'[t] = "move"
    BY <1>2, AtTab
  <2>2. job'[t] = s
    BY <1>1, AtTab
  <2> QED BY <2>1, <2>2 DEF Held, Updates
<1>4. form' = [form EXCEPT ![t] = form[t]] /\ form[t] \in Form \cup {None}
  BY <1>2, AtTab
<1>5. raced' \in BOOLEAN /\ iface' \in Subnets
  BY <1>2, AtTab
<1>6. requests' \in 0..MaxRequests
  BY <1>2, AtTab
<1>7. UNCHANGED <<rows, born>>
  BY <1>2
<1> QED BY <1>1, <1>2, <1>3, <1>4, <1>5, <1>6, <1>7, TableFrame, OneTab

LEMMA MoveInv ==
    ASSUME Inv, NEW t \in Tabs, Move(t)
    PROVE  Inv'
<1>1. Done(t) /\ Race(t) /\ UNCHANGED <<rows, born, requests>>
  BY DEF Move
<1>2. iface' \in Subnets
  BY AtTab DEF Move, Held
<1> QED BY <1>1, <1>2, TableFrame, DoneInv

LEMMA NextInv == Inv /\ [Next]_vars => Inv'
<1> SUFFICES ASSUME Inv, [Next]_vars PROVE Inv'
  OBVIOUS
<1>1. CASE UNCHANGED vars
  <2>1. UNCHANGED <<iface, rows, pc, form, job, born, raced, requests>>
    BY <1>1 DEF vars
  <2>2. ASSUME NEW u \in Tabs PROVE Held(u)'
    BY <2>1, HeldFrame DEF Inv
  <2>3. TypeOK' /\ Keyed'
    BY <2>1 DEF Inv, TypeOK, RowSet, Keyed
  <2> QED BY <2>2, <2>3 DEF Inv
<1>2. ASSUME NEW t \in Tabs, OpenAdd(t) PROVE Inv'
  BY <1>2, OpenAddInv
<1>3. ASSUME NEW t \in Tabs, OpenEdit(t) PROVE Inv'
  BY <1>3, OpenEditInv
<1>4. ASSUME NEW t \in Tabs, Close(t) PROVE Inv'
  BY <1>4, CloseInv
<1>5. ASSUME NEW t \in Tabs, Submit(t) PROVE Inv'
  BY <1>5, SubmitInv
<1>6. ASSUME NEW t \in Tabs, GetPeer(t) PROVE Inv'
  BY <1>6, GetPeerInv
<1>7. ASSUME NEW t \in Tabs, Check(t) PROVE Inv'
  BY <1>7, CheckInv
<1>8. ASSUME NEW t \in Tabs, Insert(t) PROVE Inv'
  BY <1>8, InsertInv
<1>9. ASSUME NEW t \in Tabs, Write(t) PROVE Inv'
  BY <1>9, WriteInv
<1>10. ASSUME NEW t \in Tabs, CheckMove(t) PROVE Inv'
  BY <1>10, CheckMoveInv
<1>11. ASSUME NEW t \in Tabs, Move(t) PROVE Inv'
  BY <1>11, MoveInv
<1>12. ASSUME NEW id \in Ids, RemovePeer(id) PROVE Inv'
  BY <1>12, RemoveInv
<1> QED BY <1>1, <1>2, <1>3, <1>4, <1>5, <1>6, <1>7, <1>8, <1>9, <1>10, <1>11, <1>12 DEF Next

(***************************************************************************)
(* The types: what is suggested, typed, checked and stored is a row of the *)
(* peers table, whatever the tabs do to each other (peer_form.go and the   *)
(* handlers of handler_peers.go and handler_interfaces.go).                *)
(***************************************************************************)
THEOREM TypeOKCorrect == Spec => []TypeOK
BY InitInv, NextInv, PTL DEF Spec, Inv

-----------------------------------------------------------------------------
(***************************************************************************)
(* What a step of one tab leaves of the others.                            *)
(***************************************************************************)
TabStep(t) == \/ OpenAdd(t) \/ OpenEdit(t) \/ Close(t) \/ Submit(t)
              \/ GetPeer(t) \/ Check(t) \/ Insert(t) \/ Write(t)
              \/ CheckMove(t) \/ Move(t)

LEMMA OthersWait ==
    ASSUME Inv, NEW t \in Tabs, TabStep(t), NEW u \in Tabs, u # t
    PROVE  pc'[u] = pc[u] /\ form'[u] = form[u] /\ job'[u] = job[u]
<1>1. \A x : [pc EXCEPT ![t] = x][u] = pc[u]
  BY DEF Inv, TypeOK
<1>2. \A x : [form EXCEPT ![t] = x][u] = form[u]
  BY DEF Inv, TypeOK
<1>3. \A x : [job EXCEPT ![t] = x][u] = job[u]
  BY DEF Inv, TypeOK
<1>4. ASSUME Refuse(t) PROVE pc'[u] = pc[u] /\ form'[u] = form[u] /\ job'[u] = job[u]
  BY <1>1, <1>3, <1>4 DEF Refuse, Goto
<1>5. ASSUME Done(t) PROVE pc'[u] = pc[u] /\ form'[u] = form[u] /\ job'[u] = job[u]
  BY <1>1, <1>2, <1>3, <1>5 DEF Done, Goto
<1>6. CASE OpenAdd(t)
  BY <1>1, <1>2, <1>6 DEF OpenAdd, Goto
<1>7. CASE OpenEdit(t)
  BY <1>1, <1>2, <1>7 DEF OpenEdit, Goto
<1>8. CASE Close(t)
  BY <1>1, <1>2, <1>8 DEF Close, Goto
<1>9. CASE Submit(t)
  <2>1. PICK f \in Form : form' = [form EXCEPT ![t] = f]
    BY <1>9, SubmitFacts
  <2>2. /\ pc' = [pc EXCEPT ![t] = IF form[t].was = None THEN "check" ELSE "get"]
        /\ UNCHANGED job
    BY <1>9, SubmitFacts
  <2> QED BY <1>1, <1>2, <2>1, <2>2
<1>10. CASE GetPeer(t)
  <2>1. CASE Refuse(t)
    BY <1>4, <2>1
  <2>2. CASE ~Refuse(t)
    <3>1. PICK r \in RowSet, j \in Row :
            /\ job' = [job EXCEPT ![t] = j]
            /\ pc' = [pc EXCEPT ![t] = IF form[t].row.addr \in {None, r.addr}
                                       THEN "write" ELSE "check"]
      BY <1>10, <2>2, GetPeerFacts
    <3>2. UNCHANGED form
      BY <1>10, <2>2, GetPeerFacts
    <3> QED BY <1>1, <1>3, <3>1, <3>2
  <2> QED BY <2>1, <2>2
<1>11. CASE Check(t)
  <2>1. CASE Refuse(t)
    BY <1>4, <2>1
  <2>2. CASE ~Refuse(t)
    BY <1>1, <1>11, <2>2 DEF Check, Goto
  <2> QED BY <2>1, <2>2
<1>12. CASE Insert(t) \/ Write(t) \/ Move(t)
  BY <1>5, <1>12 DEF Insert, Write, Move
<1>13. CASE CheckMove(t)
  <2>1. PICK s \in Subnets : job' = [job EXCEPT ![t] = s]
    BY <1>13 DEF CheckMove
  <2>2. pc' = [pc EXCEPT ![t] = "move"] /\ UNCHANGED form
    BY <1>13 DEF CheckMove, Goto
  <2> QED BY <1>1, <1>3, <2>1, <2>2
<1> QED BY <1>6, <1>7, <1>8, <1>9, <1>10, <1>11, <1>12, <1>13 DEF TabStep

\* The steps that write.
Writes(t) == Insert(t) \/ Write(t) \/ Move(t)

LEMMA WritesFacts ==
    ASSUME Inv, NEW t \in Tabs, Writes(t)
    PROVE  /\ pc'[t] = "idle"
           /\ raced' = (raced \/ \E u \in Tabs \ {t} : Decided(u))
<1>1. Done(t) /\ Race(t)
  BY DEF Writes, Insert, Write, Move
<1>2. pc' = [pc EXCEPT ![t] = "idle"]
  BY <1>1 DEF Done, Goto
<1> QED BY <1>1, <1>2, AtTab DEF Race

LEMMA QuietFacts ==
    ASSUME Inv, NEW t \in Tabs, TabStep(t), ~Writes(t)
    PROVE  UNCHANGED <<iface, rows, born, raced>>
<1>1. CASE OpenAdd(t) \/ OpenEdit(t) \/ Close(t) \/ CheckMove(t)
  BY <1>1 DEF OpenAdd, OpenEdit, Close, CheckMove
<1>2. CASE Submit(t)
  BY <1>2, SubmitFacts
<1>3. CASE GetPeer(t)
  BY <1>3, GetPeerFacts DEF Refuse
<1>4. CASE Check(t)
  BY <1>4 DEF Check, Refuse
<1> QED BY <1>1, <1>2, <1>3, <1>4 DEF TabStep, Writes

LEMMA StepCases ==
    ASSUME [Next]_vars
    PROVE  \/ UNCHANGED vars
           \/ \E t \in Tabs : TabStep(t)
           \/ \E id \in Ids : RemovePeer(id)
BY DEF Next, TabStep

-----------------------------------------------------------------------------
(***************************************************************************)
(* The address a request has checked is still free when it is written, as  *)
(* long as nobody else wrote in between.                                   *)
(***************************************************************************)
Free(t) ==
    /\ pc[t] = "insert" => form[t].row.addr = None \/ form[t].row.addr \notin
                             AddrsOf(RowSet) \cup {iface.ip} \cup Foreign
    /\ pc[t] = "write" => job[t].addr = None \/ job[t].addr \notin
                             AddrsOf(Others(job[t].id)) \cup {iface.ip} \cup Foreign
    /\ pc[t] = "move" => job[t].ip \notin AddrsOf(RowSet)

FreeInv == ~raced => Distinct /\ \A t \in Tabs : Free(t)


\* Fewer rows leave no fewer addresses free.
LEMMA FreeShrinks ==
    ASSUME UNCHANGED iface, RowSet' \subseteq RowSet
    PROVE  /\ Distinct => Distinct'
           /\ \A u \in Tabs : (/\ Free(u) /\ pc'[u] = pc[u] /\ form'[u] = form[u]
                               /\ job'[u] = job[u]) => Free(u)'
<1>1. AddrsOf(RowSet)' \subseteq AddrsOf(RowSet)
  BY DEF AddrsOf
<1>2. ASSUME NEW id PROVE AddrsOf({r \in RowSet' : r.id # id}) \subseteq AddrsOf(Others(id))
  BY DEF AddrsOf, Others
<1>3. Distinct => Distinct'
  <2> SUFFICES ASSUME Distinct, NEW r \in RowSet', r.addr # None
               PROVE  r.addr \notin AddrsOf({q \in RowSet' : q.id # r.id}) \cup {iface'.ip} \cup Foreign
    BY DEF Distinct, Others, AddrsOf
  <2>1. r.addr \notin AddrsOf(Others(r.id)) \cup {iface.ip} \cup Foreign
    BY DEF Distinct
  <2> QED BY <1>2, <2>1
<1>4. ASSUME NEW u \in Tabs, Free(u), pc'[u] = pc[u], form'[u] = form[u], job'[u] = job[u]
      PROVE  Free(u)'
  <2>1. pc'[u] = "insert" => form'[u].row.addr = None \/ form'[u].row.addr \notin
                               AddrsOf(RowSet)' \cup {iface'.ip} \cup Foreign
    BY <1>1, <1>4 DEF Free
  <2>2. pc'[u] = "write" => job'[u].addr = None \/ job'[u].addr \notin
            AddrsOf({r \in RowSet' : r.id # job'[u].id}) \cup {iface'.ip} \cup Foreign
    BY <1>2, <1>4 DEF Free
  <2>3. pc'[u] = "move" => job'[u].ip \notin AddrsOf(RowSet)'
    BY <1>1, <1>4 DEF Free
  <2> QED BY <2>1, <2>2, <2>3 DEF Free, Others, AddrsOf
<1> QED BY <1>3, <1>4

\* The check of an address finds out whether it is free.
LEMMA NotInUse ==
    ASSUME NEW a, NEW id, ~InUse(a, id)
    PROVE  a = None \/ a \notin AddrsOf(Others(id)) \cup {iface.ip} \cup Foreign
BY DEF InUse

LEMMA InitFree == Init => FreeInv
<1> SUFFICES ASSUME Init PROVE FreeInv
  OBVIOUS
<1>1. Distinct
  BY DEF Init
<1>2. ASSUME NEW t \in Tabs PROVE pc[t] = "idle"
  BY DEF Init
<1>3. ASSUME NEW t \in Tabs PROVE Free(t)
  BY <1>2 DEF Free
<1> QED BY <1>1, <1>3 DEF FreeInv

\* A tab that is about to write has checked.
LEMMA QuietFree ==
    ASSUME Inv, FreeInv, ~raced, NEW t \in Tabs, TabStep(t), ~Writes(t)
    PROVE  Free(t)'
<1>1. UNCHANGED <<iface, rows>> /\ UNCHANGED RowSet /\ Distinct
  BY QuietFacts DEF RowSet, FreeInv
<1>2. ASSUME pc'[t] \in {"idle", "form", "check", "get"} PROVE Free(t)'
  BY <1>2 DEF Free
<1>3. CASE OpenAdd(t) \/ OpenEdit(t) \/ Close(t) \/ Refuse(t)
  <2>1. pc'[t] \in {"idle", "form"}
    BY <1>3, AtTab DEF OpenAdd, OpenEdit, Close, Refuse, Goto
  <2> QED BY <1>2, <2>1
<1>4. CASE Submit(t)
  <2>1. pc' = [pc EXCEPT ![t] = IF form[t].was = None THEN "check" ELSE "get"]
    BY <1>4, SubmitFacts
  <2>2. pc'[t] \in {"check", "get"}
    BY <2>1, AtTab
  <2> QED BY <1>2, <2>2
<1>5. CASE GetPeer(t) /\ ~Refuse(t)
  <2>1. PICK r \in RowSet, j \in Row :
          /\ r.id = form[t].row.id /\ j.id = r.id
          /\ j.addr = Keep(form[t].row.addr, None, r.addr)
          /\ job' = [job EXCEPT ![t] = j]
          /\ pc' = [pc EXCEPT ![t] = IF form[t].row.addr \in {None, r.addr}
                                     THEN "write" ELSE "check"]
    BY <1>5, GetPeerFacts
  <2>2. CASE form[t].row.addr \in {None, r.addr}
    <3>1. j.addr = r.addr
      BY <2>1, <2>2 DEF Keep
    <3>2. r.addr = None \/ r.addr \notin AddrsOf(Others(r.id)) \cup {iface.ip} \cup Foreign
      BY <1>1 DEF Distinct
    <3>3. pc'[t] = "write"
      BY <2>1, <2>2, AtTab
    <3>4. job'[t] = j
      BY <2>1, AtTab
    <3> QED BY <1>1, <2>1, <3>1, <3>2, <3>3, <3>4 DEF Free, Others, AddrsOf
  <2>3. CASE form[t].row.addr \notin {None, r.addr}
    <3>1. pc'[t] = "check"
      BY <2>1, <2>3, AtTab
    <3> QED BY <1>2, <3>1
  <2> QED BY <2>2, <2>3
<1>6. CASE Check(t) /\ ~Refuse(t)
  <2>1. /\ pc[t] = "check" /\ ~InUse(form[t].row.addr, form[t].row.id)
        /\ pc' = [pc EXCEPT ![t] = IF form[t].was = None THEN "insert" ELSE "write"]
        /\ UNCHANGED <<form, job>>
    BY <1>6 DEF Check, Goto
  <2>2. /\ form[t].row.addr = None
        \/ form[t].row.addr \notin AddrsOf(Others(form[t].row.id)) \cup {iface.ip} \cup Foreign
    BY <2>1, NotInUse
  <2>3. FormOf(t) /\ Held(t)
    BY <2>1, AtTab DEF Held
  <2>4. CASE form[t].was = None
    <3>1. form[t].row.id = None
      BY <2>3, <2>4 DEF FormOf
    <3>2. Others(form[t].row.id) = RowSet
      BY <3>1, RowFacts DEF Others
    <3>3. pc'[t] = "insert"
      BY <2>1, <2>4, AtTab
    <3> QED BY <1>1, <2>1, <2>2, <3>2, <3>3 DEF Free, AddrsOf
  <2>5. CASE form[t].was # None
    <3>1. job[t].id = form[t].row.id /\ job[t].addr = form[t].row.addr
      BY <2>1, <2>3, <2>5 DEF Held, Updates
    <3>2. pc'[t] = "write"
      BY <2>1, <2>5, AtTab
    <3> QED BY <1>1, <2>1, <2>2, <3>1, <3>2 DEF Free, Others, AddrsOf
  <2> QED BY <2>4, <2>5
<1>7. CASE CheckMove(t)
  <2>1. PICK s \in Subnets : /\ s.ip = iface.ip \/ s.ip \notin AddrsOf(RowSet) \cup Foreign
                             /\ job' = [job EXCEPT ![t] = s]
    BY <1>7 DEF CheckMove
  <2>2. iface.ip \notin AddrsOf(RowSet)
    BY <1>1 DEF Distinct, AddrsOf
  <2>3. s.ip \notin AddrsOf(RowSet)
    BY <2>1, <2>2
  <2>4. job'[t] = s
    BY <2>1, AtTab
  <2>5. pc'[t] = "move"
    BY <1>7, AtTab DEF CheckMove, Goto
  <2> QED BY <1>1, <2>3, <2>4, <2>5 DEF Free, AddrsOf
<1> QED BY <1>3, <1>4, <1>5, <1>6, <1>7 DEF TabStep, Writes

\* A write, when nobody else was about to write.
LEMMA WriteDistinct ==
    ASSUME Inv, FreeInv, ~raced, NEW t \in Tabs, Writes(t)
    PROVE  Distinct'
<1>1. Distinct /\ Free(t)
  BY DEF FreeInv
<1> SUFFICES ASSUME NEW r \in RowSet', r.addr # None
             PROVE  /\ r.addr # iface'.ip /\ r.addr \notin Foreign
                    /\ \A q \in RowSet' : q.id # r.id => q.addr # r.addr
  BY DEF Distinct, Others, AddrsOf
<1>2. \A p \in RowSet : p.addr # None =>
         /\ p.addr # iface.ip /\ p.addr \notin Foreign
         /\ \A q \in RowSet : q.id # p.id => q.addr # p.addr
  BY <1>1 DEF Distinct, Others, AddrsOf
<1>3. CASE Insert(t)
  <2>1. PICK p \in Row : /\ RowSet' = RowSet \cup {p} /\ p.addr = form[t].row.addr
                         /\ p.id \in Ids \ born
    BY <1>3, InsertFacts
  <2>2. UNCHANGED iface /\ pc[t] = "insert"
    BY <1>3 DEF Insert
  <2>3. p.addr # None => /\ p.addr # iface.ip /\ p.addr \notin Foreign
                         /\ \A q \in RowSet : q.addr # p.addr
    BY <1>1, <2>1, <2>2 DEF Free, AddrsOf
  <2> QED BY <1>2, <2>1, <2>2, <2>3
<1>4. CASE Write(t)
  <2>1. \A q \in RowSet' : q = job[t] \/ q \in Others(job[t].id)
    BY <1>4, WriteFacts
  <2>2. UNCHANGED iface /\ pc[t] = "write"
    BY <1>4 DEF Write
  <2>3. job[t].addr # None => /\ job[t].addr # iface.ip /\ job[t].addr \notin Foreign
                              /\ \A q \in Others(job[t].id) : q.addr # job[t].addr
    BY <1>1, <2>2 DEF Free, AddrsOf
  <2>4. \A q \in Others(job[t].id) : q \in RowSet
    BY DEF Others
  <2> QED BY <1>2, <2>1, <2>2, <2>3, <2>4
<1>5. CASE Move(t)
  <2>1. UNCHANGED rows /\ iface' = job[t] /\ pc[t] = "move"
    BY <1>5 DEF Move
  <2>2. RowSet' = RowSet
    BY <2>1 DEF RowSet
  <2>3. \A q \in RowSet : q.addr # None => q.addr # job[t].ip
    BY <1>1, <2>1 DEF Free, AddrsOf
  <2> QED BY <1>2, <2>1, <2>2, <2>3
<1> QED BY <1>3, <1>4, <1>5 DEF Writes

LEMMA NextFree == Inv /\ FreeInv /\ [Next]_vars => FreeInv'
<1> SUFFICES ASSUME Inv, FreeInv, [Next]_vars, ~raced' PROVE FreeInv'
  BY DEF FreeInv
<1>1. CASE UNCHANGED vars
  <2>1. UNCHANGED <<iface, rows, pc, form, job, raced>>
    BY <1>1 DEF vars
  <2>2. RowSet' \subseteq RowSet
    BY <2>1 DEF RowSet
  <2> QED BY <2>1, <2>2, FreeShrinks DEF FreeInv
<1>2. ASSUME NEW id \in Ids, RemovePeer(id) PROVE FreeInv'
  <2>1. RowSet' \subseteq RowSet /\ UNCHANGED <<iface, pc, form, job, raced>>
    BY <1>2, RemoveFacts
  <2> QED BY <2>1, FreeShrinks DEF FreeInv
<1>3. ASSUME NEW t \in Tabs, TabStep(t), ~Writes(t) PROVE FreeInv'
  <2>1. UNCHANGED <<iface, rows, raced>>
    BY <1>3, QuietFacts
  <2>2. RowSet' \subseteq RowSet
    BY <2>1 DEF RowSet
  <2>3. Distinct' /\ \A u \in Tabs \ {t} : Free(u)'
    BY <1>3, <2>1, <2>2, FreeShrinks, OthersWait DEF FreeInv
  <2>4. ~raced
    BY <2>1
  <2>5. Free(t)'
    BY <1>3, <2>4, QuietFree
  <2> QED BY <2>3, <2>5 DEF FreeInv
<1>4. ASSUME NEW t \in Tabs, TabStep(t), Writes(t) PROVE FreeInv'
  <2>1. ~raced /\ pc'[t] = "idle" /\ \A u \in Tabs \ {t} : ~Decided(u)
    BY <1>4, WritesFacts
  <2>2. Distinct'
    BY <1>4, <2>1, WriteDistinct
  <2>3. ASSUME NEW u \in Tabs PROVE pc'[u] \notin {"insert", "write", "move"}
    BY <1>4, <2>1, OthersWait DEF Decided
  <2>4. ASSUME NEW u \in Tabs PROVE Free(u)'
    BY <2>3 DEF Free
  <2> QED BY <2>2, <2>4 DEF FreeInv
<1> QED BY <1>1, <1>2, <1>3, <1>4, StepCases

(***************************************************************************)
(* No address is given twice, as long as the requests do not meet: the     *)
(* check of the handlers, made against the database a statement before the *)
(* row is written, is what keeps the addresses apart, however old the form *)
(* was that chose them, and removing a peer or moving the interface in     *)
(* between takes nothing from it (IsTunnelIPInUse and its callers).        *)
(***************************************************************************)
THEOREM UniqueCorrect == Spec => []Unique
<1>1. Inv /\ FreeInv => Unique
  BY DEF FreeInv, Unique
<1>2. Init => Inv /\ FreeInv
  BY InitInv, InitFree
<1>3. (Inv /\ FreeInv) /\ [Next]_vars => (Inv /\ FreeInv)'
  BY NextInv, NextFree
<1> QED BY <1>1, <1>2, <1>3, PTL DEF Spec

-----------------------------------------------------------------------------
(***************************************************************************)
(* What an edit form and its request take over from the row.               *)
(***************************************************************************)
Shows(t) ==
    (pc[t] \in {"form", "check", "get", "write"} /\ form[t].was # None) =>
        /\ form[t].row.alert = form[t].was.alert
        /\ form[t].was.ka > 0 => form[t].row.ka = form[t].was.ka

Takes(t) ==
    Updates(t) =>
        /\ job[t].alert = form[t].row.alert /\ job[t].ka = form[t].row.ka
        /\ \A k \in DOMAIN Blank :
             IF form[t].row[k] # Blank[k] THEN job[t][k] = form[t].row[k]
             ELSE raced \/ form[t].was \notin RowSet \/ job[t][k] = form[t].was[k]

EditInv == \A t \in Tabs : Shows(t) /\ Takes(t)

LEMMA InitEdit == Init => EditInv
<1> SUFFICES ASSUME Init, NEW t \in Tabs PROVE Shows(t) /\ Takes(t)
  BY DEF EditInv
<1>1. pc[t] = "idle"
  BY DEF Init
<1> QED BY <1>1 DEF Shows, Takes, Updates

\* A tab that takes no step: rows may go, and rows may change if the step
\* counts as a race.
LEMMA EditFrame ==
    ASSUME NEW u, pc'[u] = pc[u], form'[u] = form[u], job'[u] = job[u],
           Shows(u), Takes(u), raced => raced',
           RowSet' \subseteq RowSet \/ (Updates(u) => raced')
    PROVE  (Shows(u) /\ Takes(u))'
<1>1. Shows(u)'
  BY DEF Shows
<1>2. Updates(u)' <=> Updates(u)
  BY DEF Updates
<1>3. ASSUME Updates(u), NEW k \in DOMAIN Blank
      PROVE  IF form'[u].row[k] # Blank[k] THEN job'[u][k] = form'[u].row[k]
             ELSE raced' \/ form'[u].was \notin RowSet' \/ job'[u][k] = form'[u].was[k]
  BY <1>3 DEF Takes
<1>4. Updates(u) => job'[u].alert = form'[u].row.alert /\ job'[u].ka = form'[u].row.ka
  BY DEF Takes
<1>5. DOMAIN Blank' = DOMAIN Blank /\ Blank' = Blank
  BY DEF Blank
<1> QED BY <1>1, <1>2, <1>3, <1>4, <1>5 DEF Takes

\* The tab that takes a step.
LEMMA EditStep ==
    ASSUME Inv, EditInv, NEW t \in Tabs, TabStep(t)
    PROVE  (Shows(t) /\ Takes(t))'
<1>1. Shows(t) /\ Takes(t)
  BY DEF EditInv
<1>2. ASSUME pc'[t] \notin {"form", "check", "get", "write"} PROVE (Shows(t) /\ Takes(t))'
  BY <1>2 DEF Shows, Takes, Updates
<1>3. ASSUME pc'[t] \in {"form", "get"}, Shows(t)' PROVE (Shows(t) /\ Takes(t))'
  BY <1>3 DEF Takes, Updates
<1>4. CASE OpenAdd(t)
  <2> DEFINE f == [row |-> [id |-> None, name |-> None,
                            addr |-> NextAvailable(iface, AddrsOf(RowSet) \cup {iface.ip}),
                            nets |-> <<>>, ka |-> 25, ep |-> None, alert |-> FALSE],
                   used |-> AddrsOf(RowSet) \cup {iface.ip}, was |-> None]
  <2>1. pc' = [pc EXCEPT ![t] = "form"] /\ form' = [form EXCEPT ![t] = f]
    BY <1>4 DEF OpenAdd, Goto
  <2>2. f.was = None
    OBVIOUS
  <2> HIDE DEF f
  <2>3. pc'[t] = "form" /\ form'[t] = f
    BY <2>1, AtTab
  <2> QED BY <1>3, <2>2, <2>3 DEF Shows
<1>5. CASE OpenEdit(t)
  <2>1. PICK r \in RowSet : form' = [form EXCEPT ![t] =
            [row |-> Prefill(r), used |-> AddrsOf(Others(r.id)) \cup {iface.ip}, was |-> r]]
    BY <1>5 DEF OpenEdit
  <2> DEFINE f == [row |-> Prefill(r), used |-> AddrsOf(Others(r.id)) \cup {iface.ip}, was |-> r]
  <2>2. form' = [form EXCEPT ![t] = f] /\ pc' = [pc EXCEPT ![t] = "form"]
    BY <1>5, <2>1 DEF OpenEdit, Goto
  <2>3. f.was = r /\ f.row = Prefill(r)
    OBVIOUS
  <2> HIDE DEF f
  <2>4. pc'[t] = "form" /\ form'[t] = f
    BY <2>2, AtTab
  <2>5. f.row.alert = r.alert /\ (r.ka > 0 => f.row.ka = r.ka)
    BY <2>3, RowFacts, PrefillFacts
  <2> QED BY <1>3, <2>3, <2>4, <2>5 DEF Shows
<1>6. CASE Close(t) \/ CheckMove(t)
  <2>1. pc'[t] \in {"idle", "move"}
    BY <1>6, AtTab DEF Close, CheckMove, Goto
  <2> QED BY <1>2, <2>1
<1>7. CASE Submit(t)
  <2>1. PICK f \in Form :
          /\ form' = [form EXCEPT ![t] = f] /\ f.was = form[t].was
          /\ f.row.alert = form[t].row.alert /\ f.row.ka = form[t].row.ka
    BY <1>7, SubmitFacts
  <2>2. /\ pc[t] = "form"
        /\ pc' = [pc EXCEPT ![t] = IF form[t].was = None THEN "check" ELSE "get"]
    BY <1>7, SubmitFacts
  <2>3. form'[t] = f
    BY <2>1, AtTab
  <2>4. Shows(t)'
    BY <1>1, <2>1, <2>2, <2>3 DEF Shows
  <2>5. CASE form[t].was = None
    <3>1. pc'[t] = "check"
      BY <2>2, <2>5, AtTab
    <3> QED BY <2>1, <2>3, <2>4, <2>5, <3>1 DEF Takes, Updates
  <2>6. CASE form[t].was # None
    <3>1. pc'[t] = "get"
      BY <2>2, <2>6, AtTab
    <3> QED BY <1>3, <2>4, <3>1
  <2> QED BY <2>5, <2>6
<1>8. CASE Refuse(t) /\ pc[t] \in {"get", "check"}
  <2>1. pc'[t] = "form" /\ form'[t] = form[t]
    BY <1>8, AtTab DEF Refuse, Goto
  <2>2. Shows(t)'
    BY <1>1, <1>8, <2>1 DEF Shows
  <2> QED BY <1>3, <2>1, <2>2
<1>9. CASE GetPeer(t) /\ ~Refuse(t)
  <2>1. PICK r \in RowSet, j \in Row :
          /\ r.id = form[t].row.id
          /\ j.alert = form[t].row.alert /\ j.ka = form[t].row.ka
          /\ \A k \in DOMAIN Blank :
               j[k] = IF form[t].row[k] # Blank[k] THEN form[t].row[k] ELSE r[k]
          /\ job' = [job EXCEPT ![t] = j]
    BY <1>9, GetPeerFacts
  <2>2. /\ pc[t] = "get" /\ FormOf(t) /\ form[t].was # None
        /\ UNCHANGED <<rows, form, raced>>
    BY <1>9, GetPeerFacts
  <2>3. job'[t] = j /\ form'[t] = form[t]
    BY <2>1, <2>2, AtTab
  <2>4. Shows(t)'
    BY <1>1, <2>2 DEF Shows
  <2>5. form[t].was \in RowSet => form[t].was = r
    BY <2>1, <2>2, SameId DEF FormOf
  <2>6. RowSet' = RowSet /\ Blank' = Blank
    BY <2>2 DEF RowSet, Blank
  <2>7. ASSUME NEW k \in DOMAIN Blank
        PROVE  IF form[t].row[k] # Blank[k] THEN j[k] = form[t].row[k]
               ELSE raced' \/ form[t].was \notin RowSet \/ j[k] = form[t].was[k]
    BY <2>1, <2>5
  <2> QED BY <2>1, <2>3, <2>4, <2>6, <2>7 DEF Takes
<1>10. CASE Check(t) /\ ~Refuse(t)
  <2>1. /\ pc[t] = "check" /\ UNCHANGED <<rows, form, job, raced>>
        /\ pc' = [pc EXCEPT ![t] = IF form[t].was = None THEN "insert" ELSE "write"]
    BY <1>10 DEF Check, Goto
  <2>2. CASE form[t].was = None
    <3>1. pc'[t] = "insert"
      BY <2>1, <2>2, AtTab
    <3> QED BY <1>2, <3>1
  <2>3. CASE form[t].was # None
    <3>1. pc'[t] = "write"
      BY <2>1, <2>3, AtTab
    <3>2. Shows(t)'
      BY <1>1, <2>1, <2>3, <3>1 DEF Shows
    <3>3. RowSet' = RowSet /\ Blank' = Blank
      BY <2>1 DEF RowSet, Blank
    <3>4. Updates(t)
      BY <2>1, <2>3 DEF Updates
    <3> QED BY <1>1, <2>1, <3>2, <3>3, <3>4 DEF Takes
  <2> QED BY <2>2, <2>3
<1>11. CASE Writes(t)
  <2>1. pc'[t] = "idle"
    BY <1>11, WritesFacts
  <2> QED BY <1>2, <2>1
<1>12. GetPeer(t) => pc[t] = "get"
  BY DEF GetPeer
<1>13. Check(t) => pc[t] = "check"
  BY DEF Check
<1> QED BY <1>4, <1>5, <1>6, <1>7, <1>8, <1>9, <1>10, <1>11, <1>12, <1>13 DEF TabStep, Writes

LEMMA NextEdit == Inv /\ EditInv /\ [Next]_vars => EditInv'
<1> SUFFICES ASSUME Inv, EditInv, [Next]_vars, NEW u \in Tabs
             PROVE  (Shows(u) /\ Takes(u))'
  BY DEF EditInv
<1>1. Shows(u) /\ Takes(u)
  BY DEF EditInv
<1>2. CASE UNCHANGED vars
  <2>1. UNCHANGED <<rows, pc, form, job, raced>>
    BY <1>2 DEF vars
  <2>2. RowSet' \subseteq RowSet
    BY <2>1 DEF RowSet
  <2> QED BY <1>1, <2>1, <2>2, EditFrame
<1>3. ASSUME NEW id \in Ids, RemovePeer(id) PROVE (Shows(u) /\ Takes(u))'
  <2>1. RowSet' \subseteq RowSet /\ UNCHANGED <<pc, form, job, raced>>
    BY <1>3, RemoveFacts
  <2> QED BY <1>1, <2>1, EditFrame
<1>4. ASSUME NEW t \in Tabs, TabStep(t), t # u PROVE (Shows(u) /\ Takes(u))'
  <2>1. pc'[u] = pc[u] /\ form'[u] = form[u] /\ job'[u] = job[u]
    BY <1>4, OthersWait
  <2>2. CASE Writes(t)
    <3>1. raced' = (raced \/ \E v \in Tabs \ {t} : Decided(v))
      BY <2>2, WritesFacts
    <3>2. Updates(u) => raced'
      BY <1>4, <3>1 DEF Updates, Decided
    <3>3. raced => raced'
      BY <3>1
    <3> QED BY <1>1, <2>1, <3>2, <3>3, EditFrame
  <2>3. CASE ~Writes(t)
    <3>1. UNCHANGED <<rows, raced>>
      BY <1>4, <2>3, QuietFacts
    <3>2. RowSet' \subseteq RowSet
      BY <3>1 DEF RowSet
    <3> QED BY <1>1, <2>1, <3>1, <3>2, EditFrame
  <2> QED BY <2>2, <2>3
<1> QED BY <1>2, <1>3, <1>4, EditStep, StepCases

\* What a finished update wrote.
KeepsRow(t) ==
    LET was == form[t].was
        new == CHOOSE r \in {rows'[n] : n \in 1..Len(rows')} : r.id = was.id
    IN was \in RowSet =>
         /\ new.alert = was.alert
         /\ was.ka > 0 => new.ka = was.ka
         /\ \A k \in DOMAIN Blank :
              (form[t].row[k] = was[k] /\ ~(raced /\ was[k] = Blank[k])) => new[k] = was[k]

LEMMA WriteKeeps ==
    ASSUME Inv, EditInv, NEW t \in Tabs, Write(t)
    PROVE  KeepsRow(t)
<1> DEFINE was == form[t].was
           new == CHOOSE r \in {rows'[n] : n \in 1..Len(rows')} : r.id = was.id
<1>1. /\ pc[t] = "write" /\ FormOf(t) /\ was # None /\ job[t] \in Row
      /\ job[t].id = was.id
  BY AtTab DEF Write, Held, FormOf, Updates
<1>2. Updates(t) /\ Shows(t) /\ Takes(t)
  BY <1>1 DEF Updates, EditInv
<1> SUFFICES ASSUME was \in RowSet
             PROVE  /\ new.alert = was.alert
                    /\ was.ka > 0 => new.ka = was.ka
                    /\ \A k \in DOMAIN Blank :
                         (form[t].row[k] = was[k] /\ ~(raced /\ was[k] = Blank[k]))
                            => new[k] = was[k]
  BY Zenon DEF KeepsRow
<1>3. new = job[t]
  <2> DEFINE S == {rows'[n] : n \in 1..Len(rows')}
  <2>1. S = RowSet'
    BY DEF RowSet
  <2>2. job[t] \in S
    BY <1>1, <2>1, WriteFacts
  <2>3. ASSUME NEW r \in S, r.id = was.id PROVE r = job[t]
    BY <1>1, <2>1, <2>3, WriteFacts DEF Others
  <2> HIDE DEF S
  <2>4. (CHOOSE r \in S : r.id = was.id) = job[t]
    BY <1>1, <2>2, <2>3
  <2> QED BY <2>4 DEF S
<1> HIDE DEF new
<1>4. new.alert = was.alert /\ (was.ka > 0 => new.ka = was.ka)
  BY <1>1, <1>2, <1>3 DEF Shows, Takes
<1>5. ASSUME NEW k \in DOMAIN Blank, form[t].row[k] = was[k], ~(raced /\ was[k] = Blank[k])
      PROVE  new[k] = was[k]
  <2>1. IF form[t].row[k] # Blank[k] THEN job[t][k] = form[t].row[k]
        ELSE raced \/ was \notin RowSet \/ job[t][k] = was[k]
    BY <1>2 DEF Takes
  <2> QED BY <1>3, <1>5, <2>1
<1> QED BY <1>4, <1>5

\* A tab goes from "write" to "idle" in no other way.
LEMMA OnlyWrite ==
    ASSUME Inv, [Next]_vars, NEW t \in Tabs, pc[t] = "write", pc'[t] = "idle"
    PROVE  Write(t)
<1>1. pc' # pc
  OBVIOUS
<1>2. PICK u \in Tabs : TabStep(u)
  BY <1>1, RemoveFacts, StepCases DEF vars
<1>3. u = t
  BY <1>2, OthersWait
<1> QED BY <1>2, <1>3 DEF TabStep, OpenAdd, OpenEdit, Close, Submit, GetPeer, Check,
          Insert, CheckMove, Move

(***************************************************************************)
(* Editing a peer leaves alone what the user leaves alone, from the form   *)
(* PeerEditForm to UpdatePeer: the alert, a keepalive that is set,         *)
(* and the name, the address and the networks, which the handler keeps     *)
(* when they come empty, unless a peer that was empty there got a value    *)
(* that came and went while requests met.                                  *)
(***************************************************************************)
THEOREM EditKeepsRowCorrect == Spec => EditKeepsRow
<1> DEFINE Step == \A t \in Tabs : (pc[t] = "write" /\ pc'[t] = "idle") => KeepsRow(t)
<1>1. Init => Inv /\ EditInv
  BY InitInv, InitEdit
<1>2. (Inv /\ EditInv) /\ [Next]_vars => (Inv /\ EditInv)'
  BY NextInv, NextEdit
<1>3. (Inv /\ EditInv) /\ [Next]_vars => [Step]_vars
  BY OnlyWrite, WriteKeeps
<1>4. EditKeepsRow <=> [][Step]_vars
  BY DEF EditKeepsRow, KeepsRow
<1> HIDE DEF Step
<1> QED BY <1>1, <1>2, <1>3, <1>4, PTL DEF Spec

-----------------------------------------------------------------------------
(***************************************************************************)
(* What the form suggests, and what the page counts.                       *)
(***************************************************************************)

\* The addresses of a subnet but the first and the last one.
LEMMA HostInterval ==
    ASSUME NEW i \in Subnets
    PROVE  HostsOf(i) = (Network(i) + 1)..(Network(i) + i.size - 2)
<1> DEFINE S == i.size
           N == Network(i)
           q == i.ip \div S
           inside == {a \in Addrs : a \div S = q}
<1>1. /\ S \in Nat \ {0} /\ q \in Nat /\ N = S * q /\ N \in Nat /\ N + S - 1 \in Nat
      /\ N + S <= ByteBase * ByteBase /\ ByteBase * ByteBase \in Nat
  <2>1. /\ S \in Nat \ {0} /\ q \in Nat /\ N = S * q /\ N \in Nat
        /\ N + S <= ByteBase * ByteBase
    BY Aligned
  <2>2. ByteBase * ByteBase \in Nat
    OBVIOUS
  <2> QED BY <2>1, <2>2
<1>2. HostsOf(i) = {a \in inside : (\E b \in inside : b < a) /\ (\E b \in inside : b > a)}
  BY DEF HostsOf
<1>3. inside = N..(N + S - 1)
  <2>1. ASSUME NEW a \in inside PROVE a \in N..(N + S - 1)
    <3>1. a \in Nat /\ a \div S = q
      BY DEF Addrs
    <3> HIDE DEF inside, S, N, q
    <3>2. a % S \in Nat /\ a % S < S /\ a = S * (a \div S) + (a % S)
      BY <1>1, <3>1, Division
    <3> QED BY <1>1, <3>1, <3>2
  <2>2. ASSUME NEW a \in N..(N + S - 1) PROVE a \in inside
    <3> DEFINE r == a - N
    <3>1. r \in Nat /\ r < S /\ a = N + r /\ a \in Addrs
      BY <1>1 DEF Addrs
    <3> HIDE DEF r, S, N, q
    <3>2. a \div S = q
      BY <1>1, <3>1, OneDivision
    <3> QED BY <3>1, <3>2
  <2> QED BY <2>1, <2>2
<1> HIDE DEF inside, S, N, q
<1>4. ASSUME NEW a PROVE a \in HostsOf(i) <=> a \in (N + 1)..(N + S - 2)
  <2>1. ASSUME a \in HostsOf(i) PROVE a \in (N + 1)..(N + S - 2)
    BY <1>1, <1>2, <1>3, <2>1
  <2>2. ASSUME a \in (N + 1)..(N + S - 2) PROVE a \in HostsOf(i)
    <3>1. N \in inside /\ N + S - 1 \in inside /\ a \in inside /\ N < a /\ N + S - 1 > a
      BY <1>1, <1>3, <2>2
    <3> QED BY <1>2, <3>1
  <2> QED BY <2>1, <2>2
<1> QED BY <1>4 DEF N, S

\* nextAvailableIP.
LEMMA LowestFree ==
    ASSUME NEW i \in Subnets, NEW used
    PROVE  LET free == HostsOf(i) \ (used \cup {i.ip})
               a    == NextAvailable(i, used)
           IN IF free = {} THEN a = None ELSE a \in free /\ \A b \in free : a <= b
<1> DEFINE N == Network(i)
           gone == used \cup {i.ip}
           free == HostsOf(i) \ gone
           hosts == {n \in 1..(i.size - 1) : n < i.size - 1}
           left  == {n \in hosts : Plus(N, n) \notin gone}
           n     == CHOOSE k \in left : \A m \in left : k <= m
<1>1. /\ i.size \in Nat \ {0} /\ N \in Nat /\ HostsOf(i) = (N + 1)..(N + i.size - 2)
  BY Aligned, HostInterval
<1>2. \A k \in hosts : k \in Nat /\ Plus(N, k) = N + k
  BY <1>1, NoCarry
<1>3. ASSUME NEW a PROVE a \in free <=> \E k \in left : a = N + k
  <2> HIDE DEF gone, N
  <2>1. ASSUME a \in free PROVE \E k \in left : a = N + k
    <3>1. a \in (N + 1)..(N + i.size - 2) /\ a \notin gone
      BY <1>1, <2>1
    <3>2. a - N \in hosts /\ a = N + (a - N)
      BY <1>1, <3>1
    <3>3. a - N \in left
      BY <1>2, <3>1, <3>2
    <3> QED BY <3>2, <3>3
  <2>2. ASSUME NEW k \in left, a = N + k PROVE a \in free
    <3>1. k \in hosts /\ Plus(N, k) \notin gone
      OBVIOUS
    <3>2. a \in (N + 1)..(N + i.size - 2) /\ a \notin gone
      BY <1>1, <1>2, <2>2, <3>1
    <3> QED BY <1>1, <3>2
  <2> QED BY <2>1, <2>2
<1>4. NextAvailable(i, used) = IF left = {} THEN None ELSE Plus(N, n)
  BY DEF NextAvailable
<1>5. CASE left = {}
  <2>1. free = {}
    BY <1>3, <1>5
  <2> QED BY <1>4, <1>5, <2>1
<1>6. CASE left # {}
  <2>1. left \in SUBSET Nat
    BY <1>2
  <2> HIDE DEF left
  <2>2. n \in left /\ \A m \in left : n <= m
    BY <1>6, <2>1, LeastNumber
  <2> HIDE DEF n
  <2>3. n \in Nat /\ NextAvailable(i, used) = N + n
    BY <1>2, <1>4, <1>6, <2>1, <2>2 DEF left
  <2> DEFINE a == NextAvailable(i, used)
  <2>4. a \in free
    BY <1>3, <2>2, <2>3
  <2>5. ASSUME NEW b \in free PROVE a <= b
    <3>1. PICK k \in left : b = N + k
      BY <1>3
    <3> QED BY <1>1, <2>1, <2>2, <2>3, <3>1
  <2> QED BY <2>4, <2>5
<1> QED BY <1>5, <1>6

\* formatAvailableIPs, when every row has an address of the subnet of its own.
LEMMA CountsFree ==
    ASSUME NEW i \in Subnets, NEW taken, NEW count \in Nat,
           i.size >= 4, i.ip \in HostsOf(i) \ taken, taken \subseteq HostsOf(i),
           Cardinality(taken) = count
    PROVE  Available(i, count) = Cardinality(HostsOf(i) \ (taken \cup {i.ip}))
<1> DEFINE N == Network(i)
           H == HostsOf(i)
           gone == taken \cup {i.ip}
<1>1. i.size \in Nat /\ N \in Nat /\ H = (N + 1)..(N + i.size - 2)
  BY Aligned, HostInterval
<1>2. IsFiniteSet(H) /\ Cardinality(H) = i.size - 2
  <2> HIDE DEF N, H
  <2>1. N + 1 \in Int /\ N + i.size - 2 \in Int /\ ~(N + 1 > N + i.size - 2)
        /\ (N + i.size - 2) - (N + 1) + 1 = i.size - 2
    BY <1>1
  <2> QED BY <1>1, <2>1, FS_Interval
<1> HIDE DEF N, H
<1>3. IsFiniteSet(taken)
  BY <1>2, FS_Subset DEF H
<1>4. IsFiniteSet(gone) /\ Cardinality(gone) = count + 1
  BY <1>3, FS_AddElement
<1>5. gone \subseteq H
  BY DEF H
<1>6. H \cap gone = gone
  BY <1>5
<1>7. Cardinality(H \ gone) = (i.size - 2) - (count + 1)
  <2>1. Cardinality(H \ gone) = Cardinality(H) - Cardinality(H \cap gone)
    BY <1>2, FS_Difference
  <2> QED BY <1>2, <1>4, <1>6, <2>1
<1>8. count + 1 <= i.size - 2
  BY <1>2, <1>4, <1>5, FS_Subset
<1>9. Available(i, count) = (i.size - 3) - count
  BY <1>1, <1>8 DEF Available
<1> QED BY <1>1, <1>7, <1>9 DEF H

\* What a new form shows.
Suggests(t) ==
    LET taken == AddrsOf(RowSet)
        free  == HostsOf(iface) \ (taken \cup {iface.ip})
        a     == form'[t].row.addr
    IN /\ IF free = {} THEN a = None ELSE a \in free /\ \A b \in free : a <= b
       /\ (/\ iface.size >= 4 /\ iface.ip \in HostsOf(iface) \ taken
           /\ taken \subseteq HostsOf(iface)
           /\ Cardinality(taken) = Len(rows)) =>
                Available(iface, Len(rows)) = Cardinality(free)

LEMMA OpenSuggests ==
    ASSUME Inv, NEW t \in Tabs, OpenAdd(t)
    PROVE  Suggests(t)
<1> DEFINE taken == AddrsOf(RowSet)
           used  == taken \cup {iface.ip}
           free  == HostsOf(iface) \ used
           a     == form'[t].row.addr
<1>1. a = NextAvailable(iface, used) /\ iface \in Subnets /\ Len(rows) \in Nat
  <2> DEFINE f == [row |-> [id |-> None, name |-> None, addr |-> NextAvailable(iface, used),
                            nets |-> <<>>, ka |-> 25, ep |-> None, alert |-> FALSE],
                   used |-> used, was |-> None]
  <2>1. form' = [form EXCEPT ![t] = f] /\ f.row.addr = NextAvailable(iface, used)
    BY DEF OpenAdd
  <2> HIDE DEF f, used
  <2>2. form'[t] = f
    BY <2>1, AtTab
  <2>3. iface \in Subnets /\ Len(rows) \in Nat
    BY DEF Inv, TypeOK
  <2> QED BY <2>1, <2>2, <2>3
<1>2. used \cup {iface.ip} = used
  OBVIOUS
<1> HIDE DEF a
<1>3. IF free = {} THEN a = None ELSE a \in free /\ \A b \in free : a <= b
  <2> HIDE DEF used
  <2> QED BY <1>1, <1>2, LowestFree
<1>4. ASSUME iface.size >= 4, iface.ip \in HostsOf(iface) \ taken, taken \subseteq HostsOf(iface),
             Cardinality(taken) = Len(rows)
      PROVE  Available(iface, Len(rows)) = Cardinality(free)
  BY <1>1, <1>4, CountsFree
<1> QED BY <1>3, <1>4 DEF Suggests, a

\* A tab goes from "idle" to a form without a row in no other way.
LEMMA OnlyOpenAdd ==
    ASSUME Inv, [Next]_vars, NEW t \in Tabs, pc[t] = "idle", pc'[t] = "form",
           form'[t].was = None
    PROVE  OpenAdd(t)
<1>1. pc' # pc
  OBVIOUS
<1>2. PICK u \in Tabs : TabStep(u)
  BY <1>1, RemoveFacts, StepCases DEF vars
<1>3. u = t
  BY <1>2, OthersWait
<1>4. ~OpenEdit(t)
  <2> SUFFICES ASSUME OpenEdit(t) PROVE FALSE
    OBVIOUS
  <2>1. PICK r \in RowSet : form'[t].was = r
    BY AtTab DEF OpenEdit
  <2> QED BY <2>1, RowFacts
<1>5. ~CheckMove(t)
  BY AtTab DEF CheckMove, Goto
<1> QED BY <1>2, <1>3, <1>4, <1>5 DEF TabStep, Close, Submit, GetPeer, Check,
          Insert, Write, Move

(***************************************************************************)
(* A new form suggests the lowest free address or none, for every base of  *)
(* a byte and every subnet a prefix length can describe: the additions of  *)
(* nextAvailableIP lose no carry.  And formatAvailableIPs counts the free  *)
(* addresses.                                                              *)
(***************************************************************************)
THEOREM SuggestsLowestFreeCorrect == Spec => SuggestsLowestFree
<1> DEFINE Step == \A t \in Tabs :
                    (pc[t] = "idle" /\ pc'[t] = "form" /\ form'[t].was = None) => Suggests(t)
<1>1. Inv /\ [Next]_vars => [Step]_vars
  BY OnlyOpenAdd, OpenSuggests
<1>2. SuggestsLowestFree <=> [][Step]_vars
  BY DEF SuggestsLowestFree, Suggests
<1> HIDE DEF Step
<1> QED BY <1>1, <1>2, InitInv, NextInv, PTL DEF Spec

-----------------------------------------------------------------------------
(***************************************************************************)
(* What the handlers store, the file tells.                                *)
(***************************************************************************)

\* The values a file of the rows is made of.
Lists  == {<<iface.ip, iface.size>>} \cup {Merged(rows[n]) : n \in 1..Len(rows)}
Values == {None, "key"} \cup Nat \cup STRING \cup Names \cup Ids \cup Lists

LEMMA ValuesFacts ==
    /\ None \in Values /\ "key" \in Values
    /\ Nat \subseteq Values /\ STRING \subseteq Values /\ Names \subseteq Values
    /\ Ids \subseteq Values /\ Lists \subseteq Values
BY DEF Values

LEMMA BlockFacts ==
    ASSUME NEW V, NEW r, r.name \in V, r.id \in V, r.ep \in V, Merged(r) \in V,
           r.ka \in V \cap Nat
    PROVE  BlockOf(r) \in PeerOf(V)
BY DEF BlockOf, PeerOf

LEMMA SeqOfMore ==
    ASSUME NEW A, NEW B, A \subseteq B, NEW s \in Seq(A)
    PROVE  s \in Seq(B)
<1>1. s \in [1..Len(s) -> A] /\ Len(s) \in Nat
  OBVIOUS
<1>2. s \in [1..Len(s) -> B]
  BY <1>1
<1> QED BY <1>1, <1>2

LEMMA BlocksFacts ==
    ASSUME TypeOK
    PROVE  /\ Blocks \in PeersOf(Values) /\ Len(Blocks) = Len(rows)
           /\ \A n \in 1..Len(rows) : Blocks[n].name = rows[n].name
<1>1. rows \in Seq(Row) /\ Len(rows) \in Nat
  BY DEF TypeOK
<1>2. ASSUME NEW n \in 1..Len(rows) PROVE BlockOf(rows[n]) \in PeerOf(Values)
  <2> DEFINE r == rows[n]
  <2>1. r \in Row
    BY <1>1
  <2>2. /\ r.name \in Names \cup {None} /\ r.id \in Ids \cup {None} /\ r.ka \in Nat
        /\ r.ep \in STRING \cup {None}
    BY <2>1 DEF Row
  <2>3. Merged(r) \in Lists
    BY DEF Lists
  <2> HIDE DEF r
  <2>4. /\ r.name \in Values /\ r.id \in Values /\ r.ep \in Values /\ Merged(r) \in Values
        /\ r.ka \in Values \cap Nat
    BY <2>2, <2>3, ValuesFacts
  <2> QED BY <2>4, BlockFacts DEF r
<1>3. Blocks = [n \in 1..Len(rows) |-> BlockOf(rows[n])]
  BY DEF Blocks
<1>4. Blocks \in Seq(PeerOf(Values)) /\ Len(Blocks) = Len(rows)
  BY <1>1, <1>2, <1>3
<1>5. \A n \in 1..Len(rows) : Blocks[n].name = rows[n].name
  BY <1>3 DEF BlockOf
<1> QED BY <1>4, <1>5 DEF PeersOf

(***************************************************************************)
(* The configuration file made of the rows of any reachable state reads    *)
(* back as the interface and the peers, for every number of peers and of   *)
(* hooks and wherever the names stand: GenerateServerConf and ParseConfig  *)
(* are inverse to each other on what the handlers store.                   *)
(***************************************************************************)
THEOREM ConfRoundTripCorrect == Spec => []ConfRoundTrip
<1>1. TypeOK => ConfRoundTrip
  <2> SUFFICES ASSUME TypeOK, NEW above \in [1..Len(rows) -> BOOLEAN], ~Misread(above)
               PROVE  ParseConfig(ServerConf(IfaceOf(iface), Blocks, above))
                        = [iface |-> IfaceOf(iface), peers |-> Blocks]
    BY DEF ConfRoundTrip
  <2>1. /\ Blocks \in PeersOf(Values) /\ Len(Blocks) = Len(rows)
        /\ \A n \in 1..Len(rows) : Blocks[n].name = rows[n].name
    BY BlocksFacts
  <2>2. None \in Values /\ 0 \in Values /\ STRING \subseteq Values
    <3>1. 0 \in Nat
      OBVIOUS
    <3> QED BY <3>1, ValuesFacts
  <2>3. IfaceOf(iface) \in IfaceFrom(Values) /\ IfaceOf(iface).privatekey # None
    <3>1. "key" \in Values /\ <<iface.ip, iface.size>> \in Values /\ 51820 \in Values
      <4>1. <<iface.ip, iface.size>> \in Lists
        BY DEF Lists
      <4>2. 51820 \in Nat
        BY SMT
      <4> HIDE DEF Values, Lists
      <4>3. 51820 \in Values
        BY <4>2, ValuesFacts, SMT
      <4> QED BY <4>1, <4>3, ValuesFacts, SMT
    <3>2. Hooks \in Seq(Values)
      <4> HIDE DEF Values
      <4> QED BY <2>2, HooksAssumption, SeqOfMore
    <3>3. 1420 \in Values \cap Nat
      <4>1. 1420 \in Nat
        OBVIOUS
      <4> QED BY <4>1, ValuesFacts
    <3> QED BY <3>1, <3>2, <3>3, HooksAssumption DEF IfaceOf, IfaceFrom
  <2>4. Readable(Blocks, above)
    <3> SUFFICES ASSUME NEW n \in 1..(Len(rows) - 1), Blocks[n + 1].name # None, above[n + 1]
                 PROVE  Blocks[n].name # None
      BY <2>1 DEF Readable
    <3>1. n \in 1..Len(rows) /\ n + 1 \in 1..Len(rows)
      BY DEF TypeOK
    <3>2. Blocks[n].name = rows[n].name /\ Blocks[n + 1].name = rows[n + 1].name
      BY <2>1, <3>1
    <3> QED BY <3>2 DEF Misread
  <2>5. above \in [1..Len(Blocks) -> BOOLEAN]
    BY <2>1
  <2> QED BY <2>1, <2>2, <2>3, <2>4, <2>5, ReadsBack
<1> QED BY <1>1, TypeOKCorrect, PTL
=============================================================================
