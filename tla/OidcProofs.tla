----------------------------- MODULE OidcProofs -----------------------------
(***************************************************************************)
(* Proofs about Oidc: for any number of providers, tokens, codes and       *)
(* concurrent requests and reloads, with any failures and restarts.        *)
(***************************************************************************)
EXTENDS Oidc, TLAPS

-----------------------------------------------------------------------------
(***************************************************************************)
(* The shape of a step.                                                    *)
(***************************************************************************)

\* The steps of a callback that has found its token, and those after the look
\* at the provider.
Late == {"exchange", "account", "provision"}
Past == {"check"} \cup Late
Back == {"dropState"} \cup Past

\* What the local variables of a request hold at each of its steps, given the
\* tokens born and the codes issued.
Holds(l, j, B, C) ==
    /\ l \in {"putRow", "putState"} => j.id \in Ids
    /\ l \in {"putRow", "putState"} \cup Late => j.row \in Provider
    /\ l \in Back => /\ j.token \in B /\ j.state \in State
                     /\ j.code \in Codes /\ C[j.code] # None

Locals == \A w \in Procs : Holds(pc[w], job[w], bornTokens, codes)

\* The part of TypeOK that is not about requests under way.
TypeRest ==
    /\ now \in Time
    /\ rows \in [Ids -> Provider \cup {None}]
    /\ states \in [Tokens -> State \cup {None}]
    /\ accounts \subseteq Account
    /\ resolved \in [Ids -> Provider \cup {None}]
    /\ ready \in BOOLEAN
    /\ asked \in [Tokens -> Issuers \cup {None}]
    /\ codes \in [Codes -> Code \cup {None}]
    /\ bornIds \subseteq Ids /\ bornTokens \subseteq Tokens
    /\ named \subseteq Names \X Issuers
    /\ answered \subseteq Tokens /\ kept \subseteq Tokens
    /\ mixed \in BOOLEAN /\ lost \in BOOLEAN
    /\ signIns \subseteq Account \X Issuers
    /\ requests \in 0..MaxRequests /\ crashes \in 0..MaxCrashes
    /\ \A t \in bornTokens : asked[t] \in Issuers

TypeReq == pc \in [Procs -> Labels] /\ job \in [Procs -> Job]

Inv1 == TypeReq /\ TypeRest /\ Locals

LEMMA Inv1Type == Inv1 => TypeOK
BY DEF Inv1, TypeReq, TypeRest, TypeOK

\* Goroutine w moves to l with the local variables j.
Moves(w, l, j) == /\ pc' = [pc EXCEPT ![w] = l]
                  /\ job' = [job EXCEPT ![w] = j]

\* Tokens and codes are never forgotten.
Grows == /\ bornTokens \subseteq bornTokens'
         /\ \A c \in Codes : codes[c] # None => codes'[c] # None

LEMMA MovesFacts ==
    ASSUME Inv1, NEW w \in Procs, NEW l, NEW j, Moves(w, l, j)
    PROVE  /\ pc'[w] = l /\ job'[w] = j
           /\ \A v \in Procs \ {w} : pc'[v] = pc[v] /\ job'[v] = job[v]
BY DEF Inv1, TypeReq, Moves

LEMMA MoveInv1 ==
    ASSUME Inv1, NEW w \in Procs, NEW l \in Labels, NEW j \in Job, Moves(w, l, j),
           Grows, Holds(l, j, bornTokens', codes'), TypeRest'
    PROVE  Inv1'
<1>1. TypeReq'
  BY DEF Inv1, TypeReq, Moves
<1>2. ASSUME NEW v \in Procs
      PROVE  Holds(pc'[v], job'[v], bornTokens', codes')
  <2>1. CASE v = w
    BY <2>1, MovesFacts
  <2>2. CASE v # w
    <3>1. pc'[v] = pc[v] /\ job'[v] = job[v]
      BY <2>2, MovesFacts
    <3>2. Holds(pc[v], job[v], bornTokens, codes)
      BY DEF Inv1, Locals
    <3> QED BY <3>1, <3>2 DEF Holds, Grows
  <2> QED BY <2>1, <2>2
<1> QED BY <1>1, <1>2 DEF Inv1, Locals

LEMMA NoJobType == NoJob \in Job
BY DEF NoJob, NoRows, Job

\* A step to "idle" or "list" that forgets the local variables.
LEMMA ForgetInv1 ==
    ASSUME Inv1, NEW w \in Procs, NEW l \in {"idle", "list"}, Moves(w, l, NoJob),
           Grows, TypeRest'
    PROVE  Inv1'
<1>1. Holds(l, NoJob, bornTokens', codes')
  BY DEF Holds, Back, Past, Late
<1> QED BY <1>1, MoveInv1, NoJobType DEF Labels

LEMMA FinishMoves ==
    ASSUME NEW w \in Procs, Finish(w)
    PROVE  Moves(w, "idle", NoJob)
BY DEF Finish, Goto, Hold, Moves

LEMMA ReloadMoves ==
    ASSUME NEW w \in Procs, Reload(w)
    PROVE  Moves(w, "list", NoJob)
BY DEF Reload, Goto, Hold, Moves

LEMMA HoldMoves ==
    ASSUME NEW w \in Procs, NEW l, NEW j, Goto(w, l), Hold(w, j)
    PROVE  Moves(w, l, j)
BY DEF Goto, Hold, Moves

LEMMA StayMoves ==
    ASSUME Inv1, NEW w \in Procs, NEW l, Stay(w, l)
    PROVE  Moves(w, l, job[w])
BY DEF Inv1, TypeReq, Stay, Goto, Moves

LEMMA ProcFacts ==
    ASSUME Inv1, NEW w \in Procs
    PROVE  /\ pc[w] \in Labels /\ job[w] \in Job
           /\ Holds(pc[w], job[w], bornTokens, codes)
BY DEF Inv1, TypeReq, Locals

\* Nothing but the request itself moves.
Quiet == /\ UNCHANGED <<now, tables, memory, history, outside, crashes>>
         /\ requests' \in 0..MaxRequests

LEMMA QuietRest ==
    ASSUME Inv1, Quiet
    PROVE  TypeRest' /\ Grows
BY DEF Inv1, TypeRest, Quiet, Grows, tables, memory, history, outside

LEMMA ArriveFacts ==
    ASSUME Inv1, NEW w \in Procs, NEW op, Arrive(w, op)
    PROVE  /\ requests' \in 0..MaxRequests /\ UNCHANGED <<now, crashes>>
           /\ pc[w] = "idle" /\ w \in Workers
BY BoundsAssumption DEF Inv1, TypeRest, Arrive, Procs

LEMMA AtFacts ==
    ASSUME Inv1, NEW w \in Procs, NEW l, At(w, l)
    PROVE  /\ requests' \in 0..MaxRequests /\ UNCHANGED <<now, crashes>>
           /\ pc[w] = l
BY DEF Inv1, TypeRest, At

LEMMA RefuseFacts ==
    ASSUME Inv1, NEW w \in Procs, Refuse(w), UNCHANGED <<now, crashes>>,
           requests' \in 0..MaxRequests
    PROVE  Quiet /\ Moves(w, "idle", NoJob) /\ Inv1'
<1>1. Quiet /\ Moves(w, "idle", NoJob)
  BY FinishMoves DEF Refuse, Quiet
<1> QED BY <1>1, ForgetInv1, QuietRest

-----------------------------------------------------------------------------
(***************************************************************************)
(* Inv1, action by action.                                                 *)
(***************************************************************************)

LEMMA StoreRest ==
    ASSUME Inv1, NEW w \in Procs, NEW i \in Ids, NEW p \in Provider, Store(w, i, p),
           bornIds' \subseteq Ids, requests' \in 0..MaxRequests, UNCHANGED <<now, crashes>>
    PROVE  TypeRest' /\ Grows
<1>1. <<p.name, p.issuer>> \in Names \X Issuers
  BY DEF Provider
<1>2. named' \subseteq Names \X Issuers
  BY <1>1 DEF Store, Inv1, TypeRest
<1>3. rows' \in [Ids -> Provider \cup {None}]
  BY DEF Store, Inv1, TypeRest
<1>4. mixed' \in BOOLEAN
  BY DEF Store, OtherReload, Inv1, TypeRest
<1> QED BY <1>2, <1>3, <1>4 DEF Store, Inv1, TypeRest, Grows, memory, outside

LEMMA CreateInv1 == ASSUME Inv1, NEW w \in Procs, Create(w) PROVE Inv1'
<1>1. requests' \in 0..MaxRequests /\ UNCHANGED <<now, crashes>>
  BY ArriveFacts DEF Create
<1>2. CASE Refuse(w)
  BY <1>1, <1>2, RefuseFacts
<1>3. ASSUME NEW i \in Ids \ bornIds, NEW p \in Offers, Store(w, i, p),
             bornIds' = bornIds \cup {i}, Reload(w)
      PROVE  Inv1'
  <2>1. TypeRest' /\ Grows
    BY <1>1, <1>3, StoreRest, OffersAssumption DEF Inv1, TypeRest
  <2> QED BY <1>3, <2>1, ReloadMoves, ForgetInv1
<1> QED BY <1>2, <1>3 DEF Create

LEMMA GetRowInv1 == ASSUME Inv1, NEW w \in Procs, GetRow(w) PROVE Inv1'
<1>1. requests' \in 0..MaxRequests /\ UNCHANGED <<now, crashes>>
  BY ArriveFacts DEF GetRow
<1>2. CASE Refuse(w)
  BY <1>1, <1>2, RefuseFacts
<1>3. ASSUME NEW i \in Ids, NEW p \in Offers,
             Hold(w, [NoJob EXCEPT !.id = i, !.row = p]), Goto(w, "putRow"),
             UNCHANGED <<tables, memory, outside, history>>
      PROVE  Inv1'
  <2> DEFINE j == [NoJob EXCEPT !.id = i, !.row = p]
  <2>1. j \in Job /\ Holds("putRow", j, bornTokens', codes')
    BY OffersAssumption, NoJobType DEF Holds, Back, Past, Late, Job, NoJob
  <2>2. TypeRest' /\ Grows
    BY <1>1, <1>3, QuietRest DEF Quiet
  <2>3. Moves(w, "putRow", j)
    BY <1>3, HoldMoves
  <2> HIDE DEF j
  <2> QED BY <2>1, <2>2, <2>3, MoveInv1 DEF Labels
<1> QED BY <1>2, <1>3 DEF GetRow

LEMMA PutRowInv1 == ASSUME Inv1, NEW w \in Procs, PutRow(w) PROVE Inv1'
<1>1. requests' \in 0..MaxRequests /\ UNCHANGED <<now, crashes>> /\ pc[w] = "putRow"
  BY AtFacts DEF PutRow
<1>2. CASE Refuse(w)
  BY <1>1, <1>2, RefuseFacts
<1>3. CASE /\ rows[Me(w).id] = None /\ UNCHANGED <<tables, memory, outside, history>>
           /\ Reload(w)
  <2>1. TypeRest' /\ Grows
    BY <1>1, <1>3, QuietRest DEF Quiet
  <2> QED BY <1>3, <2>1, ReloadMoves, ForgetInv1
<1>4. CASE Store(w, Me(w).id, Me(w).row) /\ UNCHANGED bornIds /\ Reload(w)
  <2>1. Me(w).id \in Ids /\ Me(w).row \in Provider
    BY <1>1, ProcFacts DEF Holds, Me
  <2>2. bornIds' \subseteq Ids
    BY <1>4 DEF Inv1, TypeRest
  <2>3. TypeRest' /\ Grows
    BY <1>1, <1>4, <2>1, <2>2, StoreRest
  <2> QED BY <1>4, <2>3, ReloadMoves, ForgetInv1
<1> QED BY <1>2, <1>3, <1>4 DEF PutRow

LEMMA DeleteRowInv1 == ASSUME Inv1, NEW w \in Procs, DeleteRow(w) PROVE Inv1'
<1>1. requests' \in 0..MaxRequests /\ UNCHANGED <<now, crashes>>
  BY ArriveFacts DEF DeleteRow
<1>2. CASE Refuse(w)
  BY <1>1, <1>2, RefuseFacts
<1>3. ASSUME NEW i \in bornIds, rows' = [rows EXCEPT ![i] = None],
             mixed' = (mixed \/ OtherReload(w)), Reload(w),
             UNCHANGED <<states, accounts, memory, outside, bornIds, bornTokens,
                         named, answered, kept, lost, signIns>>
      PROVE  Inv1'
  <2>1. mixed' \in BOOLEAN
    BY <1>3 DEF Inv1, TypeRest, OtherReload
  <2>2. TypeRest' /\ Grows
    BY <1>1, <1>3, <2>1 DEF Inv1, TypeRest, Grows, memory, outside
  <2> QED BY <1>3, <2>2, ReloadMoves, ForgetInv1
<1> QED BY <1>2, <1>3 DEF DeleteRow

LEMMA ListInv1 == ASSUME Inv1, NEW w \in Procs, List(w) PROVE Inv1'
<1>1. requests' \in 0..MaxRequests /\ UNCHANGED <<now, crashes>>
  BY AtFacts DEF List
<1>2. CASE /\ job' = [job EXCEPT ![w].listed = rows] /\ Goto(w, "install")
           /\ UNCHANGED <<tables, memory, outside, history>>
  <2> DEFINE j == [job[w] EXCEPT !.listed = rows]
  <2>1. j \in Job /\ Holds("install", j, bornTokens', codes')
    BY ProcFacts DEF Holds, Back, Past, Late, Job, Inv1, TypeRest
  <2>2. TypeRest' /\ Grows
    BY <1>1, <1>2, QuietRest DEF Quiet
  <2>3. Moves(w, "install", j)
    BY <1>2 DEF Goto, Moves, Inv1, TypeReq
  <2> HIDE DEF j
  <2> QED BY <2>1, <2>2, <2>3, MoveInv1 DEF Labels
<1>3. CASE /\ Finish(w) /\ lost' = TRUE
           /\ UNCHANGED <<tables, memory, outside, bornIds, bornTokens, named,
                          answered, kept, mixed, signIns>>
  <2>1. TypeRest' /\ Grows
    BY <1>1, <1>3 DEF Inv1, TypeRest, Grows, tables, memory, outside
  <2> QED BY <1>3, <2>1, FinishMoves, ForgetInv1
<1> QED BY <1>2, <1>3 DEF List

LEMMA InstallInv1 == ASSUME Inv1, NEW w \in Procs, Install(w) PROVE Inv1'
<1>1. requests' \in 0..MaxRequests /\ UNCHANGED <<now, crashes>>
  BY AtFacts DEF Install
<1>2. PICK failed \in SUBSET Ids : resolved' = Discovered(w, failed)
  BY DEF Install
<1>3. resolved' \in [Ids -> Provider \cup {None}]
  BY <1>2, ProcFacts DEF Discovered, Me, Job
<1>4. TypeRest' /\ Grows
  BY <1>1, <1>3 DEF Install, Inv1, TypeRest, Grows, tables, outside
<1> QED BY <1>4, FinishMoves, ForgetInv1 DEF Install

LEMMA LookupInv1 == ASSUME Inv1, NEW w \in Procs, Lookup(w) PROVE Inv1'
<1>1. requests' \in 0..MaxRequests /\ UNCHANGED <<now, crashes>>
  BY ArriveFacts DEF Lookup
<1>2. CASE Refuse(w)
  BY <1>1, <1>2, RefuseFacts
<1>3. ASSUME NEW i \in bornIds, resolved[i] # None,
             Hold(w, [NoJob EXCEPT !.id = i, !.row = resolved[i]]), Goto(w, "putState"),
             UNCHANGED <<tables, memory, outside, history>>
      PROVE  Inv1'
  <2> DEFINE j == [NoJob EXCEPT !.id = i, !.row = resolved[i]]
  <2>1. i \in Ids /\ resolved[i] \in Provider
    BY <1>3 DEF Inv1, TypeRest
  <2>2. j \in Job /\ Holds("putState", j, bornTokens', codes')
    BY <2>1, NoJobType DEF Holds, Back, Past, Late, Job, NoJob
  <2>3. TypeRest' /\ Grows
    BY <1>1, <1>3, QuietRest DEF Quiet
  <2>4. Moves(w, "putState", j)
    BY <1>3, HoldMoves
  <2> HIDE DEF j
  <2> QED BY <2>2, <2>3, <2>4, MoveInv1 DEF Labels
<1> QED BY <1>2, <1>3 DEF Lookup

LEMMA PutStateInv1 == ASSUME Inv1, NEW w \in Procs, PutState(w) PROVE Inv1'
<1>1. requests' \in 0..MaxRequests /\ UNCHANGED <<now, crashes>> /\ pc[w] = "putState"
  BY AtFacts DEF PutState
<1>2. CASE Refuse(w)
  BY <1>1, <1>2, RefuseFacts
<1>3. ASSUME NEW t \in Tokens \ bornTokens, states' = [states EXCEPT ![t] = NewState(w)],
             bornTokens' = bornTokens \cup {t}, Finish(w),
             asked' = [asked EXCEPT ![t] = Me(w).row.issuer],
             UNCHANGED <<rows, accounts, memory, codes, bornIds, named, answered,
                         kept, mixed, lost, signIns>>
      PROVE  Inv1'
  <2>1. Me(w).id \in Ids /\ Me(w).row.issuer \in Issuers
    BY <1>1, ProcFacts DEF Holds, Me, Provider
  <2>2. NewState(w) \in State
    BY <2>1 DEF NewState, State, Inv1, TypeRest
  <2>3. states' \in [Tokens -> State \cup {None}]
    BY <1>3, <2>2 DEF Inv1, TypeRest
  <2>4. asked' \in [Tokens -> Issuers \cup {None}]
    BY <1>3, <2>1 DEF Inv1, TypeRest
  <2>5. \A u \in bornTokens' : asked'[u] \in Issuers
    BY <1>3, <2>1 DEF Inv1, TypeRest
  <2>6. TypeRest' /\ Grows
    BY <1>1, <1>3, <2>3, <2>4, <2>5 DEF Inv1, TypeRest, Grows, memory
  <2> QED BY <1>3, <2>6, FinishMoves, ForgetInv1
<1> QED BY <1>2, <1>3 DEF PutState

LEMMA GetStateInv1 == ASSUME Inv1, NEW w \in Procs, GetState(w) PROVE Inv1'
<1>1. requests' \in 0..MaxRequests /\ UNCHANGED <<now, crashes>>
  BY ArriveFacts DEF GetState
<1>2. CASE Refuse(w)
  BY <1>1, <1>2, RefuseFacts
<1>3. ASSUME NEW t \in bornTokens, NEW u \in bornTokens, NEW c \in Codes,
             NEW s \in Subjects, states[t] # None,
             \/ codes[c] # None /\ UNCHANGED codes
             \/ /\ codes[c] = None
                /\ codes' = [codes EXCEPT ![c] = [token |-> u, issuer |-> asked[u],
                                                  sub |-> s, used |-> FALSE]],
             Hold(w, [NoJob EXCEPT !.token = t, !.state = states[t], !.code = c]),
             Goto(w, "dropState"),
             UNCHANGED <<tables, memory, asked, history>>
      PROVE  Inv1'
  <2> DEFINE j == [NoJob EXCEPT !.token = t, !.state = states[t], !.code = c]
             n == [token |-> u, issuer |-> asked[u], sub |-> s, used |-> FALSE]
  <2>1. n \in Code
    BY DEF Code, Inv1, TypeRest
  <2>2. n # None
    BY <2>1, NoneAssumption
  <2>3. (codes[c] # None /\ UNCHANGED codes) \/ (codes[c] = None /\ codes' = [codes EXCEPT ![c] = n])
    BY <1>3
  <2> HIDE DEF n
  <2>4. /\ codes' \in [Codes -> Code \cup {None}]
        /\ codes'[c] # None
        /\ \A d \in Codes : codes[d] # None => codes'[d] # None
    <3>1. codes \in [Codes -> Code \cup {None}]
      BY DEF Inv1, TypeRest
    <3>2. CASE codes[c] = None /\ codes' = [codes EXCEPT ![c] = n]
      BY <2>1, <2>2, <3>1, <3>2
    <3>3. CASE codes[c] # None /\ UNCHANGED codes
      BY <3>1, <3>3
    <3> QED BY <2>3, <3>2, <3>3
  <2>5. t \in Tokens /\ states[t] \in State /\ bornTokens' = bornTokens
    BY <1>3 DEF Inv1, TypeRest, history
  <2>6. j \in Job /\ Holds("dropState", j, bornTokens', codes')
    BY <2>4, <2>5, NoJobType DEF Holds, Back, Past, Late, Job, NoJob
  <2>7. TypeRest' /\ Grows
    BY <1>1, <1>3, <2>4 DEF Inv1, TypeRest, Grows, tables, memory, history
  <2>8. Moves(w, "dropState", j)
    BY <1>3, HoldMoves
  <2> HIDE DEF j
  <2> QED BY <2>6, <2>7, <2>8, MoveInv1 DEF Labels
<1> QED BY <1>2, <1>3 DEF GetState

LEMMA DropStateInv1 == ASSUME Inv1, NEW w \in Procs, DropState(w) PROVE Inv1'
<1>1. /\ requests' \in 0..MaxRequests /\ UNCHANGED <<now, crashes>>
      /\ pc[w] = "dropState"
  BY AtFacts DEF DropState
<1>2. Moves(w, "check", job[w])
  BY StayMoves DEF DropState
<1>3. Me(w).token \in Tokens
  BY <1>1, ProcFacts DEF Holds, Back, Me, Inv1, TypeRest
<1>4. states' \in [Tokens -> State \cup {None}] /\ kept' \subseteq Tokens
  BY <1>3 DEF DropState, Inv1, TypeRest
<1>5. TypeRest' /\ Grows
  BY <1>1, <1>4 DEF DropState, Inv1, TypeRest, Grows, memory, outside
<1>6. job[w] \in Job /\ Holds("check", job[w], bornTokens', codes')
  BY <1>1, <1>5, ProcFacts DEF Holds, Back, Past, Late, DropState, outside
<1> QED BY <1>2, <1>5, <1>6, MoveInv1 DEF Labels

\* An answer that refuses the sign-in.
LEMMA RejectFacts ==
    ASSUME Inv1, NEW w \in Procs, pc[w] \in Back, Reject(w), UNCHANGED <<now, crashes>>,
           requests' \in 0..MaxRequests
    PROVE  Moves(w, "idle", NoJob) /\ Inv1'
<1>1. Moves(w, "idle", NoJob)
  BY FinishMoves DEF Reject, Answer
<1>2. Me(w).token \in Tokens
  BY ProcFacts DEF Holds, Me, Inv1, TypeRest
<1>3. answered' \subseteq Tokens
  BY <1>2 DEF Reject, Answer, Inv1, TypeRest
<1>4. TypeRest' /\ Grows
  BY <1>3 DEF Reject, Inv1, TypeRest, Grows, tables, memory, outside
<1> QED BY <1>1, <1>4, ForgetInv1

LEMMA CheckInv1 == ASSUME Inv1, NEW w \in Procs, Check(w) PROVE Inv1'
<1>1. requests' \in 0..MaxRequests /\ UNCHANGED <<now, crashes>> /\ pc[w] = "check"
  BY AtFacts DEF Check
<1>2. CASE Reject(w)
  BY <1>1, <1>2, RejectFacts DEF Back, Past
<1>3. CASE /\ resolved[Me(w).state.prov] # None
           /\ job' = [job EXCEPT ![w].row = resolved[Me(w).state.prov]]
           /\ Goto(w, "exchange")
           /\ UNCHANGED <<tables, memory, outside, history>>
  <2> DEFINE p == resolved[job[w].state.prov]
             j == [job[w] EXCEPT !.row = p]
  <2>1. p \in Provider
    BY <1>1, <1>3, ProcFacts DEF Holds, Back, Past, Me, State, Inv1, TypeRest
  <2>2. bornTokens' = bornTokens /\ codes' = codes
    BY <1>3 DEF outside, history
  <2>3. job[w] \in Job /\ Holds("check", job[w], bornTokens, codes)
    BY <1>1, ProcFacts
  <2>4. Moves(w, "exchange", j)
    BY <1>3 DEF Goto, Moves, Me, Inv1, TypeReq
  <2> HIDE DEF p
  <2>5. /\ j \in Job /\ j.row = p /\ j.token = job[w].token
        /\ j.state = job[w].state /\ j.code = job[w].code
    BY <2>1, <2>3 DEF Job
  <2>6. Holds("exchange", j, bornTokens', codes')
    BY <2>1, <2>2, <2>3, <2>5 DEF Holds, Back, Past, Late
  <2>7. TypeRest' /\ Grows
    BY <1>1, <1>3, QuietRest DEF Quiet
  <2> HIDE DEF j
  <2> QED BY <2>4, <2>5, <2>6, <2>7, MoveInv1 DEF Labels
<1> QED BY <1>2, <1>3 DEF Check

LEMMA ExchangeInv1 == ASSUME Inv1, NEW w \in Procs, Exchange(w) PROVE Inv1'
<1>1. requests' \in 0..MaxRequests /\ UNCHANGED <<now, crashes>> /\ pc[w] = "exchange"
  BY AtFacts DEF Exchange
<1>2. CASE Reject(w)
  BY <1>1, <1>2, RejectFacts DEF Back, Past, Late
<1>3. CASE /\ codes' = [codes EXCEPT ![Me(w).code].used = TRUE] /\ UNCHANGED asked
           /\ Stay(w, "account")
           /\ UNCHANGED <<tables, memory, history>>
  <2>1. job[w] \in Job /\ Holds("exchange", job[w], bornTokens, codes)
    BY <1>1, ProcFacts
  <2>2. Me(w).code \in Codes /\ codes[Me(w).code] \in Code
    BY <2>1 DEF Holds, Back, Past, Late, Me, Inv1, TypeRest
  <2>3. [codes[Me(w).code] EXCEPT !.used = TRUE] \in Code
    BY <2>2 DEF Code
  <2>4. /\ codes' \in [Codes -> Code \cup {None}]
        /\ \A d \in Codes : codes[d] # None => codes'[d] # None
    BY <1>3, <2>2, <2>3, NoneAssumption DEF Inv1, TypeRest
  <2>5. TypeRest' /\ Grows
    BY <1>1, <1>3, <2>4 DEF Inv1, TypeRest, Grows, tables, memory, history
  <2>6. Holds("account", job[w], bornTokens', codes')
    BY <2>1, <2>5 DEF Holds, Back, Past, Late, Grows
  <2>7. Moves(w, "account", job[w])
    BY <1>3, StayMoves
  <2> QED BY <2>1, <2>5, <2>6, <2>7, MoveInv1 DEF Labels
<1> QED BY <1>2, <1>3 DEF Exchange

\* A sign-in to an account that is of its type.
LEMMA SignInFacts ==
    ASSUME Inv1, NEW w \in Procs, pc[w] \in Back, NEW a \in Account, SignIn(w, a),
           accounts' \subseteq Account, UNCHANGED <<rows, states, memory, outside>>,
           UNCHANGED <<now, crashes>>, requests' \in 0..MaxRequests
    PROVE  Moves(w, "idle", NoJob) /\ Inv1'
<1>1. Moves(w, "idle", NoJob)
  BY FinishMoves DEF SignIn, Answer
<1>2. Me(w).token \in Tokens /\ codes[Me(w).code] \in Code
  BY ProcFacts DEF Holds, Me, Inv1, TypeRest
<1>3. answered' \subseteq Tokens
  BY <1>2 DEF SignIn, Answer, Inv1, TypeRest
<1>4. <<a, codes[Me(w).code].issuer>> \in Account \X Issuers
  BY <1>2 DEF Code
<1>5. signIns' \subseteq Account \X Issuers
  BY <1>4 DEF SignIn, Inv1, TypeRest
<1>6. TypeRest' /\ Grows
  BY <1>3, <1>5 DEF SignIn, Inv1, TypeRest, Grows, memory, outside
<1> QED BY <1>1, <1>6, ForgetInv1

LEMMA FindAccountInv1 == ASSUME Inv1, NEW w \in Procs, FindAccount(w) PROVE Inv1'
<1>1. requests' \in 0..MaxRequests /\ UNCHANGED <<now, crashes>> /\ pc[w] = "account"
  BY AtFacts DEF FindAccount
<1>2. CASE Reject(w)
  BY <1>1, <1>2, RejectFacts DEF Back, Past, Late
<1>3. ASSUME NEW a \in accounts, SignIn(w, a), UNCHANGED <<tables, memory, outside>>
      PROVE  Inv1'
  BY <1>1, <1>3, SignInFacts DEF Back, Past, Late, tables, Inv1, TypeRest
<1>4. CASE Stay(w, "provision") /\ UNCHANGED <<tables, memory, outside, history>>
  <2>1. job[w] \in Job /\ Holds("account", job[w], bornTokens, codes)
    BY <1>1, ProcFacts
  <2>2. TypeRest' /\ Grows
    BY <1>1, <1>4, QuietRest DEF Quiet
  <2>3. Holds("provision", job[w], bornTokens', codes')
    BY <2>1, <2>2 DEF Holds, Back, Past, Late, Grows
  <2> QED BY <1>4, <2>1, <2>2, <2>3, StayMoves, MoveInv1 DEF Labels
<1> QED BY <1>2, <1>3, <1>4 DEF FindAccount

LEMMA ProvisionInv1 == ASSUME Inv1, NEW w \in Procs, Provision(w) PROVE Inv1'
<1> DEFINE a == [name |-> Me(w).row.name, sub |-> codes[Me(w).code].sub,
                 origin |-> codes[Me(w).code].issuer]
<1>1. requests' \in 0..MaxRequests /\ UNCHANGED <<now, crashes>> /\ pc[w] = "provision"
  BY AtFacts DEF Provision
<1>2. CASE Reject(w)
  BY <1>1, <1>2, RejectFacts DEF Back, Past, Late
<1>3. CASE /\ accounts' = accounts \cup {a} /\ SignIn(w, a)
           /\ UNCHANGED <<rows, states, memory, outside>>
  <2>1. Me(w).row \in Provider /\ codes[Me(w).code] \in Code
    BY <1>1, ProcFacts DEF Holds, Back, Past, Late, Me, Inv1, TypeRest
  <2>2. a \in Account
    BY <2>1 DEF Account, Provider, Code
  <2>3. accounts' \subseteq Account
    BY <1>3, <2>2 DEF Inv1, TypeRest
  <2> HIDE DEF a
  <2> QED BY <1>1, <1>3, <2>2, <2>3, SignInFacts DEF Back, Past, Late
<1> QED BY <1>2, <1>3 DEF Provision

LEMMA TickInv1 == ASSUME Inv1, Tick PROVE Inv1'
<1>1. now' \in Time
  BY BoundsAssumption DEF Tick, Inv1, TypeRest, Time
<1>2. TypeRest'
  BY <1>1 DEF Tick, Inv1, TypeRest, tables, memory, outside, history
<1>3. UNCHANGED <<pc, job, bornTokens, codes>>
  BY DEF Tick, outside, history
<1> QED BY <1>2, <1>3 DEF Inv1, TypeReq, Locals

\* After a start only the boot goroutine has something to do.
LEMMA StartLocals ==
    ASSUME pc' = BootPc, job' = BootJob
    PROVE  TypeReq' /\ Locals'
<1>1. pc' \in [Procs -> Labels] /\ job' \in [Procs -> Job]
  BY NoJobType DEF BootPc, BootJob, Labels
<1>2. \A w \in Procs : pc'[w] \in {"idle", "list"}
  BY DEF BootPc
<1> QED BY <1>1, <1>2 DEF TypeReq, Locals, Holds, Back, Past, Late

LEMMA CrashInv1 == ASSUME Inv1, Crash PROVE Inv1'
<1>1. TypeReq' /\ Locals'
  BY StartLocals DEF Crash
<1>2. resolved' \in [Ids -> Provider \cup {None}] /\ crashes' \in 0..MaxCrashes
  BY BoundsAssumption DEF Crash, NoRows, Inv1, TypeRest
<1>3. TypeRest'
  BY <1>2 DEF Crash, Inv1, TypeRest, tables, outside
<1> QED BY <1>1, <1>3 DEF Inv1

LEMMA InitInv1 == Init => Inv1
<1> SUFFICES ASSUME Init PROVE Inv1
  OBVIOUS
<1>1. TypeReq /\ Locals
  <2>1. pc \in [Procs -> Labels] /\ job \in [Procs -> Job]
    BY NoJobType DEF Init, BootPc, BootJob, Labels
  <2>2. \A w \in Procs : pc[w] \in {"idle", "list"}
    BY DEF Init, BootPc
  <2> QED BY <2>1, <2>2 DEF TypeReq, Locals, Holds, Back, Past, Late
<1>2. \A i \in Ids : rows[i] # None => /\ rows[i] \in Provider
                                       /\ rows[i].name \in Names /\ rows[i].issuer \in Issuers
  BY OffersAssumption DEF Init, Provider
<1>3. rows \in [Ids -> Provider \cup {None}]
  BY OffersAssumption DEF Init
<1>4. accounts \subseteq Account
  BY <1>2 DEF Init, Account
<1>5. named \subseteq Names \X Issuers
  BY <1>2 DEF Init
<1>6. 0 \in Time /\ 0 \in 0..MaxRequests /\ 0 \in 0..MaxCrashes
  BY BoundsAssumption DEF Time
<1>7. TypeRest
  BY <1>3, <1>4, <1>5, <1>6 DEF Init, TypeRest, NoRows
<1> QED BY <1>1, <1>7 DEF Inv1

LEMMA StepInv1 == Inv1 /\ [Next]_vars => Inv1'
<1> SUFFICES ASSUME Inv1, [Next]_vars PROVE Inv1'
  OBVIOUS
<1>1. CASE UNCHANGED vars
  BY <1>1 DEF vars, tables, memory, history, outside, Inv1, TypeReq, TypeRest, Locals
<1>2. ASSUME NEW w \in Procs, Request(w) PROVE Inv1'
  BY <1>2, CreateInv1, GetRowInv1, DeleteRowInv1, LookupInv1, GetStateInv1 DEF Request
<1>3. ASSUME NEW w \in Procs, Advance(w) PROVE Inv1'
  BY <1>3, PutRowInv1, ListInv1, InstallInv1, PutStateInv1, DropStateInv1, CheckInv1,
     ExchangeInv1, FindAccountInv1, ProvisionInv1 DEF Advance
<1> QED BY <1>1, <1>2, <1>3, TickInv1, CrashInv1 DEF Next

(***************************************************************************)
(* Whatever fails and whenever the process restarts, every request and     *)
(* every table holds what its code expects there.                          *)
(***************************************************************************)
THEOREM TypeOKCorrect == Spec => []TypeOK
<1>1. Spec => []Inv1
  BY InitInv1, StepInv1, PTL DEF Spec
<1> QED BY <1>1, Inv1Type, PTL

-----------------------------------------------------------------------------
(***************************************************************************)
(* The state token.  A token that a callback has got past the deletion of, *)
(* or has been answered for, is gone from the table for good, unless its   *)
(* deletion failed.                                                        *)
(***************************************************************************)

Spent(t) == t \in bornTokens /\ (t \in kept \/ states[t] = None)

StatesBorn  == \A t \in Tokens : states[t] # None => t \in bornTokens
PastSpent   == \A w \in Procs : pc[w] \in Past => Spent(job[w].token)
AnswerSpent == \A t \in answered : Spent(t)

Inv2 == StatesBorn /\ PastSpent /\ AnswerSpent

tokens == <<states, bornTokens, kept>>

\* A step that leaves the tokens alone and brings nobody past the deletion.
LEMMA QuietInv2 ==
    ASSUME Inv1, Inv2, NEW w \in Procs, NEW l, NEW j, Moves(w, l, j),
           l \in Past => (pc[w] \in Past /\ j.token = job[w].token),
           UNCHANGED <<tokens, answered>>
    PROVE  Inv2'
<1>1. ASSUME NEW v \in Procs, pc'[v] \in Past
      PROVE  Spent(job[v].token)'
  <2>1. pc[v] \in Past /\ job'[v].token = job[v].token
    BY <1>1, MovesFacts
  <2> QED BY <2>1 DEF Inv2, PastSpent, Spent, tokens
<1>2. StatesBorn' /\ AnswerSpent'
  BY DEF Inv2, StatesBorn, AnswerSpent, Spent, tokens
<1> QED BY <1>1, <1>2 DEF Inv2, PastSpent

LEMMA RefuseInv2 ==
    ASSUME Inv1, Inv2, NEW w \in Procs, Refuse(w)
    PROVE  Inv2'
BY FinishMoves, QuietInv2 DEF Refuse, Past, Late, tables, history, tokens

\* An answer, which comes after the deletion.
LEMMA AnswerInv2 ==
    ASSUME Inv1, Inv2, NEW w \in Procs, pc[w] \in Past, Answer(w), UNCHANGED tokens
    PROVE  Inv2'
<1>1. Moves(w, "idle", NoJob)
  BY FinishMoves DEF Answer
<1>2. Spent(job[w].token)
  BY DEF Inv2, PastSpent
<1>3. AnswerSpent'
  BY <1>2 DEF Answer, Me, Inv2, AnswerSpent, Spent, tokens
<1>4. PastSpent'
  BY <1>1, MovesFacts DEF Inv2, PastSpent, Spent, tokens, Past, Late
<1> QED BY <1>3, <1>4 DEF Inv2, StatesBorn, tokens

LEMMA RequestInv2 == ASSUME Inv1, Inv2, NEW w \in Procs, Request(w) PROVE Inv2'
<1>1. CASE Refuse(w)
  BY <1>1, RefuseInv2
<1>2. ASSUME NEW i, NEW p, Store(w, i, p), Reload(w)
      PROVE  Inv2'
  BY <1>2, ReloadMoves, QuietInv2 DEF Store, Past, Late, tokens
<1>3. ASSUME NEW j, NEW l \in {"putRow", "putState", "dropState"}, Hold(w, j), Goto(w, l),
             UNCHANGED <<tables, history>>
      PROVE  Inv2'
  BY <1>3, HoldMoves, QuietInv2 DEF Past, Late, tables, history, tokens
<1>4. CASE /\ Reload(w)
           /\ UNCHANGED <<states, accounts, memory, outside, bornIds, bornTokens,
                          named, answered, kept, lost, signIns>>
  BY <1>4, ReloadMoves, QuietInv2 DEF Past, Late, tokens
<1>5. CASE Create(w)
  BY <1>1, <1>2, <1>5 DEF Create
<1>6. CASE GetRow(w)
  BY <1>1, <1>3, <1>6 DEF GetRow
<1>7. CASE DeleteRow(w)
  BY <1>1, <1>4, <1>7 DEF DeleteRow
<1>8. CASE Lookup(w)
  BY <1>1, <1>3, <1>8 DEF Lookup
<1>9. CASE GetState(w)
  BY <1>1, <1>3, <1>9 DEF GetState
<1> QED BY <1>5, <1>6, <1>7, <1>8, <1>9 DEF Request

LEMMA PutRowInv2 == ASSUME Inv1, Inv2, NEW w \in Procs, PutRow(w) PROVE Inv2'
<1>1. CASE Refuse(w)
  BY <1>1, RefuseInv2
<1>2. CASE Reload(w) /\ UNCHANGED <<tokens, answered>>
  BY <1>2, ReloadMoves, QuietInv2 DEF Past, Late
<1> QED BY <1>1, <1>2 DEF PutRow, Store, tables, history, tokens

LEMMA ListInv2 == ASSUME Inv1, Inv2, NEW w \in Procs, List(w) PROVE Inv2'
<1>1. UNCHANGED <<tokens, answered>>
  BY DEF List, tables, history, tokens
<1>2. CASE Finish(w)
  BY <1>1, <1>2, FinishMoves, QuietInv2 DEF Past, Late
<1>3. CASE job' = [job EXCEPT ![w].listed = rows] /\ Goto(w, "install")
  <2>1. Moves(w, "install", [job[w] EXCEPT !.listed = rows])
    BY <1>3 DEF Goto, Moves, Inv1, TypeReq
  <2> QED BY <1>1, <2>1, QuietInv2 DEF Past, Late
<1> QED BY <1>2, <1>3 DEF List

LEMMA PutStateInv2 == ASSUME Inv1, Inv2, NEW w \in Procs, PutState(w) PROVE Inv2'
<1>1. CASE Refuse(w)
  BY <1>1, RefuseInv2
<1>2. ASSUME NEW t \in Tokens \ bornTokens, states' = [states EXCEPT ![t] = NewState(w)],
             bornTokens' = bornTokens \cup {t}, Finish(w), UNCHANGED <<kept, answered>>
      PROVE  Inv2'
  <2>1. \A u \in Tokens : u # t => states'[u] = states[u]
    BY <1>2 DEF Inv1, TypeRest
  <2>2. \A u : Spent(u) => Spent(u)'
    BY <1>2, <2>1 DEF Spent, Inv1, TypeRest
  <2>3. StatesBorn'
    BY <1>2, <2>1 DEF Inv2, StatesBorn
  <2>4. AnswerSpent'
    BY <1>2, <2>2 DEF Inv2, AnswerSpent
  <2>5. ASSUME NEW v \in Procs, pc'[v] \in Past
        PROVE  Spent(job[v].token)'
    <3>1. pc[v] \in Past /\ job'[v] = job[v]
      BY <1>2, <2>5, FinishMoves, MovesFacts DEF Past, Late
    <3> QED BY <2>2, <3>1 DEF Inv2, PastSpent, Spent
  <2> QED BY <2>3, <2>4, <2>5 DEF Inv2, PastSpent
<1> QED BY <1>1, <1>2 DEF PutState

LEMMA DropStateInv2 == ASSUME Inv1, Inv2, NEW w \in Procs, DropState(w) PROVE Inv2'
<1> DEFINE t == Me(w).token
<1>1. pc[w] = "dropState" /\ Moves(w, "check", job[w])
  BY StayMoves DEF DropState, At
<1>2. t \in bornTokens /\ t \in Tokens
  BY <1>1, ProcFacts DEF Holds, Back, Me, Inv1, TypeRest
<1>3. UNCHANGED <<bornTokens, answered>>
  BY DEF DropState
<1>4. \/ states' = [states EXCEPT ![t] = None] /\ UNCHANGED kept
      \/ UNCHANGED states /\ kept' = kept \cup {t}
  BY DEF DropState
<1> HIDE DEF t
<1>5. \A u : (Spent(u) \/ u = t) => Spent(u)'
  BY <1>2, <1>3, <1>4 DEF Spent, Inv1, TypeRest
<1>6. StatesBorn'
  BY <1>2, <1>3, <1>4 DEF Inv2, StatesBorn, Inv1, TypeRest
<1>7. AnswerSpent'
  BY <1>3, <1>5 DEF Inv2, AnswerSpent
<1>8. ASSUME NEW v \in Procs, pc'[v] \in Past
      PROVE  Spent(job[v].token)'
  <2>1. CASE v = w
    BY <1>1, <1>5, <2>1, MovesFacts DEF Me, t, Spent
  <2>2. CASE v # w
    <3>1. pc[v] \in Past /\ job'[v] = job[v]
      BY <1>1, <1>8, <2>2, MovesFacts
    <3> QED BY <1>5, <3>1 DEF Inv2, PastSpent, Spent
  <2> QED BY <2>1, <2>2
<1> QED BY <1>6, <1>7, <1>8 DEF Inv2, PastSpent

\* The steps after the deletion.
LEMMA PastInv2 ==
    ASSUME Inv1, Inv2, NEW w \in Procs,
           Check(w) \/ Exchange(w) \/ FindAccount(w) \/ Provision(w)
    PROVE  Inv2'
<1>1. pc[w] \in Past /\ UNCHANGED tokens
  BY DEF Check, Exchange, FindAccount, Provision, Reject, SignIn, At, Past, Late,
         tables, history, tokens
<1>2. CASE Answer(w)
  BY <1>1, <1>2, AnswerInv2
<1>3. ASSUME NEW l, Stay(w, l), UNCHANGED history
      PROVE  Inv2'
  BY <1>1, <1>3, StayMoves, QuietInv2 DEF history
<1>4. ASSUME NEW p, job' = [job EXCEPT ![w].row = p], Goto(w, "exchange"),
             UNCHANGED history
      PROVE  Inv2'
  <2>1. Moves(w, "exchange", [job[w] EXCEPT !.row = p])
    BY <1>4 DEF Goto, Moves, Inv1, TypeReq
  <2>2. [job[w] EXCEPT !.row = p].token = job[w].token
    BY ProcFacts DEF Job
  <2> QED BY <1>1, <1>4, <2>1, <2>2, QuietInv2 DEF history
<1> QED BY <1>2, <1>3, <1>4 DEF Check, Exchange, FindAccount, Provision, Reject, SignIn

LEMMA StepInv2 == Inv1 /\ Inv2 /\ [Next]_vars => Inv2'
<1> SUFFICES ASSUME Inv1, Inv2, [Next]_vars PROVE Inv2'
  OBVIOUS
<1>1. CASE UNCHANGED vars \/ Tick
  <2>1. UNCHANGED <<tokens, answered, pc, job>>
    BY <1>1 DEF vars, tables, history, tokens, Tick
  <2> QED BY <2>1 DEF Inv2, StatesBorn, PastSpent, AnswerSpent, Spent, tokens
<1>2. CASE Crash
  <2>1. UNCHANGED <<tokens, answered>> /\ pc' = BootPc
    BY <1>2 DEF Crash, tables, tokens
  <2>2. \A w \in Procs : pc'[w] \notin Past
    BY <2>1 DEF BootPc, Past, Late
  <2> QED BY <2>1, <2>2 DEF Inv2, StatesBorn, PastSpent, AnswerSpent, Spent, tokens
<1>3. ASSUME NEW w \in Procs, Advance(w) PROVE Inv2'
  <2>1. CASE Install(w)
    BY <2>1, FinishMoves, QuietInv2 DEF Install, Past, Late, tables, tokens
  <2> QED BY <1>3, <2>1, PutRowInv2, ListInv2, PutStateInv2, DropStateInv2, PastInv2
          DEF Advance
<1> QED BY <1>1, <1>2, <1>3, RequestInv2 DEF Next

LEMMA InitInv2 == Init => Inv2
<1> SUFFICES ASSUME Init PROVE Inv2
  OBVIOUS
<1>1. \A w \in Procs : pc[w] \notin Past
  BY DEF Init, BootPc, Past, Late
<1> QED BY <1>1 DEF Init, Inv2, StatesBorn, PastSpent, AnswerSpent

\* A goroutine that does not take the step stays where it is.
LEMMA OthersStay ==
    ASSUME NEW w \in Procs, Request(w) \/ Advance(w)
    PROVE  \E l : Goto(w, l)
BY DEF Request, Advance, Create, GetRow, DeleteRow, Lookup, GetState, PutRow, List,
       Install, PutState, DropState, Check, Exchange, FindAccount, Provision,
       Reject, SignIn, Answer, Refuse, Reload, Finish, Stay

\* Only GetState brings an idle goroutine to the deletion of a token.
LEMMA FoundState ==
    ASSUME Inv1, NEW w \in Procs, pc[w] = "idle", pc'[w] = "dropState", [Next]_vars
    PROVE  GetState(w)
<1>1. pc \in [Procs -> Labels]
  BY DEF Inv1, TypeReq
<1>2. CASE UNCHANGED vars \/ Tick \/ Crash
  BY <1>1, <1>2 DEF vars, Tick, Crash, BootPc
<1>3. ASSUME NEW v \in Procs, Request(v) \/ Advance(v) PROVE v = w
  BY <1>1, <1>3, OthersStay DEF Goto
<1>4. CASE Advance(w)
  BY <1>4 DEF Advance, PutRow, List, Install, PutState, DropState, Check, Exchange,
              FindAccount, Provision, At
<1>5. ASSUME NEW l, Goto(w, l) PROVE l = "dropState"
  BY <1>1, <1>5 DEF Goto
<1>6. ~Create(w) /\ ~GetRow(w) /\ ~DeleteRow(w) /\ ~Lookup(w)
  BY <1>5 DEF Create, GetRow, DeleteRow, Lookup, Refuse, Reload, Finish
<1> QED BY <1>2, <1>3, <1>4, <1>6 DEF Next, Request

(***************************************************************************)
(* HandleCallback: whatever the interleaving of callbacks, a token whose   *)
(* callback has been answered is not found again.                          *)
(***************************************************************************)
THEOREM SpentRefusedCorrect == Spec => SpentRefused
<1> DEFINE Refused(w) == (pc[w] = "idle" /\ pc'[w] = "dropState") =>
                            job'[w].token \notin answered \ kept
<1>1. Spec => [](Inv1 /\ Inv2)
  BY InitInv1, InitInv2, StepInv1, StepInv2, PTL DEF Spec
<1>2. ASSUME Inv1, Inv2, [Next]_vars, NEW w \in Workers PROVE Refused(w)
  <2> SUFFICES ASSUME pc[w] = "idle", pc'[w] = "dropState"
               PROVE  job'[w].token \notin answered \ kept
    OBVIOUS
  <2>1. w \in Procs /\ GetState(w)
    BY <1>2, FoundState DEF Procs
  <2>2. ~Refuse(w)
    BY <1>2, <2>1 DEF Refuse, Finish, Goto, Inv1, TypeReq
  <2>3. PICK t \in bornTokens, c \in Codes :
           /\ states[t] # None
           /\ Hold(w, [NoJob EXCEPT !.token = t, !.state = states[t], !.code = c])
    BY <2>1, <2>2 DEF GetState
  <2>4. job'[w].token = t
    BY <1>2, <2>1, <2>3 DEF Hold, NoJob, Inv1, TypeReq
  <2> QED BY <1>2, <2>3, <2>4 DEF Inv2, AnswerSpent, Spent
<1>3. Inv1 /\ Inv2 /\ [Next]_vars => [\A w \in Workers : Refused(w)]_vars
  BY <1>2
<1> QED BY <1>1, <1>3, PTL DEF Spec, SpentRefused

-----------------------------------------------------------------------------
(***************************************************************************)
(* The providers in memory.  A list about to be installed is that of the   *)
(* rows, and between two reloads the map is.                               *)
(***************************************************************************)

Current == \A i \in Ids : resolved[i] # None => rows[i] = resolved[i] /\ rows[i].enabled

ListFresh  == ~mixed => \A w \in Procs : pc[w] = "install" => job[w].listed = rows
Reloading  == \E w \in Procs : pc[w] \in {"list", "install"}
MapCurrent == (~mixed /\ ~lost) => (Current \/ Reloading)

Inv3 == ListFresh /\ MapCurrent

providers == <<rows, resolved, mixed, lost>>

\* A step of a goroutine that is in no reload, or leaves to list the rows.
LEMMA QuietInv3 ==
    ASSUME Inv1, Inv3, NEW w \in Procs, NEW l, NEW j, Moves(w, l, j),
           l # "install", pc[w] \notin {"list", "install"}, UNCHANGED providers
    PROVE  Inv3'
<1>1. \A v \in Procs \ {w} : pc'[v] = pc[v] /\ job'[v] = job[v]
  BY MovesFacts
<1>2. pc'[w] = l
  BY MovesFacts
<1>3. ListFresh'
  BY <1>1, <1>2 DEF Inv3, ListFresh, providers
<1>4. Reloading => Reloading'
  BY <1>1 DEF Reloading
<1>5. MapCurrent'
  BY <1>4 DEF Inv3, MapCurrent, Current, providers
<1> QED BY <1>3, <1>5 DEF Inv3

LEMMA RefuseInv3 ==
    ASSUME Inv1, Inv3, NEW w \in Procs, pc[w] \notin {"list", "install"}, Refuse(w)
    PROVE  Inv3'
BY FinishMoves, QuietInv3 DEF Refuse, tables, memory, history, providers

\* The rows change and the goroutine that changed them goes on to list them.
LEMMA ChangeInv3 ==
    ASSUME Inv1, Inv3, NEW w \in Procs, Reload(w), mixed' = (mixed \/ OtherReload(w))
    PROVE  Inv3'
<1>1. pc'[w] = "list" /\ \A v \in Procs \ {w} : pc'[v] = pc[v]
  BY ReloadMoves, MovesFacts
<1>2. ~mixed' => \A v \in Procs : pc'[v] # "install"
  BY <1>1 DEF OtherReload
<1> QED BY <1>1, <1>2 DEF Inv3, ListFresh, MapCurrent, Reloading

LEMMA RequestInv3 == ASSUME Inv1, Inv3, NEW w \in Procs, Request(w) PROVE Inv3'
<1> pc[w] = "idle"
  BY DEF Request, Create, GetRow, DeleteRow, Lookup, GetState, Arrive
<1>1. CASE Refuse(w)
  BY <1>1, RefuseInv3
<1>2. CASE Reload(w) /\ mixed' = (mixed \/ OtherReload(w))
  BY <1>2, ChangeInv3
<1>3. ASSUME NEW j, NEW l \in {"putRow", "putState", "dropState"}, Hold(w, j), Goto(w, l),
             UNCHANGED <<tables, memory, history>>
      PROVE  Inv3'
  BY <1>3, HoldMoves, QuietInv3 DEF tables, memory, history, providers
<1>4. CASE Create(w)
  BY <1>1, <1>2, <1>4 DEF Create, Store
<1>5. CASE GetRow(w)
  BY <1>1, <1>3, <1>5 DEF GetRow
<1>6. CASE DeleteRow(w)
  BY <1>1, <1>2, <1>6 DEF DeleteRow
<1>7. CASE Lookup(w)
  BY <1>1, <1>3, <1>7 DEF Lookup
<1>8. CASE GetState(w)
  BY <1>1, <1>3, <1>8 DEF GetState
<1> QED BY <1>4, <1>5, <1>6, <1>7, <1>8 DEF Request

LEMMA PutRowInv3 == ASSUME Inv1, Inv3, NEW w \in Procs, PutRow(w) PROVE Inv3'
<1> pc[w] = "putRow"
  BY DEF PutRow, At
<1>1. CASE Refuse(w)
  BY <1>1, RefuseInv3
<1>2. CASE Reload(w) /\ mixed' = (mixed \/ OtherReload(w))
  BY <1>2, ChangeInv3
<1>3. CASE Reload(w) /\ UNCHANGED <<tables, memory, history>>
  BY <1>3, ReloadMoves, QuietInv3 DEF tables, memory, history, providers
<1> QED BY <1>1, <1>2, <1>3 DEF PutRow, Store

LEMMA ListInv3 == ASSUME Inv1, Inv3, NEW w \in Procs, List(w) PROVE Inv3'
<1>1. CASE job' = [job EXCEPT ![w].listed = rows] /\ Goto(w, "install")
           /\ UNCHANGED <<tables, memory, history>>
  <2> DEFINE j == [job[w] EXCEPT !.listed = rows]
  <2>1. Moves(w, "install", j)
    BY <1>1 DEF Goto, Moves, Inv1, TypeReq
  <2>2. j.listed = rows
    BY ProcFacts DEF Job
  <2> HIDE DEF j
  <2>3. /\ pc'[w] = "install" /\ job'[w].listed = rows
        /\ \A v \in Procs \ {w} : pc'[v] = pc[v] /\ job'[v] = job[v]
    BY <2>1, <2>2, MovesFacts
  <2> QED BY <1>1, <2>3 DEF Inv3, ListFresh, MapCurrent, Reloading, tables, history
<1>2. CASE Finish(w) /\ lost' = TRUE /\ UNCHANGED <<tables, mixed>>
  <2>1. /\ pc'[w] = "idle"
        /\ \A v \in Procs \ {w} : pc'[v] = pc[v] /\ job'[v] = job[v]
    BY <1>2, FinishMoves, MovesFacts
  <2> QED BY <1>2, <2>1 DEF Inv3, ListFresh, MapCurrent, tables
<1> QED BY <1>1, <1>2 DEF List

LEMMA InstallInv3 == ASSUME Inv1, Inv3, NEW w \in Procs, Install(w) PROVE Inv3'
<1>1. /\ pc'[w] = "idle"
      /\ \A v \in Procs \ {w} : pc'[v] = pc[v] /\ job'[v] = job[v]
  BY FinishMoves, MovesFacts DEF Install
<1>2. UNCHANGED <<rows, mixed>> /\ pc[w] = "install"
  BY DEF Install, At, tables
<1>3. PICK failed \in SUBSET Ids : resolved' = Discovered(w, failed)
  BY DEF Install
<1>4. ASSUME ~mixed, NEW i \in Ids, resolved'[i] # None
      PROVE  rows[i] = resolved'[i] /\ rows[i].enabled
  <2>1. job[w].listed = rows
    BY <1>2, <1>4 DEF Inv3, ListFresh
  <2> QED BY <1>3, <1>4, <2>1 DEF Discovered, Me
<1>5. MapCurrent'
  BY <1>2, <1>4 DEF MapCurrent, Current
<1>6. ListFresh'
  BY <1>1, <1>2 DEF Inv3, ListFresh
<1> QED BY <1>5, <1>6 DEF Inv3

LEMMA SignInInv3 ==
    ASSUME Inv1, Inv3, NEW w \in Procs,
           PutState(w) \/ DropState(w) \/ Check(w) \/ Exchange(w) \/ FindAccount(w)
              \/ Provision(w)
    PROVE  Inv3'
<1>1. pc[w] \notin {"list", "install"}
  BY DEF PutState, DropState, Check, Exchange, FindAccount, Provision, At
<1>2. UNCHANGED providers
  BY DEF PutState, DropState, Check, Exchange, FindAccount, Provision, Refuse, Reject,
         SignIn, tables, memory, history, providers
<1>3. CASE Finish(w)
  BY <1>1, <1>2, <1>3, FinishMoves, QuietInv3
<1>4. ASSUME NEW l \in {"check", "account", "provision"}, Stay(w, l) PROVE Inv3'
  BY <1>1, <1>2, <1>4, StayMoves, QuietInv3
<1>5. ASSUME NEW p, job' = [job EXCEPT ![w].row = p], Goto(w, "exchange")
      PROVE  Inv3'
  <2>1. Moves(w, "exchange", [job[w] EXCEPT !.row = p])
    BY <1>5 DEF Goto, Moves, Inv1, TypeReq
  <2> QED BY <1>1, <1>2, <2>1, QuietInv3
<1> QED BY <1>3, <1>4, <1>5 DEF PutState, DropState, Check, Exchange, FindAccount,
                                Provision, Refuse, Reject, SignIn, Answer

LEMMA StepInv3 == Inv1 /\ Inv3 /\ [Next]_vars => Inv3'
<1> SUFFICES ASSUME Inv1, Inv3, [Next]_vars PROVE Inv3'
  OBVIOUS
<1>1. CASE UNCHANGED vars \/ Tick
  <2>1. UNCHANGED <<providers, pc, job>>
    BY <1>1 DEF vars, tables, memory, history, providers, Tick
  <2> QED BY <2>1 DEF Inv3, ListFresh, MapCurrent, Current, Reloading, providers
<1>2. CASE Crash
  <2>1. \A w \in Procs : pc'[w] # "install"
    BY <1>2 DEF Crash, BootPc
  <2>2. \A i \in Ids : resolved'[i] = None
    BY <1>2 DEF Crash, NoRows
  <2> QED BY <2>1, <2>2 DEF Inv3, ListFresh, MapCurrent, Current
<1>3. ASSUME NEW w \in Procs, Advance(w) PROVE Inv3'
  BY <1>3, PutRowInv3, ListInv3, InstallInv3, SignInInv3 DEF Advance
<1> QED BY <1>1, <1>2, <1>3, RequestInv3 DEF Next

LEMMA InitInv3 == Init => Inv3
BY DEF Init, BootPc, NoRows, Inv3, ListFresh, MapCurrent, Current

(***************************************************************************)
(* Reload: with any number of administrators and restarts, a sign-in uses  *)
(* a provider that was edited, disabled or deleted only in the cases that  *)
(* ResolvedCurrent excepts.                                                *)
(***************************************************************************)
THEOREM ResolvedCurrentCorrect == Spec => []ResolvedCurrent
<1>1. Spec => []Inv3
  BY InitInv1, InitInv3, StepInv1, StepInv3, PTL DEF Spec
<1>2. Inv3 => ResolvedCurrent
  BY DEF Inv3, MapCurrent, Current, Reloading, ResolvedCurrent, Settled
<1> QED BY <1>1, <1>2, PTL

-----------------------------------------------------------------------------
(***************************************************************************)
(* The issuer of an account.  Whatever carries a provider's name carries   *)
(* it with an issuer that the name was once configured for.                *)
(***************************************************************************)

\* What a request knows of names and issuers at each of its steps.
HoldsNamed(l, j, N, C) ==
    /\ l = "install" =>
          \A i \in Ids : j.listed[i] # None => <<j.listed[i].name, j.listed[i].issuer>> \in N
    /\ l \in Late => <<j.row.name, j.row.issuer>> \in N
    /\ l \in {"account", "provision"} => C[j.code].issuer = j.row.issuer

LocalsNamed == \A w \in Procs : HoldsNamed(pc[w], job[w], named, codes)

RowsNamed     == \A i \in Ids : rows[i] # None => <<rows[i].name, rows[i].issuer>> \in named
ResolvedNamed == \A i \in Ids : resolved[i] # None =>
                                <<resolved[i].name, resolved[i].issuer>> \in named
AccountsNamed == \A a \in accounts : <<a.name, a.origin>> \in named
SignInsNamed  == \A s \in signIns : <<s[1].name, s[1].origin>> \in named
                                   /\ <<s[1].name, s[2]>> \in named

Inv4Rest == RowsNamed /\ ResolvedNamed /\ AccountsNamed /\ SignInsNamed
Inv4     == LocalsNamed /\ Inv4Rest

\* The history only grows, and a code keeps its issuer.
NamedGrows == /\ named \subseteq named'
              /\ \A c \in Codes : codes[c] # None => codes'[c].issuer = codes[c].issuer

LEMMA MoveInv4 ==
    ASSUME Inv1, Inv4, NEW w \in Procs, NEW l, NEW j, Moves(w, l, j), NamedGrows,
           HoldsNamed(l, j, named', codes'), Inv4Rest'
    PROVE  Inv4'
<1>1. ASSUME NEW v \in Procs
      PROVE  HoldsNamed(pc'[v], job'[v], named', codes')
  <2>1. CASE v = w
    BY <2>1, MovesFacts
  <2>2. CASE v # w
    <3>1. pc'[v] = pc[v] /\ job'[v] = job[v]
      BY <2>2, MovesFacts
    <3>2. HoldsNamed(pc[v], job[v], named, codes) /\ Holds(pc[v], job[v], bornTokens, codes)
      BY ProcFacts DEF Inv4, LocalsNamed
    <3> QED BY <3>1, <3>2 DEF HoldsNamed, Holds, NamedGrows, Back, Past, Late
  <2> QED BY <2>1, <2>2
<1> QED BY <1>1 DEF Inv4, LocalsNamed

evidence == <<rows, resolved, accounts, signIns, named, codes>>

\* A step that changes neither providers nor accounts, to where nothing is
\* known of names.
LEMMA QuietInv4 ==
    ASSUME Inv1, Inv4, NEW w \in Procs, NEW l, NEW j, Moves(w, l, j),
           HoldsNamed(l, j, named, codes), UNCHANGED evidence
    PROVE  Inv4'
<1>1. Inv4Rest' /\ NamedGrows
  BY DEF Inv4, Inv4Rest, RowsNamed, ResolvedNamed, AccountsNamed, SignInsNamed,
         NamedGrows, evidence
<1>2. HoldsNamed(l, j, named', codes')
  BY DEF evidence
<1> QED BY <1>1, <1>2, MoveInv4

LEMMA EarlyNamed ==
    ASSUME NEW l \in {"idle", "list", "putRow", "putState", "dropState", "check"},
           NEW j, NEW N, NEW C
    PROVE  HoldsNamed(l, j, N, C)
BY DEF HoldsNamed, Late

LEMMA FinishInv4 ==
    ASSUME Inv1, Inv4, NEW w \in Procs, Finish(w), UNCHANGED evidence
    PROVE  Inv4'
BY FinishMoves, EarlyNamed, QuietInv4

\* A row is stored.
LEMMA StoreInv4 ==
    ASSUME Inv1, Inv4, NEW w \in Procs, NEW i, NEW p, Store(w, i, p), Reload(w)
    PROVE  Inv4'
<1>1. named' = named \cup {<<p.name, p.issuer>>} /\ rows' = [rows EXCEPT ![i] = p]
  BY DEF Store
<1>2. RowsNamed'
  BY <1>1 DEF Inv4, Inv4Rest, RowsNamed, Inv1, TypeRest
<1>3. Inv4Rest' /\ NamedGrows
  BY <1>1, <1>2 DEF Inv4, Inv4Rest, ResolvedNamed, AccountsNamed, SignInsNamed,
                    NamedGrows, Store, memory, outside
<1> QED BY <1>3, ReloadMoves, EarlyNamed, MoveInv4

LEMMA DeleteRowInv4 == ASSUME Inv1, Inv4, NEW w \in Procs, DeleteRow(w) PROVE Inv4'
<1>1. CASE Refuse(w)
  BY <1>1, FinishInv4 DEF Refuse, tables, memory, outside, history, evidence
<1>2. ASSUME NEW i \in bornIds, rows' = [rows EXCEPT ![i] = None], Reload(w),
             UNCHANGED <<states, accounts, memory, outside, bornIds, bornTokens,
                         named, answered, kept, lost, signIns>>
      PROVE  Inv4'
  <2>1. RowsNamed'
    BY <1>2 DEF Inv4, Inv4Rest, RowsNamed, Inv1, TypeRest
  <2>2. Inv4Rest' /\ NamedGrows
    BY <1>2, <2>1 DEF Inv4, Inv4Rest, ResolvedNamed, AccountsNamed, SignInsNamed,
                      NamedGrows, memory, outside
  <2> QED BY <1>2, <2>2, ReloadMoves, EarlyNamed, MoveInv4
<1> QED BY <1>1, <1>2 DEF DeleteRow

LEMMA GetStateInv4 == ASSUME Inv1, Inv4, NEW w \in Procs, GetState(w) PROVE Inv4'
<1>1. CASE Refuse(w)
  BY <1>1, FinishInv4 DEF Refuse, tables, memory, outside, history, evidence
<1>2. ASSUME NEW t, NEW c \in Codes, NEW n,
             \/ UNCHANGED codes
             \/ codes[c] = None /\ codes' = [codes EXCEPT ![c] = n],
             Hold(w, [NoJob EXCEPT !.token = t, !.state = states[t], !.code = c]),
             Goto(w, "dropState"), UNCHANGED <<tables, memory, asked, history>>
      PROVE  Inv4'
  <2>1. Inv4Rest'
    BY <1>2 DEF Inv4, Inv4Rest, RowsNamed, ResolvedNamed, AccountsNamed, SignInsNamed,
                tables, memory, history
  <2>2. NamedGrows
    BY <1>2 DEF NamedGrows, Inv1, TypeRest, history
  <2> QED BY <1>2, <2>1, <2>2, HoldMoves, EarlyNamed, MoveInv4
<1> QED BY <1>1, <1>2 DEF GetState

LEMMA RequestInv4 == ASSUME Inv1, Inv4, NEW w \in Procs, Request(w) PROVE Inv4'
<1>1. CASE Refuse(w)
  BY <1>1, FinishInv4 DEF Refuse, tables, memory, outside, history, evidence
<1>2. ASSUME NEW j, NEW l \in {"putRow", "putState"}, Hold(w, j), Goto(w, l),
             UNCHANGED <<tables, memory, outside, history>>
      PROVE  Inv4'
  BY <1>2, HoldMoves, EarlyNamed, QuietInv4 DEF tables, memory, outside, history, evidence
<1>3. CASE Create(w)
  BY <1>1, <1>3, StoreInv4 DEF Create
<1>4. CASE GetRow(w)
  BY <1>1, <1>2, <1>4 DEF GetRow
<1>5. CASE Lookup(w)
  BY <1>1, <1>2, <1>5 DEF Lookup
<1> QED BY <1>3, <1>4, <1>5, DeleteRowInv4, GetStateInv4 DEF Request

LEMMA PutRowInv4 == ASSUME Inv1, Inv4, NEW w \in Procs, PutRow(w) PROVE Inv4'
<1>1. CASE Refuse(w)
  BY <1>1, FinishInv4 DEF Refuse, tables, memory, outside, history, evidence
<1>2. CASE Reload(w) /\ UNCHANGED <<tables, memory, outside, history>>
  BY <1>2, ReloadMoves, EarlyNamed, QuietInv4 DEF tables, memory, outside, history, evidence
<1> QED BY <1>1, <1>2, StoreInv4 DEF PutRow

LEMMA ListInv4 == ASSUME Inv1, Inv4, NEW w \in Procs, List(w) PROVE Inv4'
<1>1. CASE job' = [job EXCEPT ![w].listed = rows] /\ Goto(w, "install")
           /\ UNCHANGED <<tables, memory, outside, history>>
  <2> DEFINE j == [job[w] EXCEPT !.listed = rows]
  <2>1. Moves(w, "install", j)
    BY <1>1 DEF Goto, Moves, Inv1, TypeReq
  <2>2. j.listed = rows
    BY ProcFacts DEF Job
  <2> HIDE DEF j
  <2>3. HoldsNamed("install", j, named, codes)
    BY <2>2 DEF HoldsNamed, Late, Inv4, Inv4Rest, RowsNamed
  <2> QED BY <1>1, <2>1, <2>3, QuietInv4 DEF tables, memory, outside, history, evidence
<1>2. CASE Finish(w) /\ UNCHANGED <<tables, memory, outside, named, signIns>>
  BY <1>2, FinishInv4 DEF tables, memory, outside, evidence
<1> QED BY <1>1, <1>2 DEF List

LEMMA InstallInv4 == ASSUME Inv1, Inv4, NEW w \in Procs, Install(w) PROVE Inv4'
<1>1. pc[w] = "install" /\ UNCHANGED <<rows, accounts, signIns, named, codes>>
  BY DEF Install, At, tables, outside
<1>2. PICK failed \in SUBSET Ids : resolved' = Discovered(w, failed)
  BY DEF Install
<1>3. HoldsNamed("install", job[w], named, codes)
  BY <1>1 DEF Inv4, LocalsNamed
<1>4. ResolvedNamed'
  BY <1>1, <1>2, <1>3 DEF ResolvedNamed, Discovered, Me, HoldsNamed
<1>5. Inv4Rest' /\ NamedGrows
  BY <1>1, <1>4 DEF Inv4, Inv4Rest, RowsNamed, AccountsNamed, SignInsNamed, NamedGrows
<1> QED BY <1>5, FinishMoves, EarlyNamed, MoveInv4 DEF Install

LEMMA PutStateInv4 == ASSUME Inv1, Inv4, NEW w \in Procs, PutState(w) PROVE Inv4'
BY FinishInv4 DEF PutState, Refuse, tables, memory, outside, history, evidence

LEMMA DropStateInv4 == ASSUME Inv1, Inv4, NEW w \in Procs, DropState(w) PROVE Inv4'
BY StayMoves, EarlyNamed, QuietInv4 DEF DropState, memory, outside, evidence

LEMMA RejectInv4 == ASSUME Inv1, Inv4, NEW w \in Procs, Reject(w) PROVE Inv4'
BY FinishInv4 DEF Reject, Answer, tables, memory, outside, evidence

LEMMA CheckInv4 == ASSUME Inv1, Inv4, NEW w \in Procs, Check(w) PROVE Inv4'
<1>1. CASE /\ resolved[Me(w).state.prov] # None
           /\ job' = [job EXCEPT ![w].row = resolved[Me(w).state.prov]]
           /\ Goto(w, "exchange")
           /\ UNCHANGED <<tables, memory, outside, history>>
           /\ pc[w] = "check"
  <2> DEFINE p == resolved[job[w].state.prov]
             j == [job[w] EXCEPT !.row = p]
  <2>1. <<p.name, p.issuer>> \in named
    BY <1>1, ProcFacts DEF Holds, Back, Past, Me, State, Inv4, Inv4Rest, ResolvedNamed
  <2>2. Moves(w, "exchange", j)
    BY <1>1 DEF Goto, Moves, Me, Inv1, TypeReq
  <2> HIDE DEF p
  <2>3. j.row = p
    BY ProcFacts DEF Job
  <2> HIDE DEF j
  <2>4. HoldsNamed("exchange", j, named, codes)
    BY <2>1, <2>3 DEF HoldsNamed
  <2> QED BY <1>1, <2>2, <2>4, QuietInv4 DEF tables, memory, outside, history, evidence
<1> QED BY <1>1, RejectInv4 DEF Check, At

LEMMA ExchangeInv4 == ASSUME Inv1, Inv4, NEW w \in Procs, Exchange(w) PROVE Inv4'
<1>1. CASE /\ Vouched(w) /\ pc[w] = "exchange"
           /\ codes' = [codes EXCEPT ![Me(w).code].used = TRUE] /\ UNCHANGED asked
           /\ Stay(w, "account")
           /\ UNCHANGED <<tables, memory, history>>
  <2>1. /\ Me(w).code \in Codes /\ codes[Me(w).code] \in Code
        /\ codes[Me(w).code].issuer = Me(w).row.issuer
    BY <1>1, ProcFacts DEF Holds, Back, Past, Late, Me, Vouched, Inv1, TypeRest
  <2>2. \A c \in Codes : codes[c] # None => codes'[c].issuer = codes[c].issuer
    BY <1>1, <2>1 DEF Code, Inv1, TypeRest
  <2>3. codes'[Me(w).code].issuer = Me(w).row.issuer
    BY <2>1, <2>2, NoneAssumption
  <2>4. HoldsNamed("exchange", job[w], named, codes) /\ named' = named
    BY <1>1 DEF Inv4, LocalsNamed, history
  <2>5. HoldsNamed("account", job[w], named', codes')
    BY <2>3, <2>4 DEF HoldsNamed, Late, Me
  <2>6. Inv4Rest' /\ NamedGrows
    BY <1>1, <2>2 DEF Inv4, Inv4Rest, RowsNamed, ResolvedNamed, AccountsNamed, SignInsNamed,
                NamedGrows, tables, memory, history
  <2> QED BY <1>1, <2>5, <2>6, StayMoves, MoveInv4
<1> QED BY <1>1, RejectInv4 DEF Exchange, At

\* A sign-in to an account of the provider's name.
LEMMA SignInInv4 ==
    ASSUME Inv1, Inv4, NEW w \in Procs, pc[w] \in {"account", "provision"}, NEW a,
           a.name = Me(w).row.name, <<a.name, a.origin>> \in named,
           SignIn(w, a), accounts' \subseteq accounts \cup {a},
           UNCHANGED <<rows, memory, outside>>
    PROVE  Inv4'
<1>1. HoldsNamed(pc[w], job[w], named, codes)
  BY DEF Inv4, LocalsNamed
<1>2. <<a.name, codes[Me(w).code].issuer>> \in named
  BY <1>1 DEF HoldsNamed, Late, Me
<1> DEFINE e == codes[Me(w).code].issuer
<1>3. SignInsNamed'
  <2>1. signIns' = signIns \cup {<<a, e>>} /\ named' = named
    BY DEF SignIn
  <2>2. <<a.name, e>> \in named
    BY <1>2
  <2> HIDE DEF e
  <2>3. /\ <<a, e>>[1] = a /\ <<a, e>>[2] = e
    OBVIOUS
  <2>4. SignInsNamed
    BY DEF Inv4, Inv4Rest
  <2> QED BY <2>1, <2>2, <2>3, <2>4 DEF SignInsNamed
<1>4. AccountsNamed'
  BY DEF SignIn, Inv4, Inv4Rest, AccountsNamed
<1>5. Inv4Rest' /\ NamedGrows
  BY <1>3, <1>4 DEF SignIn, Inv4, Inv4Rest, RowsNamed, ResolvedNamed, NamedGrows,
                    memory, outside
<1> QED BY <1>5, FinishMoves, EarlyNamed, MoveInv4 DEF SignIn, Answer

LEMMA FindAccountInv4 == ASSUME Inv1, Inv4, NEW w \in Procs, FindAccount(w) PROVE Inv4'
<1> pc[w] = "account"
  BY DEF FindAccount, At
<1>1. ASSUME NEW a \in accounts, SameIdentity(a, Me(w).row.name, codes[Me(w).code].sub),
             SignIn(w, a), UNCHANGED <<tables, memory, outside>>
      PROVE  Inv4'
  <2>1. a.name = Me(w).row.name /\ <<a.name, a.origin>> \in named
    BY <1>1 DEF SameIdentity, Inv4, Inv4Rest, AccountsNamed
  <2> QED BY <1>1, <2>1, SignInInv4 DEF tables
<1>2. CASE Stay(w, "provision") /\ UNCHANGED <<tables, memory, outside, history>>
  <2>1. HoldsNamed("provision", job[w], named, codes)
    BY DEF Inv4, LocalsNamed, HoldsNamed, Late
  <2> QED BY <1>2, <2>1, StayMoves, QuietInv4 DEF tables, memory, outside, history, evidence
<1> QED BY <1>1, <1>2, RejectInv4 DEF FindAccount

LEMMA ProvisionInv4 == ASSUME Inv1, Inv4, NEW w \in Procs, Provision(w) PROVE Inv4'
<1> DEFINE a == [name |-> Me(w).row.name, sub |-> codes[Me(w).code].sub,
                 origin |-> codes[Me(w).code].issuer]
<1> pc[w] = "provision"
  BY DEF Provision, At
<1>1. HoldsNamed("provision", job[w], named, codes)
  BY DEF Inv4, LocalsNamed
<1>2. a.name = Me(w).row.name /\ <<a.name, a.origin>> \in named
  BY <1>1 DEF HoldsNamed, Late, Me
<1>3. CASE accounts' = accounts \cup {a} /\ SignIn(w, a)
           /\ UNCHANGED <<rows, states, memory, outside>>
  <2> HIDE DEF a
  <2> QED BY <1>2, <1>3, SignInInv4
<1> QED BY <1>3, RejectInv4 DEF Provision

LEMMA StepInv4 == Inv1 /\ Inv4 /\ [Next]_vars => Inv4'
<1> SUFFICES ASSUME Inv1, Inv4, [Next]_vars PROVE Inv4'
  OBVIOUS
<1>1. CASE UNCHANGED vars \/ Tick
  <2>1. UNCHANGED <<evidence, pc, job>>
    BY <1>1 DEF vars, tables, memory, history, outside, evidence, Tick
  <2> QED BY <2>1 DEF Inv4, LocalsNamed, Inv4Rest, RowsNamed, ResolvedNamed,
                      AccountsNamed, SignInsNamed, evidence
<1>2. CASE Crash
  <2>1. \A w \in Procs : pc'[w] \in {"idle", "list"}
    BY <1>2 DEF Crash, BootPc
  <2>2. LocalsNamed'
    BY <2>1, EarlyNamed DEF LocalsNamed
  <2> QED BY <1>2, <2>2 DEF Crash, NoRows, tables, Inv4, Inv4Rest, RowsNamed, ResolvedNamed,
                            AccountsNamed, SignInsNamed
<1>3. ASSUME NEW w \in Procs, Advance(w) PROVE Inv4'
  BY <1>3, PutRowInv4, ListInv4, InstallInv4, PutStateInv4, DropStateInv4, CheckInv4,
     ExchangeInv4, FindAccountInv4, ProvisionInv4 DEF Advance
<1> QED BY <1>1, <1>2, <1>3, RequestInv4 DEF Next

LEMMA InitInv4 == Init => Inv4
<1> SUFFICES ASSUME Init PROVE Inv4
  OBVIOUS
<1>1. \A w \in Procs : pc[w] \in {"idle", "list"}
  BY DEF Init, BootPc
<1>2. LocalsNamed
  BY <1>1, EarlyNamed DEF LocalsNamed
<1>3. RowsNamed
  BY DEF Init, RowsNamed
<1>4. AccountsNamed
  BY <1>3 DEF Init, RowsNamed, AccountsNamed
<1> QED BY <1>2, <1>3, <1>4 DEF Init, Inv4, Inv4Rest, ResolvedNamed, SignInsNamed, NoRows

(***************************************************************************)
(* GetUserByOIDCIdentity and its callers: with any number of providers     *)
(* being edited, renamed and deleted during the sign-ins, nobody reaches   *)
(* an account of another issuer while no name is given to a second one.    *)
(***************************************************************************)
THEOREM OwnAccountCorrect == Spec => []OwnAccount
<1>1. Spec => []Inv4
  BY InitInv1, InitInv4, StepInv1, StepInv4, PTL DEF Spec
<1>2. ASSUME Inv4, NEW s \in signIns,
             \A m, n \in named : m[1] = s[1].name /\ n[1] = s[1].name => m[2] = n[2]
      PROVE  s[1].origin = s[2]
  <2> DEFINE m == <<s[1].name, s[1].origin>>
             n == <<s[1].name, s[2]>>
  <2>1. m \in named /\ n \in named
    BY <1>2 DEF Inv4, Inv4Rest, SignInsNamed
  <2>2. m[2] = n[2]
    BY <1>2, <2>1
  <2> QED BY <2>2
<1>3. Inv4 => OwnAccount
  BY <1>2 DEF OwnAccount
<1> QED BY <1>1, <1>3, PTL
=============================================================================
