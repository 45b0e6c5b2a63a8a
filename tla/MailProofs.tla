------------------------------ MODULE MailProofs ------------------------------
(***************************************************************************)
(* Proofs about Mail: for any tabs, settings, edits and address lists, any *)
(* number of requests and of failures.                                     *)
(***************************************************************************)
EXTENDS Mail, TLAPS

-----------------------------------------------------------------------------
(***************************************************************************)
(* The data: the six keys, the settings and the address lists.             *)
(***************************************************************************)

\* Order lists every field once, the host first and the password fourth.
LEMMA OrderFacts ==
    /\ \A n \in 1..6 : Order[n] \in Fields
    /\ \A k \in Fields : \E n \in 1..6 : Order[n] = k
    /\ \A m, n \in 1..6 : Order[m] = Order[n] => m = n
    /\ \A n \in 1..6 : Order[n] = "host" <=> n = 1
    /\ Order[6] = "tls"
<1>1. /\ Order[1] = "host" /\ Order[2] = "port" /\ Order[3] = "username"
      /\ Order[4] = "password" /\ Order[5] = "from" /\ Order[6] = "tls"
  BY DEF Order
<1>2. \A n \in 1..6 : n = 1 \/ n = 2 \/ n = 3 \/ n = 4 \/ n = 5 \/ n = 6
  OBVIOUS
<1> QED BY <1>1, <1>2 DEF Fields

LEMMA NormType ==
    ASSUME NEW k, NEW x \in Values \cup {None, Default}
    PROVE  /\ Norm(k, x) \in Values \cup {None, Default}
           /\ Norm(k, Norm(k, x)) = Norm(k, x)
           /\ k \notin {"port", "tls"} => Norm(k, x) = x
BY NoneAssumption DEF Norm

\* What a sender gets to see is settings or nothing.
LEMMA EffectiveType ==
    ASSUME config \in Configs, NEW t \in Setting
    PROVE  Effective(t) \in Setting \cup {None}
<1>1. \A s \in Setting : [k \in Fields |-> Norm(k, s[k])] \in Setting
  BY NormType DEF Setting
<1> QED BY <1>1, ChoicesAssumption DEF Effective

LEMMA RangeTail ==
    ASSUME NEW S, NEW s \in Seq(S), s # <<>>
    PROVE  /\ Head(s) \in S /\ Tail(s) \in Seq(S)
           /\ Range(s) = {Head(s)} \cup Range(Tail(s))
<1>1. /\ Head(s) = s[1] /\ Head(s) \in S /\ Tail(s) \in Seq(S)
      /\ Len(s) \in Nat \ {0} /\ Len(Tail(s)) = Len(s) - 1
      /\ \A n \in 1..(Len(s) - 1) : Tail(s)[n] = s[n + 1]
  OBVIOUS
<1>2. ASSUME NEW x \in Range(s) PROVE x \in {Head(s)} \cup Range(Tail(s))
  <2>1. PICK n \in 1..Len(s) : x = s[n]
    BY <1>2 DEF Range
  <2>2. CASE n = 1
    BY <1>1, <2>1, <2>2
  <2>3. CASE n # 1
    <3>1. n - 1 \in 1..Len(Tail(s)) /\ Tail(s)[n - 1] = x
      BY <1>1, <2>1, <2>3
    <3> QED BY <3>1 DEF Range
  <2> QED BY <2>2, <2>3
<1>3. ASSUME NEW x \in Range(Tail(s)) PROVE x \in Range(s)
  <2>1. PICK n \in 1..Len(Tail(s)) : x = Tail(s)[n]
    BY <1>3 DEF Range
  <2>2. n + 1 \in 1..Len(s) /\ s[n + 1] = x
    BY <1>1, <2>1
  <2> QED BY <2>2 DEF Range
<1>4. Head(s) \in Range(s)
  BY <1>1 DEF Range
<1> QED BY <1>1, <1>2, <1>3, <1>4

-----------------------------------------------------------------------------
(***************************************************************************)
(* The shape of a step.                                                    *)
(***************************************************************************)

TypeReq == pc \in [Procs -> Labels] /\ job \in [Procs -> Job]

\* Process p moves to l with the local variables j.
Moves(p, l, j) == /\ pc' = [pc EXCEPT ![p] = l]
                  /\ job' = [job EXCEPT ![p] = j]

LEMMA MovesFacts ==
    ASSUME TypeOK, NEW p \in Procs, NEW l, NEW j, Moves(p, l, j)
    PROVE  /\ pc'[p] = l /\ job'[p] = j
           /\ \A q \in Procs \ {p} : pc'[q] = pc[q] /\ job'[q] = job[q]
           /\ l \in Labels /\ j \in Job => TypeReq'
BY DEF TypeOK, TypeReq, Moves

LEMMA FinishMoves ==
    ASSUME NEW p, Finish(p)
    PROVE  Moves(p, "idle", NoJob)
BY DEF Finish, Goto, Moves

LEMMA NoJobType == NoJob \in Job /\ Blank \in Setting
<1>1. Blank \in Setting
  BY DEF Blank, Setting
<1>2. <<>> \in Seq(Addresses \cup {None})
  OBVIOUS
<1> QED BY <1>1, <1>2 DEF NoJob, Job

LEMMA JobFacts ==
    ASSUME TypeOK, NEW p \in Procs
    PROVE  /\ pc[p] \in Labels /\ job[p] \in Job
           /\ job[p].i \in 1..6 /\ job[p].set \in Setting
           /\ job[p].left \in Seq(Addresses \cup {None})
           /\ job[p].alone \in BOOLEAN /\ job[p].base \in Setting \cup {Torn}
           /\ job[p].view \in Setting \cup {None, Torn}
           /\ Key(p) \in Fields /\ ClearKey(p) \in Fields
BY OrderFacts DEF TypeOK, Job, Key, ClearKey, Me

\* A request advances to the next key, and keeps its other local variables.
NextJob(p) == [job[p] EXCEPT !.i = @ + 1]

LEMMA NextKey ==
    ASSUME TypeOK, NEW p \in Procs, job' = [job EXCEPT ![p].i = @ + 1], UNCHANGED pc,
           job[p].i < 6
    PROVE  /\ Moves(p, pc[p], NextJob(p)) /\ NextJob(p) \in Job
           /\ NextJob(p).i = job[p].i + 1
           /\ NextJob(p).set = job[p].set /\ NextJob(p).alone = job[p].alone
           /\ NextJob(p).base = job[p].base /\ NextJob(p).view = job[p].view
           /\ NextJob(p).left = job[p].left /\ NextJob(p).all = job[p].all
<1>1. job[p] \in Job /\ job[p].i \in 1..6
  BY JobFacts
<1>2. job[p].i + 1 \in 1..6
  BY <1>1
<1>3. Moves(p, pc[p], NextJob(p))
  BY DEF TypeOK, Moves, NextJob
<1>4. NextJob(p) \in Job /\ NextJob(p).i = job[p].i + 1
  BY <1>1, <1>2 DEF Job, NextJob
<1>5. /\ NextJob(p).set = job[p].set /\ NextJob(p).alone = job[p].alone
      /\ NextJob(p).base = job[p].base /\ NextJob(p).view = job[p].view
      /\ NextJob(p).left = job[p].left /\ NextJob(p).all = job[p].all
  BY <1>1 DEF Job, NextJob
<1> QED BY <1>3, <1>4, <1>5

\* A reader has read s, is at key i and has the view v.
ReadJob(p, s, i, v) == [job[p] EXCEPT !.set = s, !.i = i, !.view = v]

LEMMA ReadJobFacts ==
    ASSUME TypeOK, NEW p \in Procs, NEW s \in Setting, NEW i \in 1..6,
           NEW v \in Setting \cup {None, Torn}
    PROVE  LET j == ReadJob(p, s, i, v)
           IN /\ j \in Job /\ j.set = s /\ j.i = i /\ j.view = v
              /\ j.left = job[p].left /\ j.all = job[p].all /\ j.op = job[p].op
BY JobFacts DEF Job, ReadJob

\* A sender has the addresses l left.
LeftJob(p, l) == [job[p] EXCEPT !.left = l]

LEMMA LeftJobFacts ==
    ASSUME TypeOK, NEW p \in Procs, NEW l \in Seq(Addresses \cup {None})
    PROVE  LET j == LeftJob(p, l)
           IN /\ j \in Job /\ j.left = l /\ j.set = job[p].set /\ j.view = job[p].view
              /\ j.all = job[p].all /\ j.op = job[p].op
BY JobFacts DEF Job, LeftJob

-----------------------------------------------------------------------------
(***************************************************************************)
(* Types.                                                                  *)
(***************************************************************************)

\* The part of TypeOK that is not about requests under way.
TypeRest ==
    /\ config \in Configs
    /\ table \in Setting
    /\ form \in [Tabs -> Setting \cup {None}]
    /\ enabled \in [Tabs -> BOOLEAN]
    /\ agreed \in Setting \cup {Torn}
    /\ sent \in [Procs -> Setting \cup {None}]
    /\ tried \subseteq Addresses
    /\ off \in BOOLEAN
    /\ loaded \in [Tabs -> Setting \cup {None, Torn}]
    /\ requests \in 0..MaxRequests /\ failures \in 0..MaxFailures

LEMMA TypeParts == TypeOK <=> TypeReq /\ TypeRest
BY DEF TypeOK, TypeReq, TypeRest

LEMMA MoveType ==
    ASSUME TypeOK, NEW p \in Procs, NEW l \in Labels, NEW j \in Job, Moves(p, l, j),
           TypeRest'
    PROVE  TypeOK'
BY MovesFacts, TypeParts DEF TypeOK, TypeReq, TypeRest

LEMMA ArriveType ==
    ASSUME TypeOK, NEW p, Arrive(p)
    PROVE  requests' \in 0..MaxRequests /\ UNCHANGED <<config, failures>> /\ pc[p] = "idle"
BY BoundAssumption DEF TypeOK, Arrive

LEMMA FaultType ==
    ASSUME TypeOK, Works \/ Fails
    PROVE  failures' \in 0..MaxFailures
BY BoundAssumption DEF TypeOK, Works, Fails

\* The view of a reader that begins.
ViewNow == IF agreed = Torn THEN Torn ELSE Effective(agreed)

LEMMA ViewType == TypeOK => ViewNow \in Setting \cup {None, Torn}
BY EffectiveType DEF TypeOK, ViewNow

LEMMA OpenType == ASSUME TypeOK, NEW t \in Tabs, Open(t) PROVE TypeOK'
<1> DEFINE j == [NoJob EXCEPT !.op = "load", !.view = ViewNow]
<1>1. j \in Job
  BY NoJobType, ViewType DEF Job, Ops
<1>2. Moves(t, "read", j)
  BY DEF Open, Goto, Moves, ViewNow
<1>3. TypeRest'
  BY ArriveType, TypeParts DEF Open, TypeRest, history
<1> HIDE DEF j
<1> QED BY <1>1, <1>2, <1>3, MoveType DEF Procs, Labels

LEMMA BeginType ==
    ASSUME TypeOK, NEW p \in Procs, NEW op \in Ops, NEW l \in Seq(Addresses \cup {None}),
           Begin(p, op, l)
    PROVE  TypeOK'
<1> DEFINE j == [NoJob EXCEPT !.op = op, !.left = l, !.all = l, !.view = ViewNow]
<1>1. j \in Job
  BY NoJobType, ViewType DEF Job
<1>2. Moves(p, "read", j)
  BY DEF Begin, Goto, Moves, ViewNow
<1>3. TypeRest'
  BY ArriveType, TypeParts DEF Begin, TypeRest
<1> HIDE DEF j
<1> QED BY <1>1, <1>2, <1>3, MoveType DEF Labels

\* Every other request loses its view, and a writer is no longer alone.
LEMMA DisturbFacts ==
    ASSUME TypeOK, NEW p \in Procs, NEW j \in Job, Disturb(p, j)
    PROVE  /\ job' \in [Procs -> Job]
           /\ job'[p] = [j EXCEPT !.alone = (Writers = {}), !.base = agreed]
           /\ \A q \in Procs \ {p} :
                job'[q] = [job[q] EXCEPT !.view = Torn, !.alone = (q \notin Writers)]
<1> DEFINE own == [j EXCEPT !.alone = (Writers = {}), !.base = agreed]
           other(q) == [job[q] EXCEPT !.view = Torn, !.alone = (q \notin Writers)]
<1>1. own \in Job
  BY DEF Job, TypeOK
<1>2. \A q \in Procs : other(q) \in Job
  BY JobFacts DEF Job
<1>3. job' = [q \in Procs |-> IF q = p THEN own ELSE other(q)]
  BY DEF Disturb
<1> HIDE DEF own, other
<1>4. job' \in [Procs -> Job] /\ job'[p] = own /\ \A q \in Procs \ {p} : job'[q] = other(q)
  BY <1>1, <1>2, <1>3
<1> QED BY <1>4 DEF own, other

LEMMA BodyType ==
    ASSUME TypeOK, NEW t \in Tabs, form[t] # None, NEW e \in Edits
    PROVE  Body(t, e) \in Setting
BY FormsAssumption DEF TypeOK, Setting, Body

LEMMA SaveType == ASSUME TypeOK, NEW t \in Tabs, Save(t) PROVE TypeOK'
<1>1. PICK e \in Edits : Disturb(t, [NoJob EXCEPT !.op = "save", !.set = Body(t, e)])
  BY DEF Save
<1>2. [NoJob EXCEPT !.op = "save", !.set = Body(t, e)] \in Job
  BY BodyType, NoJobType DEF Save, Job, Ops
<1>3. TypeReq'
  BY <1>1, <1>2, DisturbFacts DEF Save, Goto, TypeReq, TypeOK, Procs, Labels
<1>4. TypeRest'
  BY <1>1, ArriveType DEF Save, Disturb, TypeRest, TypeOK
<1> QED BY <1>3, <1>4, TypeParts DEF TypeOK, TypeReq, TypeRest

LEMMA RemoveType == ASSUME TypeOK, NEW t \in Tabs, Remove(t) PROVE TypeOK'
<1>1. [NoJob EXCEPT !.op = "remove"] \in Job
  BY NoJobType DEF Job, Ops
<1>2. TypeReq'
  BY <1>1, DisturbFacts DEF Remove, Goto, TypeReq, TypeOK, Procs, Labels
<1>3. TypeRest'
  BY ArriveType DEF Remove, Disturb, TypeRest, TypeOK
<1> QED BY <1>2, <1>3 DEF TypeOK, TypeReq, TypeRest

LEMMA AskedType ==
    ASSUME TypeOK, NEW p \in Procs
    PROVE  Asked(p) \in Setting \cup {Torn}
BY JobFacts, NormType DEF Asked, Me, Setting

LEMMA PutType == ASSUME TypeOK, NEW p \in Procs, Put(p) PROVE TypeOK'
<1>1. /\ table' \in Setting /\ agreed' \in Setting \cup {Torn}
      /\ form' \in [Tabs -> Setting \cup {None}] /\ enabled' \in [Tabs -> BOOLEAN]
  <2>1. Norm(Key(p), Me(p).set[Key(p)]) \in Values \cup {None, Default}
    BY JobFacts, NormType DEF Me, Setting
  <2>2. table' \in Setting
    BY <2>1, JobFacts DEF Put, TypeOK, Setting
  <2>3. agreed' \in Setting \cup {Torn}
    BY AskedType DEF Put, Settle, TypeOK
  <2> QED BY <2>2, <2>3 DEF Put, TypeOK
<1>2. TypeRest'
  BY <1>1, FaultType DEF Put, At, TypeRest, TypeOK
<1>3. CASE Finish(p)
  BY <1>2, <1>3, FinishMoves, MoveType, NoJobType DEF Labels
<1>4. CASE job' = [job EXCEPT ![p].i = @ + 1] /\ UNCHANGED pc /\ job[p].i < 6
  BY <1>2, <1>4, NextKey, MoveType, JobFacts
<1> QED BY <1>3, <1>4 DEF Put, Me

LEMMA ClearType == ASSUME TypeOK, NEW p \in Procs, Clear(p) PROVE TypeOK'
<1>1. /\ table' \in Setting /\ agreed' \in Setting \cup {Torn} /\ off' \in BOOLEAN
      /\ form' \in [Tabs -> Setting \cup {None}] /\ enabled' \in [Tabs -> BOOLEAN]
  <2>1. table' \in Setting
    BY JobFacts DEF Clear, TypeOK, Setting
  <2>2. agreed' \in Setting \cup {Torn}
    BY NoJobType DEF Clear, Settle, TypeOK
  <2>3. off' \in BOOLEAN
    BY JobFacts DEF Clear, Me, TypeOK
  <2> QED BY <2>1, <2>2, <2>3 DEF Clear, TypeOK
<1>2. TypeRest'
  BY <1>1, FaultType DEF Clear, At, TypeRest, TypeOK
<1>3. CASE Finish(p)
  BY <1>2, <1>3, FinishMoves, MoveType, NoJobType DEF Labels
<1>4. CASE job' = [job EXCEPT ![p].i = @ + 1] /\ UNCHANGED pc /\ job[p].i < 6
  BY <1>2, <1>4, NextKey, MoveType, JobFacts
<1> QED BY <1>3, <1>4 DEF Clear, Me

\* GetSetting has answered x and the view is v: the settings read so far, whether
\* they are complete, and what they amount to.
GotSet(p, x)  == [job[p].set EXCEPT ![Key(p)] = x]
GotAll(p, x)  == job[p].i = 6 \/ (job[p].i = 1 /\ x = None)
Outcome(p, x) == IF job[p].i = 1 /\ x = None THEN Effective(Blank)
                 ELSE Effective(GotSet(p, x))

\* The reader goes on to the next key, fills the form, has no mail server or no
\* password, or goes on to send.
GoesOn(p, x, v) == /\ ~GotAll(p, x)
                   /\ Moves(p, "read", ReadJob(p, GotSet(p, x), job[p].i + 1, v))
                   /\ UNCHANGED <<form, loaded>>
Fills(p, x, v)  == /\ GotAll(p, x) /\ job[p].op = "load" /\ Moves(p, "idle", NoJob)
                   /\ form' = [form EXCEPT ![p] = IF Outcome(p, x) = None THEN Empty
                                                  ELSE Prefill(Outcome(p, x))]
                   /\ loaded' = [loaded EXCEPT ![p] = IF v = Torn THEN Torn ELSE agreed]
GivesUp(p, x)   == /\ GotAll(p, x) /\ Moves(p, "idle", NoJob)
                   /\ UNCHANGED <<form, loaded>>
Turns(p, x, v)  == /\ GotAll(p, x) /\ Outcome(p, x) # None
                   /\ Moves(p, "send", ReadJob(p, Outcome(p, x), 1, v))
                   /\ UNCHANGED <<form, loaded>>

ReadSteps(p, x, v) == GoesOn(p, x, v) \/ Fills(p, x, v) \/ GivesUp(p, x) \/ Turns(p, x, v)

LEMMA UseSteps ==
    ASSUME TypeOK, NEW p \in Procs, pc[p] = "read", NEW x, NEW v, NEW s,
           GotAll(p, x), s = Outcome(p, x), Use(p, s, v)
    PROVE  ReadSteps(p, x, v)
<1>3. CASE /\ Me(p).op = "load" /\ Finish(p)
           /\ form' = [form EXCEPT ![p] = IF s = None THEN Empty ELSE Prefill(s)]
           /\ loaded' = [loaded EXCEPT ![p] = IF v = Torn THEN Torn ELSE agreed]
  BY <1>3, FinishMoves DEF ReadSteps, Fills, Me
<1>4. CASE Finish(p) /\ UNCHANGED <<form, loaded>>
  BY <1>4, FinishMoves DEF ReadSteps, GivesUp
<1>2. CASE /\ job' = [job EXCEPT ![p].set = s, ![p].i = 1, ![p].view = v]
           /\ s # None /\ Goto(p, "send") /\ UNCHANGED <<form, loaded>>
  <2>1. job' = [job EXCEPT ![p] = ReadJob(p, s, 1, v)]
    BY <1>2 DEF TypeOK, ReadJob
  <2> QED BY <1>2, <2>1 DEF ReadSteps, Turns, Moves, Goto
<1> QED BY <1>2, <1>3, <1>4 DEF Use

LEMMA GotSteps ==
    ASSUME TypeOK, NEW p \in Procs, pc[p] = "read", NEW x, NEW v, Got(p, x, v)
    PROVE  ReadSteps(p, x, v)
<1>1. CASE job[p].i = 1 /\ x = None
  <2>1. GotAll(p, x) /\ Outcome(p, x) = Effective(Blank)
    BY <1>1 DEF GotAll, Outcome
  <2>2. Use(p, Effective(Blank), v)
    BY <1>1 DEF Got, Me
  <2> QED BY <2>1, <2>2, UseSteps
<1>2. CASE ~(job[p].i = 1 /\ x = None) /\ job[p].i = 6
  <2>1. GotAll(p, x) /\ Outcome(p, x) = Effective(GotSet(p, x))
    BY <1>2 DEF GotAll, Outcome
  <2>2. Use(p, Effective(GotSet(p, x)), v)
    BY <1>2 DEF Got, Me, GotSet
  <2> QED BY <2>1, <2>2, UseSteps
<1>3. CASE ~GotAll(p, x)
  <2>1. /\ job' = [job EXCEPT ![p].set = GotSet(p, x), ![p].i = @ + 1, ![p].view = v]
        /\ UNCHANGED <<pc, form, loaded>>
    BY <1>3 DEF Got, Me, GotSet, GotAll
  <2>2. job' = [job EXCEPT ![p] = ReadJob(p, GotSet(p, x), job[p].i + 1, v)]
    BY <2>1 DEF TypeOK, ReadJob
  <2>3. pc' = [pc EXCEPT ![p] = "read"]
    BY <2>1 DEF TypeOK
  <2> QED BY <1>3, <2>1, <2>2, <2>3 DEF ReadSteps, GoesOn, Moves
<1> QED BY <1>1, <1>2, <1>3 DEF GotAll

\* What a reader has in hand, and what becomes of it.
LEMMA ReadFacts ==
    ASSUME TypeOK, NEW p \in Procs, Read(p)
    PROVE  /\ pc[p] = "read" /\ failures' \in 0..MaxFailures
           /\ UNCHANGED <<config, requests, table, enabled, agreed, sent, tried, off>>
           /\ \E x \in Values \cup {None, Default}, v \in Setting \cup {None, Torn} :
                /\ v # Torn => v = job[p].view /\ x = table[Key(p)]
                /\ ReadSteps(p, x, v)
<1>1. pc[p] = "read" /\ failures' \in 0..MaxFailures
  BY FaultType DEF Read, At
<1>2. CASE Got(p, table[Key(p)], job[p].view)
  <2>1. table[Key(p)] \in Values \cup {None, Default}
    BY JobFacts DEF TypeOK, Setting
  <2> QED BY <1>1, <1>2, <2>1, GotSteps, JobFacts DEF Read, At
<1>3. CASE Got(p, None, Torn)
  BY <1>1, <1>3, GotSteps DEF Read, At
<1> QED BY <1>2, <1>3 DEF Read, Me

LEMMA OutcomeType ==
    ASSUME TypeOK, NEW p \in Procs, NEW x \in Values \cup {None, Default}
    PROVE  GotSet(p, x) \in Setting /\ Outcome(p, x) \in Setting \cup {None}
<1>1. GotSet(p, x) \in Setting
  BY JobFacts DEF GotSet, Setting
<1> QED BY <1>1, NoJobType, EffectiveType DEF Outcome, TypeOK

\* What a form can be filled with.
LEMMA FormType == /\ Empty \in Setting
                  /\ \A s \in Setting : Prefill(s) \in Setting
<1>1. Empty \in Setting
  BY NormType DEF Empty, Setting
<1>2. \A s \in Setting : Prefill(s) \in Setting
  BY DEF Prefill, Setting
<1> QED BY <1>1, <1>2

LEMMA ReadType == ASSUME TypeOK, NEW p \in Procs, Read(p) PROVE TypeOK'
<1>1. PICK x \in Values \cup {None, Default}, v \in Setting \cup {None, Torn} :
          ReadSteps(p, x, v)
  BY ReadFacts
<1>2. Outcome(p, x) \in Setting \cup {None} /\ GotSet(p, x) \in Setting
  BY OutcomeType
<1>3. form' \in [Tabs -> Setting \cup {None}] /\ loaded' \in [Tabs -> Setting \cup {None, Torn}]
  <2>1. (IF Outcome(p, x) = None THEN Empty ELSE Prefill(Outcome(p, x))) \in Setting
    BY <1>2, FormType
  <2> QED BY <1>1, <2>1 DEF ReadSteps, GoesOn, Fills, GivesUp, Turns, TypeOK
<1>4. TypeRest'
  BY <1>3, ReadFacts DEF TypeRest, TypeOK
<1>5. CASE GoesOn(p, x, v)
  <2>1. job[p].i + 1 \in 1..6
    BY <1>5, JobFacts DEF GoesOn, GotAll
  <2>2. ReadJob(p, GotSet(p, x), job[p].i + 1, v) \in Job
    BY <1>2, <2>1, ReadJobFacts
  <2> QED BY <1>4, <1>5, <2>2, MoveType DEF GoesOn, Labels
<1>6. CASE Turns(p, x, v)
  <2>1. ReadJob(p, Outcome(p, x), 1, v) \in Job
    BY <1>2, <1>6, ReadJobFacts DEF Turns
  <2> QED BY <1>4, <1>6, <2>1, MoveType DEF Turns, Labels
<1>7. CASE Moves(p, "idle", NoJob)
  BY <1>4, <1>7, MoveType, NoJobType DEF Labels
<1> QED BY <1>1, <1>5, <1>6, <1>7 DEF ReadSteps, Fills, GivesUp

\* What a sender does: it has finished, or goes on from the next address.
Mails(p, l) == /\ Moves(p, "send", LeftJob(p, l))
               /\ sent' \in {sent, [sent EXCEPT ![p] = job[p].set]}

LEMMA SendFacts ==
    ASSUME TypeOK, NEW p \in Procs, Send(p)
    PROVE  /\ pc[p] = "send" /\ failures' \in 0..MaxFailures
           /\ UNCHANGED <<config, requests, table, form, enabled, agreed, off, loaded>>
           /\ \/ job[p].left = <<>> /\ Moves(p, "idle", NoJob) /\ UNCHANGED <<sent, tried>>
              \/ /\ job[p].left # <<>> /\ Mails(p, Tail(job[p].left))
                 /\ tried' = IF p = Alerter /\ Head(job[p].left) # None
                             THEN tried \cup {Head(job[p].left)} ELSE tried
<1>1. pc[p] = "send" /\ failures' \in 0..MaxFailures
  BY FaultType DEF Send, At
<1>2. UNCHANGED <<config, requests, table, form, enabled, agreed, off, loaded>>
  BY DEF Send, At
<1>3. CASE job[p].left = <<>>
  BY <1>1, <1>2, <1>3, FinishMoves DEF Send, Me
<1>4. CASE job[p].left # <<>>
  <2>1. /\ job' = [job EXCEPT ![p].left = Tail(job[p].left)]
        /\ sent' \in {sent, [sent EXCEPT ![p] = job[p].set]}
        /\ UNCHANGED pc
        /\ tried' = IF p = Alerter /\ Head(job[p].left) # None
                    THEN tried \cup {Head(job[p].left)} ELSE tried
    BY <1>4 DEF Send, Me, AfterError, Skipped, TypeOK
  <2>2. Moves(p, "send", LeftJob(p, Tail(job[p].left)))
    BY <1>1, <2>1 DEF Moves, LeftJob, TypeOK
  <2> QED BY <1>1, <1>2, <1>4, <2>1, <2>2 DEF Mails
<1> QED BY <1>3, <1>4

LEMMA SendType == ASSUME TypeOK, NEW p \in Procs, Send(p) PROVE TypeOK'
<1>1. CASE job[p].left = <<>> /\ Moves(p, "idle", NoJob) /\ UNCHANGED <<sent, tried>>
  <2>1. TypeRest'
    BY <1>1, SendFacts DEF TypeRest, TypeOK
  <2> QED BY <1>1, <2>1, MoveType, NoJobType DEF Labels
<1>2. CASE /\ job[p].left # <<>> /\ Mails(p, Tail(job[p].left))
           /\ tried' = IF p = Alerter /\ Head(job[p].left) # None
                       THEN tried \cup {Head(job[p].left)} ELSE tried
  <2>1. Head(job[p].left) \in Addresses \cup {None} /\ Tail(job[p].left) \in Seq(Addresses \cup {None})
    BY <1>2, JobFacts, RangeTail
  <2>2. LeftJob(p, Tail(job[p].left)) \in Job
    BY <2>1, LeftJobFacts
  <2>3. tried' \subseteq Addresses /\ sent' \in [Procs -> Setting \cup {None}]
    BY <1>2, <2>1, JobFacts DEF TypeOK, Mails
  <2>4. TypeRest'
    BY <2>3, SendFacts DEF TypeRest, TypeOK
  <2> QED BY <1>2, <2>2, <2>4, MoveType DEF Mails, Labels
<1> QED BY <1>1, <1>2, SendFacts

LEMMA InitType == Init => TypeOK
<1> SUFFICES ASSUME Init PROVE TypeOK
  OBVIOUS
<1>1. Blank \in Setting /\ NoJob \in Job
  BY NoJobType
<1>2. TypeReq
  BY <1>1 DEF Init, TypeReq, Labels
<1>3. table \in Setting /\ config \in Configs
  BY ChoicesAssumption DEF Init
<1>4. enabled \in [Tabs -> BOOLEAN]
  BY DEF Init, SmtpEnabled
<1>5. requests \in 0..MaxRequests /\ failures \in 0..MaxFailures
  BY BoundAssumption DEF Init
<1>6. TypeRest
  BY <1>3, <1>4, <1>5 DEF Init, TypeRest
<1> QED BY <1>2, <1>6, TypeParts

LEMMA StepType == TypeOK /\ [Next]_vars => TypeOK'
<1> SUFFICES ASSUME TypeOK, [Next]_vars PROVE TypeOK'
  OBVIOUS
<1>1. ASSUME NEW t \in Tabs, Test(t) \/ Email(t) PROVE TypeOK'
  <2>1. PICK a \in Addresses : Begin(t, "mail", <<a>>)
    BY <1>1 DEF Test, Email, ToOne
  <2>2. <<a>> \in Seq(Addresses \cup {None})
    OBVIOUS
  <2> QED BY <2>1, <2>2, BeginType DEF Ops, Procs
<1>2. CASE Alert
  BY <1>2, ListsAssumption, BeginType DEF Alert, Ops, Procs
<1>3. ASSUME NEW t \in Tabs, Cancel(t) PROVE TypeOK'
  BY <1>3 DEF Cancel, history, TypeOK
<1>4. CASE UNCHANGED vars
  BY <1>4 DEF vars, history, TypeOK
<1>5. ASSUME NEW t \in Tabs, Open(t) \/ Save(t) \/ Remove(t) PROVE TypeOK'
  BY <1>5, OpenType, SaveType, RemoveType
<1>6. ASSUME NEW p \in Procs, Put(p) \/ Clear(p) \/ Read(p) \/ Send(p) PROVE TypeOK'
  BY <1>6, PutType, ClearType, ReadType, SendType
<1> QED BY <1>1, <1>2, <1>3, <1>4, <1>5, <1>6 DEF Next

(***************************************************************************)
(* Every row, every form and every request under way has the shape the     *)
(* handlers of handler_settings.go and smtp.go give it.                    *)
(***************************************************************************)
THEOREM TypeOKCorrect == Spec => []TypeOK
BY InitType, StepType, PTL DEF Spec

-----------------------------------------------------------------------------
(***************************************************************************)
(* The register.  While nobody writes, the rows are what was agreed; a     *)
(* writer that met nobody has written the first of its keys, and a reader  *)
(* that met none has read the first of them.                               *)
(***************************************************************************)

\* What is agreed is in the table, and then nobody writes; otherwise no reader
\* is promised anything.
Agreed == agreed # Torn => Writers = {} /\ table = agreed
Unseen == agreed = Torn => \A p \in Procs : job[p].view = Torn
Alone  == \A p \in Writers : job[p].alone => Writers = {p}

\* A save that is alone has written its keys up to the next one, and has not
\* touched a password that was left blank.
Written(p, t, i) ==
    /\ \A n \in 1..6 : n < i => \/ t[Order[n]] = Norm(Order[n], job[p].set[Order[n]])
                                \/ Order[n] = "password" /\ job[p].set["password"] = None
    /\ (job[p].set["password"] = None /\ job[p].base # Torn) =>
          t["password"] = job[p].base["password"]
Puts == \A p \in Procs : (pc[p] = "put" /\ job[p].alone) => Written(p, table, job[p].i)

\* A removal that is alone has cleared its keys up to the next one.
Cleared(t, i) == \A n \in 1..6 : n < i => t[Order[n]] = None
Clears == \A p \in Procs : (pc[p] = "clear" /\ job[p].alone) => Cleared(table, job[p].i)

\* A reader with a view has read its keys up to the next one, and a sender with a
\* view carries it.
ReadTo(s, i) == /\ \A n \in 1..6 : n < i => s[Order[n]] = table[Order[n]]
                /\ i > 1 => table["host"] # None
Reads == \A p \in Procs : (pc[p] = "read" /\ job[p].view # Torn) =>
            job[p].view = Effective(table) /\ ReadTo(job[p].set, job[p].i)
Sends == \A p \in Procs : (pc[p] = "send" /\ job[p].view # Torn) => job[p].set = job[p].view

\* Nobody saves after a removal that has begun, and there is no host.
Removed == off => table["host"] = None /\ \A p \in Procs : pc[p] # "put"

Inv == TypeOK /\ Agreed /\ Unseen /\ Alone /\ Puts /\ Clears /\ Reads /\ Sends /\ Removed


LEMMA InitInv == Init => Inv
<1> SUFFICES ASSUME Init PROVE Inv
  OBVIOUS
<1>1. TypeOK
  BY InitType
<1>2. \A p \in Procs : pc[p] = "idle" /\ job[p].view = Torn
  BY DEF Init, NoJob
<1>3. Writers = {}
  BY <1>2 DEF Writers
<1> QED BY <1>1, <1>2, <1>3 DEF Init, Inv, Agreed, Unseen, Alone, Puts, Clears, Reads, Sends,
       Removed

\* A request that does not write: the table stays, and what it has seen is right.
LEMMA QuietInv ==
    ASSUME Inv, NEW p \in Procs, NEW l \in Labels, NEW j \in Job, Moves(p, l, j), TypeOK',
           UNCHANGED <<config, table, agreed, off>>,
           pc[p] \notin {"put", "clear"}, l \notin {"put", "clear"},
           agreed = Torn => j.view = Torn,
           (l = "read" /\ j.view # Torn) => j.view = Effective(table) /\ ReadTo(j.set, j.i),
           (l = "send" /\ j.view # Torn) => j.set = j.view
    PROVE  Inv'
<1>1. /\ pc'[p] = l /\ job'[p] = j
      /\ \A q \in Procs \ {p} : pc'[q] = pc[q] /\ job'[q] = job[q]
  BY MovesFacts DEF Inv
<1>2. Writers' = Writers /\ p \notin Writers
  BY <1>1 DEF Writers
<1>3. Agreed' /\ Unseen' /\ Alone'
  <2>1. Agreed' /\ Unseen'
    BY <1>1, <1>2 DEF Inv, Agreed, Unseen
  <2>2. \A q \in Writers : q \in Procs /\ q # p
    BY <1>2 DEF Writers
  <2>3. Alone'
    BY <1>1, <1>2, <2>2 DEF Inv, Alone
  <2> QED BY <2>1, <2>3
<1>5. Puts' /\ Clears'
  BY <1>1 DEF Inv, Puts, Clears, Written, Cleared
<1>6. Effective(table)' = Effective(table)
  BY DEF Effective, Norm
<1>7. Reads' /\ Sends'
  BY <1>1, <1>6 DEF Inv, Reads, Sends, ReadTo
<1>8. Removed'
  BY <1>1 DEF Inv, Removed
<1> QED BY <1>3, <1>5, <1>7, <1>8 DEF Inv

LEMMA OpenInv == ASSUME Inv, NEW t \in Tabs, Open(t) PROVE Inv'
<1> DEFINE j == [NoJob EXCEPT !.op = "load", !.view = ViewNow]
<1>1. TypeOK /\ TypeOK'
  BY OpenType DEF Inv
<1>2. Moves(t, "read", j) /\ pc[t] = "idle" /\ UNCHANGED <<config, table, agreed, off>>
  BY DEF Open, Arrive, Goto, Moves, ViewNow, history
<1>3. j \in Job /\ j.view = ViewNow /\ j.i = 1
  BY <1>1, NoJobType, ViewType DEF Job, Ops, NoJob
<1>4. ViewNow # Torn => ViewNow = Effective(table)
  BY DEF Inv, Agreed, ViewNow
<1>5. ReadTo(j.set, 1)
  BY DEF ReadTo
<1> HIDE DEF j
<1> QED BY <1>1, <1>2, <1>3, <1>4, <1>5, QuietInv DEF Labels, Procs, ViewNow

LEMMA BeginInv ==
    ASSUME Inv, NEW p \in Procs, NEW op \in Ops, NEW l \in Seq(Addresses \cup {None}),
           Begin(p, op, l)
    PROVE  Inv'
<1> DEFINE j == [NoJob EXCEPT !.op = op, !.left = l, !.all = l, !.view = ViewNow]
<1>1. TypeOK /\ TypeOK'
  BY BeginType DEF Inv
<1>2. Moves(p, "read", j) /\ pc[p] = "idle" /\ UNCHANGED <<config, table, agreed, off>>
  BY DEF Begin, Arrive, Goto, Moves, ViewNow
<1>3. j \in Job /\ j.view = ViewNow /\ j.i = 1
  BY <1>1, NoJobType, ViewType DEF Job, NoJob
<1>4. ViewNow # Torn => ViewNow = Effective(table)
  BY DEF Inv, Agreed, ViewNow
<1>5. ReadTo(j.set, 1)
  BY DEF ReadTo
<1> HIDE DEF j
<1> QED BY <1>1, <1>2, <1>3, <1>4, <1>5, QuietInv DEF Labels, ViewNow

\* A reader with a view that goes on has read one more row; when it is through,
\* what it has read is what its view says.
LEMMA ReadRight ==
    ASSUME Inv, NEW p \in Procs, pc[p] = "read", job[p].view # Torn
    PROVE  /\ agreed # Torn /\ table = agreed
           /\ ~GotAll(p, table[Key(p)]) =>
                ReadTo(GotSet(p, table[Key(p)]), job[p].i + 1)
           /\ GotAll(p, table[Key(p)]) => Outcome(p, table[Key(p)]) = Effective(table)
           /\ job[p].view = Effective(table)
<1>1. /\ TypeOK /\ agreed # Torn /\ table = agreed /\ job[p].view = Effective(table)
      /\ ReadTo(job[p].set, job[p].i)
  BY DEF Inv, Unseen, Agreed, Reads
<1>2. /\ job[p].i \in 1..6 /\ job[p].set \in Setting /\ table \in Setting
      /\ Key(p) = Order[job[p].i] /\ Key(p) \in Fields
  BY <1>1, JobFacts DEF TypeOK, Key, Me
<1> DEFINE got == GotSet(p, table[Key(p)])
<1>3. got \in [Fields -> Values \cup {None, Default}]
  BY <1>2 DEF GotSet, Setting
<1>4. \A n \in 1..6 : n < job[p].i + 1 => got[Order[n]] = table[Order[n]]
  BY <1>1, <1>2, OrderFacts DEF GotSet, ReadTo, Setting
<1>5. ASSUME ~GotAll(p, table[Key(p)]) PROVE ReadTo(got, job[p].i + 1)
  <2>1. table["host"] # None
    BY <1>1, <1>2, <1>5, OrderFacts DEF GotAll, ReadTo
  <2> QED BY <1>4, <2>1 DEF ReadTo
<1>6. ASSUME GotAll(p, table[Key(p)]) PROVE Outcome(p, table[Key(p)]) = Effective(table)
  <2>1. CASE job[p].i = 1 /\ table[Key(p)] = None
    <3>1. table["host"] = None /\ Blank["host"] = None
      BY <1>2, <2>1, OrderFacts DEF Blank, Fields
    <3> QED BY <2>1, <3>1 DEF Outcome, Effective
  <2>2. CASE ~(job[p].i = 1 /\ table[Key(p)] = None)
    <3>1. job[p].i = 6
      BY <1>6, <2>2 DEF GotAll
    <3>2. \A k \in Fields : got[k] = table[k]
      BY <1>4, <3>1, OrderFacts
    <3>3. got = table
      BY <1>2, <1>3, <3>2 DEF Setting
    <3> QED BY <2>2, <3>3 DEF Outcome
  <2> QED BY <2>1, <2>2
<1> QED BY <1>1, <1>5, <1>6

LEMMA ReadInv == ASSUME Inv, NEW p \in Procs, Read(p) PROVE Inv'
<1>1. TypeOK /\ TypeOK'
  BY ReadType DEF Inv
<1>2. /\ pc[p] = "read" /\ UNCHANGED <<config, table, agreed, off>>
  BY <1>1, ReadFacts
<1>3. PICK x \in Values \cup {None, Default}, v \in Setting \cup {None, Torn} :
          /\ v # Torn => v = job[p].view /\ x = table[Key(p)]
          /\ ReadSteps(p, x, v)
  BY <1>1, ReadFacts
<1>4. agreed = Torn => v = Torn
  BY <1>3 DEF Inv, Unseen
<1>5. Outcome(p, x) \in Setting \cup {None} /\ GotSet(p, x) \in Setting
  BY <1>1, OutcomeType
<1>6. CASE GoesOn(p, x, v)
  <2> DEFINE j == ReadJob(p, GotSet(p, x), job[p].i + 1, v)
  <2>1. job[p].i + 1 \in 1..6
    BY <1>1, <1>6, JobFacts DEF GoesOn, GotAll
  <2>2. j \in Job /\ j.set = GotSet(p, x) /\ j.i = job[p].i + 1 /\ j.view = v
    BY <1>1, <1>5, <2>1, ReadJobFacts
  <2>3. v # Torn => v = Effective(table) /\ ReadTo(GotSet(p, x), job[p].i + 1)
    BY <1>2, <1>3, <1>6, ReadRight DEF GoesOn
  <2>4. Moves(p, "read", j)
    BY <1>6 DEF GoesOn
  <2> HIDE DEF j
  <2> QED BY <1>1, <1>2, <1>4, <2>2, <2>3, <2>4, QuietInv DEF Labels
<1>7. CASE Turns(p, x, v)
  <2> DEFINE j == ReadJob(p, Outcome(p, x), 1, v)
  <2>1. j \in Job /\ j.set = Outcome(p, x) /\ j.view = v
    BY <1>1, <1>5, <1>7, ReadJobFacts DEF Turns
  <2>2. v # Torn => Outcome(p, x) = v
    BY <1>2, <1>3, <1>7, ReadRight DEF Turns
  <2>3. Moves(p, "send", j)
    BY <1>7 DEF Turns
  <2> HIDE DEF j
  <2> QED BY <1>1, <1>2, <1>4, <2>1, <2>2, <2>3, QuietInv DEF Labels
<1>8. CASE Moves(p, "idle", NoJob)
  <2>1. NoJob.view = Torn
    BY DEF NoJob
  <2> QED BY <1>1, <1>2, <1>8, <2>1, NoJobType, QuietInv DEF Labels
<1> QED BY <1>3, <1>6, <1>7, <1>8 DEF ReadSteps, Fills, GivesUp

LEMMA SendInv == ASSUME Inv, NEW p \in Procs, Send(p) PROVE Inv'
<1>1. TypeOK /\ TypeOK'
  BY SendType DEF Inv
<1>2. pc[p] = "send" /\ UNCHANGED <<config, table, agreed, off>>
  BY <1>1, SendFacts
<1>3. CASE Moves(p, "idle", NoJob)
  <2>1. NoJob.view = Torn
    BY DEF NoJob
  <2> QED BY <1>1, <1>2, <1>3, <2>1, NoJobType, QuietInv DEF Labels
<1>4. CASE job[p].left # <<>> /\ Mails(p, Tail(job[p].left))
  <2> DEFINE j == LeftJob(p, Tail(job[p].left))
  <2>1. j \in Job /\ j.set = job[p].set /\ j.view = job[p].view
    BY <1>1, <1>4, JobFacts, RangeTail, LeftJobFacts
  <2>2. agreed = Torn => job[p].view = Torn
    BY DEF Inv, Unseen
  <2>3. job[p].view # Torn => job[p].set = job[p].view
    BY <1>2 DEF Inv, Sends
  <2>4. Moves(p, "send", j)
    BY <1>4 DEF Mails
  <2> HIDE DEF j
  <2> QED BY <1>1, <1>2, <2>1, <2>2, <2>3, <2>4, QuietInv DEF Labels
<1> QED BY <1>1, <1>3, <1>4, SendFacts

\* A request that changes the settings begins: nothing is agreed any more, nobody
\* has a view, and it is alone only when nobody else writes.
LEMMA DisturbInv ==
    ASSUME Inv, NEW p \in Procs, NEW l \in {"put", "clear"}, NEW j \in Job, j.i = 1,
           j.view = Torn, Disturb(p, j), Goto(p, l), pc[p] = "idle", TypeOK',
           UNCHANGED <<config, table>>, off' = (IF l = "put" THEN FALSE ELSE off)
    PROVE  Inv'
<1> DEFINE own == [j EXCEPT !.alone = (Writers = {}), !.base = agreed]
           other(q) == [job[q] EXCEPT !.view = Torn, !.alone = (q \notin Writers)]
<1>1. TypeOK
  BY DEF Inv
<1>2. agreed' = Torn /\ job'[p] = own /\ \A q \in Procs \ {p} : job'[q] = other(q)
  BY <1>1, DisturbFacts DEF Disturb
<1>3. own.alone = (Writers = {}) /\ own.base = agreed /\ own.view = Torn /\ own.i = 1
  BY DEF Job
<1>4. \A q \in Procs : other(q).view = Torn /\ other(q).alone = (q \notin Writers)
  BY <1>1, JobFacts DEF Job
<1>5. pc'[p] = l /\ \A q \in Procs \ {p} : pc'[q] = pc[q]
  BY <1>1 DEF TypeOK, Goto
<1>6. Writers' = Writers \cup {p} /\ p \notin Writers
  BY <1>5 DEF Writers
<1> HIDE DEF own, other
<1>7. \A q \in Procs : job'[q].view = Torn
  BY <1>2, <1>3, <1>4
<1>8. \A q \in Writers' : job'[q].alone => q = p /\ Writers = {}
  BY <1>2, <1>3, <1>4, <1>6 DEF Writers
<1>9. job'[p].i = 1 /\ job'[p].base = agreed
  BY <1>2, <1>3
<1>10. Agreed' /\ Unseen' /\ Alone' /\ Reads' /\ Sends'
  BY <1>2, <1>6, <1>7, <1>8 DEF Agreed, Unseen, Alone, Reads, Sends
<1>11. Puts'
  <2> SUFFICES ASSUME NEW q \in Procs, pc'[q] = "put", job'[q].alone
               PROVE  Written(q, table, job[q].i)'
    BY DEF Puts
  <2>1. q = p /\ job'[q].i = 1 /\ job'[q].base = agreed
    BY <1>8, <1>9 DEF Writers
  <2>2. agreed # Torn => table' = agreed
    BY DEF Inv, Agreed
  <2> QED BY <2>1, <2>2 DEF Written
<1>12. Clears'
  BY <1>8, <1>9 DEF Clears, Cleared, Writers
<1>13. Removed'
  BY <1>5 DEF Inv, Removed
<1> QED BY <1>10, <1>11, <1>12, <1>13 DEF Inv

LEMMA SaveInv == ASSUME Inv, NEW t \in Tabs, Save(t) PROVE Inv'
<1> DEFINE j(e) == [NoJob EXCEPT !.op = "save", !.set = Body(t, e)]
<1>1. TypeOK /\ TypeOK'
  BY SaveType DEF Inv
<1>2. PICK e \in Edits : Disturb(t, j(e))
  BY DEF Save
<1>3. j(e) \in Job /\ j(e).i = 1 /\ j(e).view = Torn
  BY <1>1, BodyType, NoJobType DEF Save, Job, Ops, NoJob
<1>4. /\ Goto(t, "put") /\ pc[t] = "idle" /\ UNCHANGED <<config, table>> /\ off' = FALSE
  BY DEF Save, Arrive
<1> HIDE DEF j
<1> QED BY <1>1, <1>2, <1>3, <1>4, DisturbInv DEF Procs

LEMMA RemoveInv == ASSUME Inv, NEW t \in Tabs, Remove(t) PROVE Inv'
<1> DEFINE j == [NoJob EXCEPT !.op = "remove"]
<1>1. TypeOK /\ TypeOK'
  BY RemoveType DEF Inv
<1>2. j \in Job /\ j.i = 1 /\ j.view = Torn
  BY NoJobType DEF Job, Ops, NoJob
<1>3. /\ Disturb(t, j) /\ Goto(t, "clear") /\ pc[t] = "idle" /\ UNCHANGED <<config, table, off>>
  BY DEF Remove, Arrive
<1> HIDE DEF j
<1> QED BY <1>1, <1>2, <1>3, DisturbInv DEF Procs

\* A step of a writer: no request has a view before or after it.
LEMMA WriterViews ==
    ASSUME Inv, NEW p \in Writers, NEW l, NEW j \in Job, j.view = Torn, Moves(p, l, j)
    PROVE  agreed = Torn /\ Unseen' /\ Reads' /\ Sends'
<1>1. p \in Procs /\ TypeOK
  BY DEF Writers, Inv
<1>2. agreed = Torn /\ \A q \in Procs : job[q].view = Torn
  BY DEF Inv, Agreed, Unseen
<1>3. \A q \in Procs : job'[q].view = Torn
  BY <1>1, <1>2, MovesFacts
<1> QED BY <1>2, <1>3 DEF Unseen, Reads, Sends

\* The writers that are left are alone if they were.
LEMMA WriterAlone ==
    ASSUME Inv, NEW p \in Writers, NEW l, NEW j, Moves(p, l, j),
           \/ l = pc[p] /\ j.alone = job[p].alone
           \/ l = "idle"
    PROVE  /\ Alone' /\ Writers' \subseteq Writers /\ (l = "idle" => Writers' = Writers \ {p})
           /\ \A q \in Writers \ {p} : ~job[q].alone /\ ~job'[q].alone
<1>1. p \in Procs /\ TypeOK /\ pc[p] \in {"put", "clear"}
  BY DEF Writers, Inv
<1>2. /\ pc'[p] = l /\ job'[p] = j
      /\ \A q \in Procs \ {p} : pc'[q] = pc[q] /\ job'[q] = job[q]
  BY <1>1, MovesFacts
<1>3. Writers' = IF l = "idle" THEN Writers \ {p} ELSE Writers
  <2>1. CASE l = "idle"
    BY <1>2, <2>1 DEF Writers
  <2>2. CASE l = pc[p]
    BY <1>1, <1>2, <2>2 DEF Writers
  <2> QED BY <2>1, <2>2
<1>4. \A q \in Writers \ {p} : q \in Procs /\ ~job[q].alone /\ ~job'[q].alone
  BY <1>1, <1>2 DEF Inv, Alone, Writers
<1>5. Alone'
  BY <1>2, <1>3, <1>4 DEF Inv, Alone
<1> QED BY <1>3, <1>4, <1>5

\* The row that a save writes next.
PutRow(p) == IF Skips(p) THEN table
             ELSE [table EXCEPT ![Key(p)] = Norm(Key(p), job[p].set[Key(p)])]

LEMMA PutRight ==
    ASSUME Inv, NEW p \in Procs, pc[p] = "put", job[p].alone
    PROVE  Written(p, PutRow(p), job[p].i + 1)
<1>1. TypeOK /\ Written(p, table, job[p].i)
  BY DEF Inv, Puts
<1>2. /\ job[p].i \in 1..6 /\ job[p].set \in Setting /\ table \in Setting
      /\ Key(p) = Order[job[p].i] /\ Key(p) \in Fields
  BY <1>1, JobFacts DEF TypeOK, Key, Me
<1>3. \/ PutRow(p)[Key(p)] = Norm(Key(p), job[p].set[Key(p)])
      \/ Key(p) = "password" /\ job[p].set["password"] = None
  <2>1. CASE Skips(p)
    BY <2>1 DEF Skips, Me
  <2>2. CASE ~Skips(p)
    <3>1. PutRow(p) = [table EXCEPT ![Key(p)] = Norm(Key(p), job[p].set[Key(p)])]
      BY <2>2 DEF PutRow
    <3>2. ASSUME NEW k \in Fields, NEW v PROVE [table EXCEPT ![k] = v][k] = v
      BY <1>2 DEF Setting
    <3> QED BY <1>2, <3>1, <3>2
  <2> QED BY <2>1, <2>2
<1>4. \A k \in Fields \ {Key(p)} : PutRow(p)[k] = table[k]
  BY <1>2 DEF PutRow, Setting
<1>5. \A n \in 1..6 : n < job[p].i + 1 =>
          \/ PutRow(p)[Order[n]] = Norm(Order[n], job[p].set[Order[n]])
          \/ Order[n] = "password" /\ job[p].set["password"] = None
  <2> SUFFICES ASSUME NEW n \in 1..6, n < job[p].i + 1
               PROVE  \/ PutRow(p)[Order[n]] = Norm(Order[n], job[p].set[Order[n]])
                      \/ Order[n] = "password" /\ job[p].set["password"] = None
    OBVIOUS
  <2>1. CASE n = job[p].i
    BY <1>2, <1>3, <2>1
  <2>2. CASE n # job[p].i
    <3>1. n < job[p].i /\ Order[n] \in Fields \ {Key(p)}
      BY <1>2, <2>2, OrderFacts
    <3> QED BY <1>1, <1>4, <3>1 DEF Written
  <2> QED BY <2>1, <2>2
<1>6. job[p].set["password"] = None => PutRow(p)["password"] = table["password"]
  <2>1. CASE Key(p) = "password"
    BY <2>1 DEF PutRow, Skips, Me
  <2>2. CASE Key(p) # "password"
    BY <1>4, <2>2 DEF Fields
  <2> QED BY <2>1, <2>2
<1> QED BY <1>1, <1>5, <1>6 DEF Written

\* After the last one the table is what was asked for.
LEMMA AskedRight ==
    ASSUME Inv, NEW p \in Procs, pc[p] = "put", job[p].alone, job[p].i = 6,
           PutRow(p) \in Setting, Asked(p) # Torn
    PROVE  Asked(p) = PutRow(p)
<1>1. TypeOK /\ Written(p, PutRow(p), 7)
  BY PutRight DEF Inv
<1>2. \A k \in Fields : \/ PutRow(p)[k] = Norm(k, job[p].set[k])
                        \/ k = "password" /\ job[p].set["password"] = None
  BY <1>1, OrderFacts DEF Written
<1>3. PutRow(p) = [k \in Fields |-> PutRow(p)[k]]
  BY DEF Setting
<1>4. CASE job[p].set["password"] # None
  <2>1. \A k \in Fields : PutRow(p)[k] = Norm(k, job[p].set[k])
    BY <1>2, <1>4
  <2>2. Asked(p) = [k \in Fields |-> Norm(k, job[p].set[k])]
    BY <1>4 DEF Asked, Me
  <2> QED BY <1>3, <2>1, <2>2
<1>5. CASE job[p].set["password"] = None
  <2>1. job[p].base # Torn
    BY <1>5 DEF Asked, Me
  <2>2. PutRow(p)["password"] = job[p].base["password"]
    BY <1>1, <1>5, <2>1 DEF Written
  <2>3. Asked(p) = [k \in Fields |-> IF k = "password" THEN job[p].base[k]
                                     ELSE Norm(k, job[p].set[k])]
    BY <1>5, <2>1 DEF Asked, Me
  <2>4. \A k \in Fields : PutRow(p)[k] = IF k = "password" THEN job[p].base[k]
                                         ELSE Norm(k, job[p].set[k])
    BY <1>2, <2>2
  <2> QED BY <1>3, <2>3, <2>4
<1> QED BY <1>4, <1>5

LEMMA PutInv == ASSUME Inv, NEW p \in Procs, Put(p) PROVE Inv'
<1>1. /\ TypeOK /\ TypeOK' /\ pc[p] = "put" /\ p \in Writers
      /\ UNCHANGED <<config, off>> /\ table' \in {table, PutRow(p)} /\ off = FALSE
  BY PutType DEF Inv, Put, At, Writers, PutRow, Me, Removed, TypeOK
<1>2. /\ table \in Setting /\ table' \in Setting /\ job[p] \in Job /\ job[p].i \in 1..6
      /\ job[p].alone \in BOOLEAN
  BY <1>1, JobFacts DEF TypeOK
<1>3. NoJob \in Job /\ NoJob.view = Torn
  BY NoJobType DEF NoJob
<1>4. Removed'
  BY <1>1 DEF Removed
<1>5. CASE Moves(p, "idle", NoJob)
  <2>1. agreed = Torn /\ Unseen' /\ Reads' /\ Sends'
    BY <1>1, <1>3, <1>5, WriterViews
  <2>2. /\ Alone' /\ Writers' = Writers \ {p}
        /\ \A q \in Writers \ {p} : ~job'[q].alone
    BY <1>1, <1>5, WriterAlone
  <2>3. pc'[p] = "idle" /\ \A q \in Procs \ {p} : pc'[q] = pc[q]
    BY <1>1, <1>5, MovesFacts
  <2>4. Puts' /\ Clears'
    BY <2>2, <2>3 DEF Puts, Clears, Writers
  <2>5. agreed' # Torn => Writers' = {} /\ table' = agreed'
    <3>1. ASSUME agreed' # Torn
          PROVE  job[p].alone /\ job[p].i = 6 /\ agreed' = Asked(p) /\ table' = PutRow(p)
      BY <1>1, <1>2, <2>1, <3>1 DEF Put, Settle, Me, PutRow
    <3>2. job[p].alone => Writers = {p}
      BY <1>1 DEF Inv, Alone
    <3> QED BY <1>1, <1>2, <2>2, <3>1, <3>2, AskedRight
  <2> QED BY <1>1, <1>4, <2>1, <2>2, <2>4, <2>5 DEF Inv, Agreed
<1>6. CASE ~Moves(p, "idle", NoJob)
  <2>1. /\ job' = [job EXCEPT ![p].i = @ + 1] /\ UNCHANGED <<pc, agreed>> /\ job[p].i < 6
        /\ table' = PutRow(p)
    BY <1>6, FinishMoves DEF Put, Me, PutRow
  <2> DEFINE j == NextJob(p)
  <2>2. /\ Moves(p, "put", j) /\ j \in Job /\ j.i = job[p].i + 1
        /\ j.set = job[p].set /\ j.alone = job[p].alone /\ j.base = job[p].base
        /\ j.view = job[p].view
    BY <1>1, <2>1, NextKey
  <2> HIDE DEF j
  <2>3. job[p].view = Torn
    BY <1>1 DEF Inv, Agreed, Unseen
  <2>4. agreed = Torn /\ Unseen' /\ Reads' /\ Sends'
    BY <1>1, <2>2, <2>3, WriterViews
  <2>5. Alone' /\ \A q \in Writers \ {p} : ~job'[q].alone
    BY <1>1, <2>2, WriterAlone
  <2>6. /\ pc'[p] = "put" /\ job'[p] = j /\ \A q \in Procs \ {p} : pc'[q] = pc[q]
    BY <1>1, <2>2, MovesFacts
  <2>7. Clears'
    BY <2>5, <2>6 DEF Clears, Writers
  <2>8. Puts'
    <3> SUFFICES ASSUME NEW q \in Procs, pc'[q] = "put", job'[q].alone
                 PROVE  Written(q, table, job[q].i)'
      BY DEF Puts
    <3>1. q = p
      BY <2>5, <2>6 DEF Writers
    <3>2. Written(p, PutRow(p), job[p].i + 1)
      BY <1>1, <2>2, <2>6, <3>1, PutRight
    <3> QED BY <2>1, <2>2, <2>6, <3>1, <3>2 DEF Written
  <2> QED BY <1>1, <1>4, <2>1, <2>4, <2>5, <2>7, <2>8 DEF Inv, Agreed
<1> QED BY <1>5, <1>6

LEMMA ClearRight ==
    ASSUME Inv, NEW p \in Procs, pc[p] = "clear", job[p].alone
    PROVE  Cleared([table EXCEPT ![ClearKey(p)] = None], job[p].i + 1)
<1>1. TypeOK /\ Cleared(table, job[p].i)
  BY DEF Inv, Clears
<1>2. /\ job[p].i \in 1..6 /\ table \in Setting
      /\ ClearKey(p) = Order[job[p].i] /\ ClearKey(p) \in Fields
  BY <1>1, JobFacts DEF TypeOK, ClearKey, Me
<1> QED BY <1>1, <1>2, OrderFacts DEF Cleared, Setting

LEMMA ClearInv == ASSUME Inv, NEW p \in Procs, Clear(p) PROVE Inv'
<1> DEFINE row == [table EXCEPT ![ClearKey(p)] = None]
<1>1. /\ TypeOK /\ TypeOK' /\ pc[p] = "clear" /\ p \in Writers
      /\ UNCHANGED config /\ table' \in {table, row}
  BY ClearType DEF Inv, Clear, At, Writers, Me
<1>2. /\ table \in Setting /\ table' \in Setting /\ job[p] \in Job /\ job[p].i \in 1..6
      /\ job[p].alone \in BOOLEAN /\ off \in BOOLEAN
  BY <1>1, JobFacts DEF TypeOK
<1>3. NoJob \in Job /\ NoJob.view = Torn
  BY NoJobType DEF NoJob
<1>4. /\ \/ table' = table /\ off' = off
         \/ table' = row /\ off' = (job[p].alone \/ off)
      /\ \A q \in Procs : pc'[q] = "put" => pc[q] = "put" /\ q # p
  <2>1. pc' = [pc EXCEPT ![p] = "idle"] \/ pc' = pc
    BY DEF Clear, Finish, Goto
  <2> QED BY <1>1, <2>1 DEF Clear, Me, TypeOK
<1>5. job[p].alone => Cleared(row, job[p].i + 1)
  BY <1>1, ClearRight
<1>6. job[p].alone => Writers = {p}
  BY <1>1 DEF Inv, Alone
<1>7. Removed'
  <2>1. table["host"] = None => row["host"] = None
    BY <1>2 DEF Setting
  <2>2. job[p].alone => row["host"] = None
    BY <1>2, <1>5, OrderFacts DEF Cleared
  <2>3. job[p].alone => \A q \in Procs : pc'[q] # "put"
    BY <1>4, <1>6 DEF Writers
  <2>4. off => table["host"] = None /\ \A q \in Procs : pc[q] # "put"
    BY DEF Inv, Removed
  <2>5. ASSUME off' PROVE table'["host"] = None
    <3> HIDE DEF row
    <3>1. CASE table' = table /\ off
      BY <2>4, <3>1
    <3>2. CASE table' = row
      BY <1>2, <1>4, <2>1, <2>2, <2>4, <2>5, <3>2
    <3> QED BY <1>4, <2>5, <3>1, <3>2
  <2>6. ASSUME off', NEW q \in Procs PROVE pc'[q] # "put"
    BY <1>4, <2>3, <2>4, <2>6
  <2> QED BY <2>5, <2>6 DEF Removed
<1>8. CASE Moves(p, "idle", NoJob)
  <2>1. agreed = Torn /\ Unseen' /\ Reads' /\ Sends'
    BY <1>1, <1>3, <1>8, WriterViews
  <2>2. /\ Alone' /\ Writers' = Writers \ {p}
        /\ \A q \in Writers \ {p} : ~job'[q].alone
    BY <1>1, <1>8, WriterAlone
  <2>3. pc'[p] = "idle" /\ \A q \in Procs \ {p} : pc'[q] = pc[q]
    BY <1>1, <1>8, MovesFacts
  <2>4. Puts' /\ Clears'
    BY <2>2, <2>3 DEF Puts, Clears, Writers
  <2>5. agreed' # Torn => Writers' = {} /\ table' = agreed'
    <3>1. ASSUME agreed' # Torn
          PROVE  job[p].alone /\ job[p].i = 6 /\ agreed' = Blank /\ table' = row
      BY <1>1, <1>2, <2>1, <3>1 DEF Clear, Settle, Me
    <3>2. ASSUME agreed' # Torn PROVE row = Blank
      <4>1. \A k \in Fields : row[k] = None
        BY <1>5, <3>1, <3>2, OrderFacts DEF Cleared
      <4> QED BY <1>2, <3>1, <3>2, <4>1 DEF Blank, Setting
    <3> QED BY <2>2, <3>1, <3>2, <1>6
  <2> QED BY <1>1, <1>7, <2>1, <2>2, <2>4, <2>5 DEF Inv, Agreed
<1>9. CASE ~Moves(p, "idle", NoJob)
  <2>1. /\ job' = [job EXCEPT ![p].i = @ + 1] /\ UNCHANGED <<pc, agreed>> /\ job[p].i < 6
        /\ table' = row
    BY <1>9, FinishMoves DEF Clear, Me
  <2> DEFINE j == NextJob(p)
  <2>2. /\ Moves(p, "clear", j) /\ j \in Job /\ j.i = job[p].i + 1
        /\ j.alone = job[p].alone /\ j.view = job[p].view
    BY <1>1, <2>1, NextKey
  <2> HIDE DEF j
  <2>3. job[p].view = Torn
    BY <1>1 DEF Inv, Agreed, Unseen
  <2>4. agreed = Torn /\ Unseen' /\ Reads' /\ Sends'
    BY <1>1, <2>2, <2>3, WriterViews
  <2>5. Alone' /\ \A q \in Writers \ {p} : ~job'[q].alone
    BY <1>1, <2>2, WriterAlone
  <2>6. /\ pc'[p] = "clear" /\ job'[p] = j /\ \A q \in Procs \ {p} : pc'[q] = pc[q]
    BY <1>1, <2>2, MovesFacts
  <2>7. Puts'
    BY <2>5, <2>6 DEF Puts, Writers
  <2>8. Clears'
    BY <1>5, <2>1, <2>2, <2>5, <2>6 DEF Clears, Writers
  <2> QED BY <1>1, <1>7, <2>1, <2>4, <2>5, <2>7, <2>8 DEF Inv, Agreed
<1> QED BY <1>8, <1>9

LEMMA CancelInv ==
    ASSUME Inv, TypeOK', UNCHANGED <<config, table, pc, job, agreed, off>>
    PROVE  Inv'
<1>1. Writers' = Writers /\ Effective(table)' = Effective(table)
  BY DEF Writers, Effective, Norm
<1>2. Agreed' /\ Unseen' /\ Alone'
  BY <1>1 DEF Inv, Agreed, Unseen, Alone
<1>3. Puts' /\ Clears'
  BY DEF Inv, Puts, Clears, Written, Cleared, Norm
<1>4. Reads' /\ Sends' /\ Removed'
  BY <1>1 DEF Inv, Reads, Sends, Removed, ReadTo
<1> QED BY <1>2, <1>3, <1>4 DEF Inv

LEMMA StepInv == Inv /\ [Next]_vars => Inv'
<1> SUFFICES ASSUME Inv, [Next]_vars PROVE Inv'
  OBVIOUS
<1>1. TypeOK /\ TypeOK'
  BY StepType DEF Inv
<1>2. ASSUME NEW t \in Tabs, Test(t) \/ Email(t) PROVE Inv'
  <2>1. PICK a \in Addresses : Begin(t, "mail", <<a>>)
    BY <1>2 DEF Test, Email, ToOne
  <2>2. <<a>> \in Seq(Addresses \cup {None})
    OBVIOUS
  <2> QED BY <2>1, <2>2, BeginInv DEF Ops, Procs
<1>3. CASE Alert
  BY <1>3, ListsAssumption, BeginInv DEF Alert, Ops, Procs
<1>4. ASSUME NEW t \in Tabs, Cancel(t) PROVE Inv'
  BY <1>1, <1>4, CancelInv DEF Cancel, history
<1>5. CASE UNCHANGED vars
  BY <1>1, <1>5, CancelInv DEF vars, history
<1>6. ASSUME NEW t \in Tabs, Open(t) \/ Save(t) \/ Remove(t) PROVE Inv'
  BY <1>6, OpenInv, SaveInv, RemoveInv
<1>7. ASSUME NEW p \in Procs, Put(p) \/ Clear(p) \/ Read(p) \/ Send(p) PROVE Inv'
  BY <1>7, PutInv, ClearInv, ReadInv, SendInv
<1> QED BY <1>2, <1>3, <1>4, <1>5, <1>6, <1>7 DEF Next

(***************************************************************************)
(* What the statements of handler_settings.go and smtp.go keep true of the *)
(* rows, of the requests between two of their statements and of what their *)
(* readers have seen.                                                      *)
(***************************************************************************)
THEOREM InvCorrect == Spec => []Inv
BY InitInv, StepInv, PTL DEF Spec

(***************************************************************************)
(* handleDeleteSMTP clears the host first, so that a removal that fails    *)
(* half way has turned the stored mail settings off.                       *)
(***************************************************************************)
THEOREM RemovalHoldsCorrect == Spec => []RemovalHolds
<1>1. Inv => RemovalHolds
  BY DEF Inv, Removed, RemovalHolds
<1> QED BY <1>1, InvCorrect, PTL

-----------------------------------------------------------------------------
(***************************************************************************)
(* The six rows implement one register.                                    *)
(***************************************************************************)

View == [p \in Procs |-> job[p].view]

LEMMA RegisterInit == Init => Register!Init
<1> SUFFICES ASSUME Init PROVE Register!Init
  OBVIOUS
<1>1. TypeOK
  BY InitType
<1>2. ViewNow \in Setting \cup {None}
  BY <1>1, EffectiveType, ChoicesAssumption DEF Init, ViewNow, TypeOK
<1>3. View = [p \in Procs |-> Torn]
  BY DEF Init, NoJob, View
<1> QED BY <1>2, <1>3 DEF Init, Register!Init, ViewNow, View

\* One request moves: the others keep their views.
LEMMA ViewMoves ==
    ASSUME TypeOK, NEW p \in Procs, NEW l, NEW j, Moves(p, l, j)
    PROVE  /\ View' = [View EXCEPT ![p] = j.view]
           /\ j.view = job[p].view => View' = View
<1>1. job'[p] = j /\ \A q \in Procs \ {p} : job'[q] = job[q]
  BY MovesFacts
<1>2. View' = [q \in Procs |-> job'[q].view]
  BY DEF View
<1>3. [View EXCEPT ![p] = j.view] = [q \in Procs |-> IF q = p THEN j.view ELSE View[q]]
  BY DEF View
<1>4. \A q \in Procs : View[q] = job[q].view
  BY DEF View
<1>5. \A q \in Procs : job'[q].view = IF q = p THEN j.view ELSE View[q]
  BY <1>1, <1>4
<1>6. View' = [View EXCEPT ![p] = j.view]
  BY <1>2, <1>3, <1>5
<1>7. ASSUME j.view = job[p].view PROVE View' = View
  <2>1. \A q \in Procs : job'[q].view = job[q].view
    BY <1>1, <1>7
  <2> QED BY <1>2, <2>1 DEF View
<1> QED BY <1>6, <1>7

LEMMA NowStays == UNCHANGED <<config, agreed>> => ViewNow' = ViewNow
BY DEF ViewNow, Effective, Norm

LEMMA RegisterBegin ==
    ASSUME TypeOK, NEW p \in Procs, NEW j, j.view = ViewNow, Moves(p, "read", j),
           UNCHANGED <<config, agreed, sent>>
    PROVE  Register!Next
<1>1. View' = [View EXCEPT ![p] = ViewNow] /\ ViewNow' = ViewNow
  BY ViewMoves, NowStays
<1>2. Register!Begin(p)
  BY <1>1 DEF Register!Begin, View, ViewNow
<1> QED BY <1>2 DEF Register!Next

LEMMA RegisterBlur ==
    ASSUME TypeOK, NEW p \in Procs, NEW l, NEW j, j.view \in {job[p].view, Torn},
           Moves(p, l, j), UNCHANGED <<config, agreed, sent>>
    PROVE  [Register!Next]_Register!vars
<1>1. View' = [View EXCEPT ![p] = j.view] /\ ViewNow' = ViewNow
  BY ViewMoves, NowStays
<1>2. CASE j.view = job[p].view
  <2>1. View' = View
    BY <1>1, <1>2 DEF View
  <2> QED BY <1>1, <2>1 DEF Register!vars, View, ViewNow
<1>3. CASE j.view = Torn
  <2>1. Register!Blur(p)
    BY <1>1, <1>3 DEF Register!Blur, View, ViewNow
  <2> QED BY <2>1 DEF Register!Next
<1> QED BY <1>2, <1>3

LEMMA RegisterDisturb ==
    ASSUME TypeOK, NEW p \in Procs, NEW j \in Job, j.view = Torn, Disturb(p, j),
           UNCHANGED <<config, sent>>
    PROVE  Register!Next
<1>1. agreed' = Torn
  BY DEF Disturb
<1>2. \A q \in Procs : job'[q].view = Torn
  <2> DEFINE own == [j EXCEPT !.alone = (Writers = {}), !.base = agreed]
             other(q) == [job[q] EXCEPT !.view = Torn, !.alone = (q \notin Writers)]
  <2>1. own.view = Torn
    BY DEF Job
  <2>2. \A q \in Procs : other(q).view = Torn
    BY JobFacts DEF Job
  <2>3. job'[p] = own /\ \A q \in Procs \ {p} : job'[q] = other(q)
    BY DisturbFacts
  <2> HIDE DEF own, other
  <2> QED BY <2>1, <2>2, <2>3
<1>3. View' = [q \in Procs |-> Torn]
  BY <1>2 DEF View
<1>4. Register!Disturb
  BY <1>1, <1>3 DEF Register!Disturb, View
<1> QED BY <1>4 DEF Register!Next

\* A writer takes a step: the register is set, or nothing happens.
LEMMA RegisterWrite ==
    ASSUME Inv, TypeOK', NEW p \in Writers, NEW l, NEW j, j.view = Torn, Moves(p, l, j),
           UNCHANGED <<config, sent>>
    PROVE  [Register!Next]_Register!vars
<1>1. TypeOK /\ p \in Procs /\ agreed = Torn /\ job[p].view = Torn
  BY DEF Inv, Writers, Agreed, Unseen
<1>2. View' = View
  BY <1>1, ViewMoves
<1>3. CASE agreed' = Torn
  BY <1>1, <1>2, <1>3 DEF Register!vars, View
<1>4. CASE agreed' # Torn
  <2>1. ViewNow = Torn /\ ViewNow' \in Setting \cup {None}
    <3>1. ASSUME NEW t \in Setting PROVE Effective(t)' = Effective(t)
      BY DEF Effective, Norm
    <3>2. agreed' \in Setting /\ config \in Configs
      BY <1>1, <1>4 DEF TypeOK
    <3>3. ViewNow' = Effective(agreed')
      BY <1>4, <3>2 DEF ViewNow, Effective, Norm
    <3> QED BY <1>1, <3>2, <3>3, EffectiveType DEF ViewNow
  <2>2. Register!Commit
    BY <1>2, <2>1 DEF Register!Commit, View, ViewNow
  <2> QED BY <2>2 DEF Register!Next
<1> QED BY <1>3, <1>4

LEMMA RegisterStep == Inv /\ [Next]_vars => [Register!Next]_Register!vars
<1> SUFFICES ASSUME Inv, [Next]_vars PROVE [Register!Next]_Register!vars
  OBVIOUS
<1>1. TypeOK /\ TypeOK' /\ Inv'
  BY StepType, StepInv DEF Inv
<1>2. ASSUME NEW t \in Tabs, Open(t) PROVE Register!Next
  <2> DEFINE j == [NoJob EXCEPT !.op = "load", !.view = ViewNow]
  <2>1. j.view = ViewNow /\ t \in Procs
    BY DEF NoJob, Procs
  <2>2. Moves(t, "read", j) /\ UNCHANGED <<config, agreed, sent>>
    BY <1>2 DEF Open, Arrive, Goto, Moves, ViewNow, history
  <2> HIDE DEF j
  <2> QED BY <1>1, <2>1, <2>2, RegisterBegin
<1>3. ASSUME NEW p \in Procs, NEW op, NEW l, Begin(p, op, l) PROVE Register!Next
  <2> DEFINE j == [NoJob EXCEPT !.op = op, !.left = l, !.all = l, !.view = ViewNow]
  <2>1. j.view = ViewNow
    BY DEF NoJob
  <2>2. Moves(p, "read", j) /\ UNCHANGED <<config, agreed, sent>>
    BY <1>3 DEF Begin, Arrive, Goto, Moves, ViewNow
  <2> HIDE DEF j
  <2> QED BY <1>1, <2>1, <2>2, RegisterBegin
<1>4. ASSUME NEW t \in Tabs, Save(t) PROVE Register!Next
  <2> DEFINE j(e) == [NoJob EXCEPT !.op = "save", !.set = Body(t, e)]
  <2>1. PICK e \in Edits : Disturb(t, j(e))
    BY <1>4 DEF Save
  <2>2. j(e) \in Job /\ j(e).view = Torn /\ t \in Procs
    BY <1>1, <1>4, BodyType, NoJobType DEF Save, Job, Ops, NoJob, Procs
  <2>3. UNCHANGED <<config, sent>>
    BY <1>4 DEF Save, Arrive
  <2> HIDE DEF j
  <2> QED BY <1>1, <2>1, <2>2, <2>3, RegisterDisturb
<1>5. ASSUME NEW t \in Tabs, Remove(t) PROVE Register!Next
  <2> DEFINE j == [NoJob EXCEPT !.op = "remove"]
  <2>1. j \in Job /\ j.view = Torn /\ t \in Procs
    BY NoJobType DEF Job, Ops, NoJob, Procs
  <2>2. Disturb(t, j) /\ UNCHANGED <<config, sent>>
    BY <1>5 DEF Remove, Arrive
  <2> HIDE DEF j
  <2> QED BY <1>1, <2>1, <2>2, RegisterDisturb
<1>6. ASSUME UNCHANGED <<config, job, agreed, sent>> PROVE UNCHANGED Register!vars
  BY <1>6, NowStays DEF Register!vars, View, ViewNow
<1>7. ASSUME NEW p \in Procs, Put(p) \/ Clear(p) PROVE [Register!Next]_Register!vars
  <2>1. p \in Writers /\ UNCHANGED <<config, sent>>
    BY <1>7 DEF Put, Clear, At, Writers
  <2>2. job[p].view = Torn /\ NoJob.view = Torn
    BY <2>1 DEF Inv, Agreed, Unseen, Writers, NoJob
  <2>3. CASE Moves(p, "idle", NoJob)
    BY <1>1, <2>1, <2>2, <2>3, RegisterWrite
  <2>4. CASE ~Moves(p, "idle", NoJob)
    <3>1. job' = [job EXCEPT ![p].i = @ + 1] /\ UNCHANGED pc /\ job[p].i < 6
      BY <1>7, <2>4, FinishMoves DEF Put, Clear, Me
    <3>2. Moves(p, pc[p], NextJob(p)) /\ NextJob(p).view = Torn
      BY <1>1, <2>2, <3>1, NextKey
    <3> QED BY <1>1, <2>1, <3>2, RegisterWrite
  <2> QED BY <2>3, <2>4
<1>8. ASSUME NEW p \in Procs, Read(p) PROVE [Register!Next]_Register!vars
  <2>1. UNCHANGED <<config, agreed, sent>>
    BY <1>1, <1>8, ReadFacts
  <2>2. PICK x \in Values \cup {None, Default}, v \in Setting \cup {None, Torn} :
            /\ v # Torn => v = job[p].view
            /\ ReadSteps(p, x, v)
    BY <1>1, <1>8, ReadFacts
  <2>3. Outcome(p, x) \in Setting \cup {None} /\ GotSet(p, x) \in Setting
    BY <1>1, OutcomeType
  <2>4. CASE Moves(p, "idle", NoJob)
    <3>1. NoJob.view = Torn
      BY DEF NoJob
    <3> QED BY <1>1, <2>1, <2>4, <3>1, RegisterBlur
  <2>5. CASE GoesOn(p, x, v)
    <3>1. job[p].i + 1 \in 1..6
      BY <1>1, <2>5, JobFacts DEF GoesOn, GotAll
    <3>2. ReadJob(p, GotSet(p, x), job[p].i + 1, v).view = v
      BY <1>1, <2>3, <3>1, ReadJobFacts
    <3> QED BY <1>1, <2>1, <2>2, <2>5, <3>2, RegisterBlur DEF GoesOn
  <2>6. CASE Turns(p, x, v)
    <3>1. ReadJob(p, Outcome(p, x), 1, v).view = v
      BY <1>1, <2>3, <2>6, ReadJobFacts DEF Turns
    <3> QED BY <1>1, <2>1, <2>2, <2>6, <3>1, RegisterBlur DEF Turns
  <2> QED BY <2>2, <2>4, <2>5, <2>6 DEF ReadSteps, Fills, GivesUp
<1>9. ASSUME NEW p \in Procs, Send(p) PROVE [Register!Next]_Register!vars
  <2>1. pc[p] = "send" /\ UNCHANGED <<config, agreed>>
    BY <1>1, <1>9, SendFacts
  <2>2. CASE Moves(p, "idle", NoJob) /\ UNCHANGED sent
    <3>1. NoJob.view = Torn
      BY DEF NoJob
    <3> QED BY <1>1, <2>1, <2>2, <3>1, RegisterBlur
  <2>3. CASE job[p].left # <<>> /\ Mails(p, Tail(job[p].left))
    <3>1. LeftJob(p, Tail(job[p].left)).view = job[p].view
      BY <1>1, <2>3, JobFacts, RangeTail, LeftJobFacts
    <3>2. View' = View /\ ViewNow' = ViewNow
      BY <1>1, <2>1, <2>3, <3>1, ViewMoves, NowStays DEF Mails
    <3>3. CASE sent' = sent
      BY <3>2, <3>3 DEF Register!vars, View, ViewNow
    <3>4. CASE sent' = [sent EXCEPT ![p] = job[p].set]
      <4>1. sent'[p] = job[p].set /\ job[p].set \in Setting
        BY <1>1, <3>4, JobFacts DEF TypeOK
      <4>2. job[p].view \in {job[p].set, Torn} /\ View[p] = job[p].view
        BY <2>1 DEF Inv, Sends, View
      <4>3. Register!Deliver(p)
        BY <3>2, <3>4, <4>1, <4>2 DEF Register!Deliver, View, ViewNow
      <4> QED BY <4>3 DEF Register!Next
    <3> QED BY <2>3, <3>3, <3>4 DEF Mails
  <2> QED BY <1>1, <1>9, <2>2, <2>3, SendFacts
<1>10. ASSUME NEW t \in Tabs, Cancel(t) PROVE [Register!Next]_Register!vars
  BY <1>6, <1>10 DEF Cancel, history
<1>11. CASE UNCHANGED vars
  BY <1>6, <1>11 DEF vars, history
<1>12. ASSUME NEW t \in Tabs, Test(t) \/ Email(t) PROVE Register!Next
  BY <1>3, <1>12 DEF Test, Email, ToOne, Procs
<1>13. CASE Alert
  BY <1>3, <1>13 DEF Alert, Procs
<1> QED BY <1>2, <1>4, <1>5, <1>7, <1>8, <1>9, <1>10, <1>11, <1>12, <1>13 DEF Next

(***************************************************************************)
(* The settings table, written and read a row at a time by                 *)
(* handleUpdateSMTP, handleDeleteSMTP and smtpSettings, implements one     *)
(* register: a mail carries what was agreed when its sender began to read, *)
(* unless a change or a failure came between.                              *)
(***************************************************************************)
THEOREM RegisterImplementedCorrect == Spec => RegisterImplemented
BY RegisterInit, RegisterStep, InvCorrect, PTL DEF Spec, RegisterImplemented, Register!Spec

-----------------------------------------------------------------------------
(***************************************************************************)
(* The form: what it shows, and what saving it does.                       *)
(***************************************************************************)

\* A form shows what it was loaded from, and the form being saved is open.
Shown(s) == IF Effective(s) = None THEN Empty ELSE Prefill(Effective(s))
Forms == \A t \in Tabs : (form[t] # None /\ loaded[t] # Torn) =>
            loaded[t] \in Setting /\ form[t] = Shown(loaded[t])
Saved == \A t \in Tabs : pc[t] = "put" => form[t] # None /\ job[t].set["host"] # None

FormInv == Inv /\ Forms /\ Saved

LEMMA InitForm == Init => FormInv
BY InitInv DEF Init, FormInv, Forms, Saved, Procs

LEMMA ShownStays ==
    ASSUME UNCHANGED config, NEW t, NEW s, loaded'[t] = s
    PROVE  Shown(loaded[t])' = Shown(s)
BY DEF Shown, Effective, Norm, Empty, Prefill

\* A step of p touches only the form of p: it stays, closes or is loaded.
LEMMA FormKeeps ==
    ASSUME FormInv, NEW p \in Procs, UNCHANGED config,
           \A q \in Procs \ {p} : pc'[q] = "put" => pc[q] = "put" /\ job'[q].set = job[q].set,
           \A t \in Tabs \ {p} : form'[t] = form[t] /\ loaded'[t] = loaded[t],
           p \in Tabs => \/ form'[p] = None
                         \/ form'[p] = form[p] /\ loaded'[p] = loaded[p]
                         \/ loaded'[p] # Torn =>
                               loaded'[p] \in Setting /\ form'[p] = Shown(loaded'[p]),
           p \in Tabs /\ pc'[p] = "put" => form'[p] # None /\ job'[p].set["host"] # None
    PROVE  Forms' /\ Saved'
<1>1. ASSUME NEW t \in Tabs, form'[t] # None, loaded'[t] # Torn
      PROVE  loaded'[t] \in Setting /\ form'[t] = Shown(loaded[t])'
  <2>1. Shown(loaded[t])' = Shown(loaded'[t])
    BY ShownStays
  <2>2. CASE form'[t] = form[t] /\ loaded'[t] = loaded[t]
    BY <1>1, <2>1, <2>2 DEF FormInv, Forms
  <2>3. CASE t = p /\ loaded'[p] \in Setting /\ form'[p] = Shown(loaded'[p])
    BY <2>1, <2>3
  <2> QED BY <1>1, <2>2, <2>3
<1>2. Saved'
  BY DEF FormInv, Saved, Procs
<1> QED BY <1>1, <1>2 DEF Forms

LEMMA FormStays ==
    ASSUME FormInv, UNCHANGED <<config, form, loaded>>, NEW p \in Procs, NEW l, NEW j,
           l # "put", Moves(p, l, j)
    PROVE  Forms' /\ Saved'
<1>1. pc'[p] = l /\ \A q \in Procs \ {p} : pc'[q] = pc[q] /\ job'[q] = job[q]
  BY MovesFacts DEF FormInv, Inv
<1> QED BY <1>1, FormKeeps

LEMMA SaveForm == ASSUME FormInv, NEW t \in Tabs, Save(t) PROVE Forms' /\ Saved'
<1> DEFINE j(e) == [NoJob EXCEPT !.op = "save", !.set = Body(t, e)]
<1>1. TypeOK
  BY DEF FormInv, Inv
<1>2. PICK e \in Edits : Disturb(t, j(e)) /\ Valid(t, Body(t, e))
  BY DEF Save
<1>3. /\ form[t] # None /\ pc' = [pc EXCEPT ![t] = "put"]
      /\ UNCHANGED <<config, form, loaded>>
  BY DEF Save, Arrive, Goto
<1>4. j(e) \in Job /\ j(e).set["host"] # None
  BY <1>1, <1>2, <1>3, BodyType, NoJobType DEF Valid, Job, Ops, NoJob
<1> HIDE DEF j
<1>5. job'[t].set["host"] # None
  <2> DEFINE own == [j(e) EXCEPT !.alone = (Writers = {}), !.base = agreed]
  <2>1. own.set = j(e).set
    BY <1>4 DEF Job
  <2>2. job'[t] = own
    BY <1>1, <1>2, <1>4, DisturbFacts DEF Procs
  <2> HIDE DEF own
  <2> QED BY <1>4, <2>1, <2>2
<1>6. \A q \in Procs \ {t} : job'[q].set = job[q].set
  <2> DEFINE other(q) == [job[q] EXCEPT !.view = Torn, !.alone = (q \notin Writers)]
  <2>1. \A q \in Procs : other(q).set = job[q].set
    BY <1>1, JobFacts DEF Job
  <2>2. \A q \in Procs \ {t} : job'[q] = other(q)
    BY <1>1, <1>2, <1>4, DisturbFacts DEF Procs
  <2> HIDE DEF other
  <2> QED BY <2>1, <2>2
<1>7. \A q \in Procs \ {t} : pc'[q] = pc[q]
  BY <1>1, <1>3 DEF TypeOK
<1> QED BY <1>3, <1>5, <1>6, <1>7, FormKeeps DEF Procs

LEMMA RemoveForm == ASSUME FormInv, NEW t \in Tabs, Remove(t) PROVE Forms' /\ Saved'
<1> DEFINE j == [NoJob EXCEPT !.op = "remove"]
           other(q) == [job[q] EXCEPT !.view = Torn, !.alone = (q \notin Writers)]
<1>1. TypeOK
  BY DEF FormInv, Inv
<1>2. /\ Disturb(t, j) /\ pc' = [pc EXCEPT ![t] = "clear"]
      /\ UNCHANGED <<config, form, loaded>>
  BY DEF Remove, Arrive, Goto
<1>3. j \in Job
  BY NoJobType DEF Job, Ops
<1>4. \A q \in Procs : other(q).set = job[q].set
  BY <1>1, JobFacts DEF Job
<1>5. \A q \in Procs \ {t} : job'[q] = other(q)
  BY <1>1, <1>2, <1>3, DisturbFacts DEF Procs
<1> HIDE DEF j, other
<1>6. pc'[t] = "clear" /\ \A q \in Procs \ {t} : pc'[q] = pc[q]
  BY <1>1, <1>2 DEF TypeOK, Procs
<1> QED BY <1>2, <1>4, <1>5, <1>6, FormKeeps DEF Procs

LEMMA ReadForm == ASSUME FormInv, NEW p \in Procs, Read(p) PROVE Forms' /\ Saved'
<1>1. TypeOK /\ Inv
  BY DEF FormInv, Inv
<1>2. pc[p] = "read" /\ UNCHANGED <<config, table, agreed>>
  BY <1>1, ReadFacts
<1>3. PICK x \in Values \cup {None, Default}, v \in Setting \cup {None, Torn} :
          /\ v # Torn => v = job[p].view /\ x = table[Key(p)]
          /\ ReadSteps(p, x, v)
  BY <1>1, ReadFacts
<1>4. CASE GoesOn(p, x, v)
  BY <1>2, <1>4, FormStays DEF GoesOn
<1>5. CASE GivesUp(p, x)
  BY <1>2, <1>5, FormStays DEF GivesUp
<1>6. CASE Turns(p, x, v)
  BY <1>2, <1>6, FormStays DEF Turns
<1>7. CASE Fills(p, x, v)
  <2>1. pc'[p] = "idle" /\ \A q \in Procs \ {p} : pc'[q] = pc[q] /\ job'[q] = job[q]
    BY <1>1, <1>7, MovesFacts DEF Fills
  <2>2. \A t \in Tabs \ {p} : form'[t] = form[t] /\ loaded'[t] = loaded[t]
    BY <1>1, <1>7 DEF Fills, TypeOK
  <2>3. ASSUME p \in Tabs, loaded'[p] # Torn
        PROVE  loaded'[p] \in Setting /\ form'[p] = Shown(loaded'[p])
    <3>1. v # Torn /\ loaded'[p] = agreed
      BY <1>1, <1>7, <2>3 DEF Fills, TypeOK
    <3>2. agreed # Torn /\ table = agreed /\ Outcome(p, x) = Effective(agreed)
      BY <1>1, <1>2, <1>3, <1>7, <3>1, ReadRight DEF Fills
    <3>3. form'[p] = Shown(agreed)
      BY <1>1, <1>7, <2>3, <3>2 DEF Fills, Shown, TypeOK
    <3> QED BY <1>1, <3>1, <3>2, <3>3 DEF TypeOK
  <2> QED BY <1>2, <2>1, <2>2, <2>3, FormKeeps
<1> QED BY <1>3, <1>4, <1>5, <1>6, <1>7 DEF ReadSteps

LEMMA WriteForm ==
    ASSUME FormInv, NEW p \in Procs, Put(p) \/ Clear(p)
    PROVE  Forms' /\ Saved'
<1>1. TypeOK
  BY DEF FormInv, Inv
<1>2. /\ UNCHANGED <<config, loaded>> /\ pc[p] \in {"put", "clear"}
      /\ \A t \in Tabs \ {p} : form'[t] = form[t]
  BY <1>1 DEF Put, Clear, At, TypeOK
<1>3. CASE Moves(p, "idle", NoJob)
  <2>1. pc'[p] = "idle" /\ \A q \in Procs \ {p} : pc'[q] = pc[q] /\ job'[q] = job[q]
    BY <1>1, <1>3, MovesFacts
  <2>2. p \in Tabs => form'[p] \in {None, form[p]}
    BY <1>1 DEF Put, Clear, TypeOK
  <2> QED BY <1>2, <2>1, <2>2, FormKeeps
<1>4. CASE ~Moves(p, "idle", NoJob)
  <2>1. job' = [job EXCEPT ![p].i = @ + 1] /\ UNCHANGED <<pc, form>> /\ job[p].i < 6
    BY <1>4, FinishMoves DEF Put, Clear, Me
  <2>2. Moves(p, pc[p], NextJob(p)) /\ NextJob(p).set = job[p].set
    BY <1>1, <2>1, NextKey
  <2>3. /\ pc'[p] = pc[p] /\ job'[p].set = job[p].set
        /\ \A q \in Procs \ {p} : pc'[q] = pc[q] /\ job'[q] = job[q]
    BY <1>1, <2>2, MovesFacts
  <2>4. p \in Tabs /\ pc[p] = "put" => form[p] # None /\ job[p].set["host"] # None
    BY DEF FormInv, Saved
  <2> QED BY <1>2, <2>1, <2>3, <2>4, FormKeeps
<1> QED BY <1>3, <1>4

LEMMA StepForm == FormInv /\ [Next]_vars => FormInv'
<1> SUFFICES ASSUME FormInv, [Next]_vars PROVE Forms' /\ Saved'
  BY StepInv DEF FormInv
<1>1. TypeOK /\ Inv
  BY DEF FormInv, Inv
<1>2. ASSUME NEW t \in Tabs, Open(t) PROVE Forms' /\ Saved'
  <2> DEFINE j == [NoJob EXCEPT !.op = "load", !.view = ViewNow]
  <2>1. Moves(t, "read", j) /\ UNCHANGED <<config, form, loaded>>
    BY <1>2 DEF Open, Arrive, Goto, Moves, ViewNow, history
  <2> HIDE DEF j
  <2> QED BY <2>1, FormStays DEF Procs
<1>3. ASSUME NEW p \in Procs, NEW op, NEW l, Begin(p, op, l) PROVE Forms' /\ Saved'
  <2> DEFINE j == [NoJob EXCEPT !.op = op, !.left = l, !.all = l, !.view = ViewNow]
  <2>1. Moves(p, "read", j) /\ UNCHANGED <<config, form, loaded>>
    BY <1>3 DEF Begin, Arrive, Goto, Moves, ViewNow
  <2> HIDE DEF j
  <2> QED BY <2>1, FormStays
<1>4. ASSUME NEW t \in Tabs, Test(t) \/ Email(t) PROVE Forms' /\ Saved'
  BY <1>3, <1>4 DEF Test, Email, ToOne, Procs
<1>5. CASE Alert
  BY <1>3, <1>5 DEF Alert, Procs
<1>6. ASSUME NEW p \in Procs, Send(p) PROVE Forms' /\ Saved'
  <2>1. /\ UNCHANGED <<config, form, loaded>>
        /\ Moves(p, "idle", NoJob) \/ Moves(p, "send", LeftJob(p, Tail(job[p].left)))
    BY <1>1, <1>6, SendFacts DEF Mails
  <2> QED BY <2>1, FormStays
<1>7. ASSUME NEW t \in Tabs, Cancel(t) PROVE Forms' /\ Saved'
  <2>1. UNCHANGED <<config, pc, job, loaded>> /\ pc[t] = "idle"
    BY <1>7 DEF Cancel, history
  <2>2. form'[t] = None /\ \A u \in Tabs \ {t} : form'[u] = form[u]
    BY <1>1, <1>7 DEF Cancel, TypeOK
  <2> QED BY <2>1, <2>2, FormKeeps DEF Procs
<1>8. CASE UNCHANGED vars
  <2>1. UNCHANGED <<config, pc, job, form, loaded>>
    BY <1>8 DEF vars, history
  <2>2. Alerter \in Procs /\ Alerter \notin Tabs
    BY ChoicesAssumption DEF Procs
  <2> QED BY <2>1, <2>2, FormKeeps
<1> QED BY <1>2, <1>4, <1>5, <1>6, <1>7, <1>8, SaveForm, RemoveForm, ReadForm, WriteForm
        DEF Next

\* The last statement of a save that met nobody: what mail is sent with now.
LEMMA SavedRight ==
    ASSUME FormInv, NEW t \in Tabs, Put(t), pc'[t] = "idle", form'[t] = None, job[t].alone,
           loaded[t] # Torn, loaded[t] = job[t].base, Effective(loaded[t]) # None,
           NEW k \in Fields, job[t].set[k] = form[t][k]
    PROVE  \/ Effective(table')[k] = Effective(loaded[t])[k]
           \/ k = "password" /\ loaded[t]["host"] = None
<1> DEFINE was == loaded[t]
<1>1. TypeOK /\ Inv /\ t \in Procs /\ pc[t] = "put"
  BY DEF FormInv, Inv, Put, At, Procs
<1>2. /\ form[t] # None /\ job[t].set["host"] # None /\ was \in Setting
      /\ form[t] = Prefill(Effective(was))
  BY <1>1 DEF FormInv, Saved, Forms, Shown
<1>3. job[t].i = 6 /\ table' = PutRow(t)
  <2>1. CASE UNCHANGED pc
    BY <1>1, <2>1
  <2>2. CASE ~UNCHANGED pc
    BY <1>1, <1>2, <2>2, JobFacts DEF Put, Me, PutRow, TypeOK
  <2> QED BY <2>1, <2>2
<1>4. table' \in Setting /\ Written(t, table', 7)
  <2>1. TypeOK'
    BY <1>1, PutType
  <2>2. Written(t, PutRow(t), 7)
    BY <1>1, <1>3, PutRight
  <2> QED BY <1>3, <2>1, <2>2 DEF TypeOK
<1>5. \A f \in Fields : \/ table'[f] = Norm(f, job[t].set[f])
                        \/ f = "password" /\ job[t].set["password"] = None
  BY <1>4, OrderFacts DEF Written
<1>6. table'["host"] # None
  BY <1>2, <1>5 DEF Norm, Fields
<1>7. Effective(table') = [f \in Fields |-> Norm(f, table'[f])]
  BY <1>6 DEF Effective
<1>8. \A f \in Fields : Norm(f, Effective(was)[f]) = Effective(was)[f]
                        /\ Effective(was)[f] \in Values \cup {None, Default}
  <2>1. ASSUME NEW s \in Setting, NEW f \in Fields
        PROVE  /\ [g \in Fields |-> Norm(g, s[g])][f] = Norm(f, s[f])
               /\ Norm(f, Norm(f, s[f])) = Norm(f, s[f])
               /\ Norm(f, s[f]) \in Values \cup {None, Default}
    BY NormType DEF Setting
  <2>2. config = None \/ config \in Setting
    BY <1>1, ChoicesAssumption DEF TypeOK
  <2>3. \E s \in Setting : Effective(was) = [g \in Fields |-> Norm(g, s[g])]
    BY <1>2, <2>2 DEF Effective
  <2> QED BY <2>1, <2>3
<1>9. Effective(was) \in Setting
  BY <1>1, <1>2, EffectiveType DEF TypeOK
<1>10. CASE k # "password"
  <2>1. form[t][k] = Effective(was)[k]
    BY <1>2, <1>9, <1>10 DEF Prefill, Setting
  <2>2. table'[k] = Norm(k, Effective(was)[k])
    BY <1>5, <1>10, <2>1
  <2> QED BY <1>7, <1>8, <2>2
<1>11. CASE k = "password" /\ was["host"] # None
  <2>1. job[t].set["password"] = None
    BY <1>2, <1>9, <1>11 DEF Prefill, Setting
  <2>2. table'["password"] = was["password"]
    BY <1>1, <1>4, <2>1, JobFacts DEF Written, Norm
  <2>3. Effective(was)["password"] = Norm("password", was["password"])
    BY <1>11 DEF Effective
  <2> QED BY <1>7, <1>11, <2>2, <2>3
<1> QED BY <1>10, <1>11

(***************************************************************************)
(* doSave and handleUpdateSMTP: what the user did not touch stays what it  *)
(* was, and a blank password keeps the stored one.                         *)
(***************************************************************************)
THEOREM EditKeepsRestCorrect == Spec => EditKeepsRest
<1>1. FormInv /\ [Next]_vars =>
        [\A t \in Tabs :
            LET was == loaded[t]
                new == Effective(table')
            IN (/\ pc[t] = "put" /\ pc'[t] = "idle" /\ form'[t] = None
                /\ Me(t).alone /\ was # Torn /\ was = Me(t).base /\ Effective(was) # None) =>
                  \A k \in Fields : Me(t).set[k] = form[t][k] =>
                      \/ new[k] = Effective(was)[k]
                      \/ k = "password" /\ was["host"] = None]_vars
  <2> SUFFICES ASSUME FormInv, Next, NEW t \in Tabs,
                      pc[t] = "put", pc'[t] = "idle", form'[t] = None, Me(t).alone,
                      loaded[t] # Torn, loaded[t] = Me(t).base, Effective(loaded[t]) # None,
                      NEW k \in Fields, Me(t).set[k] = form[t][k]
               PROVE  \/ Effective(table')[k] = Effective(loaded[t])[k]
                      \/ k = "password" /\ loaded[t]["host"] = None
    OBVIOUS
  <2>1. Put(t)
    <3>1. TypeOK /\ t \in Procs /\ Alerter \in Procs
      BY DEF FormInv, Inv, Procs
    <3>2. ASSUME NEW p \in Procs, p # t, NEW l, pc' = [pc EXCEPT ![p] = l] \/ UNCHANGED pc
          PROVE  FALSE
      BY <3>1, <3>2 DEF TypeOK
    <3>3. ASSUME NEW p \in Procs, NEW op, NEW l, Begin(p, op, l) PROVE FALSE
      BY <3>2, <3>3 DEF Begin, Arrive, Goto
    <3>4. ASSUME NEW u \in Tabs, Open(u) \/ Save(u) \/ Cancel(u) \/ Remove(u) PROVE FALSE
      <4>1. pc[u] = "idle" /\ \E l : pc' = [pc EXCEPT ![u] = l] \/ UNCHANGED pc
        BY <3>4 DEF Open, Save, Cancel, Remove, Arrive, Goto
      <4>2. u \in Procs /\ u # t
        BY <4>1 DEF Procs
      <4> QED BY <3>2, <4>1, <4>2
    <3>5. ASSUME NEW u \in Tabs, Test(u) \/ Email(u) PROVE FALSE
      BY <3>3, <3>5 DEF Test, Email, ToOne, Procs
    <3>6. ~Alert
      BY <3>1, <3>3 DEF Alert
    <3>7. ASSUME NEW p \in Procs, Clear(p) PROVE FALSE
      BY <3>2, <3>7 DEF Clear, At, Goto, Finish
    <3>8. ASSUME NEW p \in Procs, Read(p) PROVE FALSE
      <4>1. pc[p] = "read" /\ \E l : pc' = [pc EXCEPT ![p] = l]
        BY <3>1, <3>8, ReadFacts DEF ReadSteps, GoesOn, Fills, GivesUp, Turns, Moves
      <4> QED BY <3>2, <4>1
    <3>9. ASSUME NEW p \in Procs, Send(p) PROVE FALSE
      <4>1. pc[p] = "send" /\ \E l : pc' = [pc EXCEPT ![p] = l]
        BY <3>1, <3>9, SendFacts DEF Mails, Moves
      <4> QED BY <3>2, <4>1
    <3>10. ASSUME NEW p \in Procs, p # t, Put(p) PROVE FALSE
      BY <3>2, <3>10 DEF Put, Goto, Finish
    <3> QED BY <3>4, <3>5, <3>6, <3>7, <3>8, <3>9, <3>10 DEF Next
  <2> QED BY <2>1, SavedRight DEF Me
<1>2. Spec => []FormInv
  BY InitForm, StepForm, PTL DEF Spec
<1> QED BY <1>1, <1>2, PTL DEF Spec, EditKeepsRest

-----------------------------------------------------------------------------
(***************************************************************************)
(* The alerts.                                                             *)
(***************************************************************************)

\* The addresses of an alert: those tried, and those left.
AlertLists ==
    /\ pc[Alerter] \in {"idle", "read", "send"}
    /\ pc[Alerter] = "read" => tried = {} /\ job[Alerter].left = job[Alerter].all
    /\ pc[Alerter] = "send" => tried \cup (Range(job[Alerter].left) \ {None})
                                 = Range(job[Alerter].all) \ {None}

AlertInv == TypeOK /\ AlertLists

LEMMA InitAlert == Init => AlertInv
BY InitType DEF Init, AlertInv, AlertLists, Procs

\* What a request of a tab leaves alone.
LEMMA AlertStays ==
    ASSUME AlertInv, pc'[Alerter] = pc[Alerter], tried' = tried,
           job'[Alerter].left = job[Alerter].left, job'[Alerter].all = job[Alerter].all
    PROVE  AlertLists'
BY DEF AlertInv, AlertLists, Range

LEMMA AlertOther ==
    ASSUME AlertInv, NEW p \in Procs, p # Alerter, NEW l, NEW j, Moves(p, l, j), tried' = tried
    PROVE  AlertLists'
<1>1. pc'[Alerter] = pc[Alerter] /\ job'[Alerter] = job[Alerter]
  BY MovesFacts DEF AlertInv, Procs
<1> QED BY <1>1, AlertStays

LEMMA AlertIdle ==
    ASSUME AlertInv, NEW p \in Procs, Moves(p, "idle", NoJob), tried' = tried
    PROVE  AlertLists'
<1>1. CASE p = Alerter
  <2>1. pc'[Alerter] = "idle"
    BY <1>1, MovesFacts DEF AlertInv
  <2> QED BY <2>1 DEF AlertLists
<1>2. CASE p # Alerter
  BY <1>2, AlertOther
<1> QED BY <1>1, <1>2

LEMMA DisturbAlert ==
    ASSUME AlertInv, NEW t \in Tabs, NEW j \in Job, Disturb(t, j), NEW l, Goto(t, l),
           tried' = tried
    PROVE  AlertLists'
<1> DEFINE other == [job[Alerter] EXCEPT !.view = Torn, !.alone = (Alerter \notin Writers)]
<1>1. TypeOK /\ t \in Procs /\ Alerter \in Procs /\ t # Alerter
  BY ChoicesAssumption DEF AlertInv, Procs
<1>2. job'[Alerter] = other
  BY <1>1, DisturbFacts
<1>3. other.left = job[Alerter].left /\ other.all = job[Alerter].all
  BY <1>1, JobFacts DEF Job
<1>4. pc'[Alerter] = pc[Alerter]
  BY <1>1 DEF Goto, TypeOK
<1> HIDE DEF other
<1> QED BY <1>1, <1>2, <1>3, <1>4, AlertStays

LEMMA ReadAlert == ASSUME AlertInv, NEW p \in Procs, Read(p) PROVE AlertLists'
<1>1. TypeOK
  BY DEF AlertInv
<1>2. pc[p] = "read" /\ tried' = tried
  BY <1>1, ReadFacts
<1>3. PICK x \in Values \cup {None, Default}, v \in Setting \cup {None, Torn} :
          ReadSteps(p, x, v)
  BY <1>1, ReadFacts
<1>4. Outcome(p, x) \in Setting \cup {None} /\ GotSet(p, x) \in Setting
  BY <1>1, OutcomeType
<1>5. CASE p # Alerter
  BY <1>2, <1>3, <1>5, AlertOther DEF ReadSteps, GoesOn, Fills, GivesUp, Turns
<1>6. CASE p = Alerter
  <2>1. tried = {} /\ job[p].left = job[p].all
    BY <1>2, <1>6 DEF AlertInv, AlertLists
  <2>2. CASE Moves(p, "idle", NoJob)
    BY <1>2, <2>2, AlertIdle
  <2>3. CASE GoesOn(p, x, v)
    <3>1. job[p].i + 1 \in 1..6
      BY <1>1, <2>3, JobFacts DEF GoesOn, GotAll
    <3>2. /\ pc'[p] = "read" /\ job'[p].left = job[p].left /\ job'[p].all = job[p].all
      BY <1>1, <1>4, <2>3, <3>1, MovesFacts, ReadJobFacts DEF GoesOn
    <3> QED BY <1>2, <1>6, <2>1, <3>2 DEF AlertLists
  <2>4. CASE Turns(p, x, v)
    <3>1. /\ pc'[p] = "send" /\ job'[p].left = job[p].left /\ job'[p].all = job[p].all
      BY <1>1, <1>4, <2>4, MovesFacts, ReadJobFacts DEF Turns
    <3> QED BY <1>2, <1>6, <2>1, <3>1 DEF AlertLists, Range
  <2> QED BY <1>3, <2>2, <2>3, <2>4 DEF ReadSteps, Fills, GivesUp
<1> QED BY <1>5, <1>6

LEMMA SendAlert == ASSUME AlertInv, NEW p \in Procs, Send(p) PROVE AlertLists'
<1>1. TypeOK /\ pc[p] = "send"
  BY SendFacts DEF AlertInv
<1>2. CASE Moves(p, "idle", NoJob) /\ UNCHANGED tried
  BY <1>2, AlertIdle
<1>3. CASE /\ job[p].left # <<>> /\ Mails(p, Tail(job[p].left))
           /\ tried' = IF p = Alerter /\ Head(job[p].left) # None
                       THEN tried \cup {Head(job[p].left)} ELSE tried
  <2>1. CASE p # Alerter
    BY <1>3, <2>1, AlertOther DEF Mails
  <2>2. CASE p = Alerter
    <3> DEFINE left == job[p].left
    <3>1. /\ Tail(left) \in Seq(Addresses \cup {None})
          /\ Range(left) = {Head(left)} \cup Range(Tail(left))
      BY <1>1, <1>3, JobFacts, RangeTail
    <3>2. pc'[p] = "send" /\ job'[p].left = Tail(left) /\ job'[p].all = job[p].all
      <4>1. job'[p] = LeftJob(p, Tail(left)) /\ pc'[p] = "send"
        BY <1>1, <1>3, MovesFacts DEF Mails
      <4>2. /\ LeftJob(p, Tail(left)).left = Tail(left)
            /\ LeftJob(p, Tail(left)).all = job[p].all
        BY <1>1, <3>1, LeftJobFacts
      <4> QED BY <4>1, <4>2
    <3>3. tried \cup (Range(left) \ {None}) = Range(job[p].all) \ {None}
      BY <1>1, <2>2 DEF AlertInv, AlertLists
    <3>4. tried' = IF Head(left) # None THEN tried \cup {Head(left)} ELSE tried
      BY <1>3, <2>2
    <3>5. tried' \cup (Range(Tail(left)) \ {None}) = Range(job[p].all) \ {None}
      <4> HIDE DEF left
      <4> QED BY <3>1, <3>3, <3>4
    <3> HIDE DEF left
    <3>6. tried' \cup (Range(job'[Alerter].left) \ {None}) = Range(job'[Alerter].all) \ {None}
      BY <2>2, <3>2, <3>5
    <3> QED BY <2>2, <3>2, <3>6 DEF AlertLists
  <2> QED BY <2>1, <2>2
<1> QED BY <1>1, <1>2, <1>3, SendFacts

LEMMA StepAlert == AlertInv /\ [Next]_vars => AlertInv'
<1> SUFFICES ASSUME AlertInv, [Next]_vars PROVE AlertLists'
  BY StepType DEF AlertInv
<1>1. TypeOK /\ Alerter \in Procs /\ Alerter \notin Tabs
  BY ChoicesAssumption DEF AlertInv, Procs
<1>2. ASSUME NEW t \in Tabs, Open(t) PROVE AlertLists'
  <2> DEFINE j == [NoJob EXCEPT !.op = "load", !.view = ViewNow]
  <2>1. Moves(t, "read", j) /\ UNCHANGED tried
    BY <1>2 DEF Open, Goto, Moves, ViewNow, history
  <2> HIDE DEF j
  <2> QED BY <1>1, <2>1, AlertOther DEF Procs
<1>3. ASSUME NEW p \in Procs, NEW op \in Ops, NEW l \in Seq(Addresses \cup {None}), Begin(p, op, l)
      PROVE  AlertLists'
  <2> DEFINE j == [NoJob EXCEPT !.op = op, !.left = l, !.all = l, !.view = ViewNow]
  <2>1. Moves(p, "read", j) /\ tried' = IF p = Alerter THEN {} ELSE tried
    BY <1>3 DEF Begin, Goto, Moves, ViewNow
  <2>2. j.left = l /\ j.all = l
    BY DEF NoJob
  <2> HIDE DEF j
  <2>3. CASE p = Alerter
    <3>1. pc'[Alerter] = "read" /\ job'[Alerter] = j
      BY <1>1, <2>1, <2>3, MovesFacts
    <3> QED BY <2>1, <2>2, <2>3, <3>1 DEF AlertLists
  <2>4. CASE p # Alerter
    BY <2>1, <2>4, AlertOther
  <2> QED BY <2>3, <2>4
<1>4. ASSUME NEW t \in Tabs, Test(t) \/ Email(t) PROVE AlertLists'
  <2>1. PICK a \in Addresses : Begin(t, "mail", <<a>>)
    BY <1>4 DEF Test, Email, ToOne
  <2>2. <<a>> \in Seq(Addresses \cup {None})
    OBVIOUS
  <2> QED BY <1>3, <2>1, <2>2 DEF Ops, Procs
<1>5. CASE Alert
  BY <1>3, <1>5, ListsAssumption DEF Alert, Ops, Procs
<1>6. ASSUME NEW t \in Tabs, Save(t) PROVE AlertLists'
  <2>1. PICK e \in Edits : Disturb(t, [NoJob EXCEPT !.op = "save", !.set = Body(t, e)])
    BY <1>6 DEF Save
  <2>2. [NoJob EXCEPT !.op = "save", !.set = Body(t, e)] \in Job
    BY <1>1, <1>6, BodyType, NoJobType DEF Save, Job, Ops
  <2>3. Goto(t, "put") /\ tried' = tried
    BY <1>6 DEF Save
  <2> QED BY <2>1, <2>2, <2>3, DisturbAlert
<1>7. ASSUME NEW t \in Tabs, Remove(t) PROVE AlertLists'
  <2>1. [NoJob EXCEPT !.op = "remove"] \in Job
    BY NoJobType DEF Job, Ops
  <2>2. /\ Disturb(t, [NoJob EXCEPT !.op = "remove"]) /\ Goto(t, "clear") /\ tried' = tried
    BY <1>7 DEF Remove
  <2> QED BY <2>1, <2>2, DisturbAlert
<1>8. ASSUME NEW p \in Procs, Put(p) \/ Clear(p) PROVE AlertLists'
  <2>1. p # Alerter /\ tried' = tried
    BY <1>8 DEF Put, Clear, At, AlertInv, AlertLists
  <2>2. CASE Moves(p, "idle", NoJob)
    BY <2>1, <2>2, AlertOther
  <2>3. CASE ~Moves(p, "idle", NoJob)
    <3>1. job' = [job EXCEPT ![p].i = @ + 1] /\ UNCHANGED pc /\ job[p].i < 6
      BY <1>8, <2>3, FinishMoves DEF Put, Clear, Me
    <3>2. Moves(p, pc[p], NextJob(p))
      BY <1>1, <3>1, NextKey
    <3> QED BY <2>1, <3>2, AlertOther
  <2> QED BY <2>2, <2>3
<1>9. ASSUME NEW t \in Tabs, Cancel(t) PROVE AlertLists'
  BY <1>9, AlertStays DEF Cancel, history
<1>10. CASE UNCHANGED vars
  BY <1>10, AlertStays DEF vars, history
<1> QED BY <1>2, <1>4, <1>5, <1>6, <1>7, <1>8, <1>9, <1>10, ReadAlert, SendAlert DEF Next

\* The only step with which the alert ends after it began to send.
LEMMA AlertEnds ==
    ASSUME AlertInv, Next, pc[Alerter] = "send", pc'[Alerter] = "idle"
    PROVE  Send(Alerter)
<1>1. TypeOK /\ Alerter \in Procs /\ Alerter \notin Tabs
  BY ChoicesAssumption DEF AlertInv, Procs
<1>2. ASSUME NEW p \in Procs, p # Alerter, NEW l, pc' = [pc EXCEPT ![p] = l] \/ UNCHANGED pc
      PROVE  FALSE
  BY <1>1, <1>2 DEF TypeOK
<1>3. ASSUME NEW p \in Procs, NEW op, NEW l, Begin(p, op, l) PROVE FALSE
  BY <1>2, <1>3 DEF Begin, Arrive, Goto
<1>4. ASSUME NEW u \in Tabs, Open(u) \/ Save(u) \/ Cancel(u) \/ Remove(u) PROVE FALSE
  BY <1>1, <1>2, <1>4 DEF Open, Save, Cancel, Remove, Arrive, Goto, Procs
<1>5. ASSUME NEW u \in Tabs, Test(u) \/ Email(u) PROVE FALSE
  BY <1>3, <1>5 DEF Test, Email, ToOne, Procs
<1>6. ~Alert
  BY <1>1, <1>3 DEF Alert
<1>7. ASSUME NEW p \in Procs, Put(p) \/ Clear(p) PROVE FALSE
  BY <1>2, <1>7 DEF Put, Clear, At, Goto, Finish
<1>8. ASSUME NEW p \in Procs, Read(p) PROVE FALSE
  <2>1. pc[p] = "read" /\ \E l : pc' = [pc EXCEPT ![p] = l]
    BY <1>1, <1>8, ReadFacts DEF ReadSteps, GoesOn, Fills, GivesUp, Turns, Moves
  <2> QED BY <1>2, <2>1
<1>9. ASSUME NEW p \in Procs, p # Alerter, Send(p) PROVE FALSE
  <2>1. \E l : pc' = [pc EXCEPT ![p] = l]
    BY <1>1, <1>9, SendFacts DEF Mails, Moves
  <2> QED BY <1>2, <1>9, <2>1
<1> QED BY <1>4, <1>5, <1>6, <1>7, <1>8, <1>9 DEF Next

(***************************************************************************)
(* sendPeerAlert goes on after an address that fails: when it ends it has  *)
(* tried every address of the peer.                                        *)
(***************************************************************************)
THEOREM EveryAddressTriedCorrect == Spec => EveryAddressTried
<1>1. AlertInv /\ [Next]_vars =>
        [(pc[Alerter] = "send" /\ pc'[Alerter] = "idle") =>
            tried' = Range(Me(Alerter).all) \ {None}]_vars
  <2> SUFFICES ASSUME AlertInv, Next, pc[Alerter] = "send", pc'[Alerter] = "idle"
               PROVE  tried' = Range(job[Alerter].all) \ {None}
    BY DEF Me
  <2>1. Send(Alerter) /\ TypeOK /\ Alerter \in Procs
    BY AlertEnds DEF AlertInv, Procs
  <2>2. job[Alerter].left = <<>> /\ tried' = tried
    <3>1. ASSUME Mails(Alerter, Tail(job[Alerter].left)) PROVE FALSE
      BY <2>1, <3>1, MovesFacts DEF Mails
    <3> QED BY <2>1, <3>1, SendFacts
  <2>3. Range(<<>>) = {}
    BY DEF Range
  <2> QED BY <2>2, <2>3 DEF AlertInv, AlertLists
<1>2. Spec => []AlertInv
  BY InitAlert, StepAlert, PTL DEF Spec
<1> QED BY <1>1, <1>2, PTL DEF Spec, EveryAddressTried
=============================================================================
