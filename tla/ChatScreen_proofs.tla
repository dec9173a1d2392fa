-------------------------- MODULE ChatScreen_proofs --------------------------
(***************************************************************************)
(* Proofs about ChatStream: what the tab shows of a reply, and what its    *)
(* spinner waits for, whatever the turns, the connections and the faults.  *)
(***************************************************************************)
EXTENDS ChatStream_proofs, ChatReplay_proofs

(* The record of the hub *)

\* The log is that of the record's turn, in order, and ends with the turn.
HubInv ==
    /\ record \in Turns \cup {None} /\ stage \in [Turns -> Stages]
    /\ log \in Seq(Event) /\ Len(log) <= MaxLog /\ \A i \in DOMAIN log : log[i].turn = record
    /\ overflowed \in BOOLEAN /\ faults \in 0..MaxFaults
    /\ Consecutive(log) /\ FromTop(log)
    /\ record = None => log = <<>>
    /\ record # None => stage[record] # "unused"
    /\ record # None /\ Live(record) =>
         Len(log) < MaxLog /\ \A i \in DOMAIN log : log[i].type \notin Terminal
    /\ record # None /\ ~Live(record) => log # <<>> /\ Last(log).type \in Terminal

LEMMA EmptyLog ==
    /\ <<>> \in Seq(Event) /\ Len(<<>>) = 0 /\ DOMAIN <<>> = {}
    /\ Consecutive(<<>>) /\ FromTop(<<>>) /\ Range(<<>>) = {} /\ Pieces(<<>>) = {}
PROOF
  <1>1. <<>> \in Seq(Event) /\ Len(<<>>) = 0 /\ DOMAIN <<>> = {}
    BY EmptySeq, LenProperties
  <1> QED BY <1>1 DEF Consecutive, FromTop, Range, Pieces

\* A hub without a log, but for the turns it has begun.
NoLog ==
    /\ log \in Seq(Event) /\ Len(log) <= MaxLog /\ DOMAIN log = {}
    /\ Consecutive(log) /\ FromTop(log) /\ Len(log) < MaxLog

LEMMA EmptyIsNoLog ==
    ASSUME log = <<>>
    PROVE  NoLog
PROOF
  <1>1. Len(<<>>) < MaxLog /\ Len(<<>>) <= MaxLog
    BY EmptyLog, BoundsAssumption
  <1> QED BY <1>1, EmptyLog DEF NoLog

LEMMA InitHub == Init => HubInv
PROOF
  <1> SUFFICES ASSUME Init PROVE HubInv
    OBVIOUS
  <1>1. NoLog
    BY EmptyIsNoLog DEF Init
  <1>2. record = None /\ log = <<>> /\ stage \in [Turns -> Stages]
    BY DEF Init, Stages
  <1>3. overflowed \in BOOLEAN
    BY DEF Init
  <1>4. faults \in 0..MaxFaults
    BY BoundsAssumption DEF Init
  <1> QED BY <1>1, <1>2, <1>3, <1>4 DEF HubInv, NoLog

LEMMA FaultTyped ==
    ASSUME HubInv, Fault \/ UNCHANGED faults
    PROVE  faults' \in 0..MaxFaults
PROOF BY BoundsAssumption DEF HubInv, Fault

LEMMA BeginHub ==
    ASSUME HubInv, NEW t \in Turns, NEW own, Begin(t, own), UNCHANGED faults
    PROVE  HubInv'
PROOF
  <1>1. /\ record' = t /\ log' = <<>> /\ overflowed' = FALSE
        /\ stage' = [stage EXCEPT ![t] = "begun"]
    BY DEF Begin
  <1>2. stage' \in [Turns -> Stages] /\ stage'[t] = "begun" /\ t # None
    BY <1>1, NoneAssumption DEF HubInv, Stages
  <1>3. Live(record)'
    BY <1>1, <1>2 DEF Live
  <1>4. NoLog'
    BY <1>1, EmptyLog, BoundsAssumption DEF NoLog, Consecutive, FromTop
  <1>5. overflowed' \in BOOLEAN
    BY <1>1
  <1>6. faults' \in 0..MaxFaults
    BY FaultTyped
  <1> QED BY <1>1, <1>2, <1>3, <1>4, <1>5, <1>6 DEF HubInv, NoLog

LEMMA NobodyHub ==
    ASSUME HubInv, record' = None, log' = <<>>, overflowed' = FALSE,
           stage' \in [Turns -> Stages], Fault \/ UNCHANGED faults
    PROVE  HubInv'
PROOF
  <1>1. NoLog'
    BY EmptyLog, BoundsAssumption DEF NoLog, Consecutive, FromTop
  <1>2. overflowed' \in BOOLEAN
    OBVIOUS
  <1>3. faults' \in 0..MaxFaults
    BY FaultTyped
  <1> QED BY <1>1, <1>2, <1>3 DEF HubInv, NoLog

\* The stages of turns change, but not whether the record's turn is live.
LEMMA StagesHub ==
    ASSUME HubInv, UNCHANGED <<record, log, overflowed, faults>>,
           stage' \in [Turns -> Stages],
           record # None => /\ Live(record)' = Live(record)
                            /\ stage[record] # "unused" => stage'[record] # "unused"
    PROVE  HubInv'
PROOF BY DEF HubInv, Consecutive, FromTop

LEMMA EventNumber ==
    ASSUME NEW e \in Event
    PROVE  e.type \in Kinds /\ e.turn \in Turns /\ e.n \in Nat /\ e.n \in 0..MaxLog
PROOF
  <1>1. e.type \in Kinds /\ e.turn \in Turns /\ e.n \in 0..MaxLog
    BY DEF Event
  <1> QED BY <1>1, BoundsAssumption

LEMMA AppendConsecutive ==
    ASSUME NEW es \in Seq(Event), NEW e \in Event, Consecutive(es),
           (e.type = "start") <=> (e.n = 0),
           es # <<>> => /\ e.turn = Last(es).turn /\ e.n = Last(es).n + 1
                        /\ Last(es).type \notin Terminal
    PROVE  /\ Consecutive(Append(es, e))
           /\ FromTop(es) /\ (es = <<>> => e.n \in {0, 1}) => FromTop(Append(es, e))
PROOF
  <1> DEFINE fs == Append(es, e)
             L == Len(es)
  <1>1. /\ fs \in Seq(Event) /\ Len(fs) = L + 1 /\ L \in Nat
        /\ \A i \in 1..L : fs[i] = es[i]
        /\ fs[L + 1] = e /\ fs # <<>>
        /\ DOMAIN es = 1..L
    BY AppendProperties, LenProperties
  <1>2. DOMAIN fs = 1..(L + 1)
    BY <1>1, LenProperties
  <1>3. \A i \in 1..L : es[i].n \in Nat
    BY <1>1, EventNumber, ElementOfSeq
  <1>4. es = <<>> <=> L = 0
    BY <1>1, EmptySeq
  <1> HIDE DEF fs
  <1>5. ASSUME NEW i \in 1..(L + 1)
        PROVE  /\ fs[i].turn = fs[1].turn /\ fs[i].n = fs[1].n + (i - 1)
               /\ (fs[i].type = "start") <=> (fs[i].n = 0)
               /\ fs[i].type \in Terminal => i = Len(fs)
    <2>1. CASE i \in 1..L
      <3>1. fs[i] = es[i] /\ fs[1] = es[1]
        BY <1>1, <2>1
      <3>2. es[i].type \in Terminal => FALSE
        <4>1. es[i].type \in Terminal => i = L
          BY <1>1, <2>1 DEF Consecutive
        <4>2. L # 0
          BY <1>1, <2>1
        <4>3. es[L].type \notin Terminal
          BY <1>4, <4>2 DEF Last
        <4> QED BY <4>1, <4>3
      <3> QED BY <1>1, <2>1, <3>1, <3>2 DEF Consecutive
    <2>2. CASE i = L + 1 /\ L = 0
      <3>1. fs[1] = e /\ fs[i] = e /\ e.n \in Nat
        BY <1>1, <2>2, BoundsAssumption DEF Event
      <3> QED BY <1>1, <2>2, <3>1
    <2>3. CASE i = L + 1 /\ L # 0
      <3>1. L \in 1..L /\ 1 \in 1..L /\ es # <<>>
        BY <1>1, <1>4, <2>3
      <3>2. /\ es[L].turn = es[1].turn /\ es[L].n = es[1].n + (L - 1)
            /\ fs[1] = es[1] /\ fs[i] = e
        BY <1>1, <2>3, <3>1 DEF Consecutive
      <3>3. e.turn = es[L].turn /\ e.n = es[L].n + 1
        BY <3>1 DEF Last
      <3> QED BY <1>1, <1>3, <2>3, <3>1, <3>2, <3>3
    <2> QED BY <1>1, <2>1, <2>2, <2>3
  <1>6. Consecutive(fs)
    BY <1>2, <1>5 DEF Consecutive
  <1>7. FromTop(es) /\ (es = <<>> => e.n \in {0, 1}) => FromTop(fs)
    <2>1. L # 0 => fs[1] = es[1]
      BY <1>1
    <2>2. L = 0 => fs[1] = e
      BY <1>1
    <2> QED BY <1>4, <2>1, <2>2 DEF FromTop
  <1> QED BY <1>6, <1>7 DEF fs

LEMMA FollowsIs ==
    ASSUME NEW kind \in Kinds, Follows(kind)
    PROVE  /\ kind = "start" => log = <<>>
           /\ kind \notin Terminal => kind = "start" \/ Len(log) < MaxLog - 1
PROOF
  <1>1. CASE kind = "start"
    BY <1>1 DEF Follows
  <1>2. CASE kind = "text"
    BY <1>2 DEF Follows
  <1>3. CASE kind \in Terminal
    BY <1>3 DEF Terminal
  <1> QED BY <1>1, <1>2, <1>3 DEF Kinds, Terminal

\* What is published continues the log of a turn that has not ended.
LEMMA NumberedIs ==
    ASSUME HubInv, NEW kind \in Kinds, Publish(kind)
    PROVE  LET e == Numbered(record, kind) IN
           /\ e \in Event /\ e.turn = record /\ e.type = kind
           /\ (e.type = "start") <=> (e.n = 0)
           /\ log # <<>> => /\ e.turn = Last(log).turn /\ e.n = Last(log).n + 1
                            /\ Last(log).type \notin Terminal
           /\ log = <<>> => e.n \in {0, 1}
           /\ kind \notin Terminal => Len(log) + 1 < MaxLog
PROOF
  <1> DEFINE e == Numbered(record, kind)
             L == Len(log)
  <1>1. /\ record \in Turns /\ Live(record) /\ Follows(kind)
        /\ L < MaxLog /\ \A i \in DOMAIN log : log[i].type \notin Terminal
    BY DEF Publish, MayPublish, HubInv
  <1>2. /\ L \in Nat /\ DOMAIN log = 1..L
        /\ \A i \in 1..L : log[i] \in Event
    BY LenProperties, ElementOfSeq DEF HubInv
  <1>3. log = <<>> <=> L = 0
    BY <1>2, EmptySeq DEF HubInv
  <1>4. e.type = kind /\ e.turn = record
        /\ e.n = IF log # <<>> THEN Last(log).n + 1 ELSE IF kind = "start" THEN 0 ELSE 1
    BY DEF Numbered
  <1>5. CASE log = <<>>
    <2>1. e.n \in {0, 1} /\ ((kind = "start") <=> (e.n = 0))
      BY <1>4, <1>5
    <2>2. e.n \in 0..MaxLog
      BY <2>1, BoundsAssumption
    <2>3. e \in Event
      BY <1>1, <1>4, <2>2 DEF Event, Numbered
    <2>4. kind \notin Terminal => L + 1 < MaxLog
      BY <1>1, <1>3, <1>5, BoundsAssumption DEF Follows, Terminal, Kinds
    <2> QED BY <1>4, <1>5, <2>1, <2>3, <2>4
  <1>6. CASE log # <<>>
    <2>1. L \in 1..L /\ 1 \in 1..L
      BY <1>2, <1>3, <1>6
    <2>2. /\ log[L].n = log[1].n + (L - 1) /\ log[1].n \in {0, 1}
          /\ log[L].turn = record /\ log[L].type \notin Terminal
      BY <1>1, <1>2, <1>6, <2>1 DEF HubInv, Consecutive, FromTop
    <2>3. e.n = log[L].n + 1 /\ e.n \in 1..MaxLog
      BY <1>1, <1>2, <1>4, <1>6, <2>1, <2>2, BoundsAssumption DEF Last
    <2>4. kind # "start" /\ (kind \notin Terminal => L + 1 < MaxLog)
      BY <1>1, <1>2, <1>6, FollowsIs, BoundsAssumption
    <2>5. e.n \in 0..MaxLog /\ e.n # 0
      BY <2>3, BoundsAssumption
    <2>6. e \in Event
      BY <1>1, <1>4, <2>5 DEF Event, Numbered
    <2> QED BY <1>4, <1>6, <2>2, <2>3, <2>4, <2>5, <2>6 DEF Last
  <1> QED BY <1>5, <1>6

LEMMA PublishHub ==
    ASSUME HubInv, NEW kind \in Kinds, Publish(kind)
    PROVE  HubInv'
PROOF
  <1> DEFINE e == Numbered(record, kind)
             L == Len(log)
  <1>1. /\ record # None /\ Live(record) /\ record' = record /\ log' = Append(log, e)
        /\ stage' = AfterEvent(record, kind)
        /\ Fault \/ UNCHANGED faults
    BY DEF Publish, MayPublish
  <1>2. record \in Turns /\ log \in Seq(Event) /\ L < MaxLog /\ Consecutive(log) /\ FromTop(log)
    BY <1>1 DEF HubInv
  <1>3. overflowed' \in BOOLEAN
    BY DEF Publish, HubInv
  <1>4. /\ e \in Event /\ e.turn = record /\ e.type = kind
        /\ kind \notin Terminal => L + 1 < MaxLog
        /\ Consecutive(Append(log, e)) /\ FromTop(Append(log, e))
    BY <1>2, NumberedIs, AppendConsecutive
  <1>5. /\ stage' \in [Turns -> Stages] /\ stage'[record] # "unused"
        /\ Live(record)' <=> kind \notin Terminal
    BY <1>1, <1>2 DEF HubInv, AfterEvent, Live, Stages, Terminal
  <1> HIDE DEF e
  <1>6. /\ log' \in Seq(Event) /\ Len(log') = L + 1 /\ L \in Nat
        /\ \A i \in 1..L : log'[i] = log[i]
        /\ log'[L + 1] = e /\ log' # <<>>
        /\ DOMAIN log = 1..L
    BY <1>1, <1>2, <1>4, AppendProperties, LenProperties
  <1>7. DOMAIN log' = 1..(L + 1)
    BY <1>6, LenProperties
  <1>8. \A i \in DOMAIN log' : log'[i].turn = record
                               /\ (kind \notin Terminal => log'[i].type \notin Terminal)
    <2> SUFFICES ASSUME NEW i \in 1..(L + 1)
                 PROVE  log'[i].turn = record
                        /\ (kind \notin Terminal => log'[i].type \notin Terminal)
      BY <1>7
    <2>1. CASE i \in 1..L
      BY <1>1, <1>6, <2>1 DEF HubInv
    <2>2. CASE i = L + 1
      BY <1>4, <1>6, <2>2
    <2> QED BY <1>6, <2>1, <2>2
  <1>9. Last(log') = e
    BY <1>6 DEF Last
  <1>10. Len(log') <= MaxLog /\ (kind \notin Terminal => Len(log') < MaxLog)
    BY <1>2, <1>4, <1>6, BoundsAssumption
  <1>11. (record # None /\ Live(record))' <=> kind \notin Terminal
    BY <1>1, <1>5
  <1>12. faults' \in 0..MaxFaults
    BY <1>1, FaultTyped
  <1> QED BY <1>1, <1>2, <1>3, <1>4, <1>5, <1>6, <1>8, <1>9, <1>10, <1>11, <1>12 DEF HubInv

LEMMA NextHub == HubInv /\ [Next]_vars => HubInv'
PROOF
  <1> SUFFICES ASSUME HubInv, [Next]_vars PROVE HubInv'
    OBVIOUS
  <1>1. CASE UNCHANGED hubVars /\ (Fault \/ UNCHANGED faults)
    <2>1. faults' \in 0..MaxFaults
      BY <1>1, FaultTyped
    <2> QED BY <1>1, <2>1 DEF HubInv, hubVars, Consecutive, FromTop, Live
  <1>2. CASE Send \/ Steer \/ Flush \/ Probe \/ Retry \/ Online \/ CheckAlive \/ Break \/ Silence
    <2>1. UNCHANGED hubVars /\ (Fault \/ UNCHANGED faults)
      BY <1>2 DEF Send, Steer, Flush, Probe, Retry, Online, CheckAlive, Break, Silence, Cut
    <2> QED BY <1>1, <2>1
  <1>3. CASE ForeignPost
    BY <1>3, BeginHub DEF ForeignPost
  <1>4. CASE Expire
    BY <1>4, NobodyHub DEF Expire, HubInv
  <1>5. CASE Restart
    <2>1. stage' \in [Turns -> Stages]
      BY <1>5 DEF Restart, HubInv, Stages
    <2> QED BY <1>5, <2>1, NobodyHub DEF Restart
  <1>6. ASSUME NEW c \in Conns, HandlePost(c) \/ HandleGet(c) \/ Deliver(c)
                                \/ TransportEnds(c) \/ Forget(c)
        PROVE  HubInv'
    <2>1. CASE HandlePost(c)
      BY <2>1, BeginHub DEF HandlePost
    <2>2. CASE ~HandlePost(c)
      <3>1. UNCHANGED hubVars /\ UNCHANGED faults
        BY <1>6, <2>2 DEF HandleGet, Deliver, TransportEnds, Forget
      <3> QED BY <1>1, <3>1
    <2> QED BY <2>1, <2>2
  <1>7. ASSUME NEW t \in Turns, EndTurn(t)
        PROVE  HubInv'
    <2>1. /\ UNCHANGED <<record, log, overflowed, faults>> /\ stage[t] = "settled"
          /\ stage' = [stage EXCEPT ![t] = "over"]
      BY <1>7 DEF EndTurn
    <2>2. stage' \in [Turns -> Stages]
          /\ \A u \in Turns : /\ Live(u)' = Live(u)
                              /\ stage[u] # "unused" => stage'[u] # "unused"
      BY <2>1 DEF HubInv, Stages, Live
    <2> QED BY <2>1, <2>2, StagesHub DEF HubInv
  <1>8. ASSUME NEW t \in Turns, NEW k \in Kinds, PublishUnseen(t, k)
        PROVE  HubInv'
    <2>1. /\ UNCHANGED <<record, log, overflowed, faults>> /\ t # record
          /\ stage' = AfterEvent(t, k)
      BY <1>8 DEF PublishUnseen
    <2>2. stage' \in [Turns -> Stages] /\ \A u \in Turns : u # t => stage'[u] = stage[u]
      BY <2>1 DEF HubInv, Stages, AfterEvent
    <2> QED BY <2>1, <2>2, StagesHub DEF HubInv, Live
  <1>9. ASSUME NEW k \in Kinds, Publish(k)
        PROVE  HubInv'
    BY <1>9, PublishHub
  <1>10. CASE UNCHANGED vars
    BY <1>1, <1>10 DEF vars
  <1> QED BY <1>2, <1>3, <1>4, <1>5, <1>6, <1>7, <1>8, <1>9, <1>10 DEF Next

----------------------------------------------------------------------------
(* What a connection still has to deliver *)

\* w holds what comes after the first k events of L.
Rest(w, L, k) ==
    /\ w \in Seq(Event) /\ k \in 0..Len(L) /\ Len(w) = Len(L) - k
    /\ \A i \in 1..Len(w) : w[i] = L[k + i]

\* The number the event after the first k has, or can at least have.
NextAt(L, k) == IF L = <<>> THEN 0 ELSE L[1].n + k

\* L is the log of turn u, in order and from its first event on.
LogOf(L, u) ==
    /\ L \in Seq(Event) /\ Consecutive(L) /\ FromTop(L)
    /\ \A i \in DOMAIN L : L[i].turn = u

LEMMA LogOfIs ==
    ASSUME NEW L, NEW u, LogOf(L, u)
    PROVE  /\ Len(L) \in Nat /\ DOMAIN L = 1..Len(L) /\ (L = <<>> <=> Len(L) = 0)
           /\ \A i \in 1..Len(L) :
                /\ L[i] \in Event /\ L[i].n \in Nat /\ L[i].turn = u
                /\ L[i].n = L[1].n + (i - 1) /\ L[1].n \in {0, 1}
                /\ (L[i].type = "start") <=> (L[i].n = 0)
                /\ L[i].type \in Terminal => i = Len(L)
PROOF
  <1>1. L \in Seq(Event) /\ Len(L) \in Nat /\ DOMAIN L = 1..Len(L) /\ (L = <<>> <=> Len(L) = 0)
    BY LenProperties, EmptySeq DEF LogOf
  <1>2. \A i \in 1..Len(L) : L[i] \in Event
    BY <1>1, ElementOfSeq
  <1>3. \A i \in 1..Len(L) : L[i].n \in Nat
    BY <1>2, EventNumber
  <1>4. Len(L) # 0 => L[1].n \in {0, 1}
    BY <1>1 DEF LogOf, FromTop
  <1>5. \A i \in 1..Len(L) : Len(L) # 0
    BY <1>1
  <1> QED BY <1>1, <1>2, <1>3, <1>4, <1>5 DEF LogOf, Consecutive

LEMMA NextAtIs ==
    ASSUME NEW L, NEW u, LogOf(L, u), NEW k \in 0..Len(L)
    PROVE  /\ k < Len(L) => L[k + 1].n = NextAt(L, k) /\ NextAt(L, k + 1) = NextAt(L, k) + 1
           /\ L # <<>> => NextAt(L, k) \in Nat
PROOF
  <1>1. k < Len(L) => L # <<>> /\ k + 1 \in 1..Len(L)
    BY LogOfIs
  <1>2. L # <<>> => 1 \in 1..Len(L)
    BY LogOfIs
  <1>3. L # <<>> => L[1].n \in Nat
    BY <1>2, LogOfIs
  <1>4. k < Len(L) => L[k + 1].n = L[1].n + k
    BY <1>1, LogOfIs
  <1>5. k \in Nat
    BY LogOfIs
  <1>6. CASE L # <<>>
    <2>1. NextAt(L, k) = L[1].n + k /\ NextAt(L, k + 1) = L[1].n + (k + 1)
      BY <1>6 DEF NextAt
    <2> QED BY <1>3, <1>4, <1>5, <1>6, <2>1
  <1>7. CASE L = <<>>
    BY <1>1, <1>7
  <1> QED BY <1>6, <1>7

LEMMA RestTail ==
    ASSUME NEW w, NEW L, NEW u, LogOf(L, u), NEW k, Rest(w, L, k), w # <<>>
    PROVE  /\ k \in 0..Len(L) /\ k < Len(L) /\ Head(w) = L[k + 1] /\ Head(w) \in Event
           /\ Rest(Tail(w), L, k + 1)
PROOF
  <1>1. w \in Seq(Event) /\ Len(w) \in Nat /\ Len(w) # 0
    BY LenProperties, EmptySeq DEF Rest
  <1>2. /\ Head(w) = w[1] /\ Tail(w) \in Seq(Event) /\ Len(Tail(w)) = Len(w) - 1
        /\ \A i \in 1..(Len(w) - 1) : Tail(w)[i] = w[i + 1]
    BY <1>1, HeadTailProperties
  <1> DEFINE t == Tail(w)
             h == Head(w)
  <1>3. Len(L) \in Nat /\ k \in 0..Len(L) /\ Len(w) = Len(L) - k
    BY LogOfIs DEF Rest
  <1>4. k < Len(L) /\ 1 \in 1..Len(w) /\ k + 1 \in 1..Len(L)
    BY <1>1, <1>3
  <1>5. h = L[k + 1] /\ h \in Event
    BY <1>2, <1>4, LogOfIs DEF Rest
  <1>6. t \in Seq(Event) /\ k + 1 \in 0..Len(L) /\ Len(t) = Len(L) - (k + 1)
    BY <1>1, <1>2, <1>3
  <1>7. \A i \in 1..Len(t) : t[i] = L[(k + 1) + i]
    <2> SUFFICES ASSUME NEW i \in 1..Len(t) PROVE t[i] = L[(k + 1) + i]
      OBVIOUS
    <2>1. t[i] = w[i + 1] /\ i + 1 \in 1..Len(w)
      BY <1>1, <1>2
    <2>2. w[i + 1] = L[k + (i + 1)]
      BY <2>1 DEF Rest
    <2>3. k + (i + 1) = (k + 1) + i
      BY <1>3, <2>1
    <2> QED BY <2>1, <2>2, <2>3
  <1> HIDE DEF t, h
  <1>8. Rest(t, L, k + 1)
    BY <1>6, <1>7 DEF Rest
  <1> QED BY <1>3, <1>4, <1>5, <1>8 DEF t, h

LEMMA RestAppend ==
    ASSUME NEW w, NEW L \in Seq(Event), NEW k, Rest(w, L, k), NEW e \in Event
    PROVE  Rest(Append(w, e), Append(L, e), k)
PROOF
  <1> DEFINE v == Append(w, e)
             M == Append(L, e)
  <1>1. w \in Seq(Event) /\ Len(w) \in Nat /\ Len(L) \in Nat
        /\ k \in 0..Len(L) /\ Len(w) = Len(L) - k
    BY LenProperties DEF Rest
  <1>2. /\ v \in Seq(Event) /\ Len(v) = Len(w) + 1 /\ v[Len(w) + 1] = e
        /\ \A i \in 1..Len(w) : v[i] = w[i]
    BY <1>1, AppendProperties
  <1>3. /\ M \in Seq(Event) /\ Len(M) = Len(L) + 1 /\ M[Len(L) + 1] = e
        /\ \A i \in 1..Len(L) : M[i] = L[i]
    BY AppendProperties
  <1> HIDE DEF v, M
  <1>4. k \in 0..Len(M) /\ Len(v) = Len(M) - k
    BY <1>1, <1>2, <1>3
  <1>5. \A i \in 1..Len(v) : v[i] = M[k + i]
    <2> SUFFICES ASSUME NEW i \in 1..Len(v) PROVE v[i] = M[k + i]
      OBVIOUS
    <2>1. CASE i \in 1..Len(w)
      <3>1. k + i \in 1..Len(L) /\ w[i] = L[k + i]
        BY <1>1, <2>1 DEF Rest
      <3> QED BY <1>2, <1>3, <2>1, <3>1
    <2>2. CASE i = Len(w) + 1
      <3>1. k + i = Len(L) + 1
        BY <1>1, <2>2
      <3> QED BY <1>2, <1>3, <2>2, <3>1
    <2> QED BY <1>1, <1>2, <2>1, <2>2
  <1>6. Rest(v, M, k)
    BY <1>2, <1>4, <1>5 DEF Rest
  <1> QED BY <1>6 DEF v, M

LEMMA RestOfAll ==
    ASSUME NEW L \in Seq(Event)
    PROVE  Rest(<<>>, L, Len(L))
PROOF
  <1>1. Len(L) \in Nat /\ <<>> \in Seq(Event) /\ Len(<<>>) = 0
    BY LenProperties, EmptyLog
  <1> DEFINE e == <<>>
  <1>2. e \in Seq(Event) /\ Len(e) = 0 /\ Len(L) \in 0..Len(L) /\ Len(e) = Len(L) - Len(L)
    BY <1>1
  <1> HIDE DEF e
  <1>3. Rest(e, L, Len(L))
    BY <1>2 DEF Rest
  <1> QED BY <1>3 DEF e

LEMMA PiecesAppend ==
    ASSUME NEW es \in Seq(Event), NEW e \in Event
    PROVE  Pieces(es) \subseteq Pieces(Append(es, e))
PROOF
  <1> DEFINE fs == Append(es, e)
  <1>1. /\ Len(fs) = Len(es) + 1 /\ fs \in Seq(Event) /\ Len(es) \in Nat
        /\ \A i \in 1..Len(es) : fs[i] = es[i]
    BY AppendProperties, LenProperties
  <1>2. DOMAIN fs = 1..Len(fs) /\ DOMAIN es = 1..Len(es)
    BY <1>1, LenProperties
  <1> HIDE DEF fs
  <1>3. \A i \in DOMAIN es : i \in DOMAIN fs /\ fs[i] = es[i]
    BY <1>1, <1>2
  <1>4. Pieces(es) \subseteq Pieces(fs)
    BY <1>3 DEF Pieces
  <1> QED BY <1>4 DEF fs

\* The events of a baseline are the first ones of a log.
LEMMA FirstOf ==
    ASSUME NEW L, NEW u, LogOf(L, u), NEW es \in Seq(Event), Len(es) \in 0..Len(L),
           \A i \in 1..Len(es) : es[i] = L[i]
    PROVE  LogOf(es, u) /\ Pieces(es) \subseteq Pieces(L)
PROOF
  <1>1. Len(es) \in Nat /\ DOMAIN es = 1..Len(es) /\ (es = <<>> <=> Len(es) = 0)
        /\ Len(L) \in Nat /\ DOMAIN L = 1..Len(L)
    BY LenProperties, EmptySeq, LogOfIs
  <1>2. ASSUME NEW i \in 1..Len(es)
        PROVE  i \in 1..Len(L) /\ es[i] = L[i] /\ es[1] = L[1]
    BY <1>1
  <1>3. ASSUME NEW i \in 1..Len(es)
        PROVE  /\ es[i].turn = u /\ es[i].turn = es[1].turn /\ es[i].n = es[1].n + (i - 1)
               /\ (es[i].type = "start") <=> (es[i].n = 0)
               /\ es[1].n \in {0, 1}
    <2>1. 1 \in 1..Len(L) /\ i \in 1..Len(L) /\ es[i] = L[i] /\ es[1] = L[1]
      BY <1>1, <1>2
    <2> QED BY <2>1, LogOfIs
  <1>4. ASSUME NEW i \in 1..Len(es), es[i].type \in Terminal
        PROVE  i = Len(es)
    <2>1. i = Len(L)
      BY <1>2, <1>4, LogOfIs
    <2> DEFINE m == Len(es)
               n == Len(L)
    <2>2. m \in Nat /\ n \in Nat /\ m <= n /\ i \in 1..m /\ i = n
      BY <1>1, <2>1
    <2> HIDE DEF m, n
    <2>3. i = m
      BY <2>2
    <2> QED BY <2>3 DEF m
  <1>5. Consecutive(es)
    BY <1>1, <1>3, <1>4 DEF Consecutive
  <1>6. FromTop(es)
    <2>1. es # <<>> => 1 \in 1..Len(es)
      BY <1>1
    <2> QED BY <1>3, <2>1 DEF FromTop
  <1>7. LogOf(es, u)
    BY <1>1, <1>3, <1>5, <1>6 DEF LogOf
  <1>8. \A i \in DOMAIN es : i \in DOMAIN L /\ es[i] = L[i]
    BY <1>1, <1>2
  <1>9. Pieces(es) \subseteq Pieces(L)
    BY <1>8 DEF Pieces
  <1> QED BY <1>7, <1>9

LEMMA PiecesOf ==
    ASSUME NEW L, NEW u, LogOf(L, u), NEW e \in Pieces(L)
    PROVE  e = <<u, e[2]>> /\ e[1] = u /\ e[2] \in 1..MaxLog
PROOF
  <1>1. PICK i \in DOMAIN L : Shows(L[i]) /\ e = <<L[i].turn, L[i].n>>
    BY DEF Pieces
  <1>2. i \in 1..Len(L)
    BY LogOfIs
  <1>3. L[i] \in Event /\ L[i].turn = u /\ L[i].n # 0
    BY <1>1, <1>2, LogOfIs DEF Shows
  <1>4. L[i].n \in 1..MaxLog
    <2>1. L[i].n \in 0..MaxLog
      BY <1>3, EventNumber
    <2> QED BY <1>3, <2>1, BoundsAssumption
  <1> QED BY <1>1, <1>3, <1>4

----------------------------------------------------------------------------
(* The tab ahead of an event *)

LEMMA ReadyZero ==
    ASSUME NEW s, Good(s), NEW u, Ready(s, u, 0)
    PROVE  Ready(s, u, 1)
PROOF
  <1>1. \A e \in Has(s) : e \in Piece
    BY ScreenIs DEF Good
  <1>2. \A e \in Has(s) : e[1] = u => e[2] < 1
    BY <1>1, PieceIs DEF Ready
  <1> QED BY <1>2 DEF Ready

\* Ready for the next event of an empty log is ready for whatever it will be.
LEMMA ReadyAppend ==
    ASSUME NEW s, Good(s), NEW L, NEW u, LogOf(L, u), NEW e \in Event,
           L = <<>> => e.n \in {0, 1},
           NEW k \in 0..Len(L), Ready(s, u, NextAt(L, k))
    PROVE  Ready(s, u, NextAt(Append(L, e), k))
PROOF
  <1> DEFINE M == Append(L, e)
  <1>1. L \in Seq(Event) /\ Len(L) \in Nat /\ (L = <<>> <=> Len(L) = 0)
    BY LogOfIs DEF LogOf
  <1>2. /\ M # <<>> /\ \A i \in 1..Len(L) : M[i] = L[i]
        /\ M[Len(L) + 1] = e
    BY <1>1, AppendProperties
  <1> HIDE DEF M
  <1>3. NextAt(M, k) = M[1].n + k
    BY <1>2 DEF NextAt
  <1>4. CASE L = <<>>
    <2>1. k = 0 /\ M[1] = e /\ Ready(s, u, 0)
      BY <1>1, <1>2, <1>4 DEF NextAt
    <2>2. NextAt(M, k) \in {0, 1}
      BY <1>3, <1>4, <2>1
    <2> QED BY <2>1, <2>2, ReadyZero DEF M
  <1>5. CASE L # <<>>
    <2>1. M[1] = L[1]
      BY <1>1, <1>2, <1>5
    <2> QED BY <1>3, <1>5, <2>1 DEF NextAt, M
  <1> QED BY <1>4, <1>5

----------------------------------------------------------------------------
(* The invariant of the connections and the tab *)

\* What the tab has of turn u is in es.
Covered(s, u, es) == \A e \in Has(s) : e[1] = u => e \in Pieces(es)

\* A tab that has no stream has no open turn; no piece comes from a turn to
\* begin; and the record has all that the tab has of its turn.
TabInv ==
    /\ Good(tab)
    /\ ~tab.sending => tab.active = 0
    /\ \A e \in Has(tab) : stage[e[1]] # "unused"
    /\ record # None => Covered(tab, record, log)

Resume == [type : {"resume"}, turn : Turns, live : BOOLEAN, events : Seq(Event)]

Answers == [type : {"idle", "resume_unavailable"}]

\* The record of turn u, or what it was when a connection was let go.
Stream(u, L) ==
    /\ LogOf(L, u) /\ u \in Turns /\ stage[u] # "unused"
    /\ u = record => Pieces(L) \subseteq Pieces(log)

\* The tab has taken the first events of L, and w holds the others.
Following(w, u, L) ==
    /\ tab.sending
    /\ \E k \in 0..Len(L) : Rest(w, L, k) /\ Ready(tab, u, NextAt(L, k))

\* A baseline tells whether its turn goes on.
Tells(f) == f.live <=> (f.events # <<>> => Last(f.events).type \notin Terminal)

\* The baseline at the head of w holds the first events of L, and what the tab
\* has of the turn among them; the rest of w holds the others.
Resuming(w, u, L) ==
    /\ w # <<>> /\ Head(w) \in Resume /\ Head(w).turn = u
    /\ Rest(Tail(w), L, Len(Head(w).events))
    /\ \A i \in 1..Len(Head(w).events) : Head(w).events[i] = L[i]
    /\ Covered(tab, u, Head(w).events)
    /\ Tells(Head(w))

\* The current connection gets what is published.
Followed == record # None /\ conns[current].stage = "open" /\ current \in subs[record]

Wired ==
    \/ conns[current].wire = <<>> /\ ~Followed
    \/ /\ conns[current].wire # <<>> /\ Tail(conns[current].wire) = <<>>
       /\ Head(conns[current].wire) \in Answers /\ conns[current].stage = "ended"
    \/ \E u, L :
         /\ Stream(u, L)
         /\ Following(conns[current].wire, u, L) \/ Resuming(conns[current].wire, u, L)
         /\ Followed => u = record /\ L = log

\* Only the current connection has frames, and only once it is answered; a POST
\* on its way will find the tab ready for turn_start.
WireInv ==
    /\ \A c \in Conns : c # current => conns[c].wire = <<>>
    /\ current # None =>
         /\ conns[current].stage \notin {"open", "ended"} => conns[current].wire = <<>>
         /\ current \in Posts => tab.sending /\ (tab.active = 0 \/ tab.steered)
         /\ Wired

\* A timer is armed only for a tab that spins, without a transport.
SpinInv ==
    /\ tab.timer => tab.sending /\ current = None /\ ~tab.live
    /\ tab.live => current # None
    /\ tab.sending => tab.timer \/ tab.live

ScreenInv == IInv /\ HubInv /\ conns \in [Conns -> Conn] /\ TabInv /\ WireInv /\ SpinInv

----------------------------------------------------------------------------
(* Steps of the hub, for the tab *)

\* A record only grows, until it is replaced by that of a new turn or dropped.
HubStep ==
    /\ \A t \in Turns : stage'[t] = "unused" => stage[t] = "unused"
    /\ \/ record' = record /\ Pieces(log) \subseteq Pieces(log')
       \/ record' = None
       \/ record' \in Turns /\ stage[record'] = "unused"

LEMMA PublishHubStep ==
    ASSUME HubInv, NEW kind \in Kinds, Publish(kind)
    PROVE  HubStep
PROOF
  <1>1. /\ record' = record /\ log' = Append(log, Numbered(record, kind))
        /\ stage' = AfterEvent(record, kind) /\ record # None
    BY DEF Publish
  <1>2. log \in Seq(Event) /\ Numbered(record, kind) \in Event /\ record \in Turns
    BY <1>1, NumberedIs DEF HubInv
  <1>3. Pieces(log) \subseteq Pieces(log')
    BY <1>1, <1>2, PiecesAppend
  <1>4. \A t \in Turns : stage'[t] = "unused" => stage[t] = "unused"
    BY <1>1, <1>2 DEF HubInv, AfterEvent
  <1> QED BY <1>1, <1>3, <1>4 DEF HubStep

LEMMA NextHubStep ==
    ASSUME HubInv, [Next]_vars
    PROVE  HubStep
PROOF
  <1>1. CASE UNCHANGED hubVars
    BY <1>1 DEF hubVars, HubStep
  <1>2. CASE Send \/ Steer \/ Flush \/ Probe \/ Retry \/ Online \/ CheckAlive \/ Break \/ Silence
    BY <1>1, <1>2 DEF Send, Steer, Flush, Probe, Retry, Online, CheckAlive, Break, Silence, Cut
  <1>3. ASSUME NEW t \in Turns, NEW own, Begin(t, own)
        PROVE  HubStep
    BY <1>3 DEF Begin, Unused, HubStep, HubInv
  <1>4. CASE ForeignPost
    BY <1>3, <1>4 DEF ForeignPost
  <1>5. CASE Expire
    BY <1>5 DEF Expire, HubStep
  <1>6. CASE Restart
    BY <1>6 DEF Restart, HubStep
  <1>7. ASSUME NEW c \in Conns, HandlePost(c) \/ HandleGet(c) \/ Deliver(c)
                                \/ TransportEnds(c) \/ Forget(c)
        PROVE  HubStep
    <2>1. CASE HandlePost(c)
      BY <1>3, <2>1 DEF HandlePost
    <2>2. CASE ~HandlePost(c)
      BY <1>1, <1>7, <2>2 DEF HandleGet, Deliver, TransportEnds, Forget
    <2> QED BY <2>1, <2>2
  <1>8. ASSUME NEW t \in Turns, EndTurn(t)
        PROVE  HubStep
    BY <1>8 DEF EndTurn, HubStep, HubInv
  <1>9. ASSUME NEW t \in Turns, NEW k \in Kinds, PublishUnseen(t, k)
        PROVE  HubStep
    BY <1>9 DEF PublishUnseen, HubStep, HubInv, AfterEvent
  <1>10. ASSUME NEW k \in Kinds, Publish(k)
         PROVE  HubStep
    BY <1>10, PublishHubStep
  <1>11. CASE UNCHANGED vars
    BY <1>1, <1>11 DEF vars
  <1> QED BY <1>2, <1>4, <1>5, <1>6, <1>7, <1>8, <1>9, <1>10, <1>11 DEF Next

LEMMA CoveredIs ==
    ASSUME NEW s, NEW u, NEW es, Covered(s, u, es),
           NEW t, NEW fs, Has(t) \subseteq Has(s), Pieces(es) \subseteq Pieces(fs)
    PROVE  Covered(t, u, fs)
PROOF BY DEF Covered

LEMMA PiecesOfTab ==
    ASSUME TabInv
    PROVE  /\ tab \in Tab /\ All(tab) \in Seq(Piece) /\ Shown(tab) \in Seq(Piece)
           /\ Has(tab) = On(tab) \cup Unshown(tab)
           /\ \A e \in Has(tab) : e \in Piece /\ e[1] \in Turns
PROOF BY ScreenIs, PieceIs DEF TabInv, Good

LEMMA TabKept ==
    ASSUME TabInv, HubInv, HubStep, UNCHANGED tab
    PROVE  TabInv'
PROOF
  <1>1. Good(tab') /\ (~tab'.sending => tab'.active = 0) /\ Has(tab') = Has(tab)
    BY DEF TabInv
  <1>2. \A e \in Has(tab') : stage'[e[1]] # "unused"
    BY PiecesOfTab DEF TabInv, HubStep
  <1>3. ASSUME record' # None
        PROVE  Covered(tab', record', log')
    <2>1. CASE record' = record
      <3>1. Covered(tab, record, log) /\ Pieces(log) \subseteq Pieces(log')
        BY <1>3, <2>1, NoneAssumption DEF TabInv, HubStep, HubInv
      <3> QED BY <1>1, <2>1, <3>1, CoveredIs
    <2>2. CASE record' # record
      <3>1. record' \in Turns /\ stage[record'] = "unused"
        BY <1>3, <2>2 DEF HubStep
      <3> QED BY <1>1, <3>1 DEF TabInv, Covered
    <2> QED BY <2>1, <2>2
  <1> QED BY <1>1, <1>2, <1>3 DEF TabInv, Good, Has, All, Covered, Unshown, Ordered, Complete

LEMMA StreamKept ==
    ASSUME TabInv, HubInv, HubStep, NEW u, NEW L, Stream(u, L)
    PROVE  Stream(u, L)'
PROOF
  <1>1. LogOf(L, u)' /\ u \in Turns /\ stage'[u] # "unused"
    BY DEF Stream, HubStep, LogOf, Consecutive, FromTop
  <1>2. u = record' => Pieces(L) \subseteq Pieces(log')
    BY NoneAssumption DEF Stream, HubStep
  <1> QED BY <1>1, <1>2 DEF Stream, Pieces, Shows

\* A connection of which nothing is taken, and to which nothing is added.
LEMMA FeedKept ==
    ASSUME TabInv, HubInv, HubStep, UNCHANGED tab, NEW w, NEW u, NEW L, Stream(u, L),
           Following(w, u, L) \/ Resuming(w, u, L)
    PROVE  Stream(u, L)' /\ (Following(w, u, L)' \/ Resuming(w, u, L)')
PROOF
  <1>1. Stream(u, L)'
    BY StreamKept
  <1>2. CASE Following(w, u, L)
    <2>1. Following(w, u, L)'
      BY <1>2 DEF Following, Rest, Ready, NextAt, Has, All
    <2> QED BY <1>1, <2>1
  <1>3. CASE Resuming(w, u, L)
    BY <1>1, <1>3 DEF Resuming, Rest, Covered, Has, All, Pieces, Shows, Last, Resume
  <1> QED BY <1>2, <1>3

LEMMA WireKept ==
    ASSUME TabInv, HubInv, HubStep, WireInv, UNCHANGED <<tab, current>>,
           NEW D \in SUBSET Conns,
           \A c \in Conns \ D :
             /\ conns'[c].wire = conns[c].wire /\ conns'[c].kind = conns[c].kind
             /\ \/ conns'[c].stage = conns[c].stage
                \/ conns[c].stage = "open" /\ conns'[c].stage = "ended",
           \A c \in D : /\ conns'[c].wire = <<>>
                        /\ c = current => conns'[c].stage \notin {"open", "asked"},
           current \in Conns \cup {None},
           current # None /\ Followed' => Followed /\ UNCHANGED <<record, log>>
    PROVE  WireInv'
PROOF
  <1>1. \A c \in Conns : c # current' => conns'[c].wire = <<>>
    BY DEF WireInv
  <1>2. ASSUME current # None, current \in D
        PROVE  /\ conns'[current].wire = <<>> /\ ~Followed' /\ current \notin Posts'
    BY <1>2 DEF Followed, Posts
  <1>3. ASSUME current # None, current \notin D
        PROVE  /\ conns'[current].stage \notin {"open", "ended"} => conns'[current].wire = <<>>
               /\ current \in Posts' => tab'.sending /\ (tab'.active = 0 \/ tab'.steered)
               /\ Wired'
    <2>1. /\ conns'[current].wire = conns[current].wire
          /\ conns'[current].kind = conns[current].kind
          /\ \/ conns'[current].stage = conns[current].stage
             \/ conns[current].stage = "open" /\ conns'[current].stage = "ended"
      BY <1>3
    <2>2. conns'[current].stage \notin {"open", "ended"} => conns'[current].wire = <<>>
      BY <1>3, <2>1 DEF WireInv
    <2>3. current \in Posts' => tab'.sending /\ (tab'.active = 0 \/ tab'.steered)
      BY <1>3, <2>1 DEF WireInv, Posts
    <2> SUFFICES Wired'
      BY <2>2, <2>3
    <2>4. Wired
      BY <1>3 DEF WireInv
    <2>5. CASE conns[current].wire = <<>> /\ ~Followed
      BY <1>3, <2>1, <2>5 DEF Wired
    <2>6. CASE /\ conns[current].wire # <<>> /\ Tail(conns[current].wire) = <<>>
               /\ Head(conns[current].wire) \in Answers /\ conns[current].stage = "ended"
      BY <2>1, <2>6 DEF Wired, Answers
    <2>7. CASE \E u, L : /\ Stream(u, L)
                         /\ Following(conns[current].wire, u, L) \/ Resuming(conns[current].wire, u, L)
                         /\ Followed => u = record /\ L = log
      <3>1. PICK u, L : /\ Stream(u, L)
                        /\ Following(conns[current].wire, u, L) \/ Resuming(conns[current].wire, u, L)
                        /\ Followed => u = record /\ L = log
        BY <2>7
      <3> DEFINE w == conns[current].wire
      <3>2. Stream(u, L)' /\ (Following(w, u, L) \/ Resuming(w, u, L))'
        <4> HIDE DEF w
        <4>1. w' = w
          BY <2>1 DEF w
        <4> QED BY <3>1, <4>1, FeedKept DEF w
      <3>3. Followed' => u = record' /\ L = log'
        BY <1>3, <3>1
      <3> QED BY <3>2, <3>3 DEF Wired
    <2> QED BY <2>4, <2>5, <2>6, <2>7 DEF Wired
  <1> QED BY <1>1, <1>2, <1>3 DEF WireInv, Wired

----------------------------------------------------------------------------
(* Steps of the hub and the network, for the connections *)

LEMMA ClosedWire ==
    ASSUME IInv, NEW S, NEW c \in Conns
    PROVE  Closed(conns, S)[c].wire = conns[c].wire
PROOF BY DEF IInv, Types, Closed

\* No frame is lost or added.
LEMMA WireStays ==
    ASSUME ScreenInv, HubStep, UNCHANGED <<tab, current>>,
           \A c \in Conns :
             /\ conns'[c].wire = conns[c].wire /\ conns'[c].kind = conns[c].kind
             /\ \/ conns'[c].stage = conns[c].stage
                \/ conns[c].stage = "open" /\ conns'[c].stage = "ended",
           current # None /\ Followed' => Followed /\ UNCHANGED <<record, log>>
    PROVE  WireInv'
PROOF
  <1> DEFINE D == {}
  <1>1. /\ D \in SUBSET Conns
        /\ \A c \in Conns \ D :
             /\ conns'[c].wire = conns[c].wire /\ conns'[c].kind = conns[c].kind
             /\ \/ conns'[c].stage = conns[c].stage
                \/ conns[c].stage = "open" /\ conns'[c].stage = "ended"
        /\ \A c \in D : /\ conns'[c].wire = <<>>
                        /\ c = current => conns'[c].stage \notin {"open", "asked"}
    OBVIOUS
  <1> HIDE DEF D
  <1>2. TabInv /\ HubInv /\ WireInv /\ current \in Conns \cup {None}
    BY DEF ScreenInv, IInv, Types
  <1> QED BY <1>1, <1>2, WireKept

LEMMA ForeignPostWire ==
    ASSUME ScreenInv, HubStep, ForeignPost
    PROVE  WireInv'
PROOF
  <1>1. PICK t \in Turns : Begin(t, {})
    BY DEF ForeignPost
  <1>2. conns' = Closed(conns, Displaced) /\ UNCHANGED <<tab, current>>
    BY DEF ForeignPost
  <1>3. ~Followed'
    BY <1>1 DEF Begin, Followed
  <1>4. \A c \in Conns :
          /\ conns'[c].wire = conns[c].wire /\ conns'[c].kind = conns[c].kind
          /\ \/ conns'[c].stage = conns[c].stage
             \/ conns[c].stage = "open" /\ conns'[c].stage = "ended"
    BY <1>2, ClosedIs, ClosedWire DEF ScreenInv
  <1> QED BY <1>2, <1>3, <1>4, WireStays

\* The stream of a turn that begins.
LEMMA BeginFeeds ==
    ASSUME TabInv, NEW t \in Turns, NEW own, Begin(t, own), UNCHANGED tab,
           HubInv, tab.sending, tab.active = 0 \/ tab.steered
    PROVE  Stream(t, <<>>)' /\ Following(<<>>, t, <<>>)'
PROOF
  <1>1. /\ record' = t /\ stage[t] = "unused" /\ stage' = [stage EXCEPT ![t] = "begun"]
    BY DEF Begin, Unused
  <1>2. LogOf(<<>>, t)
    BY EmptyLog DEF LogOf
  <1>3. stage'[t] # "unused"
    BY <1>1 DEF HubInv
  <1>4. Stream(t, <<>>)'
    <2>1. LogOf(<<>>, t)'
      BY <1>2 DEF LogOf, Consecutive, FromTop
    <2>2. Pieces(<<>>) \subseteq Pieces(log')
      BY EmptyLog
    <2> QED BY <1>3, <2>1, <2>2 DEF Stream, Pieces, Shows
  <1>5. \A e \in Has(tab) : e[1] # t
    BY <1>1 DEF TabInv
  <1>6. \A m \in 1..(0 - 1) : FALSE
    OBVIOUS
  <1>7. Ready(tab, t, 0)
    BY <1>5, <1>6 DEF Ready
  <1>8. Rest(<<>>, <<>>, 0) /\ 0 \in 0..Len(<<>>) /\ NextAt(<<>>, 0) = 0
    <2>1. Rest(<<>>, <<>>, Len(<<>>))
      BY EmptyLog, RestOfAll
    <2> QED BY <2>1, EmptyLog DEF NextAt
  <1>9. Ready(tab, t, NextAt(<<>>, 0))'
    BY <1>7, <1>8 DEF Ready, NextAt, Has, All
  <1>10. Rest(<<>>, <<>>, 0)'
    BY <1>8 DEF Rest
  <1>11. Following(<<>>, t, <<>>)'
    BY <1>8, <1>9, <1>10 DEF Following
  <1> QED BY <1>4, <1>11

LEMMA HandlePostWire ==
    ASSUME ScreenInv, HubStep, NEW c \in Conns, HandlePost(c)
    PROVE  WireInv'
PROOF
  <1> DEFINE D == Closed(conns, Displaced)
             N(t) == [D[c] EXCEPT !.stage = "open", !.turn = t]
  <1>1. PICK t \in Turns :
          /\ Begin(t, {c} \cap {current})
          /\ conns' = [D EXCEPT ![c] = IF c = current THEN N(t) ELSE Free]
    BY DEF HandlePost
  <1>2. c \in Posts /\ UNCHANGED <<tab, current>>
    BY DEF HandlePost
  <1>3. DOMAIN D = Conns
    BY DEF Closed
  <1>4. \A b \in Conns : /\ D[b].wire = conns[b].wire /\ D[b].kind = conns[b].kind
                         /\ \/ D[b].stage = conns[b].stage
                            \/ conns[b].stage = "open" /\ D[b].stage = "ended"
    BY ClosedIs, ClosedWire DEF ScreenInv
  <1>5. N(t).stage = "open" /\ N(t).wire = D[c].wire
    <2>1. {"stage", "kind", "turn", "wire"} \subseteq DOMAIN D[c]
      BY ClosedIs DEF ScreenInv
    <2> QED BY <2>1
  <1>6. record' = t /\ log' = <<>> /\ subs'[t] = {c} \cap {current}
    BY <1>1 DEF Begin
  <1> HIDE DEF D, N
  <1>7. conns'[c] = (IF c = current THEN N(t) ELSE Free)
        /\ \A b \in Conns : b # c => conns'[b] = D[b]
    BY <1>1, <1>3
  <1>8. CASE c # current
    <2>1. ~Followed'
      BY <1>2, <1>6, <1>8 DEF Followed
    <2>2. conns'[c].wire = <<>>
      BY <1>7, <1>8 DEF Free
    <2>3. \A b \in Conns \ {c} :
            /\ conns'[b].wire = conns[b].wire /\ conns'[b].kind = conns[b].kind
            /\ \/ conns'[b].stage = conns[b].stage
               \/ conns[b].stage = "open" /\ conns'[b].stage = "ended"
      BY <1>4, <1>7
    <2>4. \A b \in {c} : conns'[b].wire = <<>> /\ (b = current => conns'[b].stage \notin {"open", "asked"})
      BY <2>2, <1>8
    <2>5. {c} \in SUBSET Conns /\ TabInv /\ HubInv /\ WireInv /\ current \in Conns \cup {None}
      BY DEF ScreenInv, IInv, Types
    <2> QED BY <1>2, <2>1, <2>3, <2>4, <2>5, WireKept
  <1>9. CASE c = current
    <2>1. /\ current # None /\ conns[c].stage = "asked" /\ conns[c].wire = <<>>
          /\ tab.sending /\ (tab.active = 0 \/ tab.steered)
      BY <1>2, <1>9, NoneAssumption DEF ScreenInv, WireInv, Posts
    <2>2. conns'[c].stage = "open" /\ conns'[c].wire = <<>>
      BY <1>4, <1>5, <1>7, <1>9, <2>1
    <2>3. \A b \in Conns : b # current' => conns'[b].wire = <<>>
      BY <1>2, <1>4, <1>7, <1>9 DEF ScreenInv, WireInv
    <2>4. current \notin Posts'
      BY <1>9, <2>2 DEF Posts
    <2>5. Stream(t, <<>>)' /\ Following(<<>>, t, <<>>)'
      BY <1>1, <1>2, <2>1, BeginFeeds DEF ScreenInv
    <2>6. Following(conns[current].wire, t, <<>>)'
      BY <1>2, <1>9, <2>2, <2>5
    <2>7. Wired'
      BY <1>6, <2>5, <2>6 DEF Wired
    <2> QED BY <1>2, <1>9, <2>2, <2>3, <2>4, <2>7 DEF WireInv
  <1> QED BY <1>8, <1>9

LEMMA EndTurnWire ==
    ASSUME ScreenInv, HubStep, NEW t \in Turns, EndTurn(t)
    PROVE  WireInv'
PROOF
  <1>1. UNCHANGED <<record, log, subs, tab, current>>
    BY DEF EndTurn
  <1>2. \A c \in Conns :
          /\ conns'[c].wire = conns[c].wire /\ conns'[c].kind = conns[c].kind
          /\ \/ conns'[c].stage = conns[c].stage
             \/ conns[c].stage = "open" /\ conns'[c].stage = "ended"
    BY DEF EndTurn, ScreenInv, IInv, Types
  <1>3. current # None /\ Followed' => Followed
    BY <1>1, <1>2 DEF Followed, ScreenInv, IInv, Types
  <1> QED BY <1>1, <1>2, <1>3, WireStays

LEMMA SameConnsWire ==
    ASSUME ScreenInv, HubStep, UNCHANGED <<subs, conns, tab, current>>,
           record' = None \/ UNCHANGED <<record, log>>
    PROVE  WireInv'
PROOF
  <1>1. Followed' => Followed /\ UNCHANGED <<record, log>>
    BY DEF Followed
  <1> QED BY <1>1, WireStays

LEMMA RestartWire ==
    ASSUME ScreenInv, HubStep, Restart
    PROVE  WireInv'
PROOF
  <1> DEFINE B(c) == [conns[c] EXCEPT !.stage = "broken", !.wire = <<>>]
             D == {c \in Conns : c # current \/ conns[c].stage \in {"asked", "open"}}
  <1>1. record' = None /\ UNCHANGED <<tab, current>>
        /\ conns' = [c \in Conns |-> IF c # current THEN Free
                                     ELSE IF conns[c].stage \in {"asked", "open"} THEN B(c)
                                     ELSE conns[c]]
    BY DEF Restart
  <1>2. \A c \in Conns : B(c).stage = "broken" /\ B(c).wire = <<>>
    BY DEF ScreenInv, IInv, Types
  <1> HIDE DEF B
  <1>3. \A c \in D : /\ conns'[c].wire = <<>>
                     /\ c = current => conns'[c].stage \notin {"open", "asked"}
    BY <1>1, <1>2 DEF Free
  <1>4. \A c \in Conns \ D : conns'[c] = conns[c]
    BY <1>1
  <1>5. ~Followed'
    BY <1>1 DEF Followed
  <1>6. D \in SUBSET Conns /\ TabInv /\ HubInv /\ WireInv /\ current \in Conns \cup {None}
    BY DEF ScreenInv, IInv, Types
  <1> HIDE DEF D
  <1> QED BY <1>1, <1>3, <1>4, <1>5, <1>6, WireKept

LEMMA CutWire ==
    ASSUME ScreenInv, HubStep, NEW how \in {"broken", "silent"}, Cut(how)
    PROVE  WireInv'
PROOF
  <1>1. /\ UNCHANGED <<record, current>> /\ current \in Conns
        /\ conns'[current].stage = how
        /\ \A c \in Conns : c # current => conns'[c] = conns[c]
    BY CutIs DEF ScreenInv
  <1>2. conns'[current].wire = <<>> /\ UNCHANGED tab
    BY <1>1 DEF Cut, ScreenInv, IInv, Types
  <1>3. ~Followed'
    BY <1>1 DEF Followed
  <1>4. \A c \in Conns \ {current} : conns'[c] = conns[c]
    BY <1>1
  <1>5. \A c \in {current} : /\ conns'[c].wire = <<>>
                             /\ c = current => conns'[c].stage \notin {"open", "asked"}
    BY <1>1, <1>2
  <1>6. /\ {current} \in SUBSET Conns /\ TabInv /\ HubInv /\ WireInv
        /\ current \in Conns \cup {None}
    BY <1>1 DEF ScreenInv
  <1> QED BY <1>1, <1>2, <1>3, <1>4, <1>5, <1>6, WireKept

LEMMA ForgetWire ==
    ASSUME ScreenInv, HubStep, NEW c \in Conns, Forget(c)
    PROVE  WireInv'
PROOF
  <1>1. /\ c # current /\ conns' = [conns EXCEPT ![c] = Free]
        /\ UNCHANGED <<record, log, subs, tab, current>>
    BY DEF Forget, hubVars
  <1>2. DOMAIN conns = Conns /\ current \in Conns \cup {None}
    BY DEF ScreenInv, IInv, Types
  <1>3. conns'[c] = Free /\ \A b \in Conns \ {c} : conns'[b] = conns[b]
    BY <1>1, <1>2
  <1>4. current # None /\ Followed' => Followed
    BY <1>1, <1>2, <1>3 DEF Followed
  <1>5. \A b \in {c} : /\ conns'[b].wire = <<>>
                       /\ b = current => conns'[b].stage \notin {"open", "asked"}
    BY <1>1, <1>3 DEF Free
  <1>6. {c} \in SUBSET Conns /\ TabInv /\ HubInv /\ WireInv
    BY DEF ScreenInv
  <1> QED BY <1>1, <1>2, <1>3, <1>4, <1>5, <1>6, WireKept

\* The answer to a follower: the end, or the baseline, which has all of the log.
LEMMA HandleGetWire ==
    ASSUME ScreenInv, HubStep, NEW c \in Conns, HandleGet(c)
    PROVE  WireInv'
PROOF
  <1>1. c \in Gets /\ UNCHANGED <<record, log, stage, tab, current>>
    BY DEF HandleGet, hubVars
  <1>2. c = current /\ current # None /\ DOMAIN conns = Conns
    BY <1>1, NoneAssumption DEF ScreenInv, IInv, Types, OnlyCurrent, Gets
  <1>3. TabInv /\ HubInv /\ WireInv
    BY DEF ScreenInv
  <1> DEFINE E(f) == [Free EXCEPT !.stage = "ended", !.kind = "attach", !.wire = <<f>>]
             O(f) == [Free EXCEPT !.stage = "open", !.kind = "attach", !.wire = <<f>>]
  <1>4. PICK N : /\ N.stage \in {"open", "ended"} /\ N.kind # "post"
                 /\ conns' = [conns EXCEPT ![c] = N]
    <2>1. PICK f : conns' = [conns EXCEPT ![c] = E(f)] \/ conns' = [conns EXCEPT ![c] = O(f)]
      BY DEF HandleGet, Attach, Answer, Follow
    <2>2. /\ E(f).stage = "ended" /\ E(f).kind = "attach"
          /\ O(f).stage = "open" /\ O(f).kind = "attach"
      BY DEF Free
    <2> HIDE DEF E, O
    <2> QED BY <2>1, <2>2
  <1> HIDE DEF E, O
  <1>5. conns'[c] = N /\ \A b \in Conns : b # c => conns'[b] = conns[b]
    BY <1>2, <1>4
  <1>6. \A b \in Conns : b # current' => conns'[b].wire = <<>>
    BY <1>1, <1>2, <1>3, <1>5 DEF WireInv
  <1>7. conns'[current].stage \in {"open", "ended"} /\ current \notin Posts'
    BY <1>2, <1>4, <1>5 DEF Posts
  <1> SUFFICES Wired'
    BY <1>1, <1>2, <1>6, <1>7 DEF WireInv
  <1>8. ASSUME NEW f \in Answers, Answer(c, f)
        PROVE  Wired'
    <2> DEFINE R == [Free EXCEPT !.stage = "ended", !.kind = "attach", !.wire = <<f>>]
               w == <<f>>
    <2>1. R.stage = "ended" /\ R.wire = w
      BY DEF Free
    <2>2. conns' = [conns EXCEPT ![c] = R]
      BY <1>8 DEF Answer
    <2>3. w # <<>> /\ Tail(w) = <<>> /\ Head(w) = f
      OBVIOUS
    <2> HIDE DEF R, w
    <2>4. conns'[c] = R
      BY <1>2, <2>2
    <2> QED BY <1>1, <1>2, <2>1, <2>3, <2>4 DEF Wired, Answers
  <1>9. ASSUME record # None, conns'[c].wire = <<Baseline>>,
               Live(record) \/ conns'[c].stage = "ended"
        PROVE  Wired'
    <2> DEFINE f == Baseline
               w == <<f>>
    <2>1. /\ f \in Resume /\ f.turn = record /\ f.events = log
          /\ f.live = Live(record)
      <3>1. record \in Turns /\ log \in Seq(Event) /\ Live(record) \in BOOLEAN
        BY <1>3, <1>9 DEF HubInv, Live
      <3> QED BY <3>1 DEF Baseline, Resume
    <2> HIDE DEF f
    <2>2. w # <<>> /\ Tail(w) = <<>> /\ Head(w) = f
      OBVIOUS
    <2> HIDE DEF w
    <2>3. /\ log \in Seq(Event) /\ record \in Turns /\ stage[record] # "unused"
          /\ LogOf(log, record)
      BY <1>3, <1>9 DEF HubInv, LogOf
    <2>4. Stream(record, log)
      BY <2>3 DEF Stream
    <2>5. Rest(Tail(w), log, Len(log))
      BY <2>2, <2>3, RestOfAll
    <2>6. Covered(tab, record, log)
      BY <1>3, <1>9 DEF TabInv
    <2>7. Tells(f)
      <3>1. ~Live(record) => log # <<>> /\ Last(log).type \in Terminal
        BY <1>3, <1>9 DEF HubInv
      <3>2. Live(record) /\ log # <<>> => Last(log).type \notin Terminal
        <4>1. log # <<>> => Len(log) \in DOMAIN log
          BY <2>3, LenProperties, EmptySeq
        <4> QED BY <1>3, <1>9, <4>1 DEF HubInv, Last
      <3> QED BY <2>1, <3>1, <3>2 DEF Tells
    <2>8. Resuming(w, record, log)
      BY <2>1, <2>2, <2>5, <2>6, <2>7 DEF Resuming
    <2>9. conns'[current].wire = w
      BY <1>2, <1>9 DEF w, f
    <2>10. Stream(record, log)' /\ Resuming(conns[current].wire, record, log)'
      <3>1. Stream(record, log)'
        BY <1>1, <2>4 DEF Stream, LogOf, Consecutive, FromTop, Pieces, Shows
      <3>2. Resuming(conns[current].wire, record, log)'
        BY <1>1, <2>8, <2>9 DEF Resuming, Rest, Covered, Has, All, Pieces, Shows, Last, Resume
      <3> QED BY <3>1, <3>2
    <2> QED BY <2>10 DEF Wired
  <1>10. CASE record = None \/ overflowed \/ (~Live(record) /\ conns[c].kind = "probe")
    <2>1. PICK f \in Answers : Answer(c, f)
      <3>1. [type |-> "idle"] \in Answers /\ [type |-> "resume_unavailable"] \in Answers
        BY DEF Answers
      <3>2. CASE record = None
        BY <3>1, <3>2 DEF HandleGet, Attach
      <3>3. CASE record # None /\ overflowed
        BY <3>1, <3>3 DEF HandleGet, Attach
      <3>4. CASE record # None /\ ~overflowed /\ ~Live(record) /\ conns[c].kind = "probe"
        BY <3>1, <3>4 DEF HandleGet, Attach
      <3> QED BY <1>10, <3>2, <3>3, <3>4
    <2> QED BY <1>8, <2>1
  <1>11. CASE record # None /\ ~overflowed /\ Live(record)
    <2>1. Follow(c)
      BY <1>11 DEF HandleGet, Attach
    <2> DEFINE R == [Free EXCEPT !.stage = "open", !.kind = "attach", !.wire = <<Baseline>>]
    <2>2. R.wire = <<Baseline>>
      BY DEF Free
    <2>3. conns' = [conns EXCEPT ![c] = R]
      BY <2>1 DEF Follow
    <2> HIDE DEF R
    <2>4. conns'[c] = R
      BY <1>2, <2>3
    <2> QED BY <1>9, <1>11, <2>2, <2>4
  <1>12. CASE record # None /\ ~overflowed /\ ~Live(record) /\ conns[c].kind # "probe"
    <2>1. Answer(c, Baseline)
      BY <1>12 DEF HandleGet, Attach
    <2> DEFINE R == [Free EXCEPT !.stage = "ended", !.kind = "attach", !.wire = <<Baseline>>]
    <2>2. R.wire = <<Baseline>> /\ R.stage = "ended"
      BY DEF Free
    <2>3. conns' = [conns EXCEPT ![c] = R]
      BY <2>1 DEF Answer
    <2> HIDE DEF R
    <2>4. conns'[c] = R
      BY <1>2, <2>3
    <2> QED BY <1>9, <1>12, <2>2, <2>4
  <1> QED BY <1>10, <1>11, <1>12

\* What is published goes to the end of the current connection's frames, unless
\* the connection is let go.
LEMMA SentWire ==
    ASSUME IInv, NEW S, NEW frame, NEW gone, NEW c \in Conns
    PROVE  Closed(Sent(conns, S, frame), gone)[c].wire =
             IF c \in S /\ conns[c].stage = "open" THEN Append(conns[c].wire, frame)
             ELSE conns[c].wire
PROOF
  <1> DEFINE B == Sent(conns, S, frame)
  <1>1. /\ {"stage", "kind", "turn", "wire"} \subseteq DOMAIN B[c]
        /\ B[c].wire = IF c \in S /\ conns[c].stage = "open" THEN Append(conns[c].wire, frame)
                       ELSE conns[c].wire
    BY DEF Sent, IInv, Types
  <1> HIDE DEF B
  <1> QED BY <1>1 DEF Closed, B

LEMMA FollowingMore ==
    ASSUME TabInv, NEW w, NEW L, NEW u, LogOf(L, u), Following(w, u, L), NEW e \in Event,
           L = <<>> => e.n \in {0, 1}
    PROVE  Following(Append(w, e), u, Append(L, e))
PROOF
  <1>1. PICK k \in 0..Len(L) : Rest(w, L, k) /\ Ready(tab, u, NextAt(L, k))
    BY DEF Following
  <1> DEFINE v == Append(w, e)
             M == Append(L, e)
  <1>2. L \in Seq(Event)
    BY DEF LogOf
  <1>3. Rest(v, M, k)
    BY <1>1, <1>2, RestAppend
  <1>4. Ready(tab, u, NextAt(M, k))
    BY <1>1, ReadyAppend DEF TabInv
  <1> HIDE DEF v, M
  <1>5. k \in 0..Len(M)
    BY <1>3 DEF Rest
  <1>6. Following(v, u, M)
    BY <1>3, <1>4, <1>5 DEF Following
  <1> QED BY <1>6 DEF v, M

LEMMA ResumingMore ==
    ASSUME NEW w \in Seq(Frame), NEW L, NEW u, LogOf(L, u), Resuming(w, u, L), NEW e \in Event
    PROVE  Resuming(Append(w, e), u, Append(L, e))
PROOF
  <1> DEFINE v == Append(w, e)
             M == Append(L, e)
             es == Head(w).events
  <1>1. L \in Seq(Event) /\ e \in Frame
    BY DEF LogOf, Frame
  <1> HIDE DEF Frame
  <1>2. v # <<>> /\ Head(v) = Head(w) /\ Tail(v) = Append(Tail(w), e)
    <2>1. w # <<>>
      BY DEF Resuming
    <2> QED BY <1>1, <2>1, HeadTailAppend
  <1>3. Rest(Append(Tail(w), e), M, Len(es))
    BY <1>1, RestAppend DEF Resuming
  <1>4. \A i \in 1..Len(L) : M[i] = L[i]
    BY <1>1, AppendProperties
  <1>5. Len(es) \in 0..Len(L) /\ Len(L) \in Nat
    BY LogOfIs DEF Resuming, Rest
  <1>6. \A i \in 1..Len(es) : es[i] = M[i]
    <2>1. \A i \in 1..Len(es) : i \in 1..Len(L)
      BY <1>5
    <2> QED BY <1>4, <2>1 DEF Resuming
  <1> HIDE DEF v, M
  <1>7. Resuming(v, u, M)
    BY <1>2, <1>3, <1>6 DEF Resuming
  <1> QED BY <1>7 DEF v, M

LEMMA PublishWire ==
    ASSUME ScreenInv, HubStep, HubInv', NEW kind \in Kinds, Publish(kind)
    PROVE  WireInv'
PROOF
  <1> DEFINE e == Numbered(record, kind)
  <1>1. /\ record # None /\ UNCHANGED <<record, tab, current>> /\ log' = Append(log, e)
    BY DEF Publish
  <1>2. PICK slow \in SUBSET subs[record] :
          LET gone == IF kind \in Terminal THEN subs[record] ELSE slow IN
          /\ conns' = Closed(Sent(conns, subs[record] \ slow, e), gone)
          /\ subs' = [subs EXCEPT ![record] = @ \ gone]
    BY DEF Publish
  <1> DEFINE gone == IF kind \in Terminal THEN subs[record] ELSE slow
  <1>3. record \in Turns /\ record' \in Turns /\ log \in Seq(Event) /\ HubInv
        /\ current \in Conns \cup {None} /\ subs \in [Turns -> SUBSET Conns]
    BY <1>1 DEF ScreenInv, HubInv, IInv, Types
  <1>4. e \in Event /\ (log = <<>> => e.n \in {0, 1})
    BY <1>3, NumberedIs
  <1> HIDE DEF e
  <1>5. \A b \in Conns :
          /\ conns'[b].wire = IF b \in subs[record] \ slow /\ conns[b].stage = "open"
                              THEN Append(conns[b].wire, e) ELSE conns[b].wire
          /\ conns'[b].kind = conns[b].kind
          /\ \/ conns'[b].stage = conns[b].stage
             \/ conns[b].stage = "open" /\ conns'[b].stage = "ended"
    BY <1>2, SentIs, SentWire DEF ScreenInv
  <1>6. \A b \in Conns : b \in subs[record] => b = current
    BY <1>3 DEF ScreenInv, IInv, Subscribed
  <1>7. subs'[record] = subs[record] \ gone
    BY <1>2, <1>3
  <1>8. CASE current # None /\ Followed /\ current \notin slow
    <2> DEFINE w == conns[current].wire
    <2>1. current \in Conns /\ conns[current].stage = "open" /\ current \in subs[record]
      BY <1>3, <1>8 DEF Followed
    <2>2. /\ conns'[current].wire = Append(w, e) /\ current \notin Posts'
          /\ conns'[current].stage \in {"open", "ended"}
      BY <1>1, <1>5, <1>8, <2>1 DEF Posts
    <2>3. \A b \in Conns : b # current' => conns'[b].wire = <<>>
      BY <1>1, <1>5, <1>6 DEF ScreenInv, WireInv
    <2>4. Stream(record, log) /\ (Following(w, record, log) \/ Resuming(w, record, log))
      BY <1>8, <2>1 DEF ScreenInv, WireInv, Wired
    <2>5. w \in Seq(Frame)
      BY <2>1 DEF ScreenInv, Conn
    <2> HIDE DEF w
    <2> DEFINE v == Append(w, e)
               M == Append(log, e)
    <2>6. LogOf(log, record)
      BY <2>4 DEF Stream
    <2>7. Following(v, record, M) \/ Resuming(v, record, M)
      BY <1>3, <1>4, <2>4, <2>5, <2>6, FollowingMore, ResumingMore DEF ScreenInv
    <2>8. conns'[current].wire = v /\ log' = M
      BY <1>1, <2>2
    <2> HIDE DEF v, M
    <2>9. Following(conns[current].wire, record, log)' \/ Resuming(conns[current].wire, record, log)'
      <3>1. CASE Following(v, record, M)
        BY <1>1, <2>8, <3>1
           DEF Following, Rest, Ready, NextAt, Has, All
      <3>2. CASE Resuming(v, record, M)
        BY <1>1, <2>8, <3>2
           DEF Resuming, Rest, Covered, Has, All, Pieces, Shows, Last, Resume
      <3> QED BY <2>7, <3>1, <3>2
    <2>10. Stream(record, log)'
      <3>1. LogOf(log, record)'
        BY <1>1 DEF HubInv, LogOf
      <3>2. (stage[record] # "unused")'
        BY <1>1 DEF HubInv
      <3> QED BY <1>3, <3>1, <3>2 DEF Stream
    <2>11. Wired'
      BY <2>9, <2>10 DEF Wired
    <2> QED BY <1>1, <2>2, <2>3, <2>11 DEF WireInv
  <1>9. CASE ~(current # None /\ Followed /\ current \notin slow)
    <2>1. \A b \in Conns : conns'[b].wire = conns[b].wire
      BY <1>1, <1>3, <1>5, <1>6, <1>9, NoneAssumption DEF Followed
    <2>2. ~(current # None /\ Followed')
      BY <1>1, <1>3, <1>5, <1>7, <1>9 DEF Followed
    <2> QED BY <1>1, <1>5, <2>1, <2>2, WireStays
  <1> QED BY <1>8, <1>9

----------------------------------------------------------------------------
(* Steps of the tab: its transport *)

LEMMA AbortedWire ==
    ASSUME ScreenInv, NEW c \in Conns
    PROVE  Aborted[c].wire = <<>>
PROOF
  <1>1. c # current => conns[c].wire = <<>>
    BY DEF ScreenInv, WireInv
  <1>2. c = current /\ c \in Posts => conns[c].wire = <<>>
    BY NoneAssumption DEF ScreenInv, WireInv, Posts
  <1> QED BY <1>1, <1>2 DEF Aborted, Free

LEMMA AbortWire ==
    ASSUME ScreenInv, Abort
    PROVE  WireInv' /\ current' = None
PROOF BY AbortedWire DEF Abort, WireInv

LEMMA OpenWire ==
    ASSUME ScreenInv, NEW kind, Open(kind),
           kind = "post" => tab'.sending /\ (tab'.active = 0 \/ tab'.steered)
    PROVE  WireInv' /\ current' \in Conns /\ current' # None
PROOF
  <1> DEFINE A == Aborted
             N == [Free EXCEPT !.stage = "asked", !.kind = kind]
  <1>1. PICK n \in Conns : n = current' /\ conns' = [A EXCEPT ![n] = N]
    BY DEF Open
  <1>2. N.stage = "asked" /\ N.kind = kind /\ N.wire = <<>>
    BY DEF Free
  <1>3. DOMAIN A = Conns /\ \A c \in Conns : A[c].wire = <<>>
    BY AbortedWire DEF Aborted
  <1> HIDE DEF A, N
  <1>4. conns'[n] = N /\ \A c \in Conns : c # n => conns'[c] = A[c]
    BY <1>1, <1>3
  <1>5. \A c \in Conns : c # current' => conns'[c].wire = <<>>
    BY <1>1, <1>3, <1>4
  <1>6. /\ conns'[current'].wire = <<>> /\ ~Followed'
        /\ current' \in Posts' => tab'.sending /\ (tab'.active = 0 \/ tab'.steered)
    BY <1>1, <1>2, <1>4 DEF Followed, Posts
  <1>7. WireInv'
    BY <1>5, <1>6 DEF WireInv, Wired
  <1> QED BY <1>1, <1>7, NoneAssumption

LEMMA TransportEndsWire ==
    ASSUME ScreenInv, NEW c \in Conns, TransportEnds(c)
    PROVE  WireInv' /\ current' = None
PROOF
  <1>1. /\ c = current /\ current' = None /\ conns' = [conns EXCEPT ![c] = Free]
        /\ DOMAIN conns = Conns
    BY DEF TransportEnds, ScreenInv, IInv, Types
  <1>2. Free.wire = <<>>
    BY DEF Free
  <1>3. \A b \in Conns : conns'[b].wire = <<>>
    BY <1>1, <1>2 DEF ScreenInv, WireInv
  <1> QED BY <1>1, <1>3 DEF WireInv

----------------------------------------------------------------------------
(* Steps of the tab: its session *)

\* A step of the tab that brings nothing new.
LEMMA TabGoes ==
    ASSUME TabInv, UNCHANGED hubVars, Good(tab'), Has(tab') \subseteq Has(tab),
           ~tab'.sending => tab'.active = 0
    PROVE  TabInv'
PROOF
  <1>1. \A e \in Has(tab') : stage'[e[1]] # "unused"
    BY DEF TabInv, hubVars
  <1>2. ASSUME record # None
        PROVE  Covered(tab', record, log)
    <2>1. Covered(tab, record, log)
      BY <1>2 DEF TabInv
    <2> QED BY <2>1, CoveredIs
  <1>3. record' # None => Covered(tab', record', log')
    BY <1>2 DEF hubVars
  <1> QED BY <1>1, <1>3
         DEF TabInv, Good, Has, All, Covered, Unshown, Ordered, Complete, Pieces, Shows

\* The response of the current connection is over: the tab waits for the next
\* attempt, or gives up.
LEMMA ScheduleIs ==
    ASSUME NEW s, Good(s), ~s.sending => s.active = 0, s.timer => s.sending
    PROVE  LET t == ScheduleResume([s EXCEPT !.live = FALSE]) IN
           /\ Good(t) /\ Has(t) = Has(s) /\ Goes(s, t, {})
           /\ ~t.sending => t.active = 0
           /\ ~t.live /\ (t.sending => t.timer) /\ (t.timer => t.sending)
PROOF
  <1> DEFINE b == FALSE
             r == [s EXCEPT !.live = b]
             t == ScheduleResume(r)
  <1>1. b \in BOOLEAN /\ ~b /\ s \in Tab
    BY DEF Good
  <1> HIDE DEF b
  <1>2. /\ r.older = s.older /\ r.bubble = s.bubble /\ r.shown = s.shown
        /\ r.cut = s.cut /\ r.flush = s.flush
        /\ r.sending = s.sending /\ r.active = s.active /\ r.live = b
        /\ r.timer = s.timer /\ r.attempts = s.attempts
    BY <1>1 DEF Tab
  <1>3. r \in Tab
    BY <1>1 DEF Tab
  <1> HIDE DEF r
  <1>4. Good(r) /\ Has(r) = Has(s) /\ Goes(s, r, {})
    BY <1>2, <1>3, SameScreen
  <1>5. r.timer \in BOOLEAN /\ r.sending \in BOOLEAN
    BY <1>3 DEF Tab
  <1>6. CASE r.timer \/ ~r.sending
    <2>1. t = r
      BY <1>6 DEF ScheduleResume
    <2>2. ~r.live
      BY <1>1, <1>2
    <2>3. r.sending => r.timer
      BY <1>6
    <2>4. r.timer => r.sending
      BY <1>2
    <2> QED BY <1>2, <1>4, <2>1, <2>2, <2>3, <2>4 DEF r, b
  <1>7. CASE ~(r.timer \/ ~r.sending) /\ r.attempts >= MaxAttempts
    <2>1. t = Idle(r)
      BY <1>7 DEF ScheduleResume
    <2> DEFINE q == Idle(r)
    <2>2. /\ Good(q) /\ Has(q) = Has(r) /\ Goes(r, q, {})
          /\ q.timer = r.timer /\ ~q.sending /\ ~q.live /\ q.active = 0
      BY <1>4, IdleGood
    <2> HIDE DEF q
    <2>3. t = q
      BY <2>1 DEF q
    <2>4. Goes(s, q, {})
      BY <1>4, <2>2, GoesOn
    <2>5. ~q.timer
      BY <1>7, <2>2
    <2> QED BY <1>4, <2>2, <2>3, <2>4, <2>5 DEF r, b
  <1>8. CASE ~(r.timer \/ ~r.sending) /\ ~(r.attempts >= MaxAttempts)
    <2> DEFINE n == r.attempts + 1
               y == TRUE
    <2>1. t = [r EXCEPT !.attempts = n, !.timer = y]
      BY <1>8 DEF ScheduleResume
    <2>2. r.attempts \in 0..MaxAttempts
      BY <1>3 DEF Tab
    <2>3. n \in 0..MaxAttempts
      BY <1>8, <2>2, BoundsAssumption
    <2>4. y \in BOOLEAN /\ y
      OBVIOUS
    <2> HIDE DEF n, y
    <2> DEFINE q == [r EXCEPT !.attempts = n, !.timer = y]
    <2>5. /\ q.older = r.older /\ q.bubble = r.bubble /\ q.shown = r.shown
          /\ q.cut = r.cut /\ q.flush = r.flush
          /\ q.sending = r.sending /\ q.active = r.active /\ q.live = r.live
          /\ q.timer = y
      BY <1>3 DEF Tab
    <2>6. q \in Tab
      BY <1>3, <2>3, <2>4 DEF Tab
    <2> HIDE DEF q
    <2>7. Good(q) /\ Has(q) = Has(r) /\ Goes(r, q, {})
      BY <1>4, <2>5, <2>6, SameScreen
    <2>8. t = q
      BY <2>1 DEF q
    <2>9. Goes(s, q, {})
      BY <1>4, <2>7, GoesOn
    <2>10. q.sending /\ q.timer /\ ~q.live
      BY <1>1, <1>2, <1>8, <2>4, <2>5
    <2> QED BY <1>4, <2>7, <2>8, <2>9, <2>10 DEF r, b
  <1> QED BY <1>6, <1>7, <1>8

\* A message clears the screen: what was on it counts as cut off.
LEMMA SendTab ==
    ASSUME ScreenInv, Send
    PROVE  TabInv' /\ tab'.sending /\ tab'.active = 0 /\ tab'.live /\ ~tab'.timer
PROOF
  <1> DEFINE a == 0
             k == 0
             y == TRUE
             b == FALSE
             o == <<>>
             d == tab.cut \cup Range(tab.older \o tab.bubble)
  <1>1. /\ a \in 0..MaxAttempts /\ k \in Nat /\ y \in BOOLEAN /\ b \in BOOLEAN
        /\ o \in Seq(Piece) /\ k = 0 /\ o = <<>>
    BY BoundsAssumption
  <1>2. tab' = [tab EXCEPT !.sending = y, !.live = y, !.timer = b, !.attempts = a,
                           !.older = o, !.shown = k, !.flush = b, !.cut = d]
    BY DEF Send
  <1>3. /\ UNCHANGED hubVars /\ ~tab.sending /\ tab \in Tab /\ TabInv /\ Good(tab)
        /\ tab.active = 0 /\ tab.bubble \in Seq(Piece) /\ tab.older \in Seq(Piece)
    BY DEF Send, ScreenInv, TabInv, Good, Tab
  <1>4. d = tab.cut \cup Has(tab) /\ d \in SUBSET Piece
    <2>1. tab.cut \subseteq Piece
      BY <1>3 DEF Tab
    <2> QED BY <1>3, <2>1, PiecesOfTab DEF Has, All
  <1>5. /\ tab'.sending /\ tab'.active = 0 /\ tab'.live /\ ~tab'.timer
        /\ tab'.older = <<>> /\ tab'.bubble = tab.bubble /\ tab'.shown = k
    BY <1>2, <1>3 DEF Tab
  <1> HIDE DEF a, y, b, o, k, d
  <1>6. tab'.cut = d
    BY <1>2, <1>3 DEF Tab
  <1>7. tab' \in Tab
    <2>1. /\ tab \in Tab /\ a \in 0..MaxAttempts /\ k \in Nat /\ y \in BOOLEAN /\ b \in BOOLEAN
          /\ o \in Seq(Piece) /\ d \in SUBSET Piece
      BY <1>1, <1>3, <1>4
    <2> QED BY <1>2, <2>1 DEF Tab
  <1> DEFINE p == tab.older
             q == tab.bubble
  <1>8. p \in Seq(Piece) /\ q \in Seq(Piece) /\ Ordered(p \o q) /\ All(tab) = p \o q
    BY <1>3 DEF Good, All
  <1> HIDE DEF p, q
  <1>9. All(tab') = q
    <2>1. <<>> \o q = q
      BY <1>8, ConcatEmptySeq
    <2> QED BY <1>5, <2>1 DEF All, q
  <1>10. Ordered(q) /\ Range(q) \subseteq Range(p \o q)
    BY <1>8, OrderedConcat, RangeConcatenation
  <1>11. Has(tab') \subseteq Has(tab)
    BY <1>8, <1>9, <1>10 DEF Has
  <1>12. tab'.shown <= Len(tab'.bubble)
    BY <1>1, <1>3, <1>5, LenProperties
  <1>13. Unshown(tab') \subseteq tab'.cut
    BY <1>4, <1>6, <1>7, <1>11, <1>12, ScreenIs
  <1>14. Complete(Has(tab'), tab'.cut)
    BY <1>3, <1>4, <1>6, <1>11 DEF Complete, Good
  <1>15. Good(tab')
    BY <1>7, <1>9, <1>10, <1>12, <1>13, <1>14 DEF Good
  <1>16. TabInv'
    BY <1>3, <1>5, <1>11, <1>15, TabGoes
  <1> QED BY <1>5, <1>16

LEMMA SteerTab ==
    ASSUME ScreenInv, Steer
    PROVE  /\ TabInv' /\ Good(tab') /\ Has(tab') \subseteq Has(tab) /\ Goes(tab, tab', {})
           /\ tab'.sending /\ tab'.live = tab.live /\ tab'.timer = tab.timer /\ tab'.steered
PROOF
  <1> DEFINE a == 1
             y == TRUE
             k == 0
             e == <<>>
             p == Shown(tab)
             d == tab.cut \cup Unshown(tab)
  <1>1. a \in 0..1 /\ y \in BOOLEAN /\ e \in Seq(Piece) /\ k \in Nat /\ e = <<>> /\ k = 0
    OBVIOUS
  <1>2. tab' = [tab EXCEPT !.older = p, !.bubble = e, !.shown = k, !.dated = y,
                           !.cut = d, !.active = a, !.steered = y]
    BY DEF Steer, BeginTurn
  <1>3. UNCHANGED hubVars /\ tab.sending /\ tab \in Tab /\ TabInv /\ Good(tab) /\ p \in Seq(Piece)
    BY PiecesOfTab DEF Steer, ScreenInv, TabInv, Good
  <1>4. d \in SUBSET Piece /\ On(tab) \subseteq Has(tab)
    BY <1>3, PiecesOfTab DEF Tab
  <1>5. /\ tab'.sending /\ tab'.live = tab.live /\ tab'.timer = tab.timer /\ tab'.steered
        /\ tab'.bubble = e /\ tab'.shown = k
    BY <1>2, <1>3 DEF Tab
  <1> HIDE DEF a, y, e, k, p, d
  <1>6. tab'.older = p /\ tab'.cut = d
    BY <1>2, <1>3 DEF Tab
  <1>7. tab' \in Tab
    BY <1>1, <1>2, <1>3, <1>4 DEF Tab
  <1>8. Good(tab') /\ Has(tab') = On(tab) /\ Goes(tab, tab', {})
    BY <1>1, <1>3, <1>5, <1>6, <1>7, NewBubble DEF p, d
  <1>9. TabInv'
    BY <1>3, <1>4, <1>5, <1>8, TabGoes
  <1> QED BY <1>4, <1>5, <1>8, <1>9

LEMMA FlushTab ==
    ASSUME ScreenInv, Flush
    PROVE  /\ TabInv' /\ Good(tab') /\ Has(tab') \subseteq Has(tab) /\ Goes(tab, tab', {})
           /\ tab'.sending = tab.sending /\ tab'.live = tab.live /\ tab'.timer = tab.timer
           /\ tab'.active = tab.active /\ tab'.steered = tab.steered
PROOF
  <1>1. UNCHANGED hubVars /\ tab' = Flushed(tab) /\ TabInv /\ Good(tab)
    BY DEF Flush, ScreenInv, TabInv
  <1>2. /\ Good(tab') /\ Has(tab') = Has(tab) /\ Goes(tab, tab', {})
        /\ tab'.sending = tab.sending /\ tab'.live = tab.live /\ tab'.timer = tab.timer
        /\ tab'.active = tab.active /\ tab'.steered = tab.steered
    BY <1>1, FlushedIs
  <1>3. TabInv'
    BY <1>1, <1>2, TabGoes DEF TabInv
  <1> QED BY <1>2, <1>3

\* A step of the tab alone, which leaves it ready for the frames under way.
LEMMA TextWire ==
    ASSUME ScreenInv, UNCHANGED <<hubVars, subs, conns, current>>,
           Has(tab') \subseteq Has(tab), Goes(tab, tab', {}), tab.sending => tab'.sending,
           tab.active = 0 \/ tab.steered => tab'.active = 0 \/ tab'.steered
    PROVE  WireInv'
PROOF
  <1>1. UNCHANGED <<record, log, overflowed, stage, subs, conns, current>> /\ WireInv
    BY DEF hubVars, ScreenInv
  <1>2. current # None => Wired'
    <2> SUFFICES ASSUME current # None PROVE Wired'
      OBVIOUS
    <2>1. Wired
      BY <1>1 DEF WireInv
    <2>2. Followed' <=> Followed
      BY <1>1 DEF Followed
    <2>3. ASSUME NEW w, NEW u, NEW L, Following(w, u, L)
          PROVE  Following(w, u, L)'
      <3>1. tab'.sending
        BY <2>3 DEF Following
      <3>2. PICK k \in 0..Len(L) : Rest(w, L, k) /\ Ready(tab, u, NextAt(L, k))
        BY <2>3 DEF Following
      <3>3. NextAt(L, k) = 0 => tab'.active = 0 \/ tab'.steered
        BY <3>2 DEF Ready
      <3>4. Ready(tab', u, NextAt(L, k))
        BY <3>2, <3>3, GoesReady
      <3> QED BY <3>1, <3>2, <3>4 DEF Following, Rest, Ready, NextAt, Has, All
    <2>4. ASSUME NEW w, NEW u, NEW L, Resuming(w, u, L)
          PROVE  Resuming(w, u, L)'
      <3>1. Covered(tab', u, Head(w).events)
        BY <2>4, CoveredIs DEF Resuming
      <3> QED BY <2>4, <3>1 DEF Resuming, Rest, Covered, Has, All, Pieces, Shows, Last, Resume
    <2>5. ASSUME NEW u, NEW L, Stream(u, L)
          PROVE  Stream(u, L)'
      BY <1>1, <2>5 DEF Stream, LogOf, Consecutive, FromTop, Pieces, Shows
    <2>6. CASE \E u, L : /\ Stream(u, L)
                         /\ Following(conns[current].wire, u, L) \/ Resuming(conns[current].wire, u, L)
                         /\ Followed => u = record /\ L = log
      <3>1. PICK u, L : /\ Stream(u, L)
                        /\ Following(conns[current].wire, u, L) \/ Resuming(conns[current].wire, u, L)
                        /\ Followed => u = record /\ L = log
        BY <2>6
      <3> DEFINE w == conns[current].wire
      <3>2. w' = w
        BY <1>1
      <3> HIDE DEF w
      <3>3. Stream(u, L)' /\ (Following(w, u, L) \/ Resuming(w, u, L))'
        BY <2>3, <2>4, <2>5, <3>1, <3>2 DEF w
      <3> QED BY <1>1, <2>2, <3>1, <3>3 DEF Wired, w
    <2>7. CASE conns[current].wire = <<>> /\ ~Followed
      BY <1>1, <2>2, <2>7 DEF Wired
    <2>8. CASE /\ conns[current].wire # <<>> /\ Tail(conns[current].wire) = <<>>
               /\ Head(conns[current].wire) \in Answers /\ conns[current].stage = "ended"
      BY <1>1, <2>8 DEF Wired, Answers
    <2> QED BY <2>1, <2>6, <2>7, <2>8 DEF Wired
  <1> QED BY <1>1, <1>2 DEF WireInv, Posts

----------------------------------------------------------------------------
(* Steps of the tab: a frame arrives *)

\* The connection is aborted, or keeps what comes after the frame.
LEMMA DeliverIs ==
    ASSUME ScreenInv, NEW c \in Conns, Deliver(c)
    PROVE  LET w == conns[c].wire IN
           /\ c = current /\ current # None /\ w # <<>> /\ w \in Seq(Frame)
           /\ UNCHANGED hubVars /\ tab' = HandleEvent(tab, Head(w))
           /\ conns[c].stage \in {"open", "ended"} /\ Wired
           /\ IF Head(w).type \in Terminal /\ ~tab'.live THEN Abort
              ELSE /\ current' = current /\ subs' = subs
                   /\ conns'[c].wire = Tail(w) /\ conns'[c].stage = conns[c].stage
                   /\ \A b \in Conns : b # c => conns'[b] = conns[b]
PROOF
  <1> DEFINE w == conns[c].wire
             N == [conns[c] EXCEPT !.wire = Tail(@)]
  <1>1. c = current /\ current # None /\ w # <<>> /\ UNCHANGED hubVars
        /\ tab' = HandleEvent(tab, Head(w))
    BY NoneAssumption DEF Deliver
  <1>2. w \in Seq(Frame) /\ DOMAIN conns = Conns /\ WireInv
    BY DEF ScreenInv, Conn
  <1>3. conns[c].stage \in {"open", "ended"} /\ Wired
    BY <1>1, <1>2 DEF WireInv
  <1>4. CASE Head(w).type \in Terminal /\ ~tab'.live
    BY <1>1, <1>2, <1>3, <1>4 DEF Deliver
  <1>5. CASE ~(Head(w).type \in Terminal /\ ~tab'.live)
    <2>1. conns' = [conns EXCEPT ![c] = N] /\ UNCHANGED <<current, subs>>
      BY <1>2, <1>5 DEF Deliver
    <2>2. N.wire = Tail(w) /\ N.stage = conns[c].stage
      BY DEF ScreenInv, Conn
    <2> HIDE DEF N
    <2>3. conns'[c] = N /\ \A b \in Conns : b # c => conns'[b] = conns[b]
      BY <1>2, <2>1
    <2> QED BY <1>1, <1>2, <1>3, <1>5, <2>1, <2>2, <2>3
  <1> QED BY <1>4, <1>5

LEMMA DeliverWire ==
    ASSUME ScreenInv, NEW c \in Conns, Deliver(c), current' = current,
           conns'[c].stage = conns[c].stage,
           \A b \in Conns : b # c => conns'[b] = conns[b],
           Wired'
    PROVE  WireInv'
PROOF
  <1>1. c = current /\ conns[c].stage \in {"open", "ended"} /\ WireInv
    BY DeliverIs DEF ScreenInv
  <1>2. current' \notin Posts'
    BY <1>1 DEF Posts
  <1> QED BY <1>1, <1>2 DEF WireInv

\* The stream of a turn does not change when the tab takes a frame.
LEMMA StreamSame ==
    ASSUME UNCHANGED hubVars, NEW u, NEW L, Stream(u, L)
    PROVE  Stream(u, L)'
PROOF BY DEF hubVars, Stream, LogOf, Consecutive, FromTop, Pieces, Shows

\* A step that brings nothing new keeps what is on screen.
LEMMA QuietKeeps ==
    ASSUME Good(tab), Good(tab'), Goes(tab, tab', {}), NEW t
    PROVE  Keeps(t)
PROOF
  <1> DEFINE N == {}
  <1>1. Goes(tab, tab', N) /\ \A e \in Has(tab), f \in N : e[1] = f[1] => e[2] < f[2]
    OBVIOUS
  <1> HIDE DEF N
  <1> QED BY <1>1, KeepsBy

\* There is nothing to attach to: the tab stops.
LEMMA DeliverAnswer ==
    ASSUME ScreenInv, NEW c \in Conns, Deliver(c),
           Tail(conns[c].wire) = <<>>, Head(conns[c].wire) \in Answers, conns[c].stage = "ended"
    PROVE  TabInv' /\ WireInv' /\ SpinInv' /\ \A t \in Turns : Keeps(t)
PROOF
  <1> DEFINE f == Head(conns[c].wire)
  <1>1. f.type \notin Terminal /\ HandleEvent(tab, f) = Idle(tab)
    BY DEF Answers, HandleEvent, Kinds, Terminal
  <1> HIDE DEF f
  <1>2. /\ c = current /\ current # None /\ UNCHANGED hubVars /\ tab' = Idle(tab)
        /\ current' = current /\ subs' = subs
        /\ conns'[c].wire = <<>> /\ conns'[c].stage = "ended"
        /\ \A b \in Conns : b # c => conns'[b] = conns[b]
    BY <1>1, DeliverIs DEF f
  <1>3. Good(tab) /\ TabInv /\ SpinInv
    BY DEF ScreenInv, TabInv
  <1>4. /\ Good(tab') /\ Has(tab') = Has(tab) /\ Goes(tab, tab', {})
        /\ tab'.active = 0 /\ ~tab'.sending /\ ~tab'.live /\ tab'.timer = tab.timer
    BY <1>2, <1>3, IdleGood
  <1>5. TabInv'
    BY <1>2, <1>3, <1>4, TabGoes
  <1>6. Wired'
    BY <1>2 DEF Wired, Followed
  <1>7. WireInv'
    BY <1>2, <1>6, DeliverWire
  <1>8. SpinInv'
    BY <1>2, <1>3, <1>4 DEF SpinInv
  <1> QED BY <1>3, <1>4, <1>5, <1>7, <1>8, QuietKeeps

\* The next event of the turn the tab follows.
LEMMA DeliverEvent ==
    ASSUME ScreenInv, NEW c \in Conns, Deliver(c), NEW u, NEW L, Stream(u, L),
           Following(conns[c].wire, u, L), Followed => u = record /\ L = log
    PROVE  TabInv' /\ WireInv' /\ SpinInv' /\ \A t \in Turns : Keeps(t)
PROOF
  <1> DEFINE w == conns[c].wire
             f == Head(w)
  <1>1. /\ c = current /\ current # None /\ w # <<>> /\ UNCHANGED hubVars
        /\ tab' = HandleEvent(tab, f)
        /\ IF f.type \in Terminal /\ ~tab'.live THEN Abort
           ELSE /\ current' = current /\ subs' = subs
                /\ conns'[c].wire = Tail(w) /\ conns'[c].stage = conns[c].stage
                /\ \A b \in Conns : b # c => conns'[b] = conns[b]
    BY DeliverIs
  <1>2. TabInv /\ SpinInv /\ WireInv /\ Good(tab) /\ LogOf(L, u) /\ u \in Turns
        /\ tab.sending
    BY DEF ScreenInv, TabInv, Stream, Following
  <1>3. PICK k \in 0..Len(L) : Rest(w, L, k) /\ Ready(tab, u, NextAt(L, k))
    BY DEF Following
  <1> HIDE DEF w
  <1>4. /\ k < Len(L) /\ f = L[k + 1] /\ f \in Event /\ Rest(Tail(w), L, k + 1)
    BY <1>1, <1>2, <1>3, RestTail
  <1>5. k + 1 \in 1..Len(L) /\ k + 1 \in 0..Len(L)
    BY <1>2, <1>4, LogOfIs
  <1>6. /\ f.turn = u /\ ((f.type = "start") <=> (f.n = 0))
        /\ f.n = NextAt(L, k) /\ NextAt(L, k + 1) = f.n + 1
    <2>1. f.turn = u /\ ((f.type = "start") <=> (f.n = 0))
      BY <1>2, <1>4, <1>5, LogOfIs
    <2>2. L[k + 1].n = NextAt(L, k) /\ NextAt(L, k + 1) = NextAt(L, k) + 1
      BY <1>2, <1>4, NextAtIs
    <2> QED BY <1>4, <2>1, <2>2
  <1>7. News(f) \subseteq Pieces(L) /\ \A e \in News(f) : e[1] = u /\ e[2] = f.n
    <2> HIDE DEF f
    <2>1. k + 1 \in DOMAIN L
      BY <1>2, <1>5, LogOfIs
    <2>2. Shows(f) => <<f.turn, f.n>> \in Pieces(L)
      BY <1>4, <2>1 DEF Pieces
    <2> QED BY <1>6, <2>2 DEF News
  <1> HIDE DEF f
  <1>8. tab' = Apply(tab, f)
    <2>1. f.type \in Kinds
      BY <1>4, EventNumber
    <2> QED BY <1>1, <2>1 DEF HandleEvent, Kinds
  <1>9. Ready(tab, u, f.n)
    BY <1>3, <1>6
  <1>10. /\ Good(tab') /\ tab'.timer = tab.timer /\ Goes(tab, tab', News(f))
         /\ f.type \notin Terminal =>
              /\ Ready(tab', u, f.n + 1)
              /\ tab'.sending = tab.sending /\ tab'.live = tab.live
         /\ f.type \in Terminal => ~tab'.sending /\ ~tab'.live /\ tab'.active = 0
    <2>1. Good(tab) /\ f \in Event /\ Ready(tab, f.turn, f.n)
      BY <1>2, <1>4, <1>6, <1>9
    <2>2. (f.type = "start") <=> (f.n = 0)
      BY <1>6
    <2>3. f.turn = u
      BY <1>6
    <2> QED BY <1>8, <2>1, <2>2, <2>3, ApplyIs
  <1>11. Has(tab') \subseteq Has(tab) \cup News(f)
    BY <1>10 DEF Goes
  <1>12. \A e \in Has(tab') : stage'[e[1]] # "unused"
    BY <1>1, <1>2, <1>7, <1>11 DEF hubVars, TabInv, Stream
  <1>13. ASSUME record # None
         PROVE  Covered(tab', record, log)
    <2>1. Covered(tab, record, log)
      BY <1>2, <1>13 DEF TabInv
    <2>2. u = record => Pieces(L) \subseteq Pieces(log)
      BY DEF Stream
    <2>3. \A e \in News(f) : e[1] = record => e \in Pieces(log)
      BY <1>7, <2>2
    <2> QED BY <1>11, <2>1, <2>3 DEF Covered
  <1>14. TabInv'
    <2>1. record' # None => Covered(tab', record', log')
      BY <1>1, <1>13 DEF hubVars
    <2>2. ~tab'.sending => tab'.active = 0
      BY <1>2, <1>10
    <2> QED BY <1>10, <1>12, <2>1, <2>2
           DEF TabInv, Good, Has, All, Covered, Unshown, Ordered, Complete
  <1>15. WireInv' /\ SpinInv'
    <2>1. CASE f.type \in Terminal
      <3>1. WireInv' /\ current' = None
        BY <1>1, <1>10, <2>1, AbortWire
      <3> QED BY <1>1, <1>2, <1>10, <2>1, <3>1 DEF SpinInv
    <2>2. CASE f.type \notin Terminal
      <3>1. /\ current' = current /\ subs' = subs
            /\ conns'[c].wire = Tail(w) /\ conns'[c].stage = conns[c].stage
            /\ \A b \in Conns : b # c => conns'[b] = conns[b]
        BY <1>1, <2>2
      <3>2. Ready(tab', u, NextAt(L, k + 1))
        BY <1>6, <1>10, <2>2
      <3>3. tab'.sending
        BY <1>2, <1>10, <2>2
      <3> DEFINE v == Tail(w)
                 m == k + 1
      <3>4. v = conns'[current'].wire
        BY <1>1, <3>1
      <3>5. m \in 0..Len(L) /\ Rest(v, L, m) /\ Ready(tab', u, NextAt(L, m))
        BY <1>4, <1>5, <3>2
      <3> HIDE DEF v, m
      <3>6. Following(conns[current].wire, u, L)'
        BY <3>3, <3>4, <3>5 DEF Following, Rest, Ready, NextAt, Has, All
      <3>7. Followed' => u = record' /\ L = log'
        BY <1>1, <3>1 DEF Followed, hubVars
      <3>8. Stream(u, L)'
        BY <1>1, StreamSame
      <3>9. Wired'
        BY <3>6, <3>7, <3>8 DEF Wired
      <3>10. WireInv'
        BY <3>1, <3>9, DeliverWire
      <3> QED BY <1>2, <1>10, <2>2, <3>1, <3>10 DEF SpinInv
    <2> QED BY <2>1, <2>2
  <1>16. \A e \in Has(tab), g \in News(f) : e[1] = g[1] => e[2] < g[2]
    BY <1>7, <1>9 DEF Ready
  <1>17. \A t \in Turns : Keeps(t)
    BY <1>2, <1>10, <1>16, KeepsBy
  <1> QED BY <1>14, <1>15, <1>17

\* What a tab makes of a baseline.
LEMMA ReplayTab ==
    ASSUME NEW s \in Tab, NEW f \in Resume, NEW u, LogOf(f.events, u), Tells(f)
    PROVE  LET t == Replay(s, f) IN
           /\ Good(t) /\ t.timer = s.timer
           /\ t.sending = f.live /\ t.live = f.live /\ (~t.sending => t.active = 0)
           /\ Has(t) \subseteq Pieces(f.events) /\ Pieces(f.events) \subseteq Has(t) \cup t.cut
           /\ t.sending => t.cut = {}
           /\ f.events = <<>> => Ready(t, u, 0)
           /\ f.events # <<>> /\ Last(f.events).type \notin Terminal =>
                Ready(t, u, Last(f.events).n + 1)
PROOF
  <1> DEFINE es == f.events
             r == ApplyAll(ResetForReplay(s), es)
             v == f.live
             t == [r EXCEPT !.sending = v, !.live = v]
  <1>1. es \in Seq(Event) /\ v \in BOOLEAN
    BY DEF Resume
  <1>2. Consecutive(es) /\ FromTop(es)
    BY DEF LogOf
  <1>3. es # <<>> => es[1].turn = u
    <2>1. es # <<>> => 1 \in 1..Len(es)
      BY LogOfIs
    <2> QED BY <2>1, LogOfIs
  <1>4. Replay(s, f) = t
    BY DEF Replay
  <1>5. v <=> (es # <<>> => Last(es).type \notin Terminal)
    BY DEF Tells
  <1> HIDE DEF es, v
  <1>6. /\ Good(r) /\ r.timer = s.timer
        /\ Has(r) \subseteq Pieces(es) /\ Pieces(es) \subseteq Has(r) \cup r.cut
        /\ es = <<>> => r.active = 0 /\ r.cut = {} /\ \A x : Ready(r, x, 0)
        /\ es # <<>> /\ Last(es).type \notin Terminal =>
             r.cut = {} /\ Ready(r, es[1].turn, Last(es).n + 1)
        /\ es # <<>> /\ Last(es).type \in Terminal => r.active = 0
    BY <1>1, <1>2, ReplayIs
  <1> HIDE DEF r
  <1>7. r \in Tab
    BY <1>6 DEF Good
  <1>8. /\ t.older = r.older /\ t.bubble = r.bubble /\ t.shown = r.shown
        /\ t.cut = r.cut /\ t.flush = r.flush
        /\ t.active = r.active /\ t.steered = r.steered /\ t.timer = r.timer
        /\ t.sending = v /\ t.live = v
    BY <1>7 DEF Tab
  <1>9. t \in Tab
    BY <1>1, <1>7 DEF Tab
  <1> HIDE DEF t
  <1>10. Good(t) /\ Has(t) = Has(r) /\ Goes(r, t, {})
    BY <1>6, <1>8, <1>9, SameScreen
  <1>11. \A x, n : Ready(r, x, n) => Ready(t, x, n)
    BY <1>8, <1>10 DEF Ready
  <1>12. es = <<>> => Ready(t, u, 0)
    BY <1>6, <1>11
  <1>13. es # <<>> /\ Last(es).type \notin Terminal => Ready(t, u, Last(es).n + 1)
    BY <1>3, <1>6, <1>11
  <1>14. ~t.sending => t.active = 0
    BY <1>5, <1>6, <1>8
  <1>15. t.sending => t.cut = {}
    BY <1>5, <1>6, <1>8
  <1> QED BY <1>4, <1>6, <1>8, <1>10, <1>12, <1>13, <1>14, <1>15 DEF es, v

\* The baseline of a turn: the screen starts over with all of its log so far.
LEMMA DeliverBaseline ==
    ASSUME ScreenInv, NEW c \in Conns, Deliver(c), NEW u, NEW L, Stream(u, L),
           Resuming(conns[c].wire, u, L), Followed => u = record /\ L = log
    PROVE  /\ TabInv' /\ WireInv' /\ SpinInv'
           /\ \A t \in Turns : Keeps(t) \/ ReplaysAnother(t)
PROOF
  <1> DEFINE w == conns[c].wire
             f == Head(w)
             es == f.events
             k == Len(es)
  <1>1. f \in Resume /\ f.type = "resume" /\ f.turn = u /\ es \in Seq(Event)
    BY DEF Resuming, Resume
  <1>2. /\ c = current /\ current # None /\ w # <<>> /\ UNCHANGED hubVars
        /\ tab' = Replay(tab, f)
        /\ current' = current /\ subs' = subs
        /\ conns'[c].wire = Tail(w) /\ conns'[c].stage = conns[c].stage
        /\ \A b \in Conns : b # c => conns'[b] = conns[b]
    BY <1>1, DeliverIs DEF HandleEvent, Terminal
  <1>3. TabInv /\ SpinInv /\ WireInv /\ HubInv /\ LogOf(L, u) /\ u \in Turns /\ tab \in Tab
    BY PiecesOfTab DEF ScreenInv, Stream
  <1>4. /\ Rest(Tail(w), L, k) /\ (\A i \in 1..k : es[i] = L[i])
        /\ Covered(tab, u, es)
        /\ Tells(f)
    BY DEF Resuming
  <1>5. k \in 0..Len(L) /\ k \in Nat /\ Len(L) \in Nat /\ (es = <<>> <=> k = 0)
    BY <1>1, <1>3, <1>4, LogOfIs, LenProperties, EmptySeq DEF Rest
  <1>6. LogOf(es, u) /\ Pieces(es) \subseteq Pieces(L)
    BY <1>1, <1>3, <1>4, <1>5, FirstOf
  <1> HIDE DEF f, w
  <1>7. /\ Good(tab') /\ tab'.timer = tab.timer
        /\ tab'.sending = f.live /\ tab'.live = f.live /\ (~tab'.sending => tab'.active = 0)
        /\ Has(tab') \subseteq Pieces(es) /\ Pieces(es) \subseteq Has(tab') \cup tab'.cut
        /\ tab'.sending => tab'.cut = {}
        /\ es = <<>> => Ready(tab', u, 0)
        /\ es # <<>> /\ Last(es).type \notin Terminal => Ready(tab', u, Last(es).n + 1)
    BY <1>1, <1>2, <1>3, <1>4, <1>6, ReplayTab
  <1>8. \A e \in Pieces(es) : e = <<u, e[2]>> /\ e[1] = u /\ e[2] \in 1..MaxLog
    BY <1>6, PiecesOf
  <1>9. \A e \in Has(tab') : stage'[e[1]] # "unused"
    BY <1>2, <1>7, <1>8 DEF hubVars, Stream
  <1>10. TabInv'
    <2>1. ASSUME record # None
          PROVE  Covered(tab', record, log)
      <3>1. u = record => Pieces(es) \subseteq Pieces(log)
        BY <1>6 DEF Stream
      <3> QED BY <1>7, <1>8, <3>1 DEF Covered
    <2>2. record' # None => Covered(tab', record', log')
      BY <1>2, <2>1 DEF hubVars
    <2> QED BY <1>7, <1>9, <2>2
           DEF TabInv, Good, Has, All, Covered, Unshown, Ordered, Complete
  <1>11. SpinInv'
    BY <1>2, <1>3, <1>7 DEF SpinInv
  <1>12. Followed' <=> Followed
    BY <1>2 DEF Followed, hubVars
  <1>13. Wired'
    <2>1. CASE es # <<>> /\ Last(es).type \in Terminal
      <3>1. k \in 1..k /\ k \in 1..Len(L) /\ L[k].type \in Terminal
        BY <1>4, <1>5, <2>1 DEF Last
      <3>2. k = Len(L)
        BY <1>3, <3>1, LogOfIs
      <3>3. Tail(w) = <<>>
        <4> DEFINE v == Tail(w)
        <4>1. v \in Seq(Event) /\ Len(v) = 0
          BY <1>4, <1>5, <3>2 DEF Rest
        <4> HIDE DEF v
        <4>2. v = <<>>
          BY <4>1, EmptySeq
        <4> QED BY <4>2 DEF v
      <3>4. ~Followed
        <4> SUFFICES ASSUME Followed PROVE FALSE
          OBVIOUS
        <4>1. record # None /\ Live(record) /\ L = log
          BY <1>2 DEF Followed, ScreenInv, IInv, Types, FollowersAreFed, HubInv
        <4>2. k \in DOMAIN log
          BY <1>3, <3>1, <4>1, LogOfIs
        <4> QED BY <1>3, <3>1, <4>1, <4>2 DEF HubInv
      <3> QED BY <1>2, <1>12, <3>3, <3>4 DEF Wired
    <2>2. CASE ~(es # <<>> /\ Last(es).type \in Terminal)
      <3>1. tab'.sending
        BY <1>4, <1>7, <2>2 DEF Tells
      <3>2. Ready(tab', u, NextAt(L, k))
        <4>1. CASE es = <<>>
          <5>1. Ready(tab', u, 0) /\ Ready(tab', u, 1)
            BY <1>7, <4>1, ReadyZero
          <5>2. NextAt(L, k) \in {0, 1}
            <6>1. CASE L = <<>>
              BY <6>1 DEF NextAt
            <6>2. CASE L # <<>>
              <7>1. L[1].n \in {0, 1}
                BY <1>3, <6>2 DEF LogOf, FromTop
              <7> QED BY <1>5, <4>1, <6>2, <7>1 DEF NextAt
            <6> QED BY <6>1, <6>2
          <5> QED BY <5>1, <5>2
        <4>2. CASE es # <<>>
          <5>1. k \in 1..k /\ k \in 1..Len(L) /\ Last(es) = L[k] /\ L # <<>>
            <6>1. k \in 1..k /\ k \in 1..Len(L) /\ Len(L) # 0
              BY <1>5, <4>2
            <6>2. L # <<>>
              BY <1>3, <6>1, LogOfIs
            <6> QED BY <1>4, <6>1, <6>2 DEF Last
          <5>2. L[k].n = L[1].n + (k - 1) /\ L[1].n \in {0, 1}
            BY <1>3, <5>1, LogOfIs
          <5>3. Last(es).n + 1 = NextAt(L, k)
            BY <1>5, <5>1, <5>2 DEF NextAt
          <5> QED BY <1>7, <2>2, <4>2, <5>3
        <4> QED BY <4>1, <4>2
      <3> DEFINE v == Tail(w)
                 m == k
      <3>3. v = conns'[current'].wire /\ m \in 0..Len(L) /\ Rest(v, L, m)
            /\ Ready(tab', u, NextAt(L, m))
        BY <1>2, <1>4, <1>5, <3>2
      <3> HIDE DEF v, m
      <3>4. Following(conns[current].wire, u, L)'
        BY <1>7, <3>1, <3>3 DEF Following, Rest, Ready, NextAt, Has, All
      <3>5. Followed' => u = record' /\ L = log'
        BY <1>2, <1>12 DEF hubVars
      <3>6. Stream(u, L)'
        BY <1>2, StreamSame
      <3> QED BY <3>4, <3>5, <3>6 DEF Wired
    <2> QED BY <2>1, <2>2
  <1>14. WireInv'
    BY <1>2, <1>13, DeliverWire
  <1>15. ASSUME NEW t \in Turns
         PROVE  Keeps(t) \/ ReplaysAnother(t)
    <2>1. CASE t # u
      BY <1>1, <1>2, <2>1 DEF ReplaysAnother, w, f
    <2>2. CASE t = u
      <3>1. /\ On(tab) \subseteq Pending(tab) /\ Pending(tab) \subseteq Has(tab)
            /\ Has(tab) \subseteq Pending(tab) \cup tab.cut
            /\ Of(t, tab) = {e \in On(tab) : e[1] = u}
            /\ Due(t, tab) = {e \in Pending(tab) : e[1] = u}
        BY <1>3, <2>2, PendingIs DEF TabInv
      <3>2. /\ Pending(tab') \subseteq Has(tab') /\ Has(tab') \subseteq Pending(tab') \cup tab'.cut
            /\ Due(t, tab') = {e \in Pending(tab') : e[1] = u}
        BY <1>7, <2>2, PendingIs
      <3>3. \A e \in Has(tab) : e[1] = u =>
              e \in Pieces(es) /\ e = <<u, e[2]>> /\ e[2] \in Nat
        <4>1. \A e \in Has(tab) : e \in Piece
          BY <1>3, PiecesOfTab
        <4> QED BY <1>4, <4>1, PieceIs DEF Covered
      <3>4. Due(t, tab) \subseteq Due(t, tab') \cup tab'.cut
        BY <1>7, <3>1, <3>2, <3>3
      <3>5. tab'.sending => Of(t, tab) \subseteq Due(t, tab')
        BY <1>7, <3>1, <3>2, <3>3
      <3>6. ASSUME NEW e \in Of(t, tab), NEW g \in Due(t, tab') \ Due(t, tab)
            PROVE  e[2] < g[2] \/ g \in tab.cut
        <4>1. /\ e \in On(tab) /\ e \in Has(tab) /\ e[1] = u /\ e = <<u, e[2]>> /\ e[2] \in Nat
              /\ e \in Pending(tab)
          BY <3>1, <3>3
        <4>2. /\ g = <<u, g[2]>> /\ g[1] = u /\ g[2] \in 1..MaxLog /\ g \notin Pending(tab)
          BY <1>7, <1>8, <3>1, <3>2
        <4>3. e[2] # g[2]
          BY <4>1, <4>2
        <4>4. CASE g[2] \in 1..(e[2] - 1)
          <5>1. <<u, g[2]>> \in Has(tab) \cup tab.cut
            BY <1>3, <4>1, <4>4 DEF TabInv, Good, Complete
          <5> QED BY <3>1, <4>2, <5>1
        <4>5. CASE g[2] \notin 1..(e[2] - 1)
          BY <4>1, <4>2, <4>3, <4>5, BoundsAssumption
        <4> QED BY <4>4, <4>5
      <3> QED BY <3>4, <3>5, <3>6 DEF Keeps
    <2> QED BY <2>1, <2>2
  <1> QED BY <1>10, <1>11, <1>14, <1>15

LEMMA DeliverScreen ==
    ASSUME ScreenInv, NEW c \in Conns, Deliver(c)
    PROVE  /\ TabInv' /\ WireInv' /\ SpinInv'
           /\ \A t \in Turns : Keeps(t) \/ ReplaysAnother(t)
PROOF
  <1>1. c = current /\ conns[c].wire # <<>> /\ Wired
    BY DeliverIs
  <1>2. CASE /\ Tail(conns[c].wire) = <<>> /\ Head(conns[c].wire) \in Answers
             /\ conns[c].stage = "ended"
    BY <1>2, DeliverAnswer
  <1>3. CASE \E u, L : /\ Stream(u, L)
                       /\ Following(conns[c].wire, u, L) \/ Resuming(conns[c].wire, u, L)
                       /\ Followed => u = record /\ L = log
    <2>1. PICK u, L : /\ Stream(u, L)
                      /\ Following(conns[c].wire, u, L) \/ Resuming(conns[c].wire, u, L)
                      /\ Followed => u = record /\ L = log
      BY <1>3
    <2>2. CASE Following(conns[c].wire, u, L)
      BY <2>1, <2>2, DeliverEvent
    <2>3. CASE Resuming(conns[c].wire, u, L)
      BY <2>1, <2>3, DeliverBaseline
    <2> QED BY <2>1, <2>2, <2>3
  <1> QED BY <1>1, <1>2, <1>3 DEF Wired

----------------------------------------------------------------------------
(* The types of the connections *)

LEMMA FreeTyped == Free \in Conn
PROOF
  <1>1. <<>> \in Seq(Frame)
    BY EmptySeq
  <1> QED BY <1>1 DEF Free, Conn

LEMMA ConnChanged ==
    ASSUME NEW k \in Conn, NEW t \in Turns \cup {None}, NEW w \in Seq(Frame),
           NEW st \in {"free", "asked", "open", "ended", "broken", "silent"},
           NEW kind \in {"post", "attach", "probe"}
    PROVE  /\ [k EXCEPT !.stage = st] \in Conn /\ [k EXCEPT !.wire = w] \in Conn
           /\ [k EXCEPT !.stage = st, !.wire = w] \in Conn
           /\ [k EXCEPT !.stage = st, !.turn = t] \in Conn
           /\ [k EXCEPT !.stage = st, !.kind = kind] \in Conn
           /\ [k EXCEPT !.stage = st, !.kind = kind, !.wire = w] \in Conn
PROOF BY DEF Conn

LEMMA ClosedTyped ==
    ASSUME NEW cs \in [Conns -> Conn], NEW S
    PROVE  Closed(cs, S) \in [Conns -> Conn]
PROOF
  <1> DEFINE E(c) == [cs[c] EXCEPT !.stage = "ended"]
  <1>1. <<>> \in Seq(Frame) /\ \A c \in Conns : cs[c] \in Conn
    BY EmptySeq
  <1>2. \A c \in Conns : E(c) \in Conn
    BY <1>1, ConnChanged
  <1> HIDE DEF E
  <1>3. Closed(cs, S) = [c \in Conns |-> IF c \in S /\ cs[c].kind # "post" /\ cs[c].stage = "open"
                                          THEN E(c) ELSE cs[c]]
    BY DEF Closed, E
  <1> QED BY <1>1, <1>2, <1>3

LEMMA SentTyped ==
    ASSUME NEW cs \in [Conns -> Conn], NEW S, NEW frame \in Frame
    PROVE  Sent(cs, S, frame) \in [Conns -> Conn]
PROOF
  <1> DEFINE E(c) == [cs[c] EXCEPT !.wire = Append(@, frame)]
  <1>1. ASSUME NEW c \in Conns
        PROVE  cs[c] \in Conn /\ E(c) \in Conn
    <2> DEFINE w == Append(cs[c].wire, frame)
    <2>1. cs[c] \in Conn
      OBVIOUS
    <2>2. cs[c].wire \in Seq(Frame)
      BY <2>1 DEF Conn
    <2>3. w \in Seq(Frame)
      BY <2>2, AppendProperties
    <2>4. E(c) = [cs[c] EXCEPT !.wire = w]
      OBVIOUS
    <2> HIDE DEF w
    <2> QED BY <2>1, <2>3, <2>4, ConnChanged
  <1> HIDE DEF E
  <1>2. Sent(cs, S, frame) = [c \in Conns |-> IF c \in S /\ cs[c].stage = "open"
                                               THEN E(c) ELSE cs[c]]
    BY DEF Sent, E
  <1> QED BY <1>1, <1>2

LEMMA AbortedTyped ==
    ASSUME conns \in [Conns -> Conn]
    PROVE  Aborted \in [Conns -> Conn]
PROOF BY FreeTyped DEF Aborted

LEMMA OpenTyped ==
    ASSUME conns \in [Conns -> Conn], NEW kind \in {"post", "attach", "probe"}, Open(kind)
    PROVE  conns' \in [Conns -> Conn]
PROOF
  <1> DEFINE A == Aborted
             N == [Free EXCEPT !.stage = "asked", !.kind = kind]
  <1>1. PICK n \in Conns : conns' = [A EXCEPT ![n] = N]
    BY DEF Open
  <1>2. <<>> \in Seq(Frame)
    BY EmptySeq
  <1>3. N \in Conn
    BY <1>2, FreeTyped, ConnChanged
  <1>4. A \in [Conns -> Conn]
    BY AbortedTyped
  <1> HIDE DEF A, N
  <1> QED BY <1>1, <1>3, <1>4

LEMMA HandleGetTyped ==
    ASSUME HubInv, conns \in [Conns -> Conn], NEW c \in Conns, HandleGet(c)
    PROVE  conns' \in [Conns -> Conn]
PROOF
  <1> DEFINE E(w) == [Free EXCEPT !.stage = "ended", !.kind = "attach", !.wire = w]
             O(w) == [Free EXCEPT !.stage = "open", !.kind = "attach", !.wire = w]
  <1>1. \A w \in Seq(Frame) : E(w) \in Conn /\ O(w) \in Conn
    BY FreeTyped, ConnChanged
  <1> HIDE DEF E, O
  <1>2. [type |-> "idle"] \in Frame /\ [type |-> "resume_unavailable"] \in Frame
    BY DEF Frame
  <1>3. record # None => Baseline \in Frame
    <2>1. Live(record) \in BOOLEAN
      BY DEF Live
    <2>2. record # None => Baseline \in Resume
      BY <2>1 DEF Baseline, Resume, HubInv
    <2>3. Resume \subseteq Frame
      BY DEF Resume, Frame
    <2> QED BY <2>2, <2>3
  <1>4. \A f \in Frame : <<f>> \in Seq(Frame)
    OBVIOUS
  <1>5. PICK f \in Frame : Answer(c, f) \/ conns' = [conns EXCEPT ![c] = O(<<f>>)]
    BY <1>2, <1>3 DEF HandleGet, Attach, Follow, O
  <1>6. conns' = [conns EXCEPT ![c] = E(<<f>>)] \/ conns' = [conns EXCEPT ![c] = O(<<f>>)]
    BY <1>5 DEF Answer, E
  <1> QED BY <1>1, <1>4, <1>6

LEMMA HandlePostTyped ==
    ASSUME conns \in [Conns -> Conn], NEW c \in Conns, HandlePost(c)
    PROVE  conns' \in [Conns -> Conn]
PROOF
  <1> DEFINE D == Closed(conns, Displaced)
             N(t) == [D[c] EXCEPT !.stage = "open", !.turn = t]
  <1>1. PICK t \in Turns : conns' = [D EXCEPT ![c] = IF c = current THEN N(t) ELSE Free]
    BY DEF HandlePost
  <1>2. D \in [Conns -> Conn]
    BY ClosedTyped
  <1>3. <<>> \in Seq(Frame) /\ D[c] \in Conn
    BY <1>2, EmptySeq
  <1> HIDE DEF D
  <1>4. N(t) \in Conn
    BY <1>3, ConnChanged
  <1> HIDE DEF N
  <1> QED BY <1>1, <1>2, <1>4, FreeTyped

LEMMA NetworkTyped ==
    ASSUME conns \in [Conns -> Conn],
           \/ Restart
           \/ \E how \in {"broken", "silent"} : Cut(how)
           \/ \E t \in Turns : EndTurn(t)
    PROVE  conns' \in [Conns -> Conn]
PROOF
  <1>1. <<>> \in Seq(Frame) /\ \A c \in Conns : conns[c] \in Conn
    BY EmptySeq
  <1> DEFINE B(c, how) == [conns[c] EXCEPT !.stage = how, !.wire = <<>>]
             E(c) == [conns[c] EXCEPT !.stage = "ended"]
  <1>2. \A c \in Conns : B(c, "broken") \in Conn /\ B(c, "silent") \in Conn /\ E(c) \in Conn
    BY <1>1, ConnChanged
  <1> HIDE DEF B, E
  <1>3. CASE Restart
    <2>1. conns' = [c \in Conns |-> IF c # current THEN Free
                                    ELSE IF conns[c].stage \in {"asked", "open"} THEN B(c, "broken")
                                    ELSE conns[c]]
      BY <1>3 DEF Restart, B
    <2> QED BY <1>1, <1>2, <2>1, FreeTyped
  <1>4. ASSUME NEW how \in {"broken", "silent"}, Cut(how)
        PROVE  conns' \in [Conns -> Conn]
    <2>1. conns' = [conns EXCEPT ![current] = B(current, how)]
      BY <1>4 DEF Cut, B
    <2> QED BY <1>2, <2>1
  <1>5. ASSUME NEW t \in Turns, EndTurn(t)
        PROVE  conns' \in [Conns -> Conn]
    <2>1. conns' = [c \in Conns |-> IF conns[c].turn = t /\ conns[c].stage = "open"
                                    THEN E(c) ELSE conns[c]]
      BY <1>5 DEF EndTurn, E
    <2> QED BY <1>1, <1>2, <2>1
  <1> QED BY <1>3, <1>4, <1>5

LEMMA PublishTyped ==
    ASSUME HubInv, conns \in [Conns -> Conn], NEW kind \in Kinds, Publish(kind)
    PROVE  conns' \in [Conns -> Conn]
PROOF
  <1> DEFINE e == Numbered(record, kind)
  <1>1. e \in Frame
    BY NumberedIs DEF Frame
  <1>2. PICK S, gone : conns' = Closed(Sent(conns, S, e), gone)
    BY DEF Publish
  <1> HIDE DEF e
  <1> QED BY <1>1, <1>2, SentTyped, ClosedTyped

LEMMA DeliverTyped ==
    ASSUME conns \in [Conns -> Conn], NEW c \in Conns, Deliver(c)
    PROVE  conns' \in [Conns -> Conn]
PROOF
  <1>1. CASE Abort
    BY <1>1, AbortedTyped DEF Abort
  <1>2. CASE ~Abort
    <2> DEFINE w == Tail(conns[c].wire)
               N == [conns[c] EXCEPT !.wire = w]
    <2>1. conns' = [conns EXCEPT ![c] = N]
      BY <1>2 DEF Deliver
    <2>2. conns[c] \in Conn /\ conns[c].wire \in Seq(Frame) /\ conns[c].wire # <<>>
      BY DEF Deliver, Conn
    <2>3. w \in Seq(Frame)
      BY <2>2, HeadTailProperties
    <2> HIDE DEF w
    <2>4. N \in Conn
      BY <2>2, <2>3, ConnChanged
    <2> HIDE DEF N
    <2> QED BY <2>1, <2>4
  <1> QED BY <1>1, <1>2

LEMMA NextTyped ==
    ASSUME HubInv, conns \in [Conns -> Conn], [Next]_vars
    PROVE  conns' \in [Conns -> Conn]
PROOF
  <1>1. CASE Send \/ Probe \/ Retry \/ Online
    BY <1>1, OpenTyped DEF Send, Probe, Retry, Online
  <1>2. CASE CheckAlive
    BY <1>2, AbortedTyped DEF CheckAlive, Abort
  <1>3. CASE ForeignPost
    BY <1>3, ClosedTyped DEF ForeignPost
  <1>4. CASE Restart \/ Break \/ Silence
    BY <1>4, NetworkTyped DEF Break, Silence
  <1>5. CASE Steer \/ Flush \/ Expire \/ UNCHANGED vars
    BY <1>5 DEF Steer, Flush, Expire, vars
  <1>6. ASSUME NEW c \in Conns, HandlePost(c) \/ HandleGet(c) \/ Deliver(c)
        PROVE  conns' \in [Conns -> Conn]
    BY <1>6, HandlePostTyped, HandleGetTyped, DeliverTyped
  <1>7. ASSUME NEW c \in Conns, TransportEnds(c) \/ Forget(c)
        PROVE  conns' \in [Conns -> Conn]
    BY <1>7, FreeTyped DEF TransportEnds, Forget
  <1>8. ASSUME NEW t \in Turns, EndTurn(t) \/ \E k \in Kinds : PublishUnseen(t, k)
        PROVE  conns' \in [Conns -> Conn]
    BY <1>8, NetworkTyped DEF PublishUnseen
  <1>9. ASSUME NEW k \in Kinds, Publish(k)
        PROVE  conns' \in [Conns -> Conn]
    BY <1>9, PublishTyped
  <1> QED BY <1>1, <1>2, <1>3, <1>4, <1>5, <1>6, <1>7, <1>8, <1>9 DEF Next

----------------------------------------------------------------------------
(* The theorems *)

LEMMA InitScreen == Init => ScreenInv
PROOF
  <1> SUFFICES ASSUME Init PROVE ScreenInv
    OBVIOUS
  <1>1. conns \in [Conns -> Conn] /\ Free.wire = <<>>
    BY FreeTyped DEF Init, Free
  <1> DEFINE a == 0
             k == 0
             b == FALSE
             o == <<>>
             x == {}
  <1>2. /\ a \in 0..MaxAttempts /\ a \in 0..1 /\ k \in Nat /\ b \in BOOLEAN
        /\ o \in Seq(Piece) /\ x \in SUBSET Piece /\ k = 0
    BY BoundsAssumption, EmptySeq
  <1>3. tab = [sending |-> b, live |-> b, timer |-> b, attempts |-> a, active |-> a,
               steered |-> b, older |-> o, bubble |-> o, shown |-> k, dated |-> b,
               flush |-> b, cut |-> x]
    BY DEF Init
  <1>4. /\ tab.older = <<>> /\ tab.bubble = <<>> /\ tab.shown = k /\ tab.active = 0
        /\ ~tab.sending /\ ~tab.live /\ ~tab.timer /\ tab.cut = {}
    BY <1>3
  <1> HIDE DEF a, b, o, k, x
  <1>5. tab \in Tab
    BY <1>2, <1>3 DEF Tab
  <1>6. <<>> \o <<>> = <<>> /\ Range(<<>>) = {} /\ Len(<<>>) = 0
    BY DEF Range
  <1>7. All(tab) = <<>> /\ Has(tab) = {} /\ tab.shown <= Len(tab.bubble)
    BY <1>2, <1>4, <1>6 DEF All, Has
  <1>8. Good(tab)
    <2>1. Unshown(tab) = {}
      BY <1>5, <1>7, ScreenIs
    <2>2. Ordered(<<>>) /\ Complete({}, {})
      BY DEF Ordered, Complete
    <2> QED BY <1>4, <1>5, <1>7, <2>1, <2>2 DEF Good
  <1>9. record = None /\ current = None /\ \A c \in Conns : conns[c].wire = <<>>
    BY <1>1 DEF Init
  <1>10. TabInv
    BY <1>4, <1>7, <1>8, <1>9 DEF TabInv
  <1>11. WireInv /\ SpinInv
    BY <1>4, <1>9 DEF WireInv, SpinInv
  <1> QED BY <1>1, <1>10, <1>11, InitIInv, InitHub DEF ScreenInv

\* A step of the tab's own.
LEMMA SessionScreen ==
    ASSUME ScreenInv, HubStep,
           Send \/ Steer \/ Flush \/ Probe \/ Retry \/ Online \/ CheckAlive
             \/ \E c \in Conns : TransportEnds(c)
    PROVE  /\ TabInv' /\ WireInv' /\ SpinInv'
           /\ tab.sending => \A t \in Turns : Keeps(t)
PROOF
  <1>1. TabInv /\ SpinInv /\ WireInv /\ Good(tab) /\ tab \in Tab /\ current \in Conns \cup {None}
    BY PiecesOfTab DEF ScreenInv, IInv, Types, TabInv
  <1>2. CASE Send
    <2>1. TabInv' /\ tab'.sending /\ tab'.active = 0 /\ tab'.live /\ ~tab'.timer
      BY <1>2, SendTab
    <2>2. WireInv' /\ current' # None
      BY <1>2, <2>1, OpenWire DEF Send
    <2>3. SpinInv'
      BY <2>1, <2>2 DEF SpinInv
    <2> QED BY <1>2, <2>1, <2>2, <2>3 DEF Send
  <1>3. CASE Steer \/ Flush
    <2>1. UNCHANGED <<hubVars, subs, conns, current>>
      BY <1>3 DEF Steer, Flush
    <2>2. /\ TabInv' /\ Good(tab') /\ Has(tab') \subseteq Has(tab) /\ Goes(tab, tab', {})
          /\ tab'.live = tab.live /\ tab'.timer = tab.timer
          /\ tab'.sending = tab.sending
          /\ tab.active = 0 \/ tab.steered => tab'.active = 0 \/ tab'.steered
      <3>1. CASE Steer
        <4>1. tab.sending = TRUE
          BY <1>1, <3>1 DEF Steer, Tab
        <4>2. tab'.sending = TRUE
          <5>1. tab'.sending /\ tab'.sending \in BOOLEAN
            BY <3>1, SteerTab DEF Good, Tab
          <5> QED BY <5>1
        <4> QED BY <3>1, <4>1, <4>2, SteerTab
      <3>2. CASE Flush
        BY <3>2, FlushTab
      <3> QED BY <1>3, <3>1, <3>2
    <2>3. WireInv'
      BY <2>1, <2>2, TextWire
    <2>4. SpinInv'
      BY <1>1, <2>1, <2>2 DEF SpinInv
    <2> QED BY <1>1, <2>2, <2>3, <2>4, QuietKeeps
  <1>4. ASSUME UNCHANGED hubVars, WireInv', SpinInv',
               Good(tab'), Has(tab') = Has(tab), Goes(tab, tab', {}),
               ~tab'.sending => tab'.active = 0
        PROVE  TabInv' /\ WireInv' /\ SpinInv' /\ \A t \in Turns : Keeps(t)
    BY <1>1, <1>4, TabGoes, QuietKeeps
  <1>5. CASE Probe \/ Retry \/ Online
    <2> DEFINE y == TRUE
               b == FALSE
               a == 0
    <2>1. y \in BOOLEAN /\ b \in BOOLEAN /\ a \in 0..MaxAttempts
      BY BoundsAssumption
    <2>2. \/ tab' = [tab EXCEPT !.live = y]
          \/ tab' = [tab EXCEPT !.timer = b, !.live = y]
          \/ tab' = [tab EXCEPT !.timer = b, !.live = y, !.attempts = a]
      BY <1>5 DEF Probe, Retry, Online
    <2>3. \E kind \in {"probe", "attach"} : Open(kind)
      BY <1>5 DEF Probe, Retry, Online
    <2>4. /\ tab'.older = tab.older /\ tab'.bubble = tab.bubble /\ tab'.shown = tab.shown
          /\ tab'.cut = tab.cut /\ tab'.flush = tab.flush
          /\ tab'.sending = tab.sending /\ tab'.active = tab.active /\ tab'.live
      BY <1>1, <2>2 DEF Tab
    <2>5. ~tab'.timer
      <3>1. CASE Retry \/ Online
        BY <1>1, <3>1 DEF Retry, Online, Tab
      <3>2. CASE Probe
        <4>1. ~tab.live /\ tab'.timer = tab.timer /\ ~tab.sending
          BY <1>1, <3>2 DEF Probe, Tab
        <4> QED BY <1>1, <4>1 DEF SpinInv
      <3> QED BY <1>5, <3>1, <3>2
    <2> HIDE DEF y, b, a
    <2>6. tab' \in Tab
      BY <1>1, <2>1, <2>2 DEF Tab
    <2>7. Good(tab') /\ Has(tab') = Has(tab) /\ Goes(tab, tab', {})
      BY <1>1, <2>4, <2>6, SameScreen
    <2>8. WireInv' /\ current' # None
      BY <2>3, OpenWire
    <2>9. SpinInv'
      BY <2>4, <2>5, <2>8 DEF SpinInv
    <2>10. UNCHANGED hubVars
      BY <1>5 DEF Probe, Retry, Online
    <2> QED BY <1>1, <1>4, <2>4, <2>7, <2>8, <2>9, <2>10 DEF TabInv
  <1>6. ASSUME NEW s, Good(s), Has(s) = Has(tab), Goes(tab, s, {}),
               s.sending = tab.sending, s.active = tab.active, s.timer = tab.timer,
               tab' = ScheduleResume([s EXCEPT !.live = FALSE]),
               UNCHANGED hubVars, WireInv', current' = None
        PROVE  TabInv' /\ WireInv' /\ SpinInv' /\ \A t \in Turns : Keeps(t)
    <2>1. (~s.sending => s.active = 0) /\ (s.timer => s.sending)
      BY <1>1, <1>6 DEF TabInv, SpinInv
    <2>2. /\ Good(tab') /\ Has(tab') = Has(s) /\ Goes(s, tab', {})
          /\ ~tab'.sending => tab'.active = 0
          /\ ~tab'.live /\ (tab'.sending => tab'.timer) /\ (tab'.timer => tab'.sending)
      BY <1>6, <2>1, ScheduleIs
    <2>3. SpinInv'
      BY <1>6, <2>2 DEF SpinInv
    <2>4. Goes(tab, tab', {}) /\ Has(tab') = Has(tab)
      BY <1>6, <2>2, GoesOn
    <2> QED BY <1>4, <1>6, <2>2, <2>3, <2>4
  <1>7. CASE CheckAlive
    <2> DEFINE s == Cancelled(tab)
    <2>1. tab' = ScheduleResume([s EXCEPT !.live = FALSE]) /\ UNCHANGED hubVars
      BY <1>7 DEF CheckAlive
    <2>2. WireInv' /\ current' = None
      BY <1>7, AbortWire DEF CheckAlive
    <2>3. /\ Good(s) /\ Has(s) = Has(tab) /\ Goes(tab, s, {})
          /\ s.sending = tab.sending /\ s.active = tab.active /\ s.timer = tab.timer
      BY <1>1, CancelledIs
    <2> HIDE DEF s
    <2> QED BY <1>6, <2>1, <2>2, <2>3
  <1>8. CASE \E c \in Conns : TransportEnds(c)
    <2>1. tab' = ScheduleResume([tab EXCEPT !.live = FALSE]) /\ UNCHANGED hubVars
      BY <1>8 DEF TransportEnds
    <2>2. WireInv' /\ current' = None
      BY <1>8, TransportEndsWire
    <2>3. Has(tab) = Has(tab) /\ Goes(tab, tab, {})
      BY DEF Goes
    <2> QED BY <1>1, <1>6, <2>1, <2>2, <2>3
  <1> QED BY <1>2, <1>3, <1>5, <1>7, <1>8

LEMMA NextScreen ==
    ASSUME ScreenInv, [Next]_vars
    PROVE  /\ ScreenInv'
           /\ tab.sending => \A t \in Turns : Keeps(t) \/ ReplaysAnother(t)
PROOF
  <1>1. IInv' /\ HubInv' /\ conns' \in [Conns -> Conn] /\ HubStep
    BY NextIInv, NextHub, NextTyped, NextHubStep DEF ScreenInv
  <1>2. TabInv /\ SpinInv /\ HubInv
    BY DEF ScreenInv
  <1> SUFFICES /\ TabInv' /\ WireInv' /\ SpinInv'
               /\ tab.sending => \A t \in Turns : Keeps(t) \/ ReplaysAnother(t)
    BY <1>1 DEF ScreenInv
  <1>3. ASSUME WireInv', UNCHANGED <<tab, current>>
        PROVE  /\ TabInv' /\ WireInv' /\ SpinInv'
               /\ tab.sending => \A t \in Turns : Keeps(t) \/ ReplaysAnother(t)
    <2>1. TabInv' /\ SpinInv'
      BY <1>1, <1>2, <1>3, TabKept DEF SpinInv
    <2>2. Good(tab) /\ Good(tab') /\ Goes(tab, tab', {})
      BY <1>2, <1>3 DEF TabInv, Goes
    <2> QED BY <1>3, <2>1, <2>2, QuietKeeps
  <1>4. CASE ForeignPost \/ Expire \/ Restart \/ Break \/ Silence \/ UNCHANGED vars
    <2>1. CASE ForeignPost
      BY <1>1, <1>3, <2>1, ForeignPostWire DEF ForeignPost
    <2>2. CASE Expire
      <3>1. record' = None /\ UNCHANGED <<subs, conns, tab, current>>
        BY <2>2 DEF Expire
      <3> QED BY <1>1, <1>3, <3>1, SameConnsWire
    <2>3. CASE Restart
      BY <1>1, <1>3, <2>3, RestartWire DEF Restart
    <2>4. CASE Break \/ Silence
      BY <1>1, <1>3, <2>4, CutWire DEF Break, Silence, Cut
    <2>5. CASE UNCHANGED vars
      <3>1. UNCHANGED <<record, log, subs, conns, tab, current>>
        BY <2>5 DEF vars, hubVars
      <3> QED BY <1>1, <1>3, <3>1, SameConnsWire
    <2> QED BY <1>4, <2>1, <2>2, <2>3, <2>4, <2>5
  <1>5. ASSUME NEW c \in Conns, HandlePost(c) \/ HandleGet(c) \/ Forget(c)
        PROVE  WireInv' /\ UNCHANGED <<tab, current>>
    BY <1>1, <1>5, HandlePostWire, HandleGetWire, ForgetWire DEF HandlePost, HandleGet, Forget
  <1>6. ASSUME NEW t \in Turns, EndTurn(t)
        PROVE  WireInv' /\ UNCHANGED <<tab, current>>
    BY <1>1, <1>6, EndTurnWire DEF EndTurn
  <1>7. ASSUME NEW t \in Turns, NEW k \in Kinds, PublishUnseen(t, k)
        PROVE  WireInv' /\ UNCHANGED <<tab, current>>
    <2>1. UNCHANGED <<record, log, subs, conns, tab, current>>
      BY <1>7 DEF PublishUnseen
    <2> QED BY <1>1, <2>1, SameConnsWire
  <1>8. ASSUME NEW k \in Kinds, Publish(k)
        PROVE  WireInv' /\ UNCHANGED <<tab, current>>
    BY <1>1, <1>8, PublishWire DEF Publish
  <1>9. CASE Send \/ Steer \/ Flush \/ Probe \/ Retry \/ Online \/ CheckAlive
               \/ \E c \in Conns : TransportEnds(c)
    BY <1>1, <1>9, SessionScreen
  <1>10. ASSUME NEW c \in Conns, Deliver(c)
         PROVE  /\ TabInv' /\ WireInv' /\ SpinInv'
                /\ \A t \in Turns : Keeps(t) \/ ReplaysAnother(t)
    BY <1>10, DeliverScreen
  <1> QED BY <1>3, <1>4, <1>5, <1>6, <1>7, <1>8, <1>9, <1>10 DEF Next

LEMMA ScreenInvariant == Spec => []ScreenInv
PROOF
  <1>1. Init => ScreenInv
    BY InitScreen
  <1>2. ScreenInv /\ [Next]_vars => ScreenInv'
    BY NextScreen
  <1> QED BY <1>1, <1>2, PTL DEF Spec

\* Every variable has its type: the events of a log are numbered within its
\* bound, the attempts of a tab stay within theirs, a tab that begins a turn has
\* no other open, and no more is on screen of a bubble than it has.
THEOREM ScreenTyped == Spec => []TypeOK
PROOF
  <1>1. ScreenInv => TypeOK
    <2> SUFFICES ASSUME ScreenInv PROVE TypeOK
      OBVIOUS
    <2>1. /\ subs \in [Turns -> SUBSET Conns] /\ current \in Conns \cup {None}
          /\ conns \in [Conns -> Conn] /\ tab \in Tab /\ tab.shown <= Len(tab.bubble)
      BY DEF ScreenInv, IInv, Types, TabInv, Good
    <2>2. /\ record \in Turns \cup {None} /\ stage \in [Turns -> Stages]
          /\ log \in Seq(Event) /\ Len(log) <= MaxLog /\ \A i \in DOMAIN log : log[i].turn = record
          /\ overflowed \in BOOLEAN /\ faults \in 0..MaxFaults
      BY DEF ScreenInv, HubInv
    <2>3. \A e \in Range(log) : e.turn = record
      BY <2>2 DEF Range
    <2> QED BY <2>1, <2>2, <2>3 DEF TypeOK
  <1> QED BY <1>1, ScreenInvariant, PTL

\* A tab that spins has a live transport or the timer of the next attempt, and
\* not both: whatever ends a transport schedules an attempt or ends the turn.
THEOREM SpinnersHaveCause == Spec => []SpinnerHasCause
PROOF
  <1>1. ScreenInv => SpinnerHasCause
    <2> SUFFICES ASSUME ScreenInv PROVE SpinnerHasCause
      OBVIOUS
    <2>1. tab.timer \in BOOLEAN /\ tab.live \in BOOLEAN
      BY DEF ScreenInv, TabInv, Good, Tab
    <2>2. SpinInv
      BY DEF ScreenInv
    <2>3. CASE tab.timer
      BY <2>1, <2>2, <2>3 DEF SpinInv, SpinnerHasCause
    <2>4. CASE ~tab.timer
      BY <2>1, <2>2, <2>4 DEF SpinInv, SpinnerHasCause
    <2> QED BY <2>3, <2>4
  <1> QED BY <1>1, ScreenInvariant, PTL

\* What the tab shows of a turn is in the order of the turn's stream, once each,
\* and a piece that is missing before one on screen is among those the tab cut
\* off itself (at a steer, a message, an abort or the end of a stopped turn),
\* over any number of turns, connections and faults.
THEOREM ScreenShowsTheStream == Spec => []ShowsTheStream
PROOF
  <1>1. ScreenInv => ShowsTheStream
    <2> SUFFICES ASSUME ScreenInv PROVE ShowsTheStream
      OBVIOUS
    <2>1. Good(tab) /\ Has(tab) = On(tab) \cup Unshown(tab)
          /\ \A e \in Has(tab) : e \in Piece
      BY PiecesOfTab DEF ScreenInv, TabInv
    <2>2. /\ Ordered(Shown(tab))
          /\ \A e \in On(tab), f \in Unshown(tab) : e[1] = f[1] => e[2] < f[2]
      BY <2>1, ScreenFirst
    <2>3. ASSUME NEW e \in On(tab), NEW m \in 1..(e[2] - 1)
          PROVE  <<e[1], m>> \in On(tab) \cup tab.cut
      <3>1. <<e[1], m>> \in Has(tab) \cup tab.cut
        BY <2>1 DEF Good, Complete
      <3>2. e[2] \in Nat
        BY <2>1, PieceIs
      <3>3. <<e[1], m>> \notin Unshown(tab)
        <4>1. <<e[1], m>>[1] = e[1] /\ <<e[1], m>>[2] = m /\ ~(e[2] < m)
          BY <3>2
        <4> QED BY <2>2, <4>1
      <3> QED BY <2>1, <3>1, <3>3
    <2> QED BY <2>2, <2>3 DEF ShowsTheStream, Ordered, On
  <1> QED BY <1>1, ScreenInvariant, PTL

\* While a tab waits for a reply, no step takes back what is on screen of a
\* turn, but the replay of another turn: a baseline has all that any connection
\* has delivered of its turn. What is due and is not shown was cut off, and what
\* comes on screen late comes after what is there, unless it had been cut off.
THEOREM NothingIsTakenBack == Spec => NothingTakenBack
PROOF
  <1>1. ScreenInv /\ [Next]_vars =>
          [tab.sending => \A t \in Turns : Keeps(t) \/ ReplaysAnother(t)]_tab
    BY NextScreen
  <1> QED BY <1>1, ScreenInvariant, PTL DEF Spec, NothingTakenBack

\* What is on its way continues what the tab has: the frames of the current
\* connection are events of one turn in order and without a gap, the first of
\* them, or the first after the baseline's, the next one the tab is ready for
\* (all before it is in a bubble or was cut off), and whoever is subscribed gets
\* the log to its end. No other connection has a frame left (attach subscribes
\* in the step of its baseline, and an abort drops what is under way).
THEOREM FramesContinueScreen == Spec => [](TabInv /\ WireInv)
PROOF
  <1>1. ScreenInv => TabInv /\ WireInv
    BY DEF ScreenInv
  <1> QED BY <1>1, ScreenInvariant, PTL
=============================================================================
