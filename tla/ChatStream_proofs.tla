-------------------------- MODULE ChatStream_proofs --------------------------
(***************************************************************************)
(* Proofs about ChatStream: no follower of a reply is left on a connection *)
(* that nothing feeds, whatever the turns, the connections and the faults. *)
(***************************************************************************)
EXTENDS ChatStream, TLAPS

\* What the argument needs of the types.
Types ==
    /\ record \in Turns \cup {None} /\ stage \in [Turns -> Stages]
    /\ subs \in [Turns -> SUBSET Conns]
    /\ DOMAIN conns = Conns
    /\ \A c \in Conns : {"stage", "kind", "turn", "wire"} \subseteq DOMAIN conns[c]
    /\ current \in Conns \cup {None}

\* Of the connections a tab has left, only a POST on its way remains.
OnlyCurrent == \A c \in Conns : c # current => conns[c].stage = "free" \/ c \in Posts

\* A subscriber is the tab's current connection, which the server takes for
\* open and, when it is that of a POST, opened for the subscribed turn.
Subscribed ==
    \A c \in Conns, t \in Turns : c \in subs[t] =>
        /\ c = current /\ conns[c].stage \in {"open", "silent"}
        /\ conns[c].turn \in {None, t}

IInv == Types /\ OnlyCurrent /\ Subscribed /\ FollowersAreFed

LEMMA InitIInv == Init => IInv
PROOF BY NoneAssumption DEF Init, IInv, Types, OnlyCurrent, Subscribed, FollowersAreFed, Free, Stages

----------------------------------------------------------------------------
(* Steps that let go of the transport, or replace it *)

LEMMA NothingSubscribed ==
    ASSUME IInv, NEW t \in Turns, NEW c \in Conns
    PROVE  c \notin Detached[t]
PROOF BY DEF IInv, Subscribed, Detached

LEMMA AbortStep ==
    ASSUME IInv, Abort, UNCHANGED hubVars
    PROVE  IInv'
PROOF
  <1> DEFINE A == Aborted
  <1>1. /\ current' = None /\ conns' = A /\ subs' = Detached
        /\ record' = record /\ stage' = stage
    BY DEF Abort, hubVars
  <1>2. ASSUME NEW c \in Conns
        PROVE  /\ {"stage", "kind", "turn", "wire"} \subseteq DOMAIN A[c]
               /\ A[c].stage = "free" \/ (A[c] = conns[c] /\ c \in Posts)
    BY <1>2 DEF IInv, Types, OnlyCurrent, Aborted, Free
  <1>3. Detached \in [Turns -> SUBSET Conns] /\ DOMAIN A = Conns
    BY DEF IInv, Types, Detached, Aborted
  <1> HIDE DEF A
  <1>4. Types'
    BY <1>1, <1>2, <1>3 DEF IInv, Types
  <1>5. \A c \in Conns : A[c].stage = "free" \/ c \in Posts'
    BY <1>1, <1>2 DEF Posts
  <1>6. OnlyCurrent'
    BY <1>1, <1>5 DEF OnlyCurrent
  <1>7. Subscribed'
    BY <1>1, NothingSubscribed DEF Subscribed
  <1>8. FollowersAreFed'
    BY <1>1, <1>2, NothingSubscribed DEF FollowersAreFed, Posts
  <1> QED BY <1>4, <1>6, <1>7, <1>8 DEF IInv

LEMMA OpenStep ==
    ASSUME IInv, NEW kind, Open(kind), UNCHANGED hubVars
    PROVE  IInv'
PROOF
  <1> DEFINE A == Aborted
             N == [Free EXCEPT !.stage = "asked", !.kind = kind]
  <1>1. PICK n \in Conns : n = current' /\ conns' = [A EXCEPT ![n] = N]
    BY DEF Open
  <1>2. subs' = Detached /\ record' = record /\ stage' = stage
    BY DEF Open, hubVars
  <1>3. {"stage", "kind", "turn", "wire"} \subseteq DOMAIN N /\ N.stage = "asked"
    BY DEF Free
  <1>4. ASSUME NEW c \in Conns
        PROVE  /\ {"stage", "kind", "turn", "wire"} \subseteq DOMAIN A[c]
               /\ A[c].stage = "free" \/ (A[c] = conns[c] /\ c \in Posts)
    BY <1>4 DEF IInv, Types, OnlyCurrent, Aborted, Free
  <1>5. Detached \in [Turns -> SUBSET Conns] /\ DOMAIN A = Conns
    BY DEF IInv, Types, Detached, Aborted
  <1> HIDE DEF A, N
  <1>6. \A c \in Conns : conns'[c] = IF c = n THEN N ELSE A[c]
    BY <1>1, <1>5
  <1>7. Types'
    BY <1>1, <1>2, <1>3, <1>4, <1>5, <1>6 DEF IInv, Types
  <1>8. OnlyCurrent'
    BY <1>1, <1>4, <1>6 DEF OnlyCurrent, Posts
  <1>9. Subscribed'
    BY <1>2, NothingSubscribed DEF Subscribed
  <1>10. FollowersAreFed'
    BY <1>2, <1>3, <1>4, <1>6, NothingSubscribed DEF FollowersAreFed, Posts
  <1> QED BY <1>7, <1>8, <1>9, <1>10 DEF IInv

----------------------------------------------------------------------------
(* Steps of the hub and its routes *)

\* The responses that close are those of the subscribers let go.
LEMMA ClosedIs ==
    ASSUME IInv, NEW S, NEW c \in Conns
    PROVE  /\ DOMAIN Closed(conns, S) = Conns
           /\ {"stage", "kind", "turn", "wire"} \subseteq DOMAIN Closed(conns, S)[c]
           /\ Closed(conns, S)[c].kind = conns[c].kind
           /\ Closed(conns, S)[c].turn = conns[c].turn
           /\ Closed(conns, S)[c].stage =
                IF c \in S /\ conns[c].kind # "post" /\ conns[c].stage = "open"
                THEN "ended" ELSE conns[c].stage
PROOF BY DEF IInv, Types, Closed

LEMMA BeginStep ==
    ASSUME IInv, NEW t \in Turns, NEW own \in SUBSET Conns, Begin(t, own), current' = current,
           DOMAIN conns' = Conns,
           \A c \in Conns :
             /\ {"stage", "kind", "turn", "wire"} \subseteq DOMAIN conns'[c]
             /\ \/ /\ conns'[c].stage = Closed(conns, Displaced)[c].stage
                   /\ conns'[c].kind = Closed(conns, Displaced)[c].kind
                   /\ c \notin own
                \/ conns'[c].stage = "free"  /\ c \notin own
                \/ /\ conns'[c].stage = "open" /\ conns'[c].kind = "post"
                   /\ conns'[c].turn = t /\ c = current
    PROVE  IInv'
PROOF
  <1>1. /\ record' = t /\ stage[t] = "unused" /\ stage' = [stage EXCEPT ![t] = "begun"]
        /\ subs' = [u \in Turns |-> IF u = t THEN own ELSE subs[u] \ Displaced]
    BY DEF Begin, Unused
  <1>2. \A u \in Turns, c \in Conns : c \in subs[u] => u = record /\ c \in Displaced
    BY NoneAssumption DEF IInv, FollowersAreFed, Displaced
  <1>3. Live(t)'
    BY <1>1 DEF Live, IInv, Types
  <1>4. \A u \in Turns, c \in Conns : c \in subs'[u] => u = t /\ c \in own
    BY <1>1, <1>2
  <1>5. Types'
    BY <1>1 DEF IInv, Types, Stages
  <1>6. \A c \in Conns : c # current => Closed(conns, Displaced)[c].stage = conns[c].stage
                                      /\ Closed(conns, Displaced)[c].kind = conns[c].kind
    BY ClosedIs DEF IInv, OnlyCurrent, Posts
  <1>7. OnlyCurrent'
    BY <1>6 DEF IInv, OnlyCurrent, Posts
  <1>8. Subscribed'
    BY <1>4 DEF Subscribed
  <1>9. ASSUME NEW c \in Conns, conns'[c].stage = "open", conns'[c].kind # "post"
        PROVE  FALSE
    <2>1. /\ conns[c].stage = "open" /\ conns[c].kind # "post" /\ c \notin Displaced
      BY <1>9, ClosedIs
    <2> QED BY <2>1 DEF IInv, FollowersAreFed, Displaced
  <1>10. FollowersAreFed'
    BY <1>1, <1>3, <1>4, <1>9 DEF FollowersAreFed
  <1> QED BY <1>5, <1>7, <1>8, <1>10 DEF IInv

LEMMA HandlePostStep ==
    ASSUME IInv, NEW c \in Conns, HandlePost(c)
    PROVE  IInv'
PROOF
  <1> DEFINE D == Closed(conns, Displaced)
  <1>1. PICK t \in Turns :
          /\ Begin(t, {c} \cap {current})
          /\ conns' = [D EXCEPT ![c] = IF c = current
                                       THEN [D[c] EXCEPT !.stage = "open", !.turn = t]
                                       ELSE Free]
    BY DEF HandlePost
  <1>2. c \in Posts /\ current' = current
    BY DEF HandlePost
  <1>3. DOMAIN D = Conns /\ {"stage", "kind", "turn", "wire"} \subseteq DOMAIN D[c]
        /\ D[c].kind = "post"
    BY <1>2, ClosedIs DEF Posts
  <1>4. \A b \in Conns : {"stage", "kind", "turn", "wire"} \subseteq DOMAIN D[b]
    BY ClosedIs
  <1> HIDE DEF D
  <1>5. DOMAIN conns' = Conns /\ \A b \in Conns : b # c => conns'[b] = D[b]
    BY <1>1, <1>3
  <1>6. CASE c = current
    <2>1. conns'[c] = [D[c] EXCEPT !.stage = "open", !.turn = t]
      BY <1>1, <1>3, <1>6
    <2>2. /\ conns'[c].stage = "open" /\ conns'[c].kind = "post" /\ conns'[c].turn = t
          /\ {"stage", "kind", "turn", "wire"} \subseteq DOMAIN conns'[c]
      BY <2>1, <1>3
    <2> QED BY <1>1, <1>2, <1>4, <1>5, <1>6, <2>2, BeginStep DEF D
  <1>7. CASE c # current
    <2>1. conns'[c] = Free
      BY <1>1, <1>3, <1>7
    <2>2. /\ conns'[c].stage = "free"
          /\ {"stage", "kind", "turn", "wire"} \subseteq DOMAIN conns'[c]
      BY <2>1 DEF Free
    <2> QED BY <1>1, <1>2, <1>4, <1>5, <1>7, <2>2, BeginStep DEF D
  <1> QED BY <1>6, <1>7

LEMMA ForeignPostStep ==
    ASSUME IInv, ForeignPost
    PROVE  IInv'
PROOF
  <1>1. PICK t \in Turns : Begin(t, {})
    BY DEF ForeignPost
  <1>2. conns' = Closed(conns, Displaced) /\ current' = current
    BY DEF ForeignPost
  <1> DEFINE D == Closed(conns, Displaced)
  <1>3. DOMAIN D = Conns /\ \A c \in Conns : {"stage", "kind", "turn", "wire"} \subseteq DOMAIN D[c]
    BY ClosedIs DEF IInv, Types, Closed
  <1> HIDE DEF D
  <1> QED BY <1>1, <1>2, <1>3, BeginStep DEF D

\* What a step that leaves the record, the turns and the transport in place
\* and sends or ends the response of one subscriber at most must see to.
LEMMA AnswerStep ==
    ASSUME IInv, NEW c \in Conns, NEW frame, c \in Gets, Answer(c, frame),
           UNCHANGED <<hubVars, current>>
    PROVE  IInv'
PROOF
  <1> DEFINE N == [Free EXCEPT !.stage = "ended", !.kind = "attach", !.wire = <<frame>>]
  <1>1. /\ conns' = [conns EXCEPT ![c] = N] /\ subs' = subs /\ record' = record
        /\ stage' = stage /\ current' = current
    BY DEF Answer, hubVars
  <1>2. N.stage = "ended" /\ {"stage", "kind", "turn", "wire"} \subseteq DOMAIN N
    BY DEF Free
  <1>3. c = current /\ conns[c].stage = "asked"
    BY DEF IInv, OnlyCurrent, Gets
  <1> HIDE DEF N
  <1>4. DOMAIN conns' = Conns /\ \A b \in Conns : conns'[b] = IF b = c THEN N ELSE conns[b]
    BY <1>1 DEF IInv, Types
  <1>5. Types'
    BY <1>1, <1>2, <1>4 DEF IInv, Types
  <1>6. OnlyCurrent'
    BY <1>1, <1>3, <1>4 DEF IInv, OnlyCurrent, Posts
  <1>7. Subscribed'
    BY <1>1, <1>3, <1>4 DEF IInv, Subscribed
  <1>8. FollowersAreFed'
    BY <1>1, <1>2, <1>4 DEF IInv, FollowersAreFed, Live
  <1> QED BY <1>5, <1>6, <1>7, <1>8 DEF IInv

LEMMA FollowStep ==
    ASSUME IInv, NEW c \in Conns, c \in Gets, record # None, Live(record), Follow(c),
           UNCHANGED <<hubVars, current>>
    PROVE  IInv'
PROOF
  <1> DEFINE N == [Free EXCEPT !.stage = "open", !.kind = "attach", !.wire = <<Baseline>>]
  <1>1. /\ conns' = [conns EXCEPT ![c] = N] /\ subs' = [subs EXCEPT ![record] = @ \cup {c}]
        /\ record' = record /\ stage' = stage /\ current' = current
    BY DEF Follow, hubVars
  <1>2. /\ N.stage = "open" /\ N.turn = None /\ N.kind = "attach"
        /\ {"stage", "kind", "turn", "wire"} \subseteq DOMAIN N
    BY DEF Free
  <1>3. c = current /\ conns[c].stage = "asked" /\ record \in Turns
    BY DEF IInv, OnlyCurrent, Gets, Types
  <1> HIDE DEF N
  <1>4. DOMAIN conns' = Conns /\ \A b \in Conns : conns'[b] = IF b = c THEN N ELSE conns[b]
    BY <1>1 DEF IInv, Types
  <1>5. \A t \in Turns : subs'[t] = IF t = record THEN subs[t] \cup {c} ELSE subs[t]
    BY <1>1, <1>3 DEF IInv, Types
  <1>6. Types'
    BY <1>1, <1>2, <1>3, <1>4 DEF IInv, Types
  <1>7. OnlyCurrent'
    BY <1>1, <1>3, <1>4 DEF IInv, OnlyCurrent, Posts
  <1>8. Subscribed'
    BY <1>1, <1>2, <1>3, <1>4, <1>5 DEF IInv, Subscribed
  <1>9. FollowersAreFed'
    BY <1>1, <1>2, <1>3, <1>4, <1>5 DEF IInv, FollowersAreFed, Live
  <1> QED BY <1>6, <1>7, <1>8, <1>9 DEF IInv

LEMMA HandleGetStep ==
    ASSUME IInv, NEW c \in Conns, HandleGet(c)
    PROVE  IInv'
PROOF
  <1>1. c \in Gets /\ Attach(c) /\ UNCHANGED <<hubVars, current>>
    BY DEF HandleGet
  <1>2. \/ \E frame : Answer(c, frame)
        \/ record # None /\ Live(record) /\ Follow(c)
    BY <1>1 DEF Attach
  <1> QED BY <1>1, <1>2, AnswerStep, FollowStep

\* What a subscriber is sent changes nothing but its wire.
LEMMA SentIs ==
    ASSUME IInv, NEW S, NEW frame, NEW gone, NEW c \in Conns
    PROVE  LET C == Closed(Sent(conns, S, frame), gone) IN
           /\ DOMAIN C = Conns
           /\ {"stage", "kind", "turn", "wire"} \subseteq DOMAIN C[c]
           /\ C[c].kind = conns[c].kind /\ C[c].turn = conns[c].turn
           /\ C[c].stage = IF c \in gone /\ conns[c].kind # "post" /\ conns[c].stage = "open"
                           THEN "ended" ELSE conns[c].stage
PROOF
  <1> DEFINE B == Sent(conns, S, frame)
  <1>1. /\ {"stage", "kind", "turn", "wire"} \subseteq DOMAIN B[c]
        /\ B[c].kind = conns[c].kind /\ B[c].turn = conns[c].turn
        /\ B[c].stage = conns[c].stage
    BY DEF Sent, IInv, Types
  <1> HIDE DEF B
  <1> QED BY <1>1 DEF Closed, B

\* A step that moves no connection but ends responses, of subscribers let go
\* of or of a turn that is over, and keeps the record fed.
LEMMA EndingStep ==
    ASSUME IInv, UNCHANGED <<record, current>>, stage' \in [Turns -> Stages],
           DOMAIN conns' = Conns,
           \A c \in Conns :
             /\ {"stage", "kind", "turn", "wire"} \subseteq DOMAIN conns'[c]
             /\ conns'[c].kind = conns[c].kind /\ conns'[c].turn = conns[c].turn
             /\ \/ conns'[c].stage = conns[c].stage
                \/ conns[c].stage = "open" /\ conns'[c].stage = "ended",
           subs' \in [Turns -> SUBSET Conns],
           \A t \in Turns, c \in Conns : c \in subs'[t] =>
             c \in subs[t] /\ Live(t)' /\ conns'[c].stage = conns[c].stage,
           \A c \in Conns : conns'[c].stage = "open" /\ conns'[c].kind # "post" /\ record # None
             => c \in subs'[record]
    PROVE  IInv'
PROOF
  <1>1. Types'
    BY DEF IInv, Types
  <1>2. OnlyCurrent'
    BY DEF IInv, OnlyCurrent, Posts
  <1>3. Subscribed'
    BY DEF IInv, Subscribed
  <1>4. \A c \in Conns : conns'[c].stage = "open" => conns[c].stage = "open"
    OBVIOUS
  <1>5. \A c \in Conns, t \in Turns : c \in subs'[t] => record' = t /\ Live(t)'
    BY DEF IInv, FollowersAreFed
  <1>6. \A c \in Conns : conns'[c].stage = "open" /\ conns'[c].kind # "post" =>
          record' # None /\ Live(record)' /\ c \in subs'[record']
    BY <1>4, <1>5 DEF IInv, FollowersAreFed, Types
  <1>7. FollowersAreFed'
    BY <1>5, <1>6 DEF FollowersAreFed
  <1> QED BY <1>1, <1>2, <1>3, <1>7 DEF IInv

LEMMA PublishStep ==
    ASSUME IInv, NEW kind \in Kinds, Publish(kind)
    PROVE  IInv'
PROOF
  <1>1. /\ record # None /\ Live(record) /\ record' = record /\ current' = current
        /\ stage' = AfterEvent(record, kind)
    BY DEF Publish, MayPublish
  <1>2. PICK slow \in SUBSET subs[record] :
          LET gone == IF kind \in Terminal THEN subs[record] ELSE slow IN
          /\ conns' = Closed(Sent(conns, subs[record] \ slow, Numbered(record, kind)), gone)
          /\ subs' = [subs EXCEPT ![record] = @ \ gone]
    BY DEF Publish
  <1> DEFINE gone == IF kind \in Terminal THEN subs[record] ELSE slow
  <1>3. record \in Turns
    BY <1>1 DEF IInv, Types
  <1>4. stage' \in [Turns -> Stages] /\ (kind \notin Terminal => Live(record)')
    BY <1>1, <1>3 DEF IInv, Types, AfterEvent, Live, Stages
  <1>5. subs' \in [Turns -> SUBSET Conns]
        /\ \A t \in Turns : subs'[t] = IF t = record THEN subs[t] \ gone ELSE subs[t]
    BY <1>2, <1>3 DEF IInv, Types
  <1>6. \A c \in Conns :
          /\ {"stage", "kind", "turn", "wire"} \subseteq DOMAIN conns'[c]
          /\ conns'[c].kind = conns[c].kind /\ conns'[c].turn = conns[c].turn
          /\ conns'[c].stage = IF c \in gone /\ conns[c].kind # "post" /\ conns[c].stage = "open"
                               THEN "ended" ELSE conns[c].stage
    BY <1>2, SentIs
  <1>7. DOMAIN conns' = Conns
    BY <1>2 DEF Closed
  <1>8. \A t \in Turns, c \in Conns : c \in subs'[t] =>
          t = record /\ c \in subs[t] /\ c \notin gone /\ kind \notin Terminal
    BY <1>2, <1>5 DEF IInv, FollowersAreFed
  <1>9. \A t \in Turns, c \in Conns : c \in subs'[t] =>
          c \in subs[t] /\ Live(t)' /\ conns'[c].stage = conns[c].stage
    BY <1>1, <1>4, <1>6, <1>8 DEF Live
  <1>10. \A c \in Conns : conns'[c].stage = "open" /\ conns'[c].kind # "post"
           => c \in subs[record] /\ c \notin gone
    BY <1>6 DEF IInv, FollowersAreFed
  <1>11. \A c \in Conns : conns'[c].stage = "open" /\ conns'[c].kind # "post"
           => c \in subs'[record]
    BY <1>3, <1>5, <1>10
  <1>12. \A c \in Conns : \/ conns'[c].stage = conns[c].stage
                          \/ conns[c].stage = "open" /\ conns'[c].stage = "ended"
    BY <1>6
  <1>13. stage' \in [Turns -> Stages] /\ subs' \in [Turns -> SUBSET Conns]
    BY <1>4, <1>5
  <1>14. \A c \in Conns : /\ {"stage", "kind", "turn", "wire"} \subseteq DOMAIN conns'[c]
                          /\ conns'[c].kind = conns[c].kind /\ conns'[c].turn = conns[c].turn
    BY <1>6
  <1>15. UNCHANGED <<record, current>>
    BY <1>1
  <1> QED BY <1>7, <1>9, <1>11, <1>12, <1>13, <1>14, <1>15, EndingStep

LEMMA PublishUnseenStep ==
    ASSUME IInv, NEW t \in Turns, NEW kind \in Kinds, PublishUnseen(t, kind)
    PROVE  IInv'
PROOF
  <1>1. /\ t # record /\ UNCHANGED <<record, subs, conns, current>>
        /\ stage' = AfterEvent(t, kind)
    BY DEF PublishUnseen
  <1>2. stage' \in [Turns -> Stages] /\ \A u \in Turns : u # t => Live(u)' = Live(u)
    BY <1>1 DEF IInv, Types, AfterEvent, Live, Stages
  <1>3. \A u \in Turns, c \in Conns : c \in subs[u] => u # t /\ Live(u)
    BY <1>1 DEF IInv, FollowersAreFed
  <1> QED BY <1>1, <1>2, <1>3, EndingStep DEF IInv, Types, FollowersAreFed

LEMMA EndTurnStep ==
    ASSUME IInv, NEW t \in Turns, EndTurn(t)
    PROVE  IInv'
PROOF
  <1>1. /\ UNCHANGED <<record, subs, current>> /\ ~Live(t)
        /\ stage' = [stage EXCEPT ![t] = "over"]
    BY DEF EndTurn, Live
  <1>2. ASSUME NEW c \in Conns
        PROVE  /\ {"stage", "kind", "turn", "wire"} \subseteq DOMAIN conns'[c]
               /\ conns'[c].kind = conns[c].kind /\ conns'[c].turn = conns[c].turn
               /\ conns'[c].stage = IF conns[c].turn = t /\ conns[c].stage = "open"
                                    THEN "ended" ELSE conns[c].stage
    BY DEF EndTurn, IInv, Types
  <1>3. stage' \in [Turns -> Stages] /\ \A u \in Turns : u # t => Live(u)' = Live(u)
    BY <1>1 DEF IInv, Types, Live, Stages
  <1>4. \A u \in Turns, c \in Conns : c \in subs[u] => u # t /\ Live(u) /\ conns[c].turn # t
    BY <1>1, NoneAssumption DEF IInv, FollowersAreFed, Subscribed
  <1>5. \A c \in Conns : conns'[c].stage = "open" => conns[c].stage = "open"
    BY <1>2
  <1>6. DOMAIN conns' = Conns
    BY DEF EndTurn
  <1>7. \A c \in Conns : conns'[c].stage = "open" /\ conns'[c].kind # "post"
          => c \in subs'[record]
    BY <1>1, <1>2, <1>5 DEF IInv, FollowersAreFed
  <1>8. subs' \in [Turns -> SUBSET Conns]
    BY <1>1 DEF IInv, Types
  <1>9. \A u \in Turns, c \in Conns : c \in subs'[u] =>
          c \in subs[u] /\ Live(u)' /\ conns'[c].stage = conns[c].stage
    BY <1>1, <1>2, <1>3, <1>4
  <1> QED BY <1>1, <1>2, <1>3, <1>6, <1>7, <1>8, <1>9, EndingStep

LEMMA ExpireStep ==
    ASSUME IInv, Expire
    PROVE  IInv'
PROOF
  <1>1. record # None /\ ~Live(record) /\ record' = None
        /\ UNCHANGED <<stage, subs, conns, current>>
    BY DEF Expire
  <1>2. Types' /\ OnlyCurrent' /\ Subscribed'
    BY <1>1 DEF IInv, Types, OnlyCurrent, Posts, Subscribed
  <1>3. FollowersAreFed'
    BY <1>1 DEF IInv, FollowersAreFed
  <1> QED BY <1>2, <1>3 DEF IInv

----------------------------------------------------------------------------
(* Faults, and the ends of connections *)

\* Of the tab's connections only the current one can be cut, refused or read.
LEMMA RestartStep ==
    ASSUME IInv, Restart
    PROVE  IInv'
PROOF
  <1>1. /\ record' = None /\ current' = current
        /\ subs' = [t \in Turns |-> {}]
        /\ stage' = [t \in Turns |-> IF stage[t] = "unused" THEN "unused" ELSE "over"]
    BY DEF Restart
  <1> DEFINE B(c) == [conns[c] EXCEPT !.stage = "broken", !.wire = <<>>]
  <1>2. conns' = [c \in Conns |-> IF c # current THEN Free
                                  ELSE IF conns[c].stage \in {"asked", "open"} THEN B(c)
                                  ELSE conns[c]]
    BY DEF Restart
  <1>3. \A c \in Conns : /\ {"stage", "kind", "turn", "wire"} \subseteq DOMAIN B(c)
                         /\ B(c).stage = "broken"
    BY DEF IInv, Types
  <1>4. \A c \in Conns : {"stage", "kind", "turn", "wire"} \subseteq DOMAIN conns[c]
    BY DEF IInv, Types
  <1> HIDE DEF B
  <1>5. \A c \in Conns : /\ {"stage", "kind", "turn", "wire"} \subseteq DOMAIN conns'[c]
                         /\ conns'[c].stage # "open"
                         /\ c # current => conns'[c].stage = "free"
    BY <1>2, <1>3, <1>4 DEF Free
  <1>6. Types'
    BY <1>1, <1>2, <1>5 DEF IInv, Types, Stages
  <1>7. OnlyCurrent' /\ Subscribed' /\ FollowersAreFed'
    BY <1>1, <1>5 DEF OnlyCurrent, Subscribed, FollowersAreFed
  <1> QED BY <1>6, <1>7 DEF IInv

LEMMA CutIs ==
    ASSUME IInv, NEW how \in {"broken", "silent"}, Cut(how)
    PROVE  /\ UNCHANGED <<record, stage, current>> /\ current \in Conns
           /\ conns[current].stage \in {"asked", "open"}
           /\ DOMAIN conns' = Conns
           /\ {"stage", "kind", "turn", "wire"} \subseteq DOMAIN conns'[current]
           /\ conns'[current].stage = how /\ conns'[current].turn = conns[current].turn
           /\ \A c \in Conns : c # current => conns'[c] = conns[c]
PROOF
  <1> DEFINE N == [conns[current] EXCEPT !.stage = how, !.wire = <<>>]
  <1>1. /\ UNCHANGED <<record, stage, current>> /\ current \in Conns
        /\ conns[current].stage \in {"asked", "open"}
        /\ {"stage", "kind", "turn", "wire"} \subseteq DOMAIN conns[current]
    BY DEF Cut, hubVars, IInv, Types
  <1>2. conns' = [conns EXCEPT ![current] = N]
    BY <1>1 DEF Cut, IInv, Types
  <1>3. {"stage", "kind", "turn", "wire"} \subseteq DOMAIN N
        /\ N.stage = how /\ N.turn = conns[current].turn
    BY <1>1
  <1> HIDE DEF N
  <1> QED BY <1>1, <1>2, <1>3 DEF IInv, Types

LEMMA BreakStep ==
    ASSUME IInv, Break
    PROVE  IInv'
PROOF
  <1>1. Cut("broken") /\ subs' = Detached
    BY DEF Break
  <1>2. Types'
    BY <1>1, CutIs DEF IInv, Types, Detached
  <1>3. OnlyCurrent' /\ Subscribed'
    BY <1>1, CutIs, NothingSubscribed DEF IInv, OnlyCurrent, Subscribed, Posts
  <1>4. \A c \in Conns : conns'[c].stage = "open" =>
          c # current /\ conns[c].stage = "open"
    BY <1>1, CutIs
  <1>5. \A c \in Conns : conns'[c].stage # "open"
    BY <1>4 DEF IInv, OnlyCurrent, Posts
  <1>6. FollowersAreFed'
    BY <1>1, <1>5, NothingSubscribed DEF FollowersAreFed
  <1> QED BY <1>2, <1>3, <1>6 DEF IInv

LEMMA SilenceStep ==
    ASSUME IInv, Silence
    PROVE  IInv'
PROOF
  <1>1. Cut("silent") /\ subs' = subs
    BY DEF Silence
  <1>2. Types'
    BY <1>1, CutIs DEF IInv, Types
  <1>3. OnlyCurrent' /\ Subscribed'
    BY <1>1, CutIs DEF IInv, OnlyCurrent, Subscribed, Posts
  <1>4. \A c \in Conns : conns'[c].stage = "open" =>
          c # current /\ conns[c].stage = "open"
    BY <1>1, CutIs
  <1>5. \A c \in Conns : conns'[c].stage # "open"
    BY <1>4 DEF IInv, OnlyCurrent, Posts
  <1>6. record' = record /\ \A t \in Turns : Live(t)' = Live(t)
    BY <1>1, CutIs DEF Live
  <1>7. FollowersAreFed'
    BY <1>1, <1>5, <1>6 DEF IInv, FollowersAreFed
  <1> QED BY <1>2, <1>3, <1>7 DEF IInv

\* A connection that nobody is subscribed with is given up.
LEMMA FreedStep ==
    ASSUME IInv, NEW c \in Conns, UNCHANGED <<record, stage, subs>>,
           conns' = [conns EXCEPT ![c] = Free],
           \A t \in Turns : c \notin subs[t],
           current' = current \/ (current = c /\ current' = None)
    PROVE  IInv'
PROOF
  <1>1. {"stage", "kind", "turn", "wire"} \subseteq DOMAIN Free /\ Free.stage = "free"
    BY DEF Free
  <1>2. DOMAIN conns' = Conns /\ \A b \in Conns : conns'[b] = IF b = c THEN Free ELSE conns[b]
    BY DEF IInv, Types
  <1>3. Types'
    BY <1>1, <1>2 DEF IInv, Types
  <1>4. OnlyCurrent'
    BY <1>1, <1>2 DEF IInv, OnlyCurrent, Posts
  <1>5. Subscribed'
    BY <1>2 DEF IInv, Subscribed
  <1>6. \A t \in Turns : Live(t)' = Live(t)
    BY DEF Live
  <1>7. FollowersAreFed'
    BY <1>1, <1>2, <1>6 DEF IInv, FollowersAreFed, Types
  <1> QED BY <1>3, <1>4, <1>5, <1>7 DEF IInv

LEMMA ForgetStep ==
    ASSUME IInv, NEW c \in Conns, Forget(c)
    PROVE  IInv'
PROOF
  <1>1. c # current /\ conns' = [conns EXCEPT ![c] = Free]
        /\ UNCHANGED <<record, stage, subs, current>>
    BY DEF Forget, hubVars
  <1>2. \A t \in Turns : c \notin subs[t]
    BY <1>1 DEF IInv, Subscribed
  <1> QED BY <1>1, <1>2, FreedStep

LEMMA TransportEndsStep ==
    ASSUME IInv, NEW c \in Conns, TransportEnds(c)
    PROVE  IInv'
PROOF
  <1>1. /\ c = current /\ current' = None /\ conns' = [conns EXCEPT ![c] = Free]
        /\ UNCHANGED <<record, stage, subs>> /\ conns[c].stage \in {"ended", "broken"}
    BY DEF TransportEnds, hubVars
  <1>2. \A t \in Turns : c \notin subs[t]
    BY <1>1 DEF IInv, Subscribed
  <1> QED BY <1>1, <1>2, FreedStep

LEMMA DeliverStep ==
    ASSUME IInv, NEW c \in Conns, Deliver(c)
    PROVE  IInv'
PROOF
  <1>1. CASE Abort
    BY <1>1, AbortStep DEF Deliver
  <1>2. CASE conns' = [conns EXCEPT ![c].wire = Tail(@)] /\ UNCHANGED <<current, subs>>
    <2> DEFINE N == [conns[c] EXCEPT !.wire = Tail(@)]
    <2>1. /\ {"stage", "kind", "turn", "wire"} \subseteq DOMAIN N
          /\ N.stage = conns[c].stage /\ N.kind = conns[c].kind /\ N.turn = conns[c].turn
      BY DEF IInv, Types
    <2>2. conns' = [conns EXCEPT ![c] = N]
      BY <1>2 DEF IInv, Types
    <2> HIDE DEF N
    <2>3. /\ DOMAIN conns' = Conns
          /\ \A b \in Conns : /\ {"stage", "kind", "turn", "wire"} \subseteq DOMAIN conns'[b]
                              /\ conns'[b].stage = conns[b].stage
                              /\ conns'[b].kind = conns[b].kind
                              /\ conns'[b].turn = conns[b].turn
      BY <2>1, <2>2 DEF IInv, Types
    <2>4. UNCHANGED <<record, stage, subs, current>>
      BY <1>2 DEF Deliver, hubVars
    <2> QED BY <2>3, <2>4, EndingStep DEF IInv, Types, FollowersAreFed, Live
  <1> QED BY <1>1, <1>2 DEF Deliver

----------------------------------------------------------------------------
(* The theorem *)

LEMMA NextIInv == IInv /\ [Next]_vars => IInv'
PROOF
  <1> SUFFICES ASSUME IInv, [Next]_vars PROVE IInv'
    OBVIOUS
  <1>1. CASE Send
    BY <1>1, OpenStep DEF Send
  <1>2. CASE Steer \/ Flush
    BY <1>2 DEF Steer, Flush, hubVars, IInv, Types, OnlyCurrent, Subscribed, FollowersAreFed, Posts, Live
  <1>3. CASE Probe
    BY <1>3, OpenStep DEF Probe
  <1>4. CASE Retry
    BY <1>4, OpenStep DEF Retry
  <1>5. CASE Online
    BY <1>5, OpenStep DEF Online
  <1>6. CASE CheckAlive
    BY <1>6, AbortStep DEF CheckAlive
  <1>7. CASE ForeignPost \/ Expire \/ Restart \/ Break \/ Silence
    BY <1>7, ForeignPostStep, ExpireStep, RestartStep, BreakStep, SilenceStep
  <1>8. ASSUME NEW c \in Conns, HandlePost(c) \/ HandleGet(c) \/ Deliver(c)
                                \/ TransportEnds(c) \/ Forget(c)
        PROVE  IInv'
    BY <1>8, HandlePostStep, HandleGetStep, DeliverStep, TransportEndsStep, ForgetStep
  <1>9. ASSUME NEW t \in Turns, EndTurn(t) \/ \E k \in Kinds : PublishUnseen(t, k)
        PROVE  IInv'
    BY <1>9, EndTurnStep, PublishUnseenStep
  <1>10. ASSUME NEW k \in Kinds, Publish(k)
         PROVE  IInv'
    BY <1>10, PublishStep
  <1>11. CASE UNCHANGED vars
    BY <1>11 DEF vars, hubVars, IInv, Types, OnlyCurrent, Subscribed, FollowersAreFed, Posts, Live
  <1> QED BY <1>1, <1>2, <1>3, <1>4, <1>5, <1>6, <1>7, <1>8, <1>9, <1>10, <1>11 DEF Next

\* An open response of a follower is subscribed to the session's record, and
\* that record is live: begin and publish close whom they let go of, attach
\* replays a settled turn without following it, and an abort unsubscribes.
THEOREM NobodyOnKeepalives == Spec => []FollowersAreFed
PROOF
  <1>1. Init => IInv
    BY InitIInv
  <1>2. IInv /\ [Next]_vars => IInv'
    BY NextIInv
  <1>3. IInv => FollowersAreFed
    BY DEF IInv
  <1> QED BY <1>1, <1>2, <1>3, PTL DEF Spec

\* Frames are sent to one connection at a time: a subscriber is the
\* connection of the tab's current transport generation.
THEOREM OneConnectionFed == Spec => []Subscribed
PROOF
  <1>1. Init => IInv
    BY InitIInv
  <1>2. IInv /\ [Next]_vars => IInv'
    BY NextIInv
  <1>3. IInv => Subscribed
    BY DEF IInv
  <1> QED BY <1>1, <1>2, <1>3, PTL DEF Spec
=============================================================================
