-------------------------- MODULE McpServer_proofs ---------------------------
(***************************************************************************)
(* Theorems about McpServer, for any sets of operations, calls, attempts   *)
(* and kinds: the server is off once it was turned off, serves the current *)
(* configuration, follows the last reload, and implements McpPromise.      *)
(***************************************************************************)
EXTENDS McpServer, TLAPS

\* What an operation detached, and what is published, was an open connection.
WereOpen ==
    /\ \A o \in Ops : ops[o].client # Null => conns[ops[o].client].pc \in {"open", "closed"}
    /\ client # Null => conns[client].pc \in {"open", "closed"} /\ registered

\* Reload passes run one at a time; the one at "flow" has read the section it applies.
OnePass ==
    /\ \A o, p \in Ops : InPass(o) /\ InPass(p) => o = p
    /\ \A o \in Ops : InPass(o) => (section <=> ops[o].kind # "disable")
    /\ \A o \in Ops : InPass(o) /\ ops[o].pc # "flow" => enabled = section
    /\ \A o \in Ops : InPass(o) /\ ops[o].kind = "keep" => enabled /\ ops[o].pc = "flow"
    /\ (\A o \in Ops : ~InPass(o)) => enabled = section

\* An operation that turns the server off and waits for the attempt in flight.
TurningOff(o) == ops[o].kind \in {"disable", "stop"} /\ ops[o].pc = "cancel"

OffKinds ==
    \A o \in Ops :
        /\ ops[o].pc = "flow" => ops[o].kind \in Passes
        /\ ops[o].pc \in {"cancel", "sink", "close"} /\ ops[o].kind = "disable" => ~enabled
        /\ ops[o].pc \in {"cancel", "sink", "close"} /\ ops[o].kind = "stop" => stopped
        /\ TurningOff(o) /\ connecting # Null => ops[o].waits = connecting
        /\ ops[o].kind \in {"disable", "stop"} /\ ops[o].pc \in {"sink", "close"} => client = Null
        /\ ops[o].kind \in {"disable", "stop"} => ops[o].pc \notin {"idle", "queued", "connect"}
        /\ ops[o].kind = "stop" => ops[o].pc # "flow"

Silent == client = Null /\ connecting = Null
OffOrTurning ==
    /\ ~enabled => Silent \/ \E o \in Ops : TurningOff(o) /\ ops[o].kind = "disable"
    /\ stopped => Silent \/ \E o \in Ops : TurningOff(o) /\ ops[o].kind = "stop"

\* What was built from edited settings is about to be cancelled or closed.
Replaces(o, pcs) == ops[o].kind \in {"disable", "rebuild"} /\ ops[o].pc \in pcs
Replaced ==
    /\ \A a \in Attempts : conns[a].pc \in Pending /\ conns[a].outdated /\ ~conns[a].cancelled
          => \E o \in Ops : Replaces(o, {"flow"})
    /\ client # Null /\ conns[client].outdated => \E o \in Ops : Replaces(o, {"flow", "cancel"})

IInv == TypeOK /\ WereOpen /\ OnePass /\ OffKinds /\ OffOrTurning /\ Replaced

\* The part of the invariant that is not about types.
Safe == OneAttempt /\ WereOpen /\ OnePass /\ OffKinds /\ OffOrTurning /\ Replaced

-----------------------------------------------------------------------------
(* Init *)

LEMMA InitInv == Init => IInv
<1> SUFFICES ASSUME Init PROVE IInv
  OBVIOUS
<1>1. /\ NewOp \in OpRecords /\ NewCall \in CallRecords /\ Unused \in ConnRecords
      /\ [Unused EXCEPT !.pc = "open"] \in ConnRecords
      /\ [Unused EXCEPT !.pc = "open"].pc = "open"
      /\ [Unused EXCEPT !.pc = "open"].outdated = FALSE
      /\ Unused.pc = "unused" /\ Unused.outdated = FALSE
  BY DEF OpRecords, CallRecords, ConnRecords, Unused, NewOp, NewCall
<1>2. /\ conns \in [Attempts -> ConnRecords]
      /\ \A a \in Attempts : conns[a].pc \in {"unused", "open"} /\ conns[a].outdated = FALSE
      /\ client # Null => client \in Attempts /\ conns[client].pc = "open"
  <2>1. CASE client = Null /\ conns = [a \in Attempts |-> Unused]
    BY <1>1, <2>1, NullAssumption
  <2>2. CASE /\ client \in Attempts
             /\ conns = [a \in Attempts |->
                          IF a = client THEN [Unused EXCEPT !.pc = "open"] ELSE Unused]
    BY <1>1, <2>2, NullAssumption
  <2> QED
    BY <2>1, <2>2 DEF Init
<1>3. OneAttempt
  BY <1>2, NullAssumption DEF Init, OneAttempt, Pending
<1>4. TypeOK
  BY <1>1, <1>2, <1>3 DEF Init, TypeOK
<1>5. \A o \in Ops : ops[o].kind = Null /\ ops[o].pc = "idle" /\ ops[o].client = Null
  BY DEF Init, NewOp
<1>6. WereOpen
  BY <1>2, <1>5 DEF Init, WereOpen
<1>7. ~\E o \in Ops : InPass(o) \/ TurningOff(o)
  BY <1>5, NullIsNoKind DEF InPass, TurningOff, Passes
<1>8. OnePass
  BY <1>7 DEF Init, OnePass
<1>9. OffKinds
  BY <1>5, <1>7, NullIsNoKind DEF OffKinds, AllKinds
<1>10. OffOrTurning
  BY <1>2 DEF Init, OffOrTurning, Silent
<1>11. Replaced
  BY <1>2 DEF Init, Replaced
<1> QED
  BY <1>4, <1>6, <1>8, <1>9, <1>10, <1>11 DEF IInv

-----------------------------------------------------------------------------
(* Connections *)

\* What every step but a publication and an edit of the settings does to the attempts and
\* connections: an open one may only close, and nothing outdated comes into flight.
ConnsStep ==
    /\ conns' \in [Attempts -> ConnRecords] /\ connecting' \in Attempts \cup {Null}
    /\ OneAttempt'
    /\ connecting' \in {connecting, Null} \/ (enabled /\ ~stopped)
    /\ \A b \in Attempts :
        /\ conns[b].pc \in {"open", "closed"} => conns'[b].pc \in {"open", "closed"}
        /\ conns'[b].outdated => conns[b].outdated
        /\ conns'[b].pc \in Pending /\ conns'[b].outdated /\ ~conns'[b].cancelled
              => conns[b].pc \in Pending /\ ~conns[b].cancelled

LEMMA ConnsKept ==
    ASSUME IInv, UNCHANGED <<conns, connecting>>
    PROVE  ConnsStep
BY DEF IInv, TypeOK, OneAttempt, ConnsStep

LEMMA AttemptMoves ==
    ASSUME IInv, NEW a \in Attempts, NEW pc \in Pending, conns[a].pc \in Pending, Moves(a, pc),
           UNCHANGED connecting
    PROVE  ConnsStep
<1>1. /\ conns' \in [Attempts -> ConnRecords]
      /\ conns'[a].pc = pc /\ conns'[a].cancelled = conns[a].cancelled
      /\ conns'[a].outdated = conns[a].outdated
      /\ \A b \in Attempts \ {a} : conns'[b] = conns[b]
  BY DEF IInv, TypeOK, Moves, ConnRecords
<1>2. OneAttempt'
  BY <1>1 DEF IInv, TypeOK, OneAttempt
<1> QED
  BY <1>1, <1>2 DEF IInv, TypeOK, ConnsStep, Pending

LEMMA ConnectionEnds ==
    ASSUME IInv, NEW a \in Attempts, conns[a].pc # "unused", Closes(a),
           connecting' = IF connecting = a THEN Null ELSE connecting
    PROVE  ConnsStep
<1>1. /\ conns' \in [Attempts -> ConnRecords]
      /\ conns'[a].pc = "closed" /\ conns'[a].outdated = FALSE
      /\ \A b \in Attempts \ {a} : conns'[b] = conns[b]
  BY DEF IInv, TypeOK, Closes, ConnRecords, Gone, Unused
<1>2. OneAttempt'
  BY <1>1, NullAssumption DEF IInv, TypeOK, OneAttempt, Pending
<1> QED
  BY <1>1, <1>2 DEF IInv, TypeOK, ConnsStep, Pending

LEMMA AttemptCancelled ==
    ASSUME IInv, conns' = Cancelled, UNCHANGED connecting
    PROVE  /\ ConnsStep
           /\ \A b \in Attempts : conns'[b].pc \in Pending => conns'[b].cancelled
<1>1. CASE connecting = Null
  <2>1. conns' = conns /\ \A b \in Attempts : conns[b].pc \notin Pending
    BY <1>1, NullAssumption DEF IInv, TypeOK, OneAttempt, Cancelled
  <2> QED
    BY <2>1, ConnsKept
<1>2. CASE connecting \in Attempts
  <2> DEFINE c == [conns[connecting] EXCEPT !.cancelled = TRUE]
  <2>1. conns' = [conns EXCEPT ![connecting] = c]
    BY <1>2, NullAssumption DEF Cancelled
  <2>a. /\ c \in ConnRecords /\ c.cancelled = TRUE
        /\ c.pc = conns[connecting].pc /\ c.outdated = conns[connecting].outdated
    BY <1>2 DEF IInv, TypeOK, ConnRecords
  <2> HIDE DEF c
  <2>2. /\ conns' \in [Attempts -> ConnRecords]
        /\ conns'[connecting].cancelled
        /\ \A b \in Attempts \ {connecting} : conns'[b] = conns[b]
        /\ \A b \in Attempts : /\ conns'[b].pc = conns[b].pc
                               /\ conns'[b].outdated = conns[b].outdated
    BY <1>2, <2>1, <2>a DEF IInv, TypeOK
  <2>3. OneAttempt'
    BY <2>2 DEF IInv, TypeOK, OneAttempt
  <2> QED
    BY <1>2, <2>2, <2>3 DEF IInv, TypeOK, OneAttempt, ConnsStep
<1> QED
  BY <1>1, <1>2 DEF IInv, TypeOK

LEMMA AttemptStarts ==
    ASSUME IInv, NEW a \in Attempts, StartAttempt(a), enabled, ~stopped, connecting = Null
    PROVE  /\ ConnsStep /\ oversize' = Null
           /\ state' \in {"disabled", "disconnected", "connecting", "connected", "error"}
<1> DEFINE c == [Unused EXCEPT !.pc = "handshake"]
<1>a. /\ c \in ConnRecords /\ c.pc = "handshake" /\ c.outdated = FALSE
      /\ Unused.pc = "unused"
  BY DEF ConnRecords, Unused, Pending
<1>b. conns' = [conns EXCEPT ![a] = c] /\ conns[a] = Unused
  BY DEF StartAttempt
<1> HIDE DEF c
<1>1. /\ conns' \in [Attempts -> ConnRecords]
      /\ conns[a].pc = "unused"
      /\ conns'[a].pc = "handshake" /\ conns'[a].outdated = FALSE
      /\ \A b \in Attempts \ {a} : conns'[b] = conns[b]
  BY <1>a, <1>b DEF IInv, TypeOK
<1>2. OneAttempt'
  BY <1>1, NullAssumption DEF IInv, TypeOK, OneAttempt, Pending, StartAttempt
<1> QED
  BY <1>1, <1>2 DEF IInv, TypeOK, ConnsStep, StartAttempt, Pending

-----------------------------------------------------------------------------
(* Steps of the safety invariants *)

\* A step that leaves the operations' control where it is.
LEMMA Frame ==
    ASSUME IInv, ConnsStep,
           \A p \in Ops : /\ ops'[p].kind = ops[p].kind /\ ops'[p].pc = ops[p].pc
                          /\ ops'[p].waits = ops[p].waits /\ ops'[p].client = ops[p].client,
           UNCHANGED <<section, enabled, stopped>>, client' \in {client, Null},
           registered' \in {registered, TRUE}
    PROVE  Safe'
<1>a. \A p \in Ops : ops[p].client \in Attempts \cup {Null}
  BY DEF IInv, TypeOK, OpRecords
<1>b. WereOpen'
  BY <1>a DEF IInv, TypeOK, ConnsStep, WereOpen
<1>1. OneAttempt' /\ WereOpen'
  BY <1>b DEF ConnsStep
<1>2. OnePass'
  BY DEF IInv, OnePass, InPass
<1>3. OffKinds' /\ OffOrTurning'
  BY DEF IInv, ConnsStep, OffKinds, OffOrTurning, Silent, TurningOff
<1>4. Replaced'
  BY DEF IInv, TypeOK, ConnsStep, Replaced, Replaces
<1> QED
  BY <1>1, <1>2, <1>3, <1>4 DEF Safe

\* Claiming an over-limit frame moves no operation.
LEMMA ClaimStep ==
    ASSUME TypeOK, NEW x, Claims(x), Claim
    PROVE  /\ \A p \in Ops : /\ ops'[p].kind = ops[p].kind /\ ops'[p].pc = ops[p].pc
                             /\ ops'[p].waits = ops[p].waits /\ ops'[p].client = ops[p].client
           /\ ops' \in [Ops -> OpRecords] /\ oversize' = Null
           /\ state' \in {"disabled", "disconnected", "connecting", "connected", "error"}
<1>1. oversize \in Ops
  BY DEF TypeOK, Claims
<1>2. [ops[oversize] EXCEPT !.claimed = TRUE] \in OpRecords
  BY <1>1 DEF TypeOK, OpRecords
<1>3. \/ ops' = ops
      \/ ops' = [ops EXCEPT ![oversize] = [ops[oversize] EXCEPT !.claimed = TRUE]]
  BY <1>1 DEF Claim, TypeOK
<1>4. ops' \in [Ops -> OpRecords]
  BY <1>1, <1>2, <1>3 DEF TypeOK
<1>5. \A p \in Ops : /\ ops'[p].kind = ops[p].kind /\ ops'[p].pc = ops[p].pc
                     /\ ops'[p].waits = ops[p].waits /\ ops'[p].client = ops[p].client
  BY <1>1, <1>3 DEF TypeOK, OpRecords
<1> QED
  BY <1>4, <1>5 DEF Claim, TypeOK

\* A step of an operation that neither begins nor applies a pass, nor starts a stop.
OpStep(o) ==
    /\ \A p \in Ops \ {o} : ops'[p] = ops[p]
    /\ ops[o].pc \notin {"flow", "done"} /\ ops'[o].pc # "flow"
    /\ \/ ops[o].pc # "idle" /\ ops'[o].kind = ops[o].kind
       \/ ops[o].pc = "idle" /\ ops'[o].kind \notin Passes \cup {"stop"}
    /\ ops'[o].kind \in {"disable", "stop"} => ops'[o].pc \in {"sink", "close", "done"}
    /\ ops[o].pc = "cancel" => client' = Null /\ Settled(ops[o].waits)
    /\ ops'[o].pc = "cancel" => ops'[o].kind \notin Passes
    /\ ops'[o].client \in {ops[o].client, client, Null}
    /\ client' \in {client, Null}
    /\ registered' = registered \/ client' = Null
    /\ UNCHANGED <<section, enabled, stopped>>

LEMMA OperationStep ==
    ASSUME IInv, NEW o \in Ops, OpStep(o), ConnsStep
    PROVE  Safe'
<1>1. /\ \A p \in Ops \ {o} : ops'[p] = ops[p]
      /\ UNCHANGED <<section, enabled, stopped>> /\ client' \in {client, Null}
  BY DEF OpStep
<1>2. OneAttempt' /\ WereOpen'
  BY <1>1 DEF IInv, TypeOK, OpRecords, ConnsStep, OpStep, WereOpen
<1>3. \A p \in Ops : InPass(p)' => InPass(p) /\ ops[p].kind = ops'[p].kind
  BY <1>1 DEF OpStep, InPass
<1>4. InPass(o) => ops[o].pc # "flow" /\ ops'[o].pc # "flow" /\ ops[o].kind # "keep"
  BY DEF IInv, OnePass, OpStep
<1>5. OnePass'
  BY <1>1, <1>3, <1>4 DEF IInv, OnePass, InPass
<1>6. OffKinds'
  BY <1>1 DEF IInv, TypeOK, OpRecords, OffKinds, OpStep, ConnsStep, TurningOff, Passes
<1>7. OffOrTurning'
  BY <1>1 DEF IInv, TypeOK, OneAttempt, OffKinds, OffOrTurning, Silent, OpStep, ConnsStep, TurningOff, Settled
<1>8. Replaced'
  BY <1>1 DEF IInv, TypeOK, ConnsStep, OpStep, Replaced, Replaces, Passes
<1> QED
  BY <1>2, <1>5, <1>6, <1>7, <1>8 DEF Safe

-----------------------------------------------------------------------------
(* Attempts and connections *)

LEMMA PublishStep ==
    ASSUME IInv, NEW a \in Attempts, Publish(a)
    PROVE  IInv'
<1>1. /\ conns' \in [Attempts -> ConnRecords]
      /\ conns'[a].pc = "open" /\ conns'[a].outdated = conns[a].outdated
      /\ \A b \in Attempts \ {a} : conns'[b] = conns[b]
  BY DEF IInv, TypeOK, Publish, Moves, ConnRecords
<1>2. connecting = a /\ connecting' = Null /\ enabled /\ ~stopped /\ ~conns[a].cancelled
  BY DEF IInv, TypeOK, OneAttempt, Publish, ClearedPromise, MayPublish, Current, Pending
<1>3. client' = a /\ registered' = TRUE /\ UNCHANGED <<section, enabled, stopped, ops>>
  BY DEF Publish
<1>4. OneAttempt'
  BY <1>1, <1>2, NullAssumption DEF IInv, TypeOK, OneAttempt, Pending
<1>5. TypeOK'
  BY <1>1, <1>2, <1>3, <1>4 DEF IInv, TypeOK, Publish
<1>6. WereOpen'
  BY <1>1, <1>3 DEF IInv, TypeOK, OpRecords, WereOpen
<1>7. OnePass' /\ OffKinds' /\ OffOrTurning'
  BY <1>2, <1>3 DEF IInv, OnePass, InPass, OffKinds, OffOrTurning, Silent, TurningOff
<1>8. Replaced'
  BY <1>1, <1>2, <1>3 DEF IInv, TypeOK, Replaced, Replaces, Publish, Pending
<1> QED
  BY <1>5, <1>6, <1>7, <1>8 DEF IInv

LEMMA AttemptStep ==
    ASSUME IInv, NEW a \in Attempts,
           Handshaken(a) \/ Superseded(a) \/ AttemptFails(a) \/ AttemptEnds(a) \/ Drop(a)
    PROVE  IInv'
<1>1. ConnsStep
  <2>1. CASE Handshaken(a)
    <3>1. /\ conns[a].pc \in Pending /\ UNCHANGED connecting
          /\ Moves(a, "listing") \/ Moves(a, "failing")
      BY <2>1 DEF Handshaken, Pending
    <3> QED
      BY <3>1, AttemptMoves DEF Pending
  <2>2. CASE Superseded(a) \/ AttemptFails(a)
    <3>1. conns[a].pc \in Pending /\ UNCHANGED connecting /\ Moves(a, "failing")
      BY <2>2 DEF Superseded, AttemptFails, Bounded, Pending
    <3> QED
      BY <3>1, AttemptMoves DEF Pending
  <2>3. CASE AttemptEnds(a)
    BY <2>3, ConnectionEnds DEF AttemptEnds, ClearedPromise
  <2>4. CASE Drop(a)
    <3>1. connecting # a
      BY <2>4 DEF IInv, TypeOK, OneAttempt, Drop, Open, Pending
    <3> QED
      BY <2>4, <3>1, ConnectionEnds DEF Drop, Open
  <2> QED
    BY <2>1, <2>2, <2>3, <2>4
<1>2. /\ UNCHANGED <<section, enabled, stopped, closing, oversize, registered, syncs, ops, calls>>
      /\ client' \in {client, Null} /\ backoff' \in BOOLEAN
      /\ state' \in {"disabled", "disconnected", "connecting", "connected", "error"}
  BY DEF Handshaken, Superseded, AttemptFails, AttemptEnds, Drop, IInv, TypeOK
<1>3. Safe'
  BY <1>1, <1>2, Frame
<1>4. TypeOK'
  BY <1>1, <1>2, <1>3 DEF IInv, TypeOK, ConnsStep, Safe
<1> QED
  BY <1>3, <1>4 DEF IInv, Safe

\* Tool lists and tool calls.
LEMMA CallsAndLists ==
    ASSUME IInv,
           \/ \E a \in Attempts : ListChanged(a) \/ SyncAnswered(a) \/ SyncRejected(a)
           \/ \E k \in Callers : Call(k) \/ CallConnected(k) \/ CallEnds(k) \/ CallRejected(k)
           \/ BackoffEnds
    PROVE  IInv'
<1> DEFINE Framed ==
        /\ ConnsStep
        /\ \A p \in Ops : /\ ops'[p].kind = ops[p].kind /\ ops'[p].pc = ops[p].pc
                          /\ ops'[p].waits = ops[p].waits /\ ops'[p].client = ops[p].client
        /\ ops' \in [Ops -> OpRecords] /\ calls' \in [Callers -> CallRecords]
        /\ oversize' \in Ops \cup {Null} /\ syncs' \subseteq Attempts
        /\ UNCHANGED <<section, enabled, stopped, client, closing>>
        /\ registered' \in {registered, TRUE} /\ backoff' \in BOOLEAN
        /\ state' \in {"disabled", "disconnected", "connecting", "connected", "error"}
<1>1. ASSUME NEW a \in Attempts, ListChanged(a) \/ SyncAnswered(a) \/ SyncRejected(a)
      PROVE  Framed
  <2>1. ConnsStep
    BY <1>1, ConnsKept DEF ListChanged, SyncAnswered, SyncRejected, Claim
  <2>2. CASE ListChanged(a) \/ SyncAnswered(a)
    BY <2>1, <2>2, NullAssumption DEF ListChanged, SyncAnswered, IInv, TypeOK
  <2>3. CASE SyncRejected(a) /\ Claims(a)
    <3>1. Claim
      BY <2>3 DEF SyncRejected
    <3> QED
      BY <2>1, <2>3, <3>1, ClaimStep DEF SyncRejected, IInv, TypeOK
  <2>4. CASE SyncRejected(a) /\ ~Claims(a)
    BY <2>1, <2>4 DEF SyncRejected, IInv, TypeOK
  <2> QED
    BY <1>1, <2>2, <2>3, <2>4
<1>2. \A k \in Callers, c \in Attempts :
        /\ Asks(k, c) \in [Callers -> CallRecords]
        /\ [calls EXCEPT ![k].pc = "connecting", ![k].waits = c] \in [Callers -> CallRecords]
        /\ [calls EXCEPT ![k] = [NewCall EXCEPT !.pc = "failed"]] \in [Callers -> CallRecords]
        /\ [calls EXCEPT ![k] = [NewCall EXCEPT !.pc = "done"]] \in [Callers -> CallRecords]
  <2>1. \A c \in Attempts :
          /\ [NewCall EXCEPT !.pc = "asking", !.client = c] \in CallRecords
          /\ [NewCall EXCEPT !.pc = "failed"] \in CallRecords
          /\ [NewCall EXCEPT !.pc = "done"] \in CallRecords
    BY DEF NewCall, CallRecords
  <2>2. \A k \in Callers, c \in Attempts :
          [calls EXCEPT ![k].pc = "connecting", ![k].waits = c] \in [Callers -> CallRecords]
    BY DEF IInv, TypeOK, CallRecords
  <2> QED
    BY <2>1, <2>2 DEF Asks, IInv, TypeOK
<1>3. \A k \in Callers :
        /\ [calls EXCEPT ![k] = [NewCall EXCEPT !.pc = "failed"]] \in [Callers -> CallRecords]
        /\ [calls EXCEPT ![k] = [NewCall EXCEPT !.pc = "done"]] \in [Callers -> CallRecords]
  <2>1. /\ [NewCall EXCEPT !.pc = "failed"] \in CallRecords
        /\ [NewCall EXCEPT !.pc = "done"] \in CallRecords
    BY DEF NewCall, CallRecords
  <2> QED
    BY <2>1 DEF IInv, TypeOK
<1>a. client \in Attempts \cup {Null} /\ connecting \in Attempts \cup {Null}
  BY DEF IInv, TypeOK
<1>4. ASSUME NEW k \in Callers, Call(k)
      PROVE  Framed
  <2>1. CASE UNCHANGED <<conns, connecting, state, oversize>>
    <3>a. \/ client \in Attempts /\ calls' = Asks(k, client)
          \/ calls' = [calls EXCEPT ![k] = [NewCall EXCEPT !.pc = "failed"]]
          \/ \E c \in Attempts : calls' = [calls EXCEPT ![k].pc = "connecting", ![k].waits = c]
      BY <1>4, <1>a DEF Call
    <3>1. calls' \in [Callers -> CallRecords]
      <4>1. CASE client \in Attempts /\ calls' = Asks(k, client)
        BY <1>2, <4>1
      <4>2. CASE calls' = [calls EXCEPT ![k] = [NewCall EXCEPT !.pc = "failed"]]
        BY <1>3, <4>2
      <4>3. ASSUME NEW c \in Attempts,
                   calls' = [calls EXCEPT ![k].pc = "connecting", ![k].waits = c]
            PROVE  calls' \in [Callers -> CallRecords]
        BY <1>2, <4>3
      <4> QED
        BY <3>a, <4>1, <4>2, <4>3
    <3> QED
      BY <1>4, <2>1, <3>1, ConnsKept DEF Call, IInv, TypeOK
  <2>2. ASSUME NEW a \in Attempts, StartAttempt(a), enabled, ~stopped, connecting = Null,
               calls' = [calls EXCEPT ![k].pc = "connecting", ![k].waits = a]
        PROVE  Framed
    BY <1>2, <1>4, <2>2, AttemptStarts DEF Call, IInv, TypeOK
  <2> QED
    BY <1>4, <2>1, <2>2 DEF Call
<1>5. ASSUME NEW k \in Callers, CallConnected(k) \/ CallEnds(k)
      PROVE  Framed
  <2>a. \/ client \in Attempts /\ calls' = Asks(k, client)
        \/ calls' = [calls EXCEPT ![k] = [NewCall EXCEPT !.pc = "failed"]]
        \/ calls' = [calls EXCEPT ![k] = [NewCall EXCEPT !.pc = "done"]]
    BY <1>5, <1>a DEF CallConnected, CallEnds
  <2>1. calls' \in [Callers -> CallRecords]
    <3>1. CASE client \in Attempts /\ calls' = Asks(k, client)
      BY <1>2, <3>1
    <3>2. CASE calls' = [calls EXCEPT ![k] = [NewCall EXCEPT !.pc = "failed"]]
      BY <1>3, <3>2
    <3>3. CASE calls' = [calls EXCEPT ![k] = [NewCall EXCEPT !.pc = "done"]]
      BY <1>3, <3>3
    <3> QED
      BY <2>a, <3>1, <3>2, <3>3
  <2> QED
    BY <1>5, <2>1, ConnsKept DEF CallConnected, CallEnds, IInv, TypeOK
<1>6. ASSUME NEW k \in Callers, CallRejected(k)
      PROVE  Framed
  <2>1. ConnsStep
    BY <1>6, ConnsKept DEF CallRejected, Claim
  <2>2. CASE Claims(k)
    <3>1. Claim
      BY <1>6, <2>2 DEF CallRejected
    <3> QED
      BY <1>3, <1>6, <2>1, <2>2, <3>1, ClaimStep DEF CallRejected, IInv, TypeOK
  <2>3. CASE ~Claims(k)
    BY <1>3, <1>6, <2>1, <2>3 DEF CallRejected, IInv, TypeOK
  <2> QED
    BY <2>2, <2>3
<1>7. ASSUME BackoffEnds PROVE Framed
  BY <1>7, ConnsKept DEF BackoffEnds, IInv, TypeOK
<1>8. Framed
  BY <1>1, <1>4, <1>5, <1>6, <1>7
<1>9. Safe'
  BY <1>8, Frame
<1>10. TypeOK'
  BY <1>8, <1>9 DEF IInv, TypeOK, ConnsStep, Safe
<1> QED
  BY <1>9, <1>10 DEF IInv, Safe

-----------------------------------------------------------------------------
(* Operations *)

\* What the updates of an operation's record give.
LEMMA OpRecordFacts ==
    ASSUME IInv, NEW op \in OpRecords
    PROVE  /\ Finished(op) \in OpRecords /\ Finished(op).pc = "done"
           /\ Finished(op).kind = op.kind /\ Finished(op).client = Null
           /\ \A a \in Attempts :
                /\ Joins(op, a) \in OpRecords /\ Joins(op, a).pc = "connect"
                /\ Joins(op, a).kind = op.kind /\ Joins(op, a).client = Null
BY DEF Finished, Joins, NewOp, OpRecords

LEMMA Connects ==
    ASSUME IInv, NEW o \in Ops, NEW op \in OpRecords, ConnectQuietly(o, op),
           op.kind \notin {"disable", "stop"},
           \/ ops[o].pc = "idle" /\ op.kind \notin Passes
           \/ ops[o].pc \in {"sink", "close"} /\ op.kind = ops[o].kind,
           UNCHANGED <<section, enabled, stopped, client, registered>>
    PROVE  /\ ConnsStep /\ OpStep(o) /\ ops' \in [Ops -> OpRecords]
           /\ oversize' \in Ops \cup {Null}
           /\ state' \in {"disabled", "disconnected", "connecting", "connected", "error"}
<1>1. ASSUME NEW new \in OpRecords, ops' = [ops EXCEPT ![o] = new], new.kind = op.kind,
             new.pc \in {"connect", "done"}, new.client = Null
      PROVE  OpStep(o) /\ ops' \in [Ops -> OpRecords]
  <2>1. /\ ops' \in [Ops -> OpRecords]
        /\ ops'[o] = new /\ \A p \in Ops \ {o} : ops'[p] = ops[p]
    BY <1>1 DEF IInv, TypeOK
  <2> QED
    BY <1>1, <2>1 DEF OpStep
<1>2. CASE UNCHANGED <<conns, connecting, state, oversize>>
  <2>1. \/ ops' = [ops EXCEPT ![o] = Finished(op)]
        \/ connecting \in Attempts /\ ops' = [ops EXCEPT ![o] = Joins(op, connecting)]
        \/ \E a \in Attempts : ops' = [ops EXCEPT ![o] = Joins(op, a)]
    BY DEF ConnectQuietly, IInv, TypeOK
  <2>2. OpStep(o) /\ ops' \in [Ops -> OpRecords]
    BY <1>1, <2>1, OpRecordFacts
  <2> QED
    BY <1>2, <2>2, ConnsKept DEF IInv, TypeOK
<1>3. ASSUME NEW a \in Attempts, ~stopped, enabled, connecting = Null, StartAttempt(a),
             ops' = [ops EXCEPT ![o] = Joins(op, a)]
      PROVE  /\ ConnsStep /\ OpStep(o) /\ ops' \in [Ops -> OpRecords]
             /\ oversize' \in Ops \cup {Null}
             /\ state' \in {"disabled", "disconnected", "connecting", "connected", "error"}
  BY <1>1, <1>3, AttemptStarts, OpRecordFacts
<1> QED
  BY <1>2, <1>3 DEF ConnectQuietly

\* From the parts of a step to the invariant.
LEMMA OperationInv ==
    ASSUME IInv, NEW o \in Ops, OpStep(o), ConnsStep,
           ops' \in [Ops -> OpRecords], oversize' \in Ops \cup {Null},
           closing' \in BOOLEAN, backoff' \in BOOLEAN, registered' \in BOOLEAN,
           state' \in {"disabled", "disconnected", "connecting", "connected", "error"},
           UNCHANGED <<syncs, calls>>
    PROVE  IInv'
<1>1. Safe'
  BY OperationStep
<1>2. TypeOK'
  BY <1>1 DEF IInv, TypeOK, ConnsStep, OpStep, Safe
<1> QED
  BY <1>1, <1>2 DEF IInv, Safe

LEMMA AfterCloseStep ==
    ASSUME IInv, NEW o \in Ops, ops[o].pc \in {"sink", "close"}, AfterClose(o),
           closing' \in BOOLEAN, UNCHANGED <<section, enabled, stopped, client, syncs, calls>>
    PROVE  IInv'
<1> DEFINE op == ops[o]
<1>1. op \in OpRecords
  BY DEF IInv, TypeOK
<1>2. CASE op.kind \in {"reconnect", "rebuild", "complete"}
  <2>1. ConnectQuietly(o, ops[o]) /\ UNCHANGED registered /\ backoff' \in BOOLEAN
    BY <1>2 DEF AfterClose, IInv, TypeOK
  <2> QED
    BY <1>1, <1>2, <2>1, Connects, OperationInv DEF IInv, TypeOK
<1>3. CASE op.kind \in {"disable", "stop", "logout", "oversize"}
  <2>1. /\ ops' = [ops EXCEPT ![o] = Finished(op)]
        /\ UNCHANGED <<conns, connecting, oversize, backoff>>
        /\ state' \in {state, "disabled", "disconnected"}
        /\ registered' = registered \/ (registered' = FALSE /\ op.kind \in {"disable", "stop"})
    BY <1>3 DEF AfterClose
  <2>2. /\ ops' \in [Ops -> OpRecords] /\ ops'[o] = Finished(op)
        /\ \A p \in Ops \ {o} : ops'[p] = ops[p]
    BY <1>1, <2>1, OpRecordFacts DEF IInv, TypeOK
  <2>3. op.kind \in {"disable", "stop"} => client = Null
    BY DEF IInv, OffKinds
  <2>4. OpStep(o)
    BY <1>1, <2>1, <2>2, <2>3, OpRecordFacts DEF OpStep
  <2> QED
    BY <2>1, <2>2, <2>4, ConnsKept, OperationInv DEF IInv, TypeOK
<1> QED
  BY <1>2, <1>3 DEF AfterClose

\* closeClient up to its first await, by an operation with the record op.
LEMMA DetachFacts ==
    ASSUME IInv, NEW o \in Ops, NEW op \in OpRecords, Detach(o, op)
    PROVE  /\ ops' \in [Ops -> OpRecords] /\ \A p \in Ops \ {o} : ops'[p] = ops[p]
           /\ ops'[o].kind = op.kind /\ ops'[o].pc = "sink" /\ ops'[o].client = client
           /\ client' = Null
<1> DEFINE new == [op EXCEPT !.pc = "sink", !.waits = Null, !.client = client]
<1>1. /\ new \in OpRecords /\ new.kind = op.kind /\ new.pc = "sink" /\ new.client = client
  BY DEF IInv, TypeOK, OpRecords
<1>2. ops' = [ops EXCEPT ![o] = new] /\ client' = Null
  BY DEF Detach
<1> HIDE DEF new
<1> QED
  BY <1>1, <1>2 DEF IInv, TypeOK

LEMMA WaitsFacts ==
    ASSUME IInv, NEW o \in Ops, NEW op \in OpRecords, Waits(o, op)
    PROVE  /\ ops' \in [Ops -> OpRecords] /\ \A p \in Ops \ {o} : ops'[p] = ops[p]
           /\ ops'[o].kind = op.kind /\ ops'[o].pc = "cancel" /\ ops'[o].client = op.client
           /\ ops'[o].waits = connecting
           /\ client' = client
<1> DEFINE new == [op EXCEPT !.pc = "cancel", !.waits = connecting]
<1>1. /\ new \in OpRecords /\ new.kind = op.kind /\ new.pc = "cancel"
      /\ new.client = op.client /\ new.waits = connecting
  BY DEF IInv, TypeOK, OpRecords
<1>2. ops' = [ops EXCEPT ![o] = new] /\ client' = client
  BY DEF Waits
<1> HIDE DEF new
<1> QED
  BY <1>1, <1>2 DEF IInv, TypeOK

\* The record of an operation that starts.
LEMMA NewOpFacts ==
    ASSUME NEW kind \in AllKinds, NEW flight \in SUBSET (Callers \cup Attempts)
    PROVE  /\ NewOp.pc = "idle" /\ NewOp.client = Null /\ NewOp.kind = Null
           /\ [NewOp EXCEPT !.kind = kind] \in OpRecords
           /\ [NewOp EXCEPT !.kind = kind].kind = kind
           /\ [NewOp EXCEPT !.kind = kind].client = Null
           /\ [NewOp EXCEPT !.kind = kind, !.flight = flight] \in OpRecords
           /\ [NewOp EXCEPT !.kind = kind, !.flight = flight].kind = kind
           /\ [NewOp EXCEPT !.kind = kind, !.pc = "queued"] \in OpRecords
           /\ [NewOp EXCEPT !.kind = kind, !.pc = "queued"].kind = kind
           /\ [NewOp EXCEPT !.kind = kind, !.pc = "queued"].pc = "queued"
           /\ [NewOp EXCEPT !.kind = kind, !.pc = "queued"].client = Null
BY DEF NewOp, OpRecords

\* An operation that is neither a reload nor the stop starts.
LEMMA StartStep ==
    ASSUME IInv, NEW o \in Ops,
           Startup(o) \/ Reconnect(o) \/ CompleteOrLogout(o) \/ NoteOversize(o) \/ Reload(o)
    PROVE  IInv'
<1>1. ops[o].pc = "idle"
  BY NewOpFacts DEF Startup, Reconnect, CompleteOrLogout, NoteOversize, Reload, Starts, AllKinds
<1>2. CASE Startup(o)
  <2> DEFINE op == [NewOp EXCEPT !.kind = "startup"]
  <2>1. op \in OpRecords /\ op.kind = "startup"
    BY NewOpFacts DEF AllKinds
  <2>2. /\ ConnectQuietly(o, op)
        /\ UNCHANGED <<section, enabled, stopped, client, closing, backoff, registered, syncs, calls>>
    BY <1>2 DEF Startup
  <2> HIDE DEF op
  <2>3. op.kind \notin {"disable", "stop"} \cup Passes
    BY <2>1 DEF Passes
  <2> QED
    BY <1>1, <2>1, <2>2, <2>3, Connects, OperationInv DEF IInv, TypeOK
<1>3. CASE Reconnect(o)
  <2> DEFINE op == [NewOp EXCEPT !.kind = "reconnect"]
  <2>1. op \in OpRecords /\ op.kind = "reconnect" /\ op.client = Null
    BY NewOpFacts DEF AllKinds
  <2>2. /\ conns' = Cancelled /\ (Detach(o, op) \/ Waits(o, op))
        /\ UNCHANGED <<section, enabled, stopped, state, connecting, closing, oversize, backoff,
                       registered, syncs, calls>>
    BY <1>3 DEF Reconnect, CancelAndDetach
  <2> HIDE DEF op
  <2>3. /\ ops' \in [Ops -> OpRecords] /\ \A p \in Ops \ {o} : ops'[p] = ops[p]
        /\ ops'[o].kind = "reconnect" /\ ops'[o].pc \in {"sink", "cancel"}
        /\ ops'[o].client \in {client, Null} /\ client' \in {client, Null}
    BY <2>1, <2>2, DetachFacts, WaitsFacts
  <2>4. OpStep(o)
    BY <1>1, <2>2, <2>3 DEF OpStep, Passes
  <2> QED
    BY <2>2, <2>3, <2>4, AttemptCancelled, OperationInv DEF IInv, TypeOK
<1>4. CASE CompleteOrLogout(o)
  <2>1. PICK kind \in {"complete", "logout"} : Detach(o, [NewOp EXCEPT !.kind = kind])
    BY <1>4 DEF CompleteOrLogout
  <2> DEFINE op == [NewOp EXCEPT !.kind = kind]
  <2>a. kind \in AllKinds /\ {} \in SUBSET (Callers \cup Attempts)
    BY DEF AllKinds
  <2>2. op \in OpRecords /\ op.kind = kind
    BY <2>a, NewOpFacts
  <2>3. UNCHANGED <<section, enabled, stopped, state, connecting, closing, oversize, backoff,
                    registered, conns, syncs, calls>>
    BY <1>4 DEF CompleteOrLogout
  <2>4. Detach(o, op)
    BY <2>1
  <2> HIDE DEF op
  <2>5. OpStep(o) /\ ops' \in [Ops -> OpRecords]
    BY <1>1, <2>2, <2>3, <2>4, DetachFacts DEF OpStep, Passes
  <2> QED
    BY <2>3, <2>5, ConnsKept, OperationInv DEF IInv, TypeOK
<1>5. CASE NoteOversize(o)
  <2> DEFINE flight == syncs \cup {k \in Callers : calls[k].pc = "asking"}
  <2> DEFINE op == [NewOp EXCEPT !.kind = "oversize", !.flight = flight]
  <2>1. flight \in SUBSET (Callers \cup Attempts)
    BY DEF IInv, TypeOK
  <2>2. Detach(o, op)
    BY <1>5 DEF NoteOversize
  <2>3. UNCHANGED <<section, enabled, stopped, state, connecting, closing, backoff, registered,
                    conns, syncs, calls>> /\ oversize' = o
    BY <1>5 DEF NoteOversize
  <2> HIDE DEF flight
  <2>4. op \in OpRecords /\ op.kind = "oversize"
    BY <2>1, NewOpFacts DEF AllKinds
  <2> HIDE DEF op
  <2>5. OpStep(o) /\ ops' \in [Ops -> OpRecords]
    BY <1>1, <2>2, <2>3, <2>4, DetachFacts DEF OpStep, Passes
  <2> QED
    BY <2>3, <2>5, ConnsKept, OperationInv DEF IInv, TypeOK
<1>6. CASE Reload(o)
  <2> DEFINE op == [NewOp EXCEPT !.kind = "reload", !.pc = "queued"]
  <2>1. op \in OpRecords /\ op.kind = "reload" /\ op.pc = "queued" /\ op.client = Null
    BY NewOpFacts DEF AllKinds
  <2>2. /\ ops' = [ops EXCEPT ![o] = op]
        /\ UNCHANGED <<section, enabled, stopped, state, client, connecting, closing, oversize,
                       backoff, registered, conns, syncs, calls>>
    BY <1>6 DEF Reload
  <2> HIDE DEF op
  <2>3. /\ ops' \in [Ops -> OpRecords] /\ ops'[o] = op
        /\ \A p \in Ops \ {o} : ops'[p] = ops[p]
    BY <2>1, <2>2 DEF IInv, TypeOK
  <2>4. OpStep(o)
    BY <1>1, <2>1, <2>2, <2>3 DEF OpStep, Passes
  <2> QED
    BY <2>2, <2>3, <2>4, ConnsKept, OperationInv DEF IInv, TypeOK
<1> QED
  BY <1>2, <1>3, <1>4, <1>5, <1>6

\* The awaits of an operation end.
LEMMA AwaitStep ==
    ASSUME IInv, NEW o \in Ops, AttemptGone(o) \/ Flushed(o) \/ Closed(o) \/ Connected(o)
    PROVE  IInv'
<1> DEFINE op == ops[o]
<1>a. op \in OpRecords
  BY DEF IInv, TypeOK
<1>1. CASE AttemptGone(o)
  <2>1. /\ op.pc = "cancel" /\ Settled(op.waits) /\ Detach(o, op)
        /\ UNCHANGED <<section, enabled, stopped, state, connecting, closing, oversize,
                       backoff, registered, conns, syncs, calls>>
    BY <1>1 DEF AttemptGone
  <2>2. OpStep(o) /\ ops' \in [Ops -> OpRecords]
    BY <1>a, <2>1, DetachFacts DEF OpStep
  <2> QED
    BY <2>1, <2>2, ConnsKept, OperationInv DEF IInv, TypeOK
<1>2. CASE Flushed(o) /\ op.client = Null
  BY <1>2, AfterCloseStep DEF Flushed, IInv, TypeOK
<1>3. CASE Flushed(o) /\ op.client # Null
  <2>1. /\ op.pc = "sink" /\ op.client \in Attempts /\ Closes(op.client)
        /\ ops' = [ops EXCEPT ![o].pc = "close"] /\ closing' = TRUE
        /\ UNCHANGED <<section, enabled, stopped, state, client, connecting, oversize, backoff,
                       registered, syncs, calls>>
    BY <1>a, <1>3 DEF Flushed, OpRecords
  <2>2. connecting # op.client /\ conns[op.client].pc # "unused"
    BY <1>3, <2>1 DEF IInv, TypeOK, OneAttempt, WereOpen, Pending
  <2>3. ConnsStep
    BY <2>1, <2>2, ConnectionEnds
  <2>4. OpStep(o) /\ ops' \in [Ops -> OpRecords]
    <3>1. ops' = [ops EXCEPT ![o] = [op EXCEPT !.pc = "close"]]
      BY <2>1 DEF IInv, TypeOK
    <3>2. /\ [op EXCEPT !.pc = "close"] \in OpRecords
          /\ [op EXCEPT !.pc = "close"].kind = op.kind /\ [op EXCEPT !.pc = "close"].pc = "close"
          /\ [op EXCEPT !.pc = "close"].client = op.client
      BY <1>a DEF OpRecords
    <3>3. /\ ops' \in [Ops -> OpRecords] /\ ops'[o] = [op EXCEPT !.pc = "close"]
          /\ \A p \in Ops \ {o} : ops'[p] = ops[p]
      BY <3>1, <3>2 DEF IInv, TypeOK
    <3> QED
      BY <2>1, <3>2, <3>3 DEF OpStep
  <2> QED
    BY <2>1, <2>3, <2>4, OperationInv DEF IInv, TypeOK
<1>4. CASE Closed(o)
  BY <1>4, AfterCloseStep DEF Closed, IInv, TypeOK
<1>5. CASE Connected(o)
  <2>1. /\ op.pc = "connect" /\ ops' = [ops EXCEPT ![o] = Finished(op)]
        /\ UNCHANGED <<section, enabled, stopped, state, client, connecting, closing, oversize,
                       backoff, registered, conns, syncs, calls>>
    BY <1>5 DEF Connected
  <2>2. /\ ops' \in [Ops -> OpRecords] /\ ops'[o] = Finished(op)
        /\ \A p \in Ops \ {o} : ops'[p] = ops[p]
    BY <1>a, <2>1, OpRecordFacts DEF IInv, TypeOK
  <2>3. OpStep(o)
    BY <1>a, <2>1, <2>2, OpRecordFacts DEF OpStep
  <2> QED
    BY <2>1, <2>2, <2>3, ConnsKept, OperationInv DEF IInv, TypeOK
<1> QED
  BY <1>1, <1>2, <1>3, <1>4, <1>5

-----------------------------------------------------------------------------
(* Stops and reload passes *)

\* An operation that turns the server off cancels the attempt in flight and waits.
LEMMA TurnOffStep ==
    ASSUME IInv, NEW o \in Ops, NEW op \in OpRecords, TurnOff(o, op),
           \/ /\ ops[o].pc = "idle" /\ ops[o].kind = Null /\ op.kind = "stop"
              /\ stopped' = TRUE /\ UNCHANGED enabled
           \/ /\ ops[o].pc = "flow" /\ ops[o].kind = "disable" /\ op.kind = "disable"
              /\ enabled' = FALSE /\ UNCHANGED stopped,
           op.client \in {ops[o].client, Null},
           UNCHANGED <<section, connecting, registered>>
    PROVE  Safe' /\ conns' \in [Attempts -> ConnRecords] /\ ops' \in [Ops -> OpRecords]
<1>1. /\ ops' \in [Ops -> OpRecords] /\ \A p \in Ops \ {o} : ops'[p] = ops[p]
      /\ ops'[o].kind = op.kind /\ ops'[o].pc = "cancel" /\ ops'[o].client = op.client
      /\ ops'[o].waits = connecting /\ client' = client
  BY WaitsFacts DEF TurnOff
<1>2. ConnsStep /\ \A b \in Attempts : conns'[b].pc \in Pending => conns'[b].cancelled
  BY AttemptCancelled DEF TurnOff
<1>3. WereOpen'
  <2>1. \A p \in Ops : /\ ops[p].client \in Attempts \cup {Null}
                       /\ ops'[p].client \in {ops[p].client, Null}
    BY <1>1 DEF IInv, TypeOK, OpRecords
  <2>2. \A c \in Attempts : conns[c].pc \in {"open", "closed"} => conns'[c].pc \in {"open", "closed"}
    BY <1>2 DEF ConnsStep
  <2>3. client \in Attempts \cup {Null} /\ client' = client /\ registered' = registered
    BY <1>1 DEF IInv, TypeOK
  <2> QED
    BY <2>1, <2>2, <2>3 DEF IInv, WereOpen
<1>4. OnePass'
  <2>1. CASE ops[o].pc = "idle" /\ ops[o].kind = Null /\ op.kind = "stop" /\ UNCHANGED enabled
    <3>1. ~InPass(o) /\ ~InPass(o)'
      BY <1>1, <2>1, NullIsNoKind DEF InPass, Passes
    <3>2. \A p \in Ops : (InPass(p)' <=> InPass(p)) /\ (InPass(p) => ops'[p] = ops[p])
      BY <1>1, <3>1 DEF InPass
    <3> QED
      BY <2>1, <3>2 DEF IInv, OnePass
  <2>2. CASE ops[o].pc = "flow" /\ ops[o].kind = "disable" /\ op.kind = "disable" /\ enabled' = FALSE
    <3>1. InPass(o) /\ InPass(o)' /\ section = FALSE
      BY <1>1, <2>2 DEF IInv, TypeOK, OnePass, InPass, Passes
    <3>2. \A p \in Ops : InPass(p)' => p = o
      BY <1>1, <3>1 DEF IInv, OnePass, InPass
    <3> QED
      BY <1>1, <2>2, <3>1, <3>2 DEF OnePass
  <2> QED
    BY <2>1, <2>2
<1>5. OffKinds'
  BY <1>1 DEF IInv, OffKinds, OnePass, InPass, Passes, TurningOff
<1>6. OffOrTurning'
  <2>1. /\ \A p \in Ops \ {o} : TurningOff(p) => TurningOff(p)' /\ ops'[p].kind = ops[p].kind
        /\ TurningOff(o)' /\ ~TurningOff(o)
    BY <1>1 DEF TurningOff
  <2> QED
    BY <1>1, <2>1 DEF IInv, OffOrTurning, Silent
<1>7. Replaced'
  BY <1>1, <1>2 DEF IInv, TypeOK, ConnsStep, Replaced, Replaces
<1> QED
  BY <1>1, <1>2, <1>3, <1>4, <1>5, <1>6, <1>7 DEF Safe, ConnsStep

LEMMA StopStep ==
    ASSUME IInv, NEW o \in Ops, Stop(o)
    PROVE  IInv'
<1> DEFINE op == [NewOp EXCEPT !.kind = "stop"]
<1>1. /\ op \in OpRecords /\ op.kind = "stop" /\ op.client = Null
      /\ ops[o].pc = "idle" /\ ops[o].kind = Null
  BY NewOpFacts DEF AllKinds, Stop, Starts
<1>2. /\ stopped' = TRUE
      /\ UNCHANGED <<section, enabled, state, connecting, closing, oversize, backoff, registered,
                     syncs, calls>>
  BY DEF Stop
<1>3. CASE stopped
  <2>1. ops' = [ops EXCEPT ![o] = Finished(op)] /\ UNCHANGED <<conns, client, stopped>>
    BY <1>2, <1>3 DEF Stop
  <2> HIDE DEF op
  <2>2. /\ ops' \in [Ops -> OpRecords] /\ ops'[o] = Finished(op)
        /\ \A p \in Ops \ {o} : ops'[p] = ops[p]
    BY <1>1, <2>1, OpRecordFacts DEF IInv, TypeOK
  <2>3. /\ ops'[o].kind = "stop" /\ ops'[o].pc = "done" /\ ops'[o].client = Null
    BY <1>1, <2>2, OpRecordFacts
  <2>4. WereOpen' /\ OneAttempt'
    BY <1>2, <2>1, <2>2, <2>3 DEF IInv, TypeOK, OneAttempt, WereOpen
  <2>5. OnePass'
    BY <1>1, <1>2, <2>1, <2>2, <2>3, NullIsNoKind DEF IInv, OnePass, InPass, Passes
  <2>6. OffKinds' /\ OffOrTurning'
    BY <1>1, <1>2, <2>1, <2>2, <2>3 DEF IInv, OffKinds, OffOrTurning, Silent, TurningOff
  <2>7. Replaced'
    BY <1>1, <1>2, <2>1, <2>2, <2>3 DEF IInv, Replaced, Replaces
  <2>8. TypeOK'
    BY <1>2, <2>1, <2>2, <2>4 DEF IInv, TypeOK
  <2> QED
    BY <2>4, <2>5, <2>6, <2>7, <2>8 DEF IInv
<1>4. CASE ~stopped
  <2>1. TurnOff(o, op)
    BY <1>4 DEF Stop
  <2> HIDE DEF op
  <2>2. Safe' /\ conns' \in [Attempts -> ConnRecords] /\ ops' \in [Ops -> OpRecords]
    BY <1>1, <1>2, <2>1, TurnOffStep
  <2>3. client' = client
    BY <2>1 DEF TurnOff, Waits
  <2>4. TypeOK'
    BY <1>2, <2>2, <2>3 DEF IInv, TypeOK, Safe
  <2> QED
    BY <2>2, <2>4 DEF IInv, Safe
<1> QED
  BY <1>3, <1>4

LEMMA PassBeginsStep ==
    ASSUME IInv, NEW o \in Ops, PassBegins(o)
    PROVE  IInv'
<1>1. /\ ops[o].kind = "reload" /\ ops[o].pc = "queued" /\ \A p \in Ops : ~InPass(p)
      /\ UNCHANGED <<enabled, stopped, state, client, connecting, closing, oversize, backoff,
                     registered, syncs, calls>>
      /\ ops[o] \in OpRecords
  BY DEF PassBegins, MyTurn, IInv, TypeOK
<1>2. CASE stopped
  <2>1. ops' = [ops EXCEPT ![o] = Finished(ops[o])] /\ UNCHANGED <<section, conns>>
    BY <1>2 DEF PassBegins
  <2>2. /\ ops' \in [Ops -> OpRecords] /\ ops'[o] = Finished(ops[o])
        /\ \A p \in Ops \ {o} : ops'[p] = ops[p]
    BY <1>1, <2>1, OpRecordFacts DEF IInv, TypeOK
  <2>3. OpStep(o)
    BY <1>1, <2>1, <2>2, OpRecordFacts DEF OpStep
  <2> QED
    BY <1>1, <2>1, <2>2, <2>3, ConnsKept, OperationInv DEF IInv, TypeOK
<1>3. CASE ~stopped
  <2>1. PICK edited \in BOOLEAN, kind \in Passes :
          /\ ops' = [ops EXCEPT ![o].pc = "flow", ![o].kind = kind]
          /\ conns' = IF edited THEN Outdated ELSE conns
          /\ section' \in BOOLEAN /\ (section' <=> kind # "disable")
          /\ kind = "keep" => enabled /\ ~edited
    BY <1>3 DEF PassBegins, Passes
  <2>2. /\ ops' \in [Ops -> OpRecords] /\ \A p \in Ops \ {o} : ops'[p] = ops[p]
        /\ ops'[o].kind = kind /\ ops'[o].pc = "flow" /\ ops'[o].client = ops[o].client
    <3>1. ops \in [Ops -> OpRecords] /\ ops[o] \in OpRecords
      BY DEF IInv, TypeOK
    <3> DEFINE next == [ops[o] EXCEPT !.pc = "flow", !.kind = kind]
    <3>2. /\ next \in OpRecords /\ next.kind = kind /\ next.pc = "flow"
          /\ next.client = ops[o].client
      BY <3>1 DEF OpRecords
    <3>3. ops' = [ops EXCEPT ![o] = next]
      BY <2>1, <3>1 DEF OpRecords
    <3> HIDE DEF next
    <3> QED
      BY <3>1, <3>2, <3>3
  <2>3. /\ conns' \in [Attempts -> ConnRecords]
        /\ \A b \in Attempts : /\ conns'[b].pc = conns[b].pc
                               /\ conns'[b].cancelled = conns[b].cancelled
                               /\ ~edited => conns'[b] = conns[b]
    BY <2>1 DEF IInv, TypeOK, Outdated, ConnRecords
  <2>4. OneAttempt'
    BY <1>1, <2>3 DEF IInv, TypeOK, OneAttempt
  <2>5. WereOpen'
    <3>1. \A p \in Ops : ops'[p].client = ops[p].client /\ ops[p].client \in Attempts \cup {Null}
      BY <2>2 DEF IInv, TypeOK, OpRecords
    <3>2. client \in Attempts \cup {Null} /\ client' = client /\ registered' = registered
      BY <1>1 DEF IInv, TypeOK
    <3> QED
      BY <2>3, <3>1, <3>2 DEF IInv, WereOpen
  <2>6. OnePass'
    BY <1>1, <2>1, <2>2 DEF IInv, TypeOK, OnePass, InPass, Passes
  <2>7. OffKinds'
    BY <1>1, <2>2 DEF IInv, OffKinds, TurningOff, Passes
  <2>8. OffOrTurning'
    <3>1. \A p \in Ops : TurningOff(p) => TurningOff(p)' /\ ops'[p].kind = ops[p].kind
      BY <1>1, <2>2 DEF TurningOff
    <3> QED
      BY <1>1, <3>1 DEF IInv, OffOrTurning, Silent
  <2>9. Replaced'
    <3>1. \A p \in Ops : ~Replaces(p, {"flow"}) /\ ~Replaces(p, {"flow", "cancel"})
      BY <1>1 DEF Replaces, InPass, Passes
    <3>2. CASE kind = "keep"
      BY <1>1, <2>1, <2>3, <3>1, <3>2 DEF IInv, TypeOK, Replaced
    <3>3. CASE kind \in {"disable", "rebuild"}
      BY <2>2, <3>3 DEF Replaced, Replaces
    <3> QED
      BY <3>2, <3>3 DEF Passes
  <2>10. TypeOK'
    BY <1>1, <2>1, <2>2, <2>3, <2>4 DEF IInv, TypeOK
  <2> QED
    BY <2>5, <2>6, <2>7, <2>8, <2>9, <2>10 DEF IInv
<1> QED
  BY <1>2, <1>3

LEMMA PassAppliesStep ==
    ASSUME IInv, NEW o \in Ops, PassApplies(o)
    PROVE  IInv'
<1> DEFINE op == ops[o]
<1>1. /\ op.pc = "flow" /\ op \in OpRecords /\ InPass(o)
      /\ UNCHANGED <<section, stopped, state, connecting, closing, oversize, backoff, syncs, calls>>
  BY DEF PassApplies, IInv, TypeOK, OffKinds, InPass
<1>2. CASE op.kind = "keep"
  <2>1. /\ ops' = [ops EXCEPT ![o] = Finished(op)]
        /\ registered' = (registered \/ (state = "connected" /\ client # Null))
        /\ UNCHANGED <<enabled, conns, client>>
    BY <1>2 DEF PassApplies
  <2>2. /\ ops' \in [Ops -> OpRecords] /\ ops'[o] = Finished(op)
        /\ \A p \in Ops \ {o} : ops'[p] = ops[p]
    BY <1>1, <2>1, OpRecordFacts DEF IInv, TypeOK
  <2>3. /\ ops'[o].kind = "keep" /\ ops'[o].pc = "done" /\ ops'[o].client = Null
    BY <1>1, <1>2, <2>2, OpRecordFacts
  <2>4. OneAttempt' /\ WereOpen'
    BY <1>1, <2>1, <2>2, <2>3 DEF IInv, TypeOK, OneAttempt, WereOpen
  <2>5. OnePass'
    BY <1>1, <1>2, <2>1, <2>2, <2>3 DEF IInv, TypeOK, OnePass, InPass
  <2>6. OffKinds' /\ OffOrTurning'
    BY <1>1, <1>2, <2>1, <2>2, <2>3 DEF IInv, OffKinds, OffOrTurning, Silent, TurningOff
  <2>7. Replaced'
    BY <1>1, <1>2, <2>1, <2>2, <2>3 DEF IInv, Replaced, Replaces
  <2>8. TypeOK'
    BY <1>1, <2>1, <2>2, <2>4 DEF IInv, TypeOK
  <2> QED
    BY <2>4, <2>5, <2>6, <2>7, <2>8 DEF IInv
<1>3. CASE op.kind = "disable"
  <2>1. enabled' = FALSE /\ TurnOff(o, op) /\ UNCHANGED registered
    BY <1>3 DEF PassApplies
  <2>2. Safe' /\ conns' \in [Attempts -> ConnRecords] /\ ops' \in [Ops -> OpRecords]
    BY <1>1, <1>3, <2>1, TurnOffStep
  <2>3. client' = client
    BY <2>1 DEF TurnOff, Waits
  <2>4. TypeOK'
    BY <1>1, <2>1, <2>2, <2>3 DEF IInv, TypeOK, Safe
  <2> QED
    BY <2>2, <2>4 DEF IInv, Safe
<1>4. CASE op.kind = "rebuild"
  <2>1. /\ enabled' = TRUE /\ UNCHANGED registered /\ conns' = Cancelled
        /\ IF connecting = Null THEN Detach(o, op) ELSE Waits(o, op)
    BY <1>4 DEF PassApplies, RebuildCancels, CancelAndDetach
  <2>2. /\ ops' \in [Ops -> OpRecords] /\ \A p \in Ops \ {o} : ops'[p] = ops[p]
        /\ ops'[o].kind = "rebuild"
        /\ \/ ops'[o].pc = "sink" /\ ops'[o].client = client /\ client' = Null
           \/ ops'[o].pc = "cancel" /\ ops'[o].client = op.client /\ client' = client
    BY <1>1, <1>4, <2>1, DetachFacts, WaitsFacts
  <2>3. ConnsStep /\ \A b \in Attempts : conns'[b].pc \in Pending => conns'[b].cancelled
    BY <1>1, <2>1, AttemptCancelled
  <2>4. WereOpen'
    BY <2>1, <2>2, <2>3 DEF IInv, TypeOK, OpRecords, ConnsStep, WereOpen
  <2>5. OnePass'
    BY <1>1, <1>4, <2>1, <2>2 DEF IInv, TypeOK, OnePass, InPass, Passes
  <2>6. \A p \in Ops \ {o} : ops[p].kind = "disable" => ops[p].pc = "done"
    BY <1>1 DEF IInv, OnePass, InPass, Passes
  <2>7. OffKinds'
    BY <1>1, <1>4, <2>1, <2>2, <2>6 DEF IInv, OffKinds, TurningOff
  <2>8. OffOrTurning'
    BY <1>1, <1>4, <2>1, <2>2, <2>6 DEF IInv, OffOrTurning, Silent, TurningOff
  <2>9. Replaced'
    BY <1>1, <2>2, <2>3 DEF IInv, TypeOK, ConnsStep, Replaced, Replaces
  <2>10. TypeOK'
    BY <1>1, <2>1, <2>2, <2>3 DEF IInv, TypeOK, ConnsStep
  <2> QED
    BY <2>4, <2>5, <2>7, <2>8, <2>9, <2>10 DEF IInv
<1> QED
  BY <1>2, <1>3, <1>4 DEF PassApplies

LEMMA StepInv == IInv /\ [Next]_vars => IInv'
<1> SUFFICES ASSUME IInv, [Next]_vars PROVE IInv'
  OBVIOUS
<1>1. CASE UNCHANGED vars
  <2>1. Safe'
    BY <1>1, ConnsKept, Frame DEF vars
  <2> QED
    BY <1>1, <2>1 DEF vars, IInv, Safe, TypeOK
<1>2. CASE \E o \in Ops : \/ Startup(o) \/ Reconnect(o) \/ CompleteOrLogout(o) \/ NoteOversize(o)
                          \/ Reload(o)
  BY <1>2, StartStep
<1>3. CASE \E o \in Ops : AttemptGone(o) \/ Flushed(o) \/ Closed(o) \/ Connected(o)
  BY <1>3, AwaitStep
<1>4. CASE \E o \in Ops : Stop(o) \/ PassBegins(o) \/ PassApplies(o)
  BY <1>4, StopStep, PassBeginsStep, PassAppliesStep
<1>5. CASE \E a \in Attempts : Publish(a)
  BY <1>5, PublishStep
<1>6. CASE \E a \in Attempts : \/ Handshaken(a) \/ Superseded(a) \/ AttemptFails(a)
                               \/ AttemptEnds(a) \/ Drop(a)
  BY <1>6, AttemptStep
<1>7. CASE \/ \E a \in Attempts : ListChanged(a) \/ SyncAnswered(a) \/ SyncRejected(a)
           \/ \E k \in Callers : Call(k) \/ CallConnected(k) \/ CallEnds(k) \/ CallRejected(k)
           \/ BackoffEnds
  BY <1>7, CallsAndLists
<1> QED
  BY <1>1, <1>2, <1>3, <1>4, <1>5, <1>6, <1>7, Zenon DEF Next, Urgent, Event

LEMMA Invariant == Spec => []IInv
BY InitInv, StepInv, PTL DEF Spec

-----------------------------------------------------------------------------
(* The promise *)

Live == {a \in Attempts : Open(a)}
Allowed == enabled /\ ~stopped

\* The steps that are the mapped image of a Permit, a Detach or a stutter.
LEMMA PromiseMoves ==
    ASSUME Live' = Live, registered' = registered,
           client' = client \/ (client' = Null /\ Allowed' = Allowed)
    PROVE  [Promise!Next]_(Promise!vars)
BY DEF Live, Allowed, Promise!Next, Promise!vars, Promise!Permit, Promise!Detach

\* Only the connections whose pc changes come or go.
LEMMA LiveKept ==
    ASSUME \A b \in Attempts : conns'[b].pc = "open" <=> conns[b].pc = "open"
    PROVE  Live' = Live
BY DEF Live, Open

LEMMA LiveKeptByAttempts ==
    ASSUME IInv,
           \/ conns' = conns
           \/ conns' = Cancelled
           \/ \E a \in Attempts : StartAttempt(a)
           \/ \E a \in Attempts, pc \in Pending : conns[a].pc \in Pending /\ Moves(a, pc)
           \/ \E a \in Attempts : conns[a].pc \in Pending /\ Closes(a)
    PROVE  Live' = Live
<1>a. conns \in [Attempts -> ConnRecords] /\ connecting \in Attempts \cup {Null}
  BY DEF IInv, TypeOK
<1>1. CASE conns' = conns
  BY <1>1, LiveKept
<1>2. CASE conns' = Cancelled
  BY <1>a, <1>2, LiveKept DEF Cancelled, ConnRecords
<1>3. ASSUME NEW a \in Attempts, StartAttempt(a)
      PROVE  Live' = Live
  <2> DEFINE c == [Unused EXCEPT !.pc = "handshake"]
  <2>1. conns' = [conns EXCEPT ![a] = c] /\ conns[a].pc = "unused" /\ c.pc = "handshake"
    BY <1>3 DEF StartAttempt, Unused
  <2> HIDE DEF c
  <2> QED
    BY <1>a, <2>1, LiveKept
<1>4. ASSUME NEW a \in Attempts, NEW pc \in Pending, conns[a].pc \in Pending, Moves(a, pc)
      PROVE  Live' = Live
  BY <1>a, <1>4, LiveKept DEF Moves, Pending, ConnRecords
<1>5. ASSUME NEW a \in Attempts, conns[a].pc \in Pending, Closes(a)
      PROVE  Live' = Live
  <2>1. Gone.pc = "closed"
    BY DEF Gone, Unused
  <2> QED
    BY <1>a, <1>5, <2>1, LiveKept DEF Closes, Pending
<1> QED
  BY <1>1, <1>2, <1>3, <1>4, <1>5

LEMMA PublishKeeps ==
    ASSUME IInv, NEW a \in Attempts, Publish(a)
    PROVE  [Promise!Next]_(Promise!vars)
<1>1. conns'[a].pc = "open" /\ \A b \in Attempts \ {a} : conns'[b] = conns[b]
  BY DEF IInv, TypeOK, Publish, Moves, ConnRecords
<1>2. a \notin Live /\ Live' = Live \cup {a}
  BY <1>1 DEF Live, Open, Publish
<1>3. Allowed /\ client' = a /\ registered' = TRUE /\ Allowed' = Allowed
  BY DEF Publish, MayPublish, Current, Allowed
<1>4. Promise!Publish(a)
  BY <1>2, <1>3 DEF Live, Allowed, Promise!Publish
<1> QED
  BY <1>4 DEF Promise!Next

\* A connection ends by the server's end, or by an operation that had detached it.
LEMMA EndKeeps ==
    ASSUME IInv, NEW a \in Attempts, conns[a].pc # "unused", Closes(a),
           client' = client \/ (client' = Null /\ client = a /\ Open(a)),
           UNCHANGED <<enabled, stopped, registered>>
    PROVE  [Promise!Next]_(Promise!vars)
<1>1. conns'[a].pc = "closed" /\ \A b \in Attempts \ {a} : conns'[b] = conns[b]
  BY DEF IInv, TypeOK, Closes, Gone, Unused
<1>2. Live' = Live \ {a}
  BY <1>1 DEF Live, Open
<1>3. CASE a \in Live
  <2>1. Promise!End(a)
    BY <1>2, <1>3 DEF Live, Promise!End
  <2> QED
    BY <2>1 DEF Promise!Next
<1>4. CASE a \notin Live
  BY <1>2, <1>4, PromiseMoves DEF Live
<1> QED
  BY <1>3, <1>4

LEMMA AfterCloseKeeps ==
    ASSUME IInv, NEW o \in Ops, ops[o].pc \in {"sink", "close"}, AfterClose(o),
           UNCHANGED <<enabled, stopped, client>>
    PROVE  [Promise!Next]_(Promise!vars)
<1>1. Live' = Live
  <2>1. conns' = conns \/ \E a \in Attempts : StartAttempt(a)
    BY DEF AfterClose, ConnectQuietly
  <2> QED
    BY <2>1, LiveKeptByAttempts
<1>2. CASE registered' = registered
  BY <1>1, <1>2, PromiseMoves
<1>3. CASE ops[o].kind \in {"disable", "stop"} /\ registered' = FALSE
  <2>1. ~Allowed /\ client = Null
    BY <1>3 DEF IInv, OffKinds, Allowed
  <2>2. Promise!Withdraw
    BY <1>1, <1>3, <2>1 DEF Live, Allowed, Promise!Withdraw
  <2> QED
    BY <2>2 DEF Promise!Next
<1> QED
  BY <1>2, <1>3 DEF AfterClose

LEMMA PassAppliesKeeps ==
    ASSUME IInv, NEW o \in Ops, PassApplies(o)
    PROVE  [Promise!Next]_(Promise!vars)
<1>1. ops[o].pc = "flow" /\ UNCHANGED stopped
  BY DEF PassApplies
<1>2. Live' = Live
  <2>1. conns' = conns \/ conns' = Cancelled
    BY DEF PassApplies, TurnOff, RebuildCancels, CancelAndDetach
  <2> QED
    BY <2>1, LiveKeptByAttempts
<1>3. CASE ops[o].kind = "keep"
  <2>1. registered' = registered /\ client' = client
    BY <1>3 DEF PassApplies, IInv, WereOpen, TypeOK
  <2> QED
    BY <1>2, <2>1, PromiseMoves
<1>4. CASE ops[o].kind = "disable"
  <2>1. registered' = registered /\ client' = client
    BY <1>4 DEF PassApplies, TurnOff, Waits
  <2> QED
    BY <1>2, <2>1, PromiseMoves
<1>5. CASE ops[o].kind = "rebuild"
  <2>1. registered' = registered /\ client' \in {client, Null} /\ enabled' = TRUE
    BY <1>5 DEF PassApplies, RebuildCancels, CancelAndDetach, Detach, Waits
  <2>2. client = Null \/ Allowed' = Allowed
    <3>1. ASSUME NEW p \in Ops, TurningOff(p) PROVE stopped
      BY <1>1, <1>5, <3>1 DEF IInv, OnePass, InPass, OffKinds, TurningOff, Passes
    <3>2. enabled \/ stopped \/ client = Null
      BY <3>1 DEF IInv, OffOrTurning, Silent
    <3> QED
      BY <1>1, <2>1, <3>2 DEF Allowed
  <2> QED
    BY <1>2, <2>1, <2>2, PromiseMoves
<1> QED
  BY <1>3, <1>4, <1>5 DEF PassApplies

LEMMA OperationKeeps ==
    ASSUME IInv, NEW o \in Ops,
           \/ Startup(o) \/ Reconnect(o) \/ CompleteOrLogout(o) \/ NoteOversize(o)
           \/ Stop(o) \/ Reload(o) \/ PassBegins(o) \/ AttemptGone(o) \/ Connected(o)
    PROVE  [Promise!Next]_(Promise!vars)
<1>1. CASE Startup(o)
  <2>1. /\ conns' = conns \/ \E a \in Attempts : StartAttempt(a)
        /\ UNCHANGED <<enabled, stopped, client, registered>>
    BY <1>1 DEF Startup, ConnectQuietly
  <2> QED
    BY <2>1, LiveKeptByAttempts, PromiseMoves
<1>2. CASE Reconnect(o)
  <2>1. /\ conns' = Cancelled /\ client' \in {client, Null}
        /\ UNCHANGED <<enabled, stopped, registered>>
    BY <1>2 DEF Reconnect, CancelAndDetach, Detach, Waits
  <2> QED
    BY <2>1, LiveKeptByAttempts, PromiseMoves DEF Allowed
<1>3. CASE CompleteOrLogout(o) \/ NoteOversize(o) \/ AttemptGone(o)
  <2>1. conns' = conns /\ client' = Null /\ UNCHANGED <<enabled, stopped, registered>>
    BY <1>3 DEF CompleteOrLogout, NoteOversize, AttemptGone, Detach
  <2> QED
    BY <2>1, LiveKeptByAttempts, PromiseMoves DEF Allowed
<1>4. CASE Stop(o)
  <2>1. (conns' = conns \/ conns' = Cancelled) /\ UNCHANGED <<client, registered>>
    BY <1>4 DEF Stop, TurnOff, Waits
  <2> QED
    BY <2>1, LiveKeptByAttempts, PromiseMoves
<1>5. CASE Reload(o) \/ Connected(o)
  BY <1>5, LiveKeptByAttempts, PromiseMoves DEF Reload, Connected
<1>6. CASE PassBegins(o)
  <2>1. (conns' = conns \/ conns' = Outdated) /\ UNCHANGED <<client, registered>>
    BY <1>6 DEF PassBegins
  <2>2. conns' = Outdated => Live' = Live
    BY LiveKept DEF Outdated, ConnRecords, IInv, TypeOK
  <2> QED
    BY <2>1, <2>2, LiveKeptByAttempts, PromiseMoves
<1> QED
  BY <1>1, <1>2, <1>3, <1>4, <1>5, <1>6

LEMMA PromiseStep ==
    ASSUME IInv, [Next]_vars
    PROVE  [Promise!Next]_(Promise!vars)
<1>1. CASE UNCHANGED vars
  BY <1>1, LiveKeptByAttempts, PromiseMoves DEF vars
<1>2. ASSUME NEW o \in Ops, Flushed(o) \/ Closed(o)
      PROVE  [Promise!Next]_(Promise!vars)
  <2>1. CASE AfterClose(o) /\ ops[o].pc \in {"sink", "close"}
    BY <1>2, <2>1, AfterCloseKeeps DEF Flushed, Closed
  <2>2. CASE Flushed(o) /\ ops[o].client # Null
    <3>1. ops[o].client \in Attempts
      BY <2>2 DEF IInv, TypeOK, OpRecords
    <3>2. conns[ops[o].client].pc # "unused"
      BY <2>2 DEF IInv, WereOpen
    <3> QED
      BY <2>2, <3>1, <3>2, EndKeeps DEF Flushed
  <2> QED
    BY <1>2, <2>1, <2>2 DEF Flushed, Closed
<1>3. ASSUME NEW a \in Attempts, Drop(a)
      PROVE  [Promise!Next]_(Promise!vars)
  BY <1>3, EndKeeps DEF Drop, Open
<1>4. ASSUME NEW a \in Attempts,
             \/ Handshaken(a) \/ Superseded(a) \/ AttemptFails(a) \/ AttemptEnds(a)
             \/ ListChanged(a) \/ SyncRejected(a)
      PROVE  [Promise!Next]_(Promise!vars)
  <2>1. /\ \/ conns' = conns
           \/ \E pc \in Pending : conns[a].pc \in Pending /\ Moves(a, pc)
           \/ conns[a].pc \in Pending /\ Closes(a)
        /\ UNCHANGED <<client, registered>>
    BY <1>4 DEF Handshaken, Superseded, AttemptFails, AttemptEnds, ListChanged, SyncRejected,
                Bounded, Pending
  <2> QED
    BY <2>1, LiveKeptByAttempts, PromiseMoves
<1>5. ASSUME NEW a \in Attempts, SyncAnswered(a)
      PROVE  [Promise!Next]_(Promise!vars)
  <2>1. a \in Live /\ Live' = Live
    BY <1>5, LiveKeptByAttempts DEF SyncAnswered, Live
  <2>2. Promise!Announce
    BY <1>5, <2>1 DEF SyncAnswered, Live, Promise!Announce
  <2> QED
    BY <2>2 DEF Promise!Next
<1>6. CASE \/ \E k \in Callers : Call(k) \/ CallConnected(k) \/ CallEnds(k) \/ CallRejected(k)
           \/ BackoffEnds
  <2>1. (conns' = conns \/ \E a \in Attempts : StartAttempt(a)) /\ UNCHANGED <<client, registered>>
    BY <1>6 DEF Call, CallConnected, CallEnds, CallRejected, BackoffEnds
  <2> QED
    BY <2>1, LiveKeptByAttempts, PromiseMoves
<1>7. CASE \E o \in Ops : \/ Startup(o) \/ Reconnect(o) \/ CompleteOrLogout(o) \/ NoteOversize(o)
                          \/ Stop(o) \/ Reload(o) \/ PassBegins(o) \/ AttemptGone(o)
                          \/ Connected(o)
  BY <1>7, OperationKeeps
<1>8. CASE \E o \in Ops : PassApplies(o)
  BY <1>8, PassAppliesKeeps
<1>9. CASE \E a \in Attempts : Publish(a)
  BY <1>9, PublishKeeps
<1> QED
  BY <1>1, <1>2, <1>3, <1>4, <1>5, <1>6, <1>7, <1>8, <1>9, Zenon DEF Next, Urgent, Event

-----------------------------------------------------------------------------
(* The theorems *)

\* The types of the runtime, of its attempts, operations and calls; and rt.connectPromise
\* is the only attempt under way (mcp-manager.ts connectServer, doConnect).
THEOREM ServerTyped == Spec => []TypeOK
<1>1. IInv => TypeOK
  BY DEF IInv
<1> QED
  BY <1>1, Invariant, PTL

\* A disabled or stopped server publishes nothing and connects nowhere once the pass or
\* the stop is over, with any number of operations overlapping (disableServer, stop,
\* isAttemptCurrent).
THEOREM ServerStaysOff == Spec => []OffStaysOff
<1>1. IInv => OffStaysOff
  BY DEF IInv, TypeOK, OnePass, OffKinds, OffOrTurning, Silent, TurningOff, InPass, Passes, OffStaysOff, Off
<1> QED
  BY <1>1, Invariant, PTL

\* No client built from edited settings outlives the pass that read the edit
\* (reloadOnce, cancelConnectAttempt, closeClient).
THEOREM ServerIsCurrent == Spec => []ServesCurrentConfig
<1>1. IInv => ServesCurrentConfig
  BY DEF IInv, TypeOK, Replaced, Replaces, InPass, Passes, ServesCurrentConfig
<1> QED
  BY <1>1, Invariant, PTL

\* Overlapping reloads are applied in the order in which they read the file (reloadQueue).
THEOREM ReloadsInOrder == Spec => []LastReloadWins
<1>1. IInv => LastReloadWins
  BY DEF IInv, OnePass, LastReloadWins
<1> QED
  BY <1>1, Invariant, PTL

\* The manager implements what the rest of the gateway may rely on.
THEOREM ServerKeepsPromise == Spec => KeepsPromise
<1>1. Init => Promise!Init
  <2> SUFFICES ASSUME Init PROVE Promise!Init
    OBVIOUS
  <2>1. CASE client = Null /\ registered = FALSE
    BY <2>1 DEF Init, Promise!Init, Open
  <2>2. CASE /\ client \in Attempts /\ registered = TRUE
             /\ conns = [a \in Attempts |->
                           IF a = client THEN [Unused EXCEPT !.pc = "open"] ELSE Unused]
    <3>1. [Unused EXCEPT !.pc = "open"].pc = "open"
      BY DEF Unused
    <3>2. conns[client] = [Unused EXCEPT !.pc = "open"]
      BY <2>2
    <3>3. Open(client) /\ client # Null
      BY <2>2, <3>1, <3>2, NullAssumption DEF Open
    <3> QED
      BY <2>2, <3>3 DEF Init, Promise!Init
  <2> QED
    BY <2>1, <2>2 DEF Init
<1>2. IInv /\ [Next]_vars => [Promise!Next]_(Promise!vars)
  BY PromiseStep
<1> QED
  BY <1>1, <1>2, Invariant, PTL DEF Spec, KeepsPromise, Promise!Spec
=============================================================================
