----------------------------- MODULE McpServer ------------------------------
(***************************************************************************)
(* One server of the MCP manager (src/mcp/mcp-manager.ts): connection      *)
(* attempts and the operations that start, cancel, join and overtake them. *)
(*                                                                         *)
(* An operation is a route, a reload pass, a background closeClient or the *)
(* stop of the process, and runs from await to await.  A continuation that *)
(* only awaited something already settled runs before any other event      *)
(* (Quiet).  The generation counter is compared with the one an attempt    *)
(* captured, so an attempt only carries whether it was bumped since.       *)
(***************************************************************************)
EXTENDS Integers, FiniteSets

CONSTANTS
    Ops,             \* invocations of the manager's operations in their order
    Callers,         \* tool calls and resource requests
    Attempts,        \* runs of doConnect in their order, each with its client
    Kinds,           \* the kinds of operations that happen
    Null             \* the absent value

AllKinds == {"startup", "reload", "reconnect", "logout", "complete", "oversize", "stop"}

ASSUME OrderAssumption == Ops \subseteq Nat /\ Attempts \subseteq Nat
ASSUME NullAssumption ==
    Null \notin Attempts /\ Null \notin Ops /\ Null \notin Callers
ASSUME NullIsNoKind == Null \notin AllKinds \cup {"keep", "disable", "rebuild"}
ASSUME DistinctAssumption == Callers \cap Attempts = {}
ASSUME KindsAssumption == Kinds \subseteq AllKinds

VARIABLES
    section,      \* whether the section read last has the server enabled
    enabled, stopped,   \* rt.enabled, this.stopped
    state,        \* rt.state.state
    client,       \* rt.client
    connecting,   \* rt.connectPromise
    closing,      \* rt.closing
    oversize,     \* rt.oversize: the closeClient that an over-limit frame started
    backoff,      \* rt.nextRetryAt lies in the future
    registered,   \* whether the server's tools are in the registry
    conns,        \* every attempt and the connection it became: superseded by a bump of
                  \* rt.generation, built from settings that were edited since
    syncs,        \* connections with a tools/list of syncTools in flight
    ops, calls

vars == <<section, enabled, stopped, state, client, connecting, closing, oversize,
          backoff, registered, conns, syncs, ops, calls>>

Pending == {"handshake", "listing", "failing"}
Unused == [pc |-> "unused", cancelled |-> FALSE, outdated |-> FALSE]
Gone == [Unused EXCEPT !.pc = "closed"]
NewOp == [kind |-> Null, pc |-> "idle", waits |-> Null, client |-> Null,
          flight |-> {}, claimed |-> FALSE]
NewCall == [pc |-> "idle", waits |-> Null, client |-> Null]
Passes == {"keep", "disable", "rebuild"}

ConnRecords == [pc : Pending \cup {"unused", "open", "closed"}, cancelled : BOOLEAN,
                outdated : BOOLEAN]
OpRecords == [kind : AllKinds \cup Passes \cup {Null},
              pc : {"idle", "queued", "flow", "cancel", "sink", "close", "connect", "done"},
              waits : Attempts \cup {Null}, client : Attempts \cup {Null},
              flight : SUBSET (Callers \cup Attempts), claimed : BOOLEAN]
CallRecords == [pc : {"idle", "connecting", "asking", "done", "failed"},
                waits : Attempts \cup {Null}, client : Attempts \cup {Null}]

\* rt.connectPromise is the only attempt under way.
OneAttempt == \A a \in Attempts : conns[a].pc \in Pending <=> connecting = a

\* The values of the variables; and never two handshakes at once, so no second child process
\* of a stdio server beside the first.
TypeOK ==
    /\ OneAttempt
    /\ section \in BOOLEAN /\ enabled \in BOOLEAN /\ stopped \in BOOLEAN
    /\ closing \in BOOLEAN /\ backoff \in BOOLEAN /\ registered \in BOOLEAN
    /\ state \in {"disabled", "disconnected", "connecting", "connected", "error"}
    /\ client \in Attempts \cup {Null} /\ connecting \in Attempts \cup {Null}
    /\ oversize \in Ops \cup {Null}
    /\ conns \in [Attempts -> ConnRecords] /\ syncs \subseteq Attempts
    /\ ops \in [Ops -> OpRecords] /\ calls \in [Callers -> CallRecords]

\* The process has just built its runtimes, or the server has been serving since.
Init ==
    /\ section \in BOOLEAN /\ enabled = section
    /\ stopped = FALSE /\ connecting = Null /\ closing = FALSE
    /\ oversize = Null /\ backoff = FALSE /\ syncs = {}
    /\ ops = [o \in Ops |-> NewOp] /\ calls = [k \in Callers |-> NewCall]
    /\ \/ /\ state = IF enabled THEN "disconnected" ELSE "disabled"
          /\ client = Null /\ registered = FALSE
          /\ conns = [a \in Attempts |-> Unused]
       \/ /\ enabled /\ state = "connected" /\ registered = TRUE
          /\ client \in Attempts /\ \A a \in Attempts : client <= a
          /\ conns = [a \in Attempts |->
                        IF a = client THEN [Unused EXCEPT !.pc = "open"] ELSE Unused]

-----------------------------------------------------------------------------
Settled(a) == a # Null => conns[a].pc \notin Pending
Open(a) == conns[a].pc = "open"

\* isAttemptCurrent
Current(a) == enabled /\ ~stopped /\ ~conns[a].cancelled

InPass(o) == ops[o].kind \in Passes /\ ops[o].pc # "done"

\* The listeners of a connection are disposed when an operation detaches it.
Heard(a) == Open(a) /\ \A o \in Ops : ~(ops[o].pc = "sink" /\ ops[o].client = a)

\* Mutant of Lost: a close by the manager leaves the pending requests to their timeouts.
LostIfServing(c) == ~Open(c) /\ client = c

\* Closing a connection, by either side, rejects its pending requests at once.
Lost(c) == ~Open(c)

\* Continuations whose await is over.
WokenOp(o) == /\ ops[o].pc = "cancel" /\ ops[o].kind \in {"rebuild", "reconnect"}
              /\ Settled(ops[o].waits)
WokenCall(k) == \/ calls[k].pc = "connecting" /\ Settled(calls[k].waits)
                \/ calls[k].pc = "asking" /\ Lost(calls[k].client)
Quiet == /\ \A o \in Ops : ~WokenOp(o)
         /\ \A k \in Callers : ~WokenCall(k)
         /\ \A a \in syncs : Open(a)

-----------------------------------------------------------------------------
(* Connection attempts                                                     *)

\* doConnect up to its first await.
StartAttempt(a) ==
    /\ conns[a] = Unused /\ \A b \in Attempts : conns[b] = Unused => a <= b
    /\ conns' = [conns EXCEPT ![a] = [Unused EXCEPT !.pc = "handshake"]]
    /\ connecting' = a /\ state' = "connecting" /\ oversize' = Null

Starts(o) == ops[o] = NewOp /\ \A p \in Ops : ops[p] = NewOp => o <= p

\* The operation returns; the requests that were in flight with its frame are kept.
Finished(op) == [NewOp EXCEPT !.kind = op.kind, !.pc = "done", !.flight = op.flight]

Joins(op, a) == [op EXCEPT !.pc = "connect", !.waits = a, !.client = Null]

\* connectQuietly: refused, joined to the attempt in flight, or a new attempt.
ConnectQuietly(o, op) ==
    \/ /\ stopped \/ ~enabled
       /\ ops' = [ops EXCEPT ![o] = Finished(op)]
       /\ UNCHANGED <<conns, connecting, state, oversize>>
    \/ /\ ~stopped /\ enabled /\ connecting # Null
       /\ ops' = [ops EXCEPT ![o] = Joins(op, connecting)]
       /\ UNCHANGED <<conns, connecting, state, oversize>>
    \/ /\ ~stopped /\ enabled /\ connecting = Null
       /\ \E a \in Attempts :
            /\ StartAttempt(a)
            /\ ops' = [ops EXCEPT ![o] = Joins(op, a)]

Moves(a, pc) == conns' = [conns EXCEPT ![a].pc = pc]
Closes(a) == conns' = [conns EXCEPT ![a] = Gone]

\* initialize answered: the attempt asks for the tools, or finds itself superseded.
Handshaken(a) ==
    /\ conns[a].pc = "handshake"
    /\ Moves(a, IF Current(a) THEN "listing" ELSE "failing")
    /\ UNCHANGED <<section, enabled, stopped, state, client, connecting, closing,
                   oversize, backoff, registered, syncs, ops, calls>>

\* Mutant of ClearedPromise: a cancelled attempt stays in rt.connectPromise.
KeptPromise(a) == IF Current(a) THEN Null ELSE connecting

\* The finally block of connectServer.
ClearedPromise(a) == IF connecting = a THEN Null ELSE connecting

\* Mutant of MayPublish: the second check, after tools/list, is missing.
MayPublishUnchecked(a) == TRUE

MayPublish(a) == Current(a)

\* tools/list answered: the connection is published with its tools.  A client that
\* was published before is not looked at.
Publish(a) ==
    /\ conns[a].pc = "listing" /\ MayPublish(a)
    /\ Moves(a, "open") /\ client' = a /\ connecting' = ClearedPromise(a)
    /\ state' = "connected" /\ backoff' = FALSE /\ registered' = TRUE
    /\ UNCHANGED <<section, enabled, stopped, closing, oversize, syncs, ops, calls>>

Superseded(a) ==
    /\ conns[a].pc = "listing" /\ ~MayPublish(a)
    /\ Moves(a, "failing")
    /\ UNCHANGED <<section, enabled, stopped, state, client, connecting, closing,
                   oversize, backoff, registered, syncs, ops, calls>>

\* Mutant of Bounded: only the handshake is under a timeout.
BoundedHandshake == {"handshake"}

\* What withTimeout bounds.
Bounded == {"handshake", "listing"}

\* An error, or the timeout.
AttemptFails(a) ==
    /\ conns[a].pc \in Bounded
    /\ Moves(a, "failing")
    /\ UNCHANGED <<section, enabled, stopped, state, client, connecting, closing,
                   oversize, backoff, registered, syncs, ops, calls>>

\* The catch block once the attempt's client is closed.
AttemptEnds(a) ==
    /\ conns[a].pc = "failing"
    /\ Closes(a) /\ connecting' = ClearedPromise(a)
    /\ IF Current(a) THEN state' = "error" /\ backoff' = TRUE
                     ELSE UNCHANGED <<state, backoff>>
    /\ UNCHANGED <<section, enabled, stopped, client, closing, oversize, registered,
                   syncs, ops, calls>>

-----------------------------------------------------------------------------
(* Established connections                                                 *)

\* The server's end closes: handleClientClosed, which looks away while any client is closed.
\* The tools stay registered for a lazy reconnect.
Drop(a) ==
    /\ Open(a) /\ Closes(a)
    /\ IF client = a /\ ~closing
       THEN client' = Null /\ state' = "disconnected" /\ backoff' = FALSE
       ELSE UNCHANGED <<client, state, backoff>>
    /\ UNCHANGED <<section, enabled, stopped, connecting, closing, oversize, registered,
                   syncs, ops, calls>>

\* syncTools, on a list_changed notification of any connection still heard.
ListChanged(a) ==
    /\ Heard(a) /\ client # Null /\ state = "connected"
    /\ Open(client)
    /\ syncs' = syncs \cup {client}
    /\ UNCHANGED <<section, enabled, stopped, state, client, connecting, closing,
                   oversize, backoff, registered, conns, ops, calls>>

SyncAnswered(a) ==
    /\ a \in syncs /\ Open(a)
    /\ syncs' = syncs \ {a} /\ registered' = TRUE
    /\ UNCHANGED <<section, enabled, stopped, state, client, connecting, closing,
                   oversize, backoff, conns, ops, calls>>

\* takeOversizeFailure: the first request that was in flight with the over-limit frame
\* reports the server disconnected once the closeClient it started has ended.
Claims(x) == IF oversize = Null THEN FALSE ELSE x \in ops[oversize].flight
Claim ==
    /\ oversize' = Null
    /\ IF ops[oversize].pc = "done"
       THEN state' = "disconnected" /\ UNCHANGED ops
       ELSE ops' = [ops EXCEPT ![oversize].claimed = TRUE] /\ UNCHANGED state

SyncRejected(a) ==
    /\ a \in syncs /\ ~Open(a)
    /\ syncs' = syncs \ {a}
    /\ IF Claims(a) THEN Claim ELSE UNCHANGED <<oversize, state, ops>>
    /\ UNCHANGED <<section, enabled, stopped, client, connecting, closing, backoff,
                   registered, conns, calls>>

-----------------------------------------------------------------------------
(* Operations                                                              *)

\* cancelConnectAttempt up to its await: the attempt in flight loses the runtime.
Cancelled == IF connecting = Null THEN conns
             ELSE [conns EXCEPT ![connecting].cancelled = TRUE]

\* closeClient up to its first await.
Detach(o, op) ==
    /\ ops' = [ops EXCEPT ![o] = [op EXCEPT !.pc = "sink", !.waits = Null, !.client = client]]
    /\ client' = Null

Waits(o, op) ==
    /\ ops' = [ops EXCEPT ![o] = [op EXCEPT !.pc = "cancel", !.waits = connecting]]
    /\ UNCHANGED client

\* cancelConnectAttempt, then closeClient.
CancelAndDetach(o, op) ==
    /\ conns' = Cancelled
    /\ IF connecting = Null THEN Detach(o, op) ELSE Waits(o, op)

\* Mutant of TurnOff: whoever turns the server off does not wait for the attempt in flight.
TurnOffAtOnce(o, op) == conns' = Cancelled /\ Detach(o, op)

\* cancelConnectAttempt and cancelPendingFlow of a disable or a stop.
TurnOff(o, op) == conns' = Cancelled /\ Waits(o, op)

\* The server's turn in the one connect pass of the process: by then a tool call may have
\* connected it.
Startup(o) ==
    /\ Starts(o) /\ "startup" \in Kinds
    /\ \A p \in Ops : ops[p].kind # "startup"
    /\ ConnectQuietly(o, [NewOp EXCEPT !.kind = "startup"])
    /\ UNCHANGED <<section, enabled, stopped, client, closing, backoff, registered,
                   syncs, calls>>

Reconnect(o) ==
    /\ Starts(o) /\ "reconnect" \in Kinds
    /\ CancelAndDetach(o, [NewOp EXCEPT !.kind = "reconnect"])
    /\ UNCHANGED <<section, enabled, stopped, state, connecting, closing, oversize,
                   backoff, registered, syncs, calls>>

\* completeFlow and logout close the client and cancel nothing.
CompleteOrLogout(o) ==
    /\ Starts(o)
    /\ \E kind \in {"complete", "logout"} \cap Kinds :
            Detach(o, [NewOp EXCEPT !.kind = kind])
    /\ UNCHANGED <<section, enabled, stopped, state, connecting, closing, oversize,
                   backoff, registered, conns, syncs, calls>>

\* noteTransportError: a connection, or an attempt, met a frame over the limit.
NoteOversize(o) ==
    /\ Starts(o) /\ "oversize" \in Kinds
    /\ \E a \in Attempts : conns[a].pc \in {"handshake", "listing"} \/ Heard(a)
    /\ oversize' = o
    /\ Detach(o, [NewOp EXCEPT !.kind = "oversize",
                    !.flight = syncs \cup {k \in Callers : calls[k].pc = "asking"}])
    /\ UNCHANGED <<section, enabled, stopped, state, connecting, closing, backoff,
                   registered, conns, syncs, calls>>

Stop(o) ==
    /\ Starts(o) /\ "stop" \in Kinds
    /\ IF stopped
       THEN /\ ops' = [ops EXCEPT ![o] = Finished([NewOp EXCEPT !.kind = "stop"])]
            /\ UNCHANGED <<conns, client>>
       ELSE TurnOff(o, [NewOp EXCEPT !.kind = "stop"])
    /\ stopped' = TRUE
    /\ UNCHANGED <<section, enabled, state, connecting, closing, oversize, backoff,
                   registered, syncs, calls>>

Reload(o) ==
    /\ Starts(o) /\ "reload" \in Kinds
    /\ ops' = [ops EXCEPT ![o] = [NewOp EXCEPT !.kind = "reload", !.pc = "queued"]]
    /\ UNCHANGED <<section, enabled, stopped, state, client, connecting, closing,
                   oversize, backoff, registered, conns, syncs, calls>>

\* Mutant of MyTurn: passes are not chained.
AnyTurn == TRUE

\* reloadQueue
MyTurn == \A p \in Ops : ~InPass(p)

\* The settings that connections are built from were edited.
Outdated == [a \in Attempts |-> IF conns[a].pc \in Pending \cup {"open"}
                                THEN [conns[a] EXCEPT !.outdated = TRUE] ELSE conns[a]]

\* reloadOnce reads config.yaml, up to the await of cancelPendingFlow.  A server that never
\* had an attempt has no frame limit yet, which counts as a changed connection.
PassBegins(o) ==
    /\ ops[o].kind = "reload" /\ ops[o].pc = "queued" /\ MyTurn
    /\ \/ /\ stopped
          /\ ops' = [ops EXCEPT ![o] = Finished(ops[o])]
          /\ UNCHANGED <<section, conns>>
       \/ /\ ~stopped
          /\ section' \in BOOLEAN
          /\ \E edited \in BOOLEAN :
               LET fresh == \A a \in Attempts : conns[a] = Unused
                   pass == CASE ~section' -> "disable"
                             [] section' /\ enabled /\ ~(edited \/ fresh) -> "keep"
                             [] section' /\ ~(enabled /\ ~(edited \/ fresh)) -> "rebuild"
               IN /\ ops' = [ops EXCEPT ![o].pc = "flow", ![o].kind = pass]
                  /\ conns' = IF edited THEN Outdated ELSE conns
    /\ UNCHANGED <<enabled, stopped, state, client, connecting, closing, oversize, backoff,
                   registered, syncs, calls>>

\* Mutant of RebuildCancels: a rebuild leaves the attempt in flight to its own devices.
RebuildDetaches(o) == Detach(o, ops[o]) /\ UNCHANGED conns

RebuildCancels(o) == CancelAndDetach(o, ops[o])

PassApplies(o) ==
    /\ ops[o].pc = "flow"
    /\ \/ /\ ops[o].kind = "keep"
          /\ ops' = [ops EXCEPT ![o] = Finished(ops[o])]
          /\ registered' = (registered \/ (state = "connected" /\ client # Null))
          /\ UNCHANGED <<enabled, conns, client>>
       \/ /\ ops[o].kind = "disable"
          /\ enabled' = FALSE
          /\ TurnOff(o, ops[o])
          /\ UNCHANGED registered
       \/ /\ ops[o].kind = "rebuild"
          /\ enabled' = TRUE
          /\ RebuildCancels(o)
          /\ UNCHANGED registered
    /\ UNCHANGED <<section, stopped, state, connecting, closing, oversize, backoff,
                   syncs, calls>>

\* The cancelled attempt has settled.
AttemptGone(o) ==
    /\ ops[o].pc = "cancel" /\ Settled(ops[o].waits)
    /\ Detach(o, ops[o])
    /\ UNCHANGED <<section, enabled, stopped, state, connecting, closing, oversize,
                   backoff, registered, conns, syncs, calls>>

\* What follows closeClient.
AfterClose(o) ==
    \/ /\ ops[o].kind \in {"disable", "stop"}
       /\ registered' = FALSE /\ state' = "disabled"
       /\ ops' = [ops EXCEPT ![o] = Finished(ops[o])]
       /\ UNCHANGED <<conns, connecting, oversize, backoff>>
    \/ /\ ops[o].kind = "logout"
       /\ state' = "disabled"
       /\ ops' = [ops EXCEPT ![o] = Finished(ops[o])]
       /\ UNCHANGED <<conns, connecting, oversize, backoff, registered>>
    \/ /\ ops[o].kind = "oversize"
       /\ state' = IF ops[o].claimed THEN "disconnected" ELSE state
       /\ ops' = [ops EXCEPT ![o] = Finished(ops[o])]
       /\ UNCHANGED <<conns, connecting, oversize, backoff, registered>>
    \/ /\ ops[o].kind \in {"reconnect", "rebuild", "complete"}
       /\ backoff' = (backoff /\ ops[o].kind # "reconnect")
       /\ ConnectQuietly(o, ops[o])
       /\ UNCHANGED registered

\* The log sink is flushed.
Flushed(o) ==
    /\ ops[o].pc = "sink"
    /\ \/ /\ ops[o].client = Null /\ AfterClose(o)
          /\ UNCHANGED closing
       \/ /\ ops[o].client # Null
          /\ closing' = TRUE
          /\ Closes(ops[o].client)
          /\ ops' = [ops EXCEPT ![o].pc = "close"]
          /\ UNCHANGED <<state, connecting, oversize, backoff, registered>>
    /\ UNCHANGED <<section, enabled, stopped, client, syncs, calls>>

\* client.close() has returned.
Closed(o) ==
    /\ ops[o].pc = "close" /\ closing' = FALSE
    /\ AfterClose(o)
    /\ UNCHANGED <<section, enabled, stopped, client, syncs, calls>>

Connected(o) ==
    /\ ops[o].pc = "connect" /\ Settled(ops[o].waits)
    /\ ops' = [ops EXCEPT ![o] = Finished(ops[o])]
    /\ UNCHANGED <<section, enabled, stopped, state, client, connecting, closing,
                   oversize, backoff, registered, conns, syncs, calls>>

-----------------------------------------------------------------------------
(* Tool calls                                                              *)

Asks(k, c) == [calls EXCEPT ![k] = [NewCall EXCEPT !.pc = "asking", !.client = c]]

\* ensureConnected: connected, refused, joined, or a lazy reconnect.
Call(k) ==
    /\ calls[k].pc = "idle"
    /\ \/ /\ ~stopped /\ enabled /\ state = "connected" /\ client # Null
          /\ calls' = Asks(k, client)
          /\ UNCHANGED <<conns, connecting, state, oversize>>
       \/ /\ stopped \/ ~enabled \/ (backoff /\ ~(state = "connected" /\ client # Null))
          /\ calls' = [calls EXCEPT ![k] = [NewCall EXCEPT !.pc = "failed"]]
          /\ UNCHANGED <<conns, connecting, state, oversize>>
       \/ /\ ~stopped /\ enabled /\ ~backoff /\ ~(state = "connected" /\ client # Null)
          /\ \/ /\ connecting # Null
                /\ calls' = [calls EXCEPT ![k].pc = "connecting", ![k].waits = connecting]
                /\ UNCHANGED <<conns, connecting, state, oversize>>
             \/ /\ connecting = Null
                /\ \E a \in Attempts :
                     /\ StartAttempt(a)
                     /\ calls' = [calls EXCEPT ![k].pc = "connecting", ![k].waits = a]
    /\ UNCHANGED <<section, enabled, stopped, client, closing, backoff, registered,
                   syncs, ops>>

CallConnected(k) ==
    /\ calls[k].pc = "connecting" /\ Settled(calls[k].waits)
    /\ calls' = IF Open(calls[k].waits) /\ state = "connected" /\ client # Null
                THEN Asks(k, client) ELSE [calls EXCEPT ![k] = [NewCall EXCEPT !.pc = "failed"]]
    /\ UNCHANGED <<section, enabled, stopped, state, client, connecting, closing,
                   oversize, backoff, registered, conns, syncs, ops>>

\* An answer, an error answer, or the request's timeout.
CallEnds(k) ==
    /\ calls[k].pc = "asking" /\ Open(calls[k].client)
    /\ calls' = [calls EXCEPT ![k] = [NewCall EXCEPT !.pc = "done"]]
    /\ UNCHANGED <<section, enabled, stopped, state, client, connecting, closing,
                   oversize, backoff, registered, conns, syncs, ops>>

\* The connection closed under the call: takeOversizeFailure or markCallFailure, which
\* writes the runtime's state whatever is connected by now.  A resource request marks nothing.
CallRejected(k) ==
    /\ calls[k].pc = "asking" /\ Lost(calls[k].client)
    /\ calls' = [calls EXCEPT ![k] = [NewCall EXCEPT !.pc = "failed"]]
    /\ IF Claims(k) THEN Claim /\ UNCHANGED backoff
       ELSE /\ \/ state' = "disconnected" /\ backoff' = TRUE
               \/ UNCHANGED <<state, backoff>>
            /\ UNCHANGED <<oversize, ops>>
    /\ UNCHANGED <<section, enabled, stopped, client, connecting, closing, registered,
                   conns, syncs>>

BackoffEnds ==
    /\ backoff /\ backoff' = FALSE
    /\ UNCHANGED <<section, enabled, stopped, state, client, connecting, closing,
                   oversize, registered, conns, syncs, ops, calls>>

-----------------------------------------------------------------------------
Urgent ==
    \/ \E o \in Ops : WokenOp(o) /\ AttemptGone(o)
    \/ \E k \in Callers : CallConnected(k) \/ CallRejected(k)
    \/ \E a \in Attempts : SyncRejected(a)

Event ==
    \/ \E o \in Ops : \/ Startup(o) \/ Reconnect(o) \/ CompleteOrLogout(o) \/ NoteOversize(o)
                      \/ Stop(o) \/ Reload(o) \/ PassBegins(o) \/ PassApplies(o)
                      \/ AttemptGone(o) \/ Flushed(o) \/ Closed(o) \/ Connected(o)
    \/ \E a \in Attempts : \/ Handshaken(a) \/ Publish(a) \/ Superseded(a) \/ AttemptFails(a)
                           \/ AttemptEnds(a) \/ Drop(a) \/ ListChanged(a) \/ SyncAnswered(a)
    \/ \E k \in Callers : Call(k) \/ CallEnds(k)
    \/ BackoffEnds

Next == Urgent \/ (Quiet /\ Event)

Spec == Init /\ [][Next]_vars

\* Timeouts bound attempts and requests, transports close within their grace period, and
\* the rest are continuations.
Fairness ==
    /\ \A o \in Ops : /\ WF_vars(PassBegins(o)) /\ WF_vars(PassApplies(o))
                      /\ WF_vars(AttemptGone(o)) /\ WF_vars(Flushed(o))
                      /\ WF_vars(Closed(o)) /\ WF_vars(Connected(o))
    /\ \A a \in Attempts : /\ WF_vars(Superseded(a)) /\ WF_vars(AttemptFails(a))
                           /\ WF_vars(AttemptEnds(a)) /\ WF_vars(SyncRejected(a))
    /\ \A k \in Callers : /\ WF_vars(CallConnected(k)) /\ WF_vars(CallRejected(k))
                          /\ WF_vars(CallEnds(k))

FairSpec == Spec /\ Fairness

-----------------------------------------------------------------------------
(* Properties                                                              *)

\* A server that is off stays off: once the pass that disabled it, or the stop of the
\* manager, is over, no client is published and no attempt is on its way, whatever was
\* connecting, reconnecting or logging in meanwhile.
Off == \/ ~enabled /\ \A o \in Ops : ~InPass(o)
       \/ stopped /\ \A o \in Ops : ops[o].kind = "stop" => ops[o].pc \in {"idle", "done"}
OffStaysOff == Off => client = Null /\ connecting = Null

\* Nobody is served by an outdated configuration: the published client was built from the
\* settings of the last reload, unless that pass has yet to take it down.
ServesCurrentConfig ==
    client # Null => \/ ~conns[client].outdated
                     \/ \E o \in Ops : InPass(o) /\ ops[o].pc \in {"flow", "cancel"}

\* Overlapping reloads leave what the last file read says: no earlier pass that was slow
\* turns the server on or off afterwards.
LastReloadWins ==
    (\A o \in Ops : ~InPass(o)) => enabled = section

\* The server keeps the promise made to the rest of the gateway.
Promise == INSTANCE McpPromise WITH
    Connections <- Attempts,
    allowed <- enabled /\ ~stopped,
    live <- {a \in Attempts : Open(a)},
    serving <- client,
    listed <- registered
KeepsPromise == Promise!Spec

\* Whatever a server does, every operation returns: a failing or silent server blocks
\* neither startup, nor a reload and those queued behind it, nor the stop.
OperationsReturn == \A o \in Ops : (ops[o].pc # "idle") ~> (ops[o].pc = "done")

\* Every tool call gets an answer or an error.
CallsReturn == \A k \in Callers : (calls[k].pc # "idle") ~> (calls[k].pc \in {"done", "failed"})

\* What tests/mcp/manager.test.ts:672 states: stop() closes connections.  Once it is over
\* and nothing else is under way, no connection is left open.
StopClosesConnections ==
    (/\ stopped /\ connecting = Null
     /\ \A o \in Ops : ops[o].pc \in {"idle", "done"}) => \A a \in Attempts : ~Open(a)
=============================================================================
