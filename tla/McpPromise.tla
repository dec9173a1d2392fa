----------------------------- MODULE McpPromise -----------------------------
(***************************************************************************)
(* What the gateway may rely on from one server of the MCP manager         *)
(* (src/mcp/mcp-manager.ts), whatever connects, reloads, drops or stops    *)
(* behind it: a client is published only while the configuration allows    *)
(* the server, its tools come and stay with its connections, and they are  *)
(* withdrawn only from a server that is not allowed and is not served.     *)
(* McpServer implements this specification.                                *)
(***************************************************************************)
CONSTANTS
    Connections,     \* every connection ever attempted
    Null             \* the absent connection

VARIABLES
    allowed,      \* enabled by the configuration, manager not stopped
    live,         \* the connections that are open
    serving,      \* the connection that calls are sent to
    listed        \* whether the server's tools are registered

vars == <<allowed, live, serving, listed>>

Init ==
    /\ allowed \in BOOLEAN
    /\ live \in SUBSET Connections
    /\ serving \in live \cup {Null}
    /\ listed = (serving # Null)

\* A reload enables or disables the server; a stop disallows it.
Permit == allowed' \in BOOLEAN /\ UNCHANGED <<live, serving, listed>>

\* A new connection is published and brings its tools.
Publish(c) ==
    /\ allowed /\ c \notin live
    /\ live' = live \cup {c} /\ serving' = c /\ listed' = TRUE
    /\ UNCHANGED allowed

\* The manager lets go of the connection; the tools stay.
Detach == serving' = Null /\ UNCHANGED <<allowed, live, listed>>

\* A connection ends, by either side.
End(c) ==
    /\ c \in live /\ live' = live \ {c}
    /\ serving' \in {serving, Null} /\ (serving' # serving => serving = c)
    /\ UNCHANGED <<allowed, listed>>

\* Only an open connection can announce tools.
Announce == live # {} /\ listed' = TRUE /\ UNCHANGED <<allowed, live, serving>>

Withdraw ==
    /\ ~allowed /\ serving = Null /\ listed' = FALSE
    /\ UNCHANGED <<allowed, live, serving>>

Next ==
    \/ Permit \/ Detach \/ Announce \/ Withdraw
    \/ \E c \in Connections : Publish(c) \/ End(c)

Spec == Init /\ [][Next]_vars
=============================================================================
