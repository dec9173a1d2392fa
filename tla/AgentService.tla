---------------------------- MODULE AgentService ----------------------------
(***************************************************************************)
(* The turns of one session: AgentService (src/agent/agent-service.ts) and *)
(* the Agent it drives (src/pi-mono/agent/agent.ts, agent-loop.ts).  The   *)
(* service caches a runtime per session; execute() reads it, awaits, then  *)
(* builds an Agent and runs a turn on it, while other callers execute,     *)
(* steer, queue follow-ups, clear, destroy, evict or invalidate the same   *)
(* runtime.                                                                *)
(*                                                                         *)
(* Runtimes and Agents are objects: the variables heap and agents number   *)
(* them in the order of their creation, and a call keeps the number it     *)
(* read.  A message is the call, follow-up or steer it came from; the text *)
(* and the cards are abstracted.                                           *)
(***************************************************************************)
EXTENDS Integers, Sequences, FiniteSets

CONSTANTS
    Calls,           \* invocations of execute() on the session
    FollowUps,       \* /btw messages and completion nudges
    Steers,          \* steering messages
    Null,            \* the absent value
    MaxEvents        \* bound on the commands and changes that reach the session from outside

ASSUME BoundsAssumption == MaxEvents \in Nat
ASSUME ActorsAssumption == Calls \cap FollowUps = {} /\ Null \notin Calls \cup FollowUps

VARIABLES
    current,      \* the session's entry in the runtimes Map
    heap,         \* every runtime built: its Agent and turnActive
    agents,       \* every Agent built: transcript, active run and steering queue
    calls,        \* the invocations, with the runtime and Agent each one holds
    follows,      \* the follow-ups, with the run each one waits for
    db,           \* what the messages table holds of the session
    cleared,      \* whether the session is in clearedSessions
    sweep,        \* the debounce timer of invalidateRuntimes
    owed,         \* runtimeInvalidationPending
    events,       \* commands and changes so far
    steered,      \* the steering messages sent so far
    stale,        \* history: runtimes built before the last tool change
    abandoned     \* history: runtimes whose run outlived its turn

vars == <<current, heap, agents, calls, follows, db, cleared, sweep, owed, events,
          steered, stale, abandoned>>

Turns == Calls \cup FollowUps
Messages == Turns \cup Steers
NewCall == [pc |-> "idle", rt |-> Null, agent |-> Null]
NewFollowUp == [pc |-> "idle", rt |-> Null, agent |-> Null, awaits |-> Null]

\* Where a call is: it awaits MCP and the judge; its turn is set up; it runs; the
\* watchdog aborted it; it is in execute's tail or catch block; it returned or threw.
CallStages == {"idle", "preparing", "begun", "running", "aborting", "finishing", "failing",
               "done", "refused", "failed"}
FollowUpStages == {"idle", "waiting", "running", "done", "lost"}

TypeOK ==
    /\ heap \in Seq([agent : DOMAIN agents, active : BOOLEAN])
    /\ agents \in Seq([context : SUBSET Messages, run : Turns \cup {Null},
                       closing : BOOLEAN, queue : SUBSET Steers])
    /\ current \in DOMAIN heap \cup {Null}
    /\ calls \in [Calls -> [pc : CallStages, rt : DOMAIN heap \cup {Null},
                            agent : DOMAIN agents \cup {Null}]]
    /\ follows \in [FollowUps -> [pc : FollowUpStages, rt : DOMAIN heap \cup {Null},
                                  agent : DOMAIN agents \cup {Null}, awaits : Turns \cup {Null}]]
    /\ db \subseteq Messages
    /\ cleared \in BOOLEAN /\ sweep \in BOOLEAN /\ owed \in BOOLEAN
    /\ events \in 0..MaxEvents
    /\ steered \subseteq Steers
    /\ stale \subseteq DOMAIN heap /\ abandoned \subseteq DOMAIN heap

NewAgent(context) == [context |-> context, run |-> Null, closing |-> FALSE, queue |-> {}]

\* The session is cold, or an earlier turn left it a runtime.
Init ==
    /\ \/ current = Null /\ heap = <<>> /\ agents = <<>>
       \/ current = 1 /\ heap = <<[agent |-> 1, active |-> FALSE]>> /\ agents = <<NewAgent({})>>
    /\ calls = [c \in Calls |-> NewCall]
    /\ follows = [f \in FollowUps |-> NewFollowUp]
    /\ db = {} /\ cleared = FALSE
    /\ sweep = FALSE /\ owed = FALSE /\ events = 0
    /\ steered = {} /\ stale = {} /\ abandoned = {}

-----------------------------------------------------------------------------
Streaming(a) == agents[a].run # Null
IsRunning == IF current = Null THEN FALSE ELSE Streaming(heap[current].agent)

\* A follow-up whose wait is over resumes in a microtask: no timer, request or
\* network answer is served before it.
Woken(f) ==
    IF follows[f].pc # "waiting" THEN FALSE
    ELSE follows[f].awaits # Null => agents[follows[f].agent].run # follows[f].awaits
Quiet == \A f \in FollowUps : ~Woken(f)

\* persistMessages appends what the table does not hold yet.
Persisted(a) == db \cup agents[a].context

\* rearmRuntimeInvalidationIfPending
Rearm == sweep' = (sweep \/ owed)

\* Mutant of Released: the busy flag survives the turn.
NeverReleased(rt) == heap

Released(rt) == [heap EXCEPT ![rt].active = FALSE]

Event == events < MaxEvents /\ events' = events + 1

-----------------------------------------------------------------------------
(* execute                                                                 *)

\* Up to its first await: the busy check and the read of the runtime.
Enter(c) ==
    /\ Quiet /\ calls[c].pc = "idle"
    /\ calls' = [calls EXCEPT ![c] =
            IF current # Null /\ heap[current].active
            THEN [NewCall EXCEPT !.pc = "refused"]
            ELSE [NewCall EXCEPT !.pc = "preparing", !.rt = current]]
    /\ UNCHANGED <<current, heap, agents, follows, db, cleared, sweep, owed, events,
                   steered, stale, abandoned>>

\* Mutant of StillFree: the check is not repeated after the awaits.
AlwaysFree(c) == TRUE

\* The second busy check looks at the runtime that was read before the awaits.
StillFree(c) == calls[c].rt # Null => ~heap[calls[c].rt].active

Refuse(c) ==
    /\ Quiet /\ calls[c].pc = "preparing" /\ ~StillFree(c)
    /\ calls' = [calls EXCEPT ![c] = [NewCall EXCEPT !.pc = "refused"]]
    /\ UNCHANGED <<current, heap, agents, follows, db, cleared, sweep, owed, events,
                   steered, stale, abandoned>>

\* Mutant of Entry: a warm turn registers a runtime of its own.
AlwaysNewEntry(cold) == Len(heap) + 1

\* The session's entry once the turn is set up.
Entry(cold) == IF cold THEN Len(heap) + 1 ELSE current

\* A cold session reads its history back, unless it was cleared.
Reloaded == IF cleared THEN {} ELSE db

\* From the second check to the turn's set-up, without an await: a cold session
\* gets a new runtime; a warm one a new Agent with the old one's transcript when
\* the message names its channel, and goes on with the Agent it has otherwise.
Begin(c) ==
    LET cold == calls[c].rt = Null
        rt == IF cold THEN Len(heap) + 1 ELSE calls[c].rt
    IN  /\ Quiet /\ calls[c].pc = "preparing" /\ StillFree(c)
        /\ \E rebuilt \in {TRUE, cold} :
             LET a == IF rebuilt THEN Len(agents) + 1 ELSE heap[rt].agent
             IN  /\ agents' = IF ~rebuilt THEN agents
                              ELSE Append(agents, NewAgent(IF cold THEN Reloaded
                                                           ELSE agents[heap[rt].agent].context))
                 /\ heap' = IF cold THEN Append(heap, [agent |-> a, active |-> TRUE])
                            ELSE [heap EXCEPT ![rt] = [agent |-> a, active |-> TRUE]]
                 /\ calls' = [calls EXCEPT ![c] = [pc |-> "begun", rt |-> rt, agent |-> a]]
                 /\ stale' = IF rebuilt THEN stale \ {rt} ELSE stale
        /\ current' = Entry(cold)
        /\ cleared' = (cleared /\ ~cold)
        /\ UNCHANGED <<follows, db, sweep, owed, events, steered, abandoned>>

\* The factory throws: no runtime is registered or marked busy, but a cold
\* session's clear mark is used up.
BeginFails(c) ==
    /\ Quiet /\ calls[c].pc = "preparing" /\ StillFree(c)
    /\ calls' = [calls EXCEPT ![c] = [NewCall EXCEPT !.pc = "failed"]]
    /\ cleared' = (cleared /\ calls[c].rt # Null)
    /\ UNCHANGED <<current, heap, agents, follows, db, sweep, owed, events, steered,
                   stale, abandoned>>

\* agent.prompt, after the vision bridge; it throws while the Agent runs.
Prompt(c) ==
    LET a == calls[c].agent
    IN  /\ Quiet /\ calls[c].pc = "begun"
        /\ calls' = [calls EXCEPT ![c].pc = IF Streaming(a) THEN "failing" ELSE "running"]
        /\ agents' = IF Streaming(a) THEN agents
                     ELSE [agents EXCEPT ![a].run = c, ![a].context = @ \cup {c}]
        /\ UNCHANGED <<current, heap, follows, db, cleared, sweep, owed, events,
                       steered, stale, abandoned>>

\* The watchdog saw no activity for the turn timeout: it aborts the run and waits.
Watchdog(c) ==
    /\ Quiet /\ calls[c].pc = "running" /\ agents[calls[c].agent].run = c
    /\ calls' = [calls EXCEPT ![c].pc = "aborting"]
    /\ UNCHANGED <<current, heap, agents, follows, db, cleared, sweep, owed, events,
                   steered, stale, abandoned>>

\* Mutant of GraceEnds: the aborted run is awaited without a bound.
GraceNeverEnds(c) == FALSE

GraceEnds(c) == agents[calls[c].agent].run = c

\* The aborted run did not settle within the grace period: it is left behind.
GraceOver(c) ==
    /\ Quiet /\ calls[c].pc = "aborting" /\ GraceEnds(c)
    /\ calls' = [calls EXCEPT ![c].pc = "failing"]
    /\ abandoned' = abandoned \cup {calls[c].rt}
    /\ UNCHANGED <<current, heap, agents, follows, db, cleared, sweep, owed, events,
                   steered, stale>>

\* The rest of execute after the run: messages are persisted, the busy flag is cleared.
Finish(c) ==
    /\ calls[c].pc = "finishing"
    /\ db' = Persisted(calls[c].agent)
    /\ heap' = Released(calls[c].rt) /\ Rearm
    /\ calls' = [calls EXCEPT ![c] = [NewCall EXCEPT !.pc = "done"]]
    /\ UNCHANGED <<current, agents, follows, cleared, owed, events, steered, stale,
                   abandoned>>

\* execute's catch and finally: a transcript that ends on a tool call drops the
\* session's entry, whichever runtime that is by now.
Fail(c) ==
    /\ calls[c].pc = "failing"
    /\ db' = Persisted(calls[c].agent)
    /\ UNCHANGED current \/ current' = Null
    /\ heap' = Released(calls[c].rt) /\ Rearm
    /\ calls' = [calls EXCEPT ![c] = [NewCall EXCEPT !.pc = "failed"]]
    /\ UNCHANGED <<agents, follows, cleared, owed, events, steered, stale, abandoned>>

-----------------------------------------------------------------------------
(* The Agent's run                                                         *)

\* The loop polls its steering queue between two requests.
Poll(a) ==
    /\ Quiet /\ Streaming(a) /\ ~agents[a].closing /\ agents[a].queue # {}
    /\ agents' = [agents EXCEPT ![a].context = @ \cup agents[a].queue, ![a].queue = {}]
    /\ UNCHANGED <<current, heap, calls, follows, db, cleared, sweep, owed, events,
                   steered, stale, abandoned>>

\* The loop ends after an empty poll, or, on an error or an abort, without one.
\* agent_end is dispatched; its listeners are awaited while the Agent streams.
LoopEnds(a) ==
    /\ Quiet /\ Streaming(a) /\ ~agents[a].closing
    /\ agents' = [agents EXCEPT ![a].closing = TRUE]
    /\ UNCHANGED <<current, heap, calls, follows, db, cleared, sweep, owed, events,
                   steered, stale, abandoned>>

\* finishRun.  The call that awaits the run goes on; a follow-up's finally block
\* clears the busy flag of its runtime.
RunEnds(a) ==
    LET t == agents[a].run
        stage == calls[t].pc
    IN  /\ Quiet /\ Streaming(a) /\ agents[a].closing
        /\ agents' = [agents EXCEPT ![a].run = Null, ![a].closing = FALSE]
        /\ IF t \in Calls
           THEN /\ calls' = [calls EXCEPT ![t].pc =
                        CASE stage = "running" -> "finishing"
                          [] stage = "aborting" -> "failing"
                          [] OTHER -> stage]
                /\ db' = IF stage \in {"running", "aborting"} THEN Persisted(a) ELSE db
                /\ UNCHANGED <<heap, follows, sweep>>
           ELSE /\ follows' = [follows EXCEPT ![t] = [NewFollowUp EXCEPT !.pc = "done"]]
                /\ heap' = Released(follows[t].rt) /\ Rearm
                /\ UNCHANGED <<calls, db>>
        /\ UNCHANGED <<current, cleared, owed, events, steered, stale, abandoned>>

-----------------------------------------------------------------------------
(* Steering and follow-ups                                                 *)

\* The queue keeps the last steering message only.
Steer(m) ==
    LET a == heap[current].agent
    IN  /\ Quiet /\ Event /\ current # Null /\ m \notin steered
        /\ agents' = [agents EXCEPT ![a].queue = {m}]
        /\ steered' = steered \cup {m}
        /\ UNCHANGED <<current, heap, calls, follows, db, cleared, sweep, owed,
                       stale, abandoned>>

\* followUp returns true at once; runOnIdleCard waits for the run of the moment.
FollowUp(f) ==
    LET a == heap[current].agent
    IN  /\ Quiet /\ follows[f].pc = "idle" /\ current # Null
        /\ follows' = [follows EXCEPT ![f] =
                [pc |-> "waiting", rt |-> current, agent |-> a, awaits |-> agents[a].run]]
        /\ UNCHANGED <<current, heap, agents, calls, db, cleared, sweep, owed, events,
                       steered, stale, abandoned>>

FollowUpGraceOver(f) ==
    /\ Quiet /\ follows[f].pc = "waiting"
    /\ follows' = [follows EXCEPT ![f] = [NewFollowUp EXCEPT !.pc = "lost"]]
    /\ UNCHANGED <<current, heap, agents, calls, db, cleared, sweep, owed, events,
                   steered, stale, abandoned>>

\* The run it waited for is over: it takes the runtime, busy or not, and prompts
\* the Agent that the runtime has by now.  A rejected prompt is only logged, and
\* the finally block clears the busy flag all the same.
Resume(f) ==
    LET rt == follows[f].rt
        a == heap[rt].agent
    IN  /\ Woken(f)
        /\ IF Streaming(a)
           THEN /\ follows' = [follows EXCEPT ![f] = [NewFollowUp EXCEPT !.pc = "lost"]]
                /\ heap' = Released(rt) /\ Rearm
                /\ UNCHANGED agents
           ELSE /\ follows' = [follows EXCEPT ![f].pc = "running", ![f].awaits = Null]
                /\ heap' = [heap EXCEPT ![rt].active = TRUE]
                /\ agents' = [agents EXCEPT ![a].run = f, ![a].context = @ \cup {f}]
                /\ UNCHANGED sweep
        /\ UNCHANGED <<current, calls, db, cleared, owed, events, steered, stale,
                       abandoned>>

-----------------------------------------------------------------------------
(* Clearing, dropping and rebuilding runtimes                              *)

Transcript == IF current = Null THEN {} ELSE agents[heap[current].agent].context

\* /clear.  Agent.reset throws while the Agent runs.
Reset ==
    LET a == heap[current].agent
    IN  /\ Quiet /\ Event /\ current # Null /\ ~IsRunning
        /\ agents' = [agents EXCEPT ![a].context = {}, ![a].queue = {}]
        /\ cleared' = TRUE
        /\ UNCHANGED <<current, heap, calls, follows, db, sweep, owed, steered,
                       stale, abandoned>>

\* A session that does not run is deleted: its rows first, then its runtime.
Delete ==
    /\ Quiet /\ Event /\ ~IsRunning
    /\ db' = {}
    /\ current' = Null /\ cleared' = (cleared \/ current # Null)
    /\ UNCHANGED <<heap, agents, calls, follows, sweep, owed, steered, stale, abandoned>>

\* destroyRuntime alone: /agent gives the session another agent.
SwitchAgent ==
    /\ Quiet /\ Event /\ current # Null
    /\ current' = Null /\ cleared' = TRUE
    /\ UNCHANGED <<heap, agents, calls, follows, db, sweep, owed, steered, stale,
                   abandoned>>

\* Mutant of Disposable: only the Agent's run is looked at.
DisposableUnlessStreaming(rt) == ~Streaming(heap[rt].agent)

Disposable(rt) == ~heap[rt].active /\ ~Streaming(heap[rt].agent)

\* enforceRuntimeBudget, when another session starts a turn.
Evict ==
    /\ Quiet /\ Event /\ current # Null
    /\ Disposable(current)
    /\ current' = Null
    /\ UNCHANGED <<heap, agents, calls, follows, db, cleared, sweep, owed, steered, stale,
                   abandoned>>

\* onToolsChanged -> invalidateRuntimes
ToolsChanged ==
    /\ Quiet /\ Event
    /\ sweep' = TRUE
    /\ stale' = DOMAIN heap
    /\ UNCHANGED <<current, heap, agents, calls, follows, db, cleared, owed, steered,
                   abandoned>>

\* Mutant of Owes: a sweep that skips a busy runtime forgets it.
OwesNothing == FALSE

Owes == IF current = Null THEN FALSE ELSE ~Disposable(current)

\* The debounce timer fires: sweepInvalidRuntimes.
Sweep ==
    /\ Quiet /\ sweep
    /\ sweep' = FALSE
    /\ owed' = Owes
    /\ current' = IF current = Null THEN Null ELSE IF Disposable(current) THEN Null ELSE current
    /\ UNCHANGED <<heap, agents, calls, follows, db, cleared, events, steered, stale,
                   abandoned>>

-----------------------------------------------------------------------------
Execute(c) ==
    Enter(c) \/ Refuse(c) \/ Begin(c) \/ BeginFails(c) \/ Prompt(c) \/ Watchdog(c)
    \/ GraceOver(c) \/ Finish(c) \/ Fail(c)

Next ==
    \/ \E c \in Calls : Execute(c)
    \/ \E a \in DOMAIN agents : Poll(a) \/ LoopEnds(a) \/ RunEnds(a)
    \/ \E m \in Steers : Steer(m)
    \/ \E f \in FollowUps : FollowUp(f) \/ FollowUpGraceOver(f) \/ Resume(f)
    \/ Evict \/ Reset \/ Delete \/ SwitchAgent \/ ToolsChanged \/ Sweep

Spec == Init /\ [][Next]_vars

\* Awaits of MCP and the judge are bounded, and timers fire; runs of execute may
\* hang.  A follow-up has no watchdog: its runs are assumed to end.
FairSpec ==
    /\ Spec
    /\ \A c \in Calls : WF_vars(Refuse(c) \/ Begin(c) \/ BeginFails(c) \/ Prompt(c) \/ Watchdog(c) \/ GraceOver(c)
                                \/ Finish(c) \/ Fail(c))
    /\ \A f \in FollowUps : WF_vars(Resume(f))
    /\ WF_vars(\E a \in DOMAIN agents : agents[a].run \in FollowUps /\ (LoopEnds(a) \/ RunEnds(a)))
    /\ WF_vars(Sweep)

-----------------------------------------------------------------------------
(* Properties                                                              *)

InTurn(c) == calls[c].pc \in {"begun", "running", "aborting", "finishing", "failing"}
TurnsOn(rt) == {c \in Calls : InTurn(c) /\ calls[c].rt = rt}
FollowsOn(rt) == {f \in FollowUps : follows[f].pc = "running" /\ follows[f].rt = rt}

\* A runtime is marked busy only while a turn or a follow-up is on it: no path
\* leaves the flag behind, which would refuse every later message of the session.
BusyHasOwner ==
    \A rt \in DOMAIN heap : heap[rt].active => TurnsOn(rt) \cup FollowsOn(rt) # {}

\* Two turns share a runtime only if a follow-up took it before one of them: the
\* busy check alone, repeated after the awaits, excludes every other overlap.
SharedOnlyAfterFollowUp ==
    \A rt \in DOMAIN heap, c, d \in Calls :
        c # d /\ {c, d} \subseteq TurnsOn(rt) => \E f \in FollowUps : follows[f].pc # "idle"

\* An eviction or a sweep never takes the runtime from under a turn, neither while
\* it is set up, nor while it runs or is aborted, nor in its tail: as long as no
\* follow-up came, no other turn's end clears the busy flag they look at.
EvictionsSpareTurns ==
    [][(Evict \/ Sweep) /\ current' # current =>
          TurnsOn(current) = {} \/ \E f \in FollowUps : follows[f].pc # "idle"]_vars

\* Every call that is accepted returns or throws, even when its run hangs: a call
\* does not stay for ever between its start and its end.
CallsEnd ==
    \A c \in Calls : []<>(calls[c].pc \in {"idle", "done", "refused", "failed"})

\* A session does not stay on a runtime built before a change of the tool set: it is
\* dropped or rebuilt, unless one of its runs was abandoned.
OnStaleRuntime == current # Null /\ current \in stale
InvalidationLands == []<>(~OnStaleRuntime \/ current \in abandoned)

\* What the comment of enforceRuntimeBudget says (agent-service.ts:1718-1720): a
\* session whose runtime is evicted is read back from the messages table without a loss.
EvictionKeepsContext ==
    [][Evict => agents[heap[current].agent].context \subseteq Reloaded]_vars

=============================================================================
