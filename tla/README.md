# OhMyAgent: TLA+ models, model checking and proofs

OhMyAgent is a self-hosted AI agent gateway: one Node.js process that takes messages
from chat channels, a web UI and a desktop shell, runs an agent loop with tools for each
session, and keeps memory, notes, scheduled jobs and approvals in SQLite and JSON files.
This directory holds TLA+ models of the parts of it whose correctness depends on order:
what happens when two requests, a timer, a late answer or a restart fall between two
`await`s. Paths below are relative to the repository's `src/`, except where they begin
with `extensions/` or `ui/`.

The gateway runs on one event loop. An action of a model is therefore the code between two
awaits, taken whole; what interleaves is the continuations of promises, timers, sockets
and HTTP handlers. A crash is the process dying; what survives is SQLite and the files.

Contents: 1 inventory, 2 modules and plan, 3 cron, 4 approvals, 5 agent turns, 6 MCP
servers, 7 plans, 8 chat stream, 9 what is proved, 10 what is only checked or not modelled,
11 running it.

## 1. Inventory

State, operations and partners of every component that keeps state between awaits:

| component | state it keeps | operations | talks to | what is hard |
|---|---|---|---|---|
| cron (`cron/`) | jobs (array, JSON file), `ticking`, timer | tick, runOnce, add/remove/pause/resume/toggle/update, stuck detection | job runner, agent service, delivery clients, web API | manual runs against ticks, state written while a job is in flight, restart with jobs marked running, hung deliveries |
| approvals (`agent/approval-store.ts`, `agent/before-tool-call.ts`) | pending Map with timers, `approval_requests` rows, `timeout_action` | create, resolve, timeout, recover, reject/approve all | card buttons, commands, steering, /stop, SQLite | answer against timeout, the await between showing and registering, restart with requests pending |
| user questions (`agent/user-question-store.ts`) | pending Map, no timers | create, answer, reject for a session | cards, ask tool, next message | as approvals, and nothing bounds the wait |
| agent service (`agent/agent-service.ts`) | runtimes per session, busy flag, cleared marks, invalidation timer and its debt | execute, steer, followUp, reset, destroyRuntime, evict, sweep | agent, channels, stores, MCP, judge | the runtime read before awaits and used after, two ways onto a runtime, abandoned runs |
| agent loop (`pi-mono/agent`) | transcript, steering queue, active run | prompt, steer, abort, loop with tool guards | model stream, tools | queue against the end of a run, abort |
| MCP manager (`mcp/`) | connections with generations, tools, OAuth state | connect, reload, login, call, close | external servers, agent service (`onToolsChanged`) | cancelled attempts that finish late, reload against connect |
| chat stream (`app/webui/chat-stream-hub.ts`, `chat-routes.ts`, `ui/src/state/chat-stream-store.ts`) | a turn's record with its baseline and subscribers; a tab's transport, timers and bubbles | begin, publish, attach, expire; send, steer, probe, resume, retry, watchdog | agent service, SSE connections, browser events | connections that break or fall silent, late frames, replays, a restart that loses the hub |
| desktop bridge (`agent/desktop-bridge-registry.ts`) | connections, session bindings, pending calls | register, unregister, bind, call, result, timeout | WebSocket of the desktop shell | disconnect with calls pending, several connections |
| computer-use leases (`computer-use/lease-registry.ts`, `computer-host.ts`) | leases, indexes of active ones, last snapshot | create, release, markStopping, record and validate snapshots | providers, tools | one computer and many agents; stale indexes and snapshots |
| orchestrator (`orchestrator/`) | sub-agent records, runtimes, messages | spawn, run a task graph, stop, finish | agent factory, turn timeouts | stop against finish, failed levels, chunking |
| circuit breakers (`judge/`, `memory/circuit-breaker.ts`) | state, failures, openedAt, probe flag | allow, success, failure | judge engine, memory's models | late results of calls let through earlier, lost probes |
| judge (`judge/`) | decisions, ledger, autopilot stages | decide, record, promote/demote | aux models, hooks | fallbacks, deadlines |
| harness (`harness/`) | monitors, rate limits, patches | watch, evaluate, revert, limit | git, agent runs | crash between a revert and its record |
| maintenance (`memory/maintenance/`) | run rows, `runningDue`, `runningJobs` | runDue, runJob, prune | SQLite, jobs | hung jobs, stale running rows |
| policy (`policy/`, `tools/approval-gate.ts`) | rules of configuration and session | evaluate | before-tool-call | precedence of deny and allow |
| memory, notes, skills, channels, config, web UI | tables and caches | read/write, search, distil, render | SQLite, models, networks | mostly data and I/O |

What makes each of the modelled ones correct:

* **cron**: a job is not executed twice at a time by the scheduler; the pool respects its
  cap; a due job fires; nothing stays `running` with nothing in flight; a completed job
  does not come back by itself; a restart gives interrupted jobs back.
* **approvals and questions**: whoever waits can be found and woken; exactly one path
  decides; a high-risk call needs a person; the row says what was decided; one session's
  commands leave the others alone; every approval ends.
* **agent turns**: a session does not stay busy without a turn; two turns do not share a
  runtime; eviction never takes a runtime that runs; every accepted call returns; a change
  of the tool set reaches every session in the end; no context is lost silently.
* **MCP servers**: one attempt at a time; a server that was turned off or stopped stays
  off, whatever finishes late; what serves was built from the current settings; the last
  reload wins; every operation and every call returns.
* **plans**: a subtask starts after what it depends on; the limit on children holds; a
  stop reaches every child at work; a settled subtask leaves nothing behind; the plan
  returns although agents hang.
* **chat stream**: what a tab shows of a reply is a run of it, without gap or repetition,
  whatever connections it came over; no follower is left on keepalives; the spinner ends.

How they interact. A channel's handler asks the agent service whether the session runs
and then executes, steers or answers. A turn's tool calls go through `before-tool-call`,
which may park them in an approval store; while one is parked the turn stays busy. /stop,
/clear and steering withdraw the session's requests before they touch the runtime. The
cron scheduler's runs call the agent service on sessions of their own. The MCP manager
reports a changed tool set, which invalidates every runtime. A turn may spawn a plan,
whose children are Agents of their own. The chat route publishes a turn's events to the
hub, from which tabs follow it. The modules meet at these
calls: each abstracts its partner to the results that partner can give.

`PROJECT.json` lists every component with its status, and under `hazards` each line where
order, timing or failure can bite, with the property that looks at it.

## 2. Modules and plan

| module | what it is |
|---|---|
| `CronScheduler` | store, service, scheduler loop and the way a run ends (section 3) |
| `CronScheduler_proofs` | six theorems about it |
| `Approvals` | both stores and every path that settles a request (section 4) |
| `Approvals_proofs` | six theorems about it |
| `AgentService` | execute and everything else that touches a session's runtime, with the Agent's run (section 5) |
| `AgentService_proofs` | four theorems about it |
| `McpPromise` | what a server of the MCP manager promises: which connection serves, whether its tools are listed |
| `McpServer` | one server of the manager, from await to await (section 6); implements `McpPromise` |
| `McpServer_proofs` | five theorems, the refinement among them |
| `PlanPromise` | what `plan_and_spawn` promises: dependencies first, the limit, an outcome for each subtask |
| `PlanExecutor` | the executor with its child agents and their stops (section 7); implements `PlanPromise` |
| `PlanExecutor_proofs` | five theorems, the refinement among them |
| `ChatStream` | the hub, its routes, one tab, and the connections between them (section 8) |
| `ChatStream_proofs` | two theorems about who is subscribed to what |
| `ChatReplay_proofs` | the reducer over a run of events, one by one or replayed, and the induction this takes |
| `ChatScreen_proofs` | five theorems about what the tab shows and what its spinner waits for |
| `MC*` | constants for TLC; each run has a `.cfg` of its own |

The order was: the scheduler first (persistent state, crashes and the richest API), then
approvals (a safety boundary of the program), then the turns that hold both, then what
turns rely on (MCP), what they start (plans) and how they are shown (chat stream).
What is left, in this order:

1. `Leases` with `DesktopBridge`: the leases' indexes refine one lock per computer; a call
   of the bridge is settled once. Known from reading: the disconnect of one desktop
   rejects the pending calls of all; releases leave the indexes of active leases stale
   (`lease-registry.ts:191`), and two opens of one application can leave two active leases.
2. Circuit breakers as two small automata under concurrent callers, refined to "no call
   while open, except a probe" (`judge/circuit-breaker.ts:83`: a late success closes an
   open circuit).
3. The auto-apply monitor and the maintenance scheduler (crash recovery; a job that
   ignores its abort signal keeps `runningDue` set, `maintenance-scheduler.ts:114`).

## 3. CronScheduler

Code: `cron/{store,scheduler,service,job-runner,types}.ts`, `app/webui/cron-routes.ts`.

State. `jobs` is `CronStore.data`, `disk` the file, `dirty` a write queued on
`writeQueue`; `timer`, `kicked`, `ticking` are the scheduler's interval, `start()`'s
`setImmediate` and the overlap guard; `queue` and `runs` are the batch: jobs no worker
took yet, and executions of `JobRunner.run` in flight, each with what `runOnce`'s closure
remembers. `touched` is history: jobs whose state something else overwrote in flight.

Actions. `Add … Put`, `RunOnce` are the API (a PUT may re-arm a job, and may set its next run to
null); `TickStart` is `tick` up to its await (expire,
mark running, advance, launch the first workers), `Finish` the end of a run with
`handleResult` or `runOnce`'s `finally` and the worker's next job, `TickEnd` the tail with
stuck detection. A run has two stages, since only the agent's is under a timeout:
`AgentAnswers`, `AgentFails`, `AgentTimesOut`, then `Delivered`. `Persist` writes whatever is
current; `PersistFails` is the logged failure; `Crash` reloads the file.

Abstractions: time is a small counter, a cron expression fires at multiples of
`CronPeriod`; the order of a batch is arbitrary; the delivery payload is left out.

| run | what it shows | states |
|---|---|---|
| `cron_api` | every API operation on one job against ticks and a manual run: types; overlap only after an overwrite; completed jobs have no next run; `running` is in flight | 220,228 |
| `cron_live` | two jobs, one worker: scheduled runs exclusive, cap kept, every due job fires if deliveries return | 25,060 |
| `cron_crash` | the process dies up to twice, or a write fails: orphans come back | 17,815 |
| `cron_at_most_once` | violated: a oneshot whose run timed out fires again for the same time (`scheduler.ts:82`) | |

Bounds. One job suffices for everything between a manual run and the loop; two jobs with
one worker make a batch with a queue; the clock runs to 2, which passes an interval, a
cron period, a backoff and the stuck threshold. Slots are symmetric in `cron_api`.

Fairness. `TickStart`, `TickEnd`: Node fires the interval and resumes the tick. Agent runs end
because `withTimeout` bounds them. Deliveries are assumed to return (`DeliveryFairness`):
**the code does not see to that**, and one hung `deliver` blocks all later ticks; that is
why `DueJobsFire` has it as an assumption of its own.

Seen while modelling, besides the finding: `resume`, `toggle` and PUT re-arm a job that is
running, so that two executions overlap (`OverlapNeedsOverwrite` delimits this exactly);
a pause during a manual run is undone by its `finally`, and a resume during the manual run
of a paused job leaves it enabled and paused, never to fire; a job that dies in its first
manual run has no `lastRunAt` and stays `running` (`OrphansRecovered` excludes it).

## 4. Approvals

Code: `agent/{approval-store,user-question-store,before-tool-call,agent-factory}.ts`,
`tools/builtins/session/ask-definition.ts`, the resolving routes and card handlers, and
the commands.

State. `stage` is where the tool call is: shown by the channel, waiting in the store,
done, gone. `pending` with `arrived` is the Map and its insertion order, `timers` the armed
`setTimeout`s, `decision` what the Promise resolved to, `row` the status column. `human`,
`settledBy`, `refused` are history.

Actions. `Present` and `Register` are apart because the handlers await the channel in
between; `PresentFails` is the catch. `Button`, `Command`, `Message`, `StopTurn`, `Timeout` settle,
each with the row and timer updates of its own code path; `SetTimeoutAction` is a
configuration reload, `Restart` the crash with `recoverFromDB`.

| run | what it shows | states |
|---|---|---|
| `approvals` | types; a waiter is in the store and has its timer; high risk needs a person; served paths need a person; rows keep decisions; other sessions untouched; every approval ends | 99,876 |
| `approvals_refused` | violated: a click between showing and registering is answered "already handled" and dropped (`agent-service.ts:1293-1294`) | |

Bounds. Two requests give every race of two settling paths, the oldest-first rule and two
sessions; one restart, since recovery leaves nothing pending. Kinds: a path (granted to
the web UI), a high-risk command, a question; `medium` behaves as `path` without a grant.

Fairness. Timers fire (`WF` of `Timeout`). Nothing else is fair: users need not answer.
Questions have no timer, so only approvals are claimed to end.

Seen while modelling: /stop or steering during the same window misses the request, and a
question then waits until the next message; an approval that a button of the web UI,
Telegram or QQ or a command approved keeps a `pending` row, which a restart turns into
`rejected` (`RowKeepsDecision` is about the paths that do write the row).

## 5. AgentService

Code: `agent/agent-service.ts`, `pi-mono/agent/{agent,agent-loop}.ts`,
`agent/message-persister.ts`, `shared/with-timeout.ts`, `app/webui/session-delete-routes.ts`.

State. One session. `current` is its entry in `runtimes`; `heap` and `agents` are the runtime
and Agent objects ever built, since calls keep references across awaits; `calls` and `follows`
are the invocations in progress, `db` the messages table, `cleared` the mark of
`clearedSessions`, `sweep` and `owed` the invalidation timer and its debt. `stale` and `abandoned`
are history. A message is the call, follow-up or steer it came from.

Actions. `Enter` runs to the first await (MCP, judge); `Begin` repeats the busy check and sets
the turn up without an await (a warm runtime gets a new Agent only when the message names
its channel), `BeginFails` is the factory throwing there; `Prompt` starts the run after the vision
bridge; `Watchdog` and `GraceOver` are `runTurnWithTimeout`; `Finish` and `Fail` the two ends. `Fail`
may drop the session's entry, as the code does when the transcript ends on a tool call
without its result. `Poll`, `LoopEnds`, `RunEnds` are the
Agent's loop and `finishRun`. `FollowUp`, `Resume`, `FollowUpGraceOver` are `runOnIdleCard`. `Reset`, `Delete`,
`SwitchAgent`, `Evict`, `ToolsChanged`, `Sweep` are the other hands on the runtime. `Quiet` gives a woken
follow-up the priority of a microtask over timers and I/O.

| run | what it shows | states |
|---|---|---|
| `agent_turns` | types; the busy flag has an owner; two turns share a runtime only after a follow-up; evictions spare turns at every stage until a follow-up came; every accepted call ends, hung runs included; a tool change reaches the session | 488,424 |
| `agent_cleared` | violated: the mark of /clear outlives the turns after it, and the next cold start drops their history (`agent-service.ts:1718-1720`) | |

Bounds. Two calls and a follow-up, from a cold session or one with a warm runtime: any two
turns with the third party that bypasses the busy check. `MaxEvents` bounds steering, /clear,
deletion, a switch, an eviction by another session and a tool change together: one of them
against everything else (two in `agent_cleared`).

Fairness. The awaits of `execute` are bounded (MCP's connect timeout, the judge's deadline, the
vision bridge), timers fire, and microtasks run. Runs of `execute` may hang: `CallsEnd` rests
on the watchdog. A follow-up's run has no watchdog; its end is assumed, and without it
`InvalidationLands` would fail. A runtime with an abandoned run is excepted there: nothing
re-arms the sweep when such a run ends later.

Seen while modelling: `agent-service.ts:840-842` says that the runtime is marked busy for
the whole turn, but `runOnIdleCard` (1526-1547) takes a runtime without looking at
`turnActive`, and the `finally` of whichever ends first clears it under the other; the next
`execute` then passes the busy check and rebuilds the Agent under the run in flight, and only
the streaming half of the eviction check still protects it (`BusyHasOwner`,
`SharedOnlyAfterFollowUp` and `EvictionsSpareTurns` are what remains true). A steering message queued after the loop's last poll is dropped with
the Agent the next turn replaces; a follow-up that waits longer than ten seconds, or behind
another one, is given up although `followUp` answered true; a turn that was preparing while
its session was deleted runs on a runtime that nobody can reach; two cold `execute`s overlap.

## 6. McpServer

Code: `mcp/mcp-manager.ts`, with `pi-mono/mcp/client.ts` and `shared/with-timeout.ts` as far
as they settle promises.

State. One server's `ServerRuntime`: `state`, `client`, `connecting` (`connectPromise`),
`closing`, `oversize`, `backoff` (`nextRetryAt`), `enabled`, and `registered` for its tools in
the registry; `stopped` is the manager's. `conns` are the runs of `doConnect` and the
connections they became. The generation counter is compared only with the value an attempt
captured, so an attempt carries whether it was bumped since (`cancelled`); versions of the
settings are likewise one flag (`outdated`). `ops` are the invocations of operations, each
between two awaits, `syncs` the lists in flight after `list_changed`, `calls` the tool calls.

Actions. `StartAttempt` to `AttemptEnds` are `doConnect` around its awaits, `Superseded` is
`discardAttempt`; `Startup`, `Reload`, `Reconnect`, `CompleteOrLogout`, `NoteOversize`, `Stop` begin an
operation, `PassBegins` and `PassApplies` are a reload's turn in the queue; `AttemptGone`,
`Flushed`, `Closed`, `AfterClose`, `Connected` resume it. `Drop`, `ListChanged`, `SyncAnswered`,
`SyncRejected` are the server's doing. A continuation whose promise has settled runs before
any other event (`Quiet`).

| run | what it shows | states |
|---|---|---|
| `mcp` | any two operations with a tool call: one attempt at a time, off stays off, current settings serve, the last reload wins, `McpPromise` is implemented, operations and calls return | 373,208 |
| `mcp_orphans` | violated: a manual reconnect publishes over a lazy one, and `stop()` never closes the first connection (`tests/mcp/manager.test.ts:672`) | |

Bounds. Two operations give every pair that can overtake each other; four attempts are
never exhausted by two operations and a call with its retry. Three operations at once are
out of the run's time, and the proofs do not depend on the bound.

Fairness. Handshakes and lists are under `withTimeout`, requests under the client's own, and
continuations run. The end of a backoff is not fair, and is not needed.

Abstractions: the OAuth exchange is a pause; a pause of a pending login is always allowed,
which is more than the code does; removal of a server is a disable followed by a deletion
that nothing observes; tool names and exposure are left out; the claim of a listing attempt
on an over-limit frame is left out. A late list of a connection that was overwritten can
register tools of a server that is off by then, so `McpPromise` says of a listing only that
an open connection announced it. Startup happens once; the end of a login does not cancel
an attempt in flight; a resource request marks nothing when it fails.

## 7. PlanExecutor

Code: `orchestrator/{dag-executor,orchestrator,agent-run-store}.ts`,
`tools/builtins/agents/plan-spawn-definition.ts`, `tools/builtins/tasks/stop-definition.ts`.

State. `deps`, `strategy` and `plan` are the call's; `remaining` and `todo` the levels and the
chunk of `executeParallel`; per subtask its `result`, the `step` of `spawnAndWait`, its Agent,
whether its runtime is `registered`, its `AgentRun` record, and a stop under way.

Actions. `Execute` validates and refuses or begins; `NextLevel`, `BeginChunk`, `Return` are the loop;
`Launch`, `LaunchFails`, `Prompted`, `TimesOut`, `Settled` are a child, `AgentEnds` its Agent's run, `StopAgent`
and `StopEnds` the orchestrator's stop around its await. `spawn_agent` is the life of one such
child outside a plan and has no actions of its own.

| run | what it shows | states |
|---|---|---|
| `plan` | every dependency graph of three subtasks (cyclic ones and unknown titles too), three strategies: a stop reaches every child at work, the limit holds, settled subtasks are closed, `PlanPromise` is implemented, the plan returns | 119,627 |

Bounds. Three subtasks over room for two give two levels in every shape and a level of two
chunks. Titles are distinct: a duplicate is refused before anything starts.

Fairness. The executor's loop and each child's continuations and timers. Agents may hang,
stops and the ends of runs need not come: `PlanReturns` rests on the timeout and its grace.

Seen while modelling: `Agent.prompt` resolves after a model error or an abort
(`pi-mono/agent/agent.ts`, `handleRunFailure`), so a subtask that failed or was stopped counts
as completed and its dependents run; `tests/orchestrator/dag-executor.test.ts:186` covers an
agent that rejects, and `plan-spawn-definition.ts:42-43` promises that failures block. The
sequential strategy follows the order of the list, not `dependsOn` (`dag-executor.ts:187`).
Children abandoned after their grace still run beside the next chunk, so more than
`maxConcurrency` may exist (`WorkersCapped` counts those that were not aborted). A failure of
`createAgent` leaves the record `running` (379-386). The ends `completed` and `stopped` overwrite
each other in the record (`orchestrator.ts:107`, `206`). A limit of zero or less would loop
without an await (`dag-executor.ts:398`; `LimitAssumption` excludes it). A stop before the
runtime is registered only writes the record, and an abort of the parent turn does not
reach the children.

## 8. ChatStream

Code: `app/webui/chat-stream-hub.ts`, `app/webui/chat-routes.ts` (the chat POST and the stream
GET), `ui/src/state/chat-stream-store.ts`, `ui/src/utils/sse-client.ts`.

State. The hub's `record` of the session, its `log` and `overflowed`; `stage` of every turn's
route; `subs`, the subscribers of each turn's record (a displaced one still has its closure).
`conns` are the tab's connections with the frames under way, in order; `current` is the one of
its transport generation. `tab` is the `SessionStream`: the flags, the timer of the
next attempt, the attempts, the `older` bubbles, and the newest, `bubble`: the pieces in its timeline,
of which the first `shown` are on screen. `flush` is the 50 ms timer that publishes the rest,
`dated` says that the bubble has a date, without which an error publishes nothing. `cut` is history:
the pieces that were delivered and left the tab, or lost their timer, unpublished. Other tabs are
the turns they post.

Actions. `HandlePost` and `ForeignPost` begin a turn, `HandleGet` attaches, `Publish` fans out and
folds, `PublishUnseen` is a turn whose record was replaced, `EndTurn` the route's `finally`,
`Expire` the retention. `Deliver` is one frame through the reducer: text goes into
the timeline and arms the timer, the end of a turn publishes at once. `Flush` is that timer.
`TransportEnds` is both
callbacks of an ended response; `Send`, `Steer`, `Probe`, `Retry`, `Online`, `CheckAlive` the tab's own.
`Restart`, `Break` and `Silence` are faults; so are a full buffer and an outgrown baseline, which
`Publish` may meet. An abort and the server's sight of it are one step; a POST aborted on its
way may still arrive (`HandlePost`) or be lost (`Forget`).

| run | what it shows | states |
|---|---|---|
| `chat_stream` | two turns over two connections with two faults: the screen shows each reply in order and misses only what the tab cut off itself (`ShowsTheStream`), takes nothing back (`NothingTakenBack`), followers are fed, a spinner has a cause and ends | 852,950 |

Bounds. Two turns give a displaced record and a replay of another turn; three events a
start, a text and an end; two connections, since an aborted POST may linger beside the
current one; two faults or steers together, which is one more than `MaxAttempts`, so that giving up happens
(6 in the code: the counter is only reset by `send` and `retryNow`, not by a success).

Fairness. One weak condition on the disjunction of the server's, the network's and the
timers' steps: requests are served, turns end, frames and ends of responses arrive, timers
fire (that of the text, too), and a connection that fell silent is noticed while somebody watches the tab. Weak
fairness of the disjunction is enough because each of these is bounded. The user, other
tabs and faults are not fair.

Left out: the pruning of bubbles after a refetch (they are still counted as on screen), cards and
tool calls (a card that is published at once is a text with its `Flush`), retention of unwatched streams, a command whose reply is then
forwarded to the agent, and tabs nobody watches (`checkAlive` needs a listener).

Seen while modelling:

* The comment at `chat-stream-store.ts:793-795` says of the throttled update: "The trailing timer
  guarantees the final delta renders." It renders the timeline there is when it fires:
  `beginSteerTurn` calls `beginTurn`, which resets the timeline (354-356, 636-638), so text
  delivered less than 50 ms before a steer never comes on screen, and the reply goes on in the next
  bubble with a piece missing. `abortTransport` (503-510, from `send` and `checkAlive`) clears the timer
  with the text still in the timeline, and an `Aborted` error publishes nothing (1132). What was cut
  off comes back with the next text of its bubble, a replay of the turn, or the saved copy a
  refetch brings. `cut` names exactly these pieces: a gap that has another cause violates
  `ShowsTheStream`, and only they may come on screen before what is there (`NothingTakenBack`).
* `resetForReplay` takes the bubbles off the screen at once (658-664), and replayed text comes back
  with the timer: a replay of text alone leaves the tab blank for 50 ms. `NothingTakenBack` asks that
  the timer is armed for it (`Due`).
* A second POST in a busy session, or a slash command from another tab, replaces the
  record of the running turn in `begin` before `execute` refuses it; that turn goes on and its
  stream is lost to every client. The comment at `chat-stream-hub.ts:174-177` says "two turns
  for one session cannot both be true". A POST writer has no `close`, so the displaced tab stays on
  pings until its own route ends.
* After the first terminal event the hub ignores everything, so the answer of a retry
  after overflow recovery, and of a follow-up, do not reach the stream.
* Steering emits no `turn_start`, so `steerBubble` stays set and the next turn's start reuses
  the steered bubble; a command's reply, which has no start, is appended to the reply
  before it. `chat-routes.ts:162` says the start makes a new bubble "for this turn". So the
  properties speak of the pieces of a turn on the whole screen, not of a bubble per turn.
* `idle` and `resume_unavailable` end the spinner without asking for a refetch; a probe whose
  connection falls silent is never given up, because `checkAlive` looks at sending streams only.

## 9. What is proved

Checked by TLAPS for every value of the constants that satisfies the modules' named
assumptions (`CronAssumption`: `Null` is none of the values, enough slots for the pool,
periods and backoffs positive; operations and attempts of `McpServer` are numbered and the
absent value is none of them; the subtasks of `PlanExecutor` are finite in number and its
limit positive; the calls and the follow-ups of `AgentService` are different and the absent
value is neither; the absent value of `ChatStream` is neither a turn nor a connection, its
bounds are natural numbers, and a turn has room for at least two events, its start and its
end).

| theorem | property | argument |
|---|---|---|
| `SchedulerTyped` | `TypeOK` | inductive as it stands, one lemma per group of actions |
| `ScheduledRunsExclusive` | `TickRunsExclusive` | strengthened by `BatchInTick`: with `ticking` off there is no batch. `TickStart` then starts from nothing, and a worker takes a job out of `queue` that no slot holds |
| `OverlapOnlyAfterOverwrite` | `OverlapNeedsOverwrite` | strengthened by `Marked` (an untouched job in flight is stored as running) and `QueuedOnce`; neither loop nor `runOnce` starts a job that is running |
| `CompletedStaysUnscheduled` | `CompletedHasNoNextRun` | strengthened over the file and over what manual runs remember, because restores and crashes bring both back |
| `PoolIsCapped` | `BatchCap` | with `BatchInTick`: a tick starts from no scheduled run, its workers map one-to-one to the jobs they took, and a worker's next job takes the slot of the last one |
| `RunningIsNeverLeftBehind` | `RunningIsInFlight` | inductive as `RunningInFlight`: every end of a run stores another state, manual runs never remember "running", and a job that leaves the queue enters a slot |
| `ApprovalsTyped` | `TypeOK` | part of `IInv` |
| `NobodyWaitsUnreachable` | `WaitersReachable` | part of `IInv` |
| `HighRiskTakesHumans` | `HighRiskNeedsHuman` | part of `IInv` |
| `GrantsTakeHumans` | `GrantsNeedHuman` | part of `IInv` |
| `RowsKeepDecisions` | `RowKeepsDecision` | part of `IInv` |
| `SessionsApart` | `OthersUntouched` | an action property: every step that ends a wait is `OnlyIn` one session, because what it settles is a subset of that session's requests |
| `ServiceTyped` | `TypeOK` | with `References`: a call in its turn, and a follow-up that waits or runs, hold objects that exist |
| `BusyIsOwned` | `BusyHasOwner` | whoever sets the flag is on the runtime, and whoever leaves it clears the flag |
| `TurnsShareAfterFollowUp` | `SharedOnlyAfterFollowUp` | strengthened by `Exclusive`: until a follow-up came, a turn's runtime is busy, so the second busy check keeps every other turn out |
| `TurnsAreSpared` | `EvictionsSpareTurns` | an action property, from `Exclusive`: until a follow-up came, the runtime of a turn at any stage is marked busy, because no other turn is on it whose end would clear the flag |
| `ServerTyped` | `TypeOK` | with `OneAttempt`: the only attempt under way is `connectPromise` |
| `ServerStaysOff` | `OffStaysOff` | `OffOrTurning` and `OffKinds`: a server that is off has nothing, or the operation that turns it off still waits |
| `ServerIsCurrent` | `ServesCurrentConfig` | `Replaced`: what was built from edited settings is about to be cancelled or closed by the pass that saw the edit |
| `ReloadsInOrder` | `LastReloadWins` | `OnePass`: at most one pass is applying |
| `ServerKeepsPromise` | `KeepsPromise` | every step of `McpServer` is a step of `McpPromise` or a stutter |
| `PlanTyped` | `TypeOK` | no subtask is due in two levels |
| `StopsReach` | `StopReaches` | `Children`: a child's step, Agent, record and registration agree |
| `WorkersKeepCap` | `WorkersCapped` | `Cap`: those at work were started with this chunk, and a chunk has at most `Limit` |
| `SettledAreClosed` | `SettledIsClosed` | from `Children` |
| `PlanKeepsPromise` | `KeepsPlan` | every step of `PlanExecutor` is a step of `PlanPromise` or a stutter; `Levels` gives dependencies first |
| `NobodyOnKeepalives` | `FollowersAreFed` | strengthened by `OnlyCurrent` and `Subscribed`: only the tab's current connection is ever subscribed |
| `OneConnectionFed` | | the part `Subscribed` of the same invariant |
| `ScreenTyped` | `TypeOK` | `HubInv` bounds the log's numbers by its length and keeps room for the terminal event; `Good` in `TabInv` types the tab |
| `SpinnersHaveCause` | `SpinnerHasCause` | `SpinInv`: a timer is armed only for a spinning tab without a transport, and an idle tab has none |
| `ScreenShowsTheStream` | `ShowsTheStream` | `Good` in `TabInv`: what the tab has is in order and complete but for `cut`; `WireInv`, below, keeps it so |
| `NothingIsTakenBack` | `NothingTakenBack` | an action property: `TabInv` says that the record has all that the tab has of its turn, `WireInv` that a baseline on its way has it too; `Keeps` for each step of the tab through `KeepsBy` |
| `FramesContinueScreen` | | `TabInv` and `WireInv` themselves |

`IInv` of `Approvals_proofs` adds to the checked invariants that undecided requests are those
that did not leave the store (`Undecided`), that the row follows the stage (`RowsFollow`) and
that a grant is made by the step that decides (`GrantsDecided`). The lemma `SettlingSteps` reduces
all the paths that settle to one formula, `Settles(R, d, who)`, and `SettlesInv` shows the invariant
for it once; the remaining actions have a lemma each.

The refinements. `McpServer` maps to `McpPromise` by what is open, what serves and what is
registered; its invariant `IInv` is `TypeOK`, `WereOpen`, `OnePass`, `OffKinds`, `OffOrTurning` and
`Replaced`. `PlanExecutor` maps to `PlanPromise` by the fate of each subtask; its `IInv` is `TypeOK`,
`Children`, `Levels` and `Cap`. In both, one lemma per action names the abstract step it is.

`ChatStream`. In `ChatStream_proofs` the steps that only end responses are reduced to one lemma
(`EndingStep`), those that replace the transport to two (`AbortStep`, `OpenStep`). What is on screen
depends on more than `ShowsTheStream` says: on frames that are under way. The inductive
invariant `ScreenInv` of `ChatScreen_proofs` is the conjunction of that `IInv`, the connections' type, and

* `HubInv`: the log is that of the record's turn, numbered without a gap, with a terminal event
  at its end exactly when the turn is over;
* `TabInv`: the tab is `Good`, which is four things about what it has, on screen or in the timeline:
  it is in the order of each turn, each piece once (`Ordered`); what is missing before a piece of it
  is in `cut` (`Complete`); what is not on screen has its timer armed or is in `cut`; and the types. What it
  has of the record's turn is in the log, and an idle tab has no turn open;
* `WireInv`: only the current connection has frames. They are the rest of one turn's log after its
  first k events and the tab is `Ready` for the next one, that is, it has nothing of that and what
  comes after, and all before it is in a bubble or was cut off (`Following`), or a baseline and the
  rest of the log after it (`Resuming`), or one answer that ends the response; a connection
  that the hub still feeds has the rest of the log as it is now, any other the rest of the log
  as it was when it was let go (`Stream`);
* `SpinInv`: timer, transport and spinner agree.

A step of the hub is reduced to `HubStep` (the log grows, or is dropped, or is that of a new turn),
which is all that `TabInv` and `Wired` need of it; a delivered frame falls into three lemmas,
`DeliverAnswer`, `DeliverBaseline` and `DeliverEvent`. The last two rest on `ApplyIs` and `ReplayIs` of
`ChatReplay_proofs`: one event keeps a tab that is ready for it a tab that is ready for the next,
and so the events of a baseline, replayed into an empty tab, leave one that has them and no others, on
screen or with the timer armed, but for what an aborted end cuts off. `Goes` says what such a step may do to the tab: it gets no
pieces but the new one, counts what it loses as `cut`, and leaves on screen what is there;
`KeepsBy` gets `Keeps` from it.
The second is an induction over the baseline. The library's induction theorems take an
operator as a parameter and cannot be used, so `Induction` states it for a set, from the
well-foundedness of the naturals, and `ApplyAllIs` shows that the recursive function `ApplyAll` obeys
its equations. TLC checked `TabInv`, `WireInv` and `SpinInv` on the instance of `chat_stream` before the proof.

## 10. Only model-checked, and not modelled

Liveness (`DueJobsFire`, `OrphansRecovered`, `ApprovalsEnd`, `CallsEnd`, `InvalidationLands`,
`OperationsReturn`, `CallsReturn`, `PlanReturns`, `SpinnerEnds`) stays with TLC: the prover has no rule
for fairness. Every other property of a passing run is also a theorem.

Not modelled inside the components above: texts, cards and bridges (`swapCard`), the context
window with overflow recovery and compression, titles, metrics, the requester check of the
Feishu card, delivery payloads, tool exposure and the OAuth exchange, tasks, teams and
messages of the orchestrator, and what each section names. The components without a
module are listed with their reason in `PROJECT.json`; those that keep concurrent state are
in the plan above, the others are data, rendering or clients of external services.

## 11. Running it

    tlc -workers 2 -config CronApi.cfg MCCronScheduler      # and the other .cfg files
    tlapm McpServer_proofs.tla                              # and the other *_proofs.tla

Every run ends within three minutes on two cores (`mcp` and `chat_stream` take the longest). Runs
whose names are in the tables with "violated" are meant to fail: each shows where a comment or
a test of the code and the code differ. Deadlock is not checked: bounded requests, calls and
clocks come to an end. Each property of a passing run has a mutant, an operator defined just
before the one it replaces (`MayTickAlways` before `MayTick`), which makes that property fail.
