# Formal models of GaiaAgent

TLA+ models of the parts of GaiaAgent (`src/src/gaiaagent`) whose correctness
depends on the order in which things happen, TLC configurations that check them
on small instances, and TLAPS proofs of the results that hold for every
instance. Paths below are relative to `src/src/gaiaagent/` unless they start
with `src/`.

GaiaAgent runs on one asyncio event loop. Between two suspension points a
coroutine is atomic, so **one step of a model is what a task runs between two
suspensions**. Most `await`s in this code await another coroutine that never
suspends; those are not interleaving points, and every module says in its
header which ones are.

## Checking

    tlc -workers 2 -config lifecycle_managed.cfg MCLifecycle
    tlapm LifecycleProofs.tla

`PROJECT.json` lists every run, the properties it checks, for each property a
fault that would break it, the source lines of every definition, the hazards
the properties are for, and the theorems. The faults are in the modules, each
before the definition it spoils, marked "A fault".

## Inventory

| Part | State it keeps | Operations | Works with | What is hard |
|---|---|---|---|---|
| Runtime harness, `harness/lifecycle.py` | agents by id; per agent its state, retry count, gauges, pause event | register, unregister, start, pause, resume, stop, complete, restart, report_error, run_with_lifecycle, shutdown | run callables (LLM loops), AURC server, dashboard | control calls between the suspensions of a run: a paused run, a backoff, a loop that is still going |
| Message router, `bus/router.py` | handlers, forwarders, subscriptions, dead letters, statistics, authorizer; TTL inside each message | route, (un)register_handler, register_bridge_forwarder, (un)subscribe, set_authorizer, stats.reset, clear_dead_letters | handlers of agents, bridge connectors, route guard | many calls wait at once; relays share one message object; configuration changes under waiting calls |
| WebSocket client, `transport/websocket.py` | connection, connected and closing flags, listener and heartbeat task | connect, send, receive, subscribe, close | WebSocket server, handler of the program | three tasks share one connection that breaks and is replaced; cancellation |
| WebSocket server, same file | set of clients, running flag | start, stop, broadcast, connection handler | handler of the program | clients come and go under broadcast and stop |
| HTTP transport, `transport/http.py` | server task; pooled client | start, stop, app; send, close | uvicorn, httpx, AURC server | a retried POST may be processed twice; drain and forced exit |
| Session manager, `bus/session.py` | sessions, conversation index | create, close, advance_turn, set_context, cleanup_stale | - | eviction, index and sessions disagree |
| Context store, `harness/context.py` | entries by scope, owner and key | save, load, delete, list_keys, clear_scope | - | expiry, aliasing of stored values |
| Agent registry, `registry/local.py` | entries with heartbeats | register, unregister, heartbeat, evict_stale, export, import | - | eviction against late heartbeats |
| Authorization engine, `security/authz.py` | policies, rate windows | set_policy, remove_policy, authorize, authorize_scopes | policy store, guards | rule order, shared rate windows |
| Guards, `security/message_authz.py`, `bridges/authz_guard.py` | counters, audit log | authorize_message | engine, delegation validator, audit log | decisions that raise |
| Delegation, `security/delegation.py`, `signing.py` | chain being built, public keys | add_hop, sign, validate | guards | optional signatures, cycles, narrowing |
| Authentication, `security/auth.py`, `key_store.py` | keys, secrets | create, revoke, authenticate | - | several authenticators in turn, restarts |
| Audit log and trace recorder, `security/audit*.py`, `observability/trace_sink.py` | last entries or traces, two files | store, clear | guards, tracer | rotation, failing writes, whole traces |
| Workflow patterns, `workflows/orchestrator.py` | correlation id in a context variable | chain, route, parallel, orchestrate, optimize | router | fan-out with cancellation, nested scopes |
| AURC server, `server.py` | agents | register_agent, http_handler | harness, router, HTTP | failures must become answers |
| Bridges, `bridges/*.py` | none | translate both ways, forward | router, other vendors' servers | ids and failures that get lost on the way |
| LLM drivers, `integrations/*.py` | a subprocess; a history | agentic_loop, converse | command lines and API of vendors | processes that fail, hang or break off |
| Core, codec, MCP stdio server, metrics and dashboard, SDK, CLI | almost none | - | - | I/O and data conversion |

What makes each correct, in a line: the harness drives an agent with one run at
a time, which ends; the router delivers nothing that is not allowed, counts
everything once and stops loops; the WebSocket client repairs every loss while
somebody listens and reads nothing after `close()`; the server knows every
client; the HTTP client repeats only what was not answered; the stores keep
their bounds, indexes and promises of age; the security layer grants nothing
beyond limits, chains and credentials, and lets nothing pass unrecorded; a
workflow's hops share one correlation id; an exchange means the same on both
sides of a bridge; a loop that failed does not look like one that ended well.

## Modules

| Module | Models |
|---|---|
| `AgentContract` | abstract: what an observer sees of an agent, its state and its error count |
| `Lifecycle`, `MCLifecycle` | `harness/lifecycle.py`, the harness, its agents and the tasks that run them |
| `MessageRouter`, `MCMessageRouter` | `bus/router.py`, with the authorizer as a policy that may change |
| `WorkflowContract` | abstract: what the program and the receivers of messages see of the executions it calls |
| `Workflows`, `MCWorkflows` | `workflows/orchestrator.py`: the patterns, alone and inside one another |
| `WebSocketClient`, `MCWebSocketClient` | the client of `transport/websocket.py` |
| `WebSocketServer` | the server of `transport/websocket.py` |
| `HTTPTransport` | both ends of `transport/http.py`, with the network between them and the handler of `server.py` behind |
| `MCTransports` | the three transports, one at a time |
| `Authorization` | `security/authz.py`, `policy_store.py` and the two guards |
| `Delegation` | `security/delegation.py`, `signing.py` |
| `Authentication` | `security/auth.py`, `key_store.py` |
| `Trail` | `security/audit.py`, `audit_sink.py`, `observability/trace_sink.py` |
| `Sessions`, `Contexts`, `Registry` | `bus/session.py`, `harness/context.py`, `registry/local.py` |
| `Bridges` | `bridges/base.py`, `a2a.py`, `acp.py`, `connector.py` |
| `LLMDrivers` | `integrations/claude.py`, `claude_cli.py`, `codex_cli.py` |
| `MCComponents` | the last nine, one at a time |
| `LifecycleProofs`, `MessageRouterProofs`, `WebSocketClientProofs`, `WorkflowsProofs` | theorems about the module they are named after |
| `TransportProofs` | theorems about the WebSocket server, the HTTP transport and `MCTransports` |
| `SecurityProofs` | theorems about `Delegation`, `Authentication`, `Authorization` |
| `StoreProofs` | theorems about `Registry`, `Contexts`, `Trail`, `Sessions` |
| `IntegrationProofs` | theorems about `LLMDrivers`, `Bridges` and `MCComponents` |

`MCTransports` and `MCComponents` put parts side by side that share no state:
a variable (`transport`, `component`) says which one a behaviour is about, and
the others stay as they begin. It is one run for many questions, with as many
states as the parts have together, not their product. The parts were separated
where the code separates them; where calls do cross a boundary (guard and
engine and audit log, router and authorizer, HTTP client and server, bridge and
bridge, patterns within patterns) one module has both sides.

### Lifecycle

`agents` is `_agents`, `inst` the `AgentInstance` objects (an unregistered
instance stays in `inst`: sleeping tasks still hold it), `task` the asyncio
tasks. A record of `inst` has the state, `_retry_count`, the gauges and whether
`_pause_event` is set. Record operators (`Started`, `Paused`, `Stopped`, ...)
are the bodies of the harness methods; actions (`Start`, `Pause`, ...) are the
calls. `StartRun` is the `start()` and `wait_if_paused()` at the head of every
attempt, used by `BeginRun`, by `LoopFails` when the recovery did not sleep and
by `BackoffEnds` when it did. `Released` is `Event.set()`: whoever waits at that
moment is let go and runs later, without looking at the event again (`WakeUp`).

The constant `Controls` says which calls the rest of the program makes. That
is how a run or a theorem states the environment it assumes.

`ImplementsContract` is the refinement: under the mapping from an id to the
state and retry count of the instance registered for it, `Lifecycle` implements
`AgentContract`. TLC checks it with every control call allowed.

### MessageRouter

One step of `route()` goes from the call to the handler (`Admit` with one of
the five destinations, `Deny`, `CrashInGuard`, `Drop`); the second is what the
handler does (`HandlerReturns`, `HandlerRaises`, `SubscriberEnds`) or the
cancellation of the caller. An address is a sequence of segments; `Scheme` says
what its prefix means to `route()`. `policy` is what the authorizer would do
with each message *now*; `ChangePolicy` is the engine's `set_policy`.

### WebSocketClient

`net` is the world's side of each connection, `ws`, `connected` and `closing`
are the client's fields. `listener` and `beat` are the tasks, with the place
where each is suspended and whether it has been cancelled; `caller` is the
program. `Establish` is `connect()` after its suspension and is a part of the
step of whoever called it. `ToLoopTop` is everything the listener does from the
top of its loop to its next suspension.

`Polite` restricts the program as the usage example of the class does:
`connect()` only while not connected and no listener runs, `receive()` only
without a listener. `Settled` says that callbacks that are ready run before the
listener's sleep of at least a second ends; the race it would otherwise allow
(a ping that failed long ago, reported after the reconnection) needs an event
loop that is blocked for a second.

### WebSocketServer

`handling` is where each connection's handler is, `clients` the set `_clients`
that handlers, `broadcast()` and `stop()` all write. A broadcast chooses its
receivers when it begins (`Broadcast`) and removes the failed ones when the
last send is over (`CastEnds`); `stop()` closes a copy of the set one by one
(`CloseOne`), and `CloseServer` is `server.close()`, which closes whoever came
meanwhile. `start()` sets its flag before it binds, so a `stop()` in between
finds no server ("too early"): it returns, and the server starts all the same.

### HTTPTransport

`request[c][n]` is the n-th attempt of call `c`: sent, running in the server,
or the status it was given, which the client may never see (`NoAnswer`).
`holds` is the httpx client a send took at its beginning and keeps through its
backoffs. `captured` says that `start()` found a handler, later ones have no
effect. What `http_handler()` of `server.py` promises, a body with status 200
for every failure, is `Statuses`.

### Workflows

`task` is the asyncio tasks; a task's `frames` are the `execute()` calls it is
in, innermost last, and its `ctx` the value of `_workflow_correlation` in its
context. A fan-out gives each part to a task of its own with a copy of the
context, which is what `gather()` and `create_task()` do. `current` is the task
that runs: a step of this module is one pattern's move (`Enter`, `Proceed`,
`Back`), smaller than a task's way from one suspension to the next, and as long
as `current` is set nobody else moves. A pattern's own code is its operator
(`Chain`, `RouteOne`, `GatherAll`, `Vote`, `Race`, `Orchestrate`, `Optimize`),
which says what it does next from how far it is.

`Doomed` is the set of tasks that will see a `CancelledError`: those on which
`cancel()` was called and, through `gather()`, those they wait for. A race
(`mode="first"`) waits with `as_completed()`, which hands no cancellation on; it
calls `cancel()` itself when it has a winner (`Won`).

`ImplementsContract` is the refinement of `WorkflowContract`, which knows nothing
of patterns: an execution is busy until it has its one answer, that is a
cancellation if and only if its caller was cancelled, messages carry the id of an
execution that is busy, and what is sent once it is over comes from tasks it left
behind (`loose`). The mapping reads the status of a caller off its task, and
`Loose` off all tasks: what a race leaves behind that was cancelled itself, or is
about to be. A promise without `loose` would be false of this code, since
`as_completed()` leaves its tasks to themselves when it is cancelled. The promise
is silent about tasks a race has cancelled and does not wait for: they send
nothing any more, which is part of the refinement, and end in their own time.

### The components of `MCComponents`

`Authorization`: `window` is what the limiter remembers for an agent and a
resource, the times of grants under their numbers, `grants` the history it is
compared with; `Decide` is any of the ways
a message comes to the engine, `GuardRoute` the router's guard with its audit
entries. `Delegation`: a hop carries what its signature was made of, so that a
rewritten hop has a signature that no longer fits; `Forwarded` are hops of any
origin. `Authentication`: `ring` is a key store per authenticator, `held` the
last result; `Reboot` keeps the SQLite stores. `Trail`: one module for both
sinks, since their files are alike; `StoreLine` lets the rotation and the write
fail. `Sessions`, `Contexts`, `Registry`: their tables, with a clock that need
not move between two calls; a session is its number, in the order of creation,
and the table and the lists of the index are sets of them. `Contexts`: `version` is
what the callers' objects say, and an entry is a copy of that or, once it was saved
over, the object itself; `saved` remembers what `save()` was last given, `fresh` that
`load()` would have found nothing there, `steady` that the time to live is what it was
ever since. `Bridges`: an exchange is a message and what comes of
it; the other end is a foreign server or another node. `LLMDrivers`: a process
prints lines and ends, fails, hangs or is killed, or cannot be killed and runs on
(`stray`); a line has a kind and the `stop_reason` the assistant gave with it, and one
that is JSON may still have no content (`bare`). The built-in loop takes turns.

## Runs

| Run | Instance | Shows |
|---|---|---|
| `lifecycle_managed` | 2 agents, 2 instances, 2 tasks, 2 retries, 4 starts | runs against pause, resume, stop, complete, shutdown and cancel |
| `lifecycle_open` | 1 agent id, 2 instances, 2 tasks, 1 retry, 2 starts; every call | types, dead orphans, the contract |
| `lifecycle_restart` | finding | a run blocked on a RUNNING agent |
| `lifecycle_shutdown` | finding | an agent that survives `shutdown()` |
| `router` | 2 messages, TTL 2 and 1, 2 waiting calls, 2 subscriptions, 1 dead letter | TTL, statistics, authorization |
| `transports` | client: 2 connections, 2 listeners, 2 heartbeats; server: 2 connections, 2 messages; HTTP: 1 call, 1 retry, 2 pools, every path | loss, reconnection and close; the set of clients; repeated posts; everything ends |
| `websocket_close` | finding | connected after `close()` |
| `workflows` | 1 task that executes twice, 5 tasks of fan-outs, 1 left over; nested patterns of every kind, a race within a race | correlation ids, losers of a race, results, the contract, everything ends |
| `components` | see `components.cfg` | the safety of each of the nine |
| `bridges_error` | finding | `forward()` raises on an error that is a text |
| `contexts_over` | finding | a value saved over another: it follows its caller's object, and its time to live is ignored |
| `drivers_empty` | finding | a stream that says nothing ends as a clean turn |

Why the bounds are enough. Two tasks on one agent are needed for every conflict
between runs, and a third adds none: `start()` compares states, not tasks. Two
instances are needed for a task that sleeps on an instance that is no longer
registered. Two retries make the first retry, a further one and the one too
many three different cases. `MaxStarts` is the only bound the harness does not
have; it is above `MaxRetries + 1`, so a run can use up its retries. In the
router a relay needs a TTL of two and a broadcast two subscribers; `MaxDrops`
bounds a counter nothing depends on.

In the WebSocket client a connection object that nobody holds stands for a new
one, so two of them are an unbounded sequence of reconnections; a heartbeat may
outlive its connection by one. The server's broadcast and stop need one client
that is chosen and one that comes or goes meanwhile. An HTTP call with one
retry has a first attempt, a last one and a late answer to the first; calls
touch each other only through the pool, which `CloseClient` and `MaxPools` = 2
exercise with one call.

In the workflows the second execution starts in the context the first one left
and may meet a task the first one lost (`MaxLeft`); a race of a handler against
a fan-out has a loser that waits for tasks of its own, and one of a handler
against a race a loser that leaves its tasks behind when it is cancelled. Five
tasks are enough for every nested fan-out next to one that was left behind.

In `components`: an hour of two ticks and four ticks of clock let a window fill,
slide and fill again, with limits of one and two and three decisions; chains of
three hops under a depth of three, with a first hop, a middle one and a last
one, and every forwarded hop at every place; two key rings, one of them
durable, and two keys of one agent; two remembered entries of three ids and two
lines per file under five entries, so that both files are rotated twice; a full
session table of two and four sessions; a place of a private and one of a
shared scope, two objects and every time to live; a registry clock of four
minutes under a time to live of one; loops of two turns and streams of two
lines; every message over every protocol.

## Fairness

`lifecycle_managed`: weak fairness of what the event loop does by itself (a
released waiter runs, a backoff timer fires) and strong fairness of "the loop
callable ends", because pauses interrupt it again and again. LLM loops have a
turn limit (`max_turns`) and a timeout. Nothing is assumed of the program: it
may never resume a paused agent, which is why `EveryRunEnds` excepts a run that
stays paused for ever.

`transports`, WebSocket client: weak fairness of every task's step, of timers,
and of the end of `connect()`, `send()` and handlers; strong fairness of a dial
succeeding, since a server that is never reached cannot be reconnected to. No
fairness makes a message arrive. HTTP: httpx ends every attempt, at the latest
by its read timeout, uvicorn leaves when it was told to and nothing runs, or at
once when it was forced, and the timer of `stop()` fires. Nothing is assumed of
a handler, which may hang for ever; that is the case `stop()` is written for.

`workflows`: the event loop goes on as long as a task is ready or a handler
can end. No fairness between tasks is needed, since no execution goes on for
ever by itself. `EveryTaskEnds` says that nobody is at work in the end: the
program starts finitely many executions (`MaxRuns`), so this is that each of
them ends, and each task of a fan-out with it.

## Proofs

All theorems hold for every value of the constants, from the modules'
`ASSUME`s on them. Each invariant below is stronger than what it proves,
because that is seldom preserved by a step alone. Eight modules hold the
theorems; those of small components are together with their neighbours'.

`LifecycleProofs`
- `TypeCorrect`: `TypeOK`, which is inductive by itself. `ReportedOutcome` and
  `StartRunType` do the work for the actions that make several changes.
- `PauseEventCorrect`, if `restart` is not among the calls: `PauseEventAgrees`.
  `AgreesOps` shows it for the record operators, then one step per action.
- `OneRunCorrect`, if none of `restart`, `report_error` and `unregister` is
  called (`Intrusive`): `OneRunPerAgent`. The invariant `RunInv` adds that a task
  works on the instance that is registered for its agent, that two ids never
  share an instance, and that an instance a task works on is in none of the
  states from which `start()` accepts it, unless it was stopped. Hence a second
  `start()` is refused.
- `OrphansCorrect`: the action property `OrphansStayDead`, and
  `HarnessImplementsContract`: the refinement of `AgentContract`, both with every
  control call. `Effects` says what any step of the harness comes to for the
  instances: one of them evolves, an agent enters or leaves the registry, or
  some agents are stopped (`ChangesOne`, `Enters`, `Leaves`, `Stops`); `CoreInv`
  adds that an orphan is never left recovering and that a busy task holds an
  instance no other agent is registered with, so that what evolves is what an
  observer sees of one agent. Each of the effects is then a step of the
  contract or a stutter.
- `AttemptsCorrect` and `DriftCorrect`, under the assumption of `OneRunCorrect`:
  `AttemptsWithinBudget` and `DriftWithinRetries`. The invariant is a `Ledger`
  over `RunInv`: all attempts of a run but the one under way are paid for by
  retries of its instance, and so is every count in `active_tasks` but that of
  an agent that is running or paused. It needs `RunInv` since a second run on the same
  agent would spend the retries of the first.

`MessageRouterProofs`
- `RouterTypeCorrect`: `TypeOK`, the bound of the dead-letter queue included.
- `HopsBounded`: `HopsWithinTTL`, from the ledger `hops + ttl = initial TTL`.
- `RoutesCounted`: `EveryRouteCounted`, one case per destination.
- `RouterFailsClosed`: the action property `UnallowedGoesNowhere`; only
  `TakeIn` changes `hops`, and of the actions that take a message in only
  `Admit` touches the waiting calls or the dead letters.

`WebSocketClientProofs`
- `TypeCorrect`, `NeverTwoListeners`, `NobodyListensAfterClose`,
  `ConnectionsAreKeptAlive`, from one invariant: the only live listener is the
  one in `_listener_task`; none lives while `close()` waits for the connection
  or has returned, and `subscribe()` has taken the latter back before it waits;
  a heartbeat that is cancelled lives only while `close()` waits for it. The
  last is what `BeatWhileConnected` needs: a cancelled heartbeat could
  otherwise be the one a reconnection relies on. Neither `Polite` nor
  `Reconnect` matters.

`TransportProofs`
- `ClientsStayKnown`: `ClientsAreKnown`. A send that failed was to a connection
  that is lost for good, so that removing it later removes nothing that stands;
  `stop()` came beyond its first lines only if there was a server, and no
  connection comes after it is closed.
- `RepeatedOnlyIfUnanswered`: `AnsweredRunsOnce`. A call for an agent that was
  never left without an answer is at its first attempt, has no other, and its
  runs agree with what became of it.
- `HTTPTypeCorrect`: `HTTPTypeOK`, which bounds what is counted: a send makes at
  most one attempt more than its retries, and the handler runs at most once for
  each. The runs of a call are compared with the set of attempts the server took
  in (`Begun`), which is no larger than the attempts there are.
- `TransportsTypeCorrect`: `TransportsTypeOK`, from the invariants of the three.

`SecurityProofs`
- `ChainTypeCorrect`; `AcceptedIsIntersection`: `EffectiveIsIntersection`; and
  `BuiltIsAccepted`: `BuilderIsAccepted`. That neighbours that narrow make a
  chain that narrows would be an induction over the chain; `Nested` makes it one
  over the steps that build it, so that it holds of chains of any length.
  `Built` says what `add_hop()` and signing maintain.
- `AcceptedByWhatStands`: the action property `CredentialStillStands`. Deleting a
  key from one ring takes it back everywhere only since no two rings hold it.
- `AllIsRecorded`: `NothingPassesUnrecorded`. `AuditInv` adds that a log that is
  not attached has no entries, so that counting begins when it is attached.
- `HourIsLimited`: `NoHourExceedsTheLimit`. The window forgets what is too old
  only when it is looked at and rules of different limits share it, so that
  neither its length nor its age says enough. `Remembers`: what it has are grants
  under their numbers and times, and no grant of the last hour is missing.
  `WithinLimit`: for each grant, those of the hour before it were, with it, no
  more than the limit it was given under.

`StoreProofs`
- `HeardOfStaysListed`: `HeardOfIsListed`, over evictions and imports.
- `SavedIsServed`: `ServedAsSaved`, which is what the code and what the repository
  says of it have in common. A value saved where there was none is isolated from its
  caller and lives for exactly its time to live; one saved over another is served as
  long as its object is unchanged, and lives for exactly its time if that was not
  changed. For the rest the two disagree: `contexts_over`. `InStep`
  ties an entry to the last save of its place; `HasRunOut` says that a save whose entry
  was dropped, but not deleted, is over, so that no clean-up drops what still lives.
- `FilesAreTheEnd`: `FilesKeepTheLatest`. `EndOf` is the relation "is the end of"
  without a function that takes the end, so that it composes: the rotated file
  and the current one together end what was written, and they are all of it or
  at least a full file.
- `MemoryStaysWhole`: `MemoryIsWhole`. For the audit log memory is the last
  entries under their numbers, without a gap; for traces the group of an id that
  was not dropped lists all its spans, in their order (`WholeIn`).
- `SessionsTypeCorrect` and `ListingIsWhole`: the bound of the table, and
  `ConversationsAreWhole`. `IndexIsRight`: a session in the index is there under
  its own conversation, and every one in the table is in the index. That a full
  table has a session to evict is the least number of a set that is not empty.

`WorkflowsProofs`
- `OneIdCorrect`: `OneIdPerRun`. `Base`: a task within a pattern has the id of its
  execution in its context, each `execute()` on its stack knows what it found
  there, only the current task is on the move, and as many ids were made as
  executions begun, but for the one that has not yet made its own.
- `AwaitedCorrect`: `AwaitedOrCancelled`. `Care`: a task of a fan-out has one that
  waits for it, or was cancelled, or was left behind by a fan-out that was; no
  two wait for one, and none for a task it cancelled.
- `VerdictCorrect`: `VerdictAgrees`. `Rightly`: a task that somebody gathers ends as
  cancelled only if that task is doomed. `Doomed` is what is reached in as many rounds
  as there are tasks; `WhyDoomed` says that who is doomed first is so in some
  least round. `Tally`: what a pattern has counted agrees with what became of
  its tasks.
- `WorkflowsTypeCorrect`: `TypeOK`, for patterns nested to any depth. It has a proof
  only; the run `workflows` is for the properties that say more.
- `WorkflowsImplementContract`: the refinement of `WorkflowContract`. That a task
  that sends works for an execution that goes on, or left it behind
  (`WorkIsWanted`), needs to know of all those that wait for it, one for the other,
  however deep the nesting. `Orderly` makes this an order: tasks can be ranked so that nobody
  waits for one of a lower rank (`Ordered`), all in a line are of one execution
  (`OfOneRun`), and a cancelled task does not go on (`Sober`). Of those that work
  for nobody the one of the least rank would have nobody who waits for it, which
  `Care` excludes. `Doomed` is the least set closed under gathering (`DoomedLeast`,
  `DoomedClosed`), so that whom a step can cancel is found by naming a closed set;
  `DoomedGrows` is such a fact, and with it `Loose` grows by one execution at most.
  The actions are then sorted into those that send nothing and answer rightly
  (`Tidy`, `Answers`, `QuietStep`) and the few that map to a step of their own.
- `NobodyIsStuck`: as long as anybody is at work some task runs, has its handler
  out or finds the guard of its wake-up true (`NeverStuck`). Were nobody ready,
  whoever waits would wait for one that waits (`WaitingWaits`), of a higher rank,
  and ranks have a bound (`RanksBounded`). A race needs `Spared`: no task it waits
  for ends as cancelled. This is the half of `EveryTaskEnds` that needs no
  fairness: nobody waits in a circle. That executions do not go on for ever is the other half,
  and is model-checked. Only `MaxKids` can hold up a pattern that runs, where the
  program has no such bound.

`IntegrationProofs`
- `LoopsAreHonest`: `LoopsEndHonestly`. What is promised is that `_kill()` was called, as
  it is best effort: a process that cannot be killed outlives its loop, and its end is
  read by nobody. Nor is a turn that was told by nothing but JSON without content
  excluded, see `drivers_empty`. A loop that has a process waits for it;
  once it has none, what it reports agrees with how the process ended and what
  was read of it (`Honest`).
- `MeaningIsKept`: `ExchangeKeepsItsMeaning`. `NativeArrives` is about the
  translations alone: a message that has a counterpart in the other protocol is
  there and back again what it was. The invariant ties each stage of an exchange to the
  message it began with.
- `ComponentsTypeCorrect` and `ComponentsCorrect`: `ComponentsTypeOK`, and all the other
  properties of the run `components`, of the composition that TLC checks.
  `ComponentsAreThemselves` says that it implements the specification of each
  part: a step of one part leaves the variables of the others alone. The types of
  the parts are `AuthTypeCorrect`, `AuthzTypeCorrect`, `ChainTypeCorrect`,
  `RegistryTypeCorrect`, `ContextsTypeCorrect`, `SessionsTypeCorrect`,
  `TrailTypeCorrect`, `LLMTypeCorrect` and `BridgesTypeCorrect`; in those of the guards and of the
  sinks a count is bounded by another (decisions by messages asked about, lines
  by entries), which the invariant relates. They need that `MaxAsked` is a number and that there
  are finitely many `Talks`.

What the proofs asked of the models. `Parsed` of `LLMDrivers` and `Recovery` of
`Lifecycle` are as exclusive as the code's `if`/`elif`; of a `CASE` with branches
that overlap TLC takes the first, and the prover may not. The session table and its index became sets of session numbers,
in the order of which sessions are created; the order in which the code keeps
them is that of their numbers. A rate window became times under the numbers
of their grants, since two grants may have the same time.

Only model-checked. *Liveness* (`EveryRunEnds`, `EveryTaskEnds`, `StopEndsTheRun`,
`LossIsRepaired`, `CloseReturns`, `HTTPEnds`): TLAPS has no rules for `ENABLED`,
which weak and strong fairness are made of. The runs that end in a violation have
nothing to prove.

*Induction over data* is out of the provers' reach, and so is what a recursive
definition computes. Where an argument needs one it is made over the steps
that build the data (`Nested`, `Remembers`, `WholeIn`), or from the well-foundedness
of `<` on the naturals: a set of them that is not empty has a least one
(`LeastNatural`, `LeastOf`).

## Findings

Six runs end in a violation. Each states what a comment, a doc or a test of
the repository says and shows the steps by which the code does something else;
`PROJECT.json` quotes the lines. The state reached by `websocket_close` was
also produced by running the client itself against a stub connection.

## Noticed on the way

What reading the code for the models showed, where the models follow the code.
Where a document says otherwise it is named; for the rest none was found that does:

- *Authorization.* Rules have limits of their own but share one window for an
  agent and a resource, so a grant under one uses up another's. A window of hours
  that ends after midnight never holds. The delegation policy in an agent's
  policy is not consulted. Windows are lost at a restart, SQLite policies are
  not.
- *Delegation.* A hop from an agent to itself passes the check for cycles. One
  signed hop satisfies `require_signatures`, the others are skipped. The builder
  stamps hops with the wall clock and does not look at the last stamp.
- *Audit log.* `import_from_file()` imports nothing: it appends to a copy, and returns
  the count all the same. `src/docs/en/guides/security.md:533` prints that count as
  "Imported {count} entries"; no run shows it, since export and import are not modelled.
- *Registry.* An export has only the ids of skills, and an agent with skills is
  therefore skipped by the import.
- *WebSocket server.* A `stop()` while `start()` binds is lost.
- *HTTP.* `set_handler()` after `start()` has no effect, and a server without a
  handler answers 200 with an error in its body. A client that is closed during
  a backoff ends the send with an error. A result that has no JSON is answered
  with 500 after the handler ran, so that the sender repeats it. Of httpx's
  errors some, `WriteError` among them, are not repeated.
- *AURC server.* `register_agent()` enters the agent before the harness can
  refuse it.
- *Bridges.* A2A turns a failure into a result. A request that is no delegation
  is posted over A2A and ACP as an error.
- *LLM drivers.* `converse()` leaves the message of the user in the history when
  the API fails; `clear_history()` during a call leaves a history that begins
  with an answer. The built-in loop counts every stop reason but `end_turn` as a
  request for tools.
- *Harness.* A paused agent can be unregistered; a run that waits in it waits
  for ever. `report_error()` never takes back the `active_tasks` of the `start()` it
  ends, so that the gauge, the "Active in-flight tasks" of
  `src/src/gaiaagent/observability/metrics.py:14`, stays one too high for every retry;
  `DriftWithinRetries` says by how much.
- *Router.* `route()` looks for a forwarder only for the protocols mcp, a2a and acp
  (router.py:196). One for another protocol is never used, though
  `src/docs/en/guides/bridges.md:507` registers `forward_to_slack`.
- *Context store.* A value saved over another one is the caller's object and keeps
  the old time to live (`contexts_over`).
- *Workflows.* A vote over no tasks raises `IndexError`.
- *MCP stdio server.* A notification it does not know is answered with an error
  without an id.

## Not modelled

Harness: state listeners, the state history, `_stop_requested` (written, never
read), error texts beyond the strategy they select. Router: handlers' results.
WebSocket: the contents of messages, delays, a handler that calls
`subscribe()` or `close()` of the client it serves, two program tasks that call
the client at once, two broadcasts at once, the interpreter's old `wait_for`.
HTTP: `health_check()`, the pages of the dashboard. Workflows: what flows
between steps, scores and votes as values (a vote, an evaluation, a
classification is a choice), changes of a router while it executes, delegates
with a correlation id of their own, handlers that end as cancelled although
nobody cancelled them. Authorization: the values of attributes beyond numbers
and texts, policies that are changed after they were stored. Delegation and
authentication: the cryptography. Audit, registry: queries, searches and
formats. Bridges: parameters, skills guessed from words, the mapping of
capabilities. LLM drivers: prompts, tools and options, what a process prints
that could not be killed.

Settings and inputs that the models leave out, so that nothing is shown of them:
`log_grants=False` (`NothingPassesUnrecorded` is about the default), a clock of the
authorization engine that is set back, an audit entry that cannot be written as
JSON, an HTTP answer 200 that is not JSON, WebSocket frames that are not UTF-8, a
`heartbeat_interval` of zero or less.

Without a module: the data classes of `core/` (their parts that matter are in
the modules that use them), the codec and the SDK decorators (pure functions),
the MCP stdio server (one request at a time over a pipe), metrics, dashboard and
tracing beyond its sink (they read and render), the command line and the demo.

## Plan

1. `AURCServer`, composed of `Lifecycle` and `MessageRouter`, with the failures
   of `register_agent()` between its three registrations.
2. An abstract specification of the WebSocket client, a connection that is there,
   lost or closed, and that `WebSocketClient` implements it.
