# Verification of the Least-Connections load balancer

TLA+ models of the three programs of this repository (the TCP load balancer,
the telemetry backend and the machine simulator) and of all three together, TLC
configurations that check them on small instances, and proofs, checked by
TLAPS, that their safety properties hold for every value of the constants.

Run a model with `tlc -config X.cfg M`, a proof with `tlapm M_proof.tla`.
`PROJECT.json` lists the runs, the source lines behind every definition, a
mutation of the code for every property that makes it fail, the hazards and
the findings.

## The system

| Component | Source | State | Operations | Hard behaviour |
|---|---|---|---|---|
| Balancer: selection, counting, shutdown | `loadBalancer/internal/loadBalancer/balancer.go` | `backends`, `activeConnections`, `rrCursor` under `mu`; `wg`; two sockets per client | accept, `selectBackend`, dial, send assignment, relay, `releaseBackend`, signal, wait | one goroutine per client plus two relays, early returns with deferred calls, accept racing the signal, drain |
| Balancer: relay | same, `relay` | a read and a write deadline per direction, channel `done` | read, write, time out, return | two directions with separate deadlines, the first to return ends the session; closing under a blocked read; data in flight at a close |
| Balancer: configuration, process start | `config.go`, `main.go` | none | read one file | not modelled |
| Backend: server and store | `backend/internal/tcp/server.go`, `internal/state/store.go`, shutdown in `cmd/server/main.go` | `listener`, `conns` under `mu`; `wg`; `sessions` and counters under the store's lock | accept, open, track, spawn, read a line, begin/update/complete, reject, untrack, remove, `Shutdown` | Shutdown's snapshot racing the accept loop, buffered lines after a close, connections that drop, a five-second limit |
| Backend: validation | `internal/protocol/message.go` | the allowed metrics | `ParseLine`, `Validate` | an order of clauses over partial messages |
| Backend: configuration | `internal/config/config.go` | the types | `Load`, `Validate` | the same file is read by another program in another language |
| Backend: HTTP status | `internal/httpapi` | none | read | not modelled |
| Simulator: machine runner | `simulator/machine.py` | a semaphore of slots; one runtime with request flags per machine | connect, peek at the assignment, acquire a slot, hello, telemetry, done, close | requests, deadlines and cancellation at every await |
| Simulator: controller | `simulator/controller.py` | `_active`, `_tasks`, `_settings`, the counters, the loop's round | `set_load`, `spawn_manual`, `break_machine`, `stop_all`, choose, trim, spawn, count, `shutdown` | values kept across sleeps, calls interleaved with the loop, tasks cancelled before they run, exceptions in a task nobody awaits |
| Simulator: HTTP master, process | `simulator/httpapi.py`, `simulator/__main__.py` | a thread per connection; the thread of the asyncio loop | GET, PUT, POST, `_call`, `shutdown` | threads waiting on the loop, which stops the threads; a 30 s timeout; kept-alive connections |
| Simulator: configuration, metrics, messages | `simulator/config.py`, `metrics.py`, `protocol.py` | the types | read, check, generate, build | what Python converts, Go refuses, and the other way round |
| Simulator: dashboard, launcher | `simulator/static`, `test.py` | none of its own | poll, send | not modelled, except for the requests that the page sends |

How they interact: a machine opens a connection to the balancer, which picks a
backend, dials it, answers with one assignment line and relays bytes both ways.
The machine speaks `hello -> telemetry* -> done`; the backend never answers. So
a session ends when the machine closes, when the backend closes after `done`
or an error, or by an idle deadline in the balancer. Inside the simulator, threads of
the HTTP master submit controller calls to one asyncio loop, on which the
controller's loop and every machine run; the controller reaches a machine through
the flags of its runtime and through cancellation. Simulator and backend read one
file of machine types.

What makes each part correct: the balancer counts exactly the sessions that
exist, chooses a least-loaded backend, leaks nothing and drains on shutdown; the relay
loses nothing at a clean close and always ends; the backend enforces
the lifecycle, forgets dropped sessions and counts every outcome once; the runner
conserves its slots, answers every request as promised and is counted as what
happened to it; the controller holds the load at its target without overshooting and
shuts down; the HTTP master answers or gives up every call and ends when told; the two readers of
the types file agree; and together, whatever part fails, capacity is freed and a
finished job is completed.

## The modules

| Module | Models | Kind |
|---|---|---|
| `LeastConnections` | what a least-connections assignment is: sessions go to a backend with the fewest, and are released | abstract specification |
| `LoadBalancer` | `balancer.go` without the bytes | detailed; implements `LeastConnections` |
| `LoadBalancerTies` | `LoadBalancer` with a history of who won each tie | history extension |
| `Relay` | one session's relays, deadlines and socket buffers | detailed |
| `Protocol` | messages and the validator | operators |
| `SessionLifecycle` | what the backend promises of a connection | abstract specification |
| `Backend` | server, store and Shutdown; extends `Protocol` | detailed; implements `SessionLifecycle` |
| `MachineTask` | what the simulator promises of a machine's task | abstract specification |
| `Machine` | the runner's tasks sharing the slots, and how each run is counted | detailed; implements `MachineTask` |
| `Controller` | the maintain loop, the calls, shutdown | detailed |
| `HttpMaster` | the threads of the HTTP server, the calls on the loop, the end of the process | detailed |
| `Config` | both readers of the types file, the payload of `set_load`, and what depends on them; uses `Protocol` | operators and their use |
| `System` | machines, balancer and backends, as `MachineTask`, `LeastConnections` and `SessionLifecycle`, with the streams between them | composition |
| `MCLoadBalancer`, `MCLoadBalancerTies`, `MCBackend`, `MCConfig` | constants for TLC | instances |
| `LoadBalancer_proof`, `Relay_proof`, `Backend_proof`, `Machine_proof`, `Controller_proof`, `HttpMaster_proof`, `Config_proof`, `System_proof` | inductive invariants and theorems | proofs |

Definitions named in a comment that begins with "Wrong:" are the mutations
listed in `PROJECT.json`; no specification uses them.

### LoadBalancer

A member of `Clients` is a handler slot, reused when all goroutines of its
connection have ended. `pc` names the next step of `handleClient`; its last four
values are the deferred calls in the order Go runs them, so that an early return is
a jump into that list. `selectBackend` and `releaseBackend` are single steps because
each is one critical section. `Accept` does not look at the context, as the code
does not. The relays are reduced to "a goroutine that returns at some time", which
`Relay` justifies (`SessionEnds`, `RelaysFollow`). The cursor is a `uint64` in the
code and wraps at `CursorSpace` here, which only keeps the model finite: no balancer lives to see
2^64 selections. A backend list may hold duplicates, as
nothing in the code rejects them: counters are then shared by address, as in the map.

### Relay

Time moves in ticks, only while both relays are blocked: the balancer's steps take
microseconds and its deadlines 120 s. A deadline is an age, `wait`, since it was set.
Peers send at most `Rate` chunks per tick, may stall (a full `Window`) and may
close at any time; a close over unread data resets the connection, and what was in
flight may be lost. `silence` and `owed` are history: since when a source has
been silent, and how many of its chunks have not arrived.

### Backend

`Serve`'s four steps after `Accept` are separate because `Shutdown` takes its
snapshot between any two of them. A line and the one call of the store it makes are one
step: the goroutine alone touches its own session. Lines already buffered are
handled after the socket is closed. `exit` remembers by which return a handler left.
The run ends when Shutdown has returned and the handlers rest.

### Machine and Controller

Both run on one asyncio loop, so a step is what happens between two awaits that
suspend. `Machine` gives each task the awaits of `run` as program counter, the
deadline it has passed, and the flags the controller may set at any time until the
task has ended. Its `state` is what `runtime.state` shows and what `_run_machine`
counts in the end. The controller's lock is never held across a suspending await, so each
call of the API is one step of `Controller`, and the loop is cut at its sleeps.
`left` is the rest of the spawning loop's `range(needed)`. An exception in a round, before or
after a machine is spawned, ends the loop (`RoundFails`); one in a `spawn_manual` that slept ends
that call (`SpawnManualFails`). Which settings raise is in `Config`. Several `spawn_manual`
calls in flight are summed in `manual`: any of them may spawn next. `Controller`
knows of a machine only that its task has not run yet, lives, or has ended inside the list.

### HttpMaster

A member of `Conns` is a kept-alive connection with its thread; `at` says whether the thread
reads or waits in `_call`, and `call` what has become of the coroutine it
submitted, which goes on when the thread has given it up. A route that leaves the
body of its request unread puts the connection into `garbled`: the next request is read
from there. A connection of `Browsers` sends only what `static/app.js` sends.
`httpd.shutdown()` runs on the thread of the loop, so no coroutine runs while `main` is
in `"shutdown"`. A step of a call is what it does between two sleeps; a call times
out only when it sleeps or cannot be run, as any other is run long before 30 s. After each sleep
`spawn_manual` draws a type from the load's mix as it then is, which may have no finite total
(`drawable`): the call is then refused although it has spawned. `touched` and `outdone` are history: the
calls that have changed the controller, and those during whose sleep the mix became undrawable.

### Config

A JSON value is a tagged record, and each conversion (`float()`, `int()`, `str()`,
iteration, and the decoding of `encoding/json` into each Go type) is an operator that
returns the set of its results, empty for an error. Numbers are counted in halves, so that
truncation happens. `Infinity` is the first number beyond the floats: a literal as large becomes
infinite in Python and is an error in Go, and so is the total of weights that reach it together, each of
them finite. `NaN`, which `json.loads` takes, passes every lower bound. The
actions are the two programs' loading of the file, `set_load` and a round of the
maintain loop, whose death by an exception nobody notices.

### System

Each machine's connection is two streams of lines, before (`up`) and behind (`mid`) the
balancer, with at most `Buffer` lines in each. The steps of the parts are the
actions of their abstract specifications; a stream that is cut off ends in a
`"fragment"`, which `bufio.Scanner` hands over as a line. `trouble` is history: the
connections that ended because the machine vanished, the assignment could not be sent, an idle
deadline passed, no backend was reached, or the backend stopped, before or after it had accepted them.

## What is checked

| Run | Instance | Shows |
|---|---|---|
| `lb` | 2 clients; no backend, 3, or 2 with one listed twice; cursor mod 4 | counters are exact and bound the open connections (`CountsMatchHolders`, `OpenSessionsCounted`), no socket leaks (`NoSocketLeak`), Serve returns drained (`DrainedOnReturn`) and does return (`ShutdownCompletes`), selecting evens out (`SelectNeverWidens`), `ImplementsLeastConnections` with its fairness |
| `lb_ties` | 3 clients, 2 backends | fails: `TiesRotate` |
| `relay` | timeout 3, window 1, rate 1; only the client talks, or both | `CleanCloseLosesNothing`, `IdleMeansSilent`, `SilentBackendCapsSession`, `SessionEnds`, `RelaysFollow` |
| `relay_kept` | timeout 2, window 1, rate 1, only the client talks | fails: `ActiveSessionKept` |
| `backend` | 2 connections, one line for each event and each clause of the validator, one of another machine, garbage | goroutine and store agree (`StoreNeverRefuses`), outcomes are counted once (`CountersTellOutcomes`), `AtMostOneStraggler`, `DroppedSessionsRemoved`, `ClosedConnsEnd`, `ImplementsLifecycle` |
| `backend_identity` | 1 connection | fails: `SessionReportsItsMachine` |
| `machine` | 2 machines, 1 slot | `SlotsConserved`, `OutcomesTell`, `DrainIsGraceful`, `NoHelloAfterRequest`, `ImplementsMachineTask` with its fairness |
| `controller` | target up to 2, up to 2 one-shot machines | `ManagedBounded`, `ShutdownEndsLoad`, `ExcessStopped`, `LoadSustained`, `ShutdownCompletes` |
| `controller_stop` | the same | fails: `StoppedLoadStaysStopped` |
| `http` | a dashboard and an arbitrary client | the process ends when told (`MasterExits`), no thread waits for ever (`CallsSettle`), a slow call delays no other (`QuickCallsInTime`), what a refused call may have changed (`RefusedCallExplained`), `InStep` |
| `config` | every kind of value in each field of the file and the payload | `SharedFileAccepted`, `MessagesAccepted`, `AcceptedLoadRuns` |
| `system` | 2 machines, 1 slot, up to 2 backends, 1 line per half | `CapacityFreed`, `FinishedJobsComplete`, `OnlyCutSessionsRejected` |

Bounds, and why they are enough. Two clients are the fewest of which one can choose while the
other is between any two of its steps; three backends are the fewest for which the
candidate list can shrink without becoming a single one. A cursor space
of 4 leaves every cursor position against every candidate list. `lb_ties`
needs a third client: a tie, a choice without a tie, and a tie again. A
timeout of 3 ticks lets a chunk arrive in the middle of a wait and leave a rest; a window of
1 is full after one chunk. With two connections one is in the accept loop's hand and the
other tracked or ended when Shutdown takes its snapshot. Two machines and one slot
make one wait while the other acts. A target of 2 leaves a stale round with one spawn
to go; two one-shot machines leave a call of `spawn_manual` in flight. On two connections
a sleeping call meets a quick one. In `config` the fields that the code checks together
(bounds of a range, names of two entries, a mix and its weights) vary together, and any number may be
beyond the floats or a NaN. One line in each half of
a connection is enough for one to be relayed while another is read and for either to be cut.
`MaxTelemetry` bounds `telemetry_count`, `MaxTarget` the targets asked for and
`MaxManual` the one-shot machines; in `System` the number of lines is not bounded,
only those under way. The proofs then cover every other size.

Fairness. Goroutines and tasks that can run do run. In `LoadBalancer` the dial is
bounded by `DialTimeout`; the relay that reads from the silent backend returns by its
deadline; the relay that reads from the client only when its socket is closed; clients
and the signal are not fair. In `Relay` the clock is fair, the peers are not.
In `Backend` input ends only if the peer leaves or the server closes the socket;
a peer that vanishes without a word is noticed by TCP keep-alive, which
Go enables. In `Machine` connects and drains come to an end, sleeps and polls are
timed, and deadlines pass; no write is bound to fail. In `Controller` sleeps end; that machines end is not assumed,
and `ShutdownCompletes` states its own assumption about cancelled tasks.
`LoadSustained` states its own too: nothing can hold the target while machines end
faster than they are spawned. In `HttpMaster` the loop, the stopping thread and the waits of
30 s go on; clients and signals are free, and a `spawn_manual` may sleep as long as it
likes. In `System` the balancer's and the backends' goroutines go on, and no machine has
to do anything: `CapacityFreed` begins with a machine that is gone, which includes one that
vanished.

## What disagrees with the documentation

- `TiesRotate`: `loadBalancer/README.md:22` promises round robin among tied candidates.
  One cursor is shared by all candidate lists and moves on choices without a tie, so with two
  backends and sessions that accumulate, the first of them wins every tie.
- `ActiveSessionKept`: `loadBalancer/README.md:12` promises to keep a connection until one
  side closes it. Each direction has its own idle deadline; the backend never
  writes, so its direction expires after 120 s and takes the session with it, although the client
  has sent within every timeout and nobody has closed.
- `SessionReportsItsMachine`: `backend/README.md:90` says one connection is one machine's
  session. Telemetry is never compared with the `hello`.
- `StoppedLoadStaysStopped`: `simulator/README.md:106` says that `POST /api/stop` stops the
  sustained load and finishes machines gracefully. The loop goes on with the number it computed before.

Read from the code, and not shown by a run: the backend list is read once at start, while
`loadBalancer/README.md:20` says for every connection. The exceptions that the properties
name are questions for the authors. Weights whose total is not finite (`1e400`, or `1e308` twice) and a
`NaN` as spawn rate pass `set_load` and end the maintain loop (`AcceptedLoadRuns`). A `spawn_manual`
without a type is answered 400 after it has spawned machines, if such weights are set while it sleeps,
and so is one whose rate is a `NaN` (`RefusedCallExplained`). A metric listed as `null` is `""` for the
backend and `"None"` for the simulator (`MessagesAccepted`).

## What is proved

Every proof has the same shape: an inductive invariant `IInv`, one lemma per action
that it is preserved, the theorem `Invariance`, and the theorems that follow from it. The
assumptions are those of the module: finite sets, natural bounds, distinct model values
and, in `Config`, a positive `Infinity` and the shape of the inputs (a file is a sequence of entries, numbers are whole
numbers of halves, a range has both bounds, no item of a list is absent), which is how
the model writes decoded JSON. Every invariant that a passing run checks is a theorem. In `PROJECT.json` each theorem is listed with the property it states.

- `LoadBalancer_proof`: `TypeCorrect`, `CountsExact`, `OpenNeverExceedsCount`,
  `SocketsClosed`, `ShutdownDrains`, `NeverWidens` and `Refinement`
  (`Safety => LC!Safety`). None of the invariants is inductive alone: `IInv` adds to the types and the
  exact counters that `wg` is the number of running handlers, the shape of a handler
  (which sockets are open and whether a target is chosen at each `pc`), and that a returned
  Serve leaves no handler. Exactness of a counter is a cardinality argument (`OneMore`, `OneLess`). It
  makes the guard against zero in `releaseBackend` redundant, gives `OpenNeverExceedsCount`
  (the open sockets are among the holders) and, with `ChosenMinimal` (what the
  cursor picks is among the tied), the refinement. `BelowMean`: as the counters add up to the
  sessions held (`FamilySize`), the least of them is no more than the mean.
- `Relay_proof`: `NothingLost`, `SessionsCapped`, `TimeoutsHonest`. `IInv` says that
  a relay waiting for its source has waited no longer than the source has been silent; that in the
  direction of a backend that does not talk nothing moves and the silence is the age of
  its first deadline; and that the client's chunks are conserved: owed equals
  received, in hand and written. A close that loses data needs unread data on the other
  side, and there is none toward a silent backend. `SendsNeverBlock`, `ClosingWakesRelays` and
  `SessionsCutForCause` rest on `Wound`: each relay that has returned has left one token in
  `done` or had it taken, and only a handler that stopped waiting has closed a socket.
- `Backend_proof`: `StoreAgrees`, `CountersExact`, `OneStraggler` and `Refinement`
  (`Spec => Lifecycle!Safety`). `IInv` ties the accept loop's place to the one connection it has in
  hand, each handler's step to its flag, its exit and its entry in the store, the counters to
  the outcomes and `wg` to the running handlers, and has the listener closed before Shutdown
  waits; that is what leaves one straggler at most. `HandlersCleanUp`: every path out of
  `handleConnection` leaves a closed socket, no entry in `conns` and no listed session.
  `ListedSessions`: the machine of a listed session never changes and its reports are counted
  one by one, which is what is true where `SessionReportsItsMachine` is not.
- `Machine_proof`: `SlotsNeverLost`, `CountsTell`, `NoLateHello`, `GracefulDrain` and
  `Refinement` (`Spec => Tasks!Safety`). `IInv` adds to the slots `Explained`: why a machine's state is what
  it is (told to break, out of time, cancelled, asked to stop or drain). `InFlightBounded`: the
  machines between `hello` and `done` are those that hold a slot.
- `Controller_proof`: `LoadBounded`, `ShutdownEnds`. Every step but a spawn of the loop is
  `Kept`: the load does not grow, and no machine of it loses its cancellation or
  comes back to life. A spawn uses up one of `left`, and needs a loop that
  `CancelledAll` says is over once shutdown goes for the tasks. `TrimmingMeetsTarget`: a trim
  asks the oldest to stop, down to the target and no further, and keeps the youngest. `LoadFilled`: what a round plans, the
  machines it counts plus those left to spawn, is the target; each later step is shown to
  remove from that plan only a machine that leaves the list, or what is left of it at the loop's end.
- `HttpMaster_proof`: `RefusedExplained`, `DashboardInStep`. While a call is in flight
  nothing is answered, one that has not run has changed nothing, and one that has raised only if the
  mix became undrawable while it slept (`outdone`) or its rate was a `NaN`. `AnswersTell`
  is the converse: what is answered 200 has been done. `QuickCalls` needs that no coroutine sleeps
  with the controller's lock and none but a `spawn_manual` sleeps at all (`NobodyHolds`).
- `Config_proof`: `SharedFile`, `SharedMessages`, `AcceptedLoads`, for any set of files and payloads.
  Where Go takes a field, Python takes it and reads the same (`IntervalAgrees`,
  `DurationAgrees`, `NameAgrees`, `MetricsAgree`, combined in `EntryAgrees`); so the whole file is
  accepted by both, and the type that the validator knows by a name has the metrics that
  the simulator sends under it (`BothKnow`). What `set_load` lets through leaves `random.choices` a
  positive weight and a known name (`MixSound`, `RoundRuns`), so that all it can raise for is a total
  that is not finite.
- `System_proof`: `HonestNeverRejected`. Over both halves of a connection, what is on its way is
  what is left of `hello telemetry* done` given how far machine and session have come
  (`WellFormed`), kept by writing, relaying and reading (`Written`, `Moved`, `Consumed`), unless
  something else has ended the connection. `DoneDelivered` and `NoFalseCompletion` say of
  a `done` that it is neither lost nor made up: it is under way from the step that writes it to the one
  that completes the session (`Fate`). `ListedIsCounted` ties the backends' lists to the
  balancer's counters, and `FreedForGood` follows. `Composition`: a behaviour of the
  whole is one of `MachineTask`, of `LeastConnections` and of `SessionLifecycle`. With the
  three refinements, the steps that the composition takes for its parts are the ones the code takes.

The refinements are of the safety parts. Every liveness property and the fairness of the
refinements stay with TLC: proving them needs `ENABLED`, which the prover does not
support. Of seven of them the part that fairness does not decide is proved:

| Checked by TLC | Proved |
|---|---|
| `FinishedJobsComplete` | `DoneDelivered`: until it is completed, a finished job's `done` is under way |
| `CapacityFreed` | `FreedForGood`: what is freed stays free |
| `LoadSustained` | `LoadFilled`: a round plans the target and keeps to it |
| `ExcessStopped` | `TrimmingMeetsTarget`: a trim leaves no more than the target |
| `DroppedSessionsRemoved`, `ClosedConnsEnd` | `HandlersCleanUp`: a handler that has ended, has cleaned up |
| `RelaysFollow` | `ClosingWakesRelays`: nothing but returning is left to a relay |

The type invariant of each proved module is part of its `IInv`. `SelectNeverWidens`,
`DrainIsGraceful`, `NoHelloAfterRequest`, `QuickCallsInTime` and `AcceptedLoadRuns` are
action properties and are proved from the same invariants.

## What is not modelled

- The balancer's configuration and process start, and the backend's HTTP status API: they read
  a file or a snapshot and change no state. The dashboard, except for its requests, and the local
  test launcher: user interface and tooling.
- Contents of messages beyond what the validator distinguishes: timestamps, values of
  metrics, JSON syntax, logging; the text of the assignment line. Unused code
  (`_fault_happened`).
- The list of recent machines, which is only shown.
- In `Config`: keys that differ in case, which Go takes for the same;
  the metric `null` beyond what is said above; a file that is edited between the two programs' starts. Of
  the command line, everything.
- In `HttpMaster`: requests without a well-formed header, a negative `Content-Length`.
- A panic and a crash of a process, as far as the process itself goes: nothing is persisted, so a restart is
  the initial state. What the loss of one leaves behind in the others is in `System`
  (`Vanish`, `BackendStops`, `IdleCut`); the balancer's own loss ends every session and is left out.

## Plan

The order was: the balancer first, since its counters are what the system is about, then
what its abstraction rests on (`Relay`), then the two ends, then the parts around them
(`HttpMaster`, `Config`) and the composition (`System`), and the proofs of each.

What is left: the list of recent machines and its limit; the composition of `Controller` with `Machine`
through `MachineTask`, which would replace `Controller`'s own picture of a task; in
`System` the assignment line on its way back (that it cannot be sent is `SendFails`) and a restarting
backend.
