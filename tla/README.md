# TLA+ models of cornet

cornet is a C++20 network framework: coroutines on one event loop per thread, all I/O
through io_uring, with HTTP, WebSocket and TLS on top. These modules model its core, its
concurrency library and the protocol layers, state what makes them correct, check that with
TLC on small instances and prove the most important parts with TLAPS for instances of any
size.

## The system

| part | source | state | operations | what makes it hard |
|---|---|---|---|---|
| wakeup handshake | `context.cc`, `scheduler.cc` | `parked_`, two producer queues, eventfd | enqueue, `wakeup()`, park, re-check, wait | producers race the owner's decision to sleep |
| event loop | `context.cc`, `context.h`, `scheduler.cc`, `task_tracker.h` | phase, ready queue, work counters, watcher, sweep | `run`, `sched`, `stop`, `shutdown`, `watch_loop`, `cancel_sweep` | requests from other threads at any step; the decision that nothing is left |
| thread pool | `executor.cc` | pending and completed jobs | `add`, `worker` | full queue; completion after the watcher is gone |
| slot table | `io_slot.h`, `task.cc` | slots with generations, free list | `alloc`, `free`, `lookup`, `complete` | completions of destroyed operations, growth |
| submission ring | `uring.cc`, `combinators.h` | reused entries | `get_sqe`, `get_sqes`, `submit` | a full ring in the middle of taking two entries |
| frame pool | `frame_pool.h` | free list and inbound stack per thread | `alloc`, `free` | frames freed on another thread |
| cancelers | `cancel.h`, `cancel.cc` | tree, list of operations in flight | `cancel`, `reset`, `orphan` | operations resolved after they left the list |
| timer wheel, deadlines | `timer_wheel.cc`, `deadline.h` | slots, cursor, runner; budget and latch | `arm`, `advance`, `cap`, `fire` | callbacks that change the list being walked; the runner leaves with the Running phase |
| semaphore, singleflight | `semaphore.cc`, `singleflight.h` | queues of suspended frames | acquire, release, abort; lead, follow | frames destroyed between grant and resumption |
| scopes, when_all/any, timeouts | `scope.h`, `combinators.h` | shared state, counts, continuation | spawn, join, finish, abandon | parent or child destroyed first |
| runtime | `runtime.cc`, `runtime.h` | contexts, futures | start, submit, stop, join | stop before a worker has begun |
| HTTP client | `http/client/*` | buckets, waiters, connections, DNS cache | acquire, grant, release, retry | limits tested before an await, raised after it |
| HTTP server | `http/server/*` | phase, active connections | accept, serve, drain, stop | drain during handshakes |
| WebSocket session | `websocket/session.cc` | closing state, fragments | send, step, close, finish | reader and writer on one transport |
| TLS stream | `tls/stream.cc`, `engine.cc` | engine output, shared scratch buffer | handshake, recv, writev, shutdown | scratch buffer shared across awaits |

A user coroutine awaits an operation; `utask_t` takes a slot of the slot table and an entry
of the submission ring. `sched()` submits, reaps completions, finds the operation by the
token in the completion and puts its coroutine into the ready queue. Other threads reach a
loop only through the remote queue (`spawn_remote`), the completed queue of the thread pool
and the phase; all three end in `wakeup()`. `PROJECT.json` lists the hazards of each part
with their lines.

## Modules

**ParkHandshake** is the protocol between `wakeup()` and the park block of `sched()`, for
any set of producers. `parked` is `parked_`; `pending` counts the items of the two queues;
`notified` is an eventfd notification not consumed; `prod` and `owner` are program
counters. It is the abstract specification of how the loop sleeps.

**EventLoop** is one context. `state` is `state_`, `loc` says where each coroutine is
(ready queue, submission queue, kernel, completion queue, pool, ...), `res` the result it
will see, `tracker` is `task_tracker_t`, `sweep` the latch and progress of `cancel_sweep`.
The owner's steps follow `run()` and `sched()` in their order (`RunSpawn`, `RunCas`,
`RunTest`, `RunSweep`, `SchedRemote`, ..., `SchedUnpark`, `RunAfter`, `RunSwitch`); one
resumption of a coroutine is one step (`TaskEnds`, `TaskStartsIo`, `TaskStartsJob`,
`WatchLoop`, `DrainTimer`, `SweepAny`, `SweepSlots`). `stop()` and `shutdown()` take a step
per compare-exchange and one for `wakeup()`. User coroutines end, start I/O or hand a job
to the pool, up to `MaxAwaits` times each; a pool that has a job, or is at its limit, may
refuse it, and the coroutine then goes on with the exception. A `submit()` takes any number
of the queued entries, none when it fails. Both kernels are modelled: one cancel for all
operations (5.19 and later), or one per slot, aimed at the generation the slot had when the
sweep looked (`Anew`). `Park` instantiates ParkHandshake under a
refinement mapping, and `ImplementsPark` says that the loop implements it.

**IoSlots** is the slot table with the operations that hold slots and the entries that carry
their tokens. `Abandon` destroys a suspended operation; its completion is still to come. A
submit forced by a full queue passes all entries or none here; SubmissionRing has the
partial ones.

**SubmissionRing** is the ring as an array of reused entries, with one operation at a time
(`get_sqe`) or an operation and its linked timeout (`get_sqes`).

**FramePool** is the pools of coroutine frames. Free lists are plain memory, so a load and
a store of a list head are two steps.

### Concurrency library

Except for the SPSC ring and Runtime, one thread runs all of it, so an action is one call or one resumption and the interleavings
are those of suspended coroutines. Wherever the code supports it, a suspended coroutine's
frame may be destroyed at any of its suspension points.

**Semaphore**: `semCount` is `count_`, the queue holds the parked waiters; waking goes through
the ready queue, so a granted waiter can die before it resumes; the scheduler then resumes a
frame that is gone, which the model marks (`ghost`) and does not follow further.
**Singleflight**: one key, with the map entry, the reference-counted flights and the chain of
followers.
**Canceler**: the tree with its child and sibling links, the list and the count of
registered operations, `cancel()` with a submission ring that may be full, `reset()`,
orphans that delete themselves.
**TimerWheel**: the wheel with its runner coroutine, which sleeps a tick at a time, may wake
late and leaves when nothing is armed, the wheel is stopped or the context is no longer
Running (the last of these is not tested behind the sleep, so one more tick may fire), and one `deadline_t` with its budget, its eras and
the windows `with_deadline` caps and restores.
**WhenAllAny**, **TaskScope**, **CoroTimeout**: the shared states of `when_all`/`when_any`,
`scope_t` and the coroutine-level `with_timeout`, with the coroutines that refer to them. The
awaiter of `when_all`/`when_any` exists before it is awaited, and may be dropped then.
**Coroutine**: owners, continuations and destruction of `coro_t` frames.
**Descriptors**: who owns a file descriptor, with a kernel that gives numbers out again.
**Queues**: `ring_queue_t` (the ready queue) with growth, and the SPSC `ringbuffer_t` one
memory access at a time, both with indices that wrap.
**Runtime**: the workers, their latch and `start`/`submit`/`shutdown`/`stop`/`join`. A context
is reduced to its phase, its keep-alive flag and its tasks; EventLoop has the inside. A task
parked on another coroutine (`RtParks`) is in no counter of its context.

### Protocols

Data is cut down to units: a piece of a header section, a body unit, a frame header, a
record. Every read delivers any number of them and every write may be short.

**HttpServer** is `server_t`: accept loop, connection limit, `drain()`, `stop()`, the scope
of connections. **ServerConnection** is one `connection_t`: `hsPc` is where its coroutine is
suspended; the receive buffer with its marks, the parser's progress, the three output buffers
and the pieces on the wire are the state; a step runs from one await to the next.
**HeaderTable** is how `parser_t` records header names and values as offsets into the receive
buffer and when it copies them to the spill buffer; a cell of the buffer holds the position
of its byte in the peer's stream. llhttp reports a name, a value or the target in runs, and
the length of a view is 16 bits wide (`HdLenMax`). Its connection keeps a header section in place until the
message is over, as the client's does (what the server's reclaim does to it is finding 5).
**Router** is `add`, `build` and `match` with its explicit stack of untried alternatives.
**ClientPool** is `client_pool_t` with the DNS cache, **ClientConnection** one connection
through several exchanges, **HttpClient** one call of `send()`, `stream()` or `upload()` with
retries and redirects. What the lower one of these can answer is what the upper one
enumerates: HttpClient lets a borrow or an exchange end in any way that ClientPool and
ClientConnection have.
**WebSocket** is one session after the handshake, with a peer that follows a script of
frames. **TlsStream** is both ends of a TLS connection, each with its engine, scratch buffer
and socket; OpenSSL is modelled by the flights of its handshake and one unit per record.

### Modules for TLC and proofs

**MCEventLoop**, **MCServerConnection** and **MCWebSocket** give constants values.
**MCJoins** and **MCComponents** put many components side by side: a variable `focus`, chosen
in the initial state, names the one that moves; the others stay in their initial states. So
each component is checked as if alone, and one run covers them. MCJoins holds the components
with something to wait for, MCComponents the rest, in which only safety is checked.
**ParkHandshakeProofs** and **IoSlotsProofs** hold the theorems.

### Memory model

Throughout, memory is sequentially consistent. The accesses to `parked_` are `seq_cst`, but
the queues publish with release and acquire, and the park token is set by a store: the
handshake needs the re-check not to be ordered before that store. The machine code of a
`seq_cst` store gives this on x86 (and the model relies on it), the C++ memory model by
itself does not.
`keep_alive_` is a plain bool written by other threads; a write to it is one step.

## Runs

| run | instance | shows |
|---|---|---|
| `loop_handin` | one remote coroutine, one worker, `stop()`, kept alive, a kernel before 5.19 | counters agree with the queues, each coroutine is held once, run() returns with no user work, the watcher serves while the loop sleeps; the loop implements ParkHandshake; handed-in work is taken up without the timeout |
| `loop_requests` | one coroutine, `stop()` and `shutdown()`, kept alive | phases never go back, a returned `stop()` was not dropped, `run()` returns after each request |
| `loop_ends` (MCJoins) | the loop with two coroutines, one worker, pool limit 0, both kernels, batch 2; 4 users of a semaphore of 2, one of whom needs both; 4 callers and 2 flights; 3 children each for when_all/when_any, scopes and the server; a timeout over 3 operations; 2 workers, 3 tasks | the Canceling phase ends whatever is in flight; whoever joins something returns once what it joins has ended; permits, flights, shared states, scopes, timers and futures are sound whoever is destroyed |
| `components` (MCComponents) | see below | everything else, one component at a time |
| `early_stop` | `stop()` before and during the start of `run()` | finding 1 |
| `clean_exit` | one coroutine | finding 2 |
| `linked_submit` | 4 operations, ring of 2 | finding 3 |
| `foreign_free` | 2 threads, 3 blocks | finding 4 |
| `split_head` | a header section of several units | finding 5 |
| `pipelined_stream` | a streamed response behind another (`HsStreamBehind`) | finding 6 |
| `coro_timeout` | a target with 3 operations or fewer | finding 7 |
| `ws_writers` | a reader and a writer (`WsParallel`) | finding 8 |

What `components` checks:

| property | of | says |
|---|---|---|
| `NeverSleepsOverWork` | ParkHandshake | the owner does not sleep over handed-in work |
| `OwnCompletion`, `WaitingIsFound`, `SlotsDivided` | IoSlots | a completion ends its own operation or none, every waiting operation is found, no slot leaks |
| `CnTrackedExact`, `CnCancelCoversTree` | Canceler | no canceler goes away under an operation; a cancel reaches every operation of every live descendant, or misses it because no entry of the ring was free |
| `TwSound`, `TwOnItsTick` | TimerWheel | armed timers have a runner, a deadline's era survives its windows; a timer fires on the tick its delay rounds up to, which may begin up to a tick early |
| `QuFifo` | Queues | both queues are FIFOs across growth, wrapping and stale cursors |
| `CoOwned`, `FdOneOwner` | Coroutine, Descriptors | one owner, freed or closed once, never another's |
| `HsHeadersIntact`, `HsInOrder` | ServerConnection | recorded offsets stay valid; responses leave whole and in order (but for the error head behind a failed stream, below), none is held back while the server reads, files are closed |
| `CpSound` | ClientPool | the counts agree with what is held, waiters are queued while parked and scheduled once |
| `CcSound` | ClientConnection | each caller gets its own response; only a connection at a message boundary is reused |
| `HcDiscipline` | HttpClient | what is not idempotent is not sent twice, credentials do not reach another origin, no header the caller wrote is repeated and a body is announced (what frames it twice is below) |
| `RouterMatches` | Router | `match()` answers as the registered patterns, taken one by one, say: the best pattern that fits, its parameters, 404 or 405; the two places where the tree answers otherwise are named in `RrMatchesRegistrations` |
| `HdEntriesIntact` | HeaderTable | names and values are what was sent, however it was cut; a first run longer than a view can hold is cut (below) |
| `WsSound` | WebSocket | messages whole, in order, with their kind, unmasked rightly; frames leave whole, one Close at most, and no message or ping after it |
| `TlStreamExact` | TlsStream | every record is in one place on its way; the ends never both wait with output unsent |

`RrMatchesRegistrations` and the last three are abstract specifications in the form of an
invariant: what the peer sent, or the list of registrations, is kept beside the
implementation's state and compared with it.

### Bounds

The handshake is decided between one item and one producer that takes the token; a second
one covers "somebody else took it", and the theorems remove the bound. A slot has to be freed
and given out again while an old completion is outstanding: three operations over a table
that grows from 1 to 4 do that, and the theorems cover any number. The loop has one coroutine
per way of getting work, since the hazards are between a coroutine and the framework's own
coroutines (watcher, sweep, drain timer), all of which are present.

Some components are run twice with different emphasis: two operations over three cancelers,
and one operation in trees of four (the least in which a walk that stops early after a
sibling's subtree shows); the wheel without and with a deadline; three requests for one host
with two connections, and three for two hosts under a total of two. The wheel has 2 slots of 2 time
units: a delay of 4 is exactly one lap, and one of 5 is three ticks, so it waits through a lap; with a deadline on it the
run ends earlier (`DeadlineEnd`). Queue indices wrap at 8. The server connection pipelines three
requests through a buffer of 5 units, so it must rewind and reclaim; two may be answered per
round. The client's redirects change method and origin and are followed twice, with one
retry. The header table reads 1, 2 or 12 units at
a time (`HdReads`): byte by byte, in pairs, and a section at once. The WebSocket scripts have
messages at and one over the limit and one of three fragments; the handler makes one call
that sends (`WsCalls`). A TLS write makes
as many records as the scratch buffer takes at first, and with those of the handshake more;
a full read makes it grow.

`MaxAwaits`, `MaxCalls`, `MaxPending`, `MaxCap`, `GenLimit`, `MaxTaken`, `TwEnd`, `FdFiles`,
`SfFlights`, `CtOps`, `RrAdds` and the sets of operations, requests and children bound what
the program does not; `MaxTaskNr`, `Batch` and the limits of buffers and pools are
configuration of the program. Deadlock is not checked where the system stops: run() returns,
or all operations are used up.

### Fairness

`Fairness` in EventLoop assumes that the owner thread runs on, that a thread inside
`wakeup()`, `stop()` or `shutdown()` finishes the call, that a worker finishes its job, that
the kernel completes a cancelled operation, an eventfd read with data and a timer. A
`submit()` that takes nothing leaves the entries to the wait, which submits them all. It
assumes nothing of user I/O, which may never complete, and nothing of the `io_wait_`
timeout. `WakeupSuffices` needs no more. `RequestsEnd`, `CancelingEnds` and `HandedInRuns`
use `TimeoutFairSpec`, which adds that timeout, because the code relies on it in two places:
`stop()` can set the phase and call `wakeup()` after the loop has read the phase and before
it parks, and the re-check under the token reads the queues only; and once the sweep has
cancelled the watcher nobody reads the eventfd.

In MCJoins (`JoinsFairness`) children of `when_all`, `when_any` and scopes end some day, what
is ready is resumed, and the threads of the runtime run on. A runtime task runs on when its
loop does; one that parks may never be woken, and its future is then never done. The server
assumes nothing of its connections: no deadline bounds all they do, so `HvDrainReturns` says
that after `drain()` or `stop()` only running connections hold `serve()`: it returns, or one
of them runs. The deadline of the handshake is counted on. An accept on an open listener may never complete.

### Findings

1. **A `stop()` concurrent with the start of `run()` can be dropped** (`early_stop`). Its
   first exchange sees Terminated, `run()` exchanges Terminated for Running, the second
   exchange fails. Once the loop is running, `loop_requests` shows that a `stop()` is kept.
   `runtime_t::start` returns before its workers enter `run()`, so it can meet this.
2. **`run()` can return with a framework entry not submitted** (`clean_exit`): `idle()`
   counts what the kernel has, so a cancel the sweep has just prepared is left behind with
   the sweep suspended and its latch set.
3. **`get_sqes(2)` can submit an entry that is not filled in** (`linked_submit`): with one
   entry free, the second request submits the first entry's old contents, and the operation
   is then written where the kernel no longer looks.
4. **A foreign `free` works on the owner's free list** (`foreign_free`): `free()` calls the
   owner's method, whose comparison with `this` always succeeds. When the free is done on
   the calling thread's pool instead, as the comment describes, the same instance has no
   violation (8800 states).

5. **A header section that arrives in two reads is written over** (`split_head`): the
   connection reclaims its receive buffer whenever no body is being read and no input is
   pending, which is also so in the middle of a header section. With header sections that
   arrive in one piece (`components`) the offsets hold.
6. **A streamed response overtakes the one before it** (`pipelined_stream`):
   `flush_stream()` sends all heads and header lines of the round. In `components` a
   streamed response comes only when nothing waits to be sent (`HsStreamBehind`).
7. **A coroutine timeout destroyed while its target waits** (`coro_timeout`): the target keeps
   a pointer to a canceler that has deleted itself, and a continuation that is gone.
8. **A reader's Pong cuts a writer's frame in two** (`ws_writers`). With one coroutine per
   session (`components`) frames leave whole.

### Also seen

Behaviours of the code met while modelling that no run is about. The models have them,
except those marked (not modelled).

- Loop: a `stop()` after `run()` has returned moves Terminated to Canceling, after which
  `is_terminated()` is false. A loop whose user work ends goes from Running to Terminated
  without a Canceling phase when nothing else is in flight. `submit_and_wait_cqes` counts all
  entries as submitted when the call took fewer or failed (`uring.h:125-127`, not modelled).
- Semaphore: a newcomer that fits is served before the queued head (`semaphore.h:89-93`),
  where `docs/combinators.md:608` promises FIFO; the order holds among the queued. When a
  queued head is destroyed, a waiter behind it that now fits waits for the next release
  (`SemHeadWaits` says exactly that). A waiter destroyed between its grant and its resumption
  is resumed all the same (`semaphore.cc:107`; in the pool `pool.cc:172`, `182` and `202`).
- Cancelers: a child created under a cancelled parent is not cancelled.
- Timer wheel: a timer fires up to one tick before its delay is over, since the first of its
  ticks has already begun; `timer_wheel.h:51` says "[D, D+tick)" and `combinators.h:295-296`
  "only ever fire late, never early". A failed sleep ends the runner with timers armed.
- `when_all`, `when_any`: an awaiter dropped before it is awaited leaves its shared state with
  the references of children that never start (`combinators.h:543-549`).
- Scopes: the runner schedules the continuation of an awaiting coroutine it has not been told
  is gone (`scope.h:329`).
- Runtime: a task queued and not harvested when its context ends leaves `get()` waiting, and
  so does one that is parked on another coroutine: it does not keep the loop from ending.
- Descriptors: an accept that completes for a dropped awaiter leaves its descriptor open.
- Client pool: a failed open wakes no waiter, so those wait for their timer;
  `max_total_conns` is tested two awaits before it is counted, so it can be exceeded; a
  `send()` destroyed in an exchange leaves its connection counted as busy. `clear()` frees
  buckets under waiters (not modelled: `CpClear` needs that nobody waits).
- Client: an upload with a Content-Length of the caller's gets a Transfer-Encoding beside it
  (`connection.cc:262-265`), where `docs/http_client.md:99` says that the caller's framing is
  kept; a Content-Length the caller wrote survives a redirect that drops the body; 301 and
  302 turn HEAD into GET and the total timeout does not bound the borrow (not modelled).
- Server: drain does not reach connections in their TLS handshake; `stop()` reaches no
  operation of a connection; an accept cancelled while the listener is open ends `serve()`; a
  `drain()` before `serve()` is lost; `file_fd` stays open when a flush fails. A stream that
  fails after its chunks have left is followed by the head of an error response
  (`connection.cc:1058-1064`).
- Router: a wildcard does not match an empty rest. A beginning of some pattern that fits the
  path and is more specific than every pattern that fits ends the search with nothing, where
  `docs/http_server.md:83` says that routes do not shadow; exact registrations of other
  methods are not looked at, so the answer is 404 where `docs/http_server.md:124` says 405.
- Header table: the length of a first run over 65535 is cut to 16 bits unchecked
  (`parser.cc:408`), where a view that grows past that is refused.
- WebSocket: a message of three or more fragments is reported with the opcode of a
  continuation (`docs/websocket.md:73`); a deadline that fires after `request_close()` ends
  the session without a Close; an empty data frame is delivered only once more input arrives.
- TLS: a concurrent reader and writer share the scratch buffer (not modelled).

## Proofs

**ParkHandshakeProofs**: `NoLostWakeup`, `Spec => []NeverSleepsOverWork`, for any set of
producers and any `MaxPending` in Nat. `NeverSleepsOverWork` speaks of a waiting owner; a step
before that, the owner has looked at one queue only. `HandshakeInv` therefore states it for
each queue from the moment that queue was re-checked, and adds that a token missing inside
the park block was taken by a producer that will write the eventfd. `InitHandshake`,
`TypePreserved` and `HandshakePreserved` are its three parts; `HandshakeAlways` combines
them.

**IoSlotsProofs**: `NoStaleCompletion`, `NoLostCompletion` and `NoSlotLeaked`, for any set
of operations, any table and ring size and any number of generations. The assumption
`SlotsAssumption` says that a table starts with at least one slot and that the null pointer
is no operation. The inductive invariant `SlotsInv` joins the three properties and adds what
carries them: the token of an operation that is gone has a generation smaller than its
slot's, so it is never looked up successfully again; slots beyond the table's end are
unused; a slot in use has a generation left. That last part is the guard of `Suspend`: a
slot is not reused `GenLimit` (2^32 in the code) times. Past that the code wraps, and an
outstanding completion could find a stranger.

Everything else is model-checked only: liveness, which with ENABLED is out of the prover's
reach, the refinement of ParkHandshake by EventLoop, and the properties of all other modules.
Router uses RECURSIVE operators, which the prover does not handle.

## Not modelled

The kernel, llhttp and OpenSSL are modelled by how the code uses them: entries consumed in
order, completions in any order, a cancelled operation completes; a stream of tokens;
flights and records.

- EventLoop: a full ring and a partial or failed call on the wait path (SubmissionRing and
  IoSlots have the full ring), signal watchers, `work_token_t`, the timer wheels a context owns, the ENOBUFS
  path of `cancel_sweep`, adaptive batch sizes (`Batch` is a constant), the executor's
  destructor, and the destruction of a frame whose job is still in the pool.
- IoSlots: the free list is a set, so any free slot may be next.
- TimerWheel: the nodes due in one tick fire together; a callback that destroys another node
  of the same slot is left out.
- Coroutine: `generator_t`, which is sequential.
- Runtime: `spawn_async`.
- Descriptors: addresses, options, name resolution, `splice` and the I/O calls themselves,
  which pass through to the kernel.
- HTTP: middleware, the contents of messages, the serializer and URL parsing (string work
  without state that unit tests reach better), and the buffer pool, a free list without
  interleavings. In the router one exact path registered twice for a method is left out.
- WebSocket: the handshake; a deadline is a latch that cancels reads, at any time.
- TLS: one coroutine drives a stream; renegotiation, an engine that wants to write while it
  reads, and the set-up of contexts and certificates are left out.
- Logging, metrics, configuration, clock; `bench/`, `examples/` and `tests/`.

Composition stops at the interfaces named above: Runtime and EventLoop, the three client
modules, and HttpServer and ServerConnection are checked against each other's interface, not
in one state space, which would be out of TLC's reach.
