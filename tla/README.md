# Formal model of the Alpaca Core SDK

TLA+ modules for the Alpaca Core SDK, TLC configurations that check them on
small instances, and TLAPS proofs for every instance: first of all the concurrent
core, then the parts it is built from.
Paths below are relative to the repository (`src/...`); `PROJECT.json` has the
exact source lines behind every definition (`map`), the list of hazards, the
faulty variants ("mutants") that each property is known to catch, and the list
of theorems.

* [The system](#the-system)
* [Modules and how they correspond to the code](#modules-and-how-they-correspond-to-the-code)
* [Runs, bounds and fairness](#runs-bounds-and-fairness)
* [Where the code does not do what is said of it](#where-the-code-does-not-do-what-is-said-of-it)
* [What is proved](#what-is-proved)
* [What is only model-checked, and what is not modelled](#what-is-only-model-checked-and-what-is-not-modelled)
* [Plan](#plan)
* [Running it](#running-it)

## The system

The SDK runs inference services inside a `Backend`. A client connects to a
service and is given an io endpoint; the service runs a session, a C++20
coroutine, on the other endpoint. Frames travel between them through two bounded
channels. Everything asynchronous rests on a small executor library (`xec`, over
asio) and everything may log through `jalog`.

    client thread                                   worker strand (cpu, gpu)
    BlockingIoHelper                                session coroutine
      | blocking_io                                   | xio (strand_io)
      | cvar_wobj                                     | timer_wobj
      +--> buffered_channel (local to remote) --------+
      +--- buffered_channel (remote to local) <-------+
                                                      | ResourceCache / Manager
    Backend: services, worker strands ----------------+ gc coroutine
    DefaultBackend: execution contexts and their threads
    jalog: Logger -> AsyncLogging -> AsyncLoggingThread -> sinks

| Component | State it keeps | Operations | Hard behaviour | What makes it correct |
| --- | --- | --- | --- | --- |
| `buffered_channel`, channel streams (`common/io`) | bounded queue, one stored callback for both directions, closed flag, a mutex | `write`, `read`, `close`, exchange of the callback | the callback is taken under the lock and called after it; one slot serves both sides; close against both | order kept, nothing accepted after close, drained before the end is reported, no lost wakeup, the asserts on `m_notify` |
| `blocking_io` with `cvar_wobj` (`common/io`) | a flag and a condition variable per direction | `poll`, `push`, `get`, `put`, `close` | notification against the timeout of the wait; spurious second tries | a call that can complete returns; no abort without a timeout; a blocking pipe for its users |
| `xio` with `timer_wobj` (`common/io`, `common/xec`) | an asio timer per direction, handlers posted to a strand | the same, awaited by coroutines | timer expiry, posted cancellation and end of wait come in any order | the same |
| `sync_io`, `SyncBackend` | an execution context run from inside the call | `get`, `put`, `close` | nobody else runs the tasks a call leaves | a call leaves nothing behind that it waits for |
| executors, coroutines, wait objects (`common/xec`) | asio contexts, strands, timers; `coro` promises | `post`, `co_spawn`, `co_await`, `co_yield`, `wait`, `notify` | pointers into the stack of whoever awaits; one slot for waiters | whoever is suspended is resumed once, and hears what was said to it |
| `ResourceCache`, `ResourceManager`, `ResourceLock` (`local`) | sparse vectors of weak and strong pointers, an age per resource | `find`, `findOrCreate`, `add`, `garbageCollect`, lock copy, move, reset | weak pointers expire under the cache, slots are reused for other keys | one live resource per key, findable as long as it lives, collected once idle |
| `Backend`, `DefaultBackend`, worker strands (`local`) | services, two worker strands, a gc coroutine on each, contexts, guards, threads | construction, destruction, `registerService`, `getService`, `connect` | destructor against timers, coroutines and threads | one instance of a service; destruction returns, a posted cancellation finds its wait object, and coroutines end before their threads |
| Asset manager service (`local`) | a queue of requests on its own strand | `makeAssetsAvailable`, sessions | slow clients, missing assets, requests that cannot be read, requests against shutdown | one answer to every request, behind its progress, unless it ends the program; sessions and service go |
| Dummy service, schema io helper (`local/dummy-plugin`, `frame`) | session state (dummy, model_loaded, instance), the client's view of it | `load_model`, `create_instance`, `run`, `stream`, abort | errors and aborts that cross frames already sent | client and service agree on the state; an answer belongs to its call; the session ends with its client |
| `AsyncLogging`, `AsyncLoggingThread` (`common/jalog`) | two task queues and two text buffers that are swapped, a running flag | `record`, `add`, `remove`, `flush`, `update`, destruction | notification outside the mutex, a flag cleared outside it, indices into a buffer that moves | tasks applied in order with their own texts; flush means written; nothing lost at exit |
| `Logger`, `Scope` (`common/jalog`) | a registry of scopes, atomic levels | `initialize`, `registerScope`, `log` | initialisation against threads that already log | a scope that logs has its sinks, once each |
| Log streams, `mem_ostreambuf`, `_qwrite`, `Printf` (`common/jalog`) | a growing buffer, pointers into it | `operator<<`, padding, `endl`, `Printf` | pointers after a reallocation, buffers of fixed size | the text of an entry is what was written |
| `PluginManager` (`local`) | search directories, loaded plugins with their library handles | `loadPlugins`, `tryLoadPlugin` | partial failure of loading, pointers into a growing vector | a library is open as often as plugins hold it; services outlive nothing they use |
| Schema visitors, frames (`frame`) | none | conversion between structs and dictionaries | defaults and optional fields | reading back what was written |
| `small_vector`, `pod_vector`, `flat_map`, `expected`, `generator` (`common/astl`) | objects in memory they manage themselves | those of the standard types | object lifetimes at every boundary of capacity; exceptions half way | no object is lost or used after its end; what a standard type would hold |

Not components of the program: build scripts, vendored code (`nlohmann/json`),
examples.

## Modules and how they correspond to the code

| Module | Models | Remarks |
| --- | --- | --- |
| `BufferedChannel` | `io/buffered_channel.hpp`, `stream_op.hpp`, `channel_stream.hpp` | one reader, one writer, any number of threads that close |
| `BlockingPipe` | abstract | what two users of `poll` and `push` are promised |
| `BlockingIo` | `io/blocking_io.hpp`, `io/xio.hpp` | extends `BufferedChannel`; implements `BlockingPipe` |
| `TimerXio` | `io/xio.hpp`, `xec/timer_wobj.hpp`, the timer of `xec-asio-impl.cpp` | extends `BufferedChannel`; implements `BlockingPipe` |
| `SyncIo` | `io/sync_io.hpp` | a client without threads and the service it runs |
| `ResourceCache` | `local/ResourceCache.hpp`, `ResourceManager.hpp`, `ResourceLock.hpp`, `Resource.hpp` | implements `KeyedStore` |
| `KeyedStore` | abstract | what the cache promises |
| `BackendShutdown` | `local/Backend.cpp`, `DefaultBackend.cpp`, `xec/thread_runner.hpp` | from construction to the end of the destructor |
| `BackendServices` | `local/Backend.cpp`, `local/AssetMgrService.cpp` | extends `BackendShutdown`: its destructor, with services and clients |
| `Coroutines` | `xec/coro.hpp`, `co_spawn.hpp`, `coro_wobj.hpp`, `strand_wobj.hpp`, `coro_iterator.hpp` | bodies that do anything a body may do |
| `AsyncLogging` | `jalog/AsyncLogging.cpp` | implements `SyncLog` |
| `SyncLog` | abstract | one line of tasks, applied in order |
| `LoggerScopes` | `jalog/Logger.cpp`, `Scope.cpp`, `Scope.hpp` | |
| `LogText` | `jalog/BasicStream.hpp`, `Stream.hpp`, `_qwrite.hpp`, `Printf.cpp`, `astl/mem_streambuf.hpp` | extends `SmallVector`, for the capacities of the buffer |
| `DummySession` | `dummy-plugin/LocalDummy.cpp`, `schema/BlockingIoHelper.hpp`, `schema/AbortUtil.hpp`, `local/AssetMgrCoroUtil.hpp` | over two bounded queues, as the io modules justify |
| `PluginManager` | `local/PluginManager.cpp`, `LoadPluginCb.hpp` | the loader of the platform is external |
| `SmallVector`, `PodVector`, `FlatMap`, `Expected`, `Generator` | the headers of these names in `astl` | each beside what the standard type would hold |
| `BufferedChannelProofs`, `BlockingIoProofs`, `TimerXioProofs` | theorems | of the io layer |
| `ResourceCacheProofs`, `BackendProofs`, `LoggingProofs` | theorems | of `ResourceCache`; `BackendShutdown` and `BackendServices`; `AsyncLogging` and `LogText` |
| `PartsProofs` | theorems | of `DummySession`, `SyncIo`, `LoggerScopes`, `Expected`, `Generator` and `Coroutines` |
| `ContainerProofs` | theorems | of `PluginManager`, `FlatMap`, `PodVector` and `SmallVector` |
| `MC...` | | instances for TLC |

**BufferedChannel.** Each member function runs under `m_mutex` and is one step,
with one exception that is the heart of the matter: `unlock_notify` takes the
stored callback under the lock and calls it after unlocking. `inflight[t]` is
the callback thread `t` has taken and not called; `Deliver(t)` calls it, and
anything may happen before. The callbacks are named by the side that left them,
because all that `write` and `read` know of one is whose it can be. `written`,
`lastRead` and `outcome` are history. Messages are numbered, so order and loss
are visible in a number. The client is the most general one.

**BlockingIo and TimerXio** put the two wait objects of the SDK on top.
`basic_xio::async_io` tries the operation with a callback, waits when it blocked,
and tries once more without one when the wait ends, notified or not. In
`BlockingIo` the wait is a flag under a condition variable; the step `NotifyOne`
is the callback, `WaitNotified` and `WaitExpires` are the two ends of
`just_wait`. In `TimerXio` the callback only posts a handler (`cancels`), which
cancels one wait of the timer if there is one (`RunCancel`), and the end of the
wait is a handler in turn (`RunWait`); `TimerExpires` may happen anywhere
between. `status` is the set of bits of `io::status`; no bit at all means
"aborted".

**BlockingPipe** is the promise: a bounded FIFO with an end, whose pending
operations complete when they can. A side that uses timeouts may give up, but
only when its operation is impossible at that moment: the last try of `async_io`
is part of the promise. Both io modules implement it with its fairness.

**ResourceCache.** `slots` is the sparse vector of keys and weak pointers,
`managed` the strong ones, `holder` the locks of the program. `Alive` is "some
`shared_ptr` owns it", so a weak pointer expires by itself as in the code. A
call is a step: all of it runs on one strand. `ResourceLock::reset` restarts the
age and keeps its hold, as the code does. `KeyedStore` forgets slots and ages:
one resource under a key at a time, it goes only when nobody holds it, and find
finds it until then. In particular reusing a slot for another key is invisible.

**BackendShutdown.** Per worker strand: the gc coroutine, its timer, its posted
cancellations, the work guard and the thread; and the destructor as a sequence:
notify each strand, drop the members, then for each context reset the guard and
join. `lost` is history: a cancellation found nothing to cancel.

**BackendServices** puts clients and services around that destructor. A client
goes through `getService` in three steps because a second client may come in
between: lock, look, create. `Attach` is `connect`; then requests and frames
travel through two bounded channels, whose waiting is `TimerXio`'s business.
The strand of the asset manager is a queue of jobs: start the keeper
(`runService`), start a session, the cancellation that the destructor of the
service posts. `manager` is the set of those that own the `AssetManager`, and with
it the wait object the cancellation refers to. A session writes `told`, the
frames of its present request, which is history. A request has a kind, one for
each way through `runSession`: assets to make available, another op, a field
that is missing, a field of another type. The inner `catch` turns the second and the
third into an error reply. What the last one throws is no `runtime_error`: neither
`catch` takes it, it leaves a coroutine nobody awaits, and the promise of that
coroutine ends the program (`Terminate`, `io = "terminated"`). Clients call the backend only
while nobody destroys it, which is a rule of C++, and their endpoints may
outlive it.

**Coroutines.** A frame knows who awaits it and two slots on that awaiter's
stack; a slot is the awaiter and the number of its `co_await`, so a pointer into
an awaitable that is gone can be told from a good one (`intact`). The strand runs
one coroutine at a time and control moves by symmetric transfer (`running`).
Frames own the frames of the `coro` objects in them; destroying one destroys
those, and is sound only where nobody will resume them. Bodies are the most
general: each step of one is any of the calls the library offers.

**SyncIo.** A call of the client runs the tasks to the end before its try (`get`)
or after it (`put`, `close`); the service is a coroutine in `xio`, and `ready` is
the task that will resume it.

**AsyncLogging.** Tasks are records; the text of an entry is one element of the
buffer, and the task keeps its index there, as the code keeps `ibegin`. Pushing
and notifying are two steps because the code notifies after unlocking; sleeping
is one step with the test before it because that happens under the mutex.
`Pending`, the refinement mapping to `SyncLog`, rebuilds the line of tasks from
both pairs of buffers, with the text each index will find.

**LoggerScopes.** `initialize` holds the mutex while it gives each registered
scope its sinks and then its level; these are steps of their own, because a thread
that logs takes no mutex: it reads the level, and walks the span of sinks one by
one. `registry` is the sparse vector of scopes.

**LogText.** The characters of an entry are digits and the few others that
decide something. Of the `small_vector` they are in there is what `SmallVector`
shows it to be: its characters, where they are and how many fit. The pointers of
the stream buffer are offsets together with the allocation they point into.
`Written` says what an integer should look like, from its value; `DigitsOf` is
what `write_integer` writes, from the back.

**DummySession.** Both sides of one session over two bounded queues with an
end. The service is the coroutine with an `at` for each of its awaits; the
innermost of `runSession`, `runModel` and `runInstance` is `state`. The client
is `BlockingIoHelper`: `call`, `stream` with the sentry that pushes an abort,
`close`. Frames carry the number of the request they were made for; the program
has no such number, and it is there only to say that an answer is stale. Tokens
and files are counted. An operation in `Failing` may throw.

**PluginManager.** An attempt to load is a function of the state, with one
branch for each way it ends; a call that loads several folds it over the
directories. What the callbacks of a call do, and whether the factories of a plugin
throw, is chosen with the call (`Callbacks`). Of the loader only the count of open
handles is kept. Two things go wrong with them, which two history variables count: a plugin that
is rejected after its interface was read stays open for ever, and is opened once more at
the next attempt (`leaked`); one whose factories or whose callback throw is closed
while the plugin, which is in the list already, holds it (`closedEarly`). A search path
without a separator at its end is read beyond it; what happens then is undefined, and the
model ends there (`pmState = "overrun"`).

**The containers** are modelled at the level of memory, as far as object lifetimes
are visible there. `SmallVector` has cells that are raw, hold a value or an object
moved from; `PodVector` bytes, with `Junk` where nothing was written; `Expected`
the members of the union and the flag; `Generator` the coroutine frames and who
owns them. A loop of `SmallVector` is the fold (`Loop`) of what its rounds do to the cells
(`Round`). Whatever is done to an object of the wrong kind makes it unsound, and
beside it a history variable holds what the standard type would. The allocator's
choices (`copies` in `PodVector`) and exceptions (`Throwing`) are nondeterministic.

## Runs, bounds and fairness

| Run | What it shows | Instance |
| --- | --- | --- |
| `blocking_io` | the channel's asserts, no lost wakeup, final end; sleepers are woken, calls return, aborts are bounded, it is a blocking pipe | capacity 2, 4 messages, one closing thread, a reader with up to 2 expired waits |
| `timer_xio` | the same on strands | capacity 2, 3 messages, 1 expired wait |
| `resource_cache` | no live resource is hidden, duplicated or lost; idle ones go; it is a keyed store | 2 keys, 3 resources, 2 locks, ages 0..1 |
| `backend_services` | one service, one answer to each request, of whatever kind; the destructor returns when the clients have left, unless a cancellation is lost or a request ends the program; posted cancellations find their wait objects, gc coroutines end before their threads, and the service, its keeper and its sessions are gone in the end | the two strands of the code, a client that makes a request of any kind and one that only connects, channels of one frame |
| `async_logging` | order, texts, flush, nothing lost at exit; flush and destructor return | 2 threads, 1 sink, 3 tasks |
| `session` | client and service stay in step until an abort, and end together | queues of one frame, 5 requests, 2 tokens, every operation may fail, streams may be abandoned |
| `parts` | one property or two of each of the ten smaller parts | below |
| `timer_xio_stale`, `backend_shutdown_lost`, `session_error`, `containers_std`, `log_digits` | disagreements, next section | |

`MCParts` holds ten modules that share no variable. `part` is chosen in the
initial state, the chosen part takes all the steps and the others stay where they
began, so that each behaviour of the run is a behaviour of one part and the state
spaces add up. Its properties are invariants, so that the two objects `v1` and
`v2` of a container may be taken for one another (`MCSymmetry`).

| Part | Property | Instance | States |
| --- | --- | --- | --- |
| `SmallVector` | `ObjectsAccountedFor`, `LikeStdVector` | 2 vectors, static buffer of 2, up to 4 elements, reverting or not | 16,836 |
| `LogText` | `TextArrives` | entries of 3 characters in a buffer that begins with 2, integers of 3 bits, 4 paddings | 5,628 |
| `PodVector` | `PodLikeStdVector` | 2 vectors, elements of 1 and 2 bytes, up to 4 bytes | 22,330 |
| `FlatMap` | `LikeStdMap` | 2 maps, 3 keys, 2 values | 2,080 |
| `Expected` | `HoldsOne` | 2 objects of each of the six specialisations | 315 |
| `Generator` | `GeneratesItsBody` | 2 generators, 2 frames, up to 2 values and an exception | 3,025 |
| `Coroutines` | `HearsWhatWasSaid`, `ResumedExactlyOnce` | 3 frames of 3 steps, 2 spawned, 1 queued notification | 26,571 |
| `LoggerScopes` | `EnabledMeansRecorded` | 2 scopes, 2 threads, 2 sinks | 12,948 |
| `PluginManager` | `HandlesAccountedFor` | a library of each kind, 2 directories and a missing one, 3 loads | 3,087 |
| `SyncIo` | `NothingLeftBehind` | channels of 2, replies of 0, 1 or 3 frames | 235 |

Every bound is a constant named in its module and commented there
(`MaxWritten`, `MaxExpiries`, `MaxAge`, `MaxTasks`, `MaxRequests`, `MaxTokens`,
`SvMaxSize`, `PodMaxBytes`, `LtMaxText`, `FmInit`, `CoSteps`, `CoRoots`, `CoQueue`,
`PmLoads`, `PmMaxDirs`).
Why they are enough:

* A channel of capacity 2 can be empty, partly full and full. With capacity 1
  there is no state in which neither side can be blocked, and larger ones only
  add such states. 4 messages pass through every fill level twice. The theorems
  hold for every capacity.
* One or two expired waits make a stale notification and a call that suffers
  from it; a further one repeats this.
* Two keys and three resources give a slot whose weak pointer has expired in
  front of a live one, a slot of another key in between, and a key whose earlier
  resource has died. Two locks let one be dropped or moved while another still
  holds the resource.
* Three tasks of two threads put tasks of both in one batch, a batch under
  execution while another is pushed, and tasks on both sides of the last swap.
* Five requests load a model, create an instance and use it, with one failure
  before each; queues of one frame (the `{1, 1}` of `SyncBackend`) block most.
* One request of two assets, the second of which may be missing, has progress
  that is dropped and progress that is not before an error or a return; the client
  that only connects is the second one to look for the service, and the second
  session that must end.
* A static buffer of 2 and 4 elements: a vector leaves its buffer, grows where it
  is and comes back, with every position before, at and after the boundary. Four
  bytes hold two elements of the wider type and four of the other.
* Three coroutine frames make a chain of two awaits, a frame with two others, and
  one waiter replaced by another; three steps are two calls of `next()` and an end.

**Uses that are left out.** Some calls the interfaces allow are known not to work.
They have a constant each, so that a run without them can be about the rest; the
value below brings them back and makes the property fail.

| Constant | What goes wrong |
| --- | --- |
| `EmptyRanges = TRUE` | `small_vector` asked to insert or erase an empty range moves its tail onto itself: elements end up moved from (`small_vector.hpp`, 774 and 841). `ObjectsAccountedFor` |
| `FillsUp = TRUE` | `pod_vector::resize` with a value, next section. `PodLikeStdVector` |
| `LtEdges` | the smallest integer in base 2, next section (with `LtMaxText = 4`, the length of its text); a `Printf` text of exactly 1024 characters loses its last one (`Printf.cpp`, 28). `TextArrives` |
| `Throwing` | `expected<T, E>::emplace` and the assignment of `expected<T, void>` have the flag say that there is a value whose constructor threw (`expected.hpp`, 249 and 561). `HoldsOne` |
| `MixesAwaits = TRUE` | `co_await` of a coroutine whose `next()` was awaited before: `m_generated` still points to the awaitable that has gone, and a `co_yield` writes there (`coro.hpp`, 188). `HearsWhatWasSaid` |
| `LevelsEarly = TRUE` | a level that is set before the logger is initialized lets entries in while the scope has no sinks, or half of them. `EnabledMeansRecorded` |

**Deadlock** is checked except where the system really stops: after the
destructor or with the program (`BackendShutdown`, `BackendServices`), when all bounded
calls have been made (`AsyncLogging`) and after the session is closed (`DummySession`).

**Fairness.** Weak, and only for what the scheduler or the clock does: a thread
inside a call goes on (`BlockingIo`, `AsyncLogging`), the executor runs queued
handlers and asio timers run out (`TimerXio`, `BackendShutdown`,
`DummySession`), the gc coroutine comes around and time passes
(`ResourceCache`), the threads of the io context run what is posted to them and
sessions that can go on (`BackendServices`, as long as the program runs). Nobody has to start an
operation, and nobody has to close or
destroy anything; a destructor that has begun goes on. The thread that holds no
lock and has work runs: this is what an operating system gives.

## Where the code does not do what is said of it

**A late cancellation ends the next wait (`timer_xio_stale`).**
`timer_wobj::notify_one` posts `cancel_one`, tied to no particular wait. When the
timer expires between the notification and that handler, the wait is over, the
call returns, and the cancellation meets the wait of the next call, which
returns without a value and without a timeout: aborted, though it had no timeout.
`t-xio.cpp` checks, of `xio` and with `cvar_wobj` under it, that an untimed poll after
a timed one polls until there is a value. What does hold
(`AbortsArePaidFor`): each expired wait costs at most one such call, and a side that
never uses a timeout never sees one.
`cvar_wobj` has the same weakness, with the notification left in `m_flag`;
`AbortsArePaidFor` of `blocking_io` bounds it in the same way.

**A lost cancellation keeps the destructor (`backend_shutdown_lost`).**
`~Backend` cancels the wait of each gc coroutine once. If the ten-second timer
has expired but the coroutine has not started its next wait, there is nothing to
cancel, and the coroutine goes on waiting ten seconds at a time while the
destructor joins its thread. `t-coro-mt.cpp` relies on such a notification being
noticed in a loop of the same form. The window is small; `BackendReturns` of
`backend_services` says that, with services and sessions in the backend, it is
the only one, unless a request ends the program first.

**An abort after an error (`session_error`).** When a stream is answered by an
error, the client throws out of its loop and the sentry of
`BlockingIoHelper::stream` pushes an abort although the service has already
left the operation. The service reads the abort as a request, answers "unknown
op", and the next call of the client takes that for its own answer. The test
`t-dummy-schema.cpp` shows that a session is meant to be usable after an error.
Until the first abort, everything stays in step (`InStep`). The same module
shows what an abandoned stream does, of which no document says anything: frames
already sent are still in the channel when the next call polls.

**A resize that writes behind its buffer (`containers_std`).** `resize(n, val)` of
`pod_vector` reserves `n` elements and then fills `n` of them from the old end on,
whatever the old size was. On an empty vector, which is how the SDK uses it, this
is right. The class calls itself similar to `std::vector`.

**One digit too many (`log_digits`).** `write_integer` writes into a buffer with a
character for each bit of the integer, "enough for integers in base 2 or
greater". The smallest integer in base 2 has as many digits as bits, and a sign.

More weaknesses, which contradict no document, are hazards in `PROJECT.json` and
in the table of uses that are left out. A request to the asset manager with a field of another type ends the program:
`runSession` catches `stream_closed_error` around its loop and `runtime_error` around a
request, the exception of `nlohmann::json` is neither, and a top coroutine "can't throw"
(`coro.hpp`, 79). `EachRequestAnswered` names it as the one request without an answer; those
for another op and those that lack a field are answered by an error. Besides those,
`flush` never returns when its task is pushed after the last swap of the
serving thread (`FlushReturns` promises nothing once the destructor has begun),
and `exchange_read_notify_cb` and `exchange_write_notify_cb` would store a
callback in a channel that is already closed, but only tests call them.

## What is proved

`BufferedChannelProofs` proves of `ChanSpec`, for every capacity `MaxSize >= 1`,
every bound on the number of messages, every set of closing threads, and
reader, writer and null task distinct (`ThreadsAssumption`, `SizeAssumption`):

| Theorem | Property |
| --- | --- |
| `TypeCorrect` | `TypeOK`, with the bound on the length of the queue |
| `AssertsHold` | `ChannelAsserts`: the asserts of `write` and `read` |
| `NoWakeupLost` | `NoLostWakeup` |
| `FifoHolds` | `FifoOrder`, which no run lists: `BlockingPipe` promises the same |
| `EndIsFinal` | `ClosedAfterDrain` |

Neither `ChannelAsserts` nor `NoLostWakeup` is inductive. A stored callback
must say something of the queue: `NotifyInv` states that the reader's callback is
there only while the queue is empty, the writer's only while it is full, and
neither once the channel is closed. That is the unwritten rule that lets one slot
serve both directions, and the reason why a capacity of 0 would not work (both
sides could be blocked at once). With it, `Safety` (types, `NotifyInv`,
`NoLostWakeup`) is inductive; the asserts follow from it. The second invariant,
`Stream`, joins the types with `FifoOrder` and `ClosedAfterDrain` and is
inductive by itself: it does not depend on who is woken. Each proof has one
step per action of `ChanNext`.

`BlockingIoProofs` and `TimerXioProofs` carry this up to the wait objects, under
the same assumptions and for every choice of the sides that use timeouts
(`TimedAssumption`):

| Theorem | Property |
| --- | --- |
| `IoTypeCorrect`, `XioTypeCorrect` | `IoTypeOK`, `XioTypeOK`, with the bound on expired waits |
| `NoSleeperForgotten` | `SleeperIsWoken` of `BlockingIo` |
| `NoCoroutineForgotten` | `SuspendedIsResumed` of `TimerXio` |
| `AbortsNeedExpiries`, in both | `AbortsArePaidFor` |
| `UntimedSideNeverAborted`, in both | a side outside `Timed` has `aborts[s] = 0` at all times |
| `IoImplementsPipe`, `XioImplementsPipe` | `Pipe!PipeSpec`: the safety part of `ImplementsPipe` |

Every io step is a step of the channel or leaves it alone (`IoStepIsChanStep`,
`XioStepIsChanStep`), so `Safety` holds here too and is not proved again. What
joins the layers is `Link`: a waiting side has left its callback in the channel,
or the callback has already done its part (the flag is up, a cancellation is
posted, the wait is over). With `NoLostWakeup` this gives the two properties
about waking at once. They are safety statements; that a thread with its flag up does
go on is fairness and checked by TLC.

*Aborts.* That each expired wait costs at most one call is a matter of counting. `Owed`
adds to the aborted calls of a side the notifications that are on their way to it: its
callback stored in the channel, its callbacks taken by other threads and not called
yet (`Callbacks`, lemmas in `BufferedChannelProofs`), its flag or its posted
cancellations. This sum never exceeds the waits that expired, by more than the
one that a wait in progress is entitled to. A retry that fails seems to
break this: it aborts a call and adds nothing. `Stands` is why it does not: until a call
returns, its own callback is still stored or its operation is possible,
so a retry that finds it impossible finds the callback too and takes it back. An untimed
side has no expired waits, hence `UntimedSideNeverAborted`, which is what
`status.hpp` says of aborts.

*Refinement.* Each step maps to one of `BlockingPipe` or leaves it alone. The delicate
step is a call that gives up: the pipe lets it do so only when its operation is
impossible at that moment, and the retry of `async_io` is what guarantees it.

`ResourceCacheProofs` proves of the cache, for all sets of keys, resources and locks
and every age (`CacheAssumption`),

| Theorem | Property |
| --- | --- |
| `TypesHold` | `TypeOK` |
| `LiveIsAlwaysFirst` | `LiveIsFirst` |
| `AlwaysManagedOnce` | `ManagedOnce` |
| `CacheImplementsStore` | `ImplementsStore`: the cache is a `KeyedStore` |

The first three are inductive together and none is alone. A resource is alive
exactly if the manager owns it; so only a creation and a collection change what the
slots mean. A creation takes the first free slot, and that this is never in front of, or
behind, a live slot of the same key needs both that the search for the key comes first
and that searches return the first slot (`FirstIsLeast`, from the well-foundedness of the
natural numbers; `SlotIsFirst`, `FreeIsFirst`). For the refinement, `Find` is
shown to depend on the live slots only, and each action maps to `KeyedStore`'s.

`BackendProofs` is about `BackendShutdown` and `BackendServices`, for every list of strands
(`StrandsAssumption`: there is one), any number of clients, and requests of any
length over channels of any capacity (`ServicesAssumption`):

| Theorem | Property |
| --- | --- |
| `WobjOutlivesCancel`, `ServicesLeaveWobj` | `CancelFindsWobj`: the posted cancellation finds its wait object |
| `GcStopsInTime`, `ServicesLeaveGc` | `GcEndsWithBackend` |
| `ServicesRefineShutdown` | `ServicesSpec => Spec` of `BackendShutdown` |
| `ServicesComeAndGo` | `ServicesLiveAndGo` |
| `RequestsAreAnswered` | `EachRequestAnswered`, for requests of every kind |

For the destructor, `PhaseInv` says what is still owned and guarded in each phase;
`OnceInv` that a strand is told once: its cancellation is posted, or has been spent
on a wait whose coroutine then ends, or was lost. Together they are inductive. The
services take the same steps and leave the variables of the shutdown alone in all
others, so its theorems carry over. `LifeInv` is the life of the service: at most one
client is between looking for the service and creating it, and it holds
`m_mutex`; the strand has the start of the keeper before and the cancellation behind
everything else; the io thread exits only when the strand is empty. `RequestInv`
follows a request: what a session has told lies before the place (`Place`) of what it
tells next, and the assets it has passed are there; one that is for another op or cannot
be read is told of by an error alone. The program ends only at the poll of a request with a
field of another type, and no step follows (`ThrownInv`). This proof found an error in the
model: the place of an answer was a fixed number, which is behind the progress
only of requests with few assets. The model and the property have been corrected.

`LoggingProofs` follows an entry on its way. Of `AsyncLogging` it proves, for any number of
threads, tasks and sinks (`LoggingAssumption`),

| Theorem | Property |
| --- | --- |
| `FlushesRecord` | `FlushMeansRecorded` |
| `ExitRecords` | `NothingLostAtExit` |
| `LoggingImplementsLine` | `ImplementsSyncLog`: the two buffers are a `SyncLog` |

The properties speak of `Pending`, the line of tasks put together from both
buffers; the invariant speaks of the buffers task by task, and `PendingMeaning` joins
the two. Its heart is `BehindSync`: what stands behind the synchronization
of a thread, in its own buffer or in the one that is filled meanwhile, was pushed
after `flush` was called. Around it: the buffers that are swapped in are empty, indices
stay inside the text of their own buffer, and a thread has one
synchronization on its way at most. The type invariant of the proof leaves out the
sinks: what they are is computed with `SelectSeq`, which the provers know nothing of.

`LoggingProofs` has one more theorem, `TextAlwaysArrives`: the property `TextArrives` of
`LogText`, for all texts, widths of integers, bases from 2 to 36, paddings, capacities and
sizes of the `printf` buffer, under the hypothesis `LtEdges = {}`, which the run makes too.
It rests on what `ContainerProofs` says of loops and sequences (below). `BufHolds` says that
a stream buffer holds a text: the characters before `pptr` are the text, and the pointers
are into the allocation the vector has now.
Each operation of the buffer has a lemma about the text it holds afterwards
(`CapResizeByHolds`, `SputnHolds`, `SeekHolds`, `ClearBufHolds`), so the invariant `LtInv` only
adds that the text is the one that was written, and that the entry is the text. What
`write_integer` writes, by division from the back, is what `Written` says of the value,
digit by digit: a number has one number of places (`PlacesExist`, `PlacesUnique`), and
dividing by the base takes the last digit off and leaves the others (`MoreDigits`,
`DigitsDivideUp`). The digits and the sign fit into as many characters as the integer has bits
(`PlacesFit`); the smallest integer in base 2 is the one exception, which is where
`LtEdges` is needed. Powers are a recursive function in `LogText`, because the provers know
nothing of `^`.

`PartsProofs` has eight theorems about six parts, each part with an inductive invariant of
its own:

| Theorem | Property | Hypothesis |
| --- | --- | --- |
| `SessionTypes` | `TypeOK` of `DummySession` | |
| `StaysInStep` | `InStep` of `DummySession` | |
| `NothingIsLeftBehind` | `NothingLeftBehind` of `SyncIo` | |
| `EnabledIsRecorded` | `EnabledMeansRecorded` of `LoggerScopes` | `~LevelsEarly` |
| `HoldsEither` | `HoldsOne` of `Expected` | `Throwing` is `{}` or `{"emplace T, void"}` |
| `GeneratorTellsAll` | `GeneratesItsBody` of `Generator` | |
| `EachResumedOnce` | `ResumedExactlyOnce` of `Coroutines` | |
| `AnswersAreHeard` | `HearsWhatWasSaid` of `Coroutines` | `~MixesAwaits` |

The three hypotheses are not for the proof's convenience: without them the properties are
false, as the table of uses that are left out says. The runs make the same choice.

* *DummySession*, for queues of any capacity, any number of requests, tokens and files, and
  whatever fails (`SessionAssumption`). `InStep` speaks of the moments between two calls;
  `Agreed` says what is on its way in the others. The request is in the channel
  (`Requested`), or the service works on it and has sent parts of an answer (`Working`), or
  has one frame left to send that ends it (`Answering`), or has sent it (`Answered`).
  That last frame tells the client what became of the service's state, or is an error
  and nothing became of it (`Final`). So the construction of an instance has to be over
  before the state changes, and the client may not skip a frame it does not know:
  the mutants that do either break this. Nothing is claimed after the first abort, where
  `session_error` shows that the property fails.
* *SyncIo*, for every pair of capacities and every set of replies. The property speaks
  of a client between calls; `Suspended` adds why a suspended service is suspended, at
  every moment: it polls an empty channel or pushes into a full one, because whatever
  ends that posts the task in the same step.
* *LoggerScopes*, for all sets of scopes and threads and every list of sinks. A scope lets
  entries in only when it has its sinks (`Admits`), which `initialize` guarantees by
  giving it the sinks first; `Passed` says so of the slots `initialize` has gone
  through, `Registered` that every living scope is in one slot, and `Adding` that what a
  thread has recorded together with what it has left are all sinks.
* *Expected*, for all sets of objects and integers as values. `Fits` says what may be in
  the memory of an object of each kind. The members that construct, set and destroy
  are treated once each and the operations put together from them.
* *Generator*, for all sets of generators, frames and bodies. `Told` says which beginning
  of what the body yields was given to the consumer while the frame is suspended, done
  or destroyed, and the frame has an owner exactly while it exists.
* *Coroutines*, for all sets of frames, numbers of steps, roots and jobs. Three things keep
  control where it belongs. `Stack`: a frame in control is awaited by the one below it,
  and belongs to that one or to the caller of that one. `Waits`: who awaits has
  the awaited above it, or that has just paused. `ResumedOnce`: the wobj and the jobs
  hold one resumer for each frame that is due. What a frame owns through its children
  is stated without recursion, as the smallest set with the frame that is closed under
  ownership (`Owned`); the idle frames are such a set, so a `coro` object that goes takes no frame
  along that somebody would resume (`OwnedIdle`). `Rooted` and `Chained` exclude
  circles, of owners and of awaits: without them a strand could be quiet with frames
  left over that own or await each other. The hardest step is the end of a
  coroutine that returns some of its `coro` objects: they change owner, and a
  circle is excluded because owners of frames in control are themselves in control
  (`FinishKeeps`). `AnswersAreHeard` adds where the answers go (`Pointed`) and that an awaitable is
  empty until its frame is resumed (`Listens`). It is here that `~MixesAwaits` is needed, and
  only here: resuming is sound with mixed awaits too.

`ContainerProofs` has five theorems about the parts whose calls are loops over sequences:

| Theorem | Property | Hypothesis |
| --- | --- | --- |
| `HandlesAreAccountedFor` | `HandlesAccountedFor` of `PluginManager` | |
| `FlatMapIsAMap` | `LikeStdMap` of `FlatMap` | |
| `PodVectorsAreStandard` | `PodLikeStdVector` of `PodVector` | `~FillsUp` |
| `SmallVectorsAccountForObjects` | `ObjectsAccountedFor` of `SmallVector` | `~EmptyRanges` |
| `SmallVectorsAreStandard` | `LikeStdVector` of `SmallVector` | `~EmptyRanges` |

The hypotheses are again the uses that are left out, and the runs make the same ones.

The library's induction theorems cannot be used for what a loop computes (they take an
operator). `AllNumbers` can: a set of natural numbers that has 0 and with each number
the next one has all of them (`LeastOf`, from the well-foundedness of the subsets of
an interval). A recursive function or a fold is treated with it twice: first a function
with its equations exists for every length, so that the `CHOOSE` behind the definition
names one; then what this function computes is shown along its equations.

* *PluginManager*, for all directories, libraries, callbacks and numbers of loads. `HandlesOf`
  says that each library is held at most once, by the plugin at its own path, and is open
  once for its holder, once more for each time it was given up, and once less if it was
  closed under its holder. This is not to say that every handle is given back: a late
  rejection leaks one each time, and the destructor closes once more what was closed
  early. The theorem says that these are the only two mismatches, each of the size
  the history tells. One attempt keeps it
  (`AttemptKeeps`, a case for each way it ends), so a directory does, and so does a
  call that goes through all directories.
* *FlatMap*, for all integer keys and values. A sequence with increasing keys (`Strict`)
  is a map (`MapOf`). The binary searches find the one place a key has
  (`BoundFinds`, by the size of the interval that is left); what is inserted there keeps the
  sequence strict and adds the key to the map, and what is erased takes it away. The constructor
  from pairs in any order keeps the first of each key (`UniqueIs`).
* *PodVector*, for all widths and sizes. `PodHolds` has the capacity in the buffer and the
  bytes in front of it; growth by half reaches every size asked for (`NewCapacityIs`). What an
  insertion or an erasure leaves (`Replaced`) is shown byte by byte, through the
  moves within a buffer (`MoveIs`) and over to a new one.
* *SmallVector*, for all static capacities, element values and values of
  `RevertToStaticBelow`. The invariant (`SvHolds`) says of every cell of the two buffers what is in
  it: an element of the reference, or nothing. `Keeping` is this for any contents,
  `Keeps` for the memory in the middle of a call, with the buffer that is new. A loop is
  followed round by round: after `k` rounds of a move, of a shift upwards from the end or
  downwards onto erased elements, each buffer has certain cells (`MovedOver`, `GrowInPlaceIs`,
  `ShrinkInPlaceIs`, `BroughtOver`), and the next round finds the object it moves, and
  no object where it constructs. This is where an empty range fails: an object moves onto
  itself. That memory is given back with no object in it, and the buffer
  left behind is raw, is then a fact about all its cells. Both properties follow, and the
  destructor leaves exactly what was there before the constructor (`DestructedIs`).

Constants that stand for "nobody" or "nothing" must not be members of the sets they
stand beside, which TLC takes for granted with model values: `NoClient \notin Clients`,
`NoScope \notin LogScopes`, `NoFrame \notin Frames`, `Nobody \notin CoFrames` and
`NoHandle \notin Libraries` are part of the assumptions of their modules.

## What is only model-checked, and what is not modelled

Liveness (`CallReturns`, `FlushReturns`, `BackendReturns`, `SessionEnds`, ...) and with
it the fairness part of the refinements is out of the prover's reach and stays with
TLC. Every invariant that a passing run checks is proved. The type invariants are proved
with them; no run lists them by themselves.

Not modelled: conversion of frames (resolved at compile time, no state), paths and
files, floating point output, what the sinks do with an entry; the asio library
and the platform's library loader, which appear through the guarantees the code
relies on; the number arithmetic of the dummy model; `atomic_cvar`, `sc_queue` and
the other helpers nothing in the SDK uses. The entries of `components` in
`PROJECT.json` give the status of every part. Simplifications inside modelled
parts:

* One coroutine at a time waits on a direction of an io object (the code
  allows more with `notify_all`, and no part of the SDK does it); endpoints are not
  attached to another channel while in use.
* The asset manager appears in a session of the dummy service only as progress
  frames with an error or a return, and in `BackendServices` by itself.
* `BackendServices` has one service; matching by name and `registerService`,
  which the constructors call before there is a client, are left out.
* `AsyncLogging::update` called by hand is the body of the serving thread and is
  not a second server.
* A step of `PluginManager` is a whole call: it is used by one thread. Its behaviours end
  where a search path is read beyond its end, as nothing can be said of what follows.
* The requests of `DummySession` are those of `BlockingIoHelper`, whose types are checked
  when it is compiled; requests with fields of other types are modelled in `BackendServices`
  alone.
* The objects with which a program sets up `Logger` and `Instance` (`SetupDSL`) are not
  modelled; what they call is.

## Plan

What is left is one *composition*: plugins that register services while others are
loaded, with the pointers into the growing vector of plugins.

## Running it

    tlc -config MCBlockingIo.cfg MCBlockingIo.tla
    tlc -config MCParts.cfg MCParts.tla
    tlapm BufferedChannelProofs.tla
    tlapm BlockingIoProofs.tla
    tlapm TimerXioProofs.tla
    tlapm ResourceCacheProofs.tla
    tlapm BackendProofs.tla
    tlapm LoggingProofs.tla
    tlapm PartsProofs.tla
    tlapm ContainerProofs.tla

All passing runs finish in seconds on two cores except `resource_cache` (half a
minute), `async_logging` and `parts` (two minutes) and `backend_services` (three).
