# Synca in TLA+

Synca (`src/`) is a C++11 library of stackful coroutines over Boost.Asio.  A
user starts *journeys*: sequential activities that move between schedulers
(`teleport`), wait for one another, talk through channels, and can be cancelled
or timed out.  This directory holds TLA+ models of it, the TLC runs that check
them on small instances, and proofs that TLAPS checks: every safety property and every
refinement the runs check is also proved, for every value of the constants.

## 1. Inventory

| Part (source) | State | Operations | Interacts with |
|---|---|---|---|
| Journey (`journey.cpp/.h`) | `sched`, `deferHandler`, `eventsAllowed`, its coroutine, its Goer, its garbage list; thread-local `t_journey`; two global counters | `create/start0`, `defer`, `deferProceed`, `proceed`, `teleport`, `handleEvents`, `disableEvents`, `enableEvents`, `waitForAll` | posts itself to schedulers, hands its proceed handler to asynchronous operations |
| Coro (`coro.cpp/.h`) | `started`, `running`, two contexts, thread-local `t_coro` | `start`, `resume`, `yield` | only journeys use it |
| Goer (`goer.cpp/.h`) | one status cell, shared with other threads | `cancel`, `timedout`, `reset` | Timeout, users, Journey::handleEvents |
| Timeout, EventsGuard (`core.cpp/.h`) | an asio timer; nothing | constructor, destructor | Goer, Journey |
| ThreadPool (`mt.cpp/.h`) | `work`, `toStop`, `mutex`, `cond`, threads, io_service | `schedule`, `wait`, destructor | executes everybody's handlers |
| Alone (`core.cpp/.h`) | an asio strand | `schedule` | a scheduler on top of a pool |
| Global schedulers and services (`core.cpp/.h`) | one pointer per tag | `attach`, `detach` | `go`, Timeout, network |
| goWait, goAnyWait, goAnyResult, Waiter (`core.cpp/.h`) | shared counters and their destructors, results in the parent's frame | start children, suspend the parent, proceed it | go, deferProceed |
| Portal (`portal.cpp/.h`) | `source` | teleport there in the constructor, back in the destructor | teleport |
| Channel (`channel.h`) | `queue`, `closed`, stack of `Waiter` records on coroutine stacks, `mutex` | `get`, `put`, `open`, `close`, iteration | deferProceed, proceed handlers |
| Pipelines (`data.h`) | - | `piping*`, `closeAndWait`, Closer | Channel, ThreadPool::wait |
| Network (`network.cpp/.h`) | asio sockets | `read`, `write`, `accept`, ... through `deferIo` | deferProceed |
| GC (`gc.cpp/.h`) | list of deleters | `add`, destructor | Journey owns one |
| `examples/data.cpp` | ten channels, `processed`, `countedWords` | a crawler: filter, load, parse, count | pipelines, network, ThreadPool::wait |
| `examples/server.cpp`, `client.cpp` | one Socket each; caches | `serve`, `Network::get`, `handleKey` | network, portals, Timeout, goAnyResult |
| Tests, build files | | | users of the above |

What is hard here:

- *Interleaving.* A journey migrates between threads while thread-locals, a
  deferred handler and bare pointers to it are in flight.  The deferred handler
  may be called only after the coroutine has been left, and after it was called
  another thread may already run or delete the journey.
- *Ordering and locks.* `Channel::get` keeps a mutex over a context switch;
  `put` and `close` use records on another journey's stack outside of the mutex;
  `wait()` restarts the io_service under the feet of late workers.
- *Events.* They arrive from other threads in an unsynchronised cell and are
  thrown as exceptions out of every context switch, also from destructors.
- *Exceptions that migrate.* A Portal that is unwound changes threads, while the
  runtime counts the exceptions of each thread.
- *Quiescence.* `waitForAll` and `closeAndWait` have to find out that everything has
  come to rest, in a system that creates work for itself.
- *Outstanding I/O.* Completion handlers write to frames of suspended coroutines,
  and nothing takes an operation back.
- *Liveness.* Strands, pools, `wait()`, `close()` and destructors must not leave
  anybody behind.

`PROJECT.json` lists each hazard at its line with the properties aimed at it.

What makes each part correct: a journey has exactly one continuation, is never
lost, and nothing touches it after its deletion; code behind `teleport(s)` runs
in `s`; an Alone excludes; an event is thrown once, not inside a guard, and
belongs to its scope; a pool executes what it is given, `wait()` returns and
means that the work is done, the destructor drains; a channel neither loses nor
duplicates nor reorders, and wakes whom it must; a Portal takes the journey back
however it is left; `waitForAll` and `closeAndWait` return, and not before all is over;
nobody puts into a pipe that is closed; an I/O operation finds the frame, buffer and
socket it was started with, and an exchange yields the answer to its request.

## 2. Modules

| Module | Role |
|---|---|
| `Journey` | Journeys, coroutines, schedulers and events at context switches |
| `Travel` | abstract: what the scheduling core promises; `Journey` implements it |
| `ThreadPool` | `mt::ThreadPool` |
| `Channel` | `synca::Channel` |
| `Conduit` | abstract channel; `Channel` implements it |
| `Events` | status cell, Timeout and EventsGuard of one journey |
| `Waiting` | goWait, goAnyWait, goAnyResult and the class Waiter |
| `WaitForAll` | the counters of journeys and `waitForAll` |
| `Portal` | Portals, exceptions and threads; journeys are created, end and are waited for by the actions of `WaitForAll` |
| `Piping` | the pipelines of `data.h`, in the graphs of `examples/data.cpp` |
| `Crawl` | abstract: what those pipelines compute; `Piping` implements it |
| `Network` | `deferIo`, Socket, Acceptor, Resolver |
| `Exchange` | the programs that use `Network`: get, serve, loadContent |
| `JourneyProofs`, `ThreadPoolProofs`, `ChannelProofs`, `EventsProofs`, `WaitingProofs`, `PortalProofs`, `PipingProofs`, `ExchangeProofs` | theorems about these modules, with TLAPS proofs; those about `WaitForAll` are in `PortalProofs`, those about `Network` in `ExchangeProofs` |
| `MCJourney`, `MCThreadPool`, `MCChannel`, `MCEvents`, `MCWaiting`, `MCPortal`, `MCPiping`, `MCExchange` | small instances for TLC |

### Journey

A worker thread executes a journey in segments: `Start` or `Resume` (a handler
is taken from the queue; `onEnter0`, `jump0`), user steps, `Finish` or a `Defer`,
`SwitchOut` (back through `yield0`), `OnExit` (the deferred handler is called,
or the journey deleted) and `Leave` (the end of `onExit0`).  Each is a step of its
own, because other threads may act between any two of them.  The code inside the
coroutine is the most general client: `UserStep` is any public operation.  A
deferred handler is abstracted to what it does: post the journey again
(`proceed`, of teleport) or hand its proceed handler to an asynchronous operation
(`handoff`, of deferProceed), which later calls `Proceed` once.  asio is external:
FIFO queues per io_service and strand, and no two handlers of a strand at a time.

`Interruptible` is the set of journeys whose Goer anybody uses.  `Located` and
`AloneMutex` are stated for the others, since the code violates them for
interrupted ones (see *Findings*, at the end).

### ThreadPool

The service is three facts: the handlers it has, whether a work object exists,
whether it is stopped.  `DropWork` and `Complete` stop it when the first two are
empty, `run` returns in every worker of a stopped service.  Steps under the mutex
are atomic, except `Decide`/`Renew`: making the work object and `service.reset()`
are two steps, since the io_service is used without the mutex.

### Channel

Steps under the mutex are atomic; the lock that `get` carries over the switch is
the variable `owner`.  `SwitchOut` may instead throw an event, `Return` too.
Between popping a Waiter and calling its handler `put` and `close` hold no lock,
so `Write` and `Call` are separate.  What the module uses of journeys - that the
deferred handler runs after the switch, and that the journey resumes once after
proceed - is what `JourneyProofs` proves.  `Conduit` hides all of it: the
refinement mapping counts a value as received as soon as its Waiter is popped.  An
event that meets a getter which has been handed a value loses it: `Lose` of `Conduit`, for
interruptible getters only.  The history variable `dropped` records these losses, so that
`Delivered` can say that there is no other: each value put is in exactly one place.

### Events

`Check`/`Store` are the two accesses of `setStatus0`, `Handle`/`FinishReset` the two
of `Goer::reset`; they interleave freely because the cell is a plain enum.  Code of
the user is any sequence of scopes, `handleEvents`, exceptions and catches.  The
cell holds which sender wrote it; the code keeps only the kind, so this is a
history, not a decision.  A destructor that throws goes to `terminated`.

### Waiting

A call is one use of a waiting function, or one round of a `Waiter` from `init0` to
`wait()`.  `Holders` are the copies of the shared_ptr that are left: one per child whose
closure exists, and one of the loop that starts the children or of the Waiter itself.
`Release` drops one, and `Destroy` is what the last one does: the deleter of goWait or
Waiter, or `~Counter`, which is one more `Count`.  `Count` is `++counter == 1` of goAnyWait
and `tryProceed` of goAnyResult.  A child returns, or fails (throws, or has no value); its
closure is dropped later, after `start0`'s lambda has let go of it.  Following a
reference into a frame that has gone is undefined; the module goes on with the outcome
that the memory is unchanged, and `FrameAlive` states where it cannot happen.

### WaitForAll and Portal

`Create` and `Destroy` are the two increments, `ReadFirst` and `Compare` the two reads of
the loop in `waitForAll`.  C++ leaves their order to the compiler: `first` is the
choice of a build.  `AllAreOver` is stated for builds that read the counter of destroyed
journeys first; with the other order, the one journey.cpp:189 is written in, journeys that
are created and end between the two reads let the loop stop early.  `ReturnsByCount` covers
both: it says how many journeys `waitForAll` leaves behind.  Only the main thread and living
journeys create journeys; the loop of a goAnyWait whose caller has ended could too, but that
is undefined already.

`Portal` takes from `Journey` that a teleport leaves the thread and is resumed once on a
thread of the destination.  `portals` is the stack of a journey's Portal objects, `catchAt`
the exception that unwinds it.  `Depart` and `Arrive` are the two halves of a teleport,
each of which may throw an event: out of `teleport`, out of a constructor (then there is no
Portal) or out of the destructor (then the program terminates).  `uncaught` is the counter
behind `std::uncaught_exception()`: incremented by the thread that throws, decremented by
the one that catches, modulo `Counts`, the number of values it can have.

### Piping

A worker is a journey of one of the pipes: `Get` is its iterator, `Filter`, `StartLoad` and
`EndLoad`, `Split`, `Href`, `CountWords` are what it does with a value, `PutNext` and
`CloseNext` its puts and its `Closer`s.  The channels are those of `Conduit`, with the
getters' part of it done at once.  `Parse` is parseUrl: `Parsable` are the urls it can take
apart, the others go no further.  parseText, excludeTags and splitWords, which turn a text
into its words, are one step with the counting; pages stand for their urls, contents and
words.  The first `wait()` of `closeAndWait` is taken at its word (`PoolWaited`), which
`ThreadPool` shows to be right for the first of a pool; the second may return at any time
(`WaitEndsEarly`), as `pool_early` shows.  The result does not depend on it: when the first
has returned nothing is on its way any more, and what the workers have left to do is to
close channels.  The main thread stays in `processing()`: if it leaves before they are
done, it destroys channels that they use.
`GraphAssumption` says which graphs are meant: that of `processing()`, with any number of
workers in a pipe and of channels between two pipes, as long as `Input` is the filter's,
the readers of a channel do the same, every channel is read and can be reached from `Input`.
There is one filter: each journey of a pipe has a copy of its function, so that a second
one would have a `processed` of its own and pass every page a second time.
`Crawl` knows no channels: `ImplementsCrawl` says that the result is read only when all
pages that can be found were found, those that can be parsed loaded or failed, and the
loaded ones counted.

### Network and Exchange

A call of `deferIo` is `DeferIo` (switch out and start the operation), a completion that
fills `err` and `buf`, and `Returns`, `DeferIoAgain` or `ThrowAfter`.  A journey that
goes on to its next operation does so in one step, since between two of them it touches
nothing of anybody else; only the loop that accepts is cut into `Accepted`, `GoHandler` and
`Release`, because the handler it starts runs beside it.  Each end of a connection has a
stream of bytes, read in whole or in arbitrary segments; a peer that has closed makes
operations fail, at any time, and what is in its stream may or may not still be read.
`Exchange` adds where in its program each journey is (`point`).  Bytes are what they are
part of - a key, the suffix, a header, a body - except those that are sizes.

## 3. Runs

| Run | Instance | Shows |
|---|---|---|
| `journey_safety` | 3 journeys (1 interruptible), 2 threads, 1 pool, 1 Alone | one continuation, nothing lost, no dangling pointer, VERIFYs hold, code is where teleport sent it, the Alone excludes, no write after delete; and the inductive invariant holds |
| `journey_live` | 2 journeys (1 interruptible), 2 threads in 2 pools, 1 Alone | no starvation; `Journey` implements `Travel` |
| `pool` | 2 workers, 2 clients, 2 handlers, one throws, at most 2 `wait()` calls | no spinning, restarts, drained; the first `wait()` means done; `wait()` and the destructor return; all is executed |
| `pool_early` | 2 workers, 1 client, 2 handlers | violation: see Findings |
| `channel_all` | 3 getters (1 interruptible), 2 putters of 2 values and of 1, 1 closer | waiter records alive, no idle waiter, order per putter, each value in one place, refinement of `Conduit`, close wakes, values arrive |
| `channel_event` | 2 getters (1 interruptible), 1 putter, 1 closer | violation: see Findings |
| `events_safety` | 2 timers, 2 cancellers, 2 nested guards | thrown once, none in the deepest guard, allowed outside of guards, timers stop with their scope |
| `waiting_calls` | 2 calls of any kind, 2 handlers each | proceeded once, all over, true answers, frames of goWait and Waiters that have waited are alive, every call returns |
| `portal_all` | 2 journeys (1 interruptible), 2 threads of 2 pools | counts of exceptions balance and go wrong only when a Portal is unwound, portals return, exceptions arrive; `waitForAll` returns, when all is over or with as many journeys left as its reads explain |
| `portal_uncaught` | 2 journeys, 2 threads of 2 pools | violation: see Findings |
| `piping_all` | 7 workers (2 load), 6 channels, 6 pages, at most 4 urls | nothing for closed channels, all over at rest, each page once, termination; `Piping` implements `Crawl`, also when the second `wait()` ends early |
| `exchange_all` | 2 connections (1 interruptible client), chars with 8 values, keys of 1, 2, 4, 9 bytes, bodies of 1 and 2 | frames and sockets alive, right answers, complete bodies; gets and handlers end |

Some properties are conjunctions of named parts, each with its own comment in the module:
`IInv` (of which `TypeOK`, `NoDangling` and `VerifyHolds` are consequences, as
`JourneyProofs` shows), `PoolInv` and `CallsReturn` in `ThreadPool`, `ChannelInv`,
`Delivered` and `WaitersReturn` in `Channel`, `EventsInv`, `WaitingInv`, `PortalInv` and
`PortalProgress`, `PipingInv`, `ExchangeInv` and `ExchangeEnds`.

*Bounds.* All bounds are the finite sets of the cfgs and `MaxWaits` (calls of
`ThreadPool::wait`), `PutLimit` (put calls of a putter), `MaxGuards` (guards open at a
time), `MaxCalls` (calls of the parent in `Waiting`; of each journey in `Portal`),
`HandlerCount`, `MaxUrls` (of the program itself), `Counts` (values of a counter in `Portal`),
`Chars` (values of a char in `Exchange`: 8 in the run, 256 in the build) and `Requests`; counters and queues are not capped otherwise.
Journeys are created once each, but run for any number of segments, so queues, threads
and Alones are reused without end.  Two threads are what it takes to meet in one journey;
three journeys for one to wait at the Alone while two compete; two pools, in
`journey_live`, for a teleport to change the threads.  Two workers give `wait()` a late
worker, and two clients a second `wait()` that the late one can spoil.  Three getters let
`close` race with a getter that pushes itself while another is being woken; two values per
putter are what order needs.  Two calls let late children of the first meet the second.
Three calls of a journey open two nested portals and throw inside.  Five pages that match,
one more than the filter lets through and one of them not to be parsed, give two loaders
work at the same time, the cycle of channels something to reject and parseUrl something to
drop.  With 8 chars a key of 1 byte is answered, of 2
makes the size of the answer negative, of 4 its own, of 9 looks like one of 1 and leaves 8
bytes to be taken for other requests.

*Deadlock* is checked except in `channel_all`, where the mutex stays locked after an
event, and in `portal_all`, `piping_all` and `exchange_all`, whose programs come to their
end, or wait for a peer that is silent.

*Fairness.* `Journey!FairSpec`: threads execute, a segment of user code ends (a
journey that never gives up its thread starves others by design), and no queue of a
pool is passed over for ever, asio being FIFO.  Asynchronous operations need not
complete.  `ThreadPool!FairSpec`: workers run and handlers end; strong fairness for the
mutex.  The number of `wait()` calls is bounded: two clients that call it for ever can
starve each other between notification and mutex.  `Channel!FairSpec`: what has been begun
inside the channel is carried on; nobody has to put or to close.  `Waiting!FairSpec`:
journeys are executed and their handlers end; nobody has to call anything, not even
`Waiter::go` or `wait`.  `Portal!FairSpec`: threads take what is queued, scopes and journeys
end, the main thread runs on; nobody has to create, throw or teleport.  `Piping!Spec`:
workers and the main thread run, and a load ends, well or not; no `wait()` need end early.  `Exchange!Spec`: journeys
run and operations that can complete do, at both ends; no HTTP server has to answer.

## 4. Findings

Each is a run that TLC ends with a counterexample to a line of the repository.

- `pool_early`: a worker that gets the mutex only in the next round finds `!work`
  (`mt.cpp:69`), makes a new work object and ends a `wait()` whose handlers are not
  done (README.md:77).  `FirstWaitMeansDone` says what is left of the promise.
- `channel_event`: an event thrown by `deferProceed` inside `get()` leaves the mutex
  locked (`channel.h:143`), and every thread that uses the channel then blocks
  (README.md:14).
- `portal_uncaught`: a Portal that is unwound moves a journey to another thread in the
  middle of an exception, as README.md:282 describes it.  The exception is counted where it
  was thrown and counted down where it is caught, so that one thread keeps +1 and the other
  -1 for ever; for journeys on these threads `handleEvents` (`journey.cpp:83`) never throws
  again, although events are handled "on any asynchronous operation" (README.md:364).

Seen while modelling, and kept out of the properties by their stated conditions:

- `teleport` assigns `sched` before `defer` handles events (`journey.cpp:77`).  A journey
  that catches the event goes on outside of the Alone it is recorded in, and its next
  `teleport(alone)` is skipped.
- `~Timeout` and `~EventsGuard` throw events out of `noexcept` destructors (`core.cpp:100`,
  `core.cpp:198`), and so does `~Portal`: the program terminates.
- A Portal whose constructor throws an event leaves its journey at the destination
  (`portal.cpp:27`).
- goAnyWait and goAnyResult return after the first answer while the loop (`core.cpp:153`)
  and the other children (`core.cpp:155`, `core.h:101-105`) refer to handlers in the
  caller's frame.  A goAnyWait whose handlers all throw never returns (`core.cpp:157`).
- `Goer::reset` overwrites a `cancel()` that comes between its two accesses
  (`goer.cpp:60`); the event of an expired timer is thrown after its scope
  (`core.cpp:197`); the end of an inner EventsGuard enables events inside the outer one.
- Two threads that call `ThreadPool::wait()` again and again can starve each other
  (`mt.cpp:102`); `service.reset()` is called while other workers may not have left `run()`
  (`mt.cpp:72`), which asio forbids.
- The second `wait()` of `closeAndWait` (`data.h:29`) is one that `pool_early` can end.  The
  result is complete nonetheless, but `processing()` may then destroy its channels
  (`data.cpp:235-243`), which are declared after the pool, while journeys still close them.
- Waiters of a channel are woken last in, first out (`channel.h:86`), so that a getter may
  wait for ever while others are served.
- A timeout does not end an operation that is outstanding (`network.cpp:30`): the event is
  thrown when the operation completes, if it does.
- Keys of 128 bytes or more (`client.cpp:78`) get an exception or the answer to another key.
- In `loadContent` chunks end where a segment ends in an empty line (`data.cpp:214`), so a
  header that comes in a segment of its own is the whole response.

## 5. Proofs

A run shows a property on a small instance, a theorem for every number of journeys, threads,
handlers, channels, values.  Each `*Proofs` module states an inductive invariant `IInv`,
proves it with one lemma per action, and derives the properties of the runs from it.  The
constants are assumed to be what the `ASSUME` of the module says, and nothing else, except
where a theorem names one more condition.

| Module | Theorems | Assumed besides the `ASSUME`s |
|---|---|---|
| `JourneyProofs` | `InductiveInvariant`, `TypeCorrect`, `ContinuedOnce`, `NothingLost`, `NothingDangling`, `VerifiesHold`, `CodeIsLocated`, `AloneIsMutex`, `NothingWrittenAfterDelete`, `JourneyImplementsTravel` | - |
| `ThreadPoolProofs` | `InductiveInvariant`, `PoolKeepsRunning`, `FirstWaitIsRight`, `DestructorDrains` | `DestructorDrains`: there is a worker |
| `ChannelProofs` | `InductiveInvariant`, `WaitersAreAlive`, `ValuesAreDelivered`, `ChannelImplementsConduit`, `MutexReleasedWithoutEvents` | the last: no getter is interruptible |
| `EventsProofs` | `InductiveInvariant`, `EventIsThrownOnce`, `NoTimerIsLeft`, `GuardsEnable`, `AllowedOutsideOfGuards`, `DeepestGuardIsQuiet` | the last three: a guard may be opened at all (`MaxGuards > 0`) |
| `WaitingProofs` | `InductiveInvariant`, `ProceededInTime`, `TrueAnswer`, `FrameStaysAlive` | - |
| `PortalProofs` | `WaitInvariant`, `WaitsForAll`, `CountsMeanReturn`, `PortalsWaitForAll`, `PortalsReturnByCount`, `InductiveInvariant`, `ExceptionsAreCounted`, `PortalsReturn`, `OnlyPortalsMiscount` | `OnlyPortalsMiscount`: fewer journeys than a count has values |
| `PipingProofs` | `InductiveInvariant`, `WorkIsDoneOnce`, `NothingIsLeftForClosed`, `EverybodyHasEnded`, `ResultIsComplete`, `PipingImplementsCrawl` | - |
| `ExchangeProofs` | `InductiveInvariant`, `FramesStayAlive`, `GetIsAnswered`, `ContentIsComplete` | - |

*Journey.*  A continuation of a journey has one of three carriers: a queued handler, an
asynchronous operation that holds the proceed handler, a thread that executes the journey.
`IInv` says of each carrier what state its journey is in (`QueuedInv`, `ArmedInv`,
`ExecutedInv`), that carriers exclude one another, that a thread's locals agree with its
place (`ThreadInv`), and where threads are (`PlaceInv`).  `OneContinuation` alone is not
inductive: that a handler taken from a queue leads to a coroutine nobody is inside needs
`running`, and that an exiting thread creates exactly one new carrier needs `started` and
`deferHandler`.  For the refinement of `Travel`, `StageFacts` turns the carriers into the
stage of a journey, which `Travel` keeps as a variable; then a step moves one journey, and
every other stays where it is (`OneMoves`), or none (`QuietSteps`).

*ThreadPool.*  A second `wait()` can be spoilt by a worker that is late out of `run()`
(`pool_early`).  `FirstWait` says why the first cannot: until its handlers are done all
workers are still inside `run()`, and none of them can make a work object.  `Stopping` and
`StoppedDry` order the end: nobody waits any more, nobody makes a work object, the service
stops only when it has no handlers.  That some worker is there to execute them is
`SomebodyRuns`, which a pool without threads does not have.

*Channel.*  `OnePointer` says that there is one pointer at most to a Waiter: on the stack, at
a closer that has taken the stack over, or at who is about to proceed it; `Owned` who has the
mutex; `Contents` what is at the end of a pointer.  `ValuesAreDelivered` needs a stronger
order than it states (`Flow`): what a getter has been handed, in the order of the sequence,
is older than what is in the queue, for each putter.  That no value is missing is `Tracked`:
each is in the queue, handed out or recorded as dropped, and what was dropped is nowhere
else.  `ChannelImplementsConduit` takes a value as
received when its Waiter is popped, so that writing and calling are stutters.
`MutexReleasedWithoutEvents` is the other side of the finding `channel_event`: the event is
the only way to leave the mutex locked.

*Events.*  `Cell` says that what is in the cell, or has been read from it, was accepted and
has not been thrown, whatever the two threads of a race write; `Enabling` that events are
disabled by open guards only, and always by the deepest.

*Waiting.*  `Unshared` and `Done` say when what the children of a call share is destroyed,
or has counted; `Proceeds`, that the parent of the current call is proceeded when it is
done, and for no other.  `Counted` bounds the counter by the handlers that have returned and
`~Counter`, so that late children of an earlier call cannot be first; `Answers` says that
the first to count leaves a true answer.

*WaitForAll and Portal.*  `AllAreOver` is not inductive: that equal counters mean that
nobody is alive needs `created = destroyed + Cardinality(alive)`; and as the counters are
read one after the other, that the number of destroyed journeys seen first is at most what
it is now.  `ReturnsByCount` follows from the same two facts, for either order of the reads.
`PortalsWaitForAll` and `PortalsReturnByCount` carry both over to `Portal`, whose steps move
the counters by the actions of `WaitForAll` only (a lemma, `CountersImplemented`).
`PortalsReturn` is for journeys no event interrupts: for others it is false.  The count of one thread is no invariant, since
a Portal that is unwound spoils it; `Balance` says that all of them add up to the number of
journeys that unwind, modulo `Counts`.  The library's sum is a fold along `CHOOSE`; what it
does when one element changes is proved with the smallest element of a set of natural
numbers instead of an induction theorem.  `OnlyPortalsMiscount` has a condition because a
count of `Counts` values cannot tell `Counts` exceptions from none.

*Piping.*  `Ends` says how the end spreads: nothing is closed before the main thread has
seen all quiet (`Drained`), and who closes has read from a closed channel; so nobody has a
value left for a closed channel, and when all is quiet again the closed channels are a set
that the destinations do not lead out of, all of them by `GraphAssumption`: this is
`EverybodyHasEnded`, which takes nothing from the second `wait()`.  `Data` follows
the values of each page from place to place (`Holds`): between filter and counter there is
one (`Unique`), which says what has been done with its page (`Meaning`), and no page is
forgotten (`Complete`): it was seen by the filter, or is on the way to it, or its content
still is on the way to be searched.  The steps of `Crawl` then are `Filter`, `EndLoad` and
`CountWords`, and `Finish` is the return of the second `wait()`, early or not: since the
first one returned nothing has been on the way, so that `Complete` says that all is done.
`ResultIsComplete` states the same of the main thread's result, without `Crawl`.

*Exchange.*  `Control` says who can still hold the Socket of each end, and which point of its
program each journey is at; `Gets`, which bytes are on their way at each point of a get
(`NothingRead`, `SizeIsRead`, `KeyIsRead`, `SizeIsTold`, `Answered` at the server, and
`ClientSide`); `Loads`, that what was read, what is in the buffer and what is in the stream
are successive parts of the response.  `GetIsAnswered` is for keys that fit a char, of any
size and in any segments: those below half of `Chars` are answered and the others get
nothing wrong, provided that the suffix takes no more than half (`ExchangeAssumption`).

Only model-checked: liveness, which depends on fairness and is out of the prover's reach:
`NoStarvation`, `Executed`, `CallsReturn`, `WaitersReturn`, `Returns`, `PortalProgress`,
`Terminates` and `ExchangeEnds`.  No invariant, action property or refinement of a passing
run is left without a theorem.

## 6. Not modelled

`handleKey` and the caches of `examples/client.cpp`, which combine goAnyResult, Timeout,
EventsGuard and portals, are not modelled as a whole.  Left out: logging
and wording; the GC list, which is sequential; the attachment of global schedulers, a
pointer; the stack and context of a coroutine, which are boost.context's; exceptions
that are not `std::exception`, for which the code has no handler; asio, TCP and DNS,
beyond what their operations may result in; the regular expressions of `examples/data.cpp`;
an operator new that throws; a Waiter that is used again after an event was thrown out of
its `wait()`.
What a C++ data race on the status cell may do beyond reading an old or a new value is
not modelled, nor what an access to a frame that has gone may do.

## 7. Plan

The models are complete in the sense of sections 1 and 6, and the safety properties of all
runs are proved.  What is left:

1. What the modules take from one another is stated, not composed: `Channel`, `Waiting` and
   `Portal` use that a journey resumes once after its deferred handler was called
   (`ContinuedOnce`, `NothingLost`), `Piping` that channels behave as `Conduit`
   (`ChannelImplementsConduit`).  Invariants of `Conduit` and `Travel` that say what a user
   relies on - conservation of values, one stage of a journey - would carry over to
   `Channel` and `Journey` by the refinement theorems.
2. A composition of `handleKey` of `examples/client.cpp`: goAnyResult, Timeout, EventsGuard and
   portals together.
