# Verification of WebFisher

WebFisher is a C++ coroutine library for network servers: fibers (ucontext), an
N-M scheduler, timers, an epoll loop, hooks that turn blocking calls of libc into
waits of a fiber, a socket class on top of them, and a logger. This directory
holds TLA+ models of these parts, the TLC configurations that check them on small
instances, and TLAPS proofs for instances of every size.

    tlc -config MCScheduler.cfg MCScheduler      # one run
    tlc -config MCFormatParser.cfg FormatParser
    tlapm SchedulerProofs.tla                    # one module of proofs

## The system

| Part | State | Operations | Uses |
|---|---|---|---|
| `Fiber` (fiber.h/.cpp) | `state_`, stack, `cb_` | construct, `call`, `yeild`, `MainFunc`, `reset` | `Scheduler::GetMainFiber` |
| `Scheduler` (scheduler.h/.cpp) | `fiber_list_` under `latch_`; `n_active_thread_`, `n_idle_thread_` (atomic); `try_stop_` (plain) | `start`, `stop`, `schedule`, `run`, `idle`, `stopping` | Fiber |
| `Timer`, `TimerManager` (timer.h/.cpp) | `timers_`, `tickled_` under `mutex_`; per timer `ms_`, `next_`, `recurring_`, `cb_` | `addTimer`, `cancel`, `refresh`, `reset`, `getNextTimer`, `listExpiredCb` | callback `onTimerInsertedAtFront` |
| `IOManager` (iomanager.h/.cpp) | `fdContexts_` under `mutex_`; per descriptor `events`, `read`, `write` under its own mutex; `n_pendingEvent_`; the tickle pipe; epoll | `addEvent`, `delEvent`, `cancelEvent`, `cancelAll`, `tickle`, `stopping`, `idle` | Scheduler, TimerManager, epoll |
| Hook (hook.h/.cpp) | thread-local `t_hook_enable`; per call `timer_info` | `sleep`, `socket`, `connect`, `accept`, `read`..., `close`, `setsockopt` | IOManager, timers, FdManager |
| `FdManager`, `FdCtx` (fdmanager.h/.cpp) | `datas_` under `mutex_`; per descriptor its kind, mode and timeouts | `get`, `del`, `setTimeout`, `setNonblock` | fcntl, fstat |
| `Socket` (socket.h/.cpp) | `sock_`, `isConnected_`, `localAddress_`, `remoteAddress_`, without a lock | create, `bind`, `listen`, `connect`, `reconnect`, `accept`, `close`, `cancel...`, `send`, `recv` | hooked calls, IOManager |
| `LoggerManager`, `Logger`, `LogAppender` (log.h/.cpp) | `loggers_`; per logger `appenders_`, `formatter_`, `level_`; per appender `formatter_`, `hasFormatter_`, stream; a `latch_` each | `getLogger`, `log`, `setFormatter`, `addAppender`, `delAppender`, `clearAppenders`, `reopen` | streams, files |
| `LogFormatter`, items, `format_parser` (log.cpp, format.h, util.cpp) | the items of a pattern | parse, `isError`, `format` | |

How the parts interact. Every worker thread runs `Scheduler::run`: take one
fiber from the list, call it, then call the thread's idle fiber, which in an
`IOManager` sleeps in `epoll_wait`, collects expired timers and triggers events.
A fiber that has to wait registers itself with `addEvent` or with a timer and
then yields; the hooks do that for blocking calls, with a condition timer beside
the event when the call has a timeout. The waker calls `schedule`, which puts the
fiber back into the list and tickles a sleeping worker. All threads log.

What is hard here:

- A fiber hands out the reference that wakes it *before* it yields, so it can be
  in the list while it still executes; `state_` is read under `latch_` and written
  outside of it.
- What `epoll_wait` returned is used later, without a lock in between. `epoll_ctl`
  can fail in the middle of an operation.
- A wake-up is a byte in a pipe that is skipped in several situations, and the
  check that ends a worker reads three pieces of state one after the other.
- `timers_` is ordered by a key that is not unique and that changes.
- A timeout, an event and a `close` race for the same waiting fiber, and the kernel
  reuses the descriptor's number.
- Socket objects have no lock, and are shared by fibers of several workers that wait
  inside of their methods.
- A logger takes the latches of its appenders while it holds its own.

`PROJECT.json` lists these hazards one by one, at the line where they bite, with
the properties that watch them.

What makes the parts correct: a fiber runs on one thread at a time, is resumed once
per wake-up and is never forgotten; `stop()` ends, and not before the work is done; a
timer that was added fires and a cancelled one does not; no thread sleeps past the
first deadline; epoll, the table, the counter and the waiters agree; a timed wait
keeps what will end it, and its timeout is told to its own call; a context or an
address that is remembered belongs to the socket at hand; every descriptor has an
owner who closes it; no latch is waited for in vain; a log line is its pattern filled
in.

## Modules

| Module | What it is |
|---|---|
| `Scheduler` | `Scheduler` and `Fiber`: the workers' loop step by step |
| `TimerManager` | `Timer`, `TimerManager`, and the idle threads that sleep until the next deadline |
| `IOManager` | the event table, epoll, and the event half of `IOManager::idle` |
| `EventService` | what the event table promises: the abstract specification `IOManager` implements |
| `FiberPool` | what a pool promises about scheduled fibers: the abstract specification that `Scheduler` and `IOScheduler` both implement |
| `IOScheduler` | the composition: `Scheduler::run` with `IOManager::idle`, `tickle` and `stopping` |
| `Hook` | the hooked calls and `FdManager` as clients of the event table and the timers |
| `Socket` | the socket objects on top of the hooked calls |
| `Logger` | loggers, appenders and their latches |
| `FormatParser` | the pattern language of the log lines, as functions |
| `MC...` | the instances TLC checks, with symmetry where only safety is checked |
| `SchedulerProofs`, `TimerManagerProofs`, `IOManagerProofs`, `IOSchedulerProofs`, `HookProofs`, `SocketProofs`, `LoggerProofs` | theorems about the module of the same name |
| `ListFacts` | lemmas about sequences that the proofs share |

Operators whose comment says *Mutant of X* are altered versions of X. They are
used by no specification; putting one in the place of X must make TLC report
the property that `PROJECT.json` pairs with it, which shows that the property
depends on that piece of the code.

### Scheduler

`pc[t]` is the position of worker `t` in `run()`; a step is what lies between
two accesses to shared state. `latch` holds the owner of `latch_` where it is
kept across steps: `start()` keeps it while it creates the threads, and the scan
reads `state_` of one list element per step, because a running fiber's worker
changes `state_` without the latch. `schedule()` is one step.

What fibers compute is abstract. A running fiber may schedule new callbacks and
fibers it holds, hand itself to a waker (`Arm`, then `Yeild`), finish, or throw.
`waiting` is the set of fibers a waker holds; `ScheduleFiber` is the waker's
call, `ScheduleEnded` that of a client that schedules a finished fiber once more.
`Yeild` leaves `state` alone, as the code does: the fiber stays `EXEC` until
`run()` writes `HOLD` (`Settle`).

`READY` is handled by `run()` and therefore by `Settle`, but nothing in the
library sets it. `try_stop_` is a plain bool read by other threads; each read
sees its current value. That `start` runs once and before `stop` is an assumption
about the owner (`IOManager` calls it in its constructor).

`FiberPool` is what a caller of `schedule()` and `stop()` sees: a fiber is new,
queued, running on one thread, waiting or done; threads leave; the last one leaves
no work behind. `ImplementsPool` maps the scheduler to it. A fiber that is armed
counts as waiting although it still executes, since its waker may already schedule
it. A finished fiber that is scheduled once more is not queued: `run()` takes it
and drops it, which the pool does not see. `late` is the scheduler's own; `gap` is
TRUE, because `stopping()` of this class never looks at fibers that wait.

### TimerManager

`timers` is the `std::set`. `Find` and `Insert` follow `Comparator`: they see the
deadline only, so `Insert` refuses a second timer with the same deadline and
`Find` may return another timer than the one asked for. Each locked section is
one step; the constructor's reading of the clock and the first comparison in
`reset()` are steps before it. `NextTimer` subtracts modulo `Wrap`, which stands
for 2^64. `erase(end())` sets `undefined`, after which nothing is claimed.

An idler goes through `run()`'s idle call: ask for the next deadline, sleep until
it or until the pipe is readable, collect the expired timers, read the pipe empty.
The pipe is registered edge-triggered, so one sleeper gets each event. Other work
of the thread is the position `busy`. The variables `fired`, `aliased`, `advanced`
and `undefined` are history.

### IOManager and EventService

`events`, `ctx` and `n_pending` are the fields of the code; `kernel` is what epoll
was told. Every operation holds the descriptor's mutex from its first to its last
access to the entry, so each is one step, with its outcomes as separate actions:
`addEvent` succeeds, returns -1 after a refused `epoll_ctl` (`addEventFails`) or
fails an assertion (`addEventAborts`). `EpollWait` and the handling of each
returned descriptor are separate steps: in between, everybody else may run. An
`EventContext` is its variant index and whom it refers to. `failure` records the
assertion or null dereference that ended the program.

`epoll_ctl` is modelled from its use: `ADD` needs an unknown descriptor, `MOD` and
`DEL` a known one, and it may refuse an `addEvent` for reasons of its own up to
`MaxRefused` times. When it refuses in `delEvent`, `cancelEvent` or `cancelAll`,
these return false and change nothing, which is a stuttering step.

Clients add an event only if, as far as the results they got tell, nobody is
registered for it: two readers of one descriptor are a misuse that `addEvent`
asserts against. `reg` is the history of what the clients know, and it is what
`EventService` speaks of: a waiter registers for an event nobody waits for, an
event releases exactly the waiters of the events that occurred or were cancelled,
and the number `stopping()` looks at is the number of waiters. After a refused
registration only that a released waiter was waiting remains. `ImplementsService`
says that `IOManager` under the mapping `reg`, `n_pending`, `refused > 0`
implements it.

### IOScheduler

Jobs are fibers; `place` says where each one is: outside, in the list, on a
worker, waiting for an event or a timer, ready in epoll, in a worker's hands, done.
`exec` is the worker on whose stack a job still is after it began to wait; the scan
of the list skips such a job (`Takable`), so a scan may find nothing in a list that
is not empty. `pc[w]` follows `run()` and `idle()`; the three reads of `stopping()`
are three steps, `schedule()` and the `tickle()` it owes are two, `triggerEvent` and
`--n_pendingEvent_` are two. An expired timer goes its whole way: taken out of
`timers_` (`"cbs"`), its callback a fiber in the list (`"cblist"`), which runs
(`"waking"`) and schedules the sleeper. The pipe is one edge-triggered bit. Time is
left out: a timer becomes due at some moment, `epoll_wait` may time out at any moment,
and any two timers may have one deadline. Then `timers_` does not take the second one
(`JobAwaitsTimer`), or the `cancel()` of one erases the other (`CancelErases`), and
the job is `"stranded"`: it waits for a timer that is not there.
`Signalled` workers may be interrupted once; their `errno` stays `EINTR`, as
nothing in `idle()` resets it, and from then on they discard what `epoll_wait`
returns. `epoll_ctl` may refuse in `idle()` (`TriggerRefused`), which loses the event
as well; it refuses no `addEvent` here, as `IOManager` and `Hook` have what follows
from that. `slipped` marks the moments in which a job began to wait between the
reads of somebody's check.

`ImplementsPool` maps this module to the same `FiberPool`: what is said of a
`Scheduler` is true of the `IOManager` that stands in its place. Jobs that wait for an
event or a timer, and expired callbacks on their way, are waiting; `gap` is `slipped`
or that some job is stranded, so here the last worker leaves no waiting job behind
either, unless one slipped or lost its timer. `FiberPool` puts its condition on the
last thread alone: a worker may leave while another one still holds expired callbacks,
which no read of `stopping()` covers, and the worker that holds them schedules them
before it can leave.

### Hook

`sock` is the kernel: which socket, by serial number, is behind each descriptor
number. `datas` is `FdManager::datas_`, each context with the socket it was made
for. `table` and `armed` are the event table and epoll, reduced to who waits.
`call`, `timer` and `cancelled` are the locals of `do_io` and
`connect_with_timeout`. The condition timer is added before `addEvent`; it may be
lost, when `timers_` has its deadline already or another `cancel()` erases it by that
deadline (`CallBlocks`, `CancelTimer`). `fired` are the callbacks that `listExpiredCb`
took out. Each runs on some worker in three steps, without a lock: look at `winfo` and
`cancelled`, set `cancelled`, `cancelEvent`. When the call returns, callbacks that have
not begun find `winfo` empty; one that has begun holds the `timer_info` and goes on
(`Returned`), and its `cancelEvent` finds whoever waits by then. `epoll_ctl` refuses an
`addEvent` for a closed descriptor, and for reasons of its own; the event stays in the
table, the next registration on the descriptor arms it, and what it then wakes may be
executing or waiting for something else (`extra`, `ResumedAgain`). `close` is three
steps: `cancelAll`, `del`, `close_f`. `PlainSocket` and `PlainClose` are calls of
threads that are not hooked, which share the descriptors and have no contexts. Programs
keep to one fiber per socket and event; a call on a socket that was closed meanwhile may
still be on its way when the number is reused and called for again. `call[f].sock`, the
socket a call was made for, `woke[f]`, what ended its wait, and `refused` are history.
`cancel()` of an expired timer erases that of another call or does nothing here;
`hook_timeout` shows where that undefined call is made.

`do_io` waits only when the context says blocking, which takes a call of
`setNonblock(false)`: `FdCtx::init` sets `nonblock_` for every socket.

### Socket

The objects' four fields against the kernel's sockets. A descriptor number is given out
again once it is free; a kernel socket is known by its serial number, its name is
unbound, `INADDR_ANY` with a port, or the address it really uses, and `connect` turns
the second into the third. The class has no lock, and fibers of one `IOManager` run on
several threads, so a member function is a sequence of steps with one system call or one
access to `sock_` each: the test of `isValid()`, `newSock`, the second test, the system
call, the wait, the result; `::close(sock_)` and `sock_ = -1`; `getsockname` and the
assignment to `localAddress_`. `busy[f]` is the function fiber `f` is in. The hooked
`connect` can go on in three ways (`Established`, `WokenSucceeds`, `ConnectFails`): its
connection is there; somebody cancelled or closed, or `addEvent` was refused, and
`SO_ERROR` is 0 while the connection is still being made; an error or the timeout.
`send` and `recv` change nothing of the object; the guard they use, `isConnected_`, is
in `Transfers`.

Two fibers that run inside one object at the same time can do anything to it: make two
sockets and forget one, close a number twice, close somebody else's. The model reaches
these states and marks them `torn`; the properties then say nothing, which is the
discipline a program must keep: fibers may share an object across the waits of
`connect` and `accept`, not otherwise.

`accept` of the hooks makes a context on every thread, hooked or not, so `init` always
takes the new descriptor.

### Logger

Loggers and appenders have a latch each. Appender latches are held around code
that takes no other latch, so those sections are single steps; the sections of a
logger have one step per appender. `thread[t]` is where a thread is. `broken`
records undefined behaviour: a null formatter that is dereferenced, `erase(end())`
in `delAppender`. A stream is open or not, and failed or not; opening and writing
may fail.

### FormatParser

`Scan` is the inner loop of `format_parser`, `Parse` the outer one, `Written` and
`format` are `LogFormatter` with its items. The only variable enumerates patterns.
The reference is independent of the parser: for `RendersAsWritten` an event whose
fields read as their directives, so that the line must be the pattern itself; for
`RefusedExactly` a description of unknown names by quantifiers. Both leave out patterns
with `%%`, of which the code makes something else than the comment on the language says
(`//%xxx %xxx{xxx} %%`, log.cpp:272): it writes one sign and reads the second one as the
start of a directive, so that the pattern `%%` is refused and `%%m` writes a sign and the
message. A time format whose result does not fit `buf[64]`
(longer than `BufSize` here) writes what `buf` held, and nothing is said about it.

## Runs

| Run | Expectation | What it shows |
|---|---|---|
| `scheduler` | pass | safety of the workers' loop; fibers are taken; `stop()` drains and returns; it implements `FiberPool` |
| `timers` | pass | cancel sticks, a one-shot timer fires once, timers are lost only through equal deadlines, undefined calls need an expired timer, no wake-up is lost unless `refresh()` moved a deadline closer |
| `timer_equal` | violation of `Managed` | of two timers with one deadline only one is kept |
| `events` | pass | table, epoll, counter and waiters agree with stale epoll results and refused registrations; the table implements `EventService` |
| `events_stale` | violation of `TriggerPre` | two workers: an event that is gone is triggered |
| `io_scheduler` | pass | no job is lost or doubled in the pool, each goes on, `stop()` ends with nothing left; it implements `FiberPool` |
| `hook` | pass | contexts and timeouts stay with their socket and call across close and reuse; waiters and epoll agree, also when `epoll_ctl` refuses; a timed wait keeps what will end it; `connect` does not succeed after its timeout; what makes `addEvent` abort |
| `hook_timeout` | violation of `CancelDefined` | a timed-out call cancels the timer that fired: `erase(end())` |
| `socket` | pass | two fibers and two objects: descriptors are owned once, the connected flag and both addresses are true, and a failed connect closes its own socket |
| `logger` | pass | latches progress, formatters are present and kept, streams are usable |
| `logger_set_formatter` | violation of `SetFormatterReturns` | `Logger::setFormatter` waits for itself |
| `format` | pass | lines are the pattern filled in; exactly unknown directives are refused |

The violations are disagreements between the code and its own comments and
assertions; `PROJECT.json` quotes both under "findings".

Many properties name exceptions: they are the places where the code does not do
what one would like, and the property says that there are no others. They are:

- `addTimer` of an equal deadline drops a timer (`LostOnlyByAliasing`), and
  `refresh()` of a timer that has fired takes out the one that shares its deadline and
  puts the fired one back (`FiresOnce`); a deadline that has passed makes the unsigned
  difference of `getNextTimer` wrap (`SleepsUntilFront`); `refresh()` after `reset(ms,
  false)` does not tickle (`WakesUnlessAdvanced`).
- A refused `addEvent` leaves its event in the table; a callback or `delEvent`
  leaves a context that the next `addEvent` asserts against (`AddAborts`); a
  cancel from a thread that is no worker dereferences null (`CancelOutside`).
- `stopping()` may miss a job that begins to wait between its reads
  (`StopLeavesNothing`); a stale `EINTR`, or `epoll_ctl` refusing in `idle()`,
  discards events for good, and a timer whose deadline another one has may be dropped
  by `addTimer` or erased by the other's `cancel()` (`EveryJobGoesOn`,
  `ImplementsPool`). Workers can sleep `MAX_TIMEOUT` with work in the list; the
  timeout is all that wakes them then.
- A timer that fires before `addEvent`, or late into the next wait of the same
  call, leaves a wait without timeout, as does one that is lost to an equal deadline
  (`TimedWaitsGuarded`). An event registered
  between the `cancelAll` and the end of a `close` stays behind; its fiber hangs,
  and the next user of the number runs into an assertion, as does a call on a closed
  socket that meets one on its successor, or who meets the event of a refused
  `addEvent` (`AbortsOnlyByOrphan`). A fiber that was refused can be woken before its
  time (`WaitersMatchEpoll`). A
  close by an unhooked thread leaves the context for the next socket
  (`ContextIsCurrent`). A late timeout can end the wait of another fiber once the
  number is reused, or when its callback had begun before its call returned
  (`ConnectHonest`). The comment at hook.cpp:214 says that the callback returns then;
  it holds the `timer_info` it locked, and nothing keeps the call from returning between
  that test and `cancelEvent`.
- A `connect` that is woken by `close` or `cancelWrite`, or whose `addEvent` was refused,
  reports success, since `SO_ERROR` is 0 (`ConnectedHonest`); a failed `connect` closes
  what the object has by then (`ClosesItsOwn`); the local address is cached across
  sockets, and `bind` caches `INADDR_ANY` (`LocalIsCurrent`); all four properties of
  `Socket` except fibers that meet inside one object (`torn`).
- The null formatter, given by a client, is dereferenced by the next line
  (`FormatterPresent`); `addAppender` may overwrite a formatter set meanwhile
  (`OwnFormatterKept`); after a failed write `reopen()` answers true and changes
  nothing (`StreamsUsable`).
- An unclosed `{` is accepted and writes `<<pattern_error>>` (`RefusedExactly`).

### Bounds

- `scheduler`: two workers, two fibers. Every race in `run()` is between two
  workers over one fiber, with a second fiber to keep the other worker busy or to
  be the waker. No symmetry, because of the temporal properties.
- `timers`: two timers (equal deadlines need two), one of them recurring, two idlers
  (a tickle may wake the wrong one), periods 1 and 2, `MaxTime` 2 for the clock, so
  that a timer can be overdue when a thread asks for it, one `reset()` in its unlocked
  part (`MaxCalls`). `timer_equal` has one idler and `MaxTime` 3. `Wrap` (16) is
  larger than any deadline.
- `events`: three workers, an outside thread, three fibers and one callback on
  descriptor 40, which lies beyond the initial 32 entries; two refused
  registrations (`MaxRefused`), so that a refused one can meet a retry.
  Descriptors do not interact in the code except through the table's size.
- `io_scheduler`: two workers, one of which may be interrupted, and two jobs, both of
  which may sleep, so that deadlines can be equal, and one of which may read; each may
  schedule the other. The pool's races are between a worker that goes to sleep or ends
  and one other party.
- `hook`, `hook_timeout`: two fibers and descriptor 64, the first one beyond
  `datas_`, two sockets (`MaxSockets`): one number that is reused once is what stale
  contexts and late timeouts need. One callback of each fiber may be on its way
  (`MaxOut`): a second one of the same fiber would belong to a later wait, and differs
  from the first only in being late. `epoll_ctl` refuses one fiber once (`MaxRefused`),
  and the constraint `OneOrTheOther` leaves out what follows a refusal and a second
  socket together. The theorems have none of these bounds.
- `socket`: two objects, two fibers, two descriptor numbers and two kernel sockets, so
  that one object gets the number the other has just closed, and one fiber closes and
  connects again while the other waits in `connect`; one address of the right family and
  one of another, which is passed as long as there is one kernel socket
  (`FamiliesApart`). What follows a torn state is explored with one object and one kernel
  socket (`TornIsSmall`): `torn` is never reset, and the properties hold of every state in
  which it is true.
- `logger`: two threads, two loggers, their appenders and a file appender,
  `MaxCalls` calls altogether and `MaxListed` appenders per logger. A third thread
  would only wait behind one of the two.
- `format`: patterns up to seven characters over a letter of a known item, `d`, an
  unknown letter, a dot and the three special signs: room for two directives with text
  between them, or a date with format and text around it. Time formats fit up to two
  characters (`BufSize`).

Deadlock is checked in `scheduler`, `timers`, `events` and `io_scheduler`;
`Terminated`, `Undefined`, `Ended` and `Joined` are the only states of these in
which nothing else may happen. The other runs may stop: in `hook` a fiber that lost
the race with a close waits for ever, in `logger` a thread that waits for itself
does, and both as well as `socket` and `format` have a bound on what is made.

### Fairness

`Scheduler`: a worker that can take a step takes it (threads are scheduled by the
operating system). Getting `latch_` is strongly fair: `std::mutex` promises no
order, but every competitor sleeps a second in `idle()` between two acquisitions.
A fiber that is resumed again and again ends at some point (strong fairness on
`MainFunc`), which is an assumption about the user's callbacks. Nothing is assumed
about the owner, the clients or the wakers.

`IOScheduler`: weak fairness of each worker, `epoll_wait` included, which returns
after at most `MAX_TIMEOUT`. Nothing is assumed about events, timers, signals or
the owner. `StopReturns` has "all jobs are done at some point" as its hypothesis.

`Hook`, `Socket` and `Logger` assume nothing. That a timed wait ends is more than
`TimedWaitsGuarded` says: it takes that time passes and that the callback, which is then
scheduled, runs, as `EveryJobGoesOn` says of the pool.

## Proofs

All theorems hold for any number of workers, fibers, timers, descriptors and
waiters, under the assumptions named next to the CONSTANTS: finite thread and
descriptor sets, at least one thread in a pool, natural numbers for times and
descriptors, names of different kinds of things distinct. Each module proves that
an invariant `IInv` holds initially, is kept by every action (one lemma per action
or per group of actions with the same effect), and implies the properties. TLC
checked each `IInv` on the instance of its run before it was proved. The type
invariants (`TypeOK`), `QuietOnceStopping` and `TableHoldsFds` are parts of these
invariants that no run repeats: the theorems `TypeCorrect`, `QuietAfterStop` and
`TableIsLargeEnough` state them for every size.

`SchedulerProofs`. `OneThreadPerFiber` and `NoFiberLost` are not inductive: they do
not say in which state a fiber is while a worker holds it. `IInv` adds `HeldState`
(the worker's position determines `state_`), `HeldOnce` (no two workers hold one
fiber), `QueuedState` (what is scheduled was constructed, what is with a waker has
been started and has not finished), `ListedHeld` (a fiber that is listed while a
worker still holds it was woken before its `yeild()`), `CountInv` (the counters are
the numbers of workers at certain positions, by cardinality) and `ExitInv` (workers
leave `run()` only after their idle fiber ended). `StopDrains` rests on
`QuietOnceStopping`: from the first idle fiber that ends, list and workers are quiet.
The key step is `Idle`: `stopping()` sees the counter at zero, so no worker is between
taking a fiber and `--n_active_thread_`, and behind the decrement the fiber is
finished or with a waker. `SchedulerImplementsPool` maps each step to a step of
`FiberPool` or to a stutter. It needs `IInv` for the places (a fiber that is taken
leaves the list and is held by nobody else, one that ends was running),
`QuietOnceStopping` for the last thread that leaves, and one more invariant,
`LateAfterStop`: something is late only after `stop()` was called.

`TimerManagerProofs`. `IInv` adds to the types that constructed timers have their
callback and that pending `reset()` calls refer to live timers. `Replace` is the
lemma shared by `refresh()` and `reset()`: what find-erase-insert does to the set
and its order. `WInv` is the invariant behind `WakesUnlessAdvanced`: besides the
property it says that no sleeper sleeps past the deadline it was told, and that a
tickle that was sent is still in the pipe or with a thread that will ask for the
next timer again (`TickleArrives`). It is needed because `tickled_` suppresses
tickles: the proof has to know that the suppressed one is still on its way.
`FiredInv` is behind `FiresOnce`: a timer that has fired was added before, so it does not
enter the set as a new one; and what `Find` returns for a timer outside of the set has
its deadline, which then was shared, so `refresh()` and `reset()` put nothing back.

`IOManagerProofs`. `TableSteps` reduces `Next` to four kinds of steps on the
table. `NoWaiterLost` is inductive with the types alone and needs nothing about
`epoll_ctl`. `KernelMatchesTable`, `NoGhost` and `PendingCounts` are inductive
together as long as no registration is refused: epoll then always gets the
operation it expects, and each event in the table has one waiter. `AddAborts`
follows from the contexts fibers leave behind. `EventTableImplementsService` maps
each step to a step of `EventService` or to a stutter; `WaiterCount` is the lemma
that the events in the table are as many as the waiters. `TableIsLargeEnough` needs
the 32 entries of the constructor: `fd * 1.5` lies beyond `fd` only from 2 on.

`IOSchedulerProofs`. `OncePerJob` needs the list as a set as well as a sequence
(`Listed`: injective, and its elements are the jobs at `"list"`) and what a worker
has in hand (`Hands`: a running job and its worker determine each other, expired
callbacks belong to a worker that handles them). `PendingCovers` is an inequality
and not inductive; `Counted` is the equation behind it, the waiting jobs plus the
workers between `triggerEvent` and the decrement. `StopLeavesNothing` rests on
`Checks` (what a worker has read of `stopping()` so far is still true, unless
something slipped) and `Ended` (where workers whose idle fiber ended may be, and that
nothing is left once all have). The key step is `NothingLeft`: the last worker to
pass `stopping()` sees an empty list and no active worker, so no job runs; all others
have ended, so none of them holds expired callbacks; and its own earlier reads say
that nothing waits. `IOManagerImplementsPool` reads the list as the set of the jobs at
`"list"` and shows that most steps of a worker move no job (`PoolSame`); `PoolIdleCall` is
the step out of `run()`, where `Ended` gives the condition of the last worker.

`HookProofs`. `Held` says who holds a number (the program, or the one fiber that opens
or closes it), `Contexts` that a context is gone before `close_f` gives the number
back, `Watching` that table and epoll agree and that a fiber behind a watched event
waits for it or was refused, `CallsApart` that two calls on one number and event are
for different sockets, `Timers` that a timer belongs to a wait and a callback that
still owns its `timer_info` to a call that has not returned, `WokenBy` that a fiber
woken by its timeout has `cancelled` set and that no wait was ended by a timer that
had no business with it. `ConnectHonest` comes down to `Timers`: a callback that has
not begun dies with its call, one that has is late, and one whose call goes on is put
on another socket by `CallsApart`. `TimeoutsAreOwn` follows from `Timers` too: the
mark is set through a `timer_info` that is the call's own, and `Returned` takes it
away from the callbacks that go on. `AbortsOnlyByOrphan` is inductive beside these.
`TimedWaitsGuarded` has an invariant of its own on top, `Guards`: a timer that was
taken out has a callback on its way as long as the call is not marked, and a marked
call that is not yet woken has a callback that is about to cancel. When that one
cancels, `Watching` says that it finds the fiber if no close got between
(`GuardsCallbacks`).

`SocketProofs`. The invariant is `Types`, `Dead` (an object that does not exist is as
new, and a fiber in a member function has an object that exists) and, as long as nothing
is torn, `Sound`. Its part `Owners` relates objects and open numbers one to one, except
in the moment between `::close(sock_)` and `sock_ = -1`. `SoundAt(s)` says of one object
that at most one fiber is inside it (`Alone`), what that fiber's place says of `sock_`
(`Places`), that a waiting `connect` has its socket still unless the object was closed
(`Waits`), that what a `connect` is about to report is true (`Pends`), and the two
properties about addresses (`Honest`, `Current`). The step lemmas are about one object
and leave the others alone (`Local`); the exceptions are the steps that take or free a
number, where `Owners` says that it is nobody else's. `Inductive` states the three facts
together, and a step that makes `torn` true owes nothing but `Types` and `Dead`.

`LoggerProofs`. `LatchInv` says who is behind a latch: a logger's latch is held by a
thread inside a call on that logger, an appender's latch is kept only by a thread
that `setFormatter` stopped. `LatchesProgress` follows by the order of latches (a
logger's before an appender's), without induction on the length of a chain of
waiting threads. `FormatterInv` extends `FormatterPresent` to appenders a thread is
about to log to that are no longer in the list. `OwnFormatterKept`, an action
property, needs what a thread at `"fill"` has seen.

Only model-checked:

- the temporal properties `EveryFiberIsTaken`, `StopReturns` and `EveryJobGoesOn`:
  liveness under fairness is out of TLAPS' reach;
- `RendersAsWritten` and `RefusedExactly` of `FormatParser`: they say what recursive
  operators compute, which takes an induction over the pattern, and the back ends
  of TLAPS do not instantiate the induction theorems.

## Not modelled

- `Address`, streams, `dump()`, operators `<<`: text. `toYamlString` is commented out
  in the source. `Singleton`: one static.
- Socket options and timeouts beyond what `setsockopt` does to `FdCtx`.
- Fiber stacks, contexts and ids; `Fiber::reset`, which the library never calls;
  the destructor's assertion on `state_`.
- `LogEvent` and `LogEventWrap`: the data of one line, owned by one thread.
- Jumps of the wall clock that `GetCurrentMS` reads.
- Data races on the members of a `Socket` that are `shared_ptr`s (`localAddress_`,
  `remoteAddress_`); a connection that the kernel completes after `connect` was woken by
  a cancel or a refused `addEvent` and has returned.
- What happens to the program after undefined behaviour or a failed assertion.

socket.cpp is not in build/makefile and includes headers that are missing at this
commit; it is modelled from its text.

## What could follow

An abstract specification of a hooked call (it ends once, with the result of its own
socket) would put `Hook` beside `EventService` and `FiberPool`. `ContextIsCurrent` and
`AbortsOnlyByOrphan` name the exceptions it would have to allow for: what unhooked
threads and calls on closed sockets can do.
