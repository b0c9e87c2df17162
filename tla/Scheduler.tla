----------------------------- MODULE Scheduler -----------------------------
(***************************************************************************)
(* The N-M fiber scheduler: Scheduler (scheduler.h, scheduler.cpp) and the *)
(* Fiber objects it switches between (fiber.h, fiber.cpp).                 *)
(*                                                                         *)
(* Every worker thread executes Scheduler::run: scan fiber_list_ under     *)
(* latch_, call() the first fiber that is not EXEC, settle its state when  *)
(* it comes back, then call() the thread's idle fiber.  Fiber::state_ is a *)
(* plain field read by the scan under latch_ and written outside it, so    *)
(* the scan is modelled one list element per step with latch_ held.        *)
(*                                                                         *)
(* What the fibers compute is abstract: a running fiber may schedule       *)
(* callbacks and other fibers, hand a reference to itself to a waker (an   *)
(* event, a timer, another fiber) and yield, finish, or throw.             *)
(***************************************************************************)
EXTENDS Integers, Sequences, SequencesExt, FiniteSets

CONSTANTS
    Threads,    \* the worker threads, n_thread_ of them
    Fibers,     \* the Fiber objects that can be constructed
    Client,     \* a thread outside the pool that uses the scheduler
    NoThread,   \* latch_ is free
    NoFiber     \* an empty FiberRef

ASSUME ThreadsAssumption ==
    /\ IsFiniteSet(Threads)
    /\ Threads # {}
    /\ Client \notin Threads
    /\ NoThread \notin Threads \cup {Client}
    /\ NoFiber \notin Fibers

VARIABLES
    state,            \* Fiber::state_; "none" before the constructor ran
    fiber_list,       \* fiber_list_
    latch,            \* the thread that holds latch_ across steps, or NoThread
    it,               \* the iterator of the scan in run()
    pc,               \* where each worker is in run()
    fbr,              \* the local variable fbr of run()
    idle_state,       \* state_ of each worker's idle fiber
    n_active_thread,  \* n_active_thread_
    n_idle_thread,    \* n_idle_thread_
    try_stop,         \* try_stop_
    main,             \* progress of the owner through start() and stop()
    waiting,          \* fibers whose reference is held by a waker
    late              \* history: something was scheduled from outside after stop()

workerVars == <<pc, fbr, idle_state, n_active_thread, n_idle_thread>>
ownerVars  == <<try_stop, main>>
vars == <<state, fiber_list, latch, it, workerVars, ownerVars, waiting, late>>

FiberState == {"none", "INIT", "HOLD", "EXEC", "TERM", "READY", "EXCEPT"}
Finished   == {"TERM", "EXCEPT"}

\* Positions in run(): "lock" and "scan" are the loop head (91-102), "check"
\* and "call" 104-106, "fiber", "armed" and "ended" inside the fiber, "ret" and
\* "settle" after call() returned, "idlecheck", "idle", "idleret" 120-130.
PC == {"unborn", "lock", "scan", "check", "call", "fiber", "armed", "ended",
       "ret", "settle", "idlecheck", "idle", "idleret", "done"}

Holding(t) == pc[t] \in {"check", "call", "fiber", "armed", "ended", "ret", "settle"}
Counted(t) == pc[t] \in {"check", "call", "fiber", "armed", "ended", "ret"}
Unarmed(t) == pc[t] \in {"check", "call", "fiber"}
OnStack(t) == pc[t] \in {"fiber", "armed", "ended"}

Listed == ToSet(fiber_list)

TypeOK ==
    /\ state \in [Fibers -> FiberState]
    /\ fiber_list \in Seq(Fibers)
    /\ latch \in Threads \cup {Client, NoThread}
    /\ it \in Nat \ {0}
    /\ pc \in [Threads -> PC]
    /\ fbr \in [Threads -> Fibers \cup {NoFiber}]
    /\ idle_state \in [Threads -> {"INIT", "HOLD", "EXEC", "TERM"}]
    /\ n_active_thread \in Nat
    /\ n_idle_thread \in Nat
    /\ try_stop \in BOOLEAN
    /\ main \in {"created", "starting", "started", "stopping", "joined"}
    /\ waiting \in SUBSET Fibers
    /\ late \in BOOLEAN

Init ==
    /\ state = [f \in Fibers |-> "none"]
    /\ fiber_list = <<>>
    /\ latch = NoThread
    /\ it = 1
    /\ pc = [t \in Threads |-> "unborn"]
    /\ fbr = [t \in Threads |-> NoFiber]
    /\ idle_state = [t \in Threads |-> "INIT"]
    /\ n_active_thread = 0
    /\ n_idle_thread = 0
    /\ try_stop = FALSE
    /\ main = "created"
    /\ waiting = {}
    /\ late = FALSE

-----------------------------------------------------------------------------
(* The owner: start() keeps latch_ while it creates the threads; stop()    *)
(* raises try_stop_, tickles (a log line in this class) and joins.         *)

Start ==
    /\ main = "created"
    /\ latch = NoThread
    /\ ~try_stop
    /\ latch' = Client
    /\ main' = "starting"
    /\ UNCHANGED <<state, fiber_list, it, workerVars, try_stop, waiting, late>>

Spawn(t) ==
    /\ main = "starting"
    /\ pc[t] = "unborn"
    /\ pc' = [pc EXCEPT ![t] = "lock"]
    /\ UNCHANGED <<state, fiber_list, latch, it, fbr, idle_state,
                   n_active_thread, n_idle_thread, ownerVars, waiting, late>>

StartDone ==
    /\ main = "starting"
    /\ \A t \in Threads : pc[t] # "unborn"
    /\ latch' = NoThread
    /\ main' = "started"
    /\ UNCHANGED <<state, fiber_list, it, workerVars, try_stop, waiting, late>>

Stop ==
    /\ main = "started"
    /\ try_stop' = TRUE
    /\ main' = "stopping"
    /\ UNCHANGED <<state, fiber_list, latch, it, workerVars, waiting, late>>

\* Mutant of Join: stop() returns without waiting for the threads.
JoinNobody ==
    /\ main = "stopping"
    /\ main' = "joined"
    /\ UNCHANGED <<state, fiber_list, latch, it, workerVars, try_stop, waiting, late>>

Join ==
    /\ main = "stopping"
    /\ \A t \in Threads : pc[t] = "done"
    /\ main' = "joined"
    /\ UNCHANGED <<state, fiber_list, latch, it, workerVars, try_stop, waiting, late>>

-----------------------------------------------------------------------------
(* schedule(): called by a client thread or by the fiber running on a      *)
(* worker.  The list is only touched under latch_, so lock, push_back and  *)
(* unlock are one step.                                                    *)

MayCall(a) ==
    \/ a = Client /\ main # "joined"
    \/ a \in Threads /\ pc[a] = "fiber"

schedule(a, f) ==
    /\ MayCall(a)
    /\ latch = NoThread
    /\ fiber_list' = Append(fiber_list, f)
    /\ late' = (late \/ (a = Client /\ try_stop))

\* schedule(cb): a new Fiber is constructed for the callback.
ScheduleCb(a, f) ==
    /\ state[f] = "none"
    /\ schedule(a, f)
    /\ state' = [state EXCEPT ![f] = "INIT"]
    /\ UNCHANGED <<latch, it, workerVars, ownerVars, waiting>>

\* schedule(fiber) by the waker that holds the reference; it lets go of it.
ScheduleFiber(a, f) ==
    /\ f \in waiting
    /\ schedule(a, f)
    /\ waiting' = waiting \ {f}
    /\ UNCHANGED <<state, latch, it, workerVars, ownerVars>>

\* schedule(fiber) by somebody who kept a FiberRef of a fiber that has ended:
\* run() takes it and drops it.  Bound: one such reference at a time, and
\* none after stop() was called.
ScheduleEnded(a, f) ==
    /\ ~try_stop
    /\ state[f] \in Finished
    /\ f \notin Listed
    /\ \A t \in Threads : fbr[t] # f
    /\ schedule(a, f)
    /\ UNCHANGED <<state, latch, it, workerVars, ownerVars, waiting>>

-----------------------------------------------------------------------------
(* Scheduler::run on worker t.                                             *)

Lock(t) ==
    /\ pc[t] = "lock"
    /\ latch = NoThread
    /\ latch' = t
    /\ it' = 1
    /\ pc' = [pc EXCEPT ![t] = "scan"]
    /\ UNCHANGED <<state, fiber_list, fbr, idle_state, n_active_thread,
                   n_idle_thread, ownerVars, waiting, late>>

\* Mutant of Executing: the scan takes whatever is first.
ExecutingIgnored(f) == FALSE

\* The test of the scan: such a fiber is left in the list.
Executing(f) == state[f] = "EXEC"

\* The element under the iterator is executing somewhere: leave it in place.
ScanSkip(t) ==
    /\ pc[t] = "scan"
    /\ it <= Len(fiber_list)
    /\ Executing(fiber_list[it])
    /\ it' = it + 1
    /\ UNCHANGED <<state, fiber_list, latch, workerVars, ownerVars, waiting, late>>

ScanTake(t) ==
    /\ pc[t] = "scan"
    /\ it <= Len(fiber_list)
    /\ ~Executing(fiber_list[it])
    /\ fbr' = [fbr EXCEPT ![t] = fiber_list[it]]
    /\ fiber_list' = RemoveAt(fiber_list, it)
    /\ n_active_thread' = n_active_thread + 1
    /\ latch' = NoThread
    /\ it' = 1
    /\ pc' = [pc EXCEPT ![t] = "check"]
    /\ UNCHANGED <<state, idle_state, n_idle_thread, ownerVars, waiting, late>>

ScanEnd(t) ==
    /\ pc[t] = "scan"
    /\ it > Len(fiber_list)
    /\ latch' = NoThread
    /\ it' = 1
    /\ pc' = [pc EXCEPT ![t] = "idlecheck"]
    /\ UNCHANGED <<state, fiber_list, fbr, idle_state, n_active_thread,
                   n_idle_thread, ownerVars, waiting, late>>

\* Mutant of Ended: a fiber that yielded is dropped as well.
EndedOrHeld(f) == state[f] \in Finished \cup {"HOLD"}

Ended(f) == state[f] \in Finished

\* A fiber that already ended is dropped, any other is called.
CheckFiber(t) ==
    /\ pc[t] = "check"
    /\ ~Ended(fbr[t])
    /\ pc' = [pc EXCEPT ![t] = "call"]
    /\ UNCHANGED <<state, fiber_list, latch, it, fbr, idle_state,
                   n_active_thread, n_idle_thread, ownerVars, waiting, late>>

DropFinished(t) ==
    /\ pc[t] = "check"
    /\ Ended(fbr[t])
    /\ n_active_thread' = n_active_thread - 1
    /\ fbr' = [fbr EXCEPT ![t] = NoFiber]
    /\ pc' = [pc EXCEPT ![t] = "idlecheck"]
    /\ UNCHANGED <<state, fiber_list, latch, it, idle_state, n_idle_thread,
                   ownerVars, waiting, late>>

\* Fiber::call: state_ = EXEC and the context switch.
Call(t) ==
    /\ pc[t] = "call"
    /\ state' = [state EXCEPT ![fbr[t]] = "EXEC"]
    /\ pc' = [pc EXCEPT ![t] = "fiber"]
    /\ UNCHANGED <<fiber_list, latch, it, fbr, idle_state, n_active_thread,
                   n_idle_thread, ownerVars, waiting, late>>

\* The fiber gives a reference to itself to a waker before it yields, as
\* addEvent and the hooked sleep do: from here on it can be scheduled although
\* it still runs.
Arm(t) ==
    /\ pc[t] = "fiber"
    /\ waiting' = waiting \cup {fbr[t]}
    /\ pc' = [pc EXCEPT ![t] = "armed"]
    /\ UNCHANGED <<state, fiber_list, latch, it, fbr, idle_state,
                   n_active_thread, n_idle_thread, ownerVars, late>>

\* MainFunc: the callback returned (TERM) or threw (EXCEPT).
MainFunc(t) ==
    /\ pc[t] = "fiber"
    /\ \E s \in Finished : state' = [state EXCEPT ![fbr[t]] = s]
    /\ pc' = [pc EXCEPT ![t] = "ended"]
    /\ UNCHANGED <<fiber_list, latch, it, fbr, idle_state, n_active_thread,
                   n_idle_thread, ownerVars, waiting, late>>

\* Fiber::yeild: the context is saved and run() continues behind call().
Yeild(t) ==
    /\ pc[t] \in {"armed", "ended"}
    /\ pc' = [pc EXCEPT ![t] = "ret"]
    /\ UNCHANGED <<state, fiber_list, latch, it, fbr, idle_state,
                   n_active_thread, n_idle_thread, ownerVars, waiting, late>>

\* --n_active_thread_ comes before the fiber's state is settled.
Returned(t) ==
    /\ pc[t] = "ret"
    /\ n_active_thread' = n_active_thread - 1
    /\ pc' = [pc EXCEPT ![t] = "settle"]
    /\ UNCHANGED <<state, fiber_list, latch, it, fbr, idle_state,
                   n_idle_thread, ownerVars, waiting, late>>

\* Mutant of Settled: the fiber keeps the state it yielded with.
SettledNever(s) == s

Settled(s) == IF s \in Finished \cup {"READY"} THEN s ELSE "HOLD"

\* A READY fiber goes back to the list, one that is not finished becomes HOLD.
Settle(t) ==
    LET f == fbr[t] IN
    /\ pc[t] = "settle"
    /\ state[f] = "READY" => latch = NoThread
    /\ fiber_list' = IF state[f] = "READY" THEN Append(fiber_list, f) ELSE fiber_list
    /\ state' = [state EXCEPT ![f] = Settled(@)]
    /\ fbr' = [fbr EXCEPT ![t] = NoFiber]
    /\ pc' = [pc EXCEPT ![t] = "idlecheck"]
    /\ UNCHANGED <<latch, it, idle_state, n_active_thread, n_idle_thread,
                   ownerVars, waiting, late>>

IdleEnter(t) ==
    /\ pc[t] = "idlecheck"
    /\ idle_state[t] # "TERM"
    /\ n_idle_thread' = n_idle_thread + 1
    /\ idle_state' = [idle_state EXCEPT ![t] = "EXEC"]
    /\ pc' = [pc EXCEPT ![t] = "idle"]
    /\ UNCHANGED <<state, fiber_list, latch, it, fbr, n_active_thread,
                   ownerVars, waiting, late>>

Exit(t) ==
    /\ pc[t] = "idlecheck"
    /\ idle_state[t] = "TERM"
    /\ pc' = [pc EXCEPT ![t] = "done"]
    /\ UNCHANGED <<state, fiber_list, latch, it, fbr, idle_state,
                   n_active_thread, n_idle_thread, ownerVars, waiting, late>>

\* Mutant of stopping: all workers have to be idle at once.
stoppingAllIdle ==
    try_stop /\ fiber_list = <<>> /\ n_active_thread = 0 /\ n_idle_thread = Cardinality(Threads)

stopping == try_stop /\ fiber_list = <<>> /\ n_active_thread = 0

\* Scheduler::idle: the loop ends, and with it the idle fiber, when stopping()
\* holds; otherwise it sleeps for a second and yields.
Idle(t) ==
    /\ pc[t] = "idle"
    /\ latch = NoThread
    /\ idle_state' = IF stopping THEN [idle_state EXCEPT ![t] = "TERM"] ELSE idle_state
    /\ pc' = [pc EXCEPT ![t] = "idleret"]
    /\ UNCHANGED <<state, fiber_list, latch, it, fbr, n_active_thread,
                   n_idle_thread, ownerVars, waiting, late>>

IdleReturned(t) ==
    /\ pc[t] = "idleret"
    /\ n_idle_thread' = n_idle_thread - 1
    /\ idle_state' = IF idle_state[t] = "TERM"
                     THEN idle_state ELSE [idle_state EXCEPT ![t] = "HOLD"]
    /\ pc' = [pc EXCEPT ![t] = "lock"]
    /\ UNCHANGED <<state, fiber_list, latch, it, fbr, n_active_thread,
                   ownerVars, waiting, late>>

-----------------------------------------------------------------------------

Owner == Start \/ (\E t \in Threads : Spawn(t)) \/ StartDone \/ Stop \/ Join

Schedule ==
    \E a \in Threads \cup {Client}, f \in Fibers :
        ScheduleCb(a, f) \/ ScheduleFiber(a, f) \/ ScheduleEnded(a, f)

Worker(t) ==
    \/ Lock(t) \/ ScanSkip(t) \/ ScanTake(t) \/ ScanEnd(t)
    \/ CheckFiber(t) \/ DropFinished(t) \/ Call(t)
    \/ Arm(t) \/ MainFunc(t) \/ Yeild(t)
    \/ Returned(t) \/ Settle(t)
    \/ IdleEnter(t) \/ Exit(t) \/ Idle(t) \/ IdleReturned(t)

\* stop() has returned: nothing is left to run.
Terminated == main = "joined" /\ UNCHANGED vars

Next == Owner \/ Schedule \/ (\E t \in Threads : Worker(t)) \/ Terminated

Spec == Init /\ [][Next]_vars

-----------------------------------------------------------------------------
(* Fairness.  A worker that can take a step of run() or idle() takes it.   *)
(* Acquiring latch_ needs strong fairness: std::mutex promises no order,   *)
(* but every competing worker sleeps a second in idle() between two        *)
(* acquisitions and critical sections are short.  User code ends: a fiber  *)
(* that keeps being resumed finishes at some point.  The owner need not    *)
(* call start() or stop(), and no waker has to fire.                       *)

RunStep(t) ==
    \/ Lock(t) \/ ScanSkip(t) \/ ScanTake(t) \/ ScanEnd(t)
    \/ CheckFiber(t) \/ DropFinished(t) \/ Call(t)
    \/ Yeild(t) \/ Returned(t) \/ Settle(t)
    \/ IdleEnter(t) \/ Exit(t) \/ Idle(t) \/ IdleReturned(t)

Fairness ==
    /\ \A t \in Threads : SF_vars(RunStep(t))
    /\ \A f \in Fibers : SF_vars(\E t \in Threads : fbr[t] = f /\ MainFunc(t))
    /\ WF_vars((\E t \in Threads : Spawn(t)) \/ StartDone \/ Join)

FairSpec == Spec /\ Fairness

-----------------------------------------------------------------------------
(* Properties *)

\* No two workers are ever inside the same fiber: a fiber that was woken before
\* it yielded must not be resumed on a second thread while its stack is in use.
OneThreadPerFiber ==
    \A t1, t2 \in Threads :
        t1 # t2 /\ OnStack(t1) /\ OnStack(t2) => fbr[t1] # fbr[t2]

\* Fiber::call is documented with "@pre getState() != EXEC" (fiber.h:66), and a
\* finished fiber that is resumed runs into the assert(false) that ends
\* MainFunc (fiber.cpp:146): whoever is about to call a fiber finds it
\* INIT or HOLD.
CallPre ==
    \A t \in Threads : pc[t] = "call" => state[fbr[t]] \in {"INIT", "HOLD"}

\* No wake-up is lost or doubled: exactly one party can make a fiber that has
\* not finished run again.  It is once in fiber_list_, or with a waker, or in the
\* hands of a worker that has not yet given it to a waker - also while a fiber
\* that was woken early is still executing its way to yeild().
NoFiberLost ==
    /\ \A f \in Fibers : state[f] \notin Finished \cup {"none"} =>
          f \in Listed \cup waiting \/ \E t \in Threads : Unarmed(t) /\ fbr[t] = f
    /\ Listed \cap waiting = {}
    /\ \A t \in Threads : Unarmed(t) => fbr[t] \notin Listed \cup waiting
    /\ IsInjective(fiber_list)

\* stop() drains: when it returns and nobody scheduled from outside after it
\* was called, every fiber handed to schedule() has finished, except those a
\* waker still holds (stopping() of this class does not wait for wakers).
StopDrains ==
    main = "joined" /\ ~late =>
        \A f \in Fibers : state[f] \in Finished \cup {"none"} \/ f \in waiting

\* What makes StopDrains inductive: from the moment one idle fiber has ended,
\* and as long as nothing is scheduled from outside, the list stays empty and
\* no worker counts as active.
QuietOnceStopping ==
    (\E t \in Threads : idle_state[t] = "TERM") /\ ~late =>
        /\ try_stop
        /\ fiber_list = <<>>
        /\ \A t \in Threads : ~Counted(t)

\* A scheduled fiber is taken from the list once the scheduler is started,
\* whatever the workers are doing, as long as it was not scheduled from outside
\* after stop().
EveryFiberIsTaken ==
    \A f \in Fibers :
        (main \in {"started", "stopping"} /\ f \in Listed /\ ~late) ~> f \notin Listed

\* stop() returns: every worker reaches the end of run() and is joined.
StopReturns == main = "stopping" ~> main = "joined"

-----------------------------------------------------------------------------
(* What a caller sees of it.  A finished fiber that is scheduled again is  *)
(* no work, a fiber that is armed waits although it still executes, and    *)
(* stopping() of this class overlooks the fibers that wait.                *)

Pool == INSTANCE FiberPool
    WITH queued  <- {f \in Listed : state[f] \notin Finished},
         running <- {r \in Threads \X Fibers : /\ Unarmed(r[1]) /\ fbr[r[1]] = r[2]
                                              /\ state[r[2]] \notin Finished},
         done    <- {f \in Fibers : state[f] \in Finished},
         left    <- {t \in Threads : pc[t] = "done"},
         closing <- try_stop,
         gap     <- TRUE

\* The scheduler does what FiberPool promises: a fiber moves from place to place
\* one step at a time and never runs twice or comes back after its end, a thread
\* runs one fiber at a time, and a thread leaves run() only after stop() and, if
\* nothing was scheduled late, the last one when nothing is queued or running.
ImplementsPool == Pool!Spec
=============================================================================
