----------------------------- MODULE IOScheduler -----------------------------
(***************************************************************************)
(* IOManager as a scheduler: Scheduler::run with IOManager::idle, tickle   *)
(* and stopping (scheduler.cpp, scheduler.h, iomanager.cpp).  Scheduler,   *)
(* TimerManager and IOManager treat the parts by themselves; here they     *)
(* meet: the list of fibers, the counters, the tickle pipe, what the       *)
(* fibers wait for, and the check that ends a worker, which reads the      *)
(* timers, n_pendingEvent_ and the list one after the other.               *)
(*                                                                         *)
(* A job is a fiber.  Time is left out: a timer becomes due at some        *)
(* moment, two timers may have one deadline, and epoll_wait may time out   *)
(* at any moment.  A job waits for an event or for a timer; epoll_ctl      *)
(* accepts what it waits for (what a refused addEvent leaves in the table  *)
(* is a matter of IOManager and of Hook).                                  *)
(***************************************************************************)
EXTENDS Integers, FiniteSets, Sequences, SequencesExt

CONSTANTS
    Workers,     \* the threads of the pool
    Jobs,        \* the fibers
    Sleepers,    \* those that may wait for a timer
    Readers,     \* those that may wait for an event
    Owner,       \* the thread that schedules the first jobs and calls stop()
    Signalled    \* the workers whose epoll_wait may be interrupted by a signal

ASSUME WorkersAssumption ==
    /\ IsFiniteSet(Workers) /\ Workers # {} /\ Owner \notin Workers
    /\ Signalled \subseteq Workers
    /\ Sleepers \subseteq Jobs /\ Readers \subseteq Jobs

VARIABLES
    list,       \* fiber_list_
    place,      \* where each job is
    holder,     \* the worker that holds it, if one does
    exec,       \* the worker on whose stack it is, until its call() has returned
    n_pending,  \* n_pendingEvent_
    pc,         \* where each worker is in run() and idle()
    term,       \* the workers whose idle fiber has ended
    drain,      \* the workers to whom epoll_wait returned the pipe
    eintr,      \* the workers whose errno is EINTR
    edge,       \* the tickle pipe is ready in epoll (EPOLLET)
    owed,       \* the threads that will tickle() because they found the list empty
    try_stop,   \* try_stop_
    slipped     \* history: a job began to wait, or was overdue by exactly one
                \* millisecond, while a worker made the check of stopping()

workVars == <<list, place, holder, exec, n_pending>>
idleVars == <<term, drain, eintr>>
vars == <<workVars, pc, idleVars, edge, owed, try_stop, slipped>>

\* Waiting for an event: not occurred; ready in epoll; returned by epoll_wait;
\* returned to a worker that discarded it.
Eventful == {"event", "ready", "got", "lost"}
Timed    == {"timer", "due"}

\* The callback of its timer is taken out of timers_, is a fiber in the list that
\* will schedule the job, and is that fiber and runs.
Expired  == {"cbs", "cblist", "waking"}

\* What is in the list, and what a worker runs.
Queued   == {"list", "cblist"}
InHand   == {"run", "waking"}

\* "stranded": the job waits for a timer that is not in timers_.
Places   == {"out", "list", "run", "done", "stranded"} \cup Eventful \cup Timed \cup Expired

In(P) == {j \in Jobs : place[j] \in P}

\* n_active_thread_ and n_idle_thread_ are incremented and decremented by each
\* worker around call().
n_active == Cardinality({w \in Workers : pc[w] \in {"run", "ret"}})
Idling(w) == pc[w] \in {"timers", "pending", "final", "sleep", "expired", "handle", "dec"}
hasIdleThreads == \E w \in Workers : Idling(w)

Init ==
    /\ list = <<>>
    /\ place = [j \in Jobs |-> "out"]
    /\ holder = [j \in Jobs |-> Owner]
    /\ exec = [j \in Jobs |-> Owner]
    /\ n_pending = 0
    /\ pc = [w \in Workers |-> "take"]
    /\ term = {} /\ drain = {} /\ eintr = {}
    /\ edge = FALSE
    /\ owed = {}
    /\ try_stop = FALSE
    /\ slipped = FALSE

-----------------------------------------------------------------------------
(* schedule() and tickle() *)

\* Mutant of schedule: a job that finds work in the list is not pushed.
scheduleOnce(a, j) ==
    /\ list' = IF list = <<>> THEN <<j>> ELSE list
    /\ owed' = IF list = <<>> THEN owed \cup {a} ELSE owed

\* Thread a pushes j; the tickle follows after latch_ is given up.
schedule(a, j) ==
    /\ list' = Append(list, j)
    /\ owed' = IF list = <<>> THEN owed \cup {a} ELSE owed

\* IOManager::tickle: nothing when nobody is idle.
Tickle(a) ==
    /\ a \in owed
    /\ owed' = owed \ {a}
    /\ edge' = (edge \/ hasIdleThreads)
    /\ UNCHANGED <<workVars, pc, idleVars, try_stop, slipped>>

\* Bound: the owner schedules nothing after it called stop().
ScheduleOutside(j) ==
    /\ ~try_stop
    /\ Owner \notin owed
    /\ place[j] = "out"
    /\ schedule(Owner, j)
    /\ place' = [place EXCEPT ![j] = "list"]
    /\ UNCHANGED <<holder, exec, n_pending, pc, idleVars, edge, try_stop, slipped>>

\* Scheduler::stop: try_stop_, and then a tickle every second, once per worker.
Stop ==
    /\ ~try_stop
    /\ Owner \notin owed
    /\ try_stop' = TRUE
    /\ UNCHANGED <<workVars, pc, idleVars, edge, owed, slipped>>

StopTickle ==
    /\ try_stop
    /\ edge' = (edge \/ hasIdleThreads)
    /\ UNCHANGED <<workVars, pc, idleVars, owed, try_stop, slipped>>

-----------------------------------------------------------------------------
(* What the jobs wait for *)

EventOccurs(j) ==
    /\ place[j] = "event"
    /\ place' = [place EXCEPT ![j] = "ready"]
    /\ UNCHANGED <<list, holder, exec, n_pending, pc, idleVars, edge, owed, try_stop, slipped>>

TimerDue(j) ==
    /\ place[j] = "timer"
    /\ place' = [place EXCEPT ![j] = "due"]
    /\ UNCHANGED <<list, holder, exec, n_pending, pc, idleVars, edge, owed, try_stop, slipped>>

-----------------------------------------------------------------------------
(* Scheduler::run on worker w *)

At(w, l) == pc[w] = l /\ w \notin owed

Goto(w, l) == pc' = [pc EXCEPT ![w] = l]

\* The job whose fiber is EXEC is skipped; the callback of its timer is another fiber.
Takable(j) == place[j] = "cblist" \/ exec[j] = Owner

\* The first of the list that is not EXEC.
Take(w) ==
    /\ At(w, "take")
    /\ \E n \in DOMAIN list :
          /\ Takable(list[n]) /\ \A m \in 1 .. n - 1 : ~Takable(list[m])
          /\ list' = RemoveAt(list, n)
          /\ place' = [place EXCEPT ![list[n]] = IF @ = "list" THEN "run" ELSE "waking"]
          /\ holder' = [holder EXCEPT ![list[n]] = w]
          /\ exec' = [exec EXCEPT ![list[n]] = IF place[list[n]] = "list" THEN w ELSE @]
    /\ Goto(w, "run")
    /\ UNCHANGED <<n_pending, idleVars, edge, owed, try_stop, slipped>>

TakeNothing(w) ==
    /\ At(w, "take")
    /\ \A n \in DOMAIN list : ~Takable(list[n])
    /\ Goto(w, "idlecheck")
    /\ UNCHANGED <<workVars, idleVars, edge, owed, try_stop, slipped>>

Running(w, j) == At(w, "run") /\ place[j] = "run" /\ holder[j] = w

\* The job schedules another one, and goes on.
JobSchedules(w, j, k) ==
    /\ Running(w, j)
    /\ place[k] = "out"
    /\ schedule(w, k)
    /\ place' = [place EXCEPT ![k] = "list"]
    /\ UNCHANGED <<holder, exec, n_pending, pc, idleVars, edge, try_stop, slipped>>

JobEnds(w, j) ==
    /\ Running(w, j)
    /\ place' = [place EXCEPT ![j] = "done"]
    /\ holder' = [holder EXCEPT ![j] = Owner]
    /\ Goto(w, "ret")
    /\ UNCHANGED <<list, exec, n_pending, idleVars, edge, owed, try_stop, slipped>>

\* Some other worker is between the reads of stopping().
Checking(w) == \E v \in Workers \ {w} : pc[v] \in {"pending", "final"}

\* Mutant of JobAwaitsEvent: the counter is not raised.
JobAwaitsEventUncounted(w, j) ==
    /\ Running(w, j)
    /\ j \in Readers
    /\ place' = [place EXCEPT ![j] = "event"]
    /\ holder' = [holder EXCEPT ![j] = Owner]
    /\ slipped' = (slipped \/ Checking(w))
    /\ Goto(w, "ret")
    /\ UNCHANGED <<list, exec, n_pending, idleVars, edge, owed, try_stop>>

\* addEvent; the fiber is EXEC until it has yeilded and w is back in run().
JobAwaitsEvent(w, j) ==
    /\ Running(w, j)
    /\ j \in Readers
    /\ place' = [place EXCEPT ![j] = "event"]
    /\ holder' = [holder EXCEPT ![j] = Owner]
    /\ n_pending' = n_pending + 1
    /\ slipped' = (slipped \/ Checking(w))
    /\ Goto(w, "ret")
    /\ UNCHANGED <<list, exec, idleVars, edge, owed, try_stop>>

\* addTimer; what insert() returns may be the first timer, which tickles.  timers_ takes
\* no timer whose deadline one in it has, of a sleep or of a hooked call that waits with a
\* timeout: addTimer says nothing, and nobody will wake the job.
JobAwaitsTimer(w, j) ==
    /\ Running(w, j)
    /\ j \in Sleepers
    /\ \E p \in {"timer", "stranded"} :
          /\ p = "stranded" => In(Timed \cup Eventful) # {}
          /\ place' = [place EXCEPT ![j] = p]
    /\ holder' = [holder EXCEPT ![j] = Owner]
    /\ slipped' = (slipped \/ Checking(w))
    /\ edge' \in {edge, edge \/ hasIdleThreads}
    /\ Goto(w, "ret")
    /\ UNCHANGED <<list, exec, n_pending, idleVars, owed, try_stop>>

\* The hooked call that j comes back from had a timeout: cancel() of its timer finds
\* by the deadline, and erases the timer of k when that has the same.
CancelErases(w, j, k) ==
    /\ Running(w, j)
    /\ j \in Readers
    /\ place[k] \in Timed
    /\ place' = [place EXCEPT ![k] = "stranded"]
    /\ UNCHANGED <<list, holder, exec, n_pending, pc, idleVars, edge, owed, try_stop, slipped>>

\* The callback of k's timer, a fiber of its own, runs to its end.
Callback(w, k) ==
    /\ At(w, "run")
    /\ place[k] = "waking" /\ holder[k] = w
    /\ schedule(w, k)
    /\ place' = [place EXCEPT ![k] = "list"]
    /\ holder' = [holder EXCEPT ![k] = Owner]
    /\ Goto(w, "ret")
    /\ UNCHANGED <<exec, n_pending, idleVars, edge, try_stop, slipped>>

\* call() has returned: --n_active_thread_, and the fiber is no longer EXEC.
Return(w) ==
    /\ At(w, "ret")
    /\ exec' = [j \in Jobs |-> IF exec[j] = w THEN Owner ELSE exec[j]]
    /\ Goto(w, "idlecheck")
    /\ UNCHANGED <<list, place, holder, n_pending, idleVars, edge, owed, try_stop, slipped>>

IdleCall(w) ==
    /\ At(w, "idlecheck")
    /\ Goto(w, IF w \in term THEN "exit" ELSE "timers")
    /\ UNCHANGED <<workVars, idleVars, edge, owed, try_stop, slipped>>

-----------------------------------------------------------------------------
(* IOManager::idle on worker w: stopping(), epoll_wait, the expired timers *)
(* and the events.                                                         *)

\* getNextTimer.  A timer that is overdue by one millisecond gives ~0ull, which
\* reads as "no timer".
ReadTimers(w) ==
    /\ At(w, "timers")
    /\ \/ In(Timed) = {} /\ Goto(w, "pending") /\ UNCHANGED slipped
       \/ In(Timed) # {} /\ Goto(w, "sleep") /\ UNCHANGED slipped
       \/ In({"due"}) # {} /\ Goto(w, "pending") /\ slipped' = TRUE
    /\ UNCHANGED <<workVars, idleVars, edge, owed, try_stop>>

\* Mutant of ReadPending: Scheduler::stopping alone.
ReadPendingNever(w) ==
    /\ At(w, "pending")
    /\ Goto(w, "final")
    /\ UNCHANGED <<workVars, idleVars, edge, owed, try_stop, slipped>>

ReadPending(w) ==
    /\ At(w, "pending")
    /\ Goto(w, IF n_pending = 0 THEN "final" ELSE "sleep")
    /\ UNCHANGED <<workVars, idleVars, edge, owed, try_stop, slipped>>

\* Mutant of stopping: workers that are idle count as active.
stoppingUnlessIdle == try_stop /\ list = <<>> /\ n_active = 0 /\ ~hasIdleThreads

\* Scheduler::stopping
stopping == try_stop /\ list = <<>> /\ n_active = 0

\* The idle fiber ends, or goes to sleep.  run() then takes once more before it
\* looks at the idle fiber.
Final(w) ==
    /\ At(w, "final")
    /\ Goto(w, IF stopping THEN "take" ELSE "sleep")
    /\ term' = IF stopping THEN term \cup {w} ELSE term
    /\ UNCHANGED <<workVars, drain, eintr, edge, owed, try_stop, slipped>>

\* "rt < 0 || errno == EINTR" also holds after a successful call, when errno is
\* left over from an interrupted one.
Continues(w) == w \in eintr

\* Mutant of Returns: no timeout.
ReturnsReady(w) == edge \/ In({"ready"}) # {}

\* epoll_wait may return at any time: its timeout is at most MAX_TIMEOUT.
Returns(w) == TRUE

\* epoll_wait returns what is ready: the pipe, events, or nothing after the
\* timeout.  Edge-triggered, nothing is reported twice.
EpollWait(w) ==
    LET ready == In({"ready"}) IN
    /\ At(w, "sleep")
    /\ Returns(w)
    /\ edge' = FALSE
    /\ drain' = IF edge /\ ~Continues(w) THEN drain \cup {w} ELSE drain
    /\ place' = [j \in Jobs |-> IF j \notin ready THEN place[j]
                                ELSE IF Continues(w) THEN "lost" ELSE "got"]
    /\ holder' = [j \in Jobs |-> IF j \in ready /\ ~Continues(w) THEN w ELSE holder[j]]
    /\ Goto(w, IF Continues(w) THEN "timers" ELSE "expired")
    /\ UNCHANGED <<list, exec, n_pending, term, eintr, owed, try_stop, slipped>>

EpollInterrupted(w) ==
    /\ At(w, "sleep")
    /\ w \in Signalled \ eintr
    /\ eintr' = eintr \cup {w}
    /\ Goto(w, "timers")
    /\ UNCHANGED <<workVars, term, drain, edge, owed, try_stop, slipped>>

ListExpired(w) ==
    /\ At(w, "expired")
    /\ place' = [j \in Jobs |-> IF place[j] = "due" THEN "cbs" ELSE place[j]]
    /\ holder' = [j \in Jobs |-> IF place[j] = "due" THEN w ELSE holder[j]]
    /\ Goto(w, "handle")
    /\ UNCHANGED <<list, exec, n_pending, idleVars, edge, owed, try_stop, slipped>>

Held(w, p) == {j \in Jobs : place[j] = p /\ holder[j] = w}

\* for each expired callback: schedule(*it), which makes a fiber of it.
ScheduleExpired(w, j) ==
    /\ At(w, "handle")
    /\ j \in Held(w, "cbs")
    /\ schedule(w, j)
    /\ place' = [place EXCEPT ![j] = "cblist"]
    /\ holder' = [holder EXCEPT ![j] = Owner]
    /\ UNCHANGED <<exec, n_pending, pc, idleVars, edge, try_stop, slipped>>

Drain(w) ==
    /\ At(w, "handle")
    /\ Held(w, "cbs") = {}
    /\ w \in drain
    /\ drain' = drain \ {w}
    /\ edge' = FALSE
    /\ UNCHANGED <<workVars, pc, term, eintr, owed, try_stop, slipped>>

\* triggerEvent schedules the fiber; --n_pendingEvent_ comes after it.
TriggerEvent(w, j) ==
    /\ At(w, "handle")
    /\ Held(w, "cbs") = {}
    /\ j \in Held(w, "got")
    /\ schedule(w, j)
    /\ place' = [place EXCEPT ![j] = "list"]
    /\ holder' = [holder EXCEPT ![j] = Owner]
    /\ Goto(w, "dec")
    /\ UNCHANGED <<exec, n_pending, idleVars, edge, try_stop, slipped>>

\* epoll_ctl refuses to disarm the descriptor: the loop goes on with the next event,
\* and edge-triggered, epoll does not report this one again.
TriggerRefused(w, j) ==
    /\ At(w, "handle")
    /\ Held(w, "cbs") = {}
    /\ j \in Held(w, "got")
    /\ place' = [place EXCEPT ![j] = "lost"]
    /\ UNCHANGED <<list, holder, exec, n_pending, pc, idleVars, edge, owed, try_stop, slipped>>

Decrement(w) ==
    /\ At(w, "dec")
    /\ n_pending' = n_pending - 1
    /\ Goto(w, "handle")
    /\ UNCHANGED <<list, place, holder, exec, idleVars, edge, owed, try_stop, slipped>>

IdleYeild(w) ==
    /\ At(w, "handle")
    /\ w \notin drain
    /\ Held(w, "cbs") \cup Held(w, "got") = {}
    /\ Goto(w, "take")
    /\ UNCHANGED <<workVars, idleVars, edge, owed, try_stop, slipped>>

-----------------------------------------------------------------------------

Client == Stop \/ StopTickle \/ Tickle(Owner) \/ \E j \in Jobs : ScheduleOutside(j)

Environment == \E j \in Jobs : EventOccurs(j) \/ TimerDue(j)

Job(w, j) ==
    \/ JobEnds(w, j) \/ JobAwaitsEvent(w, j) \/ JobAwaitsTimer(w, j)
    \/ \E k \in Jobs : JobSchedules(w, j, k) \/ CancelErases(w, j, k)

\* What worker w does by itself.
Work(w) ==
    \/ Tickle(w) \/ Take(w) \/ TakeNothing(w) \/ Return(w) \/ IdleCall(w)
    \/ \E j \in Jobs : Job(w, j) \/ Callback(w, j)
    \/ \E j \in Jobs : ScheduleExpired(w, j) \/ TriggerEvent(w, j) \/ TriggerRefused(w, j)
    \/ ReadTimers(w) \/ ReadPending(w) \/ Final(w) \/ EpollWait(w)
    \/ ListExpired(w) \/ Drain(w) \/ Decrement(w) \/ IdleYeild(w)

Exited == \A w \in Workers : pc[w] = "exit"

\* Every worker has left run(); only the environment may still move.
Joined == Exited /\ UNCHANGED vars

Next ==
    \/ Client \/ Environment \/ Joined
    \/ \E w \in Workers : Work(w) \/ EpollInterrupted(w)

\* The system runs every thread, and epoll_wait sleeps at most MAX_TIMEOUT.
Fairness == \A w \in Workers : WF_vars(Work(w))

Spec == Init /\ [][Next]_vars /\ Fairness

-----------------------------------------------------------------------------
(* Properties *)

\* Every job is in one place: what is in the list is exactly what was scheduled
\* and not yet taken, once, and what a worker has in hand is held by that worker
\* and by no other.
OncePerJob ==
    /\ \A j \in Jobs : Cardinality({i \in DOMAIN list : list[i] = j}) =
                          IF place[j] \in Queued THEN 1 ELSE 0
    /\ \A w \in Workers :
          Cardinality({j \in In(InHand) : holder[j] = w}) = IF pc[w] = "run" THEN 1 ELSE 0

\* n_pendingEvent_ never says less than there is: stopping() may see an event
\* too many, never one too few.
PendingCovers == Cardinality(In(Eventful)) <= n_pending

\* When all workers have left nothing that was scheduled before stop() is left
\* undone, unless a job began to wait, or was overdue by exactly one millisecond,
\* in the middle of a check: iomanager.cpp:312 reads the timers, the events and
\* the list one after the other.  Even then what is left waits for its timer or
\* event; no job is left in the list or half-way.  A job whose timer addTimer
\* dropped or another's cancel() erased (timer.cpp:148, 40) is left behind too.
StopLeavesNothing ==
    Exited => /\ In(Queued \cup InHand \cup Expired) = {}
              /\ ~slipped => In(Eventful \cup Timed) = {}

\* The pool has stopped, but for workers that keep failing the test of errno and
\* never leave idle().
Halted == \A w \in Workers : pc[w] = "exit" \/ w \in eintr

\* A job that is scheduled, whose timer is due or whose event occurred runs,
\* however tickles are skipped or lost: epoll_wait times out after MAX_TIMEOUT.
\* Exceptions: its event was taken out of epoll and thrown away, by a worker with a
\* stale EINTR (iomanager.cpp:339) or because epoll_ctl refused (iomanager.cpp:386);
\* its timer was erased by the cancel() of another with the same deadline; or only
\* workers with a stale EINTR are left.
EveryJobGoesOn ==
    \A j \in Jobs : place[j] \in {"list", "due", "ready", "got"} \cup Expired
                       ~> (place[j] \in {"run", "lost", "stranded"} \/ Halted)

\* stop() returns once every job is done or waits for a timer that does not exist,
\* whatever was lost on the way.
StopReturns ==
    <>[](try_stop /\ In(Places \ {"out", "done", "stranded"}) = {}) => <>Exited

-----------------------------------------------------------------------------
(* The pool that Scheduler implements as well.  The owner schedules nothing *)
(* late here, and stopping() overlooks what slipped through its reads and   *)
(* the jobs that wait for a timer timers_ does not hold.                    *)

Pool == INSTANCE FiberPool
    WITH Threads <- Workers,
         Fibers  <- Jobs,
         queued  <- In({"list"}),
         running <- {r \in Workers \X Jobs : place[r[2]] = "run" /\ holder[r[2]] = r[1]},
         waiting <- In(Eventful \cup Timed \cup Expired \cup {"stranded"}),
         done    <- In({"done"}),
         left    <- {w \in Workers : pc[w] = "exit"},
         closing <- try_stop,
         late    <- FALSE,
         gap     <- slipped \/ In({"stranded"}) # {}

\* IOManager keeps the promise of the class it derives from, and a stronger one:
\* the last worker leaves run() only when no job waits either, except for those that
\* slipped through the reads of stopping() and those without a timer: for these
\* FiberPool promises nothing once there is one.
ImplementsPool == Pool!Spec
=============================================================================
