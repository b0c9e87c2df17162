------------------------------ MODULE IOManager ------------------------------
(***************************************************************************)
(* The event table of IOManager (iomanager.h, iomanager.cpp): who waits    *)
(* for which event of which descriptor, what epoll was told about it, and  *)
(* the part of idle() that turns epoll events into scheduled waiters.      *)
(*                                                                         *)
(* Every operation first looks the FdContext up under mutex_ and then does *)
(* its work under FdContext::mutex.  fdContexts_ only grows and its        *)
(* elements stay where they are, so lookup and work are one step.          *)
(* epoll_wait takes no lock: what it returned may be stale when idle()     *)
(* gets to it, so each returned descriptor is handled in a step of its own.*)
(*                                                                         *)
(* A waiter is what an EventContext refers to: the fiber that called       *)
(* addEvent, or the callback that was passed to it.                        *)
(***************************************************************************)
EXTENDS Integers, FiniteSets

CONSTANTS
    Fds,         \* descriptors, natural numbers
    Fibers,      \* fibers that wait for events
    Callbacks,   \* callbacks that are registered for events
    Workers,     \* the worker threads
    Outside,     \* a thread that is not a worker
    Nobody,      \* an empty FiberRef or std::function
    MaxRefused   \* bound on the calls of addEvent that epoll_ctl refuses

ASSUME FdsAssumption == Fds \subseteq Nat
ASSUME ActorsAssumption ==
    /\ IsFiniteSet(Fds)
    /\ Outside \notin Workers
    /\ Fibers \cap Callbacks = {}
    /\ Nobody \notin Fibers \cup Callbacks
    /\ MaxRefused \in Nat

VARIABLES
    size,     \* fdContexts_.size()
    events,   \* FdContext::events
    ctx,      \* FdContext::read and write
    n_pending, \* n_pendingEvent_; below 0 stands for the wrapped size_t
    kernel,   \* the events epoll watches per descriptor; none: not registered
    reg,      \* history: what each waiter was successfully registered for
    refused,  \* history: the calls of addEvent that epoll_ctl refused
    pc,       \* "run": outside epoll_wait's results, "idle": working on them
    got,      \* what epoll_wait returned to a worker and is not handled yet
    failure   \* the assertion or the dereference that ended the program

tableVars == <<events, ctx, n_pending, kernel, reg, refused>>
vars == <<size, tableVars, pc, got, failure>>

Event    == {"READ", "WRITE"}
Waiters  == Fibers \cup Callbacks
Threads  == Workers \cup {Outside}
NoReg    == <<>>

TypeOK ==
    /\ size \in Nat
    /\ events \in [Fds -> SUBSET Event]
    /\ ctx \in [Fds -> [Event -> [index : {0, 1}, who : Waiters \cup {Nobody}]]]
    /\ n_pending \in Int
    /\ kernel \in [Fds -> SUBSET Event]
    /\ reg \in [Waiters -> {NoReg} \cup (Fds \X Event)]
    /\ refused \in Nat
    /\ pc \in [Workers -> {"run", "idle"}]
    /\ got \in [Workers -> [Fds -> SUBSET (Event \cup {"ERR"})]]
    /\ failure \in {"none", "twice", "ctx", "trigger", "null"}

Init ==
    /\ size = 32
    /\ events = [fd \in Fds |-> {}]
    /\ ctx = [fd \in Fds |-> [e \in Event |-> [index |-> 0, who |-> Nobody]]]
    /\ n_pending = 0
    /\ kernel = [fd \in Fds |-> {}]
    /\ reg = [w \in Waiters |-> NoReg]
    /\ refused = 0
    /\ pc = [t \in Workers |-> "run"]
    /\ got = [t \in Workers |-> [fd \in Fds |-> {}]]
    /\ failure = "none"

-----------------------------------------------------------------------------
(* The kernel.  EPOLL_CTL_ADD wants a new descriptor, MOD and DEL a known  *)
(* one; it may refuse any call for reasons of its own (ENOMEM, ENOSPC,     *)
(* EPERM).  delEvent, cancelEvent and cancelAll then return false and      *)
(* change nothing, which is no step here.                                  *)

OpFor(set, new) == IF set # {} THEN "MOD" ELSE new

CtlSucceeds(op, fd) == (op = "ADD") <=> (kernel[fd] = {})

-----------------------------------------------------------------------------
(* Calls by clients: fibers on a worker, or another thread. *)

Running(a) == a \in Workers => pc[a] = "run"

contextResize(fd) == IF fd < size THEN size ELSE (fd * 3) \div 2

\* Mutants of Context: no fiber is remembered, or it is kept as a callback.
ContextEmpty(w) == [index |-> IF w \in Fibers THEN 0 ELSE 1,
                    who |-> IF w \in Fibers THEN Nobody ELSE w]

ContextCallback(w) == [index |-> 1, who |-> w]

\* What addEvent puts into the EventContext: index 0 is the fiber, 1 the callback.
Context(w) == [index |-> IF w \in Fibers THEN 0 ELSE 1, who |-> w]

\* Clients add an event only when nobody is registered for it, as far as the
\* results of earlier calls tell.  A fiber that waits is not running.
MayAdd(a, fd, e, w) ==
    /\ failure = "none"
    /\ Running(a)
    /\ w \in Fibers => a # Outside
    /\ reg[w] = NoReg
    /\ \A v \in Waiters : reg[v] # <<fd, e>>

addEvent(a, fd, e, w) ==
    /\ MayAdd(a, fd, e, w)
    /\ e \notin events[fd]
    /\ ctx[fd][e].index = 0
    /\ CtlSucceeds(OpFor(events[fd], "ADD"), fd)
    /\ size' = contextResize(fd)
    /\ events' = [events EXCEPT ![fd] = @ \cup {e}]
    /\ ctx' = [ctx EXCEPT ![fd][e] = Context(w)]
    /\ kernel' = [kernel EXCEPT ![fd] = events[fd] \cup {e}]
    /\ n_pending' = n_pending + 1
    /\ reg' = [reg EXCEPT ![w] = <<fd, e>>]
    /\ UNCHANGED <<refused, pc, got, failure>>

\* epoll_ctl refuses: addEvent returns -1 and leaves the new events and ctx.
addEventFails(a, fd, e, w) ==
    /\ MayAdd(a, fd, e, w)
    /\ e \notin events[fd]
    /\ ctx[fd][e].index = 0
    /\ refused < MaxRefused
    /\ refused' = refused + 1
    /\ size' = contextResize(fd)
    /\ events' = [events EXCEPT ![fd] = @ \cup {e}]
    /\ ctx' = [ctx EXCEPT ![fd][e] = Context(w)]
    /\ UNCHANGED <<kernel, n_pending, reg, pc, got, failure>>

\* The two assertions of addEvent: the event is not there yet, and the
\* EventContext holds its first alternative.
addEventAborts(a, fd, e, w) ==
    /\ MayAdd(a, fd, e, w)
    /\ e \in events[fd] \/ ctx[fd][e].index # 0
    /\ failure' = IF e \in events[fd] THEN "twice" ELSE "ctx"
    /\ UNCHANGED <<size, tableVars, pc, got>>

\* Mutant of CtlRemove: DEL although events are left.
CtlRemoveDel(fd, E) ==
    /\ CtlSucceeds("DEL", fd)
    /\ kernel' = [kernel EXCEPT ![fd] = {}]

\* epoll_ctl when the events E of fd are taken away.
CtlRemove(fd, E) ==
    /\ CtlSucceeds(OpFor(events[fd] \ E, "DEL"), fd)
    /\ kernel' = [kernel EXCEPT ![fd] = events[fd] \ E]

\* delEvent: remove without waking the waiter.  The context is reset to an empty
\* std::function, its second alternative.
delEvent(a, fd, e) ==
    /\ failure = "none"
    /\ Running(a)
    /\ fd < size
    /\ e \in events[fd]
    /\ CtlRemove(fd, {e})
    /\ n_pending' = n_pending - 1
    /\ events' = [events EXCEPT ![fd] = @ \ {e}]
    /\ ctx' = [ctx EXCEPT ![fd][e] = [index |-> 1, who |-> Nobody]]
    /\ reg' = [w \in Waiters |-> IF reg[w] = <<fd, e>> THEN NoReg ELSE reg[w]]
    /\ UNCHANGED <<size, refused, pc, got, failure>>

\* Mutants of triggerEvent: n_pendingEvent_ is left alone, or both contexts of
\* the descriptor are scheduled.
triggerEventUncounted(fd, E) ==
    /\ events' = [events EXCEPT ![fd] = @ \ E]
    /\ reg' = [w \in Waiters |-> IF \E e \in E : ctx[fd][e].who = w
                                 THEN NoReg ELSE reg[w]]
    /\ UNCHANGED <<ctx, n_pending, refused>>

triggerEventBoth(fd, E) ==
    /\ events' = [events EXCEPT ![fd] = @ \ E]
    /\ n_pending' = n_pending - Cardinality(E)
    /\ reg' = [w \in Waiters |-> IF \E e \in Event : ctx[fd][e].who = w
                                 THEN NoReg ELSE reg[w]]
    /\ UNCHANGED <<ctx, refused>>

\* triggerEvent for the events E of fd by a worker, and --n_pendingEvent_ for
\* each: whoever the context names is scheduled.  The context stays as it is.
triggerEvent(fd, E) ==
    /\ events' = [events EXCEPT ![fd] = @ \ E]
    /\ n_pending' = n_pending - Cardinality(E)
    /\ reg' = [w \in Waiters |-> IF \E e \in E : ctx[fd][e].who = w
                                 THEN NoReg ELSE reg[w]]
    /\ UNCHANGED <<ctx, refused>>

\* cancelEvent and cancelAll wake the waiters of E.
Cancel(a, fd, E) ==
    /\ failure = "none"
    /\ Running(a)
    /\ fd < size
    /\ E # {}
    /\ E \subseteq events[fd]
    /\ a # Outside
    /\ CtlRemove(fd, E)
    /\ triggerEvent(fd, E)
    /\ UNCHANGED <<size, pc, got, failure>>

cancelEvent(a, fd, e) == Cancel(a, fd, {e})

cancelAll(a, fd) == Cancel(a, fd, events[fd])

\* On a thread that is no worker triggerEvent dereferences the null pointer that
\* IOManager::GetThis() returns there.
CancelOutside(fd) ==
    /\ failure = "none"
    /\ fd < size
    /\ events[fd] # {}
    /\ kernel[fd] # {}
    /\ failure' = "null"
    /\ UNCHANGED <<size, tableVars, pc, got>>

-----------------------------------------------------------------------------
(* IOManager::idle on worker t. *)

\* epoll_wait returns some descriptors it watches, with watched events that
\* occurred or with EPOLLERR or EPOLLHUP.
EpollWait(t) ==
    /\ failure = "none"
    /\ pc[t] = "run"
    /\ \E g \in [Fds -> SUBSET (Event \cup {"ERR"})] :
          /\ \E fd \in Fds : g[fd] # {}
          /\ \A fd \in Fds : IF kernel[fd] = {} THEN g[fd] = {}
                             ELSE g[fd] \subseteq kernel[fd] \cup {"ERR"}
          /\ got' = [got EXCEPT ![t] = g]
    /\ pc' = [pc EXCEPT ![t] = "idle"]
    /\ UNCHANGED <<size, tableVars, failure>>

real_events(t, fd) ==
    (got[t][fd] \cap Event) \cup (IF "ERR" \in got[t][fd] THEN events[fd] ELSE {})

\* The next element of what epoll_wait returned.
Handle(t, fd) ==
    /\ failure = "none"
    /\ got[t][fd] # {}
    /\ got' = [got EXCEPT ![t][fd] = {}]

\* Nobody waits any more, or epoll_ctl refuses: continue with the next one.
SkipEvent(t, fd) ==
    /\ Handle(t, fd)
    /\ UNCHANGED <<size, tableVars, pc, failure>>

TriggerReal(t, fd) ==
    /\ Handle(t, fd)
    /\ events[fd] \cap real_events(t, fd) # {}
    /\ real_events(t, fd) \subseteq events[fd]
    /\ CtlRemove(fd, real_events(t, fd))
    /\ triggerEvent(fd, real_events(t, fd))
    /\ UNCHANGED <<size, pc, failure>>

\* triggerEvent asserts that the event is still in the table.
TriggerAborts(t, fd) ==
    /\ Handle(t, fd)
    /\ events[fd] \cap real_events(t, fd) # {}
    /\ ~(real_events(t, fd) \subseteq events[fd])
    /\ CtlSucceeds(OpFor(events[fd] \ real_events(t, fd), "DEL"), fd)
    /\ failure' = "trigger"
    /\ UNCHANGED <<size, tableVars, pc>>

\* All results are handled: the idle fiber yields and fibers run again.
IdleYeild(t) ==
    /\ failure = "none"
    /\ pc[t] = "idle"
    /\ \A fd \in Fds : got[t][fd] = {}
    /\ pc' = [pc EXCEPT ![t] = "run"]
    /\ UNCHANGED <<size, tableVars, got, failure>>

-----------------------------------------------------------------------------

Add(a, fd, e) ==
    \E w \in Waiters :
        addEvent(a, fd, e, w) \/ addEventFails(a, fd, e, w) \/ addEventAborts(a, fd, e, w)

Clients ==
    \/ \E a \in Threads, fd \in Fds, e \in Event : Add(a, fd, e)
    \/ \E a \in Threads, fd \in Fds :
          cancelAll(a, fd) \/ \E e \in Event : delEvent(a, fd, e) \/ cancelEvent(a, fd, e)
    \/ \E fd \in Fds : CancelOutside(fd)

Idle(t) ==
    \/ EpollWait(t) \/ IdleYeild(t)
    \/ \E fd \in Fds : SkipEvent(t, fd) \/ TriggerReal(t, fd) \/ TriggerAborts(t, fd)

\* The program has been ended by a failure.
Ended == failure # "none" /\ UNCHANGED vars

Next == Clients \/ (\E t \in Workers : Idle(t)) \/ Ended

Spec == Init /\ [][Next]_vars

-----------------------------------------------------------------------------
(* Properties *)

\* addEvent, delEvent, cancelEvent, cancelAll and idle keep epoll in step with
\* the table, also when two threads work on one descriptor with stale results
\* of epoll_wait: epoll watches what somebody waits for, no more and no less.
\* Only a refused addEvent breaks this: it leaves its event in the table.
KernelMatchesTable == refused = 0 => kernel = events

Pending == {p \in Fds \X Event : p[2] \in events[p[1]]}

\* n_pendingEvent_, which keeps stop() from ending the workers, is the number
\* of events in the table: unless addEvent was refused, none of the six places
\* that change it underflows or leaks.
PendingCounts == refused = 0 => n_pending = Cardinality(Pending)

\* No waiter is lost: whoever addEvent accepted, and nobody woke or removed
\* since, is in the table under its own name.
NoWaiterLost ==
    \A w \in Waiters, fd \in Fds, e \in Event :
        reg[w] = <<fd, e>> => e \in events[fd] /\ ctx[fd][e].who = w

\* addEvent is documented with "添加成功返回0,失败返回-1" (iomanager.h:84: 0 when the
\* event was added, -1 when that failed): as long as no call failed, an event in
\* the table was added by a call that succeeded and that is still waiting.
NoGhost ==
    refused = 0 =>
        \A fd \in Fds : \A e \in events[fd] : \E w \in Waiters : reg[w] = <<fd, e>>

\* The table has an entry for every descriptor somebody waits for: growing it
\* by half of the new descriptor is enough.
TableHoldsFds == \A fd \in Fds : events[fd] # {} => fd < size

\* What makes the assertions of addEvent fail for a client that only waits for
\* events nobody else waits for: an event that a refused addEvent left in the
\* table, or a context that a callback or delEvent left in its second
\* alternative, although addEvent expects "originally, no ctx" (iomanager.cpp:162).
\* Fibers that are woken by events, cancelEvent or cancelAll never meet either.
AddAborts ==
    /\ failure = "twice" => refused > 0
    /\ failure = "ctx" =>
          \E fd \in Fds, e \in Event :
              e \notin events[fd] /\ ctx[fd][e].index = 1 /\ ctx[fd][e].who \notin Fibers

\* triggerEvent asserts that the event it is called for is in the table
\* (iomanager.cpp:80).
TriggerPre == failure # "trigger"

-----------------------------------------------------------------------------
(* What the table promises to its clients and to stop(). *)

Service == INSTANCE EventService
           WITH Events <- Event, Count <- Cardinality,
                pending <- n_pending, faulty <- (refused > 0)

\* The table, epoll and the stale results of epoll_wait together behave as if
\* registrations were taken back in one piece: every registration ends by one
\* wake-up or removal that takes exactly the waiters of the named events of one
\* descriptor, n_pendingEvent_ counts the waiters, and only a refused addEvent
\* can lead to a wake-up nobody asked for.
ImplementsService == Service!Spec
=============================================================================
