---------------------------- MODULE TimerManager ----------------------------
(***************************************************************************)
(* Timer and TimerManager (timer.h, timer.cpp), with the idle threads that *)
(* ask for the next deadline, sleep in epoll_wait and collect the expired  *)
(* callbacks (the timer half of IOManager::idle).                          *)
(*                                                                         *)
(* timers_ is a std::set ordered by Timer::Comparator, which compares      *)
(* next_ and nothing else: insert() ignores a timer whose deadline is      *)
(* already present, and find() returns whichever timer has that deadline.  *)
(* Every method takes mutex_, so each locked section is one step; what     *)
(* happens outside it (the constructor, the first test of reset()) is a    *)
(* step of its own.                                                        *)
(***************************************************************************)
EXTENDS Integers, FiniteSets, FiniteSetsExt

CONSTANTS
    Timers,      \* the Timer objects that can be constructed
    Recurring,   \* those constructed with recurring = true
    Idlers,      \* the worker threads, seen while they are idle
    Periods,     \* the values of ms that clients pass
    MAX_TIMEOUT, \* the longest sleep in epoll_wait
    Wrap,        \* 2^64: uint64_t arithmetic is modulo Wrap
    MaxTime,     \* bound on the clock
    MaxCalls     \* bound on the calls of reset() that overlap

ASSUME PeriodsAssumption == Periods \subseteq Nat /\ Recurring \subseteq Timers
ASSUME TimesAssumption ==
    MAX_TIMEOUT \in Nat /\ Wrap \in Nat \ {0} /\ MaxTime \in Nat /\ MaxCalls \in Nat

VARIABLES
    now,        \* GetCurrentMS()
    life,       \* "none", "made" (constructed, not yet inserted), "live"
    ms,         \* ms_
    next,       \* next_
    cb,         \* cb_ is not empty
    timers,     \* timers_
    tickled,    \* tickled_
    calls,      \* calls of reset() that passed the first test
    pipe,       \* the tickle pipe is ready in epoll
    pc,         \* where each idle thread is
    nap,        \* its sleep: whether a timer was overdue when it asked for the
                \* next one, the first deadline then, when epoll_wait times out
    fired,      \* history: one-shot timers whose callback was listed
    aliased,    \* history: a set operation met another timer with its deadline
    advanced,   \* history: refresh() moved a deadline closer
    undefined   \* history: erase(end()) was executed

timerVars == <<life, ms, next, cb>>
idlerVars == <<pipe, pc, nap>>
history   == <<fired, aliased, advanced, undefined>>
vars == <<now, timerVars, timers, tickled, calls, idlerVars, history>>

Nap == [overdue : BOOLEAN, front : Nat, wake : Nat]
Awake == [overdue |-> FALSE, front |-> 0, wake |-> 0]
Call == [timer : Timers, ms : Periods, from_now : BOOLEAN]

TypeOK ==
    /\ now \in Nat
    /\ life \in [Timers -> {"none", "made", "live"}]
    /\ ms \in [Timers -> Nat]
    /\ next \in [Timers -> Nat]
    /\ cb \in [Timers -> BOOLEAN]
    /\ timers \in SUBSET Timers
    /\ tickled \in BOOLEAN
    /\ calls \in SUBSET Call
    /\ pipe \in BOOLEAN
    /\ pc \in [Idlers -> {"busy", "query", "sleep", "timedout", "tickled", "drain"}]
    /\ nap \in [Idlers -> Nap]
    /\ fired \in SUBSET Timers
    /\ aliased \in BOOLEAN
    /\ advanced \in BOOLEAN
    /\ undefined \in BOOLEAN

Init ==
    /\ now = 0
    /\ life = [t \in Timers |-> "none"]
    /\ ms = [t \in Timers |-> 0]
    /\ next = [t \in Timers |-> 0]
    /\ cb = [t \in Timers |-> FALSE]
    /\ timers = {}
    /\ tickled = FALSE
    /\ calls = {}
    /\ pipe = FALSE
    /\ pc = [i \in Idlers |-> "busy"]
    /\ nap = [i \in Idlers |-> Awake]
    /\ fired = {}
    /\ aliased = FALSE
    /\ advanced = FALSE
    /\ undefined = FALSE

Tick ==
    /\ now < MaxTime
    /\ now' = now + 1
    /\ UNCHANGED <<timerVars, timers, tickled, calls, idlerVars, history>>

-----------------------------------------------------------------------------
(* std::set, ordered by the deadlines d. *)

\* Mutant of Find: lower_bound, and everything behind it.
FindFrom(S, d, n) == {u \in S : d[u] >= n}

\* What find() finds for a timer with deadline n: at most one element.
Find(S, d, n) == {u \in S : d[u] = n}

\* insert() leaves the set alone when an equal element is there.
Insert(S, d, t) == IF Find(S, d, d[t]) = {} THEN S \cup {t} ELSE S

\* Another timer of S has the deadline of t.
Meets(S, d, t) == \E u \in S \ {t} : d[u] = d[t]

\* Mutant of addTimer: only the first timer of an empty set counts as the front.
addTimerFirst(S, d, t) ==
    LET at_front == S = {} IN
    /\ timers' = Insert(S, d, t)
    /\ tickled' = (tickled \/ at_front)
    /\ pipe' = (pipe \/ (at_front /\ ~tickled /\ \E i \in Idlers : pc[i] # "busy"))

\* TimerManager::addTimer(TimerRef), called with mutex_ held: its callee
\* onTimerInsertedAtFront writes to the tickle pipe when some thread is idle.
addTimer(S, d, t) ==
    LET at_front == \A u \in S : d[t] <= d[u] IN
    /\ timers' = Insert(S, d, t)
    /\ tickled' = (tickled \/ at_front)
    /\ pipe' = (pipe \/ (at_front /\ ~tickled /\ \E i \in Idlers : pc[i] # "busy"))

-----------------------------------------------------------------------------
(* Clients. *)

\* The constructor reads the clock before mutex_ is taken.
NewTimer(t, m) ==
    /\ life[t] = "none"
    /\ life' = [life EXCEPT ![t] = "made"]
    /\ ms' = [ms EXCEPT ![t] = m]
    /\ next' = [next EXCEPT ![t] = now + m]
    /\ cb' = [cb EXCEPT ![t] = TRUE]
    /\ UNCHANGED <<now, timers, tickled, calls, idlerVars, history>>

AddTimer(t) ==
    /\ life[t] = "made"
    /\ addTimer(timers, next, t)
    /\ life' = [life EXCEPT ![t] = "live"]
    /\ aliased' = (aliased \/ Meets(timers, next, t))
    /\ UNCHANGED <<now, ms, next, cb, calls, pc, nap, fired,
                   advanced, undefined>>

\* Mutant of Cancel: the timer stays in timers_.
CancelKeeps(t) ==
    /\ life[t] = "live"
    /\ cb[t]
    /\ cb' = [cb EXCEPT ![t] = FALSE]
    /\ UNCHANGED <<now, life, ms, next, timers, tickled, calls, idlerVars, history>>

\* cancel() on a timer that still has its callback; otherwise it returns false.
\* find() may return end(), and erase(end()) is undefined.
Cancel(t) ==
    LET found == Find(timers, next, next[t]) IN
    /\ life[t] = "live"
    /\ cb[t]
    /\ cb' = [cb EXCEPT ![t] = FALSE]
    /\ timers' = timers \ found
    /\ undefined' = (found = {})
    /\ aliased' = (aliased \/ Meets(timers, next, t))
    /\ UNCHANGED <<now, life, ms, next, tickled, calls, idlerVars, fired, advanced>>

\* Mutant of Refresh: the timer is not put back.
RefreshDrops(t) ==
    /\ life[t] = "live"
    /\ cb[t]
    /\ Find(timers, next, next[t]) # {}
    /\ next' = [next EXCEPT ![t] = now + ms[t]]
    /\ timers' = timers \ Find(timers, next, next[t])
    /\ UNCHANGED <<now, life, ms, cb, tickled, calls, idlerVars, history>>

\* refresh() returns false without an effect when cb_ is empty or find() fails.
Refresh(t) ==
    LET found == Find(timers, next, next[t])
        rest  == timers \ found
        d     == [next EXCEPT ![t] = now + ms[t]] IN
    /\ life[t] = "live"
    /\ cb[t]
    /\ found # {}
    /\ next' = d
    /\ timers' = Insert(rest, d, t)
    /\ aliased' = (aliased \/ Meets(timers, next, t) \/ Meets(rest, d, t))
    /\ advanced' = (advanced \/ d[t] < next[t])
    /\ UNCHANGED <<now, life, ms, cb, tickled, calls, idlerVars, fired, undefined>>

\* reset() compares ms_ without the lock ...
ResetTest(t, m, from_now) ==
    /\ life[t] = "live"
    /\ Cardinality(calls) < MaxCalls
    /\ m # ms[t] \/ from_now
    /\ calls' = calls \cup {[timer |-> t, ms |-> m, from_now |-> from_now]}
    /\ UNCHANGED <<now, timerVars, timers, tickled, idlerVars, history>>

\* ... and goes on under it, or returns false: cb_ is empty or find() fails.
Reset(c) ==
    LET t     == c.timer
        found == Find(timers, next, next[t])
        rest  == timers \ found
        d     == IF c.from_now THEN [next EXCEPT ![t] = now + c.ms] ELSE next IN
    /\ cb[t]
    /\ found # {}
    /\ calls' = calls \ {c}
    /\ ms' = [ms EXCEPT ![t] = c.ms]
    /\ next' = d
    /\ addTimer(rest, d, t)
    /\ aliased' = (aliased \/ Meets(timers, next, t) \/ Meets(rest, d, t))
    /\ UNCHANGED <<now, life, cb, pc, nap, fired, advanced, undefined>>

ResetFails(c) ==
    /\ ~cb[c.timer] \/ Find(timers, next, next[c.timer]) = {}
    /\ calls' = calls \ {c}
    /\ UNCHANGED <<now, timerVars, timers, tickled, idlerVars, history>>

-----------------------------------------------------------------------------
(* An idle thread.  run() enters the idle fiber, stopping() asks for the   *)
(* next deadline, epoll_wait sleeps, listExpiredCb collects the callbacks. *)

IdleEnter(i) ==
    /\ pc[i] = "busy"
    /\ pc' = [pc EXCEPT ![i] = "query"]
    /\ UNCHANGED <<now, timerVars, timers, tickled, calls, pipe, nap, history>>

Expired == {t \in timers : next[t] <= now}

Front == Min({next[t] : t \in timers})

\* Mutant of NextTimer: the deadline itself instead of the time that is left.
NextTimerAbsolute == IF timers = {} THEN Wrap - 1 ELSE Front

\* std::max(next_ - now_ms, 0ul) on unsigned numbers: the difference wraps and
\* the maximum changes nothing.  ~0ull stands for no timer.
NextTimer == IF timers = {} THEN Wrap - 1 ELSE (Front - now) % Wrap

\* getNextTimer, and the timeout that idle() passes to epoll_wait.
GetNextTimer(i) ==
    /\ pc[i] = "query"
    /\ tickled' = FALSE
    /\ nap' = [nap EXCEPT ![i] =
                 [overdue |-> (\E t \in timers : next[t] < now),
                  front |-> IF timers = {} THEN now + MAX_TIMEOUT ELSE Front,
                  wake  |-> now + Min({NextTimer, MAX_TIMEOUT})]]
    /\ pc' = [pc EXCEPT ![i] = "sleep"]
    /\ UNCHANGED <<now, timerVars, timers, calls, pipe, history>>

EpollTimeout(i) ==
    /\ pc[i] = "sleep"
    /\ now >= nap[i].wake
    /\ pc' = [pc EXCEPT ![i] = "timedout"]
    /\ nap' = [nap EXCEPT ![i] = Awake]
    /\ UNCHANGED <<now, timerVars, timers, tickled, calls, pipe, history>>

\* The pipe is registered with EPOLLET: one sleeper gets the event.
EpollTickled(i) ==
    /\ pc[i] = "sleep"
    /\ pipe
    /\ pipe' = FALSE
    /\ pc' = [pc EXCEPT ![i] = "tickled"]
    /\ nap' = [nap EXCEPT ![i] = Awake]
    /\ UNCHANGED <<now, timerVars, timers, tickled, calls, history>>

\* The expired timers that insert() accepts again with the deadline now + ms:
\* they are inserted in the order of their old deadlines, so of several with one
\* period the first wins.
Reinserted ==
    {t \in Expired :
        /\ t \in Recurring
        /\ \A u \in timers \ Expired : next[u] # now + ms[t]
        /\ \A u \in Expired \ {t} :
              u \in Recurring /\ ms[u] = ms[t] => next[t] < next[u]}

\* listExpiredCb, and idle() hands every callback to schedule().
ListExpiredCb(i) ==
    /\ pc[i] \in {"timedout", "tickled"}
    /\ timers' = (timers \ Expired) \cup Reinserted
    /\ next' = [t \in Timers |-> IF t \in Expired /\ t \in Recurring
                                 THEN now + ms[t] ELSE next[t]]
    /\ fired' = fired \cup (Expired \ Recurring)
    /\ aliased' = (aliased \/ \E t \in Expired : t \in Recurring /\ t \notin Reinserted)
    /\ pc' = [pc EXCEPT ![i] = IF pc[i] = "tickled" THEN "drain" ELSE "busy"]
    /\ UNCHANGED <<now, life, ms, cb, tickled, calls, pipe, nap,
                   advanced, undefined>>

\* The thread that got the pipe event reads the pipe until it is empty.
Drain(i) ==
    /\ pc[i] = "drain"
    /\ pipe' = FALSE
    /\ pc' = [pc EXCEPT ![i] = "busy"]
    /\ UNCHANGED <<now, timerVars, timers, tickled, calls, nap, history>>

-----------------------------------------------------------------------------

Client ==
    \/ \E t \in Timers, m \in Periods :
          NewTimer(t, m) \/ \E b \in BOOLEAN : ResetTest(t, m, b)
    \/ \E t \in Timers : AddTimer(t) \/ Cancel(t) \/ Refresh(t)
    \/ \E c \in calls : Reset(c) \/ ResetFails(c)

Idler(i) ==
    \/ IdleEnter(i) \/ GetNextTimer(i)
    \/ EpollTimeout(i) \/ EpollTickled(i)
    \/ ListExpiredCb(i) \/ Drain(i)

\* Nothing is said about a program that has executed erase(end()).
Undefined == undefined /\ UNCHANGED vars

Next ==
    \/ ~undefined /\ (Tick \/ Client \/ \E i \in Idlers : Idler(i))
    \/ Undefined

Spec == Init /\ [][Next]_vars

-----------------------------------------------------------------------------
(* Properties *)

\* timers_ stays a set ordered by next_: no operation ever changes the deadline
\* of a timer while it is inside, and no two elements compare equal.
KeysDistinct ==
    \A t, u \in timers : next[t] = next[u] => t = u

\* cancel() sticks, whatever refresh() and reset() run beside it and whichever
\* timer find() returned: a timer in timers_ has its callback, so listExpiredCb
\* never hands an empty std::function to schedule().
ManagedHasCb == \A t \in timers : life[t] = "live" /\ cb[t]

\* addTimer() is documented as adding the timer (timer.h:95, "添加定时器"): a timer
\* that was added and neither cancelled nor, unless recurring, fired is in timers_.
Managed ==
    \A t \in Timers :
        life[t] = "live" /\ cb[t] /\ t \notin fired => t \in timers

\* The only way to lose a timer is a deadline it shares with another one.
LostOnlyByAliasing == ~aliased /\ ~undefined => Managed

\* cancel() erases an iterator that find() did not find (undefined behaviour)
\* only when the timer it is called on has already fired, although cancel() is
\* documented without that condition (timer.h:22, "取消定时器"), or when a deadline
\* was shared: no interleaving of refresh(), reset() and expiry adds another case.
UndefinedOnlyAfterExpiry == undefined => aliased \/ \E t \in fired : ~cb[t]

\* A one-shot timer fires once: refresh() and reset() of a timer that has fired do
\* not find it and leave it out of timers_, although fired timers keep their callback
\* (timer.cpp:139), also when they lost a race with listExpiredCb.  Exception: another
\* timer has the deadline it had, and they take that one out and put this one in.
FiresOnce == ~aliased => fired \cap timers = {}

Asleep(i) == pc[i] = "sleep"

\* getNextTimer() is documented as the interval to the next timer (timer.h:115):
\* a thread that asked for it does not sleep past that timer's deadline, unless
\* the deadline had already passed and the unsigned difference wrapped.
SleepsUntilFront ==
    \A i \in Idlers : Asleep(i) /\ ~nap[i].overdue => nap[i].wake <= nap[i].front

\* No timer is forgotten by the sleeping threads: whenever all of them sleep in
\* epoll_wait, and none met an overdue timer when it asked, one of them wakes up
\* in time for every timer, also for those added, refreshed or reset since, or
\* the pipe is readable.  refresh() is documented as setting the execution time
\* anew (timer.h:27, "刷新设置定时器的执行时间").
SomeoneWakes ==
    Idlers # {} /\ (\A i \in Idlers : Asleep(i) /\ ~nap[i].overdue) =>
        \/ pipe
        \/ \A t \in timers : \E i \in Idlers : nap[i].wake <= next[t]

\* The tickled_ flag, the tickle that is skipped when nobody is idle and the
\* draining of the pipe lose no wake-up: only refresh() of a timer whose period
\* was shortened by reset(ms, false) does.
WakesUnlessAdvanced == ~advanced => SomeoneWakes
=============================================================================
