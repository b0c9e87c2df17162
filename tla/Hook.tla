-------------------------------- MODULE Hook --------------------------------
(***************************************************************************)
(* The hooked system calls (hook.cpp) and the descriptor contexts they     *)
(* keep (fdmanager.h, fdmanager.cpp).  A fiber that would block waits for  *)
(* an event of the IOManager, guarded by a condition timer, while other    *)
(* fibers and threads close the descriptor and the kernel reuses its       *)
(* number.                                                                 *)
(*                                                                         *)
(* The event table is reduced to who waits for which event and what epoll  *)
(* watches; IOManager has the whole of it.  One action is one critical     *)
(* section or one system call.  Calls that return at once and change       *)
(* nothing (unhooked threads, unknown descriptors, errors of the kernel)   *)
(* are no steps.  epoll_ctl refuses a descriptor it does not know, and in  *)
(* addEvent also for reasons of its own (ENOMEM, ENOSPC).                  *)
(***************************************************************************)
EXTENDS Integers, FiniteSets

CONSTANTS
    Fds,         \* descriptors, natural numbers
    Fibers,      \* fibers on workers of an IOManager: their threads are hooked
    Nobody,      \* no fiber, no context
    MaxSockets,  \* bound on the sockets that are ever made
    MaxOut,      \* bound on the callbacks of one fiber that are on their way
    MaxRefused   \* bound on the fibers whom epoll_ctl refuses, once each

ASSUME HookAssumption ==
    /\ Fds \subseteq Nat /\ Nobody \notin Fibers
    /\ MaxSockets \in Nat /\ MaxOut \in Nat /\ MaxRefused \in Nat

VARIABLES
    sock,     \* the open socket behind each number, by its serial number; 0: none
    made,     \* the sockets made so far
    known,    \* the numbers the program holds as open
    size,     \* datas_.size()
    datas,    \* FdManager::datas_
    table,    \* FdContext::events and the fiber to schedule, per event
    armed,    \* what epoll watches
    pc,       \* where each fiber is
    call,     \* the call it is in: kind, descriptor, event, whether it is timed, and
              \* (history) the socket it was called for
    timer,    \* the timer of the call: "none", "set", "out" of timers_ to be run, or
              \* "lost": dropped or erased for another with the same deadline
    fired,    \* callbacks taken out of timers_, each with its number, and how far they are
    extra,    \* the fibers that fiber_list_ holds once more, though they did not wait
    cancelled, \* the fibers whose timer_info::cancelled is set
    woke,     \* history: who scheduled the fiber last
    marks,    \* history: "early", "raced" and "plain", see the properties
    refused,  \* history: the fibers whom epoll_ctl refused for reasons of its own
    failed    \* addEvent's assertion failed: the program has ended

fdVars    == <<sock, made, known, size, datas>>
eventVars == <<table, armed>>
waitVars  == <<call, timer, fired, cancelled, woke, marks, extra, refused>>
vars == <<fdVars, eventVars, pc, waitVars, failed>>

Event == {"READ", "WRITE"}
NoCall == [kind |-> "none", fd |-> 0, ev |-> "READ", timed |-> FALSE, sock |-> 0]

Init ==
    /\ sock = [fd \in Fds |-> 0] /\ made = 0 /\ known = {}
    /\ size = 64
    /\ datas = [fd \in Fds |-> Nobody]
    /\ table = [fd \in Fds |-> [e \in Event |-> Nobody]]
    /\ armed = [fd \in Fds |-> {}]
    /\ pc = [f \in Fibers |-> "run"]
    /\ call = [f \in Fibers |-> NoCall]
    /\ timer = [f \in Fibers |-> "none"]
    /\ fired = {} /\ cancelled = {}
    /\ woke = [f \in Fibers |-> "none"]
    /\ marks = {} /\ extra = {} /\ refused = {}
    /\ failed = FALSE

Goto(f, l) == pc' = [pc EXCEPT ![f] = l]
At(f, l)   == ~failed /\ pc[f] = l

-----------------------------------------------------------------------------
(* socket, and FdManager::get(fd, true) *)

\* socket_f, or accept_f at the end of an accept: the kernel hands out a free
\* number, which nobody else knows yet.
NewSocket(fd) ==
    /\ sock[fd] = 0
    /\ made < MaxSockets
    /\ made' = made + 1
    /\ sock' = [sock EXCEPT ![fd] = made + 1]

Socket(f, fd) ==
    /\ At(f, "run")
    /\ NewSocket(fd)
    /\ call' = [call EXCEPT ![f] = [NoCall EXCEPT !.fd = fd]]
    /\ Goto(f, "get")
    /\ UNCHANGED <<known, size, datas, eventVars, timer, fired, cancelled, woke,
                   marks, extra, refused, failed>>

\* A context is there already: it is returned as it is.
GetFound(f) ==
    /\ At(f, "get")
    /\ datas[call[f].fd] # Nobody
    /\ known' = known \cup {call[f].fd}
    /\ call' = [call EXCEPT ![f] = NoCall]
    /\ Goto(f, "run")
    /\ UNCHANGED <<sock, made, size, datas, eventVars, timer, fired, cancelled,
                   woke, marks, extra, refused, failed>>

\* The shared lock is given up, nobody looks again.
GetMissing(f) ==
    /\ At(f, "get")
    /\ datas[call[f].fd] = Nobody
    /\ Goto(f, "create")
    /\ UNCHANGED <<fdVars, eventVars, waitVars, failed>>

\* FdCtx::init: fstat tells whether there is a socket behind the number, and a
\* socket is made non-blocking.
FdCtx(fd) == [sock |-> sock[fd], nonblock |-> sock[fd] # 0, timeout |-> FALSE]

\* datas_.size() when a context for fd is put in.
Resized(fd) == IF fd >= size THEN (fd * 3) \div 2 ELSE size

GetCreate(f) ==
    LET fd == call[f].fd IN
    /\ At(f, "create")
    /\ size' = Resized(fd)
    /\ datas' = [datas EXCEPT ![fd] = FdCtx(fd)]
    /\ known' = known \cup {fd}
    /\ call' = [call EXCEPT ![f] = NoCall]
    /\ Goto(f, "run")
    /\ UNCHANGED <<sock, made, eventVars, timer, fired, cancelled, woke, marks,
                   extra, refused, failed>>

\* FdCtx::setNonblock and the hooked setsockopt with SO_RCVTIMEO or SO_SNDTIMEO.
SetOption(f, fd, option) ==
    /\ At(f, "run")
    /\ fd \in known
    /\ datas[fd] # Nobody
    /\ datas' = [datas EXCEPT ![fd] = IF option = "timeout"
                                      THEN [@ EXCEPT !.timeout = TRUE]
                                      ELSE [@ EXCEPT !.nonblock = FALSE]]
    /\ UNCHANGED <<sock, made, known, size, eventVars, pc, waitVars, failed>>

-----------------------------------------------------------------------------
(* connect_with_timeout and do_io up to the yeild *)

\* Programs keep to one fiber per socket and event.  A call on a socket that was
\* closed may still be on its way when the number is in use again.
Free(fd, e) == \A f \in Fibers : call[f].kind # "none" =>
    <<call[f].fd, call[f].ev, call[f].sock>> # <<fd, e, sock[fd]>>

Begin(f, kind, fd, e, timed) ==
    /\ At(f, "run")
    /\ fd \in known
    /\ Free(fd, e)
    /\ datas[fd] # Nobody
    /\ call' = [call EXCEPT ![f] =
          [kind |-> kind, fd |-> fd, ev |-> e, timed |-> timed, sock |-> sock[fd]]]
    /\ Goto(f, "call")
    /\ UNCHANGED <<fdVars, eventVars, timer, fired, cancelled, woke, marks, extra,
                   refused, failed>>

\* The context is looked up; the caller may ask for no timeout.
Connect(f, fd, timed) == datas[fd] # Nobody /\ datas[fd].sock # 0 /\ Begin(f, "connect", fd, "WRITE", timed)

\* do_io waits only where the context says blocking.
DoIo(f, fd, e) ==
    /\ datas[fd] # Nobody /\ datas[fd].sock # 0 /\ ~datas[fd].nonblock
    /\ Begin(f, "io", fd, e, datas[fd].timeout)

\* accept, read, readv, recv, recvfrom and recvmsg wait for READ, write, writev,
\* send, sendto and sendmsg for WRITE.
IoCall(f, fd) == \E e \in Event : DoIo(f, fd, e)

\* Mutant of Returned: callbacks hold their timer_info.
ReturnedAlive(f) ==
    /\ cancelled' = cancelled \ {f}
    /\ marks' = marks \ {<<f, "early">>, <<f, "raced">>}
    /\ UNCHANGED fired

\* The call returns and lets go of tinfo.  A callback that has not begun finds
\* winfo.lock() empty and does nothing; one that has begun goes on, without effect
\* on the fiber's next tinfo.
Returned(f) ==
    /\ cancelled' = cancelled \ {f}
    /\ marks' = marks \ {<<f, "early">>, <<f, "raced">>}
    /\ fired' = {IF c.by = f THEN [c EXCEPT !.own = FALSE] ELSE c :
                    c \in {d \in fired : d.by # f \/ d.step # "out"}}

\* connect_f says EINPROGRESS, fun says EAGAIN: addConditionTimer, which touches nothing
\* that others could see in between.  timers_ takes no second timer with a deadline it
\* has, that of another call or of a sleep(), and addConditionTimer says nothing.
CallBlocks(f) ==
    /\ At(f, "call")
    /\ sock[call[f].fd] # 0
    /\ \E t \in (IF call[f].timed THEN {"set", "lost"} ELSE {"none"}) :
          timer' = [timer EXCEPT ![f] = t]
    /\ Goto(f, "add")
    /\ UNCHANGED <<fdVars, eventVars, call, fired, cancelled, woke, marks, extra,
                   refused, failed>>

\* Success, or an error such as EBADF.
CallReturns(f) ==
    /\ At(f, "call")
    /\ Returned(f)
    /\ call' = [call EXCEPT ![f] = NoCall]
    /\ Goto(f, "run")
    /\ UNCHANGED <<fdVars, eventVars, timer, woke, extra, refused, failed>>

\* timer->cancel() finds by the deadline: once the own timer is not in timers_ it may
\* erase that of another call.  (When it finds none it erases end(): TimerManager.)
CancelTimer(f) ==
    \/ timer' = [timer EXCEPT ![f] = "none"]
    \/ /\ timer[f] \in {"out", "lost"}
       /\ \E g \in Fibers \ {f} :
             /\ timer[g] = "set"
             /\ timer' = [timer EXCEPT ![f] = "none", ![g] = "lost"]

\* Some close of fd is past its cancelAll.
Closing(fd) == \E f \in Fibers : pc[f] \in {"del", "close"} /\ call[f].fd = fd

Watched(fd) == {e \in Event : table[fd][e] # Nobody}

\* epoll_ctl with MOD when the table has events, else ADD.
CtlAdds(fd) == sock[fd] # 0 /\ (Watched(fd) = {}) = (armed[fd] = {})

\* addEvent, and the yeild.  MOD arms everything the table has.
AddEvent(f) ==
    LET fd == call[f].fd IN
    /\ At(f, "add")
    /\ table[fd][call[f].ev] = Nobody
    /\ CtlAdds(fd)
    /\ table' = [table EXCEPT ![fd][call[f].ev] = f]
    /\ armed' = [armed EXCEPT ![fd] = Watched(fd) \cup {call[f].ev}]
    /\ marks' = IF Closing(fd) THEN marks \cup {<<f, "raced">>} ELSE marks
    /\ Goto(f, "wait")
    /\ UNCHANGED <<fdVars, call, timer, fired, cancelled, woke, extra, refused, failed>>

\* epoll_ctl refuses.  The table keeps the event; do_io returns, connect goes on to
\* ask for SO_ERROR.
AddEventFails(f) ==
    LET fd == call[f].fd IN
    /\ At(f, "add")
    /\ table[fd][call[f].ev] = Nobody
    /\ \/ ~CtlAdds(fd) /\ UNCHANGED refused
       \/ /\ CtlAdds(fd) /\ f \notin refused
          /\ Cardinality(refused) < MaxRefused
          /\ refused' = refused \cup {f}
    /\ table' = [table EXCEPT ![fd][call[f].ev] = f]
    /\ woke' = [woke EXCEPT ![f] = "refused"]
    /\ Goto(f, "woken")
    /\ UNCHANGED <<fdVars, armed, call, timer, fired, cancelled, marks, extra, failed>>

\* addEvent asserts that the event is not there yet.
AddEventAborts(f) ==
    /\ At(f, "add")
    /\ table[call[f].fd][call[f].ev] # Nobody
    /\ failed' = TRUE
    /\ UNCHANGED <<fdVars, eventVars, pc, waitVars>>

-----------------------------------------------------------------------------
(* What ends the wait: the event, the timer, or close *)

\* f waits, and for this entry of the table.
Waits(f, fd, e) == pc[f] = "wait" /\ call[f].fd = fd /\ call[f].ev = e

\* The fibers that triggerEvent schedules.  One that waits goes on.
Triggered(fd, E) == {table[fd][e] : e \in E}
Woken(fd, E) == [f \in Fibers |-> IF pc[f] = "wait" /\ f \in Triggered(fd, E) THEN "woken" ELSE pc[f]]

\* Mutant of Trigger: the events stay.
TriggerKeeps(fd, E, by) ==
    /\ woke' = [f \in Fibers |-> IF pc[f] = "wait" /\ f \in Triggered(fd, E) THEN by ELSE woke[f]]
    /\ UNCHANGED <<eventVars, extra>>

\* The events E of fd are removed, MOD arms what is left, and the fibers are scheduled.
\* A fiber may not wait, or for something else: an event of a refused addEvent has
\* been in the table since.  Then fiber_list_ holds it once more, at most once, for a
\* fiber is refused at most once.
Trigger(fd, E, by) ==
    /\ table' = [table EXCEPT ![fd] = [e \in Event |-> IF e \in E THEN Nobody ELSE @[e]]]
    /\ armed' = [armed EXCEPT ![fd] = Watched(fd) \ E]
    /\ woke' = [f \in Fibers |->
          IF pc[f] # "wait" \/ f \notin Triggered(fd, E) THEN woke[f]
          ELSE IF \E e \in E : table[fd][e] = f /\ Waits(f, fd, e) THEN by ELSE "again"]
    /\ extra' = extra \cup {f \in Fibers \cap Triggered(fd, E) :
                              pc[f] # "wait" \/ \A e \in Event : e \in E /\ table[fd][e] = f}

EventOccurs(fd, e) ==
    /\ ~failed
    /\ e \in armed[fd]
    /\ Trigger(fd, {e}, "event")
    /\ pc' = Woken(fd, {e})
    /\ UNCHANGED <<fdVars, call, timer, fired, cancelled, marks, refused, failed>>

\* A fiber that fiber_list_ still held is resumed as soon as it has yeilded.
ResumedAgain(f) ==
    /\ At(f, "wait")
    /\ f \in extra
    /\ extra' = extra \ {f}
    /\ woke' = [woke EXCEPT ![f] = "again"]
    /\ Goto(f, "woken")
    /\ UNCHANGED <<fdVars, eventVars, call, timer, fired, cancelled, marks, refused, failed>>

\* listExpiredCb takes the timer out and schedules its callback.
TimerExpires(f) ==
    /\ ~failed
    /\ timer[f] = "set"
    /\ timer' = [timer EXCEPT ![f] = "out"]
    /\ \E n \in 1 .. MaxOut :
          /\ \A c \in fired : c.by = f => c.no # n
          /\ fired' = fired \cup {[by |-> f, no |-> n, fd |-> call[f].fd, ev |-> call[f].ev,
                                  step |-> "out", own |-> TRUE]}
    /\ UNCHANGED <<fdVars, eventVars, pc, call, cancelled, woke, marks, extra, refused, failed>>

\* The callback locks winfo and looks at t->cancelled.
CallbackTests(c) ==
    /\ ~failed
    /\ c \in fired /\ c.step = "out"
    /\ fired' = IF c.by \in cancelled THEN fired \ {c}
                ELSE (fired \ {c}) \cup {[c EXCEPT !.step = "tested"]}
    /\ UNCHANGED <<fdVars, eventVars, pc, call, timer, cancelled, woke, marks, extra,
                   refused, failed>>

\* t->cancelled = ETIMEDOUT
CallbackMarks(c) ==
    /\ ~failed
    /\ c \in fired /\ c.step = "tested"
    /\ fired' = (fired \ {c}) \cup {[c EXCEPT !.step = "marked"]}
    /\ cancelled' = IF c.own THEN cancelled \cup {c.by} ELSE cancelled
    /\ UNCHANGED <<fdVars, eventVars, pc, call, timer, woke, marks, extra, refused, failed>>

\* (history) How the callback c ends the wait it finds: late, when its call has
\* returned; its own; that of a call on another socket with the same number; or one
\* it has no business with.
Ends(c) ==
    LET g == table[c.fd][c.ev] IN
    IF ~c.own THEN "late"
    ELSE IF g = c.by THEN "timeout"
    ELSE IF call[c.by].kind # "none" /\ call[c.by].sock # call[g].sock THEN "reused"
    ELSE "stray"

\* Mutant of CallbackCancels: the event is not cancelled.
CallbackForgets(c) ==
    /\ ~failed
    /\ c \in fired /\ c.step = "marked"
    /\ fired' = fired \ {c}
    /\ UNCHANGED <<fdVars, eventVars, pc, call, timer, cancelled, woke, marks, extra,
                   refused, failed>>

\* cancelEvent, which does nothing when the event is not in the table or epoll
\* refuses.
CallbackCancels(c) ==
    /\ ~failed
    /\ c \in fired /\ c.step = "marked"
    /\ fired' = fired \ {c}
    /\ marks' = IF c.own /\ pc[c.by] # "wait" THEN marks \cup {<<c.by, "early">>} ELSE marks
    /\ IF c.ev \in Watched(c.fd) /\ armed[c.fd] # {}
       THEN Trigger(c.fd, {c.ev}, Ends(c)) /\ pc' = Woken(c.fd, {c.ev})
       ELSE UNCHANGED <<eventVars, pc, woke, extra>>
    /\ UNCHANGED <<fdVars, call, timer, cancelled, refused, failed>>

\* tinfo->cancelled
TimedOut(f) == f \in cancelled

\* Resumed: cancel() the timer, and look at tinfo->cancelled.  After a refused
\* addEvent do_io returns -1 at once.
ResumeReturns(f) ==
    /\ At(f, "woken")
    /\ call[f].kind = "io"
    /\ TimedOut(f) \/ woke[f] = "refused"
    /\ CancelTimer(f)
    /\ Returned(f)
    /\ call' = [call EXCEPT ![f] = NoCall]
    /\ woke' = [woke EXCEPT ![f] = "none"]
    /\ Goto(f, "run")
    /\ UNCHANGED <<fdVars, eventVars, extra, refused, failed>>

\* do_io tries again.
ResumeRetries(f) ==
    /\ At(f, "woken")
    /\ call[f].kind = "io"
    /\ ~TimedOut(f) /\ woke[f] # "refused"
    /\ CancelTimer(f)
    /\ woke' = [woke EXCEPT ![f] = "none"]
    /\ Goto(f, "call")
    /\ UNCHANGED <<fdVars, eventVars, call, fired, cancelled, marks, extra, refused, failed>>

\* connect returns -1 after a timeout, else what SO_ERROR says.
ResumeConnect(f) ==
    /\ At(f, "woken")
    /\ call[f].kind = "connect"
    /\ CancelTimer(f)
    /\ Returned(f)
    /\ \/ /\ woke' = [woke EXCEPT ![f] = "none"]
          /\ call' = [call EXCEPT ![f] = NoCall]
          /\ Goto(f, "run")
       \/ /\ woke[f] = "refused" \/ ~TimedOut(f)
          /\ sock[call[f].fd] # 0
          /\ Goto(f, "connected")
          /\ UNCHANGED <<call, woke>>
    /\ UNCHANGED <<fdVars, eventVars, extra, refused, failed>>

\* The program goes on after connect returned 0.
Connected(f) ==
    /\ At(f, "connected")
    /\ call' = [call EXCEPT ![f] = NoCall]
    /\ woke' = [woke EXCEPT ![f] = "none"]
    /\ Goto(f, "run")
    /\ UNCHANGED <<fdVars, eventVars, timer, fired, cancelled, marks, extra, refused, failed>>

-----------------------------------------------------------------------------
(* close, and threads that are not hooked *)

\* The context is there: cancelAll, which does nothing when the table is empty or
\* epoll refuses.
CloseCancels(f, fd) ==
    /\ At(f, "run")
    /\ fd \in known
    /\ datas[fd] # Nobody
    /\ known' = known \ {fd}
    /\ call' = [call EXCEPT ![f] = [NoCall EXCEPT !.fd = fd]]
    /\ IF armed[fd] # {}
       THEN /\ Trigger(fd, Watched(fd), "close")
            /\ pc' = [Woken(fd, Watched(fd)) EXCEPT ![f] = "del"]
       ELSE Goto(f, "del") /\ UNCHANGED <<eventVars, woke, extra>>
    /\ UNCHANGED <<sock, made, size, datas, timer, fired, cancelled, marks, refused, failed>>

\* Mutant of CloseDel: the context is left.
CloseDelNothing(f) ==
    /\ At(f, "del")
    /\ Goto(f, "close")
    /\ UNCHANGED <<fdVars, eventVars, waitVars, failed>>

\* FdManager::del
CloseDel(f) ==
    /\ At(f, "del")
    /\ datas' = [datas EXCEPT ![call[f].fd] = Nobody]
    /\ Goto(f, "close")
    /\ UNCHANGED <<sock, made, known, size, eventVars, waitVars, failed>>

\* close_f: epoll forgets the descriptor with the socket.
Close(f) ==
    /\ At(f, "close")
    /\ sock' = [sock EXCEPT ![call[f].fd] = 0]
    /\ armed' = [armed EXCEPT ![call[f].fd] = {}]
    /\ call' = [call EXCEPT ![f] = NoCall]
    /\ Goto(f, "run")
    /\ UNCHANGED <<made, known, size, datas, table, timer, fired, cancelled, woke,
                   marks, extra, refused, failed>>

\* A hooked close of a descriptor without context, or the close of a thread that is
\* not hooked, which leaves the context.
PlainClose(fd) ==
    /\ ~failed
    /\ fd \in known
    /\ known' = known \ {fd}
    /\ sock' = [sock EXCEPT ![fd] = 0]
    /\ armed' = [armed EXCEPT ![fd] = {}]
    /\ marks' = marks \cup {<<f, "raced">> : f \in {table[fd][e] : e \in Watched(fd)}}
                      \cup (IF datas[fd] # Nobody THEN {<<fd, "plain">>} ELSE {})
    /\ UNCHANGED <<made, size, datas, table, pc, call, timer, fired, cancelled, woke,
                   extra, refused, failed>>

PlainSocket(fd) ==
    /\ ~failed
    /\ NewSocket(fd)
    /\ known' = known \cup {fd}
    /\ UNCHANGED <<size, datas, eventVars, pc, waitVars, failed>>

-----------------------------------------------------------------------------

Client(f) == \E fd \in Fds :
    \/ Socket(f, fd) \/ CloseCancels(f, fd)
    \/ \E option \in {"timeout", "blocking"} : SetOption(f, fd, option)
    \/ \E timed \in BOOLEAN : Connect(f, fd, timed)
    \/ IoCall(f, fd)

\* What goes on by itself in fiber f.
Step(f) ==
    \/ GetFound(f) \/ GetMissing(f) \/ GetCreate(f)
    \/ CallBlocks(f) \/ CallReturns(f)
    \/ AddEvent(f) \/ AddEventFails(f) \/ AddEventAborts(f)
    \/ ResumedAgain(f) \/ ResumeReturns(f) \/ ResumeRetries(f) \/ ResumeConnect(f) \/ Connected(f)
    \/ CloseDel(f) \/ Close(f)

Environment == \E fd \in Fds :
    PlainSocket(fd) \/ PlainClose(fd) \/ \E e \in Event : EventOccurs(fd, e)

Callback(f) == \E c \in fired :
    c.by = f /\ (CallbackTests(c) \/ CallbackMarks(c) \/ CallbackCancels(c))

\* The program ended with an assertion.
Aborted == failed /\ UNCHANGED vars

Next ==
    \/ \E f \in Fibers : Client(f) \/ Step(f) \/ TimerExpires(f) \/ Callback(f)
    \/ Environment \/ Aborted

Spec == Init /\ [][Next]_vars

-----------------------------------------------------------------------------
(* Properties *)

\* A descriptor the program holds has the context of the socket behind it, with
\* that socket's timeouts, or none: close() deletes the context before the kernel
\* can reuse the number, and nobody creates one twice (fdmanager.cpp:88,
\* hook.cpp:316).  Exception: an unhooked thread closed the descriptor.  Every
\* context lies inside datas_, also that of the first descriptor beyond its end.
ContextIsCurrent ==
    \A fd \in Fds : datas[fd] # Nobody =>
        /\ fd < size
        /\ fd \in known /\ <<fd, "plain">> \notin marks => datas[fd].sock = sock[fd]

\* What epoll watches is in the table, and the fiber in the table waits for exactly
\* that: nobody is scheduled who does not wait.  A fiber that waits is watched for,
\* unless a close got between: the hooked one after its cancelAll, or the close of
\* an unhooked thread.  Exception: a fiber whose addEvent epoll_ctl refused for
\* reasons of its own has an event in the table that the next MOD arms
\* (iomanager.cpp:159, 181), and is then resumed before its time.
WaitersMatchEpoll ==
    ~failed =>
      /\ \A fd \in Fds : \A e \in armed[fd] :
            \E f \in Fibers : table[fd][e] = f /\ (Waits(f, fd, e) \/ f \in refused)
      /\ \A f \in Fibers : pc[f] = "wait" /\ <<f, "raced">> \notin marks =>
            call[f].ev \in armed[call[f].fd]

\* A wait with a timeout does not lose what will end it: its timer is in timers_, or the
\* callback is on its way and will not be content with an earlier mark.  Exceptions:
\* timers_ has not its timer, which was dropped or erased for another with the same
\* deadline (timer.cpp:148, 40); the callback, or a late one of the wait before, cancelled
\* while the fiber was not waiting (hook.cpp:113, 212); or a close got between.
TimedWaitsGuarded ==
    \A f \in Fibers : pc[f] = "wait" /\ call[f].timed =>
        \/ timer[f] \in {"set", "lost"}
        \/ \E c \in fired : /\ c.by = f /\ c.own
                            /\ c.fd = call[f].fd /\ c.ev = call[f].ev
                            /\ c.step = "out" => f \notin cancelled
        \/ <<f, "early">> \in marks \/ <<f, "raced">> \in marks

\* connect never says 0 after its own timeout, and a timeout ends a wait that is not
\* its own only in two cases: its call goes on, on another socket with the same
\* number; or its callback was past its test when the call returned.
ConnectHonest ==
    \A f \in Fibers : /\ pc[f] = "connected" => woke[f] # "timeout"
                      /\ woke[f] # "stray"

\* A call gives up with ETIMEDOUT only for a timeout of its own: tinfo->cancelled is
\* set only for a fiber that is still in the call whose timer set it, also when the
\* callback comes after the event, after do_io has tried again or after the next
\* call has begun, and never in a call that has no timeout (hook.cpp:113, 214).
TimeoutsAreOwn ==
    \A f \in cancelled : /\ pc[f] \in {"call", "add", "wait", "woken"}
                        /\ call[f].timed

\* The socket that f called for is closed.
Outdated(f) == call[f].sock # sock[call[f].fd]

\* addEvent's assertion fails only for an event that a close left behind and epoll
\* no longer knows, when a call on a closed socket meets one on its successor, or
\* for an event of a fiber whom epoll_ctl refused: the refused one, or the one it
\* still waited for when it was resumed before its time.
AbortsOnlyByOrphan ==
    failed => \E f \in Fibers :
        /\ pc[f] = "add"
        /\ \/ call[f].ev \in Watched(call[f].fd) \ armed[call[f].fd]
           \/ \E g \in Fibers : /\ table[call[f].fd][call[f].ev] = g
                                /\ g \in refused \/ (g # f /\ (Outdated(f) \/ Outdated(g)))

\* Timer::cancel is documented to cancel the timer (timer.h:22): the call finds it
\* in timers_.
CancelDefined == \A f \in Fibers : ~(pc[f] = "woken" /\ timer[f] = "out")
=============================================================================
