------------------------------ MODULE FiberPool ------------------------------
(***************************************************************************)
(* What a pool of worker threads promises about the fibers handed to       *)
(* schedule(), without the list, the latch, the counters, the idle fibers, *)
(* epoll and the timers.  A caller may rely on it with a Scheduler and     *)
(* with the IOManager that derives from it: both implement it.             *)
(***************************************************************************)
CONSTANTS Threads, Fibers

VARIABLES
    queued,   \* fibers that were scheduled and are not taken
    running,  \* pairs <<thread, fiber>>
    waiting,  \* fibers that gave their reference to an event, a timer or a waker
    done,     \* fibers whose callback has returned or thrown
    left,     \* threads that have left run()
    closing,  \* stop() was called
    late,     \* something was scheduled from outside after that
    gap       \* fibers that wait may be overlooked by the test that ends a thread

pvars == <<queued, running, waiting, done, left, closing, late, gap>>

Started  == {f \in Fibers : \E t \in Threads : <<t, f>> \in running}
New      == Fibers \ (queued \cup Started \cup waiting \cup done)
Free(t)  == t \notin left /\ \A f \in Fibers : <<t, f>> \notin running

Init ==
    /\ queued = {} /\ running = {} /\ waiting = {} /\ done = {} /\ left = {}
    /\ closing = FALSE /\ late = FALSE /\ gap \in BOOLEAN

\* schedule() puts f into the queue, called by a fiber or from outside.
Enqueue(f) ==
    /\ queued' = queued \cup {f}
    /\ late' \in {late, late \/ closing}
    /\ UNCHANGED <<running, done, left, closing, gap>>

Submit(f) == f \in New /\ Enqueue(f) /\ UNCHANGED waiting

\* Whoever holds the reference schedules it, once.
Wake(f) == f \in waiting /\ Enqueue(f) /\ waiting' = waiting \ {f}

\* One thread takes the fiber, and it runs nothing else.
Start(t, f) ==
    /\ Free(t)
    /\ f \in queued
    /\ queued' = queued \ {f}
    /\ running' = running \cup {<<t, f>>}
    /\ UNCHANGED <<waiting, done, left, closing, late, gap>>

\* Between the reads of the test of another thread, it is overlooked.
Suspend(t, f) ==
    /\ <<t, f>> \in running
    /\ running' = running \ {<<t, f>>}
    /\ waiting' = waiting \cup {f}
    /\ gap' \in {gap, TRUE}
    /\ UNCHANGED <<queued, done, left, closing, late>>

Finish(t, f) ==
    /\ <<t, f>> \in running
    /\ running' = running \ {<<t, f>>}
    /\ done' = done \cup {f}
    /\ UNCHANGED <<queued, waiting, left, closing, late, gap>>

Stop == closing' = TRUE /\ UNCHANGED <<queued, running, waiting, done, left, late, gap>>

Overlook == gap' = TRUE /\ UNCHANGED <<queued, running, waiting, done, left, closing, late>>

\* A thread may leave before the others have finished their work; the last one
\* leaves no work behind, and no fiber that waits unless it was overlooked.
Leave(t) ==
    /\ closing /\ Free(t)
    /\ Threads \subseteq left \cup {t} /\ ~late =>
          queued = {} /\ running = {} /\ (gap \/ waiting = {})
    /\ left' = left \cup {t}
    /\ UNCHANGED <<queued, running, waiting, done, closing, late, gap>>

Next ==
    \/ \E f \in Fibers : Submit(f) \/ Wake(f)
    \/ \E t \in Threads, f \in Fibers : Start(t, f) \/ Suspend(t, f) \/ Finish(t, f)
    \/ Stop \/ Overlook \/ \E t \in Threads : Leave(t)

Spec == Init /\ [][Next]_pvars
=============================================================================
