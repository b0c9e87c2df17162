-------------------------- MODULE SchedulerProofs --------------------------
(***************************************************************************)
(* Theorems about Scheduler, for every finite set of workers and every set *)
(* of fibers.  The invariant that carries them relates the position of a   *)
(* worker in run() to the state_ of the fiber it holds, and the two        *)
(* counters to the numbers of workers at certain positions.                *)
(***************************************************************************)
EXTENDS Scheduler, ListFacts, FiniteSetTheorems

-----------------------------------------------------------------------------
(* The inductive invariant *)

\* A worker's position determines the state of the fiber in its variable fbr.
HeldState ==
    \A t \in Threads :
        /\ Holding(t) => fbr[t] \in Fibers
        /\ pc[t] = "check" => state[fbr[t]] \in {"INIT", "HOLD"} \cup Finished
        /\ pc[t] = "call" => state[fbr[t]] \in {"INIT", "HOLD"}
        /\ pc[t] \in {"fiber", "armed"} => state[fbr[t]] = "EXEC"
        /\ pc[t] = "ended" => state[fbr[t]] \in Finished
        /\ pc[t] \in {"ret", "settle"} => state[fbr[t]] \in Finished \cup {"EXEC"}

\* No two workers hold the same fiber.
HeldOnce ==
    \A t1, t2 \in Threads :
        t1 # t2 /\ Holding(t1) /\ Holding(t2) => fbr[t1] # fbr[t2]

\* What is scheduled was constructed, what is with a waker has been started and
\* has not finished.
QueuedState ==
    /\ \A f \in Listed : state[f] \in {"INIT", "HOLD", "EXEC"} \cup Finished
    /\ \A f \in waiting : state[f] \in {"HOLD", "EXEC"}

\* The counters are the numbers of workers at the positions between their
\* increment and their decrement.
ActiveSet == {t \in Threads : Counted(t)}
IdleSet   == {t \in Threads : pc[t] \in {"idle", "idleret"}}

ActiveCount == n_active_thread = Cardinality(ActiveSet)
IdleCount   == n_idle_thread = Cardinality(IdleSet)

\* A fiber that is in the list while a worker still holds it is on its way to
\* yeild(): it has been woken early.
ListedHeld ==
    \A t \in Threads : Holding(t) /\ fbr[t] \in Listed => state[fbr[t]] = "EXEC"

FiberInv == HeldState /\ HeldOnce /\ QueuedState /\ ListedHeld /\ NoFiberLost
CountInv == ActiveCount /\ IdleCount


\* Workers leave run() only after their idle fiber ended, and stop() returns only
\* after all of them did.
ExitInv ==
    /\ \A t \in Threads : pc[t] = "done" => idle_state[t] = "TERM"
    /\ main = "joined" => \A t \in Threads : pc[t] = "done"

IInv == TypeOK /\ FiberInv /\ CountInv /\ ExitInv /\ QuietOnceStopping

-----------------------------------------------------------------------------
(* The counters *)

LEMMA CountTypes ==
    ASSUME CountInv
    PROVE  n_active_thread \in Nat /\ n_idle_thread \in Nat
<1>1. IsFiniteSet(ActiveSet) /\ IsFiniteSet(IdleSet)
  BY ThreadsAssumption, FS_Subset DEF ActiveSet, IdleSet
<1> QED
  BY <1>1, FS_CardinalityType DEF CountInv, ActiveCount, IdleCount

LEMMA CountStep ==
    ASSUME TypeOK, CountInv, [Next]_vars
    PROVE  CountInv'
<1>f. IsFiniteSet(ActiveSet) /\ IsFiniteSet(IdleSet)
  BY ThreadsAssumption, FS_Subset DEF ActiveSet, IdleSet
<1> DEFINE Same == /\ ActiveSet' = ActiveSet /\ IdleSet' = IdleSet
                   /\ n_active_thread' = n_active_thread
                   /\ n_idle_thread' = n_idle_thread
<1>s. Same => CountInv'
  BY DEF CountInv, ActiveCount, IdleCount
<1>1. CASE Owner
  <2>1. ASSUME NEW t \in Threads, Spawn(t) PROVE Same
    BY <2>1 DEF Spawn, TypeOK, ActiveSet, IdleSet, Counted
  <2>2. ASSUME Start \/ StartDone \/ Stop \/ Join PROVE Same
    BY <2>2 DEF Start, StartDone, Stop, Join, workerVars, ActiveSet, IdleSet, Counted
  <2> QED BY <1>1, <1>s, <2>1, <2>2 DEF Owner
<1>2. CASE Schedule \/ Terminated \/ UNCHANGED vars
  BY <1>2, <1>s DEF Schedule, ScheduleCb, ScheduleFiber, ScheduleEnded, Terminated, vars, workerVars,
                    ActiveSet, IdleSet, Counted
<1>3. ASSUME NEW t \in Threads, Worker(t) PROVE CountInv'
  <2>1. CASE \/ Lock(t) \/ ScanSkip(t) \/ ScanEnd(t) \/ CheckFiber(t) \/ Call(t)
             \/ Arm(t) \/ MainFunc(t) \/ Yeild(t) \/ Settle(t) \/ Exit(t) \/ Idle(t)
    <3>1. Same
      BY <2>1 DEF Lock, ScanSkip, ScanEnd, CheckFiber, Call, Arm, MainFunc, Yeild,
                  Settle, Exit, Idle, workerVars, TypeOK, ActiveSet, IdleSet, Counted
    <3> QED BY <3>1, <1>s
  <2>2. CASE ScanTake(t)
    <3>1. t \notin ActiveSet /\ ActiveSet' = ActiveSet \cup {t} /\ IdleSet' = IdleSet
      BY <2>2 DEF ScanTake, TypeOK, ActiveSet, IdleSet, Counted
    <3> QED
      BY <1>f, <2>2, <3>1, FS_AddElement DEF ScanTake, CountInv, ActiveCount, IdleCount
  <2>3. CASE DropFinished(t) \/ Returned(t)
    <3>1. t \in ActiveSet /\ ActiveSet' = ActiveSet \ {t} /\ IdleSet' = IdleSet
      BY <2>3 DEF DropFinished, Returned, TypeOK, ActiveSet, IdleSet, Counted
    <3> QED
      BY <1>f, <2>3, <3>1, FS_RemoveElement
      DEF DropFinished, Returned, CountInv, ActiveCount, IdleCount
  <2>4. CASE IdleEnter(t)
    <3>1. t \notin IdleSet /\ IdleSet' = IdleSet \cup {t} /\ ActiveSet' = ActiveSet
      BY <2>4 DEF IdleEnter, TypeOK, ActiveSet, IdleSet, Counted
    <3> QED
      BY <1>f, <2>4, <3>1, FS_AddElement DEF IdleEnter, CountInv, ActiveCount, IdleCount
  <2>5. CASE IdleReturned(t)
    <3>1. t \in IdleSet /\ IdleSet' = IdleSet \ {t} /\ ActiveSet' = ActiveSet
      BY <2>5 DEF IdleReturned, TypeOK, ActiveSet, IdleSet, Counted
    <3> QED
      BY <1>f, <2>5, <3>1, FS_RemoveElement
      DEF IdleReturned, CountInv, ActiveCount, IdleCount
  <2> QED
    BY <1>3, <2>1, <2>2, <2>3, <2>4, <2>5 DEF Worker
<1> QED
  BY <1>1, <1>2, <1>3 DEF Next

-----------------------------------------------------------------------------
(* Types *)

LEMMA TypeStep ==
    ASSUME TypeOK, HeldState, CountInv, CountInv', [Next]_vars
    PROVE  TypeOK'
<1>c. n_active_thread' \in Nat /\ n_idle_thread' \in Nat
  <2>1. IsFiniteSet(ActiveSet') /\ IsFiniteSet(IdleSet')
    BY ThreadsAssumption, FS_Subset DEF ActiveSet, IdleSet
  <2> QED BY <2>1, FS_CardinalityType DEF CountInv, ActiveCount, IdleCount
<1>1. CASE Owner
  <2>1. ASSUME NEW t \in Threads, Spawn(t) PROVE TypeOK'
    BY <2>1 DEF Spawn, TypeOK, PC, ownerVars
  <2>2. ASSUME Start \/ StartDone \/ Stop \/ Join PROVE TypeOK'
    BY <2>2 DEF Start, StartDone, Stop, Join, TypeOK, workerVars
  <2> QED BY <1>1, <2>1, <2>2 DEF Owner
<1>2. CASE Schedule
  <2>1. PICK a \in Threads \cup {Client}, f \in Fibers :
            ScheduleCb(a, f) \/ ScheduleFiber(a, f) \/ ScheduleEnded(a, f)
    BY <1>2 DEF Schedule
  <2>2. Append(fiber_list, f) \in Seq(Fibers)
    BY AppendFacts DEF TypeOK
  <2> QED
    BY <2>1, <2>2 DEF ScheduleCb, ScheduleFiber, ScheduleEnded, schedule, TypeOK, FiberState, workerVars, ownerVars
<1>3. ASSUME NEW t \in Threads, Worker(t) PROVE TypeOK'
  <2>1. CASE \/ Lock(t) \/ ScanSkip(t) \/ ScanEnd(t) \/ CheckFiber(t) \/ DropFinished(t)
             \/ Yeild(t) \/ Returned(t) \/ Exit(t)
    BY <1>c, <2>1 DEF Lock, ScanSkip, ScanEnd, CheckFiber, DropFinished, Yeild, Returned,
                      Exit, TypeOK, PC, workerVars, ownerVars
  <2>2. CASE IdleEnter(t) \/ Idle(t) \/ IdleReturned(t)
    BY <1>c, <2>2 DEF IdleEnter, Idle, IdleReturned, TypeOK, PC, ownerVars
  <2>3. CASE ScanTake(t)
    <3>1. it \in 1 .. Len(fiber_list) /\ fiber_list[it] \in Fibers
      BY <2>3 DEF ScanTake, TypeOK
    <3>2. RemoveAt(fiber_list, it) \in Seq(Fibers)
      BY <3>1, RemoveAtFacts DEF TypeOK
    <3> QED
      BY <1>c, <2>3, <3>1, <3>2 DEF ScanTake, TypeOK, PC, ownerVars
  <2>4. CASE Call(t) \/ Arm(t) \/ MainFunc(t)
    <3>1. fbr[t] \in Fibers
      BY <2>4 DEF Call, Arm, MainFunc, HeldState, Holding
    <3> QED
      BY <2>4, <3>1 DEF Call, Arm, MainFunc, TypeOK, PC, FiberState, Finished, ownerVars
  <2>5. CASE Settle(t)
    <3>1. fbr[t] \in Fibers
      BY <2>5 DEF Settle, HeldState, Holding
    <3>2. Append(fiber_list, fbr[t]) \in Seq(Fibers)
      BY <3>1, AppendFacts DEF TypeOK
    <3> QED
      BY <2>5, <3>1, <3>2 DEF Settle, Settled, TypeOK, PC, FiberState, Finished, ownerVars
  <2> QED
    BY <1>3, <2>1, <2>2, <2>3, <2>4, <2>5 DEF Worker
<1>4. CASE Terminated \/ UNCHANGED vars
  BY <1>4 DEF Terminated, vars, workerVars, ownerVars, TypeOK
<1> QED
  BY <1>1, <1>2, <1>3, <1>4 DEF Next

-----------------------------------------------------------------------------
(* Fibers *)

\* A step that touches no fiber and no worker that holds one.
LEMMA FiberFrame ==
    ASSUME FiberInv,
           UNCHANGED <<state, fiber_list, waiting>>,
           \A t \in Threads : Holding(t)' => Holding(t) /\ pc'[t] = pc[t] /\ fbr'[t] = fbr[t],
           \A t \in Threads : Unarmed(t) => Unarmed(t)' /\ fbr'[t] = fbr[t]
    PROVE  FiberInv'
<1>l. Listed' = Listed
  BY DEF Listed
<1>1. HeldState' /\ HeldOnce'
  BY DEF FiberInv, HeldState, HeldOnce, Holding
<1>2. QueuedState'
  BY <1>l DEF FiberInv, QueuedState
<1>3. NoFiberLost'
  BY <1>l DEF FiberInv, NoFiberLost, Holding, Unarmed
<1>4. ListedHeld'
  BY <1>l DEF FiberInv, ListedHeld
<1> QED
  BY <1>1, <1>2, <1>3, <1>4 DEF FiberInv

\* A step inside run() that only advances one worker which keeps its fiber.
LEMMA FiberAdvance ==
    ASSUME TypeOK, FiberInv, NEW t \in Threads, NEW p \in PC,
           pc' = [pc EXCEPT ![t] = p],
           UNCHANGED <<state, fiber_list, waiting, fbr>>,
           \/ pc[t] = "check" /\ p = "call" /\ state[fbr[t]] \notin Finished
           \/ pc[t] \in {"armed", "ended"} /\ p = "ret"
           \/ pc[t] = "ret" /\ p = "settle"
    PROVE  FiberInv'
<1>l. Listed' = Listed
  BY DEF Listed
<1>1. HeldState' /\ HeldOnce'
  BY DEF TypeOK, FiberInv, HeldState, HeldOnce, Holding, Finished
<1>2. QueuedState'
  BY <1>l DEF FiberInv, QueuedState
<1>3. NoFiberLost'
  BY <1>l DEF TypeOK, FiberInv, NoFiberLost, Unarmed
<1>4. ListedHeld'
  BY <1>l DEF TypeOK, FiberInv, ListedHeld, Holding
<1> QED
  BY <1>1, <1>2, <1>3, <1>4 DEF FiberInv

LEMMA FiberSchedule ==
    ASSUME TypeOK, FiberInv, Schedule
    PROVE  FiberInv'
<1>1. PICK a \in Threads \cup {Client}, f \in Fibers :
          ScheduleCb(a, f) \/ ScheduleFiber(a, f) \/ ScheduleEnded(a, f)
  BY DEF Schedule
<1>2. UNCHANGED <<pc, fbr>>
  BY <1>1 DEF ScheduleCb, ScheduleFiber, ScheduleEnded, workerVars
<1>3. f \notin Listed
  BY <1>1 DEF ScheduleCb, ScheduleFiber, ScheduleEnded, FiberInv, QueuedState, NoFiberLost, Finished
<1>4. /\ Listed' = Listed \cup {f}
      /\ IsInjective(fiber_list)'
  <2>1. fiber_list' = Append(fiber_list, f)
    BY <1>1 DEF ScheduleCb, ScheduleFiber, ScheduleEnded, schedule
  <2>2. fiber_list \in Seq(Fibers) /\ IsInjective(fiber_list)
    BY DEF TypeOK, FiberInv, NoFiberLost
  <2> QED BY <1>3, <2>1, <2>2, AppendFacts DEF Listed
<1>5. CASE ScheduleCb(a, f)
  <2>1. /\ state[f] = "none" /\ state' = [state EXCEPT ![f] = "INIT"] /\ waiting' = waiting
        /\ state \in [Fibers -> FiberState]
    BY <1>5 DEF ScheduleCb, TypeOK
  <2>2. \A t \in Threads : Holding(t) => fbr[t] # f /\ fbr[t] \in Fibers
    BY <2>1 DEF FiberInv, HeldState, Holding, Finished
  <2>3. HeldState' /\ HeldOnce'
    BY <1>2, <2>1, <2>2 DEF FiberInv, HeldState, HeldOnce, Holding
  <2>4. QueuedState'
    BY <1>4, <2>1 DEF FiberInv, QueuedState, TypeOK
  <2>5. NoFiberLost'
    BY <1>2, <1>4, <2>1, <2>2 DEF FiberInv, NoFiberLost, QueuedState, Unarmed, Holding
  <2>6. ListedHeld'
    BY <1>2, <1>4, <2>1, <2>2 DEF FiberInv, ListedHeld, Holding
  <2> QED BY <2>3, <2>4, <2>5, <2>6 DEF FiberInv
<1>6. CASE ScheduleFiber(a, f)
  <2>1. f \in waiting /\ waiting' = waiting \ {f} /\ state' = state
    BY <1>6 DEF ScheduleFiber
  <2>2. HeldState' /\ HeldOnce'
    BY <1>2, <2>1 DEF FiberInv, HeldState, HeldOnce, Holding
  <2>3. QueuedState'
    BY <1>4, <2>1 DEF FiberInv, QueuedState
  <2>4. NoFiberLost'
    BY <1>2, <1>3, <1>4, <2>1 DEF FiberInv, NoFiberLost, Unarmed
  <2>5. \A t \in Threads : Holding(t) /\ fbr[t] = f => state[f] = "EXEC"
    BY <2>1 DEF FiberInv, HeldState, QueuedState, NoFiberLost, Holding, Unarmed, Finished
  <2>6. ListedHeld'
    BY <1>2, <1>4, <2>1, <2>5 DEF FiberInv, ListedHeld, Holding
  <2> QED BY <2>2, <2>3, <2>4, <2>6 DEF FiberInv
<1>7. CASE ScheduleEnded(a, f)
  <2>1. state[f] \in Finished /\ waiting' = waiting /\ state' = state
    BY <1>7 DEF ScheduleEnded
  <2>2. f \notin waiting /\ \A t \in Threads : fbr[t] # f
    BY <1>7, <2>1 DEF ScheduleEnded, FiberInv, QueuedState, Finished
  <2>3. HeldState' /\ HeldOnce'
    BY <1>2, <2>1 DEF FiberInv, HeldState, HeldOnce, Holding
  <2>4. QueuedState'
    BY <1>4, <2>1 DEF FiberInv, QueuedState
  <2>5. NoFiberLost'
    BY <1>2, <1>4, <2>1, <2>2 DEF FiberInv, NoFiberLost, Unarmed
  <2>6. ListedHeld'
    BY <1>2, <1>4, <2>1, <2>2 DEF FiberInv, ListedHeld, Holding
  <2> QED BY <2>3, <2>4, <2>5, <2>6 DEF FiberInv
<1> QED
  BY <1>1, <1>5, <1>6, <1>7

LEMMA FiberTake ==
    ASSUME TypeOK, FiberInv, NEW t \in Threads, ScanTake(t)
    PROVE  FiberInv'
<1> DEFINE f == fiber_list[it]
<1>1. it \in 1 .. Len(fiber_list) /\ f \in Fibers /\ f \in Listed
  BY DEF ScanTake, TypeOK, Listed, ToSet
<1>2. /\ Listed' = Listed \ {f}
      /\ IsInjective(fiber_list)'
  BY <1>1, RemoveAtFacts DEF ScanTake, TypeOK, Listed, FiberInv, NoFiberLost
<1>3. /\ fbr' = [fbr EXCEPT ![t] = f] /\ pc' = [pc EXCEPT ![t] = "check"]
      /\ state' = state /\ waiting' = waiting
      /\ pc[t] = "scan" /\ state[f] # "EXEC"
  BY DEF ScanTake, Executing
<1>4. state[f] \in {"INIT", "HOLD"} \cup Finished
  BY <1>1, <1>3 DEF FiberInv, QueuedState
<1> HIDE DEF f
<1>5. \A u \in Threads : Holding(u) => fbr[u] # f
  BY <1>1, <1>3 DEF FiberInv, ListedHeld
<1>6. HeldState' /\ HeldOnce'
  BY <1>1, <1>3, <1>4, <1>5 DEF TypeOK, FiberInv, HeldState, HeldOnce, Holding
<1>7. QueuedState'
  BY <1>2, <1>3 DEF FiberInv, QueuedState
<1>8. NoFiberLost'
  <2>1. \A g \in Fibers : state'[g] \notin Finished \cup {"none"} =>
            g \in Listed' \cup waiting' \/ \E u \in Threads : Unarmed(u)' /\ fbr'[u] = g
    BY <1>2, <1>3 DEF TypeOK, FiberInv, NoFiberLost, Unarmed
  <2>2. \A u \in Threads : Unarmed(u)' => fbr'[u] \notin Listed' \cup waiting'
    BY <1>1, <1>2, <1>3 DEF TypeOK, FiberInv, NoFiberLost, Unarmed
  <2> QED BY <1>2, <1>3, <2>1, <2>2 DEF FiberInv, NoFiberLost
<1>9. ListedHeld'
  BY <1>2, <1>3, <1>5 DEF TypeOK, FiberInv, ListedHeld, Holding
<1> QED
  BY <1>6, <1>7, <1>8, <1>9 DEF FiberInv

\* Fiber::call, the hand-over to a waker and the end of MainFunc.
LEMMA FiberRuns ==
    ASSUME TypeOK, FiberInv, NEW t \in Threads, Call(t) \/ Arm(t) \/ MainFunc(t)
    PROVE  FiberInv'
<1> DEFINE f == fbr[t]
<1>1. /\ f \in Fibers /\ Holding(t) /\ Unarmed(t) /\ f \notin Listed \cup waiting
      /\ \A u \in Threads \ {t} : Holding(u) => fbr[u] # f /\ fbr[u] \in Fibers
  BY DEF Call, Arm, MainFunc, FiberInv, HeldState, HeldOnce, NoFiberLost, Holding, Unarmed
<1>2. UNCHANGED <<fiber_list, fbr>> /\ Listed' = Listed
  BY DEF Call, Arm, MainFunc, Listed
<1>h. ListedHeld'
  BY <1>1, <1>2 DEF Call, Arm, MainFunc, TypeOK, FiberInv, ListedHeld, Holding
<1>3. CASE Call(t)
  <2>1. /\ state' = [state EXCEPT ![f] = "EXEC"] /\ pc' = [pc EXCEPT ![t] = "fiber"]
        /\ waiting' = waiting
    BY <1>3 DEF Call
  <2>2. HeldState' /\ HeldOnce'
    BY <1>1, <1>2, <2>1 DEF TypeOK, FiberInv, HeldState, HeldOnce, Holding
  <2>3. QueuedState'
    BY <1>1, <1>2, <2>1 DEF TypeOK, FiberInv, QueuedState
  <2>4. NoFiberLost'
    BY <1>1, <1>2, <2>1 DEF TypeOK, FiberInv, NoFiberLost, Unarmed
  <2> QED BY <1>h, <2>2, <2>3, <2>4 DEF FiberInv
<1>4. CASE Arm(t)
  <2>1. /\ state' = state /\ pc' = [pc EXCEPT ![t] = "armed"]
        /\ waiting' = waiting \cup {f} /\ pc[t] = "fiber"
    BY <1>4 DEF Arm
  <2>2. state[f] = "EXEC"
    BY <2>1 DEF FiberInv, HeldState
  <2>3. HeldState' /\ HeldOnce'
    BY <1>1, <1>2, <2>1, <2>2 DEF TypeOK, FiberInv, HeldState, HeldOnce, Holding
  <2>4. QueuedState'
    BY <1>2, <2>1, <2>2 DEF FiberInv, QueuedState
  <2>5. NoFiberLost'
    BY <1>1, <1>2, <2>1 DEF TypeOK, FiberInv, NoFiberLost, Unarmed, Holding
  <2> QED BY <1>h, <2>3, <2>4, <2>5 DEF FiberInv
<1>5. CASE MainFunc(t)
  <2>1. PICK e \in Finished : state' = [state EXCEPT ![f] = e]
    BY <1>5 DEF MainFunc
  <2>2. pc' = [pc EXCEPT ![t] = "ended"] /\ waiting' = waiting /\ pc[t] = "fiber"
    BY <1>5 DEF MainFunc
  <2>3. HeldState' /\ HeldOnce'
    BY <1>1, <1>2, <2>1, <2>2 DEF TypeOK, FiberInv, HeldState, HeldOnce, Holding, Finished
  <2>4. QueuedState'
    BY <1>1, <1>2, <2>1, <2>2 DEF TypeOK, FiberInv, QueuedState
  <2>5. NoFiberLost'
    BY <1>1, <1>2, <2>1, <2>2 DEF TypeOK, FiberInv, NoFiberLost, Unarmed, Holding
  <2> QED BY <1>h, <2>3, <2>4, <2>5 DEF FiberInv
<1> QED
  BY <1>3, <1>4, <1>5

\* run() settles the state of a fiber that came back: READY never occurs.
LEMMA FiberSettle ==
    ASSUME TypeOK, FiberInv, NEW t \in Threads, Settle(t)
    PROVE  FiberInv'
<1> DEFINE f == fbr[t]
<1>1. /\ pc[t] = "settle" /\ f \in Fibers /\ state[f] \in Finished \cup {"EXEC"}
      /\ \A u \in Threads \ {t} : Holding(u) => fbr[u] # f /\ fbr[u] \in Fibers
  BY DEF Settle, FiberInv, HeldState, HeldOnce, Holding
<1>2. /\ state' = IF state[f] \in Finished THEN state ELSE [state EXCEPT ![f] = "HOLD"]
      /\ fiber_list' = fiber_list
      /\ fbr' = [fbr EXCEPT ![t] = NoFiber] /\ pc' = [pc EXCEPT ![t] = "idlecheck"]
      /\ waiting' = waiting
  BY <1>1 DEF Settle, Settled, Finished, TypeOK
<1>3. Listed' = Listed
  BY <1>2 DEF Listed
<1>4. HeldState' /\ HeldOnce'
  BY <1>1, <1>2 DEF TypeOK, FiberInv, HeldState, HeldOnce, Holding
<1>5. QueuedState'
  BY <1>1, <1>2, <1>3 DEF TypeOK, FiberInv, QueuedState
<1>6. NoFiberLost'
  BY <1>1, <1>2, <1>3 DEF TypeOK, FiberInv, NoFiberLost, Unarmed, Holding, Finished
<1>7. ListedHeld'
  BY <1>1, <1>2, <1>3 DEF TypeOK, FiberInv, ListedHeld, Holding
<1> QED
  BY <1>4, <1>5, <1>6, <1>7 DEF FiberInv

\* run() drops a fiber that had already ended when it was taken.
LEMMA FiberDrop ==
    ASSUME TypeOK, FiberInv, NEW t \in Threads, DropFinished(t)
    PROVE  FiberInv'
<1>1. /\ pc[t] = "check" /\ state[fbr[t]] \in Finished
      /\ fbr' = [fbr EXCEPT ![t] = NoFiber] /\ pc' = [pc EXCEPT ![t] = "idlecheck"]
      /\ UNCHANGED <<state, waiting, fiber_list>>
  BY DEF DropFinished, Ended
<1>2. Listed' = Listed
  BY <1>1 DEF Listed
<1>3. HeldState' /\ HeldOnce'
  BY <1>1 DEF TypeOK, FiberInv, HeldState, HeldOnce, Holding
<1>4. QueuedState'
  BY <1>1, <1>2 DEF FiberInv, QueuedState
<1>5. NoFiberLost'
  BY <1>1, <1>2 DEF TypeOK, FiberInv, NoFiberLost, Unarmed
<1>6. ListedHeld'
  BY <1>1, <1>2 DEF TypeOK, FiberInv, ListedHeld, Holding
<1> QED
  BY <1>3, <1>4, <1>5, <1>6 DEF FiberInv

LEMMA FiberStep ==
    ASSUME TypeOK, FiberInv, [Next]_vars
    PROVE  FiberInv'
<1>1. CASE Owner \/ Terminated \/ UNCHANGED vars
  <2>1. UNCHANGED <<state, fiber_list, waiting, fbr>>
    BY <1>1 DEF Owner, Start, Spawn, StartDone, Stop, Join, Terminated, vars, workerVars
  <2>2. \A t \in Threads : (Holding(t)' \/ Unarmed(t)) => Holding(t)' /\ pc'[t] = pc[t]
    BY <1>1 DEF Owner, Start, Spawn, StartDone, Stop, Join, Terminated, vars, workerVars,
                TypeOK, Holding, Unarmed
  <2> QED
    BY <2>1, <2>2, FiberFrame DEF Holding, Unarmed
<1>2. CASE Schedule
  BY <1>2, FiberSchedule
<1>3. ASSUME NEW t \in Threads, Worker(t) PROVE FiberInv'
  <2>1. CASE \/ Lock(t) \/ ScanSkip(t) \/ ScanEnd(t) \/ IdleEnter(t) \/ Exit(t) \/ Idle(t)
             \/ IdleReturned(t)
    <3>1. UNCHANGED <<state, fiber_list, waiting, fbr>>
      BY <2>1 DEF Lock, ScanSkip, ScanEnd, IdleEnter, Exit, Idle, IdleReturned, workerVars
    <3>2. \A u \in Threads : (Holding(u)' \/ Unarmed(u)) => Holding(u)' /\ pc'[u] = pc[u]
      BY <2>1 DEF Lock, ScanSkip, ScanEnd, IdleEnter, Exit, Idle, IdleReturned, workerVars,
                  TypeOK, Holding, Unarmed
    <3> QED
      BY <3>1, <3>2, FiberFrame DEF Holding, Unarmed
  <2>2. CASE ScanTake(t)
    BY <2>2, FiberTake
  <2>3. CASE CheckFiber(t)
    BY <2>3, FiberAdvance DEF CheckFiber, Ended, PC
  <2>4. CASE DropFinished(t)
    BY <2>4, FiberDrop
  <2>5. CASE Call(t) \/ Arm(t) \/ MainFunc(t)
    BY <2>5, FiberRuns
  <2>6. CASE Yeild(t)
    BY <2>6, FiberAdvance DEF Yeild, PC
  <2>7. CASE Returned(t)
    BY <2>7, FiberAdvance DEF Returned, PC
  <2>8. CASE Settle(t)
    BY <2>8, FiberSettle
  <2> QED
    BY <1>3, <2>1, <2>2, <2>3, <2>4, <2>5, <2>6, <2>7, <2>8 DEF Worker
<1> QED
  BY <1>1, <1>2, <1>3 DEF Next

-----------------------------------------------------------------------------
(* Stopping *)

LEMMA ExitStep ==
    ASSUME TypeOK, ExitInv, [Next]_vars
    PROVE  ExitInv'
<1>1. CASE Owner
  BY <1>1 DEF Owner, Start, Spawn, StartDone, Stop, Join, TypeOK, ExitInv, workerVars, ownerVars
<1>2. CASE Schedule \/ Terminated \/ UNCHANGED vars
  BY <1>2 DEF Schedule, ScheduleCb, ScheduleFiber, ScheduleEnded, Terminated, vars, workerVars, ownerVars, ExitInv
<1>3. ASSUME NEW t \in Threads, Worker(t) PROVE ExitInv'
  <2>1. pc[t] # "done" /\ main # "joined" /\ main' = main
    BY <1>3 DEF Worker, Lock, ScanSkip, ScanTake, ScanEnd, CheckFiber, DropFinished, Call, Arm,
                MainFunc, Yeild, Returned, Settle, IdleEnter, Exit, Idle, IdleReturned,
                ownerVars, ExitInv
  <2>2. CASE IdleEnter(t) \/ Exit(t) \/ Idle(t) \/ IdleReturned(t)
    BY <2>1, <2>2 DEF IdleEnter, Exit, Idle, IdleReturned, TypeOK, ExitInv
  <2>3. CASE \/ Lock(t) \/ ScanSkip(t) \/ ScanTake(t) \/ ScanEnd(t) \/ CheckFiber(t)
             \/ DropFinished(t) \/ Call(t) \/ Arm(t) \/ MainFunc(t) \/ Yeild(t)
             \/ Returned(t) \/ Settle(t)
    BY <2>1, <2>3 DEF Lock, ScanSkip, ScanTake, ScanEnd, CheckFiber, DropFinished, Call, Arm,
                MainFunc, Yeild, Returned, Settle, workerVars, TypeOK, ExitInv
  <2> QED
    BY <1>3, <2>2, <2>3 DEF Worker
<1> QED
  BY <1>1, <1>2, <1>3 DEF Next

LEMMA QuietStep ==
    ASSUME IInv, [Next]_vars
    PROVE  QuietOnceStopping'
<1> USE DEF IInv
<1> DEFINE SomeEnded == \E t \in Threads : idle_state[t] = "TERM"
           Quiet == try_stop /\ fiber_list = <<>> /\ \A t \in Threads : ~Counted(t)
<1>q. (QuietOnceStopping <=> (SomeEnded /\ ~late => Quiet))
      /\ (QuietOnceStopping' <=> (SomeEnded' /\ ~late' => Quiet'))
  BY DEF QuietOnceStopping
<1>1. CASE Owner \/ Terminated \/ UNCHANGED vars
  <2>1. /\ idle_state' = idle_state /\ late' = late /\ fiber_list' = fiber_list
        /\ try_stop => try_stop'
        /\ \A t \in Threads : Counted(t)' => Counted(t)
    BY <1>1 DEF Owner, Start, Spawn, StartDone, Stop, Join, Terminated, vars, workerVars,
                ownerVars, TypeOK, Counted
  <2> QED BY <1>q, <2>1
<1>2. CASE Schedule
  <2>1. PICK a \in Threads \cup {Client}, f \in Fibers :
            ScheduleCb(a, f) \/ ScheduleFiber(a, f) \/ ScheduleEnded(a, f)
    BY <1>2 DEF Schedule
  <2>2. /\ idle_state' = idle_state /\ MayCall(a)
        /\ late' = (late \/ (a = Client /\ try_stop))
    BY <2>1 DEF ScheduleCb, ScheduleFiber, ScheduleEnded, schedule, workerVars
  <2>3. CASE a = Client
    BY <1>q, <2>2, <2>3
  <2>4. CASE a # Client
    BY <1>q, <2>2, <2>4 DEF MayCall, Counted
  <2> QED BY <2>3, <2>4
<1>3. ASSUME NEW t \in Threads, Worker(t) PROVE QuietOnceStopping'
  <2>1. CASE \/ Lock(t) \/ ScanSkip(t) \/ ScanEnd(t) \/ CheckFiber(t) \/ DropFinished(t)
             \/ Call(t) \/ Arm(t) \/ MainFunc(t) \/ Yeild(t) \/ Returned(t) \/ Exit(t)
    <3>1. /\ idle_state' = idle_state /\ late' = late /\ fiber_list' = fiber_list
          /\ try_stop' = try_stop
          /\ \A u \in Threads : Counted(u)' => Counted(u)
      BY <2>1 DEF Lock, ScanSkip, ScanEnd, CheckFiber, DropFinished, Call, Arm, MainFunc,
                  Yeild, Returned, Exit, workerVars, ownerVars, TypeOK, Counted
    <3> QED BY <1>q, <3>1
  <2>2. CASE ScanTake(t)
    <3>1. fiber_list # <<>> /\ idle_state' = idle_state /\ late' = late
      BY <2>2 DEF ScanTake, TypeOK
    <3> QED BY <1>q, <3>1
  <2>3. CASE Settle(t)
    <3>1. state[fbr[t]] # "READY"
      BY <2>3 DEF Settle, FiberInv, HeldState, Finished
    <3>2. /\ idle_state' = idle_state /\ late' = late /\ fiber_list' = fiber_list
          /\ try_stop' = try_stop
          /\ \A u \in Threads : Counted(u)' => Counted(u)
      BY <2>3, <3>1 DEF Settle, ownerVars, TypeOK, Counted
    <3> QED BY <1>q, <3>2
  <2>4. CASE IdleEnter(t) \/ IdleReturned(t)
    <3>1. /\ late' = late /\ fiber_list' = fiber_list /\ try_stop' = try_stop
          /\ \A u \in Threads : idle_state'[u] = "TERM" => idle_state[u] = "TERM"
          /\ \A u \in Threads : Counted(u)' => Counted(u)
      BY <2>4 DEF IdleEnter, IdleReturned, ownerVars, TypeOK, Counted
    <3> QED BY <1>q, <3>1
  <2>5. CASE Idle(t)
    <3>1. /\ late' = late /\ fiber_list' = fiber_list /\ try_stop' = try_stop
          /\ \A u \in Threads : Counted(u)' => Counted(u)
      BY <2>5 DEF Idle, ownerVars, TypeOK, Counted
    <3>2. CASE stopping
      <4>1. IsFiniteSet(ActiveSet)
        BY ThreadsAssumption, FS_Subset DEF ActiveSet
      <4>2. ActiveSet = {}
        BY <3>2, <4>1, FS_EmptySet DEF stopping, CountInv, ActiveCount
      <4>3. Quiet
        BY <3>2, <4>2 DEF stopping, ActiveSet
      <4> QED BY <1>q, <3>1, <4>3
    <3>3. CASE ~stopping
      BY <1>q, <2>5, <3>1, <3>3 DEF Idle
    <3> QED BY <3>2, <3>3
  <2> QED
    BY <1>3, <2>1, <2>2, <2>3, <2>4, <2>5 DEF Worker
<1> QED
  BY <1>1, <1>2, <1>3 DEF Next

-----------------------------------------------------------------------------
(* Theorems *)

LEMMA InitInv == Init => IInv
<1> SUFFICES ASSUME Init PROVE IInv
  OBVIOUS
<1>0. fiber_list \in Seq(Fibers) /\ 0 \in Nat /\ 1 \in Nat \ {0}
  BY DEF Init
<1>1. TypeOK
  BY <1>0 DEF Init, TypeOK, FiberState, PC
<1>2. Listed = {} /\ IsInjective(fiber_list)
  BY DEF Init, Listed, ToSet, IsInjective
<1>3. FiberInv
  BY <1>2 DEF Init, FiberInv, HeldState, HeldOnce, QueuedState, ListedHeld,
              NoFiberLost, Holding, Unarmed
<1>4. ActiveSet = {} /\ IdleSet = {}
  BY DEF Init, ActiveSet, IdleSet, Counted
<1>5. CountInv
  BY <1>4, FS_EmptySet DEF Init, CountInv, ActiveCount, IdleCount
<1>6. ExitInv /\ QuietOnceStopping
  BY DEF Init, ExitInv, QuietOnceStopping
<1> QED
  BY <1>1, <1>3, <1>5, <1>6 DEF IInv

\* IInv is an invariant of run(), schedule(), start() and stop().
THEOREM Invariance == Spec => []IInv
<1>1. IInv /\ [Next]_vars => IInv'
  <2> SUFFICES ASSUME IInv, [Next]_vars PROVE IInv'
    OBVIOUS
  <2>1. CountInv'
    BY CountStep DEF IInv
  <2>2. TypeOK'
    BY <2>1, TypeStep DEF IInv, FiberInv
  <2>3. FiberInv'
    BY FiberStep DEF IInv
  <2>4. ExitInv'
    BY ExitStep DEF IInv
  <2>5. QuietOnceStopping'
    BY QuietStep
  <2> QED BY <2>1, <2>2, <2>3, <2>4, <2>5 DEF IInv
<1> QED
  BY <1>1, InitInv, PTL DEF Spec

\* Type correctness; in particular n_active_thread_ and n_idle_thread_, which
\* are unsigned in the code, never fall below zero.
THEOREM TypeCorrect == Spec => []TypeOK
<1>1. IInv => TypeOK
  BY DEF IInv
<1> QED
  BY <1>1, Invariance, PTL

\* However many workers scan the list and however early a fiber is woken, no
\* two workers are inside the same fiber.
THEOREM FibersRunOnOneThread == Spec => []OneThreadPerFiber
<1>1. IInv => OneThreadPerFiber
  BY DEF IInv, FiberInv, HeldOnce, OneThreadPerFiber, OnStack, Holding
<1> QED
  BY <1>1, Invariance, PTL

\* Every fiber that has not finished can be resumed by exactly one party.
THEOREM WakeUpsAreNotLost == Spec => []NoFiberLost
<1>1. IInv => NoFiberLost
  BY DEF IInv, FiberInv
<1> QED
  BY <1>1, Invariance, PTL

\* Clients that schedule a fiber only while they hold its reference satisfy the
\* precondition of Fiber::call.
THEOREM CallPreconditionHolds == Spec => []CallPre
<1>1. IInv => CallPre
  BY DEF IInv, FiberInv, HeldState, CallPre
<1> QED
  BY <1>1, Invariance, PTL

\* Once one idle fiber has ended, no work is left and none appears.
THEOREM QuietAfterStop == Spec => []QuietOnceStopping
<1>1. IInv => QuietOnceStopping
  BY DEF IInv
<1> QED
  BY <1>1, Invariance, PTL

\* stop() returns only after everything that was scheduled has run.
THEOREM StopWaitsForWork == Spec => []StopDrains
<1>1. IInv => StopDrains
  <2> SUFFICES ASSUME IInv, main = "joined", ~late, NEW f \in Fibers,
                      state[f] \notin Finished \cup {"none"}
               PROVE  f \in waiting
    BY DEF StopDrains
  <2>1. \A t \in Threads : pc[t] = "done" /\ idle_state[t] = "TERM"
    BY DEF IInv, ExitInv
  <2>2. fiber_list = <<>>
    BY <2>1, ThreadsAssumption DEF IInv, QuietOnceStopping
  <2>3. Listed = {}
    BY <2>2 DEF Listed, ToSet
  <2> QED
    BY <2>1, <2>3 DEF IInv, FiberInv, NoFiberLost, Unarmed
<1> QED
  BY <1>1, Invariance, PTL

-----------------------------------------------------------------------------
(* The scheduler implements FiberPool.  Most steps of run() are stutters   *)
(* there; the lemmas say what the others do to the places.                 *)

Queued  == {f \in Listed : state[f] \notin Finished}
Running == {r \in Threads \X Fibers : /\ Unarmed(r[1]) /\ fbr[r[1]] = r[2]
                                      /\ state[r[2]] \notin Finished}
Done    == {f \in Fibers : state[f] \in Finished}
Left    == {t \in Threads : pc[t] = "done"}

Places == <<Queued, Running, waiting, Done, Left, try_stop, late>>

LEMMA PoolStutters ==
    ASSUME UNCHANGED Places
    PROVE  UNCHANGED Pool!pvars
BY DEF Places, Queued, Running, Done, Left, Pool!pvars

\* A fiber is in one place.
LEMMA PoolPlaces ==
    ASSUME IInv
    PROVE  /\ \A f \in Fibers : state[f] = "none" => f \in Pool!New
           /\ \A t \in Threads : pc[t] # "done" /\ ~Unarmed(t) => Pool!Free(t)
<1>1. ASSUME NEW f \in Fibers, state[f] = "none"
      PROVE  f \in Pool!New
  <2>1. f \notin Listed /\ f \notin waiting
    BY <1>1 DEF IInv, FiberInv, QueuedState, Finished
  <2>2. \A t \in Threads : ~(Unarmed(t) /\ fbr[t] = f)
    BY <1>1 DEF IInv, FiberInv, HeldState, Finished, Unarmed
  <2>3. f \notin Pool!Started
    BY <2>2 DEF Pool!Started
  <2> QED BY <1>1, <2>1, <2>3 DEF Pool!New, Finished
<1>2. ASSUME NEW t \in Threads, pc[t] # "done", ~Unarmed(t)
      PROVE  Pool!Free(t)
  BY <1>2 DEF Pool!Free
<1> QED BY <1>1, <1>2

LEMMA PoolSubmit ==
    ASSUME IInv, NEW a, NEW f \in Fibers, ScheduleCb(a, f)
    PROVE  Pool!Submit(f)
<1>1. /\ state[f] = "none" /\ f \in Pool!New
      /\ fiber_list' = Append(fiber_list, f) /\ state' = [state EXCEPT ![f] = "INIT"]
      /\ late' = late \/ late' = (late \/ try_stop)
      /\ UNCHANGED <<pc, fbr, waiting, try_stop>>
  BY PoolPlaces DEF ScheduleCb, schedule, workerVars, ownerVars, IInv, TypeOK
<1>t. state \in [Fibers -> FiberState] /\ fiber_list \in Seq(Fibers)
  BY DEF IInv, TypeOK
<1>2. Listed' = Listed \cup {f}
  BY <1>1, <1>t, AppendFacts DEF Listed
<1>3. \A t \in Threads : Unarmed(t) => fbr[t] # f
  BY <1>1 DEF IInv, FiberInv, HeldState, Finished, Unarmed
<1>4. Queued' = Queued \cup {f}
  BY <1>1, <1>2, <1>t DEF Queued, Finished
<1>5. Running' = Running
  BY <1>1, <1>3, <1>t DEF Running, Unarmed, Finished
<1>6. Done' = Done /\ Left' = Left
  BY <1>1, <1>t DEF Done, Left, Finished
<1> QED
  BY <1>1, <1>4, <1>5, <1>6 DEF Pool!Submit, Pool!Enqueue, Queued, Running, Done, Left

LEMMA PoolWake ==
    ASSUME IInv, NEW a, NEW f \in Fibers, ScheduleFiber(a, f)
    PROVE  Pool!Wake(f)
<1>1. /\ f \in waiting /\ waiting' = waiting \ {f}
      /\ fiber_list' = Append(fiber_list, f)
      /\ late' = late \/ late' = (late \/ try_stop)
      /\ UNCHANGED <<state, pc, fbr, try_stop>>
  BY DEF ScheduleFiber, schedule, workerVars, ownerVars, IInv, TypeOK
<1>2. Listed' = Listed \cup {f}
  BY <1>1, AppendFacts DEF Listed, IInv, TypeOK
<1>3. state[f] \notin Finished
  BY <1>1 DEF IInv, FiberInv, QueuedState, Finished
<1>4. Queued' = Queued \cup {f}
  BY <1>1, <1>2, <1>3 DEF Queued
<1>5. Running' = Running /\ Done' = Done /\ Left' = Left
  BY <1>1 DEF Running, Unarmed, Done, Left
<1> QED
  BY <1>1, <1>4, <1>5 DEF Pool!Wake, Pool!Enqueue, Queued, Running, Done, Left

\* schedule() of a finished fiber, and taking it from the list, are not seen.
LEMMA PoolEnded ==
    ASSUME IInv, NEW a, NEW f \in Fibers, ScheduleEnded(a, f)
    PROVE  UNCHANGED Places
<1>1. /\ state[f] \in Finished
      /\ fiber_list' = Append(fiber_list, f)
      /\ late' = late
      /\ UNCHANGED <<state, pc, fbr, waiting, try_stop>>
  BY DEF ScheduleEnded, schedule, workerVars, ownerVars, IInv, TypeOK
<1>2. Listed' = Listed \cup {f}
  BY <1>1, AppendFacts DEF Listed, IInv, TypeOK
<1>3. Queued' = Queued
  BY <1>1, <1>2 DEF Queued
<1>4. Running' = Running /\ Done' = Done /\ Left' = Left
  BY <1>1 DEF Running, Unarmed, Done, Left
<1> QED
  BY <1>1, <1>3, <1>4 DEF Places

LEMMA PoolStart ==
    ASSUME IInv, NEW t \in Threads, ScanTake(t)
    PROVE  UNCHANGED Places \/ \E f \in Fibers : Pool!Start(t, f)
<1>t. /\ pc \in [Threads -> PC] /\ fbr \in [Threads -> Fibers \cup {NoFiber}]
      /\ fiber_list \in Seq(Fibers) /\ it \in 1 .. Len(fiber_list)
  BY DEF ScanTake, IInv, TypeOK
<1>f. PICK f \in Fibers : f = fiber_list[it]
  BY <1>t
<1>1. /\ pc[t] = "scan" /\ pc' = [pc EXCEPT ![t] = "check"]
      /\ fbr' = [fbr EXCEPT ![t] = f]
      /\ fiber_list' = RemoveAt(fiber_list, it)
      /\ UNCHANGED <<state, waiting, try_stop, late>>
  BY <1>f DEF ScanTake, ownerVars
<1>2. Listed' = Listed \ {f} /\ f \in Listed
  <2>1. IsInjective(fiber_list)
    BY DEF IInv, FiberInv, NoFiberLost
  <2>2. ToSet(fiber_list') = ToSet(fiber_list) \ {f}
    BY <1>1, <1>t, <1>f, <2>1, RemoveAtFacts
  <2>3. f \in ToSet(fiber_list)
    BY <1>t, <1>f DEF ToSet
  <2> QED BY <2>2, <2>3 DEF Listed
<1>3. Queued' = Queued \ {f} /\ Done' = Done /\ Left' = Left
  BY <1>1, <1>2, <1>t DEF Queued, Done, Left
<1>4. Pool!Free(t)
  BY <1>1, PoolPlaces DEF Unarmed
<1>5. CASE state[f] \in Finished
  <2>1. Running' = Running
    BY <1>1, <1>5, <1>t DEF Running, Unarmed
  <2>2. Queued' = Queued
    BY <1>3, <1>5 DEF Queued
  <2> QED BY <1>1, <1>3, <2>1, <2>2 DEF Places
<1>6. CASE state[f] \notin Finished
  <2>1. Running' = Running \cup {<<t, f>>}
    BY <1>1, <1>6, <1>t, <1>f DEF Running, Unarmed
  <2>2. f \in Queued
    BY <1>2, <1>6 DEF Queued
  <2>3. Pool!Start(t, f)
    BY <1>1, <1>3, <1>4, <2>1, <2>2 DEF Pool!Start, Queued, Running, Done, Left
  <2> QED BY <2>3
<1> QED BY <1>5, <1>6

\* Arm hands the reference to a waker, MainFunc ends the callback.
LEMMA PoolRuns ==
    ASSUME IInv, NEW t \in Threads, NEW f \in Fibers, fbr[t] = f
    PROVE  /\ Arm(t) => Pool!Suspend(t, f)
           /\ MainFunc(t) => Pool!Finish(t, f)
<1>t. /\ pc \in [Threads -> PC] /\ fbr \in [Threads -> Fibers \cup {NoFiber}]
      /\ state \in [Fibers -> FiberState]
  BY DEF IInv, TypeOK
<1>1. ASSUME pc[t] = "fiber"
      PROVE  /\ f \in Fibers /\ state[f] = "EXEC" /\ <<t, f>> \in Running
             /\ f \notin Listed
             /\ \A u \in Threads \ {t} : Unarmed(u) => fbr[u] # f
  BY <1>1 DEF IInv, FiberInv, HeldState, HeldOnce, NoFiberLost, Holding, Unarmed, Running, Finished
<1>2. ASSUME Arm(t)
      PROVE  Pool!Suspend(t, f)
  <2>1. /\ pc[t] = "fiber" /\ pc' = [pc EXCEPT ![t] = "armed"]
        /\ waiting' = waiting \cup {f}
        /\ UNCHANGED <<state, fiber_list, fbr, try_stop, late>>
    BY <1>2 DEF Arm, ownerVars
  <2>2. Running' = Running \ {<<t, f>>}
    BY <1>1, <1>t, <2>1 DEF Running, Unarmed
  <2>3. Queued' = Queued /\ Done' = Done /\ Left' = Left
    BY <1>t, <2>1 DEF Queued, Listed, Done, Left
  <2> QED
    BY <1>1, <2>1, <2>2, <2>3 DEF Pool!Suspend, Queued, Running, Done, Left
<1>3. ASSUME MainFunc(t)
      PROVE  Pool!Finish(t, f)
  <2>1. PICK s \in Finished : state' = [state EXCEPT ![f] = s]
    BY <1>3 DEF MainFunc
  <2>2. /\ pc[t] = "fiber" /\ pc' = [pc EXCEPT ![t] = "ended"]
        /\ UNCHANGED <<fiber_list, fbr, waiting, try_stop, late>>
    BY <1>3 DEF MainFunc, ownerVars
  <2>3. Running' = Running \ {<<t, f>>}
    BY <1>1, <1>t, <2>1, <2>2 DEF Running, Unarmed
  <2>4. Queued' = Queued /\ Left' = Left
    BY <1>1, <1>t, <2>1, <2>2 DEF Queued, Listed, Left
  <2>5. Done' = Done \cup {f}
    BY <1>1, <1>t, <2>1, <2>2 DEF Done
  <2> QED
    BY <1>1, <2>2, <2>3, <2>4, <2>5 DEF Pool!Finish, Queued, Running, Done, Left
<1> QED BY <1>2, <1>3

\* Whatever was scheduled late was scheduled after stop() was called.
LateAfterStop == late => try_stop

LEMMA LateStep ==
    ASSUME TypeOK, LateAfterStop, [Next]_vars
    PROVE  LateAfterStop'
<1>1. CASE Owner \/ Terminated \/ UNCHANGED vars
  BY <1>1 DEF Owner, Start, Spawn, StartDone, Stop, Join, Terminated, vars, ownerVars, LateAfterStop
<1>2. CASE Schedule
  <2>1. try_stop' = try_stop /\ (late' => late \/ try_stop)
    BY <1>2 DEF Schedule, ScheduleCb, ScheduleFiber, ScheduleEnded, schedule, ownerVars
  <2> QED BY <2>1 DEF LateAfterStop
<1>3. ASSUME NEW t \in Threads, Worker(t)
      PROVE  LateAfterStop'
  <2>1. UNCHANGED <<late, try_stop>>
    BY <1>3 DEF Worker, Lock, ScanSkip, ScanTake, ScanEnd, CheckFiber, DropFinished, Call, Arm,
                MainFunc, Yeild, Returned, Settle, IdleEnter, Exit, Idle, IdleReturned, ownerVars
  <2> QED BY <2>1 DEF LateAfterStop
<1> QED BY <1>1, <1>2, <1>3 DEF Next

LEMMA PoolLeave ==
    ASSUME IInv, LateAfterStop, NEW t \in Threads, Exit(t)
    PROVE  Pool!Leave(t)
<1>t. /\ pc \in [Threads -> PC] /\ pc[t] = "idlecheck" /\ idle_state[t] = "TERM"
      /\ pc' = [pc EXCEPT ![t] = "done"]
      /\ UNCHANGED <<state, fiber_list, fbr, waiting, try_stop, late>>
  BY DEF Exit, ownerVars, IInv, TypeOK
<1>1. Pool!Free(t)
  BY <1>t, PoolPlaces DEF Unarmed
<1>2. ~late => /\ try_stop /\ fiber_list = <<>>
               /\ \A u \in Threads : ~Counted(u)
  BY <1>t DEF IInv, QuietOnceStopping
<1>3. try_stop
  BY <1>2 DEF LateAfterStop
<1>4. ~late => Queued = {} /\ Running = {}
  <2>1. fiber_list = <<>> => Listed = {}
    BY DEF Listed, ToSet
  <2>2. (\A u \in Threads : ~Counted(u)) => Running = {}
    BY DEF Running, Unarmed, Counted
  <2> QED BY <1>2, <2>1, <2>2 DEF Queued
<1>5. Queued' = Queued /\ Done' = Done /\ Running' = Running
  BY <1>t DEF Queued, Listed, Done, Running, Unarmed
<1>6. Left' = Left \cup {t}
  BY <1>t DEF Left
<1> QED
  BY <1>t, <1>1, <1>3, <1>4, <1>5, <1>6 DEF Pool!Leave, Queued, Running, Done, Left

\* The rest of run(), and start(), stop() and join as far as the fibers go.
LEMMA PoolQuiet ==
    ASSUME IInv, NEW t \in Threads,
           \/ Lock(t) \/ ScanSkip(t) \/ ScanEnd(t) \/ CheckFiber(t) \/ DropFinished(t) \/ Call(t)
           \/ Yeild(t) \/ Returned(t) \/ Settle(t)
           \/ IdleEnter(t) \/ Idle(t) \/ IdleReturned(t)
    PROVE  UNCHANGED Places
<1>t. /\ pc \in [Threads -> PC] /\ fbr \in [Threads -> Fibers \cup {NoFiber}]
      /\ state \in [Fibers -> FiberState]
  BY DEF IInv, TypeOK
<1>l. Listed \subseteq Fibers
  BY DEF IInv, TypeOK, Listed, ToSet
<1>1. CASE \/ Lock(t) \/ ScanSkip(t) \/ ScanEnd(t) \/ CheckFiber(t) \/ Yeild(t) \/ Returned(t)
           \/ IdleEnter(t) \/ Idle(t) \/ IdleReturned(t)
  <2>1. /\ UNCHANGED <<state, fiber_list, fbr, waiting, try_stop, late>>
        /\ \A u \in Threads : Unarmed(u)' <=> Unarmed(u)
        /\ \A u \in Threads : pc'[u] = "done" <=> pc[u] = "done"
    BY <1>t, <1>1 DEF Lock, ScanSkip, ScanEnd, CheckFiber, Yeild, Returned, IdleEnter, Idle,
                      IdleReturned, workerVars, ownerVars, Unarmed
  <2>2. Queued' = Queued /\ Done' = Done /\ Left' = Left
    BY <2>1 DEF Queued, Listed, Done, Left
  <2>3. Running' = Running
    BY <2>1 DEF Running
  <2> QED BY <2>1, <2>2, <2>3 DEF Places
<1>2. CASE DropFinished(t)
  <2>1. /\ pc[t] = "check" /\ state[fbr[t]] \in Finished
        /\ pc' = [pc EXCEPT ![t] = "idlecheck"] /\ fbr' = [fbr EXCEPT ![t] = NoFiber]
        /\ UNCHANGED <<state, fiber_list, waiting, try_stop, late>>
    BY <1>2 DEF DropFinished, Ended, ownerVars
  <2>2. Running' = Running
    BY <1>t, <2>1 DEF Running, Unarmed
  <2>3. Queued' = Queued /\ Done' = Done /\ Left' = Left
    BY <1>t, <2>1 DEF Queued, Listed, Done, Left
  <2> QED BY <2>1, <2>2, <2>3 DEF Places
<1>3. CASE Call(t)
  <2>1. /\ pc[t] = "call" /\ pc' = [pc EXCEPT ![t] = "fiber"]
        /\ state' = [state EXCEPT ![fbr[t]] = "EXEC"]
        /\ UNCHANGED <<fiber_list, fbr, waiting, try_stop, late>>
    BY <1>3 DEF Call, ownerVars
  <2>2. fbr[t] \in Fibers /\ state[fbr[t]] \notin Finished
    BY <2>1 DEF IInv, FiberInv, HeldState, Holding, Finished
  <2>3. \A f \in Fibers : state'[f] \in Finished <=> state[f] \in Finished
    BY <1>t, <2>1, <2>2 DEF Finished
  <2>4. Running' = Running
    BY <1>t, <2>1, <2>3 DEF Running, Unarmed
  <2>5. Done' = Done /\ Left' = Left
    BY <1>t, <2>1, <2>3 DEF Done, Left
  <2>6. Queued' = Queued
    BY <2>1, <2>3, <1>l DEF Queued, Listed
  <2> QED BY <2>1, <2>4, <2>5, <2>6 DEF Places
<1>4. CASE Settle(t)
  <2>1. /\ pc[t] = "settle" /\ pc' = [pc EXCEPT ![t] = "idlecheck"]
        /\ fbr[t] \in Fibers /\ state[fbr[t]] \in Finished \cup {"EXEC"}
        /\ fbr' = [fbr EXCEPT ![t] = NoFiber]
        /\ state' = [state EXCEPT ![fbr[t]] = Settled(@)]
        /\ UNCHANGED <<waiting, try_stop, late>>
    BY <1>4 DEF Settle, ownerVars, IInv, FiberInv, HeldState, Holding
  <2>2. fiber_list' = fiber_list
    BY <1>4, <2>1 DEF Settle, Finished
  <2>3. \A f \in Fibers : state'[f] \in Finished <=> state[f] \in Finished
    BY <1>t, <2>1 DEF Finished, Settled
  <2>4. Running' = Running
    BY <1>t, <2>1, <2>3 DEF Running, Unarmed
  <2>5. Done' = Done /\ Left' = Left
    BY <1>t, <2>1, <2>3 DEF Done, Left
  <2>6. Queued' = Queued
    BY <2>2, <2>3, <1>l DEF Queued, Listed
  <2> QED BY <2>1, <2>4, <2>5, <2>6 DEF Places
<1> QED BY <1>1, <1>2, <1>3, <1>4

LEMMA PoolStep ==
    ASSUME IInv, LateAfterStop, [Next]_vars
    PROVE  [Pool!Next]_(Pool!pvars)
<1>1. CASE Start \/ (\E t \in Threads : Spawn(t)) \/ StartDone \/ Join \/ Terminated \/ UNCHANGED vars
  <2>1. /\ UNCHANGED <<state, fiber_list, fbr, waiting, try_stop, late>>
        /\ \A u \in Threads : Unarmed(u)' <=> Unarmed(u)
        /\ \A u \in Threads : pc'[u] = "done" <=> pc[u] = "done"
    BY <1>1 DEF Start, Spawn, StartDone, Join, Terminated, vars, workerVars, ownerVars, Unarmed,
                IInv, TypeOK
  <2>2. Queued' = Queued /\ Done' = Done /\ Left' = Left
    BY <2>1 DEF Queued, Listed, Done, Left
  <2>3. Running' = Running
    BY <2>1 DEF Running
  <2>4. UNCHANGED Places
    BY <2>1, <2>2, <2>3 DEF Places
  <2> QED BY <2>4, PoolStutters
<1>2. CASE Stop
  <2>1. try_stop' = TRUE /\ UNCHANGED <<state, fiber_list, fbr, pc, waiting, late>>
    BY <1>2 DEF Stop, workerVars
  <2>2. Pool!Stop
    BY <2>1 DEF Pool!Stop, Listed, Unarmed
  <2> QED BY <2>2 DEF Pool!Next
<1>3. CASE Schedule
  <2>1. PICK a \in Threads \cup {Client}, f \in Fibers :
            ScheduleCb(a, f) \/ ScheduleFiber(a, f) \/ ScheduleEnded(a, f)
    BY <1>3 DEF Schedule
  <2>2. Pool!Submit(f) \/ Pool!Wake(f) \/ UNCHANGED Pool!pvars
    BY <2>1, PoolSubmit, PoolWake, PoolEnded, PoolStutters
  <2> QED BY <2>2 DEF Pool!Next
<1>4. ASSUME NEW t \in Threads, Worker(t)
      PROVE  [Pool!Next]_(Pool!pvars)
  <2>1. CASE ScanTake(t)
    BY <2>1, PoolStart, PoolStutters DEF Pool!Next
  <2>2. CASE Arm(t) \/ MainFunc(t)
    <3>1. PICK f \in Fibers : fbr[t] = f
      BY <2>2 DEF Arm, MainFunc, IInv, FiberInv, HeldState, Holding
    <3>2. Pool!Suspend(t, f) \/ Pool!Finish(t, f)
      BY <2>2, <3>1, PoolRuns
    <3> QED BY <3>2 DEF Pool!Next
  <2>3. CASE Exit(t)
    BY <2>3, PoolLeave DEF Pool!Next
  <2>4. CASE ~(ScanTake(t) \/ Arm(t) \/ MainFunc(t) \/ Exit(t))
    BY <1>4, <2>4, PoolQuiet, PoolStutters DEF Worker
  <2> QED BY <2>1, <2>2, <2>3, <2>4
<1> QED BY <1>1, <1>2, <1>3, <1>4 DEF Next, Owner

\* run(), schedule() and stop() do to the fibers what FiberPool promises, whatever
\* the number of workers: wake-ups that come before yeild(), references to finished
\* fibers and the scan of the list are not visible to the callers.
THEOREM SchedulerImplementsPool == Spec => ImplementsPool
<1>1. Init => Pool!Init /\ LateAfterStop
  BY DEF Init, Pool!Init, LateAfterStop, Listed, ToSet, Unarmed, Finished
<1>2. IInv /\ LateAfterStop /\ [Next]_vars => LateAfterStop' /\ [Pool!Next]_(Pool!pvars)
  BY LateStep, PoolStep DEF IInv
<1> QED
  BY <1>1, <1>2, Invariance, PTL DEF Spec, ImplementsPool, Pool!Spec
=============================================================================
