-------------------------- MODULE IOManagerProofs --------------------------
(***************************************************************************)
(* Theorems about IOManager, for every finite set of descriptors and every *)
(* set of waiters and workers, whichever calls epoll_ctl refuses.          *)
(***************************************************************************)
EXTENDS IOManager, TLAPS, FiniteSetTheorems, FunctionTheorems

\* What a step does to the table: nothing, one of the three operations that
\* change a single event, or the triggering of events that are in it.
LEMMA TableSteps ==
    ASSUME TypeOK, [Next]_vars
    PROVE  \/ UNCHANGED <<size, tableVars>>
           \/ \E a \in Threads, fd \in Fds, e \in Event, w \in Waiters :
                 addEvent(a, fd, e, w) \/ addEventFails(a, fd, e, w)
           \/ \E a \in Threads, fd \in Fds, e \in Event : delEvent(a, fd, e)
           \/ \E fd \in Fds, E \in SUBSET Event :
                 E \subseteq events[fd] /\ CtlRemove(fd, E) /\ triggerEvent(fd, E) /\ size' = size
<1>1. CASE Clients
  <2>1. ASSUME NEW a \in Threads, NEW fd \in Fds, NEW e \in Event, Add(a, fd, e)
        PROVE  \/ UNCHANGED <<size, tableVars>>
               \/ \E w \in Waiters : addEvent(a, fd, e, w) \/ addEventFails(a, fd, e, w)
    BY <2>1 DEF Add, addEventAborts
  <2>2. ASSUME NEW a \in Threads, NEW fd \in Fds, NEW E \in SUBSET Event, Cancel(a, fd, E)
        PROVE  E \subseteq events[fd] /\ CtlRemove(fd, E) /\ triggerEvent(fd, E) /\ size' = size
    BY <2>2 DEF Cancel
  <2>3. ASSUME NEW fd \in Fds, CancelOutside(fd) PROVE UNCHANGED <<size, tableVars>>
    BY <2>3 DEF CancelOutside
  <2>5. \A fd \in Fds : events[fd] \in SUBSET Event
    BY DEF TypeOK
  <2>6. \A e \in Event : {e} \in SUBSET Event
    OBVIOUS
  <2> QED
    BY <1>1, <2>1, <2>2, <2>3, <2>5, <2>6 DEF Clients, cancelEvent, cancelAll
<1>2. ASSUME NEW t \in Workers, Idle(t)
      PROVE  \/ UNCHANGED <<size, tableVars>>
             \/ \E fd \in Fds, E \in SUBSET Event :
                   E \subseteq events[fd] /\ CtlRemove(fd, E) /\ triggerEvent(fd, E) /\ size' = size
  <2>1. ASSUME NEW fd \in Fds, TriggerReal(t, fd)
        PROVE  /\ real_events(t, fd) \in SUBSET Event
               /\ real_events(t, fd) \subseteq events[fd]
               /\ CtlRemove(fd, real_events(t, fd))
               /\ triggerEvent(fd, real_events(t, fd))
               /\ size' = size
    BY <2>1 DEF TriggerReal, TypeOK
  <2>2. ASSUME NEW fd \in Fds, SkipEvent(t, fd) \/ TriggerAborts(t, fd)
        PROVE  UNCHANGED <<size, tableVars>>
    BY <2>2 DEF SkipEvent, TriggerAborts
  <2>3. ASSUME EpollWait(t) \/ IdleYeild(t) PROVE UNCHANGED <<size, tableVars>>
    BY <2>3 DEF EpollWait, IdleYeild
  <2> QED
    BY <1>2, <2>1, <2>2, <2>3 DEF Idle
<1>3. CASE Ended \/ UNCHANGED vars
  BY <1>3 DEF Ended, vars
<1> QED
  BY <1>1, <1>2, <1>3 DEF Next

-----------------------------------------------------------------------------
(* Types *)

EventContext == [index : {0, 1}, who : Waiters \cup {Nobody}]

TableOK ==
    /\ size \in Nat
    /\ n_pending \in Int
    /\ events \in [Fds -> SUBSET Event]
    /\ kernel \in [Fds -> SUBSET Event]
    /\ ctx \in [Fds -> [Event -> EventContext]]
    /\ reg \in [Waiters -> {NoReg} \cup (Fds \X Event)]
    /\ refused \in Nat

LEMMA NestedExcept ==
    ASSUME NEW A, NEW B, NEW C, NEW f \in [A -> [B -> C]], NEW a \in A, NEW b \in B, NEW c \in C
    PROVE  /\ [f EXCEPT ![a][b] = c] \in [A -> [B -> C]]
           /\ \A x \in A, y \in B :
                 [f EXCEPT ![a][b] = c][x][y] = IF x = a /\ y = b THEN c ELSE f[x][y]
OBVIOUS

LEMMA EventFinite == IsFiniteSet(Event)
<1>1. Event = {"READ"} \cup {"WRITE"}
  BY DEF Event
<1> QED
  BY <1>1, FS_Singleton, FS_AddElement

LEMMA TableTypes ==
    ASSUME TypeOK, [Next]_vars
    PROVE  TableOK'
<1>t. TableOK
  BY DEF TypeOK, TableOK, EventContext
<1> USE DEF TableOK
<1>1. CASE UNCHANGED <<size, tableVars>>
  BY <1>1, <1>t DEF tableVars
<1>2. ASSUME NEW a \in Threads, NEW fd \in Fds, NEW e \in Event, NEW w \in Waiters,
             addEvent(a, fd, e, w) \/ addEventFails(a, fd, e, w)
      PROVE  TableOK'
  <2>1. size' \in Nat
    BY <1>2, <1>t, FdsAssumption DEF addEvent, addEventFails, contextResize
  <2>2. Context(w) \in EventContext
    BY DEF Context, EventContext
  <2>3. ctx' = [ctx EXCEPT ![fd][e] = Context(w)]
    BY <1>2 DEF addEvent, addEventFails
  <2>4. ctx' \in [Fds -> [Event -> EventContext]]
    BY <1>t, <2>2, <2>3, NestedExcept
  <2>5. events' \in [Fds -> SUBSET Event]
    BY <1>2, <1>t DEF addEvent, addEventFails
  <2>6. CASE addEvent(a, fd, e, w)
    BY <1>t, <2>1, <2>4, <2>5, <2>6 DEF addEvent
  <2>7. CASE addEventFails(a, fd, e, w)
    BY <1>t, <2>1, <2>4, <2>5, <2>7 DEF addEventFails
  <2> QED BY <1>2, <2>6, <2>7
<1>3. ASSUME NEW a \in Threads, NEW fd \in Fds, NEW e \in Event, delEvent(a, fd, e)
      PROVE  TableOK'
  <2>1. [index |-> 1, who |-> Nobody] \in EventContext
    BY DEF EventContext
  <2>2. ctx' \in [Fds -> [Event -> EventContext]]
    BY <1>t, <1>3, <2>1, NestedExcept DEF delEvent
  <2> QED
    BY <1>t, <1>3, <2>2 DEF delEvent, CtlRemove
<1>4. ASSUME NEW fd \in Fds, NEW E \in SUBSET Event,
             CtlRemove(fd, E), triggerEvent(fd, E), size' = size
      PROVE  TableOK'
  <2>1. Cardinality(E) \in Nat
    BY EventFinite, FS_Subset, FS_CardinalityType
  <2> QED
    BY <1>t, <1>4, <2>1 DEF CtlRemove, triggerEvent
<1> QED
  BY <1>1, <1>2, <1>3, <1>4, TableSteps

LEMMA TypeStep ==
    ASSUME TypeOK, [Next]_vars
    PROVE  TypeOK'
<1> DEFINE Failures == {"none", "twice", "ctx", "trigger", "null"}
           Got == [Workers -> [Fds -> SUBSET (Event \cup {"ERR"})]]
           FlowOK == pc \in [Workers -> {"run", "idle"}] /\ got \in Got /\ failure \in Failures
<1>t. TableOK' /\ FlowOK
  BY TableTypes DEF TypeOK
<1>1. CASE Clients
  <2>1. ASSUME NEW a \in Threads, NEW fd \in Fds, NEW e \in Event, Add(a, fd, e)
        PROVE  UNCHANGED <<pc, got>> /\ failure' \in Failures
    <3>1. PICK w \in Waiters : \/ addEvent(a, fd, e, w) \/ addEventFails(a, fd, e, w)
                               \/ addEventAborts(a, fd, e, w)
      BY <2>1 DEF Add
    <3> QED BY <3>1, <1>t DEF addEvent, addEventFails, addEventAborts
  <2>2. ASSUME NEW a \in Threads, NEW fd \in Fds, NEW E, Cancel(a, fd, E)
        PROVE  UNCHANGED <<pc, got>> /\ failure' \in Failures
    BY <2>2, <1>t DEF Cancel
  <2>3. ASSUME NEW a \in Threads, NEW fd \in Fds, NEW e \in Event, delEvent(a, fd, e)
        PROVE  UNCHANGED <<pc, got>> /\ failure' \in Failures
    BY <2>3, <1>t DEF delEvent
  <2>4. ASSUME NEW fd \in Fds, CancelOutside(fd)
        PROVE  UNCHANGED <<pc, got>> /\ failure' \in Failures
    BY <2>4, <1>t DEF CancelOutside
  <2>5. UNCHANGED <<pc, got>> /\ failure' \in Failures
    BY <1>1, <2>1, <2>2, <2>3, <2>4 DEF Clients, cancelEvent, cancelAll
  <2> QED BY <1>t, <2>5 DEF TypeOK, TableOK, EventContext
<1>2. ASSUME NEW t \in Workers, Idle(t) PROVE TypeOK'
  <2>1. ASSUME NEW fd \in Fds, SkipEvent(t, fd) \/ TriggerReal(t, fd) \/ TriggerAborts(t, fd)
        PROVE  FlowOK'
    <3>1. Handle(t, fd) /\ pc' = pc /\ failure' \in Failures
      BY <1>t, <2>1 DEF SkipEvent, TriggerReal, TriggerAborts
    <3>2. got' \in Got
      BY <1>t, <3>1, NestedExcept DEF Handle
    <3> QED BY <1>t, <3>1, <3>2
  <2>2. ASSUME EpollWait(t) PROVE FlowOK'
    BY <1>t, <2>2 DEF EpollWait
  <2>3. ASSUME IdleYeild(t) PROVE FlowOK'
    BY <1>t, <2>3 DEF IdleYeild
  <2>4. FlowOK'
    BY <1>2, <2>1, <2>2, <2>3 DEF Idle
  <2> QED BY <1>t, <2>4 DEF TypeOK, TableOK, EventContext
<1>3. CASE Ended \/ UNCHANGED vars
  BY <1>3, <1>t DEF Ended, vars, TypeOK, TableOK, EventContext
<1> QED
  BY <1>1, <1>2, <1>3 DEF Next

-----------------------------------------------------------------------------
(* Waiters *)

LEMMA RegIsPair == \A x, y : <<x, y>> # NoReg
BY DEF NoReg

LEMMA WaiterStep ==
    ASSUME TypeOK, NoWaiterLost, [Next]_vars
    PROVE  NoWaiterLost'
<1>t. TableOK
  BY DEF TypeOK, TableOK, EventContext
<1> SUFFICES ASSUME NEW v \in Waiters, NEW x \in Fds, NEW y \in Event, reg'[v] = <<x, y>>
             PROVE  y \in events'[x] /\ ctx'[x][y].who = v
  BY DEF NoWaiterLost
<1>o. reg[v] = <<x, y>> => y \in events[x] /\ ctx[x][y].who = v
  BY DEF NoWaiterLost
<1>1. CASE UNCHANGED <<size, tableVars>>
  BY <1>1, <1>o DEF tableVars
<1>2. ASSUME NEW a \in Threads, NEW fd \in Fds, NEW e \in Event, NEW w \in Waiters,
             addEvent(a, fd, e, w) \/ addEventFails(a, fd, e, w)
      PROVE  y \in events'[x] /\ ctx'[x][y].who = v
  <2>1. /\ e \notin events[fd]
        /\ events' = [events EXCEPT ![fd] = @ \cup {e}]
        /\ ctx' = [ctx EXCEPT ![fd][e] = Context(w)]
        /\ reg' = reg \/ reg' = [reg EXCEPT ![w] = <<fd, e>>]
    BY <1>2 DEF addEvent, addEventFails
  <2>2. Context(w) \in EventContext /\ Context(w).who = w
    BY DEF Context, EventContext
  <2>3. events'[x] = IF x = fd THEN events[x] \cup {e} ELSE events[x]
    BY <1>t, <2>1 DEF TableOK
  <2>4. ctx'[x][y] = IF x = fd /\ y = e THEN Context(w) ELSE ctx[x][y]
    BY <1>t, <2>1, <2>2, NestedExcept DEF TableOK
  <2>5. CASE reg[v] = <<x, y>>
    BY <1>o, <2>1, <2>3, <2>4, <2>5
  <2>6. CASE reg[v] # <<x, y>>
    <3>1. v = w /\ x = fd /\ y = e
      BY <1>t, <2>1, <2>6 DEF TableOK
    <3> QED BY <2>2, <2>3, <2>4, <3>1
  <2> QED BY <2>5, <2>6
<1>3. ASSUME NEW a \in Threads, NEW fd \in Fds, NEW e \in Event, delEvent(a, fd, e)
      PROVE  y \in events'[x] /\ ctx'[x][y].who = v
  <2>1. /\ events' = [events EXCEPT ![fd] = @ \ {e}]
        /\ ctx' = [ctx EXCEPT ![fd][e] = [index |-> 1, who |-> Nobody]]
        /\ reg' = [w \in Waiters |-> IF reg[w] = <<fd, e>> THEN NoReg ELSE reg[w]]
    BY <1>3 DEF delEvent
  <2>2. [index |-> 1, who |-> Nobody] \in EventContext
    BY DEF EventContext
  <2>3. reg[v] = <<x, y>> /\ (x # fd \/ y # e)
    BY <2>1, RegIsPair
  <2>4. ctx'[x][y] = ctx[x][y]
    BY <1>t, <2>1, <2>2, <2>3, NestedExcept DEF TableOK
  <2>5. y \in events'[x]
    BY <1>t, <1>o, <2>1, <2>3 DEF TableOK
  <2> QED BY <1>o, <2>3, <2>4, <2>5
<1>4. ASSUME NEW fd \in Fds, NEW E \in SUBSET Event, CtlRemove(fd, E), triggerEvent(fd, E)
      PROVE  y \in events'[x] /\ ctx'[x][y].who = v
  <2>1. /\ events' = [events EXCEPT ![fd] = @ \ E] /\ ctx' = ctx
        /\ reg' = [w \in Waiters |-> IF \E e \in E : ctx[fd][e].who = w
                                     THEN NoReg ELSE reg[w]]
    BY <1>4 DEF triggerEvent
  <2>2. reg[v] = <<x, y>> /\ \A e \in E : ctx[fd][e].who # v
    BY <2>1, RegIsPair
  <2>3. y \in events'[x]
    BY <1>t, <1>o, <2>1, <2>2 DEF TableOK
  <2> QED BY <1>o, <2>1, <2>2, <2>3
<1> QED
  BY <1>1, <1>2, <1>3, <1>4, TableSteps

LEMMA WaiterInit == Init => TypeOK /\ NoWaiterLost
<1> SUFFICES ASSUME Init PROVE TypeOK /\ NoWaiterLost
  OBVIOUS
<1>1. [index |-> 0, who |-> Nobody] \in EventContext
  BY DEF EventContext
<1>2. ctx \in [Fds -> [Event -> EventContext]]
  BY <1>1 DEF Init
<1>3. 32 \in Nat /\ 0 \in Int
  OBVIOUS
<1>4. TypeOK
  BY <1>2, <1>3 DEF Init, TypeOK, EventContext
<1>5. NoWaiterLost
  BY RegIsPair DEF Init, NoWaiterLost
<1> QED BY <1>4, <1>5

\* The fields of the table, the contexts and the waiters keep their types: an
\* EventContext never holds anything but a waiter or nobody.
THEOREM TypeCorrect == Spec => []TypeOK
<1>1. Init => TypeOK
  BY WaiterInit
<1>2. TypeOK /\ [Next]_vars => TypeOK'
  BY TypeStep
<1> QED
  BY <1>1, <1>2, PTL DEF Spec

\* Nobody that waits is lost, however addEvent, delEvent, cancelEvent and
\* cancelAll interleave with idle() and whichever calls of epoll_ctl fail.
THEOREM WaitersAreNotLost == Spec => []NoWaiterLost
<1>1. Init => TypeOK /\ NoWaiterLost
  BY WaiterInit
<1>2. TypeOK /\ NoWaiterLost /\ [Next]_vars => TypeOK' /\ NoWaiterLost'
  BY TypeStep, WaiterStep
<1> QED
  BY <1>1, <1>2, PTL DEF Spec

-----------------------------------------------------------------------------
(* The kernel.  As long as no addEvent is refused the table is exact. *)

\* The steps that leave no addEvent half done.
LEMMA CleanSteps ==
    ASSUME TypeOK, [Next]_vars, refused' = 0
    PROVE  /\ refused = 0
           /\ \/ UNCHANGED <<size, tableVars>>
              \/ \E a \in Threads, fd \in Fds, e \in Event, w \in Waiters : addEvent(a, fd, e, w)
              \/ \E a \in Threads, fd \in Fds, e \in Event : delEvent(a, fd, e)
              \/ \E fd \in Fds, E \in SUBSET Event :
                    E \subseteq events[fd] /\ CtlRemove(fd, E) /\ triggerEvent(fd, E)
<1>1. \A a \in Threads, fd \in Fds, e \in Event, w \in Waiters : ~addEventFails(a, fd, e, w)
  BY DEF addEventFails, TypeOK
<1>3. \/ UNCHANGED <<size, tableVars>>
      \/ \E a \in Threads, fd \in Fds, e \in Event, w \in Waiters : addEvent(a, fd, e, w)
      \/ \E a \in Threads, fd \in Fds, e \in Event : delEvent(a, fd, e)
      \/ \E fd \in Fds, E \in SUBSET Event :
            E \subseteq events[fd] /\ CtlRemove(fd, E) /\ triggerEvent(fd, E)
  BY <1>1, TableSteps
<1>4. refused' = refused
  <2>1. \A a, fd, e, w : addEvent(a, fd, e, w) => refused' = refused
    BY DEF addEvent
  <2>2. \A a, fd, e : delEvent(a, fd, e) => refused' = refused
    BY DEF delEvent
  <2>3. \A fd, E : triggerEvent(fd, E) => refused' = refused
    BY DEF triggerEvent
  <2>4. UNCHANGED <<size, tableVars>> => refused' = refused
    BY DEF tableVars
  <2> QED BY <1>3, <2>1, <2>2, <2>3, <2>4
<1> QED BY <1>3, <1>4

LEMMA KernelStep ==
    ASSUME TypeOK, KernelMatchesTable, [Next]_vars
    PROVE  KernelMatchesTable'
<1> SUFFICES ASSUME refused' = 0 PROVE kernel' = events'
  BY DEF KernelMatchesTable
<1>c. refused = 0 /\ kernel = events
  BY CleanSteps DEF KernelMatchesTable
<1>1. CASE UNCHANGED <<size, tableVars>>
  BY <1>1, <1>c DEF tableVars
<1>2. ASSUME NEW a \in Threads, NEW fd \in Fds, NEW e \in Event, NEW w \in Waiters,
             addEvent(a, fd, e, w)
      PROVE  kernel' = events'
  BY <1>2, <1>c DEF addEvent, TypeOK
<1>3. ASSUME NEW a \in Threads, NEW fd \in Fds, NEW e \in Event, delEvent(a, fd, e)
      PROVE  kernel' = events'
  BY <1>3, <1>c DEF delEvent, CtlRemove, TypeOK
<1>4. ASSUME NEW fd \in Fds, NEW E \in SUBSET Event, CtlRemove(fd, E), triggerEvent(fd, E)
      PROVE  kernel' = events'
  BY <1>4, <1>c DEF CtlRemove, triggerEvent, TypeOK
<1> QED
  BY <1>1, <1>2, <1>3, <1>4, CleanSteps

LEMMA GhostStep ==
    ASSUME TypeOK, NoWaiterLost, NoGhost, [Next]_vars
    PROVE  NoGhost'
<1>t. TableOK
  BY DEF TypeOK, TableOK, EventContext
<1> SUFFICES ASSUME refused' = 0, NEW x \in Fds, NEW y \in events'[x]
             PROVE  \E v \in Waiters : reg'[v] = <<x, y>>
  BY DEF NoGhost
<1>y. y \in Event
  BY TableTypes DEF TableOK
<1>c. refused = 0 /\ \A fd \in Fds : \A e \in events[fd] : \E w \in Waiters : reg[w] = <<fd, e>>
  BY CleanSteps DEF NoGhost
<1>1. CASE UNCHANGED <<size, tableVars>>
  BY <1>1, <1>c DEF tableVars
<1>2. ASSUME NEW a \in Threads, NEW fd \in Fds, NEW e \in Event, NEW w \in Waiters,
             addEvent(a, fd, e, w)
      PROVE  \E v \in Waiters : reg'[v] = <<x, y>>
  <2>1. /\ events' = [events EXCEPT ![fd] = @ \cup {e}]
        /\ reg' = [reg EXCEPT ![w] = <<fd, e>>]
        /\ reg[w] = NoReg
    BY <1>2 DEF addEvent, MayAdd
  <2>2. CASE x = fd /\ y = e
    BY <1>t, <2>1, <2>2 DEF TableOK
  <2>3. CASE ~(x = fd /\ y = e)
    <3>1. y \in events[x]
      BY <1>t, <2>1, <2>3 DEF TableOK
    <3>2. PICK v \in Waiters : reg[v] = <<x, y>>
      BY <1>c, <3>1
    <3>3. v # w
      BY <2>1, <3>2, RegIsPair
    <3> QED BY <1>t, <2>1, <3>2, <3>3 DEF TableOK
  <2> QED BY <2>2, <2>3
<1>3. ASSUME NEW a \in Threads, NEW fd \in Fds, NEW e \in Event, delEvent(a, fd, e)
      PROVE  \E v \in Waiters : reg'[v] = <<x, y>>
  <2>1. /\ events' = [events EXCEPT ![fd] = @ \ {e}]
        /\ reg' = [w \in Waiters |-> IF reg[w] = <<fd, e>> THEN NoReg ELSE reg[w]]
    BY <1>3 DEF delEvent
  <2>2. y \in events[x] /\ (x # fd \/ y # e)
    BY <1>t, <2>1 DEF TableOK
  <2>3. PICK v \in Waiters : reg[v] = <<x, y>>
    BY <1>c, <2>2
  <2>4. <<x, y>> # <<fd, e>>
    BY <2>2
  <2>5. reg'[v] = reg[v]
    BY <2>1, <2>3, <2>4
  <2> QED BY <2>3, <2>5
<1>4. ASSUME NEW fd \in Fds, NEW E \in SUBSET Event, E \subseteq events[fd],
             CtlRemove(fd, E), triggerEvent(fd, E)
      PROVE  \E v \in Waiters : reg'[v] = <<x, y>>
  <2>1. /\ events' = [events EXCEPT ![fd] = @ \ E]
        /\ reg' = [w \in Waiters |-> IF \E e \in E : ctx[fd][e].who = w
                                     THEN NoReg ELSE reg[w]]
    BY <1>4 DEF triggerEvent
  <2>2. y \in events[x] /\ ~(x = fd /\ y \in E)
    BY <1>t, <2>1 DEF TableOK
  <2>3. PICK v \in Waiters : reg[v] = <<x, y>>
    BY <1>c, <2>2
  <2>4. ASSUME NEW e \in E, ctx[fd][e].who = v PROVE FALSE
    <3>1. e \in Event /\ e \in events[fd]
      BY <1>4
    <3>2. PICK u \in Waiters : reg[u] = <<fd, e>>
      BY <1>c, <3>1
    <3>3. ctx[fd][e].who = u
      BY <3>1, <3>2 DEF NoWaiterLost
    <3>4. <<x, y>> = <<fd, e>>
      BY <2>3, <2>4, <3>2, <3>3
    <3>5. x = fd /\ y = e
      BY <3>4
    <3> QED BY <2>2, <3>5
  <2>5. reg'[v] = reg[v]
    BY <2>1, <2>4
  <2> QED BY <2>3, <2>5
<1> QED
  BY <1>1, <1>2, <1>3, <1>4, CleanSteps

-----------------------------------------------------------------------------
(* Counting the events of the table. *)

LEMMA PendingFinite == TypeOK => IsFiniteSet(Pending)
<1>1. IsFiniteSet(Fds \X Event)
  BY FS_Product, EventFinite, ActorsAssumption
<1>2. Pending \subseteq Fds \X Event
  BY DEF Pending
<1> QED
  BY <1>1, <1>2, FS_Subset

LEMMA CountStep ==
    ASSUME TypeOK, PendingCounts, [Next]_vars
    PROVE  PendingCounts'
<1> SUFFICES ASSUME refused' = 0 PROVE n_pending' = Cardinality(Pending')
  BY DEF PendingCounts
<1>c. refused = 0 /\ n_pending = Cardinality(Pending)
  BY CleanSteps DEF PendingCounts
<1>t. TableOK
  BY DEF TypeOK, TableOK, EventContext
<1>f. IsFiniteSet(Pending) /\ Cardinality(Pending) \in Nat
  BY PendingFinite, FS_CardinalityType
<1>1. CASE UNCHANGED <<size, tableVars>>
  BY <1>1, <1>c DEF tableVars, Pending
<1>2. ASSUME NEW a \in Threads, NEW fd \in Fds, NEW e \in Event, NEW w \in Waiters,
             addEvent(a, fd, e, w)
      PROVE  n_pending' = Cardinality(Pending')
  <2>1. /\ events' = [events EXCEPT ![fd] = @ \cup {e}]
        /\ n_pending' = n_pending + 1
        /\ e \notin events[fd]
    BY <1>2 DEF addEvent
  <2>2. <<fd, e>> \notin Pending
    BY <2>1 DEF Pending
  <2>3. Pending' = Pending \cup {<<fd, e>>}
    BY <1>t, <2>1 DEF Pending, TableOK
  <2>4. Cardinality(Pending') = Cardinality(Pending) + 1
    BY <1>f, <2>2, <2>3, FS_AddElement
  <2> QED BY <1>c, <1>f, <2>1, <2>4
<1>3. ASSUME NEW a \in Threads, NEW fd \in Fds, NEW e \in Event, delEvent(a, fd, e)
      PROVE  n_pending' = Cardinality(Pending')
  <2>1. /\ events' = [events EXCEPT ![fd] = @ \ {e}]
        /\ n_pending' = n_pending - 1
        /\ e \in events[fd]
    BY <1>3 DEF delEvent
  <2>2. <<fd, e>> \in Pending
    BY <2>1 DEF Pending
  <2>3. Pending' = Pending \ {<<fd, e>>}
    BY <1>t, <2>1 DEF Pending, TableOK
  <2>4. Cardinality(Pending') = Cardinality(Pending) - 1
    BY <1>f, <2>2, <2>3, FS_RemoveElement
  <2> QED BY <1>c, <1>f, <2>1, <2>4
<1>4. ASSUME NEW fd \in Fds, NEW E \in SUBSET Event, E \subseteq events[fd],
             CtlRemove(fd, E), triggerEvent(fd, E)
      PROVE  n_pending' = Cardinality(Pending')
  <2>1. /\ events' = [events EXCEPT ![fd] = @ \ E]
        /\ n_pending' = n_pending - Cardinality(E)
    BY <1>4 DEF triggerEvent
  <2>2. IsFiniteSet(E) /\ Cardinality(E) \in Nat
    BY EventFinite, FS_Subset, FS_CardinalityType
  <2>3. IsFiniteSet({fd}) /\ Cardinality({fd}) = 1
    BY FS_Singleton
  <2>4. Cardinality({fd} \X E) = Cardinality(E)
    BY <2>2, <2>3, FS_Product
  <2>5. Pending \cap ({fd} \X E) = {fd} \X E
    BY <1>4 DEF Pending
  <2>6. Pending' = Pending \ ({fd} \X E)
    BY <1>t, <2>1 DEF Pending, TableOK
  <2>7. \A T : Cardinality(Pending \ T) = Cardinality(Pending) - Cardinality(Pending \cap T)
    BY <1>f, FS_Difference
  <2>8. Cardinality(Pending') = Cardinality(Pending) - Cardinality({fd} \X E)
    BY <2>5, <2>6, <2>7, Zenon
  <2> QED BY <1>c, <2>1, <2>4, <2>8
<1> QED
  BY <1>1, <1>2, <1>3, <1>4, CleanSteps

LEMMA CountInit == Init => KernelMatchesTable /\ NoGhost /\ PendingCounts
<1> SUFFICES ASSUME Init PROVE KernelMatchesTable /\ NoGhost /\ PendingCounts
  OBVIOUS
<1>1. Pending = {}
  BY DEF Init, Pending
<1>2. PendingCounts
  BY <1>1, FS_EmptySet DEF Init, PendingCounts
<1> QED
  BY <1>2 DEF Init, KernelMatchesTable, NoGhost

\* What holds of the table, epoll, the counter and the waiters.
TableInv == TypeOK /\ NoWaiterLost /\ KernelMatchesTable /\ NoGhost /\ PendingCounts

LEMMA TableInvariant == Spec => []TableInv
<1>1. Init => TableInv
  BY WaiterInit, CountInit DEF TableInv
<1>2. TableInv /\ [Next]_vars => TableInv'
  BY TypeStep, WaiterStep, KernelStep, GhostStep, CountStep DEF TableInv
<1> QED
  BY <1>1, <1>2, PTL DEF Spec

\* Until epoll_ctl refuses an addEvent, epoll watches exactly what the table says.
THEOREM TableIsExact == Spec => []KernelMatchesTable
<1>1. TableInv => KernelMatchesTable
  BY DEF TableInv
<1> QED
  BY <1>1, TableInvariant, PTL

\* Until then every event in the table belongs to a waiter that addEvent accepted.
THEOREM NoGhostEvents == Spec => []NoGhost
<1>1. TableInv => NoGhost
  BY DEF TableInv
<1> QED
  BY <1>1, TableInvariant, PTL

\* Until then n_pendingEvent_ counts the events of the table: stop() waits for
\* every event somebody waits for and for no other.
THEOREM CounterIsExact == Spec => []PendingCounts
<1>1. TableInv => PendingCounts
  BY DEF TableInv
<1> QED
  BY <1>1, TableInvariant, PTL

\* addEvent's assertions fail only after a refused addEvent, a callback or delEvent.
THEOREM AddAbortsExplained == Spec => []AddAborts
<1> DEFINE Contexts == \A fd \in Fds, e \in Event : ctx[fd][e].index = 1 => ctx[fd][e].who \notin Fibers
<1>1. Init => AddAborts /\ Contexts
  BY DEF Init, AddAborts
<1>2. TableInv /\ Contexts /\ [Next]_vars => Contexts'
  <2> SUFFICES ASSUME TableInv, Contexts, [Next]_vars, NEW x \in Fds, NEW y \in Event
               PROVE  ctx'[x][y].index = 1 => ctx'[x][y].who \notin Fibers
    OBVIOUS
  <2>t. TypeOK /\ ctx \in [Fds -> [Event -> EventContext]]
    BY DEF TableInv, TypeOK, EventContext
  <2>1. CASE ctx' = ctx
    BY <2>1
  <2>2. ASSUME NEW fd \in Fds, NEW e \in Event, NEW w \in Waiters,
               ctx' = [ctx EXCEPT ![fd][e] = Context(w)]
        PROVE  ctx'[x][y].index = 1 => ctx'[x][y].who \notin Fibers
    <3>1. Context(w) \in EventContext /\ (Context(w).index = 1 => Context(w).who \notin Fibers)
      BY DEF Context, EventContext
    <3>2. ctx'[x][y] = Context(w) \/ ctx'[x][y] = ctx[x][y]
      BY <2>t, <2>2, <3>1, NestedExcept
    <3> QED BY <3>1, <3>2
  <2>3. ASSUME NEW fd \in Fds, NEW e \in Event,
               ctx' = [ctx EXCEPT ![fd][e] = [index |-> 1, who |-> Nobody]]
        PROVE  ctx'[x][y].index = 1 => ctx'[x][y].who \notin Fibers
    <3>1. [index |-> 1, who |-> Nobody] \in EventContext /\ Nobody \notin Fibers
      BY ActorsAssumption DEF EventContext
    <3>2. ctx'[x][y] = [index |-> 1, who |-> Nobody] \/ ctx'[x][y] = ctx[x][y]
      BY <2>t, <2>3, <3>1, NestedExcept
    <3> QED BY <3>1, <3>2
  <2>4. \/ ctx' = ctx
        \/ \E fd \in Fds, e \in Event, w \in Waiters : ctx' = [ctx EXCEPT ![fd][e] = Context(w)]
        \/ \E fd \in Fds, e \in Event : ctx' = [ctx EXCEPT ![fd][e] = [index |-> 1, who |-> Nobody]]
    <3>1. \A a, fd, e, w : addEvent(a, fd, e, w) \/ addEventFails(a, fd, e, w)
                               => ctx' = [ctx EXCEPT ![fd][e] = Context(w)]
      BY DEF addEvent, addEventFails
    <3>2. \A a, fd, e : delEvent(a, fd, e)
                           => ctx' = [ctx EXCEPT ![fd][e] = [index |-> 1, who |-> Nobody]]
      BY DEF delEvent
    <3>3. \A fd, E : triggerEvent(fd, E) => ctx' = ctx
      BY DEF triggerEvent
    <3>4. UNCHANGED <<size, tableVars>> => ctx' = ctx
      BY DEF tableVars
    <3> QED BY <2>t, <3>1, <3>2, <3>3, <3>4, TableSteps
  <2> QED BY <2>1, <2>2, <2>3, <2>4
<1>3. TableInv /\ Contexts /\ AddAborts /\ [Next]_vars => AddAborts'
  <2> SUFFICES ASSUME TableInv, Contexts, AddAborts, [Next]_vars PROVE AddAborts'
    OBVIOUS
  <2>t. TypeOK
    BY DEF TableInv
  <2>1. CASE failure' = failure /\ UNCHANGED tableVars
    BY <2>1 DEF AddAborts, tableVars
  <2>2. CASE failure' \notin {"twice", "ctx"}
    BY <2>2 DEF AddAborts
  <2>3. ASSUME NEW a \in Threads, NEW fd \in Fds, NEW e \in Event, NEW w \in Waiters,
               addEventAborts(a, fd, e, w)
        PROVE  AddAborts'
    <3>1. /\ UNCHANGED tableVars /\ \A v \in Waiters : reg[v] # <<fd, e>>
          /\ failure' = IF e \in events[fd] THEN "twice" ELSE "ctx"
          /\ e \in events[fd] \/ ctx[fd][e].index # 0
      BY <2>3 DEF addEventAborts, MayAdd
    <3>2. CASE e \in events[fd]
      <4>1. refused # 0
        BY <3>1, <3>2 DEF TableInv, NoGhost
      <4> QED BY <2>t, <3>1, <3>2, <4>1 DEF AddAborts, tableVars, TypeOK
    <3>3. CASE e \notin events[fd]
      <4>1. ctx[fd][e] \in EventContext
        BY <2>t DEF TypeOK, EventContext
      <4>2. ctx[fd][e].index = 1
        BY <3>1, <3>3, <4>1 DEF EventContext
      <4> QED BY <3>1, <3>3, <4>2 DEF AddAborts, tableVars
    <3> QED BY <3>2, <3>3
  <2>4. \/ failure' = failure /\ UNCHANGED tableVars
        \/ failure' \notin {"twice", "ctx"}
        \/ \E a \in Threads, fd \in Fds, e \in Event, w \in Waiters : addEventAborts(a, fd, e, w)
    <3>1. ASSUME Clients PROVE \/ failure' = "none" \/ failure' = "null"
                               \/ \E a \in Threads, fd \in Fds, e \in Event, w \in Waiters :
                                     addEventAborts(a, fd, e, w)
      <4>1. \A a, fd, e, w : addEvent(a, fd, e, w) \/ addEventFails(a, fd, e, w) => failure' = "none"
        BY DEF addEvent, addEventFails, MayAdd
      <4>2. \A a, fd, E : Cancel(a, fd, E) => failure' = "none"
        BY DEF Cancel
      <4>3. \A a, fd, e : delEvent(a, fd, e) => failure' = "none"
        BY DEF delEvent
      <4>4. \A fd : CancelOutside(fd) => failure' = "null"
        BY DEF CancelOutside
      <4> QED
        BY <3>1, <4>1, <4>2, <4>3, <4>4 DEF Clients, Add, cancelEvent, cancelAll
    <3>2. ASSUME NEW t \in Workers, Idle(t) PROVE failure' = "none" \/ failure' = "trigger"
      BY <3>2 DEF Idle, EpollWait, IdleYeild, SkipEvent, TriggerReal, TriggerAborts, Handle
    <3>3. ASSUME Ended \/ UNCHANGED vars PROVE failure' = failure /\ UNCHANGED tableVars
      BY <3>3 DEF Ended, vars
    <3> QED BY <3>1, <3>2, <3>3 DEF Next
  <2> QED BY <2>1, <2>2, <2>3, <2>4
<1> HIDE DEF Contexts
<1> QED
  BY <1>1, <1>2, <1>3, TableInvariant, PTL DEF Spec

-----------------------------------------------------------------------------
(* The table implements the service.  A registration is one event of the   *)
(* table, so that counting events counts the waiters.                      *)

LEMMA WaiterCount ==
    ASSUME TableInv, refused = 0
    PROVE  n_pending = Cardinality(Service!Waiting(reg))
<1> DEFINE W == {w \in Waiters : reg[w] # NoReg}
           f == [w \in W |-> reg[w]]
<1>t. reg \in [Waiters -> {NoReg} \cup (Fds \X Event)]
  BY DEF TableInv, TypeOK
<1>1. f \in [W -> Pending]
  <2> SUFFICES ASSUME NEW w \in W PROVE reg[w] \in Pending
    OBVIOUS
  <2>1. PICK fd \in Fds, e \in Event : reg[w] = <<fd, e>>
    BY <1>t
  <2>2. e \in events[fd]
    BY <2>1 DEF TableInv, NoWaiterLost
  <2> QED BY <2>1, <2>2 DEF Pending
<1>2. \A v, w \in W : f[v] = f[w] => v = w
  <2> SUFFICES ASSUME NEW v \in W, NEW w \in W, reg[v] = reg[w] PROVE v = w
    OBVIOUS
  <2>1. PICK fd \in Fds, e \in Event : reg[w] = <<fd, e>>
    BY <1>t
  <2> QED BY <2>1 DEF TableInv, NoWaiterLost
<1>3. \A p \in Pending : \E w \in W : f[w] = p
  <2> SUFFICES ASSUME NEW p \in Pending PROVE \E w \in W : reg[w] = p
    OBVIOUS
  <2>1. PICK fd \in Fds, e \in Event : p = <<fd, e>> /\ e \in events[fd]
    BY DEF Pending
  <2>2. PICK w \in Waiters : reg[w] = <<fd, e>>
    BY <2>1 DEF TableInv, NoGhost
  <2> QED BY <2>1, <2>2, RegIsPair
<1> HIDE DEF W, f
<1>4. f \in Bijection(W, Pending)
  BY <1>1, <1>2, <1>3, Fun_IsBij
<1>5. ExistsBijection(W, Pending)
  BY <1>4 DEF ExistsBijection
<1>6. IsFiniteSet(Pending)
  BY PendingFinite DEF TableInv
<1>7. ExistsBijection(Pending, W)
  BY <1>5, Fun_ExistsBijSymmetric
<1>8. Cardinality(W) = Cardinality(Pending)
  BY <1>6, <1>7, FS_Bijection
<1>9. Service!Waiting(reg) = W
  BY DEF Service!Waiting, W
<1> QED
  BY <1>8, <1>9 DEF TableInv, PendingCounts

LEMMA ServiceStep ==
    ASSUME TableInv, TableInv', [Next]_vars
    PROVE  [Service!Next]_(Service!svars)
<1>t. TypeOK /\ TypeOK' /\ reg \in [Waiters -> {NoReg} \cup (Fds \X Event)]
  BY DEF TableInv, TypeOK
<1>n. refused' = 0 => n_pending' = Cardinality(Service!Waiting(reg'))
  <2>1. (TableInv /\ refused = 0 => n_pending = Cardinality(Service!Waiting(reg)))'
    BY WaiterCount, PTL
  <2> QED BY <2>1 DEF Service!Waiting
<1>1. CASE UNCHANGED <<size, tableVars>>
  BY <1>1 DEF tableVars, Service!svars
<1>2. ASSUME NEW a \in Threads, NEW fd \in Fds, NEW e \in Event, NEW w \in Waiters,
             addEvent(a, fd, e, w)
      PROVE  Service!Next
  <2>1. /\ reg[w] = NoReg /\ (\A v \in Waiters : reg[v] # <<fd, e>>)
        /\ reg' = [reg EXCEPT ![w] = <<fd, e>>] /\ refused' = refused
    BY <1>2 DEF addEvent, MayAdd
  <2>2. Service!Register(w, fd, e)
    <3>1. (refused > 0)' = (refused > 0)
      BY <2>1
    <3>2. ~(refused > 0) => refused' = 0
      BY <1>t, <2>1 DEF TypeOK
    <3> QED BY <1>n, <2>1, <3>1, <3>2 DEF Service!Register
  <2> QED BY <2>2 DEF Service!Next
<1>3. ASSUME NEW a \in Threads, NEW fd \in Fds, NEW e \in Event, NEW w \in Waiters,
             addEventFails(a, fd, e, w)
      PROVE  Service!Next
  BY <1>3, <1>t DEF addEventFails, Service!Next, Service!Refuse, TypeOK
<1>4. ASSUME NEW S \in SUBSET Waiters, refused' = refused, refused # 0,
             reg' = [w \in Waiters |-> IF w \in S THEN NoReg ELSE reg[w]]
      PROVE  Service!Next
  <2>1. (refused > 0)' = (refused > 0)
    BY <1>4
  <2>2. refused > 0
    BY <1>4, <1>t DEF TypeOK
  <2>3. Service!ReleaseFaulty
    BY <1>4, <2>1, <2>2 DEF Service!ReleaseFaulty
  <2> QED BY <2>3 DEF Service!Next
<1>5. ASSUME NEW fd \in Fds, NEW E \in SUBSET Event, E \subseteq events[fd],
             refused' = refused, refused = 0,
             reg' = [w \in Waiters |-> IF \E e \in E : reg[w] = <<fd, e>> THEN NoReg ELSE reg[w]]
      PROVE  Service!Next
  <2>1. \A e \in E : \E w \in Waiters : reg[w] = <<fd, e>>
    BY <1>5 DEF TableInv, NoGhost
  <2>2. Service!Release(fd, E)
    <3>1. (refused > 0)' = (refused > 0) /\ ~(refused > 0)
      BY <1>5
    <3> QED BY <1>5, <1>n, <2>1, <3>1 DEF Service!Release
  <2> QED BY <2>2 DEF Service!Next
<1>6. ASSUME NEW a \in Threads, NEW fd \in Fds, NEW e \in Event, delEvent(a, fd, e)
      PROVE  Service!Next
  <2>1. /\ e \in events[fd] /\ refused' = refused
        /\ reg' = [w \in Waiters |-> IF reg[w] = <<fd, e>> THEN NoReg ELSE reg[w]]
    BY <1>6 DEF delEvent
  <2>2. reg' = [w \in Waiters |-> IF \E d \in {e} : reg[w] = <<fd, d>> THEN NoReg ELSE reg[w]]
    BY <2>1
  <2>3. reg' = [w \in Waiters |-> IF w \in {v \in Waiters : reg[v] = <<fd, e>>}
                                  THEN NoReg ELSE reg[w]]
    BY <2>1
  <2>4. CASE refused = 0
    <3>1. {e} \in SUBSET Event /\ {e} \subseteq events[fd]
      BY <2>1
    <3> QED BY <1>5, <2>1, <2>2, <2>4, <3>1
  <2>5. CASE refused # 0
    <3>1. {v \in Waiters : reg[v] = <<fd, e>>} \in SUBSET Waiters
      OBVIOUS
    <3> QED BY <1>4, <2>1, <2>3, <2>5, <3>1
  <2> QED BY <2>4, <2>5
<1>7. ASSUME NEW fd \in Fds, NEW E \in SUBSET Event, E \subseteq events[fd], triggerEvent(fd, E)
      PROVE  Service!Next
  <2>1. /\ refused' = refused
        /\ reg' = [w \in Waiters |-> IF \E e \in E : ctx[fd][e].who = w
                                     THEN NoReg ELSE reg[w]]
    BY <1>7 DEF triggerEvent
  <2>2. CASE refused = 0
    <3>1. ASSUME NEW w \in Waiters, NEW e \in E
          PROVE  ctx[fd][e].who = w <=> reg[w] = <<fd, e>>
      <4>1. PICK u \in Waiters : reg[u] = <<fd, e>>
        BY <1>7, <2>2 DEF TableInv, NoGhost
      <4>2. ctx[fd][e].who = u
        BY <4>1 DEF TableInv, NoWaiterLost
      <4>3. reg[w] = <<fd, e>> => ctx[fd][e].who = w
        BY DEF TableInv, NoWaiterLost
      <4> QED BY <4>1, <4>2, <4>3
    <3>2. reg' = [w \in Waiters |-> IF \E e \in E : reg[w] = <<fd, e>> THEN NoReg ELSE reg[w]]
      BY <2>1, <3>1
    <3> QED BY <1>5, <1>7, <2>1, <2>2, <3>2
  <2>3. CASE refused # 0
    <3> DEFINE S == {w \in Waiters : \E e \in E : ctx[fd][e].who = w}
    <3>1. reg' = [w \in Waiters |-> IF w \in S THEN NoReg ELSE reg[w]]
      BY <2>1
    <3> HIDE DEF S
    <3>2. S \in SUBSET Waiters
      BY DEF S
    <3> QED BY <1>4, <2>1, <2>3, <3>1, <3>2
  <2> QED BY <2>2, <2>3
<1> QED
  BY <1>t, <1>1, <1>2, <1>3, <1>6, <1>7, TableSteps

\* The event table, epoll and idle() implement EventService: wake-ups are exact
\* and counted, whatever order addEvent, delEvent, cancelEvent, cancelAll and the
\* workers with their stale epoll results take.
THEOREM EventTableImplementsService == Spec => ImplementsService
<1>1. Init => Service!Init
  BY FS_EmptySet DEF Init, Service!Init
<1>2. TableInv /\ TableInv' /\ [Next]_vars => [Service!Next]_(Service!svars)
  BY ServiceStep
<1> QED
  BY <1>1, <1>2, TableInvariant, PTL DEF Spec, ImplementsService, Service!Spec

-----------------------------------------------------------------------------
(* The size of the table.  It starts with 32 entries, so that a descriptor *)
(* beyond its end is large enough for fd * 1.5 to lie beyond fd.           *)

SizeInv == TypeOK /\ size >= 32 /\ TableHoldsFds

\* contextResize never leaves a descriptor that is in use outside of fdContexts_.
THEOREM TableIsLargeEnough == Spec => []TableHoldsFds
<1>1. Init => SizeInv
  BY WaiterInit DEF Init, SizeInv, TableHoldsFds
<1>2. SizeInv /\ [Next]_vars => SizeInv'
  <2> SUFFICES ASSUME SizeInv, [Next]_vars PROVE size' >= 32 /\ TableHoldsFds'
    BY TypeStep DEF SizeInv
  <2>t. /\ size \in Nat /\ size >= 32 /\ events \in [Fds -> SUBSET Event]
        /\ \A x \in Fds : x \in Nat /\ (events[x] # {} => x < size)
    BY FdsAssumption DEF SizeInv, TypeOK, TableHoldsFds
  <2>1. CASE UNCHANGED <<size, tableVars>>
    BY <2>1, <2>t DEF tableVars, TableHoldsFds
  <2>2. ASSUME NEW a \in Threads, NEW fd \in Fds, NEW e \in Event, NEW w \in Waiters,
               addEvent(a, fd, e, w) \/ addEventFails(a, fd, e, w)
        PROVE  size' >= 32 /\ TableHoldsFds'
    <3>1. size' = contextResize(fd) /\ events' = [events EXCEPT ![fd] = @ \cup {e}]
      BY <2>2 DEF addEvent, addEventFails
    <3>2. size' \in Int /\ size' >= size /\ fd < size'
      BY <2>t, <3>1 DEF contextResize
    <3>3. ASSUME NEW x \in Fds, events'[x] # {} PROVE x < size'
      <4>1. x = fd \/ events[x] # {}
        BY <2>t, <3>1, <3>3
      <4> QED BY <2>t, <3>2, <4>1
    <3> QED BY <2>t, <3>2, <3>3 DEF TableHoldsFds
  <2>3. ASSUME size' = size, \A x \in Fds : events'[x] \subseteq events[x]
        PROVE  size' >= 32 /\ TableHoldsFds'
    BY <2>3, <2>t DEF TableHoldsFds
  <2>4. ASSUME NEW a \in Threads, NEW fd \in Fds, NEW e \in Event, delEvent(a, fd, e)
        PROVE  size' = size /\ \A x \in Fds : events'[x] \subseteq events[x]
    BY <2>4, <2>t DEF delEvent
  <2>5. ASSUME NEW fd \in Fds, NEW E \in SUBSET Event, triggerEvent(fd, E)
        PROVE  \A x \in Fds : events'[x] \subseteq events[x]
    BY <2>5, <2>t DEF triggerEvent
  <2> QED
    BY <2>1, <2>2, <2>3, <2>4, <2>5, TableSteps DEF SizeInv
<1>3. SizeInv => TableHoldsFds
  BY DEF SizeInv
<1> QED
  BY <1>1, <1>2, <1>3, PTL DEF Spec
=============================================================================
