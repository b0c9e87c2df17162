---------------------------- MODULE LoggerProofs ----------------------------
(***************************************************************************)
(* Theorems about Logger, for any number of threads, loggers, appenders    *)
(* and calls.  The argument about the latches is one about their order:    *)
(* who holds a logger's latch waits for appenders only, and the only       *)
(* thread that keeps an appender's latch across steps is one that          *)
(* Logger::setFormatter has stopped.                                       *)
(***************************************************************************)
EXTENDS Logger, ListFacts

-----------------------------------------------------------------------------
(* The inductive invariant *)

Streams == [open : BOOLEAN, good : BOOLEAN]

\* The stages of a call, with what the thread remembers at each.  addAppender
\* goes on to assign a formatter only after it has seen none.
Stages ==
    {Idle}
      \cup [op : {"enter"}, lg : Names, lv : Levels]
      \cup [op : {"log"}, lg : Names, lv : Levels, todo : Seq(Appenders)]
      \cup [op : {"set", "stuck"}, lg : Names, todo : Seq(Appenders)]
      \cup [op : {"add"}, lg : Names, ap : Appenders]
      \cup [op : {"fill"}, lg : Names, ap : Appenders, saw : {NoFormatter}]

Types ==
    /\ loggers \subseteq Names
    /\ latch \in [Names \cup Appenders -> Threads \cup {Nobody}]
    /\ formatter \in [Names \cup Appenders -> Formatters \cup {Default, NoFormatter}]
    /\ own \in [Appenders -> BOOLEAN]
    /\ appenders \in [Names -> Seq(Appenders)]
    /\ stream \in [FileAppenders -> Streams]
    /\ thread \in [Threads -> Stages]

\* The thread behind a logger's latch is inside a call on that logger.
LoggerLatches ==
    \A n \in Names : latch[n] # Nobody =>
        /\ thread[latch[n]].op \in {"log", "set", "stuck", "add", "fill"}
        /\ thread[latch[n]].lg = n

\* An appender's latch that stays taken is one that setFormatter waits for while
\* it holds it.
AppenderLatches ==
    \A a \in Appenders : latch[a] # Nobody => Stuck(latch[a])

LatchInv == LoggerLatches /\ AppenderLatches

\* A client is behind the missing formatter of x.
Excused(x) == formatter[x] = NoFormatter => cleared \cap ({x} \cup Names) # {}

\* What a thread is about to log to, or to take a formatter from.
FormatterInv ==
    /\ FormatterPresent
    /\ \A n \in loggers : formatter[n] = NoFormatter => n \in cleared
    /\ \A t \in Threads : thread[t].op = "log" =>
          \A a \in Range(thread[t].todo) : Excused(a)
    /\ \A t \in Threads : thread[t].op # "idle" => thread[t].lg \in loggers

IInv == Types /\ LatchInv /\ FormatterInv /\ StreamsUsable

-----------------------------------------------------------------------------
(* Stages *)

LEMMA StageFacts ==
    ASSUME NEW r \in Stages
    PROVE  /\ r.op = "idle" => r = Idle
           /\ r.op = "enter" => r.lg \in Names /\ r.lv \in Levels
           /\ r.op = "log" => r \in [op : {"log"}, lg : Names, lv : Levels, todo : Seq(Appenders)]
           /\ r.op \in {"set", "stuck"} => r \in [op : {"set", "stuck"}, lg : Names, todo : Seq(Appenders)]
           /\ r.op = "add" => r.lg \in Names /\ r.ap \in Appenders
           /\ r.op = "fill" => r.lg \in Names /\ r.ap \in Appenders /\ r.saw = NoFormatter
           /\ r.op \in {"idle", "enter", "log", "set", "stuck", "add", "fill"}
BY DEF Stages, Idle

LEMMA StageTypes ==
    /\ Idle \in Stages
    /\ \A n \in Names, v \in Levels : [op |-> "enter", lg |-> n, lv |-> v] \in Stages
    /\ \A n \in Names, v \in Levels, q \in Seq(Appenders) :
          [op |-> "log", lg |-> n, lv |-> v, todo |-> q] \in Stages
    /\ \A n \in Names, q \in Seq(Appenders) : [op |-> "set", lg |-> n, todo |-> q] \in Stages
    /\ \A n \in Names, q \in Seq(Appenders) : [op |-> "stuck", lg |-> n, todo |-> q] \in Stages
    /\ \A n \in Names, a \in Appenders : [op |-> "add", lg |-> n, ap |-> a] \in Stages
    /\ \A n \in Names, a \in Appenders :
          [op |-> "fill", lg |-> n, ap |-> a, saw |-> NoFormatter] \in Stages
BY DEF Stages

-----------------------------------------------------------------------------
(* Types *)

LEMMA TypesStep ==
    ASSUME Types, [Next]_vars
    PROVE  Types'
<1> USE DEF Types
<1>1. ASSUME NEW t \in Threads, NEW n \in Names, GetLogger(t, n) PROVE Types'
  <2>1. FirstAppender[n] \in Appenders /\ <<FirstAppender[n]>> \in Seq(Appenders)
    BY LoggerAssumption
  <2> QED BY <1>1, <2>1 DEF GetLogger
<1>2. ASSUME NEW t \in Threads, NEW n \in Names, ClearAppenders(t, n) PROVE Types'
  BY <1>2 DEF ClearAppenders
<1>3. ASSUME NEW t \in Threads, NEW n \in Names, NEW v \in Levels, Log(t, n, v) PROVE Types'
  BY <1>3, StageTypes DEF Log
<1>4. ASSUME NEW t \in Threads, NEW n \in Names, NEW f \in Formatters \cup {NoFormatter},
             SetFormatter(t, n, f)
      PROVE  Types'
  BY <1>4, StageTypes DEF SetFormatter
<1>5. ASSUME NEW t \in Threads, NEW n \in Names, NEW a \in Appenders, AddAppender(t, n, a)
      PROVE  Types'
  BY <1>5, StageTypes DEF AddAppender
<1>6. ASSUME NEW t \in Threads, NEW n \in Names, NEW a \in Appenders, DelAppender(t, n, a)
      PROVE  Types'
  <2>1. RemoveFirst(appenders[n], a) \in Seq(Appenders)
    BY RemoveFirstRange
  <2> QED BY <1>6, <2>1 DEF DelAppender
<1>7. ASSUME NEW t \in Threads, NEW a \in Appenders, MakeAppender(t, a) \/ Reopen(t, a)
      PROVE  Types'
  <2>1. \A b \in FileAppenders, p \in BOOLEAN : Reopened(stream[b], p) \in Streams
    BY DEF Reopened, Streams
  <2> QED BY <1>7, <2>1 DEF MakeAppender, Reopen
<1>8. ASSUME NEW t \in Threads, NEW a \in Appenders, NEW f \in Formatters \cup {NoFormatter},
             SetAppenderFormatter(t, a, f)
      PROVE  Types'
  BY <1>8 DEF SetAppenderFormatter
<1>9. ASSUME NEW t \in Threads, NEW x \in Names \cup Appenders, NEW v \in Levels, SetLevel(t, x, v)
      PROVE  Types'
  BY <1>9 DEF SetLevel
<1>10. ASSUME NEW t \in Threads, LogLocks(t) PROVE Types'
  <2>1. thread[t].lg \in Names /\ thread[t].lv \in Levels
    BY <1>10, StageFacts DEF LogLocks, At
  <2> QED BY <1>10, <2>1, StageTypes DEF LogLocks
<1>11. ASSUME NEW t \in Threads, LogAppends(t) PROVE Types'
  <2>1. thread[t] \in [op : {"log"}, lg : Names, lv : Levels, todo : Seq(Appenders)]
    BY <1>11, StageFacts DEF LogAppends, At
  <2>2. Tail(thread[t].todo) \in Seq(Appenders)
    <3>1. thread[t].todo \in Seq(Appenders) /\ thread[t].todo # <<>>
      BY <1>11, <2>1 DEF LogAppends
    <3> QED BY <3>1
  <2>3. [thread[t] EXCEPT !.todo = Tail(@)] \in Stages
    BY <2>1, <2>2 DEF Stages
  <2>4. thread' \in [Threads -> Stages]
    BY <1>11, <2>3 DEF LogAppends
  <2>5. stream' \in [FileAppenders -> Streams]
    BY <1>11 DEF LogAppends, Streams
  <2> QED BY <1>11, <2>4, <2>5 DEF LogAppends
<1>12. ASSUME NEW t \in Threads, LoopEnds(t) PROVE Types'
  BY <1>12, StageTypes DEF LoopEnds, Unlocks
<1>13. ASSUME NEW t \in Threads, SetNext(t) PROVE Types'
  <2>1. thread[t] \in [op : {"set", "stuck"}, lg : Names, todo : Seq(Appenders)]
    BY <1>13, StageFacts DEF SetNext, At
  <2>2. Tail(thread[t].todo) \in Seq(Appenders)
    BY <1>13, <2>1 DEF SetNext
  <2>3. /\ [thread[t] EXCEPT !.todo = Tail(@)] \in Stages
        /\ [thread[t] EXCEPT !.op = "stuck"] \in Stages
    BY <2>1, <2>2 DEF Stages
  <2>4. CASE thread' = [thread EXCEPT ![t].todo = Tail(@)] /\ UNCHANGED latch
    BY <1>13, <2>3, <2>4 DEF SetNext
  <2>5. CASE /\ thread' = [thread EXCEPT ![t].op = "stuck"]
             /\ latch' = [latch EXCEPT ![Head(thread[t].todo)] = t]
    BY <1>13, <2>3, <2>5 DEF SetNext
  <2> QED BY <1>13, <2>4, <2>5 DEF SetNext
<1>14. ASSUME NEW t \in Threads, AddLooks(t) PROVE Types'
  <2>1. thread[t].lg \in Names /\ thread[t].ap \in Appenders
    BY <1>14, StageFacts DEF AddLooks, At
  <2>2. Append(appenders[thread[t].lg], thread[t].ap) \in Seq(Appenders)
    BY <2>1, AppendFacts
  <2>3. thread' \in [Threads -> Stages]
    <3>1. CASE formatter[thread[t].ap] = NoFormatter
      <4>1. thread' = [thread EXCEPT ![t] = [op |-> "fill", lg |-> thread[t].lg,
                                            ap |-> thread[t].ap, saw |-> NoFormatter]]
        BY <1>14, <3>1 DEF AddLooks
      <4> QED BY <2>1, <4>1, StageTypes
    <3>2. CASE formatter[thread[t].ap] # NoFormatter
      BY <1>14, <3>2, StageTypes DEF AddLooks, Unlocks
    <3> QED BY <3>1, <3>2
  <2>4. appenders' \in [Names -> Seq(Appenders)]
    BY <1>14, <2>1, <2>2 DEF AddLooks
  <2>5. latch' \in [Names \cup Appenders -> Threads \cup {Nobody}]
    BY <1>14, <2>1 DEF AddLooks, Unlocks
  <2> QED BY <1>14, <2>3, <2>4, <2>5 DEF AddLooks
<1>15. ASSUME NEW t \in Threads, AddFills(t) PROVE Types'
  <2>1. thread[t].lg \in Names /\ thread[t].ap \in Appenders
    BY <1>15, StageFacts DEF AddFills, At
  <2>2. Append(appenders[thread[t].lg], thread[t].ap) \in Seq(Appenders)
    BY <2>1, AppendFacts
  <2> QED BY <1>15, <2>1, <2>2, StageTypes DEF AddFills, Unlocks
<1>16. CASE UNCHANGED vars
  BY <1>16 DEF vars
<1> QED
  BY <1>1, <1>2, <1>3, <1>4, <1>5, <1>6, <1>7, <1>8, <1>9, <1>10, <1>11, <1>12, <1>13, <1>14,
     <1>15, <1>16 DEF Next

-----------------------------------------------------------------------------
(* Latches *)

\* A step that takes no latch, gives none back and moves no thread that holds one.
LEMMA LatchFrame ==
    ASSUME Types, LatchInv, UNCHANGED latch,
           NEW t \in Threads, NEW r,
           thread' = [thread EXCEPT ![t] = r],
           \/ thread[t].op \in {"idle", "enter"}
           \/ r.op = thread[t].op /\ r.lg = thread[t].lg
           \/ thread[t].op = "add" /\ r.op = "fill" /\ r.lg = thread[t].lg
    PROVE  LatchInv'
<1>1. \A u \in Threads : u # t => thread'[u] = thread[u]
  BY DEF Types
<1>2. thread'[t] = r
  BY DEF Types
<1>3. LoggerLatches'
  BY <1>1, <1>2 DEF Types, LatchInv, LoggerLatches
<1>4. AppenderLatches'
  BY <1>1, <1>2 DEF Types, LatchInv, AppenderLatches, Stuck
<1> QED BY <1>3, <1>4 DEF LatchInv

\* The thread that takes the free latch of logger n enters a call on it.
LEMMA LatchTaken ==
    ASSUME Types, LatchInv, NEW t \in Threads, NEW n \in Names, NEW r,
           Free(n), thread[t].op \in {"idle", "enter"},
           latch' = [latch EXCEPT ![n] = t],
           thread' = [thread EXCEPT ![t] = r],
           r.op \in {"log", "set", "add"}, r.lg = n
    PROVE  LatchInv'
<1>1. /\ \A u \in Threads : u # t => thread'[u] = thread[u]
      /\ thread'[t] = r /\ latch'[n] = t
      /\ \A x \in Names \cup Appenders : x # n => latch'[x] = latch[x]
  BY DEF Types
<1>2. LoggerLatches'
  BY <1>1 DEF Types, LatchInv, LoggerLatches
<1>3. AppenderLatches'
  BY <1>1, LoggerAssumption DEF Types, LatchInv, AppenderLatches, Stuck
<1> QED BY <1>2, <1>3 DEF LatchInv

\* A call that ends has its logger's latch and no other.
LEMMA LatchReleased ==
    ASSUME Types, LatchInv, NEW t \in Threads, NEW n \in Names,
           thread[t].op \in {"log", "set", "add", "fill"}, thread[t].lg = n, Unlocks(t, n)
    PROVE  LatchInv'
<1>1. /\ \A u \in Threads : u # t => thread'[u] = thread[u]
      /\ latch'[n] = Nobody
      /\ \A x \in Names \cup Appenders : x # n => latch'[x] = latch[x]
  BY DEF Types, Unlocks
<1>2. LoggerLatches'
  <2> SUFFICES ASSUME NEW m \in Names, latch'[m] # Nobody
               PROVE  /\ thread'[latch'[m]].op \in {"log", "set", "stuck", "add", "fill"}
                      /\ thread'[latch'[m]].lg = m
    BY DEF LoggerLatches
  <2>1. m # n /\ latch'[m] = latch[m] /\ latch[m] \in Threads
    BY <1>1 DEF Types
  <2>2. thread[latch[m]].op \in {"log", "set", "stuck", "add", "fill"} /\ thread[latch[m]].lg = m
    BY <2>1 DEF LatchInv, LoggerLatches
  <2>3. latch[m] # t
    BY <2>1, <2>2
  <2> QED BY <1>1, <2>1, <2>2, <2>3
<1>3. AppenderLatches'
  <2> SUFFICES ASSUME NEW a \in Appenders, latch'[a] # Nobody PROVE thread'[latch'[a]].op = "stuck"
    BY DEF AppenderLatches, Stuck
  <2>1. latch'[a] = latch[a]
    BY <1>1, LoggerAssumption
  <2>2. latch[a] \in Threads /\ Stuck(latch[a])
    BY <2>1 DEF Types, LatchInv, AppenderLatches
  <2> QED BY <1>1, <2>1, <2>2 DEF Stuck
<1> QED BY <1>2, <1>3 DEF LatchInv

LEMMA LatchStep ==
    ASSUME Types, LatchInv, [Next]_vars
    PROVE  LatchInv'
<1>u. ASSUME UNCHANGED <<latch, thread>> PROVE LatchInv'
  BY <1>u DEF LatchInv, LoggerLatches, AppenderLatches, Stuck
<1>i. ASSUME NEW t \in Threads, thread[t] = Idle PROVE thread[t].op = "idle"
  BY <1>i DEF Idle
<1>1. ASSUME NEW t \in Threads, NEW n \in Names,
             GetLogger(t, n) \/ ClearAppenders(t, n)
      PROVE  LatchInv'
  BY <1>1, <1>u DEF GetLogger, ClearAppenders
<1>2. ASSUME NEW t \in Threads, NEW n \in Names, NEW a \in Appenders, DelAppender(t, n, a)
      PROVE  LatchInv'
  BY <1>2, <1>u DEF DelAppender
<1>3. ASSUME NEW t \in Threads, NEW a \in Appenders, MakeAppender(t, a) \/ Reopen(t, a)
      PROVE  LatchInv'
  BY <1>3, <1>u DEF MakeAppender, Reopen
<1>4. ASSUME NEW t \in Threads, NEW a \in Appenders, NEW f \in Formatters \cup {NoFormatter},
             SetAppenderFormatter(t, a, f)
      PROVE  LatchInv'
  BY <1>4, <1>u DEF SetAppenderFormatter
<1>5. ASSUME NEW t \in Threads, NEW x \in Names \cup Appenders, NEW v \in Levels, SetLevel(t, x, v)
      PROVE  LatchInv'
  BY <1>5, <1>u DEF SetLevel
<1>6. ASSUME NEW t \in Threads, NEW n \in Names, NEW v \in Levels, Log(t, n, v) PROVE LatchInv'
  BY <1>6, <1>i, LatchFrame DEF Log, Calls
<1>7. ASSUME NEW t \in Threads, LogLocks(t) PROVE LatchInv'
  <2>1. thread[t].op = "enter" /\ thread[t].lg \in Names
    BY <1>7, StageFacts DEF LogLocks, At, Types
  <2> DEFINE r == [op |-> "log", lg |-> thread[t].lg, lv |-> thread[t].lv,
                   todo |-> appenders[thread[t].lg]]
  <2>2. thread' = [thread EXCEPT ![t] = r] /\ r.op = "log" /\ r.lg = thread[t].lg
    BY <1>7 DEF LogLocks
  <2> HIDE DEF r
  <2>3. Free(thread[t].lg) /\ latch' = [latch EXCEPT ![thread[t].lg] = t]
    BY <1>7 DEF LogLocks
  <2> QED BY <2>1, <2>2, <2>3, LatchTaken
<1>8. ASSUME NEW t \in Threads, LogAppends(t) PROVE LatchInv'
  <2>1. thread[t] \in [op : {"log"}, lg : Names, lv : Levels, todo : Seq(Appenders)]
    BY <1>8, StageFacts DEF LogAppends, At, Types
  <2> DEFINE r == [thread[t] EXCEPT !.todo = Tail(@)]
  <2>2. thread' = [thread EXCEPT ![t] = r] /\ r.op = thread[t].op /\ r.lg = thread[t].lg
    BY <1>8, <2>1 DEF LogAppends
  <2> HIDE DEF r
  <2> QED BY <1>8, <2>2, LatchFrame DEF LogAppends
<1>9. ASSUME NEW t \in Threads, LoopEnds(t) PROVE LatchInv'
  <2>1. thread[t].op \in {"log", "set"} /\ thread[t].lg \in Names
    BY <1>9, StageFacts DEF LoopEnds, At, Types
  <2> QED BY <1>9, <2>1, LatchReleased DEF LoopEnds
<1>10. ASSUME NEW t \in Threads, NEW n \in Names, NEW f \in Formatters \cup {NoFormatter},
              SetFormatter(t, n, f)
       PROVE  LatchInv'
  <2> DEFINE r == [op |-> "set", lg |-> n, todo |-> appenders[n]]
  <2>1. thread' = [thread EXCEPT ![t] = r] /\ r.op = "set" /\ r.lg = n
    BY <1>10 DEF SetFormatter
  <2> HIDE DEF r
  <2> QED BY <1>10, <1>i, <2>1, LatchTaken DEF SetFormatter, Calls
<1>11. ASSUME NEW t \in Threads, NEW n \in Names, NEW a \in Appenders, AddAppender(t, n, a)
       PROVE  LatchInv'
  <2> DEFINE r == [op |-> "add", lg |-> n, ap |-> a]
  <2>1. thread' = [thread EXCEPT ![t] = r] /\ r.op = "add" /\ r.lg = n
    BY <1>11 DEF AddAppender
  <2> HIDE DEF r
  <2> QED BY <1>11, <1>i, <2>1, LatchTaken DEF AddAppender, Calls
<1>12. ASSUME NEW t \in Threads, SetNext(t) PROVE LatchInv'
  <2>1. thread[t] \in [op : {"set", "stuck"}, lg : Names, todo : Seq(Appenders)]
    BY <1>12, StageFacts DEF SetNext, At, Types
  <2> DEFINE a == Head(thread[t].todo)
             r == [thread[t] EXCEPT !.todo = Tail(@)]
             q == [thread[t] EXCEPT !.op = "stuck"]
  <2>a. a \in Appenders
    <3>1. thread[t].todo \in Seq(Appenders) /\ thread[t].todo # <<>>
      BY <1>12, <2>1 DEF SetNext
    <3> QED BY <3>1
  <2>2. /\ r.op = thread[t].op /\ r.lg = thread[t].lg
        /\ q.op = "stuck" /\ q.lg = thread[t].lg
    BY <2>1
  <2>3. CASE own[a]
    <3>1. thread' = [thread EXCEPT ![t] = r] /\ UNCHANGED latch
      BY <1>12, <2>3 DEF SetNext
    <3> HIDE DEF r
    <3> QED BY <2>2, <3>1, LatchFrame
  <2>4. CASE ~own[a]
    <3>1. thread' = [thread EXCEPT ![t] = q] /\ latch' = [latch EXCEPT ![a] = t]
      BY <1>12, <2>4 DEF SetNext
    <3> HIDE DEF q, a
    <3>2. /\ \A u \in Threads : u # t => thread'[u] = thread[u]
          /\ thread'[t] = q /\ latch'[a] = t
          /\ \A x \in Names \cup Appenders : x # a => latch'[x] = latch[x]
      BY <2>a, <3>1 DEF Types
    <3>3. LoggerLatches'
      BY <2>2, <2>a, <3>2, LoggerAssumption DEF Types, LatchInv, LoggerLatches
    <3>4. AppenderLatches'
      BY <2>2, <2>a, <3>2 DEF Types, LatchInv, AppenderLatches, Stuck
    <3> QED BY <3>3, <3>4 DEF LatchInv
  <2> QED BY <2>3, <2>4
<1>13. ASSUME NEW t \in Threads, AddLooks(t) PROVE LatchInv'
  <2>1. thread[t].op = "add" /\ thread[t].lg \in Names
    BY <1>13, StageFacts DEF AddLooks, At, Types
  <2>2. CASE formatter[thread[t].ap] = NoFormatter
    <3> DEFINE r == [op |-> "fill", lg |-> thread[t].lg, ap |-> thread[t].ap,
                     saw |-> formatter[thread[t].ap]]
    <3>1. /\ thread' = [thread EXCEPT ![t] = r] /\ r.op = "fill" /\ r.lg = thread[t].lg
          /\ UNCHANGED latch
      BY <1>13, <2>2 DEF AddLooks
    <3> HIDE DEF r
    <3> QED BY <2>1, <3>1, LatchFrame
  <2>3. CASE formatter[thread[t].ap] # NoFormatter
    BY <1>13, <2>1, <2>3, LatchReleased DEF AddLooks
  <2> QED BY <2>2, <2>3
<1>14. ASSUME NEW t \in Threads, AddFills(t) PROVE LatchInv'
  <2>1. thread[t].op = "fill" /\ thread[t].lg \in Names
    BY <1>14, StageFacts DEF AddFills, At, Types
  <2> QED BY <1>14, <2>1, LatchReleased DEF AddFills
<1>15. CASE UNCHANGED vars
  BY <1>15, <1>u DEF vars
<1> QED
  BY <1>1, <1>2, <1>3, <1>4, <1>5, <1>6, <1>7, <1>8, <1>9, <1>10, <1>11, <1>12, <1>13, <1>14,
     <1>15 DEF Next

\* The order of the latches: who holds a logger's waits for an appender's at most,
\* and an appender's is kept only by a thread that waits for itself.
LEMMA LatchOrder ==
    ASSUME Types, LatchInv
    PROVE  LatchesProgress
<1>1. \A t \in Threads : thread[t].op # "enter" => Wants(t) \subseteq Appenders
  <2> SUFFICES ASSUME NEW t \in Threads, thread[t].op # "enter" PROVE Wants(t) \subseteq Appenders
    OBVIOUS
  <2>1. \A q \in Seq(Appenders) : FirstOf(q) \subseteq Appenders
    BY DEF FirstOf
  <2>2. thread[t] \in Stages
    BY DEF Types
  <2>3. CASE thread[t].op = "log"
    <3>1. thread[t].todo \in Seq(Appenders)
      BY <2>2, <2>3, StageFacts
    <3> QED BY <2>1, <2>3, <3>1 DEF Wants
  <2>4. CASE thread[t].op \in {"set", "stuck"}
    <3>1. thread[t].todo \in Seq(Appenders)
      BY <2>2, <2>4, StageFacts
    <3> QED BY <2>1, <2>4, <3>1 DEF Wants
  <2>5. CASE thread[t].op \in {"add", "fill"}
    BY <2>2, <2>5, StageFacts DEF Wants
  <2>6. CASE thread[t].op = "idle"
    BY <2>6 DEF Wants
  <2> QED BY <2>2, <2>3, <2>4, <2>5, <2>6, StageFacts
<1>2. \A t \in Threads : thread[t].op = "enter" => Wants(t) \subseteq Names
  BY StageFacts DEF Types, Wants
<1>3. \A t \in Threads : Stuck(t) => Busy(t)
  BY DEF Stuck, Busy, Idle
<1>4. ASSUME NEW t \in Threads, thread[t].op # "enter", NEW u \in Blockers(t)
      PROVE  u \in Threads /\ Stuck(u)
  BY <1>1, <1>4 DEF Blockers, Types, LatchInv, AppenderLatches
<1>5. ASSUME NEW t \in Threads, thread[t].op = "enter", NEW u \in Blockers(t)
      PROVE  u \in Threads /\ Busy(u) /\ thread[u].op # "enter"
  BY <1>2, <1>5 DEF Blockers, Types, LatchInv, LoggerLatches, Busy, Idle
<1> QED
  BY <1>3, <1>4, <1>5 DEF LatchesProgress

-----------------------------------------------------------------------------
(* Formatters *)

LEMMA TailRange ==
    ASSUME NEW S, NEW s \in Seq(S), s # <<>>
    PROVE  Head(s) \in Range(s) /\ Range(Tail(s)) \subseteq Range(s)
<1>1. /\ DOMAIN s = 1 .. Len(s) /\ DOMAIN Tail(s) = 1 .. Len(s) - 1 /\ Len(s) \in Nat /\ Len(s) > 0
      /\ Head(s) = s[1] /\ \A i \in 1 .. Len(s) - 1 : Tail(s)[i] = s[i + 1]
  OBVIOUS
<1> QED BY <1>1 DEF Range

LEMMA AppendRange ==
    ASSUME NEW S, NEW s \in Seq(S), NEW e \in S
    PROVE  Range(Append(s, e)) = Range(s) \cup {e}
BY AppendFacts DEF ToSet, Range

\* What clients did is not forgotten, and no step takes away a formatter behind
\* their back.
LEMMA ExcuseStep ==
    ASSUME Types, FormatterInv, [Next]_vars
    PROVE  /\ cleared \subseteq cleared'
           /\ \A x \in Names \cup Appenders : Excused(x) => Excused(x)'
<1> DEFINE Good == /\ cleared \subseteq cleared'
                   /\ \A x \in Names \cup Appenders : Excused(x) => Excused(x)'
<1>u. ASSUME cleared \subseteq cleared', UNCHANGED formatter PROVE Good
  BY <1>u DEF Excused
<1>1. ASSUME NEW t \in Threads, NEW n \in Names, GetLogger(t, n) PROVE Good
  BY <1>1, LoggerAssumption DEF GetLogger, Excused, Types
<1>2. ASSUME NEW t \in Threads, NEW n \in Names, NEW f \in Formatters \cup {NoFormatter},
             SetFormatter(t, n, f)
      PROVE  Good
  BY <1>2 DEF SetFormatter, Excused, Types
<1>3. ASSUME NEW t \in Threads, NEW a \in Appenders, NEW f \in Formatters \cup {NoFormatter},
             SetAppenderFormatter(t, a, f)
      PROVE  Good
  BY <1>3 DEF SetAppenderFormatter, Excused, Types
<1>4. ASSUME NEW t \in Threads, AddFills(t) PROVE Good
  <2>1. /\ thread[t].op = "fill" /\ thread[t].lg \in Names /\ thread[t].ap \in Appenders
        /\ thread[t].lg \in loggers
    BY <1>4, StageFacts DEF AddFills, At, Types, FormatterInv
  <2>2. formatter[thread[t].lg] = NoFormatter => thread[t].lg \in cleared
    BY <2>1 DEF FormatterInv
  <2> QED BY <1>4, <2>1, <2>2 DEF AddFills, Excused, Types
<1>5. ASSUME NEW t \in Threads, NEW n \in Names, ClearAppenders(t, n) PROVE Good
  BY <1>5, <1>u DEF ClearAppenders
<1>6. ASSUME NEW t \in Threads, NEW n \in Names, NEW v \in Levels, Log(t, n, v) PROVE Good
  BY <1>6, <1>u DEF Log
<1>7. ASSUME NEW t \in Threads, NEW n \in Names, NEW a \in Appenders,
             AddAppender(t, n, a) \/ DelAppender(t, n, a)
      PROVE  Good
  BY <1>7, <1>u DEF AddAppender, DelAppender
<1>8. ASSUME NEW t \in Threads, NEW a \in Appenders, MakeAppender(t, a) \/ Reopen(t, a)
      PROVE  Good
  BY <1>8, <1>u DEF MakeAppender, Reopen
<1>9. ASSUME NEW t \in Threads, NEW x \in Names \cup Appenders, NEW v \in Levels, SetLevel(t, x, v)
      PROVE  Good
  BY <1>9, <1>u DEF SetLevel
<1>10. ASSUME NEW t \in Threads,
              LogLocks(t) \/ LogAppends(t) \/ LoopEnds(t) \/ SetNext(t) \/ AddLooks(t)
       PROVE  Good
  BY <1>10, <1>u DEF LogLocks, LogAppends, LoopEnds, SetNext, AddLooks
<1>11. CASE UNCHANGED vars
  BY <1>11, <1>u DEF vars
<1> QED
  BY <1>1, <1>2, <1>3, <1>4, <1>5, <1>6, <1>7, <1>8, <1>9, <1>10, <1>11 DEF Next

\* The steps that change neither the lists nor the program's fate.
LEMMA FormatterFrame ==
    ASSUME Types, Types', FormatterInv, [Next]_vars,
           UNCHANGED <<loggers, appenders, broken>>,
           \A n \in loggers : formatter'[n] = NoFormatter => n \in cleared',
           NEW t \in Threads, \A u \in Threads : u # t => thread'[u] = thread[u],
           thread'[t].op = "log" => \A a \in Range(thread'[t].todo) : Excused(a) /\ a \in Appenders,
           thread'[t].op # "idle" => thread'[t].lg \in loggers
    PROVE  FormatterInv'
<1>1. /\ cleared \subseteq cleared'
      /\ \A x \in Names \cup Appenders : Excused(x) => Excused(x)'
  BY ExcuseStep
<1>2. \A n \in Names : Range(appenders[n]) \subseteq Appenders
  BY DEF Types, Range
<1>3. FormatterPresent'
  BY <1>1, <1>2 DEF FormatterInv, FormatterPresent, Excused, Types
<1>4. ASSUME NEW u \in Threads, thread'[u].op = "log", NEW a \in Range(thread'[u].todo)
      PROVE  Excused(a)'
  <2>1. thread'[u].todo \in Seq(Appenders)
    BY <1>4, StageFacts DEF Types
  <2>2. a \in Appenders
    BY <2>1 DEF Range
  <2>3. Excused(a)
    BY <1>4 DEF FormatterInv
  <2> QED BY <1>1, <2>2, <2>3
<1>5. \A u \in Threads : thread'[u].op # "idle" => thread'[u].lg \in loggers'
  BY DEF FormatterInv
<1> QED BY <1>3, <1>4, <1>5 DEF FormatterInv

LEMMA FormatterStep ==
    ASSUME Types, Types', FormatterInv, [Next]_vars
    PROVE  FormatterInv'
<1>e. /\ cleared \subseteq cleared'
      /\ \A x \in Names \cup Appenders : Excused(x) => Excused(x)'
  BY ExcuseStep
<1>r. \A n \in Names : Range(appenders[n]) \subseteq Appenders /\ Range(appenders'[n]) \subseteq Appenders
  BY DEF Types, Range
<1>f. /\ \A n \in loggers : formatter[n] = NoFormatter => n \in cleared
      /\ \A u \in Threads : thread[u].op # "idle" => thread[u].lg \in loggers
      /\ \A u \in Threads : thread[u].op = "log" => \A a \in Range(thread[u].todo) : Excused(a)
      /\ \A n \in loggers : \A a \in Range(appenders[n]) : Excused(a)
  BY DEF FormatterInv, FormatterPresent, Excused
<1>i. ASSUME NEW t \in Threads, thread[t] = Idle PROVE thread[t].op = "idle"
  BY <1>i DEF Idle
\* Steps that leave the lists, the threads and the program's fate alone.
<1>u. ASSUME UNCHANGED <<loggers, appenders, broken, thread>>,
             \A n \in loggers : formatter'[n] = NoFormatter => n \in cleared'
      PROVE  FormatterInv'
  <2>1. FormatterPresent'
    BY <1>e, <1>r, <1>f, <1>u DEF FormatterInv, FormatterPresent, Excused, Types
  <2>2. ASSUME NEW u \in Threads, thread[u].op = "log", NEW a \in Range(thread[u].todo)
        PROVE  Excused(a)'
    <3>1. thread[u].todo \in Seq(Appenders)
      BY <2>2, StageFacts DEF Types
    <3>2. a \in Appenders
      BY <3>1 DEF Range
    <3> QED BY <1>e, <1>f, <2>2, <3>2
  <2> QED BY <1>u, <1>f, <2>1, <2>2 DEF FormatterInv
\* Steps that change lists, in which only what has a formatter, or a client's
\* excuse, comes in, and end the call of a thread or move none.
<1>l. ASSUME loggers \subseteq loggers', UNCHANGED broken,
             \A n \in loggers' : \A a \in Range(appenders'[n]) : Excused(a)',
             \A n \in loggers' : formatter'[n] = NoFormatter => n \in cleared',
             \A u \in Threads : thread'[u] = thread[u] \/ thread'[u] = Idle
      PROVE  FormatterInv'
  <2>1. FormatterPresent'
    BY <1>e, <1>l DEF FormatterInv, FormatterPresent, Excused
  <2>2. ASSUME NEW u \in Threads, thread'[u].op = "log", NEW a \in Range(thread'[u].todo)
        PROVE  Excused(a)'
    <3>0. thread'[u] = thread[u]
      BY <1>l, <2>2 DEF Idle
    <3>1. thread[u].todo \in Seq(Appenders)
      BY <2>2, <3>0, StageFacts DEF Types
    <3>2. a \in Appenders
      BY <3>0, <3>1 DEF Range
    <3> QED BY <1>e, <1>f, <2>2, <3>0, <3>2
  <2>3. \A u \in Threads : thread'[u].op # "idle" => thread'[u].lg \in loggers'
    BY <1>f, <1>l DEF Idle
  <2> QED BY <1>l, <2>1, <2>2, <2>3 DEF FormatterInv
<1>1. ASSUME NEW t \in Threads, NEW n \in Names, GetLogger(t, n) PROVE FormatterInv'
  <2>1. \A m \in loggers' : formatter'[m] = NoFormatter => m \in cleared'
    BY <1>1, <1>f, LoggerAssumption DEF GetLogger, Types
  <2>2. ASSUME NEW m \in loggers', NEW a \in Range(appenders'[m]) PROVE Excused(a)'
    <3>1. CASE m = n
      <4>1. a = FirstAppender[n]
        BY <1>1, <2>2, <3>1 DEF GetLogger, Types, Range
      <4> QED BY <1>1, <4>1, LoggerAssumption DEF GetLogger, Types, Excused
    <3>2. CASE m # n
      BY <1>1, <1>e, <1>f, <1>r, <2>2, <3>2 DEF GetLogger, Types
    <3> QED BY <3>1, <3>2
  <2> QED BY <1>1, <1>l, <2>1, <2>2 DEF GetLogger
<1>2. ASSUME NEW t \in Threads, NEW n \in Names, ClearAppenders(t, n) PROVE FormatterInv'
  <2>1. Range(appenders'[n]) = {} /\ \A m \in Names : m # n => appenders'[m] = appenders[m]
    BY <1>2 DEF ClearAppenders, Types, Range
  <2>2. \A m \in loggers' : \A a \in Range(appenders'[m]) : Excused(a)'
    BY <1>2, <1>e, <1>f, <1>r, <2>1 DEF ClearAppenders, Types
  <2> QED BY <1>2, <1>f, <1>l, <2>2 DEF ClearAppenders
<1>3. ASSUME NEW t \in Threads, NEW n \in Names, NEW a \in Appenders, DelAppender(t, n, a)
      PROVE  FormatterInv'
  <2>1. CASE Contains(appenders[n], a)
    <3>1. /\ Range(appenders'[n]) \subseteq Range(appenders[n])
          /\ \A m \in Names : m # n => appenders'[m] = appenders[m]
      BY <1>3, <2>1, RemoveFirstRange DEF DelAppender, Types
    <3>2. \A m \in loggers' : \A b \in Range(appenders'[m]) : Excused(b)'
      BY <1>3, <1>e, <1>f, <1>r, <3>1 DEF DelAppender, Types
    <3> QED BY <1>3, <1>f, <1>l, <2>1, <3>2 DEF DelAppender
  <2>2. CASE ~Contains(appenders[n], a)
    <3>1. FormatterPresent'
      BY <1>3, <1>e, <1>f, <1>r, <2>2 DEF DelAppender, FormatterPresent, Excused, Types
    <3>2. ASSUME NEW u \in Threads, thread[u].op = "log", NEW b \in Range(thread[u].todo)
          PROVE  Excused(b)'
      BY <1>3, <1>f, <3>2 DEF DelAppender, Excused
    <3> QED BY <1>3, <1>f, <3>1, <3>2 DEF DelAppender, FormatterInv
  <2> QED BY <2>1, <2>2
<1>4. ASSUME NEW t \in Threads, NEW a \in Appenders, MakeAppender(t, a) \/ Reopen(t, a)
      PROVE  FormatterInv'
  BY <1>4, <1>u, <1>f DEF MakeAppender, Reopen
<1>5. ASSUME NEW t \in Threads, NEW a \in Appenders, NEW f \in Formatters \cup {NoFormatter},
             SetAppenderFormatter(t, a, f)
      PROVE  FormatterInv'
  <2>1. \A n \in loggers : formatter'[n] = NoFormatter => n \in cleared'
    BY <1>5, <1>f, LoggerAssumption DEF SetAppenderFormatter, Types
  <2> QED BY <1>5, <1>u, <2>1 DEF SetAppenderFormatter
<1>6. ASSUME NEW t \in Threads, NEW x \in Names \cup Appenders, NEW v \in Levels, SetLevel(t, x, v)
      PROVE  FormatterInv'
  BY <1>6, <1>u, <1>f DEF SetLevel
<1>7. ASSUME NEW t \in Threads, NEW n \in Names, NEW v \in Levels, Log(t, n, v)
      PROVE  FormatterInv'
  BY <1>7, <1>f, FormatterFrame DEF Log, Types
<1>8. ASSUME NEW t \in Threads, LogLocks(t) PROVE FormatterInv'
  <2>1. thread[t].op = "enter" /\ thread[t].lg \in Names /\ thread[t].lg \in loggers
    BY <1>8, <1>f, StageFacts DEF LogLocks, At, Types
  <2>2. /\ thread'[t].op = "log" /\ thread'[t].lg = thread[t].lg
        /\ thread'[t].todo = appenders[thread[t].lg]
        /\ \A u \in Threads : u # t => thread'[u] = thread[u]
    BY <1>8 DEF LogLocks, Types
  <2>3. \A a \in Range(thread'[t].todo) : Excused(a) /\ a \in Appenders
    BY <1>f, <1>r, <2>1, <2>2
  <2> QED BY <1>8, <1>f, <2>1, <2>2, <2>3, FormatterFrame DEF LogLocks
<1>9. ASSUME NEW t \in Threads, LogAppends(t) PROVE FormatterInv'
  <2>1. thread[t] \in [op : {"log"}, lg : Names, lv : Levels, todo : Seq(Appenders)]
    BY <1>9, StageFacts DEF LogAppends, At, Types
  <2>2. thread[t].todo \in Seq(Appenders) /\ thread[t].todo # <<>> /\ thread[t].op = "log"
    BY <1>9, <2>1 DEF LogAppends
  <2>3. /\ Head(thread[t].todo) \in Range(thread[t].todo)
        /\ Range(Tail(thread[t].todo)) \subseteq Range(thread[t].todo)
        /\ Range(thread[t].todo) \subseteq Appenders
    BY <2>2, TailRange DEF Range
  <2>4. /\ thread'[t].op = "log" /\ thread'[t].lg = thread[t].lg
        /\ thread'[t].todo = Tail(thread[t].todo)
        /\ \A u \in Threads : u # t => thread'[u] = thread[u]
    BY <1>9, <2>1 DEF LogAppends, Types
  <2>5. \A a \in Range(thread'[t].todo) : Excused(a) /\ a \in Appenders
    BY <1>f, <2>2, <2>3, <2>4
  <2>6. CASE UNCHANGED broken
    BY <1>9, <1>f, <2>2, <2>4, <2>5, <2>6, FormatterFrame DEF LogAppends
  <2>7. CASE formatter[Head(thread[t].todo)] = NoFormatter
    <3>1. cleared # {}
      BY <1>f, <2>2, <2>3, <2>7 DEF Excused
    <3>2. FormatterPresent'
      BY <1>9, <1>e, <1>f, <1>r, <3>1 DEF LogAppends, FormatterPresent, Excused, Types
    <3>3. ASSUME NEW u \in Threads, thread'[u].op = "log", NEW b \in Range(thread'[u].todo)
          PROVE  Excused(b)'
      BY <1>9, <1>f, <2>4, <2>5, <3>3 DEF LogAppends, Excused
    <3>4. \A u \in Threads : thread'[u].op # "idle" => thread'[u].lg \in loggers
      BY <1>f, <2>2, <2>4
    <3> QED BY <1>9, <1>f, <3>2, <3>3, <3>4 DEF LogAppends, FormatterInv
  <2> QED BY <1>9, <2>6, <2>7 DEF LogAppends
<1>10. ASSUME NEW t \in Threads, LoopEnds(t) PROVE FormatterInv'
  <2>1. thread'[t].op = "idle" /\ \A u \in Threads : u # t => thread'[u] = thread[u]
    BY <1>10 DEF LoopEnds, Unlocks, Types, Idle
  <2> QED BY <1>10, <1>f, <2>1, FormatterFrame DEF LoopEnds
<1>11. ASSUME NEW t \in Threads, NEW n \in Names, NEW f \in Formatters \cup {NoFormatter},
              SetFormatter(t, n, f)
       PROVE  FormatterInv'
  <2>1. \A m \in loggers : formatter'[m] = NoFormatter => m \in cleared'
    BY <1>11, <1>f DEF SetFormatter, Types
  <2>2. /\ thread'[t].op = "set" /\ thread'[t].lg = n
        /\ \A u \in Threads : u # t => thread'[u] = thread[u]
    BY <1>11 DEF SetFormatter, Types
  <2> QED BY <1>11, <2>1, <2>2, FormatterFrame DEF SetFormatter
<1>12. ASSUME NEW t \in Threads, NEW n \in Names, NEW a \in Appenders, AddAppender(t, n, a)
       PROVE  FormatterInv'
  <2>1. /\ thread'[t].op = "add" /\ thread'[t].lg = n
        /\ \A u \in Threads : u # t => thread'[u] = thread[u]
    BY <1>12 DEF AddAppender, Types
  <2> QED BY <1>12, <1>f, <2>1, FormatterFrame DEF AddAppender
<1>13. ASSUME NEW t \in Threads, SetNext(t) PROVE FormatterInv'
  <2>1. thread[t] \in [op : {"set", "stuck"}, lg : Names, todo : Seq(Appenders)]
    BY <1>13, StageFacts DEF SetNext, At, Types
  <2>2. /\ thread'[t].op \in {"set", "stuck"} /\ thread'[t].lg = thread[t].lg
        /\ \A u \in Threads : u # t => thread'[u] = thread[u]
    BY <1>13, <2>1 DEF SetNext, Types
  <2> QED BY <1>13, <1>f, <2>1, <2>2, FormatterFrame DEF SetNext
<1>14. ASSUME NEW t \in Threads, AddLooks(t) PROVE FormatterInv'
  <2>1. /\ thread[t].op = "add" /\ thread[t].lg \in Names /\ thread[t].ap \in Appenders
        /\ thread[t].lg \in loggers
    BY <1>14, <1>f, StageFacts DEF AddLooks, At, Types
  <2>2. CASE formatter[thread[t].ap] = NoFormatter
    <3>1. /\ thread'[t].op = "fill" /\ thread'[t].lg = thread[t].lg
          /\ \A u \in Threads : u # t => thread'[u] = thread[u]
      BY <1>14, <2>2 DEF AddLooks, Types
    <3> QED BY <1>14, <1>f, <2>1, <2>2, <3>1, FormatterFrame DEF AddLooks
  <2>3. CASE formatter[thread[t].ap] # NoFormatter
    <3>0. PICK n \in Names, a \in Appenders : n = thread[t].lg /\ a = thread[t].ap
      BY <2>1
    <3>a. appenders' = [appenders EXCEPT ![n] = Append(appenders[n], a)]
      BY <1>14, <2>3, <3>0 DEF AddLooks
    <3>1. /\ Range(appenders'[n]) = Range(appenders[n]) \cup {a}
          /\ \A m \in Names : m # n => appenders'[m] = appenders[m]
      BY <3>a, AppendRange DEF Types
    <3>2. Excused(a)
      BY <2>3, <3>0 DEF Excused
    <3>3. \A m \in loggers' : \A b \in Range(appenders'[m]) : Excused(b)'
      BY <1>14, <1>e, <1>f, <1>r, <2>1, <3>1, <3>2 DEF AddLooks, Types
    <3>4. \A u \in Threads : thread'[u] = thread[u] \/ thread'[u] = Idle
      BY <1>14, <2>3 DEF AddLooks, Unlocks, Types
    <3> QED BY <1>14, <1>f, <1>l, <3>3, <3>4 DEF AddLooks
  <2> QED BY <2>2, <2>3
<1>15. ASSUME NEW t \in Threads, AddFills(t) PROVE FormatterInv'
  <2>1. PICK n \in Names, a \in Appenders : n = thread[t].lg /\ a = thread[t].ap /\ n \in loggers
    BY <1>15, <1>f, StageFacts DEF AddFills, At, Types
  <2>2. /\ Range(appenders'[n]) = Range(appenders[n]) \cup {a}
        /\ \A m \in Names : m # n => appenders'[m] = appenders[m]
    BY <1>15, <2>1, AppendRange DEF AddFills, Types
  <2>3. formatter'[a] = formatter[n]
    BY <1>15, <2>1 DEF AddFills, Types
  <2>4. Excused(a)'
    <3>1. formatter'[a] = NoFormatter => n \in cleared' /\ n \in Names
      BY <1>e, <1>f, <2>1, <2>3
    <3> QED BY <3>1 DEF Excused
  <2>5. \A m \in loggers' : \A b \in Range(appenders'[m]) : Excused(b)'
    BY <1>15, <1>e, <1>f, <1>r, <2>1, <2>2, <2>4 DEF AddFills, Types
  <2>6. \A m \in loggers : formatter'[m] = NoFormatter => m \in cleared'
    BY <1>15, <1>f, <2>1, LoggerAssumption DEF AddFills, Types
  <2>7. \A u \in Threads : thread'[u] = thread[u] \/ thread'[u] = Idle
    BY <1>15 DEF AddFills, Unlocks, Types
  <2> QED BY <1>15, <1>l, <2>5, <2>6, <2>7 DEF AddFills
<1>16. CASE UNCHANGED vars
  BY <1>16, <1>f, <1>u DEF vars
<1> QED
  BY <1>1, <1>2, <1>3, <1>4, <1>5, <1>6, <1>7, <1>8, <1>9, <1>10, <1>11, <1>12, <1>13, <1>14,
     <1>15, <1>16 DEF Next

-----------------------------------------------------------------------------
(* Streams *)

LEMMA StreamStep ==
    ASSUME Types, StreamsUsable, [Next]_vars
    PROVE  StreamsUsable'
<1>u. ASSUME UNCHANGED <<stream, lost>> PROVE StreamsUsable'
  BY <1>u DEF StreamsUsable
\* reopen() leaves no stream open and failed that was not so before.
<1>o. ASSUME NEW a \in FileAppenders, NEW possible \in BOOLEAN,
             stream' = [stream EXCEPT ![a] = Reopened(stream[a], possible)], UNCHANGED lost
      PROVE  StreamsUsable'
  <2>1. /\ stream'[a] = Reopened(stream[a], possible)
        /\ \A b \in FileAppenders : b # a => stream'[b] = stream[b]
    BY <1>o DEF Types
  <2>2. stream'[a].open /\ ~stream'[a].good => stream[a].open /\ ~stream[a].good
    BY <2>1 DEF Reopened
  <2> QED BY <1>o, <2>1, <2>2 DEF StreamsUsable
<1>1. ASSUME NEW t \in Threads, NEW n \in Names,
             GetLogger(t, n) \/ ClearAppenders(t, n)
      PROVE  StreamsUsable'
  BY <1>1, <1>u DEF GetLogger, ClearAppenders
<1>2. ASSUME NEW t \in Threads, NEW n \in Names, NEW v \in Levels, Log(t, n, v)
      PROVE  StreamsUsable'
  BY <1>2, <1>u DEF Log
<1>3. ASSUME NEW t \in Threads, NEW n \in Names, NEW f \in Formatters \cup {NoFormatter},
             SetFormatter(t, n, f)
      PROVE  StreamsUsable'
  BY <1>3, <1>u DEF SetFormatter
<1>4. ASSUME NEW t \in Threads, NEW n \in Names, NEW a \in Appenders,
             AddAppender(t, n, a) \/ DelAppender(t, n, a)
      PROVE  StreamsUsable'
  BY <1>4, <1>u DEF AddAppender, DelAppender
<1>5. ASSUME NEW t \in Threads, NEW a \in Appenders, MakeAppender(t, a) PROVE StreamsUsable'
  BY <1>5, <1>u, <1>o DEF MakeAppender
<1>6. ASSUME NEW t \in Threads, NEW a \in Appenders, Reopen(t, a) PROVE StreamsUsable'
  BY <1>6, <1>o DEF Reopen
<1>7. ASSUME NEW t \in Threads, NEW a \in Appenders, NEW f \in Formatters \cup {NoFormatter},
             SetAppenderFormatter(t, a, f)
      PROVE  StreamsUsable'
  BY <1>7, <1>u DEF SetAppenderFormatter
<1>8. ASSUME NEW t \in Threads, NEW x \in Names \cup Appenders, NEW v \in Levels, SetLevel(t, x, v)
      PROVE  StreamsUsable'
  BY <1>8, <1>u DEF SetLevel
<1>9. ASSUME NEW t \in Threads, LogAppends(t) PROVE StreamsUsable'
  <2>1. CASE UNCHANGED <<stream, lost>>
    BY <2>1, <1>u
  <2>2. ASSUME NEW a \in FileAppenders,
               stream' = [stream EXCEPT ![a].good = FALSE], lost' = lost \cup {a}
        PROVE  StreamsUsable'
    BY <2>2 DEF StreamsUsable, Types
  <2> QED BY <1>9, <2>1, <2>2 DEF LogAppends
<1>10. ASSUME NEW t \in Threads,
              LogLocks(t) \/ LoopEnds(t) \/ SetNext(t) \/ AddLooks(t) \/ AddFills(t)
       PROVE  StreamsUsable'
  BY <1>10, <1>u DEF LogLocks, LoopEnds, SetNext, AddLooks, AddFills
<1>11. CASE UNCHANGED vars
  BY <1>11, <1>u DEF vars
<1> QED
  BY <1>1, <1>2, <1>3, <1>4, <1>5, <1>6, <1>7, <1>8, <1>9, <1>10, <1>11 DEF Next

-----------------------------------------------------------------------------
(* Theorems *)

LEMMA Initially ==
    ASSUME Init
    PROVE  IInv
<1> USE DEF Init
<1>0. \A t \in Threads : thread[t] = Idle /\ Idle.op = "idle"
  BY DEF Idle
<1>1. Types
  <2>1. \A n \in Names : <<FirstAppender[n]>> \in Seq(Appenders) /\ FirstAppender[n] \in Appenders
    BY LoggerAssumption
  <2>2. Closed \in Streams
    BY DEF Closed, Streams
  <2>3. appenders \in [Names -> Seq(Appenders)]
    BY <2>1
  <2> QED BY <2>2, <2>3, StageTypes, LoggerAssumption DEF Types
<1>2. LatchInv
  BY DEF LatchInv, LoggerLatches, AppenderLatches
<1>3. FormatterInv
  <2>1. ASSUME NEW a \in Range(appenders[Root]) PROVE formatter[a] = Default
    <3>1. a = FirstAppender[Root]
      BY <2>1, LoggerAssumption DEF Range
    <3> QED BY <3>1, LoggerAssumption
  <2>2. FormatterPresent
    BY <2>1, LoggerAssumption DEF FormatterPresent
  <2>3. \A n \in loggers : formatter[n] # NoFormatter
    BY LoggerAssumption
  <2> QED BY <1>0, <2>2, <2>3 DEF FormatterInv
<1>4. StreamsUsable
  BY DEF StreamsUsable, Closed
<1> QED BY <1>1, <1>2, <1>3, <1>4 DEF IInv

\* The invariant is inductive.
THEOREM Inductive == Spec => []IInv
<1>1. Init => IInv
  BY Initially
<1>2. IInv /\ [Next]_vars => IInv'
  <2> SUFFICES ASSUME IInv, [Next]_vars PROVE IInv'
    OBVIOUS
  <2>1. Types'
    BY TypesStep DEF IInv
  <2>2. LatchInv'
    BY LatchStep DEF IInv
  <2>3. FormatterInv'
    BY <2>1, FormatterStep DEF IInv
  <2>4. StreamsUsable'
    BY StreamStep DEF IInv
  <2> QED BY <2>1, <2>2, <2>3, <2>4 DEF IInv
<1> QED BY <1>1, <1>2, PTL DEF Spec

\* However many threads use the loggers, a latch is waited for only behind a thread
\* that can go on, or behind one that Logger::setFormatter stopped (log.cpp 113).
THEOREM LatchesAlwaysProgress == Spec => []LatchesProgress
<1>1. IInv => LatchesProgress
  BY LatchOrder DEF IInv
<1> QED BY <1>1, Inductive, PTL

\* log() dereferences a null formatter_ only when a client gave it (log.cpp 165,
\* 201).
THEOREM FormatterAlwaysPresent == Spec => []FormatterPresent
<1>1. IInv => FormatterPresent
  BY DEF IInv, FormatterInv
<1> QED BY <1>1, Inductive, PTL

\* A file that is open is written to, until the disk refuses (log.cpp 221).
THEOREM StreamsAlwaysUsable == Spec => []StreamsUsable
<1>1. IInv => StreamsUsable
  BY DEF IInv
<1> QED BY <1>1, Inductive, PTL

\* The library replaces a client's formatter in the one way addAppender allows
\* (log.cpp 165): it looked before the client set it.
THEOREM OwnFormatterAlwaysKept == Spec => OwnFormatterKept
<1> DEFINE Kept == \A a \in Appenders :
              own[a] /\ formatter'[a] # formatter[a] =>
                 \/ \E t \in Threads :
                       /\ thread[t].op = "fill"
                       /\ thread[t].ap = a
                       /\ thread[t].saw = NoFormatter
                       /\ thread'[t] = Idle
                 \/ thread' = thread
<1>1. ASSUME IInv, [Next]_vars PROVE [Kept]_vars
  <2>u. ASSUME UNCHANGED formatter \/ UNCHANGED thread PROVE Kept
    BY <2>u
  <2>1. ASSUME NEW t \in Threads, NEW n \in Names,
               GetLogger(t, n) \/ ClearAppenders(t, n)
        PROVE  Kept
    BY <2>1, <2>u DEF GetLogger, ClearAppenders
  <2>2. ASSUME NEW t \in Threads, NEW n \in Names, NEW v \in Levels, Log(t, n, v) PROVE Kept
    BY <2>2, <2>u DEF Log
  <2>3. ASSUME NEW t \in Threads, NEW n \in Names, NEW f \in Formatters \cup {NoFormatter},
               SetFormatter(t, n, f)
        PROVE  Kept
    BY <1>1, <2>3, LoggerAssumption DEF SetFormatter, IInv, Types
  <2>4. ASSUME NEW t \in Threads, NEW n \in Names, NEW a \in Appenders,
               AddAppender(t, n, a) \/ DelAppender(t, n, a)
        PROVE  Kept
    BY <2>4, <2>u DEF AddAppender, DelAppender
  <2>5. ASSUME NEW t \in Threads, NEW a \in Appenders, MakeAppender(t, a) \/ Reopen(t, a)
        PROVE  Kept
    BY <2>5, <2>u DEF MakeAppender, Reopen
  <2>6. ASSUME NEW t \in Threads, NEW a \in Appenders, NEW f \in Formatters \cup {NoFormatter},
               SetAppenderFormatter(t, a, f)
        PROVE  Kept
    BY <2>6, <2>u DEF SetAppenderFormatter
  <2>7. ASSUME NEW t \in Threads, NEW x \in Names \cup Appenders, NEW v \in Levels,
               SetLevel(t, x, v)
        PROVE  Kept
    BY <2>7, <2>u DEF SetLevel
  <2>8. ASSUME NEW t \in Threads,
               LogLocks(t) \/ LogAppends(t) \/ LoopEnds(t) \/ SetNext(t) \/ AddLooks(t)
        PROVE  Kept
    BY <2>8, <2>u DEF LogLocks, LogAppends, LoopEnds, SetNext, AddLooks
  <2>9. ASSUME NEW t \in Threads, AddFills(t) PROVE Kept
    <3>1. /\ thread[t].op = "fill" /\ thread[t].ap \in Appenders /\ thread[t].saw = NoFormatter
          /\ thread'[t] = Idle
      BY <1>1, <2>9, StageFacts DEF AddFills, At, Unlocks, IInv, Types
    <3>2. \A a \in Appenders : a # thread[t].ap => formatter'[a] = formatter[a]
      BY <1>1, <2>9 DEF AddFills, IInv, Types
    <3> QED BY <3>1, <3>2
  <2> QED
    BY <1>1, <2>1, <2>2, <2>3, <2>4, <2>5, <2>6, <2>7, <2>8, <2>9 DEF Next
<1> QED BY <1>1, Inductive, PTL DEF Spec, OwnFormatterKept
=============================================================================
