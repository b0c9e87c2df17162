------------------------------- MODULE Logger -------------------------------
(***************************************************************************)
(* The logging front end, src/log.cpp and src/log.h: LoggerManager hands   *)
(* out one Logger per name, a Logger keeps a list of appenders, and every  *)
(* Logger and every LogAppender has a std::mutex latch_ of its own.        *)
(* Threads call any public operation at any moment.                        *)
(*                                                                         *)
(* A latch of an appender is only ever held around code that takes no      *)
(* other latch - with one exception, Logger::setFormatter, which takes it  *)
(* and then calls LogAppender::setFormatter, which takes it again: such a  *)
(* thread is "stuck".  The other critical sections of an appender are      *)
(* therefore single steps, and those of a logger are as many steps as they *)
(* take appender latches.                                                  *)
(*                                                                         *)
(* A formatter is a value that an error-free pattern gives (log.cpp        *)
(* 127-136 refuses the others before it touches the logger) or NoFormatter,*)
(* the null pointer.  What a formatter writes is the subject of            *)
(* FormatParser; here a line is written or, when the disk refuses it, lost.*)
(***************************************************************************)
EXTENDS Naturals, Sequences, FiniteSets, SequencesExt

CONSTANTS
    Threads,        \* the threads that use the loggers
    Names,          \* the names given to getLogger, Root among them
    Root,           \* the logger LoggerManager() makes
    Appenders,      \* the appenders, the loggers' first ones among them
    FirstAppender,  \* the StdoutLogAppender a logger is made with
    FileAppenders,  \* the appenders that are FileLogAppenders
    Formatters,     \* the formatters clients make
    Default,        \* the formatter of the constructor's default pattern
    NoFormatter,    \* the null LogFormatterRef
    Nobody,         \* the holder of a free latch
    Levels,         \* the levels of events and of thresholds
    DebugLevel,     \* LogLevel::DEBUG, where appenders start
    InfoLevel,      \* LogLevel::INFO, where loggers start
    MaxCalls,       \* bound: calls made by clients
    MaxListed       \* bound: length of a logger's appenders_

ASSUME LoggerAssumption ==
    /\ Root \in Names
    /\ Names \cap Appenders = {}
    /\ FirstAppender \in [Names -> Appenders \ FileAppenders]
    /\ \A m, n \in Names : m # n => FirstAppender[m] # FirstAppender[n]
    /\ FileAppenders \subseteq Appenders
    /\ NoFormatter \notin Formatters \cup {Default}
    /\ Nobody \notin Threads
    /\ Levels \subseteq Nat /\ {DebugLevel, InfoLevel} \subseteq Levels

VARIABLES
    loggers,    \* loggers_: the names that have a Logger
    made,       \* the appenders that have been constructed
    latch,      \* latch_ of loggers and appenders: the thread that holds it
    formatter,  \* formatter_ of loggers and appenders
    own,        \* hasFormatter_ of the appenders
    level,      \* level_ of loggers and appenders
    appenders,  \* appenders_ of the loggers
    stream,     \* filestream_ of the file appenders: is_open() and !fail()
    thread,     \* where each thread is
    broken,     \* undefined behaviour: what the program ran into
    cleared,    \* history: what was given the null formatter by a client
    lost,       \* history: file appenders the disk refused a write of
    calls       \* number of calls made

vars == <<loggers, made, latch, formatter, own, level, appenders, stream,
          thread, broken, cleared, lost, calls>>

(* The appenders of the library's own loggers are made with them.          *)
Firsts == {FirstAppender[n] : n \in Names}
Idle == [op |-> "idle"]
Closed == [open |-> FALSE, good |-> TRUE]
Free(x) == latch[x] = Nobody

(* LoggerManager(): the root logger with its StdoutLogAppender.            *)
Init ==
    /\ loggers = {Root}
    /\ made = {FirstAppender[Root]}
    /\ latch = [x \in Names \cup Appenders |-> Nobody]
    /\ formatter = [x \in Names \cup Appenders |->
                       IF x \in {Root, FirstAppender[Root]}
                       THEN Default ELSE NoFormatter]
    /\ own = [a \in Appenders |-> FALSE]
    /\ level = [x \in Names \cup Appenders |->
                   IF x \in Names THEN InfoLevel ELSE DebugLevel]
    /\ appenders = [n \in Names |->
                       IF n = Root THEN <<FirstAppender[n]>> ELSE <<>>]
    /\ stream = [a \in FileAppenders |-> Closed]
    /\ thread = [t \in Threads |-> Idle]
    /\ broken = "no" /\ cleared = {} /\ lost = {} /\ calls = 0

-----------------------------------------------------------------------------
(* Thread t begins a call.                                                 *)
Calls(t) ==
    /\ broken = "no"
    /\ thread[t] = Idle
    /\ calls < MaxCalls
    /\ calls' = calls + 1

(* Thread t is inside a call, at the stage op.                             *)
At(t, op) == broken = "no" /\ thread[t].op = op

(* LoggerManager::getLogger(n) for a name it does not know: all of it      *)
(* under the manager's latch_, on objects nobody else has yet.             *)
GetLogger(t, n) ==
    /\ Calls(t)
    /\ n \notin loggers
    /\ loggers' = loggers \cup {n}
    /\ made' = made \cup {FirstAppender[n]}
    /\ formatter' = [formatter EXCEPT ![n] = Default,
                                      ![FirstAppender[n]] = Default]
    /\ appenders' = [appenders EXCEPT ![n] = <<FirstAppender[n]>>]
    /\ UNCHANGED <<latch, own, level, stream, thread, broken, cleared, lost>>

(* Mutant of Reopened: the close is forgotten.                             *)
ReopenedWithoutClose(s, possible) ==
    LET done == ~s.open /\ possible
    IN  [open |-> s.open \/ done, good |-> done]

(* The stream after FileLogAppender::reopen: a healthy stream is closed, a *)
(* failed one is not, and open() refuses a stream that is still open.      *)
(* `possible' is the file system's answer to the open.                     *)
Reopened(s, possible) ==
    LET still == s.open /\ ~s.good
        done  == ~still /\ possible
    IN  [open |-> still \/ done, good |-> done]

(* A client constructs an appender; FileLogAppender() ends in reopen().    *)
MakeAppender(t, a) ==
    /\ Calls(t)
    /\ a \notin made \cup Firsts
    /\ made' = made \cup {a}
    /\ \E possible \in BOOLEAN :
          stream' = IF a \in FileAppenders
                    THEN [stream EXCEPT ![a] = Reopened(stream[a], possible)]
                    ELSE stream
    /\ UNCHANGED <<loggers, latch, formatter, own, level, appenders, thread,
                   broken, cleared, lost>>

(* FileLogAppender::reopen.                                                *)
Reopen(t, a) ==
    /\ Calls(t)
    /\ a \in made \cap FileAppenders
    /\ Free(a)
    /\ \E possible \in BOOLEAN :
          stream' = [stream EXCEPT ![a] = Reopened(stream[a], possible)]
    /\ UNCHANGED <<loggers, made, latch, formatter, own, level, appenders,
                   thread, broken, cleared, lost>>

(* Logger::setLevel and LogAppender::setLevel: no latch is taken.          *)
SetLevel(t, x, v) ==
    /\ Calls(t)
    /\ x \in loggers \cup made
    /\ level' = [level EXCEPT ![x] = v]
    /\ UNCHANGED <<loggers, made, latch, formatter, own, appenders, stream,
                   thread, broken, cleared, lost>>

(* LogAppender::setFormatter; the null formatter takes hasFormatter_ back. *)
SetAppenderFormatter(t, a, f) ==
    /\ Calls(t)
    /\ a \in made
    /\ Free(a)
    /\ formatter' = [formatter EXCEPT ![a] = f]
    /\ own' = [own EXCEPT ![a] = f # NoFormatter]
    /\ cleared' = IF f = NoFormatter THEN cleared \cup {a} ELSE cleared
    /\ UNCHANGED <<loggers, made, latch, level, appenders, stream, thread,
                   broken, lost>>

-----------------------------------------------------------------------------
(* Logger::log compares the level before it takes the latch.               *)
Log(t, n, v) ==
    /\ Calls(t)
    /\ n \in loggers
    /\ v >= level[n]
    /\ thread' = [thread EXCEPT ![t] = [op |-> "enter", lg |-> n, lv |-> v]]
    /\ UNCHANGED <<loggers, made, latch, formatter, own, level, appenders,
                   stream, broken, cleared, lost>>

LogLocks(t) ==
    /\ At(t, "enter")
    /\ LET n == thread[t].lg IN
          /\ Free(n)
          /\ latch' = [latch EXCEPT ![n] = t]
          /\ thread' = [thread EXCEPT
                ![t] = [op |-> "log", lg |-> n, lv |-> @.lv,
                        todo |-> appenders[n]]]
    /\ UNCHANGED <<loggers, made, formatter, own, level, appenders, stream,
                   broken, cleared, lost, calls>>

(* The log of the next appender in the list: skipped below its level, else *)
(* formatter_->format under its latch, which dereferences formatter_.  A   *)
(* write to a file may fail, which leaves the stream failed.               *)
LogAppends(t) ==
    /\ At(t, "log")
    /\ thread[t].todo # <<>>
    /\ thread' = [thread EXCEPT ![t].todo = Tail(@)]
    /\ LET a == Head(thread[t].todo) IN
          \/ /\ thread[t].lv < level[a]
             /\ UNCHANGED <<stream, broken, lost>>
          \/ /\ thread[t].lv >= level[a]
             /\ Free(a)
             /\ formatter[a] = NoFormatter
             /\ broken' = "null formatter"
             /\ UNCHANGED <<stream, lost>>
          \/ /\ thread[t].lv >= level[a]
             /\ Free(a)
             /\ formatter[a] # NoFormatter
             /\ UNCHANGED broken
             /\ \/ UNCHANGED <<stream, lost>>
                \/ /\ a \in FileAppenders
                   /\ stream[a].open
                   /\ stream' = [stream EXCEPT ![a].good = FALSE]
                   /\ lost' = lost \cup {a}
    /\ UNCHANGED <<loggers, made, latch, formatter, own, level, appenders,
                   cleared, calls>>

(* Mutant of Unlocks: the latch is not given back.                         *)
UnlocksNot(t, n) ==
    /\ latch' = latch
    /\ thread' = [thread EXCEPT ![t] = Idle]

(* The unique_lock on logger n goes out of scope and the call returns.     *)
Unlocks(t, n) ==
    /\ latch' = [latch EXCEPT ![n] = Nobody]
    /\ thread' = [thread EXCEPT ![t] = Idle]

(* The end of the loop of log or of setFormatter.                          *)
LoopEnds(t) ==
    /\ At(t, "log") \/ At(t, "set")
    /\ thread[t].todo = <<>>
    /\ Unlocks(t, thread[t].lg)
    /\ UNCHANGED <<loggers, made, formatter, own, level, appenders, stream,
                   broken, cleared, lost, calls>>

-----------------------------------------------------------------------------
(* Logger::setFormatter, from the moment it has the latch.                 *)
SetFormatter(t, n, f) ==
    /\ Calls(t)
    /\ n \in loggers
    /\ Free(n)
    /\ latch' = [latch EXCEPT ![n] = t]
    /\ formatter' = [formatter EXCEPT ![n] = f]
    /\ thread' = [thread EXCEPT
          ![t] = [op |-> "set", lg |-> n, todo |-> appenders[n]]]
    /\ cleared' = IF f = NoFormatter THEN cleared \cup {n} ELSE cleared
    /\ UNCHANGED <<loggers, made, own, level, appenders, stream, broken, lost>>

(* Its loop: an appender with a formatter of its own is passed over, the   *)
(* first other one is where the thread waits for itself.                   *)
SetNext(t) ==
    /\ At(t, "set")
    /\ thread[t].todo # <<>>
    /\ LET a == Head(thread[t].todo) IN
          /\ Free(a)
          /\ \/ /\ own[a]
                /\ thread' = [thread EXCEPT ![t].todo = Tail(@)]
                /\ UNCHANGED latch
             \/ /\ ~own[a]
                /\ thread' = [thread EXCEPT ![t].op = "stuck"]
                /\ latch' = [latch EXCEPT ![a] = t]
    /\ UNCHANGED <<loggers, made, formatter, own, level, appenders, stream,
                   broken, cleared, lost, calls>>

(* Logger::addAppender, from the moment it has the latch.                  *)
AddAppender(t, n, a) ==
    /\ Calls(t)
    /\ n \in loggers /\ a \in made
    /\ Len(appenders[n]) < MaxListed
    /\ Free(n)
    /\ latch' = [latch EXCEPT ![n] = t]
    /\ thread' = [thread EXCEPT ![t] = [op |-> "add", lg |-> n, ap |-> a]]
    /\ UNCHANGED <<loggers, made, formatter, own, level, appenders, stream,
                   broken, cleared, lost>>

(* Mutant of AddLooks: the appender is listed without being given a        *)
(* formatter.                                                              *)
AddLooksAway(t) ==
    /\ At(t, "add")
    /\ LET a == thread[t].ap
           n == thread[t].lg
       IN  /\ Free(a)
           /\ appenders' = [appenders EXCEPT ![n] = Append(@, a)]
           /\ Unlocks(t, n)
    /\ UNCHANGED <<loggers, made, formatter, own, level, stream, broken,
                   cleared, lost, calls>>

(* Mutant of AddLooks: the logger's formatter is assigned whatever is seen.*)
AddLooksForNothing(t) ==
    /\ At(t, "add")
    /\ Free(thread[t].ap)
    /\ thread' = [thread EXCEPT
          ![t] = [op |-> "fill", lg |-> @.lg, ap |-> @.ap,
                  saw |-> formatter[@.ap]]]
    /\ UNCHANGED <<loggers, made, latch, formatter, own, level, appenders,
                   stream, broken, cleared, lost, calls>>

(* appender->getFormatter(): its latch is taken and given up.              *)
AddLooks(t) ==
    /\ At(t, "add")
    /\ LET a == thread[t].ap
           n == thread[t].lg
       IN  /\ Free(a)
           /\ \/ /\ formatter[a] = NoFormatter
                 /\ thread' = [thread EXCEPT
                       ![t] = [op |-> "fill", lg |-> n, ap |-> a,
                               saw |-> formatter[a]]]
                 /\ UNCHANGED <<appenders, latch>>
              \/ /\ formatter[a] # NoFormatter
                 /\ appenders' = [appenders EXCEPT ![n] = Append(@, a)]
                 /\ Unlocks(t, n)
    /\ UNCHANGED <<loggers, made, formatter, own, level, stream, broken,
                   cleared, lost, calls>>

(* The latch of the appender is taken again and formatter_ assigned,       *)
(* without a second look at it.                                            *)
AddFills(t) ==
    /\ At(t, "fill")
    /\ LET a == thread[t].ap
           n == thread[t].lg
       IN  /\ Free(a)
           /\ formatter' = [formatter EXCEPT ![a] = formatter[n]]
           /\ appenders' = [appenders EXCEPT ![n] = Append(@, a)]
           /\ Unlocks(t, n)
    /\ UNCHANGED <<loggers, made, own, level, stream, broken, cleared, lost,
                   calls>>

(* Logger::delAppender: std::find, then erase, which is undefined when the *)
(* appender is not in the list.                                            *)
DelAppender(t, n, a) ==
    /\ Calls(t)
    /\ n \in loggers /\ a \in made
    /\ Free(n)
    /\ \/ /\ Contains(appenders[n], a)
          /\ appenders' = [appenders EXCEPT ![n] = RemoveFirst(@, a)]
          /\ UNCHANGED broken
       \/ /\ ~Contains(appenders[n], a)
          /\ broken' = "erase of end()"
          /\ UNCHANGED appenders
    /\ UNCHANGED <<loggers, made, latch, formatter, own, level, stream, thread,
                   cleared, lost>>

(* Logger::clearAppenders.                                                 *)
ClearAppenders(t, n) ==
    /\ Calls(t)
    /\ n \in loggers
    /\ Free(n)
    /\ appenders' = [appenders EXCEPT ![n] = <<>>]
    /\ UNCHANGED <<loggers, made, latch, formatter, own, level, stream, thread,
                   broken, cleared, lost>>

-----------------------------------------------------------------------------
Next ==
    \E t \in Threads :
        \/ \E n \in Names :
              \/ GetLogger(t, n)
              \/ ClearAppenders(t, n)
              \/ \E v \in Levels : Log(t, n, v)
              \/ \E f \in Formatters \cup {NoFormatter} : SetFormatter(t, n, f)
              \/ \E a \in Appenders : AddAppender(t, n, a) \/ DelAppender(t, n, a)
        \/ \E a \in Appenders :
              \/ MakeAppender(t, a)
              \/ Reopen(t, a)
              \/ \E f \in Formatters \cup {NoFormatter} :
                    SetAppenderFormatter(t, a, f)
        \/ \E x \in Names \cup Appenders, v \in Levels : SetLevel(t, x, v)
        \/ LogLocks(t) \/ LogAppends(t) \/ LoopEnds(t)
        \/ SetNext(t) \/ AddLooks(t) \/ AddFills(t)

Spec == Init /\ [][Next]_vars

-----------------------------------------------------------------------------
Busy(t) == thread[t] # Idle
Stuck(t) == thread[t].op = "stuck"

FirstOf(s) == IF s = <<>> THEN {} ELSE {Head(s)}

(* The latches thread t cannot go on without.                              *)
Wants(t) ==
    CASE thread[t].op = "enter" -> {thread[t].lg}
      [] thread[t].op = "log" ->
            {a \in FirstOf(thread[t].todo) : thread[t].lv >= level[a]}
      [] thread[t].op \in {"set", "stuck"} -> FirstOf(thread[t].todo)
      [] thread[t].op \in {"add", "fill"} -> {thread[t].ap}
      [] OTHER -> {}

Blockers(t) == {latch[x] : x \in Wants(t)} \ {Nobody}

(* No latch is waited for that nobody will give back: whoever holds it is  *)
(* inside a call, and either can go on itself or waits, directly or        *)
(* through one more thread, for a thread that Logger::setFormatter stopped *)
(* for ever.  Loggers' latches are taken before appenders' ones in log,    *)
(* setFormatter and addAppender alike, so no ring of threads arises.       *)
LatchesProgress ==
    broken = "no" =>
        \A t \in Threads : \A u \in Blockers(t) :
            /\ Busy(u)
            /\ \/ Stuck(u)
               \/ Blockers(u) = {}
               \/ \E s \in Blockers(u) : Stuck(s)

(* log() finds a formatter in every appender of a logger - given by the    *)
(* client, by getLogger or by addAppender - unless a client gave the null  *)
(* formatter to that appender or to a logger.                              *)
FormatterPresent ==
    /\ \A n \in loggers : \A a \in Range(appenders[n]) :
          formatter[a] = NoFormatter => cleared \cap ({a} \cup Names) # {}
    /\ broken = "null formatter" => cleared # {}

(* The formatter a client gave an appender is replaced only by the client: *)
(* LogAppender::setFormatter, or an addAppender that found none, before    *)
(* the client set it, and assigns the logger's afterwards.                 *)
OwnFormatterKept ==
    [][\A a \in Appenders :
          own[a] /\ formatter'[a] # formatter[a] =>
             \/ \E t \in Threads :
                   /\ thread[t].op = "fill"
                   /\ thread[t].ap = a
                   /\ thread[t].saw = NoFormatter
                   /\ thread'[t] = Idle
             \/ thread' = thread]_vars

(* A file appender whose file is open can write to it until the disk has   *)
(* refused a write: reopen() closes before it opens, and a close that      *)
(* fails because the file could not be opened earlier does no harm.  After *)
(* a refused write reopen() answers true and changes nothing.              *)
StreamsUsable ==
    \A a \in FileAppenders :
        stream[a].open /\ ~stream[a].good => a \in lost

(* What "设置日志格式器" (log.h 425) promises: setFormatter sets the       *)
(* formatter and returns.                                                  *)
SetFormatterReturns == \A t \in Threads : ~Stuck(t)
=============================================================================
