------------------------- MODULE TimerManagerProofs -------------------------
(***************************************************************************)
(* Theorems about TimerManager, for every set of timers, idle threads and  *)
(* periods.  KeysDistinct is what the others rest on: because no two       *)
(* elements of timers_ share a deadline, find() on a timer that is in the  *)
(* set returns that very timer.                                            *)
(***************************************************************************)
EXTENDS TimerManager, TLAPS, WellFoundedInduction

-----------------------------------------------------------------------------
(* The first deadline exists, so the values idle() computes are numbers. *)

LEMMA MinNat ==
    ASSUME NEW S, S \subseteq Nat, S # {}
    PROVE  Min(S) \in S /\ \A y \in S : Min(S) <= y
<1>1. PICK x \in S : \A y \in S : ~(<<y, x>> \in OpToRel(<, Nat))
  BY WFMin, NatLessThanWellFounded
<1>2. \A a, b \in Nat : a < b => <<a, b>> \in OpToRel(<, Nat)
  BY DEF OpToRel
<1>3. \A y \in S : x <= y
  <2> SUFFICES ASSUME NEW y \in S PROVE x <= y
    OBVIOUS
  <2>1. x \in Nat /\ y \in Nat
    OBVIOUS
  <2>2. ~(y < x)
    BY <1>1, <1>2, <2>1, Zenon
  <2> QED BY <2>1, <2>2
<1> QED
  BY <1>3 DEF Min

LEMMA NapType ==
    ASSUME TypeOK
    PROVE  /\ timers # {} => Front \in Nat
           /\ now + Min({NextTimer, MAX_TIMEOUT}) \in Nat
<1>1. ASSUME timers # {} PROVE Front \in Nat
  <2> DEFINE D == {next[t] : t \in timers}
  <2>1. D \subseteq Nat /\ D # {}
    BY <1>1 DEF TypeOK
  <2> HIDE DEF D
  <2>2. Min(D) \in Nat
    BY <2>1, MinNat
  <2> QED BY <2>2 DEF Front, D
<1>2. NextTimer \in Nat
  <2>1. CASE timers = {}
    BY <2>1, TimesAssumption DEF NextTimer
  <2>2. CASE timers # {}
    <3>1. Front - now \in Int
      BY <1>1, <2>2 DEF TypeOK
    <3>2. \A a \in Int : a % Wrap \in Nat
      BY TimesAssumption
    <3> QED BY <2>2, <3>1, <3>2 DEF NextTimer
  <2> QED BY <2>1, <2>2
<1>3. Min({NextTimer, MAX_TIMEOUT}) \in {NextTimer, MAX_TIMEOUT}
  BY <1>2, TimesAssumption, MinNat
<1>4. Min({NextTimer, MAX_TIMEOUT}) \in Nat
  BY <1>2, <1>3, TimesAssumption
<1> QED
  BY <1>1, <1>4 DEF TypeOK

-----------------------------------------------------------------------------
(* The inductive invariant *)

\* A timer has its callback from the constructor on, until it is cancelled.
MadeHasCb == \A t \in Timers : life[t] = "made" => cb[t]

\* reset() is called on timers that addTimer() returned.
CallsLive == \A c \in calls : c.timer \in Timers /\ life[c.timer] = "live"

IInv ==
    /\ TypeOK /\ MadeHasCb /\ CallsLive
    /\ KeysDistinct /\ ManagedHasCb /\ LostOnlyByAliasing

\* Every action is one of these, and none is taken after undefined behaviour.
LEMMA NextCases ==
    ASSUME Next
    PROVE  \/ ~undefined /\ Tick
           \/ ~undefined /\ \E t \in Timers, m \in Periods, b \in BOOLEAN :
                                NewTimer(t, m) \/ ResetTest(t, m, b)
           \/ ~undefined /\ \E t \in Timers : AddTimer(t) \/ Cancel(t) \/ Refresh(t)
           \/ ~undefined /\ \E c \in calls : Reset(c) \/ ResetFails(c)
           \/ ~undefined /\ \E i \in Idlers :
                 \/ IdleEnter(i) \/ GetNextTimer(i) \/ EpollTimeout(i) \/ EpollTickled(i)
                 \/ Drain(i)
           \/ ~undefined /\ \E i \in Idlers : ListExpiredCb(i)
           \/ UNCHANGED vars
BY DEF Next, Client, Idler, Undefined

LEMMA TypeStep ==
    ASSUME TypeOK, [Next]_vars
    PROVE  TypeOK'
<1> USE DEF TypeOK
<1>1. CASE Tick \/ UNCHANGED vars
  BY <1>1 DEF Tick, vars, timerVars, idlerVars, history
<1>2. ASSUME NEW t \in Timers, NEW m \in Periods, NEW b \in BOOLEAN,
             NewTimer(t, m) \/ ResetTest(t, m, b)
      PROVE  TypeOK'
  <2>1. m \in Nat /\ now + m \in Nat
    BY PeriodsAssumption
  <2>2. CASE NewTimer(t, m)
    BY <2>1, <2>2 DEF NewTimer, idlerVars, history
  <2>3. CASE ResetTest(t, m, b)
    <3>1. [timer |-> t, ms |-> m, from_now |-> b] \in Call
      BY DEF Call
    <3> QED
      BY <2>3, <3>1 DEF ResetTest, timerVars, idlerVars, history
  <2> QED BY <1>2, <2>2, <2>3
<1>3. ASSUME NEW t \in Timers, AddTimer(t) PROVE TypeOK'
  BY <1>3 DEF AddTimer, addTimer, Insert
<1>4. ASSUME NEW t \in Timers, Cancel(t) PROVE TypeOK'
  BY <1>4 DEF Cancel, idlerVars
<1>5. ASSUME NEW t \in Timers, Refresh(t) PROVE TypeOK'
  BY <1>5 DEF Refresh, Insert, idlerVars
<1>6. ASSUME NEW c \in calls, Reset(c) PROVE TypeOK'
  <2>0. c \in Call
    OBVIOUS
  <2>a. c.timer \in Timers /\ c.ms \in Periods
    BY <2>0 DEF Call
  <2>b. \A m \in Periods : m \in Nat /\ now + m \in Nat
    BY PeriodsAssumption
  <2>1. c.timer \in Timers /\ c.ms \in Nat /\ now + c.ms \in Nat
    BY <2>a, <2>b, Zenon
  <2> QED
    BY <1>6, <2>1 DEF Reset, addTimer, Insert
<1>7. ASSUME NEW c \in calls, ResetFails(c) PROVE TypeOK'
  BY <1>7 DEF ResetFails, timerVars, idlerVars, history
<1>8. ASSUME NEW i \in Idlers,
             IdleEnter(i) \/ EpollTimeout(i) \/ EpollTickled(i) \/ Drain(i)
      PROVE  TypeOK'
  <2>1. Awake \in Nap
    BY DEF Awake, Nap
  <2>2. CASE IdleEnter(i) \/ Drain(i)
    BY <2>2 DEF IdleEnter, Drain, timerVars, history
  <2>3. CASE EpollTimeout(i) \/ EpollTickled(i)
    BY <2>1, <2>3 DEF EpollTimeout, EpollTickled, timerVars, history
  <2> QED BY <1>8, <2>2, <2>3
<1>9. ASSUME NEW i \in Idlers, GetNextTimer(i) PROVE TypeOK'
  <2> DEFINE n == [overdue |-> (\E t \in timers : next[t] < now),
                   front |-> IF timers = {} THEN now + MAX_TIMEOUT ELSE Front,
                   wake  |-> now + Min({NextTimer, MAX_TIMEOUT})]
  <2>1. n \in Nap
    BY NapType, TimesAssumption DEF Nap
  <2>2. nap' = [nap EXCEPT ![i] = n]
    BY <1>9 DEF GetNextTimer
  <2> HIDE DEF n
  <2>3. nap' \in [Idlers -> Nap]
    BY <2>1, <2>2
  <2> QED
    BY <1>9, <2>3 DEF GetNextTimer, timerVars, history
<1>10. ASSUME NEW i \in Idlers, ListExpiredCb(i) PROVE TypeOK'
  BY <1>10 DEF ListExpiredCb, Expired, Reinserted
<1> QED
  BY <1>1, <1>2, <1>3, <1>4, <1>5, <1>6, <1>7, <1>8, <1>9, <1>10, NextCases

\* The actions that touch neither timers_ nor a timer that was added.
LEMMA SetFrame ==
    ASSUME IInv, UNCHANGED <<timers, fired, aliased, undefined>>,
           \A t \in Timers : (life'[t] = "live") <=> (life[t] = "live"),
           \A t \in Timers : life[t] = "live" =>
              /\ cb'[t] = cb[t] /\ next'[t] = next[t]
    PROVE  (KeysDistinct /\ ManagedHasCb /\ LostOnlyByAliasing)'
<1>1. \A t \in timers : t \in Timers /\ life[t] = "live"
  BY DEF IInv, TypeOK, ManagedHasCb
<1> QED
  BY <1>1 DEF IInv, KeysDistinct, ManagedHasCb, LostOnlyByAliasing, Managed

\* Taking out what find() returned and inserting t with its new deadline, as
\* refresh() and reset() do.
LEMMA Replace ==
    ASSUME IInv, NEW t \in Timers, life[t] = "live", cb[t],
           NEW rest, rest = timers \ Find(timers, next, next[t]),
           Find(timers, next, next[t]) # {},
           next' \in [Timers -> Nat],
           \A u \in Timers \ {t} : next'[u] = next[u],
           timers' = Insert(rest, next', t),
           aliased' = (aliased \/ Meets(timers, next, t) \/ Meets(rest, next', t)),
           UNCHANGED <<life, cb, fired, undefined>>
    PROVE  (KeysDistinct /\ ManagedHasCb /\ LostOnlyByAliasing)'
<1>1. timers \subseteq Timers /\ rest \subseteq timers /\ t \notin rest
  BY DEF IInv, TypeOK, Find
<1>2. \/ timers' = rest
      \/ /\ timers' = rest \cup {t}
         /\ \A u \in rest : next'[u] # next'[t]
  BY DEF Insert, Find
<1>a. \A u \in rest : next'[u] = next[u]
  BY <1>1
<1>3. KeysDistinct'
  <2>1. \A u, v \in rest : next'[u] = next'[v] => u = v
    BY <1>1, <1>a DEF IInv, KeysDistinct
  <2> QED BY <1>2, <2>1 DEF KeysDistinct
<1>4. ManagedHasCb'
  BY <1>1, <1>2 DEF IInv, ManagedHasCb
<1>5. LostOnlyByAliasing'
  <2> SUFFICES ASSUME ~aliased', ~undefined' PROVE Managed'
    BY DEF LostOnlyByAliasing
  <2>1. rest = timers \ {t}
    BY <1>1 DEF Meets, Find
  <2>2. timers' = rest \cup {t}
    BY <1>1, <2>1 DEF Meets, Insert, Find
  <2>3. Managed
    BY DEF IInv, LostOnlyByAliasing
  <2> QED
    BY <2>1, <2>2, <2>3 DEF Managed
<1> QED
  BY <1>3, <1>4, <1>5

LEMMA SetStep ==
    ASSUME IInv, Next, ~undefined
    PROVE  (KeysDistinct /\ ManagedHasCb /\ LostOnlyByAliasing)'
<1>u. ~undefined
  OBVIOUS
<1>t. TypeOK /\ timers \subseteq Timers
  BY DEF IInv, TypeOK
<1>1. CASE Tick \/ UNCHANGED vars
  BY <1>1, SetFrame DEF Tick, vars, timerVars, history
<1>2. ASSUME NEW t \in Timers, NEW m \in Periods, NEW b \in BOOLEAN,
             NewTimer(t, m) \/ ResetTest(t, m, b)
      PROVE  (KeysDistinct /\ ManagedHasCb /\ LostOnlyByAliasing)'
  BY <1>2, <1>t, SetFrame DEF NewTimer, ResetTest, timerVars, history, TypeOK
<1>3. ASSUME NEW t \in Timers, AddTimer(t)
      PROVE  (KeysDistinct /\ ManagedHasCb /\ LostOnlyByAliasing)'
  <2>1. /\ life[t] = "made" /\ life' = [life EXCEPT ![t] = "live"]
        /\ timers' = Insert(timers, next, t)
        /\ aliased' = (aliased \/ Meets(timers, next, t))
        /\ UNCHANGED <<next, cb, fired, undefined>>
    BY <1>3 DEF AddTimer, addTimer
  <2>2. t \notin timers
    BY <2>1 DEF IInv, ManagedHasCb
  <2>3. \/ timers' = timers /\ Meets(timers, next, t)
        \/ /\ timers' = timers \cup {t}
           /\ \A u \in timers : next[u] # next[t]
    BY <2>1, <2>2 DEF Insert, Find, Meets
  <2>4. cb[t]
    BY <2>1 DEF IInv, MadeHasCb
  <2>5. KeysDistinct'
    BY <2>1, <2>3 DEF IInv, KeysDistinct
  <2>6. ManagedHasCb'
    BY <1>t, <2>1, <2>3, <2>4 DEF IInv, TypeOK, ManagedHasCb
  <2>7. LostOnlyByAliasing'
    BY <1>t, <2>1, <2>3 DEF IInv, TypeOK, LostOnlyByAliasing, Managed
  <2> QED BY <2>5, <2>6, <2>7
<1>4. ASSUME NEW t \in Timers, Cancel(t)
      PROVE  (KeysDistinct /\ ManagedHasCb /\ LostOnlyByAliasing)'
  <2>1. /\ cb' = [cb EXCEPT ![t] = FALSE]
        /\ timers' = timers \ Find(timers, next, next[t])
        /\ undefined' = (Find(timers, next, next[t]) = {})
        /\ aliased' = (aliased \/ Meets(timers, next, t))
        /\ UNCHANGED <<life, next, fired>>
    BY <1>4 DEF Cancel
  <2>2. t \notin timers' /\ timers' \subseteq timers
    BY <2>1 DEF Find
  <2>3. KeysDistinct' /\ ManagedHasCb'
    BY <1>t, <2>1, <2>2 DEF IInv, TypeOK, KeysDistinct, ManagedHasCb
  <2>4. LostOnlyByAliasing'
    <3> SUFFICES ASSUME ~aliased', ~undefined' PROVE Managed'
      BY DEF LostOnlyByAliasing
    <3>1. timers' = timers \ {t}
      BY <1>t, <2>1 DEF Find, Meets
    <3>2. Managed
      BY <1>u, <2>1 DEF IInv, LostOnlyByAliasing
    <3> QED
      BY <1>t, <2>1, <3>1, <3>2 DEF Managed, TypeOK
  <2> QED BY <2>3, <2>4
<1>5. ASSUME NEW t \in Timers, Refresh(t)
      PROVE  (KeysDistinct /\ ManagedHasCb /\ LostOnlyByAliasing)'
  <2>1. TypeOK'
    BY <1>5, <1>t, <1>u, TypeStep DEF Next, Client
  <2> DEFINE rest == timers \ Find(timers, next, next[t])
  <2>2. /\ life[t] = "live" /\ cb[t] /\ Find(timers, next, next[t]) # {}
        /\ timers' = Insert(rest, next', t)
        /\ aliased' = (aliased \/ Meets(timers, next, t) \/ Meets(rest, next', t))
        /\ UNCHANGED <<life, cb, fired, undefined>>
    BY <1>5 DEF Refresh
  <2>3. \A u \in Timers \ {t} : next'[u] = next[u]
    BY <1>5, <1>t DEF Refresh, TypeOK
  <2> HIDE DEF rest
  <2> QED
    BY <2>1, <2>2, <2>3, Replace DEF rest, TypeOK
<1>6. ASSUME NEW c \in calls, Reset(c)
      PROVE  (KeysDistinct /\ ManagedHasCb /\ LostOnlyByAliasing)'
  <2>1. c.timer \in Timers /\ life[c.timer] = "live"
    BY <1>6 DEF IInv, CallsLive
  <2>2. TypeOK'
    BY <1>6, <1>t, <1>u, TypeStep DEF Next, Client
  <2> DEFINE rest == timers \ Find(timers, next, next[c.timer])
  <2>3. /\ cb[c.timer] /\ Find(timers, next, next[c.timer]) # {}
        /\ timers' = Insert(rest, next', c.timer)
        /\ aliased' = (aliased \/ Meets(timers, next, c.timer) \/ Meets(rest, next', c.timer))
        /\ UNCHANGED <<life, cb, fired, undefined>>
    BY <1>6 DEF Reset, addTimer
  <2>4. \A u \in Timers \ {c.timer} : next'[u] = next[u]
    BY <1>6, <1>t DEF Reset, TypeOK
  <2> HIDE DEF rest
  <2> QED
    BY <2>1, <2>2, <2>3, <2>4, Replace DEF rest, TypeOK
<1>7. ASSUME NEW c \in calls, ResetFails(c)
      PROVE  (KeysDistinct /\ ManagedHasCb /\ LostOnlyByAliasing)'
  BY <1>7, SetFrame DEF ResetFails, timerVars, history
<1>8. ASSUME NEW i \in Idlers,
             \/ IdleEnter(i) \/ GetNextTimer(i) \/ EpollTimeout(i) \/ EpollTickled(i)
             \/ Drain(i)
      PROVE  (KeysDistinct /\ ManagedHasCb /\ LostOnlyByAliasing)'
  BY <1>8, SetFrame DEF IdleEnter, GetNextTimer, EpollTimeout, EpollTickled,
                        Drain, timerVars, history
<1>9. ASSUME NEW i \in Idlers, ListExpiredCb(i)
      PROVE  (KeysDistinct /\ ManagedHasCb /\ LostOnlyByAliasing)'
  <2>1. /\ timers' = (timers \ Expired) \cup Reinserted
        /\ next' = [t \in Timers |-> IF t \in Expired /\ t \in Recurring
                                     THEN now + ms[t] ELSE next[t]]
        /\ fired' = fired \cup (Expired \ Recurring)
        /\ aliased' = (aliased \/ \E t \in Expired : t \in Recurring /\ t \notin Reinserted)
        /\ UNCHANGED <<now, life, ms, cb, undefined>>
    BY <1>9 DEF ListExpiredCb
  <2>2. Reinserted \subseteq Expired /\ Expired \subseteq timers
    BY DEF Reinserted, Expired
  <2>3. \A t \in Reinserted : next'[t] = now + ms[t] /\ t \in Recurring
    BY <1>t, <2>1, <2>2 DEF Reinserted
  <2>4. \A t \in timers \ Expired : next'[t] = next[t]
    BY <1>t, <2>1
  <2>5. KeysDistinct'
    <3> SUFFICES ASSUME NEW t \in timers', NEW u \in timers', next'[t] = next'[u]
                 PROVE  t = u
      BY DEF KeysDistinct
    <3>1. CASE t \in timers \ Expired /\ u \in timers \ Expired
      BY <2>4, <3>1 DEF IInv, KeysDistinct
    <3>2. CASE t \in Reinserted /\ u \in Reinserted
      <4>1. now + ms[t] = now + ms[u]
        BY <2>3, <3>2
      <4>2. ms[t] = ms[u] /\ next[t] \in Nat /\ next[u] \in Nat
        BY <1>t, <2>2, <3>2, <4>1 DEF TypeOK
      <4> QED
        BY <2>2, <2>3, <3>2, <4>2 DEF Reinserted
    <3>3. CASE t \in timers \ Expired /\ u \in Reinserted
      BY <2>3, <2>4, <3>3 DEF Reinserted
    <3>4. CASE t \in Reinserted /\ u \in timers \ Expired
      BY <2>3, <2>4, <3>4 DEF Reinserted
    <3> QED BY <2>1, <3>1, <3>2, <3>3, <3>4
  <2>6. ManagedHasCb'
    BY <2>1, <2>2 DEF IInv, ManagedHasCb
  <2>7. LostOnlyByAliasing'
    BY <1>t, <2>1, <2>2 DEF IInv, LostOnlyByAliasing, Managed
  <2> QED BY <2>5, <2>6, <2>7
<1> QED
  BY <1>1, <1>2, <1>3, <1>4, <1>5, <1>6, <1>7, <1>8, <1>9, NextCases

LEMMA CallStep ==
    ASSUME IInv, [Next]_vars
    PROVE  MadeHasCb' /\ CallsLive'
<1>t. TypeOK
  BY DEF IInv
<1>1. CASE Tick \/ UNCHANGED vars
  BY <1>1 DEF Tick, vars, timerVars, IInv, MadeHasCb, CallsLive
<1>2. ASSUME NEW t \in Timers, NEW m \in Periods, NEW b \in BOOLEAN,
             NewTimer(t, m) \/ ResetTest(t, m, b)
      PROVE  MadeHasCb' /\ CallsLive'
  <2>1. CASE NewTimer(t, m)
    BY <1>t, <2>1 DEF NewTimer, TypeOK, IInv, MadeHasCb, CallsLive
  <2>2. CASE ResetTest(t, m, b)
    BY <2>2 DEF ResetTest, timerVars, IInv, MadeHasCb, CallsLive
  <2> QED BY <1>2, <2>1, <2>2
<1>3. ASSUME NEW t \in Timers, AddTimer(t) \/ Cancel(t) \/ Refresh(t)
      PROVE  MadeHasCb' /\ CallsLive'
  BY <1>3, <1>t DEF AddTimer, Cancel, Refresh, TypeOK, IInv, MadeHasCb, CallsLive
<1>4. ASSUME NEW c \in calls, Reset(c) \/ ResetFails(c)
      PROVE  MadeHasCb' /\ CallsLive'
  BY <1>4 DEF Reset, ResetFails, timerVars, IInv, MadeHasCb, CallsLive
<1>5. ASSUME NEW i \in Idlers, Idler(i)
      PROVE  MadeHasCb' /\ CallsLive'
  BY <1>5 DEF Idler, IdleEnter, GetNextTimer, EpollTimeout, EpollTickled,
              ListExpiredCb, Drain, timerVars, IInv, MadeHasCb, CallsLive
<1> QED
  BY <1>1, <1>2, <1>3, <1>4, <1>5 DEF Next, Client, Undefined

-----------------------------------------------------------------------------
(* Sleeping and waking.  A tickle that was announced (tickled_) is still on its *)
(* way: the pipe is ready or some thread is awake and will ask again.           *)

TickleArrives == tickled /\ Idlers # {} => pipe \/ \E i \in Idlers : ~Asleep(i)

WInv == SleepsUntilFront /\ TickleArrives /\ WakesUnlessAdvanced

\* The timeout that idle() computes reaches no further than the first deadline.
LEMMA NapBound ==
    ASSUME TypeOK, \A t \in timers : ~(next[t] < now)
    PROVE  now + Min({NextTimer, MAX_TIMEOUT}) <=
              IF timers = {} THEN now + MAX_TIMEOUT ELSE Front
<1> DEFINE M == Min({NextTimer, MAX_TIMEOUT})
<1>1. NextTimer \in Nat
  <2>1. CASE timers = {}
    BY <2>1, TimesAssumption DEF NextTimer
  <2>2. CASE timers # {}
    <3>1. Front - now \in Int
      BY <2>2, NapType DEF TypeOK
    <3>2. \A a \in Int : a % Wrap \in Nat
      BY TimesAssumption
    <3> QED BY <2>2, <3>1, <3>2 DEF NextTimer
  <2> QED BY <2>1, <2>2
<1>2. M \in Nat /\ M <= NextTimer /\ M <= MAX_TIMEOUT
  BY <1>1, TimesAssumption, MinNat
<1> HIDE DEF M
<1>3. CASE timers = {}
  BY <1>2, <1>3, TimesAssumption DEF TypeOK, M
<1>4. CASE timers # {}
  <2> DEFINE D == {next[t] : t \in timers}
  <2>1. D \subseteq Nat /\ D # {} /\ \A d \in D : ~(d < now)
    BY <1>4 DEF TypeOK
  <2> HIDE DEF D
  <2>2. Min(D) \in Nat /\ now <= Min(D)
    <3>1. Min(D) \in D
      BY <2>1, MinNat
    <3>2. Min(D) \in Nat /\ ~(Min(D) < now) /\ now \in Nat
      BY <2>1, <3>1 DEF TypeOK
    <3> QED BY <3>2
  <2>3. Front \in Nat /\ now <= Front
    BY <2>2 DEF Front, D
  <2>4. \A a \in Nat : a % Wrap <= a
    BY TimesAssumption
  <2>5. NextTimer <= Front - now
    BY <1>4, <2>3, <2>4 DEF NextTimer, TypeOK
  <2> QED
    BY <1>1, <1>2, <1>4, <2>3, <2>5 DEF TypeOK, M
<1> QED BY <1>3, <1>4

\* The front is before every timer.
LEMMA FrontFirst ==
    ASSUME TypeOK, NEW t \in timers
    PROVE  Front \in Nat /\ Front <= next[t]
<1> DEFINE D == {next[u] : u \in timers}
<1>1. D \subseteq Nat /\ D # {} /\ next[t] \in D
  BY DEF TypeOK
<1> HIDE DEF D
<1>2. Min(D) \in Nat /\ Min(D) <= next[t]
  BY <1>1, MinNat
<1> QED BY <1>2 DEF Front, D

\* Nothing that can disturb the sleepers happens: no timer comes nearer.
LEMMA WakeFrame ==
    ASSUME TypeOK, WInv, TypeOK', UNCHANGED <<pc, nap>>,
           pipe => pipe', tickled' => tickled, advanced => advanced',
           \A t \in timers' : \E u \in timers : next[u] <= next'[t]
    PROVE  WInv'
<1>1. SleepsUntilFront' /\ TickleArrives'
  BY DEF WInv, SleepsUntilFront, TickleArrives, Asleep
<1>2. WakesUnlessAdvanced'
  <2> SUFFICES ASSUME ~advanced', Idlers # {}, ~pipe',
                      \A i \in Idlers : (Asleep(i) /\ ~nap[i].overdue),
                      NEW t \in timers'
               PROVE  \E i \in Idlers : nap[i].wake <= next'[t]
    BY DEF WakesUnlessAdvanced, SomeoneWakes, Asleep
  <2>1. PICK u \in timers : next[u] <= next'[t]
    OBVIOUS
  <2>2. PICK i \in Idlers : nap[i].wake <= next[u]
    BY DEF WInv, WakesUnlessAdvanced, SomeoneWakes
  <2>3. nap[i].wake \in Nat /\ next[u] \in Nat /\ next'[t] \in Nat
    BY DEF TypeOK, Nap
  <2> QED BY <2>1, <2>2, <2>3
<1> QED BY <1>1, <1>2 DEF WInv

\* addTimer(TimerRef) wakes a sleeper, or the new deadline is behind another one.
LEMMA WakeInsert ==
    ASSUME TypeOK, WInv, TypeOK', UNCHANGED <<pc, nap, advanced>>,
           NEW rest, rest \subseteq timers, NEW t \in Timers, t \notin rest,
           \A u \in rest : next'[u] = next[u],
           addTimer(rest, next', t)
    PROVE  WInv'
<1>1. SleepsUntilFront'
  BY DEF WInv, SleepsUntilFront, Asleep
<1> DEFINE front == \A u \in rest : next'[t] <= next'[u]
<1>2. /\ timers' \subseteq rest \cup {t}
      /\ tickled' = (tickled \/ front)
      /\ pipe' = (pipe \/ (front /\ ~tickled /\ \E i \in Idlers : pc[i] # "busy"))
  BY DEF addTimer, Insert
<1>3. TickleArrives'
  <2> SUFFICES ASSUME tickled', Idlers # {}, \A i \in Idlers : Asleep(i) PROVE pipe'
    BY DEF TickleArrives, Asleep
  <2>1. \A i \in Idlers : pc[i] # "busy"
    BY DEF Asleep
  <2> QED
    BY <1>2, <2>1 DEF WInv, TickleArrives
<1>4. WakesUnlessAdvanced'
  <2> SUFFICES ASSUME ~advanced, Idlers # {}, ~pipe',
                      \A i \in Idlers : (Asleep(i) /\ ~nap[i].overdue),
                      NEW u \in timers'
               PROVE  \E i \in Idlers : nap[i].wake <= next'[u]
    BY DEF WakesUnlessAdvanced, SomeoneWakes, Asleep
  <2>1. ~tickled /\ ~front
    <3>1. \E i \in Idlers : pc[i] # "busy"
      BY DEF Asleep
    <3> QED BY <1>2, <3>1 DEF WInv, TickleArrives
  <2>2. PICK v \in rest : next'[v] <= next'[u]
    <3>1. CASE u \in rest
      BY <3>1 DEF TypeOK
    <3>2. CASE u = t
      BY <2>1, <3>2 DEF TypeOK
    <3> QED BY <1>2, <3>1, <3>2
  <2>3. PICK i \in Idlers : nap[i].wake <= next[v]
    BY <1>2, <2>2 DEF WInv, WakesUnlessAdvanced, SomeoneWakes
  <2>4. nap[i].wake \in Nat /\ next[v] \in Nat /\ next'[u] \in Nat /\ next'[v] = next[v]
    BY DEF TypeOK, Nap
  <2> QED BY <2>2, <2>3, <2>4
<1> QED BY <1>1, <1>3, <1>4 DEF WInv

LEMMA WakeStep ==
    ASSUME IInv, WInv, [Next]_vars, TypeOK'
    PROVE  WInv'
<1>t. TypeOK /\ timers \subseteq Timers
  BY DEF IInv, TypeOK
<1>s. ASSUME timers' \subseteq timers, \A t \in timers : next'[t] = next[t]
      PROVE  \A t \in timers' : \E u \in timers : next[u] <= next'[t]
  BY <1>s, <1>t DEF TypeOK
<1>1. CASE Tick \/ UNCHANGED vars
  BY <1>1, <1>t, <1>s, WakeFrame DEF Tick, vars, timerVars, idlerVars, history
<1>2. ASSUME NEW t \in Timers, NEW m \in Periods, NEW b \in BOOLEAN,
             NewTimer(t, m) \/ ResetTest(t, m, b)
      PROVE  WInv'
  <2>1. \A u \in timers : next'[u] = next[u]
    BY <1>2, <1>t DEF NewTimer, ResetTest, timerVars, IInv, TypeOK, ManagedHasCb
  <2> QED
    BY <1>2, <1>t, <1>s, <2>1, WakeFrame DEF NewTimer, ResetTest, idlerVars, history
<1>3. ASSUME NEW t \in Timers, AddTimer(t) PROVE WInv'
  <2>1. t \notin timers
    BY <1>3 DEF AddTimer, IInv, ManagedHasCb
  <2>2. addTimer(timers, next', t) /\ UNCHANGED <<next, pc, nap, advanced>>
    BY <1>3 DEF AddTimer
  <2> QED
    BY <1>t, <2>1, <2>2, WakeInsert
<1>4. ASSUME NEW t \in Timers, Cancel(t) PROVE WInv'
  BY <1>4, <1>t, <1>s, WakeFrame DEF Cancel, idlerVars
<1>5. ASSUME NEW t \in Timers, Refresh(t) PROVE WInv'
  <2>1. CASE advanced'
    <3>1. UNCHANGED <<pc, nap, tickled, pipe>>
      BY <1>5 DEF Refresh, idlerVars
    <3> QED
      BY <2>1, <3>1 DEF WInv, SleepsUntilFront, TickleArrives, WakesUnlessAdvanced, Asleep
  <2>2. CASE ~advanced'
    <3>1. PICK u \in timers : next[u] = next[t]
      BY <1>5 DEF Refresh, Find
    <3>2. next' = [next EXCEPT ![t] = now + ms[t]] /\ ~(next'[t] < next[t])
      BY <1>5, <1>t, <2>2 DEF Refresh, TypeOK
    <3>3. timers' \subseteq timers \cup {t} /\ \A v \in Timers \ {t} : next'[v] = next[v]
      BY <1>5, <1>t, <3>2 DEF Refresh, Insert, TypeOK
    <3>4. \A v \in timers' : \E w \in timers : next[w] <= next'[v]
      BY <1>t, <3>1, <3>2, <3>3 DEF TypeOK
    <3>5. UNCHANGED <<pc, nap, tickled, pipe>> /\ (advanced => advanced')
      BY <1>5 DEF Refresh, idlerVars
    <3> QED
      BY <1>t, <3>4, <3>5, WakeFrame
  <2> QED BY <2>1, <2>2
<1>6. ASSUME NEW c \in calls, Reset(c) PROVE WInv'
  <2> DEFINE rest == timers \ Find(timers, next, next[c.timer])
  <2>1. /\ addTimer(rest, next', c.timer)
        /\ UNCHANGED <<pc, nap, advanced>>
    BY <1>6 DEF Reset
  <2>2. c.timer \in Timers
    BY <1>6 DEF IInv, CallsLive
  <2>3. \A u \in Timers \ {c.timer} : next'[u] = next[u]
    BY <1>6, <1>t DEF Reset, TypeOK
  <2>4. rest \subseteq timers /\ c.timer \notin rest /\ \A u \in rest : next'[u] = next[u]
    BY <1>t, <2>3 DEF Find
  <2> HIDE DEF rest
  <2> QED
    BY <1>t, <2>1, <2>2, <2>4, WakeInsert
<1>7. ASSUME NEW c \in calls, ResetFails(c) PROVE WInv'
  BY <1>7, <1>t, <1>s, WakeFrame DEF ResetFails, timerVars, idlerVars, history
<1>8. ASSUME NEW i \in Idlers,
             \/ IdleEnter(i) \/ EpollTimeout(i) \/ EpollTickled(i) \/ Drain(i)
             \/ ListExpiredCb(i)
      PROVE  WInv'
  <2>1. /\ ~Asleep(i)' /\ advanced' = advanced
        /\ \A j \in Idlers \ {i} : pc'[j] = pc[j] /\ nap'[j] = nap[j]
    BY <1>8, <1>t DEF IdleEnter, EpollTimeout, EpollTickled, Drain, ListExpiredCb,
                      Asleep, TypeOK, history
  <2> QED
    BY <2>1 DEF WInv, SleepsUntilFront, TickleArrives, WakesUnlessAdvanced,
                SomeoneWakes, Asleep
<1>9. ASSUME NEW i \in Idlers, GetNextTimer(i) PROVE WInv'
  <2> DEFINE over == \E t \in timers : next[t] < now
             front == IF timers = {} THEN now + MAX_TIMEOUT ELSE Front
             wake == now + Min({NextTimer, MAX_TIMEOUT})
             n == [overdue |-> over, front |-> front, wake |-> wake]
  <2>1. nap' = [nap EXCEPT ![i] = n] /\ ~tickled' /\ UNCHANGED <<next, timers>>
    BY <1>9 DEF GetNextTimer, timerVars
  <2>2. ~over => wake <= front
    BY <1>t, NapBound
  <2>3. wake \in Nat /\ front \in Nat
    BY <1>t, NapType, TimesAssumption DEF TypeOK
  <2>4. \A t \in timers : ~over => wake <= next[t]
    <3> SUFFICES ASSUME NEW t \in timers, ~over PROVE wake <= next[t]
      OBVIOUS
    <3>1. front = Front /\ Front <= next[t] /\ next[t] \in Nat
      BY <1>t, FrontFirst DEF TypeOK
    <3> HIDE DEF wake, front, over
    <3> QED BY <2>2, <2>3, <3>1
  <2>5. nap'[i].overdue = over /\ nap'[i].wake = wake /\ nap'[i].front = front
    BY <1>t, <2>1 DEF TypeOK
  <2>6. \A j \in Idlers \ {i} : nap'[j] = nap[j] /\ pc'[j] = pc[j]
    BY <1>9, <1>t, <2>1 DEF GetNextTimer, TypeOK
  <2> HIDE DEF wake, front, over, n
  <2>7. SleepsUntilFront'
    BY <2>2, <2>5, <2>6 DEF WInv, SleepsUntilFront, Asleep
  <2>8. TickleArrives' /\ WakesUnlessAdvanced'
    BY <2>1, <2>4, <2>5 DEF TickleArrives, WakesUnlessAdvanced, SomeoneWakes
  <2> QED BY <2>7, <2>8 DEF WInv
<1> QED
  BY <1>1, <1>2, <1>3, <1>4, <1>5, <1>6, <1>7, <1>8, <1>9 DEF Next, Client, Idler, Undefined

-----------------------------------------------------------------------------
(* Theorems *)

\* IInv is an invariant of the timer manager, its clients and the idle threads.
THEOREM Invariance == Spec => []IInv
<1>1. Init => IInv
  <2> SUFFICES ASSUME Init PROVE IInv
    OBVIOUS
  <2>1. 0 \in Nat /\ Awake \in Nap
    BY DEF Awake, Nap
  <2>2. TypeOK
    BY <2>1 DEF Init, TypeOK
  <2>3. MadeHasCb /\ CallsLive
    BY DEF Init, MadeHasCb, CallsLive
  <2>4. KeysDistinct /\ ManagedHasCb /\ LostOnlyByAliasing
    BY DEF Init, KeysDistinct, ManagedHasCb, LostOnlyByAliasing, Managed
  <2> QED BY <2>2, <2>3, <2>4 DEF IInv
<1>2. IInv /\ [Next]_vars => IInv'
  <2> SUFFICES ASSUME IInv, [Next]_vars PROVE IInv'
    OBVIOUS
  <2>1. TypeOK' /\ MadeHasCb' /\ CallsLive'
    BY TypeStep, CallStep DEF IInv
  <2>2. CASE Next /\ ~undefined
    BY <2>1, <2>2, SetStep DEF IInv
  <2>3. CASE undefined \/ UNCHANGED vars
    <3>1. UNCHANGED vars
      BY <2>3 DEF Next, Undefined
    <3>2. (KeysDistinct /\ ManagedHasCb /\ LostOnlyByAliasing)'
      BY <3>1, SetFrame DEF vars, timerVars, history
    <3> QED BY <2>1, <3>2 DEF IInv
  <2> QED BY <2>2, <2>3
<1> QED
  BY <1>1, <1>2, PTL DEF Spec

\* The fields of the timers, of the manager and of the sleepers keep their types:
\* with the wrapping subtraction of getNextTimer no deadline or timeout is negative.
THEOREM TypeCorrect == Spec => []TypeOK
<1>1. IInv => TypeOK
  BY DEF IInv
<1> QED
  BY <1>1, Invariance, PTL

\* The std::set is never corrupted: no two elements compare equal.
THEOREM SetStaysOrdered == Spec => []KeysDistinct
<1>1. IInv => KeysDistinct
  BY DEF IInv
<1> QED
  BY <1>1, Invariance, PTL

\* A cancelled timer is out of the set for good: listExpiredCb returns no empty
\* callback.
THEOREM CancelSticks == Spec => []ManagedHasCb
<1>1. IInv => ManagedHasCb
  BY DEF IInv
<1> QED
  BY <1>1, Invariance, PTL

\* As long as no two timers met with one deadline, none is lost.
THEOREM OnlyAliasingLosesTimers == Spec => []LostOnlyByAliasing
<1>1. IInv => LostOnlyByAliasing
  BY DEF IInv
<1> QED
  BY <1>1, Invariance, PTL

\* erase(end()) is executed only by cancel() on a timer that has fired, or after
\* two timers met with one deadline.
THEOREM CancelUndefinedOnlyAfterExpiry == Spec => []UndefinedOnlyAfterExpiry
<1>1. Init => UndefinedOnlyAfterExpiry
  BY DEF Init, UndefinedOnlyAfterExpiry
<1>2. IInv /\ UndefinedOnlyAfterExpiry /\ [Next]_vars => UndefinedOnlyAfterExpiry'
  <2> SUFFICES ASSUME IInv, UndefinedOnlyAfterExpiry, [Next]_vars, undefined'
               PROVE  aliased' \/ \E t \in fired' : ~cb'[t]
    BY DEF UndefinedOnlyAfterExpiry
  <2>1. CASE UNCHANGED vars
    BY <2>1 DEF vars, timerVars, history, UndefinedOnlyAfterExpiry
  <2>2. ASSUME NEW t \in Timers, Cancel(t), ~undefined
        PROVE  aliased' \/ \E u \in fired' : ~cb'[u]
    <3>1. /\ t \notin timers /\ cb' = [cb EXCEPT ![t] = FALSE] /\ fired' = fired
          /\ life[t] = "live" /\ cb[t] /\ (aliased => aliased')
      BY <2>2 DEF Cancel, Find
    <3>2. aliased \/ t \in fired
      BY <2>2, <3>1 DEF IInv, LostOnlyByAliasing, Managed
    <3> QED BY <3>1, <3>2 DEF IInv, TypeOK
  <2>3. ~UNCHANGED vars => ~undefined /\ \E t \in Timers : Cancel(t)
    BY DEF Next, Client, Idler, Undefined, Tick, NewTimer, ResetTest, AddTimer, Refresh,
           Reset, ResetFails, IdleEnter, GetNextTimer, EpollTimeout, EpollTickled,
           ListExpiredCb, Drain, history
  <2> QED BY <2>1, <2>2, <2>3
<1> QED
  BY <1>1, <1>2, Invariance, PTL DEF Spec

\* The sleeping half of the invariant.
THEOREM Waking == Spec => []WInv
<1>1. Init => WInv
  BY DEF Init, WInv, SleepsUntilFront, TickleArrives, WakesUnlessAdvanced, SomeoneWakes, Asleep
<1>2. IInv /\ IInv' /\ WInv /\ [Next]_vars => WInv'
  BY WakeStep DEF IInv
<1> QED
  BY <1>1, <1>2, Invariance, PTL DEF Spec

\* No idle thread sleeps past the deadline it asked for, unless it was overdue.
THEOREM NoOversleeping == Spec => []SleepsUntilFront
<1>1. WInv => SleepsUntilFront
  BY DEF WInv
<1> QED
  BY <1>1, Waking, PTL

\* The tickled_ flag and the pipe lose no wake-up, except after refresh() brought
\* a deadline nearer.
THEOREM NoLostWakeup == Spec => []WakesUnlessAdvanced
<1>1. WInv => WakesUnlessAdvanced
  BY DEF WInv
<1> QED
  BY <1>1, Waking, PTL

-----------------------------------------------------------------------------
(* What has fired *)

FiredInv == (\A t \in fired : life[t] = "live") /\ FiresOnce

LEMMA FiredStep ==
    ASSUME IInv, FiredInv, [Next]_vars
    PROVE  FiredInv'
<1>t. /\ life \in [Timers -> {"none", "made", "live"}] /\ timers \subseteq Timers /\ fired \subseteq Timers
      /\ \A t \in timers : life[t] = "live"
  BY DEF IInv, TypeOK, ManagedHasCb
<1>f. ASSUME fired' = fired, aliased => aliased', timers' \subseteq timers,
             \A t \in Timers : life[t] = "live" => life'[t] = "live"
      PROVE  FiredInv'
  BY <1>f, <1>t DEF FiredInv, FiresOnce
<1>1. CASE Tick \/ UNCHANGED vars
  BY <1>1, <1>f DEF Tick, vars, timerVars, history
<1>2. ASSUME NEW t \in Timers, NEW m \in Periods, NEW b \in BOOLEAN,
             NewTimer(t, m) \/ ResetTest(t, m, b)
      PROVE  FiredInv'
  BY <1>2, <1>t, <1>f DEF NewTimer, ResetTest, timerVars, history
<1>3. ASSUME NEW t \in Timers, AddTimer(t)
      PROVE  FiredInv'
  <2>1. /\ life[t] = "made" /\ life' = [life EXCEPT ![t] = "live"] /\ fired' = fired
        /\ timers' \subseteq timers \cup {t} /\ (aliased => aliased')
    BY <1>3 DEF AddTimer, addTimer, Insert
  <2>2. t \notin fired
    BY <2>1 DEF FiredInv
  <2> QED BY <1>t, <2>1, <2>2 DEF FiredInv, FiresOnce
<1>4. ASSUME NEW t \in Timers, Cancel(t)
      PROVE  FiredInv'
  BY <1>4, <1>f DEF Cancel
\* Without another timer at that deadline find() returns the timer itself, which is in
\* timers_ then and has not fired.
<1>5. ASSUME NEW t \in Timers, NEW rest, rest = timers \ Find(timers, next, next[t]),
             Find(timers, next, next[t]) # {}, NEW d, timers' = Insert(rest, d, t),
             aliased' = (aliased \/ Meets(timers, next, t) \/ Meets(rest, d, t)),
             UNCHANGED <<life, fired>>
      PROVE  FiredInv'
  <2>1. timers' \subseteq timers \cup {t}
    BY <1>5 DEF Insert
  <2>2. ~aliased' => t \in timers
    BY <1>5 DEF Find, Meets
  <2> QED BY <1>5, <2>1, <2>2 DEF FiredInv, FiresOnce
<1>6. ASSUME NEW t \in Timers, Refresh(t)
      PROVE  FiredInv'
  <2>1. PICK rest : rest = timers \ Find(timers, next, next[t])
    OBVIOUS
  <2>2. /\ Find(timers, next, next[t]) # {}
        /\ timers' = Insert(rest, next', t)
        /\ aliased' = (aliased \/ Meets(timers, next, t) \/ Meets(rest, next', t))
        /\ UNCHANGED <<life, fired>>
    BY <1>6, <2>1 DEF Refresh
  <2>3. PICK d : d = next'
    OBVIOUS
  <2> QED BY <1>5, <2>1, <2>2, <2>3
<1>7. ASSUME NEW c \in calls, Reset(c)
      PROVE  FiredInv'
  <2>0. c.timer \in Timers
    BY DEF IInv, CallsLive
  <2>1. PICK rest : rest = timers \ Find(timers, next, next[c.timer])
    OBVIOUS
  <2>2. /\ Find(timers, next, next[c.timer]) # {}
        /\ timers' = Insert(rest, next', c.timer)
        /\ aliased' = (aliased \/ Meets(timers, next, c.timer) \/ Meets(rest, next', c.timer))
        /\ UNCHANGED <<life, fired>>
    BY <1>7, <2>1 DEF Reset, addTimer
  <2>3. PICK d : d = next'
    OBVIOUS
  <2> QED BY <1>5, <2>0, <2>1, <2>2, <2>3
<1>8. ASSUME NEW c \in calls, ResetFails(c)
      PROVE  FiredInv'
  BY <1>8, <1>f DEF ResetFails, timerVars, history
<1>9. ASSUME NEW i \in Idlers,
             \/ IdleEnter(i) \/ GetNextTimer(i) \/ EpollTimeout(i) \/ EpollTickled(i)
             \/ Drain(i)
      PROVE  FiredInv'
  BY <1>9, <1>f DEF IdleEnter, GetNextTimer, EpollTimeout, EpollTickled, Drain, timerVars, history
<1>10. ASSUME NEW i \in Idlers, ListExpiredCb(i)
       PROVE  FiredInv'
  <2>1. /\ timers' = (timers \ Expired) \cup Reinserted
        /\ fired' = fired \cup (Expired \ Recurring)
        /\ life' = life /\ (aliased => aliased')
    BY <1>10 DEF ListExpiredCb
  <2>2. Reinserted \subseteq Expired \cap Recurring /\ Expired \subseteq timers
    BY DEF Reinserted, Expired
  <2> QED BY <1>t, <2>1, <2>2 DEF FiredInv, FiresOnce
<1> QED
  BY <1>1, <1>2, <1>3, <1>4, <1>6, <1>7, <1>8, <1>9, <1>10, NextCases

\* The callback of a one-shot timer is handed out once, whatever refresh() and reset()
\* are called before and after, unless another timer had its deadline.
THEOREM OneShotFiresOnce == Spec => []FiresOnce
<1>1. Init => FiredInv
  BY DEF Init, FiredInv, FiresOnce
<1>2. IInv /\ FiredInv /\ [Next]_vars => FiredInv'
  BY FiredStep
<1>3. FiredInv => FiresOnce
  BY DEF FiredInv
<1> QED
  BY <1>1, <1>2, <1>3, Invariance, PTL DEF Spec
=============================================================================
