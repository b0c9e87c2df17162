-------------------------- MODULE IOSchedulerProofs --------------------------
(***************************************************************************)
(* Theorems about IOScheduler, for any number of workers and jobs: jobs    *)
(* are neither lost nor doubled, n_pendingEvent_ never says too little,    *)
(* and the last worker to end leaves nothing behind.                       *)
(***************************************************************************)
EXTENDS IOScheduler, ListFacts, FiniteSetTheorems

-----------------------------------------------------------------------------
(* The inductive invariant *)

Labels == {"take", "run", "ret", "idlecheck", "exit", "timers", "pending", "final", "sleep",
           "expired", "handle", "dec"}

Types ==
    /\ list \in Seq(Jobs)
    /\ place \in [Jobs -> Places]
    /\ holder \in [Jobs -> Workers \cup {Owner}] /\ exec \in [Jobs -> Workers \cup {Owner}]
    /\ pc \in [Workers -> Labels]
    /\ term \subseteq Workers
    /\ try_stop \in BOOLEAN /\ slipped \in BOOLEAN

\* The list holds what was scheduled, once each.
Listed == IsInjective(list) /\ ToSet(list) = In(Queued)

\* What a worker works on, and what nothing may be left of in the end.
Worked == InHand \cup {"cbs"}
Busy   == Queued \cup InHand \cup Expired

\* What a worker has in hand, and where it is with it.
Hands ==
    /\ \A j \in Jobs : place[j] \in InHand => holder[j] \in Workers /\ pc[holder[j]] = "run"
    /\ \A j, k \in Jobs :
          place[j] \in InHand /\ place[k] \in InHand /\ holder[j] = holder[k] => j = k
    /\ \A w \in Workers : pc[w] = "run" => \E j \in Jobs : place[j] \in InHand /\ holder[j] = w
    /\ \A j \in Jobs : place[j] = "cbs" => holder[j] \in Workers /\ pc[holder[j]] = "handle"

\* The workers between triggerEvent and --n_pendingEvent_.
Owing == {w \in Workers : pc[w] = "dec"}

Counted ==
    /\ IsFiniteSet(In(Eventful))
    /\ n_pending = Cardinality(In(Eventful)) + Cardinality(Owing)

\* What a worker has read of stopping() is still true, unless something slipped.
Checks ==
    \A w \in Workers : ~slipped =>
        /\ pc[w] \in {"pending", "final"} => In(Timed) = {}
        /\ pc[w] = "final" => In(Eventful) = {}

\* A worker whose idle fiber has ended takes what there is, and leaves.  When the last
\* one ended nothing was left.
Ended ==
    /\ \A w \in term : pc[w] \in {"take", "run", "ret", "idlecheck", "exit"}
    /\ \A w \in Workers : pc[w] = "exit" => w \in term
    /\ term # {} => try_stop
    /\ Workers \subseteq term => /\ In(Busy) = {}
                                 /\ ~slipped => In(Eventful \cup Timed) = {}

IInv == Types /\ Listed /\ Hands /\ Counted /\ Checks /\ Ended

-----------------------------------------------------------------------------
(* The list *)

LEMMA ListedKept ==
    ASSUME Listed, list' = list, \A k \in Jobs : place'[k] \in Queued <=> place[k] \in Queued
    PROVE  Listed'
<1>1. In(Queued)' = In(Queued)
  BY DEF In, Queued
<1> QED BY <1>1 DEF Listed

\* schedule() of what is not in the list.
LEMMA ListedPush ==
    ASSUME Types, Listed, NEW j \in Jobs, place[j] \notin Queued, NEW p \in Queued,
           list' = Append(list, j), place' = [place EXCEPT ![j] = p]
    PROVE  Listed' /\ list' \in Seq(Jobs) /\ place' \in [Jobs -> Places]
<1>1. list \in Seq(Jobs) /\ j \notin ToSet(list)
  BY DEF Types, Listed, In
<1>2. /\ list' \in Seq(Jobs) /\ ToSet(list') = ToSet(list) \cup {j} /\ IsInjective(list')
  BY <1>1, AppendFacts DEF Listed
<1>3. In(Queued)' = In(Queued) \cup {j}
  BY DEF In, Types, Queued
<1>4. place' \in [Jobs -> Places]
  BY DEF Types, Places, Queued, Expired
<1> QED BY <1>2, <1>3, <1>4 DEF Listed

-----------------------------------------------------------------------------
(* What steps of one kind have in common *)

LEMMA HandsKept ==
    ASSUME Types, Hands,
           \A k \in Jobs : place'[k] \in Worked =>
              /\ place'[k] = place[k] /\ holder'[k] = holder[k] /\ pc'[holder[k]] = pc[holder[k]],
           \A k \in Jobs : place[k] \in InHand /\ pc'[holder[k]] = "run" =>
              place'[k] \in InHand /\ holder'[k] = holder[k],
           \A v \in Workers : pc'[v] = "run" => pc[v] = "run"
    PROVE  Hands'
<1>1. \A k \in Jobs : place'[k] \in InHand => holder'[k] \in Workers /\ pc'[holder'[k]] = "run"
  BY DEF Hands, Worked
<1>2. \A j, k \in Jobs :
         place'[j] \in InHand /\ place'[k] \in InHand /\ holder'[j] = holder'[k] => j = k
  BY DEF Hands, Worked
<1>3. \A v \in Workers : pc'[v] = "run" => \E j \in Jobs : place'[j] \in InHand /\ holder'[j] = v
  BY DEF Hands
<1>4. \A k \in Jobs : place'[k] = "cbs" => holder'[k] \in Workers /\ pc'[holder'[k]] = "handle"
  BY DEF Hands, Worked
<1>5. InHand' = InHand
  BY DEF InHand
<1> QED BY <1>1, <1>2, <1>3, <1>4, <1>5 DEF Hands

LEMMA CountedKept ==
    ASSUME Counted, n_pending' = n_pending,
           \A k \in Jobs : place'[k] \in Eventful <=> place[k] \in Eventful,
           \A v \in Workers : pc'[v] = "dec" <=> pc[v] = "dec"
    PROVE  Counted'
<1>1. In(Eventful)' = In(Eventful) /\ Owing' = Owing
  BY DEF In, Eventful, Owing
<1> QED BY <1>1 DEF Counted

LEMMA ChecksKept ==
    ASSUME Checks, slipped => slipped',
           \A k \in Jobs : place'[k] \in Timed => place[k] \in Timed,
           \A k \in Jobs : place'[k] \in Eventful => place[k] \in Eventful,
           \A v \in Workers : pc'[v] \in {"pending", "final"} => pc[v] = pc'[v]
    PROVE  Checks'
<1>1. In(Timed)' \subseteq In(Timed) /\ In(Eventful)' \subseteq In(Eventful)
  BY DEF In, Timed, Eventful
<1> QED BY <1>1 DEF Checks

LEMMA EndedKept ==
    ASSUME Ended, term' = term, try_stop => try_stop', slipped => slipped',
           \A v \in term : pc'[v] \in {"take", "run", "ret", "idlecheck", "exit"},
           \A v \in Workers : pc'[v] = "exit" => pc[v] = "exit" \/ v \in term,
           Workers \subseteq term => \A k \in Jobs :
              /\ place'[k] \in Busy => place[k] \in Busy
              /\ place'[k] \in Eventful \cup Timed => place[k] \in Eventful \cup Timed
    PROVE  Ended'
<1>1. Workers \subseteq term => /\ In(Busy)' \subseteq In(Busy)
                                /\ In(Eventful \cup Timed)' \subseteq In(Eventful \cup Timed)
  BY DEF In, Timed, Eventful
<1> QED BY <1>1 DEF Ended

\* Only the place of w in its loop changes.
LEMMA PcStep ==
    ASSUME IInv, NEW w \in Workers, NEW l \in Labels, pc' = [pc EXCEPT ![w] = l],
           UNCHANGED <<list, place, holder, n_pending, term, try_stop>>,
           exec' \in [Jobs -> Workers \cup {Owner}], slipped' \in BOOLEAN, slipped => slipped',
           pc[w] \notin {"run", "dec"}, l \notin {"run", "dec"},
           pc[w] = "handle" => Held(w, "cbs") = {},
           ~slipped' /\ l \in {"pending", "final"} => In(Timed) = {},
           ~slipped' /\ l = "final" => In(Eventful) = {},
           w \in term => l \in {"take", "run", "ret", "idlecheck", "exit"},
           l = "exit" => w \in term
    PROVE  IInv'
<1> USE DEF IInv
<1>1. pc' \in [Workers -> Labels] /\ pc'[w] = l /\ \A v \in Workers : v # w => pc'[v] = pc[v]
  BY DEF Types
<1>2. Types'
  BY <1>1 DEF Types
<1>3. Listed'
  BY ListedKept
<1>4. Hands'
  <2>1. \A k \in Jobs : place[k] \in Worked => holder[k] \in Workers /\ holder[k] # w
    BY DEF Hands, Held, Worked
  <2> QED BY <1>1, <2>1, HandsKept
<1>5. Counted'
  BY <1>1, CountedKept
<1>6. Checks'
  <2>1. In(Timed)' = In(Timed) /\ In(Eventful)' = In(Eventful)
    BY DEF In
  <2> QED BY <1>1, <2>1 DEF Checks
<1>7. Ended'
  <2>1. \A v \in term : pc'[v] \in {"take", "run", "ret", "idlecheck", "exit"}
    BY <1>1 DEF Ended, Types
  <2> QED BY <1>1, <2>1, EndedKept
<1> QED BY <1>2, <1>3, <1>4, <1>5, <1>6, <1>7

\* Neither the jobs nor the workers move.
LEMMA QuietStep ==
    ASSUME IInv, UNCHANGED <<workVars, pc, term, slipped>>,
           try_stop' \in BOOLEAN, try_stop => try_stop'
    PROVE  IInv'
<1> USE DEF IInv, workVars
<1>1. Types'
  BY DEF Types
<1>2. Listed' /\ Hands'
  BY ListedKept, HandsKept
<1>3. Counted' /\ Checks'
  BY CountedKept, ChecksKept
<1>4. Ended'
  BY EndedKept DEF Ended
<1> QED BY <1>1, <1>2, <1>3, <1>4

-----------------------------------------------------------------------------
(* The owner and the environment *)

LEMMA ScheduleOutsideStep ==
    ASSUME IInv, NEW j \in Jobs, ScheduleOutside(j)
    PROVE  IInv'
<1> USE DEF IInv
<1>1. /\ ~try_stop /\ place[j] = "out" /\ list' = Append(list, j)
      /\ place' = [place EXCEPT ![j] = "list"]
      /\ UNCHANGED <<holder, n_pending, pc, term, try_stop, slipped>>
  BY DEF ScheduleOutside, schedule, idleVars
<1>e. exec' = exec
  BY DEF ScheduleOutside
<1>2. Listed' /\ list' \in Seq(Jobs) /\ place' \in [Jobs -> Places]
  BY <1>1, ListedPush DEF Queued
<1>3. place'[j] = "list" /\ \A k \in Jobs : k # j => place'[k] = place[k]
  BY <1>1 DEF Types
<1>4. Types'
  BY <1>1, <1>e, <1>2 DEF Types
<1>5. Hands'
  BY <1>1, <1>3, HandsKept DEF Worked, InHand
<1>6. Counted' /\ Checks'
  BY <1>1, <1>3, CountedKept, ChecksKept DEF Eventful, Timed
<1>7. Ended'
  <2>1. ~(Workers \subseteq term)
    BY <1>1, WorkersAssumption DEF Ended
  <2> QED BY <1>1, <2>1, EndedKept DEF Ended
<1> QED BY <1>2, <1>4, <1>5, <1>6, <1>7

LEMMA EnvironmentStep ==
    ASSUME IInv, NEW j \in Jobs, EventOccurs(j) \/ TimerDue(j)
    PROVE  IInv'
<1> USE DEF IInv
<1>1. PICK p : /\ \/ place[j] = "event" /\ p = "ready"
                  \/ place[j] = "timer" /\ p = "due"
               /\ place' = [place EXCEPT ![j] = p]
  BY DEF EventOccurs, TimerDue
<1>2. UNCHANGED <<list, holder, exec, n_pending, pc, term, try_stop, slipped>>
  BY DEF EventOccurs, TimerDue, idleVars
<1>3. /\ place' \in [Jobs -> Places] /\ place'[j] = p
      /\ \A k \in Jobs : k # j => place'[k] = place[k]
  BY <1>1 DEF Types, Places, Eventful, Timed
<1>4. /\ p \in Eventful <=> place[j] \in Eventful
      /\ p \in Timed <=> place[j] \in Timed
      /\ p \in Eventful \cup Timed
      /\ p \notin Busy \cup Worked \cup InHand \cup Queued
      /\ place[j] \notin Busy \cup Worked \cup InHand \cup Queued
  BY <1>1 DEF Eventful, Timed, Busy, Worked, InHand, Queued, Expired
<1>5. Types'
  BY <1>2, <1>3 DEF Types
<1>6. Listed' /\ Hands'
  BY <1>2, <1>3, <1>4, ListedKept, HandsKept
<1>7. Counted' /\ Checks'
  BY <1>2, <1>3, <1>4, CountedKept, ChecksKept
<1>8. Ended'
  <2>1. place[j] \in Eventful \cup Timed
    BY <1>4
  <2> QED BY <1>2, <1>3, <1>4, <2>1, EndedKept DEF Ended
<1> QED BY <1>5, <1>6, <1>7, <1>8

-----------------------------------------------------------------------------
(* The jobs *)

LEMMA TakeStep ==
    ASSUME IInv, NEW w \in Workers, Take(w)
    PROVE  IInv'
<1> USE DEF IInv
<1>1. PICK n \in DOMAIN list :
         /\ list' = RemoveAt(list, n)
         /\ place' = [place EXCEPT ![list[n]] = IF place[list[n]] = "list" THEN "run" ELSE "waking"]
         /\ holder' = [holder EXCEPT ![list[n]] = w]
         /\ exec' = [exec EXCEPT ![list[n]] = IF place[list[n]] = "list" THEN w ELSE exec[list[n]]]
  BY DEF Take
<1>u. /\ pc[w] = "take" /\ pc' = [pc EXCEPT ![w] = "run"]
      /\ UNCHANGED <<n_pending, term, try_stop, slipped>>
  BY DEF Take, At, Goto, idleVars
<1>2. /\ list \in Seq(Jobs) /\ n \in 1 .. Len(list) /\ list[n] \in Jobs /\ list[n] \in ToSet(list)
      /\ list' \in Seq(Jobs) /\ IsInjective(list') /\ ToSet(list') = ToSet(list) \ {list[n]}
  <2>1. list \in Seq(Jobs) /\ n \in 1 .. Len(list) /\ list[n] \in Jobs
    BY DEF Types
  <2>2. list[n] \in ToSet(list)
    BY DEF ToSet
  <2> QED BY <1>1, <2>1, <2>2, RemoveAtFacts DEF Listed
<1>3. PICK j \in Jobs : j = list[n]
  BY <1>2
<1>4. place[j] \in Queued
  BY <1>2, <1>3 DEF Listed, In
<1>5. /\ place' \in [Jobs -> Places] /\ place'[j] \in InHand
      /\ holder' \in [Jobs -> Workers \cup {Owner}] /\ holder'[j] = w
      /\ exec' \in [Jobs -> Workers \cup {Owner}]
      /\ \A k \in Jobs : k # j => place'[k] = place[k] /\ holder'[k] = holder[k]
  BY <1>1, <1>3 DEF Types, Places, Expired, InHand
<1>6. /\ pc' \in [Workers -> Labels] /\ pc'[w] = "run"
      /\ \A v \in Workers : v # w => pc'[v] = pc[v]
  BY <1>u DEF Types, Labels
<1>7. Types'
  BY <1>u, <1>2, <1>5, <1>6 DEF Types
<1>k. \A p \in InHand : p \notin Queued \cup Eventful \cup Timed
  BY DEF InHand, Queued, Eventful, Timed
<1>8. Listed'
  <2>1. In(Queued)' = In(Queued) \ {j}
    BY <1>5, <1>k DEF In, Queued
  <2> QED BY <1>2, <1>3, <2>1 DEF Listed
<1>9. Hands'
  <2>1. \A k \in Jobs : k # j /\ place'[k] \in Worked =>
           /\ place[k] = place'[k] /\ holder'[k] = holder[k]
           /\ holder[k] \in Workers \ {w} /\ pc'[holder[k]] = pc[holder[k]]
    BY <1>u, <1>5, <1>6 DEF Hands, Worked
  <2>2. \A k \in Jobs : place'[k] \in InHand => holder'[k] \in Workers /\ pc'[holder'[k]] = "run"
    BY <1>5, <1>6, <2>1 DEF Hands, Worked
  <2>3. \A i, k \in Jobs :
           place'[i] \in InHand /\ place'[k] \in InHand /\ holder'[i] = holder'[k] => i = k
    BY <1>5, <2>1 DEF Hands, Worked
  <2>4. ASSUME NEW v \in Workers, pc'[v] = "run"
        PROVE  \E k \in Jobs : place'[k] \in InHand /\ holder'[k] = v
    <3>1. CASE v = w
      BY <1>5, <3>1
    <3>2. CASE v # w
      <4>1. PICK k \in Jobs : place[k] \in InHand /\ holder[k] = v
        BY <1>6, <2>4, <3>2 DEF Hands
      <4> QED BY <1>4, <1>5, <1>k, <4>1
    <3> QED BY <3>1, <3>2
  <2>5. \A k \in Jobs : place'[k] = "cbs" => holder'[k] \in Workers /\ pc'[holder'[k]] = "handle"
    BY <1>5, <2>1 DEF Hands, Worked, InHand
  <2>6. InHand' = InHand
    BY DEF InHand
  <2> QED BY <2>2, <2>3, <2>4, <2>5, <2>6 DEF Hands
<1>10. Counted'
  BY <1>u, <1>4, <1>5, <1>6, <1>k, CountedKept DEF Eventful, Queued
<1>11. Checks'
  BY <1>u, <1>5, <1>6, <1>k, ChecksKept
<1>12. Ended'
  <2>1. \A v \in term : pc'[v] \in {"take", "run", "ret", "idlecheck", "exit"}
    BY <1>6 DEF Ended, Types
  <2>2. \A k \in Jobs :
           /\ place'[k] \in Busy => place[k] \in Busy
           /\ place'[k] \in Eventful \cup Timed => place[k] \in Eventful \cup Timed
    BY <1>4, <1>5, <1>k DEF Busy
  <2> QED BY <1>u, <1>6, <2>1, <2>2, EndedKept
<1> QED BY <1>7, <1>8, <1>9, <1>10, <1>11, <1>12

\* While a job runs not all workers have ended.
LEMMA SomebodyIsLeft ==
    ASSUME IInv, NEW j \in Jobs, place[j] \in Busy
    PROVE  ~(Workers \subseteq term)
BY DEF IInv, Ended, In

LEMMA JobSchedulesStep ==
    ASSUME IInv, NEW w \in Workers, NEW j \in Jobs, NEW k \in Jobs, JobSchedules(w, j, k)
    PROVE  IInv'
<1> USE DEF IInv
<1>e. exec' = exec
  BY DEF JobSchedules
<1>1. /\ place[j] = "run" /\ place[k] = "out" /\ list' = Append(list, k)
      /\ place' = [place EXCEPT ![k] = "list"]
      /\ UNCHANGED <<holder, n_pending, pc, term, try_stop, slipped>>
  BY DEF JobSchedules, Running, schedule, idleVars
<1>2. Listed' /\ list' \in Seq(Jobs) /\ place' \in [Jobs -> Places]
  BY <1>1, ListedPush DEF Queued
<1>3. place'[k] = "list" /\ \A i \in Jobs : i # k => place'[i] = place[i]
  BY <1>1 DEF Types
<1>4. Types'
  BY <1>1, <1>e, <1>2 DEF Types
<1>5. Hands'
  BY <1>1, <1>3, HandsKept DEF Worked, InHand
<1>6. Counted' /\ Checks'
  BY <1>1, <1>3, CountedKept, ChecksKept DEF Eventful, Timed
<1>7. Ended'
  BY <1>1, SomebodyIsLeft, EndedKept DEF Ended, Busy, InHand
<1> QED BY <1>2, <1>4, <1>5, <1>6, <1>7

\* A job gives its worker back, and is done or waits.
LEMMA LeaveStep ==
    ASSUME IInv, NEW w \in Workers, NEW j \in Jobs, NEW p \in {"done", "event", "timer", "stranded"},
           Running(w, j), place' = [place EXCEPT ![j] = p],
           holder' = [holder EXCEPT ![j] = Owner], pc' = [pc EXCEPT ![w] = "ret"],
           UNCHANGED <<list, exec, term, try_stop>>, slipped' \in BOOLEAN, slipped => slipped'
    PROVE  /\ Types' /\ Listed' /\ Hands' /\ Ended'
           /\ p # "event" /\ n_pending' = n_pending => Counted'
           /\ p = "event" /\ n_pending' = n_pending + 1 => Counted'
           /\ p \in {"done", "stranded"} => Checks'
           /\ slipped' \/ ~Checking(w) => Checks'
<1> USE DEF IInv
<1>1. pc[w] = "run" /\ place[j] = "run" /\ holder[j] = w
  BY DEF Running, At
<1>2. /\ place' \in [Jobs -> Places] /\ place'[j] = p
      /\ holder' \in [Jobs -> Workers \cup {Owner}] /\ holder'[j] = Owner
      /\ \A k \in Jobs : k # j => place'[k] = place[k] /\ holder'[k] = holder[k]
  BY DEF Types, Places, Eventful, Timed
<1>3. /\ pc' \in [Workers -> Labels] /\ pc'[w] = "ret"
      /\ \A v \in Workers : v # w => pc'[v] = pc[v]
  BY DEF Types, Labels
<1>4. Types'
  BY <1>2, <1>3 DEF Types
<1>k. p \notin Queued \cup Worked \cup Busy /\ place[j] \in InHand /\ place[j] \in Busy \ Queued
  BY <1>1 DEF Queued, Worked, Busy, InHand, Expired
<1>5. Listed'
  BY <1>2, <1>k, ListedKept
<1>6. Hands'
  <2>1. \A k \in Jobs : k # j /\ place[k] \in Worked => holder[k] \in Workers \ {w}
    BY <1>1, <1>k DEF Hands, Worked
  <2>2. \A k \in Jobs : place'[k] \in Worked =>
           /\ place'[k] = place[k] /\ holder'[k] = holder[k] /\ pc'[holder[k]] = pc[holder[k]]
    BY <1>2, <1>3, <1>k, <2>1
  <2>3. \A k \in Jobs : place[k] \in InHand /\ pc'[holder[k]] = "run" =>
           place'[k] \in InHand /\ holder'[k] = holder[k]
    BY <1>1, <1>2, <1>3
  <2> QED BY <1>3, <2>2, <2>3, HandsKept
<1>7. Ended'
  <2>1. \A v \in term : pc'[v] \in {"take", "run", "ret", "idlecheck", "exit"}
    BY <1>3 DEF Ended, Types
  <2> QED BY <1>k, <1>3, <2>1, SomebodyIsLeft, EndedKept
<1>8. Owing' = Owing
  BY <1>1, <1>3 DEF Owing
<1>9. p # "event" /\ n_pending' = n_pending => Counted'
  <2>1. p # "event" => In(Eventful)' = In(Eventful)
    BY <1>1, <1>2 DEF In, Eventful
  <2> QED BY <1>8, <2>1 DEF Counted
<1>10. p = "event" /\ n_pending' = n_pending + 1 => Counted'
  <2> SUFFICES ASSUME p = "event", n_pending' = n_pending + 1 PROVE Counted'
    OBVIOUS
  <2>1. In(Eventful)' = In(Eventful) \cup {j} /\ j \notin In(Eventful)
    BY <1>1, <1>2 DEF In, Eventful
  <2>2. /\ IsFiniteSet(In(Eventful) \cup {j})
        /\ Cardinality(In(Eventful) \cup {j}) = Cardinality(In(Eventful)) + 1
    BY <2>1, FS_AddElement DEF Counted
  <2>3. Cardinality(In(Eventful)) \in Nat /\ Cardinality(Owing) \in Nat
    <3>1. IsFiniteSet(Owing)
      BY FS_Subset, WorkersAssumption DEF Owing
    <3> QED BY <3>1, FS_CardinalityType DEF Counted
  <2> QED BY <1>8, <2>1, <2>2, <2>3 DEF Counted
<1>11. p \in {"done", "stranded"} => Checks'
  BY <1>2, <1>3, ChecksKept DEF Eventful, Timed
<1>12. slipped' \/ ~Checking(w) => Checks'
  BY <1>3 DEF Checks, Checking
<1> QED BY <1>4, <1>5, <1>6, <1>7, <1>9, <1>10, <1>11, <1>12

LEMMA JobEndsStep ==
    ASSUME IInv, NEW w \in Workers, NEW j \in Jobs, JobEnds(w, j)
    PROVE  IInv'
<1>1. /\ Running(w, j) /\ place' = [place EXCEPT ![j] = "done"]
      /\ holder' = [holder EXCEPT ![j] = Owner] /\ pc' = [pc EXCEPT ![w] = "ret"]
      /\ UNCHANGED <<list, exec, term, try_stop>> /\ n_pending' = n_pending
      /\ slipped' \in BOOLEAN /\ (slipped => slipped')
  BY DEF JobEnds, Goto, idleVars, IInv, Types
<1>2. Types' /\ Listed' /\ Hands' /\ Ended' /\ Counted' /\ Checks'
  BY <1>1, LeaveStep
<1> QED BY <1>2 DEF IInv

LEMMA JobAwaitsEventStep ==
    ASSUME IInv, NEW w \in Workers, NEW j \in Jobs, JobAwaitsEvent(w, j)
    PROVE  IInv'
<1>1. /\ Running(w, j) /\ place' = [place EXCEPT ![j] = "event"]
      /\ holder' = [holder EXCEPT ![j] = Owner] /\ pc' = [pc EXCEPT ![w] = "ret"]
      /\ UNCHANGED <<list, exec, term, try_stop>> /\ n_pending' = n_pending + 1
      /\ slipped' = (slipped \/ Checking(w))
  BY DEF JobAwaitsEvent, Goto, idleVars
<1>2. slipped' \in BOOLEAN /\ (slipped => slipped') /\ (slipped' \/ ~Checking(w))
  BY <1>1 DEF IInv, Types
<1>3. Types' /\ Listed' /\ Hands' /\ Ended' /\ Counted' /\ Checks'
  BY <1>1, <1>2, LeaveStep
<1> QED BY <1>3 DEF IInv

LEMMA JobAwaitsTimerStep ==
    ASSUME IInv, NEW w \in Workers, NEW j \in Jobs, JobAwaitsTimer(w, j)
    PROVE  IInv'
<1>0. PICK p \in {"timer", "stranded"} : place' = [place EXCEPT ![j] = p]
  BY DEF JobAwaitsTimer
<1>1. /\ Running(w, j)
      /\ holder' = [holder EXCEPT ![j] = Owner] /\ pc' = [pc EXCEPT ![w] = "ret"]
      /\ UNCHANGED <<list, exec, term, try_stop>> /\ n_pending' = n_pending
      /\ slipped' = (slipped \/ Checking(w))
  BY DEF JobAwaitsTimer, Goto, idleVars
<1>2. slipped' \in BOOLEAN /\ (slipped => slipped') /\ (slipped' \/ ~Checking(w))
  BY <1>1 DEF IInv, Types
<1>3. Types' /\ Listed' /\ Hands' /\ Ended' /\ Counted' /\ Checks'
  BY <1>0, <1>1, <1>2, LeaveStep
<1> QED BY <1>3 DEF IInv

\* The job gives nothing back: another's timer is gone, or an event will not come.
LEMMA LoseStep ==
    ASSUME IInv, NEW k \in Jobs, NEW p,
           \/ place[k] \in Timed /\ p = "stranded"
           \/ place[k] = "got" /\ p = "lost",
           place' = [place EXCEPT ![k] = p],
           UNCHANGED <<list, holder, exec, n_pending, pc, term, try_stop, slipped>>
    PROVE  IInv'
<1> USE DEF IInv
<1>1. /\ place' \in [Jobs -> Places] /\ place'[k] = p
      /\ \A i \in Jobs : i # k => place'[i] = place[i]
  BY DEF Types, Places, Eventful
<1>2. /\ p \notin Queued \cup Worked \cup Busy \cup Timed
      /\ place[k] \notin Queued \cup InHand
      /\ p \in Eventful <=> place[k] \in Eventful
  BY DEF Queued, Worked, Busy, InHand, Expired, Timed, Eventful
<1>3. \A i \in Jobs : /\ place'[i] \in Queued <=> place[i] \in Queued
                      /\ place'[i] \in Eventful <=> place[i] \in Eventful
                      /\ place'[i] \in Timed => place[i] \in Timed
                      /\ place'[i] \in Worked \cup Busy => place'[i] = place[i]
                      /\ place[i] \in InHand => place'[i] = place[i]
  BY <1>1, <1>2
<1>4. Types' /\ Listed'
  BY <1>1, <1>3, ListedKept DEF Types
<1>5. Hands'
  BY <1>3, HandsKept
<1>6. Counted' /\ Checks'
  BY <1>3, CountedKept, ChecksKept
<1>7. Ended'
  BY <1>3, EndedKept DEF Ended
<1> QED BY <1>4, <1>5, <1>6, <1>7

LEMMA CallbackStep ==
    ASSUME IInv, NEW w \in Workers, NEW k \in Jobs, Callback(w, k)
    PROVE  IInv'
<1> USE DEF IInv
<1>1. /\ pc[w] = "run" /\ place[k] = "waking" /\ holder[k] = w /\ list' = Append(list, k)
      /\ place' = [place EXCEPT ![k] = "list"] /\ holder' = [holder EXCEPT ![k] = Owner]
      /\ pc' = [pc EXCEPT ![w] = "ret"]
      /\ UNCHANGED <<exec, n_pending, term, try_stop, slipped>>
  BY DEF Callback, At, Goto, schedule, idleVars
<1>k. place[k] \in InHand /\ place[k] \in Busy /\ place[k] \notin Queued
  BY <1>1 DEF InHand, Busy, Queued
<1>2. Listed' /\ list' \in Seq(Jobs) /\ place' \in [Jobs -> Places]
  BY <1>1, <1>k, ListedPush DEF Queued
<1>3. /\ place'[k] = "list" /\ holder' \in [Jobs -> Workers \cup {Owner}]
      /\ \A i \in Jobs : i # k => place'[i] = place[i] /\ holder'[i] = holder[i]
  BY <1>1 DEF Types
<1>4. /\ pc' \in [Workers -> Labels] /\ pc'[w] = "ret"
      /\ \A v \in Workers : v # w => pc'[v] = pc[v]
  BY <1>1 DEF Types, Labels
<1>5. Types'
  BY <1>1, <1>2, <1>3, <1>4 DEF Types
<1>6. Hands'
  <2>1. \A i \in Jobs : i # k /\ place[i] \in Worked => holder[i] \in Workers \ {w}
    BY <1>1, <1>k DEF Hands, Worked
  <2>2. \A i \in Jobs : place'[i] \in Worked =>
           /\ place'[i] = place[i] /\ holder'[i] = holder[i] /\ pc'[holder[i]] = pc[holder[i]]
    BY <1>3, <1>4, <2>1 DEF Worked, InHand
  <2>3. \A i \in Jobs : place[i] \in InHand /\ pc'[holder[i]] = "run" =>
           place'[i] \in InHand /\ holder'[i] = holder[i]
    BY <1>1, <1>3, <1>4
  <2> QED BY <1>4, <2>2, <2>3, HandsKept
<1>7. Counted' /\ Checks'
  BY <1>1, <1>3, <1>4, CountedKept, ChecksKept DEF Eventful, Timed
<1>8. Ended'
  <2>1. \A v \in term : pc'[v] \in {"take", "run", "ret", "idlecheck", "exit"}
    BY <1>4 DEF Ended, Types
  <2> QED BY <1>1, <1>4, <1>k, <2>1, SomebodyIsLeft, EndedKept
<1> QED BY <1>2, <1>5, <1>6, <1>7, <1>8

-----------------------------------------------------------------------------
(* The idle fiber *)

LEMMA ReadPendingStep ==
    ASSUME IInv, NEW w \in Workers, ReadPending(w)
    PROVE  IInv'
<1>1. /\ pc[w] = "pending"
      /\ pc' = [pc EXCEPT ![w] = IF n_pending = 0 THEN "final" ELSE "sleep"]
      /\ UNCHANGED <<list, place, holder, exec, n_pending, term, try_stop, slipped>>
  BY DEF ReadPending, At, Goto, workVars, idleVars
<1>2. n_pending = 0 => In(Eventful) = {}
  <2>1. IsFiniteSet(Owing) /\ IsFiniteSet(In(Eventful))
    BY FS_Subset, WorkersAssumption DEF Owing, IInv, Counted
  <2>2. Cardinality(In(Eventful)) \in Nat /\ Cardinality(Owing) \in Nat
    BY <2>1, FS_CardinalityType
  <2>3. n_pending = 0 => Cardinality(In(Eventful)) = 0
    BY <2>2 DEF IInv, Counted
  <2> QED BY <2>1, <2>3, FS_EmptySet
<1>3. w \notin term /\ exec \in [Jobs -> Workers \cup {Owner}] /\ slipped \in BOOLEAN /\ (~slipped => In(Timed) = {})
  BY <1>1 DEF IInv, Ended, Types, Checks
<1>4. CASE n_pending = 0
  BY <1>1, <1>2, <1>3, <1>4, PcStep DEF Labels
<1>5. CASE n_pending # 0
  BY <1>1, <1>3, <1>5, PcStep DEF Labels
<1> QED BY <1>4, <1>5

LEMMA ReadTimersStep ==
    ASSUME IInv, NEW w \in Workers, ReadTimers(w)
    PROVE  IInv'
<1>1. /\ pc[w] = "timers"
      /\ UNCHANGED <<list, place, holder, exec, n_pending, term, try_stop>>
      /\ \/ In(Timed) = {} /\ pc' = [pc EXCEPT ![w] = "pending"] /\ slipped' = slipped
         \/ pc' = [pc EXCEPT ![w] = "sleep"] /\ slipped' = slipped
         \/ pc' = [pc EXCEPT ![w] = "pending"] /\ slipped' = TRUE
  BY DEF ReadTimers, At, Goto, workVars, idleVars
<1>2. w \notin term /\ exec \in [Jobs -> Workers \cup {Owner}] /\ slipped \in BOOLEAN
  BY <1>1 DEF IInv, Ended, Types
<1>3. CASE In(Timed) = {} /\ pc' = [pc EXCEPT ![w] = "pending"] /\ slipped' = slipped
  BY <1>1, <1>2, <1>3, PcStep DEF Labels
<1>4. CASE pc' = [pc EXCEPT ![w] = "sleep"] /\ slipped' = slipped
  BY <1>1, <1>2, <1>4, PcStep DEF Labels
<1>5. CASE pc' = [pc EXCEPT ![w] = "pending"] /\ slipped' = TRUE
  BY <1>1, <1>2, <1>5, PcStep DEF Labels
<1> QED BY <1>1, <1>3, <1>4, <1>5

\* The other steps that only move w on.
LEMMA LoopStep ==
    ASSUME IInv, NEW w \in Workers,
           TakeNothing(w) \/ Return(w) \/ IdleCall(w) \/ EpollInterrupted(w) \/ IdleYeild(w)
    PROVE  IInv'
<1>1. slipped \in BOOLEAN /\ exec \in [Jobs -> Workers \cup {Owner}]
  BY DEF IInv, Types
<1>2. CASE TakeNothing(w) \/ Return(w)
  <2>1. /\ pc' = [pc EXCEPT ![w] = "idlecheck"] /\ pc[w] \in {"take", "ret"}
        /\ UNCHANGED <<list, place, holder, n_pending, term, try_stop, slipped>>
    BY <1>2 DEF TakeNothing, Return, At, Goto, workVars, idleVars
  <2>2. exec' \in [Jobs -> Workers \cup {Owner}]
    BY <1>1, <1>2 DEF TakeNothing, Return, workVars
  <2> QED BY <1>1, <2>1, <2>2, PcStep DEF Labels
<1>3. CASE IdleCall(w)
  <2>1. /\ pc' = [pc EXCEPT ![w] = IF w \in term THEN "exit" ELSE "timers"] /\ pc[w] = "idlecheck"
        /\ UNCHANGED <<list, place, holder, exec, n_pending, term, try_stop, slipped>>
    BY <1>3 DEF IdleCall, At, Goto, workVars, idleVars
  <2>2. CASE w \in term
    BY <1>1, <2>1, <2>2, PcStep DEF Labels
  <2>3. CASE w \notin term
    BY <1>1, <2>1, <2>3, PcStep DEF Labels
  <2> QED BY <2>2, <2>3
<1>4. CASE EpollInterrupted(w)
  <2>1. /\ pc' = [pc EXCEPT ![w] = "timers"] /\ pc[w] = "sleep"
        /\ UNCHANGED <<list, place, holder, exec, n_pending, term, try_stop, slipped>>
    BY <1>4 DEF EpollInterrupted, At, Goto, workVars
  <2>2. w \notin term
    BY <2>1 DEF IInv, Ended
  <2> QED BY <1>1, <2>1, <2>2, PcStep DEF Labels
<1>5. CASE IdleYeild(w)
  <2>1. /\ pc' = [pc EXCEPT ![w] = "take"] /\ pc[w] = "handle" /\ Held(w, "cbs") = {}
        /\ UNCHANGED <<list, place, holder, exec, n_pending, term, try_stop, slipped>>
    BY <1>5 DEF IdleYeild, At, Goto, workVars, idleVars
  <2> QED BY <1>1, <2>1, PcStep DEF Labels
<1> QED BY <1>2, <1>3, <1>4, <1>5

LEMMA EpollWaitStep ==
    ASSUME IInv, NEW w \in Workers, EpollWait(w)
    PROVE  IInv'
<1> USE DEF IInv
<1>1. PICK p \in {"lost", "got"}, l \in {"timers", "expired"} :
         /\ place' = [j \in Jobs |-> IF place[j] = "ready" THEN p ELSE place[j]]
         /\ pc' = [pc EXCEPT ![w] = l]
  BY DEF EpollWait, Goto, In
<1>2. /\ pc[w] = "sleep"
      /\ holder' = [j \in Jobs |-> IF place[j] = "ready" /\ ~Continues(w) THEN w ELSE holder[j]]
      /\ UNCHANGED <<list, exec, n_pending, term, try_stop, slipped>>
  BY DEF EpollWait, At, In
<1>3. /\ place' \in [Jobs -> Places]
      /\ \A k \in Jobs : \/ place[k] = "ready" /\ place'[k] = p
                         \/ place[k] # "ready" /\ place'[k] = place[k] /\ holder'[k] = holder[k]
  BY <1>1, <1>2 DEF Types, Places, Eventful
<1>4. holder' \in [Jobs -> Workers \cup {Owner}]
  BY <1>2 DEF Types
<1>5. /\ pc' \in [Workers -> Labels] /\ pc'[w] = l
      /\ \A v \in Workers : v # w => pc'[v] = pc[v]
  BY <1>1 DEF Types, Labels
<1>6. Types'
  BY <1>2, <1>3, <1>4, <1>5 DEF Types
<1>k. {p, "ready"} \cap (Queued \cup InHand \cup Worked \cup Busy) = {}
  BY DEF Queued, InHand, Worked, Busy, Expired
<1>7. Listed'
  BY <1>2, <1>3, <1>k, ListedKept
<1>8. Hands'
  <2>1. \A k \in Jobs : place[k] \in Worked => holder[k] \in Workers \ {w}
    BY <1>2 DEF Hands, Worked
  <2>2. \A k \in Jobs : /\ place'[k] \in Worked => place'[k] = place[k] /\ holder'[k] = holder[k]
                        /\ place[k] \in InHand => place'[k] = place[k] /\ holder'[k] = holder[k]
    BY <1>3, <1>k
  <2> QED BY <1>2, <1>5, <2>1, <2>2, HandsKept
<1>9. \A k \in Jobs : /\ place'[k] \in Eventful <=> place[k] \in Eventful
                      /\ place'[k] \in Timed <=> place[k] \in Timed
                      /\ place'[k] \in Busy => place'[k] = place[k]
  BY <1>3, <1>k DEF Eventful, Timed
<1>10. Counted' /\ Checks'
  BY <1>2, <1>5, <1>9, CountedKept, ChecksKept
<1>11. Ended'
  <2>1. w \notin term
    BY <1>2 DEF Ended
  <2> QED BY <1>2, <1>5, <2>1, EndedKept DEF Ended, Types
<1> QED BY <1>6, <1>7, <1>8, <1>10, <1>11

LEMMA ListExpiredStep ==
    ASSUME IInv, NEW w \in Workers, ListExpired(w)
    PROVE  IInv'
<1> USE DEF IInv
<1>1. /\ pc[w] = "expired" /\ pc' = [pc EXCEPT ![w] = "handle"]
      /\ place' = [j \in Jobs |-> IF place[j] = "due" THEN "cbs" ELSE place[j]]
      /\ holder' = [j \in Jobs |-> IF place[j] = "due" THEN w ELSE holder[j]]
      /\ UNCHANGED <<list, exec, n_pending, term, try_stop, slipped>>
  BY DEF ListExpired, At, Goto, idleVars
<1>2. /\ place' \in [Jobs -> Places] /\ holder' \in [Jobs -> Workers \cup {Owner}]
      /\ \A k \in Jobs :
            \/ place[k] = "due" /\ place'[k] = "cbs" /\ holder'[k] = w
            \/ place[k] # "due" /\ place'[k] = place[k] /\ holder'[k] = holder[k]
  BY <1>1 DEF Types, Places, Expired
<1>3. /\ pc' \in [Workers -> Labels] /\ pc'[w] = "handle"
      /\ \A v \in Workers : v # w => pc'[v] = pc[v]
  BY <1>1 DEF Types, Labels
<1>4. Types'
  BY <1>1, <1>2, <1>3 DEF Types
<1>k. /\ {"due", "cbs"} \cap (Queued \cup InHand \cup Eventful) = {} /\ "cbs" \in Worked /\ "due" \notin Worked
      /\ Worked \ {"cbs"} = InHand
  BY DEF Queued, InHand, Worked, Eventful
<1>5. Listed'
  BY <1>1, <1>2, <1>k, ListedKept
<1>6. Hands'
  <2>1. \A k \in Jobs : place[k] \in Worked =>
           holder[k] \in Workers \ {w} /\ pc'[holder[k]] = pc[holder[k]]
    BY <1>1, <1>3 DEF Hands, Worked
  <2>i. \A k \in Jobs : place'[k] \in InHand <=> place[k] \in InHand
    BY <1>2, <1>k
  <2>2. \A k \in Jobs : place'[k] \in InHand => holder'[k] \in Workers /\ pc'[holder'[k]] = "run"
    BY <1>2, <1>k, <2>1 DEF Hands
  <2>3. \A i, k \in Jobs :
           place'[i] \in InHand /\ place'[k] \in InHand /\ holder'[i] = holder'[k] => i = k
    BY <1>2, <1>k DEF Hands
  <2>4. \A v \in Workers : pc'[v] = "run" => \E k \in Jobs : place'[k] \in InHand /\ holder'[k] = v
    <3> SUFFICES ASSUME NEW v \in Workers, pc'[v] = "run"
                 PROVE  \E k \in Jobs : place'[k] \in InHand /\ holder'[k] = v
      OBVIOUS
    <3>1. PICK k \in Jobs : place[k] \in InHand /\ holder[k] = v
      BY <1>3 DEF Hands
    <3> QED BY <1>2, <1>k, <3>1
  <2>5. \A k \in Jobs : place'[k] = "cbs" => holder'[k] \in Workers /\ pc'[holder'[k]] = "handle"
    BY <1>2, <1>3, <1>k, <2>1 DEF Hands
  <2>6. InHand' = InHand
    BY DEF InHand
  <2> QED BY <2>2, <2>3, <2>4, <2>5, <2>6 DEF Hands
<1>7. Counted' /\ Checks'
  <2>1. \A k \in Jobs : /\ place'[k] \in Eventful <=> place[k] \in Eventful
                        /\ place'[k] \in Timed => place[k] \in Timed
    BY <1>2, <1>k DEF Timed
  <2> QED BY <1>1, <1>3, <2>1, CountedKept, ChecksKept
<1>8. Ended'
  <2>1. w \notin term
    BY <1>1 DEF Ended
  <2> QED BY <1>1, <1>3, <2>1, EndedKept DEF Ended, Types
<1> QED BY <1>4, <1>5, <1>6, <1>7, <1>8

LEMMA ScheduleExpiredStep ==
    ASSUME IInv, NEW w \in Workers, NEW j \in Jobs, ScheduleExpired(w, j)
    PROVE  IInv'
<1> USE DEF IInv
<1>1. /\ place[j] = "cbs" /\ list' = Append(list, j)
      /\ place' = [place EXCEPT ![j] = "cblist"] /\ holder' = [holder EXCEPT ![j] = Owner]
      /\ UNCHANGED <<exec, n_pending, pc, term, try_stop, slipped>>
  BY DEF ScheduleExpired, Held, schedule, idleVars
<1>2. Listed' /\ list' \in Seq(Jobs) /\ place' \in [Jobs -> Places]
  BY <1>1, ListedPush DEF Queued
<1>3. /\ place'[j] = "cblist" /\ holder' \in [Jobs -> Workers \cup {Owner}]
      /\ \A k \in Jobs : k # j => place'[k] = place[k] /\ holder'[k] = holder[k]
  BY <1>1 DEF Types
<1>4. Types'
  BY <1>1, <1>2, <1>3 DEF Types
<1>5. Hands'
  BY <1>1, <1>3, HandsKept DEF Worked, InHand
<1>6. Counted' /\ Checks'
  BY <1>1, <1>3, CountedKept, ChecksKept DEF Eventful, Timed
<1>7. Ended'
  BY <1>1, SomebodyIsLeft, EndedKept DEF Ended, Busy, Expired
<1> QED BY <1>2, <1>4, <1>5, <1>6, <1>7

LEMMA CountsAreNat ==
    ASSUME IInv
    PROVE  /\ IsFiniteSet(In(Eventful)) /\ Cardinality(In(Eventful)) \in Nat
           /\ IsFiniteSet(Owing) /\ Cardinality(Owing) \in Nat
<1>1. IsFiniteSet(Owing) /\ IsFiniteSet(In(Eventful))
  BY FS_Subset, WorkersAssumption DEF Owing, IInv, Counted
<1> QED BY <1>1, FS_CardinalityType

LEMMA TriggerEventStep ==
    ASSUME IInv, NEW w \in Workers, NEW j \in Jobs, TriggerEvent(w, j)
    PROVE  IInv'
<1> USE DEF IInv
<1>1. /\ pc[w] = "handle" /\ Held(w, "cbs") = {} /\ place[j] = "got"
      /\ list' = Append(list, j)
      /\ place' = [place EXCEPT ![j] = "list"] /\ holder' = [holder EXCEPT ![j] = Owner]
      /\ pc' = [pc EXCEPT ![w] = "dec"]
      /\ UNCHANGED <<exec, n_pending, term, try_stop, slipped>>
  BY DEF TriggerEvent, At, Goto, Held, schedule, idleVars
<1>2. Listed' /\ list' \in Seq(Jobs) /\ place' \in [Jobs -> Places]
  BY <1>1, ListedPush DEF Queued
<1>3. /\ place'[j] = "list" /\ holder' \in [Jobs -> Workers \cup {Owner}]
      /\ \A k \in Jobs : k # j => place'[k] = place[k] /\ holder'[k] = holder[k]
  BY <1>1 DEF Types
<1>4. /\ pc' \in [Workers -> Labels] /\ pc'[w] = "dec"
      /\ \A v \in Workers : v # w => pc'[v] = pc[v]
  BY <1>1 DEF Types, Labels
<1>5. Types'
  BY <1>1, <1>2, <1>3, <1>4 DEF Types
<1>6. Hands'
  <2>1. \A k \in Jobs : place[k] \in Worked => holder[k] \in Workers \ {w}
    BY <1>1 DEF Hands, Held, Worked
  <2> QED BY <1>1, <1>3, <1>4, <2>1, HandsKept DEF Worked, InHand
<1>7. Counted'
  <2>1. /\ In(Eventful)' = In(Eventful) \ {j} /\ j \in In(Eventful)
        /\ Owing' = Owing \cup {w} /\ w \notin Owing
    BY <1>1, <1>3, <1>4 DEF In, Eventful, Owing
  <2>2. /\ IsFiniteSet(In(Eventful) \ {j})
        /\ Cardinality(In(Eventful) \ {j}) = Cardinality(In(Eventful)) - 1
    BY <2>1, CountsAreNat, FS_RemoveElement
  <2>3. Cardinality(Owing \cup {w}) = Cardinality(Owing) + 1
    BY <2>1, CountsAreNat, FS_AddElement
  <2> QED BY <1>1, <2>1, <2>2, <2>3, CountsAreNat DEF Counted
<1>8. Checks'
  BY <1>1, <1>3, <1>4, ChecksKept DEF Eventful, Timed
<1>9. Ended'
  <2>1. w \notin term
    BY <1>1 DEF Ended
  <2> QED BY <1>1, <1>4, <2>1, EndedKept DEF Ended, Types
<1> QED BY <1>2, <1>5, <1>6, <1>7, <1>8, <1>9

LEMMA DecrementStep ==
    ASSUME IInv, NEW w \in Workers, Decrement(w)
    PROVE  IInv'
<1> USE DEF IInv
<1>1. /\ pc[w] = "dec" /\ pc' = [pc EXCEPT ![w] = "handle"] /\ n_pending' = n_pending - 1
      /\ UNCHANGED <<list, place, holder, exec, term, try_stop, slipped>>
  BY DEF Decrement, At, Goto, idleVars
<1>2. /\ pc' \in [Workers -> Labels] /\ pc'[w] = "handle"
      /\ \A v \in Workers : v # w => pc'[v] = pc[v]
  BY <1>1 DEF Types, Labels
<1>3. Types' /\ Listed'
  BY <1>1, <1>2, ListedKept DEF Types
<1>4. Hands'
  <2>1. \A k \in Jobs : place[k] \in Worked => holder[k] \in Workers \ {w}
    BY <1>1 DEF Hands, Worked
  <2> QED BY <1>1, <1>2, <2>1, HandsKept DEF Worked
<1>5. Counted'
  <2>1. In(Eventful)' = In(Eventful) /\ Owing' = Owing \ {w} /\ w \in Owing
    BY <1>1, <1>2 DEF In, Owing
  <2>2. Cardinality(Owing \ {w}) = Cardinality(Owing) - 1
    BY <2>1, CountsAreNat, FS_RemoveElement
  <2> QED BY <1>1, <2>1, <2>2, CountsAreNat DEF Counted
<1>6. Checks'
  BY <1>1, <1>2, ChecksKept
<1>7. Ended'
  <2>1. w \notin term
    BY <1>1 DEF Ended
  <2> QED BY <1>1, <1>2, <2>1, EndedKept DEF Ended, Types
<1> QED BY <1>3, <1>4, <1>5, <1>6, <1>7

\* stopping() holds for a worker when the others have ended: nothing is left.
LEMMA NothingLeft ==
    ASSUME IInv, NEW w \in Workers, pc[w] = "final", stopping, Workers \subseteq term \cup {w}
    PROVE  /\ In(Busy) = {}
           /\ ~slipped => In(Eventful \cup Timed) = {}
<1> USE DEF IInv
<1>1. \A j \in Jobs : place[j] \notin Queued
  <2>1. ToSet(list) = {}
    BY DEF stopping, ToSet
  <2> QED BY <2>1 DEF Listed, In
<1>2. \A j \in Jobs : place[j] \notin InHand
  <2> DEFINE A == {v \in Workers : pc[v] \in {"run", "ret"}}
  <2>1. IsFiniteSet(A)
    BY FS_Subset, WorkersAssumption
  <2>2. Cardinality(A) = 0
    BY DEF stopping, n_active
  <2>3. A = {}
    <3> HIDE DEF A
    <3> QED BY <2>1, <2>2, FS_EmptySet
  <2> QED BY <2>3 DEF Hands
<1>3. \A j \in Jobs : place[j] # "cbs"
  <2>1. \A v \in Workers : pc[v] # "handle"
    BY DEF Ended
  <2> QED BY <2>1 DEF Hands
<1>4. ~slipped => In(Eventful \cup Timed) = {}
  <2>1. ~slipped => In(Eventful) = {} /\ In(Timed) = {}
    BY DEF Checks
  <2> QED BY <2>1 DEF In
<1>5. Busy = Queued \cup InHand \cup {"cbs"}
  BY DEF Busy, Queued, InHand, Expired
<1> QED BY <1>1, <1>2, <1>3, <1>4, <1>5 DEF In

LEMMA FinalStep ==
    ASSUME IInv, NEW w \in Workers, Final(w)
    PROVE  IInv'
<1> USE DEF IInv
<1>1. /\ pc[w] = "final" /\ pc' = [pc EXCEPT ![w] = IF stopping THEN "take" ELSE "sleep"]
      /\ term' = IF stopping THEN term \cup {w} ELSE term
      /\ UNCHANGED <<list, place, holder, exec, n_pending, try_stop, slipped>>
  BY DEF Final, At, Goto, workVars
<1>2. slipped \in BOOLEAN /\ w \notin term /\ exec \in [Jobs -> Workers \cup {Owner}]
  BY <1>1 DEF Types, Ended
<1>3. CASE ~stopping
  BY <1>1, <1>2, <1>3, PcStep DEF Labels
<1>4. CASE stopping
  <2>1. /\ pc' \in [Workers -> Labels] /\ pc'[w] = "take" /\ term' = term \cup {w}
        /\ \A v \in Workers : v # w => pc'[v] = pc[v]
    BY <1>1, <1>4 DEF Types, Labels
  <2>2. UNCHANGED <<list, place, holder, exec, n_pending, try_stop, slipped>>
    BY <1>1
  <2>3. Types' /\ Listed'
    BY <2>1, <2>2, ListedKept DEF Types
  <2>4. Hands'
    <3>1. \A k \in Jobs : place[k] \in Worked => holder[k] \in Workers \ {w}
      BY <1>1 DEF Hands, Worked
    <3> QED BY <2>1, <2>2, <3>1, HandsKept DEF Worked
  <2>5. Counted' /\ Checks'
    BY <1>1, <2>1, <2>2, CountedKept, ChecksKept
  <2>6. Ended'
    <3>1. \A v \in term' : pc'[v] \in {"take", "run", "ret", "idlecheck", "exit"}
      BY <2>1 DEF Ended, Types
    <3>2. \A v \in Workers : pc'[v] = "exit" => v \in term'
      BY <2>1 DEF Ended
    <3>3. try_stop'
      BY <1>4, <2>2 DEF stopping
    <3>4. In(Busy)' = In(Busy)
          /\ In(Eventful \cup Timed)' = In(Eventful \cup Timed)
      BY <2>2 DEF In, Busy, Queued, InHand, Expired, Eventful, Timed
    <3>5. Workers \subseteq term' => /\ In(Busy) = {}
                                     /\ ~slipped => In(Eventful \cup Timed) = {}
      BY <1>1, <1>4, <2>1, NothingLeft
    <3> QED BY <2>2, <3>1, <3>2, <3>3, <3>4, <3>5 DEF Ended
  <2> QED BY <2>3, <2>4, <2>5, <2>6
<1> QED BY <1>3, <1>4

-----------------------------------------------------------------------------
(* The theorems *)

LEMMA Start == Init => IInv
<1> SUFFICES ASSUME Init PROVE IInv
  OBVIOUS
<1> USE DEF Init
<1>1. Types
  <2>1. list \in Seq(Jobs)
    OBVIOUS
  <2>2. place \in [Jobs -> Places] /\ pc \in [Workers -> Labels]
    BY DEF Places, Labels
  <2>3. holder \in [Jobs -> Workers \cup {Owner}] /\ exec \in [Jobs -> Workers \cup {Owner}]
    OBVIOUS
  <2> QED BY <2>1, <2>2, <2>3 DEF Types
<1>2. Listed
  <2>1. ToSet(list) = {} /\ IsInjective(list)
    BY DEF ToSet, IsInjective
  <2>2. In(Queued) = {}
    BY DEF In, Queued
  <2> QED BY <2>1, <2>2 DEF Listed
<1>3. Hands
  BY DEF Hands, InHand
<1>4. Counted
  <2>1. In(Eventful) = {} /\ Owing = {}
    BY DEF In, Eventful, Owing
  <2> QED BY <2>1, FS_EmptySet DEF Counted
<1>5. Checks
  BY DEF Checks
<1>6. Ended
  BY WorkersAssumption DEF Ended
<1> QED BY <1>1, <1>2, <1>3, <1>4, <1>5, <1>6 DEF IInv

LEMMA NextStep == IInv /\ [Next]_vars => IInv'
<1> SUFFICES ASSUME IInv, [Next]_vars PROVE IInv'
  OBVIOUS
<1>1. try_stop \in BOOLEAN
  BY DEF IInv, Types
<1>2. CASE UNCHANGED vars
  BY <1>1, <1>2, QuietStep DEF vars, idleVars
<1>3. CASE Stop \/ StopTickle \/ \E a : Tickle(a)
  BY <1>1, <1>3, QuietStep DEF Stop, StopTickle, Tickle, idleVars
<1>4. CASE \E j \in Jobs : ScheduleOutside(j)
  BY <1>4, ScheduleOutsideStep
<1>5. CASE Environment
  BY <1>5, EnvironmentStep DEF Environment
<1>6. ASSUME NEW w \in Workers, Work(w) \/ EpollInterrupted(w)
      PROVE  IInv'
  <2>1. CASE Tickle(w) \/ Drain(w)
    BY <1>1, <1>3, <2>1, QuietStep DEF Drain
  <2>2. CASE Take(w)
    BY <2>2, TakeStep
  <2>3. CASE TakeNothing(w) \/ Return(w) \/ IdleCall(w) \/ EpollInterrupted(w) \/ IdleYeild(w)
    BY <2>3, LoopStep
  <2>4. ASSUME NEW j \in Jobs, Job(w, j)
        PROVE  IInv'
    <3>1. ASSUME NEW k \in Jobs, CancelErases(w, j, k)
          PROVE  IInv'
      BY <3>1, LoseStep DEF CancelErases, idleVars
    <3> QED BY <2>4, <3>1, JobEndsStep, JobAwaitsEventStep, JobAwaitsTimerStep, JobSchedulesStep DEF Job
  <2>5. ASSUME NEW j \in Jobs,
               Callback(w, j) \/ ScheduleExpired(w, j) \/ TriggerEvent(w, j) \/ TriggerRefused(w, j)
        PROVE  IInv'
    <3>1. ASSUME TriggerRefused(w, j)
          PROVE  IInv'
      BY <3>1, LoseStep DEF TriggerRefused, Held, idleVars
    <3> QED BY <2>5, <3>1, CallbackStep, ScheduleExpiredStep, TriggerEventStep
  <2>6. CASE ReadTimers(w) \/ ReadPending(w) \/ Final(w)
    BY <2>6, ReadTimersStep, ReadPendingStep, FinalStep
  <2>7. CASE EpollWait(w) \/ ListExpired(w) \/ Decrement(w)
    BY <2>7, EpollWaitStep, ListExpiredStep, DecrementStep
  <2> QED BY <1>6, <2>1, <2>2, <2>3, <2>4, <2>5, <2>6, <2>7 DEF Work
<1> QED BY <1>2, <1>3, <1>4, <1>5, <1>6 DEF Next, Client, Joined

\* What Scheduler::run and IOManager::idle keep true together: the list, what the workers
\* have in hand, n_pendingEvent_, what a worker has read of stopping(), and what the last
\* worker left behind when its idle fiber ended.
THEOREM Inductive == Spec => []IInv
BY Start, NextStep, PTL DEF Spec

LEMMA OnceInList ==
    ASSUME IInv, NEW j \in Jobs
    PROVE  Cardinality({i \in DOMAIN list : list[i] = j}) = IF place[j] \in Queued THEN 1 ELSE 0
<1> USE DEF IInv
<1> DEFINE I == {i \in DOMAIN list : list[i] = j}
<1>1. CASE place[j] \in Queued
  <2>1. PICK n \in DOMAIN list : list[n] = j
    BY <1>1 DEF Listed, In, ToSet
  <2>2. I = {n}
    BY <2>1 DEF Listed, IsInjective
  <2>3. Cardinality(I) = 1
    <3> HIDE DEF I
    <3> QED BY <2>2, FS_Singleton
  <2> QED BY <1>1, <2>3
<1>2. CASE place[j] \notin Queued
  <2>1. I = {}
    BY <1>2 DEF Listed, In, ToSet
  <2>2. Cardinality(I) = 0
    <3> HIDE DEF I
    <3> QED BY <2>1, FS_EmptySet
  <2> QED BY <1>2, <2>2
<1> QED BY <1>1, <1>2

LEMMA OnceInHand ==
    ASSUME IInv, NEW w \in Workers
    PROVE  Cardinality({j \in In(InHand) : holder[j] = w}) = IF pc[w] = "run" THEN 1 ELSE 0
<1> USE DEF IInv
<1>1. CASE pc[w] = "run"
  <2>1. PICK j \in Jobs : place[j] \in InHand /\ holder[j] = w
    BY <1>1 DEF Hands
  <2>2. {i \in In(InHand) : holder[i] = w} = {j}
    BY <2>1 DEF Hands, In
  <2> QED BY <1>1, <2>2, FS_Singleton
<1>2. CASE pc[w] # "run"
  <2>1. {i \in In(InHand) : holder[i] = w} = {}
    BY <1>2 DEF Hands, In
  <2> QED BY <1>2, <2>1, FS_EmptySet
<1> QED BY <1>1, <1>2

\* However schedule() from outside, from a running fiber, from the expired timers and from
\* the events interleaves with the workers that take from fiber_list_, a fiber is in the
\* list exactly while it is scheduled and not taken, once, and a worker that runs has
\* exactly one fiber.
THEOREM AlwaysOncePerJob == Spec => []OncePerJob
<1>1. IInv => OncePerJob
  BY OnceInList, OnceInHand DEF OncePerJob
<1> QED BY <1>1, Inductive, PTL

\* idle() schedules a fiber before it decrements n_pendingEvent_, and addEvent increments
\* it with the wait: at no moment does the counter fall below the fibers that wait.
THEOREM PendingAlwaysCovers == Spec => []PendingCovers
<1>1. IInv => PendingCovers
  <2> SUFFICES ASSUME IInv PROVE PendingCovers
    OBVIOUS
  <2> QED BY CountsAreNat DEF IInv, Counted, PendingCovers
<1> QED BY <1>1, Inductive, PTL

\* IOManager::stopping is not atomic, and its answer is old when a worker acts on it; yet
\* when every worker has left run() no fiber is in the list or half-way, and none waits
\* unless one began to wait in the middle of some worker's check or was overdue by exactly
\* one millisecond then, or waits for a timer that addTimer dropped or a cancel() erased.
THEOREM StopAlwaysLeavesNothing == Spec => []StopLeavesNothing
<1>1. IInv => StopLeavesNothing
  BY DEF IInv, Ended, StopLeavesNothing, Exited, Busy
<1> QED BY <1>1, Inductive, PTL

-----------------------------------------------------------------------------
(* IOManager implements FiberPool, which Scheduler implements too.         *)

Queue     == In({"list"})
OnWorkers == {r \in Workers \X Jobs : place[r[2]] = "run" /\ holder[r[2]] = r[1]}
WaitsFor  == Eventful \cup Timed \cup Expired \cup {"stranded"}
Waits     == In(WaitsFor)
Over      == In({"done"})
Gone      == {w \in Workers : pc[w] = "exit"}
Gap       == slipped \/ In({"stranded"}) # {}

\* What waits is neither queued, nor runs, nor is done.
LEMMA WaitsApart == \A p \in WaitsFor : p \notin {"out", "list", "run", "done"}
BY DEF WaitsFor, Eventful, Timed, Expired

\* Steps that leave every job where a caller sees it.
LEMMA PoolSame ==
    ASSUME \A k \in Jobs : /\ place'[k] = "list" <=> place[k] = "list"
                           /\ place'[k] = "run" <=> place[k] = "run"
                           /\ place'[k] = "done" <=> place[k] = "done"
                           /\ place'[k] \in WaitsFor <=> place[k] \in WaitsFor
                           /\ place[k] = "run" => holder'[k] = holder[k],
           \A v \in Workers : pc'[v] = "exit" <=> pc[v] = "exit"
    PROVE  UNCHANGED <<Queue, OnWorkers, Waits, Over, Gone>>
<1>1. UNCHANGED <<Queue, Waits, Over>>
  BY DEF Queue, Waits, WaitsFor, Over, In
<1>2. UNCHANGED <<OnWorkers, Gone>>
  BY DEF OnWorkers, Gone
<1> QED BY <1>1, <1>2

LEMMA PoolStutters ==
    ASSUME UNCHANGED <<Queue, OnWorkers, Waits, Over, Gone, try_stop>>
    PROVE  /\ (Gap' <=> Gap) => UNCHANGED Pool!pvars
           /\ Gap' => Pool!Overlook
BY DEF Queue, OnWorkers, Waits, WaitsFor, Over, Gone, Gap, Pool!pvars, Pool!Overlook

LEMMA GapKept ==
    ASSUME \A k \in Jobs : place[k] = "stranded" => place'[k] = "stranded", slipped => slipped'
    PROVE  Gap => Gap'
BY DEF Gap, In

LEMMA GapSame ==
    ASSUME \A k \in Jobs : place'[k] = "stranded" <=> place[k] = "stranded", slipped' = slipped
    PROVE  Gap' <=> Gap
BY DEF Gap, In

LEMMA PoolNew ==
    ASSUME IInv
    PROVE  /\ \A j \in Jobs : place[j] = "out" => j \in Pool!New
           /\ \A w \in Workers : pc[w] \notin {"run", "exit"} => Pool!Free(w)
<1>1. ASSUME NEW j \in Jobs, place[j] = "out" PROVE j \in Pool!New
  BY <1>1 DEF Pool!New, Pool!Started, In, Eventful, Timed, Expired
<1>2. ASSUME NEW w \in Workers, pc[w] \notin {"run", "exit"} PROVE Pool!Free(w)
  BY <1>2 DEF Pool!Free, IInv, Hands, InHand
<1> QED BY <1>1, <1>2

\* schedule() of a new job, by the owner or by a job.
LEMMA PoolSubmit ==
    ASSUME IInv, NEW j \in Jobs, place[j] = "out", place' = [place EXCEPT ![j] = "list"],
           UNCHANGED <<holder, pc, try_stop, slipped>>
    PROVE  Pool!Submit(j)
<1>1. place \in [Jobs -> Places]
  BY DEF IInv, Types
<1>2. Queue' = Queue \cup {j} /\ Waits' = Waits /\ Over' = Over
  BY <1>1 DEF Queue, Waits, WaitsFor, Over, In, Eventful, Timed, Expired
<1>3. OnWorkers' = OnWorkers /\ Gone' = Gone
  BY <1>1 DEF OnWorkers, Gone
<1>4. Gap' <=> Gap
  BY <1>1, GapSame
<1> QED
  BY <1>2, <1>3, <1>4, PoolNew
     DEF Pool!Submit, Pool!Enqueue, Queue, OnWorkers, Waits, WaitsFor, Over, Gone, Gap

\* schedule() of a job, by the callback of its timer or because its event has occurred.
LEMMA PoolWake ==
    ASSUME IInv, NEW j \in Jobs, place[j] \in {"waking", "got"},
           place' = [place EXCEPT ![j] = "list"], holder' = [holder EXCEPT ![j] = Owner],
           \A v \in Workers : pc'[v] = "exit" <=> pc[v] = "exit",
           UNCHANGED <<try_stop, slipped>>
    PROVE  Pool!Wake(j)
<1>1. place \in [Jobs -> Places] /\ holder \in [Jobs -> Workers \cup {Owner}]
  BY DEF IInv, Types
<1>2. Queue' = Queue \cup {j} /\ Waits' = Waits \ {j} /\ Over' = Over /\ j \in Waits
  BY <1>1 DEF Queue, Waits, WaitsFor, Over, In, Eventful, Timed, Expired
<1>3. OnWorkers' = OnWorkers /\ Gone' = Gone
  BY <1>1 DEF OnWorkers, Gone
<1>4. Gap' <=> Gap
  BY <1>1, GapSame
<1> QED
  BY <1>2, <1>3, <1>4 DEF Pool!Wake, Pool!Enqueue, Queue, OnWorkers, Waits, WaitsFor, Over, Gone, Gap

\* A worker takes a job, or the callback of a timer.
LEMMA PoolTake ==
    ASSUME IInv, NEW w \in Workers, Take(w)
    PROVE  UNCHANGED Pool!pvars \/ \E j \in Jobs : Pool!Start(w, j)
<1>t. /\ place \in [Jobs -> Places] /\ holder \in [Jobs -> Workers \cup {Owner}]
      /\ pc \in [Workers -> Labels] /\ pc[w] = "take" /\ pc' = [pc EXCEPT ![w] = "run"]
      /\ list \in Seq(Jobs) /\ UNCHANGED <<try_stop, slipped>>
  BY DEF IInv, Types, Take, At, Goto
<1>1. PICK n \in DOMAIN list :
         /\ place' = [place EXCEPT ![list[n]] = IF place[list[n]] = "list" THEN "run" ELSE "waking"]
         /\ holder' = [holder EXCEPT ![list[n]] = w]
  BY DEF Take
<1>2. PICK j \in Jobs : j = list[n] /\ place[j] \in Queued
  BY <1>t DEF IInv, Listed, In, ToSet
<1>3. Gone' = Gone
  BY <1>t DEF Gone
<1>4. CASE place[j] = "list"
  <2>1. place' = [place EXCEPT ![j] = "run"] /\ holder' = [holder EXCEPT ![j] = w]
    BY <1>1, <1>2, <1>4
  <2>2. Queue' = Queue \ {j} /\ Waits' = Waits /\ Over' = Over /\ j \in Queue
    BY <1>t, <1>4, <2>1 DEF Queue, Waits, WaitsFor, Over, In, Eventful, Timed, Expired
  <2>3. OnWorkers' = OnWorkers \cup {<<w, j>>}
    BY <1>t, <1>4, <2>1 DEF OnWorkers
  <2>4. Pool!Free(w) /\ (Gap' <=> Gap)
    BY <1>t, <1>4, <2>1, PoolNew, GapSame
  <2>5. Pool!Start(w, j)
    BY <1>t, <1>3, <2>2, <2>3, <2>4
       DEF Pool!Start, Queue, OnWorkers, Waits, WaitsFor, Over, Gone, Gap
  <2> QED BY <2>5
<1>5. CASE place[j] = "cblist"
  <2>1. place' = [place EXCEPT ![j] = "waking"] /\ holder' = [holder EXCEPT ![j] = w]
    BY <1>1, <1>2, <1>5
  <2>2. Queue' = Queue /\ Waits' = Waits /\ Over' = Over
    BY <1>t, <1>5, <2>1 DEF Queue, Waits, WaitsFor, Over, In, Expired
  <2>3. OnWorkers' = OnWorkers
    BY <1>t, <1>5, <2>1 DEF OnWorkers
  <2>4. Gap' <=> Gap
    BY <1>t, <1>5, <2>1, GapSame
  <2> QED BY <1>t, <1>3, <2>2, <2>3, <2>4, PoolStutters
<1> QED BY <1>2, <1>4, <1>5 DEF Queued

\* The job that runs on w ends, or gives its reference to an event or a timer.
LEMMA PoolJob ==
    ASSUME IInv, NEW w \in Workers, NEW j \in Jobs, NEW p \in WaitsFor \cup {"done"},
           Running(w, j), place' = [place EXCEPT ![j] = p], holder' = [holder EXCEPT ![j] = Owner],
           pc' = [pc EXCEPT ![w] = "ret"], try_stop' = try_stop, slipped => slipped'
    PROVE  /\ p = "done" /\ slipped' = slipped => Pool!Finish(w, j)
           /\ p \in WaitsFor => Pool!Suspend(w, j)
<1>t. /\ place \in [Jobs -> Places] /\ holder \in [Jobs -> Workers \cup {Owner}]
      /\ pc \in [Workers -> Labels] /\ pc[w] = "run" /\ place[j] = "run" /\ holder[j] = w
  BY DEF IInv, Types, Running, At
<1>1. Queue' = Queue
  BY <1>t, WaitsApart DEF Queue, In
<1>2. OnWorkers' = OnWorkers \ {<<w, j>>} /\ <<w, j>> \in OnWorkers
  BY <1>t, WaitsApart DEF OnWorkers
<1>3. Gone' = Gone
  BY <1>t DEF Gone
<1>4. ASSUME p = "done", slipped' = slipped
      PROVE  Pool!Finish(w, j)
  <2>1. Waits' = Waits /\ Over' = Over \cup {j}
    BY <1>t, <1>4 DEF Waits, Over, WaitsFor, In, Eventful, Timed, Expired
  <2>2. Gap' <=> Gap
    BY <1>t, <1>4, GapSame
  <2> QED
    BY <1>1, <1>2, <1>3, <1>4, <2>1, <2>2
       DEF Pool!Finish, Queue, OnWorkers, Waits, WaitsFor, Over, Gone, Gap
<1>5. ASSUME p \in WaitsFor
      PROVE  Pool!Suspend(w, j)
  <2>1. Waits' = Waits \cup {j} /\ Over' = Over
    BY <1>t, <1>5, WaitsApart DEF Waits, Over, In
  <2>2. Gap => Gap'
    BY <1>t, GapKept
  <2> QED
    BY <1>1, <1>2, <1>3, <1>5, <2>1, <2>2
       DEF Pool!Suspend, Queue, OnWorkers, Waits, WaitsFor, Over, Gone, Gap
<1> QED BY <1>4, <1>5

\* A worker whose idle fiber has ended leaves; the last one finds nothing to do.
LEMMA PoolIdleCall ==
    ASSUME IInv, NEW w \in Workers, IdleCall(w)
    PROVE  UNCHANGED Pool!pvars \/ Pool!Leave(w)
<1>t. /\ pc \in [Workers -> Labels] /\ pc[w] = "idlecheck"
      /\ pc' = [pc EXCEPT ![w] = IF w \in term THEN "exit" ELSE "timers"]
      /\ UNCHANGED <<place, holder, try_stop, slipped>>
  BY DEF IInv, Types, IdleCall, At, Goto, workVars
<1>1. UNCHANGED <<Queue, OnWorkers, Waits, Over>>
  BY <1>t DEF Queue, OnWorkers, Waits, WaitsFor, Over, In
<1>2. CASE w \in term
  <2>1. Pool!Free(w) /\ try_stop
    BY <1>t, <1>2, PoolNew DEF IInv, Ended
  <2>2. Gone' = Gone \cup {w}
    BY <1>t, <1>2 DEF Gone
  <2>3. ASSUME Workers \subseteq Gone \cup {w}
        PROVE  Queue = {} /\ OnWorkers = {} /\ (Gap \/ Waits = {})
    <3>1. Workers \subseteq term
      BY <1>2, <2>3 DEF IInv, Ended, Gone
    <3>2. /\ In(Busy) = {}
          /\ ~slipped => In(Eventful \cup Timed) = {}
      BY <3>1 DEF IInv, Ended
    <3>3. Queue = {} /\ OnWorkers = {}
      BY <3>2 DEF Queue, OnWorkers, In, Busy, Queued, InHand
    <3>4. Gap \/ Waits = {}
      BY <3>2 DEF Waits, WaitsFor, In, Gap, Busy
    <3> QED BY <3>3, <3>4
  <2>4. Gap' <=> Gap
    BY <1>t, GapSame
  <2>5. Pool!Leave(w)
    BY <1>t, <1>1, <2>1, <2>2, <2>3, <2>4
       DEF Pool!Leave, Queue, OnWorkers, Waits, WaitsFor, Over, Gone, Gap
  <2> QED BY <2>5
<1>3. CASE w \notin term
  <2>1. Gone' = Gone /\ (Gap' <=> Gap)
    BY <1>t, <1>3, GapSame DEF Gone
  <2> QED BY <1>t, <1>1, <2>1, PoolStutters
<1> QED BY <1>2, <1>3

\* Steps after which every job is where it was, or waits as it did before.
LEMMA PoolWaits ==
    ASSUME slipped \in BOOLEAN, slipped' \in {slipped, TRUE}, try_stop' = try_stop,
           \A v \in Workers : pc'[v] = "exit" <=> pc[v] = "exit",
           \A k \in Jobs : \/ place'[k] = place[k] /\ (place[k] = "run" => holder'[k] = holder[k])
                           \/ /\ place[k] \in WaitsFor \ {"stranded"}
                              /\ place'[k] \in WaitsFor
    PROVE  [Pool!Next]_(Pool!pvars)
<1>1. UNCHANGED <<Queue, OnWorkers, Waits, Over, Gone>>
  BY PoolSame, WaitsApart
<1>2. Gap => Gap'
  BY GapKept
<1>3. UNCHANGED Pool!pvars \/ Pool!Overlook
  BY <1>1, <1>2, PoolStutters
<1> QED BY <1>3 DEF Pool!Next

\* The other steps of run() and idle().
LEMMA PoolQuiet ==
    ASSUME IInv, NEW w \in Workers,
           \/ TakeNothing(w) \/ Return(w) \/ ReadTimers(w) \/ ReadPending(w) \/ Final(w)
           \/ EpollWait(w) \/ EpollInterrupted(w) \/ ListExpired(w) \/ Drain(w)
           \/ Decrement(w) \/ IdleYeild(w)
    PROVE  [Pool!Next]_(Pool!pvars)
<1>t. /\ place \in [Jobs -> Places] /\ pc \in [Workers -> Labels] /\ slipped \in BOOLEAN
  BY DEF IInv, Types
<1>1. \A v \in Workers : pc'[v] = "exit" <=> pc[v] = "exit"
  BY <1>t DEF TakeNothing, Return, ReadTimers, ReadPending, Final, EpollWait, EpollInterrupted,
              ListExpired, Drain, Decrement, IdleYeild, At, Goto
<1>2. try_stop' = try_stop /\ slipped' \in {slipped, TRUE}
  BY DEF TakeNothing, Return, ReadTimers, ReadPending, Final, EpollWait, EpollInterrupted,
         ListExpired, Drain, Decrement, IdleYeild
<1>3. \A k \in Jobs : \/ place'[k] = place[k] /\ (place[k] = "run" => holder'[k] = holder[k])
                      \/ place[k] \in WaitsFor \ {"stranded"} /\ place'[k] \in WaitsFor
  <2>1. CASE EpollWait(w)
    BY <1>t, <2>1 DEF EpollWait, In, WaitsFor, Eventful
  <2>2. CASE ListExpired(w)
    BY <1>t, <2>2 DEF ListExpired, WaitsFor, Timed, Expired
  <2>3. CASE ~(EpollWait(w) \/ ListExpired(w))
    BY <2>3 DEF TakeNothing, Return, ReadTimers, ReadPending, Final, EpollInterrupted,
                Drain, Decrement, IdleYeild, workVars
  <2> QED BY <2>1, <2>2, <2>3
<1> QED BY <1>t, <1>1, <1>2, <1>3, PoolWaits

LEMMA PoolStep ==
    ASSUME IInv, [Next]_vars
    PROVE  [Pool!Next]_(Pool!pvars)
<1>t. /\ place \in [Jobs -> Places] /\ pc \in [Workers -> Labels]
      /\ slipped \in BOOLEAN /\ try_stop \in BOOLEAN
  BY DEF IInv, Types
<1>1. CASE UNCHANGED vars \/ Joined \/ StopTickle \/ (\E a \in Workers \cup {Owner} : Tickle(a))
  <2>1. UNCHANGED <<place, holder, pc, try_stop, slipped>>
    BY <1>1 DEF vars, workVars, Joined, StopTickle, Tickle
  <2>2. UNCHANGED Pool!pvars
    BY <2>1, PoolSame, PoolStutters, GapSame
  <2> QED BY <2>2
<1>2. CASE Stop
  <2>1. try_stop' = TRUE /\ UNCHANGED <<place, holder, pc, slipped>>
    BY <1>2 DEF Stop, workVars
  <2>2. Pool!Stop
    BY <2>1 DEF Pool!Stop, In
  <2> QED BY <2>2 DEF Pool!Next
<1>3. ASSUME NEW j \in Jobs, ScheduleOutside(j)
      PROVE  Pool!Next
  <2>1. Pool!Submit(j)
    BY <1>3, PoolSubmit DEF ScheduleOutside
  <2> QED BY <2>1 DEF Pool!Next
<1>4. ASSUME NEW j \in Jobs, EventOccurs(j) \/ TimerDue(j)
      PROVE  [Pool!Next]_(Pool!pvars)
  <2>1. UNCHANGED <<holder, pc, try_stop, slipped>>
    BY <1>4 DEF EventOccurs, TimerDue
  <2>2. \A k \in Jobs : \/ place'[k] = place[k]
                        \/ place[k] \in WaitsFor \ {"stranded"} /\ place'[k] \in WaitsFor
    BY <1>4, <1>t DEF EventOccurs, TimerDue, WaitsFor, Eventful, Timed
  <2> QED BY <1>t, <2>1, <2>2, PoolWaits
<1>w. ASSUME NEW w \in Workers, NEW j \in Jobs, NEW k \in Jobs,
             \/ CancelErases(w, j, k) \/ ScheduleExpired(w, j) \/ TriggerRefused(w, j)
      PROVE  [Pool!Next]_(Pool!pvars)
  <2>1. UNCHANGED <<pc, try_stop, slipped>>
    BY <1>w DEF CancelErases, ScheduleExpired, TriggerRefused
  <2>2. CASE CancelErases(w, j, k)
    <3>1. \A i \in Jobs : \/ place'[i] = place[i] /\ holder'[i] = holder[i]
                          \/ place[i] \in WaitsFor \ {"stranded"} /\ place'[i] \in WaitsFor
      BY <1>t, <2>2 DEF CancelErases, WaitsFor, Timed
    <3> QED BY <1>t, <2>1, <3>1, PoolWaits
  <2>3. CASE ScheduleExpired(w, j)
    <3>1. \A i \in Jobs : \/ place'[i] = place[i] /\ holder'[i] = holder[i]
                          \/ place[i] \in WaitsFor \ {"stranded"} /\ place'[i] \in WaitsFor
      BY <1>t, <2>3 DEF ScheduleExpired, Held, WaitsFor, Expired
    <3> QED BY <1>t, <2>1, <3>1, PoolWaits
  <2>4. CASE TriggerRefused(w, j)
    <3>1. \A i \in Jobs : \/ place'[i] = place[i] /\ holder'[i] = holder[i]
                          \/ place[i] \in WaitsFor \ {"stranded"} /\ place'[i] \in WaitsFor
      BY <1>t, <2>4 DEF TriggerRefused, Held, WaitsFor, Eventful
    <3> QED BY <1>t, <2>1, <3>1, PoolWaits
  <2> QED BY <1>w, <2>2, <2>3, <2>4
<1>5. ASSUME NEW w \in Workers, NEW j \in Jobs, Job(w, j)
      PROVE  [Pool!Next]_(Pool!pvars)
  <2>1. ASSUME NEW k \in Jobs, JobSchedules(w, j, k) PROVE Pool!Submit(k)
    BY <2>1, PoolSubmit DEF JobSchedules
  <2>2. ASSUME JobEnds(w, j) PROVE Pool!Finish(w, j)
    BY <2>2, PoolJob DEF JobEnds, Goto
  <2>3. ASSUME JobAwaitsEvent(w, j) PROVE Pool!Suspend(w, j)
    <3>1. "event" \in WaitsFor /\ (slipped => slipped')
      BY <1>t, <2>3 DEF JobAwaitsEvent, WaitsFor, Eventful
    <3> QED BY <2>3, <3>1, PoolJob DEF JobAwaitsEvent, Goto
  <2>4. ASSUME JobAwaitsTimer(w, j) PROVE Pool!Suspend(w, j)
    <3>1. {"timer", "stranded"} \subseteq WaitsFor /\ (slipped => slipped')
      BY <1>t, <2>4 DEF JobAwaitsTimer, WaitsFor, Timed
    <3>2. PICK p \in {"timer", "stranded"} : place' = [place EXCEPT ![j] = p]
      BY <2>4 DEF JobAwaitsTimer
    <3> QED BY <2>4, <3>1, <3>2, PoolJob DEF JobAwaitsTimer, Goto
  <2> QED BY <1>5, <1>w, <2>1, <2>2, <2>3, <2>4 DEF Job, Pool!Next
<1>6. ASSUME NEW w \in Workers, NEW j \in Jobs, Callback(w, j) \/ TriggerEvent(w, j)
      PROVE  Pool!Next
  <2>1. /\ place[j] \in {"waking", "got"} /\ place' = [place EXCEPT ![j] = "list"]
        /\ holder' = [holder EXCEPT ![j] = Owner] /\ UNCHANGED <<try_stop, slipped>>
    BY <1>6 DEF Callback, TriggerEvent, Held
  <2>2. \A v \in Workers : pc'[v] = "exit" <=> pc[v] = "exit"
    BY <1>t, <1>6 DEF Callback, TriggerEvent, At, Goto
  <2>3. Pool!Wake(j)
    BY <2>1, <2>2, PoolWake
  <2> QED BY <2>3 DEF Pool!Next
<1>7. ASSUME NEW w \in Workers, Take(w) PROVE [Pool!Next]_(Pool!pvars)
  BY <1>7, PoolTake DEF Pool!Next
<1>8. ASSUME NEW w \in Workers, IdleCall(w) PROVE [Pool!Next]_(Pool!pvars)
  BY <1>8, PoolIdleCall DEF Pool!Next
<1>9. ASSUME NEW w \in Workers, Work(w) \/ EpollInterrupted(w)
      PROVE  [Pool!Next]_(Pool!pvars)
  BY <1>1, <1>5, <1>6, <1>7, <1>8, <1>9, <1>w, PoolQuiet DEF Work
<1> QED BY <1>1, <1>2, <1>3, <1>4, <1>9 DEF Next, Client, Environment

\* An IOManager can stand where a Scheduler is expected: with epoll, timers and the
\* tickle pipe in place of the sleeping idle fiber, a fiber still moves from place to
\* place one step at a time, and the last worker leaves when nothing is queued or runs
\* and nothing waits that stopping() did not overlook.
THEOREM IOManagerImplementsPool == Spec => ImplementsPool
<1>1. Init => Pool!Init
  BY DEF Init, Pool!Init, In, Eventful, Timed, Expired
<1>2. IInv /\ [Next]_vars => [Pool!Next]_(Pool!pvars)
  BY PoolStep
<1> QED
  BY <1>1, <1>2, Inductive, PTL DEF Spec, ImplementsPool, Pool!Spec
=============================================================================
