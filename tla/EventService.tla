---------------------------- MODULE EventService ----------------------------
(***************************************************************************)
(* What IOManager promises about events, without the table, epoll and the  *)
(* idle threads: who waits for what, and how many wait.  This is what the  *)
(* waiting fibers (hook.cpp) and stopping() rely on.                       *)
(***************************************************************************)
CONSTANTS
    Fds,      \* descriptors
    Events,   \* what one can wait for on a descriptor
    Waiters,  \* fibers and callbacks
    NoReg,    \* not waiting
    Count(_)  \* the number of elements of a finite set

VARIABLES
    reg,      \* what each waiter waits for
    pending,  \* the number that stopping() compares with 0
    faulty    \* the kernel refused a registration

svars == <<reg, pending, faulty>>

Waiting(r) == {w \in Waiters : r[w] # NoReg}

Init ==
    /\ reg = [w \in Waiters |-> NoReg]
    /\ pending = Count({})
    /\ faulty = FALSE

\* Nobody waits for that event yet.
Register(w, fd, e) ==
    /\ reg[w] = NoReg
    /\ \A v \in Waiters : reg[v] # <<fd, e>>
    /\ reg' = [reg EXCEPT ![w] = <<fd, e>>]
    /\ ~faulty => pending' = Count(Waiting(reg'))
    /\ faulty' = faulty

\* Events E of fd occurred or are cancelled: their waiters go on, and no others.
Release(fd, E) ==
    /\ ~faulty
    /\ \A e \in E : \E w \in Waiters : reg[w] = <<fd, e>>
    /\ reg' = [w \in Waiters |-> IF \E e \in E : reg[w] = <<fd, e>> THEN NoReg ELSE reg[w]]
    /\ pending' = Count(Waiting(reg'))
    /\ faulty' = faulty

\* A registration fails: from now on wake-ups may be spurious.
Refuse == faulty' = TRUE /\ UNCHANGED <<reg, pending>>

ReleaseFaulty ==
    /\ faulty
    /\ \E S \in SUBSET Waiters :
          reg' = [w \in Waiters |-> IF w \in S THEN NoReg ELSE reg[w]]
    /\ faulty' = faulty

Next ==
    \/ \E w \in Waiters, fd \in Fds, e \in Events : Register(w, fd, e)
    \/ \E fd \in Fds, E \in SUBSET Events : Release(fd, E)
    \/ Refuse \/ ReleaseFaulty

Spec == Init /\ [][Next]_svars
=============================================================================
