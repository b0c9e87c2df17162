------------------------------- MODULE Socket -------------------------------
(***************************************************************************)
(* The Socket objects of socket.h and socket.cpp: what they remember       *)
(* (sock_, isConnected_, localAddress_, remoteAddress_) against what the   *)
(* kernel has behind the descriptor numbers.  Fibers of several workers    *)
(* share the objects, which have no lock: a member function is a sequence  *)
(* of steps, each with one system call or one access to sock_, and others  *)
(* come between.                                                           *)
(*                                                                         *)
(* The kernel gives out free numbers again; a kernel socket is known by a  *)
(* serial number.  Its local address is "no" (unbound), "any" (INADDR_ANY  *)
(* and a port) or "own" (the address it really uses).                      *)
(***************************************************************************)
EXTENDS Integers

CONSTANTS
    Objects,      \* Socket objects
    Fibers,       \* the fibers that use them
    Numbers,      \* descriptor numbers
    Addresses,    \* addresses of the family of the objects
    Foreign,      \* addresses of another family
    Unknown,      \* the empty Address(family)
    None,         \* a null AddressRef, no object, no peer
    MaxSockets    \* bound on the kernel sockets that are ever made

ASSUME SocketAssumption ==
    /\ Foreign \cap Addresses = {} /\ Unknown \notin Addresses \cup Foreign
    /\ None \notin Addresses \cup Foreign \cup {Unknown} \cup Objects
    /\ -1 \notin Numbers /\ MaxSockets \in Nat

VARIABLES
    alive,      \* the objects that exist
    sock_,      \* the descriptor number of each object, or -1
    isConnected_,
    localAddress_,   \* what getsockname said, or None
    remoteAddress_,
    udp,        \* the objects with type_ UDP
    kern,       \* the kernel socket behind each number
    made,       \* kernel sockets made so far
    busy,       \* the member function each fiber is in
    marks,      \* history: what happened to an object, see the properties
    torn        \* history: a fiber called or went on in a member function of an object
                \* while another was in one, outside the waits of connect and accept

objVars  == <<alive, sock_, isConnected_, localAddress_, remoteAddress_, udp>>
kernVars == <<kern, made>>
vars == <<objVars, kernVars, busy, marks, torn>>

\* No socket behind the number.
Closed == [id |-> 0, name |-> "no", listening |-> FALSE, peer |-> None]

\* A fiber in no member function.  Else: where it is in it, on which object, with
\* which address, and the number and the socket it passed to the kernel.
Idle == [at |-> "idle", kind |-> "none", on |-> None, to |-> None, n |-> -1, id |-> 0]

Init ==
    /\ alive = {} /\ udp = {}
    /\ sock_ = [s \in Objects |-> -1]
    /\ isConnected_ = [s \in Objects |-> FALSE]
    /\ localAddress_ = [s \in Objects |-> None]
    /\ remoteAddress_ = [s \in Objects |-> None]
    /\ kern = [n \in Numbers |-> Closed] /\ made = 0
    /\ busy = [f \in Fibers |-> Idle]
    /\ marks = {} /\ torn = FALSE

-----------------------------------------------------------------------------
(* Steps the operations are made of *)

isValid(s) == sock_[s] # -1
isOpen(n)  == n # -1 /\ kern[n].id # 0

\* send, sendTo, recv and recvFrom pass sock_ to the kernel when isConnected_ says
\* so, and change nothing of the object (sendTo may name its socket, see below).
Transfers(s) == isConnected_[s]

At(f, l) == busy[f].at = l
Goto(f, b) == busy' = [busy EXCEPT ![f] = b]
Return(f) == Goto(f, Idle)
In(l, s) == [Idle EXCEPT !.at = l, !.on = s]

\* Fibers that wait in ::connect for the object s, woken or not.
Waiting == {"wait", "woken"}
Connecting(s) == {f \in Fibers : busy[f].at \in Waiting /\ busy[f].on = s}

\* Fiber f runs in a member function of s.  The connect of a UDP socket does not wait.
Inside(f, s) == busy[f].on = s /\ (s \in udp \/ busy[f].at \notin Waiting \cup {"accept"})
\* ... and f meets another fiber there.
Meets(f, s) == \E g \in Fibers \ {f} : Inside(g, s)

\* socket(), or accept() at its end: a free number.
NewKernel(n, name, peer) ==
    /\ kern[n].id = 0 /\ made < MaxSockets
    /\ made' = made + 1
    /\ kern' = [kern EXCEPT ![n] =
          [id |-> made + 1, name |-> name, listening |-> FALSE, peer |-> peer]]

\* The hooked close of number n: cancelAll wakes who waits, then the socket is gone.
KernelClosed(n) == IF isOpen(n) THEN [kern EXCEPT ![n] = Closed] ELSE kern
WokenOn(n) == [f \in Fibers |-> IF At(f, "wait") /\ busy[f].n = n /\ busy[f].on \notin udp
                                THEN [busy[f] EXCEPT !.at = "woken"] ELSE busy[f]]

\* getsockname on an open number.  All unbound sockets have the same name.
Name(n) == [name |-> kern[n].name, id |-> IF kern[n].name = "no" THEN 0 ELSE kern[n].id]

\* The address that s has cached is not the one its socket has now.
Outdated(s) == IF localAddress_[s] # None THEN {<<s, "cached">>} ELSE {}

\* The name of a socket changes; one without a name gets INADDR_ANY and a port from
\* listen and sendto.
Renamed(s, n, name) == IF kern[n].name # name THEN marks \cup Outdated(s) ELSE marks
AutoName(n) == IF kern[n].name = "no" THEN "any" ELSE kern[n].name

-----------------------------------------------------------------------------
(* Creation and destruction *)

\* CreateTCP and CreateTCPSocket; the constructor.
CreateTCP(s) ==
    /\ s \notin alive
    /\ alive' = alive \cup {s}
    /\ UNCHANGED <<sock_, isConnected_, localAddress_, remoteAddress_, udp, kernVars, busy, marks>>

\* CreateUDP and CreateUDPSocket, newSock included: isConnected_ is set whether there
\* is a socket or not.
CreateUDP(s) ==
    /\ s \notin alive
    /\ alive' = alive \cup {s}
    /\ udp' = udp \cup {s}
    /\ isConnected_' = [isConnected_ EXCEPT ![s] = TRUE]
    /\ \/ \E n \in Numbers : NewKernel(n, "no", None) /\ sock_' = [sock_ EXCEPT ![s] = n]
       \/ UNCHANGED <<sock_, kernVars>>
    /\ UNCHANGED <<localAddress_, remoteAddress_, busy, marks>>

\* ~Socket with its close(), when the last reference goes.
Destroy(s) ==
    /\ s \in alive
    /\ \A f \in Fibers : busy[f].on # s
    /\ alive' = alive \ {s}
    /\ udp' = udp \ {s}
    /\ sock_' = [sock_ EXCEPT ![s] = -1]
    /\ isConnected_' = [isConnected_ EXCEPT ![s] = FALSE]
    /\ localAddress_' = [localAddress_ EXCEPT ![s] = None]
    /\ remoteAddress_' = [remoteAddress_ EXCEPT ![s] = None]
    /\ kern' = KernelClosed(sock_[s])
    /\ busy' = IF isValid(s) THEN WokenOn(sock_[s]) ELSE busy
    /\ marks' = {m \in marks : m[1] # s}
    /\ UNCHANGED made

-----------------------------------------------------------------------------
(* close *)

\* Something of M happened to s.
Marked(s, M) == \E m \in M : <<s, m>> \in marks

\* What a close leaves to remember when fibers wait in a connect on s.
CloseMarks(s, waiting) ==
    IF waiting # {} THEN marks \cup {<<s, "raced">>}
    ELSE marks \ {<<s, "raced">>, <<s, "unsure">>}

\* close() up to its second test, called by f itself (id 0) or by its connect on socket
\* id.  With nothing to close it changes nothing.
Shuts(f, s, id) ==
    /\ isConnected_' = [isConnected_ EXCEPT ![s] = FALSE]
    /\ marks' = IF isConnected_[s] \/ isValid(s) THEN CloseMarks(s, Connecting(s) \ {f}) ELSE marks
    /\ Goto(f, IF isValid(s) THEN [In("closing", s) EXCEPT !.id = id] ELSE Idle)

Close(f, s) ==
    /\ At(f, "idle")
    /\ s \in alive
    /\ isConnected_[s] \/ isValid(s)
    /\ Shuts(f, s, 0)
    /\ UNCHANGED <<alive, sock_, localAddress_, remoteAddress_, udp, kernVars>>

\* Mutant of CloseCalls: the descriptor is not closed.
CloseCallsNothing(f) ==
    /\ At(f, "closing")
    /\ Goto(f, In("closed", busy[f].on))
    /\ UNCHANGED <<objVars, kernVars, marks>>

\* ::close(sock_)
CloseCalls(f) ==
    LET n == sock_[busy[f].on] IN
    /\ At(f, "closing")
    /\ kern' = KernelClosed(n)
    /\ busy' = [(IF n # -1 THEN WokenOn(n) ELSE busy) EXCEPT
                   ![f] = In("closed", busy[f].on)]
    /\ UNCHANGED <<objVars, made, marks>>

\* sock_ = -1.  The addresses are kept.
CloseForgets(f) ==
    /\ At(f, "closed")
    /\ sock_' = [sock_ EXCEPT ![busy[f].on] = -1]
    /\ Return(f)
    /\ UNCHANGED <<alive, isConnected_, localAddress_, remoteAddress_, udp, kernVars, marks>>

-----------------------------------------------------------------------------
(* bind and connect up to the system call *)

\* Mutant of Tested: a new socket is made in any case.
TestedNot(s) == "make"

\* The first test of isValid().
Tested(s) == IF isValid(s) THEN "ready" ELSE "make"

\* The name that bind asks for.
Wish(name) == [name |-> name, id |-> 0]

\* An address that is INADDR_ANY with a port, or one of the host; one of another family
\* is refused with the same effect as by ::bind.
Bind(f, s, name) ==
    /\ At(f, "idle")
    /\ s \in alive
    /\ Goto(f, [In(Tested(s), s) EXCEPT !.kind = "bind", !.to = Wish(name)])
    /\ UNCHANGED <<objVars, kernVars, marks>>

\* connect sets remoteAddress_ before anything is known.
Begin(f, s, a, local) ==
    /\ At(f, "idle")
    /\ s \in alive
    /\ remoteAddress_' = [remoteAddress_ EXCEPT ![s] = a]
    /\ localAddress_' = [localAddress_ EXCEPT ![s] = local]
    /\ Goto(f, [In(Tested(s), s) EXCEPT !.kind = "connect", !.to = a])
    /\ marks' = (IF local = None THEN marks \ {<<s, "cached">>} ELSE marks)
          \cup (IF s \notin udp /\ (isConnected_[s] \/ Connecting(s) # {})
                THEN {<<s, "unsure">>} ELSE {})
    /\ UNCHANGED <<alive, sock_, isConnected_, udp, kernVars>>

Connect(f, s, a) == Begin(f, s, a, localAddress_[s])

reconnect(f, s) == remoteAddress_[s] # None /\ Begin(f, s, remoteAddress_[s], None)

\* newSock; socket() may fail.
newSock(f) ==
    LET s == busy[f].on IN
    /\ At(f, "make")
    /\ \/ \E n \in Numbers : /\ NewKernel(n, "no", None)
                             /\ sock_' = [sock_ EXCEPT ![s] = n]
                             /\ marks' = marks \cup Outdated(s)
       \/ sock_' = [sock_ EXCEPT ![s] = -1] /\ UNCHANGED <<kernVars, marks>>
    /\ Goto(f, [busy[f] EXCEPT !.at = "made"])
    /\ UNCHANGED <<alive, isConnected_, localAddress_, remoteAddress_, udp>>

\* The second test of isValid(), after newSock, or the test of the family fails.
GivesUp(f) ==
    /\ busy[f].at \in {"made", "ready"}
    /\ \/ At(f, "made") /\ ~isValid(busy[f].on)
       \/ busy[f].to \in Foreign
    /\ Return(f)
    /\ UNCHANGED <<objVars, kernVars, marks>>

\* The socket of s takes a name.
Named(s, n, name) ==
    /\ kern' = [kern EXCEPT ![n].name = name]
    /\ marks' = Renamed(s, n, name)

\* Mutant of CallsBind: the address is asked for before the socket is bound.
CallsBindLate(f) ==
    LET n == sock_[busy[f].on] IN
    /\ busy[f].at \in {"made", "ready"} /\ busy[f].kind = "bind"
    /\ isOpen(n) /\ kern[n].name = "no"
    /\ Named(busy[f].on, n, busy[f].to.name)
    /\ Goto(f, [In("caching", busy[f].on) EXCEPT !.to = Name(n)])
    /\ UNCHANGED <<objVars, made>>

\* ::bind(sock_), then getLocalAddress.  It fails on a socket that has a name.
CallsBind(f) ==
    LET n == sock_[busy[f].on] IN
    /\ busy[f].at \in {"made", "ready"} /\ busy[f].kind = "bind"
    /\ \/ /\ isOpen(n) /\ kern[n].name = "no"
          /\ Named(busy[f].on, n, busy[f].to.name)
          /\ Goto(f, In("named", busy[f].on))
       \/ Return(f) /\ UNCHANGED <<kern, marks>>
    /\ UNCHANGED <<objVars, made>>

\* ::connect(sock_): the kernel chooses the local address, unless bind chose it; a
\* socket that listens keeps its own and the call will fail.
CallsConnect(f) ==
    LET n == sock_[busy[f].on] IN
    /\ busy[f].at \in {"made", "ready"} /\ busy[f].kind = "connect"
    /\ busy[f].to \notin Foreign
    /\ isOpen(n)
    /\ Named(busy[f].on, n, IF kern[n].listening THEN kern[n].name ELSE "own")
    /\ Goto(f, [busy[f] EXCEPT !.at = "wait", !.n = n, !.id = kern[n].id])
    /\ UNCHANGED <<objVars, made>>

\* ::connect with a number that is not open fails: close().
CallsConnectBad(f) ==
    /\ busy[f].at \in {"made", "ready"} /\ busy[f].kind = "connect"
    /\ busy[f].to \notin Foreign
    /\ ~isOpen(sock_[busy[f].on])
    /\ At(f, "made") => isValid(busy[f].on)
    /\ Shuts(f, busy[f].on, 0)
    /\ UNCHANGED <<alive, sock_, localAddress_, remoteAddress_, udp, kernVars>>

-----------------------------------------------------------------------------
(* connect after the system call *)

\* The connection is there.
Established(f) ==
    LET n == busy[f].n IN
    /\ At(f, "wait")
    /\ kern[n].id = busy[f].id /\ ~kern[n].listening
    /\ kern[n].peer = None \/ busy[f].on \in udp
    /\ busy[f].to = Unknown => busy[f].on \in udp   \* nobody listens there
    /\ kern' = [kern EXCEPT ![n].peer = busy[f].to]
    /\ Goto(f, [busy[f] EXCEPT !.at = "done"])
    /\ UNCHANGED <<objVars, made, marks>>

\* epoll_ctl refuses, and the hooked call goes on without waiting.
AddEventRefused(f) ==
    /\ At(f, "wait")
    /\ busy[f].on \notin udp
    /\ Goto(f, [busy[f] EXCEPT !.at = "woken"])
    /\ UNCHANGED <<objVars, kernVars, marks>>

\* cancelWrite and cancelAll.
cancelWrite(f, s) ==
    /\ At(f, "idle")
    /\ s \in alive \ udp
    /\ isValid(s)
    /\ \E g \in Fibers : At(g, "wait") /\ busy[g].n = sock_[s]
    /\ busy' = WokenOn(sock_[s])
    /\ UNCHANGED <<objVars, kernVars, marks>>

\* A connect that was woken asks for SO_ERROR, which is 0 while the connection is
\* being made: ::connect returns 0.
WokenSucceeds(f) ==
    /\ At(f, "woken")
    /\ Goto(f, [busy[f] EXCEPT !.at = "done"])
    /\ marks' = marks \cup {<<busy[f].on, "unsure">>}
    /\ UNCHANGED <<objVars, kernVars>>

\* Mutant of ConnectFails: the error is not looked at.
ConnectFailsUnseen(f) ==
    /\ busy[f].at \in Waiting
    /\ Goto(f, [busy[f] EXCEPT !.at = "done"])
    /\ UNCHANGED <<objVars, kernVars, marks>>

\* An error or the timeout: close() whatever the object has by now.
ConnectFails(f) ==
    /\ busy[f].at \in Waiting
    /\ Shuts(f, busy[f].on, IF Marked(busy[f].on, {"raced"}) THEN 0 ELSE busy[f].id)
    /\ UNCHANGED <<alive, sock_, localAddress_, remoteAddress_, udp, kernVars>>

\* isConnected_ = true.  remoteAddress_ is there, getLocalAddress comes next.
ConnectSucceeds(f) ==
    /\ At(f, "done")
    /\ isConnected_' = [isConnected_ EXCEPT ![busy[f].on] = TRUE]
    /\ Goto(f, In("named", busy[f].on))
    /\ UNCHANGED <<alive, sock_, localAddress_, remoteAddress_, udp, kernVars, marks>>

-----------------------------------------------------------------------------
(* listen and the addresses *)

Listen(f, s) ==
    /\ At(f, "idle")
    /\ s \in alive \ udp
    /\ isOpen(sock_[s])
    /\ kern[sock_[s]].peer = None
    /\ kern' = [kern EXCEPT ![sock_[s]] =
                   [@ EXCEPT !.listening = TRUE, !.name = AutoName(sock_[s])]]
    /\ marks' = Renamed(s, sock_[s], AutoName(sock_[s]))
    /\ UNCHANGED <<objVars, made, busy>>

\* sendTo with a UDP socket.
sendTo(f, s) ==
    /\ At(f, "idle")
    /\ s \in alive \cap udp
    /\ Transfers(s)
    /\ isOpen(sock_[s])
    /\ Named(s, sock_[s], AutoName(sock_[s]))
    /\ UNCHANGED <<objVars, made, busy>>

\* getLocalAddress: what is cached is returned, and nothing changes.
getLocalAddress(f, s) ==
    /\ At(f, "idle")
    /\ s \in alive
    /\ localAddress_[s] = None
    /\ Goto(f, In("named", s))
    /\ UNCHANGED <<objVars, kernVars, marks>>

\* Else getsockname, which fails without a socket.
AsksName(f) ==
    LET s == busy[f].on IN
    /\ At(f, "named")
    /\ IF localAddress_[s] = None /\ isOpen(sock_[s])
       THEN Goto(f, [In("caching", s) EXCEPT !.to = Name(sock_[s])])
       ELSE Return(f)
    /\ UNCHANGED <<objVars, kernVars, marks>>

CachesName(f) ==
    /\ At(f, "caching")
    /\ localAddress_' = [localAddress_ EXCEPT ![busy[f].on] = busy[f].to]
    /\ Return(f)
    /\ UNCHANGED <<alive, sock_, isConnected_, remoteAddress_, udp, kernVars, marks>>

\* getRemoteAddress; the result of getpeername is not looked at.
getRemoteAddress(f, s) ==
    /\ At(f, "idle")
    /\ s \in alive
    /\ remoteAddress_[s] = None
    /\ Goto(f, [In("peered", s) EXCEPT !.to =
                 IF isOpen(sock_[s]) /\ kern[sock_[s]].peer # None
                 THEN kern[sock_[s]].peer ELSE Unknown])
    /\ UNCHANGED <<objVars, kernVars, marks>>

CachesPeer(f) ==
    /\ At(f, "peered")
    /\ remoteAddress_' = [remoteAddress_ EXCEPT ![busy[f].on] = busy[f].to]
    /\ Return(f)
    /\ UNCHANGED <<alive, sock_, isConnected_, localAddress_, udp, kernVars, marks>>

-----------------------------------------------------------------------------
(* accept *)

Accept(f, s) ==
    /\ At(f, "idle")
    /\ s \in alive
    /\ isOpen(sock_[s]) /\ kern[sock_[s]].listening
    /\ Goto(f, [In("accept", s) EXCEPT !.n = sock_[s]])
    /\ UNCHANGED <<objVars, kernVars, marks>>

\* ::accept returned number m, connected to a: accept() of hook.cpp has made its
\* context, so that init takes it over into a new object.
AcceptSucceeds(f, t, m, a) ==
    /\ At(f, "accept")
    /\ kern[busy[f].n].listening
    /\ t \notin alive
    /\ NewKernel(m, "own", a)
    /\ alive' = alive \cup {t}
    /\ sock_' = [sock_ EXCEPT ![t] = m]
    /\ isConnected_' = [isConnected_ EXCEPT ![t] = TRUE]
    /\ localAddress_' = [localAddress_ EXCEPT ![t] = [name |-> "own", id |-> made + 1]]
    /\ remoteAddress_' = [remoteAddress_ EXCEPT ![t] = a]
    /\ Return(f)
    /\ UNCHANGED <<udp, marks>>

AcceptFails(f) ==
    /\ At(f, "accept")
    /\ Return(f)
    /\ UNCHANGED <<objVars, kernVars, marks>>

-----------------------------------------------------------------------------

\* Member functions that are called, and their steps.
Call(f, s) ==
    \/ Close(f, s) \/ reconnect(f, s) \/ getLocalAddress(f, s) \/ getRemoteAddress(f, s)
    \/ cancelWrite(f, s) \/ Listen(f, s) \/ sendTo(f, s) \/ Accept(f, s)
    \/ \E name \in {"any", "own"} : Bind(f, s, name)
    \/ \E a \in Addresses \cup Foreign : Connect(f, s, a)

Step(f) ==
    \/ CloseCalls(f) \/ CloseForgets(f)
    \/ newSock(f) \/ GivesUp(f) \/ CallsBind(f) \/ CallsConnect(f) \/ CallsConnectBad(f)
    \/ Established(f) \/ WokenSucceeds(f) \/ ConnectFails(f) \/ ConnectSucceeds(f)
    \/ AsksName(f) \/ CachesName(f) \/ CachesPeer(f)

\* What changes nothing of the object a fiber waits in.
Wakes(f) ==
    \/ AddEventRefused(f) \/ AcceptFails(f)
    \/ \E t \in Objects, m \in Numbers, a \in Addresses : AcceptSucceeds(f, t, m, a)

Next ==
    \/ \E s \in Objects : (CreateTCP(s) \/ CreateUDP(s) \/ Destroy(s)) /\ UNCHANGED torn
    \/ \E f \in Fibers, s \in Objects : Call(f, s) /\ torn' = (torn \/ Meets(f, s))
    \/ \E f \in Fibers : Step(f) /\ torn' = (torn \/ Meets(f, busy[f].on))
    \/ \E f \in Fibers : Wakes(f) /\ UNCHANGED torn

Spec == Init /\ [][Next]_vars

-----------------------------------------------------------------------------
(* Properties *)

\* ::close(sock_) has returned and sock_ is not reset yet.
Leaving(s) == \E f \in Fibers : busy[f].at = "closed" /\ busy[f].on = s
Holds(s, n) == s \in alive /\ sock_[s] = n /\ ~Leaving(s)

\* Every open descriptor belongs to exactly one object, which is how it gets closed,
\* and every object's descriptor is open, also when the number was closed and is in
\* use again, when a connect waits while others close and reconnect its object, and
\* when it then fails and closes.  Exception: nothing is said once two fibers were
\* inside member functions of one object at once (socket.cpp:252, 307).
OpenIsOwned ==
    ~torn =>
      /\ \A n \in Numbers : isOpen(n) =>
            \E s \in Objects : Holds(s, n) /\ \A t \in Objects : Holds(t, n) => t = s
      /\ \A s \in Objects : isValid(s) /\ ~Leaving(s) => s \in alive /\ isOpen(sock_[s])

\* A TCP object through which send and recv go has a socket, and remoteAddress_ is
\* whom the kernel connected it to.  Exceptions: it was closed while a connect on it
\* was waiting; the wait was ended by cancelWrite or by a close, or there was none
\* because epoll_ctl refused, and SO_ERROR was 0 (hook.cpp:238); connect was called on
\* it again, which sets remoteAddress_ first (socket.cpp:251).
ConnectedHonest ==
    ~torn => \A s \in alive \ udp : Transfers(s) /\ ~Marked(s, {"raced", "unsure"}) =>
        isValid(s) /\ kern[sock_[s]].peer = remoteAddress_[s]

\* While a connect waits, and until it has failed and closed, its object holds the
\* socket it was called with and no other, so that the failing call closes its own.
\* Exception: the object was closed while it waited; then close() takes what the
\* object has by now (socket.cpp:270).
ClosesItsOwn ==
    ~torn => \A f \in Fibers :
        /\ busy[f].id # 0
        /\ At(f, "closing") \/ (busy[f].at \in Waiting /\ ~Marked(busy[f].on, {"raced"}))
        => isOpen(sock_[busy[f].on]) /\ kern[sock_[busy[f].on]].id = busy[f].id

\* getLocalAddress tells the address of the present socket, although close() keeps
\* what was cached.  Exceptions: a new socket was made without reconnect; or the
\* address was asked for before the last bind, connect, listen or sendTo gave the socket
\* its address, which bind itself does for a socket that is bound to INADDR_ANY and connected later
\* (socket.cpp:237, 403).
LocalIsCurrent ==
    ~torn => \A s \in alive : /\ localAddress_[s] # None /\ isValid(s) /\ ~Leaving(s)
                             /\ ~Marked(s, {"cached"})
                             => localAddress_[s] = Name(sock_[s])
=============================================================================
