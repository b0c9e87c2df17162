---------------------------- MODULE SocketProofs ----------------------------
(***************************************************************************)
(* What a Socket remembers against the kernel, for any number of objects,  *)
(* fibers and descriptors, as long as no two fibers are inside member      *)
(* functions of one object at once.                                        *)
(*                                                                         *)
(* The properties are not inductive.  An object's descriptor stays its own *)
(* because close() leaves only a moment in which sock_ names a number that *)
(* may be in use again (Owners); a connect that waits still has its        *)
(* socket, or the object was closed (Waits), and no other object has got   *)
(* it; and what a connect will report is settled before it reports it      *)
(* (Pends).                                                                *)
(***************************************************************************)
EXTENDS Socket, TLAPS

Peers == Addresses \cup Foreign \cup {Unknown, None}
NameOf == [name : {"no", "any", "own"}, id : Nat]
Labels == {"idle", "make", "made", "ready", "wait", "woken", "done", "named", "caching",
           "peered", "accept", "closing", "closed"}

Frames == [at : Labels, kind : {"none", "bind", "connect"}, on : Objects \cup {None},
           to : Peers \cup NameOf, n : Numbers \cup {-1}, id : Nat]
Kernels == [id : Nat, name : {"no", "any", "own"}, listening : BOOLEAN, peer : Peers]

Types ==
    /\ alive \subseteq Objects /\ udp \subseteq alive
    /\ sock_ \in [Objects -> Numbers \cup {-1}]
    /\ isConnected_ \in [Objects -> BOOLEAN]
    /\ localAddress_ \in [Objects -> NameOf \cup {None}]
    /\ remoteAddress_ \in [Objects -> Peers]
    /\ kern \in [Numbers -> Kernels]
    /\ made \in Nat
    /\ busy \in [Fibers -> Frames]
    /\ torn \in BOOLEAN

InConnect(f) == busy[f].kind = "connect"

\* A fiber in a member function has an object that exists.
Fits(A, b) ==
    /\ IF b.at = "idle" THEN b.on = None ELSE b.on \in A
    /\ b.kind = "bind" => b.to.name \in {"any", "own"}
    /\ b.kind = "connect" => b.to \in Peers \ {None}
    /\ b.at = "caching" => b.to \in NameOf
    /\ b.at = "peered" => b.to \in Peers
    /\ b.at \in Waiting => b.n \in Numbers
    /\ b.kind = "connect" => b.at \in {"make", "made", "ready", "wait", "woken", "done"}
    /\ b.at \in {"wait", "woken", "done"} => b.kind = "connect"

Raced(s)  == <<s, "raced">> \in marks
Unsure(s) == <<s, "unsure">> \in marks
Cached(s) == <<s, "cached">> \in marks

\* An object that does not exist is as new.
Fresh(s) ==
    /\ sock_[s] = -1 /\ ~isConnected_[s]
    /\ localAddress_[s] = None /\ remoteAddress_[s] = None
    /\ ~Raced(s) /\ ~Unsure(s) /\ ~Cached(s)

Dead ==
    /\ \A f \in Fibers : Fits(alive, busy[f])
    /\ \A s \in Objects \ alive : Fresh(s)

\* The object has a descriptor, and not only for the moment between ::close(sock_) and
\* sock_ = -1.
Keeps(s) == isValid(s) /\ ~Leaving(s)

\* Nobody shares an object with a fiber that runs in it.
Alone(s) == \A f, g \in Fibers : Inside(f, s) /\ Inside(g, s) => f = g

\* What holds where a fiber is.
Places(s) ==
    \A f \in Fibers : busy[f].on = s =>
        /\ At(f, "make") => sock_[s] = -1
        /\ At(f, "ready") => Keeps(s)
        /\ At(f, "closing") => Keeps(s) /\ ~isConnected_[s]
        /\ At(f, "closing") /\ busy[f].id # 0 => kern[sock_[s]].id = busy[f].id
        /\ At(f, "closed") => ~isConnected_[s]
        /\ At(f, "caching") => Keeps(s) /\ busy[f].to = Name(sock_[s])
        /\ At(f, "peered") => remoteAddress_[s] = None
        /\ InConnect(f) => remoteAddress_[s] # None

\* A connect that waits.
Waits(s) ==
    \A f \in Fibers : busy[f].on = s /\ busy[f].at \in Waiting =>
        /\ busy[f].id # 0 /\ busy[f].id <= made
        /\ ~Raced(s) => Keeps(s) /\ kern[sock_[s]].id = busy[f].id
        /\ \A n \in Numbers : kern[n].id = busy[f].id => sock_[s] = n /\ Keeps(s)
        /\ \A g \in Fibers : busy[g].on = s /\ busy[g].at \in {"closing", "closed"} => Raced(s)

\* A TCP connect that nothing came between.
Pends(s) ==
    s \notin udp =>
      /\ \A f \in Fibers : busy[f].on = s /\ InConnect(f) /\ ~Raced(s) /\ ~Unsure(s) =>
            /\ ~isConnected_[s] /\ remoteAddress_[s] = busy[f].to
            /\ At(f, "done") => Keeps(s) /\ kern[sock_[s]].peer = remoteAddress_[s]
            /\ \A g \in Fibers : busy[g].on = s /\ InConnect(g) => g = f
      /\ isConnected_[s] => remoteAddress_[s] # None

Honest(s) ==
    s \notin udp /\ isConnected_[s] /\ ~Raced(s) /\ ~Unsure(s) =>
        Keeps(s) /\ kern[sock_[s]].peer = remoteAddress_[s]

Current(s) ==
    localAddress_[s] # None /\ Keeps(s) /\ ~Cached(s) => localAddress_[s] = Name(sock_[s])

SoundAt(s) ==
    /\ Alone(s) /\ Places(s) /\ Waits(s) /\ Pends(s) /\ Honest(s) /\ Current(s)
    /\ Keeps(s) => kern[sock_[s]].id # 0

Owners ==
    /\ \A s, t \in Objects : Keeps(s) /\ Keeps(t) /\ sock_[s] = sock_[t] => s = t
    /\ \A n \in Numbers : kern[n].id # 0 => \E s \in Objects : sock_[s] = n /\ Keeps(s)
    /\ \A n \in Numbers : kern[n].id <= made
    /\ \A n, m \in Numbers : kern[n].id = kern[m].id /\ kern[n].id # 0 => n = m

Sound == Owners /\ \A s \in Objects : SoundAt(s)

IInv == Types /\ Dead /\ (~torn => Sound)

-----------------------------------------------------------------------------
(* Types *)

LEMMA IdleTypes == Idle \in Frames /\ Closed \in Kernels
BY SocketAssumption DEF Idle, Frames, Labels, Peers, Closed, Kernels

LEMMA InTypes ==
    ASSUME NEW l \in Labels, NEW s \in Objects
    PROVE  In(l, s) \in Frames
BY IdleTypes DEF In, Frames, Idle

LEMMA LabelTypes ==
    ASSUME Types, NEW s \in Objects, NEW f \in Fibers
    PROVE  /\ In("make", s) \in Frames /\ In("ready", s) \in Frames
           /\ In("peered", s) \in Frames /\ In("named", s) \in Frames
           /\ In("caching", s) \in Frames /\ In("accept", s) \in Frames
           /\ In("closing", s) \in Frames /\ In("closed", s) \in Frames
           /\ [busy[f] EXCEPT !.at = "made"] \in Frames
           /\ [busy[f] EXCEPT !.at = "woken"] \in Frames
           /\ [busy[f] EXCEPT !.at = "done"] \in Frames
           /\ Idle \in Frames
           /\ sock_[s] \in Numbers \cup {-1}
<1>1. {"make", "ready", "peered", "named", "caching", "accept", "closing", "closed",
       "made", "woken", "done"} \subseteq Labels
  BY DEF Labels
<1>2. ASSUME NEW l \in Labels
      PROVE  In(l, s) \in Frames /\ [busy[f] EXCEPT !.at = l] \in Frames
  BY InTypes DEF Types, Frames
<1> QED  BY <1>1, <1>2, IdleTypes DEF Types

\* Steps that the actions share.
LEMMA GotoTypes ==
    ASSUME Types, NEW f \in Fibers, NEW b \in Frames, Goto(f, b)
    PROVE  busy' \in [Fibers -> Frames]
BY DEF Types, Goto

LEMMA WokenTypes ==
    ASSUME Types, NEW n
    PROVE  WokenOn(n) \in [Fibers -> Frames]
BY DEF Types, WokenOn, Frames, Labels

LEMMA KernelClosedTypes ==
    ASSUME Types, NEW n \in Numbers \cup {-1}
    PROVE  KernelClosed(n) \in [Numbers -> Kernels]
BY IdleTypes DEF Types, KernelClosed, isOpen

LEMMA NewKernelTypes ==
    ASSUME Types, NEW n \in Numbers, NEW name \in {"no", "any", "own"}, NEW peer \in Peers,
           NewKernel(n, name, peer)
    PROVE  kern' \in [Numbers -> Kernels] /\ made' \in Nat
BY DEF Types, NewKernel, Kernels

LEMMA NameTypes ==
    ASSUME Types, NEW n \in Numbers
    PROVE  Name(n) \in NameOf
BY DEF Types, Name, NameOf, Kernels

LEMMA ShutsTypes ==
    ASSUME Types, NEW f \in Fibers, NEW s \in Objects, NEW id \in Nat, Shuts(f, s, id)
    PROVE  busy' \in [Fibers -> Frames] /\ isConnected_' \in [Objects -> BOOLEAN]
<1>1. Idle \in Frames /\ In("closing", s) \in Frames
  BY IdleTypes, InTypes DEF Labels
<1>2. [In("closing", s) EXCEPT !.id = id] \in Frames
  BY <1>1 DEF Frames
<1> QED  BY <1>1, <1>2, GotoTypes DEF Shuts, Types

LEMMA NamedTypes ==
    ASSUME Types, NEW s, NEW n \in Numbers, NEW name \in {"no", "any", "own"}, Named(s, n, name)
    PROVE  kern' \in [Numbers -> Kernels]
BY DEF Types, Named, Kernels

LEMMA LifeTypes ==
    ASSUME Types, NEW s \in Objects, CreateTCP(s) \/ CreateUDP(s) \/ Destroy(s), UNCHANGED torn
    PROVE  Types'
<1>1. CASE CreateTCP(s)
  BY <1>1 DEF Types, CreateTCP, kernVars
<1>2. CASE CreateUDP(s)
  <2>1. kern' \in [Numbers -> Kernels] /\ made' \in Nat /\ sock_' \in [Objects -> Numbers \cup {-1}]
    BY <1>2, NewKernelTypes DEF CreateUDP, Types, kernVars, Peers
  <2> QED  BY <1>2, <2>1 DEF Types, CreateUDP
<1>3. CASE Destroy(s)
  <2>1. kern' \in [Numbers -> Kernels] /\ busy' \in [Fibers -> Frames]
    BY <1>3, KernelClosedTypes, WokenTypes DEF Destroy, Types
  <2> QED  BY <1>3, <2>1 DEF Types, Destroy, NameOf, Peers
<1> QED  BY <1>1, <1>2, <1>3

LEMMA CallTypes ==
    ASSUME Types, NEW f \in Fibers, NEW s \in Objects, Call(f, s), torn' \in BOOLEAN
    PROVE  Types'
<1>0. /\ In("make", s) \in Frames /\ In("ready", s) \in Frames
      /\ In("peered", s) \in Frames /\ In("named", s) \in Frames
      /\ In("accept", s) \in Frames
      /\ sock_[s] \in Numbers \cup {-1}
  BY LabelTypes
<1>1. CASE Close(f, s)
  BY <1>1, ShutsTypes DEF Types, Close, kernVars
<1>2. ASSUME NEW a \in Peers, NEW local \in {localAddress_[s], None}, Begin(f, s, a, local)
      PROVE  Types'
  <2>1. In(Tested(s), s) \in Frames
    BY InTypes DEF Labels, Tested
  <2>2. [In(Tested(s), s) EXCEPT !.kind = "connect", !.to = a] \in Frames
    BY <2>1 DEF Frames
  <2> QED  BY <1>2, <2>2, GotoTypes DEF Types, Begin, kernVars
<1>3. CASE reconnect(f, s)
  BY <1>2, <1>3 DEF reconnect, Types
<1>4. CASE \E a \in Addresses \cup Foreign : Connect(f, s, a)
  BY <1>2, <1>4 DEF Connect, Peers
<1>5. CASE getLocalAddress(f, s)
  BY <1>0, <1>5, GotoTypes DEF getLocalAddress, Types, objVars, kernVars
<1>6. CASE getRemoteAddress(f, s)
  <2>1. ASSUME NEW a \in Peers PROVE [In("peered", s) EXCEPT !.to = a] \in Frames
    BY <1>0 DEF Frames
  <2>2. isOpen(sock_[s]) => kern[sock_[s]].peer \in Peers
    BY <1>0 DEF Types, Kernels, isOpen
  <2>3. (IF isOpen(sock_[s]) /\ kern[sock_[s]].peer # None
         THEN kern[sock_[s]].peer ELSE Unknown) \in Peers
    BY <2>2 DEF Peers
  <2> QED  BY <1>6, <2>1, <2>3, GotoTypes DEF getRemoteAddress, Types, objVars, kernVars
<1>7. CASE cancelWrite(f, s)
  BY <1>7, WokenTypes DEF cancelWrite, Types, objVars, kernVars
<1>8. CASE Listen(f, s)
  <2> DEFINE n == sock_[s]
             k == [kern[n] EXCEPT !.listening = TRUE, !.name = AutoName(n)]
  <2>1. n \in Numbers /\ AutoName(n) \in {"no", "any", "own"}
    BY <1>8 DEF Listen, isOpen, Types, AutoName, Kernels
  <2>2. k \in Kernels
    BY <2>1 DEF Types, Kernels
  <2>3. kern' = [kern EXCEPT ![n] = k]
    BY <1>8 DEF Listen
  <2>4. kern' \in [Numbers -> Kernels]
    BY <2>2, <2>3 DEF Types
  <2> QED  BY <1>8, <2>4 DEF Listen, Types, objVars
<1>9. CASE sendTo(f, s)
  <2>1. sock_[s] \in Numbers /\ AutoName(sock_[s]) \in {"no", "any", "own"}
    BY <1>9 DEF sendTo, isOpen, Types, AutoName, Kernels
  <2> QED  BY <1>9, <2>1, NamedTypes DEF sendTo, Types, objVars
<1>10. CASE Accept(f, s)
  <2>1. [In("accept", s) EXCEPT !.n = sock_[s]] \in Frames
    BY <1>0 DEF Frames, Types
  <2> QED  BY <1>10, <2>1, GotoTypes DEF Accept, Types, objVars, kernVars
<1>11. CASE \E name \in {"any", "own"} : Bind(f, s, name)
  <2>1. PICK name \in {"any", "own"} : Bind(f, s, name)
    BY <1>11
  <2>2. In(Tested(s), s) \in Frames
    BY InTypes DEF Labels, Tested
  <2>3. [In(Tested(s), s) EXCEPT !.kind = "bind", !.to = Wish(name)] \in Frames
    BY <2>2 DEF Frames, Wish, NameOf
  <2> QED  BY <2>1, <2>3, GotoTypes DEF Bind, Types, objVars, kernVars
<1> QED  BY <1>1, <1>3, <1>4, <1>5, <1>6, <1>7, <1>8, <1>9, <1>10, <1>11 DEF Call

LEMMA StepTypes ==
    ASSUME Types, Dead, NEW f \in Fibers, Step(f) \/ Wakes(f), torn' \in BOOLEAN
    PROVE  Types' /\ busy[f].on \in alive /\ busy[f].at # "idle"
<1> DEFINE s == busy[f].on
<1>a. busy[f].at # "idle"
  BY DEF Step, CloseCalls, CloseForgets, newSock, GivesUp, CallsBind, CallsConnect, CallsConnectBad,
     Established, WokenSucceeds, ConnectFails, ConnectSucceeds, AsksName, CachesName, CachesPeer,
     Wakes, AddEventRefused, AcceptFails, AcceptSucceeds, At, Waiting
<1>b. s \in alive /\ s \in Objects
  BY <1>a DEF Dead, Fits, At, Types
<1> SUFFICES Types'
  BY <1>a, <1>b
<1>0. /\ In("named", s) \in Frames /\ In("caching", s) \in Frames
      /\ In("closing", s) \in Frames /\ In("closed", s) \in Frames
      /\ [busy[f] EXCEPT !.at = "made"] \in Frames
      /\ [busy[f] EXCEPT !.at = "woken"] \in Frames
      /\ [busy[f] EXCEPT !.at = "done"] \in Frames
      /\ Idle \in Frames
      /\ sock_[s] \in Numbers \cup {-1}
  BY <1>b, LabelTypes
<1>n. isOpen(sock_[s]) => sock_[s] \in Numbers
  BY <1>0 DEF isOpen
<1>1. CASE CloseCalls(f)
  <2>1. ASSUME NEW F \in [Fibers -> Frames], NEW b \in Frames
        PROVE  [F EXCEPT ![f] = b] \in [Fibers -> Frames]
    OBVIOUS
  <2>2. (IF sock_[s] # -1 THEN WokenOn(sock_[s]) ELSE busy) \in [Fibers -> Frames]
    BY WokenTypes DEF Types
  <2>3. busy' \in [Fibers -> Frames]
    BY <1>0, <1>1, <2>1, <2>2 DEF CloseCalls
  <2> QED  BY <1>0, <1>1, <2>3, KernelClosedTypes DEF CloseCalls, Types, objVars
<1>2. CASE CloseForgets(f)
  BY <1>0, <1>b, <1>2, GotoTypes DEF CloseForgets, Types, Return, kernVars
<1>3. CASE newSock(f)
  <2>1. kern' \in [Numbers -> Kernels] /\ made' \in Nat /\ sock_' \in [Objects -> Numbers \cup {-1}]
    BY <1>3, <1>b, NewKernelTypes DEF newSock, Types, kernVars, Peers
  <2> QED  BY <1>0, <1>3, <2>1, GotoTypes DEF newSock, Types
<1>4. CASE GivesUp(f)
  BY <1>0, <1>4, GotoTypes DEF GivesUp, Types, Return, objVars, kernVars
<1>5. CASE CallsBind(f)
  <2>1. CASE Return(f) /\ UNCHANGED <<kern, marks>>
    BY <1>0, <1>5, <2>1, GotoTypes DEF CallsBind, Types, Return, objVars
  <2>2. CASE isOpen(sock_[s]) /\ Named(s, sock_[s], busy[f].to.name) /\ Goto(f, In("named", s))
    <3>1. busy[f].to.name \in {"any", "own"}
      BY <1>5 DEF CallsBind, Dead, Fits
    <3>2. kern' \in [Numbers -> Kernels]
      BY <1>n, <2>2, <3>1, NamedTypes
    <3> QED  BY <1>0, <1>5, <2>2, <3>2, GotoTypes DEF CallsBind, Types, objVars
  <2> QED  BY <1>5, <2>1, <2>2 DEF CallsBind
<1>6. CASE CallsConnect(f)
  <2>1. sock_[s] \in Numbers /\ kern[sock_[s]].id \in Nat /\ kern[sock_[s]].name \in {"no", "any", "own"}
    BY <1>6, <1>n DEF CallsConnect, Types, Kernels
  <2>2. ASSUME NEW n \in Numbers, NEW i \in Nat
        PROVE  [busy[f] EXCEPT !.at = "wait", !.n = n, !.id = i] \in Frames
    BY <1>0 DEF Types, Frames, Labels
  <2>3. [busy[f] EXCEPT !.at = "wait", !.n = sock_[s], !.id = kern[sock_[s]].id] \in Frames
    BY <2>1, <2>2
  <2>4. kern' \in [Numbers -> Kernels]
    BY <1>6, <2>1, NamedTypes DEF CallsConnect
  <2> QED  BY <1>6, <2>3, <2>4, GotoTypes DEF CallsConnect, Types, objVars
<1>7. CASE CallsConnectBad(f)
  BY <1>b, <1>7, ShutsTypes DEF CallsConnectBad, Types, kernVars
<1>8. CASE Established(f)
  <2>1. busy[f].to \in Peers /\ busy[f].n \in Numbers
    BY <1>8 DEF Established, Dead, Fits, At, Waiting
  <2>2. kern' \in [Numbers -> Kernels]
    BY <1>8, <2>1 DEF Established, Types, Kernels
  <2> QED  BY <1>0, <1>8, <2>2, GotoTypes DEF Established, Types, objVars
<1>9. CASE WokenSucceeds(f)
  BY <1>0, <1>9, GotoTypes DEF WokenSucceeds, Types, objVars, kernVars
<1>10. CASE ConnectFails(f)
  <2>1. (IF Marked(s, {"raced"}) THEN 0 ELSE busy[f].id) \in Nat
    BY DEF Types, Frames
  <2> QED  BY <1>b, <1>10, <2>1, ShutsTypes DEF ConnectFails, Types, kernVars
<1>11. CASE ConnectSucceeds(f)
  BY <1>0, <1>b, <1>11, GotoTypes DEF ConnectSucceeds, Types, kernVars
<1>12. CASE AsksName(f)
  <2>1. isOpen(sock_[s]) => [In("caching", s) EXCEPT !.to = Name(sock_[s])] \in Frames
    BY <1>0, <1>n, NameTypes DEF Frames
  <2> QED  BY <1>0, <1>12, <2>1, GotoTypes DEF AsksName, Types, Return, objVars, kernVars
<1>13. CASE CachesName(f)
  BY <1>0, <1>b, <1>13, GotoTypes DEF CachesName, Dead, Fits, At, Types, Return, kernVars
<1>14. CASE CachesPeer(f)
  BY <1>0, <1>b, <1>14, GotoTypes DEF CachesPeer, Dead, Fits, At, Types, Return, kernVars
<1>15. CASE AddEventRefused(f)
  BY <1>0, <1>15, GotoTypes DEF AddEventRefused, Types, objVars, kernVars
<1>16. CASE AcceptFails(f)
  BY <1>0, <1>16, GotoTypes DEF AcceptFails, Types, Return, objVars, kernVars
<1>17. CASE \E t \in Objects, m \in Numbers, a \in Addresses : AcceptSucceeds(f, t, m, a)
  <2>1. PICK t \in Objects, m \in Numbers, a \in Addresses : AcceptSucceeds(f, t, m, a)
    BY <1>17
  <2>2. kern' \in [Numbers -> Kernels] /\ made' \in Nat /\ busy' \in [Fibers -> Frames]
    BY <1>0, <2>1, NewKernelTypes, GotoTypes DEF AcceptSucceeds, Peers, Return
  <2> QED  BY <2>1, <2>2 DEF AcceptSucceeds, Types, NameOf, Peers
<1> QED
  BY <1>1, <1>2, <1>3, <1>4, <1>5, <1>6, <1>7, <1>8, <1>9, <1>10, <1>11, <1>12, <1>13, <1>14,
     <1>15, <1>16, <1>17 DEF Step, Wakes

-----------------------------------------------------------------------------
(* Objects that exist *)

\* What cancelAll does to the frame of a fiber.
LEMMA WokenFacts ==
    ASSUME Types, NEW n, NEW g \in Fibers
    PROVE  /\ WokenOn(n)[g].on = busy[g].on /\ WokenOn(n)[g].kind = busy[g].kind
           /\ WokenOn(n)[g].to = busy[g].to /\ WokenOn(n)[g].n = busy[g].n
           /\ WokenOn(n)[g].id = busy[g].id
           /\ WokenOn(n)[g].at = busy[g].at
                \/ (busy[g].at = "wait" /\ WokenOn(n)[g].at = "woken" /\ busy[g].on \notin udp)
BY DEF Types, WokenOn, Frames, At

LEMMA WokenFits ==
    ASSUME Types, NEW n, NEW g \in Fibers, NEW A, Fits(A, busy[g])
    PROVE  Fits(A, WokenOn(n)[g])
<1> USE DEF Fits, Waiting
<1>1. CASE WokenOn(n)[g].at = busy[g].at
  BY <1>1, WokenFacts
<1>2. CASE busy[g].at = "wait" /\ WokenOn(n)[g].at = "woken"
  BY <1>2, WokenFacts
<1> QED  BY <1>1, <1>2, WokenFacts

LEMMA GotoFrames ==
    ASSUME Types, NEW f \in Fibers, NEW b, Goto(f, b)
    PROVE  /\ busy'[f] = b
           /\ \A g \in Fibers \ {f} : busy'[g] = busy[g]
BY DEF Types, Goto

-----------------------------------------------------------------------------
(* A step of the fibers F in the object s leaves the other objects alone *)

\* The frame of g is the same, but for a wake-up.
SameFrame(g) ==
    /\ busy'[g].on = busy[g].on /\ busy'[g].kind = busy[g].kind /\ busy'[g].to = busy[g].to
    /\ busy'[g].n = busy[g].n /\ busy'[g].id = busy[g].id
    /\ busy'[g].at = busy[g].at
         \/ (busy[g].at = "wait" /\ busy'[g].at = "woken" /\ busy[g].on \notin udp)

SameObject(t) ==
    /\ sock_'[t] = sock_[t] /\ (isConnected_'[t] <=> isConnected_[t])
    /\ localAddress_'[t] = localAddress_[t] /\ remoteAddress_'[t] = remoteAddress_[t]
    /\ (t \in alive' <=> t \in alive) /\ (t \in udp' <=> t \in udp)
    /\ (Raced(t)' <=> Raced(t)) /\ (Unsure(t)' <=> Unsure(t)) /\ (Cached(t)' <=> Cached(t))

\* No socket that another object keeps is touched, and new ones have new serial numbers.
SameKernel(s) ==
    /\ \A t \in Objects \ {s} : Keeps(t) => kern'[sock_[t]] = kern[sock_[t]]
    /\ \A n \in Numbers : kern'[n].id \in {kern[n].id, 0} \/ kern'[n].id > made
    /\ made' >= made

Local(F, s) ==
    /\ \A g \in Fibers \ F : SameFrame(g)
    /\ \A g \in F : \A t \in Objects \ {s} :
          (busy[g].on = t => busy[g].at = "accept") /\ busy'[g].on # t
    /\ \A t \in Objects \ {s} : SameObject(t)

LEMMA SameLeaving ==
    ASSUME Types, NEW F \in SUBSET Fibers, NEW s, NEW t \in Objects \ {s}, Local(F, s)
    PROVE  /\ Leaving(t)' <=> Leaving(t)
           /\ Keeps(t)' <=> Keeps(t)
<1>1. \A g \in Fibers : (busy'[g].on = t /\ busy'[g].at = "closed")
                           <=> (busy[g].on = t /\ busy[g].at = "closed")
  BY DEF Local, SameFrame
<1>2. Leaving(t)' <=> Leaving(t)
  BY <1>1 DEF Leaving
<1> QED  BY <1>2 DEF Keeps, isValid, Local, SameObject

LEMMA Others ==
    ASSUME Types, Types', NEW F \in SUBSET Fibers, NEW s, Local(F, s), SameKernel(s),
           NEW t \in Objects \ {s}, SoundAt(t)
    PROVE  SoundAt(t)'
<1>1. Keeps(t)' <=> Keeps(t)
  BY SameLeaving
<1>2. \A g \in Fibers \ F : SameFrame(g)
  BY DEF Local
<1>3. \A g \in Fibers : g \in F => busy'[g].on # t /\ (busy[g].on = t => busy[g].at = "accept")
  BY DEF Local
<1>4. SameObject(t)
  BY DEF Local
<1>5. Keeps(t) => kern'[sock_[t]] = kern[sock_[t]] /\ Name(sock_[t])' = Name(sock_[t])
  BY <1>4 DEF SameKernel, Name, SameObject
<1>6. \A g \in Fibers : busy'[g].on = t => g \notin F /\ SameFrame(g)
  BY <1>2, <1>3
<1>7. Alone(t)'
  <2>1. \A g \in Fibers : Inside(g, t)' => Inside(g, t)
    BY <1>4, <1>6 DEF Inside, SameFrame, SameObject, Waiting
  <2> QED  BY <2>1 DEF Alone, SoundAt
<1>8. Places(t)'
  BY <1>1, <1>4, <1>5, <1>6 DEF Places, SoundAt, SameFrame, SameObject, At, InConnect
<1>9. Waits(t)'
  <2> SUFFICES ASSUME NEW f \in Fibers, busy'[f].on = t, busy'[f].at \in Waiting
               PROVE  /\ busy'[f].id # 0 /\ busy'[f].id <= made'
                      /\ ~Raced(t)' => Keeps(t)' /\ kern'[sock_'[t]].id = busy'[f].id
                      /\ \A n \in Numbers : kern'[n].id = busy'[f].id => sock_'[t] = n /\ Keeps(t)'
                      /\ \A g \in Fibers : busy'[g].on = t /\ busy'[g].at \in {"closing", "closed"}
                            => Raced(t)'
    BY DEF Waits, Waiting
  <2>1. busy[f].on = t /\ busy[f].at \in Waiting /\ busy'[f].id = busy[f].id /\ busy[f].id \in Nat
    BY <1>6 DEF SameFrame, Waiting, Types, Frames
  <2>2. \A n \in Numbers : kern'[n].id = busy[f].id => kern[n].id = busy[f].id
    BY <2>1 DEF SameKernel, SoundAt, Waits, Types, Kernels
  <2> QED  BY <1>1, <1>4, <1>5, <1>6, <2>1, <2>2
           DEF SoundAt, Waits, SameFrame, SameObject, SameKernel, Types
<1>10. Pends(t)'
  BY <1>1, <1>4, <1>5, <1>6 DEF SoundAt, Pends, SameFrame, SameObject, At, InConnect
<1>11. Honest(t)' /\ Current(t)' /\ (Keeps(t)' => kern'[sock_'[t]].id # 0)
  BY <1>1, <1>4, <1>5 DEF SoundAt, Honest, Current, SameObject
<1> QED  BY <1>7, <1>8, <1>9, <1>10, <1>11 DEF SoundAt

\* A step that keeps the sockets where they are keeps the owners.
LEMMA OwnersKept ==
    ASSUME Types, Types', NEW F \in SUBSET Fibers, NEW s \in Objects, Local(F, s), Owners,
           sock_'[s] = sock_[s], Keeps(s)' <=> Keeps(s), made' = made,
           \A n \in Numbers : kern'[n].id = kern[n].id
    PROVE  Owners'
<1>1. \A t \in Objects : sock_'[t] = sock_[t] /\ (Keeps(t)' <=> Keeps(t))
  <2>1. ASSUME NEW t \in Objects \ {s} PROVE sock_'[t] = sock_[t] /\ (Keeps(t)' <=> Keeps(t))
    BY SameLeaving DEF Local, SameObject
  <2> QED  BY <2>1
<1>2. \A n \in Numbers : kern'[n].id # 0 => \E t \in Objects : sock_'[t] = n /\ Keeps(t)'
  BY <1>1 DEF Owners
<1> QED  BY <1>1, <1>2 DEF Owners

Result(F, s) == Local(F, s) /\ SameKernel(s) /\ SoundAt(s)' /\ Owners'

LEMMA Concludes ==
    ASSUME Types, Types', Sound, NEW F \in SUBSET Fibers, NEW s \in Objects, Result(F, s)
    PROVE  Sound'
<1>1. \A t \in Objects \ {s} : SoundAt(t)'
  BY Others DEF Result, Sound
<1> QED  BY <1>1 DEF Sound, Result

\* Who else is in s waits.
LEMMA NotMeets ==
    ASSUME NEW f \in Fibers, NEW s \in Objects, ~Meets(f, s), NEW g \in Fibers \ {f}, busy[g].on = s
    PROVE  s \notin udp /\ busy[g].at \in {"wait", "woken", "accept"}
BY DEF Meets, Inside, Waiting

\* The same, with what follows for close().
LEMMA NobodyLeaves ==
    ASSUME Types, NEW f \in Fibers, NEW s \in Objects, ~Meets(f, s),
           ~(busy[f].on = s /\ busy[f].at = "closed")
    PROVE  ~Leaving(s) /\ (Keeps(s) <=> isValid(s))
BY NotMeets DEF Leaving, Keeps

\* Only the frame of f changes.
Moves(f, s, b) ==
    /\ busy[f].on \in {s, None} /\ b.on \in {s, None}
    /\ busy[f].at # "closed" /\ b.at \notin {"closing", "closed", "done"}
    /\ b.on = s =>
          /\ b.at = "make" => sock_[s] = -1
          /\ b.at = "ready" => Keeps(s)
          /\ b.at = "caching" => Keeps(s) /\ b.to = Name(sock_[s])
          /\ b.at = "peered" => remoteAddress_[s] = None
          /\ b.kind = "connect" => /\ busy[f].on = s /\ busy[f].kind = "connect"
                                   /\ b.to = busy[f].to
          /\ b.at \in Waiting => busy[f].at \in Waiting /\ b.id = busy[f].id /\ busy[f].on = s
    /\ ~Meets(f, s) \/ b.at = "accept" \/ (b.at \in Waiting /\ s \notin udp) \/ b.on = None

LEMMA MoveSound ==
    ASSUME Types, Types', Sound, NEW f \in Fibers, NEW s \in Objects, NEW b,
           Goto(f, b), Moves(f, s, b), UNCHANGED <<objVars, kernVars, marks>>,
           s \in udp /\ b.at = "accept" => ~Meets(f, s)
    PROVE  Sound'
<1>1. /\ busy'[f] = b /\ \A g \in Fibers \ {f} : busy'[g] = busy[g]
  BY GotoFrames
<1>2. /\ sock_' = sock_ /\ isConnected_' = isConnected_ /\ alive' = alive /\ udp' = udp
      /\ localAddress_' = localAddress_ /\ remoteAddress_' = remoteAddress_
      /\ kern' = kern /\ made' = made /\ marks' = marks
  BY DEF objVars, kernVars
<1>3. Local({f}, s)
  <2>1. \A t \in Objects \ {s} : SameObject(t)
    BY <1>2 DEF SameObject, Raced, Unsure, Cached
  <2>2. \A t \in Objects \ {s} : busy[f].on # t /\ busy'[f].on # t
    BY <1>1, SocketAssumption DEF Moves
  <2> QED  BY <1>1, <2>1, <2>2 DEF Local, SameFrame
<1>4. SameKernel(s)
  BY <1>2 DEF SameKernel, Types
<1>5. Keeps(s)' <=> Keeps(s)
  <2>1. \A g \in Fibers : (busy'[g].on = s /\ busy'[g].at = "closed")
                           <=> (busy[g].on = s /\ busy[g].at = "closed")
    BY <1>1 DEF Moves
  <2> QED  BY <1>2, <2>1 DEF Keeps, Leaving, isValid
<1>6. Owners'
  BY <1>2, <1>3, <1>5, OwnersKept DEF Sound
<1>7. SoundAt(s)'
  <2>1. SoundAt(s)
    BY DEF Sound
  <2>2. Alone(s)'
    <3>1. \A g \in Fibers \ {f} : Inside(g, s)' <=> Inside(g, s)
      BY <1>1, <1>2 DEF Inside
    <3>2. Inside(f, s)' => ~Meets(f, s)
      BY <1>1, <1>2, SocketAssumption DEF Inside, Moves, Waiting
    <3> QED  BY <2>1, <3>1, <3>2 DEF SoundAt, Alone, Meets
  <2>3. Name(sock_[s])' = Name(sock_[s])
    BY <1>2 DEF Name
  <2>4. Places(s)'
    BY <1>1, <1>2, <1>5, <2>1, <2>3 DEF Places, SoundAt, Moves, At, InConnect
  <2>5. (Raced(s)' <=> Raced(s)) /\ (Unsure(s)' <=> Unsure(s)) /\ (Cached(s)' <=> Cached(s))
    BY <1>2 DEF Raced, Unsure, Cached
  <2>6. Waits(s)'
    BY <1>1, <1>2, <1>5, <2>1, <2>5 DEF Waits, SoundAt, Moves, Waiting
  <2>7. Pends(s)'
    BY <1>1, <1>2, <1>5, <2>1, <2>5 DEF Pends, SoundAt, Moves, At, InConnect
  <2>8. Honest(s)' /\ Current(s)' /\ (Keeps(s)' => kern'[sock_'[s]].id # 0)
    BY <1>2, <1>5, <2>1, <2>3, <2>5 DEF Honest, Current, SoundAt
  <2> QED  BY <2>2, <2>4, <2>6, <2>7, <2>8 DEF SoundAt
<1> QED  BY <1>3, <1>4, <1>6, <1>7, Concludes DEF Result

-----------------------------------------------------------------------------
(* Actions that change nothing but the frame of their fiber *)

LEMMA IdleOn ==
    ASSUME Dead, NEW f \in Fibers, At(f, "idle")
    PROVE  busy[f].on = None /\ busy[f].at = "idle" /\ busy[f].kind # "connect"
BY DEF Dead, Fits, At

LEMMA InFields ==
    ASSUME NEW l, NEW s
    PROVE  In(l, s).at = l /\ In(l, s).on = s /\ In(l, s).kind = "none"
           /\ In(l, s).id = 0 /\ In(l, s).to = None /\ In(l, s).n = -1
BY DEF In, Idle

LEMMA QuietCalls ==
    ASSUME Types, Types', Dead, Sound, NEW f \in Fibers, NEW s \in Objects, ~Meets(f, s),
           \/ \E name \in {"any", "own"} : Bind(f, s, name)
           \/ getLocalAddress(f, s) \/ getRemoteAddress(f, s) \/ Accept(f, s)
    PROVE  Sound'
<1>1. Keeps(s) <=> isValid(s)
  BY NobodyLeaves, IdleOn, SocketAssumption DEF Bind, getLocalAddress, getRemoteAddress, Accept
<1>2. CASE \E name \in {"any", "own"} : Bind(f, s, name)
  <2>1. PICK name \in {"any", "own"} : Bind(f, s, name)
    BY <1>2
  <2> DEFINE b == [In(Tested(s), s) EXCEPT !.kind = "bind", !.to = Wish(name)]
  <2>2. b.at = Tested(s) /\ b.on = s /\ b.kind = "bind"
    BY DEF In, Idle
  <2>3. Moves(f, s, b)
    BY <1>1, <2>1, <2>2, IdleOn DEF Bind, Moves, Tested, isValid, Waiting
  <2>4. b.at # "accept"
    BY <2>2 DEF Tested
  <2> HIDE DEF b
  <2> QED  BY <2>1, <2>3, <2>4, MoveSound DEF Bind, b
<1>3. CASE getLocalAddress(f, s)
  <2>1. Moves(f, s, In("named", s))
    BY <1>3, IdleOn, InFields DEF getLocalAddress, Moves, Waiting
  <2> QED  BY <1>3, <2>1, MoveSound, InFields DEF getLocalAddress
<1>4. CASE getRemoteAddress(f, s)
  <2>1. PICK a : Goto(f, [In("peered", s) EXCEPT !.to = a])
    BY <1>4 DEF getRemoteAddress
  <2> DEFINE b == [In("peered", s) EXCEPT !.to = a]
  <2>2. b.at = "peered" /\ b.on = s /\ b.kind = "none"
    BY DEF In, Idle
  <2>3. Moves(f, s, b)
    BY <1>4, <2>2, IdleOn DEF getRemoteAddress, Moves, Waiting
  <2> HIDE DEF b
  <2> QED  BY <1>4, <2>1, <2>2, <2>3, MoveSound DEF getRemoteAddress, b
<1>5. CASE Accept(f, s)
  <2> DEFINE b == [In("accept", s) EXCEPT !.n = sock_[s]]
  <2>2. b.at = "accept" /\ b.on = s /\ b.kind = "none"
    BY DEF In, Idle
  <2>3. Moves(f, s, b)
    BY <1>5, <2>2, IdleOn DEF Accept, Moves, Waiting
  <2>4. Goto(f, b) /\ UNCHANGED <<objVars, kernVars, marks>>
    BY <1>5 DEF Accept
  <2> HIDE DEF b
  <2> QED  BY <2>3, <2>4, MoveSound
<1> QED  BY <1>2, <1>3, <1>4, <1>5

LEMMA QuietSteps ==
    ASSUME Types, Types', Dead, Sound, NEW f \in Fibers, NEW s \in Objects, busy[f].on = s,
           \/ AddEventRefused(f) \/ AcceptFails(f)
           \/ /\ ~Meets(f, s)
              /\ \/ GivesUp(f) \/ AsksName(f)
                 \/ /\ busy[f].at \in {"made", "ready"}
                    /\ Return(f) /\ UNCHANGED <<objVars, kernVars, marks>>
    PROVE  Sound'
<1>1. ASSUME Return(f), UNCHANGED <<objVars, kernVars, marks>>, busy[f].at # "closed"
      PROVE  Sound'
  <2>1. Moves(f, s, Idle)
    BY <1>1, SocketAssumption DEF Moves, Idle
  <2> QED  BY <1>1, <2>1, MoveSound DEF Return, Idle
<1>2. CASE AddEventRefused(f)
  <2> DEFINE b == [busy[f] EXCEPT !.at = "woken"]
  <2>1. /\ b.at = "woken" /\ b.on = s /\ b.kind = busy[f].kind /\ b.to = busy[f].to
        /\ b.id = busy[f].id
    BY DEF Types, Frames
  <2>2. Moves(f, s, b)
    BY <1>2, <2>1 DEF AddEventRefused, Moves, At, Waiting
  <2>3. Goto(f, b) /\ UNCHANGED <<objVars, kernVars, marks>>
    BY <1>2 DEF AddEventRefused
  <2> HIDE DEF b
  <2> QED  BY <2>1, <2>2, <2>3, MoveSound
<1>3. CASE AcceptFails(f)
  BY <1>1, <1>3 DEF AcceptFails, At
<1>4. CASE GivesUp(f)
  BY <1>1, <1>4 DEF GivesUp
<1>5. CASE ~Meets(f, s) /\ AsksName(f)
  <2>0. busy[f].at = "named" /\ (Keeps(s) <=> isValid(s))
    BY <1>5, NobodyLeaves DEF AsksName, At
  <2>1. CASE localAddress_[s] = None /\ isOpen(sock_[s])
    <3> DEFINE b == [In("caching", s) EXCEPT !.to = Name(sock_[s])]
    <3>1. b.at = "caching" /\ b.on = s /\ b.kind = "none" /\ b.to = Name(sock_[s])
      BY DEF In, Idle
    <3>2. Moves(f, s, b)
      BY <1>5, <2>0, <2>1, <3>1 DEF Moves, Waiting, isOpen, isValid
    <3>3. Goto(f, b) /\ UNCHANGED <<objVars, kernVars, marks>>
      BY <1>5, <2>1 DEF AsksName
    <3> HIDE DEF b
    <3> QED  BY <3>1, <3>2, <3>3, MoveSound
  <2>2. CASE ~(localAddress_[s] = None /\ isOpen(sock_[s]))
    BY <1>1, <1>5, <2>0, <2>2 DEF AsksName
  <2> QED  BY <2>1, <2>2
<1> QED  BY <1>1, <1>2, <1>3, <1>4, <1>5

-----------------------------------------------------------------------------
(* Actions that give a socket its name *)

LEMMA NamedSound ==
    ASSUME Types, Types', Dead, Sound, NEW f \in Fibers, NEW s \in Objects, ~Meets(f, s),
           busy[f].on \in {s, None}, busy[f].at \notin {"closed", "closing", "caching", "done"},
           isOpen(sock_[s]), UNCHANGED <<objVars, made>>,
           \A n \in Numbers : kern'[n].id = kern[n].id /\ kern'[n].peer = kern[n].peer,
           \A n \in Numbers : n # sock_[s] => kern'[n] = kern[n],
           \/ marks' = marks /\ kern'[sock_[s]].name = kern[sock_[s]].name
           \/ marks' = marks \cup Outdated(s),
           \A g \in Fibers \ {f} : busy'[g] = busy[g],
           \/ busy'[f] = busy[f]
           \/ busy'[f] = In("named", s)
           \/ /\ busy[f].on = s /\ InConnect(f)
              /\ busy'[f] = [busy[f] EXCEPT !.at = "wait", !.n = sock_[s], !.id = kern[sock_[s]].id]
    PROVE  Sound'
<1> DEFINE n == sock_[s]
<1>1. /\ sock_' = sock_ /\ isConnected_' = isConnected_ /\ alive' = alive /\ udp' = udp
      /\ localAddress_' = localAddress_ /\ remoteAddress_' = remoteAddress_ /\ made' = made
  BY DEF objVars
<1>2. n \in Numbers /\ kern[n].id # 0 /\ isValid(s)
  BY DEF isOpen, Types, isValid
<1>3. Keeps(s)
  BY <1>2, NobodyLeaves
<1>4. \/ busy'[f] = busy[f]
      \/ busy'[f].at = "named" /\ busy'[f].on = s /\ busy'[f].kind = "none"
      \/ /\ busy[f].on = s /\ InConnect(f) /\ busy'[f].on = s /\ busy'[f].kind = busy[f].kind
         /\ busy'[f].to = busy[f].to /\ busy'[f].id = kern[n].id /\ busy'[f].at = "wait"
  <2>1. CASE busy'[f] = In("named", s)
    BY <2>1, InFields
  <2>2. CASE busy'[f] = [busy[f] EXCEPT !.at = "wait", !.n = n, !.id = kern[n].id]
             /\ busy[f].on = s /\ InConnect(f)
    BY <2>2 DEF Types, Frames
  <2> QED  BY <2>1, <2>2
<1>5. \A t \in Objects \ {s} :
         (Raced(t)' <=> Raced(t)) /\ (Unsure(t)' <=> Unsure(t)) /\ (Cached(t)' <=> Cached(t))
  BY DEF Raced, Unsure, Cached, Outdated
<1>6. /\ (Raced(s)' <=> Raced(s)) /\ (Unsure(s)' <=> Unsure(s)) /\ (Cached(s) => Cached(s)')
      /\ ~Cached(s)' => localAddress_[s] = None \/ kern'[n].name = kern[n].name
  BY DEF Raced, Unsure, Cached, Outdated
<1>7. Local({f}, s)
  <2>1. \A t \in Objects \ {s} : SameObject(t)
    BY <1>1, <1>5 DEF SameObject
  <2>2. \A t \in Objects \ {s} : busy[f].on # t /\ busy'[f].on # t
    BY <1>4, SocketAssumption
  <2> QED  BY <2>1, <2>2 DEF Local, SameFrame
<1>8. SameKernel(s)
  BY <1>1, <1>2, <1>3 DEF SameKernel, Types, Sound, Owners, Keeps, isValid
<1>9. Keeps(s)'
  <2>1. \A g \in Fibers : (busy'[g].on = s /\ busy'[g].at = "closed")
                           <=> (busy[g].on = s /\ busy[g].at = "closed")
    BY <1>4
  <2> QED  BY <1>1, <1>3, <2>1 DEF Keeps, Leaving, isValid
<1>10. Owners'
  BY <1>1, <1>3, <1>7, <1>9, OwnersKept DEF Sound
<1>11. SoundAt(s) /\ SocketAssumption
  BY SocketAssumption DEF Sound
<1>12. \A g \in Fibers \ {f} : busy[g].on = s => s \notin udp /\ busy[g].at \in {"wait", "woken", "accept"}
  BY NotMeets
<1>13. Alone(s)'
  BY <1>1, <1>12 DEF Inside, Alone, Waiting
<1>14. Places(s)'
  BY <1>1, <1>4, <1>9, <1>11, <1>12 DEF Places, SoundAt, At, InConnect
<1>15. Waits(s)'
  <2>1. kern[n].id <= made /\ \A m \in Numbers : kern[m].id = kern[n].id => m = n
    BY <1>2 DEF Sound, Owners
  <2>2. ~\E g \in Fibers : busy'[g].on = s /\ busy'[g].at \in {"closing", "closed"}
    BY <1>4, <1>12
  <2>3. ASSUME NEW g \in Fibers, busy'[g].on = s, busy'[g].at \in Waiting
        PROVE  /\ busy'[g].id # 0 /\ busy'[g].id <= made
               /\ ~Raced(s)' => kern'[n].id = busy'[g].id
               /\ \A m \in Numbers : kern'[m].id = busy'[g].id => n = m
    <3>1. CASE busy'[g] = busy[g]
      BY <1>6, <1>2, <1>11, <2>3, <3>1 DEF Waits, SoundAt
    <3>2. CASE g = f /\ busy'[f].at = "wait" /\ busy'[f].id = kern[n].id
      BY <1>2, <2>1, <3>2
    <3> QED  BY <1>4, <2>3, <3>1, <3>2 DEF Waiting
  <2> QED  BY <1>1, <1>9, <2>2, <2>3 DEF Waits
<1>16. Pends(s)'
  BY <1>1, <1>2, <1>4, <1>6, <1>9, <1>11 DEF Pends, SoundAt, At, InConnect
<1>17. Honest(s)' /\ (Keeps(s)' => kern'[sock_'[s]].id # 0)
  BY <1>1, <1>2, <1>6, <1>9, <1>11 DEF Honest, SoundAt
<1>18. Current(s)'
  BY <1>1, <1>2, <1>3, <1>6, <1>11 DEF Current, SoundAt, Name
<1> QED
  BY <1>7, <1>8, <1>10, <1>13, <1>14, <1>15, <1>16, <1>17, <1>18, Concludes DEF Result, SoundAt

LEMMA NamingActions ==
    ASSUME Types, Types', Dead, Sound, NEW f \in Fibers, NEW s \in Objects, ~Meets(f, s),
           \/ Listen(f, s) \/ sendTo(f, s)
           \/ busy[f].on = s /\ (CallsBind(f) \/ CallsConnect(f))
    PROVE  Sound'
<1> DEFINE n == sock_[s]
<1>0. sock_[s] \in Numbers \cup {-1} /\ DOMAIN kern = Numbers
  BY DEF Types
<1>1. ASSUME NEW name, Named(s, n, name), n \in Numbers
      PROVE  /\ \A m \in Numbers : kern'[m].id = kern[m].id /\ kern'[m].peer = kern[m].peer
             /\ \A m \in Numbers : m # n => kern'[m] = kern[m]
             /\ \/ marks' = marks /\ kern'[n].name = kern[n].name
                \/ marks' = marks \cup Outdated(s)
  BY <1>1 DEF Types, Kernels, Named, Renamed
<1>2. CASE Listen(f, s)
  <2>1. isOpen(n) /\ n \in Numbers /\ UNCHANGED <<objVars, made, busy>>
    BY <1>0, <1>2 DEF Listen, isOpen
  <2>2. kern' = [kern EXCEPT ![n] = [kern[n] EXCEPT !.listening = TRUE, !.name = AutoName(n)]]
    BY <1>2 DEF Listen
  <2>3. /\ \A m \in Numbers : kern'[m].id = kern[m].id /\ kern'[m].peer = kern[m].peer
        /\ \A m \in Numbers : m # n => kern'[m] = kern[m]
        /\ kern'[n].name = AutoName(n)
    BY <2>1, <2>2 DEF Types, Kernels
  <2>4. \/ marks' = marks /\ kern'[n].name = kern[n].name
        \/ marks' = marks \cup Outdated(s)
    BY <1>2, <2>3 DEF Listen, Renamed
  <2>5. busy[f].on = None /\ busy[f].at = "idle"
    BY <1>2, IdleOn DEF Listen
  <2> QED  BY <2>1, <2>3, <2>4, <2>5, NamedSound
<1>3. CASE sendTo(f, s)
  <2>1. isOpen(n) /\ n \in Numbers /\ UNCHANGED <<objVars, made, busy>> /\ Named(s, n, AutoName(n))
    BY <1>0, <1>3 DEF sendTo, isOpen
  <2>2. busy[f].on = None /\ busy[f].at = "idle"
    BY <1>3, IdleOn DEF sendTo
  <2> QED  BY <1>1, <2>1, <2>2, NamedSound
<1>4. CASE busy[f].on = s /\ CallsBind(f)
  <2>1. CASE Return(f) /\ UNCHANGED <<kern, marks>>
    BY <1>4, <2>1, QuietSteps DEF CallsBind, kernVars
  <2>2. CASE isOpen(n) /\ Named(s, n, busy[f].to.name) /\ Goto(f, In("named", s))
    <3>1. n \in Numbers /\ UNCHANGED <<objVars, made>> /\ busy[f].at \in {"made", "ready"}
      BY <1>0, <1>4, <2>2 DEF CallsBind, isOpen
    <3>2. busy'[f] = In("named", s) /\ \A g \in Fibers \ {f} : busy'[g] = busy[g]
      BY <2>2, GotoFrames
    <3> QED  BY <1>1, <1>4, <2>2, <3>1, <3>2, NamedSound
  <2> QED  BY <1>4, <2>1, <2>2 DEF CallsBind
<1>5. CASE busy[f].on = s /\ CallsConnect(f)
  <2> DEFINE b == [busy[f] EXCEPT !.at = "wait", !.n = n, !.id = kern[n].id]
  <2>1. PICK name : Named(s, n, name)
    BY <1>5 DEF CallsConnect
  <2>2. /\ isOpen(n) /\ n \in Numbers /\ UNCHANGED <<objVars, made>>
        /\ busy[f].at \in {"made", "ready"} /\ InConnect(f) /\ Goto(f, b)
    BY <1>0, <1>5 DEF CallsConnect, isOpen, InConnect
  <2>3. busy'[f] = b /\ \A g \in Fibers \ {f} : busy'[g] = busy[g]
    BY <2>2, GotoFrames
  <2> QED  BY <1>1, <1>5, <2>1, <2>2, <2>3, NamedSound
<1> QED  BY <1>2, <1>3, <1>4, <1>5

-----------------------------------------------------------------------------
(* connect to its end, and the caches *)

\* The sockets stay where they are and only f moves: what is left to show.
LEMMA StaysSound ==
    ASSUME Types, Types', Sound, NEW f \in Fibers, NEW s \in Objects, ~Meets(f, s),
           busy[f].on \in {s, None}, busy[f].at # "closed",
           busy'[f].on \in {s, None}, busy'[f].at # "closed",
           \A g \in Fibers \ {f} : busy'[g] = busy[g],
           sock_' = sock_, alive' = alive, udp' = udp, made' = made,
           \A t \in Objects \ {s} : SameObject(t),
           \A n \in Numbers : kern'[n].id = kern[n].id,
           \A n \in Numbers : (n = sock_[s] /\ Keeps(s)) \/ kern'[n] = kern[n],
           Places(s)', Waits(s)', Pends(s)', Honest(s)', Current(s)'
    PROVE  Sound'
<1>1. Local({f}, s)
  BY SocketAssumption DEF Local, SameFrame
<1>2. SameKernel(s)
  BY DEF SameKernel, Types, Kernels, Sound, Owners, Keeps, isValid
<1>3. \A t \in Objects : (Leaving(t)' <=> Leaving(t)) /\ (Keeps(t)' <=> Keeps(t))
  BY DEF Leaving, Keeps, isValid
<1>4. Owners'
  BY <1>1, <1>3, OwnersKept DEF Sound
<1>5. Keeps(s)' => kern'[sock_'[s]].id # 0
  BY <1>3 DEF Sound, SoundAt, Types, Keeps, isValid
<1>6. Alone(s)'
  BY NotMeets DEF Alone, Inside, Waiting
<1> QED  BY <1>1, <1>2, <1>4, <1>5, <1>6, Concludes DEF Result, SoundAt

\* Other fibers on s, and s itself.
LEMMA KeepsSame ==
    ASSUME NEW f \in Fibers, NEW s \in Objects, busy[f].at # "closed", busy'[f].at # "closed",
           \A g \in Fibers \ {f} : busy'[g] = busy[g], sock_' = sock_
    PROVE  Keeps(s)' <=> Keeps(s)
BY DEF Leaving, Keeps, isValid

LEMMA EstablishedSound ==
    ASSUME Types, Types', Dead, Sound, NEW f \in Fibers, NEW s \in Objects, busy[f].on = s,
           ~Meets(f, s), Established(f)
    PROVE  Sound'
<1> DEFINE n == busy[f].n
<1>1. /\ busy[f].at = "wait" /\ kern[n].id = busy[f].id /\ n \in Numbers
      /\ kern' = [kern EXCEPT ![n].peer = busy[f].to]
      /\ UNCHANGED <<objVars, made, marks>>
  BY DEF Established, At, Dead, Fits, Waiting
<1>2. /\ busy'[f].on = s /\ busy'[f].kind = busy[f].kind /\ busy'[f].to = busy[f].to
      /\ busy'[f].at = "done"
      /\ \A g \in Fibers \ {f} : busy'[g] = busy[g]
  BY GotoFrames DEF Established, Types, Frames
<1>3. /\ sock_' = sock_ /\ isConnected_' = isConnected_ /\ alive' = alive /\ udp' = udp
      /\ localAddress_' = localAddress_ /\ remoteAddress_' = remoteAddress_
      /\ made' = made /\ marks' = marks
  BY <1>1 DEF objVars
<1>4. SoundAt(s) /\ sock_[s] = n /\ Keeps(s) /\ sock_[s] \in Numbers
  BY <1>1 DEF Sound, SoundAt, Waits, Waiting
<1>5. /\ \A m \in Numbers : kern'[m].id = kern[m].id /\ kern'[m].name = kern[m].name
      /\ \A m \in Numbers : m # n => kern'[m] = kern[m]
      /\ kern'[n].peer = busy[f].to
  BY <1>1 DEF Types, Kernels
<1>6. Keeps(s)' <=> Keeps(s)
  BY <1>1, <1>2, <1>3, KeepsSame
<1>7. \A t \in Objects :
         (Raced(t)' <=> Raced(t)) /\ (Unsure(t)' <=> Unsure(t)) /\ (Cached(t)' <=> Cached(t))
  BY <1>3 DEF Raced, Unsure, Cached
<1>8. \A t \in Objects \ {s} : SameObject(t)
  BY <1>3, <1>7 DEF SameObject
<1>9. Name(sock_[s])' = Name(sock_[s])
  BY <1>3, <1>4, <1>5 DEF Name
<1>10. InConnect(f)
  BY <1>1 DEF Dead, Fits, InConnect
<1>11. Places(s)'
  BY <1>2, <1>3, <1>4, <1>5, <1>6, <1>9, <1>10 DEF Places, SoundAt, At, InConnect
<1>12. Waits(s)'
  BY <1>2, <1>3, <1>4, <1>5, <1>6, <1>7 DEF Waits, SoundAt, Waiting
<1>13. Pends(s)'
  BY <1>2, <1>3, <1>4, <1>5, <1>6, <1>7, <1>10 DEF Pends, SoundAt, At, InConnect
<1>14. Honest(s)'
  BY <1>3, <1>4, <1>7, <1>10 DEF Pends, Honest, SoundAt
<1>15. Current(s)'
  BY <1>3, <1>4, <1>6, <1>7, <1>9 DEF Current, SoundAt
<1> QED
  BY <1>1, <1>2, <1>3, <1>4, <1>5, <1>8, <1>11, <1>12, <1>13, <1>14, <1>15, StaysSound

LEMMA WokenSucceedsSound ==
    ASSUME Types, Types', Dead, Sound, NEW f \in Fibers, NEW s \in Objects, busy[f].on = s,
           ~Meets(f, s), WokenSucceeds(f)
    PROVE  Sound'
<1>1. /\ busy[f].at = "woken" /\ marks' = marks \cup {<<s, "unsure">>}
      /\ sock_' = sock_ /\ isConnected_' = isConnected_ /\ alive' = alive /\ udp' = udp
      /\ localAddress_' = localAddress_ /\ remoteAddress_' = remoteAddress_
      /\ made' = made /\ kern' = kern
  BY DEF WokenSucceeds, At, objVars, kernVars
<1>2. /\ busy'[f].on = s /\ busy'[f].kind = busy[f].kind /\ busy'[f].to = busy[f].to
      /\ busy'[f].at = "done"
      /\ \A g \in Fibers \ {f} : busy'[g] = busy[g]
  BY GotoFrames DEF WokenSucceeds, Types, Frames
<1>4. SoundAt(s)
  BY DEF Sound
<1>6. Keeps(s)' <=> Keeps(s)
  BY <1>1, <1>2, KeepsSame
<1>7. /\ \A t \in Objects : (Raced(t)' <=> Raced(t)) /\ (Cached(t)' <=> Cached(t))
      /\ \A t \in Objects \ {s} : Unsure(t)' <=> Unsure(t)
      /\ Unsure(s)'
  BY <1>1 DEF Raced, Unsure, Cached
<1>8. \A t \in Objects \ {s} : SameObject(t)
  BY <1>1, <1>7 DEF SameObject
<1>9. Name(sock_[s])' = Name(sock_[s])
  BY <1>1 DEF Name
<1>11. Places(s)'
  BY <1>1, <1>2, <1>4, <1>6, <1>9 DEF Places, SoundAt, At, InConnect
<1>12. Waits(s)'
  BY <1>1, <1>2, <1>4, <1>6, <1>7 DEF Waits, SoundAt, Waiting
<1>13. Pends(s)' /\ Honest(s)'
  BY <1>1, <1>4, <1>7 DEF Pends, SoundAt, Honest
<1>15. Current(s)'
  BY <1>1, <1>4, <1>6, <1>7, <1>9 DEF Current, SoundAt
<1> QED  BY <1>1, <1>2, <1>8, <1>11, <1>12, <1>13, <1>15, StaysSound

LEMMA ConnectSucceedsSound ==
    ASSUME Types, Types', Dead, Sound, NEW f \in Fibers, NEW s \in Objects, busy[f].on = s,
           ~Meets(f, s), ConnectSucceeds(f)
    PROVE  Sound'
<1>1. /\ busy[f].at = "done" /\ marks' = marks
      /\ isConnected_' = [isConnected_ EXCEPT ![s] = TRUE]
      /\ sock_' = sock_ /\ alive' = alive /\ udp' = udp
      /\ localAddress_' = localAddress_ /\ remoteAddress_' = remoteAddress_
      /\ made' = made /\ kern' = kern
  BY DEF ConnectSucceeds, At, kernVars
<1>2. /\ busy'[f].on = s /\ busy'[f].kind = "none" /\ busy'[f].at = "named"
      /\ \A g \in Fibers \ {f} : busy'[g] = busy[g]
  BY GotoFrames, InFields DEF ConnectSucceeds
<1>3. isConnected_'[s] /\ \A t \in Objects \ {s} : isConnected_'[t] <=> isConnected_[t]
  BY <1>1 DEF Types
<1>4. SoundAt(s) /\ InConnect(f)
  BY <1>1 DEF Sound, Dead, Fits, InConnect
<1>5. \A g \in Fibers \ {f} : busy[g].on = s => busy[g].at \in {"wait", "woken", "accept"}
  BY NotMeets
<1>6. Keeps(s)' <=> Keeps(s)
  BY <1>1, <1>2, KeepsSame
<1>7. \A t \in Objects :
         (Raced(t)' <=> Raced(t)) /\ (Unsure(t)' <=> Unsure(t)) /\ (Cached(t)' <=> Cached(t))
  BY <1>1 DEF Raced, Unsure, Cached
<1>8. \A t \in Objects \ {s} : SameObject(t)
  BY <1>1, <1>3, <1>7 DEF SameObject
<1>9. Name(sock_[s])' = Name(sock_[s])
  BY <1>1 DEF Name
<1>11. Places(s)'
  BY <1>1, <1>2, <1>4, <1>5, <1>6 DEF Places, SoundAt, At, InConnect
<1>12. Waits(s)'
  BY <1>1, <1>2, <1>4, <1>6, <1>7 DEF Waits, SoundAt, Waiting
<1>13. Pends(s)' /\ Honest(s)'
  BY <1>1, <1>2, <1>4, <1>6, <1>7 DEF Pends, Places, SoundAt, Honest, At, InConnect
<1>15. Current(s)'
  BY <1>1, <1>4, <1>6, <1>7, <1>9 DEF Current, SoundAt
<1> QED  BY <1>1, <1>2, <1>8, <1>11, <1>12, <1>13, <1>15, StaysSound

LEMMA CachesNameSound ==
    ASSUME Types, Types', Dead, Sound, NEW f \in Fibers, NEW s \in Objects, busy[f].on = s,
           ~Meets(f, s), CachesName(f)
    PROVE  Sound'
<1>1. /\ busy[f].at = "caching" /\ marks' = marks
      /\ localAddress_' = [localAddress_ EXCEPT ![s] = busy[f].to]
      /\ sock_' = sock_ /\ alive' = alive /\ udp' = udp
      /\ isConnected_' = isConnected_ /\ remoteAddress_' = remoteAddress_
      /\ made' = made /\ kern' = kern
  BY DEF CachesName, At, kernVars
<1>2. /\ busy'[f].on = None /\ busy'[f].kind = "none" /\ busy'[f].at = "idle"
      /\ \A g \in Fibers \ {f} : busy'[g] = busy[g]
  BY GotoFrames DEF CachesName, Return, Idle
<1>3. /\ localAddress_'[s] = busy[f].to
      /\ \A t \in Objects \ {s} : localAddress_'[t] = localAddress_[t]
  BY <1>1 DEF Types
<1>4. SoundAt(s) /\ None # s
  BY SocketAssumption DEF Sound
<1>6. Keeps(s)' <=> Keeps(s)
  BY <1>1, <1>2, KeepsSame
<1>7. \A t \in Objects :
         (Raced(t)' <=> Raced(t)) /\ (Unsure(t)' <=> Unsure(t)) /\ (Cached(t)' <=> Cached(t))
  BY <1>1 DEF Raced, Unsure, Cached
<1>8. \A t \in Objects \ {s} : SameObject(t)
  BY <1>1, <1>3, <1>7 DEF SameObject
<1>9. Name(sock_[s])' = Name(sock_[s])
  BY <1>1 DEF Name
<1>11. Places(s)'
  BY <1>1, <1>2, <1>4, <1>6, <1>9 DEF Places, SoundAt, At, InConnect
<1>12. Waits(s)'
  BY <1>1, <1>2, <1>4, <1>6, <1>7 DEF Waits, SoundAt, Waiting
<1>13. Pends(s)' /\ Honest(s)'
  BY <1>1, <1>2, <1>4, <1>6, <1>7 DEF Pends, SoundAt, Honest, At, InConnect
<1>15. Current(s)'
  BY <1>1, <1>3, <1>4, <1>6, <1>9 DEF Current, SoundAt, Places, At
<1> QED  BY <1>1, <1>2, <1>8, <1>11, <1>12, <1>13, <1>15, StaysSound

LEMMA CachesPeerSound ==
    ASSUME Types, Types', Dead, Sound, NEW f \in Fibers, NEW s \in Objects, busy[f].on = s,
           ~Meets(f, s), CachesPeer(f)
    PROVE  Sound'
<1>1. /\ busy[f].at = "peered" /\ marks' = marks
      /\ remoteAddress_' = [remoteAddress_ EXCEPT ![s] = busy[f].to]
      /\ sock_' = sock_ /\ alive' = alive /\ udp' = udp
      /\ isConnected_' = isConnected_ /\ localAddress_' = localAddress_
      /\ made' = made /\ kern' = kern
  BY DEF CachesPeer, At, kernVars
<1>2. /\ busy'[f].on = None /\ busy'[f].kind = "none" /\ busy'[f].at = "idle"
      /\ \A g \in Fibers \ {f} : busy'[g] = busy[g]
  BY GotoFrames DEF CachesPeer, Return, Idle
<1>3. \A t \in Objects \ {s} : remoteAddress_'[t] = remoteAddress_[t]
  BY <1>1 DEF Types
<1>4. SoundAt(s) /\ None # s
  BY SocketAssumption DEF Sound
<1>5. /\ \A g \in Fibers : busy'[g].on = s => ~InConnect(g)' /\ busy'[g].at # "peered"
      /\ s \notin udp => ~isConnected_[s]
  <2>1. remoteAddress_[s] = None
    BY <1>1, <1>4 DEF SoundAt, Places, At
  <2>2. \A g \in Fibers : busy[g].on = s => ~InConnect(g)
    BY <1>4, <2>1 DEF SoundAt, Places
  <2>3. \A g \in Fibers \ {f} : busy[g].on = s => busy[g].at # "peered"
    BY NotMeets
  <2> QED  BY <1>2, <1>4, <2>1, <2>2, <2>3 DEF InConnect, SoundAt, Pends
<1>6. Keeps(s)' <=> Keeps(s)
  BY <1>1, <1>2, KeepsSame
<1>7. \A t \in Objects :
         (Raced(t)' <=> Raced(t)) /\ (Unsure(t)' <=> Unsure(t)) /\ (Cached(t)' <=> Cached(t))
  BY <1>1 DEF Raced, Unsure, Cached
<1>8. \A t \in Objects \ {s} : SameObject(t)
  BY <1>1, <1>3, <1>7 DEF SameObject
<1>9. Name(sock_[s])' = Name(sock_[s])
  BY <1>1 DEF Name
<1>11. Places(s)'
  BY <1>1, <1>2, <1>4, <1>5, <1>6, <1>9 DEF Places, SoundAt, At, InConnect
<1>12. Waits(s)'
  BY <1>1, <1>2, <1>4, <1>6, <1>7 DEF Waits, SoundAt, Waiting
<1>13. Pends(s)' /\ Honest(s)'
  BY <1>1, <1>5 DEF Pends, Honest
<1>15. Current(s)'
  BY <1>1, <1>4, <1>6, <1>7, <1>9 DEF Current, SoundAt
<1> QED  BY <1>1, <1>2, <1>8, <1>11, <1>12, <1>13, <1>15, StaysSound

LEMMA BeginSound ==
    ASSUME Types, Types', Dead, Sound, NEW f \in Fibers, NEW s \in Objects, ~Meets(f, s),
           NEW a, a # None, NEW local \in {localAddress_[s], None}, Begin(f, s, a, local)
    PROVE  Sound'
<1>1. /\ busy[f].at = "idle" /\ busy[f].on = None
      /\ remoteAddress_' = [remoteAddress_ EXCEPT ![s] = a]
      /\ localAddress_' = [localAddress_ EXCEPT ![s] = local]
      /\ sock_' = sock_ /\ alive' = alive /\ udp' = udp /\ isConnected_' = isConnected_
      /\ made' = made /\ kern' = kern
  BY IdleOn DEF Begin, At, kernVars
<1>2. /\ busy'[f].on = s /\ busy'[f].kind = "connect" /\ busy'[f].at = Tested(s)
      /\ busy'[f].to = a
      /\ \A g \in Fibers \ {f} : busy'[g] = busy[g]
  <2> DEFINE b == [In(Tested(s), s) EXCEPT !.kind = "connect", !.to = a]
  <2>1. b.on = s /\ b.kind = "connect" /\ b.at = Tested(s) /\ b.to = a
    BY DEF In, Idle
  <2>2. Goto(f, b)
    BY DEF Begin
  <2> HIDE DEF b
  <2> QED  BY <2>1, <2>2, GotoFrames
<1>3. /\ remoteAddress_'[s] = a /\ localAddress_'[s] = local
      /\ \A t \in Objects \ {s} :
            remoteAddress_'[t] = remoteAddress_[t] /\ localAddress_'[t] = localAddress_[t]
  BY <1>1 DEF Types
<1>4. SoundAt(s)
  BY DEF Sound
<1>5. \A g \in Fibers \ {f} : busy[g].on = s => busy[g].at \in {"wait", "woken", "accept"}
  BY NotMeets
<1>6. (Keeps(s)' <=> Keeps(s)) /\ (Keeps(s) <=> isValid(s))
  <2>1. busy'[f].at # "closed"
    BY <1>2 DEF Tested
  <2> QED  BY <1>1, <1>2, <2>1, KeepsSame, NobodyLeaves, SocketAssumption
<1>7. \A t \in Objects \ {s} :
         (Raced(t)' <=> Raced(t)) /\ (Unsure(t)' <=> Unsure(t)) /\ (Cached(t)' <=> Cached(t))
  BY DEF Raced, Unsure, Cached, Begin
<1>10. /\ Raced(s)' <=> Raced(s)
       /\ Unsure(s) => Unsure(s)'
       /\ ~Cached(s)' => local = None \/ ~Cached(s)
       /\ s \notin udp /\ (isConnected_[s] \/ Connecting(s) # {}) => Unsure(s)'
  BY DEF Raced, Unsure, Cached, Begin
<1>8. \A t \in Objects \ {s} : SameObject(t)
  BY <1>1, <1>3, <1>7 DEF SameObject
<1>9. Name(sock_[s])' = Name(sock_[s])
  BY <1>1 DEF Name
<1>11. Places(s)'
  <2>1. busy'[f].at \in {"make", "ready"} /\ (busy'[f].at = "make" => sock_[s] = -1)
        /\ (busy'[f].at = "ready" => Keeps(s))
    BY <1>2, <1>6 DEF Tested, isValid
  <2> QED  BY <1>1, <1>2, <1>3, <1>5, <1>6, <2>1 DEF Places, At, InConnect
<1>12. Waits(s)'
  <2>1. busy'[f].at \notin {"wait", "woken", "closing", "closed"}
    BY <1>2 DEF Tested
  <2> QED  BY <1>1, <1>2, <1>4, <1>6, <1>10, <2>1 DEF Waits, SoundAt, Waiting
<1>13. Pends(s)' /\ Honest(s)'
  <2>1. CASE Unsure(s)' \/ s \in udp
    BY <1>1, <1>3, <2>1 DEF Pends, Honest
  <2>2. CASE ~Unsure(s)' /\ s \notin udp
    <3>1. ~isConnected_[s] /\ \A g \in Fibers \ {f} : busy[g].on = s => busy[g].at = "accept"
      BY <1>5, <1>10, <2>2 DEF Connecting, Waiting
    <3>2. \A g \in Fibers \ {f} : busy[g].on = s => busy[g].kind # "connect"
      BY <3>1 DEF Dead, Fits
    <3>3. busy'[f].at # "done"
      BY <1>2 DEF Tested
    <3> QED  BY <1>1, <1>2, <1>3, <3>1, <3>2, <3>3 DEF Pends, Honest, At, InConnect
  <2> QED  BY <2>1, <2>2
<1>15. Current(s)'
  BY <1>1, <1>3, <1>4, <1>6, <1>9, <1>10 DEF Current, SoundAt
<1> QED
  <2>1. busy'[f].at # "closed"
    BY <1>2 DEF Tested
  <2> QED  BY <1>1, <1>2, <1>8, <1>11, <1>12, <1>13, <1>15, <2>1, StaysSound

LEMMA cancelWriteSound ==
    ASSUME Types, Types', Dead, Sound, NEW f \in Fibers, NEW s \in Objects, cancelWrite(f, s)
    PROVE  Sound'
<1>1. /\ sock_' = sock_ /\ alive' = alive /\ udp' = udp /\ isConnected_' = isConnected_
      /\ localAddress_' = localAddress_ /\ remoteAddress_' = remoteAddress_
      /\ made' = made /\ kern' = kern /\ marks' = marks
  BY DEF cancelWrite, objVars, kernVars
<1>2. \A g \in Fibers : SameFrame(g)
  BY WokenFacts DEF cancelWrite, SameFrame
<1>3. \A t \in Objects : SameObject(t)
  BY <1>1 DEF SameObject, Raced, Unsure, Cached
<1>4. Local({}, None) /\ SameKernel(None) /\ None \notin Objects
  BY <1>1, <1>2, <1>3, SocketAssumption DEF Local, SameKernel, Types
<1>5. \A u \in Objects : Keeps(u)' <=> Keeps(u)
  BY <1>1, <1>2 DEF Keeps, Leaving, isValid, SameFrame
<1>6. Owners'
  <2>1. Local({}, s)
    BY <1>2, <1>3 DEF Local
  <2> QED  BY <1>1, <1>5, <2>1, OwnersKept DEF Sound
<1>7. \A t \in Objects : SoundAt(t)'
  BY <1>4, Others DEF Sound
<1> QED  BY <1>6, <1>7 DEF Sound

-----------------------------------------------------------------------------
(* close *)

LEMMA ShutsSound ==
    ASSUME Types, Types', Dead, Sound, NEW f \in Fibers, NEW s \in Objects, ~Meets(f, s),
           busy[f].on \in {s, None}, busy[f].at \in Waiting \cup {"idle"},
           NEW id \in Nat, Shuts(f, s, id),
           id # 0 => busy[f].on = s /\ busy[f].at \in Waiting /\ ~Raced(s) /\ id = busy[f].id,
           UNCHANGED <<alive, sock_, localAddress_, remoteAddress_, udp, kernVars>>
    PROVE  Sound'
<1>1. /\ sock_' = sock_ /\ alive' = alive /\ udp' = udp
      /\ localAddress_' = localAddress_ /\ remoteAddress_' = remoteAddress_
      /\ made' = made /\ kern' = kern
      /\ isConnected_' = [isConnected_ EXCEPT ![s] = FALSE]
  BY DEF kernVars, Shuts
<1>2. /\ \/ ~isValid(s) /\ busy'[f].on = None /\ busy'[f].kind = "none" /\ busy'[f].at = "idle"
         \/ isValid(s) /\ busy'[f].on = s /\ busy'[f].kind = "none" /\ busy'[f].at = "closing"
               /\ busy'[f].id = id
      /\ \A g \in Fibers \ {f} : busy'[g] = busy[g]
  <2>1. CASE isValid(s)
    <3> DEFINE b == [In("closing", s) EXCEPT !.id = id]
    <3>1. b.on = s /\ b.kind = "none" /\ b.at = "closing" /\ b.id = id
      BY DEF In, Idle
    <3>2. Goto(f, b)
      BY <2>1 DEF Shuts
    <3> HIDE DEF b
    <3> QED  BY <2>1, <3>1, <3>2, GotoFrames
  <2>2. CASE ~isValid(s)
    <3>1. Goto(f, Idle)
      BY <2>2 DEF Shuts
    <3> QED  BY <2>2, <3>1, GotoFrames DEF Idle
  <2> QED  BY <2>1, <2>2
<1>3. ~isConnected_'[s] /\ \A t \in Objects \ {s} : isConnected_'[t] <=> isConnected_[t]
  BY <1>1 DEF Types
<1>4. SoundAt(s) /\ None # s
  BY SocketAssumption DEF Sound
<1>5. \A g \in Fibers \ {f} : busy[g].on = s => busy[g].at \in {"wait", "woken", "accept"}
  BY NotMeets
<1>6. (Keeps(s)' <=> Keeps(s)) /\ (Keeps(s) <=> isValid(s))
  <2>1. busy[f].at # "closed" /\ busy'[f].at # "closed"
    BY <1>2 DEF Waiting
  <2> QED  BY <1>1, <1>2, <2>1, KeepsSame, NobodyLeaves
<1>7. \A t \in Objects \ {s} :
         (Raced(t)' <=> Raced(t)) /\ (Unsure(t)' <=> Unsure(t)) /\ (Cached(t)' <=> Cached(t))
  BY DEF Raced, Unsure, Cached, Shuts, CloseMarks
<1>8. \A t \in Objects \ {s} : SameObject(t)
  BY <1>1, <1>3, <1>7 DEF SameObject
<1>9. Name(sock_[s])' = Name(sock_[s])
  BY <1>1 DEF Name
<1>10. /\ Cached(s)' <=> Cached(s)
       /\ \A g \in Fibers \ {f} : busy[g].on = s /\ busy[g].at \in Waiting => Raced(s)'
  <2>1. Cached(s)' <=> Cached(s)
    BY DEF Cached, Shuts, CloseMarks
  <2>2. ASSUME NEW g \in Fibers \ {f}, busy[g].on = s, busy[g].at \in Waiting
        PROVE  Raced(s)'
    <3>1. Connecting(s) \ {f} # {}
      BY <2>2 DEF Connecting
    <3>2. CASE isConnected_[s] \/ isValid(s)
      BY <3>1, <3>2 DEF Shuts, CloseMarks, Raced
    <3>3. CASE ~(isConnected_[s] \/ isValid(s))
      <4>1. Raced(s)
        BY <1>4, <2>2, <3>3 DEF SoundAt, Waits, Keeps
      <4> QED  BY <3>3, <4>1 DEF Shuts, Raced
    <3> QED  BY <3>2, <3>3
  <2> QED  BY <2>1, <2>2
<1>11. Places(s)'
  <2>1. id # 0 => kern[sock_[s]].id = id
    BY <1>4 DEF SoundAt, Waits
  <2> QED  BY <1>1, <1>2, <1>3, <1>4, <1>5, <1>6, <2>1 DEF Places, SoundAt, At, InConnect
<1>12. Waits(s)'
  BY <1>1, <1>2, <1>4, <1>6, <1>10 DEF Waits, SoundAt, Waiting
<1>13. Pends(s)' /\ Honest(s)'
  <2>1. \A g \in Fibers : busy'[g].on = s /\ busy'[g].kind = "connect" => Raced(s)'
    BY <1>2, <1>5, <1>10 DEF Dead, Fits, Waiting
  <2> QED  BY <1>1, <1>3, <2>1 DEF Pends, Honest, InConnect
<1>15. Current(s)'
  BY <1>1, <1>4, <1>6, <1>9, <1>10 DEF Current, SoundAt
<1> QED
  <2>1. busy[f].at # "closed" /\ busy'[f].at # "closed" /\ busy'[f].on \in {s, None}
    BY <1>2 DEF Waiting
  <2> QED  BY <1>1, <1>2, <1>8, <1>11, <1>12, <1>13, <1>15, <2>1, StaysSound

LEMMA CloseActions ==
    ASSUME Types, Types', Dead, Sound, NEW f \in Fibers, NEW s \in Objects, ~Meets(f, s),
           Close(f, s) \/ (busy[f].on = s /\ (ConnectFails(f) \/ CallsConnectBad(f)))
    PROVE  Sound'
<1>1. CASE Close(f, s)
  BY <1>1, IdleOn, ShutsSound DEF Close, At
<1>2. CASE busy[f].on = s /\ ConnectFails(f)
  <2>1. Marked(s, {"raced"}) <=> Raced(s)
    BY DEF Marked, Raced
  <2>2. PICK id \in Nat : Shuts(f, s, id) /\ id = IF Raced(s) THEN 0 ELSE busy[f].id
    BY <1>2, <2>1 DEF ConnectFails, Types, Frames
  <2> QED  BY <1>2, <2>2, ShutsSound DEF ConnectFails
<1>3. CASE busy[f].on = s /\ CallsConnectBad(f)
  <2>1. busy[f].at \in {"made", "ready"} /\ ~isOpen(sock_[s]) /\ (busy[f].at = "made" => isValid(s))
    BY <1>3 DEF CallsConnectBad, At
  <2>2. SoundAt(s) /\ (Keeps(s) <=> isValid(s))
    BY <2>1, NobodyLeaves DEF Sound
  <2>3. Keeps(s)
    BY <1>3, <2>1, <2>2 DEF SoundAt, Places, At
  <2> QED  BY <2>1, <2>2, <2>3 DEF SoundAt, isOpen, isValid
<1> QED  BY <1>1, <1>2, <1>3

LEMMA CloseCallsSound ==
    ASSUME Types, Types', Dead, Sound, NEW f \in Fibers, NEW s \in Objects, busy[f].on = s,
           ~Meets(f, s), CloseCalls(f)
    PROVE  Sound'
<1>1. /\ busy[f].at = "closing" /\ marks' = marks
      /\ sock_' = sock_ /\ alive' = alive /\ udp' = udp /\ isConnected_' = isConnected_
      /\ localAddress_' = localAddress_ /\ remoteAddress_' = remoteAddress_
      /\ made' = made /\ kern' = KernelClosed(sock_[s])
      /\ busy' = [(IF sock_[s] # -1 THEN WokenOn(sock_[s]) ELSE busy) EXCEPT ![f] = In("closed", s)]
  BY DEF CloseCalls, At, objVars
<1>2. SoundAt(s) /\ None # s /\ Owners
  BY SocketAssumption DEF Sound
<1>3. Keeps(s) /\ sock_[s] \in Numbers /\ kern[sock_[s]].id # 0 /\ ~isConnected_[s]
  BY <1>1, <1>2 DEF SoundAt, Places, At, Keeps, isValid, Types
<1>4. /\ kern'[sock_[s]].id = 0
      /\ \A m \in Numbers : m # sock_[s] => kern'[m] = kern[m]
  BY <1>1, <1>3, SocketAssumption DEF KernelClosed, isOpen, Types, Closed
<1>5. busy'[f] = In("closed", s) /\ \A g \in Fibers \ {f} : SameFrame(g)
  <2>1. WokenOn(sock_[s]) \in [Fibers -> Frames]
    BY WokenTypes
  <2>2. busy' = [WokenOn(sock_[s]) EXCEPT ![f] = In("closed", s)]
    BY <1>1, <1>3, SocketAssumption
  <2>3. busy'[f] = In("closed", s) /\ \A g \in Fibers \ {f} : busy'[g] = WokenOn(sock_[s])[g]
    BY <2>1, <2>2
  <2> QED  BY <2>3, WokenFacts DEF SameFrame
<1>6. busy'[f].on = s /\ busy'[f].at = "closed" /\ busy'[f].kind = "none"
  BY <1>5, InFields
<1>7. Local({f}, s)
  <2>1. \A t \in Objects \ {s} : SameObject(t)
    BY <1>1 DEF SameObject, Raced, Unsure, Cached
  <2> QED  BY <1>5, <1>6, <2>1 DEF Local
<1>8. SameKernel(s)
  <2>1. \A t \in Objects \ {s} : Keeps(t) => sock_[t] \in Numbers /\ sock_[t] # sock_[s]
    BY <1>2, <1>3 DEF Owners, Keeps, isValid, Types
  <2>2. \A n \in Numbers : kern'[n].id \in {kern[n].id, 0}
    BY <1>4
  <2> QED  BY <1>1, <1>4, <2>1, <2>2 DEF SameKernel, Types
<1>9. ~Keeps(s)'
  BY <1>6 DEF Keeps, Leaving
<1>10. \A t \in Objects \ {s} : Keeps(t)' <=> Keeps(t)
  BY <1>7, SameLeaving
<1>11. Owners'
  <2>1. \A n \in Numbers : kern'[n].id # 0 => n # sock_[s] /\ kern'[n].id = kern[n].id
    BY <1>4
  <2>2. \A n \in Numbers : kern'[n].id # 0 => \E t \in Objects : sock_'[t] = n /\ Keeps(t)'
    BY <1>1, <1>2, <1>10, <2>1 DEF Owners
  <2>3. \A n \in Numbers : kern'[n].id <= made'
    BY <1>1, <1>2, <1>4 DEF Owners, Types
  <2> QED  BY <1>1, <1>2, <1>9, <1>10, <2>1, <2>2, <2>3 DEF Owners
<1>12. \A g \in Fibers \ {f} : busy[g].on = s => s \notin udp /\ busy[g].at \in {"wait", "woken", "accept"}
  BY NotMeets
<1>13. Raced(s)' <=> Raced(s)
  BY <1>1 DEF Raced
<1>14. \A g \in Fibers \ {f} : busy[g].on = s /\ busy[g].at \in Waiting => Raced(s)
  BY <1>1, <1>2 DEF SoundAt, Waits
<1>15. Alone(s)'
  BY <1>1, <1>5, <1>12 DEF Alone, Inside, SameFrame, Waiting
<1>16. Places(s)'
  BY <1>1, <1>2, <1>3, <1>5, <1>6, <1>12 DEF Places, SoundAt, SameFrame, At, InConnect
<1>17. Waits(s)'
  <2>1. ASSUME NEW g \in Fibers, busy'[g].on = s, busy'[g].at \in Waiting
        PROVE  /\ busy'[g].id # 0 /\ busy'[g].id <= made' /\ Raced(s)'
               /\ \A n \in Numbers : kern'[n].id # busy'[g].id
    <3>1. g # f /\ busy[g].on = s /\ busy[g].at \in Waiting /\ busy'[g].id = busy[g].id
      BY <1>5, <1>6, <2>1 DEF SameFrame, Waiting
    <3> QED  BY <1>1, <1>2, <1>4, <1>13, <1>14, <3>1 DEF SoundAt, Waits
  <2> QED  BY <2>1 DEF Waits
<1>18. Pends(s)' /\ Honest(s)' /\ Current(s)'
  <2>1. \A g \in Fibers : busy'[g].on = s /\ busy'[g].kind = "connect" => Raced(s)'
    BY <1>5, <1>6, <1>12, <1>13, <1>14 DEF SameFrame, Dead, Fits, Waiting
  <2> QED  BY <1>1, <1>3, <1>9, <2>1 DEF Pends, Honest, Current, InConnect
<1> QED
  BY <1>7, <1>8, <1>9, <1>11, <1>15, <1>16, <1>17, <1>18, Concludes DEF Result, SoundAt

LEMMA CloseForgetsSound ==
    ASSUME Types, Types', Dead, Sound, NEW f \in Fibers, NEW s \in Objects, busy[f].on = s,
           ~Meets(f, s), CloseForgets(f)
    PROVE  Sound'
<1>1. /\ busy[f].at = "closed" /\ marks' = marks
      /\ sock_' = [sock_ EXCEPT ![s] = -1]
      /\ alive' = alive /\ udp' = udp /\ isConnected_' = isConnected_
      /\ localAddress_' = localAddress_ /\ remoteAddress_' = remoteAddress_
      /\ made' = made /\ kern' = kern
  BY DEF CloseForgets, At, kernVars
<1>2. /\ SoundAt(s) /\ None # s /\ Owners
      /\ sock_'[s] = -1 /\ \A t \in Objects \ {s} : sock_'[t] = sock_[t]
  BY <1>1, SocketAssumption DEF Sound, Types
<1>3. /\ busy'[f].on = None /\ busy'[f].at = "idle"
      /\ \A g \in Fibers \ {f} : busy'[g] = busy[g]
  BY GotoFrames DEF CloseForgets, Return, Idle
<1>4. Local({f}, s)
  <2>1. \A t \in Objects \ {s} : SameObject(t)
    BY <1>1, <1>2 DEF SameObject, Raced, Unsure, Cached
  <2> QED  BY <1>3, <2>1, SocketAssumption DEF Local, SameFrame
<1>5. SameKernel(s)
  BY <1>1 DEF SameKernel, Types
<1>6. ~Keeps(s) /\ ~Keeps(s)' /\ \A t \in Objects \ {s} : Keeps(t)' <=> Keeps(t)
  BY <1>1, <1>2, <1>4, SameLeaving DEF Keeps, Leaving, isValid
<1>7. Owners'
  <2>1. \A n \in Numbers : kern'[n].id # 0 => \E t \in Objects : sock_'[t] = n /\ Keeps(t)'
    BY <1>1, <1>2, <1>6 DEF Owners
  <2> QED  BY <1>1, <1>2, <1>6, <2>1 DEF Owners
<1>8. \A g \in Fibers \ {f} : busy[g].on = s => s \notin udp /\ busy[g].at \in {"wait", "woken", "accept"}
  BY NotMeets
<1>9. (Raced(s)' <=> Raced(s)) /\ (Unsure(s)' <=> Unsure(s))
  BY <1>1 DEF Raced, Unsure
<1>10. \A g \in Fibers \ {f} : busy[g].on = s /\ busy[g].at \in Waiting => Raced(s)
  BY <1>1, <1>2 DEF SoundAt, Waits
<1>11. Alone(s)'
  BY <1>1, <1>2, <1>3, <1>8 DEF Alone, Inside, Waiting
<1>12. Places(s)'
  BY <1>1, <1>2, <1>3, <1>8 DEF Places, SoundAt, At, InConnect
<1>13. Waits(s)'
  BY <1>1, <1>2, <1>3, <1>6, <1>9, <1>10 DEF SoundAt, Waits
<1>14. Pends(s)' /\ Honest(s)' /\ Current(s)'
  <2>1. \A g \in Fibers : busy'[g].on = s /\ busy'[g].kind = "connect" => Raced(s)'
    BY <1>2, <1>3, <1>8, <1>9, <1>10 DEF Dead, Fits, Waiting
  <2>2. ~isConnected_[s]
    BY <1>1, <1>2 DEF SoundAt, Places, At
  <2> QED  BY <1>1, <1>6, <2>1, <2>2 DEF Pends, Honest, Current, InConnect
<1> QED
  BY <1>4, <1>5, <1>6, <1>7, <1>11, <1>12, <1>13, <1>14, Concludes DEF Result, SoundAt

LEMMA newSockSound ==
    ASSUME Types, Types', Dead, Sound, NEW f \in Fibers, NEW s \in Objects, busy[f].on = s,
           ~Meets(f, s), newSock(f)
    PROVE  Sound'
<1>1. /\ busy[f].at = "make" /\ alive' = alive /\ udp' = udp /\ isConnected_' = isConnected_
      /\ localAddress_' = localAddress_ /\ remoteAddress_' = remoteAddress_
      /\ Goto(f, [busy[f] EXCEPT !.at = "made"])
  BY DEF newSock, At
<1>2. /\ SoundAt(s) /\ None # s /\ Owners /\ sock_[s] = -1 /\ ~Keeps(s)
  BY <1>1, SocketAssumption DEF Sound, SoundAt, Places, At, Keeps, isValid
<1>3. /\ busy'[f].on = s /\ busy'[f].kind = busy[f].kind /\ busy'[f].to = busy[f].to
      /\ busy'[f].at = "made"
      /\ \A g \in Fibers \ {f} : busy'[g] = busy[g]
  BY <1>1, GotoFrames DEF Types, Frames
<1>4. CASE sock_' = [sock_ EXCEPT ![s] = -1] /\ UNCHANGED <<kernVars, marks>>
  <2> DEFINE b == [busy[f] EXCEPT !.at = "made"]
  <2>1. b.at = "made" /\ b.on = s /\ b.kind = busy[f].kind /\ b.to = busy[f].to
    BY DEF Types, Frames
  <2>2. Moves(f, s, b)
    BY <1>1, <2>1 DEF Moves, Waiting
  <2>3. sock_' = sock_
    BY <1>2, <1>4 DEF Types
  <2>4. Goto(f, b) /\ UNCHANGED <<objVars, kernVars, marks>>
    BY <1>1, <1>4, <2>3 DEF objVars
  <2> HIDE DEF b
  <2> QED  BY <2>1, <2>2, <2>4, MoveSound
<1>5. CASE \E n \in Numbers : /\ NewKernel(n, "no", None)
                              /\ sock_' = [sock_ EXCEPT ![s] = n]
                              /\ marks' = marks \cup Outdated(s)
  <2>1. PICK n \in Numbers : /\ NewKernel(n, "no", None)
                             /\ sock_' = [sock_ EXCEPT ![s] = n]
                             /\ marks' = marks \cup Outdated(s)
    BY <1>5
  <2>2. /\ kern[n].id = 0 /\ made' = made + 1 /\ kern'[n].id = made + 1
        /\ \A m \in Numbers \ {n} : kern'[m] = kern[m]
        /\ sock_'[s] = n /\ \A t \in Objects \ {s} : sock_'[t] = sock_[t]
    BY <2>1 DEF NewKernel, Types
  <2>3. \A t \in Objects : Keeps(t) => sock_[t] # n /\ sock_[t] \in Numbers
    BY <2>2 DEF Sound, SoundAt, Keeps, isValid, Types
  <2>4. /\ \A t \in Objects \ {s} : (Raced(t)' <=> Raced(t)) /\ (Unsure(t)' <=> Unsure(t))
                                     /\ (Cached(t)' <=> Cached(t))
        /\ (Raced(s)' <=> Raced(s)) /\ (Unsure(s)' <=> Unsure(s))
        /\ ~Cached(s)' => localAddress_[s] = None
    BY <2>1 DEF Raced, Unsure, Cached, Outdated
  <2>5. Local({f}, s)
    <3>1. \A t \in Objects \ {s} : SameObject(t)
      BY <1>1, <2>2, <2>4 DEF SameObject
    <3> QED  BY <1>3, <3>1 DEF Local, SameFrame
  <2>6. SameKernel(s)
    BY <2>2, <2>3 DEF SameKernel, Types
  <2>7. /\ Keeps(s)' /\ \A t \in Objects \ {s} : Keeps(t)' <=> Keeps(t)
    <3>1. ~Leaving(s)'
      BY <1>3, NotMeets DEF Leaving
    <3> QED  BY <2>2, <2>5, <3>1, SameLeaving, SocketAssumption DEF Keeps, isValid
  <2>8. Owners'
    <3>1. \A m \in Numbers : kern'[m].id # 0 => \E t \in Objects : sock_'[t] = m /\ Keeps(t)'
      BY <1>2, <2>2, <2>7 DEF Owners
    <3>2. \A t \in Objects \ {s} : Keeps(t)' => sock_'[t] # n
      BY <2>2, <2>3, <2>7
    <3>3. \A t, u \in Objects : Keeps(t)' /\ Keeps(u)' /\ sock_'[t] = sock_'[u] => t = u
      BY <1>2, <2>2, <2>7, <3>2 DEF Owners
    <3>4. \A m \in Numbers : kern[m].id \in Nat /\ kern[m].id <= made
      BY <1>2 DEF Owners, Types, Kernels
    <3>5. \A m \in Numbers : kern'[m].id <= made'
      BY <2>2, <3>4 DEF Types
    <3>6. \A m, l \in Numbers : kern'[m].id = kern'[l].id /\ kern'[m].id # 0 => m = l
      BY <1>2, <2>2, <3>4 DEF Owners, Types
    <3> QED  BY <3>1, <3>3, <3>5, <3>6 DEF Owners
  <2>9. \A g \in Fibers \ {f} : busy[g].on = s => s \notin udp /\ busy[g].at \in {"wait", "woken", "accept"}
    BY NotMeets
  <2>10. Alone(s)'
    BY <1>1, <1>3, <2>9 DEF Alone, Inside, Waiting
  <2>11. Places(s)'
    BY <1>1, <1>2, <1>3, <2>9 DEF Places, SoundAt, At, InConnect
  <2>12. Waits(s)'
    <3>1. ASSUME NEW g \in Fibers, busy'[g].on = s, busy'[g].at \in Waiting
          PROVE  /\ busy'[g].id # 0 /\ busy'[g].id <= made' /\ Raced(s)'
                 /\ \A m \in Numbers : kern'[m].id # busy'[g].id
                 /\ \A h \in Fibers : busy'[h].on = s => busy'[h].at \notin {"closing", "closed"}
      <4>1. g # f /\ busy[g] = busy'[g] /\ busy[g].on = s /\ busy[g].at \in Waiting
        BY <1>3, <3>1 DEF Waiting
      <4>2. busy[g].id # 0 /\ busy[g].id <= made /\ Raced(s) /\ busy[g].id \in Nat
            /\ \A m \in Numbers : kern[m].id # busy[g].id
        BY <1>2, <4>1, SocketAssumption DEF SoundAt, Waits, Types, Frames
      <4> QED  BY <1>3, <2>2, <2>4, <2>9, <4>1, <4>2 DEF Types
    <3> QED  BY <2>7, <3>1 DEF Waits
  <2>13. Pends(s)' /\ Honest(s)'
    BY <1>1, <1>2, <1>3, <2>4 DEF Pends, Honest, SoundAt, At, InConnect
  <2>14. Current(s)' /\ (Keeps(s)' => kern'[sock_'[s]].id # 0)
    BY <1>1, <2>2, <2>4 DEF Current, Types
  <2> QED
    BY <2>5, <2>6, <2>8, <2>10, <2>11, <2>12, <2>13, <2>14, Concludes DEF Result, SoundAt
<1> QED  BY <1>1, <1>4, <1>5 DEF newSock

-----------------------------------------------------------------------------
(* Objects that come and go *)

\* An object t that nobody uses changes: nothing but its socket has to be looked at.
LEMMA UnusedSound ==
    ASSUME Types, Types', NEW t \in Objects,
           \A g \in Fibers : busy'[g].on # t,
           t \notin udp' => /\ isConnected_'[t] /\ ~Raced(t)' /\ ~Unsure(t)' =>
                                 sock_'[t] # -1 /\ kern'[sock_'[t]].peer = remoteAddress_'[t]
                            /\ isConnected_'[t] => remoteAddress_'[t] # None,
           localAddress_'[t] = None \/ localAddress_'[t] = Name(sock_[t])',
           sock_'[t] # -1 => kern'[sock_'[t]].id # 0
    PROVE  SoundAt(t)' /\ (Keeps(t)' <=> sock_'[t] # -1)
<1>1. ~Leaving(t)' /\ (Keeps(t)' <=> sock_'[t] # -1)
  BY DEF Leaving, Keeps, isValid
<1>2. Alone(t)' /\ Places(t)' /\ Waits(t)' /\ Pends(t)'
  BY DEF Alone, Inside, Places, Waits, Pends
<1>3. Honest(t)' /\ Current(t)'
  BY <1>1 DEF Honest, Current
<1> QED  BY <1>1, <1>2, <1>3 DEF SoundAt

\* The owners after an object t got the new number n.
LEMMA OwnersGrow ==
    ASSUME Types, Types', Sound, NEW t \in Objects, NEW F \in SUBSET Fibers, Local(F, t),
           ~Keeps(t), Keeps(t)', NEW n \in Numbers, sock_'[t] = n, kern[n].id = 0,
           made' = made + 1, kern'[n].id = made + 1,
           \A m \in Numbers \ {n} : kern'[m] = kern[m]
    PROVE  Owners' /\ SameKernel(t)
<1>1. \A u \in Objects : Keeps(u) => sock_[u] # n /\ sock_[u] \in Numbers
  BY DEF Sound, SoundAt, Keeps, isValid, Types
<1>2. \A u \in Objects \ {t} : (Keeps(u)' <=> Keeps(u)) /\ sock_'[u] = sock_[u]
  BY SameLeaving DEF Local, SameObject
<1>3. \A m \in Numbers : kern'[m].id # 0 => \E u \in Objects : sock_'[u] = m /\ Keeps(u)'
  BY <1>2 DEF Sound, Owners
<1>4. \A u, v \in Objects : Keeps(u)' /\ Keeps(v)' /\ sock_'[u] = sock_'[v] => u = v
  BY <1>1, <1>2 DEF Sound, Owners
<1>5. \A m \in Numbers : kern[m].id \in Nat /\ kern[m].id <= made
  BY DEF Sound, Owners, Types, Kernels
<1>6. \A m \in Numbers : kern'[m].id <= made'
  BY <1>5 DEF Types
<1>7. \A m, l \in Numbers : kern'[m].id = kern'[l].id /\ kern'[m].id # 0 => m = l
  BY <1>5 DEF Sound, Owners, Types
<1>8. SameKernel(t)
  BY <1>1 DEF SameKernel, Types
<1> QED  BY <1>3, <1>4, <1>6, <1>7, <1>8 DEF Owners

LEMMA NobodyOn ==
    ASSUME Dead, NEW t \in Objects \ alive
    PROVE  /\ \A g \in Fibers : busy[g].on # t
           /\ ~Keeps(t) /\ Fresh(t)
<1>1. \A g \in Fibers : busy[g].on # t
  BY SocketAssumption DEF Dead, Fits
<1>2. Fresh(t)
  BY DEF Dead
<1> QED  BY <1>1, <1>2 DEF Fresh, Keeps, isValid

LEMMA CreateSound ==
    ASSUME Types, Types', Dead, Sound, NEW s \in Objects, CreateTCP(s) \/ CreateUDP(s)
    PROVE  Sound'
<1>1. /\ s \notin alive /\ alive' = alive \cup {s}
      /\ localAddress_' = localAddress_ /\ remoteAddress_' = remoteAddress_
      /\ busy' = busy /\ marks' = marks
      /\ \A t \in Objects \ {s} : isConnected_'[t] <=> isConnected_[t]
      /\ \A t \in Objects \ {s} : t \in udp' <=> t \in udp
      /\ s \notin udp' => ~isConnected_'[s]
  <2>1. CASE CreateTCP(s)
    BY <2>1, NobodyOn DEF CreateTCP, Fresh
  <2>2. CASE CreateUDP(s)
    BY <2>2 DEF CreateUDP, Types
  <2> QED  BY <2>1, <2>2
<1>2. \/ sock_' = sock_ /\ kern' = kern /\ made' = made
      \/ \E n \in Numbers : NewKernel(n, "no", None) /\ sock_' = [sock_ EXCEPT ![s] = n]
  BY DEF CreateTCP, CreateUDP, kernVars
<1>3. /\ \A g \in Fibers : busy[g].on # s
      /\ ~Keeps(s) /\ sock_[s] = -1 /\ localAddress_[s] = None
  BY <1>1, NobodyOn DEF Fresh
<1>4. \A t \in Objects \ {s} : sock_'[t] = sock_[t]
  BY <1>2 DEF Types
<1>5. Local({}, s)
  <2>1. \A t \in Objects \ {s} : SameObject(t)
    BY <1>1, <1>4 DEF SameObject, Raced, Unsure, Cached
  <2> QED  BY <1>1, <2>1 DEF Local, SameFrame
<1>6. CASE sock_' = sock_ /\ kern' = kern /\ made' = made
  <2>1. SoundAt(s)' /\ ~Keeps(s)'
    BY <1>1, <1>3, <1>6, UnusedSound
  <2>2. Owners'
    BY <1>3, <1>5, <1>6, <2>1, OwnersKept DEF Sound
  <2>3. SameKernel(s)
    BY <1>6 DEF SameKernel, Types
  <2> QED  BY <1>5, <2>1, <2>2, <2>3, Concludes DEF Result
<1>7. CASE \E n \in Numbers : NewKernel(n, "no", None) /\ sock_' = [sock_ EXCEPT ![s] = n]
  <2>1. PICK n \in Numbers : NewKernel(n, "no", None) /\ sock_' = [sock_ EXCEPT ![s] = n]
    BY <1>7
  <2>2. /\ kern[n].id = 0 /\ made' = made + 1 /\ kern'[n].id = made + 1 /\ kern'[n].id # 0
        /\ \A m \in Numbers \ {n} : kern'[m] = kern[m]
        /\ sock_'[s] = n /\ n # -1
    BY <2>1, SocketAssumption DEF NewKernel, Types
  <2>3. SoundAt(s)' /\ Keeps(s)'
    BY <1>1, <1>3, <2>2, UnusedSound
  <2> QED  BY <1>3, <1>5, <2>2, <2>3, OwnersGrow, Concludes DEF Result
<1> QED  BY <1>2, <1>6, <1>7

LEMMA AcceptSucceedsSound ==
    ASSUME Types, Types', Dead, Sound, NEW f \in Fibers, NEW t \in Objects, NEW m \in Numbers,
           NEW a \in Addresses, AcceptSucceeds(f, t, m, a)
    PROVE  Sound'
<1>1. /\ busy[f].at = "accept" /\ t \notin alive /\ alive' = alive \cup {t}
      /\ udp' = udp /\ marks' = marks /\ NewKernel(m, "own", a)
      /\ sock_' = [sock_ EXCEPT ![t] = m]
      /\ isConnected_' = [isConnected_ EXCEPT ![t] = TRUE]
      /\ localAddress_' = [localAddress_ EXCEPT ![t] = [name |-> "own", id |-> made + 1]]
      /\ remoteAddress_' = [remoteAddress_ EXCEPT ![t] = a]
  BY DEF AcceptSucceeds, At
<1>2. /\ busy'[f].on = None /\ \A g \in Fibers \ {f} : busy'[g] = busy[g]
      /\ None \notin Objects /\ a # None /\ m # -1
  BY GotoFrames, SocketAssumption DEF AcceptSucceeds, Return, Idle
<1>3. (\A g \in Fibers : busy[g].on # t) /\ ~Keeps(t)
  BY <1>1, NobodyOn
<1>4. /\ kern[m].id = 0 /\ made' = made + 1
      /\ kern'[m].id = made + 1 /\ kern'[m].id # 0 /\ kern'[m].peer = a
      /\ kern'[m].name = "own"
      /\ \A l \in Numbers \ {m} : kern'[l] = kern[l]
  BY <1>1 DEF NewKernel, Types
<1>5. /\ sock_'[t] = m /\ remoteAddress_'[t] = a
      /\ localAddress_'[t] = [name |-> "own", id |-> made + 1]
      /\ \A u \in Objects \ {t} :
            /\ sock_'[u] = sock_[u] /\ (isConnected_'[u] <=> isConnected_[u])
            /\ localAddress_'[u] = localAddress_[u] /\ remoteAddress_'[u] = remoteAddress_[u]
  BY <1>1 DEF Types
<1>6. Local({f}, t)
  <2>1. \A u \in Objects \ {t} : SameObject(u)
    BY <1>1, <1>5 DEF SameObject, Raced, Unsure, Cached
  <2> QED  BY <1>1, <1>2, <2>1 DEF Local, SameFrame
<1>7. Name(sock_[t])' = [name |-> "own", id |-> made + 1]
  BY <1>4, <1>5 DEF Name
<1>8. SoundAt(t)' /\ Keeps(t)'
  BY <1>2, <1>3, <1>4, <1>5, <1>7, UnusedSound
<1> QED  BY <1>3, <1>4, <1>5, <1>6, <1>8, OwnersGrow, Concludes DEF Result

LEMMA DestroySound ==
    ASSUME Types, Types', Dead, Sound, NEW s \in Objects, Destroy(s)
    PROVE  Sound'
<1>1. /\ made' = made /\ kern' = KernelClosed(sock_[s])
      /\ \A g \in Fibers : busy[g].on # s
      /\ busy' = IF isValid(s) THEN WokenOn(sock_[s]) ELSE busy
      /\ alive' = alive \ {s} /\ udp' = udp \ {s}
  BY DEF Destroy
<1>2. /\ sock_'[s] = -1 /\ ~isConnected_'[s] /\ localAddress_'[s] = None
      /\ \A t \in Objects \ {s} : SameObject(t)
  <2>1. \A t \in Objects \ {s} : /\ Raced(t)' <=> Raced(t)
                                 /\ Unsure(t)' <=> Unsure(t)
                                 /\ Cached(t)' <=> Cached(t)
    BY DEF Destroy, Raced, Unsure, Cached
  <2> QED  BY <2>1 DEF Destroy, Types, SameObject
<1>3. \A g \in Fibers : SameFrame(g)
  BY <1>1, WokenFacts DEF SameFrame
<1>4. Local({}, s)
  BY <1>2, <1>3 DEF Local
<1>5. SoundAt(s)' /\ ~Keeps(s)'
  BY <1>1, <1>2, <1>3, UnusedSound DEF SameFrame
<1>6. Keeps(s) <=> isValid(s)
  BY <1>1 DEF Keeps, Leaving
<1>7. \A n \in Numbers : \/ kern'[n] = kern[n] /\ ~(isValid(s) /\ n = sock_[s] /\ kern[n].id # 0)
                         \/ isValid(s) /\ n = sock_[s] /\ kern'[n].id = 0
  BY <1>1 DEF KernelClosed, isOpen, isValid, Types, Closed
<1>8. SameKernel(s)
  <2>1. \A t \in Objects \ {s} : Keeps(t) => sock_[t] \in Numbers /\ kern'[sock_[t]] = kern[sock_[t]]
    BY <1>6, <1>7 DEF Sound, Owners, Keeps, isValid, Types
  <2> QED  BY <1>1, <1>7, <2>1 DEF SameKernel, Types
<1>9. Owners'
  <2>1. \A t \in Objects \ {s} : sock_'[t] = sock_[t] /\ (Keeps(t)' <=> Keeps(t))
    <3>1. \A t \in Objects \ {s} : Keeps(t)' <=> Keeps(t)
      BY <1>4, SameLeaving
    <3> QED  BY <1>2, <3>1 DEF SameObject
  <2>2. \A n \in Numbers : kern'[n].id # 0 =>
           kern'[n].id = kern[n].id /\ ~(isValid(s) /\ n = sock_[s])
    BY <1>7
  <2>3. \A n \in Numbers : kern'[n].id # 0 => \E t \in Objects : sock_'[t] = n /\ Keeps(t)'
    BY <1>6, <2>1, <2>2 DEF Sound, Owners
  <2>4. \A n \in Numbers : kern'[n].id <= made'
    BY <1>1, <1>7 DEF Sound, Owners, Types
  <2> QED  BY <1>5, <2>1, <2>2, <2>3, <2>4 DEF Sound, Owners
<1> QED  BY <1>4, <1>5, <1>8, <1>9, Concludes DEF Result

-----------------------------------------------------------------------------
(* Frames fit, and objects that do not exist are as new, whatever the fibers do *)

LEMMA GotoFits ==
    ASSUME Types, Dead, NEW f \in Fibers, NEW b, Goto(f, b), Fits(alive, b), NEW A, alive \subseteq A
    PROVE  \A g \in Fibers : Fits(A, busy'[g])
BY GotoFrames DEF Dead, Fits

LEMMA IdleFits == ASSUME NEW A PROVE Fits(A, Idle)
BY DEF Fits, Idle, Waiting

LEMMA InFits ==
    ASSUME NEW s \in alive, NEW l \in {"named", "accept", "closing", "closed"}
    PROVE  Fits(alive, In(l, s))
BY InFields DEF Fits, Waiting

LEMMA FreshKept ==
    ASSUME \A t \in Objects \ alive : Fresh(t), NEW s \in alive, alive' = alive,
           \A t \in Objects \ {s} :
               /\ sock_'[t] = sock_[t] /\ (isConnected_'[t] <=> isConnected_[t])
               /\ localAddress_'[t] = localAddress_[t] /\ remoteAddress_'[t] = remoteAddress_[t],
           \A t \in Objects \ {s} : \A m : <<t, m>> \in marks' => <<t, m>> \in marks
    PROVE  \A t \in Objects \ alive' : Fresh(t)'
BY DEF Fresh, Raced, Unsure, Cached

LEMMA ShutsDead ==
    ASSUME Types, Dead, NEW f \in Fibers, NEW s \in alive, NEW id, Shuts(f, s, id),
           UNCHANGED <<alive, sock_, localAddress_, remoteAddress_, udp, kernVars>>
    PROVE  Dead'
<1>1. \A g \in Fibers : Fits(alive', busy'[g])
  <2>1. Fits(alive, Idle) /\ Fits(alive, In("closing", s))
    BY IdleFits, InFits
  <2>2. Fits(alive, [In("closing", s) EXCEPT !.id = id])
    <3> DEFINE b == [In("closing", s) EXCEPT !.id = id]
    <3>1. b.at = "closing" /\ b.on = s /\ b.kind = "none" /\ b.to = None
      BY DEF In, Idle
    <3> QED  BY <3>1 DEF Fits, Waiting
  <2> QED  BY <2>1, <2>2, GotoFits DEF Shuts
<1>2. s \in Objects
  BY DEF Types
<1>3. \A t \in Objects \ alive' : Fresh(t)'
  <2>1. \A t \in Objects \ {s} : isConnected_'[t] <=> isConnected_[t]
    BY DEF Shuts, Types
  <2>2. \A t \in Objects \ {s} : \A m : <<t, m>> \in marks' => <<t, m>> \in marks
    BY DEF Shuts, CloseMarks
  <2> QED  BY <2>1, <2>2, FreshKept DEF Dead
<1> QED  BY <1>1, <1>3 DEF Dead

LEMMA LifeDead ==
    ASSUME Types, Dead, NEW s \in Objects, CreateTCP(s) \/ CreateUDP(s) \/ Destroy(s)
    PROVE  Dead'
<1>1. CASE CreateTCP(s)
  BY <1>1 DEF CreateTCP, Dead, Fits, Fresh, Raced, Unsure, Cached
<1>2. CASE CreateUDP(s)
  <2>1. \A t \in Objects \ {s} : sock_'[t] = sock_[t] /\ (isConnected_'[t] <=> isConnected_[t])
    BY <1>2 DEF CreateUDP, Types
  <2> QED  BY <1>2, <2>1 DEF CreateUDP, Dead, Fits, Fresh, Raced, Unsure, Cached
<1>3. CASE Destroy(s)
  <2>1. ASSUME NEW g \in Fibers PROVE Fits(alive, busy'[g]) /\ busy'[g].on = busy[g].on
    <3>1. CASE isValid(s)
      <4>1. busy'[g] = WokenOn(sock_[s])[g]
        BY <1>3, <3>1 DEF Destroy
      <4>2. Fits(alive, WokenOn(sock_[s])[g])
        BY WokenFits DEF Dead
      <4> QED  BY <4>1, <4>2, WokenFacts
    <3>2. CASE ~isValid(s)
      BY <1>3, <3>2 DEF Destroy, Dead
    <3> QED  BY <3>1, <3>2
  <2>2. \A g \in Fibers : Fits(alive', busy'[g])
    BY <1>3, <2>1 DEF Destroy, Fits
  <2>3. Fresh(s)'
    BY <1>3 DEF Destroy, Fresh, Types, Raced, Unsure, Cached
  <2>4. \A t \in Objects \ {s} : Fresh(t) => Fresh(t)'
    BY <1>3 DEF Destroy, Fresh, Types, Raced, Unsure, Cached
  <2> QED  BY <1>3, <2>2, <2>3, <2>4 DEF Dead, Destroy
<1> QED  BY <1>1, <1>2, <1>3

LEMMA CallDead ==
    ASSUME Types, Dead, NEW f \in Fibers, NEW s \in Objects, Call(f, s)
    PROVE  Dead'
<1>1. CASE Close(f, s)
  BY <1>1, ShutsDead DEF Close
<1>2. ASSUME NEW a \in Peers \ {None}, NEW local, Begin(f, s, a, local)
      PROVE  Dead'
  <2> DEFINE b == [In(Tested(s), s) EXCEPT !.kind = "connect", !.to = a]
  <2>1. b.on = s /\ b.kind = "connect" /\ b.at = Tested(s) /\ b.to = a
    BY DEF In, Idle
  <2>2. Fits(alive, b) /\ Goto(f, b) /\ alive' = alive
    BY <1>2, <2>1 DEF Begin, Fits, Tested, Waiting
  <2> HIDE DEF b
  <2>3. \A g \in Fibers : Fits(alive', busy'[g])
    BY <2>2, GotoFits
  <2>4. \A t \in Objects \ {s} :
          localAddress_'[t] = localAddress_[t] /\ remoteAddress_'[t] = remoteAddress_[t]
    BY <1>2 DEF Begin, Types
  <2>5. \A t \in Objects \ {s} : \A m : <<t, m>> \in marks' => <<t, m>> \in marks
    BY <1>2 DEF Begin
  <2>6. \A t \in Objects \ alive' : Fresh(t)'
    BY <1>2, <2>2, <2>4, <2>5, FreshKept DEF Begin, Dead
  <2> QED  BY <2>3, <2>6 DEF Dead
<1>3. CASE reconnect(f, s)
  BY <1>2, <1>3 DEF reconnect, Types
<1>4. CASE \E a \in Addresses \cup Foreign : Connect(f, s, a)
  BY <1>2, <1>4, SocketAssumption DEF Connect, Peers
<1>5. ASSUME NEW b, Goto(f, b), Fits(alive, b), UNCHANGED <<objVars, kernVars, marks>>
      PROVE  Dead'
  <2>1. \A g \in Fibers : Fits(alive', busy'[g])
    BY <1>5, GotoFits DEF objVars
  <2> QED  BY <1>5, <2>1 DEF Dead, Fresh, objVars, Raced, Unsure, Cached
<1>6. CASE getLocalAddress(f, s)
  BY <1>5, <1>6, InFits DEF getLocalAddress
<1>7. CASE getRemoteAddress(f, s)
  <2> DEFINE a == IF isOpen(sock_[s]) /\ kern[sock_[s]].peer # None
                  THEN kern[sock_[s]].peer ELSE Unknown
             b == [In("peered", s) EXCEPT !.to = a]
  <2>1. b.on = s /\ b.kind = "none" /\ b.at = "peered" /\ b.to = a
    BY DEF In, Idle
  <2>2. isOpen(sock_[s]) => kern[sock_[s]].peer \in Peers
    BY DEF Types, Kernels, isOpen
  <2>3. a \in Peers
    BY <2>2 DEF Peers
  <2> HIDE DEF a
  <2>4. Fits(alive, b)
    BY <1>7, <2>1, <2>3 DEF Fits, Waiting, getRemoteAddress
  <2>5. Goto(f, b) /\ UNCHANGED <<objVars, kernVars, marks>>
    BY <1>7 DEF getRemoteAddress, a
  <2> HIDE DEF b
  <2> QED  BY <1>5, <2>4, <2>5
<1>8. CASE cancelWrite(f, s)
  <2>1. \A g \in Fibers : Fits(alive', busy'[g])
    BY <1>8, WokenFits DEF cancelWrite, Dead, objVars
  <2> QED  BY <1>8, <2>1 DEF cancelWrite, Dead, Fresh, objVars, Raced, Unsure, Cached
<1>9. ASSUME s \in alive, marks' = marks \/ marks' = marks \cup Outdated(s), UNCHANGED <<objVars, busy>>
      PROVE  Dead'
  <2>1. \A t \in Objects \ {s} : \A m : <<t, m>> \in marks' => <<t, m>> \in marks
    BY <1>9 DEF Outdated
  <2>2. \A t \in Objects \ alive' : Fresh(t)'
    BY <1>9, <2>1, FreshKept DEF Dead, objVars
  <2> QED  BY <1>9, <2>2 DEF Dead, objVars
<1>10. CASE Listen(f, s) \/ sendTo(f, s)
  BY <1>9, <1>10 DEF Listen, sendTo, Named, Renamed
<1>11. CASE Accept(f, s)
  <2> DEFINE b == [In("accept", s) EXCEPT !.n = sock_[s]]
  <2>1. b.on = s /\ b.kind = "none" /\ b.at = "accept"
    BY DEF In, Idle
  <2>2. Fits(alive, b)
    BY <1>11, <2>1 DEF Fits, Waiting, Accept
  <2>3. Goto(f, b) /\ UNCHANGED <<objVars, kernVars, marks>>
    BY <1>11 DEF Accept
  <2> HIDE DEF b
  <2> QED  BY <1>5, <2>2, <2>3
<1>12. CASE \E name \in {"any", "own"} : Bind(f, s, name)
  <2>1. PICK name \in {"any", "own"} : Bind(f, s, name)
    BY <1>12
  <2> DEFINE b == [In(Tested(s), s) EXCEPT !.kind = "bind", !.to = Wish(name)]
  <2>2. b.on = s /\ b.kind = "bind" /\ b.at = Tested(s) /\ b.to.name = name
    BY DEF In, Idle, Wish
  <2>3. Fits(alive, b)
    BY <2>1, <2>2 DEF Fits, Tested, Waiting, Bind
  <2>4. Goto(f, b) /\ UNCHANGED <<objVars, kernVars, marks>>
    BY <2>1 DEF Bind
  <2> HIDE DEF b
  <2> QED  BY <1>5, <2>3, <2>4
<1> QED
  BY <1>1, <1>3, <1>4, <1>6, <1>7, <1>8, <1>10, <1>11, <1>12 DEF Call

LEMMA StepDead ==
    ASSUME Types, Dead, NEW f \in Fibers, NEW s \in alive, busy[f].on = s, Step(f) \/ Wakes(f)
    PROVE  Dead'
<1>0. s \in Objects /\ sock_[s] \in Numbers \cup {-1} /\ Fits(alive, busy[f])
  BY DEF Types, Dead
<1>1. ASSUME \A g \in Fibers : Fits(alive, busy'[g]), alive' = alive,
             \A t \in Objects \ {s} :
               /\ sock_'[t] = sock_[t] /\ (isConnected_'[t] <=> isConnected_[t])
               /\ localAddress_'[t] = localAddress_[t] /\ remoteAddress_'[t] = remoteAddress_[t],
             \A t \in Objects \ {s} : \A m : <<t, m>> \in marks' => <<t, m>> \in marks
      PROVE  Dead'
  BY <1>1, FreshKept DEF Dead
<1>2. ASSUME NEW l \in {"made", "wait", "woken", "done"}, NEW n \in Numbers \cup {-1}, NEW id,
             l = "wait" => n \in Numbers,
             l \in {"wait", "woken", "done"} => busy[f].kind = "connect",
             l = "woken" => busy[f].at = "wait"
      PROVE  /\ l # "wait" => Fits(alive, [busy[f] EXCEPT !.at = l])
             /\ l = "wait" => Fits(alive, [busy[f] EXCEPT !.at = l, !.n = n, !.id = id])
  BY <1>0, <1>2 DEF Types, Frames, Fits, Waiting
<1>3. Fits(alive, Idle) /\ Fits(alive, In("named", s)) /\ Fits(alive, In("closed", s))
  BY IdleFits, InFits
<1>4. \A n, name : Named(s, n, name) =>
         \A t \in Objects \ {s} : \A m : <<t, m>> \in marks' => <<t, m>> \in marks
  BY DEF Named, Renamed, Outdated
<1>5. CASE CloseCalls(f)
  <2>1. (IF sock_[s] # -1 THEN WokenOn(sock_[s]) ELSE busy) \in [Fibers -> Frames]
    BY WokenTypes DEF Types
  <2>2. \A g \in Fibers : Fits(alive, (IF sock_[s] # -1 THEN WokenOn(sock_[s]) ELSE busy)[g])
    BY WokenFits DEF Dead
  <2>3. busy' = [(IF sock_[s] # -1 THEN WokenOn(sock_[s]) ELSE busy) EXCEPT ![f] = In("closed", s)]
    BY <1>5 DEF CloseCalls
  <2>4. \A g \in Fibers : Fits(alive, busy'[g])
    BY <1>3, <2>1, <2>2, <2>3
  <2> QED  BY <1>1, <1>5, <2>4 DEF CloseCalls, objVars
<1>6. ASSUME NEW b, Goto(f, b), Fits(alive, b)
      PROVE  \A g \in Fibers : Fits(alive, busy'[g])
  BY <1>6, GotoFits
<1>7. CASE CloseForgets(f)
  BY <1>0, <1>1, <1>3, <1>6, <1>7 DEF CloseForgets, Return, Types
<1>8. CASE newSock(f)
  <2>1. \A g \in Fibers : Fits(alive, busy'[g])
    BY <1>2, <1>6, <1>8 DEF newSock
  <2>2. \A t \in Objects \ {s} : sock_'[t] = sock_[t]
    BY <1>8 DEF newSock, Types
  <2>3. \A t \in Objects \ {s} : \A m : <<t, m>> \in marks' => <<t, m>> \in marks
    BY <1>8 DEF newSock, Outdated
  <2> QED  BY <1>1, <1>8, <2>1, <2>2, <2>3 DEF newSock
<1>9. CASE GivesUp(f) \/ AcceptFails(f)
  BY <1>1, <1>3, <1>6, <1>9 DEF GivesUp, AcceptFails, Return, objVars
<1>10. CASE CallsBind(f)
  <2>1. \A g \in Fibers : Fits(alive, busy'[g])
    BY <1>3, <1>6, <1>10 DEF CallsBind, Return
  <2>2. \A t \in Objects \ {s} : \A m : <<t, m>> \in marks' => <<t, m>> \in marks
    BY <1>4, <1>10 DEF CallsBind
  <2> QED  BY <1>1, <1>10, <2>1, <2>2 DEF CallsBind, objVars
<1>11. CASE CallsConnect(f)
  <2>1. sock_[s] \in Numbers /\ busy[f].kind = "connect"
    BY <1>0, <1>11 DEF CallsConnect, isOpen
  <2>2. \A g \in Fibers : Fits(alive, busy'[g])
    BY <1>2, <1>6, <1>11, <2>1 DEF CallsConnect
  <2>3. \A t \in Objects \ {s} : \A m : <<t, m>> \in marks' => <<t, m>> \in marks
    BY <1>4, <1>11 DEF CallsConnect
  <2> QED  BY <1>1, <1>11, <2>2, <2>3 DEF CallsConnect, objVars
<1>12. CASE CallsConnectBad(f)
  BY <1>12, ShutsDead DEF CallsConnectBad
<1>13. CASE ConnectFails(f)
  BY <1>13, ShutsDead DEF ConnectFails
<1>14. CASE Established(f) \/ WokenSucceeds(f)
  <2>1. busy[f].kind = "connect"
    BY <1>0, <1>14 DEF Established, WokenSucceeds, At, Fits
  <2>2. \A g \in Fibers : Fits(alive, busy'[g])
    BY <1>2, <1>6, <1>14, <2>1 DEF Established, WokenSucceeds
  <2> QED  BY <1>1, <1>14, <2>2 DEF Established, WokenSucceeds, objVars
<1>15. CASE AddEventRefused(f)
  <2>1. busy[f].kind = "connect" /\ busy[f].at = "wait"
    BY <1>0, <1>15 DEF AddEventRefused, At, Fits
  <2>2. \A g \in Fibers : Fits(alive, busy'[g])
    BY <1>2, <1>6, <1>15, <2>1 DEF AddEventRefused
  <2> QED  BY <1>1, <1>15, <2>2 DEF AddEventRefused, objVars
<1>16. CASE ConnectSucceeds(f)
  BY <1>0, <1>1, <1>3, <1>6, <1>16 DEF ConnectSucceeds, Types
<1>17. CASE AsksName(f)
  <2>1. isOpen(sock_[s]) => Fits(alive, [In("caching", s) EXCEPT !.to = Name(sock_[s])])
    <3> SUFFICES ASSUME isOpen(sock_[s])
                 PROVE  Fits(alive, [In("caching", s) EXCEPT !.to = Name(sock_[s])])
      OBVIOUS
    <3> DEFINE b == [In("caching", s) EXCEPT !.to = Name(sock_[s])]
    <3>1. b.on = s /\ b.kind = "none" /\ b.at = "caching" /\ b.to = Name(sock_[s])
      BY DEF In, Idle
    <3>2. Name(sock_[s]) \in NameOf
      BY <1>0, NameTypes DEF isOpen
    <3> QED  BY <3>1, <3>2 DEF Fits, Waiting
  <2>2. \A g \in Fibers : Fits(alive, busy'[g])
    BY <1>3, <1>6, <1>17, <2>1 DEF AsksName, Return
  <2> QED  BY <1>1, <1>17, <2>2 DEF AsksName, objVars
<1>18. CASE CachesName(f) \/ CachesPeer(f)
  <2>1. \A g \in Fibers : Fits(alive, busy'[g])
    BY <1>3, <1>6, <1>18 DEF CachesName, CachesPeer, Return
  <2>2. \A t \in Objects \ {s} :
          localAddress_'[t] = localAddress_[t] /\ remoteAddress_'[t] = remoteAddress_[t]
    BY <1>18 DEF CachesName, CachesPeer, Types
  <2> QED  BY <1>1, <1>18, <2>1, <2>2 DEF CachesName, CachesPeer
<1>19. CASE \E t \in Objects, m \in Numbers, a \in Addresses : AcceptSucceeds(f, t, m, a)
  <2>1. PICK t \in Objects, m \in Numbers, a \in Addresses : AcceptSucceeds(f, t, m, a)
    BY <1>19
  <2>2. \A g \in Fibers : Fits(alive', busy'[g])
    BY <1>3, <2>1, GotoFits DEF AcceptSucceeds, Return
  <2>3. \A u \in Objects \ {t} :
               /\ sock_'[u] = sock_[u] /\ (isConnected_'[u] <=> isConnected_[u])
               /\ localAddress_'[u] = localAddress_[u] /\ remoteAddress_'[u] = remoteAddress_[u]
    BY <2>1 DEF AcceptSucceeds, Types
  <2>4. \A u \in Objects \ alive' : Fresh(u)'
    BY <2>1, <2>3 DEF AcceptSucceeds, Dead, Fresh, Raced, Unsure, Cached
  <2> QED  BY <2>2, <2>4 DEF Dead
<1> QED
  BY <1>5, <1>7, <1>8, <1>9, <1>10, <1>11, <1>12, <1>13, <1>14, <1>15, <1>16, <1>17, <1>18, <1>19
  DEF Step, Wakes

-----------------------------------------------------------------------------
(* Theorems *)

LEMMA InitInv == Init => IInv
<1> SUFFICES ASSUME Init PROVE IInv
  OBVIOUS
<1>1. Types
  BY IdleTypes DEF Init, Types, Peers
<1>2. Dead
  BY IdleFits DEF Init, Dead, Fresh, Raced, Unsure, Cached
<1>3. /\ \A s \in Objects : ~isValid(s) /\ ~isConnected_[s] /\ localAddress_[s] = None
      /\ \A f \in Fibers : busy[f].on = None
      /\ \A n \in Numbers : kern[n].id = 0
      /\ made = 0
  BY DEF Init, isValid, Idle, Closed
<1>4. \A s \in Objects : ~Keeps(s) /\ SoundAt(s)
  BY <1>3, SocketAssumption
  DEF SoundAt, Alone, Inside, Places, Waits, Pends, Honest, Current, Keeps
<1>5. Owners
  BY <1>3, <1>4 DEF Owners
<1> QED  BY <1>1, <1>2, <1>4, <1>5 DEF IInv, Sound

\* The invariant is inductive.  A step that makes torn true, or comes after, keeps only
\* Types and Dead.
THEOREM Inductive == IInv /\ [Next]_vars => IInv'
<1> SUFFICES ASSUME IInv, [Next]_vars PROVE IInv'
  OBVIOUS
<1>0. Types /\ Dead /\ (~torn => Sound) /\ torn \in BOOLEAN
  BY DEF IInv, Types
<1>1. CASE UNCHANGED vars
  <2>1. /\ sock_' = sock_ /\ alive' = alive /\ udp' = udp /\ isConnected_' = isConnected_
        /\ localAddress_' = localAddress_ /\ remoteAddress_' = remoteAddress_
        /\ made' = made /\ kern' = kern /\ marks' = marks /\ busy' = busy /\ torn' = torn
    BY <1>1 DEF vars, objVars, kernVars
  <2>2. Types'
    BY <1>0, <2>1 DEF Types
  <2>3. Dead'
    BY <1>0, <2>1 DEF Dead, Fresh, Raced, Unsure, Cached
  <2>4. \A s \in Objects : SameObject(s)
    BY <2>1 DEF SameObject, Raced, Unsure, Cached
  <2>5. Local({}, None) /\ SameKernel(None) /\ None \notin Objects
    BY <1>0, <2>1, <2>4, SocketAssumption DEF Local, SameKernel, SameFrame, Types
  <2>6. ~torn => \A s \in Objects : SoundAt(s)'
    BY <1>0, <2>2, <2>5, Others DEF Sound
  <2>7. \A s \in Objects : Keeps(s)' <=> Keeps(s)
    BY <2>1 DEF Keeps, Leaving, isValid
  <2>8. ~torn => Owners'
    BY <1>0, <2>1, <2>7 DEF Sound, Owners
  <2> QED  BY <2>1, <2>2, <2>3, <2>6, <2>8 DEF IInv, Sound
<1>2. CASE \E s \in Objects : (CreateTCP(s) \/ CreateUDP(s) \/ Destroy(s)) /\ UNCHANGED torn
  <2>1. PICK s \in Objects : (CreateTCP(s) \/ CreateUDP(s) \/ Destroy(s)) /\ UNCHANGED torn
    BY <1>2
  <2>2. Types' /\ Dead'
    BY <1>0, <2>1, LifeTypes, LifeDead
  <2> QED  BY <1>0, <2>1, <2>2, CreateSound, DestroySound DEF IInv
<1>3. CASE \E f \in Fibers, s \in Objects : Call(f, s) /\ torn' = (torn \/ Meets(f, s))
  <2>1. PICK f \in Fibers, s \in Objects : Call(f, s) /\ torn' = (torn \/ Meets(f, s))
    BY <1>3
  <2>2. Types' /\ Dead'
    BY <1>0, <2>1, CallTypes, CallDead
  <2>3. ASSUME ~torn' PROVE Sound'
    <3>1. ~torn /\ ~Meets(f, s) /\ Sound
      BY <1>0, <2>1, <2>3
    <3>2. CASE reconnect(f, s)
      BY <1>0, <2>2, <3>1, <3>2, BeginSound DEF reconnect
    <3>3. CASE \E a \in Addresses \cup Foreign : Connect(f, s, a)
      BY <1>0, <2>2, <3>1, <3>3, BeginSound, SocketAssumption DEF Connect
    <3>4. CASE Close(f, s)
      BY <1>0, <2>2, <3>1, <3>4, CloseActions
    <3>5. CASE cancelWrite(f, s)
      BY <1>0, <2>2, <3>1, <3>5, cancelWriteSound
    <3>6. CASE Listen(f, s) \/ sendTo(f, s)
      BY <1>0, <2>2, <3>1, <3>6, NamingActions
    <3>7. CASE \/ \E name \in {"any", "own"} : Bind(f, s, name)
               \/ getLocalAddress(f, s) \/ getRemoteAddress(f, s) \/ Accept(f, s)
      BY <1>0, <2>2, <3>1, <3>7, QuietCalls
    <3> QED  BY <2>1, <3>2, <3>3, <3>4, <3>5, <3>6, <3>7 DEF Call
  <2> QED  BY <2>2, <2>3 DEF IInv
<1>4. CASE \E f \in Fibers : Step(f) /\ torn' = (torn \/ Meets(f, busy[f].on))
  <2>1. PICK f \in Fibers : Step(f) /\ torn' = (torn \/ Meets(f, busy[f].on))
    BY <1>4
  <2>2. Types' /\ busy[f].on \in alive /\ busy[f].on \in Objects
    BY <1>0, <2>1, StepTypes DEF Types
  <2>3. PICK s \in Objects : s = busy[f].on
    BY <2>2
  <2>4. Dead'
    BY <1>0, <2>1, <2>2, StepDead
  <2>5. ASSUME ~torn' PROVE Sound'
    <3>1. ~torn /\ ~Meets(f, s) /\ Sound /\ busy[f].on = s
      BY <1>0, <2>1, <2>3, <2>5
    <3>2. CASE CloseCalls(f)
      BY <1>0, <2>2, <3>1, <3>2, CloseCallsSound
    <3>3. CASE CloseForgets(f)
      BY <1>0, <2>2, <3>1, <3>3, CloseForgetsSound
    <3>4. CASE newSock(f)
      BY <1>0, <2>2, <3>1, <3>4, newSockSound
    <3>5. CASE GivesUp(f) \/ AsksName(f)
      BY <1>0, <2>2, <3>1, <3>5, QuietSteps
    <3>6. CASE CallsBind(f) \/ CallsConnect(f)
      BY <1>0, <2>2, <3>1, <3>6, NamingActions
    <3>7. CASE CallsConnectBad(f) \/ ConnectFails(f)
      BY <1>0, <2>2, <3>1, <3>7, CloseActions
    <3>8. CASE Established(f)
      BY <1>0, <2>2, <3>1, <3>8, EstablishedSound
    <3>9. CASE WokenSucceeds(f)
      BY <1>0, <2>2, <3>1, <3>9, WokenSucceedsSound
    <3>10. CASE ConnectSucceeds(f)
      BY <1>0, <2>2, <3>1, <3>10, ConnectSucceedsSound
    <3>11. CASE CachesName(f)
      BY <1>0, <2>2, <3>1, <3>11, CachesNameSound
    <3>12. CASE CachesPeer(f)
      BY <1>0, <2>2, <3>1, <3>12, CachesPeerSound
    <3> QED
      BY <2>1, <3>2, <3>3, <3>4, <3>5, <3>6, <3>7, <3>8, <3>9, <3>10, <3>11, <3>12 DEF Step
  <2> QED  BY <2>2, <2>4, <2>5 DEF IInv
<1>5. CASE \E f \in Fibers : Wakes(f) /\ UNCHANGED torn
  <2>1. PICK f \in Fibers : Wakes(f) /\ UNCHANGED torn
    BY <1>5
  <2>2. Types' /\ busy[f].on \in alive /\ busy[f].on \in Objects
    BY <1>0, <2>1, StepTypes DEF Types
  <2>3. Dead'
    BY <1>0, <2>1, <2>2, StepDead
  <2>4. ASSUME ~torn' PROVE Sound'
    <3>1. PICK s \in Objects : s = busy[f].on
      BY <2>2
    <3>2. CASE AddEventRefused(f) \/ AcceptFails(f)
      BY <1>0, <2>1, <2>2, <2>4, <3>1, <3>2, QuietSteps
    <3>3. CASE \E t \in Objects, m \in Numbers, a \in Addresses : AcceptSucceeds(f, t, m, a)
      BY <1>0, <2>1, <2>2, <2>4, <3>3, AcceptSucceedsSound
    <3> QED  BY <2>1, <3>2, <3>3 DEF Wakes
  <2> QED  BY <2>2, <2>3, <2>4 DEF IInv
<1> QED  BY <1>1, <1>2, <1>3, <1>4, <1>5 DEF Next

LEMMA Always == Spec => []IInv
BY InitInv, Inductive, PTL DEF Spec

\* Whatever fibers do with however many objects, as long as they do not meet inside one
\* object: every open descriptor is closed by exactly one object, and every object's
\* descriptor is open.
THEOREM OpenAlwaysOwned == Spec => []OpenIsOwned
<1>1. IInv => OpenIsOwned
  <2> SUFFICES ASSUME IInv, ~torn PROVE
        /\ \A n \in Numbers : isOpen(n) =>
              \E s \in Objects : Holds(s, n) /\ \A t \in Objects : Holds(t, n) => t = s
        /\ \A s \in Objects : isValid(s) /\ ~Leaving(s) => s \in alive /\ isOpen(sock_[s])
    BY DEF OpenIsOwned
  <2>1. Types /\ Dead /\ Owners /\ \A s \in Objects : SoundAt(s)
    BY DEF IInv, Sound
  <2>2. \A s \in Objects : Keeps(s) => s \in alive /\ isOpen(sock_[s])
    BY <2>1 DEF Dead, Fresh, Keeps, isValid, isOpen, SoundAt
  <2>3. \A n \in Numbers, s \in Objects : Holds(s, n) <=> sock_[s] = n /\ Keeps(s)
    BY <2>2, SocketAssumption DEF Holds, Keeps, isValid
  <2>4. ASSUME NEW n \in Numbers, isOpen(n)
        PROVE  \E s \in Objects : Holds(s, n) /\ \A t \in Objects : Holds(t, n) => t = s
    <3>1. PICK s \in Objects : sock_[s] = n /\ Keeps(s)
      BY <2>1, <2>4 DEF Owners, isOpen
    <3> QED  BY <2>1, <2>3, <3>1 DEF Owners
  <2> QED  BY <2>2, <2>4 DEF Keeps
<1> QED  BY <1>1, Always, PTL

\* isConnected_ and remoteAddress_ tell the truth about the kernel's connection, with the
\* exceptions that ConnectedHonest names.
THEOREM ConnectedAlwaysHonest == Spec => []ConnectedHonest
<1>1. IInv => ConnectedHonest
  <2> SUFFICES ASSUME IInv, ~torn, NEW s \in alive \ udp, isConnected_[s],
                      ~Marked(s, {"raced", "unsure"})
               PROVE  isValid(s) /\ kern[sock_[s]].peer = remoteAddress_[s]
    BY DEF ConnectedHonest, Transfers
  <2>1. ~Raced(s) /\ ~Unsure(s)
    BY DEF Marked, Raced, Unsure
  <2>2. Honest(s)
    BY DEF IInv, Sound, SoundAt, Types
  <2> QED  BY <2>1, <2>2 DEF Honest, Keeps
<1> QED  BY <1>1, Always, PTL

\* A connect that waits and then fails closes its own socket, unless the object was
\* closed meanwhile.
THEOREM AlwaysClosesItsOwn == Spec => []ClosesItsOwn
<1>1. IInv => ClosesItsOwn
  <2> SUFFICES ASSUME IInv, ~torn, NEW f \in Fibers, busy[f].id # 0,
                      At(f, "closing") \/ (busy[f].at \in Waiting /\ ~Marked(busy[f].on, {"raced"}))
               PROVE  isOpen(sock_[busy[f].on]) /\ kern[sock_[busy[f].on]].id = busy[f].id
    BY DEF ClosesItsOwn
  <2>1. PICK s \in Objects : s = busy[f].on
    BY DEF IInv, Types, Dead, Fits, At, Waiting
  <2>2. SoundAt(s)
    BY DEF IInv, Sound
  <2>3. Keeps(s) /\ kern[sock_[s]].id = busy[f].id
    BY <2>1, <2>2 DEF SoundAt, Places, Waits, Raced, Marked, At
  <2> QED  BY <2>1, <2>3 DEF Keeps, isValid, isOpen
<1> QED  BY <1>1, Always, PTL

\* getLocalAddress returns the address of the present socket, with the exceptions that
\* LocalIsCurrent names.
THEOREM LocalAlwaysCurrent == Spec => []LocalIsCurrent
<1>1. IInv => LocalIsCurrent
  <2> SUFFICES ASSUME IInv, ~torn, NEW s \in alive, localAddress_[s] # None, isValid(s),
                      ~Leaving(s), ~Marked(s, {"cached"})
               PROVE  localAddress_[s] = Name(sock_[s])
    BY DEF LocalIsCurrent
  <2>1. Current(s)
    BY DEF IInv, Sound, SoundAt, Types
  <2> QED  BY <2>1 DEF Current, Keeps, Cached, Marked
<1> QED  BY <1>1, Always, PTL
=============================================================================
