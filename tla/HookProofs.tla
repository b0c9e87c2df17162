----------------------------- MODULE HookProofs -----------------------------
(***************************************************************************)
(* Theorems about Hook, for any descriptors, fibers and sockets.  Three    *)
(* facts carry them: between two closes a descriptor number has one holder *)
(* (the program, or the one fiber that opens or closes it); what epoll     *)
(* watches is nothing of a descriptor, or all of its table but the events  *)
(* of fibers it refused; and a callback on its way belongs to the call its *)
(* fiber is still in, or to one that has returned without it.  A second    *)
(* invariant (Guards) says what will end each wait with a timeout.         *)
(***************************************************************************)
EXTENDS Hook, TLAPS

-----------------------------------------------------------------------------
(* The inductive invariant *)

Places == {"run", "get", "create", "del", "close",
           "call", "add", "wait", "woken", "connected"}
TimerStates == {"none", "set", "out", "lost"}
Reasons == {"none", "refused", "event", "close", "timeout", "reused", "stray", "late", "again"}
Callbacks == [by : Fibers, no : Nat, fd : Fds, ev : Event, step : {"out", "tested", "marked"},
              own : BOOLEAN]
Calls  == [kind : {"none", "connect", "io"}, fd : Nat, ev : Event, timed : BOOLEAN, sock : Nat]
FdCtxs == [sock : Nat, nonblock : BOOLEAN, timeout : BOOLEAN]

Types ==
    /\ sock \in [Fds -> Nat] /\ made \in Nat /\ known \subseteq Fds
    /\ size \in Nat /\ size >= 64
    /\ datas \in [Fds -> FdCtxs \cup {Nobody}]
    /\ table \in [Fds -> [Event -> Fibers \cup {Nobody}]]
    /\ armed \in [Fds -> SUBSET Event]
    /\ pc \in [Fibers -> Places]
    /\ call \in [Fibers -> Calls]
    /\ timer \in [Fibers -> TimerStates]
    /\ fired \subseteq Callbacks
    /\ cancelled \subseteq Fibers /\ extra \subseteq Fibers /\ refused \subseteq Fibers
    /\ woke \in [Fibers -> Reasons]

\* f opens or closes its descriptor.
Holds(f) == pc[f] \in {"get", "create", "del", "close"}

\* A number that is in use is held by the program or by one fiber.
Held ==
    /\ \A fd \in known : sock[fd] # 0
    /\ \A f \in Fibers : Holds(f) =>
          call[f].fd \in Fds /\ call[f].fd \notin known /\ sock[call[f].fd] # 0
    /\ \A f, g \in Fibers : Holds(f) /\ Holds(g) /\ call[f].fd = call[g].fd => f = g

\* A context that no unhooked thread left behind is that of the open socket, and is
\* gone before close_f.
Contexts ==
    \A fd \in Fds : datas[fd] # Nobody =>
        /\ fd < size
        /\ <<fd, "plain">> \notin marks =>
              /\ sock[fd] # 0
              /\ fd \in known => datas[fd].sock = sock[fd]
              /\ \A f \in Fibers : Holds(f) /\ call[f].fd = fd => pc[f] = "del"

\* The fiber behind an event that epoll watches waits for it, or epoll_ctl refused it.
Tended(fd, e) ==
    /\ table[fd][e] \in Fibers
    /\ Waits(table[fd][e], fd, e) \/ table[fd][e] \in refused

\* f waits where it will be found.
Found(f) ==
    /\ call[f].ev \in armed[call[f].fd] /\ table[call[f].fd][call[f].ev] = f
    /\ \A g \in Fibers : pc[g] \in {"del", "close"} => call[g].fd # call[f].fd

\* Epoll watches nothing of a descriptor, or all of its table but events of fibers it
\* refused.
Watching ==
    /\ \A fd \in Fds : \A e \in armed[fd] : Tended(fd, e)
    /\ \A fd \in Fds : armed[fd] = {} \/
          \A e \in Event : table[fd][e] # Nobody => e \in armed[fd] \/ table[fd][e] \in refused
    /\ \A fd \in Fds : sock[fd] = 0 => armed[fd] = {}
    /\ \A f \in Fibers : pc[f] = "wait" /\ <<f, "raced">> \notin marks => Found(f)
    /\ extra \subseteq refused

InCall == {"call", "add", "wait", "woken"}

\* Two calls for the same event of the same number are for different sockets.
CallsApart ==
    /\ \A f \in Fibers : pc[f] \in InCall \cup {"connected"} =>
          call[f].kind # "none" /\ call[f].fd \in Fds
    /\ \A f, g \in Fibers :
          /\ f # g /\ call[f].kind # "none" /\ call[g].kind # "none"
          /\ call[f].fd = call[g].fd /\ call[f].ev = call[g].ev
          => call[f].sock # call[g].sock

\* A timer is that of a wait.  A callback that its call can still see has the call's
\* event, and has set the call's flag once it is past that.  All this, and the flag,
\* only in calls with a timeout.
Timers ==
    /\ \A f \in Fibers : timer[f] # "none" => pc[f] \in {"add", "wait", "woken"} /\ call[f].timed
    /\ \A c \in fired :
          /\ c.step = "out" => c.own
          /\ c.own => /\ pc[c.by] \in InCall /\ call[c.by].timed
                      /\ c.fd = call[c.by].fd /\ c.ev = call[c.by].ev
          /\ c.own /\ c.step = "marked" => c.by \in cancelled
    /\ \A f \in cancelled : pc[f] \in InCall /\ call[f].timed

\* Who was woken by its timeout knows it.
WokenBy ==
    \A f \in Fibers : /\ woke[f] # "stray"
                      /\ woke[f] = "timeout" => pc[f] = "woken" /\ f \in cancelled

IInv ==
    Types /\ Held /\ Contexts /\ Watching /\ CallsApart /\ Timers /\ WokenBy /\ AbortsOnlyByOrphan

-----------------------------------------------------------------------------
(* What steps of one kind have in common *)

\* A step of f inside a call, outside the wait: descriptors and events are left alone.
LEMMA CallStepKeeps ==
    ASSUME IInv, NEW f \in Fibers, UNCHANGED <<fdVars, eventVars, extra, refused, failed>>, ~failed,
           \A g \in Fibers : g # f => pc'[g] = pc[g] /\ call'[g] = call[g],
           ~Holds(f), pc[f] # "wait", ~Holds(f)', pc'[f] # "wait",
           \A x : <<x, "plain">> \in marks' <=> <<x, "plain">> \in marks,
           \A g \in Fibers : g # f => (<<g, "raced">> \in marks' <=> <<g, "raced">> \in marks)
    PROVE  Held' /\ Contexts' /\ Watching' /\ AbortsOnlyByOrphan'
<1> USE DEF IInv, fdVars, eventVars
<1>1. \A g \in Fibers : Holds(g)' => Holds(g) /\ g # f /\ pc'[g] = pc[g] /\ call'[g] = call[g]
  BY DEF Holds
<1>2. Held'
  BY <1>1 DEF Held
<1>3. Contexts'
  BY <1>1 DEF Contexts
<1>4. \A fd \in Fds, e \in Event : Tended(fd, e) => Tended(fd, e)'
  BY DEF Tended, Waits
<1>5. \A g \in Fibers : g # f /\ Found(g) => Found(g)'
  BY DEF Found, Holds
<1>6. Watching'
  <2>1. \A fd \in Fds : \A e \in armed'[fd] : Tended(fd, e)'
    BY <1>4 DEF Watching, Types
  <2>2. \A g \in Fibers : pc'[g] = "wait" /\ <<g, "raced">> \notin marks' => Found(g)'
    BY <1>5 DEF Watching
  <2> QED BY <2>1, <2>2 DEF Watching
<1>7. AbortsOnlyByOrphan'
  BY DEF AbortsOnlyByOrphan
<1> QED BY <1>2, <1>3, <1>6, <1>7

\* A step of f that opens or closes a descriptor: calls are left alone.
LEMMA HolderStepKeeps ==
    ASSUME IInv, NEW f \in Fibers, UNCHANGED <<timer, fired, cancelled, woke, failed>>, ~failed,
           \A g \in Fibers : g # f => pc'[g] = pc[g] /\ call'[g] = call[g],
           pc[f] \in {"run", "get", "create", "del", "close"},
           pc'[f] \in {"run", "get", "create", "del", "close"},
           call'[f].kind = "none" \/ call'[f] = call[f]
    PROVE  CallsApart' /\ Timers' /\ WokenBy' /\ AbortsOnlyByOrphan'
<1> USE DEF IInv
<1>1. CallsApart'
  BY DEF CallsApart, InCall
<1>2. Timers'
  <2>1. /\ timer[f] = "none" /\ f \notin cancelled /\ cancelled \subseteq Fibers
        /\ \A c \in fired : c.by \in Fibers /\ (c.own => c.by # f)
    BY DEF Timers, InCall, Types, Callbacks
  <2> QED BY <2>1 DEF Timers
<1>3. WokenBy'
  BY DEF WokenBy
<1>4. AbortsOnlyByOrphan'
  BY DEF AbortsOnlyByOrphan
<1> QED BY <1>1, <1>2, <1>3, <1>4

\* Nothing of the table and epoll changes, nobody begins to wait and nobody gets past
\* cancelAll.
LEMMA WatchingKept ==
    ASSUME Types, Watching, UNCHANGED <<eventVars, extra, refused>>,
           \A fd \in Fds : sock'[fd] = 0 => sock[fd] = 0,
           \A g \in Fibers : pc'[g] = "wait" <=> pc[g] = "wait",
           \A g \in Fibers : pc[g] = "wait" => call'[g] = call[g],
           \A g \in Fibers : pc'[g] \in {"del", "close"} =>
              pc[g] \in {"del", "close"} /\ call'[g].fd = call[g].fd,
           \A g \in Fibers : <<g, "raced">> \in marks => <<g, "raced">> \in marks'
    PROVE  Watching'
<1> USE DEF eventVars
<1>1. \A fd \in Fds, e \in Event : Tended(fd, e) => Tended(fd, e)'
  BY DEF Tended, Waits
<1>2. \A g \in Fibers : pc[g] = "wait" /\ Found(g) => Found(g)'
  BY DEF Found
<1>3. \A fd \in Fds : \A e \in armed'[fd] : Tended(fd, e)'
  BY <1>1 DEF Watching, Types
<1>4. \A g \in Fibers : pc'[g] = "wait" /\ <<g, "raced">> \notin marks' => Found(g)'
  BY <1>2 DEF Watching
<1> QED BY <1>3, <1>4 DEF Watching

-----------------------------------------------------------------------------
(* Descriptors *)

LEMMA NoCallFacts ==
    /\ NoCall \in Calls /\ NoCall.kind = "none"
    /\ \A fd \in Fds : /\ [NoCall EXCEPT !.fd = fd] \in Calls
                       /\ [NoCall EXCEPT !.fd = fd].kind = "none"
                       /\ [NoCall EXCEPT !.fd = fd].fd = fd
BY HookAssumption DEF NoCall, Calls, Event

LEMMA SocketStep ==
    ASSUME IInv, NEW f \in Fibers, NEW fd \in Fds, Socket(f, fd)
    PROVE  IInv'
<1> USE DEF IInv
<1>1. /\ ~failed /\ pc[f] = "run" /\ sock[fd] = 0 /\ made' = made + 1
      /\ sock' = [sock EXCEPT ![fd] = made + 1]
      /\ call' = [call EXCEPT ![f] = [NoCall EXCEPT !.fd = fd]] /\ pc' = [pc EXCEPT ![f] = "get"]
      /\ UNCHANGED <<known, size, datas, eventVars, timer, fired, cancelled, woke, marks, extra, refused, failed>>
  BY DEF Socket, At, NewSocket, Goto
<1>2. /\ pc' \in [Fibers -> Places] /\ call' \in [Fibers -> Calls] /\ pc'[f] = "get"
      /\ call'[f].kind = "none" /\ call'[f].fd = fd
      /\ \A g \in Fibers : g # f => pc'[g] = pc[g] /\ call'[g] = call[g]
  BY <1>1, NoCallFacts DEF Types, Places
<1>3. /\ sock' \in [Fds -> Nat] /\ made' \in Nat /\ sock'[fd] # 0
      /\ \A d \in Fds : d # fd => sock'[d] = sock[d]
  BY <1>1 DEF Types
<1>4. Types'
  BY <1>1, <1>2, <1>3 DEF Types, eventVars
<1>5. Held'
  BY <1>1, <1>2, <1>3 DEF Held, Holds, Types
<1>6. Contexts'
  BY <1>1, <1>2, <1>3 DEF Contexts, Holds, Types
<1>7. Watching'
  BY <1>1, <1>2, <1>3, WatchingKept
<1>8. CallsApart' /\ Timers' /\ WokenBy' /\ AbortsOnlyByOrphan'
  BY <1>1, <1>2, HolderStepKeeps
<1> QED BY <1>4, <1>5, <1>6, <1>7, <1>8

LEMMA GetFoundStep ==
    ASSUME IInv, NEW f \in Fibers, GetFound(f)
    PROVE  IInv'
<1> USE DEF IInv
<1>1. /\ ~failed /\ pc[f] = "get" /\ datas[call[f].fd] # Nobody
      /\ known' = known \cup {call[f].fd}
      /\ call' = [call EXCEPT ![f] = NoCall] /\ pc' = [pc EXCEPT ![f] = "run"]
      /\ UNCHANGED <<sock, made, size, datas, eventVars, timer, fired, cancelled, woke, marks, extra, refused, failed>>
  BY DEF GetFound, At, Goto
<1>2. /\ pc' \in [Fibers -> Places] /\ call' \in [Fibers -> Calls] /\ pc'[f] = "run"
      /\ call'[f].kind = "none"
      /\ \A g \in Fibers : g # f => pc'[g] = pc[g] /\ call'[g] = call[g]
  BY <1>1, NoCallFacts DEF Types, Places
<1>3. PICK fd \in Fds : fd = call[f].fd
  BY <1>1 DEF Held, Holds
<1>4. Types'
  BY <1>1, <1>2, <1>3 DEF Types, eventVars
<1>5. Held'
  BY <1>1, <1>2, <1>3 DEF Held, Holds
<1>6. Contexts'
  BY <1>1, <1>2, <1>3 DEF Contexts, Holds
<1>7. Watching'
  BY <1>1, <1>2, WatchingKept
<1>8. CallsApart' /\ Timers' /\ WokenBy' /\ AbortsOnlyByOrphan'
  BY <1>1, <1>2, HolderStepKeeps
<1> QED BY <1>4, <1>5, <1>6, <1>7, <1>8

LEMMA GetMissingStep ==
    ASSUME IInv, NEW f \in Fibers, GetMissing(f)
    PROVE  IInv'
<1> USE DEF IInv
<1>1. /\ ~failed /\ pc[f] = "get" /\ datas[call[f].fd] = Nobody
      /\ pc' = [pc EXCEPT ![f] = "create"]
      /\ UNCHANGED <<fdVars, eventVars, waitVars, failed>>
  BY DEF GetMissing, At, Goto
<1>2. /\ pc' \in [Fibers -> Places] /\ pc'[f] = "create"
      /\ \A g \in Fibers : g # f => pc'[g] = pc[g]
  BY <1>1 DEF Types, Places
<1>4. Types'
  BY <1>1, <1>2 DEF Types, fdVars, eventVars, waitVars
<1>5. Held'
  BY <1>1, <1>2 DEF Held, Holds, fdVars, waitVars
<1>6. Contexts'
  BY <1>1, <1>2 DEF Contexts, Holds, fdVars, waitVars
<1>7. Watching'
  BY <1>1, <1>2, WatchingKept DEF fdVars, waitVars
<1>8. CallsApart' /\ Timers' /\ WokenBy' /\ AbortsOnlyByOrphan'
  BY <1>1, <1>2, HolderStepKeeps DEF waitVars
<1> QED BY <1>4, <1>5, <1>6, <1>7, <1>8

\* The table of contexts reaches beyond the new one and never shrinks.
LEMMA ResizedFacts ==
    ASSUME size \in Nat, size >= 64, NEW fd \in Nat
    PROVE  Resized(fd) \in Nat /\ Resized(fd) >= size /\ fd < Resized(fd)
BY DEF Resized

LEMMA GetCreateStep ==
    ASSUME IInv, NEW f \in Fibers, GetCreate(f)
    PROVE  IInv'
<1> USE DEF IInv
<1>1. /\ ~failed /\ pc[f] = "create"
      /\ size' = Resized(call[f].fd)
      /\ datas' = [datas EXCEPT ![call[f].fd] = FdCtx(call[f].fd)]
      /\ known' = known \cup {call[f].fd}
      /\ call' = [call EXCEPT ![f] = NoCall] /\ pc' = [pc EXCEPT ![f] = "run"]
      /\ UNCHANGED <<sock, made, eventVars, timer, fired, cancelled, woke, marks, extra, refused, failed>>
  BY DEF GetCreate, At, Goto
<1>2. /\ pc' \in [Fibers -> Places] /\ call' \in [Fibers -> Calls] /\ pc'[f] = "run"
      /\ call'[f].kind = "none"
      /\ \A g \in Fibers : g # f => pc'[g] = pc[g] /\ call'[g] = call[g]
  BY <1>1, NoCallFacts DEF Types, Places
<1>3. PICK fd \in Fds : fd = call[f].fd
  BY <1>1 DEF Held, Holds
<1>4. size' \in Nat /\ size' >= size /\ fd < size' /\ size \in Nat /\ size >= 64 /\ fd \in Nat
  <2>1. size \in Nat /\ size >= 64 /\ fd \in Nat /\ size' = Resized(fd)
    BY <1>1, <1>3, HookAssumption DEF Types
  <2> QED BY <2>1, ResizedFacts
<1>5. /\ datas' \in [Fds -> FdCtxs \cup {Nobody}] /\ datas'[fd].sock = sock[fd]
      /\ \A d \in Fds : d # fd => datas'[d] = datas[d]
  <2>1. FdCtx(fd) \in FdCtxs /\ FdCtx(fd).sock = sock[fd]
    BY DEF FdCtx, FdCtxs, Types
  <2> QED BY <1>1, <1>3, <2>1 DEF Types
<1>6. Types'
  <2>1. size' \in Nat /\ size' >= 64
    BY <1>4
  <2>2. known' \subseteq Fds
    BY <1>1, <1>3 DEF Types
  <2>3. UNCHANGED <<sock, made, table, armed, timer, fired, cancelled, woke, extra, refused>>
    BY <1>1 DEF eventVars
  <2> QED BY <1>2, <1>5, <2>1, <2>2, <2>3 DEF Types
<1>7. Held'
  BY <1>1, <1>2, <1>3 DEF Held, Holds
<1>8. Contexts'
  <2> SUFFICES ASSUME NEW d \in Fds, datas'[d] # Nobody
               PROVE  /\ d < size'
                      /\ <<d, "plain">> \notin marks =>
                            /\ sock[d] # 0
                            /\ d \in known' => datas'[d].sock = sock[d]
                            /\ \A g \in Fibers : Holds(g)' /\ call'[g].fd = d => pc'[g] = "del"
    BY <1>1 DEF Contexts
  <2>1. CASE d = fd
    BY <1>1, <1>2, <1>3, <1>4, <1>5, <2>1 DEF Held, Holds
  <2>2. CASE d # fd
    <3>1. d < size /\ d \in Nat
      BY <1>5, <2>2, HookAssumption DEF Contexts
    <3>2. d < size'
      BY <1>4, <3>1
    <3> QED BY <1>1, <1>2, <1>3, <1>5, <2>2, <3>2 DEF Contexts, Holds
  <2> QED BY <2>1, <2>2
<1>9. Watching'
  BY <1>1, <1>2, WatchingKept
<1>10. CallsApart' /\ Timers' /\ WokenBy' /\ AbortsOnlyByOrphan'
  BY <1>1, <1>2, HolderStepKeeps
<1> QED BY <1>6, <1>7, <1>8, <1>9, <1>10

LEMMA SetOptionStep ==
    ASSUME IInv, NEW f \in Fibers, NEW fd \in Fds, NEW option, SetOption(f, fd, option)
    PROVE  IInv'
<1> USE DEF IInv
<1>1. /\ ~failed /\ datas[fd] # Nobody
      /\ \/ datas' = [datas EXCEPT ![fd] = [@ EXCEPT !.timeout = TRUE]]
         \/ datas' = [datas EXCEPT ![fd] = [@ EXCEPT !.nonblock = FALSE]]
      /\ UNCHANGED <<sock, made, known, size, eventVars, pc, waitVars, failed>>
  BY DEF SetOption, At
<1>2. /\ datas' \in [Fds -> FdCtxs \cup {Nobody}] /\ datas'[fd].sock = datas[fd].sock
      /\ \A d \in Fds : d # fd => datas'[d] = datas[d]
  <2>1. datas[fd] \in FdCtxs
    BY <1>1 DEF Types
  <2>2. /\ [datas[fd] EXCEPT !.timeout = TRUE] \in FdCtxs
        /\ [datas[fd] EXCEPT !.nonblock = FALSE] \in FdCtxs
        /\ [datas[fd] EXCEPT !.timeout = TRUE].sock = datas[fd].sock
        /\ [datas[fd] EXCEPT !.nonblock = FALSE].sock = datas[fd].sock
    BY <2>1 DEF FdCtxs
  <2> QED BY <1>1, <2>2 DEF Types
<1>3. Types'
  BY <1>1, <1>2 DEF Types, eventVars, waitVars
<1>4. Contexts'
  BY <1>1, <1>2 DEF Contexts, Holds, waitVars
<1>5. Held' /\ CallsApart' /\ Timers' /\ WokenBy' /\ AbortsOnlyByOrphan'
  BY <1>1 DEF Held, Holds, CallsApart, Timers, WokenBy, AbortsOnlyByOrphan, waitVars
<1>6. Watching'
  BY <1>1, WatchingKept DEF waitVars
<1> QED BY <1>3, <1>4, <1>5, <1>6

LEMMA CloseDelStep ==
    ASSUME IInv, NEW f \in Fibers, CloseDel(f)
    PROVE  IInv'
<1> USE DEF IInv
<1>1. /\ ~failed /\ pc[f] = "del" /\ pc' = [pc EXCEPT ![f] = "close"]
      /\ datas' = [datas EXCEPT ![call[f].fd] = Nobody]
      /\ UNCHANGED <<sock, made, known, size, eventVars, waitVars, failed>>
  BY DEF CloseDel, At, Goto
<1>2. /\ pc' \in [Fibers -> Places] /\ pc'[f] = "close"
      /\ \A g \in Fibers : g # f => pc'[g] = pc[g]
  BY <1>1 DEF Types, Places
<1>3. PICK fd \in Fds : fd = call[f].fd
  BY <1>1 DEF Held, Holds
<1>4. /\ datas' \in [Fds -> FdCtxs \cup {Nobody}] /\ datas'[fd] = Nobody
      /\ \A d \in Fds : d # fd => datas'[d] = datas[d]
  BY <1>1, <1>3 DEF Types
<1>5. Types'
  BY <1>1, <1>2, <1>4 DEF Types, eventVars, waitVars
<1>6. Held'
  BY <1>1, <1>2 DEF Held, Holds, waitVars
<1>7. Contexts'
  BY <1>1, <1>2, <1>3, <1>4 DEF Contexts, Holds, waitVars
<1>8. Watching'
  BY <1>1, <1>2, WatchingKept DEF waitVars
<1>9. CallsApart' /\ Timers' /\ WokenBy' /\ AbortsOnlyByOrphan'
  BY <1>1, <1>2, HolderStepKeeps DEF waitVars
<1> QED BY <1>5, <1>6, <1>7, <1>8, <1>9

LEMMA CloseStep ==
    ASSUME IInv, NEW f \in Fibers, Close(f)
    PROVE  IInv'
<1> USE DEF IInv
<1>1. /\ ~failed /\ pc[f] = "close"
      /\ sock' = [sock EXCEPT ![call[f].fd] = 0] /\ armed' = [armed EXCEPT ![call[f].fd] = {}]
      /\ call' = [call EXCEPT ![f] = NoCall] /\ pc' = [pc EXCEPT ![f] = "run"]
      /\ UNCHANGED <<made, known, size, datas, table, timer, fired, cancelled, woke, marks, extra, refused, failed>>
  BY DEF Close, At, Goto
<1>2. /\ pc' \in [Fibers -> Places] /\ call' \in [Fibers -> Calls] /\ pc'[f] = "run"
      /\ call'[f].kind = "none"
      /\ \A g \in Fibers : g # f => pc'[g] = pc[g] /\ call'[g] = call[g]
  BY <1>1, NoCallFacts DEF Types, Places
<1>3. PICK fd \in Fds : fd = call[f].fd
  BY <1>1 DEF Held, Holds
<1>4. /\ sock' \in [Fds -> Nat] /\ armed' \in [Fds -> SUBSET Event]
      /\ sock'[fd] = 0 /\ armed'[fd] = {}
      /\ \A d \in Fds : d # fd => sock'[d] = sock[d] /\ armed'[d] = armed[d]
  BY <1>1, <1>3 DEF Types
<1>5. Types'
  BY <1>1, <1>2, <1>4 DEF Types
<1>6. Held'
  BY <1>1, <1>2, <1>3, <1>4 DEF Held, Holds
<1>7. Contexts'
  BY <1>1, <1>2, <1>3, <1>4 DEF Contexts, Holds
<1>8. Watching'
  <2>1. \A d \in Fds : armed'[d] = {} \/
           \A e \in Event : table'[d][e] # Nobody => e \in armed'[d] \/ table'[d][e] \in refused'
    BY <1>1, <1>4 DEF Watching
  <2>2. \A d \in Fds : sock'[d] = 0 => armed'[d] = {}
    BY <1>4 DEF Watching
  <2>3. \A d \in Fds, e \in Event : Tended(d, e) => Tended(d, e)'
    BY <1>1, <1>2 DEF Tended, Waits
  <2>4. \A d \in Fds : \A e \in armed'[d] : Tended(d, e)'
    BY <1>4, <2>3 DEF Watching, Types
  <2>5. ASSUME NEW g \in Fibers, pc'[g] = "wait", <<g, "raced">> \notin marks'
        PROVE  Found(g)'
    <3>1. Found(g) /\ g # f /\ call'[g] = call[g] /\ call[g].fd \in Fds
      BY <1>1, <1>2, <2>5 DEF Watching, CallsApart, InCall
    <3>2. call[g].fd # fd
      BY <1>1, <1>3, <3>1 DEF Found
    <3> QED BY <1>1, <1>2, <1>4, <3>1, <3>2 DEF Found
  <2> QED BY <1>1, <2>1, <2>2, <2>4, <2>5 DEF Watching
<1>9. CallsApart' /\ Timers' /\ WokenBy' /\ AbortsOnlyByOrphan'
  BY <1>1, <1>2, HolderStepKeeps
<1> QED BY <1>5, <1>6, <1>7, <1>8, <1>9

LEMMA PlainCloseStep ==
    ASSUME IInv, NEW fd \in Fds, PlainClose(fd)
    PROVE  IInv'
<1> USE DEF IInv
<1>1. /\ ~failed /\ fd \in known /\ known' = known \ {fd}
      /\ sock' = [sock EXCEPT ![fd] = 0] /\ armed' = [armed EXCEPT ![fd] = {}]
      /\ marks \subseteq marks'
      /\ UNCHANGED <<made, size, datas, table, pc, call, timer, fired, cancelled, woke, extra, refused, failed>>
  BY DEF PlainClose
<1>2. /\ \A e \in Event : table[fd][e] # Nobody => <<table[fd][e], "raced">> \in marks'
      /\ datas[fd] # Nobody => <<fd, "plain">> \in marks'
  BY DEF PlainClose, Watched
<1>3. /\ sock' \in [Fds -> Nat] /\ armed' \in [Fds -> SUBSET Event]
      /\ sock'[fd] = 0 /\ armed'[fd] = {}
      /\ \A d \in Fds : d # fd => sock'[d] = sock[d] /\ armed'[d] = armed[d]
  BY <1>1 DEF Types
<1>4. Types'
  BY <1>1, <1>3 DEF Types
<1>5. Held'
  BY <1>1, <1>3 DEF Held, Holds, Types
<1>6. Contexts'
  BY <1>1, <1>2, <1>3 DEF Contexts, Holds
<1>7. Watching'
  <2>1. \A d \in Fds : armed'[d] = {} \/
           \A e \in Event : table'[d][e] # Nobody => e \in armed'[d] \/ table'[d][e] \in refused'
    BY <1>1, <1>3 DEF Watching
  <2>2. \A d \in Fds : sock'[d] = 0 => armed'[d] = {}
    BY <1>3 DEF Watching
  <2>3. \A d \in Fds, e \in Event : Tended(d, e) => Tended(d, e)'
    BY <1>1 DEF Tended, Waits
  <2>4. \A d \in Fds : \A e \in armed'[d] : Tended(d, e)'
    BY <1>3, <2>3 DEF Watching, Types
  <2>5. ASSUME NEW g \in Fibers, pc'[g] = "wait", <<g, "raced">> \notin marks'
        PROVE  Found(g)'
    <3>1. Found(g) /\ call[g].fd \in Fds /\ call[g].ev \in Event
      BY <1>1, <2>5 DEF Watching, CallsApart, InCall, Types, Calls
    <3>2. call[g].fd # fd
      BY <1>2, <2>5, <3>1, HookAssumption DEF Found
    <3> QED BY <1>1, <1>3, <3>1, <3>2 DEF Found
  <2> QED BY <1>1, <2>1, <2>2, <2>4, <2>5 DEF Watching
<1>8. CallsApart' /\ Timers' /\ WokenBy' /\ AbortsOnlyByOrphan'
  BY <1>1 DEF CallsApart, Timers, WokenBy, AbortsOnlyByOrphan
<1> QED BY <1>4, <1>5, <1>6, <1>7, <1>8

LEMMA PlainSocketStep ==
    ASSUME IInv, NEW fd \in Fds, PlainSocket(fd)
    PROVE  IInv'
<1> USE DEF IInv
<1>1. /\ ~failed /\ sock[fd] = 0 /\ known' = known \cup {fd} /\ made' = made + 1
      /\ sock' = [sock EXCEPT ![fd] = made + 1]
      /\ UNCHANGED <<size, datas, eventVars, pc, waitVars, failed>>
  BY DEF PlainSocket, NewSocket
<1>2. /\ sock' \in [Fds -> Nat] /\ made' \in Nat /\ sock'[fd] # 0
      /\ \A d \in Fds : d # fd => sock'[d] = sock[d]
  BY <1>1 DEF Types
<1>3. Types'
  BY <1>1, <1>2 DEF Types, eventVars, waitVars
<1>4. Held'
  BY <1>1, <1>2 DEF Held, Holds, waitVars, Types
<1>5. Contexts'
  BY <1>1, <1>2 DEF Contexts, Holds, waitVars
<1>6. Watching'
  BY <1>1, <1>2, WatchingKept DEF waitVars
<1>7. CallsApart' /\ Timers' /\ WokenBy' /\ AbortsOnlyByOrphan'
  BY <1>1 DEF CallsApart, Timers, WokenBy, AbortsOnlyByOrphan, waitVars
<1> QED BY <1>3, <1>4, <1>5, <1>6, <1>7

-----------------------------------------------------------------------------
(* Calls *)

LEMMA BeginStep ==
    ASSUME IInv, NEW f \in Fibers, NEW kind \in {"connect", "io"}, NEW fd \in Fds,
           NEW e \in Event, NEW timed \in BOOLEAN, Begin(f, kind, fd, e, timed)
    PROVE  IInv'
<1> USE DEF IInv
<1> DEFINE new == [kind |-> kind, fd |-> fd, ev |-> e, timed |-> timed, sock |-> sock[fd]]
<1>1. /\ ~failed /\ pc[f] = "run" /\ Free(fd, e)
      /\ call' = [call EXCEPT ![f] = new] /\ pc' = [pc EXCEPT ![f] = "call"]
      /\ UNCHANGED <<fdVars, eventVars, timer, fired, cancelled, woke, marks, extra, refused, failed>>
  BY DEF Begin, At, Goto
<1>2. new \in Calls
  BY HookAssumption DEF Calls, Types
<1>3. /\ pc' \in [Fibers -> Places] /\ call' \in [Fibers -> Calls]
      /\ pc'[f] = "call" /\ call'[f] = new
      /\ \A g \in Fibers : g # f => pc'[g] = pc[g] /\ call'[g] = call[g]
  BY <1>1, <1>2 DEF Types, Places
<1>4. Types'
  BY <1>1, <1>3 DEF Types, fdVars, eventVars
<1>5. Held' /\ Contexts' /\ Watching' /\ AbortsOnlyByOrphan'
  BY <1>1, <1>3, CallStepKeeps DEF Holds
<1>6. CallsApart'
  <2>1. \A g \in Fibers : pc'[g] \in InCall \cup {"connected"} =>
           call'[g].kind # "none" /\ call'[g].fd \in Fds
    BY <1>3 DEF CallsApart
  <2>2. \A g \in Fibers :
           /\ g # f /\ call[g].kind # "none" /\ call[g].fd = fd /\ call[g].ev = e
           => call[g].sock # sock[fd]
    BY <1>1 DEF Free
  <2>3. ASSUME NEW g \in Fibers, NEW h \in Fibers, g # h,
               call'[g].kind # "none", call'[h].kind # "none",
               call'[g].fd = call'[h].fd, call'[g].ev = call'[h].ev
        PROVE  call'[g].sock # call'[h].sock
    <3>1. CASE g = f
      BY <1>3, <2>2, <2>3, <3>1
    <3>2. CASE h = f
      BY <1>3, <2>2, <2>3, <3>2
    <3>3. CASE g # f /\ h # f
      BY <1>3, <2>3, <3>3 DEF CallsApart
    <3> QED BY <3>1, <3>2, <3>3
  <2> QED BY <2>1, <2>3 DEF CallsApart
<1>7. Timers'
  BY <1>1, <1>3 DEF Timers, InCall, Types
<1>8. WokenBy'
  BY <1>1, <1>3 DEF WokenBy
<1> QED BY <1>4, <1>5, <1>6, <1>7, <1>8

LEMMA CallBlocksStep ==
    ASSUME IInv, NEW f \in Fibers, CallBlocks(f)
    PROVE  IInv'
<1> USE DEF IInv
<1>1. /\ ~failed /\ pc[f] = "call" /\ pc' = [pc EXCEPT ![f] = "add"]
      /\ UNCHANGED <<fdVars, eventVars, call, fired, cancelled, woke, marks, extra, refused, failed>>
  BY DEF CallBlocks, At, Goto
<1>2. PICK t \in {"set", "lost", "none"} :
         timer' = [timer EXCEPT ![f] = t] /\ (t # "none" => call[f].timed)
  BY DEF CallBlocks
<1>3. /\ pc' \in [Fibers -> Places] /\ pc'[f] = "add"
      /\ timer' \in [Fibers -> TimerStates] /\ timer'[f] = t
      /\ \A g \in Fibers : g # f => pc'[g] = pc[g] /\ timer'[g] = timer[g]
  BY <1>1, <1>2 DEF Types, Places, TimerStates
<1>4. Types'
  BY <1>1, <1>3 DEF Types, fdVars, eventVars
<1>5. Held' /\ Contexts' /\ Watching' /\ AbortsOnlyByOrphan'
  BY <1>1, <1>3, CallStepKeeps DEF Holds
<1>6. CallsApart' /\ WokenBy'
  BY <1>1, <1>3 DEF CallsApart, WokenBy, InCall
<1>7. Timers'
  BY <1>1, <1>2, <1>3 DEF Timers, InCall, Types, Callbacks
<1> QED BY <1>4, <1>5, <1>6, <1>7

\* The locals of the call are gone: its callbacks are, or it sees no more of them.
LEMMA ReturnedFacts ==
    ASSUME Types, NEW f \in Fibers, Returned(f)
    PROVE  /\ cancelled' = cancelled \ {f}
           /\ fired' \subseteq Callbacks
           /\ \A c \in fired' : \/ c \in fired /\ c.by # f
                                \/ ~c.own /\ c.step # "out"
           /\ \A x : <<x, "plain">> \in marks' <=> <<x, "plain">> \in marks
           /\ \A g \in Fibers : g # f => (<<g, "raced">> \in marks' <=> <<g, "raced">> \in marks)
<1>1. \A c \in fired : /\ c \in Callbacks /\ [c EXCEPT !.own = FALSE] \in Callbacks
                       /\ ~[c EXCEPT !.own = FALSE].own
                       /\ [c EXCEPT !.own = FALSE].step = c.step
  BY DEF Types, Callbacks
<1>2. \A c \in fired' : \E d \in fired :
         \/ c = d /\ d.by # f
         \/ c = [d EXCEPT !.own = FALSE] /\ d.by = f /\ d.step # "out"
  BY DEF Returned
<1>3. fired' \subseteq Callbacks
  BY <1>1, <1>2
<1>4. \A c \in fired' : \/ c \in fired /\ c.by # f
                        \/ ~c.own /\ c.step # "out"
  BY <1>1, <1>2
<1>5. cancelled' = cancelled \ {f} /\ marks' = marks \ {<<f, "early">>, <<f, "raced">>}
  BY DEF Returned
<1>6. /\ \A x : <<x, "plain">> \in marks' <=> <<x, "plain">> \in marks
      /\ \A g \in Fibers : g # f => (<<g, "raced">> \in marks' <=> <<g, "raced">> \in marks)
  BY <1>5
<1> QED BY <1>3, <1>4, <1>5, <1>6

\* timer->cancel(): the own timer is gone, and perhaps another is lost.
LEMMA CancelTimerFacts ==
    ASSUME Types, NEW f \in Fibers, CancelTimer(f)
    PROVE  /\ timer' \in [Fibers -> TimerStates] /\ timer'[f] = "none"
           /\ \A g \in Fibers : timer'[g] # "none" => timer[g] # "none"
BY DEF CancelTimer, Types, TimerStates

\* f leaves its call, for "run" or for "connected".
LEMMA LeaveStep ==
    ASSUME IInv, NEW f \in Fibers, Returned(f), ~failed,
           pc[f] \in InCall \ {"wait"},
           \/ CancelTimer(f)
           \/ timer' = timer /\ pc[f] = "call",
           \/ /\ call' = [call EXCEPT ![f] = NoCall] /\ pc' = [pc EXCEPT ![f] = "run"]
              /\ woke' = [woke EXCEPT ![f] = "none"] \/ (woke' = woke /\ pc[f] = "call")
           \/ /\ call' = call /\ pc' = [pc EXCEPT ![f] = "connected"] /\ woke' = woke
              /\ woke[f] = "timeout" => f \notin cancelled,
           UNCHANGED <<fdVars, eventVars, extra, refused, failed>>
    PROVE  IInv'
<1> USE DEF IInv
<1>1. /\ cancelled' = cancelled \ {f}
      /\ fired' \subseteq Callbacks
      /\ \A c \in fired' : \/ c \in fired /\ c.by # f
                           \/ ~c.own /\ c.step # "out"
      /\ \A x : <<x, "plain">> \in marks' <=> <<x, "plain">> \in marks
      /\ \A g \in Fibers : g # f => (<<g, "raced">> \in marks' <=> <<g, "raced">> \in marks)
  BY ReturnedFacts
<1>2. /\ timer' \in [Fibers -> TimerStates] /\ timer'[f] = "none"
      /\ \A g \in Fibers : timer'[g] # "none" => timer[g] # "none"
  <2>1. CASE CancelTimer(f)
    BY <2>1, CancelTimerFacts
  <2>2. CASE timer' = timer /\ pc[f] = "call"
    BY <2>2 DEF Types, Timers
  <2> QED BY <2>1, <2>2
<1>3. /\ pc' \in [Fibers -> Places] /\ call' \in [Fibers -> Calls]
      /\ \/ pc'[f] = "run" /\ call'[f].kind = "none"
         \/ pc'[f] = "connected" /\ call'[f] = call[f]
      /\ \A g \in Fibers : g # f => pc'[g] = pc[g] /\ call'[g] = call[g]
  <2>0. pc \in [Fibers -> Places] /\ call \in [Fibers -> Calls]
    BY DEF Types
  <2>1. CASE call' = [call EXCEPT ![f] = NoCall] /\ pc' = [pc EXCEPT ![f] = "run"]
    BY <2>0, <2>1, NoCallFacts DEF Places
  <2>2. CASE call' = call /\ pc' = [pc EXCEPT ![f] = "connected"]
    BY <2>0, <2>2 DEF Places
  <2> QED BY <2>1, <2>2
<1>4. /\ woke' \in [Fibers -> Reasons]
      /\ \A g \in Fibers : g # f => woke'[g] = woke[g]
      /\ woke'[f] \notin {"timeout", "stray"}
  BY DEF Types, WokenBy, Reasons
<1>5. Types'
  BY <1>1, <1>2, <1>3, <1>4 DEF Types, fdVars, eventVars
<1>6. Held' /\ Contexts' /\ Watching' /\ AbortsOnlyByOrphan'
  BY <1>1, <1>3, CallStepKeeps DEF Holds, InCall
<1>7. CallsApart'
  BY <1>3 DEF CallsApart, InCall
<1>8. Timers'
  <2>1. \A g \in Fibers : timer'[g] # "none" =>
           pc'[g] \in {"add", "wait", "woken"} /\ call'[g].timed
    BY <1>2, <1>3 DEF Timers
  <2>2. \A g \in cancelled' : pc'[g] \in InCall /\ call'[g].timed
    BY <1>1, <1>3 DEF Timers, Types
  <2>3. \A c \in fired' :
           /\ c.step = "out" => c.own
           /\ c.own => /\ pc'[c.by] \in InCall /\ call'[c.by].timed
                       /\ c.fd = call'[c.by].fd /\ c.ev = call'[c.by].ev
           /\ c.own /\ c.step = "marked" => c.by \in cancelled'
    BY <1>1, <1>3 DEF Timers, Callbacks
  <2> QED BY <2>1, <2>2, <2>3 DEF Timers
<1>9. WokenBy'
  BY <1>1, <1>3, <1>4 DEF WokenBy
<1> QED BY <1>5, <1>6, <1>7, <1>8, <1>9

LEMMA CallReturnsStep ==
    ASSUME IInv, NEW f \in Fibers, CallReturns(f)
    PROVE  IInv'
BY LeaveStep DEF CallReturns, At, Goto, InCall

LEMMA ResumeReturnsStep ==
    ASSUME IInv, NEW f \in Fibers, ResumeReturns(f)
    PROVE  IInv'
BY LeaveStep DEF ResumeReturns, At, Goto, InCall

LEMMA ResumeConnectStep ==
    ASSUME IInv, NEW f \in Fibers, ResumeConnect(f)
    PROVE  IInv'
BY LeaveStep DEF ResumeConnect, At, Goto, InCall, TimedOut

LEMMA ResumeRetriesStep ==
    ASSUME IInv, NEW f \in Fibers, ResumeRetries(f)
    PROVE  IInv'
<1> USE DEF IInv
<1>1. /\ ~failed /\ pc[f] = "woken" /\ pc' = [pc EXCEPT ![f] = "call"]
      /\ CancelTimer(f) /\ woke' = [woke EXCEPT ![f] = "none"]
      /\ UNCHANGED <<fdVars, eventVars, call, fired, cancelled, marks, extra, refused, failed>>
  BY DEF ResumeRetries, At, Goto
<1>2. /\ timer' \in [Fibers -> TimerStates] /\ timer'[f] = "none"
      /\ \A g \in Fibers : timer'[g] # "none" => timer[g] # "none"
  BY <1>1, CancelTimerFacts
<1>3. /\ pc' \in [Fibers -> Places] /\ pc'[f] = "call"
      /\ woke' \in [Fibers -> Reasons] /\ woke'[f] = "none"
      /\ \A g \in Fibers : g # f => pc'[g] = pc[g] /\ woke'[g] = woke[g]
  BY <1>1 DEF Types, Places, Reasons
<1>4. Types'
  BY <1>1, <1>2, <1>3 DEF Types, fdVars, eventVars
<1>5. Held' /\ Contexts' /\ Watching' /\ AbortsOnlyByOrphan'
  BY <1>1, <1>3, CallStepKeeps DEF Holds
<1>6. CallsApart' /\ WokenBy'
  BY <1>1, <1>3 DEF CallsApart, WokenBy, InCall
<1>7. Timers'
  BY <1>1, <1>2, <1>3 DEF Timers, InCall, Types, Callbacks
<1> QED BY <1>4, <1>5, <1>6, <1>7

LEMMA ConnectedStep ==
    ASSUME IInv, NEW f \in Fibers, Connected(f)
    PROVE  IInv'
<1> USE DEF IInv
<1>1. /\ ~failed /\ pc[f] = "connected" /\ pc' = [pc EXCEPT ![f] = "run"]
      /\ call' = [call EXCEPT ![f] = NoCall] /\ woke' = [woke EXCEPT ![f] = "none"]
      /\ UNCHANGED <<fdVars, eventVars, timer, fired, cancelled, marks, extra, refused, failed>>
  BY DEF Connected, At, Goto
<1>2. /\ pc' \in [Fibers -> Places] /\ pc'[f] = "run"
      /\ call' \in [Fibers -> Calls] /\ call'[f].kind = "none"
      /\ woke' \in [Fibers -> Reasons] /\ woke'[f] = "none"
      /\ \A g \in Fibers : g # f => pc'[g] = pc[g] /\ call'[g] = call[g] /\ woke'[g] = woke[g]
  BY <1>1, NoCallFacts DEF Types, Places, Reasons
<1>3. Types'
  BY <1>1, <1>2 DEF Types, fdVars, eventVars
<1>4. Held' /\ Contexts' /\ Watching' /\ AbortsOnlyByOrphan'
  BY <1>1, <1>2, CallStepKeeps DEF Holds
<1>5. CallsApart' /\ WokenBy'
  BY <1>1, <1>2 DEF CallsApart, WokenBy, InCall
<1>6. Timers'
  BY <1>1, <1>2 DEF Timers, InCall, Types, Callbacks
<1> QED BY <1>3, <1>4, <1>5, <1>6

-----------------------------------------------------------------------------
(* Events and timers *)

\* What Trigger does to the table and to epoll.  Where epoll watches something, every
\* event of the table has a fiber that waits for it or was refused.
LEMMA WatchedFacts ==
    ASSUME IInv, NEW fd \in Fds, armed[fd] # {}, NEW e \in Watched(fd)
    PROVE  Tended(fd, e)
<1>1. e \in armed[fd] \/ table[fd][e] \in refused
  BY DEF IInv, Watching, Watched
<1>2. CASE e \in armed[fd]
  BY <1>2 DEF IInv, Watching
<1>3. CASE table[fd][e] \in refused
  BY <1>3 DEF IInv, Types, Tended
<1> QED BY <1>1, <1>2, <1>3

\* The table and epoll after Trigger.
Dropped(fd, E) ==
    /\ table' \in [Fds -> [Event -> Fibers \cup {Nobody}]] /\ armed' \in [Fds -> SUBSET Event]
    /\ \A x \in Event : table'[fd][x] = IF x \in E THEN Nobody ELSE table[fd][x]
    /\ \A x \in Event : x \in armed'[fd] <=> table[fd][x] # Nobody /\ x \notin E
    /\ \A d \in Fds : d # fd => table'[d] = table[d] /\ armed'[d] = armed[d]

LEMMA DroppedFacts ==
    ASSUME Types, NEW fd \in Fds, NEW E, NEW by, Trigger(fd, E, by)
    PROVE  Dropped(fd, E)
<1>1. /\ table' = [table EXCEPT ![fd] = [x \in Event |-> IF x \in E THEN Nobody ELSE table[fd][x]]]
      /\ armed' = [armed EXCEPT ![fd] = Watched(fd) \ E]
  BY DEF Trigger, Types
<1>2. /\ [x \in Event |-> IF x \in E THEN Nobody ELSE table[fd][x]] \in [Event -> Fibers \cup {Nobody}]
      /\ Watched(fd) \ E \in SUBSET Event
  BY DEF Types, Watched
<1>3. table' \in [Fds -> [Event -> Fibers \cup {Nobody}]] /\ armed' \in [Fds -> SUBSET Event]
  BY <1>1, <1>2 DEF Types
<1>4. /\ table'[fd] = [x \in Event |-> IF x \in E THEN Nobody ELSE table[fd][x]]
      /\ armed'[fd] = Watched(fd) \ E
      /\ \A d \in Fds : d # fd => table'[d] = table[d] /\ armed'[d] = armed[d]
  BY <1>1 DEF Types
<1> QED BY <1>3, <1>4 DEF Dropped, Watched

\* The triggered fibers that wait are woken, and nobody begins to wait.
Stirred(fd, E) == \A g \in Fibers :
    /\ pc[g] = "wait" => /\ pc'[g] = IF g \in Triggered(fd, E) THEN "woken" ELSE "wait"
                         /\ call'[g] = call[g]
    /\ pc'[g] = "wait" => pc[g] = "wait"

LEMMA TriggerWatching ==
    ASSUME IInv, NEW fd \in Fds, armed[fd] # {}, NEW E \in SUBSET Watched(fd), NEW by,
           Trigger(fd, E, by), Stirred(fd, E), UNCHANGED <<sock, refused>>,
           \A g \in Fibers : <<g, "raced">> \in marks => <<g, "raced">> \in marks',
           \A g, h \in Fibers :
              /\ pc'[g] = "wait" /\ pc'[h] \in {"del", "close"} /\ call'[h].fd = call[g].fd
              => \/ pc[h] \in {"del", "close"} /\ call[h].fd = call[g].fd
                 \/ call[g].fd = fd /\ E = Watched(fd)
    PROVE  Watching'
<1> USE DEF IInv
<1>1. Dropped(fd, E)
  BY DroppedFacts
<1>2. \A x \in Watched(fd) : Tended(fd, x)
  BY WatchedFacts
<1>3. ASSUME NEW d \in Fds, NEW x \in armed'[d]
      PROVE  Tended(d, x)'
  <2>1. x \in Event /\ Tended(d, x) /\ table'[d][x] = table[d][x] /\ (d # fd \/ x \notin E)
    <3>1. x \in Event
      BY <1>1, <1>3 DEF Dropped
    <3>2. CASE d = fd
      BY <1>1, <1>2, <1>3, <3>1, <3>2 DEF Dropped, Watched
    <3>3. CASE d # fd
      BY <1>1, <1>3, <3>1, <3>3 DEF Dropped, Watching
    <3> QED BY <3>1, <3>2, <3>3
  <2>2. PICK g \in Fibers : g = table[d][x]
    BY <2>1 DEF Tended
  <2>3. CASE g \in refused
    BY <2>1, <2>2, <2>3 DEF Tended
  <2>4. CASE g \notin refused
    <3>1. pc[g] = "wait" /\ call[g].fd = d /\ call[g].ev = x
      BY <2>1, <2>2, <2>4 DEF Tended, Waits
    <3>2. g \notin Triggered(fd, E)
      <4> SUFFICES ASSUME NEW y \in E, table[fd][y] = g PROVE FALSE
        BY DEF Triggered
      <4>1. Waits(g, fd, y)
        BY <1>2, <2>4 DEF Tended
      <4> QED BY <2>1, <3>1, <4>1 DEF Waits
    <3>3. pc'[g] = "wait" /\ call'[g] = call[g]
      BY <3>1, <3>2 DEF Stirred
    <3> QED BY <2>1, <2>2, <3>1, <3>3 DEF Tended, Waits
  <2> QED BY <2>3, <2>4
<1>4. ASSUME NEW d \in Fds, armed'[d] # {}, NEW x \in Event, table'[d][x] # Nobody
      PROVE  x \in armed'[d] \/ table'[d][x] \in refused'
  <2>1. CASE d = fd
    BY <1>1, <1>4, <2>1 DEF Dropped
  <2>2. CASE d # fd
    BY <1>1, <1>4, <2>2 DEF Dropped, Watching
  <2> QED BY <2>1, <2>2
<1>5. \A d \in Fds : sock'[d] = 0 => armed'[d] = {}
  BY <1>1 DEF Dropped, Watching
<1>6. ASSUME NEW g \in Fibers, pc'[g] = "wait", <<g, "raced">> \notin marks'
      PROVE  Found(g)'
  <2>1. pc[g] = "wait" /\ g \notin Triggered(fd, E) /\ call'[g] = call[g]
    BY <1>6 DEF Stirred
  <2>2. Found(g) /\ call[g].fd \in Fds /\ call[g].ev \in Event
    BY <1>6, <2>1 DEF Watching, CallsApart, InCall, Types, Calls
  <2>3. call[g].fd = fd => call[g].ev \notin E /\ call[g].ev \in Watched(fd)
    BY <2>1, <2>2, HookAssumption DEF Found, Triggered, Watched
  <2>4. call[g].ev \in armed'[call[g].fd] /\ table'[call[g].fd][call[g].ev] = g
    <3>1. CASE call[g].fd = fd
      BY <1>1, <2>2, <2>3, <3>1 DEF Dropped, Found, Watched
    <3>2. CASE call[g].fd # fd
      BY <1>1, <2>2, <3>2 DEF Dropped, Found
    <3> QED BY <3>1, <3>2
  <2>5. \A h \in Fibers : pc'[h] \in {"del", "close"} => call'[h].fd # call[g].fd
    BY <1>6, <2>2, <2>3 DEF Found
  <2> QED BY <2>1, <2>4, <2>5 DEF Found
<1>7. extra' \subseteq refused'
  <2> SUFFICES ASSUME NEW g \in extra', g \notin refused PROVE FALSE
    OBVIOUS
  <2>1. /\ g \in Fibers /\ g \in Triggered(fd, E)
        /\ pc[g] # "wait" \/ \A e \in Event : e \in E /\ table[fd][e] = g
    BY DEF Trigger, Watching
  <2>2. PICK y \in E : table[fd][y] = g
    BY <2>1 DEF Triggered
  <2>3. Waits(g, fd, y)
    BY <1>2, <2>2 DEF Tended
  <2>4. \A e \in Event : e \in E /\ table[fd][e] = g
    BY <2>1, <2>3 DEF Waits
  <2>5. \A e \in Event : Waits(g, fd, e)
    BY <1>2, <2>4 DEF Tended
  <2> QED BY <2>5 DEF Waits, Event
<1> QED BY <1>3, <1>4, <1>5, <1>6, <1>7 DEF Watching

\* A fiber is given the reason only when it waits for the event.
LEMMA TriggerWoke ==
    ASSUME Types, NEW fd \in Fds, NEW E, NEW by \in Reasons, Trigger(fd, E, by)
    PROVE  /\ woke' \in [Fibers -> Reasons] /\ extra' \subseteq Fibers
           /\ \A g \in Fibers : \/ woke'[g] = woke[g]
                                \/ woke'[g] = "again"
                                \/ /\ woke'[g] = by /\ g \in Triggered(fd, E)
                                   /\ \E e \in E : table[fd][e] = g /\ Waits(g, fd, e)
BY DEF Trigger, Types, Reasons

\* Events are triggered outside close: the fibers, and only they, stop waiting.
LEMMA TriggerStep ==
    ASSUME IInv, NEW fd \in Fds, armed[fd] # {}, NEW e \in Watched(fd), NEW by \in Reasons,
           Trigger(fd, {e}, by), pc' = Woken(fd, {e}), ~failed,
           UNCHANGED <<fdVars, call, timer, refused, failed, cancelled>>,
           fired' \subseteq fired,
           Waits(table[fd][e], fd, e) =>
              by # "stray" /\ (by = "timeout" => table[fd][e] \in cancelled),
           marks \subseteq marks', \A x : <<x, "plain">> \in marks' => <<x, "plain">> \in marks
    PROVE  IInv'
<1> USE DEF IInv, fdVars
<1>1. /\ pc' \in [Fibers -> Places]
      /\ \A g \in Fibers : pc'[g] = IF pc[g] = "wait" /\ g \in Triggered(fd, {e})
                                    THEN "woken" ELSE pc[g]
  BY DEF Woken, Types, Places
<1>2. /\ woke' \in [Fibers -> Reasons] /\ extra' \subseteq Fibers
      /\ \A g \in Fibers : \/ woke'[g] = woke[g]
                           \/ woke'[g] = "again"
                           \/ /\ woke'[g] = by /\ g \in Triggered(fd, {e})
                              /\ \E x \in {e} : table[fd][x] = g /\ Waits(g, fd, x)
  BY TriggerWoke
<1>3. Dropped(fd, {e})
  BY DroppedFacts
<1>4. Types'
  BY <1>1, <1>2, <1>3 DEF Types, Dropped
<1>5. \A g \in Fibers : /\ Holds(g)' <=> Holds(g)
                        /\ Holds(g) \/ pc'[g] \in {"del", "close"} => pc'[g] = pc[g]
  BY <1>1 DEF Holds
<1>6. Held' /\ Contexts'
  BY <1>5 DEF Held, Contexts
<1>7. Watching'
  <2>1. Stirred(fd, {e})
    BY <1>1 DEF Stirred
  <2>2. {e} \in SUBSET Watched(fd)
    OBVIOUS
  <2>3. \A g, h \in Fibers :
           /\ pc'[g] = "wait" /\ pc'[h] \in {"del", "close"} /\ call'[h].fd = call[g].fd
           => pc[h] \in {"del", "close"} /\ call[h].fd = call[g].fd
    BY <1>1
  <2> QED BY <2>1, <2>2, <2>3, TriggerWatching
<1>8. CallsApart'
  BY <1>1 DEF CallsApart, InCall
<1>9. Timers'
  <2>1. \A g \in Fibers : pc[g] \in InCall => pc'[g] \in InCall
    BY <1>1 DEF InCall
  <2>2. \A g \in Fibers : timer'[g] # "none" =>
           pc'[g] \in {"add", "wait", "woken"} /\ call'[g].timed
    BY <1>1 DEF Timers
  <2>3. \A c \in fired' : c \in fired /\ c.by \in Fibers
    BY DEF Types, Callbacks
  <2> QED BY <2>1, <2>2, <2>3 DEF Timers, Types
<1>10. WokenBy'
  <2> SUFFICES ASSUME NEW g \in Fibers
               PROVE  /\ woke'[g] # "stray"
                      /\ woke'[g] = "timeout" => pc'[g] = "woken" /\ g \in cancelled'
    BY DEF WokenBy
  <2>1. CASE woke'[g] = woke[g] \/ woke'[g] = "again"
    BY <1>1, <2>1 DEF WokenBy
  <2>2. CASE /\ woke'[g] = by /\ g \in Triggered(fd, {e})
             /\ table[fd][e] = g /\ Waits(g, fd, e)
    BY <1>1, <2>2 DEF Waits
  <2> QED BY <1>2, <2>1, <2>2
<1>11. AbortsOnlyByOrphan'
  BY DEF AbortsOnlyByOrphan
<1> QED BY <1>4, <1>6, <1>7, <1>8, <1>9, <1>10, <1>11

LEMMA EventOccursStep ==
    ASSUME IInv, NEW fd \in Fds, NEW e \in Event, EventOccurs(fd, e)
    PROVE  IInv'
<1>1. /\ e \in armed[fd] /\ Trigger(fd, {e}, "event") /\ pc' = Woken(fd, {e}) /\ ~failed
      /\ UNCHANGED <<fdVars, call, timer, refused, failed, cancelled>> /\ UNCHANGED <<fired, marks>>
  BY DEF EventOccurs
<1>2. e \in Watched(fd)
  BY <1>1, HookAssumption DEF IInv, Watching, Tended, Watched
<1> QED BY <1>1, <1>2, TriggerStep DEF Reasons

\* A fiber that fiber_list_ held once more stops waiting; its event stays.
LEMMA ResumedAgainStep ==
    ASSUME IInv, NEW f \in Fibers, ResumedAgain(f)
    PROVE  IInv'
<1> USE DEF IInv
<1>1. /\ ~failed /\ pc[f] = "wait" /\ pc' = [pc EXCEPT ![f] = "woken"]
      /\ f \in extra /\ extra' = extra \ {f} /\ woke' = [woke EXCEPT ![f] = "again"]
      /\ UNCHANGED <<fdVars, eventVars, call, timer, fired, cancelled, marks, refused, failed>>
  BY DEF ResumedAgain, At, Goto
<1>2. /\ pc' \in [Fibers -> Places] /\ pc'[f] = "woken"
      /\ woke' \in [Fibers -> Reasons] /\ woke'[f] = "again"
      /\ \A g \in Fibers : g # f => pc'[g] = pc[g] /\ woke'[g] = woke[g]
  BY <1>1 DEF Types, Places, Reasons
<1>3. Types'
  BY <1>1, <1>2 DEF Types, fdVars, eventVars
<1>4. Held' /\ Contexts'
  BY <1>1, <1>2 DEF Held, Contexts, Holds, fdVars
<1>5. Watching'
  <2>1. \A d \in Fds, x \in Event : Tended(d, x) => Tended(d, x)'
    BY <1>1, <1>2 DEF Tended, Waits, Watching, eventVars
  <2>2. \A d \in Fds : \A x \in armed'[d] : Tended(d, x)'
    BY <1>1, <2>1 DEF Watching, Types, eventVars
  <2>3. \A g \in Fibers : pc'[g] = "wait" => g # f /\ pc[g] = "wait"
    BY <1>2
  <2>4. \A g \in Fibers : g # f /\ Found(g) => Found(g)'
    BY <1>1, <1>2 DEF Found, eventVars
  <2>5. \A g \in Fibers : pc'[g] = "wait" /\ <<g, "raced">> \notin marks' => Found(g)'
    BY <1>1, <2>3, <2>4 DEF Watching
  <2> QED BY <1>1, <2>2, <2>5 DEF Watching, fdVars, eventVars
<1>6. CallsApart' /\ WokenBy'
  BY <1>1, <1>2 DEF CallsApart, WokenBy, InCall
<1>7. Timers'
  BY <1>1, <1>2 DEF Timers, InCall, Types, Callbacks
<1>8. AbortsOnlyByOrphan'
  BY <1>1 DEF AbortsOnlyByOrphan
<1> QED BY <1>3, <1>4, <1>5, <1>6, <1>7, <1>8

LEMMA TimerExpiresStep ==
    ASSUME IInv, NEW f \in Fibers, TimerExpires(f)
    PROVE  IInv'
<1> USE DEF IInv
<1>1. /\ ~failed /\ timer[f] = "set" /\ timer' = [timer EXCEPT ![f] = "out"]
      /\ UNCHANGED <<fdVars, eventVars, pc, call, cancelled, woke, marks, extra, refused, failed>>
  BY DEF TimerExpires
<1>2. PICK n \in 1 .. MaxOut :
         fired' = fired \cup {[by |-> f, no |-> n, fd |-> call[f].fd, ev |-> call[f].ev,
                               step |-> "out", own |-> TRUE]}
  BY DEF TimerExpires
<1> DEFINE new == [by |-> f, no |-> n, fd |-> call[f].fd, ev |-> call[f].ev,
                   step |-> "out", own |-> TRUE]
<1>3. pc[f] \in InCall /\ call[f].timed /\ call[f].fd \in Fds
  BY <1>1 DEF Timers, InCall, CallsApart
<1>4. new \in Callbacks
  BY <1>3, HookAssumption DEF Types, Calls, Callbacks
<1>5. Types'
  BY <1>1, <1>2, <1>4 DEF Types, TimerStates, fdVars, eventVars
<1>6. Held' /\ Contexts' /\ CallsApart' /\ WokenBy' /\ AbortsOnlyByOrphan'
  BY <1>1 DEF Held, Contexts, Holds, CallsApart, WokenBy, AbortsOnlyByOrphan, fdVars
<1>7. Watching'
  BY <1>1, WatchingKept DEF fdVars
<1>8. Timers'
  <2>1. \A g \in Fibers : timer'[g] # "none" => timer[g] # "none"
    BY <1>1 DEF Types
  <2>2. new.step = "out" /\ new.own /\ new.by = f /\ new.fd = call[f].fd /\ new.ev = call[f].ev
    OBVIOUS
  <2>3. \A c \in fired' : c \in fired \/ c = new
    BY <1>2
  <2> HIDE DEF new
  <2>4. \A c \in fired' :
           /\ c.step = "out" => c.own
           /\ c.own => /\ pc[c.by] \in InCall /\ call[c.by].timed
                       /\ c.fd = call[c.by].fd /\ c.ev = call[c.by].ev
           /\ c.own /\ c.step = "marked" => c.by \in cancelled
    BY <1>3, <2>2, <2>3 DEF Timers
  <2> QED BY <1>1, <2>1, <2>4 DEF Timers
<1> QED BY <1>5, <1>6, <1>7, <1>8

\* A callback goes on to its next step, without touching descriptors, events and fibers.
LEMMA CallbackOn ==
    ASSUME IInv, NEW c \in fired, NEW step \in {"tested", "marked"}, ~failed,
           fired' \subseteq (fired \ {c}) \cup {[c EXCEPT !.step = step]},
           \/ cancelled' = cancelled /\ step = "tested"
           \/ cancelled' = IF c.own THEN cancelled \cup {c.by} ELSE cancelled,
           UNCHANGED <<fdVars, eventVars, pc, call, timer, woke, marks, extra, refused, failed>>
    PROVE  IInv'
<1> USE DEF IInv
<1> DEFINE new == [c EXCEPT !.step = step]
<1>1. /\ c \in Callbacks /\ new \in Callbacks /\ new.step = step
      /\ new.by = c.by /\ (new.own <=> c.own) /\ new.fd = c.fd /\ new.ev = c.ev
  BY DEF Types, Callbacks
<1>2. \A d \in fired' : d \in fired \/ d = new
  OBVIOUS
<1> HIDE DEF new
<1>3. c.by \in Fibers /\ (c.own => pc[c.by] \in InCall /\ call[c.by].timed)
  BY <1>1 DEF Timers, Callbacks
<1>4. cancelled \subseteq cancelled' /\ cancelled' \subseteq Fibers
  BY <1>3 DEF Types
<1>5. Types'
  BY <1>1, <1>2, <1>4 DEF Types, fdVars, eventVars
<1>6. Held' /\ Contexts' /\ CallsApart' /\ AbortsOnlyByOrphan'
  BY DEF Held, Contexts, Holds, CallsApart, AbortsOnlyByOrphan, fdVars
<1>7. WokenBy'
  BY <1>4 DEF WokenBy
<1>8. Watching'
  BY WatchingKept DEF fdVars
<1>9. Timers'
  <2>1. c.own /\ step = "marked" => c.by \in cancelled'
    OBVIOUS
  <2>2. \A d \in fired' :
           /\ d.step = "out" => d.own
           /\ d.own => /\ pc[d.by] \in InCall /\ call[d.by].timed
                       /\ d.fd = call[d.by].fd /\ d.ev = call[d.by].ev
           /\ d.own /\ d.step = "marked" => d.by \in cancelled'
    BY <1>1, <1>2, <1>4, <2>1 DEF Timers
  <2>3. \A g \in cancelled' : pc[g] \in InCall /\ call[g].timed
    BY <1>3 DEF Timers
  <2> QED BY <2>2, <2>3 DEF Timers
<1> QED BY <1>5, <1>6, <1>7, <1>8, <1>9

LEMMA CallbackTestsStep ==
    ASSUME IInv, NEW c \in fired, CallbackTests(c)
    PROVE  IInv'
BY CallbackOn DEF CallbackTests

LEMMA CallbackMarksStep ==
    ASSUME IInv, NEW c \in fired, CallbackMarks(c)
    PROVE  IInv'
BY CallbackOn DEF CallbackMarks

\* cancelEvent of a callback: the wait it ends is its own, one on another socket, or
\* the call of the callback has returned.
LEMMA CallbackCancelsStep ==
    ASSUME IInv, NEW c \in fired, CallbackCancels(c)
    PROVE  IInv'
<1> USE DEF IInv
<1>1. c.by \in Fibers /\ c.fd \in Fds /\ c.ev \in Event
  BY DEF Types, Callbacks
<1>2. c.own => /\ pc[c.by] \in InCall /\ c.fd = call[c.by].fd /\ c.ev = call[c.by].ev
               /\ c.by \in cancelled /\ call[c.by].kind # "none"
  BY <1>1 DEF CallbackCancels, Timers, CallsApart
<1>3. /\ ~failed /\ fired' = fired \ {c}
      /\ UNCHANGED <<fdVars, call, timer, cancelled, refused, failed>>
  BY DEF CallbackCancels
<1>4. marks \subseteq marks' /\ \A x : <<x, "plain">> \in marks' => <<x, "plain">> \in marks
  BY DEF CallbackCancels
<1>5. CASE UNCHANGED <<eventVars, pc, woke, extra>>
  <2>1. Types'
    BY <1>3, <1>5 DEF Types, fdVars, eventVars
  <2>2. Held' /\ Contexts' /\ CallsApart'
    BY <1>3, <1>4, <1>5 DEF Held, Contexts, Holds, CallsApart, fdVars
  <2>3. Timers' /\ WokenBy' /\ AbortsOnlyByOrphan'
    BY <1>3, <1>5 DEF Timers, WokenBy, AbortsOnlyByOrphan
  <2>4. Watching'
    BY <1>3, <1>4, <1>5, WatchingKept DEF fdVars
  <2> QED BY <2>1, <2>2, <2>3, <2>4
<1>6. CASE /\ c.ev \in Watched(c.fd) /\ armed[c.fd] # {}
           /\ Trigger(c.fd, {c.ev}, Ends(c)) /\ pc' = Woken(c.fd, {c.ev})
  <2>1. PICK g \in Fibers : g = table[c.fd][c.ev]
    BY <1>1, <1>6, WatchedFacts DEF Tended
  <2>2. Ends(c) \in Reasons
    BY DEF Ends, Reasons
  <2>3. Waits(g, c.fd, c.ev) => Ends(c) # "stray" /\ (Ends(c) = "timeout" => g \in cancelled)
    <3> SUFFICES ASSUME Waits(g, c.fd, c.ev), c.own
                 PROVE  Ends(c) # "stray" /\ (Ends(c) = "timeout" => g \in cancelled)
      BY DEF Ends
    <3>1. call[g].fd = c.fd /\ call[g].ev = c.ev /\ call[g].kind # "none"
      BY DEF Waits, CallsApart, InCall
    <3>2. g # c.by => call[c.by].sock # call[g].sock
      BY <1>1, <1>2, <3>1 DEF CallsApart
    <3>3. Ends(c) = IF g = c.by THEN "timeout" ELSE "reused"
      BY <1>2, <2>1, <3>2 DEF Ends
    <3> QED BY <1>2, <3>3
  <2> QED BY <1>1, <1>3, <1>4, <1>6, <2>1, <2>2, <2>3, TriggerStep
<1> QED BY <1>5, <1>6 DEF CallbackCancels

\* f puts itself into the table.
Entered(f, fd, e) ==
    /\ table' \in [Fds -> [Event -> Fibers \cup {Nobody}]] /\ table'[fd][e] = f
    /\ \A d \in Fds, x \in Event : d # fd \/ x # e => table'[d][x] = table[d][x]

LEMMA TableFacts ==
    ASSUME Types, NEW f \in Fibers, NEW fd \in Fds, NEW e \in Event,
           table' = [table EXCEPT ![fd][e] = f]
    PROVE  Entered(f, fd, e)
<1>1. [table[fd] EXCEPT ![e] = f] \in [Event -> Fibers \cup {Nobody}]
  BY DEF Types
<1>2. table' = [table EXCEPT ![fd] = [table[fd] EXCEPT ![e] = f]]
  BY DEF Types
<1>3. table' \in [Fds -> [Event -> Fibers \cup {Nobody}]]
  BY <1>1, <1>2 DEF Types
<1> QED BY <1>2, <1>3 DEF Types, Entered

LEMMA AddEventStep ==
    ASSUME IInv, NEW f \in Fibers, AddEvent(f)
    PROVE  IInv'
<1> USE DEF IInv
<1>1. pc[f] = "add" /\ ~failed
  BY DEF AddEvent, At
<1>2. PICK fd \in Fds, e \in Event : fd = call[f].fd /\ e = call[f].ev
  BY <1>1 DEF CallsApart, InCall, Types, Calls
<1>3. /\ table[fd][e] = Nobody /\ CtlAdds(fd)
      /\ table' = [table EXCEPT ![fd][e] = f]
      /\ armed' = [armed EXCEPT ![fd] = Watched(fd) \cup {e}]
      /\ marks' = IF Closing(fd) THEN marks \cup {<<f, "raced">>} ELSE marks
      /\ pc' = [pc EXCEPT ![f] = "wait"]
      /\ UNCHANGED <<fdVars, call, timer, fired, cancelled, woke, extra, refused, failed>>
  BY <1>2 DEF AddEvent, Goto
<1>4. /\ table' \in [Fds -> [Event -> Fibers \cup {Nobody}]] /\ table'[fd][e] = f
      /\ \A d \in Fds, x \in Event : d # fd \/ x # e => table'[d][x] = table[d][x]
  <2>1. Types /\ table' = [table EXCEPT ![fd][e] = f]
    BY <1>3
  <2>2. Entered(f, fd, e)
    BY <2>1, TableFacts
  <2> QED BY <2>2 DEF Entered
<1>5. /\ armed' \in [Fds -> SUBSET Event] /\ armed'[fd] = Watched(fd) \cup {e}
      /\ \A d \in Fds : d # fd => armed'[d] = armed[d]
  BY <1>3 DEF Types, Watched
<1>6. /\ pc' \in [Fibers -> Places] /\ pc'[f] = "wait"
      /\ \A g \in Fibers : g # f => pc'[g] = pc[g]
  BY <1>3 DEF Types, Places
<1>7. /\ marks \subseteq marks' /\ \A x : <<x, "plain">> \in marks' => <<x, "plain">> \in marks
      /\ Closing(fd) => <<f, "raced">> \in marks'
  BY <1>3
<1>8. Types'
  BY <1>3, <1>4, <1>5, <1>6 DEF Types, fdVars
<1>9. Held' /\ Contexts'
  BY <1>1, <1>3, <1>6, <1>7 DEF Held, Contexts, Holds, fdVars
<1>10. Watching'
  <2>1. sock[fd] # 0 /\ \A x \in Watched(fd) : armed[fd] # {} /\ Tended(fd, x)
    <3>1. sock[fd] # 0 /\ \A x \in Watched(fd) : armed[fd] # {}
      BY <1>3 DEF CtlAdds
    <3> QED BY <3>1, WatchedFacts
  <2>2. ASSUME NEW d \in Fds, armed'[d] # {}, NEW x \in Event, table'[d][x] # Nobody
        PROVE  x \in armed'[d] \/ table'[d][x] \in refused'
    <3>1. CASE d = fd
      BY <1>4, <1>5, <2>2, <3>1 DEF Watched
    <3>2. CASE d # fd
      BY <1>3, <1>4, <1>5, <2>2, <3>2 DEF Watching
    <3> QED BY <3>1, <3>2
  <2>3. \A d \in Fds : sock'[d] = 0 => armed'[d] = {}
    BY <1>3, <1>5, <2>1 DEF Watching, fdVars
  <2>4. ASSUME NEW d \in Fds, NEW x \in armed'[d]
        PROVE  Tended(d, x)'
    <3>1. CASE d = fd /\ x = e
      BY <1>2, <1>3, <1>4, <1>6, <3>1 DEF Tended, Waits
    <3>2. CASE d # fd \/ x # e
      <4>1. x \in Event
        BY <1>5 DEF Types
      <4>2. Tended(d, x)
        BY <1>5, <2>1, <2>4, <3>2 DEF Watching
      <4>3. table'[d][x] = table[d][x] /\ ~Waits(f, d, x)
        BY <1>1, <1>4, <3>2, <4>1 DEF Waits
      <4> QED BY <1>3, <1>6, <4>2, <4>3 DEF Tended, Waits
    <3> QED BY <3>1, <3>2
  <2>5. ASSUME NEW g \in Fibers, pc'[g] = "wait", <<g, "raced">> \notin marks'
        PROVE  Found(g)'
    <3>1. CASE g = f
      <4>1. \A h \in Fibers : pc[h] \in {"del", "close"} => call[h].fd # fd
        BY <1>7, <2>5, <3>1 DEF Closing
      <4>2. \A h \in Fibers : pc'[h] \in {"del", "close"} => pc[h] \in {"del", "close"}
        BY <1>6
      <4> QED BY <1>2, <1>3, <1>4, <1>5, <3>1, <4>1, <4>2 DEF Found
    <3>2. CASE g # f
      <4>1. Found(g) /\ call[g].fd \in Fds /\ call[g].ev \in Event
        BY <1>6, <1>7, <2>5, <3>2 DEF Watching, CallsApart, InCall, Types, Calls
      <4>2. call[g].fd # fd \/ call[g].ev # e
        BY <1>3, <4>1, HookAssumption DEF Found
      <4>3. call[g].ev \in armed'[call[g].fd] /\ table'[call[g].fd][call[g].ev] = g
        <5>1. CASE call[g].fd = fd
          BY <1>4, <1>5, <4>1, <4>2, <5>1, HookAssumption DEF Found, Watched
        <5>2. CASE call[g].fd # fd
          BY <1>4, <1>5, <4>1, <5>2 DEF Found
        <5> QED BY <5>1, <5>2
      <4> QED BY <1>3, <1>6, <4>1, <4>3 DEF Found
    <3> QED BY <3>1, <3>2
  <2> QED BY <1>3, <2>2, <2>3, <2>4, <2>5 DEF Watching
<1>11. CallsApart' /\ WokenBy'
  BY <1>1, <1>3, <1>6 DEF CallsApart, WokenBy, InCall
<1>12. Timers'
  BY <1>1, <1>3, <1>6 DEF Timers, InCall, Types, Callbacks
<1>13. AbortsOnlyByOrphan'
  BY <1>1, <1>3 DEF AbortsOnlyByOrphan
<1> QED BY <1>8, <1>9, <1>10, <1>11, <1>12, <1>13

\* Epoll watches nothing of the descriptor, or has refused for reasons of its own.
LEMMA AddEventFailsStep ==
    ASSUME IInv, NEW f \in Fibers, AddEventFails(f)
    PROVE  IInv'
<1> USE DEF IInv
<1>1. pc[f] = "add" /\ ~failed
  BY DEF AddEventFails, At
<1>2. PICK fd \in Fds, e \in Event : fd = call[f].fd /\ e = call[f].ev
  BY <1>1 DEF CallsApart, InCall, Types, Calls
<1>3. /\ table[fd][e] = Nobody /\ table' = [table EXCEPT ![fd][e] = f]
      /\ woke' = [woke EXCEPT ![f] = "refused"] /\ pc' = [pc EXCEPT ![f] = "woken"]
      /\ UNCHANGED <<fdVars, armed, call, timer, fired, cancelled, marks, extra, failed>>
      /\ \/ ~CtlAdds(fd) /\ refused' = refused
         \/ refused' = refused \cup {f}
  BY <1>2 DEF AddEventFails, Goto
<1>4. /\ table' \in [Fds -> [Event -> Fibers \cup {Nobody}]] /\ table'[fd][e] = f
      /\ \A d \in Fds, x \in Event : d # fd \/ x # e => table'[d][x] = table[d][x]
  <2>1. Types /\ table' = [table EXCEPT ![fd][e] = f]
    BY <1>3
  <2>2. Entered(f, fd, e)
    BY <2>1, TableFacts
  <2> QED BY <2>2 DEF Entered
<1>5. /\ pc' \in [Fibers -> Places] /\ pc'[f] = "woken"
      /\ woke' \in [Fibers -> Reasons] /\ woke'[f] = "refused"
      /\ \A g \in Fibers : g # f => pc'[g] = pc[g] /\ woke'[g] = woke[g]
  BY <1>3 DEF Types, Places, Reasons
<1>6. e \notin armed[fd]
  BY <1>3, HookAssumption DEF Watching, Tended
<1>7. refused \subseteq refused' /\ refused' \subseteq Fibers /\ (armed[fd] = {} \/ f \in refused')
  <2>1. CASE refused' = refused \cup {f}
    BY <2>1 DEF Types
  <2>2. CASE ~CtlAdds(fd) /\ refused' = refused
    <3>1. CASE sock[fd] = 0
      BY <2>2, <3>1 DEF Watching, Types
    <3>2. CASE sock[fd] # 0 /\ armed[fd] # {}
      <4>1. Watched(fd) = {}
        BY <2>2, <3>2 DEF CtlAdds
      <4>2. PICK x \in armed[fd] : x \in Event /\ table[fd][x] # Nobody
        BY <3>2, HookAssumption DEF Watching, Tended, Types
      <4> QED BY <4>1, <4>2 DEF Watched
    <3> QED BY <2>2, <3>1, <3>2 DEF Types
  <2> QED BY <1>3, <2>1, <2>2
<1>8. Types'
  BY <1>3, <1>4, <1>5, <1>7 DEF Types, fdVars
<1>9. Held' /\ Contexts'
  BY <1>1, <1>3, <1>5 DEF Held, Contexts, Holds, fdVars
<1>10. Watching'
  <2>1. ASSUME NEW d \in Fds, armed'[d] # {}, NEW x \in Event, table'[d][x] # Nobody
        PROVE  x \in armed'[d] \/ table'[d][x] \in refused'
    <3>1. CASE d = fd /\ x = e
      BY <1>3, <1>4, <1>7, <2>1, <3>1
    <3>2. CASE d # fd \/ x # e
      BY <1>3, <1>4, <1>7, <2>1, <3>2 DEF Watching
    <3> QED BY <3>1, <3>2
  <2>2. \A d \in Fds : sock'[d] = 0 => armed'[d] = {}
    BY <1>3 DEF Watching, fdVars
  <2>3. ASSUME NEW d \in Fds, NEW x \in armed'[d]
        PROVE  Tended(d, x)'
    <3>1. x \in armed[d] /\ x \in Event /\ (d # fd \/ x # e)
      BY <1>3, <1>6, <2>3 DEF Types
    <3>2. Tended(d, x) /\ table'[d][x] = table[d][x]
      BY <1>4, <3>1 DEF Watching
    <3> QED BY <1>1, <1>3, <1>5, <1>7, <3>2 DEF Tended, Waits
  <2>4. ASSUME NEW g \in Fibers, pc'[g] = "wait", <<g, "raced">> \notin marks'
        PROVE  Found(g)'
    <3>1. Found(g) /\ call[g].fd \in Fds /\ call[g].ev \in Event
      BY <1>3, <1>5, <2>4 DEF Watching, CallsApart, InCall, Types, Calls
    <3>2. call[g].fd # fd \/ call[g].ev # e
      BY <1>6, <3>1 DEF Found
    <3>3. table'[call[g].fd][call[g].ev] = table[call[g].fd][call[g].ev]
      BY <1>4, <3>1, <3>2
    <3> QED BY <1>3, <1>5, <3>1, <3>3 DEF Found
  <2> QED BY <1>3, <1>7, <2>1, <2>2, <2>3, <2>4 DEF Watching
<1>11. CallsApart' /\ WokenBy'
  BY <1>1, <1>3, <1>5 DEF CallsApart, WokenBy, InCall
<1>12. Timers'
  BY <1>1, <1>3, <1>5 DEF Timers, InCall, Types, Callbacks
<1>13. AbortsOnlyByOrphan'
  BY <1>1, <1>3 DEF AbortsOnlyByOrphan
<1> QED BY <1>8, <1>9, <1>10, <1>11, <1>12, <1>13

LEMMA AddEventAbortsStep ==
    ASSUME IInv, NEW f \in Fibers, AddEventAborts(f)
    PROVE  IInv'
<1> USE DEF IInv
<1>1. /\ pc[f] = "add" /\ table[call[f].fd][call[f].ev] # Nobody
      /\ UNCHANGED <<fdVars, eventVars, pc, waitVars>>
  BY DEF AddEventAborts, At
<1>2. Types' /\ Held' /\ Contexts' /\ CallsApart' /\ Timers' /\ WokenBy'
  BY <1>1 DEF Types, Held, Contexts, Holds, CallsApart, Timers, WokenBy, fdVars, eventVars, waitVars
<1>3. Watching'
  BY <1>1, WatchingKept DEF fdVars, waitVars
<1>4. PICK fd \in Fds, e \in Event : fd = call[f].fd /\ e = call[f].ev
  BY <1>1 DEF CallsApart, InCall, Types, Calls
<1>5. \/ e \in Watched(fd) \ armed[fd]
      \/ \E g \in Fibers : /\ table[fd][e] = g
                           /\ g \in refused \/ (g # f /\ (Outdated(f) \/ Outdated(g)))
  <2>1. CASE e \notin armed[fd]
    BY <1>1, <1>4, <2>1 DEF Watched
  <2>2. CASE e \in armed[fd]
    <3>1. PICK g \in Fibers : g = table[fd][e] /\ (Waits(g, fd, e) \/ g \in refused)
      BY <2>2 DEF Watching, Tended
    <3>2. CASE g \in refused
      BY <3>1, <3>2
    <3>3. CASE Waits(g, fd, e)
      <4>1. pc[g] = "wait" /\ call[g].fd = fd /\ call[g].ev = e /\ call[g].kind # "none"
        BY <3>3 DEF Waits, CallsApart, InCall
      <4>2. g # f /\ call[f].kind # "none"
        BY <1>1, <4>1 DEF CallsApart, InCall
      <4>3. call[f].sock # call[g].sock
        BY <1>4, <4>1, <4>2 DEF CallsApart
      <4>4. Outdated(f) \/ Outdated(g)
        BY <1>4, <4>1, <4>3 DEF Outdated
      <4> QED BY <3>1, <4>2, <4>4
    <3> QED BY <3>1, <3>2, <3>3
  <2> QED BY <2>1, <2>2
<1>6. AbortsOnlyByOrphan'
  BY <1>1, <1>4, <1>5 DEF AbortsOnlyByOrphan, Watched, Outdated, fdVars, eventVars, waitVars
<1> QED BY <1>2, <1>3, <1>6

\* close() up to cancelAll: everybody who could be found is woken, before the number
\* can change hands.
LEMMA CloseCancelsStep ==
    ASSUME IInv, NEW f \in Fibers, NEW fd \in Fds, CloseCancels(f, fd)
    PROVE  IInv'
<1> USE DEF IInv
<1>1. /\ ~failed /\ pc[f] = "run" /\ fd \in known /\ known' = known \ {fd}
      /\ call' = [call EXCEPT ![f] = [NoCall EXCEPT !.fd = fd]]
      /\ UNCHANGED <<sock, made, size, datas, timer, fired, cancelled, marks, refused, failed>>
  BY DEF CloseCancels, At
<1>2. /\ call' \in [Fibers -> Calls] /\ call'[f].kind = "none" /\ call'[f].fd = fd
      /\ \A g \in Fibers : g # f => call'[g] = call[g]
  BY <1>1, NoCallFacts DEF Types
<1>3. \/ /\ armed[fd] # {} /\ Trigger(fd, Watched(fd), "close")
         /\ pc' = [Woken(fd, Watched(fd)) EXCEPT ![f] = "del"]
      \/ armed[fd] = {} /\ pc' = [pc EXCEPT ![f] = "del"] /\ UNCHANGED <<eventVars, woke, extra>>
  BY DEF CloseCancels, Goto
<1>4. /\ pc' \in [Fibers -> Places] /\ pc'[f] = "del"
      /\ \A g \in Fibers : g # f => pc'[g] = pc[g] \/ (pc[g] = "wait" /\ pc'[g] = "woken")
  BY <1>3 DEF Woken, Types, Places
<1>5. /\ woke' \in [Fibers -> Reasons] /\ extra' \subseteq Fibers
      /\ \A g \in Fibers : woke'[g] = woke[g] \/ woke'[g] \in {"again", "close"}
  <2>1. CASE Trigger(fd, Watched(fd), "close")
    BY <2>1, TriggerWoke DEF Reasons
  <2>2. CASE UNCHANGED <<woke, extra>>
    BY <2>2 DEF Types
  <2> QED BY <1>3, <2>1, <2>2
<1>6. table' \in [Fds -> [Event -> Fibers \cup {Nobody}]] /\ armed' \in [Fds -> SUBSET Event]
  <2>1. CASE Trigger(fd, Watched(fd), "close")
    BY <2>1, DroppedFacts DEF Dropped
  <2>2. CASE UNCHANGED eventVars
    BY <2>2 DEF Types, eventVars
  <2> QED BY <1>3, <2>1, <2>2
<1>7. \A g \in Fibers : g # f => (Holds(g)' <=> Holds(g)) /\ (Holds(g) => pc'[g] = pc[g])
  BY <1>4 DEF Holds
<1>8. Types'
  BY <1>1, <1>2, <1>4, <1>5, <1>6 DEF Types
<1>9. Held'
  <2>1. \A g \in Fibers : g # f /\ Holds(g)' => Holds(g) /\ call'[g] = call[g] /\ call[g].fd # fd
    BY <1>1, <1>2, <1>7 DEF Held
  <2>2. \A d \in known' : sock'[d] # 0
    BY <1>1 DEF Held
  <2>3. \A g \in Fibers : Holds(g)' =>
           call'[g].fd \in Fds /\ call'[g].fd \notin known' /\ sock'[call'[g].fd] # 0
    BY <1>1, <1>2, <2>1 DEF Held
  <2>4. \A g, h \in Fibers : Holds(g)' /\ Holds(h)' /\ call'[g].fd = call'[h].fd => g = h
    BY <1>2, <2>1 DEF Held
  <2> QED BY <2>2, <2>3, <2>4 DEF Held
<1>10. Contexts'
  BY <1>1, <1>2, <1>4, <1>7 DEF Contexts
<1>11. Watching'
  <2>1. CASE armed[fd] # {} /\ Trigger(fd, Watched(fd), "close")
    <3>1. pc' = [Woken(fd, Watched(fd)) EXCEPT ![f] = "del"]
      BY <1>3, <2>1
    <3>2. Stirred(fd, Watched(fd))
      BY <1>1, <1>2, <3>1 DEF Stirred, Woken, Types
    <3>3. ASSUME NEW g \in Fibers, NEW h \in Fibers,
                 pc'[g] = "wait", pc'[h] \in {"del", "close"}, call'[h].fd = call[g].fd
          PROVE  \/ pc[h] \in {"del", "close"} /\ call[h].fd = call[g].fd
                 \/ call[g].fd = fd /\ Watched(fd) = Watched(fd)
      BY <1>2, <1>4, <3>3
    <3>4. Watched(fd) \in SUBSET Watched(fd) /\ UNCHANGED <<sock, refused>> /\ marks' = marks
      BY <1>1
    <3> QED BY <2>1, <3>2, <3>3, <3>4, TriggerWatching
  <2>2. CASE armed[fd] = {} /\ UNCHANGED <<eventVars, woke, extra>>
    <3>1. pc' = [pc EXCEPT ![f] = "del"] /\ UNCHANGED <<table, armed, extra, refused, marks, sock>>
      BY <1>1, <1>3, <2>2 DEF eventVars
    <3>2. \A g \in Fibers : g # f => pc'[g] = pc[g]
      BY <3>1 DEF Types
    <3>3. \A d \in Fds, x \in Event : Tended(d, x) => Tended(d, x)'
      BY <1>1, <1>2, <3>1, <3>2 DEF Tended, Waits
    <3>4. \A d \in Fds : \A x \in armed'[d] : Tended(d, x)'
      BY <3>1, <3>3 DEF Watching, Types
    <3>5. ASSUME NEW g \in Fibers, pc'[g] = "wait", <<g, "raced">> \notin marks'
          PROVE  Found(g)'
      <4>1. g # f /\ Found(g) /\ call'[g] = call[g]
        BY <1>2, <1>4, <3>1, <3>2, <3>5 DEF Watching
      <4>2. call[g].fd # fd
        BY <2>2, <4>1 DEF Found
      <4> QED BY <1>2, <3>1, <3>2, <4>1, <4>2 DEF Found
    <3> QED BY <3>1, <3>4, <3>5 DEF Watching
  <2> QED BY <1>3, <2>1, <2>2
<1>12. CallsApart'
  <2>1. \A g \in Fibers : pc'[g] \in InCall \cup {"connected"} =>
           g # f /\ pc[g] \in InCall \cup {"connected"}
    BY <1>4 DEF InCall
  <2> QED BY <1>2, <2>1 DEF CallsApart
<1>13. Timers'
  <2>1. \A g \in Fibers : /\ pc[g] \in {"add", "wait", "woken"} =>
                                pc'[g] \in {"add", "wait", "woken"} /\ call'[g] = call[g]
                          /\ pc[g] \in InCall => pc'[g] \in InCall /\ call'[g] = call[g]
    BY <1>1, <1>2, <1>4 DEF InCall
  <2>2. /\ timer' = timer /\ fired' = fired /\ cancelled' = cancelled /\ cancelled \subseteq Fibers
        /\ \A c \in fired : c.by \in Fibers
    BY <1>1 DEF Types, Callbacks
  <2> QED BY <2>1, <2>2 DEF Timers
<1>14. WokenBy'
  BY <1>1, <1>4, <1>5 DEF WokenBy
<1>15. AbortsOnlyByOrphan'
  BY <1>1 DEF AbortsOnlyByOrphan
<1> QED BY <1>8, <1>9, <1>10, <1>11, <1>12, <1>13, <1>14, <1>15

-----------------------------------------------------------------------------
(* The invariant holds *)

LEMMA Start == Init => IInv
<1> SUFFICES ASSUME Init PROVE IInv
  OBVIOUS
<1>1. Types
  BY NoCallFacts DEF Init, Types, Places, TimerStates, Reasons
<1>2. Held /\ Contexts /\ Watching
  BY DEF Init, Held, Holds, Contexts, Watching
<1>3. CallsApart /\ Timers /\ WokenBy
  BY DEF Init, CallsApart, InCall, NoCall, Timers, WokenBy
<1>4. AbortsOnlyByOrphan
  BY DEF Init, AbortsOnlyByOrphan
<1> QED BY <1>1, <1>2, <1>3, <1>4 DEF IInv

LEMMA NextStep == IInv /\ [Next]_vars => IInv'
<1> SUFFICES ASSUME IInv, [Next]_vars PROVE IInv'
  OBVIOUS
<1>1. ASSUME NEW f \in Fibers, Client(f) PROVE IInv'
  <2>1. PICK fd \in Fds :
           \/ Socket(f, fd) \/ CloseCancels(f, fd)
           \/ \E option \in {"timeout", "blocking"} : SetOption(f, fd, option)
           \/ \E timed \in BOOLEAN : Connect(f, fd, timed)
           \/ IoCall(f, fd)
    BY <1>1 DEF Client
  <2>2. CASE Socket(f, fd) \/ CloseCancels(f, fd)
    BY <2>2, SocketStep, CloseCancelsStep
  <2>3. ASSUME NEW option \in {"timeout", "blocking"}, SetOption(f, fd, option) PROVE IInv'
    BY <2>3, SetOptionStep
  <2>4. ASSUME NEW timed \in BOOLEAN, Connect(f, fd, timed) PROVE IInv'
    BY <2>4, BeginStep DEF Connect, Event
  <2>5. ASSUME NEW e \in Event, DoIo(f, fd, e) PROVE IInv'
    <3>1. datas[fd].timeout \in BOOLEAN /\ Begin(f, "io", fd, e, datas[fd].timeout)
      BY <2>5 DEF DoIo, IInv, Types, FdCtxs
    <3> QED BY <3>1, BeginStep
  <2> QED BY <2>1, <2>2, <2>3, <2>4, <2>5 DEF IoCall
<1>2. ASSUME NEW f \in Fibers, Step(f) PROVE IInv'
  <2>1. CASE GetFound(f) \/ GetMissing(f) \/ GetCreate(f)
    BY <2>1, GetFoundStep, GetMissingStep, GetCreateStep
  <2>2. CASE CallBlocks(f) \/ CallReturns(f)
    BY <2>2, CallBlocksStep, CallReturnsStep
  <2>3. CASE AddEvent(f) \/ AddEventFails(f) \/ AddEventAborts(f) \/ ResumedAgain(f)
    BY <2>3, AddEventStep, AddEventFailsStep, AddEventAbortsStep, ResumedAgainStep
  <2>4. CASE ResumeReturns(f) \/ ResumeRetries(f) \/ ResumeConnect(f) \/ Connected(f)
    BY <2>4, ResumeReturnsStep, ResumeRetriesStep, ResumeConnectStep, ConnectedStep
  <2>5. CASE CloseDel(f) \/ Close(f)
    BY <2>5, CloseDelStep, CloseStep
  <2> QED BY <1>2, <2>1, <2>2, <2>3, <2>4, <2>5 DEF Step
<1>3. ASSUME NEW f \in Fibers, TimerExpires(f) \/ Callback(f) PROVE IInv'
  BY <1>3, TimerExpiresStep, CallbackTestsStep, CallbackMarksStep, CallbackCancelsStep DEF Callback
<1>4. ASSUME Environment PROVE IInv'
  BY <1>4, PlainSocketStep, PlainCloseStep, EventOccursStep DEF Environment
<1>5. ASSUME UNCHANGED vars PROVE IInv'
  <2>1. UNCHANGED <<fdVars, eventVars, pc, waitVars, failed>>
    BY <1>5 DEF vars
  <2>2. Types' /\ Held' /\ Contexts' /\ CallsApart' /\ Timers' /\ WokenBy'
    BY <2>1 DEF IInv, Types, Held, Contexts, Holds, CallsApart, Timers, WokenBy,
                fdVars, eventVars, waitVars
  <2>3. Watching'
    BY <2>1, WatchingKept DEF IInv, fdVars, waitVars
  <2>4. AbortsOnlyByOrphan'
    BY <2>1 DEF IInv, AbortsOnlyByOrphan, Watched, Outdated, fdVars, eventVars, waitVars
  <2> QED BY <2>2, <2>3, <2>4 DEF IInv
<1> QED BY <1>1, <1>2, <1>3, <1>4, <1>5 DEF Next, Aborted

-----------------------------------------------------------------------------
(* What ends a wait with a timeout *)

\* The callback cancelled while f was not waiting, or a close got between.
Spoilt(f) == <<f, "early">> \in marks \/ <<f, "raced">> \in marks

\* From CallBlocks to the end of the wait a timed call has a timer.  One that was taken
\* out has a callback on its way until the flag is set, and who has the flag set and is
\* not woken yet has one that is about to cancel.
GuardsOf(f) ==
    /\ pc[f] \in {"add", "wait"} /\ call[f].timed => timer[f] # "none"
    /\ pc[f] \in {"add", "wait"} /\ timer[f] = "out" /\ f \notin cancelled =>
          \E c \in fired : c.by = f /\ c.own
    /\ f \in cancelled /\ pc[f] # "woken" =>
          Spoilt(f) \/ \E c \in fired : c.by = f /\ c.own /\ c.step = "marked"

Guards == \A f \in Fibers : GuardsOf(f)

\* Timers and callbacks are left alone, nobody begins to wait but from addEvent, and
\* nobody who is woken with the flag set goes on.
LEMMA GuardsLeft ==
    ASSUME Guards, UNCHANGED <<timer, fired, cancelled>>,
           \A f \in Fibers : pc'[f] \in {"add", "wait"} =>
              pc[f] \in {"add", "wait"} /\ call'[f].timed = call[f].timed,
           \A f \in Fibers : pc[f] = "woken" => pc'[f] = "woken" \/ f \notin cancelled,
           marks \subseteq marks'
    PROVE  Guards'
BY DEF Guards, GuardsOf, Spoilt

LEMMA GuardsClient ==
    ASSUME IInv, Guards, NEW f \in Fibers, Client(f)
    PROVE  Guards'
<1> USE DEF IInv
<1>1. PICK fd \in Fds :
         \/ Socket(f, fd) \/ CloseCancels(f, fd)
         \/ \E option \in {"timeout", "blocking"} : SetOption(f, fd, option)
         \/ \E timed \in BOOLEAN : Connect(f, fd, timed)
         \/ IoCall(f, fd)
  BY DEF Client
<1>2. pc \in [Fibers -> Places] /\ call \in [Fibers -> Calls]
  BY DEF Types
<1>3. CASE Socket(f, fd)
  BY <1>2, <1>3, GuardsLeft DEF Socket, At, Goto
<1>4. CASE CloseCancels(f, fd)
  <2>1. pc[f] = "run" /\ UNCHANGED <<timer, fired, cancelled, marks>>
    BY <1>4 DEF CloseCancels, At
  <2>2. \A g \in Fibers : g # f => call'[g] = call[g]
    BY <1>2, <1>4 DEF CloseCancels
  <2>3. /\ pc'[f] = "del"
        /\ \A g \in Fibers : g # f => pc'[g] = pc[g] \/ (pc[g] = "wait" /\ pc'[g] = "woken")
    BY <1>2, <1>4 DEF CloseCancels, Woken, Goto
  <2> QED BY <2>1, <2>2, <2>3, GuardsLeft
<1>5. ASSUME NEW option, SetOption(f, fd, option) PROVE Guards'
  BY <1>5, GuardsLeft DEF SetOption, waitVars
<1>6. ASSUME NEW kind, NEW e, NEW timed, Begin(f, kind, fd, e, timed) PROVE Guards'
  BY <1>2, <1>6, GuardsLeft DEF Begin, At, Goto
<1> QED BY <1>1, <1>3, <1>4, <1>5, <1>6 DEF Connect, IoCall, DoIo

\* The steps of a fiber that leave timers and callbacks alone.
LEMMA GuardsQuiet ==
    ASSUME IInv, Guards, NEW f \in Fibers,
           \/ GetFound(f) \/ GetMissing(f) \/ GetCreate(f)
           \/ AddEvent(f) \/ AddEventFails(f) \/ AddEventAborts(f)
           \/ ResumedAgain(f) \/ Connected(f) \/ CloseDel(f) \/ Close(f)
    PROVE  Guards'
<1>1. pc \in [Fibers -> Places] /\ call \in [Fibers -> Calls]
  BY DEF IInv, Types
<1>2. CASE GetFound(f) \/ GetCreate(f) \/ Close(f) \/ Connected(f)
  BY <1>1, <1>2, GuardsLeft DEF GetFound, GetCreate, Close, Connected, At, Goto
<1>3. CASE GetMissing(f) \/ CloseDel(f) \/ AddEventAborts(f)
  BY <1>1, <1>3, GuardsLeft DEF GetMissing, CloseDel, AddEventAborts, At, Goto, waitVars
<1>4. CASE AddEvent(f)
  <2>1. pc[f] = "add" /\ pc' = [pc EXCEPT ![f] = "wait"] /\ marks \subseteq marks'
        /\ UNCHANGED <<call, timer, fired, cancelled>>
    BY <1>4 DEF AddEvent, At, Goto
  <2> QED BY <1>1, <2>1, GuardsLeft
<1>5. CASE AddEventFails(f) \/ ResumedAgain(f)
  <2>1. pc[f] \in {"add", "wait"} /\ pc' = [pc EXCEPT ![f] = "woken"]
        /\ UNCHANGED <<call, timer, fired, cancelled, marks>>
    BY <1>5 DEF AddEventFails, ResumedAgain, At, Goto
  <2> QED BY <1>1, <2>1, GuardsLeft
<1> QED BY <1>2, <1>3, <1>4, <1>5

\* The call of f returns: nothing of its timers is left that counts.
LEMMA GuardsReturned ==
    ASSUME IInv, Guards, NEW f \in Fibers, Returned(f),
           \A g \in Fibers : g # f => /\ pc'[g] = pc[g] /\ call'[g] = call[g]
                                      /\ timer'[g] = timer[g] \/ timer'[g] = "lost",
           pc'[f] \notin {"add", "wait"}
    PROVE  Guards'
<1>1. /\ cancelled' = cancelled \ {f}
      /\ marks' = marks \ {<<f, "early">>, <<f, "raced">>}
      /\ fired' = {IF c.by = f THEN [c EXCEPT !.own = FALSE] ELSE c :
                      c \in {d \in fired : d.by # f \/ d.step # "out"}}
  BY DEF Returned
<1>2. \A c \in fired : c.by # f => c \in fired'
  BY <1>1
<1>3. \A g \in Fibers : g # f /\ Spoilt(g) => Spoilt(g)'
  BY <1>1 DEF Spoilt
<1> SUFFICES ASSUME NEW g \in Fibers PROVE GuardsOf(g)'
  BY DEF Guards
<1>4. CASE g = f
  BY <1>1, <1>4 DEF GuardsOf
<1>5. CASE g # f
  BY <1>1, <1>2, <1>3, <1>5 DEF Guards, GuardsOf
<1> QED BY <1>4, <1>5

LEMMA GuardsTimers ==
    ASSUME IInv, Guards, NEW f \in Fibers,
           \/ CallBlocks(f) \/ CallReturns(f)
           \/ ResumeReturns(f) \/ ResumeRetries(f) \/ ResumeConnect(f)
    PROVE  Guards'
<1>1. /\ pc \in [Fibers -> Places] /\ call \in [Fibers -> Calls]
      /\ timer \in [Fibers -> TimerStates]
  BY DEF IInv, Types
<1>2. ASSUME CancelTimer(f)
      PROVE  \A g \in Fibers : g # f => timer'[g] = timer[g] \/ timer'[g] = "lost"
  BY <1>1, <1>2 DEF CancelTimer
<1>3. CASE CallBlocks(f)
  <2>1. PICK t \in (IF call[f].timed THEN {"set", "lost"} ELSE {"none"}) :
           timer' = [timer EXCEPT ![f] = t]
    BY <1>3 DEF CallBlocks
  <2>2. pc[f] = "call" /\ pc' = [pc EXCEPT ![f] = "add"]
        /\ UNCHANGED <<call, fired, cancelled, marks>>
    BY <1>3 DEF CallBlocks, At, Goto
  <2> QED BY <1>1, <2>1, <2>2 DEF Guards, GuardsOf, Spoilt
<1>4. CASE CallReturns(f)
  BY <1>1, <1>4, GuardsReturned DEF CallReturns, Goto
<1>5. CASE ResumeReturns(f)
  BY <1>1, <1>2, <1>5, GuardsReturned DEF ResumeReturns, Goto
<1>6. CASE ResumeConnect(f)
  <2>1. CancelTimer(f) /\ Returned(f)
    BY <1>6 DEF ResumeConnect
  <2>2. /\ pc' = [pc EXCEPT ![f] = "run"] \/ pc' = [pc EXCEPT ![f] = "connected"]
        /\ call' = [call EXCEPT ![f] = NoCall] \/ call' = call
    BY <1>6 DEF ResumeConnect, Goto
  <2> QED BY <1>1, <1>2, <2>1, <2>2, GuardsReturned
<1>7. CASE ResumeRetries(f)
  <2>1. /\ f \notin cancelled /\ CancelTimer(f) /\ pc' = [pc EXCEPT ![f] = "call"]
        /\ UNCHANGED <<call, fired, cancelled, marks>>
    BY <1>7 DEF ResumeRetries, TimedOut, Goto
  <2>2. \A g \in Fibers : g # f => timer'[g] = timer[g] \/ timer'[g] = "lost"
    BY <1>2, <2>1
  <2>3. ASSUME NEW g \in Fibers PROVE GuardsOf(g)'
    <3>1. CASE g = f
      BY <1>1, <2>1, <3>1 DEF GuardsOf
    <3>2. CASE g # f
      <4>1. pc'[g] = pc[g]
        BY <1>1, <2>1, <3>2
      <4> QED BY <2>1, <2>2, <3>2, <4>1 DEF Guards, GuardsOf, Spoilt
    <3> QED BY <3>1, <3>2
  <2> QED BY <2>3 DEF Guards
<1> QED BY <1>3, <1>4, <1>5, <1>6, <1>7

\* A callback that cancels wakes its fiber where it can be found, or leaves its mark.
LEMMA GuardsCallbacks ==
    ASSUME IInv, Guards, NEW f \in Fibers, TimerExpires(f) \/ Callback(f)
    PROVE  Guards'
<1>1. /\ pc \in [Fibers -> Places] /\ timer \in [Fibers -> TimerStates]
      /\ \A c \in fired : c.by \in Fibers
  BY DEF IInv, Types, Callbacks
<1>2. CASE TimerExpires(f)
  <2>1. timer' = [timer EXCEPT ![f] = "out"] /\ UNCHANGED <<pc, call, cancelled, marks>>
    BY <1>2 DEF TimerExpires
  <2> DEFINE cb(n) == [by |-> f, no |-> n, fd |-> call[f].fd, ev |-> call[f].ev,
                       step |-> "out", own |-> TRUE]
  <2>2. PICK n \in 1 .. MaxOut : fired' = fired \cup {cb(n)}
    BY <1>2 DEF TimerExpires
  <2>3. cb(n) \in fired' /\ cb(n).by = f /\ cb(n).own
    BY <2>2
  <2> HIDE DEF cb
  <2> QED BY <1>1, <2>1, <2>2, <2>3 DEF Guards, GuardsOf, Spoilt
<1>3. ASSUME NEW c \in fired, c.by = f, CallbackTests(c) PROVE Guards'
  <2>1. /\ c.step = "out" /\ UNCHANGED <<pc, call, timer, cancelled, marks>>
        /\ fired' = IF c.by \in cancelled THEN fired \ {c}
                    ELSE (fired \ {c}) \cup {[c EXCEPT !.step = "tested"]}
    BY <1>3 DEF CallbackTests
  <2>2. \A d \in fired : d # c => d \in fired'
    BY <2>1
  <2>3. [c EXCEPT !.step = "tested"].by = c.by /\ [c EXCEPT !.step = "tested"].own = c.own
    BY DEF IInv, Types, Callbacks
  <2>4. c.by \notin cancelled => [c EXCEPT !.step = "tested"] \in fired'
    BY <2>1
  <2> DEFINE d == [c EXCEPT !.step = "tested"]
  <2> HIDE DEF d
  <2>5. ASSUME NEW g \in Fibers PROVE GuardsOf(g)'
    <3>1. GuardsOf(g)
      BY DEF Guards
    <3>2. CASE g = f /\ f \notin cancelled
      BY <1>3, <2>1, <2>2, <2>3, <2>4, <3>1, <3>2 DEF GuardsOf, Spoilt, d
    <3>3. CASE g # f \/ f \in cancelled
      BY <1>3, <2>1, <2>2, <3>1, <3>3 DEF GuardsOf, Spoilt
    <3> QED BY <3>2, <3>3
  <2> QED BY <2>5 DEF Guards
<1>4. ASSUME NEW c \in fired, c.by = f, CallbackMarks(c) PROVE Guards'
  <2>1. /\ c.step = "tested" /\ UNCHANGED <<pc, call, timer, marks>>
        /\ fired' = (fired \ {c}) \cup {[c EXCEPT !.step = "marked"]}
        /\ cancelled' = IF c.own THEN cancelled \cup {c.by} ELSE cancelled
    BY <1>4 DEF CallbackMarks
  <2>2. \A d \in fired : d # c => d \in fired'
    BY <2>1
  <2>3. /\ [c EXCEPT !.step = "marked"] \in fired' /\ [c EXCEPT !.step = "marked"].by = c.by
        /\ [c EXCEPT !.step = "marked"].own = c.own
        /\ [c EXCEPT !.step = "marked"].step = "marked"
    BY <2>1 DEF IInv, Types, Callbacks
  <2>4. ASSUME NEW g \in Fibers PROVE GuardsOf(g)'
    <3>1. GuardsOf(g)
      BY DEF Guards
    <3>2. CASE g = f /\ c.own
      BY <1>4, <2>1, <2>3, <3>1, <3>2 DEF GuardsOf, Spoilt
    <3>3. CASE g # f \/ ~c.own
      BY <1>4, <2>1, <2>2, <3>1, <3>3 DEF GuardsOf, Spoilt
    <3> QED BY <3>2, <3>3
  <2> QED BY <2>4 DEF Guards
<1>5. ASSUME NEW c \in fired, c.by = f, CallbackCancels(c) PROVE Guards'
  <2>1. /\ c.step = "marked" /\ fired' = fired \ {c} /\ UNCHANGED <<call, timer, cancelled>>
        /\ marks' = IF c.own /\ pc[f] # "wait" THEN marks \cup {<<f, "early">>} ELSE marks
    BY <1>5 DEF CallbackCancels
  <2>2. \A g \in Fibers : pc'[g] = pc[g] \/ (pc[g] = "wait" /\ pc'[g] = "woken")
    BY <1>1, <1>5 DEF CallbackCancels, Woken
  <2>3. c.own => f \in cancelled
    BY <1>5, <2>1 DEF IInv, Timers
  <2>4. c.own => Spoilt(f)' \/ pc'[f] = "woken"
    <3>1. CASE pc[f] # "wait"
      BY <2>1, <3>1 DEF Spoilt
    <3>2. CASE <<f, "raced">> \in marks
      BY <2>1, <3>2 DEF Spoilt
    <3>3. CASE c.own /\ pc[f] = "wait" /\ <<f, "raced">> \notin marks
      <4>1. Found(f) /\ c.fd = call[f].fd /\ c.ev = call[f].ev /\ c.ev \in Event
        BY <1>5, <3>3 DEF IInv, Watching, Timers, Types, Callbacks
      <4>2. c.ev \in Watched(c.fd) /\ armed[c.fd] # {} /\ f \in Triggered(c.fd, {c.ev})
        BY <4>1, HookAssumption DEF Found, Watched, Triggered
      <4>3. pc' = Woken(c.fd, {c.ev})
        BY <1>5, <4>2 DEF CallbackCancels
      <4> QED BY <3>3, <4>2, <4>3 DEF Woken
    <3> QED BY <3>1, <3>2, <3>3
  <2>5. \A g \in Fibers : Spoilt(g) => Spoilt(g)'
    BY <2>1 DEF Spoilt
  <2>6. \A d \in fired : d # c => d \in fired'
    BY <2>1
  <2> QED BY <1>5, <2>1, <2>2, <2>3, <2>4, <2>5, <2>6 DEF Guards, GuardsOf
<1> QED BY <1>2, <1>3, <1>4, <1>5 DEF Callback

LEMMA GuardsEnvironment ==
    ASSUME IInv, Guards, Environment
    PROVE  Guards'
<1>1. pc \in [Fibers -> Places]
  BY DEF IInv, Types
<1>2. ASSUME NEW fd \in Fds, PlainSocket(fd) PROVE Guards'
  BY <1>2, GuardsLeft DEF PlainSocket, waitVars
<1>3. ASSUME NEW fd \in Fds, PlainClose(fd) PROVE Guards'
  <2>1. marks \subseteq marks' /\ UNCHANGED <<pc, call, timer, fired, cancelled>>
    BY <1>3 DEF PlainClose
  <2> QED BY <2>1, GuardsLeft
<1>4. ASSUME NEW fd \in Fds, NEW e \in Event, EventOccurs(fd, e) PROVE Guards'
  <2>1. \A g \in Fibers : pc'[g] = pc[g] \/ (pc[g] = "wait" /\ pc'[g] = "woken")
    BY <1>1, <1>4 DEF EventOccurs, Woken
  <2>2. UNCHANGED <<call, timer, fired, cancelled, marks>>
    BY <1>4 DEF EventOccurs
  <2> QED BY <2>1, <2>2, GuardsLeft
<1> QED BY <1>2, <1>3, <1>4 DEF Environment

LEMMA GuardsStep == IInv /\ Guards /\ [Next]_vars => Guards'
<1> SUFFICES ASSUME IInv, Guards, [Next]_vars PROVE Guards'
  OBVIOUS
<1>1. ASSUME NEW f \in Fibers, Step(f) PROVE Guards'
  BY <1>1, GuardsQuiet, GuardsTimers DEF Step
<1>2. ASSUME UNCHANGED vars PROVE Guards'
  BY <1>2, GuardsLeft DEF vars, waitVars
<1> QED BY <1>1, <1>2, GuardsClient, GuardsCallbacks, GuardsEnvironment DEF Next, Aborted

-----------------------------------------------------------------------------
(* Theorems *)

\* The types, who holds which number, what epoll watches, and whose callbacks are on
\* their way.
THEOREM Inductive == Spec => []IInv
BY Start, NextStep, PTL DEF Spec

\* A descriptor in use has the context of its own socket or none, and every context
\* lies inside datas_, for every descriptor number (fdmanager.cpp:88, hook.cpp:316).
THEOREM ContextAlwaysCurrent == Spec => []ContextIsCurrent
<1>1. IInv => ContextIsCurrent
  BY DEF IInv, Contexts, ContextIsCurrent
<1> QED BY <1>1, Inductive, PTL

\* Who is scheduled does wait, unless epoll_ctl refused it once, and who waits is
\* watched for unless a close got between (hook.cpp:123, 316, iomanager.cpp:181).
THEOREM WaitersAlwaysMatch == Spec => []WaitersMatchEpoll
<1>1. IInv => WaitersMatchEpoll
  <2> SUFFICES ASSUME IInv PROVE WaitersMatchEpoll
    OBVIOUS
  <2>1. \A fd \in Fds : \A e \in armed[fd] :
           \E f \in Fibers : table[fd][e] = f /\ (Waits(f, fd, e) \/ f \in refused)
    BY DEF IInv, Watching, Tended
  <2>2. \A f \in Fibers : pc[f] = "wait" /\ <<f, "raced">> \notin marks =>
           call[f].ev \in armed[call[f].fd]
    BY DEF IInv, Watching, Found
  <2> QED BY <2>1, <2>2 DEF WaitersMatchEpoll
<1> QED BY <1>1, Inductive, PTL

\* connect never reports success after its timeout, and a timeout ends a wait that is
\* not its own only on another socket with the same number or when its callback was
\* past its test before the call returned (hook.cpp:214, 218).
THEOREM ConnectAlwaysHonest == Spec => []ConnectHonest
<1>1. IInv => ConnectHonest
  BY DEF IInv, WokenBy, ConnectHonest
<1> QED BY <1>1, Inductive, PTL

\* addEvent's assertion fails only for an event that a close left behind, between calls
\* on a closed socket and on its successor, or for an event of a fiber whom epoll_ctl
\* refused (iomanager.cpp:152, 181).
THEOREM AlwaysAbortsOnlyByOrphan == Spec => []AbortsOnlyByOrphan
<1>1. IInv => AbortsOnlyByOrphan
  BY DEF IInv
<1> QED BY <1>1, Inductive, PTL

\* A call reports ETIMEDOUT only if it has a timeout and one of its own timers has
\* expired, however callbacks, events, retries and later calls of the same fiber
\* interleave (hook.cpp:113, hook.cpp:214).
THEOREM TimeoutsAlwaysOwn == Spec => []TimeoutsAreOwn
<1>1. IInv => TimeoutsAreOwn
  BY DEF IInv, Timers, TimeoutsAreOwn, InCall
<1> QED BY <1>1, Inductive, PTL

\* A wait with a timeout keeps what will end it, its timer or a callback that will
\* cancel, however callbacks, events, retries and refusals interleave; the exceptions
\* are a timer that timers_ dropped or erased, a callback that cancelled while the fiber
\* was not waiting, and a close in between (hook.cpp:113, 212, timer.cpp:148, 40).
THEOREM TimedWaitsAlwaysGuarded == Spec => []TimedWaitsGuarded
<1>1. Init => Guards
  BY DEF Init, Guards, GuardsOf
<1>2. IInv /\ Guards => TimedWaitsGuarded
  <2> SUFFICES ASSUME IInv, Guards, NEW f \in Fibers, pc[f] = "wait", call[f].timed
               PROVE  \/ timer[f] \in {"set", "lost"}
                      \/ \E c \in fired : /\ c.by = f /\ c.own
                                          /\ c.fd = call[f].fd /\ c.ev = call[f].ev
                                          /\ c.step = "out" => f \notin cancelled
                      \/ Spoilt(f)
    BY DEF TimedWaitsGuarded, Spoilt
  <2>1. timer[f] \in {"set", "lost", "out"}
    BY DEF IInv, Types, TimerStates, Guards, GuardsOf
  <2>2. \A c \in fired : c.by = f /\ c.own => c.fd = call[f].fd /\ c.ev = call[f].ev
    BY DEF IInv, Timers
  <2>3. CASE timer[f] = "out" /\ f \notin cancelled
    BY <2>2, <2>3 DEF Guards, GuardsOf
  <2>4. CASE f \in cancelled
    <3>1. Spoilt(f) \/ \E c \in fired : c.by = f /\ c.own /\ c.step = "marked"
      BY <2>4 DEF Guards, GuardsOf
    <3> QED BY <2>2, <3>1
  <2> QED BY <2>1, <2>3, <2>4
<1> QED BY <1>1, <1>2, Inductive, GuardsStep, PTL DEF Spec
=============================================================================
