-------------------------- MODULE EventLoopProofs --------------------------
(***************************************************************************)
(* Theorems about the client's event loop, for any number of bridges and   *)
(* descriptors, on epoll and on select(): the pollers' tables name the     *)
(* connection a descriptor belongs to, and no descriptor is lost.          *)
(***************************************************************************)
EXTENDS EventLoop, RunLemmas, FiniteSetTheorems

-----------------------------------------------------------------------------
(* The inductive invariant: predicates of the state of the process, which  *)
(* hold between the parts of a handler, too.                               *)

Handlers == Conns \cup {Listener, None}
PollerType ==
  [kind : {"epoll", "select"}, handler : [Ways -> [Fds -> Handlers]],
   watch : [Ways -> SUBSET Fds], maxFd : Nat, writes : Int]
Sockets == {"free", "listen", "syn", "up", "ended", "failed"}
Lives == {"new", "backlog", "live", "shut", "gone"}
Processes ==
  [poller : PollerType, sock : [Fds -> Sockets], unread : SUBSET Fds,
   conn : [Conns -> Connection], life : [Bridges -> Lives],
   due : SUBSET Bridges, up : BOOLEAN]

\* A descriptor that the poller p can hold.
CanHold(p, fd) == p.kind = "epoll" \/ fd < FdSetSize

\* The kernel and the tables agree, and select() is given no descriptor too large.
PollerOK(p) ==
  /\ p \in PollerType /\ Consistent(p)
  /\ \A w \in Ways, fd \in Fds : p.handler[w][fd] # None => CanHold(p, fd)

\* The descriptor a connection has is open and nobody else's, and its bridge is
\* there to close it; without one the connection is as at first.
Owned(s) ==
  /\ \A c \in Conns : s.conn[c].fd = 0 => s.conn[c] = NoConn
  /\ \A c \in Conns : s.conn[c].fd # 0 =>
       s.sock[s.conn[c].fd] \notin {"free", "listen"} /\ s.life[c[1]] \in {"live", "shut"}
  /\ \A c, d \in Conns : s.conn[c].fd = s.conn[d].fd /\ s.conn[c].fd # 0 => c = d
  /\ \A fd \in Fds : s.sock[fd] \notin {"free", "listen"} => \E c \in Conns : s.conn[c].fd = fd
  /\ \A fd \in Fds : s.sock[fd] = "listen" => fd = ListenFd
  /\ s.sock[ListenFd] \in {"free", "listen"}

\* The tables name who has a descriptor and is registered.
Named(s) ==
  /\ \A w \in Ways, fd \in Fds, c \in Conns :
       s.poller.handler[w][fd] = c => s.conn[c].fd = fd /\ w \in s.conn[c].reg
  /\ \A w \in Ways, c \in Conns :
       s.conn[c].fd # 0 /\ CanHold(s.poller, s.conn[c].fd) /\ w \in s.conn[c].reg =>
         s.poller.handler[w][s.conn[c].fd] = c
  /\ \A w \in Ways, fd \in Fds :
       s.poller.handler[w][fd] = Listener =>
         w = "rd" /\ fd = ListenFd /\ s.sock[ListenFd] = "listen"

Sound(s) == s \in Processes /\ PollerOK(s.poller) /\ Owned(s) /\ Named(s)

\* A connection is registered as it needs, and only one that is up has bytes waiting.
Fit(k) ==
  /\ k.reg = {w \in Ways : IF w = "rd" THEN k.status = "connected"
                           ELSE k.status = "connecting" \/ k.pending}
  /\ k.pending => k.status = "connected"
FitBut(s, C) == \A c \in Conns \ C : Fit(s.conn[c])

LoopInv ==
  /\ Sound(Process) /\ FitBut(Process, {})
  /\ batch \subseteq Event /\ at \in {"poll", "dispatch", "crashed", "done"}
  /\ troubles \in 0 .. MaxTroubles
  /\ at \in {"poll", "dispatch"} => sock[ListenFd] = "listen"
  /\ at = "done" =>
       sock[ListenFd] = "free" /\ \A c \in Conns : conn[c].fd = 0

-----------------------------------------------------------------------------
(* The operations of the poller.                                           *)

\* A set of numbers with a bound has a first and a last.
LEMMA Bounds ==
  ASSUME NEW n \in Nat, NEW S, S \subseteq 0 .. n, S # {}
  PROVE  /\ Max(S) \in S /\ \A y \in S : Max(S) >= y
         /\ Min(S) \in S /\ \A y \in S : Min(S) =< y
<1>. DEFINE HasLast(R) == \E x \in R : \A y \in R : x >= y
            HasFirst(R) == \E x \in R : \A y \in R : x =< y
            T == {k \in Nat : \A R \in SUBSET (0 .. k) : R # {} => HasLast(R) /\ HasFirst(R)}
<1>1. 0 \in T
  <2>1. \A R \in SUBSET {0} : R # {} => R = {0}
    OBVIOUS
  <2>2. 0 .. 0 = {0}
    OBVIOUS
  <2>3. \A R \in SUBSET (0 .. 0) : R # {} => R = {0}
    BY <2>1, <2>2
  <2>. QED  BY <2>3
<1>2. ASSUME NEW k \in Nat, k \in T PROVE k + 1 \in T
  <2>1. ASSUME NEW R \in SUBSET (0 .. k + 1), R # {} PROVE HasLast(R) /\ HasFirst(R)
    <3>1. R \ {k + 1} \in SUBSET (0 .. k)
      OBVIOUS
    <3>2. CASE R = {k + 1}
      BY <3>2
    <3>3. CASE R # {k + 1}
      <4>1. R \ {k + 1} # {}
        BY <2>1, <3>3
      <4>2. PICK x \in R \ {k + 1} : \A y \in R \ {k + 1} : x >= y
        BY <1>2, <3>1, <4>1
      <4>3. PICK z \in R \ {k + 1} : \A y \in R \ {k + 1} : z =< y
        BY <1>2, <3>1, <4>1
      <4>4. \A y \in R : y \in 0 .. k + 1 /\ (y \notin R \ {k + 1} => y = k + 1)
        OBVIOUS
      <4>5. HasFirst(R)
        BY <3>1, <4>3, <4>4
      <4>6. HasLast(R)
        <5>1. CASE k + 1 \in R
          BY <4>4, <5>1
        <5>2. CASE k + 1 \notin R
          BY <4>2, <5>2
        <5>. QED  BY <5>1, <5>2
      <4>. QED  BY <4>5, <4>6
    <3>. QED  BY <3>2, <3>3
  <2>. QED  BY <2>1
<1>3. n \in T
  <2>. HIDE DEF T
  <2>. QED  BY <1>1, <1>2, Induction
<1>4. HasLast(S) /\ HasFirst(S)
  BY <1>3
<1>. QED  BY <1>4 DEF Max, Min

\* SelectPoller::recalcMaxFD finds the greatest descriptor in the tables.
LEMMA RecalcIsGreatest ==
  ASSUME NEW p
  PROVE  /\ RecalcMaxFD(p) \in {0} \cup Handled(p, "rd") \cup Handled(p, "wr")
         /\ \A w \in Ways : \A fd \in Handled(p, w) : RecalcMaxFD(p) >= fd
         /\ RecalcMaxFD(p) \in Nat
<1>1. MaxFds \in Nat
  BY EventPollerAssumption
<1>2. {0} \cup Handled(p, "rd") \cup Handled(p, "wr") \subseteq 0 .. MaxFds
  BY <1>1 DEF Handled, Fds
<1>3. /\ RecalcMaxFD(p) \in {0} \cup Handled(p, "rd") \cup Handled(p, "wr")
      /\ \A y \in {0} \cup Handled(p, "rd") \cup Handled(p, "wr") : RecalcMaxFD(p) >= y
  BY <1>1, <1>2, Bounds DEF RecalcMaxFD
<1>. QED  BY <1>1, <1>2, <1>3 DEF Ways

\* It is the only number that does.
LEMMA GreatestIsRecalc ==
  ASSUME NEW p, NEW m \in Nat,
         m \in {0} \cup Handled(p, "rd") \cup Handled(p, "wr"),
         \A w \in Ways : \A fd \in Handled(p, w) : m >= fd
  PROVE  RecalcMaxFD(p) = m
<1>1. m >= RecalcMaxFD(p) /\ RecalcMaxFD(p) >= m
  BY RecalcIsGreatest DEF Ways
<1>. QED  BY <1>1, RecalcIsGreatest

LEMMA FdsFinite == \A S \in SUBSET Fds : IsFiniteSet(S) /\ Cardinality(S) \in Nat
<1>1. IsFiniteSet(Fds)
  BY EventPollerAssumption, FS_Interval DEF Fds
<1>. QED  BY <1>1, FS_Subset, FS_CardinalityType

\* registerForRead and -Write, of a descriptor that has no handler there.
LEMMA RegisterWorks ==
  ASSUME NEW p, PollerOK(p), NEW w \in Ways, NEW fd \in Fds,
         NEW h \in Handlers, h # None, p.handler[w][fd] = None
  PROVE  /\ PollerOK(Register(p, w, fd, h))
         /\ Register(p, w, fd, h).kind = p.kind
         /\ Register(p, w, fd, h).handler =
              IF CanHold(p, fd) THEN [p.handler EXCEPT ![w][fd] = h] ELSE p.handler
<1>. DEFINE q == Register(p, w, fd, h)
            H == [p.handler EXCEPT ![w][fd] = h]
<1>0. /\ p \in PollerType /\ MaxFds \in Nat /\ FdSetSize \in Nat /\ fd \in Nat
      /\ \A x \in Ways : p.watch[x] = Handled(p, x)
      /\ p.kind = "select" => p.maxFd = RecalcMaxFD(p) /\ p.writes = Cardinality(p.watch["wr"])
      /\ fd \notin p.watch[w] /\ fd \notin Handled(p, w)
  BY EventPollerAssumption DEF PollerOK, Consistent, Fds, Handled
<1>1. CASE p.kind = "epoll"
  <2>. DEFINE W == [x \in Ways |-> IF x = w \/ fd \in Handled(p, x)
                                   THEN p.watch[x] \cup {fd} ELSE p.watch[x] \ {fd}]
  <2>1. Takes(p, w, fd, TRUE)
    BY <1>0, <1>1 DEF Takes, EpollTakes, Listed, Other, Ways
  <2>2. Set(p, w, fd, TRUE) = [p EXCEPT !.watch = W]
    BY <1>0, <1>1 DEF Set, EpollSet, PollerType
  <2>3. q = [[p EXCEPT !.watch = W] EXCEPT !.handler[w][fd] = h]
    BY <2>1, <2>2 DEF Register
  <2>0. H \in [Ways -> [Fds -> Handlers]] /\ W \in [Ways -> SUBSET Fds]
    BY <1>0 DEF PollerType
  <2>. HIDE DEF W
  <2>4. q.kind = p.kind /\ q.handler = H /\ q.watch = W /\ q \in PollerType
    BY <1>0, <2>0, <2>3 DEF PollerType
  <2>5. \A x \in Ways : q.watch[x] = Handled(q, x)
    BY <1>0, <2>4 DEF Handled, PollerType, W
  <2>6. CanHold(p, fd) /\ \A x \in Ways, f \in Fds : q.handler[x][f] # None => CanHold(q, f)
    BY <1>1, <2>4 DEF CanHold
  <2>. QED  BY <1>1, <2>4, <2>5, <2>6 DEF PollerOK, Consistent
<1>2. CASE p.kind = "select" /\ fd < FdSetSize
  <2>. DEFINE W == [p.watch EXCEPT ![w] = @ \cup {fd}]
              m == Max({p.maxFd, fd})
              n == IF w = "wr" THEN p.writes + 1 ELSE p.writes
  <2>0. /\ m \in {p.maxFd, fd} /\ m >= p.maxFd /\ m >= fd /\ m \in Nat
    <3>1. p.maxFd \in 0 .. p.maxFd + fd /\ fd \in 0 .. p.maxFd + fd /\ p.maxFd + fd \in Nat
      BY <1>0 DEF PollerType
    <3>. QED  BY <3>1, Bounds
  <2>. HIDE DEF m
  <2>1. Takes(p, w, fd, TRUE)
    BY <1>0, <1>2 DEF Takes, SelectTakes
  <2>2. Set(p, w, fd, TRUE) = [p EXCEPT !.watch = W, !.maxFd = m, !.writes = n]
    BY <1>0, <1>2 DEF Set, SelectAdd, PollerType, m
  <2>3. q = [[p EXCEPT !.watch = W, !.maxFd = m, !.writes = n] EXCEPT !.handler[w][fd] = h]
    BY <2>1, <2>2 DEF Register
  <2>4. /\ q.kind = p.kind /\ q.handler = H /\ q.watch = W /\ q.maxFd = m /\ q.writes = n
        /\ q \in PollerType
    <3>1. H \in [Ways -> [Fds -> Handlers]] /\ W \in [Ways -> SUBSET Fds] /\ n \in Int
      BY <1>0 DEF PollerType
    <3>. QED  BY <1>0, <2>0, <2>3, <3>1 DEF PollerType
  <2>5. \A x \in Ways : q.watch[x] = Handled(q, x)
    BY <1>0, <2>4 DEF Handled, PollerType
  <2>6. CanHold(p, fd) /\ \A x \in Ways, f \in Fds : q.handler[x][f] # None => CanHold(q, f)
    BY <1>0, <1>2, <2>4 DEF CanHold, PollerOK, PollerType
  <2>7. \A x \in Ways : Handled(q, x) = IF x = w THEN Handled(p, x) \cup {fd} ELSE Handled(p, x)
    BY <1>0, <2>4 DEF Handled, PollerType
  <2>8. q.maxFd = RecalcMaxFD(q)
    <3>1. m \in {0} \cup Handled(q, "rd") \cup Handled(q, "wr")
      BY <1>0, <1>2, <2>0, <2>7, RecalcIsGreatest DEF Ways
    <3>2. \A x \in Ways : \A f \in Handled(q, x) : m >= f
      <4>1. \A x \in Ways : \A f \in Handled(p, x) : f \in Nat /\ p.maxFd >= f
        BY <1>0, <1>2, RecalcIsGreatest DEF Handled, Fds
      <4>. QED  BY <1>0, <2>0, <2>7, <4>1 DEF PollerType
    <3>. QED  BY <2>0, <2>4, <3>1, <3>2, GreatestIsRecalc
  <2>9. q.writes = Cardinality(q.watch["wr"])
    <3>1. p.watch["wr"] \in SUBSET Fds
      BY <1>0 DEF PollerType, Ways
    <3>2. CASE w = "wr"
      <4>1. q.watch["wr"] = p.watch["wr"] \cup {fd} /\ fd \notin p.watch["wr"]
        BY <1>0, <2>4, <3>2 DEF PollerType
      <4>. QED  BY <1>0, <1>2, <2>4, <3>1, <3>2, <4>1, FdsFinite, FS_AddElement
    <3>3. CASE w # "wr"
      <4>1. q.watch["wr"] = p.watch["wr"]
        BY <1>0, <2>4, <3>3 DEF PollerType
      <4>. QED  BY <1>0, <1>2, <2>4, <3>3, <4>1
    <3>. QED  BY <3>2, <3>3
  <2>. QED  BY <2>4, <2>5, <2>6, <2>8, <2>9 DEF PollerOK, Consistent
<1>3. CASE p.kind = "select" /\ ~(fd < FdSetSize)
  <2>1. ~Takes(p, w, fd, TRUE) /\ ~CanHold(p, fd)
    BY <1>3 DEF Takes, SelectTakes, CanHold
  <2>. QED  BY <2>1 DEF Register
<1>. QED  BY <1>0, <1>1, <1>2, <1>3 DEF PollerType

\* deregisterForRead and -Write.
LEMMA DeregisterWorks ==
  ASSUME NEW p, PollerOK(p), NEW w \in Ways, NEW fd \in Fds
  PROVE  /\ PollerOK(Deregister(p, w, fd))
         /\ Deregister(p, w, fd).kind = p.kind
         /\ Deregister(p, w, fd).handler = [p.handler EXCEPT ![w][fd] = None]
<1>. DEFINE H == [p.handler EXCEPT ![w][fd] = None]
            o == [p EXCEPT !.handler[w][fd] = None]
            q == Deregister(p, w, fd)
<1>0. /\ p \in PollerType /\ MaxFds \in Nat /\ FdSetSize \in Nat /\ fd \in Nat
      /\ \A x \in Ways : p.watch[x] = Handled(p, x)
      /\ p.kind = "select" => p.maxFd = RecalcMaxFD(p) /\ p.writes = Cardinality(p.watch["wr"])
  BY EventPollerAssumption DEF PollerOK, Consistent, Fds
<1>1. /\ o \in PollerType /\ o.kind = p.kind /\ o.handler = H /\ o.watch = p.watch
      /\ o.maxFd = p.maxFd /\ o.writes = p.writes
  BY <1>0 DEF PollerType, Handlers
<1>2. \A x \in Ways : Handled(o, x) = IF x = w THEN Handled(p, x) \ {fd} ELSE Handled(p, x)
  BY <1>0, <1>1 DEF Handled, PollerType
<1>3. q = IF Takes(o, w, fd, FALSE) THEN Set(o, w, fd, FALSE) ELSE o
  BY DEF Deregister
<1>. HIDE DEF o
<1>4. CASE p.kind = "epoll" /\ Takes(o, w, fd, FALSE)
  <2>. DEFINE W == [x \in Ways |-> IF x # w /\ fd \in Handled(o, x)
                                   THEN p.watch[x] \cup {fd} ELSE p.watch[x] \ {fd}]
  <2>1. q = [o EXCEPT !.watch = W]
    BY <1>1, <1>3, <1>4 DEF Set, EpollSet, PollerType
  <2>0. W \in [Ways -> SUBSET Fds]
    BY <1>0 DEF PollerType
  <2>2. q.kind = p.kind /\ q.handler = H /\ q.watch = W /\ q \in PollerType
    <3>. HIDE DEF W
    <3>. QED  BY <1>0, <1>1, <2>0, <2>1 DEF PollerType
  <2>3. \A x \in Ways : Handled(q, x) = Handled(o, x)
    BY <1>1, <2>2 DEF Handled
  <2>4. \A x \in Ways : q.watch[x] = Handled(q, x)
    BY <1>0, <1>2, <2>2, <2>3
  <2>. QED  BY <1>4, <2>2, <2>4 DEF PollerOK, Consistent, CanHold
<1>5. CASE p.kind = "epoll" /\ ~Takes(o, w, fd, FALSE)
  <2>1. \A x \in Ways : fd \notin p.watch[x]
    BY <1>1, <1>5 DEF Takes, EpollTakes, Listed
  <2>2. \A x \in Ways : o.watch[x] = Handled(o, x)
    BY <1>0, <1>1, <1>2, <2>1, ZenonT(60)
  <2>. QED  BY <1>1, <1>3, <1>5, <2>2 DEF PollerOK, Consistent, CanHold
<1>6. CASE p.kind = "select" /\ Takes(o, w, fd, FALSE)
  <2>. DEFINE W == [p.watch EXCEPT ![w] = @ \ {fd}]
              m == IF fd = p.maxFd THEN RecalcMaxFD(o) ELSE p.maxFd
              n == IF w = "wr" THEN p.writes - 1 ELSE p.writes
  <2>1. fd \in p.watch[w] /\ fd < FdSetSize
    BY <1>1, <1>6 DEF Takes, SelectTakes
  <2>2. q = [o EXCEPT !.watch = W, !.maxFd = m, !.writes = n]
    BY <1>1, <1>3, <1>6 DEF Set, SelectRemove, PollerType
  <2>. HIDE DEF m
  <2>3. m \in Nat
    BY <1>0, RecalcIsGreatest DEF PollerType, m
  <2>4. /\ q.kind = p.kind /\ q.handler = H /\ q.watch = W /\ q.maxFd = m /\ q.writes = n
        /\ q \in PollerType
    <3>1. W \in [Ways -> SUBSET Fds] /\ n \in Int
      BY <1>0 DEF PollerType
    <3>. QED  BY <1>0, <1>1, <2>2, <2>3, <3>1 DEF PollerType
  <2>5. \A x \in Ways : Handled(q, x) = Handled(o, x)
    BY <1>1, <2>4 DEF Handled
  <2>6. \A x \in Ways : q.watch[x] = Handled(q, x)
    BY <1>0, <1>2, <2>4, <2>5 DEF PollerType
  <2>7. \A x \in Ways, f \in Fds : q.handler[x][f] # None => CanHold(q, f)
    BY <1>0, <2>4 DEF CanHold, PollerOK, PollerType
  <2>8. q.maxFd = RecalcMaxFD(q)
    <3>1. RecalcMaxFD(q) = RecalcMaxFD(o)
      BY <2>5 DEF RecalcMaxFD, Ways
    <3>2. CASE fd = p.maxFd
      BY <2>4, <3>1, <3>2 DEF m
    <3>3. CASE fd # p.maxFd
      <4>1. p.maxFd \in {0} \cup Handled(o, "rd") \cup Handled(o, "wr")
        BY <1>0, <1>2, <1>6, <3>3, RecalcIsGreatest DEF Ways
      <4>2. \A x \in Ways : \A f \in Handled(o, x) : p.maxFd >= f
        BY <1>0, <1>2, <1>6, RecalcIsGreatest
      <4>3. p.maxFd \in Nat
        BY <1>0 DEF PollerType
      <4>. QED  BY <2>4, <3>1, <3>3, <4>1, <4>2, <4>3, GreatestIsRecalc DEF m
    <3>. QED  BY <3>2, <3>3
  <2>9. q.writes = Cardinality(q.watch["wr"])
    <3>1. p.watch["wr"] \in SUBSET Fds
      BY <1>0 DEF PollerType, Ways
    <3>2. CASE w = "wr"
      <4>1. q.watch["wr"] = p.watch["wr"] \ {fd} /\ fd \in p.watch["wr"]
        BY <1>0, <2>1, <2>4, <3>2 DEF PollerType
      <4>. QED  BY <1>0, <1>6, <2>4, <3>1, <3>2, <4>1, FdsFinite, FS_RemoveElement
    <3>3. CASE w # "wr"
      <4>1. q.watch["wr"] = p.watch["wr"]
        BY <1>0, <2>4, <3>3 DEF PollerType
      <4>. QED  BY <1>0, <1>6, <2>4, <3>3, <4>1
    <3>. QED  BY <3>2, <3>3
  <2>. QED  BY <2>4, <2>6, <2>7, <2>8, <2>9 DEF PollerOK, Consistent
<1>7. CASE p.kind = "select" /\ ~Takes(o, w, fd, FALSE)
  <2>1. fd \notin p.watch[w]
    <3>1. CASE fd < FdSetSize
      BY <1>1, <1>7, <3>1 DEF Takes, SelectTakes
    <3>2. CASE ~(fd < FdSetSize)
      BY <1>0, <1>7, <3>2 DEF PollerOK, CanHold, Handled
    <3>. QED  BY <3>1, <3>2
  <2>2. \A x \in Ways : Handled(o, x) = Handled(p, x)
    BY <1>0, <1>2, <2>1
  <2>3. RecalcMaxFD(o) = RecalcMaxFD(p)
    BY <2>2 DEF RecalcMaxFD, Ways
  <2>4. \A x \in Ways, f \in Fds : o.handler[x][f] # None => CanHold(o, f)
    BY <1>0, <1>1 DEF CanHold, PollerOK, PollerType
  <2>. QED  BY <1>0, <1>1, <1>3, <1>7, <2>2, <2>3, <2>4, ZenonT(60) DEF PollerOK, Consistent
<1>. QED  BY <1>0, <1>4, <1>5, <1>6, <1>7 DEF PollerType

\* close() of a descriptor with no handlers leaves the poller as it was.
LEMMA ForgetWorks ==
  ASSUME NEW p, PollerOK(p), NEW fd \in Fds, \A w \in Ways : p.handler[w][fd] = None
  PROVE  Forget(p, fd) = p
<1>1. /\ p \in PollerType /\ \A w \in Ways : p.watch[w] = Handled(p, w)
  BY DEF PollerOK, Consistent
<1>2. \A w \in Ways : p.watch[w] \ {fd} = p.watch[w]
  BY <1>1 DEF Handled
<1>3. [w \in Ways |-> p.watch[w] \ {fd}] = p.watch
  BY <1>1, <1>2 DEF PollerType
<1>4. [p EXCEPT !.watch = [w \in Ways |-> @[w] \ {fd}]] = [p EXCEPT !.watch = p.watch]
  BY <1>1, <1>3 DEF PollerType
<1>. QED  BY <1>1, <1>4 DEF Forget, PollerType

-----------------------------------------------------------------------------
(* The operations on a connection.                                         *)

\* What a connection without a descriptor lacks.
LEMMA NoConnIsFree ==
  /\ NoConn \in Connection /\ NoConn.fd = 0 /\ NoConn.reg = {} /\ NoConn.pending = FALSE
  /\ Fit(NoConn)
BY DEF NoConn, Connection, Fit, Ways

LEMMA BridgeConns ==
  ASSUME NEW b \in Bridges
  PROVE  /\ IntConn(b) \in Conns /\ ExtConn(b) \in Conns /\ IntConn(b) # ExtConn(b)
         /\ IntConn(b)[1] = b /\ ExtConn(b)[1] = b
BY DEF IntConn, ExtConn, Conns

LEMMA ConnsOfBridge ==
  ASSUME NEW c \in Conns
  PROVE  c[1] \in Bridges /\ (c = IntConn(c[1]) \/ c = ExtConn(c[1]))
BY DEF IntConn, ExtConn, Conns

\* What is done to the connections of D leaves the others and their sockets alone.
Untouched(s, t, D) ==
  \A d \in Conns \ D :
    /\ t.conn[d] = s.conn[d]
    /\ s.conn[d].fd # 0 => t.sock[s.conn[d].fd] = s.sock[s.conn[d].fd]

LEMMA UntouchedAgain ==
  ASSUME NEW s, NEW t, NEW u, NEW D, NEW E, NEW F, Untouched(s, t, D), Untouched(t, u, E),
         D \subseteq F, E \subseteq F
  PROVE  Untouched(s, u, F)
BY DEF Untouched

\* If c is the connection of a bridge to ss-local, that may be shut, and no other.
LivesAlike(s, t, c) == \A b \in Bridges : c # IntConn(b) => t.life[b] = s.life[b]

\* Owned is about who has which descriptor, and nothing else of the connections.
LEMMA OwnedAlike ==
  ASSUME NEW s, NEW t, Owned(s), t.sock = s.sock, t.life = s.life,
         \A c \in Conns : t.conn[c].fd = s.conn[c].fd,
         \A c \in Conns : s.conn[c].fd = 0 => t.conn[c] = s.conn[c]
  PROVE  Owned(t)
BY DEF Owned

\* Nobody is in the tables for a descriptor that is nobody's.
LEMMA FreeIsUnnamed ==
  ASSUME NEW s, Sound(s), NEW fd \in Fds, s.sock[fd] = "free", NEW w \in Ways
  PROVE  s.poller.handler[w][fd] = None
<1>1. s.poller.handler[w][fd] \in Handlers
  BY DEF Sound, Processes, PollerType
<1>2. s.poller.handler[w][fd] # Listener
  BY DEF Sound, Named
<1>3. s.poller.handler[w][fd] \notin Conns
  <2>1. ASSUME NEW c \in Conns, s.poller.handler[w][fd] = c PROVE FALSE
    <3>1. s.conn[c].fd = fd
      BY <2>1 DEF Sound, Named
    <3>. QED  BY <3>1 DEF Sound, Owned, Fds
  <2>. QED  BY <2>1
<1>. QED  BY <1>1, <1>2, <1>3 DEF Handlers

\* tryRegReadEvent and tryRegWriteEvent.
LEMMA TryRegWorks ==
  ASSUME NEW s, Sound(s), NEW c \in Conns, s.conn[c].fd # 0, NEW w \in Ways
  PROVE  LET t == TryReg(s, c, w) IN
         /\ Sound(t) /\ t.conn = [s.conn EXCEPT ![c].reg = @ \cup {w}]
         /\ t.sock = s.sock /\ t.unread = s.unread /\ t.life = s.life
         /\ t.due = s.due /\ t.up = s.up
<1>. DEFINE t == TryReg(s, c, w)
            fd == s.conn[c].fd
            q == Register(s.poller, w, fd, c)
            N == [s.conn EXCEPT ![c].reg = @ \cup {w}]
<1>0. s \in Processes /\ s.conn \in [Conns -> Connection] /\ fd \in Fds /\ w \in Ways
  BY DEF Sound, Processes, Connection
<1>1. CASE w \in s.conn[c].reg
  <2>1. s.conn = N
    BY <1>0, <1>1 DEF Connection
  <2>. QED  BY <1>1, <2>1 DEF TryReg
<1>2. CASE w \notin s.conn[c].reg
  <2>1. t = [s EXCEPT !.conn[c].reg = @ \cup {w}, !.poller = q]
    BY <1>2 DEF TryReg
  <2>2. s.poller.handler[w][fd] = None
    <3>1. s.poller.handler[w][fd] \in Handlers
      BY <1>0 DEF Processes, PollerType
    <3>2. s.poller.handler[w][fd] # Listener
      BY <1>0 DEF Sound, Named, Owned
    <3>3. \A d \in Conns : s.poller.handler[w][fd] # d
      BY <1>0, <1>2 DEF Sound, Named, Owned
    <3>. QED  BY <3>1, <3>2, <3>3 DEF Handlers
  <2>3. c \in Handlers /\ c # None /\ c # Listener
    BY EventLoopAssumption DEF Handlers, Conns, Listener
  <2>4. /\ PollerOK(q) /\ q.kind = s.poller.kind
        /\ q.handler = IF CanHold(s.poller, fd) THEN [s.poller.handler EXCEPT ![w][fd] = c]
                       ELSE s.poller.handler
    BY <1>0, <2>2, <2>3, RegisterWorks DEF Sound
  <2>. HIDE DEF q
  <2>5. N \in [Conns -> Connection]
    BY <1>0 DEF Connection
  <2>6. /\ t.conn = N /\ t.poller = q /\ t.sock = s.sock /\ t.unread = s.unread
        /\ t.life = s.life /\ t.due = s.due /\ t.up = s.up
    BY <1>0, <2>1 DEF Processes
  <2>7. t \in Processes
    <3>. HIDE DEF N
    <3>1. t = [poller |-> q, sock |-> s.sock, unread |-> s.unread, conn |-> N,
               life |-> s.life, due |-> s.due, up |-> s.up]
      BY <1>0, <2>1 DEF Processes, N
    <3>. QED  BY <1>0, <2>4, <2>5, <3>1 DEF Processes, PollerOK
  <2>8. /\ \A d \in Conns : N[d].fd = s.conn[d].fd
        /\ \A d \in Conns : s.conn[d].fd = 0 => N[d] = s.conn[d]
        /\ \A d \in Conns : N[d].reg = IF d = c THEN s.conn[c].reg \cup {w} ELSE s.conn[d].reg
    BY <1>0 DEF Connection
  <2>. HIDE DEF N, t
  <2>9. Owned(t)
    BY <2>6, <2>8, OwnedAlike DEF Sound
  <2>10. \A f : CanHold(q, f) <=> CanHold(s.poller, f)
    BY <2>4 DEF CanHold
  <2>11. Named(t)
    <3>0. \A x \in Ways, f \in Fds : q.handler[x][f] =
            IF CanHold(s.poller, fd) /\ x = w /\ f = fd THEN c ELSE s.poller.handler[x][f]
      BY <1>0, <2>4 DEF Processes, PollerType
    <3>1. ASSUME NEW x \in Ways, NEW f \in Fds, NEW d \in Conns, q.handler[x][f] = d
          PROVE  N[d].fd = f /\ x \in N[d].reg
      BY <2>8, <3>0, <3>1 DEF Sound, Named
    <3>2. ASSUME NEW x \in Ways, NEW d \in Conns, N[d].fd # 0, CanHold(q, N[d].fd),
                 x \in N[d].reg
          PROVE  q.handler[x][N[d].fd] = d
      <4>1. N[d].fd \in Fds /\ N[d].fd = s.conn[d].fd
        BY <1>0, <2>8, <3>2 DEF Connection
      <4>2. CASE d = c
        BY <2>8, <2>10, <3>0, <3>2, <4>1, <4>2 DEF Sound, Named
      <4>3. CASE d # c
        <5>1. s.conn[d].fd # fd
          BY <1>0, <3>2, <4>1, <4>3 DEF Sound, Owned
        <5>. QED  BY <2>8, <2>10, <3>0, <3>2, <4>1, <4>3, <5>1 DEF Sound, Named
      <4>. QED  BY <4>2, <4>3
    <3>3. ASSUME NEW x \in Ways, NEW f \in Fds, q.handler[x][f] = Listener
          PROVE  x = "rd" /\ f = ListenFd /\ s.sock[ListenFd] = "listen"
      BY <2>3, <3>0, <3>3 DEF Sound, Named
    <3>. QED  BY <2>6, <3>1, <3>2, <3>3 DEF Named
  <2>. QED  BY <2>4, <2>6, <2>7, <2>9, <2>11 DEF Sound, t, N
<1>. QED  BY <1>1, <1>2

\* tryUnregReadEvent and tryUnregWriteEvent.
LEMMA TryUnregWorks ==
  ASSUME NEW s, Sound(s), NEW c \in Conns, NEW w \in Ways
  PROVE  LET t == TryUnreg(s, c, w) IN
         /\ Sound(t) /\ t.conn = [s.conn EXCEPT ![c].reg = @ \ {w}]
         /\ t.sock = s.sock /\ t.unread = s.unread /\ t.life = s.life
         /\ t.due = s.due /\ t.up = s.up
<1>. DEFINE t == TryUnreg(s, c, w)
            fd == s.conn[c].fd
            q == Deregister(s.poller, w, fd)
            N == [s.conn EXCEPT ![c].reg = @ \ {w}]
<1>0. s \in Processes /\ s.conn \in [Conns -> Connection] /\ w \in Ways
  BY DEF Sound, Processes
<1>1. CASE w \notin s.conn[c].reg
  <2>1. s.conn[c].reg \ {w} = s.conn[c].reg
    BY <1>1
  <2>2. s.conn = N
    BY <1>0, <2>1 DEF Connection
  <2>. QED  BY <1>1, <2>2 DEF TryUnreg
<1>2. CASE w \in s.conn[c].reg
  <2>1. t = [s EXCEPT !.conn[c].reg = @ \ {w}, !.poller = q]
    BY <1>2 DEF TryUnreg
  <2>2. fd # 0 /\ fd \in Fds
    <3>1. fd # 0
      BY <1>2, NoConnIsFree DEF Sound, Owned
    <3>. QED  BY <1>0, <3>1 DEF Connection
  <2>4. /\ PollerOK(q) /\ q.kind = s.poller.kind
        /\ q.handler = [s.poller.handler EXCEPT ![w][fd] = None]
    BY <1>0, <2>2, DeregisterWorks DEF Sound
  <2>. HIDE DEF q
  <2>5. N \in [Conns -> Connection]
    BY <1>0 DEF Connection
  <2>6. /\ t.conn = N /\ t.poller = q /\ t.sock = s.sock /\ t.unread = s.unread
        /\ t.life = s.life /\ t.due = s.due /\ t.up = s.up
    BY <1>0, <2>1 DEF Processes
  <2>7. t \in Processes
    <3>. HIDE DEF N
    <3>1. t = [poller |-> q, sock |-> s.sock, unread |-> s.unread, conn |-> N,
               life |-> s.life, due |-> s.due, up |-> s.up]
      BY <1>0, <2>1 DEF Processes, N
    <3>. QED  BY <1>0, <2>4, <2>5, <3>1 DEF Processes, PollerOK
  <2>8. /\ \A d \in Conns : N[d].fd = s.conn[d].fd
        /\ \A d \in Conns : s.conn[d].fd = 0 => N[d] = s.conn[d]
        /\ \A d \in Conns : N[d].reg = IF d = c THEN s.conn[c].reg \ {w} ELSE s.conn[d].reg
    BY <1>0, <2>2 DEF Connection
  <2>. HIDE DEF N, t
  <2>9. Owned(t)
    BY <2>6, <2>8, OwnedAlike DEF Sound
  <2>10. \A f : CanHold(q, f) <=> CanHold(s.poller, f)
    BY <2>4 DEF CanHold
  <2>11. Named(t)
    <3>0. \A x \in Ways, f \in Fds :
            q.handler[x][f] = IF x = w /\ f = fd THEN None ELSE s.poller.handler[x][f]
      BY <1>0, <2>4 DEF Processes, PollerType
    <3>1. ASSUME NEW x \in Ways, NEW f \in Fds, NEW d \in Conns, q.handler[x][f] = d
          PROVE  N[d].fd = f /\ x \in N[d].reg
      <4>1. ~(x = w /\ f = fd)
        BY <3>0, <3>1, EventLoopAssumption
      <4>. QED  BY <2>8, <3>0, <3>1, <4>1 DEF Sound, Named
    <3>2. ASSUME NEW x \in Ways, NEW d \in Conns, N[d].fd # 0, CanHold(q, N[d].fd),
                 x \in N[d].reg
          PROVE  q.handler[x][N[d].fd] = d
      <4>1. N[d].fd \in Fds /\ N[d].fd = s.conn[d].fd /\ x \in s.conn[d].reg
        BY <1>0, <2>8, <3>2 DEF Connection
      <4>2. ~(x = w /\ N[d].fd = fd)
        BY <1>0, <2>2, <2>8, <3>2, <4>1 DEF Sound, Owned
      <4>. QED  BY <2>10, <3>0, <3>2, <4>1, <4>2 DEF Sound, Named
    <3>3. ASSUME NEW x \in Ways, NEW f \in Fds, q.handler[x][f] = Listener
          PROVE  x = "rd" /\ f = ListenFd /\ s.sock[ListenFd] = "listen"
      BY <3>0, <3>3, EventLoopAssumption DEF Sound, Named
    <3>. QED  BY <2>6, <3>1, <3>2, <3>3 DEF Named
  <2>. QED  BY <2>4, <2>6, <2>7, <2>9, <2>11 DEF Sound, t, N
<1>. QED  BY <1>1, <1>2

\* Both: the connection watches nothing, and nobody is called for its descriptor.
LEMMA QuietWorks ==
  ASSUME NEW s, Sound(s), NEW c \in Conns
  PROVE  LET t == Quiet(s, c) IN
         /\ Sound(t) /\ t.conn = [s.conn EXCEPT ![c].reg = {}]
         /\ t.sock = s.sock /\ t.unread = s.unread /\ t.life = s.life
         /\ t.due = s.due /\ t.up = s.up
         /\ s.conn[c].fd # 0 => \A w \in Ways : t.poller.handler[w][s.conn[c].fd] = None
<1>. DEFINE u == TryUnreg(s, c, "wr")
            t == TryUnreg(u, c, "rd")
<1>0. s.conn \in [Conns -> Connection] /\ "rd" \in Ways /\ "wr" \in Ways
  BY DEF Sound, Processes, Ways
<1>1. /\ Sound(u) /\ u.conn = [s.conn EXCEPT ![c].reg = @ \ {"wr"}]
      /\ u.sock = s.sock /\ u.unread = s.unread /\ u.life = s.life
      /\ u.due = s.due /\ u.up = s.up
  BY <1>0, TryUnregWorks
<1>. HIDE DEF u
<1>2. /\ Sound(t) /\ t.conn = [u.conn EXCEPT ![c].reg = @ \ {"rd"}]
      /\ t.sock = u.sock /\ t.unread = u.unread /\ t.life = u.life
      /\ t.due = u.due /\ t.up = u.up
  BY <1>0, <1>1, TryUnregWorks
<1>. HIDE DEF t
<1>3. t.conn = [s.conn EXCEPT ![c].reg = {}]
  <2>. DEFINE N == [s.conn EXCEPT ![c].reg = {}]
  <2>1. s.conn[c] \in Connection /\ (s.conn[c].reg \ {"wr"}) \ {"rd"} = {}
    BY <1>0 DEF Connection, Ways
  <2>2. u.conn[c] = [s.conn[c] EXCEPT !.reg = @ \ {"wr"}] /\ DOMAIN u.conn = Conns
    BY <1>0, <1>1
  <2>3. t.conn[c] = [u.conn[c] EXCEPT !.reg = @ \ {"rd"}] /\ DOMAIN t.conn = Conns
    BY <1>2, <2>2
  <2>4. t.conn[c] = [s.conn[c] EXCEPT !.reg = {}]
    BY <2>1, <2>2, <2>3 DEF Connection
  <2>5. \A d \in Conns : d # c => t.conn[d] = s.conn[d]
    BY <1>0, <1>1, <1>2, <2>2
  <2>6. DOMAIN N = Conns /\ \A d \in Conns : N[d] = t.conn[d]
    BY <1>0, <2>4, <2>5
  <2>7. t.conn \in [Conns -> Connection]
    BY <1>2 DEF Sound, Processes
  <2>8. N = [d \in Conns |-> N[d]] /\ t.conn = [d \in Conns |-> t.conn[d]]
    BY <1>0, <2>7
  <2>. HIDE DEF N
  <2>9. t.conn = N
    BY <2>6, <2>8
  <2>. QED  BY <2>9 DEF N
<1>4. ASSUME s.conn[c].fd # 0, NEW w \in Ways
      PROVE  t.poller.handler[w][s.conn[c].fd] = None
  <2>1. t.conn[c].fd = s.conn[c].fd /\ t.conn[c].reg = {} /\ s.conn[c].fd \in Fds
    BY <1>0, <1>3, <1>4 DEF Connection
  <2>2. t.poller.handler[w][s.conn[c].fd] \in Handlers
    BY <1>2, <2>1 DEF Sound, Processes, PollerType
  <2>3. t.poller.handler[w][s.conn[c].fd] # Listener
    BY <1>2, <1>4, <2>1, SMTT(90) DEF Sound, Named, Owned
  <2>4. \A d \in Conns : t.poller.handler[w][s.conn[c].fd] # d
    BY <1>2, <1>4, <2>1, SMTT(90) DEF Sound, Named, Owned
  <2>. QED  BY <2>2, <2>3, <2>4 DEF Handlers
<1>. QED  BY <1>1, <1>2, <1>3, <1>4 DEF Quiet, u, t

\* Connection::shutdown: the connection is as at first, its descriptor free.
LEMMA CloseWorks ==
  ASSUME NEW s, Sound(s), NEW c \in Conns
  PROVE  LET t == Close(s, c) IN
         /\ Sound(t) /\ t.conn = [s.conn EXCEPT ![c] = NoConn]
         /\ t.life = s.life /\ t.due = s.due /\ t.up = s.up
         /\ t.sock[ListenFd] = s.sock[ListenFd] /\ Untouched(s, t, {c})
<1>. DEFINE t == Close(s, c)
            fd == s.conn[c].fd
            u == Quiet(s, c)
            N == [s.conn EXCEPT ![c] = NoConn]
            K == [s.sock EXCEPT ![fd] = "free"]
<1>0. s \in Processes /\ s.conn \in [Conns -> Connection] /\ s.sock \in [Fds -> Sockets]
  BY DEF Sound, Processes
<1>1. CASE fd = 0
  <2>1. s.conn = N
    BY <1>0, <1>1 DEF Sound, Owned
  <2>. QED  BY <1>1, <2>1 DEF Close, Untouched
<1>2. CASE fd # 0
  <2>0. fd \in Fds /\ fd # ListenFd /\ ListenFd \in Fds
    BY <1>0, <1>2, EventLoopAssumption DEF Connection, Sound, Owned
  <2>1. /\ Sound(u) /\ u.conn = [s.conn EXCEPT ![c].reg = {}]
        /\ u.sock = s.sock /\ u.unread = s.unread /\ u.life = s.life
        /\ u.due = s.due /\ u.up = s.up
        /\ \A w \in Ways : u.poller.handler[w][fd] = None
    BY <1>2, QuietWorks, SMTT(30)
  <2>2. Forget(u.poller, fd) = u.poller
    BY <2>0, <2>1, ForgetWorks DEF Sound
  <2>. HIDE DEF u
  <2>3. t = [CloseFd(u, fd) EXCEPT !.conn[c] = NoConn]
    BY <1>2 DEF Close, u
  <2>4. t = [[u EXCEPT !.sock[fd] = "free", !.unread = @ \ {fd}, !.poller = u.poller]
               EXCEPT !.conn[c] = NoConn]
    BY <2>1, <2>2, <2>3 DEF CloseFd, Sound, Processes
  <2>5. [u.conn EXCEPT ![c] = NoConn] = N
    BY <1>0, <2>1
  <2>. HIDE DEF t
  <2>6. t = [poller |-> u.poller, sock |-> K, unread |-> s.unread \ {fd}, conn |-> N,
             life |-> s.life, due |-> s.due, up |-> s.up]
    BY <2>1, <2>4, <2>5 DEF Sound, Processes
  <2>7. K \in [Fds -> Sockets] /\ N \in [Conns -> Connection]
    BY <1>0, NoConnIsFree DEF Sockets
  <2>8. \A d \in Conns : N[d] = IF d = c THEN NoConn ELSE s.conn[d]
    BY <1>0
  <2>9. \A f \in Fds : K[f] = IF f = fd THEN "free" ELSE s.sock[f]
    BY <1>0
  <2>. HIDE DEF K, N
  <2>10. t \in Processes
    BY <1>0, <2>1, <2>6, <2>7 DEF Processes, Sound
  <2>11. Owned(t)
    <3>1. ASSUME NEW d \in Conns, N[d].fd # 0
          PROVE  d # c /\ N[d] = s.conn[d] /\ N[d].fd \in Fds /\ N[d].fd # fd
      BY <1>0, <1>2, <2>8, <3>1, NoConnIsFree DEF Sound, Owned, Connection
    <3>2. \A d \in Conns : N[d].fd = 0 => N[d] = NoConn
      BY <2>8 DEF Sound, Owned
    <3>3. \A d \in Conns : N[d].fd # 0 =>
            K[N[d].fd] \notin {"free", "listen"} /\ s.life[d[1]] \in {"live", "shut"}
      BY <2>9, <3>1 DEF Sound, Owned
    <3>4. \A d, e \in Conns : N[d].fd = N[e].fd /\ N[d].fd # 0 => d = e
      BY <3>1 DEF Sound, Owned
    <3>5. ASSUME NEW f \in Fds, K[f] \notin {"free", "listen"}
          PROVE  \E d \in Conns : N[d].fd = f
      <4>1. f # fd /\ K[f] = s.sock[f]
        BY <2>9, <3>5
      <4>2. PICK d \in Conns : s.conn[d].fd = f
        BY <3>5, <4>1 DEF Sound, Owned
      <4>. QED  BY <2>8, <4>1, <4>2
    <3>6. \A f \in Fds : K[f] = "listen" => f = ListenFd
      BY <2>9 DEF Sound, Owned
    <3>7. K[ListenFd] \in {"free", "listen"}
      BY <2>0, <2>9 DEF Sound, Owned
    <3>. QED  BY <2>6, <3>2, <3>3, <3>4, <3>5, <3>6, <3>7 DEF Owned
  <2>12. Named(t)
    <3>0. \A d \in Conns : u.conn[d] = IF d = c THEN [s.conn[c] EXCEPT !.reg = {}] ELSE s.conn[d]
      BY <1>0, <2>1
    <3>1. ASSUME NEW x \in Ways, NEW f \in Fds, NEW d \in Conns, u.poller.handler[x][f] = d
          PROVE  N[d].fd = f /\ x \in N[d].reg
      <4>1. u.conn[d].fd = f /\ x \in u.conn[d].reg
        BY <2>1, <3>1 DEF Sound, Named
      <4>2. d # c
        BY <1>0, <3>0, <4>1 DEF Connection
      <4>. QED  BY <2>8, <3>0, <4>1, <4>2
    <3>2. ASSUME NEW x \in Ways, NEW d \in Conns, N[d].fd # 0,
                 CanHold(u.poller, N[d].fd), x \in N[d].reg
          PROVE  u.poller.handler[x][N[d].fd] = d
      <4>1. d # c /\ N[d] = u.conn[d]
        BY <2>8, <3>0, <3>2, NoConnIsFree
      <4>. QED  BY <2>1, <3>2, <4>1, SMTT(90) DEF Sound, Named
    <3>3. ASSUME NEW x \in Ways, NEW f \in Fds, u.poller.handler[x][f] = Listener
          PROVE  x = "rd" /\ f = ListenFd /\ K[ListenFd] = "listen"
      BY <2>0, <2>1, <2>9, <3>3 DEF Sound, Named
    <3>. QED  BY <2>6, <3>1, <3>2, <3>3 DEF Named
  <2>13. Untouched(s, t, {c})
    <3>1. \A d \in Conns \ {c} : s.conn[d].fd # 0 => s.conn[d].fd \in Fds /\ s.conn[d].fd # fd
      BY <1>0, <1>2 DEF Sound, Owned, Connection
    <3>. QED  BY <2>6, <2>8, <2>9, <3>1 DEF Untouched
  <2>. QED  BY <2>0, <2>1, <2>6, <2>9, <2>10, <2>11, <2>12, <2>13 DEF Sound, t, N
<1>. QED  BY <1>1, <1>2

\* socket() or accept() gives a descriptor that is free.
LEMMA NewFdIsFree ==
  ASSUME NEW s, NewFd(s) # 0
  PROVE  NewFd(s) \in Fds /\ s.sock[NewFd(s)] = "free"
<1>. DEFINE free == {fd \in Fds : s.sock[fd] = "free"}
<1>1. free # {} /\ NewFd(s) = Min(free)
  BY DEF NewFd
<1>2. MaxFds \in Nat /\ free \subseteq 0 .. MaxFds
  BY EventPollerAssumption DEF Fds
<1>3. Min(free) \in free
  <2>. HIDE DEF free
  <2>. QED  BY <1>1, <1>2, Bounds
<1>. QED  BY <1>1, <1>3

Opened(fd, status) == [fd |-> fd, status |-> status, reg |-> {}, pending |-> FALSE]

LEMMA OpenedIsNew ==
  ASSUME NEW f \in {0} \cup Fds, NEW st \in {"closed", "connecting", "connected"}
  PROVE  [NoConn EXCEPT !.fd = f, !.status = st] = Opened(f, st)
<1>. DEFINE k == [NoConn EXCEPT !.fd = f]
<1>1. k \in Connection /\ k.fd = f /\ k.reg = {} /\ k.pending = FALSE
  BY NoConnIsFree DEF Connection
<1>2. [NoConn EXCEPT !.fd = f, !.status = st] = [k EXCEPT !.status = st]
  OBVIOUS
<1>3. [k EXCEPT !.status = st] = [fd |-> k.fd, status |-> st, reg |-> k.reg, pending |-> k.pending]
  <2>. HIDE DEF k
  <2>. QED  BY <1>1 DEF Connection
<1>. QED  BY <1>1, <1>2, <1>3 DEF Opened

LEMMA OpenWorks ==
  ASSUME NEW s, Sound(s), NEW c \in Conns, s.conn[c].fd = 0, s.life[c[1]] \in {"live", "shut"},
         s.sock[ListenFd] = "listen", NewFd(s) # 0,
         NEW how, how \in {"up", "syn"}, NEW status, status \in {"connecting", "connected"}
  PROVE  LET t == Open(s, c, how, status) IN
         /\ Sound(t) /\ t.life = s.life /\ t.due = s.due /\ t.up = s.up
         /\ t.conn = [s.conn EXCEPT ![c] = Opened(NewFd(s), status)]
         /\ t.sock[ListenFd] = "listen" /\ t.conn[c].fd # 0 /\ Untouched(s, t, {c})
<1>. DEFINE t == Open(s, c, how, status)
            fd == NewFd(s)
            k == Opened(fd, status)
            N == [s.conn EXCEPT ![c] = k]
            K == [s.sock EXCEPT ![fd] = how]
<1>0. /\ s \in Processes /\ s.conn \in [Conns -> Connection] /\ s.sock \in [Fds -> Sockets]
      /\ s.conn[c] = NoConn /\ ListenFd \in Fds
  BY EventLoopAssumption DEF Sound, Processes, Owned
<1>1. fd \in Fds /\ s.sock[fd] = "free" /\ fd # 0 /\ fd # ListenFd
  BY NewFdIsFree
<1>2. \A w \in Ways : s.poller.handler[w][fd] = None
  BY <1>1, FreeIsUnnamed
<1>3. t = [s EXCEPT !.sock[fd] = how, !.conn[c] = k]
  <2>1. [NoConn EXCEPT !.fd = fd, !.status = status] = k
    BY <1>1, OpenedIsNew
  <2>. QED  BY <2>1 DEF Open
<1>. HIDE DEF fd, k, t
<1>4. t = [poller |-> s.poller, sock |-> K, unread |-> s.unread, conn |-> N,
           life |-> s.life, due |-> s.due, up |-> s.up]
  BY <1>0, <1>3 DEF Processes
<1>5. k \in Connection /\ k.fd = fd /\ k.reg = {}
  BY <1>1 DEF Opened, Connection, k
<1>6. K \in [Fds -> Sockets] /\ N \in [Conns -> Connection]
  BY <1>0, <1>5 DEF Sockets
<1>7. \A d \in Conns : N[d] = IF d = c THEN k ELSE s.conn[d]
  BY <1>0
<1>8. \A f \in Fds : K[f] = IF f = fd THEN how ELSE s.sock[f]
  BY <1>0
<1>. HIDE DEF K, N
<1>9. t \in Processes
  BY <1>0, <1>4, <1>6 DEF Processes
<1>10. \A d \in Conns : s.conn[d].fd # fd
  BY <1>1 DEF Sound, Owned
<1>11. Owned(t)
  <2>1. \A d \in Conns : N[d].fd = 0 => N[d] = NoConn
    BY <1>1, <1>5, <1>7 DEF Sound, Owned
  <2>2. \A d \in Conns : N[d].fd # 0 =>
          K[N[d].fd] \notin {"free", "listen"} /\ s.life[d[1]] \in {"live", "shut"}
    <3>1. ASSUME NEW d \in Conns, N[d].fd # 0, d # c
          PROVE  K[N[d].fd] \notin {"free", "listen"} /\ s.life[d[1]] \in {"live", "shut"}
      <4>1. N[d] = s.conn[d] /\ N[d].fd \in Fds /\ N[d].fd # fd
        BY <1>0, <1>7, <1>10, <3>1 DEF Connection
      <4>. QED  BY <1>8, <3>1, <4>1 DEF Sound, Owned
    <3>2. K[N[c].fd] \notin {"free", "listen"}
      BY <1>1, <1>5, <1>7, <1>8
    <3>. QED  BY <3>1, <3>2
  <2>3. \A d, e \in Conns : N[d].fd = N[e].fd /\ N[d].fd # 0 => d = e
    BY <1>5, <1>7, <1>10 DEF Sound, Owned
  <2>4. ASSUME NEW f \in Fds, K[f] \notin {"free", "listen"}
        PROVE  \E d \in Conns : N[d].fd = f
    <3>1. CASE f = fd
      BY <1>5, <1>7, <3>1
    <3>2. CASE f # fd
      <4>1. PICK d \in Conns : s.conn[d].fd = f
        BY <1>8, <2>4, <3>2 DEF Sound, Owned
      <4>2. d # c
        BY <4>1, EventPollerAssumption DEF Fds
      <4>. QED  BY <1>7, <4>1, <4>2
    <3>. QED  BY <3>1, <3>2
  <2>5. \A f \in Fds : K[f] = "listen" => f = ListenFd
    BY <1>8 DEF Sound, Owned
  <2>6. K[ListenFd] \in {"free", "listen"}
    BY <1>0, <1>1, <1>8 DEF Sound, Owned
  <2>. QED  BY <1>4, <2>1, <2>2, <2>3, <2>4, <2>5, <2>6 DEF Owned
<1>12. Named(t)
  <2>1. ASSUME NEW x \in Ways, NEW f \in Fds, NEW d \in Conns, s.poller.handler[x][f] = d
        PROVE  N[d].fd = f /\ x \in N[d].reg
    <3>1. s.conn[d].fd = f /\ x \in s.conn[d].reg
      BY <2>1 DEF Sound, Named
    <3>2. d # c
      BY <1>0, <3>1, NoConnIsFree
    <3>. QED  BY <1>7, <3>1, <3>2
  <2>2. ASSUME NEW x \in Ways, NEW d \in Conns, N[d].fd # 0,
               CanHold(s.poller, N[d].fd), x \in N[d].reg
        PROVE  s.poller.handler[x][N[d].fd] = d
    <3>1. d # c /\ N[d] = s.conn[d]
      BY <1>5, <1>7, <2>2
    <3>. QED  BY <2>2, <3>1 DEF Sound, Named
  <2>3. ASSUME NEW x \in Ways, NEW f \in Fds, s.poller.handler[x][f] = Listener
        PROVE  x = "rd" /\ f = ListenFd /\ K[ListenFd] = "listen"
    BY <1>0, <1>1, <1>8, <2>3 DEF Sound, Named
  <2>. QED  BY <1>4, <2>1, <2>2, <2>3 DEF Named
<1>13. Untouched(s, t, {c})
  <2>1. \A d \in Conns : s.conn[d].fd # 0 => s.conn[d].fd \in Fds
    BY <1>0 DEF Connection
  <2>. QED  BY <1>4, <1>7, <1>8, <1>10, <2>1 DEF Untouched
<1>. QED  BY <1>0, <1>1, <1>4, <1>5, <1>7, <1>8, <1>9, <1>11, <1>12, <1>13
          DEF Sound, t, N, k, fd

-----------------------------------------------------------------------------
(* The handlers, while the listener is open.                               *)

\* What holds between the parts of a handler, which may be at work on C.
Serving(s, C) == Sound(s) /\ s.sock[ListenFd] = "listen" /\ FitBut(s, C)
There(s, b) == s.life[b] \in {"live", "shut"}

LEMMA OpenConnIsThere ==
  ASSUME NEW s, Sound(s), NEW c \in Conns, s.conn[c].status # "closed" \/ s.conn[c].fd # 0
  PROVE  s.conn[c].fd \in Fds /\ There(s, c[1])
<1>1. s.conn[c] # NoConn
  BY DEF NoConn, Sound, Owned
<1>2. s.conn[c].fd # 0
  BY <1>1 DEF Sound, Owned
<1>. QED  BY <1>2 DEF Sound, Owned, There, Processes, Connection

\* The connection of b to ss-local is over, or has bytes that wait.
Ending(s, b) ==
  LET c == s.conn[IntConn(b)] IN
  c.fd # 0 /\ (s.sock[c.fd] \in {"ended", "failed"} \/ c.pending)
\* It is as it was, and b lives.
Spared(s, t, b) ==
  LET c == s.conn[IntConn(b)]
      d == t.conn[IntConn(b)]
  IN  /\ t.life[b] = "live" /\ d.fd = c.fd /\ d.pending = c.pending
      /\ c.fd # 0 => t.sock[c.fd] = s.sock[c.fd]
\* Of the bridges that live only those may have been shut that were to end.
Spares(s, t) == \A b \in Bridges : s.life[b] = "live" => Ending(s, b) \/ Spared(s, t, b)

LEMMA SparesAgain ==
  ASSUME NEW s, NEW t, NEW u, Spares(s, t), Spares(t, u)
  PROVE  Spares(s, u)
<1>1. ASSUME NEW b \in Bridges, s.life[b] = "live", ~Ending(s, b) PROVE Spared(s, u, b)
  <2>1. Spared(s, t, b)
    BY <1>1 DEF Spares
  <2>2. t.life[b] = "live" /\ ~Ending(t, b)
    BY <1>1, <2>1 DEF Spared, Ending
  <2>3. Spared(t, u, b)
    BY <2>2 DEF Spares
  <2>. QED  BY <2>1, <2>3 DEF Spared
<1>. QED  BY <1>1 DEF Spares

LEMMA UntouchedSpares ==
  ASSUME NEW s, NEW t, NEW D, Untouched(s, t, D),
         \A b \in Bridges : s.life[b] = "live" =>
           Ending(s, b) \/ (IntConn(b) \notin D /\ t.life[b] = "live")
  PROVE  Spares(s, t)
BY BridgeConns DEF Untouched, Spares, Spared

\* Connection::shutdown leaves no work to do on the connection.
LEMMA CloseServes ==
  ASSUME NEW s, NEW C, Serving(s, C), NEW c \in Conns
  PROVE  /\ Serving(Close(s, c), C \ {c})
         /\ Close(s, c).conn = [s.conn EXCEPT ![c] = NoConn]
         /\ Close(s, c).life = s.life /\ Close(s, c).due = s.due
         /\ Untouched(s, Close(s, c), {c})
<1>. DEFINE t == Close(s, c)
<1>1. /\ Sound(t) /\ t.conn = [s.conn EXCEPT ![c] = NoConn] /\ t.life = s.life
      /\ t.due = s.due /\ t.sock[ListenFd] = s.sock[ListenFd] /\ Untouched(s, t, {c})
  BY CloseWorks DEF Serving
<1>. HIDE DEF t
<1>2. \A d \in Conns : t.conn[d] = IF d = c THEN NoConn ELSE s.conn[d]
  BY <1>1 DEF Serving, Sound, Processes
<1>3. FitBut(t, C \ {c})
  BY <1>2, NoConnIsFree DEF Serving, FitBut
<1>. QED  BY <1>1, <1>3 DEF Serving, t

\* connect() and acceptConnection(): the connection is called for what it waits for.
LEMMA OpenServes ==
  ASSUME NEW s, NEW C, Serving(s, C), NEW c \in Conns, s.conn[c].fd = 0, There(s, c[1]),
         NewFd(s) # 0, NEW t,
         t = Accepted(s, c) \/ t = TryReg(Open(s, c, "syn", "connecting"), c, "wr")
  PROVE  /\ Serving(t, C) /\ t.life = s.life /\ t.due = s.due /\ t.conn[c].fd # 0
         /\ Untouched(s, t, {c})
<1>1. PICK how, status, w :
        /\ how \in {"up", "syn"} /\ status \in {"connecting", "connected"} /\ w \in Ways
        /\ t = TryReg(Open(s, c, how, status), c, w)
        /\ w = IF status = "connected" THEN "rd" ELSE "wr"
  BY DEF Accepted, Ways
<1>. DEFINE u == Open(s, c, how, status)
            k == Opened(NewFd(s), status)
<1>2. /\ Sound(u) /\ u.life = s.life /\ u.due = s.due
      /\ u.conn = [s.conn EXCEPT ![c] = k] /\ u.sock[ListenFd] = "listen" /\ u.conn[c].fd # 0
      /\ Untouched(s, u, {c})
  <2>1. Sound(s) /\ s.sock[ListenFd] = "listen" /\ s.life[c[1]] \in {"live", "shut"}
    BY DEF Serving, There
  <2>. QED  BY <1>1, <2>1, OpenWorks
<1>. HIDE DEF u
<1>3. /\ Sound(t) /\ t.conn = [u.conn EXCEPT ![c].reg = @ \cup {w}]
      /\ t.sock = u.sock /\ t.life = u.life /\ t.due = u.due
  <2>1. t = TryReg(u, c, w)
    BY <1>1 DEF u
  <2>. DEFINE r == TryReg(u, c, w)
  <2>2. /\ Sound(r) /\ r.conn = [u.conn EXCEPT ![c].reg = @ \cup {w}]
        /\ r.sock = u.sock /\ r.life = u.life /\ r.due = u.due
    BY <1>1, <1>2, TryRegWorks
  <2>. HIDE DEF r
  <2>3. t = r
    BY <2>1 DEF r
  <2>. QED  BY <2>2, <2>3
<1>4. s.conn \in [Conns -> Connection] /\ u.conn \in [Conns -> Connection]
  BY <1>2 DEF Serving, Sound, Processes
<1>5. t.conn[c] = [k EXCEPT !.reg = @ \cup {w}]
  BY <1>2, <1>3, <1>4
<1>6. Fit(t.conn[c]) /\ t.conn[c].fd # 0
  <2>1. /\ t.conn[c].reg = {w} /\ t.conn[c].status = status /\ t.conn[c].pending = FALSE
        /\ t.conn[c].fd = NewFd(s)
    BY <1>5 DEF Opened
  <2>. QED  BY <1>1, <2>1 DEF Fit, Ways
<1>7. \A d \in Conns : d # c => t.conn[d] = s.conn[d]
  BY <1>2, <1>3, <1>4
<1>8. FitBut(t, C)
  BY <1>6, <1>7 DEF Serving, FitBut
<1>9. Untouched(s, t, {c})
  BY <1>2, <1>3, <1>7 DEF Untouched
<1>. QED  BY <1>2, <1>3, <1>6, <1>8, <1>9 DEF Serving

\* Connection::connect, whether or not it fails.
LEMMA ConnectServes ==
  ASSUME NEW s, NEW C, Serving(s, C), NEW c \in Conns, s.conn[c].fd = 0, There(s, c[1]),
         NEW t \in Connect(s, c)
  PROVE  Serving(t, C) /\ t.life = s.life /\ Untouched(s, t, {c})
<1>1. CASE t = s
  BY <1>1 DEF Untouched
<1>2. CASE /\ NewFd(s) # 0
           /\ t = Accepted(s, c) \/ t = TryReg(Open(s, c, "syn", "connecting"), c, "wr")
  BY <1>2, OpenServes
<1>. QED  BY <1>1, <1>2 DEF Connect

\* ClientBridge::_reconnectExternal leaves the bridge's other connection alone.
LEMMA ReconnectServes ==
  ASSUME NEW s, NEW C, Serving(s, C), NEW b \in Bridges, There(s, b), NEW t \in Reconnect(s, b)
  PROVE  Serving(t, C) /\ t.life = s.life /\ Untouched(s, t, {ExtConn(b)})
<1>1. CASE b \notin s.due
  BY <1>1 DEF Reconnect, Untouched
<1>2. CASE b \in s.due
  <2>. DEFINE r == [s EXCEPT !.due = @ \ {b}]
              c == ExtConn(b)
              u == Close(r, c)
  <2>0. c \in Conns /\ c[1] = b /\ s \in Processes
    BY BridgeConns DEF Serving, Sound
  <2>1. /\ r.conn = s.conn /\ r.life = s.life /\ r.sock = s.sock /\ r.poller = s.poller
        /\ r \in Processes
    BY <2>0 DEF Processes
  <2>. HIDE DEF r, c
  <2>2. Serving(r, C)
    BY <2>1 DEF Serving, Sound, Owned, Named, FitBut
  <2>3. /\ Serving(u, C \ {c}) /\ u.conn = [s.conn EXCEPT ![c] = NoConn] /\ u.life = s.life
        /\ Untouched(r, u, {c})
    <3>1. /\ Serving(u, C \ {c}) /\ u.conn = [r.conn EXCEPT ![c] = NoConn]
          /\ u.life = r.life /\ Untouched(r, u, {c})
      BY <2>0, <2>2, CloseServes
    <3>. HIDE DEF u
    <3>. QED  BY <2>1, <3>1
  <2>. HIDE DEF u
  <2>4. Serving(u, C)
    BY <2>3 DEF Serving, FitBut
  <2>5. t \in Connect(u, c)
    BY <1>2 DEF Reconnect, r, u, c
  <2>6. Serving(t, C) /\ t.life = u.life /\ Untouched(u, t, {c})
    <3>1. u.conn[c].fd = 0 /\ There(u, c[1])
      BY <2>0, <2>3, NoConnIsFree DEF There, Processes
    <3>. QED  BY <2>0, <2>4, <2>5, <3>1, ConnectServes
  <2>7. Untouched(s, t, {c})
    BY <2>1, <2>3, <2>6 DEF Untouched
  <2>. QED  BY <2>3, <2>6, <2>7 DEF c
<1>. QED  BY <1>1, <1>2

\* onDisconnected or onError ends all work on the connection.
LEMMA OverServes ==
  ASSUME NEW s, NEW C, Serving(s, C), NEW c \in Conns, There(s, c[1]), NEW t \in Over(s, c)
  PROVE  /\ Serving(t, C \ {c}) /\ There(t, c[1]) /\ Untouched(s, t, {c})
         /\ LivesAlike(s, t, c)
<1>. DEFINE b == c[1]
            q == Quiet(s, c)
            u == Close(q, c)
<1>0. b \in Bridges /\ s \in Processes /\ \A a \in Bridges : c = IntConn(a) => a = b
  BY ConnsOfBridge, BridgeConns DEF Serving, Sound
<1>1. /\ Sound(q) /\ q.conn = [s.conn EXCEPT ![c].reg = {}] /\ q.sock = s.sock
      /\ q.life = s.life
  BY QuietWorks DEF Serving
<1>2. Serving(q, C \cup {c})
  <2>1. \A d \in Conns : d # c => q.conn[d] = s.conn[d]
    BY <1>0, <1>1 DEF Processes
  <2>. QED  BY <1>1, <2>1 DEF Serving, FitBut
<1>. HIDE DEF q
<1>3. /\ Serving(u, (C \cup {c}) \ {c}) /\ u.life = s.life
      /\ u.conn = [q.conn EXCEPT ![c] = NoConn] /\ Untouched(q, u, {c})
  BY <1>1, <1>2, CloseServes
<1>. HIDE DEF u
<1>4. Serving(u, C \ {c}) /\ Untouched(s, u, {c})
  <2>1. Untouched(s, q, {c})
    BY <1>0, <1>1 DEF Untouched, Processes
  <2>2. Untouched(s, u, {c})
    BY <1>3, <2>1, UntouchedAgain
  <2>. QED  BY <1>3, <2>2 DEF Serving, FitBut
<1>5. CASE c = IntConn(b)
  <2>1. t = [u EXCEPT !.life[b] = "shut"]
    BY <1>5 DEF Over, u, q
  <2>2. u \in Processes
    BY <1>4 DEF Serving, Sound
  <2>3. /\ t.conn = u.conn /\ t.poller = u.poller /\ t.sock = u.sock
        /\ t.life = [u.life EXCEPT ![b] = "shut"] /\ t \in Processes
    BY <1>0, <2>1, <2>2 DEF Processes, Lives
  <2>4. \A a \in Bridges : t.life[a] = IF a = b THEN "shut" ELSE u.life[a]
    BY <2>2, <2>3 DEF Processes
  <2>5. Owned(t)
    <3>1. \A d \in Conns : There(u, d[1]) => There(t, d[1])
      BY <2>4, ConnsOfBridge DEF There
    <3>. QED  BY <1>4, <2>3, <3>1 DEF Serving, Sound, Owned, There
  <2>6. Named(t)
    BY <1>4, <2>3 DEF Serving, Sound, Named
  <2>7. Serving(t, C \ {c}) /\ There(t, b)
    BY <1>0, <1>4, <2>3, <2>4, <2>5, <2>6 DEF Serving, Sound, FitBut, There
  <2>8. Untouched(s, t, {c})
    BY <1>4, <2>3 DEF Untouched
  <2>. QED  BY <1>0, <1>1, <1>3, <1>5, <2>4, <2>7, <2>8 DEF LivesAlike
<1>6. CASE c # IntConn(b)
  <2>0. c = ExtConn(b)
    BY <1>6, ConnsOfBridge
  <2>1. t \in Reconnect(u, b)
    BY <1>6 DEF Over, u, q
  <2>2. There(u, b)
    BY <1>1, <1>3 DEF There
  <2>3. Serving(t, C \ {c}) /\ t.life = u.life /\ Untouched(u, t, {c})
    BY <1>0, <1>4, <2>0, <2>1, <2>2, ReconnectServes
  <2>4. Untouched(s, t, {c})
    BY <1>4, <2>3, UntouchedAgain
  <2>. QED  BY <1>0, <1>1, <1>3, <1>6, <2>2, <2>3, <2>4 DEF There, LivesAlike
<1>. QED  BY <1>5, <1>6

\* An Owned and Named process with other words about one connection.
LEMMA StatusServes ==
  ASSUME NEW s, NEW C, Serving(s, C), NEW c \in Conns, s.conn[c].fd # 0,
         NEW t, t \in Processes, t.poller = s.poller, t.sock = s.sock, t.life = s.life,
         \A d \in Conns : d # c => t.conn[d] = s.conn[d],
         t.conn[c].fd = s.conn[c].fd, t.conn[c].reg = s.conn[c].reg
  PROVE  Serving(t, C \cup {c}) /\ (Fit(t.conn[c]) => Serving(t, C))
<1>1. Owned(t)
  BY OwnedAlike DEF Serving, Sound
<1>2. Named(t)
  BY DEF Serving, Sound, Named
<1>3. FitBut(t, C \cup {c}) /\ (Fit(t.conn[c]) => FitBut(t, C))
  BY DEF Serving, FitBut
<1>. QED  BY <1>1, <1>2, <1>3 DEF Serving, Sound

\* Connection::send of bytes that wait for room.
LEMMA WaitsServes ==
  ASSUME NEW s, NEW C, Serving(s, C), NEW c \in Conns, s.conn[c].status = "connected",
         NEW t, t = Waits(s, c)
  PROVE  Serving(t, C) /\ t.life = s.life /\ Untouched(s, t, {c})
<1>. DEFINE r == [s EXCEPT !.conn[c].pending = TRUE]
<1>0. s \in Processes /\ s.conn \in [Conns -> Connection] /\ s.conn[c].fd # 0 /\ "wr" \in Ways
  BY OpenConnIsThere DEF Serving, Sound, Processes, Fds, Ways
<1>1. /\ r.conn = [s.conn EXCEPT ![c].pending = TRUE] /\ r.life = s.life /\ r.sock = s.sock
      /\ r.poller = s.poller /\ r \in Processes
  BY <1>0, ZenonT(60) DEF Processes, Connection
<1>. HIDE DEF r
<1>2. /\ r.conn[c] = [s.conn[c] EXCEPT !.pending = TRUE]
      /\ \A d \in Conns : d # c => r.conn[d] = s.conn[d]
  BY <1>0, <1>1
<1>3. /\ r.conn[c].fd = s.conn[c].fd /\ r.conn[c].reg = s.conn[c].reg
      /\ r.conn[c].status = s.conn[c].status /\ r.conn[c].pending = TRUE
  BY <1>0, <1>2 DEF Connection
<1>4. Serving(r, C \cup {c})
  BY <1>0, <1>1, <1>2, <1>3, StatusServes
<1>. DEFINE u == TryReg(r, c, "wr")
<1>5. /\ Sound(u) /\ u.conn = [r.conn EXCEPT ![c].reg = @ \cup {"wr"}]
      /\ u.sock = r.sock /\ u.life = r.life
  <2>1. Sound(r) /\ r.conn[c].fd # 0
    BY <1>0, <1>3, <1>4 DEF Serving
  <2>2. "wr" \in Ways
    BY DEF Ways
  <2>. QED  BY <2>1, <2>2, TryRegWorks
<1>. HIDE DEF u
<1>6. \A d \in Conns : d # c => u.conn[d] = s.conn[d]
  BY <1>1, <1>2, <1>5 DEF Processes
<1>7. /\ u.conn[c].reg = s.conn[c].reg \cup {"wr"} /\ u.conn[c].pending = TRUE
      /\ u.conn[c].status = "connected"
  BY <1>1, <1>3, <1>5 DEF Processes, Connection
<1>8. Fit(s.conn[c]) => Fit(u.conn[c])
  BY <1>7 DEF Fit, Ways
<1>9. FitBut(u, C)
  BY <1>6, <1>8 DEF Serving, FitBut
<1>10. t = u
  BY DEF Waits, u, r
<1>11. Untouched(s, u, {c})
  BY <1>1, <1>5, <1>6 DEF Untouched
<1>. QED  BY <1>1, <1>4, <1>5, <1>9, <1>10, <1>11 DEF Serving

\* All that waited is sent.
LEMMA FlushedServes ==
  ASSUME NEW s, NEW C, Serving(s, C), NEW c \in Conns, s.conn[c].status = "connected",
         NEW t, t = Flushed(s, c)
  PROVE  Serving(t, C) /\ t.life = s.life /\ Untouched(s, t, {c})
<1>. DEFINE r == [s EXCEPT !.conn[c].pending = FALSE]
<1>0. s \in Processes /\ s.conn \in [Conns -> Connection] /\ s.conn[c].fd # 0 /\ "wr" \in Ways
  BY OpenConnIsThere DEF Serving, Sound, Processes, Fds, Ways
<1>1. /\ r.conn = [s.conn EXCEPT ![c].pending = FALSE] /\ r.life = s.life /\ r.sock = s.sock
      /\ r.poller = s.poller /\ r \in Processes
  BY <1>0, ZenonT(60) DEF Processes, Connection
<1>. HIDE DEF r
<1>2. /\ r.conn[c] = [s.conn[c] EXCEPT !.pending = FALSE]
      /\ \A d \in Conns : d # c => r.conn[d] = s.conn[d]
  BY <1>0, <1>1
<1>3. /\ r.conn[c].fd = s.conn[c].fd /\ r.conn[c].reg = s.conn[c].reg
      /\ r.conn[c].status = s.conn[c].status /\ r.conn[c].pending = FALSE
  BY <1>0, <1>2 DEF Connection
<1>4. Serving(r, C \cup {c})
  BY <1>0, <1>1, <1>2, <1>3, StatusServes
<1>. DEFINE u == TryUnreg(r, c, "wr")
<1>5. /\ Sound(u) /\ u.conn = [r.conn EXCEPT ![c].reg = @ \ {"wr"}]
      /\ u.sock = r.sock /\ u.life = r.life
  BY <1>0, <1>4, TryUnregWorks DEF Serving
<1>. HIDE DEF u
<1>6. \A d \in Conns : d # c => u.conn[d] = s.conn[d]
  BY <1>1, <1>2, <1>5 DEF Processes
<1>7. /\ u.conn[c].reg = s.conn[c].reg \ {"wr"} /\ u.conn[c].pending = FALSE
      /\ u.conn[c].status = "connected"
  BY <1>1, <1>3, <1>5 DEF Processes, Connection
<1>8. Fit(s.conn[c]) => Fit(u.conn[c])
  BY <1>7 DEF Fit, Ways
<1>9. FitBut(u, C)
  BY <1>6, <1>8 DEF Serving, FitBut
<1>10. t = s \/ t = u
  BY DEF Flushed, u, r
<1>11. Untouched(s, u, {c}) /\ Untouched(s, s, {c})
  BY <1>1, <1>5, <1>6 DEF Untouched
<1>. QED  BY <1>1, <1>4, <1>5, <1>9, <1>10, <1>11 DEF Serving

\* What Connection::send may do.
LEMMA SentServes ==
  ASSUME NEW s, Serving(s, {}), NEW c \in Conns, s.conn[c].status = "connected",
         NEW t \in Sent(s, c)
  PROVE  Serving(t, {})
<1>1. CASE t \in Over(s, c)
  <2>1. There(s, c[1])
    BY OpenConnIsThere DEF Serving
  <2>2. Serving(t, {} \ {c})
    BY <1>1, <2>1, OverServes
  <2>. QED  BY <2>2 DEF Serving, FitBut
<1>2. CASE t = Flushed(s, c) \/ t = Waits(s, c)
  BY <1>2, FlushedServes, WaitsServes
<1>. QED  BY <1>1, <1>2 DEF Sent

\* onRecv.
LEMMA ReceivedServes ==
  ASSUME NEW s, NEW C, Serving(s, C), NEW c \in Conns, There(s, c[1]), NEW t \in Received(s, c)
  PROVE  Serving(t, C) /\ t.life = s.life /\ Untouched(s, t, {ExtConn(c[1])})
<1>0. c[1] \in Bridges /\ (c = IntConn(c[1]) \/ c = ExtConn(c[1]))
  BY ConnsOfBridge
<1>1. CASE t = s
  BY <1>1 DEF Untouched
<1>2. CASE t \in Reconnect(s, c[1])
  BY <1>0, <1>2, ReconnectServes
<1>3. CASE s.conn[c].status = "connected" /\ t = Waits(s, c) /\ c = ExtConn(c[1])
  BY <1>3, WaitsServes
<1>. QED  BY <1>0, <1>1, <1>2, <1>3 DEF Received

\* Connection::handleInputNotification.
LEMMA InputServes ==
  ASSUME NEW s, Serving(s, {}), NEW c \in Conns, NEW t \in Input(s, c)
  PROVE  Serving(t, {}) /\ Spares(s, t)
<1>. DEFINE fd   == s.conn[c].fd
            ends == s.sock[fd] \in {"ended", "failed"}
            read == [s EXCEPT !.unread = @ \ {fd},
                              !.conn[c].status = IF ends THEN "closed" ELSE @]
            told == IF fd \in s.unread THEN Received(read, c) ELSE {read}
            D == IF ends THEN {c} ELSE {}
            e == ExtConn(c[1])
<1>0. c[1] \in Bridges /\ \A b \in Bridges : IntConn(b) # e /\ (IntConn(b) = c => b = c[1])
  BY ConnsOfBridge, BridgeConns DEF IntConn, ExtConn
<1>. HIDE DEF e
<1>1. CASE s.conn[c].status # "connected"
  <2>1. t = s
    BY <1>1 DEF Input
  <2>. QED  BY <2>1 DEF Spares, Spared
<1>2. CASE s.conn[c].status = "connected"
  <2>0. /\ s \in Processes /\ s.conn \in [Conns -> Connection] /\ fd # 0 /\ fd \in Fds
        /\ There(s, c[1]) /\ c[1] \in Bridges
    BY <1>2, OpenConnIsThere, ConnsOfBridge DEF Serving, Sound, Processes, Fds
  <2>. DEFINE st == IF ends THEN "closed" ELSE s.conn[c].status
  <2>1. /\ read.conn = [s.conn EXCEPT ![c].status = st] /\ read.life = s.life
        /\ read.sock = s.sock /\ read.poller = s.poller /\ read \in Processes
    <3>1. read = [s EXCEPT !.unread = @ \ {fd}, !.conn[c].status = st]
      BY <2>0 DEF Processes, Connection
    <3>2. st \in {"closed", "connected"}
      BY <1>2
    <3>. HIDE DEF read, st, fd
    <3>3. s \in Processes /\ s.conn \in [Conns -> Connection] /\ fd \in Fds
      BY <2>0
    <3>4. read.conn = [s.conn EXCEPT ![c].status = st]
      BY <3>1, <3>3 DEF Processes
    <3>5. [s.conn EXCEPT ![c].status = st] \in [Conns -> Connection]
      BY <3>2, <3>3 DEF Connection
    <3>6. /\ read.life = s.life /\ read.sock = s.sock /\ read.poller = s.poller
          /\ read.unread = s.unread \ {fd} /\ read.due = s.due /\ read.up = s.up
      BY <3>1, <3>3 DEF Processes
    <3>7. read = [poller |-> s.poller, sock |-> s.sock, unread |-> s.unread \ {fd},
                  conn |-> read.conn, life |-> s.life, due |-> s.due, up |-> s.up]
      BY <3>1, <3>3 DEF Processes
    <3>. QED  BY <3>3, <3>4, <3>5, <3>6, <3>7 DEF Processes
  <2>2. /\ read.conn[c] = [s.conn[c] EXCEPT !.status = st]
        /\ \A d \in Conns : d # c => read.conn[d] = s.conn[d]
    BY <2>0, <2>1
  <2>3. /\ read.conn[c].fd = fd /\ read.conn[c].reg = s.conn[c].reg
        /\ ~ends => read.conn[c] = s.conn[c]
    BY <2>0, <2>2 DEF Connection
  <2>4. Serving(read, D)
    <3>1. c \notin D => Fit(read.conn[c])
      BY <2>3 DEF Serving, FitBut
    <3>2. s.conn[c].fd # 0 /\ read.conn[c].fd = s.conn[c].fd /\ read.conn[c].reg = s.conn[c].reg
      BY <2>0, <2>3
    <3>3. Serving(read, {} \cup {c}) /\ (Fit(read.conn[c]) => Serving(read, {}))
      <4>. HIDE DEF read, D, fd
      <4>. QED  BY <2>1, <2>2, <3>2, StatusServes
    <3>. QED  BY <3>1, <3>3
  <2>5. There(read, c[1]) /\ read.life = s.life /\ Untouched(s, read, D)
    BY <2>0, <2>1, <2>2, <2>3 DEF There, Untouched
  <2>6. ends => \A b \in Bridges : IntConn(b) = c => Ending(s, b)
    BY <2>0 DEF Ending
  <2>. HIDE DEF read
  <2>7. ASSUME NEW r \in told
        PROVE  /\ Serving(r, D) /\ There(r, c[1]) /\ r.life = s.life
               /\ Untouched(s, r, D \cup {e})
    <3>1. CASE r = read
      BY <2>4, <2>5, <3>1 DEF Untouched
    <3>2. CASE r \in Received(read, c)
      <4>1. Serving(r, D) /\ r.life = read.life /\ Untouched(read, r, {e})
        BY <2>4, <2>5, <3>2, ReceivedServes DEF e
      <4>. QED  BY <2>5, <4>1, UntouchedAgain DEF There
    <3>. QED  BY <2>7, <3>1, <3>2
  <2>8. ASSUME NEW r, Serving(r, D), There(r, c[1]), r.life = s.life,
               Untouched(s, r, D \cup {e}), NEW q \in Over(r, c)
        PROVE  /\ Serving(q, {}) /\ There(q, c[1]) /\ Untouched(s, q, {c, e})
               /\ LivesAlike(s, q, c)
    <3>1. /\ Serving(q, D \ {c}) /\ There(q, c[1]) /\ Untouched(r, q, {c})
          /\ LivesAlike(r, q, c)
      BY <2>8, OverServes
    <3>2. D \ {c} = {} /\ D \cup {e} \subseteq {c, e}
      OBVIOUS
    <3>. QED  BY <2>8, <3>1, <3>2, UntouchedAgain DEF LivesAlike
  <2>9. CASE t \in (IF ends THEN UNION {Over(r, c) : r \in told} ELSE told)
    <3>1. CASE ends
      <4>1. PICK r \in told : t \in Over(r, c)
        BY <2>9, <3>1
      <4>2. /\ Serving(t, {}) /\ Untouched(s, t, {c, e})
            /\ LivesAlike(s, t, c)
        BY <2>7, <2>8, <4>1
      <4>. QED  BY <1>0, <2>6, <3>1, <4>2, UntouchedSpares DEF LivesAlike
    <3>2. CASE ~ends
      <4>1. Serving(t, {}) /\ t.life = s.life /\ Untouched(s, t, {e})
        BY <2>7, <2>9, <3>2
      <4>. QED  BY <1>0, <4>1, UntouchedSpares
    <3>. QED  BY <3>1, <3>2
  <2>10. CASE c = e /\ t \in UNION {AfterDeletion(r, c[1]) : r \in Over(read, c)}
    <3>0. Untouched(s, read, D \cup {e})
      BY <2>5, UntouchedAgain DEF Untouched
    <3>1. PICK r \in Over(read, c) : t \in AfterDeletion(r, c[1])
      BY <2>10
    <3>2. /\ Serving(r, {}) /\ There(r, c[1]) /\ Untouched(s, r, {e})
          /\ \A b \in Bridges : r.life[b] = s.life[b]
      BY <1>0, <2>4, <2>5, <2>8, <2>10, <3>0 DEF LivesAlike
    <3>3. CASE t = r
      BY <1>0, <3>2, <3>3, UntouchedSpares
    <3>4. CASE t = [r EXCEPT !.up = FALSE]
      <4>1. r \in Processes
        BY <3>2 DEF Serving, Sound
      <4>2. /\ t.conn = r.conn /\ t.poller = r.poller /\ t.sock = r.sock /\ t.life = r.life
            /\ t \in Processes
        BY <3>4, <4>1 DEF Processes
      <4>3. Serving(t, {})
        BY <3>2, <4>2 DEF Serving, Sound, Owned, Named, FitBut
      <4>4. Untouched(s, t, {e})
        BY <3>2, <4>2 DEF Untouched
      <4>. QED  BY <1>0, <3>2, <4>2, <4>3, <4>4, UntouchedSpares
    <3>5. CASE t \in Over(r, c)
      <4>1. /\ Serving(t, {} \ {c}) /\ Untouched(r, t, {e})
            /\ LivesAlike(r, t, c)
        BY <2>10, <3>2, <3>5, OverServes
      <4>2. Serving(t, {})
        BY <4>1 DEF Serving, FitBut
      <4>3. Untouched(s, t, {e})
        BY <3>2, <4>1, UntouchedAgain
      <4>. QED  BY <1>0, <2>10, <3>2, <4>1, <4>2, <4>3, UntouchedSpares DEF LivesAlike
    <3>. QED  BY <2>10, <3>1, <3>3, <3>4, <3>5 DEF AfterDeletion, e
  <2>11. \/ t \in (IF ends THEN UNION {Over(r, c) : r \in told} ELSE told)
         \/ c = e /\ t \in UNION {AfterDeletion(r, c[1]) : r \in Over(read, c)}
    BY <1>2 DEF Input, read, e
  <2>. QED  BY <2>9, <2>10, <2>11
<1>. QED  BY <1>1, <1>2

\* Connection::handleOutputNotification.
LEMMA OutputServes ==
  ASSUME NEW s, Serving(s, {}), NEW c \in Conns, "wr" \in s.conn[c].reg, NEW t \in Output(s, c)
  PROVE  Serving(t, {}) /\ Spares(s, t)
<1>. DEFINE failed == s.sock[s.conn[c].fd] = "failed"
<1>0. s \in Processes /\ s.conn \in [Conns -> Connection] /\ "wr" \in Ways /\ "rd" \in Ways
  BY DEF Serving, Sound, Processes, Ways
<1>1. s.conn[c].status = "connected" => s.conn[c].pending
  BY DEF Serving, FitBut, Fit
<1>2. CASE t \in Over(s, c) /\ s.conn[c].status # "closed" /\ (failed \/ s.conn[c].pending)
  <2>1. There(s, c[1]) /\ s.conn[c].fd # 0
    BY <1>2, OpenConnIsThere DEF Serving, Fds
  <2>2. /\ Serving(t, {} \ {c}) /\ Untouched(s, t, {c})
        /\ LivesAlike(s, t, c)
    BY <1>2, <2>1, OverServes
  <2>3. Serving(t, {})
    BY <2>2 DEF Serving, FitBut
  <2>4. \A b \in Bridges : IntConn(b) = c => Ending(s, b)
    BY <1>2, <2>1 DEF Ending
  <2>. QED  BY <2>2, <2>3, <2>4, UntouchedSpares DEF LivesAlike
<1>3. CASE /\ s.conn[c].status = "connecting"
           /\ t = TryReg([TryUnreg(s, c, "wr") EXCEPT !.conn[c].status = "connected"], c, "rd")
  <2>. DEFINE u == TryUnreg(s, c, "wr")
              v == [u EXCEPT !.conn[c].status = "connected"]
  <2>0. s.conn[c].fd # 0 /\ Fit(s.conn[c]) /\ s.conn[c].pending \in BOOLEAN
    BY <1>0, <1>3, OpenConnIsThere DEF Serving, FitBut, Fds, Connection
  <2>1. /\ Sound(u) /\ u.conn = [s.conn EXCEPT ![c].reg = @ \ {"wr"}]
        /\ u.sock = s.sock /\ u.life = s.life
    BY <1>0, TryUnregWorks DEF Serving
  <2>2. /\ u.conn[c].fd = s.conn[c].fd /\ u.conn[c].reg = {} /\ u.conn[c].pending = FALSE
        /\ u.conn \in [Conns -> Connection] /\ u \in Processes
    <3>1. u.conn[c] = [s.conn[c] EXCEPT !.reg = @ \ {"wr"}]
      BY <1>0, <2>1
    <3>2. s.conn[c].reg = {"wr"} /\ s.conn[c].pending = FALSE
      BY <1>0, <1>3, <2>0 DEF Fit, Connection, Ways
    <3>. QED  BY <1>0, <2>1, <3>1, <3>2 DEF Connection, Sound, Processes
  <2>3. \A d \in Conns : d # c => u.conn[d] = s.conn[d]
    BY <1>0, <2>1
  <2>4. Serving(u, {c})
    BY <2>1, <2>3 DEF Serving, FitBut
  <2>. HIDE DEF u
  <2>5. /\ v.conn = [u.conn EXCEPT ![c].status = "connected"] /\ v.life = u.life
        /\ v.sock = u.sock /\ v.poller = u.poller /\ v \in Processes
    <3>1. u \in Processes
      BY <2>2
    <3>. QED  BY <3>1, SMTT(90) DEF Processes, Connection
  <2>. HIDE DEF v
  <2>6. /\ v.conn[c].fd = u.conn[c].fd /\ v.conn[c].reg = {} /\ v.conn[c].pending = FALSE
        /\ v.conn[c].status = "connected" /\ \A d \in Conns : d # c => v.conn[d] = u.conn[d]
    <3>1. v.conn[c] = [u.conn[c] EXCEPT !.status = "connected"]
      BY <2>2, <2>5
    <3>2. \A d \in Conns : d # c => v.conn[d] = u.conn[d]
      BY <2>2, <2>5
    <3>. QED  BY <2>2, <3>1, <3>2 DEF Connection
  <2>7. Serving(v, {c})
    <3>1. v.conn[c].fd = u.conn[c].fd /\ v.conn[c].reg = u.conn[c].reg /\ u.conn[c].fd # 0
      BY <2>0, <2>2, <2>6
    <3>2. Serving(v, {c} \cup {c})
      BY <2>4, <2>5, <2>6, <3>1, StatusServes
    <3>. QED  BY <3>2
  <2>. DEFINE r == TryReg(v, c, "rd")
  <2>8. /\ Sound(r) /\ r.conn = [v.conn EXCEPT ![c].reg = @ \cup {"rd"}] /\ r.sock = v.sock
        /\ r.life = v.life
    <3>1. Sound(v) /\ v.conn[c].fd # 0
      BY <2>0, <2>2, <2>6, <2>7 DEF Serving
    <3>2. c \in Conns /\ "rd" \in Ways
      BY <1>0
    <3>. QED  BY ONLY <3>1, <3>2, TryRegWorks
  <2>. HIDE DEF r
  <2>9. /\ r.conn[c].reg = {"rd"} /\ r.conn[c].pending = FALSE /\ r.conn[c].status = "connected"
        /\ r.conn[c].fd = v.conn[c].fd /\ \A d \in Conns : d # c => r.conn[d] = v.conn[d]
    <3>0. v.conn \in [Conns -> Connection]
      BY <2>5 DEF Processes
    <3>1. r.conn[c] = [v.conn[c] EXCEPT !.reg = @ \cup {"rd"}]
      BY <2>8, <3>0
    <3>. QED  BY <2>6, <2>8, <3>0, <3>1 DEF Connection
  <2>10. Fit(r.conn[c])
    BY <2>9 DEF Fit, Ways
  <2>11. FitBut(r, {})
    BY <2>7, <2>9, <2>10 DEF Serving, FitBut
  <2>12. t = r
    BY <1>3 DEF r, v, u
  <2>13. \A b \in Bridges : s.life[b] = "live" => Spared(s, r, b)
    <3>1. /\ r.sock = s.sock /\ r.life = s.life /\ r.conn[c].fd = s.conn[c].fd
          /\ r.conn[c].pending = s.conn[c].pending
          /\ \A d \in Conns : d # c => r.conn[d] = s.conn[d]
      BY <2>1, <2>2, <2>3, <2>5, <2>6, <2>8, <2>9, <1>3, <2>0 DEF Fit
    <3>. QED  BY <3>1, BridgeConns DEF Spared
  <2>. QED  BY <2>7, <2>8, <2>11, <2>12, <2>13 DEF Serving, Spares
<1>4. CASE t = s
  BY <1>4 DEF Spares, Spared
<1>5. CASE s.conn[c].status = "connected" /\ t = Flushed(s, c)
  <2>1. s.conn[c].fd # 0
    BY <1>5, OpenConnIsThere DEF Serving, Fds
  <2>2. Serving(t, {}) /\ t.life = s.life /\ Untouched(s, t, {c})
    BY <1>5, FlushedServes
  <2>3. \A b \in Bridges : IntConn(b) = c => Ending(s, b)
    BY <1>1, <1>5, <2>1 DEF Ending
  <2>. QED  BY <2>2, <2>3, UntouchedSpares
<1>6. CASE s.conn[c].status = "connecting"
  BY <1>2, <1>3, <1>6 DEF Output
<1>7. CASE s.conn[c].status = "connected"
  <2>1. t \in Over(s, c) \/ t = s \/ t = Flushed(s, c)
    BY <1>7 DEF Output
  <2>2. CASE t \in Over(s, c)
    BY <1>1, <1>2, <1>7, <2>2
  <2>3. CASE t = s
    BY <1>4, <2>3
  <2>4. CASE t = Flushed(s, c)
    BY <1>5, <1>7, <2>4
  <2>. QED  BY <2>1, <2>2, <2>3, <2>4
<1>8. CASE s.conn[c].status \notin {"connecting", "connected"}
  BY <1>4, <1>8 DEF Output
<1>. QED  BY <1>6, <1>7, <1>8

\* ClientBridge::acceptConnection, whether or not it fails, concerns its bridge only.
LEMMA AcceptBridgeServes ==
  ASSUME NEW s, Serving(s, {}), NEW b \in Bridges, s.life[b] = "backlog",
         NEW t \in AcceptBridge(s, b)
  PROVE  /\ Serving(t, {}) /\ \A a \in Bridges : a # b => t.life[a] = s.life[a]
         /\ Untouched(s, t, {IntConn(b), ExtConn(b)})
<1>1. CASE NewFd(s) = 0
  BY <1>1 DEF AcceptBridge, Untouched
<1>2. CASE NewFd(s) # 0
  <2>. DEFINE r == [s EXCEPT !.life[b] = "live"]
              c == IntConn(b)
              e == ExtConn(b)
              int == Accepted(r, c)
  <2>0. /\ c \in Conns /\ e \in Conns /\ c # e /\ c[1] = b /\ e[1] = b
        /\ \A d \in Conns : d[1] \in Bridges /\ (d[1] = b => d = c \/ d = e)
    BY BridgeConns, ConnsOfBridge DEF IntConn, ExtConn
  <2>1. s \in Processes /\ \A d \in Conns : d[1] = b => s.conn[d].fd = 0
    BY DEF Serving, Sound, Owned
  <2>. HIDE DEF c, e
  <2>2. /\ r.conn = s.conn /\ r.poller = s.poller /\ r.sock = s.sock
        /\ r.life = [s.life EXCEPT ![b] = "live"] /\ r \in Processes
    BY <2>1 DEF Processes, Lives
  <2>. HIDE DEF r
  <2>3. \A a \in Bridges : r.life[a] = IF a = b THEN "live" ELSE s.life[a]
    BY <2>1, <2>2 DEF Processes
  <2>4. Serving(r, {})
    <3>1. \A d \in Conns : s.conn[d].fd # 0 => r.life[d[1]] \in {"live", "shut"}
      BY <2>0, <2>1, <2>3 DEF Serving, Sound, Owned
    <3>2. Owned(r)
      BY <2>2, <3>1 DEF Serving, Sound, Owned
    <3>. QED  BY <2>2, <3>2 DEF Serving, Sound, Named, FitBut
  <2>5. NewFd(r) # 0 /\ r.conn[c].fd = 0 /\ r.conn[e].fd = 0 /\ There(r, b)
    BY <1>2, <2>0, <2>1, <2>2, <2>3 DEF NewFd, There
  <2>6. Serving(int, {}) /\ int.life = r.life /\ Untouched(r, int, {c})
    BY <2>0, <2>4, <2>5, OpenServes, SMTT(30)
  <2>. HIDE DEF int
  <2>7. PICK u \in Connect(int, e) :
          t = IF u.conn[e].fd = 0 THEN [Close(u, c) EXCEPT !.life[b] = "gone"] ELSE u
    BY <1>2 DEF AcceptBridge, int, r, c, e
  <2>8. Serving(u, {}) /\ u.life = r.life /\ Untouched(s, u, {c, e})
    <3>1. int.conn[e].fd = 0 /\ There(int, e[1])
      BY <2>0, <2>5, <2>6 DEF There, Untouched
    <3>2. Serving(u, {}) /\ u.life = r.life /\ Untouched(int, u, {e})
      BY <2>0, <2>6, <3>1, ConnectServes
    <3>3. Untouched(s, int, {c})
      BY <2>2, <2>6 DEF Untouched
    <3>4. Untouched(s, u, {c, e})
      BY <3>2, <3>3, UntouchedAgain
    <3>. QED  BY <3>2, <3>4
  <2>9. CASE u.conn[e].fd # 0
    BY <2>3, <2>7, <2>8, <2>9 DEF c, e
  <2>10. CASE u.conn[e].fd = 0
    <3>. DEFINE v == Close(u, c)
    <3>1. /\ Serving(v, {} \ {c}) /\ v.conn = [u.conn EXCEPT ![c] = NoConn] /\ v.life = u.life
          /\ Untouched(u, v, {c})
      BY <2>0, <2>8, CloseServes
    <3>. HIDE DEF v
    <3>2. t = [v EXCEPT !.life[b] = "gone"]
      BY <2>7, <2>10 DEF v
    <3>3. v \in Processes /\ u \in Processes
      BY <2>8, <3>1 DEF Serving, Sound
    <3>4. /\ t.conn = v.conn /\ t.poller = v.poller /\ t.sock = v.sock
          /\ t.life = [v.life EXCEPT ![b] = "gone"] /\ t \in Processes
      BY <3>2, <3>3 DEF Processes, Lives
    <3>5. \A a \in Bridges : t.life[a] = IF a = b THEN "gone" ELSE v.life[a]
      BY <3>3, <3>4 DEF Processes
    <3>6. v.conn[c].fd = 0 /\ v.conn[e].fd = 0
      BY <2>0, <2>10, <3>1, <3>3, NoConnIsFree DEF Processes
    <3>7. \A d \in Conns : v.conn[d].fd # 0 => t.life[d[1]] \in {"live", "shut"}
      BY <2>0, <3>1, <3>5, <3>6 DEF Serving, Sound, Owned
    <3>8. Owned(t)
      BY <3>1, <3>4, <3>7 DEF Serving, Sound, Owned
    <3>9. Serving(t, {})
      BY <3>1, <3>4, <3>8, SMTT(30) DEF Serving, Sound, Named, FitBut
    <3>10. Untouched(s, t, {c, e})
      <4>1. Untouched(s, v, {c, e})
        BY <2>8, <3>1, UntouchedAgain
      <4>. QED  BY <3>4, <4>1 DEF Untouched
    <3>. QED  BY <2>3, <2>8, <3>1, <3>5, <3>9, <3>10 DEF c, e
  <2>. QED  BY <2>9, <2>10
<1>. QED  BY <1>1, <1>2

LEMMA BridgesFinite ==
  \A B \in SUBSET Bridges : IsFiniteSet(B) /\ Cardinality(B) \in Nat
<1>1. IsFiniteSet(Bridges)
  BY EventLoopAssumption, FS_Interval DEF Bridges
<1>. QED  BY <1>1, FS_Subset, FS_CardinalityType

\* Without one of its elements a set is smaller.
LEMMA OneLess ==
  ASSUME NEW B \in SUBSET Bridges, NEW x \in B
  PROVE  Cardinality(B \ {x}) = Cardinality(B) - 1 /\ Cardinality(B) # 0
<1>1. IsFiniteSet(B) /\ Cardinality(B) \in Nat
  BY BridgesFinite
<1>. QED  BY <1>1, FS_RemoveElement, FS_EmptySet

\* Listener::handleInputNotification: each bridge is accepted while it waits.
LEMMA AcceptAllServes ==
  ASSUME NEW s, Serving(s, {}), NEW t \in AcceptAll(s)
  PROVE  Serving(t, {}) /\ Spares(s, t)
<1>. DEFINE B == Backlog(s)
            Turn(g, T) == IF T = {} THEN {s}
                          ELSE UNION {AcceptBridge(r, Max(T)) : r \in g[T \ {Max(T)}]}
            IsTurns(g) == g = [T \in SUBSET B |-> Turn(g, T)]
            turns == CHOOSE g : IsTurns(g)
<1>0. B \in SUBSET Bridges /\ \A b \in B : s.life[b] = "backlog"
  BY DEF Backlog
<1>1. AcceptAll(s) = turns[B]
  BY DEF AcceptAll, MapThenFoldSet
<1>. HIDE DEF B
<1>2. \A T \in SUBSET B : /\ T \in SUBSET Bridges /\ Cardinality(T) \in Nat
                          /\ T # {} => Max(T) \in T /\ Cardinality(T \ {Max(T)}) = Cardinality(T) - 1
                          /\ Cardinality(T) = 0 => T = {}
  <2>1. ASSUME NEW T \in SUBSET B, T # {}
        PROVE  Max(T) \in T /\ Cardinality(T \ {Max(T)}) = Cardinality(T) - 1
    <3>0. MaxBridges \in Nat
      BY EventLoopAssumption
    <3>1. T \subseteq 0 .. MaxBridges /\ T \in SUBSET Bridges
      BY <1>0, <3>0 DEF Bridges
    <3>2. Max(T) \in T
      BY <2>1, <3>0, <3>1, Bounds
    <3>. QED  BY <3>1, <3>2, OneLess
  <2>. QED  BY <1>0, <2>1, BridgesFinite, FS_EmptySet
<1>3. \E g : IsTurns(g)
  <2>. DEFINE P == {n \in Nat : \E g : \A T \in SUBSET B :
                                  Cardinality(T) =< n => g[T] = Turn(g, T)}
  <2>1. 0 \in P
    <3>. DEFINE g == [T \in SUBSET B |-> {s}]
    <3>1. \A T \in SUBSET B : Cardinality(T) =< 0 => T = {}
      <4>1. \A n \in Nat : n =< 0 => n = 0
        OBVIOUS
      <4>. QED  BY <1>2, <4>1
    <3>2. g[{}] = Turn(g, {}) /\ {} \in SUBSET B
      OBVIOUS
    <3>. HIDE DEF g, Turn
    <3>. QED  BY <3>1, <3>2
  <2>2. ASSUME NEW n \in Nat, n \in P PROVE n + 1 \in P
    <3>1. PICK g : \A T \in SUBSET B : Cardinality(T) =< n => g[T] = Turn(g, T)
      BY <2>2
    <3>. DEFINE h == [T \in SUBSET B |-> Turn(g, T)]
    <3>2. ASSUME NEW T \in SUBSET B, Cardinality(T) =< n + 1
          PROVE  h[T] = Turn(h, T)
      <4>0. h[T] = Turn(g, T)
        OBVIOUS
      <4>1. CASE T = {}
        BY <4>0, <4>1
      <4>2. CASE T # {}
        <5>. DEFINE T1 == T \ {Max(T)}
        <5>1. T1 \in SUBSET B /\ Cardinality(T1) =< n
          BY <1>2, <3>2, <4>2
        <5>2. h[T1] = g[T1]
          <6>. HIDE DEF T1, Turn
          <6>. QED  BY <3>1, <5>1
        <5>. HIDE DEF h
        <5>. QED  BY <4>0, <4>2, <5>2
      <4>. QED  BY <4>1, <4>2
    <3>. HIDE DEF h, Turn
    <3>. QED  BY <3>2
  <2>3. Cardinality(B) \in Nat
    BY <1>2
  <2>4. Cardinality(B) \in P
    <3>. HIDE DEF P
    <3>. QED  BY <2>1, <2>2, <2>3, Induction
  <2>5. PICK g : \A T \in SUBSET B : Cardinality(T) =< Cardinality(B) => g[T] = Turn(g, T)
    BY <2>4
  <2>6. \A T \in SUBSET B : g[T] = Turn(g, T)
    <3>1. \A T \in SUBSET B : Cardinality(T) =< Cardinality(B)
      BY <1>0, BridgesFinite, FS_Subset
    <3>. HIDE DEF Turn
    <3>. QED  BY <2>5, <3>1
  <2>. DEFINE h == [T \in SUBSET B |-> g[T]]
  <2>7. ASSUME NEW T \in SUBSET B PROVE h[T] = Turn(h, T)
    <3>1. h[T] = Turn(g, T) /\ \A R \in SUBSET B : h[R] = g[R]
      <4>. HIDE DEF Turn
      <4>. QED  BY <2>6
    <3>2. T \ {Max(T)} \in SUBSET B
      OBVIOUS
    <3>. HIDE DEF h
    <3>. QED  BY <3>1, <3>2
  <2>8. h = [T \in SUBSET B |-> h[T]]
    OBVIOUS
  <2>. HIDE DEF h, Turn
  <2>. QED  BY <2>7, <2>8
<1>4. IsTurns(turns)
  <2>. HIDE DEF IsTurns
  <2>. QED  BY <1>3
<1>. HIDE DEF turns
<1>5. \A T \in SUBSET B : turns[T] = Turn(turns, T)
  <2>. HIDE DEF Turn
  <2>. QED  BY <1>4
<1>. DEFINE Q == {n \in Nat : \A T \in SUBSET B : Cardinality(T) = n =>
                    \A r \in turns[T] :
                      /\ Serving(r, {}) /\ Spares(s, r)
                      /\ \A b \in B \ T : r.life[b] = "backlog"}
<1>6. 0 \in Q
  <2>1. Spares(s, s)
    BY DEF Spares, Spared
  <2>. QED  BY <1>0, <1>2, <1>5, <2>1, ZenonT(60)
<1>7. ASSUME NEW n \in Nat, n \in Q PROVE n + 1 \in Q
  <2>1. ASSUME NEW T \in SUBSET B, Cardinality(T) = n + 1, NEW r \in turns[T]
        PROVE  /\ Serving(r, {}) /\ Spares(s, r)
               /\ \A b \in B \ T : r.life[b] = "backlog"
    <3>. DEFINE x == Max(T)
    <3>0. T # {}
      BY <2>1, FS_EmptySet
    <3>1. x \in T /\ x \in Bridges /\ T \ {x} \in SUBSET B /\ Cardinality(T \ {x}) = n
      BY <1>0, <1>2, <2>1, <3>0
    <3>2. turns[T] = UNION {AcceptBridge(q, x) : q \in turns[T \ {x}]}
      BY <1>5, <3>0
    <3>3. PICK q \in turns[T \ {x}] : r \in AcceptBridge(q, x)
      <4>. HIDE DEF x
      <4>. QED  BY <2>1, <3>2
    <3>. HIDE DEF x
    <3>4. /\ Serving(q, {}) /\ Spares(s, q)
          /\ \A b \in B \ (T \ {x}) : q.life[b] = "backlog"
      BY <1>7, <3>1, <3>3
    <3>5. /\ Serving(r, {}) /\ \A a \in Bridges : a # x => r.life[a] = q.life[a]
          /\ Untouched(q, r, {IntConn(x), ExtConn(x)})
      BY <3>1, <3>3, <3>4, AcceptBridgeServes
    <3>6. Spares(q, r)
      <4>1. q.life[x] = "backlog"
        BY <3>1, <3>4
      <4>2. \A a \in Bridges : a # x => IntConn(a) \notin {IntConn(x), ExtConn(x)}
        BY DEF IntConn, ExtConn
      <4>. QED  BY <3>5, <4>1, <4>2, UntouchedSpares
    <3>7. Spares(s, r)
      BY <3>4, <3>6, SparesAgain
    <3>. QED  BY <1>0, <3>1, <3>4, <3>5, <3>7
  <2>. QED  BY <2>1
<1>8. Cardinality(B) \in Q
  <2>. HIDE DEF Q
  <2>1. Cardinality(B) \in Nat
    BY <1>2
  <2>. QED  BY <1>6, <1>7, <2>1, Induction
<1>. QED  BY <1>1, <1>8

-----------------------------------------------------------------------------
(* Client::update and Client::finalise delete bridges.                     *)

\* The bridge's descriptors are closed, and nobody else's.
LEMMA DestroyWorks ==
  ASSUME NEW s, Sound(s), FitBut(s, {}), NEW b \in Bridges, NEW t, t = Destroy(s, b)
  PROVE  /\ Sound(t) /\ FitBut(t, {}) /\ t.sock[ListenFd] = s.sock[ListenFd]
         /\ \A c \in Conns : c[1] = b \/ s.conn[c].fd = 0 => t.conn[c].fd = 0
<1>. DEFINE c == IntConn(b)
            e == ExtConn(b)
            u == Close(s, c)
            v == Close(u, e)
<1>0. /\ c \in Conns /\ e \in Conns /\ c # e /\ c[1] = b /\ e[1] = b
      /\ \A d \in Conns : d[1] \in Bridges /\ (d[1] = b => d = c \/ d = e)
  BY BridgeConns, ConnsOfBridge DEF IntConn, ExtConn
<1>. HIDE DEF c, e
<1>1. /\ Sound(u) /\ u.conn = [s.conn EXCEPT ![c] = NoConn] /\ u.life = s.life
      /\ u.sock[ListenFd] = s.sock[ListenFd]
  BY <1>0, CloseWorks
<1>. HIDE DEF u
<1>2. /\ Sound(v) /\ v.conn = [u.conn EXCEPT ![e] = NoConn] /\ v.life = u.life
      /\ v.sock[ListenFd] = u.sock[ListenFd]
  BY <1>0, <1>1, CloseWorks
<1>. HIDE DEF v
<1>3. \A d \in Conns : v.conn[d] = IF d = c \/ d = e THEN NoConn ELSE s.conn[d]
  BY <1>0, <1>1, <1>2 DEF Sound, Processes
<1>4. t = [v EXCEPT !.life[b] = "gone"]
  BY DEF Destroy, v, u, c, e
<1>5. v \in Processes
  BY <1>2 DEF Sound
<1>6. /\ t.conn = v.conn /\ t.poller = v.poller /\ t.sock = v.sock
      /\ t.life = [v.life EXCEPT ![b] = "gone"] /\ t \in Processes
  BY <1>4, <1>5 DEF Processes, Lives
<1>7. \A a \in Bridges : t.life[a] = IF a = b THEN "gone" ELSE v.life[a]
  BY <1>5, <1>6 DEF Processes
<1>8. \A d \in Conns : v.conn[d].fd # 0 => t.life[d[1]] \in {"live", "shut"}
  BY <1>0, <1>2, <1>3, <1>7, NoConnIsFree DEF Sound, Owned
<1>9. Owned(t)
  BY <1>2, <1>6, <1>8 DEF Sound, Owned
<1>10. Sound(t)
  BY <1>2, <1>6, <1>9, SMTT(90) DEF Sound, Named
<1>11. FitBut(t, {})
  BY <1>3, <1>6, NoConnIsFree DEF FitBut
<1>12. \A d \in Conns : d[1] = b \/ s.conn[d].fd = 0 => t.conn[d].fd = 0
  BY <1>0, <1>3, <1>6, NoConnIsFree
<1>. QED  BY <1>1, <1>2, <1>6, <1>10, <1>11, <1>12

\* So are those of all the bridges.
LEMMA DestroyAllWorks ==
  ASSUME NEW s, Sound(s), FitBut(s, {}), NEW B \in SUBSET Bridges, NEW t, t = DestroyAll(s, B)
  PROVE  /\ Sound(t) /\ FitBut(t, {}) /\ t.sock[ListenFd] = s.sock[ListenFd]
         /\ \A c \in Conns : c[1] \in B \/ s.conn[c].fd = 0 => t.conn[c].fd = 0
<1>. DEFINE Pick(T) == CHOOSE x \in T : TRUE
            Turn(g, T) == IF T = {} THEN s ELSE Destroy(g[T \ {Pick(T)}], Pick(T))
            IsTurns(g) == g = [T \in SUBSET B |-> Turn(g, T)]
            turns == CHOOSE g : IsTurns(g)
<1>1. DestroyAll(s, B) = turns[B]
  BY DEF DestroyAll, FoldSet, MapThenFoldSet
<1>2. \A T \in SUBSET B : /\ T \in SUBSET Bridges /\ Cardinality(T) \in Nat
                          /\ T # {} => Pick(T) \in T /\ Cardinality(T \ {Pick(T)}) = Cardinality(T) - 1
                          /\ Cardinality(T) = 0 => T = {}
  <2>1. ASSUME NEW T \in SUBSET B, T # {}
        PROVE  Pick(T) \in T /\ Cardinality(T \ {Pick(T)}) = Cardinality(T) - 1
    <3>1. T \in SUBSET Bridges
      OBVIOUS
    <3>2. Pick(T) \in T
      BY <2>1
    <3>. QED  BY <3>1, <3>2, OneLess
  <2>. QED  BY <2>1, BridgesFinite, FS_EmptySet
<1>. HIDE DEF Pick
<1>3. \E g : IsTurns(g)
  <2>. DEFINE P == {n \in Nat : \E g : \A T \in SUBSET B :
                                  Cardinality(T) =< n => g[T] = Turn(g, T)}
  <2>1. 0 \in P
    <3>. DEFINE g == [T \in SUBSET B |-> s]
    <3>1. \A T \in SUBSET B : Cardinality(T) =< 0 => T = {}
      <4>1. \A n \in Nat : n =< 0 => n = 0
        OBVIOUS
      <4>. QED  BY <1>2, <4>1
    <3>2. g[{}] = Turn(g, {}) /\ {} \in SUBSET B
      OBVIOUS
    <3>. HIDE DEF g, Turn
    <3>. QED  BY <3>1, <3>2
  <2>2. ASSUME NEW n \in Nat, n \in P PROVE n + 1 \in P
    <3>1. PICK g : \A T \in SUBSET B : Cardinality(T) =< n => g[T] = Turn(g, T)
      BY <2>2
    <3>. DEFINE h == [T \in SUBSET B |-> Turn(g, T)]
    <3>2. ASSUME NEW T \in SUBSET B, Cardinality(T) =< n + 1
          PROVE  h[T] = Turn(h, T)
      <4>0. h[T] = Turn(g, T)
        OBVIOUS
      <4>1. CASE T = {}
        BY <4>0, <4>1
      <4>2. CASE T # {}
        <5>. DEFINE T1 == T \ {Pick(T)}
        <5>1. T1 \in SUBSET B /\ Cardinality(T1) =< n
          BY <1>2, <3>2, <4>2
        <5>2. h[T1] = g[T1]
          <6>. HIDE DEF T1, Turn
          <6>. QED  BY <3>1, <5>1
        <5>. HIDE DEF h
        <5>. QED  BY <4>0, <4>2, <5>2
      <4>. QED  BY <4>1, <4>2
    <3>. HIDE DEF h, Turn
    <3>. QED  BY <3>2
  <2>3. Cardinality(B) \in Nat
    BY <1>2
  <2>4. Cardinality(B) \in P
    <3>. HIDE DEF P
    <3>. QED  BY <2>1, <2>2, <2>3, Induction
  <2>5. PICK g : \A T \in SUBSET B : Cardinality(T) =< Cardinality(B) => g[T] = Turn(g, T)
    BY <2>4
  <2>6. \A T \in SUBSET B : g[T] = Turn(g, T)
    <3>1. \A T \in SUBSET B : Cardinality(T) =< Cardinality(B)
      BY BridgesFinite, FS_Subset
    <3>. HIDE DEF Turn
    <3>. QED  BY <2>5, <3>1
  <2>. DEFINE h == [T \in SUBSET B |-> g[T]]
  <2>7. ASSUME NEW T \in SUBSET B PROVE h[T] = Turn(h, T)
    <3>1. h[T] = Turn(g, T) /\ \A R \in SUBSET B : h[R] = g[R]
      <4>. HIDE DEF Turn
      <4>. QED  BY <2>6
    <3>2. T \ {Pick(T)} \in SUBSET B
      OBVIOUS
    <3>. HIDE DEF h
    <3>. QED  BY <3>1, <3>2
  <2>8. h = [T \in SUBSET B |-> h[T]]
    OBVIOUS
  <2>. HIDE DEF h, Turn
  <2>. QED  BY <2>7, <2>8
<1>4. IsTurns(turns)
  <2>. HIDE DEF IsTurns
  <2>. QED  BY <1>3
<1>. HIDE DEF turns
<1>5. \A T \in SUBSET B : turns[T] = Turn(turns, T)
  <2>. HIDE DEF Turn
  <2>. QED  BY <1>4
<1>. DEFINE Destroyed(T, r) ==
              /\ Sound(r) /\ FitBut(r, {}) /\ r.sock[ListenFd] = s.sock[ListenFd]
              /\ \A c \in Conns : c[1] \in T \/ s.conn[c].fd = 0 => r.conn[c].fd = 0
            Q == {n \in Nat : \A T \in SUBSET B : Cardinality(T) = n => Destroyed(T, turns[T])}
<1>6. 0 \in Q
  <2>1. turns[{}] = s
    BY <1>5
  <2>2. Destroyed({}, s)
    OBVIOUS
  <2>. HIDE DEF Destroyed
  <2>. QED  BY <1>2, <2>1, <2>2
<1>7. ASSUME NEW n \in Nat, n \in Q PROVE n + 1 \in Q
  <2>1. ASSUME NEW T \in SUBSET B, Cardinality(T) = n + 1
        PROVE  Destroyed(T, turns[T])
    <3>. DEFINE x == Pick(T)
                q == turns[T \ {x}]
    <3>0. T # {}
      BY <2>1, FS_EmptySet
    <3>1. x \in T /\ x \in Bridges /\ T \ {x} \in SUBSET B /\ Cardinality(T \ {x}) = n
      BY <1>2, <2>1, <3>0
    <3>2. turns[T] = Destroy(q, x)
      BY <1>5, <3>0
    <3>3. Destroyed(T \ {x}, q)
      <4>. HIDE DEF Destroyed, x
      <4>. QED  BY <1>7, <3>1
    <3>. HIDE DEF x, q
    <3>4. LET r == turns[T] IN
          /\ Sound(r) /\ FitBut(r, {}) /\ r.sock[ListenFd] = q.sock[ListenFd]
          /\ \A c \in Conns : c[1] = x \/ q.conn[c].fd = 0 => r.conn[c].fd = 0
      BY <3>1, <3>2, <3>3, DestroyWorks
    <3>. QED  BY <3>3, <3>4
  <2>. HIDE DEF Destroyed
  <2>. QED  BY <2>1
<1>8. Cardinality(B) \in Q
  <2>. HIDE DEF Q
  <2>1. Cardinality(B) \in Nat
    BY <1>2
  <2>. QED  BY <1>6, <1>7, <2>1, Induction
<1>9. Destroyed(B, turns[B])
  <2>. HIDE DEF Destroyed
  <2>. QED  BY <1>8
<1>. QED  BY <1>1, <1>9

-----------------------------------------------------------------------------
(* Events.                                                                 *)

LEMMA TriggerReadServes ==
  ASSUME NEW s, Serving(s, {}), NEW fd \in Fds, NEW t \in TriggerRead(s, fd)
  PROVE  Serving(t, {}) /\ Spares(s, t)
<1>. DEFINE h == s.poller.handler["rd"][fd]
<1>1. h \in Handlers
  BY DEF Serving, Sound, Processes, PollerType, Ways
<1>2. CASE h = None
  BY <1>2 DEF TriggerRead, Spares, Spared
<1>3. CASE h # None /\ h = Listener
  BY <1>3, AcceptAllServes DEF TriggerRead
<1>4. CASE h # None /\ h # Listener
  BY <1>1, <1>4, InputServes DEF TriggerRead, Handlers
<1>. QED  BY <1>2, <1>3, <1>4

LEMMA TriggerWriteServes ==
  ASSUME NEW s, Serving(s, {}), NEW fd \in Fds, NEW t \in TriggerWrite(s, fd)
  PROVE  Serving(t, {}) /\ Spares(s, t)
<1>. DEFINE h == s.poller.handler["wr"][fd]
<1>1. h \in Handlers /\ h # Listener
  BY DEF Serving, Sound, Named, Processes, PollerType, Ways
<1>2. CASE h = None
  BY <1>2 DEF TriggerWrite, Spares, Spared
<1>3. CASE h # None
  <2>1. h \in Conns /\ "wr" \in s.conn[h].reg
    BY <1>1, <1>3 DEF Handlers, Serving, Sound, Named, Ways
  <2>. QED  BY <1>3, <2>1, OutputServes DEF TriggerWrite
<1>. QED  BY <1>2, <1>3

\* An event is served whoever has its descriptor by then.
LEMMA ServeServes ==
  ASSUME NEW s, Serving(s, {}), NEW e \in Event, NEW t \in Serve(s, e)
  PROVE  Serving(t, {}) /\ Spares(s, t)
<1>. DEFINE read == IF "rd" \in e.parts THEN TriggerRead(s, e.fd) ELSE {s}
<1>0. e.fd \in Fds
  BY DEF Event
<1>1. \A r \in read : Serving(r, {}) /\ Spares(s, r)
  BY <1>0, TriggerReadServes DEF Spares, Spared
<1>. HIDE DEF read
<1>2. CASE "err" \in e.parts
  <2>1. t \in TriggerRead(s, e.fd) \/ t \in TriggerWrite(s, e.fd)
    BY <1>2 DEF Serve, TriggerError
  <2>. QED  BY <1>0, <2>1, TriggerReadServes, TriggerWriteServes
<1>3. CASE "err" \notin e.parts /\ "wr" \in e.parts
  <2>1. PICK r \in read : t \in IF r.up THEN TriggerWrite(r, e.fd) ELSE {r}
    BY <1>3 DEF Serve, read
  <2>2. Serving(r, {}) /\ Spares(s, r) /\ Serving(t, {}) /\ (t = r \/ Spares(r, t))
    BY <1>0, <1>1, <2>1, TriggerWriteServes
  <2>. QED  BY <2>2, SparesAgain
<1>4. CASE "err" \notin e.parts /\ "wr" \notin e.parts
  BY <1>1, <1>4 DEF Serve, read
<1>. QED  BY <1>2, <1>3, <1>4

-----------------------------------------------------------------------------
(* The steps of the loop and of the peers.                                 *)

LEMMA ProcessFields ==
  /\ Process.poller = poller /\ Process.sock = sock /\ Process.unread = unread
  /\ Process.conn = conn /\ Process.life = life /\ Process.due = due /\ Process.up = TRUE
BY DEF Process

\* A process that a handler leaves is the next.
LEMMA BecomesSound ==
  ASSUME NEW s, Sound(s), FitBut(s, {}), Becomes(s)
  PROVE  (Sound(Process) /\ FitBut(Process, {}))'
<1>1. s \in Processes
  BY DEF Sound
<1>2. Process' = [poller |-> s.poller, sock |-> s.sock, unread |-> s.unread, conn |-> s.conn,
                  life |-> s.life, due |-> s.due, up |-> TRUE]
  BY DEF Process, Becomes
<1>. DEFINE t == Process'
<1>. HIDE DEF t
<1>3. /\ t.poller = s.poller /\ t.sock = s.sock /\ t.conn = s.conn /\ t.life = s.life
      /\ t \in Processes
  BY <1>1, <1>2 DEF Processes, t
<1>4. Sound(t) /\ FitBut(t, {})
  BY <1>3 DEF Sound, Owned, Named, FitBut
<1>. QED  BY <1>4 DEF t, Sound, Owned, Named, FitBut

\* What the peers and the clock do concerns neither the pollers nor the connections.
LEMMA OutsideSound ==
  ASSUME Sound(Process), FitBut(Process, {}), UNCHANGED <<poller, conn>>,
         sock' \in [Fds -> Sockets], unread' \in SUBSET Fds, life' \in [Bridges -> Lives],
         due' \in SUBSET Bridges,
         \A fd \in Fds : \/ sock'[fd] = sock[fd]
                         \/ {sock[fd], sock'[fd]} \cap {"free", "listen"} = {},
         \A b \in Bridges : life[b] \in {"live", "shut"} => life'[b] \in {"live", "shut"}
  PROVE  (Sound(Process) /\ FitBut(Process, {}))' /\ sock'[ListenFd] = sock[ListenFd]
<1>. DEFINE t == Process'
            s == Process
<1>1. t = [poller |-> poller, sock |-> sock', unread |-> unread', conn |-> conn,
           life |-> life', due |-> due', up |-> TRUE]
  BY DEF Process
<1>2. /\ s.poller = poller /\ s.sock = sock /\ s.conn = conn /\ s.life = life /\ s \in Processes
  BY ProcessFields DEF Sound
<1>. HIDE DEF t, s
<1>3. /\ t.poller = poller /\ t.sock = sock' /\ t.conn = conn /\ t.life = life' /\ t \in Processes
  BY <1>1, <1>2 DEF Processes
<1>4. \A fd \in Fds : /\ sock[fd] \in {"free", "listen"} => sock'[fd] = sock[fd]
                      /\ sock'[fd] \in {"free", "listen"} => sock'[fd] = sock[fd]
  OBVIOUS
<1>5. ListenFd \in Fds /\ sock'[ListenFd] = sock[ListenFd]
  BY <1>2, <1>4, EventLoopAssumption DEF Sound, Owned, s
<1>6. Owned(t)
  <2>1. Owned(s)
    BY DEF Sound, s
  <2>2. \A c \in Conns : c[1] \in Bridges /\ conn[c].fd \in {0} \cup Fds
    BY <1>2, ConnsOfBridge DEF Processes, Connection
  <2>. QED  BY <1>2, <1>3, <1>4, <1>5, <2>1, <2>2 DEF Owned
<1>7. Named(t) /\ PollerOK(t.poller) /\ FitBut(t, {})
  <2>1. Named(s) /\ PollerOK(s.poller) /\ FitBut(s, {})
    BY DEF Sound, s
  <2>. QED  BY <1>2, <1>3, <1>5, <2>1 DEF Named, FitBut
<1>8. Sound(t) /\ FitBut(t, {})
  BY <1>3, <1>6, <1>7 DEF Sound
<1>. QED  BY <1>5, <1>8 DEF t, Sound, Owned, Named, FitBut

\* A new poller, whichever it is, takes the listener.
LEMMA NewPollerOK ==
  ASSUME NEW k \in {"epoll", "select"}, NEW p, p = Register(NewPoller(k), "rd", ListenFd, Listener)
  PROVE  /\ PollerOK(p)
         /\ \A w \in Ways, fd \in Fds :
              p.handler[w][fd] = IF w = "rd" /\ fd = ListenFd THEN Listener ELSE None
<1>. DEFINE n == NewPoller(k)
<1>0. ListenFd \in Fds /\ "rd" \in Ways /\ None # Listener
  BY EventLoopAssumption DEF Ways
<1>1. /\ n.kind = k /\ n.handler = [w \in Ways |-> [fd \in Fds |-> None]]
      /\ n.watch = [w \in Ways |-> {}] /\ n.maxFd = 0 /\ n.writes = 0 /\ n \in PollerType
  BY DEF NewPoller, PollerType, Handlers
<1>. HIDE DEF n
<1>2. \A w \in Ways : Handled(n, w) = {} /\ n.watch[w] = {}
  BY <1>1 DEF Handled
<1>3. RecalcMaxFD(n) = 0
  BY <1>2, RecalcIsGreatest DEF Ways
<1>4. n.writes = Cardinality(n.watch["wr"])
  BY <1>1, <1>2, FS_EmptySet DEF Ways
<1>5. PollerOK(n)
  BY <1>1, <1>2, <1>3, <1>4 DEF PollerOK, Consistent
<1>6. CanHold(n, ListenFd)
  BY EventLoopAssumption DEF CanHold
<1>7. /\ PollerOK(p) /\ p.handler = [n.handler EXCEPT !["rd"][ListenFd] = Listener]
  <2>1. n.handler["rd"][ListenFd] = None /\ Listener \in Handlers
    BY <1>0, <1>1 DEF Handlers
  <2>. QED  BY <1>0, <1>5, <1>6, <2>1, RegisterWorks DEF n
<1>. QED  BY <1>0, <1>1, <1>7

LEMMA InitLoopInv == Init => LoopInv
<1>. SUFFICES ASSUME Init PROVE LoopInv
  OBVIOUS
<1>1. PICK k \in {"epoll", "select"} : poller = Register(NewPoller(k), "rd", ListenFd, Listener)
  BY DEF Init
<1>2. /\ PollerOK(poller)
      /\ \A w \in Ways, fd \in Fds :
           poller.handler[w][fd] = IF w = "rd" /\ fd = ListenFd THEN Listener ELSE None
  BY <1>1, NewPollerOK
<1>3. /\ ListenFd \in Fds /\ MaxTroubles \in Nat
      /\ \A c \in Conns : c # None /\ c # Listener /\ conn[c] = NoConn
      /\ sock[ListenFd] = "listen" /\ \A fd \in Fds : fd # ListenFd => sock[fd] = "free"
  BY EventLoopAssumption DEF Init, Conns, Listener
<1>4. Process \in Processes
  BY <1>2, NoConnIsFree DEF Init, Process, Processes, PollerOK, Sockets, Lives
<1>5. Owned(Process)
  BY <1>3, NoConnIsFree, ProcessFields DEF Owned
<1>6. Named(Process)
  BY <1>2, <1>3, NoConnIsFree, ProcessFields, EventLoopAssumption DEF Named
<1>7. FitBut(Process, {})
  BY <1>3, NoConnIsFree, ProcessFields DEF FitBut
<1>. QED  BY <1>2, <1>3, <1>4, <1>5, <1>6, <1>7, ProcessFields DEF LoopInv, Sound, Init

\* A step of a handler that is called while the listener is open.
LEMMA HandlerKeepsInv ==
  ASSUME LoopInv, NEW s, Serving(s, {}), Becomes(s), batch' \subseteq Event,
         at' \in {"poll", "dispatch", "crashed"}
  PROVE  LoopInv'
<1>1. (Sound(Process) /\ FitBut(Process, {}))'
  BY BecomesSound DEF Serving
<1>2. sock'[ListenFd] = "listen" /\ troubles' \in 0 .. MaxTroubles
  BY DEF Becomes, Serving, LoopInv
<1>. QED  BY <1>1, <1>2 DEF LoopInv

LEMMA ProcessServes ==
  ASSUME LoopInv, at \in {"poll", "dispatch"}
  PROVE  Serving(Process, {})
BY ProcessFields DEF LoopInv, Serving

LEMMA PollKeepsInv == ASSUME LoopInv, Poll PROVE LoopInv'
<1>1. (Sound(Process) /\ FitBut(Process, {}))'
  <2>1. Process' = Process
    BY DEF Poll, Process
  <2>. QED  BY <2>1 DEF LoopInv, Sound, Owned, Named, FitBut
<1>2. \A fd \in Fds : Ready(fd) \subseteq {"rd", "wr", "err"}
  BY DEF Ready, Ways
<1>3. batch' \subseteq Event
  BY <1>2 DEF Poll, Event
<1>. QED  BY <1>1, <1>3 DEF LoopInv, Poll

LEMMA DispatchKeepsInv == ASSUME LoopInv, NEW e \in batch, Dispatch(e) PROVE LoopInv'
<1>1. PICK s \in IF poller.kind = "select" /\ e.fd > poller.maxFd
                 THEN {Process} ELSE Serve(Process, e) :
        Becomes(s) /\ at' = IF s.up THEN at ELSE "crashed"
  BY DEF Dispatch
<1>2. Serving(Process, {}) /\ e \in Event
  BY ProcessServes DEF Dispatch, LoopInv
<1>3. Serving(s, {})
  BY <1>2, ServeServes
<1>4. batch' \subseteq Event /\ at' \in {"poll", "dispatch", "crashed"}
  BY <1>1 DEF Dispatch, LoopInv
<1>. QED  BY <1>1, <1>3, <1>4, HandlerKeepsInv

LEMMA TunnelDataKeepsInv ==
  ASSUME LoopInv, NEW b \in Bridges, TunnelData(b)
  PROVE  LoopInv'
<1>1. PICK s \in Sent(Process, IntConn(b)) : Becomes(s)
  BY DEF TunnelData
<1>2. Serving(Process, {}) /\ IntConn(b) \in Conns
  BY ProcessServes, BridgeConns DEF TunnelData
<1>3. Serving(s, {})
  BY <1>2, SentServes, ProcessFields DEF TunnelData
<1>4. batch' \subseteq Event /\ at' \in {"poll", "dispatch", "crashed"}
  BY DEF TunnelData, LoopInv
<1>. QED  BY <1>1, <1>3, <1>4, HandlerKeepsInv

LEMMA UpdateKeepsInv == ASSUME LoopInv, Update PROVE LoopInv'
<1>. DEFINE s == DestroyAll(Process, Shut)
<1>1. Serving(Process, {}) /\ Shut \in SUBSET Bridges
  BY ProcessServes DEF Update, Shut
<1>2. Serving(s, {})
  <2>1. Sound(s) /\ FitBut(s, {}) /\ s.sock[ListenFd] = Process.sock[ListenFd]
    BY <1>1, DestroyAllWorks DEF Serving
  <2>. QED  BY <1>1, <2>1 DEF Serving
<1>. HIDE DEF s
<1>3. Becomes(s) /\ batch' \subseteq Event /\ at' \in {"poll", "dispatch", "crashed"}
  BY DEF Update, LoopInv, s
<1>. QED  BY <1>2, <1>3, HandlerKeepsInv

\* Client::finalise closes the listener first, then what all bridges have.
LEMMA FinaliseKeepsInv == ASSUME LoopInv, Finalise PROVE LoopInv'
<1>. DEFINE q == Deregister(poller, "rd", ListenFd)
            r == [Process EXCEPT !.poller = q]
            s == CloseFd([Process EXCEPT !.poller = Deregister(@, "rd", ListenFd)], ListenFd)
            B == Shut \cup {b \in Bridges : life[b] = "live"}
            t == DestroyAll(s, B)
            K == [sock EXCEPT ![ListenFd] = "free"]
<1>0. /\ Process \in Processes /\ Sound(Process) /\ FitBut(Process, {}) /\ ListenFd \in Fds
      /\ "rd" \in Ways /\ None \notin Conns \cup {Listener} /\ sock[ListenFd] = "listen"
      /\ sock \in [Fds -> Sockets]
  BY ProcessFields, EventLoopAssumption DEF LoopInv, Finalise, Sound, Ways, Processes
<1>1. \A c \in Conns : conn[c].fd # ListenFd
  <2>1. Owned(Process) /\ ListenFd # 0
    BY <1>0 DEF Sound, ListenFd
  <2>. QED  BY <1>0, <2>1, ProcessFields DEF Owned
<1>2. /\ PollerOK(q) /\ q.kind = poller.kind
      /\ q.handler = [poller.handler EXCEPT !["rd"][ListenFd] = None]
  BY <1>0, DeregisterWorks, ProcessFields DEF Sound
<1>3. \A w \in Ways, fd \in Fds :
        q.handler[w][fd] = IF w = "rd" /\ fd = ListenFd THEN None ELSE poller.handler[w][fd]
  BY <1>0, <1>2, ProcessFields DEF Processes, PollerType
<1>4. \A w \in Ways : q.handler[w][ListenFd] = None
  <2>1. poller.handler["wr"][ListenFd] \in Handlers /\ "wr" \in Ways
    BY <1>0, ProcessFields DEF Processes, PollerType, Ways
  <2>2. poller.handler["wr"][ListenFd] # Listener
    BY <1>0, <2>1, ProcessFields DEF Sound, Named
  <2>3. \A c \in Conns : poller.handler["wr"][ListenFd] # c
    BY <1>0, <1>1, <2>1, ProcessFields DEF Sound, Named
  <2>4. poller.handler["wr"][ListenFd] = None
    BY <2>1, <2>2, <2>3 DEF Handlers
  <2>. QED  BY <1>0, <1>3, <2>4 DEF Ways
<1>5. Forget(q, ListenFd) = q
  BY <1>0, <1>2, <1>4, ForgetWorks
<1>. HIDE DEF q
<1>6. /\ r.poller = q /\ r.sock = sock /\ r.unread = unread /\ r.conn = conn /\ r.life = life
      /\ r.due = due /\ r.up = TRUE /\ r \in Processes
  BY <1>0, <1>2, ProcessFields DEF Processes, PollerOK
<1>7. s = CloseFd(r, ListenFd)
  BY ProcessFields DEF q
<1>. HIDE DEF r, s
<1>8. s = [r EXCEPT !.sock[ListenFd] = "free", !.unread = @ \ {ListenFd}, !.poller = q]
  BY <1>5, <1>6, <1>7 DEF CloseFd
<1>9. /\ s.poller = q /\ s.sock = K /\ s.conn = conn /\ s.life = life /\ s \in Processes
  <2>1. K \in [Fds -> Sockets]
    BY <1>0 DEF Sockets
  <2>2. s = [poller |-> q, sock |-> K, unread |-> unread \ {ListenFd}, conn |-> conn,
             life |-> life, due |-> due, up |-> TRUE]
    BY <1>6, <1>8 DEF Processes
  <2>. HIDE DEF K
  <2>. QED  BY <1>0, <1>2, <2>1, <2>2, ProcessFields DEF Processes, PollerOK
<1>10. \A fd \in Fds : K[fd] = IF fd = ListenFd THEN "free" ELSE sock[fd]
  BY <1>0
<1>. HIDE DEF K
<1>11. Owned(s)
  <2>1. \A c \in Conns : conn[c].fd \in {0} \cup Fds
    BY <1>0, ProcessFields DEF Processes, Connection
  <2>2. Owned(Process)
    BY <1>0 DEF Sound
  <2>. QED  BY <1>0, <1>9, <1>10, <1>1, <2>1, <2>2, ProcessFields DEF Owned
<1>12. Named(s)
  <2>0. Named(Process)
    BY <1>0 DEF Sound
  <2>1. ASSUME NEW w \in Ways, NEW fd \in Fds, NEW c \in Conns, q.handler[w][fd] = c
        PROVE  conn[c].fd = fd /\ w \in conn[c].reg
    BY <1>0, <1>3, <2>0, <2>1, ProcessFields DEF Named
  <2>2. ASSUME NEW w \in Ways, NEW c \in Conns, conn[c].fd # 0, CanHold(q, conn[c].fd),
               w \in conn[c].reg
        PROVE  q.handler[w][conn[c].fd] = c
    <3>1. conn[c].fd \in Fds /\ conn[c].fd # ListenFd
      BY <1>0, <1>1, <2>2, ProcessFields DEF Processes, Connection
    <3>. QED  BY <1>2, <1>3, <2>0, <2>2, <3>1, ProcessFields DEF Named, CanHold
  <2>3. ASSUME NEW w \in Ways, NEW fd \in Fds, q.handler[w][fd] = Listener PROVE FALSE
    BY <1>0, <1>3, <2>0, <2>3, ProcessFields DEF Named
  <2>. QED  BY <1>9, <2>1, <2>2, <2>3 DEF Named
<1>13. Sound(s) /\ FitBut(s, {})
  BY <1>0, <1>2, <1>9, <1>11, <1>12, ProcessFields DEF Sound, FitBut
<1>14. B \in SUBSET Bridges
  BY DEF Shut
<1>15. /\ Sound(t) /\ FitBut(t, {}) /\ t.sock[ListenFd] = "free"
       /\ \A c \in Conns : c[1] \in B \/ conn[c].fd = 0 => t.conn[c].fd = 0
  BY <1>0, <1>9, <1>10, <1>13, <1>14, DestroyAllWorks
<1>16. \A c \in Conns : c[1] \in B \/ conn[c].fd = 0
  BY <1>0, ConnsOfBridge, ProcessFields DEF Sound, Owned, Shut
<1>17. Becomes(t)
  BY DEF Finalise, s
<1>. HIDE DEF t, B
<1>18. (Sound(Process) /\ FitBut(Process, {}))'
  BY <1>15, <1>17, BecomesSound
<1>19. sock'[ListenFd] = "free" /\ \A c \in Conns : conn'[c].fd = 0
  BY <1>15, <1>16, <1>17 DEF Becomes
<1>. QED  BY <1>17, <1>18, <1>19 DEF LoopInv, Finalise, Becomes

LEMMA PeersKeepInv == ASSUME LoopInv, at \in {"poll", "dispatch"}, Peers PROVE LoopInv'
<1>. DEFINE Alike == \A fd \in Fds : \/ sock'[fd] = sock[fd]
                                     \/ {sock[fd], sock'[fd]} \cap {"free", "listen"} = {}
            Stay == \A b \in Bridges : life[b] \in {"live", "shut"} => life'[b] \in {"live", "shut"}
            Typed == /\ sock' \in [Fds -> Sockets] /\ unread' \in SUBSET Fds
                     /\ life' \in [Bridges -> Lives] /\ due' \in SUBSET Bridges
<1>0. /\ sock \in [Fds -> Sockets] /\ unread \in SUBSET Fds /\ life \in [Bridges -> Lives]
      /\ due \in SUBSET Bridges
  BY ProcessFields DEF LoopInv, Sound, Processes
<1>1. ASSUME NEW fd \in Fds, ConnectDone(fd) \/ PeerEnds(fd) \/ Fails(fd) \/ DataArrives(fd)
      PROVE  Typed /\ Alike /\ Stay
  BY <1>0, <1>1 DEF ConnectDone, PeerEnds, Fails, DataArrives, Sockets
<1>2. ASSUME NEW b \in Bridges, LocalArrives(b) \/ TenSecondsPass(b)
      PROVE  Typed /\ Alike /\ Stay
  BY <1>0, <1>2 DEF LocalArrives, TenSecondsPass, Lives
<1>3. Typed /\ Alike /\ Stay
  <2>. HIDE DEF Typed, Alike, Stay
  <2>. QED  BY <1>1, <1>2 DEF Peers
<1>4. Outside /\ (UNCHANGED troubles \/ Trouble)
  BY DEF Peers, ConnectDone, PeerEnds, Fails, DataArrives, LocalArrives, TenSecondsPass
<1>5. (Sound(Process) /\ FitBut(Process, {}))' /\ sock'[ListenFd] = sock[ListenFd]
  BY <1>3, <1>4, OutsideSound DEF LoopInv, Outside
<1>6. troubles' \in 0 .. MaxTroubles
  BY <1>4, EventLoopAssumption DEF LoopInv, Trouble
<1>. QED  BY <1>4, <1>5, <1>6 DEF LoopInv, Outside

LEMMA NextKeepsInv == LoopInv /\ [Next]_vars => LoopInv'
<1>. SUFFICES ASSUME LoopInv, [Next]_vars PROVE LoopInv'
  OBVIOUS
<1>1. CASE Poll
  BY <1>1, PollKeepsInv
<1>2. CASE \E e \in batch : Dispatch(e)
  BY <1>2, DispatchKeepsInv
<1>3. CASE Update
  BY <1>3, UpdateKeepsInv
<1>4. CASE Finalise
  BY <1>4, FinaliseKeepsInv
<1>5. CASE \E b \in Bridges : TunnelData(b)
  BY <1>5, TunnelDataKeepsInv
<1>6. CASE at \in {"poll", "dispatch"} /\ Peers
  BY <1>6, PeersKeepInv
<1>7. CASE UNCHANGED vars
  <2>1. Process' = Process
    BY <1>7 DEF Process, vars
  <2>. QED  BY <1>7, <2>1 DEF LoopInv, vars, Sound, Owned, Named, FitBut
<1>. QED  BY <1>1, <1>2, <1>3, <1>4, <1>5, <1>6, <1>7 DEF Next, Loop

LEMMA LoopInvHolds == Spec => []LoopInv
BY InitLoopInv, NextKeepsInv, PTL DEF Spec

-----------------------------------------------------------------------------
\* On epoll and on select(), for any number of bridges, descriptors and failures,
\* and whatever the order of the events: a descriptor's entries in the pollers'
\* tables are those of the connection that has it now.
THEOREM TablesAlwaysMatch == Spec => []TablesMatch
<1>1. LoopInv => TablesMatch
  <2>. SUFFICES ASSUME LoopInv PROVE TablesMatch
    OBVIOUS
  <2>1. /\ Process \in Processes /\ PollerOK(poller) /\ Owned(Process) /\ Named(Process)
        /\ FitBut(Process, {})
    BY ProcessFields DEF LoopInv, Sound
  <2>2. TypeOK
    BY <2>1, ProcessFields DEF LoopInv, TypeOK, Processes, PollerType, Handlers, Sockets, Lives
  <2>3. RegisteredAsNeeded
    BY <2>1, ProcessFields DEF RegisteredAsNeeded, FitBut, Fit
  <2>4. Consistent(poller)
    BY <2>1 DEF PollerOK
  <2>5. \A fd : Holds(fd) => CanHold(poller, fd)
    BY DEF Holds, CanHold
  <2>6. ASSUME NEW w \in Ways, NEW fd \in Fds \ {ListenFd}, Holds(fd), NEW c \in Conns
        PROVE  poller.handler[w][fd] = c <=> conn[c].fd = fd /\ w \in conn[c].reg
    BY <2>1, <2>5, <2>6, ProcessFields DEF Named, Fds
  <2>. QED  BY <2>2, <2>3, <2>4, <2>6 DEF TablesMatch
<1>. QED  BY <1>1, LoopInvHolds, PTL

\* No descriptor is lost and none has two owners, however accept() and connect()
\* fail, and after the end of the process none is open.
THEOREM EveryFdHasOneOwner == Spec => []OneOwner
<1>1. LoopInv => OneOwner
  <2>. SUFFICES ASSUME LoopInv PROVE OneOwner
    OBVIOUS
  <2>1. Process \in Processes /\ Owned(Process)
    BY DEF LoopInv, Sound
  <2>2. ASSUME NEW fd \in Fds, sock[fd] \notin {"free", "listen"}
        PROVE  Cardinality({c \in Conns : conn[c].fd = fd}) = 1
    <3>1. PICK c \in Conns : conn[c].fd = fd
      BY <2>1, <2>2, ProcessFields DEF Owned
    <3>2. {d \in Conns : conn[d].fd = fd} = {c}
      BY <2>1, <3>1, ProcessFields DEF Owned, Fds
    <3>. QED  BY <3>2, FS_Singleton
  <2>3. \A c \in Conns : conn[c].fd # 0 =>
          sock[conn[c].fd] # "free" /\ life[c[1]] \in {"live", "shut"}
    BY <2>1, ProcessFields DEF Owned
  <2>4. ASSUME at = "done", NEW fd \in Fds PROVE sock[fd] = "free"
    <3>1. sock[ListenFd] = "free" /\ \A c \in Conns : conn[c].fd = 0
      BY <2>4 DEF LoopInv
    <3>2. fd # 0
      BY DEF Fds
    <3>. QED  BY <2>1, <3>1, <3>2, ProcessFields DEF Owned
  <2>. QED  BY <2>2, <2>3, <2>4 DEF OneOwner
<1>. QED  BY <1>1, LoopInvHolds, PTL

\* Served after whatever other events, an event of a descriptor that is now another's
\* shuts no bridge whose own connection to ss-local is not over and holds nothing back.
THEOREM NobodyElsesEnd == Spec => OnlyItsOwnEnd
<1>. DEFINE OwnEnd(b) ==
       life[b] = "live" /\ life'[b] = "shut" =>
         LET c == conn[IntConn(b)] IN
         sock[c.fd] \in {"ended", "failed"} \/ c.pending \/ batch' = batch
<1>1. ASSUME LoopInv, [Next]_vars, NEW b \in Bridges, life[b] = "live", life'[b] = "shut",
             batch' # batch
      PROVE  LET c == conn[IntConn(b)] IN sock[c.fd] \in {"ended", "failed"} \/ c.pending
  <2>1. PICK e \in batch : Dispatch(e)
    <3>1. ~(at \in {"poll", "dispatch"} /\ Peers)
      BY <1>1 DEF Peers, ConnectDone, PeerEnds, Fails, DataArrives, LocalArrives,
                  TenSecondsPass, Outside
    <3>2. ~(\E a \in Bridges : TunnelData(a)) /\ ~Finalise /\ ~Update
      BY <1>1 DEF TunnelData, Finalise, Update
    <3>3. ~Poll /\ ~UNCHANGED vars
      BY <1>1 DEF Poll, vars
    <3>. QED  BY <1>1, <3>1, <3>2, <3>3 DEF Next, Loop
  <2>2. PICK s \in IF poller.kind = "select" /\ e.fd > poller.maxFd
                   THEN {Process} ELSE Serve(Process, e) : Becomes(s)
    BY <2>1 DEF Dispatch
  <2>3. s = Process \/ Spares(Process, s)
    <3>1. Serving(Process, {}) /\ e \in Event
      BY <1>1, <2>1, ProcessServes DEF Dispatch, LoopInv
    <3>. QED  BY <2>2, <3>1, ServeServes
  <2>4. s.life = life'
    BY <2>2 DEF Becomes
  <2>. QED  BY <1>1, <2>3, <2>4, ProcessFields DEF Spares, Spared, Ending
<1>2. LoopInv /\ [Next]_vars => [\A b \in Bridges : OwnEnd(b)]_vars
  BY <1>1
<1>. QED  BY <1>2, LoopInvHolds, PTL DEF Spec, OnlyItsOwnEnd

=============================================================================
