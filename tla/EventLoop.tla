----------------------------- MODULE EventLoop -----------------------------
(***************************************************************************)
(* The event loop of the client (client.cpp, listener.cpp, the descriptors *)
(* of connection.cpp) over EventPoller.  A turn collects the events that   *)
(* are ready, serves them one after the other, and deletes the bridges     *)
(* that were shut.  A handler may close descriptors, and open new ones     *)
(* under the same numbers, while events of the old ones are still to be    *)
(* served.                                                                 *)
(*                                                                         *)
(* A handler is an operator from the state of the process, a record, to    *)
(* the set of states it may leave, so that one may call another.           *)
(***************************************************************************)
EXTENDS EventPoller, Folds

CONSTANTS
  MaxBridges,   \* connections that ss-local may make
  MaxTroubles   \* ends, failures and ten-second silences that may come

VARIABLES
  poller,   \* the EventPoller
  sock,     \* the sockets, by descriptor
  unread,   \* the descriptors with bytes to read
  conn,     \* the Connections: mIntConn and mExtConn.mpConnection of a bridge
  life,     \* of a bridge; "backlog" until its connection is accepted
  due,      \* bridges whose last connect() is more than ten seconds old
  batch,    \* events collected and not yet served
  at,       \* "poll", "dispatch", "crashed", "done"
  troubles  \* of MaxTroubles

vars == <<poller, sock, unread, conn, life, due, batch, at, troubles>>

Bridges == 1 .. MaxBridges   \* in the order in which they come
Conns == Bridges \X {"int", "ext"}
IntConn(b) == <<b, "int">>
ExtConn(b) == <<b, "ext">>
Listener == <<None, "listener">>
ListenFd == 1

\* The client does not start without a listener that its poller takes.
ASSUME EventLoopAssumption ==
  /\ MaxBridges \in Nat /\ MaxTroubles \in Nat
  /\ ListenFd \in Fds /\ ListenFd < FdSetSize
  /\ None \notin Conns \cup {Listener}

\* mFd, mConnStatus, mbRegForRead and mbRegForWrite, mTcpPacketList not empty.
Connection ==
  [fd : {0} \cup Fds, status : {"closed", "connecting", "connected"},
   reg : SUBSET Ways, pending : BOOLEAN]
NoConn == [fd |-> 0, status |-> "closed", reg |-> {}, pending |-> FALSE]

Event == [fd : Fds, parts : SUBSET {"rd", "wr", "err"}]

TypeOK ==
  /\ poller.handler \in [Ways -> [Fds -> Conns \cup {Listener, None}]]
  /\ sock \in [Fds -> {"free", "listen", "syn", "up", "ended", "failed"}]
  /\ unread \subseteq Fds
  /\ conn \in [Conns -> Connection]
  /\ life \in [Bridges -> {"new", "backlog", "live", "shut", "gone"}]
  /\ due \subseteq Bridges
  /\ batch \subseteq Event
  /\ at \in {"poll", "dispatch", "crashed", "done"}
  /\ troubles \in 0 .. MaxTroubles

Init ==
  /\ poller \in {Register(NewPoller(k), "rd", ListenFd, Listener) : k \in {"epoll", "select"}}
  /\ sock = [fd \in Fds |-> IF fd = ListenFd THEN "listen" ELSE "free"]
  /\ unread = {}
  /\ conn = [c \in Conns |-> NoConn]
  /\ life = [b \in Bridges |-> "new"]
  /\ due = {} /\ batch = {} /\ at = "poll" /\ troubles = 0

-----------------------------------------------------------------------------
(* Handlers.                                                               *)

Process == [poller |-> poller, sock |-> sock, unread |-> unread, conn |-> conn,
            life |-> life, due |-> due, up |-> TRUE]
Becomes(s) ==
  /\ poller' = s.poller /\ sock' = s.sock /\ unread' = s.unread
  /\ conn' = s.conn /\ life' = s.life /\ due' = s.due
  /\ UNCHANGED troubles

\* tryRegReadEvent, tryRegWriteEvent and their opposites.
TryReg(s, c, w) ==
  IF w \in s.conn[c].reg THEN s
  ELSE [s EXCEPT !.conn[c].reg = @ \cup {w}, !.poller = Register(@, w, s.conn[c].fd, c)]
TryUnreg(s, c, w) ==
  IF w \notin s.conn[c].reg THEN s
  ELSE [s EXCEPT !.conn[c].reg = @ \ {w}, !.poller = Deregister(@, w, s.conn[c].fd)]
Quiet(s, c) == TryUnreg(TryUnreg(s, c, "wr"), c, "rd")

\* Connection::shutdown, and close() of its socket.
CloseFd(s, fd) ==
  [s EXCEPT !.sock[fd] = "free", !.unread = @ \ {fd}, !.poller = Forget(@, fd)]
Close(s, c) ==
  IF s.conn[c].fd = 0 THEN s
  ELSE [CloseFd(Quiet(s, c), s.conn[c].fd) EXCEPT !.conn[c] = NoConn]

\* The lowest free descriptor, 0 when the process has as many as it may.
NewFd(s) ==
  LET free == {fd \in Fds : s.sock[fd] = "free"} IN IF free = {} THEN 0 ELSE Min(free)
Open(s, c, how, status) ==
  [s EXCEPT !.sock[NewFd(s)] = how, !.conn[c] = [NoConn EXCEPT !.fd = NewFd(s), !.status = status]]

\* Connection::acceptConnection and connect, which may fail at once.
Accepted(s, c) == TryReg(Open(s, c, "up", "connected"), c, "rd")
Connect(s, c) ==
  {s} \cup IF NewFd(s) = 0 THEN {}
           ELSE {Accepted(s, c), TryReg(Open(s, c, "syn", "connecting"), c, "wr")}

\* ClientBridge::_reconnectExternal.
Reconnect(s, b) ==
  IF b \notin s.due THEN {s}
  ELSE Connect(Close([s EXCEPT !.due = @ \ {b}], ExtConn(b)), ExtConn(b))

\* onDisconnected or onError.  Of a bridge's connection to ss-local: the bridge is
\* shut; of its FastConnection: that is shut down, and tried again.
Over(s, c) ==
  LET q == Quiet(s, c) IN
  IF c = IntConn(c[1]) THEN {[Close(q, c) EXCEPT !.life[c[1]] = "shut"]}
  ELSE Reconnect(Close(q, c), c[1])

\* Connection::send that waits for room, and all it may do.
Waits(s, c) == TryReg([s EXCEPT !.conn[c].pending = TRUE], c, "wr")
Flushed(s, c) ==
  IF s.conn[c].pending THEN TryUnreg([s EXCEPT !.conn[c].pending = FALSE], c, "wr") ELSE s

Sent(s, c) ==
  Over(s, c) \cup IF s.sock[s.conn[c].fd] = "failed" THEN {} ELSE {Flushed(s, c), Waits(s, c)}

\* ClientBridge::onRecv from ss-local, FastConnection::onRecv from the server: a
\* message may be answered.
Received(s, c) ==
  IF c = IntConn(c[1])
  THEN IF s.conn[ExtConn(c[1])].status = "connected" THEN {s} ELSE Reconnect(s, c[1])
  ELSE {s} \cup IF s.conn[c].status = "connected" THEN {Waits(s, c)} ELSE {}

\* When the answer fails, or the message is none, the FastConnection has deleted
\* the Connection that goes on to read its own status: it finds what the freed
\* memory holds, perhaps that it is closed, or the process crashes.
AfterDeletion(s, b) == {s, [s EXCEPT !.up = FALSE]} \cup Over(s, ExtConn(b))

DataHidesEnd(s, c) ==                     \* mutation: data and the end come apart
  LET fd   == s.conn[c].fd
      ends == s.sock[fd] \in {"ended", "failed"}
      read == [s EXCEPT !.unread = @ \ {fd}, !.conn[c].status = IF ends THEN "closed" ELSE @]
  IN  IF s.conn[c].status # "connected" THEN {s}
      ELSE IF fd \in s.unread THEN Received(read, c) ELSE Over(read, c)

\* handleInputNotification: what there is, then the end of the stream or an error.
Input(s, c) ==
  LET fd   == s.conn[c].fd
      ends == s.sock[fd] \in {"ended", "failed"}
      read == [s EXCEPT !.unread = @ \ {fd}, !.conn[c].status = IF ends THEN "closed" ELSE @]
      told == IF fd \in s.unread THEN Received(read, c) ELSE {read}
  IN  IF s.conn[c].status # "connected" THEN {s}
      ELSE (IF ends THEN UNION {Over(t, c) : t \in told} ELSE told)
           \cup IF fd \in s.unread /\ c = ExtConn(c[1])
                THEN UNION {AfterDeletion(t, c[1]) : t \in Over(read, c)} ELSE {}

\* handleOutputNotification: a connect() is over, or there is room.  errno may
\* report an error even when there is none.
Output(s, c) ==
  LET failed == s.sock[s.conn[c].fd] = "failed" IN
  CASE s.conn[c].status = "connecting" ->
         IF failed THEN Over(s, c)
         ELSE {TryReg([TryUnreg(s, c, "wr") EXCEPT !.conn[c].status = "connected"], c, "rd")}
    [] s.conn[c].status = "connected" ->
         Over(s, c) \cup IF failed /\ s.conn[c].pending THEN {} ELSE {s, Flushed(s, c)}
    [] OTHER -> {s}

\* ClientBridge::acceptConnection.
Leaks(s, b) ==                            \* mutation: its first connection is left open
  IF NewFd(s) = 0 THEN {s}
  ELSE {IF t.conn[ExtConn(b)].fd = 0 THEN [t EXCEPT !.life[b] = "gone"] ELSE t :
          t \in Connect(Accepted([s EXCEPT !.life[b] = "live"], IntConn(b)), ExtConn(b))}
AcceptBridge(s, b) ==
  IF NewFd(s) = 0 THEN {s}
  ELSE LET int == Accepted([s EXCEPT !.life[b] = "live"], IntConn(b)) IN
       {IF t.conn[ExtConn(b)].fd = 0 THEN [Close(t, IntConn(b)) EXCEPT !.life[b] = "gone"] ELSE t :
          t \in Connect(int, ExtConn(b))}

\* Listener::handleInputNotification, in the order they came: fewer than its 32 wait.
Backlog(s) == {b \in Bridges : s.life[b] = "backlog"}
AcceptAll(s) ==
  MapThenFoldSet(LAMBDA b, S : UNION {AcceptBridge(t, b) : t \in S}, {s},
                 LAMBDA b : b, Max, Backlog(s))

-----------------------------------------------------------------------------
(* The turn.                                                               *)

Readable(fd) ==
  IF sock[fd] = "listen" THEN Backlog(Process) # {}
  ELSE fd \in unread \/ sock[fd] \in {"ended", "failed"}
Writable(fd) == sock[fd] \in {"up", "ended", "failed"}

\* What epoll_wait() or select() reports.  epoll reports an error whatever was
\* asked, and its other bits are then not looked at; select() is not given an empty
\* set, and leaves it as it was.
Ready(fd) ==
  LET unasked == poller.kind = "select" /\ poller.writes = 0
      is(w) == IF w = "rd" THEN Readable(fd) ELSE Writable(fd) \/ unasked
  IN  IF poller.kind = "epoll" /\ sock[fd] = "failed"
      THEN {x \in {"err"} : Listed(poller, fd)}
      ELSE {w \in Ways : fd \in poller.watch[w] /\ is(w)}

Poll ==
  /\ at = "poll" /\ at' = "dispatch"
  /\ batch' = {[fd |-> fd, parts |-> Ready(fd)] : fd \in {x \in Fds : Ready(x) # {}}}
  /\ UNCHANGED <<poller, sock, unread, conn, life, due, troubles>>

\* triggerRead, triggerWrite, triggerError: whoever the table has now.
TriggerRead(s, fd) ==
  LET h == s.poller.handler["rd"][fd] IN
  IF h = None THEN {s} ELSE IF h = Listener THEN AcceptAll(s) ELSE Input(s, h)
TriggerWrite(s, fd) ==
  LET h == s.poller.handler["wr"][fd] IN IF h = None THEN {s} ELSE Output(s, h)
TakesItsWord(s, fd) ==                    \* mutation: an error event closes unread
  LET h == s.poller.handler["rd"][fd] IN
  IF h \in Conns THEN Over(s, h) ELSE TriggerWrite(s, fd)
TriggerError(s, fd) ==
  IF s.poller.handler["rd"][fd] # None THEN TriggerRead(s, fd) ELSE TriggerWrite(s, fd)

Serve(s, e) ==
  LET read == IF "rd" \in e.parts THEN TriggerRead(s, e.fd) ELSE {s} IN
  IF "err" \in e.parts THEN TriggerError(s, e.fd)
  ELSE IF "wr" \in e.parts
       THEN UNION {IF t.up THEN TriggerWrite(t, e.fd) ELSE {t} : t \in read}
       ELSE read

\* select serves by descriptor, up to mMaxFd.
Dispatch(e) ==
  /\ at = "dispatch" /\ e \in batch
  /\ poller.kind = "select" => \A f \in batch : e.fd <= f.fd
  /\ batch' = batch \ {e}
  /\ \E s \in IF poller.kind = "select" /\ e.fd > poller.maxFd
             THEN {Process} ELSE Serve(Process, e) :
       Becomes(s) /\ at' = IF s.up THEN at ELSE "crashed"

\* A datum from the tunnel, by the UDP socket or the update of the tunnels:
\* ClientBridge::onRecv sends it to ss-local.
TunnelData(b) ==
  /\ at = "dispatch" /\ \A c \in {IntConn(b), ExtConn(b)} : conn[c].status = "connected"
  /\ \E s \in Sent(Process, IntConn(b)) : Becomes(s)
  /\ UNCHANGED <<batch, at>>

\* Client::update.
Destroy(s, b) == [Close(Close(s, IntConn(b)), ExtConn(b)) EXCEPT !.life[b] = "gone"]
DestroyAll(s, B) == FoldSet(LAMBDA b, t : Destroy(t, b), s, B)
Shut == {b \in Bridges : life[b] = "shut"}
Update ==
  /\ at = "dispatch" /\ batch = {}
  /\ Becomes(DestroyAll(Process, Shut))
  /\ at' = "poll" /\ UNCHANGED batch

\* A signal ends the main loop: Client::finalise.
Finalise ==
  /\ at = "poll" /\ at' = "done"
  /\ LET s == CloseFd([Process EXCEPT !.poller = Deregister(@, "rd", ListenFd)], ListenFd) IN
     Becomes(DestroyAll(s, Shut \cup {b \in Bridges : life[b] = "live"}))
  /\ UNCHANGED batch

-----------------------------------------------------------------------------
(* The peers and the clock.  A connection or bytes that come during a turn *)
(* are taken for come after it; what ends or fails does so at any moment.  *)

Trouble == troubles < MaxTroubles /\ troubles' = troubles + 1
Outside == UNCHANGED <<poller, conn, batch, at>>

ConnectDone(fd) ==
  /\ at = "poll" /\ sock[fd] = "syn" /\ sock' = [sock EXCEPT ![fd] = "up"]
  /\ Outside /\ UNCHANGED <<unread, life, due, troubles>>
PeerEnds(fd) ==
  /\ sock[fd] = "up" /\ sock' = [sock EXCEPT ![fd] = "ended"]
  /\ Trouble /\ Outside /\ UNCHANGED <<unread, life, due>>
Fails(fd) ==
  /\ sock[fd] \in {"syn", "up", "ended"} /\ sock' = [sock EXCEPT ![fd] = "failed"]
  /\ Trouble /\ Outside /\ UNCHANGED <<unread, life, due>>
DataArrives(fd) ==
  /\ at = "poll" /\ sock[fd] = "up" /\ unread' = unread \cup {fd}
  /\ Outside /\ UNCHANGED <<sock, life, due, troubles>>
LocalArrives(b) ==
  /\ at = "poll" /\ life[b] = "new" /\ \A a \in 1 .. b - 1 : life[a] # "new"
  /\ life' = [life EXCEPT ![b] = "backlog"]
  /\ Outside /\ UNCHANGED <<sock, unread, due, troubles>>
TenSecondsPass(b) ==
  /\ life[b] \in {"live", "shut"} /\ b \notin due /\ due' = due \cup {b}
  /\ Trouble /\ Outside /\ UNCHANGED <<sock, unread, life>>

Peers ==
  \/ \E fd \in Fds : ConnectDone(fd) \/ PeerEnds(fd) \/ Fails(fd) \/ DataArrives(fd)
  \/ \E b \in Bridges : LocalArrives(b) \/ TenSecondsPass(b)

Loop == Poll \/ (\E e \in batch : Dispatch(e)) \/ Update

Next ==
  \/ Loop \/ Finalise
  \/ \E b \in Bridges : TunnelData(b)
  \/ at \in {"poll", "dispatch"} /\ Peers

Spec == Init /\ [][Next]_vars

\* The loop turns: it collects, serves what it collected and updates, unless a
\* signal comes.  Each condition names only the place in the turn, which is all
\* that Poll, Dispatch and Update need to be enabled.
FairSpec ==
  /\ Spec
  /\ WF_at(at = "poll" /\ at' = "dispatch")
  /\ WF_batch(at = "dispatch" /\ \E e \in batch : batch' = batch \ {e})
  /\ WF_at(at = "dispatch" /\ batch = {} /\ at' = "poll")

-----------------------------------------------------------------------------
\* A descriptor the poller can hold.
Holds(fd) == poller.kind = "epoll" \/ fd < FdSetSize

\* A connection is called for input while it is connected, and for output while it
\* connects or has bytes that wait, through every sequence of failures and retries.
RegisteredAsNeeded ==
  \A c \in Conns : conn[c].reg =
    {w \in Ways : IF w = "rd" THEN conn[c].status = "connected"
                  ELSE conn[c].status = "connecting" \/ conn[c].pending}

\* The tables name, for each descriptor, the connection that has it now and needs
\* to be called, and nobody else; and the kernel was asked for the same.
TablesMatch ==
  /\ TypeOK /\ RegisteredAsNeeded
  /\ Consistent(poller)
  /\ \A w \in Ways, fd \in Fds \ {ListenFd} :
       Holds(fd) => \A c \in Conns :
         poller.handler[w][fd] = c <=> conn[c].fd = fd /\ w \in conn[c].reg

\* Each open descriptor has one owner that can close it, and a bridge that is gone
\* has none: no descriptor is lost over the life of the process.
OneOwner ==
  /\ \A fd \in Fds : sock[fd] \notin {"free", "listen"} =>
       Cardinality({c \in Conns : conn[c].fd = fd}) = 1
  /\ \A c \in Conns : conn[c].fd # 0 =>
       sock[conn[c].fd] # "free" /\ life[c[1]] \in {"live", "shut"}
  /\ at = "done" => \A fd \in Fds : sock[fd] = "free"

\* A live bridge is shut only when its own connection to ss-local is over or had
\* bytes to send: the events that are left of a descriptor's former owner shut
\* nobody.
OnlyItsOwnEnd ==
  [][\A b \in Bridges : life[b] = "live" /\ life'[b] = "shut" =>
       LET c == conn[IntConn(b)] IN
       sock[c.fd] \in {"ended", "failed"} \/ c.pending \/ batch' = batch]_vars

\* An end or an error of a connection is noticed and its descriptor closed.
EndsAreNoticed ==
  \A fd \in Fds : sock[fd] \in {"ended", "failed"} /\ Holds(fd) ~>
    sock[fd] \notin {"ended", "failed"} \/ at \in {"crashed", "done"}

=============================================================================
