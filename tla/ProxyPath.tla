----------------------------- MODULE ProxyPath -----------------------------
(***************************************************************************)
(* The data plane over the control plane of FastTunnel: what ss-local and  *)
(* ss-server write goes through the caches of client.cpp, server.cpp and   *)
(* fast_connection.cpp and through the KCP tunnel of the session.          *)
(*                                                                         *)
(* A tunnel is a reliable queue per direction between the ends that exist: *)
(* what was sent and is not acknowledged is lost with the end that sent    *)
(* it, except for packets on their way.  One tunnel never meets another's  *)
(* packets here: no process crashes and the ids are not reused, the case   *)
(* FastTunnel treats.  Data of ss-local are numbered 1, 2, ...             *)
(***************************************************************************)
EXTENDS FastTunnel

CONSTANTS
  MaxUp,         \* bound: data from ss-local on a bridge
  MaxDown,       \* bound: data from ss-server on a session
  MaxData,       \* bound: data from both together
  LocalMayClose  \* may ss-local close its connection

ASSUME ProxyPathAssumption ==
  /\ MaxUp \in Nat /\ MaxDown \in Nat /\ MaxData \in Nat
  /\ LocalMayClose \in BOOLEAN
  /\ MaxCrashes = 0 /\ MaxNum >= Cardinality(Conns)

VARIABLES
  sentUp,    \* how many data ss-local has sent
  ccache,    \* mCache of the bridge's FastConnection
  toLocal,   \* data given to ss-local, each with its session
  kup,       \* data in the tunnel towards the server
  kdown,     \* data in the tunnel towards the client
  addr,      \* mAddrSettled of the server's tunnel
  scache,    \* mCache of the session's FastConnection
  sentDown,  \* how many data ss-server has sent on the session
  int,       \* the session's mIntConn
  intCool,   \* its last connect() is more than a second old
  icache,    \* mCache of the ServerBridge
  toServer   \* the data each connection to ss-server has been given whole

clientData == <<sentUp, ccache, toLocal>>
tunnelData == <<kup, kdown, addr>>
serverData == <<scache, sentDown, int, intCool, icache, toServer>>
dataVars == <<clientData, tunnelData, serverData>>

\* How many data have been sent, both ways.
DataSent ==
  MapThenSumSet(LAMBDA b : sentUp[b], Bridges) + MapThenSumSet(LAMBDA c : sentDown[c], Conns)

\* A ServerBridge exists, and with it its connection to ss-server.
IntLives(c) == sess[c] \in {"live", "shut"}

\* Types, and no connection to ss-server outlives its bridge.
DataTypeOK ==
  /\ sentUp \in [Bridges -> 0 .. MaxUp]
  /\ ccache \in [Bridges -> Seq(1 .. MaxUp)]
  /\ toLocal \in [Bridges -> Seq(Conns \X (1 .. MaxDown))]
  /\ kup \in [Conns -> Seq(1 .. MaxUp)]
  /\ kdown \in [Conns -> Seq(1 .. MaxDown)]
  /\ addr \in [Conns -> BOOLEAN]
  /\ scache \in [Conns -> Seq(1 .. MaxDown)]
  /\ sentDown \in [Conns -> 0 .. MaxDown]
  /\ int \in [Conns -> {"none", "connecting", "connected", "down", "deaf"}]
  /\ intCool \in [Conns -> BOOLEAN]
  /\ icache \in [Conns -> Seq(1 .. MaxUp)]
  /\ toServer \in [Conns -> Seq(Seq(1 .. MaxUp))]
  /\ \A c \in Conns : IntLives(c) <=> int[c] # "none"

DataInit ==
  /\ Init
  /\ sentUp = [b \in Bridges |-> 0]
  /\ ccache = [b \in Bridges |-> <<>>]
  /\ toLocal = [b \in Bridges |-> <<>>]
  /\ kup = [c \in Conns |-> <<>>]
  /\ kdown = [c \in Conns |-> <<>>]
  /\ addr = [c \in Conns |-> FALSE]
  /\ scache = [c \in Conns |-> <<>>]
  /\ sentDown = [c \in Conns |-> 0]
  /\ int = [c \in Conns |-> "none"]
  /\ intCool = [c \in Conns |-> FALSE]
  /\ icache = [c \in Conns |-> <<>>]
  /\ toServer = [c \in Conns |-> <<>>]

-----------------------------------------------------------------------------
(* The client.                                                             *)

\* The packets of a destroyed tunnel end that are still on their way are a
\* first part of what its queue held.
Underway(q) == {SubSeq(q, 1, n) : n \in 0 .. Len(q)}

\* destroyTunnel on the client, for the connections it closes.
ClientTunnelsGone(C) ==
  /\ \E rest \in [C -> UNION {Underway(kup[c]) : c \in C}] :
       /\ \A c \in C : rest[c] \in Underway(kup[c])
       /\ kup' = [c \in Conns |-> IF c \in C THEN rest[c] ELSE kup[c]]
  /\ kdown' = [c \in Conns |-> IF c \in C THEN <<>> ELSE kdown[c]]
  /\ UNCHANGED addr

Dropped(b) == {ext[b]} \ {None}

\* FastConnection::send with what mCache holds: through the tunnel when there
\* is one, into the cache otherwise.
SendUp(b, data) ==
  IF ctun[b] # None
  THEN /\ kup' = [kup EXCEPT ![ext[b]] = @ \o ccache[b] \o data]
       /\ ccache' = [ccache EXCEPT ![b] = <<>>]
  ELSE /\ ccache' = [ccache EXCEPT ![b] = @ \o data]
       /\ UNCHANGED kup

ConnNotUp(b) == ext[b] = None \/ cst[ext[b]] = "connecting"

\* ClientBridge::onRecv: ss-local's data, and the retry while not connected.
LocalSend(b) ==
  LET data == <<sentUp[b] + 1>> IN
  /\ bridge[b] = "live" /\ sentUp[b] < MaxUp /\ DataSent < MaxData
  /\ sentUp' = [sentUp EXCEPT ![b] = @ + 1]
  /\ SendUp(b, data)
  /\ \/ RetryOnData(b)
     \/ ~(RetryDue(b) /\ ConnNotUp(b)) /\ UNCHANGED vars
  /\ UNCHANGED <<toLocal, kdown, addr, serverData>>

\* A tunnel that comes up takes the cache.
NoFlushUp(b) == UNCHANGED <<kup, ccache>>   \* mutation: no _flushAll()
FlushKeepsUp(b) ==                          \* mutation: the cache is not emptied
  /\ kup' = [kup EXCEPT ![ext[b]] = ccache[b]]
  /\ UNCHANGED ccache
FlushUp(b) ==
  /\ kup' = [kup EXCEPT ![ext[b]] = ccache[b]]
  /\ ccache' = [ccache EXCEPT ![b] = <<>>]
DataRecvCreate(b) ==
  /\ ClientRecvCreate(b)
  /\ FlushUp(b)
  /\ UNCHANGED <<sentUp, toLocal, kdown, addr, serverData>>

\* Steps of the client that leave data alone, and those that lose a tunnel.
ClientQuiet(b) ==
  /\ ConnectDone(b) \/ CoolDown(b) \/ AcceptLocal(b) \/ (LocalMayClose /\ LocalClose(b))
  /\ UNCHANGED dataVars
ClientLoses(b) ==
  /\ ClientError(b) \/ ClientRecvFin(b)
  /\ ClientTunnelsGone(Dropped(b))
  /\ UNCHANGED <<clientData, serverData>>
DataClientUpdate ==
  /\ ClientUpdate
  /\ ClientTunnelsGone(UNION {Dropped(b) : b \in {x \in Bridges : bridge[x] = "shut"}})
  /\ UNCHANGED <<clientData, serverData>>

\* KcpTunnel::update delivers one datum; a shut bridge has no socket for it.
TunnelDown(b) ==
  LET c == ext[b] IN
  /\ Open(b) /\ ctun[b] # None /\ addr[c] /\ kdown[c] # <<>>
  /\ kdown' = [kdown EXCEPT ![c] = Tail(@)]
  /\ toLocal' = IF bridge[b] = "live"
                THEN [toLocal EXCEPT ![b] = Append(@, <<c, Head(kdown[c])>>)] ELSE toLocal
  /\ UNCHANGED <<vars, sentUp, ccache, kup, addr, serverData>>

-----------------------------------------------------------------------------
(* The server.                                                             *)

\* ServerBridge::acceptConnection goes on to connect to ss-server.
DataAccept(c) ==
  /\ Accept(c) \/ AcceptZombie(c)
  /\ int' = [int EXCEPT ![c] = "connecting"]
  /\ UNCHANGED <<clientData, tunnelData, scache, sentDown, intCool, icache, toServer>>

ServerQuiet(c) ==
  /\ AcceptAborted(c) \/ Heartbeat(c) \/ HeartbeatTimeout(c)
  /\ UNCHANGED dataVars

\* FastConnection::send on the server.
SendDown(c, data) ==
  IF Attached(c) /\ sup[c]
  THEN /\ kdown' = [kdown EXCEPT ![c] = @ \o scache[c] \o data]
       /\ scache' = [scache EXCEPT ![c] = <<>>]
  ELSE /\ scache' = [scache EXCEPT ![c] = @ \o data]
       /\ UNCHANGED kdown

\* Confirm: the tunnel takes the cache.
FlushKeepsDown(c) ==                    \* mutation: the cache is not emptied
  /\ kdown' = [kdown EXCEPT ![c] = @ \o scache[c]]
  /\ UNCHANGED scache
FlushDown(c) ==
  /\ kdown' = [kdown EXCEPT ![c] = @ \o scache[c]]
  /\ scache' = [scache EXCEPT ![c] = <<>>]
DataRecvConfirm(c) ==
  /\ ServerRecvConfirm(c)
  /\ FlushDown(c)
  /\ UNCHANGED <<clientData, kup, addr, sentDown, int, intCool, icache, toServer>>

\* destroyTunnel on the server.
ServerTunnelsGone(C) ==
  /\ \E rest \in [C -> UNION {Underway(kdown[c]) : c \in C}] :
       /\ \A c \in C : rest[c] \in Underway(kdown[c])
       /\ kdown' = [c \in Conns |-> IF c \in C THEN rest[c] ELSE kdown[c]]
  /\ kup' = [c \in Conns |-> IF c \in C THEN <<>> ELSE kup[c]]
  /\ UNCHANGED addr
ServerLoses(c) ==
  /\ ServerRecvFin(c) \/ ServerError(c)
  /\ ServerTunnelsGone({c})
  /\ UNCHANGED <<clientData, serverData>>
IntConnsGone(C) == int' = [c \in Conns |-> IF c \in C THEN "none" ELSE int[c]]
DataServerUpdate ==
  /\ ServerUpdate
  /\ ServerTunnelsGone({c \in ShutSessions : stun[c] # None})
  /\ IntConnsGone(ShutSessions)
  /\ UNCHANGED <<clientData, scache, sentDown, intCool, icache, toServer>>

\* _reconnectInternal: at most once a second.  Otherwise mIntConn is left as
\* the failure left it: "down" when it was found by reading or connecting; when
\* by writing, "deaf": without events, but with isConnected() still true, so
\* that later data are written to the same socket.
Reconnect(c, left) ==
  IF intCool[c]
  THEN /\ int' = [int EXCEPT ![c] = "connecting"]
       /\ intCool' = [intCool EXCEPT ![c] = FALSE]
  ELSE /\ int' = [int EXCEPT ![c] = left]
       /\ UNCHANGED intCool

\* The connection to ss-server fails, or a write cut short finds an old errno.
IntFault ==
  /\ faults < MaxFaults /\ faults' = faults + 1
  /\ UNCHANGED <<clientVars, serverVars, netVars, crashes>>

\* The strictly increasing choices of n of k places, and what such a choice
\* leaves of q.
Selections(n, k) ==
  {m \in [1 .. n -> 1 .. k] : \A i, j \in 1 .. n : i < j => m[i] < m[j]}
PartsOf(q) == UNION {{[i \in 1 .. n |-> q[m[i]]] : m \in Selections(n, Len(q))} : n \in 0 .. Len(q)}

\* onConnected: a new connection to ss-server takes the cache.  flush() returns
\* true whatever became of the write, so the cache is empty even when one of
\* them failed: those after it find a new connect(), or the same socket.
StartWith(c, data) ==
  /\ toServer' = [toServer EXCEPT ![c] = Append(@, data)]
  /\ icache' = [icache EXCEPT ![c] = <<>>]
StartWithCache(c) ==
  /\ StartWith(c, icache[c])
  /\ int' = [int EXCEPT ![c] = "connected"]
  /\ UNCHANGED intCool
StartFails(c) ==
  \E data \in (IF intCool[c] THEN Underway(icache[c]) ELSE PartsOf(icache[c])) :
    /\ data # icache[c]
    /\ StartWith(c, data)
    /\ Reconnect(c, "deaf")
IntConnected(c) ==
  /\ IntLives(c) /\ int[c] = "connecting"
  /\ \/ UNCHANGED vars /\ StartWithCache(c)
     \/ IntFault /\ StartFails(c)
  /\ UNCHANGED <<clientData, tunnelData, scache, sentDown>>

\* onDisconnected or onError of the connection to ss-server, found by its events;
\* a deaf one has that for writing again after a send.
IntLost(c) ==
  /\ IntLives(c) /\ IntFault
  /\ \/ int[c] \in {"connecting", "connected"} /\ Reconnect(c, "down")
     \/ int[c] \in {"connected", "deaf"} /\ Reconnect(c, "deaf")
  /\ UNCHANGED <<clientData, tunnelData, scache, sentDown, icache, toServer>>

IntCoolDown(c) ==
  /\ IntLives(c) /\ ~intCool[c]
  /\ intCool' = [intCool EXCEPT ![c] = TRUE]
  /\ UNCHANGED <<vars, clientData, tunnelData, scache, sentDown, int, icache, toServer>>

\* ServerBridge::onRecv from the tunnel.  The packet tells the client's address.
CacheAndReconnect(c, datum) ==
  /\ icache' = [icache EXCEPT ![c] = Append(@, datum)]
  /\ Reconnect(c, int[c])
  /\ UNCHANGED toServer
SendToServer(c, datum) ==
  /\ toServer' = [toServer EXCEPT ![c][Len(toServer[c])] = @ \o icache[c] \o <<datum>>]
  /\ icache' = [icache EXCEPT ![c] = <<>>]
  /\ UNCHANGED <<int, intCool>>
LosesUntold(c) ==                       \* mutation: checkSocketErrors tells nobody
  UNCHANGED <<int, intCool, icache, toServer>>
\* A write fails, or is cut short and finds an old errno: the rest is dropped.
SendFails(c) ==
  /\ Reconnect(c, "deaf")
  /\ UNCHANGED <<icache, toServer>>
TunnelUp(c) ==
  /\ Attached(c) /\ kup[c] # <<>>
  /\ kup' = [kup EXCEPT ![c] = Tail(@)]
  /\ addr' = [addr EXCEPT ![c] = TRUE]
  /\ \/ int[c] \in {"connecting", "down"} /\ UNCHANGED vars /\ CacheAndReconnect(c, Head(kup[c]))
     \/ int[c] \in {"connected", "deaf"} /\ UNCHANGED vars /\ SendToServer(c, Head(kup[c]))
     \/ int[c] = "connected" /\ IntFault /\ SendFails(c)
     \/ int[c] = "deaf" /\ UNCHANGED vars /\ SendFails(c)
  /\ UNCHANGED <<clientData, kdown, scache, sentDown>>

\* ss-server writes: ServerBridge::onRecv from mIntConn.
SrvSend(c) ==
  /\ IntLives(c) /\ int[c] = "connected" /\ sentDown[c] < MaxDown /\ DataSent < MaxData
  /\ sentDown' = [sentDown EXCEPT ![c] = @ + 1]
  /\ SendDown(c, <<sentDown[c] + 1>>)
  /\ UNCHANGED <<vars, clientData, kup, addr, int, intCool, icache, toServer>>

-----------------------------------------------------------------------------
ClientDataStep(b) == DataRecvCreate(b) \/ ClientQuiet(b) \/ ClientLoses(b)

ServerDataStep(c) ==
  \/ DataAccept(c) \/ ServerQuiet(c) \/ DataRecvConfirm(c) \/ ServerLoses(c)
  \/ IntConnected(c) \/ IntLost(c) \/ IntCoolDown(c) \/ TunnelUp(c)

DataNext ==
  \/ \E b \in Bridges : ClientDataStep(b) \/ LocalSend(b) \/ TunnelDown(b)
  \/ \E c \in Conns : ServerDataStep(c) \/ SrvSend(c)
  \/ DataClientUpdate \/ DataServerUpdate

allVars == <<vars, dataVars>>
DataSpec == DataInit /\ [][DataNext]_allVars

\* Nothing has failed so far and nobody has closed: a bridge has one connection.
Clean == faults = 0 /\ \A b \in Bridges : bridge[b] # "shut" /\ bridge[b] # "gone"

(***************************************************************************)
(* Both event loops keep running, KCP resends until it is heard, and       *)
(* ss-server accepts connections in the end; more is not asked of them     *)
(* than until something fails.                                             *)
(***************************************************************************)
DataFairness ==
  /\ \A b \in Bridges :
       /\ WF_allVars(Clean /\ DataRecvCreate(b))
       /\ WF_allVars(Clean /\ ConnectDone(b) /\ ClientQuiet(b))
       /\ WF_allVars(Clean /\ TunnelDown(b))
  /\ \A c \in Conns :
       /\ WF_allVars(Clean /\ DataAccept(c)) /\ WF_allVars(Clean /\ DataRecvConfirm(c))
       /\ WF_allVars(Clean /\ IntConnected(c)) /\ WF_allVars(Clean /\ TunnelUp(c))
FairDataSpec == DataSpec /\ DataFairness

-----------------------------------------------------------------------------
\* What a session has given ss-server, over all its connections to it.
Given(c) == FlattenSeq(toServer[c])

TheBridge == CHOOSE b \in Bridges : TRUE
TheConn == IF ext[TheBridge] = None THEN CHOOSE c \in Conns : TRUE ELSE ext[TheBridge]

Upload == INSTANCE Fifo WITH
  in <- [i \in 1 .. sentUp[TheBridge] |-> i],
  queue <- icache[TheConn] \o kup[TheConn] \o ccache[TheBridge],
  out <- Given(TheConn)

Download == INSTANCE Fifo WITH
  in <- [i \in 1 .. sentDown[TheConn] |-> i],
  queue <- kdown[TheConn] \o scache[TheConn],
  out <- [i \in 1 .. Len(toLocal[TheBridge]) |-> toLocal[TheBridge][i][2]]

\* Until something fails the caches and the tunnel together are one queue: what
\* goes in comes out in order, once, whichever of the control messages, the
\* tunnel and the ss-server connection is late.
UploadIsFifo == [][Clean' => Upload!Next]_allVars
DownloadIsFifo == [][Clean' => Download!Next]_allVars

\* Whatever failed before, a connection to ss-server is given a contiguous run of
\* the stream of ss-local, from its cache through the data it was late for, until
\* a write to it is told to have failed.  From then on the same connection may be
\* given data behind a hole: the retry limit keeps it, and isConnected() is true.
NoHoleUntilTold ==
  \A c \in Conns : int[c] = "connected" =>
    LET latest == Last(toServer[c])
    IN  \A i \in 1 .. Len(latest) - 1 : latest[i + 1] = latest[i] + 1

\* Whatever fails, what ss-local sent is given to ss-server in its order and not
\* twice: not by one session over a reconnection that sends the cache again or
\* over a write that failed, nor by two sessions (the latter stated of one bridge).
GivenOnce ==
  /\ \A c \in Conns : \A i, j \in DOMAIN Given(c) : i < j => Given(c)[i] < Given(c)[j]
  /\ \A c, d \in Conns : c # d => Range(Given(c)) \cap Range(Given(d)) = {}

\* Whatever fails, ss-server is given the upload in order and nothing of it again,
\* and by each connection without a hole as long as no write to it has failed.
UploadInOrder == DataTypeOK /\ NoHoleUntilTold /\ GivenOnce

\* ss-local is given, of each session, a first part of what ss-server sent, and
\* nothing of a session after something of the next.
DownloadInOrder ==
  \A b \in Bridges : \A i \in 1 .. Len(toLocal[b]) :
    LET c == toLocal[b][i][1]
        n == toLocal[b][i][2]
    IN  IF i > 1 /\ toLocal[b][i - 1][1] = c
        THEN n = toLocal[b][i - 1][2] + 1
        ELSE /\ n = 1
             /\ \A j \in 1 .. i - 1 : toLocal[b][j][1] # c

\* As long as nothing fails, all that ss-local sends reaches ss-server, also what
\* it sent before the tunnel and the connection to ss-server were up.
UploadDelivered ==
  \A b \in Bridges :
    sentUp[b] = MaxUp ~> ~Clean \/ \E c \in Conns : Len(Given(c)) = MaxUp

\* README.md:25: what tun-svr gets from ss-server it sends to tun-cli, which
\* hands it to ss-local.
DownloadDelivered ==
  \A c \in Conns :
    sentDown[c] > 0 ~> \E b \in Bridges : toLocal[b] # <<>>

=============================================================================
