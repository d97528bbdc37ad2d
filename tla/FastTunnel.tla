----------------------------- MODULE FastTunnel -----------------------------
(***************************************************************************)
(* The control plane of the forwarder: how tun-cli bridges and tun-svr     *)
(* sessions open, pair, lose and re-open their KCP tunnels over a control  *)
(* TCP connection (client.cpp, server.cpp, fast_connection.cpp, and the    *)
(* tunnel tables of kcp_tunnel.inl).                                       *)
(*                                                                         *)
(* A control connection is a member of Conns and is used once.  What       *)
(* travels on it is a sequence of messages per direction; closing an end   *)
(* appends Fin for the peer, unless the fault that closed it also cut the  *)
(* peer off.  Payload does not appear here.                                *)
(***************************************************************************)
EXTENDS Integers, Sequences, FiniteSets, Functions, SequencesExt

CONSTANTS
  Bridges,        \* client bridges: one per connection accepted from ss-local
  Conns,          \* control TCP connections that may ever be opened (a bound)
  MaxNum,         \* size of the server's pool of conversation ids
  None,           \* NULL
  MaxFaults,      \* bound: connection-level failures in a behaviour
  MaxCrashes,     \* bound: process crashes in a behaviour
  SilentFaults    \* may a failure leave the peer without FIN or RST

ASSUME FastTunnelAssumption ==
  /\ MaxNum \in Nat
  /\ MaxFaults \in Nat
  /\ MaxCrashes \in Nat
  /\ SilentFaults \in BOOLEAN
  /\ None \notin Conns
  /\ None \notin Int

BEGID == 100
Convs == BEGID .. BEGID + MaxNum - 1

\* ConvGen's constructor restores the ids in ascending order.
InitPool == [i \in 1 .. MaxNum |-> BEGID + i - 1]

Create(v) == [type |-> "Create", conv |-> v]
Confirm   == [type |-> "Confirm"]
Fin       == [type |-> "Fin"]
Msg       == {Create(v) : v \in Convs} \cup {Confirm, Fin}

VARIABLES
  bridge,   \* life of a ClientBridge
  ext,      \* its mExtConn.mpConnection
  ctun,     \* its mExtConn.mpKcpTunnel, as a conv
  cool,     \* the last connect() is more than ten seconds old
  cst,      \* client end of a control connection
  sess,     \* life of the ServerBridge on a control connection
  stun,     \* its mExtConn.mpKcpTunnel, as a conv; mpConnection lives with it
  sup,      \* its mbTunnelConnected
  heard,    \* a heartbeat response has been recorded (packetRecvTime > 0)
  pool,     \* s_convGen.mAvailableIds of the server process
  up, down, \* messages in flight to the server, to the client
  faults, crashes

clientVars == <<bridge, ext, ctun, cool, cst>>
serverVars == <<sess, stun, sup, heard, pool>>
netVars    == <<up, down>>
countVars  == <<faults, crashes>>
vars == <<clientVars, serverVars, netVars, countVars>>

TypeOK ==
  /\ bridge \in [Bridges -> {"unused", "live", "shut", "gone"}]
  /\ ext \in [Bridges -> Conns \cup {None}]
  /\ ctun \in [Bridges -> Convs \cup {None}]
  /\ cool \in [Bridges -> BOOLEAN]
  /\ cst \in [Conns -> {"unused", "connecting", "connected", "closed"}]
  /\ sess \in [Conns -> {"none", "live", "shut", "gone", "leaked"}]
  /\ stun \in [Conns -> Convs \cup {None}]
  /\ sup \in [Conns -> BOOLEAN]
  /\ heard \in [Conns -> BOOLEAN]
  /\ pool \in Seq(Convs)
  /\ up \in [Conns -> Seq(Msg)]
  /\ down \in [Conns -> Seq(Msg)]
  /\ faults \in 0 .. MaxFaults
  /\ crashes \in 0 .. MaxCrashes

Init ==
  /\ bridge = [b \in Bridges |-> "unused"]
  /\ ext = [b \in Bridges |-> None]
  /\ ctun = [b \in Bridges |-> None]
  /\ cool = [b \in Bridges |-> FALSE]
  /\ cst = [c \in Conns |-> "unused"]
  /\ sess = [c \in Conns |-> "none"]
  /\ stun = [c \in Conns |-> None]
  /\ sup = [c \in Conns |-> FALSE]
  /\ heard = [c \in Conns |-> FALSE]
  /\ pool = InitPool
  /\ up = [c \in Conns |-> <<>>]
  /\ down = [c \in Conns |-> <<>>]
  /\ faults = 0
  /\ crashes = 0

-----------------------------------------------------------------------------
(* The client: FastConnection on a ClientBridge.                           *)

Open(b) == bridge[b] \in {"live", "shut"}
ClientTunnels == {ctun[b] : b \in Bridges} \ {None}

\* Whether the failing end's peer is told.
Told == IF SilentFaults THEN BOOLEAN ELSE {TRUE}

\* The server's FastConnection on c is up: mpConnection and mpKcpTunnel are set.
Attached(c) == sess[c] \in {"live", "shut"} /\ stun[c] # None

\* Channels after the client closes its end of every connection in C.
UpAfterClose(C, told) ==
  [c \in Conns |-> IF c \in C /\ told /\ (sess[c] = "none" \/ Attached(c))
                   THEN Append(up[c], Fin) ELSE up[c]]
DownAfterClose(C) == [c \in Conns |-> IF c \in C THEN <<>> ELSE down[c]]

\* What connect() may give: a fresh connection, or None when it fails at once.
Unused == {c \in Conns : cst[c] = "unused"}
NextConn == Unused \cup {None}
CstAfter(old, new) ==
  [c \in Conns |-> IF c = old THEN "closed"
                   ELSE IF c = new THEN "connecting" ELSE cst[c]]

\* Of the failures counted against MaxFaults: n, and a failing connect().
Count(n, connecting, new) ==
  /\ faults' = IF connecting /\ new = None /\ Unused # {}
               THEN faults + n + 1 ELSE faults + n
  /\ faults' <= MaxFaults

\* FastConnection::shutdown() forgets the client's tunnel.
KeepClientTunnel(b)    == ctun' = ctun      \* mutation: mpKcpTunnel stays set
ReleaseClientTunnel(b) == ctun' = [ctun EXCEPT ![b] = None]

\* FastConnection::shutdown() on the client, then _reconnectExternal(), which
\* connects again only ten seconds after the last time.
DropAndReconnect(b, told, n) ==
  /\ ReleaseClientTunnel(b)
  /\ up' = UpAfterClose({ext[b]}, told)
  /\ down' = DownAfterClose({ext[b]})
  /\ \E new \in IF cool[b] THEN NextConn ELSE {None} :
       /\ ext' = [ext EXCEPT ![b] = new]
       /\ cst' = CstAfter(ext[b], new)
       /\ Count(n, cool[b], new)
  /\ cool' = [cool EXCEPT ![b] = FALSE]
  /\ UNCHANGED <<bridge, crashes>>

\* Client::onAccept.  A connect() that fails at once drops the bridge.
AcceptLocal(b) ==
  /\ bridge[b] = "unused"
  /\ \E new \in NextConn :
       /\ ext' = [ext EXCEPT ![b] = new]
       /\ cst' = CstAfter(None, new)
       /\ bridge' = [bridge EXCEPT ![b] = IF new = None THEN "gone" ELSE "live"]
       /\ Count(0, TRUE, new)
  /\ UNCHANGED <<ctun, cool, serverVars, netVars, crashes>>

\* handleOutputNotification of a connecting socket: it is connected.
ConnectDone(b) ==
  /\ Open(b) /\ ext[b] # None /\ cst[ext[b]] = "connecting"
  /\ cst' = [cst EXCEPT ![ext[b]] = "connected"]
  /\ UNCHANGED <<bridge, ext, ctun, cool, serverVars, netVars, countVars>>

\* The control connection fails under the client: refused while connecting,
\* or reset later.
ClientError(b) ==
  /\ Open(b) /\ ext[b] # None
  /\ \E told \in Told : DropAndReconnect(b, told, 1)
  /\ \/ UNCHANGED sess
     \/ /\ cst[ext[b]] = "connecting" /\ sess[ext[b]] = "none"
        /\ sess' = [sess EXCEPT ![ext[b]] = "gone"]
  /\ UNCHANGED <<stun, sup, heard, pool>>

ClientHears(b) ==
  /\ Open(b) /\ ext[b] # None /\ cst[ext[b]] = "connected"
  /\ down[ext[b]] # <<>>

\* MsgId_CreateKcpTunnel: a tunnel is made and confirmed.
ClientRecvCreate(b) ==
  /\ ClientHears(b)
  /\ LET c == ext[b]
         m == Head(down[c])
     IN  /\ m.type = "Create"
         /\ m.conv \notin ClientTunnels
         /\ ctun' = [ctun EXCEPT ![b] = m.conv]
         /\ up' = IF Attached(c)
                  THEN [up EXCEPT ![c] = Append(@, Confirm)] ELSE up
         /\ down' = [down EXCEPT ![c] = Tail(@)]
  /\ UNCHANGED <<bridge, ext, cool, cst, serverVars, countVars>>

\* MsgId_CreateKcpTunnel when the group still holds that conv:
\* onCreateKcpTunnelFailed reconnects, but only after the ten seconds.
ClientRecvDuplicate(b) ==
  /\ ClientHears(b)
  /\ LET m == Head(down[ext[b]]) IN m.type = "Create" /\ m.conv \in ClientTunnels
  /\ IF cool[b]
     THEN DropAndReconnect(b, TRUE, 0)
     ELSE /\ down' = [down EXCEPT ![ext[b]] = Tail(@)]
          /\ UNCHANGED <<clientVars, up, countVars>>
  /\ UNCHANGED serverVars

\* End of stream on the control connection: onDisconnected.
ClientRecvFin(b) ==
  /\ ClientHears(b)
  /\ Head(down[ext[b]]) = Fin
  /\ DropAndReconnect(b, TRUE, 0)
  /\ UNCHANGED serverVars

\* ss-local sends while the control connection is not up: ClientBridge::onRecv
\* retries, the only trigger left once a reconnection was skipped or failed.
\* A connect() still pending after ten seconds counts as a failure.
RetryDue(b) == bridge[b] = "live" /\ cool[b]
RetryOnlyIfPending(b) ==                    \* mutation: a lost one is not retried
  /\ RetryDue(b)
  /\ ext[b] # None /\ cst[ext[b]] = "connecting" /\ DropAndReconnect(b, TRUE, 1)
  /\ UNCHANGED serverVars
RetryOnData(b) ==
  /\ RetryDue(b)
  /\ \/ ext[b] = None /\ DropAndReconnect(b, TRUE, 0)
     \/ ext[b] # None /\ cst[ext[b]] = "connecting" /\ DropAndReconnect(b, TRUE, 1)
  /\ UNCHANGED serverVars

\* Ten seconds pass since the last connect().
CoolDown(b) ==
  /\ Open(b) /\ ~cool[b]
  /\ cool' = [cool EXCEPT ![b] = TRUE]
  /\ UNCHANGED <<bridge, ext, ctun, cst, serverVars, netVars, countVars>>

\* ss-local closes or its connection fails: onBridgeShut.
LocalClose(b) ==
  /\ bridge[b] = "live"
  /\ bridge' = [bridge EXCEPT ![b] = "shut"]
  /\ UNCHANGED <<ext, ctun, cool, cst, serverVars, netVars, countVars>>

\* The client leaves the bridges in B, closing their control connections.
DropBridges(B, told) ==
  LET C == {ext[b] : b \in B} IN
  /\ bridge' = [b \in Bridges |-> IF b \in B THEN "gone" ELSE bridge[b]]
  /\ ext' = [b \in Bridges |-> IF b \in B THEN None ELSE ext[b]]
  /\ ctun' = [b \in Bridges |-> IF b \in B THEN None ELSE ctun[b]]
  /\ cst' = [c \in Conns |-> IF c \in C THEN "closed" ELSE cst[c]]
  /\ up' = UpAfterClose(C, told)
  /\ down' = DownAfterClose(C)
  /\ UNCHANGED <<cool, serverVars>>

\* Client::update, the last call of the main loop: every shut bridge goes.
ClientUpdate ==
  LET B == {b \in Bridges : bridge[b] = "shut"} IN
  /\ B # {}
  /\ DropBridges(B, TRUE)
  /\ UNCHANGED countVars

\* The client process ends; a new one starts with no bridge.
ClientCrash ==
  /\ crashes < MaxCrashes /\ crashes' = crashes + 1
  /\ \E told \in Told : DropBridges({b \in Bridges : Open(b)}, told)
  /\ UNCHANGED faults

-----------------------------------------------------------------------------
(* The server: FastConnection on a ServerBridge.                           *)

ServerTunnels == {stun[c] : c \in Conns} \ {None}

\* A message reaches the client unless its end is closed.
Send(c, msgs) == [down EXCEPT ![c] = IF cst[c] = "closed" THEN @ ELSE @ \o msgs]

\* A connection is in the listen backlog; the client may have closed it since.
InBacklog(c) == cst[c] # "unused" /\ sess[c] = "none"

\* Server::onAccept with a conv, a tunnel, and a connecting ss-server socket.
Accept(c) ==
  /\ InBacklog(c) /\ pool # <<>> /\ Head(pool) \notin ServerTunnels
  /\ sess' = [sess EXCEPT ![c] = "live"]
  /\ stun' = [stun EXCEPT ![c] = Head(pool)]
  /\ pool' = Tail(pool)
  /\ down' = Send(c, <<Create(Head(pool))>>)
  /\ UNCHANGED <<sup, heard, up, clientVars, countVars>>

\* Sending Create meets a reset connection: onError shuts the FastConnection
\* before the bridge is its handler, and acceptConnection still returns true.
AcceptZombie(c) ==
  /\ InBacklog(c) /\ pool # <<>> /\ cst[c] = "closed"
  /\ sess' = [sess EXCEPT ![c] = "live"]
  /\ pool' = Append(Tail(pool), Head(pool))
  /\ up' = [up EXCEPT ![c] = <<>>]
  /\ UNCHANGED <<stun, sup, heard, down, clientVars, countVars>>

\* The socket, the tunnel or the connection to ss-server cannot be made; only
\* the last comes after Create was sent.  The id goes to the back of the pool.
AcceptAborted(c) ==
  /\ InBacklog(c) /\ pool # <<>>
  /\ faults < MaxFaults /\ faults' = faults + 1
  /\ sess' = [sess EXCEPT ![c] = "gone"]
  /\ pool' = Append(Tail(pool), Head(pool))
  /\ \E msgs \in {<<Fin>>, <<Create(Head(pool)), Fin>>} : down' = Send(c, msgs)
  /\ up' = [up EXCEPT ![c] = <<>>]
  /\ UNCHANGED <<stun, sup, heard, clientVars, crashes>>

\* No conv is available: the bridge is deleted, connfd is never closed.
AcceptLeaks(c) ==
  /\ InBacklog(c) /\ pool = <<>>
  /\ sess' = [sess EXCEPT ![c] = "leaked"]
  /\ UNCHANGED <<stun, sup, heard, pool, netVars, clientVars, countVars>>

\* MsgId_ConfirmCreateKcpTunnel: the tunnel may carry data.
ServerRecvConfirm(c) ==
  /\ Attached(c) /\ up[c] # <<>> /\ Head(up[c]) = Confirm
  /\ sup' = [sup EXCEPT ![c] = TRUE]
  /\ up' = [up EXCEPT ![c] = Tail(@)]
  /\ UNCHANGED <<sess, stun, heard, pool, down, clientVars, countVars>>

\* FastConnection::shutdown() destroys the server's tunnel and restores its id.
ReleaseKeepsTunnel(c) ==                    \* mutation: mpKcpTunnel stays set
  /\ sup' = [sup EXCEPT ![c] = FALSE]
  /\ pool' = Append(pool, stun[c])
  /\ UNCHANGED stun
ReleaseStaysUp(c) ==                        \* mutation: mbTunnelConnected stays set
  /\ stun' = [stun EXCEPT ![c] = None]
  /\ pool' = Append(pool, stun[c])
  /\ UNCHANGED sup
ReleaseTunnel(c) ==
  /\ stun' = [stun EXCEPT ![c] = None]
  /\ sup' = [sup EXCEPT ![c] = FALSE]
  /\ pool' = Append(pool, stun[c])

\* FastConnection::shutdown() on the server and onBridgeShut.
ServerDrops(c, told) ==
  /\ sess' = [sess EXCEPT ![c] = "shut"]
  /\ ReleaseTunnel(c)
  /\ down' = IF told THEN Send(c, <<Fin>>) ELSE down
  /\ up' = [up EXCEPT ![c] = <<>>]
  /\ UNCHANGED <<heard, clientVars>>

ServerRecvFin(c) ==
  /\ Attached(c) /\ up[c] # <<>> /\ Head(up[c]) = Fin
  /\ ServerDrops(c, TRUE)
  /\ UNCHANGED countVars

ServerError(c) ==
  /\ Attached(c)
  /\ faults < MaxFaults /\ faults' = faults + 1
  /\ \E told \in Told : ServerDrops(c, told)
  /\ UNCHANGED crashes

\* A heartbeat makes its round trip behind whatever is in flight.
Heartbeat(c) ==
  /\ sess[c] = "live" /\ stun[c] # None /\ ~heard[c]
  /\ cst[c] = "connected" /\ up[c] = <<>> /\ down[c] = <<>>
  /\ heard' = [heard EXCEPT ![c] = TRUE]
  /\ UNCHANGED <<sess, stun, sup, pool, netVars, clientVars, countVars>>

\* Two minutes without a response, after at least one: onExtConnError puts the
\* bridge on the shut list but leaves its FastConnection alone until update.
HeartbeatTimeout(c) ==
  /\ sess[c] = "live" /\ stun[c] # None /\ heard[c]
  /\ \/ cst[c] = "closed" /\ UNCHANGED faults
     \/ cst[c] = "connected" /\ faults < MaxFaults /\ faults' = faults + 1
  /\ sess' = [sess EXCEPT ![c] = "shut"]
  /\ UNCHANGED <<stun, sup, heard, pool, netVars, clientVars, crashes>>

\* The orders in which a set of pointers lists the ids in V.
Orders(V) == {s \in [1 .. Cardinality(V) -> V] : IsInjective(s) /\ Range(s) = V}

\* mShutedBridges, and the ids its members still hold.
OnlyDisconnected == {c \in Conns : sess[c] = "shut" /\ stun[c] = None}
                                            \* mutation: timed-out ones are missed
ShutSessions == {c \in Conns : sess[c] = "shut"}
EveryId(C) == {stun[c] : c \in C}           \* mutation: mpKcpTunnel is not tested
IdsOf(C) == {stun[c] : c \in C} \ {None}

\* Server::update, the last call of the main loop: every shut bridge goes,
\* in the order of the bridges' addresses.
ServerUpdate ==
  LET C == ShutSessions IN
  /\ C # {}
  /\ \E order \in Orders(IdsOf(C)) : pool' = pool \o order
  /\ sess' = [c \in Conns |-> IF c \in C THEN "gone" ELSE sess[c]]
  /\ stun' = [c \in Conns |-> IF c \in C THEN None ELSE stun[c]]
  /\ sup' = [c \in Conns |-> IF c \in C THEN FALSE ELSE sup[c]]
  /\ down' = [c \in Conns |-> IF c \in C /\ stun[c] # None /\ cst[c] # "closed"
                              THEN Append(down[c], Fin) ELSE down[c]]
  /\ up' = [c \in Conns |-> IF c \in C THEN <<>> ELSE up[c]]
  /\ UNCHANGED <<heard, clientVars, countVars>>

\* The server process ends and a new one starts, with a fresh pool.
ServerCrash ==
  /\ crashes < MaxCrashes /\ crashes' = crashes + 1
  /\ sess' = [c \in Conns |-> IF cst[c] = "unused" THEN "none" ELSE "gone"]
  /\ stun' = [c \in Conns |-> None]
  /\ sup' = [c \in Conns |-> FALSE]
  /\ pool' = InitPool
  /\ \E told \in Told :
       down' = [c \in Conns |->
                  IF /\ told /\ cst[c] \in {"connecting", "connected"}
                     /\ sess[c] \in {"none", "leaked"} \/ Attached(c)
                  THEN Append(down[c], Fin) ELSE down[c]]
  /\ up' = [c \in Conns |-> <<>>]
  /\ UNCHANGED <<heard, clientVars, faults>>

-----------------------------------------------------------------------------
ClientStep(b) ==
  \/ ConnectDone(b) \/ ClientRecvCreate(b) \/ ClientRecvDuplicate(b)
  \/ ClientRecvFin(b) \/ CoolDown(b)

ServerStep(c) ==
  \/ Accept(c) \/ AcceptZombie(c) \/ AcceptLeaks(c)
  \/ ServerRecvConfirm(c) \/ ServerRecvFin(c)

Next ==
  \/ \E b \in Bridges : \/ ClientStep(b) \/ AcceptLocal(b) \/ ClientError(b)
                        \/ RetryOnData(b) \/ LocalClose(b)
  \/ \E c \in Conns : \/ ServerStep(c) \/ AcceptAborted(c) \/ ServerError(c)
                      \/ Heartbeat(c) \/ HeartbeatTimeout(c)
  \/ ClientUpdate \/ ServerUpdate \/ ClientCrash \/ ServerCrash

Spec == Init /\ [][Next]_vars

(***************************************************************************)
(* The event loops deliver what has arrived, run update() every turn and   *)
(* let the ten seconds pass; the heartbeat timer of a session whose client *)
(* is gone fires in the end.  Nothing obliges ss-local to act, connections *)
(* to fail or processes to crash.                                          *)
(***************************************************************************)
LoopFairness ==
  /\ \A b \in Bridges : WF_vars(ClientStep(b))
  /\ \A c \in Conns : /\ WF_vars(ServerStep(c))
                      /\ WF_vars(HeartbeatTimeout(c) /\ cst[c] = "closed")
  /\ WF_vars(ClientUpdate) /\ WF_vars(ServerUpdate)

\* Besides, ss-local goes on sending.
LocalKeepsSending == \A b \in Bridges : WF_vars(RetryOnData(b) /\ ext[b] = None)

FairSpec == Spec /\ LoopFairness
BusySpec == FairSpec /\ LocalKeepsSending

-----------------------------------------------------------------------------
\* The ids of the pool and of the server's tunnels partition Convs: no id is
\* lost, handed out twice, or restored twice (genNewId, restorId, and the
\* tunnel table createTunnel searches).
ConvPartition ==
  /\ IsInjective(pool)
  /\ Range(pool) \cap ServerTunnels = {}
  /\ Range(pool) \cup ServerTunnels = Convs
  /\ \A c, d \in Conns : stun[c] = stun[d] /\ stun[c] # None => c = d

\* The assertion of fast_connection.cpp:206: Create never finds a tunnel.
CreateFindsNoTunnel ==
  \A b \in Bridges : ClientHears(b) /\ Head(down[ext[b]]).type = "Create"
                     => ctun[b] = None

\* The two ends of one control connection never hold different convs.
EndsAgree ==
  \A b \in Bridges : ext[b] # None /\ ctun[b] # None /\ Attached(ext[b])
                     => stun[ext[b]] = ctun[b]

\* The server sends on a tunnel (mbTunnelConnected) only once the client has
\* registered it, for as long as the client holds the connection.
ConfirmedMeansRegistered ==
  \A c \in Conns : sup[c] => \/ cst[c] = "closed"
                             \/ \E b \in Bridges : ext[b] = c /\ ctun[b] = stun[c]

\* ikcp.h: a conv must identify one connection at both ends.
ConvBindsOneConnection ==
  \A b \in Bridges, c \in Conns :
    ctun[b] # None /\ ctun[b] = stun[c] => ext[b] = c

\* An id whose client is gone comes back to the pool, provided the server was
\* told or has heard one heartbeat response.
ConvReclaimed ==
  \A c \in Conns :
    /\ Attached(c) /\ cst[c] = "closed"
    /\ heard[c] \/ (up[c] # <<>> /\ Last(up[c]) = Fin)
    ~> stun[c] = None

\* The peer of a connected bridge vanished without a word, or the pool was empty:
\* nothing tells the client.
Abandoned(b) ==
  /\ ext[b] # None /\ cst[ext[b]] = "connected"
  /\ sess[ext[b]] \in {"shut", "gone", "leaked"} /\ Fin \notin Range(down[ext[b]])

\* A bridge in use gets a confirmed tunnel, whatever connections fail first,
\* unless it is abandoned.
TunnelComesUp ==
  \A b \in Bridges :
    bridge[b] = "live" ~> \/ bridge[b] # "live" \/ Abandoned(b)
                          \/ ext[b] # None /\ ctun[b] # None /\ sup[ext[b]]

=============================================================================
