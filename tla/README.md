# A verification project for fasttun

fasttun forwards TCP connections over KCP. `tun-cli` accepts connections from
`ss-local`; for each it opens a control TCP connection to `tun-svr`, which makes
a KCP tunnel, tells the client its conversation id, and connects to `ss-server`.
Data then go `ss-local - tun-cli - KCP over UDP - tun-svr - ss-server` and back.
Each process is single-threaded: one event loop that handles ready descriptors,
updates the tunnels, runs timers, and deletes what was shut down.

## The system and where it is hard

| Part | State | Operations | Hard because |
|---|---|---|---|
| Sessions (`client.cpp`, `server.cpp`, `fast_connection.cpp`) | bridges and their lives, the control connection and the tunnel of each end, `s_convGen`, `mbTunnelConnected`, the time of the last `connect()`, the heartbeat record | accept, connect, `onRecvMsg`, `shutdown`, `_reconnectExternal`, `onTimeout`, `update` | two processes with a channel that may break under either; ids are reused; retries are dropped inside ten seconds; a bridge lives on between `onBridgeShut` and `update` |
| Data path (same files) | `FastConnection::mCache`, `ServerBridge::mCache`, the connection to `ss-server` | `send`, `_flushAll`, `onRecv`, `_reconnectInternal` | data wait in three caches while either end reconnects |
| Framing (`message_receiver.h`) | bytes of a length and of a body received so far | `input` | a byte stream is cut anywhere; lengths are eight bits |
| Cache (`cache.h`, `disk_cache.cpp`) | a list, a file with one position, two counters | `cache`, `flushAll`, `empty` | order over two stores; the file's position is shared by reading and writing; writes fail |
| KCP (`ikcp.c`) | send and receive queues and buffers, numbers, windows, acknowledgements, probes | `ikcp_send`, `ikcp_recv`, `ikcp_input`, `ikcp_flush` | loss, repetition, reordering, stale acknowledgements and windows |
| Tunnel (`kcp_tunnel.inl`, `kcp_tunnel.h`) | a control block, a send cache, on the server the client's address and what waits for it | `send`, `update`, input and output notifications | a full control block, and a server that cannot speak first |
| TCP connection (`connection.cpp`) | status, pending packets, event registrations | `connect`, `send`, notifications | partial writes, errors found late, handlers that delete it |
| UDP senders (`udppacket_sender.cpp`, the group in `kcp_tunnel.inl`) | datagrams that wait, per tunnel; the set of senders that wait; one socket | `send`, both `handleOutputNotification`, `regOutputNotification` | tunnels share one write registration; a sender leaves the set that is being walked |
| Event pollers, listener (`event_poller.cpp`, `epoll_poller.cpp`, `select_poller.cpp`, `listener.cpp`) | a table of handlers per way, what the kernel was asked for | register, `processPendingEvents`, accept | descriptors are closed and reopened while a batch of events is served; `select()` refuses high ones |
| Main loop and timers (`main` of both programs, `fasttun_base.h`, `ikcp_check`, `ikcp_update`) | `curClock`, `nextKcpUpdateInterval`, `ts_flush`, `resendts`, `ts_probe`, the times of a heartbeat record | a turn of the loop | a clock of 32 bits that starts again, times read before a wait and used after it, processes that sleep |

A control connection carries `Create(conv)` down, `Confirm` up, and heartbeats.
Closing a FastConnection destroys its tunnel and gives the id back. The parts
meet in three ways: callbacks (`onConnected`, `onDisconnected`, `onError`,
`onRecv`), the tunnel table of the group, and the event loop, whose last call in
a turn is `update()` of the client or server.

What makes each part correct:

* sessions: an id is in the pool or in one tunnel; the ends of a connection agree
  on the tunnel; the server uses a tunnel only when the client has it; ids come
  back; a bridge in use gets a tunnel;
* data path: each direction is a queue while nothing fails; when something does,
  what still arrives is in order and nothing comes twice, and a connection to
  ss-server has no hole until a write to it is told to have failed;
* framing, cache, KCP, tunnel, TCP connection, sender: each is a queue, whatever
  the chunks, the file, the sockets or the network do;
* pollers and registrations: whoever waits is registered, whoever is registered
  waits and still exists, and each descriptor has one owner;
* loop: nothing that is due stays undone for longer than the turns it falls into.

## The modules

`Fifo` is the abstract specification: what came in, what came out, and the queue
in between. `Cache`, `Connection`, `KcpTunnel` (each direction), `ProxyPath`
(each direction) and the sender of `UdpQueues` are shown to implement it under a
refinement mapping that reads the three off their state. `Cache` does until a write to its file fails, a
`Connection` until its handler is told of its end.

`FastTunnel` is the control plane. `bridge`, `ext`, `ctun`, `cool` are a
ClientBridge; `sess`, `stun`, `sup`, `heard` a ServerBridge; `pool` is
`s_convGen`; `cst` is the client's end of a control connection; `up` and `down`
are the messages on their way. One action is one handler with all it calls: for
instance `ClientError` is the notification, `FastConnection::onError`,
`shutdown()` with the return of the tunnel, and `_reconnectExternal` with the
`connect()` it makes if ten seconds have passed. A connection is used once. `Fin`
stands for end of stream; a fault may keep it from the peer (`SilentFaults`).
The heartbeat is one round trip, recorded in `heard`. The server's pool is a
queue, as in the code, so which id is next is exact.

`ProxyProofs` begins with the theorems about it.

`ProxyPath` extends `FastTunnel`: every action of the control plane is joined
with what it does to the data, and the data get steps of their own (`LocalSend`,
`TunnelUp`, `TunnelDown`, `IntConnected`, `IntLost`, `SrvSend`). A tunnel is
here what `KcpTunnel` shows it to be, a queue per direction, until an end is
destroyed; then a first part of what it held may still arrive. The server's
tunnel carries nothing down until `addr` is known. `int` follows `mIntConn`: a
connection on which a write failed inside the second of `_reconnectInternal` stays
`deaf` (its events are deregistered, its status is not changed) until something
reconnects it. The failure may have been a stale errno behind a write that was cut
short, which drops the rest of the packet: so a deaf connection may take later data
(`SendToServer`) or refuse them (`SendFails`). A new connection takes the cache in one
go (`StartWithCache`); when a write of it fails, `flush()` still returns true, the
rest is dropped, and the others go to the same socket or, after a new `connect()`,
nowhere (`StartFails`). `toServer` lists the data that were given whole.

`MessageReceiver` has the state and the actions of `input()` over bytes; `Base`
stands for 256, `HeadLen` for `sizeof(SizeType)`. A step is a turn of its loop.

`Cache` is `cache()` and `flushAll()` over a list and a file of records with one
position.

`Kcp` is the control block as a record and the functions of `ikcp.c` as
operators on it: `Input` is `ikcp_input`, `Numbered`, `Flushed`, `Segments` and
`Pack` are the parts of `ikcp_flush`, `Recv` is `ikcp_recv`. A datum is one mss.
Numbers count modulo `SnMod` and are compared as `_itimediff` does; a tunnel
stays below half of them (2^31 segments), because the network may keep a datagram
for ever and would bring back a number that is in use again. Timers are inputs: a
flush may find any set of segments due. `KcpTunnel` puts two of them on a network
that loses, repeats and reorders, with the splitting and the cache of
`kcp_tunnel.inl` above and the address of `kcp_tunnel.h` below.

`Connection` is one socket from `connect()` or accept to `shutdown()`, which
leaves the object as it was. `pending` is the list of cached packets as the bytes
still to send; `room` is what the socket takes before the peer reads. errno is no
variable: after a write that failed it is what that call set, after a partial or a
complete one whatever an earlier call in the process left, so
`checkSocketErrors()` may then report a healthy connection (`SendTells`, the last
disjunct of `Flush`). A handler that is told shuts the connection down or, as a
`ServerBridge` inside its second, keeps it: connected by its status, without
events, and still sending. `keeper` tells which of the two a connection has.
`Input` is the read loop with its blocks and its limit. `Runs` has the two
operators on numbered data that `Connection` and the senders share.

`ControlStream` composes the two: what `Connection` reads is fed, behind a count
that is cut to a `SizeType`, to `MessageReceiver`, and each message may be answered
on the same connection, or shut it down, while the bytes behind it are still to be
parsed (`Handles`). A FastConnection may so delete its Connection, and free the
bytes, from within `onRecv` (`freed`). The receiver may start with what an earlier
connection left; opening one clears it. But a handler of a message may connect anew
(a refused Create or Confirm, through `onCreateKcpTunnelFailed` and
`_reconnectExternal`), and `input()` then goes on with the bytes behind that message
(`Rests`): they are parsed, answered and delivered in the life of the next
connection, after the clear, and a part of a message they end with is there when its
own first bytes come (`late`; `Starts` if they find none). The module is one such
life: what came before it is in `Leftovers` and `Rests`, and a handler that connects
anew ends it, as one that shuts it down (`Deletes`).

`UdpSenders` is the group of one socket: `udp` holds the lists of the senders, the
two flags, the group's list and the room of the socket; `life` and `settled` are the
tunnels. `Visit` is one turn of the walk in `handleOutputNotification`. A sender
that sent its last datagram erases itself from the set that is walked, and the
iterator that goes on is one of a freed node: the walk may then visit anything
that is left, stop, or crash. `UdpQueues` states the queue of one tunnel, `This`,
that stands for each.

`EventPoller` is both pollers' tables, and `EventLoop` the client's loop over them:
sockets by descriptor, the two connections of each bridge, the listener, and a
batch of events of which one is served at a time. `parts` of an event is what the
kernel reported; when it is served, the tables of that moment decide who is
called. Descriptors are given out lowest first, as the kernel does, so a bridge
made in the middle of a batch gets the number, and perhaps the event, of one
that is gone. A handler is an operator from a record of the process to the set of
records it may leave, because handlers call each other.

`KcpTimers` is the part of a control block that has to do with time (`ts_flush`,
`resendts`, `ts_probe`, and `ikcp_check`, `ikcp_update` and the ends of `ikcp_flush`
that set them), with `Itimediff` as the 32-bit difference modulo `ClockMod`.
`MainLoop` puts it into a turn of either program: the wait and its length, the
handlers and what time they take, `update()` of the group, the two timers of a
server's session with `isTimeout()`. Time passes one unit at a time in the wait
(`Waits`) and in the handlers (`Works`), or at once while the process is stopped
(`Nap`). The ages are history: how long since a flush, a send, an answer.

`ProxyProofs` (also about `FastTunnel`), `KcpTunnelProofs` (also about `Kcp`),
`CacheProofs`, `ConnectionProofs` (also about `ControlStream`), `UdpSendersProofs`
(also about `UdpQueues`), `EventLoopProofs` (also about `EventPoller`) and
`MainLoopProofs` (also about `KcpTimers`) hold the theorems; `RunLemmas` what they
share about sequences and induction. The `MC` modules give constants that a configuration cannot.

## The runs

| Run | Shows | Bounds |
|---|---|---|
| tunnel_safety | `ConvPartition`, `CreateFindsNoTunnel`, `EndsAgree`, `ConfirmedMeansRegistered` | 2 bridges, 3 connections, 2 ids, 1 silent failure, 1 crash |
| tunnel_live | `ConvReclaimed`, `TunnelComesUp` | 1 bridge, 3 connections, 3 ids, 2 failures, silent ones among them |
| tunnel_conv_reuse | finding: `ConvBindsOneConnection` is violated | 1 crash |
| cache | `IsFifo`, `EmptyIsExact`, `NeverTwice` | 5 packets of two lengths, memory for two or three, 2 failing writes |
| control_stream | `StreamIsFifo`, `EventsMatch`, `DeliversInOrder`, `NothingWithheld`, `Drains`, `EndIsTold` | 2 messages in, half a length or a message left to parse, 4 bytes out through a room of 2, reads by blocks of 2 up to 6 bytes, counts modulo 4 |
| proxy_faults | `UploadIsFifo`, `DownloadIsFifo`, `UploadDelivered`, `UploadInOrder`, `DownloadInOrder` | 3 data up, 2 down and 3 in all, 2 sessions, 1 failure, ss-local may close |
| proxy_server_first | finding: `DownloadDelivered` is violated | 1 session, no failure |
| kcp_safety | `DownlinkIsFifo`, `WindowHolds` | windows of 2, 3 units down in one packet and 1 up, 2 datagrams down, reordered |
| kcp_settles | `UplinkIsFifo`, `Settles` | window of 1, 3 units in packets of one or two |
| udp_senders | `WatchedWhileWaiting`, `DatagramsInOrder`, `NoneStarved` | 3 tunnels of a server, 2 datagrams each, room for 1 |
| event_loop | `TablesMatch`, `OneOwner`, `OnlyItsOwnEnd`, `EndsAreNoticed` | 2 bridges, 4 descriptors of which `select()` takes 3, 3 ends, failures or silences, both pollers |
| main_loop | `FlushesInTime`, `ResendsInTime`, `AsksInTime`, `HeartBeatInTime`, `SilenceIsNoticed`, `OnlySilentIsGivenUp` | a clock of 36 units from any reading, an interval of 1, handlers of 0 or 1, 2 segments, one stop of the process per session |

The type invariants are conjuncts of `EmptyIsExact`, `NothingWithheld`,
`UploadInOrder`, `WindowHolds`, `WatchedWhileWaiting`, `TablesMatch` and
`FlushesInTime`; `tunnel_safety` checks that of `FastTunnel` by itself.

Two bridges, three connections and two ids are the least in which an id passes
from one bridge to another and back while a third connection is in the backlog.
Two ids with three connections empty the pool. Three units through a window of
one or two make the window close, the number of a retransmission meet a newer
one, and (window one) the send cache fill. Two messages read in blocks of two
after whatever has arrived are cut at every length and every body, and six bytes
in one call go past the modulus of the count, as 256 do. Four bytes through a room of two
make writes that are taken whole, in part and not at all, over cached bytes and without;
six bytes reach the read limit. In `ProxyPath` two sessions are what a
repetition needs, and three data, with one failure, what a hole between two that
arrive needs: one given, one lost by a write, one given through the same socket. Three senders are what a walk needs to leave one out after
one that erased itself and before one that has to be visited; room for one makes
every second datagram wait. Two bridges with four descriptors let one bridge
inherit the numbers of the other in the batch that closed them, run out of
descriptors between the accept and the `socket()` of a bridge, and hold one that
`select()` refuses. In `main_loop` the numbers keep the order of the real ones
(work and interval, rto, ten seconds of `ikcp_update`, heartbeat, four heartbeats,
half the clock), the clock starts at any reading, so that it starts again at every
point of a session, and the stops last a quarter of the clock, more than half of
it, which makes `_itimediff` change its sign, and nearly all of it; a server's, whose
timers must stay within half of the clock, last the quarter.

### Fairness

`FastTunnel`: the loops deliver what has arrived (`ClientStep`, `ServerStep`),
call `update()` every turn, let ten seconds pass and run the heartbeat timer of a
session whose client is gone. Nothing makes connections fail or processes crash.
`TunnelComesUp` also needs `ss-local` to go on sending: the code retries a lost
connection only then, and without that assumption it does not hold.
`TunnelComesUp` excepts a bridge that is `Abandoned`: its server gave the session
up, or is gone, and nothing of the connection's end is on the way, so the client
learns of it only from the system's TCP, which the code sets no timer for.
`ControlStream` is as fair as its event loop, with `input()` ending and a peer that
reads. `UdpSenders`: the loop turns, a walk goes on, and the network takes what is
in the socket; a tunnel whose peer has no route is excepted. `EventLoop`: the
three kinds of step of a turn; nothing makes a peer or the network act.
`MainLoop` needs none: its properties bound how long, by the clock.
`ProxyPath` is as fair as its loops, with `ss-server` accepting in the end, and only
until something fails or closes (`Clean`): `UploadDelivered` asks no more.
`KcpTunnel`: the loop flushes again and again and a datagram sent again and again
is not always lost; that is the strong fairness of `KindUpdate` and `KindInput`,
flushes with every timer passed and nothing lost. The second is written with what
enables it, which is the same formula and cheaper to check.

Deadlock is not checked where every bound can be used up; the system may stop
there.

## What is proved

`ProxyProofs` is in its first part about the control plane, `FastTunnel`, for every set
of bridges and connections, every pool size, and any number of failures and crashes:

* `TypeCorrect`: `Spec => []TypeOK`;
* `ConvPartitionHolds`: `Spec => []ConvPartition`;
* `NewIdIsFree`: the id at the head of the pool is in no tunnel, so the check
  in `createTunnel` cannot fail on the server (the model's `Accept` tests it, the
  theorem shows the test is never false).

`ConvPartition` is inductive together with `TypeOK` and one more fact, that the
pool is injective as a sequence, which is a part of it. The argument follows the
only places that move ids: `Accept` takes the head, `ReleaseTunnel` appends the
id of a tunnel that is forgotten in the same step, `AcceptAborted` and
`AcceptZombie` rotate, `ServerUpdate` appends the ids of all the sessions it
deletes in some order, and `ServerCrash` starts again. The lemmas are about
appending to and rotating injective sequences. The assumptions are those of
`FastTunnel`: the bounds are natural numbers and `None` is neither a connection
nor a number.

The same part goes on to the messages:

* `CreateAlwaysFindsNoTunnel`: `Spec => []CreateFindsNoTunnel`, the assertion that
  would end the client;
* `EndsAlwaysAgree`: `Spec => []EndsAgree`;
* `ConfirmedAreRegistered`: `Spec => []ConfirmedMeansRegistered`.

None of the three is inductive. `Handshake` adds who owns a connection and what may
be in flight on it: no two bridges share one and a bridge's is not closed
(`OneOwner`, `Linked`); a bridge has a tunnel only on a connection that was accepted
(`Paired`) and a session thinks its tunnel is up only if it has one (`UpHolds`);
nothing arrives before a session begins (`Fresh`); Create is the first message of a
connection, carries the id of the session that is left, and finds the bridge without a
tunnel (`CreateFirst`); Confirm is in flight only from a client that has the tunnel or
has closed the connection (`ConfirmAfterCreate`). It rests on `SessionsHoldIds`,
and the proof has one lemma for each way a client or a server
leaves a connection, because most handlers are one of these and a little more.

Its second part is about the data path, for every set of connections, every number of
data and of failures:

* `DownloadAlwaysInOrder`: `DataSpec => []DownloadInOrder`, for any number of bridges;
* `UploadHasNoHoleUntilTold`: `DataSpec => []NoHoleUntilTold`, for any number of
  bridges: a connection to ss-server gets a run of the upload until a write to it is
  told to have failed. Behind that there may be a hole, for the retry limit keeps the
  socket;
* `SessionGivesInOrder`: for any number of bridges, what a session gives over all its
  connections to ss-server, also behind a failed write, rises: it is in order and
  nothing is repeated;
* `UploadAlwaysInOrder`: `DataSpec => []UploadInOrder` if there is one bridge. The
  hypothesis is needed to say it at all: each ss-local numbers its own data from 1, so
  with two bridges the same number on two sessions is not the same datum;
* `UploadAlwaysFifo` and `DownloadAlwaysFifo`: `DataSpec => UploadIsFifo` and
  `DataSpec => DownloadIsFifo`, the refinements of `Fifo` until something fails or
  closes, if there is one bridge (the two properties follow `TheBridge`).

The invariant `PathInv` is `HandshakeInv`, the types, `UploadInv` and `DownloadInv`.
`UploadInv` follows what a session has of the upload from what it gave ss-server over
the cache of the `ServerBridge` to the tunnel (`Stream`), and what of it goes to the
connection it has now, as long as no write to it has failed (`Latest`, `Flow`): the cache of a bridge ends with what ss-local sent
last (`CacheIsRun`); `Flow` has no hole as long as the session has its tunnel, and ends
with what ss-local sent last while the bridge has its, too (`FlowIsRun`); the cache of
the `ServerBridge` holds data only while there is no connection (`IntCached`);
nothing goes up before both ends have the tunnel (`NothingEarly`, from `CreateFirst`);
and a `Stream` only rises, up to what was sent (`StreamGrows`). `DownloadInv` says that
what goes down to a bridge goes on where ss-local has got to, and to what ss-server
sent last (`DownRun`). `OnOneSession` is the addition for one bridge: what is on one
session is neither on another nor in the cache. The steps are sorted into those that
only lose what is at the end of the queues (`UploadRests`, `DownloadRests`), those in
which a bridge sends (`TunnelSends`), those in which a session passes on what came
(`SessionPasses`) and those in which it sends down (`DownSends`); a lemma for each says
that the invariant holds after it, and a lemma for each action, which it is. The
steps that drop data in the middle are the writes to ss-server that fail, of a datum
from the tunnel (`FailurePasses`) or of the cache (`StartFailsPasses`): what is left is
still rising, because it is chosen from something rising (`PartsAreThin`), and the
connection is not one of which `Flow` is claimed.

For the two refinements `CleanInv` is added, what is so until the first failure: no
end has gone, a connection belongs to a bridge and nobody has sent Fin (`Unbroken`),
the connection to ss-server has not been lost (`ServersReached`), what ss-local sent is
on its session from the first datum on and, for the rest, in the cache (`UploadWhole`),
and what ss-local has is of one session, from the first (`DownloadWhole`). No failure
and no end is undone (`StepsSoil`), so a step that leaves the state clean is one of the
few of `CleanStep`, and that the queue is between the two ends (`UploadIsThere`,
`DownloadIsThere`) follows from the invariant after the step. `RetryOnData` is none of
them: it gives up a connection that is still being made, which counts as a failure, or
finds a bridge without one, which only a failure leaves.

Process crashes are no part of either (`ProxyPathAssumption` has `MaxCrashes = 0`, as
the model has), nor are ids used again.

`KcpTunnelProofs`, for every size of windows, datagrams and messages, any number of
units below half of the numbers, and a network that loses, repeats and reorders
whatever it holds:

* `WindowAlwaysHolds`: `Spec => []WindowHolds`;
* `UplinkAlwaysFifo` and `DownlinkAlwaysFifo`: `Spec => UplinkIsFifo` and
  `Spec => DownlinkIsFifo`, the refinement of `Fifo` in each direction, with nothing
  excepted.

`TunnelInv` speaks of each direction by itself (`Flows`), with a function `F` that says
how the units were cut into messages (`IsCut`: `frg` counts down to 0). A number names a
unit, the one after it, wherever it turns up (`Fits`). The sender has its buffer in the
order of the numbers, from `snd_una` to `snd_nxt`, at most the smaller window of them, and
behind it, in `snd_queue` and in the send cache, what follows (`SendsWell`, `WaitsWell`).
The receiver has in `rcv_queue` what follows what it handed over, in `rcv_buf` only
what lies in its window, and acknowledges nothing it has not got (`ReceivesWell`). What
the sender has numbered has arrived or is kept to be sent again (`Keeps`). A
datagram is never bound to the state that sent it: `Said` is what an end may
have said at any time, an acknowledgement of what the end has, a una that is no further
than `rcv_nxt`, a unit under its number, and any window. It only grows (`SaidGrows`), so it does
not matter how old a datagram is, how often it comes and in which order, and a
lost one is no case at all. `Heard` says what `ikcp_input` keeps after each segment
(`InputSegHeard`): acknowledgements only thin the send buffer out (`Thinned`) of what has
arrived. `HandOverIsTied`, `FlushIsTied` and `HeardIsTied` follow the three parts of an update,
and `StepKeeps` says what a step of one end means for both directions. That the number of
a stale datagram is not taken for a new one rests on the assumption that a tunnel stays
below half of the numbers (`DiffIs`, `NumbersHold`); without it the theorems are false.
An advertised window may be of any time, too, so only `snd_una` and a window bound the
sender, not the room the receiver has; `AcknowledgedArrived` says how far apart the two
can be.

`CacheProofs`, for every set of packet lengths, memory limit and number of failing
writes:

* `CacheCountersExact`: `Spec => []EmptyIsExact`;
* `NothingFlushedTwice`: `Spec => []NeverTwice`;
* `CacheIsFifo`: `Spec => IsFifo`, the refinement of `Fifo` until a write fails.

`CacheInv` says of the two counters that the one of the list is exact and the one of
the file at least what is unread, exactly that before the first failing write. Of what
came out, what is in memory and what is unread, put together in this order, it says
that the numbers rise, and that before the first failing write nothing is missing. That
`ToDisk` goes on writing to the file while the counter of the file is not zero is what keeps
the order: memory then never takes what came after something unread.

`ConnectionProofs`, for every size of packets, rooms, blocks and limits:

* `ConnTypeCorrect`: `Spec => []TypeOK`;
* `EventsAlwaysMatch`: `Spec => []EventsMatch`;
* `ConnectionIsFifo`: `Spec => StreamIsFifo`, the refinement of `Fifo`.

The inductive invariant `ConnInv` adds to the two invariants that what the socket
took and what waits are together what was sent (`NothingMissing`), that nothing is
cached before the connection is up (`EmptyTillUp`, without which leaving
"connecting" could lose the write event of cached bytes), and that nothing happens
before the connection is opened. `WriteSplits` says what a partial write does to
the bytes; the two actions that write rest on it, and a step of the queue follows
from the invariant before and after.

Its second part is about `ControlStream`, for any messages, also ones that make the
host delete the connection inside its own handler:

* `ControlIsFifo` and `ControlEventsMatch`, which follow from the theorems about
  `Connection`, because a step of the parser is a step of the connection or leaves it
  alone (the lemma `ControlIsConnection`, true of the module by its shape);
* `AlwaysDeliversInOrder`: `ControlSpec => DeliversInOrder`, an action property;
* `NothingEverWithheld`: `ControlSpec => []NothingWithheld`.

The last two hold for every base and width of a length, every longest message, any
state an earlier connection may have left in the receiver and any bytes it may have
left to parse, with the exceptions of the properties. `FrameInv` says that
while a connection may still read, or has something to parse, what the receiver has
of a length and of a body and what it has still to parse are, one behind the other,
the bytes of the stream that follow the messages it has delivered, up to the last
byte read (`Aligned`); and that one with nothing to parse has withheld nothing
(`AllGiven`). It speaks of a stream whose counts were never cut, of a connection
that was not deleted and of a receiver that no bytes of an earlier one have been
through (`Intact`), as the properties do; a connection that was opened by a handler
becomes intact when its first bytes find no part of a message (`Starts`). It rests on two facts about the
stream: a length that is read is the one that was written (`LengthIsRead`: `Value` of
`Digits`, by the digits one after the other), and a message is where its predecessors
end (`Placed`, of the fold `FlattenSeq` in `Bytes`). That `connect` and
`acceptConnection` clear the receiver is what makes a connection begin aligned
(`OpensKeeps`), and that an error ends it (`Phases`) what keeps it from parsing on
when it no longer is.

`UdpSendersProofs`, for any set of tunnels, any room, client
and server, and any walk that loses its place:

* `AlwaysWatched`: `Spec => []WatchedWhileWaiting`;
* `SenderIsFifo`: `Spec => DatagramsInOrder`, for every tunnel `This`.

`WatchedWhileWaiting` with its types is inductive as it stands, because each of
`Flush`, `Send` and `Drop` leaves the registrations exact (`FlushIsExact`,
`SendIsExact`, `DropIsExact`), wherever the walk calls them. The queue needs beside
it that what was sent, what waits and what is held are what was given (`InOrder`)
and that only a live tunnel holds anything (`OnlyLiveHolds`); `PushSplits` says
what `processSend` does to a list, and `FirstPart` that what a tunnel sent before
it was destroyed begins what it was given. Whether a walk that goes wrong may
crash does not matter to either.

`EventLoopProofs`, for any number of bridges, descriptors and troubles, any limit of
`select()` above the listener, on both pollers:

* `TablesAlwaysMatch`: `Spec => []TablesMatch`;
* `EveryFdHasOneOwner`: `Spec => []OneOwner`;
* `NobodyElsesEnd`: `Spec => OnlyItsOwnEnd`, an action property.

A handler leaves a record of the process, so the invariant is about records, and holds
between the parts of a handler, too. `Sound` says that the kernel was asked for what the
tables hold (`PollerOK`), that the descriptor of a connection is open, its own, and
belongs to a bridge that is still to be deleted, and an open one is somebody's
(`Owned`), and that the tables name who has a descriptor and is registered, unless
`select()` refused it (`Named`). `Fit` says that a connection is registered as its
status and its cached bytes need; inside `send`, `connect` or a notification it does
not hold of the one connection that is being changed (`FitBut`). A lemma for each
operation of the poller and each part of a handler says that it keeps these, and that
what it does not touch stays; a handler puts them together in the order in which it
calls. That `NewFd` gives a number without a table entry (`FreeIsUnnamed`), because
`Close` takes both ways out of the tables before the number is free, is what makes the
reuse of numbers safe. Nothing is needed of the batch: which events wait, and of
whom, does not matter. The same lemmas say of each part of a handler which connections
it leaves alone, with their sockets (`Untouched`); so a bridge that lives either was to
end when the event came or is as it was (`Spares`, which a handler's parts pass on).
`Fit` is needed there, too: `TriggerWrite` calls a connected one only if it has bytes
that wait, and only then may it believe a stale errno.

`MainLoopProofs`, for any width of the clock, any interval, rto, heartbeat and time that
handlers take, any number of segments, and any stop of a client:

* `AlwaysFlushesInTime`: `Spec => []FlushesInTime`;
* `AlwaysResendsInTime`: `Spec => []ResendsInTime`;
* `AlwaysAsksInTime`: `Spec => []AsksInTime`;
* `HeartBeatAlwaysInTime`: `Spec => []HeartBeatInTime`;
* `SilenceAlwaysNoticed`: `Spec => []SilenceIsNoticed`;
* `OnlySilentAreGivenUp`: `Spec => OnlySilentIsGivenUp`, an action property.

The first lemmas are about `_itimediff`: it is the signed distance of two readings
(`Apart`), which time that passes shortens (`Nearer`) and a later time lengthens
(`Further`) as long as it stays within half of the clock. All the rest is to show that
it stays there. For the tunnel, `Floor` says how far `ts_flush` is ahead at least at
each place of a turn: a wait is no longer than `ikcp_check` allows (`NextCallIs`), a
timer of the loop can only shorten it (`WaitIs`), and the handlers of two turns take at
most twice `MaxWork`. Together with each age goes what is left of its time: the age and
the distance of `ts_flush`, of `resendts`, of `ts_probe` never exceed the interval, the
rto, the pause (`FlushFine`, `SegFine`, `ProbeFine`), and what has not been looked at
since a flush was not due then (`Since`). After a stop that takes `ts_flush` past half of
the clock none of that is left; `FarInv` says that the next update flushes, or finds
`ts_flush` within the ten seconds. For the timers, `ClockInv` and `BeatInv` bound how old
`curClock` may be and how late a timer: no more than two turns and a stop (`Latest`).
A heartbeat is late by two turns because the turn that could have sent it compared
with the `curClock` of before its wait. `SilenceInv` follows the checks: none after
`CONNTIMEOUT_TIME` was in vain (`NoneMissed`); or one was, which takes a stop, because
only then the last request is more than two heartbeats old when a check runs before
the heartbeat (`InVain`), and then the next check is due in the next turn (`JustMissed`,
`Recheck`), with a request sent just before it.

Proving these corrected the model: the bounds of `FlushesInTime`, `ResendsInTime` and
`SilenceIsNoticed` held of the stops and the numbers the run had, not of others. They
now say how long the stop was (`napped`) and which stops they leave out (`Astray`), and
`MainLoopAssumption` what they rest on.

The assumptions are the named ones of the modules: bounds are natural numbers,
rooms, blocks, packets and their lengths at least one, the read limit a multiple of the
block, a message shorter than what its length can say (`ControlStreamAssumption`), what
an earlier connection left in a receiver a legal state of it, `None` is none of the
connections, rto, probes and ten seconds shorter than half of the clock, a turn with a
tunnel no longer than half of a heartbeat (15 s), a server not stopped for so long that
its timers leave half of the clock (24 days), fewer units in a tunnel than half of the
numbers less the window, and the listener's descriptor is one that `select()` takes (without a
listener the client does not start).

Some facts need induction over data: what the folds `FlattenSeq` of `Given` and of
`Bytes` and `Total` of the cache compute, what the recursive functions `Weight` and
`Value` of a length are, and that the folds over the bridges that are accepted
(`AcceptAll`) or deleted (`DestroyAll`) keep the invariant, and so do the folds of
`Kcp` and `KcpTunnel` over the segments of a datagram (`Input`), the segments of a flush (`Pack`),
the parts of a packet (`SendPacket`) and the packets of a cache (`FlushCache`). They are proved without a
theorem that takes an operator. `Induction` (`RunLemmas`) is about a set that holds 0
and the successor of each of its numbers; a fold is shown equal to the value of a
function that satisfies its recursion (`Joins` and `ComesOf` in `RunLemmas`, `SumsOf`
in `CacheProofs`, `turns` in `EventLoopProofs`, `Turns` in `KcpTunnelProofs`), and the set is that of the lengths, or
of the sizes, for which there is one.

Only model-checked: the liveness properties `ConvReclaimed`, `TunnelComesUp`,
`UploadDelivered`, `Drains`, `EndIsTold`, `Settles`, `NoneStarved` and
`EndsAreNoticed` (the prover has no fairness or ENABLED). Every invariant and every action
property of the runs, and each refinement, is a theorem.

## What is not modelled

The configuration, the daemon, logging; the submodule `cill`, from which the
clock, the timers and the byte streams are modelled by their use: two timers of
the same time run in either order. The Windows branches of the sockets and the
pollers. The tests.

Of what is modelled: in `Kcp` the congestion window (`nocwnd` is set), the
estimation of round trips (`rx_rto` is any value of `Rtos`), and `dead_link`
(`ikcp.c:1018`), which sets a state nobody reads. In `ProxyPath` what a
Connection keeps of a packet is not told from what the socket took, and of a packet
that was cut and lost only that it is not given whole, and neither process crashes. `FastTunnel` takes a control
connection for a queue of whole messages: that is what `ControlStream` promises of it,
without the exceptions named below. A buffered write that
fails only when stdio flushes it is not in `Cache`. `EventLoop` has the client;
the server's loop is made of the same parts. It serves any number of ready
descriptors, where `epoll_wait` returns ten at a time, and accepts a backlog below
the 32 of the listener; the rest is only served a turn later. A bridge of it that
takes the "connected" of its predecessor's descriptor sends earlier than it should
and meets an error that it handles. Reads of freed members are in `ControlStream`
and `EventLoop` as any outcome they may have.

How many datagrams may wait for a socket (`udppacket_sender.cpp:85`) or bytes for
a connection has no limit in the code, and a bound in the models.

## Findings

1. After a restart of the server the same id names two connections, one at each
   end (`tunnel_conv_reuse`).
2. A server that speaks first is not heard until the client has spoken
   (`proxy_server_first`).

What the models, or the code behind them, also show, without a run of its own
because no statement of the repository speaks of it:

* a read of 256 bytes or more puts the framing out of step (`SizeOf` of
  `MessageReceiver`; `DeliversInOrder` is claimed until a count is `cut`);
* a failing write to the cache file hides what was not read yet (`WriteFails` of
  `Cache`: `IsFifo` is claimed up to the first one);
* a stale errno makes `checkSocketErrors()` report a healthy connection and drop
  what it could not send (`SendTells`, `Flush` of `Connection`: `StreamIsFifo` is
  claimed until an end is told);
* a control connection that fails takes the data of its tunnel with it, and the
  stream goes on in the next session (`ClientTunnelsGone`, `ServerTunnelsGone` of
  `ProxyPath`);
* a write to ss-server that fails, or is cut short and finds an old errno, leaves the
  connection in use while the second of `_reconnectInternal` lasts: it may get later data
  behind the hole, and nothing tells it of the loss (`SendFails`, `StartFails` of
  `ProxyPath`: `NoHoleUntilTold` is claimed until then);
* a connection that the handler of a message opens begins with the rest of the bytes
  of the one before: a part of a message at their end makes its own first message
  wait or come out wrong (`late` of `ControlStream`, which excepts it);
* the walk over the senders goes on from an erased node (`Visit` of `UdpSenders`):
  registrations and order survive whatever it visits, the process may not;
* a message whose answer fails deletes the connection under its own `onRecv`
  (`freed` of `ControlStream`, "crashed" of `EventLoop`), and the order of messages
  is claimed until then;
* a client that falls silent is not given up if the clock starts again after its
  last answer: `isTimeout()` then compares times of before with times of after
  (`wrapped` in `SilenceIsNoticed`);
* a server that was stopped for longer than `CONNTIMEOUT_TIME` while its heartbeat
  timer ran out first sends a request and may then give the client up before it
  could answer (`fasttun_base.h:148`): it was silent, but was not asked;
* `mLastExtConnTime` is compared as an `unsigned long` with a clock of 32 bits, so
  after the clock starts again the ten seconds of `client.cpp:123` seem over at once;
* the loop spins while a segment falls due before the next flush, because
  `ikcp_check` then asks for no wait, for up to an interval;
* on a network that reorders, a sender may go beyond the window of the receiver, by up
  to a window: an advertisement of long ago, of an empty `rcv_queue`, comes last, and
  `snd_una` is at what has arrived, not at what was taken (`ikcp.c:940`). What arrives
  beyond the window is ignored and sent again (`WindowHolds` says how far it goes);
* after a stop of more than half the clock `ts_flush` may look ahead by up to the
  ten seconds of `ikcp_update` (`Stray` in `FlushesInTime`).

## Plan

1. Crashes in `ProxyPath`, which need ids of sessions in the tunnel queues.
2. The server's event loop, with the descriptors of `ss-server` and of the group.
