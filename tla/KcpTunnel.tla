----------------------------- MODULE KcpTunnel -----------------------------
(***************************************************************************)
(* The two ends of one KCP tunnel over UDP: kcp_tunnel.inl and             *)
(* kcp_tunnel.h over the control block of Kcp.  The network loses,         *)
(* repeats and, if Reorders, reorders datagrams.  The stream that enters   *)
(* an end is the units 1, 2, ..., in packets of some of them.              *)
(***************************************************************************)
EXTENDS Kcp

CONSTANTS
  MaxFrags,   \* mss<<4 in units: the longest message flushSndBuf makes
  Lens,       \* lengths of the packets that enter an end, in units
  MaxUnits,   \* bound: units that enter each end
  MaxNet,     \* bound: datagrams on their way to an end
  MaxAcks,    \* bound: acknowledgements an end owes
  MaxHeld,    \* bound: datagrams the server holds without an address
  Reorders

Ends == {"cli", "svr"}
Peer(e) == IF e = "cli" THEN "svr" ELSE "cli"

ASSUME KcpTunnelAssumption ==
  /\ MaxFrags \in 1 .. RcvWnd /\ Lens \in [Ends -> SUBSET (Nat \ {0})]
  /\ MaxUnits \in [Ends -> Nat] /\ Reorders \in BOOLEAN
  /\ MaxNet \in [Ends -> Nat] /\ MaxAcks \in Nat /\ MaxHeld \in Nat
  /\ \A e \in Ends : 2 * (MaxUnits[e] + RcvWnd) < SnMod

VARIABLES
  kcp,      \* mKcpCb
  cache,    \* mSndCache: packets
  settled,  \* mAddrSettled
  held,     \* Tunnel<true>::mCache: datagrams
  net,      \* datagrams on their way to an end
  entered,  \* how many units have entered an end
  got       \* units handed to the handler of an end

vars == <<kcp, cache, settled, held, net, entered, got>>

Units == 1 .. Max({MaxUnits[e] : e \in Ends})

TypeOK ==
  /\ kcp \in [Ends -> KcpCb(Units)]
  /\ cache \in [Ends -> Seq(Seq(Units))]
  /\ settled \in [Ends -> BOOLEAN]
  /\ \A e \in Ends : Len(net[e]) <= MaxNet[e] /\ Len(held[e]) <= MaxHeld
  /\ \A e \in Ends : entered[e] \in 0 .. MaxUnits[e]
  /\ got \in [Ends -> Seq(Units)]

Init ==
  /\ kcp = [e \in Ends |-> NewKcp]
  /\ cache = [e \in Ends |-> <<>>]
  /\ settled = [e \in Ends |-> e = "cli"]
  /\ held = [e \in Ends |-> <<>>]
  /\ net = [e \in Ends |-> <<>>]
  /\ entered = [e \in Ends |-> 0]
  /\ got = [e \in Ends |-> <<>>]

-----------------------------------------------------------------------------
CanFlush(k) == WaitSnd(k) < 2 * SndWnd

\* flushSndBuf: a packet becomes messages of at most MaxFrags units.
SendPacket(k, packet) ==
  LET Part(i) == SubSeq(packet, (i - 1) * MaxFrags + 1, Min({i * MaxFrags, Len(packet)}))
  IN  FoldLeft(LAMBDA acc, i : Send(acc, Part(i)), k,
               [i \in 1 .. (Len(packet) + MaxFrags - 1) \div MaxFrags |-> i])

\* _flushAll: packets go to the control block while it takes them.
FlushKeeps(k, packets) ==                   \* mutation: a flushed cache is not emptied
  [k |-> FoldLeft(LAMBDA acc, p : IF CanFlush(acc) THEN SendPacket(acc, p) ELSE acc, k, packets),
   left |-> packets]
FlushCache(k, packets) ==
  FoldLeft(LAMBDA acc, p : IF CanFlush(acc.k)
                           THEN [acc EXCEPT !.k = SendPacket(@, p)]
                           ELSE [acc EXCEPT !.left = Append(@, p)],
           [k |-> k, left |-> <<>>], packets)

\* KcpTunnel::send.
Accept(k, packets, packet) == FlushCache(k, Append(packets, packet))
TunnelSend(e) ==
  \E n \in Lens[e] :
    LET a == Accept(kcp[e], cache[e], [i \in 1 .. n |-> entered[e] + i]) IN
    /\ entered[e] + n <= MaxUnits[e]
    /\ entered' = [entered EXCEPT ![e] = @ + n]
    /\ kcp' = [kcp EXCEPT ![e] = a.k]
    /\ cache' = [cache EXCEPT ![e] = a.left]
    /\ UNCHANGED <<settled, held, net, got>>

\* The datagrams ds go out to Peer(e), behind flying.  The network has room for
\* MaxNet of them and loses the rest; unless it is kind, it loses any.
Reaches(e, flying, ds, kind) ==
  LET room == MaxNet[Peer(e)] - Len(flying[Peer(e)]) IN
  \E kept \in IF kind THEN {DOMAIN ds \cap (1 .. room)} ELSE SUBSET DOMAIN ds :
    LET order == Ascending(kept) IN
    /\ Cardinality(kept) <= room
    /\ net' = [flying EXCEPT ![Peer(e)] = @ \o [i \in DOMAIN order |-> ds[order[i]]]]

\* _output: without an address the server keeps its datagrams; with one they
\* go out, those it kept first.
Output(e, flying, ds, kind) ==
  IF settled'[e] /\ ds # <<>>
  THEN /\ Reaches(e, flying, held[e] \o ds, kind)
       /\ held' = [held EXCEPT ![e] = <<>>]
  ELSE /\ held' = [held EXCEPT ![e] = @ \o ds]
       /\ Len(held'[e]) <= MaxHeld
       /\ net' = flying

\* KcpTunnel::update: the cache refills the control block and one message is
\* handed over, after a flush when it is time for one.
HandOver(e, k) ==
  \E r \in {FlushCache(k, cache[e])} :
  /\ cache' = [cache EXCEPT ![e] = r.left]
  /\ kcp' = [kcp EXCEPT ![e] = IF Ready(r.k) THEN Recv(r.k) ELSE r.k]
  /\ got' = [got EXCEPT ![e] = IF Ready(r.k) THEN @ \o Message(r.k) ELSE @]
  /\ UNCHANGED entered

JustHandOver(e, k, flying) ==
  /\ HandOver(e, k)
  /\ net' = flying /\ UNCHANGED held

FlushAndHandOver(e, k, flying, due, probeDue, kind) ==
  \E n \in {Numbered(k)}, ds \in {Pack(Segments(Numbered(k), due, probeDue))} :
    /\ HandOver(e, Flushed(n, due))
    /\ Output(e, flying, ds, kind)

Update(e, k, flying) ==
  \/ JustHandOver(e, k, flying)
  \/ \E due \in SUBSET DOMAIN k.sndBuf, probeDue \in BOOLEAN :
       FlushAndHandOver(e, k, flying, due, probeDue, FALSE)

\* KcpTunnelGroup::update, every turn of the main loop.
TunnelUpdate(e) ==
  /\ UNCHANGED settled
  /\ Update(e, kcp[e], net)

\* KcpTunnelGroup::handleInputNotification: input, the peer's address, update.
Arrived(e, i) == [net EXCEPT ![e] = RemoveAt(@, i)]
Fed(e, i) == Input(kcp[e], net[e][i])
LearnsPeer(e, k) ==
  /\ Len(k.acks) <= MaxAcks
  /\ settled' = [settled EXCEPT ![e] = TRUE]
TunnelInput(e, i, flying) ==
  \E k \in {Fed(e, i)} : LearnsPeer(e, k) /\ Update(e, k, flying)

\* Both, when every timer has passed and the network loses nothing.
Kind(e, k, flying) == FlushAndHandOver(e, k, flying, DOMAIN k.sndBuf, TRUE, TRUE)
KindUpdate(e) == net[Peer(e)] = <<>> /\ UNCHANGED settled /\ Kind(e, kcp[e], net)
KindInput(e) ==
  /\ net[e] # <<>>
  /\ \E k \in {Fed(e, 1)} : LearnsPeer(e, k) /\ Kind(e, k, Arrived(e, 1))

Next ==
  \E e \in Ends :
    \/ TunnelSend(e) \/ TunnelUpdate(e)
    \/ \E i \in DOMAIN net[e] :
         /\ i = 1 \/ Reorders
         /\ TunnelInput(e, i, Arrived(e, i)) \/ TunnelInput(e, i, net)

Spec == Init /\ [][Next]_vars

(***************************************************************************)
(* The main loop turns, what arrives is read, and the network is fair:     *)
(* what is sent again and again is not always lost.  The second conjunct   *)
(* is strong fairness of KindInput, with what enables it written out.      *)
(***************************************************************************)
CanInput(e) == net[e] # <<>> /\ Len(kcp[e].acks) < MaxAcks
Fairness ==
  \A e \in Ends :
    /\ SF_vars(KindUpdate(e))
    /\ []<>CanInput(e) => []<><<KindInput(e)>>_vars

FairSpec == Spec /\ Fairness

-----------------------------------------------------------------------------
\* What has entered e and has not come out of the other end: in rcv_queue, then
\* by number in the window of the sender or the buffer of the receiver, then
\* not yet numbered.  0 stands for a unit that is nowhere.
UnitsOf(queue) == [i \in DOMAIN queue |-> queue[i].unit]
UnitAt(s, r, sn) ==
  LET found == {x \in Range(s.sndBuf) \cup r.rcvBuf : x.sn = sn}
  IN  IF found = {} THEN 0 ELSE (CHOOSE x \in found : TRUE).unit
Unreceived(e) ==
  LET s == kcp[e]
      r == kcp[Peer(e)]
  IN  UnitsOf(r.rcvQ)
      \o [i \in 1 .. Diff(s.nxt, r.rcvNxt) |-> UnitAt(s, r, Plus(r.rcvNxt, i - 1))]
      \o UnitsOf(s.sndQ) \o FlattenSeq(cache[e])

EnteredAt(e) == [i \in 1 .. entered[e] |-> i]
Uplink   == INSTANCE Fifo WITH in <- EnteredAt("cli"), queue <- Unreceived("cli"), out <- got["svr"]
Downlink == INSTANCE Fifo WITH in <- EnteredAt("svr"), queue <- Unreceived("svr"), out <- got["cli"]

\* The tunnel is a queue in each direction: losses, repetitions, reordering,
\* retransmissions and closed windows are invisible to its users.
UplinkIsFifo == Uplink!Spec
DownlinkIsFifo == Downlink!Spec

\* However old the acknowledgement and the advertisement it saw last: a sender is
\* at most a window past what was acknowledged, what it has numbered and the
\* receiver has not got is kept to be sent again, and the two are never so far
\* apart that their numbers could be confused.  The types come with it.
WindowHolds ==
  /\ TypeOK
  /\ \A e \in Ends :
       LET s == kcp[e]
           r == kcp[Peer(e)]
           window == Min({SndWnd, RcvWnd})
       IN  /\ Diff(s.nxt, s.una) \in 0 .. window
           /\ Diff(s.nxt, r.rcvNxt) \in 0 .. RcvWnd + window
           /\ \A i \in 0 .. Diff(s.nxt, r.rcvNxt) - 1 : UnitAt(s, r, Plus(r.rcvNxt, i)) # 0

\* What enters an end reaches the other and is acknowledged, whatever is lost
\* on the way and however often the window closes.
Settles ==
  \A e \in Ends :
    entered[e] = MaxUnits[e] ~> Len(got[Peer(e)]) = MaxUnits[e] /\ WaitSnd(kcp[e]) = 0

=============================================================================
