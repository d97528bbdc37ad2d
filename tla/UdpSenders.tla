----------------------------- MODULE UdpSenders -----------------------------
(***************************************************************************)
(* The tunnels of one group share one UDP socket.  A datagram the socket   *)
(* refuses waits in the sender of its tunnel (udppacket_sender.cpp); the   *)
(* group (kcp_tunnel.h, kcp_tunnel.inl) watches the socket for writing     *)
(* while some sender waits, and then has each of them try again.           *)
(*                                                                         *)
(* A sender that gets rid of its last datagram erases itself from the set  *)
(* the group is walking, and the walk goes on from a freed node: it may    *)
(* visit any members, stop, or crash the process.                          *)
(***************************************************************************)
EXTENDS Integers, Runs, FiniteSetsExt

CONSTANTS
  Tunnels,    \* the tunnels, by conv
  IsServer,   \* a server learns a tunnel's address from its first datagram
  Room,       \* datagrams the socket takes before the network does
  MaxGiven    \* bound: datagrams KCP gives a tunnel

ASSUME UdpSendersAssumption ==
  /\ IsServer \in BOOLEAN /\ Room \in Nat \ {0} /\ MaxGiven \in Nat

VARIABLES
  life,     \* "new", "live" (in mTunnels), "gone"
  settled,  \* the tunnels whose address is known: mAddrSettled
  given,    \* how many datagrams KCP has given a tunnel: 1, 2, ...
  held,     \* Tunnel<true>::mCache
  udp,      \* the senders, the group and the socket, see Udp
  refused,  \* the tunnels whose peer sendto refuses for now
  toVisit,  \* the senders the walk has yet to visit
  at        \* "loop", "walk" (in handleOutputNotification), "crashed", "down"

vars == <<life, settled, given, held, udp, refused, toVisit, at>>

Udp == [waiting : [Tunnels -> Seq(Nat)],  \* mPacketList
        regd    : SUBSET Tunnels,   \* senders with mbRegForWrite
        notify  : SUBSET Tunnels,   \* mOutputNotifyList
        watched : BOOLEAN,          \* mbRegForWrite of the group
        room    : 0 .. Room,
        sent    : [Tunnels -> Seq(Nat)]]

TypeOK ==
  /\ life \in [Tunnels -> {"new", "live", "gone"}]
  /\ settled \subseteq Tunnels
  /\ given \in [Tunnels -> 0 .. MaxGiven]
  /\ held \in [Tunnels -> Seq(Nat)]
  /\ udp \in Udp
  /\ refused \subseteq Tunnels
  /\ toVisit \subseteq Tunnels
  /\ at \in {"loop", "walk", "crashed", "down"}

Nothing == [t \in Tunnels |-> <<>>]
Init ==
  /\ life = [t \in Tunnels |-> "new"]
  /\ settled = IF IsServer THEN {} ELSE Tunnels
  /\ given = [t \in Tunnels |-> 0]
  /\ held = Nothing
  /\ udp = [waiting |-> Nothing, regd |-> {}, notify |-> {}, watched |-> FALSE,
            room |-> Room, sent |-> Nothing]
  /\ refused = {} /\ toVisit = {} /\ at = "loop"

Live == {t \in Tunnels : life[t] = "live"}

-----------------------------------------------------------------------------
\* regOutputNotification, unregOutputNotification of the group: it watches the
\* socket while its list is not empty.
GroupReg(u, t) == [u EXCEPT !.notify = @ \cup {t}, !.watched = TRUE]
GroupUnreg(u, t) ==
  IF t \in u.notify
  THEN [u EXCEPT !.notify = @ \ {t}, !.watched = @ /\ u.notify # {t}]
  ELSE u

\* tryRegWriteEvent, tryUnregWriteEvent of a sender.
TryReg(u, t) == IF t \in u.regd THEN u ELSE GroupReg([u EXCEPT !.regd = @ \cup {t}], t)
TryUnreg(u, t) == IF t \in u.regd THEN GroupUnreg([u EXCEPT !.regd = @ \ {t}], t) ELSE u

\* ds go to the socket behind those that wait, until it refuses one (processSend).
SharedQueue(u, t, ds) ==                  \* mutation: one refused peer stops all
  LET w == u.waiting[t] \o ds
      n == IF refused # {} THEN 0 ELSE Min({Len(w), u.room})
  IN  [u EXCEPT !.waiting[t] = Rest(w, n),
                !.sent[t] = @ \o SubSeq(w, 1, n), !.room = @ - n]
Push(u, t, ds) ==
  LET w == u.waiting[t] \o ds
      n == IF t \in refused THEN 0 ELSE Min({Len(w), u.room})
  IN  [u EXCEPT !.waiting[t] = Rest(w, n),
                !.sent[t] = @ \o SubSeq(w, 1, n), !.room = @ - n]

\* tryFlushRemainPacket, and UdpPacketSender::send for each of ds in turn: what
\* the socket refuses waits, and so does everything behind it.
Flush(u, t) ==
  LET f == Push(u, t, <<>>) IN
  IF f.waiting[t] = <<>> THEN TryUnreg(f, t) ELSE f
Overtakes(u, t, ds) ==                    \* mutation: what is new is tried first
  IF t \notin refused /\ u.room >= Len(ds)
  THEN [u EXCEPT !.sent[t] = @ \o ds, !.room = @ - Len(ds)]
  ELSE TryReg([u EXCEPT !.waiting[t] = @ \o ds], t)
Send(u, t, ds) ==
  LET f == Push(u, t, ds) IN
  IF f.waiting[t] = <<>> THEN TryUnreg(f, t) ELSE TryReg(f, t)

-----------------------------------------------------------------------------
Create(t) ==
  /\ at = "loop" /\ life[t] = "new"
  /\ life' = [life EXCEPT ![t] = "live"]
  /\ UNCHANGED <<settled, given, held, udp, refused, toVisit, at>>

\* destroyTunnel: the sender goes with its datagrams (~UdpPacketSender).
DropStays(u, t) == [u EXCEPT !.waiting[t] = <<>>]  \* mutation: it stays on the list
Drop(u, t) == [TryUnreg(u, t) EXCEPT !.waiting[t] = <<>>]
Destroy(t) ==
  /\ at = "loop" /\ t \in Live
  /\ life' = [life EXCEPT ![t] = "gone"]
  /\ udp' = Drop(udp, t)
  /\ held' = [held EXCEPT ![t] = <<>>]
  /\ UNCHANGED <<settled, given, refused, toVisit, at>>

\* Tunnel::_output: without an address a server keeps the datagram, with one it
\* sends those it kept first.
Output(t) ==
  LET d == given[t] + 1 IN
  /\ given[t] < MaxGiven
  /\ given' = [given EXCEPT ![t] = d]
  /\ IF t \in settled'
     THEN /\ udp' = Send(udp, t, held[t] \o <<d>>)
          /\ held' = [held EXCEPT ![t] = <<>>]
     ELSE /\ held' = [held EXCEPT ![t] = Append(@, d)]
          /\ UNCHANGED udp

\* KcpTunnel::update and send.
KcpOutputs(t) ==
  /\ at = "loop" /\ t \in Live
  /\ UNCHANGED <<life, settled, refused, toVisit, at>>
  /\ Output(t)

\* handleInputNotification: the address first, then update, which may output.
PeerHeard(t) ==
  /\ at = "loop" /\ t \in Live
  /\ settled' = settled \cup {t}
  /\ Output(t) \/ UNCHANGED <<given, held, udp>>
  /\ UNCHANGED <<life, refused, toVisit, at>>

\* handleOutputNotification of the group.  The event is one of a batch: what was
\* handled before it may have filled the socket again.
Writable ==
  /\ at = "loop" /\ udp.watched
  /\ at' = "walk"
  /\ toVisit' = udp.notify
  /\ UNCHANGED <<life, settled, given, held, udp, refused>>

\* handleOutputNotification of a sender.  After one that erased itself the walk
\* goes anywhere.
Visit(t) ==
  /\ at = "walk" /\ t \in toVisit
  /\ udp' = Flush(udp, t)
  /\ IF t \in udp'.notify
     THEN toVisit' = toVisit \ {t} /\ UNCHANGED at
     ELSE \/ toVisit' \in SUBSET udp'.notify /\ UNCHANGED at
          \/ toVisit' = {} /\ at' = "crashed"
  /\ UNCHANGED <<life, settled, given, held, refused>>

WalkEnds ==
  /\ at = "walk" /\ toVisit = {}
  /\ at' = "loop"
  /\ UNCHANGED <<life, settled, given, held, udp, refused, toVisit>>

\* KcpTunnelGroup::shutdown: the list is cleared, then each tunnel deleted.
Shutdown ==
  /\ at = "loop" /\ at' = "down"
  /\ udp' = [udp EXCEPT !.watched = FALSE, !.notify = {}, !.regd = {}, !.waiting = Nothing]
  /\ held' = Nothing
  /\ life' = [t \in Tunnels |-> IF t \in Live THEN "gone" ELSE life[t]]
  /\ UNCHANGED <<settled, given, refused, toVisit>>

\* The network takes a datagram from the socket; a peer becomes unreachable, or
\* reachable again.  The tunnels of a client have one peer.
NetworkTakes ==
  /\ udp.room < Room
  /\ udp' = [udp EXCEPT !.room = @ + 1]
  /\ UNCHANGED <<life, settled, given, held, refused, toVisit, at>>

RouteChanges ==
  /\ refused' \in IF IsServer THEN SUBSET Tunnels ELSE {{}, Tunnels}
  /\ UNCHANGED <<life, settled, given, held, udp, toVisit, at>>

Next ==
  \/ \E t \in Tunnels : Create(t) \/ Destroy(t) \/ KcpOutputs(t) \/ PeerHeard(t) \/ Visit(t)
  \/ Writable \/ WalkEnds \/ Shutdown \/ NetworkTakes \/ RouteChanges

Spec == Init /\ [][Next]_vars

\* The main loop turns, a walk goes on, and the network takes what it is given.
Fairness ==
  /\ WF_vars(Writable) /\ WF_vars(WalkEnds) /\ WF_vars(NetworkTakes)
  /\ WF_vars(\E t \in Tunnels : Visit(t))

FairSpec == Spec /\ Fairness

-----------------------------------------------------------------------------
\* Types, and registration is exact: a sender is registered, and the group's list names it,
\* while it has datagrams that wait, and the socket is watched while the list
\* names a sender.  So no datagram waits for an event that is not asked for, no
\* sender that is gone is called, and an idle socket does not keep waking the loop.
WatchedWhileWaiting ==
  /\ TypeOK
  /\ udp.regd = {t \in Tunnels : udp.waiting[t] # <<>>}
  /\ udp.notify = udp.regd /\ udp.notify \subseteq Live
  /\ udp.watched <=> udp.notify # {}

\* A tunnel whose peer is reachable does not keep a datagram back, whatever the
\* peers of the others are and however many senders a walk leaves out.
NoneStarved ==
  \A t \in Tunnels : []<>(udp.waiting[t] = <<>> \/ t \in refused \/ at = "crashed")

=============================================================================
