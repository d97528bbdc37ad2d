----------------------------- MODULE UdpQueues -----------------------------
(***************************************************************************)
(* The sender of a tunnel of UdpSenders implements Fifo.  The tunnels are  *)
(* alike, so it is stated of one that stands for each of them.             *)
(***************************************************************************)
EXTENDS UdpSenders

CONSTANT This   \* the tunnel

ASSUME UdpQueuesAssumption == This \in Tunnels

\* What KCP gave the tunnel, and what the socket has yet to be given of it.  What
\* a tunnel that is gone had not sent is lost.
Given == Numbers(0, given[This])
Unsent ==
  IF life[This] = "gone"
  THEN Numbers(Len(udp.sent[This]), given[This] - Len(udp.sent[This]))
  ELSE udp.waiting[This] \o held[This]

\* What KCP gives a tunnel is given to the socket in that order, each datagram
\* once, whether it had to wait for an address, for room or for a route.
Queue == INSTANCE Fifo WITH in <- Given, queue <- Unsent, out <- udp.sent[This]
DatagramsInOrder == Queue!Spec

=============================================================================
