---------------------------- MODULE MCKcpTunnel ----------------------------
(* Small instances of KcpTunnel: which end is fed how much.                *)
EXTENDS KcpTunnel

AtEnds(cli, svr) == [e \in Ends |-> IF e = "cli" THEN cli ELSE svr]
OneWay3 == AtEnds(3, 0)
OneUpThreeDown == AtEnds(1, 3)

\* Lengths of packets.
OneOrTwo == AtEnds({1, 2}, {1, 2})
OneUpAllDown == AtEnds({1}, {3})

\* Datagrams on their way to the client, to the server.
OneEach == AtEnds(1, 1)
TwoDown == AtEnds(2, 1)

=============================================================================
