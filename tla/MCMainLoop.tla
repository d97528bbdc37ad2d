----------------------------- MODULE MCMainLoop -----------------------------
(* A client may be stopped for long enough that times look as if they were *)
(* still to come; a server for a part of its timeouts.                   *)
EXTENDS MainLoop

MCNaps == [client |-> {9, 22, 29}, server |-> {9}]
MCRtos == {2}
=============================================================================
