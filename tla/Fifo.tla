-------------------------------- MODULE Fifo --------------------------------
(* What the caches, a TCP connection, the KCP tunnel and the whole path      *)
(* promise: what is put in comes out in order, each once, and is in the      *)
(* queue in between.  A step may put in and take out any number of items.    *)
EXTENDS SequencesExt

VARIABLES
  in,      \* what was put in
  queue,   \* what was put in and has not come out
  out      \* what came out

vars == <<in, queue, out>>

Init == in = <<>> /\ queue = <<>> /\ out = <<>>

Next ==
  /\ IsPrefix(in, in')
  /\ IsPrefix(out, out')
  /\ in' = out' \o queue'

Spec == Init /\ [][Next]_vars

=============================================================================
