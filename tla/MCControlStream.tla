-------------------------- MODULE MCControlStream --------------------------
(* ControlStream with two-byte lengths of one bit each, so that a length,   *)
(* too, is cut at every place, and four bytes that come at once count none. *)
EXTENDS ControlStream

\* Those of three bytes are illegal when MaxLen = 2.
MCPayloads == {<<>>, <<1>>, <<0, 1>>, <<1, 0, 0>>}

MCLeftovers == {[state |-> "NoData", head |-> <<0>>, body |-> <<>>],
                [state |-> "RcvdHead", head |-> <<0, 1>>, body |-> <<1>>]}

\* Half a length, and an empty message.
MCRests == {<<1>>, <<0, 0>>}

=============================================================================
