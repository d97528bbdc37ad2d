-------------------------------- MODULE Kcp --------------------------------
(***************************************************************************)
(* The control block of kcp/ikcp.c as a record, and its functions as       *)
(* operators from record to record.  Data are counted in units of one mss  *)
(* and a unit is a number.  Time is left to the caller: which segments     *)
(* have passed their resendts, and whether ts_probe has passed.  The       *)
(* congestion window is not here: the tunnels run with nocwnd set.         *)
(***************************************************************************)
EXTENDS Integers, Sequences, FiniteSets, FiniteSetsExt, SequencesExt

CONSTANTS
  SnMod,      \* sequence numbers count modulo this (2^32)
  SndWnd,      \* snd_wnd
  RcvWnd,      \* rcv_wnd, and the rmt_wnd both ends start with
  FastResend,  \* fastresend
  Mtu          \* mtu, in overheads; a unit is as long as an overhead

ASSUME KcpAssumption ==
  /\ SndWnd \in Nat \ {0} /\ RcvWnd \in Nat \ {0} /\ FastResend \in Nat \ {0}
  /\ SnMod \in Nat /\ SnMod > 2 * (SndWnd + RcvWnd)
  /\ Mtu \in Nat /\ Mtu >= 2

Sn == 0 .. SnMod - 1
Plus(sn, n) == (sn + n) % SnMod

\* The numbers of S from the least to the greatest.
Ascending(S) ==
  CHOOSE q \in [1 .. Cardinality(S) -> S] : \A i, j \in DOMAIN q : i < j => q[i] < q[j]

\* _itimediff: the signed difference of two unsigned numbers.
Diff(a, b) == LET d == (a - b) % SnMod IN IF 2 * d < SnMod THEN d ELSE d - SnMod

\* ikcp_create.
NewKcp == [
  sndQ   |-> <<>>,   \* snd_queue: not yet numbered
  sndBuf |-> <<>>,   \* snd_buf: numbered and not acknowledged
  una    |-> 0,      \* snd_una
  nxt    |-> 0,      \* snd_nxt
  rmt    |-> RcvWnd, \* rmt_wnd
  rcvBuf |-> {},     \* rcv_buf, which is ordered by sn
  rcvQ   |-> <<>>,   \* rcv_queue
  rcvNxt |-> 0,      \* rcv_nxt
  acks   |-> <<>>,   \* acklist
  tell   |-> FALSE,  \* probe has IKCP_ASK_TELL
  asking |-> FALSE]  \* probe_wait is not zero

\* Control blocks and segments over a set of units.
Frgs == 0 .. RcvWnd - 1
Queued(U) == [frg : Frgs, unit : U]
Stored(U) == [sn : Sn, frg : Frgs, unit : U]
InFlight(U) == [sn : Sn, frg : Frgs, unit : U, sent : BOOLEAN, fast : 0 .. FastResend]
KcpCb(U) == [sndQ : Seq(Queued(U)), sndBuf : Seq(InFlight(U)), una : Sn, nxt : Sn,
             rmt : 0 .. RcvWnd, rcvBuf : SUBSET Stored(U), rcvQ : Seq(Queued(U)),
             rcvNxt : Sn, acks : Seq(Sn), tell : BOOLEAN, asking : BOOLEAN]

-----------------------------------------------------------------------------
(* Sending and acknowledging.                                              *)

\* ikcp_send of one message.
Send(k, units) ==
  [k EXCEPT !.sndQ = @ \o [i \in DOMAIN units |->
                             [frg |-> Len(units) - i, unit |-> units[i]]]]

\* ikcp_waitsnd.
WaitSnd(k) == Len(k.sndBuf) + Len(k.sndQ)

\* ikcp_shrink_buf.
Shrink(k) == [k EXCEPT !.una = IF k.sndBuf = <<>> THEN k.nxt ELSE k.sndBuf[1].sn]

\* ikcp_parse_una: everything before una has arrived.
UnaInclusive(k, una) ==             \* mutation: >= 0, una itself is dropped
  LET acked == {i \in DOMAIN k.sndBuf : Diff(una, k.sndBuf[i].sn) >= 0}
  IN  [k EXCEPT !.sndBuf = SubSeq(@, Cardinality(acked) + 1, Len(@))]
ParseUna(k, una) ==
  LET acked == {i \in DOMAIN k.sndBuf : Diff(una, k.sndBuf[i].sn) > 0}
  IN  [k EXCEPT !.sndBuf = SubSeq(@, Cardinality(acked) + 1, Len(@))]

\* ikcp_parse_ack: sn has arrived; what was sent before it is passed over.
ParseAck(k, sn) ==
  LET Pass(s) == [s EXCEPT !.fast = Min({@ + 1, FastResend})]
      at == {i \in DOMAIN k.sndBuf : k.sndBuf[i].sn = sn}
      n == IF at = {} THEN Len(k.sndBuf) + 1 ELSE CHOOSE i \in at : TRUE
  IN  IF Diff(sn, k.una) < 0 \/ Diff(sn, k.nxt) >= 0 THEN k
      ELSE [k EXCEPT !.sndBuf = [i \in 1 .. n - 1 |-> Pass(@[i])] \o SubSeq(@, n + 1, Len(@))]

-----------------------------------------------------------------------------
(* Receiving.                                                              *)

\* What arrived in order moves to rcv_queue, up to the window.
AddsInFront(k) ==                   \* mutation: iqueue_add, not iqueue_add_tail
  IF \E s \in k.rcvBuf : s.sn = k.rcvNxt /\ Len(k.rcvQ) < RcvWnd
  THEN LET s == CHOOSE s \in k.rcvBuf : s.sn = k.rcvNxt
       IN  [k EXCEPT !.rcvQ = <<[frg |-> s.frg, unit |-> s.unit]>> \o @,
                     !.rcvBuf = @ \ {s}, !.rcvNxt = Plus(@, 1)]
  ELSE k
MoveReady(k) ==
  LET At(i) == {s \in k.rcvBuf : s.sn = Plus(k.rcvNxt, i)}
      n == CHOOSE n \in 0 .. RcvWnd - Len(k.rcvQ) :
             /\ \A i \in 0 .. n - 1 : At(i) # {}
             /\ n = RcvWnd - Len(k.rcvQ) \/ At(n) = {}
      moved == [i \in 1 .. n |-> LET s == CHOOSE s \in At(i - 1) : TRUE
                                 IN  [frg |-> s.frg, unit |-> s.unit]]
  IN  [k EXCEPT !.rcvQ = @ \o moved,
                !.rcvBuf = {s \in @ : Diff(s.sn, k.rcvNxt) >= n},
                !.rcvNxt = Plus(@, n)]

\* ikcp_parse_data of a segment inside the window.
ParseData(k, s) ==
  MoveReady(IF \E r \in k.rcvBuf : r.sn = s.sn THEN k
            ELSE [k EXCEPT !.rcvBuf = @ \cup {s}])

\* A PUSH is acknowledged whenever it is not beyond the window, old or not.
AckOnlyNew(k, s) ==                 \* mutation: an old one is not acknowledged
  IF Diff(s.sn, Plus(k.rcvNxt, RcvWnd)) >= 0 \/ Diff(s.sn, k.rcvNxt) < 0 THEN k
  ELSE ParseData([k EXCEPT !.acks = Append(@, s.sn)],
                 [sn |-> s.sn, frg |-> s.frg, unit |-> s.unit])
ParsePush(k, s) ==
  LET acked == [k EXCEPT !.acks = Append(@, s.sn)]
  IN  IF Diff(s.sn, Plus(k.rcvNxt, RcvWnd)) >= 0 THEN k
      ELSE IF Diff(s.sn, k.rcvNxt) < 0 THEN acked
      ELSE ParseData(acked, [sn |-> s.sn, frg |-> s.frg, unit |-> s.unit])

\* One turn of the loop of ikcp_input.
InputSeg(k, s) ==
  LET heard == Shrink(ParseUna([k EXCEPT !.rmt = s.wnd], s.una))
  IN  CASE s.cmd = "ACK"  -> Shrink(ParseAck(heard, s.sn))
        [] s.cmd = "PUSH" -> ParsePush(heard, s)
        [] s.cmd = "WASK" -> [heard EXCEPT !.tell = TRUE]
        [] s.cmd = "WINS" -> heard
Input(k, datagram) == FoldLeft(InputSeg, k, datagram)

\* ikcp_peeksize: is a whole message there, and how many units has it.
Ready(k) == k.rcvQ # <<>> /\ Len(k.rcvQ) > k.rcvQ[1].frg
Peeked(k) == CHOOSE n \in DOMAIN k.rcvQ :
               k.rcvQ[n].frg = 0 /\ \A i \in 1 .. n - 1 : k.rcvQ[i].frg # 0
Message(k) == [i \in 1 .. Peeked(k) |-> k.rcvQ[i].unit]

\* ikcp_recv.  A window that was shut and opens is announced.
Recv(k) ==
  LET rest == MoveReady([k EXCEPT !.rcvQ = SubSeq(@, Peeked(k) + 1, Len(@))])
  IN  [rest EXCEPT !.tell = @ \/ (Len(k.rcvQ) >= RcvWnd /\ Len(rest.rcvQ) < RcvWnd)]

-----------------------------------------------------------------------------
(* ikcp_flush: the control block after it, and the segments it sends.      *)

Unused(k) == RcvWnd - Len(k.rcvQ)    \* ikcp_wnd_unused

\* Window probing, while the peer's window is closed.
NeverAsks(k, probeDue) == FALSE      \* mutation: no IKCP_ASK_SEND
Asks(k, probeDue) == k.rmt = 0 /\ k.asking /\ probeDue

\* snd_queue moves to snd_buf as far as the window of the peer allows.
OneMore(k) == Min({SndWnd, k.rmt}) + 1    \* mutation: <= for <
Window(k) == Min({SndWnd, k.rmt})
Numbered(k) ==
  LET room == Diff(Plus(k.una, Window(k)), k.nxt)
      n == Max({0, Min({room, Len(k.sndQ)})})
  IN  [k EXCEPT
        !.sndBuf = @ \o [i \in 1 .. n |->
                           [sn |-> Plus(k.nxt, i - 1), frg |-> k.sndQ[i].frg,
                            unit |-> k.sndQ[i].unit, sent |-> FALSE, fast |-> 0]],
        !.sndQ = SubSeq(@, n + 1, Len(@)),
        !.nxt = Plus(@, n)]

\* The segments of snd_buf to send: new ones, those in due, those passed over.
ToSend(k, due) == {i \in DOMAIN k.sndBuf :
                     ~k.sndBuf[i].sent \/ i \in due \/ k.sndBuf[i].fast >= FastResend}
Marked(k, due) ==
  [i \in DOMAIN k.sndBuf |->
     LET s == k.sndBuf[i]
     IN  [s EXCEPT !.sent = TRUE,
                   !.fast = IF s.sent /\ i \notin due /\ @ >= FastResend THEN 0 ELSE @]]
Flushed(k, due) ==
  [k EXCEPT !.acks = <<>>, !.tell = FALSE, !.asking = (k.rmt = 0),
            !.sndBuf = Marked(k, due)]

Segments(k, due, probeDue) ==
  LET Seg(cmd, sn, frg, unit) ==
        [cmd |-> cmd, sn |-> sn, frg |-> frg, unit |-> unit,
         wnd |-> Unused(k), una |-> k.rcvNxt]
      Control(cmd, on) == IF on THEN <<Seg(cmd, 0, 0, 0)>> ELSE <<>>
      order == Ascending(ToSend(k, due))
      Push(s) == Seg("PUSH", s.sn, s.frg, s.unit)
  IN  [i \in DOMAIN k.acks |-> Seg("ACK", k.acks[i], 0, 0)]
      \o Control("WASK", Asks(k, probeDue)) \o Control("WINS", k.tell)
      \o [j \in DOMAIN order |-> Push(k.sndBuf[order[j]])]

\* Segments share a datagram while it stays within the mtu.
Size(s) == IF s.cmd = "PUSH" THEN 2 ELSE 1
Bytes(datagram) == FoldLeft(LAMBDA n, s : n + Size(s), 0, datagram)
Pack(segs) ==
  FoldLeft(LAMBDA ds, s :
             IF ds # <<>> /\ Bytes(Last(ds)) + Size(s) <= Mtu
             THEN Front(ds) \o <<Append(Last(ds), s)>>
             ELSE Append(ds, <<s>>),
           <<>>, segs)

=============================================================================
