-------------------------- MODULE MessageReceiver --------------------------
(***************************************************************************)
(* The framing parser of the control connection (message_receiver.h): a    *)
(* peer's messages, each behind a length of HeadLen bytes, arrive cut into *)
(* chunks at arbitrary places.  One step is one call of input() or one     *)
(* turn of its loop.  Base is the number of values of a byte (256).        *)
(***************************************************************************)
EXTENDS Integers, Sequences, SequencesExt, FiniteSetsExt

CONSTANTS
  Base,      \* values of a byte
  HeadLen,   \* sizeof(SizeType)
  MaxLen     \* MaxLen of the template: longer messages are errors

\* What a byte of a length counts for, by its place, and SizeType counts modulo.
Weight[i \in 0 .. HeadLen] == IF i = 0 THEN 1 ELSE Base * Weight[i - 1]
SizeMod == Weight[HeadLen]

ASSUME MessageReceiverAssumption ==
  /\ Base \in Nat \ {0, 1} /\ HeadLen \in Nat \ {0}
  /\ MaxLen \in 0 .. SizeMod - 1

VARIABLES
  chunk,      \* what input() has still to parse
  state,      \* mRcvdState between two turns of the loop
  head,       \* mRcvdLenBuf
  body,       \* the received part of mCurMsg
  delivered,  \* arguments of the calls of mRecvFunc
  errors      \* calls of mRecvErrFunc

parsed == <<state, head, body>>
msgVars == <<chunk, parsed, delivered, errors>>

\* Little-endian length, as MemoryStream stores it.
Digits(n) == [i \in 1 .. HeadLen |-> (n \div Weight[i - 1]) % Base]
Value(h) ==
  LET sum[i \in 0 .. HeadLen] == IF i = 0 THEN 0 ELSE sum[i - 1] + h[i] * Weight[i - 1]
  IN  sum[HeadLen]

\* The byte stream that carries the messages ms.
Bytes(ms) == FlattenSeq([i \in DOMAIN ms |-> Digits(Len(ms[i])) \o ms[i]])

\* What the parser keeps of a message between two calls: a part of its length, or
\* a legal length and a part of the rest.
Legal(s, h, b) ==
  /\ s \in {"NoData", "RcvdHead"}
  /\ h \in Seq(0 .. Base - 1) /\ b \in Seq(0 .. Base - 1)
  /\ s = "NoData" => Len(h) < HeadLen /\ b = <<>>
  /\ s = "RcvdHead" => Len(h) = HeadLen /\ Value(h) <= MaxLen /\ Len(b) < Value(h)

MsgTypeOK ==
  /\ chunk \in Seq(0 .. Base - 1)
  /\ Legal(state, head, body)
  /\ errors \in 0 .. 1

NoMsg == [state |-> "NoData", head |-> <<>>, body |-> <<>>]
Parsed(m) == state = m.state /\ head = m.head /\ body = m.body

\* clear(), of which the host's shutdown() begins.
Clear == state' = "NoData" /\ head' = <<>> /\ body' = <<>>

\* input(): its parameter is a SizeType, its caller's byte count is not.
SizeOf(n) == n % SizeMod
Feed(bytes) ==
  /\ chunk' = SubSeq(bytes, 1, SizeOf(Len(bytes)))
  /\ UNCHANGED <<parsed, errors>>

\* parseMessage() first collects the length, perhaps over several calls.
HeadTaken == Min({HeadLen - Len(head), Len(chunk)})
HeadAfter == head \o SubSeq(chunk, 1, HeadTaken)
RestAfterHead == SubSeq(chunk, HeadTaken + 1, Len(chunk))

ParsePartOfHead ==
  /\ chunk # <<>> /\ state = "NoData" /\ Len(HeadAfter) < HeadLen
  /\ head' = HeadAfter
  /\ chunk' = <<>>
  /\ UNCHANGED <<state, body, delivered, errors>>

\* An illegal length is reported, whereupon the host calls clear(), and the loop
\* of input() is left.
TooLong(n) == n > MaxLen
ParseBadHead ==
  /\ chunk # <<>> /\ state = "NoData" /\ Len(HeadAfter) = HeadLen
  /\ TooLong(Value(HeadAfter))
  /\ errors' = errors + 1
  /\ Clear /\ chunk' = <<>>
  /\ UNCHANGED delivered

\* Then the body, which may be empty, from the bytes c behind the length h.  A
\* complete message is delivered and clearCurMsg() called.
CompleteIfAny(all, len) == len > 0 /\ Len(all) = len   \* mutation: not if empty
Complete(all, len) == Len(all) = len
ParseBody(h, c) ==
  LET len   == Value(h)
      taken == Min({len - Len(body), Len(c)})
      all   == body \o SubSeq(c, 1, taken)
  IN
  /\ chunk' = SubSeq(c, taken + 1, Len(c))
  /\ IF Complete(all, len)
     THEN delivered' = Append(delivered, all) /\ Clear
     ELSE state' = "RcvdHead" /\ head' = h /\ body' = all /\ UNCHANGED delivered
  /\ UNCHANGED errors

ParseHead ==
  /\ chunk # <<>> /\ state = "NoData" /\ Len(HeadAfter) = HeadLen
  /\ ~TooLong(Value(HeadAfter))
  /\ ParseBody(HeadAfter, RestAfterHead)

ParseRest ==
  /\ chunk # <<>> /\ state = "RcvdHead"
  /\ ParseBody(head, chunk)

=============================================================================
