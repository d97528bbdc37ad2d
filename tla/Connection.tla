----------------------------- MODULE Connection -----------------------------
(***************************************************************************)
(* One TCP connection of connection.cpp, from connect() or accept to its   *)
(* shutdown(), which leaves the object as it was before: what is sent      *)
(* beyond the room of the socket waits in mTcpPacketList for a write       *)
(* event, and the handler is told of the end.  Bytes are numbered 1, 2,... *)
(* in each direction; the list is the sequence of bytes it still has to    *)
(* send.                                                                   *)
(***************************************************************************)
EXTENDS Integers, Runs

CONSTANTS
  MaxSent,     \* bound: bytes the handler sends
  MaxPacket,   \* bound: bytes in one call of send()
  Room,        \* bytes the socket takes before the peer reads
  Block,       \* MAXLEN: bytes one recv() returns at most
  Limit,       \* LIMIT_LEN: bytes after which the handler is called in any case
  MaxArrived   \* bound: bytes from the peer

ASSUME ConnectionAssumption ==
  /\ MaxSent \in Nat /\ MaxArrived \in Nat
  /\ MaxPacket \in Nat \ {0} /\ Room \in Nat \ {0}
  /\ Block \in Nat \ {0} /\ Limit \in Nat \ {0} /\ Limit % Block = 0

VARIABLES
  status,   \* mConnStatus
  regR,     \* mbRegForRead
  regW,     \* mbRegForWrite
  pending,  \* mTcpPacketList
  told,     \* onDisconnected or onError has been called
  life,     \* "new", "open" while mFd >= 0, "over"
  sent,     \* bytes given to send()
  taken,    \* bytes the socket has taken, in order
  room,     \* what the socket takes now
  arrived,  \* bytes from the peer
  got,      \* bytes given to onRecv
  peer,     \* "up", "ended" when it has shut its side, "lost" on any failure
  keeper    \* may the handler keep a connection that has ended: a ServerBridge
            \* whose last connect() is less than a second old does

members == <<status, regR, regW, pending, told, life>>
outgoing == <<sent, taken, room>>
incoming == <<arrived, got, peer>>
vars == <<members, outgoing, incoming, keeper>>

TypeOK ==
  /\ status \in {"closed", "error", "connecting", "connected"}
  /\ regR \in BOOLEAN /\ regW \in BOOLEAN /\ told \in BOOLEAN
  /\ life \in {"new", "open", "over"}
  /\ pending \in Seq(Nat) /\ taken \in Seq(Nat)
  /\ sent \in 0 .. MaxSent /\ room \in 0 .. Room
  /\ got \in 0 .. arrived /\ arrived \in 0 .. MaxArrived
  /\ peer \in {"up", "ended", "lost"} /\ keeper \in BOOLEAN

Init ==
  /\ status = "closed" /\ regR = FALSE /\ regW = FALSE
  /\ pending = <<>> /\ told = FALSE /\ life = "new"
  /\ sent = 0 /\ taken = <<>> /\ room = Room
  /\ arrived = 0 /\ got = 0 /\ peer = "up" /\ keeper \in BOOLEAN

-----------------------------------------------------------------------------
\* Both events are deregistered and the handler is told; it shuts the
\* connection down or keeps it as it is.
Tell(left, unsent) ==
  /\ regR' = FALSE /\ regW' = FALSE /\ told' = TRUE
  /\ \/ status' = "closed" /\ pending' = <<>> /\ life' = "over"
     \/ keeper /\ status' = left /\ pending' = unsent /\ UNCHANGED life

\* acceptConnection(), or a connect() that succeeds at once.
OpenConnected ==
  /\ life = "new" /\ life' = "open"
  /\ status' = "connected" /\ regR' = TRUE
  /\ UNCHANGED <<regW, pending, told, outgoing, incoming, keeper>>

OpenConnecting ==
  /\ life = "new" /\ life' = "open"
  /\ status' = "connecting" /\ regW' = TRUE
  /\ UNCHANGED <<regR, pending, told, outgoing, incoming, keeper>>

Shutdown ==
  /\ life = "open" /\ life' = "over"
  /\ status' = "closed" /\ regR' = FALSE /\ regW' = FALSE /\ pending' = <<>>
  /\ UNCHANGED <<told, outgoing, incoming, keeper>>

\* ::send() of bytes until they are out, the room is used up or it fails.
Written(bytes) ==
  IF peer = "lost" THEN 0
  ELSE IF Len(bytes) <= room THEN Len(bytes) ELSE room
Write(bytes) ==
  /\ taken' = taken \o SubSeq(bytes, 1, Written(bytes))
  /\ room' = room - Written(bytes)

\* _checkSocketErrors() after Write(bytes) reads errno, also when no call set
\* it: after a partial or complete write it is that of some earlier call, and
\* any of this process.
Again(bytes) == peer # "lost"
Other(bytes) == peer = "lost" \/ Written(bytes) > 0

\* send(): what was not taken is cached and waits for a write event ...
KeepsWhole(all, data) == Rest(all, Written(all)) \o data   \* mutation: ptr is not advanced
Remains(all, data) == Rest(all, Written(all))
NoWatch == UNCHANGED regW                          \* mutation: no write event
Watch == regW' = TRUE
SendCaches(all, data) ==
  /\ Written(all) < Len(all) /\ Again(all)
  /\ pending' = Remains(all, data)
  /\ Watch
  /\ UNCHANGED <<status, regR, told, life>>

\* ... unless errno says otherwise: then the rest of data is dropped.
SendTells(all) ==
  /\ Written(all) < Len(all) /\ Other(all)
  /\ Tell(status, Rest(pending, Written(all)))

SendWhole(all) ==
  /\ Written(all) = Len(all)
  /\ pending' = <<>>
  /\ regW' = (regW /\ pending = <<>>)
  /\ UNCHANGED <<status, regR, told, life>>

Send ==
  /\ life = "open" /\ status = "connected"
  /\ \E n \in 1 .. MaxPacket :
       LET data == Numbers(sent, n)
           all  == pending \o data
       IN
       /\ sent + n <= MaxSent
       /\ sent' = sent + n
       /\ Write(all)
       /\ SendCaches(all, data) \/ SendTells(all) \/ SendWhole(all)
  /\ UNCHANGED <<incoming, keeper>>

\* handleOutputNotification() while connecting.
NoListen == UNCHANGED regR                        \* mutation: no read event
Listen == regR' = TRUE
Connected ==
  /\ life = "open" /\ regW /\ status = "connecting" /\ peer # "lost"
  /\ status' = "connected" /\ regW' = FALSE
  /\ Listen
  /\ UNCHANGED <<pending, told, life, outgoing, incoming, keeper>>

ConnectFails ==
  /\ life = "open" /\ regW /\ status = "connecting" /\ peer = "lost"
  /\ Tell("error", pending)
  /\ UNCHANGED <<outgoing, incoming, keeper>>

\* handleOutputNotification() while connected: the list is flushed, and errno
\* read whatever came of that.
StaysWatched == UNCHANGED regW                    \* mutation: no tryUnregWriteEvent()
Unwatch == regW' = (Written(pending) < Len(pending))
Flush ==
  /\ life = "open" /\ regW /\ status = "connected"
  /\ room > 0 \/ peer = "lost"
  /\ Write(pending)
  /\ \/ /\ Again(pending)
        /\ pending' = Rest(pending, Written(pending))
        /\ Unwatch
        /\ UNCHANGED <<status, regR, told, life>>
     \/ Other(pending) /\ Tell(status, Rest(pending, Written(pending)))
  /\ UNCHANGED <<sent, incoming, keeper>>

\* handleInputNotification() reads blocks until one is short or the limit is
\* reached.  Only when every block was full does it try once more and meet the
\* end.  A failure may come before what is unread.
Avail == arrived - got
NowRead == IF Avail < Limit THEN Avail ELSE Limit
MeetsEnd == Avail < Limit /\ Avail % Block = 0
Input ==
  /\ life = "open" /\ regR /\ status = "connected"
  /\ Avail > 0 \/ peer # "up"
  /\ \/ /\ ~MeetsEnd \/ peer = "up"
        /\ got' = got + NowRead
        /\ UNCHANGED members
     \/ /\ MeetsEnd /\ peer = "ended"
        /\ got' = got + NowRead
        /\ Tell("closed", pending)
     \/ /\ peer = "lost"
        /\ got' = IF MeetsEnd THEN got + NowRead ELSE got
        /\ Tell("error", pending)
  /\ UNCHANGED <<outgoing, arrived, peer, keeper>>

-----------------------------------------------------------------------------
\* The peer and the network.
PeerReads ==
  /\ life = "open" /\ room < Room /\ room' = Room
  /\ UNCHANGED <<members, sent, taken, incoming, keeper>>

PeerSends ==
  /\ life = "open" /\ status = "connected" /\ peer = "up" /\ arrived < MaxArrived
  /\ arrived' = arrived + 1
  /\ UNCHANGED <<members, outgoing, got, peer, keeper>>

PeerEnds ==
  /\ life = "open" /\ status = "connected" /\ peer = "up" /\ peer' = "ended"
  /\ UNCHANGED <<members, outgoing, arrived, got, keeper>>

PeerLost ==
  /\ life = "open" /\ peer # "lost" /\ peer' = "lost"
  /\ UNCHANGED <<members, outgoing, arrived, got, keeper>>

Next ==
  \/ OpenConnected \/ OpenConnecting \/ Shutdown \/ Send
  \/ Connected \/ ConnectFails \/ Flush \/ Input
  \/ PeerReads \/ PeerSends \/ PeerEnds \/ PeerLost

Spec == Init /\ [][Next]_vars

\* The event loop gives every event; the peer reads what it is sent.
Fairness ==
  /\ WF_vars(Connected) /\ WF_vars(ConnectFails) /\ WF_vars(Flush)
  /\ WF_vars(Input) /\ WF_vars(PeerReads)
FairSpec == Spec /\ Fairness

-----------------------------------------------------------------------------
\* Until the handler is told of an end, the connection is a queue: what the
\* socket could not take follows, byte by byte, before anything sent later.
Stream == INSTANCE Fifo WITH
  in <- Numbers(0, sent), queue <- pending, out <- taken
StreamIsFifo ==
  /\ Stream!Init
  /\ [][~told' /\ life' # "over" => Stream!Next]_<<sent, pending, taken>>

\* An open connection listens exactly when it is up, and watches for room
\* exactly while it has something to wait for: it neither sleeps on data nor
\* spins on a socket that is always ready.
EventsMatch ==
  life = "open" /\ ~told =>
    /\ regR <=> status = "connected"
    /\ regW <=> status = "connecting" \/ pending # <<>>

\* What is cached leaves, or the handler is told that it will not.
Drains == pending # <<>> ~> pending = <<>> \/ told

\* An end, tidy or not, is told, also when the handler never sends again.
EndIsTold == life = "open" /\ peer # "up" ~> told \/ life = "over"

=============================================================================
