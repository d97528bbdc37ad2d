--------------------------- MODULE ControlStream ---------------------------
(***************************************************************************)
(* A FastConnection's TCP side: the bytes its Connection reads go through  *)
(* its MessageReceiver, whose messages it may answer on the same           *)
(* Connection, shut it down for or connect anew for, while the receiver    *)
(* still parses: what is left of the bytes is then parsed into the life of *)
(* the next connection.  One life is modelled, with all that an earlier    *)
(* one may leave it.  The connection of a ServerBridge, which has a keeper *)
(* and no messages, is here, too.                                          *)
(***************************************************************************)
EXTENDS Connection, MessageReceiver

CONSTANTS
  Payloads,  \* what the peer may send: sequences of bytes
  MaxMsgs,   \* bound: messages of the peer
  Leftovers, \* what an earlier connection may have left in the receiver
  Rests      \* and, when this one is opened by the handler of a message of the
             \* earlier one, in input(): the bytes behind that message

ASSUME ControlStreamAssumption ==
  /\ MaxMsgs \in Nat
  /\ \A p \in Payloads : p \in Seq(0 .. Base - 1) /\ Len(p) < SizeMod
  /\ \A m \in Leftovers : Legal(m.state, m.head, m.body)
  /\ \A r \in Rests : r \in Seq(0 .. Base - 1)

VARIABLES
  msgs,   \* the messages of the peer
  cut,    \* has a byte count been cut to a SizeType
  freed,  \* input() still parses the bytes of a Connection that its host deleted
  late    \* this one was opened before input() was through with an earlier one's
          \* bytes, and they may leave a part of a message in the receiver

hostVars == <<msgs, cut, freed, late>>
allVars == <<vars, msgVars, hostVars>>

Peer == Bytes(msgs)
Parsing == chunk # <<>>

ControlInit ==
  /\ Init
  /\ msgs \in UNION {[1 .. n -> Payloads] : n \in 0 .. MaxMsgs}
  /\ keeper => msgs = <<>>
  /\ \E m \in Leftovers \cup {NoMsg} : Parsed(m) /\ (keeper => m = NoMsg)
  /\ chunk \in Rests \cup {<<>>} /\ (keeper => chunk = <<>>)
  /\ delivered = <<>> /\ errors = 0
  /\ cut = FALSE /\ freed = FALSE /\ late = FALSE

OpensDirty ==                       \* mutation: the receiver is not cleared
  /\ OpenConnected \/ OpenConnecting
  /\ late' = Parsing /\ freed' = Parsing
  /\ UNCHANGED <<msgVars, msgs, cut>>
\* FastConnection::connect and acceptConnection begin with shutdown(), which
\* clears the receiver and deletes the earlier Connection; but connect() may be
\* called by the handler of a message, and input() then goes on behind it.
Opens ==
  /\ OpenConnected \/ OpenConnecting
  /\ Clear /\ late' = Parsing /\ freed' = Parsing
  /\ UNCHANGED <<chunk, delivered, errors, msgs, cut>>

\* Everything but a read leaves the receiver alone, unless it ends the connection:
\* then shutdown() clears it.
Otherwise ==
  /\ ~Parsing
  /\ IF life' = "over" /\ life # "over" THEN Clear ELSE UNCHANGED parsed
  /\ UNCHANGED <<chunk, delivered, errors, hostVars>>

\* A heartbeat, or what a ServerBridge passes on; the bound leaves room for answers.
SendsMore == Send /\ (keeper \/ sent' + MaxMsgs <= MaxSent) /\ Otherwise
ShutsDown == Shutdown /\ Otherwise
ConnectEnds == (Connected \/ ConnectFails) /\ Otherwise
Flushes == Flush /\ Otherwise

\* The first bytes of a connection find no part of an earlier one's message: all that
\* was delivered was the earlier one's, and is forgotten.
Starts == got = 0 /\ Parsed(NoMsg)

\* handleInputNotification() gives onRecv what it has read ...
Reads ==
  /\ ~Parsing /\ Input
  /\ LET bytes == SubSeq(Peer, got + 1, got') IN
     IF keeper THEN UNCHANGED <<chunk, parsed, errors, cut>>
     ELSE Feed(bytes) /\ cut' = (cut \/ SizeOf(Len(bytes)) # Len(bytes))
  /\ late' = (late /\ ~Starts)
  /\ delivered' = IF late /\ Starts THEN <<>> ELSE delivered
  /\ freed' = FALSE /\ UNCHANGED msgs

\* ... and then tells an end, upon which shutdown() clears the receiver.
Tells ==
  /\ ~Parsing /\ life = "over" /\ ~Parsed(NoMsg)
  /\ Clear /\ UNCHANGED <<vars, chunk, delivered, errors, hostVars>>

\* onRecvMsg(): a message asks for nothing, is answered if the connection is up,
\* or makes the host shut it down and, perhaps, connect anew: the life that then
\* begins is that of Opens with the rest of the bytes.
Deletes == IF life = "open" THEN Shutdown ELSE UNCHANGED vars
AnswersAnyway ==                    \* mutation: no isConnected() in sendMessage()
  sent < MaxSent /\ sent' = sent + 1 /\ UNCHANGED <<members, taken, room, incoming, keeper>>
Answers == Send /\ sent' = sent + 1
Handles ==
  \/ UNCHANGED <<vars, freed>>
  \/ Answers /\ freed' = (freed \/ life' = "over")
  \/ Deletes /\ freed' = TRUE

\* A turn of the loop of input().
Parses ==
  /\ life # "new"
  /\ \/ ParsePartOfHead /\ UNCHANGED <<vars, freed>>
     \/ ParseBadHead /\ Deletes /\ UNCHANGED freed
     \/ /\ ParseHead \/ ParseRest
        /\ IF delivered' = delivered THEN UNCHANGED <<vars, freed>> ELSE Handles
  /\ UNCHANGED <<msgs, cut, late>>

\* The bytes were in a buffer of the Connection, and its memory may be used again.
BufferReused ==
  /\ freed /\ Parsing
  /\ chunk' \in [1 .. Len(chunk) -> 0 .. Base - 1]
  /\ UNCHANGED <<vars, parsed, delivered, errors, hostVars>>

PeerActs ==
  /\ PeerReads \/ PeerSends \/ PeerEnds \/ PeerLost
  /\ keeper \/ arrived' <= Len(Peer)
  /\ UNCHANGED <<msgVars, hostVars>>

ControlNext ==
  \/ Opens \/ SendsMore \/ ShutsDown \/ ConnectEnds \/ Flushes
  \/ Reads \/ Tells \/ Parses \/ BufferReused \/ PeerActs

ControlSpec == ControlInit /\ [][ControlNext]_allVars

\* The event loop gives every event and input() comes to an end; the peer reads
\* what it is sent.
ControlFairness ==
  /\ WF_allVars(ConnectEnds) /\ WF_allVars(Flushes) /\ WF_allVars(Reads)
  /\ WF_allVars(Parses) /\ WF_allVars(PeerReads /\ PeerActs)
FairControlSpec == ControlSpec /\ ControlFairness

-----------------------------------------------------------------------------
\* Wherever recv() cuts the stream, and whatever an earlier connection left, each
\* call of the handler gets the next message the peer sent, whole (utest.cpp:84):
\* until so many bytes come at once that their count is cut, or the bytes are gone;
\* and not on a connection that was opened while input() still parsed the bytes of
\* an earlier one and that found a part of a message left by them (`late`).
DeliversInOrder ==
  [][delivered' # delivered /\ ~cut /\ ~freed /\ ~late =>
       /\ Len(delivered) < Len(msgs)
       /\ delivered' = Append(delivered, msgs[Len(delivered) + 1])]_allVars

\* Types, and once input() returns, every message whose bytes have all been read has been
\* delivered, up to the first illegal one, and that one has been reported, but for the
\* same exceptions.
NothingWithheld ==
  /\ TypeOK /\ MsgTypeOK
  /\ ~Parsing /\ ~cut /\ ~freed /\ ~late =>
       \A k \in 0 .. Len(msgs) :
         Len(Bytes(SubSeq(msgs, 1, k))) <= got =>
           \/ Len(delivered) >= k
           \/ errors = 1 /\ TooLong(Len(msgs[Len(delivered) + 1]))

=============================================================================
