-------------------------- MODULE ConnectionProofs --------------------------
(***************************************************************************)
(* Theorems about a TCP connection, for packets, rooms and blocks of every *)
(* size: until its end is told it implements Fifo.  And about the messages *)
(* it carries, for every width of a length: wherever the stream is cut,    *)
(* each is given once, whole and in order, and none is withheld.           *)
(***************************************************************************)
EXTENDS ControlStream, RunLemmas

-----------------------------------------------------------------------------
(* The inductive invariant.                                                *)

\* Nothing has happened before the connection is opened.
Untouched ==
  life = "new" =>
    /\ status = "closed" /\ regR = FALSE /\ regW = FALSE /\ told = FALSE
    /\ pending = <<>> /\ taken = <<>> /\ sent = 0

\* Nothing is cached before the connection is up.
EmptyTillUp == status = "connecting" => pending = <<>>

\* What the socket took and what waits is what was sent.
NothingMissing ==
  told = FALSE /\ life # "over" => taken \o pending = Numbers(0, sent)

ConnInv == TypeOK /\ Untouched /\ EmptyTillUp /\ EventsMatch /\ NothingMissing

\* A write takes a first part of the bytes and leaves the rest, tryFlushRemainPacket.
LEMMA WriteSplits ==
  ASSUME TypeOK, NEW bytes \in Seq(Nat), Write(bytes)
  PROVE  /\ Written(bytes) \in 0 .. Len(bytes)
         /\ taken' \in Seq(Nat) /\ room' \in 0 .. Room
         /\ IsPrefix(taken, taken')
         /\ Rest(bytes, Written(bytes)) \in Seq(Nat)
         /\ Rest(bytes, Written(bytes)) = <<>> <=> Written(bytes) = Len(bytes)
         /\ taken' \o Rest(bytes, Written(bytes)) = taken \o bytes
<1>1. Len(bytes) \in Nat /\ room \in 0 .. Room /\ taken \in Seq(Nat) /\ Room \in Nat
  BY LenProperties, ConnectionAssumption DEF TypeOK
<1>2. Written(bytes) \in 0 .. Len(bytes) /\ Written(bytes) <= room
  BY <1>1 DEF Written
<1> DEFINE w == Written(bytes)
           first == SubSeq(bytes, 1, w)
           rest == Rest(bytes, w)
<1>3. /\ first \in Seq(Nat)
      /\ rest \in Seq(Nat) /\ Len(rest) = Len(bytes) - w
      /\ first \o rest = bytes
  BY <1>2, Cut
<1>4. taken' = taken \o first /\ room' = room - w
  BY DEF Write
<1>5. room' \in 0 .. Room
  BY <1>1, <1>2, <1>4
<1>6. taken' \in Seq(Nat) /\ IsPrefix(taken, taken')
  <2>. HIDE DEF first
  <2>. QED  BY <1>1, <1>3, <1>4, ConcatProperties, Begins
<1>7. taken' \o rest = taken \o bytes
  <2>. HIDE DEF first, rest
  <2>1. (taken \o first) \o rest = taken \o (first \o rest)
    BY <1>1, <1>3, Grouping, ZenonT(60)
  <2>. QED  BY <1>3, <1>4, <2>1
<1>8. rest = <<>> <=> w = Len(bytes)
  <2>1. rest = <<>> <=> Len(rest) = 0
    <3>. HIDE DEF rest
    <3>. QED  BY <1>3, EmptySeq
  <2>. QED  BY <1>1, <1>2, <1>3, <2>1
<1>. QED  BY <1>2, <1>3, <1>5, <1>6, <1>7, <1>8

\* The invariant holds at first.
LEMMA InitConn == Init => ConnInv
<1>. SUFFICES ASSUME Init PROVE ConnInv
  OBVIOUS
<1>1. TypeOK
  <2>1. <<>> \in Seq(Nat)
    BY EmptySeq
  <2>2. Room \in 0 .. Room /\ 0 \in 0 .. MaxSent /\ 0 \in 0 .. MaxArrived /\ 0 \in 0 .. 0
    BY ConnectionAssumption
  <2>. QED  BY <2>1, <2>2 DEF Init, TypeOK
<1>2. Untouched /\ EmptyTillUp /\ EventsMatch
  BY DEF Init, Untouched, EmptyTillUp, EventsMatch
<1>3. NothingMissing
  <2>1. Numbers(0, 0) \in Seq(Nat) /\ Len(Numbers(0, 0)) = 0
    BY NumbersAreBytes
  <2>2. Numbers(0, 0) = <<>>
    BY <2>1, EmptySeq
  <2>3. <<>> \o <<>> = <<>>
    BY EmptySeq, ConcatEmptySeq
  <2>. QED  BY <2>2, <2>3 DEF Init, NothingMissing
<1>. QED  BY <1>1, <1>2, <1>3 DEF ConnInv

\* A step that sends: the cached remainder, an error, or all of it.
LEMMA SendKeeps ==
  ASSUME ConnInv, Send
  PROVE  /\ ConnInv'
         /\ sent <= sent' /\ IsPrefix(taken, taken')
<1>. USE DEF ConnInv
<1>1. PICK n \in 1 .. MaxPacket :
        /\ sent + n <= MaxSent
        /\ sent' = sent + n
        /\ Write(pending \o Numbers(sent, n))
        /\ \/ SendCaches(pending \o Numbers(sent, n), Numbers(sent, n))
           \/ SendTells(pending \o Numbers(sent, n))
           \/ SendWhole(pending \o Numbers(sent, n))
  BY DEF Send
<1> DEFINE data == Numbers(sent, n)
           all == pending \o data
<1>2. life = "open" /\ status = "connected" /\ UNCHANGED <<incoming, keeper>>
  BY DEF Send
<1>3. /\ n \in Nat /\ sent \in Nat /\ pending \in Seq(Nat) /\ taken \in Seq(Nat)
      /\ sent' \in 0 .. MaxSent
  BY <1>1, ConnectionAssumption DEF TypeOK
<1>4. data \in Seq(Nat) /\ Len(data) = n
  BY <1>3, NumbersAreBytes
<1>5. all \in Seq(Nat) /\ Len(all) = Len(pending) + n /\ Len(pending) \in Nat
  <2>. HIDE DEF data
  <2>. QED  BY <1>3, <1>4, ConcatProperties, LenProperties
<1>6. /\ Written(all) \in 0 .. Len(all)
      /\ taken' \in Seq(Nat) /\ room' \in 0 .. Room
      /\ IsPrefix(taken, taken')
      /\ Rest(all, Written(all)) \in Seq(Nat)
      /\ Rest(all, Written(all)) = <<>> <=> Written(all) = Len(all)
      /\ taken' \o Rest(all, Written(all)) = taken \o all
  <2>. HIDE DEF all
  <2>. QED  BY <1>1, <1>5, WriteSplits DEF all
<1>7. told = FALSE => taken \o all = Numbers(0, sent')
  <2>1. taken \o all = (taken \o pending) \o data
    <3>. HIDE DEF data
    <3>. QED  BY <1>3, <1>4, Grouping
  <2>2. Numbers(0, sent') = Numbers(0, sent) \o data
    BY <1>1, <1>3, NumbersGrow
  <2>. QED  BY <1>2, <2>1, <2>2 DEF NothingMissing
<1>. HIDE DEF all, data
<1>8. CASE SendCaches(all, data)
  <2>. USE DEF SendCaches, Remains, Watch
  <2>1. TypeOK'
    BY <1>2, <1>3, <1>6, <1>8 DEF TypeOK, incoming
  <2>2. EventsMatch'
    BY <1>2, <1>5, <1>6, <1>8 DEF EventsMatch, TypeOK
  <2>3. NothingMissing' /\ Untouched' /\ EmptyTillUp'
    BY <1>2, <1>6, <1>7, <1>8 DEF NothingMissing, Untouched, EmptyTillUp
  <2>. QED  BY <1>1, <1>3, <1>6, <2>1, <2>2, <2>3
<1>9. CASE SendTells(all)
  <2>1. Rest(pending, Written(all)) \in Seq(Nat)
    BY <1>3, <1>5, <1>6, RestIsBytes
  <2>2. TypeOK'
    BY <1>2, <1>3, <1>6, <1>9, <2>1, EmptySeq DEF TypeOK, incoming, SendTells, Tell
  <2>3. EventsMatch' /\ NothingMissing' /\ Untouched' /\ EmptyTillUp'
    BY <1>2, <1>9 DEF EventsMatch, NothingMissing, Untouched, EmptyTillUp, SendTells, Tell
  <2>. QED  BY <1>1, <1>3, <1>6, <2>2, <2>3
<1>10. CASE SendWhole(all)
  <2>1. TypeOK'
    BY <1>2, <1>3, <1>6, <1>10, EmptySeq DEF TypeOK, incoming, SendWhole
  <2>2. EventsMatch'
    BY <1>2, <1>10 DEF EventsMatch, SendWhole
  <2>3. NothingMissing' /\ Untouched' /\ EmptyTillUp'
    BY <1>2, <1>6, <1>7, <1>10 DEF NothingMissing, Untouched, EmptyTillUp, SendWhole
  <2>. QED  BY <1>1, <1>3, <1>6, <2>1, <2>2, <2>3
<1>. QED  BY <1>1, <1>8, <1>9, <1>10 DEF all, data

\* A write event of a connection that is up.
LEMMA FlushKeeps ==
  ASSUME ConnInv, Flush
  PROVE  /\ ConnInv'
         /\ sent <= sent' /\ IsPrefix(taken, taken')
<1>. USE DEF ConnInv
<1>1. /\ life = "open" /\ status = "connected" /\ Write(pending)
      /\ UNCHANGED <<sent, incoming, keeper>>
  BY DEF Flush
<1>2. /\ pending \in Seq(Nat) /\ taken \in Seq(Nat) /\ sent \in Nat
      /\ Len(pending) \in Nat
  BY LenProperties DEF TypeOK
<1>3. /\ Written(pending) \in 0 .. Len(pending)
      /\ taken' \in Seq(Nat) /\ room' \in 0 .. Room
      /\ IsPrefix(taken, taken')
      /\ Rest(pending, Written(pending)) \in Seq(Nat)
      /\ Rest(pending, Written(pending)) = <<>> <=> Written(pending) = Len(pending)
      /\ taken' \o Rest(pending, Written(pending)) = taken \o pending
  BY <1>1, <1>2, WriteSplits
<1>4. CASE /\ pending' = Rest(pending, Written(pending))
           /\ regW' = (Written(pending) < Len(pending))
           /\ UNCHANGED <<status, regR, told, life>>
  <2>1. TypeOK'
    BY <1>1, <1>3, <1>4 DEF TypeOK, incoming
  <2>2. EventsMatch'
    <3>1. Written(pending) < Len(pending) <=> Rest(pending, Written(pending)) # <<>>
      BY <1>2, <1>3
    <3>. QED  BY <1>1, <1>4, <3>1 DEF EventsMatch
  <2>3. NothingMissing' /\ Untouched' /\ EmptyTillUp'
    BY <1>1, <1>3, <1>4 DEF NothingMissing, Untouched, EmptyTillUp
  <2>. QED  BY <1>1, <1>2, <1>3, <2>1, <2>2, <2>3
<1>5. CASE Tell(status, Rest(pending, Written(pending)))
  <2>1. TypeOK'
    BY <1>1, <1>3, <1>5, EmptySeq DEF TypeOK, incoming, Tell
  <2>2. EventsMatch' /\ NothingMissing' /\ Untouched' /\ EmptyTillUp'
    BY <1>1, <1>5 DEF EventsMatch, NothingMissing, Untouched, EmptyTillUp, Tell
  <2>. QED  BY <1>1, <1>2, <1>3, <2>1, <2>2
<1>. QED  BY <1>4, <1>5 DEF Flush, Unwatch

\* Every step keeps the invariant, and what was sent and taken only grows.
LEMMA ConnStep ==
  ASSUME ConnInv, [Next]_vars
  PROVE  /\ ConnInv'
         /\ sent <= sent' /\ IsPrefix(taken, taken')
<1>. USE DEF ConnInv
<1>1. /\ sent \in Nat /\ pending \in Seq(Nat) /\ taken \in Seq(Nat)
      /\ IsPrefix(taken, taken)
  <2>1. <<>> \in Seq(Nat) /\ taken \o <<>> = taken
    BY EmptySeq, ConcatEmptySeq DEF TypeOK
  <2>2. IsPrefix(taken, taken \o <<>>)
    BY <2>1, Begins DEF TypeOK
  <2>. QED  BY <2>1, <2>2 DEF TypeOK
<1>2. ASSUME UNCHANGED <<outgoing, incoming>>,
             \/ OpenConnected \/ OpenConnecting \/ Shutdown
             \/ Connected \/ ConnectFails
      PROVE  ConnInv'
  <2>1. TypeOK'
    BY <1>1, <1>2, EmptySeq
    DEF TypeOK, outgoing, incoming, OpenConnected, OpenConnecting, Shutdown,
        Connected, ConnectFails, Listen, Tell
  <2>2. Untouched' /\ EmptyTillUp' /\ EventsMatch'
    <3>. USE DEF Untouched, EmptyTillUp, EventsMatch, outgoing
    <3>1. CASE OpenConnected \/ OpenConnecting
      BY <3>1 DEF OpenConnected, OpenConnecting
    <3>2. CASE Shutdown
      BY <3>2 DEF Shutdown
    <3>3. CASE Connected
      BY <3>3 DEF Connected, Listen
    <3>4. CASE ConnectFails
      BY <3>4 DEF ConnectFails, Tell
    <3>. QED  BY <1>2, <3>1, <3>2, <3>3, <3>4
  <2>3. NothingMissing'
    BY <1>2
    DEF NothingMissing, outgoing, OpenConnected, OpenConnecting, Shutdown,
        Connected, ConnectFails, Listen, Tell
  <2>. QED  BY <2>1, <2>2, <2>3
<1>3. CASE OpenConnected \/ OpenConnecting \/ Shutdown \/ Connected \/ ConnectFails
  <2>1. UNCHANGED <<outgoing, incoming>>
    BY <1>3 DEF OpenConnected, OpenConnecting, Shutdown, Connected, ConnectFails
  <2>. QED  BY <1>1, <1>2, <1>3, <2>1 DEF outgoing
<1>4. CASE Send
  BY <1>4, SendKeeps
<1>5. CASE Flush
  BY <1>5, FlushKeeps
<1>6. CASE Input
  <2>1. UNCHANGED <<outgoing, arrived, peer, keeper>> /\ life = "open"
    BY <1>6 DEF Input
  <2>2. got' \in 0 .. arrived
    <3>1. /\ got \in Nat /\ arrived \in Nat /\ got <= arrived /\ Limit \in Nat
      BY ConnectionAssumption DEF TypeOK
    <3>2. NowRead \in 0 .. Avail
      BY <3>1 DEF NowRead, Avail
    <3>3. got' = got + NowRead \/ got' = got
      BY <1>6 DEF Input
    <3>. QED  BY <3>1, <3>2, <3>3 DEF Avail
  <2>3. UNCHANGED members \/ Tell("closed", pending) \/ Tell("error", pending)
    BY <1>6 DEF Input
  <2>4. TypeOK'
    BY <2>1, <2>2, <2>3, EmptySeq DEF TypeOK, outgoing, members, Tell
  <2>5. Untouched' /\ EmptyTillUp' /\ EventsMatch' /\ NothingMissing'
    BY <2>1, <2>3 DEF Untouched, EmptyTillUp, EventsMatch, NothingMissing, outgoing, members, Tell
  <2>. QED  BY <1>1, <2>1, <2>4, <2>5 DEF outgoing
<1>7. CASE PeerReads \/ PeerSends \/ PeerEnds \/ PeerLost
  <2>1. /\ UNCHANGED <<members, sent, taken, keeper>> /\ life = "open"
        /\ room' \in 0 .. Room /\ got' \in 0 .. arrived' /\ arrived' \in 0 .. MaxArrived
        /\ peer' \in {"up", "ended", "lost"}
    BY <1>7, ConnectionAssumption
    DEF TypeOK, outgoing, incoming, PeerReads, PeerSends, PeerEnds, PeerLost
  <2>2. TypeOK'
    BY <2>1 DEF TypeOK, members
  <2>3. Untouched' /\ EmptyTillUp' /\ EventsMatch' /\ NothingMissing'
    BY <2>1 DEF Untouched, EmptyTillUp, EventsMatch, NothingMissing, members
  <2>. QED  BY <1>1, <2>1, <2>2, <2>3
<1>8. CASE UNCHANGED vars
  <2>1. TypeOK' /\ Untouched' /\ EmptyTillUp' /\ EventsMatch' /\ NothingMissing'
    BY <1>8
    DEF vars, members, outgoing, incoming, TypeOK, Untouched, EmptyTillUp, EventsMatch, NothingMissing
  <2>. QED  BY <1>1, <1>8, <2>1 DEF vars, outgoing
<1>. QED  BY <1>3, <1>4, <1>5, <1>6, <1>7, <1>8 DEF Next

-----------------------------------------------------------------------------
\* The invariant holds throughout.
THEOREM ConnInvariant == Spec => []ConnInv
<1>1. ConnInv /\ [Next]_vars => ConnInv'
  BY ConnStep
<1>. QED  BY InitConn, <1>1, PTL DEF Spec

\* Every member of a Connection and every counter keeps its type, for every
\* size of packets, rooms and blocks.
THEOREM ConnTypeCorrect == Spec => []TypeOK
<1>1. ConnInv => TypeOK
  BY DEF ConnInv
<1>. QED  BY ConnInvariant, <1>1, PTL

\* An open connection whose end is not told is registered for reading exactly
\* when it is connected, and for writing exactly while it waits for something.
THEOREM EventsAlwaysMatch == Spec => []EventsMatch
<1>1. ConnInv => EventsMatch
  BY DEF ConnInv
<1>. QED  BY ConnInvariant, <1>1, PTL

\* A step that does not tell the end, and leaves the connection open, is a step
\* of a queue.
LEMMA StepIsQueueStep ==
  ASSUME ConnInv, [Next]_vars, ~told', life' # "over"
  PROVE  Stream!Next
<1>1. /\ ConnInv' /\ sent <= sent' /\ IsPrefix(taken, taken')
  BY ConnStep
<1>2. sent \in Nat /\ sent' \in Nat /\ sent <= sent'
  <2>1. sent \in 0 .. MaxSent
    BY DEF ConnInv, TypeOK
  <2>2. sent' \in 0 .. MaxSent
    BY <1>1 DEF ConnInv, TypeOK
  <2>. QED  BY <1>1, <2>1, <2>2
<1>3. IsPrefix(Numbers(0, sent), Numbers(0, sent'))
  <2>1. sent' - sent \in Nat /\ sent' = sent + (sent' - sent)
    <3>1. \A a, b \in Nat : a <= b => b - a \in Nat /\ b = a + (b - a)
      OBVIOUS
    <3>. QED  BY <1>2, <3>1
  <2>2. Numbers(0, sent') = Numbers(0, sent) \o Numbers(sent, sent' - sent)
    BY <1>2, <2>1, NumbersGrow
  <2>3. Numbers(0, sent) \in Seq(Nat) /\ Numbers(sent, sent' - sent) \in Seq(Nat)
    BY <1>2, <2>1, NumbersAreBytes
  <2>. QED  BY <2>2, <2>3, Begins
<1>4. taken' \o pending' = Numbers(0, sent')
  BY <1>1 DEF ConnInv, NothingMissing, TypeOK
<1>5. Numbers(0, sent)' = Numbers(0, sent')
  BY DEF Numbers
<1>6. /\ Stream!IsPrefix(Numbers(0, sent), Numbers(0, sent'))
      /\ Stream!IsPrefix(taken, taken')
  BY <1>1, <1>3 DEF IsPrefix, Stream!IsPrefix
<1>. QED  BY <1>4, <1>5, <1>6 DEF Stream!Next

\* Until its end is told, a connection implements the queue of Fifo: no byte is
\* lost, repeated or overtaken, however the socket cuts what it takes.
THEOREM ConnectionIsFifo == Spec => StreamIsFifo
<1>1. Init => Stream!Init
  <2>1. ASSUME Init PROVE Numbers(0, sent) = <<>>
    <3>1. Numbers(0, 0) \in Seq(Nat) /\ Len(Numbers(0, 0)) = 0
      BY NumbersAreBytes
    <3>. QED  BY <2>1, <3>1, EmptySeq DEF Init
  <2>. QED  BY <2>1 DEF Init, Stream!Init
<1>2. ConnInv /\ [Next]_vars
        => [~told' /\ life' # "over" => Stream!Next]_<<sent, pending, taken>>
  BY StepIsQueueStep
<1>. QED  BY ConnInvariant, <1>1, <1>2, PTL DEF Spec, StreamIsFifo

-----------------------------------------------------------------------------
(* The TCP side of a FastConnection is one of those, whatever its host     *)
(* does from within onRecv.                                                *)

\* What a message makes the host do to the connection, FastConnection::onRecvMsg,
\* is a step of the connection.
LEMMA HandlingIsAStep ==
  ASSUME Handles
  PROVE  [Next]_vars
<1>1. CASE UNCHANGED vars
  BY <1>1
<1>2. CASE Answers
  BY <1>2 DEF Answers, Next
<1>3. CASE Deletes
  BY <1>3 DEF Deletes, Next
<1>. QED  BY <1>1, <1>2, <1>3 DEF Handles

\* A turn of the parser's loop, MessageReceiver::input, is one or none.
LEMMA ParsingIsAStep ==
  ASSUME Parses
  PROVE  [Next]_vars
<1>1. CASE UNCHANGED vars
  BY <1>1
<1>2. CASE Deletes
  BY <1>2 DEF Deletes, Next
<1>3. CASE Handles
  BY <1>3, HandlingIsAStep
<1>. QED  BY <1>1, <1>2, <1>3 DEF Parses

\* So is every other step.
LEMMA ControlStepIsAStep ==
  ASSUME [ControlNext]_allVars
  PROVE  [Next]_vars
<1>1. CASE Opens \/ SendsMore \/ ShutsDown \/ ConnectEnds \/ Flushes \/ Reads
  BY <1>1 DEF Opens, SendsMore, ShutsDown, ConnectEnds, Flushes, Reads, Next
<1>2. CASE Parses
  BY <1>2, ParsingIsAStep
<1>3. CASE PeerActs
  BY <1>3 DEF PeerActs, Next
<1>4. CASE Tells \/ BufferReused \/ UNCHANGED allVars
  BY <1>4 DEF Tells, BufferReused, allVars
<1>. QED  BY <1>1, <1>2, <1>3, <1>4 DEF ControlNext

-----------------------------------------------------------------------------
\* Answers and shutdowns from within the parser, and all else a FastConnection
\* does to its Connection, are steps of Connection, so what is proved of it holds here.
LEMMA ControlIsConnection == ControlSpec => Spec
<1>1. ControlInit => Init
  BY DEF ControlInit
<1>2. [ControlNext]_allVars => [Next]_vars
  BY ControlStepIsAStep
<1>. QED  BY <1>1, <1>2, PTL DEF ControlSpec, Spec

\* What a FastConnection sends, answers included, leaves in order and whole until
\* the end is told.
THEOREM ControlIsFifo == ControlSpec => StreamIsFifo
BY ControlIsConnection, ConnectionIsFifo, PTL

\* An answer from within onRecv leaves the connection watching what it must.
THEOREM ControlEventsMatch == ControlSpec => []EventsMatch
BY ControlIsConnection, EventsAlwaysMatch, PTL

-----------------------------------------------------------------------------
(* What a length says.                                                     *)

\* Weight is what its recursive definition says.
LEMMA WeightIs ==
  /\ Weight[0] = 1
  /\ \A i \in 1 .. HeadLen : Weight[i] = Base * Weight[i - 1]
  /\ \A i \in 0 .. HeadLen : Weight[i] \in Nat \ {0}
<1>1. Base \in Nat \ {0} /\ HeadLen \in Nat
  BY MessageReceiverAssumption
<1>. DEFINE g == [p \in (1 .. HeadLen) \X Nat |-> Base * p[2]]
            F(f) == f = [i \in 0 .. HeadLen |-> IF i = 0 THEN 1 ELSE Base * f[i - 1]]
<1>2. \E f : F(f)
  <2>1. g \in [(1 .. HeadLen) \X Nat -> Nat]
    BY <1>1
  <2>2. PICK f \in [0 .. HeadLen -> Nat] :
           f[0] = 1 /\ \A i \in 1 .. HeadLen : f[i] = g[<<i, f[i - 1]>>]
    <3>. HIDE DEF g
    <3>1. PICK f : ComesOf(f, Nat, HeadLen, 1, g)
      BY <1>1, <2>1, Recursion
    <3>. QED  BY <3>1 DEF ComesOf
  <2>3. ASSUME NEW i \in 1 .. HeadLen PROVE f[i] = Base * f[i - 1]
    <3>1. f[i - 1] \in Nat
      BY <1>1
    <3>2. g[<<i, f[i - 1]>>] = Base * f[i - 1]
      BY <3>1
    <3>. QED  BY <2>2, <3>2
  <2>4. f = [i \in 0 .. HeadLen |-> IF i = 0 THEN 1 ELSE Base * f[i - 1]]
    BY <1>1, <2>2, <2>3
  <2>. QED  BY <2>4
<1>3. F(Weight)
  <2>1. Weight = CHOOSE f : F(f)
    BY DEF Weight
  <2>. QED  BY <1>2, <2>1
<1>4. /\ Weight[0] = 1
      /\ \A i \in 1 .. HeadLen : Weight[i] = Base * Weight[i - 1]
  BY <1>1, <1>3
<1>. DEFINE T == {i \in Nat : i <= HeadLen => Weight[i] \in Nat \ {0}}
<1>5. 0 \in T
  BY <1>4
<1>6. ASSUME NEW i \in Nat, i \in T PROVE i + 1 \in T
  <2>1. ASSUME i + 1 <= HeadLen PROVE Weight[i + 1] \in Nat \ {0}
    <3>1. i + 1 \in 1 .. HeadLen /\ (i + 1) - 1 = i /\ Weight[i] \in Nat \ {0}
      BY <1>1, <1>6, <2>1
    <3>2. Weight[i + 1] = Base * Weight[i]
      BY <1>4, <3>1
    <3>. HIDE DEF T
    <3>. QED  BY <1>1, <3>1, <3>2
  <2>. QED  BY <2>1
<1>7. \A i \in 0 .. HeadLen : Weight[i] \in Nat \ {0}
  <2>1. Nat \subseteq T
    <3>. HIDE DEF T
    <3>. QED  BY <1>5, <1>6, Induction
  <2>. QED  BY <1>1, <2>1
<1>. QED  BY <1>4, <1>7

\* The sums of which Value is the last.
Summed(h, f) ==
  /\ f \in [0 .. HeadLen -> Nat] /\ f[0] = 0
  /\ \A i \in 1 .. HeadLen : f[i] = f[i - 1] + h[i] * Weight[i - 1]

\* Value is the sum of the digits by their weights.
LEMMA ValueIsSum ==
  ASSUME NEW h, \A i \in 1 .. HeadLen : h[i] \in Nat
  PROVE  \E f : Summed(h, f) /\ Value(h) = f[HeadLen]
<1>1. HeadLen \in Nat /\ \A i \in 1 .. HeadLen : Weight[i - 1] \in Nat
  BY WeightIs, MessageReceiverAssumption
<1>. DEFINE g == [p \in (1 .. HeadLen) \X Nat |-> p[2] + h[p[1]] * Weight[p[1] - 1]]
            F(f) == f = [i \in 0 .. HeadLen |-> IF i = 0 THEN 0
                                               ELSE f[i - 1] + h[i] * Weight[i - 1]]
            sum == CHOOSE f : F(f)
<1>2. PICK f : Summed(h, f) /\ F(f)
  <2>1. g \in [(1 .. HeadLen) \X Nat -> Nat]
    <3>1. ASSUME NEW p \in (1 .. HeadLen) \X Nat PROVE p[2] + h[p[1]] * Weight[p[1] - 1] \in Nat
      <4>1. p[2] \in Nat /\ h[p[1]] \in Nat /\ Weight[p[1] - 1] \in Nat
        BY <1>1
      <4>. QED  BY <4>1
    <3>. QED  BY <3>1
  <2>2. PICK f \in [0 .. HeadLen -> Nat] :
           f[0] = 0 /\ \A i \in 1 .. HeadLen : f[i] = g[<<i, f[i - 1]>>]
    <3>. HIDE DEF g
    <3>1. PICK f : ComesOf(f, Nat, HeadLen, 0, g)
      BY <1>1, <2>1, Recursion
    <3>. QED  BY <3>1 DEF ComesOf
  <2>3. ASSUME NEW i \in 1 .. HeadLen PROVE f[i] = f[i - 1] + h[i] * Weight[i - 1]
    <3>1. f[i - 1] \in Nat
      BY <1>1
    <3>2. g[<<i, f[i - 1]>>] = f[i - 1] + h[i] * Weight[i - 1]
      BY <3>1
    <3>. QED  BY <2>2, <3>2
  <2>4. f = [i \in 0 .. HeadLen |-> IF i = 0 THEN 0 ELSE f[i - 1] + h[i] * Weight[i - 1]]
    BY <1>1, <2>2, <2>3
  <2>5. Summed(h, f)
    BY <2>2, <2>3 DEF Summed
  <2>. QED  BY <2>4, <2>5
<1>3. Value(h) = sum[HeadLen] /\ F(sum)
  <2>1. F(sum)
    BY <1>2
  <2>2. Value(h) = sum[HeadLen]
    BY DEF Value
  <2>. QED  BY <2>1, <2>2
<1>. HIDE DEF sum
<1>4. sum[0] = 0 /\ \A i \in 1 .. HeadLen : sum[i] = sum[i - 1] + h[i] * Weight[i - 1]
  BY <1>1, <1>3
<1>. DEFINE T == {i \in Nat : i <= HeadLen => sum[i] = f[i]}
<1>5. 0 \in T
  BY <1>1, <1>2, <1>4 DEF Summed
<1>6. ASSUME NEW i \in Nat, i \in T PROVE i + 1 \in T
  <2>1. ASSUME i + 1 <= HeadLen PROVE sum[i + 1] = f[i + 1]
    <3>1. i + 1 \in 1 .. HeadLen /\ (i + 1) - 1 = i /\ sum[i] = f[i]
      BY <1>1, <1>6, <2>1
    <3>. HIDE DEF T
    <3>. QED  BY <1>2, <1>4, <3>1 DEF Summed
  <2>. QED  BY <2>1
<1>7. HeadLen \in T
  <2>. HIDE DEF T
  <2>. QED  BY <1>1, <1>5, <1>6, Induction
<1>. QED  BY <1>1, <1>2, <1>3, <1>7

\* A length that is read is the one that was written.
LEMMA LengthIsRead ==
  ASSUME NEW n \in 0 .. SizeMod - 1
  PROVE  Value(Digits(n)) = n
<1>. DEFINE h == Digits(n)
<1>1. /\ HeadLen \in Nat \ {0} /\ Base \in Nat \ {0} /\ n \in Nat
      /\ \A i \in 0 .. HeadLen : Weight[i] \in Nat \ {0}
      /\ \A i \in 1 .. HeadLen : Weight[i] = Base * Weight[i - 1]
      /\ Weight[0] = 1
  BY WeightIs, MessageReceiverAssumption DEF SizeMod
<1>2. \A i \in 1 .. HeadLen : h[i] = (n \div Weight[i - 1]) % Base
  BY DEF Digits
<1>3. \A i \in 1 .. HeadLen : h[i] \in Nat
  <2>1. ASSUME NEW i \in 1 .. HeadLen PROVE (n \div Weight[i - 1]) % Base \in Nat
    <3>. DEFINE w == Weight[i - 1]
                q == n \div w
    <3>1. w \in Nat \ {0}
      BY <1>1
    <3>2. q \in Nat
      <4>. HIDE DEF w
      <4>. QED  BY <1>1, <3>1, DivMod
    <3>. HIDE DEF q
    <3>3. q % Base \in 0 .. Base - 1
      BY <1>1, <3>2, DivMod
    <3>. QED  BY <1>1, <3>3 DEF q
  <2>. QED  BY <1>2, <2>1
<1>. HIDE DEF h
<1>4. PICK f : Summed(h, f) /\ Value(h) = f[HeadLen]
  BY <1>3, ValueIsSum
<1>. DEFINE T == {i \in Nat : i <= HeadLen => f[i] = n % Weight[i]}
<1>5. 0 \in T
  <2>1. n % 1 = 0
    BY <1>1
  <2>. QED  BY <1>1, <1>4, <2>1 DEF Summed
<1>6. ASSUME NEW i \in Nat, i \in T PROVE i + 1 \in T
  <2>1. ASSUME i + 1 <= HeadLen PROVE f[i + 1] = n % Weight[i + 1]
    <3>1. i + 1 \in 1 .. HeadLen /\ (i + 1) - 1 = i /\ f[i] = n % Weight[i] /\ i \in 0 .. HeadLen
      BY <1>1, <1>6, <2>1
    <3>. HIDE DEF T
    <3>2. f[i + 1] = f[i] + h[i + 1] * Weight[i]
      BY <1>4, <3>1 DEF Summed
    <3>3. h[i + 1] = (n \div Weight[i]) % Base /\ Weight[i + 1] = Base * Weight[i]
      BY <1>1, <1>2, <3>1
    <3>. DEFINE w == Weight[i]
    <3>4. n % (Base * w) = (n % w) + ((n \div w) % Base) * w
      <4>1. w \in Nat \ {0}
        BY <1>1, <3>1
      <4>. HIDE DEF w
      <4>. QED  BY <1>1, <4>1, NextDigit
    <3>. QED  BY <3>1, <3>2, <3>3, <3>4
  <2>. QED  BY <2>1
<1>7. HeadLen \in T
  <2>. HIDE DEF T
  <2>. QED  BY <1>1, <1>5, <1>6, Induction
<1>8. n % SizeMod = n
  <2>1. SizeMod \in Nat \ {0} /\ n \in 0 .. SizeMod - 1
    BY <1>1 DEF SizeMod
  <2>. QED  BY <1>1, <2>1
<1>. QED  BY <1>1, <1>4, <1>7, <1>8 DEF h, SizeMod

-----------------------------------------------------------------------------
(* Where a message is in the stream.                                       *)

\* A byte, a message and what carries it, a length and the message.
Byte == 0 .. Base - 1
Frame(m) == Digits(Len(m)) \o m
Frames(ms) == [i \in DOMAIN ms |-> Digits(Len(ms[i])) \o ms[i]]
Sendable == {m \in Seq(Byte) : Len(m) < SizeMod}
Before(ms, k) == Bytes(SubSeq(ms, 1, k))

\* A length is HeadLen bytes.
LEMMA DigitsAreBytes ==
  ASSUME NEW n \in Nat
  PROVE  Digits(n) \in Seq(Byte) /\ Len(Digits(n)) = HeadLen
<1>1. /\ HeadLen \in Nat /\ Base \in Nat \ {0}
      /\ \A i \in 1 .. HeadLen : Weight[i - 1] \in Nat \ {0}
  BY WeightIs, MessageReceiverAssumption
<1>2. ASSUME NEW i \in 1 .. HeadLen PROVE (n \div Weight[i - 1]) % Base \in Byte
  <2>. DEFINE w == Weight[i - 1]
              q == n \div w
  <2>1. w \in Nat \ {0}
    BY <1>1
  <2>2. q \in Nat
    <3>. HIDE DEF w
    <3>. QED  BY <2>1, DivMod
  <2>. HIDE DEF q
  <2>3. q % Base \in 0 .. Base - 1
    BY <1>1, <2>2, DivMod
  <2>. QED  BY <2>3 DEF q, Byte
<1>3. Digits(n) \in [1 .. HeadLen -> Byte]
  BY <1>2 DEF Digits
<1>4. Digits(n) \in Seq(Byte)
  BY <1>1, <1>3, SeqDef
<1>. QED  BY <1>1, <1>3, <1>4, LenProperties

\* A message behind its length.
LEMMA FrameIs ==
  ASSUME NEW m \in Sendable
  PROVE  /\ m \in Seq(Byte) /\ Len(m) \in Nat /\ Len(m) < SizeMod
         /\ Digits(Len(m)) \in Seq(Byte) /\ Len(Digits(Len(m))) = HeadLen
         /\ Frame(m) \in Seq(Byte) /\ Len(Frame(m)) = HeadLen + Len(m)
         /\ \A i \in 1 .. HeadLen : Frame(m)[i] = Digits(Len(m))[i]
         /\ \A i \in 1 .. Len(m) : Frame(m)[HeadLen + i] = m[i]
<1>1. m \in Seq(Byte) /\ Len(m) \in Nat /\ Len(m) < SizeMod
  BY LenProperties DEF Sendable
<1>. DEFINE d == Digits(Len(m))
<1>2. d \in Seq(Byte) /\ Len(d) = HeadLen
  BY <1>1, DigitsAreBytes
<1>. HIDE DEF d
<1>3. /\ d \o m \in Seq(Byte) /\ Len(d \o m) = Len(d) + Len(m)
      /\ \A i \in 1 .. Len(d) : i \in 1 .. Len(d) + Len(m) /\ (d \o m)[i] = d[i]
      /\ \A i \in 1 .. Len(m) :
           Len(d) + i \in 1 .. Len(d) + Len(m) /\ (d \o m)[Len(d) + i] = m[i]
  <2>1. m \in Seq(Byte) /\ d \in Seq(Byte)
    BY <1>1, <1>2
  <2>. QED  BY <2>1, ConcatAt
<1>. QED  BY <1>1, <1>2, <1>3 DEF d, Frame

\* So is what carries several, one behind the other.
LEMMA FramesAre ==
  ASSUME NEW ms \in Seq(Sendable)
  PROVE  /\ Frames(ms) \in Seq(Seq(Byte)) /\ Len(Frames(ms)) = Len(ms)
         /\ \A i \in 1 .. Len(ms) : Frames(ms)[i] = Frame(ms[i])
         /\ Bytes(ms) = FlattenSeq(Frames(ms)) /\ Bytes(ms) \in Seq(Byte)
<1>1. Len(ms) \in Nat /\ DOMAIN ms = 1 .. Len(ms) /\ \A i \in 1 .. Len(ms) : ms[i] \in Sendable
  BY LenProperties, ElementOfSeq
<1>2. \A i \in 1 .. Len(ms) : Frame(ms[i]) \in Seq(Byte)
  BY <1>1, FrameIs
<1>3. Frames(ms) \in [1 .. Len(ms) -> Seq(Byte)]
  BY <1>1, <1>2 DEF Frames, Frame
<1>4. Frames(ms) \in Seq(Seq(Byte))
  BY <1>1, <1>3, SeqDef
<1>5. Bytes(ms) = FlattenSeq(Frames(ms))
  BY DEF Bytes, Frames
<1>6. FlattenSeq(Frames(ms)) \in Seq(Byte)
  BY <1>4, FlattenIsSeq
<1>7. Len(Frames(ms)) = Len(ms)
  BY <1>1, <1>3, <1>4, LenProperties
<1>8. \A i \in 1 .. Len(ms) : Frames(ms)[i] = Frame(ms[i])
  BY <1>1 DEF Frames, Frame
<1>. QED  BY <1>4, <1>5, <1>6, <1>7, <1>8

\* The first elements of a sequence.
LEMMA FirstOf ==
  ASSUME NEW S, NEW s \in Seq(S), NEW k \in 0 .. Len(s)
  PROVE  /\ SubSeq(s, 1, k) \in Seq(S) /\ Len(SubSeq(s, 1, k)) = k
         /\ \A i \in 1 .. k : SubSeq(s, 1, k)[i] = s[i]
<1>1. Len(s) \in Nat
  BY LenProperties
<1>2. SubSeq(s, 1, k) \in Seq(S) /\ Len(SubSeq(s, 1, k)) = k
  BY Split
<1>3. SubSeq(s, 1, k) = [i \in 1 .. k |-> s[i]]
  BY <1>1
<1>. QED  BY <1>2, <1>3

\* One message more, and its bytes follow.
LEMMA OneMore ==
  ASSUME NEW ms \in Seq(Sendable)
  PROVE  /\ Before(ms, 0) = <<>> /\ Before(ms, Len(ms)) = Bytes(ms)
         /\ \A k \in 0 .. Len(ms) : Before(ms, k) \in Seq(Byte)
         /\ \A k \in 0 .. Len(ms) :
              k < Len(ms) => Before(ms, k + 1) = Before(ms, k) \o Frame(ms[k + 1])
<1>1. Len(ms) \in Nat
  BY LenProperties
<1>2. ASSUME NEW k \in 0 .. Len(ms) PROVE Before(ms, k) \in Seq(Byte)
  <2>1. SubSeq(ms, 1, k) \in Seq(Sendable)
    BY FirstOf
  <2>. QED  BY <2>1, FramesAre DEF Before
<1>3. Before(ms, Len(ms)) = Bytes(ms)
  <2>1. SubSeq(ms, 1, Len(ms)) = ms
    BY SubSeqFull
  <2>. QED  BY <2>1 DEF Before
<1>4. Before(ms, 0) = <<>>
  <2>. DEFINE s == SubSeq(ms, 1, 0)
  <2>1. s \in Seq(Sendable) /\ Len(s) = 0
    BY <1>1, FirstOf
  <2>. HIDE DEF s
  <2>2. Len(Frames(s)) = 0 /\ Frames(s) \in Seq(Seq(Byte)) /\ Bytes(s) = FlattenSeq(Frames(s))
    BY <2>1, FramesAre
  <2>3. Frames(s) = <<>>
    BY <2>2, EmptySeq
  <2>. QED  BY <2>2, <2>3, FlattenNone DEF s, Before
<1>5. ASSUME NEW k \in 0 .. Len(ms), k < Len(ms)
      PROVE  Before(ms, k + 1) = Before(ms, k) \o Frame(ms[k + 1])
  <2>. DEFINE s == SubSeq(ms, 1, k)
              t == SubSeq(ms, 1, k + 1)
              f == Frame(ms[k + 1])
  <2>0. k \in Nat /\ k + 1 \in 0 .. Len(ms) /\ k + 1 \in 1 .. Len(ms)
    BY <1>1, <1>5
  <2>1. s \in Seq(Sendable) /\ Len(s) = k /\ \A i \in 1 .. k : s[i] = ms[i]
    BY FirstOf
  <2>2. t \in Seq(Sendable) /\ Len(t) = k + 1 /\ \A i \in 1 .. k + 1 : t[i] = ms[i]
    BY <2>0, FirstOf
  <2>3. f \in Seq(Byte)
    <3>1. ms[k + 1] \in Sendable
      BY <2>0, ElementOfSeq
    <3>. QED  BY <3>1, FrameIs
  <2>. HIDE DEF s, t
  <2>4. /\ Frames(s) \in Seq(Seq(Byte)) /\ Len(Frames(s)) = k
        /\ \A i \in 1 .. k : Frames(s)[i] = Frame(s[i])
        /\ Bytes(s) = FlattenSeq(Frames(s))
    BY <2>1, FramesAre
  <2>5. /\ Frames(t) \in Seq(Seq(Byte)) /\ Len(Frames(t)) = k + 1
        /\ \A i \in 1 .. k + 1 : Frames(t)[i] = Frame(t[i])
        /\ Bytes(t) = FlattenSeq(Frames(t))
    BY <2>2, FramesAre
  <2>6. Frames(t) = Append(Frames(s), f)
    <3>. DEFINE a == Append(Frames(s), f)
    <3>. HIDE DEF f
    <3>1. /\ a \in Seq(Seq(Byte)) /\ Len(a) = k + 1
          /\ \A i \in 1 .. k : a[i] = Frames(s)[i]
          /\ a[k + 1] = f
      BY <2>3, <2>4, AppendProperties
    <3>2. ASSUME NEW i \in 1 .. k PROVE i \in 1 .. k + 1 /\ Frames(t)[i] = a[i]
      <4>1. i \in 1 .. k + 1
        BY <2>0
      <4>2. Frames(t)[i] = Frame(t[i]) /\ t[i] = ms[i]
        BY <2>2, <2>5, <4>1
      <4>3. a[i] = Frame(s[i]) /\ s[i] = ms[i]
        BY <2>1, <2>4, <3>1
      <4>. QED  BY <4>1, <4>2, <4>3
    <3>3. Frames(t)[k + 1] = a[k + 1]
      BY <2>0, <2>2, <2>5, <3>1 DEF f
    <3>. HIDE DEF a
    <3>4. \A i \in 1 .. k + 1 : Frames(t)[i] = a[i]
      BY <2>0, <3>2, <3>3
    <3>5. Frames(t) = a
      BY <2>5, <3>1, <3>4, SeqEqual
    <3>. QED  BY <3>5 DEF a
  <2>. HIDE DEF f
  <2>7. FlattenSeq(Append(Frames(s), f)) = FlattenSeq(Frames(s)) \o f
    BY <2>3, <2>4, FlattenAppend
  <2>. QED  BY <2>4, <2>5, <2>6, <2>7 DEF s, t, f, Before
<1>. QED  BY <1>2, <1>3, <1>4, <1>5

\* The messages up to one have its predecessors' bytes, and more.
Extends(s, t) == Len(s) <= Len(t) /\ \A i \in 1 .. Len(s) : t[i] = s[i]

\* The more messages, the longer what carries them, and it begins alike.
LEMMA Longer ==
  ASSUME NEW ms \in Seq(Sendable), NEW k \in 0 .. Len(ms), NEW j \in k .. Len(ms)
  PROVE  /\ Extends(Before(ms, k), Before(ms, j))
         /\ k < j => Len(Before(ms, k)) < Len(Before(ms, j))
<1>0. Len(ms) \in Nat /\ HeadLen \in Nat \ {0}
  BY LenProperties, MessageReceiverAssumption
<1>. DEFINE P(i) == /\ Extends(Before(ms, k), Before(ms, i))
                    /\ k < i => Len(Before(ms, k)) < Len(Before(ms, i))
            T == {d \in Nat : k + d <= Len(ms) => P(k + d)}
<1>1. 0 \in T
  <2>1. Len(Before(ms, k)) \in Nat
    BY OneMore, LenProperties
  <2>2. k + 0 = k
    OBVIOUS
  <2>3. P(k)
    BY <2>1 DEF Extends
  <2>. QED  BY <2>2, <2>3
<1>2. ASSUME NEW d \in Nat, d \in T PROVE d + 1 \in T
  <2>1. ASSUME k + (d + 1) <= Len(ms) PROVE P(k + (d + 1))
    <3>. DEFINE i == k + d
                s == Before(ms, i)
                t == Before(ms, i + 1)
                f == Frame(ms[i + 1])
                u == Before(ms, k)
    <3>1. i \in 0 .. Len(ms) /\ i < Len(ms) /\ k <= i /\ k + (d + 1) = i + 1 /\ i + 1 \in 1 .. Len(ms)
      BY <1>0, <2>1
    <3>2. P(i)
      BY <1>2, <3>1
    <3>3. Extends(u, s) /\ (k < i => Len(u) < Len(s))
      BY <3>2
    <3>. HIDE DEF i
    <3>4. t = s \o f /\ s \in Seq(Byte) /\ u \in Seq(Byte)
      BY <3>1, OneMore
    <3>5. f \in Seq(Byte) /\ Len(f) \in Nat \ {0}
      <4>1. ms[i + 1] \in Sendable
        BY <3>1, ElementOfSeq
      <4>2. f \in Seq(Byte) /\ Len(f) = HeadLen + Len(ms[i + 1]) /\ Len(ms[i + 1]) \in Nat
        BY <4>1, FrameIs
      <4>. QED  BY <1>0, <4>2
    <3>. HIDE DEF s, t, f, u
    <3>6. /\ Len(t) = Len(s) + Len(f) /\ Len(s) \in Nat
          /\ \A l \in 1 .. Len(s) : t[l] = s[l]
      BY <3>4, <3>5, ConcatAt
    <3>7. Len(u) \in Nat
      BY <3>4, LenProperties
    <3>8. Extends(u, t) /\ Len(u) < Len(t)
      BY <3>3, <3>5, <3>6, <3>7 DEF Extends
    <3>. QED  BY <3>1, <3>8 DEF u, t
  <2>. QED  BY <2>1
<1>3. \A d \in Nat : d \in T
  <2>. HIDE DEF T
  <2>. QED  BY <1>1, <1>2, Induction
<1>4. j - k \in Nat /\ k + (j - k) = j /\ j <= Len(ms)
  BY <1>0
<1>5. P(k + (j - k))
  <2>1. j - k \in T
    BY <1>3, <1>4
  <2>. QED  BY <1>4, <2>1
<1>. QED  BY <1>4, <1>5

\* Where a message's length and its bytes are in the stream.
HasMessage(ms, n, a, m) ==
  /\ a \in Nat /\ m \in Sendable /\ Len(m) \in Nat
  /\ Len(Before(ms, n + 1)) = a + HeadLen + Len(m)
  /\ a + HeadLen + Len(m) <= Len(Bytes(ms))
  /\ \A i \in 1 .. HeadLen : Bytes(ms)[a + i] = Digits(Len(m))[i]
  /\ \A i \in 1 .. Len(m) : Bytes(ms)[a + HeadLen + i] = m[i]

LEMMA Placed ==
  ASSUME NEW ms \in Seq(Sendable), NEW n \in 0 .. Len(ms), n < Len(ms)
  PROVE  HasMessage(ms, n, Len(Before(ms, n)), ms[n + 1])
<1>0. Len(ms) \in Nat /\ HeadLen \in Nat \ {0}
  BY LenProperties, MessageReceiverAssumption
<1>1. n + 1 \in 1 .. Len(ms) /\ n + 1 \in 0 .. Len(ms) /\ Len(ms) \in n + 1 .. Len(ms)
  BY <1>0
<1>. DEFINE a == Len(Before(ms, n))
            m == ms[n + 1]
            s == Before(ms, n)
            t == Before(ms, n + 1)
            f == Frame(m)
            p == Bytes(ms)
<1>2. t = s \o f /\ s \in Seq(Byte) /\ p = Before(ms, Len(ms)) /\ a = Len(s) /\ t \in Seq(Byte) /\ p \in Seq(Byte)
  BY <1>0, <1>1, OneMore
<1>3. m \in Sendable
  BY <1>1, ElementOfSeq
<1>. HIDE DEF a, m
<1>4. /\ f \in Seq(Byte) /\ Len(m) \in Nat /\ Len(f) = HeadLen + Len(m)
      /\ \A i \in 1 .. HeadLen : f[i] = Digits(Len(m))[i]
      /\ \A i \in 1 .. Len(m) : f[HeadLen + i] = m[i]
  BY <1>3, FrameIs
<1>5. Extends(t, p)
  BY <1>1, <1>2, Longer
<1>. HIDE DEF s, t, f, p
<1>6. /\ Len(t) = a + Len(f) /\ a \in Nat /\ Len(p) \in Nat
      /\ \A i \in 1 .. Len(f) : t[a + i] = f[i]
  BY <1>2, <1>4, ConcatAt, LenProperties
<1>7. /\ Len(t) = a + HeadLen + Len(m) /\ a + HeadLen + Len(m) <= Len(p)
      /\ \A i \in 1 .. Len(t) : p[i] = t[i]
  <2>1. Len(t) <= Len(p) /\ \A i \in 1 .. Len(t) : p[i] = t[i]
    BY <1>5 DEF Extends
  <2>2. Len(t) = a + Len(f) /\ Len(f) = HeadLen + Len(m)
    BY <1>4, <1>6
  <2>3. a \in Nat /\ HeadLen \in Nat /\ Len(m) \in Nat
    BY <1>0, <1>4, <1>6
  <2>4. \A x, y, z \in Nat : x + (y + z) = x + y + z
    OBVIOUS
  <2>5. Len(t) = a + (HeadLen + Len(m))
    BY <2>2, Zenon
  <2>6. a + (HeadLen + Len(m)) = a + HeadLen + Len(m)
    BY <2>3, <2>4, Zenon
  <2>. QED  BY <2>1, <2>5, <2>6
<1>8. ASSUME NEW i \in 1 .. Len(f) PROVE p[a + i] = f[i]
  <2>1. a + i \in 1 .. Len(t)
    BY <1>0, <1>4, <1>6
  <2>. QED  BY <1>6, <1>7, <2>1
<1>9. ASSUME NEW i \in 1 .. HeadLen PROVE p[a + i] = Digits(Len(m))[i]
  <2>1. i \in 1 .. Len(f)
    BY <1>0, <1>4
  <2>. QED  BY <1>4, <1>8, <2>1
<1>10. ASSUME NEW i \in 1 .. Len(m) PROVE p[a + HeadLen + i] = m[i]
  <2>1. HeadLen + i \in 1 .. Len(f) /\ a + HeadLen + i = a + (HeadLen + i)
    BY <1>0, <1>4, <1>6
  <2>. QED  BY <1>4, <1>8, <2>1
<1>. QED  BY <1>3, <1>4, <1>6, <1>7, <1>9, <1>10 DEF HasMessage, a, m, t, p

\* The bytes of s are those of p behind the first o.
Matches(p, s, o) == \A i \in 1 .. Len(s) : s[i] = p[o + i]

\* No bytes match anywhere.
LEMMA MatchesNone == \A p, o : Matches(p, <<>>, o)
<1>1. Len(<<>>) = 0
  BY EmptySeq
<1>. QED  BY <1>1 DEF Matches

\* What matches, and what matches behind it, match together.
LEMMA MatchesBoth ==
  ASSUME NEW S, NEW s \in Seq(S), NEW t \in Seq(S), NEW p, NEW o \in Nat,
         Matches(p, s, o), Matches(p, t, o + Len(s))
  PROVE  Matches(p, s \o t, o)
<1>1. /\ Len(s) \in Nat /\ Len(t) \in Nat /\ Len(s \o t) = Len(s) + Len(t)
      /\ \A i \in 1 .. Len(s) : (s \o t)[i] = s[i]
      /\ \A i \in 1 .. Len(t) : (s \o t)[Len(s) + i] = t[i]
  BY ConcatAt
<1>2. ASSUME NEW i \in 1 .. Len(s) + Len(t) PROVE (s \o t)[i] = p[o + i]
  <2>1. CASE i <= Len(s)
    <3>1. i \in 1 .. Len(s)
      BY <1>1, <2>1
    <3>. QED  BY <1>1, <3>1 DEF Matches
  <2>2. CASE ~ (i <= Len(s))
    <3>. DEFINE j == i - Len(s)
    <3>1. j \in 1 .. Len(t) /\ i = Len(s) + j /\ o + i = (o + Len(s)) + j
      BY <1>1, <2>2
    <3>. HIDE DEF j
    <3>. QED  BY <1>1, <3>1 DEF Matches
  <2>. QED  BY <2>1, <2>2
<1>. QED  BY <1>1, <1>2 DEF Matches

\* A stretch of a sequence.
LEMMA Slice ==
  ASSUME NEW S, NEW p \in Seq(S), NEW a \in Nat, NEW b \in Nat, a <= b, b <= Len(p)
  PROVE  /\ SubSeq(p, a + 1, b) \in Seq(S) /\ Len(SubSeq(p, a + 1, b)) = b - a
         /\ Matches(p, SubSeq(p, a + 1, b), a)
<1>1. Len(p) \in Nat /\ \A i \in 1 .. Len(p) : p[i] \in S
  BY LenProperties, ElementOfSeq
<1>. DEFINE s == SubSeq(p, a + 1, b)
<1>2. s = [i \in 1 .. b - a |-> p[a + i]]
  <2>1. s = [i \in 1 .. (1 + b - (a + 1)) |-> p[i + (a + 1) - 1]]
    BY Z3
  <2>2. 1 + b - (a + 1) = b - a
    OBVIOUS
  <2>3. ASSUME NEW i \in 1 .. b - a PROVE i + (a + 1) - 1 = a + i
    OBVIOUS
  <2>. QED  BY <2>1, <2>2, <2>3
<1>3. ASSUME NEW i \in 1 .. b - a PROVE a + i \in 1 .. Len(p)
  BY <1>1
<1>4. b - a \in Nat
  OBVIOUS
<1>5. s \in [1 .. b - a -> S]
  BY <1>1, <1>2, <1>3
<1>6. s \in Seq(S)
  BY <1>4, <1>5, SeqDef
<1>7. Len(s) = b - a
  BY <1>4, <1>5, <1>6, LenProperties
<1>8. \A i \in 1 .. b - a : s[i] = p[a + i]
  BY <1>2
<1>. QED  BY <1>6, <1>7, <1>8 DEF Matches

\* So do the parts of what matches.
LEMMA MatchesParts ==
  ASSUME NEW S, NEW s \in Seq(S), NEW k \in 0 .. Len(s), NEW p, NEW o \in Nat, Matches(p, s, o)
  PROVE  /\ Matches(p, SubSeq(s, 1, k), o)
         /\ Matches(p, SubSeq(s, k + 1, Len(s)), o + k)
<1>1. Len(s) \in Nat /\ k \in Nat /\ 0 <= k /\ k <= Len(s) /\ \A i \in 1 .. Len(s) : s[i] = p[o + i]
  BY LenProperties DEF Matches
<1>2. Matches(p, SubSeq(s, 1, k), o)
  <2>1. Len(SubSeq(s, 1, k)) = k /\ \A i \in 1 .. k : SubSeq(s, 1, k)[i] = s[i]
    BY FirstOf
  <2>. QED  BY <1>1, <2>1 DEF Matches
<1>3. Matches(p, SubSeq(s, k + 1, Len(s)), o + k)
  <2>. DEFINE t == SubSeq(s, k + 1, Len(s))
  <2>1. Len(t) = Len(s) - k /\ Matches(s, t, k)
    BY <1>1, Slice
  <2>. HIDE DEF t
  <2>2. ASSUME NEW i \in 1 .. Len(t) PROVE t[i] = p[(o + k) + i]
    <3>1. k + i \in 1 .. Len(s) /\ o + (k + i) = (o + k) + i
      BY <1>1, <2>1
    <3>. QED  BY <1>1, <2>1, <3>1 DEF Matches
  <2>. QED  BY <2>2 DEF Matches, t
<1>. QED  BY <1>2, <1>3

\* Two sequences of a length that match the same place are the same.
LEMMA MatchesSame ==
  ASSUME NEW S, NEW s \in Seq(S), NEW t \in Seq(S), Len(s) = Len(t), NEW p, NEW o,
         Matches(p, s, o), Matches(p, t, o)
  PROVE  s = t
BY SeqEqual DEF Matches

\* A length read at the beginning of a message is that message's.
LEMMA HeadRead ==
  ASSUME NEW ms \in Seq(Sendable), NEW n \in 0 .. Len(ms), NEW a, a = Len(Before(ms, n)),
         NEW h \in Seq(Byte), Len(h) = HeadLen, Matches(Bytes(ms), h, a),
         a + HeadLen <= Len(Bytes(ms))
  PROVE  n < Len(ms) /\ Value(h) = Len(ms[n + 1]) /\ Len(ms[n + 1]) \in Nat
<1>1. Len(ms) \in Nat /\ HeadLen \in Nat \ {0}
  BY LenProperties, MessageReceiverAssumption
<1>2. n < Len(ms)
  <2>1. ASSUME n = Len(ms) PROVE FALSE
    <3>1. Len(Bytes(ms)) = a /\ Bytes(ms) \in Seq(Byte)
      BY <2>1, OneMore, FramesAre
    <3>2. a \in Nat
      BY <3>1, LenProperties
    <3>. QED  BY <1>1, <3>1, <3>2
  <2>. QED  BY <1>1, <2>1
<1>. DEFINE m == ms[n + 1]
<1>3. /\ m \in Sendable /\ Len(m) \in Nat
      /\ \A i \in 1 .. HeadLen : Bytes(ms)[a + i] = Digits(Len(m))[i]
  <2>1. HasMessage(ms, n, a, m)
    BY <1>2, Placed
  <2>. QED  BY <2>1 DEF HasMessage
<1>4. Len(m) \in 0 .. SizeMod - 1
  <2>1. Len(m) < SizeMod /\ SizeMod \in Nat
    BY <1>1, <1>3, WeightIs, FrameIs, SMTT(30) DEF SizeMod
  <2>. QED  BY <1>3, <2>1
<1>. HIDE DEF m
<1>5. h = Digits(Len(m))
  <2>1. Digits(Len(m)) \in Seq(Byte) /\ Len(Digits(Len(m))) = HeadLen
    BY <1>3, DigitsAreBytes
  <2>2. Matches(Bytes(ms), Digits(Len(m)), a)
    BY <1>3, <2>1 DEF Matches
  <2>. QED  BY <2>1, <2>2, MatchesSame
<1>6. Value(h) = Len(m)
  BY <1>4, <1>5, LengthIsRead
<1>. QED  BY <1>2, <1>3, <1>6 DEF m

\* As many bytes behind it as it says are the message.
LEMMA BodyRead ==
  ASSUME NEW ms \in Seq(Sendable), NEW n \in 0 .. Len(ms), n < Len(ms),
         NEW a, a = Len(Before(ms, n)),
         NEW b \in Seq(Byte), Len(b) = Len(ms[n + 1]), Matches(Bytes(ms), b, a + HeadLen)
  PROVE  b = ms[n + 1]
<1>. DEFINE m == ms[n + 1]
<1>1. m \in Sendable /\ \A i \in 1 .. Len(m) : Bytes(ms)[a + HeadLen + i] = m[i]
  <2>1. HasMessage(ms, n, a, m)
    BY Placed
  <2>. QED  BY <2>1 DEF HasMessage
<1>2. m \in Seq(Byte)
  BY <1>1, FrameIs
<1>3. Matches(Bytes(ms), m, a + HeadLen)
  BY <1>1 DEF Matches
<1>. HIDE DEF m
<1>4. b = m
  <2>1. Len(b) = Len(m)
    BY DEF m
  <2>. QED  BY <1>2, <1>3, <2>1, MatchesSame
<1>. QED  BY <1>4 DEF m

\* Bytes of an incomplete message complete none.
LEMMA NotYet ==
  ASSUME NEW ms \in Seq(Sendable), NEW n \in 0 .. Len(ms), NEW l \in Nat,
         \/ l < HeadLen
         \/ n < Len(ms) /\ l < HeadLen + Len(ms[n + 1]),
         NEW k \in 0 .. Len(ms), Len(Before(ms, k)) <= Len(Before(ms, n)) + l,
         Len(Before(ms, n)) + l <= Len(Bytes(ms))
  PROVE  k <= n
<1>1. Len(ms) \in Nat /\ HeadLen \in Nat \ {0}
  BY LenProperties, MessageReceiverAssumption
<1>2. Len(Before(ms, n)) \in Nat /\ Len(Before(ms, k)) \in Nat
  BY OneMore, LenProperties
<1>3. ASSUME k > n PROVE FALSE
  <2>. DEFINE a == Len(Before(ms, n))
              m == ms[n + 1]
  <2>1. n < Len(ms) /\ n + 1 \in 0 .. Len(ms) /\ k \in n + 1 .. Len(ms)
    BY <1>1, <1>3
  <2>2. Len(m) \in Nat /\ Len(Before(ms, n + 1)) = a + HeadLen + Len(m)
    <3>1. HasMessage(ms, n, a, m)
      BY <2>1, Placed
    <3>. QED  BY <3>1 DEF HasMessage
  <2>3. Len(Before(ms, n + 1)) <= Len(Before(ms, k))
    BY <2>1, Longer DEF Extends
  <2>4. l < HeadLen + Len(m)
    BY <1>1, <2>2
  <2>. HIDE DEF a, m
  <2>5. a + HeadLen + Len(m) <= a + l /\ a \in Nat
    BY <1>2, <2>2, <2>3 DEF a
  <2>. QED  BY <1>1, <2>2, <2>4, <2>5
<1>. QED  BY <1>1, <1>3

\* The lesser of two numbers.
LEMMA MinOfTwo ==
  ASSUME NEW a \in Nat, NEW b \in Nat
  PROVE  Min({a, b}) = IF a <= b THEN a ELSE b
<1>. DEFINE m == IF a <= b THEN a ELSE b
<1>1. m \in {a, b} /\ \A y \in {a, b} : m <= y
  OBVIOUS
<1>2. \A x \in {a, b} : (\A y \in {a, b} : x <= y) => x = m
  OBVIOUS
<1>. QED  BY <1>1, <1>2 DEF Min

\* Any HeadLen bytes say some length.
LEMMA ValueIsNat ==
  ASSUME NEW h \in Seq(Byte), Len(h) = HeadLen
  PROVE  Value(h) \in Nat
<1>1. HeadLen \in Nat /\ Base \in Nat
  BY MessageReceiverAssumption
<1>2. \A i \in 1 .. HeadLen : h[i] \in Nat
  <2>1. \A i \in 1 .. HeadLen : h[i] \in Byte
    BY ElementOfSeq
  <2>. QED  BY <1>1, <2>1 DEF Byte
<1>3. PICK f : Summed(h, f) /\ Value(h) = f[HeadLen]
  BY <1>2, ValueIsSum
<1>. QED  BY <1>1, <1>3 DEF Summed

-----------------------------------------------------------------------------
(* The inductive invariant of the framing.                                 *)

\* What is parsed, what waits to be parsed and what is delivered keep their types.
Shape ==
  /\ msgs \in Seq(Sendable) /\ delivered \in Seq(Seq(Byte))
  /\ MsgTypeOK
  /\ cut \in BOOLEAN /\ freed \in BOOLEAN /\ late \in BOOLEAN

\* Where the bytes of the message being received begin in the stream.
Start == Len(Before(msgs, Len(delivered)))

\* What the receiver has of it and has still to parse is what follows there, up
\* to the last byte read.
Aligned ==
  /\ Len(delivered) <= Len(msgs)
  /\ Start + Len(head) + Len(body) + Len(chunk) = got
  /\ Matches(Peer, head, Start)
  /\ Matches(Peer, body, Start + Len(head))
  /\ Matches(Peer, chunk, Start + Len(head) + Len(body))

\* NothingWithheld, of the messages that are complete.
AllGiven ==
  \A k \in 0 .. Len(msgs) :
    Len(Before(msgs, k)) <= got =>
      \/ Len(delivered) >= k
      \/ errors = 1 /\ TooLong(Len(msgs[Len(delivered) + 1]))

\* The bytes are those of the stream, and there is a parser for them that no others
\* have been through.
Intact == ~keeper /\ ~cut /\ ~freed /\ ~late

\* A keeper's bytes are not parsed; the others' are those of the messages; an
\* error ends the connection, nothing is parsed before it begins, and the bytes of
\* a deleted one are parsed when it is over or while it is late.
Phases ==
  /\ keeper => msgs = <<>> /\ chunk = <<>> /\ delivered = <<>>
  /\ ~keeper => arrived <= Len(Peer)
  /\ errors = 1 => chunk = <<>> /\ life = "over"
  /\ life = "new" => got = 0 /\ delivered = <<>> /\ errors = 0 /\ late = FALSE
  /\ freed => life = "over" \/ late

\* A connection that may still read, or has something to parse, is aligned; one that
\* has nothing to parse has withheld nothing.
FrameInv ==
  /\ Shape
  /\ Phases
  /\ Intact /\ life # "new" /\ (Parsing \/ life = "open") => Aligned
  /\ Intact /\ ~Parsing => AllGiven

\* The types, one by one, and the lengths of all sequences.
LEMMA ShapeFacts ==
  ASSUME Shape
  PROVE  /\ msgs \in Seq(Sendable) /\ Len(msgs) \in Nat
         /\ delivered \in Seq(Seq(Byte)) /\ Len(delivered) \in Nat
         /\ chunk \in Seq(Byte) /\ Len(chunk) \in Nat
         /\ head \in Seq(Byte) /\ Len(head) \in Nat /\ Len(head) <= HeadLen
         /\ body \in Seq(Byte) /\ Len(body) \in Nat
         /\ state \in {"NoData", "RcvdHead"}
         /\ state = "NoData" => Len(head) < HeadLen /\ body = <<>> /\ Len(body) = 0
         /\ state = "RcvdHead" =>
              Len(head) = HeadLen /\ Value(head) <= MaxLen /\ Len(body) < Value(head)
         /\ Peer \in Seq(Byte) /\ Len(Peer) \in Nat
         /\ errors \in 0 .. 1 /\ HeadLen \in Nat \ {0}
<1>1. msgs \in Seq(Sendable) /\ delivered \in Seq(Seq(Byte))
  BY DEF Shape
<1>2. chunk \in Seq(Byte) /\ head \in Seq(Byte) /\ body \in Seq(Byte) /\ errors \in 0 .. 1
  BY DEF Shape, MsgTypeOK, Legal, Byte
<1>3. /\ state \in {"NoData", "RcvdHead"}
      /\ state = "NoData" => Len(head) < HeadLen /\ body = <<>>
      /\ state = "RcvdHead" =>
           Len(head) = HeadLen /\ Value(head) <= MaxLen /\ Len(body) < Value(head)
  BY DEF Shape, MsgTypeOK, Legal
<1>4. Peer \in Seq(Byte)
  BY <1>1, FramesAre DEF Peer
<1>5. /\ Len(msgs) \in Nat /\ Len(delivered) \in Nat /\ Len(chunk) \in Nat /\ Len(head) \in Nat
      /\ Len(body) \in Nat /\ Len(Peer) \in Nat
  BY <1>1, <1>2, <1>4, LenProperties
<1>6. HeadLen \in Nat \ {0}
  BY MessageReceiverAssumption
<1>7. Len(head) <= HeadLen
  BY <1>3, <1>5, <1>6
<1>8. body = <<>> => Len(body) = 0
  BY <1>2, EmptySeq
<1>. QED  BY <1>1, <1>2, <1>3, <1>4, <1>5, <1>6, <1>7, <1>8

\* With nothing left to parse, what is incomplete completes no message.
LEMMA RestGiven ==
  Shape /\ Aligned /\ chunk = <<>> /\ got <= Len(Peer) => AllGiven
<1>. SUFFICES ASSUME Shape, Aligned, chunk = <<>>, got <= Len(Peer),
                     NEW k \in 0 .. Len(msgs), Len(Before(msgs, k)) <= got
              PROVE  Len(delivered) >= k
  BY DEF AllGiven
<1>. DEFINE n == Len(delivered)
            l == Len(head) + Len(body)
<1>0. msgs \in Seq(Sendable)
  BY ShapeFacts
<1>1. /\ Len(msgs) \in Nat /\ n \in 0 .. Len(msgs)
      /\ l \in Nat /\ Len(head) \in Nat /\ Len(body) \in Nat /\ head \in Seq(Byte)
      /\ Len(Peer) \in Nat /\ HeadLen \in Nat \ {0}
  BY ShapeFacts DEF Aligned
<1>2. Start \in Nat
  <2>1. Before(msgs, n) \in Seq(Byte)
    BY <1>0, <1>1, OneMore
  <2>. QED  BY <2>1, LenProperties DEF Start
<1>3. Start + l = got
  <2>1. Len(chunk) = 0
    BY EmptySeq
  <2>2. Start + Len(head) + Len(body) + Len(chunk) = got
    BY DEF Aligned
  <2>. QED  BY <1>1, <1>2, <2>1, <2>2
<1>4. \/ l < HeadLen
      \/ n < Len(msgs) /\ l < HeadLen + Len(msgs[n + 1])
  <2>1. CASE state = "NoData"
    <3>1. Len(head) < HeadLen /\ Len(body) = 0
      BY <2>1, ShapeFacts
    <3>. QED  BY <1>1, <3>1
  <2>2. CASE state = "RcvdHead"
    <3>1. Len(head) = HeadLen /\ Len(body) < Value(head)
      BY <2>2, ShapeFacts
    <3>2. Matches(Bytes(msgs), head, Start) /\ Start + HeadLen <= Len(Bytes(msgs))
      <4>1. Matches(Peer, head, Start)
        BY DEF Aligned
      <4>2. Start + HeadLen <= Len(Peer)
        BY <1>1, <1>2, <1>3, <3>1
      <4>. QED  BY <4>1, <4>2 DEF Peer
    <3>3. n < Len(msgs) /\ Value(head) = Len(msgs[n + 1]) /\ Len(msgs[n + 1]) \in Nat
      <4>1. Start = Len(Before(msgs, n))
        BY DEF Start
      <4>. HIDE DEF n
      <4>. QED  BY <1>0, <1>1, <3>1, <3>2, <4>1, HeadRead
    <3>. QED  BY <1>1, <3>1, <3>3
  <2>3. state \in {"NoData", "RcvdHead"}
    BY ShapeFacts
  <2>. QED  BY <2>1, <2>2, <2>3
<1>5. Len(Before(msgs, n)) + l = got /\ got <= Len(Bytes(msgs))
  BY <1>3 DEF Start, Peer
<1>. HIDE DEF n, l
<1>6. k <= n
  <2>1. Len(Before(msgs, k)) <= Len(Before(msgs, n)) + l /\ Len(Before(msgs, n)) + l <= Len(Bytes(msgs))
    BY <1>5
  <2>. QED  BY <1>0, <1>1, <1>4, <2>1, NotYet
<1>. QED  BY <1>1, <1>6 DEF n

-----------------------------------------------------------------------------
(* A turn of the parser.                                                   *)

\* That place is one.
LEMMA StartIsNat ==
  ASSUME Shape, Len(delivered) <= Len(msgs)
  PROVE  Start \in Nat
<1>1. Len(delivered) \in 0 .. Len(msgs) /\ msgs \in Seq(Sendable)
  BY ShapeFacts
<1>2. Before(msgs, Len(delivered)) \in Seq(Byte)
  BY <1>1, OneMore
<1>. QED  BY <1>2, LenProperties DEF Start

\* parseMessage() takes what is missing of the length, or all there is.
LEMMA HeadGrows ==
  ASSUME Shape, state = "NoData"
  PROVE  /\ HeadTaken \in 0 .. Len(chunk)
         /\ HeadAfter \in Seq(Byte) /\ Len(HeadAfter) = Len(head) + HeadTaken
         /\ Len(HeadAfter) <= HeadLen
         /\ RestAfterHead \in Seq(Byte) /\ Len(RestAfterHead) = Len(chunk) - HeadTaken
         /\ Len(HeadAfter) < HeadLen => HeadTaken = Len(chunk)
<1>1. /\ chunk \in Seq(Byte) /\ Len(chunk) \in Nat /\ head \in Seq(Byte) /\ Len(head) \in Nat
      /\ HeadLen \in Nat /\ Len(head) < HeadLen
  BY ShapeFacts
<1>. DEFINE miss == HeadLen - Len(head)
<1>2. miss \in Nat /\ miss + Len(head) = HeadLen
  BY <1>1
<1>3. HeadTaken = IF miss <= Len(chunk) THEN miss ELSE Len(chunk)
  <2>. HIDE DEF miss
  <2>1. Min({miss, Len(chunk)}) = IF miss <= Len(chunk) THEN miss ELSE Len(chunk)
    BY <1>1, <1>2, MinOfTwo
  <2>. QED  BY <2>1 DEF HeadTaken, miss
<1>. HIDE DEF miss
<1>4. HeadTaken \in 0 .. Len(chunk) /\ HeadTaken <= miss /\ (HeadTaken < miss => HeadTaken = Len(chunk))
  BY <1>1, <1>2, <1>3
<1>. DEFINE k == HeadTaken
            s == SubSeq(chunk, 1, k)
            r == SubSeq(chunk, k + 1, Len(chunk))
<1>5. s \in Seq(Byte) /\ Len(s) = k /\ r \in Seq(Byte) /\ Len(r) = Len(chunk) - k
  <2>. HIDE DEF k
  <2>1. k \in 0 .. Len(chunk)
    BY <1>4 DEF k
  <2>. QED  BY <1>1, <2>1, Split
<1>6. HeadAfter = head \o s /\ RestAfterHead = r
  BY DEF HeadAfter, RestAfterHead
<1>. HIDE DEF s, r
<1>7. HeadAfter \in Seq(Byte) /\ Len(HeadAfter) = Len(head) + HeadTaken
  <2>1. head \o s \in Seq(Byte) /\ Len(head \o s) = Len(head) + Len(s)
    BY <1>1, <1>5, ConcatProperties
  <2>. QED  BY <1>5, <1>6, <2>1
<1>8. Len(HeadAfter) <= HeadLen /\ (Len(HeadAfter) < HeadLen => HeadTaken = Len(chunk))
  BY <1>1, <1>2, <1>4, <1>7
<1>. QED  BY <1>4, <1>5, <1>6, <1>7, <1>8

\* What it takes is of the stream, and what is left follows.
LEMMA HeadStaysAligned ==
  ASSUME Shape, state = "NoData", Aligned
  PROVE  /\ Matches(Peer, HeadAfter, Start)
         /\ Matches(Peer, RestAfterHead, Start + Len(HeadAfter))
         /\ Start + Len(HeadAfter) + Len(RestAfterHead) = got
<1>1. /\ chunk \in Seq(Byte) /\ Len(chunk) \in Nat /\ head \in Seq(Byte) /\ Len(head) \in Nat
      /\ HeadLen \in Nat /\ Len(body) = 0 /\ body = <<>>
  BY ShapeFacts
<1>2. /\ HeadTaken \in 0 .. Len(chunk) /\ Len(HeadAfter) = Len(head) + HeadTaken
      /\ Len(RestAfterHead) = Len(chunk) - HeadTaken
  BY HeadGrows
<1>3. Start \in Nat
  BY StartIsNat DEF Aligned
<1>4. /\ Matches(Peer, head, Start) /\ Matches(Peer, chunk, Start + Len(head))
      /\ Start + Len(head) + Len(chunk) = got
  <2>1. /\ Matches(Peer, head, Start) /\ Matches(Peer, chunk, Start + Len(head) + Len(body))
        /\ Start + Len(head) + Len(body) + Len(chunk) = got
    BY DEF Aligned
  <2>2. Start + Len(head) + Len(body) = Start + Len(head)
    BY <1>1, <1>3
  <2>. QED  BY <2>1, <2>2
<1>. DEFINE k == HeadTaken
            o == Start + Len(head)
            s == SubSeq(chunk, 1, k)
<1>5. o \in Nat /\ k \in 0 .. Len(chunk)
  BY <1>1, <1>2, <1>3
<1>6. Matches(Peer, s, o) /\ Matches(Peer, SubSeq(chunk, k + 1, Len(chunk)), o + k)
  <2>1. Matches(Peer, chunk, o)
    BY <1>4
  <2>. HIDE DEF o, k
  <2>. QED  BY <1>1, <1>5, <2>1, MatchesParts
<1>7. Matches(Peer, RestAfterHead, Start + Len(HeadAfter))
  <2>1. o + k = Start + Len(HeadAfter)
    BY <1>1, <1>2, <1>3
  <2>. QED  BY <1>6, <2>1 DEF RestAfterHead
<1>8. Matches(Peer, HeadAfter, Start)
  <2>1. s \in Seq(Byte)
    <3>. HIDE DEF k
    <3>. QED  BY <1>1, <1>5, FirstOf
  <2>. HIDE DEF s
  <2>2. Matches(Peer, head \o s, Start)
    BY <1>1, <1>3, <1>4, <1>6, <2>1, MatchesBoth
  <2>. QED  BY <2>2 DEF HeadAfter, s
<1>9. Start + Len(HeadAfter) + Len(RestAfterHead) = got
  BY <1>1, <1>2, <1>3, <1>4
<1>. QED  BY <1>7, <1>8, <1>9

\* A turn that ends within the length.
LEMMA PartOfHead ==
  ASSUME Shape, ParsePartOfHead, UNCHANGED <<msgs, cut, freed, late>>
  PROVE  /\ Shape' /\ delivered' = delivered /\ chunk' = <<>> /\ errors' = errors
         /\ Aligned /\ got' = got => Aligned'
<1>1. /\ state = "NoData" /\ Len(HeadAfter) < HeadLen /\ head' = HeadAfter /\ chunk' = <<>>
      /\ UNCHANGED <<state, body, delivered, errors, msgs, cut, freed, late>>
  BY DEF ParsePartOfHead
<1>2. /\ HeadAfter \in Seq(Byte) /\ Len(HeadAfter) = Len(head) + HeadTaken
      /\ HeadTaken = Len(chunk) /\ RestAfterHead \in Seq(Byte) /\ Len(RestAfterHead) = Len(chunk) - HeadTaken
  BY <1>1, HeadGrows
<1>3. <<>> \in Seq(Byte) /\ Len(<<>>) = 0
  BY EmptySeq
<1>4. Shape'
  BY <1>1, <1>2, <1>3 DEF Shape, MsgTypeOK, Legal, Byte
<1>5. ASSUME Aligned, got' = got PROVE Aligned'
  <2>1. /\ Matches(Peer, HeadAfter, Start) /\ Start + Len(HeadAfter) + Len(RestAfterHead) = got
        /\ Len(delivered) <= Len(msgs)
    BY <1>1, <1>5, HeadStaysAligned DEF Aligned
  <2>2. Start \in Nat /\ Len(chunk) \in Nat /\ Len(head) \in Nat /\ Len(body) = 0
    BY <1>1, <2>1, StartIsNat, ShapeFacts
  <2>3. Start' = Start /\ Peer' = Peer
    BY <1>1 DEF Start, Peer
  <2>4. Start + Len(HeadAfter) + Len(body) + Len(<<>>) = got
    BY <1>2, <1>3, <2>1, <2>2
  <2>5. Matches(Peer, body, Start + Len(HeadAfter)) /\ Matches(Peer, <<>>, Start + Len(HeadAfter) + Len(body))
    <3>1. body = <<>>
      BY <1>1, ShapeFacts
    <3>. QED  BY <3>1, MatchesNone
  <2>6. /\ Len(delivered') <= Len(msgs')
        /\ Start' + Len(head') + Len(body') + Len(chunk') = got'
        /\ Matches(Peer', head', Start')
        /\ Matches(Peer', body', Start' + Len(head'))
        /\ Matches(Peer', chunk', Start' + Len(head') + Len(body'))
    BY <1>1, <1>5, <2>1, <2>3, <2>4, <2>5
  <2>. QED  BY <2>6 DEF Aligned
<1>. QED  BY <1>1, <1>4, <1>5

\* A turn that takes bytes of the body.
BodyTaken(h, c) == Min({Value(h) - Len(body), Len(c)})
BodyAfter(h, c) == body \o SubSeq(c, 1, BodyTaken(h, c))

\* parseMessage() takes what is missing of the body, or all there is.
LEMMA BodyGrows ==
  ASSUME Shape, NEW h \in Seq(Byte), Len(h) = HeadLen, NEW c \in Seq(Byte), Len(body) <= Value(h)
  PROVE  /\ BodyTaken(h, c) \in 0 .. Len(c)
         /\ BodyAfter(h, c) \in Seq(Byte) /\ Len(BodyAfter(h, c)) = Len(body) + BodyTaken(h, c)
         /\ Len(BodyAfter(h, c)) <= Value(h)
         /\ Len(BodyAfter(h, c)) < Value(h) => BodyTaken(h, c) = Len(c)
         /\ SubSeq(c, BodyTaken(h, c) + 1, Len(c)) \in Seq(Byte)
         /\ Len(SubSeq(c, BodyTaken(h, c) + 1, Len(c))) = Len(c) - BodyTaken(h, c)
<1>1. body \in Seq(Byte) /\ Len(body) \in Nat /\ Len(c) \in Nat /\ Value(h) \in Nat
  BY ShapeFacts, ValueIsNat, LenProperties
<1>. DEFINE miss == Value(h) - Len(body)
<1>2. miss \in Nat /\ miss + Len(body) = Value(h)
  BY <1>1
<1>3. BodyTaken(h, c) = IF miss <= Len(c) THEN miss ELSE Len(c)
  <2>. HIDE DEF miss
  <2>1. Min({miss, Len(c)}) = IF miss <= Len(c) THEN miss ELSE Len(c)
    BY <1>1, <1>2, MinOfTwo
  <2>. QED  BY <2>1 DEF BodyTaken, miss
<1>. HIDE DEF miss
<1>. DEFINE k == BodyTaken(h, c)
            s == SubSeq(c, 1, k)
<1>4. k \in 0 .. Len(c) /\ k <= miss /\ (k < miss => k = Len(c))
  BY <1>1, <1>2, <1>3
<1>5. BodyAfter(h, c) = body \o s
  BY DEF BodyAfter
<1>. HIDE DEF k
<1>6. s \in Seq(Byte) /\ Len(s) = k
  BY <1>4, Split
<1>7. SubSeq(c, k + 1, Len(c)) \in Seq(Byte) /\ Len(SubSeq(c, k + 1, Len(c))) = Len(c) - k
  BY <1>4, Split
<1>. HIDE DEF s
<1>8. body \o s \in Seq(Byte) /\ Len(body \o s) = Len(body) + Len(s)
  BY <1>1, <1>6, ConcatProperties
<1>9. BodyAfter(h, c) \in Seq(Byte) /\ Len(BodyAfter(h, c)) = Len(body) + k
  BY <1>5, <1>6, <1>8
<1>10. /\ Len(BodyAfter(h, c)) <= Value(h)
       /\ Len(BodyAfter(h, c)) < Value(h) => k = Len(c)
  BY <1>1, <1>2, <1>4, <1>9
<1>. QED  BY <1>4, <1>7, <1>9, <1>10 DEF k

\* A turn completes the message, or keeps what there is of it.
Delivers(h, c) ==
  /\ Len(BodyAfter(h, c)) = Value(h)
  /\ delivered' = Append(delivered, BodyAfter(h, c))
  /\ state' = "NoData" /\ head' = <<>> /\ body' = <<>>
  /\ chunk' = SubSeq(c, BodyTaken(h, c) + 1, Len(c)) /\ errors' = errors
Keeps(h, c) ==
  /\ Len(BodyAfter(h, c)) # Value(h)
  /\ delivered' = delivered
  /\ state' = "RcvdHead" /\ head' = h /\ body' = BodyAfter(h, c)
  /\ chunk' = SubSeq(c, BodyTaken(h, c) + 1, Len(c)) /\ errors' = errors

\* ParseBody is one of the two.
LEMMA ParseBodyIs ==
  ASSUME NEW h, NEW c, ParseBody(h, c)
  PROVE  Delivers(h, c) \/ Keeps(h, c)
BY DEF ParseBody, Complete, Clear, Delivers, Keeps, BodyAfter, BodyTaken

\* Both keep the types.
LEMMA BodyKeepsShape ==
  ASSUME Shape, NEW h \in Seq(Byte), Len(h) = HeadLen, Value(h) <= MaxLen,
         NEW c \in Seq(Byte), Len(body) <= Value(h), ParseBody(h, c),
         UNCHANGED <<msgs, cut, late>>, freed' \in BOOLEAN
  PROVE  Shape' /\ errors' = errors
<1>1. /\ BodyAfter(h, c) \in Seq(Byte)
      /\ Len(BodyAfter(h, c)) <= Value(h)
      /\ SubSeq(c, BodyTaken(h, c) + 1, Len(c)) \in Seq(Byte)
  BY BodyGrows
<1>2. Value(h) \in Nat /\ Len(BodyAfter(h, c)) \in Nat /\ HeadLen \in Nat \ {0}
  BY <1>1, ValueIsNat, LenProperties, ShapeFacts
<1>3. <<>> \in Seq(Byte) /\ Len(<<>>) = 0
  BY EmptySeq
<1>4. CASE Delivers(h, c)
  <2>1. delivered' \in Seq(Seq(Byte))
    <3>1. delivered \in Seq(Seq(Byte))
      BY DEF Shape
    <3>. QED  BY <1>1, <1>4, <3>1, AppendProperties DEF Delivers
  <2>. QED  BY <1>1, <1>2, <1>3, <1>4, <2>1 DEF Shape, MsgTypeOK, Legal, Byte, Delivers
<1>5. CASE Keeps(h, c)
  <2>1. Len(BodyAfter(h, c)) < Value(h)
    BY <1>1, <1>2, <1>5 DEF Keeps
  <2>. QED  BY <1>1, <1>2, <1>3, <1>5, <2>1 DEF Shape, MsgTypeOK, Legal, Byte, Keeps
<1>. QED  BY <1>4, <1>5, ParseBodyIs

\* The next message, whole.
NextDelivered ==
  /\ Len(delivered) < Len(msgs)
  /\ delivered' = Append(delivered, msgs[Len(delivered) + 1])

\* With the length h and the bytes c behind it where they are in the stream, a turn
\* delivers the next message or none, and the rest stays where it is.
LEMMA BodyStaysAligned ==
  ASSUME Shape, NEW h \in Seq(Byte), Len(h) = HeadLen, Value(h) <= MaxLen,
         NEW c \in Seq(Byte), Len(body) <= Value(h), ParseBody(h, c),
         UNCHANGED <<msgs, got>>, Len(delivered) <= Len(msgs), got <= Len(Peer),
         Start + HeadLen + Len(body) + Len(c) = got,
         Matches(Peer, h, Start), Matches(Peer, body, Start + HeadLen),
         Matches(Peer, c, Start + HeadLen + Len(body))
  PROVE  Aligned' /\ (delivered' # delivered => NextDelivered)
<1>. DEFINE n == Len(delivered)
            a == Start
            b == BodyAfter(h, c)
            k == BodyTaken(h, c)
            s == SubSeq(c, 1, k)
            r == SubSeq(c, k + 1, Len(c))
            o == a + HeadLen + Len(body)
<1>0. /\ k \in 0 .. Len(c) /\ b \in Seq(Byte) /\ Len(b) = Len(body) + k
      /\ Len(b) <= Value(h) /\ (Len(b) < Value(h) => k = Len(c))
      /\ r \in Seq(Byte) /\ Len(r) = Len(c) - k
  BY BodyGrows
<1>1. /\ msgs \in Seq(Sendable) /\ Len(msgs) \in Nat /\ n \in 0 .. Len(msgs) /\ n \in Nat
      /\ Len(c) \in Nat /\ body \in Seq(Byte) /\ Len(body) \in Nat /\ HeadLen \in Nat \ {0}
      /\ Value(h) \in Nat /\ a \in Nat
  BY ShapeFacts, StartIsNat, ValueIsNat, LenProperties
<1>2. a = Len(Before(msgs, n)) /\ o \in Nat
  BY <1>1 DEF Start
<1>3. s \in Seq(Byte) /\ Len(s) = k /\ Matches(Peer, s, o) /\ Matches(Peer, r, o + k)
  <2>. HIDE DEF k, o
  <2>1. s \in Seq(Byte) /\ Len(s) = k
    BY <1>0, FirstOf
  <2>2. Matches(Peer, c, o)
    BY DEF o
  <2>. QED  BY <1>0, <1>2, <2>1, <2>2, MatchesParts
<1>4. Matches(Peer, b, a + HeadLen)
  <2>. DEFINE q == a + HeadLen
  <2>. HIDE DEF s, k, o
  <2>1. q \in Nat /\ o = q + Len(body) /\ Matches(Peer, body, q)
    BY <1>1 DEF o
  <2>. HIDE DEF q
  <2>2. Matches(Peer, body \o s, q)
    BY <1>1, <1>3, <2>1, MatchesBoth
  <2>3. b = body \o s
    BY DEF BodyAfter, s, k
  <2>. QED  BY <2>2, <2>3 DEF q
<1>5. n < Len(msgs) /\ Value(h) = Len(msgs[n + 1])
  <2>1. a + HeadLen <= Len(Peer)
    <3>. HIDE DEF a, n
    <3>1. a + HeadLen + Len(body) + Len(c) <= Len(Peer) /\ Len(Peer) \in Nat
      BY ShapeFacts DEF a
    <3>. QED  BY <1>1, <3>1
  <2>2. Matches(Bytes(msgs), h, a) /\ a + HeadLen <= Len(Bytes(msgs))
    BY <2>1 DEF Peer
  <2>. HIDE DEF a, n
  <2>. QED  BY <1>1, <1>2, <2>2, HeadRead
<1>6. Peer' = Peer /\ got' = got /\ msgs' = msgs
  BY DEF Peer
<1>7. a + HeadLen + Len(b) + Len(r) = got /\ Matches(Peer, r, a + HeadLen + Len(b))
  <2>1. o + k = a + HeadLen + Len(b)
    <3>. HIDE DEF a, b, k
    <3>. QED  BY <1>0, <1>1
  <2>2. Matches(Peer, r, a + HeadLen + Len(b))
    BY <1>3, <2>1
  <2>3. a + HeadLen + Len(body) + Len(c) = got
    OBVIOUS
  <2>. HIDE DEF a, b, k, r, o
  <2>. QED  BY <1>0, <1>1, <2>2, <2>3
<1>8. CASE Delivers(h, c)
  <2>1. b = msgs[n + 1]
    <3>1. Len(b) = Len(msgs[n + 1])
      BY <1>5, <1>8 DEF Delivers
    <3>2. Matches(Bytes(msgs), b, a + HeadLen)
      BY <1>4 DEF Peer
    <3>. HIDE DEF a, b, n
    <3>. QED  BY <1>0, <1>1, <1>2, <1>5, <3>1, <3>2, BodyRead
  <2>2. NextDelivered
    BY <1>5, <1>8, <2>1 DEF NextDelivered, Delivers
  <2>3. Len(delivered') = n + 1
    <3>1. delivered \in Seq(Seq(Byte)) /\ delivered' = Append(delivered, b)
      BY <1>8, ShapeFacts DEF Delivers
    <3>. HIDE DEF b
    <3>. QED  BY <1>0, <3>1, AppendProperties
  <2>4. Start' = a + HeadLen + Len(b)
    <3>1. Start' = Len(Before(msgs, n + 1))
      BY <1>6, <2>3 DEF Start
    <3>2. HasMessage(msgs, n, Len(Before(msgs, n)), msgs[n + 1])
      <4>. HIDE DEF n
      <4>. QED  BY <1>1, <1>5, Placed
    <3>3. Len(Before(msgs, n + 1)) = Len(Before(msgs, n)) + HeadLen + Len(msgs[n + 1])
      BY <3>2 DEF HasMessage
    <3>. QED  BY <1>2, <2>1, <3>1, <3>3
  <2>5. head' = <<>> /\ body' = <<>> /\ chunk' = r /\ Len(<<>>) = 0
    BY <1>8, EmptySeq DEF Delivers
  <2>6. Start' \in Nat /\ Len(r) \in Nat
    <3>. HIDE DEF b, k, r, a
    <3>1. Len(b) \in Nat
      BY <1>0, <1>1
    <3>. QED  BY <1>0, <1>1, <2>4, <3>1
  <2>. DEFINE u == Start'
  <2>7. /\ u + Len(<<>>) + Len(<<>>) + Len(r) = got
        /\ u + Len(<<>>) + Len(<<>>) = u
    <3>1. u + Len(r) = got
      BY <1>7, <2>4
    <3>. HIDE DEF u, r
    <3>2. u \in Nat /\ Len(r) \in Nat
      BY <2>6 DEF u
    <3>. QED  BY <2>5, <3>1, <3>2
  <2>8. Matches(Peer, <<>>, Start') /\ Matches(Peer, <<>>, Start' + Len(<<>>)) /\ Matches(Peer, r, u)
    BY <1>7, <2>4, MatchesNone
  <2>9. /\ Len(delivered') <= Len(msgs')
        /\ Start' + Len(head') + Len(body') + Len(chunk') = got'
        /\ Matches(Peer', head', Start')
        /\ Matches(Peer', body', Start' + Len(head'))
        /\ Matches(Peer', chunk', Start' + Len(head') + Len(body'))
    <3>1. Len(delivered') <= Len(msgs')
      BY <1>1, <1>5, <1>6, <2>3
    <3>. HIDE DEF r
    <3>. QED  BY <1>6, <2>5, <2>7, <2>8, <3>1
  <2>. QED  BY <2>2, <2>9 DEF Aligned
<1>9. CASE Keeps(h, c)
  <2>1. head' = h /\ body' = b /\ chunk' = r /\ delivered' = delivered /\ Start' = a
    BY <1>6, <1>9 DEF Keeps, Start
  <2>2. /\ Len(delivered') <= Len(msgs')
        /\ Start' + Len(head') + Len(body') + Len(chunk') = got'
        /\ Matches(Peer', head', Start')
        /\ Matches(Peer', body', Start' + Len(head'))
        /\ Matches(Peer', chunk', Start' + Len(head') + Len(body'))
    <3>. HIDE DEF r, b
    <3>. QED  BY <1>4, <1>6, <1>7, <2>1
  <2>. QED  BY <2>1, <2>2 DEF Aligned
<1>. QED  BY <1>8, <1>9, ParseBodyIs

\* What a legal length is.
LEMMA TooLongIs == MaxLen \in Nat /\ \A n \in Nat : ~TooLong(n) <=> n <= MaxLen
<1>1. MaxLen \in Nat
  <2>1. SizeMod \in Nat
    BY WeightIs, MessageReceiverAssumption DEF SizeMod
  <2>. QED  BY <2>1, MessageReceiverAssumption
<1>. QED  BY <1>1 DEF TooLong

\* A turn that reads a legal length, or goes on with the body.
LEMMA TurnIsFine ==
  ASSUME Shape, ParseHead \/ ParseRest, UNCHANGED <<msgs, cut, late>>, freed' \in BOOLEAN
  PROVE  /\ Shape' /\ errors' = errors
         /\ Aligned /\ got' = got /\ got <= Len(Peer) =>
              Aligned' /\ (delivered' # delivered => NextDelivered)
<1>1. CASE ParseHead
  <2>. DEFINE h == HeadAfter
              c == RestAfterHead
  <2>1. state = "NoData" /\ Len(h) = HeadLen /\ ~TooLong(Value(h)) /\ ParseBody(h, c)
    BY <1>1 DEF ParseHead
  <2>2. h \in Seq(Byte) /\ c \in Seq(Byte)
    BY <2>1, HeadGrows
  <2>3. body = <<>> /\ Len(body) = 0
    BY <2>1, ShapeFacts
  <2>4. ASSUME Aligned
        PROVE  /\ Matches(Peer, h, Start) /\ Matches(Peer, body, Start + HeadLen)
               /\ Matches(Peer, c, Start + HeadLen + Len(body))
               /\ Start + HeadLen + Len(body) + Len(c) = got
               /\ Len(delivered) <= Len(msgs)
    <3>1. /\ Matches(Peer, h, Start) /\ Matches(Peer, c, Start + HeadLen)
          /\ Start + HeadLen + Len(c) = got
      BY <2>1, <2>4, HeadStaysAligned
    <3>2. Start \in Nat /\ HeadLen \in Nat /\ Len(delivered) <= Len(msgs)
      BY <2>4, StartIsNat, ShapeFacts DEF Aligned
    <3>3. Start + HeadLen + Len(body) = Start + HeadLen
      BY <2>3, <3>2
    <3>4. Matches(Peer, body, Start + HeadLen)
      BY <2>3, MatchesNone
    <3>. QED  BY <3>1, <3>2, <3>3, <3>4
  <2>. HIDE DEF h, c
  <2>5. Value(h) \in Nat /\ Value(h) <= MaxLen /\ Len(body) <= Value(h)
    <3>1. Value(h) \in Nat
      BY <2>1, <2>2, ValueIsNat
    <3>. QED  BY <2>1, <2>3, <3>1, TooLongIs
  <2>6. Shape' /\ errors' = errors
    BY <2>1, <2>2, <2>5, BodyKeepsShape
  <2>7. ASSUME Aligned, got' = got, got <= Len(Peer)
        PROVE  Aligned' /\ (delivered' # delivered => NextDelivered)
    BY <2>1, <2>2, <2>4, <2>5, <2>7, BodyStaysAligned
  <2>. QED  BY <2>6, <2>7
<1>2. CASE ParseRest
  <2>1. state = "RcvdHead" /\ ParseBody(head, chunk)
    BY <1>2 DEF ParseRest
  <2>2. /\ head \in Seq(Byte) /\ chunk \in Seq(Byte) /\ Len(head) = HeadLen
        /\ Value(head) <= MaxLen /\ Len(body) < Value(head) /\ Len(body) \in Nat
    BY <2>1, ShapeFacts
  <2>3. Value(head) \in Nat /\ Len(body) <= Value(head)
    <3>1. Value(head) \in Nat
      BY <2>2, ValueIsNat
    <3>. QED  BY <2>2, <3>1
  <2>4. Shape' /\ errors' = errors
    BY <2>1, <2>2, <2>3, BodyKeepsShape
  <2>5. ASSUME Aligned, got' = got, got <= Len(Peer)
        PROVE  Aligned' /\ (delivered' # delivered => NextDelivered)
    <3>1. /\ Matches(Peer, head, Start) /\ Matches(Peer, body, Start + HeadLen)
          /\ Matches(Peer, chunk, Start + HeadLen + Len(body))
          /\ Start + HeadLen + Len(body) + Len(chunk) = got
          /\ Len(delivered) <= Len(msgs)
      BY <2>2, <2>5 DEF Aligned
    <3>. QED  BY <2>1, <2>2, <2>3, <2>5, <3>1, BodyStaysAligned
  <2>. QED  BY <2>4, <2>5
<1>. QED  BY <1>1, <1>2

\* A turn that reads an illegal length: it is that of the next message.
LEMMA BadHeadIsReported ==
  ASSUME Shape, errors = 0, ParseBadHead, UNCHANGED <<msgs, cut, freed, late>>
  PROVE  /\ Shape' /\ delivered' = delivered /\ chunk' = <<>> /\ errors' = 1
         /\ Aligned /\ got <= Len(Peer) => AllGiven'
<1>. DEFINE h == HeadAfter
            n == Len(delivered)
<1>1. /\ state = "NoData" /\ Len(h) = HeadLen /\ TooLong(Value(h))
      /\ errors' = errors + 1 /\ state' = "NoData" /\ head' = <<>> /\ body' = <<>> /\ chunk' = <<>>
      /\ delivered' = delivered
  BY DEF ParseBadHead, Clear
<1>2. <<>> \in Seq(Byte) /\ Len(<<>>) = 0 /\ HeadLen \in Nat \ {0}
  BY EmptySeq, ShapeFacts
<1>3. Shape'
  BY <1>1, <1>2 DEF Shape, MsgTypeOK, Legal, Byte
<1>4. ASSUME Aligned, got <= Len(Peer) PROVE AllGiven'
  <2>1. /\ Matches(Peer, h, Start) /\ Start + HeadLen + Len(RestAfterHead) = got
        /\ n <= Len(msgs)
    BY <1>1, <1>4, HeadStaysAligned DEF Aligned
  <2>2. h \in Seq(Byte) /\ Len(RestAfterHead) \in Nat
    BY <1>1, HeadGrows, LenProperties
  <2>3. /\ msgs \in Seq(Sendable) /\ Len(msgs) \in Nat /\ n \in 0 .. Len(msgs)
        /\ Start \in Nat /\ Len(Peer) \in Nat
    BY <2>1, ShapeFacts, StartIsNat
  <2>4. Start + HeadLen <= Len(Bytes(msgs)) /\ Matches(Bytes(msgs), h, Start)
    <3>1. Start + HeadLen <= Len(Peer)
      <4>. HIDE DEF n, h
      <4>. QED  BY <1>2, <1>4, <2>1, <2>2, <2>3
    <3>. QED  BY <2>1, <3>1 DEF Peer
  <2>5. Value(h) = Len(msgs[n + 1])
    <3>1. Start = Len(Before(msgs, n))
      BY DEF Start
    <3>. HIDE DEF h, n
    <3>. QED  BY <1>1, <2>2, <2>3, <2>4, <3>1, HeadRead
  <2>6. TooLong(Len(msgs[n + 1]))
    BY <1>1, <2>5
  <2>7. errors' = 1 /\ TooLong(Len(msgs[Len(delivered) + 1]))'
    BY <1>1, <2>6
  <2>. QED  BY <2>7 DEF AllGiven
<1>. QED  BY <1>1, <1>3, <1>4

-----------------------------------------------------------------------------
(* Every step.                                                             *)

\* What is given has been read, and what is read has arrived.
LEMMA Counts ==
  ConnInv => got \in Nat /\ arrived \in Nat /\ got <= arrived /\ keeper \in BOOLEAN
<1>. SUFFICES ASSUME ConnInv
              PROVE  got \in Nat /\ arrived \in Nat /\ got <= arrived /\ keeper \in BOOLEAN
  OBVIOUS
<1>. QED  BY ConnectionAssumption DEF ConnInv, TypeOK

\* What is read was sent.
LEMMA ReadAreSent ==
  ConnInv /\ FrameInv /\ ~keeper => got <= Len(Peer)
<1>. SUFFICES ASSUME ConnInv, FrameInv, ~keeper PROVE got <= Len(Peer)
  OBVIOUS
<1>1. got \in Nat /\ arrived \in Nat /\ got <= arrived
  BY Counts
<1>2. arrived <= Len(Peer) /\ Len(Peer) \in Nat
  BY ShapeFacts DEF FrameInv, Phases
<1>. QED  BY <1>1, <1>2

\* With everything aligned and nothing to parse, all that is complete is given.
LEMMA NothingLeft ==
  Shape /\ Aligned /\ ~Parsing /\ got <= Len(Peer) => AllGiven
BY RestGiven DEF Parsing

\* A cleared receiver is in a legal state.
LEMMA ClearIsLegal ==
  ASSUME Clear PROVE Legal(state', head', body')
<1>1. <<>> \in Seq(Byte) /\ Len(<<>>) = 0 /\ HeadLen \in Nat \ {0}
  BY EmptySeq, MessageReceiverAssumption
<1>. QED  BY <1>1 DEF Clear, Legal, Byte

\* What touches neither the stream nor, unless it ends the connection, the receiver.
LEMMA QuietKeeps ==
  ASSUME FrameInv, ~Parsing,
         UNCHANGED <<chunk, delivered, errors, hostVars, got, keeper>>,
         \/ UNCHANGED parsed /\ life' = life
         \/ Clear /\ life' = "over",
         keeper \/ arrived' <= Len(Peer)
  PROVE  FrameInv'
<1>1. /\ chunk' = chunk /\ delivered' = delivered /\ errors' = errors /\ msgs' = msgs
      /\ cut' = cut /\ freed' = freed /\ late' = late /\ got' = got /\ keeper' = keeper
      /\ Peer' = Peer
      /\ Parsing' = Parsing
  BY DEF hostVars, Peer, Parsing
<1>2. Legal(state', head', body')
  <2>1. CASE UNCHANGED parsed
    <3>1. state' = state /\ head' = head /\ body' = body
      BY <2>1 DEF parsed
    <3>2. Legal(state, head, body)
      BY DEF FrameInv, Shape, MsgTypeOK
    <3>. QED  BY <3>1, <3>2
  <2>. QED  BY <2>1, ClearIsLegal
<1>3. Shape'
  BY <1>1, <1>2 DEF FrameInv, Shape, MsgTypeOK
<1>4. Phases'
  BY <1>1 DEF FrameInv, Phases
<1>5. Intact' => Intact
  BY <1>1 DEF Intact
<1>6. ASSUME Intact' PROVE AllGiven'
  <2>1. AllGiven
    BY <1>5, <1>6 DEF FrameInv
  <2>. QED  BY <1>1, <2>1 DEF AllGiven
<1>7. ASSUME Intact', life' = "open" PROVE Aligned'
  <2>1. life = "open" /\ head' = head /\ body' = body
    BY <1>7 DEF parsed
  <2>2. Aligned /\ Start' = Start
    BY <1>1, <1>5, <1>7, <2>1 DEF FrameInv, Start
  <2>. QED  BY <1>1, <2>1, <2>2 DEF Aligned
<1>. QED  BY <1>1, <1>3, <1>4, <1>6, <1>7 DEF FrameInv

\* FastConnection::connect and acceptConnection clear the receiver, so what an earlier
\* connection left in it is not taken for a part of the stream; what it left to parse
\* may be, and is then late.
LEMMA OpensKeeps ==
  ASSUME FrameInv, Opens
  PROVE  FrameInv' /\ delivered' = delivered
<1>1. /\ life = "new" /\ life' = "open" /\ UNCHANGED <<incoming, keeper>>
      /\ Clear /\ UNCHANGED <<chunk, delivered, errors, msgs, cut>>
      /\ late' = Parsing /\ freed' = Parsing
  BY DEF Opens, OpenConnected, OpenConnecting
<1>2. /\ chunk' = chunk /\ delivered' = delivered /\ errors' = errors /\ msgs' = msgs
      /\ cut' = cut /\ got' = got /\ arrived' = arrived /\ keeper' = keeper
      /\ Peer' = Peer /\ Parsing' = Parsing
      /\ late' \in BOOLEAN /\ freed' \in BOOLEAN
  BY <1>1 DEF incoming, Peer, Parsing
<1>3. got = 0 /\ delivered = <<>> /\ errors = 0
  BY <1>1 DEF FrameInv, Phases
<1>4. Shape'
  <2>1. Legal(state', head', body')
    BY <1>1, ClearIsLegal
  <2>. QED  BY <1>2, <2>1 DEF FrameInv, Shape, MsgTypeOK
<1>5. Phases'
  BY <1>1, <1>2, <1>3 DEF FrameInv, Phases
<1>6. ASSUME Intact' PROVE AllGiven'
  <2>1. Intact /\ ~Parsing
    <3>1. ~Parsing /\ ~keeper /\ ~cut
      BY <1>1, <1>2, <1>6 DEF Intact
    <3>2. ~late /\ ~freed
      BY <1>1 DEF FrameInv, Phases
    <3>. QED  BY <3>1, <3>2 DEF Intact
  <2>2. AllGiven
    BY <2>1 DEF FrameInv
  <2>. QED  BY <1>2, <2>2 DEF AllGiven
<1>7. ASSUME Intact' PROVE Aligned'
  <2>1. Start' = 0
    <3>1. msgs \in Seq(Sendable) /\ Len(<<>>) = 0
      BY ShapeFacts, EmptySeq DEF FrameInv
    <3>2. Len(Before(msgs, 0)) = 0
      BY <3>1, OneMore
    <3>. QED  BY <1>2, <1>3, <3>1, <3>2 DEF Start
  <2>2. head' = <<>> /\ body' = <<>> /\ chunk' = <<>> /\ got' = 0 /\ delivered' = <<>> /\ Len(<<>>) = 0
    <3>1. chunk = <<>>
      BY <1>1, <1>7 DEF Intact, Parsing
    <3>. QED  BY <1>1, <1>2, <1>3, <3>1, EmptySeq DEF Clear
  <2>3. Len(msgs) \in Nat
    BY ShapeFacts DEF FrameInv
  <2>4. /\ Len(delivered') <= Len(msgs')
        /\ Start' + Len(head') + Len(body') + Len(chunk') = got'
    BY <1>2, <2>1, <2>2, <2>3
  <2>5. /\ Matches(Peer', head', Start')
        /\ Matches(Peer', body', Start' + Len(head'))
        /\ Matches(Peer', chunk', Start' + Len(head') + Len(body'))
    BY <2>2, MatchesNone
  <2>. QED  BY <2>4, <2>5 DEF Aligned
<1>. QED  BY <1>2, <1>4, <1>5, <1>6, <1>7 DEF FrameInv

\* The bytes between what was read and what is.
LEMMA ReadsKeeps ==
  ASSUME ConnInv, ConnInv', FrameInv, Reads
  PROVE  FrameInv' /\ (~late => delivered' = delivered)
<1>. DEFINE bytes == SubSeq(Peer, got + 1, got')
<1>1. /\ chunk = <<>> /\ life = "open" /\ UNCHANGED <<arrived, keeper, msgs>>
      /\ life' \in {"open", "over"}
      /\ got' = got + NowRead \/ got' = got
      /\ freed' = FALSE /\ late' = (late /\ ~Starts)
      /\ delivered' = IF late /\ Starts THEN <<>> ELSE delivered
  BY DEF Reads, Input, Parsing, members, Tell
<1>2. /\ got \in Nat /\ got' \in Nat /\ got <= got' /\ got' <= arrived /\ arrived \in Nat
  <2>1. got' \in Nat /\ got' <= arrived'
    <3>1. ConnInv' => (got \in Nat /\ arrived \in Nat /\ got <= arrived /\ keeper \in BOOLEAN)'
      BY Counts, PTL
    <3>. QED  BY <3>1
  <2>2. got \in Nat /\ arrived \in Nat /\ got <= arrived
    BY Counts
  <2>3. NowRead \in Nat
    <3>1. Limit \in Nat /\ arrived - got \in Nat
      BY <2>2, ConnectionAssumption
    <3>. QED  BY <3>1 DEF NowRead, Avail
  <2>. QED  BY <1>1, <2>1, <2>2, <2>3
<1>5. /\ late' \in BOOLEAN /\ freed' \in BOOLEAN /\ delivered' \in Seq(Seq(Byte))
      /\ ~late => delivered' = delivered
  <2>1. <<>> \in Seq(Seq(Byte)) /\ delivered \in Seq(Seq(Byte)) /\ late \in BOOLEAN
    BY EmptySeq DEF FrameInv, Shape
  <2>. QED  BY <1>1, <2>1
<1>3. CASE keeper
  <2>1. UNCHANGED <<chunk, parsed, errors, cut>>
    BY <1>3 DEF Reads
  <2>2. Shape'
    BY <1>1, <1>5, <2>1 DEF FrameInv, Shape, MsgTypeOK, parsed
  <2>3. Phases' /\ ~Intact'
    BY <1>1, <1>3, <2>1 DEF FrameInv, Phases, Intact
  <2>. QED  BY <1>5, <2>1, <2>2, <2>3 DEF FrameInv
<1>4. CASE ~keeper
  <2>1. /\ chunk' = SubSeq(bytes, 1, SizeOf(Len(bytes)))
        /\ UNCHANGED <<parsed, errors>>
        /\ cut' = (cut \/ SizeOf(Len(bytes)) # Len(bytes))
    BY <1>4 DEF Reads, Feed
  <2>2. Peer \in Seq(Byte) /\ got' <= Len(Peer) /\ Len(Peer) \in Nat /\ Peer' = Peer
    <3>1. arrived <= Len(Peer) /\ Len(Peer) \in Nat /\ Peer \in Seq(Byte)
      BY <1>4, ShapeFacts DEF FrameInv, Phases
    <3>. QED  BY <1>1, <1>2, <3>1 DEF Peer
  <2>3. /\ bytes \in Seq(Byte) /\ Len(bytes) = got' - got /\ Matches(Peer, bytes, got)
        /\ Len(bytes) \in Nat
    <3>1. bytes \in Seq(Byte) /\ Len(bytes) = got' - got /\ Matches(Peer, bytes, got)
      BY <1>2, <2>2, Slice
    <3>. QED  BY <3>1, LenProperties
  <2>. HIDE DEF bytes
  <2>4. SizeOf(Len(bytes)) \in 0 .. Len(bytes)
    <3>1. SizeMod \in Nat \ {0}
      BY WeightIs, MessageReceiverAssumption DEF SizeMod
    <3>. DEFINE l == Len(bytes)
                q == SizeMod
    <3>2. l \in Nat /\ q \in Nat \ {0}
      BY <2>3, <3>1
    <3>. HIDE DEF l, q
    <3>3. l % q \in 0 .. q - 1 /\ l \div q \in Nat /\ l = q * (l \div q) + (l % q)
      BY <3>2, DivMod
    <3>4. q * (l \div q) \in Nat
      BY <3>2, <3>3
    <3>5. l % q \in 0 .. l
      BY <3>2, <3>3, <3>4
    <3>. QED  BY <3>5 DEF SizeOf, l, q
  <2>5. chunk' \in Seq(Byte)
    BY <2>1, <2>3, <2>4, FirstOf
  <2>6. Shape'
    BY <1>1, <1>5, <2>1, <2>5 DEF FrameInv, Shape, MsgTypeOK, parsed, Byte
  <2>7. Phases'
    BY <1>1, <1>4, <2>1, <2>2 DEF FrameInv, Phases
  <2>8. ASSUME Intact' PROVE Aligned'
    <3>1. ~cut' /\ ~cut /\ ~keeper /\ (~late \/ Starts)
      BY <1>1, <1>4, <2>1, <2>8 DEF Intact
    <3>2. chunk' = bytes
      <4>1. SizeOf(Len(bytes)) = Len(bytes)
        BY <2>1, <3>1
      <4>. QED  BY <2>1, <2>3, <4>1, SubSeqFull
    <3>3. head' = head /\ body' = body /\ msgs' = msgs
      BY <1>1, <2>1 DEF parsed
    <3>4. /\ Len(delivered') <= Len(msgs)
          /\ Start' \in Nat /\ Len(head) \in Nat /\ Len(body) \in Nat
          /\ Start' + Len(head) + Len(body) = got
          /\ Matches(Peer, head, Start') /\ Matches(Peer, body, Start' + Len(head))
      <4>1. CASE ~late
        <5>1. Aligned /\ delivered' = delivered /\ Start' = Start
          <6>1. Intact
            BY <1>1, <3>1, <4>1 DEF Intact, FrameInv, Phases
          <6>. QED  BY <1>1, <1>5, <4>1, <6>1 DEF FrameInv, Start
        <5>2. Start + Len(head) + Len(body) + Len(chunk) = got /\ Len(chunk) = 0
          BY <1>1, <5>1, EmptySeq DEF Aligned
        <5>3. Start \in Nat /\ Len(head) \in Nat /\ Len(body) \in Nat
          BY <5>1, StartIsNat, ShapeFacts DEF Aligned, FrameInv
        <5>4. Start + Len(head) + Len(body) = got
          BY <1>2, <5>2, <5>3
        <5>. QED  BY <5>1, <5>3, <5>4 DEF Aligned
      <4>2. CASE late /\ Starts
        <5>1. delivered' = <<>> /\ head = <<>> /\ body = <<>> /\ got = 0 /\ Len(<<>>) = 0
          BY <1>1, <4>2, EmptySeq DEF Starts, Parsed, NoMsg
        <5>2. Start' = 0
          <6>1. msgs \in Seq(Sendable)
            BY ShapeFacts DEF FrameInv
          <6>2. Len(Before(msgs, 0)) = 0
            BY <6>1, OneMore
          <6>. QED  BY <3>3, <5>1, <6>2 DEF Start
        <5>3. Len(msgs) \in Nat
          BY ShapeFacts DEF FrameInv
        <5>. QED  BY <5>1, <5>2, <5>3, MatchesNone
      <4>. QED  BY <3>1, <4>1, <4>2
    <3>6. Start' + Len(head) + Len(body) + Len(bytes) = got'
      BY <1>2, <2>3, <3>4
    <3>7. Matches(Peer, bytes, Start' + Len(head) + Len(body))
      BY <2>3, <3>4
    <3>. QED  BY <2>2, <3>2, <3>3, <3>4, <3>6, <3>7 DEF Aligned
  <2>9. (Shape /\ Aligned /\ ~Parsing /\ got <= Len(Peer) => AllGiven)'
    BY NothingLeft, PTL
  <2>. QED  BY <1>5, <2>1, <2>2, <2>6, <2>7, <2>8, <2>9 DEF FrameInv
<1>. QED  BY <1>3, <1>4

\* What a message, or an error, makes the host do reads nothing.
LEMMA HandlingReadsNothing ==
  ASSUME Handles, freed \in BOOLEAN, life \in {"open", "over"}
  PROVE  /\ UNCHANGED <<got, arrived, keeper>>
         /\ life' = life \/ life' = "over"
         /\ freed' = freed \/ (freed' = TRUE /\ life' = "over")
<1>1. CASE UNCHANGED vars /\ UNCHANGED freed
  BY <1>1 DEF vars, members, incoming
<1>2. CASE Answers /\ freed' = (freed \/ life' = "over")
  <2>1. /\ UNCHANGED <<got, arrived, keeper>>
        /\ life' = life \/ life' = "over"
    BY <1>2 DEF Answers, Send, SendCaches, SendTells, SendWhole, Tell, incoming
  <2>2. freed' = freed \/ (freed' = TRUE /\ life' = "over")
    BY <1>2
  <2>. QED  BY <2>1, <2>2
<1>3. CASE Deletes /\ freed' = TRUE
  BY <1>3 DEF Deletes, Shutdown, vars, members, incoming
<1>. QED  BY <1>1, <1>2, <1>3 DEF Handles

\* The host that shuts the connection down for a message reads nothing either.
LEMMA DeletingReadsNothing ==
  ASSUME Deletes
  PROVE  /\ UNCHANGED <<got, arrived, keeper>>
         /\ IF life = "open" THEN life' = "over" ELSE life' = life
BY DEF Deletes, Shutdown, vars, members, incoming

\* A turn of the loop of input().
LEMMA ParsesKeeps ==
  ASSUME ConnInv, FrameInv, Parses
  PROVE  /\ FrameInv'
         /\ delivered' # delivered /\ ~cut /\ ~freed /\ ~late => NextDelivered
<1>1. /\ chunk # <<>> /\ ~keeper /\ life # "new" /\ errors # 1 /\ Parsing /\ errors = 0
      /\ msgs' = msgs /\ cut' = cut /\ late' = late /\ Peer' = Peer /\ Shape
  <2>1. chunk # <<>> /\ life # "new"
    BY DEF Parses, ParsePartOfHead, ParseBadHead, ParseHead, ParseRest
  <2>2. ~keeper /\ life # "new" /\ errors # 1
    BY <2>1 DEF FrameInv, Phases
  <2>3. errors = 0
    BY <2>2, ShapeFacts DEF FrameInv
  <2>. QED  BY <2>1, <2>2, <2>3 DEF Parses, Parsing, Peer, FrameInv
<1>2. got <= Len(Peer) /\ arrived <= Len(Peer) /\ (Intact => Aligned)
  BY <1>1, ReadAreSent DEF FrameInv, Phases
<1>3. (Shape /\ Aligned /\ ~Parsing /\ got <= Len(Peer) => AllGiven)'
  BY NothingLeft, PTL
<1>4. ASSUME UNCHANGED <<got, arrived, keeper>>, life' = life \/ life' = "over",
             Shape', errors' = errors, Aligned => Aligned',
             freed' = freed \/ (freed' = TRUE /\ life' = "over")
      PROVE  FrameInv'
  <2>1. Phases'
    <3>1. freed' => life' = "over" \/ late'
      <4>1. late' = late /\ (freed => life = "over" \/ late)
        BY <1>1 DEF FrameInv, Phases
      <4>. QED  BY <1>4, <4>1
    <3>2. /\ life' # "new" /\ errors' # 1 /\ ~keeper'
          /\ (~keeper' => arrived' <= Len(Peer'))
      BY <1>1, <1>2, <1>4
    <3>. QED  BY <3>1, <3>2 DEF Phases
  <2>2. Intact' => Aligned'
    BY <1>1, <1>2, <1>4 DEF Intact
  <2>. QED  BY <1>1, <1>2, <1>3, <1>4, <2>1, <2>2 DEF FrameInv
<1>5. CASE ParsePartOfHead /\ UNCHANGED <<vars, freed>>
  <2>1. UNCHANGED <<got, arrived, keeper, life, freed>>
    BY <1>5 DEF vars, members, incoming
  <2>2. /\ Shape' /\ delivered' = delivered /\ errors' = errors
        /\ Aligned => Aligned'
    BY <1>1, <1>5, <2>1, PartOfHead
  <2>. QED  BY <1>4, <2>1, <2>2
<1>6. CASE ParseBadHead /\ Deletes /\ UNCHANGED freed
  <2>1. /\ UNCHANGED <<got, arrived, keeper>>
        /\ IF life = "open" THEN life' = "over" ELSE life' = life
    BY <1>6, DeletingReadsNothing
  <2>2. life' = "over"
    <3>1. life \in {"new", "open", "over"}
      BY DEF ConnInv, TypeOK
    <3>. QED  BY <1>1, <2>1, <3>1
  <2>3. /\ Shape' /\ delivered' = delivered /\ chunk' = <<>> /\ errors' = 1
        /\ Aligned => AllGiven'
    BY <1>1, <1>2, <1>6, BadHeadIsReported
  <2>4. Phases'
    BY <1>1, <1>2, <2>1, <2>2, <2>3 DEF Phases
  <2>5. Intact' => Intact
    BY <1>1, <1>6, <2>1 DEF Intact
  <2>. QED  BY <1>2, <2>2, <2>3, <2>4, <2>5 DEF FrameInv, Parsing
<1>7. CASE /\ ParseHead \/ ParseRest
           /\ IF delivered' = delivered THEN UNCHANGED <<vars, freed>> ELSE Handles
  <2>1. /\ UNCHANGED <<got, arrived, keeper>>
        /\ life' = life \/ life' = "over"
        /\ freed' = freed \/ (freed' = TRUE /\ life' = "over")
    <3>1. CASE UNCHANGED <<vars, freed>>
      BY <3>1 DEF vars, members, incoming
    <3>2. CASE Handles
      <4>1. life \in {"open", "over"}
        BY <1>1 DEF ConnInv, TypeOK
      <4>. QED  BY <1>1, <3>2, <4>1, HandlingReadsNothing DEF Shape
    <3>. QED  BY <1>7, <3>1, <3>2
  <2>2. freed' \in BOOLEAN
    BY <1>1, <2>1 DEF Shape
  <2>3. /\ Shape' /\ errors' = errors
        /\ Aligned => Aligned' /\ (delivered' # delivered => NextDelivered)
    BY <1>1, <1>2, <1>7, <2>1, <2>2, TurnIsFine
  <2>4. FrameInv'
    BY <1>4, <2>1, <2>3
  <2>5. ~cut /\ ~freed /\ ~late => Aligned
    BY <1>1, <1>2 DEF Intact
  <2>. QED  BY <2>3, <2>4, <2>5
<1>. QED  BY <1>5, <1>6, <1>7 DEF Parses

\* Memory that is used again is only read once the connection is deleted.
LEMMA ReuseKeeps ==
  ASSUME FrameInv, BufferReused
  PROVE  FrameInv' /\ delivered' = delivered
<1>1. /\ freed /\ chunk # <<>> /\ chunk' \in [1 .. Len(chunk) -> 0 .. Base - 1]
      /\ UNCHANGED <<vars, parsed, delivered, errors, hostVars>>
  BY DEF BufferReused, Parsing
<1>2. chunk' \in Seq(0 .. Base - 1)
  <2>1. Len(chunk) \in Nat
    BY ShapeFacts DEF FrameInv
  <2>. QED  BY <1>1, <2>1, SeqDef
<1>3. Shape'
  BY <1>1, <1>2 DEF FrameInv, Shape, MsgTypeOK, parsed, hostVars
<1>4. Phases'
  BY <1>1 DEF FrameInv, Phases, hostVars, vars, members, incoming, Peer
<1>. QED  BY <1>1, <1>3, <1>4 DEF FrameInv, Intact, hostVars

\* Sends, flushes, connects and shutdowns read nothing.
LEMMA OthersKeep ==
  ASSUME FrameInv, SendsMore \/ ShutsDown \/ ConnectEnds \/ Flushes
  PROVE  FrameInv' /\ delivered' = delivered
<1>1. /\ UNCHANGED <<incoming, keeper>> /\ life = "open" /\ life' \in {"open", "over"}
      /\ Otherwise
  <2>1. CASE SendsMore
    BY <2>1 DEF SendsMore, Send, SendCaches, SendTells, SendWhole, Tell
  <2>2. CASE ShutsDown
    BY <2>2 DEF ShutsDown, Shutdown
  <2>3. CASE ConnectEnds
    BY <2>3 DEF ConnectEnds, Connected, ConnectFails, Tell
  <2>4. CASE Flushes
    BY <2>4 DEF Flushes, Flush, Tell
  <2>. QED  BY <2>1, <2>2, <2>3, <2>4
<1>2. /\ ~Parsing
      /\ UNCHANGED <<chunk, delivered, errors, hostVars, got, keeper>>
      /\ \/ UNCHANGED parsed /\ life' = life
         \/ Clear /\ life' = "over"
  BY <1>1 DEF Otherwise, incoming
<1>3. keeper \/ arrived' <= Len(Peer)
  BY <1>1 DEF FrameInv, Phases, incoming
<1>4. FrameInv'
  BY <1>2, <1>3, QuietKeeps
<1>. QED  BY <1>2, <1>4

\* The peer's steps, and none, leave the receiver alone.
LEMMA UntouchedKeeps ==
  ASSUME FrameInv, UNCHANGED <<msgVars, hostVars, life, got, keeper>>,
         keeper \/ arrived' <= Len(Peer)
  PROVE  FrameInv' /\ delivered' = delivered
<1>1. /\ chunk' = chunk /\ delivered' = delivered /\ errors' = errors /\ msgs' = msgs
      /\ cut' = cut /\ freed' = freed /\ late' = late /\ got' = got /\ keeper' = keeper
      /\ life' = life
      /\ state' = state /\ head' = head /\ body' = body /\ Peer' = Peer /\ Start' = Start
      /\ Parsing' = Parsing
  BY DEF hostVars, msgVars, parsed, Peer, Start, Parsing
<1>2. Shape' /\ Phases'
  BY <1>1 DEF FrameInv, Shape, MsgTypeOK, Phases
<1>3. Aligned => Aligned'
  BY <1>1 DEF Aligned
<1>4. AllGiven => AllGiven'
  BY <1>1 DEF AllGiven
<1>. QED  BY <1>1, <1>2, <1>3, <1>4 DEF FrameInv, Intact

\* Every step keeps the invariant and delivers the next message or none.
LEMMA FrameStep ==
  ASSUME ConnInv, FrameInv, [ControlNext]_allVars
  PROVE  /\ ConnInv' /\ FrameInv'
         /\ delivered' # delivered /\ ~cut /\ ~freed /\ ~late => NextDelivered
<1>1. ConnInv'
  BY ControlStepIsAStep, ConnStep
<1>2. CASE Opens
  BY <1>1, <1>2, OpensKeeps
<1>3. CASE SendsMore \/ ShutsDown \/ ConnectEnds \/ Flushes
  BY <1>1, <1>3, OthersKeep
<1>4. CASE Reads
  BY <1>1, <1>4, ReadsKeeps
<1>5. CASE Tells
  <2>1. /\ ~Parsing /\ life = "over" /\ Clear
        /\ UNCHANGED <<vars, chunk, delivered, errors, hostVars>>
    BY <1>5 DEF Tells
  <2>2. UNCHANGED <<got, keeper, life, arrived>>
    BY <2>1 DEF vars, members, incoming
  <2>3. keeper \/ arrived' <= Len(Peer)
    BY <2>2 DEF FrameInv, Phases
  <2>. QED  BY <1>1, <2>1, <2>2, <2>3, QuietKeeps
<1>6. CASE Parses
  BY <1>1, <1>6, ParsesKeeps
<1>7. CASE BufferReused
  BY <1>1, <1>7, ReuseKeeps
<1>8. CASE PeerActs
  <2>1. /\ UNCHANGED <<members, got, keeper, msgVars, hostVars>>
        /\ keeper \/ arrived' <= Len(Peer)
    BY <1>8 DEF PeerActs, PeerReads, PeerSends, PeerEnds, PeerLost, incoming, outgoing
  <2>. QED  BY <1>1, <2>1, UntouchedKeeps DEF members
<1>9. CASE UNCHANGED allVars
  <2>1. UNCHANGED <<msgVars, hostVars, life, got, keeper, arrived>>
    BY <1>9 DEF allVars, vars, members, incoming
  <2>2. keeper \/ arrived' <= Len(Peer)
    BY <2>1 DEF FrameInv, Phases
  <2>. QED  BY <1>1, <2>1, <2>2, UntouchedKeeps
<1>. QED  BY <1>2, <1>3, <1>4, <1>5, <1>6, <1>7, <1>8, <1>9 DEF ControlNext

\* The invariant holds at first.
LEMMA InitFrame == ControlInit => FrameInv
<1>. SUFFICES ASSUME ControlInit PROVE FrameInv
  OBVIOUS
<1>1. /\ Init /\ (keeper => msgs = <<>>) /\ chunk \in Rests \cup {<<>>}
      /\ (keeper => chunk = <<>>) /\ delivered = <<>> /\ errors = 0
      /\ cut = FALSE /\ freed = FALSE /\ late = FALSE
  BY DEF ControlInit
<1>2. msgs \in Seq(Sendable)
  <2>1. PICK n \in 0 .. MaxMsgs : msgs \in [1 .. n -> Payloads]
    BY DEF ControlInit
  <2>2. n \in Nat
    BY ControlStreamAssumption
  <2>3. \A p \in Payloads : p \in Sendable
    BY ControlStreamAssumption DEF Sendable, Byte
  <2>4. msgs \in [1 .. n -> Sendable]
    BY <2>1, <2>3
  <2>. QED  BY <2>2, <2>4, SeqDef
<1>3. Legal(state, head, body)
  <2>1. PICK m \in Leftovers \cup {NoMsg} : Parsed(m)
    BY DEF ControlInit
  <2>2. CASE m \in Leftovers
    BY <2>1, <2>2, ControlStreamAssumption DEF Parsed
  <2>3. CASE m = NoMsg
    <3>1. state = "NoData" /\ head = <<>> /\ body = <<>>
      BY <2>1, <2>3 DEF Parsed, NoMsg
    <3>2. <<>> \in Seq(Byte) /\ Len(<<>>) = 0 /\ HeadLen \in Nat \ {0}
      BY EmptySeq, MessageReceiverAssumption
    <3>. QED  BY <3>1, <3>2 DEF Legal, Byte
  <2>. QED  BY <2>1, <2>2, <2>3
<1>4. Shape
  <2>1. chunk \in Seq(0 .. Base - 1)
    BY <1>1, EmptySeq, ControlStreamAssumption
  <2>2. delivered \in Seq(Seq(Byte))
    BY <1>1, EmptySeq
  <2>3. errors \in 0 .. 1
    BY <1>1
  <2>4. cut \in BOOLEAN /\ freed \in BOOLEAN /\ late \in BOOLEAN
    BY <1>1, Zenon
  <2>. QED  BY <1>2, <1>3, <2>1, <2>2, <2>3, <2>4 DEF Shape, MsgTypeOK
<1>5. Phases
  <2>1. Len(Peer) \in Nat /\ arrived = 0 /\ got = 0
    BY <1>1, <1>4, ShapeFacts DEF Init
  <2>. QED  BY <1>1, <2>1 DEF Phases, Init
<1>6. AllGiven
  <2>1. ASSUME NEW k \in 0 .. Len(msgs), Len(Before(msgs, k)) <= got PROVE k <= 0
    <3>1. got = 0 /\ Len(msgs) \in Nat /\ HeadLen \in Nat \ {0} /\ Len(Bytes(msgs)) \in Nat
      BY <1>1, <1>4, ShapeFacts DEF Init, Peer
    <3>2. Len(Before(msgs, 0)) = 0
      BY <1>2, OneMore, EmptySeq
    <3>3. 0 \in 0 .. Len(msgs) /\ 0 < HeadLen /\ 0 \in Nat
      BY <3>1
    <3>4. Len(Before(msgs, k)) <= Len(Before(msgs, 0)) + 0 /\ Len(Before(msgs, 0)) + 0 <= Len(Bytes(msgs))
      BY <2>1, <3>1, <3>2
    <3>. QED  BY <1>2, <3>3, <3>4, NotYet
  <2>2. Len(delivered) = 0 /\ Len(msgs) \in Nat
    BY <1>1, <1>2, EmptySeq, LenProperties
  <2>3. ASSUME NEW k \in 0 .. Len(msgs), Len(Before(msgs, k)) <= got PROVE Len(delivered) >= k
    BY <2>1, <2>2, <2>3
  <2>. QED  BY <2>3 DEF AllGiven
<1>. QED  BY <1>1, <1>4, <1>5, <1>6 DEF FrameInv, Parsing, Init

\* It holds throughout.
LEMMA FrameInvariant == ControlSpec => [](ConnInv /\ FrameInv)
<1>1. ControlInit => ConnInv /\ FrameInv
  BY InitFrame, InitConn DEF ControlInit
<1>2. ConnInv /\ FrameInv /\ [ControlNext]_allVars => (ConnInv /\ FrameInv)'
  BY FrameStep
<1>. QED  BY <1>1, <1>2, PTL DEF ControlSpec

\* Wherever recv() cuts the stream, and whatever an earlier connection left in the
\* receiver or, in whole messages, to parse, MessageReceiver::input gives the handler
\* the next message, whole, for every width of a length and every longest message.
THEOREM AlwaysDeliversInOrder == ControlSpec => DeliversInOrder
<1>1. ConnInv /\ FrameInv /\ [ControlNext]_allVars
        => [delivered' # delivered /\ ~cut /\ ~freed /\ ~late =>
              /\ Len(delivered) < Len(msgs)
              /\ delivered' = Append(delivered, msgs[Len(delivered) + 1])]_allVars
  BY FrameStep DEF NextDelivered
<1>. QED  BY FrameInvariant, <1>1, PTL DEF ControlSpec, DeliversInOrder

\* And once input() returns, every message whose bytes have all been read has been
\* given, up to the first whose length is illegal, and that one has been reported.
THEOREM NothingEverWithheld == ControlSpec => []NothingWithheld
<1>1. ConnInv /\ FrameInv => NothingWithheld
  <2>1. ASSUME ConnInv, FrameInv, ~Parsing, ~cut, ~freed, ~late,
               NEW k \in 0 .. Len(msgs), Len(Bytes(SubSeq(msgs, 1, k))) <= got
        PROVE  \/ Len(delivered) >= k
               \/ errors = 1 /\ TooLong(Len(msgs[Len(delivered) + 1]))
    <3>1. CASE keeper
      <4>1. msgs = <<>> /\ Len(<<>>) = 0 /\ Len(delivered) \in Nat
        BY <2>1, <3>1, EmptySeq, ShapeFacts DEF FrameInv, Phases
      <4>. QED  BY <4>1
    <3>2. CASE ~keeper
      BY <2>1, <3>2 DEF FrameInv, Intact, AllGiven, Before
    <3>. QED  BY <3>1, <3>2
  <2>. QED  BY <2>1 DEF NothingWithheld, FrameInv, Shape, ConnInv
<1>. QED  BY FrameInvariant, <1>1, PTL

=============================================================================
