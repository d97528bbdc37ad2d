------------------------------ MODULE ProxyProofs ------------------------------
(***************************************************************************)
(* Theorems about the control plane and the data path, for every set of    *)
(* bridges and connections, every pool size and every bound on data,       *)
(* failures and crashes.  The first part is about FastTunnel alone.        *)
(***************************************************************************)
EXTENDS ProxyPath, RunLemmas, FiniteSetTheorems

-----------------------------------------------------------------------------
(* The pool as a duplicate-free sequence.                                  *)

\* Taking the first element of a duplicate-free sequence (genNewId).
LEMMA TakeFirst ==
  ASSUME NEW S, NEW s \in Seq(S), s # <<>>, IsInjective(s)
  PROVE  /\ Head(s) \in S /\ Tail(s) \in Seq(S)
         /\ IsInjective(Tail(s))
         /\ Head(s) \in Range(s)
         /\ Range(Tail(s)) = Range(s) \ {Head(s)}
<1>1. /\ Head(s) \in S /\ Tail(s) \in Seq(S) /\ Len(Tail(s)) = Len(s) - 1
      /\ \A i \in 1 .. Len(Tail(s)) : Tail(s)[i] = s[i + 1]
  BY HeadTailProperties
<1>2. DOMAIN s = 1 .. Len(s) /\ DOMAIN Tail(s) = 1 .. Len(Tail(s)) /\ Len(s) \in Nat
  BY <1>1, LenProperties
<1>3. Len(s) # 0 /\ Head(s) = s[1]
  BY EmptySeq
<1>4. IsInjective(Tail(s))
  BY <1>1, <1>2, <1>3 DEF IsInjective
<1>5. Head(s) \in Range(s)
  BY <1>2, <1>3 DEF Range
<1>6. Range(Tail(s)) \subseteq Range(s) \ {Head(s)}
  BY <1>1, <1>2, <1>3 DEF Range, IsInjective
<1>7. ASSUME NEW x \in Range(s) \ {Head(s)}
      PROVE  x \in Range(Tail(s))
  <2>1. PICK i \in 1 .. Len(s) : s[i] = x
    BY <1>2 DEF Range
  <2>2. i # 1 /\ i - 1 \in 1 .. Len(Tail(s)) /\ Tail(s)[i - 1] = s[i]
    BY <1>1, <1>2, <1>3, <2>1
  <2>. QED  BY <1>2, <2>1, <2>2 DEF Range
<1>. QED  BY <1>1, <1>4, <1>5, <1>6, <1>7

\* Joining duplicate-free sequences without a common element.
LEMMA Join ==
  ASSUME NEW S, NEW s \in Seq(S), NEW t \in Seq(S),
         IsInjective(s), IsInjective(t), Range(s) \cap Range(t) = {}
  PROVE  /\ s \o t \in Seq(S)
         /\ IsInjective(s \o t)
         /\ Range(s \o t) = Range(s) \cup Range(t)
<1>1. /\ s \o t \in Seq(S)
      /\ Len(s \o t) = Len(s) + Len(t)
      /\ \A i \in 1 .. Len(s) + Len(t) :
           (s \o t)[i] = IF i <= Len(s) THEN s[i] ELSE t[i - Len(s)]
  BY ConcatProperties
<1>2. /\ Len(s) \in Nat /\ Len(t) \in Nat
      /\ DOMAIN s = 1 .. Len(s) /\ DOMAIN t = 1 .. Len(t)
      /\ DOMAIN (s \o t) = 1 .. Len(s) + Len(t)
  BY <1>1, LenProperties
<1>3. ASSUME NEW i \in 1 .. Len(s) + Len(t), NEW j \in 1 .. Len(s) + Len(t),
             (s \o t)[i] = (s \o t)[j]
      PROVE  i = j
  <2>1. CASE i <= Len(s) /\ j <= Len(s)
    BY <1>1, <1>2, <1>3, <2>1 DEF IsInjective
  <2>2. CASE i > Len(s) /\ j > Len(s)
    <3>1. i - Len(s) \in DOMAIN t /\ j - Len(s) \in DOMAIN t
      BY <1>2, <2>2
    <3>2. t[i - Len(s)] = t[j - Len(s)]
      BY <1>1, <1>2, <1>3, <2>2
    <3>. QED  BY <1>2, <3>1, <3>2, <2>2 DEF IsInjective
  <2>3. CASE i <= Len(s) /\ j > Len(s)
    <3>1. s[i] \in Range(s)
      BY <1>2, <2>3 DEF Range
    <3>2. t[j - Len(s)] \in Range(t)
      <4>1. j - Len(s) \in DOMAIN t
        BY <1>2, <2>3
      <4>. QED  BY <4>1 DEF Range
    <3>. QED  BY <1>1, <1>2, <1>3, <2>3, <3>1, <3>2
  <2>4. CASE i > Len(s) /\ j <= Len(s)
    <3>1. s[j] \in Range(s)
      BY <1>2, <2>4 DEF Range
    <3>2. t[i - Len(s)] \in Range(t)
      <4>1. i - Len(s) \in DOMAIN t
        BY <1>2, <2>4
      <4>. QED  BY <4>1 DEF Range
    <3>. QED  BY <1>1, <1>2, <1>3, <2>4, <3>1, <3>2
  <2>. QED  BY <1>2, <2>1, <2>2, <2>3, <2>4
<1>4. IsInjective(s \o t)
  BY <1>2, <1>3 DEF IsInjective
<1>. QED  BY <1>1, <1>4, RangeConcatenation

\* Appending a new element to a duplicate-free sequence (restorId).
LEMMA PutLast ==
  ASSUME NEW S, NEW s \in Seq(S), NEW e \in S, IsInjective(s), e \notin Range(s)
  PROVE  /\ Append(s, e) \in Seq(S)
         /\ IsInjective(Append(s, e))
         /\ Range(Append(s, e)) = Range(s) \cup {e}
<1>1. <<e>> \in Seq(S) /\ IsInjective(<<e>>) /\ Range(<<e>>) = {e}
  BY DEF IsInjective, Range
<1>2. Append(s, e) = s \o <<e>>
  BY AppendIsConcat
<1>3. Range(s) \cap Range(<<e>>) = {}
  BY <1>1
<1>4. /\ s \o <<e>> \in Seq(S) /\ IsInjective(s \o <<e>>)
      /\ Range(s \o <<e>>) = Range(s) \cup Range(<<e>>)
  <2>. DEFINE t == <<e>>
  <2>1. t \in Seq(S) /\ IsInjective(t) /\ Range(s) \cap Range(t) = {}
    BY <1>1, <1>3
  <2>. HIDE DEF t
  <2>2. /\ s \o t \in Seq(S) /\ IsInjective(s \o t)
        /\ Range(s \o t) = Range(s) \cup Range(t)
    BY <2>1, Join
  <2>. QED  BY <2>2 DEF t
<1>. QED  BY <1>1, <1>2, <1>4

\* The initial pool holds every id once.
LEMMA InitPoolFull ==
  InitPool \in Seq(Convs) /\ IsInjective(InitPool) /\ Range(InitPool) = Convs
<1>. USE FastTunnelAssumption DEF InitPool, Convs, BEGID
<1>1. /\ DOMAIN InitPool = 1 .. MaxNum
      /\ \A i \in 1 .. MaxNum : InitPool[i] = 100 + i - 1
  OBVIOUS
<1>2. InitPool \in Seq(Convs)
  BY <1>1
<1>3. IsInjective(InitPool)
  BY <1>1 DEF IsInjective
<1>4. \A v \in Convs : v - 99 \in 1 .. MaxNum /\ InitPool[v - 99] = v
  BY <1>1
<1>5. Range(InitPool) = Convs
  <2>1. Range(InitPool) \subseteq Convs
    BY <1>1 DEF Range
  <2>2. Convs \subseteq Range(InitPool)
    BY <1>1, <1>4 DEF Range
  <2>. QED  BY <2>1, <2>2
<1>. QED  BY <1>2, <1>3, <1>5

\* What ServerUpdate appends: each id of V once, in some order.
LEMMA OrdersAreSeqs ==
  ASSUME NEW V \in SUBSET Convs, NEW order \in Orders(V)
  PROVE  order \in Seq(Convs) /\ IsInjective(order) /\ Range(order) = V
<1>1. IsFiniteSet(V)
  <2>1. IsFiniteSet(Convs)
    BY FastTunnelAssumption, FS_Interval DEF Convs, BEGID
  <2>. QED  BY <2>1, FS_Subset
<1>2. Cardinality(V) \in Nat
  BY <1>1, FS_CardinalityType
<1>3. order \in [1 .. Cardinality(V) -> Convs]
  BY DEF Orders
<1>. QED  BY <1>2, <1>3 DEF Orders

-----------------------------------------------------------------------------
(* Type correctness.                                                       *)

LEMMA TypeInit == Init => TypeOK
  BY FastTunnelAssumption, InitPoolFull, EmptySeq DEF Init, TypeOK

LEMMA TypeNext == TypeOK /\ [Next]_vars => TypeOK'
<1>. SUFFICES ASSUME TypeOK, [Next]_vars PROVE TypeOK'
  OBVIOUS
<1>. USE FastTunnelAssumption DEF TypeOK
<1>m. /\ Confirm \in Msg /\ Fin \in Msg
      /\ \A v \in Convs : Create(v) \in Msg
      /\ \A m \in Msg : m.type = "Create" => m.conv \in Convs
  BY DEF Msg, Create, Confirm, Fin
<1>u. ASSUME NEW C, NEW told PROVE UpAfterClose(C, told) \in [Conns -> Seq(Msg)]
  BY <1>m DEF UpAfterClose
<1>d. ASSUME NEW C PROVE DownAfterClose(C) \in [Conns -> Seq(Msg)]
  BY DEF DownAfterClose
<1>s. ASSUME NEW c \in Conns, NEW msgs \in Seq(Msg)
      PROVE Send(c, msgs) \in [Conns -> Seq(Msg)]
  BY DEF Send
<1>n. ASSUME NEW new \in NextConn, NEW old
      PROVE /\ new \in Conns \cup {None}
            /\ CstAfter(old, new)
                 \in [Conns -> {"unused", "connecting", "connected", "closed"}]
  BY DEF NextConn, Unused, CstAfter
<1>r. ASSUME NEW b \in Bridges, NEW told, NEW n \in {0, 1}, DropAndReconnect(b, told, n)
      PROVE /\ TypeOK!1' /\ TypeOK!2' /\ TypeOK!3' /\ TypeOK!4' /\ TypeOK!5'
            /\ TypeOK!11' /\ TypeOK!12' /\ TypeOK!13' /\ TypeOK!14'
  <2>1. up' \in [Conns -> Seq(Msg)] /\ down' \in [Conns -> Seq(Msg)]
    BY <1>r, <1>u, <1>d DEF DropAndReconnect
  <2>2. PICK new \in NextConn : /\ ext' = [ext EXCEPT ![b] = new]
                                /\ cst' = CstAfter(ext[b], new)
                                /\ Count(n, cool[b], new)
    BY <1>r DEF DropAndReconnect, NextConn
  <2>3. ext' \in [Bridges -> Conns \cup {None}] /\ TypeOK!5'
    BY <1>n, <2>2
  <2>4. faults' \in 0 .. MaxFaults
    BY <2>2 DEF Count
  <2>. QED  BY <1>r, <2>1, <2>3, <2>4 DEF DropAndReconnect, ReleaseClientTunnel
<1>b. ASSUME NEW B \in SUBSET Bridges, NEW told, DropBridges(B, told)
      PROVE /\ TypeOK!1' /\ TypeOK!2' /\ TypeOK!3' /\ TypeOK!4' /\ TypeOK!5'
            /\ TypeOK!6' /\ TypeOK!7' /\ TypeOK!8' /\ TypeOK!9' /\ TypeOK!10'
            /\ TypeOK!11' /\ TypeOK!12'
  BY <1>b, <1>u, <1>d DEF DropBridges, serverVars
<1>o. ASSUME NEW c \in Conns, NEW told, ServerDrops(c, told), stun[c] # None
      PROVE /\ TypeOK!1' /\ TypeOK!2' /\ TypeOK!3' /\ TypeOK!4' /\ TypeOK!5'
            /\ TypeOK!6' /\ TypeOK!7' /\ TypeOK!8' /\ TypeOK!9' /\ TypeOK!10'
            /\ TypeOK!11' /\ TypeOK!12'
  <2>1. down' \in [Conns -> Seq(Msg)]
    <3>1. <<Fin>> \in Seq(Msg)
      BY <1>m
    <3>. QED  BY <1>o, <1>s, <3>1 DEF ServerDrops
  <2>2. pool' \in Seq(Convs)
    <3>1. stun[c] \in Convs
      BY <1>o
    <3>. QED  BY <1>o, <3>1, AppendProperties DEF ServerDrops, ReleaseTunnel
  <2>3. up' \in [Conns -> Seq(Msg)]
    BY <1>o, EmptySeq DEF ServerDrops
  <2>. QED  BY <1>o, <2>1, <2>2, <2>3 DEF ServerDrops, ReleaseTunnel, clientVars
<1>. USE DEF countVars, serverVars, clientVars, netVars
<1>1. ASSUME NEW b \in Bridges, ConnectDone(b) PROVE TypeOK'
  BY <1>1 DEF ConnectDone
<1>2. ASSUME NEW b \in Bridges, ClientRecvCreate(b) PROVE TypeOK'
  <2>1. ext[b] \in Conns /\ down[ext[b]] # <<>> /\ Head(down[ext[b]]) \in Msg
    BY <1>2 DEF ClientRecvCreate, ClientHears
  <2>. QED  BY <1>2, <1>m, <2>1 DEF ClientRecvCreate
<1>3. ASSUME NEW b \in Bridges, ClientRecvDuplicate(b) PROVE TypeOK'
  <2>1. ext[b] \in Conns /\ down[ext[b]] # <<>>
    BY <1>3 DEF ClientRecvDuplicate, ClientHears
  <2>2. CASE cool[b]
    BY <1>3, <2>2, <1>r DEF ClientRecvDuplicate
  <2>3. CASE ~cool[b]
    <3>1. Tail(down[ext[b]]) \in Seq(Msg)
      BY <2>1, HeadTailProperties
    <3>2. /\ down' = [down EXCEPT ![ext[b]] = Tail(down[ext[b]])]
          /\ UNCHANGED <<clientVars, up, countVars, serverVars>>
      BY <1>3, <2>3 DEF ClientRecvDuplicate
    <3>. QED  BY <2>1, <3>1, <3>2
  <2>. QED  BY <2>2, <2>3
<1>4. ASSUME NEW b \in Bridges, ClientRecvFin(b) PROVE TypeOK'
  BY <1>4, <1>r DEF ClientRecvFin
<1>5. ASSUME NEW b \in Bridges, CoolDown(b) PROVE TypeOK'
  BY <1>5 DEF CoolDown
<1>6. ASSUME NEW b \in Bridges, AcceptLocal(b) PROVE TypeOK'
  BY <1>6, <1>n DEF AcceptLocal, Count
<1>7. ASSUME NEW b \in Bridges, ClientError(b) PROVE TypeOK'
  <2>1. PICK told \in Told : DropAndReconnect(b, told, 1)
    BY <1>7 DEF ClientError
  <2>2. sess' \in [Conns -> {"none", "live", "shut", "gone", "leaked"}]
    <3>1. sess' = sess \/ sess' = [sess EXCEPT ![ext[b]] = "gone"]
      BY <1>7 DEF ClientError
    <3>. QED  BY <3>1
  <2>. QED  BY <1>7, <1>r, <2>1, <2>2 DEF ClientError
<1>8. ASSUME NEW b \in Bridges, RetryOnData(b) PROVE TypeOK'
  BY <1>8, <1>r DEF RetryOnData
<1>9. ASSUME NEW b \in Bridges, LocalClose(b) PROVE TypeOK'
  BY <1>9 DEF LocalClose
<1>10. CASE ClientUpdate
  BY <1>10, <1>b DEF ClientUpdate
<1>11. CASE ClientCrash
  <2>1. PICK told \in Told : DropBridges({b \in Bridges : Open(b)}, told)
    BY <1>11 DEF ClientCrash
  <2>2. crashes' \in 0 .. MaxCrashes /\ faults' = faults
    BY <1>11 DEF ClientCrash
  <2>3. {b \in Bridges : Open(b)} \in SUBSET Bridges
    OBVIOUS
  <2>. QED  BY <1>b, <2>1, <2>2, <2>3
<1>12. ASSUME NEW c \in Conns, Accept(c) PROVE TypeOK'
  <2>1. Head(pool) \in Convs /\ Tail(pool) \in Seq(Convs)
    BY <1>12, HeadTailProperties DEF Accept
  <2>2. down' \in [Conns -> Seq(Msg)]
    <3>1. <<Create(Head(pool))>> \in Seq(Msg)
      BY <1>m, <2>1
    <3>. QED  BY <1>12, <1>s, <3>1 DEF Accept
  <2>. QED  BY <1>12, <2>1, <2>2 DEF Accept
<1>13. ASSUME NEW c \in Conns, AcceptZombie(c) PROVE TypeOK'
  BY <1>13, HeadTailProperties, AppendProperties DEF AcceptZombie
<1>14. ASSUME NEW c \in Conns, AcceptAborted(c) PROVE TypeOK'
  <2>1. Head(pool) \in Convs /\ pool' \in Seq(Convs)
    BY <1>14, HeadTailProperties, AppendProperties DEF AcceptAborted
  <2>2. <<Fin>> \in Seq(Msg) /\ <<Create(Head(pool)), Fin>> \in Seq(Msg)
    BY <1>m, <2>1
  <2>3. down' \in [Conns -> Seq(Msg)]
    <3>1. PICK msgs \in {<<Fin>>, <<Create(Head(pool)), Fin>>} : down' = Send(c, msgs)
      BY <1>14 DEF AcceptAborted
    <3>. QED  BY <1>s, <2>2, <3>1
  <2>4. up' \in [Conns -> Seq(Msg)]
    BY <1>14, EmptySeq DEF AcceptAborted
  <2>. QED  BY <1>14, <2>1, <2>3, <2>4 DEF AcceptAborted
<1>15. ASSUME NEW c \in Conns, AcceptLeaks(c) PROVE TypeOK'
  BY <1>15 DEF AcceptLeaks
<1>16. ASSUME NEW c \in Conns, ServerRecvConfirm(c) PROVE TypeOK'
  BY <1>16 DEF ServerRecvConfirm
<1>17. ASSUME NEW c \in Conns, ServerRecvFin(c) PROVE TypeOK'
  BY <1>17, <1>o DEF ServerRecvFin, Attached
<1>18. ASSUME NEW c \in Conns, ServerError(c) PROVE TypeOK'
  BY <1>18, <1>o DEF ServerError, Attached
<1>19. ASSUME NEW c \in Conns, Heartbeat(c) PROVE TypeOK'
  BY <1>19 DEF Heartbeat
<1>20. ASSUME NEW c \in Conns, HeartbeatTimeout(c) PROVE TypeOK'
  BY <1>20 DEF HeartbeatTimeout
<1>21. CASE ServerUpdate
  <2>1. pool' \in Seq(Convs)
    <3>. DEFINE V == IdsOf(ShutSessions)
    <3>1. PICK order \in Orders(V) : pool' = pool \o order
      BY <1>21 DEF ServerUpdate
    <3>2. V \in SUBSET Convs
      BY DEF IdsOf, ShutSessions
    <3>. HIDE DEF V
    <3>3. order \in Seq(Convs)
      BY <3>1, <3>2, OrdersAreSeqs
    <3>. QED  BY <3>1, <3>3, ConcatProperties
  <2>2. down' \in [Conns -> Seq(Msg)]
    BY <1>21, <1>m DEF ServerUpdate
  <2>3. up' \in [Conns -> Seq(Msg)]
    BY <1>21, EmptySeq DEF ServerUpdate
  <2>. QED  BY <1>21, <2>1, <2>2, <2>3 DEF ServerUpdate
<1>22. CASE ServerCrash
  <2>1. down' \in [Conns -> Seq(Msg)]
    BY <1>22, <1>m DEF ServerCrash
  <2>. QED  BY <1>22, <2>1, InitPoolFull DEF ServerCrash
<1>23. CASE UNCHANGED vars
  BY <1>23 DEF vars
<1>. QED
  BY <1>1, <1>2, <1>3, <1>4, <1>5, <1>6, <1>7, <1>8, <1>9, <1>10, <1>11, <1>12,
     <1>13, <1>14, <1>15, <1>16, <1>17, <1>18, <1>19, <1>20, <1>21, <1>22, <1>23
     DEF Next, ClientStep, ServerStep

\* Every variable keeps its type.
THEOREM TypeCorrect == Spec => []TypeOK
  BY TypeInit, TypeNext, PTL DEF Spec

-----------------------------------------------------------------------------
(* The ids of tunnels.                                                     *)

\* A session that has not been accepted, or is over, holds no id.
SessionsHoldIds == \A c \in Conns : stun[c] # None => sess[c] \in {"live", "shut"}

ConvInv == TypeOK /\ ConvPartition /\ SessionsHoldIds

\* ConvPartition as a statement about any pool p and any tunnels t.
Partitions(p, t) ==
  /\ IsInjective(p)
  /\ Range(p) \cap {t[c] : c \in Conns} = {}
  /\ Convs \subseteq Range(p) \cup {t[c] : c \in Conns}
  /\ \A c, d \in Conns : t[c] = t[d] /\ t[c] # None => c = d

LEMMA NoneIsNoConv == None \notin Convs
  BY FastTunnelAssumption DEF Convs, BEGID

LEMMA PartitionForm == TypeOK => (ConvPartition <=> Partitions(pool, stun))
<1>. SUFFICES ASSUME TypeOK PROVE ConvPartition <=> Partitions(pool, stun)
  OBVIOUS
<1>1. Range(pool) \subseteq Convs
  BY RangeOfSeq DEF TypeOK
<1>2. {stun[c] : c \in Conns} \subseteq Convs \cup {None}
  BY DEF TypeOK
<1>. QED
  BY <1>1, <1>2, NoneIsNoConv DEF ConvPartition, Partitions, ServerTunnels

\* genNewId: the first id of the pool becomes the tunnel of a connection that
\* had none.
LEMMA TakeId ==
  ASSUME NEW p \in Seq(Convs), NEW t \in [Conns -> Convs \cup {None}], NEW c \in Conns,
         p # <<>>, t[c] = None, Partitions(p, t)
  PROVE  Partitions(Tail(p), [t EXCEPT ![c] = Head(p)])
<1>. DEFINE u == [t EXCEPT ![c] = Head(p)]
<1>1. /\ Head(p) \in Convs /\ IsInjective(Tail(p)) /\ Head(p) \in Range(p)
      /\ Range(Tail(p)) = Range(p) \ {Head(p)}
  BY TakeFirst DEF Partitions
<1>2. u[c] = Head(p) /\ \A d \in Conns \ {c} : u[d] = t[d]
  OBVIOUS
<1>3. \A d \in Conns : t[d] # Head(p)
  BY <1>1 DEF Partitions
<1>. HIDE DEF u
<1>4. {u[d] : d \in Conns} \subseteq {t[d] : d \in Conns} \cup {Head(p)}
  BY <1>2
<1>5. Range(Tail(p)) \cap {u[d] : d \in Conns} = {}
  BY <1>1, <1>4 DEF Partitions
<1>6. ASSUME NEW v \in Convs PROVE v \in Range(Tail(p)) \cup {u[d] : d \in Conns}
  <2>1. CASE v = Head(p)
    BY <1>2, <2>1
  <2>2. CASE v # Head(p) /\ v \in Range(p)
    BY <1>1, <2>2
  <2>3. CASE v \notin Range(p)
    <3>1. PICK d \in Conns : t[d] = v
      BY <2>3 DEF Partitions
    <3>2. d # c
      BY <3>1, NoneIsNoConv
    <3>. QED  BY <1>2, <3>1, <3>2
  <2>. QED  BY <2>1, <2>2, <2>3
<1>7. ASSUME NEW d \in Conns, NEW e \in Conns, u[d] = u[e], u[d] # None
      PROVE  d = e
  BY <1>2, <1>3, <1>7 DEF Partitions
<1>8. Partitions(Tail(p), u)
  BY <1>1, <1>5, <1>6, <1>7 DEF Partitions
<1>. QED  BY <1>8 DEF u

\* A taken id put back at once (acceptConnection failing).
LEMMA RotateId ==
  ASSUME NEW p \in Seq(Convs), NEW t, p # <<>>, Partitions(p, t)
  PROVE  Partitions(Append(Tail(p), Head(p)), t)
<1>1. /\ Head(p) \in Convs /\ Tail(p) \in Seq(Convs) /\ IsInjective(Tail(p))
      /\ Head(p) \in Range(p) /\ Range(Tail(p)) = Range(p) \ {Head(p)}
  BY TakeFirst DEF Partitions
<1>. DEFINE h == Head(p)  q == Tail(p)
<1>2. IsInjective(Append(q, h)) /\ Range(Append(q, h)) = Range(p)
  <2>1. /\ h \in Convs /\ q \in Seq(Convs) /\ IsInjective(q) /\ h \notin Range(q)
        /\ Range(q) \cup {h} = Range(p)
    BY <1>1
  <2>. HIDE DEF h, q
  <2>2. IsInjective(Append(q, h)) /\ Range(Append(q, h)) = Range(q) \cup {h}
    BY <2>1, PutLast
  <2>. QED  BY <2>1, <2>2
<1>. QED  BY <1>2 DEF Partitions

\* restorId of the tunnels of the connections in C, in some order.
LEMMA RestoreIds ==
  ASSUME NEW p \in Seq(Convs), NEW t \in [Conns -> Convs \cup {None}],
         NEW C \in SUBSET Conns, NEW order \in Seq(Convs),
         IsInjective(order), Range(order) = {t[c] : c \in C} \ {None},
         Partitions(p, t)
  PROVE  Partitions(p \o order, [c \in Conns |-> IF c \in C THEN None ELSE t[c]])
<1>. DEFINE u == [c \in Conns |-> IF c \in C THEN None ELSE t[c]]
<1>1. Range(p) \cap Range(order) = {}
  BY DEF Partitions
<1>2. IsInjective(p \o order) /\ Range(p \o order) = Range(p) \cup Range(order)
  BY <1>1, Join DEF Partitions
<1>3. \A d \in Conns : u[d] = IF d \in C THEN None ELSE t[d]
  OBVIOUS
<1>. HIDE DEF u
<1>4. ASSUME NEW d \in Conns PROVE u[d] \notin Range(p \o order)
  <2>1. CASE d \in C
    <3>1. Range(p) \subseteq Convs
      BY RangeOfSeq
    <3>. QED  BY <1>2, <1>3, <2>1, <3>1, NoneIsNoConv
  <2>2. CASE d \notin C
    <3>1. t[d] \notin Range(p) /\ u[d] = t[d]
      BY <1>3, <2>2 DEF Partitions
    <3>2. ASSUME t[d] \in Range(order) PROVE FALSE
      <4>1. PICK e \in C : t[e] = t[d] /\ t[d] # None
        BY <3>2
      <4>. QED  BY <2>2, <4>1 DEF Partitions
    <3>. QED  BY <1>2, <3>1, <3>2
  <2>. QED  BY <2>1, <2>2
<1>5. ASSUME NEW v \in Convs PROVE v \in Range(p \o order) \cup {u[d] : d \in Conns}
  <2>1. CASE v \in Range(p)
    BY <1>2, <2>1
  <2>2. CASE v \notin Range(p)
    <3>1. PICK d \in Conns : t[d] = v
      BY <2>2 DEF Partitions
    <3>2. v # None
      BY NoneIsNoConv
    <3>3. CASE d \in C
      BY <1>2, <3>1, <3>2, <3>3
    <3>4. CASE d \notin C
      BY <1>3, <3>1, <3>4
    <3>. QED  BY <3>3, <3>4
  <2>. QED  BY <2>1, <2>2
<1>6. ASSUME NEW d \in Conns, NEW e \in Conns, u[d] = u[e], u[d] # None
      PROVE  d = e
  BY <1>3, <1>6 DEF Partitions
<1>7. Partitions(p \o order, u)
  BY <1>2, <1>4, <1>5, <1>6 DEF Partitions
<1>. QED  BY <1>7 DEF u

LEMMA ConvInit == Init => ConvInv
<1>. SUFFICES ASSUME Init PROVE ConvInv
  OBVIOUS
<1>1. Partitions(pool, stun)
  BY InitPoolFull, NoneIsNoConv DEF Init, Partitions
<1>. QED
  BY <1>1, TypeInit, PartitionForm DEF Init, ConvInv, SessionsHoldIds

LEMMA ConvNext == ConvInv /\ [Next]_vars => ConvInv'
<1>. SUFFICES ASSUME ConvInv, [Next]_vars PROVE ConvInv'
  OBVIOUS
<1>. SUFFICES Partitions(pool, stun)' /\ SessionsHoldIds'
  <2>1. TypeOK'
    BY TypeNext DEF ConvInv
  <2>2. (TypeOK => (ConvPartition <=> Partitions(pool, stun)))'
    BY PartitionForm, PTL
  <2>. QED  BY <2>1, <2>2 DEF ConvInv
<1>t. /\ pool \in Seq(Convs) /\ stun \in [Conns -> Convs \cup {None}]
      /\ sess \in [Conns -> {"none", "live", "shut", "gone", "leaked"}]
      /\ Partitions(pool, stun) /\ SessionsHoldIds
      /\ \A c \in Conns : stun[c] # None => sess[c] \in {"live", "shut"}
  BY PartitionForm DEF ConvInv, TypeOK, SessionsHoldIds
<1>k. ASSUME UNCHANGED <<pool, stun>>,
             \A c \in Conns : sess[c] \in {"live", "shut"} => sess'[c] \in {"live", "shut"}
      PROVE  Partitions(pool, stun)' /\ SessionsHoldIds'
  BY <1>t, <1>k DEF Partitions, SessionsHoldIds
<1>c. ASSUME UNCHANGED serverVars PROVE Partitions(pool, stun)' /\ SessionsHoldIds'
  BY <1>c, <1>k DEF serverVars
<1>o. ASSUME NEW c \in Conns, NEW told, stun[c] # None, ServerDrops(c, told)
      PROVE  Partitions(pool, stun)' /\ SessionsHoldIds'
  <2>. DEFINE one == <<stun[c]>>
              C == {c}
              u == [d \in Conns |-> IF d \in C THEN None ELSE stun[d]]
  <2>1. stun[c] \in Convs
    BY <1>t, <1>o
  <2>2. one \in Seq(Convs) /\ IsInjective(one) /\ Range(one) = {stun[d] : d \in C} \ {None}
    BY <1>o, <2>1 DEF IsInjective, Range
  <2>3. pool' = pool \o one /\ stun' = u
    BY <1>t, <1>o, <2>1, AppendIsConcat DEF ServerDrops, ReleaseTunnel
  <2>4. Partitions(pool \o one, u)
    <3>1. C \in SUBSET Conns
      OBVIOUS
    <3>. HIDE DEF one, C
    <3>. QED  BY <1>t, <2>2, <3>1, RestoreIds
  <2>5. SessionsHoldIds'
    BY <1>t, <1>o DEF ServerDrops, ReleaseTunnel, SessionsHoldIds
  <2>. QED  BY <2>3, <2>4, <2>5 DEF Partitions
<1>1. ASSUME NEW b \in Bridges, ClientStep(b) \/ AcceptLocal(b) \/ RetryOnData(b) \/ LocalClose(b)
      PROVE  Partitions(pool, stun)' /\ SessionsHoldIds'
  <2>1. UNCHANGED serverVars
    BY <1>1 DEF ClientStep, AcceptLocal, RetryOnData, LocalClose, ConnectDone,
       ClientRecvCreate, ClientRecvDuplicate, ClientRecvFin, CoolDown
  <2>. QED  BY <2>1, <1>c
<1>2. ASSUME NEW b \in Bridges, ClientError(b)
      PROVE  Partitions(pool, stun)' /\ SessionsHoldIds'
  <2>1. UNCHANGED <<pool, stun>>
    BY <1>2 DEF ClientError
  <2>2. \A c \in Conns : sess[c] \in {"live", "shut"} => sess'[c] \in {"live", "shut"}
    BY <1>2, <1>t DEF ClientError
  <2>. QED  BY <2>1, <2>2, <1>k
<1>3. CASE ClientUpdate \/ ClientCrash
  <2>1. UNCHANGED serverVars
    BY <1>3 DEF ClientUpdate, ClientCrash, DropBridges
  <2>. QED  BY <2>1, <1>c
<1>4. ASSUME NEW c \in Conns, Accept(c)
      PROVE  Partitions(pool, stun)' /\ SessionsHoldIds'
  <2>1. pool # <<>> /\ stun[c] = None /\ pool' = Tail(pool)
        /\ stun' = [stun EXCEPT ![c] = Head(pool)] /\ sess' = [sess EXCEPT ![c] = "live"]
    BY <1>4, <1>t DEF Accept, InBacklog
  <2>2. Partitions(Tail(pool), [stun EXCEPT ![c] = Head(pool)])
    BY <1>t, <2>1, TakeId
  <2>3. SessionsHoldIds'
    BY <1>t, <2>1 DEF SessionsHoldIds
  <2>. QED  BY <2>1, <2>2, <2>3 DEF Partitions
<1>5. ASSUME NEW c \in Conns, AcceptZombie(c) \/ AcceptAborted(c)
      PROVE  Partitions(pool, stun)' /\ SessionsHoldIds'
  <2>1. /\ pool # <<>> /\ stun' = stun /\ stun[c] = None
        /\ pool' = Append(Tail(pool), Head(pool))
        /\ sess' = [sess EXCEPT ![c] = "live"] \/ sess' = [sess EXCEPT ![c] = "gone"]
    BY <1>5, <1>t DEF AcceptZombie, AcceptAborted, InBacklog
  <2>2. Partitions(Append(Tail(pool), Head(pool)), stun)
    BY <1>t, <2>1, RotateId
  <2>3. SessionsHoldIds'
    BY <1>t, <2>1 DEF SessionsHoldIds
  <2>. QED  BY <2>1, <2>2, <2>3 DEF Partitions
<1>6. ASSUME NEW c \in Conns, AcceptLeaks(c)
      PROVE  Partitions(pool, stun)' /\ SessionsHoldIds'
  BY <1>6, <1>t, <1>k DEF AcceptLeaks, InBacklog
<1>7. ASSUME NEW c \in Conns, ServerRecvConfirm(c) \/ Heartbeat(c) \/ HeartbeatTimeout(c)
      PROVE  Partitions(pool, stun)' /\ SessionsHoldIds'
  BY <1>7, <1>t, <1>k DEF ServerRecvConfirm, Heartbeat, HeartbeatTimeout
<1>8. ASSUME NEW c \in Conns, ServerRecvFin(c) \/ ServerError(c)
      PROVE  Partitions(pool, stun)' /\ SessionsHoldIds'
  BY <1>8, <1>o DEF ServerRecvFin, ServerError, Attached
<1>9. CASE ServerUpdate
  <2>. DEFINE C == ShutSessions
              V == IdsOf(C)
              u == [c \in Conns |-> IF c \in C THEN None ELSE stun[c]]
  <2>1. PICK order \in Orders(V) : pool' = pool \o order
    BY <1>9 DEF ServerUpdate
  <2>2. stun' = u /\ sess' = [c \in Conns |-> IF c \in C THEN "gone" ELSE sess[c]]
    BY <1>9 DEF ServerUpdate
  <2>3. V \in SUBSET Convs /\ C \in SUBSET Conns
    BY <1>t DEF IdsOf, ShutSessions
  <2>4. SessionsHoldIds'
    BY <1>t, <2>2 DEF SessionsHoldIds, ShutSessions
  <2>5. order \in Seq(Convs) /\ IsInjective(order) /\ Range(order) = {stun[c] : c \in C} \ {None}
    <3>. HIDE DEF V
    <3>1. order \in Seq(Convs) /\ IsInjective(order) /\ Range(order) = V
      BY <2>1, <2>3, OrdersAreSeqs
    <3>. QED  BY <3>1 DEF V, IdsOf
  <2>6. Partitions(pool \o order, u)
    <3>. HIDE DEF C
    <3>. QED  BY <1>t, <2>3, <2>5, RestoreIds
  <2>. QED  BY <2>1, <2>2, <2>4, <2>6 DEF Partitions
<1>10. CASE ServerCrash
  <2>1. pool' = InitPool /\ stun' = [c \in Conns |-> None]
    BY <1>10 DEF ServerCrash
  <2>. QED  BY <2>1, InitPoolFull, NoneIsNoConv DEF Partitions, SessionsHoldIds
<1>11. CASE UNCHANGED vars
  BY <1>11, <1>c DEF vars
<1>. QED
  BY <1>1, <1>2, <1>3, <1>4, <1>5, <1>6, <1>7, <1>8, <1>9, <1>10, <1>11
     DEF Next, ServerStep

\* No conversation id is ever lost, handed out twice or restored twice: the
\* pool and the server's tunnels always partition the ids, whatever sessions
\* are opened, refused, reset, timed out or restarted.
THEOREM ConvPartitionHolds == Spec => []ConvPartition
<1>1. ConvInv => ConvPartition
  BY DEF ConvInv
<1>. QED  BY ConvInit, ConvNext, <1>1, PTL DEF Spec

\* genNewId never returns the id of a registered tunnel, so createTunnel never
\* fails on the server because of a duplicate.
THEOREM NewIdIsFree == Spec => [](pool # <<>> => Head(pool) \notin ServerTunnels)
<1>1. ConvInv => (pool # <<>> => Head(pool) \notin ServerTunnels)
  <2>1. TypeOK /\ pool # <<>> /\ ConvPartition => Head(pool) \in Range(pool)
    BY TakeFirst DEF TypeOK, ConvPartition
  <2>. QED  BY <2>1 DEF ConvInv, ConvPartition
<1>. QED  BY ConvInit, ConvNext, <1>1, PTL DEF Spec

-----------------------------------------------------------------------------
(***************************************************************************)
(* The handshake of a tunnel: Create and Confirm, the two ends of a        *)
(* control connection, and the loss of either of them.                     *)
(***************************************************************************)

-----------------------------------------------------------------------------
(* The inductive invariant.  Besides the three properties of FastTunnel it *)
(* says who owns a connection and what may be in flight on it.             *)

\* No two bridges share a control connection.
OneOwner ==
  \A b, d \in Bridges : ext[b] = ext[d] /\ ext[b] # None => b = d

\* The connection of a bridge is not closed, and its bridge has not gone.
Linked ==
  \A b \in Bridges :
    ext[b] # None => Open(b) /\ cst[ext[b]] \in {"connecting", "connected"}

\* A bridge's tunnel came with a Create, hence after the session began.
Paired ==
  \A b \in Bridges :
    ctun[b] # None => ext[b] # None /\ cst[ext[b]] = "connected" /\ sess[ext[b]] # "none"

\* Nothing arrives on a connection that has not been accepted.
Fresh ==
  \A c \in Conns : /\ cst[c] = "unused" => sess[c] = "none"
                   /\ sess[c] = "none" => down[c] = <<>>

\* Only a session that holds a tunnel thinks it is up.
UpHolds == \A c \in Conns : sup[c] => stun[c] # None

\* Create is the first message on a connection; it carries the id of the
\* session, as long as there is one, to a bridge without a tunnel.
CreateFirst ==
  \A c \in Conns : \A i \in DOMAIN down[c] :
    down[c][i].type = "Create" =>
      /\ i = 1
      /\ Attached(c) => stun[c] = down[c][i].conv
      /\ \A b \in Bridges : ext[b] = c => ctun[b] = None

\* Confirm is in flight only from a client that has registered the tunnel.
ConfirmAfterCreate ==
  \A c \in Conns :
    Confirm \in Range(up[c]) =>
      cst[c] = "closed" \/ \E b \in Bridges : ext[b] = c /\ ctun[b] # None

Handshake ==
  /\ OneOwner /\ Linked /\ Paired /\ Fresh /\ SessionsHoldIds /\ UpHolds
  /\ CreateFirst /\ EndsAgree /\ ConfirmAfterCreate /\ ConfirmedMeansRegistered

HandshakeInv == TypeOK /\ Handshake

-----------------------------------------------------------------------------
(* Sequences of messages.                                                  *)

LEMMA KindsDiffer ==
  /\ Confirm # Fin /\ Fin.type # "Create" /\ Confirm.type # "Create"
  /\ \A v : Create(v) # Fin /\ Create(v) # Confirm
            /\ Create(v).type = "Create" /\ Create(v).conv = v
  BY DEF Confirm, Fin, Create

LEMMA AfterAppend ==
  ASSUME NEW S, NEW s \in Seq(S), NEW e \in S
  PROVE  /\ \A i \in DOMAIN Append(s, e) :
              \/ i \in DOMAIN s /\ Append(s, e)[i] = s[i]
              \/ i = Len(s) + 1 /\ Append(s, e)[i] = e
         /\ Range(Append(s, e)) = Range(s) \cup {e}
<1>1. /\ Append(s, e) \in Seq(S) /\ Len(Append(s, e)) = Len(s) + 1
      /\ \A i \in 1 .. Len(s) : Append(s, e)[i] = s[i]
      /\ Append(s, e)[Len(s) + 1] = e
  BY AppendProperties
<1>2. /\ Len(s) \in Nat /\ DOMAIN s = 1 .. Len(s)
      /\ DOMAIN Append(s, e) = 1 .. Len(s) + 1
  BY <1>1, LenProperties
<1>3. \A i \in 1 .. Len(s) + 1 : i \in 1 .. Len(s) \/ i = Len(s) + 1
  BY <1>2
<1>. QED  BY <1>1, <1>2, <1>3 DEF Range

LEMMA AfterTail ==
  ASSUME NEW S, NEW s \in Seq(S), s # <<>>
  PROVE  /\ Head(s) = s[1] /\ 1 \in DOMAIN s
         /\ \A i \in DOMAIN Tail(s) : i + 1 \in DOMAIN s /\ i + 1 # 1 /\ Tail(s)[i] = s[i + 1]
         /\ Range(Tail(s)) \subseteq Range(s)
         /\ Head(s) \in Range(s)
<1>1. /\ Tail(s) \in Seq(S) /\ Len(Tail(s)) = Len(s) - 1
      /\ \A i \in 1 .. Len(Tail(s)) : Tail(s)[i] = s[i + 1]
  BY HeadTailProperties
<1>2. /\ Len(s) \in Nat /\ Len(s) # 0 /\ DOMAIN s = 1 .. Len(s)
      /\ DOMAIN Tail(s) = 1 .. Len(s) - 1 /\ Head(s) = s[1]
  BY <1>1, LenProperties, EmptySeq
<1>. QED  BY <1>1, <1>2 DEF Range

-----------------------------------------------------------------------------
(* One lemma per kind of step.                                             *)

LEMMA HandshakeInit == Init => Handshake
<1>. SUFFICES ASSUME Init PROVE Handshake
  OBVIOUS
<1>1. \A c \in Conns : DOMAIN down[c] = {} /\ Range(up[c]) = {}
  BY DEF Init, Range
<1>. QED
  BY <1>1 DEF Init, Handshake, OneOwner, Linked, Paired, Fresh, SessionsHoldIds, UpHolds,
              CreateFirst, EndsAgree, ConfirmAfterCreate, ConfirmedMeansRegistered, Attached

\* The client closes its ends of the connections C of the bridges in B; one of
\* them, nb, may get a new connection.
ClientLeaves(B, C, told, nb, nx) ==
  /\ B \subseteq Bridges /\ nb \in B /\ nx \in Conns \cup {None}
  /\ C = {ext[b] : b \in B}
  /\ nx # None => cst[nx] = "unused" /\ Open(nb)'
  /\ \A b \in Bridges \ B : ext'[b] = ext[b] /\ ctun'[b] = ctun[b] /\ bridge'[b] = bridge[b]
  /\ \A b \in B : ctun'[b] = None /\ ext'[b] = IF b = nb THEN nx ELSE None
  /\ \A c \in Conns : cst'[c] = IF c \in C THEN "closed"
                                ELSE IF c = nx THEN "connecting" ELSE cst[c]
  /\ up' = UpAfterClose(C, told)
  /\ down' = DownAfterClose(C)
  /\ UNCHANGED <<stun, sup>>
  /\ \A c \in Conns : \/ sess'[c] = sess[c]
                      \/ c \in C /\ sess[c] = "none" /\ sess'[c] = "gone"

LEMMA ClientLeavesOk ==
  ASSUME HandshakeInv, NEW B, NEW C, NEW told, NEW nb, NEW nx,
         ClientLeaves(B, C, told, nb, nx)
  PROVE  Handshake'
<1>t. TypeOK /\ Handshake
  BY DEF HandshakeInv
<1>w. /\ B \subseteq Bridges /\ nb \in B /\ nx \in Conns \cup {None}
      /\ C = {ext[b] : b \in B} /\ UNCHANGED <<stun, sup>>
  BY DEF ClientLeaves
<1>d. \A c \in Conns : down'[c] = IF c \in C THEN <<>> ELSE down[c]
  BY DEF DownAfterClose, ClientLeaves
<1>u. \A c \in Conns : Confirm \in Range(up'[c]) => Confirm \in Range(up[c])
  <2>. SUFFICES ASSUME NEW c \in Conns PROVE Range(up'[c]) \subseteq Range(up[c]) \cup {Fin}
    BY KindsDiffer
  <2>1. up'[c] = up[c] \/ up'[c] = Append(up[c], Fin)
    BY DEF UpAfterClose, ClientLeaves
  <2>2. up[c] \in Seq(Msg) /\ Fin \in Msg
    BY <1>t DEF TypeOK, Msg
  <2>3. Range(Append(up[c], Fin)) = Range(up[c]) \cup {Fin}
    BY <2>2, AfterAppend
  <2>. QED  BY <2>1, <2>3
<1>c. \A c \in Conns : cst'[c] = IF c \in C THEN "closed" ELSE IF c = nx THEN "connecting" ELSE cst[c]
  BY DEF ClientLeaves
<1>s. \A c \in Conns : \/ sess'[c] = sess[c]
                       \/ c \in C /\ sess[c] = "none" /\ sess'[c] = "gone"
  BY DEF ClientLeaves
<1>o. nx # None => cst[nx] = "unused" /\ Open(nb)'
  BY DEF ClientLeaves
<1>f. nx \in Conns => sess[nx] = "none" /\ nx \notin C /\ \A b \in Bridges : ext[b] # nx
  BY <1>t, <1>w, <1>o, FastTunnelAssumption DEF Handshake, Linked, Fresh
<1>e. \A b \in Bridges \ B : ext[b] \in C => ext[b] = None
  BY <1>t, <1>w DEF Handshake, OneOwner
<1>a. \A c \in Conns : Attached(c)' = Attached(c)
  BY <1>t, <1>s, <1>w DEF Attached, Handshake, SessionsHoldIds
<1>x. \A b \in Bridges : \/ b \in B /\ ext'[b] = None
                         \/ b = nb /\ ext'[b] = nx
                         \/ b \notin B /\ ext'[b] = ext[b] /\ ctun'[b] = ctun[b]
                            /\ bridge'[b] = bridge[b]
  BY DEF ClientLeaves
<1>n. \A b \in B : ctun'[b] = None
  BY DEF ClientLeaves
<1>y. \A b \in Bridges : ext[b] \in Conns \cup {None}
  BY <1>t DEF TypeOK
<1>1. OneOwner'
  BY <1>t, <1>f, <1>x, <1>y DEF OneOwner, Handshake
<1>2. Linked'
  <2>. SUFFICES ASSUME NEW b \in Bridges, ext'[b] # None
                PROVE  Open(b)' /\ cst'[ext'[b]] \in {"connecting", "connected"}
    BY DEF Linked
  <2>1. CASE b = nb /\ ext'[b] = nx
    BY <2>1, <1>c, <1>f, <1>o, <1>w
  <2>2. CASE b \notin B /\ ext'[b] = ext[b] /\ bridge'[b] = bridge[b]
    BY <2>2, <1>t, <1>c, <1>e, <1>y DEF Handshake, Linked, Open
  <2>. QED  BY <1>x, <2>1, <2>2
<1>3. Paired'
  <2>. SUFFICES ASSUME NEW b \in Bridges, ctun'[b] # None
                PROVE  /\ ext'[b] # None /\ cst'[ext'[b]] = "connected"
                       /\ sess'[ext'[b]] # "none"
    BY DEF Paired
  <2>1. b \notin B /\ ext'[b] = ext[b] /\ ctun'[b] = ctun[b]
    BY <1>n, <1>w DEF ClientLeaves
  <2>2. /\ ext[b] # None /\ cst[ext[b]] = "connected" /\ sess[ext[b]] # "none"
        /\ ext[b] \in Conns
    BY <1>t, <1>y, <2>1 DEF Paired, Handshake
  <2>3. ext[b] \notin C
    BY <1>e, <2>1, <2>2
  <2>4. ext[b] # nx
    BY <1>o, <2>2, FastTunnelAssumption
  <2>. QED  BY <1>c, <1>s, <2>1, <2>2, <2>3, <2>4
<1>4. Fresh'
  BY <1>t, <1>d, <1>c, <1>s, <1>f DEF Fresh, Handshake
<1>5. SessionsHoldIds' /\ UpHolds'
  BY <1>t, <1>s, <1>w DEF SessionsHoldIds, UpHolds, Handshake
<1>6. CreateFirst'
  <2>. SUFFICES ASSUME NEW c \in Conns, NEW i \in DOMAIN down'[c], down'[c][i].type = "Create"
                PROVE  /\ i = 1
                       /\ Attached(c)' => stun'[c] = down'[c][i].conv
                       /\ \A b \in Bridges : ext'[b] = c => ctun'[b] = None
    BY DEF CreateFirst
  <2>1. c \notin C /\ down'[c] = down[c]
    BY <1>d
  <2>. QED  BY <2>1, <1>t, <1>a, <1>x, <1>n, <1>w DEF CreateFirst, Handshake
<1>7. EndsAgree'
  BY <1>t, <1>x, <1>n, <1>a, <1>y, <1>w DEF EndsAgree, Handshake
<1>8. ConfirmAfterCreate'
  <2>. SUFFICES ASSUME NEW c \in Conns, Confirm \in Range(up'[c]), cst'[c] # "closed"
                PROVE  \E b \in Bridges : ext'[b] = c /\ ctun'[b] # None
    BY DEF ConfirmAfterCreate
  <2>1. c \notin C /\ Confirm \in Range(up[c])
    BY <1>u, <1>c
  <2>2. CASE cst[c] = "closed"
    BY <2>1, <2>2, <1>c, <1>o, FastTunnelAssumption
  <2>3. CASE \E b \in Bridges : ext[b] = c /\ ctun[b] # None
    BY <2>1, <2>3, <1>x, <1>w
  <2>. QED  BY <2>1, <2>2, <2>3, <1>t DEF ConfirmAfterCreate, Handshake
<1>9. ConfirmedMeansRegistered'
  <2>. SUFFICES ASSUME NEW c \in Conns, sup'[c], cst'[c] # "closed"
                PROVE  \E b \in Bridges : ext'[b] = c /\ ctun'[b] = stun'[c]
    BY DEF ConfirmedMeansRegistered
  <2>1. sup[c] /\ stun'[c] = stun[c]
    BY <1>w
  <2>4. c \notin C /\ cst[c] # "closed"
    BY <1>c, <1>o, FastTunnelAssumption
  <2>2. PICK b \in Bridges : ext[b] = c /\ ctun[b] = stun[c]
    BY <2>1, <2>4, <1>t DEF ConfirmedMeansRegistered, Handshake
  <2>3. b \notin B
    BY <2>4, <2>2, <1>w
  <2>. QED  BY <1>x, <1>w, <2>1, <2>2, <2>3
<1>. QED
  BY <1>1, <1>2, <1>3, <1>4, <1>5, <1>6, <1>7, <1>8, <1>9 DEF Handshake

-----------------------------------------------------------------------------
\* The server closes its ends of the connections in C, whose sessions may have
\* ended before; the others stay as they are.
ServerLeaves(C) ==
  /\ C \subseteq Conns /\ UNCHANGED clientVars
  /\ \A c \in Conns \ C : /\ sess'[c] = sess[c] /\ stun'[c] = stun[c] /\ sup'[c] = sup[c]
                          /\ up'[c] = up[c] /\ down'[c] = down[c]
  /\ \A c \in C : /\ stun'[c] = None /\ ~sup'[c] /\ (up'[c] = <<>> \/ up'[c] = up[c])
                  /\ cst[c] = "unused" <=> sess'[c] = "none"
                  /\ \/ down'[c] = down[c]
                     \/ sess'[c] # "none" /\ down'[c] = Append(down[c], Fin)

LEMMA ServerLeavesOk ==
  ASSUME HandshakeInv, NEW C, ServerLeaves(C)
  PROVE  Handshake'
<1>t. TypeOK /\ Handshake
  BY DEF HandshakeInv
<1>v. C \subseteq Conns /\ UNCHANGED <<bridge, ext, ctun, cst>>
  BY DEF ServerLeaves, clientVars
<1>k. \A c \in Conns \ C : /\ sess'[c] = sess[c] /\ stun'[c] = stun[c] /\ sup'[c] = sup[c]
                           /\ up'[c] = up[c] /\ down'[c] = down[c]
  BY DEF ServerLeaves
<1>c. \A c \in C : /\ stun'[c] = None /\ ~sup'[c]
                   /\ (Range(up'[c]) = {} \/ up'[c] = up[c])
                   /\ cst[c] = "unused" <=> sess'[c] = "none"
  BY DEF ServerLeaves, Range
<1>d. \A c \in C : \/ down'[c] = down[c]
                   \/ sess'[c] # "none" /\ down'[c] = Append(down[c], Fin)
  BY DEF ServerLeaves
<1>a. \A c \in Conns : Attached(c)' => c \notin C /\ Attached(c) /\ stun'[c] = stun[c]
  BY <1>k, <1>c DEF Attached
<1>1. OneOwner' /\ Linked'
  BY <1>t, <1>v DEF OneOwner, Linked, Open, Handshake
<1>2. Paired'
  <2>. SUFFICES ASSUME NEW b \in Bridges, ctun[b] # None
                PROVE  /\ ext[b] # None /\ cst[ext[b]] = "connected"
                       /\ sess'[ext[b]] # "none"
    BY <1>v DEF Paired
  <2>. DEFINE c == ext[b]
  <2>1. c # None /\ cst[c] = "connected" /\ sess[c] # "none"
    BY <1>t DEF Paired, Handshake
  <2>2. c \in Conns /\ cst[c] # "unused"
    <3>1. c \in Conns
      BY <1>t, <2>1 DEF TypeOK
    <3>2. cst[c] \in {"connecting", "connected"}
      BY <1>t, <2>1 DEF Linked, Handshake
    <3>. QED  BY <3>1, <3>2
  <2>. HIDE DEF c
  <2>3. sess'[c] # "none"
    BY <2>1, <2>2, <1>k, <1>c
  <2>. QED  BY <2>1, <2>3 DEF c
<1>3. Fresh'
  BY <1>t, <1>v, <1>k, <1>c, <1>d DEF Fresh, Handshake
<1>4. SessionsHoldIds' /\ UpHolds'
  BY <1>t, <1>k, <1>c DEF SessionsHoldIds, UpHolds, Handshake
<1>5. CreateFirst'
  <2>. SUFFICES ASSUME NEW c \in Conns, NEW i \in DOMAIN down'[c], down'[c][i].type = "Create"
                PROVE  /\ i = 1
                       /\ Attached(c)' => stun'[c] = down'[c][i].conv
                       /\ \A b \in Bridges : ext'[b] = c => ctun'[b] = None
    BY DEF CreateFirst
  <2>1. i \in DOMAIN down[c] /\ down[c][i] = down'[c][i]
    <3>1. CASE down'[c] = Append(down[c], Fin)
      <4>1. down[c] \in Seq(Msg) /\ Fin \in Msg
        BY <1>t DEF TypeOK, Msg
      <4>. QED  BY <4>1, <3>1, AfterAppend, KindsDiffer
    <3>2. CASE down'[c] = down[c]
      BY <3>2
    <3>. QED  BY <3>1, <3>2, <1>k, <1>d
  <2>. QED  BY <2>1, <1>t, <1>a, <1>v DEF CreateFirst, Handshake
<1>6. EndsAgree'
  BY <1>t, <1>a, <1>v DEF EndsAgree, Handshake, TypeOK
<1>7. ConfirmAfterCreate'
  BY <1>t, <1>v, <1>k, <1>c DEF ConfirmAfterCreate, Handshake
<1>8. ConfirmedMeansRegistered'
  BY <1>t, <1>v, <1>k, <1>c DEF ConfirmedMeansRegistered, Handshake
<1>. QED
  BY <1>1, <1>2, <1>3, <1>4, <1>5, <1>6, <1>7, <1>8 DEF Handshake

-----------------------------------------------------------------------------
\* The server accepts connection c: it takes an id, or puts it back and closes.
ServerOpens(c, v) ==
  /\ UNCHANGED <<clientVars, sup>> /\ c \in Conns /\ InBacklog(c) /\ v \in Convs
  /\ \/ /\ sess' = [sess EXCEPT ![c] = "live"] /\ stun' = [stun EXCEPT ![c] = v]
        /\ up' = up /\ down' = Send(c, <<Create(v)>>)
     \/ /\ sess' = [sess EXCEPT ![c] = "gone"] /\ stun' = stun
        /\ up' = [up EXCEPT ![c] = <<>>]
        /\ \E msgs \in {<<Fin>>, <<Create(v), Fin>>} : down' = Send(c, msgs)

LEMMA ServerOpensOk ==
  ASSUME HandshakeInv, NEW c, NEW v, ServerOpens(c, v)
  PROVE  Handshake'
<1>t. TypeOK /\ Handshake
  BY DEF HandshakeInv
<1>v. c \in Conns /\ v \in Convs /\ UNCHANGED <<bridge, ext, ctun, cst, sup>>
  BY DEF ServerOpens, clientVars
<1>c. /\ cst[c] # "unused" /\ sess[c] = "none" /\ down[c] = <<>> /\ stun[c] = None /\ ~sup[c]
      /\ \A b \in Bridges : ext[b] = c => ctun[b] = None
  BY <1>t, <1>v DEF ServerOpens, InBacklog, Handshake, Fresh, SessionsHoldIds, UpHolds, Paired
<1>s. \A d \in Conns : d # c => /\ sess'[d] = sess[d] /\ stun'[d] = stun[d]
                                /\ up'[d] = up[d] /\ down'[d] = down[d]
  BY <1>t, <1>v DEF ServerOpens, Send, TypeOK
<1>e. sess'[c] # "none" /\ (Attached(c)' => stun'[c] = v /\ sess'[c] = "live")
      /\ (stun'[c] # None => sess'[c] = "live")
  BY <1>t, <1>v, <1>c DEF ServerOpens, TypeOK, Attached
<1>u. Confirm \notin Range(up'[c]) \/ up' = up
  BY <1>t, <1>v DEF ServerOpens, TypeOK, Range
<1>d. \A i \in DOMAIN down'[c] :
        down'[c][i].type = "Create" => i = 1 /\ down'[c][i].conv = v
  <2>. DEFINE all == {<<Create(v)>>, <<Fin>>, <<Create(v), Fin>>}
  <2>1. PICK msgs \in all : down'[c] = IF cst[c] = "closed" THEN <<>> ELSE msgs
    <3>1. PICK msgs \in all : down' = Send(c, msgs)
      BY DEF ServerOpens
    <3>2. msgs \in Seq(Msg)
      <4>1. Create(v) \in Msg /\ Fin \in Msg
        BY <1>v DEF Msg
      <4>2. <<Create(v)>> \in Seq(Msg) /\ <<Fin>> \in Seq(Msg) /\ <<Create(v), Fin>> \in Seq(Msg)
        BY <4>1
      <4>. QED  BY <4>2
    <3>. QED  BY <1>t, <1>v, <1>c, <3>1, <3>2, ConcatEmptySeq DEF Send, TypeOK
  <2>. QED  BY <2>1, KindsDiffer
<1>1. OneOwner' /\ Linked'
  BY <1>t, <1>v DEF OneOwner, Linked, Open, Handshake
<1>2. Paired'
  BY <1>t, <1>v, <1>s, <1>e DEF Paired, Handshake, TypeOK
<1>3. Fresh'
  BY <1>t, <1>v, <1>s, <1>e, <1>c DEF Fresh, Handshake
<1>4. SessionsHoldIds' /\ UpHolds'
  BY <1>t, <1>v, <1>s, <1>e, <1>c DEF SessionsHoldIds, UpHolds, Handshake
<1>5. CreateFirst'
  BY <1>t, <1>v, <1>s, <1>e, <1>c, <1>d DEF CreateFirst, Attached, Handshake
<1>6. EndsAgree'
  BY <1>t, <1>v, <1>s, <1>c DEF EndsAgree, Attached, Handshake, TypeOK
<1>7. ConfirmAfterCreate'
  BY <1>t, <1>v, <1>s, <1>u DEF ConfirmAfterCreate, Handshake
<1>8. ConfirmedMeansRegistered'
  BY <1>t, <1>v, <1>s, <1>c DEF ConfirmedMeansRegistered, Handshake
<1>. QED
  BY <1>1, <1>2, <1>3, <1>4, <1>5, <1>6, <1>7, <1>8 DEF Handshake

-----------------------------------------------------------------------------
(* The steps.                                                              *)

LEMMA HandshakeNext == HandshakeInv /\ [Next]_vars => Handshake'
<1>. SUFFICES ASSUME HandshakeInv, [Next]_vars PROVE Handshake'
  OBVIOUS
<1>t. TypeOK /\ Handshake /\ TypeOK'
  BY TypeNext DEF HandshakeInv
<1>m. /\ Confirm \in Msg /\ Fin \in Msg
      /\ \A c \in Conns : down[c] \in Seq(Msg) /\ up[c] \in Seq(Msg)
  BY <1>t DEF TypeOK, Msg
<1>u. ASSUME UNCHANGED <<bridge, ext, ctun, cst, sess, stun, sup, up, down>>
      PROVE  Handshake'
  BY <1>t, <1>u DEF Handshake, OneOwner, Linked, Open, Paired, Fresh, SessionsHoldIds,
     UpHolds, CreateFirst, Attached, EndsAgree, ConfirmAfterCreate, ConfirmedMeansRegistered
<1>r. ASSUME NEW b \in Bridges, NEW told, NEW n, DropAndReconnect(b, told, n), Open(b),
             UNCHANGED <<stun, sup>>,
             \/ sess' = sess
             \/ sess[ext[b]] = "none" /\ sess' = [sess EXCEPT ![ext[b]] = "gone"]
      PROVE  Handshake'
  <2>1. PICK new \in NextConn : /\ ext' = [ext EXCEPT ![b] = new]
                                /\ cst' = CstAfter(ext[b], new)
    BY <1>r DEF DropAndReconnect, NextConn
  <2>2. new \in Conns \cup {None} /\ (new # None => cst[new] = "unused")
    BY <2>1 DEF NextConn, Unused
  <2>3. {ext[d] : d \in {b}} = {ext[b]}
    OBVIOUS
  <2>4. up' = UpAfterClose({ext[b]}, told) /\ down' = DownAfterClose({ext[b]})
    BY <1>r DEF DropAndReconnect
  <2>5. /\ \A d \in Bridges \ {b} :
             ext'[d] = ext[d] /\ ctun'[d] = ctun[d] /\ bridge'[d] = bridge[d]
        /\ \A d \in {b} : ctun'[d] = None /\ ext'[d] = IF d = b THEN new ELSE None
    BY <1>r, <1>t, <2>1 DEF DropAndReconnect, ReleaseClientTunnel, TypeOK
  <2>6. \A c \in Conns : cst'[c] = IF c \in {ext[b]} THEN "closed"
                                   ELSE IF c = new THEN "connecting" ELSE cst[c]
    BY <2>1 DEF CstAfter
  <2>7. \A c \in Conns : \/ sess'[c] = sess[c]
                         \/ c \in {ext[b]} /\ sess[c] = "none" /\ sess'[c] = "gone"
    BY <1>r, <1>t DEF TypeOK
  <2>8. Open(b)'
    BY <1>r DEF DropAndReconnect, Open
  <2>9. ClientLeaves({b}, {ext[b]}, told, b, new)
    BY <1>r, <2>2, <2>3, <2>4, <2>5, <2>6, <2>7, <2>8 DEF ClientLeaves
  <2>. QED  BY <2>9, ClientLeavesOk
<1>b. ASSUME NEW B \in SUBSET Bridges, NEW told, DropBridges(B, told) PROVE Handshake'
  <2>. DEFINE C == {ext[b] : b \in B}
  <2>0. C = {ext[b] : b \in B}
    OBVIOUS
  <2>1. /\ up' = UpAfterClose(C, told) /\ down' = DownAfterClose(C)
        /\ cst' = [c \in Conns |-> IF c \in C THEN "closed" ELSE cst[c]]
        /\ UNCHANGED <<sess, stun, sup>>
    BY <1>b DEF DropBridges, serverVars
  <2>2. /\ \A d \in Bridges \ B :
             ext'[d] = ext[d] /\ ctun'[d] = ctun[d] /\ bridge'[d] = bridge[d]
        /\ \A d \in B : ctun'[d] = None /\ ext'[d] = None
    BY <1>b DEF DropBridges
  <2>. HIDE DEF C
  <2>3. CASE B # {}
    <3>1. PICK nb \in B : TRUE
      BY <2>3
    <3>2. ClientLeaves(B, C, told, nb, None)
      BY <2>0, <2>1, <2>2, FastTunnelAssumption DEF ClientLeaves
    <3>. QED  BY <3>2, ClientLeavesOk
  <2>4. CASE B = {}
    <3>1. C = {}
      BY <2>0, <2>4
    <3>2. /\ \A d \in Bridges : ext'[d] = ext[d] /\ ctun'[d] = ctun[d] /\ bridge'[d] = bridge[d]
      BY <2>2, <2>4
    <3>3. up' = up /\ down' = down /\ cst' = cst /\ ext' = ext /\ ctun' = ctun
          /\ bridge' = bridge
      BY <1>t, <2>1, <3>1, <3>2 DEF UpAfterClose, DownAfterClose, TypeOK
    <3>. QED  BY <2>1, <3>3, <1>u
  <2>. QED  BY <2>3, <2>4
<1>o. ASSUME NEW c \in Conns, NEW told, ServerDrops(c, told), Attached(c) PROVE Handshake'
  <2>1. cst[c] # "unused"
    BY <1>t, <1>o DEF Attached, Handshake, Fresh
  <2>2. down'[c] = down[c] \/ down'[c] = Append(down[c], Fin)
    <3>1. down[c] \o <<Fin>> = Append(down[c], Fin)
      BY <1>m, AppendIsConcat
    <3>. QED  BY <1>t, <1>o, <3>1 DEF ServerDrops, Send, TypeOK
  <2>3. \A d \in Conns \ {c} : down'[d] = down[d]
    BY <1>t, <1>o DEF ServerDrops, Send, TypeOK
  <2>4. /\ UNCHANGED clientVars
        /\ sess'[c] = "shut" /\ stun'[c] = None /\ ~sup'[c] /\ up'[c] = <<>>
        /\ \A d \in Conns \ {c} : /\ sess'[d] = sess[d] /\ stun'[d] = stun[d]
                                  /\ sup'[d] = sup[d] /\ up'[d] = up[d]
    BY <1>t, <1>o DEF ServerDrops, ReleaseTunnel, TypeOK
  <2>5. ServerLeaves({c})
    BY <2>1, <2>2, <2>3, <2>4 DEF ServerLeaves
  <2>. QED  BY <2>5, ServerLeavesOk
<1>1. ASSUME NEW b \in Bridges, ConnectDone(b) PROVE Handshake'
  <2>1. /\ UNCHANGED <<bridge, ext, ctun, sess, stun, sup, up, down>>
        /\ ext[b] \in Conns /\ cst[ext[b]] = "connecting"
        /\ \A c \in Conns : cst'[c] = IF c = ext[b] THEN "connected" ELSE cst[c]
    BY <1>1, <1>t DEF ConnectDone, TypeOK, clientVars, serverVars, netVars
  <2>2. Linked' /\ Fresh'
    BY <1>t, <2>1, FastTunnelAssumption DEF Handshake, Linked, Fresh, Open, TypeOK
  <2>3. ConfirmAfterCreate' /\ ConfirmedMeansRegistered'
    BY <1>t, <2>1 DEF Handshake, ConfirmAfterCreate, ConfirmedMeansRegistered
  <2>4. Paired'
    <3>1. ASSUME NEW d \in Bridges, ctun[d] # None
          PROVE  ext[d] # None /\ cst'[ext[d]] = "connected" /\ sess[ext[d]] # "none"
      <4>1. /\ ext[d] # None /\ cst[ext[d]] = "connected" /\ sess[ext[d]] # "none"
            /\ ext[d] \in Conns
        BY <1>t, <3>1 DEF Handshake, Paired, TypeOK
      <4>. QED  BY <2>1, <4>1
    <3>. QED  BY <2>1, <3>1 DEF Paired
  <2>. QED  BY <1>t, <2>1, <2>2, <2>3, <2>4 DEF Handshake, OneOwner, SessionsHoldIds,
            UpHolds, CreateFirst, Attached, EndsAgree
<1>2. ASSUME NEW b \in Bridges, ClientRecvCreate(b) PROVE Handshake'
  <2>. DEFINE c == ext[b]
              m == Head(down[c])
  <2>1. /\ c \in Conns /\ c # None /\ cst[c] = "connected" /\ down[c] # <<>>
        /\ UNCHANGED <<bridge, ext, cst, sess, stun, sup>>
    BY <1>2, <1>t DEF ClientRecvCreate, ClientHears, TypeOK, serverVars
  <2>2. /\ m.type = "Create" /\ m \in Msg
        /\ m = down[c][1] /\ 1 \in DOMAIN down[c]
    BY <1>2, <1>m, <2>1, AfterTail, HeadTailProperties DEF ClientRecvCreate
  <2>3. /\ m.conv \in Convs /\ (Attached(c) => stun[c] = m.conv)
        /\ \A d \in Bridges : ext[d] = c => d = b /\ ctun[d] = None
        /\ sess[c] # "none"
    BY <1>t, <2>1, <2>2, KindsDiffer DEF Handshake, CreateFirst, OneOwner, Fresh, Msg
  <2>4. \A d \in Bridges : ctun'[d] = IF d = b THEN m.conv ELSE ctun[d]
    BY <1>2, <1>t DEF ClientRecvCreate, TypeOK
  <2>5. \A d \in Conns : down'[d] = IF d = c THEN Tail(down[d]) ELSE down[d]
    BY <1>2, <1>t DEF ClientRecvCreate, TypeOK
  <2>6. \A d \in Conns : Range(up'[d]) = Range(up[d])
                         \/ (d = c /\ Range(up'[d]) = Range(up[d]) \cup {Confirm})
    <3>1. ASSUME NEW d \in Conns PROVE Range(Append(up[d], Confirm)) = Range(up[d]) \cup {Confirm}
      BY <1>m, AfterAppend
    <3>2. up' = up \/ up' = [up EXCEPT ![c] = Append(up[c], Confirm)]
      BY <1>2 DEF ClientRecvCreate
    <3>3. up \in [Conns -> Seq(Msg)]
      BY <1>t DEF TypeOK
    <3>. HIDE DEF c, m
    <3>4. \A d \in Conns : up'[d] = up[d] \/ (d = c /\ up'[d] = Append(up[d], Confirm))
      BY <2>1, <3>2, <3>3
    <3>. QED  BY <3>1, <3>4
  <2>7. m.conv # None
    BY <2>3, NoneIsNoConv
  <2>8. ext[b] = c /\ ctun'[b] = m.conv
    BY <2>4
  <2>. HIDE DEF c, m
  <2>9. \A d \in Conns : \A i \in DOMAIN down'[d] :
          down'[d][i].type = "Create" => d # c /\ down'[d] = down[d]
    <3>1. \A i \in DOMAIN Tail(down[c]) : Tail(down[c])[i].type # "Create"
      BY <1>t, <1>m, <2>1, AfterTail DEF Handshake, CreateFirst
    <3>. QED  BY <3>1, <2>5
  <2>10. OneOwner' /\ Linked' /\ UpHolds' /\ SessionsHoldIds'
    BY <1>t, <2>1 DEF Handshake, OneOwner, Linked, Open, UpHolds, SessionsHoldIds
  <2>11. Paired'
    BY <1>t, <2>1, <2>3, <2>4, <2>8 DEF Handshake, Paired
  <2>12. Fresh'
    BY <1>t, <2>1, <2>3, <2>5 DEF Handshake, Fresh
  <2>13. CreateFirst'
    BY <1>t, <2>1, <2>4, <2>8, <2>9 DEF Handshake, CreateFirst, Attached
  <2>14. EndsAgree'
    BY <1>t, <2>1, <2>3, <2>4, <2>8 DEF Handshake, EndsAgree, Attached
  <2>15. ConfirmAfterCreate'
    <3>. SUFFICES ASSUME NEW d \in Conns, Confirm \in Range(up'[d]), cst[d] # "closed"
                  PROVE  \E e \in Bridges : ext[e] = d /\ ctun'[e] # None
      BY <2>1 DEF ConfirmAfterCreate
    <3>1. CASE d = c
      BY <3>1, <2>7, <2>8
    <3>2. CASE d # c
      BY <3>2, <1>t, <2>4, <2>6, <2>8 DEF Handshake, ConfirmAfterCreate
    <3>. QED  BY <3>1, <3>2
  <2>16. ConfirmedMeansRegistered'
    <3>. SUFFICES ASSUME NEW d \in Conns, sup[d], cst[d] # "closed"
                  PROVE  \E e \in Bridges : ext[e] = d /\ ctun'[e] = stun[d]
      BY <2>1 DEF ConfirmedMeansRegistered
    <3>1. stun[d] # None /\ \E e \in Bridges : ext[e] = d /\ ctun[e] = stun[d]
      BY <1>t DEF Handshake, UpHolds, ConfirmedMeansRegistered
    <3>. QED  BY <3>1, <2>3, <2>4, <2>8
  <2>. QED  BY <2>10, <2>11, <2>12, <2>13, <2>14, <2>15, <2>16 DEF Handshake
<1>3. ASSUME NEW b \in Bridges, ClientRecvDuplicate(b) PROVE Handshake'
  <2>1. /\ ext[b] \in Conns /\ down[ext[b]] # <<>> /\ Open(b) /\ UNCHANGED serverVars
    BY <1>3, <1>t DEF ClientRecvDuplicate, ClientHears, TypeOK
  <2>2. CASE cool[b]
    BY <1>3, <2>1, <2>2, <1>r DEF ClientRecvDuplicate, serverVars
  <2>3. CASE ~cool[b]
    <3>1. /\ UNCHANGED <<bridge, ext, ctun, cst, sess, stun, sup, up>>
          /\ down' = [down EXCEPT ![ext[b]] = Tail(@)]
      BY <1>3, <2>3 DEF ClientRecvDuplicate, clientVars, serverVars
    <3>2. \A d \in Conns : down'[d] = IF d = ext[b] THEN Tail(down[d]) ELSE down[d]
      BY <1>t, <3>1 DEF TypeOK
    <3>3. \A i \in DOMAIN Tail(down[ext[b]]) : Tail(down[ext[b]])[i].type # "Create"
      BY <1>t, <1>m, <2>1, AfterTail DEF Handshake, CreateFirst
    <3>4. CreateFirst'
      BY <1>t, <3>1, <3>2, <3>3 DEF Handshake, CreateFirst, Attached
    <3>5. Fresh'
      BY <1>t, <2>1, <3>1, <3>2 DEF Handshake, Fresh
    <3>. QED
      BY <1>t, <3>1, <3>4, <3>5 DEF Handshake, OneOwner, Linked, Open, Paired,
         SessionsHoldIds, UpHolds, Attached, EndsAgree, ConfirmAfterCreate, ConfirmedMeansRegistered
  <2>. QED  BY <2>2, <2>3
<1>4. ASSUME NEW b \in Bridges, ClientRecvFin(b) \/ RetryOnData(b) PROVE Handshake'
  <2>1. Open(b) /\ UNCHANGED serverVars
    BY <1>4 DEF ClientRecvFin, ClientHears, RetryOnData, RetryDue, Open
  <2>2. PICK n \in {0, 1} : DropAndReconnect(b, TRUE, n)
    BY <1>4 DEF ClientRecvFin, RetryOnData
  <2>. QED  BY <1>r, <2>1, <2>2 DEF serverVars
<1>5. ASSUME NEW b \in Bridges, ClientError(b) PROVE Handshake'
  <2>1. PICK told \in Told : DropAndReconnect(b, told, 1)
    BY <1>5 DEF ClientError
  <2>. QED  BY <1>r, <1>5, <2>1 DEF ClientError
<1>6. ASSUME NEW b \in Bridges, CoolDown(b) PROVE Handshake'
  BY <1>6, <1>u DEF CoolDown, serverVars, netVars
<1>7. ASSUME NEW b \in Bridges, LocalClose(b) PROVE Handshake'
  <2>1. /\ UNCHANGED <<ext, ctun, cst, sess, stun, sup, up, down>>
        /\ \A d \in Bridges : Open(d) => Open(d)'
    BY <1>7, <1>t DEF LocalClose, serverVars, netVars, TypeOK, Open
  <2>. QED
    BY <1>t, <2>1 DEF Handshake, OneOwner, Linked, Paired, Fresh, SessionsHoldIds, UpHolds,
       CreateFirst, Attached, EndsAgree, ConfirmAfterCreate, ConfirmedMeansRegistered
<1>8. ASSUME NEW b \in Bridges, AcceptLocal(b) PROVE Handshake'
  <2>1. ext[b] = None
    BY <1>8, <1>t DEF AcceptLocal, Handshake, Linked, Open
  <2>2. PICK new \in NextConn :
          /\ ext' = [ext EXCEPT ![b] = new]
          /\ cst' = CstAfter(None, new)
          /\ bridge' = [bridge EXCEPT ![b] = IF new = None THEN "gone" ELSE "live"]
    BY <1>8 DEF AcceptLocal
  <2>3. new \in Conns \cup {None} /\ (new # None => cst[new] = "unused" /\ Open(b)')
    BY <1>t, <2>2 DEF NextConn, Unused, Open, TypeOK
  <2>4. {ext[d] : d \in {b}} = {None}
    BY <2>1
  <2>5. ctun[b] = None /\ UNCHANGED <<ctun, sess, stun, sup, up, down>>
    BY <1>8, <1>t, <2>1 DEF AcceptLocal, serverVars, netVars, Handshake, Paired
  <2>6. up' = UpAfterClose({None}, TRUE) /\ down' = DownAfterClose({None})
    BY <1>t, <2>5, FastTunnelAssumption DEF UpAfterClose, DownAfterClose, TypeOK
  <2>7. /\ \A d \in Bridges \ {b} :
             ext'[d] = ext[d] /\ ctun'[d] = ctun[d] /\ bridge'[d] = bridge[d]
        /\ \A d \in {b} : ctun'[d] = None /\ ext'[d] = IF d = b THEN new ELSE None
    BY <1>t, <2>2, <2>5 DEF TypeOK
  <2>8. \A c \in Conns : cst'[c] = IF c \in {None} THEN "closed"
                                   ELSE IF c = new THEN "connecting" ELSE cst[c]
    BY <2>2 DEF CstAfter
  <2>9. ClientLeaves({b}, {None}, TRUE, b, new)
    BY <2>3, <2>4, <2>5, <2>6, <2>7, <2>8 DEF ClientLeaves
  <2>. QED  BY <2>9, ClientLeavesOk
<1>9. CASE ClientUpdate
  BY <1>9, <1>b DEF ClientUpdate
<1>10. CASE ClientCrash
  <2>1. PICK told \in Told : DropBridges({b \in Bridges : Open(b)}, told)
    BY <1>10 DEF ClientCrash
  <2>2. {b \in Bridges : Open(b)} \in SUBSET Bridges
    OBVIOUS
  <2>. QED  BY <1>b, <2>1, <2>2
<1>11. ASSUME NEW c \in Conns, Accept(c) \/ AcceptAborted(c) PROVE Handshake'
  <2>1. Head(pool) \in Convs
    BY <1>11, <1>t, HeadTailProperties DEF Accept, AcceptAborted, TypeOK
  <2>2. ServerOpens(c, Head(pool))
    BY <1>11, <2>1 DEF Accept, AcceptAborted, ServerOpens
  <2>. QED  BY <2>2, ServerOpensOk
<1>12. ASSUME NEW c \in Conns, AcceptZombie(c) \/ AcceptLeaks(c) PROVE Handshake'
  <2>1. stun[c] = None /\ ~sup[c] /\ cst[c] # "unused"
    BY <1>12, <1>t DEF AcceptZombie, AcceptLeaks, InBacklog, Handshake, SessionsHoldIds, UpHolds
  <2>2. ServerLeaves({c})
    BY <1>12, <1>t, <2>1 DEF AcceptZombie, AcceptLeaks, ServerLeaves, TypeOK, netVars
  <2>. QED  BY <2>2, ServerLeavesOk
<1>13. ASSUME NEW c \in Conns, ServerRecvConfirm(c) PROVE Handshake'
  <2>1. /\ UNCHANGED <<bridge, ext, ctun, cst, sess, stun, down>> /\ Attached(c)
        /\ up[c] # <<>> /\ Head(up[c]) = Confirm
    BY <1>13 DEF ServerRecvConfirm, clientVars
  <2>2. \A d \in Conns : /\ sup'[d] = (sup[d] \/ d = c)
                         /\ up'[d] = IF d = c THEN Tail(up[d]) ELSE up[d]
    BY <1>13, <1>t DEF ServerRecvConfirm, TypeOK
  <2>3. Confirm \in Range(up[c]) /\ Range(Tail(up[c])) \subseteq Range(up[c])
    BY <1>m, <2>1, AfterTail
  <2>4. UpHolds'
    BY <1>t, <2>1, <2>2 DEF Handshake, UpHolds, Attached
  <2>5. ConfirmAfterCreate'
    BY <1>t, <2>1, <2>2, <2>3 DEF Handshake, ConfirmAfterCreate
  <2>6. cst[c] = "closed" \/ \E b \in Bridges : ext[b] = c /\ ctun[b] = stun[c]
    <3>1. CASE \E b \in Bridges : ext[b] = c /\ ctun[b] # None
      BY <3>1, <1>t, <2>1, FastTunnelAssumption DEF Handshake, EndsAgree
    <3>. QED  BY <3>1, <1>t, <2>3 DEF Handshake, ConfirmAfterCreate
  <2>7. ConfirmedMeansRegistered'
    BY <1>t, <2>1, <2>2, <2>6, ZenonT(60) DEF Handshake, ConfirmedMeansRegistered
  <2>. QED
    BY <1>t, <2>1, <2>4, <2>5, <2>7 DEF Handshake, OneOwner, Linked, Open, Paired, Fresh,
       SessionsHoldIds, CreateFirst, Attached, EndsAgree
<1>14. ASSUME NEW c \in Conns, ServerRecvFin(c) \/ ServerError(c) PROVE Handshake'
  BY <1>14, <1>o DEF ServerRecvFin, ServerError
<1>15. ASSUME NEW c \in Conns, Heartbeat(c) PROVE Handshake'
  BY <1>15, <1>u DEF Heartbeat, netVars, clientVars
<1>16. ASSUME NEW c \in Conns, HeartbeatTimeout(c) PROVE Handshake'
  <2>1. /\ UNCHANGED <<bridge, ext, ctun, cst, stun, sup, up, down>>
        /\ \A d \in Conns : /\ sess'[d] = IF d = c THEN "shut" ELSE sess[d]
                            /\ Attached(d)' = Attached(d)
        /\ sess[c] = "live"
    BY <1>16, <1>t DEF HeartbeatTimeout, clientVars, netVars, Attached, TypeOK
  <2>2. Paired' /\ Fresh' /\ SessionsHoldIds'
    BY <1>t, <2>1, FastTunnelAssumption DEF Handshake, Paired, Fresh, SessionsHoldIds, TypeOK
  <2>3. EndsAgree' /\ CreateFirst'
    BY <1>t, <2>1, FastTunnelAssumption DEF Handshake, EndsAgree, CreateFirst, TypeOK
  <2>. QED
    BY <1>t, <2>1, <2>2, <2>3 DEF Handshake, OneOwner, Linked, Open, UpHolds,
       ConfirmAfterCreate, ConfirmedMeansRegistered
<1>17. CASE ServerUpdate
  <2>1. \A c \in ShutSessions : cst[c] # "unused"
    BY <1>t DEF ShutSessions, Handshake, Fresh
  <2>2. ServerLeaves(ShutSessions)
    <3>1. ShutSessions \subseteq Conns
      BY DEF ShutSessions
    <3>. QED  BY <1>17, <2>1, <3>1 DEF ServerUpdate, ServerLeaves
  <2>. QED  BY <2>2, ServerLeavesOk
<1>18. CASE ServerCrash
  <2>1. ServerLeaves(Conns)
    <3>1. PICK told \in Told :
            down' = [c \in Conns |->
                       IF /\ told /\ cst[c] \in {"connecting", "connected"}
                          /\ sess[c] \in {"none", "leaked"} \/ Attached(c)
                       THEN Append(down[c], Fin) ELSE down[c]]
      BY <1>18 DEF ServerCrash
    <3>. QED  BY <1>18, <3>1 DEF ServerCrash, ServerLeaves
  <2>. QED  BY <2>1, ServerLeavesOk
<1>19. CASE UNCHANGED vars
  BY <1>19, <1>u DEF vars, clientVars, serverVars, netVars
<1>. QED
  BY <1>1, <1>2, <1>3, <1>4, <1>5, <1>6, <1>7, <1>8, <1>9, <1>10, <1>11, <1>12, <1>13,
     <1>14, <1>15, <1>16, <1>17, <1>18, <1>19 DEF Next, ClientStep, ServerStep

-----------------------------------------------------------------------------
LEMMA HandshakeHolds == Spec => []HandshakeInv
<1>1. Init => HandshakeInv
  BY TypeInit, HandshakeInit DEF HandshakeInv
<1>2. HandshakeInv /\ [Next]_vars => HandshakeInv'
  BY TypeNext, HandshakeNext DEF HandshakeInv
<1>. QED  BY <1>1, <1>2, PTL DEF Spec

\* The assertion of fast_connection.cpp:206 never fails: a Create that reaches a
\* client finds no tunnel on its FastConnection.
THEOREM CreateAlwaysFindsNoTunnel == Spec => []CreateFindsNoTunnel
<1>1. HandshakeInv => CreateFindsNoTunnel
  <2>. SUFFICES ASSUME HandshakeInv, NEW b \in Bridges, ClientHears(b),
                       Head(down[ext[b]]).type = "Create"
                PROVE  ctun[b] = None
    BY DEF CreateFindsNoTunnel
  <2>1. ext[b] \in Conns /\ down[ext[b]] \in Seq(Msg) /\ down[ext[b]] # <<>>
    BY DEF HandshakeInv, TypeOK, ClientHears
  <2>2. Head(down[ext[b]]) = down[ext[b]][1] /\ 1 \in DOMAIN down[ext[b]]
    BY <2>1, AfterTail
  <2>. QED  BY <2>1, <2>2 DEF HandshakeInv, Handshake, CreateFirst
<1>. QED  BY HandshakeHolds, <1>1, PTL

\* The two ends of a control connection never hold tunnels of different ids,
\* whatever failures, timeouts and restarts came between Create and Confirm.
THEOREM EndsAlwaysAgree == Spec => []EndsAgree
<1>1. HandshakeInv => EndsAgree
  BY DEF HandshakeInv, Handshake
<1>. QED  BY HandshakeHolds, <1>1, PTL

\* The server takes a tunnel for connected only while its client holds that very
\* tunnel, or has closed the connection.
THEOREM ConfirmedAreRegistered == Spec => []ConfirmedMeansRegistered
<1>1. HandshakeInv => ConfirmedMeansRegistered
  BY DEF HandshakeInv, Handshake
<1>. QED  BY HandshakeHolds, <1>1, PTL

-----------------------------------------------------------------------------
(* The inductive invariant.                                                *)

\* What a session has of the upload, from what it has given ss-server to what is
\* in the tunnel, and what of it is to go to the connection it has to ss-server.
Stream(c) == Given(c) \o (icache[c] \o kup[c])
Latest(c) == IF int[c] = "connected" THEN Last(toServer[c]) ELSE <<>>
Flow(c) == Latest(c) \o (icache[c] \o kup[c])

\* The cache of a bridge ends with what ss-local sent last; it is empty while
\* there is a tunnel.
CacheIsRun ==
  \A b \in Bridges : /\ EndsAt(ccache[b], sentUp[b])
                     /\ ctun[b] # None => ccache[b] = <<>>

\* What goes to a connection to ss-server has no hole as long as the session has
\* its tunnel, and ends with what ss-local sent last while the bridge has its, too.
FlowIsRun ==
  /\ \A c \in Conns : Attached(c) => IsRun(Flow(c))
  /\ \A b \in Bridges :
       ctun[b] # None /\ Attached(ext[b]) => EndsAt(Flow(ext[b]), sentUp[b])

\* The cache of the ServerBridge waits only for a connection to ss-server.
IntCached ==
  \A c \in Conns :
    int[c] \in {"connected", "deaf"} => toServer[c] # <<>> /\ icache[c] = <<>>

RunsGiven == \A c \in Conns : IsRun(icache[c]) /\ IsRun(Latest(c))

\* Nothing goes up before the tunnel has been made at both ends.
NothingEarly ==
  /\ \A c \in Conns : sess[c] = "none" => Stream(c) = <<>>
  /\ \A b \in Bridges : ext[b] # None /\ ctun[b] = None => Stream(ext[b]) = <<>>

\* A session has data in the order they were sent.
StreamGrows ==
  /\ \A c \in Conns : Increasing(Stream(c))
  /\ \A b \in Bridges :
       ext[b] # None => \A i \in 1 .. Len(Stream(ext[b])) : Stream(ext[b])[i] <= sentUp[b]

UploadInv ==
  CacheIsRun /\ FlowIsRun /\ IntCached /\ RunsGiven /\ NothingEarly /\ StreamGrows

\* With one bridge, no datum is on two sessions, or on one and in the cache.
OnOneSession ==
  /\ \A c, d \in Conns : c # d => Range(Stream(c)) \cap Range(Stream(d)) = {}
  /\ \A b \in Bridges : \A c \in Conns :
       /\ Range(Stream(c)) \cap Range(ccache[b]) = {}
       /\ Range(Stream(c)) \subseteq 1 .. sentUp[b]

\* How many data of session c a bridge has given ss-local, if it is the latest.
Got(b, c) ==
  IF toLocal[b] # <<>> /\ toLocal[b][Len(toLocal[b])][1] = c
  THEN toLocal[b][Len(toLocal[b])][2] ELSE 0

NothingDown(c) ==
  /\ kdown[c] = <<>> /\ scache[c] = <<>> /\ sentDown[c] = 0
  /\ \A b \in Bridges : \A i \in 1 .. Len(toLocal[b]) : toLocal[b][i][1] # c

\* What goes down to bridge b goes on where ss-local has got to, and as long as
\* the session has its tunnel, to what ss-server sent last.
DownRun(b, c) ==
  /\ EndsAt(kdown[c], Got(b, c) + Len(kdown[c]))
  /\ Attached(c) =>
       /\ EndsAt(kdown[c] \o scache[c], sentDown[c])
       /\ sentDown[c] = Got(b, c) + Len(kdown[c] \o scache[c])
  /\ \A i \in 1 .. Len(toLocal[b]) :
       toLocal[b][i][1] = c => toLocal[b][Len(toLocal[b])][1] = c

DownloadInv ==
  /\ \A c \in Conns : sess[c] = "none" => NothingDown(c)
  /\ \A b \in Bridges : ext[b] # None /\ bridge[b] = "live" => DownRun(b, ext[b])
  /\ DownloadInOrder

-----------------------------------------------------------------------------
(* What a session has of the upload.                                       *)

LEMMA Regroup ==
  ASSUME NEW s \in Seq(1 .. MaxUp), NEW t \in Seq(1 .. MaxUp), NEW u \in Seq(1 .. MaxUp)
  PROVE  (s \o t) \o u = s \o (t \o u)
BY ConcatAssociative, SMTT(20)

LEMMA PathTypes ==
  ASSUME DataTypeOK, NEW c \in Conns
  PROVE  /\ MaxUp \in Nat
         /\ kup[c] \in Seq(1 .. MaxUp) /\ icache[c] \in Seq(1 .. MaxUp)
         /\ toServer[c] \in Seq(Seq(1 .. MaxUp))
         /\ Given(c) \in Seq(1 .. MaxUp)
         /\ icache[c] \o kup[c] \in Seq(1 .. MaxUp)
         /\ Stream(c) \in Seq(1 .. MaxUp)
<1>1. /\ kup[c] \in Seq(1 .. MaxUp) /\ icache[c] \in Seq(1 .. MaxUp)
      /\ toServer[c] \in Seq(Seq(1 .. MaxUp)) /\ MaxUp \in Nat
  BY ProxyPathAssumption DEF DataTypeOK
<1>2. Given(c) \in Seq(1 .. MaxUp)
  BY <1>1, FlattenIsSeq DEF Given
<1>3. icache[c] \o kup[c] \in Seq(1 .. MaxUp)
  BY <1>1, ConcatProperties
<1>4. Stream(c) \in Seq(1 .. MaxUp)
  BY <1>2, <1>3, ConcatProperties DEF Stream
<1>. QED  BY <1>1, <1>2, <1>3, <1>4

LEMMA LatestIsSeq ==
  ASSUME DataTypeOK, IntCached, NEW c \in Conns
  PROVE  /\ Latest(c) \in Seq(1 .. MaxUp) /\ Flow(c) \in Seq(1 .. MaxUp)
         /\ int[c] \in {"connected", "deaf"} => Len(toServer[c]) \in 1 .. Len(toServer[c])
<1>1. toServer[c] \in Seq(Seq(1 .. MaxUp)) /\ icache[c] \o kup[c] \in Seq(1 .. MaxUp)
  BY PathTypes
<1>2. int[c] \in {"connected", "deaf"} => Len(toServer[c]) \in 1 .. Len(toServer[c])
  <2>1. SUFFICES ASSUME int[c] \in {"connected", "deaf"}
                 PROVE  Len(toServer[c]) \in 1 .. Len(toServer[c])
    OBVIOUS
  <2>2. toServer[c] # <<>>
    BY <2>1 DEF IntCached
  <2>3. Len(toServer[c]) \in Nat /\ Len(toServer[c]) # 0
    BY <1>1, <2>2, LenProperties, EmptySeq
  <2>. QED  BY <2>3
<1>3. Latest(c) \in Seq(1 .. MaxUp)
  <2>1. int[c] = "connected" => toServer[c][Len(toServer[c])] \in Seq(1 .. MaxUp)
    BY <1>1, <1>2, ElementOfSeq
  <2>. QED  BY <2>1, EmptySeq DEF Latest, Last
<1>. QED  BY <1>1, <1>2, <1>3, ConcatProperties DEF Flow

LEMMA StreamIsEmpty ==
  ASSUME DataTypeOK, NEW c \in Conns, Stream(c) = <<>>
  PROVE  Given(c) = <<>> /\ icache[c] = <<>> /\ kup[c] = <<>>
<1>1. Given(c) = <<>> /\ icache[c] \o kup[c] = <<>>
  BY PathTypes, BothEmpty DEF Stream
<1>. QED  BY <1>1, PathTypes, BothEmpty

\* Less in the tunnel is a first part of the stream, and of what flows.
LEMMA StreamShrinks ==
  ASSUME DataTypeOK, IntCached, NEW c \in Conns,
         NEW k \in Seq(1 .. MaxUp), NEW r \in Seq(1 .. MaxUp), kup[c] = k \o r
  PROVE  /\ Given(c) \o (icache[c] \o k) \in Seq(1 .. MaxUp)
         /\ Stream(c) = (Given(c) \o (icache[c] \o k)) \o r
         /\ Latest(c) \o (icache[c] \o k) \in Seq(1 .. MaxUp)
         /\ Flow(c) = (Latest(c) \o (icache[c] \o k)) \o r
<1>. DEFINE g == Given(c)
            l == Latest(c)
            i == icache[c]
            ik == icache[c] \o k
<1>1. g \in Seq(1 .. MaxUp) /\ l \in Seq(1 .. MaxUp) /\ i \in Seq(1 .. MaxUp)
  BY PathTypes, LatestIsSeq
<1>2. ik \in Seq(1 .. MaxUp)
  BY <1>1, ConcatProperties
<1>3. icache[c] \o kup[c] = ik \o r
  <2>. HIDE DEF g, l
  <2>1. (i \o k) \o r = i \o (k \o r)
    <3>. HIDE DEF i, ik
    <3>1. i \in Seq(1 .. MaxUp) /\ k \in Seq(1 .. MaxUp) /\ r \in Seq(1 .. MaxUp)
      BY <1>1
    <3>. QED  BY <3>1, Regroup
  <2>. QED  BY <2>1
<1>4. Stream(c) = g \o (ik \o r) /\ Flow(c) = l \o (ik \o r)
  BY <1>3 DEF Stream, Flow
<1>. HIDE DEF g, l, i, ik
<1>5. g \o ik \in Seq(1 .. MaxUp) /\ l \o ik \in Seq(1 .. MaxUp)
  BY <1>1, <1>2, ConcatProperties
<1>6. g \in Seq(1 .. MaxUp) /\ l \in Seq(1 .. MaxUp) /\ ik \in Seq(1 .. MaxUp)
      /\ r \in Seq(1 .. MaxUp)
  BY <1>1, <1>2
<1>7. (g \o ik) \o r = g \o (ik \o r)
  <2>1. g \in Seq(1 .. MaxUp) /\ ik \in Seq(1 .. MaxUp) /\ r \in Seq(1 .. MaxUp)
    BY <1>6
  <2>. QED  BY <2>1, Regroup
<1>8. (l \o ik) \o r = l \o (ik \o r)
  <2>1. l \in Seq(1 .. MaxUp) /\ ik \in Seq(1 .. MaxUp) /\ r \in Seq(1 .. MaxUp)
    BY <1>6
  <2>. QED  BY <2>1, Regroup
<1>. QED  BY <1>4, <1>5, <1>7, <1>8 DEF g, l, ik

-----------------------------------------------------------------------------
(* Steps that pass nothing on: what one loses is at the end of the queues. *)

\* The bridges keep their connections and tunnels, lose both, or get a connection
\* that has not been accepted.  A session gets its tunnel when it begins.
Moves ==
  /\ \A b \in Bridges :
       \/ /\ ext'[b] = ext[b] /\ ctun'[b] = ctun[b]
          /\ ext[b] # None /\ bridge'[b] = "live" => bridge[b] = "live"
       \/ ctun'[b] = None /\ ext'[b] = None
       \/ ctun'[b] = None /\ ext'[b] \in Conns /\ sess[ext'[b]] = "none"
  /\ \A c \in Conns : /\ sess'[c] = "none" => sess[c] = "none"
                      /\ Attached(c)' => Attached(c) \/ sess[c] = "none"

\* q is left alone, or what is at its end is lost with one of the tunnel's ends.
Loses(q, c, S) ==
  \/ q'[c] = q[c]
  \/ /\ q'[c] \in Seq(S) /\ \E r \in Seq(S) : q[c] = q'[c] \o r
     /\ ~ Attached(c)' \/ \A b \in Bridges : ext'[b] # c

\* At most the bridge b caches what ss-local has sent.
Caches(b) ==
  \/ sentUp'[b] = sentUp[b] /\ ccache'[b] = ccache[b]
  \/ /\ ctun[b] = None /\ ctun'[b] = None /\ sentUp[b] < MaxUp
     /\ sentUp'[b] = sentUp[b] + 1
     /\ ccache'[b] = ccache[b] \o <<sentUp[b] + 1>>

\* A connection to ss-server is not made, but may be lost.
IntMoves(c) ==
  /\ int'[c] = "connected" => int[c] = "connected"
  /\ int'[c] = "deaf" => int[c] \in {"connected", "deaf"}

UploadRests ==
  /\ Moves
  /\ \A c \in Conns : Loses(kup, c, 1 .. MaxUp) /\ IntMoves(c)
  /\ \A b \in Bridges : Caches(b)
  /\ icache' = icache /\ toServer' = toServer

\* Of the upload the session has a first part of what it had, at least.
LEMMA RestShrinks ==
  ASSUME TypeOK, DataTypeOK, UploadInv, UploadRests, DataTypeOK', NEW c \in Conns
  PROVE  /\ \E r \in Seq(1 .. MaxUp) : Stream(c) = Stream(c)' \o r
         /\ Flow(c)' \in Seq(1 .. MaxUp)
         /\ \A n \in Nat : kup'[c] = kup[c] /\ EndsAt(Flow(c), n) => EndsAt(Flow(c)', n)
         /\ IsRun(Flow(c)) => IsRun(Flow(c)')
<1>t. IntCached
  BY DEF UploadInv
<1>1. /\ kup'[c] \in Seq(1 .. MaxUp) /\ kup[c] \in Seq(1 .. MaxUp) /\ icache[c] \in Seq(1 .. MaxUp)
      /\ icache'[c] = icache[c] /\ toServer'[c] = toServer[c] /\ MaxUp \in Nat
  BY PathTypes DEF DataTypeOK, UploadRests
<1>2. PICK r \in Seq(1 .. MaxUp) : kup[c] = kup'[c] \o r /\ (kup'[c] = kup[c] => r = <<>>)
  <2>1. Loses(kup, c, 1 .. MaxUp)
    BY DEF UploadRests
  <2>2. CASE kup'[c] = kup[c]
    <3>1. kup[c] = kup'[c] \o <<>> /\ <<>> \in Seq(1 .. MaxUp)
      BY <1>1, <2>2, ConcatEmptySeq, EmptySeq
    <3>. QED  BY <3>1
  <2>3. CASE kup'[c] # kup[c]
    BY <2>1, <2>3 DEF Loses
  <2>. QED  BY <2>2, <2>3
<1>. DEFINE k == kup'[c]
            l == Latest(c)
            lk == Latest(c) \o (icache[c] \o k)
            ik == icache[c] \o k
<1>3. /\ Given(c)' = Given(c)
      /\ Stream(c)' = Given(c) \o (icache[c] \o k)
      /\ Stream(c) = Stream(c)' \o r
      /\ Flow(c) = lk \o r /\ lk \in Seq(1 .. MaxUp)
  <2>1. Given(c)' = Given(c)
    BY <1>1 DEF Given
  <2>2. Stream(c)' = Given(c) \o (icache[c] \o k)
    BY <1>1, <2>1 DEF Stream
  <2>3. /\ Stream(c) = (Given(c) \o (icache[c] \o k)) \o r
        /\ lk \in Seq(1 .. MaxUp) /\ Flow(c) = lk \o r
    BY <1>t, <1>1, <1>2, StreamShrinks
  <2>. QED  BY <2>1, <2>2, <2>3
<1>4. \/ Flow(c)' = lk
      \/ Flow(c)' = ik
  <2>1. IntMoves(c)
    BY DEF UploadRests
  <2>2. CASE int'[c] = "connected"
    BY <1>1, <2>1, <2>2 DEF IntMoves, Flow, Latest
  <2>3. CASE int'[c] # "connected"
    <3>1. ik \in Seq(1 .. MaxUp) /\ Flow(c)' = <<>> \o ik
      BY <1>1, <2>3, ConcatProperties DEF Flow, Latest
    <3>. HIDE DEF ik
    <3>. QED  BY <3>1, ConcatEmptySeq
  <2>. QED  BY <2>2, <2>3
<1>5. l \in Seq(1 .. MaxUp) /\ ik \in Seq(1 .. MaxUp) /\ lk = l \o ik
  BY <1>t, <1>1, LatestIsSeq, ConcatProperties
<1>. HIDE DEF lk, ik, l
<1>6. ASSUME NEW n \in Nat, kup'[c] = kup[c], EndsAt(Flow(c), n)
      PROVE  EndsAt(Flow(c)', n)
  <2>1. lk \o r = lk
    BY <1>2, <1>3, <1>6, ConcatEmptySeq
  <2>2. EndsAt(lk, n)
    BY <1>3, <1>6, <2>1
  <2>3. EndsAt(ik, n)
    BY <1>1, <1>5, <2>2, EndsConcat
  <2>. QED  BY <1>4, <2>2, <2>3
<1>7. ASSUME IsRun(Flow(c)) PROVE IsRun(Flow(c)')
  <2>1. IsRun(lk)
    BY <1>1, <1>2, <1>3, <1>7, RunConcat
  <2>2. IsRun(ik)
    BY <1>1, <1>5, <2>1, RunConcat
  <2>. QED  BY <1>4, <2>1, <2>2
<1>. QED  BY <1>2, <1>3, <1>4, <1>5, <1>6, <1>7

LEMMA UploadRestsStep ==
  ASSUME HandshakeInv, DataTypeOK, UploadInv, UploadRests, DataTypeOK'
  PROVE  UploadInv'
<1>t. TypeOK /\ Paired /\ MaxUp \in Nat /\ None \notin Conns
  BY ProxyPathAssumption, FastTunnelAssumption DEF HandshakeInv, Handshake
<1>e. \A b \in Bridges : ext[b] # None => ext[b] \in Conns
  BY <1>t DEF TypeOK
<1>1. \A c \in Conns :
        /\ Stream(c)' \in Seq(1 .. MaxUp) /\ Stream(c) \in Seq(1 .. MaxUp)
        /\ \E r \in Seq(1 .. MaxUp) : Stream(c) = Stream(c)' \o r
  <2>1. SUFFICES ASSUME NEW c \in Conns
                 PROVE  /\ Stream(c)' \in Seq(1 .. MaxUp) /\ Stream(c) \in Seq(1 .. MaxUp)
                        /\ \E r \in Seq(1 .. MaxUp) : Stream(c) = Stream(c)' \o r
    OBVIOUS
  <2>2. \E r \in Seq(1 .. MaxUp) : Stream(c) = Stream(c)' \o r
    BY <1>t, RestShrinks
  <2>3. Stream(c) \in Seq(1 .. MaxUp)
    BY PathTypes
  <2>4. (Stream(c) \in Seq(1 .. MaxUp))'
    BY PathTypes, PTL
  <2>. QED  BY <2>2, <2>3, <2>4
<1>2. ASSUME NEW c \in Conns, Stream(c) = <<>> PROVE Stream(c)' = <<>>
  <2>1. PICK r \in Seq(1 .. MaxUp) : Stream(c) = Stream(c)' \o r
    BY <1>1
  <2>. DEFINE s == Stream(c)'
  <2>2. s \in Seq(1 .. MaxUp) /\ s \o r = <<>>
    BY <1>1, <1>2, <2>1
  <2>. HIDE DEF s
  <2>3. s = <<>>
    BY <2>2, BothEmpty
  <2>. QED  BY <2>3 DEF s
<1>m. Moves
  BY DEF UploadRests
<1>3. CacheIsRun'
  <2>1. SUFFICES ASSUME NEW b \in Bridges
                 PROVE  EndsAt(ccache'[b], sentUp'[b]) /\ (ctun'[b] # None => ccache'[b] = <<>>)
    BY DEF CacheIsRun
  <2>2. /\ EndsAt(ccache[b], sentUp[b]) /\ (ctun[b] # None => ccache[b] = <<>>)
        /\ ccache[b] \in Seq(1 .. MaxUp) /\ sentUp[b] \in Nat
    BY <1>t DEF UploadInv, CacheIsRun, DataTypeOK
  <2>3. ctun'[b] # None => ctun[b] # None
    BY <1>m DEF Moves
  <2>4. Caches(b)
    BY DEF UploadRests
  <2>5. CASE sentUp'[b] = sentUp[b] /\ ccache'[b] = ccache[b]
    BY <2>2, <2>3, <2>5
  <2>6. CASE /\ ctun[b] = None /\ ctun'[b] = None /\ sentUp[b] < MaxUp
             /\ sentUp'[b] = sentUp[b] + 1
             /\ ccache'[b] = ccache[b] \o <<sentUp[b] + 1>>
    BY <1>t, <2>2, <2>6, EndsOneMore
  <2>. QED  BY <2>4, <2>5, <2>6 DEF Caches
<1>4. FlowIsRun'
  <2>1. ASSUME NEW c \in Conns, Attached(c)' PROVE IsRun(Flow(c)')
    <3>1. CASE Attached(c)
      BY <1>t, <3>1, RestShrinks DEF UploadInv, FlowIsRun
    <3>2. CASE sess[c] = "none"
      <4>1. Stream(c)' = <<>>
        BY <1>2, <3>2 DEF UploadInv, NothingEarly
      <4>2. int[c] = "none"
        BY <3>2 DEF DataTypeOK, IntLives
      <4>3. int'[c] # "connected"
        BY <4>2 DEF UploadRests, IntMoves
      <4>4. icache'[c] \o kup'[c] = <<>> \o <<>>
        <5>1. (Stream(c) = <<>> => Given(c) = <<>> /\ icache[c] = <<>> /\ kup[c] = <<>>)'
          BY StreamIsEmpty, PTL
        <5>. QED  BY <4>1, <5>1
      <4>5. Flow(c)' = <<>>
        BY <4>3, <4>4, ConcatEmptySeq, EmptySeq DEF Flow, Latest
      <4>. QED  BY <4>5 DEF IsRun
    <3>. QED  BY <1>m, <2>1, <3>1, <3>2 DEF Moves
  <2>2. ASSUME NEW b \in Bridges, ctun'[b] # None, Attached(ext[b])'
        PROVE  EndsAt(Flow(ext[b])', sentUp'[b])
    <3>1. ext'[b] = ext[b] /\ ctun[b] # None
      BY <1>m, <2>2 DEF Moves
    <3>2. ext[b] \in Conns /\ sess[ext[b]] # "none"
      BY <1>t, <1>e, <3>1 DEF Paired
    <3>0. PICK c \in Conns : c = ext[b]
      BY <3>2
    <3>3. Attached(c) /\ kup'[c] = kup[c]
      <4>1. Attached(c)'
        BY <2>2, <3>0, <3>1 DEF Attached
      <4>2. Attached(c)
        BY <1>m, <3>0, <3>2, <4>1 DEF Moves
      <4>3. Loses(kup, c, 1 .. MaxUp)
        BY DEF UploadRests
      <4>. QED  BY <3>0, <3>1, <4>1, <4>2, <4>3 DEF Loses
    <3>4. EndsAt(Flow(c), sentUp[b]) /\ sentUp[b] \in Nat
      BY <1>t, <3>0, <3>1, <3>3, SMTT(30) DEF UploadInv, FlowIsRun, DataTypeOK
    <3>5. sentUp'[b] = sentUp[b]
      BY <2>2 DEF UploadRests, Caches
    <3>6. EndsAt(Flow(c)', sentUp[b])
      BY <1>t, <3>3, <3>4, RestShrinks
    <3>. QED  BY <3>0, <3>1, <3>5, <3>6 DEF Flow, Latest
  <2>. QED  BY <2>1, <2>2 DEF FlowIsRun
<1>5. IntCached'
  BY DEF UploadInv, IntCached, UploadRests, IntMoves
<1>6. RunsGiven'
  BY DEF UploadInv, RunsGiven, UploadRests, IntMoves, Latest, IsRun
<1>7. NothingEarly'
  <2>1. ASSUME NEW c \in Conns, sess'[c] = "none" PROVE Stream(c)' = <<>>
    BY <1>m, <1>2, <2>1 DEF Moves, UploadInv, NothingEarly
  <2>2. ASSUME NEW b \in Bridges, ext'[b] # None, ctun'[b] = None
        PROVE  Stream(ext[b])' = <<>>
    BY <1>m, <1>e, <1>2, <2>2 DEF Moves, UploadInv, NothingEarly
  <2>. QED  BY <2>1, <2>2 DEF NothingEarly
<1>8. StreamGrows'
  <2>1. ASSUME NEW c \in Conns
        PROVE  /\ Increasing(Stream(c)') /\ Len(Stream(c)') \in Nat
               /\ \A i \in 1 .. Len(Stream(c)') :
                    i \in 1 .. Len(Stream(c)) /\ Stream(c)'[i] = Stream(c)[i]
    <3>. DEFINE s == Stream(c)'
    <3>1. PICK r \in Seq(1 .. MaxUp) : Stream(c) = s \o r
      BY <1>1
    <3>2. Increasing(Stream(c)) /\ s \in Seq(1 .. MaxUp)
      BY <1>1 DEF UploadInv, StreamGrows
    <3>. HIDE DEF s
    <3>3. Increasing(s)
      BY <1>t, <3>1, <3>2, IncreasingConcat
    <3>4. Len(s) \in Nat /\ \A i \in 1 .. Len(s) : i \in 1 .. Len(Stream(c)) /\ s[i] = Stream(c)[i]
      BY <3>1, <3>2, ConcatAt
    <3>. QED  BY <3>3, <3>4 DEF s
  <2>2. ASSUME NEW b \in Bridges, ext'[b] # None, NEW i \in 1 .. Len(Stream(ext[b])')
        PROVE  Stream(ext[b])'[i] <= sentUp'[b]
    <3>1. CASE ext'[b] = ext[b]
      <4>1. Stream(ext[b])'[i] = Stream(ext[b])[i] /\ i \in 1 .. Len(Stream(ext[b]))
        BY <1>e, <2>1, <2>2, <3>1
      <4>2. Stream(ext[b])[i] <= sentUp[b] /\ Stream(ext[b])[i] \in Nat
        BY <1>t, <1>e, <1>1, <2>2, <3>1, <4>1, NumbersInSeq DEF UploadInv, StreamGrows
      <4>3. sentUp[b] \in Nat /\ (sentUp'[b] = sentUp[b] \/ sentUp'[b] = sentUp[b] + 1)
        <5>1. Caches(b) /\ sentUp[b] \in Nat
          BY <1>t DEF DataTypeOK, UploadRests
        <5>. QED  BY <5>1 DEF Caches
      <4>. QED  BY <4>1, <4>2, <4>3
    <3>2. CASE ext'[b] # ext[b]
      <4>1. Stream(ext[b])' = <<>>
        BY <1>m, <1>2, <2>2, <3>2 DEF Moves, UploadInv, NothingEarly
      <4>2. Len(Stream(ext[b])') = 0
        BY <4>1, EmptySeq
      <4>. QED  BY <2>2, <4>2
    <3>. QED  BY <3>1, <3>2
  <2>. QED  BY <2>1, <2>2 DEF StreamGrows
<1>. QED  BY <1>3, <1>4, <1>5, <1>6, <1>7, <1>8 DEF UploadInv

-----------------------------------------------------------------------------
(* Steps in which a bridge puts data into its tunnel.                      *)

BridgeSends(b, c) ==
  /\ c = ext[b] /\ ext'[b] = c /\ ctun'[b] # None /\ sess[c] # "none"
  /\ \A a \in Bridges \ {b} :
       /\ ext'[a] = ext[a] /\ ctun'[a] = ctun[a]
       /\ ccache'[a] = ccache[a] /\ sentUp'[a] = sentUp[a]
  /\ \A d \in Conns \ {c} : kup'[d] = kup[d]
  /\ UNCHANGED <<sess, stun, int, icache, toServer>>
  /\ EndsAt(ccache'[b], sentUp'[b]) /\ ccache'[b] = <<>>
  /\ Attached(c) => EndsAt(Flow(c)', sentUp'[b])
  /\ Increasing(Stream(c)')
  /\ \A i \in 1 .. Len(Stream(c)') : Stream(c)'[i] <= sentUp'[b]

LEMMA BridgeSendsStep ==
  ASSUME HandshakeInv, DataTypeOK, UploadInv, DataTypeOK',
         NEW b \in Bridges, NEW c \in Conns, BridgeSends(b, c)
  PROVE  UploadInv'
<1>t. TypeOK /\ OneOwner /\ MaxUp \in Nat /\ None \notin Conns
  BY ProxyPathAssumption, FastTunnelAssumption DEF HandshakeInv, Handshake
<1>e. \A a \in Bridges : ext[a] # None => ext[a] \in Conns
  BY <1>t DEF TypeOK
<1>1. \A a \in Bridges \ {b} : ext[a] # c
  BY <1>t DEF OneOwner, BridgeSends
<1>2. \A d \in Conns : /\ Attached(d)' <=> Attached(d)
                       /\ d # c => Stream(d)' = Stream(d) /\ Flow(d)' = Flow(d)
  BY DEF BridgeSends, Attached, Stream, Given, Flow, Latest
<1>3. CacheIsRun'
  BY DEF UploadInv, CacheIsRun, BridgeSends
<1>4. IntCached'
  BY DEF UploadInv, IntCached, BridgeSends
<1>5. RunsGiven'
  BY DEF UploadInv, RunsGiven, BridgeSends, Latest
<1>6. FlowIsRun'
  <2>1. ASSUME NEW d \in Conns, Attached(d)' PROVE IsRun(Flow(d)')
    <3>1. CASE d # c
      BY <1>2, <2>1, <3>1 DEF UploadInv, FlowIsRun
    <3>2. CASE d = c
      <4>. DEFINE s == Flow(c)'
                  n == sentUp'[b]
      <4>1. EndsAt(s, n) /\ n \in Nat
        BY <1>t, <1>2, <2>1, <3>2 DEF BridgeSends, DataTypeOK
      <4>2. (Flow(c) \in Seq(1 .. MaxUp))'
        BY <1>4, LatestIsSeq, PTL
      <4>3. s \in Seq(1 .. MaxUp)
        BY <4>2
      <4>. HIDE DEF s, n
      <4>4. IsRun(s)
        BY <1>t, <4>1, <4>3, EndsIsRun
      <4>. QED  BY <3>2, <4>4 DEF s
    <3>. QED  BY <3>1, <3>2
  <2>2. ASSUME NEW a \in Bridges, ctun'[a] # None, Attached(ext[a])'
        PROVE  EndsAt(Flow(ext[a])', sentUp'[a])
    <3>1. CASE a = b
      <4>1. ext'[a] = c /\ Attached(c)'
        BY <2>2, <3>1 DEF BridgeSends, Attached
      <4>. QED  BY <1>2, <3>1, <4>1 DEF BridgeSends, Flow, Latest
    <3>2. CASE a # b
      <4>1. /\ ext'[a] = ext[a] /\ ctun[a] # None /\ ext[a] # c
            /\ sentUp'[a] = sentUp[a]
        BY <1>1, <2>2, <3>2 DEF BridgeSends
      <4>2. ext[a] \in Conns
        BY <1>e, <1>t, <2>2, <4>1 DEF HandshakeInv, Handshake, Paired
      <4>3. PICK d \in Conns : d = ext[a]
        BY <4>2
      <4>4. Attached(d)' /\ Flow(d)' = Flow(d)
        BY <1>2, <2>2, <4>1, <4>3 DEF Attached
      <4>5. EndsAt(Flow(d), sentUp[a])
        BY <1>2, <4>1, <4>3, <4>4 DEF UploadInv, FlowIsRun
      <4>. QED  BY <4>1, <4>3, <4>4, <4>5 DEF Flow, Latest
    <3>. QED  BY <3>1, <3>2
  <2>. QED  BY <2>1, <2>2 DEF FlowIsRun
<1>7. NothingEarly'
  <2>1. ASSUME NEW d \in Conns, sess'[d] = "none" PROVE Stream(d)' = <<>>
    BY <1>2, <2>1 DEF BridgeSends, UploadInv, NothingEarly
  <2>2. ASSUME NEW a \in Bridges, ext'[a] # None, ctun'[a] = None
        PROVE  Stream(ext[a])' = <<>>
    <3>1. /\ a # b /\ ext'[a] = ext[a] /\ ctun[a] = None
          /\ ext[a] # None /\ ext[a] # c
      BY <1>1, <2>2 DEF BridgeSends
    <3>2. PICK d \in Conns : d = ext[a] /\ d # c
      BY <1>e, <3>1
    <3>3. Stream(d)' = Stream(d) /\ Stream(d) = <<>>
      BY <1>2, <3>1, <3>2 DEF UploadInv, NothingEarly
    <3>. QED  BY <3>1, <3>2, <3>3 DEF Stream, Given
  <2>. QED  BY <2>1, <2>2 DEF NothingEarly
<1>8. StreamGrows'
  <2>1. ASSUME NEW d \in Conns PROVE Increasing(Stream(d)')
    BY <1>2 DEF BridgeSends, UploadInv, StreamGrows
  <2>2. ASSUME NEW a \in Bridges, ext'[a] # None, NEW i \in 1 .. Len(Stream(ext[a])')
        PROVE  Stream(ext[a])'[i] <= sentUp'[a]
    <3>1. CASE a = b
      <4>1. ext'[a] = c /\ Stream(ext[a])' = Stream(c)'
        BY <3>1 DEF BridgeSends, Stream, Given
      <4>. QED  BY <2>2, <3>1, <4>1 DEF BridgeSends
    <3>2. CASE a # b
      <4>1. ext'[a] = ext[a] /\ ext[a] # c /\ sentUp'[a] = sentUp[a]
        BY <1>1, <2>2, <3>2 DEF BridgeSends
      <4>2. PICK d \in Conns : d = ext[a] /\ d # c
        BY <1>e, <2>2, <4>1
      <4>3. Stream(ext[a])' = Stream(d)' /\ Stream(d)' = Stream(d)
        BY <1>2, <4>1, <4>2 DEF Stream, Given
      <4>. QED  BY <2>2, <4>1, <4>2, <4>3 DEF UploadInv, StreamGrows
    <3>. QED  BY <3>1, <3>2
  <2>. QED  BY <2>1, <2>2 DEF StreamGrows
<1>. QED  BY <1>3, <1>4, <1>5, <1>6, <1>7, <1>8 DEF UploadInv

-----------------------------------------------------------------------------
(* Steps in which a session passes on what it has.                         *)

SessionPasses(c) ==
  /\ UNCHANGED <<ext, ctun, sess, stun, sentUp, ccache>>
  /\ \A d \in Conns \ {c} : /\ kup'[d] = kup[d] /\ icache'[d] = icache[d]
                            /\ toServer'[d] = toServer[d] /\ int'[d] = int[d]
  /\ Stream(c) = <<>> => Stream(c)' = <<>>
  /\ Increasing(Stream(c)')
  /\ \A i \in 1 .. Len(Stream(c)') :
       \E j \in 1 .. Len(Stream(c)) : Stream(c)'[i] = Stream(c)[j]
  /\ \A n \in Nat : EndsAt(Flow(c), n) => EndsAt(Flow(c)', n)
  /\ Attached(c) => IsRun(Flow(c)')
  /\ int'[c] \in {"connected", "deaf"} => toServer'[c] # <<>> /\ icache'[c] = <<>>
  /\ IsRun(icache'[c]) /\ IsRun(Latest(c)')

LEMMA SessionPassesStep ==
  ASSUME HandshakeInv, DataTypeOK, UploadInv, NEW c \in Conns, SessionPasses(c)
  PROVE  UploadInv'
<1>t. TypeOK /\ Paired /\ None \notin Conns
  BY FastTunnelAssumption DEF HandshakeInv, Handshake
<1>e. \A a \in Bridges : ext[a] # None => ext[a] \in Conns
  BY <1>t DEF TypeOK
<1>2. \A d \in Conns : /\ Attached(d)' <=> Attached(d)
                       /\ d # c => Stream(d)' = Stream(d) /\ Flow(d)' = Flow(d)
  BY DEF SessionPasses, Attached, Stream, Given, Flow, Latest
<1>3. CacheIsRun'
  BY DEF UploadInv, CacheIsRun, SessionPasses
<1>4. IntCached'
  BY DEF UploadInv, IntCached, SessionPasses
<1>5. RunsGiven'
  BY DEF UploadInv, RunsGiven, SessionPasses, Latest
<1>6. FlowIsRun'
  <2>1. ASSUME NEW d \in Conns, Attached(d)' PROVE IsRun(Flow(d)')
    BY <1>2, <2>1 DEF SessionPasses, UploadInv, FlowIsRun
  <2>2. ASSUME NEW a \in Bridges, ctun'[a] # None, Attached(ext[a])'
        PROVE  EndsAt(Flow(ext[a])', sentUp'[a])
    <3>1. ext'[a] = ext[a] /\ ctun[a] # None /\ sentUp'[a] = sentUp[a]
      BY <2>2 DEF SessionPasses
    <3>2. PICK d \in Conns : d = ext[a]
      BY <1>t, <1>e, <3>1 DEF Paired
    <3>3. Attached(d)
      BY <1>2, <2>2, <3>1, <3>2 DEF Attached, SessionPasses
    <3>4. EndsAt(Flow(d), sentUp[a]) /\ sentUp[a] \in Nat
      BY <3>1, <3>2, <3>3, ProxyPathAssumption, SMTT(30) DEF UploadInv, FlowIsRun, DataTypeOK
    <3>5. EndsAt(Flow(d)', sentUp[a])
      BY <1>2, <3>4 DEF SessionPasses
    <3>. QED  BY <3>1, <3>2, <3>5 DEF Flow, Latest
  <2>. QED  BY <2>1, <2>2 DEF FlowIsRun
<1>7. NothingEarly'
  <2>1. ASSUME NEW d \in Conns, Stream(d) = <<>> PROVE Stream(d)' = <<>>
    BY <1>2, <2>1 DEF SessionPasses
  <2>2. ASSUME NEW d \in Conns, sess'[d] = "none" PROVE Stream(d)' = <<>>
    BY <2>1, <2>2 DEF SessionPasses, UploadInv, NothingEarly
  <2>3. ASSUME NEW a \in Bridges, ext'[a] # None, ctun'[a] = None
        PROVE  Stream(ext[a])' = <<>>
    <3>1. PICK d \in Conns : d = ext[a] /\ ext'[a] = d /\ ctun[a] = None
      BY <1>e, <2>3 DEF SessionPasses
    <3>2. Stream(d) = <<>>
      BY <1>t, <3>1 DEF UploadInv, NothingEarly
    <3>. QED  BY <2>1, <3>1, <3>2 DEF Stream, Given
  <2>. QED  BY <2>2, <2>3 DEF NothingEarly
<1>8. StreamGrows'
  <2>1. ASSUME NEW d \in Conns PROVE Increasing(Stream(d)')
    BY <1>2 DEF SessionPasses, UploadInv, StreamGrows
  <2>2. ASSUME NEW a \in Bridges, ext'[a] # None, NEW i \in 1 .. Len(Stream(ext[a])')
        PROVE  Stream(ext[a])'[i] <= sentUp'[a]
    <3>1. PICK d \in Conns : d = ext[a] /\ ext'[a] = d
      BY <1>e, <2>2 DEF SessionPasses
    <3>2. Stream(ext[a])' = Stream(d)' /\ sentUp'[a] = sentUp[a]
      BY <3>1 DEF Stream, Given, SessionPasses
    <3>3. \A j \in 1 .. Len(Stream(d)) : Stream(d)[j] <= sentUp[a]
      BY <1>t, <3>1 DEF UploadInv, StreamGrows
    <3>4. \E j \in 1 .. Len(Stream(d)) : Stream(d)'[i] = Stream(d)[j]
      BY <1>2, <2>2, <3>2 DEF SessionPasses
    <3>. QED  BY <3>2, <3>3, <3>4
  <2>. QED  BY <2>1, <2>2 DEF StreamGrows
<1>. QED  BY <1>3, <1>4, <1>5, <1>6, <1>7, <1>8 DEF UploadInv

-----------------------------------------------------------------------------
(* What the steps of the control plane do to connections and tunnels.      *)

\* No bridge to ss-server begins or ends, either.
Calm == Moves /\ \A c \in Conns : IntLives(c)' <=> IntLives(c)

LEMMA StayCalm ==
  ASSUME UNCHANGED <<bridge, ext, ctun, sess, stun>>
  PROVE  Calm
BY DEF Calm, Moves, Attached, IntLives

LEMMA QuietIsCalm ==
  ASSUME HandshakeInv, NEW b \in Bridges, ConnectDone(b) \/ CoolDown(b) \/ LocalClose(b)
  PROVE  Calm
<1>1. CASE ConnectDone(b) \/ CoolDown(b)
  <2>1. UNCHANGED <<bridge, ext, ctun, sess, stun>>
    BY <1>1 DEF ConnectDone, CoolDown, serverVars
  <2>. QED  BY <2>1, StayCalm
<1>2. CASE LocalClose(b)
  <2>1. /\ UNCHANGED <<ext, ctun, sess, stun>>
        /\ \A a \in Bridges : bridge'[a] = "live" => bridge[a] = "live"
    BY <1>2 DEF LocalClose, serverVars, HandshakeInv, TypeOK
  <2>. QED  BY <2>1 DEF Calm, Moves, Attached, IntLives
<1>. QED  BY <1>1, <1>2

LEMMA AcceptLocalIsCalm ==
  ASSUME HandshakeInv, NEW b \in Bridges, AcceptLocal(b)
  PROVE  Calm
<1>t. TypeOK /\ Linked /\ Paired /\ Fresh /\ None \notin Conns
  BY FastTunnelAssumption DEF HandshakeInv, Handshake
<1>1. ext[b] = None /\ ctun[b] = None
  BY <1>t DEF AcceptLocal, Linked, Open, Paired
<1>2. PICK new \in NextConn :
        /\ ext' = [ext EXCEPT ![b] = new]
        /\ bridge' = [bridge EXCEPT ![b] = IF new = None THEN "gone" ELSE "live"]
  BY DEF AcceptLocal
<1>3. new = None \/ (new \in Conns /\ sess[new] = "none")
  BY <1>t, <1>2 DEF NextConn, Unused, Fresh
<1>4. /\ \A a \in Bridges \ {b} : ext'[a] = ext[a] /\ bridge'[a] = bridge[a]
      /\ ext'[b] = new /\ UNCHANGED <<ctun, sess, stun>>
  BY <1>t, <1>2 DEF AcceptLocal, TypeOK, serverVars
<1>. QED  BY <1>1, <1>3, <1>4 DEF Calm, Moves, Attached, IntLives

\* The client's end of a connection is closed; another one may be opened.
LEMMA DropIsCalm ==
  ASSUME HandshakeInv, NEW b \in Bridges, NEW told, NEW n, DropAndReconnect(b, told, n),
         UNCHANGED stun,
         \A c \in Conns : sess'[c] = sess[c] \/ (sess[c] = "none" /\ sess'[c] = "gone")
  PROVE  /\ Calm
         /\ ext[b] # None => \A a \in Bridges : ext'[a] # ext[b]
<1>t. TypeOK /\ OneOwner /\ Linked /\ Fresh /\ None \notin Conns
  BY FastTunnelAssumption DEF HandshakeInv, Handshake
<1>1. PICK new \in NextConn \cup {None} : ext' = [ext EXCEPT ![b] = new]
  BY DEF DropAndReconnect, NextConn
<1>2. new = None \/ (new \in Conns /\ cst[new] = "unused" /\ sess[new] = "none")
  BY <1>t, <1>1 DEF NextConn, Unused, Fresh
<1>3. /\ \A a \in Bridges : ext'[a] = IF a = b THEN new ELSE ext[a]
      /\ \A a \in Bridges : ctun'[a] = IF a = b THEN None ELSE ctun[a]
      /\ bridge' = bridge
  BY <1>t, <1>1 DEF DropAndReconnect, ReleaseClientTunnel, TypeOK
<1>4. \A c \in Conns : /\ sess'[c] = "none" => sess[c] = "none"
                       /\ Attached(c)' => Attached(c)
                       /\ IntLives(c)' <=> IntLives(c)
  BY DEF Attached, IntLives
<1>5. Moves
  BY <1>2, <1>3, <1>4 DEF Moves
<1>6. ext[b] # None => \A a \in Bridges : ext'[a] # ext[b]
  <2>1. ext[b] # None => cst[ext[b]] # "unused"
    BY <1>t DEF Linked
  <2>. QED  BY <1>t, <1>2, <1>3, <2>1 DEF OneOwner
<1>. QED  BY <1>4, <1>5, <1>6 DEF Calm

LEMMA RetryIsCalm ==
  ASSUME HandshakeInv, NEW b \in Bridges, RetryOnData(b)
  PROVE  Calm /\ ctun'[b] = None
<1>1. PICK n \in {0, 1} : DropAndReconnect(b, TRUE, n) /\ UNCHANGED <<sess, stun>>
  BY DEF RetryOnData, serverVars
<1>2. Calm
  BY <1>1, DropIsCalm
<1>3. ctun'[b] = None
  BY <1>1 DEF DropAndReconnect, ReleaseClientTunnel, HandshakeInv, TypeOK
<1>. QED  BY <1>2, <1>3

LEMMA ClientLossIsCalm ==
  ASSUME HandshakeInv, NEW b \in Bridges, ClientError(b) \/ ClientRecvFin(b)
  PROVE  Calm /\ \A c \in Dropped(b) : c \in Conns /\ \A a \in Bridges : ext'[a] # c
<1>t. TypeOK /\ ext[b] # None
  BY DEF HandshakeInv, ClientError, ClientRecvFin, ClientHears
<1>1. \E told \in BOOLEAN, n \in {0, 1} : DropAndReconnect(b, told, n)
  <2>1. CASE ClientError(b)
    BY <2>1 DEF ClientError, Told
  <2>2. CASE ClientRecvFin(b)
    BY <2>2 DEF ClientRecvFin
  <2>. QED  BY <2>1, <2>2
<1>2. /\ UNCHANGED stun
      /\ \A c \in Conns : sess'[c] = sess[c] \/ (sess[c] = "none" /\ sess'[c] = "gone")
  BY <1>t DEF ClientError, ClientRecvFin, serverVars, TypeOK
<1>3. Calm /\ \A a \in Bridges : ext'[a] # ext[b]
  BY <1>t, <1>1, <1>2, DropIsCalm
<1>4. ext[b] \in Conns
  BY <1>t DEF TypeOK
<1>. QED  BY <1>3, <1>4 DEF Dropped

\* The shut bridges go, with their connections.
ShutBridges == {b \in Bridges : bridge[b] = "shut"}

LEMMA ClientUpdateIsCalm ==
  ASSUME HandshakeInv, ClientUpdate
  PROVE  /\ Calm
         /\ \A c \in UNION {Dropped(b) : b \in ShutBridges} :
              c \in Conns /\ \A a \in Bridges : ext'[a] # c
<1>t. TypeOK /\ OneOwner /\ None \notin Conns
  BY FastTunnelAssumption DEF HandshakeInv, Handshake
<1>1. /\ \A b \in Bridges : ext'[b] = IF b \in ShutBridges THEN None ELSE ext[b]
      /\ \A b \in Bridges : ctun'[b] = IF b \in ShutBridges THEN None ELSE ctun[b]
      /\ \A b \in Bridges : bridge'[b] = IF b \in ShutBridges THEN "gone" ELSE bridge[b]
      /\ UNCHANGED <<sess, stun>>
  BY DEF ClientUpdate, DropBridges, ShutBridges, serverVars
<1>2. Calm
  BY <1>1 DEF Calm, Moves, Attached, IntLives
<1>3. ASSUME NEW b \in ShutBridges, NEW c \in Dropped(b)
      PROVE  c \in Conns /\ \A a \in Bridges : ext'[a] # c
  <2>1. c = ext[b] /\ c # None /\ b \in Bridges
    BY <1>3 DEF Dropped, ShutBridges
  <2>. QED  BY <1>t, <1>1, <1>3, <2>1 DEF OneOwner, TypeOK
<1>. QED  BY <1>2, <1>3

LEMMA ServerIsCalm ==
  ASSUME HandshakeInv, NEW c \in Conns,
         AcceptAborted(c) \/ Heartbeat(c) \/ HeartbeatTimeout(c) \/ ServerRecvConfirm(c)
  PROVE  Calm
<1>1. UNCHANGED <<bridge, ext, ctun, stun>>
  BY DEF AcceptAborted, Heartbeat, HeartbeatTimeout, ServerRecvConfirm, clientVars
<1>2. \A d \in Conns : \/ sess'[d] = sess[d]
                       \/ sess[d] = "none" /\ sess'[d] = "gone"
                       \/ sess[d] = "live" /\ sess'[d] = "shut"
  BY DEF AcceptAborted, Heartbeat, HeartbeatTimeout, ServerRecvConfirm, InBacklog,
         HandshakeInv, TypeOK
<1>. QED  BY <1>1, <1>2 DEF Calm, Moves, Attached, IntLives

LEMMA AcceptMoves ==
  ASSUME HandshakeInv, NEW c \in Conns, Accept(c) \/ AcceptZombie(c)
  PROVE  /\ Moves /\ sess[c] = "none" /\ IntLives(c)'
         /\ \A d \in Conns \ {c} : IntLives(d)' <=> IntLives(d)
<1>1. UNCHANGED <<bridge, ext, ctun>>
  BY DEF Accept, AcceptZombie, clientVars
<1>2. /\ sess[c] = "none" /\ sess'[c] = "live"
      /\ \A d \in Conns \ {c} : sess'[d] = sess[d] /\ stun'[d] = stun[d]
  BY DEF Accept, AcceptZombie, InBacklog, HandshakeInv, TypeOK
<1>. QED  BY <1>1, <1>2 DEF Moves, Attached, IntLives

LEMMA ServerLossIsCalm ==
  ASSUME HandshakeInv, NEW c \in Conns, ServerRecvFin(c) \/ ServerError(c)
  PROVE  Calm /\ ~ Attached(c)'
<1>1. PICK told \in BOOLEAN : ServerDrops(c, told) /\ Attached(c)
  BY DEF ServerRecvFin, ServerError, Told
<1>2. UNCHANGED <<bridge, ext, ctun>>
  BY <1>1 DEF ServerDrops, clientVars
<1>3. /\ sess'[c] = "shut" /\ stun'[c] = None
      /\ \A d \in Conns \ {c} : sess'[d] = sess[d] /\ stun'[d] = stun[d]
  BY <1>1 DEF ServerDrops, ReleaseTunnel, HandshakeInv, TypeOK
<1>. QED  BY <1>1, <1>2, <1>3 DEF Calm, Moves, Attached, IntLives

LEMMA ServerUpdateMoves ==
  ASSUME ServerUpdate
  PROVE  /\ Moves
         /\ \A c \in Conns : IF c \in ShutSessions
                             THEN ~ IntLives(c)' /\ ~ Attached(c)'
                             ELSE IntLives(c)' <=> IntLives(c)
<1>1. UNCHANGED <<bridge, ext, ctun>>
  BY DEF ServerUpdate, clientVars
<1>2. \A c \in Conns : /\ sess'[c] = IF c \in ShutSessions THEN "gone" ELSE sess[c]
                       /\ stun'[c] = IF c \in ShutSessions THEN None ELSE stun[c]
  BY DEF ServerUpdate
<1>3. \A c \in ShutSessions : sess[c] = "shut"
  BY DEF ShutSessions
<1>. QED  BY <1>1, <1>2, <1>3 DEF Moves, Attached, IntLives

\* The bridges keep their connections, lose them, or get one that has not been
\* accepted; so for what goes down.
DownMoves ==
  /\ \A b \in Bridges :
       ext'[b] # None /\ bridge'[b] = "live" =>
         \/ ext'[b] = ext[b] /\ bridge[b] = "live"
         \/ ext'[b] \in Conns /\ sess[ext'[b]] = "none"
  /\ \A c \in Conns : /\ sess'[c] = "none" => sess[c] = "none"
                      /\ Attached(c)' => Attached(c) \/ sess[c] = "none"

DownloadRests ==
  /\ DownMoves
  /\ \A c \in Conns : Loses(kdown, c, 1 .. MaxDown)
  /\ UNCHANGED <<scache, sentDown, toLocal>>

LEMMA MovesDown == Moves => DownMoves
BY DEF Moves, DownMoves

-----------------------------------------------------------------------------
(* Steps in which both ways rest.                                          *)

LEMMA UnderwayBegins ==
  ASSUME NEW S, NEW q \in Seq(S), NEW p \in Underway(q)
  PROVE  p \in Seq(S) /\ \E r \in Seq(S) : q = p \o r
<1>1. PICK n \in 0 .. Len(q) : p = SubSeq(q, 1, n)
  BY DEF Underway
<1>. QED  BY <1>1, Split

LEMMA NoneBegins ==
  ASSUME NEW S, NEW q \in Seq(S)
  PROVE  <<>> \in Seq(S) /\ q = <<>> \o q
BY EmptySeq, ConcatEmptySeq

LEMMA ClientTunnelsLose ==
  ASSUME DataTypeOK, NEW C, ClientTunnelsGone(C),
         \A c \in C : c \in Conns /\ \A b \in Bridges : ext'[b] # c
  PROVE  /\ kup' \in [Conns -> Seq(1 .. MaxUp)] /\ kdown' \in [Conns -> Seq(1 .. MaxDown)]
         /\ \A c \in Conns : Loses(kup, c, 1 .. MaxUp) /\ Loses(kdown, c, 1 .. MaxDown)
<1>0. \A q \in Seq(1 .. MaxUp) : \A p \in Underway(q) :
        p \in Seq(1 .. MaxUp) /\ \E r \in Seq(1 .. MaxUp) : q = p \o r
  BY UnderwayBegins
<1>1. PICK rest \in [C -> UNION {Underway(kup[c]) : c \in C}] :
        /\ \A c \in C : rest[c] \in Underway(kup[c])
        /\ kup' = [c \in Conns |-> IF c \in C THEN rest[c] ELSE kup[c]]
  BY DEF ClientTunnelsGone
<1>2. kdown' = [c \in Conns |-> IF c \in C THEN <<>> ELSE kdown[c]]
  BY DEF ClientTunnelsGone
<1>3. \A c \in Conns : kup[c] \in Seq(1 .. MaxUp) /\ kdown[c] \in Seq(1 .. MaxDown)
  BY DEF DataTypeOK
<1>4. ASSUME NEW c \in Conns
      PROVE  kup'[c] \in Seq(1 .. MaxUp) /\ Loses(kup, c, 1 .. MaxUp)
  <2>1. CASE c \in C
    <3>1. kup'[c] = rest[c] /\ rest[c] \in Underway(kup[c]) /\ kup[c] \in Seq(1 .. MaxUp)
      BY <1>1, <1>3, <2>1
    <3>2. /\ rest[c] \in Seq(1 .. MaxUp)
          /\ \E r \in Seq(1 .. MaxUp) : kup[c] = rest[c] \o r
      BY <1>0, <3>1
    <3>. QED  BY <2>1, <3>1, <3>2 DEF Loses
  <2>2. CASE c \notin C
    BY <1>1, <1>3, <2>2 DEF Loses
  <2>. QED  BY <2>1, <2>2
<1>5. ASSUME NEW c \in Conns
      PROVE  kdown'[c] \in Seq(1 .. MaxDown) /\ Loses(kdown, c, 1 .. MaxDown)
  <2>1. CASE c \in C
    <3>1. kdown'[c] = <<>>
      BY <1>2, <2>1
    <3>2. <<>> \in Seq(1 .. MaxDown) /\ kdown[c] = <<>> \o kdown[c]
      BY <1>3, NoneBegins
    <3>. QED  BY <1>3, <2>1, <3>1, <3>2 DEF Loses
  <2>2. CASE c \notin C
    BY <1>2, <1>3, <2>2 DEF Loses
  <2>. QED  BY <2>1, <2>2
<1>6. kup' \in [Conns -> Seq(1 .. MaxUp)] /\ kdown' \in [Conns -> Seq(1 .. MaxDown)]
  BY <1>1, <1>2, <1>4, <1>5
<1>. QED  BY <1>4, <1>5, <1>6

LEMMA ServerTunnelsLose ==
  ASSUME DataTypeOK, NEW C, ServerTunnelsGone(C), \A c \in C : ~ Attached(c)'
  PROVE  /\ kup' \in [Conns -> Seq(1 .. MaxUp)] /\ kdown' \in [Conns -> Seq(1 .. MaxDown)]
         /\ \A c \in Conns : Loses(kup, c, 1 .. MaxUp) /\ Loses(kdown, c, 1 .. MaxDown)
<1>0. \A q \in Seq(1 .. MaxDown) : \A p \in Underway(q) :
        p \in Seq(1 .. MaxDown) /\ \E r \in Seq(1 .. MaxDown) : q = p \o r
  BY UnderwayBegins
<1>1. PICK rest \in [C -> UNION {Underway(kdown[c]) : c \in C}] :
        /\ \A c \in C : rest[c] \in Underway(kdown[c])
        /\ kdown' = [c \in Conns |-> IF c \in C THEN rest[c] ELSE kdown[c]]
  BY DEF ServerTunnelsGone
<1>2. kup' = [c \in Conns |-> IF c \in C THEN <<>> ELSE kup[c]]
  BY DEF ServerTunnelsGone
<1>3. \A c \in Conns : kup[c] \in Seq(1 .. MaxUp) /\ kdown[c] \in Seq(1 .. MaxDown)
  BY DEF DataTypeOK
<1>4. ASSUME NEW c \in Conns
      PROVE  kdown'[c] \in Seq(1 .. MaxDown) /\ Loses(kdown, c, 1 .. MaxDown)
  <2>1. CASE c \in C
    <3>1. kdown'[c] = rest[c] /\ rest[c] \in Underway(kdown[c]) /\ kdown[c] \in Seq(1 .. MaxDown)
      BY <1>1, <1>3, <2>1
    <3>2. /\ rest[c] \in Seq(1 .. MaxDown)
          /\ \E r \in Seq(1 .. MaxDown) : kdown[c] = rest[c] \o r
      BY <1>0, <3>1
    <3>. QED  BY <2>1, <3>1, <3>2 DEF Loses
  <2>2. CASE c \notin C
    BY <1>1, <1>3, <2>2 DEF Loses
  <2>. QED  BY <2>1, <2>2
<1>5. ASSUME NEW c \in Conns
      PROVE  kup'[c] \in Seq(1 .. MaxUp) /\ Loses(kup, c, 1 .. MaxUp)
  <2>1. CASE c \in C
    <3>1. kup'[c] = <<>>
      BY <1>2, <2>1
    <3>2. <<>> \in Seq(1 .. MaxUp) /\ kup[c] = <<>> \o kup[c]
      BY <1>3, NoneBegins
    <3>. QED  BY <1>3, <2>1, <3>1, <3>2 DEF Loses
  <2>2. CASE c \notin C
    BY <1>2, <1>3, <2>2 DEF Loses
  <2>. QED  BY <2>1, <2>2
<1>6. kup' \in [Conns -> Seq(1 .. MaxUp)] /\ kdown' \in [Conns -> Seq(1 .. MaxDown)]
  BY <1>1, <1>2, <1>4, <1>5
<1>. QED  BY <1>4, <1>5, <1>6

\* Nothing is sent, passed on or cached; what is lost is lost with a tunnel's end.
Idle ==
  /\ Calm
  /\ kup' \in [Conns -> Seq(1 .. MaxUp)] /\ kdown' \in [Conns -> Seq(1 .. MaxDown)]
  /\ \A c \in Conns : Loses(kup, c, 1 .. MaxUp) /\ Loses(kdown, c, 1 .. MaxDown)
  /\ UNCHANGED <<clientData, serverData, addr>>

LEMMA IdleRests ==
  ASSUME DataTypeOK, Idle
  PROVE  DataTypeOK' /\ UploadRests /\ DownloadRests
<1>1. UNCHANGED <<sentUp, ccache, toLocal, scache, sentDown, int, intCool, icache, toServer, addr>>
  BY DEF Idle, clientData, serverData
<1>2. DataTypeOK'
  BY <1>1 DEF Idle, DataTypeOK, Calm
<1>3. UploadRests
  BY <1>1 DEF Idle, Calm, UploadRests, Caches, IntMoves
<1>4. DownloadRests
  BY <1>1, MovesDown DEF Idle, Calm, DownloadRests
<1>. QED  BY <1>2, <1>3, <1>4

LEMMA QuietIsIdle ==
  ASSUME DataTypeOK, Calm, UNCHANGED dataVars
  PROVE  Idle
<1>1. UNCHANGED <<clientData, serverData, kup, kdown, addr>>
  BY DEF dataVars, tunnelData
<1>2. kup \in [Conns -> Seq(1 .. MaxUp)] /\ kdown \in [Conns -> Seq(1 .. MaxDown)]
  BY DEF DataTypeOK
<1>. QED  BY <1>1, <1>2 DEF Idle, Loses

LEMMA QuietStepsIdle ==
  ASSUME HandshakeInv, DataTypeOK
  PROVE  /\ \A b \in Bridges : ClientQuiet(b) => Idle
         /\ \A c \in Conns : ServerQuiet(c) => Idle
<1>1. ASSUME NEW b \in Bridges, ClientQuiet(b) PROVE Idle
  <2>1. Calm /\ UNCHANGED dataVars
    BY <1>1, QuietIsCalm, AcceptLocalIsCalm DEF ClientQuiet
  <2>. QED  BY <2>1, QuietIsIdle
<1>2. ASSUME NEW c \in Conns, ServerQuiet(c) PROVE Idle
  <2>1. Calm /\ UNCHANGED dataVars
    BY <1>2, ServerIsCalm DEF ServerQuiet
  <2>. QED  BY <2>1, QuietIsIdle
<1>. QED  BY <1>1, <1>2

LEMMA LossesIdle ==
  ASSUME HandshakeInv, DataTypeOK
  PROVE  /\ \A b \in Bridges : ClientLoses(b) => Idle
         /\ DataClientUpdate => Idle
         /\ \A c \in Conns : ServerLoses(c) => Idle
<1>1. ASSUME NEW b \in Bridges, ClientLoses(b) PROVE Idle
  <2>1. Calm /\ \A c \in Dropped(b) : c \in Conns /\ \A a \in Bridges : ext'[a] # c
    BY <1>1, ClientLossIsCalm DEF ClientLoses
  <2>2. ClientTunnelsGone(Dropped(b)) /\ UNCHANGED <<clientData, serverData>>
    BY <1>1 DEF ClientLoses
  <2>3. UNCHANGED addr
    BY <2>2 DEF ClientTunnelsGone
  <2>. QED  BY <2>1, <2>2, <2>3, ClientTunnelsLose DEF Idle
<1>2. ASSUME DataClientUpdate PROVE Idle
  <2>. DEFINE C == UNION {Dropped(b) : b \in ShutBridges}
  <2>1. Calm /\ \A c \in C : c \in Conns /\ \A a \in Bridges : ext'[a] # c
    BY <1>2, ClientUpdateIsCalm DEF DataClientUpdate
  <2>2. ClientTunnelsGone(C) /\ UNCHANGED <<clientData, serverData>>
    BY <1>2 DEF DataClientUpdate, ShutBridges
  <2>3. UNCHANGED addr
    BY <2>2 DEF ClientTunnelsGone
  <2>. HIDE DEF C
  <2>. QED  BY <2>1, <2>2, <2>3, ClientTunnelsLose DEF Idle
<1>3. ASSUME NEW c \in Conns, ServerLoses(c) PROVE Idle
  <2>1. Calm /\ ~ Attached(c)'
    BY <1>3, ServerLossIsCalm DEF ServerLoses
  <2>2. ServerTunnelsGone({c}) /\ UNCHANGED <<clientData, serverData>>
    BY <1>3 DEF ServerLoses
  <2>3. UNCHANGED addr
    BY <2>2 DEF ServerTunnelsGone
  <2>4. \A d \in {c} : ~ Attached(d)'
    BY <2>1 DEF Attached
  <2>. QED  BY <2>1, <2>2, <2>3, <2>4, ServerTunnelsLose DEF Idle
<1>. QED  BY <1>1, <1>2, <1>3

LEMMA AcceptRests ==
  ASSUME HandshakeInv, DataTypeOK, NEW c \in Conns, DataAccept(c)
  PROVE  DataTypeOK' /\ UploadRests /\ DownloadRests
<1>1. /\ UNCHANGED <<sentUp, ccache, toLocal, kup, kdown, addr, scache, sentDown, intCool,
                     icache, toServer>>
      /\ int' = [int EXCEPT ![c] = "connecting"]
  BY DEF DataAccept, clientData, tunnelData
<1>2. /\ Moves /\ IntLives(c)' /\ \A d \in Conns \ {c} : IntLives(d)' <=> IntLives(d)
  BY AcceptMoves DEF DataAccept
<1>3. /\ int'[c] = "connecting" /\ \A d \in Conns \ {c} : int'[d] = int[d]
      /\ int' \in [Conns -> {"none", "connecting", "connected", "down", "deaf"}]
  BY <1>1 DEF DataTypeOK
<1>4. \A d \in Conns : IntLives(d)' <=> int'[d] # "none"
  BY <1>2, <1>3 DEF DataTypeOK
<1>5. DataTypeOK'
  BY <1>1, <1>3, <1>4 DEF DataTypeOK
<1>6. UploadRests
  BY <1>1, <1>2, <1>3 DEF UploadRests, Loses, Caches, IntMoves
<1>7. DownloadRests
  BY <1>1, <1>2, MovesDown DEF DownloadRests, Loses
<1>. QED  BY <1>5, <1>6, <1>7

LEMMA ServerUpdateRests ==
  ASSUME HandshakeInv, DataTypeOK, DataServerUpdate
  PROVE  DataTypeOK' /\ UploadRests /\ DownloadRests
<1>. DEFINE C == {c \in ShutSessions : stun[c] # None}
<1>1. /\ UNCHANGED <<sentUp, ccache, toLocal, scache, sentDown, intCool, icache, toServer>>
      /\ int' = [c \in Conns |-> IF c \in ShutSessions THEN "none" ELSE int[c]]
      /\ ServerTunnelsGone(C) /\ UNCHANGED addr
  BY DEF DataServerUpdate, clientData, IntConnsGone, ServerTunnelsGone
<1>2. /\ Moves
      /\ \A c \in Conns : IF c \in ShutSessions THEN ~ IntLives(c)' /\ ~ Attached(c)'
                          ELSE IntLives(c)' <=> IntLives(c)
  BY ServerUpdateMoves DEF DataServerUpdate
<1>3. \A c \in C : ~ Attached(c)'
  BY <1>2 DEF ShutSessions
<1>. HIDE DEF C
<1>4. /\ kup' \in [Conns -> Seq(1 .. MaxUp)] /\ kdown' \in [Conns -> Seq(1 .. MaxDown)]
      /\ \A c \in Conns : Loses(kup, c, 1 .. MaxUp) /\ Loses(kdown, c, 1 .. MaxDown)
  BY <1>1, <1>3, ServerTunnelsLose
<1>5. /\ int' \in [Conns -> {"none", "connecting", "connected", "down", "deaf"}]
      /\ \A c \in Conns : int'[c] = "none" \/ int'[c] = int[c]
      /\ \A c \in Conns : IntLives(c)' <=> int'[c] # "none"
  BY <1>1, <1>2 DEF DataTypeOK
<1>6. DataTypeOK'
  BY <1>1, <1>4, <1>5 DEF DataTypeOK
<1>7. UploadRests
  BY <1>1, <1>2, <1>4, <1>5 DEF UploadRests, Caches, IntMoves
<1>8. DownloadRests
  BY <1>1, <1>2, <1>4, MovesDown DEF DownloadRests
<1>. QED  BY <1>6, <1>7, <1>8

\* The connection to ss-server is lost, or made again, or may be.
LEMMA IntRests ==
  ASSUME DataTypeOK, NEW c \in Conns, IntLost(c) \/ IntCoolDown(c)
  PROVE  DataTypeOK' /\ UploadRests /\ DownloadRests
<1>1. UNCHANGED <<bridge, ext, ctun, sess, stun, sentUp, ccache, toLocal, kup, kdown, addr,
                  scache, sentDown, icache, toServer>>
  BY DEF IntLost, IntFault, IntCoolDown, clientVars, serverVars, vars, clientData, tunnelData
<1>2. Calm
  BY <1>1, StayCalm
<1>3. /\ \A d \in Conns \ {c} : int'[d] = int[d]
      /\ int' \in [Conns -> {"none", "connecting", "connected", "down", "deaf"}]
      /\ intCool' \in [Conns -> BOOLEAN]
      /\ IntMoves(c) /\ (int[c] # "none" <=> int'[c] # "none")
  BY DEF IntLost, IntCoolDown, Reconnect, IntMoves, DataTypeOK
<1>4. \A d \in Conns : IntMoves(d) /\ (IntLives(d)' <=> int'[d] # "none")
  BY <1>2, <1>3 DEF IntMoves, DataTypeOK, Calm
<1>5. DataTypeOK'
  BY <1>1, <1>3, <1>4 DEF DataTypeOK
<1>6. UploadRests
  BY <1>1, <1>2, <1>4 DEF UploadRests, Loses, Caches, Calm
<1>7. DownloadRests
  BY <1>1, <1>2, MovesDown DEF DownloadRests, Loses, Calm
<1>. QED  BY <1>5, <1>6, <1>7

\* What ss-local sends while there is no tunnel.
LEMMA LocalCacheRests ==
  ASSUME HandshakeInv, DataTypeOK, NEW b \in Bridges, LocalSend(b), ctun[b] = None
  PROVE  DataTypeOK' /\ UploadRests /\ DownloadRests
<1>1. /\ UNCHANGED <<toLocal, kup, kdown, addr, scache, sentDown, int, intCool, icache, toServer>>
      /\ sentUp[b] < MaxUp /\ sentUp' = [sentUp EXCEPT ![b] = @ + 1]
      /\ ccache' = [ccache EXCEPT ![b] = @ \o <<sentUp[b] + 1>>]
  BY DEF LocalSend, SendUp, serverData
<1>2. Calm /\ ctun'[b] = None
  <2>1. CASE RetryOnData(b)
    BY <2>1, RetryIsCalm
  <2>2. CASE UNCHANGED vars
    BY <2>2, StayCalm DEF vars, clientVars, serverVars
  <2>. QED  BY <2>1, <2>2 DEF LocalSend
<1>3. MaxUp \in Nat /\ sentUp[b] \in 0 .. MaxUp /\ ccache[b] \in Seq(1 .. MaxUp)
  BY ProxyPathAssumption DEF DataTypeOK
<1>4. sentUp[b] + 1 \in 0 .. MaxUp /\ ccache[b] \o <<sentUp[b] + 1>> \in Seq(1 .. MaxUp)
  <2>1. sentUp[b] + 1 \in 1 .. MaxUp
    BY <1>1, <1>3
  <2>2. <<sentUp[b] + 1>> \in Seq(1 .. MaxUp)
    BY <2>1
  <2>. QED  BY <1>3, <2>1, <2>2, ConcatProperties
<1>5. /\ sentUp'[b] = sentUp[b] + 1 /\ ccache'[b] = ccache[b] \o <<sentUp[b] + 1>>
      /\ \A a \in Bridges \ {b} : sentUp'[a] = sentUp[a] /\ ccache'[a] = ccache[a]
      /\ sentUp' \in [Bridges -> 0 .. MaxUp] /\ ccache' \in [Bridges -> Seq(1 .. MaxUp)]
  BY <1>1, <1>4 DEF DataTypeOK
<1>6. DataTypeOK'
  BY <1>1, <1>2, <1>5 DEF DataTypeOK, Calm
<1>7. \A a \in Bridges : Caches(a)
  BY <1>1, <1>2, <1>5 DEF Caches
<1>8. UploadRests
  BY <1>1, <1>2, <1>7 DEF UploadRests, Loses, IntMoves, Calm
<1>9. DownloadRests
  BY <1>1, <1>2, MovesDown DEF DownloadRests, Loses, Calm
<1>. QED  BY <1>6, <1>8, <1>9

-----------------------------------------------------------------------------
(* A bridge sends.                                                         *)

LEMMA MoreOfIt ==
  ASSUME NEW m \in Nat, NEW s \in Seq(1 .. m), NEW x \in Seq(1 .. m), NEW n \in Nat,
         Increasing(s), EndsAt(x, n), \A i \in 1 .. Len(s) : s[i] <= n - Len(x)
  PROVE  Increasing(s \o x) /\ \A i \in 1 .. Len(s \o x) : (s \o x)[i] <= n
<1>1. /\ Len(s) \in Nat /\ Len(x) \in Nat /\ s \o x \in Seq(1 .. m)
      /\ \A i \in 1 .. Len(s) : s[i] \in Nat
      /\ \A i \in 1 .. Len(x) : x[i] \in Nat
  BY ConcatAt, NumbersInSeq
<1>2. /\ Len(x) <= n /\ Increasing(x)
      /\ \A i \in 1 .. Len(x) : x[i] = n - Len(x) + i
  BY EndsIsRun DEF EndsAt
<1>3. \A i \in 1 .. Len(s), j \in 1 .. Len(x) : s[i] < x[j]
  BY <1>1, <1>2
<1>4. Increasing(s \o x)
  BY <1>2, <1>3, IncreasingConcat
<1>5. Range(s \o x) = Range(s) \cup Range(x)
  BY RangeConcat
<1>6. \A k \in Range(s) \cup Range(x) : k <= n
  <2>1. /\ DOMAIN s = 1 .. Len(s) /\ DOMAIN x = 1 .. Len(x)
    BY LenProperties
  <2>. QED  BY <1>1, <1>2, <2>1 DEF Range
<1>7. \A i \in 1 .. Len(s \o x) : (s \o x)[i] \in Range(s \o x)
  BY <1>1, LenProperties DEF Range
<1>. QED  BY <1>4, <1>5, <1>6, <1>7

\* What is put into the tunnel comes last.
LEMMA TunnelTakes ==
  ASSUME DataTypeOK, IntCached, NEW c \in Conns, NEW x \in Seq(1 .. MaxUp),
         UNCHANGED <<int, icache, toServer>>, kup'[c] = kup[c] \o x
  PROVE  Stream(c)' = Stream(c) \o x /\ Flow(c)' = Flow(c) \o x
<1>. DEFINE g == Given(c)
            l == Latest(c)
            i == icache[c]
            k == kup[c]
            ik == i \o k
<1>1. /\ g \in Seq(1 .. MaxUp) /\ l \in Seq(1 .. MaxUp) /\ i \in Seq(1 .. MaxUp)
      /\ k \in Seq(1 .. MaxUp)
  BY PathTypes, LatestIsSeq
<1>2. Stream(c)' = g \o (i \o (k \o x)) /\ Flow(c)' = l \o (i \o (k \o x))
  BY DEF Stream, Flow, Given, Latest
<1>3. Stream(c) = g \o ik /\ Flow(c) = l \o ik
  BY DEF Stream, Flow
<1>. HIDE DEF g, l, i, k
<1>x. x \in Seq(1 .. MaxUp)
  OBVIOUS
<1>4. (i \o k) \o x = i \o (k \o x)
  <2>1. i \in Seq(1 .. MaxUp) /\ k \in Seq(1 .. MaxUp) /\ x \in Seq(1 .. MaxUp)
    BY <1>1, <1>x
  <2>. QED  BY <2>1, ConcatAssociative
<1>5. ik \in Seq(1 .. MaxUp) /\ i \o (k \o x) = ik \o x
  BY <1>1, <1>4, ConcatProperties
<1>. HIDE DEF ik
<1>6. (g \o ik) \o x = g \o (ik \o x)
  <2>1. g \in Seq(1 .. MaxUp) /\ ik \in Seq(1 .. MaxUp) /\ x \in Seq(1 .. MaxUp)
    BY <1>1, <1>5, <1>x
  <2>. QED  BY <2>1, ConcatAssociative
<1>7. (l \o ik) \o x = l \o (ik \o x)
  <2>1. l \in Seq(1 .. MaxUp) /\ ik \in Seq(1 .. MaxUp) /\ x \in Seq(1 .. MaxUp)
    BY <1>1, <1>5, <1>x
  <2>. QED  BY <2>1, ConcatAssociative
<1>. QED  BY <1>2, <1>3, <1>5, <1>6, <1>7

\* The latest connection to ss-server has the last of what was given.
LEMMA GivenEndsWithLast ==
  ASSUME DataTypeOK, IntCached, NEW c \in Conns, int[c] \in {"connected", "deaf"}
  PROVE  /\ Last(toServer[c]) \in Seq(1 .. MaxUp)
         /\ \E ss \in Seq(Seq(1 .. MaxUp)) :
              /\ toServer[c] = Append(ss, Last(toServer[c])) /\ Len(toServer[c]) = Len(ss) + 1
              /\ Len(ss) \in Nat
              /\ FlattenSeq(ss) \in Seq(1 .. MaxUp)
              /\ Given(c) = FlattenSeq(ss) \o Last(toServer[c])
<1>. DEFINE s == toServer[c]
            n == Len(toServer[c])
<1>1. /\ s \in Seq(Seq(1 .. MaxUp)) /\ n \in Nat /\ n \in 1 .. n
      /\ Last(toServer[c]) = s[n] /\ s[n] \in Seq(1 .. MaxUp)
  BY PathTypes, LatestIsSeq, LenProperties, ElementOfSeq DEF Last
<1>2. PICK ss \in Seq(Seq(1 .. MaxUp)) : s = Append(ss, s[n])
  <2>. HIDE DEF s
  <2>1. s # <<>> /\ n = Len(s)
    BY <1>1, EmptySeq DEF s
  <2>2. PICK ss \in Seq(Seq(1 .. MaxUp)), e \in Seq(1 .. MaxUp) : s = Append(ss, e)
    BY <1>1, <2>1, SequenceEmptyOrAppend
  <2>3. Len(s) = Len(ss) + 1 /\ s[Len(ss) + 1] = e
    BY <2>2, AppendProperties
  <2>. QED  BY <2>1, <2>2, <2>3
<1>. HIDE DEF s, n
<1>3. Len(s) = Len(ss) + 1 /\ Len(ss) \in Nat
  BY <1>1, <1>2, AppendProperties, LenProperties
<1>4. FlattenSeq(s) = FlattenSeq(ss) \o s[n]
  BY <1>1, <1>2, FlattenAppend
<1>5. FlattenSeq(ss) \in Seq(1 .. MaxUp)
  BY FlattenIsSeq
<1>. QED  BY <1>1, <1>2, <1>3, <1>4, <1>5 DEF Given, s

LEMMA NothingFlows ==
  ASSUME DataTypeOK, IntCached, NEW c \in Conns, Stream(c) = <<>>
  PROVE  Flow(c) = <<>>
<1>1. Given(c) = <<>> /\ icache[c] = <<>> /\ kup[c] = <<>>
  BY StreamIsEmpty
<1>2. Latest(c) = <<>>
  <2>1. CASE int[c] = "connected"
    <3>1. PICK ss \in Seq(Seq(1 .. MaxUp)) :
            /\ FlattenSeq(ss) \in Seq(1 .. MaxUp) /\ Given(c) = FlattenSeq(ss) \o Latest(c)
      BY <2>1, GivenEndsWithLast DEF Latest, Last
    <3>2. Latest(c) \in Seq(1 .. MaxUp) /\ FlattenSeq(ss) \o Latest(c) = <<>>
      BY <1>1, <3>1, LatestIsSeq
    <3>. QED  BY <3>1, <3>2, BothEmpty
  <2>2. CASE int[c] # "connected"
    BY <2>2 DEF Latest
  <2>. QED  BY <2>1, <2>2
<1>3. <<>> \o <<>> = <<>>
  BY ConcatEmptySeq, EmptySeq
<1>. QED  BY <1>1, <1>2, <1>3 DEF Flow

\* What the tunnel of bridge b takes ends what ss-local has sent.
TunnelSends(b, c, x) ==
  /\ c = ext[b] /\ ctun'[b] # None /\ sess[c] # "none"
  /\ UNCHANGED <<ext, sess, stun, int, icache, toServer>>
  /\ \A a \in Bridges \ {b} : /\ ctun'[a] = ctun[a]
                              /\ ccache'[a] = ccache[a] /\ sentUp'[a] = sentUp[a]
  /\ \A d \in Conns \ {c} : kup'[d] = kup[d]
  /\ x \in Seq(1 .. MaxUp) /\ kup'[c] = kup[c] \o x
  /\ sentUp'[b] \in Nat /\ EndsAt(x, sentUp'[b]) /\ ccache'[b] = <<>>
  /\ \/ Stream(c) = <<>> /\ x = ccache[b] /\ sentUp'[b] = sentUp[b]
     \/ ctun[b] # None /\ sentUp[b] = sentUp'[b] - Len(x)

LEMMA TunnelSendsSends ==
  ASSUME DataTypeOK, UploadInv, NEW b \in Bridges, NEW c \in Conns, None # c,
         NEW x, TunnelSends(b, c, x)
  PROVE  BridgeSends(b, c)
<1>. DEFINE n == sentUp'[b]
            s == Stream(c)
            f == Flow(c)
<1>1. /\ MaxUp \in Nat /\ x \in Seq(1 .. MaxUp) /\ n \in Nat /\ EndsAt(x, n) /\ IntCached
      /\ s \in Seq(1 .. MaxUp) /\ f \in Seq(1 .. MaxUp)
  BY PathTypes, LatestIsSeq DEF TunnelSends, UploadInv
<1>2. Stream(c)' = s \o x /\ Flow(c)' = f \o x
  BY <1>1, TunnelTakes DEF TunnelSends
<1>3. Increasing(s) /\ Len(x) \in Nat /\ Len(x) <= n
  BY <1>1, LenProperties DEF UploadInv, StreamGrows, EndsAt
<1>4. \A i \in 1 .. Len(s) : s[i] <= n - Len(x)
  <2>1. CASE Stream(c) = <<>>
    <3>1. Len(s) = 0
      BY <2>1, EmptySeq
    <3>. QED  BY <3>1
  <2>2. CASE ctun[b] # None /\ sentUp[b] = sentUp'[b] - Len(x)
    <3>1. c = ext[b]
      BY DEF TunnelSends
    <3>. QED  BY <2>2, <3>1 DEF UploadInv, StreamGrows
  <2>. QED  BY <2>1, <2>2 DEF TunnelSends
<1>5. Attached(c) => EndsAt(f \o x, n)
  <2>1. CASE Stream(c) = <<>>
    <3>1. f \o x = x
      BY <1>1, <2>1, NothingFlows, ConcatEmptySeq
    <3>. QED  BY <1>1, <3>1
  <2>2. CASE ctun[b] # None /\ sentUp[b] = sentUp'[b] - Len(x)
    <3>1. Attached(c) => EndsAt(f, sentUp[b])
      BY <2>2 DEF TunnelSends, UploadInv, FlowIsRun
    <3>. HIDE DEF f
    <3>2. Attached(c) => EndsAt(f, n - Len(x))
      BY <2>2, <3>1
    <3>. HIDE DEF n
    <3>. QED  BY <1>1, <3>2, EndsConcat
  <2>. QED  BY <2>1, <2>2 DEF TunnelSends
<1>. HIDE DEF n, s, f
<1>6. Increasing(s \o x) /\ \A i \in 1 .. Len(s \o x) : (s \o x)[i] <= n
  BY <1>1, <1>3, <1>4, MoreOfIt
<1>7. EndsAt(<<>>, n)
  BY <1>1, EndsNone
<1>. QED  BY <1>2, <1>5, <1>6, <1>7 DEF BridgeSends, TunnelSends, n

LEMMA LocalSendSends ==
  ASSUME HandshakeInv, DataTypeOK, UploadInv, NEW b \in Bridges, LocalSend(b), ctun[b] # None
  PROVE  /\ DataTypeOK' /\ DownloadRests
         /\ \E c \in Conns \ {None} : TunnelSends(b, c, <<sentUp[b] + 1>>)
<1>. DEFINE x == <<sentUp[b] + 1>>
<1>1. PICK c \in Conns : c = ext[b] /\ c # None /\ cst[c] = "connected" /\ sess[c] # "none"
  BY DEF HandshakeInv, Handshake, Paired, TypeOK
<1>2. UNCHANGED vars
  BY <1>1 DEF LocalSend, RetryOnData
<1>3. ccache[b] = <<>> /\ EndsAt(<<>>, sentUp[b])
  BY DEF UploadInv, CacheIsRun
<1>4. /\ MaxUp \in Nat /\ sentUp[b] \in 0 .. MaxUp /\ sentUp[b] < MaxUp
      /\ kup[c] \in Seq(1 .. MaxUp)
  BY ProxyPathAssumption DEF DataTypeOK, LocalSend
<1>5. x \in Seq(1 .. MaxUp) /\ Len(x) = 1
  <2>1. sentUp[b] + 1 \in 1 .. MaxUp
    BY <1>4
  <2>. QED  BY <2>1
<1>6. /\ UNCHANGED <<toLocal, kdown, addr, scache, sentDown, int, intCool, icache, toServer>>
      /\ sentUp' = [sentUp EXCEPT ![b] = @ + 1]
      /\ ccache' = [ccache EXCEPT ![b] = <<>>]
      /\ kup' = [kup EXCEPT ![c] = (@ \o ccache[b]) \o x]
  BY <1>1 DEF LocalSend, SendUp, serverData
<1>. HIDE DEF x
<1>7. kup[c] \o ccache[b] = kup[c]
  BY <1>3, <1>4, ConcatEmptySeq
<1>8. kup[c] \o x \in Seq(1 .. MaxUp) /\ <<>> \in Seq(1 .. MaxUp)
  BY <1>4, <1>5, ConcatProperties, EmptySeq
<1>9. /\ kup' \in [Conns -> Seq(1 .. MaxUp)] /\ kup'[c] = kup[c] \o x
      /\ \A d \in Conns \ {c} : kup'[d] = kup[d]
  BY <1>6, <1>7, <1>8 DEF DataTypeOK
<1>10. /\ sentUp' \in [Bridges -> 0 .. MaxUp] /\ sentUp'[b] = sentUp[b] + 1
       /\ ccache' \in [Bridges -> Seq(1 .. MaxUp)] /\ ccache'[b] = <<>>
       /\ \A a \in Bridges \ {b} : sentUp'[a] = sentUp[a] /\ ccache'[a] = ccache[a]
  BY <1>4, <1>6, <1>8 DEF DataTypeOK
<1>11. Calm /\ UNCHANGED <<bridge, ext, ctun, sess, stun>>
  BY <1>2, StayCalm DEF vars, clientVars, serverVars
<1>12. DataTypeOK'
  BY <1>6, <1>9, <1>10, <1>11 DEF DataTypeOK, Calm
<1>13. DownloadRests
  BY <1>6, <1>11, MovesDown DEF DownloadRests, Loses, Calm
<1>14. EndsAt(x, sentUp[b] + 1)
  <2>1. EndsAt(<<>> \o <<sentUp[b] + 1>>, sentUp[b] + 1)
    <3>1. <<>> \in Seq(1 .. MaxUp) /\ sentUp[b] \in Nat /\ EndsAt(<<>>, sentUp[b])
      BY <1>3, <1>4, <1>8
    <3>. QED  BY <1>4, <3>1, EndsOneMore
  <2>2. <<>> \o x = x
    BY <1>5, ConcatEmptySeq
  <2>. QED  BY <2>1, <2>2 DEF x
<1>15. TunnelSends(b, c, x)
  <2>1. /\ sentUp'[b] \in Nat /\ EndsAt(x, sentUp'[b])
        /\ ctun[b] # None /\ sentUp[b] = sentUp'[b] - Len(x)
    BY <1>4, <1>5, <1>10, <1>14
  <2>. QED  BY <1>1, <1>5, <1>6, <1>9, <1>10, <1>11, <2>1 DEF TunnelSends
<1>. QED  BY <1>1, <1>12, <1>13, <1>15 DEF x

LEMMA CreateSends ==
  ASSUME HandshakeInv, DataTypeOK, UploadInv, NEW b \in Bridges, DataRecvCreate(b)
  PROVE  /\ DataTypeOK' /\ DownloadRests
         /\ \E c \in Conns \ {None} : TunnelSends(b, c, ccache[b])
<1>t. TypeOK /\ Fresh /\ CreateFirst /\ None \notin Conns
  BY FastTunnelAssumption DEF HandshakeInv, Handshake
<1>1. PICK c \in Conns : c = ext[b] /\ down[c] # <<>> /\ down[c] \in Seq(Msg)
  BY <1>t DEF DataRecvCreate, ClientRecvCreate, ClientHears, TypeOK
<1>2. /\ UNCHANGED <<bridge, ext, sess, stun>>
      /\ Head(down[c]).type = "Create"
      /\ ctun' = [ctun EXCEPT ![b] = Head(down[c]).conv]
  BY <1>1 DEF DataRecvCreate, ClientRecvCreate, serverVars
<1>3. /\ UNCHANGED <<sentUp, toLocal, kdown, addr, scache, sentDown, int, intCool, icache, toServer>>
      /\ kup' = [kup EXCEPT ![c] = ccache[b]]
      /\ ccache' = [ccache EXCEPT ![b] = <<>>]
  BY <1>1 DEF DataRecvCreate, FlushUp, serverData
<1>4. sess[c] # "none"
  BY <1>t, <1>1 DEF Fresh
<1>5. Head(down[c]) = down[c][1] /\ 1 \in DOMAIN down[c]
  BY <1>1, AfterTail
<1>6. ctun[b] = None /\ Head(down[c]).conv # None
  <2>1. ctun[b] = None
    BY <1>t, <1>1, <1>2, <1>5 DEF CreateFirst
  <2>2. Head(down[c]) \in Msg
    BY <1>1, HeadTailProperties
  <2>3. Head(down[c]).conv \in Convs
    BY <1>2, <2>2, KindsDiffer DEF Msg
  <2>. QED  BY <2>1, <2>3, NoneIsNoConv
<1>7. Stream(c) = <<>>
  BY <1>t, <1>1, <1>6 DEF UploadInv, NothingEarly
<1>8. kup[c] = <<>>
  BY <1>7, StreamIsEmpty
<1>9. /\ ccache[b] \in Seq(1 .. MaxUp) /\ EndsAt(ccache[b], sentUp[b])
      /\ MaxUp \in Nat /\ sentUp[b] \in Nat /\ <<>> \in Seq(1 .. MaxUp)
  BY ProxyPathAssumption, EmptySeq DEF UploadInv, CacheIsRun, DataTypeOK
<1>10. <<>> \o ccache[b] = ccache[b]
  BY <1>9, ConcatEmptySeq
<1>11. /\ kup' \in [Conns -> Seq(1 .. MaxUp)] /\ kup'[c] = kup[c] \o ccache[b]
       /\ \A d \in Conns \ {c} : kup'[d] = kup[d]
  BY <1>3, <1>8, <1>9, <1>10 DEF DataTypeOK
<1>12. /\ ccache' \in [Bridges -> Seq(1 .. MaxUp)] /\ ccache'[b] = <<>>
       /\ \A a \in Bridges \ {b} : ccache'[a] = ccache[a]
  BY <1>3, <1>9 DEF DataTypeOK
<1>13. /\ ctun'[b] # None /\ \A a \in Bridges \ {b} : ctun'[a] = ctun[a]
  BY <1>t, <1>2, <1>6 DEF TypeOK
<1>14. DataTypeOK'
  BY <1>2, <1>3, <1>11, <1>12 DEF DataTypeOK, IntLives
<1>15. DownloadRests
  BY <1>2, <1>3 DEF DownloadRests, DownMoves, Loses, Attached
<1>16. TunnelSends(b, c, ccache[b])
  BY <1>1, <1>2, <1>3, <1>4, <1>7, <1>9, <1>11, <1>12, <1>13 DEF TunnelSends
<1>. QED  BY <1>t, <1>14, <1>15, <1>16

-----------------------------------------------------------------------------
(* A session passes on what came up.                                       *)

\* Nothing is lost on the way.
Keeps(c) ==
  /\ UNCHANGED <<ext, ctun, sess, stun, sentUp, ccache>>
  /\ \A d \in Conns \ {c} : /\ kup'[d] = kup[d] /\ icache'[d] = icache[d]
                            /\ toServer'[d] = toServer[d] /\ int'[d] = int[d]
  /\ Stream(c)' = Stream(c)
  /\ \A n \in Nat : EndsAt(Flow(c), n) => EndsAt(Flow(c)', n)
  /\ IsRun(Flow(c)) => IsRun(Flow(c)')
  /\ int'[c] \in {"connected", "deaf"} => toServer'[c] # <<>> /\ icache'[c] = <<>>
  /\ IsRun(icache'[c]) /\ IsRun(Latest(c)')

\* ss-server is given more of it, or nothing.
Gives(c) == \E x \in Seq(1 .. MaxUp) : Given(c)' = Given(c) \o x

LEMMA KeepsPasses ==
  ASSUME UploadInv, NEW c \in Conns, Keeps(c)
  PROVE  SessionPasses(c)
<1>1. Increasing(Stream(c)) /\ (Attached(c) => IsRun(Flow(c)))
  BY DEF UploadInv, StreamGrows, FlowIsRun
<1>. QED  BY <1>1 DEF Keeps, SessionPasses

\* What the step leaves alone, and the rest of its types.
LEMMA IntConnectedKeeps ==
  ASSUME DataTypeOK, UploadInv, NEW c \in Conns, IntConnected(c), UNCHANGED vars, StartWithCache(c)
  PROVE  DataTypeOK' /\ DownloadRests /\ Keeps(c) /\ Gives(c)
<1>1. /\ UNCHANGED <<bridge, ext, ctun, sess, stun, sentUp, ccache, toLocal, kup, kdown,
                     addr, scache, sentDown, intCool>>
      /\ int[c] = "connecting" /\ int' = [int EXCEPT ![c] = "connected"]
      /\ toServer' = [toServer EXCEPT ![c] = Append(@, icache[c])]
      /\ icache' = [icache EXCEPT ![c] = <<>>]
  BY DEF IntConnected, StartWithCache, StartWith, vars, clientVars, serverVars, clientData,
         tunnelData
<1>2. /\ kup[c] \in Seq(1 .. MaxUp) /\ icache[c] \in Seq(1 .. MaxUp)
      /\ toServer[c] \in Seq(Seq(1 .. MaxUp)) /\ Given(c) \in Seq(1 .. MaxUp)
      /\ <<>> \in Seq(1 .. MaxUp)
  BY PathTypes, EmptySeq
<1>3. /\ Append(toServer[c], icache[c]) \in Seq(Seq(1 .. MaxUp))
      /\ Append(toServer[c], icache[c]) # <<>>
      /\ Len(Append(toServer[c], icache[c])) = Len(toServer[c]) + 1
      /\ \A k \in 1 .. Len(toServer[c]) : Append(toServer[c], icache[c])[k] = toServer[c][k]
      /\ Append(toServer[c], icache[c])[Len(toServer[c]) + 1] = icache[c]
  BY <1>2, AppendProperties, ZenonT(60)
<1>4. /\ int'[c] = "connected" /\ \A d \in Conns \ {c} : int'[d] = int[d]
      /\ int' \in [Conns -> {"none", "connecting", "connected", "down", "deaf"}]
      /\ icache'[c] = <<>> /\ \A d \in Conns \ {c} : icache'[d] = icache[d]
      /\ icache' \in [Conns -> Seq(1 .. MaxUp)]
  BY <1>1, <1>2 DEF DataTypeOK
<1>5. /\ toServer'[c] = Append(toServer[c], icache[c])
      /\ \A d \in Conns \ {c} : toServer'[d] = toServer[d]
      /\ toServer' \in [Conns -> Seq(Seq(1 .. MaxUp))]
  BY <1>1, <1>3 DEF DataTypeOK
<1>6. DataTypeOK'
  BY <1>1, <1>4, <1>5 DEF DataTypeOK, IntLives
<1>7. DownloadRests
  BY <1>1 DEF DownloadRests, DownMoves, Loses, Attached
<1>8. Stream(c)' = Stream(c)
  <2>1. Given(c)' = Given(c) \o icache[c]
    BY <1>2, <1>5, FlattenAppend DEF Given
  <2>2. icache'[c] \o kup'[c] = kup[c]
    BY <1>1, <1>2, <1>4, ConcatEmptySeq
  <2>3. Stream(c)' = (Given(c) \o icache[c]) \o kup[c]
    BY <2>1, <2>2 DEF Stream
  <2>. DEFINE g == Given(c)
              i == icache[c]
              k == kup[c]
  <2>4. g \in Seq(1 .. MaxUp) /\ i \in Seq(1 .. MaxUp) /\ k \in Seq(1 .. MaxUp)
    BY <1>2
  <2>5. (g \o i) \o k = g \o (i \o k)
    <3>. HIDE DEF g, i, k
    <3>. QED  BY <2>4, ConcatAssociative
  <2>. QED  BY <2>3, <2>5 DEF Stream
<1>9. Flow(c)' = Flow(c)
  <2>1. /\ icache'[c] \o kup'[c] = kup[c] /\ icache[c] \o kup[c] \in Seq(1 .. MaxUp)
        /\ <<>> \o (icache[c] \o kup[c]) = icache[c] \o kup[c]
    BY <1>1, <1>2, <1>4, PathTypes, ConcatEmptySeq
  <2>2. Latest(c)' = icache[c]
    <3>1. Len(toServer'[c]) = Len(toServer[c]) + 1
      BY <1>3, <1>5
    <3>. QED  BY <1>3, <1>4, <1>5, <3>1 DEF Latest, Last
  <2>3. Latest(c) = <<>>
    BY <1>1 DEF Latest
  <2>4. Flow(c)' = icache[c] \o kup[c]
    BY <2>1, <2>2 DEF Flow
  <2>5. Flow(c) = <<>> \o (icache[c] \o kup[c])
    BY <2>3 DEF Flow
  <2>. QED  BY <2>1, <2>4, <2>5
<1>10. IsRun(Latest(c)')
  <2>1. Latest(c)' = icache[c]
    <3>1. Len(toServer'[c]) = Len(toServer[c]) + 1
      BY <1>3, <1>5
    <3>. QED  BY <1>3, <1>4, <1>5, <3>1 DEF Latest, Last
  <2>. QED  BY <2>1 DEF UploadInv, RunsGiven
<1>11. IsRun(icache'[c])
  BY <1>4 DEF IsRun
<1>12. Keeps(c)
  BY <1>1, <1>3, <1>4, <1>5, <1>8, <1>9, <1>10, <1>11 DEF Keeps
<1>13. Gives(c)
  BY <1>2, <1>5, FlattenAppend DEF Given, Gives
<1>. QED  BY <1>6, <1>7, <1>12, <1>13

\* The first datum of the tunnel goes to the ServerBridge.
Arrives(c) ==
  /\ Attached(c) /\ kup[c] # <<>>
  /\ kup' = [kup EXCEPT ![c] = Tail(@)]
  /\ addr' = [addr EXCEPT ![c] = TRUE]
  /\ UNCHANGED <<bridge, ext, ctun, sess, stun, sentUp, ccache, toLocal, kdown, scache, sentDown>>

LEMMA ArrivesFacts ==
  ASSUME DataTypeOK, NEW c \in Conns, Arrives(c)
  PROVE  /\ Head(kup[c]) \in 1 .. MaxUp /\ Tail(kup[c]) \in Seq(1 .. MaxUp)
         /\ <<Head(kup[c])>> \in Seq(1 .. MaxUp)
         /\ kup[c] = <<Head(kup[c])>> \o Tail(kup[c])
         /\ kup'[c] = Tail(kup[c]) /\ \A d \in Conns \ {c} : kup'[d] = kup[d]
         /\ kup' \in [Conns -> Seq(1 .. MaxUp)] /\ addr' \in [Conns -> BOOLEAN]
<1>1. kup[c] \in Seq(1 .. MaxUp) /\ kup[c] # <<>>
  BY DEF DataTypeOK, Arrives
<1>2. /\ Head(kup[c]) \in 1 .. MaxUp /\ Tail(kup[c]) \in Seq(1 .. MaxUp)
      /\ <<Head(kup[c])>> \in Seq(1 .. MaxUp)
      /\ kup[c] = <<Head(kup[c])>> \o Tail(kup[c])
  BY <1>1, HeadAndTail
<1>3. /\ kup'[c] = Tail(kup[c]) /\ \A d \in Conns \ {c} : kup'[d] = kup[d]
      /\ kup' \in [Conns -> Seq(1 .. MaxUp)] /\ addr' \in [Conns -> BOOLEAN]
  BY <1>2 DEF DataTypeOK, Arrives
<1>. QED  BY <1>2, <1>3

\* The types of what a ServerBridge changes when a datum arrives.
ArrivalTyped(c) ==
  /\ icache' \in [Conns -> Seq(1 .. MaxUp)] /\ toServer' \in [Conns -> Seq(Seq(1 .. MaxUp))]
  /\ int' \in [Conns -> {"none", "connecting", "connected", "down", "deaf"}]
  /\ intCool' \in [Conns -> BOOLEAN]
  /\ int[c] # "none" /\ int'[c] # "none" /\ \A d \in Conns \ {c} : int'[d] = int[d]

LEMMA CachedKeeps ==
  ASSUME DataTypeOK, UploadInv, NEW c \in Conns, Arrives(c),
         int[c] \in {"connecting", "down"}, CacheAndReconnect(c, Head(kup[c]))
  PROVE  ArrivalTyped(c) /\ Keeps(c) /\ Gives(c)
<1>. DEFINE h == <<Head(kup[c])>>
            t == Tail(kup[c])
            i == icache[c]
            ih == i \o h
<1>1. /\ h \in Seq(1 .. MaxUp) /\ t \in Seq(1 .. MaxUp) /\ i \in Seq(1 .. MaxUp)
      /\ kup[c] = h \o t /\ kup'[c] = t /\ \A d \in Conns \ {c} : kup'[d] = kup[d]
      /\ MaxUp \in Nat
  BY ArrivesFacts, PathTypes
<1>2. Append(i, Head(kup[c])) = ih /\ ih \in Seq(1 .. MaxUp)
  <2>1. Head(kup[c]) \in 1 .. MaxUp
    BY ArrivesFacts
  <2>. HIDE DEF i
  <2>. QED  BY <1>1, <2>1, AppendIsConcat, ConcatProperties
<1>3. /\ icache'[c] = ih /\ \A d \in Conns \ {c} : icache'[d] = icache[d]
      /\ icache' \in [Conns -> Seq(1 .. MaxUp)] /\ toServer' = toServer
  <2>1. icache' = [icache EXCEPT ![c] = ih] /\ toServer' = toServer
    BY <1>2 DEF CacheAndReconnect
  <2>2. icache \in [Conns -> Seq(1 .. MaxUp)]
    BY DEF DataTypeOK
  <2>. HIDE DEF ih, h
  <2>. QED  BY <1>2, <2>1, <2>2
<1>4. /\ int'[c] \in {"connecting", "down"} /\ \A d \in Conns \ {c} : int'[d] = int[d]
      /\ int' \in [Conns -> {"none", "connecting", "connected", "down", "deaf"}]
      /\ intCool' \in [Conns -> BOOLEAN]
  BY ZenonT(60) DEF CacheAndReconnect, Reconnect, DataTypeOK
<1>5. ArrivalTyped(c)
  BY <1>3, <1>4 DEF ArrivalTyped, DataTypeOK
<1>6. ih \o t = i \o kup[c]
  <2>. HIDE DEF h, t, i
  <2>1. i \in Seq(1 .. MaxUp) /\ h \in Seq(1 .. MaxUp) /\ t \in Seq(1 .. MaxUp)
    BY <1>1
  <2>2. (i \o h) \o t = i \o (h \o t)
    BY <2>1, ConcatAssociative
  <2>. QED  BY <1>1, <2>2
<1>7. Stream(c)' = Stream(c)
  BY <1>1, <1>3, <1>6 DEF Stream, Given
<1>8. Flow(c)' = Flow(c) /\ Flow(c) = ih \o t
  <2>1. Flow(c) = <<>> \o (i \o kup[c]) /\ Flow(c)' = <<>> \o (ih \o t)
    BY <1>1, <1>3, <1>4 DEF Flow, Latest
  <2>2. ih \o t \in Seq(1 .. MaxUp)
    <3>. HIDE DEF ih, t
    <3>. QED  BY <1>1, <1>2, ConcatProperties
  <2>. HIDE DEF ih, t, i
  <2>. QED  BY <1>6, <2>1, <2>2, ConcatEmptySeq
<1>9. IsRun(ih)
  <2>1. IsRun(ih \o t)
    BY <1>8 DEF Arrives, UploadInv, FlowIsRun
  <2>. HIDE DEF ih, t
  <2>. QED  BY <1>1, <1>2, <2>1, RunConcat
<1>. HIDE DEF ih
<1>10. Keeps(c)
  <2>1. Latest(c)' = <<>>
    BY <1>4 DEF Latest
  <2>. QED  BY <1>1, <1>3, <1>4, <1>7, <1>8, <1>9, <2>1 DEF Keeps, Arrives, IsRun
<1>11. Gives(c)
  <2>1. Given(c)' = Given(c) /\ Given(c) \in Seq(1 .. MaxUp) /\ <<>> \in Seq(1 .. MaxUp)
    BY <1>3, PathTypes, EmptySeq DEF Given
  <2>2. Given(c) \o <<>> = Given(c)
    BY <2>1, ConcatEmptySeq
  <2>. QED  BY <2>1, <2>2 DEF Gives
<1>. QED  BY <1>5, <1>10, <1>11

LEMMA SentKeeps ==
  ASSUME DataTypeOK, UploadInv, NEW c \in Conns, Arrives(c),
         int[c] \in {"connected", "deaf"}, SendToServer(c, Head(kup[c]))
  PROVE  ArrivalTyped(c) /\ Keeps(c) /\ Gives(c)
<1>. DEFINE h == <<Head(kup[c])>>
            t == Tail(kup[c])
            l == Last(toServer[c])
            n == Len(toServer[c])
            lh == l \o h
<1>1. /\ h \in Seq(1 .. MaxUp) /\ t \in Seq(1 .. MaxUp) /\ l \in Seq(1 .. MaxUp)
      /\ kup[c] = h \o t /\ kup'[c] = t /\ \A d \in Conns \ {c} : kup'[d] = kup[d]
      /\ MaxUp \in Nat /\ n \in 1 .. n /\ l = toServer[c][n]
      /\ icache[c] = <<>> /\ kup[c] \in Seq(1 .. MaxUp)
  BY ArrivesFacts, PathTypes, LatestIsSeq, GivenEndsWithLast DEF UploadInv, IntCached, Last
<1>2. PICK ss \in Seq(Seq(1 .. MaxUp)) :
        /\ toServer[c] = Append(ss, l) /\ n = Len(ss) + 1 /\ Len(ss) \in Nat
        /\ FlattenSeq(ss) \in Seq(1 .. MaxUp) /\ Given(c) = FlattenSeq(ss) \o l
  BY GivenEndsWithLast DEF UploadInv
<1>3. l \o icache[c] = l /\ lh \in Seq(1 .. MaxUp)
  <2>. HIDE DEF l, h
  <2>. QED  BY <1>1, ConcatEmptySeq, ConcatProperties
<1>4. /\ UNCHANGED <<int, intCool>>
      /\ icache'[c] = <<>> /\ \A d \in Conns \ {c} : icache'[d] = icache[d]
      /\ icache' \in [Conns -> Seq(1 .. MaxUp)]
      /\ toServer'[c] = [toServer[c] EXCEPT ![n] = lh]
      /\ \A d \in Conns \ {c} : toServer'[d] = toServer[d]
  BY <1>1, <1>3, EmptySeq DEF SendToServer, DataTypeOK
<1>5. toServer'[c] \in Seq(Seq(1 .. MaxUp)) /\ Len(toServer'[c]) = n
  <2>1. toServer[c] \in Seq(Seq(1 .. MaxUp)) /\ n \in 1 .. Len(toServer[c])
    BY <1>1, PathTypes
  <2>. HIDE DEF lh, n
  <2>2. Len([toServer[c] EXCEPT ![n] = lh]) = Len(toServer[c])
        /\ [toServer[c] EXCEPT ![n] = lh] \in Seq(Seq(1 .. MaxUp))
    BY <1>3, <2>1, ExceptSeq
  <2>. QED  BY <1>4, <2>2 DEF n
<1>6. toServer' \in [Conns -> Seq(Seq(1 .. MaxUp))]
  BY <1>5 DEF SendToServer, DataTypeOK
<1>7. ArrivalTyped(c)
  BY <1>4, <1>6 DEF ArrivalTyped, DataTypeOK
<1>8. toServer'[c] = Append(ss, lh)
  <2>1. /\ \A k \in 1 .. Len(ss) : Append(ss, l)[k] = ss[k] /\ Append(ss, lh)[k] = ss[k]
        /\ Append(ss, lh) \in Seq(Seq(1 .. MaxUp)) /\ Len(Append(ss, lh)) = Len(ss) + 1
        /\ Append(ss, lh)[Len(ss) + 1] = lh
    <3>. HIDE DEF l, lh
    <3>. QED  BY <1>1, <1>2, <1>3, AppendProperties
  <2>2. DOMAIN toServer[c] = 1 .. n
    BY <1>1, PathTypes, LenProperties
  <2>3. \A k \in 1 .. n : toServer'[c][k] = Append(ss, lh)[k]
    <3>1. ASSUME NEW k \in 1 .. Len(ss) PROVE toServer'[c][k] = ss[k]
      <4>1. k \in 1 .. n /\ k # n
        BY <1>2
      <4>2. toServer'[c][k] = toServer[c][k]
        BY <1>4, <2>2, <4>1
      <4>. HIDE DEF l, n
      <4>. QED  BY <1>2, <2>1, <4>2
    <3>2. toServer'[c][n] = lh
      BY <1>1, <1>4, <2>2
    <3>3. \A k \in 1 .. n : k \in 1 .. Len(ss) \/ k = Len(ss) + 1
      BY <1>2
    <3>. HIDE DEF n, l, lh
    <3>. QED  BY <1>2, <2>1, <3>1, <3>2, <3>3
  <2>. HIDE DEF n, l, lh
  <2>. DEFINE p == toServer'[c]
              q == Append(ss, lh)
  <2>4. /\ p \in Seq(Seq(1 .. MaxUp)) /\ q \in Seq(Seq(1 .. MaxUp))
        /\ Len(p) = Len(q) /\ \A k \in 1 .. Len(p) : p[k] = q[k]
    BY <1>2, <1>5, <2>1, <2>3
  <2>. HIDE DEF p, q
  <2>5. p = q
    BY <2>4, SeqEqual
  <2>. QED  BY <2>5 DEF p, q
<1>9. Given(c)' = FlattenSeq(ss) \o lh
  <2>. HIDE DEF lh
  <2>. QED  BY <1>3, <1>8, FlattenAppend DEF Given
<1>10. Last(toServer'[c]) = lh
  <2>1. DOMAIN toServer[c] = 1 .. n
    BY <1>1, PathTypes, LenProperties
  <2>. QED  BY <1>1, <1>4, <1>5, <2>1 DEF Last
<1>11. <<>> \o t = t /\ <<>> \o kup[c] = kup[c]
  <2>. HIDE DEF t
  <2>. QED  BY <1>1, ConcatEmptySeq
<1>12. lh \o t = l \o kup[c]
  <2>. HIDE DEF l, h, t
  <2>1. l \in Seq(1 .. MaxUp) /\ h \in Seq(1 .. MaxUp) /\ t \in Seq(1 .. MaxUp)
    BY <1>1
  <2>2. (l \o h) \o t = l \o (h \o t)
    BY <2>1, ConcatAssociative, SMTT(60)
  <2>. QED  BY <1>1, <2>2
<1>13. /\ int[c] = "connected" =>
            Latest(c)' = lh /\ Flow(c) = lh \o t /\ Flow(c)' = lh \o t
       /\ int[c] # "connected" =>
            Latest(c)' = <<>> /\ Flow(c) = h \o t /\ Flow(c)' = t
  <2>1. CASE int[c] = "connected"
    <3>1. Latest(c) = l /\ Latest(c)' = lh
      BY <1>4, <1>10, <2>1 DEF Latest
    <3>2. Flow(c)' = lh \o t /\ Flow(c) = l \o kup[c]
      BY <1>1, <1>4, <1>11, <3>1 DEF Flow
    <3>. QED  BY <1>12, <2>1, <3>1, <3>2
  <2>2. CASE int[c] # "connected"
    <3>1. Latest(c) = <<>> /\ Latest(c)' = <<>>
      BY <1>4, <2>2 DEF Latest
    <3>2. Flow(c)' = t /\ Flow(c) = kup[c]
      BY <1>1, <1>4, <1>11, <3>1 DEF Flow
    <3>. QED  BY <1>1, <2>2, <3>1, <3>2
  <2>. QED  BY <2>1, <2>2
<1>f. /\ \A m \in Nat : EndsAt(Flow(c), m) => EndsAt(Flow(c)', m)
      /\ IsRun(Flow(c)) => IsRun(Flow(c)')
  <2>1. CASE int[c] = "connected"
    BY <1>13, <2>1
  <2>2. CASE int[c] # "connected"
    <3>1. Flow(c) = h \o t /\ Flow(c)' = t
      BY <1>13, <2>2
    <3>. HIDE DEF h, t
    <3>2. ASSUME NEW m \in Nat, EndsAt(h \o t, m) PROVE EndsAt(t, m)
      BY <1>1, <3>2, EndsConcat
    <3>3. IsRun(h \o t) => IsRun(t)
      BY <1>1, RunConcat
    <3>. QED  BY <3>1, <3>2, <3>3, Zenon
  <2>. QED  BY <2>1, <2>2
<1>14. Stream(c)' = Stream(c)
  <2>. DEFINE g == FlattenSeq(ss)
              k == kup[c]
  <2>1. Stream(c)' = (g \o lh) \o t /\ Stream(c) = (g \o l) \o k
    BY <1>1, <1>2, <1>4, <1>9, <1>11 DEF Stream
  <2>2. /\ g \in Seq(1 .. MaxUp) /\ l \in Seq(1 .. MaxUp) /\ lh \in Seq(1 .. MaxUp)
        /\ t \in Seq(1 .. MaxUp) /\ k \in Seq(1 .. MaxUp)
    BY <1>1, <1>2, <1>3
  <2>3. lh \o t = l \o k
    BY <1>12
  <2>. HIDE DEF g, l, lh, t, k
  <2>4. (g \o lh) \o t = g \o (lh \o t)
    <3>1. g \in Seq(1 .. MaxUp) /\ lh \in Seq(1 .. MaxUp) /\ t \in Seq(1 .. MaxUp)
      BY <2>2
    <3>. QED  BY <3>1, Regroup
  <2>5. (g \o l) \o k = g \o (l \o k)
    <3>1. g \in Seq(1 .. MaxUp) /\ l \in Seq(1 .. MaxUp) /\ k \in Seq(1 .. MaxUp)
      BY <2>2
    <3>. QED  BY <3>1, ConcatAssociative
  <2>. QED  BY <2>1, <2>3, <2>4, <2>5
<1>15. IsRun(Latest(c)')
  <2>1. CASE int[c] = "connected"
    <3>1. IsRun(lh \o t)
      BY <1>13, <2>1 DEF Arrives, UploadInv, FlowIsRun
    <3>. DEFINE r == lh
    <3>2. r \in Seq(1 .. MaxUp) /\ Latest(c)' = r
      BY <1>3, <1>13, <2>1
    <3>. HIDE DEF r, t
    <3>3. IsRun(r)
      BY <1>1, <3>1, <3>2, RunConcat DEF r
    <3>. QED  BY <3>2, <3>3
  <2>2. CASE int[c] # "connected"
    BY <1>13, <2>2 DEF IsRun
  <2>. QED  BY <2>1, <2>2
<1>17. toServer'[c] # <<>> /\ IsRun(icache'[c])
  <2>1. toServer'[c] # <<>>
    BY <1>1, <1>5, EmptySeq
  <2>. QED  BY <1>4, <2>1 DEF IsRun
<1>g. Gives(c)
  <2>. DEFINE g == FlattenSeq(ss)
  <2>1. g \in Seq(1 .. MaxUp) /\ l \in Seq(1 .. MaxUp) /\ h \in Seq(1 .. MaxUp)
    BY <1>1, <1>2
  <2>2. Given(c)' = g \o (l \o h) /\ Given(c) = g \o l
    BY <1>2, <1>9
  <2>. HIDE DEF g, l, h
  <2>3. (g \o l) \o h = g \o (l \o h)
    BY <2>1, ConcatAssociative
  <2>. QED  BY <2>1, <2>2, <2>3 DEF Gives
<1>. HIDE DEF l, lh, t, h, n
<1>18. Keeps(c)
  BY <1>1, <1>4, <1>f, <1>14, <1>15, <1>17 DEF Keeps, Arrives
<1>. QED  BY <1>7, <1>18, <1>g

\* A step that loses data on the way: a write fails, and is told.
LEMMA FailurePasses ==
  ASSUME DataTypeOK, UploadInv, NEW c \in Conns, Arrives(c),
         int[c] \in {"connected", "deaf"}, SendFails(c)
  PROVE  /\ ArrivalTyped(c) /\ SessionPasses(c)
<1>. DEFINE h == <<Head(kup[c])>>
            t == Tail(kup[c])
            g == Given(c)
            k == kup[c]
            l == Latest(c)
<1>1. /\ h \in Seq(1 .. MaxUp) /\ t \in Seq(1 .. MaxUp) /\ g \in Seq(1 .. MaxUp)
      /\ k \in Seq(1 .. MaxUp) /\ l \in Seq(1 .. MaxUp)
      /\ k = h \o t /\ kup'[c] = t /\ \A d \in Conns \ {c} : kup'[d] = kup[d]
      /\ MaxUp \in Nat /\ icache[c] = <<>> /\ toServer[c] # <<>>
  BY ArrivesFacts, PathTypes, LatestIsSeq DEF UploadInv, IntCached
<1>2. /\ UNCHANGED <<icache, toServer>>
      /\ int'[c] \in {"connecting", "deaf"} /\ \A d \in Conns \ {c} : int'[d] = int[d]
      /\ int' \in [Conns -> {"none", "connecting", "connected", "down", "deaf"}]
      /\ intCool' \in [Conns -> BOOLEAN]
  BY DEF SendFails, Reconnect, DataTypeOK
<1>3. ArrivalTyped(c)
  BY <1>2 DEF ArrivalTyped, DataTypeOK
<1>4. <<>> \o t = t /\ <<>> \o k = k
  <2>. HIDE DEF t, k
  <2>. QED  BY <1>1, ConcatEmptySeq
<1>5. Stream(c) = g \o k /\ Stream(c)' = g \o t
  BY <1>1, <1>2, <1>4 DEF Stream, Given
<1>6. Flow(c) = l \o k /\ Flow(c)' = t /\ Latest(c)' = <<>>
  BY <1>1, <1>2, <1>4 DEF Flow, Latest
<1>. HIDE DEF h, t, g, k, l
<1>7. ASSUME NEW n \in Nat, EndsAt(l \o k, n) PROVE EndsAt(t, n)
  <2>1. EndsAt(k, n)
    BY <1>1, <1>7, EndsConcat
  <2>. QED  BY <1>1, <2>1, EndsConcat
<1>8. IsRun(l \o k) => IsRun(t)
  BY <1>1, RunConcat
<1>9. g \o k \in Seq(1 .. MaxUp) /\ g \o t \in Seq(1 .. MaxUp)
  BY <1>1, ConcatProperties
<1>10. Range(g \o t) \subseteq Range(g \o k)
  <2>1. Range(k) = Range(h) \cup Range(t)
    BY <1>1, RangeConcat
  <2>2. Range(g \o k) = Range(g) \cup Range(k)
    <3>1. g \in Seq(1 .. MaxUp) /\ k \in Seq(1 .. MaxUp)
      BY <1>1
    <3>. QED  BY <3>1, RangeConcat
  <2>3. Range(g \o t) = Range(g) \cup Range(t)
    <3>1. g \in Seq(1 .. MaxUp) /\ t \in Seq(1 .. MaxUp)
      BY <1>1
    <3>. QED  BY <3>1, RangeConcat
  <2>. QED  BY <2>1, <2>2, <2>3
<1>11. \A i \in 1 .. Len(g \o t) : \E j \in 1 .. Len(g \o k) : (g \o t)[i] = (g \o k)[j]
  <2>1. DOMAIN (g \o t) = 1 .. Len(g \o t) /\ DOMAIN (g \o k) = 1 .. Len(g \o k)
    BY <1>9, LenProperties
  <2>. QED  BY <1>10, <2>1 DEF Range
<1>12. Increasing(g \o t)
  <2>1. Increasing(g \o k)
    BY <1>5 DEF UploadInv, StreamGrows
  <2>2. /\ Increasing(g) /\ Increasing(k)
        /\ \A i \in 1 .. Len(g), j \in 1 .. Len(k) : g[i] < k[j]
    BY <1>1, <2>1, IncreasingConcat
  <2>3. Increasing(t)
    BY <1>1, <2>2, IncreasingConcat
  <2>4. ASSUME NEW i \in 1 .. Len(g), NEW j \in 1 .. Len(t) PROVE g[i] < t[j]
    <3>1. Len(h) + j \in 1 .. Len(k) /\ k[Len(h) + j] = t[j]
      BY <1>1, ConcatAt
    <3>. QED  BY <2>2, <3>1
  <2>. QED  BY <1>1, <2>2, <2>3, <2>4, IncreasingConcat
<1>13. Stream(c) = <<>> => Stream(c)' = <<>>
  <2>1. ASSUME g \o k = <<>> PROVE g \o t = <<>>
    <3>1. Len(g \o k) = 0
      BY <2>1, EmptySeq
    <3>2. Len(g \o t) = 0
      <4>1. Len(g \o t) \in Nat
        BY <1>9, LenProperties
      <4>2. 1 \notin 1 .. Len(g \o t)
        BY <1>11, <3>1
      <4>. QED  BY <4>1, <4>2
    <3>. QED  BY <1>9, <3>2, EmptySeq
  <2>. QED  BY <1>5, <2>1
<1>14. /\ IsRun(icache'[c]) /\ IsRun(Latest(c)')
       /\ (Attached(c) => IsRun(l \o k))
  BY <1>1, <1>2, <1>6 DEF UploadInv, FlowIsRun, IsRun
<1>15. /\ Increasing(Stream(c)')
       /\ \A i \in 1 .. Len(Stream(c)') :
            \E j \in 1 .. Len(Stream(c)) : Stream(c)'[i] = Stream(c)[j]
       /\ \A n \in Nat : EndsAt(Flow(c), n) => EndsAt(Flow(c)', n)
       /\ Attached(c) => IsRun(Flow(c)')
  <2>1. /\ Increasing(Stream(c)')
        /\ \A i \in 1 .. Len(Stream(c)') :
             \E j \in 1 .. Len(Stream(c)) : Stream(c)'[i] = Stream(c)[j]
    BY <1>5, <1>11, <1>12, Zenon
  <2>2. \A n \in Nat : EndsAt(Flow(c), n) => EndsAt(Flow(c)', n)
    BY <1>6, <1>7, Zenon
  <2>3. Attached(c) => IsRun(Flow(c)')
    BY <1>6, <1>8, <1>14, Zenon
  <2>. QED  BY <2>1, <2>2, <2>3
<1>16. /\ UNCHANGED <<ext, ctun, sess, stun, sentUp, ccache>>
       /\ \A d \in Conns \ {c} : /\ kup'[d] = kup[d] /\ icache'[d] = icache[d]
                                 /\ toServer'[d] = toServer[d] /\ int'[d] = int[d]
       /\ toServer'[c] # <<>> /\ icache'[c] = <<>>
  BY <1>1, <1>2 DEF Arrives
<1>17. SessionPasses(c)
  BY <1>13, <1>14, <1>15, <1>16 DEF SessionPasses
<1>. QED  BY <1>3, <1>17

\* What is left of the cache when a write fails while it is flushed.
LEMMA PartsAreThin ==
  ASSUME NEW m \in Nat, NEW s \in Seq(1 .. m), Increasing(s),
         NEW q, q \in Underway(s) \/ q \in PartsOf(s)
  PROVE  q \in Seq(1 .. m) /\ ThinOf(q, s)
<1>1. Len(s) \in Nat /\ \A i \in 1 .. Len(s) : s[i] \in 1 .. m
  BY LenProperties, ElementOfSeq
<1>2. CASE q \in Underway(s)
  <2>1. q \in Seq(1 .. m) /\ \E r \in Seq(1 .. m) : s = q \o r
    BY <1>2, UnderwayBegins, ZenonT(60)
  <2>2. PICK r \in Seq(1 .. m) : s = q \o r
    BY <2>1
  <2>3. Increasing(q)
    BY <2>1, <2>2, IncreasingConcat
  <2>4. \A i \in 1 .. Len(q) : i \in 1 .. Len(s) /\ q[i] = s[i]
    BY <2>1, <2>2, ConcatAt
  <2>. QED  BY <2>1, <2>3, <2>4 DEF ThinOf
<1>3. CASE q \in PartsOf(s)
  <2>1. PICK n \in 0 .. Len(s) : \E f \in Selections(n, Len(s)) : q = [i \in 1 .. n |-> s[f[i]]]
    BY <1>3 DEF PartsOf
  <2>2. PICK f \in Selections(n, Len(s)) : q = [i \in 1 .. n |-> s[f[i]]]
    BY <2>1
  <2>3. /\ \A i \in 1 .. n : f[i] \in 1 .. Len(s)
        /\ \A i, j \in 1 .. n : i < j => f[i] < f[j]
    BY DEF Selections
  <2>4. n \in Nat /\ \A i \in 1 .. n : s[f[i]] \in 1 .. m
    BY <1>1, <2>3
  <2>5. q \in Seq(1 .. m) /\ Len(q) = n /\ \A i \in 1 .. n : q[i] = s[f[i]]
    BY <2>2, <2>4
  <2>6. Increasing(q)
    BY <2>3, <2>5 DEF Increasing
  <2>. QED  BY <2>3, <2>5, <2>6 DEF ThinOf
<1>. QED  BY <1>2, <1>3

\* A new connection is told to have failed while it is given the cache.
LEMMA StartFailsPasses ==
  ASSUME DataTypeOK, UploadInv, NEW c \in Conns, IntConnected(c), IntFault, StartFails(c)
  PROVE  DataTypeOK' /\ DownloadRests /\ SessionPasses(c)
<1>. DEFINE g == Given(c)
            i == icache[c]
            k == kup[c]
<1>1. /\ UNCHANGED <<bridge, ext, ctun, sess, stun, sentUp, ccache, toLocal, kup, kdown,
                     addr, scache, sentDown>>
      /\ int[c] = "connecting"
  BY DEF IntConnected, IntFault, clientVars, serverVars, clientData, tunnelData
<1>2. /\ k \in Seq(1 .. MaxUp) /\ i \in Seq(1 .. MaxUp) /\ g \in Seq(1 .. MaxUp)
      /\ toServer[c] \in Seq(Seq(1 .. MaxUp)) /\ i \o k \in Seq(1 .. MaxUp)
      /\ <<>> \in Seq(1 .. MaxUp) /\ MaxUp \in Nat
  BY PathTypes, EmptySeq
<1>3. Increasing(g \o (i \o k)) /\ Stream(c) = g \o (i \o k)
  BY DEF UploadInv, StreamGrows, Stream
<1>4. Increasing(g) /\ Increasing(i \o k) /\ Increasing(i) /\ Increasing(k)
  <2>. HIDE DEF g, i, k
  <2>1. Increasing(g) /\ Increasing(i \o k)
    BY <1>2, <1>3, IncreasingConcat
  <2>. QED  BY <1>2, <2>1, IncreasingConcat
<1>5. PICK q \in Underway(i) \cup PartsOf(i) : StartWith(c, q) /\ Reconnect(c, "deaf")
  BY DEF StartFails
<1>6. q \in Seq(1 .. MaxUp) /\ ThinOf(q, i)
  <2>. HIDE DEF i
  <2>. QED  BY <1>2, <1>4, <1>5, PartsAreThin
<1>7. /\ Append(toServer[c], q) \in Seq(Seq(1 .. MaxUp))
      /\ Append(toServer[c], q) # <<>>
  <2>1. q \in Seq(1 .. MaxUp) /\ toServer[c] \in Seq(Seq(1 .. MaxUp))
    BY <1>2, <1>6
  <2>. QED  BY <2>1, AppendProperties
<1>8. /\ int'[c] \in {"connecting", "deaf"} /\ \A d \in Conns \ {c} : int'[d] = int[d]
      /\ int' \in [Conns -> {"none", "connecting", "connected", "down", "deaf"}]
      /\ intCool' \in [Conns -> BOOLEAN]
  BY <1>5 DEF Reconnect, DataTypeOK
<1>9. /\ icache'[c] = <<>> /\ \A d \in Conns \ {c} : icache'[d] = icache[d]
      /\ icache' \in [Conns -> Seq(1 .. MaxUp)]
      /\ toServer'[c] = Append(toServer[c], q)
      /\ \A d \in Conns \ {c} : toServer'[d] = toServer[d]
      /\ toServer' \in [Conns -> Seq(Seq(1 .. MaxUp))]
  BY <1>2, <1>5, <1>7 DEF StartWith, DataTypeOK
<1>10. DataTypeOK'
  BY <1>1, <1>8, <1>9 DEF DataTypeOK, IntLives
<1>11. DownloadRests
  BY <1>1 DEF DownloadRests, DownMoves, Loses, Attached
<1>12. Stream(c)' = g \o (q \o k)
  <2>1. Given(c)' = g \o q
    BY <1>2, <1>6, <1>9, FlattenAppend DEF Given
  <2>2. icache'[c] \o kup'[c] = k
    BY <1>1, <1>2, <1>9, ConcatEmptySeq
  <2>3. Stream(c)' = (g \o q) \o k
    BY <2>1, <2>2 DEF Stream
  <2>. HIDE DEF g, k
  <2>. QED  BY <1>2, <1>6, <2>3, Regroup
<1>13. Latest(c)' = <<>> /\ Flow(c)' = k /\ Flow(c) = i \o k
  <2>1. Latest(c)' = <<>> /\ Latest(c) = <<>>
    BY <1>1, <1>8 DEF Latest
  <2>2. /\ <<>> \o k = k /\ <<>> \o (i \o k) = i \o k
    <3>. HIDE DEF i, k
    <3>. QED  BY <1>2, ConcatEmptySeq
  <2>. QED  BY <1>1, <1>9, <2>1, <2>2 DEF Flow
<1>. HIDE DEF g, i, k
<1>14. ThinOf(g, g) /\ ThinOf(k, k)
  BY <1>4 DEF ThinOf
<1>15. ThinOf(q \o k, i \o k) /\ q \o k \in Seq(1 .. MaxUp)
  BY <1>2, <1>4, <1>6, <1>14, ThinConcat, ConcatProperties
<1>16. ThinOf(g \o (q \o k), g \o (i \o k)) /\ g \o (q \o k) \in Seq(1 .. MaxUp)
  BY <1>2, <1>3, <1>14, <1>15, ThinConcat, ConcatProperties
<1>17. Stream(c) = <<>> => Stream(c)' = <<>>
  BY <1>2, <1>3, <1>12, <1>16, ThinOfNone
<1>18. /\ Increasing(Stream(c)')
       /\ \A a \in 1 .. Len(Stream(c)') :
            \E b \in 1 .. Len(Stream(c)) : Stream(c)'[a] = Stream(c)[b]
  BY <1>3, <1>12, <1>16, Zenon DEF ThinOf
<1>19. ASSUME NEW n \in Nat, EndsAt(i \o k, n) PROVE EndsAt(k, n)
  BY <1>2, <1>19, EndsConcat
<1>20. IsRun(i \o k) => IsRun(k)
  BY <1>2, RunConcat
<1>21. /\ \A n \in Nat : EndsAt(Flow(c), n) => EndsAt(Flow(c)', n)
       /\ Attached(c) => IsRun(Flow(c)')
  <2>1. Attached(c) => IsRun(Flow(c))
    BY DEF UploadInv, FlowIsRun
  <2>. QED  BY <1>13, <1>19, <1>20, <2>1, Zenon
<1>22. IsRun(icache'[c]) /\ IsRun(Latest(c)')
  BY <1>9, <1>13 DEF IsRun
<1>23. SessionPasses(c)
  BY <1>1, <1>7, <1>8, <1>9, <1>17, <1>18, <1>21, <1>22 DEF SessionPasses
<1>. QED  BY <1>10, <1>11, <1>23

LEMMA IntConnectedPasses ==
  ASSUME DataTypeOK, UploadInv, NEW c \in Conns, IntConnected(c)
  PROVE  DataTypeOK' /\ DownloadRests /\ SessionPasses(c)
<1>1. CASE UNCHANGED vars /\ StartWithCache(c)
  BY <1>1, IntConnectedKeeps, KeepsPasses
<1>2. CASE IntFault /\ StartFails(c)
  BY <1>2, StartFailsPasses
<1>. QED  BY <1>1, <1>2 DEF IntConnected

LEMMA TunnelUpPasses ==
  ASSUME DataTypeOK, UploadInv, NEW c \in Conns, TunnelUp(c)
  PROVE  DataTypeOK' /\ DownloadRests /\ SessionPasses(c)
<1>1. Arrives(c)
  BY DEF TunnelUp, IntFault, Arrives, vars, clientVars, serverVars, clientData
<1>2. ArrivalTyped(c) /\ SessionPasses(c)
  <2>1. CASE int[c] \in {"connecting", "down"} /\ CacheAndReconnect(c, Head(kup[c]))
    BY <1>1, <2>1, CachedKeeps, KeepsPasses
  <2>2. CASE int[c] \in {"connected", "deaf"} /\ SendToServer(c, Head(kup[c]))
    BY <1>1, <2>2, SentKeeps, KeepsPasses
  <2>3. CASE int[c] \in {"connected", "deaf"} /\ SendFails(c)
    BY <1>1, <2>3, FailurePasses
  <2>. QED  BY <2>1, <2>2, <2>3 DEF TunnelUp
<1>3. kup' \in [Conns -> Seq(1 .. MaxUp)] /\ addr' \in [Conns -> BOOLEAN]
  BY <1>1, ArrivesFacts
<1>4. \A d \in Conns : IntLives(d)' <=> int'[d] # "none"
  BY <1>1, <1>2 DEF ArrivalTyped, Arrives, IntLives, DataTypeOK
<1>5. DataTypeOK'
  BY <1>1, <1>2, <1>3, <1>4 DEF DataTypeOK, ArrivalTyped, Arrives
<1>6. DownloadRests
  BY <1>1 DEF Arrives, DownloadRests, DownMoves, Loses, Attached
<1>. QED  BY <1>2, <1>5, <1>6

-----------------------------------------------------------------------------
(* The way down.                                                           *)

LEMMA DownTypes ==
  ASSUME DataTypeOK, NEW b \in Bridges, NEW c \in Conns
  PROVE  /\ MaxDown \in Nat /\ sentDown[c] \in Nat /\ sentDown[c] <= MaxDown
         /\ kdown[c] \in Seq(1 .. MaxDown) /\ scache[c] \in Seq(1 .. MaxDown)
         /\ kdown[c] \o scache[c] \in Seq(1 .. MaxDown)
         /\ Len(kdown[c]) \in Nat /\ Len(scache[c]) \in Nat
         /\ Len(kdown[c] \o scache[c]) = Len(kdown[c]) + Len(scache[c])
         /\ toLocal[b] \in Seq(Conns \X (1 .. MaxDown)) /\ Len(toLocal[b]) \in Nat
         /\ \A i \in 1 .. Len(toLocal[b]) : toLocal[b][i] \in Conns \X (1 .. MaxDown)
         /\ toLocal[b] # <<>> => Len(toLocal[b]) \in 1 .. Len(toLocal[b])
         /\ Got(b, c) \in Nat
<1>1. /\ MaxDown \in Nat /\ sentDown[c] \in 0 .. MaxDown
      /\ kdown[c] \in Seq(1 .. MaxDown) /\ scache[c] \in Seq(1 .. MaxDown)
      /\ toLocal[b] \in Seq(Conns \X (1 .. MaxDown))
  BY ProxyPathAssumption DEF DataTypeOK
<1>2. /\ kdown[c] \o scache[c] \in Seq(1 .. MaxDown)
      /\ Len(kdown[c]) \in Nat /\ Len(scache[c]) \in Nat
      /\ Len(kdown[c] \o scache[c]) = Len(kdown[c]) + Len(scache[c])
  BY <1>1, ConcatAt
<1>3. /\ Len(toLocal[b]) \in Nat
      /\ \A i \in 1 .. Len(toLocal[b]) : toLocal[b][i] \in Conns \X (1 .. MaxDown)
      /\ toLocal[b] # <<>> => Len(toLocal[b]) # 0
  BY <1>1, LenProperties, ElementOfSeq, EmptySeq
<1>4. toLocal[b] # <<>> => Len(toLocal[b]) \in 1 .. Len(toLocal[b])
  BY <1>3
<1>5. Got(b, c) \in Nat
  <2>1. CASE toLocal[b] = <<>>
    BY <2>1 DEF Got
  <2>2. CASE toLocal[b] # <<>>
    <3>1. toLocal[b][Len(toLocal[b])][2] \in 1 .. MaxDown
      BY <1>3, <1>4, <2>2
    <3>. QED  BY <1>1, <3>1 DEF Got
  <2>. QED  BY <2>1, <2>2
<1>. QED  BY <1>1, <1>2, <1>3, <1>4, <1>5

LEMMA NothingIsRun ==
  ASSUME DataTypeOK, NEW b \in Bridges, NEW c \in Conns, NothingDown(c)
  PROVE  DownRun(b, c)
<1>1. /\ kdown[c] = <<>> /\ scache[c] = <<>> /\ sentDown[c] = 0
      /\ \A i \in 1 .. Len(toLocal[b]) : toLocal[b][i][1] # c
  BY DEF NothingDown
<1>2. Got(b, c) = 0
  BY <1>1, DownTypes DEF Got
<1>3. /\ Len(<<>>) = 0 /\ <<>> \o <<>> = <<>> /\ EndsAt(<<>>, 0)
  BY EmptySeq, ConcatEmptySeq, EndsNone
<1>. QED  BY <1>1, <1>2, <1>3 DEF DownRun

LEMMA DownloadRestsStep ==
  ASSUME HandshakeInv, DataTypeOK, DownloadInv, DownloadRests, DataTypeOK'
  PROVE  DownloadInv'
<1>t. TypeOK /\ None \notin Conns
  BY FastTunnelAssumption DEF HandshakeInv
<1>m. DownMoves /\ UNCHANGED <<scache, sentDown, toLocal>>
  BY DEF DownloadRests
<1>1. ASSUME NEW c \in Conns
      PROVE  /\ kdown'[c] \in Seq(1 .. MaxDown)
             /\ \E r \in Seq(1 .. MaxDown) : kdown[c] = kdown'[c] \o r
             /\ Attached(c)' /\ (\E b \in Bridges : ext'[b] = c) => kdown'[c] = kdown[c]
  <2>1. kdown[c] \in Seq(1 .. MaxDown) /\ Loses(kdown, c, 1 .. MaxDown)
    BY DEF DataTypeOK, DownloadRests
  <2>2. CASE kdown'[c] = kdown[c]
    <3>1. kdown[c] = kdown[c] \o <<>> /\ <<>> \in Seq(1 .. MaxDown)
      BY <2>1, ConcatEmptySeq, EmptySeq
    <3>. QED  BY <2>1, <2>2, <3>1
  <2>3. CASE kdown'[c] # kdown[c]
    BY <2>1, <2>3 DEF Loses
  <2>. QED  BY <2>2, <2>3
<1>2. ASSUME NEW c \in Conns, sess[c] = "none"
      PROVE  NothingDown(c) /\ NothingDown(c)'
  <2>1. NothingDown(c)
    BY <1>2 DEF DownloadInv
  <2>2. kdown'[c] = <<>>
    <3>1. PICK r \in Seq(1 .. MaxDown) : kdown[c] = kdown'[c] \o r
      BY <1>1
    <3>2. kdown'[c] \o r = <<>> /\ kdown'[c] \in Seq(1 .. MaxDown)
      BY <1>1, <2>1, <3>1 DEF NothingDown
    <3>. QED  BY <3>2, BothEmpty
  <2>. QED  BY <1>m, <2>1, <2>2 DEF NothingDown
<1>3. ASSUME NEW c \in Conns, sess'[c] = "none" PROVE NothingDown(c)'
  BY <1>m, <1>2, <1>3 DEF DownMoves
<1>4. ASSUME NEW b \in Bridges, NEW c \in Conns, sess[c] = "none" PROVE DownRun(b, c)'
  <2>1. (NothingDown(c) => DownRun(b, c))'
    BY NothingIsRun, PTL
  <2>. QED  BY <1>2, <1>4, <2>1
<1>5. ASSUME NEW b \in Bridges, NEW c \in Conns, ext'[b] = c, ext[b] = c, bridge[b] = "live",
             sess[c] # "none"
      PROVE  DownRun(b, c)'
  <2>. DEFINE g == Got(b, c)
              k == kdown[c]
              q == kdown'[c]
  <2>1. /\ EndsAt(k, g + Len(k))
        /\ Attached(c) =>
             /\ EndsAt(k \o scache[c], sentDown[c])
             /\ sentDown[c] = g + Len(k \o scache[c])
        /\ \A i \in 1 .. Len(toLocal[b]) :
             toLocal[b][i][1] = c => toLocal[b][Len(toLocal[b])][1] = c
    BY <1>t, <1>5 DEF DownloadInv, DownRun
  <2>2. PICK r \in Seq(1 .. MaxDown) : k = q \o r
    BY <1>1
  <2>3. /\ k \in Seq(1 .. MaxDown) /\ q \in Seq(1 .. MaxDown) /\ g \in Nat
        /\ MaxDown \in Nat
    BY <1>1, DownTypes
  <2>4. g = Got(b, c)'
    BY <1>m DEF Got
  <2>. HIDE DEF k, q, g
  <2>5. EndsAt(q, g + Len(q))
    <3>. DEFINE n == g + Len(k)
    <3>1. Len(k) = Len(q) + Len(r) /\ Len(q) \in Nat /\ Len(r) \in Nat
      BY <2>2, <2>3, ConcatAt
    <3>2. n \in Nat /\ n - Len(r) = g + Len(q)
      BY <2>3, <3>1
    <3>3. EndsAt(q \o r, n)
      BY <2>1, <2>2
    <3>. HIDE DEF n
    <3>4. EndsAt(q, n - Len(r))
      BY <2>3, <3>2, <3>3, EndsConcat
    <3>. QED  BY <3>2, <3>4
  <2>6. Attached(c)' => Attached(c) /\ q = k
    BY <1>1, <1>5, <1>m DEF DownMoves, q, k
  <2>. QED  BY <1>m, <2>1, <2>4, <2>5, <2>6 DEF DownRun, q
<1>6. ASSUME NEW b \in Bridges, ext'[b] # None, bridge'[b] = "live"
      PROVE  DownRun(b, ext[b])'
  <2>1. PICK c \in Conns :
          /\ ext'[b] = c
          /\ (ext[b] = c /\ bridge[b] = "live") \/ sess[c] = "none"
    BY <1>t, <1>m, <1>6 DEF DownMoves, TypeOK
  <2>2. DownRun(b, c)'
    BY <1>4, <1>5, <2>1
  <2>. QED  BY <2>1, <2>2 DEF DownRun, Got, Attached
<1>7. DownloadInOrder'
  BY <1>m DEF DownloadInv, DownloadInOrder
<1>. QED  BY <1>3, <1>6, <1>7 DEF DownloadInv

\* What ss-server has sent, and perhaps x besides, goes into the cache or, with
\* what the cache holds, into the tunnel.
DownSends(c, x) ==
  /\ sess[c] # "none" /\ UNCHANGED <<bridge, ext, sess, stun, toLocal>>
  /\ \A d \in Conns \ {c} :
       kdown'[d] = kdown[d] /\ scache'[d] = scache[d] /\ sentDown'[d] = sentDown[d]
  /\ x \in Seq(1 .. MaxDown)
  /\ sentDown'[c] \in Nat /\ sentDown'[c] = sentDown[c] + Len(x) /\ EndsAt(x, sentDown'[c])
  /\ kdown'[c] \o scache'[c] = (kdown[c] \o scache[c]) \o x
  /\ ~ Attached(c) => kdown'[c] = kdown[c]

LEMMA DownSendsStep ==
  ASSUME HandshakeInv, DataTypeOK, DownloadInv, DataTypeOK',
         NEW c \in Conns, NEW x, DownSends(c, x)
  PROVE  DownloadInv'
<1>t. TypeOK /\ None \notin Conns
  BY FastTunnelAssumption DEF HandshakeInv
<1>m. /\ UNCHANGED <<bridge, ext, sess, stun, toLocal>> /\ sess[c] # "none"
      /\ \A d \in Conns \ {c} :
           kdown'[d] = kdown[d] /\ scache'[d] = scache[d] /\ sentDown'[d] = sentDown[d]
  BY DEF DownSends
<1>1. ASSUME NEW d \in Conns, sess'[d] = "none" PROVE NothingDown(d)'
  BY <1>m, <1>1 DEF DownloadInv, NothingDown
<1>2. ASSUME NEW b \in Bridges, NEW d \in Conns \ {c}, DownRun(b, d) PROVE DownRun(b, d)'
  <2>1. Got(b, d)' = Got(b, d)
    BY <1>m DEF Got
  <2>2. Attached(d)' <=> Attached(d)
    BY <1>m DEF Attached
  <2>. HIDE DEF Got, Attached
  <2>. QED  BY <1>m, <1>2, <2>1, <2>2 DEF DownRun
<1>3. ASSUME NEW b \in Bridges, DownRun(b, c) PROVE DownRun(b, c)'
  <2>. DEFINE g == Got(b, c)
              k == kdown[c]
              s == kdown[c] \o scache[c]
              q == kdown'[c]
              r == scache'[c]
              p == q \o r
              n == sentDown[c]
              o == sentDown'[c]
  <2>1. /\ EndsAt(k, g + Len(k))
        /\ Attached(c) => EndsAt(s, n) /\ n = g + Len(s)
        /\ \A i \in 1 .. Len(toLocal[b]) :
             toLocal[b][i][1] = c => toLocal[b][Len(toLocal[b])][1] = c
    BY <1>3 DEF DownRun
  <2>2. /\ MaxDown \in Nat /\ n \in Nat /\ g \in Nat /\ s \in Seq(1 .. MaxDown)
        /\ x \in Seq(1 .. MaxDown) /\ o \in Nat /\ EndsAt(x, o) /\ o = n + Len(x)
        /\ p = s \o x /\ (~ Attached(c) => q = k)
    BY DownTypes DEF DownSends
  <2>3. q \in Seq(1 .. MaxDown) /\ r \in Seq(1 .. MaxDown)
    BY DEF DataTypeOK
  <2>4. Got(b, c)' = g /\ (Attached(c)' <=> Attached(c))
    BY <1>m DEF Got, Attached
  <2>. HIDE DEF g, k, s, q, r, n, o
  <2>5. ASSUME Attached(c) PROVE /\ EndsAt(p, o) /\ o = g + Len(p)
                                 /\ EndsAt(q, g + Len(q))
    <3>1. EndsAt(s, n) /\ n = g + Len(s)
      BY <2>1, <2>5
    <3>2. Len(s \o x) = Len(s) + Len(x) /\ Len(s) \in Nat /\ Len(x) \in Nat
      BY <2>2, ConcatAt
    <3>3. EndsAt(s, o - Len(x))
      <4>1. o - Len(x) = n
        BY <2>2, <3>2
      <4>. QED  BY <3>1, <4>1
    <3>4. EndsAt(s \o x, o)
      BY <2>2, <3>3, EndsConcat
    <3>5. Len(q \o r) = Len(q) + Len(r) /\ Len(q) \in Nat /\ Len(r) \in Nat
      BY <2>3, ConcatAt
    <3>6. EndsAt(p, o) /\ o = g + Len(p)
      BY <2>2, <3>1, <3>2, <3>4
    <3>7. EndsAt(q, o - Len(r))
      BY <2>2, <2>3, <3>6, EndsConcat
    <3>8. o - Len(r) = g + Len(q)
      BY <2>2, <3>5, <3>6
    <3>. QED  BY <3>6, <3>7, <3>8
  <2>6. EndsAt(q, g + Len(q))
    BY <2>1, <2>2, <2>5
  <2>. QED  BY <1>m, <2>1, <2>4, <2>5, <2>6 DEF DownRun, p, q, r, o
<1>4. ASSUME NEW b \in Bridges, ext'[b] # None, bridge'[b] = "live"
      PROVE  DownRun(b, ext[b])'
  <2>1. PICK d \in Conns : ext'[b] = d /\ ext[b] = d /\ bridge[b] = "live"
    BY <1>t, <1>m, <1>4 DEF TypeOK
  <2>2. DownRun(b, d)
    BY <1>t, <2>1 DEF DownloadInv
  <2>3. DownRun(b, d)'
    BY <1>2, <1>3, <2>2
  <2>. QED  BY <2>1, <2>3 DEF DownRun, Got, Attached
<1>5. DownloadInOrder'
  BY <1>m DEF DownloadInv, DownloadInOrder
<1>. QED  BY <1>1, <1>4, <1>5 DEF DownloadInv

\* Nothing of the way up changes.
UpSame == UNCHANGED <<sentUp, ccache, kup, int, icache, toServer>>

LEMMA SameUpRests ==
  ASSUME Calm, UpSame
  PROVE  UploadRests
BY DEF Calm, UpSame, UploadRests, Loses, Caches, IntMoves

LEMMA ConfirmSends ==
  ASSUME HandshakeInv, DataTypeOK, NEW c \in Conns, DataRecvConfirm(c)
  PROVE  DataTypeOK' /\ UploadRests /\ DownSends(c, <<>>)
<1>1. /\ UNCHANGED <<bridge, ext, sess, stun, sentUp, ccache, toLocal, kup, addr, sentDown,
                     int, intCool, icache, toServer>>
      /\ Attached(c)
      /\ kdown' = [kdown EXCEPT ![c] = @ \o scache[c]]
      /\ scache' = [scache EXCEPT ![c] = <<>>]
  BY DEF DataRecvConfirm, FlushDown, ServerRecvConfirm, clientVars, clientData
<1>2. /\ kdown[c] \in Seq(1 .. MaxDown) /\ scache[c] \in Seq(1 .. MaxDown)
      /\ kdown[c] \o scache[c] \in Seq(1 .. MaxDown) /\ <<>> \in Seq(1 .. MaxDown)
      /\ sentDown[c] \in Nat
  BY ConcatProperties, EmptySeq, ProxyPathAssumption DEF DataTypeOK
<1>3. /\ kdown'[c] = kdown[c] \o scache[c] /\ scache'[c] = <<>>
      /\ kdown' \in [Conns -> Seq(1 .. MaxDown)] /\ scache' \in [Conns -> Seq(1 .. MaxDown)]
      /\ \A d \in Conns \ {c} : kdown'[d] = kdown[d] /\ scache'[d] = scache[d]
  BY <1>1, <1>2 DEF DataTypeOK
<1>4. DataTypeOK'
  BY <1>1, <1>3 DEF DataTypeOK, IntLives
<1>5. Len(<<>>) = 0 /\ EndsAt(<<>>, sentDown[c])
  BY <1>2, EmptySeq, EndsNone
<1>6. UploadRests
  BY <1>1, SameUpRests, ServerIsCalm DEF DataRecvConfirm, UpSame
<1>7. DownSends(c, <<>>)
  BY <1>1, <1>2, <1>3, <1>5 DEF DownSends, Attached
<1>. QED  BY <1>4, <1>6, <1>7

LEMMA SrvSendSends ==
  ASSUME DataTypeOK, NEW c \in Conns, SrvSend(c)
  PROVE  DataTypeOK' /\ UploadRests /\ DownSends(c, <<sentDown[c] + 1>>)
<1>. DEFINE x == <<sentDown[c] + 1>>
            n == sentDown[c]
            k == kdown[c]
            s == scache[c]
<1>1. /\ UNCHANGED <<bridge, ext, ctun, sess, stun, sentUp, ccache, toLocal, kup, addr,
                     int, intCool, icache, toServer>>
      /\ IntLives(c) /\ sentDown[c] < MaxDown
      /\ sentDown' = [sentDown EXCEPT ![c] = @ + 1]
  BY DEF SrvSend, vars, clientVars, serverVars, clientData
<1>2. /\ k \in Seq(1 .. MaxDown) /\ s \in Seq(1 .. MaxDown) /\ MaxDown \in Nat
      /\ n \in 0 .. MaxDown /\ n \in Nat /\ <<>> \in Seq(1 .. MaxDown)
  BY ProxyPathAssumption, EmptySeq DEF DataTypeOK
<1>3. x \in Seq(1 .. MaxDown) /\ Len(x) = 1
  <2>1. sentDown[c] + 1 \in 1 .. MaxDown
    BY <1>1, <1>2
  <2>. QED  BY <2>1
<1>4. EndsAt(x, n + 1)
  <2>1. EndsAt(<<>>, n)
    BY <1>2, EndsNone
  <2>2. EndsAt(<<>> \o <<n + 1>>, n + 1)
    <3>. HIDE DEF n
    <3>. QED  BY <1>1, <1>2, <2>1, EndsOneMore DEF n
  <2>3. <<>> \o x = x
    <3>. HIDE DEF x
    <3>. QED  BY <1>3, ConcatEmptySeq
  <2>. QED  BY <2>2, <2>3
<1>5. /\ sentDown'[c] = n + 1 /\ \A d \in Conns \ {c} : sentDown'[d] = sentDown[d]
      /\ sentDown' \in [Conns -> 0 .. MaxDown]
  BY <1>1, <1>2 DEF DataTypeOK
<1>. DEFINE ks == k \o s
            sx == s \o x
            ksx == ks \o x
<1>6. /\ ks \in Seq(1 .. MaxDown) /\ sx \in Seq(1 .. MaxDown) /\ ksx \in Seq(1 .. MaxDown)
      /\ ksx = k \o sx /\ ksx \o <<>> = ksx
  <2>. HIDE DEF k, s, x
  <2>1. k \in Seq(1 .. MaxDown) /\ s \in Seq(1 .. MaxDown) /\ x \in Seq(1 .. MaxDown)
    BY <1>2, <1>3
  <2>2. ks \in Seq(1 .. MaxDown) /\ sx \in Seq(1 .. MaxDown)
    BY <2>1, ConcatProperties
  <2>3. ksx = k \o sx
    BY <2>1, ConcatAssociative
  <2>. HIDE DEF ks, sx
  <2>4. ksx \in Seq(1 .. MaxDown)
    BY <2>1, <2>2, ConcatProperties
  <2>. HIDE DEF ksx
  <2>5. ksx \o <<>> = ksx
    BY <2>4, ConcatEmptySeq
  <2>. QED  BY <2>2, <2>3, <2>4, <2>5
<1>7. \/ /\ kdown' = [kdown EXCEPT ![c] = ksx] /\ scache' = [scache EXCEPT ![c] = <<>>]
         /\ Attached(c)
      \/ kdown' = kdown /\ scache' = [scache EXCEPT ![c] = sx]
  BY DEF SrvSend, SendDown
<1>. HIDE DEF ks, sx, ksx, x
<1>8. /\ kdown' \in [Conns -> Seq(1 .. MaxDown)] /\ scache' \in [Conns -> Seq(1 .. MaxDown)]
      /\ \A d \in Conns \ {c} : kdown'[d] = kdown[d] /\ scache'[d] = scache[d]
      /\ \/ kdown'[c] = ksx /\ scache'[c] = <<>> /\ Attached(c)
         \/ kdown'[c] = kdown[c] /\ scache'[c] = sx
  <2>1. kdown \in [Conns -> Seq(1 .. MaxDown)] /\ scache \in [Conns -> Seq(1 .. MaxDown)]
    BY DEF DataTypeOK
  <2>2. CASE /\ kdown' = [kdown EXCEPT ![c] = ksx] /\ scache' = [scache EXCEPT ![c] = <<>>]
             /\ Attached(c)
    BY <1>2, <1>6, <2>1, <2>2
  <2>3. CASE kdown' = kdown /\ scache' = [scache EXCEPT ![c] = sx]
    BY <1>2, <1>6, <2>1, <2>3
  <2>. QED  BY <1>7, <2>2, <2>3
<1>9. DataTypeOK'
  BY <1>1, <1>5, <1>8 DEF DataTypeOK, IntLives
<1>10. UploadRests
  BY <1>1, SameUpRests, StayCalm DEF UpSame
<1>11. kdown'[c] \o scache'[c] = ks \o x
  <2>1. CASE kdown'[c] = ksx /\ scache'[c] = <<>>
    BY <1>6, <2>1 DEF ksx
  <2>2. CASE kdown'[c] = k /\ scache'[c] = sx
    BY <1>6, <2>2 DEF ksx
  <2>. QED  BY <1>8, <2>1, <2>2
<1>12. DownSends(c, x)
  BY <1>1, <1>2, <1>3, <1>4, <1>5, <1>8, <1>11 DEF DownSends, IntLives, ks
<1>. QED  BY <1>9, <1>10, <1>12 DEF x

\* DownloadInOrder, of one bridge.
InOrder(s) ==
  \A i \in 1 .. Len(s) :
    IF i > 1 /\ s[i - 1][1] = s[i][1]
    THEN s[i][2] = s[i - 1][2] + 1
    ELSE s[i][2] = 1 /\ \A j \in 1 .. i - 1 : s[j][1] # s[i][1]

LEMMA OneMoreInOrder ==
  ASSUME NEW S, NEW s \in Seq(S), NEW c, NEW n, <<c, n>> \in S, InOrder(s),
         IF s # <<>> /\ s[Len(s)][1] = c
         THEN n = s[Len(s)][2] + 1
         ELSE n = 1 /\ \A j \in 1 .. Len(s) : s[j][1] # c
  PROVE  InOrder(Append(s, <<c, n>>))
<1>. DEFINE t == Append(s, <<c, n>>)
<1>1. /\ Len(s) \in Nat /\ Len(t) = Len(s) + 1 /\ (s = <<>> <=> Len(s) = 0)
      /\ \A i \in 1 .. Len(s) : t[i] = s[i]
      /\ t[Len(s) + 1][1] = c /\ t[Len(s) + 1][2] = n
  BY AppendProperties, LenProperties, EmptySeq
<1>. HIDE DEF t
<1>2. ASSUME NEW i \in 1 .. Len(s)
      PROVE  IF i > 1 /\ t[i - 1][1] = t[i][1]
             THEN t[i][2] = t[i - 1][2] + 1
             ELSE t[i][2] = 1 /\ \A j \in 1 .. i - 1 : t[j][1] # t[i][1]
  <2>1. /\ i > 1 => i - 1 \in 1 .. Len(s)
        /\ \A j \in 1 .. i - 1 : j \in 1 .. Len(s)
    BY <1>1
  <2>2. /\ t[i] = s[i] /\ (i > 1 => t[i - 1] = s[i - 1])
        /\ \A j \in 1 .. i - 1 : t[j] = s[j]
    BY <1>1, <2>1
  <2>. QED  BY <2>2 DEF InOrder
<1>3. IF Len(s) + 1 > 1 /\ t[Len(s)][1] = c
      THEN n = t[Len(s)][2] + 1
      ELSE n = 1 /\ \A j \in 1 .. Len(s) : t[j][1] # c
  <2>1. CASE Len(s) = 0
    BY <1>1, <2>1
  <2>2. CASE Len(s) # 0
    <3>1. Len(s) \in 1 .. Len(s)
      BY <1>1, <2>2
    <3>. QED  BY <1>1, <2>2, <3>1
  <2>. QED  BY <2>1, <2>2
<1>4. ASSUME NEW i \in 1 .. Len(t)
      PROVE  IF i > 1 /\ t[i - 1][1] = t[i][1]
             THEN t[i][2] = t[i - 1][2] + 1
             ELSE t[i][2] = 1 /\ \A j \in 1 .. i - 1 : t[j][1] # t[i][1]
  <2>1. CASE i \in 1 .. Len(s)
    BY <1>2, <2>1
  <2>2. CASE i = Len(s) + 1
    <3>1. i - 1 = Len(s)
      BY <1>1, <2>2
    <3>. QED  BY <1>1, <1>3, <2>2, <3>1
  <2>. QED  BY <1>1, <2>1, <2>2
<1>. QED  BY <1>4 DEF InOrder, t

LEMMA TunnelDownStep ==
  ASSUME HandshakeInv, DataTypeOK, DownloadInv, NEW b \in Bridges, TunnelDown(b)
  PROVE  DataTypeOK' /\ UploadRests /\ DownloadInv'
<1>t. TypeOK /\ OneOwner /\ Paired /\ None \notin Conns
  BY FastTunnelAssumption DEF HandshakeInv, Handshake
<1>1. PICK c \in Conns : c = ext[b] /\ sess[c] # "none"
  BY <1>t DEF TunnelDown, Paired, TypeOK
<1>. DEFINE h == Head(kdown[c])
            t == Tail(kdown[c])
            k == kdown[c]
            new == <<c, h>>
<1>2. /\ UNCHANGED <<bridge, ext, ctun, sess, stun, sentUp, ccache, kup, addr, scache,
                     sentDown, int, intCool, icache, toServer>>
      /\ k # <<>> /\ kdown' = [kdown EXCEPT ![c] = Tail(@)]
      /\ toLocal' = IF bridge[b] = "live"
                    THEN [toLocal EXCEPT ![b] = Append(@, new)] ELSE toLocal
  BY <1>1 DEF TunnelDown, vars, clientVars, serverVars, serverData
<1>3. /\ k \in Seq(1 .. MaxDown) /\ h \in 1 .. MaxDown /\ t \in Seq(1 .. MaxDown)
      /\ <<h>> \in Seq(1 .. MaxDown) /\ k = <<h>> \o t /\ MaxDown \in Nat
      /\ new \in Conns \X (1 .. MaxDown) /\ Len(<<h>>) = 1
  <2>1. k \in Seq(1 .. MaxDown)
    BY DownTypes
  <2>2. /\ h \in 1 .. MaxDown /\ t \in Seq(1 .. MaxDown)
        /\ <<h>> \in Seq(1 .. MaxDown) /\ k = <<h>> \o t
    BY <1>2, <2>1, HeadAndTail
  <2>. HIDE DEF h, t, k
  <2>. QED  BY <2>1, <2>2, ProxyPathAssumption
<1>4. /\ kdown'[c] = t /\ \A d \in Conns \ {c} : kdown'[d] = kdown[d]
      /\ kdown' \in [Conns -> Seq(1 .. MaxDown)]
  BY <1>2, <1>3 DEF DataTypeOK
<1>5. /\ toLocal[b] \in Seq(Conns \X (1 .. MaxDown))
      /\ Append(toLocal[b], new) \in Seq(Conns \X (1 .. MaxDown))
      /\ Len(toLocal[b]) \in Nat
      /\ Len(Append(toLocal[b], new)) = Len(toLocal[b]) + 1
      /\ \A i \in 1 .. Len(toLocal[b]) : Append(toLocal[b], new)[i] = toLocal[b][i]
      /\ Append(toLocal[b], new)[Len(toLocal[b]) + 1] = new
      /\ Append(toLocal[b], new) # <<>>
  <2>. HIDE DEF new
  <2>1. toLocal[b] \in Seq(Conns \X (1 .. MaxDown)) /\ Len(toLocal[b]) \in Nat
    BY DownTypes
  <2>2. new \in Conns \X (1 .. MaxDown)
    BY <1>3
  <2>. DEFINE s == toLocal[b]
              S == Conns \X (1 .. MaxDown)
  <2>3. s \in Seq(S) /\ new \in S
    BY <2>1, <2>2
  <2>. HIDE DEF s, S
  <2>4. /\ Append(s, new) \in Seq(S) /\ Append(s, new) # <<>>
        /\ Len(Append(s, new)) = Len(s) + 1
        /\ \A i \in 1 .. Len(s) : Append(s, new)[i] = s[i]
        /\ Append(s, new)[Len(s) + 1] = new
    BY <2>3, AppendProperties
  <2>. QED  BY <2>1, <2>4 DEF s, S
<1>. HIDE DEF new
<1>6. /\ toLocal' \in [Bridges -> Seq(Conns \X (1 .. MaxDown))]
      /\ \A a \in Bridges \ {b} : toLocal'[a] = toLocal[a]
      /\ toLocal'[b] = IF bridge[b] = "live" THEN Append(toLocal[b], new) ELSE toLocal[b]
  BY <1>2, <1>5 DEF DataTypeOK
<1>7. DataTypeOK'
  BY <1>2, <1>4, <1>6 DEF DataTypeOK, IntLives
<1>8. UploadRests
  BY <1>2, SameUpRests, StayCalm DEF UpSame
<1>9. new[1] = c /\ new[2] = h
  BY DEF new
<1>10. ASSUME NEW d \in Conns, sess'[d] = "none" PROVE NothingDown(d)'
  <2>1. sess[d] = "none" /\ d # c /\ NothingDown(d)
    BY <1>1, <1>2, <1>10 DEF DownloadInv
  <2>2. ASSUME NEW a \in Bridges, NEW i \in 1 .. Len(toLocal'[a])
        PROVE  toLocal'[a][i][1] # d
    <3>1. CASE a = b /\ bridge[b] = "live"
      <4>1. toLocal'[a] = Append(toLocal[b], new)
        BY <1>6, <3>1
      <4>2. i \in 1 .. Len(toLocal[b]) \/ i = Len(toLocal[b]) + 1
        BY <1>5, <2>2, <4>1
      <4>3. CASE i \in 1 .. Len(toLocal[b])
        BY <1>5, <2>1, <4>1, <4>3 DEF NothingDown
      <4>4. CASE i = Len(toLocal[b]) + 1
        BY <1>5, <1>9, <2>1, <4>1, <4>4
      <4>. QED  BY <4>2, <4>3, <4>4
    <3>2. CASE ~ (a = b /\ bridge[b] = "live")
      BY <1>6, <2>1, <2>2, <3>2, SMTT(90) DEF NothingDown
    <3>. QED  BY <3>1, <3>2
  <2>. QED  BY <1>2, <1>4, <2>1, <2>2 DEF NothingDown
<1>11. ASSUME bridge[b] = "live"
       PROVE  /\ DownRun(b, c)'
              /\ IF toLocal[b] # <<>> /\ toLocal[b][Len(toLocal[b])][1] = c
                 THEN h = toLocal[b][Len(toLocal[b])][2] + 1
                 ELSE h = 1 /\ \A j \in 1 .. Len(toLocal[b]) : toLocal[b][j][1] # c
  <2>. DEFINE g == Got(b, c)
              s == scache[c]
              n == sentDown[c]
              ts == t \o s
  <2>1. /\ EndsAt(k, g + Len(k))
        /\ Attached(c) => EndsAt(k \o s, n) /\ n = g + Len(k \o s)
        /\ \A i \in 1 .. Len(toLocal[b]) :
             toLocal[b][i][1] = c => toLocal[b][Len(toLocal[b])][1] = c
    BY <1>t, <1>1, <1>11 DEF DownloadInv, DownRun
  <2>2. /\ g \in Nat /\ n \in Nat /\ s \in Seq(1 .. MaxDown)
        /\ (toLocal[b] # <<>> => Len(toLocal[b]) \in 1 .. Len(toLocal[b]))
    BY DownTypes
  <2>3. Got(b, c)' = h
    <3>1. Len(toLocal'[b]) = Len(toLocal[b]) + 1 /\ toLocal'[b] # <<>>
      BY <1>5, <1>6, <1>11
    <3>. QED  BY <1>5, <1>6, <1>9, <1>11, <3>1 DEF Got
  <2>4. h = g + 1 /\ Len(k) = 1 + Len(t) /\ Len(t) \in Nat
    <3>1. Len(k) = Len(<<h>>) + Len(t) /\ Len(t) \in Nat /\ k[1] = <<h>>[1]
      <4>. HIDE DEF k, h, t
      <4>1. /\ Len(<<h>> \o t) = Len(<<h>>) + Len(t) /\ Len(t) \in Nat
            /\ \A i \in 1 .. Len(<<h>>) : (<<h>> \o t)[i] = <<h>>[i]
        BY <1>3, ConcatAt
      <4>. QED  BY <1>3, <4>1
    <3>2. k[1] = h
      BY <3>1
    <3>. HIDE DEF k, h, t, g
    <3>3. k[1] = (g + Len(k)) - Len(k) + 1
      BY <1>3, <2>1, <3>1 DEF EndsAt
    <3>. QED  BY <1>3, <2>2, <3>1, <3>2, <3>3
  <2>. HIDE DEF g, s, n, k, h, t
  <2>5. EndsAt(t, h + Len(t))
    <3>. DEFINE m == g + Len(k)
    <3>1. m \in Nat /\ m = h + Len(t)
      BY <2>2, <2>4
    <3>2. EndsAt(<<h>> \o t, m)
      BY <1>3, <2>1
    <3>. HIDE DEF m
    <3>3. EndsAt(t, m)
      BY <1>3, <3>1, <3>2, EndsConcat
    <3>. QED  BY <3>1, <3>3
  <2>6. ASSUME Attached(c) PROVE EndsAt(ts, n) /\ n = h + Len(ts)
    <3>1. EndsAt(k \o s, n) /\ n = g + Len(k \o s)
      BY <2>1, <2>6
    <3>2. (<<h>> \o t) \o s = <<h>> \o (t \o s)
      <4>1. <<h>> \in Seq(1 .. MaxDown) /\ t \in Seq(1 .. MaxDown) /\ s \in Seq(1 .. MaxDown)
        BY <1>3, <2>2
      <4>. DEFINE e == <<h>>
      <4>. HIDE DEF e
      <4>2. (e \o t) \o s = e \o (t \o s)
        BY <4>1, ConcatAssociative DEF e
      <4>. QED  BY <4>2 DEF e
    <3>3. k \o s = <<h>> \o ts
      BY <1>3, <3>2
    <3>4. ts \in Seq(1 .. MaxDown)
      BY <1>3, <2>2, ConcatProperties
    <3>. HIDE DEF ts
    <3>5. Len(<<h>> \o ts) = Len(<<h>>) + Len(ts) /\ Len(ts) \in Nat
      BY <1>3, <3>4, ConcatAt
    <3>6. EndsAt(ts, n)
      BY <1>3, <2>2, <3>1, <3>3, <3>4, EndsConcat
    <3>7. n = g + (1 + Len(ts))
      BY <1>3, <3>1, <3>3, <3>5
    <3>. QED  BY <2>2, <2>4, <3>5, <3>6, <3>7
  <2>7. DownRun(b, c)'
    <3>1. /\ kdown'[c] = t /\ scache'[c] = s /\ sentDown'[c] = n
          /\ Attached(c)' <=> Attached(c)
      BY <1>2, <1>4 DEF t, s, n, Attached
    <3>2. toLocal'[b][Len(toLocal'[b])][1] = c
      <4>1. Len(toLocal'[b]) = Len(toLocal[b]) + 1
        BY <1>5, <1>6, <1>11
      <4>. QED  BY <1>5, <1>6, <1>9, <1>11, <4>1
    <3>. QED  BY <2>3, <2>5, <2>6, <3>1, <3>2 DEF DownRun
  <2>8. IF toLocal[b] # <<>> /\ toLocal[b][Len(toLocal[b])][1] = c
        THEN h = toLocal[b][Len(toLocal[b])][2] + 1
        ELSE h = 1 /\ \A j \in 1 .. Len(toLocal[b]) : toLocal[b][j][1] # c
    <3>1. CASE toLocal[b] # <<>> /\ toLocal[b][Len(toLocal[b])][1] = c
      BY <2>4, <3>1 DEF g, Got
    <3>2. CASE ~ (toLocal[b] # <<>> /\ toLocal[b][Len(toLocal[b])][1] = c)
      <4>1. g = 0
        BY <3>2 DEF g, Got
      <4>2. \A j \in 1 .. Len(toLocal[b]) : toLocal[b][j][1] # c
        <5>1. CASE toLocal[b] = <<>>
          <6>1. Len(toLocal[b]) = 0
            BY <5>1, EmptySeq
          <6>. QED  BY <6>1
        <5>2. CASE toLocal[b] # <<>>
          BY <2>1, <3>2, <5>2
        <5>. QED  BY <5>1, <5>2
      <4>3. h = 1
        BY <2>4, <4>1
      <4>. QED  BY <3>2, <4>2, <4>3
    <3>. QED  BY <3>1, <3>2
  <2>. QED  BY <2>7, <2>8
<1>12. ASSUME NEW a \in Bridges, ext'[a] # None, bridge'[a] = "live"
       PROVE  DownRun(a, ext[a])'
  <2>1. PICK d \in Conns : d = ext[a] /\ ext'[a] = d /\ bridge[a] = "live"
    BY <1>t, <1>2, <1>12 DEF TypeOK
  <2>2. CASE a = b
    BY <1>1, <1>11, <2>1, <2>2 DEF DownRun, Got, Attached
  <2>3. CASE a # b
    <3>1. d # c
      BY <1>t, <1>1, <2>1, <2>3 DEF OneOwner
    <3>2. DownRun(a, d)
      BY <1>t, <2>1 DEF DownloadInv
    <3>3. DownRun(a, d)'
      BY <1>2, <1>4, <1>6, <2>3, <3>1, <3>2 DEF DownRun, Got, Attached
    <3>. QED  BY <2>1, <3>3 DEF DownRun, Got, Attached
  <2>. QED  BY <2>2, <2>3
<1>13. DownloadInOrder'
  <2>1. \A a \in Bridges : InOrder(toLocal[a])
    BY DEF DownloadInv, DownloadInOrder, InOrder
  <2>2. bridge[b] = "live" => InOrder(Append(toLocal[b], new))
    <3>1. ASSUME bridge[b] = "live" PROVE InOrder(Append(toLocal[b], <<c, h>>))
      <4>1. toLocal[b] \in Seq(Conns \X (1 .. MaxDown)) /\ <<c, h>> \in Conns \X (1 .. MaxDown)
        BY <1>3, <1>5 DEF new
      <4>. HIDE DEF h
      <4>. QED  BY <1>11, <2>1, <3>1, <4>1, OneMoreInOrder
    <3>. QED  BY <3>1 DEF new
  <2>3. \A a \in Bridges : InOrder(toLocal'[a])
    BY <1>6, <2>1, <2>2
  <2>. QED  BY <2>3 DEF DownloadInOrder, InOrder
<1>. QED  BY <1>7, <1>8, <1>10, <1>12, <1>13 DEF DownloadInv

-----------------------------------------------------------------------------
(* The invariant holds.                                                    *)

PathInv == HandshakeInv /\ DataTypeOK /\ UploadInv /\ DownloadInv

LEMMA PathInit == DataInit => PathInv
<1>. SUFFICES ASSUME DataInit PROVE PathInv
  OBVIOUS
<1>1. HandshakeInv
  BY TypeInit, HandshakeInit DEF DataInit, HandshakeInv
<1>2. /\ MaxUp \in Nat /\ MaxDown \in Nat
      /\ \A S : <<>> \in Seq(S)
      /\ Len(<<>>) = 0 /\ <<>> \o <<>> = <<>> /\ \A n \in Nat : EndsAt(<<>>, n)
  BY ProxyPathAssumption, EmptySeq, ConcatEmptySeq, EndsNone
<1>3. DataTypeOK
  BY <1>2 DEF DataInit, Init, DataTypeOK, IntLives
<1>4. \A b \in Bridges : /\ ext[b] = None /\ ctun[b] = None
                         /\ sentUp[b] = 0 /\ ccache[b] = <<>> /\ toLocal[b] = <<>>
  BY DEF DataInit, Init
<1>5. \A c \in Conns : /\ stun[c] = None
                       /\ kup[c] = <<>> /\ icache[c] = <<>> /\ toServer[c] = <<>>
                       /\ kdown[c] = <<>> /\ scache[c] = <<>> /\ sentDown[c] = 0
                       /\ int[c] = "none"
  BY DEF DataInit, Init
<1>6. \A c \in Conns : Stream(c) = <<>>
  BY <1>2, <1>5, FlattenNone DEF Stream, Given
<1>7. UploadInv
  <2>1. CacheIsRun /\ FlowIsRun
    BY <1>2, <1>4, <1>5 DEF CacheIsRun, FlowIsRun, Attached
  <2>2. IntCached /\ NothingEarly
    <3>1. IntCached
      BY <1>5 DEF IntCached
    <3>2. NothingEarly
      BY <1>4, <1>6 DEF NothingEarly
    <3>. QED  BY <3>1, <3>2
  <2>3. RunsGiven
    <3>1. \A c \in Conns : Latest(c) = <<>>
      BY <1>5 DEF Latest
    <3>. QED  BY <1>5, <3>1 DEF RunsGiven, IsRun
  <2>4. StreamGrows
    <3>1. \A c \in Conns : Increasing(Stream(c))
      BY <1>2, <1>6 DEF Increasing
    <3>. QED  BY <1>4, <3>1 DEF StreamGrows
  <2>. QED  BY <2>1, <2>2, <2>3, <2>4 DEF UploadInv
<1>8. DownloadInv
  BY <1>2, <1>4, <1>5 DEF DownloadInv, NothingDown, DownloadInOrder
<1>. QED  BY <1>1, <1>3, <1>7, <1>8 DEF PathInv

\* A step of the data path is a step of the control plane, or leaves it alone
\* but for the count of failures.
LEMMA DataKeepsHandshake == HandshakeInv /\ [DataNext]_allVars => HandshakeInv'
<1>. SUFFICES ASSUME HandshakeInv, [DataNext]_allVars PROVE HandshakeInv'
  OBVIOUS
<1>n. [Next]_vars => HandshakeInv'
  BY TypeNext, HandshakeNext DEF HandshakeInv
<1>1. ASSUME NEW b \in Bridges, ClientDataStep(b) \/ LocalSend(b) \/ TunnelDown(b)
      PROVE  [Next]_vars
  <2>1. CASE DataRecvCreate(b)
    BY <2>1 DEF DataRecvCreate, Next, ClientStep
  <2>2. CASE ClientQuiet(b)
    BY <2>2 DEF ClientQuiet, Next, ClientStep
  <2>3. CASE ClientLoses(b)
    BY <2>3 DEF ClientLoses, Next, ClientStep
  <2>4. CASE LocalSend(b)
    BY <2>4 DEF LocalSend, Next
  <2>5. CASE TunnelDown(b)
    BY <2>5 DEF TunnelDown
  <2>. QED  BY <1>1, <2>1, <2>2, <2>3, <2>4, <2>5 DEF ClientDataStep
<1>2. ASSUME NEW c \in Conns, ServerDataStep(c) \/ SrvSend(c), ~ IntFault
      PROVE  [Next]_vars
  <2>1. CASE DataAccept(c)
    BY <2>1 DEF DataAccept, Next, ServerStep
  <2>2. CASE ServerQuiet(c)
    BY <2>2 DEF ServerQuiet, Next
  <2>3. CASE DataRecvConfirm(c)
    BY <2>3 DEF DataRecvConfirm, Next, ServerStep
  <2>4. CASE ServerLoses(c)
    BY <2>4 DEF ServerLoses, Next, ServerStep
  <2>5. CASE IntConnected(c) \/ IntCoolDown(c) \/ TunnelUp(c) \/ SrvSend(c)
    BY <1>2, <2>5 DEF IntConnected, IntCoolDown, TunnelUp, SrvSend
  <2>. QED  BY <1>2, <2>1, <2>2, <2>3, <2>4, <2>5 DEF ServerDataStep, IntLost
<1>3. DataClientUpdate => Next
  BY DEF DataClientUpdate, Next
<1>4. DataServerUpdate => Next
  BY DEF DataServerUpdate, Next
<1>5. UNCHANGED allVars => UNCHANGED vars
  BY DEF allVars
<1>6. ASSUME IntFault PROVE HandshakeInv'
  <2>1. /\ UNCHANGED <<bridge, ext, ctun, cool, cst, sess, stun, sup, heard, pool, up, down, crashes>>
        /\ faults < MaxFaults /\ faults' = faults + 1
    BY <1>6 DEF IntFault, clientVars, serverVars, netVars
  <2>2. TypeOK'
    <3>1. faults' \in 0 .. MaxFaults
      BY <2>1, FastTunnelAssumption DEF HandshakeInv, TypeOK
    <3>. QED  BY <2>1, <3>1 DEF HandshakeInv, TypeOK
  <2>3. Handshake'
    BY <2>1 DEF HandshakeInv, Handshake, OneOwner, Linked, Open, Paired, Fresh, SessionsHoldIds,
       UpHolds, CreateFirst, Attached, EndsAgree, ConfirmAfterCreate, ConfirmedMeansRegistered
  <2>. QED  BY <2>2, <2>3 DEF HandshakeInv
<1>. QED  BY <1>n, <1>1, <1>2, <1>3, <1>4, <1>5, <1>6 DEF DataNext

\* Of every step, what it does to the upload.
UploadMoves ==
  \/ UploadRests
  \/ \E b \in Bridges, c \in Conns : \E x : TunnelSends(b, c, x)
  \/ \E c \in Conns : SessionPasses(c)

LEMMA PathStep ==
  ASSUME PathInv, [DataNext]_allVars
  PROVE  DataTypeOK' /\ DownloadInv' /\ UploadMoves
<1>i. HandshakeInv /\ DataTypeOK /\ UploadInv /\ DownloadInv
  BY DEF PathInv
<1>r. ASSUME DataTypeOK', UploadRests, DownloadRests
      PROVE  DataTypeOK' /\ DownloadInv' /\ UploadMoves
  BY <1>i, <1>r, DownloadRestsStep DEF UploadMoves
<1>s. ASSUME DataTypeOK', DownloadRests, NEW b \in Bridges, NEW c \in Conns \ {None}, NEW x,
             TunnelSends(b, c, x)
      PROVE  DataTypeOK' /\ DownloadInv' /\ UploadMoves
  BY <1>i, <1>s, DownloadRestsStep, TunnelSendsSends DEF UploadMoves
<1>p. ASSUME DataTypeOK', DownloadRests, NEW c \in Conns, SessionPasses(c)
      PROVE  DataTypeOK' /\ DownloadInv' /\ UploadMoves
  BY <1>i, <1>p, DownloadRestsStep DEF UploadMoves
<1>1. ASSUME Idle PROVE DataTypeOK' /\ DownloadInv' /\ UploadMoves
  BY <1>i, <1>r, <1>1, IdleRests
<1>2. ASSUME NEW b \in Bridges, DataRecvCreate(b) PROVE DataTypeOK' /\ DownloadInv' /\ UploadMoves
  BY <1>i, <1>s, <1>2, CreateSends
<1>3. ASSUME NEW b \in Bridges, LocalSend(b) PROVE DataTypeOK' /\ DownloadInv' /\ UploadMoves
  <2>1. CASE ctun[b] = None
    BY <1>i, <1>r, <1>3, <2>1, LocalCacheRests
  <2>2. CASE ctun[b] # None
    BY <1>i, <1>s, <1>3, <2>2, LocalSendSends
  <2>. QED  BY <2>1, <2>2
<1>4. ASSUME NEW b \in Bridges, TunnelDown(b) PROVE DataTypeOK' /\ DownloadInv' /\ UploadMoves
  BY <1>i, <1>4, TunnelDownStep DEF UploadMoves
<1>5. ASSUME NEW c \in Conns, DataAccept(c) PROVE DataTypeOK' /\ DownloadInv' /\ UploadMoves
  BY <1>i, <1>r, <1>5, AcceptRests
<1>6. ASSUME NEW c \in Conns, DataRecvConfirm(c) PROVE DataTypeOK' /\ DownloadInv' /\ UploadMoves
  BY <1>i, <1>6, ConfirmSends, DownSendsStep DEF UploadMoves
<1>7. ASSUME NEW c \in Conns, SrvSend(c) PROVE DataTypeOK' /\ DownloadInv' /\ UploadMoves
  BY <1>i, <1>7, SrvSendSends, DownSendsStep DEF UploadMoves
<1>8. ASSUME NEW c \in Conns, IntConnected(c) PROVE DataTypeOK' /\ DownloadInv' /\ UploadMoves
  BY <1>i, <1>p, <1>8, IntConnectedPasses
<1>9. ASSUME NEW c \in Conns, IntLost(c) \/ IntCoolDown(c)
      PROVE  DataTypeOK' /\ DownloadInv' /\ UploadMoves
  BY <1>i, <1>r, <1>9, IntRests
<1>10. ASSUME NEW c \in Conns, TunnelUp(c) PROVE DataTypeOK' /\ DownloadInv' /\ UploadMoves
  BY <1>i, <1>p, <1>10, TunnelUpPasses
<1>11. ASSUME DataServerUpdate PROVE DataTypeOK' /\ DownloadInv' /\ UploadMoves
  BY <1>i, <1>r, <1>11, ServerUpdateRests
<1>12. ASSUME UNCHANGED allVars PROVE DataTypeOK' /\ DownloadInv' /\ UploadMoves
  <2>1. Calm /\ UNCHANGED dataVars
    BY <1>12, StayCalm DEF allVars, vars, clientVars, serverVars
  <2>. QED  BY <1>i, <1>1, <2>1, QuietIsIdle
<1>13. \/ \E b \in Bridges : ClientQuiet(b) \/ ClientLoses(b)
       \/ \E c \in Conns : ServerQuiet(c) \/ ServerLoses(c)
       \/ DataClientUpdate
       => Idle
  BY <1>i, QuietStepsIdle, LossesIdle
<1>14. ASSUME NEW b \in Bridges, ClientDataStep(b)
       PROVE  DataTypeOK' /\ DownloadInv' /\ UploadMoves
  BY <1>1, <1>2, <1>13, <1>14 DEF ClientDataStep
<1>15. ASSUME NEW c \in Conns, ServerDataStep(c)
       PROVE  DataTypeOK' /\ DownloadInv' /\ UploadMoves
  BY <1>1, <1>5, <1>6, <1>8, <1>9, <1>10, <1>13, <1>15 DEF ServerDataStep
<1>. QED  BY <1>1, <1>3, <1>4, <1>7, <1>11, <1>12, <1>13, <1>14, <1>15 DEF DataNext

LEMMA PathNext == PathInv /\ [DataNext]_allVars => PathInv'
<1>. SUFFICES ASSUME PathInv, [DataNext]_allVars PROVE PathInv'
  OBVIOUS
<1>1. DataTypeOK' /\ DownloadInv' /\ UploadMoves
  BY PathStep
<1>2. HandshakeInv'
  BY DataKeepsHandshake DEF PathInv
<1>3. UploadInv'
  <2>1. HandshakeInv /\ DataTypeOK /\ UploadInv
    BY DEF PathInv
  <2>2. ASSUME NEW b \in Bridges, NEW c \in Conns, NEW x, TunnelSends(b, c, x)
        PROVE  UploadInv'
    <3>1. BridgeSends(b, c)
      BY <2>1, <2>2, TunnelSendsSends, FastTunnelAssumption
    <3>. QED  BY <1>1, <2>1, <3>1, BridgeSendsStep
  <2>. QED  BY <1>1, <2>1, <2>2, UploadRestsStep, SessionPassesStep DEF UploadMoves
<1>. QED  BY <1>1, <1>2, <1>3 DEF PathInv

LEMMA PathHolds == DataSpec => []PathInv
BY PathInit, PathNext, PTL DEF DataSpec

-----------------------------------------------------------------------------
(* One bridge: its data are on one session each.                           *)

\* What a step leaves on the sessions they had, or in the cache.
KeepsToItself ==
  /\ \A c \in Conns : Range(Stream(c)') \subseteq Range(Stream(c))
  /\ \A b \in Bridges : Caches(b)

LEMMA RestKeeps ==
  ASSUME HandshakeInv, DataTypeOK, UploadInv, DataTypeOK', UploadRests
  PROVE  KeepsToItself
<1>1. ASSUME NEW c \in Conns PROVE Range(Stream(c)') \subseteq Range(Stream(c))
  <2>0. (Stream(c) \in Seq(1 .. MaxUp))'
    BY PathTypes, PTL
  <2>. DEFINE s == Stream(c)'
  <2>1. PICK r \in Seq(1 .. MaxUp) : Stream(c) = s \o r
    BY RestShrinks DEF HandshakeInv
  <2>2. s \in Seq(1 .. MaxUp)
    BY <2>0
  <2>. HIDE DEF s
  <2>3. Range(s \o r) = Range(s) \cup Range(r)
    BY <2>2, RangeConcat
  <2>4. Range(s) \subseteq Range(Stream(c))
    BY <2>1, <2>3
  <2>. QED  BY <2>4 DEF s
<1>. QED  BY <1>1 DEF KeepsToItself, UploadRests

LEMMA PassKeeps ==
  ASSUME DataTypeOK, DataTypeOK', NEW c \in Conns, SessionPasses(c)
  PROVE  KeepsToItself
<1>1. ASSUME NEW d \in Conns \ {c} PROVE Stream(d)' = Stream(d)
  BY DEF SessionPasses, Stream, Given
<1>2. Range(Stream(c)') \subseteq Range(Stream(c))
  <2>0. (Stream(c) \in Seq(1 .. MaxUp))'
    BY PathTypes, PTL
  <2>. DEFINE s == Stream(c)
              t == Stream(c)'
  <2>1. s \in Seq(1 .. MaxUp)
    BY PathTypes
  <2>2. t \in Seq(1 .. MaxUp)
    BY <2>0
  <2>3. \A i \in 1 .. Len(t) : \E j \in 1 .. Len(s) : t[i] = s[j]
    BY DEF SessionPasses
  <2>. HIDE DEF s, t
  <2>4. DOMAIN s = 1 .. Len(s) /\ DOMAIN t = 1 .. Len(t)
    BY <2>1, <2>2, LenProperties
  <2>5. Range(t) \subseteq Range(s)
    BY <2>3, <2>4 DEF Range
  <2>. QED  BY <2>5 DEF s, t
<1>3. \A b \in Bridges : Caches(b)
  BY DEF SessionPasses, Caches
<1>. QED  BY <1>1, <1>2, <1>3 DEF KeepsToItself

LEMMA KeepsOnOneSession ==
  ASSUME DataTypeOK, OnOneSession, KeepsToItself
  PROVE  OnOneSession'
<1>1. ASSUME NEW b \in Bridges
      PROVE  /\ sentUp'[b] >= sentUp[b] /\ sentUp[b] \in Nat /\ sentUp'[b] \in Nat
             /\ \A k \in Range(ccache'[b]) : k \in Range(ccache[b]) \/ k > sentUp[b]
  <2>1. sentUp[b] \in 0 .. MaxUp /\ ccache[b] \in Seq(1 .. MaxUp) /\ MaxUp \in Nat
    BY ProxyPathAssumption DEF DataTypeOK
  <2>2. CASE sentUp'[b] = sentUp[b] /\ ccache'[b] = ccache[b]
    BY <2>1, <2>2
  <2>3. CASE /\ sentUp'[b] = sentUp[b] + 1 /\ sentUp[b] < MaxUp
             /\ ccache'[b] = ccache[b] \o <<sentUp[b] + 1>>
    <3>. DEFINE x == <<sentUp[b] + 1>>
    <3>1. x \in Seq(1 .. MaxUp) /\ Range(x) = {sentUp[b] + 1}
      <4>1. sentUp[b] + 1 \in 1 .. MaxUp
        BY <2>1, <2>3
      <4>2. DOMAIN x = {1} /\ x[1] = sentUp[b] + 1
        BY Z3
      <4>3. x \in Seq(1 .. MaxUp)
        BY <4>1
      <4>. HIDE DEF x
      <4>. QED  BY <4>2, <4>3 DEF Range
    <3>. HIDE DEF x
    <3>2. Range(ccache[b] \o x) = Range(ccache[b]) \cup Range(x)
      BY <2>1, <3>1, RangeConcat
    <3>. QED  BY <2>1, <2>3, <3>1, <3>2 DEF x
  <2>. QED  BY <2>2, <2>3 DEF KeepsToItself, Caches
<1>2. ASSUME NEW b \in Bridges, NEW c \in Conns
      PROVE  /\ Range(Stream(c)') \cap Range(ccache'[b]) = {}
             /\ Range(Stream(c)') \subseteq 1 .. sentUp'[b]
  <2>1. /\ Range(Stream(c)') \subseteq Range(Stream(c))
        /\ Range(Stream(c)) \cap Range(ccache[b]) = {}
        /\ Range(Stream(c)) \subseteq 1 .. sentUp[b]
    BY DEF OnOneSession, KeepsToItself
  <2>. DEFINE S == Range(Stream(c))
              T == Range(Stream(c)')
              m == sentUp[b]
              n == sentUp'[b]
  <2>2. /\ T \subseteq S /\ S \cap Range(ccache[b]) = {} /\ S \subseteq 1 .. m
        /\ n >= m /\ m \in Nat /\ n \in Nat
        /\ \A k \in Range(ccache'[b]) : k \in Range(ccache[b]) \/ k > m
    BY <1>1, <2>1
  <2>. HIDE DEF S, T, m, n
  <2>3. T \subseteq 1 .. n
    BY <2>2
  <2>4. ASSUME NEW k \in T, k \in Range(ccache'[b]) PROVE FALSE
    <3>1. k \in S /\ k \in 1 .. m /\ k \notin Range(ccache[b])
      BY <2>2
    <3>. QED  BY <2>2, <2>4, <3>1
  <2>. QED  BY <2>3, <2>4 DEF T, n
<1>3. \A c, d \in Conns : c # d => Range(Stream(c)') \cap Range(Stream(d)') = {}
  BY DEF OnOneSession, KeepsToItself
<1>4. \A b \in Bridges : \A c \in Conns :
        /\ Range(Stream(c)') \cap Range(ccache'[b]) = {}
        /\ Range(Stream(c)') \subseteq 1 .. sentUp'[b]
  BY <1>2
<1>. QED  BY <1>3, <1>4 DEF OnOneSession, Range, Stream, Given

LEMMA SendsOnOneSession ==
  ASSUME DataTypeOK, UploadInv, OnOneSession, \A a, b \in Bridges : a = b,
         NEW b \in Bridges, NEW c \in Conns, NEW x, TunnelSends(b, c, x)
  PROVE  OnOneSession'
<1>. DEFINE s == Stream(c)
            m == sentUp[b]
            n == sentUp'[b]
            X == Range(x)
<1>1. /\ MaxUp \in Nat /\ x \in Seq(1 .. MaxUp) /\ n \in Nat /\ EndsAt(x, n) /\ IntCached
      /\ s \in Seq(1 .. MaxUp) /\ m \in Nat
      /\ ccache[b] \in Seq(1 .. MaxUp) /\ ccache'[b] = <<>>
  <2>1. s \in Seq(1 .. MaxUp) /\ MaxUp \in Nat /\ IntCached
    BY PathTypes DEF UploadInv
  <2>2. ccache[b] \in Seq(1 .. MaxUp) /\ sentUp[b] \in 0 .. MaxUp
    BY DEF DataTypeOK
  <2>3. /\ x \in Seq(1 .. MaxUp) /\ n \in Nat /\ EndsAt(x, n) /\ ccache'[b] = <<>>
    BY DEF TunnelSends
  <2>. QED  BY <2>1, <2>2, <2>3
<1>2. Stream(c)' = s \o x
  BY <1>1, TunnelTakes DEF TunnelSends
<1>3. \A d \in Conns \ {c} : Stream(d)' = Stream(d)
  BY DEF TunnelSends, Stream, Given
<1>4. Range(Stream(c)') = Range(Stream(c)) \cup X
  <2>. HIDE DEF s
  <2>1. Range(s \o x) = Range(s) \cup Range(x)
    BY <1>1, RangeConcat
  <2>. QED  BY <1>2, <2>1 DEF s
<1>5. Range(ccache'[b]) = {}
  BY <1>1, EmptySeq DEF Range
<1>6. /\ \A d \in Conns : /\ Range(Stream(d)) \cap Range(ccache[b]) = {}
                          /\ Range(Stream(d)) \subseteq 1 .. m
      /\ \A d, e \in Conns : d # e => Range(Stream(d)) \cap Range(Stream(e)) = {}
  BY DEF OnOneSession
<1>7. DOMAIN x = 1 .. Len(x) /\ Len(x) \in Nat /\ Len(x) <= n
      /\ \A i \in 1 .. Len(x) : x[i] = n - Len(x) + i
  BY <1>1, LenProperties DEF EndsAt
<1>. HIDE DEF s, m, n
<1>8. X \subseteq 1 .. n
  BY <1>1, <1>7 DEF Range
<1>9. m <= n /\ \A d \in Conns \ {c} : Range(Stream(d)) \cap X = {}
  <2>1. CASE x = ccache[b] /\ n = m
    BY <1>1, <1>6, <2>1
  <2>2. CASE m = n - Len(x)
    <3>1. \A k \in X : k > m
      BY <1>1, <1>7, <2>2 DEF Range
    <3>2. m <= n
      BY <1>1, <1>7, <2>2
    <3>3. ASSUME NEW d \in Conns \ {c} PROVE Range(Stream(d)) \cap X = {}
      <4>1. \A k \in Range(Stream(d)) : k <= m
        BY <1>1, <1>6
      <4>2. \A k \in Range(Stream(d)) : k \in Nat
        BY <1>1, <1>6
      <4>3. \A k \in X : k \in Nat
        BY <1>1, <1>8
      <4>. HIDE DEF X
      <4>. QED  BY <1>1, <3>1, <4>1, <4>2, <4>3
    <3>. QED  BY <3>2, <3>3
  <2>. QED  BY <2>1, <2>2 DEF TunnelSends, m, n
<1>. HIDE DEF X
<1>10. ASSUME NEW d \in Conns
       PROVE  /\ Range(Stream(d)') \cap Range(ccache'[b]) = {}
              /\ Range(Stream(d)') \subseteq 1 .. n
  <2>1. Range(Stream(d)) \subseteq 1 .. n
    <3>1. 1 .. m \subseteq 1 .. n
      BY <1>1, <1>9
    <3>. QED  BY <1>6, <3>1
  <2>2. CASE d = c
    BY <1>4, <1>5, <1>8, <2>1, <2>2
  <2>3. CASE d # c
    BY <1>3, <1>5, <2>1, <2>3
  <2>. QED  BY <2>2, <2>3
<1>11. ASSUME NEW d \in Conns, NEW e \in Conns, d # e
       PROVE  Range(Stream(d)') \cap Range(Stream(e)') = {}
  <2>1. Range(Stream(d)) \cap Range(Stream(e)) = {}
    BY <1>6, <1>11
  <2>2. CASE d = c
    <3>1. Range(Stream(e)') = Range(Stream(e)) /\ Range(Stream(e)) \cap X = {}
      BY <1>3, <1>9, <1>11, <2>2
    <3>2. Range(Stream(d)') = Range(Stream(d)) \cup X
      BY <1>4, <2>2
    <3>. QED  BY <2>1, <3>1, <3>2
  <2>3. CASE e = c
    <3>1. Range(Stream(d)') = Range(Stream(d)) /\ Range(Stream(d)) \cap X = {}
      BY <1>3, <1>9, <1>11, <2>3
    <3>2. Range(Stream(e)') = Range(Stream(e)) \cup X
      BY <1>4, <2>3
    <3>. QED  BY <2>1, <3>1, <3>2
  <2>4. CASE d # c /\ e # c
    BY <1>3, <2>1, <2>4
  <2>. QED  BY <2>2, <2>3, <2>4
<1>12. \A a \in Bridges : \A d \in Conns :
         /\ Range(Stream(d)') \cap Range(ccache'[a]) = {}
         /\ Range(Stream(d)') \subseteq 1 .. sentUp'[a]
  BY <1>10 DEF n
<1>. QED  BY <1>11, <1>12 DEF OnOneSession, Range, Stream, Given

LEMMA OnOneSessionInit == DataInit => OnOneSession
<1>. SUFFICES ASSUME DataInit PROVE OnOneSession
  OBVIOUS
<1>1. \A c \in Conns : Stream(c) = <<>>
  <2>1. \A c \in Conns : toServer[c] = <<>> /\ icache[c] = <<>> /\ kup[c] = <<>>
    BY DEF DataInit
  <2>2. <<>> \o <<>> = <<>>
    BY EmptySeq, ConcatEmptySeq
  <2>. QED  BY <2>1, <2>2, FlattenNone DEF Stream, Given
<1>2. Range(<<>>) = {}
  BY EmptySeq DEF Range
<1>. QED  BY <1>1, <1>2 DEF OnOneSession

LEMMA OnOneSessionNext ==
  ASSUME \A a, b \in Bridges : a = b
  PROVE  PathInv /\ OnOneSession /\ [DataNext]_allVars => OnOneSession'
<1>. SUFFICES ASSUME PathInv, OnOneSession, [DataNext]_allVars PROVE OnOneSession'
  OBVIOUS
<1>1. DataTypeOK' /\ UploadMoves /\ HandshakeInv /\ DataTypeOK /\ UploadInv
  BY PathStep DEF PathInv
<1>2. CASE UploadRests
  BY <1>1, <1>2, RestKeeps, KeepsOnOneSession
<1>3. ASSUME NEW b \in Bridges, NEW c \in Conns, NEW x, TunnelSends(b, c, x)
      PROVE  OnOneSession'
  BY <1>1, <1>3, SendsOnOneSession
<1>4. ASSUME NEW c \in Conns, SessionPasses(c) PROVE OnOneSession'
  BY <1>1, <1>4, PassKeeps, KeepsOnOneSession
<1>. QED  BY <1>1, <1>2, <1>3, <1>4 DEF UploadMoves

\* Of what a session has been given, nothing is given again; with one bridge,
\* neither by another session.
LEMMA GivenIncreases ==
  ASSUME PathInv, NEW c \in Conns
  PROVE  /\ \A i, j \in DOMAIN Given(c) : i < j => Given(c)[i] < Given(c)[j]
         /\ Range(Given(c)) \subseteq Range(Stream(c))
<1>. DEFINE g == Given(c)
            k == icache[c] \o kup[c]
<1>1. MaxUp \in Nat /\ g \in Seq(1 .. MaxUp) /\ k \in Seq(1 .. MaxUp)
  BY PathTypes DEF PathInv
<1>2. Increasing(g \o k) /\ Stream(c) = g \o k
  BY DEF PathInv, UploadInv, StreamGrows, Stream
<1>. HIDE DEF g, k
<1>3. Increasing(g)
  BY <1>1, <1>2, IncreasingConcat
<1>4. \A i, j \in DOMAIN g : i < j => g[i] < g[j]
  BY <1>1, <1>3, LenProperties DEF Increasing
<1>5. Range(g \o k) = Range(g) \cup Range(k)
  BY <1>1, RangeConcat
<1>. QED  BY <1>2, <1>4, <1>5 DEF g

LEMMA OneBridgeGivesOnce ==
  ASSUME PathInv, OnOneSession
  PROVE  GivenOnce
BY GivenIncreases DEF GivenOnce, OnOneSession

-----------------------------------------------------------------------------
(* Until something fails, caches and tunnel are one queue each way.        *)

\* What holds as long as nothing has failed and nobody has closed: no end has
\* gone, no Fin has been sent, and a bridge keeps its first connection.
Unbroken ==
  /\ \A c \in Conns :
       /\ cst[c] # "closed" /\ (cst[c] # "unused" => \E b \in Bridges : ext[b] = c)
       /\ sess[c] \in {"none", "live"} /\ (sess[c] = "live" => stun[c] # None)
       /\ Fin \notin Range(up[c]) /\ Fin \notin Range(down[c])
  /\ \A b \in Bridges : bridge[b] = "live" => ext[b] # None
ServersReached == \A c \in Conns : int[c] \in {"none", "connecting", "connected"}

\* The upload is on its session or, what of it is not, in the cache.
UploadWhole ==
  \A b \in Bridges :
    IF ext[b] = None THEN sentUp[b] = 0
    ELSE /\ EndsAt(Stream(ext[b]), Len(Stream(ext[b])))
         /\ sentUp[b] = Len(Stream(ext[b])) + Len(ccache[b])

\* What ss-local has been given is of the one session, and in order.
DownloadWhole ==
  \A b \in Bridges : \A i \in 1 .. Len(toLocal[b]) : toLocal[b][i] = <<ext[b], i>>

CleanInv == Clean => Unbroken /\ ServersReached /\ UploadWhole /\ DownloadWhole

\* A step of the client or the server can only be clean if those before it were.
Soils == /\ faults \in Nat /\ faults' \in Nat /\ faults' >= faults
         /\ \A b \in Bridges : bridge[b] \in {"shut", "gone"} => bridge'[b] \in {"shut", "gone"}

LEMMA SoiledBefore == ASSUME Soils, Clean' PROVE Clean
<1>1. faults = 0
  BY DEF Soils, Clean
<1>. QED  BY <1>1 DEF Soils, Clean

LEMMA DropSoils ==
  ASSUME TypeOK, NEW b \in Bridges, NEW told, NEW n \in {0, 1}, DropAndReconnect(b, told, n)
  PROVE  Soils /\ faults' >= faults + n
<1>1. bridge' = bridge /\ faults \in Nat
  BY FastTunnelAssumption DEF DropAndReconnect, TypeOK
<1>2. faults' = faults + n + 1 \/ faults' = faults + n
  BY DEF DropAndReconnect, Count
<1>. QED  BY <1>1, <1>2 DEF Soils

\* Every step, and those that a failure or an end must have preceded.
LEMMA StepsSoil ==
  ASSUME TypeOK, [DataNext]_allVars
  PROVE  Soils
<1>0. faults \in Nat
  BY FastTunnelAssumption DEF TypeOK
<1>1. ASSUME UNCHANGED <<bridge, faults>> PROVE Soils
  BY <1>0, <1>1 DEF Soils
<1>2. ASSUME UNCHANGED bridge, faults' = faults + 1 PROVE Soils
  BY <1>0, <1>2 DEF Soils
<1>3. ASSUME NEW b \in Bridges, ClientDataStep(b) \/ LocalSend(b) \/ TunnelDown(b) PROVE Soils
  <2>1. CASE ConnectDone(b) \/ CoolDown(b) \/ ClientRecvCreate(b) \/ UNCHANGED vars
    BY <1>1, <2>1 DEF ConnectDone, CoolDown, ClientRecvCreate, vars, clientVars, countVars
  <2>2. CASE LocalClose(b)
    <3>1. bridge' = [bridge EXCEPT ![b] = "shut"] /\ faults' = faults
      BY <2>2 DEF LocalClose, countVars
    <3>. QED  BY <1>0, <3>1 DEF Soils, TypeOK
  <2>3. CASE AcceptLocal(b)
    <3>1. PICK new \in NextConn :
            /\ bridge[b] = "unused"
            /\ bridge' = [bridge EXCEPT ![b] = IF new = None THEN "gone" ELSE "live"]
            /\ Count(0, TRUE, new)
      BY <2>3 DEF AcceptLocal
    <3>2. faults' = faults + 0 + 1 \/ faults' = faults + 0
      BY <3>1 DEF Count
    <3>3. \A a \in Bridges : bridge[a] \in {"shut", "gone"} => bridge'[a] = bridge[a]
      BY <3>1 DEF TypeOK
    <3>. QED  BY <1>0, <3>2, <3>3 DEF Soils
  <2>4. CASE ClientError(b) \/ ClientRecvFin(b) \/ RetryOnData(b)
    <3>1. \E told \in BOOLEAN, n \in {0, 1} : DropAndReconnect(b, told, n)
      BY <2>4 DEF ClientError, Told, ClientRecvFin, RetryOnData
    <3>. QED  BY <3>1, DropSoils
  <2>. QED  BY <1>3, <2>1, <2>2, <2>3, <2>4
       DEF ClientDataStep, ClientQuiet, ClientLoses, DataRecvCreate, LocalSend, TunnelDown
<1>4. ASSUME NEW c \in Conns, ServerDataStep(c) \/ SrvSend(c) PROVE Soils
  <2>1. CASE \/ Accept(c) \/ AcceptZombie(c) \/ Heartbeat(c)
             \/ ServerRecvConfirm(c) \/ ServerRecvFin(c)
    BY <1>1, <2>1 DEF Accept, AcceptZombie, Heartbeat, ServerRecvConfirm, ServerRecvFin,
       ServerDrops, clientVars, countVars
  <2>2. CASE AcceptAborted(c) \/ ServerError(c) \/ IntFault
    BY <1>2, <2>2 DEF AcceptAborted, ServerError, ServerDrops, IntFault, clientVars
  <2>3. CASE HeartbeatTimeout(c)
    BY <1>1, <1>2, <2>3 DEF HeartbeatTimeout, clientVars
  <2>4. CASE UNCHANGED vars
    BY <1>1, <2>4 DEF vars, clientVars, countVars
  <2>. QED  BY <1>4, <2>1, <2>2, <2>3, <2>4
       DEF ServerDataStep, DataAccept, ServerQuiet, DataRecvConfirm, ServerLoses, IntConnected,
           IntLost, IntCoolDown, TunnelUp, SrvSend
<1>5. CASE DataClientUpdate
  <2>1. /\ faults' = faults
        /\ \A b \in Bridges : bridge'[b] = IF bridge[b] = "shut" THEN "gone" ELSE bridge[b]
    BY <1>5 DEF DataClientUpdate, ClientUpdate, DropBridges, countVars
  <2>. QED  BY <1>0, <2>1 DEF Soils
<1>6. CASE DataServerUpdate
  BY <1>1, <1>6 DEF DataServerUpdate, ServerUpdate, clientVars, countVars
<1>7. CASE UNCHANGED allVars
  BY <1>1, <1>7 DEF allVars, vars, clientVars, countVars
<1>. QED  BY <1>3, <1>4, <1>5, <1>6, <1>7 DEF DataNext

-----------------------------------------------------------------------------
(* The steps that are left.                                                *)

\* The steps that are left while nothing fails and nobody closes.
CleanStep ==
  \/ UNCHANGED allVars
  \/ \E b \in Bridges :
       \/ (ConnectDone(b) \/ CoolDown(b)) /\ UNCHANGED dataVars
       \/ AcceptLocal(b) /\ bridge'[b] = "live" /\ UNCHANGED dataVars
       \/ DataRecvCreate(b)
       \/ LocalSend(b) /\ UNCHANGED vars
       \/ TunnelDown(b)
  \/ \E c \in Conns :
       \/ Accept(c) /\ DataAccept(c)
       \/ Heartbeat(c) /\ UNCHANGED dataVars
       \/ DataRecvConfirm(c)
       \/ (IntConnected(c) \/ TunnelUp(c)) /\ ~ IntFault
       \/ IntCoolDown(c) \/ SrvSend(c)

LEMMA CleanStepsOnly ==
  ASSUME HandshakeInv, Unbroken, Clean, Clean', [DataNext]_allVars
  PROVE  CleanStep
<1>0. /\ TypeOK /\ faults = 0 /\ faults' = 0
      /\ \A b \in Bridges : bridge'[b] \notin {"shut", "gone"} /\ bridge[b] \notin {"shut", "gone"}
      /\ \A b \in Bridges : Open(b) => bridge[b] = "live"
  BY DEF Clean, HandshakeInv, Open
<1>d. ASSUME NEW b \in Bridges, NEW told, DropAndReconnect(b, told, 1)
      PROVE  FALSE
  <2>1. 1 \in {0, 1}
    OBVIOUS
  <2>2. Soils /\ faults' >= faults + 1
    BY <1>0, <1>d, <2>1, DropSoils
  <2>. QED  BY <1>0, <2>2
<1>1. ASSUME NEW b \in Bridges PROVE ~ ClientError(b) /\ ~ ClientRecvFin(b) /\ ~ RetryOnData(b)
  <2>1. ~ ClientError(b)
    BY <1>d DEF ClientError
  <2>2. ASSUME ClientRecvFin(b) PROVE FALSE
    <3>1. PICK c \in Conns : /\ c = ext[b] /\ down[c] \in Seq(Msg)
                              /\ down[c] # <<>> /\ Head(down[c]) = Fin
      BY <1>0, <2>2 DEF ClientRecvFin, ClientHears, TypeOK
    <3>2. Head(down[c]) \in Range(down[c])
      BY <3>1, AfterTail
    <3>. QED  BY <3>1, <3>2 DEF Unbroken
  <2>3. ASSUME RetryOnData(b) PROVE FALSE
    <3>1. ext[b] # None
      BY <2>3 DEF RetryOnData, RetryDue, Unbroken
    <3>2. DropAndReconnect(b, TRUE, 1)
      BY <2>3, <3>1 DEF RetryOnData
    <3>. QED  BY <1>d, <3>2
  <2>. QED  BY <2>1, <2>2, <2>3
<1>2. ASSUME NEW b \in Bridges, ClientDataStep(b) \/ LocalSend(b) \/ TunnelDown(b)
      PROVE  CleanStep
  <2>1. ~ LocalClose(b)
    BY <1>0 DEF LocalClose, TypeOK
  <2>2. ASSUME AcceptLocal(b) PROVE bridge'[b] = "live"
    BY <1>0, <2>2 DEF AcceptLocal, TypeOK
  <2>. QED  BY <1>1, <1>2, <2>1, <2>2
       DEF ClientDataStep, ClientQuiet, ClientLoses, LocalSend, CleanStep
<1>3. ASSUME NEW c \in Conns PROVE /\ ~ AcceptZombie(c) /\ ~ AcceptAborted(c)
                                   /\ ~ HeartbeatTimeout(c) /\ ~ ServerRecvFin(c)
                                   /\ ~ ServerError(c) /\ ~ IntLost(c) /\ ~ IntFault
  <2>1. ~ AcceptZombie(c) /\ ~ HeartbeatTimeout(c)
    BY <1>0 DEF AcceptZombie, HeartbeatTimeout, Unbroken
  <2>2. ~ AcceptAborted(c) /\ ~ ServerError(c) /\ ~ IntLost(c) /\ ~ IntFault
    BY <1>0 DEF AcceptAborted, ServerError, IntLost, IntFault
  <2>3. ASSUME ServerRecvFin(c) PROVE FALSE
    <3>1. up[c] # <<>> /\ Head(up[c]) = Fin /\ up[c] \in Seq(Msg)
      BY <1>0, <2>3 DEF ServerRecvFin, TypeOK
    <3>2. Head(up[c]) \in Range(up[c])
      BY <3>1, AfterTail
    <3>. QED  BY <3>1, <3>2 DEF Unbroken
  <2>. QED  BY <2>1, <2>2, <2>3
<1>4. ASSUME NEW c \in Conns, ServerDataStep(c) \/ SrvSend(c) PROVE CleanStep
  BY <1>3, <1>4 DEF ServerDataStep, DataAccept, ServerQuiet, ServerLoses, CleanStep
<1>5. ~ DataClientUpdate
  BY <1>0 DEF DataClientUpdate, ClientUpdate
<1>6. ~ DataServerUpdate
  BY DEF DataServerUpdate, ServerUpdate, ShutSessions, Unbroken
<1>. QED  BY <1>2, <1>4, <1>5, <1>6 DEF DataNext, CleanStep

LEMMA CleanStaysUnbroken ==
  ASSUME HandshakeInv, Unbroken, CleanStep
  PROVE  Unbroken'
<1>t. TypeOK /\ OneOwner /\ Linked /\ None \notin Conns
  BY FastTunnelAssumption DEF HandshakeInv, Handshake
<1>m. /\ Confirm \in Msg /\ Fin \in Msg /\ \A v \in Convs : Create(v) \in Msg
      /\ \A c \in Conns : down[c] \in Seq(Msg) /\ up[c] \in Seq(Msg)
  BY <1>t DEF TypeOK, Msg
<1>1. ASSUME UNCHANGED <<bridge, ext, cst, sess, stun, up, down>> PROVE Unbroken'
  BY <1>1 DEF Unbroken
<1>2. ASSUME NEW b \in Bridges, ConnectDone(b) PROVE Unbroken'
  <2>1. /\ UNCHANGED <<bridge, ext, sess, stun, up, down>>
        /\ ext[b] # None /\ cst' = [cst EXCEPT ![ext[b]] = "connected"]
    BY <1>2 DEF ConnectDone, serverVars, netVars
  <2>2. \A c \in Conns : cst'[c] = IF c = ext[b] THEN "connected" ELSE cst[c]
    BY <1>t, <2>1 DEF TypeOK
  <2>. QED  BY <2>1, <2>2 DEF Unbroken
<1>3. ASSUME NEW b \in Bridges, AcceptLocal(b), bridge'[b] = "live" PROVE Unbroken'
  <2>1. PICK new \in NextConn :
          /\ ext' = [ext EXCEPT ![b] = new] /\ cst' = CstAfter(None, new)
          /\ bridge' = [bridge EXCEPT ![b] = IF new = None THEN "gone" ELSE "live"]
          /\ UNCHANGED <<sess, stun, up, down>> /\ bridge[b] = "unused"
    BY <1>3 DEF AcceptLocal, serverVars, netVars
  <2>2. new \in Conns /\ new # None
    BY <1>t, <1>3, <2>1 DEF TypeOK, NextConn, Unused
  <2>3. \A c \in Conns : cst'[c] = IF c = new THEN "connecting" ELSE cst[c]
    BY <1>t, <2>1, <2>2 DEF CstAfter
  <2>4. ext[b] = None
    BY <1>t, <2>1 DEF Linked, Open
  <2>5. \A a \in Bridges : /\ ext'[a] = IF a = b THEN new ELSE ext[a]
                           /\ bridge'[a] = IF a = b THEN "live" ELSE bridge[a]
    BY <1>t, <2>1, <2>2 DEF TypeOK
  <2>6. ASSUME NEW c \in Conns, cst'[c] # "unused" PROVE \E a \in Bridges : ext'[a] = c
    <3>1. CASE c = new
      BY <2>5, <3>1
    <3>2. CASE c # new
      <4>1. PICK a \in Bridges : ext[a] = c
        BY <2>3, <2>6, <3>2 DEF Unbroken
      <4>. QED  BY <1>t, <2>4, <2>5, <4>1
    <3>. QED  BY <3>1, <3>2
  <2>. QED  BY <2>1, <2>2, <2>3, <2>5, <2>6 DEF Unbroken
<1>4. ASSUME NEW b \in Bridges, ClientRecvCreate(b) PROVE Unbroken'
  <2>1. PICK c \in Conns : c = ext[b] /\ down[c] # <<>>
    BY <1>t, <1>4 DEF ClientRecvCreate, ClientHears, TypeOK
  <2>2. /\ UNCHANGED <<bridge, ext, cst, sess, stun>>
        /\ up' = up \/ up' = [up EXCEPT ![c] = Append(@, Confirm)]
        /\ down' = [down EXCEPT ![c] = Tail(@)]
    BY <1>4, <2>1 DEF ClientRecvCreate, serverVars
  <2>3. \A d \in Conns : /\ up'[d] = up[d] \/ up'[d] = Append(up[d], Confirm)
                         /\ down'[d] = down[d] \/ (down'[d] = Tail(down[d]) /\ down[d] # <<>>)
    BY <1>t, <2>1, <2>2 DEF TypeOK
  <2>4. ASSUME NEW d \in Conns PROVE Fin \notin Range(up'[d]) /\ Fin \notin Range(down'[d])
    <3>1. Fin \notin Range(up[d]) /\ Fin \notin Range(down[d])
      BY DEF Unbroken
    <3>2. Range(Append(up[d], Confirm)) = Range(up[d]) \cup {Confirm}
      BY <1>m, AfterAppend
    <3>3. down[d] # <<>> => Range(Tail(down[d])) \subseteq Range(down[d])
      BY <1>m, AfterTail
    <3>. QED  BY <2>3, <3>1, <3>2, <3>3, KindsDiffer
  <2>. QED  BY <2>2, <2>4 DEF Unbroken
<1>5. ASSUME NEW c \in Conns, Accept(c) PROVE Unbroken'
  <2>1. /\ UNCHANGED <<bridge, ext, cst, up>>
        /\ sess' = [sess EXCEPT ![c] = "live"] /\ stun' = [stun EXCEPT ![c] = Head(pool)]
        /\ pool # <<>> /\ pool \in Seq(Convs)
        /\ down' = Send(c, <<Create(Head(pool))>>)
    BY <1>t, <1>5 DEF Accept, clientVars, TypeOK
  <2>2. Head(pool) \in Convs /\ Head(pool) # None
    <3>1. Head(pool) \in Convs
      BY <2>1, HeadTailProperties
    <3>. QED  BY <3>1, NoneIsNoConv
  <2>3. \A d \in Conns : /\ sess'[d] = IF d = c THEN "live" ELSE sess[d]
                         /\ stun'[d] = IF d = c THEN Head(pool) ELSE stun[d]
    BY <1>t, <2>1 DEF TypeOK
  <2>. DEFINE e == Create(Head(pool))
  <2>4. e \in Msg /\ e # Fin
    BY <1>m, <2>2, KindsDiffer
  <2>5. \A d \in Conns : down'[d] = down[d] \/ down'[d] = down[d] \o <<e>>
    BY <1>t, <2>1 DEF Send, TypeOK
  <2>. HIDE DEF e
  <2>6. ASSUME NEW d \in Conns PROVE Fin \notin Range(down'[d])
    <3>1. Fin \notin Range(down[d])
      BY DEF Unbroken
    <3>2. Range(down[d] \o <<e>>) = Range(down[d]) \cup Range(<<e>>)
      <4>1. <<e>> \in Seq(Msg) /\ down[d] \in Seq(Msg)
        BY <1>m, <2>4
      <4>. QED  BY <4>1, RangeConcat, ZenonT(60)
    <3>3. Range(<<e>>) = {e}
      <4>1. DOMAIN <<e>> = {1} /\ <<e>>[1] = e
        BY Z3
      <4>. QED  BY <4>1 DEF Range
    <3>. QED  BY <2>4, <2>5, <3>1, <3>2, <3>3
  <2>. QED  BY <2>1, <2>2, <2>3, <2>6 DEF Unbroken
<1>6. ASSUME NEW c \in Conns, ServerRecvConfirm(c) PROVE Unbroken'
  <2>1. /\ UNCHANGED <<bridge, ext, cst, sess, stun, down>>
        /\ up[c] # <<>> /\ up' = [up EXCEPT ![c] = Tail(@)]
    BY <1>6 DEF ServerRecvConfirm, clientVars
  <2>2. Range(Tail(up[c])) \subseteq Range(up[c])
    BY <1>m, <2>1, AfterTail
  <2>3. \A d \in Conns : up'[d] = IF d = c THEN Tail(up[d]) ELSE up[d]
    BY <1>t, <2>1 DEF TypeOK
  <2>. QED  BY <2>1, <2>2, <2>3 DEF Unbroken
<1>7. ASSUME NEW c \in Conns, Heartbeat(c) PROVE Unbroken'
  BY <1>1, <1>7 DEF Heartbeat, clientVars, netVars
<1>8. ASSUME NEW b \in Bridges, CoolDown(b) PROVE Unbroken'
  BY <1>1, <1>8 DEF CoolDown, serverVars, netVars
<1>9. ASSUME UNCHANGED vars PROVE Unbroken'
  BY <1>1, <1>9 DEF vars, clientVars, serverVars, netVars
<1>. QED  BY <1>2, <1>3, <1>4, <1>5, <1>6, <1>7, <1>8, <1>9
     DEF CleanStep, allVars, DataRecvCreate, TunnelDown, DataRecvConfirm, IntConnected,
         IntCoolDown, TunnelUp, SrvSend

LEMMA CleanReachesServers ==
  ASSUME DataTypeOK, ServersReached, CleanStep
  PROVE  ServersReached'
<1>1. ASSUME UNCHANGED int PROVE ServersReached'
  BY <1>1 DEF ServersReached
<1>2. ASSUME NEW c \in Conns, NEW k \in {"connecting", "connected"}, int' = [int EXCEPT ![c] = k]
      PROVE  ServersReached'
  BY <1>2 DEF ServersReached, DataTypeOK
<1>3. ASSUME UNCHANGED dataVars \/ UNCHANGED serverData PROVE ServersReached'
  BY <1>1, <1>3 DEF dataVars, serverData
<1>4. ASSUME NEW c \in Conns, TunnelUp(c), ~ IntFault PROVE ServersReached'
  <2>1. CASE int[c] = "connecting" /\ CacheAndReconnect(c, Head(kup[c]))
    <3>1. int' = [int EXCEPT ![c] = "connecting"]
      BY <2>1 DEF CacheAndReconnect, Reconnect
    <3>. QED  BY <1>2, <3>1
  <2>2. CASE int[c] = "connected"
    BY <1>1, <1>4, <2>2 DEF TunnelUp, SendToServer
  <2>. QED  BY <1>4, <2>1, <2>2 DEF TunnelUp, ServersReached
<1>5. ASSUME NEW c \in Conns, IntConnected(c), ~ IntFault PROVE ServersReached'
  BY <1>2, <1>5 DEF IntConnected, StartWithCache
<1>. QED  BY <1>1, <1>2, <1>3, <1>4, <1>5
     DEF CleanStep, allVars, DataRecvCreate, LocalSend, TunnelDown, DataAccept, DataRecvConfirm,
         IntCoolDown, SrvSend

-----------------------------------------------------------------------------
(* The upload is one queue.                                                *)

\* What a clean step does to the upload: a bridge may get its connection or
\* cache a datum, the tunnel take what is sent, or a session pass it on.
CleanUp ==
  \/ /\ UNCHANGED <<kup, icache, toServer>>
     /\ \A b \in Bridges :
          /\ Caches(b) /\ (ext[b] = None => sentUp'[b] = sentUp[b])
          /\ \/ ext'[b] = ext[b]
             \/ ext[b] = None /\ ext'[b] \in Conns \ {None} /\ sess[ext'[b]] = "none"
  \/ \E b \in Bridges, c \in Conns \ {None} : \E x : TunnelSends(b, c, x)
  \/ \E c \in Conns : Keeps(c) /\ Gives(c)

LEMMA CleanMovesUp ==
  ASSUME HandshakeInv, DataTypeOK, UploadInv, Unbroken, ServersReached, CleanStep
  PROVE  CleanUp
<1>t. TypeOK /\ Linked /\ Fresh /\ None \notin Conns
  BY FastTunnelAssumption DEF HandshakeInv, Handshake
<1>1. ASSUME UNCHANGED <<ext, sentUp, ccache, kup, icache, toServer>> PROVE CleanUp
  BY <1>1 DEF CleanUp, Caches
<1>2. ASSUME NEW b \in Bridges, AcceptLocal(b), bridge'[b] = "live", UNCHANGED dataVars
      PROVE  CleanUp
  <2>1. PICK new \in NextConn :
          /\ bridge' = [bridge EXCEPT ![b] = IF new = None THEN "gone" ELSE "live"]
          /\ ext' = [ext EXCEPT ![b] = new] /\ bridge[b] = "unused"
    BY <1>2 DEF AcceptLocal
  <2>2. new \in Conns \ {None} /\ sess[new] = "none"
    BY <1>t, <1>2, <2>1 DEF TypeOK, NextConn, Unused, Fresh
  <2>3. ext[b] = None /\ \A a \in Bridges : ext'[a] = IF a = b THEN new ELSE ext[a]
    BY <1>t, <2>1, <2>2 DEF TypeOK, Linked, Open
  <2>. QED  BY <1>2, <2>2, <2>3 DEF CleanUp, Caches, dataVars, clientData, tunnelData, serverData
<1>3. ASSUME NEW b \in Bridges, LocalSend(b), UNCHANGED vars PROVE CleanUp
  <2>1. CASE ctun[b] = None
    <3>1. /\ UNCHANGED <<ext, ctun, kup, icache, toServer>>
          /\ sentUp[b] < MaxUp /\ sentUp' = [sentUp EXCEPT ![b] = @ + 1]
          /\ ccache' = [ccache EXCEPT ![b] = @ \o <<sentUp[b] + 1>>]
          /\ ext[b] # None
      BY <1>3, <2>1 DEF LocalSend, SendUp, serverData, vars, clientVars, Unbroken
    <3>2. \A a \in Bridges : /\ sentUp'[a] = IF a = b THEN sentUp[a] + 1 ELSE sentUp[a]
                             /\ ccache'[a] = IF a = b THEN ccache[a] \o <<sentUp[a] + 1>>
                                             ELSE ccache[a]
      BY <3>1 DEF DataTypeOK
    <3>. QED  BY <2>1, <3>1, <3>2 DEF CleanUp, Caches
  <2>2. CASE ctun[b] # None
    BY <1>3, <2>2, LocalSendSends DEF CleanUp
  <2>. QED  BY <2>1, <2>2
<1>4. ASSUME NEW c \in Conns, TunnelUp(c), ~ IntFault PROVE CleanUp
  <2>1. Arrives(c)
    BY <1>4 DEF TunnelUp, Arrives, vars, clientVars, serverVars, clientData
  <2>2. CASE int[c] = "connecting" /\ CacheAndReconnect(c, Head(kup[c]))
    BY <2>1, <2>2, CachedKeeps DEF CleanUp
  <2>3. CASE int[c] = "connected" /\ SendToServer(c, Head(kup[c]))
    BY <2>1, <2>3, SentKeeps DEF CleanUp
  <2>. QED  BY <1>4, <2>2, <2>3 DEF TunnelUp, ServersReached
<1>5. ASSUME NEW c \in Conns, IntConnected(c), ~ IntFault PROVE CleanUp
  <2>1. UNCHANGED vars /\ StartWithCache(c)
    BY <1>5 DEF IntConnected
  <2>. QED  BY <1>5, <2>1, IntConnectedKeeps DEF CleanUp
<1>6. ASSUME NEW b \in Bridges, DataRecvCreate(b) PROVE CleanUp
  BY <1>6, CreateSends DEF CleanUp
<1>7. ASSUME NEW b \in Bridges, ConnectDone(b) \/ CoolDown(b), UNCHANGED dataVars PROVE CleanUp
  BY <1>1, <1>7 DEF ConnectDone, CoolDown, dataVars, clientData, tunnelData, serverData
<1>8. ASSUME NEW b \in Bridges, TunnelDown(b) PROVE CleanUp
  BY <1>1, <1>8 DEF TunnelDown, vars, clientVars, serverData
<1>9. ASSUME NEW c \in Conns, \/ Accept(c) /\ DataAccept(c)
                              \/ Heartbeat(c) /\ UNCHANGED dataVars
                              \/ DataRecvConfirm(c) \/ IntCoolDown(c) \/ SrvSend(c)
      PROVE  CleanUp
  BY <1>1, <1>9 DEF Accept, DataAccept, Heartbeat, DataRecvConfirm, ServerRecvConfirm, IntCoolDown,
     SrvSend, vars, clientVars, dataVars, clientData, tunnelData, serverData
<1>10. CASE UNCHANGED allVars
  BY <1>1, <1>10 DEF allVars, vars, clientVars, dataVars, clientData, tunnelData, serverData
<1>. QED  BY <1>2, <1>3, <1>4, <1>5, <1>6, <1>7, <1>8, <1>9, <1>10 DEF CleanStep

LEMMA OneLonger ==
  ASSUME NEW S, NEW s \in Seq(S), NEW e \in S
  PROVE  Len(s \o <<e>>) = Len(s) + 1
<1>1. <<e>> \in Seq(S) /\ Len(<<e>>) = 1
  OBVIOUS
<1>. QED  BY <1>1, ConcatProperties

LEMMA UploadStaysWhole ==
  ASSUME HandshakeInv, DataTypeOK, UploadInv, UploadWhole, CleanUp
  PROVE  UploadWhole'
<1>t. TypeOK /\ OneOwner /\ None \notin Conns /\ CacheIsRun /\ IntCached
  BY FastTunnelAssumption DEF HandshakeInv, Handshake, UploadInv
<1>e. \A b \in Bridges : ext[b] # None => ext[b] \in Conns
  BY <1>t DEF TypeOK
<1>n. /\ MaxUp \in Nat
      /\ \A c \in Conns : Stream(c) \in Seq(1 .. MaxUp) /\ Len(Stream(c)) \in Nat
      /\ \A b \in Bridges : /\ ccache[b] \in Seq(1 .. MaxUp) /\ Len(ccache[b]) \in Nat
                            /\ sentUp[b] \in Nat /\ EndsAt(ccache[b], sentUp[b])
  <2>1. MaxUp \in Nat /\ \A c \in Conns : Stream(c) \in Seq(1 .. MaxUp)
    BY PathTypes, ProxyPathAssumption
  <2>2. \A b \in Bridges : ccache[b] \in Seq(1 .. MaxUp) /\ sentUp[b] \in 0 .. MaxUp
    BY DEF DataTypeOK
  <2>. QED  BY <1>t, <2>1, <2>2, LenProperties DEF CacheIsRun
<1>. DEFINE Ok(b) == IF ext[b] = None THEN sentUp[b] = 0
                     ELSE /\ EndsAt(Stream(ext[b]), Len(Stream(ext[b])))
                          /\ sentUp[b] = Len(Stream(ext[b])) + Len(ccache[b])
<1>0. \A b \in Bridges : Ok(b)
  BY DEF UploadWhole
<1>s. ASSUME NEW b \in Bridges, UNCHANGED <<ext[b], sentUp[b], ccache[b]>>,
             ext[b] # None => Stream(ext[b])' = Stream(ext[b])
      PROVE  Ok(b)'
  <2>1. CASE ext[b] = None
    BY <1>0, <1>s, <2>1
  <2>2. CASE ext[b] # None
    BY <1>0, <1>s, <2>2
  <2>. QED  BY <2>1, <2>2
<1>1. CASE /\ UNCHANGED <<kup, icache, toServer>>
           /\ \A b \in Bridges :
                /\ Caches(b) /\ (ext[b] = None => sentUp'[b] = sentUp[b])
                /\ \/ ext'[b] = ext[b]
                   \/ ext[b] = None /\ ext'[b] \in Conns \ {None} /\ sess[ext'[b]] = "none"
  <2>1. \A c \in Conns : Stream(c)' = Stream(c)
    BY <1>1 DEF Stream, Given
  <2>2. ASSUME NEW b \in Bridges PROVE Ok(b)'
    <3>1. \/ sentUp'[b] = sentUp[b] /\ ccache'[b] = ccache[b]
          \/ /\ sentUp'[b] = sentUp[b] + 1 /\ Len(ccache'[b]) = Len(ccache[b]) + 1
             /\ ext[b] # None
      <4>1. sentUp[b] < MaxUp => Len(ccache[b] \o <<sentUp[b] + 1>>) = Len(ccache[b]) + 1
        <5>1. sentUp[b] < MaxUp => sentUp[b] + 1 \in 1 .. MaxUp
          BY <1>n
        <5>. QED  BY <1>n, <5>1, OneLonger
      <4>2. Caches(b) /\ (ext[b] = None => sentUp'[b] = sentUp[b]) /\ sentUp[b] \in Nat
        BY <1>1, <1>n
      <4>3. CASE sentUp'[b] = sentUp[b] /\ ccache'[b] = ccache[b]
        BY <4>3
      <4>4. CASE /\ sentUp[b] < MaxUp /\ sentUp'[b] = sentUp[b] + 1
                 /\ ccache'[b] = ccache[b] \o <<sentUp[b] + 1>>
        <5>1. ext[b] # None
          BY <4>2, <4>4
        <5>. QED  BY <4>1, <4>4, <5>1
      <4>. QED  BY <4>2, <4>3, <4>4 DEF Caches
    <3>2. CASE ext[b] = None /\ ext'[b] = None
      BY <1>0, <1>1, <3>2
    <3>3. CASE ext'[b] = ext[b] /\ ext[b] # None
      <4>1. PICK c \in Conns : ext[b] = c /\ ext'[b] = c /\ c # None
        BY <1>e, <3>3
      <4>2. EndsAt(Stream(c), Len(Stream(c))) /\ sentUp[b] = Len(Stream(c)) + Len(ccache[b])
        BY <1>0, <4>1
      <4>3. Stream(c)' = Stream(c) /\ Len(Stream(c)) \in Nat /\ Len(ccache[b]) \in Nat
        BY <1>n, <2>1
      <4>4. sentUp'[b] = Len(Stream(c)) + Len(ccache'[b])
        BY <3>1, <4>2, <4>3
      <4>. HIDE DEF Stream
      <4>. QED  BY <4>1, <4>2, <4>3, <4>4
    <3>4. CASE ext[b] = None /\ ext'[b] \in Conns \ {None} /\ sess[ext'[b]] = "none"
      <4>1. PICK c \in Conns : ext'[b] = c /\ c # None /\ sess[c] = "none"
        BY <3>4
      <4>2. Stream(c) = <<>> /\ Stream(c)' = <<>>
        BY <2>1, <4>1 DEF UploadInv, NothingEarly
      <4>3. sentUp[b] = 0 /\ sentUp'[b] = 0 /\ ccache'[b] = ccache[b]
        BY <1>0, <1>1, <3>1, <3>4
      <4>4. Len(ccache[b]) = 0
        BY <1>n, <4>3 DEF EndsAt
      <4>5. EndsAt(<<>>, 0) /\ Len(<<>>) = 0
        BY EndsNone, EmptySeq
      <4>. HIDE DEF Stream
      <4>. QED  BY <4>1, <4>2, <4>3, <4>4, <4>5
    <3>. QED  BY <1>1, <3>2, <3>3, <3>4
  <2>. QED  BY <2>2 DEF UploadWhole
<1>2. ASSUME NEW b \in Bridges, NEW c \in Conns \ {None}, NEW x, TunnelSends(b, c, x)
      PROVE  UploadWhole'
  <2>1. /\ c = ext[b] /\ ext' = ext /\ x \in Seq(1 .. MaxUp) /\ Len(x) \in Nat
        /\ sentUp'[b] \in Nat /\ EndsAt(x, sentUp'[b]) /\ ccache'[b] = <<>>
    BY <1>2, LenProperties DEF TunnelSends
  <2>2. Stream(c)' = Stream(c) \o x
    BY <1>t, <1>2, TunnelTakes DEF TunnelSends
  <2>3. \A d \in Conns \ {c} : Stream(d)' = Stream(d)
    BY <1>2 DEF TunnelSends, Stream, Given
  <2>. DEFINE s == Stream(c)
              n == sentUp'[b]
  <2>4. s \in Seq(1 .. MaxUp) /\ EndsAt(s, Len(s)) /\ sentUp[b] = Len(s) + Len(ccache[b])
    BY <1>0, <1>n, <2>1
  <2>5. EndsAt(s, n - Len(x)) /\ n = Len(s) + Len(x) /\ Len(s) \in Nat
    <3>1. CASE s = <<>> /\ x = ccache[b] /\ n = sentUp[b]
      <4>1. Len(s) = 0 /\ EndsAt(s, 0)
        BY <3>1, EmptySeq, EndsNone
      <4>. HIDE DEF s, n
      <4>2. n = Len(x) /\ n - Len(x) = 0
        BY <2>1, <2>4, <3>1, <4>1
      <4>. QED  BY <2>1, <4>1, <4>2
    <3>2. CASE ctun[b] # None /\ sentUp[b] = n - Len(x)
      <4>1. Len(ccache[b]) = 0
        BY <1>t, <3>2, EmptySeq DEF CacheIsRun
      <4>2. Len(s) \in Nat
        BY <1>n
      <4>. HIDE DEF s, n
      <4>3. n - Len(x) = Len(s)
        BY <2>4, <3>2, <4>1, <4>2
      <4>. QED  BY <2>1, <2>4, <3>2, <4>2, <4>3, SMTT(30) DEF n
    <3>. QED  BY <1>2, <3>1, <3>2 DEF TunnelSends
  <2>6. EndsAt(s \o x, n) /\ Len(s \o x) = n /\ Len(<<>>) = 0
    <3>. HIDE DEF s, n
    <3>1. n \in Nat
      BY <2>1 DEF n
    <3>2. EndsAt(s \o x, n)
      BY <1>n, <2>1, <2>4, <2>5, <3>1, EndsConcat DEF n
    <3>3. Len(s \o x) = Len(s) + Len(x)
      BY <2>1, <2>4, ConcatAt
    <3>. QED  BY <2>5, <3>2, <3>3, EmptySeq
  <2>7. Ok(b)'
    <3>1. EndsAt(Stream(c)', Len(Stream(c)')) /\ sentUp'[b] = Len(Stream(c)') + Len(ccache'[b])
      BY <2>1, <2>2, <2>6
    <3>. QED  BY <2>1, <3>1
  <2>8. ASSUME NEW a \in Bridges \ {b} PROVE Ok(a)'
    <3>1. UNCHANGED <<ext[a], sentUp[a], ccache[a]>>
      BY <1>2 DEF TunnelSends
    <3>2. ext[a] # None => ext[a] \in Conns \ {c}
      BY <1>t, <1>e, <2>1 DEF OneOwner
    <3>. QED  BY <1>s, <2>3, <3>1, <3>2
  <2>. QED  BY <2>7, <2>8 DEF UploadWhole
<1>3. ASSUME NEW c \in Conns, Keeps(c) PROVE UploadWhole'
  <2>1. \A d \in Conns : Stream(d)' = Stream(d)
    <3>1. \A d \in Conns \ {c} : Stream(d)' = Stream(d)
      BY <1>3 DEF Keeps, Stream, Given
    <3>. QED  BY <1>3, <3>1 DEF Keeps
  <2>2. UNCHANGED <<ext, sentUp, ccache>>
    BY <1>3 DEF Keeps
  <2>3. \A b \in Bridges : Ok(b)'
    BY <1>e, <1>s, <2>1, <2>2
  <2>. QED  BY <2>3 DEF UploadWhole
<1>. QED  BY <1>1, <1>2, <1>3 DEF CleanUp

-----------------------------------------------------------------------------
(* The download is one queue.                                              *)

\* The first n numbers.
Upto(n) == [i \in 1 .. n |-> i]

LEMMA WholeIsUpto ==
  ASSUME NEW m \in Nat, NEW s \in Seq(1 .. m), EndsAt(s, Len(s))
  PROVE  s = Upto(Len(s))
<1>1. Len(s) \in Nat /\ s = [i \in 1 .. Len(s) |-> s[i]]
  BY LenProperties
<1>2. \A i \in 1 .. Len(s) : s[i] = i
  BY <1>1 DEF EndsAt
<1>. QED  BY <1>1, <1>2 DEF Upto

LEMMA UptoIsWhole ==
  ASSUME NEW n \in Nat, NEW m \in Nat, n <= m
  PROVE  Upto(n) \in Seq(1 .. m) /\ Len(Upto(n)) = n /\ EndsAt(Upto(n), n)
<1>1. Upto(n) \in [1 .. n -> 1 .. m]
  BY DEF Upto
<1>2. Upto(n) \in Seq(1 .. m) /\ Len(Upto(n)) = n
  <2>1. Upto(n) \in Seq(1 .. m) /\ DOMAIN Upto(n) = 1 .. n
    BY <1>1, SeqDef
  <2>. QED  BY <2>1, LenProperties
<1>. QED  BY <1>2 DEF EndsAt, Upto

LEMMA UptoGrows ==
  ASSUME NEW m \in Nat, NEW n \in Nat, m <= n
  PROVE  IsPrefix(Upto(m), Upto(n))
<1>1. /\ Upto(m) \in Seq(1 .. n) /\ Len(Upto(m)) = m
      /\ Upto(n) \in Seq(1 .. n) /\ Len(Upto(n)) = n
  BY UptoIsWhole
<1>. DEFINE s == Upto(n)
<1>2. /\ SubSeq(s, 1, m) \in Seq(1 .. n) /\ Len(SubSeq(s, 1, m)) = m
      /\ SubSeq(s, m + 1, Len(s)) \in Seq(1 .. n)
      /\ SubSeq(s, 1, m) \o SubSeq(s, m + 1, Len(s)) = s
  <2>1. s \in Seq(1 .. n) /\ m \in 0 .. Len(s)
    BY <1>1
  <2>2. Len(SubSeq(s, 1, m)) = m
    <3>. HIDE DEF s
    <3>. QED  BY <2>1, Split
  <2>3. /\ SubSeq(s, 1, m) \in Seq(1 .. n)
        /\ SubSeq(s, m + 1, Len(s)) \in Seq(1 .. n)
        /\ SubSeq(s, 1, m) \o SubSeq(s, m + 1, Len(s)) = s
    <3>. HIDE DEF s
    <3>. QED  BY <2>1, Split
  <2>. QED  BY <2>2, <2>3
<1>3. SubSeq(s, 1, m) = Upto(m)
  <2>1. \A i \in 1 .. m : SubSeq(s, 1, m)[i] = s[i] /\ s[i] = i /\ Upto(m)[i] = i
    BY <1>1 DEF Upto
  <2>. DEFINE p == SubSeq(s, 1, m)
              q == Upto(m)
  <2>2. /\ p \in Seq(1 .. n) /\ q \in Seq(1 .. n) /\ Len(p) = Len(q)
        /\ \A i \in 1 .. Len(p) : p[i] = q[i]
    BY <1>1, <1>2, <2>1
  <2>. HIDE DEF p, q
  <2>3. p = q
    BY <2>2, SeqEqual
  <2>. QED  BY <2>3 DEF p, q
<1>. HIDE DEF s
<1>4. IsPrefix(SubSeq(s, 1, m), SubSeq(s, 1, m) \o SubSeq(s, m + 1, Len(s)))
  BY <1>2, BeginsLonger
<1>. QED  BY <1>2, <1>3, <1>4 DEF s

\* ss-local has all that was given it from the one session.
LEMMA GotIsAll ==
  ASSUME DataTypeOK, DownloadWhole, NEW b \in Bridges
  PROVE  Got(b, ext[b]) = Len(toLocal[b]) /\ Len(toLocal[b]) \in Nat
<1>1. Len(toLocal[b]) \in Nat /\ (toLocal[b] # <<>> => Len(toLocal[b]) # 0)
  <2>1. toLocal[b] \in Seq(Conns \X (1 .. MaxDown))
    BY DEF DataTypeOK
  <2>. QED  BY <2>1, LenProperties, EmptySeq
<1>2. CASE toLocal[b] = <<>>
  BY <1>1, <1>2, EmptySeq DEF Got
<1>3. CASE toLocal[b] # <<>>
  <2>1. toLocal[b][Len(toLocal[b])] = <<ext[b], Len(toLocal[b])>>
    BY <1>1, <1>3 DEF DownloadWhole
  <2>. QED  BY <1>1, <1>3, <2>1 DEF Got
<1>. QED  BY <1>2, <1>3

\* What a clean step does to the download.
CleanDown ==
  /\ \A c \in Conns : sentDown[c] \in Nat /\ sentDown'[c] \in Nat /\ sentDown'[c] >= sentDown[c]
  /\ \A b \in Bridges :
       \/ toLocal'[b] = toLocal[b]
       \/ /\ ext'[b] = ext[b] /\ ext[b] # None
          /\ toLocal'[b] = Append(toLocal[b], <<ext[b], Len(toLocal[b]) + 1>>)

LEMMA CleanMovesDown ==
  ASSUME HandshakeInv, DataTypeOK, DownloadInv, Clean, DownloadWhole, CleanStep
  PROVE  CleanDown
<1>t. TypeOK /\ None \notin Conns
  BY FastTunnelAssumption DEF HandshakeInv
<1>0. \A c \in Conns : sentDown[c] \in Nat
  BY ProxyPathAssumption DEF DataTypeOK
<1>1. ASSUME UNCHANGED <<sentDown, toLocal>> PROVE CleanDown
  BY <1>0, <1>1 DEF CleanDown
<1>2. ASSUME NEW b \in Bridges, TunnelDown(b) PROVE CleanDown
  <2>1. PICK c \in Conns : c = ext[b]
    BY <1>t, <1>2 DEF TunnelDown, HandshakeInv, Handshake, Paired, TypeOK
  <2>2. bridge[b] = "live" /\ c # None
    BY <1>t, <1>2, <2>1 DEF TunnelDown, Open, Clean
  <2>3. /\ kdown[c] # <<>> /\ UNCHANGED <<ext, sentDown>>
        /\ toLocal' = [toLocal EXCEPT ![b] = Append(@, <<c, Head(kdown[c])>>)]
    BY <1>2, <2>1, <2>2 DEF TunnelDown, vars, clientVars, serverData
  <2>4. DownRun(b, c)
    BY <2>1, <2>2 DEF DownloadInv
  <2>5. Got(b, c) = Len(toLocal[b]) /\ Len(toLocal[b]) \in Nat
    BY <2>1, GotIsAll
  <2>6. Head(kdown[c]) = Len(toLocal[b]) + 1
    <3>1. EndsAt(kdown[c], Len(toLocal[b]) + Len(kdown[c]))
      BY <2>4, <2>5 DEF DownRun
    <3>2. kdown[c] \in Seq(1 .. MaxDown) /\ Len(kdown[c]) \in Nat /\ Len(kdown[c]) # 0
      BY <2>3, DownTypes, EmptySeq
    <3>3. Head(kdown[c]) = kdown[c][1] /\ 1 \in 1 .. Len(kdown[c])
      BY <2>3, <3>2, HeadTailProperties
    <3>. QED  BY <2>5, <3>1, <3>2, <3>3 DEF EndsAt
  <2>7. \A a \in Bridges :
          toLocal'[a] = IF a = b THEN Append(toLocal[b], <<c, Len(toLocal[b]) + 1>>)
                        ELSE toLocal[a]
    BY <2>3, <2>6 DEF DataTypeOK
  <2>8. sentDown' = sentDown /\ ext'[b] = ext[b] /\ ext[b] # None
    BY <2>1, <2>2, <2>3
  <2>9. \A d \in Conns : sentDown[d] \in Nat /\ sentDown'[d] \in Nat /\ sentDown'[d] >= sentDown[d]
    BY <1>0, <2>8
  <2>10. ASSUME NEW a \in Bridges
         PROVE  \/ toLocal'[a] = toLocal[a]
                \/ /\ ext'[a] = ext[a] /\ ext[a] # None
                   /\ toLocal'[a] = Append(toLocal[a], <<ext[a], Len(toLocal[a]) + 1>>)
    <3>1. CASE a = b
      BY <2>1, <2>7, <2>8, <3>1
    <3>2. CASE a # b
      BY <2>7, <3>2
    <3>. QED  BY <3>1, <3>2
  <2>. QED  BY <2>9, <2>10 DEF CleanDown
<1>3. ASSUME NEW c \in Conns, SrvSend(c) PROVE CleanDown
  <2>1. sentDown' = [sentDown EXCEPT ![c] = @ + 1] /\ toLocal' = toLocal
    BY <1>3 DEF SrvSend, clientData
  <2>2. \A d \in Conns : sentDown'[d] = IF d = c THEN sentDown[d] + 1 ELSE sentDown[d]
    BY <2>1 DEF DataTypeOK
  <2>. QED  BY <1>0, <2>1, <2>2 DEF CleanDown
<1>4. ASSUME UNCHANGED dataVars PROVE CleanDown
  BY <1>1, <1>4 DEF dataVars, clientData, serverData
<1>5. ASSUME NEW b \in Bridges, DataRecvCreate(b) \/ LocalSend(b) PROVE CleanDown
  BY <1>1, <1>5 DEF DataRecvCreate, LocalSend, serverData
<1>6. ASSUME NEW c \in Conns,
             DataAccept(c) \/ DataRecvConfirm(c) \/ IntConnected(c) \/ IntCoolDown(c) \/ TunnelUp(c)
      PROVE  CleanDown
  BY <1>1, <1>6 DEF DataAccept, DataRecvConfirm, IntConnected, IntCoolDown, TunnelUp, clientData
<1>. QED  BY <1>2, <1>3, <1>4, <1>5, <1>6 DEF CleanStep, allVars

\* A bridge keeps its connection.
ExtStays ==
  \A b \in Bridges : ext'[b] = ext[b] \/ (ext[b] = None /\ ext'[b] \in Conns \ {None})

LEMMA CleanKeepsConns == CleanUp => ExtStays
BY DEF CleanUp, ExtStays, TunnelSends, Keeps

LEMMA NothingLocalYet ==
  ASSUME DataTypeOK, DownloadWhole, None \notin Conns, NEW b \in Bridges, ext[b] = None
  PROVE  Len(toLocal[b]) = 0
<1>1. Len(toLocal[b]) \in Nat /\ toLocal[b] \in Seq(Conns \X (1 .. MaxDown))
  BY LenProperties DEF DataTypeOK
<1>2. ASSUME Len(toLocal[b]) # 0 PROVE FALSE
  <2>1. 1 \in 1 .. Len(toLocal[b])
    BY <1>1, <1>2
  <2>2. toLocal[b][1] \in Conns \X (1 .. MaxDown) /\ toLocal[b][1] = <<None, 1>>
    BY <1>1, <2>1, ElementOfSeq DEF DownloadWhole
  <2>. QED  BY <2>2
<1>. QED  BY <1>2

LEMMA DownloadStaysWhole ==
  ASSUME DataTypeOK, None \notin Conns, DownloadWhole, CleanDown, ExtStays
  PROVE  DownloadWhole'
<1>1. SUFFICES ASSUME NEW b \in Bridges, NEW i \in 1 .. Len(toLocal'[b])
               PROVE  toLocal'[b][i] = <<ext'[b], i>>
  BY DEF DownloadWhole
<1>2. Len(toLocal[b]) \in Nat /\ toLocal[b] \in Seq(Conns \X (1 .. MaxDown))
  BY LenProperties DEF DataTypeOK
<1>3. \A j \in 1 .. Len(toLocal[b]) : toLocal[b][j] = <<ext[b], j>>
  BY DEF DownloadWhole
<1>4. CASE toLocal'[b] = toLocal[b] /\ ext'[b] = ext[b]
  BY <1>3, <1>4
<1>5. CASE toLocal'[b] = toLocal[b] /\ ext[b] = None
  BY <1>2, <1>5, NothingLocalYet
<1>6. CASE /\ ext'[b] = ext[b]
           /\ toLocal'[b] = Append(toLocal[b], <<ext[b], Len(toLocal[b]) + 1>>)
  <2>. DEFINE e == <<ext[b], Len(toLocal[b]) + 1>>
              s == toLocal[b]
  <2>1. /\ Len(Append(s, e)) = Len(s) + 1
        /\ \A j \in 1 .. Len(s) : Append(s, e)[j] = s[j]
        /\ Append(s, e)[Len(s) + 1] = e
    <3>1. s \in Seq((Conns \X (1 .. MaxDown)) \cup {e}) /\ e \in (Conns \X (1 .. MaxDown)) \cup {e}
      <4>1. Seq(Conns \X (1 .. MaxDown)) \subseteq Seq((Conns \X (1 .. MaxDown)) \cup {e})
        <5>. HIDE DEF e
        <5>. QED  OBVIOUS
      <4>. QED  BY <1>2, <4>1
    <3>. HIDE DEF s, e
    <3>. QED  BY <3>1, AppendProperties
  <2>2. CASE i \in 1 .. Len(s)
    BY <1>3, <1>6, <2>1, <2>2
  <2>3. CASE i = Len(s) + 1
    BY <1>6, <2>1, <2>3
  <2>. QED  BY <1>1, <1>2, <1>6, <2>1, <2>2, <2>3
<1>. QED  BY <1>4, <1>5, <1>6 DEF CleanDown, ExtStays

-----------------------------------------------------------------------------
(* Both are where they are to be, at every step.                           *)

LEMMA JoinedIsUpto ==
  ASSUME NEW m \in Nat, NEW s \in Seq(1 .. m), NEW t \in Seq(1 .. m), NEW n \in Nat,
         EndsAt(s, Len(s)), EndsAt(t, n), n = Len(s) + Len(t)
  PROVE  s \o t = Upto(n)
<1>1. /\ s \o t \in Seq(1 .. m) /\ Len(s) \in Nat /\ Len(t) \in Nat
      /\ Len(s \o t) = Len(s) + Len(t)
  BY ConcatAt
<1>2. n - Len(t) = Len(s)
  BY <1>1
<1>3. EndsAt(s \o t, n)
  BY <1>2, EndsConcat
<1>4. EndsAt(s \o t, Len(s \o t))
  BY <1>1, <1>3
<1>. HIDE DEF EndsAt
<1>5. s \o t = Upto(Len(s \o t))
  BY <1>1, <1>4, WholeIsUpto
<1>. QED  BY <1>1, <1>5

\* There is one bridge.
OneBridge == Bridges # {} /\ Conns # {} /\ \A a, b \in Bridges : a = b

LEMMA TheOnes ==
  ASSUME TypeOK, OneBridge
  PROVE  /\ TheBridge \in Bridges /\ \A b \in Bridges : b = TheBridge
         /\ TheConn \in Conns
         /\ ext[TheBridge] # None => TheConn = ext[TheBridge]
<1>1. TheBridge \in Bridges
  BY DEF OneBridge, TheBridge
<1>2. \A b \in Bridges : b = TheBridge
  BY <1>1 DEF OneBridge
<1>3. TheConn \in Conns
  <2>1. CASE ext[TheBridge] = None
    <3>1. (CHOOSE c \in Conns : TRUE) \in Conns
      BY DEF OneBridge
    <3>. QED  BY <2>1, <3>1 DEF TheConn
  <2>2. CASE ext[TheBridge] # None
    BY <1>1, <2>2 DEF TypeOK, TheConn
  <2>. QED  BY <2>1, <2>2
<1>. QED  BY <1>1, <1>2, <1>3 DEF TheConn

\* Before the bridge has a connection no session has begun.
LEMMA NoneHasBegun ==
  ASSUME HandshakeInv, Unbroken, OneBridge, ext[TheBridge] = None, NEW c \in Conns
  PROVE  sess[c] = "none"
<1>1. c # None /\ TypeOK /\ Fresh
  BY FastTunnelAssumption DEF HandshakeInv, Handshake
<1>2. \A b \in Bridges : ext[b] # c
  BY <1>1, TheOnes
<1>. QED  BY <1>1, <1>2 DEF Unbroken, Fresh

LEMMA UploadIsThere ==
  ASSUME OneBridge
  PROVE  PathInv /\ Clean /\ Unbroken /\ UploadWhole
         => Upto(sentUp[TheBridge])
            = Given(TheConn) \o (icache[TheConn] \o kup[TheConn] \o ccache[TheBridge])
<1>. SUFFICES ASSUME PathInv, Clean, Unbroken, UploadWhole
              PROVE  Upto(sentUp[TheBridge])
                     = Given(TheConn) \o (icache[TheConn] \o kup[TheConn] \o ccache[TheBridge])
  OBVIOUS
<1>i. HandshakeInv /\ TypeOK /\ DataTypeOK /\ UploadInv
  BY DEF PathInv, HandshakeInv
<1>1. PICK b \in Bridges : b = TheBridge
  BY <1>i, TheOnes
<1>2. PICK c \in Conns : c = TheConn /\ (ext[b] # None => c = ext[b])
  BY <1>i, <1>1, TheOnes
<1>3. /\ MaxUp \in Nat /\ Given(c) \in Seq(1 .. MaxUp) /\ icache[c] \o kup[c] \in Seq(1 .. MaxUp)
      /\ Stream(c) \in Seq(1 .. MaxUp)
  BY <1>i, PathTypes
<1>4. /\ ccache[b] \in Seq(1 .. MaxUp) /\ sentUp[b] \in Nat /\ EndsAt(ccache[b], sentUp[b])
  BY <1>i DEF DataTypeOK, UploadInv, CacheIsRun
<1>5. EndsAt(Stream(c), Len(Stream(c))) /\ sentUp[b] = Len(Stream(c)) + Len(ccache[b])
  <2>1. CASE ext[b] = None
    <3>1. Stream(c) = <<>>
      BY <1>i, <1>1, <2>1, NoneHasBegun DEF UploadInv, NothingEarly
    <3>2. sentUp[b] = 0
      BY <2>1 DEF UploadWhole
    <3>3. Len(ccache[b]) \in Nat /\ Len(ccache[b]) <= 0
      BY <1>4, <3>2, LenProperties DEF EndsAt
    <3>4. Len(<<>>) = 0 /\ EndsAt(<<>>, 0)
      BY EmptySeq, EndsNone
    <3>. QED  BY <3>1, <3>2, <3>3, <3>4
  <2>2. CASE ext[b] # None
    BY <1>2, <2>2 DEF UploadWhole
  <2>. QED  BY <2>1, <2>2
<1>. DEFINE g == Given(c)
            k == icache[c] \o kup[c]
            q == ccache[b]
<1>6. Stream(c) \o q = Upto(sentUp[b])
  BY <1>3, <1>4, <1>5, JoinedIsUpto
<1>7. (g \o k) \o q = g \o (k \o q)
  <2>1. g \in Seq(1 .. MaxUp) /\ k \in Seq(1 .. MaxUp) /\ q \in Seq(1 .. MaxUp)
    BY <1>3, <1>4
  <2>. HIDE DEF g, k, q
  <2>. QED  BY <2>1, Regroup
<1>8. Stream(c) = g \o k
  BY DEF Stream
<1>. QED  BY <1>1, <1>2, <1>6, <1>7, <1>8

LEMMA DownloadIsThere ==
  ASSUME OneBridge
  PROVE  PathInv /\ Clean /\ Unbroken /\ DownloadWhole
         => Upto(sentDown[TheConn])
            = Upto(Len(toLocal[TheBridge])) \o (kdown[TheConn] \o scache[TheConn])
<1>. SUFFICES ASSUME PathInv, Clean, Unbroken, DownloadWhole
              PROVE  Upto(sentDown[TheConn])
                     = Upto(Len(toLocal[TheBridge])) \o (kdown[TheConn] \o scache[TheConn])
  OBVIOUS
<1>i. HandshakeInv /\ TypeOK /\ DataTypeOK /\ DownloadInv /\ Linked /\ None \notin Conns
  BY FastTunnelAssumption DEF PathInv, HandshakeInv, Handshake
<1>1. PICK b \in Bridges : b = TheBridge
  BY <1>i, TheOnes
<1>2. PICK c \in Conns : c = TheConn /\ (ext[b] # None => c = ext[b])
  BY <1>i, <1>1, TheOnes
<1>. DEFINE q == kdown[c] \o scache[c]
            n == Len(toLocal[b])
<1>3. /\ MaxDown \in Nat /\ q \in Seq(1 .. MaxDown) /\ sentDown[c] \in Nat
      /\ sentDown[c] <= MaxDown /\ n \in Nat /\ Len(q) \in Nat
  BY <1>i, DownTypes, LenProperties
<1>4. EndsAt(q, sentDown[c]) /\ sentDown[c] = n + Len(q)
  <2>1. CASE sess[c] = "none"
    <3>1. /\ kdown[c] = <<>> /\ scache[c] = <<>> /\ sentDown[c] = 0
          /\ \A i \in 1 .. n : toLocal[b][i][1] # c
      BY <1>i, <2>1 DEF DownloadInv, NothingDown
    <3>2. q = <<>> /\ Len(q) = 0 /\ EndsAt(q, 0)
      BY <3>1, EmptySeq, ConcatEmptySeq, EndsNone
    <3>3. n = 0
      <4>1. CASE ext[b] = None
        BY <1>i, <4>1, NothingLocalYet
      <4>2. CASE ext[b] # None
        <5>1. \A i \in 1 .. n : toLocal[b][i] = <<c, i>>
          BY <1>2, <4>2 DEF DownloadWhole
        <5>2. \A i \in 1 .. n : toLocal[b][i][1] = c
          BY <5>1
        <5>. HIDE DEF n
        <5>. QED  BY <1>3, <3>1, <5>2
      <4>. QED  BY <4>1, <4>2
    <3>. HIDE DEF q, n
    <3>. QED  BY <3>1, <3>2, <3>3
  <2>2. CASE sess[c] # "none"
    <3>1. ext[b] # None
      BY <1>i, <1>1, <2>2, NoneHasBegun DEF PathInv
    <3>2. Attached(c)
      BY <2>2 DEF Unbroken, Attached
    <3>3. bridge[b] = "live"
      BY <1>i, <3>1 DEF Linked, Open, Clean
    <3>4. DownRun(b, c) /\ Got(b, c) = n
      BY <1>i, <1>2, <3>1, <3>3, GotIsAll DEF DownloadInv
    <3>. QED  BY <3>2, <3>4 DEF DownRun
  <2>. QED  BY <2>1, <2>2
<1>5. Upto(n) \in Seq(1 .. MaxDown) /\ Len(Upto(n)) = n /\ EndsAt(Upto(n), n)
  <2>. HIDE DEF q, n
  <2>1. n <= MaxDown
    BY <1>3, <1>4
  <2>. QED  BY <1>3, <2>1, UptoIsWhole
<1>6. Upto(n) \o q = Upto(sentDown[c])
  <2>. DEFINE u == Upto(n)
  <2>1. u \in Seq(1 .. MaxDown) /\ EndsAt(u, Len(u)) /\ Len(u) = n
    BY <1>5
  <2>. HIDE DEF u, q, n
  <2>2. sentDown[c] = Len(u) + Len(q)
    BY <1>4, <2>1
  <2>3. u \o q = Upto(sentDown[c])
    BY <1>3, <1>4, <2>1, <2>2, JoinedIsUpto
  <2>. QED  BY <2>3 DEF u
<1>. QED  BY <1>1, <1>2, <1>6

LEMMA CleanNext == PathInv /\ CleanInv /\ [DataNext]_allVars => CleanInv'
<1>. SUFFICES ASSUME PathInv, CleanInv, [DataNext]_allVars, Clean'
              PROVE  Unbroken' /\ ServersReached' /\ UploadWhole' /\ DownloadWhole'
  BY DEF CleanInv
<1>i. /\ HandshakeInv /\ TypeOK /\ DataTypeOK /\ UploadInv /\ DownloadInv
      /\ None \notin Conns
  BY FastTunnelAssumption DEF PathInv, HandshakeInv
<1>1. Clean
  BY <1>i, StepsSoil, SoiledBefore
<1>2. Unbroken /\ ServersReached /\ UploadWhole /\ DownloadWhole
  BY <1>1 DEF CleanInv
<1>3. CleanStep
  BY <1>i, <1>1, <1>2, CleanStepsOnly
<1>4. Unbroken' /\ ServersReached'
  BY <1>i, <1>2, <1>3, CleanStaysUnbroken, CleanReachesServers
<1>5. CleanUp
  BY <1>i, <1>2, <1>3, CleanMovesUp
<1>6. UploadWhole'
  BY <1>i, <1>2, <1>5, UploadStaysWhole
<1>7. DownloadWhole'
  <2>1. CleanDown
    BY <1>i, <1>1, <1>2, <1>3, CleanMovesDown
  <2>. QED  BY <1>i, <1>2, <1>5, <2>1, CleanKeepsConns, DownloadStaysWhole
<1>. QED  BY <1>4, <1>6, <1>7

LEMMA CleanInit == DataInit => CleanInv
<1>. SUFFICES ASSUME DataInit PROVE CleanInv
  OBVIOUS
<1>1. <<>> \in Seq(Msg) /\ Len(<<>>) = 0 /\ Range(<<>>) = {}
  BY EmptySeq DEF Range
<1>2. Unbroken
  BY <1>1 DEF DataInit, Init, Unbroken
<1>3. ServersReached /\ UploadWhole /\ DownloadWhole
  BY <1>1 DEF DataInit, Init, ServersReached, UploadWhole, DownloadWhole
<1>. QED  BY <1>2, <1>3 DEF CleanInv

\* What a clean step does to the two queues of the one bridge.
LEMMA CleanGoesOn ==
  ASSUME OneBridge, PathInv, CleanInv, [DataNext]_allVars, Clean'
  PROVE  /\ ext[TheBridge] # None => TheConn' = TheConn
         /\ TheConn' \in Conns
         /\ Clean /\ Unbroken /\ UploadWhole /\ DownloadWhole
         /\ CleanUp /\ CleanDown
<1>i. /\ HandshakeInv /\ TypeOK /\ DataTypeOK /\ UploadInv /\ DownloadInv
      /\ None \notin Conns
  BY FastTunnelAssumption DEF PathInv, HandshakeInv
<1>1. Clean
  BY <1>i, StepsSoil, SoiledBefore
<1>2. Unbroken /\ ServersReached /\ UploadWhole /\ DownloadWhole
  BY <1>1 DEF CleanInv
<1>3. CleanStep
  BY <1>i, <1>1, <1>2, CleanStepsOnly
<1>4. CleanUp /\ CleanDown
  BY <1>i, <1>1, <1>2, <1>3, CleanMovesUp, CleanMovesDown
<1>5. TypeOK'
  BY PathNext DEF PathInv, HandshakeInv
<1>6. TheConn' \in Conns
  <2>1. (TypeOK => TheConn \in Conns)'
    BY TheOnes, PTL
  <2>. QED  BY <1>5, <2>1
<1>7. ext[TheBridge] # None => TheConn' = TheConn
  <2>1. TheBridge \in Bridges
    BY <1>i, TheOnes
  <2>2. ext[TheBridge] # None => ext'[TheBridge] = ext[TheBridge]
    BY <1>4, <2>1, CleanKeepsConns DEF ExtStays
  <2>. QED  BY <2>2 DEF TheConn, TheBridge
<1>. QED  BY <1>1, <1>2, <1>4, <1>6, <1>7

LEMMA CleanUpGrows ==
  ASSUME DataTypeOK, DataTypeOK', CleanUp
  PROVE  /\ \A b \in Bridges : sentUp[b] \in Nat /\ sentUp'[b] \in Nat /\ sentUp[b] <= sentUp'[b]
         /\ \A c \in Conns : \E x \in Seq(1 .. MaxUp) : Given(c)' = Given(c) \o x
<1>1. ASSUME NEW b \in Bridges
      PROVE  sentUp[b] \in Nat /\ sentUp'[b] \in Nat /\ sentUp[b] <= sentUp'[b]
  <2>1. sentUp[b] \in Nat /\ sentUp'[b] \in Nat
    BY ProxyPathAssumption DEF DataTypeOK
  <2>2. ASSUME NEW a \in Bridges, NEW c \in Conns, NEW x, TunnelSends(a, c, x)
        PROVE  sentUp[b] <= sentUp'[b]
    <3>1. CASE a = b
      <4>1. x \in Seq(1 .. MaxUp) /\ (sentUp'[b] = sentUp[b] \/ sentUp[b] = sentUp'[b] - Len(x))
        BY <2>2, <3>1 DEF TunnelSends
      <4>2. Len(x) \in Nat
        BY <4>1, LenProperties
      <4>. QED  BY <2>1, <4>1, <4>2
    <3>2. CASE a # b
      <4>1. sentUp'[b] = sentUp[b]
        BY <2>2, <3>2 DEF TunnelSends
      <4>. QED  BY <2>1, <4>1
    <3>. QED  BY <3>1, <3>2
  <2>3. ASSUME Caches(b) PROVE sentUp[b] <= sentUp'[b]
    BY <2>1, <2>3 DEF Caches
  <2>4. ASSUME NEW c \in Conns, Keeps(c) PROVE sentUp[b] <= sentUp'[b]
    BY <2>1, <2>4 DEF Keeps
  <2>5. sentUp[b] <= sentUp'[b]
    BY <2>2, <2>3, <2>4 DEF CleanUp
  <2>. QED  BY <2>1, <2>5
<1>2. ASSUME NEW c \in Conns PROVE \E x \in Seq(1 .. MaxUp) : Given(c)' = Given(c) \o x
  <2>1. CASE toServer'[c] = toServer[c]
    <3>1. Given(c) \in Seq(1 .. MaxUp) /\ Given(c)' = Given(c)
      BY <2>1, PathTypes DEF Given
    <3>2. <<>> \in Seq(1 .. MaxUp) /\ Given(c) \o <<>> = Given(c)
      BY <3>1, EmptySeq, ConcatEmptySeq
    <3>. QED  BY <3>1, <3>2
  <2>2. ASSUME NEW d \in Conns, Keeps(d), Gives(d), toServer'[c] # toServer[c]
        PROVE  \E x \in Seq(1 .. MaxUp) : Given(c)' = Given(c) \o x
    <3>1. d = c
      BY <2>2 DEF Keeps
    <3>. QED  BY <2>2, <3>1 DEF Gives
  <2>. QED  BY <2>1, <2>2 DEF CleanUp, TunnelSends
<1>. QED  BY <1>1, <1>2

\* An empty sequence begins every one.
LEMMA NoneFirst ==
  ASSUME NEW S, NEW s \in Seq(S)
  PROVE  IsPrefix(<<>>, s)
<1>1. <<>> \in Seq(S) /\ <<>> \o s = s
  BY EmptySeq, ConcatEmptySeq
<1>. QED  BY <1>1, BeginsLonger

LEMMA GivenByTheOne == DataTypeOK /\ TheConn \in Conns => Given(TheConn) \in Seq(1 .. MaxUp)
BY PathTypes

LEMMA UploadGoesOn ==
  ASSUME OneBridge, PathInv, CleanInv, [DataNext]_allVars, Clean'
  PROVE  Upload!Next
<1>i. /\ HandshakeInv /\ TypeOK /\ DataTypeOK /\ UploadInv /\ PathInv' /\ CleanInv'
  BY PathNext, CleanNext DEF PathInv, HandshakeInv
<1>1. /\ ext[TheBridge] # None => TheConn' = TheConn
      /\ TheConn' \in Conns
      /\ Clean /\ Unbroken /\ UploadWhole /\ CleanUp
  BY CleanGoesOn
<1>2. TheBridge \in Bridges /\ TheConn \in Conns /\ TheBridge' = TheBridge /\ DataTypeOK'
  BY <1>i, TheOnes DEF TheBridge, PathInv
<1>3. IsPrefix(Upto(sentUp[TheBridge]), Upto(sentUp'[TheBridge]))
  <2>1. /\ sentUp[TheBridge] \in Nat /\ sentUp'[TheBridge] \in Nat
        /\ sentUp[TheBridge] <= sentUp'[TheBridge]
    BY <1>i, <1>1, <1>2, CleanUpGrows
  <2>. QED  BY <2>1, UptoGrows
<1>4. IsPrefix(Given(TheConn), Given(TheConn)')
  <2>1. Given(TheConn) \in Seq(1 .. MaxUp)
    BY <1>i, <1>2, PathTypes
  <2>2. CASE ext[TheBridge] # None
    <3>1. PICK x \in Seq(1 .. MaxUp) : FlattenSeq(toServer'[TheConn]) = Given(TheConn) \o x
      BY <1>i, <1>1, <1>2, CleanUpGrows DEF Given
    <3>2. Given(TheConn)' = FlattenSeq(toServer'[TheConn])
      BY <1>1, <2>2 DEF Given
    <3>3. IsPrefix(Given(TheConn), Given(TheConn) \o x)
      BY <2>1, BeginsLonger
    <3>. QED  BY <3>1, <3>2, <3>3
  <2>3. CASE ext[TheBridge] = None
    <3>1. Stream(TheConn) = <<>>
      BY <1>i, <1>1, <1>2, <2>3, NoneHasBegun DEF UploadInv, NothingEarly
    <3>2. Given(TheConn) = <<>>
      BY <1>i, <1>2, <3>1, StreamIsEmpty
    <3>3. (DataTypeOK /\ TheConn \in Conns => Given(TheConn) \in Seq(1 .. MaxUp))'
      BY GivenByTheOne, PTL
    <3>. QED  BY <1>1, <1>2, <3>2, <3>3, NoneFirst
  <2>. QED  BY <2>2, <2>3
<1>5. Upto(sentUp'[TheBridge])
      = Given(TheConn)' \o (icache'[TheConn'] \o kup'[TheConn'] \o ccache'[TheBridge])
  <2>1. (Upto(sentUp[TheBridge])
         = Given(TheConn) \o (icache[TheConn] \o kup[TheConn] \o ccache[TheBridge]))'
    <3>1. (PathInv /\ Clean /\ Unbroken /\ UploadWhole)'
      BY <1>i DEF CleanInv
    <3>2. (PathInv /\ Clean /\ Unbroken /\ UploadWhole
           => Upto(sentUp[TheBridge])
              = Given(TheConn) \o (icache[TheConn] \o kup[TheConn] \o ccache[TheBridge]))'
      BY UploadIsThere, PTL
    <3>. QED  BY <3>1, <3>2
  <2>. QED  BY <1>2, <2>1
<1>. QED  BY <1>2, <1>3, <1>4, <1>5
     DEF Upload!Next, IsPrefix, Upload!IsPrefix, Upto

\* The numbers of what ss-local has been given.
LEMMA LocalIsUpto ==
  DownloadWhole /\ TheBridge \in Bridges
  => [i \in 1 .. Len(toLocal[TheBridge]) |-> toLocal[TheBridge][i][2]]
     = Upto(Len(toLocal[TheBridge]))
<1>. SUFFICES ASSUME DownloadWhole, TheBridge \in Bridges
              PROVE  [i \in 1 .. Len(toLocal[TheBridge]) |-> toLocal[TheBridge][i][2]]
                     = Upto(Len(toLocal[TheBridge]))
  OBVIOUS
<1>1. \A i \in 1 .. Len(toLocal[TheBridge]) : toLocal[TheBridge][i] = <<ext[TheBridge], i>>
  BY DEF DownloadWhole
<1>2. \A i \in 1 .. Len(toLocal[TheBridge]) : toLocal[TheBridge][i][2] = i
  BY <1>1
<1>. QED  BY <1>2 DEF Upto

LEMMA DownloadGoesOn ==
  ASSUME OneBridge, PathInv, CleanInv, [DataNext]_allVars, Clean'
  PROVE  Download!Next
<1>i. /\ HandshakeInv /\ TypeOK /\ DataTypeOK /\ DownloadInv /\ PathInv' /\ CleanInv'
  BY PathNext, CleanNext DEF PathInv, HandshakeInv
<1>1. /\ ext[TheBridge] # None => TheConn' = TheConn
      /\ TheConn' \in Conns
      /\ Clean /\ Unbroken /\ DownloadWhole /\ CleanDown
  BY CleanGoesOn
<1>2. TheBridge \in Bridges /\ TheConn \in Conns /\ TheBridge' = TheBridge /\ DataTypeOK'
  BY <1>i, TheOnes DEF TheBridge, PathInv
<1>. DEFINE L == Len(toLocal[TheBridge])
            M == Len(toLocal'[TheBridge])
<1>3. IsPrefix(Upto(sentDown[TheConn]), Upto(sentDown'[TheConn']))
  <2>1. /\ sentDown[TheConn] \in Nat /\ sentDown'[TheConn'] \in Nat
    BY <1>1, <1>2 DEF CleanDown
  <2>2. sentDown[TheConn] <= sentDown'[TheConn']
    <3>1. CASE ext[TheBridge] # None
      BY <1>1, <1>2, <3>1 DEF CleanDown
    <3>2. CASE ext[TheBridge] = None
      <4>1. sentDown[TheConn] = 0
        BY <1>i, <1>1, <1>2, <3>2, NoneHasBegun DEF DownloadInv, NothingDown
      <4>. QED  BY <2>1, <4>1
    <3>. QED  BY <3>1, <3>2
  <2>. QED  BY <2>1, <2>2, UptoGrows
<1>4. IsPrefix(Upto(L), Upto(M))
  <2>1. toLocal[TheBridge] \in Seq(Conns \X (1 .. MaxDown)) /\ L \in Nat
    BY <1>i, <1>2, LenProperties DEF DataTypeOK
  <2>2. toLocal'[TheBridge] \in Seq(Conns \X (1 .. MaxDown)) /\ M \in Nat
    BY <1>2, LenProperties DEF DataTypeOK
  <2>3. M = L \/ M = L + 1
    <3>1. CASE toLocal'[TheBridge] = toLocal[TheBridge]
      BY <3>1
    <3>2. ASSUME NEW e, toLocal'[TheBridge] = Append(toLocal[TheBridge], e)
          PROVE  M = L + 1
      <4>. DEFINE s == toLocal[TheBridge]
                  S == (Conns \X (1 .. MaxDown)) \cup {e}
      <4>1. s \in Seq(S) /\ e \in S
        BY <2>1
      <4>. HIDE DEF s, S
      <4>2. Len(Append(s, e)) = Len(s) + 1
        BY <4>1, AppendProperties
      <4>. QED  BY <3>2, <4>2 DEF s
    <3>. QED  BY <1>1, <1>2, <3>1, <3>2 DEF CleanDown
  <2>. HIDE DEF L, M
  <2>. QED  BY <2>1, <2>2, <2>3, UptoGrows
<1>5. Upto(sentDown'[TheConn']) = Upto(M) \o (kdown'[TheConn'] \o scache'[TheConn'])
  <2>1. (Upto(sentDown[TheConn])
         = Upto(Len(toLocal[TheBridge])) \o (kdown[TheConn] \o scache[TheConn]))'
    <3>1. (PathInv /\ Clean /\ Unbroken /\ DownloadWhole)'
      BY <1>i DEF CleanInv
    <3>2. (PathInv /\ Clean /\ Unbroken /\ DownloadWhole
           => Upto(sentDown[TheConn])
              = Upto(Len(toLocal[TheBridge])) \o (kdown[TheConn] \o scache[TheConn]))'
      BY DownloadIsThere, PTL
    <3>. QED  BY <3>1, <3>2
  <2>. QED  BY <1>2, <2>1
<1>6. [i \in 1 .. L |-> toLocal[TheBridge][i][2]] = Upto(L)
  BY <1>1, <1>2, LocalIsUpto
<1>7. [i \in 1 .. M |-> toLocal'[TheBridge][i][2]] = Upto(M)
  <2>1. (DownloadWhole /\ TheBridge \in Bridges
         => [i \in 1 .. Len(toLocal[TheBridge]) |-> toLocal[TheBridge][i][2]]
            = Upto(Len(toLocal[TheBridge])))'
    BY LocalIsUpto, PTL
  <2>2. DownloadWhole' /\ TheBridge' \in Bridges
    BY <1>i, <1>2 DEF CleanInv
  <2>. QED  BY <1>2, <2>1, <2>2
<1>. QED  BY <1>2, <1>3, <1>4, <1>5, <1>6, <1>7
     DEF Download!Next, IsPrefix, Download!IsPrefix, Upto

-----------------------------------------------------------------------------
(* The theorems.                                                           *)

\* Whatever fails, ss-local is given of each session a first part of what
\* ss-server sent, and nothing of a session after something of the next.
THEOREM DownloadAlwaysInOrder == DataSpec => []DownloadInOrder
<1>1. PathInv => DownloadInOrder
  BY DEF PathInv, DownloadInv
<1>. QED  BY PathHolds, <1>1, PTL

\* Whatever failed before, what a connection to ss-server is given has no hole
\* until a write to it is told to have failed.
THEOREM UploadHasNoHoleUntilTold == DataSpec => []NoHoleUntilTold
<1>1. ASSUME PathInv, NEW c \in Conns, int[c] = "connected",
             NEW i \in 1 .. Len(Last(toServer[c])) - 1
      PROVE  Last(toServer[c])[i + 1] = Last(toServer[c])[i] + 1
  <2>. DEFINE s == Last(toServer[c])
  <2>1. s = Latest(c) /\ s \in Seq(1 .. MaxUp) /\ IsRun(s) /\ MaxUp \in Nat
    BY <1>1, LatestIsSeq, ProxyPathAssumption DEF PathInv, UploadInv, RunsGiven, Latest
  <2>2. i \in 1 .. Len(s) - 1
    OBVIOUS
  <2>. HIDE DEF s
  <2>3. s[i + 1] = s[i] + 1
    BY <2>1, <2>2, NoHoles
  <2>. QED  BY <2>3 DEF s
<1>2. PathInv => NoHoleUntilTold
  BY <1>1 DEF NoHoleUntilTold
<1>. QED  BY PathHolds, <1>2, PTL

\* With one bridge, ss-server is given the upload in order and nothing of it again,
\* whatever fails, and by each connection without a hole until a write has failed.
THEOREM UploadAlwaysInOrder ==
  ASSUME \A a, b \in Bridges : a = b
  PROVE  DataSpec => []UploadInOrder
<1>1. DataInit => PathInv /\ OnOneSession
  BY PathInit, OnOneSessionInit
<1>2. PathInv /\ OnOneSession /\ [DataNext]_allVars => PathInv' /\ OnOneSession'
  BY PathNext, OnOneSessionNext
<1>3. PathInv /\ OnOneSession => DataTypeOK /\ GivenOnce
  BY OneBridgeGivesOnce DEF PathInv
<1>4. DataSpec => [](DataTypeOK /\ GivenOnce)
  BY <1>1, <1>2, <1>3, PTL DEF DataSpec
<1>5. DataTypeOK /\ GivenOnce /\ NoHoleUntilTold => UploadInOrder
  BY DEF UploadInOrder
<1>. QED  BY <1>4, <1>5, UploadHasNoHoleUntilTold, PTL

\* Whatever fails and however many bridges there are, a session gives ss-server the
\* data in the order they were sent and none twice, over all its connections to it:
\* not when a cache is sent over the next connection, nor behind a failed write.
THEOREM SessionGivesInOrder ==
  DataSpec => [](\A c \in Conns : \A i, j \in DOMAIN Given(c) :
                   i < j => Given(c)[i] < Given(c)[j])
<1>1. PathInv => \A c \in Conns : \A i, j \in DOMAIN Given(c) :
                   i < j => Given(c)[i] < Given(c)[j]
  BY GivenIncreases
<1>. QED  BY PathHolds, <1>1, PTL

\* With one bridge, as long as nothing fails and nobody closes, what ss-local
\* sends comes out at ss-server in order and once: what has not come out is in
\* the caches and the tunnel.
THEOREM UploadAlwaysFifo == ASSUME OneBridge PROVE DataSpec => UploadIsFifo
<1>1. DataInit => PathInv /\ CleanInv
  BY PathInit, CleanInit
<1>2. PathInv /\ CleanInv /\ [DataNext]_allVars => PathInv' /\ CleanInv'
  BY PathNext, CleanNext
<1>3. PathInv /\ CleanInv /\ [DataNext]_allVars => [Clean' => Upload!Next]_allVars
  BY UploadGoesOn
<1>. QED  BY <1>1, <1>2, <1>3, PTL DEF DataSpec, UploadIsFifo

\* The same of what ss-server sends, which comes out at ss-local.
THEOREM DownloadAlwaysFifo == ASSUME OneBridge PROVE DataSpec => DownloadIsFifo
<1>1. DataInit => PathInv /\ CleanInv
  BY PathInit, CleanInit
<1>2. PathInv /\ CleanInv /\ [DataNext]_allVars => PathInv' /\ CleanInv'
  BY PathNext, CleanNext
<1>3. PathInv /\ CleanInv /\ [DataNext]_allVars => [Clean' => Download!Next]_allVars
  BY DownloadGoesOn
<1>. QED  BY <1>1, <1>2, <1>3, PTL DEF DataSpec, DownloadIsFifo

=============================================================================
