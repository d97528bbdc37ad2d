--------------------------- MODULE KcpTunnelProofs ---------------------------
(***************************************************************************)
(* Theorems about the KCP tunnel, for every size of windows, messages and  *)
(* datagrams, every stream and whatever the network loses, repeats or      *)
(* reorders: each direction is a queue, and the windows hold.              *)
(***************************************************************************)
EXTENDS KcpTunnel, FiniteSetTheorems, RunLemmas

-----------------------------------------------------------------------------
(* The inductive invariant.  No number comes twice, so the unit with number *)
(* n is the unit n + 1, wherever it is.                                     *)

\* A sender is at most this far past what was acknowledged.
Ahead == Min({SndWnd, RcvWnd})

\* How the first n units are cut into messages: what frg says of each of them.
IsCut(F, n) ==
  /\ F \in [1 .. n -> 0 .. MaxFrags - 1]
  /\ \A u \in 1 .. n : F[u] # 0 => u < n /\ F[u + 1] = F[u] - 1

\* A numbered unit x is what it should be.
Fits(x, F) == x.unit = x.sn + 1 /\ x.frg = F[x.unit]

\* The number sn has arrived at k.
Has(k, sn) == sn < k.rcvNxt \/ \E x \in k.rcvBuf : x.sn = sn

\* k as the sender of units that are cut as F says.
SendsWell(k, F) ==
  /\ k.una <= k.nxt /\ k.nxt <= k.una + Ahead
  /\ k.una = IF k.sndBuf = <<>> THEN k.nxt ELSE k.sndBuf[1].sn
  /\ \A i \in 1 .. Len(k.sndBuf) :
       Fits(k.sndBuf[i], F) /\ k.una <= k.sndBuf[i].sn /\ k.sndBuf[i].sn < k.nxt
  /\ \A i, j \in 1 .. Len(k.sndBuf) : i < j => k.sndBuf[i].sn < k.sndBuf[j].sn
  /\ IsCut(F, k.nxt + Len(k.sndQ))
  /\ \A i \in 1 .. Len(k.sndQ) :
       k.sndQ[i].unit = k.nxt + i /\ k.sndQ[i].frg = F[k.nxt + i]

\* k as the receiver of the units below top, the first given of them handed over.
ReceivesWell(k, given, F, top) ==
  /\ Len(k.rcvQ) <= RcvWnd /\ k.rcvNxt = given + Len(k.rcvQ) /\ k.rcvNxt <= top
  /\ \A i \in 1 .. Len(k.rcvQ) :
       k.rcvQ[i].unit = given + i /\ k.rcvQ[i].frg = F[given + i]
  /\ \A x \in k.rcvBuf :
       Fits(x, F) /\ k.rcvNxt <= x.sn /\ x.sn < k.rcvNxt + RcvWnd /\ x.sn < top
  /\ \A i \in 1 .. Len(k.acks) : Has(k, k.acks[i])

\* What s has numbered has arrived at r or is kept.
Keeps(s, r) ==
  \A n \in 0 .. s.nxt - 1 : Has(r, n) \/ \E i \in 1 .. Len(s.sndBuf) : s.sndBuf[i].sn = n

\* What k, whose units are cut as F says, may have said, at any time.
Said(k, F) ==
  {x \in [cmd : {"ACK", "PUSH", "WASK", "WINS"}, sn : Sn, frg : Frgs, unit : 0 .. SnMod,
          wnd : 0 .. RcvWnd, una : Sn] :
     /\ x.una <= k.rcvNxt
     /\ x.cmd = "PUSH" => x.sn < k.nxt /\ Fits(x, F)
     /\ x.cmd = "ACK" => Has(k, x.sn)}

\* How many units a block has taken.
Taken(k) == k.nxt + Len(k.sndQ)

\* s counts on from c.
Counts(s, c) == s = Numbers(c, Len(s))

\* The units that wait in a cache, up to n, follow those the control block has.
WaitsWell(k, packets, n) ==
  /\ Counts(FlattenSeq(packets), Taken(k))
  /\ Taken(k) + Len(FlattenSeq(packets)) = n

\* One direction of the tunnel, from e.
Flows(e, F) ==
  /\ SendsWell(kcp[e], F) /\ WaitsWell(kcp[e], cache[e], entered[e])
  /\ ReceivesWell(kcp[Peer(e)], Len(got[Peer(e)]), F, kcp[e].nxt)
  /\ Keeps(kcp[e], kcp[Peer(e)])
  /\ Counts(got[Peer(e)], 0)
  /\ net[Peer(e)] \in Seq(Seq(Said(kcp[e], F))) /\ held[e] \in Seq(Seq(Said(kcp[e], F)))

TunnelInv ==
  /\ TypeOK
  /\ DOMAIN net = Ends /\ DOMAIN held = Ends /\ entered \in [Ends -> Nat]
  /\ \A e \in Ends : \E F \in [1 .. Taken(kcp[e]) -> 0 .. MaxFrags - 1] : Flows(e, F)

-----------------------------------------------------------------------------
(* Numbers.                                                                *)

LEMMA LeastOfTwo ==
  ASSUME NEW a \in Int, NEW b \in Int
  PROVE  Min({a, b}) = IF a <= b THEN a ELSE b
<1>. DEFINE m == IF a <= b THEN a ELSE b
<1>1. m \in {a, b} /\ \A y \in {a, b} : m <= y
  OBVIOUS
<1>2. \A x \in {a, b} : (\A y \in {a, b} : x <= y) => x = m
  OBVIOUS
<1>. HIDE DEF m
<1>3. Min({a, b}) = m
  BY <1>1, <1>2 DEF Min
<1>. QED  BY <1>3 DEF m

LEMMA GreatestOfTwo ==
  ASSUME NEW a \in Int, NEW b \in Int
  PROVE  Max({a, b}) = IF a >= b THEN a ELSE b
<1>. DEFINE m == IF a >= b THEN a ELSE b
<1>1. m \in {a, b} /\ \A y \in {a, b} : m >= y
  OBVIOUS
<1>2. \A x \in {a, b} : (\A y \in {a, b} : x >= y) => x = m
  OBVIOUS
<1>. HIDE DEF m
<1>3. Max({a, b}) = m
  BY <1>1, <1>2 DEF Max
<1>. QED  BY <1>3 DEF m

\* The greatest of the numbers of an interval and of its parts.
LEMMA GreatestExists ==
  ASSUME NEW n \in Nat, NEW S, S \subseteq 1 .. n, S # {}
  PROVE  Max(S) \in S /\ \A y \in S : Max(S) >= y
<1>. DEFINE HasLast(R) == \E x \in R : \A y \in R : x >= y
            T == {k \in Nat : \A R \in SUBSET (1 .. k) : R # {} => HasLast(R)}
<1>1. 0 \in T
  <2>1. 1 .. 0 = {}
    OBVIOUS
  <2>2. \A R \in SUBSET (1 .. 0) : R = {}
    BY <2>1
  <2>. HIDE DEF HasLast
  <2>. QED  BY <2>2
<1>2. ASSUME NEW k \in Nat, k \in T PROVE k + 1 \in T
  <2>1. ASSUME NEW R \in SUBSET (1 .. k + 1), R # {} PROVE HasLast(R)
    <3>1. CASE k + 1 \in R
      BY <3>1
    <3>2. CASE k + 1 \notin R
      <4>1. R \in SUBSET (1 .. k)
        BY <3>2
      <4>. QED  BY <1>2, <2>1, <4>1
    <3>. QED  BY <3>1, <3>2
  <2>. HIDE DEF HasLast
  <2>. QED  BY <2>1
<1>3. n \in T
  <2>. HIDE DEF T
  <2>. QED  BY <1>1, <1>2, Induction
<1>4. HasLast(S)
  BY <1>3
<1>. QED  BY <1>4 DEF Max

\* What the constants are.
LEMMA Consts ==
  /\ SndWnd \in Nat /\ SndWnd > 0 /\ RcvWnd \in Nat /\ RcvWnd > 0
  /\ FastResend \in Nat /\ FastResend > 0 /\ Mtu \in Nat
  /\ MaxFrags \in Nat /\ MaxFrags > 0 /\ MaxFrags <= RcvWnd
  /\ SnMod \in Nat /\ SnMod > 2 * (SndWnd + RcvWnd)
  /\ Ahead \in Nat /\ Ahead > 0 /\ Ahead <= RcvWnd /\ Ahead <= SndWnd
  /\ \A e \in Ends : MaxUnits[e] \in Nat /\ 2 * (MaxUnits[e] + RcvWnd) < SnMod
<1>1. SndWnd \in Nat \ {0} /\ RcvWnd \in Nat \ {0}
  BY KcpAssumption
<1>2. Ahead = IF SndWnd <= RcvWnd THEN SndWnd ELSE RcvWnd
  BY <1>1, LeastOfTwo DEF Ahead
<1>. QED  BY <1>1, <1>2, KcpAssumption, KcpTunnelAssumption

LEMMA UnitsAre ==
  ASSUME NEW e \in Ends
  PROVE  /\ 1 .. MaxUnits[e] \subseteq Units /\ Units \subseteq Nat
         /\ Peer(e) \in Ends /\ Peer(e) # e /\ Peer(Peer(e)) = e /\ Ends = {e, Peer(e)}
<1>1. {MaxUnits[d] : d \in Ends} = {MaxUnits["cli"], MaxUnits["svr"]}
  BY DEF Ends
<1>2. MaxUnits["cli"] \in Nat /\ MaxUnits["svr"] \in Nat
  BY Consts DEF Ends
<1>3. Max({MaxUnits[d] : d \in Ends}) =
        IF MaxUnits["cli"] >= MaxUnits["svr"] THEN MaxUnits["cli"] ELSE MaxUnits["svr"]
  <2>1. MaxUnits["cli"] \in Int /\ MaxUnits["svr"] \in Int
    BY <1>2
  <2>2. Max({MaxUnits["cli"], MaxUnits["svr"]}) =
          IF MaxUnits["cli"] >= MaxUnits["svr"] THEN MaxUnits["cli"] ELSE MaxUnits["svr"]
    BY <2>1, GreatestOfTwo
  <2>. QED  BY <1>1, <2>2
<1>4. 1 .. MaxUnits[e] \subseteq Units /\ Units \subseteq Nat
  BY <1>2, <1>3 DEF Units, Ends
<1>. QED  BY <1>4 DEF Ends, Peer

LEMMA RemainderIs ==
  ASSUME NEW n \in Int, NEW r \in 0 .. SnMod - 1, n = r \/ n = r - SnMod
  PROVE  n % SnMod = r
<1>1. SnMod \in Nat /\ SnMod > 0
  BY Consts
<1>. QED  BY <1>1

\* Numbers below half of all are compared and added as what they are.
LEMMA DiffIs ==
  ASSUME NEW a \in Nat, NEW b \in Nat, 2 * a < SnMod, 2 * b < SnMod
  PROVE  Diff(a, b) = a - b
<1>. DEFINE d == IF a >= b THEN a - b ELSE a - b + SnMod
<1>1. d \in 0 .. SnMod - 1 /\ a - b \in Int /\ (a - b = d \/ a - b = d - SnMod)
  BY Consts
<1>2. (a - b) % SnMod = d
  <2>. HIDE DEF d
  <2>. QED  BY <1>1, RemainderIs
<1>3. (2 * d < SnMod) <=> a >= b
  BY Consts
<1>. QED  BY <1>2, <1>3, Consts DEF Diff

LEMMA PlusIs ==
  ASSUME NEW a \in Nat, NEW n \in Nat, a + n < SnMod
  PROVE  Plus(a, n) = a + n /\ Plus(a, n) \in Sn
<1>1. a + n \in 0 .. SnMod - 1
  BY Consts
<1>. QED  BY <1>1, RemainderIs DEF Plus, Sn

-----------------------------------------------------------------------------
(* Folds.                                                                  *)

\* What a fold over the sets of the numbers up to n computes of g.
Turn(g, base, step, T) == IF T = {} THEN base ELSE step[<<g[T \ {Max(T)}], Max(T)>>]
Turns(g, A, base, n, step) ==
  /\ g \in [SUBSET (1 .. n) -> A]
  /\ \A T \in SUBSET (1 .. n) : g[T] = Turn(g, base, step, T)

LEMMA TurnsExist ==
  ASSUME NEW A, NEW base \in A, NEW n \in Nat, NEW step \in [A \X (1 .. n) -> A]
  PROVE  \E g : Turns(g, A, base, n, step)
<1>. DEFINE Sets == SUBSET (1 .. n)
            Upto(m, g) == \A T \in Sets : T \subseteq 1 .. m => g[T] = Turn(g, base, step, T)
            P == {m \in Nat : \E g \in [Sets -> A] : Upto(m, g)}
<1>1. ASSUME NEW T \in Sets, T # {} PROVE Max(T) \in T /\ Max(T) \in 1 .. n
  BY <1>1, GreatestExists
<1>2. ASSUME NEW g \in [Sets -> A], NEW T \in Sets PROVE Turn(g, base, step, T) \in A
  <2>1. CASE T = {}
    BY <2>1 DEF Turn
  <2>2. CASE T # {}
    <3>1. T \ {Max(T)} \in Sets /\ Max(T) \in 1 .. n
      BY <1>1, <2>2
    <3>. QED  BY <2>2, <3>1 DEF Turn
  <2>. QED  BY <2>1, <2>2
<1>3. 0 \in P
  <2>. DEFINE g == [T \in Sets |-> base]
  <2>1. g \in [Sets -> A]
    OBVIOUS
  <2>2. ASSUME NEW T \in Sets, T \subseteq 1 .. 0 PROVE g[T] = Turn(g, base, step, T)
    <3>1. T = {}
      BY <2>2
    <3>. QED  BY <3>1 DEF Turn
  <2>. HIDE DEF g
  <2>. QED  BY <2>1, <2>2
<1>4. ASSUME NEW m \in Nat, m \in P PROVE m + 1 \in P
  <2>1. PICK g \in [Sets -> A] : Upto(m, g)
    BY <1>4
  <2>. DEFINE h == [T \in Sets |-> Turn(g, base, step, T)]
  <2>2. h \in [Sets -> A]
    BY <1>2
  <2>3. ASSUME NEW T \in Sets, T \subseteq 1 .. m + 1 PROVE h[T] = Turn(h, base, step, T)
    <3>0. h[T] = Turn(g, base, step, T)
      OBVIOUS
    <3>1. CASE T = {}
      BY <3>0, <3>1 DEF Turn
    <3>2. CASE T # {}
      <4>. DEFINE S == T \ {Max(T)}
      <4>1. S \in Sets /\ S \subseteq 1 .. m
        <5>1. Max(T) \in T /\ \A y \in T : Max(T) >= y
          BY <3>2, GreatestExists
        <5>2. ASSUME NEW y \in S PROVE y \in 1 .. m
          <6>1. y \in 1 .. m + 1 /\ Max(T) \in 1 .. m + 1 /\ Max(T) >= y /\ y # Max(T)
            BY <2>3, <5>1
          <6>. QED  BY <6>1
        <5>. QED  BY <5>2
      <4>2. h[S] = g[S]
        <5>1. g[S] = Turn(g, base, step, S)
          <6>. HIDE DEF S
          <6>. QED  BY <2>1, <4>1
        <5>. HIDE DEF S
        <5>. QED  BY <4>1, <5>1
      <4>. HIDE DEF h
      <4>3. Turn(g, base, step, T) = Turn(h, base, step, T)
        BY <4>2 DEF Turn
      <4>. QED  BY <3>0, <4>3
    <3>. QED  BY <3>1, <3>2
  <2>. HIDE DEF h
  <2>4. Upto(m + 1, h)
    BY <2>3
  <2>. HIDE DEF Upto
  <2>. QED  BY <2>2, <2>4
<1>5. n \in P
  <2>. HIDE DEF P
  <2>. QED  BY <1>3, <1>4, Induction
<1>6. PICK g \in [Sets -> A] : Upto(n, g)
  BY <1>5
<1>7. Turns(g, A, base, n, step)
  BY <1>6 DEF Turns
<1>. QED  BY <1>7

\* The numbers up to i and the last of them.
LEMMA UpToNext ==
  ASSUME NEW i \in Nat
  PROVE  /\ 1 .. i + 1 # {} /\ Max(1 .. i + 1) = i + 1
         /\ (1 .. i + 1) \ {i + 1} = 1 .. i
<1>1. Max(1 .. i + 1) \in 1 .. i + 1 /\ \A y \in 1 .. i + 1 : Max(1 .. i + 1) >= y
  <2>1. i + 1 \in Nat /\ 1 .. i + 1 # {}
    OBVIOUS
  <2>. QED  BY <2>1, GreatestExists
<1>2. Max(1 .. i + 1) = i + 1
  BY <1>1
<1>. QED  BY <1>2

-----------------------------------------------------------------------------
(* The order of a set of numbers.                                          *)

\* f lists S from the least to the greatest.
Lists(f, m, S) ==
  /\ f \in [1 .. m -> S] /\ \A x \in S : \E i \in 1 .. m : f[i] = x
  /\ \A i, j \in 1 .. m : i < j => f[i] < f[j]

LEMMA ListsExist ==
  ASSUME NEW n \in Nat, NEW S, S \subseteq 1 .. n
  PROVE  \E m \in Nat : \E f : Lists(f, m, S)
<1>. DEFINE P == {k \in Nat : \A R \in SUBSET (1 .. k) : \E m \in Nat : \E f : Lists(f, m, R)}
<1>1. 0 \in P
  <2>1. ASSUME NEW R \in SUBSET (1 .. 0) PROVE \E m \in Nat : \E f : Lists(f, m, R)
    <3>1. R = {}
      OBVIOUS
    <3>2. Lists(<<>>, 0, {})
      BY DEF Lists
    <3>. QED  BY <3>1, <3>2
  <2>. QED  BY <2>1
<1>2. ASSUME NEW k \in Nat, k \in P PROVE k + 1 \in P
  <2>1. ASSUME NEW R \in SUBSET (1 .. k + 1) PROVE \E m \in Nat : \E f : Lists(f, m, R)
    <3>. DEFINE Q == R \ {k + 1}
    <3>1. Q \in SUBSET (1 .. k)
      OBVIOUS
    <3>2. PICK m \in Nat : \E f : Lists(f, m, Q)
      <4>. HIDE DEF Q
      <4>. QED  BY <1>2, <3>1
    <3>2a. PICK f : Lists(f, m, Q)
      BY <3>2
    <3>3. CASE k + 1 \notin R
      BY <3>2a, <3>3
    <3>4. CASE k + 1 \in R
      <4>. DEFINE h == [i \in 1 .. m + 1 |-> IF i <= m THEN f[i] ELSE k + 1]
      <4>1. f \in [1 .. m -> Q] /\ \A i \in 1 .. m : f[i] \in 1 .. k /\ f[i] \in R
        BY <3>1, <3>2a DEF Lists
      <4>2. h \in [1 .. m + 1 -> R]
        BY <3>4, <4>1
      <4>3. \A i \in 1 .. m : i \in 1 .. m + 1 /\ h[i] = f[i]
        OBVIOUS
      <4>4. m + 1 \in 1 .. m + 1 /\ h[m + 1] = k + 1
        OBVIOUS
      <4>. HIDE DEF h
      <4>5. ASSUME NEW x \in R PROVE \E i \in 1 .. m + 1 : h[i] = x
        <5>1. CASE x = k + 1
          BY <4>4, <5>1
        <5>2. CASE x # k + 1
          <6>1. PICK i \in 1 .. m : f[i] = x
            BY <3>2a, <5>2 DEF Lists
          <6>. QED  BY <4>3, <6>1
        <5>. QED  BY <5>1, <5>2
      <4>6. ASSUME NEW i \in 1 .. m + 1, NEW j \in 1 .. m + 1, i < j PROVE h[i] < h[j]
        <5>1. i \in 1 .. m
          BY <4>6
        <5>2. CASE j \in 1 .. m
          BY <3>2a, <4>3, <4>6, <5>1, <5>2 DEF Lists
        <5>3. CASE j = m + 1
          BY <4>1, <4>3, <4>4, <5>1, <5>3
        <5>. QED  BY <5>2, <5>3
      <4>7. Lists(h, m + 1, R)
        BY <4>2, <4>5, <4>6 DEF Lists
      <4>. QED  BY <4>7
    <3>. QED  BY <3>3, <3>4
  <2>. QED  BY <2>1
<1>3. n \in P
  <2>. HIDE DEF P
  <2>. QED  BY <1>1, <1>2, Induction
<1>. QED  BY <1>3

\* Ascending lists a set of numbers, each once.
LEMMA AscendingIs ==
  ASSUME NEW n \in Nat, NEW S, S \subseteq 1 .. n
  PROVE  Ascending(S) \in Seq(S) /\ Len(Ascending(S)) = Cardinality(S) /\ Cardinality(S) \in Nat
<1>. DEFINE Rises(q) == \A i, j \in DOMAIN q : i < j => q[i] < q[j]
<1>1. PICK m \in Nat : \E f : Lists(f, m, S)
  BY ListsExist
<1>2. PICK f : Lists(f, m, S)
  BY <1>1
<1>3. f \in [1 .. m -> S] /\ \A i \in 1 .. m : f[i] \in Int
  <2>1. f \in [1 .. m -> S]
    BY <1>2 DEF Lists
  <2>2. S \subseteq Int
    OBVIOUS
  <2>. QED  BY <2>1, <2>2
<1>4. f \in Bijection(1 .. m, S)
  <2>1. IsInjective(f)
    <3>1. ASSUME NEW i \in 1 .. m, NEW j \in 1 .. m, f[i] = f[j] PROVE i = j
      <4>1. ~ (i < j) /\ ~ (j < i)
        BY <1>2, <1>3, <3>1 DEF Lists
      <4>. QED  BY <4>1
    <3>. QED  BY <1>3, <3>1 DEF IsInjective
  <2>. QED  BY <1>2, <1>3, <2>1 DEF Lists, Bijection, Injection, Surjection
<1>5. Cardinality(S) = m
  <2>1. IsFiniteSet(1 .. m) /\ Cardinality(1 .. m) = m
    BY FS_Interval
  <2>2. ExistsBijection(1 .. m, S)
    BY <1>4 DEF ExistsBijection
  <2>. QED  BY <2>1, <2>2, FS_Bijection
<1>6. Rises(f)
  BY <1>2, <1>3 DEF Lists
<1>7. Ascending(S) \in [1 .. m -> S]
  <2>1. Ascending(S) = CHOOSE q \in [1 .. m -> S] : Rises(q)
    BY <1>5 DEF Ascending
  <2>. HIDE DEF Rises
  <2>. QED  BY <1>3, <1>6, <2>1
<1>8. Ascending(S) \in Seq(S)
  BY <1>7, SeqDef
<1>. QED  BY <1>5, <1>7, <1>8, LenProperties

-----------------------------------------------------------------------------
(* The control block.                                                      *)

Blocks == KcpCb(Units)

\* So few units that their numbers can be compared.
Small(n) == n \in Nat /\ 2 * (n + RcvWnd) < SnMod /\ 1 .. n \subseteq Units

LEMMA BlockFields ==
  ASSUME NEW k \in Blocks
  PROVE  /\ k.sndQ \in Seq(Queued(Units)) /\ k.sndBuf \in Seq(InFlight(Units))
         /\ k.una \in Sn /\ k.nxt \in Sn /\ k.rmt \in 0 .. RcvWnd
         /\ k.rcvBuf \in SUBSET Stored(Units) /\ k.rcvQ \in Seq(Queued(Units))
         /\ k.rcvNxt \in Sn /\ k.acks \in Seq(Sn) /\ k.tell \in BOOLEAN /\ k.asking \in BOOLEAN
BY DEF Blocks, KcpCb

LEMMA SnIsNat == Sn \subseteq Nat /\ 0 \in Sn
BY Consts DEF Sn

\* Its queues, and what is in them.
LEMMA BlockQueues ==
  ASSUME NEW k \in Blocks
  PROVE  /\ Len(k.sndQ) \in Nat /\ DOMAIN k.sndQ = 1 .. Len(k.sndQ)
         /\ \A i \in 1 .. Len(k.sndQ) : k.sndQ[i] \in Queued(Units)
         /\ Len(k.sndBuf) \in Nat /\ DOMAIN k.sndBuf = 1 .. Len(k.sndBuf)
         /\ \A i \in 1 .. Len(k.sndBuf) : k.sndBuf[i] \in InFlight(Units)
         /\ Len(k.rcvQ) \in Nat /\ DOMAIN k.rcvQ = 1 .. Len(k.rcvQ)
         /\ \A i \in 1 .. Len(k.rcvQ) : k.rcvQ[i] \in Queued(Units)
         /\ Len(k.acks) \in Nat /\ DOMAIN k.acks = 1 .. Len(k.acks)
         /\ \A i \in 1 .. Len(k.acks) : k.acks[i] \in Sn
         /\ k.una \in Nat /\ k.nxt \in Nat /\ k.rcvNxt \in Nat
<1>1. /\ k.sndQ \in Seq(Queued(Units)) /\ k.sndBuf \in Seq(InFlight(Units))
      /\ k.rcvQ \in Seq(Queued(Units)) /\ k.acks \in Seq(Sn)
  BY BlockFields
<1>2. k.una \in Nat /\ k.nxt \in Nat /\ k.rcvNxt \in Nat
  BY BlockFields, SnIsNat
<1>3. Len(k.sndQ) \in Nat /\ DOMAIN k.sndQ = 1 .. Len(k.sndQ)
  BY <1>1, LenProperties
<1>4. Len(k.sndBuf) \in Nat /\ DOMAIN k.sndBuf = 1 .. Len(k.sndBuf)
  BY <1>1, LenProperties
<1>5. Len(k.rcvQ) \in Nat /\ DOMAIN k.rcvQ = 1 .. Len(k.rcvQ)
  BY <1>1, LenProperties
<1>6. Len(k.acks) \in Nat /\ DOMAIN k.acks = 1 .. Len(k.acks)
  BY <1>1, LenProperties
<1>7. \A i \in 1 .. Len(k.sndQ) : k.sndQ[i] \in Queued(Units)
  BY <1>1, ElementOfSeq
<1>8. \A i \in 1 .. Len(k.sndBuf) : k.sndBuf[i] \in InFlight(Units)
  BY <1>1, ElementOfSeq
<1>9. \A i \in 1 .. Len(k.rcvQ) : k.rcvQ[i] \in Queued(Units)
  BY <1>1, ElementOfSeq
<1>10. \A i \in 1 .. Len(k.acks) : k.acks[i] \in Sn
  BY <1>1, ElementOfSeq
<1>. QED  BY <1>2, <1>3, <1>4, <1>5, <1>6, <1>7, <1>8, <1>9, <1>10

\* j sends what k sends; j receives as k does.
SameSender(k, j) ==
  j.sndQ = k.sndQ /\ j.sndBuf = k.sndBuf /\ j.una = k.una /\ j.nxt = k.nxt
SameReceiver(k, j) ==
  j.rcvBuf = k.rcvBuf /\ j.rcvQ = k.rcvQ /\ j.rcvNxt = k.rcvNxt /\ j.acks = k.acks

LEMMA StillSends ==
  ASSUME NEW k, NEW j, NEW F, NEW r, SameSender(k, j)
  PROVE  (SendsWell(k, F) <=> SendsWell(j, F)) /\ (Keeps(k, r) <=> Keeps(j, r))
BY DEF SameSender, SendsWell, Keeps

LEMMA StillReceives ==
  ASSUME NEW k, NEW j, NEW F, NEW given, NEW top, NEW s, SameReceiver(k, j)
  PROVE  /\ ReceivesWell(k, given, F, top) <=> ReceivesWell(j, given, F, top)
         /\ Keeps(s, k) <=> Keeps(s, j)
         /\ \A n : Has(k, n) <=> Has(j, n)
<1>1. \A n : Has(k, n) <=> Has(j, n)
  BY DEF SameReceiver, Has
<1>2. ReceivesWell(k, given, F, top) <=> ReceivesWell(j, given, F, top)
  BY <1>1 DEF SameReceiver, ReceivesWell
<1>. QED  BY <1>1, <1>2 DEF Keeps

-----------------------------------------------------------------------------
(* Acknowledgement.                                                        *)

\* q is p without some of its segments, which have arrived at r.
Thinned(p, q, r) ==
  /\ q \in Seq(InFlight(Units))
  /\ \E m \in [1 .. Len(q) -> 1 .. Len(p)] :
       /\ \A i \in 1 .. Len(q) :
            q[i].sn = p[m[i]].sn /\ q[i].unit = p[m[i]].unit /\ q[i].frg = p[m[i]].frg
       /\ \A i, j \in 1 .. Len(q) : i < j => m[i] < m[j]
  /\ \A i \in 1 .. Len(p) : Has(r, p[i].sn) \/ \E j \in 1 .. Len(q) : q[j].sn = p[i].sn

\* A block whose buffer is thinned, after ikcp_shrink_buf.
LEMMA ThinnedIs ==
  ASSUME NEW k \in Blocks, NEW F, NEW r, SendsWell(k, F), Keeps(k, r),
         NEW q, Thinned(k.sndBuf, q, r), NEW h, h = Shrink([k EXCEPT !.sndBuf = q])
  PROVE  /\ h \in Blocks /\ SendsWell(h, F) /\ Keeps(h, r)
         /\ k.una <= h.una /\ h.nxt = k.nxt /\ h.sndQ = k.sndQ /\ h.rmt = k.rmt
         /\ SameReceiver(k, h) /\ h.tell = k.tell /\ h.asking = k.asking
<1>. DEFINE p == k.sndBuf
            u == IF q = <<>> THEN k.nxt ELSE q[1].sn
<1>1. /\ h.una = u /\ h.sndBuf = q /\ h.nxt = k.nxt /\ h.sndQ = k.sndQ /\ h.rmt = k.rmt
      /\ SameReceiver(k, h) /\ h.tell = k.tell /\ h.asking = k.asking
  BY DEF Blocks, KcpCb, Shrink, SameReceiver
<1>2. /\ Len(p) \in Nat /\ Len(q) \in Nat /\ k.una \in Nat /\ k.nxt \in Nat
      /\ \A i \in 1 .. Len(p) : p[i].sn \in Nat
      /\ \A i \in 1 .. Len(q) : q[i].sn \in Sn /\ q[i].sn \in Nat
      /\ q # <<>> => 1 \in 1 .. Len(q)
  <2>1. q \in Seq(InFlight(Units))
    BY DEF Thinned
  <2>2. Len(q) \in Nat /\ \A i \in 1 .. Len(q) : q[i] \in InFlight(Units)
    BY <2>1, LenProperties, ElementOfSeq
  <2>3. q # <<>> => Len(q) # 0
    BY <2>1, EmptySeq
  <2>4. \A x \in InFlight(Units) : x.sn \in Sn /\ x.sn \in Nat
    BY SnIsNat DEF InFlight
  <2>. QED  BY <2>2, <2>3, <2>4, BlockQueues
<1>3. PICK m \in [1 .. Len(q) -> 1 .. Len(p)] :
        /\ \A i \in 1 .. Len(q) :
             q[i].sn = p[m[i]].sn /\ q[i].unit = p[m[i]].unit /\ q[i].frg = p[m[i]].frg
        /\ \A i, j \in 1 .. Len(q) : i < j => m[i] < m[j]
  BY DEF Thinned
<1>4. \A i \in 1 .. Len(q) : Fits(q[i], F) /\ k.una <= q[i].sn /\ q[i].sn < k.nxt
  <2>1. ASSUME NEW i \in 1 .. Len(q) PROVE Fits(q[i], F) /\ k.una <= q[i].sn /\ q[i].sn < k.nxt
    <3>1. m[i] \in 1 .. Len(p)
      BY <1>3
    <3>2. Fits(p[m[i]], F) /\ k.una <= p[m[i]].sn /\ p[m[i]].sn < k.nxt
      BY <3>1 DEF SendsWell
    <3>. QED  BY <1>3, <3>2 DEF Fits
  <2>. QED  BY <2>1
<1>5. \A i, j \in 1 .. Len(q) : i < j => q[i].sn < q[j].sn
  <2>1. ASSUME NEW i \in 1 .. Len(q), NEW j \in 1 .. Len(q), i < j PROVE q[i].sn < q[j].sn
    <3>1. m[i] \in 1 .. Len(p) /\ m[j] \in 1 .. Len(p) /\ m[i] < m[j]
      BY <1>3, <2>1
    <3>2. p[m[i]].sn < p[m[j]].sn
      BY <3>1 DEF SendsWell
    <3>. QED  BY <1>3, <3>2
  <2>. QED  BY <2>1
<1>6. /\ u \in Sn /\ u \in Nat /\ k.una <= u /\ u <= k.nxt
      /\ \A i \in 1 .. Len(q) : u <= q[i].sn
  <2>1. CASE q = <<>>
    <3>1. u = k.nxt /\ Len(q) = 0
      BY <2>1
    <3>. QED  BY <1>2, <3>1, BlockFields DEF SendsWell
  <2>2. CASE q # <<>>
    <3>1. u = q[1].sn /\ 1 \in 1 .. Len(q)
      BY <1>2, <2>2
    <3>2. \A i \in 1 .. Len(q) : u <= q[i].sn
      <4>1. ASSUME NEW i \in 1 .. Len(q) PROVE u <= q[i].sn
        <5>1. CASE i = 1
          BY <1>2, <3>1, <5>1
        <5>2. CASE i # 1
          <6>1. 1 < i /\ 1 \in 1 .. Len(q)
            BY <1>2, <3>1, <5>2
          <6>2. q[1].sn < q[i].sn
            BY <1>5, <6>1
          <6>3. q[1].sn \in Nat /\ q[i].sn \in Nat
            BY <1>2, <6>1
          <6>. QED  BY <3>1, <6>2, <6>3
        <5>. QED  BY <5>1, <5>2
      <4>. QED  BY <4>1
    <3>. HIDE DEF u
    <3>. QED  BY <1>2, <1>4, <3>1, <3>2
  <2>. QED  BY <2>1, <2>2
<1>7. SendsWell(h, F)
  <2>1. h.una <= h.nxt /\ h.nxt <= h.una + Ahead
    <3>1. k.nxt <= k.una + Ahead /\ Ahead \in Nat
      BY Consts DEF SendsWell
    <3>. HIDE DEF u
    <3>. QED  BY <1>1, <1>2, <1>6, <3>1
  <2>2. \A i \in 1 .. Len(h.sndBuf) :
          Fits(h.sndBuf[i], F) /\ h.una <= h.sndBuf[i].sn /\ h.sndBuf[i].sn < h.nxt
    <3>. HIDE DEF u
    <3>. QED  BY <1>1, <1>4, <1>6
  <2>. QED  BY <1>1, <1>5, <2>1, <2>2 DEF SendsWell
<1>8. Keeps(h, r)
  <2>1. ASSUME NEW n \in 0 .. k.nxt - 1
        PROVE  Has(r, n) \/ \E i \in 1 .. Len(q) : q[i].sn = n
    <3>1. CASE Has(r, n)
      BY <3>1
    <3>2. CASE \E i \in 1 .. Len(p) : p[i].sn = n
      <4>1. PICK i \in 1 .. Len(p) : p[i].sn = n
        BY <3>2
      <4>. QED  BY <4>1 DEF Thinned
    <3>. QED  BY <3>1, <3>2 DEF Keeps
  <2>. QED  BY <1>1, <2>1 DEF Keeps
<1>9. h \in Blocks
  <2>1. q \in Seq(InFlight(Units))
    BY DEF Thinned
  <2>2. h = [k EXCEPT !.sndBuf = q, !.una = u]
    BY DEF Blocks, KcpCb, Shrink
  <2>. HIDE DEF u
  <2>. QED  BY <1>6, <2>1, <2>2 DEF Blocks, KcpCb
<1>. QED  BY <1>1, <1>6, <1>7, <1>8, <1>9

\* The first of a set of numbers that holds with a number all those before it.
LEMMA FirstOnes ==
  ASSUME NEW n \in Nat, NEW S, S \subseteq 1 .. n, \A x \in S : \A y \in 1 .. x : y \in S
  PROVE  S = 1 .. Cardinality(S) /\ Cardinality(S) \in 0 .. n
<1>1. CASE S = {}
  <2>1. Cardinality(S) = 0
    BY <1>1, FS_EmptySet
  <2>. QED  BY <1>1, <2>1
<1>2. CASE S # {}
  <2>1. Max(S) \in S /\ \A y \in S : Max(S) >= y
    BY <1>2, GreatestExists
  <2>2. S = 1 .. Max(S) /\ Max(S) \in 1 .. n
    <3>. DEFINE x == Max(S)
    <3>1. x \in S /\ x \in 1 .. n /\ \A y \in S : x >= y
      BY <2>1
    <3>. HIDE DEF x
    <3>2. \A y \in 1 .. x : y \in S
      BY <3>1
    <3>3. S \subseteq 1 .. x
      BY <3>1
    <3>. QED  BY <3>1, <3>2, <3>3 DEF x
  <2>3. Cardinality(1 .. Max(S)) = Max(S)
    <3>1. Max(S) \in Nat /\ Max(S) >= 1
      BY <2>2
    <3>. QED  BY <3>1, FS_Interval
  <2>. QED  BY <2>2, <2>3
<1>. QED  BY <1>1, <1>2

\* ikcp_parse_una drops only what has arrived.
LEMMA ParseUnaThins ==
  ASSUME NEW k \in Blocks, NEW F, NEW r, SendsWell(k, F), 2 * k.nxt < SnMod,
         NEW una \in Nat, 2 * una < SnMod, r.rcvNxt \in Nat, una <= r.rcvNxt
  PROVE  \E q : ParseUna(k, una) = [k EXCEPT !.sndBuf = q] /\ Thinned(k.sndBuf, q, r)
<1>. DEFINE p == k.sndBuf
            acked == {i \in DOMAIN p : Diff(una, p[i].sn) > 0}
            c == Cardinality(acked)
            q == SubSeq(p, c + 1, Len(p))
<1>1. /\ Len(p) \in Nat /\ DOMAIN p = 1 .. Len(p) /\ p \in Seq(InFlight(Units))
      /\ \A i \in 1 .. Len(p) : p[i] \in InFlight(Units) /\ p[i].sn \in Nat
      /\ \A i \in 1 .. Len(p) : 2 * p[i].sn < SnMod
      /\ k.nxt \in Nat
  <2>1. /\ Len(p) \in Nat /\ DOMAIN p = 1 .. Len(p) /\ p \in Seq(InFlight(Units))
        /\ \A i \in 1 .. Len(p) : p[i] \in InFlight(Units)
        /\ k.nxt \in Nat
    BY BlockQueues, BlockFields
  <2>2. \A x \in InFlight(Units) : x.sn \in Nat
    BY SnIsNat DEF InFlight
  <2>3. \A i \in 1 .. Len(p) : p[i].sn < k.nxt
    BY DEF SendsWell
  <2>. QED  BY <2>1, <2>2, <2>3, Consts
<1>2. \A i \in 1 .. Len(p) : Diff(una, p[i].sn) = una - p[i].sn
  BY <1>1, DiffIs
<1>3. \A i \in 1 .. Len(p) : i \in acked <=> p[i].sn < una
  BY <1>1, <1>2
<1>4. \A i, j \in 1 .. Len(p) : i < j => p[i].sn < p[j].sn
  BY DEF SendsWell
<1>5. acked = 1 .. c /\ c \in 0 .. Len(p)
  <2>1. acked \subseteq 1 .. Len(p)
    BY <1>1
  <2>. HIDE DEF acked
  <2>2. ASSUME NEW x \in acked, NEW y \in 1 .. x PROVE y \in acked
    <3>1. x \in 1 .. Len(p) /\ y \in 1 .. Len(p) /\ p[x].sn < una
      BY <1>1, <1>3, <2>1
    <3>2. CASE y = x
      BY <3>2
    <3>3. CASE y # x
      <4>1. y < x
        BY <3>1, <3>3
      <4>2. p[y].sn < p[x].sn /\ p[y].sn \in Nat /\ p[x].sn \in Nat
        BY <1>1, <1>4, <3>1, <4>1
      <4>. QED  BY <1>3, <3>1, <4>2
    <3>. QED  BY <3>2, <3>3
  <2>. QED  BY <1>1, <2>1, <2>2, FirstOnes
<1>. HIDE DEF acked, c
<1>6. /\ q \in Seq(InFlight(Units)) /\ Len(q) = Len(p) - c
      /\ \A i \in 1 .. Len(p) - c : q[i] = p[c + i]
  <2>1. \A i \in c + 1 .. Len(p) : p[i] \in InFlight(Units)
    BY <1>1, <1>5
  <2>2. c + 1 \in Int /\ Len(p) \in Int
    BY <1>1, <1>5
  <2>3. /\ q \in Seq(InFlight(Units))
        /\ Len(q) = IF c + 1 <= Len(p) THEN Len(p) - (c + 1) + 1 ELSE 0
        /\ \A i \in 1 .. Len(p) - (c + 1) + 1 : q[i] = p[c + 1 + i - 1]
    BY <2>1, <2>2, SubSeqProperties, SMTT(30)
  <2>. HIDE DEF q
  <2>. QED  BY <1>1, <1>5, <2>3
<1>7. ParseUna(k, una) = [k EXCEPT !.sndBuf = q]
  BY DEF ParseUna, acked, c, Blocks, KcpCb
<1>. HIDE DEF q
<1>8. Thinned(p, q, r)
  <2>. DEFINE m == [i \in 1 .. Len(q) |-> c + i]
  <2>1. m \in [1 .. Len(q) -> 1 .. Len(p)]
    BY <1>1, <1>5, <1>6
  <2>2. \A i \in 1 .. Len(q) :
          q[i].sn = p[m[i]].sn /\ q[i].unit = p[m[i]].unit /\ q[i].frg = p[m[i]].frg
    BY <1>1, <1>5, <1>6
  <2>3. \A i, j \in 1 .. Len(q) : i < j => m[i] < m[j]
    BY <1>5
  <2>4. ASSUME NEW i \in 1 .. Len(p)
        PROVE  Has(r, p[i].sn) \/ \E j \in 1 .. Len(q) : q[j].sn = p[i].sn
    <3>1. CASE i \in acked
      <4>1. p[i].sn < una
        BY <1>3, <3>1
      <4>. QED  BY <1>1, <4>1 DEF Has
    <3>2. CASE i \notin acked
      <4>1. i - c \in 1 .. Len(q) /\ c + (i - c) = i
        BY <1>1, <1>5, <1>6, <3>2
      <4>2. q[i - c] = p[i]
        BY <1>6, <4>1
      <4>. QED  BY <4>1, <4>2
    <3>. QED  BY <3>1, <3>2
  <2>. HIDE DEF m
  <2>. QED  BY <1>6, <2>1, <2>2, <2>3, <2>4 DEF Thinned
<1>. QED  BY <1>7, <1>8

\* ikcp_parse_ack drops only what has arrived.
LEMMA ParseAckThins ==
  ASSUME NEW k \in Blocks, NEW F, NEW r, SendsWell(k, F), NEW sn \in Nat, Has(r, sn)
  PROVE  \/ ParseAck(k, sn) = k
         \/ \E q : ParseAck(k, sn) = [k EXCEPT !.sndBuf = q] /\ Thinned(k.sndBuf, q, r)
<1>. DEFINE p == k.sndBuf
            Pass(s) == [s EXCEPT !.fast = Min({s.fast + 1, FastResend})]
            at == {i \in DOMAIN p : p[i].sn = sn}
            n == IF at = {} THEN Len(p) + 1 ELSE CHOOSE i \in at : TRUE
            a == [i \in 1 .. n - 1 |-> Pass(p[i])]
            b == SubSeq(p, n + 1, Len(p))
            q == a \o b
<1>1. /\ Len(p) \in Nat /\ DOMAIN p = 1 .. Len(p) /\ p \in Seq(InFlight(Units))
      /\ \A i \in 1 .. Len(p) : p[i] \in InFlight(Units)
  BY BlockQueues, BlockFields
<1>2. ParseAck(k, sn) = k \/ ParseAck(k, sn) = [k EXCEPT !.sndBuf = q]
  BY DEF ParseAck, Blocks, KcpCb
<1>3. /\ n \in 1 .. Len(p) + 1
      /\ n \in 1 .. Len(p) => p[n].sn = sn
      /\ n = Len(p) + 1 => at = {}
  <2>1. at \subseteq 1 .. Len(p)
    BY <1>1
  <2>2. CASE at = {}
    BY <1>1, <2>2
  <2>3. CASE at # {}
    <3>1. n \in at
      BY <2>3
    <3>2. p[n].sn = sn
      BY <3>1
    <3>3. n \in 1 .. Len(p)
      BY <2>1, <3>1
    <3>. QED  BY <1>1, <3>2, <3>3
  <2>. QED  BY <2>2, <2>3
<1>. HIDE DEF n
<1>4. \A s \in InFlight(Units) :
        Pass(s) \in InFlight(Units) /\ Pass(s).sn = s.sn /\ Pass(s).unit = s.unit /\ Pass(s).frg = s.frg
  <2>1. ASSUME NEW s \in InFlight(Units)
        PROVE  Pass(s) \in InFlight(Units) /\ Pass(s).sn = s.sn /\ Pass(s).unit = s.unit /\ Pass(s).frg = s.frg
    <3>1. s.fast \in 0 .. FastResend
      BY DEF InFlight
    <3>2. Min({s.fast + 1, FastResend}) = IF s.fast + 1 <= FastResend THEN s.fast + 1 ELSE FastResend
      <4>1. s.fast + 1 \in Int /\ FastResend \in Int
        BY <3>1, Consts
      <4>. QED  BY <4>1, LeastOfTwo
    <3>3. Min({s.fast + 1, FastResend}) \in 0 .. FastResend
      BY <3>1, <3>2, Consts
    <3>. QED  BY <3>3 DEF InFlight
  <2>. QED  BY <2>1
<1>. HIDE DEF Pass
<1>5. a \in Seq(InFlight(Units)) /\ Len(a) = n - 1 /\ \A i \in 1 .. n - 1 : a[i] = Pass(p[i])
  <2>1. \A i \in 1 .. n - 1 : Pass(p[i]) \in InFlight(Units)
    BY <1>1, <1>3, <1>4
  <2>2. a \in [1 .. n - 1 -> InFlight(Units)] /\ n - 1 \in Nat
    BY <1>1, <1>3, <2>1
  <2>3. a \in Seq(InFlight(Units))
    BY <2>2, SeqDef
  <2>4. DOMAIN a = 1 .. n - 1
    OBVIOUS
  <2>5. Len(a) = n - 1
    <3>. HIDE DEF a
    <3>. QED  BY <2>2, <2>3, <2>4, LenProperties
  <2>. QED  BY <2>3, <2>5
<1>6. /\ b \in Seq(InFlight(Units))
      /\ Len(b) = IF n <= Len(p) THEN Len(p) - n ELSE 0
      /\ \A i \in 1 .. Len(p) - n : b[i] = p[n + i]
  <2>1. n + 1 \in Int /\ Len(p) \in Int /\ \A i \in n + 1 .. Len(p) : p[i] \in InFlight(Units)
    BY <1>1, <1>3
  <2>2. /\ b \in Seq(InFlight(Units))
        /\ Len(b) = IF n + 1 <= Len(p) THEN Len(p) - (n + 1) + 1 ELSE 0
        /\ \A i \in 1 .. Len(p) - (n + 1) + 1 : b[i] = p[n + 1 + i - 1]
    BY <2>1, SubSeqProperties
  <2>. HIDE DEF b
  <2>. QED  BY <1>1, <1>3, <2>2
<1>. HIDE DEF a, b
<1>7. /\ q \in Seq(InFlight(Units)) /\ Len(q) = Len(a) + Len(b)
      /\ \A i \in 1 .. Len(a) : q[i] = a[i]
      /\ \A i \in 1 .. Len(b) : q[Len(a) + i] = b[i]
  <2>1. a \in Seq(InFlight(Units)) /\ b \in Seq(InFlight(Units))
    BY <1>5, <1>6
  <2>. QED  BY <2>1, ConcatAt
<1>. HIDE DEF q
<1>8. Thinned(p, q, r)
  <2>. DEFINE m == [i \in 1 .. Len(q) |-> IF i < n THEN i ELSE i + 1]
  <2>0. /\ n \in Nat /\ n >= 1 /\ n <= Len(p) + 1 /\ Len(a) = n - 1
        /\ Len(q) = IF n <= Len(p) THEN Len(p) - 1 ELSE Len(p)
    BY <1>1, <1>3, <1>5, <1>6, <1>7, SMTT(30)
  <2>1. m \in [1 .. Len(q) -> 1 .. Len(p)]
    BY <1>1, <2>0
  <2>2. ASSUME NEW i \in 1 .. Len(q)
        PROVE  q[i].sn = p[m[i]].sn /\ q[i].unit = p[m[i]].unit /\ q[i].frg = p[m[i]].frg
    <3>1. CASE i < n
      <4>1. i \in 1 .. n - 1 /\ i \in 1 .. Len(p) /\ m[i] = i
        BY <1>1, <2>0, <3>1
      <4>2. q[i] = Pass(p[i])
        BY <1>5, <1>7, <2>0, <4>1
      <4>. QED  BY <1>1, <1>4, <4>1, <4>2
    <3>2. CASE ~(i < n)
      <4>1. n <= Len(p) /\ i - Len(a) \in 1 .. Len(b) /\ i - Len(a) \in 1 .. Len(p) - n
            /\ Len(a) + (i - Len(a)) = i /\ n + (i - Len(a)) = i + 1 /\ m[i] = i + 1
        BY <1>1, <1>6, <2>0, <3>2
      <4>2. q[i] = b[i - Len(a)]
        BY <1>7, <4>1
      <4>3. b[i - Len(a)] = p[i + 1]
        BY <1>6, <4>1
      <4>. QED  BY <4>1, <4>2, <4>3
    <3>. QED  BY <3>1, <3>2
  <2>3. \A i, j \in 1 .. Len(q) : i < j => m[i] < m[j]
    BY <2>0
  <2>4. ASSUME NEW i \in 1 .. Len(p)
        PROVE  Has(r, p[i].sn) \/ \E j \in 1 .. Len(q) : q[j].sn = p[i].sn
    <3>1. CASE i = n
      BY <1>3, <3>1
    <3>2. CASE i < n
      <4>1. i \in 1 .. Len(q) /\ m[i] = i
        BY <1>1, <2>0, <3>2
      <4>. QED  BY <2>2, <4>1
    <3>3. CASE i > n
      <4>1. i - 1 \in 1 .. Len(q) /\ m[i - 1] = i
        BY <1>1, <2>0, <3>3
      <4>. QED  BY <2>2, <4>1
    <3>. QED  BY <2>0, <3>1, <3>2, <3>3
  <2>. HIDE DEF m
  <2>. QED  BY <1>7, <2>1, <2>2, <2>3, <2>4 DEF Thinned
<1>. QED  BY <1>2, <1>8

-----------------------------------------------------------------------------
(* Arrival.                                                                *)

\* The first number that is in S, or m.
LEMMA FirstGap ==
  ASSUME NEW S, NEW m \in Nat
  PROVE  \E n \in 0 .. m : (\A i \in 0 .. n - 1 : i \notin S) /\ (n = m \/ n \in S)
<1>. DEFINE Gap(l, n) == (\A i \in 0 .. n - 1 : i \notin S) /\ (n = l \/ n \in S)
            P == {l \in Nat : \E n \in 0 .. l : Gap(l, n)}
<1>1. 0 \in P
  <2>1. Gap(0, 0)
    OBVIOUS
  <2>. HIDE DEF Gap
  <2>. QED  BY <2>1
<1>2. ASSUME NEW l \in Nat, l \in P PROVE l + 1 \in P
  <2>1. PICK n \in 0 .. l : Gap(l, n)
    BY <1>2
  <2>2. CASE n \in S
    <3>1. Gap(l + 1, n) /\ n \in 0 .. l + 1
      BY <2>1, <2>2
    <3>. HIDE DEF Gap
    <3>. QED  BY <3>1
  <2>3. CASE n \notin S
    <3>1. n = l
      BY <2>1, <2>3
    <3>2. \A i \in 0 .. l : i \notin S
      BY <2>1, <2>3, <3>1
    <3>3. Gap(l + 1, l + 1) /\ l + 1 \in 0 .. l + 1
      BY <3>2
    <3>. HIDE DEF Gap
    <3>. QED  BY <3>3
  <2>. QED  BY <2>2, <2>3
<1>3. m \in P
  <2>. HIDE DEF P
  <2>. QED  BY <1>1, <1>2, Induction
<1>. QED  BY <1>3

\* What comes after l others.
LEMMA Behind ==
  ASSUME NEW g \in Nat, NEW l \in Nat, NEW n \in Nat, NEW i \in Nat, i > l, i <= l + n
  PROVE  i - l \in 1 .. n /\ l + (i - l) = i /\ g + l + (i - l) = g + i
OBVIOUS

\* What arrives in order moves to rcv_queue, and nothing else changes.
LEMMA MoveReadyIs ==
  ASSUME NEW k \in Blocks, NEW given \in Nat, NEW F, NEW top, Small(top),
         ReceivesWell(k, given, F, top), NEW h, h = MoveReady(k)
  PROVE  /\ h \in Blocks /\ ReceivesWell(h, given, F, top)
         /\ \A n \in Nat : Has(k, n) => Has(h, n)
         /\ k.rcvNxt <= h.rcvNxt
         /\ SameSender(k, h) /\ h.rmt = k.rmt /\ h.acks = k.acks /\ h.tell = k.tell
<1>. DEFINE At(i) == {s \in k.rcvBuf : s.sn = Plus(k.rcvNxt, i)}
            room == RcvWnd - Len(k.rcvQ)
            Gap(l) == /\ \A i \in 0 .. l - 1 : At(i) # {}
                      /\ l = room \/ At(l) = {}
            n == CHOOSE l \in 0 .. room : Gap(l)
            Unit(i) == CHOOSE s \in At(i - 1) : TRUE
            moved == [i \in 1 .. n |-> [frg |-> Unit(i).frg, unit |-> Unit(i).unit]]
            left == {s \in k.rcvBuf : Diff(s.sn, k.rcvNxt) >= n}
            q == k.rcvQ \o moved
<1>1. /\ Len(k.rcvQ) \in Nat /\ k.rcvNxt \in Nat /\ k.rcvBuf \in SUBSET Stored(Units)
      /\ k.rcvQ \in Seq(Queued(Units)) /\ RcvWnd \in Nat /\ top \in Nat
      /\ Len(k.rcvQ) <= RcvWnd /\ k.rcvNxt = given + Len(k.rcvQ) /\ k.rcvNxt <= top
      /\ 2 * (top + RcvWnd) < SnMod /\ SnMod \in Nat
  BY BlockQueues, BlockFields, Consts DEF ReceivesWell, Small
<1>2. h = [k EXCEPT !.rcvQ = q, !.rcvBuf = left, !.rcvNxt = Plus(k.rcvNxt, n)]
  BY DEF MoveReady, Blocks, KcpCb
<1>3. room \in Nat /\ room <= RcvWnd
  BY <1>1
<1>4. n \in 0 .. room /\ Gap(n)
  <2>1. \E l \in 0 .. room : Gap(l)
    <3>. DEFINE S == {i \in Nat : At(i) = {}}
    <3>1. PICK l \in 0 .. room : (\A i \in 0 .. l - 1 : i \notin S) /\ (l = room \/ l \in S)
      <4>. HIDE DEF S, room
      <4>. QED  BY <1>3, FirstGap
    <3>2. \A i \in 0 .. l - 1 : i \in Nat
      BY <1>3
    <3>3. Gap(l)
      <4>. HIDE DEF At, room
      <4>. QED  BY <3>1, <3>2
    <3>. HIDE DEF Gap
    <3>. QED  BY <3>3
  <2>. HIDE DEF Gap, room
  <2>. QED  BY <2>1
<1>5. \A i \in 0 .. RcvWnd : Plus(k.rcvNxt, i) = k.rcvNxt + i /\ Plus(k.rcvNxt, i) \in Sn
  <2>1. ASSUME NEW i \in 0 .. RcvWnd
        PROVE  Plus(k.rcvNxt, i) = k.rcvNxt + i /\ Plus(k.rcvNxt, i) \in Sn
    <3>1. i \in Nat /\ k.rcvNxt + i < SnMod
      BY <1>1
    <3>. QED  BY <1>1, <3>1, PlusIs
  <2>. QED  BY <2>1
<1>6. \A s \in k.rcvBuf : /\ s \in Stored(Units) /\ s.sn \in Nat /\ 2 * s.sn < SnMod
                          /\ Fits(s, F) /\ k.rcvNxt <= s.sn /\ s.sn < k.rcvNxt + RcvWnd /\ s.sn < top
  <2>1. ASSUME NEW s \in k.rcvBuf
        PROVE  /\ s \in Stored(Units) /\ s.sn \in Nat /\ 2 * s.sn < SnMod
               /\ Fits(s, F) /\ k.rcvNxt <= s.sn /\ s.sn < k.rcvNxt + RcvWnd /\ s.sn < top
    <3>1. s \in Stored(Units) /\ s.sn \in Nat
      BY <1>1, SnIsNat DEF Stored
    <3>2. Fits(s, F) /\ k.rcvNxt <= s.sn /\ s.sn < k.rcvNxt + RcvWnd /\ s.sn < top
      BY DEF ReceivesWell
    <3>. QED  BY <1>1, <3>1, <3>2
  <2>. QED  BY <2>1
<1>7. \A i \in 1 .. n :
        /\ Unit(i) \in k.rcvBuf /\ Unit(i).sn = k.rcvNxt + i - 1
  <2>1. ASSUME NEW i \in 1 .. n PROVE Unit(i) \in k.rcvBuf /\ Unit(i).sn = k.rcvNxt + i - 1
    <3>1. i - 1 \in 0 .. n - 1 /\ i - 1 \in 0 .. RcvWnd /\ i \in Nat
      <4>. HIDE DEF n, room
      <4>1. n \in 0 .. room
        BY <1>4
      <4>. QED  BY <1>1, <1>3, <4>1
    <3>2. At(i - 1) # {}
      <4>. HIDE DEF n, room, At
      <4>. QED  BY <1>4, <3>1
    <3>3. Unit(i) \in At(i - 1)
      BY <3>2
    <3>4. Unit(i) \in k.rcvBuf /\ Unit(i).sn = Plus(k.rcvNxt, i - 1)
      <4>. HIDE DEF Unit
      <4>. QED  BY <3>3
    <3>. HIDE DEF Unit
    <3>. QED  BY <1>1, <1>5, <3>1, <3>4
  <2>. QED  BY <2>1
<1>. HIDE DEF n, Unit, At
<1>8. \A s \in k.rcvBuf : Diff(s.sn, k.rcvNxt) = s.sn - k.rcvNxt
  BY <1>1, <1>6, DiffIs
<1>9. /\ n \in Nat /\ n <= RcvWnd /\ Len(k.rcvQ) + n <= RcvWnd
      /\ k.rcvNxt + n <= top /\ Plus(k.rcvNxt, n) = k.rcvNxt + n /\ k.rcvNxt + n \in Sn
  <2>1. n \in Nat /\ n <= RcvWnd /\ Len(k.rcvQ) + n <= RcvWnd
    BY <1>1, <1>3, <1>4
  <2>2. CASE n = 0
    BY <1>1, <1>5, <2>1, <2>2
  <2>3. CASE n # 0
    <3>1. n \in 1 .. n
      BY <2>1, <2>3
    <3>2. Unit(n).sn = k.rcvNxt + n - 1 /\ Unit(n).sn < top
      BY <1>6, <1>7, <3>1
    <3>. QED  BY <1>1, <1>5, <2>1, <3>2
  <2>. QED  BY <2>2, <2>3
<1>10. /\ q \in Seq(Queued(Units)) /\ Len(q) = Len(k.rcvQ) + n
       /\ \A i \in 1 .. Len(q) : q[i].unit = given + i /\ q[i].frg = F[given + i]
  <2>1. ASSUME NEW i \in 1 .. n
        PROVE  moved[i] \in Queued(Units) /\ moved[i].unit = given + Len(k.rcvQ) + i
               /\ moved[i].frg = F[given + Len(k.rcvQ) + i]
    <3>1. /\ Unit(i) \in Stored(Units) /\ Unit(i).sn = k.rcvNxt + i - 1
          /\ Unit(i).unit = Unit(i).sn + 1 /\ Unit(i).frg = F[Unit(i).unit]
      BY <1>6, <1>7 DEF Fits
    <3>2. Unit(i).unit = given + Len(k.rcvQ) + i
      BY <1>1, <1>9, <3>1
    <3>. QED  BY <3>1, <3>2 DEF Stored, Queued
  <2>2. moved \in [1 .. n -> Queued(Units)]
    BY <2>1
  <2>3. moved \in Seq(Queued(Units)) /\ Len(moved) = n
    <3>1. moved \in Seq(Queued(Units))
      BY <1>9, <2>2, SeqDef
    <3>2. DOMAIN moved = 1 .. n
      OBVIOUS
    <3>. HIDE DEF moved
    <3>. QED  BY <1>9, <2>2, <3>1, <3>2, LenProperties
  <2>. HIDE DEF moved
  <2>4. /\ q \in Seq(Queued(Units)) /\ Len(q) = Len(k.rcvQ) + n
        /\ \A i \in 1 .. Len(k.rcvQ) : q[i] = k.rcvQ[i]
        /\ \A i \in 1 .. n : q[Len(k.rcvQ) + i] = moved[i]
    <3>1. k.rcvQ \in Seq(Queued(Units)) /\ moved \in Seq(Queued(Units))
      BY <1>1, <2>3
    <3>2. /\ q \in Seq(Queued(Units)) /\ Len(q) = Len(k.rcvQ) + Len(moved)
          /\ \A i \in 1 .. Len(k.rcvQ) : q[i] = k.rcvQ[i]
          /\ \A i \in 1 .. Len(moved) : q[Len(k.rcvQ) + i] = moved[i]
      BY <3>1, ConcatAt
    <3>. HIDE DEF q
    <3>. QED  BY <2>3, <3>2
  <2>. HIDE DEF q
  <2>5. ASSUME NEW i \in 1 .. Len(q) PROVE q[i].unit = given + i /\ q[i].frg = F[given + i]
    <3>1. CASE i <= Len(k.rcvQ)
      <4>1. i \in 1 .. Len(k.rcvQ)
        BY <3>1
      <4>2. k.rcvQ[i].unit = given + i /\ k.rcvQ[i].frg = F[given + i]
        BY <4>1 DEF ReceivesWell
      <4>. QED  BY <2>4, <4>1, <4>2
    <3>2. CASE i > Len(k.rcvQ)
      <4>. DEFINE l == Len(k.rcvQ)
                  j == i - l
      <4>1. l \in Nat /\ n \in Nat /\ given \in Nat /\ i \in Nat /\ i > l /\ i <= l + n
        <5>1. Len(q) = l + n /\ l \in Nat /\ n \in Nat
          BY <1>1, <1>9, <2>4
        <5>2. i <= Len(q) /\ i \in Nat
          BY <5>1
        <5>. QED  BY <3>2, <5>1, <5>2
      <4>2. \A x \in 1 .. n : q[l + x] = moved[x]
        BY <2>4
      <4>. HIDE DEF l
      <4>3. j \in 1 .. n /\ l + j = i /\ given + l + j = given + i
        BY <4>1, Behind
      <4>. HIDE DEF j
      <4>4. q[i] = moved[j]
        BY <4>2, <4>3
      <4>5. moved[j].unit = given + l + j /\ moved[j].frg = F[given + l + j]
        BY <2>1, <4>3 DEF l
      <4>. QED  BY <4>3, <4>4, <4>5
    <3>. QED  BY <1>1, <2>4, <3>1, <3>2
  <2>. QED  BY <2>4, <2>5
<1>. HIDE DEF q, room
<1>11. /\ h.rcvQ = q /\ h.rcvBuf = left /\ h.rcvNxt = k.rcvNxt + n
       /\ SameSender(k, h) /\ h.rmt = k.rmt /\ h.acks = k.acks /\ h.tell = k.tell
  <2>. HIDE DEF left
  <2>. QED  BY <1>2, <1>9 DEF Blocks, KcpCb, SameSender
<1>12. left \subseteq k.rcvBuf /\ \A s \in k.rcvBuf : s \in left <=> s.sn >= k.rcvNxt + n
  BY <1>1, <1>6, <1>8, <1>9
<1>. HIDE DEF left
<1>13. h \in Blocks
  <2>1. left \in SUBSET Stored(Units)
    BY <1>1, <1>12
  <2>. QED  BY <1>2, <1>9, <1>10, <2>1, ZenonT(60) DEF Blocks, KcpCb
<1>14. \A m \in Nat : Has(k, m) => Has(h, m)
  <2>1. ASSUME NEW m \in Nat, Has(k, m) PROVE Has(h, m)
    <3>1. CASE m < k.rcvNxt + n
      BY <1>11, <3>1 DEF Has
    <3>2. CASE ~(m < k.rcvNxt + n)
      <4>1. ~(m < k.rcvNxt)
        BY <1>1, <1>9, <3>2
      <4>2. PICK s \in k.rcvBuf : s.sn = m
        BY <2>1, <4>1 DEF Has
      <4>3. s \in left
        BY <1>1, <1>9, <1>12, <3>2, <4>2
      <4>. QED  BY <1>11, <4>2, <4>3 DEF Has
    <3>. QED  BY <3>1, <3>2
  <2>. QED  BY <2>1
<1>15. ReceivesWell(h, given, F, top)
  <2>1. Len(h.rcvQ) <= RcvWnd /\ h.rcvNxt = given + Len(h.rcvQ) /\ h.rcvNxt <= top
    <3>1. Len(h.rcvQ) = Len(k.rcvQ) + n /\ h.rcvNxt = k.rcvNxt + n
      BY <1>10, <1>11
    <3>. QED  BY <1>1, <1>9, <3>1
  <2>2. \A i \in 1 .. Len(h.rcvQ) :
          h.rcvQ[i].unit = given + i /\ h.rcvQ[i].frg = F[given + i]
    BY <1>10, <1>11
  <2>3. \A x \in h.rcvBuf :
          Fits(x, F) /\ h.rcvNxt <= x.sn /\ x.sn < h.rcvNxt + RcvWnd /\ x.sn < top
    <3>1. ASSUME NEW x \in left
          PROVE  Fits(x, F) /\ k.rcvNxt + n <= x.sn /\ x.sn < k.rcvNxt + n + RcvWnd /\ x.sn < top
      <4>1. x \in k.rcvBuf /\ x.sn >= k.rcvNxt + n
        BY <1>12
      <4>2. Fits(x, F) /\ x.sn \in Nat /\ x.sn < k.rcvNxt + RcvWnd /\ x.sn < top
        BY <1>6, <4>1
      <4>. QED  BY <1>1, <1>9, <4>1, <4>2
    <3>. QED  BY <1>11, <3>1
  <2>4. \A i \in 1 .. Len(h.acks) : Has(h, h.acks[i])
    <3>1. \A i \in 1 .. Len(k.acks) : Has(k, k.acks[i]) /\ k.acks[i] \in Nat
      BY BlockQueues, SnIsNat DEF ReceivesWell
    <3>. QED  BY <1>11, <1>14, <3>1
  <2>. QED  BY <2>1, <2>2, <2>3, <2>4 DEF ReceivesWell
<1>. QED  BY <1>1, <1>9, <1>11, <1>13, <1>14, <1>15

\* Numbers up to a small one are small, and so is what a window adds to them.
LEMMA Halves ==
  ASSUME NEW a \in Nat, NEW b \in Nat, NEW w \in Nat, NEW m \in Nat, a <= b, 2 * (b + w) < m
  PROVE  2 * a < m /\ 2 * (a + w) < m /\ a + w < m /\ a + w \in Nat
OBVIOUS

\* A PUSH of what was sent is acknowledged and stored, if it is in the window.
LEMMA PushArrives ==
  ASSUME NEW k \in Blocks, NEW given \in Nat, NEW F, NEW top, Small(top),
         ReceivesWell(k, given, F, top),
         NEW s, s.sn \in Sn, s.frg \in Frgs, s.sn < top, Fits(s, F),
         NEW h, h = ParsePush(k, s)
  PROVE  /\ h \in Blocks /\ ReceivesWell(h, given, F, top)
         /\ \A n \in Nat : Has(k, n) => Has(h, n)
         /\ k.rcvNxt <= h.rcvNxt
         /\ SameSender(k, h) /\ h.rmt = k.rmt /\ h.tell = k.tell
<1>. DEFINE a == Append(k.acks, s.sn)
            acked == [k EXCEPT !.acks = a]
            x == [sn |-> s.sn, frg |-> s.frg, unit |-> s.unit]
            b == IF \E r \in k.rcvBuf : r.sn = s.sn THEN k.rcvBuf ELSE k.rcvBuf \cup {x}
            k1 == [k EXCEPT !.acks = a, !.rcvBuf = b]
<1>1. /\ k.rcvNxt \in Nat /\ k.rcvBuf \in SUBSET Stored(Units) /\ k.acks \in Seq(Sn)
      /\ top \in Nat /\ k.rcvNxt <= top /\ 2 * (top + RcvWnd) < SnMod /\ SnMod \in Nat
      /\ RcvWnd \in Nat /\ RcvWnd > 0 /\ s.sn \in Nat
  BY BlockQueues, BlockFields, Consts, SnIsNat DEF ReceivesWell, Small
<1>2. /\ a \in Seq(Sn) /\ Len(a) = Len(k.acks) + 1 /\ Len(k.acks) \in Nat
      /\ \A i \in 1 .. Len(k.acks) : a[i] = k.acks[i]
      /\ a[Len(k.acks) + 1] = s.sn
  <2>1. k.acks \in Seq(Sn) /\ s.sn \in Sn
    BY <1>1
  <2>. QED  BY <2>1, AppendProperties, LenProperties
<1>. HIDE DEF a
<1>3. /\ acked \in Blocks /\ acked.acks = a /\ acked.rcvBuf = k.rcvBuf
      /\ acked.rcvNxt = k.rcvNxt /\ acked.rcvQ = k.rcvQ
      /\ SameSender(k, acked) /\ acked.rmt = k.rmt /\ acked.tell = k.tell
  BY <1>2 DEF Blocks, KcpCb, SameSender
<1>4. /\ Plus(k.rcvNxt, RcvWnd) = k.rcvNxt + RcvWnd
      /\ Diff(s.sn, Plus(k.rcvNxt, RcvWnd)) = s.sn - (k.rcvNxt + RcvWnd)
      /\ Diff(s.sn, k.rcvNxt) = s.sn - k.rcvNxt
  <2>1. k.rcvNxt + RcvWnd < SnMod /\ 2 * s.sn < SnMod /\ 2 * k.rcvNxt < SnMod
        /\ 2 * (k.rcvNxt + RcvWnd) < SnMod /\ k.rcvNxt + RcvWnd \in Nat
    <3>1. 2 * k.rcvNxt < SnMod /\ 2 * (k.rcvNxt + RcvWnd) < SnMod /\ k.rcvNxt + RcvWnd < SnMod
      BY <1>1, Halves
    <3>2. 2 * s.sn < SnMod
      <4>1. s.sn <= top
        BY <1>1
      <4>. QED  BY <1>1, <4>1, Halves
    <3>. QED  BY <1>1, <3>1, <3>2
  <2>2. Plus(k.rcvNxt, RcvWnd) = k.rcvNxt + RcvWnd
    BY <1>1, <2>1, PlusIs
  <2>. QED  BY <1>1, <2>1, <2>2, DiffIs
<1>5. CASE s.sn >= k.rcvNxt + RcvWnd
  <2>1. h = k
    BY <1>1, <1>4, <1>5 DEF ParsePush
  <2>. QED  BY <1>1, <2>1 DEF SameSender
<1>6. CASE s.sn < k.rcvNxt
  <2>1. h = acked
    <3>1. h = [k EXCEPT !.acks = Append(k.acks, s.sn)]
      BY <1>1, <1>4, <1>6 DEF ParsePush, Blocks, KcpCb
    <3>. QED  BY <3>1 DEF a
  <2>. HIDE DEF acked
  <2>2. \A n : Has(k, n) <=> Has(h, n)
    BY <1>3, <2>1 DEF Has
  <2>3. \A i \in 1 .. Len(a) : Has(h, a[i])
    <3>1. \A i \in 1 .. Len(k.acks) : Has(k, k.acks[i])
      BY DEF ReceivesWell
    <3>2. Has(h, s.sn)
      BY <1>3, <1>6, <2>1 DEF Has
    <3>3. ASSUME NEW i \in 1 .. Len(a) PROVE Has(h, a[i])
      <4>1. i \in 1 .. Len(k.acks) \/ i = Len(k.acks) + 1
        BY <1>2
      <4>. QED  BY <1>2, <2>2, <3>1, <3>2, <4>1
    <3>. QED  BY <3>3
  <2>4. ReceivesWell(h, given, F, top)
    BY <1>3, <2>1, <2>3 DEF ReceivesWell
  <2>. QED  BY <1>1, <1>3, <2>1, <2>2, <2>4, SMTT(30)
<1>7. CASE ~ (s.sn >= k.rcvNxt + RcvWnd) /\ ~ (s.sn < k.rcvNxt)
  <2>1. h = MoveReady(k1)
    <3>1. h = ParseData([k EXCEPT !.acks = a], x)
      BY <1>1, <1>4, <1>7 DEF ParsePush, a, Blocks, KcpCb
    <3>2. ParseData(acked, x) = MoveReady(IF \E r \in acked.rcvBuf : r.sn = x.sn THEN acked
                                          ELSE [acked EXCEPT !.rcvBuf = acked.rcvBuf \cup {x}])
      BY <1>3 DEF ParseData, Blocks, KcpCb
    <3>3. x.sn = s.sn
      OBVIOUS
    <3>4. (\E r \in k.rcvBuf : r.sn = s.sn) => k1 = acked
      BY DEF Blocks, KcpCb
    <3>5. ~(\E r \in k.rcvBuf : r.sn = s.sn) => k1 = [acked EXCEPT !.rcvBuf = k.rcvBuf \cup {x}]
      BY DEF Blocks, KcpCb
    <3>. HIDE DEF k1, x, acked, b
    <3>. QED  BY <1>3, <3>1, <3>2, <3>3, <3>4, <3>5 DEF acked
  <2>2. s.unit \in Units /\ x \in Stored(Units)
    <3>1. s.unit = s.sn + 1 /\ s.unit \in 1 .. top
      BY <1>1 DEF Fits
    <3>2. s.unit \in Units
      BY <3>1 DEF Small
    <3>. QED  BY <3>2 DEF Stored
  <2>3. /\ x.sn = s.sn /\ Fits(x, F)
    BY DEF Fits
  <2>. HIDE DEF x
  <2>4. /\ b \in SUBSET Stored(Units) /\ k.rcvBuf \subseteq b
        /\ \A y \in b : y \in k.rcvBuf \/ y = x
        /\ \E y \in b : y.sn = s.sn
    BY <1>1, <2>2, <2>3
  <2>. HIDE DEF b
  <2>5. /\ k1 \in Blocks /\ k1.acks = a /\ k1.rcvBuf = b
        /\ k1.rcvNxt = k.rcvNxt /\ k1.rcvQ = k.rcvQ
        /\ SameSender(k, k1) /\ k1.rmt = k.rmt /\ k1.tell = k.tell
    BY <1>2, <2>4 DEF Blocks, KcpCb, SameSender
  <2>. HIDE DEF k1
  <2>6. \A n : Has(k, n) => Has(k1, n)
    BY <2>4, <2>5 DEF Has
  <2>7. Has(k1, s.sn)
    BY <2>4, <2>5 DEF Has
  <2>8. \A i \in 1 .. Len(a) : Has(k1, a[i])
    <3>1. \A i \in 1 .. Len(k.acks) : Has(k, k.acks[i])
      BY DEF ReceivesWell
    <3>3. ASSUME NEW i \in 1 .. Len(a) PROVE Has(k1, a[i])
      <4>1. i \in 1 .. Len(k.acks) \/ i = Len(k.acks) + 1
        BY <1>2
      <4>. QED  BY <1>2, <2>6, <2>7, <3>1, <4>1
    <3>. QED  BY <3>3
  <2>9. \A y \in b : Fits(y, F) /\ k.rcvNxt <= y.sn /\ y.sn < k.rcvNxt + RcvWnd /\ y.sn < top
    <3>1. Fits(x, F) /\ k.rcvNxt <= x.sn /\ x.sn < k.rcvNxt + RcvWnd /\ x.sn < top
      BY <1>1, <1>7, <2>3
    <3>. QED  BY <2>4, <3>1 DEF ReceivesWell
  <2>10. ReceivesWell(k1, given, F, top)
    BY <2>5, <2>8, <2>9 DEF ReceivesWell
  <2>11. /\ h \in Blocks /\ ReceivesWell(h, given, F, top)
         /\ \A n \in Nat : Has(k1, n) => Has(h, n)
         /\ k1.rcvNxt <= h.rcvNxt
         /\ SameSender(k1, h) /\ h.rmt = k1.rmt /\ h.tell = k1.tell
    BY <2>1, <2>5, <2>10, MoveReadyIs
  <2>. QED  BY <2>5, <2>6, <2>11 DEF SameSender
<1>. QED  BY <1>1, <1>5, <1>6, <1>7

-----------------------------------------------------------------------------
(* ikcp_input.                                                             *)

\* What may become of k0 as it hears what p says.  F and G cut the units that k0
\* and p send.
Heard(k0, p, F, G, given) ==
  {k \in Blocks :
     /\ SendsWell(k, F) /\ Keeps(k, p) /\ ReceivesWell(k, given, G, p.nxt) /\ Keeps(p, k)
     /\ k.nxt = k0.nxt /\ k.sndQ = k0.sndQ /\ k0.rcvNxt <= k.rcvNxt
     /\ \A n \in Nat : Has(k0, n) => Has(k, n)}

\* A step from one to the next changes the receiver, the sender or neither.
LEMMA HearsOn ==
  ASSUME NEW k0 \in Blocks, NEW p \in Blocks, NEW F, NEW G, NEW given \in Nat,
         NEW k \in Heard(k0, p, F, G, given), NEW h \in Blocks,
         SendsWell(h, F), Keeps(h, p), ReceivesWell(h, given, G, p.nxt),
         h.nxt = k.nxt, h.sndQ = k.sndQ, k.rcvNxt <= h.rcvNxt,
         \A n \in Nat : Has(k, n) => Has(h, n)
  PROVE  h \in Heard(k0, p, F, G, given)
<1>1. /\ k0.rcvNxt \in Nat /\ k.rcvNxt \in Nat /\ h.rcvNxt \in Nat /\ p.nxt \in Nat
      /\ k \in Blocks /\ k.nxt = k0.nxt /\ k.sndQ = k0.sndQ /\ k0.rcvNxt <= k.rcvNxt
      /\ Keeps(p, k) /\ \A n \in Nat : Has(k0, n) => Has(k, n)
  BY BlockQueues DEF Heard
<1>2. Keeps(p, h)
  <2>1. \A n \in 0 .. p.nxt - 1 : n \in Nat
    BY <1>1
  <2>. QED  BY <1>1, <2>1 DEF Keeps
<1>3. k0.rcvNxt <= h.rcvNxt
  BY <1>1
<1>. QED  BY <1>1, <1>2, <1>3 DEF Heard

\* The header of every segment: the window, and what has arrived.
LEMMA HeaderHeard ==
  ASSUME NEW k0 \in Blocks, NEW p \in Blocks, NEW F, NEW G, NEW given \in Nat,
         Small(k0.nxt), p.rcvNxt <= k0.nxt,
         NEW k \in Heard(k0, p, F, G, given), NEW wnd \in 0 .. RcvWnd,
         NEW una \in Nat, una <= p.rcvNxt,
         NEW h, h = Shrink(ParseUna([k EXCEPT !.rmt = wnd], una))
  PROVE  h \in Heard(k0, p, F, G, given)
<1>. DEFINE k1 == [k EXCEPT !.rmt = wnd]
<1>1. /\ k \in Blocks /\ SendsWell(k, F) /\ Keeps(k, p) /\ ReceivesWell(k, given, G, p.nxt)
      /\ k.nxt = k0.nxt
  BY DEF Heard
<1>2. k1 \in Blocks /\ SameSender(k, k1) /\ SameReceiver(k, k1)
  BY <1>1 DEF Blocks, KcpCb, SameSender, SameReceiver
<1>. HIDE DEF k1
<1>3. SendsWell(k1, F) /\ Keeps(k1, p) /\ ReceivesWell(k1, given, G, p.nxt)
      /\ \A n : Has(k, n) <=> Has(k1, n)
  BY <1>1, <1>2, StillSends, StillReceives
<1>4. /\ p.rcvNxt \in Nat /\ 2 * k1.nxt < SnMod /\ 2 * una < SnMod
      /\ k1.nxt = k.nxt /\ k1.sndQ = k.sndQ /\ k1.rcvNxt = k.rcvNxt /\ k.rcvNxt \in Nat
  <2>1. k1.nxt = k.nxt /\ k1.sndQ = k.sndQ /\ k1.rcvNxt = k.rcvNxt
    BY <1>2 DEF SameSender, SameReceiver
  <2>2. p.rcvNxt \in Nat /\ k.rcvNxt \in Nat /\ k0.nxt \in Nat
    BY <1>1, BlockQueues
  <2>3. 2 * (k0.nxt + RcvWnd) < SnMod /\ SnMod \in Nat /\ RcvWnd \in Nat /\ una <= k0.nxt
        /\ k0.nxt <= k0.nxt
    BY <2>2, Consts DEF Small
  <2>4. 2 * una < SnMod /\ 2 * k0.nxt < SnMod
    BY <2>2, <2>3, Halves
  <2>. QED  BY <1>1, <2>1, <2>2, <2>4
<1>5. PICK q : ParseUna(k1, una) = [k1 EXCEPT !.sndBuf = q] /\ Thinned(k1.sndBuf, q, p)
  BY <1>2, <1>3, <1>4, ParseUnaThins
<1>6. h = Shrink([k1 EXCEPT !.sndBuf = q])
  BY <1>5 DEF k1
<1>7. /\ h \in Blocks /\ SendsWell(h, F) /\ Keeps(h, p)
      /\ h.nxt = k1.nxt /\ h.sndQ = k1.sndQ /\ SameReceiver(k1, h)
  BY <1>2, <1>3, <1>5, <1>6, ThinnedIs
<1>8. ReceivesWell(h, given, G, p.nxt) /\ \A n : Has(k1, n) <=> Has(h, n)
  BY <1>3, <1>7, StillReceives
<1>9. h.rcvNxt = k1.rcvNxt
  BY <1>7 DEF SameReceiver
<1>10. h.nxt = k.nxt /\ h.sndQ = k.sndQ /\ k.rcvNxt <= h.rcvNxt /\ \A n \in Nat : Has(k, n) => Has(h, n)
  BY <1>3, <1>4, <1>7, <1>8, <1>9
<1>. QED  BY <1>7, <1>8, <1>10, HearsOn

\* One turn of the loop of ikcp_input.
LEMMA InputSegHeard ==
  ASSUME NEW k0 \in Blocks, NEW p \in Blocks, NEW F, NEW G, NEW given \in Nat,
         Small(k0.nxt), Small(p.nxt), p.rcvNxt <= k0.nxt,
         NEW k \in Heard(k0, p, F, G, given), NEW s \in Said(p, G)
  PROVE  InputSeg(k, s) \in Heard(k0, p, F, G, given)
<1>. DEFINE heard == Shrink(ParseUna([k EXCEPT !.rmt = s.wnd], s.una))
<1>1. /\ s.cmd \in {"ACK", "PUSH", "WASK", "WINS"} /\ s.sn \in Sn /\ s.frg \in Frgs
      /\ s.wnd \in 0 .. RcvWnd /\ s.una \in Sn /\ s.una <= p.rcvNxt
      /\ s.cmd = "PUSH" => s.sn < p.nxt /\ Fits(s, G)
      /\ s.cmd = "ACK" => Has(p, s.sn)
  BY DEF Said
<1>2. s.sn \in Nat /\ s.una \in Nat
  BY <1>1, SnIsNat
<1>3. heard \in Heard(k0, p, F, G, given)
  BY <1>1, <1>2, HeaderHeard
<1>4. InputSeg(k, s) = CASE s.cmd = "ACK"  -> Shrink(ParseAck(heard, s.sn))
                         [] s.cmd = "PUSH" -> ParsePush(heard, s)
                         [] s.cmd = "WASK" -> [heard EXCEPT !.tell = TRUE]
                         [] s.cmd = "WINS" -> heard
  BY DEF InputSeg
<1>. HIDE DEF heard
<1>5. /\ heard \in Blocks /\ SendsWell(heard, F) /\ Keeps(heard, p)
      /\ ReceivesWell(heard, given, G, p.nxt) /\ heard.rcvNxt \in Nat
  BY <1>3, BlockQueues DEF Heard
<1>6. CASE s.cmd = "ACK"
  <2>. DEFINE h == Shrink(ParseAck(heard, s.sn))
  <2>1. InputSeg(k, s) = h
    BY <1>4, <1>6
  <2>2. CASE ParseAck(heard, s.sn) = heard
    <3>1. heard.una = IF heard.sndBuf = <<>> THEN heard.nxt ELSE heard.sndBuf[1].sn
      BY <1>5 DEF SendsWell
    <3>2. h = [heard EXCEPT !.una = heard.una]
      BY <2>2, <3>1 DEF Shrink
    <3>3. [heard EXCEPT !.una = heard.una] = heard
      BY <1>5 DEF Blocks, KcpCb
    <3>. QED  BY <1>3, <2>1, <3>2, <3>3
  <2>3. CASE \E q : ParseAck(heard, s.sn) = [heard EXCEPT !.sndBuf = q] /\ Thinned(heard.sndBuf, q, p)
    <3>1. PICK q : ParseAck(heard, s.sn) = [heard EXCEPT !.sndBuf = q] /\ Thinned(heard.sndBuf, q, p)
      BY <2>3
    <3>2. h = Shrink([heard EXCEPT !.sndBuf = q])
      BY <3>1
    <3>. HIDE DEF h
    <3>3. /\ h \in Blocks /\ SendsWell(h, F) /\ Keeps(h, p)
          /\ h.nxt = heard.nxt /\ h.sndQ = heard.sndQ /\ SameReceiver(heard, h)
      BY <1>5, <3>1, <3>2, ThinnedIs
    <3>4. ReceivesWell(h, given, G, p.nxt) /\ \A n : Has(heard, n) <=> Has(h, n)
      BY <1>5, <3>3, StillReceives
    <3>5. heard.rcvNxt <= h.rcvNxt
      BY <1>5, <3>3 DEF SameReceiver
    <3>6. h \in Heard(k0, p, F, G, given)
      BY <1>3, <3>3, <3>4, <3>5, HearsOn
    <3>. QED  BY <2>1, <3>6
  <2>. HIDE DEF h
  <2>. QED  BY <1>1, <1>2, <1>5, <1>6, <2>2, <2>3, ParseAckThins
<1>7. CASE s.cmd = "PUSH"
  <2>. DEFINE h == ParsePush(heard, s)
  <2>1. InputSeg(k, s) = h
    BY <1>4, <1>7
  <2>2. s.sn < p.nxt /\ Fits(s, G)
    BY <1>1, <1>7
  <2>3. /\ h \in Blocks /\ ReceivesWell(h, given, G, p.nxt)
        /\ \A n \in Nat : Has(heard, n) => Has(h, n)
        /\ heard.rcvNxt <= h.rcvNxt /\ SameSender(heard, h)
    BY <1>1, <1>5, <2>2, PushArrives
  <2>. HIDE DEF h
  <2>4. SendsWell(h, F) /\ Keeps(h, p) /\ h.nxt = heard.nxt /\ h.sndQ = heard.sndQ
    <3>1. h.nxt = heard.nxt /\ h.sndQ = heard.sndQ
      BY <2>3 DEF SameSender
    <3>. QED  BY <1>5, <2>3, <3>1, StillSends
  <2>5. h \in Heard(k0, p, F, G, given)
    BY <1>3, <2>3, <2>4, HearsOn
  <2>. QED  BY <2>1, <2>5
<1>8. CASE s.cmd = "WASK"
  <2>. DEFINE h == [heard EXCEPT !.tell = TRUE]
  <2>1. InputSeg(k, s) = h
    BY <1>4, <1>8
  <2>2. h \in Blocks /\ SameSender(heard, h) /\ SameReceiver(heard, h)
    BY <1>5 DEF Blocks, KcpCb, SameSender, SameReceiver
  <2>. HIDE DEF h
  <2>3. /\ SendsWell(h, F) /\ Keeps(h, p) /\ ReceivesWell(h, given, G, p.nxt)
        /\ \A n : Has(heard, n) <=> Has(h, n)
    BY <1>5, <2>2, StillSends, StillReceives
  <2>4. h.nxt = heard.nxt /\ h.sndQ = heard.sndQ /\ heard.rcvNxt <= h.rcvNxt
    BY <1>5, <2>2 DEF SameSender, SameReceiver
  <2>5. h \in Heard(k0, p, F, G, given)
    BY <1>3, <2>2, <2>3, <2>4, HearsOn
  <2>. QED  BY <2>1, <2>5
<1>9. CASE s.cmd = "WINS"
  BY <1>3, <1>4, <1>9
<1>. QED  BY <1>1, <1>6, <1>7, <1>8, <1>9

\* What a fold computes stays in a set that holds its base and is closed.
LEMMA TurnsStay ==
  ASSUME NEW A, NEW n \in Nat, NEW f, f[{}] \in A,
         \A T \in SUBSET (1 .. n) : T # {} /\ f[T \ {Max(T)}] \in A => f[T] \in A
  PROVE  f[1 .. n] \in A
<1>. DEFINE P == {m \in Nat : m <= n => f[1 .. m] \in A}
<1>1. 0 \in P
  <2>1. 1 .. 0 = {}
    OBVIOUS
  <2>. QED  BY <2>1
<1>2. ASSUME NEW m \in Nat, m \in P PROVE m + 1 \in P
  <2>1. ASSUME m + 1 <= n PROVE f[1 .. m + 1] \in A
    <3>. DEFINE T == 1 .. m + 1
    <3>1. T # {} /\ Max(T) = m + 1 /\ T \ {m + 1} = 1 .. m
      BY UpToNext
    <3>2. f[1 .. m] \in A
      BY <1>2, <2>1
    <3>3. T \in SUBSET (1 .. n)
      BY <2>1
    <3>. HIDE DEF T
    <3>4. f[T \ {Max(T)}] \in A
      BY <3>1, <3>2
    <3>5. f[T] \in A
      BY <3>1, <3>3, <3>4
    <3>. QED  BY <3>5 DEF T
  <2>. QED  BY <2>1
<1>3. n \in P
  <2>. HIDE DEF P
  <2>. QED  BY <1>1, <1>2, Induction
<1>. QED  BY <1>3

\* The whole of ikcp_input: a datagram of what p has said.
LEMMA InputHeard ==
  ASSUME NEW k0 \in Blocks, NEW p \in Blocks, NEW F, NEW G, NEW given \in Nat,
         Small(k0.nxt), Small(p.nxt), p.rcvNxt <= k0.nxt,
         SendsWell(k0, F), Keeps(k0, p), ReceivesWell(k0, given, G, p.nxt), Keeps(p, k0),
         NEW d \in Seq(Said(p, G))
  PROVE  Input(k0, d) \in Heard(k0, p, F, G, given)
<1>. DEFINE n == Len(d)
            B == DOMAIN d
            A == Heard(k0, p, F, G, given)
            step == [x \in A \X (1 .. n) |-> InputSeg(x[1], d[x[2]])]
            IsTurns(g) == g = [T \in SUBSET B |->
                                 IF T = {} THEN k0 ELSE InputSeg(g[T \ {Max(T)}], d[Max(T)])]
            turns == CHOOSE g : IsTurns(g)
<1>1. n \in Nat /\ B = 1 .. n /\ \A i \in 1 .. n : d[i] \in Said(p, G)
  BY LenProperties, ElementOfSeq
<1>2. Input(k0, d) = turns[B]
  BY DEF Input, FoldLeft, MapThenFoldSet
<1>3. k0 \in A
  <2>1. k0.rcvNxt \in Nat
    BY BlockQueues
  <2>. QED  BY <2>1 DEF Heard
<1>4. \A k \in A, s \in Said(p, G) : InputSeg(k, s) \in A
  BY InputSegHeard
<1>. HIDE DEF B, A
<1>5. step \in [A \X (1 .. n) -> A]
  BY <1>1, <1>4
<1>6. \A k \in A, i \in 1 .. n : step[<<k, i>>] = InputSeg(k, d[i])
  OBVIOUS
<1>. HIDE DEF step, n
<1>7. PICK g : Turns(g, A, k0, n, step)
  BY <1>1, <1>3, <1>5, TurnsExist
<1>8. \A T \in SUBSET B : T # {} => Max(T) \in 1 .. n /\ T \ {Max(T)} \in SUBSET B
  <2>1. ASSUME NEW T \in SUBSET B, T # {} PROVE Max(T) \in 1 .. n
    <3>1. T \subseteq 1 .. n
      BY <1>1
    <3>2. Max(T) \in T
      BY <1>1, <2>1, <3>1, GreatestExists
    <3>. QED  BY <3>1, <3>2
  <2>. QED  BY <2>1
<1>9. IsTurns(g)
  <2>1. ASSUME NEW T \in SUBSET B
        PROVE  g[T] = IF T = {} THEN k0 ELSE InputSeg(g[T \ {Max(T)}], d[Max(T)])
    <3>1. g[T] = Turn(g, k0, step, T)
      BY <1>1, <1>7 DEF Turns
    <3>2. CASE T = {}
      BY <3>1, <3>2 DEF Turn
    <3>3. CASE T # {}
      <4>1. g[T \ {Max(T)}] \in A /\ Max(T) \in 1 .. n
        BY <1>1, <1>7, <1>8, <3>3 DEF Turns
      <4>2. g[T] = step[<<g[T \ {Max(T)}], Max(T)>>]
        BY <3>1, <3>3 DEF Turn
      <4>. QED  BY <1>6, <3>3, <4>1, <4>2
    <3>. QED  BY <3>2, <3>3
  <2>2. g = [T \in SUBSET B |-> g[T]]
    BY <1>1, <1>7 DEF Turns
  <2>. QED  BY <2>1, <2>2
<1>10. IsTurns(turns)
  <2>. HIDE DEF IsTurns
  <2>. QED  BY <1>9
<1>. HIDE DEF turns
<1>11. \A T \in SUBSET B : turns[T] = IF T = {} THEN k0 ELSE InputSeg(turns[T \ {Max(T)}], d[Max(T)])
  BY <1>10
<1>12. turns[1 .. n] \in A
  <2>1. turns[{}] \in A
    BY <1>3, <1>11
  <2>2. \A T \in SUBSET (1 .. n) : T # {} /\ turns[T \ {Max(T)}] \in A => turns[T] \in A
    <3>1. ASSUME NEW T \in SUBSET (1 .. n), T # {}, turns[T \ {Max(T)}] \in A PROVE turns[T] \in A
      <4>1. T \in SUBSET B /\ Max(T) \in 1 .. n
        BY <1>1, <1>8, <3>1
      <4>2. turns[T] = InputSeg(turns[T \ {Max(T)}], d[Max(T)])
        BY <1>11, <3>1, <4>1
      <4>3. d[Max(T)] \in Said(p, G)
        BY <1>1, <4>1 DEF n
      <4>. QED  BY <1>4, <3>1, <4>2, <4>3
    <3>. QED  BY <3>1
  <2>. HIDE DEF IsTurns
  <2>. QED  BY <1>1, <2>1, <2>2, TurnsStay
<1>. QED  BY <1>1, <1>2, <1>12 DEF A

-----------------------------------------------------------------------------
(* ikcp_flush.                                                             *)

\* How many units get a number.
LEMMA RoomIs ==
  ASSUME NEW k \in Blocks, NEW F, SendsWell(k, F), Small(k.nxt + Len(k.sndQ)),
         NEW n, n = Max({0, Min({Diff(Plus(k.una, Window(k)), k.nxt), Len(k.sndQ)})})
  PROVE  /\ n \in Nat /\ n <= Len(k.sndQ) /\ k.nxt + n <= k.una + Ahead
         /\ \A i \in 0 .. n : Plus(k.nxt, i) = k.nxt + i /\ Plus(k.nxt, i) \in Sn
<1>1. /\ k.nxt \in Nat /\ k.una \in Nat /\ Len(k.sndQ) \in Nat /\ k.una <= k.nxt
      /\ k.nxt <= k.una + Ahead /\ k.rmt \in Nat
      /\ RcvWnd \in Nat /\ SndWnd \in Nat /\ SnMod \in Nat /\ k.rmt <= RcvWnd
      /\ 2 * (k.nxt + Len(k.sndQ) + RcvWnd) < SnMod
  BY BlockQueues, BlockFields, Consts DEF SendsWell, Small
<1>. DEFINE w == Window(k)
            l == Len(k.sndQ)
            room == Diff(Plus(k.una, w), k.nxt)
            least == Min({room, l})
<1>2. w \in Nat /\ w <= Ahead /\ w <= RcvWnd
  <2>1. w = IF SndWnd <= k.rmt THEN SndWnd ELSE k.rmt
    BY <1>1, LeastOfTwo DEF Window
  <2>2. Ahead = IF SndWnd <= RcvWnd THEN SndWnd ELSE RcvWnd
    BY <1>1, LeastOfTwo DEF Ahead
  <2>. QED  BY <1>1, <2>1, <2>2
<1>. HIDE DEF w
<1>3. room = k.una + w - k.nxt
  <2>1. /\ k.una + w < SnMod /\ 2 * (k.una + w) < SnMod /\ 2 * k.nxt < SnMod
        /\ k.una + w \in Nat
    <3>1. \A u, x, v, r, b, m \in Nat :
            u <= x /\ v <= r /\ 2 * (x + b + r) < m =>
              u + v < m /\ 2 * (u + v) < m /\ 2 * x < m /\ u + v \in Nat
      OBVIOUS
    <3>. QED  BY <1>1, <1>2, <3>1
  <2>2. Plus(k.una, w) = k.una + w
    BY <1>1, <1>2, <2>1, PlusIs
  <2>3. Diff(k.una + w, k.nxt) = (k.una + w) - k.nxt
    BY <1>1, <2>1, DiffIs
  <2>4. room = Diff(k.una + w, k.nxt)
    BY <2>2
  <2>. QED  BY <1>1, <1>2, <2>3, <2>4
<1>. HIDE DEF room
<1>4. room \in Int /\ least = IF room <= l THEN room ELSE l
  <2>1. room \in Int /\ l \in Int
    BY <1>1, <1>2, <1>3
  <2>. QED  BY <2>1, LeastOfTwo
<1>. HIDE DEF least
<1>5. n = IF 0 >= least THEN 0 ELSE least
  <2>1. n = Max({0, least})
    BY DEF least, room, l, w
  <2>2. 0 \in Int /\ least \in Int
    BY <1>1, <1>4
  <2>3. Max({0, least}) = IF 0 >= least THEN 0 ELSE least
    BY <2>2, GreatestOfTwo
  <2>. QED  BY <2>1, <2>3
<1>6. n \in Nat /\ n <= l /\ k.nxt + n <= k.una + Ahead
  <2>1. Ahead \in Nat /\ l \in Nat
    BY <1>1, Consts
  <2>. HIDE DEF l
  <2>2. CASE n = 0
    BY <1>1, <2>1, <2>2
  <2>3. CASE n # 0
    <3>1. n = least /\ least > 0
      BY <1>4, <1>5, <2>1, <2>3
    <3>2. n <= room /\ n <= l /\ n \in Nat
      BY <1>4, <2>1, <3>1
    <3>. QED  BY <1>1, <1>2, <1>3, <2>1, <3>2
  <2>. QED  BY <2>2, <2>3
<1>7. ASSUME NEW i \in 0 .. n PROVE Plus(k.nxt, i) = k.nxt + i /\ Plus(k.nxt, i) \in Sn
  <2>1. i \in Nat /\ k.nxt + i < SnMod
    <3>1. i \in Nat /\ i <= l /\ l \in Nat
      BY <1>1, <1>6
    <3>2. \A x, y, z, r, m \in Nat : y <= z /\ 2 * (x + z + r) < m => x + y < m
      OBVIOUS
    <3>. QED  BY <1>1, <3>1, <3>2
  <2>. QED  BY <1>1, <2>1, PlusIs
<1>. QED  BY <1>6, <1>7

\* snd_queue moves to snd_buf, up to the window.
LEMMA NumberedIs ==
  ASSUME NEW k \in Blocks, NEW F, NEW p, SendsWell(k, F), Keeps(k, p),
         Small(k.nxt + Len(k.sndQ)), NEW h, h = Numbered(k)
  PROVE  /\ h \in Blocks /\ SendsWell(h, F) /\ Keeps(h, p) /\ SameReceiver(k, h)
         /\ k.nxt <= h.nxt /\ h.nxt + Len(h.sndQ) = k.nxt + Len(k.sndQ)
         /\ h.rmt = k.rmt
<1>. DEFINE n == Max({0, Min({Diff(Plus(k.una, Window(k)), k.nxt), Len(k.sndQ)})})
            new == [i \in 1 .. n |->
                      [sn |-> Plus(k.nxt, i - 1), frg |-> k.sndQ[i].frg,
                       unit |-> k.sndQ[i].unit, sent |-> FALSE, fast |-> 0]]
            q == k.sndBuf \o new
            rest == SubSeq(k.sndQ, n + 1, Len(k.sndQ))
<1>1. /\ k.nxt \in Nat /\ k.una \in Nat /\ Len(k.sndQ) \in Nat /\ k.una <= k.nxt
      /\ k.sndBuf \in Seq(InFlight(Units)) /\ Len(k.sndBuf) \in Nat
      /\ k.sndQ \in Seq(Queued(Units)) /\ FastResend \in Nat
      /\ \A i \in 1 .. Len(k.sndQ) : k.sndQ[i] \in Queued(Units)
  BY BlockQueues, BlockFields, Consts DEF SendsWell
<1>2. /\ n \in Nat /\ n <= Len(k.sndQ) /\ k.nxt + n <= k.una + Ahead
      /\ \A i \in 0 .. n : Plus(k.nxt, i) = k.nxt + i /\ Plus(k.nxt, i) \in Sn
  BY RoomIs
<1>3. h = [k EXCEPT !.sndBuf = q, !.sndQ = rest, !.nxt = Plus(k.nxt, n)]
  BY DEF Numbered, Blocks, KcpCb
<1>. HIDE DEF n
<1>4. /\ new \in Seq(InFlight(Units)) /\ Len(new) = n
      /\ \A i \in 1 .. n : /\ new[i].sn = k.nxt + i - 1 /\ new[i].unit = k.nxt + i
                           /\ new[i].frg = F[k.nxt + i]
  <2>1. ASSUME NEW i \in 1 .. n
        PROVE  /\ new[i] \in InFlight(Units)
               /\ new[i].sn = k.nxt + i - 1 /\ new[i].unit = k.nxt + i
               /\ new[i].frg = F[k.nxt + i]
    <3>1. i \in 1 .. Len(k.sndQ) /\ i - 1 \in 0 .. n
      BY <1>1, <1>2
    <3>2. k.sndQ[i] \in Queued(Units) /\ k.sndQ[i].unit = k.nxt + i /\ k.sndQ[i].frg = F[k.nxt + i]
      BY <1>1, <3>1 DEF SendsWell
    <3>3. Plus(k.nxt, i - 1) = k.nxt + i - 1 /\ Plus(k.nxt, i - 1) \in Sn
      <4>1. Plus(k.nxt, i - 1) = k.nxt + (i - 1) /\ Plus(k.nxt, i - 1) \in Sn
        BY <1>2, <3>1
      <4>. QED  BY <1>1, <3>1, <4>1
    <3>. QED  BY <1>1, <3>2, <3>3 DEF Queued, InFlight
  <2>2. new \in [1 .. n -> InFlight(Units)] /\ DOMAIN new = 1 .. n
    BY <2>1
  <2>. HIDE DEF new
  <2>3. new \in Seq(InFlight(Units))
    BY <1>2, <2>2, SeqDef
  <2>4. Len(new) = n
    BY <1>2, <2>2, <2>3, LenProperties
  <2>. QED  BY <2>1, <2>3, <2>4
<1>. HIDE DEF new
<1>5. /\ q \in Seq(InFlight(Units)) /\ Len(q) = Len(k.sndBuf) + n
      /\ \A i \in 1 .. Len(k.sndBuf) : q[i] = k.sndBuf[i]
      /\ \A i \in 1 .. n : q[Len(k.sndBuf) + i] = new[i]
  <2>1. k.sndBuf \in Seq(InFlight(Units)) /\ new \in Seq(InFlight(Units))
    BY <1>1, <1>4
  <2>2. /\ q \in Seq(InFlight(Units)) /\ Len(q) = Len(k.sndBuf) + Len(new)
        /\ \A i \in 1 .. Len(k.sndBuf) : q[i] = k.sndBuf[i]
        /\ \A i \in 1 .. Len(new) : q[Len(k.sndBuf) + i] = new[i]
    BY <2>1, ConcatAt
  <2>. HIDE DEF q
  <2>. QED  BY <1>4, <2>2
<1>. HIDE DEF q
<1>6. /\ rest \in Seq(Queued(Units)) /\ Len(rest) = Len(k.sndQ) - n
      /\ \A i \in 1 .. Len(rest) : rest[i] = k.sndQ[n + i]
  <2>1. n + 1 \in Int /\ Len(k.sndQ) \in Int /\ \A i \in n + 1 .. Len(k.sndQ) : k.sndQ[i] \in Queued(Units)
    BY <1>1, <1>2
  <2>2. /\ rest \in Seq(Queued(Units))
        /\ Len(rest) = IF n + 1 <= Len(k.sndQ) THEN Len(k.sndQ) - (n + 1) + 1 ELSE 0
        /\ \A i \in 1 .. Len(k.sndQ) - (n + 1) + 1 : rest[i] = k.sndQ[n + 1 + i - 1]
    BY <2>1, SubSeqProperties
  <2>. HIDE DEF rest
  <2>3. Len(rest) = Len(k.sndQ) - n
    BY <1>1, <1>2, <2>2
  <2>4. ASSUME NEW i \in 1 .. Len(rest) PROVE rest[i] = k.sndQ[n + i]
    <3>1. i \in 1 .. Len(k.sndQ) - (n + 1) + 1 /\ n + 1 + i - 1 = n + i
      BY <1>1, <1>2, <2>3
    <3>. QED  BY <2>2, <3>1
  <2>. QED  BY <2>2, <2>3, <2>4
<1>. HIDE DEF rest
<1>7. k.nxt + n \in Sn /\ k.nxt + n \in Nat /\ Plus(k.nxt, n) = k.nxt + n
  <2>1. n \in 0 .. n
    BY <1>2
  <2>2. Plus(k.nxt, n) = k.nxt + n /\ Plus(k.nxt, n) \in Sn
    BY <1>2, <2>1
  <2>. QED  BY <1>1, <1>2, <2>2
<1>8. /\ h.sndBuf = q /\ h.sndQ = rest /\ h.nxt = k.nxt + n /\ h.una = k.una /\ h.rmt = k.rmt
      /\ SameReceiver(k, h)
  BY <1>3, <1>7 DEF Blocks, KcpCb, SameReceiver
<1>9. h \in Blocks
  <2>. DEFINE v == Plus(k.nxt, n)
  <2>1. v \in Sn /\ q \in Seq(InFlight(Units)) /\ rest \in Seq(Queued(Units))
    BY <1>5, <1>6, <1>7
  <2>2. h = [k EXCEPT !.sndBuf = q, !.sndQ = rest, !.nxt = v]
    BY <1>3
  <2>. HIDE DEF v
  <2>. QED  BY <2>1, <2>2 DEF Blocks, KcpCb
<1>10. /\ \A i \in 1 .. Len(k.sndBuf) :
            Fits(k.sndBuf[i], F) /\ k.una <= k.sndBuf[i].sn /\ k.sndBuf[i].sn < k.nxt
            /\ k.sndBuf[i].sn \in Nat
  <2>1. \A x \in InFlight(Units) : x.sn \in Nat
    BY SnIsNat DEF InFlight
  <2>. QED  BY <2>1, BlockQueues DEF SendsWell
<1>11. \A i \in 1 .. n : /\ Fits(new[i], F) /\ k.nxt <= new[i].sn /\ new[i].sn < k.nxt + n
                         /\ new[i].sn \in Nat
  <2>1. ASSUME NEW i \in 1 .. n
        PROVE  /\ Fits(new[i], F) /\ k.nxt <= new[i].sn /\ new[i].sn < k.nxt + n
               /\ new[i].sn \in Nat
    <3>1. /\ new[i].sn = k.nxt + i - 1 /\ new[i].unit = k.nxt + i
          /\ new[i].frg = F[k.nxt + i]
      BY <1>4
    <3>2. i \in Nat /\ i >= 1 /\ i <= n /\ n \in Nat /\ k.nxt \in Nat
      BY <1>1, <1>2
    <3>3. new[i].unit = new[i].sn + 1
      BY <3>1, <3>2
    <3>4. k.nxt <= new[i].sn /\ new[i].sn < k.nxt + n /\ new[i].sn \in Nat
      BY <3>1, <3>2
    <3>. QED  BY <3>1, <3>3, <3>4 DEF Fits
  <2>. QED  BY <2>1
<1>12. \A i \in 1 .. Len(q) : \/ i \in 1 .. Len(k.sndBuf)
                              \/ i > Len(k.sndBuf) /\ \E j \in 1 .. n : i = Len(k.sndBuf) + j
  <2>1. ASSUME NEW i \in 1 .. Len(q), i > Len(k.sndBuf)
        PROVE  \E j \in 1 .. n : i = Len(k.sndBuf) + j
    <3>1. i \in Nat /\ i <= Len(k.sndBuf) + n
      BY <1>1, <1>2, <1>5
    <3>2. i - Len(k.sndBuf) \in 1 .. n /\ Len(k.sndBuf) + (i - Len(k.sndBuf)) = i
      BY <1>1, <1>2, <2>1, <3>1
    <3>. QED  BY <3>2
  <2>2. ASSUME NEW i \in 1 .. Len(q), ~(i > Len(k.sndBuf)) PROVE i \in 1 .. Len(k.sndBuf)
    <3>1. i \in Nat /\ i >= 1 /\ Len(q) \in Nat
      BY <1>1, <1>2, <1>5
    <3>. QED  BY <1>1, <2>2, <3>1
  <2>. QED  BY <2>1, <2>2
<1>13. \A i \in 1 .. Len(q) : Fits(q[i], F) /\ k.una <= q[i].sn /\ q[i].sn < k.nxt + n
  <2>1. ASSUME NEW i \in 1 .. Len(q)
        PROVE  Fits(q[i], F) /\ k.una <= q[i].sn /\ q[i].sn < k.nxt + n
    <3>1. CASE i \in 1 .. Len(k.sndBuf)
      <4>1. q[i] = k.sndBuf[i]
        BY <1>5, <3>1
      <4>2. Fits(k.sndBuf[i], F) /\ k.una <= k.sndBuf[i].sn /\ k.sndBuf[i].sn < k.nxt
            /\ k.sndBuf[i].sn \in Nat
        BY <1>10, <3>1
      <4>3. k.sndBuf[i].sn < k.nxt + n
        BY <1>1, <1>2, <4>2
      <4>. QED  BY <4>1, <4>2, <4>3
    <3>2. CASE \E j \in 1 .. n : i = Len(k.sndBuf) + j
      <4>1. PICK j \in 1 .. n : i = Len(k.sndBuf) + j
        BY <3>2
      <4>2. q[i] = new[j]
        BY <1>5, <4>1
      <4>3. Fits(new[j], F) /\ k.nxt <= new[j].sn /\ new[j].sn < k.nxt + n /\ new[j].sn \in Nat
        BY <1>11
      <4>4. k.una <= new[j].sn
        BY <1>1, <4>3
      <4>. QED  BY <4>2, <4>3, <4>4
    <3>. QED  BY <1>12, <3>1, <3>2
  <2>. QED  BY <2>1
<1>14. \A i, j \in 1 .. Len(q) : i < j => q[i].sn < q[j].sn
  <2>1. ASSUME NEW i \in 1 .. Len(q), NEW j \in 1 .. Len(q), i < j PROVE q[i].sn < q[j].sn
    <3>0. i \in Nat /\ j \in Nat
      OBVIOUS
    <3>1. CASE j \in 1 .. Len(k.sndBuf)
      <4>1. i \in 1 .. Len(k.sndBuf)
        BY <1>1, <2>1, <3>0, <3>1
      <4>2. k.sndBuf[i].sn < k.sndBuf[j].sn
        BY <2>1, <3>1, <4>1 DEF SendsWell
      <4>. QED  BY <1>5, <3>1, <4>1, <4>2
    <3>2. CASE \E y \in 1 .. n : j = Len(k.sndBuf) + y
      <4>1. PICK y \in 1 .. n : j = Len(k.sndBuf) + y
        BY <3>2
      <4>2. CASE i \in 1 .. Len(k.sndBuf)
        <5>1. q[i].sn < k.nxt /\ k.nxt <= q[j].sn /\ q[i].sn \in Nat /\ q[j].sn \in Nat
          BY <1>5, <1>10, <1>11, <4>1, <4>2
        <5>. QED  BY <1>1, <5>1
      <4>3. CASE \E x \in 1 .. n : i = Len(k.sndBuf) + x
        <5>1. PICK x \in 1 .. n : i = Len(k.sndBuf) + x
          BY <4>3
        <5>2. x < y
          BY <1>1, <2>1, <4>1, <5>1
        <5>3. q[i].sn = k.nxt + x - 1 /\ q[j].sn = k.nxt + y - 1
          BY <1>4, <1>5, <4>1, <5>1
        <5>4. k.nxt + x - 1 < k.nxt + y - 1
          BY <1>1, <5>2
        <5>. QED  BY <5>3, <5>4
      <4>. QED  BY <1>12, <4>2, <4>3
    <3>. QED  BY <1>12, <3>1, <3>2
  <2>. QED  BY <2>1
<1>15. h.nxt + Len(h.sndQ) = k.nxt + Len(k.sndQ)
  <2>1. h.nxt = k.nxt + n /\ Len(h.sndQ) = Len(k.sndQ) - n
    BY <1>6, <1>8
  <2>. QED  BY <1>1, <1>2, <2>1
<1>16. h.una = IF h.sndBuf = <<>> THEN h.nxt ELSE h.sndBuf[1].sn
  <2>0. k.una = IF k.sndBuf = <<>> THEN k.nxt ELSE k.sndBuf[1].sn
    BY DEF SendsWell
  <2>1. CASE k.sndBuf # <<>>
    <3>1. Len(k.sndBuf) # 0
      BY <1>1, <2>1, EmptySeq
    <3>2. 1 \in 1 .. Len(k.sndBuf) /\ Len(q) # 0
      BY <1>1, <1>2, <1>5, <3>1
    <3>3. q # <<>> /\ q[1] = k.sndBuf[1]
      BY <1>5, <3>2, EmptySeq
    <3>. QED  BY <1>8, <2>0, <2>1, <3>3
  <2>2. CASE k.sndBuf = <<>> /\ n # 0
    <3>1. Len(k.sndBuf) = 0
      BY <2>2
    <3>2. 1 \in 1 .. n /\ Len(q) # 0 /\ Len(k.sndBuf) + 1 = 1
      BY <1>1, <1>2, <1>5, <2>2, <3>1
    <3>3. q # <<>> /\ q[1] = new[1]
      BY <1>5, <3>2, EmptySeq
    <3>4. new[1].sn = k.nxt + 1 - 1
      BY <1>4, <3>2
    <3>5. k.nxt + 1 - 1 = k.nxt
      BY <1>1
    <3>. QED  BY <1>8, <2>0, <2>2, <3>3, <3>4, <3>5
  <2>3. CASE k.sndBuf = <<>> /\ n = 0
    <3>1. Len(k.sndBuf) = 0
      BY <2>3
    <3>2. Len(q) = 0 /\ k.nxt + n = k.nxt
      BY <1>1, <1>5, <2>3, <3>1
    <3>3. q = <<>>
      BY <1>5, <3>2, EmptySeq
    <3>. QED  BY <1>8, <2>0, <2>3, <3>2, <3>3
  <2>. QED  BY <2>1, <2>2, <2>3
<1>17. SendsWell(h, F)
  <2>1. h.una <= h.nxt /\ h.nxt <= h.una + Ahead
    BY <1>1, <1>2, <1>8
  <2>2. IsCut(F, h.nxt + Len(h.sndQ))
    BY <1>15 DEF SendsWell
  <2>3. ASSUME NEW i \in 1 .. Len(rest)
        PROVE  rest[i].unit = k.nxt + n + i /\ rest[i].frg = F[k.nxt + n + i]
    <3>1. n + i \in 1 .. Len(k.sndQ) /\ k.nxt + (n + i) = k.nxt + n + i
      BY <1>1, <1>2, <1>6
    <3>2. k.sndQ[n + i].unit = k.nxt + (n + i) /\ k.sndQ[n + i].frg = F[k.nxt + (n + i)]
      BY <3>1 DEF SendsWell
    <3>. QED  BY <1>6, <3>1, <3>2
  <2>. QED  BY <1>8, <1>13, <1>14, <1>16, <2>1, <2>2, <2>3 DEF SendsWell
<1>18. Keeps(h, p)
  <2>1. ASSUME NEW m \in 0 .. k.nxt + n - 1
        PROVE  Has(p, m) \/ \E i \in 1 .. Len(q) : q[i].sn = m
    <3>1. CASE m < k.nxt
      <4>1. m \in 0 .. k.nxt - 1
        BY <1>1, <3>1
      <4>2. Has(p, m) \/ \E i \in 1 .. Len(k.sndBuf) : k.sndBuf[i].sn = m
        BY <4>1 DEF Keeps
      <4>3. \A i \in 1 .. Len(k.sndBuf) : i \in 1 .. Len(q) /\ q[i] = k.sndBuf[i]
        BY <1>1, <1>2, <1>5
      <4>. QED  BY <4>2, <4>3
    <3>2. CASE ~(m < k.nxt)
      <4>. DEFINE j == m - k.nxt + 1
      <4>1. j \in 1 .. n /\ k.nxt + j - 1 = m
        BY <1>1, <1>2, <3>2
      <4>. HIDE DEF j
      <4>2. Len(k.sndBuf) + j \in 1 .. Len(q) /\ q[Len(k.sndBuf) + j] = new[j]
        BY <1>1, <1>2, <1>5, <4>1
      <4>3. new[j].sn = m
        BY <1>4, <4>1
      <4>. QED  BY <4>2, <4>3
    <3>. QED  BY <3>1, <3>2
  <2>2. \A m \in 0 .. h.nxt - 1 : Has(p, m) \/ \E i \in 1 .. Len(h.sndBuf) : h.sndBuf[i].sn = m
    <3>1. h.sndBuf = q /\ h.nxt = k.nxt + n
      BY <1>8
    <3>2. ASSUME NEW m \in 0 .. h.nxt - 1 PROVE m \in 0 .. k.nxt + n - 1
      BY <1>1, <1>2, <1>7, <3>1
    <3>. QED  BY <2>1, <3>1, <3>2
  <2>. QED  BY <2>2 DEF Keeps
<1>. QED  BY <1>1, <1>2, <1>8, <1>9, <1>15, <1>17, <1>18

\* ikcp_flush of a numbered block: nothing is owed, the rest is as it was.
LEMMA FlushedIs ==
  ASSUME NEW k \in Blocks, NEW F, NEW G, NEW p, NEW given, NEW top, NEW due,
         SendsWell(k, F), Keeps(k, p), ReceivesWell(k, given, G, top),
         NEW h, h = Flushed(k, due)
  PROVE  /\ h \in Blocks /\ SendsWell(h, F) /\ Keeps(h, p) /\ ReceivesWell(h, given, G, top)
         /\ h.nxt = k.nxt /\ h.sndQ = k.sndQ /\ h.rcvNxt = k.rcvNxt
         /\ \A n : Has(k, n) <=> Has(h, n)
<1>. DEFINE q == Marked(k, due)
            Mark(i) == [k.sndBuf[i] EXCEPT !.sent = TRUE,
                          !.fast = IF k.sndBuf[i].sent /\ i \notin due /\ k.sndBuf[i].fast >= FastResend
                                   THEN 0 ELSE k.sndBuf[i].fast]
<1>1. /\ Len(k.sndBuf) \in Nat /\ DOMAIN k.sndBuf = 1 .. Len(k.sndBuf)
      /\ \A i \in 1 .. Len(k.sndBuf) : k.sndBuf[i] \in InFlight(Units)
      /\ k.sndBuf \in Seq(InFlight(Units))
  BY BlockQueues, BlockFields
<1>2. q = [i \in 1 .. Len(k.sndBuf) |-> Mark(i)]
  BY <1>1 DEF Marked
<1>3. ASSUME NEW i \in 1 .. Len(k.sndBuf)
      PROVE  /\ Mark(i) \in InFlight(Units) /\ Mark(i).sn = k.sndBuf[i].sn
             /\ Mark(i).unit = k.sndBuf[i].unit /\ Mark(i).frg = k.sndBuf[i].frg
  <2>. DEFINE f == IF k.sndBuf[i].sent /\ i \notin due /\ k.sndBuf[i].fast >= FastResend
                   THEN 0 ELSE k.sndBuf[i].fast
  <2>1. k.sndBuf[i] \in InFlight(Units)
    BY <1>1
  <2>2. f \in 0 .. FastResend
    <3>1. k.sndBuf[i].fast \in 0 .. FastResend /\ 0 \in 0 .. FastResend
      BY <2>1, Consts DEF InFlight
    <3>. QED  BY <3>1
  <2>3. Mark(i) = [k.sndBuf[i] EXCEPT !.sent = TRUE, !.fast = f]
    OBVIOUS
  <2>. HIDE DEF f, Mark
  <2>. QED  BY <2>1, <2>2, <2>3 DEF InFlight
<1>. HIDE DEF Mark, q
<1>4. /\ q \in Seq(InFlight(Units)) /\ Len(q) = Len(k.sndBuf)
      /\ \A i \in 1 .. Len(k.sndBuf) : /\ q[i].sn = k.sndBuf[i].sn
                                       /\ q[i].unit = k.sndBuf[i].unit /\ q[i].frg = k.sndBuf[i].frg
  <2>1. q \in [1 .. Len(k.sndBuf) -> InFlight(Units)] /\ DOMAIN q = 1 .. Len(k.sndBuf)
    BY <1>2, <1>3
  <2>2. q \in Seq(InFlight(Units))
    BY <1>1, <2>1, SeqDef
  <2>3. Len(q) = Len(k.sndBuf)
    BY <1>1, <2>1, <2>2, LenProperties
  <2>. QED  BY <1>2, <1>3, <2>2, <2>3
<1>5. h = [k EXCEPT !.acks = <<>>, !.tell = FALSE, !.asking = (k.rmt = 0), !.sndBuf = q]
  BY DEF Flushed, q
<1>6. /\ h.acks = <<>> /\ h.sndBuf = q /\ h.una = k.una /\ h.nxt = k.nxt /\ h.sndQ = k.sndQ
      /\ h.rcvBuf = k.rcvBuf /\ h.rcvQ = k.rcvQ /\ h.rcvNxt = k.rcvNxt
  BY <1>5 DEF Blocks, KcpCb
<1>7. h \in Blocks
  <2>1. <<>> \in Seq(Sn)
    BY EmptySeq
  <2>. DEFINE b == (k.rmt = 0)
              a == <<>>
  <2>2. b \in BOOLEAN /\ a \in Seq(Sn)
    BY <2>1
  <2>3. h = [k EXCEPT !.acks = a, !.tell = FALSE, !.asking = b, !.sndBuf = q]
    BY <1>5
  <2>. HIDE DEF a, b
  <2>. QED  BY <1>4, <2>2, <2>3 DEF Blocks, KcpCb
<1>8. \A n : Has(k, n) <=> Has(h, n)
  BY <1>6 DEF Has
<1>9. ReceivesWell(h, given, G, top)
  <2>1. Len(h.acks) = 0
    BY <1>6
  <2>2. \A i \in 1 .. Len(h.acks) : Has(h, h.acks[i])
    BY <2>1
  <2>. QED  BY <1>6, <2>2 DEF ReceivesWell
<1>10. SendsWell(h, F)
  <2>1. k.sndBuf = <<>> <=> q = <<>>
    BY <1>1, <1>4, EmptySeq
  <2>2. k.sndBuf # <<>> => q[1].sn = k.sndBuf[1].sn
    <3>1. k.sndBuf # <<>> => Len(k.sndBuf) # 0
      BY <1>1, EmptySeq
    <3>2. k.sndBuf # <<>> => 1 \in 1 .. Len(k.sndBuf)
      BY <1>1, <3>1
    <3>. QED  BY <1>4, <3>2
  <2>3. h.una = IF h.sndBuf = <<>> THEN h.nxt ELSE h.sndBuf[1].sn
    BY <1>6, <2>1, <2>2 DEF SendsWell
  <2>4. \A i \in 1 .. Len(q) : Fits(q[i], F) /\ k.una <= q[i].sn /\ q[i].sn < k.nxt
    BY <1>4 DEF SendsWell, Fits
  <2>5. \A i, j \in 1 .. Len(q) : i < j => q[i].sn < q[j].sn
    BY <1>4 DEF SendsWell
  <2>. QED  BY <1>6, <2>3, <2>4, <2>5 DEF SendsWell
<1>11. Keeps(h, p)
  BY <1>4, <1>6 DEF Keeps
<1>. QED  BY <1>6, <1>7, <1>8, <1>9, <1>10, <1>11

\* A function on the first numbers is a sequence of its values.
LEMMA TableIsSeq ==
  ASSUME NEW S, NEW n \in Nat, NEW f \in [1 .. n -> S]
  PROVE  f \in Seq(S) /\ Len(f) = n
<1>1. f \in Seq(S)
  BY SeqDef
<1>2. DOMAIN f = 1 .. n
  OBVIOUS
<1>. QED  BY <1>1, <1>2, LenProperties

LEMMA OneIsSeq == ASSUME NEW S, NEW y \in S PROVE <<y>> \in Seq(S) /\ Len(<<y>>) = 1 /\ <<y>>[1] = y
OBVIOUS

\* What a flush sends is what the block may say.
LEMMA SegmentsSaid ==
  ASSUME NEW k \in Blocks, NEW F, NEW G, NEW given \in Nat, NEW top, NEW due, NEW probeDue,
         SendsWell(k, F), ReceivesWell(k, given, G, top), Small(k.nxt + Len(k.sndQ))
  PROVE  Segments(k, due, probeDue) \in Seq(Said(k, F))
<1>. DEFINE Seg(cmd, sn, frg, unit) ==
              [cmd |-> cmd, sn |-> sn, frg |-> frg, unit |-> unit,
               wnd |-> Unused(k), una |-> k.rcvNxt]
            Control(cmd, on) == IF on THEN <<Seg(cmd, 0, 0, 0)>> ELSE <<>>
            order == Ascending(ToSend(k, due))
            S == Said(k, F)
            acks == [i \in DOMAIN k.acks |-> Seg("ACK", k.acks[i], 0, 0)]
            wask == Control("WASK", Asks(k, probeDue))
            wins == Control("WINS", k.tell)
            Push(j) == Seg("PUSH", k.sndBuf[order[j]].sn, k.sndBuf[order[j]].frg,
                           k.sndBuf[order[j]].unit)
            push == [j \in DOMAIN order |-> Push(j)]
<1>0. Segments(k, due, probeDue) = acks \o wask \o wins \o push
  BY DEF Segments
<1>1. /\ Len(k.rcvQ) \in Nat /\ Len(k.rcvQ) <= RcvWnd /\ RcvWnd \in Nat /\ RcvWnd > 0
      /\ k.rcvNxt \in Sn /\ k.rcvNxt \in Nat /\ SnMod \in Nat
      /\ Unused(k) \in 0 .. RcvWnd /\ 0 \in Frgs /\ 0 \in Sn /\ 0 \in 0 .. SnMod
  <2>1. /\ Len(k.rcvQ) \in Nat /\ Len(k.rcvQ) <= RcvWnd /\ RcvWnd \in Nat /\ RcvWnd > 0
        /\ k.rcvNxt \in Sn /\ k.rcvNxt \in Nat /\ SnMod \in Nat
    BY BlockQueues, BlockFields, Consts DEF ReceivesWell
  <2>. QED  BY <2>1, SnIsNat DEF Unused, Frgs
<1>2. ASSUME NEW cmd \in {"ACK", "PUSH", "WASK", "WINS"}, NEW sn \in Sn, NEW frg \in Frgs,
             NEW unit \in 0 .. SnMod,
             cmd = "PUSH" => sn < k.nxt /\ unit = sn + 1 /\ frg = F[unit],
             cmd = "ACK" => Has(k, sn)
      PROVE  Seg(cmd, sn, frg, unit) \in S
  <2>. DEFINE x == Seg(cmd, sn, frg, unit)
  <2>1. /\ x.cmd = cmd /\ x.sn = sn /\ x.frg = frg /\ x.unit = unit
        /\ x.wnd = Unused(k) /\ x.una = k.rcvNxt
    OBVIOUS
  <2>2. x \in [cmd : {"ACK", "PUSH", "WASK", "WINS"}, sn : Sn, frg : Frgs, unit : 0 .. SnMod,
               wnd : 0 .. RcvWnd, una : Sn]
    BY <1>1
  <2>. HIDE DEF x
  <2>3. x.una <= k.rcvNxt
    BY <1>1, <2>1
  <2>4. x.cmd = "PUSH" => x.sn < k.nxt /\ Fits(x, F)
    BY <1>2, <2>1 DEF Fits
  <2>5. x.cmd = "ACK" => Has(k, x.sn)
    BY <1>2, <2>1
  <2>6. x \in Said(k, F)
    BY <2>2, <2>3, <2>4, <2>5 DEF Said
  <2>. QED  BY <2>6 DEF x
<1>3. acks \in Seq(S)
  <2>1. /\ Len(k.acks) \in Nat /\ DOMAIN k.acks = 1 .. Len(k.acks)
        /\ \A i \in 1 .. Len(k.acks) : k.acks[i] \in Sn /\ Has(k, k.acks[i])
    BY BlockQueues DEF ReceivesWell
  <2>2. ASSUME NEW i \in 1 .. Len(k.acks) PROVE Seg("ACK", k.acks[i], 0, 0) \in S
    <3>. HIDE DEF Seg, S
    <3>. QED  BY <1>1, <1>2, <2>1
  <2>. HIDE DEF Seg, S
  <2>3. acks \in [1 .. Len(k.acks) -> S]
    BY <2>1, <2>2
  <2>. HIDE DEF acks
  <2>. QED  BY <2>1, <2>3, TableIsSeq
<1>4. wask \in Seq(S) /\ wins \in Seq(S)
  <2>1. Seg("WASK", 0, 0, 0) \in S /\ Seg("WINS", 0, 0, 0) \in S
    <3>. HIDE DEF Seg, S
    <3>. QED  BY <1>1, <1>2
  <2>. HIDE DEF Seg, S
  <2>2. <<Seg("WASK", 0, 0, 0)>> \in Seq(S) /\ <<Seg("WINS", 0, 0, 0)>> \in Seq(S) /\ <<>> \in Seq(S)
    BY <2>1
  <2>. QED  BY <2>2
<1>5. push \in Seq(S)
  <2>1. /\ Len(k.sndBuf) \in Nat /\ DOMAIN k.sndBuf = 1 .. Len(k.sndBuf)
        /\ \A i \in 1 .. Len(k.sndBuf) : k.sndBuf[i] \in InFlight(Units)
        /\ k.nxt \in Sn
    BY BlockQueues, BlockFields
  <2>2. ToSend(k, due) \subseteq 1 .. Len(k.sndBuf)
    BY <2>1 DEF ToSend
  <2>3. order \in Seq(ToSend(k, due))
    BY <2>1, <2>2, AscendingIs
  <2>. HIDE DEF order
  <2>4. Len(order) \in Nat /\ DOMAIN order = 1 .. Len(order)
        /\ \A j \in 1 .. Len(order) : order[j] \in 1 .. Len(k.sndBuf)
    <3>1. \A j \in 1 .. Len(order) : order[j] \in ToSend(k, due)
      BY <2>3, ElementOfSeq
    <3>. QED  BY <2>2, <2>3, <3>1, LenProperties
  <2>5. ASSUME NEW j \in 1 .. Len(order) PROVE Push(j) \in S
    <3>. DEFINE x == k.sndBuf[order[j]]
    <3>1. x \in InFlight(Units) /\ Fits(x, F) /\ x.sn < k.nxt
      BY <2>1, <2>4 DEF SendsWell
    <3>2. x.sn \in Sn /\ x.frg \in Frgs /\ x.unit = x.sn + 1 /\ x.frg = F[x.unit]
      BY <3>1 DEF Fits, InFlight
    <3>3. x.unit \in 0 .. SnMod
      <4>1. x.sn \in 0 .. SnMod - 1
        BY <3>2 DEF Sn
      <4>. QED  BY <1>1, <3>2, <4>1, SMTT(30)
    <3>4. Push(j) = Seg("PUSH", x.sn, x.frg, x.unit)
      OBVIOUS
    <3>. HIDE DEF Seg, S, Push, x
    <3>. QED  BY <1>2, <3>1, <3>2, <3>3, <3>4
  <2>. HIDE DEF Push, S
  <2>6. push \in [1 .. Len(order) -> S]
    BY <2>4, <2>5
  <2>. HIDE DEF push
  <2>. QED  BY <2>4, <2>6, TableIsSeq
<1>. HIDE DEF acks, wask, wins, push, S
<1>6. acks \o wask \in Seq(S)
  BY <1>3, <1>4, ConcatProperties
<1>7. (acks \o wask) \o wins \in Seq(S)
  BY <1>4, <1>6, ConcatProperties
<1>8. ((acks \o wask) \o wins) \o push \in Seq(S)
  BY <1>5, <1>7, ConcatProperties
<1>. QED  BY <1>0, <1>8 DEF S

\* Segments are packed into datagrams of them.
LEMMA PackIs ==
  ASSUME NEW S, NEW segs \in Seq(S)
  PROVE  Pack(segs) \in Seq(Seq(S))
<1>. DEFINE n == Len(segs)
            B == DOMAIN segs
            A == Seq(Seq(S))
            Put(ds, s) == IF ds # <<>> /\ Bytes(Last(ds)) + Size(s) <= Mtu
                          THEN Front(ds) \o <<Append(Last(ds), s)>>
                          ELSE Append(ds, <<s>>)
            step == [x \in A \X (1 .. n) |-> Put(x[1], segs[x[2]])]
            IsTurns(g) == g = [T \in SUBSET B |->
                                 IF T = {} THEN <<>> ELSE Put(g[T \ {Max(T)}], segs[Max(T)])]
            turns == CHOOSE g : IsTurns(g)
<1>1. n \in Nat /\ B = 1 .. n /\ \A i \in 1 .. n : segs[i] \in S
  BY LenProperties, ElementOfSeq
<1>2. Pack(segs) = turns[B]
  BY DEF Pack, FoldLeft, MapThenFoldSet
<1>3. <<>> \in A
  OBVIOUS
<1>4. ASSUME NEW ds \in A, NEW s \in S PROVE Put(ds, s) \in A
  <2>1. <<s>> \in Seq(S)
    OBVIOUS
  <2>2. Append(ds, <<s>>) \in A
    BY <2>1, AppendProperties
  <2>3. ASSUME ds # <<>> PROVE Front(ds) \o <<Append(Last(ds), s)>> \in A
    <3>1. Len(ds) \in Nat /\ Len(ds) # 0
      BY <2>3, EmptySeq, LenProperties
    <3>2. Len(ds) \in 1 .. Len(ds)
      BY <3>1
    <3>3. Last(ds) \in Seq(S)
      <4>1. ds[Len(ds)] \in Seq(S)
        BY <3>2, ElementOfSeq
      <4>. QED  BY <4>1 DEF Last
    <3>4. Append(Last(ds), s) \in Seq(S)
      BY <3>3, AppendProperties
    <3>5. <<Append(Last(ds), s)>> \in A
      <4>. DEFINE y == Append(Last(ds), s)
                  R == Seq(S)
      <4>1. y \in R
        BY <3>4
      <4>. HIDE DEF y, R
      <4>2. <<y>> \in Seq(R)
        BY <4>1, OneIsSeq
      <4>. QED  BY <4>2 DEF y, R
    <3>6. Front(ds) \in A
      <4>1. Len(ds) - 1 \in 0 .. Len(ds)
        BY <3>1
      <4>2. SubSeq(ds, 1, Len(ds) - 1) \in A
        BY <4>1, Split
      <4>. QED  BY <4>2 DEF Front
    <3>. QED  BY <3>5, <3>6, ConcatProperties
  <2>. QED  BY <2>2, <2>3
<1>. HIDE DEF B, A, Put
<1>5. step \in [A \X (1 .. n) -> A]
  BY <1>1, <1>4
<1>6. \A k \in A, i \in 1 .. n : step[<<k, i>>] = Put(k, segs[i])
  OBVIOUS
<1>. HIDE DEF step, n
<1>7. PICK g : Turns(g, A, <<>>, n, step)
  BY <1>1, <1>3, <1>5, TurnsExist
<1>8. \A T \in SUBSET B : T # {} => Max(T) \in 1 .. n /\ T \ {Max(T)} \in SUBSET B
  <2>1. ASSUME NEW T \in SUBSET B, T # {} PROVE Max(T) \in 1 .. n
    <3>1. T \subseteq 1 .. n
      BY <1>1
    <3>2. Max(T) \in T
      BY <1>1, <2>1, <3>1, GreatestExists
    <3>. QED  BY <3>1, <3>2
  <2>. QED  BY <2>1
<1>9. IsTurns(g)
  <2>1. ASSUME NEW T \in SUBSET B
        PROVE  g[T] = IF T = {} THEN <<>> ELSE Put(g[T \ {Max(T)}], segs[Max(T)])
    <3>1. g[T] = Turn(g, <<>>, step, T)
      BY <1>1, <1>7 DEF Turns
    <3>2. CASE T = {}
      BY <3>1, <3>2 DEF Turn
    <3>3. CASE T # {}
      <4>1. g[T \ {Max(T)}] \in A /\ Max(T) \in 1 .. n
        BY <1>1, <1>7, <1>8, <3>3 DEF Turns
      <4>2. g[T] = step[<<g[T \ {Max(T)}], Max(T)>>]
        BY <3>1, <3>3 DEF Turn
      <4>. QED  BY <1>6, <3>3, <4>1, <4>2
    <3>. QED  BY <3>2, <3>3
  <2>2. g = [T \in SUBSET B |-> g[T]]
    BY <1>1, <1>7 DEF Turns
  <2>. QED  BY <2>1, <2>2
<1>10. IsTurns(turns)
  <2>. HIDE DEF IsTurns
  <2>. QED  BY <1>9
<1>. HIDE DEF turns
<1>11. \A T \in SUBSET B : turns[T] = IF T = {} THEN <<>> ELSE Put(turns[T \ {Max(T)}], segs[Max(T)])
  BY <1>10
<1>12. turns[1 .. n] \in A
  <2>1. turns[{}] \in A
    BY <1>3, <1>11
  <2>2. \A T \in SUBSET (1 .. n) : T # {} /\ turns[T \ {Max(T)}] \in A => turns[T] \in A
    <3>1. ASSUME NEW T \in SUBSET (1 .. n), T # {}, turns[T \ {Max(T)}] \in A PROVE turns[T] \in A
      <4>1. T \in SUBSET B /\ Max(T) \in 1 .. n
        BY <1>1, <1>8, <3>1
      <4>2. turns[T] = Put(turns[T \ {Max(T)}], segs[Max(T)])
        BY <1>11, <3>1, <4>1
      <4>3. segs[Max(T)] \in S
        BY <1>1, <4>1 DEF n
      <4>. QED  BY <1>4, <3>1, <4>2, <4>3
    <3>. QED  BY <3>1
  <2>. HIDE DEF IsTurns
  <2>. QED  BY <1>1, <2>1, <2>2, TurnsStay
<1>. QED  BY <1>1, <1>2, <1>12 DEF A

-----------------------------------------------------------------------------
(* ikcp_send and what feeds it.                                            *)

\* F extended by a message of n units after the first t.
Extended(F, t, n) == [u \in 1 .. t + n |-> IF u <= t THEN F[u] ELSE t + n - u]

\* k has taken more than k0, as F says, and nothing else has changed.
TookMore(k0, F0, k, F) ==
  /\ k \in Blocks /\ SendsWell(k, F) /\ SameReceiver(k0, k)
  /\ k.sndBuf = k0.sndBuf /\ k.una = k0.una /\ k.nxt = k0.nxt /\ k.rmt = k0.rmt
  /\ Taken(k0) <= Taken(k) /\ \A u \in 1 .. Taken(k0) : F[u] = F0[u]

LEMMA TakenIsNat == ASSUME NEW k \in Blocks PROVE Taken(k) \in Nat
BY BlockQueues DEF Taken

LEMMA TookNothing ==
  ASSUME NEW k \in Blocks, NEW F, SendsWell(k, F)
  PROVE  TookMore(k, F, k, F)
<1>1. Taken(k) \in Nat
  BY TakenIsNat
<1>. QED  BY <1>1 DEF TookMore, SameReceiver

LEMMA TookOn ==
  ASSUME NEW k0 \in Blocks, NEW F0, NEW k1, NEW F1, NEW k2, NEW F2,
         TookMore(k0, F0, k1, F1), TookMore(k1, F1, k2, F2)
  PROVE  TookMore(k0, F0, k2, F2)
<1>1. Taken(k0) \in Nat /\ Taken(k1) \in Nat /\ Taken(k2) \in Nat
  BY TakenIsNat DEF TookMore
<1>2. Taken(k0) <= Taken(k2) /\ \A u \in 1 .. Taken(k0) : u \in 1 .. Taken(k1)
  BY <1>1 DEF TookMore
<1>. QED  BY <1>2 DEF TookMore, SameReceiver

\* ikcp_send of the units that come next.
LEMMA SendIs ==
  ASSUME NEW k \in Blocks, NEW F, SendsWell(k, F), NEW n \in 1 .. MaxFrags, Small(Taken(k) + n),
         NEW units \in Seq(Units), Len(units) = n, \A i \in 1 .. n : units[i] = Taken(k) + i,
         NEW h, h = Send(k, units)
  PROVE  /\ TookMore(k, F, h, Extended(F, Taken(k), n)) /\ Taken(h) = Taken(k) + n
<1>. DEFINE t == Taken(k)
            E == Extended(F, t, n)
            new == [i \in DOMAIN units |-> [frg |-> Len(units) - i, unit |-> units[i]]]
            q == k.sndQ \o new
<1>1. /\ t \in Nat /\ k.nxt \in Nat /\ Len(k.sndQ) \in Nat /\ t = k.nxt + Len(k.sndQ)
      /\ k.sndQ \in Seq(Queued(Units)) /\ n \in Nat /\ n >= 1 /\ n <= MaxFrags
      /\ MaxFrags \in Nat /\ MaxFrags <= RcvWnd /\ RcvWnd \in Nat
      /\ DOMAIN units = 1 .. n /\ \A i \in 1 .. n : units[i] \in Units
  BY TakenIsNat, BlockQueues, BlockFields, Consts, LenProperties, ElementOfSeq DEF Taken
<1>2. /\ new \in Seq(Queued(Units)) /\ Len(new) = n
      /\ \A i \in 1 .. n : new[i].frg = n - i /\ new[i].unit = t + i
  <2>1. ASSUME NEW i \in 1 .. n
        PROVE  new[i] \in Queued(Units) /\ new[i].frg = n - i /\ new[i].unit = t + i
    <3>1. n - i \in Frgs
      BY <1>1 DEF Frgs
    <3>. QED  BY <1>1, <3>1 DEF Queued
  <2>2. new \in [1 .. n -> Queued(Units)]
    BY <1>1, <2>1
  <2>. HIDE DEF new
  <2>. QED  BY <1>1, <2>1, <2>2, TableIsSeq
<1>. HIDE DEF new
<1>3. /\ q \in Seq(Queued(Units)) /\ Len(q) = Len(k.sndQ) + n
      /\ \A i \in 1 .. Len(k.sndQ) : q[i] = k.sndQ[i]
      /\ \A i \in 1 .. n : q[Len(k.sndQ) + i] = new[i]
  <2>1. k.sndQ \in Seq(Queued(Units)) /\ new \in Seq(Queued(Units))
    BY <1>1, <1>2
  <2>2. /\ q \in Seq(Queued(Units)) /\ Len(q) = Len(k.sndQ) + Len(new)
        /\ \A i \in 1 .. Len(k.sndQ) : q[i] = k.sndQ[i]
        /\ \A i \in 1 .. Len(new) : q[Len(k.sndQ) + i] = new[i]
    BY <2>1, ConcatAt
  <2>. HIDE DEF q
  <2>. QED  BY <1>2, <2>2
<1>4. h = [k EXCEPT !.sndQ = q]
  BY DEF Send, new, Blocks, KcpCb
<1>. HIDE DEF q
<1>5. /\ h.sndQ = q /\ h.sndBuf = k.sndBuf /\ h.una = k.una /\ h.nxt = k.nxt /\ h.rmt = k.rmt
      /\ SameReceiver(k, h) /\ h \in Blocks
  BY <1>3, <1>4 DEF Blocks, KcpCb, SameReceiver
<1>6. Taken(h) = t + n
  <2>1. h.nxt = k.nxt /\ Len(h.sndQ) = Len(k.sndQ) + n
    BY <1>3, <1>5
  <2>. QED  BY <1>1, <2>1 DEF Taken
<1>7. IsCut(F, t)
  BY DEF SendsWell, Taken
<1>8. /\ \A u \in 1 .. t : u \in 1 .. t + n /\ E[u] = F[u]
      /\ \A i \in 1 .. n : t + i \in 1 .. t + n /\ E[t + i] = n - i
  <2>1. ASSUME NEW u \in 1 .. t PROVE u \in 1 .. t + n /\ E[u] = F[u]
    <3>1. u \in 1 .. t + n /\ u <= t
      BY <1>1
    <3>. HIDE DEF t
    <3>. QED  BY <3>1 DEF Extended
  <2>2. ASSUME NEW i \in 1 .. n PROVE t + i \in 1 .. t + n /\ E[t + i] = n - i
    <3>. HIDE DEF t
    <3>1. t + i \in 1 .. t + n /\ ~(t + i <= t)
      BY <1>1
    <3>2. E[t + i] = t + n - (t + i)
      BY <3>1 DEF Extended
    <3>3. t + n - (t + i) = n - i
      BY <1>1
    <3>. QED  BY <3>1, <3>2, <3>3
  <2>. QED  BY <2>1, <2>2
<1>9. E \in [1 .. t + n -> 0 .. MaxFrags - 1]
  <2>1. ASSUME NEW u \in 1 .. t + n
        PROVE  (IF u <= t THEN F[u] ELSE t + n - u) \in 0 .. MaxFrags - 1
    <3>1. CASE u <= t
      <4>1. u \in 1 .. t
        BY <1>1, <3>1
      <4>2. F[u] \in 0 .. MaxFrags - 1
        BY <1>7, <4>1 DEF IsCut
      <4>. QED  BY <3>1, <4>2
    <3>2. CASE ~(u <= t)
      <4>. HIDE DEF t
      <4>1. t + n - u \in 0 .. MaxFrags - 1
        BY <1>1, <3>2
      <4>. QED  BY <3>2, <4>1
    <3>. QED  BY <3>1, <3>2
  <2>. HIDE DEF t
  <2>. QED  BY <2>1 DEF Extended
<1>. HIDE DEF E, t
<1>10. \A u \in 1 .. t + n : u \in 1 .. t \/ \E i \in 1 .. n : u = t + i
  <2>1. ASSUME NEW u \in 1 .. t + n, u \notin 1 .. t PROVE \E i \in 1 .. n : u = t + i
    <3>1. u - t \in 1 .. n /\ u = t + (u - t)
      <4>1. t \in Nat /\ n \in Nat
        BY <1>1
      <4>. QED  BY <2>1, <4>1
    <3>. QED  BY <3>1
  <2>. QED  BY <2>1
<1>11. IsCut(E, t + n)
  <2>1. ASSUME NEW u \in 1 .. t + n, E[u] # 0 PROVE u < t + n /\ E[u + 1] = E[u] - 1
    <3>1. CASE u \in 1 .. t
      <4>1. F[u] # 0
        BY <1>8, <2>1, <3>1
      <4>2. u < t /\ F[u + 1] = F[u] - 1
        BY <1>7, <3>1, <4>1 DEF IsCut
      <4>3. u + 1 \in 1 .. t /\ u < t + n
        BY <1>1, <3>1, <4>2
      <4>. QED  BY <1>8, <3>1, <4>2, <4>3
    <3>2. CASE \E i \in 1 .. n : u = t + i
      <4>1. PICK i \in 1 .. n : u = t + i
        BY <3>2
      <4>2. n - i # 0
        BY <1>8, <2>1, <4>1
      <4>3. i + 1 \in 1 .. n /\ u + 1 = t + (i + 1) /\ u < t + n
        BY <1>1, <4>1, <4>2
      <4>4. E[u] = n - i /\ E[u + 1] = n - (i + 1)
        BY <1>8, <4>1, <4>3
      <4>. QED  BY <1>1, <4>3, <4>4
    <3>. QED  BY <1>10, <3>1, <3>2
  <2>. QED  BY <1>9, <2>1 DEF IsCut
<1>12. \A i \in 1 .. Len(q) : q[i].unit = k.nxt + i /\ q[i].frg = E[k.nxt + i]
  <2>1. ASSUME NEW i \in 1 .. Len(q) PROVE q[i].unit = k.nxt + i /\ q[i].frg = E[k.nxt + i]
    <3>0. i \in Nat /\ i >= 1 /\ i <= Len(k.sndQ) + n
      BY <1>1, <1>3
    <3>1. CASE i <= Len(k.sndQ)
      <4>1. i \in 1 .. Len(k.sndQ) /\ k.nxt + i \in 1 .. t
        BY <1>1, <3>0, <3>1
      <4>2. q[i] = k.sndQ[i] /\ E[k.nxt + i] = F[k.nxt + i]
        BY <1>3, <1>8, <4>1
      <4>3. k.sndQ[i].unit = k.nxt + i /\ k.sndQ[i].frg = F[k.nxt + i]
        BY <4>1 DEF SendsWell
      <4>. QED  BY <4>2, <4>3
    <3>2. CASE i > Len(k.sndQ)
      <4>. DEFINE j == i - Len(k.sndQ)
      <4>1. j \in 1 .. n /\ Len(k.sndQ) + j = i /\ t + j = k.nxt + i
        <5>1. i - Len(k.sndQ) \in 1 .. n /\ Len(k.sndQ) + (i - Len(k.sndQ)) = i
              /\ k.nxt + Len(k.sndQ) + (i - Len(k.sndQ)) = k.nxt + i
          BY <1>1, <3>0, <3>2, Behind
        <5>. QED  BY <1>1, <5>1
      <4>. HIDE DEF j
      <4>2. q[i] = new[j]
        BY <1>3, <4>1
      <4>3. new[j].unit = t + j /\ new[j].frg = n - j /\ E[t + j] = n - j
        BY <1>2, <1>8, <4>1
      <4>. QED  BY <4>1, <4>2, <4>3
    <3>. QED  BY <1>1, <3>0, <3>1, <3>2
  <2>. QED  BY <2>1
<1>13. SendsWell(h, E)
  <2>1. \A i \in 1 .. Len(h.sndBuf) :
          Fits(h.sndBuf[i], E) /\ h.una <= h.sndBuf[i].sn /\ h.sndBuf[i].sn < h.nxt
    <3>1. ASSUME NEW i \in 1 .. Len(k.sndBuf) PROVE Fits(k.sndBuf[i], E)
      <4>1. Fits(k.sndBuf[i], F) /\ k.sndBuf[i].sn < k.nxt
        BY DEF SendsWell
      <4>2. k.sndBuf[i].sn \in Nat
        <5>1. k.sndBuf[i] \in InFlight(Units)
          BY BlockQueues
        <5>. QED  BY <5>1, SnIsNat DEF InFlight
      <4>3. k.sndBuf[i].unit \in 1 .. t
        <5>. DEFINE y == k.sndBuf[i].sn
                    u == k.sndBuf[i].unit
                    m == k.nxt
                    l == Len(k.sndQ)
        <5>1. y \in Nat /\ u = y + 1 /\ y < m
          BY <4>1, <4>2 DEF Fits
        <5>2. m \in Nat /\ l \in Nat /\ t = m + l
          BY <1>1
        <5>. HIDE DEF y, u, m, l
        <5>3. u \in 1 .. t
          BY <5>1, <5>2
        <5>. QED  BY <5>3 DEF u
      <4>. QED  BY <1>8, <4>1, <4>3 DEF Fits
    <3>. QED  BY <1>5, <3>1 DEF SendsWell
  <2>2. h.nxt + Len(h.sndQ) = t + n
    BY <1>6 DEF Taken
  <2>3. IsCut(E, h.nxt + Len(h.sndQ))
    BY <1>11, <2>2
  <2>. QED  BY <1>5, <1>12, <2>1, <2>3 DEF SendsWell
<1>14. Taken(k) <= Taken(h) /\ Taken(k) = t
  BY <1>1, <1>6 DEF t
<1>15. TookMore(k, F, h, E)
  BY <1>5, <1>8, <1>13, <1>14 DEF TookMore
<1>. QED  BY <1>6, <1>15 DEF t, E

\* The parts of a packet of l units: m of them, each but the last of b.
LEMMA PartsAre ==
  ASSUME NEW l \in Nat, NEW b \in Nat \ {0}, NEW m, m = (l + b - 1) \div b
  PROVE  /\ m \in Nat /\ l <= m * b
         /\ \A i \in 1 .. m : (i - 1) * b \in Nat /\ (i - 1) * b < l /\ i * b = (i - 1) * b + b
<1>. DEFINE n == l + b - 1
            r == n % b
<1>1. n \in Nat
  OBVIOUS
<1>2. m \in Nat /\ r \in 0 .. b - 1 /\ n = b * m + r
  <2>. HIDE DEF n
  <2>1. n \div b \in Nat /\ n % b \in 0 .. b - 1 /\ n = b * (n \div b) + (n % b)
    BY <1>1, DivMod
  <2>2. m = n \div b
    BY DEF n
  <2>. QED  BY <2>1, <2>2
<1>. HIDE DEF r
<1>3. b * m = m * b /\ m * b \in Nat
  BY <1>2
<1>4. l <= m * b /\ m * b <= l + b - 1
  <2>. DEFINE v == m * b
  <2>1. v \in Nat /\ l + b - 1 = v + r
    BY <1>2, <1>3
  <2>. HIDE DEF v
  <2>2. l <= v /\ v <= l + b - 1
    BY <1>2, <2>1
  <2>. QED  BY <2>2 DEF v
<1>5. ASSUME NEW i \in 1 .. m
      PROVE  (i - 1) * b \in Nat /\ (i - 1) * b < l /\ i * b = (i - 1) * b + b
  <2>1. i \in Nat /\ i - 1 \in Nat /\ m - i \in Nat /\ m = i + (m - i)
    BY <1>2
  <2>2. (i - 1) * b \in Nat /\ i * b = (i - 1) * b + b
    BY <2>1
  <2>3. m * b = i * b + (m - i) * b /\ (m - i) * b \in Nat
    <3>. DEFINE d == m - i
    <3>1. d \in Nat /\ m = i + d
      BY <2>1
    <3>. HIDE DEF d
    <3>2. (i + d) * b = i * b + d * b /\ d * b \in Nat
      BY <2>1, <3>1
    <3>. QED  BY <3>1, <3>2 DEF d
  <2>4. i * b <= m * b
    <3>. DEFINE x == i * b
                y == (m - i) * b
                z == m * b
    <3>1. x \in Nat /\ y \in Nat /\ z = x + y
      BY <2>1, <2>3
    <3>. HIDE DEF x, y, z
    <3>2. x <= z
      BY <3>1
    <3>. QED  BY <3>2 DEF x, z
  <2>5. (i - 1) * b < l
    <3>. DEFINE x == i * b
                y == (i - 1) * b
                z == m * b
    <3>1. x \in Nat /\ y \in Nat /\ z \in Nat /\ x = y + b /\ x <= z /\ z <= l + b - 1
      BY <1>3, <1>4, <2>1, <2>2, <2>4
    <3>. HIDE DEF x, y, z
    <3>2. y < l
      BY <3>1
    <3>. QED  BY <3>2 DEF y
  <2>. QED  BY <2>2, <2>5
<1>. QED  BY <1>2, <1>4, <1>5

\* A block takes any message of units.
LEMMA SendStays ==
  ASSUME NEW k \in Blocks, NEW units \in Seq(Units), Len(units) <= MaxFrags
  PROVE  Send(k, units) \in Blocks
<1>. DEFINE new == [i \in DOMAIN units |-> [frg |-> Len(units) - i, unit |-> units[i]]]
            q == k.sndQ \o new
<1>1. /\ Len(units) \in Nat /\ DOMAIN units = 1 .. Len(units)
      /\ \A i \in 1 .. Len(units) : units[i] \in Units
      /\ MaxFrags \in Nat /\ MaxFrags <= RcvWnd /\ RcvWnd \in Nat /\ k.sndQ \in Seq(Queued(Units))
  BY BlockFields, Consts, LenProperties, ElementOfSeq
<1>2. new \in Seq(Queued(Units))
  <2>1. ASSUME NEW i \in 1 .. Len(units) PROVE new[i] \in Queued(Units)
    <3>1. Len(units) - i \in Frgs
      BY <1>1 DEF Frgs
    <3>. QED  BY <1>1, <3>1 DEF Queued
  <2>2. new \in [1 .. Len(units) -> Queued(Units)]
    BY <1>1, <2>1
  <2>. HIDE DEF new
  <2>. QED  BY <1>1, <2>2, TableIsSeq
<1>3. Send(k, units) = [k EXCEPT !.sndQ = q]
  BY DEF Send, Blocks, KcpCb
<1>. HIDE DEF new
<1>4. q \in Seq(Queued(Units))
  BY <1>1, <1>2, ConcatProperties
<1>. HIDE DEF q
<1>. QED  BY <1>3, <1>4 DEF Blocks, KcpCb

LEMMA StaysSmall ==
  ASSUME NEW n \in Nat, NEW m \in Nat, n <= m, Small(m)
  PROVE  Small(n)
<1>1. 2 * (n + RcvWnd) < SnMod
  <2>1. 2 * (m + RcvWnd) < SnMod /\ RcvWnd \in Nat /\ SnMod \in Nat
    BY Consts DEF Small
  <2>. QED  BY <2>1, Halves
<1>2. 1 .. n \subseteq Units
  BY DEF Small
<1>. QED  BY <1>1, <1>2 DEF Small

\* The parts of a packet; the i-th ends where Upto says.
Parts(packet) == (Len(packet) + MaxFrags - 1) \div MaxFrags
Upto(packet, i) == Min({i * MaxFrags, Len(packet)})
PartOf(packet, i) == SubSeq(packet, (i - 1) * MaxFrags + 1, Upto(packet, i))

LEMMA PartOfIs ==
  ASSUME NEW packet \in Seq(Units), NEW i \in 1 .. Parts(packet),
         NEW y, y = (i - 1) * MaxFrags, NEW z, z = Upto(packet, i)
  PROVE  /\ y \in Nat /\ z \in Nat /\ y < z /\ z <= Len(packet) /\ z - y <= MaxFrags
         /\ PartOf(packet, i) \in Seq(Units) /\ Len(PartOf(packet, i)) = z - y
         /\ \A j \in 1 .. z - y : y + j \in 1 .. Len(packet) /\ PartOf(packet, i)[j] = packet[y + j]
<1>. DEFINE l == Len(packet)
            b == MaxFrags
            m == Parts(packet)
            x == i * b
            s == SubSeq(packet, y + 1, z)
<1>1. l \in Nat /\ b \in Nat \ {0} /\ \A j \in 1 .. l : packet[j] \in Units
  BY Consts, LenProperties, ElementOfSeq
<1>2. y \in Nat /\ y < l /\ x = y + b
  <2>1. m = (l + b - 1) \div b
    BY DEF Parts
  <2>. HIDE DEF l, b, m
  <2>2. \A j \in 1 .. m : (j - 1) * b \in Nat /\ (j - 1) * b < l /\ j * b = (j - 1) * b + b
    BY <1>1, <2>1, PartsAre
  <2>3. i \in 1 .. m /\ y = (i - 1) * b
    BY DEF m, b
  <2>. QED  BY <2>2, <2>3
<1>3. x \in Nat /\ z = Min({x, l})
  <2>. HIDE DEF x
  <2>1. x \in Nat
    BY <1>1, <1>2
  <2>2. z = Min({x, l})
    BY DEF Upto, x, l
  <2>. QED  BY <2>1, <2>2
<1>. HIDE DEF x, l, b
<1>4. z = IF x <= l THEN x ELSE l
  <2>1. x \in Int /\ l \in Int
    BY <1>1, <1>3
  <2>. QED  BY <1>3, <2>1, LeastOfTwo
<1>5. z \in Nat /\ z <= l /\ y < z /\ z - y <= b
  BY <1>1, <1>2, <1>3, <1>4
<1>6. /\ s \in Seq(Units)
      /\ Len(s) = IF y + 1 <= z THEN z - (y + 1) + 1 ELSE 0
      /\ \A j \in 1 .. z - (y + 1) + 1 : s[j] = packet[y + 1 + j - 1]
  <2>1. y + 1 \in Int /\ z \in Int /\ \A j \in y + 1 .. z : packet[j] \in Units
    BY <1>1, <1>2, <1>5
  <2>. QED  BY <2>1, SubSeqProperties
<1>7. PartOf(packet, i) = s
  BY DEF PartOf
<1>. HIDE DEF s
<1>8. Len(s) = z - y
  BY <1>2, <1>5, <1>6
<1>9. ASSUME NEW j \in 1 .. z - y PROVE y + j \in 1 .. l /\ s[j] = packet[y + j]
  <2>1. j \in 1 .. z - (y + 1) + 1 /\ y + 1 + j - 1 = y + j /\ y + j \in 1 .. l
    BY <1>1, <1>2, <1>5, SMTT(30)
  <2>. QED  BY <1>6, <2>1
<1>. QED  BY <1>2, <1>5, <1>6, <1>7, <1>8, <1>9 DEF l, b

\* h[i] is what the first i parts of a packet make of k.
Sends(h, k, packet) ==
  /\ h \in [0 .. Parts(packet) -> Blocks] /\ h[0] = k
  /\ \A i \in 1 .. Parts(packet) : h[i] = Send(h[i - 1], PartOf(packet, i))
  /\ SendPacket(k, packet) = h[Parts(packet)]

LEMMA PacketSent ==
  ASSUME NEW k \in Blocks, NEW packet \in Seq(Units)
  PROVE  Parts(packet) \in Nat /\ \E h : Sends(h, k, packet)
<1>. DEFINE l == Len(packet)
            b == MaxFrags
            Part(i) == SubSeq(packet, (i - 1) * b + 1, Min({i * b, l}))
            m == (l + b - 1) \div b
            seq == [i \in 1 .. m |-> i]
            B == DOMAIN seq
            Put(x, i) == Send(x, Part(seq[i]))
            step == [x \in Blocks \X (1 .. m) |-> Put(x[1], x[2])]
            IsTurns(g) == g = [T \in SUBSET B |->
                                 IF T = {} THEN k ELSE Put(g[T \ {Max(T)}], Max(T))]
            turns == CHOOSE g : IsTurns(g)
<1>0. SendPacket(k, packet) = turns[B]
  BY DEF SendPacket, FoldLeft, MapThenFoldSet
<1>1. l \in Nat /\ b \in Nat \ {0}
  BY Consts, LenProperties
<1>2. m \in Nat /\ m = Parts(packet)
  <2>1. m = Parts(packet)
    BY DEF Parts
  <2>. HIDE DEF l, b, m
  <2>2. m = (l + b - 1) \div b
    BY DEF m
  <2>. QED  BY <1>1, <2>1, <2>2, PartsAre
<1>3. \A i : Part(i) = PartOf(packet, i)
  BY DEF PartOf, Upto
<1>. HIDE DEF Part, l, b, m
<1>4. B = 1 .. m /\ \A i \in 1 .. m : seq[i] = i
  OBVIOUS
<1>5. ASSUME NEW x \in Blocks, NEW i \in 1 .. m
      PROVE  Put(x, i) \in Blocks /\ Put(x, i) = Send(x, PartOf(packet, i))
  <2>1. seq[i] = i
    BY <1>4
  <2>2. PartOf(packet, i) \in Seq(Units) /\ Len(PartOf(packet, i)) <= MaxFrags
    <3>. DEFINE y == (i - 1) * MaxFrags
                z == Upto(packet, i)
    <3>1. i \in 1 .. Parts(packet)
      BY <1>2
    <3>. HIDE DEF y, z
    <3>2. /\ z - y <= MaxFrags /\ PartOf(packet, i) \in Seq(Units)
          /\ Len(PartOf(packet, i)) = z - y
      BY <3>1, PartOfIs DEF y, z
    <3>. QED  BY <3>2
  <2>3. Send(x, PartOf(packet, i)) \in Blocks
    BY <2>2, SendStays
  <2>. QED  BY <1>3, <2>1, <2>3
<1>. HIDE DEF Put
<1>6. step \in [Blocks \X (1 .. m) -> Blocks]
  BY <1>5
<1>7. \A x \in Blocks, i \in 1 .. m : step[<<x, i>>] = Put(x, i)
  OBVIOUS
<1>. HIDE DEF step, B, seq
<1>8. PICK g : Turns(g, Blocks, k, m, step)
  BY <1>2, <1>6, TurnsExist
<1>9. \A T \in SUBSET B : T # {} => Max(T) \in 1 .. m /\ T \ {Max(T)} \in SUBSET B
  <2>1. ASSUME NEW T \in SUBSET B, T # {} PROVE Max(T) \in 1 .. m
    <3>1. T \subseteq 1 .. m
      BY <1>4
    <3>2. Max(T) \in T
      BY <1>2, <2>1, <3>1, GreatestExists
    <3>. QED  BY <3>1, <3>2
  <2>. QED  BY <2>1
<1>10. IsTurns(g)
  <2>1. ASSUME NEW T \in SUBSET B
        PROVE  g[T] = IF T = {} THEN k ELSE Put(g[T \ {Max(T)}], Max(T))
    <3>1. g[T] = Turn(g, k, step, T)
      BY <1>4, <1>8 DEF Turns
    <3>2. CASE T = {}
      BY <3>1, <3>2 DEF Turn
    <3>3. CASE T # {}
      <4>1. g[T \ {Max(T)}] \in Blocks /\ Max(T) \in 1 .. m
        BY <1>4, <1>8, <1>9, <3>3 DEF Turns
      <4>2. g[T] = step[<<g[T \ {Max(T)}], Max(T)>>]
        BY <3>1, <3>3 DEF Turn
      <4>. QED  BY <1>7, <3>3, <4>1, <4>2
    <3>. QED  BY <3>2, <3>3
  <2>2. g = [T \in SUBSET B |-> g[T]]
    BY <1>4, <1>8 DEF Turns
  <2>. QED  BY <2>1, <2>2
<1>11. IsTurns(turns)
  <2>. HIDE DEF IsTurns
  <2>. QED  BY <1>10
<1>. HIDE DEF turns
<1>12. \A T \in SUBSET B : turns[T] = IF T = {} THEN k ELSE Put(turns[T \ {Max(T)}], Max(T))
  BY <1>11
<1>. HIDE DEF IsTurns
<1>. DEFINE h == [i \in 0 .. m |-> turns[1 .. i]]
            P == {i \in Nat : i <= m => turns[1 .. i] \in Blocks}
<1>13. turns[1 .. 0] = k
  <2>1. 1 .. 0 = {} /\ {} \in SUBSET B
    OBVIOUS
  <2>. QED  BY <1>12, <2>1
<1>14. ASSUME NEW i \in Nat, i + 1 <= m PROVE turns[1 .. i + 1] = Put(turns[1 .. i], i + 1)
  <2>. DEFINE T == 1 .. i + 1
  <2>1. T # {} /\ Max(T) = i + 1 /\ T \ {i + 1} = 1 .. i
    BY UpToNext
  <2>2. T \in SUBSET B
    BY <1>2, <1>4, <1>14
  <2>. HIDE DEF T
  <2>3. turns[T] = Put(turns[T \ {Max(T)}], Max(T))
    BY <1>12, <2>1, <2>2
  <2>. QED  BY <2>1, <2>3 DEF T
<1>15. \A i \in Nat : i \in P
  <2>1. 0 \in P
    BY <1>13
  <2>2. ASSUME NEW i \in Nat, i \in P PROVE i + 1 \in P
    <3>1. ASSUME i + 1 <= m PROVE turns[1 .. i + 1] \in Blocks
      <4>1. i <= m /\ i + 1 \in 1 .. m
        BY <1>2, <3>1
      <4>2. turns[1 .. i] \in Blocks
        BY <2>2, <4>1
      <4>. QED  BY <1>5, <1>14, <3>1, <4>1, <4>2
    <3>. QED  BY <3>1
  <2>. HIDE DEF P
  <2>. QED  BY <2>1, <2>2, Induction
<1>16. h \in [0 .. m -> Blocks] /\ h[0] = k /\ h[m] = turns[B]
  <2>1. \A i \in 0 .. m : turns[1 .. i] \in Blocks
    BY <1>2, <1>15
  <2>2. 0 \in 0 .. m /\ m \in 0 .. m
    BY <1>2
  <2>. QED  BY <1>4, <1>13, <2>1, <2>2
<1>17. ASSUME NEW i \in 1 .. m PROVE h[i] = Send(h[i - 1], PartOf(packet, i))
  <2>. DEFINE j == i - 1
  <2>1. j \in Nat /\ j + 1 = i /\ j \in 0 .. m /\ i \in 0 .. m /\ j + 1 <= m /\ j <= m
    BY <1>2
  <2>. HIDE DEF j
  <2>2. h[i] = Put(h[j], i) /\ turns[1 .. j] \in Blocks /\ h[j] = turns[1 .. j]
    BY <1>14, <1>15, <2>1
  <2>. HIDE DEF h
  <2>3. h[i] = Send(h[j], PartOf(packet, i))
    BY <1>5, <2>2
  <2>. QED  BY <2>3 DEF j
<1>. HIDE DEF h
<1>18. Sends(h, k, packet)
  BY <1>0, <1>2, <1>16, <1>17 DEF Sends
<1>. QED  BY <1>2, <1>18

LEMMA SendPacketStays ==
  ASSUME NEW k \in Blocks, NEW packet \in Seq(Units)
  PROVE  SendPacket(k, packet) \in Blocks
<1>1. PICK h : Sends(h, k, packet)
  BY PacketSent
<1>2. Parts(packet) \in 0 .. Parts(packet)
  BY PacketSent
<1>. QED  BY <1>1, <1>2 DEF Sends

\* flushSndBuf: all of a packet is taken.
LEMMA SendPacketIs ==
  ASSUME NEW k \in Blocks, NEW F, SendsWell(k, F), NEW packet \in Seq(Units),
         Small(Taken(k) + Len(packet)),
         \A i \in 1 .. Len(packet) : packet[i] = Taken(k) + i
  PROVE  \E E : /\ TookMore(k, F, SendPacket(k, packet), E)
                /\ Taken(SendPacket(k, packet)) = Taken(k) + Len(packet)
<1>. DEFINE l == Len(packet)
            b == MaxFrags
            m == Parts(packet)
            t == Taken(k)
            U(i) == Upto(packet, i)
<1>0. PICK h : Sends(h, k, packet)
  BY PacketSent
<1>1. l \in Nat /\ b \in Nat \ {0} /\ t \in Nat /\ m \in Nat
  BY Consts, TakenIsNat, LenProperties, PacketSent
<1>2. l <= m * b /\ \A i \in 1 .. m : (i - 1) * b \in Nat /\ (i - 1) * b < l /\ i * b = (i - 1) * b + b
  <2>1. m = (l + b - 1) \div b
    BY DEF Parts
  <2>. HIDE DEF l, b, m
  <2>. QED  BY <1>1, <2>1, PartsAre
<1>3. \A i \in Nat : i * b \in Nat => U(i) = IF i * b <= l THEN i * b ELSE l
  <2>1. ASSUME NEW i \in Nat, i * b \in Nat PROVE U(i) = IF i * b <= l THEN i * b ELSE l
    <3>. DEFINE x == i * b
    <3>1. U(i) = Min({x, l})
      BY DEF Upto
    <3>. HIDE DEF l, x, b, U
    <3>2. x \in Int /\ l \in Int
      BY <1>1, <2>1 DEF x
    <3>3. Min({x, l}) = IF x <= l THEN x ELSE l
      BY <3>2, LeastOfTwo
    <3>. QED  BY <3>1, <3>3 DEF x
  <2>. QED  BY <2>1
<1>. HIDE DEF l, b, t, m, U
<1>. DEFINE After(i) == /\ h[i] \in Blocks
                        /\ \E E : TookMore(k, F, h[i], E)
                        /\ Taken(h[i]) = t + U(i)
            P == {i \in Nat : i <= m => After(i)}
<1>13. U(0) = 0
  <2>1. 0 * b = 0
    BY <1>1
  <2>. QED  BY <1>1, <1>3, <2>1
<1>14. 0 \in P
  <2>2. h[0] = k
    BY <1>0 DEF Sends
  <2>3. TookMore(k, F, k, F)
    BY TookNothing
  <2>4. After(0)
    BY <1>1, <1>13, <2>2, <2>3 DEF t
  <2>. HIDE DEF After
  <2>. QED  BY <2>4
<1>15. ASSUME NEW i \in Nat, i \in P PROVE i + 1 \in P
  <2>1. ASSUME i + 1 <= m PROVE After(i + 1)
    <3>. DEFINE j == i + 1
                x == h[i]
                g == h[i + 1]
                y == (j - 1) * b
                z == U(j)
                n == z - y
    <3>0. j \in 1 .. m /\ j - 1 = i /\ i <= m
      BY <1>1, <2>1
    <3>2. After(i)
      BY <1>15, <3>0
    <3>3. PICK E : TookMore(k, F, x, E)
      BY <3>2
    <3>4. x \in Blocks /\ SendsWell(x, E) /\ Taken(x) = t + U(i)
      BY <3>2, <3>3 DEF TookMore
    <3>5. g = Send(x, PartOf(packet, j))
      BY <1>0, <3>0 DEF Sends, m
    <3>6. U(i) = y
      <4>1. CASE i = 0
        <5>1. y = 0
          BY <1>1, <3>0, <4>1
        <5>. QED  BY <1>13, <4>1, <5>1
      <4>2. CASE i # 0
        <5>1. y = i * b /\ y \in Nat /\ y < l
          BY <1>2, <3>0
        <5>. HIDE DEF y
        <5>2. y <= l
          BY <1>1, <5>1
        <5>. QED  BY <1>3, <5>1, <5>2
      <4>. QED  BY <4>1, <4>2
    <3>. HIDE DEF x, g, j, y, z
    <3>7. /\ y \in Nat /\ z \in Nat /\ y < z /\ z <= l /\ n <= b
          /\ PartOf(packet, j) \in Seq(Units) /\ Len(PartOf(packet, j)) = n
          /\ \A c \in 1 .. n : y + c \in 1 .. l /\ PartOf(packet, j)[c] = packet[y + c]
      <4>1. j \in 1 .. Parts(packet) /\ y = (j - 1) * MaxFrags /\ z = Upto(packet, j)
        BY <3>0 DEF m, y, z, b, U
      <4>. QED  BY <4>1, PartOfIs DEF l, b
    <3>8. n \in Nat /\ y + n = z
      BY <3>7
    <3>. HIDE DEF n
    <3>9. \A c \in 1 .. n : PartOf(packet, j)[c] = t + y + c
      <4>1. ASSUME NEW c \in 1 .. n PROVE PartOf(packet, j)[c] = t + y + c
        <5>1. y + c \in 1 .. l /\ PartOf(packet, j)[c] = packet[y + c]
          BY <3>7
        <5>2. packet[y + c] = t + (y + c)
          BY <5>1 DEF l, t
        <5>3. t + (y + c) = t + y + c
          BY <1>1, <3>7, <3>8
        <5>. QED  BY <5>1, <5>2, <5>3
      <4>. QED  BY <4>1
    <3>10. n \in 1 .. MaxFrags
      <4>1. n > 0 /\ n <= b
        BY <3>7, <3>8
      <4>. QED  BY <1>1, <3>8, <4>1 DEF b
    <3>11. Taken(x) = t + y /\ Taken(x) + n = t + z
      <4>1. Taken(x) = t + y
        BY <3>4, <3>6 DEF x
      <4>2. t + y + n = t + z
        BY <1>1, <3>7, <3>8
      <4>. QED  BY <4>1, <4>2
    <3>12. Small(Taken(x) + n)
      <4>1. Small(t + l)
        BY DEF t, l
      <4>2. t + z \in Nat /\ t + z <= t + l /\ t + l \in Nat
        BY <1>1, <3>7
      <4>. QED  BY <3>11, <4>1, <4>2, StaysSmall
    <3>13. \A c \in 1 .. n : PartOf(packet, j)[c] = Taken(x) + c
      BY <3>9, <3>11
    <3>14. TookMore(x, E, g, Extended(E, Taken(x), n)) /\ Taken(g) = Taken(x) + n
      <4>1. PartOf(packet, j) \in Seq(Units) /\ Len(PartOf(packet, j)) = n
        BY <3>7
      <4>2. x \in Blocks /\ SendsWell(x, E)
        BY <3>4 DEF x
      <4>. QED  BY <3>5, <3>10, <3>12, <3>13, <4>1, <4>2, SendIs
    <3>15. TookMore(k, F, g, Extended(E, Taken(x), n))
      BY <3>3, <3>4, <3>14, TookOn DEF x
    <3>16. g \in Blocks /\ (\E E1 : TookMore(k, F, g, E1)) /\ Taken(g) = t + z
      BY <3>11, <3>14, <3>15 DEF TookMore
    <3>17. h[i + 1] = g /\ U(i + 1) = z
      BY DEF g, z, j
    <3>. QED  BY <3>16, <3>17
  <2>. HIDE DEF After
  <2>. QED  BY <2>1
<1>16. m \in P
  <2>. HIDE DEF P
  <2>. QED  BY <1>1, <1>14, <1>15, Induction
<1>17. After(m)
  <2>. HIDE DEF After
  <2>. QED  BY <1>1, <1>16
<1>18. U(m) = l
  <2>. DEFINE v == m * b
  <2>1. v \in Nat
    BY <1>1
  <2>2. l <= v
    BY <1>2
  <2>3. U(m) = IF v <= l THEN v ELSE l
    BY <1>1, <1>3, <2>1
  <2>. HIDE DEF v
  <2>. QED  BY <1>1, <2>1, <2>2, <2>3
<1>19. SendPacket(k, packet) = h[m]
  BY <1>0 DEF Sends, m
<1>. QED  BY <1>17, <1>18, <1>19 DEF l, t

-----------------------------------------------------------------------------
(* The cache.                                                              *)

LEMMA AreNumbers ==
  ASSUME NEW S, NEW s \in Seq(S), NEW c \in Nat, NEW n \in Nat, Len(s) = n,
         \A i \in 1 .. n : s[i] = c + i
  PROVE  s = Numbers(c, n)
<1>1. DOMAIN s = 1 .. n /\ s = [i \in DOMAIN s |-> s[i]]
  BY LenProperties, SeqDef
<1>. QED  BY <1>1 DEF Numbers

LEMMA NumbersAre ==
  ASSUME NEW c \in Nat, NEW n \in Nat
  PROVE  /\ Numbers(c, n) \in Seq(Nat) /\ Len(Numbers(c, n)) = n
         /\ \A i \in 1 .. n : Numbers(c, n)[i] = c + i
<1>1. Numbers(c, n) \in Seq(Nat) /\ Len(Numbers(c, n)) = n
  BY NumbersAreBytes
<1>. QED  BY <1>1 DEF Numbers

LEMMA CountsIs ==
  ASSUME NEW S, NEW s \in Seq(S), NEW c \in Nat
  PROVE  Counts(s, c) <=> \A i \in 1 .. Len(s) : s[i] = c + i
<1>1. Len(s) \in Nat
  BY LenProperties
<1>2. \A i \in 1 .. Len(s) : Numbers(c, Len(s))[i] = c + i
  BY <1>1, NumbersAre
<1>3. (\A i \in 1 .. Len(s) : s[i] = c + i) => s = Numbers(c, Len(s))
  BY <1>1, AreNumbers
<1>. QED  BY <1>2, <1>3 DEF Counts

LEMMA CountsNone == ASSUME NEW c \in Nat PROVE Counts(<<>>, c)
<1>1. <<>> \in Seq(Nat) /\ Len(<<>>) = 0
  BY EmptySeq
<1>2. Counts(<<>>, c) <=> \A i \in 1 .. Len(<<>>) : <<>>[i] = c + i
  BY <1>1, CountsIs
<1>3. \A i \in 1 .. 0 : FALSE
  OBVIOUS
<1>. QED  BY <1>1, <1>2, <1>3

\* Two runs of numbers make one, and one is cut into two.
LEMMA CountsJoin ==
  ASSUME NEW S, NEW s \in Seq(S), NEW t \in Seq(S), NEW c \in Nat
  PROVE  Counts(s \o t, c) <=> Counts(s, c) /\ Counts(t, c + Len(s))
<1>. DEFINE st == s \o t
            a == Len(s)
            b == Len(t)
<1>1. /\ st \in Seq(S) /\ a \in Nat /\ b \in Nat /\ Len(st) = a + b
      /\ \A i \in 1 .. a : i \in 1 .. a + b /\ st[i] = s[i]
      /\ \A i \in 1 .. b : a + i \in 1 .. a + b /\ st[a + i] = t[i]
  BY ConcatAt
<1>2. c + a \in Nat
  BY <1>1
<1>. HIDE DEF st, a, b
<1>3. /\ Counts(s, c) <=> \A i \in 1 .. a : s[i] = c + i
      /\ Counts(t, c + a) <=> \A i \in 1 .. b : t[i] = c + a + i
      /\ Counts(st, c) <=> \A i \in 1 .. a + b : st[i] = c + i
  <2>1. Counts(s, c) <=> \A i \in 1 .. a : s[i] = c + i
    BY CountsIs DEF a
  <2>2. Counts(t, c + a) <=> \A i \in 1 .. b : t[i] = c + a + i
    BY <1>2, CountsIs DEF b
  <2>3. Counts(st, c) <=> \A i \in 1 .. a + b : st[i] = c + i
    BY <1>1, CountsIs, ZenonT(60)
  <2>. QED  BY <2>1, <2>2, <2>3
<1>4. ASSUME Counts(s, c), Counts(t, c + a) PROVE Counts(st, c)
  <2>1. ASSUME NEW i \in 1 .. a + b PROVE st[i] = c + i
    <3>1. CASE i <= a
      <4>1. i \in 1 .. a
        BY <1>1, <3>1
      <4>. QED  BY <1>1, <1>3, <1>4, <4>1
    <3>2. CASE i > a
      <4>. DEFINE j == i - a
      <4>1. j \in 1 .. b /\ a + j = i /\ c + a + j = c + i
        BY <1>1, <3>2
      <4>. HIDE DEF j
      <4>2. st[a + j] = t[j] /\ t[j] = c + a + j
        BY <1>1, <1>3, <1>4, <4>1
      <4>. QED  BY <4>1, <4>2
    <3>. QED  BY <1>1, <3>1, <3>2
  <2>. QED  BY <1>3, <2>1
<1>5. ASSUME Counts(st, c) PROVE Counts(s, c) /\ Counts(t, c + a)
  <2>1. \A i \in 1 .. a : s[i] = c + i
    BY <1>1, <1>3, <1>5
  <2>2. ASSUME NEW i \in 1 .. b PROVE t[i] = c + a + i
    <3>1. t[i] = st[a + i] /\ a + i \in 1 .. a + b
      BY <1>1
    <3>2. st[a + i] = c + (a + i) /\ c + (a + i) = c + a + i
      BY <1>1, <1>3, <1>5, <3>1
    <3>. QED  BY <3>1, <3>2
  <2>. QED  BY <1>3, <2>1, <2>2
<1>6. Counts(st, c) <=> Counts(s, c) /\ Counts(t, c + a)
  BY <1>4, <1>5
<1>. QED  BY <1>6 DEF st, a

\* What the first of some packets hold, when all of them hold a run of numbers.
First(ss, i) == FlattenSeq(SubSeq(ss, 1, i))

LEMMA FirstIs ==
  ASSUME NEW S, NEW ss \in Seq(Seq(S)), NEW c \in Nat, Counts(FlattenSeq(ss), c)
  PROVE  /\ First(ss, 0) = <<>> /\ First(ss, Len(ss)) = FlattenSeq(ss)
         /\ Len(FlattenSeq(ss)) \in Nat
         /\ \A i \in 0 .. Len(ss) : Len(First(ss, i)) \in 0 .. Len(FlattenSeq(ss))
         /\ \A i \in 1 .. Len(ss) :
              /\ ss[i] \in Seq(S) /\ Len(ss[i]) \in Nat
              /\ Len(First(ss, i)) = Len(First(ss, i - 1)) + Len(ss[i])
              /\ Counts(ss[i], c + Len(First(ss, i - 1)))
<1>. DEFINE m == Len(ss)
            n == Len(FlattenSeq(ss))
            f(i) == First(ss, i)
<1>1. m \in Nat /\ \A i \in 1 .. m : ss[i] \in Seq(S)
  BY LenProperties, ElementOfSeq
<1>2. ASSUME NEW i \in 0 .. m PROVE SubSeq(ss, 1, i) \in Seq(Seq(S)) /\ f(i) \in Seq(S) /\ Len(f(i)) \in Nat
  <2>1. SubSeq(ss, 1, i) \in Seq(Seq(S))
    BY Split
  <2>2. f(i) \in Seq(S)
    BY <2>1, FlattenIsSeq DEF First
  <2>. QED  BY <2>1, <2>2, LenProperties
<1>3. ASSUME NEW i \in 1 .. m PROVE f(i) = f(i - 1) \o ss[i]
  <2>. DEFINE s == SubSeq(ss, 1, i - 1)
  <2>1. i - 1 \in 0 .. m
    BY <1>1
  <2>2. s \in Seq(Seq(S))
    BY <1>2, <2>1
  <2>3. SubSeq(ss, 1, i) = Append(s, ss[i])
    <3>1. 1 \in 1 .. Len(ss) /\ i \in 1 .. Len(ss)
      BY <1>1
    <3>2. SubSeq(ss, 1, i) = s \o <<ss[i]>>
      BY <3>1, SubSeqRecursiveSecond
    <3>3. ss[i] \in Seq(S)
      BY <1>1
    <3>. HIDE DEF s
    <3>4. Append(s, ss[i]) = s \o <<ss[i]>>
      BY <2>2, <3>3, AppendIsConcat
    <3>. QED  BY <3>2, <3>4
  <2>4. ss[i] \in Seq(S)
    BY <1>1
  <2>. HIDE DEF s
  <2>5. FlattenSeq(Append(s, ss[i])) = FlattenSeq(s) \o ss[i]
    BY <2>2, <2>4, FlattenAppend
  <2>6. FlattenSeq(s) = f(i - 1)
    BY DEF s, First
  <2>. QED  BY <2>3, <2>5, <2>6 DEF First
<1>4. f(0) = <<>> /\ f(m) = FlattenSeq(ss) /\ n \in Nat
  <2>1. SubSeq(ss, 1, 0) = <<>>
    BY SubSeqEmpty
  <2>2. SubSeq(ss, 1, m) = ss
    BY SubSeqFull
  <2>3. FlattenSeq(ss) \in Seq(S)
    BY FlattenIsSeq
  <2>. QED  BY <2>1, <2>2, <2>3, FlattenNone, LenProperties DEF First
<1>. HIDE DEF f, m, n
<1>. DEFINE Good(i) == Len(f(i)) <= n /\ Counts(f(i), c)
            P == {d \in Nat : d <= m => Good(m - d)}
<1>5. ASSUME NEW i \in 1 .. m, Good(i)
      PROVE  /\ Good(i - 1) /\ Len(f(i)) = Len(f(i - 1)) + Len(ss[i]) /\ Len(ss[i]) \in Nat
             /\ Counts(ss[i], c + Len(f(i - 1)))
  <2>. DEFINE s == f(i - 1)
              t == ss[i]
  <2>1. s \in Seq(S) /\ t \in Seq(S) /\ Len(f(i)) \in Nat
    <3>1. i - 1 \in 0 .. m /\ i \in 0 .. m
      BY <1>1
    <3>. QED  BY <1>1, <1>2, <3>1
  <2>2. f(i) = s \o t
    BY <1>3
  <2>3. Counts(f(i), c) /\ Len(f(i)) <= n
    BY <1>5
  <2>. HIDE DEF s, t
  <2>4. Len(s) \in Nat /\ Len(t) \in Nat /\ Len(s \o t) = Len(s) + Len(t)
    BY <2>1, ConcatAt
  <2>5. Counts(s \o t, c) <=> Counts(s, c) /\ Counts(t, c + Len(s))
    BY <2>1, CountsJoin
  <2>6. Len(f(i)) = Len(s) + Len(t) /\ Counts(s, c) /\ Counts(t, c + Len(s))
    BY <2>2, <2>3, <2>4, <2>5
  <2>7. Len(s) <= n
    BY <1>4, <2>1, <2>3, <2>4, <2>6
  <2>. QED  BY <2>4, <2>6, <2>7 DEF s, t
<1>6. 0 \in P
  <2>1. Len(f(m)) = n /\ Counts(f(m), c)
    BY <1>4 DEF n
  <2>2. Good(m)
    BY <1>4, <2>1
  <2>3. m - 0 = m
    BY <1>1
  <2>. HIDE DEF Good
  <2>. QED  BY <2>2, <2>3
<1>7. ASSUME NEW d \in Nat, d \in P PROVE d + 1 \in P
  <2>1. ASSUME d + 1 <= m PROVE Good(m - (d + 1))
    <3>1. m - d \in 1 .. m /\ (m - d) - 1 = m - (d + 1) /\ d <= m
      BY <1>1, <2>1
    <3>. HIDE DEF Good
    <3>2. Good(m - d)
      BY <1>7, <3>1
    <3>3. Good((m - d) - 1)
      BY <1>5, <3>1, <3>2
    <3>. QED  BY <3>1, <3>3
  <2>. HIDE DEF Good
  <2>. QED  BY <2>1
<1>8. ASSUME NEW i \in 0 .. m PROVE Good(i)
  <2>1. m - i \in Nat /\ m - i <= m /\ m - (m - i) = i
    BY <1>1
  <2>2. m - i \in P
    <3>. HIDE DEF P
    <3>. QED  BY <1>6, <1>7, <2>1, Induction
  <2>. HIDE DEF Good
  <2>3. Good(m - (m - i))
    BY <2>1, <2>2
  <2>. QED  BY <2>1, <2>3
<1>9. ASSUME NEW i \in 0 .. m PROVE Len(f(i)) \in 0 .. n
  BY <1>2, <1>4, <1>8
<1>10. ASSUME NEW i \in 1 .. m
       PROVE  /\ ss[i] \in Seq(S) /\ Len(ss[i]) \in Nat
              /\ Len(f(i)) = Len(f(i - 1)) + Len(ss[i])
              /\ Counts(ss[i], c + Len(f(i - 1)))
  <2>1. i \in 0 .. m
    BY <1>1
  <2>. HIDE DEF Good
  <2>2. Good(i)
    BY <1>8, <2>1
  <2>. QED  BY <1>1, <1>5, <2>2
<1>. QED  BY <1>4, <1>9, <1>10 DEF f, m, n

\* _flushAll takes or keeps one packet.
Flushes == [k : Blocks, left : Seq(Seq(Units))]
FlushOne(acc, p) ==
  IF CanFlush(acc.k) THEN [acc EXCEPT !.k = SendPacket(@, p)] ELSE [acc EXCEPT !.left = Append(@, p)]

LEMMA FlushOneStays ==
  ASSUME NEW acc \in Flushes, NEW p \in Seq(Units)
  PROVE  /\ FlushOne(acc, p) \in Flushes
         /\ CanFlush(acc.k) => /\ FlushOne(acc, p).k = SendPacket(acc.k, p)
                               /\ FlushOne(acc, p).left = acc.left
         /\ ~CanFlush(acc.k) => /\ FlushOne(acc, p).k = acc.k
                                /\ FlushOne(acc, p).left = Append(acc.left, p)
<1>1. acc.k \in Blocks /\ acc.left \in Seq(Seq(Units))
  BY DEF Flushes
<1>2. SendPacket(acc.k, p) \in Blocks
  BY <1>1, SendPacketStays
<1>3. Append(acc.left, p) \in Seq(Seq(Units))
  BY <1>1, AppendProperties
<1>. DEFINE x == SendPacket(acc.k, p)
            y == Append(acc.left, p)
<1>4. CASE CanFlush(acc.k)
  <2>1. FlushOne(acc, p) = [acc EXCEPT !.k = x]
    BY <1>4 DEF FlushOne, Flushes
  <2>. HIDE DEF x, y
  <2>2. x \in Blocks
    BY <1>2 DEF x
  <2>3. FlushOne(acc, p) \in Flushes /\ FlushOne(acc, p).k = x /\ FlushOne(acc, p).left = acc.left
    BY <2>1, <2>2 DEF Flushes
  <2>. QED  BY <1>4, <2>3 DEF x
<1>5. CASE ~CanFlush(acc.k)
  <2>1. FlushOne(acc, p) = [acc EXCEPT !.left = y]
    BY <1>5 DEF FlushOne, Flushes
  <2>. HIDE DEF x, y
  <2>2. y \in Seq(Seq(Units))
    BY <1>3 DEF y
  <2>3. FlushOne(acc, p) \in Flushes /\ FlushOne(acc, p).k = acc.k /\ FlushOne(acc, p).left = y
    BY <2>1, <2>2 DEF Flushes
  <2>. QED  BY <1>5, <2>3 DEF y
<1>. QED  BY <1>4, <1>5

\* h[i] is what the first i packets of a cache make of k.
FlushedTo(h, k, packets) ==
  /\ h \in [0 .. Len(packets) -> Flushes] /\ h[0] = [k |-> k, left |-> <<>>]
  /\ \A i \in 1 .. Len(packets) : h[i] = FlushOne(h[i - 1], packets[i])
  /\ FlushCache(k, packets) = h[Len(packets)]

LEMMA CacheFlushed ==
  ASSUME NEW k \in Blocks, NEW packets \in Seq(Seq(Units))
  PROVE  Len(packets) \in Nat /\ \E h : FlushedTo(h, k, packets)
<1>. DEFINE m == Len(packets)
            B == DOMAIN packets
            base == [k |-> k, left |-> <<>>]
            Put(acc, p) == IF CanFlush(acc.k)
                           THEN [acc EXCEPT !.k = SendPacket(@, p)]
                           ELSE [acc EXCEPT !.left = Append(@, p)]
            step == [x \in Flushes \X (1 .. m) |-> Put(x[1], packets[x[2]])]
            IsTurns(g) == g = [T \in SUBSET B |->
                                 IF T = {} THEN base ELSE Put(g[T \ {Max(T)}], packets[Max(T)])]
            turns == CHOOSE g : IsTurns(g)
<1>0. FlushCache(k, packets) = turns[B]
  BY DEF FlushCache, FoldLeft, MapThenFoldSet
<1>1. m \in Nat /\ B = 1 .. m /\ \A i \in 1 .. m : packets[i] \in Seq(Units)
  BY LenProperties, ElementOfSeq
<1>2. base \in Flushes
  <2>1. <<>> \in Seq(Seq(Units))
    BY EmptySeq
  <2>. QED  BY <2>1 DEF Flushes
<1>3. \A acc, p : Put(acc, p) = FlushOne(acc, p)
  BY DEF FlushOne
<1>4. \A acc \in Flushes, i \in 1 .. m : FlushOne(acc, packets[i]) \in Flushes
  BY <1>1, FlushOneStays
<1>. HIDE DEF Put, base, B, m
<1>5. step \in [Flushes \X (1 .. m) -> Flushes]
  BY <1>3, <1>4
<1>6. \A acc \in Flushes, i \in 1 .. m : step[<<acc, i>>] = Put(acc, packets[i])
  OBVIOUS
<1>. HIDE DEF step
<1>7. PICK g : Turns(g, Flushes, base, m, step)
  BY <1>1, <1>2, <1>5, TurnsExist
<1>8. \A T \in SUBSET B : T # {} => Max(T) \in 1 .. m /\ T \ {Max(T)} \in SUBSET B
  <2>1. ASSUME NEW T \in SUBSET B, T # {} PROVE Max(T) \in 1 .. m
    <3>1. T \subseteq 1 .. m
      BY <1>1
    <3>2. Max(T) \in T
      BY <1>1, <2>1, <3>1, GreatestExists
    <3>. QED  BY <3>1, <3>2
  <2>. QED  BY <2>1
<1>9. IsTurns(g)
  <2>1. ASSUME NEW T \in SUBSET B
        PROVE  g[T] = IF T = {} THEN base ELSE Put(g[T \ {Max(T)}], packets[Max(T)])
    <3>1. g[T] = Turn(g, base, step, T)
      BY <1>1, <1>7 DEF Turns
    <3>2. CASE T = {}
      BY <3>1, <3>2 DEF Turn
    <3>3. CASE T # {}
      <4>1. g[T \ {Max(T)}] \in Flushes /\ Max(T) \in 1 .. m
        BY <1>1, <1>7, <1>8, <3>3 DEF Turns
      <4>2. g[T] = step[<<g[T \ {Max(T)}], Max(T)>>]
        BY <3>1, <3>3 DEF Turn
      <4>. QED  BY <1>6, <3>3, <4>1, <4>2
    <3>. QED  BY <3>2, <3>3
  <2>2. g = [T \in SUBSET B |-> g[T]]
    BY <1>1, <1>7 DEF Turns
  <2>. QED  BY <2>1, <2>2
<1>10. IsTurns(turns)
  <2>. HIDE DEF IsTurns
  <2>. QED  BY <1>9
<1>. HIDE DEF turns
<1>11. \A T \in SUBSET B : turns[T] = IF T = {} THEN base ELSE Put(turns[T \ {Max(T)}], packets[Max(T)])
  BY <1>10
<1>. HIDE DEF IsTurns
<1>. DEFINE h == [i \in 0 .. m |-> turns[1 .. i]]
            P == {i \in Nat : i <= m => turns[1 .. i] \in Flushes}
<1>12. turns[1 .. 0] = base
  <2>1. 1 .. 0 = {} /\ {} \in SUBSET B
    OBVIOUS
  <2>. QED  BY <1>11, <2>1
<1>13. ASSUME NEW i \in Nat, i + 1 <= m PROVE turns[1 .. i + 1] = FlushOne(turns[1 .. i], packets[i + 1])
  <2>. DEFINE T == 1 .. i + 1
  <2>1. T # {} /\ Max(T) = i + 1 /\ T \ {i + 1} = 1 .. i
    BY UpToNext
  <2>2. T \in SUBSET B
    BY <1>1, <1>13
  <2>. HIDE DEF T
  <2>3. turns[T] = Put(turns[T \ {Max(T)}], packets[Max(T)])
    BY <1>11, <2>1, <2>2
  <2>. QED  BY <1>3, <2>1, <2>3 DEF T
<1>14. \A i \in Nat : i \in P
  <2>1. 0 \in P
    BY <1>2, <1>12
  <2>2. ASSUME NEW i \in Nat, i \in P PROVE i + 1 \in P
    <3>1. ASSUME i + 1 <= m PROVE turns[1 .. i + 1] \in Flushes
      <4>1. i <= m /\ i + 1 \in 1 .. m
        BY <1>1, <3>1
      <4>2. turns[1 .. i] \in Flushes
        BY <2>2, <4>1
      <4>. QED  BY <1>4, <1>13, <3>1, <4>1, <4>2
    <3>. QED  BY <3>1
  <2>. HIDE DEF P
  <2>. QED  BY <2>1, <2>2, Induction
<1>15. h \in [0 .. m -> Flushes] /\ h[0] = base /\ h[m] = turns[B]
  <2>1. \A i \in 0 .. m : turns[1 .. i] \in Flushes
    BY <1>1, <1>14
  <2>2. 0 \in 0 .. m /\ m \in 0 .. m
    BY <1>1
  <2>. QED  BY <1>1, <1>12, <2>1, <2>2
<1>16. ASSUME NEW i \in 1 .. m PROVE h[i] = FlushOne(h[i - 1], packets[i])
  <2>. DEFINE j == i - 1
  <2>1. j \in Nat /\ j + 1 = i /\ j \in 0 .. m /\ i \in 0 .. m /\ j + 1 <= m
    BY <1>1
  <2>. HIDE DEF j
  <2>2. turns[1 .. j + 1] = FlushOne(turns[1 .. j], packets[j + 1])
    BY <1>13, <2>1
  <2>3. h[i] = FlushOne(h[j], packets[i])
    BY <2>1, <2>2
  <2>. QED  BY <2>3 DEF j
<1>. HIDE DEF h
<1>17. FlushedTo(h, k, packets)
  BY <1>0, <1>15, <1>16 DEF FlushedTo, base, m
<1>. QED  BY <1>1, <1>17 DEF m

\* The cache is taken or kept, in order.
LEMMA FlushCacheIs ==
  ASSUME NEW k \in Blocks, NEW F, SendsWell(k, F), NEW packets \in Seq(Seq(Units)),
         NEW n, Small(n), WaitsWell(k, packets, n),
         NEW r, r = FlushCache(k, packets)
  PROVE  /\ r \in Flushes /\ WaitsWell(r.k, r.left, n)
         /\ \E E : TookMore(k, F, r.k, E)
<1>. DEFINE m == Len(packets)
            c == Taken(k)
            size(i) == Len(First(packets, i))
            all == Len(FlattenSeq(packets))
<1>1. PICK h : FlushedTo(h, k, packets)
  BY CacheFlushed
<1>2. m \in Nat /\ c \in Nat /\ n \in Nat
  BY CacheFlushed, TakenIsNat DEF Small
<1>3. /\ First(packets, 0) = <<>> /\ First(packets, m) = FlattenSeq(packets)
      /\ all \in Nat /\ c + all = n
      /\ \A i \in 0 .. m : size(i) \in 0 .. all
      /\ \A i \in 1 .. m :
           /\ packets[i] \in Seq(Units) /\ Len(packets[i]) \in Nat
           /\ size(i) = size(i - 1) + Len(packets[i])
           /\ Counts(packets[i], c + size(i - 1))
  <2>1. Counts(FlattenSeq(packets), c) /\ c + all = n
    BY DEF WaitsWell
  <2>. HIDE DEF c
  <2>. QED  BY <1>2, <2>1, FirstIs
<1>4. size(0) = 0 /\ size(m) = all
  BY <1>3, EmptySeq
<1>. HIDE DEF m, c, size, all
<1>. DEFINE Left(i) == FlattenSeq(h[i].left)
            After(i) == /\ \E E : TookMore(k, F, h[i].k, E)
                        /\ Counts(Left(i), Taken(h[i].k))
                        /\ Taken(h[i].k) + Len(Left(i)) = c + size(i)
                        /\ h[i].left # <<>> => ~CanFlush(h[i].k)
            P == {i \in Nat : i <= m => After(i)}
<1>5. \A i \in 0 .. m : h[i] \in Flushes /\ h[i].k \in Blocks /\ h[i].left \in Seq(Seq(Units))
  BY <1>1 DEF FlushedTo, Flushes, m
<1>6. 0 \in P
  <2>1. h[0].k = k /\ h[0].left = <<>>
    BY <1>1 DEF FlushedTo
  <2>2. TookMore(k, F, k, F)
    BY TookNothing
  <2>3. Left(0) = <<>> /\ Len(<<>>) = 0 /\ <<>> \in Seq(Units)
    BY <2>1, FlattenNone, EmptySeq
  <2>4. Counts(<<>>, Taken(k))
    BY TakenIsNat, CountsNone
  <2>5. After(0)
    <3>. HIDE DEF Left
    <3>1. Taken(k) + 0 = c + size(0)
      BY <1>2, <1>4 DEF c
    <3>. QED  BY <2>1, <2>2, <2>3, <2>4, <3>1
  <2>. HIDE DEF After
  <2>. QED  BY <2>5
<1>7. ASSUME NEW i \in Nat, i \in P PROVE i + 1 \in P
  <2>1. ASSUME i + 1 <= m PROVE After(i + 1)
    <3>. DEFINE j == i + 1
                x == h[i].k
                l == h[i].left
                p == packets[j]
                g == h[j]
    <3>1. j \in 1 .. m /\ j - 1 = i /\ i <= m /\ i \in 0 .. m /\ j \in 0 .. m
      BY <1>2, <2>1
    <3>2. After(i)
      <4>. HIDE DEF After
      <4>. QED  BY <1>7, <3>1
    <3>3. PICK E : TookMore(k, F, x, E)
      BY <3>2
    <3>4. /\ h[i] \in Flushes /\ x \in Blocks /\ l \in Seq(Seq(Units)) /\ SendsWell(x, E)
          /\ p \in Seq(Units) /\ Len(p) \in Nat
          /\ size(j) = size(i) + Len(p) /\ Counts(p, c + size(i))
          /\ size(i) \in Nat /\ size(j) \in Nat /\ size(j) <= all
      BY <1>3, <1>5, <3>1, <3>3 DEF TookMore, all
    <3>5. g = FlushOne(h[i], p)
      BY <1>1, <3>1 DEF FlushedTo, m
    <3>5a. /\ CanFlush(x) => g.k = SendPacket(x, p) /\ g.left = l
           /\ ~CanFlush(x) => g.k = x /\ g.left = Append(l, p)
      <4>. DEFINE a == h[i]
      <4>1. a \in Flushes /\ p \in Seq(Units) /\ g = FlushOne(a, p)
        BY <3>4, <3>5
      <4>. HIDE DEF a, g, p
      <4>2. /\ CanFlush(a.k) => g.k = SendPacket(a.k, p) /\ g.left = a.left
            /\ ~CanFlush(a.k) => g.k = a.k /\ g.left = Append(a.left, p)
        BY <4>1, FlushOneStays
      <4>. QED  BY <4>2 DEF a
    <3>6. /\ Counts(FlattenSeq(l), Taken(x)) /\ Taken(x) + Len(FlattenSeq(l)) = c + size(i)
          /\ l # <<>> => ~CanFlush(x)
      BY <3>2
    <3>. HIDE DEF p, j, After
    <3>7. CASE CanFlush(x)
      <4>1. l = <<>>
        BY <3>6, <3>7
      <4>2. FlattenSeq(l) = <<>> /\ Len(FlattenSeq(l)) = 0
        BY <4>1, FlattenNone, EmptySeq
      <4>3. Taken(x) = c + size(i)
        BY <3>4, <3>6, <4>2, TakenIsNat
      <4>4. g.k = SendPacket(x, p) /\ g.left = l
        BY <3>5a, <3>7
      <4>5. Small(Taken(x) + Len(p))
        <5>1. c + size(j) \in Nat /\ c + size(j) <= n
          BY <1>2, <1>3, <3>4
        <5>2. Taken(x) + Len(p) = c + size(j)
          BY <1>2, <3>4, <4>3
        <5>. QED  BY <1>2, <5>1, <5>2, StaysSmall
      <4>6. \A u \in 1 .. Len(p) : p[u] = Taken(x) + u
        <5>1. Taken(x) \in Nat /\ Counts(p, Taken(x))
          BY <3>4, <4>3, TakenIsNat
        <5>. QED  BY <3>4, <5>1, CountsIs
      <4>. HIDE DEF x, g
      <4>7. PICK G : TookMore(x, E, g.k, G) /\ Taken(g.k) = Taken(x) + Len(p)
        BY <3>4, <4>4, <4>5, <4>6, SendPacketIs
      <4>8. TookMore(k, F, g.k, G)
        BY <3>3, <3>4, <4>7, TookOn
      <4>9. Taken(g.k) + Len(FlattenSeq(l)) = c + size(j)
        <5>1. Taken(g.k) = c + size(i) + Len(p)
          BY <4>3, <4>7
        <5>. QED  BY <1>2, <3>4, <4>2, <5>1
      <4>10. Counts(FlattenSeq(l), Taken(g.k))
        <5>1. Taken(g.k) \in Nat
          BY <4>7, TakenIsNat DEF TookMore
        <5>. QED  BY <4>2, <5>1, CountsNone
      <4>. HIDE DEF l
      <4>11. After(j)
        BY <4>1, <4>4, <4>8, <4>9, <4>10 DEF After, Left, g
      <4>. QED  BY <4>11 DEF j
    <3>8. CASE ~CanFlush(x)
      <4>1. g.k = x /\ g.left = Append(l, p)
        BY <3>5a, <3>8
      <4>. DEFINE s == FlattenSeq(l)
      <4>2. FlattenSeq(Append(l, p)) = s \o p /\ s \in Seq(Units)
        <5>. HIDE DEF l
        <5>. QED  BY <3>4, FlattenAppend, FlattenIsSeq
      <4>3. Taken(x) \in Nat /\ Len(s) \in Nat /\ Taken(x) + Len(s) = c + size(i)
        BY <3>4, <3>6, <4>2, TakenIsNat, LenProperties
      <4>4. Counts(s, Taken(x)) /\ Counts(p, Taken(x) + Len(s))
        BY <3>4, <3>6, <4>3
      <4>. HIDE DEF s, x, l, g
      <4>5. Len(s \o p) = Len(s) + Len(p) /\ (Counts(s \o p, Taken(x)) <=> Counts(s, Taken(x)) /\ Counts(p, Taken(x) + Len(s)))
        BY <3>4, <4>2, <4>3, ConcatAt, CountsJoin
      <4>6. Taken(x) + Len(s \o p) = c + size(j)
        <5>. DEFINE u == Len(s \o p)
        <5>1. u = Len(s) + Len(p)
          BY <4>5
        <5>. HIDE DEF u
        <5>2. Taken(x) + u = c + size(j)
          <6>. DEFINE t == Taken(x)
                      a == Len(s)
                      b == Len(p)
                      si == size(i)
                      sj == size(j)
          <6>1. /\ t \in Nat /\ a \in Nat /\ b \in Nat /\ c \in Nat /\ si \in Nat
                /\ u = a + b /\ t + a = c + si /\ sj = si + b
            BY <1>2, <3>4, <4>3, <5>1
          <6>. HIDE DEF t, a, b, si, sj
          <6>2. t + u = c + sj
            BY <6>1
          <6>. QED  BY <6>2 DEF t, sj
        <5>. QED  BY <5>2 DEF u
      <4>7. After(j)
        BY <3>3, <3>8, <4>1, <4>2, <4>4, <4>5, <4>6 DEF After, Left, g
      <4>. QED  BY <4>7 DEF j
    <3>. QED  BY <3>7, <3>8
  <2>. HIDE DEF After
  <2>. QED  BY <2>1
<1>8. m \in P
  <2>. HIDE DEF P
  <2>. QED  BY <1>2, <1>6, <1>7, Induction
<1>9. After(m) /\ r = h[m] /\ m \in 0 .. m
  <2>1. m \in 0 .. m /\ m <= m
    BY <1>2
  <2>2. r = h[m]
    BY <1>1 DEF FlushedTo, m
  <2>. HIDE DEF After
  <2>. QED  BY <1>8, <2>1, <2>2
<1>10. /\ \E E : TookMore(k, F, r.k, E)
       /\ Counts(FlattenSeq(r.left), Taken(r.k))
       /\ Taken(r.k) + Len(FlattenSeq(r.left)) = c + size(m)
  BY <1>9
<1>. HIDE DEF After
<1>11. r \in Flushes /\ c + size(m) = n
  BY <1>3, <1>4, <1>5, <1>9
<1>. QED  BY <1>10, <1>11 DEF WaitsWell

-----------------------------------------------------------------------------
(* ikcp_recv.                                                              *)

\* A message that is ready ends in rcv_queue.
LEMMA PeekedIs ==
  ASSUME NEW k \in Blocks, NEW given \in Nat, NEW F, NEW top \in Nat, NEW n \in Nat,
         IsCut(F, n), top <= n, ReceivesWell(k, given, F, top), Ready(k)
  PROVE  Peeked(k) \in 1 .. Len(k.rcvQ)
<1>. DEFINE q == k.rcvQ
            l == Len(q)
            f == q[1].frg
            Ends0(i) == q[i].frg = 0 /\ \A j \in 1 .. i - 1 : q[j].frg # 0
            P == {j \in Nat : j <= f => q[1 + j].frg = f - j}
<1>1. /\ l \in Nat /\ DOMAIN q = 1 .. l /\ k.rcvNxt \in Nat
      /\ \A i \in 1 .. l : q[i].frg \in Nat
      /\ k.rcvNxt = given + l /\ k.rcvNxt <= top
      /\ \A i \in 1 .. l : q[i].frg = F[given + i]
  <2>1. \A i \in 1 .. l : q[i] \in Queued(Units)
    BY BlockQueues
  <2>2. \A x \in Queued(Units) : x.frg \in Nat
    BY Consts DEF Queued, Frgs
  <2>. QED  BY <2>1, <2>2, BlockQueues DEF ReceivesWell
<1>2. 1 \in 1 .. l /\ f \in Nat /\ f < l
  <2>1. q # <<>> /\ l > f
    BY DEF Ready
  <2>2. l # 0
    <3>1. q \in Seq(Queued(Units))
      BY BlockFields
    <3>. QED  BY <2>1, <3>1, EmptySeq
  <2>. QED  BY <1>1, <2>1, <2>2
<1>3. \A i \in 1 .. l : given + i \in 1 .. n
  <2>1. given + l <= n
    BY <1>1
  <2>. QED  BY <1>1, <2>1
<1>. HIDE DEF q, l, f
<1>4. 0 \in P
  <2>1. q[1 + 0].frg = f - 0
    BY <1>2 DEF f
  <2>. QED  BY <2>1
<1>5. ASSUME NEW j \in Nat, j \in P PROVE j + 1 \in P
  <2>1. ASSUME j + 1 <= f PROVE q[1 + (j + 1)].frg = f - (j + 1)
    <3>1. 1 + j \in 1 .. l /\ 1 + (j + 1) \in 1 .. l /\ j <= f /\ f - j # 0
      BY <1>1, <1>2, <2>1
    <3>2. q[1 + j].frg = f - j
      BY <1>5, <3>1
    <3>3. F[given + (1 + j)] = f - j /\ given + (1 + j) \in 1 .. n
      BY <1>1, <1>3, <3>1, <3>2
    <3>4. F[given + (1 + j) + 1] = f - j - 1
      BY <3>1, <3>3 DEF IsCut
    <3>5. given + (1 + j) + 1 = given + (1 + (j + 1)) /\ f - j - 1 = f - (j + 1)
      BY <1>2
    <3>. QED  BY <1>1, <3>1, <3>4, <3>5
  <2>. QED  BY <2>1
<1>6. \A j \in Nat : j \in P
  <2>. HIDE DEF P
  <2>. QED  BY <1>4, <1>5, Induction
<1>7. Ends0(1 + f) /\ 1 + f \in 1 .. l
  <2>1. q[1 + f].frg = 0
    <3>1. q[1 + f].frg = f - f
      BY <1>2, <1>6
    <3>. QED  BY <1>2, <3>1
  <2>2. ASSUME NEW i \in 1 .. f PROVE q[i].frg # 0
    <3>. DEFINE j == i - 1
    <3>1. j \in Nat /\ j <= f /\ i = 1 + j /\ f - j # 0
      BY <1>2
    <3>. HIDE DEF j
    <3>2. q[1 + j].frg = f - j
      BY <1>6, <3>1
    <3>. QED  BY <3>1, <3>2
  <2>3. (1 + f) - 1 = f /\ 1 + f \in 1 .. l
    BY <1>1, <1>2
  <2>. QED  BY <2>1, <2>2, <2>3
<1>8. Peeked(k) = CHOOSE i \in 1 .. l : Ends0(i)
  BY <1>1 DEF Peeked, q
<1>. HIDE DEF Ends0
<1>9. Peeked(k) \in 1 .. l
  BY <1>7, <1>8
<1>. QED  BY <1>9 DEF l, q

\* What is handed over is what comes next.
LEMMA RecvIs ==
  ASSUME NEW k \in Blocks, NEW given \in Nat, NEW F, NEW top, Small(top), NEW n \in Nat,
         IsCut(F, n), top <= n, ReceivesWell(k, given, F, top), Ready(k),
         NEW h, h = Recv(k)
  PROVE  /\ Message(k) \in Seq(Units) /\ Len(Message(k)) \in Nat /\ Counts(Message(k), given)
         /\ h \in Blocks /\ ReceivesWell(h, given + Len(Message(k)), F, top)
         /\ \A i \in Nat : Has(k, i) => Has(h, i)
         /\ k.rcvNxt <= h.rcvNxt
         /\ SameSender(k, h) /\ h.rmt = k.rmt
<1>. DEFINE p == Peeked(k)
            q == k.rcvQ
            l == Len(q)
            s == SubSeq(q, p + 1, l)
            j == [k EXCEPT !.rcvQ = s]
            rest == MoveReady(j)
            units == [i \in 1 .. p |-> q[i].unit]
<1>0. top \in Nat
  BY DEF Small
<1>1. /\ p \in 1 .. l /\ l \in Nat /\ q \in Seq(Queued(Units))
      /\ \A i \in 1 .. l : q[i] \in Queued(Units) /\ q[i].unit = given + i /\ q[i].frg = F[given + i]
      /\ l <= RcvWnd /\ k.rcvNxt = given + l /\ k.rcvNxt <= top /\ k.rcvNxt \in Nat /\ RcvWnd \in Nat
  <2>1. p \in 1 .. l
    BY <1>0, PeekedIs
  <2>2. l \in Nat /\ q \in Seq(Queued(Units)) /\ k.rcvNxt \in Nat /\ RcvWnd \in Nat
    BY BlockQueues, BlockFields, Consts
  <2>3. \A i \in 1 .. l : q[i] \in Queued(Units) /\ q[i].unit = given + i /\ q[i].frg = F[given + i]
    BY BlockQueues DEF ReceivesWell
  <2>4. l <= RcvWnd /\ k.rcvNxt = given + l /\ k.rcvNxt <= top
    BY DEF ReceivesWell
  <2>. QED  BY <2>1, <2>2, <2>3, <2>4
<1>2. Message(k) = units
  BY DEF Message
<1>3. j = [k EXCEPT !.rcvQ = SubSeq(@, Peeked(k) + 1, Len(@))]
  BY DEF Blocks, KcpCb
<1>4. h = [rest EXCEPT !.tell = @ \/ (l >= RcvWnd /\ Len(rest.rcvQ) < RcvWnd)]
  <2>. DEFINE x == [k EXCEPT !.rcvQ = SubSeq(@, Peeked(k) + 1, Len(@))]
              z == MoveReady(x)
  <2>1. h = [z EXCEPT !.tell = @ \/ (Len(k.rcvQ) >= RcvWnd /\ Len(z.rcvQ) < RcvWnd)]
    BY DEF Recv
  <2>2. x = j
    BY <1>3
  <2>. HIDE DEF x, j
  <2>3. z = rest
    BY <2>2
  <2>. HIDE DEF z, rest
  <2>. QED  BY <2>1, <2>3
<1>. HIDE DEF p, l, q
<1>5. /\ units \in Seq(Units) /\ Len(units) = p /\ Counts(units, given)
  <2>0. p \in Nat
    BY <1>1
  <2>1. \A i \in 1 .. p : q[i].unit \in Units /\ q[i].unit = given + i
    BY <1>1 DEF Queued
  <2>2. units \in [1 .. p -> Units]
    BY <2>1
  <2>3. \A i \in 1 .. p : units[i] = given + i
    BY <2>1
  <2>. HIDE DEF units
  <2>4. units \in Seq(Units) /\ Len(units) = p
    BY <2>0, <2>2, TableIsSeq
  <2>. QED  BY <2>3, <2>4, CountsIs
<1>. HIDE DEF units
<1>6. /\ s \in Seq(Queued(Units)) /\ Len(s) = l - p
      /\ \A i \in 1 .. l - p : s[i] = q[p + i]
  <2>1. p \in 0 .. l
    BY <1>1
  <2>2. s \in Seq(Queued(Units)) /\ Len(s) = l - p
    <3>1. p \in 0 .. Len(q)
      BY <2>1 DEF l
    <3>. QED  BY <1>1, <3>1, Split DEF l
  <2>3. \A i \in 1 .. l - (p + 1) + 1 : s[i] = q[p + 1 + i - 1]
    <3>1. p + 1 \in Int /\ l \in Int /\ \A i \in p + 1 .. l : q[i] \in Queued(Units)
      BY <1>1
    <3>. QED  BY <3>1, SubSeqProperties
  <2>. HIDE DEF s
  <2>4. ASSUME NEW i \in 1 .. l - p PROVE s[i] = q[p + i]
    <3>1. i \in 1 .. l - (p + 1) + 1 /\ p + 1 + i - 1 = p + i
      BY <1>1
    <3>2. s[i] = q[p + 1 + i - 1]
      BY <2>3, <3>1
    <3>. QED  BY <3>1, <3>2
  <2>. QED  BY <2>2, <2>4
<1>. HIDE DEF s
<1>7. /\ j \in Blocks /\ SameSender(k, j) /\ j.rmt = k.rmt /\ j.rcvQ = s /\ j.rcvBuf = k.rcvBuf
      /\ j.rcvNxt = k.rcvNxt /\ j.acks = k.acks
  BY <1>6 DEF Blocks, KcpCb, SameSender
<1>. HIDE DEF j
<1>8. \A i : Has(j, i) <=> Has(k, i)
  BY <1>7 DEF Has
<1>9. given + p \in Nat /\ ReceivesWell(j, given + p, F, top)
  <2>1. /\ given + p \in Nat /\ Len(s) <= RcvWnd /\ k.rcvNxt = given + p + Len(s)
    BY <1>1, <1>6
  <2>2. ASSUME NEW i \in 1 .. Len(s)
        PROVE  s[i].unit = given + p + i /\ s[i].frg = F[given + p + i]
    <3>1. i \in 1 .. l - p /\ p + i \in 1 .. l /\ given + (p + i) = given + p + i
      BY <1>1, <1>6
    <3>. QED  BY <1>1, <1>6, <3>1
  <2>3. /\ \A x \in k.rcvBuf :
             Fits(x, F) /\ k.rcvNxt <= x.sn /\ x.sn < k.rcvNxt + RcvWnd /\ x.sn < top
        /\ \A i \in 1 .. Len(k.acks) : Has(j, k.acks[i])
    BY <1>8 DEF ReceivesWell
  <2>. QED  BY <1>1, <1>7, <2>1, <2>2, <2>3 DEF ReceivesWell
<1>10. /\ rest \in Blocks /\ ReceivesWell(rest, given + p, F, top)
       /\ \A i \in Nat : Has(j, i) => Has(rest, i)
       /\ j.rcvNxt <= rest.rcvNxt
       /\ SameSender(j, rest) /\ rest.rmt = j.rmt
  BY <1>7, <1>9, MoveReadyIs
<1>. HIDE DEF rest
<1>11. /\ h \in Blocks /\ SameSender(rest, h) /\ SameReceiver(rest, h) /\ h.rmt = rest.rmt
  <2>. DEFINE b == rest.tell \/ (l >= RcvWnd /\ Len(rest.rcvQ) < RcvWnd)
  <2>1. h = [rest EXCEPT !.tell = b] /\ b \in BOOLEAN
    BY <1>4, <1>10 DEF Blocks, KcpCb
  <2>. HIDE DEF b
  <2>. QED  BY <1>10, <2>1 DEF Blocks, KcpCb, SameSender, SameReceiver
<1>12. ReceivesWell(h, given + p, F, top) /\ \A i : Has(rest, i) <=> Has(h, i)
  BY <1>10, <1>11, StillReceives
<1>13. \A i \in Nat : Has(k, i) => Has(h, i)
  BY <1>8, <1>10, <1>12
<1>14. SameSender(k, h) /\ h.rmt = k.rmt /\ k.rcvNxt <= h.rcvNxt
  BY <1>7, <1>10, <1>11 DEF SameSender, SameReceiver
<1>15. Len(Message(k)) = p /\ p \in Nat
  BY <1>1, <1>2, <1>5
<1>. QED  BY <1>2, <1>5, <1>11, <1>12, <1>13, <1>14, <1>15

-----------------------------------------------------------------------------
(* What an end does to the two directions.                                 *)

\* k, and p at the other end, as far as k answers for them.
Tied(k, F, p, G, given) ==
  /\ k \in Blocks /\ SendsWell(k, F) /\ Keeps(k, p)
  /\ ReceivesWell(k, given, G, p.nxt) /\ Keeps(p, k)

\* k has come after k0.
Grew(k0, F0, k, F) ==
  /\ k0.nxt <= k.nxt /\ Taken(k0) <= Taken(k) /\ k0.rcvNxt <= k.rcvNxt
  /\ \A n \in Nat : Has(k0, n) => Has(k, n)
  /\ \A u \in 1 .. Taken(k0) : F[u] = F0[u]

LEMMA GrewOn ==
  ASSUME NEW k0 \in Blocks, NEW F0, NEW k1 \in Blocks, NEW F1, NEW k2 \in Blocks, NEW F2,
         Grew(k0, F0, k1, F1), Grew(k1, F1, k2, F2)
  PROVE  Grew(k0, F0, k2, F2)
<1>1. /\ Taken(k0) \in Nat /\ Taken(k1) \in Nat /\ Taken(k2) \in Nat
      /\ k0.nxt \in Nat /\ k1.nxt \in Nat /\ k2.nxt \in Nat
      /\ k0.rcvNxt \in Nat /\ k1.rcvNxt \in Nat /\ k2.rcvNxt \in Nat
  BY TakenIsNat, BlockQueues
<1>2. /\ k0.nxt <= k1.nxt /\ Taken(k0) <= Taken(k1) /\ k0.rcvNxt <= k1.rcvNxt
      /\ k1.nxt <= k2.nxt /\ Taken(k1) <= Taken(k2) /\ k1.rcvNxt <= k2.rcvNxt
  BY DEF Grew
<1>3. k0.nxt <= k2.nxt /\ Taken(k0) <= Taken(k2) /\ k0.rcvNxt <= k2.rcvNxt
  BY <1>1, <1>2
<1>4. \A u \in 1 .. Taken(k0) : F2[u] = F0[u]
  <2>1. \A u \in 1 .. Taken(k0) : u \in 1 .. Taken(k1)
    BY <1>1, <1>2
  <2>. QED  BY <2>1 DEF Grew
<1>. QED  BY <1>3, <1>4 DEF Grew

\* The numbers of a block are no more than it has taken.
LEMMA NumberedAreTaken ==
  ASSUME NEW k \in Blocks
  PROVE  k.nxt \in Nat /\ Taken(k) \in Nat /\ k.nxt <= Taken(k)
<1>1. k.nxt \in Nat /\ Len(k.sndQ) \in Nat
  BY BlockQueues
<1>. QED  BY <1>1 DEF Taken

\* What a block has said stays true of it.
LEMMA SaidGrows ==
  ASSUME NEW k0 \in Blocks, NEW F0, NEW k \in Blocks, NEW F, Grew(k0, F0, k, F)
  PROVE  Said(k0, F0) \subseteq Said(k, F)
<1>1. ASSUME NEW x \in Said(k0, F0) PROVE x \in Said(k, F)
  <2>1. /\ x.sn \in Nat /\ x.una \in Nat /\ k0.rcvNxt \in Nat /\ k.rcvNxt \in Nat
        /\ k0.nxt \in Nat /\ k.nxt \in Nat /\ Taken(k0) \in Nat /\ k0.nxt <= Taken(k0)
    BY BlockQueues, NumberedAreTaken, SnIsNat DEF Said
  <2>2. k0.nxt <= k.nxt /\ k0.rcvNxt <= k.rcvNxt
    BY DEF Grew
  <2>3. x.una <= k.rcvNxt
    <3>1. x.una <= k0.rcvNxt
      BY DEF Said
    <3>. QED  BY <2>1, <2>2, <3>1
  <2>4. ASSUME x.cmd = "PUSH" PROVE x.sn < k.nxt /\ Fits(x, F)
    <3>1. x.sn < k0.nxt /\ x.unit = x.sn + 1 /\ x.frg = F0[x.unit]
      BY <2>4 DEF Said, Fits
    <3>2. x.sn < k.nxt /\ x.unit \in 1 .. Taken(k0)
      BY <2>1, <2>2, <3>1
    <3>3. F[x.unit] = F0[x.unit]
      BY <3>2 DEF Grew
    <3>. QED  BY <3>1, <3>2, <3>3 DEF Fits
  <2>5. ASSUME x.cmd = "ACK" PROVE Has(k, x.sn)
    <3>1. Has(k0, x.sn)
      BY <2>5 DEF Said
    <3>. QED  BY <2>1, <3>1 DEF Grew
  <2>. QED  BY <2>3, <2>4, <2>5 DEF Said
<1>. QED  BY <1>1

LEMMA SeqsGrow ==
  ASSUME NEW S, NEW T, S \subseteq T, NEW q \in Seq(Seq(S))
  PROVE  q \in Seq(Seq(T))
<1>1. Seq(S) \subseteq Seq(T)
  <2>1. ASSUME NEW s \in Seq(S) PROVE s \in Seq(T)
    <3>1. Len(s) \in Nat /\ DOMAIN s = 1 .. Len(s) /\ \A i \in 1 .. Len(s) : s[i] \in T
      BY LenProperties, ElementOfSeq
    <3>2. s = [i \in DOMAIN s |-> s[i]]
      BY SeqDef
    <3>3. s \in [1 .. Len(s) -> T]
      BY <3>1, <3>2
    <3>. QED  BY <3>1, <3>3, TableIsSeq
  <2>. QED  BY <2>1
<1>2. Len(q) \in Nat /\ DOMAIN q = 1 .. Len(q) /\ \A i \in 1 .. Len(q) : q[i] \in Seq(S)
  BY LenProperties, ElementOfSeq
<1>3. \A i \in 1 .. Len(q) : q[i] \in Seq(T)
  BY <1>1, <1>2
<1>4. q = [i \in DOMAIN q |-> q[i]]
  BY SeqDef
<1>5. q \in [1 .. Len(q) -> Seq(T)]
  BY <1>2, <1>3, <1>4
<1>. QED  BY <1>2, <1>5, TableIsSeq

\* The receiver stays right as the sender goes on.
LEMMA StillRight ==
  ASSUME NEW p \in Blocks, NEW given \in Nat, NEW k0 \in Blocks, NEW F0, NEW k \in Blocks, NEW F,
         ReceivesWell(p, given, F0, k0.nxt), Grew(k0, F0, k, F)
  PROVE  ReceivesWell(p, given, F, k.nxt)
<1>1. /\ k0.nxt \in Nat /\ k.nxt \in Nat /\ Taken(k0) \in Nat /\ k0.nxt <= Taken(k0)
      /\ p.rcvNxt \in Nat /\ Len(p.rcvQ) \in Nat /\ k0.nxt <= k.nxt
  BY NumberedAreTaken, BlockQueues DEF Grew
<1>2. p.rcvNxt = given + Len(p.rcvQ) /\ p.rcvNxt <= k0.nxt
  BY DEF ReceivesWell
<1>3. p.rcvNxt <= k.nxt
  BY <1>1, <1>2
<1>4. ASSUME NEW i \in 1 .. Len(p.rcvQ)
      PROVE  p.rcvQ[i].unit = given + i /\ p.rcvQ[i].frg = F[given + i]
  <2>1. given + i \in 1 .. Taken(k0)
    BY <1>1, <1>2
  <2>2. F[given + i] = F0[given + i]
    BY <2>1 DEF Grew
  <2>. QED  BY <2>2 DEF ReceivesWell
<1>5. ASSUME NEW x \in p.rcvBuf
      PROVE  Fits(x, F) /\ p.rcvNxt <= x.sn /\ x.sn < p.rcvNxt + RcvWnd /\ x.sn < k.nxt
  <2>1. x.unit = x.sn + 1 /\ x.frg = F0[x.unit] /\ p.rcvNxt <= x.sn /\ x.sn < p.rcvNxt + RcvWnd
        /\ x.sn < k0.nxt
    BY DEF ReceivesWell, Fits
  <2>2. x.sn \in Nat
    <3>1. x \in Stored(Units)
      BY BlockFields
    <3>. QED  BY <3>1, SnIsNat DEF Stored
  <2>3. x.unit \in 1 .. Taken(k0) /\ x.sn < k.nxt
    BY <1>1, <2>1, <2>2
  <2>4. F[x.unit] = F0[x.unit]
    BY <2>3 DEF Grew
  <2>. QED  BY <2>1, <2>3, <2>4 DEF Fits
<1>. QED  BY <1>3, <1>4, <1>5 DEF ReceivesWell

LEMMA TookIsTied ==
  ASSUME NEW k0, NEW F0, NEW p, NEW G, NEW given, Tied(k0, F0, p, G, given),
         NEW k, NEW F, TookMore(k0, F0, k, F)
  PROVE  Tied(k, F, p, G, given) /\ Grew(k0, F0, k, F)
<1>1. /\ k0 \in Blocks /\ k \in Blocks /\ SendsWell(k, F) /\ SameReceiver(k0, k)
      /\ k.sndBuf = k0.sndBuf /\ k.nxt = k0.nxt /\ Taken(k0) <= Taken(k)
      /\ \A u \in 1 .. Taken(k0) : F[u] = F0[u]
  BY DEF TookMore, Tied
<1>2. Keeps(k, p)
  BY <1>1 DEF Tied, Keeps
<1>3. ReceivesWell(k, given, G, p.nxt) /\ Keeps(p, k) /\ \A n : Has(k0, n) <=> Has(k, n)
  BY <1>1, StillReceives DEF Tied
<1>4. k0.nxt <= k.nxt /\ k0.rcvNxt <= k.rcvNxt
  <2>1. k0.nxt \in Nat /\ k0.rcvNxt \in Nat
    BY <1>1, BlockQueues
  <2>. QED  BY <1>1, <2>1 DEF SameReceiver
<1>. QED  BY <1>1, <1>2, <1>3, <1>4 DEF Tied, Grew

LEMMA HeardIsTied ==
  ASSUME NEW k0 \in Blocks, NEW F, NEW p, NEW G, NEW given, NEW k \in Heard(k0, p, F, G, given)
  PROVE  Tied(k, F, p, G, given) /\ Grew(k0, F, k, F) /\ Taken(k) = Taken(k0)
<1>1. k \in Blocks /\ k.nxt = k0.nxt /\ k.sndQ = k0.sndQ
  BY DEF Heard
<1>2. Taken(k) = Taken(k0) /\ Taken(k) \in Nat /\ k.nxt \in Nat
  BY <1>1, NumberedAreTaken DEF Taken
<1>. QED  BY <1>1, <1>2 DEF Heard, Tied, Grew

\* ikcp_flush: what it leaves and what it sends.
LEMMA FlushIsTied ==
  ASSUME NEW k, NEW F, NEW p, NEW G, NEW given \in Nat, Tied(k, F, p, G, given), Small(Taken(k)),
         NEW due, NEW probeDue
  PROVE  LET h == Flushed(Numbered(k), due)
         IN  /\ Tied(h, F, p, G, given) /\ Grew(k, F, h, F) /\ Taken(h) = Taken(k)
             /\ Pack(Segments(Numbered(k), due, probeDue)) \in Seq(Seq(Said(h, F)))
<1>. DEFINE n == Numbered(k)
            h == Flushed(n, due)
<1>1. /\ k \in Blocks /\ SendsWell(k, F) /\ Keeps(k, p)
      /\ ReceivesWell(k, given, G, p.nxt) /\ Keeps(p, k) /\ Small(k.nxt + Len(k.sndQ))
  BY DEF Tied, Taken
<1>2. /\ n \in Blocks /\ SendsWell(n, F) /\ Keeps(n, p) /\ SameReceiver(k, n)
      /\ k.nxt <= n.nxt /\ n.nxt + Len(n.sndQ) = k.nxt + Len(k.sndQ)
  BY <1>1, NumberedIs
<1>. HIDE DEF n
<1>3. ReceivesWell(n, given, G, p.nxt) /\ Keeps(p, n) /\ \A i : Has(k, i) <=> Has(n, i)
  BY <1>1, <1>2, StillReceives
<1>4. /\ h \in Blocks /\ SendsWell(h, F) /\ Keeps(h, p) /\ ReceivesWell(h, given, G, p.nxt)
      /\ h.nxt = n.nxt /\ h.sndQ = n.sndQ /\ h.rcvNxt = n.rcvNxt
      /\ \A i : Has(n, i) <=> Has(h, i)
  BY <1>2, <1>3, FlushedIs
<1>. HIDE DEF h
<1>5. Keeps(p, h)
  BY <1>3, <1>4 DEF Keeps
<1>6. Taken(n) = Taken(k) /\ Taken(h) = Taken(n) /\ Taken(k) \in Nat
  BY <1>1, <1>2, <1>4, TakenIsNat DEF Taken
<1>7. /\ k.nxt \in Nat /\ n.nxt \in Nat /\ k.rcvNxt \in Nat
      /\ n.rcvNxt = k.rcvNxt
  BY <1>1, <1>2, BlockQueues DEF SameReceiver
<1>8. Grew(k, F, h, F) /\ Grew(n, F, h, F)
  <2>1. k.nxt <= h.nxt /\ n.nxt <= h.nxt /\ k.rcvNxt <= h.rcvNxt /\ n.rcvNxt <= h.rcvNxt
    BY <1>2, <1>4, <1>7
  <2>2. Taken(k) <= Taken(h) /\ Taken(n) <= Taken(h)
    BY <1>6
  <2>3. \A i \in Nat : (Has(k, i) => Has(h, i)) /\ (Has(n, i) => Has(h, i))
    BY <1>3, <1>4
  <2>. QED  BY <2>1, <2>2, <2>3 DEF Grew
<1>9. Segments(n, due, probeDue) \in Seq(Said(n, F))
  <2>1. Small(n.nxt + Len(n.sndQ))
    BY <1>1, <1>2
  <2>. QED  BY <1>2, <1>3, <2>1, SegmentsSaid
<1>10. Pack(Segments(n, due, probeDue)) \in Seq(Seq(Said(n, F)))
  BY <1>9, PackIs
<1>11. Pack(Segments(n, due, probeDue)) \in Seq(Seq(Said(h, F)))
  <2>. DEFINE ds == Pack(Segments(n, due, probeDue))
              S == Said(n, F)
              T == Said(h, F)
  <2>1. S \subseteq T
    BY <1>2, <1>4, <1>8, SaidGrows
  <2>2. ds \in Seq(Seq(S))
    BY <1>10
  <2>. HIDE DEF ds, S, T
  <2>3. ds \in Seq(Seq(T))
    BY <2>1, <2>2, SeqsGrow
  <2>. QED  BY <2>3 DEF ds, T
<1>12. Tied(h, F, p, G, given) /\ Taken(h) = Taken(k)
  BY <1>4, <1>5, <1>6 DEF Tied
<1>. QED  BY <1>8, <1>11, <1>12 DEF h, n

\* ikcp_recv when a message is ready, and the message.
AfterRecv(k) == IF Ready(k) THEN Recv(k) ELSE k
HandedOver(k) == IF Ready(k) THEN Message(k) ELSE <<>>

LEMMA RecvIsTied ==
  ASSUME NEW x, NEW F, NEW p \in Blocks, NEW G, NEW given \in Nat, Tied(x, F, p, G, given),
         SendsWell(p, G), Small(p.nxt)
  PROVE  /\ Tied(AfterRecv(x), F, p, G, given + Len(HandedOver(x)))
         /\ Grew(x, F, AfterRecv(x), F) /\ Taken(AfterRecv(x)) = Taken(x)
         /\ HandedOver(x) \in Seq(Units) /\ Len(HandedOver(x)) \in Nat /\ Counts(HandedOver(x), given)
<1>1. x \in Blocks /\ Taken(x) \in Nat /\ x.nxt \in Nat /\ x.rcvNxt \in Nat
  BY NumberedAreTaken, BlockQueues DEF Tied
<1>2. CASE ~Ready(x)
  <2>1. AfterRecv(x) = x /\ HandedOver(x) = <<>> /\ Len(<<>>) = 0 /\ <<>> \in Seq(Units)
    BY <1>2, EmptySeq DEF AfterRecv, HandedOver
  <2>2. given + 0 = given /\ Counts(<<>>, given)
    BY CountsNone
  <2>3. Grew(x, F, x, F)
    BY <1>1 DEF Grew
  <2>4. given + Len(<<>>) = given /\ Len(<<>>) \in Nat
    BY <2>1, <2>2
  <2>5. Tied(x, F, p, G, given + Len(<<>>))
    BY <2>4
  <2>. QED  BY <2>1, <2>2, <2>3, <2>4, <2>5
<1>3. CASE Ready(x)
  <2>. DEFINE h == Recv(x)
              m == Message(x)
  <2>1. AfterRecv(x) = h /\ HandedOver(x) = m
    BY <1>3 DEF AfterRecv, HandedOver
  <2>2. IsCut(G, Taken(p)) /\ Taken(p) \in Nat /\ p.nxt <= Taken(p)
    BY NumberedAreTaken DEF SendsWell, Taken
  <2>3. ReceivesWell(x, given, G, p.nxt)
    BY DEF Tied
  <2>4. /\ m \in Seq(Units) /\ Len(m) \in Nat /\ Counts(m, given)
        /\ h \in Blocks /\ ReceivesWell(h, given + Len(m), G, p.nxt)
        /\ \A i \in Nat : Has(x, i) => Has(h, i)
        /\ x.rcvNxt <= h.rcvNxt
        /\ SameSender(x, h) /\ h.rmt = x.rmt
    BY <1>1, <1>3, <2>2, <2>3, RecvIs
  <2>. HIDE DEF h, m
  <2>5. SendsWell(h, F) /\ Keeps(h, p)
    BY <2>4, StillSends DEF Tied
  <2>6. Keeps(p, h)
    <3>1. \A i \in 0 .. p.nxt - 1 : i \in Nat
      BY NumberedAreTaken
    <3>. QED  BY <2>4, <3>1 DEF Tied, Keeps
  <2>7. Tied(h, F, p, G, given + Len(m))
    BY <2>4, <2>5, <2>6 DEF Tied
  <2>8. Taken(h) = Taken(x) /\ h.nxt = x.nxt
    BY <2>4 DEF SameSender, Taken
  <2>9. Grew(x, F, h, F)
    BY <1>1, <2>4, <2>8 DEF Grew
  <2>. QED  BY <2>1, <2>4, <2>7, <2>8, <2>9
<1>. QED  BY <1>2, <1>3

\* The end of KcpTunnel::update.
LEMMA HandOverIsTied ==
  ASSUME NEW k, NEW F, NEW p \in Blocks, NEW G, NEW given \in Nat, Tied(k, F, p, G, given),
         SendsWell(p, G), Small(p.nxt),
         NEW packets \in Seq(Seq(Units)), NEW n, Small(n), WaitsWell(k, packets, n)
  PROVE  LET r == FlushCache(k, packets)
             h == AfterRecv(r.k)
             m == HandedOver(r.k)
         IN  /\ r.left \in Seq(Seq(Units)) /\ h \in Blocks
             /\ \E E : Tied(h, E, p, G, given + Len(m)) /\ Grew(k, F, h, E)
             /\ WaitsWell(h, r.left, n)
             /\ m \in Seq(Units) /\ Len(m) \in Nat /\ Counts(m, given)
<1>. DEFINE r == FlushCache(k, packets)
            x == r.k
            h == AfterRecv(x)
            m == HandedOver(x)
<1>1. k \in Blocks /\ SendsWell(k, F)
  BY DEF Tied
<1>2. /\ r \in Flushes /\ WaitsWell(r.k, r.left, n)
      /\ \E E : TookMore(k, F, r.k, E)
  BY <1>1, FlushCacheIs
<1>. HIDE DEF r
<1>3. PICK E : TookMore(k, F, r.k, E)
  BY <1>2
<1>4. x \in Blocks /\ r.left \in Seq(Seq(Units))
  BY <1>2 DEF Flushes
<1>5. Tied(x, E, p, G, given) /\ Grew(k, F, x, E)
  BY <1>3, TookIsTied
<1>. HIDE DEF x
<1>6. /\ Tied(h, E, p, G, given + Len(m)) /\ Grew(x, E, h, E) /\ Taken(h) = Taken(x)
      /\ m \in Seq(Units) /\ Len(m) \in Nat /\ Counts(m, given)
  BY <1>5, RecvIsTied
<1>. HIDE DEF h, m
<1>7. h \in Blocks
  BY <1>6 DEF Tied
<1>8. Grew(k, F, h, E)
  BY <1>1, <1>4, <1>5, <1>6, <1>7, GrewOn
<1>9. WaitsWell(h, r.left, n)
  BY <1>2, <1>6 DEF WaitsWell, x
<1>10. /\ r.left \in Seq(Seq(Units)) /\ h \in Blocks
       /\ \E E1 : Tied(h, E1, p, G, given + Len(m)) /\ Grew(k, F, h, E1)
       /\ WaitsWell(h, r.left, n)
       /\ m \in Seq(Units) /\ Len(m) \in Nat /\ Counts(m, given)
  BY <1>4, <1>6, <1>7, <1>8, <1>9
<1>. QED  BY <1>10 DEF h, m, x, r

-----------------------------------------------------------------------------
(* The network.                                                            *)

LEMMA BoundsAre ==
  ASSUME NEW e \in Ends
  PROVE  MaxNet[e] \in Nat /\ MaxHeld \in Nat
BY KcpTunnelAssumption

\* What the network lets through follows what was on its way.
LEMMA ReachesIs ==
  ASSUME NEW e \in Ends, NEW flying, DOMAIN flying = Ends, NEW S, NEW ds \in Seq(S), NEW kind,
         flying[Peer(e)] \in Seq(S), Len(flying[Peer(e)]) <= MaxNet[Peer(e)],
         Reaches(e, flying, ds, kind)
  PROVE  /\ DOMAIN net' = Ends /\ net'[e] = flying[e]
         /\ net'[Peer(e)] \in Seq(S) /\ Len(net'[Peer(e)]) <= MaxNet[Peer(e)]
<1>. DEFINE p == Peer(e)
            q == flying[p]
            room == MaxNet[p] - Len(q)
            chosen(kept) == LET order == Ascending(kept) IN [i \in DOMAIN order |-> ds[order[i]]]
<1>1. Len(ds) \in Nat /\ DOMAIN ds = 1 .. Len(ds) /\ \A i \in 1 .. Len(ds) : ds[i] \in S
  BY LenProperties, ElementOfSeq
<1>2. PICK kept \in SUBSET DOMAIN ds :
        /\ Cardinality(kept) <= room
        /\ net' = [flying EXCEPT ![p] = @ \o chosen(kept)]
  <2>1. DOMAIN ds \cap (1 .. room) \in SUBSET DOMAIN ds
    OBVIOUS
  <2>2. CASE kind
    BY <2>1, <2>2 DEF Reaches
  <2>3. CASE ~kind
    BY <2>3 DEF Reaches
  <2>. QED  BY <2>2, <2>3
<1>. DEFINE order == Ascending(kept)
            c == Cardinality(kept)
            s == [i \in DOMAIN order |-> ds[order[i]]]
<1>3. order \in Seq(kept) /\ Len(order) = c /\ c \in Nat
  <2>1. kept \subseteq 1 .. Len(ds)
    BY <1>1
  <2>. QED  BY <1>1, <2>1, AscendingIs
<1>4. s \in Seq(S) /\ Len(s) = c
  <2>1. DOMAIN order = 1 .. c /\ \A i \in 1 .. c : order[i] \in kept
    BY <1>3, LenProperties, ElementOfSeq
  <2>2. \A i \in 1 .. c : ds[order[i]] \in S
    BY <1>1, <2>1
  <2>. HIDE DEF c, order
  <2>3. s \in [1 .. c -> S]
    BY <2>1, <2>2
  <2>. QED  BY <1>3, <2>3, TableIsSeq
<1>5. net' = [flying EXCEPT ![p] = q \o s]
  BY <1>2
<1>6. p \in Ends /\ p # e /\ MaxNet[p] \in Nat
  BY UnitsAre, BoundsAre
<1>. HIDE DEF s, p, q, c
<1>7. DOMAIN net' = Ends /\ net'[e] = flying[e] /\ net'[p] = q \o s
  BY <1>5, <1>6
<1>8. q \in Seq(S) /\ c <= room
  BY <1>2 DEF q, p, c
<1>9. q \o s \in Seq(S) /\ Len(q \o s) = Len(q) + Len(s) /\ Len(q) \in Nat
  BY <1>4, <1>8, ConcatAt
<1>. DEFINE l == Len(q)
            m == Len(q \o s)
            w == MaxNet[p]
<1>10. l \in Nat /\ w \in Nat /\ c \in Nat /\ c <= w - l /\ m = l + c
  BY <1>3, <1>4, <1>6, <1>8, <1>9 DEF q
<1>. HIDE DEF l, m, w
<1>11. m <= w
  BY <1>10
<1>. QED  BY <1>7, <1>9, <1>11 DEF m, w, p

\* What is on its way and what is held is in S for Peer(e) and in T for e.
NetsWell(e, nets, S, T) ==
  /\ DOMAIN nets = Ends /\ nets[Peer(e)] \in Seq(Seq(S)) /\ nets[e] \in Seq(Seq(T))
  /\ \A d \in Ends : Len(nets[d]) <= MaxNet[d]
HoldsWell(e, store, S) ==
  DOMAIN store = Ends /\ store[e] \in Seq(Seq(S)) /\ Len(store[e]) <= MaxHeld

LEMMA OutputIs ==
  ASSUME NEW e \in Ends, NEW flying, NEW S, NEW T, NEW ds \in Seq(Seq(S)), NEW kind,
         NetsWell(e, flying, S, T), HoldsWell(e, held, S), Output(e, flying, ds, kind)
  PROVE  NetsWell(e, net', S, T) /\ HoldsWell(e, held', S) /\ held'[Peer(e)] = held[Peer(e)]
<1>. DEFINE p == Peer(e)
            a == held[e]
            b == held[e] \o ds
<1>1. p \in Ends /\ p # e /\ Ends = {e, p} /\ MaxHeld \in Nat
  BY UnitsAre, BoundsAre
<1>2. /\ DOMAIN held = Ends /\ a \in Seq(Seq(S)) /\ DOMAIN flying = Ends
      /\ flying[p] \in Seq(Seq(S)) /\ Len(flying[p]) <= MaxNet[p]
      /\ flying[e] \in Seq(Seq(T)) /\ Len(flying[e]) <= MaxNet[e]
  BY <1>1 DEF NetsWell, HoldsWell
<1>3. b \in Seq(Seq(S))
  BY <1>2, ConcatAt
<1>4. CASE settled'[e] /\ ds # <<>>
  <2>1. Reaches(e, flying, b, kind) /\ held' = [held EXCEPT ![e] = <<>>]
    BY <1>4 DEF Output
  <2>. HIDE DEF b
  <2>2. /\ DOMAIN net' = Ends /\ net'[e] = flying[e]
        /\ net'[p] \in Seq(Seq(S)) /\ Len(net'[p]) <= MaxNet[p]
    BY <1>2, <1>3, <2>1, ReachesIs
  <2>3. NetsWell(e, net', S, T)
    BY <1>1, <1>2, <2>2 DEF NetsWell
  <2>4. <<>> \in Seq(Seq(S)) /\ Len(<<>>) = 0
    BY EmptySeq
  <2>5. DOMAIN held' = Ends /\ held'[e] = <<>> /\ held'[p] = held[p]
    BY <1>1, <1>2, <2>1
  <2>. QED  BY <1>1, <2>3, <2>4, <2>5 DEF HoldsWell
<1>5. CASE ~(settled'[e] /\ ds # <<>>)
  <2>1. /\ held' = [held EXCEPT ![e] = b] /\ Len(held'[e]) <= MaxHeld
        /\ net' = flying
    BY <1>5 DEF Output
  <2>. HIDE DEF b
  <2>2. DOMAIN held' = Ends /\ held'[e] = b /\ held'[p] = held[p]
    BY <1>1, <1>2, <2>1
  <2>3. HoldsWell(e, held', S)
    BY <1>3, <2>1, <2>2 DEF HoldsWell
  <2>4. NetsWell(e, net', S, T)
    BY <2>1
  <2>. QED  BY <2>2, <2>3, <2>4
<1>. QED  BY <1>4, <1>5

\* What arrives is on its way no longer.
LEMMA ArrivedIs ==
  ASSUME NEW e \in Ends, NEW S, NEW T, NetsWell(e, net, S, T), NEW i \in DOMAIN net[e]
  PROVE  NetsWell(e, Arrived(e, i), S, T)
<1>. DEFINE s == net[e]
            q == RemoveAt(s, i)
<1>1. DOMAIN net = Ends /\ s \in Seq(Seq(T)) /\ Len(s) <= MaxNet[e] /\ MaxNet[e] \in Nat
  BY BoundsAre DEF NetsWell
<1>2. Len(s) \in Nat /\ i \in 1 .. Len(s)
  BY <1>1, LenProperties
<1>. HIDE DEF s
<1>3. q = SubSeq(s, 1, i - 1) \o SubSeq(s, i + 1, Len(s))
  BY DEF RemoveAt
<1>. DEFINE x == SubSeq(s, 1, i - 1)
            y == SubSeq(s, i + 1, Len(s))
<1>4. x \in Seq(Seq(T)) /\ Len(x) = i - 1
  <2>1. i - 1 \in 0 .. Len(s)
    BY <1>2
  <2>. QED  BY <1>1, <2>1, Split
<1>5. y \in Seq(Seq(T)) /\ Len(y) = Len(s) - i
  <2>1. i \in 0 .. Len(s)
    BY <1>2
  <2>. QED  BY <1>1, <2>1, Split
<1>. HIDE DEF x, y
<1>6. x \o y \in Seq(Seq(T)) /\ Len(x \o y) = Len(x) + Len(y)
  <2>1. x \in Seq(Seq(T)) /\ y \in Seq(Seq(T))
    BY <1>4, <1>5
  <2>. DEFINE A == Seq(T)
  <2>2. x \in Seq(A) /\ y \in Seq(A)
    BY <2>1
  <2>. HIDE DEF A
  <2>3. x \o y \in Seq(A) /\ Len(x \o y) = Len(x) + Len(y)
    BY <2>2, ConcatAt
  <2>. QED  BY <2>3 DEF A
<1>. DEFINE l == Len(s)
            m == Len(x \o y)
            w == MaxNet[e]
<1>7. l \in Nat /\ i \in 1 .. l /\ l <= w /\ w \in Nat /\ m = (i - 1) + (l - i)
  BY <1>1, <1>2, <1>4, <1>5, <1>6
<1>8. m <= w
  <2>. HIDE DEF l, m, w
  <2>. QED  BY <1>7
<1>9. q \in Seq(Seq(T)) /\ Len(q) <= MaxNet[e]
  BY <1>3, <1>6, <1>8 DEF x, y
<1>10. Arrived(e, i) = [net EXCEPT ![e] = q]
  BY DEF Arrived, s
<1>11. Peer(e) \in Ends /\ Peer(e) # e
  BY UnitsAre
<1>. HIDE DEF q
<1>. QED  BY <1>1, <1>9, <1>10, <1>11 DEF NetsWell

-----------------------------------------------------------------------------
(* The steps.                                                              *)

\* What has entered an end stays below half of the numbers.
LEMMA EnteredIsSmall ==
  ASSUME TypeOK, NEW e \in Ends
  PROVE  Small(entered[e]) /\ \A n \in 0 .. MaxUnits[e] : Small(n)
<1>1. MaxUnits[e] \in Nat /\ 2 * (MaxUnits[e] + RcvWnd) < SnMod /\ 1 .. MaxUnits[e] \subseteq Units
  BY Consts, UnitsAre
<1>2. Small(MaxUnits[e])
  BY <1>1 DEF Small
<1>3. ASSUME NEW n \in 0 .. MaxUnits[e] PROVE Small(n)
  <2>1. n \in Nat /\ n <= MaxUnits[e]
    BY <1>1
  <2>. QED  BY <1>1, <1>2, <2>1, StaysSmall
<1>4. entered[e] \in 0 .. MaxUnits[e]
  BY DEF TypeOK
<1>. QED  BY <1>3, <1>4

\* What a block has taken, and what it has numbered, is part of that.
LEMMA TakenIsSmall ==
  ASSUME NEW k \in Blocks, NEW packets \in Seq(Seq(Units)), NEW n, Small(n), WaitsWell(k, packets, n)
  PROVE  Small(Taken(k)) /\ Small(k.nxt)
<1>. DEFINE a == Len(FlattenSeq(packets))
            t == Taken(k)
            x == k.nxt
<1>1. FlattenSeq(packets) \in Seq(Units)
  BY FlattenIsSeq
<1>2. a \in Nat /\ t \in Nat /\ x \in Nat /\ x <= t /\ n \in Nat /\ t + a = n
  BY <1>1, LenProperties, NumberedAreTaken DEF Small, WaitsWell
<1>. HIDE DEF a, t, x
<1>3. t <= n
  BY <1>2
<1>4. Small(t)
  BY <1>2, <1>3, StaysSmall
<1>5. Small(x)
  BY <1>2, <1>4, StaysSmall
<1>. QED  BY <1>4, <1>5 DEF t, x

\* The two directions as e sees them.
Sees(e, F, G) ==
  /\ Tied(kcp[e], F, kcp[Peer(e)], G, Len(got[e]))
  /\ kcp[Peer(e)] \in Blocks /\ SendsWell(kcp[Peer(e)], G)
  /\ ReceivesWell(kcp[Peer(e)], Len(got[Peer(e)]), F, kcp[e].nxt)
  /\ WaitsWell(kcp[e], cache[e], entered[e])
  /\ WaitsWell(kcp[Peer(e)], cache[Peer(e)], entered[Peer(e)])
  /\ got \in [Ends -> Seq(Units)] /\ Counts(got[e], 0) /\ Counts(got[Peer(e)], 0)
  /\ NetsWell(e, net, Said(kcp[e], F), Said(kcp[Peer(e)], G))
  /\ HoldsWell(e, held, Said(kcp[e], F))
  /\ HoldsWell(Peer(e), held, Said(kcp[Peer(e)], G))

LEMMA InvSees ==
  ASSUME TunnelInv, NEW e \in Ends
  PROVE  \E F : \E G : Sees(e, F, G)
<1>. DEFINE p == Peer(e)
<1>1. p \in Ends /\ p # e /\ Peer(p) = e /\ Ends = {e, p}
  BY UnitsAre
<1>2. PICK F : Flows(e, F)
  BY DEF TunnelInv
<1>3. PICK G : Flows(p, G)
  BY <1>1 DEF TunnelInv
<1>4. TypeOK /\ DOMAIN net = Ends /\ DOMAIN held = Ends /\ kcp \in [Ends -> Blocks]
  BY DEF TunnelInv, TypeOK, Blocks
<1>5. kcp[e] \in Blocks /\ kcp[p] \in Blocks
  BY <1>1, <1>4
<1>6. Tied(kcp[e], F, kcp[p], G, Len(got[e]))
  BY <1>1, <1>2, <1>3, <1>5 DEF Flows, Tied
<1>7. NetsWell(e, net, Said(kcp[e], F), Said(kcp[p], G))
  BY <1>1, <1>2, <1>3, <1>4 DEF Flows, NetsWell, TypeOK
<1>8. HoldsWell(e, held, Said(kcp[e], F)) /\ HoldsWell(p, held, Said(kcp[p], G))
  BY <1>1, <1>2, <1>3, <1>4 DEF Flows, HoldsWell, TypeOK
<1>9. Sees(e, F, G)
  BY <1>1, <1>2, <1>3, <1>4, <1>5, <1>6, <1>7, <1>8 DEF Sees, Flows, TypeOK
<1>. QED  BY <1>9

\* A step of e: its block becomes h, cut as E says, n units have entered it, left
\* wait, and m is handed over.
Goes(e, h, left, m, n) ==
  /\ kcp' = [kcp EXCEPT ![e] = h] /\ cache' = [cache EXCEPT ![e] = left]
  /\ got' = [got EXCEPT ![e] = @ \o m] /\ entered' = [entered EXCEPT ![e] = n]

\* Nothing that entered or was handed over is taken back.
Onward ==
  \A e \in Ends : entered[e] <= entered'[e] /\ Len(got[e]) <= Len(got'[e])

LEMMA StepKeeps ==
  ASSUME TunnelInv, NEW e \in Ends, NEW F, NEW G, Sees(e, F, G),
         NEW h \in Blocks, NEW left \in Seq(Seq(Units)), NEW m \in Seq(Units), NEW n \in 0 .. MaxUnits[e],
         Goes(e, h, left, m, n), entered[e] <= n,
         NEW E, Tied(h, E, kcp[Peer(e)], G, Len(got[e]) + Len(m)), Grew(kcp[e], F, h, E),
         WaitsWell(h, left, n), Counts(m, Len(got[e])),
         NetsWell(e, net', Said(h, E), Said(kcp[Peer(e)], G)),
         HoldsWell(e, held', Said(h, E)), held'[Peer(e)] = held[Peer(e)],
         settled' \in [Ends -> BOOLEAN]
  PROVE  TunnelInv' /\ Onward
<1>. DEFINE p == Peer(e)
            q == kcp[p]
            g == got[e] \o m
<1>1. p \in Ends /\ p # e /\ Peer(p) = e /\ Ends = {e, p}
  BY UnitsAre
<1>2. /\ kcp \in [Ends -> Blocks] /\ cache \in [Ends -> Seq(Seq(Units))] /\ got \in [Ends -> Seq(Units)]
      /\ entered \in [Ends -> Nat] /\ entered[p] \in 0 .. MaxUnits[p]
  BY <1>1 DEF TunnelInv, TypeOK, Blocks
<1>3. /\ kcp'[e] = h /\ kcp'[p] = q /\ cache'[e] = left /\ cache'[p] = cache[p]
      /\ got'[e] = g /\ got'[p] = got[p] /\ entered'[e] = n /\ entered'[p] = entered[p]
  BY <1>1, <1>2 DEF Goes
<1>4. g \in Seq(Units) /\ Len(g) = Len(got[e]) + Len(m) /\ Counts(g, 0)
  <2>. DEFINE s == got[e]
  <2>1. s \in Seq(Units) /\ Counts(s, 0) /\ Counts(m, Len(s))
    BY <1>2 DEF Sees
  <2>. HIDE DEF s
  <2>2. s \o m \in Seq(Units) /\ Len(s \o m) = Len(s) + Len(m) /\ Len(s) \in Nat
    BY <2>1, ConcatAt
  <2>3. Counts(s \o m, 0) <=> Counts(s, 0) /\ Counts(m, 0 + Len(s))
    BY <2>1, CountsJoin
  <2>4. 0 + Len(s) = Len(s)
    BY <2>2
  <2>5. Counts(s \o m, 0)
    BY <2>1, <2>3, <2>4
  <2>. QED  BY <2>2, <2>5 DEF s
<1>5. q \in Blocks /\ SendsWell(q, G) /\ WaitsWell(q, cache[p], entered[p]) /\ Counts(got[p], 0)
  BY DEF Sees
<1>. HIDE DEF g, q
<1>6. TypeOK'
  <2>1. kcp' \in [Ends -> KcpCb(Units)]
    BY <1>2 DEF Goes, Blocks
  <2>2. cache' \in [Ends -> Seq(Seq(Units))]
    BY <1>2 DEF Goes
  <2>3. got' \in [Ends -> Seq(Units)]
    BY <1>2, <1>4 DEF Goes, g
  <2>4. \A d \in Ends : entered'[d] \in 0 .. MaxUnits[d]
    BY <1>1, <1>2, <1>3
  <2>5. \A d \in Ends : Len(net'[d]) <= MaxNet[d] /\ Len(held'[d]) <= MaxHeld
    <3>1. \A d \in Ends : Len(net'[d]) <= MaxNet[d]
      BY DEF NetsWell
    <3>2. Len(held'[e]) <= MaxHeld /\ Len(held'[p]) <= MaxHeld
      BY DEF HoldsWell, Sees
    <3>. QED  BY <1>1, <3>1, <3>2
  <2>. QED  BY <2>1, <2>2, <2>3, <2>4, <2>5 DEF TypeOK
<1>7. DOMAIN net' = Ends /\ DOMAIN held' = Ends /\ entered' \in [Ends -> Nat]
  <2>1. DOMAIN net' = Ends /\ DOMAIN held' = Ends
    BY DEF NetsWell, HoldsWell
  <2>2. n \in Nat
    BY <1>1, Consts
  <2>3. entered' = [entered EXCEPT ![e] = n]
    BY DEF Goes
  <2>. QED  BY <1>1, <1>2, <2>1, <2>2, <2>3
<1>8. Flows(e, E)'
  <2>1. SendsWell(h, E) /\ Keeps(h, q)
    BY DEF Tied, q
  <2>2. ReceivesWell(q, Len(got[p]), E, h.nxt)
    <3>1. /\ got[p] \in Seq(Units) /\ kcp[e] \in Blocks
          /\ ReceivesWell(q, Len(got[p]), F, kcp[e].nxt)
      BY <1>1, <1>2 DEF Sees, q
    <3>2. Len(got[p]) \in Nat
      BY <3>1, LenProperties
    <3>. QED  BY <1>5, <3>1, <3>2, StillRight
  <2>3. net'[p] \in Seq(Seq(Said(h, E))) /\ held'[e] \in Seq(Seq(Said(h, E)))
    BY DEF NetsWell, HoldsWell
  <2>4. Counts(got[p], 0)
    BY <1>5
  <2>. QED  BY <1>3, <2>1, <2>2, <2>3, <2>4 DEF Flows
<1>9. Flows(p, G)'
  <2>1. ReceivesWell(h, Len(g), G, q.nxt) /\ Keeps(q, h)
    BY <1>4 DEF Tied, q
  <2>2. net'[e] \in Seq(Seq(Said(q, G))) /\ held'[p] \in Seq(Seq(Said(q, G)))
    BY <1>1 DEF NetsWell, HoldsWell, Sees, q
  <2>. QED  BY <1>1, <1>3, <1>4, <1>5, <2>1, <2>2 DEF Flows
<1>10. E \in [1 .. Taken(h) -> 0 .. MaxFrags - 1] /\ G \in [1 .. Taken(q) -> 0 .. MaxFrags - 1]
  BY <1>5 DEF Tied, SendsWell, IsCut, Taken
<1>11. \A d \in Ends : \E D \in [1 .. Taken(kcp'[d]) -> 0 .. MaxFrags - 1] : Flows(d, D)'
  <2>1. \E D \in [1 .. Taken(kcp'[e]) -> 0 .. MaxFrags - 1] : Flows(e, D)'
    BY <1>3, <1>8, <1>10
  <2>2. \E D \in [1 .. Taken(kcp'[p]) -> 0 .. MaxFrags - 1] : Flows(p, D)'
    BY <1>3, <1>9, <1>10
  <2>. QED  BY <1>1, <2>1, <2>2
<1>12. Onward
  <2>1. entered[e] \in Nat /\ entered[p] \in Nat /\ got[e] \in Seq(Units) /\ got[p] \in Seq(Units)
    BY <1>1, <1>2 DEF TunnelInv
  <2>2. Len(got[e]) \in Nat /\ Len(got[p]) \in Nat /\ Len(m) \in Nat
    BY <2>1, LenProperties
  <2>3. Len(got[e]) <= Len(g)
    BY <1>4, <2>2
  <2>4. entered[p] <= entered[p] /\ Len(got[p]) <= Len(got[p])
    BY <2>1, <2>2
  <2>. QED  BY <1>1, <1>3, <2>3, <2>4 DEF Onward
<1>. QED  BY <1>6, <1>7, <1>11, <1>12 DEF TunnelInv, Taken

\* k in the place of the block of e, before it takes from the cache.
InPlace(e, k, F0, F, G) ==
  /\ Tied(k, F, kcp[Peer(e)], G, Len(got[e])) /\ Grew(kcp[e], F0, k, F)
  /\ WaitsWell(k, cache[e], entered[e])

LEMMA InPlaceNow ==
  ASSUME NEW e, NEW F, NEW G, Sees(e, F, G)
  PROVE  InPlace(e, kcp[e], F, F, G)
<1>1. kcp[e] \in Blocks
  BY DEF Sees, Tied
<1>. DEFINE k == kcp[e]
<1>2. Taken(k) \in Nat /\ k.nxt \in Nat /\ k.rcvNxt \in Nat
  BY <1>1, NumberedAreTaken, BlockQueues
<1>. HIDE DEF k
<1>3. Grew(k, F, k, F)
  BY <1>2 DEF Grew
<1>. QED  BY <1>3 DEF Sees, InPlace, k

LEMMA SeesIs ==
  ASSUME TunnelInv, NEW e \in Ends, NEW F, NEW G, Sees(e, F, G)
  PROVE  /\ Peer(e) \in Ends /\ Peer(e) # e /\ Ends = {e, Peer(e)}
         /\ kcp[e] \in Blocks /\ kcp[Peer(e)] \in Blocks /\ SendsWell(kcp[Peer(e)], G)
         /\ cache[e] \in Seq(Seq(Units)) /\ Len(got[e]) \in Nat /\ got[e] \in Seq(Units)
         /\ Small(entered[e]) /\ Small(kcp[e].nxt) /\ Small(kcp[Peer(e)].nxt)
         /\ entered[e] \in 0 .. MaxUnits[e]
<1>. DEFINE p == Peer(e)
<1>1. p \in Ends /\ p # e /\ Ends = {e, p}
  BY UnitsAre
<1>2. TypeOK /\ entered[e] \in 0 .. MaxUnits[e]
  BY DEF TunnelInv, TypeOK
<1>3. /\ kcp[e] \in Blocks /\ kcp[p] \in Blocks /\ SendsWell(kcp[p], G)
      /\ WaitsWell(kcp[e], cache[e], entered[e]) /\ WaitsWell(kcp[p], cache[p], entered[p])
  BY DEF Sees, Tied
<1>4. /\ cache[e] \in Seq(Seq(Units)) /\ cache[p] \in Seq(Seq(Units)) /\ got[e] \in Seq(Units)
  BY <1>1, <1>2 DEF TypeOK
<1>5. Small(entered[e]) /\ Small(entered[p])
  BY <1>1, <1>2, EnteredIsSmall
<1>6. Small(kcp[e].nxt) /\ Small(kcp[p].nxt)
  BY <1>3, <1>4, <1>5, TakenIsSmall
<1>7. Len(got[e]) \in Nat
  BY <1>4, LenProperties
<1>. QED  BY <1>1, <1>2, <1>3, <1>4, <1>5, <1>6, <1>7

\* The end of an update keeps what the network holds of k right.
LEMMA HandOverKeeps ==
  ASSUME TunnelInv, NEW e \in Ends, NEW F0, NEW G, Sees(e, F0, G),
         NEW k \in Blocks, NEW F, InPlace(e, k, F0, F, G), HandOver(e, k),
         NetsWell(e, net', Said(k, F), Said(kcp[Peer(e)], G)),
         HoldsWell(e, held', Said(k, F)), held'[Peer(e)] = held[Peer(e)],
         settled' \in [Ends -> BOOLEAN]
  PROVE  TunnelInv' /\ Onward
<1>. DEFINE p == kcp[Peer(e)]
            given == Len(got[e])
            packets == cache[e]
            n == entered[e]
            r == FlushCache(k, packets)
            h == AfterRecv(r.k)
            m == HandedOver(r.k)
<1>1. /\ p \in Blocks /\ SendsWell(p, G) /\ packets \in Seq(Seq(Units)) /\ given \in Nat
      /\ Small(n) /\ Small(p.nxt) /\ n \in 0 .. MaxUnits[e] /\ got[e] \in Seq(Units)
  BY SeesIs
<1>2. Tied(k, F, p, G, given) /\ Grew(kcp[e], F0, k, F) /\ WaitsWell(k, packets, n) /\ kcp[e] \in Blocks
  BY SeesIs DEF InPlace
<1>3. /\ r.left \in Seq(Seq(Units)) /\ h \in Blocks
      /\ \E E : Tied(h, E, p, G, given + Len(m)) /\ Grew(k, F, h, E)
      /\ WaitsWell(h, r.left, n)
      /\ m \in Seq(Units) /\ Len(m) \in Nat /\ Counts(m, given)
  <2>. HIDE DEF p, given, packets, n
  <2>. QED  BY <1>1, <1>2, HandOverIsTied
<1>4. PICK E : Tied(h, E, p, G, given + Len(m)) /\ Grew(k, F, h, E)
  BY <1>3
<1>5. Goes(e, h, r.left, m, n)
  <2>1. /\ cache' = [cache EXCEPT ![e] = r.left]
        /\ kcp' = [kcp EXCEPT ![e] = h]
        /\ got' = [got EXCEPT ![e] = IF Ready(r.k) THEN @ \o Message(r.k) ELSE @]
        /\ entered' = entered
    BY DEF HandOver, AfterRecv
  <2>. DEFINE a == r.k
              s == got[e]
              g == IF Ready(a) THEN s \o Message(a) ELSE s
  <2>2. g = s \o m
    <3>1. s \o <<>> = s
      BY <1>1, ConcatEmptySeq
    <3>. HIDE DEF r, s
    <3>2. CASE Ready(r.k)
      <4>1. HandedOver(r.k) = Message(r.k)
        BY <3>2 DEF HandedOver
      <4>. QED  BY <3>2, <4>1
    <3>3. CASE ~Ready(r.k)
      <4>1. HandedOver(r.k) = <<>>
        BY <3>3 DEF HandedOver
      <4>. QED  BY <3>1, <3>3, <4>1
    <3>. QED  BY <3>2, <3>3
  <2>3. got' = [got EXCEPT ![e] = g]
    BY <2>1
  <2>4. entered' = [entered EXCEPT ![e] = n]
    <3>1. entered \in [Ends -> Nat]
      BY DEF TunnelInv
    <3>. QED  BY <2>1, <3>1
  <2>. HIDE DEF h, m, r, n, g
  <2>5. got' = [got EXCEPT ![e] = @ \o m]
    BY <2>2, <2>3
  <2>. QED  BY <2>1, <2>4, <2>5 DEF Goes
<1>. DEFINE S == Said(k, F)
            T == Said(h, E)
            U == Said(p, G)
            left == r.left
<1>. HIDE DEF h, m, r, n, p, given, left
<1>6. S \subseteq T
  BY <1>3, <1>4, SaidGrows
<1>7. NetsWell(e, net', S, U) /\ HoldsWell(e, held', S)
  BY DEF p
<1>. HIDE DEF S, T, U
<1>8. NetsWell(e, net', T, U) /\ HoldsWell(e, held', T)
  <2>1. net'[Peer(e)] \in Seq(Seq(S)) /\ held'[e] \in Seq(Seq(S))
    BY <1>7 DEF NetsWell, HoldsWell
  <2>2. net'[Peer(e)] \in Seq(Seq(T)) /\ held'[e] \in Seq(Seq(T))
    BY <1>6, <2>1, SeqsGrow
  <2>. QED  BY <1>7, <2>2 DEF NetsWell, HoldsWell
<1>9. Grew(kcp[e], F0, h, E)
  BY <1>2, <1>3, <1>4, GrewOn
<1>10. /\ left \in Seq(Seq(Units)) /\ h \in Blocks /\ m \in Seq(Units) /\ n \in 0 .. MaxUnits[e]
       /\ WaitsWell(h, left, n) /\ Goes(e, h, left, m, n) /\ entered[e] <= n
  <2>1. entered[e] <= n
    BY SeesIs DEF n
  <2>. QED  BY <1>1, <1>3, <1>5, <2>1 DEF left
<1>11. Tied(h, E, kcp[Peer(e)], G, Len(got[e]) + Len(m)) /\ Counts(m, Len(got[e]))
  BY <1>3, <1>4 DEF p, given
<1>12. NetsWell(e, net', Said(h, E), Said(kcp[Peer(e)], G)) /\ HoldsWell(e, held', Said(h, E))
  BY <1>8 DEF T, U, p
<1>. QED  BY <1>9, <1>10, <1>11, <1>12, StepKeeps

LEMMA NetsGrow ==
  ASSUME NEW e, NEW nets, NEW store, NEW S, NEW T, NEW U, S \subseteq T,
         NetsWell(e, nets, S, U), HoldsWell(e, store, S)
  PROVE  NetsWell(e, nets, T, U) /\ HoldsWell(e, store, T)
<1>1. nets[Peer(e)] \in Seq(Seq(S)) /\ store[e] \in Seq(Seq(S))
  BY DEF NetsWell, HoldsWell
<1>2. nets[Peer(e)] \in Seq(Seq(T)) /\ store[e] \in Seq(Seq(T))
  BY <1>1, SeqsGrow
<1>. QED  BY <1>2 DEF NetsWell, HoldsWell

LEMMA UpdateKeeps ==
  ASSUME TunnelInv, NEW e \in Ends, NEW F0, NEW G, Sees(e, F0, G),
         NEW k \in Blocks, NEW F, InPlace(e, k, F0, F, G), NEW flying,
         NetsWell(e, flying, Said(kcp[e], F0), Said(kcp[Peer(e)], G)),
         Update(e, k, flying), settled' \in [Ends -> BOOLEAN]
  PROVE  TunnelInv' /\ Onward
<1>. DEFINE p == kcp[Peer(e)]
            given == Len(got[e])
            S0 == Said(kcp[e], F0)
            U == Said(p, G)
<1>1. /\ p \in Blocks /\ SendsWell(p, G) /\ cache[e] \in Seq(Seq(Units)) /\ given \in Nat
      /\ Small(entered[e]) /\ Small(p.nxt) /\ kcp[e] \in Blocks
  BY SeesIs
<1>2. Tied(k, F, p, G, given) /\ Grew(kcp[e], F0, k, F) /\ WaitsWell(k, cache[e], entered[e])
  BY DEF InPlace
<1>3. NetsWell(e, flying, S0, U) /\ HoldsWell(e, held, S0)
  BY DEF Sees
<1>4. CASE JustHandOver(e, k, flying)
  <2>1. HandOver(e, k) /\ net' = flying /\ held' = held
    BY <1>4 DEF JustHandOver
  <2>2. S0 \subseteq Said(k, F)
    BY <1>1, <1>2, SaidGrows
  <2>3. NetsWell(e, flying, Said(k, F), U) /\ HoldsWell(e, held, Said(k, F))
    <3>. DEFINE S == Said(k, F)
    <3>. HIDE DEF S0, S, U
    <3>. QED  BY <1>3, <2>2, NetsGrow
  <2>4. /\ NetsWell(e, net', Said(k, F), Said(kcp[Peer(e)], G))
        /\ HoldsWell(e, held', Said(k, F)) /\ held'[Peer(e)] = held[Peer(e)]
    BY <2>1, <2>3
  <2>. QED  BY <2>1, <2>4, HandOverKeeps
<1>5. CASE \E due \in SUBSET DOMAIN k.sndBuf, probeDue \in BOOLEAN :
             FlushAndHandOver(e, k, flying, due, probeDue, FALSE)
  <2>1. PICK due, probeDue : FlushAndHandOver(e, k, flying, due, probeDue, FALSE)
    BY <1>5
  <2>. DEFINE h == Flushed(Numbered(k), due)
              ds == Pack(Segments(Numbered(k), due, probeDue))
              S == Said(h, F)
  <2>2. HandOver(e, h) /\ Output(e, flying, ds, FALSE)
    BY <2>1 DEF FlushAndHandOver
  <2>3. Small(Taken(k))
    BY <1>1, <1>2, TakenIsSmall
  <2>4. Tied(h, F, p, G, given) /\ Grew(k, F, h, F) /\ Taken(h) = Taken(k) /\ ds \in Seq(Seq(S))
    <3>. HIDE DEF p, given
    <3>. QED  BY <1>1, <1>2, <2>3, FlushIsTied
  <2>. HIDE DEF h, ds
  <2>5. h \in Blocks
    BY <2>4 DEF Tied
  <2>6. Grew(kcp[e], F0, h, F)
    BY <1>1, <1>2, <2>4, <2>5, GrewOn
  <2>7. WaitsWell(h, cache[e], entered[e])
    BY <1>2, <2>4 DEF WaitsWell
  <2>8. InPlace(e, h, F0, F, G)
    BY <2>4, <2>6, <2>7 DEF InPlace
  <2>9. S0 \subseteq S
    BY <1>1, <2>5, <2>6, SaidGrows
  <2>. HIDE DEF S0, S, U
  <2>10. NetsWell(e, flying, S, U) /\ HoldsWell(e, held, S)
    BY <1>3, <2>9, NetsGrow
  <2>11. NetsWell(e, net', S, U) /\ HoldsWell(e, held', S) /\ held'[Peer(e)] = held[Peer(e)]
    BY <2>2, <2>4, <2>10, OutputIs
  <2>12. NetsWell(e, net', Said(h, F), Said(kcp[Peer(e)], G)) /\ HoldsWell(e, held', Said(h, F))
    BY <2>11 DEF S, U
  <2>. QED  BY <2>2, <2>5, <2>8, <2>11, <2>12, HandOverKeeps
<1>. QED  BY <1>4, <1>5 DEF Update

LEMMA TunnelUpdateKeeps ==
  ASSUME TunnelInv, NEW e \in Ends, TunnelUpdate(e)
  PROVE  TunnelInv' /\ Onward
<1>1. PICK F : \E G : Sees(e, F, G)
  BY InvSees
<1>2. PICK G : Sees(e, F, G)
  BY <1>1
<1>3. InPlace(e, kcp[e], F, F, G) /\ kcp[e] \in Blocks
  BY <1>2, InPlaceNow, SeesIs
<1>4. NetsWell(e, net, Said(kcp[e], F), Said(kcp[Peer(e)], G))
  BY <1>2 DEF Sees
<1>5. Update(e, kcp[e], net) /\ settled' \in [Ends -> BOOLEAN]
  BY DEF TunnelUpdate, TunnelInv, TypeOK
<1>. QED  BY <1>2, <1>3, <1>4, <1>5, UpdateKeeps

LEMMA TunnelInputKeeps ==
  ASSUME TunnelInv, NEW e \in Ends, NEW i \in DOMAIN net[e],
         TunnelInput(e, i, Arrived(e, i)) \/ TunnelInput(e, i, net)
  PROVE  TunnelInv' /\ Onward
<1>1. PICK F : \E G : Sees(e, F, G)
  BY InvSees
<1>2. PICK G : Sees(e, F, G)
  BY <1>1
<1>. DEFINE k == Fed(e, i)
            p == kcp[Peer(e)]
            k0 == kcp[e]
            given == Len(got[e])
            d == net[e][i]
<1>3. /\ k0 \in Blocks /\ p \in Blocks /\ given \in Nat /\ Small(k0.nxt) /\ Small(p.nxt)
  BY <1>2, SeesIs
<1>4. /\ SendsWell(k0, F) /\ Keeps(k0, p) /\ ReceivesWell(k0, given, G, p.nxt) /\ Keeps(p, k0)
      /\ ReceivesWell(p, Len(got[Peer(e)]), F, k0.nxt)
      /\ NetsWell(e, net, Said(k0, F), Said(p, G)) /\ WaitsWell(k0, cache[e], entered[e])
  BY <1>2 DEF Sees, Tied
<1>5. d \in Seq(Said(p, G))
  <2>1. net[e] \in Seq(Seq(Said(p, G)))
    BY <1>4 DEF NetsWell
  <2>2. DOMAIN net[e] = 1 .. Len(net[e])
    BY <2>1, LenProperties
  <2>. QED  BY <2>1, <2>2, ElementOfSeq
<1>6. p.rcvNxt <= k0.nxt
  BY <1>4 DEF ReceivesWell
<1>7. k = Input(k0, d)
  BY DEF Fed
<1>8. k \in Heard(k0, p, F, G, given)
  <2>. HIDE DEF p, k0, given, d, k
  <2>1. Input(k0, d) \in Heard(k0, p, F, G, given)
    BY <1>3, <1>4, <1>5, <1>6, InputHeard
  <2>. QED  BY <1>7, <2>1
<1>. DEFINE Becomes(flying) == Update(e, k, flying) /\ settled' \in [Ends -> BOOLEAN]
<1>9. Becomes(Arrived(e, i)) \/ Becomes(net)
  <2>1. settled \in [Ends -> BOOLEAN]
    BY DEF TunnelInv, TypeOK
  <2>. QED  BY <2>1 DEF TunnelInput, LearnsPeer
<1>10. PICK flying \in {Arrived(e, i), net} : Becomes(flying)
  <2>. HIDE DEF Becomes
  <2>. QED  BY <1>9
<1>11. NetsWell(e, flying, Said(k0, F), Said(p, G))
  <2>. DEFINE S == Said(k0, F)
              T == Said(p, G)
  <2>1. NetsWell(e, net, S, T)
    BY <1>4
  <2>. HIDE DEF S, T
  <2>2. NetsWell(e, Arrived(e, i), S, T)
    BY <2>1, ArrivedIs
  <2>3. NetsWell(e, flying, S, T)
    BY <2>1, <2>2
  <2>. QED  BY <2>3 DEF S, T
<1>12. Update(e, k, flying) /\ settled' \in [Ends -> BOOLEAN]
  BY <1>10
<1>. HIDE DEF k
<1>13. Tied(k, F, p, G, given) /\ Grew(k0, F, k, F) /\ Taken(k) = Taken(k0)
  <2>. HIDE DEF p, k0, given
  <2>. QED  BY <1>3, <1>8, HeardIsTied
<1>14. k \in Blocks
  BY <1>13 DEF Tied
<1>15. InPlace(e, k, F, F, G)
  BY <1>4, <1>13 DEF InPlace, WaitsWell
<1>. QED  BY <1>2, <1>11, <1>12, <1>14, <1>15, UpdateKeeps

\* A packet waits behind those of the cache.
LEMMA PacketWaits ==
  ASSUME NEW k \in Blocks, NEW packets \in Seq(Seq(Units)), NEW n \in Nat, WaitsWell(k, packets, n),
         NEW l \in Nat, NEW packet \in Seq(Units), Len(packet) = l, Counts(packet, n)
  PROVE  /\ Append(packets, packet) \in Seq(Seq(Units))
         /\ WaitsWell(k, Append(packets, packet), n + l)
<1>. DEFINE s == FlattenSeq(packets)
            t == packet
            u == FlattenSeq(Append(packets, packet))
            a == Len(s)
            c == Taken(k)
<1>1. Append(packets, packet) \in Seq(Seq(Units))
  BY AppendProperties
<1>2. s \in Seq(Units) /\ t \in Seq(Units) /\ u = s \o t /\ c \in Nat
  BY FlattenIsSeq, FlattenAppend, TakenIsNat
<1>3. Counts(s, c) /\ c + a = n
  BY DEF WaitsWell
<1>. HIDE DEF s, t, u, a, c
<1>4. a \in Nat /\ Len(s \o t) = a + Len(t)
  <2>1. Len(s) \in Nat /\ Len(s \o t) = Len(s) + Len(t)
    BY <1>2, ConcatAt
  <2>. QED  BY <2>1 DEF a
<1>5. Counts(t, c + a)
  BY <1>3 DEF t
<1>6. Counts(s \o t, c)
  <2>1. Counts(s \o t, c) <=> Counts(s, c) /\ Counts(t, c + Len(s))
    BY <1>2, CountsJoin
  <2>. QED  BY <1>3, <1>5, <2>1 DEF a
<1>7. c + Len(s \o t) = n + l
  <2>. DEFINE m == Len(s \o t)
  <2>1. m = a + l
    BY <1>4 DEF t
  <2>. HIDE DEF m
  <2>2. c + m = n + l
    BY <1>2, <1>3, <1>4, <2>1
  <2>. QED  BY <2>2 DEF m
<1>8. Counts(u, c) /\ c + Len(u) = n + l
  BY <1>2, <1>6, <1>7
<1>. QED  BY <1>1, <1>8 DEF WaitsWell, u, c

\* Where a step of TunnelSend goes.
LEMMA TunnelSendGoes ==
  ASSUME TunnelInv, NEW e \in Ends, NEW F, NEW G, Sees(e, F, G), NEW l \in Lens[e],
         entered[e] + l <= MaxUnits[e],
         NEW packets, packets = Append(cache[e], [i \in 1 .. l |-> entered[e] + i])
  PROVE  /\ entered[e] <= entered[e] + l
         /\ entered[e] + l \in 0 .. MaxUnits[e] /\ packets \in Seq(Seq(Units))
         /\ WaitsWell(kcp[e], packets, entered[e] + l) /\ Small(entered[e] + l)
<1>. DEFINE n == entered[e]
            packet == [i \in 1 .. l |-> n + i]
<1>1. /\ n \in 0 .. MaxUnits[e] /\ kcp[e] \in Blocks /\ cache[e] \in Seq(Seq(Units))
      /\ WaitsWell(kcp[e], cache[e], n)
  BY SeesIs DEF Sees
<1>2. l \in Nat /\ MaxUnits[e] \in Nat
  BY KcpTunnelAssumption
<1>3. n + l \in 0 .. MaxUnits[e] /\ n \in Nat /\ n <= n + l
  BY <1>1, <1>2
<1>4. packet \in Seq(Units) /\ Len(packet) = l /\ Counts(packet, n)
  <2>1. \A i \in 1 .. l : n + i \in 1 .. MaxUnits[e]
    BY <1>1, <1>2, <1>3
  <2>2. \A i \in 1 .. l : n + i \in Units
    BY <2>1, UnitsAre
  <2>3. packet \in [1 .. l -> Units]
    BY <2>2
  <2>4. packet \in Seq(Units) /\ Len(packet) = l
    <3>. HIDE DEF packet
    <3>. QED  BY <1>2, <2>3, TableIsSeq
  <2>5. packet = Numbers(n, l)
    BY DEF Numbers
  <2>. HIDE DEF packet
  <2>. QED  BY <2>4, <2>5 DEF Counts
<1>5. packets = Append(cache[e], packet)
  OBVIOUS
<1>. HIDE DEF packet, n
<1>6. packets \in Seq(Seq(Units)) /\ WaitsWell(kcp[e], packets, n + l)
  BY <1>1, <1>2, <1>3, <1>4, <1>5, PacketWaits
<1>7. Small(n + l)
  <2>1. TypeOK
    BY DEF TunnelInv
  <2>. QED  BY <1>3, <2>1, EnteredIsSmall
<1>. QED  BY <1>3, <1>6, <1>7 DEF n

LEMMA TunnelSendKeeps ==
  ASSUME TunnelInv, NEW e \in Ends, TunnelSend(e)
  PROVE  TunnelInv' /\ Onward
<1>1. PICK F : \E G : Sees(e, F, G)
  BY InvSees
<1>2. PICK G : Sees(e, F, G)
  BY <1>1
<1>3. PICK l \in Lens[e] :
        LET a == Accept(kcp[e], cache[e], [i \in 1 .. l |-> entered[e] + i]) IN
        /\ entered[e] + l <= MaxUnits[e]
        /\ entered' = [entered EXCEPT ![e] = @ + l]
        /\ kcp' = [kcp EXCEPT ![e] = a.k]
        /\ cache' = [cache EXCEPT ![e] = a.left]
        /\ UNCHANGED <<settled, held, net, got>>
  BY DEF TunnelSend
<1>. DEFINE packets == Append(cache[e], [i \in 1 .. l |-> entered[e] + i])
            n == entered[e] + l
            r == FlushCache(kcp[e], packets)
            h == r.k
            left == r.left
<1>4. /\ n \in 0 .. MaxUnits[e] /\ entered[e] <= n /\ packets \in Seq(Seq(Units))
      /\ WaitsWell(kcp[e], packets, n) /\ Small(n)
  BY <1>2, <1>3, TunnelSendGoes
<1>5. /\ entered' = [entered EXCEPT ![e] = n] /\ kcp' = [kcp EXCEPT ![e] = h]
      /\ cache' = [cache EXCEPT ![e] = left]
      /\ settled' = settled /\ held' = held /\ net' = net /\ got' = got
  BY <1>3 DEF Accept
<1>. HIDE DEF packets, n
<1>6. kcp[e] \in Blocks /\ SendsWell(kcp[e], F) /\ Tied(kcp[e], F, kcp[Peer(e)], G, Len(got[e]))
  BY <1>2 DEF Sees, Tied
<1>7. /\ r \in Flushes /\ WaitsWell(r.k, r.left, n)
      /\ \E E : TookMore(kcp[e], F, r.k, E)
  BY <1>4, <1>6, FlushCacheIs
<1>8. PICK E : TookMore(kcp[e], F, h, E)
  BY <1>7
<1>9. h \in Blocks /\ left \in Seq(Seq(Units)) /\ WaitsWell(h, left, n)
  BY <1>7 DEF Flushes
<1>. HIDE DEF r, h, left
<1>10. Tied(h, E, kcp[Peer(e)], G, Len(got[e])) /\ Grew(kcp[e], F, h, E)
  BY <1>6, <1>8, TookIsTied
<1>11. /\ <<>> \in Seq(Units) /\ Counts(<<>>, Len(got[e]))
       /\ Tied(h, E, kcp[Peer(e)], G, Len(got[e]) + Len(<<>>))
  <2>1. Len(got[e]) \in Nat
    BY <1>2, SeesIs
  <2>2. Len(<<>>) = 0 /\ <<>> \in Seq(Units) /\ Counts(<<>>, Len(got[e]))
    BY <2>1, EmptySeq, CountsNone
  <2>3. Len(got[e]) + Len(<<>>) = Len(got[e])
    BY <2>1, <2>2
  <2>. QED  BY <1>10, <2>2, <2>3
<1>12. Goes(e, h, left, <<>>, n)
  <2>1. got[e] \o <<>> = got[e] /\ got \in [Ends -> Seq(Units)]
    <3>1. got[e] \in Seq(Units)
      BY <1>2, SeesIs
    <3>. QED  BY <3>1, ConcatEmptySeq DEF TunnelInv, TypeOK
  <2>. DEFINE s == got[e] \o <<>>
  <2>2. s = got[e]
    BY <2>1
  <2>. HIDE DEF s
  <2>3. got' = [got EXCEPT ![e] = s]
    BY <1>5, <2>1, <2>2
  <2>4. got' = [got EXCEPT ![e] = @ \o <<>>]
    BY <2>3 DEF s
  <2>. QED  BY <1>5, <2>4 DEF Goes
<1>13. /\ NetsWell(e, net', Said(h, E), Said(kcp[Peer(e)], G))
       /\ HoldsWell(e, held', Said(h, E)) /\ held'[Peer(e)] = held[Peer(e)]
  <2>. DEFINE S0 == Said(kcp[e], F)
              S == Said(h, E)
              U == Said(kcp[Peer(e)], G)
  <2>1. NetsWell(e, net, S0, U) /\ HoldsWell(e, held, S0)
    BY <1>2 DEF Sees
  <2>2. S0 \subseteq S
    BY <1>6, <1>9, <1>10, SaidGrows
  <2>. HIDE DEF S0, S, U
  <2>3. NetsWell(e, net, S, U) /\ HoldsWell(e, held, S)
    BY <2>1, <2>2, NetsGrow
  <2>4. NetsWell(e, net', S, U) /\ HoldsWell(e, held', S)
    BY <1>5, <2>3
  <2>. QED  BY <1>5, <2>4 DEF S, U
<1>14. settled' \in [Ends -> BOOLEAN]
  BY <1>5 DEF TunnelInv, TypeOK
<1>. QED  BY <1>2, <1>4, <1>9, <1>10, <1>11, <1>12, <1>13, <1>14, StepKeeps

\* In the initial state there is nothing to be wrong about.
LEMMA InitInv == ASSUME Init PROVE TunnelInv
<1>. DEFINE F == [u \in 1 .. 0 |-> 0]
<1>0. \A i \in 1 .. 0 : FALSE
  OBVIOUS
<1>1. NewKcp \in Blocks
  <2>1. <<>> \in Seq(Queued(Units)) /\ <<>> \in Seq(InFlight(Units)) /\ <<>> \in Seq(Sn)
    BY EmptySeq
  <2>2. 0 \in Sn /\ RcvWnd \in 0 .. RcvWnd
    BY SnIsNat, Consts
  <2>. QED  BY <2>1, <2>2 DEF NewKcp, Blocks, KcpCb
<1>2. /\ NewKcp.nxt = 0 /\ NewKcp.una = 0 /\ NewKcp.sndQ = <<>> /\ NewKcp.sndBuf = <<>>
      /\ NewKcp.rcvNxt = 0 /\ NewKcp.rcvQ = <<>> /\ NewKcp.rcvBuf = {} /\ NewKcp.acks = <<>>
  BY DEF NewKcp
<1>. DEFINE k == NewKcp
<1>. HIDE DEF k
<1>3. /\ k \in Blocks /\ k.nxt = 0 /\ k.una = 0 /\ k.sndQ = <<>> /\ k.sndBuf = <<>>
      /\ k.rcvNxt = 0 /\ k.rcvQ = <<>> /\ k.rcvBuf = {} /\ k.acks = <<>>
  BY <1>1, <1>2 DEF k
<1>4. Len(<<>>) = 0 /\ 0 + 0 = 0 /\ 0 <= 0 /\ 0 - 1 = -1
  BY EmptySeq
<1>5. F \in [1 .. 0 -> 0 .. MaxFrags - 1] /\ IsCut(F, 0)
  <2>1. F \in [1 .. 0 -> 0 .. MaxFrags - 1]
    BY <1>0
  <2>. HIDE DEF F
  <2>. QED  BY <1>0, <2>1 DEF IsCut
<1>. HIDE DEF F
<1>6. Taken(k) = 0
  BY <1>3, <1>4 DEF Taken
<1>7. SendsWell(k, F)
  <2>1. 0 <= 0 + Ahead
    BY Consts
  <2>2. Len(k.sndBuf) = 0 /\ Len(k.sndQ) = 0 /\ k.nxt + Len(k.sndQ) = 0
    BY <1>3, <1>4
  <2>. QED  BY <1>0, <1>3, <1>4, <1>5, <2>1, <2>2 DEF SendsWell
<1>8. ReceivesWell(k, 0, F, k.nxt)
  <2>1. 0 <= RcvWnd
    BY Consts
  <2>2. Len(k.rcvQ) = 0 /\ Len(k.acks) = 0
    BY <1>3, <1>4
  <2>. QED  BY <1>0, <1>3, <1>4, <2>1, <2>2 DEF ReceivesWell
<1>9. Keeps(k, k)
  <2>1. \A n \in 0 .. k.nxt - 1 : FALSE
    BY <1>3
  <2>. QED  BY <2>1 DEF Keeps
<1>10. WaitsWell(k, <<>>, 0) /\ Counts(<<>>, 0)
  <2>1. FlattenSeq(<<>>) = <<>> /\ Counts(<<>>, 0)
    BY FlattenNone, CountsNone
  <2>. QED  BY <1>4, <1>6, <2>1 DEF WaitsWell
<1>11. /\ kcp = [e \in Ends |-> k] /\ cache = [e \in Ends |-> <<>>]
       /\ settled = [e \in Ends |-> e = "cli"] /\ held = [e \in Ends |-> <<>>]
       /\ net = [e \in Ends |-> <<>>] /\ entered = [e \in Ends |-> 0]
       /\ got = [e \in Ends |-> <<>>]
  BY DEF Init, k
<1>12. \A S : <<>> \in Seq(S)
  BY EmptySeq
<1>13. TypeOK
  <2>1. kcp \in [Ends -> KcpCb(Units)]
    BY <1>3, <1>11 DEF Blocks
  <2>2. cache \in [Ends -> Seq(Seq(Units))] /\ got \in [Ends -> Seq(Units)]
    BY <1>11, <1>12
  <2>3. settled \in [Ends -> BOOLEAN]
    BY <1>11
  <2>4. \A e \in Ends : Len(net[e]) <= MaxNet[e] /\ Len(held[e]) <= MaxHeld
    <3>1. \A e \in Ends : MaxNet[e] \in Nat /\ MaxHeld \in Nat
      BY BoundsAre
    <3>. QED  BY <1>4, <1>11, <3>1
  <2>5. \A e \in Ends : entered[e] \in 0 .. MaxUnits[e]
    <3>1. \A e \in Ends : MaxUnits[e] \in Nat
      BY Consts
    <3>. QED  BY <1>11, <3>1
  <2>. QED  BY <2>1, <2>2, <2>3, <2>4, <2>5 DEF TypeOK
<1>14. DOMAIN net = Ends /\ DOMAIN held = Ends /\ entered \in [Ends -> Nat]
  BY <1>11
<1>15. ASSUME NEW e \in Ends PROVE Flows(e, F)
  <2>1. Peer(e) \in Ends
    BY UnitsAre
  <2>2. /\ kcp[e] = k /\ kcp[Peer(e)] = k /\ cache[e] = <<>> /\ entered[e] = 0
        /\ got[Peer(e)] = <<>> /\ net[Peer(e)] = <<>> /\ held[e] = <<>>
    BY <1>11, <2>1
  <2>. QED  BY <1>4, <1>7, <1>8, <1>9, <1>10, <1>12, <2>2 DEF Flows
<1>16. ASSUME NEW e \in Ends
       PROVE  \E D \in [1 .. Taken(kcp[e]) -> 0 .. MaxFrags - 1] : Flows(e, D)
  <2>1. Taken(kcp[e]) = 0
    BY <1>6, <1>11
  <2>. QED  BY <1>5, <1>15, <2>1
<1>. QED  BY <1>13, <1>14, <1>16 DEF TunnelInv

LEMMA StepInv == ASSUME TunnelInv, [Next]_vars PROVE TunnelInv' /\ Onward
<1>1. CASE Next
  <2>1. PICK e \in Ends :
          \/ TunnelSend(e) \/ TunnelUpdate(e)
          \/ \E i \in DOMAIN net[e] :
               /\ i = 1 \/ Reorders
               /\ TunnelInput(e, i, Arrived(e, i)) \/ TunnelInput(e, i, net)
    BY <1>1 DEF Next
  <2>2. CASE TunnelSend(e)
    BY <2>2, TunnelSendKeeps
  <2>3. CASE TunnelUpdate(e)
    BY <2>3, TunnelUpdateKeeps
  <2>4. CASE \E i \in DOMAIN net[e] :
               TunnelInput(e, i, Arrived(e, i)) \/ TunnelInput(e, i, net)
    BY <2>4, TunnelInputKeeps
  <2>. QED  BY <2>1, <2>2, <2>3, <2>4
<1>2. CASE UNCHANGED vars
  <2>1. TypeOK'
    BY <1>2 DEF TunnelInv, TypeOK, vars
  <2>2. \A e \in Ends : \E F \in [1 .. Taken(kcp'[e]) -> 0 .. MaxFrags - 1] : Flows(e, F)'
    <3>1. kcp' = kcp
      BY <1>2 DEF vars
    <3>2. ASSUME NEW e \in Ends, NEW F, Flows(e, F) PROVE Flows(e, F)'
      BY <1>2, <3>2 DEF Flows, vars
    <3>3. \A e \in Ends : \E F \in [1 .. Taken(kcp[e]) -> 0 .. MaxFrags - 1] : Flows(e, F)
      BY DEF TunnelInv
    <3>. QED  BY <3>1, <3>2, <3>3
  <2>3. (DOMAIN net = Ends /\ DOMAIN held = Ends /\ entered \in [Ends -> Nat])'
    BY <1>2 DEF TunnelInv, vars
  <2>4. Onward
    <3>1. ASSUME NEW e \in Ends
          PROVE  entered[e] <= entered'[e] /\ Len(got[e]) <= Len(got'[e])
      <4>1. entered'[e] = entered[e] /\ got'[e] = got[e]
        BY <1>2 DEF vars
      <4>2. entered[e] \in Nat /\ Len(got[e]) \in Nat
        <5>1. got[e] \in Seq(Units)
          BY DEF TunnelInv, TypeOK
        <5>. QED  BY <5>1, LenProperties DEF TunnelInv
      <4>. QED  BY <4>1, <4>2
    <3>. QED  BY <3>1 DEF Onward
  <2>. QED  BY <2>1, <2>2, <2>3, <2>4 DEF TunnelInv, Taken
<1>. QED  BY <1>1, <1>2

LEMMA TunnelInvariant == Spec => []TunnelInv
<1>1. Init => TunnelInv
  BY InitInv
<1>2. TunnelInv /\ [Next]_vars => TunnelInv'
  BY StepInv
<1>. QED  BY <1>1, <1>2, PTL DEF Spec

-----------------------------------------------------------------------------
(* The windows.                                                            *)

\* A unit that is numbered and has not been taken in order is where it should be.
LEMMA UnitAtIs ==
  ASSUME NEW s \in Blocks, NEW r \in Blocks, NEW F, NEW given,
         SendsWell(s, F), ReceivesWell(r, given, F, s.nxt), Keeps(s, r),
         NEW n \in Nat, r.rcvNxt <= n, n < s.nxt
  PROVE  UnitAt(s, r, n) = n + 1
<1>. DEFINE found == {x \in Range(s.sndBuf) \cup r.rcvBuf : x.sn = n}
<1>1. DOMAIN s.sndBuf = 1 .. Len(s.sndBuf) /\ s.nxt \in Nat /\ r.rcvNxt \in Nat
  BY BlockQueues
<1>2. ASSUME NEW x \in found PROVE x.unit = n + 1
  <2>1. CASE x \in r.rcvBuf
    BY <2>1 DEF ReceivesWell, Fits
  <2>2. CASE x \in Range(s.sndBuf)
    <3>1. PICK i \in DOMAIN s.sndBuf : x = s.sndBuf[i]
      BY <2>2 DEF Range
    <3>2. Fits(s.sndBuf[i], F)
      BY <1>1, <3>1 DEF SendsWell
    <3>. QED  BY <3>1, <3>2 DEF Fits
  <2>. QED  BY <2>1, <2>2
<1>3. found # {}
  <2>1. n \in 0 .. s.nxt - 1 /\ ~(n < r.rcvNxt)
    BY <1>1
  <2>2. (\E x \in r.rcvBuf : x.sn = n) \/ \E i \in 1 .. Len(s.sndBuf) : s.sndBuf[i].sn = n
    BY <2>1 DEF Keeps, Has
  <2>3. CASE \E x \in r.rcvBuf : x.sn = n
    BY <2>3
  <2>4. CASE \E i \in 1 .. Len(s.sndBuf) : s.sndBuf[i].sn = n
    <3>1. PICK i \in 1 .. Len(s.sndBuf) : s.sndBuf[i].sn = n
      BY <2>4
    <3>2. s.sndBuf[i] \in Range(s.sndBuf)
      BY <1>1, <3>1 DEF Range
    <3>. QED  BY <3>1, <3>2
  <2>. QED  BY <2>2, <2>3, <2>4
<1>4. (CHOOSE x \in found : TRUE) \in found
  BY <1>3
<1>5. UnitAt(s, r, n) = (CHOOSE x \in found : TRUE).unit
  BY <1>3 DEF UnitAt
<1>. QED  BY <1>2, <1>4, <1>5

\* All that is acknowledged has arrived, so una is at most a window ahead.
LEMMA AcknowledgedArrived ==
  ASSUME NEW s \in Blocks, NEW r \in Blocks, NEW F, NEW given,
         SendsWell(s, F), ReceivesWell(r, given, F, s.nxt), Keeps(s, r)
  PROVE  s.una <= r.rcvNxt + RcvWnd
<1>1. /\ s.una \in Nat /\ s.nxt \in Nat /\ r.rcvNxt \in Nat /\ RcvWnd \in Nat /\ s.una <= s.nxt
  BY BlockQueues, Consts DEF SendsWell
<1>2. CASE s.una = 0
  BY <1>1, <1>2
<1>3. CASE s.una # 0
  <2>. DEFINE n == s.una - 1
  <2>1. n \in 0 .. s.nxt - 1 /\ n < s.una /\ s.una = n + 1 /\ n \in Nat
    BY <1>1, <1>3
  <2>2. ~ \E i \in 1 .. Len(s.sndBuf) : s.sndBuf[i].sn = n
    <3>1. \A i \in 1 .. Len(s.sndBuf) : s.una <= s.sndBuf[i].sn
      BY DEF SendsWell
    <3>2. ~(s.una <= n)
      BY <1>1, <2>1
    <3>. HIDE DEF n
    <3>. QED  BY <3>1, <3>2
  <2>. HIDE DEF n
  <2>3. Has(r, n)
    BY <2>1, <2>2 DEF Keeps
  <2>4. n < r.rcvNxt + RcvWnd
    <3>1. CASE n < r.rcvNxt
      BY <1>1, <2>1, <3>1
    <3>2. CASE \E x \in r.rcvBuf : x.sn = n
      BY <3>2 DEF ReceivesWell
    <3>. QED  BY <2>3, <3>1, <3>2 DEF Has
  <2>. QED  BY <1>1, <2>1, <2>4
<1>. QED  BY <1>2, <1>3

\* What the invariant says of the two blocks of a direction.
LEMMA DirectionIs ==
  ASSUME TunnelInv, NEW e \in Ends
  PROVE  \E F : /\ kcp[e] \in Blocks /\ kcp[Peer(e)] \in Blocks /\ Flows(e, F)
                /\ Small(kcp[e].nxt) /\ kcp[Peer(e)].rcvNxt <= kcp[e].nxt
                /\ cache[e] \in Seq(Seq(Units)) /\ got[Peer(e)] \in Seq(Units) /\ Peer(e) \in Ends
<1>. DEFINE p == Peer(e)
<1>1. p \in Ends
  BY UnitsAre
<1>2. PICK F : Flows(e, F)
  BY DEF TunnelInv
<1>3. TypeOK
  BY DEF TunnelInv
<1>4. /\ kcp[e] \in Blocks /\ kcp[p] \in Blocks /\ cache[e] \in Seq(Seq(Units)) /\ got[p] \in Seq(Units)
  BY <1>1, <1>3 DEF TypeOK, Blocks
<1>5. WaitsWell(kcp[e], cache[e], entered[e]) /\ kcp[p].rcvNxt <= kcp[e].nxt
  BY <1>2 DEF Flows, ReceivesWell
<1>6. Small(entered[e])
  BY <1>3, EnteredIsSmall
<1>7. Small(kcp[e].nxt)
  BY <1>4, <1>5, <1>6, TakenIsSmall
<1>. QED  BY <1>1, <1>2, <1>4, <1>5, <1>7

\* Below half of the numbers, nothing wraps.
LEMMA NumbersHold ==
  ASSUME NEW a \in Nat, NEW b \in Nat, a <= b, Small(b)
  PROVE  /\ Diff(b, a) = b - a
         /\ \A i \in 0 .. b - a : Plus(a, i) = a + i
<1>1. b \in Nat /\ 2 * (b + RcvWnd) < SnMod /\ RcvWnd \in Nat /\ SnMod \in Nat
  BY Consts DEF Small
<1>2. 2 * a < SnMod /\ 2 * b < SnMod
  BY <1>1
<1>3. Diff(b, a) = b - a
  BY <1>2, DiffIs
<1>4. ASSUME NEW i \in 0 .. b - a PROVE Plus(a, i) = a + i
  <2>1. i \in Nat /\ a + i < SnMod
    BY <1>1
  <2>. QED  BY <2>1, PlusIs
<1>. QED  BY <1>3, <1>4

LEMMA WindowOfInv == ASSUME TunnelInv PROVE WindowHolds
<1>1. ASSUME NEW e \in Ends
      PROVE  LET s == kcp[e]
                 r == kcp[Peer(e)]
                 window == Min({SndWnd, RcvWnd})
             IN  /\ Diff(s.nxt, s.una) \in 0 .. window
                 /\ Diff(s.nxt, r.rcvNxt) \in 0 .. RcvWnd + window
                 /\ \A i \in 0 .. Diff(s.nxt, r.rcvNxt) - 1 : UnitAt(s, r, Plus(r.rcvNxt, i)) # 0
  <2>. DEFINE s == kcp[e]
              r == kcp[Peer(e)]
              given == Len(got[Peer(e)])
  <2>1. PICK F : /\ s \in Blocks /\ r \in Blocks /\ Flows(e, F)
                 /\ Small(s.nxt) /\ r.rcvNxt <= s.nxt
    BY DirectionIs
  <2>2. SendsWell(s, F) /\ ReceivesWell(r, given, F, s.nxt) /\ Keeps(s, r)
    BY <2>1 DEF Flows
  <2>. HIDE DEF s, r, given
  <2>3. s.nxt \in Nat /\ s.una \in Nat /\ r.rcvNxt \in Nat /\ RcvWnd \in Nat /\ Ahead \in Nat
    BY <2>1, BlockQueues, Consts
  <2>4. s.una <= s.nxt /\ s.nxt <= s.una + Ahead
    BY <2>2 DEF SendsWell
  <2>5. s.una <= r.rcvNxt + RcvWnd
    BY <2>1, <2>2, AcknowledgedArrived
  <2>6. Diff(s.nxt, s.una) = s.nxt - s.una
    BY <2>1, <2>3, <2>4, NumbersHold
  <2>7. /\ Diff(s.nxt, r.rcvNxt) = s.nxt - r.rcvNxt
        /\ \A i \in 0 .. s.nxt - r.rcvNxt : Plus(r.rcvNxt, i) = r.rcvNxt + i
    BY <2>1, <2>3, NumbersHold
  <2>8. Diff(s.nxt, s.una) \in 0 .. Ahead
    BY <2>3, <2>4, <2>6
  <2>9. Diff(s.nxt, r.rcvNxt) \in 0 .. RcvWnd + Ahead
    BY <2>1, <2>3, <2>4, <2>5, <2>7
  <2>10. ASSUME NEW i \in 0 .. Diff(s.nxt, r.rcvNxt) - 1
         PROVE  UnitAt(s, r, Plus(r.rcvNxt, i)) # 0
    <3>. DEFINE n == r.rcvNxt + i
    <3>1. i \in 0 .. s.nxt - r.rcvNxt /\ n \in Nat /\ r.rcvNxt <= n /\ n < s.nxt
      BY <2>1, <2>3, <2>7
    <3>2. Plus(r.rcvNxt, i) = n
      BY <2>7, <3>1
    <3>. HIDE DEF n
    <3>3. UnitAt(s, r, n) = n + 1
      BY <2>1, <2>2, <3>1, UnitAtIs
    <3>4. n + 1 # 0
      BY <3>1
    <3>. QED  BY <3>2, <3>3, <3>4
  <2>11. /\ Diff(s.nxt, s.una) \in 0 .. Ahead /\ Diff(s.nxt, r.rcvNxt) \in 0 .. RcvWnd + Ahead
         /\ \A i \in 0 .. Diff(s.nxt, r.rcvNxt) - 1 : UnitAt(s, r, Plus(r.rcvNxt, i)) # 0
    BY <2>8, <2>9, <2>10
  <2>. QED  BY <2>11 DEF s, r, Ahead
<1>2. TypeOK
  BY DEF TunnelInv
<1>. QED  BY <1>1, <1>2 DEF WindowHolds

\* The windows hold, always: a sender is at most a window past what was
\* acknowledged, however old what it heard last, and what the receiver misses is kept
\* to be sent again or already in its buffer.
THEOREM WindowAlwaysHolds == Spec => []WindowHolds
<1>1. TunnelInv => WindowHolds
  BY WindowOfInv
<1>. QED  BY TunnelInvariant, <1>1, PTL

-----------------------------------------------------------------------------
(* The two directions are queues.                                          *)

LEMMA UnitsOfIs ==
  ASSUME NEW q, NEW n \in Nat, NEW c \in Nat, DOMAIN q = 1 .. n,
         \A i \in 1 .. n : q[i].unit = c + i, 1 .. c + n \subseteq Units
  PROVE  UnitsOf(q) \in Seq(Units) /\ Len(UnitsOf(q)) = n /\ Counts(UnitsOf(q), c)
<1>. DEFINE s == UnitsOf(q)
<1>1. \A i \in 1 .. n : q[i].unit \in Units
  <2>1. \A i \in 1 .. n : c + i \in 1 .. c + n
    OBVIOUS
  <2>. QED  BY <2>1
<1>2. s \in [1 .. n -> Units] /\ \A i \in 1 .. n : s[i] = c + i
  BY <1>1 DEF UnitsOf
<1>. HIDE DEF s
<1>3. s \in Seq(Units) /\ Len(s) = n
  BY <1>2, TableIsSeq
<1>4. Counts(s, c)
  BY <1>2, <1>3, CountsIs
<1>. QED  BY <1>3, <1>4 DEF s

\* Two runs of numbers, the second behind the first.
LEMMA JoinRuns ==
  ASSUME NEW S, NEW s \in Seq(S), NEW t \in Seq(S), NEW c \in Nat, NEW d \in Nat,
         Counts(s, c), c + Len(s) = d, Counts(t, d)
  PROVE  s \o t \in Seq(S) /\ Counts(s \o t, c) /\ c + Len(s \o t) = d + Len(t)
<1>. DEFINE a == Len(s)
            b == Len(t)
            u == Len(s \o t)
            k == c + Len(s)
<1>1. Counts(t, k) /\ k = d
  OBVIOUS
<1>2. s \o t \in Seq(S) /\ a \in Nat /\ b \in Nat /\ u = a + b
  BY ConcatAt
<1>3. Counts(s \o t, c) <=> Counts(s, c) /\ Counts(t, k)
  BY CountsJoin
<1>4. k = c + a
  OBVIOUS
<1>. HIDE DEF a, b, u, k
<1>5. c + u = d + b
  BY <1>1, <1>2, <1>4
<1>. QED  BY <1>1, <1>2, <1>3, <1>5 DEF b, u

LEMMA AllThere ==
  ASSUME TunnelInv, NEW e \in Ends
  PROVE  EnteredAt(e) = got[Peer(e)] \o Unreceived(e) /\ Unreceived(e) \in Seq(Units)
<1>. DEFINE s == kcp[e]
            r == kcp[Peer(e)]
            g == got[Peer(e)]
            given == Len(g)
            n == entered[e]
            a == UnitsOf(r.rcvQ)
            b == [i \in 1 .. Diff(s.nxt, r.rcvNxt) |-> UnitAt(s, r, Plus(r.rcvNxt, i - 1))]
            c == UnitsOf(s.sndQ)
            d == FlattenSeq(cache[e])
<1>1. PICK F : /\ s \in Blocks /\ r \in Blocks /\ Flows(e, F) /\ Small(s.nxt) /\ r.rcvNxt <= s.nxt
               /\ cache[e] \in Seq(Seq(Units)) /\ g \in Seq(Units)
  BY DirectionIs
<1>2. /\ SendsWell(s, F) /\ ReceivesWell(r, given, F, s.nxt) /\ Keeps(s, r)
      /\ WaitsWell(s, cache[e], n) /\ Counts(g, 0)
  BY <1>1 DEF Flows
<1>3. n \in 0 .. MaxUnits[e] /\ Small(n)
  <2>1. TypeOK
    BY DEF TunnelInv
  <2>. QED  BY <2>1, EnteredIsSmall DEF TypeOK
<1>4. Small(Taken(s)) /\ Unreceived(e) = ((a \o b) \o c) \o d /\ EnteredAt(e) = [i \in 1 .. n |-> i]
  <2>1. Small(Taken(s))
    BY <1>1, <1>2, <1>3, TakenIsSmall
  <2>. QED  BY <2>1 DEF Unreceived, EnteredAt
<1>5. d \in Seq(Units) /\ Counts(d, Taken(s)) /\ Taken(s) + Len(d) = n
  BY <1>1, <1>2, FlattenIsSeq DEF WaitsWell
<1>. HIDE DEF s, r, g, n, d
<1>6. /\ s.nxt \in Nat /\ r.rcvNxt \in Nat /\ given \in Nat /\ Taken(s) \in Nat /\ Len(s.sndQ) \in Nat
      /\ DOMAIN s.sndQ = 1 .. Len(s.sndQ) /\ Len(r.rcvQ) \in Nat /\ DOMAIN r.rcvQ = 1 .. Len(r.rcvQ)
      /\ Taken(s) = s.nxt + Len(s.sndQ)
  BY <1>1, BlockQueues, TakenIsNat, LenProperties DEF Taken
<1>7. 1 .. s.nxt \subseteq Units /\ 1 .. Taken(s) \subseteq Units
  BY <1>1, <1>4 DEF Small
<1>8. a \in Seq(Units) /\ Len(a) = Len(r.rcvQ) /\ Counts(a, given)
  <2>. DEFINE l == Len(r.rcvQ)
  <2>1. r.rcvNxt = given + l /\ \A i \in 1 .. l : r.rcvQ[i].unit = given + i
    BY <1>2 DEF ReceivesWell
  <2>2. l \in Nat /\ DOMAIN r.rcvQ = 1 .. l
    BY <1>6
  <2>. HIDE DEF l, given
  <2>3. 1 .. given + l \subseteq Units
    <3>. DEFINE w == s.nxt
    <3>1. w \in Nat /\ given \in Nat /\ l \in Nat /\ given + l <= w /\ 1 .. w \subseteq Units
      BY <1>1, <1>6, <1>7, <2>1, <2>2
    <3>. HIDE DEF w
    <3>2. \A i \in 1 .. given + l : i \in 1 .. w
      BY <3>1
    <3>. QED  BY <3>1, <3>2
  <2>4. a \in Seq(Units) /\ Len(a) = l /\ Counts(a, given)
    BY <1>6, <2>1, <2>2, <2>3, UnitsOfIs
  <2>. QED  BY <2>4 DEF l
<1>9. b \in Seq(Units) /\ Len(b) = s.nxt - r.rcvNxt /\ Counts(b, r.rcvNxt)
  <2>. DEFINE l == s.nxt - r.rcvNxt
  <2>1. l \in Nat
    BY <1>1, <1>6
  <2>2. Diff(s.nxt, r.rcvNxt) = l /\ \A i \in 0 .. l : Plus(r.rcvNxt, i) = r.rcvNxt + i
    BY <1>1, <1>6, NumbersHold
  <2>3. ASSUME NEW i \in 1 .. l
        PROVE  UnitAt(s, r, Plus(r.rcvNxt, i - 1)) = r.rcvNxt + i /\ r.rcvNxt + i \in Units
    <3>. DEFINE m == r.rcvNxt + (i - 1)
    <3>1. /\ i - 1 \in 0 .. l /\ m \in Nat /\ r.rcvNxt <= m /\ m < s.nxt /\ m + 1 = r.rcvNxt + i
          /\ r.rcvNxt + i \in 1 .. s.nxt
      <4>. DEFINE v == r.rcvNxt
                  w == s.nxt
      <4>1. v \in Nat /\ w \in Nat /\ v <= w /\ i \in 1 .. w - v
        BY <1>1, <1>6
      <4>. HIDE DEF v, w
      <4>2. /\ i - 1 \in 0 .. w - v /\ v + (i - 1) \in Nat /\ v <= v + (i - 1) /\ v + (i - 1) < w
            /\ v + (i - 1) + 1 = v + i /\ v + i \in 1 .. w
        BY <4>1
      <4>. QED  BY <4>2 DEF v, w
    <3>2. Plus(r.rcvNxt, i - 1) = m
      BY <2>2, <3>1
    <3>. HIDE DEF m, given
    <3>3. UnitAt(s, r, m) = m + 1
      BY <1>1, <1>2, <3>1, UnitAtIs
    <3>. QED  BY <1>7, <3>1, <3>2, <3>3
  <2>4. b \in [1 .. l -> Units] /\ \A i \in 1 .. l : b[i] = r.rcvNxt + i
    <3>. HIDE DEF l
    <3>. QED  BY <2>2, <2>3
  <2>. HIDE DEF l, b
  <2>5. b \in Seq(Units) /\ Len(b) = l
    BY <2>1, <2>4, TableIsSeq
  <2>6. Counts(b, r.rcvNxt)
    BY <1>6, <2>4, <2>5, CountsIs
  <2>. QED  BY <2>5, <2>6 DEF l
<1>10. c \in Seq(Units) /\ Len(c) = Len(s.sndQ) /\ Counts(c, s.nxt)
  <2>. DEFINE l == Len(s.sndQ)
  <2>1. \A i \in 1 .. l : s.sndQ[i].unit = s.nxt + i
    BY <1>2 DEF SendsWell
  <2>2. l \in Nat /\ DOMAIN s.sndQ = 1 .. l /\ 1 .. s.nxt + l \subseteq Units
    BY <1>6, <1>7
  <2>. HIDE DEF l
  <2>3. c \in Seq(Units) /\ Len(c) = l /\ Counts(c, s.nxt)
    BY <1>6, <2>1, <2>2, UnitsOfIs
  <2>. QED  BY <2>3 DEF l
<1>11. r.rcvNxt = given + Len(a)
  BY <1>2, <1>8 DEF ReceivesWell
<1>. DEFINE t == Taken(s)
            x == r.rcvNxt
            y == s.nxt
<1>12. /\ a \in Seq(Units) /\ Counts(a, given) /\ given + Len(a) = x
       /\ b \in Seq(Units) /\ Counts(b, x) /\ x + Len(b) = y
       /\ c \in Seq(Units) /\ Counts(c, y) /\ y + Len(c) = t
       /\ d \in Seq(Units) /\ Counts(d, t) /\ t + Len(d) = n
       /\ g \in Seq(Units) /\ Counts(g, 0) /\ 0 + Len(g) = given
       /\ x \in Nat /\ y \in Nat /\ t \in Nat /\ given \in Nat
  <2>1. a \in Seq(Units) /\ Counts(a, given) /\ given + Len(a) = x
    BY <1>8, <1>11
  <2>2. b \in Seq(Units) /\ Counts(b, x)
    BY <1>9
  <2>3. x + Len(b) = y
    <3>. DEFINE l == Len(b)
    <3>1. l = y - x /\ x \in Nat /\ y \in Nat
      BY <1>6, <1>9
    <3>. HIDE DEF l, x, y
    <3>2. x + l = y
      BY <3>1
    <3>. QED  BY <3>2 DEF l
  <2>4. c \in Seq(Units) /\ Counts(c, y) /\ y + Len(c) = t
    BY <1>6, <1>10
  <2>5. d \in Seq(Units) /\ Counts(d, t) /\ t + Len(d) = n
    BY <1>5
  <2>6. g \in Seq(Units) /\ Counts(g, 0)
    BY <1>1, <1>2
  <2>7. 0 + Len(g) = given /\ x \in Nat /\ y \in Nat /\ t \in Nat /\ given \in Nat
    BY <1>6
  <2>. HIDE DEF a, b, c, t, x, y, given
  <2>. QED  BY <2>1, <2>2, <2>3, <2>4, <2>5, <2>6, <2>7
<1>. HIDE DEF a, b, c, t, x, y, given
<1>. DEFINE ab == a \o b
            abc == ab \o c
            all == abc \o d
<1>13. ab \in Seq(Units) /\ Counts(ab, given) /\ given + Len(ab) = y
  <2>1. ab \in Seq(Units) /\ Counts(ab, given) /\ given + Len(ab) = x + Len(b)
    BY <1>12, JoinRuns
  <2>. QED  BY <1>12, <2>1
<1>. HIDE DEF ab
<1>14. abc \in Seq(Units) /\ Counts(abc, given) /\ given + Len(abc) = t
  <2>1. abc \in Seq(Units) /\ Counts(abc, given) /\ given + Len(abc) = y + Len(c)
    BY <1>12, <1>13, JoinRuns
  <2>. QED  BY <1>12, <2>1
<1>. HIDE DEF abc
<1>15. all \in Seq(Units) /\ Counts(all, given) /\ given + Len(all) = n
  <2>1. all \in Seq(Units) /\ Counts(all, given) /\ given + Len(all) = t + Len(d)
    BY <1>12, <1>14, JoinRuns
  <2>. QED  BY <1>12, <2>1
<1>. HIDE DEF all
<1>16. g \o all \in Seq(Units) /\ Counts(g \o all, 0) /\ 0 + Len(g \o all) = given + Len(all)
  BY <1>12, <1>15, JoinRuns
<1>17. Len(g \o all) = n
  <2>1. Len(g \o all) \in Nat
    BY <1>16, LenProperties
  <2>. QED  BY <1>15, <1>16, <2>1
<1>18. g \o all = Numbers(0, n)
  BY <1>16, <1>17 DEF Counts
<1>19. Numbers(0, n) = [i \in 1 .. n |-> i]
  <2>1. \A i \in 1 .. n : 0 + i = i
    BY <1>3
  <2>. QED  BY <2>1 DEF Numbers
<1>20. Unreceived(e) = all
  BY <1>4 DEF all, abc, ab
<1>. QED  BY <1>4, <1>15, <1>18, <1>19, <1>20 DEF g

LEMMA BothAllThere ==
  TunnelInv => \A d \in Ends : EnteredAt(d) = got[Peer(d)] \o Unreceived(d)
BY AllThere

\* Of two runs from the first unit the shorter begins the longer.
LEMMA RunBegins ==
  ASSUME NEW m \in Nat, NEW n \in Nat, m <= n
  PROVE  IsPrefix(Numbers(0, m), Numbers(0, n))
<1>. DEFINE d == n - m
<1>1. d \in Nat /\ m + d = n
  OBVIOUS
<1>. HIDE DEF d
<1>2. Numbers(0, m + d) = Numbers(0, m) \o Numbers(m, d)
  BY <1>1, NumbersGrow
<1>3. Numbers(0, m) \in Seq(Nat) /\ Numbers(m, d) \in Seq(Nat)
  BY <1>1, NumbersAreBytes
<1>4. IsPrefix(Numbers(0, m), Numbers(0, m) \o Numbers(m, d))
  BY <1>3, Begins
<1>. QED  BY <1>1, <1>2, <1>4

\* A step of the tunnel is a step of the queue of each direction.
LEMMA StepIsQueueStep ==
  ASSUME TunnelInv, TunnelInv', Onward, NEW e \in Ends
  PROVE  /\ IsPrefix(EnteredAt(e), EnteredAt(e)')
         /\ IsPrefix(got[Peer(e)], got'[Peer(e)])
         /\ EnteredAt(e)' = got'[Peer(e)] \o Unreceived(e)'
<1>. DEFINE p == Peer(e)
<1>1. EnteredAt(e)' = got'[p] \o Unreceived(e)'
  <2>1. (TunnelInv => \A d \in Ends : EnteredAt(d) = got[Peer(d)] \o Unreceived(d))'
    BY BothAllThere, PTL
  <2>. QED  BY <2>1
<1>2. /\ p \in Ends /\ entered[e] \in Nat /\ entered'[e] \in Nat /\ entered[e] <= entered'[e]
      /\ got[p] \in Seq(Units) /\ got'[p] \in Seq(Units) /\ Len(got[p]) <= Len(got'[p])
  <2>1. p \in Ends
    BY UnitsAre
  <2>. QED  BY <2>1 DEF TunnelInv, TypeOK, Onward
<1>3. Len(got[p]) \in Nat /\ Len(got'[p]) \in Nat
  BY <1>2, LenProperties
<1>4. got[p] = Numbers(0, Len(got[p])) /\ got'[p] = Numbers(0, Len(got'[p]))
  <2>1. PICK F : Flows(e, F)
    BY DEF TunnelInv
  <2>2. PICK G : Flows(e, G)'
    BY DEF TunnelInv
  <2>. QED  BY <2>1, <2>2 DEF Flows, Counts
<1>5. \A n \in Nat : Numbers(0, n) = [i \in 1 .. n |-> i]
  <2>1. \A n \in Nat : \A i \in 1 .. n : 0 + i = i
    OBVIOUS
  <2>. QED  BY <2>1 DEF Numbers
<1>6. EnteredAt(e) = Numbers(0, entered[e]) /\ EnteredAt(e)' = Numbers(0, entered'[e])
  BY <1>2, <1>5 DEF EnteredAt
<1>7. IsPrefix(Numbers(0, entered[e]), Numbers(0, entered'[e]))
  BY <1>2, RunBegins
<1>8. IsPrefix(Numbers(0, Len(got[p])), Numbers(0, Len(got'[p])))
  BY <1>2, <1>3, RunBegins
<1>9. IsPrefix(EnteredAt(e), EnteredAt(e)')
  BY <1>6, <1>7
<1>10. IsPrefix(got[p], got'[p])
  <2>. DEFINE x == Numbers(0, Len(got[p]))
              y == Numbers(0, Len(got'[p]))
  <2>1. IsPrefix(x, y) /\ got[p] = x /\ got'[p] = y
    BY <1>4, <1>8
  <2>. HIDE DEF x, y
  <2>. QED  BY <2>1
<1>. QED  BY <1>1, <1>9, <1>10

\* At first there is nothing in the queues.
LEMMA InitIsEmpty ==
  ASSUME Init, NEW e \in Ends
  PROVE  EnteredAt(e) = <<>> /\ got[Peer(e)] = <<>> /\ Unreceived(e) = <<>>
<1>1. TunnelInv /\ Peer(e) \in Ends
  BY InitInv, UnitsAre
<1>2. entered[e] = 0 /\ got[Peer(e)] = <<>>
  BY <1>1 DEF Init
<1>3. EnteredAt(e) = <<>>
  <2>1. Numbers(0, 0) \in Seq(Nat) /\ Len(Numbers(0, 0)) = 0
    BY NumbersAreBytes
  <2>2. Numbers(0, 0) = <<>>
    BY <2>1, EmptySeq
  <2>3. Numbers(0, 0) = [i \in 1 .. 0 |-> i]
    BY DEF Numbers
  <2>. QED  BY <1>2, <2>2, <2>3 DEF EnteredAt
<1>. DEFINE q == Unreceived(e)
<1>4. <<>> = <<>> \o q /\ q \in Seq(Units)
  BY <1>1, <1>2, <1>3, AllThere
<1>. HIDE DEF q
<1>5. <<>> \o q = q
  BY <1>4, ConcatEmptySeq
<1>6. q = <<>>
  BY <1>4, <1>5
<1>. QED  BY <1>2, <1>3, <1>6 DEF q

\* Uplink: what the client's end sent comes out of the server's in order, each unit
\* once, whatever was lost, repeated, overtaken or sent again on the way.
THEOREM UplinkAlwaysFifo == Spec => UplinkIsFifo
<1>1. Init => Uplink!Init
  <2>1. "cli" \in Ends /\ Peer("cli") = "svr"
    BY DEF Ends, Peer
  <2>. QED  BY <2>1, InitIsEmpty DEF Uplink!Init
<1>2. TunnelInv /\ [Next]_vars => [Uplink!Next]_<<EnteredAt("cli"), Unreceived("cli"), got["svr"]>>
  <2>1. "cli" \in Ends /\ Peer("cli") = "svr"
    BY DEF Ends, Peer
  <2>2. ASSUME TunnelInv, [Next]_vars PROVE Uplink!Next
    <3>1. TunnelInv' /\ Onward
      BY <2>2, StepInv
    <3>2. /\ IsPrefix(EnteredAt("cli"), EnteredAt("cli")')
          /\ IsPrefix(got["svr"], got'["svr"])
          /\ EnteredAt("cli")' = got'["svr"] \o Unreceived("cli")'
      BY <2>1, <2>2, <3>1, StepIsQueueStep
    <3>. QED  BY <3>2 DEF Uplink!Next, IsPrefix, Uplink!IsPrefix
  <2>. QED  BY <2>2
<1>. QED  BY TunnelInvariant, <1>1, <1>2, PTL DEF Spec, UplinkIsFifo, Uplink!Spec, Uplink!vars

\* Downlink: the same the other way round.
THEOREM DownlinkAlwaysFifo == Spec => DownlinkIsFifo
<1>1. Init => Downlink!Init
  <2>1. "svr" \in Ends /\ Peer("svr") = "cli"
    BY DEF Ends, Peer
  <2>. QED  BY <2>1, InitIsEmpty DEF Downlink!Init
<1>2. TunnelInv /\ [Next]_vars => [Downlink!Next]_<<EnteredAt("svr"), Unreceived("svr"), got["cli"]>>
  <2>1. "svr" \in Ends /\ Peer("svr") = "cli"
    BY DEF Ends, Peer
  <2>2. ASSUME TunnelInv, [Next]_vars PROVE Downlink!Next
    <3>1. TunnelInv' /\ Onward
      BY <2>2, StepInv
    <3>2. /\ IsPrefix(EnteredAt("svr"), EnteredAt("svr")')
          /\ IsPrefix(got["cli"], got'["cli"])
          /\ EnteredAt("svr")' = got'["cli"] \o Unreceived("svr")'
      BY <2>1, <2>2, <3>1, StepIsQueueStep
    <3>. QED  BY <3>2 DEF Downlink!Next, IsPrefix, Downlink!IsPrefix
  <2>. QED  BY <2>2
<1>. QED  BY TunnelInvariant, <1>1, <1>2, PTL DEF Spec, DownlinkIsFifo, Downlink!Spec, Downlink!vars
=============================================================================
