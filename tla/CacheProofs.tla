------------------------------ MODULE CacheProofs ------------------------------
(***************************************************************************)
(* Theorems about the store-and-forward cache, for every length of packets *)
(* and every limit of the memory list.                                     *)
(***************************************************************************)
EXTENDS Cache, RunLemmas

-----------------------------------------------------------------------------
(* The counters: Total as a sum over a sequence.                           *)

\* g[i] is the length of the first i packets of ps together.
SumsOf(ps, g) ==
  /\ g \in [0 .. Len(ps) -> Nat]
  /\ g[0] = 0
  /\ \A i \in 1 .. Len(ps) : g[i] = g[i - 1] + ps[i].len

LEMMA LenIsPositive ==
  ASSUME NEW p \in Packets
  PROVE  p.len \in Nat /\ p.len > 0
<1>1. p.len \in Lens
  BY DEF Packets
<1>2. p.len \in Nat \ {0}
  BY <1>1, CacheAssumption
<1>. QED  BY <1>2

LEMMA SumsExist ==
  ASSUME NEW ps \in Seq(Packets)
  PROVE  \E g : SumsOf(ps, g)
<1>. DEFINE Upto(n, g) == /\ g \in [0 .. n -> Nat] /\ g[0] = 0
                          /\ \A i \in 1 .. n : g[i] = g[i - 1] + ps[i].len
            S == {n \in Nat : n <= Len(ps) => \E g : Upto(n, g)}
<1>1. Len(ps) \in Nat /\ \A i \in 1 .. Len(ps) : ps[i].len \in Nat
  BY LenProperties, ElementOfSeq, LenIsPositive
<1>2. 0 \in S
  <2>1. Upto(0, [i \in 0 .. 0 |-> 0])
    OBVIOUS
  <2>. QED  BY <2>1
<1>3. ASSUME NEW n \in Nat, n \in S PROVE n + 1 \in S
  <2>1. ASSUME n + 1 <= Len(ps) PROVE \E g : Upto(n + 1, g)
    <3>0. n <= Len(ps)
      BY <1>1, <2>1
    <3>1. PICK g : Upto(n, g)
      BY <1>3, <3>0
    <3>. DEFINE h == [i \in 0 .. n + 1 |-> IF i <= n THEN g[i] ELSE g[n] + ps[n + 1].len]
    <3>2. ps[n + 1].len \in Nat
      BY <1>1, <2>1
    <3>3. h \in [0 .. n + 1 -> Nat] /\ h[0] = 0
      BY <3>1, <3>2
    <3>4. ASSUME NEW i \in 1 .. n + 1 PROVE h[i] = h[i - 1] + ps[i].len
      <4>1. CASE i <= n
        <5>1. i \in 1 .. n /\ i \in 0 .. n /\ i - 1 \in 0 .. n
          BY <4>1
        <5>2. h[i] = g[i] /\ h[i - 1] = g[i - 1]
          BY <5>1
        <5>. QED  BY <3>1, <5>1, <5>2
      <4>2. CASE i = n + 1
        BY <4>2
      <4>. QED  BY <4>1, <4>2
    <3>. HIDE DEF h
    <3>5. Upto(n + 1, h)
      BY <3>3, <3>4
    <3>. HIDE DEF Upto
    <3>. QED  BY <3>5
  <2>. HIDE DEF Upto
  <2>2. n + 1 \in Nat /\ (n + 1 <= Len(ps) => \E g : Upto(n + 1, g))
    BY <2>1
  <2>. QED  BY <2>2
<1>4. Len(ps) \in S
  <2>. HIDE DEF S
  <2>. QED  BY <1>1, <1>2, <1>3, Induction
<1>. QED  BY <1>1, <1>4 DEF SumsOf

\* The recursive definition of Total is the last of the sums.
LEMMA TotalIsLast ==
  ASSUME NEW ps \in Seq(Packets), NEW g, SumsOf(ps, g)
  PROVE  Total(ps) = g[Len(ps)]
<1>. DEFINE F(f) == f = [i \in 0 .. Len(ps) |-> IF i = 0 THEN 0 ELSE f[i - 1] + ps[i].len]
            sum == CHOOSE f : F(f)
            S == {n \in Nat : n <= Len(ps) => sum[n] = g[n]}
<1>1. Len(ps) \in Nat
  BY LenProperties
<1>2. F(g)
  BY <1>1 DEF SumsOf
<1>3. F(sum)
  BY <1>2
<1>4. Total(ps) = sum[Len(ps)]
  BY DEF Total
<1>. HIDE DEF sum
<1>5. \A i \in 0 .. Len(ps) : sum[i] = IF i = 0 THEN 0 ELSE sum[i - 1] + ps[i].len
  BY <1>3
<1>6. 0 \in S
  BY <1>1, <1>5 DEF SumsOf
<1>7. ASSUME NEW n \in Nat, n \in S PROVE n + 1 \in S
  BY <1>1, <1>5, <1>7 DEF SumsOf
<1>8. Len(ps) \in S
  <2>. HIDE DEF S
  <2>. QED  BY <1>1, <1>6, <1>7, Induction
<1>. QED  BY <1>1, <1>4, <1>8

LEMMA TotalOfNone == Total(<<>>) = 0
<1>. DEFINE g == [i \in 0 .. 0 |-> 0]
<1>1. <<>> \in Seq(Packets) /\ Len(<<>>) = 0
  BY EmptySeq
<1>2. SumsOf(<<>>, g)
  BY <1>1 DEF SumsOf
<1>3. g[0] = 0
  OBVIOUS
<1>. HIDE DEF g
<1>. QED  BY <1>1, <1>2, <1>3, TotalIsLast

\* The sum of two sequences, one after the other.
LEMMA TotalOfBoth ==
  ASSUME NEW ps \in Seq(Packets), NEW qs \in Seq(Packets)
  PROVE  /\ Total(ps) \in Nat
         /\ Total(ps \o qs) = Total(ps) + Total(qs)
<1>1. PICK g : SumsOf(ps, g)
  BY SumsExist
<1>2. PICK h : SumsOf(qs, h)
  BY SumsExist
<1>3. /\ Len(ps) \in Nat /\ Len(qs) \in Nat
      /\ ps \o qs \in Seq(Packets) /\ Len(ps \o qs) = Len(ps) + Len(qs)
      /\ \A i \in 1 .. Len(ps) + Len(qs) :
           (ps \o qs)[i] = IF i <= Len(ps) THEN ps[i] ELSE qs[i - Len(ps)]
  BY LenProperties, ConcatProperties
<1>. DEFINE both == [i \in 0 .. Len(ps) + Len(qs) |->
                       IF i <= Len(ps) THEN g[i] ELSE g[Len(ps)] + h[i - Len(ps)]]
<1>4. g[Len(ps)] \in Nat /\ h[Len(qs)] \in Nat
  BY <1>1, <1>2, <1>3, SMTT(30) DEF SumsOf
<1>7. /\ \A i \in 0 .. Len(ps) : g[i] \in Nat /\ both[i] = g[i]
      /\ \A j \in 0 .. Len(qs) :
           h[j] \in Nat /\ both[Len(ps) + j] = g[Len(ps)] + h[j]
  <2>1. /\ g \in [0 .. Len(ps) -> Nat] /\ h \in [0 .. Len(qs) -> Nat] /\ h[0] = 0
    BY <1>1, <1>2 DEF SumsOf
  <2>2. ASSUME NEW i \in 0 .. Len(ps) PROVE g[i] \in Nat /\ both[i] = g[i]
    <3>1. i \in 0 .. Len(ps) + Len(qs) /\ i <= Len(ps)
      BY <1>3
    <3>. QED  BY <2>1, <3>1
  <2>3. ASSUME NEW j \in 0 .. Len(qs)
        PROVE  h[j] \in Nat /\ both[Len(ps) + j] = g[Len(ps)] + h[j]
    <3>1. CASE j = 0
      BY <1>3, <1>4, <2>1, <3>1
    <3>2. CASE j # 0
      <4>1. /\ Len(ps) + j \in 0 .. Len(ps) + Len(qs) /\ ~ (Len(ps) + j <= Len(ps))
            /\ (Len(ps) + j) - Len(ps) = j
        BY <1>3, <3>2
      <4>. QED  BY <2>1, <4>1
    <3>. QED  BY <3>1, <3>2
  <2>. QED  BY <2>2, <2>3
<1>8. both \in [0 .. Len(ps) + Len(qs) -> Nat]
  <2>1. ASSUME NEW i \in 0 .. Len(ps) + Len(qs) PROVE both[i] \in Nat
    <3>1. CASE i <= Len(ps)
      <4>1. i \in 0 .. Len(ps)
        BY <1>3, <3>1
      <4>. HIDE DEF both
      <4>. QED  BY <1>7, <4>1
    <3>2. CASE ~ (i <= Len(ps))
      <4>1. i - Len(ps) \in 0 .. Len(qs) /\ Len(ps) + (i - Len(ps)) = i
        BY <1>3, <3>2
      <4>2. both[i] = g[Len(ps)] + h[i - Len(ps)] /\ h[i - Len(ps)] \in Nat
        <5>. HIDE DEF both
        <5>. QED  BY <1>7, <4>1
      <4>. HIDE DEF both
      <4>. QED  BY <1>4, <4>2
    <3>. QED  BY <3>1, <3>2
  <2>. QED  BY <2>1
<1>5. SumsOf(ps \o qs, both)
  <2>1. both[0] = 0
    BY <1>1, <1>3, <1>7 DEF SumsOf
  <2>. HIDE DEF both
  <2>2. ASSUME NEW i \in 1 .. Len(ps) + Len(qs)
        PROVE  both[i] = both[i - 1] + (ps \o qs)[i].len
    <3>1. CASE i <= Len(ps)
      <4>1. i \in 1 .. Len(ps) /\ i \in 0 .. Len(ps) /\ i - 1 \in 0 .. Len(ps)
        BY <1>3, <3>1
      <4>2. g[i] = g[i - 1] + ps[i].len
        BY <1>1, <4>1 DEF SumsOf
      <4>. QED  BY <1>3, <1>7, <3>1, <4>1, <4>2
    <3>2. CASE ~ (i <= Len(ps))
      <4>. DEFINE j == i - Len(ps)
      <4>1. /\ j \in 1 .. Len(qs) /\ j \in 0 .. Len(qs) /\ j - 1 \in 0 .. Len(qs)
            /\ Len(ps) + j = i /\ Len(ps) + (j - 1) = i - 1
        BY <1>3, <3>2
      <4>2. /\ both[i] = g[Len(ps)] + h[j]
            /\ both[i - 1] = g[Len(ps)] + h[j - 1]
            /\ h[j - 1] \in Nat
        <5>. HIDE DEF j
        <5>. QED  BY <1>7, <4>1
      <4>3. h[j] = h[j - 1] + qs[j].len /\ qs[j].len \in Nat
        <5>1. qs[j] \in Packets
          BY <4>1, ElementOfSeq
        <5>. HIDE DEF j
        <5>. QED  BY <1>2, <4>1, <5>1, LenIsPositive DEF SumsOf
      <4>4. (ps \o qs)[i] = qs[j]
        BY <1>3, <3>2
      <4>. HIDE DEF j
      <4>. QED  BY <1>4, <4>2, <4>3, <4>4
    <3>. QED  BY <3>1, <3>2
  <2>. QED  BY <1>3, <1>8, <2>1, <2>2 DEF SumsOf
<1>6. both[Len(ps) + Len(qs)] = g[Len(ps)] + h[Len(qs)]
  BY <1>3, <1>7
<1>. HIDE DEF both
<1>. QED  BY <1>1, <1>2, <1>3, <1>4, <1>5, <1>6, TotalIsLast

LEMMA TotalOfOne ==
  ASSUME NEW p \in Packets
  PROVE  Total(<<p>>) = p.len
<1>. DEFINE g == [i \in 0 .. 1 |-> IF i = 0 THEN 0 ELSE p.len]
            one == <<p>>
<1>1. one \in Seq(Packets) /\ Len(one) = 1 /\ one[1] = p
  OBVIOUS
<1>2. SumsOf(one, g)
  BY <1>1, LenIsPositive DEF SumsOf
<1>3. g[1] = p.len
  OBVIOUS
<1>. HIDE DEF g, one
<1>4. Total(one) = p.len
  BY <1>1, <1>2, <1>3, TotalIsLast
<1>. QED  BY <1>4 DEF one

\* Packets are not empty: only no packets have no length together.
LEMMA OnlyNoneIsEmpty ==
  ASSUME NEW ps \in Seq(Packets), Total(ps) = 0
  PROVE  ps = <<>>
<1>1. PICK g : SumsOf(ps, g)
  BY SumsExist
<1>2. ASSUME ps # <<>> PROVE FALSE
  <2>1. Len(ps) \in Nat /\ Len(ps) # 0
    BY <1>2, EmptySeq
  <2>2. g[Len(ps)] = g[Len(ps) - 1] + ps[Len(ps)].len /\ g[Len(ps) - 1] \in Nat
    BY <1>1, <2>1 DEF SumsOf
  <2>3. ps[Len(ps)].len \in Nat /\ ps[Len(ps)].len > 0
    BY <2>1, ElementOfSeq, LenIsPositive
  <2>. QED  BY <1>1, <2>2, <2>3, TotalIsLast
<1>. QED  BY <1>2

-----------------------------------------------------------------------------
(* Parts of sequences.                                                     *)

\* What is unread of a file that another record is appended to.
LEMMA UnreadGrows ==
  ASSUME NEW S, NEW s \in Seq(S), NEW e \in S, NEW r \in 1 .. Len(s) + 1
  PROVE  /\ SubSeq(s, r, Len(s)) \in Seq(S)
         /\ SubSeq(Append(s, e), r, Len(Append(s, e))) = Append(SubSeq(s, r, Len(s)), e)
<1>. DEFINE t == Append(s, e)
            u == SubSeq(s, r, Len(s))
            v == SubSeq(t, r, Len(t))
<1>1. /\ Len(s) \in Nat /\ \A i \in 1 .. Len(s) : s[i] \in S
      /\ t \in Seq(S) /\ Len(t) = Len(s) + 1
      /\ \A i \in 1 .. Len(s) : t[i] = s[i]
      /\ t[Len(s) + 1] = e
  BY LenProperties, ElementOfSeq, AppendProperties
<1>. HIDE DEF t
<1>2. /\ u \in Seq(S) /\ Len(u) = Len(s) + 1 - r
      /\ \A i \in 1 .. Len(s) + 1 - r : u[i] = s[r + i - 1]
  <2>1. r \in Int /\ Len(s) \in Int /\ \A i \in r .. Len(s) : s[i] \in S
    BY <1>1
  <2>2. /\ u \in Seq(S) /\ Len(u) = IF r <= Len(s) THEN Len(s) - r + 1 ELSE 0
        /\ \A i \in 1 .. Len(s) - r + 1 : u[i] = s[r + i - 1]
    BY <2>1, SubSeqProperties
  <2>. QED  BY <1>1, <2>2
<1>3. /\ v \in Seq(S) /\ Len(v) = Len(s) + 2 - r
      /\ \A i \in 1 .. Len(s) + 2 - r : v[i] = t[r + i - 1]
  <2>1. r \in Int /\ Len(t) \in Int /\ \A i \in r .. Len(t) : t[i] \in S
    BY <1>1, ElementOfSeq
  <2>2. /\ v \in Seq(S) /\ Len(v) = IF r <= Len(t) THEN Len(t) - r + 1 ELSE 0
        /\ \A i \in 1 .. Len(t) - r + 1 : v[i] = t[r + i - 1]
    BY <2>1, SubSeqProperties
  <2>. QED  BY <1>1, <2>2
<1>. HIDE DEF u, v
<1>4. /\ Append(u, e) \in Seq(S) /\ Len(Append(u, e)) = Len(s) + 2 - r
      /\ \A i \in 1 .. Len(s) + 1 - r : Append(u, e)[i] = u[i]
      /\ Append(u, e)[Len(s) + 2 - r] = e
  <2>1. /\ Append(u, e) \in Seq(S) /\ Len(Append(u, e)) = Len(u) + 1
        /\ \A i \in 1 .. Len(u) : Append(u, e)[i] = u[i]
        /\ Append(u, e)[Len(u) + 1] = e
    BY <1>2, AppendProperties
  <2>. QED  BY <1>1, <1>2, <2>1
<1>5. ASSUME NEW i \in 1 .. Len(v) PROVE v[i] = Append(u, e)[i]
  <2>0. i \in 1 .. Len(s) + 2 - r /\ v[i] = t[r + i - 1]
    BY <1>3
  <2>1. CASE i <= Len(s) + 1 - r
    <3>1. i \in 1 .. Len(s) + 1 - r /\ r + i - 1 \in 1 .. Len(s)
      BY <1>1, <2>0, <2>1
    <3>. QED  BY <1>1, <1>2, <1>4, <2>0, <3>1
  <2>2. CASE i = Len(s) + 2 - r
    <3>1. r + i - 1 = Len(s) + 1
      BY <1>1, <2>2
    <3>. QED  BY <1>1, <1>4, <2>0, <2>2, <3>1
  <2>3. i <= Len(s) + 1 - r \/ i = Len(s) + 2 - r
    BY <1>1, <2>0
  <2>. QED  BY <2>1, <2>2, <2>3
<1>6. v = Append(u, e)
  BY <1>1, <1>3, <1>4, <1>5, SeqEqual
<1>. QED  BY <1>2, <1>6 DEF t, u, v

-----------------------------------------------------------------------------
(* The inductive invariant.                                                *)

\* The packets of q were accepted in this order, the last no later than n.
InOrder(q, n) ==
  /\ \A i \in 1 .. Len(q) : q[i].id <= n
  /\ \A i, j \in 1 .. Len(q) : i < j => q[i].id < q[j].id

\* What came out, what is in memory and what is unread of the file.
Kept == out \o (mem \o Unread)

\* The counters are exact, but for the file's after a failing write, which may
\* only be too high; what is kept is in order, and complete before a failure.
CacheInv ==
  /\ TypeOK
  /\ lenMem = Total(mem)
  /\ lenFile >= Total(Unread)
  /\ InOrder(Kept, Len(accepted))
  /\ diskFaults = 0 => lenFile = Total(Unread) /\ accepted = Kept

LEMMA OneMoreInOrder ==
  ASSUME NEW q \in Seq(Packets), NEW n \in Nat, InOrder(q, n),
         NEW p \in Packets, p.id = n + 1
  PROVE  InOrder(Append(q, p), n + 1)
<1>. DEFINE r == Append(q, p)
<1>1. /\ Len(q) \in Nat /\ Len(r) = Len(q) + 1
      /\ \A i \in 1 .. Len(q) : r[i] = q[i]
      /\ r[Len(q) + 1] = p
  BY LenProperties, AppendProperties
<1>. HIDE DEF r
<1>4. ASSUME NEW i \in 1 .. Len(q) PROVE q[i].id \in Nat
  <2>1. q[i] \in Packets
    BY <1>1, ElementOfSeq
  <2>2. q[i].id \in 1 .. MaxPackets
    BY <2>1 DEF Packets
  <2>. QED  BY <2>2, CacheAssumption
<1>2. ASSUME NEW i \in 1 .. Len(r) PROVE r[i].id <= n + 1
  <2>1. CASE i = Len(q) + 1
    BY <1>1, <2>1
  <2>2. CASE i \in 1 .. Len(q)
    <3>1. r[i] = q[i] /\ q[i].id \in Nat /\ q[i].id <= n
      BY <1>1, <1>4, <2>2 DEF InOrder
    <3>. QED  BY <3>1
  <2>. QED  BY <1>1, <2>1, <2>2
<1>3. ASSUME NEW i \in 1 .. Len(r), NEW j \in 1 .. Len(r), i < j PROVE r[i].id < r[j].id
  <2>1. i \in 1 .. Len(q) /\ (j \in 1 .. Len(q) \/ j = Len(q) + 1)
    BY <1>1, <1>3
  <2>2. CASE j \in 1 .. Len(q)
    BY <1>1, <1>3, <2>1, <2>2 DEF InOrder
  <2>3. CASE j = Len(q) + 1
    <3>1. r[i] = q[i] /\ r[j] = p /\ q[i].id \in Nat /\ q[i].id <= n
      BY <1>1, <1>4, <2>1, <2>3 DEF InOrder
    <3>. QED  BY <3>1
  <2>. QED  BY <2>1, <2>2, <2>3
<1>. QED  BY <1>1, <1>2, <1>3 DEF r, InOrder

LEMMA FirstInOrder ==
  ASSUME NEW s \in Seq(Packets), NEW t \in Seq(Packets), NEW n, InOrder(s \o t, n)
  PROVE  InOrder(s, n)
<1>1. /\ Len(s) \in Nat /\ Len(t) \in Nat /\ Len(s \o t) = Len(s) + Len(t)
      /\ \A i \in 1 .. Len(s) : i \in 1 .. Len(s) + Len(t) /\ (s \o t)[i] = s[i]
  BY LenProperties, ConcatProperties
<1>. QED  BY <1>1 DEF InOrder

LEMMA CacheInit == Init => CacheInv
<1>. SUFFICES ASSUME Init PROVE CacheInv
  OBVIOUS
<1>1. <<>> \in Seq(Packets) /\ Len(<<>>) = 0
  BY EmptySeq
<1>2. Unread = <<>>
  BY <1>1, SubSeqEmpty DEF Init, Unread
<1>3. mem \o Unread = <<>> /\ Kept = <<>>
  BY <1>1, <1>2, ConcatEmptySeq DEF Init, Kept
<1>4. TypeOK
  BY <1>1, CacheAssumption DEF Init, TypeOK
<1>5. InOrder(Kept, Len(accepted))
  BY <1>1, <1>3 DEF InOrder
<1>. QED  BY <1>1, <1>2, <1>3, <1>4, <1>5, TotalOfNone DEF Init, CacheInv

\* cache(): the packet goes behind everything, or behind the memory list when
\* a failing write has hidden the file.
LEMMA CacheStep ==
  ASSUME CacheInv, DoCache
  PROVE  /\ CacheInv' /\ out' = out
         /\ IsPrefix(accepted, accepted')
<1>1. PICK len \in Lens :
        LET p == [id |-> Len(accepted) + 1, len |-> len] IN
        /\ accepted' = Append(accepted, p)
        /\ \/ /\ ToDisk(p) /\ Write(p)
              /\ lenFile' = lenFile + p.len
              /\ UNCHANGED <<mem, lenMem, diskFaults>>
           \/ ToDisk(p) /\ WriteFails /\ KeepInMem(p)
           \/ ~ToDisk(p) /\ KeepInMem(p) /\ UNCHANGED <<file, rd, diskFaults>>
  BY DEF DoCache
<1>. DEFINE p == [id |-> Len(accepted) + 1, len |-> len]
<1>2. Len(accepted) < MaxPackets /\ out' = out
  BY DEF DoCache
<1>t. /\ mem \in Seq(Packets) /\ file \in Seq(Packets) /\ rd \in 1 .. Len(file) + 1
      /\ lenMem \in Nat /\ lenFile \in Nat
      /\ accepted \in Seq(Packets) /\ out \in Seq(Packets) /\ diskFaults \in 0 .. MaxDiskFaults
      /\ Len(accepted) \in Nat /\ Len(file) \in Nat
  BY LenProperties DEF CacheInv, TypeOK
<1>i. /\ lenMem = Total(mem) /\ lenFile >= Total(Unread)
      /\ InOrder(Kept, Len(accepted))
      /\ diskFaults = 0 => lenFile = Total(Unread) /\ accepted = Kept
  BY DEF CacheInv
<1>3. p \in Packets /\ p.id = Len(accepted) + 1 /\ p.len \in Nat
  <2>1. Len(accepted) + 1 \in 1 .. MaxPackets
    BY <1>t, <1>2, CacheAssumption
  <2>2. p \in Packets
    BY <2>1 DEF Packets
  <2>. HIDE DEF p
  <2>3. p.len \in Nat
    BY <2>2, LenIsPositive
  <2>. QED  BY <2>2, <2>3 DEF p
<1>4. /\ accepted' = Append(accepted, p)
      /\ \/ /\ ToDisk(p) /\ Write(p)
            /\ lenFile' = lenFile + p.len
            /\ UNCHANGED <<mem, lenMem, diskFaults>>
         \/ ToDisk(p) /\ WriteFails /\ KeepInMem(p)
         \/ ~ToDisk(p) /\ KeepInMem(p) /\ UNCHANGED <<file, rd, diskFaults>>
  BY <1>1
<1>. HIDE DEF p
<1>5. /\ accepted' \in Seq(Packets) /\ Len(accepted') = Len(accepted) + 1
      /\ accepted' = accepted \o <<p>> /\ <<p>> \in Seq(Packets) /\ Total(<<p>>) = p.len
  BY <1>t, <1>3, <1>4, AppendProperties, AppendIsConcat, TotalOfOne
<1>6. IsPrefix(accepted, accepted')
  BY <1>t, <1>5, BeginsLonger
<1>u. Unread \in Seq(Packets) /\ mem \o Unread \in Seq(Packets) /\ Kept \in Seq(Packets)
  <2>1. Unread \in Seq(Packets)
    BY <1>t, <1>3, UnreadGrows DEF Unread
  <2>. QED  BY <1>t, <2>1, ConcatProperties DEF Kept
\* Behind all that is kept.
<1>7. ASSUME TypeOK', Kept' = Append(Kept, p),
             diskFaults' = diskFaults, lenMem' = Total(mem'), lenFile' >= Total(Unread'),
             diskFaults = 0 => lenFile' = Total(Unread')
      PROVE  CacheInv'
  <2>1. InOrder(Kept', Len(accepted'))
    BY <1>t, <1>i, <1>u, <1>3, <1>5, <1>7, OneMoreInOrder
  <2>2. diskFaults = 0 => accepted' = Kept'
    BY <1>i, <1>4, <1>7
  <2>. QED  BY <1>7, <2>1, <2>2 DEF CacheInv
<1>8. CASE /\ ToDisk(p) /\ Write(p)
           /\ lenFile' = lenFile + p.len
           /\ UNCHANGED <<mem, lenMem, diskFaults>>
  <2>1. Unread' = Append(Unread, p) /\ Append(Unread, p) = Unread \o <<p>>
    <3>1. file' = Append(file, p) /\ rd' = rd /\ UNCHANGED rd
      BY <1>8 DEF Write
    <3>2. Unread' = Append(Unread, p)
      BY <1>t, <1>3, <3>1, UnreadGrows, SMTT(30) DEF Unread
    <3>3. Append(Unread, p) = Unread \o <<p>>
      BY <1>3, <1>u, AppendIsConcat
    <3>. QED  BY <3>2, <3>3
  <2>2. TypeOK'
    <3>1. file' \in Seq(Packets) /\ Len(file') = Len(file) + 1
      BY <1>8, <1>t, <1>3, AppendProperties DEF Write
    <3>. QED  BY <1>8, <1>t, <1>2, <1>3, <1>5, <3>1 DEF Write, TypeOK
  <2>3. Kept' = Append(Kept, p)
    <3>1. mem \o (Unread \o <<p>>) = (mem \o Unread) \o <<p>>
      BY <1>t, <1>u, <1>5, ConcatAssociative, SMTT(30)
    <3>. DEFINE one == <<p>>
                rest == mem \o Unread
    <3>2. out \o (rest \o one) = (out \o rest) \o one
      <4>1. out \in Seq(Packets) /\ rest \in Seq(Packets) /\ one \in Seq(Packets)
        BY <1>t, <1>u, <1>5
      <4>. HIDE DEF one, rest
      <4>. QED  BY <4>1, ConcatAssociative
    <3>3. mem' = mem
      BY <1>8
    <3>4. Kept' = Kept \o <<p>>
      BY <1>2, <2>1, <3>1, <3>2, <3>3 DEF Kept
    <3>. QED  BY <1>u, <1>3, <3>4, AppendIsConcat
  <2>4. Total(Unread') = Total(Unread) + p.len /\ Total(Unread) \in Nat
    BY <1>5, <1>u, <2>1, TotalOfBoth, ZenonT(60)
  <2>5. /\ lenFile' = lenFile + p.len /\ mem' = mem /\ lenMem' = lenMem
        /\ diskFaults' = diskFaults
    BY <1>8
  <2>6. lenFile' >= Total(Unread') /\ (diskFaults = 0 => lenFile' = Total(Unread'))
    BY <1>i, <1>t, <1>3, <2>4, <2>5, SMTT(30)
  <2>7. lenMem' = Total(mem')
    BY <1>i, <2>5
  <2>. QED  BY <1>2, <1>6, <1>7, <2>2, <2>3, <2>5, <2>6, <2>7
<1>m. ASSUME KeepInMem(p)
      PROVE  /\ mem' = mem \o <<p>> /\ mem' \in Seq(Packets) /\ lenMem' \in Nat
             /\ lenMem' = Total(mem') /\ lenFile' = lenFile
  <2>1. mem' = mem \o <<p>> /\ mem' \in Seq(Packets)
    BY <1>m, <1>t, <1>3, AppendProperties, AppendIsConcat DEF KeepInMem
  <2>2. Total(mem \o <<p>>) = Total(mem) + p.len
    BY <1>t, <1>5, TotalOfBoth, ZenonT(60)
  <2>3. lenMem' = lenMem + p.len /\ lenFile' = lenFile
    BY <1>m DEF KeepInMem
  <2>. QED  BY <1>i, <1>t, <1>3, <2>1, <2>2, <2>3, SMTT(30)
<1>k. /\ out \o mem \in Seq(Packets) /\ (out \o mem) \o <<p>> = out \o (mem \o <<p>>)
      /\ (out \o mem) \o Unread = Kept
  <2>. DEFINE one == <<p>>
  <2>1. out \in Seq(Packets) /\ mem \in Seq(Packets) /\ one \in Seq(Packets) /\ Unread \in Seq(Packets)
    BY <1>t, <1>5, <1>u
  <2>. HIDE DEF one
  <2>2. (out \o mem) \o one = out \o (mem \o one)
    BY <2>1, ConcatAssociative
  <2>3. (out \o mem) \o Unread = out \o (mem \o Unread)
    BY <2>1, ConcatAssociative
  <2>4. out \o mem \in Seq(Packets)
    BY <2>1, ConcatProperties
  <2>. QED  BY <2>2, <2>3, <2>4 DEF one, Kept
<1>9. CASE ToDisk(p) /\ WriteFails /\ KeepInMem(p)
  <2>1. Unread' = <<>>
    BY <1>9, <1>t, SubSeqEmpty DEF WriteFails, Unread
  <2>2. /\ diskFaults' \in 0 .. MaxDiskFaults /\ diskFaults' # 0
        /\ file' = file /\ rd' \in 1 .. Len(file) + 1
    BY <1>9, <1>t, CacheAssumption DEF WriteFails
  <2>3. TypeOK'
    BY <1>t, <1>2, <1>5, <1>9, <1>m, <2>2 DEF TypeOK
  <2>4. Kept' = Append(out \o mem, p)
    <3>1. mem' \o <<>> = mem'
      BY <1>9, <1>m, ConcatEmptySeq
    <3>2. Kept' = out \o (mem \o <<p>>)
      BY <1>2, <1>9, <1>m, <2>1, <3>1 DEF Kept
    <3>. QED  BY <1>3, <1>k, <3>2, AppendIsConcat
  <2>5. InOrder(Kept', Len(accepted'))
    <3>1. InOrder(out \o mem, Len(accepted))
      BY <1>i, <1>k, <1>u, FirstInOrder
    <3>. QED  BY <1>t, <1>k, <1>3, <1>5, <2>4, <3>1, OneMoreInOrder
  <2>6. lenFile' >= Total(Unread')
    BY <1>9, <1>m, <1>t, <2>1, TotalOfNone
  <2>. QED  BY <1>2, <1>6, <1>9, <1>m, <2>2, <2>3, <2>5, <2>6 DEF CacheInv
<1>10. CASE ~ToDisk(p) /\ KeepInMem(p) /\ UNCHANGED <<file, rd, diskFaults>>
  <2>1. Unread = <<>>
    <3>1. lenFile = 0
      BY <1>10, <1>t DEF ToDisk
    <3>2. Total(Unread) = 0
      BY <1>i, <1>u, <3>1, TotalOfBoth
    <3>. QED  BY <1>u, <3>2, OnlyNoneIsEmpty
  <2>2. Unread' = <<>>
    BY <1>10, <2>1 DEF Unread
  <2>3. TypeOK'
    BY <1>t, <1>2, <1>5, <1>10, <1>m DEF TypeOK
  <2>4. Kept' = Append(Kept, p)
    <3>1. mem' \o <<>> = mem' /\ (out \o mem) \o <<>> = out \o mem
      BY <1>10, <1>k, <1>m, ConcatEmptySeq
    <3>2. Kept' = out \o (mem \o <<p>>) /\ Kept = out \o mem
      BY <1>2, <1>10, <1>k, <1>m, <2>1, <2>2, <3>1 DEF Kept
    <3>. QED  BY <1>3, <1>k, <3>2, AppendIsConcat
  <2>5. lenMem' = Total(mem') /\ lenFile' = lenFile /\ diskFaults' = diskFaults
    BY <1>10, <1>m
  <2>. QED  BY <1>2, <1>6, <1>7, <1>i, <2>1, <2>2, <2>3, <2>4, <2>5
<1>. QED  BY <1>2, <1>4, <1>6, <1>8, <1>9, <1>10

\* Reading on skips the first records that were unread.
LEMMA UnreadShrinks ==
  ASSUME NEW S, NEW s \in Seq(S), NEW r \in 1 .. Len(s) + 1,
         NEW j \in 0 .. Len(SubSeq(s, r, Len(s)))
  PROVE  /\ r + j \in 1 .. Len(s) + 1
         /\ SubSeq(s, r + j, Len(s)) =
              SubSeq(SubSeq(s, r, Len(s)), j + 1, Len(SubSeq(s, r, Len(s))))
<1>. DEFINE u == SubSeq(s, r, Len(s))
<1>1. Len(s) \in Nat /\ \A i \in 1 .. Len(s) : s[i] \in S
  BY LenProperties, ElementOfSeq
<1>2. u \in Seq(S) /\ Len(u) = Len(s) + 1 - r
  <2>1. r \in Int /\ Len(s) \in Int /\ \A i \in r .. Len(s) : s[i] \in S
    BY <1>1
  <2>2. u \in Seq(S) /\ Len(u) = IF r <= Len(s) THEN Len(s) - r + 1 ELSE 0
    BY <2>1, SubSeqProperties
  <2>. QED  BY <1>1, <2>2
<1>3. j \in Nat /\ j <= Len(u)
  BY <1>1, <1>2
<1>4. CASE j = Len(u)
  <2>1. /\ Len(s) \in Int /\ r + j \in Int /\ Len(s) < r + j
        /\ Len(u) \in Int /\ j + 1 \in Int /\ Len(u) < j + 1
    BY <1>1, <1>2, <1>3, <1>4
  <2>2. SubSeq(s, r + j, Len(s)) = <<>> /\ SubSeq(u, j + 1, Len(u)) = <<>>
    <3>. HIDE DEF u
    <3>. QED  BY <2>1, SubSeqEmpty
  <2>. QED  BY <1>1, <1>2, <1>4, <2>2
<1>5. CASE j < Len(u)
  <2>1. /\ r \in 1 .. Len(s) /\ Len(s) \in 1 .. Len(s)
        /\ j + 1 \in 1 .. Len(s) - r + 1 /\ Len(u) \in 1 .. Len(s) - r + 1
    BY <1>1, <1>2, <1>3, <1>5
  <2>2. SubSeq(SubSeq(s, r, Len(s)), j + 1, Len(u)) = SubSeq(s, r + (j + 1) - 1, r + Len(u) - 1)
    <3>. HIDE DEF u
    <3>. QED  BY <2>1, SubSeqOfSubSeq
  <2>3. r + (j + 1) - 1 = r + j /\ r + Len(u) - 1 = Len(s)
    BY <1>1, <1>2, <1>3
  <2>. QED  BY <1>1, <1>2, <1>5, <2>2, <2>3
<1>. QED  BY <1>1, <1>2, <1>3, <1>4, <1>5

\* What is taken from the front of two sequences, the second only when nothing
\* of the first is left, and what remains.
LEMMA Taken ==
  ASSUME NEW S, NEW m \in Seq(S), NEW u \in Seq(S),
         NEW k \in 0 .. Len(m), NEW j \in 0 .. Len(u), k = Len(m) \/ j = 0
  PROVE  /\ SubSeq(m \o u, 1, k + j) \in Seq(S)
         /\ SubSeq(m \o u, 1, k + j) \o (SubSeq(m, k + 1, Len(m)) \o SubSeq(u, j + 1, Len(u)))
              = m \o u
<1>. DEFINE a == SubSeq(m, 1, k)
            b == SubSeq(m, k + 1, Len(m))
            c == SubSeq(u, 1, j)
            d == SubSeq(u, j + 1, Len(u))
<1>1. /\ a \in Seq(S) /\ Len(a) = k /\ b \in Seq(S) /\ a \o b = m /\ Len(b) = Len(m) - k
      /\ c \in Seq(S) /\ Len(c) = j /\ d \in Seq(S) /\ c \o d = u
      /\ Len(m) \in Nat /\ Len(u) \in Nat
  BY Split, LenProperties
<1>. HIDE DEF a, b, c, d
<1>2. CASE k = Len(m)
  <2>1. a = m /\ b = <<>>
    <3>1. a = m
      BY <1>2, SubSeqFull DEF a
    <3>2. b = <<>>
      BY <1>1, <1>2, EmptySeq
    <3>. QED  BY <3>1, <3>2
  <2>2. (m \o c) \o d = m \o u /\ m \o c \in Seq(S) /\ Len(m \o c) = k + j
    <3>1. (m \o c) \o d = m \o (c \o d)
      <4>1. m \in Seq(S) /\ c \in Seq(S) /\ d \in Seq(S)
        BY <1>1
      <4>. QED  BY <4>1, ConcatAssociative, SMTT(30)
    <3>2. m \o c \in Seq(S) /\ Len(m \o c) = Len(m) + Len(c)
      BY <1>1, ConcatProperties
    <3>. QED  BY <1>1, <1>2, <3>1, <3>2
  <2>3. SubSeq(m \o u, 1, k + j) = m \o c
    <3>. DEFINE mc == m \o c
    <3>1. mc \in Seq(S) /\ Len(mc) = k + j /\ mc \o d = m \o u
      BY <2>2
    <3>. HIDE DEF mc
    <3>2. SubSeq(mc \o d, 1, Len(mc)) = mc
      BY <1>1, <3>1, Joined
    <3>. QED  BY <3>1, <3>2 DEF mc
  <2>4. b \o d = d
    BY <1>1, <2>1, ConcatEmptySeq
  <2>. QED  BY <2>2, <2>3, <2>4 DEF b, d
<1>3. CASE j = 0
  <2>1. d = u
    BY <1>3, SubSeqFull DEF d
  <2>2. a \o (b \o u) = m \o u
    <3>1. (a \o b) \o u = a \o (b \o u)
      <4>1. a \in Seq(S) /\ b \in Seq(S) /\ u \in Seq(S)
        BY <1>1
      <4>. QED  BY <4>1, ConcatAssociative, SMTT(30)
    <3>. QED  BY <1>1, <3>1
  <2>3. SubSeq(m \o u, 1, k + j) = a
    <3>. DEFINE bu == b \o u
    <3>1. bu \in Seq(S)
      BY <1>1, ConcatProperties
    <3>. HIDE DEF bu
    <3>2. SubSeq(a \o bu, 1, Len(a)) = a
      BY <1>1, <3>1, Joined
    <3>3. a \o bu = m \o u /\ k + j = Len(a)
      BY <1>1, <1>3, <2>2 DEF bu
    <3>. QED  BY <3>2, <3>3
  <2>. QED  BY <1>1, <2>1, <2>2, <2>3 DEF b, d
<1>. QED  BY <1>2, <1>3

\* flushAll(): what it hands out leaves the queue, from the front.
LEMMA FlushStep ==
  ASSUME CacheInv, FlushAll
  PROVE  /\ CacheInv' /\ accepted' = accepted
         /\ IsPrefix(out, out')
<1>. DEFINE Took(n, k, j) ==
       /\ out' = out \o SubSeq(mem \o Unread, 1, n)
       /\ mem' = SubSeq(mem, k + 1, Len(mem))
       /\ lenMem' = lenMem - Total(SubSeq(mem, 1, k))
       /\ rd' = rd + j
       /\ lenFile' = lenFile - Total(SubSeq(Unread, 1, j))
       /\ UNCHANGED <<file, accepted, diskFaults>>
<1>t. /\ mem \in Seq(Packets) /\ file \in Seq(Packets) /\ rd \in 1 .. Len(file) + 1
      /\ lenMem \in Nat /\ lenFile \in Nat
      /\ accepted \in Seq(Packets) /\ out \in Seq(Packets) /\ diskFaults \in 0 .. MaxDiskFaults
      /\ Len(accepted) \in Nat /\ Len(file) \in Nat /\ Len(mem) \in Nat
  BY LenProperties DEF CacheInv, TypeOK
<1>i. /\ lenMem = Total(mem) /\ lenFile >= Total(Unread)
      /\ InOrder(Kept, Len(accepted))
      /\ diskFaults = 0 => lenFile = Total(Unread) /\ accepted = Kept
  BY DEF CacheInv
<1>f. file \in Seq(Packets) /\ Unread = SubSeq(file, rd, Len(file))
  BY <1>t DEF Unread
<1>u. Unread \in Seq(Packets) /\ Len(Unread) \in Nat
  <2>1. rd \in Int /\ Len(file) \in Int /\ \A i \in rd .. Len(file) : file[i] \in Packets
    BY <1>t, ElementOfSeq
  <2>2. Unread \in Seq(Packets)
    BY <1>t, <2>1, SubSeqProperties DEF Unread
  <2>. QED  BY <2>2, LenProperties
<1>1. PICK n \in 0 .. Len(mem) + Len(Unread) :
        LET k == Min({n, Len(mem)})
            j == n - k
            refused == n >= Len(mem) /\ n < Len(mem) + Len(Unread)
        IN
        /\ out' = out \o SubSeq(mem \o Unread, 1, n)
        /\ mem' = SubSeq(mem, k + 1, Len(mem))
        /\ lenMem' = lenMem - Total(SubSeq(mem, 1, k))
        /\ rd' = rd + j + Rollback(refused)
        /\ lenFile' = lenFile - Total(SubSeq(Unread, 1, j))
        /\ UNCHANGED <<file, accepted, diskFaults>>
  BY DEF FlushAll
<1>2. \E k \in 0 .. Len(mem), j \in 0 .. Len(Unread) :
        /\ k = Len(mem) \/ j = 0
        /\ n = k + j /\ Took(k + j, k, j)
  <2>. DEFINE k == Min({n, Len(mem)})
              j == n - k
  <2>1. k = IF n <= Len(mem) THEN n ELSE Len(mem)
    BY <1>t, <1>u DEF Min
  <2>2. k \in 0 .. Len(mem) /\ j \in 0 .. Len(Unread) /\ (k = Len(mem) \/ j = 0) /\ n = k + j
    <3>. HIDE DEF k
    <3>. QED  BY <1>t, <1>u, <2>1
  <2>3. Took(n, k, j)
    <3>1. rd' = rd + j + 0
      BY <1>1 DEF Rollback
    <3>2. rd' = rd + j
      <4>. HIDE DEF k
      <4>. QED  BY <1>t, <2>2, <3>1
    <3>. QED  BY <1>1, <3>2
  <2>. HIDE DEF k, j, Took
  <2>. QED  BY <2>2, <2>3
<1>3. PICK k \in 0 .. Len(mem), j \in 0 .. Len(Unread) :
        (k = Len(mem) \/ j = 0) /\ Took(k + j, k, j)
  <2>. HIDE DEF Took
  <2>. QED  BY <1>2
<1>. DEFINE taken == SubSeq(mem \o Unread, 1, k + j)
            a == SubSeq(mem, 1, k)
            b == SubSeq(mem, k + 1, Len(mem))
            c == SubSeq(Unread, 1, j)
            d == SubSeq(Unread, j + 1, Len(Unread))
<1>4. /\ out' = out \o taken /\ mem' = b /\ lenMem' = lenMem - Total(a)
      /\ rd' = rd + j /\ lenFile' = lenFile - Total(c)
      /\ file' = file /\ accepted' = accepted /\ diskFaults' = diskFaults
  BY <1>3
<1>5. taken \in Seq(Packets) /\ taken \o (b \o d) = mem \o Unread
  <2>1. k = Len(mem) \/ j = 0
    BY <1>3
  <2>2. mem \in Seq(Packets) /\ Unread \in Seq(Packets)
    BY <1>t, <1>u
  <2>3. /\ SubSeq(mem \o Unread, 1, k + j) \in Seq(Packets)
        /\ SubSeq(mem \o Unread, 1, k + j)
             \o (SubSeq(mem, k + 1, Len(mem)) \o SubSeq(Unread, j + 1, Len(Unread)))
             = mem \o Unread
    BY <2>1, <2>2, Taken, ZenonT(60)
  <2>. QED  BY <2>3
<1>6. /\ a \in Seq(Packets) /\ b \in Seq(Packets) /\ a \o b = mem
      /\ c \in Seq(Packets) /\ d \in Seq(Packets) /\ c \o d = Unread
  BY <1>t, <1>u, Split
<1>7. rd' \in 1 .. Len(file) + 1 /\ Unread' = d
  <2>1. j \in 0 .. Len(SubSeq(file, rd, Len(file)))
    BY <1>f
  <2>2. /\ rd + j \in 1 .. Len(file) + 1
        /\ SubSeq(file, rd + j, Len(file)) =
             SubSeq(SubSeq(file, rd, Len(file)), j + 1, Len(SubSeq(file, rd, Len(file))))
    BY <1>t, <2>1, UnreadShrinks
  <2>3. SubSeq(file, rd + j, Len(file)) = d
    BY <1>f, <2>2
  <2>. HIDE DEF d
  <2>. QED  BY <1>4, <2>2, <2>3 DEF Unread
<1>. HIDE DEF taken, a, b, c, d, Took
<1>8. /\ Total(mem) = Total(a) + Total(b) /\ Total(Unread) = Total(c) + Total(d)
      /\ Total(a) \in Nat /\ Total(b) \in Nat /\ Total(c) \in Nat /\ Total(d) \in Nat
  BY <1>6, TotalOfBoth
<1>9. /\ lenMem' = Total(b) /\ lenFile' \in Nat /\ lenFile' >= Total(d)
      /\ diskFaults = 0 => lenFile' = Total(d)
  <2>1. lenMem' = Total(mem) - Total(a) /\ lenFile' = lenFile - Total(c)
    BY <1>i, <1>4
  <2>2. lenFile >= Total(Unread) /\ (diskFaults = 0 => lenFile = Total(Unread))
    BY <1>i
  <2>3. Total(mem) - Total(a) = Total(b)
    BY <1>8
  <2>4. lenFile >= Total(c) + Total(d) /\ (diskFaults = 0 => lenFile = Total(c) + Total(d))
    BY <1>8, <2>2
  <2>5. lenFile \in Nat /\ Total(c) \in Nat /\ Total(d) \in Nat
    BY <1>t, <1>8
  <2>6. lenFile - Total(c) \in Nat /\ lenFile - Total(c) >= Total(d)
    BY <2>4, <2>5
  <2>7. diskFaults = 0 => lenFile - Total(c) = Total(d)
    BY <2>4, <2>5
  <2>. QED  BY <2>1, <2>3, <2>6, <2>7
<1>10. out' \in Seq(Packets) /\ IsPrefix(out, out')
  BY <1>t, <1>4, <1>5, ConcatProperties, BeginsLonger
<1>11. Kept' = Kept
  <2>. DEFINE rest == b \o d
  <2>1. rest \in Seq(Packets)
    BY <1>6, ConcatProperties
  <2>2. Kept' = (out \o taken) \o rest /\ Kept = out \o (taken \o rest)
    BY <1>4, <1>5, <1>7 DEF Kept
  <2>. HIDE DEF rest
  <2>3. (out \o taken) \o rest = out \o (taken \o rest)
    <3>1. out \in Seq(Packets) /\ taken \in Seq(Packets)
      BY <1>t, <1>5
    <3>. QED  BY <2>1, <3>1, ConcatAssociative, SMTT(30)
  <2>. QED  BY <2>2, <2>3
<1>12. TypeOK'
  BY <1>t, <1>4, <1>6, <1>7, <1>8, <1>9, <1>10 DEF TypeOK
<1>13. /\ lenMem' = Total(mem') /\ lenFile' >= Total(Unread')
       /\ InOrder(Kept', Len(accepted'))
       /\ diskFaults' = 0 => lenFile' = Total(Unread') /\ accepted' = Kept'
  BY <1>i, <1>4, <1>7, <1>9, <1>11
<1>14. CacheInv'
  BY <1>12, <1>13 DEF CacheInv
<1>. QED  BY <1>4, <1>10, <1>14

LEMMA CacheNext == CacheInv /\ [Next]_vars => CacheInv'
<1>. SUFFICES ASSUME CacheInv, [Next]_vars PROVE CacheInv'
  OBVIOUS
<1>1. CASE DoCache
  BY <1>1, CacheStep
<1>2. CASE FlushAll
  BY <1>2, FlushStep
<1>3. CASE UNCHANGED vars
  BY <1>3 DEF CacheInv, TypeOK, Kept, Unread, vars
<1>. QED  BY <1>1, <1>2, <1>3 DEF Next

LEMMA CacheInductive == Spec => []CacheInv
BY CacheInit, CacheNext, PTL DEF Spec

-----------------------------------------------------------------------------
(* The theorems.                                                           *)

\* empty() tells whether anything is left, and until a write fails it does so
\* exactly: FastConnection::_flushAll may rely on the two counters.
THEOREM CacheCountersExact == Spec => []EmptyIsExact
<1>1. ASSUME CacheInv PROVE EmptyIsExact
  <2>1. /\ mem \in Seq(Packets) /\ file \in Seq(Packets) /\ rd \in 1 .. Len(file) + 1
        /\ lenMem = Total(mem) /\ lenFile >= Total(Unread) /\ lenFile \in Nat
        /\ diskFaults = 0 => lenFile = Total(Unread)
    BY <1>1 DEF CacheInv, TypeOK
  <2>2. Unread \in Seq(Packets)
    <3>1. Len(file) \in Nat
      BY <2>1, LenProperties
    <3>2. rd \in Int /\ Len(file) \in Int /\ \A i \in rd .. Len(file) : file[i] \in Packets
      BY <2>1, <3>1, ElementOfSeq
    <3>. QED  BY <2>1, <3>2, SubSeqProperties DEF Unread
  <2>3. ASSUME Empty PROVE mem \o Unread = <<>>
    <3>1. Total(mem) = 0
      BY <2>1, <2>3 DEF Empty
    <3>2. Total(Unread) = 0
      <4>1. Total(Unread) \in Nat
        BY <2>2, TotalOfBoth
      <4>. QED  BY <2>1, <2>3, <4>1 DEF Empty
    <3>3. mem = <<>> /\ Unread = <<>>
      BY <2>1, <2>2, <3>1, <3>2, OnlyNoneIsEmpty
    <3>. QED  BY <3>3, ConcatEmptySeq, EmptySeq
  <2>4. ASSUME diskFaults = 0, mem \o Unread = <<>> PROVE Empty
    <3>1. Total(mem) = 0 /\ Total(Unread) = 0
      <4>1. Total(mem \o Unread) = Total(mem) + Total(Unread)
        BY <2>1, <2>2, TotalOfBoth
      <4>2. Total(mem) \in Nat /\ Total(Unread) \in Nat
        BY <2>1, <2>2, TotalOfBoth
      <4>. QED  BY <2>4, <4>1, <4>2, TotalOfNone
    <3>. QED  BY <2>1, <2>4, <3>1 DEF Empty
  <2>. QED  BY <1>1, <2>3, <2>4 DEF EmptyIsExact, CacheInv
<1>. QED  BY <1>1, CacheInductive, PTL

\* Nothing is flushed twice, whatever writes to the file fail.
THEOREM NothingFlushedTwice == Spec => []NeverTwice
<1>1. ASSUME CacheInv PROVE NeverTwice
  <2>1. mem \in Seq(Packets) /\ out \in Seq(Packets) /\ InOrder(Kept, Len(accepted))
        /\ file \in Seq(Packets) /\ rd \in 1 .. Len(file) + 1
    BY <1>1 DEF CacheInv, TypeOK
  <2>2. mem \o Unread \in Seq(Packets)
    <3>1. Len(file) \in Nat
      BY <2>1, LenProperties
    <3>2. rd \in Int /\ Len(file) \in Int /\ \A i \in rd .. Len(file) : file[i] \in Packets
      BY <2>1, <3>1, ElementOfSeq
    <3>3. Unread \in Seq(Packets)
      BY <2>1, <3>2, SubSeqProperties DEF Unread
    <3>. QED  BY <2>1, <3>3, ConcatProperties
  <2>3. InOrder(out, Len(accepted))
    BY <2>1, <2>2, FirstInOrder DEF Kept
  <2>4. DOMAIN out = 1 .. Len(out) /\ Len(out) \in Nat
    BY <2>1, LenProperties
  <2>5. ASSUME NEW i \in 1 .. Len(out), NEW j \in 1 .. Len(out), i < j
        PROVE  out[i].id # out[j].id
    <3>1. out[i] \in Packets /\ out[j] \in Packets /\ out[i].id < out[j].id
      BY <2>1, <2>3, <2>5, ElementOfSeq DEF InOrder
    <3>2. out[i].id \in 1 .. MaxPackets /\ out[j].id \in 1 .. MaxPackets
      BY <3>1 DEF Packets
    <3>. QED  BY <3>1, <3>2, CacheAssumption
  <2>6. ASSUME NEW i \in 1 .. Len(out), NEW j \in 1 .. Len(out), out[i].id = out[j].id
        PROVE  i = j
    <3>1. ~ (i < j) /\ ~ (j < i)
      BY <2>5, <2>6
    <3>. QED  BY <2>4, <3>1
  <2>. QED  BY <2>4, <2>6 DEF NeverTwice
<1>. QED  BY <1>1, CacheInductive, PTL

\* Until a write fails, memory and disk are one queue.
THEOREM CacheIsFifo == Spec => IsFifo
<1>1. ASSUME Init PROVE Abstract!Init
  <2>1. <<>> \in Seq(Packets) /\ Len(<<>>) = 0
    BY EmptySeq
  <2>2. Unread = <<>>
    BY <1>1, <2>1, SubSeqEmpty DEF Init, Unread
  <2>3. mem \o Unread = <<>>
    BY <1>1, <2>1, <2>2, ConcatEmptySeq DEF Init
  <2>. QED  BY <1>1, <2>3 DEF Init, Abstract!Init
<1>2. ASSUME CacheInv, [Next]_vars
      PROVE  [diskFaults' = 0 => Abstract!Next]_<<accepted, mem \o Unread, out>>
  <2>1. CacheInv'
    BY <1>2, CacheNext
  <2>t. accepted \in Seq(Packets) /\ out \in Seq(Packets)
    BY <1>2 DEF CacheInv, TypeOK
  <2>2. CASE Next
    <3>1. IsPrefix(accepted, accepted') /\ IsPrefix(out, out')
      <4>1. \A s \in Seq(Packets) : IsPrefix(s, s)
        <5>1. SUFFICES ASSUME NEW s \in Seq(Packets) PROVE IsPrefix(s, s)
          OBVIOUS
        <5>2. <<>> \in Seq(Packets) /\ s \o <<>> = s
          BY EmptySeq, ConcatEmptySeq
        <5>. QED  BY <5>2, BeginsLonger
      <4>. QED  BY <1>2, <2>t, <2>2, <4>1, CacheStep, FlushStep DEF Next
    <3>2. diskFaults' = 0 => accepted' = out' \o (mem \o Unread)'
      BY <2>1 DEF CacheInv, Kept
    <3>. QED  BY <3>1, <3>2 DEF Abstract!Next, IsPrefix, Abstract!IsPrefix
  <2>3. CASE UNCHANGED vars
    BY <2>3 DEF vars, Unread
  <2>. QED  BY <1>2, <2>2, <2>3
<1>. QED  BY <1>1, <1>2, CacheInductive, PTL DEF Spec, IsFifo

================================================================================
