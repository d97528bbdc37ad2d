----------------------------- MODULE RunLemmas -----------------------------
(***************************************************************************)
(* What the proofs about queues need to know of runs and their parts.      *)
(***************************************************************************)
EXTENDS Runs, SequenceTheorems, WellFoundedInduction, TLAPS

\* A set that holds 0 and the successor of each of its numbers holds them all:
\* induction without an operator for the property.
LEMMA Induction ==
  ASSUME NEW S, 0 \in S, \A n \in Nat : n \in S => n + 1 \in S
  PROVE  Nat \subseteq S
<1>. SUFFICES ASSUME Nat \ S # {} PROVE FALSE
  OBVIOUS
<1>. DEFINE T == Nat \ S
            R == {p \in Nat \X Nat : p[1] < p[2]}
<1>1. IsWellFoundedOn(R, Nat) /\ T \subseteq Nat /\ T # {}
  BY NatLessThanWellFounded DEF OpToRel
<1>2. PICK x \in T : \A y \in T : <<y, x>> \notin R
  <2>. HIDE DEF T, R
  <2>. QED  BY <1>1, WFMin
<1>3. \A y \in T : ~ (y < x)
  BY <1>2
<1>4. x - 1 \in Nat /\ x - 1 < x
  OBVIOUS
<1>. QED  BY <1>3, <1>4

\* The numbers counted from one on are a sequence of that length.
LEMMA NumbersAreBytes ==
  ASSUME NEW m \in Nat, NEW n \in Nat
  PROVE  Numbers(m, n) \in Seq(Nat) /\ Len(Numbers(m, n)) = n
<1>1. Numbers(m, n) \in [1 .. n -> Nat]
  BY DEF Numbers
<1>2. Numbers(m, n) \in Seq(Nat)
  BY <1>1, SeqDef
<1>. QED  BY <1>1, <1>2, LenProperties

\* What follows the first m bytes makes a longer run of them.
LEMMA NumbersGrow ==
  ASSUME NEW m \in Nat, NEW n \in Nat
  PROVE  Numbers(0, m + n) = Numbers(0, m) \o Numbers(m, n)
<1>1. /\ Numbers(0, m) \in Seq(Nat) /\ Len(Numbers(0, m)) = m
      /\ Numbers(m, n) \in Seq(Nat) /\ Len(Numbers(m, n)) = n
      /\ Numbers(0, m + n) \in Seq(Nat) /\ Len(Numbers(0, m + n)) = m + n
  BY NumbersAreBytes
<1>. DEFINE a == Numbers(0, m)
             b == Numbers(m, n)
<1>5. /\ a \o b \in Seq(Nat)
      /\ Len(a \o b) = Len(a) + Len(b)
      /\ \A i \in 1 .. Len(a) + Len(b) :
           (a \o b)[i] = IF i <= Len(a) THEN a[i] ELSE b[i - Len(a)]
  <2>. HIDE DEF a, b
  <2>1. a \in Seq(Nat) /\ b \in Seq(Nat)
    BY <1>1 DEF a, b
  <2>. QED  BY <2>1, ConcatProperties
<1>2. /\ Numbers(0, m) \o Numbers(m, n) \in Seq(Nat)
      /\ Len(Numbers(0, m) \o Numbers(m, n)) = m + n
      /\ \A i \in 1 .. m + n :
           (Numbers(0, m) \o Numbers(m, n))[i] =
             IF i <= m THEN Numbers(0, m)[i] ELSE Numbers(m, n)[i - m]
  BY <1>1, <1>5
<1>3. ASSUME NEW i \in 1 .. m + n
      PROVE  Numbers(0, m + n)[i] = (Numbers(0, m) \o Numbers(m, n))[i]
  <2>. Numbers(0, m + n)[i] = i
    BY DEF Numbers
  <2>1. CASE i <= m
    <3>1. i \in 1 .. m /\ Numbers(0, m)[i] = i
      BY <2>1 DEF Numbers
    <3>. QED  BY <1>2, <2>1, <3>1
  <2>2. CASE ~(i <= m)
    <3>1. i - m \in 1 .. n
      BY <2>2
    <3>2. Numbers(m, n)[i - m] = m + (i - m)
      BY <3>1 DEF Numbers
    <3>. QED  BY <1>2, <2>2, <3>2
  <2>. QED  BY <2>1, <2>2
<1>4. \A i \in 1 .. Len(Numbers(0, m + n)) :
        Numbers(0, m + n)[i] = (Numbers(0, m) \o Numbers(m, n))[i]
  BY <1>1, <1>3
<1>. QED  BY <1>1, <1>2, <1>4, SeqEqual

\* Three runs are joined in either order.
LEMMA Grouping ==
  ASSUME NEW s \in Seq(Nat), NEW t \in Seq(Nat), NEW u \in Seq(Nat)
  PROVE  (s \o t) \o u = s \o (t \o u)
BY ConcatAssociative, Z3

\* A sequence is its first k elements and the others.
LEMMA Split ==
  ASSUME NEW S, NEW s \in Seq(S), NEW k \in 0 .. Len(s)
  PROVE  /\ SubSeq(s, 1, k) \in Seq(S) /\ Len(SubSeq(s, 1, k)) = k
         /\ SubSeq(s, k + 1, Len(s)) \in Seq(S) /\ Len(SubSeq(s, k + 1, Len(s))) = Len(s) - k
         /\ SubSeq(s, 1, k) \o SubSeq(s, k + 1, Len(s)) = s
<1>1. Len(s) \in Nat /\ \A i \in 1 .. Len(s) : s[i] \in S
  BY LenProperties, ElementOfSeq
<1>2. SubSeq(s, 1, k) \in Seq(S) /\ Len(SubSeq(s, 1, k)) = k
  <2>1. \A i \in 1 .. k : s[i] \in S
    BY <1>1
  <2>2. SubSeq(s, 1, k) \in Seq(S) /\ Len(SubSeq(s, 1, k)) = IF 1 <= k THEN k - 1 + 1 ELSE 0
    BY <2>1, SubSeqProperties
  <2>. QED  BY <2>2
<1>3. SubSeq(s, k + 1, Len(s)) \in Seq(S) /\ Len(SubSeq(s, k + 1, Len(s))) = Len(s) - k
  <2>1. k + 1 \in Int /\ Len(s) \in Int /\ \A i \in k + 1 .. Len(s) : s[i] \in S
    BY <1>1
  <2>2. /\ SubSeq(s, k + 1, Len(s)) \in Seq(S)
        /\ Len(SubSeq(s, k + 1, Len(s))) =
             IF k + 1 <= Len(s) THEN Len(s) - (k + 1) + 1 ELSE 0
    BY <2>1, SubSeqProperties
  <2>. QED  BY <1>1, <2>2
<1>4. SubSeq(s, 1, k) \o SubSeq(s, k + 1, Len(s)) = SubSeq(s, 1, Len(s))
  <2>1. 1 \in 1 .. Len(s) + 1 /\ k \in 1 - 1 .. Len(s) /\ Len(s) \in k .. Len(s)
    BY <1>1
  <2>. QED  BY <2>1, ConcatAdjacentSubSeq
<1>. QED  BY <1>2, <1>3, <1>4, SubSeqFull

\* The same of data, with the length of the rest.
LEMMA Cut ==
  ASSUME NEW s \in Seq(Nat), NEW k \in 0 .. Len(s)
  PROVE  /\ SubSeq(s, 1, k) \in Seq(Nat)
         /\ Rest(s, k) \in Seq(Nat) /\ Len(Rest(s, k)) = Len(s) - k
         /\ SubSeq(s, 1, k) \o Rest(s, k) = s
BY Split DEF Rest

\* Dropping more than there is leaves a sequence, too.
LEMMA RestIsBytes ==
  ASSUME NEW s \in Seq(Nat), NEW k \in Nat
  PROVE  Rest(s, k) \in Seq(Nat)
<1>1. Len(s) \in Nat /\ \A i \in 1 .. Len(s) : s[i] \in Nat
  BY LenProperties, ElementOfSeq
<1>2. k + 1 \in Int /\ Len(s) \in Int /\ \A i \in k + 1 .. Len(s) : s[i] \in Nat
  BY <1>1
<1>. QED  BY <1>2, SubSeqProperties DEF Rest

\* A sequence begins a longer one.
LEMMA BeginsLonger ==
  ASSUME NEW S, NEW s \in Seq(S), NEW t \in Seq(S)
  PROVE  IsPrefix(s, s \o t)
<1>1. /\ Len(s) \in Nat /\ Len(t) \in Nat
      /\ s \o t \in Seq(S) /\ Len(s \o t) = Len(s) + Len(t)
  BY LenProperties, ConcatProperties
<1>2. SubSeq(s, 1, Len(s)) = SubSeq(s \o t, 1, Len(s))
  <2>1. CASE Len(s) = 0
    BY <2>1, SubSeqEmpty
  <2>2. CASE Len(s) # 0
    <3>1. 1 \in 1 .. Len(s) /\ Len(s) \in 1 .. Len(s)
      BY <1>1, <2>2
    <3>. QED  BY <3>1, SubSeqOfConcat1
  <2>. QED  BY <2>1, <2>2
<1>. QED  BY <1>1, <1>2 DEF IsPrefix

LEMMA Begins ==
  ASSUME NEW s \in Seq(Nat), NEW t \in Seq(Nat)
  PROVE  IsPrefix(s, s \o t)
BY BeginsLonger

\* What a joined sequence begins with, and what it ends with.
LEMMA Joined ==
  ASSUME NEW S, NEW s \in Seq(S), NEW t \in Seq(S)
  PROVE  /\ SubSeq(s \o t, 1, Len(s)) = s
         /\ SubSeq(s \o t, Len(s) + 1, Len(s \o t)) = t
<1>1. /\ Len(s) \in Nat /\ Len(t) \in Nat
      /\ s \o t \in Seq(S) /\ Len(s \o t) = Len(s) + Len(t)
  BY LenProperties, ConcatProperties
<1>2. SubSeq(s \o t, 1, Len(s)) = s
  BY BeginsLonger, SubSeqFull DEF IsPrefix
<1>. DEFINE r == SubSeq(s \o t, Len(s) + 1, Len(s \o t))
<1>3. r \in Seq(S) /\ s \o r = s \o t
  <2>1. Len(s) \in 0 .. Len(s \o t)
    BY <1>1
  <2>. QED  BY <1>1, <1>2, <2>1, Split
<1>. HIDE DEF r
<1>4. r = t
  <2>1. /\ Len(r) \in Nat /\ Len(s \o r) = Len(s) + Len(r)
        /\ \A i \in 1 .. Len(s) + Len(r) : (s \o r)[i] = IF i <= Len(s) THEN s[i] ELSE r[i - Len(s)]
        /\ \A i \in 1 .. Len(s) + Len(t) : (s \o t)[i] = IF i <= Len(s) THEN s[i] ELSE t[i - Len(s)]
    BY <1>3, LenProperties, ConcatProperties
  <2>2. Len(r) = Len(t)
    BY <1>1, <1>3, <2>1
  <2>3. ASSUME NEW i \in 1 .. Len(r) PROVE r[i] = t[i]
    <3>1. /\ Len(s) + i \in 1 .. Len(s) + Len(r) /\ ~ (Len(s) + i <= Len(s))
          /\ (Len(s) + i) - Len(s) = i
      BY <1>1, <2>1
    <3>2. (s \o r)[Len(s) + i] = r[i] /\ (s \o t)[Len(s) + i] = t[i]
      BY <2>1, <2>2, <3>1
    <3>. QED  BY <1>3, <3>2
  <2>. QED  BY <1>3, <2>2, <2>3, SeqEqual
<1>. QED  BY <1>2, <1>4 DEF r

-----------------------------------------------------------------------------
(* Runs of numbers, rising sequences, and sequences joined.                *)

\* s is a run of numbers without a hole, the last of them n.
EndsAt(s, n) ==
  /\ Len(s) <= n
  /\ \A i \in 1 .. Len(s) : s[i] = n - Len(s) + i

IsRun(s) == s # <<>> => EndsAt(s, s[Len(s)])

Increasing(s) == \A i, j \in 1 .. Len(s) : i < j => s[i] < s[j]

LEMMA ConcatAt ==
  ASSUME NEW S, NEW s \in Seq(S), NEW t \in Seq(S)
  PROVE  /\ s \o t \in Seq(S) /\ Len(s) \in Nat /\ Len(t) \in Nat
         /\ Len(s \o t) = Len(s) + Len(t)
         /\ \A i \in 1 .. Len(s) : i \in 1 .. Len(s) + Len(t) /\ (s \o t)[i] = s[i]
         /\ \A i \in 1 .. Len(t) :
              Len(s) + i \in 1 .. Len(s) + Len(t) /\ (s \o t)[Len(s) + i] = t[i]
<1>1. /\ s \o t \in Seq(S) /\ Len(s) \in Nat /\ Len(t) \in Nat
      /\ Len(s \o t) = Len(s) + Len(t)
      /\ \A i \in 1 .. Len(s) + Len(t) :
           (s \o t)[i] = IF i <= Len(s) THEN s[i] ELSE t[i - Len(s)]
  BY LenProperties, ConcatProperties
<1>2. ASSUME NEW i \in 1 .. Len(s)
      PROVE  i \in 1 .. Len(s) + Len(t) /\ (s \o t)[i] = s[i]
  BY <1>1
<1>3. ASSUME NEW i \in 1 .. Len(t)
      PROVE  Len(s) + i \in 1 .. Len(s) + Len(t) /\ (s \o t)[Len(s) + i] = t[i]
  <2>1. /\ Len(s) + i \in 1 .. Len(s) + Len(t)
        /\ ~ (Len(s) + i <= Len(s)) /\ (Len(s) + i) - Len(s) = i
    BY <1>1
  <2>. QED  BY <1>1, <2>1
<1>. QED  BY <1>1, <1>2, <1>3

LEMMA NumbersInSeq ==
  ASSUME NEW m \in Nat, NEW s \in Seq(1 .. m)
  PROVE  Len(s) \in Nat /\ \A i \in 1 .. Len(s) : s[i] \in Nat /\ s[i] >= 1 /\ s[i] <= m
<1>1. Len(s) \in Nat
  BY LenProperties
<1>2. \A i \in 1 .. Len(s) : s[i] \in 1 .. m
  BY ElementOfSeq
<1>. QED  BY <1>1, <1>2

LEMMA EndsConcat ==
  ASSUME NEW m \in Nat, NEW s \in Seq(1 .. m), NEW t \in Seq(1 .. m), NEW n \in Nat
  PROVE  EndsAt(s \o t, n) <=> EndsAt(t, n) /\ EndsAt(s, n - Len(t))
<1>1. /\ Len(s) \in Nat /\ Len(t) \in Nat /\ Len(s \o t) = Len(s) + Len(t)
      /\ \A i \in 1 .. Len(s) : i \in 1 .. Len(s) + Len(t) /\ (s \o t)[i] = s[i]
      /\ \A i \in 1 .. Len(t) :
           Len(s) + i \in 1 .. Len(s) + Len(t) /\ (s \o t)[Len(s) + i] = t[i]
  BY ConcatAt
<1>2. ASSUME EndsAt(s \o t, n) PROVE EndsAt(t, n) /\ EndsAt(s, n - Len(t))
  <2>1. /\ Len(s) + Len(t) <= n
        /\ \A i \in 1 .. Len(s) + Len(t) : (s \o t)[i] = n - (Len(s) + Len(t)) + i
    BY <1>1, <1>2 DEF EndsAt
  <2>2. ASSUME NEW i \in 1 .. Len(t) PROVE t[i] = n - Len(t) + i
    <3>1. t[i] = n - (Len(s) + Len(t)) + (Len(s) + i)
      BY <1>1, <2>1
    <3>. QED  BY <1>1, <3>1
  <2>3. ASSUME NEW i \in 1 .. Len(s) PROVE s[i] = (n - Len(t)) - Len(s) + i
    <3>1. s[i] = n - (Len(s) + Len(t)) + i
      BY <1>1, <2>1
    <3>. QED  BY <1>1, <3>1
  <2>. QED  BY <1>1, <2>1, <2>2, <2>3 DEF EndsAt
<1>3. ASSUME EndsAt(t, n), EndsAt(s, n - Len(t)) PROVE EndsAt(s \o t, n)
  <2>1. /\ Len(t) <= n /\ Len(s) <= n - Len(t)
        /\ \A i \in 1 .. Len(t) : t[i] = n - Len(t) + i
        /\ \A i \in 1 .. Len(s) : s[i] = (n - Len(t)) - Len(s) + i
    BY <1>3 DEF EndsAt
  <2>2. ASSUME NEW i \in 1 .. Len(s) + Len(t)
        PROVE  (s \o t)[i] = n - (Len(s) + Len(t)) + i
    <3>1. CASE i <= Len(s)
      <4>1. i \in 1 .. Len(s)
        BY <1>1, <3>1
      <4>2. (s \o t)[i] = (n - Len(t)) - Len(s) + i
        BY <1>1, <2>1, <4>1
      <4>. QED  BY <1>1, <4>2
    <3>2. CASE ~ (i <= Len(s))
      <4>. DEFINE j == i - Len(s)
      <4>1. j \in 1 .. Len(t) /\ i = Len(s) + j
        BY <1>1, <3>2
      <4>. HIDE DEF j
      <4>2. (s \o t)[i] = n - Len(t) + j
        BY <1>1, <2>1, <4>1
      <4>3. n - Len(t) + j = n - (Len(s) + Len(t)) + i
        BY <1>1, <4>1
      <4>. QED  BY <4>2, <4>3
    <3>. QED  BY <3>1, <3>2
  <2>3. Len(s \o t) <= n
    BY <1>1, <2>1
  <2>. QED  BY <1>1, <2>2, <2>3 DEF EndsAt
<1>. QED  BY <1>2, <1>3

LEMMA EndsNone == ASSUME NEW n \in Nat PROVE EndsAt(<<>>, n)
<1>1. Len(<<>>) = 0
  BY EmptySeq
<1>. QED  BY <1>1 DEF EndsAt

LEMMA EndsOneMore ==
  ASSUME NEW m \in Nat, NEW s \in Seq(1 .. m), NEW n \in Nat, n < m, EndsAt(s, n)
  PROVE  <<n + 1>> \in Seq(1 .. m) /\ EndsAt(s \o <<n + 1>>, n + 1)
<1>. DEFINE t == <<n + 1>>
<1>1. t \in Seq(1 .. m) /\ Len(t) = 1 /\ t[1] = n + 1
  BY Z3
<1>2. EndsAt(t, n + 1)
  <2>. HIDE DEF t
  <2>. QED  BY <1>1 DEF EndsAt
<1>3. EndsAt(s, (n + 1) - Len(t))
  <2>. HIDE DEF t
  <2>1. (n + 1) - Len(t) = n
    BY <1>1
  <2>. QED  BY <2>1
<1>. HIDE DEF t
<1>4. EndsAt(s \o t, n + 1)
  <2>. DEFINE k == n + 1
  <2>1. k \in Nat /\ EndsAt(t, k) /\ EndsAt(s, k - Len(t))
    BY <1>2, <1>3
  <2>. HIDE DEF k
  <2>2. EndsAt(s \o t, k)
    BY <1>1, <2>1, EndsConcat
  <2>. QED  BY <2>2 DEF k
<1>. QED  BY <1>1, <1>4 DEF t

\* What ends somewhere is a run; a run ends somewhere.
LEMMA EndsIsRun ==
  ASSUME NEW m \in Nat, NEW s \in Seq(1 .. m), NEW n \in Nat, EndsAt(s, n)
  PROVE  /\ IsRun(s) /\ Increasing(s)
         /\ \A i \in 1 .. Len(s) : s[i] <= n
         /\ s # <<>> => s[Len(s)] = n
<1>1. /\ Len(s) \in Nat /\ Len(s) <= n /\ \A i \in 1 .. Len(s) : s[i] = n - Len(s) + i
  BY LenProperties DEF EndsAt
<1>2. ASSUME s # <<>> PROVE s[Len(s)] = n
  <2>1. Len(s) # 0
    BY <1>2, EmptySeq
  <2>2. Len(s) \in 1 .. Len(s)
    BY <1>1, <2>1
  <2>3. s[Len(s)] = n - Len(s) + Len(s)
    BY <1>1, <2>2
  <2>. QED  BY <1>1, <2>3
<1>3. Increasing(s)
  BY <1>1 DEF Increasing
<1>4. \A i \in 1 .. Len(s) : s[i] <= n
  BY <1>1
<1>. QED  BY <1>2, <1>3, <1>4 DEF IsRun

LEMMA RunEnds ==
  ASSUME NEW m \in Nat, NEW s \in Seq(1 .. m), IsRun(s)
  PROVE  \E n \in Nat : EndsAt(s, n)
<1>1. CASE s = <<>>
  BY <1>1, EndsNone
<1>2. CASE s # <<>>
  <2>1. Len(s) \in Nat /\ Len(s) # 0
    BY <1>2, EmptySeq, LenProperties
  <2>2. s[Len(s)] \in Nat
    BY <2>1, NumbersInSeq
  <2>. QED  BY <1>2, <2>2 DEF IsRun
<1>. QED  BY <1>1, <1>2

LEMMA RunConcat ==
  ASSUME NEW m \in Nat, NEW s \in Seq(1 .. m), NEW t \in Seq(1 .. m), IsRun(s \o t)
  PROVE  IsRun(s) /\ IsRun(t)
<1>1. s \o t \in Seq(1 .. m) /\ Len(t) \in Nat
  BY ConcatAt
<1>2. PICK n \in Nat : EndsAt(s \o t, n)
  BY <1>1, RunEnds
<1>3. EndsAt(t, n) /\ EndsAt(s, n - Len(t))
  BY <1>2, EndsConcat
<1>4. n - Len(t) \in Nat
  BY <1>1, <1>3 DEF EndsAt
<1>. QED  BY <1>3, <1>4, EndsIsRun

LEMMA NoHoles ==
  ASSUME NEW m \in Nat, NEW s \in Seq(1 .. m), IsRun(s), NEW i \in 1 .. Len(s) - 1
  PROVE  s[i + 1] = s[i] + 1
<1>1. PICK n \in Nat : EndsAt(s, n)
  BY RunEnds
<1>2. Len(s) \in Nat
  BY LenProperties
<1>3. i \in 1 .. Len(s) /\ i + 1 \in 1 .. Len(s)
  BY <1>2
<1>. QED  BY <1>1, <1>2, <1>3 DEF EndsAt

LEMMA IncreasingConcat ==
  ASSUME NEW m \in Nat, NEW s \in Seq(1 .. m), NEW t \in Seq(1 .. m)
  PROVE  Increasing(s \o t) <=>
           /\ Increasing(s) /\ Increasing(t)
           /\ \A i \in 1 .. Len(s), j \in 1 .. Len(t) : s[i] < t[j]
<1>1. /\ Len(s) \in Nat /\ Len(t) \in Nat /\ Len(s \o t) = Len(s) + Len(t)
      /\ \A i \in 1 .. Len(s) : i \in 1 .. Len(s) + Len(t) /\ (s \o t)[i] = s[i]
      /\ \A i \in 1 .. Len(t) :
           Len(s) + i \in 1 .. Len(s) + Len(t) /\ (s \o t)[Len(s) + i] = t[i]
  BY ConcatAt
<1>2. ASSUME Increasing(s \o t)
      PROVE  /\ Increasing(s) /\ Increasing(t)
             /\ \A i \in 1 .. Len(s), j \in 1 .. Len(t) : s[i] < t[j]
  <2>1. \A i, j \in 1 .. Len(s) + Len(t) : i < j => (s \o t)[i] < (s \o t)[j]
    BY <1>1, <1>2 DEF Increasing
  <2>2. ASSUME NEW i \in 1 .. Len(s), NEW j \in 1 .. Len(s), i < j PROVE s[i] < s[j]
    BY <1>1, <2>1, <2>2
  <2>3. ASSUME NEW i \in 1 .. Len(t), NEW j \in 1 .. Len(t), i < j PROVE t[i] < t[j]
    <3>1. Len(s) + i < Len(s) + j
      BY <1>1, <2>3
    <3>. QED  BY <1>1, <2>1, <3>1
  <2>4. ASSUME NEW i \in 1 .. Len(s), NEW j \in 1 .. Len(t) PROVE s[i] < t[j]
    <3>1. i < Len(s) + j
      BY <1>1
    <3>. QED  BY <1>1, <2>1, <3>1
  <2>. QED  BY <2>2, <2>3, <2>4 DEF Increasing
<1>3. ASSUME Increasing(s), Increasing(t),
             \A i \in 1 .. Len(s), j \in 1 .. Len(t) : s[i] < t[j],
             NEW i \in 1 .. Len(s) + Len(t), NEW j \in 1 .. Len(s) + Len(t), i < j
      PROVE  (s \o t)[i] < (s \o t)[j]
  <2>1. CASE j <= Len(s)
    <3>1. i \in 1 .. Len(s) /\ j \in 1 .. Len(s)
      BY <1>1, <1>3, <2>1
    <3>. QED  BY <1>1, <1>3, <3>1 DEF Increasing
  <2>2. CASE ~ (j <= Len(s)) /\ i <= Len(s)
    <3>. DEFINE l == j - Len(s)
    <3>1. i \in 1 .. Len(s) /\ l \in 1 .. Len(t) /\ j = Len(s) + l
      BY <1>1, <2>2
    <3>. HIDE DEF l
    <3>. QED  BY <1>1, <1>3, <3>1
  <2>3. CASE ~ (j <= Len(s)) /\ ~ (i <= Len(s))
    <3>. DEFINE l == j - Len(s)
                k == i - Len(s)
    <3>1. k \in 1 .. Len(t) /\ l \in 1 .. Len(t) /\ j = Len(s) + l /\ i = Len(s) + k /\ k < l
      BY <1>1, <1>3, <2>3
    <3>. HIDE DEF l, k
    <3>2. t[k] < t[l]
      BY <1>3, <3>1 DEF Increasing
    <3>. QED  BY <1>1, <3>1, <3>2
  <2>. QED  BY <2>1, <2>2, <2>3
<1>. QED  BY <1>1, <1>2, <1>3 DEF Increasing

\* s grows, and every element of it is one of t.
ThinOf(s, t) == Increasing(s) /\ \A i \in 1 .. Len(s) : \E j \in 1 .. Len(t) : s[i] = t[j]

LEMMA ThinConcat ==
  ASSUME NEW m \in Nat, NEW s \in Seq(1 .. m), NEW t \in Seq(1 .. m),
         NEW u \in Seq(1 .. m), NEW v \in Seq(1 .. m),
         ThinOf(s, u), ThinOf(t, v), Increasing(u \o v)
  PROVE  ThinOf(s \o t, u \o v)
<1>1. /\ Len(s) \in Nat /\ Len(t) \in Nat /\ Len(s \o t) = Len(s) + Len(t)
      /\ \A i \in 1 .. Len(s) : (s \o t)[i] = s[i]
      /\ \A i \in 1 .. Len(t) : (s \o t)[Len(s) + i] = t[i]
  BY ConcatAt
<1>2. /\ Len(u) \in Nat /\ Len(v) \in Nat /\ Len(u \o v) = Len(u) + Len(v)
      /\ \A i \in 1 .. Len(u) : i \in 1 .. Len(u) + Len(v) /\ (u \o v)[i] = u[i]
      /\ \A i \in 1 .. Len(v) :
           Len(u) + i \in 1 .. Len(u) + Len(v) /\ (u \o v)[Len(u) + i] = v[i]
  BY ConcatAt
<1>3. \A i \in 1 .. Len(u), j \in 1 .. Len(v) : u[i] < v[j]
  BY IncreasingConcat
<1>4. \A i \in 1 .. Len(s), j \in 1 .. Len(t) : s[i] < t[j]
  BY <1>3 DEF ThinOf
<1>5. Increasing(s \o t)
  BY <1>4, IncreasingConcat DEF ThinOf
<1>6. ASSUME NEW i \in 1 .. Len(s) + Len(t)
      PROVE  \E j \in 1 .. Len(u) + Len(v) : (s \o t)[i] = (u \o v)[j]
  <2>1. CASE i <= Len(s)
    <3>1. i \in 1 .. Len(s)
      BY <1>1, <2>1
    <3>2. PICK j \in 1 .. Len(u) : s[i] = u[j]
      BY <3>1 DEF ThinOf
    <3>. QED  BY <1>1, <1>2, <3>1, <3>2
  <2>2. CASE ~ (i <= Len(s))
    <3>. DEFINE k == i - Len(s)
    <3>1. k \in 1 .. Len(t) /\ i = Len(s) + k
      BY <1>1, <2>2
    <3>. HIDE DEF k
    <3>2. PICK j \in 1 .. Len(v) : t[k] = v[j]
      BY <3>1 DEF ThinOf
    <3>. QED  BY <1>1, <1>2, <3>1, <3>2
  <2>. QED  BY <2>1, <2>2
<1>. QED  BY <1>1, <1>2, <1>5, <1>6 DEF ThinOf

LEMMA ThinOfNone ==
  ASSUME NEW m \in Nat, NEW s \in Seq(1 .. m), ThinOf(s, <<>>)
  PROVE  s = <<>>
<1>1. Len(<<>>) = 0 /\ Len(s) \in Nat
  BY EmptySeq, LenProperties
<1>2. Len(s) = 0
  <2>1. 1 \notin 1 .. Len(s)
    BY <1>1 DEF ThinOf
  <2>. QED  BY <1>1, <2>1
<1>. QED  BY <1>2, EmptySeq

LEMMA RangeConcat ==
  ASSUME NEW S, NEW s \in Seq(S), NEW t \in Seq(S)
  PROVE  Range(s \o t) = Range(s) \cup Range(t)
<1>1. /\ Len(s) \in Nat /\ Len(t) \in Nat
      /\ DOMAIN s = 1 .. Len(s) /\ DOMAIN t = 1 .. Len(t)
      /\ DOMAIN (s \o t) = 1 .. Len(s) + Len(t)
      /\ \A i \in 1 .. Len(s) : i \in 1 .. Len(s) + Len(t) /\ (s \o t)[i] = s[i]
      /\ \A i \in 1 .. Len(t) :
           Len(s) + i \in 1 .. Len(s) + Len(t) /\ (s \o t)[Len(s) + i] = t[i]
  BY ConcatAt, LenProperties
<1>2. ASSUME NEW i \in 1 .. Len(s) + Len(t)
      PROVE  (s \o t)[i] \in Range(s) \cup Range(t)
  <2>1. CASE i <= Len(s)
    <3>1. i \in 1 .. Len(s)
      BY <1>1, <2>1
    <3>. QED  BY <1>1, <3>1 DEF Range
  <2>2. CASE ~ (i <= Len(s))
    <3>. DEFINE j == i - Len(s)
    <3>1. j \in 1 .. Len(t) /\ i = Len(s) + j
      BY <1>1, <2>2
    <3>. HIDE DEF j
    <3>. QED  BY <1>1, <3>1 DEF Range
  <2>. QED  BY <2>1, <2>2
<1>3. Range(s \o t) \subseteq Range(s) \cup Range(t)
  BY <1>1, <1>2 DEF Range
<1>4. Range(s) \subseteq Range(s \o t)
  BY <1>1 DEF Range
<1>5. Range(t) \subseteq Range(s \o t)
  BY <1>1 DEF Range
<1>. QED  BY <1>3, <1>4, <1>5

\* f[i] is the first i sequences of ss, joined.
Joins(ss, f) ==
  f = [i \in 1 .. Len(ss) |-> IF i = 1 THEN ss[i] ELSE f[i - 1] \o ss[i]]

LEMMA JoinsExist ==
  ASSUME NEW S, NEW ss \in Seq(Seq(S))
  PROVE  \E f : Joins(ss, f)
<1>. DEFINE Upto(n, f) ==
              f = [i \in 1 .. n |-> IF i = 1 THEN ss[i] ELSE f[i - 1] \o ss[i]]
            T == {n \in Nat : \E f : Upto(n, f)}
<1>1. 0 \in T
  <2>1. Upto(0, [i \in 1 .. 0 |-> ss])
    BY 1 .. 0 = {}
  <2>. QED  BY <2>1
<1>2. ASSUME NEW n \in Nat, n \in T PROVE n + 1 \in T
  <2>1. PICK f : Upto(n, f)
    BY <1>2
  <2>. DEFINE g == [i \in 1 .. n + 1 |-> IF i <= n THEN f[i]
                                        ELSE IF i = 1 THEN ss[i] ELSE f[n] \o ss[i]]
  <2>2. ASSUME NEW i \in 1 .. n + 1
        PROVE  g[i] = IF i = 1 THEN ss[i] ELSE g[i - 1] \o ss[i]
    <3>1. CASE i <= n
      <4>1. i \in 1 .. n /\ g[i] = f[i] /\ (i # 1 => i - 1 \in 1 .. n /\ g[i - 1] = f[i - 1])
        BY <3>1
      <4>. HIDE DEF g
      <4>. QED  BY <2>1, <4>1
    <3>2. CASE i = n + 1
      <4>1. g[i] = IF i = 1 THEN ss[i] ELSE f[n] \o ss[i]
        BY <3>2
      <4>2. i # 1 => g[i - 1] = f[n]
        BY <3>2
      <4>. HIDE DEF g
      <4>. QED  BY <4>1, <4>2
    <3>. QED  BY <3>1, <3>2
  <2>3. g = [i \in 1 .. n + 1 |-> g[i]]
    OBVIOUS
  <2>. HIDE DEF g
  <2>4. Upto(n + 1, g)
    BY <2>2, <2>3
  <2>. HIDE DEF Upto
  <2>. QED  BY <2>4
<1>3. Len(ss) \in T
  <2>. HIDE DEF T
  <2>1. Len(ss) \in Nat
    BY LenProperties
  <2>. QED  BY <1>1, <1>2, <2>1, Induction
<1>. QED  BY <1>3 DEF Joins

LEMMA JoinsAreSeqs ==
  ASSUME NEW S, NEW ss \in Seq(Seq(S)), NEW f, Joins(ss, f), NEW k \in 1 .. Len(ss)
  PROVE  f[k] \in Seq(S)
<1>. DEFINE T == {n \in Nat : n \in 1 .. Len(ss) => f[n] \in Seq(S)}
<1>1. Len(ss) \in Nat /\ \A i \in 1 .. Len(ss) : ss[i] \in Seq(S)
  BY LenProperties, ElementOfSeq
<1>2. 0 \in T
  OBVIOUS
<1>3. ASSUME NEW n \in Nat, n \in T PROVE n + 1 \in T
  <2>1. ASSUME n + 1 \in 1 .. Len(ss) PROVE f[n + 1] \in Seq(S)
    <3>1. ss[n + 1] \in Seq(S)
      BY <1>1, <2>1
    <3>2. CASE n = 0
      BY <2>1, <3>1, <3>2 DEF Joins
    <3>3. CASE n # 0
      <4>1. f[n + 1] = f[n] \o ss[n + 1]
        <5>1. n + 1 # 1 /\ (n + 1) - 1 = n
          BY <3>3
        <5>. QED  BY <2>1, <5>1 DEF Joins
      <4>2. f[n] \in Seq(S)
        BY <1>1, <1>3, <2>1, <3>3
      <4>. QED  BY <3>1, <4>1, <4>2, ConcatProperties
    <3>. QED  BY <3>2, <3>3
  <2>. QED  BY <2>1
<1>4. k \in T
  <2>. HIDE DEF T
  <2>1. k \in Nat
    BY <1>1
  <2>. QED  BY <1>2, <1>3, <2>1, Induction
<1>. QED  BY <1>4

\* The recursive definition of FlattenSeq is the last of them.
LEMMA FlattenIsLast ==
  ASSUME NEW S, NEW ss \in Seq(Seq(S)), ss # <<>>, NEW f, Joins(ss, f)
  PROVE  FlattenSeq(ss) = f[Len(ss)]
<1>. DEFINE F(h) == h = [i \in 1 .. Len(ss) |-> IF i = 1 THEN ss[i] ELSE h[i - 1] \o ss[i]]
            flatten == CHOOSE h : F(h)
            T == {n \in Nat : n \in 1 .. Len(ss) => flatten[n] = f[n]}
<1>1. Len(ss) \in Nat /\ Len(ss) # 0
  BY LenProperties, EmptySeq
<1>2. F(f)
  BY DEF Joins
<1>3. F(flatten)
  BY <1>2
<1>4. FlattenSeq(ss) = flatten[Len(ss)]
  BY <1>1 DEF FlattenSeq
<1>. HIDE DEF flatten
<1>5. \A i \in 1 .. Len(ss) : flatten[i] = IF i = 1 THEN ss[i] ELSE flatten[i - 1] \o ss[i]
  BY <1>3
<1>6. 0 \in T
  OBVIOUS
<1>7. ASSUME NEW n \in Nat, n \in T PROVE n + 1 \in T
  <2>1. ASSUME n + 1 \in 1 .. Len(ss) PROVE flatten[n + 1] = f[n + 1]
    <3>1. CASE n = 0
      BY <1>5, <2>1, <3>1 DEF Joins
    <3>2. CASE n # 0
      <4>1. n \in 1 .. Len(ss) /\ n + 1 # 1 /\ (n + 1) - 1 = n
        BY <1>1, <2>1, <3>2
      <4>2. flatten[n] = f[n]
        BY <1>7, <4>1
      <4>3. flatten[n + 1] = flatten[n] \o ss[n + 1]
        BY <1>5, <2>1, <4>1
      <4>4. f[n + 1] = f[n] \o ss[n + 1]
        BY <2>1, <4>1 DEF Joins
      <4>. QED  BY <4>2, <4>3, <4>4
    <3>. QED  BY <3>1, <3>2
  <2>. QED  BY <2>1
<1>8. Len(ss) \in T
  <2>. HIDE DEF T
  <2>. QED  BY <1>1, <1>6, <1>7, Induction
<1>9. Len(ss) \in 1 .. Len(ss)
  BY <1>1
<1>. QED  BY <1>4, <1>8, <1>9

LEMMA FlattenNone == FlattenSeq(<<>>) = <<>>
<1>1. Len(<<>>) = 0
  BY EmptySeq
<1>. QED  BY <1>1 DEF FlattenSeq

LEMMA FlattenIsSeq ==
  ASSUME NEW S, NEW ss \in Seq(Seq(S))
  PROVE  FlattenSeq(ss) \in Seq(S)
<1>1. CASE ss = <<>>
  BY <1>1, FlattenNone, EmptySeq
<1>2. CASE ss # <<>>
  <2>1. PICK f : Joins(ss, f)
    BY JoinsExist
  <2>2. Len(ss) \in 1 .. Len(ss)
    <3>1. Len(ss) \in Nat /\ Len(ss) # 0
      BY <1>2, LenProperties, EmptySeq
    <3>. QED  BY <3>1
  <2>. QED  BY <1>2, <2>1, <2>2, JoinsAreSeqs, FlattenIsLast
<1>. QED  BY <1>1, <1>2

LEMMA FlattenAppend ==
  ASSUME NEW S, NEW ss \in Seq(Seq(S)), NEW s \in Seq(S)
  PROVE  FlattenSeq(Append(ss, s)) = FlattenSeq(ss) \o s
<1>. DEFINE tt == Append(ss, s)
<1>1. /\ tt \in Seq(Seq(S)) /\ Len(ss) \in Nat /\ Len(tt) = Len(ss) + 1
      /\ \A i \in 1 .. Len(ss) : tt[i] = ss[i]
      /\ tt[Len(ss) + 1] = s
  BY AppendProperties, LenProperties
<1>. HIDE DEF tt
<1>2. tt # <<>> /\ Len(tt) \in 1 .. Len(tt)
  BY <1>1, EmptySeq
<1>3. PICK g : Joins(tt, g)
  BY <1>1, JoinsExist
<1>4. FlattenSeq(tt) = g[Len(ss) + 1]
  BY <1>1, <1>2, <1>3, FlattenIsLast
<1>5. CASE ss = <<>>
  <2>1. Len(ss) = 0
    BY <1>5, EmptySeq
  <2>2. g[Len(ss) + 1] = s
    BY <1>1, <1>3, <2>1 DEF Joins
  <2>3. FlattenSeq(ss) \o s = s
    BY <1>5, FlattenNone, ConcatEmptySeq
  <2>. QED  BY <1>4, <2>2, <2>3 DEF tt
<1>6. CASE ss # <<>>
  <2>1. Len(ss) # 0
    BY <1>1, <1>6, EmptySeq
  <2>. DEFINE f == [i \in 1 .. Len(ss) |-> g[i]]
  <2>2. Joins(ss, f)
    <3>1. ASSUME NEW i \in 1 .. Len(ss)
          PROVE  f[i] = IF i = 1 THEN ss[i] ELSE f[i - 1] \o ss[i]
      <4>1. i \in 1 .. Len(tt) /\ (i # 1 => i - 1 \in 1 .. Len(ss))
        BY <1>1
      <4>2. g[i] = IF i = 1 THEN tt[i] ELSE g[i - 1] \o tt[i]
        BY <1>3, <4>1 DEF Joins
      <4>3. tt[i] = ss[i]
        BY <1>1
      <4>. QED  BY <4>1, <4>2, <4>3
    <3>2. f = [i \in 1 .. Len(ss) |-> f[i]]
      OBVIOUS
    <3>. HIDE DEF f
    <3>. QED  BY <3>1, <3>2 DEF Joins
  <2>3. f[Len(ss)] = g[Len(ss)]
    BY <1>1, <2>1
  <2>. HIDE DEF f
  <2>4. FlattenSeq(ss) = g[Len(ss)]
    BY <1>6, <2>2, <2>3, FlattenIsLast
  <2>5. g[Len(ss) + 1] = g[Len(ss)] \o s
    <3>1. Len(ss) + 1 \in 1 .. Len(tt) /\ Len(ss) + 1 # 1 /\ (Len(ss) + 1) - 1 = Len(ss)
      BY <1>1, <2>1
    <3>. QED  BY <1>1, <1>3, <3>1 DEF Joins
  <2>. QED  BY <1>4, <2>4, <2>5 DEF tt
<1>. QED  BY <1>5, <1>6

LEMMA BothEmpty ==
  ASSUME NEW S, NEW s \in Seq(S), NEW t \in Seq(S), s \o t = <<>>
  PROVE  s = <<>> /\ t = <<>>
<1>1. Len(s) \in Nat /\ Len(t) \in Nat /\ Len(s \o t) = Len(s) + Len(t) /\ Len(s \o t) = 0
  BY ConcatAt, EmptySeq
<1>2. Len(s) = 0 /\ Len(t) = 0
  BY <1>1
<1>. QED  BY <1>2, EmptySeq

LEMMA HeadAndTail ==
  ASSUME NEW S, NEW q \in Seq(S), q # <<>>
  PROVE  /\ Head(q) \in S /\ Tail(q) \in Seq(S) /\ <<Head(q)>> \in Seq(S)
         /\ q = <<Head(q)>> \o Tail(q)
<1>1. Head(q) \in S /\ Tail(q) \in Seq(S) /\ Head(q) = q[1]
  BY HeadTailProperties
<1>2. Len(q) \in Nat /\ Len(q) # 0
  BY LenProperties, EmptySeq
<1>3. 1 \in 1 .. Len(q) /\ Len(q) \in 1 .. Len(q)
  BY <1>2
<1>4. SubSeq(q, 1, Len(q)) = <<q[1]>> \o SubSeq(q, 1 + 1, Len(q))
  BY <1>3, SubSeqRecursiveFirst
<1>5. SubSeq(q, 1, Len(q)) = q /\ Tail(q) = SubSeq(q, 2, Len(q))
  BY SubSeqFull, TailIsSubSeq
<1>6. <<Head(q)>> \in Seq(S)
  BY <1>1
<1>. QED  BY <1>1, <1>4, <1>5, <1>6

-----------------------------------------------------------------------------
(* Numbers and functions.                                                  *)

\* Division with a remainder, which TLA+ has for the divisors above 0.
LEMMA DivMod ==
  ASSUME NEW n \in Nat, NEW m \in Nat \ {0}
  PROVE  /\ n \div m \in Nat /\ n % m \in 0 .. m - 1
         /\ n = m * (n \div m) + (n % m)
  OBVIOUS

\* There is only one remainder.
LEMMA ModIs ==
  ASSUME NEW n \in Nat, NEW m \in Nat \ {0}, NEW q \in Nat, NEW r \in 0 .. m - 1, n = m * q + r
  PROVE  n % m = r
OBVIOUS

\* A sum that the provers do not regroup by themselves.
LEMMA RegroupDigits ==
  ASSUME NEW b \in Nat, NEW w \in Nat, NEW q \in Nat, NEW d \in Nat, NEW r \in Nat
  PROVE  w * (b * q + d) + r = (b * w) * q + (d * w + r)
OBVIOUS

\* A digit of base b in front of what is below w is below b * w.
LEMMA SumBelow ==
  ASSUME NEW b \in Nat \ {0}, NEW w \in Nat \ {0}, NEW d \in 0 .. b - 1, NEW r \in 0 .. w - 1
  PROVE  d * w + r \in 0 .. (b * w) - 1 /\ b * w \in Nat \ {0}
<1>1. (b - 1) * w = b * w - w
  OBVIOUS
<1>2. d * w <= (b - 1) * w /\ 0 <= d * w
  OBVIOUS
<1>. QED  BY <1>1, <1>2

\* What is left of n after one digit more.
LEMMA NextDigit ==
  ASSUME NEW n \in Nat, NEW b \in Nat \ {0}, NEW w \in Nat \ {0}
  PROVE  n % (b * w) = (n % w) + ((n \div w) % b) * w
<1>. DEFINE q == n \div w
            r == n % w
            d == q % b
            p == q \div b
<1>1. q \in Nat /\ r \in 0 .. w - 1 /\ n = w * q + r
  BY DivMod
<1>2. p \in Nat /\ d \in 0 .. b - 1 /\ q = b * p + d
  BY <1>1, DivMod
<1>. HIDE DEF q, r, d, p
<1>3. n = (b * w) * p + (d * w + r)
  <2>1. n = w * (b * p + d) + r
    BY <1>1, <1>2
  <2>2. p \in Nat /\ d \in Nat /\ r \in Nat /\ b \in Nat /\ w \in Nat
    BY <1>1, <1>2
  <2>. QED  BY <2>1, <2>2, RegroupDigits
<1>4. d * w + r \in 0 .. (b * w) - 1 /\ b * w \in Nat \ {0}
  BY <1>1, <1>2, SumBelow
<1>5. n % (b * w) = d * w + r
  <2>. DEFINE m == b * w
              e == d * w + r
  <2>1. m \in Nat \ {0} /\ e \in 0 .. m - 1 /\ n = m * p + e
    BY <1>3, <1>4
  <2>. HIDE DEF m, e
  <2>2. n % m = e
    BY <1>2, <2>1, ModIs
  <2>. QED  BY <2>2 DEF m, e
<1>6. d * w \in Nat /\ r \in Nat
  BY <1>1, <1>2
<1>7. d * w + r = r + d * w
  BY <1>6
<1>. QED  BY <1>5, <1>7 DEF q, r, d

\* A function may be defined by what it is at 0 and by what comes of it next.
ComesOf(f, S, n, a, g) ==
  f \in [0 .. n -> S] /\ f[0] = a /\ \A i \in 1 .. n : f[i] = g[<<i, f[i - 1]>>]

LEMMA Recursion ==
  ASSUME NEW S, NEW n \in Nat, NEW a \in S, NEW g \in [(1 .. n) \X S -> S]
  PROVE  \E f : ComesOf(f, S, n, a, g)
<1>. DEFINE Upto(k, f) == /\ f \in [0 .. k -> S] /\ f[0] = a
                          /\ \A i \in 1 .. k : f[i] = g[<<i, f[i - 1]>>]
            T == {k \in Nat : k <= n => \E f : Upto(k, f)}
<1>1. 0 \in T
  <2>1. Upto(0, [i \in 0 .. 0 |-> a])
    OBVIOUS
  <2>. QED  BY <2>1
<1>2. ASSUME NEW k \in Nat, k \in T PROVE k + 1 \in T
  <2>1. ASSUME k + 1 <= n PROVE \E f : Upto(k + 1, f)
    <3>1. PICK f : Upto(k, f)
      BY <1>2, <2>1
    <3>. DEFINE v == g[<<k + 1, f[k]>>]
                h == [i \in 0 .. k + 1 |-> IF i <= k THEN f[i] ELSE v]
    <3>2. v \in S
      <4>1. f[k] \in S /\ k + 1 \in 1 .. n
        BY <2>1, <3>1
      <4>. QED  BY <4>1
    <3>3. /\ \A i \in 0 .. k : h[i] = f[i]
          /\ h[k + 1] = v
      OBVIOUS
    <3>4. h \in [0 .. k + 1 -> S]
      BY <3>1, <3>2
    <3>. HIDE DEF h
    <3>5. ASSUME NEW i \in 1 .. k + 1 PROVE h[i] = g[<<i, h[i - 1]>>]
      <4>1. CASE i \in 1 .. k
        BY <3>1, <3>3, <4>1
      <4>2. CASE i = k + 1
        BY <3>3, <4>2
      <4>. QED  BY <4>1, <4>2
    <3>6. h[0] = a
      BY <3>1, <3>3
    <3>. QED  BY <3>4, <3>5, <3>6
  <2>. QED  BY <2>1
<1>3. n \in T
  <2>. HIDE DEF T
  <2>. QED  BY <1>1, <1>2, Induction
<1>. QED  BY <1>3 DEF ComesOf

=============================================================================
