--------------------------- MODULE MainLoopProofs ---------------------------
(***************************************************************************)
(* Theorems about the clocks of a tunnel and of a session, for every width *)
(* of the clock, every interval and every time that handlers take.         *)
(***************************************************************************)
EXTENDS MainLoop, SequenceTheorems, WellFoundedInduction, TLAPS

-----------------------------------------------------------------------------
(* A clock that starts again.                                              *)

\* What the constants are.
LEMMA Consts ==
  /\ ClockMod \in Nat /\ ClockMod > 0 /\ Interval \in Nat /\ Interval > 0
  /\ Slap \in Nat /\ Slap > 0 /\ MaxRto \in Nat /\ MaxRto > 0
  /\ ProbeInit \in Nat /\ ProbeInit > 0 /\ ProbeLimit \in Nat /\ ProbeInit <= ProbeLimit
  /\ MaxWait \in Nat /\ HeartBeat \in Nat /\ ConnCheck \in Nat /\ ConnCheck > 0
  /\ MaxAge \in Nat /\ MaxWork \in Nat /\ MaxSegs \in Nat
  /\ Interval <= MaxWait /\ ConnCheck <= HeartBeat /\ HeartBeat * 4 <= MaxAge
  /\ 2 * (Interval + MaxWork) <= HeartBeat /\ 4 * HeartBeat < ClockMod
  /\ 2 * (HeartBeat + MaxWait + MaxWork) < ClockMod
  /\ 2 * (Interval + MaxRto) < ClockMod /\ 2 * Slap < ClockMod
  /\ 2 * ProbeLimit < ClockMod /\ Interval < Slap
BY KcpTimersAssumption, MainLoopAssumption

\* A remainder, said without one.
LEMMA ModIs ==
  ASSUME NEW n \in Int, NEW m \in Nat, m > 0, NEW r \in 0 .. m - 1,
         n = r \/ n = r + m \/ n = r - m
  PROVE  n % m = r
OBVIOUS

LEMMA AfterIs ==
  ASSUME NEW t \in Time, NEW d \in 0 .. ClockMod - 1
  PROVE  /\ After(t, d) \in Time
         /\ After(t, d) = IF t + d < ClockMod THEN t + d ELSE t + d - ClockMod
<1>1. CASE t + d < ClockMod
  <2>1. t + d \in 0 .. ClockMod - 1 /\ t + d \in Int
    BY <1>1, Consts DEF Time
  <2>2. (t + d) % ClockMod = t + d
    BY <2>1, Consts, ModIs
  <2>. QED  BY <1>1, <2>1, <2>2 DEF After, Time
<1>2. CASE ~ (t + d < ClockMod)
  <2>1. t + d - ClockMod \in 0 .. ClockMod - 1 /\ t + d \in Int
    BY <1>2, Consts DEF Time
  <2>2. t + d = (t + d - ClockMod) + ClockMod
    BY Consts DEF Time
  <2>3. (t + d) % ClockMod = t + d - ClockMod
    BY <2>1, <2>2, Consts, ModIs
  <2>. QED  BY <1>2, <2>1, <2>3 DEF After, Time
<1>. QED  BY <1>1, <1>2

\* x is the signed distance of a from b.
Apart(a, b, x) ==
  /\ x \in Int /\ - ClockMod <= 2 * x /\ 2 * x < ClockMod
  /\ a - b = x \/ a - b = x + ClockMod \/ a - b = x - ClockMod

LEMMA DiffIs ==
  ASSUME NEW a \in Time, NEW b \in Time, NEW x, Apart(a, b, x)
  PROVE  Itimediff(a, b) = x
<1>. DEFINE r == IF x >= 0 THEN x ELSE x + ClockMod
<1>1. r \in 0 .. ClockMod - 1 /\ a - b \in Int
  BY Consts DEF Apart, Time
<1>2. a - b = r \/ a - b = r + ClockMod \/ a - b = r - ClockMod
  BY Consts DEF Apart, Time
<1>3. (a - b) % ClockMod = r
  <2>. HIDE DEF r
  <2>. QED  BY <1>1, <1>2, Consts, ModIs
<1>4. (2 * r < ClockMod) <=> x >= 0
  BY Consts DEF Apart
<1>. QED  BY <1>3, <1>4, Consts DEF Itimediff, Apart

LEMMA DiffExists ==
  ASSUME NEW a \in Time, NEW b \in Time
  PROVE  Apart(a, b, Itimediff(a, b))
<1>. DEFINE e == a - b
            x == IF 2 * e < - ClockMod THEN e + ClockMod
                 ELSE IF 2 * e >= ClockMod THEN e - ClockMod ELSE e
<1>1. Apart(a, b, x)
  BY Consts DEF Apart, Time
<1>2. Itimediff(a, b) = x
  <2>. HIDE DEF x
  <2>. QED  BY <1>1, DiffIs
<1>. QED  BY <1>1, <1>2

\* Time passes: what is ahead comes nearer.
LEMMA Nearer ==
  ASSUME NEW a \in Time, NEW b \in Time, NEW d \in 0 .. ClockMod - 1,
         2 * (Itimediff(a, b) - d) >= - ClockMod
  PROVE  Itimediff(a, After(b, d)) = Itimediff(a, b) - d
<1>. DEFINE x == Itimediff(a, b)
            t == After(b, d)
<1>0. 2 * (x - d) >= - ClockMod
  OBVIOUS
<1>1. Apart(a, b, x) /\ t \in Time /\ (t = b + d \/ t = b + d - ClockMod)
  BY DiffExists, AfterIs
<1>2. Apart(a, t, x - d)
  <2>. HIDE DEF x, t
  <2>. QED  BY <1>0, <1>1, Consts DEF Apart, Time
<1>. QED  BY <1>1, <1>2, DiffIs

\* What is put off is further ahead.
LEMMA Further ==
  ASSUME NEW a \in Time, NEW b \in Time, NEW d \in 0 .. ClockMod - 1,
         2 * (Itimediff(a, b) + d) < ClockMod
  PROVE  Itimediff(After(a, d), b) = Itimediff(a, b) + d
<1>. DEFINE x == Itimediff(a, b)
            t == After(a, d)
<1>0. 2 * (x + d) < ClockMod
  OBVIOUS
<1>1. Apart(a, b, x) /\ t \in Time /\ (t = a + d \/ t = a + d - ClockMod)
  BY DiffExists, AfterIs
<1>2. Apart(t, b, x + d)
  <2>. HIDE DEF x, t
  <2>. QED  BY <1>0, <1>1, Consts DEF Apart, Time
<1>. QED  BY <1>1, <1>2, DiffIs

LEMMA FromNow ==
  ASSUME NEW t \in Time, NEW d \in 0 .. ClockMod - 1, 2 * d < ClockMod
  PROVE  Itimediff(After(t, d), t) = d /\ Itimediff(t, t) = 0
<1>. DEFINE u == After(t, d)
<1>1. u \in Time /\ (u = t + d \/ u = t + d - ClockMod)
  BY AfterIs
<1>2. Apart(t, t, 0) /\ Apart(u, t, d)
  <2>. HIDE DEF u
  <2>. QED  BY <1>1, Consts DEF Apart, Time
<1>. QED  BY <1>1, <1>2, DiffIs

\* The distance the other way, but for the one that has no opposite.
LEMMA Mirrored ==
  ASSUME NEW a \in Time, NEW b \in Time
  PROVE  /\ Itimediff(a, b) \in Int
         /\ - ClockMod <= 2 * Itimediff(a, b) /\ 2 * Itimediff(a, b) < ClockMod
         /\ 2 * Itimediff(b, a) # - ClockMod => Itimediff(a, b) = - Itimediff(b, a)
         /\ 2 * Itimediff(b, a) = - ClockMod => Itimediff(a, b) = Itimediff(b, a)
<1>. DEFINE x == Itimediff(b, a)
<1>1. Apart(a, b, Itimediff(a, b)) /\ Apart(b, a, x)
  BY DiffExists
<1>2. CASE 2 * x # - ClockMod
  <2>1. Apart(a, b, - x)
    <3>. HIDE DEF x
    <3>. QED  BY <1>1, <1>2, Consts DEF Apart, Time
  <2>2. Itimediff(a, b) = - x
    <3>. HIDE DEF x
    <3>. QED  BY <2>1, DiffIs
  <2>. QED  BY <1>1, <1>2, <2>2 DEF Apart
<1>3. CASE 2 * x = - ClockMod
  <2>1. Apart(a, b, x)
    <3>. HIDE DEF x
    <3>. QED  BY <1>1, <1>3, Consts DEF Apart, Time
  <2>2. Itimediff(a, b) = x
    <3>. HIDE DEF x
    <3>. QED  BY <2>1, DiffIs
  <2>. QED  BY <1>1, <1>3, <2>2 DEF Apart
<1>. QED  BY <1>2, <1>3

\* The time from b to a, as long as it is known to be less than a round.
LEMMA Elapsed ==
  ASSUME NEW a \in Time, NEW b \in Time
  PROVE  /\ (a - b) % ClockMod \in 0 .. ClockMod - 1
         /\ a = After(b, (a - b) % ClockMod)
         /\ (a - b) % ClockMod = IF a >= b THEN a - b ELSE a - b + ClockMod
<1>. DEFINE r == IF a >= b THEN a - b ELSE a - b + ClockMod
<1>1. r \in 0 .. ClockMod - 1 /\ a - b \in Int /\ (a - b = r \/ a - b = r - ClockMod)
  BY Consts DEF Time
<1>2. (a - b) % ClockMod = r
  <2>. HIDE DEF r
  <2>. QED  BY <1>1, Consts, ModIs
<1>3. a = After(b, r)
  <2>1. After(b, r) = IF b + r < ClockMod THEN b + r ELSE b + r - ClockMod
    <3>. HIDE DEF r
    <3>. QED  BY <1>1, AfterIs
  <2>. QED  BY <2>1, Consts DEF Time
<1>. QED  BY <1>1, <1>2, <1>3

LEMMA JustNow ==
  ASSUME NEW t \in Time
  PROVE  (t - t) % ClockMod = 0
<1>1. t - t = 0 /\ 0 \in 0 .. ClockMod - 1 /\ t - t \in Int
  BY Consts DEF Time
<1>. QED  BY <1>1, Consts, ModIs

LEMMA ElapsedMore ==
  ASSUME NEW a \in Time, NEW b \in Time, NEW d \in 0 .. ClockMod - 1,
         ((a - b) % ClockMod) + d < ClockMod
  PROVE  (After(a, d) - b) % ClockMod = ((a - b) % ClockMod) + d
<1>1. After(a, d) \in Time /\ After(a, d) = IF a + d < ClockMod THEN a + d ELSE a + d - ClockMod
  BY AfterIs
<1>2. /\ (a - b) % ClockMod = IF a >= b THEN a - b ELSE a - b + ClockMod
      /\ (After(a, d) - b) % ClockMod
           = IF After(a, d) >= b THEN After(a, d) - b ELSE After(a, d) - b + ClockMod
  BY <1>1, Elapsed
<1>. DEFINE e == (a - b) % ClockMod
            f == (After(a, d) - b) % ClockMod
            t == After(a, d)
<1>3. /\ e = IF a >= b THEN a - b ELSE a - b + ClockMod
      /\ f = IF t >= b THEN t - b ELSE t - b + ClockMod
      /\ t = IF a + d < ClockMod THEN a + d ELSE a + d - ClockMod
      /\ e + d < ClockMod
  BY <1>1, <1>2
<1>. HIDE DEF e, f, t
<1>4. f = e + d
  BY <1>3, Consts DEF Time
<1>. QED  BY <1>4 DEF e, f, t

-----------------------------------------------------------------------------
(* The least of some numbers.                                              *)

LEMMA MinOfTwo ==
  ASSUME NEW a \in Int, NEW b \in Int
  PROVE  Min({a, b}) = IF a <= b THEN a ELSE b
<1>. DEFINE m == IF a <= b THEN a ELSE b
<1>1. m \in {a, b} /\ \A y \in {a, b} : m <= y
  OBVIOUS
<1>2. \A x \in {a, b} : (\A y \in {a, b} : x <= y) => x = m
  OBVIOUS
<1>. HIDE DEF m
<1>3. Min({a, b}) = m
  BY <1>1, <1>2 DEF Min
<1>. QED  BY <1>3 DEF m

LEMMA MinOfNats ==
  ASSUME NEW S, S \subseteq Nat, S # {}
  PROVE  Min(S) \in S /\ \A y \in S : Min(S) <= y
<1>. DEFINE R == {p \in Nat \X Nat : p[1] < p[2]}
<1>1. IsWellFoundedOn(R, Nat)
  BY NatLessThanWellFounded DEF OpToRel
<1>2. PICK x \in S : \A y \in S : <<y, x>> \notin R
  <2>. HIDE DEF R
  <2>. QED  BY <1>1, WFMin
<1>3. ASSUME NEW y \in S PROVE x <= y
  <2>1. x \in Nat /\ y \in Nat /\ <<y, x>> \notin R
    BY <1>2
  <2>. QED  BY <2>1
<1>. QED  BY <1>3 DEF Min

\* An age is capped, and grows by no more than the time.
LEMMA OlderIs ==
  ASSUME NEW age \in Age, NEW d \in Nat
  PROVE  /\ Older(age, d) \in Age
         /\ Older(age, d) = IF age + d <= MaxAge THEN age + d ELSE MaxAge
BY MinOfTwo, Consts DEF Older, Age

-----------------------------------------------------------------------------
(* The control block of a tunnel.                                          *)

Blocks == Timers(Age, MaxSegs)
Segs == Segment(Age)

LEMMA BlockFields ==
  ASSUME NEW k \in Blocks
  PROVE  /\ k.updated \in BOOLEAN /\ k.tsFlush \in Time /\ k.queued \in 0 .. MaxSegs
         /\ k.segs \in Seq(Segs) /\ k.closed \in BOOLEAN
         /\ k.probeWait \in 0 .. ProbeLimit /\ k.tsProbe \in Time
         /\ k.flushAge \in Age /\ k.probeAge \in Age
         /\ Len(k.segs) \in Nat /\ DOMAIN k.segs = 1 .. Len(k.segs)
         /\ \A i \in 1 .. Len(k.segs) : k.segs[i] \in Segs
<1>1. k.segs \in Seq(Segs)
  BY DEF Blocks, Timers, Segs
<1>2. /\ Len(k.segs) \in Nat /\ DOMAIN k.segs = 1 .. Len(k.segs)
      /\ \A i \in 1 .. Len(k.segs) : k.segs[i] \in Segs
  BY <1>1, LenProperties, ElementOfSeq
<1>. QED  BY <1>1, <1>2 DEF Blocks, Timers, Segs

LEMMA SegFields ==
  ASSUME NEW s \in Segs
  PROVE  s.resendts \in Time /\ s.rto \in 1 .. MaxRto /\ s.age \in Age
BY DEF Segs, Segment

\* A sequence given by its elements.
LEMMA ByElements ==
  ASSUME NEW S, NEW n \in Nat, NEW f \in [1 .. n -> S]
  PROVE  f \in Seq(S) /\ Len(f) = n
OBVIOUS

\* j is k, older by d.
IsAged(k, j, d) ==
  /\ j \in Blocks
  /\ j.updated = k.updated /\ j.tsFlush = k.tsFlush /\ j.queued = k.queued
  /\ j.closed = k.closed /\ j.probeWait = k.probeWait /\ j.tsProbe = k.tsProbe
  /\ j.flushAge = Older(k.flushAge, d)
  /\ j.probeAge = IF k.closed THEN Older(k.probeAge, d) ELSE 0
  /\ Len(j.segs) = Len(k.segs) /\ DOMAIN j.segs = DOMAIN k.segs
  /\ \A i \in DOMAIN k.segs : /\ j.segs[i].resendts = k.segs[i].resendts
                              /\ j.segs[i].rto = k.segs[i].rto
                              /\ j.segs[i].age = Older(k.segs[i].age, d)

LEMMA AgedIs ==
  ASSUME NEW k \in Blocks, NEW d \in Nat
  PROVE  IsAged(k, Aged(k, d), d)
<1>. DEFINE q == [i \in DOMAIN k.segs |-> [k.segs[i] EXCEPT !.age = Older(k.segs[i].age, d)]]
            a == IF k.closed THEN Older(k.probeAge, d) ELSE 0
            f == Older(k.flushAge, d)
            j == Aged(k, d)
<1>1. \A i \in 1 .. Len(k.segs) : /\ q[i] \in Segs
                                  /\ q[i].resendts = k.segs[i].resendts
                                  /\ q[i].rto = k.segs[i].rto
                                  /\ q[i].age = Older(k.segs[i].age, d)
  <2>. SUFFICES ASSUME NEW i \in 1 .. Len(k.segs)
                PROVE  /\ q[i] \in Segs
                       /\ q[i].resendts = k.segs[i].resendts
                       /\ q[i].rto = k.segs[i].rto
                       /\ q[i].age = Older(k.segs[i].age, d)
    OBVIOUS
  <2>1. k.segs[i] \in Segs /\ i \in DOMAIN k.segs
    BY BlockFields
  <2>2. Older(k.segs[i].age, d) \in Age
    BY <2>1, SegFields, OlderIs
  <2>3. q[i] = [k.segs[i] EXCEPT !.age = Older(k.segs[i].age, d)]
    BY <2>1
  <2>. QED  BY <2>1, <2>2, <2>3 DEF Segs, Segment
<1>2. q \in Seq(Segs) /\ Len(q) = Len(k.segs) /\ DOMAIN q = DOMAIN k.segs
  <2>1. DOMAIN k.segs = 1 .. Len(k.segs) /\ Len(k.segs) \in Nat
    BY BlockFields
  <2>2. q \in [1 .. Len(k.segs) -> Segs]
    BY <1>1, <2>1
  <2>. HIDE DEF q
  <2>. QED  BY <2>1, <2>2, ByElements
<1>3. a \in Age /\ f \in Age
  <2>1. k.probeAge \in Age /\ k.flushAge \in Age /\ 0 \in Age
    BY BlockFields, Consts DEF Age
  <2>2. Older(k.probeAge, d) \in Age /\ f \in Age
    BY <2>1, OlderIs
  <2>. QED  BY <2>1, <2>2
<1>4. j = [k EXCEPT !.flushAge = f, !.probeAge = a, !.segs = q]
  BY DEF Aged, OlderSegs
<1>5. /\ j \in Blocks
      /\ j.updated = k.updated /\ j.tsFlush = k.tsFlush /\ j.queued = k.queued
      /\ j.closed = k.closed /\ j.probeWait = k.probeWait /\ j.tsProbe = k.tsProbe
      /\ j.flushAge = f /\ j.probeAge = a /\ j.segs = q
  <2>. HIDE DEF q, a, f, j
  <2>. QED  BY <1>2, <1>3, <1>4 DEF Blocks, Timers, Segs
<1>6. \A i \in DOMAIN k.segs : /\ q[i].resendts = k.segs[i].resendts
                               /\ q[i].rto = k.segs[i].rto
                               /\ q[i].age = Older(k.segs[i].age, d)
  <2>. HIDE DEF q
  <2>. QED  BY <1>1, BlockFields
<1>. QED
  <2>. HIDE DEF q, j
  <2>1. a = IF k.closed THEN Older(k.probeAge, d) ELSE 0
    OBVIOUS
  <2>2. IsAged(k, j, d)
    <3>. HIDE DEF a
    <3>. QED  BY <1>2, <1>5, <1>6, <2>1 DEF IsAged
  <2>. QED  BY <2>2 DEF j

\* j is k after the probing of a flush at c.
IsProbed(k, j, c) ==
  /\ j \in Blocks
  /\ j.updated = k.updated /\ j.tsFlush = k.tsFlush /\ j.queued = k.queued
  /\ j.segs = k.segs /\ j.closed = k.closed /\ j.flushAge = k.flushAge
  /\ ~k.closed => j.probeWait = 0 /\ j.probeAge = k.probeAge
  /\ k.closed =>
       \/ j.probeWait \in 1 .. ProbeLimit /\ j.tsProbe = After(c, j.probeWait) /\ j.probeAge = 0
       \/ /\ k.probeWait # 0 /\ Itimediff(c, k.tsProbe) < 0
          /\ j.probeWait = k.probeWait /\ j.tsProbe = k.tsProbe /\ j.probeAge = k.probeAge

LEMMA ProbedIs ==
  ASSUME NEW k \in Blocks, NEW c \in Time
  PROVE  IsProbed(k, Probed(k, c), c)
<1>0. k.probeWait \in 0 .. ProbeLimit /\ 0 \in Age /\ 0 \in Time
  BY BlockFields, Consts DEF Age, Time
<1>1. ASSUME NEW w \in 1 .. ProbeLimit, k.closed
      PROVE  IsProbed(k, [k EXCEPT !.probeWait = w, !.tsProbe = After(c, w), !.probeAge = 0], c)
  <2>1. w \in 0 .. ClockMod - 1 /\ w \in 0 .. ProbeLimit
    BY Consts
  <2>2. After(c, w) \in Time
    BY <2>1, AfterIs
  <2>. QED  BY <1>0, <1>1, <2>1, <2>2 DEF IsProbed, Blocks, Timers
<1>2. CASE ~k.closed
  <2>1. Probed(k, c) = [k EXCEPT !.probeWait = 0, !.tsProbe = 0]
    BY <1>2 DEF Probed
  <2>2. 0 \in 0 .. ProbeLimit
    BY Consts
  <2>3. Probed(k, c) \in Blocks
    BY <1>0, <2>1, <2>2 DEF Blocks, Timers
  <2>4. k \in Blocks
    OBVIOUS
  <2>. QED  BY <1>2, <2>1, <2>3, <2>4 DEF IsProbed, Blocks, Timers
<1>3. CASE k.closed /\ k.probeWait = 0
  <2>1. Probed(k, c) = [k EXCEPT !.probeWait = ProbeInit, !.tsProbe = After(c, ProbeInit), !.probeAge = 0]
    BY <1>3 DEF Probed
  <2>2. ProbeInit \in 1 .. ProbeLimit
    BY Consts
  <2>. QED  BY <1>1, <1>3, <2>1, <2>2
<1>4. CASE k.closed /\ k.probeWait # 0 /\ Itimediff(c, k.tsProbe) >= 0
  <2>. DEFINE w == Longer(k.probeWait)
  <2>1. Probed(k, c) = [k EXCEPT !.probeWait = w, !.tsProbe = After(c, w), !.probeAge = 0]
    BY <1>4 DEF Probed
  <2>2. k.probeWait + k.probeWait \div 2 \in Nat /\ k.probeWait + k.probeWait \div 2 >= 1
    BY <1>0, <1>4
  <2>3. w \in 1 .. ProbeLimit
    BY <2>2, MinOfTwo, Consts DEF Longer
  <2>. HIDE DEF w
  <2>. QED  BY <1>1, <1>4, <2>1, <2>3
<1>5. CASE k.closed /\ k.probeWait # 0 /\ ~(Itimediff(c, k.tsProbe) >= 0)
  <2>1. Probed(k, c) = k
    BY <1>5 DEF Probed
  <2>2. Itimediff(c, k.tsProbe) < 0
    BY <1>5, Mirrored, BlockFields
  <2>. QED  BY <1>5, <2>1, <2>2 DEF IsProbed
<1>. QED  BY <1>2, <1>3, <1>4, <1>5

\* r is s after a flush at c.
IsResent(s, r, c) ==
  /\ r \in Segs
  /\ \/ r.age = 0 /\ r.resendts = After(c, r.rto)
     \/ r = s /\ Itimediff(c, s.resendts) < 0

LEMMA SegIs ==
  ASSUME NEW c \in Time, NEW rto \in 1 .. MaxRto
  PROVE  /\ [resendts |-> After(c, rto), rto |-> rto, age |-> 0] \in Segs
         /\ rto \in 0 .. ClockMod - 1
<1>1. rto \in 0 .. ClockMod - 1 /\ 0 \in Age
  BY Consts DEF Age
<1>2. After(c, rto) \in Time
  BY <1>1, AfterIs
<1>. QED  BY <1>1, <1>2 DEF Segs, Segment

LEMMA ResentIs ==
  ASSUME NEW s \in Segs, NEW c \in Time, NEW rto \in Rtos, NEW fast
  PROVE  IsResent(s, Resent(s, c, rto, fast), c)
<1>0. s.resendts \in Time /\ s.rto \in 1 .. MaxRto /\ rto \in 1 .. MaxRto
  BY SegFields, KcpTimersAssumption
<1>1. ASSUME NEW r \in 1 .. MaxRto
      PROVE  IsResent(s, [resendts |-> After(c, r), rto |-> r, age |-> 0], c)
  BY SegIs DEF IsResent
<1>2. CASE Itimediff(c, s.resendts) >= 0
  <2>. DEFINE r == Min({s.rto + rto \div 2, MaxRto})
  <2>1. Resent(s, c, rto, fast) = [resendts |-> After(c, r), rto |-> r, age |-> 0]
    BY <1>2 DEF Resent
  <2>2. s.rto + rto \div 2 \in Nat /\ s.rto + rto \div 2 >= 1
    BY <1>0
  <2>3. r \in 1 .. MaxRto
    BY <2>2, MinOfTwo, Consts
  <2>. HIDE DEF r
  <2>. QED  BY <1>1, <2>1, <2>3
<1>3. CASE ~(Itimediff(c, s.resendts) >= 0) /\ fast
  <2>1. Resent(s, c, rto, fast) = [resendts |-> After(c, s.rto), rto |-> s.rto, age |-> 0]
    BY <1>3 DEF Resent
  <2>. QED  BY <1>0, <1>1, <2>1
<1>4. CASE ~(Itimediff(c, s.resendts) >= 0) /\ ~fast
  <2>1. Resent(s, c, rto, fast) = s
    BY <1>4 DEF Resent
  <2>2. Itimediff(c, s.resendts) < 0
    BY <1>0, <1>4, Mirrored
  <2>. QED  BY <2>1, <2>2 DEF IsResent
<1>. QED  BY <1>2, <1>3, <1>4

\* j is k flushed at c.
IsFlushed(k, j, c) ==
  /\ j \in Blocks
  /\ j.updated = k.updated /\ j.tsFlush = k.tsFlush /\ j.closed = k.closed
  /\ j.queued + Len(j.segs) = k.queued + Len(k.segs)
  /\ j.flushAge = 0
  /\ ~k.closed => j.probeWait = 0 /\ j.probeAge = k.probeAge
  /\ k.closed =>
       \/ j.probeWait \in 1 .. ProbeLimit /\ j.tsProbe = After(c, j.probeWait) /\ j.probeAge = 0
       \/ /\ k.probeWait # 0 /\ Itimediff(c, k.tsProbe) < 0
          /\ j.probeWait = k.probeWait /\ j.tsProbe = k.tsProbe /\ j.probeAge = k.probeAge
  /\ \A i \in DOMAIN j.segs :
       \/ j.segs[i].age = 0 /\ j.segs[i].resendts = After(c, j.segs[i].rto)
       \/ i \in DOMAIN k.segs /\ j.segs[i] = k.segs[i] /\ Itimediff(c, k.segs[i].resendts) < 0

LEMMA FlushedIs ==
  ASSUME NEW k \in Blocks, NEW c \in Time, NEW j \in Flush(k, c)
  PROVE  IsFlushed(k, j, c)
<1>. DEFINE n == IF k.closed THEN 0 ELSE k.queued
            p == Probed(k, c)
<1>1. PICK rto \in Rtos, fast \in SUBSET (1 .. Len(k.segs) - 1) : j = FlushWith(k, c, rto, fast)
  BY DEF Flush
<1>. DEFINE new == [i \in 1 .. n |-> [resendts |-> After(c, rto), rto |-> rto, age |-> 0]]
            old == [i \in DOMAIN k.segs |-> Resent(k.segs[i], c, rto, i \in fast)]
            q == old \o new
<1>2. IsProbed(k, p, c)
  BY ProbedIs
<1>3. n \in 0 .. k.queued /\ n \in Nat /\ k.queued \in 0 .. MaxSegs /\ 0 \in Age /\ rto \in 1 .. MaxRto
  BY BlockFields, Consts, KcpTimersAssumption DEF Age
<1>4. new \in Seq(Segs) /\ Len(new) = n
      /\ \A i \in 1 .. n : new[i].age = 0 /\ new[i].resendts = After(c, new[i].rto)
  <2>. DEFINE s == [resendts |-> After(c, rto), rto |-> rto, age |-> 0]
  <2>1. s \in Segs
    BY <1>3, SegIs
  <2>2. new = [i \in 1 .. n |-> s]
    OBVIOUS
  <2>3. s.age = 0 /\ s.resendts = After(c, s.rto)
    OBVIOUS
  <2>. HIDE DEF s, new, n
  <2>4. new \in [1 .. n -> Segs] /\ \A i \in 1 .. n : new[i] = s
    BY <2>1, <2>2
  <2>. QED  BY <1>3, <2>3, <2>4, ByElements
<1>5. old \in Seq(Segs) /\ Len(old) = Len(k.segs)
      /\ \A i \in 1 .. Len(k.segs) : IsResent(k.segs[i], old[i], c)
  <2>1. DOMAIN k.segs = 1 .. Len(k.segs) /\ Len(k.segs) \in Nat
    BY BlockFields
  <2>2. ASSUME NEW i \in 1 .. Len(k.segs)
        PROVE  old[i] \in Segs /\ IsResent(k.segs[i], old[i], c)
    <3>1. old[i] = Resent(k.segs[i], c, rto, i \in fast) /\ k.segs[i] \in Segs
      BY <2>1, BlockFields
    <3>2. IsResent(k.segs[i], Resent(k.segs[i], c, rto, i \in fast), c)
      BY <3>1, ResentIs
    <3>. QED  BY <3>1, <3>2 DEF IsResent
  <2>3. old \in [1 .. Len(k.segs) -> Segs]
    BY <2>1, <2>2
  <2>. HIDE DEF old
  <2>. QED  BY <2>1, <2>2, <2>3, ByElements
<1>6. /\ q \in Seq(Segs) /\ Len(q) = Len(k.segs) + n /\ DOMAIN q = 1 .. Len(k.segs) + n
      /\ \A i \in 1 .. Len(k.segs) + n :
           q[i] = IF i <= Len(k.segs) THEN old[i] ELSE new[i - Len(k.segs)]
  <2>. HIDE DEF old, new, n
  <2>1. /\ q \in Seq(Segs) /\ Len(q) = Len(old) + Len(new)
        /\ \A i \in 1 .. Len(old) + Len(new) :
             q[i] = IF i <= Len(old) THEN old[i] ELSE new[i - Len(old)]
    BY <1>4, <1>5, ConcatProperties, ZenonT(60)
  <2>2. DOMAIN q = 1 .. Len(q)
    <3>. HIDE DEF q
    <3>. QED  BY <2>1, LenProperties
  <2>. HIDE DEF q
  <2>. QED  BY <1>4, <1>5, <2>1, <2>2
<1>7. /\ j \in Blocks /\ j.segs = q /\ j.queued = k.queued - n /\ j.flushAge = 0
      /\ j.updated = k.updated /\ j.tsFlush = k.tsFlush /\ j.closed = k.closed
      /\ j.probeWait = p.probeWait /\ j.tsProbe = p.tsProbe /\ j.probeAge = p.probeAge
  <2>1. p \in Blocks /\ p.queued = k.queued /\ p.updated = k.updated /\ p.tsFlush = k.tsFlush
        /\ p.closed = k.closed
    BY <1>2 DEF IsProbed
  <2>2. j = [p EXCEPT !.segs = q, !.queued = k.queued - n, !.flushAge = 0]
    BY <1>1, <2>1 DEF FlushWith
  <2>3. k.queued - n \in 0 .. MaxSegs
    <3>. HIDE DEF n
    <3>. QED  BY <1>3, Consts
  <2>. HIDE DEF p, q, n
  <2>. QED  BY <1>3, <1>6, <2>1, <2>2, <2>3 DEF Blocks, Timers, Segs
<1>8. ASSUME NEW i \in DOMAIN j.segs
      PROVE  \/ j.segs[i].age = 0 /\ j.segs[i].resendts = After(c, j.segs[i].rto)
             \/ i \in DOMAIN k.segs /\ j.segs[i] = k.segs[i] /\ Itimediff(c, k.segs[i].resendts) < 0
  <2>1. i \in 1 .. Len(k.segs) + n /\ j.segs[i] = q[i] /\ Len(k.segs) \in Nat
    BY <1>6, <1>7, BlockFields
  <2>2. CASE i <= Len(k.segs)
    <3>1. i \in 1 .. Len(k.segs) /\ q[i] = old[i] /\ i \in DOMAIN k.segs
      BY <1>6, <2>1, <2>2, BlockFields
    <3>2. IsResent(k.segs[i], q[i], c)
      <4>. HIDE DEF q, old
      <4>. QED  BY <1>5, <3>1
    <3>. HIDE DEF q
    <3>. QED  BY <2>1, <3>1, <3>2 DEF IsResent
  <2>3. CASE ~(i <= Len(k.segs))
    <3>1. i - Len(k.segs) \in 1 .. n /\ q[i] = new[i - Len(k.segs)]
      <4>. HIDE DEF q, old, new, n
      <4>. QED  BY <1>3, <1>6, <2>1, <2>3
    <3>. HIDE DEF q, new, n
    <3>. QED  BY <1>4, <2>1, <3>1
  <2>. QED  BY <2>2, <2>3
<1>9. j.queued + Len(j.segs) = k.queued + Len(k.segs)
  <2>1. Len(j.segs) = Len(k.segs) + n /\ j.queued = k.queued - n /\ Len(k.segs) \in Nat
    BY <1>6, <1>7, BlockFields
  <2>. HIDE DEF n
  <2>. QED  BY <1>3, <2>1, Consts
<1>. QED
  <2>. HIDE DEF p
  <2>. QED  BY <1>2, <1>7, <1>8, <1>9 DEF IsProbed, IsFlushed

\* What a flush at c makes of k, but for its own time.
ByFlush(k, j, c) ==
  /\ j.flushAge = 0
  /\ ~k.closed => j.probeWait = 0 /\ j.probeAge = k.probeAge
  /\ k.closed =>
       \/ j.probeWait \in 1 .. ProbeLimit /\ j.tsProbe = After(c, j.probeWait) /\ j.probeAge = 0
       \/ /\ k.probeWait # 0 /\ Itimediff(c, k.tsProbe) < 0
          /\ j.probeWait = k.probeWait /\ j.tsProbe = k.tsProbe /\ j.probeAge = k.probeAge
  /\ \A i \in DOMAIN j.segs :
       \/ j.segs[i].age = 0 /\ j.segs[i].resendts = After(c, j.segs[i].rto)
       \/ i \in DOMAIN k.segs /\ j.segs[i] = k.segs[i] /\ Itimediff(c, k.segs[i].resendts) < 0

\* j is k after ikcp_update at c: flushed, or left until a flush that is near.
IsUpdated(k, j, c) ==
  /\ j \in Blocks /\ j.updated /\ j.closed = k.closed
  /\ j.queued + Len(j.segs) = k.queued + Len(k.segs)
  /\ Itimediff(j.tsFlush, c) >= 1
  /\ \/ Itimediff(j.tsFlush, c) <= Interval /\ ByFlush(k, j, c)
     \/ Itimediff(j.tsFlush, c) <= Slap /\ j = k

\* The next flush is at most an interval away.
LEMMA NextFlush ==
  ASSUME NEW c \in Time, NEW due \in Time, Itimediff(c, due) >= 0,
         NEW next, next = IF Itimediff(c, After(due, Interval)) >= 0
                          THEN After(c, Interval) ELSE After(due, Interval)
  PROVE  next \in Time /\ Itimediff(next, c) \in 1 .. Interval
<1>1. /\ Interval \in 0 .. ClockMod - 1 /\ 2 * Interval < ClockMod
      /\ After(c, Interval) \in Time /\ After(due, Interval) \in Time
  <2>1. Interval \in 0 .. ClockMod - 1 /\ 2 * Interval < ClockMod
    BY Consts
  <2>. QED  BY <2>1, AfterIs
<1>2. CASE Itimediff(c, After(due, Interval)) >= 0
  BY <1>1, <1>2, FromNow, Consts
<1>3. CASE ~(Itimediff(c, After(due, Interval)) >= 0)
  <2>. DEFINE x == Itimediff(c, due)
              y == Itimediff(due, c)
              z == Itimediff(next, c)
              u == Itimediff(c, next)
  <2>1. x \in Int /\ x >= 0 /\ 2 * x < ClockMod /\ y \in Int /\ y = - x
    <3>1. x \in Int /\ x >= 0 /\ 2 * x < ClockMod
      BY Mirrored
    <3>2. 2 * x # - ClockMod
      BY <3>1, Consts
    <3>. QED  BY <3>1, <3>2, Mirrored
  <2>2. next = After(due, Interval) /\ next \in Time /\ ~(u >= 0)
    BY <1>1, <1>3
  <2>3. z = y + Interval
    <3>1. 2 * (y + Interval) < ClockMod
      <4>. HIDE DEF x, y
      <4>. QED  BY <1>1, <2>1, Consts
    <3>. QED  BY <1>1, <2>2, <3>1, Further
  <2>4. u = - z /\ z \in Int
    <3>1. 2 * z # - ClockMod
      <4>. HIDE DEF x, y, z
      <4>. QED  BY <1>1, <2>1, <2>3, Consts
    <3>. QED  BY <2>2, <3>1, Mirrored
  <2>. HIDE DEF x, y, z, u
  <2>5. z \in 1 .. Interval
    BY <2>1, <2>2, <2>3, <2>4, Consts
  <2>. QED  BY <2>2, <2>5 DEF z
<1>. QED  BY <1>2, <1>3

LEMMA UpdateIs ==
  ASSUME NEW k \in Blocks, NEW c \in Time, NEW j \in Update(k, c)
  PROVE  IsUpdated(k, j, c)
<1>. DEFINE due == IF ~k.updated \/ Far(c, k.tsFlush) THEN c ELSE k.tsFlush
            next == IF Itimediff(c, After(due, Interval)) >= 0
                    THEN After(c, Interval) ELSE After(due, Interval)
            known == [k EXCEPT !.updated = TRUE, !.tsFlush = due]
            m == [known EXCEPT !.tsFlush = next]
<1>1. due \in Time /\ k.tsFlush \in Time
  BY BlockFields
<1>2. j \in (IF Itimediff(c, due) < 0 THEN {known} ELSE Flush(m, c))
  BY DEF Update
<1>3. CASE Itimediff(c, due) < 0
  <2>1. Itimediff(c, c) = 0
    BY FromNow, Consts
  <2>2. due = k.tsFlush /\ k.updated /\ ~Far(c, k.tsFlush)
    BY <1>3, <2>1, BlockFields
  <2>3. j = known /\ known = k
    <3>1. k = [k EXCEPT !.updated = TRUE, !.tsFlush = k.tsFlush]
      BY <2>2 DEF Blocks, Timers
    <3>. QED  BY <1>2, <1>3, <2>2, <3>1
  <2>. DEFINE x == Itimediff(c, k.tsFlush)
              y == Itimediff(k.tsFlush, c)
  <2>4. x \in Int /\ x < 0 /\ x >= - Slap
    <3>1. x \in Int
      BY <1>1, Mirrored
    <3>2. ~(x < - Slap) /\ x < 0
      BY <1>3, <2>2 DEF Far
    <3>. HIDE DEF x
    <3>. QED  BY <3>1, <3>2, Consts
  <2>5. y = - x
    <3>1. 2 * x # - ClockMod
      <4>. HIDE DEF x
      <4>. QED  BY <2>4, Consts
    <3>. QED  BY <1>1, <3>1, Mirrored
  <2>6. y >= 1 /\ y <= Slap
    <3>. HIDE DEF x, y
    <3>. QED  BY <2>4, <2>5, Consts
  <2>7. j = k /\ k.updated
    BY <2>2, <2>3
  <2>. HIDE DEF due, next, known, m
  <2>. QED  BY <2>6, <2>7 DEF IsUpdated, y
<1>4. CASE ~(Itimediff(c, due) < 0)
  <2>1. Itimediff(c, due) >= 0
    <3>. HIDE DEF due
    <3>. QED  BY <1>1, <1>4, Mirrored
  <2>2. next \in Time /\ Itimediff(next, c) \in 1 .. Interval
    <3>. HIDE DEF due
    <3>. QED  BY <1>1, <2>1, NextFlush
  <2>3. /\ m \in Blocks /\ m.updated = TRUE /\ m.tsFlush = next
        /\ m.queued = k.queued /\ m.segs = k.segs /\ m.closed = k.closed
        /\ m.probeWait = k.probeWait /\ m.tsProbe = k.tsProbe
        /\ m.flushAge = k.flushAge /\ m.probeAge = k.probeAge
    <3>. HIDE DEF due, next
    <3>. QED  BY <1>1, <2>2 DEF Blocks, Timers
  <2>4. j \in Flush(m, c)
    BY <1>2, <1>4
  <2>5. IsFlushed(m, j, c)
    <3>. HIDE DEF m
    <3>. QED  BY <2>3, <2>4, FlushedIs
  <2>6. ByFlush(k, j, c)
    <3>. HIDE DEF m
    <3>. QED  BY <2>3, <2>5 DEF IsFlushed, ByFlush
  <2>7. j \in Blocks /\ j.updated /\ j.closed = k.closed /\ j.tsFlush = next
        /\ j.queued + Len(j.segs) = k.queued + Len(k.segs)
    <3>. HIDE DEF m, next
    <3>. QED  BY <2>3, <2>5 DEF IsFlushed
  <2>8. Itimediff(j.tsFlush, c) >= 1 /\ Itimediff(j.tsFlush, c) <= Interval
    <3>. HIDE DEF next
    <3>. QED  BY <2>2, <2>7, Consts
  <2>. HIDE DEF due, next, known, m
  <2>. QED  BY <2>6, <2>7, <2>8 DEF IsUpdated
<1>. QED  BY <1>3, <1>4

\* ikcp_check asks to be called again at the next flush at the latest.
LEMMA NextCallIs ==
  ASSUME NEW k \in Blocks, NEW c \in Time, Itimediff(k.tsFlush, c) >= 1
  PROVE  NextCall(k, c) \in 0 .. Interval /\ NextCall(k, c) <= Itimediff(k.tsFlush, c)
<1>. DEFINE flush == Itimediff(k.tsFlush, c)
            resends == {Itimediff(k.segs[i].resendts, c) : i \in DOMAIN k.segs}
            soon == Far(c, k.tsFlush) \/ flush <= 0 \/ \E r \in resends : r <= 0
            all == {flush, Interval} \cup resends
            m == Min(all)
<1>1. flush \in Int /\ flush >= 1 /\ resends \subseteq Int
  <2>1. k.tsFlush \in Time
    BY BlockFields
  <2>2. \A i \in DOMAIN k.segs : k.segs[i].resendts \in Time
    BY BlockFields, SegFields
  <2>3. \A i \in DOMAIN k.segs : Itimediff(k.segs[i].resendts, c) \in Int
    BY <2>2, Mirrored
  <2>. QED  BY <2>1, <2>3, Mirrored
<1>2. Check(k, c) = IF soon THEN c ELSE After(c, m)
  BY DEF Check
<1>3. CASE soon
  <2>1. Check(k, c) = c
    BY <1>2, <1>3
  <2>2. NextCall(k, c) = 0
    BY <2>1, Consts DEF NextCall, Millis, Time
  <2>. HIDE DEF flush
  <2>. QED  BY <1>1, <2>2, Consts DEF flush
<1>4. CASE ~soon
  <2>1. all \subseteq Nat /\ all # {} /\ flush \in all /\ Interval \in all
    <3>1. \A r \in resends : r \in Int /\ ~(r <= 0)
      BY <1>1, <1>4
    <3>. HIDE DEF resends, flush
    <3>. QED  BY <1>1, <3>1, Consts
  <2>2. m \in Nat /\ m <= flush /\ m <= Interval
    <3>. HIDE DEF all
    <3>. QED  BY <2>1, MinOfNats
  <2>3. m \in 0 .. ClockMod - 1
    <3>. HIDE DEF m
    <3>. QED  BY <2>2, Consts
  <2>4. Check(k, c) = After(c, m)
    BY <1>2, <1>4
  <2>. HIDE DEF m, flush
  <2>5. After(c, m) = c + m \/ After(c, m) = c + m - ClockMod
    BY <2>3, AfterIs
  <2>6. NextCall(k, c) = m \/ NextCall(k, c) = 0
    BY <2>3, <2>4, <2>5, Consts DEF NextCall, Millis, Time
  <2>. QED  BY <1>1, <2>2, <2>6, Consts DEF flush
<1>. QED  BY <1>3, <1>4

-----------------------------------------------------------------------------
(* The inductive invariant, first what concerns the tunnel.                *)

\* How far t is ahead of the clock.
Ahead(t) == Itimediff(t, clock)

\* How far ts_flush is ahead at least, unless the process was just stopped.
Floor == IF at = "poll" THEN wait - MaxWork
         ELSE IF at = "timers" THEN nextKcp - worked
         ELSE - MaxWork - worked

\* A wait is no longer than an interval; a tunnel waits for its first flush in
\* the turn that made it.
TurnInv ==
  /\ at = "poll" => worked = 0 /\ nextKcp = 0
  /\ at # "poll" => wait = 0
  /\ tunnel # None =>
       /\ at = "poll" => wait <= Interval
       /\ at = "timers" => nextKcp <= Interval
       /\ tunnel.queued + Len(tunnel.segs) <= MaxSegs
       /\ ~tunnel.updated => at = "handling"

\* The time t of k has not passed for longer than the last flush is ago: then it
\* was still to come.
Since(k, t) == Ahead(t) >= 1 - k.flushAge - napped

FlushFine(k) ==
  k.updated => k.flushAge + Ahead(k.tsFlush) <= Interval /\ Since(k, k.tsFlush)
SegFine(k, s) ==
  /\ s.age + Ahead(s.resendts) <= s.rto
  /\ s.age <= s.rto - 1 + k.flushAge
  /\ Since(k, s.resendts)
SegsFine(k) == \A i \in DOMAIN k.segs : SegFine(k, k.segs[i])
ProbeFine(k) ==
  /\ k.probeAge <= ProbeLimit - 1 + k.flushAge
  /\ ~k.closed => k.probeAge = 0
  /\ k.probeWait # 0 => k.probeAge + Ahead(k.tsProbe) <= k.probeWait /\ Since(k, k.tsProbe)

NearInv ==
  tunnel # None /\ ~Astray =>
    /\ tunnel.flushAge <= Interval - Floor
    /\ FlushFine(tunnel) /\ SegsFine(tunnel) /\ ProbeFine(tunnel)

\* A process that was stopped for long flushes in this turn, or ts_flush looks
\* near enough.
FarInv ==
  tunnel # None /\ Astray =>
    \/ at = "handling" /\ tunnel.flushAge <= Interval + MaxWork + worked
    \/ /\ tunnel.updated
       /\ tunnel.flushAge + Ahead(tunnel.tsFlush) <= Stray + Interval
       /\ Ahead(tunnel.tsFlush) >= Floor

TunnelInv == TurnInv /\ NearInv /\ FarInv

LEMMA StateIs ==
  ASSUME TypeOK
  PROVE  /\ clock \in Time /\ curClock \in Time /\ role \in {"client", "server"}
         /\ wait \in 0 .. MaxWait /\ wait \in Nat /\ worked \in 0 .. MaxWork /\ worked \in Nat
         /\ napped \in 0 .. ClockMod - 1 /\ napped \in Nat
         /\ at \in {"poll", "handling", "timers"}
         /\ nextKcp \in 0 .. Interval \cup {Forever} /\ nextKcp \in Nat
         /\ tunnel # None => tunnel \in Blocks
         /\ Floor \in Int /\ Floor >= - 2 * MaxWork
         /\ at = "handling" => Floor <= 0
BY Consts DEF TypeOK, Blocks, Floor, Forever

LEMMA AgesAreInts ==
  ASSUME NEW k \in Blocks
  PROVE  k.flushAge \in Nat /\ k.probeAge \in Nat /\ k.probeWait \in Nat
BY BlockFields, Consts DEF Age

\* Whoever was not stopped for long flushes in time.
LEMMA FlushBound ==
  ASSUME TypeOK, TunnelInv, tunnel # None, ~Astray
  PROVE  tunnel.flushAge <= FlushTime /\ 2 * (napped + FlushTime) < ClockMod /\ FlushTime < MaxAge
BY StateIs, AgesAreInts, Consts DEF TunnelInv, NearInv, FlushTime, Astray

\* Update keeps what is known of a tunnel, and leaves the next flush to come.
LEMMA NearUpdate ==
  ASSUME TypeOK, ~Astray, NEW k \in Blocks, k.flushAge <= FlushTime,
         FlushFine(k), SegsFine(k), ProbeFine(k), NEW j \in Update(k, clock)
  PROVE  /\ FlushFine(j) /\ SegsFine(j) /\ ProbeFine(j)
         /\ Ahead(j.tsFlush) >= 1 /\ (j = k \/ j.flushAge = 0) /\ j.updated
         /\ j.flushAge + Ahead(j.tsFlush) <= Interval
<1>1. IsUpdated(k, j, clock) /\ clock \in Time
  BY StateIs, UpdateIs
<1>2. j \in Blocks /\ j.updated /\ Ahead(j.tsFlush) >= 1 /\ Ahead(j.tsFlush) \in Int
  BY <1>1, BlockFields, Mirrored DEF IsUpdated, Ahead
<1>3. 2 * (napped + FlushTime) < ClockMod /\ napped \in Nat /\ FlushTime \in Nat
  BY StateIs, Consts DEF Astray, FlushTime
<1>4. CASE j = k
  BY <1>2, <1>4 DEF FlushFine
<1>5. CASE Itimediff(j.tsFlush, clock) <= Interval /\ ByFlush(k, j, clock)
  <2>1. j.flushAge = 0 /\ FlushFine(j) /\ j.flushAge + Ahead(j.tsFlush) <= Interval
    BY <1>2, <1>3, <1>5, Consts DEF ByFlush, FlushFine, Since, Ahead
  \* What was to come when the flush looked at it, is ahead.
  <2>2. ASSUME NEW t \in Time, Since(k, t), Itimediff(clock, t) < 0
        PROVE  Ahead(t) \in Int /\ Ahead(t) >= 1
    <3>1. Ahead(t) \in Int /\ Ahead(t) >= 1 - FlushTime - napped
      BY <1>1, <1>3, <2>2, Mirrored, AgesAreInts DEF Since, Ahead
    <3>2. 2 * Ahead(t) # - ClockMod
      BY <1>3, <3>1, Consts
    <3>3. Itimediff(clock, t) = - Ahead(t)
      BY <1>1, <3>2, Mirrored DEF Ahead
    <3>. QED  BY <2>2, <3>1, <3>3
  <2>3. ASSUME NEW i \in DOMAIN j.segs
        PROVE  SegFine(j, j.segs[i])
    <3>. DEFINE s == j.segs[i]
    <3>1. /\ s.resendts \in Time /\ s.rto \in 1 .. MaxRto /\ s.age \in Nat
          /\ s.rto \in Nat /\ s.rto >= 1
      BY <1>2, BlockFields, SegFields, Consts DEF Age
    <3>2. CASE s.age = 0 /\ s.resendts = After(clock, s.rto)
      <4>1. Ahead(s.resendts) = s.rto
        <5>1. s.rto \in 0 .. ClockMod - 1 /\ 2 * s.rto < ClockMod
          <6>. HIDE DEF s
          <6>. QED  BY <3>1, Consts
        <5>. QED  BY <1>1, <3>2, <5>1, FromNow DEF Ahead
      <4>. HIDE DEF s
      <4>2. SegFine(j, s)
        BY <1>3, <2>1, <3>1, <3>2, <4>1 DEF SegFine, Since
      <4>. QED  BY <4>2 DEF s
    <3>3. CASE i \in DOMAIN k.segs /\ s = k.segs[i] /\ Itimediff(clock, k.segs[i].resendts) < 0
      <4>1. SegFine(k, s) /\ Itimediff(clock, s.resendts) < 0
        BY <3>3 DEF SegsFine
      <4>. HIDE DEF s
      <4>2. Ahead(s.resendts) \in Int /\ Ahead(s.resendts) >= 1
        BY <2>2, <3>1, <4>1 DEF SegFine
      <4>3. SegFine(j, s)
        BY <1>3, <2>1, <3>1, <4>1, <4>2 DEF SegFine, Since
      <4>. QED  BY <4>3 DEF s
    <3>. QED  BY <1>5, <3>2, <3>3 DEF ByFlush
  <2>4. ProbeFine(j)
    <3>1. k.tsProbe \in Time /\ k.closed \in BOOLEAN /\ k.probeWait \in 0 .. ProbeLimit
          /\ k.probeAge \in Nat /\ k.flushAge \in Nat /\ j.closed = k.closed
      BY <1>1, BlockFields, AgesAreInts DEF IsUpdated
    <3>2. CASE ~k.closed
      BY <1>5, <2>1, <3>1, <3>2, Consts DEF ByFlush, ProbeFine
    <3>3. CASE j.probeWait \in 1 .. ProbeLimit /\ j.tsProbe = After(clock, j.probeWait) /\ j.probeAge = 0
      <4>1. j.probeWait \in 0 .. ClockMod - 1 /\ 2 * j.probeWait < ClockMod
        BY <3>3, Consts
      <4>2. Ahead(j.tsProbe) = j.probeWait
        BY <1>1, <3>3, <4>1, FromNow DEF Ahead
      <4>. QED  BY <1>3, <2>1, <3>3, <4>2, Consts DEF ProbeFine, Since
    <3>4. CASE /\ k.closed /\ k.probeWait # 0 /\ Itimediff(clock, k.tsProbe) < 0
               /\ j.probeWait = k.probeWait /\ j.tsProbe = k.tsProbe /\ j.probeAge = k.probeAge
      <4>1. Ahead(k.tsProbe) \in Int /\ Ahead(k.tsProbe) >= 1
        BY <2>2, <3>1, <3>4 DEF ProbeFine
      <4>. QED  BY <1>3, <2>1, <3>1, <3>4, <4>1, Consts DEF ProbeFine, Since
    <3>. QED  BY <1>5, <3>2, <3>3, <3>4 DEF ByFlush
  <2>. QED  BY <1>2, <2>1, <2>3, <2>4 DEF SegsFine
<1>. QED  BY <1>1, <1>4, <1>5 DEF IsUpdated

\* Time passes while the process runs.
LEMMA TunnelTick ==
  ASSUME TypeOK, TunnelInv, tunnel # None, Passes(1, TRUE), napped' = napped, at' = at,
         Floor' = Floor - 1, at = "handling" => worked' = worked + 1
  PROVE  NearInv' /\ FarInv'
<1>. DEFINE k == tunnel
            j == tunnel'
<1>1. /\ clock \in Time /\ clock' = After(clock, 1) /\ 1 \in 0 .. ClockMod - 1
      /\ k \in Blocks /\ IsAged(k, j, 1) /\ napped \in Nat /\ worked \in Nat
      /\ Floor \in Int /\ Floor >= - 2 * MaxWork
  <2>1. clock' = After(clock, 1) /\ j = Aged(k, 1)
    BY DEF Passes
  <2>2. clock \in Time /\ k \in Blocks /\ napped \in Nat /\ worked \in Nat /\ 1 \in 0 .. ClockMod - 1
        /\ Floor \in Int /\ Floor >= - 2 * MaxWork
    BY StateIs, Consts
  <2>3. IsAged(k, Aged(k, 1), 1)
    <3>. HIDE DEF k
    <3>. QED  BY <2>2, AgedIs
  <2>. QED  BY <2>1, <2>2, <2>3
<1>2. /\ j \in Blocks /\ j.updated = k.updated /\ j.tsFlush = k.tsFlush /\ j.closed = k.closed
      /\ j.probeWait = k.probeWait /\ j.tsProbe = k.tsProbe
      /\ k.flushAge \in Nat /\ k.probeAge \in Nat /\ j.flushAge \in Nat /\ j.probeAge \in Nat
      /\ j.flushAge = (IF k.flushAge + 1 <= MaxAge THEN k.flushAge + 1 ELSE MaxAge)
      /\ j.probeAge <= k.probeAge + 1
      /\ ~k.closed => j.probeAge = 0
  <2>1. k.flushAge \in Age /\ k.probeAge \in Age /\ k.closed \in BOOLEAN
    BY <1>1, BlockFields
  <2>2. /\ Older(k.flushAge, 1) = IF k.flushAge + 1 <= MaxAge THEN k.flushAge + 1 ELSE MaxAge
        /\ Older(k.probeAge, 1) = IF k.probeAge + 1 <= MaxAge THEN k.probeAge + 1 ELSE MaxAge
    BY <2>1, OlderIs
  <2>3. j.flushAge = Older(k.flushAge, 1)
        /\ j.probeAge = IF k.closed THEN Older(k.probeAge, 1) ELSE 0
    BY <1>1 DEF IsAged
  <2>4. j \in Blocks /\ j.updated = k.updated /\ j.tsFlush = k.tsFlush /\ j.closed = k.closed
        /\ j.probeWait = k.probeWait /\ j.tsProbe = k.tsProbe
    BY <1>1 DEF IsAged
  <2>5. k.flushAge \in Nat /\ k.probeAge \in Nat /\ j.flushAge \in Nat /\ j.probeAge \in Nat
    <3>. HIDE DEF k, j
    <3>. QED  BY <1>1, <2>4, AgesAreInts
  <2>. HIDE DEF k, j
  <2>. QED  BY <2>1, <2>2, <2>3, <2>4, <2>5, Consts DEF Age
<1>. HIDE DEF k, j
<1>3. CASE ~Astray
  <2>1. k.flushAge <= FlushTime /\ 2 * (napped + FlushTime) < ClockMod /\ FlushTime < MaxAge
        /\ FlushTime \in Nat
    BY <1>3, FlushBound, Consts DEF k, FlushTime
  <2>2. j.flushAge = k.flushAge + 1
    BY <1>2, <2>1, Consts
  <2>3. ASSUME NEW t \in Time, Since(k, t)
        PROVE  /\ Ahead(t) \in Int /\ Itimediff(t, clock') = Ahead(t) - 1
               /\ Ahead(t) - 1 >= 1 - j.flushAge - napped
    <3>1. Ahead(t) \in Int /\ Ahead(t) >= 1 - k.flushAge - napped
      BY <1>1, <2>3, Mirrored DEF Since, Ahead
    <3>2. 2 * (Ahead(t) - 1) >= - ClockMod
      BY <1>1, <1>2, <2>1, <3>1, Consts
    <3>3. Itimediff(t, After(clock, 1)) = Ahead(t) - 1
      BY <1>1, <3>2, Nearer DEF Ahead
    <3>. QED  BY <1>1, <1>2, <2>2, <3>1, <3>3
  <2>4. /\ k.flushAge <= Interval - Floor
        /\ FlushFine(k) /\ SegsFine(k) /\ ProbeFine(k)
    BY <1>3 DEF TunnelInv, NearInv, k
  <2>5. j.flushAge <= Interval - (Floor - 1)
    BY <1>1, <1>2, <2>2, <2>4, Consts
  <2>6. FlushFine(tunnel)'
    <3>1. k.tsFlush \in Time
      BY <1>1, BlockFields
    <3>2. ASSUME k.updated
          PROVE  /\ j.flushAge + Itimediff(k.tsFlush, clock') <= Interval
                 /\ Itimediff(k.tsFlush, clock') >= 1 - j.flushAge - napped
      <4>1. Since(k, k.tsFlush) /\ k.flushAge + Ahead(k.tsFlush) <= Interval
        BY <2>4, <3>2 DEF FlushFine
      <4>2. /\ Ahead(k.tsFlush) \in Int /\ Itimediff(k.tsFlush, clock') = Ahead(k.tsFlush) - 1
            /\ Ahead(k.tsFlush) - 1 >= 1 - j.flushAge - napped
        BY <2>3, <3>1, <4>1
      <4>. QED  BY <1>2, <2>2, <4>1, <4>2, Consts
    <3>3. j.updated = k.updated /\ j.tsFlush = k.tsFlush
      BY <1>2
    <3>. QED  BY <3>2, <3>3 DEF FlushFine, Since, Ahead, j
  <2>7. ASSUME NEW i \in DOMAIN j.segs
        PROVE  SegFine(tunnel, tunnel.segs[i])'
    <3>. DEFINE s == k.segs[i]
                r == j.segs[i]
    <3>1. i \in DOMAIN k.segs /\ s \in Segs /\ r.resendts = s.resendts /\ r.rto = s.rto
          /\ r.age = Older(s.age, 1)
      BY <1>1, <2>7, BlockFields DEF IsAged
    <3>2. s.resendts \in Time /\ s.rto \in Nat /\ s.age \in Age
      <4>. HIDE DEF s
      <4>. QED  BY <3>1, SegFields
    <3>3. SegFine(k, s)
      BY <2>4, <3>1 DEF SegsFine
    <3>. HIDE DEF s, r
    <3>4. /\ Ahead(s.resendts) \in Int /\ Itimediff(s.resendts, clock') = Ahead(s.resendts) - 1
          /\ Ahead(s.resendts) - 1 >= 1 - j.flushAge - napped
      BY <2>3, <3>2, <3>3 DEF SegFine
    <3>5. Older(s.age, 1) = IF s.age + 1 <= MaxAge THEN s.age + 1 ELSE MaxAge
      BY <3>2, OlderIs
    <3>6. r.age \in Nat /\ s.age \in Nat /\ r.age <= s.age + 1
      BY <3>1, <3>2, <3>5, Consts DEF Age
    <3>7. /\ r.age + Itimediff(r.resendts, clock') <= r.rto
          /\ r.age <= r.rto - 1 + j.flushAge
          /\ Itimediff(r.resendts, clock') >= 1 - j.flushAge - napped
      BY <1>2, <2>2, <3>1, <3>2, <3>3, <3>4, <3>6 DEF SegFine
    <3>. QED  BY <3>7 DEF SegFine, Since, Ahead, r, j
  <2>8. ProbeFine(tunnel)'
    <3>1. k.tsProbe \in Time /\ k.probeWait \in Nat
      BY <1>1, BlockFields
    <3>2. j.probeAge <= ProbeLimit - 1 + j.flushAge
      BY <1>2, <2>2, <2>4, Consts DEF ProbeFine
    <3>3. ASSUME k.probeWait # 0
          PROVE  /\ j.probeAge + Itimediff(k.tsProbe, clock') <= k.probeWait
                 /\ Itimediff(k.tsProbe, clock') >= 1 - j.flushAge - napped
      <4>1. Since(k, k.tsProbe) /\ k.probeAge + Ahead(k.tsProbe) <= k.probeWait
        BY <2>4, <3>3 DEF ProbeFine
      <4>2. /\ Ahead(k.tsProbe) \in Int /\ Itimediff(k.tsProbe, clock') = Ahead(k.tsProbe) - 1
            /\ Ahead(k.tsProbe) - 1 >= 1 - j.flushAge - napped
        BY <2>3, <3>1, <4>1
      <4>. QED  BY <1>2, <3>1, <4>1, <4>2
    <3>4. /\ j.probeWait = k.probeWait /\ j.tsProbe = k.tsProbe /\ j.closed = k.closed
          /\ ~k.closed => j.probeAge = 0
      BY <1>2
    <3>. QED  BY <3>2, <3>3, <3>4 DEF ProbeFine, Since, Ahead, j
  <2>9. SegsFine(tunnel)'
    BY <2>7 DEF SegsFine, j
  <2>10. j.flushAge <= Interval - Floor'
    BY <2>5
  <2>11. ~Astray'
    BY <1>3 DEF Astray
  <2>. QED  BY <2>6, <2>8, <2>9, <2>10, <2>11 DEF NearInv, FarInv, j
<1>4. CASE Astray
  <2>1. Astray' /\ Stray' = Stray /\ Stray \in Nat
    BY <1>4, Consts DEF Astray, Stray
  <2>2. CASE at = "handling" /\ k.flushAge <= Interval + MaxWork + worked
    <3>1. j.flushAge <= Interval + MaxWork + (worked + 1)
      BY <1>1, <1>2, <2>2, Consts
    <3>. QED  BY <2>1, <2>2, <3>1 DEF NearInv, FarInv, j
  <2>3. CASE /\ k.updated
             /\ k.flushAge + Ahead(k.tsFlush) <= Stray + Interval
             /\ Ahead(k.tsFlush) >= Floor
    <3>1. k.tsFlush \in Time
      BY <1>1, BlockFields
    <3>2. Ahead(k.tsFlush) \in Int /\ 2 * (Ahead(k.tsFlush) - 1) >= - ClockMod
      BY <1>1, <2>3, <3>1, Mirrored, Consts DEF Ahead
    <3>3. Itimediff(k.tsFlush, clock') = Ahead(k.tsFlush) - 1
      BY <1>1, <3>1, <3>2, Nearer DEF Ahead
    <3>4. /\ j.updated /\ j.tsFlush = k.tsFlush
          /\ j.flushAge + Itimediff(j.tsFlush, clock') <= Stray + Interval
          /\ Itimediff(j.tsFlush, clock') >= Floor - 1
      BY <1>1, <1>2, <2>1, <2>3, <3>2, <3>3, Consts
    <3>. QED  BY <2>1, <3>4 DEF NearInv, FarInv, Ahead, j
  <2>. QED  BY <1>4, <2>2, <2>3 DEF TunnelInv, FarInv, k
<1>. QED  BY <1>3, <1>4

\* The tunnel is left alone.
LEMMA TunnelKept ==
  ASSUME TypeOK, TunnelInv, UNCHANGED <<clock, tunnel, napped>>,
         Floor' <= Floor, Floor' \in Int,
         at = "handling" => at' = "handling" /\ worked' = worked
  PROVE  NearInv' /\ FarInv'
<1>1. Astray' = Astray /\ Stray' = Stray /\ Floor \in Int
  BY StateIs DEF Astray, Stray
<1>2. ASSUME tunnel # None, ~Astray
      PROVE  NearInv'
  <2>1. tunnel.flushAge \in Nat /\ tunnel.flushAge <= Interval - Floor
        /\ FlushFine(tunnel) /\ SegsFine(tunnel) /\ ProbeFine(tunnel)
    BY <1>2, StateIs, AgesAreInts DEF TunnelInv, NearInv
  <2>2. (FlushFine(tunnel) /\ SegsFine(tunnel) /\ ProbeFine(tunnel))'
    BY <2>1 DEF FlushFine, SegsFine, ProbeFine, SegFine, Since, Ahead
  <2>3. tunnel.flushAge <= Interval - Floor'
    BY <1>1, <2>1, Consts
  <2>. QED  BY <2>2, <2>3 DEF NearInv
<1>3. ASSUME tunnel # None, Astray
      PROVE  FarInv'
  <2>1. CASE at = "handling" /\ tunnel.flushAge <= Interval + MaxWork + worked
    BY <2>1 DEF FarInv
  <2>2. CASE /\ tunnel.updated
             /\ tunnel.flushAge + Ahead(tunnel.tsFlush) <= Stray + Interval
             /\ Ahead(tunnel.tsFlush) >= Floor
    <3>1. Ahead(tunnel.tsFlush) \in Int
      BY <1>3, StateIs, BlockFields, Mirrored DEF Ahead
    <3>2. Ahead(tunnel.tsFlush) >= Floor'
      BY <1>1, <2>2, <3>1
    <3>3. Ahead(tunnel.tsFlush)' = Ahead(tunnel.tsFlush)
      BY DEF Ahead
    <3>. QED  BY <1>1, <2>2, <3>2, <3>3 DEF FarInv
  <2>. QED  BY <1>3, <2>1, <2>2 DEF TunnelInv, FarInv
<1>. QED  BY <1>1, <1>2, <1>3 DEF NearInv, FarInv

\* The process is stopped.
LEMMA TunnelNap ==
  ASSUME TypeOK, TunnelInv, NEW d \in 1 .. ClockMod - 1, at = "poll", at' = "handling",
         Passes(d, FALSE), napped = 0, napped' = d, UNCHANGED worked, wait' = 0
  PROVE  TunnelInv'
<1>1. /\ clock \in Time /\ clock' = After(clock, d) /\ d \in 0 .. ClockMod - 1 /\ tunnel' = tunnel
      /\ worked = 0 /\ wait \in Nat /\ Floor = wait - MaxWork /\ Floor' = - MaxWork
  <2>1. clock' = After(clock, d) /\ d \in 0 .. ClockMod - 1 /\ tunnel' = tunnel
    BY Consts DEF Passes
  <2>2. clock \in Time /\ wait \in Nat /\ worked = 0 /\ worked' = 0
    BY StateIs DEF TunnelInv, TurnInv
  <2>3. Floor = wait - MaxWork
    BY DEF Floor
  <2>4. Floor' = - MaxWork
    BY <2>2, Consts DEF Floor
  <2>. QED  BY <2>1, <2>2, <2>3, <2>4
<1>2. TurnInv'
  BY <1>1 DEF TunnelInv, TurnInv
<1>. DEFINE k == tunnel
<1>3. ASSUME tunnel # None
      PROVE  NearInv' /\ FarInv'
  <2>1. ~Astray
    BY Consts DEF Astray, FlushTime
  <2>2. /\ k \in Blocks /\ k.flushAge \in Nat /\ k.flushAge <= Interval - Floor
        /\ FlushFine(k) /\ SegsFine(k) /\ ProbeFine(k) /\ k.flushAge <= FlushTime
        /\ k.tsFlush \in Time /\ k.tsProbe \in Time /\ FlushTime \in Nat
    BY <1>3, <2>1, StateIs, AgesAreInts, BlockFields, FlushBound, Consts
       DEF TunnelInv, NearInv, FlushTime
  <2>. HIDE DEF k
  <2>3. CASE ~Astray'
    <3>1. 2 * (d + FlushTime) < ClockMod
      BY <2>2, <2>3, Consts DEF Astray, FlushTime
    <3>2. ASSUME NEW t \in Time, Since(k, t)
          PROVE  /\ Ahead(t) \in Int /\ Itimediff(t, clock') = Ahead(t) - d
                 /\ Ahead(t) - d >= 1 - k.flushAge - d
      <4>1. Ahead(t) \in Int /\ Ahead(t) >= 1 - k.flushAge
        BY <1>1, <2>2, <3>2, Mirrored DEF Since, Ahead
      <4>2. 2 * (Ahead(t) - d) >= - ClockMod
        BY <2>2, <3>1, <4>1, Consts
      <4>3. Itimediff(t, After(clock, d)) = Ahead(t) - d
        BY <1>1, <4>2, Nearer DEF Ahead
      <4>. QED  BY <1>1, <2>2, <4>1, <4>3
    <3>3. FlushFine(k)'
      <4>1. ASSUME k.updated
            PROVE  /\ k.flushAge + Itimediff(k.tsFlush, clock') <= Interval
                   /\ Itimediff(k.tsFlush, clock') >= 1 - k.flushAge - d
        <5>1. Since(k, k.tsFlush) /\ k.flushAge + Ahead(k.tsFlush) <= Interval
          BY <2>2, <4>1 DEF FlushFine
        <5>2. /\ Ahead(k.tsFlush) \in Int /\ Itimediff(k.tsFlush, clock') = Ahead(k.tsFlush) - d
              /\ Ahead(k.tsFlush) - d >= 1 - k.flushAge - d
          BY <2>2, <3>2, <5>1
        <5>. QED  BY <2>2, <5>1, <5>2, Consts
      <4>. QED  BY <1>1, <4>1 DEF FlushFine, Since, Ahead, k
    <3>4. ASSUME NEW i \in DOMAIN k.segs
          PROVE  SegFine(k, k.segs[i])'
      <4>. DEFINE s == k.segs[i]
      <4>1. s.resendts \in Time /\ s.rto \in Nat /\ s.age \in Nat
        BY <2>2, BlockFields, SegFields, Consts, SMTT(30) DEF Age
      <4>2. SegFine(k, s)
        BY <2>2 DEF SegsFine
      <4>. HIDE DEF s
      <4>3. /\ Ahead(s.resendts) \in Int /\ Itimediff(s.resendts, clock') = Ahead(s.resendts) - d
            /\ Ahead(s.resendts) - d >= 1 - k.flushAge - d
        BY <3>2, <4>1, <4>2 DEF SegFine
      <4>4. /\ s.age + Itimediff(s.resendts, clock') <= s.rto
            /\ s.age <= s.rto - 1 + k.flushAge
            /\ Itimediff(s.resendts, clock') >= 1 - k.flushAge - d
        BY <4>1, <4>2, <4>3 DEF SegFine
      <4>. QED  BY <1>1, <4>4 DEF SegFine, Since, Ahead, s, k
    <3>5. ProbeFine(k)'
      <4>1. k.probeWait \in Nat /\ k.probeAge \in Nat
        BY <2>2, AgesAreInts
      <4>2. ASSUME k.probeWait # 0
            PROVE  /\ k.probeAge + Itimediff(k.tsProbe, clock') <= k.probeWait
                   /\ Itimediff(k.tsProbe, clock') >= 1 - k.flushAge - d
        <5>1. Since(k, k.tsProbe) /\ k.probeAge + Ahead(k.tsProbe) <= k.probeWait
          BY <2>2, <4>2 DEF ProbeFine
        <5>2. /\ Ahead(k.tsProbe) \in Int /\ Itimediff(k.tsProbe, clock') = Ahead(k.tsProbe) - d
              /\ Ahead(k.tsProbe) - d >= 1 - k.flushAge - d
          BY <2>2, <3>2, <5>1
        <5>. QED  BY <4>1, <5>1, <5>2
      <4>3. k.probeAge <= ProbeLimit - 1 + k.flushAge /\ (~k.closed => k.probeAge = 0)
        BY <2>2 DEF ProbeFine
      <4>. QED  BY <1>1, <4>2, <4>3 DEF ProbeFine, Since, Ahead, k
    <3>6. k.flushAge <= Interval - Floor'
      BY <1>1, <2>2, Consts
    <3>7. SegsFine(k)'
      BY <1>1, <3>4 DEF SegsFine, k
    <3>. QED  BY <1>1, <2>3, <3>3, <3>5, <3>6, <3>7 DEF NearInv, FarInv, k
  <2>4. CASE Astray'
    <3>1. k.flushAge <= Interval + MaxWork + worked
      BY <1>1, <2>2, Consts
    <3>. QED  BY <1>1, <2>4, <3>1 DEF NearInv, FarInv, k
  <2>. QED  BY <2>3, <2>4
<1>. QED  BY <1>1, <1>2, <1>3 DEF TunnelInv, NearInv, FarInv

\* The tunnel becomes j in an update while the loop handles events.
LEMMA TunnelUpdated ==
  ASSUME TypeOK, TunnelInv, tunnel # None, at = "handling", UNCHANGED <<clock, napped, worked>>,
         NEW k \in Blocks, k.flushAge = tunnel.flushAge, k.updated = tunnel.updated, k.tsFlush = tunnel.tsFlush,
         ~Astray => SegsFine(k) /\ ProbeFine(k),
         NEW j \in Update(k, clock), tunnel' = j,
         Floor' \in Int, Floor' <= Ahead(j.tsFlush)
  PROVE  NearInv' /\ FarInv'
<1>1. IsUpdated(k, j, clock) /\ clock \in Time /\ worked \in 0 .. MaxWork
  BY StateIs, UpdateIs
<1>2. /\ j \in Blocks /\ j.updated /\ Ahead(j.tsFlush) \in Int /\ j.flushAge \in Nat /\ k.flushAge \in Nat
      /\ Ahead(j.tsFlush)' = Ahead(j.tsFlush) /\ Astray' = Astray /\ Stray' = Stray
  BY <1>1, BlockFields, Mirrored, AgesAreInts DEF IsUpdated, Ahead, Astray, Stray
<1>3. CASE ~Astray
  <2>1. k.flushAge <= FlushTime
    BY <1>3, FlushBound
  <2>2. FlushFine(k) /\ SegsFine(k) /\ ProbeFine(k)
    BY <1>3 DEF TunnelInv, NearInv, FlushFine, Since
  <2>3. /\ FlushFine(j) /\ SegsFine(j) /\ ProbeFine(j)
        /\ j.flushAge + Ahead(j.tsFlush) <= Interval
    BY <1>3, <2>1, <2>2, NearUpdate
  <2>4. (FlushFine(tunnel) /\ SegsFine(tunnel) /\ ProbeFine(tunnel))'
    BY <2>3 DEF FlushFine, SegsFine, ProbeFine, SegFine, Since, Ahead
  <2>5. j.flushAge <= Interval - Floor'
    BY <1>2, <2>3, Consts
  <2>. QED  BY <1>2, <1>3, <2>4, <2>5 DEF NearInv, FarInv
<1>4. CASE Astray
  <2>1. Stray = Slap + 2 * MaxWork
    BY <1>4 DEF Stray
  <2>2. j.flushAge + Ahead(j.tsFlush) <= Stray + Interval
    <3>1. CASE Itimediff(j.tsFlush, clock) <= Interval /\ ByFlush(k, j, clock)
      BY <1>2, <2>1, <3>1, Consts DEF ByFlush, Ahead
    <3>2. CASE Itimediff(j.tsFlush, clock) <= Slap /\ j = k
      <4>1. CASE tunnel.flushAge <= Interval + MaxWork + worked
        BY <1>1, <1>2, <2>1, <3>2, <4>1, Consts DEF Ahead
      <4>2. CASE tunnel.flushAge + Ahead(tunnel.tsFlush) <= Stray + Interval
        BY <3>2, <4>2
      <4>. QED  BY <1>4, <4>1, <4>2 DEF TunnelInv, FarInv
    <3>. QED  BY <1>1, <3>1, <3>2 DEF IsUpdated
  <2>. QED  BY <1>2, <1>4, <2>2 DEF NearInv, FarInv
<1>. QED  BY <1>3, <1>4

\* What the steps do to the types of the tunnel.
TunnelTypes == (tunnel = None \/ tunnel \in Blocks) /\ nextKcp \in 0 .. Interval \cup {Forever}

LEMMA TunnelPasses ==
  ASSUME TypeOK, TunnelInv, Passes(1, TRUE), napped' = napped, at' = at, nextKcp' = nextKcp,
         \/ at = "poll" /\ wait > 0 /\ wait' = wait - 1 /\ worked' = worked
         \/ at # "poll" /\ wait' = wait /\ worked' = worked + 1
  PROVE  TunnelInv' /\ TunnelTypes'
<1>1. /\ Floor' = Floor - 1 /\ wait \in Nat /\ worked \in Nat /\ at \in {"poll", "handling", "timers"}
      /\ nextKcp \in 0 .. Interval \cup {Forever} /\ nextKcp \in Nat
      /\ at = "handling" => worked' = worked + 1
  <2>1. wait \in Nat /\ worked \in Nat /\ at \in {"poll", "handling", "timers"}
        /\ nextKcp \in 0 .. Interval \cup {Forever} /\ nextKcp \in Nat
    BY StateIs
  <2>2. CASE at = "poll"
    BY <2>1, <2>2, Consts DEF Floor
  <2>3. CASE at = "handling"
    BY <2>1, <2>3, Consts DEF Floor
  <2>4. CASE at = "timers"
    BY <2>1, <2>4, Consts DEF Floor
  <2>. QED  BY <2>1, <2>2, <2>3, <2>4
<1>2. CASE tunnel = None
  <2>1. tunnel' = None
    BY <1>2 DEF Passes
  <2>. QED  BY <1>1, <1>2, <2>1 DEF TunnelInv, TurnInv, NearInv, FarInv, TunnelTypes
<1>3. CASE tunnel # None
  <2>1. NearInv' /\ FarInv'
    BY <1>1, <1>3, TunnelTick
  <2>2. IsAged(tunnel, tunnel', 1) /\ tunnel \in Blocks
    BY <1>3, StateIs, AgedIs DEF Passes
  <2>3. tunnel' \in Blocks /\ tunnel'.updated = tunnel.updated
        /\ tunnel'.queued + Len(tunnel'.segs) = tunnel.queued + Len(tunnel.segs)
    BY <2>2 DEF IsAged
  <2>4. TurnInv'
    BY <1>1, <1>3, <2>3, Consts DEF TunnelInv, TurnInv
  <2>. QED  BY <1>1, <2>1, <2>3, <2>4 DEF TunnelInv, TunnelTypes
<1>. QED  BY <1>2, <1>3

\* Without a tunnel afterwards there is little to show.
LEMMA NoTunnel ==
  ASSUME tunnel' = None, nextKcp' \in 0 .. Interval \cup {Forever},
         at' = "poll" => worked' = 0 /\ nextKcp' = 0, at' # "poll" => wait' = 0
  PROVE  TunnelInv' /\ TunnelTypes'
BY DEF TunnelInv, TurnInv, NearInv, FarInv, TunnelTypes

LEMMA NewTunnel ==
  ASSUME TypeOK, TunnelInv, NewSession
  PROVE  TunnelInv' /\ TunnelTypes'
<1>1. /\ at = "handling" /\ at' = at /\ wait' = wait /\ worked' = worked /\ nextKcp' = nextKcp
      /\ tunnel' = NewTimers /\ napped' = 0
  BY DEF NewSession, Handles
<1>2. /\ NewTimers \in Blocks /\ ~NewTimers.updated /\ NewTimers.queued = 0
      /\ NewTimers.segs = <<>> /\ Len(NewTimers.segs) = 0 /\ DOMAIN NewTimers.segs = {}
      /\ ~NewTimers.closed /\ NewTimers.probeWait = 0
      /\ NewTimers.flushAge = 0 /\ NewTimers.probeAge = 0
  <2>1. Interval \in Time /\ 0 \in Time /\ 0 \in Age /\ 0 \in 0 .. MaxSegs /\ 0 \in 0 .. ProbeLimit
        /\ <<>> \in Seq(Segs)
    BY Consts DEF Time, Age
  <2>. QED  BY <2>1 DEF NewTimers, Blocks, Timers, Segs
<1>3. wait = 0 /\ worked \in Nat /\ nextKcp \in 0 .. Interval \cup {Forever} /\ Floor' = - MaxWork - worked
  BY <1>1, StateIs DEF TunnelInv, TurnInv, Floor
<1>4. ~Astray'
  BY <1>1, Consts DEF Astray, FlushTime
<1>5. FlushFine(tunnel)' /\ SegsFine(tunnel)' /\ ProbeFine(tunnel)'
  BY <1>1, <1>2, Consts DEF FlushFine, SegsFine, ProbeFine
<1>6. 0 <= Interval - Floor'
  BY <1>3, Consts
<1>7. TurnInv' /\ TunnelTypes'
  BY <1>1, <1>2, <1>3, Consts DEF TurnInv, TunnelTypes
<1>. QED  BY <1>1, <1>2, <1>4, <1>5, <1>6, <1>7 DEF TunnelInv, NearInv, FarInv

LEMMA TunnelSends ==
  ASSUME TypeOK, TunnelInv, SendData
  PROVE  TunnelInv' /\ TunnelTypes'
<1>. DEFINE k == tunnel
            j == [k EXCEPT !.queued = @ + 1]
<1>1. /\ at = "handling" /\ at' = at /\ wait' = wait /\ worked' = worked /\ nextKcp' = nextKcp
      /\ tunnel' = j /\ napped' = napped /\ clock' = clock /\ tunnel # None
      /\ k.queued + Len(k.segs) < MaxSegs
  BY DEF SendData, Handles
<1>2. k \in Blocks /\ k.queued \in Nat /\ Len(k.segs) \in Nat /\ nextKcp \in 0 .. Interval \cup {Forever}
  <2>1. k \in Blocks /\ nextKcp \in 0 .. Interval \cup {Forever}
    BY <1>1, StateIs
  <2>. HIDE DEF k
  <2>. QED  BY <2>1, BlockFields, Consts
<1>0. k.queued + Len(k.segs) < MaxSegs
  BY <1>1
<1>. HIDE DEF k
<1>3. /\ j \in Blocks /\ j.queued + Len(j.segs) <= MaxSegs /\ j.updated = k.updated
      /\ j.tsFlush = k.tsFlush /\ j.segs = k.segs /\ j.closed = k.closed
      /\ j.probeWait = k.probeWait /\ j.tsProbe = k.tsProbe
      /\ j.flushAge = k.flushAge /\ j.probeAge = k.probeAge
  <2>1. k.queued + 1 \in 0 .. MaxSegs /\ k.queued + 1 + Len(k.segs) <= MaxSegs
    BY <1>0, <1>2, Consts
  <2>. QED  BY <1>2, <2>1 DEF Blocks, Timers
<1>. HIDE DEF j
<1>4. Floor' = Floor /\ Astray' = Astray /\ Stray' = Stray
  BY <1>1 DEF Floor, Astray, Stray
<1>5. TurnInv' /\ TunnelTypes'
  BY <1>1, <1>2, <1>3 DEF TunnelInv, TurnInv, TunnelTypes, k
<1>6. ASSUME ~Astray
      PROVE  NearInv'
  <2>1. k.flushAge <= Interval - Floor /\ FlushFine(k) /\ SegsFine(k) /\ ProbeFine(k)
    BY <1>1, <1>6 DEF TunnelInv, NearInv, k
  <2>2. FlushFine(tunnel)' /\ SegsFine(tunnel)' /\ ProbeFine(tunnel)'
    BY <1>1, <1>3, <2>1 DEF FlushFine, SegsFine, ProbeFine, SegFine, Since, Ahead
  <2>. QED  BY <1>1, <1>3, <1>4, <2>1, <2>2 DEF NearInv
<1>7. ASSUME Astray
      PROVE  FarInv'
  BY <1>1, <1>3, <1>4, <1>7 DEF TunnelInv, FarInv, Ahead, k
<1>. QED  BY <1>4, <1>5, <1>6, <1>7 DEF TunnelInv, NearInv, FarInv

\* r is what is left of the segments q after one was acknowledged.
OneLess(q, r) ==
  /\ r \in Seq(Segs) /\ Len(r) = Len(q) - 1
  /\ \A n \in 1 .. Len(r) : \E m \in 1 .. Len(q) : r[n] = q[m]

LEMMA RemovedIs ==
  ASSUME NEW q \in Seq(Segs), NEW i \in 1 .. Len(q)
  PROVE  OneLess(q, RemoveAt(q, i))
<1>. DEFINE a == SubSeq(q, 1, i - 1)
            b == SubSeq(q, i + 1, Len(q))
<1>1. Len(q) \in Nat /\ \A n \in 1 .. Len(q) : q[n] \in Segs
  BY LenProperties, ElementOfSeq
<1>2. /\ a \in Seq(Segs) /\ Len(a) = i - 1
      /\ \A n \in 1 .. i - 1 : a[n] = q[n]
  <2>1. 1 \in Int /\ i - 1 \in Int /\ \A n \in 1 .. i - 1 : q[n] \in Segs
    BY <1>1
  <2>2. /\ a \in Seq(Segs) /\ Len(a) = (IF 1 <= i - 1 THEN (i - 1) - 1 + 1 ELSE 0)
        /\ \A n \in 1 .. (i - 1) - 1 + 1 : a[n] = q[1 + n - 1]
    BY <2>1, SubSeqProperties
  <2>. HIDE DEF a
  <2>. QED  BY <1>1, <2>2
<1>3. /\ b \in Seq(Segs) /\ Len(b) = Len(q) - i
      /\ \A n \in 1 .. Len(q) - i : b[n] = q[n + i]
  <2>1. i + 1 \in Int /\ Len(q) \in Int /\ \A n \in i + 1 .. Len(q) : q[n] \in Segs
    BY <1>1
  <2>2. /\ b \in Seq(Segs) /\ Len(b) = (IF i + 1 <= Len(q) THEN Len(q) - (i + 1) + 1 ELSE 0)
        /\ \A n \in 1 .. Len(q) - (i + 1) + 1 : b[n] = q[(i + 1) + n - 1]
    BY <2>1, SubSeqProperties
  <2>. HIDE DEF b
  <2>3. Len(b) = Len(q) - i
    BY <1>1, <2>2
  <2>4. ASSUME NEW n \in 1 .. Len(q) - i
        PROVE  b[n] = q[n + i]
    <3>1. n \in 1 .. Len(q) - (i + 1) + 1 /\ (i + 1) + n - 1 = n + i
      BY <1>1
    <3>. QED  BY <2>2, <3>1
  <2>. QED  BY <2>2, <2>3, <2>4
<1>. HIDE DEF a, b
<1>4. /\ a \o b \in Seq(Segs) /\ Len(a \o b) = Len(a) + Len(b)
      /\ \A n \in 1 .. Len(a) + Len(b) : (a \o b)[n] = IF n <= Len(a) THEN a[n] ELSE b[n - Len(a)]
  BY <1>2, <1>3, ConcatProperties
<1>5. ASSUME NEW n \in 1 .. Len(q) - 1
      PROVE  \E m \in 1 .. Len(q) : (a \o b)[n] = q[m]
  <2>1. CASE n <= i - 1
    <3>1. n \in 1 .. i - 1 /\ n \in 1 .. Len(q) /\ n \in 1 .. Len(a) + Len(b) /\ n <= Len(a)
      BY <1>1, <1>2, <1>3, <2>1
    <3>. QED  BY <1>2, <1>4, <3>1
  <2>2. CASE ~(n <= i - 1)
    <3>1. /\ n - (i - 1) \in 1 .. Len(q) - i /\ (n - (i - 1)) + i \in 1 .. Len(q)
          /\ n \in 1 .. Len(a) + Len(b) /\ ~(n <= Len(a))
      BY <1>1, <1>2, <1>3, <2>2
    <3>2. (a \o b)[n] = b[n - (i - 1)]
      BY <1>2, <1>4, <3>1
    <3>. QED  BY <1>3, <3>1, <3>2
  <2>. QED  BY <2>1, <2>2
<1>6. RemoveAt(q, i) = a \o b
  BY DEF RemoveAt, a, b
<1>7. Len(a \o b) = Len(q) - 1
  BY <1>1, <1>2, <1>3, <1>4
<1>. QED  BY <1>4, <1>5, <1>6, <1>7 DEF OneLess

\* What the datagram tells, before the update.
LEMMA HeardIs ==
  ASSUME TypeOK, TunnelInv, tunnel # None, NEW k \in Acknowledged(tunnel) \cup Told(tunnel)
  PROVE  /\ k \in Blocks
         /\ k.flushAge = tunnel.flushAge /\ k.updated = tunnel.updated /\ k.tsFlush = tunnel.tsFlush
         /\ k.queued + Len(k.segs) <= MaxSegs
         /\ ~Astray => SegsFine(k) /\ ProbeFine(k)
<1>0. /\ tunnel \in Blocks /\ tunnel.segs \in Seq(Segs) /\ Len(tunnel.segs) \in Nat
      /\ DOMAIN tunnel.segs = 1 .. Len(tunnel.segs) /\ tunnel.queued \in Nat
      /\ tunnel.queued + Len(tunnel.segs) <= MaxSegs
  BY StateIs, BlockFields, Consts, SMTT(30) DEF TunnelInv, TurnInv
<1>1. CASE k \in Acknowledged(tunnel)
  <2>1. PICK i \in DOMAIN tunnel.segs : k = [tunnel EXCEPT !.segs = RemoveAt(tunnel.segs, i)]
    BY <1>1 DEF Acknowledged
  <2>. DEFINE q == RemoveAt(tunnel.segs, i)
  <2>2. /\ q \in Seq(Segs) /\ Len(q) = Len(tunnel.segs) - 1
        /\ \A n \in 1 .. Len(q) : \E m \in 1 .. Len(tunnel.segs) : q[n] = tunnel.segs[m]
    <3>1. OneLess(tunnel.segs, RemoveAt(tunnel.segs, i))
      BY <1>0, RemovedIs
    <3>. QED  BY <3>1 DEF OneLess
  <2>3. k = [tunnel EXCEPT !.segs = q]
    BY <2>1
  <2>. HIDE DEF q
  <2>4. /\ k \in Blocks /\ k.segs = q
        /\ k.flushAge = tunnel.flushAge /\ k.updated = tunnel.updated /\ k.tsFlush = tunnel.tsFlush
        /\ k.queued = tunnel.queued /\ k.closed = tunnel.closed /\ k.probeAge = tunnel.probeAge
        /\ k.probeWait = tunnel.probeWait /\ k.tsProbe = tunnel.tsProbe
    BY <1>0, <2>2, <2>3 DEF Blocks, Timers, Segs
  <2>5. ASSUME ~Astray
        PROVE  SegsFine(k) /\ ProbeFine(k)
    <3>1. SegsFine(tunnel) /\ ProbeFine(tunnel)
      BY <2>5 DEF TunnelInv, NearInv
    <3>2. ASSUME NEW n \in DOMAIN k.segs
          PROVE  SegFine(k, k.segs[n])
      <4>1. n \in 1 .. Len(q)
        BY <2>2, <2>4, LenProperties
      <4>2. PICK m \in 1 .. Len(tunnel.segs) : q[n] = tunnel.segs[m]
        BY <2>2, <4>1
      <4>3. SegFine(tunnel, tunnel.segs[m])
        BY <1>0, <3>1 DEF SegsFine
      <4>. QED  BY <2>4, <4>2, <4>3 DEF SegFine, Since
    <3>. QED  BY <2>4, <3>1, <3>2 DEF SegsFine, ProbeFine, Since
  <2>6. k.queued + Len(k.segs) <= MaxSegs
    BY <1>0, <2>2, <2>4, Consts
  <2>. QED  BY <2>4, <2>5, <2>6
<1>2. CASE k \in Told(tunnel)
  <2>1. k = [tunnel EXCEPT !.closed = ~tunnel.closed, !.probeAge = 0]
    BY <1>2 DEF Told
  <2>2. tunnel.closed \in BOOLEAN /\ 0 \in Age
    BY <1>0, BlockFields, Consts DEF Age
  <2>3. /\ k \in Blocks /\ k.segs = tunnel.segs
        /\ k.flushAge = tunnel.flushAge /\ k.updated = tunnel.updated /\ k.tsFlush = tunnel.tsFlush
        /\ k.queued = tunnel.queued /\ k.probeAge = 0
        /\ k.probeWait = tunnel.probeWait /\ k.tsProbe = tunnel.tsProbe
    BY <1>0, <2>1, <2>2 DEF Blocks, Timers
  <2>4. ASSUME ~Astray
        PROVE  SegsFine(k) /\ ProbeFine(k)
    <3>1. SegsFine(tunnel) /\ ProbeFine(tunnel)
      BY <2>4 DEF TunnelInv, NearInv
    <3>2. SegsFine(k)
      BY <2>3, <3>1 DEF SegsFine, SegFine, Since
    <3>3. /\ tunnel.probeAge \in Nat /\ tunnel.flushAge \in Nat /\ tunnel.probeWait \in Nat
          /\ Ahead(tunnel.tsProbe) \in Int
      BY <1>0, StateIs, AgesAreInts, BlockFields, Mirrored DEF Ahead
    <3>4. ProbeFine(k)
      BY <2>3, <3>1, <3>3, Consts DEF ProbeFine, Since
    <3>. QED  BY <3>2, <3>4
  <2>. QED  BY <1>0, <2>3, <2>4
<1>. QED  BY <1>1, <1>2

LEMMA TunnelHears ==
  ASSUME TypeOK, TunnelInv, Datagram
  PROVE  TunnelInv' /\ TunnelTypes'
<1>1. /\ at = "handling" /\ at' = at /\ wait' = wait /\ worked' = worked /\ nextKcp' = nextKcp
      /\ napped' = napped /\ clock' = clock /\ tunnel # None
  BY DEF Datagram, Handles
<1>2. PICK k \in Acknowledged(tunnel) \cup Told(tunnel) : tunnel' \in Update(k, clock)
  BY DEF Datagram
<1>3. /\ k \in Blocks
      /\ k.flushAge = tunnel.flushAge /\ k.updated = tunnel.updated /\ k.tsFlush = tunnel.tsFlush
      /\ k.queued + Len(k.segs) <= MaxSegs
      /\ ~Astray => SegsFine(k) /\ ProbeFine(k)
  BY <1>1, HeardIs
<1>4. IsUpdated(k, tunnel', clock)
  BY <1>2, <1>3, StateIs, UpdateIs
<1>5. tunnel' \in Blocks /\ tunnel'.updated /\ tunnel'.queued + Len(tunnel'.segs) <= MaxSegs
      /\ Ahead(tunnel'.tsFlush) \in Int /\ Ahead(tunnel'.tsFlush) >= 1
  BY <1>3, <1>4, StateIs, BlockFields, Mirrored DEF IsUpdated, Ahead
<1>6. Floor' \in Int /\ Floor' <= 0
  BY <1>1, StateIs DEF Floor
<1>7. Floor' <= Ahead(tunnel'.tsFlush)
  BY <1>5, <1>6
<1>8. NearInv' /\ FarInv'
  BY <1>1, <1>2, <1>3, <1>6, <1>7, TunnelUpdated
<1>9. wait = 0 /\ nextKcp \in 0 .. Interval \cup {Forever}
  BY <1>1, StateIs DEF TunnelInv, TurnInv
<1>. QED  BY <1>1, <1>5, <1>8, <1>9 DEF TunnelInv, TurnInv, TunnelTypes

LEMMA TunnelsUpdated ==
  ASSUME TypeOK, TunnelInv, UpdateTunnels
  PROVE  TunnelInv' /\ TunnelTypes'
<1>1. /\ at = "handling" /\ at' = "timers" /\ wait' = wait /\ worked' = worked
      /\ napped' = napped /\ clock' = clock /\ wait = 0 /\ worked \in 0 .. MaxWork
  BY StateIs DEF UpdateTunnels, TunnelInv, TurnInv
<1>2. CASE tunnel = None
  <2>1. tunnel' = None /\ nextKcp' = Forever
    BY <1>2 DEF UpdateTunnels
  <2>. QED  BY <1>1, <2>1, NoTunnel
<1>3. CASE tunnel # None
  <2>1. tunnel' \in Update(tunnel, clock) /\ nextKcp' = NextCall(tunnel', clock)
    BY <1>3 DEF UpdateTunnels
  <2>2. tunnel \in Blocks /\ clock \in Time /\ tunnel.queued + Len(tunnel.segs) <= MaxSegs
    BY <1>3, StateIs DEF TunnelInv, TurnInv
  <2>3. IsUpdated(tunnel, tunnel', clock)
    BY <2>1, <2>2, UpdateIs
  <2>4. tunnel' \in Blocks /\ tunnel'.updated /\ tunnel'.queued + Len(tunnel'.segs) <= MaxSegs
        /\ Ahead(tunnel'.tsFlush) \in Int /\ Itimediff(tunnel'.tsFlush, clock) >= 1
    BY <2>2, <2>3, BlockFields, Mirrored DEF IsUpdated, Ahead
  <2>5. nextKcp' \in 0 .. Interval /\ nextKcp' <= Ahead(tunnel'.tsFlush)
    BY <2>1, <2>2, <2>4, NextCallIs DEF Ahead
  <2>6. Floor' = nextKcp' - worked
    BY <1>1 DEF Floor
  <2>7. Floor' \in Int /\ Floor' <= Ahead(tunnel'.tsFlush)
    BY <1>1, <2>4, <2>5, <2>6, Consts
  <2>8. ~Astray => SegsFine(tunnel) /\ ProbeFine(tunnel)
    BY <1>3 DEF TunnelInv, NearInv
  <2>9. NearInv' /\ FarInv'
    BY <1>1, <1>3, <2>1, <2>2, <2>7, <2>8, TunnelUpdated
  <2>10. TurnInv' /\ TunnelTypes'
    BY <1>1, <2>4, <2>5, Consts DEF TurnInv, TunnelTypes
  <2>. QED  BY <2>9, <2>10 DEF TunnelInv
<1>. QED  BY <1>2, <1>3

LEMMA Slack ==
  ASSUME NEW a \in Nat, NEW b \in Nat, NEW c \in Nat, NEW d \in Nat, a <= b, c <= d
  PROVE  b - c \in Int /\ a - d \in Int /\ a - d <= b - c
OBVIOUS

\* Every step, if a turn ends with a wait that ends before the next flush.
LEMMA TunnelStep ==
  ASSUME TypeOK, TunnelInv, Next, EndTurn => wait' \in Nat /\ wait' <= nextKcp
  PROVE  TunnelInv' /\ TunnelTypes'
<1>0. /\ wait \in Nat /\ worked \in Nat /\ worked <= MaxWork /\ at \in {"poll", "handling", "timers"}
      /\ nextKcp \in 0 .. Interval \cup {Forever} /\ nextKcp \in Nat /\ TunnelTypes
      /\ Floor \in Int /\ clock \in Time
  BY StateIs, Consts DEF TunnelTypes
<1>1. CASE Waits
  BY <1>1, TunnelPasses DEF Waits
<1>2. CASE Works
  BY <1>2, TunnelPasses DEF Works
<1>3. ASSUME NEW d \in UNION {Naps[r] : r \in DOMAIN Naps}, Nap(d)
      PROVE  TunnelInv' /\ TunnelTypes'
  <2>1. d \in 1 .. ClockMod - 1
    BY MainLoopAssumption
  <2>2. TunnelInv'
    BY <1>3, <2>1, TunnelNap DEF Nap
  <2>. QED  BY <1>0, <1>3, <2>2 DEF TunnelTypes, Nap, Passes
<1>4. CASE PollReturns
  <2>1. worked = 0 /\ Floor = wait - MaxWork /\ Floor' = - MaxWork
    BY <1>0, <1>4, Consts DEF PollReturns, Floor, TunnelInv, TurnInv
  <2>2. Floor' <= Floor /\ Floor' \in Int
    BY <1>0, <2>1, Consts
  <2>3. NearInv' /\ FarInv'
    BY <1>4, <2>2, TunnelKept DEF PollReturns
  <2>. QED  BY <1>0, <1>4, <2>3 DEF PollReturns, TunnelInv, TurnInv, TunnelTypes
<1>5. CASE NewSession
  BY <1>5, NewTunnel
<1>6. CASE SessionEnds
  <2>1. tunnel' = None /\ nextKcp' = nextKcp /\ at' = "handling" /\ wait' = 0
    BY <1>6 DEF SessionEnds, Handles, TunnelInv, TurnInv
  <2>. QED  BY <1>0, <2>1, NoTunnel
<1>7. CASE AnswerArrives \/ BeatTimeout \/ CheckTimeout
  <2>1. UNCHANGED <<clock, at, wait, worked, nextKcp, tunnel, napped>>
    BY <1>7 DEF AnswerArrives, BeatTimeout, CheckTimeout, Handles
  <2>2. Floor' = Floor
    BY <2>1 DEF Floor
  <2>3. Floor' \in Int /\ Floor' <= Floor
    BY <1>0, <2>2
  <2>4. NearInv' /\ FarInv'
    BY <2>1, <2>3, TunnelKept
  <2>. QED  BY <1>0, <2>1, <2>4 DEF TunnelInv, TurnInv, TunnelTypes
<1>8. CASE SendData
  BY <1>8, TunnelSends
<1>9. CASE Datagram
  BY <1>9, TunnelHears
<1>10. CASE UpdateTunnels
  BY <1>10, TunnelsUpdated
<1>11. CASE EndTurn
  <2>1. /\ at = "timers" /\ at' = "poll" /\ worked' = 0 /\ nextKcp' = 0 /\ clock' = clock
        /\ \/ tunnel' = None
           \/ tunnel' = tunnel /\ napped' = napped
    BY <1>11 DEF EndTurn
  <2>2. CASE tunnel' = None
    BY <2>1, <2>2, NoTunnel, Consts
  <2>3. CASE tunnel' = tunnel /\ napped' = napped /\ tunnel # None
    <3>1. wait' \in Nat /\ wait' <= nextKcp /\ nextKcp <= Interval
      BY <1>11, <2>1, <2>3 DEF TunnelInv, TurnInv
    <3>2. Floor' = wait' - MaxWork /\ Floor = nextKcp - worked
      BY <2>1 DEF Floor
    <3>5. nextKcp - worked \in Int /\ wait' - MaxWork \in Int /\ wait' - MaxWork <= nextKcp - worked
      <4>1. nextKcp \in Nat /\ worked \in Nat /\ worked <= MaxWork /\ MaxWork \in Nat
        BY <1>0, Consts
      <4>2. wait' \in Nat /\ wait' <= nextKcp
        BY <3>1
      <4>. QED  BY <4>1, <4>2, Slack
    <3>3. Floor' \in Int /\ Floor' <= Floor
      BY <3>2, <3>5
    <3>4. NearInv' /\ FarInv'
      BY <2>1, <2>3, <3>3, TunnelKept
    <3>. QED  BY <1>0, <2>1, <2>3, <3>1, <3>4, Consts DEF TunnelInv, TurnInv, TunnelTypes
  <2>. QED  BY <2>1, <2>2, <2>3
<1>. QED  BY <1>1, <1>2, <1>3, <1>4, <1>5, <1>6, <1>7, <1>8, <1>9, <1>10, <1>11 DEF Next, Turn

-----------------------------------------------------------------------------
(* The inductive invariant: the timers of a session.                       *)

\* The time since curClock was read, since the last heartbeat left, and since
\* the last answer, as the clock counts it.
Turned == (clock - curClock) % ClockMod
SentFor == (clock - beat.sent) % ClockMod
Answered == (clock - beat.recv) % ClockMod

\* How much of a turn with a tunnel is over at most, stops left out.
TurnSoFar == IF at = "poll" THEN Interval - wait ELSE Interval + worked

\* A turn is so short that no timer is further than half of the clock away.
ClockInv ==
  role = "server" =>
    /\ at = "poll" => Turned + wait <= IF tunnel = None THEN MaxWait ELSE Interval
    /\ at # "poll" => 2 * (HeartBeat + MaxWork + Turned - worked) < ClockMod
    /\ napped \in Naps["server"] \cup {0}

\* The time to the two timers.
BeatAhead == Ahead(beat.beatAt)
CheckAhead == Ahead(beat.checkAt)

\* The timers were added in this turn, which may have begun without a tunnel.
Fresh == BeatAhead >= HeartBeat - worked /\ CheckAhead >= ConnCheck - worked

\* No timer is later than two turns and a stop.
Latest == 1 - TurnTime - TurnSoFar - napped
BeatInv ==
  HasTimers =>
    /\ at # "poll" => Turned <= Interval + worked + napped \/ Fresh
    /\ BeatAhead >= Latest /\ CheckAhead >= Latest
    /\ beat.sentAge + BeatAhead <= HeartBeat
    /\ CheckAhead <= ConnCheck
    /\ beat.sentAge <= HeartBeat - 1 + TurnSoFar
                       + IF BeatAhead + Turned <= 0 THEN TurnTime ELSE 0
    /\ beat.asked \/ beat.recv > 0 => SentFor + BeatAhead <= HeartBeat

\* What an unbroken silence looks like to a clock that may have started again.
AnswerInv ==
  HasTimers /\ beat.recv > 0 =>
    /\ beat.silence = MaxAge \/ Answered <= beat.silence
    /\ ~beat.wrapped => beat.silence <= clock - beat.recv

\* No check after CONNTIMEOUT_TIME was in vain; or one was in this turn, after a
\* stop; or in the turn before, and the next check is due.
LongSilence == ConnTimeout + ConnCheck - 1 + TurnTime + napped + TurnSoFar
NoneMissed == beat.silence + CheckAhead <= ConnTimeout + ConnCheck
JustMissed ==
  /\ napped > 0 /\ at # "poll" /\ beat.silence <= LongSilence /\ CheckAhead < 0
  /\ SentFor > 2 * HeartBeat \/ SentFor <= worked
Recheck ==
  /\ napped > 0 /\ beat.silence <= LongSilence + TurnTime /\ CheckAhead + Turned <= 0
  /\ SentFor > 2 * HeartBeat + Turned \/ SentFor <= MaxWork + TurnSoFar
SilenceInv ==
  HasTimers /\ beat.recv > 0 /\ ~beat.wrapped /\ ~beat.over => NoneMissed \/ JustMissed \/ Recheck

TimerInv == ClockInv /\ BeatInv /\ AnswerInv /\ SilenceInv

Beats == [sent : Time, recv : Time, beatAt : Time, checkAt : Time, asked : BOOLEAN,
          sentAge : Age, silence : Age, wrapped : BOOLEAN, over : BOOLEAN]
LEMMA BeatIs ==
  ASSUME TypeOK
  PROVE  /\ beat \in Beats
         /\ beat.sent \in Time /\ beat.recv \in Time /\ beat.beatAt \in Time /\ beat.checkAt \in Time
         /\ beat.recv \in Nat /\ beat.asked \in BOOLEAN /\ beat.wrapped \in BOOLEAN /\ beat.over \in BOOLEAN
         /\ beat.sentAge \in Age /\ beat.silence \in Age
         /\ beat.sentAge \in Nat /\ beat.silence \in Nat
BY Consts DEF TypeOK, Beats, Age, Time

LEMMA TimesAre ==
  ASSUME TypeOK
  PROVE  /\ Turned \in 0 .. ClockMod - 1 /\ clock = After(curClock, Turned)
         /\ SentFor \in 0 .. ClockMod - 1 /\ Answered \in 0 .. ClockMod - 1
         /\ BeatAhead \in Int /\ CheckAhead \in Int
BY StateIs, BeatIs, Elapsed, Mirrored DEF Turned, SentFor, Answered, Ahead, BeatAhead, CheckAhead

\* What is ahead now was further ahead before.
LEMMA Earlier ==
  ASSUME NEW a \in Time, NEW b \in Time, NEW e \in 0 .. ClockMod - 1,
         2 * (Itimediff(a, After(b, e)) + e) < ClockMod
  PROVE  Itimediff(a, b) = Itimediff(a, After(b, e)) + e
<1>. DEFINE t == After(b, e)
            x == Itimediff(a, t)
<1>0. 2 * (x + e) < ClockMod
  OBVIOUS
<1>1. t \in Time /\ (t = b + e \/ t = b + e - ClockMod)
  BY AfterIs
<1>2. Apart(a, t, x)
  <2>. HIDE DEF t
  <2>. QED  BY <1>1, DiffExists
<1>3. Apart(a, b, x + e)
  <2>. HIDE DEF x, t
  <2>. QED  BY <1>0, <1>1, <1>2, Consts DEF Apart, Time
<1>4. Itimediff(a, b) = x + e
  <2>. HIDE DEF x
  <2>. QED  BY <1>3, DiffIs
<1>. QED  BY <1>4

\* A server is not stopped for longer than its timers can tell.
LEMMA NapIs ==
  ASSUME NEW d \in Naps["server"] \cup {0}
  PROVE  d \in Nat /\ 2 * (HeartBeat + MaxWait + MaxWork + d) < ClockMod
<1>1. d \in Nat
  BY MainLoopAssumption
<1>. QED  BY <1>1, MainLoopAssumption

\* The distances of the timers from curClock, which decide what is due.
LEMMA ExpiredIs ==
  ASSUME TypeOK, ClockInv, BeatInv, HasTimers, at = "timers", NEW t \in {beat.beatAt, beat.checkAt}
  PROVE  /\ Itimediff(t, curClock) = Ahead(t) + Turned
         /\ Expired(t) <=> Ahead(t) + Turned <= 0
<1>1. /\ t \in Time /\ curClock \in Time /\ Turned \in 0 .. ClockMod - 1 /\ clock = After(curClock, Turned)
      /\ Ahead(t) \in Int /\ worked \in 0 .. MaxWork /\ worked \in Nat /\ beat.sentAge \in Nat
      /\ napped \in Nat
  BY BeatIs, StateIs, TimesAre DEF BeatAhead, CheckAhead
<1>2. Ahead(t) <= HeartBeat /\ Ahead(t) >= 1 - TurnTime - (Interval + worked) - napped
  BY <1>1, TimesAre, Consts DEF BeatInv, Latest, TurnSoFar, BeatAhead, CheckAhead
<1>3. 2 * (HeartBeat + MaxWork + Turned - worked) < ClockMod
      /\ 2 * (HeartBeat + MaxWait + MaxWork + napped) < ClockMod
  BY NapIs DEF ClockInv, HasTimers
<1>4. 2 * (Ahead(t) + Turned) < ClockMod /\ 2 * (Ahead(t) + Turned) > - ClockMod
  BY <1>1, <1>2, <1>3, Consts DEF TurnTime
<1>5. Itimediff(t, curClock) = Ahead(t) + Turned
  BY <1>1, <1>4, Earlier DEF Ahead
<1>6. Itimediff(curClock, t) = - (Ahead(t) + Turned)
  <2>1. 2 * Itimediff(t, curClock) # - ClockMod
    BY <1>1, <1>4, <1>5, Consts
  <2>. QED  BY <1>1, <1>5, <2>1, Mirrored
<1>. QED  BY <1>1, <1>5, <1>6 DEF Expired

LEMMA WaitIs ==
  ASSUME TypeOK, TurnInv, ClockInv, BeatInv, EndTurn
  PROVE  /\ wait' \in 0 .. MaxWait /\ wait' \in Nat /\ wait' <= nextKcp
         /\ tunnel # None => wait' <= Interval
<1>1. nextKcp \in Nat /\ nextKcp \in 0 .. Interval \cup {Forever} /\ at = "timers"
      /\ (tunnel # None => nextKcp <= Interval) /\ wait' = Min({nextKcp, NextExp})
  BY StateIs DEF EndTurn, TurnInv, ShortestWait
<1>2. CASE ~HasTimers
  <2>1. wait' = IF nextKcp <= MaxWait THEN nextKcp ELSE MaxWait
    BY <1>1, <1>2, MinOfTwo, Consts DEF NextExp
  <2>. QED  BY <1>1, <2>1, Consts
<1>3. CASE HasTimers
  <2>. DEFINE x == Itimediff(beat.beatAt, curClock)
              y == Itimediff(beat.checkAt, curClock)
  <2>1. x \in Int /\ x >= 1 /\ y \in Int /\ y >= 1
    <3>1. ~Expired(beat.beatAt) /\ ~Expired(beat.checkAt)
      BY <1>3 DEF EndTurn
    <3>2. x = Ahead(beat.beatAt) + Turned /\ ~(x <= 0)
          /\ y = Ahead(beat.checkAt) + Turned /\ ~(y <= 0)
      BY <1>1, <1>3, <3>1, ExpiredIs
    <3>. QED  BY <3>2, TimesAre DEF BeatAhead, CheckAhead
  <2>. HIDE DEF x, y
  <2>2. NextExp = IF x <= y THEN x ELSE y
    BY <1>3, <2>1, MinOfTwo DEF NextExp, x, y
  <2>3. NextExp \in Int /\ NextExp >= 1
    BY <2>1, <2>2
  <2>4. wait' = IF nextKcp <= NextExp THEN nextKcp ELSE NextExp
    BY <1>1, <2>3, MinOfTwo
  <2>5. nextKcp <= Interval
    BY <1>1, <1>3 DEF HasTimers
  <2>. QED  BY <1>1, <2>3, <2>4, <2>5, Consts
<1>. QED  BY <1>2, <1>3

LEMMA TurnIs ==
  ASSUME TypeOK, TurnInv, tunnel # None
  PROVE  /\ TurnSoFar \in Nat /\ TurnSoFar <= TurnTime
         /\ TurnTime \in Nat /\ 2 * TurnTime <= HeartBeat
         /\ at = "poll" => TurnSoFar <= Interval
<1>1. at = "poll" => wait <= Interval
  BY DEF TurnInv
<1>. QED  BY <1>1, StateIs, Consts DEF TurnSoFar, TurnTime

-----------------------------------------------------------------------------
(* The timers while time passes.                                           *)

\* The timers d later; the process ran for r of it.
TimersAged(d, r) ==
  /\ beat' \in Beats
  /\ BeatAhead' = BeatAhead - d /\ CheckAhead' = CheckAhead - d /\ Turned' = Turned + d
  /\ beat'.asked = beat.asked /\ beat'.recv = beat.recv /\ beat'.over = beat.over
  /\ beat.asked \/ beat.recv > 0 => SentFor' = SentFor + d
  /\ Answered' <= Answered + d
  /\ ~beat'.wrapped => ~beat.wrapped /\ clock' = clock + d
  /\ beat'.sentAge <= beat.sentAge + r
  /\ beat'.silence <= beat.silence + d
  /\ beat'.silence = MaxAge \/ beat'.silence = beat.silence + d

LEMMA TimersAge ==
  ASSUME TypeOK, BeatInv, HasTimers, NEW d \in 1 .. ClockMod - 1, NEW ran \in BOOLEAN,
         Passes(d, ran), curClock' = curClock, Turned + d < ClockMod,
         TurnSoFar \in Nat, TurnTime \in Nat,
         NEW e \in Nat, Latest - d >= 1 - HeartBeat - e,
         2 * (HeartBeat + MaxWait + MaxWork + e) < ClockMod
  PROVE  TimersAged(d, IF ran THEN d ELSE 0)
<1>0. d \in Nat /\ d \in 0 .. ClockMod - 1 /\ clock \in Time /\ beat \in Beats /\ beat.sentAge \in Age
      /\ beat.silence \in Age /\ curClock \in Time /\ beat.recv \in Time /\ beat.sent \in Time
      /\ beat.beatAt \in Time /\ beat.checkAt \in Time /\ tunnel # None
      /\ role = "server" /\ beat.sentAge \in Nat /\ beat.silence \in Nat /\ Latest \in Int
  BY StateIs, BeatIs, Consts DEF HasTimers, Latest
<1>1. /\ clock' = After(clock, d) /\ clock' \in Time
      /\ clock' = IF clock + d < ClockMod THEN clock + d ELSE clock + d - ClockMod
  BY <1>0, AfterIs DEF Passes
<1>2. beat' = [beat EXCEPT !.sentAge = IF ran THEN Older(beat.sentAge, d) ELSE beat.sentAge,
                           !.silence = Older(beat.silence, d),
                           !.wrapped = beat.wrapped \/ clock' < clock]
  BY <1>0 DEF Passes
<1>3. /\ Older(beat.sentAge, d) \in Age /\ Older(beat.silence, d) \in Age
      /\ Older(beat.sentAge, d) \in Nat /\ Older(beat.sentAge, d) <= beat.sentAge + d
      /\ Older(beat.silence, d) \in Nat /\ Older(beat.silence, d) <= beat.silence + d
      /\ Older(beat.silence, d) = MaxAge \/ Older(beat.silence, d) = beat.silence + d
  <2>1. /\ Older(beat.sentAge, d) \in Age
        /\ Older(beat.sentAge, d) = IF beat.sentAge + d <= MaxAge THEN beat.sentAge + d ELSE MaxAge
    BY <1>0, OlderIs
  <2>2. /\ Older(beat.silence, d) \in Age
        /\ Older(beat.silence, d) = IF beat.silence + d <= MaxAge THEN beat.silence + d ELSE MaxAge
    BY <1>0, OlderIs
  <2>. QED  BY <1>0, <2>1, <2>2, Consts
<1>4. /\ beat' \in Beats /\ beat'.sent = beat.sent /\ beat'.recv = beat.recv /\ beat'.beatAt = beat.beatAt
      /\ beat'.checkAt = beat.checkAt /\ beat'.asked = beat.asked /\ beat'.over = beat.over
      /\ beat'.sentAge = IF ran THEN Older(beat.sentAge, d) ELSE beat.sentAge
      /\ beat'.silence = Older(beat.silence, d)
      /\ beat'.wrapped = (beat.wrapped \/ clock' < clock)
  <2>1. (beat.wrapped \/ clock' < clock) \in BOOLEAN
    BY <1>0 DEF Beats
  <2>2. (IF ran THEN Older(beat.sentAge, d) ELSE beat.sentAge) \in Age
    BY <1>0, <1>3
  <2>. QED  BY <1>0, <1>2, <1>3, <2>1, <2>2 DEF Beats
<1>5. /\ BeatAhead \in Int /\ CheckAhead \in Int /\ BeatAhead >= Latest /\ CheckAhead >= Latest
      /\ SentFor \in Nat /\ Answered \in Nat
      /\ beat.asked \/ beat.recv > 0 => SentFor + BeatAhead <= HeartBeat
  BY TimesAre, Consts DEF BeatInv
<1>6. 2 * (BeatAhead - d) >= - ClockMod /\ 2 * (CheckAhead - d) >= - ClockMod
  BY <1>0, <1>5, Consts
<1>7. BeatAhead' = BeatAhead - d /\ CheckAhead' = CheckAhead - d
  <2>1. Itimediff(beat.beatAt, After(clock, d)) = Itimediff(beat.beatAt, clock) - d
    BY <1>0, <1>6, Nearer DEF BeatAhead, Ahead
  <2>2. Itimediff(beat.checkAt, After(clock, d)) = Itimediff(beat.checkAt, clock) - d
    BY <1>0, <1>6, Nearer DEF CheckAhead, Ahead
  <2>. QED  BY <1>1, <1>4, <2>1, <2>2 DEF BeatAhead, CheckAhead, Ahead
<1>8. Turned' = Turned + d
  <2>1. (After(clock, d) - curClock) % ClockMod = ((clock - curClock) % ClockMod) + d
    BY <1>0, ElapsedMore DEF Turned
  <2>. QED  BY <1>1, <2>1 DEF Turned
<1>9. ASSUME beat.asked \/ beat.recv > 0
      PROVE  SentFor' = SentFor + d
  <2>1. SentFor + BeatAhead <= HeartBeat /\ BeatAhead - d >= 1 - HeartBeat - e
    BY <1>0, <1>5, <1>9, Consts
  <2>2. SentFor + d < ClockMod
    BY <1>0, <1>5, <2>1, Consts
  <2>3. (After(clock, d) - beat.sent) % ClockMod = ((clock - beat.sent) % ClockMod) + d
    BY <1>0, <2>2, ElapsedMore DEF SentFor
  <2>. QED  BY <1>1, <1>4, <2>3 DEF SentFor
<1>10. Answered' <= Answered + d
  <2>1. CASE Answered + d < ClockMod
    <3>0. (After(clock, d) - beat.recv) % ClockMod = ((clock - beat.recv) % ClockMod) + d
      BY <1>0, <2>1, ElapsedMore DEF Answered
    <3>1. Answered' = Answered + d
      BY <1>1, <1>4, <3>0 DEF Answered
    <3>. QED  BY <1>0, <1>5, <3>1
  <2>2. CASE ~(Answered + d < ClockMod)
    <3>1. Answered' \in 0 .. ClockMod - 1
      BY <1>0, <1>1, <1>4, Elapsed DEF Answered
    <3>. QED  BY <1>0, <1>5, <2>2, <3>1, Consts
  <2>. QED  BY <2>1, <2>2
<1>11. ~beat'.wrapped => ~beat.wrapped /\ clock' = clock + d
  <2>1. ASSUME ~(clock' < clock)
        PROVE  clock' = clock + d
    BY <1>0, <1>1, <2>1, Consts DEF Time
  <2>. QED  BY <1>4, <2>1
<1>12. beat'.sentAge <= beat.sentAge + IF ran THEN d ELSE 0
  BY <1>0, <1>3, <1>4
<1>. QED  BY <1>3, <1>4, <1>7, <1>8, <1>9, <1>10, <1>11, <1>12 DEF TimersAged

LEMMA SilenceAges ==
  ASSUME TypeOK, AnswerInv, HasTimers, HasTimers', NEW d \in Nat, NEW r \in Nat, TimersAged(d, r), clock' \in Nat
  PROVE  AnswerInv'
<1>0. beat.silence \in Nat /\ Answered \in Nat /\ clock \in Nat /\ beat.recv \in Nat
  BY BeatIs, StateIs, TimesAre, Consts DEF Time
<1>1. beat'.silence \in Age /\ beat'.silence \in Nat /\ beat.silence \in Age
  BY BeatIs, Consts DEF TimersAged, Beats, Age
<1>2. SUFFICES ASSUME beat.recv > 0
               PROVE  /\ beat'.silence = MaxAge \/ Answered' <= beat'.silence
                      /\ ~beat'.wrapped => beat'.silence <= clock' - beat'.recv
  BY DEF AnswerInv, TimersAged
<1>3. /\ beat.silence = MaxAge \/ Answered <= beat.silence
      /\ ~beat.wrapped => beat.silence <= clock - beat.recv
  BY <1>2 DEF AnswerInv
<1>4. /\ beat'.silence <= beat.silence + d /\ beat'.recv = beat.recv
      /\ beat'.silence = MaxAge \/ beat'.silence = beat.silence + d
      /\ ~beat'.wrapped => ~beat.wrapped /\ clock' = clock + d
      /\ Answered' <= Answered + d
  BY DEF TimersAged
<1>5. Answered' \in Int
  <2>1. Answered' = (clock' - beat'.recv) % ClockMod
    BY DEF Answered
  <2>. QED  BY <1>0, <1>4, <2>1, Consts
<1>6. beat'.silence = MaxAge \/ Answered' <= beat'.silence
  <2>1. CASE beat.silence = MaxAge
    BY <1>0, <1>1, <1>4, <2>1, Consts DEF Age
  <2>2. CASE Answered <= beat.silence
    BY <1>0, <1>1, <1>4, <1>5, <2>2
  <2>. QED  BY <1>3, <2>1, <2>2
<1>7. ~beat'.wrapped => beat'.silence <= clock' - beat'.recv
  BY <1>0, <1>1, <1>3, <1>4
<1>. QED  BY <1>6, <1>7

\* From turn to turn: what time that passes does besides.
TurnAged(d, r) ==
  \/ /\ d = 1 /\ r = 1 /\ TurnSoFar' = TurnSoFar + 1 /\ napped' = napped
     /\ at' = at
     /\ at # "poll" => worked' = worked + 1
  \/ /\ r = 0 /\ at = "poll" /\ at' # "poll" /\ TurnSoFar <= TurnSoFar' /\ worked' = 0
     /\ TurnSoFar' = Interval /\ Turned <= Interval /\ napped = 0 /\ napped' = d

LEMMA LaterStill ==
  ASSUME NEW t \in Nat, NEW a \in Nat, NEW b \in Nat, NEW m \in Nat, NEW n \in Nat, NEW d \in Nat,
         b + n >= a + m + d
  PROVE  1 - t - b - n \in Int /\ 1 - t - a - m \in Int /\ 1 - t - b - n <= (1 - t - a - m) - d
OBVIOUS

LEMMA NotBefore ==
  ASSUME NEW t \in Nat, NEW a \in Nat, NEW b \in Nat, NEW m \in Nat, NEW n \in Nat, NEW d \in Nat,
         NEW h \in Nat, b + n >= a + m + d, b <= t, 2 * t <= h
  PROVE  (1 - t - a - m) - d >= 1 - h - n
OBVIOUS

LEMMA BeatAges ==
  ASSUME TypeOK, TurnInv, BeatInv, HasTimers, NEW d \in Nat, NEW r \in Nat,
         TimersAged(d, r), TurnAged(d, r)
  PROVE  BeatInv'
<1>0. /\ TurnSoFar \in Nat /\ TurnTime \in Nat /\ worked \in Nat /\ napped \in Nat
      /\ BeatAhead \in Int /\ CheckAhead \in Int /\ Turned \in Nat /\ SentFor \in Nat
      /\ beat.sentAge \in Nat
  BY TurnIs, StateIs, BeatIs, TimesAre DEF HasTimers
<1>1. /\ at # "poll" => Turned <= Interval + worked + napped \/ Fresh
      /\ BeatAhead >= Latest /\ CheckAhead >= Latest
      /\ beat.sentAge + BeatAhead <= HeartBeat
      /\ CheckAhead <= ConnCheck
      /\ beat.sentAge <= HeartBeat - 1 + TurnSoFar
                         + IF BeatAhead + Turned <= 0 THEN TurnTime ELSE 0
      /\ beat.asked \/ beat.recv > 0 => SentFor + BeatAhead <= HeartBeat
  BY DEF BeatInv
<1>2. /\ BeatAhead' = BeatAhead - d /\ CheckAhead' = CheckAhead - d /\ Turned' = Turned + d
      /\ beat'.asked = beat.asked /\ beat'.recv = beat.recv
      /\ beat.asked \/ beat.recv > 0 => SentFor' = SentFor + d
      /\ beat'.sentAge <= beat.sentAge + r /\ beat'.sentAge \in Nat
  <2>1. beat'.sentAge \in Nat
    BY Consts DEF TimersAged, Beats, Age
  <2>. QED  BY <2>1 DEF TimersAged
<1>3. TurnTime' = TurnTime /\ r <= d /\ TurnSoFar' \in Nat /\ TurnSoFar' >= TurnSoFar + r
      /\ napped' \in Nat /\ TurnSoFar' + napped' >= TurnSoFar + napped + d
  BY <1>0, Consts DEF TurnAged, TurnTime
<1>4. (at # "poll")' => (Turned <= Interval + worked + napped \/ Fresh)'
  <2>1. CASE d = 1 /\ at' = at /\ at # "poll" /\ worked' = worked + 1 /\ napped' = napped
    <3>1. CASE Turned <= Interval + worked + napped
      BY <1>0, <1>2, <2>1, <3>1, Consts
    <3>2. CASE Fresh
      BY <1>0, <1>2, <2>1, <3>2, Consts DEF Fresh
    <3>. QED  BY <1>1, <2>1, <3>1, <3>2
  <2>2. CASE worked' = 0 /\ Turned <= Interval /\ napped' = d
    BY <1>0, <1>2, <2>2, Consts
  <2>. QED  BY <2>1, <2>2 DEF TurnAged
<1>5. (BeatAhead >= Latest)' /\ (CheckAhead >= Latest)'
  <2>1. Latest' = 1 - TurnTime - TurnSoFar' - napped' /\ Latest = 1 - TurnTime - TurnSoFar - napped
    BY <1>3 DEF Latest
  <2>2. Latest' \in Int /\ Latest \in Int /\ Latest' <= Latest - d
    BY <1>0, <1>3, <2>1, LaterStill
  <2>. QED  BY <1>0, <1>1, <1>2, <2>2
<1>6. beat'.sentAge + BeatAhead' <= HeartBeat /\ CheckAhead' <= ConnCheck
  BY <1>0, <1>1, <1>2, <1>3, Consts
<1>7. beat'.sentAge <= HeartBeat - 1 + TurnSoFar'
                       + IF BeatAhead' + Turned' <= 0 THEN TurnTime' ELSE 0
  <2>1. BeatAhead' + Turned' = BeatAhead + Turned
    BY <1>0, <1>2
  <2>. DEFINE m == IF BeatAhead + Turned <= 0 THEN TurnTime ELSE 0
  <2>2. m \in Nat /\ beat.sentAge <= HeartBeat - 1 + TurnSoFar + m
    BY <1>0, <1>1
  <2>3. m = IF BeatAhead' + Turned' <= 0 THEN TurnTime' ELSE 0
    BY <1>3, <2>1
  <2>. HIDE DEF m
  <2>4. beat'.sentAge <= HeartBeat - 1 + TurnSoFar' + m
    BY <1>0, <1>2, <1>3, <2>2, Consts
  <2>. QED  BY <2>3, <2>4
<1>8. beat'.asked \/ beat'.recv > 0 => SentFor' + BeatAhead' <= HeartBeat
  BY <1>0, <1>1, <1>2, Consts
<1>. QED  BY <1>4, <1>5, <1>6, <1>7, <1>8 DEF BeatInv

LEMMA CheckAges ==
  ASSUME TypeOK, TurnInv, SilenceInv, HasTimers, NEW d \in Nat, NEW r \in Nat, r <= d,
         TimersAged(d, r), TurnAged(d, r)
  PROVE  SilenceInv'
<1>0. /\ TurnSoFar \in Nat /\ TurnTime \in Nat /\ worked \in Nat /\ napped \in Nat
      /\ CheckAhead \in Int /\ Turned \in Nat /\ SentFor \in Nat /\ beat.silence \in Nat
  BY TurnIs, StateIs, BeatIs, TimesAre DEF HasTimers
<1>1. SUFFICES ASSUME beat.recv > 0, ~beat'.wrapped, ~beat.over
               PROVE  (NoneMissed \/ JustMissed \/ Recheck)'
  BY DEF SilenceInv, TimersAged
<1>2. /\ CheckAhead' = CheckAhead - d /\ Turned' = Turned + d /\ SentFor' = SentFor + d
      /\ beat'.silence <= beat.silence + d /\ beat'.silence \in Nat /\ ~beat.wrapped
  <2>1. beat'.silence \in Nat
    BY Consts DEF TimersAged, Beats, Age
  <2>. QED  BY <1>1, <2>1 DEF TimersAged
<1>3. CASE NoneMissed
  <2>1. beat'.silence + CheckAhead' <= ConnTimeout + ConnCheck
    BY <1>0, <1>2, <1>3, Consts DEF NoneMissed, ConnTimeout
  <2>. QED  BY <2>1 DEF NoneMissed, ConnTimeout
<1>4. CASE d = 1 /\ TurnSoFar' = TurnSoFar + 1 /\ napped' = napped /\ at' = at
           /\ (at # "poll" => worked' = worked + 1)
  <2>1. LongSilence' = LongSilence + 1 /\ LongSilence \in Int /\ TurnTime' = TurnTime
    BY <1>0, <1>4, Consts DEF LongSilence, ConnTimeout, TurnTime
  <2>2. CASE JustMissed
    <3>1. beat'.silence <= LongSilence' /\ CheckAhead' < 0 /\ napped' > 0 /\ at' # "poll"
      BY <1>0, <1>2, <1>4, <2>1, <2>2 DEF JustMissed
    <3>2. SentFor' > 2 * HeartBeat \/ SentFor' <= worked'
      BY <1>0, <1>2, <1>4, <2>2, Consts DEF JustMissed
    <3>. QED  BY <3>1, <3>2 DEF JustMissed
  <2>3. CASE Recheck
    <3>1. beat'.silence <= LongSilence' + TurnTime' /\ CheckAhead' + Turned' <= 0 /\ napped' > 0
      BY <1>0, <1>2, <1>4, <2>1, <2>3 DEF Recheck
    <3>2. SentFor' > 2 * HeartBeat + Turned' \/ SentFor' <= MaxWork + TurnSoFar'
      BY <1>0, <1>2, <1>4, <2>3, Consts DEF Recheck
    <3>. QED  BY <3>1, <3>2 DEF Recheck
  <2>4. NoneMissed \/ JustMissed \/ Recheck
    BY <1>1, <1>2 DEF SilenceInv
  <2>. QED  BY <1>3, <2>2, <2>3, <2>4
<1>5. CASE napped = 0
  <2>1. NoneMissed
    BY <1>1, <1>2, <1>5 DEF SilenceInv, JustMissed, Recheck
  <2>. QED  BY <1>3, <2>1
<1>. QED  BY <1>4, <1>5 DEF TurnAged

\* The clock of the loop, for the steps of time.
LEMMA ClockAges ==
  ASSUME TypeOK, TurnInv, ClockInv, role = "server", NEW d \in 1 .. ClockMod - 1, clock' = After(clock, d),
         UNCHANGED <<role, curClock>>, tunnel = None => tunnel' = None,
         \/ d = 1 /\ at = "poll" /\ at' = "poll" /\ wait > 0 /\ wait' = wait - 1 /\ napped' = napped
         \/ d = 1 /\ at # "poll" /\ at' = at /\ worked' = worked + 1 /\ napped' = napped
         \/ at = "poll" /\ at' = "handling" /\ worked' = worked /\ napped' = d /\ d \in Naps["server"]
  PROVE  ClockInv' /\ Turned + d < ClockMod /\ Turned' = Turned + d /\ napped' \in Naps["server"] \cup {0}
<1>0. /\ clock \in Time /\ curClock \in Time /\ wait \in Nat /\ worked \in Nat /\ worked <= MaxWork /\ Turned \in Nat
      /\ d \in Nat /\ d \in 0 .. ClockMod - 1
  BY StateIs, TimesAre, Consts
<1>1. /\ at = "poll" => Turned + wait <= MaxWait /\ (tunnel # None => Turned + wait <= Interval)
      /\ at # "poll" => 2 * (HeartBeat + MaxWork + Turned - worked) < ClockMod
      /\ napped \in Naps["server"] \cup {0}
  BY <1>0, Consts DEF ClockInv
<1>2. ASSUME Turned + d < ClockMod
      PROVE  Turned' = Turned + d
  <2>1. (After(clock, d) - curClock) % ClockMod = ((clock - curClock) % ClockMod) + d
    BY <1>0, <1>2, ElapsedMore DEF Turned
  <2>. QED  BY <2>1 DEF Turned
<1>3. CASE d = 1 /\ at = "poll" /\ at' = "poll" /\ wait > 0 /\ wait' = wait - 1 /\ napped' = napped
  <2>1. Turned + d < ClockMod
    BY <1>0, <1>1, <1>3, Consts
  <2>2. Turned' + wait' = Turned + wait
    BY <1>0, <1>2, <1>3, <2>1
  <2>. QED  BY <1>1, <1>2, <1>3, <2>1, <2>2 DEF ClockInv
<1>4. CASE d = 1 /\ at # "poll" /\ at' = at /\ worked' = worked + 1 /\ napped' = napped
  <2>1. Turned + d < ClockMod
    BY <1>0, <1>1, <1>4, Consts
  <2>2. 2 * (HeartBeat + MaxWork + Turned' - worked') < ClockMod
    BY <1>0, <1>1, <1>2, <1>4, <2>1, Consts
  <2>. QED  BY <1>1, <1>2, <1>4, <2>1, <2>2 DEF ClockInv
<1>5. CASE at = "poll" /\ at' = "handling" /\ worked' = worked /\ napped' = d /\ d \in Naps["server"]
  <2>1. 2 * (HeartBeat + MaxWait + MaxWork + d) < ClockMod
    BY <1>5, NapIs
  <2>2. Turned + d < ClockMod
    BY <1>0, <1>1, <1>5, <2>1, Consts
  <2>3. 2 * (HeartBeat + MaxWork + Turned' - worked') < ClockMod
    BY <1>0, <1>1, <1>2, <1>5, <2>1, <2>2, Consts
  <2>. QED  BY <1>2, <1>5, <2>2, <2>3 DEF ClockInv
<1>. QED  BY <1>3, <1>4, <1>5

\* A step of time: the wait, the work, or a stop.
TimeStep(d, ran) ==
  \/ d = 1 /\ ran /\ at = "poll" /\ at' = "poll" /\ wait > 0 /\ wait' = wait - 1 /\ worked' = worked
     /\ napped' = napped
  \/ d = 1 /\ ran /\ at # "poll" /\ at' = at /\ wait' = wait /\ worked < MaxWork /\ worked' = worked + 1
     /\ napped' = napped
  \/ ~ran /\ at = "poll" /\ at' = "handling" /\ wait' = 0 /\ worked' = worked
     /\ napped = 0 /\ napped' = d /\ d \in Naps[role]

LEMMA TimersPass ==
  ASSUME TypeOK, TurnInv, TimerInv, NEW d \in 1 .. ClockMod - 1, NEW ran \in BOOLEAN,
         Passes(d, ran), UNCHANGED <<role, curClock>>, TimeStep(d, ran)
  PROVE  TimerInv' /\ beat' \in Beats
<1>0. /\ clock' = After(clock, d) /\ role' = role /\ curClock' = curClock
      /\ tunnel = None => tunnel' = None
      /\ d \in Nat /\ worked \in Nat /\ wait \in Nat /\ napped \in Nat /\ beat \in Beats
  BY StateIs, BeatIs, Consts DEF Passes
<1>1. ASSUME role = "server"
      PROVE  /\ ClockInv' /\ Turned + d < ClockMod /\ Turned' = Turned + d
             /\ napped' \in Naps["server"] \cup {0}
  <2>1. ClockInv
    BY DEF TimerInv
  <2>2. \/ d = 1 /\ at = "poll" /\ at' = "poll" /\ wait > 0 /\ wait' = wait - 1 /\ napped' = napped
        \/ d = 1 /\ at # "poll" /\ at' = at /\ worked' = worked + 1 /\ napped' = napped
        \/ at = "poll" /\ at' = "handling" /\ worked' = worked /\ napped' = d /\ d \in Naps["server"]
    BY <1>1 DEF TimeStep
  <2>. QED  BY <1>0, <1>1, <2>1, <2>2, ClockAges
<1>2. CASE ~HasTimers
  <2>1. ~HasTimers' /\ beat' = beat /\ (role # "server" => role' # "server")
    BY <1>0, <1>2, StateIs DEF HasTimers, Passes
  <2>2. ClockInv'
    BY <1>1, <2>1 DEF ClockInv
  <2>. QED  BY <1>0, <2>1, <2>2 DEF TimerInv, BeatInv, AnswerInv, SilenceInv
<1>3. CASE HasTimers
  <2>1. role = "server" /\ tunnel # None
    BY <1>3 DEF HasTimers
  <2>2. /\ ClockInv' /\ Turned + d < ClockMod /\ Turned' = Turned + d
        /\ napped' \in Naps["server"] \cup {0}
    BY <1>1, <2>1
  <2>3. napped' \in Nat /\ 2 * (HeartBeat + MaxWait + MaxWork + napped') < ClockMod
    BY <2>2, NapIs
  <2>4. /\ TurnSoFar \in Nat /\ TurnTime \in Nat /\ 2 * TurnTime <= HeartBeat
        /\ at = "poll" => TurnSoFar <= Interval
    BY <2>1, TurnIs
  <2>. DEFINE r == IF ran THEN d ELSE 0
  <2>5. TurnAged(d, r) /\ TurnSoFar' \in Nat /\ TurnSoFar' <= TurnTime
        /\ TurnSoFar' + napped' >= TurnSoFar + napped + d
    <3>1. CASE d = 1 /\ ran /\ at = "poll" /\ at' = "poll" /\ wait' = wait - 1 /\ worked' = worked /\ napped' = napped
      <4>1. TurnSoFar' = TurnSoFar + 1 /\ TurnSoFar' <= TurnTime
        <5>1. wait > 0
          BY <1>0, <3>1, Consts DEF TimeStep
        <5>. QED  BY <1>0, <3>1, <5>1, Consts DEF TurnSoFar, TurnTime
      <4>. QED  BY <1>0, <2>4, <3>1, <4>1 DEF TurnAged
    <3>2. CASE d = 1 /\ ran /\ at # "poll" /\ at' = at /\ worked < MaxWork /\ worked' = worked + 1 /\ napped' = napped
      <4>1. TurnSoFar' = TurnSoFar + 1 /\ TurnSoFar' <= TurnTime
        BY <1>0, <3>2, Consts DEF TurnSoFar, TurnTime
      <4>. QED  BY <1>0, <2>4, <3>2, <4>1 DEF TurnAged
    <3>3. CASE ~ran /\ at = "poll" /\ at' = "handling" /\ worked' = worked /\ napped = 0 /\ napped' = d
      <4>1. worked = 0 /\ Turned <= Interval
        <5>1. worked = 0 /\ Turned + wait <= Interval
          BY <2>1, <3>3 DEF TurnInv, TimerInv, ClockInv
        <5>. QED  BY <1>0, <5>1, TimesAre, Consts
      <4>2. TurnSoFar' = Interval /\ TurnSoFar' <= TurnTime /\ TurnSoFar' \in Nat
        BY <3>3, <4>1, Consts DEF TurnSoFar, TurnTime
      <4>. QED  BY <1>0, <2>4, <3>3, <4>1, <4>2 DEF TurnAged
    <3>. QED  BY <3>1, <3>2, <3>3 DEF TimeStep
  <2>. HIDE DEF r
  <2>6. Latest - d >= 1 - HeartBeat - napped'
    <3>1. Latest = 1 - TurnTime - TurnSoFar - napped
      BY DEF Latest
    <3>2. (1 - TurnTime - TurnSoFar - napped) - d >= 1 - HeartBeat - napped'
      BY <1>0, <2>3, <2>4, <2>5, Consts, NotBefore
    <3>. QED  BY <3>1, <3>2
  <2>7. BeatInv /\ AnswerInv /\ SilenceInv
    BY DEF TimerInv
  <2>8. TimersAged(d, r)
    BY <1>0, <1>3, <2>2, <2>3, <2>4, <2>6, <2>7, TimersAge DEF r
  <2>9. r \in Nat /\ r <= d /\ clock' \in Nat
    <3>1. d \in 0 .. ClockMod - 1 /\ clock \in Time
      BY StateIs, Consts
    <3>2. clock' \in Time
      BY <1>0, <3>1, AfterIs
    <3>. QED  BY <1>0, <3>2, Consts DEF r, Time
  <2>10. BeatInv'
    BY <1>3, <1>0, <2>5, <2>7, <2>8, <2>9, BeatAges
  <2>11. AnswerInv'
    <3>1. CASE HasTimers'
      BY <1>3, <1>0, <2>7, <2>8, <2>9, <3>1, SilenceAges
    <3>2. CASE ~HasTimers'
      BY <3>2 DEF AnswerInv
    <3>. QED  BY <3>1, <3>2
  <2>12. SilenceInv'
    BY <1>3, <1>0, <2>5, <2>7, <2>8, <2>9, CheckAges
  <2>13. beat' \in Beats
    BY <2>8 DEF TimersAged
  <2>. QED  BY <2>2, <2>10, <2>11, <2>12, <2>13 DEF TimerInv
<1>. QED  BY <1>2, <1>3

-----------------------------------------------------------------------------
(* The timers in the other steps.                                          *)

\* The numbers that the timers are about do not change unless what they are
\* taken from does.
LEMMA SameClock ==
  ASSUME UNCHANGED <<clock, curClock>>
  PROVE  Turned' = Turned
BY DEF Turned

LEMMA SameTimes ==
  ASSUME UNCHANGED <<clock, beat>>
  PROVE  BeatAhead' = BeatAhead /\ CheckAhead' = CheckAhead /\ SentFor' = SentFor /\ Answered' = Answered
BY DEF BeatAhead, CheckAhead, SentFor, Answered, Ahead

\* Nothing happens to a timer, but perhaps to the tunnel.
LEMMA TimersRest ==
  ASSUME TypeOK, TimerInv, UNCHANGED <<clock, role, curClock, wait, worked, beat, napped>>,
         (at' = "poll") <=> (at = "poll"), tunnel = None => tunnel' = None
  PROVE  TimerInv' /\ beat' \in Beats
<1>1. /\ Turned' = Turned /\ BeatAhead' = BeatAhead /\ CheckAhead' = CheckAhead
      /\ SentFor' = SentFor /\ Answered' = Answered /\ TurnSoFar' = TurnSoFar /\ TurnTime' = TurnTime
      /\ HasTimers' => HasTimers
  BY SameClock, SameTimes DEF TurnSoFar, HasTimers, TurnTime
<1>2. Latest' = Latest /\ LongSilence' = LongSilence /\ Fresh' = Fresh
  BY <1>1 DEF Latest, LongSilence, Fresh, ConnTimeout
<1>3. ClockInv'
  <2>1. ClockInv
    BY DEF TimerInv
  <2>2. CASE tunnel' = None /\ at = "poll" /\ role = "server"
    <3>1. Turned + wait <= MaxWait
      BY <2>1, <2>2, StateIs, TimesAre, Consts DEF ClockInv
    <3>. QED  BY <1>1, <2>1, <2>2, <3>1 DEF ClockInv
  <2>. QED  BY <1>1, <2>1, <2>2 DEF ClockInv
<1>4. BeatInv'
  BY <1>1, <1>2 DEF TimerInv, BeatInv
<1>5. AnswerInv'
  BY <1>1 DEF TimerInv, AnswerInv
<1>6. SilenceInv'
  BY <1>1, <1>2 DEF TimerInv, SilenceInv, NoneMissed, JustMissed, Recheck, ConnTimeout
<1>. QED  BY <1>3, <1>4, <1>5, <1>6, BeatIs DEF TimerInv

LEMMA NewTypes ==
  /\ NoBeat \in Beats
  /\ \A t \in Time : NewBeat(t) \in Beats
<1>1. 0 \in Time /\ 0 \in Age /\ HeartBeat \in 0 .. ClockMod - 1 /\ ConnCheck \in 0 .. ClockMod - 1
  BY Consts DEF Time, Age
<1>2. ASSUME NEW t \in Time
      PROVE  NewBeat(t) \in Beats
  <2>1. After(t, HeartBeat) \in Time /\ After(t, ConnCheck) \in Time
    BY <1>1, AfterIs
  <2>. QED  BY <1>1, <2>1 DEF NewBeat, Beats
<1>. QED  BY <1>1, <1>2 DEF NoBeat, Beats

\* Without a session there are no timers.
LEMMA NoTimers ==
  ASSUME TypeOK, TimerInv, UNCHANGED <<clock, role, curClock, wait, worked>>, at' = at,
         tunnel' = None, beat' = NoBeat, napped' = 0
  PROVE  TimerInv' /\ beat' \in Beats
<1>1. Turned' = Turned /\ ~HasTimers'
  BY SameClock DEF HasTimers
<1>2. ClockInv'
  <2>1. ClockInv
    BY DEF TimerInv
  <2>2. at = "poll" /\ role = "server" => Turned + wait <= MaxWait
    BY <2>1, StateIs, TimesAre, Consts DEF ClockInv
  <2>. QED  BY <1>1, <2>1, <2>2 DEF ClockInv
<1>. QED  BY <1>1, <1>2, NewTypes DEF TimerInv, BeatInv, AnswerInv, SilenceInv

LEMMA TimersPoll ==
  ASSUME TypeOK, TurnInv, TimerInv, PollReturns
  PROVE  TimerInv' /\ beat' \in Beats
<1>0. /\ at = "poll" /\ at' = "handling" /\ wait' = 0 /\ worked' = worked /\ worked = 0
      /\ UNCHANGED <<clock, role, curClock, tunnel, beat, napped>>
      /\ wait \in Nat /\ Turned \in Nat
  BY StateIs, TimesAre, Consts DEF PollReturns, TurnInv
<1>1. /\ Turned' = Turned /\ BeatAhead' = BeatAhead /\ CheckAhead' = CheckAhead
      /\ SentFor' = SentFor /\ Answered' = Answered /\ TurnTime' = TurnTime /\ HasTimers' = HasTimers
  BY <1>0, SameClock, SameTimes DEF HasTimers, TurnTime
<1>2. ClockInv'
  <2>1. ASSUME role = "server"
        PROVE  2 * (HeartBeat + MaxWork + Turned - 0) < ClockMod /\ napped \in Naps["server"] \cup {0}
    <3>1. Turned + wait <= MaxWait /\ napped \in Naps["server"] \cup {0}
      BY <1>0, <2>1, Consts DEF TimerInv, ClockInv
    <3>. QED  BY <1>0, <3>1, Consts
  <2>. QED  BY <1>0, <1>1, <2>1 DEF ClockInv
<1>3. CASE ~HasTimers
  BY <1>0, <1>1, <1>2, <1>3, BeatIs DEF TimerInv, BeatInv, AnswerInv, SilenceInv
<1>4. CASE HasTimers
  <2>1. /\ TurnSoFar = Interval - wait /\ TurnSoFar' = Interval /\ TurnSoFar \in Nat /\ TurnTime \in Nat
        /\ role = "server" /\ tunnel # None /\ napped \in Nat /\ BeatAhead \in Int /\ CheckAhead \in Int
        /\ beat.sentAge \in Nat /\ beat.silence \in Nat /\ SentFor \in Nat
    BY <1>0, <1>4, TurnIs, StateIs, BeatIs, TimesAre, Consts DEF TurnSoFar, HasTimers
  <2>2. Turned <= Interval
    <3>1. Turned + wait <= Interval
      BY <1>0, <2>1 DEF TimerInv, ClockInv
    <3>. QED  BY <1>0, <3>1, Consts
  <2>3. Latest' \in Int /\ Latest \in Int /\ Latest' <= Latest
    <3>1. Latest = 1 - TurnTime - TurnSoFar - napped /\ Latest' = 1 - TurnTime - Interval - napped
      BY <1>0, <1>1, <2>1 DEF Latest
    <3>2. Interval \in Nat /\ 0 \in Nat /\ Interval + napped >= TurnSoFar + napped + 0
      BY <1>0, <2>1, Consts
    <3>3. /\ 1 - TurnTime - Interval - napped \in Int /\ 1 - TurnTime - TurnSoFar - napped \in Int
          /\ 1 - TurnTime - Interval - napped <= (1 - TurnTime - TurnSoFar - napped) - 0
      BY <2>1, <3>2, LaterStill
    <3>. QED  BY <3>1, <3>3
  <2>4. BeatInv'
    <3>1. Turned <= Interval + worked + napped
      BY <1>0, <2>1, <2>2, Consts
    <3>2. BeatAhead >= Latest' /\ CheckAhead >= Latest'
      BY <1>4, <2>1, <2>3 DEF TimerInv, BeatInv
    <3>3. beat.sentAge <= HeartBeat - 1 + TurnSoFar' + IF BeatAhead + Turned <= 0 THEN TurnTime ELSE 0
      <4>. DEFINE m == IF BeatAhead + Turned <= 0 THEN TurnTime ELSE 0
      <4>1. m \in Nat /\ beat.sentAge <= HeartBeat - 1 + TurnSoFar + m
        BY <1>4, <2>1 DEF TimerInv, BeatInv
      <4>. HIDE DEF m
      <4>2. beat.sentAge <= HeartBeat - 1 + TurnSoFar' + m
        BY <1>0, <2>1, <4>1, Consts
      <4>. QED  BY <4>2 DEF m
    <3>4. /\ beat.sentAge + BeatAhead <= HeartBeat /\ CheckAhead <= ConnCheck
          /\ beat.asked \/ beat.recv > 0 => SentFor + BeatAhead <= HeartBeat
      BY <1>4 DEF TimerInv, BeatInv
    <3>. QED  BY <1>0, <1>1, <3>1, <3>2, <3>3, <3>4 DEF BeatInv
  <2>5. AnswerInv'
    BY <1>0, <1>1 DEF TimerInv, AnswerInv
  <2>6. SilenceInv'
    <3>1. SUFFICES ASSUME beat.recv > 0, ~beat.wrapped, ~beat.over
                   PROVE  (NoneMissed \/ JustMissed \/ Recheck)'
      BY <1>0 DEF SilenceInv
    <3>2. NoneMissed \/ Recheck
      BY <1>0, <1>4, <3>1 DEF TimerInv, SilenceInv, JustMissed
    <3>3. NoneMissed => NoneMissed'
      BY <1>0, <1>1 DEF NoneMissed, ConnTimeout
    <3>4. ASSUME Recheck
          PROVE  Recheck'
      <4>1. napped > 0 /\ beat.silence <= LongSilence + TurnTime /\ CheckAhead + Turned <= 0
            /\ (SentFor > 2 * HeartBeat + Turned \/ SentFor <= MaxWork + TurnSoFar)
        BY <3>4 DEF Recheck
      <4>2. beat.silence <= LongSilence' + TurnTime
        <5>1. LongSilence = ConnTimeout + ConnCheck - 1 + TurnTime + napped + TurnSoFar
              /\ LongSilence' = ConnTimeout + ConnCheck - 1 + TurnTime + napped + Interval
              /\ ConnTimeout \in Int /\ ConnCheck \in Int
          BY <1>0, <2>1, Consts DEF LongSilence, ConnTimeout, TurnTime
        <5>. QED  BY <1>0, <2>1, <4>1, <5>1, Consts
      <4>3. SentFor > 2 * HeartBeat + Turned \/ SentFor <= MaxWork + TurnSoFar'
        BY <1>0, <2>1, <4>1, Consts
      <4>. QED  BY <1>0, <1>1, <4>1, <4>2, <4>3 DEF Recheck
    <3>. QED  BY <3>2, <3>3, <3>4
  <2>. QED  BY <1>0, <1>2, <2>4, <2>5, <2>6, BeatIs DEF TimerInv
<1>. QED  BY <1>3, <1>4

LEMMA NotNegative ==
  ASSUME NEW h \in Nat, h > 0, NEW a \in Nat, NEW b \in Nat
  PROVE  0 <= h - 1 + a + b
OBVIOUS

LEMMA TimersStart ==
  ASSUME TypeOK, TurnInv, TimerInv, NewSession
  PROVE  TimerInv' /\ beat' \in Beats
<1>0. /\ at = "handling" /\ UNCHANGED <<clock, role, at, curClock, wait, worked>> /\ tunnel = None
      /\ napped' = 0 /\ beat' = IF role = "server" THEN NewBeat(clock) ELSE NoBeat
      /\ clock \in Time /\ worked \in Nat /\ worked <= MaxWork
  BY StateIs, Consts DEF NewSession, Handles
<1>1. Turned' = Turned
  BY <1>0, SameClock
<1>2. ClockInv'
  BY <1>0, <1>1 DEF TimerInv, ClockInv
<1>3. CASE role # "server"
  BY <1>0, <1>2, <1>3, NewTypes DEF TimerInv, BeatInv, AnswerInv, SilenceInv, HasTimers
<1>4. CASE role = "server"
  <2>1. /\ beat'.recv = 0 /\ beat'.sentAge = 0 /\ ~beat'.asked /\ beat' \in Beats
        /\ beat'.beatAt = After(clock, HeartBeat) /\ beat'.checkAt = After(clock, ConnCheck)
    BY <1>0, <1>4, NewTypes DEF NewBeat
  <2>2. HeartBeat \in 0 .. ClockMod - 1 /\ ConnCheck \in 0 .. ClockMod - 1
        /\ 2 * HeartBeat < ClockMod /\ 2 * ConnCheck < ClockMod
    BY Consts
  <2>3. BeatAhead' = HeartBeat /\ CheckAhead' = ConnCheck
    <3>1. Itimediff(After(clock, HeartBeat), clock) = HeartBeat
          /\ Itimediff(After(clock, ConnCheck), clock) = ConnCheck
      BY <1>0, <2>2, FromNow
    <3>. QED  BY <1>0, <2>1, <3>1 DEF BeatAhead, CheckAhead, Ahead
  <2>4. /\ TurnSoFar' \in Nat /\ TurnTime' \in Nat /\ napped' \in Nat /\ Latest' <= 0 /\ Latest' \in Int
        /\ TurnTime' = TurnTime
    <3>1. TurnSoFar' = Interval + worked /\ TurnTime' = Interval + MaxWork /\ TurnTime = Interval + MaxWork
          /\ Latest' = 1 - (Interval + MaxWork) - (Interval + worked) - 0
      BY <1>0 DEF TurnSoFar, TurnTime, Latest
    <3>. QED  BY <1>0, <3>1, Consts
  <2>5. Fresh'
    BY <1>0, <2>3, Consts DEF Fresh
  <2>6. BeatAhead' >= Latest' /\ CheckAhead' >= Latest' /\ CheckAhead' <= ConnCheck
        /\ beat'.sentAge + BeatAhead' <= HeartBeat
    BY <2>1, <2>3, <2>4, Consts
  <2>7. beat'.sentAge <= HeartBeat - 1 + TurnSoFar' + IF BeatAhead' + Turned' <= 0 THEN TurnTime' ELSE 0
    <3>. DEFINE m == IF BeatAhead' + Turned' <= 0 THEN TurnTime' ELSE 0
    <3>1. m \in Nat
      BY <2>4
    <3>. HIDE DEF m
    <3>2. beat'.sentAge <= HeartBeat - 1 + TurnSoFar' + m
      <4>1. HeartBeat \in Nat /\ HeartBeat > 0 /\ TurnSoFar' \in Nat
        BY <2>4, Consts
      <4>2. 0 <= HeartBeat - 1 + TurnSoFar' + m
        BY <3>1, <4>1, NotNegative
      <4>. QED  BY <2>1, <4>2
    <3>. QED  BY <3>2 DEF m
  <2>8. ~(beat'.asked \/ beat'.recv > 0)
    BY <2>1
  <2>9. BeatInv'
    BY <2>5, <2>6, <2>7, <2>8 DEF BeatInv
  <2>10. AnswerInv' /\ SilenceInv'
    BY <2>8 DEF AnswerInv, SilenceInv
  <2>. QED  BY <1>2, <2>1, <2>9, <2>10 DEF TimerInv
<1>. QED  BY <1>3, <1>4

LEMMA TimersAnswered ==
  ASSUME TypeOK, TimerInv, AnswerArrives
  PROVE  TimerInv' /\ beat' \in Beats
<1>0. /\ at = "handling" /\ UNCHANGED <<clock, role, at, curClock, wait, worked, tunnel, napped>> /\ beat.asked
      /\ beat' = [beat EXCEPT !.recv = clock, !.asked = FALSE, !.silence = 0, !.wrapped = FALSE]
      /\ clock \in Time /\ clock \in Nat /\ beat \in Beats /\ 0 \in Age
  BY StateIs, BeatIs, Consts DEF AnswerArrives, Handles, Time, Age
<1>1. /\ beat' \in Beats /\ beat'.recv = clock /\ ~beat'.asked /\ beat'.silence = 0 /\ ~beat'.wrapped
      /\ beat'.sent = beat.sent /\ beat'.beatAt = beat.beatAt /\ beat'.checkAt = beat.checkAt
      /\ beat'.sentAge = beat.sentAge /\ beat'.over = beat.over
  BY <1>0 DEF Beats
<1>2. /\ Turned' = Turned /\ BeatAhead' = BeatAhead /\ CheckAhead' = CheckAhead /\ SentFor' = SentFor
      /\ TurnSoFar' = TurnSoFar /\ TurnTime' = TurnTime /\ HasTimers' = HasTimers
      /\ Latest' = Latest /\ Fresh' = Fresh /\ Answered' = 0
  <2>1. (clock - clock) % ClockMod = 0
    BY <1>0, JustNow
  <2>2. BeatAhead' = BeatAhead /\ CheckAhead' = CheckAhead /\ SentFor' = SentFor
    BY <1>0, <1>1 DEF BeatAhead, CheckAhead, SentFor, Ahead
  <2>3. Answered' = 0
    BY <1>0, <1>1, <2>1 DEF Answered
  <2>4. TurnSoFar' = TurnSoFar /\ TurnTime' = TurnTime /\ HasTimers' = HasTimers /\ Turned' = Turned
    BY <1>0, SameClock DEF TurnSoFar, TurnTime, HasTimers
  <2>. QED  BY <1>0, <2>2, <2>3, <2>4 DEF Latest, Fresh
<1>3. ClockInv'
  BY <1>0, <1>2 DEF TimerInv, ClockInv
<1>4. BeatInv'
  BY <1>0, <1>1, <1>2 DEF TimerInv, BeatInv
<1>5. AnswerInv'
  BY <1>0, <1>1, <1>2 DEF AnswerInv
<1>6. HasTimers' => NoneMissed'
  <2>1. HasTimers => CheckAhead \in Int /\ CheckAhead <= ConnCheck
    BY TimesAre DEF TimerInv, BeatInv
  <2>2. HasTimers => 0 + CheckAhead <= ConnTimeout + ConnCheck
    BY <2>1, Consts DEF ConnTimeout
  <2>. QED  BY <1>1, <1>2, <2>2 DEF NoneMissed, ConnTimeout
<1>7. SilenceInv'
  BY <1>6 DEF SilenceInv
<1>. QED  BY <1>1, <1>3, <1>4, <1>5, <1>7 DEF TimerInv

LEMMA TimersBeat ==
  ASSUME TypeOK, TurnInv, TimerInv, BeatTimeout
  PROVE  TimerInv' /\ beat' \in Beats
<1>0. /\ at = "timers" /\ UNCHANGED <<clock, role, at, curClock, wait, worked, tunnel, napped>> /\ HasTimers
      /\ beat' = [beat EXCEPT !.sent = clock, !.asked = TRUE, !.sentAge = 0,
                              !.beatAt = After(beat.beatAt, HeartBeat)]
      /\ clock \in Time /\ beat \in Beats /\ beat.beatAt \in Time /\ 0 \in Age
      /\ worked \in Nat /\ tunnel # None /\ beat.recv \in Nat
  BY StateIs, BeatIs, Consts DEF BeatTimeout, Age, HasTimers
<1>1. BeatAhead \in Int /\ BeatAhead <= 0 /\ Turned \in Nat /\ CheckAhead \in Int
  <2>1. Ahead(beat.beatAt) + Turned <= 0
    BY <1>0, ExpiredIs DEF TimerInv, BeatTimeout
  <2>2. BeatAhead + Turned <= 0
    BY <2>1 DEF BeatAhead
  <2>. QED  BY <2>2, TimesAre, Consts
<1>2. HeartBeat \in 0 .. ClockMod - 1 /\ 2 * (BeatAhead + HeartBeat) < ClockMod
  BY <1>1, Consts
<1>3. After(beat.beatAt, HeartBeat) \in Time
      /\ Itimediff(After(beat.beatAt, HeartBeat), clock) = Itimediff(beat.beatAt, clock) + HeartBeat
  BY <1>0, <1>2, AfterIs, Further DEF BeatAhead, Ahead
<1>4. /\ beat' \in Beats /\ beat'.recv = beat.recv /\ beat'.asked /\ beat'.silence = beat.silence
      /\ beat'.wrapped = beat.wrapped /\ beat'.over = beat.over /\ beat'.sent = clock
      /\ beat'.beatAt = After(beat.beatAt, HeartBeat) /\ beat'.checkAt = beat.checkAt /\ beat'.sentAge = 0
  BY <1>0, <1>3 DEF Beats
<1>5. /\ Turned' = Turned /\ BeatAhead' = BeatAhead + HeartBeat /\ CheckAhead' = CheckAhead /\ SentFor' = 0
      /\ TurnSoFar' = TurnSoFar /\ TurnTime' = TurnTime /\ HasTimers' = HasTimers
      /\ Latest' = Latest /\ Answered' = Answered /\ LongSilence' = LongSilence
  <2>1. (clock - clock) % ClockMod = 0
    BY <1>0, JustNow
  <2>2. BeatAhead' = BeatAhead + HeartBeat /\ CheckAhead' = CheckAhead /\ Answered' = Answered
    BY <1>0, <1>3, <1>4 DEF BeatAhead, CheckAhead, Answered, Ahead
  <2>3. SentFor' = 0
    BY <1>0, <1>4, <2>1 DEF SentFor
  <2>4. TurnSoFar' = TurnSoFar /\ TurnTime' = TurnTime /\ HasTimers' = HasTimers /\ Turned' = Turned
    BY <1>0, SameClock DEF TurnSoFar, TurnTime, HasTimers
  <2>. QED  BY <1>0, <2>2, <2>3, <2>4 DEF Latest, LongSilence, ConnTimeout
<1>6. ClockInv'
  BY <1>0, <1>5 DEF TimerInv, ClockInv
<1>7. TurnSoFar \in Nat /\ TurnTime \in Nat /\ napped \in Nat /\ Latest \in Int
  <2>1. TurnSoFar \in Nat /\ TurnTime \in Nat /\ napped \in Nat
    BY <1>0, TurnIs, StateIs
  <2>. QED  BY <2>1 DEF Latest
<1>8. BeatInv'
  <2>1. (Turned <= Interval + worked + napped \/ Fresh)'
    <3>1. Turned <= Interval + worked + napped \/ Fresh
      BY <1>0 DEF TimerInv, BeatInv
    <3>2. ASSUME Fresh PROVE Fresh'
      BY <1>0, <1>1, <1>5, <3>2, Consts DEF Fresh
    <3>. QED  BY <1>0, <1>5, <3>1, <3>2
  <2>2. BeatAhead >= Latest /\ CheckAhead >= Latest /\ CheckAhead <= ConnCheck
    BY <1>0 DEF TimerInv, BeatInv
  <2>3. BeatAhead' >= Latest' /\ CheckAhead' >= Latest' /\ CheckAhead' <= ConnCheck
        /\ beat'.sentAge + BeatAhead' <= HeartBeat /\ SentFor' + BeatAhead' <= HeartBeat
    BY <1>1, <1>4, <1>5, <1>7, <2>2, Consts
  <2>4. beat'.sentAge <= HeartBeat - 1 + TurnSoFar' + IF BeatAhead' + Turned' <= 0 THEN TurnTime' ELSE 0
    <3>. DEFINE m == IF BeatAhead' + Turned' <= 0 THEN TurnTime' ELSE 0
    <3>1. m \in Nat
      BY <1>5, <1>7
    <3>. HIDE DEF m
    <3>2. beat'.sentAge <= HeartBeat - 1 + TurnSoFar' + m
      BY <1>4, <1>5, <1>7, <3>1, Consts
    <3>. QED  BY <3>2 DEF m
  <2>. QED  BY <2>1, <2>3, <2>4 DEF BeatInv
<1>9. AnswerInv'
  BY <1>0, <1>4, <1>5 DEF TimerInv, AnswerInv
<1>10. SilenceInv'
  <2>1. SUFFICES ASSUME beat.recv > 0, ~beat.wrapped, ~beat.over
                 PROVE  (NoneMissed \/ JustMissed \/ Recheck)'
    BY <1>4 DEF SilenceInv
  <2>2. NoneMissed \/ JustMissed \/ Recheck
    BY <1>0, <2>1 DEF TimerInv, SilenceInv
  <2>3. NoneMissed => NoneMissed'
    BY <1>4, <1>5 DEF NoneMissed, ConnTimeout
  <2>4. SentFor' <= worked' /\ SentFor' <= MaxWork + TurnSoFar'
    BY <1>0, <1>5, <1>7, Consts
  <2>5. JustMissed => JustMissed'
    BY <1>0, <1>4, <1>5, <2>4 DEF JustMissed
  <2>6. Recheck => Recheck'
    BY <1>0, <1>4, <1>5, <2>4 DEF Recheck
  <2>. QED  BY <2>2, <2>3, <2>5, <2>6
<1>. QED  BY <1>4, <1>6, <1>8, <1>9, <1>10 DEF TimerInv

\* Of two times, the one that is first is not further ahead.
LEMMA FirstIs ==
  ASSUME NEW a \in Time, NEW b \in Time, NEW t \in Time, Itimediff(a, b) <= 0,
         2 * (Itimediff(a, t) - Itimediff(b, t)) < ClockMod
  PROVE  Itimediff(a, t) <= Itimediff(b, t)
<1>. DEFINE x == Itimediff(a, t)
            y == Itimediff(b, t)
<1>1. Apart(a, t, x) /\ Apart(b, t, y) /\ 2 * (x - y) < ClockMod
  BY DiffExists
<1>2. ASSUME x > y
      PROVE  FALSE
  <2>1. Apart(a, b, x - y)
    <3>. HIDE DEF x, y
    <3>. QED  BY <1>1, <1>2, Consts DEF Apart, Time
  <2>2. Itimediff(a, b) = x - y
    <3>. HIDE DEF x, y
    <3>. QED  BY <2>1, DiffIs
  <2>3. x - y <= 0
    BY <2>2
  <2>. HIDE DEF x, y
  <2>. QED  BY <1>1, <1>2, <2>3 DEF Apart
<1>. HIDE DEF x, y
<1>3. x <= y
  BY <1>1, <1>2 DEF Apart
<1>. QED  BY <1>3 DEF x, y

\* What a check that is due finds: the heartbeat is no nearer.
LEMMA CheckIs ==
  ASSUME TypeOK, TurnInv, TimerInv, CheckTimeout
  PROVE  /\ CheckAhead \in Int /\ BeatAhead \in Int /\ Turned \in Nat /\ Latest \in Int
         /\ CheckAhead <= 0 /\ CheckAhead + Turned <= 0 /\ CheckAhead <= BeatAhead
         /\ CheckAhead >= Latest /\ BeatAhead >= Latest
         /\ Latest = 1 - TurnTime - TurnSoFar - napped
         /\ TurnSoFar \in Nat /\ TurnTime \in Nat /\ TurnSoFar <= TurnTime /\ 2 * TurnTime <= HeartBeat
         /\ napped \in Nat /\ 2 * (HeartBeat + MaxWait + MaxWork + napped) < ClockMod
<1>0. /\ at = "timers" /\ HasTimers /\ tunnel # None /\ role = "server" /\ clock \in Time
      /\ beat.beatAt \in Time /\ beat.checkAt \in Time /\ Itimediff(beat.checkAt, beat.beatAt) <= 0
  BY StateIs, BeatIs DEF CheckTimeout, HasTimers
<1>1. /\ TurnSoFar \in Nat /\ TurnTime \in Nat /\ TurnSoFar <= TurnTime /\ 2 * TurnTime <= HeartBeat
      /\ CheckAhead \in Int /\ BeatAhead \in Int /\ Turned \in Nat
  BY <1>0, TurnIs, TimesAre, Consts
<1>2. napped \in Nat /\ 2 * (HeartBeat + MaxWait + MaxWork + napped) < ClockMod
  BY <1>0, NapIs DEF TimerInv, ClockInv
<1>3. CheckAhead + Turned <= 0
  <2>1. Ahead(beat.checkAt) + Turned <= 0
    BY <1>0, ExpiredIs DEF TimerInv, CheckTimeout
  <2>. QED  BY <2>1 DEF CheckAhead
<1>4. Latest = 1 - TurnTime - TurnSoFar - napped /\ Latest \in Int
      /\ CheckAhead >= Latest /\ BeatAhead >= Latest
  BY <1>0, <1>1, <1>2 DEF Latest, TimerInv, BeatInv
<1>5. CheckAhead <= 0
  BY <1>1, <1>3
<1>6. 2 * (CheckAhead - BeatAhead) < ClockMod
  BY <1>1, <1>2, <1>4, <1>5, Consts
<1>7. CheckAhead <= BeatAhead
  BY <1>0, <1>6, FirstIs DEF CheckAhead, BeatAhead, Ahead
<1>. QED  BY <1>1, <1>2, <1>3, <1>4, <1>5, <1>7

\* A check in vain finds no heartbeat that is recent enough, and that only after
\* a stop.
LEMMA InVain ==
  ASSUME TypeOK, TurnInv, TimerInv, CheckTimeout, beat.recv > 0, ~beat.wrapped, ~IsTimeout(beat),
         beat.silence >= ConnTimeout
  PROVE  /\ SentFor > 2 * HeartBeat /\ SentFor + BeatAhead <= HeartBeat /\ napped > 0
<1>0. /\ HasTimers /\ clock \in Nat /\ beat.sent \in Nat /\ beat.recv \in Nat /\ beat.silence \in Nat
      /\ clock \in Time /\ beat.sent \in Time /\ clock <= ClockMod - 1 /\ beat.sent <= ClockMod - 1
  BY StateIs, BeatIs, Consts DEF CheckTimeout, Time
<1>1. beat.silence <= clock - beat.recv /\ SentFor + BeatAhead <= HeartBeat
  BY <1>0 DEF TimerInv, AnswerInv, BeatInv
<1>2. clock >= beat.recv /\ clock - beat.recv >= ConnTimeout /\ ConnTimeout = 4 * HeartBeat
  BY <1>0, <1>1, Consts DEF ConnTimeout
<1>3. SentFor = IF clock >= beat.sent THEN clock - beat.sent ELSE clock - beat.sent + ClockMod
  BY <1>0, Elapsed DEF SentFor
<1>4. SentFor > 2 * HeartBeat
  <2>1. CASE clock >= beat.sent
    <3>1. ~(clock - beat.sent <= HeartBeat * 2)
      BY <1>2, <2>1 DEF IsTimeout
    <3>. QED  BY <1>0, <1>3, <2>1, <3>1, Consts
  <2>2. CASE ~(clock >= beat.sent)
    BY <1>0, <1>2, <1>3, <2>2, Consts
  <2>. QED  BY <2>1, <2>2
<1>5. napped > 0
  <2>1. BeatAhead \in Int /\ BeatAhead >= 1 - TurnTime - TurnSoFar - napped /\ napped \in Nat
        /\ TurnSoFar \in Nat /\ TurnTime \in Nat /\ TurnSoFar <= TurnTime /\ 2 * TurnTime <= HeartBeat
    BY CheckIs
  <2>2. SentFor \in Nat
    BY <1>0, <1>3, Consts
  <2>. QED  BY <1>1, <1>4, <2>1, <2>2, Consts
<1>. QED  BY <1>1, <1>4, <1>5

LEMMA Lasted ==
  ASSUME NEW s \in Nat, NEW c \in Int, NEW o \in Int, NEW k \in Int, NEW t \in Nat, NEW a \in Nat, NEW n \in Nat,
         s <= o + c - k, k >= 1 - t - a - n
  PROVE  s <= o + c - 1 + t + n + a
OBVIOUS

LEMMA TimersCheck ==
  ASSUME TypeOK, TurnInv, TimerInv, CheckTimeout
  PROVE  TimerInv' /\ beat' \in Beats
<1>0. /\ at = "timers" /\ UNCHANGED <<clock, role, at, curClock, wait, worked, tunnel, napped>> /\ HasTimers
      /\ beat' = [beat EXCEPT !.checkAt = After(beat.checkAt, ConnCheck),
                              !.over = beat.over \/ IsTimeout(beat)]
      /\ clock \in Time /\ beat \in Beats /\ beat.checkAt \in Time /\ worked \in Nat /\ beat.silence \in Nat
      /\ beat.over \in BOOLEAN
  BY StateIs, BeatIs DEF CheckTimeout
<1>1. /\ CheckAhead \in Int /\ BeatAhead \in Int /\ Turned \in Nat /\ Latest \in Int
      /\ CheckAhead <= 0 /\ CheckAhead + Turned <= 0 /\ CheckAhead <= BeatAhead
      /\ CheckAhead >= Latest /\ BeatAhead >= Latest
      /\ Latest = 1 - TurnTime - TurnSoFar - napped
      /\ TurnSoFar \in Nat /\ TurnTime \in Nat /\ TurnSoFar <= TurnTime /\ 2 * TurnTime <= HeartBeat
      /\ napped \in Nat
  BY CheckIs
<1>2. ConnCheck \in 0 .. ClockMod - 1 /\ 2 * (CheckAhead + ConnCheck) < ClockMod
  BY <1>1, Consts
<1>3. After(beat.checkAt, ConnCheck) \in Time
      /\ Itimediff(After(beat.checkAt, ConnCheck), clock) = Itimediff(beat.checkAt, clock) + ConnCheck
  BY <1>0, <1>2, AfterIs, Further DEF CheckAhead, Ahead
<1>4. /\ beat' \in Beats /\ beat'.recv = beat.recv /\ beat'.asked = beat.asked /\ beat'.silence = beat.silence
      /\ beat'.wrapped = beat.wrapped /\ beat'.sent = beat.sent /\ beat'.beatAt = beat.beatAt
      /\ beat'.checkAt = After(beat.checkAt, ConnCheck) /\ beat'.sentAge = beat.sentAge
      /\ beat'.over = (beat.over \/ IsTimeout(beat))
  <2>1. (beat.over \/ IsTimeout(beat)) \in BOOLEAN
    BY DEF IsTimeout
  <2>. QED  BY <1>0, <1>3, <2>1 DEF Beats
<1>5. /\ Turned' = Turned /\ CheckAhead' = CheckAhead + ConnCheck /\ BeatAhead' = BeatAhead
      /\ SentFor' = SentFor /\ TurnSoFar' = TurnSoFar /\ TurnTime' = TurnTime /\ HasTimers' = HasTimers
      /\ Latest' = Latest /\ Answered' = Answered /\ LongSilence' = LongSilence
  <2>1. CheckAhead' = CheckAhead + ConnCheck
    BY <1>0, <1>3, <1>4 DEF CheckAhead, Ahead
  <2>2. BeatAhead' = BeatAhead /\ Answered' = Answered /\ SentFor' = SentFor
    BY <1>0, <1>4 DEF BeatAhead, Answered, SentFor, Ahead
  <2>3. TurnSoFar' = TurnSoFar /\ TurnTime' = TurnTime /\ HasTimers' = HasTimers /\ Turned' = Turned
    BY <1>0, SameClock DEF TurnSoFar, TurnTime, HasTimers
  <2>. QED  BY <1>0, <2>1, <2>2, <2>3 DEF Latest, LongSilence, ConnTimeout
<1>6. ClockInv'
  BY <1>0, <1>5 DEF TimerInv, ClockInv
<1>7. BeatInv'
  <2>1. (Turned <= Interval + worked + napped \/ Fresh)'
    <3>1. Turned <= Interval + worked + napped \/ Fresh
      BY <1>0 DEF TimerInv, BeatInv
    <3>2. ASSUME Fresh PROVE Fresh'
      BY <1>0, <1>1, <1>5, <3>2, Consts DEF Fresh
    <3>. QED  BY <1>0, <1>5, <3>1, <3>2
  <2>2. CheckAhead' >= Latest' /\ CheckAhead' <= ConnCheck
    BY <1>1, <1>5, Consts
  <2>. QED  BY <1>0, <1>1, <1>4, <1>5, <2>1, <2>2 DEF TimerInv, BeatInv
<1>8. AnswerInv'
  BY <1>0, <1>4, <1>5 DEF TimerInv, AnswerInv
<1>9. SilenceInv'
  <2>1. SUFFICES ASSUME beat.recv > 0, ~beat.wrapped, ~beat.over, ~IsTimeout(beat)
                 PROVE  (NoneMissed \/ JustMissed \/ Recheck)'
    BY <1>4 DEF SilenceInv
  <2>2. NoneMissed \/ JustMissed \/ Recheck
    BY <1>0, <2>1 DEF TimerInv, SilenceInv
  <2>3. CASE beat.silence < ConnTimeout
    <3>1. beat'.silence + CheckAhead' <= ConnTimeout + ConnCheck
      BY <1>0, <1>1, <1>4, <1>5, <2>3, Consts DEF ConnTimeout
    <3>. QED  BY <3>1 DEF NoneMissed, ConnTimeout
  <2>4. CASE beat.silence >= ConnTimeout
    <3>1. SentFor > 2 * HeartBeat /\ SentFor + BeatAhead <= HeartBeat /\ napped > 0 /\ SentFor \in Nat
      BY <2>1, <2>4, InVain, TimesAre, Consts
    <3>2. CheckAhead + ConnCheck < 0
      BY <1>1, <3>1, Consts
    <3>3. LongSilence = ConnTimeout + ConnCheck - 1 + TurnTime + napped + TurnSoFar
          /\ ConnTimeout \in Int /\ ConnCheck \in Int
      BY Consts DEF LongSilence, ConnTimeout
    <3>4. CASE NoneMissed
      <4>1. beat.silence <= ConnTimeout + ConnCheck - CheckAhead
        BY <1>0, <1>1, <3>3, <3>4 DEF NoneMissed
      <4>2. beat.silence <= LongSilence
        BY <1>0, <1>1, <3>3, <4>1, Lasted
      <4>. QED  BY <1>0, <1>4, <1>5, <3>1, <3>2, <4>2 DEF JustMissed
    <3>5. CASE JustMissed
      BY <1>0, <1>4, <1>5, <3>1, <3>2, <3>5 DEF JustMissed
    <3>6. CASE Recheck
      <4>1. SentFor > 2 * HeartBeat + Turned
        <5>1. ~(SentFor <= MaxWork + TurnSoFar)
          BY <1>1, <3>1, Consts DEF TurnTime
        <5>. QED  BY <3>6, <5>1 DEF Recheck
      <4>2. CheckAhead + ConnCheck + Turned <= 0
        BY <1>1, <3>1, <4>1, Consts
      <4>. QED  BY <1>0, <1>4, <1>5, <3>1, <3>6, <4>1, <4>2 DEF Recheck
    <3>. QED  BY <2>2, <3>4, <3>5, <3>6
  <2>. QED  BY <1>0, <2>3, <2>4, Consts DEF ConnTimeout
<1>. QED  BY <1>4, <1>6, <1>7, <1>8, <1>9 DEF TimerInv

LEMMA Remains ==
  ASSUME NEW a \in Nat, NEW b \in Nat, a <= b
  PROVE  b - a \in Nat
OBVIOUS

LEMMA TimersEnd ==
  ASSUME TypeOK, TurnInv, TimerInv, EndTurn
  PROVE  TimerInv' /\ beat' \in Beats
<1>0. /\ at = "timers" /\ at' = "poll" /\ curClock' = clock /\ worked' = 0 /\ clock' = clock /\ role' = role
      /\ clock \in Time /\ beat \in Beats /\ worked \in Nat /\ worked <= MaxWork
      /\ \/ tunnel' = None /\ beat' = NoBeat /\ napped' = 0
         \/ tunnel' = tunnel /\ beat' = beat /\ napped' = napped
  BY StateIs, BeatIs, Consts DEF EndTurn
<1>1. wait' \in Nat /\ wait' <= MaxWait /\ (tunnel # None => wait' <= Interval)
  BY WaitIs, Consts DEF TimerInv
<1>2. Turned' = 0
  BY <1>0, JustNow DEF Turned
<1>3. ClockInv'
  <2>1. tunnel' = None \/ tunnel' = tunnel
    BY <1>0
  <2>2. role = "server" => napped' \in Naps["server"] \cup {0}
    BY <1>0 DEF TimerInv, ClockInv
  <2>3. Turned' + wait' <= IF tunnel' = None THEN MaxWait ELSE Interval
    <3>1. wait' <= IF tunnel' = None THEN MaxWait ELSE Interval
      BY <1>1, <2>1
    <3>. DEFINE w == wait'
    <3>2. w \in Nat
      BY <1>1
    <3>3. 0 + w = w
      <4>. HIDE DEF w
      <4>. QED  BY <3>2
    <3>. QED  BY <1>2, <3>1, <3>3
  <2>. QED  BY <1>0, <2>2, <2>3 DEF ClockInv
<1>4. CASE ~HasTimers'
  <2>1. beat' \in Beats
    BY <1>0, NewTypes
  <2>. QED  BY <1>3, <1>4, <2>1 DEF TimerInv, BeatInv, AnswerInv, SilenceInv
<1>5. CASE HasTimers'
  <2>1. tunnel' = tunnel /\ beat' = beat /\ napped' = napped /\ HasTimers /\ tunnel # None /\ role = "server"
    BY <1>0, <1>5 DEF HasTimers
  <2>2. /\ BeatAhead' = BeatAhead /\ CheckAhead' = CheckAhead /\ SentFor' = SentFor /\ Answered' = Answered
        /\ TurnTime' = TurnTime
    BY <1>0, <2>1, SameTimes DEF TurnTime
  <2>3. /\ BeatAhead \in Int /\ CheckAhead \in Int /\ Turned \in Nat /\ SentFor \in Nat
        /\ beat.sentAge \in Nat /\ beat.silence \in Nat /\ napped \in Nat
        /\ TurnSoFar \in Nat /\ TurnTime \in Nat /\ TurnSoFar <= TurnTime /\ 2 * TurnTime <= HeartBeat
        /\ TurnTime = Interval + MaxWork
    BY <2>1, TurnIs, TimesAre, StateIs, BeatIs, Consts DEF TurnTime
  <2>4. BeatAhead + Turned >= 1 /\ CheckAhead + Turned >= 1
    <3>1. ~Expired(beat.beatAt) /\ ~Expired(beat.checkAt)
      BY <2>1 DEF EndTurn
    <3>2. ~(Ahead(beat.beatAt) + Turned <= 0) /\ ~(Ahead(beat.checkAt) + Turned <= 0)
      BY <1>0, <2>1, <3>1, ExpiredIs DEF TimerInv
    <3>3. ~(BeatAhead + Turned <= 0) /\ ~(CheckAhead + Turned <= 0)
      BY <3>2 DEF BeatAhead, CheckAhead
    <3>. QED  BY <2>3, <3>3
  <2>5. TurnSoFar' = Interval - wait' /\ TurnSoFar' \in Nat
    <3>1. TurnSoFar' = Interval - wait'
      BY <1>0 DEF TurnSoFar
    <3>2. Interval \in Nat /\ wait' \in Nat /\ wait' <= Interval
      BY <1>1, <2>1, Consts
    <3>3. Interval - wait' \in Nat
      BY <3>2, Remains
    <3>. QED  BY <3>1, <3>3
  <2>6. /\ Turned <= Interval + worked + napped \/ Fresh
        /\ beat.sentAge + BeatAhead <= HeartBeat /\ CheckAhead <= ConnCheck
        /\ beat.sentAge <= HeartBeat - 1 + TurnSoFar + IF BeatAhead + Turned <= 0 THEN TurnTime ELSE 0
        /\ beat.asked \/ beat.recv > 0 => SentFor + BeatAhead <= HeartBeat
    BY <1>0, <2>1 DEF TimerInv, BeatInv
  <2>7. BeatInv'
    <3>1. Latest' = 1 - TurnTime - TurnSoFar' - napped
      BY <2>1, <2>2 DEF Latest
    <3>2. BeatAhead >= 1 - TurnTime - napped /\ CheckAhead >= 1 - TurnTime - napped
      <4>1. CASE Turned <= Interval + worked + napped
        BY <1>0, <2>3, <2>4, <4>1, Consts
      <4>2. CASE Fresh
        <5>1. BeatAhead >= HeartBeat - worked /\ CheckAhead >= ConnCheck - worked
          BY <4>2 DEF Fresh
        <5>. QED  BY <1>0, <2>3, <5>1, Consts
      <4>. QED  BY <2>6, <4>1, <4>2
    <3>3. BeatAhead >= Latest' /\ CheckAhead >= Latest'
      BY <2>3, <2>5, <3>1, <3>2, Consts
    <3>4. beat.sentAge <= HeartBeat - 1 + TurnSoFar' + IF BeatAhead + 0 <= 0 THEN TurnTime ELSE 0
      <4>0. beat.sentAge <= HeartBeat - 1 + TurnSoFar
        <5>1. ~(BeatAhead + Turned <= 0)
          BY <2>3, <2>4
        <5>2. beat.sentAge <= HeartBeat - 1 + TurnSoFar + 0
          BY <2>6, <5>1
        <5>. QED  BY <2>3, <5>2, Consts
      <4>1. CASE BeatAhead <= 0
        <5>1. beat.sentAge <= HeartBeat - 1 + TurnSoFar' + TurnTime
          BY <2>3, <2>5, <4>0, Consts
        <5>. QED  BY <2>3, <4>1, <5>1
      <4>2. CASE ~(BeatAhead <= 0)
        <5>1. beat.sentAge <= HeartBeat - 1 + TurnSoFar' + 0
          BY <2>3, <2>5, <2>6, <4>2, Consts
        <5>. QED  BY <2>3, <4>2, <5>1
      <4>. QED  BY <4>1, <4>2
    <3>. QED  BY <1>0, <1>2, <2>1, <2>2, <2>6, <3>3, <3>4 DEF BeatInv
  <2>8. AnswerInv'
    BY <1>0, <2>1, <2>2 DEF TimerInv, AnswerInv
  <2>9. SilenceInv'
    <3>1. SUFFICES ASSUME beat.recv > 0, ~beat.wrapped, ~beat.over
                   PROVE  (NoneMissed \/ JustMissed \/ Recheck)'
      BY <2>1 DEF SilenceInv
    <3>2. NoneMissed \/ JustMissed
      <4>1. ~(CheckAhead + Turned <= 0)
        BY <2>3, <2>4
      <4>2. NoneMissed \/ JustMissed \/ Recheck
        BY <2>1, <3>1 DEF TimerInv, SilenceInv
      <4>. QED  BY <4>1, <4>2 DEF Recheck
    <3>3. NoneMissed => NoneMissed'
      BY <2>1, <2>2 DEF NoneMissed, ConnTimeout
    <3>4. ASSUME JustMissed
          PROVE  Recheck'
      <4>1. napped > 0 /\ beat.silence <= LongSilence /\ CheckAhead < 0
            /\ (SentFor > 2 * HeartBeat \/ SentFor <= worked)
        BY <3>4 DEF JustMissed
      <4>2. beat.silence <= LongSilence' + TurnTime'
        <5>1. LongSilence = ConnTimeout + ConnCheck - 1 + TurnTime + napped + TurnSoFar
              /\ LongSilence' = ConnTimeout + ConnCheck - 1 + TurnTime + napped + TurnSoFar'
              /\ ConnTimeout \in Int /\ ConnCheck \in Int
          BY <2>1, <2>2, Consts DEF LongSilence, ConnTimeout
        <5>. QED  BY <2>2, <2>3, <2>5, <4>1, <5>1
      <4>3. CheckAhead + 0 <= 0 /\ (SentFor > 2 * HeartBeat + 0 \/ SentFor <= MaxWork + TurnSoFar')
        BY <1>0, <2>3, <2>5, <4>1, Consts
      <4>. QED  BY <1>2, <2>1, <2>2, <4>1, <4>2, <4>3 DEF Recheck
    <3>. QED  BY <3>2, <3>3, <3>4
  <2>. QED  BY <1>0, <1>3, <2>1, <2>7, <2>8, <2>9 DEF TimerInv
<1>. QED  BY <1>4, <1>5

\* Every step keeps what is said of the timers.
LEMMA TimerStep ==
  ASSUME TypeOK, TurnInv, TimerInv, Next
  PROVE  TimerInv' /\ beat' \in Beats
<1>0. 1 \in 1 .. ClockMod - 1 /\ TRUE \in BOOLEAN /\ FALSE \in BOOLEAN
  BY Consts
<1>1. CASE Waits
  BY <1>0, <1>1, TimersPass DEF Waits, TimeStep
<1>2. CASE Works
  BY <1>0, <1>2, TimersPass DEF Works, TimeStep
<1>3. ASSUME NEW d \in UNION {Naps[r] : r \in DOMAIN Naps}, Nap(d)
      PROVE  TimerInv' /\ beat' \in Beats
  <2>1. d \in 1 .. ClockMod - 1
    BY MainLoopAssumption
  <2>. QED  BY <1>0, <1>3, <2>1, TimersPass DEF Nap, TimeStep
<1>4. CASE PollReturns
  BY <1>4, TimersPoll
<1>5. CASE NewSession
  BY <1>5, TimersStart
<1>6. CASE SessionEnds
  BY <1>6, NoTimers DEF SessionEnds, Handles
<1>7. CASE AnswerArrives
  BY <1>7, TimersAnswered
<1>8. CASE SendData \/ Datagram
  BY <1>8, TimersRest DEF SendData, Datagram, Handles
<1>9. CASE UpdateTunnels
  BY <1>9, TimersRest DEF UpdateTunnels
<1>10. CASE BeatTimeout
  BY <1>10, TimersBeat
<1>11. CASE CheckTimeout
  BY <1>11, TimersCheck
<1>12. CASE EndTurn
  BY <1>12, TimersEnd
<1>. QED  BY <1>1, <1>2, <1>3, <1>4, <1>5, <1>6, <1>7, <1>8, <1>9, <1>10, <1>11, <1>12 DEF Next, Turn

-----------------------------------------------------------------------------
(* The theorems.                                                           *)

MainLoopInv == TypeOK /\ TunnelInv /\ TimerInv

LEMMA Started == Init => MainLoopInv
<1>. SUFFICES ASSUME Init PROVE MainLoopInv
  OBVIOUS
<1>1. /\ clock \in Time /\ role \in {"client", "server"} /\ at = "poll" /\ curClock = clock /\ wait = 0
      /\ worked = 0 /\ nextKcp = 0 /\ tunnel = None /\ beat = NoBeat /\ napped = 0
  BY DEF Init
<1>2. TypeOK
  BY <1>1, NewTypes, Consts DEF TypeOK, Beats
<1>3. TunnelInv
  BY <1>1 DEF TunnelInv, TurnInv, NearInv, FarInv
<1>4. Turned = 0
  BY <1>1, JustNow DEF Turned
<1>5. TimerInv
  BY <1>1, <1>4, Consts DEF TimerInv, ClockInv, BeatInv, AnswerInv, SilenceInv, HasTimers
<1>. QED  BY <1>2, <1>3, <1>5 DEF MainLoopInv

\* The types of what neither the tunnel's lemmas nor the timers' speak of.
LEMMA OtherTypes ==
  ASSUME TypeOK, TurnInv, ClockInv, BeatInv, Next
  PROVE  /\ clock' \in Time /\ role' \in {"client", "server"} /\ at' \in {"poll", "handling", "timers"}
         /\ curClock' \in Time /\ wait' \in 0 .. MaxWait /\ worked' \in 0 .. MaxWork
         /\ napped' \in 0 .. ClockMod - 1
<1>0. /\ clock \in Time /\ role \in {"client", "server"} /\ at \in {"poll", "handling", "timers"}
      /\ curClock \in Time /\ wait \in 0 .. MaxWait /\ worked \in 0 .. MaxWork
      /\ napped \in 0 .. ClockMod - 1 /\ 0 \in 0 .. MaxWait /\ 0 \in 0 .. MaxWork /\ 0 \in 0 .. ClockMod - 1
      /\ 1 \in 0 .. ClockMod - 1
  BY StateIs, Consts
<1>1. CASE Waits
  <2>1. clock' \in Time
    BY <1>0, <1>1, AfterIs DEF Waits, Passes
  <2>. QED  BY <1>0, <1>1, <2>1, Consts DEF Waits
<1>2. CASE Works
  <2>1. clock' \in Time
    BY <1>0, <1>2, AfterIs DEF Works, Passes
  <2>. QED  BY <1>0, <1>2, <2>1, Consts DEF Works
<1>3. ASSUME NEW d \in UNION {Naps[r] : r \in DOMAIN Naps}, Nap(d)
      PROVE  /\ clock' \in Time /\ role' = role /\ at' = "handling" /\ curClock' = curClock
             /\ wait' = 0 /\ worked' = worked /\ napped' \in 0 .. ClockMod - 1
  <2>1. d \in 1 .. ClockMod - 1 /\ d \in 0 .. ClockMod - 1
    BY MainLoopAssumption
  <2>2. clock' \in Time
    BY <1>0, <1>3, <2>1, AfterIs DEF Nap, Passes
  <2>. QED  BY <1>0, <1>3, <2>1, <2>2 DEF Nap
<1>4. CASE Turn /\ ~EndTurn
  BY <1>0, <1>4 DEF Turn, PollReturns, NewSession, SessionEnds, AnswerArrives, SendData, Datagram,
                    UpdateTunnels, BeatTimeout, CheckTimeout, Handles
<1>5. CASE EndTurn
  <2>1. wait' \in 0 .. MaxWait
    BY <1>5, WaitIs
  <2>. QED  BY <1>0, <1>5, <2>1 DEF EndTurn
<1>. QED  BY <1>0, <1>1, <1>2, <1>3, <1>4, <1>5 DEF Next

LEMMA Kept == MainLoopInv /\ [Next]_vars => MainLoopInv'
<1>. SUFFICES ASSUME MainLoopInv, [Next]_vars
              PROVE  MainLoopInv'
  OBVIOUS
<1>0. TypeOK /\ TunnelInv /\ TurnInv /\ TimerInv /\ ClockInv /\ BeatInv
  BY DEF MainLoopInv, TunnelInv, TimerInv
<1>1. CASE Next
  <2>1. TimerInv' /\ beat' \in Beats
    BY <1>0, <1>1, TimerStep
  <2>2. EndTurn => wait' \in Nat /\ wait' <= nextKcp
    BY <1>0, WaitIs
  <2>3. TunnelInv' /\ TunnelTypes'
    BY <1>0, <1>1, <2>2, TunnelStep
  <2>4. /\ clock' \in Time /\ role' \in {"client", "server"} /\ at' \in {"poll", "handling", "timers"}
        /\ curClock' \in Time /\ wait' \in 0 .. MaxWait /\ worked' \in 0 .. MaxWork
        /\ napped' \in 0 .. ClockMod - 1
    BY <1>0, <1>1, OtherTypes
  <2>5. TypeOK'
    BY <2>1, <2>3, <2>4 DEF TypeOK, TunnelTypes, Blocks, Beats
  <2>. QED  BY <2>1, <2>3, <2>5 DEF MainLoopInv
<1>2. CASE UNCHANGED vars
  <2>1. UNCHANGED <<clock, role, curClock, wait, worked, beat, napped, at, nextKcp, tunnel>>
    BY <1>2 DEF vars
  <2>2. TypeOK'
    BY <1>0, <2>1 DEF TypeOK
  <2>3. TunnelInv'
    BY <1>0, <2>1 DEF TunnelInv, TurnInv, NearInv, FarInv, Astray, Stray, Floor, FlushFine, SegsFine, SegFine,
                      ProbeFine, Since, Ahead
  <2>4. TimerInv'
    BY <1>0, <2>1, TimersRest
  <2>. QED  BY <2>2, <2>3, <2>4 DEF MainLoopInv
<1>. QED  BY <1>1, <1>2

THEOREM MainLoopInvHolds == Spec => []MainLoopInv
<1>1. Init => MainLoopInv
  BY Started
<1>2. MainLoopInv /\ [Next]_vars => MainLoopInv'
  BY Kept
<1>. QED  BY <1>1, <1>2, PTL DEF Spec

\* ikcp_flush is never later than FlushesInTime says: through every start of the
\* clock, for every stop of the process.
THEOREM AlwaysFlushesInTime == Spec => []FlushesInTime
<1>1. MainLoopInv => FlushesInTime
  <2>. SUFFICES ASSUME MainLoopInv PROVE FlushesInTime
    OBVIOUS
  <2>1. TypeOK /\ TunnelInv
    BY DEF MainLoopInv
  <2>2. tunnel # None => tunnel.flushAge <= Stray + FlushTime
    <3>. SUFFICES ASSUME tunnel # None PROVE tunnel.flushAge <= Stray + FlushTime
      OBVIOUS
    <3>1. tunnel \in Blocks /\ tunnel.flushAge \in Nat /\ FlushTime \in Nat
          /\ worked \in Nat /\ worked <= MaxWork /\ Floor \in Int /\ Floor >= - 2 * MaxWork
      BY <2>1, StateIs, AgesAreInts, Consts DEF FlushTime
    <3>2. CASE ~Astray
      <4>1. tunnel.flushAge <= FlushTime /\ Stray = 0
        BY <2>1, <3>2, FlushBound DEF Stray
      <4>. QED  BY <3>1, <4>1
    <3>3. CASE Astray
      <4>1. Stray = Slap + 2 * MaxWork
        BY <3>3 DEF Stray
      <4>2. CASE tunnel.flushAge <= Interval + MaxWork + worked
        BY <3>1, <4>1, <4>2, Consts DEF FlushTime
      <4>3. CASE tunnel.flushAge + Ahead(tunnel.tsFlush) <= Stray + Interval
                 /\ Ahead(tunnel.tsFlush) >= Floor
        <5>1. Ahead(tunnel.tsFlush) \in Int
          BY <2>1, <3>1, StateIs, BlockFields, Mirrored DEF Ahead
        <5>. QED  BY <3>1, <4>1, <4>3, <5>1, Consts DEF FlushTime
      <4>. QED  BY <2>1, <3>3, <4>2, <4>3 DEF TunnelInv, FarInv
    <3>. QED  BY <3>2, <3>3
  <2>. QED  BY <2>1, <2>2 DEF FlushesInTime
<1>. QED  BY <1>1, MainLoopInvHolds, PTL

\* A segment is sent again by the first flush after its rto.
THEOREM AlwaysResendsInTime == Spec => []ResendsInTime
<1>1. MainLoopInv => ResendsInTime
  <2>. SUFFICES ASSUME MainLoopInv, tunnel # None, ~Astray, NEW i \in DOMAIN tunnel.segs
                PROVE  tunnel.segs[i].age <= tunnel.segs[i].rto + FlushTime
    BY DEF ResendsInTime
  <2>1. TypeOK /\ TunnelInv /\ NearInv
    BY DEF MainLoopInv, TunnelInv
  <2>2. tunnel.flushAge <= FlushTime
    BY <2>1, FlushBound
  <2>3. SegFine(tunnel, tunnel.segs[i])
    BY <2>1 DEF NearInv, SegsFine
  <2>4. tunnel \in Blocks /\ tunnel.flushAge \in Nat
    BY <2>1, StateIs, AgesAreInts
  <2>5. tunnel.segs[i].age \in Nat /\ tunnel.segs[i].rto \in Nat
    <3>1. tunnel.segs[i] \in Segs
      BY <2>4, BlockFields
    <3>. QED  BY <3>1, SegFields, Consts DEF Age
  <2>6. FlushTime \in Nat /\ tunnel.segs[i].age <= tunnel.segs[i].rto - 1 + tunnel.flushAge
    BY <2>3, Consts DEF SegFine, FlushTime
  <2>. QED  BY <2>2, <2>4, <2>5, <2>6
<1>. QED  BY <1>1, MainLoopInvHolds, PTL

\* A closed window is asked about by the first flush after the pause.
THEOREM AlwaysAsksInTime == Spec => []AsksInTime
<1>1. MainLoopInv => AsksInTime
  <2>. SUFFICES ASSUME MainLoopInv, tunnel # None, ~Astray
                PROVE  tunnel.probeAge <= ProbeLimit + FlushTime
    BY DEF AsksInTime
  <2>1. TypeOK /\ TunnelInv /\ NearInv
    BY DEF MainLoopInv, TunnelInv
  <2>2. tunnel.flushAge <= FlushTime
    BY <2>1, FlushBound
  <2>3. tunnel \in Blocks /\ tunnel.flushAge \in Nat /\ tunnel.probeAge \in Nat
    BY <2>1, StateIs, AgesAreInts
  <2>4. FlushTime \in Nat /\ tunnel.probeAge <= ProbeLimit - 1 + tunnel.flushAge
    BY <2>1, Consts DEF NearInv, ProbeFine, FlushTime
  <2>. QED  BY <2>2, <2>3, <2>4, Consts
<1>. QED  BY <1>1, MainLoopInvHolds, PTL

\* A heartbeat leaves within two turns of its time, however long the process was
\* stopped and wherever the clock starts again.
THEOREM HeartBeatAlwaysInTime == Spec => []HeartBeatInTime
<1>1. MainLoopInv => HeartBeatInTime
  <2>. SUFFICES ASSUME MainLoopInv, HasTimers
                PROVE  beat.sentAge <= HeartBeat + 2 * TurnTime
    BY DEF HeartBeatInTime
  <2>1. TypeOK /\ TurnInv /\ BeatInv /\ tunnel # None
    BY DEF MainLoopInv, TunnelInv, TimerInv, HasTimers
  <2>2. TurnSoFar \in Nat /\ TurnTime \in Nat /\ TurnSoFar <= TurnTime /\ beat.sentAge \in Nat
    BY <2>1, TurnIs, BeatIs
  <2>. DEFINE m == IF BeatAhead + Turned <= 0 THEN TurnTime ELSE 0
  <2>3. beat.sentAge <= HeartBeat - 1 + TurnSoFar + m /\ m \in Nat /\ m <= TurnTime
    BY <2>1, <2>2 DEF BeatInv
  <2>. HIDE DEF m
  <2>. QED  BY <2>2, <2>3, Consts
<1>. QED  BY <1>1, MainLoopInvHolds, PTL

\* A client that answered once and falls silent is given up by the second check
\* after CONNTIMEOUT_TIME, unless the clock started again; or, after a stop, by the
\* one of the next turn.
THEOREM SilenceAlwaysNoticed == Spec => []SilenceIsNoticed
<1>1. MainLoopInv => SilenceIsNoticed
  <2>. SUFFICES ASSUME MainLoopInv, HasTimers, beat.recv # 0, ~beat.wrapped, ~beat.over
                PROVE  beat.silence <= ConnTimeout + ConnCheck + 2 * TurnTime
                                       + IF napped = 0 THEN 0 ELSE TurnTime + napped
    BY DEF SilenceIsNoticed
  <2>1. TypeOK /\ TurnInv /\ TimerInv /\ tunnel # None /\ at \in {"poll", "handling", "timers"}
    BY StateIs DEF MainLoopInv, TunnelInv, HasTimers
  <2>2. /\ TurnSoFar \in Nat /\ TurnTime \in Nat /\ TurnSoFar <= TurnTime /\ beat.silence \in Nat
        /\ beat.recv \in Nat /\ CheckAhead \in Int /\ napped \in Nat /\ ConnTimeout \in Nat
        /\ ConnCheck \in Nat
    BY <2>1, TurnIs, BeatIs, TimesAre, StateIs, Consts DEF ConnTimeout
  <2>3. beat.recv > 0
    BY <2>2
  <2>4. NoneMissed \/ JustMissed \/ Recheck
    BY <2>1, <2>3 DEF TimerInv, SilenceInv
  <2>5. CheckAhead >= 1 - TurnTime - TurnSoFar - napped
    BY <2>1 DEF TimerInv, BeatInv, Latest
  <2>6. CASE NoneMissed
    <3>1. beat.silence <= ConnTimeout + ConnCheck - 1 + TurnTime + napped + TurnSoFar
      <4>1. beat.silence <= ConnTimeout + ConnCheck - CheckAhead
        BY <2>2, <2>6 DEF NoneMissed
      <4>. QED  BY <2>2, <2>5, <4>1, Lasted
    <3>2. CASE napped = 0
      <4>1. beat.silence <= ConnTimeout + ConnCheck + 2 * TurnTime + 0
        BY <2>2, <3>1, <3>2
      <4>. QED  BY <3>2, <4>1
    <3>3. CASE napped # 0
      <4>1. beat.silence <= ConnTimeout + ConnCheck + 2 * TurnTime + (TurnTime + napped)
        BY <2>2, <3>1
      <4>. QED  BY <3>3, <4>1
    <3>. QED  BY <3>2, <3>3
  <2>7. CASE JustMissed \/ Recheck
    <3>1. napped > 0 /\ beat.silence <= LongSilence + TurnTime
      <4>1. LongSilence \in Int
        BY <2>2 DEF LongSilence
      <4>. QED  BY <2>2, <2>7, <4>1 DEF JustMissed, Recheck
    <3>2. LongSilence = ConnTimeout + ConnCheck - 1 + TurnTime + napped + TurnSoFar
      BY DEF LongSilence
    <3>3. beat.silence <= ConnTimeout + ConnCheck + 2 * TurnTime + (TurnTime + napped)
      BY <2>2, <3>1, <3>2
    <3>. QED  BY <2>2, <3>1, <3>3
  <2>. QED  BY <2>4, <2>6, <2>7
<1>. QED  BY <1>1, MainLoopInvHolds, PTL

\* No step gives up a client that was heard within CONNTIMEOUT_TIME.
THEOREM OnlySilentAreGivenUp == Spec => OnlySilentIsGivenUp
<1>1. ASSUME MainLoopInv, [Next]_vars
      PROVE  [~beat.over /\ beat'.over => beat.silence >= ConnTimeout]_vars
  <2>. SUFFICES ASSUME Next, ~beat.over, beat'.over
                PROVE  beat.silence >= ConnTimeout
    BY <1>1
  <2>0. TypeOK /\ TimerInv /\ beat \in Beats
    BY <1>1, BeatIs DEF MainLoopInv
  <2>1. CheckTimeout /\ IsTimeout(beat)
    <3>0. ~NoBeat.over /\ \A t \in Time : ~NewBeat(t).over
      BY DEF NoBeat, NewBeat
    <3>1. ASSUME NEW d, NEW ran, Passes(d, ran)
          PROVE  beat'.over = beat.over
      BY <2>0, <3>1 DEF Passes, Beats
    <3>2. ~Waits /\ ~Works /\ ~(\E d \in UNION {Naps[r] : r \in DOMAIN Naps} : Nap(d))
      BY <3>1 DEF Waits, Works, Nap
    <3>3. ~PollReturns /\ ~SendData /\ ~Datagram /\ ~UpdateTunnels
      BY DEF PollReturns, SendData, Datagram, UpdateTunnels
    <3>4. ~NewSession /\ ~SessionEnds
      BY <2>0, <3>0, StateIs DEF NewSession, SessionEnds
    <3>5. ~AnswerArrives /\ ~BeatTimeout
      BY <2>0 DEF AnswerArrives, BeatTimeout, Beats
    <3>6. ~EndTurn
      BY <3>0 DEF EndTurn
    <3>7. CheckTimeout
      BY <3>2, <3>3, <3>4, <3>5, <3>6 DEF Next, Turn
    <3>8. beat'.over = (beat.over \/ IsTimeout(beat))
      BY <2>0, <3>7 DEF CheckTimeout, Beats
    <3>. QED  BY <3>7, <3>8
  <2>2. clock >= beat.recv /\ beat.recv > 0 /\ clock - beat.recv >= ConnTimeout
    BY <2>1 DEF IsTimeout
  <2>3. clock \in Time /\ beat.recv \in Time /\ beat.silence \in Nat /\ beat.recv \in Nat
    BY <2>0, StateIs, BeatIs
  <2>4. Answered = clock - beat.recv
    BY <2>2, <2>3, Elapsed DEF Answered
  <2>5. beat.silence = MaxAge \/ Answered <= beat.silence
    BY <2>0, <2>1, <2>2 DEF TimerInv, AnswerInv, CheckTimeout
  <2>. QED  BY <2>2, <2>3, <2>4, <2>5, Consts DEF ConnTimeout, Time
<1>. QED  BY <1>1, MainLoopInvHolds, PTL DEF Spec, OnlySilentIsGivenUp

=============================================================================
