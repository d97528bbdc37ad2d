-------------------------- MODULE UdpSendersProofs --------------------------
(***************************************************************************)
(* Theorems about the senders of a group, for any set of tunnels, any room *)
(* in the socket and any walk that loses its place: what is watched is     *)
(* exact, and the sender of every tunnel implements Fifo.                  *)
(***************************************************************************)
EXTENDS UdpQueues, RunLemmas

-----------------------------------------------------------------------------
(* What the operators do to a record of Udp.                               *)

\* The lesser of two numbers is one of them.
LEMMA LesserIsOne ==
  ASSUME NEW a \in Nat, NEW b \in Nat
  PROVE  Min({a, b}) \in Nat /\ Min({a, b}) <= a /\ Min({a, b}) <= b
<1>1. \E x \in {a, b} : \A y \in {a, b} : x <= y
  <2>1. CASE a <= b  BY <2>1
  <2>2. CASE b <= a  BY <2>2
  <2>. QED  BY <2>1, <2>2
<1>. QED  BY <1>1 DEF Min

\* Push takes a first part of what waits and what is new, and leaves the
\* registrations and the other tunnels alone.
LEMMA PushSplits ==
  ASSUME NEW u \in Udp, NEW t \in Tunnels, NEW ds \in Seq(Nat)
  PROVE  LET f == Push(u, t, ds) IN
         /\ f \in Udp
         /\ f.regd = u.regd /\ f.notify = u.notify /\ f.watched = u.watched
         /\ \A x \in Tunnels \ {t} : f.waiting[x] = u.waiting[x] /\ f.sent[x] = u.sent[x]
         /\ f.sent[t] \o f.waiting[t] = u.sent[t] \o (u.waiting[t] \o ds)
         /\ IsPrefix(u.sent[t], f.sent[t])
         /\ u.waiting[t] \o ds = <<>> => f.waiting[t] = <<>>
<1>. DEFINE w == u.waiting[t] \o ds
            n == IF t \in refused THEN 0 ELSE Min({Len(w), u.room})
            f == Push(u, t, ds)
<1>1. w \in Seq(Nat) /\ u.sent[t] \in Seq(Nat) /\ Len(w) \in Nat /\ u.room \in 0 .. Room
  BY DEF Udp
<1>2. n \in 0 .. Len(w) /\ u.room - n \in 0 .. Room
  <2>. DEFINE m == Min({Len(w), u.room})
  <2>1. u.room \in Nat
    BY <1>1, UdpSendersAssumption
  <2>. HIDE DEF w
  <2>2. m \in Nat /\ m <= Len(w) /\ m <= u.room
    BY <1>1, <2>1, LesserIsOne
  <2>. HIDE DEF m
  <2>3. n = 0 \/ n = m
    BY DEF m
  <2>. HIDE DEF n
  <2>. QED  BY <1>1, <2>1, <2>2, <2>3, UdpSendersAssumption
<1>3. /\ SubSeq(w, 1, n) \in Seq(Nat) /\ Rest(w, n) \in Seq(Nat)
      /\ Len(Rest(w, n)) = Len(w) - n
      /\ SubSeq(w, 1, n) \o Rest(w, n) = w
  <2>. HIDE DEF n, w
  <2>. QED  BY <1>1, <1>2, Cut
<1>4. f = [u EXCEPT !.waiting[t] = Rest(w, n),
                    !.sent[t] = @ \o SubSeq(w, 1, n), !.room = @ - n]
  BY DEF Push
<1>. HIDE DEF n, w
<1>5. f \in Udp
  <2>1. u.sent[t] \o SubSeq(w, 1, n) \in Seq(Nat)
    BY <1>1, <1>3, ConcatProperties
  <2>2. /\ [u.waiting EXCEPT ![t] = Rest(w, n)] \in [Tunnels -> Seq(Nat)]
        /\ [u.sent EXCEPT ![t] = @ \o SubSeq(w, 1, n)] \in [Tunnels -> Seq(Nat)]
    BY <1>1, <1>3, <2>1 DEF Udp
  <2>3. f = [u EXCEPT !.waiting = [u.waiting EXCEPT ![t] = Rest(w, n)],
                      !.sent = [u.sent EXCEPT ![t] = @ \o SubSeq(w, 1, n)],
                      !.room = u.room - n]
    BY <1>4 DEF Udp
  <2>. HIDE DEF f
  <2>. QED  BY <1>2, <2>2, <2>3 DEF Udp
<1>6. /\ f.regd = u.regd /\ f.notify = u.notify /\ f.watched = u.watched
      /\ \A x \in Tunnels \ {t} : f.waiting[x] = u.waiting[x] /\ f.sent[x] = u.sent[x]
      /\ f.waiting[t] = Rest(w, n)
      /\ f.sent[t] = u.sent[t] \o SubSeq(w, 1, n)
  BY <1>4, ZenonT(60) DEF Udp
<1>7. f.sent[t] \o f.waiting[t] = u.sent[t] \o w
  <2>. DEFINE a == SubSeq(w, 1, n)
              b == Rest(w, n)
  <2>1. u.sent[t] \in Seq(Nat) /\ a \in Seq(Nat) /\ b \in Seq(Nat) /\ a \o b = w
    BY <1>1, <1>3
  <2>2. f.sent[t] = u.sent[t] \o a /\ f.waiting[t] = b
    BY <1>6
  <2>. HIDE DEF a, b, f
  <2>3. (u.sent[t] \o a) \o b = u.sent[t] \o (a \o b)
    BY <2>1, Grouping
  <2>. QED  BY <2>1, <2>2, <2>3
<1>8. IsPrefix(u.sent[t], f.sent[t])
  BY <1>1, <1>3, <1>6, Begins
<1>9. w = <<>> => f.waiting[t] = <<>>
  <2>1. w = <<>> => Len(Rest(w, n)) = 0
    BY <1>1, <1>2, <1>3, EmptySeq
  <2>. QED  BY <1>3, <1>6, <2>1, EmptySeq
<1>. QED  BY <1>5, <1>6, <1>7, <1>8, <1>9 DEF w

-----------------------------------------------------------------------------
(* Registration through the operators.                                     *)

\* What WatchedWhileWaiting says of a record of Udp and the tunnels that live.
Exact(u, live) ==
  /\ u.regd = {t \in Tunnels : u.waiting[t] # <<>>}
  /\ u.notify = u.regd /\ u.notify \subseteq live
  /\ u.watched <=> u.notify # {}

\* The group's list follows the registrations, and the socket is watched while
\* it is not empty.
Listed(u) == u.notify = u.regd /\ (u.watched <=> u.notify # {})

\* tryRegWriteEvent adds the sender everywhere and moves no datagram.
LEMMA RegAdds ==
  ASSUME NEW u \in Udp, NEW t \in Tunnels, Listed(u)
  PROVE  LET f == TryReg(u, t) IN
         /\ f \in Udp /\ Listed(f) /\ f.regd = u.regd \cup {t}
         /\ f.waiting = u.waiting /\ f.sent = u.sent /\ f.room = u.room
<1>. DEFINE f == TryReg(u, t)
<1>1. CASE t \in u.regd
  <2>1. f = u  BY <1>1 DEF TryReg
  <2>2. u.regd = u.regd \cup {t}  BY <1>1
  <2>. QED  BY <2>1, <2>2
<1>2. CASE t \notin u.regd
  <2>1. f = [u EXCEPT !.regd = u.regd \cup {t}, !.notify = u.notify \cup {t}, !.watched = TRUE]
    BY <1>2 DEF TryReg, GroupReg, Udp
  <2>2. /\ f.regd = u.regd \cup {t} /\ f.notify = u.notify \cup {t} /\ f.watched = TRUE
        /\ f.waiting = u.waiting /\ f.sent = u.sent /\ f.room = u.room
    BY <2>1 DEF Udp
  <2>4. u.regd \cup {t} \subseteq Tunnels /\ u.notify \cup {t} \subseteq Tunnels
    BY DEF Udp
  <2>. HIDE DEF f
  <2>5. f \in Udp
    BY <2>1, <2>4 DEF Udp
  <2>3. u.notify \cup {t} # {}
    OBVIOUS
  <2>6. Listed(f)
    BY <2>2, <2>3 DEF Listed
  <2>. QED  BY <2>2, <2>5, <2>6 DEF f
<1>. QED  BY <1>1, <1>2

\* tryUnregWriteEvent takes it away everywhere and moves no datagram.
LEMMA UnregRemoves ==
  ASSUME NEW u \in Udp, NEW t \in Tunnels, Listed(u)
  PROVE  LET f == TryUnreg(u, t) IN
         /\ f \in Udp /\ Listed(f) /\ f.regd = u.regd \ {t}
         /\ f.waiting = u.waiting /\ f.sent = u.sent /\ f.room = u.room
<1>. DEFINE f == TryUnreg(u, t)
<1>1. CASE t \notin u.regd
  <2>1. f = u  BY <1>1 DEF TryUnreg
  <2>2. u.regd = u.regd \ {t}  BY <1>1
  <2>. QED  BY <2>1, <2>2
<1>2. CASE t \in u.regd
  <2>1. t \in u.notify /\ u.watched = TRUE
    BY <1>2 DEF Listed, Udp
  <2>2. f = [u EXCEPT !.regd = u.regd \ {t}, !.notify = u.notify \ {t},
                      !.watched = (u.notify # {t})]
    BY <1>2, <2>1 DEF TryUnreg, GroupUnreg, Udp
  <2>3. (u.notify # {t}) <=> (u.notify \ {t} # {})
    BY <2>1
  <2>. QED  BY <2>2, <2>3, ZenonT(60) DEF Udp, Listed
<1>. QED  BY <1>1, <1>2

\* A flush leaves a sender registered exactly if it could not send everything.
LEMMA FlushIsExact ==
  ASSUME NEW u \in Udp, NEW t \in Tunnels, NEW live, Exact(u, live)
  PROVE  Flush(u, t) \in Udp /\ Exact(Flush(u, t), live)
<1>. DEFINE f == Push(u, t, <<>>)
<1>1. /\ f \in Udp
      /\ f.regd = u.regd /\ f.notify = u.notify /\ f.watched = u.watched
      /\ \A x \in Tunnels \ {t} : f.waiting[x] = u.waiting[x]
      /\ f.sent[t] \o f.waiting[t] = u.sent[t] \o (u.waiting[t] \o <<>>)
  <2>1. <<>> \in Seq(Nat)
    BY EmptySeq
  <2>. QED  BY <2>1, PushSplits
<1>2. u.waiting[t] = <<>> => f.waiting[t] = <<>>
  <2>1. u.waiting[t] \o <<>> = <<>> => f.waiting[t] = <<>>
    BY PushSplits, EmptySeq, ZenonT(60)
  <2>2. u.waiting[t] = <<>> => u.waiting[t] \o <<>> = <<>>
    BY EmptySeq, ConcatEmptySeq
  <2>. QED  BY <2>1, <2>2
<1>3. Listed(f)
  BY <1>1 DEF Exact, Listed
<1>. HIDE DEF f
<1>4. CASE f.waiting[t] = <<>>
  <2>. DEFINE g == TryUnreg(f, t)
  <2>1. /\ g \in Udp /\ Listed(g) /\ g.regd = f.regd \ {t} /\ g.waiting = f.waiting
    BY <1>1, <1>3, UnregRemoves
  <2>2. Flush(u, t) = g
    BY <1>4 DEF Flush, f
  <2>. HIDE DEF g
  <2>3. g.regd = {x \in Tunnels : g.waiting[x] # <<>>}
    <3>1. \A x \in Tunnels \ {t} : x \in g.regd <=> g.waiting[x] # <<>>
      BY <1>1, <2>1 DEF Exact
    <3>2. t \in g.regd <=> g.waiting[t] # <<>>
      BY <1>4, <2>1
    <3>3. g.regd \subseteq Tunnels
      BY <2>1 DEF Udp
    <3>. QED  BY <3>1, <3>2, <3>3
  <2>4. g.regd \subseteq live
    BY <1>1, <2>1 DEF Exact
  <2>. QED  BY <2>1, <2>2, <2>3, <2>4 DEF Exact, Listed
<1>5. CASE f.waiting[t] # <<>>
  <2>1. Flush(u, t) = f
    BY <1>5 DEF Flush, f
  <2>. QED  BY <1>1, <1>2, <1>5, <2>1, ZenonT(60) DEF Exact
<1>. QED  BY <1>4, <1>5

\* So does a send of a tunnel that lives.
LEMMA SendIsExact ==
  ASSUME NEW u \in Udp, NEW t \in Tunnels, NEW live, t \in live, Exact(u, live),
         NEW ds \in Seq(Nat)
  PROVE  Send(u, t, ds) \in Udp /\ Exact(Send(u, t, ds), live)
<1>. DEFINE f == Push(u, t, ds)
<1>1. /\ f \in Udp
      /\ f.regd = u.regd /\ f.notify = u.notify /\ f.watched = u.watched
      /\ \A x \in Tunnels \ {t} : f.waiting[x] = u.waiting[x]
  BY PushSplits
<1>2. Listed(f)
  BY <1>1 DEF Exact, Listed
<1>. HIDE DEF f
<1>3. CASE f.waiting[t] = <<>>
  <2>. DEFINE g == TryUnreg(f, t)
  <2>1. /\ g \in Udp /\ Listed(g) /\ g.regd = f.regd \ {t} /\ g.waiting = f.waiting
    BY <1>1, <1>2, UnregRemoves
  <2>2. Send(u, t, ds) = g
    BY <1>3 DEF Send, f
  <2>. HIDE DEF g
  <2>3. g.regd = {x \in Tunnels : g.waiting[x] # <<>>}
    <3>1. \A x \in Tunnels \ {t} : x \in g.regd <=> g.waiting[x] # <<>>
      BY <1>1, <2>1 DEF Exact
    <3>2. t \in g.regd <=> g.waiting[t] # <<>>
      BY <1>3, <2>1
    <3>3. g.regd \subseteq Tunnels
      BY <2>1 DEF Udp
    <3>. QED  BY <3>1, <3>2, <3>3
  <2>4. g.regd \subseteq live
    BY <1>1, <2>1 DEF Exact
  <2>. QED  BY <2>1, <2>2, <2>3, <2>4 DEF Exact, Listed
<1>4. CASE f.waiting[t] # <<>>
  <2>. DEFINE g == TryReg(f, t)
  <2>1. /\ g \in Udp /\ Listed(g) /\ g.regd = f.regd \cup {t} /\ g.waiting = f.waiting
    BY <1>1, <1>2, RegAdds
  <2>2. Send(u, t, ds) = g
    BY <1>4 DEF Send, f
  <2>. HIDE DEF g
  <2>3. g.regd = {x \in Tunnels : g.waiting[x] # <<>>}
    <3>1. \A x \in Tunnels \ {t} : x \in g.regd <=> g.waiting[x] # <<>>
      BY <1>1, <2>1 DEF Exact
    <3>2. t \in g.regd <=> g.waiting[t] # <<>>
      BY <1>4, <2>1
    <3>3. g.regd \subseteq Tunnels
      BY <2>1 DEF Udp
    <3>. QED  BY <3>1, <3>2, <3>3
  <2>4. g.regd \subseteq live
    BY <1>1, <2>1 DEF Exact
  <2>. QED  BY <2>1, <2>2, <2>3, <2>4 DEF Exact, Listed
<1>. QED  BY <1>3, <1>4

\* A sender that goes leaves nothing behind.
LEMMA DropIsExact ==
  ASSUME NEW u \in Udp, NEW t \in Tunnels, NEW live, Exact(u, live)
  PROVE  Drop(u, t) \in Udp /\ Exact(Drop(u, t), live \ {t})
<1>. DEFINE f == TryUnreg(u, t)
<1>1. Listed(u)
  BY DEF Exact, Listed
<1>2. /\ f \in Udp /\ Listed(f) /\ f.regd = u.regd \ {t} /\ f.waiting = u.waiting
  BY <1>1, UnregRemoves
<1>3. Drop(u, t) = [f EXCEPT !.waiting = [f.waiting EXCEPT ![t] = <<>>]]
  BY <1>2 DEF Drop, Udp
<1>. HIDE DEF f
<1>4. [f.waiting EXCEPT ![t] = <<>>] \in [Tunnels -> Seq(Nat)]
  BY <1>2, EmptySeq DEF Udp
<1>5. Drop(u, t) \in Udp
  BY <1>2, <1>3, <1>4 DEF Udp
<1>6. \A x \in Tunnels : Drop(u, t).waiting[x] = IF x = t THEN <<>> ELSE u.waiting[x]
  BY <1>2, <1>3 DEF Udp
<1>7. /\ Drop(u, t).regd = u.regd \ {t} /\ Drop(u, t).notify = f.notify
      /\ Drop(u, t).watched = f.watched
  BY <1>2, <1>3 DEF Udp
<1>8. Drop(u, t).regd = {x \in Tunnels : Drop(u, t).waiting[x] # <<>>}
  BY <1>6, <1>7 DEF Exact
<1>9. Drop(u, t).regd \subseteq live \ {t}
  BY <1>7 DEF Exact
<1>. QED  BY <1>2, <1>5, <1>7, <1>8, <1>9 DEF Exact, Listed

-----------------------------------------------------------------------------
(* The steps.                                                              *)

UdpInv == TypeOK /\ WatchedWhileWaiting

\* What WatchedWhileWaiting says, in the words of the lemmas.
LEMMA WatchedIsExact ==
  WatchedWhileWaiting <=> TypeOK /\ Exact(udp, Live)
BY DEF WatchedWhileWaiting, Exact

\* At first nobody waits and nobody is registered.
LEMMA UdpInitially == Init => UdpInv
<1>. SUFFICES ASSUME Init PROVE UdpInv
  OBVIOUS
<1>1. Nothing \in [Tunnels -> Seq(Nat)] /\ \A t \in Tunnels : Nothing[t] = <<>>
  BY EmptySeq DEF Nothing
<1>2. udp \in Udp
  BY <1>1, UdpSendersAssumption DEF Init, Udp
<1>3. TypeOK
  BY <1>1, <1>2, UdpSendersAssumption DEF Init, TypeOK
<1>4. Exact(udp, Live)
  BY <1>1 DEF Init, Exact
<1>. QED  BY <1>3, <1>4, WatchedIsExact DEF UdpInv

\* What KCP gives a tunnel is sent, or waits, or is held.
LEMMA OutputKeeps ==
  ASSUME TypeOK, Exact(udp, Live), NEW t \in Live, Output(t)
  PROVE  /\ given' \in [Tunnels -> 0 .. MaxGiven]
         /\ held' \in [Tunnels -> Seq(Nat)]
         /\ udp' \in Udp /\ Exact(udp', Live)
<1>. DEFINE d == given[t] + 1
<1>1. t \in Tunnels /\ d \in 1 .. MaxGiven /\ d \in Nat
  BY UdpSendersAssumption DEF Live, Output, TypeOK
<1>2. given' \in [Tunnels -> 0 .. MaxGiven]
  BY <1>1 DEF Output, TypeOK
<1>3. held[t] \in Seq(Nat) /\ <<d>> \in Seq(Nat)
  BY <1>1 DEF TypeOK
<1>. HIDE DEF d
<1>4. held[t] \o <<d>> \in Seq(Nat) /\ Append(held[t], d) \in Seq(Nat)
  BY <1>1, <1>3, ConcatProperties, AppendProperties
<1>5. CASE t \in settled'
  <2>1. udp' = Send(udp, t, held[t] \o <<d>>) /\ held' = [held EXCEPT ![t] = <<>>]
    BY <1>5 DEF Output, d
  <2>2. udp' \in Udp /\ Exact(udp', Live)
    BY <1>1, <1>4, <2>1, SendIsExact DEF TypeOK
  <2>3. held' \in [Tunnels -> Seq(Nat)]
    BY <2>1, EmptySeq DEF TypeOK
  <2>. QED  BY <1>2, <2>2, <2>3
<1>6. CASE t \notin settled'
  <2>1. udp' = udp /\ held' = [held EXCEPT ![t] = Append(@, d)]
    BY <1>6 DEF Output, d
  <2>2. held' \in [Tunnels -> Seq(Nat)]
    BY <1>1, <1>4, <2>1 DEF TypeOK
  <2>. QED  BY <1>2, <2>1, <2>2 DEF TypeOK
<1>. QED  BY <1>5, <1>6

\* Every step keeps the types, and the registration exact.
LEMMA UdpStep ==
  ASSUME UdpInv, [Next]_vars
  PROVE  UdpInv'
<1>. USE DEF UdpInv
<1>0. TypeOK /\ Exact(udp, Live)
  BY WatchedIsExact
<1>. SUFFICES TypeOK' /\ Exact(udp', Live')
  BY WatchedIsExact DEF WatchedWhileWaiting, Exact
<1>1. CASE UNCHANGED vars
  BY <1>0, <1>1 DEF vars, TypeOK, Live
<1>2. ASSUME NEW t \in Tunnels, Create(t)
      PROVE  TypeOK' /\ Exact(udp', Live')
  <2>1. TypeOK'
    BY <1>0, <1>2 DEF Create, TypeOK
  <2>2. Live \subseteq Live' /\ udp' = udp
    BY <1>0, <1>2 DEF Create, TypeOK, Live
  <2>. QED  BY <1>0, <2>1, <2>2 DEF Exact
<1>3. ASSUME NEW t \in Tunnels, Destroy(t)
      PROVE  TypeOK' /\ Exact(udp', Live')
  <2>1. udp' \in Udp /\ Exact(udp', Live \ {t})
    BY <1>0, <1>3, DropIsExact DEF Destroy, TypeOK
  <2>2. held' \in [Tunnels -> Seq(Nat)]
    BY <1>0, <1>3, EmptySeq DEF Destroy, TypeOK
  <2>3. TypeOK'
    BY <1>0, <1>3, <2>1, <2>2 DEF Destroy, TypeOK
  <2>4. Live' = Live \ {t}
    BY <1>0, <1>3 DEF Destroy, TypeOK, Live
  <2>. QED  BY <2>1, <2>3, <2>4
<1>4. ASSUME NEW t \in Tunnels, KcpOutputs(t)
      PROVE  TypeOK' /\ Exact(udp', Live')
  <2>1. t \in Live /\ Output(t) /\ Live' = Live
    BY <1>4 DEF KcpOutputs, Live
  <2>2. /\ given' \in [Tunnels -> 0 .. MaxGiven]
        /\ held' \in [Tunnels -> Seq(Nat)]
        /\ udp' \in Udp /\ Exact(udp', Live)
    BY <1>0, <2>1, OutputKeeps
  <2>. QED  BY <1>0, <1>4, <2>1, <2>2 DEF KcpOutputs, TypeOK
<1>5. ASSUME NEW t \in Tunnels, PeerHeard(t)
      PROVE  TypeOK' /\ Exact(udp', Live')
  <2>1. t \in Live /\ Live' = Live
    BY <1>5 DEF PeerHeard, Live
  <2>2. /\ given' \in [Tunnels -> 0 .. MaxGiven]
        /\ held' \in [Tunnels -> Seq(Nat)]
        /\ udp' \in Udp /\ Exact(udp', Live)
    <3>1. CASE Output(t)
      BY <1>0, <2>1, <3>1, OutputKeeps
    <3>2. CASE UNCHANGED <<given, held, udp>>
      BY <1>0, <3>2 DEF TypeOK
    <3>. QED  BY <1>5, <3>1, <3>2 DEF PeerHeard
  <2>. QED  BY <1>0, <1>5, <2>1, <2>2 DEF PeerHeard, TypeOK
<1>6. ASSUME NEW t \in Tunnels, Visit(t)
      PROVE  TypeOK' /\ Exact(udp', Live')
  <2>1. udp' \in Udp /\ Exact(udp', Live)
    BY <1>0, <1>6, FlushIsExact DEF Visit, TypeOK
  <2>2. Live' = Live
    BY <1>6 DEF Visit, Live
  <2>3. udp'.notify \subseteq Tunnels
    BY <2>1 DEF Udp
  <2>4. toVisit' \subseteq Tunnels /\ at' \in {"loop", "walk", "crashed", "down"}
    BY <1>0, <1>6, <2>3 DEF Visit, TypeOK
  <2>. QED  BY <1>0, <1>6, <2>1, <2>2, <2>4 DEF Visit, TypeOK
<1>7. CASE Shutdown
  <2>1. Nothing \in [Tunnels -> Seq(Nat)] /\ \A t \in Tunnels : Nothing[t] = <<>>
    BY EmptySeq DEF Nothing
  <2>2. udp' = [udp EXCEPT !.watched = FALSE, !.notify = {}, !.regd = {}, !.waiting = Nothing]
    BY <1>7 DEF Shutdown
  <2>3. udp' \in Udp
    BY <1>0, <2>1, <2>2 DEF TypeOK, Udp
  <2>4. TypeOK'
    BY <1>0, <1>7, <2>1, <2>3 DEF Shutdown, TypeOK
  <2>5. /\ udp'.watched = FALSE /\ udp'.notify = {} /\ udp'.regd = {}
        /\ udp'.waiting = Nothing
    BY <1>0, <2>2 DEF TypeOK, Udp
  <2>. QED  BY <2>1, <2>4, <2>5 DEF Exact
<1>8. CASE Writable \/ WalkEnds \/ RouteChanges
  <2>1. udp' = udp /\ Live' = Live
    BY <1>8 DEF Writable, WalkEnds, RouteChanges, Live
  <2>2. TypeOK'
    BY <1>0, <1>8 DEF Writable, WalkEnds, RouteChanges, TypeOK, Udp
  <2>. QED  BY <1>0, <2>1, <2>2
<1>9. CASE NetworkTakes
  <2>1. udp' = [udp EXCEPT !.room = udp.room + 1] /\ udp.room + 1 \in 0 .. Room
    BY <1>0, <1>9, UdpSendersAssumption DEF NetworkTakes, TypeOK, Udp
  <2>2. udp' \in Udp
    BY <1>0, <2>1 DEF TypeOK, Udp
  <2>3. TypeOK'
    BY <1>0, <1>9, <2>2 DEF NetworkTakes, TypeOK
  <2>4. /\ udp'.watched = udp.watched /\ udp'.notify = udp.notify
        /\ udp'.regd = udp.regd /\ udp'.waiting = udp.waiting
    BY <1>0, <2>1 DEF TypeOK, Udp
  <2>5. Live' = Live
    BY <1>9 DEF NetworkTakes, Live
  <2>. QED  BY <1>0, <2>3, <2>4, <2>5 DEF Exact
<1>. QED  BY <1>1, <1>2, <1>3, <1>4, <1>5, <1>6, <1>7, <1>8, <1>9 DEF Next

-----------------------------------------------------------------------------
\* The senders' registrations, the group's list and what the group asks of the
\* poller are exact in every reachable state: no datagram waits for an event that
\* is not asked for, and no sender that was deleted is called, whatever the walk
\* over a set that changes under it leaves out (kcp_tunnel.inl).
THEOREM AlwaysWatched == Spec => []WatchedWhileWaiting
<1>1. UdpInv => WatchedWhileWaiting
  BY DEF UdpInv
<1>. QED  BY UdpInitially, UdpStep, <1>1, PTL DEF Spec

-----------------------------------------------------------------------------
(* What a step does to the two ends of a queue.                            *)

\* A send hands on what waits and what is new, in order, and no other tunnel's.
LEMMA SendMoves ==
  ASSUME NEW u \in Udp, NEW t \in Tunnels, Listed(u), NEW ds \in Seq(Nat)
  PROVE  LET f == Send(u, t, ds) IN
         /\ f.sent[t] \o f.waiting[t] = u.sent[t] \o (u.waiting[t] \o ds)
         /\ IsPrefix(u.sent[t], f.sent[t])
         /\ \A x \in Tunnels \ {t} : f.waiting[x] = u.waiting[x] /\ f.sent[x] = u.sent[x]
<1>. DEFINE f == Push(u, t, ds)
<1>1. /\ f \in Udp
      /\ f.regd = u.regd /\ f.notify = u.notify /\ f.watched = u.watched
      /\ \A x \in Tunnels \ {t} : f.waiting[x] = u.waiting[x] /\ f.sent[x] = u.sent[x]
      /\ f.sent[t] \o f.waiting[t] = u.sent[t] \o (u.waiting[t] \o ds)
      /\ IsPrefix(u.sent[t], f.sent[t])
  BY PushSplits
<1>. HIDE DEF f
<1>2. Listed(f)
  BY <1>1 DEF Listed
<1>3. Send(u, t, ds) = TryUnreg(f, t) \/ Send(u, t, ds) = TryReg(f, t)
  BY DEF Send, f
<1>4. Send(u, t, ds).waiting = f.waiting /\ Send(u, t, ds).sent = f.sent
  BY <1>1, <1>2, <1>3, RegAdds, UnregRemoves
<1>. QED  BY <1>1, <1>4

\* A flush is a send of nothing new, as far as datagrams move.
LEMMA FlushMoves ==
  ASSUME NEW u \in Udp, NEW t \in Tunnels, Listed(u)
  PROVE  LET f == Flush(u, t) IN
         /\ f.sent[t] \o f.waiting[t] = u.sent[t] \o u.waiting[t]
         /\ IsPrefix(u.sent[t], f.sent[t])
         /\ \A x \in Tunnels \ {t} : f.waiting[x] = u.waiting[x] /\ f.sent[x] = u.sent[x]
<1>. DEFINE f == Push(u, t, <<>>)
<1>0. <<>> \in Seq(Nat) /\ u.waiting[t] \in Seq(Nat)
  BY EmptySeq DEF Udp
<1>1. /\ f \in Udp
      /\ f.regd = u.regd /\ f.notify = u.notify /\ f.watched = u.watched
      /\ \A x \in Tunnels \ {t} : f.waiting[x] = u.waiting[x] /\ f.sent[x] = u.sent[x]
      /\ f.sent[t] \o f.waiting[t] = u.sent[t] \o (u.waiting[t] \o <<>>)
      /\ IsPrefix(u.sent[t], f.sent[t])
  BY <1>0, PushSplits
<1>2. u.waiting[t] \o <<>> = u.waiting[t]
  BY <1>0, ConcatEmptySeq
<1>. HIDE DEF f
<1>3. Listed(f)
  BY <1>1 DEF Listed
<1>4. Flush(u, t) = TryUnreg(f, t) \/ Flush(u, t) = f
  BY DEF Flush, f
<1>5. Flush(u, t).waiting = f.waiting /\ Flush(u, t).sent = f.sent
  BY <1>1, <1>3, <1>4, UnregRemoves
<1>. QED  BY <1>1, <1>2, <1>5

\* What begins the numbers from one on is numbers from one on.
LEMMA FirstPart ==
  ASSUME NEW s \in Seq(Nat), NEW q \in Seq(Nat), NEW g \in Nat, s \o q = Numbers(0, g)
  PROVE  Len(s) <= g /\ s \o Numbers(Len(s), g - Len(s)) = Numbers(0, g)
<1>1. /\ Len(s) \in Nat /\ Len(q) \in Nat /\ Len(s \o q) = Len(s) + Len(q)
      /\ \A i \in 1 .. Len(s) + Len(q) :
           (s \o q)[i] = IF i <= Len(s) THEN s[i] ELSE q[i - Len(s)]
  BY LenProperties, ConcatProperties
<1>2. Len(s) <= g
  BY <1>1, NumbersAreBytes
<1>3. Numbers(0, Len(s)) \in Seq(Nat) /\ Len(Numbers(0, Len(s))) = Len(s)
  BY <1>1, NumbersAreBytes
<1>4. \A i \in 1 .. Len(s) : s[i] = Numbers(0, Len(s))[i]
  <2>. TAKE i \in 1 .. Len(s)
  <2>1. (s \o q)[i] = s[i] /\ i \in 1 .. g
    BY <1>1, <1>2
  <2>. QED  BY <2>1 DEF Numbers
<1>5. s = Numbers(0, Len(s))
  BY <1>3, <1>4, SeqEqual
<1>6. g - Len(s) \in Nat /\ Len(s) + (g - Len(s)) = g
  BY <1>1, <1>2
<1>. QED  BY <1>1, <1>2, <1>5, <1>6, NumbersGrow

-----------------------------------------------------------------------------
(* The steps.                                                              *)

\* What was sent and what waits is what was given.
InOrder == udp.sent[This] \o Unsent = Given

\* Only a tunnel that lives keeps datagrams.
OnlyLiveHolds == This \notin Live => held[This] = <<>>

QueueInv == UdpInv /\ InOrder /\ OnlyLiveHolds

\* The types of the parts of the queue.
LEMMA QueueTypes ==
  ASSUME TypeOK
  PROVE  /\ udp \in Udp /\ given[This] \in Nat
         /\ udp.sent[This] \in Seq(Nat) /\ udp.waiting[This] \in Seq(Nat)
         /\ held[This] \in Seq(Nat) /\ life[This] \in {"new", "live", "gone"}
BY UdpQueuesAssumption, UdpSendersAssumption DEF TypeOK, Udp

\* At first the queue is empty.
LEMMA QueueInitially == Init => QueueInv /\ Queue!Init
<1>. SUFFICES ASSUME Init PROVE QueueInv /\ Queue!Init
  OBVIOUS
<1>1. given[This] = 0 /\ udp.sent[This] = <<>> /\ udp.waiting[This] = <<>>
      /\ held[This] = <<>> /\ life[This] = "new"
  BY UdpQueuesAssumption DEF Init, Nothing
<1>2. Given = <<>>
  <2>1. Numbers(0, 0) \in Seq(Nat) /\ Len(Numbers(0, 0)) = 0
    BY NumbersAreBytes
  <2>. QED  BY <1>1, <2>1, EmptySeq DEF Given
<1>3. <<>> \o <<>> = <<>>
  BY EmptySeq, ConcatEmptySeq
<1>4. Unsent = <<>>
  BY <1>1, <1>3 DEF Unsent
<1>. QED  BY <1>1, <1>2, <1>3, <1>4, UdpInitially
        DEF QueueInv, InOrder, OnlyLiveHolds, Queue!Init

\* A step that leaves the tunnel's counts, queue and life alone.
LEMMA QuietStep ==
  ASSUME QueueInv,
         given'[This] = given[This], held'[This] = held[This],
         (This \in Live') <=> (This \in Live), (life'[This] = "gone") <=> (life[This] = "gone"),
         IsPrefix(udp.sent[This], udp'.sent[This]), udp'.sent[This] \in Seq(Nat),
         udp'.waiting[This] \in Seq(Nat),
         udp'.sent[This] \o udp'.waiting[This] = udp.sent[This] \o udp.waiting[This],
         life[This] = "gone" => udp'.sent[This] = udp.sent[This]
  PROVE  InOrder' /\ OnlyLiveHolds' /\ IsPrefix(Given, Given') /\ Given' = Given
<1>. USE DEF QueueInv
<1>1. /\ udp.sent[This] \in Seq(Nat) /\ udp.waiting[This] \in Seq(Nat)
      /\ held[This] \in Seq(Nat) /\ given[This] \in Nat
  BY QueueTypes DEF UdpInv
<1>2. Given' = Given
  BY DEF Given
<1>3. Given \in Seq(Nat)
  BY <1>1, NumbersAreBytes DEF Given
<1>4. IsPrefix(Given, Given')
  <2>1. <<>> \in Seq(Nat) /\ Given \o <<>> = Given
    BY <1>3, EmptySeq, ConcatEmptySeq
  <2>. QED  BY <1>2, <1>3, <2>1, Begins
<1>5. InOrder'
  <2>1. CASE life[This] = "gone"
    BY <1>2, <2>1 DEF InOrder, Unsent
  <2>2. CASE life[This] # "gone"
    <3>1. udp'.sent[This] \o (udp'.waiting[This] \o held[This])
            = udp.sent[This] \o (udp.waiting[This] \o held[This])
      <4>1. (udp'.sent[This] \o udp'.waiting[This]) \o held[This]
              = udp'.sent[This] \o (udp'.waiting[This] \o held[This])
        BY <1>1, Grouping
      <4>2. (udp.sent[This] \o udp.waiting[This]) \o held[This]
              = udp.sent[This] \o (udp.waiting[This] \o held[This])
        BY <1>1, Grouping, ZenonT(60)
      <4>. QED  BY <4>1, <4>2
    <3>. QED  BY <1>2, <2>2, <3>1 DEF InOrder, Unsent
  <2>. QED  BY <2>1, <2>2
<1>. QED  BY <1>2, <1>4, <1>5 DEF OnlyLiveHolds

\* What KCP gives goes behind all that was given before.
LEMMA OutputInOrder ==
  ASSUME QueueInv, NEW t \in Live, Output(t), UNCHANGED life
  PROVE  InOrder' /\ OnlyLiveHolds' /\ IsPrefix(Given, Given')
         /\ IsPrefix(udp.sent[This], udp'.sent[This])
<1>. USE DEF QueueInv
<1>0. TypeOK /\ Listed(udp) /\ t \in Tunnels /\ Live' = Live
  BY WatchedIsExact DEF UdpInv, Exact, Listed, Live
<1>1. /\ udp \in Udp /\ given[This] \in Nat /\ given[t] \in Nat
      /\ udp.sent[This] \in Seq(Nat) /\ udp.waiting[This] \in Seq(Nat)
      /\ held[This] \in Seq(Nat) /\ held[t] \in Seq(Nat)
  BY <1>0, QueueTypes DEF TypeOK
<1>2. udp.sent[This] \o <<>> = udp.sent[This] /\ <<>> \in Seq(Nat)
  BY <1>1, EmptySeq, ConcatEmptySeq
<1>3. IsPrefix(udp.sent[This], udp.sent[This])
  BY <1>1, <1>2, Begins
<1>4. CASE t # This
  <2>1. given'[This] = given[This] /\ held'[This] = held[This]
    BY <1>0, <1>4, UdpQueuesAssumption DEF Output, TypeOK
  <2>2. udp'.sent[This] = udp.sent[This] /\ udp'.waiting[This] = udp.waiting[This]
    <3>1. CASE t \in settled'
      <4>. DEFINE ds == held[t] \o <<given[t] + 1>>
      <4>1. ds \in Seq(Nat)
        BY <1>1, ConcatProperties
      <4>2. udp' = Send(udp, t, ds)
        BY <3>1 DEF Output
      <4>. HIDE DEF ds
      <4>3. \A x \in Tunnels \ {t} :
              Send(udp, t, ds).waiting[x] = udp.waiting[x] /\ Send(udp, t, ds).sent[x] = udp.sent[x]
        BY <1>0, <1>1, <4>1, SendMoves
      <4>4. This \in Tunnels \ {t}
        BY <1>4, UdpQueuesAssumption
      <4>. QED  BY <4>2, <4>3, <4>4
    <3>2. CASE t \notin settled'
      BY <3>2 DEF Output
    <3>. QED  BY <3>1, <3>2
  <2>. QED  BY <1>0, <1>1, <1>3, <2>1, <2>2, QuietStep
<1>5. CASE t = This
  <2>. DEFINE d == given[This] + 1
              g == given[This]
  <2>1. d \in Nat /\ <<d>> \in Seq(Nat) /\ given'[This] = g + 1
    BY <1>0, <1>1, <1>5 DEF Output, TypeOK
  <2>2. Numbers(g, 1) = <<d>>
    <3>1. /\ Numbers(g, 1) \in Seq(Nat) /\ Len(Numbers(g, 1)) = 1
          /\ Numbers(g, 1)[1] = d
      <4>1. 1 \in 1 .. 1
        OBVIOUS
      <4>2. Numbers(g, 1)[1] = d
        BY <4>1 DEF Numbers
      <4>. QED  BY <1>1, <4>2, NumbersAreBytes
    <3>2. <<d>> \in Seq(Nat) /\ Len(<<d>>) = 1 /\ <<d>>[1] = d
      BY <2>1
    <3>. HIDE DEF d
    <3>3. \A i \in 1 .. Len(<<d>>) : Numbers(g, 1)[i] = <<d>>[i]
      BY <3>1, <3>2
    <3>. QED  BY <3>1, <3>2, <3>3, SeqEqual
  <2>3. Given' = Given \o <<d>> /\ Given \in Seq(Nat)
    <3>1. Numbers(0, g + 1) = Numbers(0, g) \o Numbers(g, 1)
      BY <1>1, NumbersGrow
    <3>2. Numbers(0, g) \in Seq(Nat)
      BY <1>1, NumbersAreBytes
    <3>3. Given = Numbers(0, g) /\ Given' = Numbers(0, g + 1)
      BY <2>1 DEF Given
    <3>. QED  BY <2>2, <3>1, <3>2, <3>3
  <2>. HIDE DEF d
  <2>4. IsPrefix(Given, Given')
    BY <2>1, <2>3, Begins
  <2>5. life[This] # "gone" /\ life'[This] # "gone" /\ This \in Live'
    BY <1>0, <1>5 DEF Live
  <2>6. udp.sent[This] \o (udp.waiting[This] \o held[This]) = Given
    BY <2>5 DEF InOrder, Unsent
  <2>7. held[This] \o <<d>> \in Seq(Nat)
    BY <1>1, <2>1, ConcatProperties
  <2>8. udp.sent[This] \o (udp.waiting[This] \o (held[This] \o <<d>>)) = Given'
    <3>. DEFINE q == udp.waiting[This] \o held[This]
    <3>1. udp.waiting[This] \o (held[This] \o <<d>>) = q \o <<d>>
      BY <1>1, <2>1, Grouping, ZenonT(60)
    <3>2. q \in Seq(Nat) /\ udp.sent[This] \o q = Given
      BY <1>1, <2>6, ConcatProperties
    <3>. HIDE DEF q
    <3>3. (udp.sent[This] \o q) \o <<d>> = udp.sent[This] \o (q \o <<d>>)
      BY <1>1, <2>1, <3>2, Grouping, ZenonT(60)
    <3>. QED  BY <2>3, <3>1, <3>2, <3>3
  <2>9. CASE This \in settled'
    <3>1. udp' = Send(udp, This, held[This] \o <<d>>) /\ held' = [held EXCEPT ![This] = <<>>]
      BY <1>5, <2>9 DEF Output, d
    <3>2. /\ udp'.sent[This] \o udp'.waiting[This]
               = udp.sent[This] \o (udp.waiting[This] \o (held[This] \o <<d>>))
          /\ IsPrefix(udp.sent[This], udp'.sent[This])
      BY <1>0, <1>1, <2>7, <3>1, SendMoves, UdpQueuesAssumption
    <3>3. udp' \in Udp
      BY <1>0, <1>5, <2>7, <3>1, SendIsExact, WatchedIsExact, UdpQueuesAssumption DEF UdpInv, TypeOK
    <3>4. udp'.waiting[This] \o <<>> = udp'.waiting[This] /\ held'[This] = <<>>
      BY <1>0, <3>1, <3>3, ConcatEmptySeq, UdpQueuesAssumption DEF Udp, TypeOK
    <3>5. InOrder'
      BY <2>5, <2>8, <3>2, <3>4 DEF InOrder, Unsent
    <3>. QED  BY <2>4, <2>5, <3>2, <3>5 DEF OnlyLiveHolds
  <2>10. CASE This \notin settled'
    <3>1. udp' = udp /\ held'[This] = Append(held[This], d)
      BY <1>0, <1>5, <2>10, UdpQueuesAssumption DEF Output, TypeOK, d
    <3>2. Append(held[This], d) = held[This] \o <<d>>
      BY <1>1, <2>1, AppendIsConcat
    <3>3. InOrder'
      BY <2>5, <2>8, <3>1, <3>2 DEF InOrder, Unsent
    <3>. QED  BY <1>3, <2>4, <2>5, <3>1, <3>3 DEF OnlyLiveHolds
  <2>. QED  BY <2>9, <2>10
<1>. QED  BY <1>4, <1>5

\* A walk hands on what waits, in order.
LEMMA VisitInOrder ==
  ASSUME QueueInv, UdpInv', NEW t \in Tunnels, Visit(t)
  PROVE  InOrder' /\ OnlyLiveHolds' /\ IsPrefix(Given, Given')
         /\ IsPrefix(udp.sent[This], udp'.sent[This])
<1>. USE DEF QueueInv
<1>1. /\ udp \in Udp /\ udp.sent[This] \in Seq(Nat) /\ udp.waiting[This] \in Seq(Nat)
      /\ udp'.sent[This] \in Seq(Nat) /\ udp'.waiting[This] \in Seq(Nat)
  BY UdpQueuesAssumption DEF UdpInv, TypeOK, Udp
<1>2. Listed(udp) /\ (This \notin Live => udp.waiting[This] = <<>>)
  BY WatchedIsExact, UdpQueuesAssumption DEF UdpInv, Exact, Listed
<1>3. udp' = Flush(udp, t) /\ UNCHANGED <<life, given, held>>
  BY DEF Visit
<1>4. udp.sent[This] \o <<>> = udp.sent[This] /\ <<>> \in Seq(Nat)
  BY <1>1, EmptySeq, ConcatEmptySeq
<1>5. IsPrefix(udp.sent[This], udp.sent[This])
  BY <1>1, <1>4, Begins
<1>6. /\ IsPrefix(udp.sent[This], udp'.sent[This])
      /\ udp'.sent[This] \o udp'.waiting[This] = udp.sent[This] \o udp.waiting[This]
  <2>1. CASE t = This
    BY <1>1, <1>2, <1>3, <2>1, FlushMoves
  <2>2. CASE t # This
    <3>1. \A x \in Tunnels \ {t} :
            Flush(udp, t).waiting[x] = udp.waiting[x] /\ Flush(udp, t).sent[x] = udp.sent[x]
      BY <1>1, <1>2, FlushMoves
    <3>. QED  BY <1>3, <1>5, <2>2, <3>1, UdpQueuesAssumption
  <2>. QED  BY <2>1, <2>2
<1>7. life[This] = "gone" => udp'.sent[This] = udp.sent[This]
  <2>. SUFFICES ASSUME life[This] = "gone" PROVE udp'.sent[This] = udp.sent[This]
    OBVIOUS
  <2>1. This \notin Live /\ This \notin Live'
    BY <1>3 DEF Live
  <2>2. udp.waiting[This] = <<>> /\ udp'.waiting[This] = <<>>
    BY <1>2, <2>1, WatchedIsExact, UdpQueuesAssumption
       DEF UdpInv, WatchedWhileWaiting
  <2>3. udp'.sent[This] \o <<>> = udp'.sent[This]
    BY <1>1, ConcatEmptySeq
  <2>. QED  BY <1>4, <1>6, <2>2, <2>3
<1>8. Live' = Live
  BY <1>3 DEF Live
<1>. QED  BY <1>1, <1>3, <1>6, <1>7, <1>8, QuietStep

\* When a tunnel goes, what it had not sent is lost, and nothing else.
LEMMA GoesInOrder ==
  ASSUME QueueInv, UdpInv', life[This] = "live", life'[This] = "gone",
         given' = given, held'[This] = <<>>, udp'.sent = udp.sent
  PROVE  InOrder' /\ OnlyLiveHolds' /\ IsPrefix(Given, Given')
         /\ IsPrefix(udp.sent[This], udp'.sent[This])
<1>. USE DEF QueueInv
<1>1. /\ udp.sent[This] \in Seq(Nat) /\ udp.waiting[This] \in Seq(Nat)
      /\ held[This] \in Seq(Nat) /\ given[This] \in Nat
  BY QueueTypes DEF UdpInv
<1>2. Given' = Given /\ Given \in Seq(Nat)
  BY <1>1, NumbersAreBytes DEF Given
<1>3. udp.sent[This] \o <<>> = udp.sent[This] /\ Given \o <<>> = Given /\ <<>> \in Seq(Nat)
  BY <1>1, <1>2, EmptySeq, ConcatEmptySeq
<1>4. IsPrefix(udp.sent[This], udp.sent[This]) /\ IsPrefix(Given, Given)
  BY <1>1, <1>2, <1>3, Begins
<1>5. udp.waiting[This] \o held[This] \in Seq(Nat)
  BY <1>1, ConcatProperties
<1>6. udp.sent[This] \o (udp.waiting[This] \o held[This]) = Numbers(0, given[This])
  BY DEF InOrder, Unsent, Given
<1>7. udp.sent[This] \o Numbers(Len(udp.sent[This]), given[This] - Len(udp.sent[This]))
        = Numbers(0, given[This])
  BY <1>1, <1>5, <1>6, FirstPart
<1>8. InOrder'
  BY <1>7 DEF InOrder, Unsent, Given
<1>. QED  BY <1>2, <1>4, <1>8 DEF OnlyLiveHolds

\* Every step is a step of the queue.
LEMMA StepInOrder ==
  ASSUME QueueInv, UdpInv', [Next]_vars
  PROVE  InOrder' /\ OnlyLiveHolds' /\ IsPrefix(Given, Given')
         /\ IsPrefix(udp.sent[This], udp'.sent[This])
<1>. USE DEF QueueInv
<1>0. /\ TypeOK /\ udp \in Udp /\ given[This] \in Nat
      /\ udp.sent[This] \in Seq(Nat) /\ udp.waiting[This] \in Seq(Nat)
      /\ held[This] \in Seq(Nat) /\ life[This] \in {"new", "live", "gone"}
  BY QueueTypes DEF UdpInv
<1>1. udp.sent[This] \o <<>> = udp.sent[This] /\ <<>> \in Seq(Nat)
  BY <1>0, EmptySeq, ConcatEmptySeq
<1>2. IsPrefix(udp.sent[This], udp.sent[This])
  BY <1>0, <1>1, Begins
<1>3. ASSUME UNCHANGED <<given, held, life>>, udp'.sent = udp.sent, udp'.waiting = udp.waiting
      PROVE  InOrder' /\ OnlyLiveHolds' /\ IsPrefix(Given, Given')
             /\ IsPrefix(udp.sent[This], udp'.sent[This])
  BY <1>0, <1>2, <1>3, QuietStep DEF Live
<1>4. CASE \/ UNCHANGED vars \/ Writable \/ WalkEnds \/ RouteChanges
  BY <1>3, <1>4 DEF vars, Writable, WalkEnds, RouteChanges
<1>5. CASE NetworkTakes
  <2>1. udp'.sent = udp.sent /\ udp'.waiting = udp.waiting
    BY <1>0, <1>5 DEF NetworkTakes, Udp
  <2>. QED  BY <1>3, <1>5, <2>1 DEF NetworkTakes
<1>6. ASSUME NEW t \in Tunnels, Create(t)
      PROVE  InOrder' /\ OnlyLiveHolds' /\ IsPrefix(Given, Given')
             /\ IsPrefix(udp.sent[This], udp'.sent[This])
  <2>1. /\ UNCHANGED <<given, held, udp>>
        /\ life'[This] = "gone" <=> life[This] = "gone"
        /\ This \in Live => This \in Live'
    BY <1>0, <1>6, UdpQueuesAssumption DEF Create, TypeOK, Live
  <2>2. Given' = Given /\ Given \in Seq(Nat)
    BY <1>0, <2>1, NumbersAreBytes DEF Given
  <2>3. Unsent' = Unsent
    <3>1. CASE life[This] = "gone"
      BY <2>1, <3>1 DEF Unsent
    <3>2. CASE life[This] # "gone"
      BY <2>1, <3>2 DEF Unsent
    <3>. QED  BY <3>1, <3>2
  <2>4. Given \o <<>> = Given
    BY <2>2, ConcatEmptySeq
  <2>5. IsPrefix(Given, Given')
    BY <1>1, <2>2, <2>4, Begins
  <2>6. InOrder'
    BY <2>1, <2>2, <2>3 DEF InOrder
  <2>7. OnlyLiveHolds'
    BY <2>1 DEF OnlyLiveHolds
  <2>. QED  BY <1>2, <2>1, <2>5, <2>6, <2>7
<1>7. ASSUME NEW t \in Tunnels, Destroy(t)
      PROVE  InOrder' /\ OnlyLiveHolds' /\ IsPrefix(Given, Given')
             /\ IsPrefix(udp.sent[This], udp'.sent[This])
  <2>1. Exact(udp, Live) /\ Listed(udp)
    BY WatchedIsExact DEF UdpInv, Exact, Listed
  <2>. DEFINE f == TryUnreg(udp, t)
  <2>2. f \in Udp /\ f.waiting = udp.waiting /\ f.sent = udp.sent
    BY <1>0, <2>1, UnregRemoves
  <2>3. udp' = [f EXCEPT !.waiting = [f.waiting EXCEPT ![t] = <<>>]]
    BY <1>7, <2>2 DEF Destroy, Drop, Udp
  <2>. HIDE DEF f
  <2>4. udp'.sent = udp.sent /\ udp'.waiting = [udp.waiting EXCEPT ![t] = <<>>]
    BY <2>2, <2>3 DEF Udp
  <2>5. CASE t = This
    <3>1. life[This] = "live" /\ life'[This] = "gone" /\ given' = given /\ held'[This] = <<>>
      BY <1>0, <1>7, <2>5, UdpQueuesAssumption DEF Destroy, TypeOK, Live
    <3>. QED  BY <2>4, <3>1, GoesInOrder
  <2>6. CASE t # This
    <3>1. /\ given' = given /\ held'[This] = held[This] /\ life'[This] = life[This]
          /\ udp'.waiting[This] = udp.waiting[This]
      BY <1>0, <1>7, <2>4, <2>6, UdpQueuesAssumption DEF Destroy, TypeOK, Udp
    <3>. QED  BY <1>0, <1>2, <2>4, <3>1, QuietStep, UdpQueuesAssumption DEF Live
  <2>. QED  BY <2>5, <2>6
<1>8. ASSUME NEW t \in Tunnels, KcpOutputs(t)
      PROVE  InOrder' /\ OnlyLiveHolds' /\ IsPrefix(Given, Given')
             /\ IsPrefix(udp.sent[This], udp'.sent[This])
  BY <1>8, OutputInOrder DEF KcpOutputs
<1>9. ASSUME NEW t \in Tunnels, PeerHeard(t)
      PROVE  InOrder' /\ OnlyLiveHolds' /\ IsPrefix(Given, Given')
             /\ IsPrefix(udp.sent[This], udp'.sent[This])
  <2>1. CASE Output(t)
    BY <1>9, <2>1, OutputInOrder DEF PeerHeard
  <2>2. CASE UNCHANGED <<given, held, udp>>
    BY <1>3, <1>9, <2>2 DEF PeerHeard
  <2>. QED  BY <1>9, <2>1, <2>2 DEF PeerHeard
<1>10. ASSUME NEW t \in Tunnels, Visit(t)
       PROVE  InOrder' /\ OnlyLiveHolds' /\ IsPrefix(Given, Given')
              /\ IsPrefix(udp.sent[This], udp'.sent[This])
  BY <1>10, VisitInOrder
<1>11. CASE Shutdown
  <2>1. /\ udp'.sent = udp.sent /\ udp'.waiting[This] = <<>> /\ held'[This] = <<>>
        /\ given' = given
    BY <1>0, <1>11, UdpQueuesAssumption DEF Shutdown, Nothing, Udp
  <2>2. CASE This \in Live
    <3>1. life[This] = "live" /\ life'[This] = "gone"
      BY <1>11, <2>2, UdpQueuesAssumption DEF Shutdown, Live
    <3>. QED  BY <2>1, <3>1, GoesInOrder
  <2>3. CASE This \notin Live
    <3>1. udp.waiting[This] = <<>> /\ held[This] = <<>>
      BY <2>3, WatchedIsExact, UdpQueuesAssumption DEF UdpInv, Exact, OnlyLiveHolds
    <3>2. life'[This] = life[This]
      BY <1>11, <2>3, UdpQueuesAssumption DEF Shutdown
    <3>. QED  BY <1>0, <1>2, <2>1, <3>1, <3>2, QuietStep, UdpQueuesAssumption DEF Live
  <2>. QED  BY <2>2, <2>3
<1>. QED  BY <1>4, <1>5, <1>6, <1>7, <1>8, <1>9, <1>10, <1>11 DEF Next

-----------------------------------------------------------------------------
\* The sender of every tunnel implements Fifo: what KCP gives it goes to the
\* socket in order and once, whether it waits for an address, for room or for a
\* route, and whichever senders a walk leaves out (udppacket_sender.cpp).
THEOREM SenderIsFifo == Spec => DatagramsInOrder
<1>1. Init => QueueInv /\ Queue!Init
  BY QueueInitially
<1>2. QueueInv /\ [Next]_vars => QueueInv' /\ [Queue!Next]_<<Given, Unsent, udp.sent[This]>>
  <2>. SUFFICES ASSUME QueueInv, [Next]_vars
                PROVE  QueueInv' /\ Queue!Next
    OBVIOUS
  <2>1. UdpInv'
    BY UdpStep DEF QueueInv
  <2>2. /\ InOrder' /\ OnlyLiveHolds' /\ IsPrefix(Given, Given')
        /\ IsPrefix(udp.sent[This], udp'.sent[This])
    BY <2>1, StepInOrder
  <2>3. Given' = udp'.sent[This] \o Unsent'
    BY <2>2 DEF InOrder
  <2>4. /\ Queue!IsPrefix(Given, Given')
        /\ Queue!IsPrefix(udp.sent[This], udp'.sent[This])
    BY <2>2 DEF IsPrefix, Queue!IsPrefix
  <2>5. Queue!Next
    BY <2>3, <2>4 DEF Queue!Next
  <2>. QED  BY <2>1, <2>2, <2>5 DEF QueueInv
<1>. QED  BY <1>1, <1>2, PTL DEF Spec, DatagramsInOrder, Queue!Spec, Queue!vars
=============================================================================
