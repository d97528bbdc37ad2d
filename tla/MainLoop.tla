------------------------------ MODULE MainLoop ------------------------------
(***************************************************************************)
(* The main loop of client.cpp and server.cpp in time, with one tunnel:    *)
(* how long a turn waits for events, when the tunnel and the timers are    *)
(* looked at, and when a server gives a silent client up.  The clock       *)
(* counts modulo ClockMod and starts anywhere; handlers take time; and the *)
(* process may be stopped for a while, as a machine that sleeps.           *)
(*                                                                         *)
(* What the client's run lets happen to the tunnel, the server's leaves    *)
(* out, and the timers belong to the server.                               *)
(***************************************************************************)
EXTENDS KcpTimers, SequencesExt

CONSTANTS
  None,
  MaxWait,      \* MAX_WAIT: how long a loop without work waits
  HeartBeat,    \* HEARTBEAT_INTERVAL
  ConnCheck,    \* CONNCHECK_INTERVAL
  MaxWork,      \* bound: how long the handlers of a turn take
  MaxSegs,      \* bound: segments of the client's tunnel
  MaxAge,       \* bound: how far an age is counted
  Naps          \* how long a process may be stopped

VARIABLES
  clock,     \* core::getClock()
  role,      \* "client" or "server"
  at,        \* "poll", "handling", "timers"
  curClock,  \* curClock
  wait,      \* what is left of maxWait
  worked,    \* the time the handlers of this turn took
  nextKcp,   \* nextKcpUpdateInterval
  tunnel,    \* the tunnel of the only session, or None
  beat,      \* the session's timers and its HeartBeatRecord
  napped     \* for how long the process was stopped during the session

vars == <<clock, role, at, curClock, wait, worked, nextKcp, tunnel, beat, napped>>

ASSUME MainLoopAssumption ==
  /\ {MaxWait, HeartBeat, ConnCheck, MaxAge} \subseteq Nat \ {0}
  /\ {MaxWork, MaxSegs} \subseteq Nat
  /\ Interval <= MaxWait /\ ConnCheck <= HeartBeat /\ HeartBeat * 4 <= MaxAge
  /\ 2 * (Interval + MaxWork) <= HeartBeat /\ 4 * HeartBeat < ClockMod
  /\ Naps \in [{"client", "server"} -> SUBSET (1 .. ClockMod - 1)]
  /\ \A d \in Naps["server"] \cup {0} :   \* its timers stay in half of the clock
       2 * (HeartBeat + MaxWait + MaxWork + d) < ClockMod

ConnTimeout == HeartBeat * 4    \* CONNTIMEOUT_TIME
Age == 0 .. MaxAge
Older(age, d) == Min({age + d, MaxAge})
Forever == ClockMod             \* 0xFFFFFFFF

\* packetSentTime, packetRecvTime, the expiry of the two timers; then whether
\* an answer is due, how long since a request and an answer, and whether the
\* clock started again since the answer.
NewBeat(now) ==
  [sent |-> 0, recv |-> 0, beatAt |-> After(now, HeartBeat), checkAt |-> After(now, ConnCheck),
   asked |-> FALSE, sentAge |-> 0, silence |-> 0, wrapped |-> FALSE, over |-> FALSE]
NoBeat ==
  [sent |-> 0, recv |-> 0, beatAt |-> 0, checkAt |-> 0,
   asked |-> FALSE, sentAge |-> 0, silence |-> 0, wrapped |-> FALSE, over |-> FALSE]

TypeOK ==
  /\ clock \in Time /\ role \in {"client", "server"}
  /\ at \in {"poll", "handling", "timers"}
  /\ curClock \in Time
  /\ wait \in 0 .. MaxWait
  /\ worked \in 0 .. MaxWork
  /\ nextKcp \in 0 .. Interval \cup {Forever}
  /\ tunnel = None \/ tunnel \in Timers(Age, MaxSegs)
  /\ beat \in [sent : Time, recv : Time, beatAt : Time, checkAt : Time, asked : BOOLEAN,
               sentAge : Age, silence : Age, wrapped : BOOLEAN, over : BOOLEAN]
  /\ napped \in 0 .. ClockMod - 1

\* A loop that has just read the clock, before its first session.
Init ==
  /\ clock \in Time /\ role \in {"client", "server"}
  /\ at = "poll" /\ curClock = clock /\ wait = 0 /\ worked = 0 /\ nextKcp = 0
  /\ tunnel = None /\ beat = NoBeat /\ napped = 0

-----------------------------------------------------------------------------
(* Time.                                                                   *)

\* The clock after d, and the ages if the process ran.
OlderSegs(segs, d) == [i \in DOMAIN segs |-> [segs[i] EXCEPT !.age = Older(@, d)]]
Aged(k, d) ==
  [k EXCEPT !.flushAge = Older(@, d), !.probeAge = IF k.closed THEN Older(@, d) ELSE 0,
            !.segs = OlderSegs(@, d)]
Passes(d, ran) ==
  /\ clock' = After(clock, d)
  /\ tunnel' = IF tunnel = None \/ ~ran THEN tunnel ELSE Aged(tunnel, d)
  /\ beat' = IF role = "client" \/ tunnel = None THEN beat
             ELSE [beat EXCEPT !.sentAge = IF ran THEN Older(@, d) ELSE @,
                               !.silence = Older(@, d),
                               !.wrapped = @ \/ clock' < clock]

\* processPendingEvents waits.
Waits ==
  /\ at = "poll" /\ wait > 0
  /\ Passes(1, TRUE) /\ wait' = wait - 1
  /\ UNCHANGED <<role, at, curClock, worked, nextKcp, napped>>

\* Handlers take time; what a wait is rounded up by counts as work.
Works ==
  /\ at # "poll" /\ worked < MaxWork
  /\ Passes(1, TRUE) /\ worked' = worked + 1
  /\ UNCHANGED <<role, at, curClock, wait, nextKcp, napped>>

\* The process is stopped while it waits, once in a session, and the clock goes
\* on.
Nap(d) ==
  /\ at = "poll" /\ at' = "handling" /\ d \in Naps[role]
  /\ Passes(d, FALSE) /\ wait' = 0
  /\ napped = 0 /\ napped' = d
  /\ UNCHANGED <<role, curClock, worked, nextKcp>>

-----------------------------------------------------------------------------
(* The events of a turn.                                                   *)

PollReturns ==
  /\ at = "poll" /\ at' = "handling" /\ wait' = 0
  /\ UNCHANGED <<clock, role, curClock, worked, nextKcp, tunnel, beat, napped>>

Handles == at = "handling" /\ UNCHANGED <<clock, role, at, curClock, wait, worked, nextKcp>>

\* The tunnel is made: by acceptConnection of a server, with its timers, or by
\* a client that receives Create.
NewSession ==
  /\ Handles /\ tunnel = None
  /\ tunnel' = NewTimers
  /\ beat' = IF role = "server" THEN NewBeat(clock) ELSE NoBeat
  /\ napped' = 0

\* The control connection ends.
SessionEnds ==
  /\ Handles /\ tunnel # None
  /\ tunnel' = None /\ beat' = NoBeat /\ napped' = 0

\* MsgId_HeartBeat_Response.
AnswerArrives ==
  /\ Handles /\ tunnel # None /\ beat.asked
  /\ beat' = [beat EXCEPT !.recv = clock, !.asked = FALSE, !.silence = 0, !.wrapped = FALSE]
  /\ UNCHANGED <<tunnel, napped>>

\* KcpTunnel::send with room in the control block.
SendData ==
  /\ Handles /\ role = "client" /\ tunnel # None
  /\ tunnel.queued + Len(tunnel.segs) < MaxSegs
  /\ tunnel' = [tunnel EXCEPT !.queued = @ + 1]
  /\ UNCHANGED <<beat, napped>>

\* A datagram acknowledges a segment or, bound, while nothing is in flight, tells
\* of the peer's window; the tunnel is updated at once.
Acknowledged(k) == {[k EXCEPT !.segs = RemoveAt(@, i)] : i \in DOMAIN k.segs}
Told(k) == IF k.segs = <<>> THEN {[k EXCEPT !.closed = ~@, !.probeAge = 0]} ELSE {}
Datagram ==
  /\ Handles /\ role = "client" /\ tunnel # None
  /\ \E k \in Acknowledged(tunnel) \cup Told(tunnel) : tunnel' \in Update(k, clock)
  /\ UNCHANGED <<beat, napped>>

-----------------------------------------------------------------------------
(* The rest of a turn.                                                     *)

\* KcpTunnel::update and KcpTunnelGroup::update.
Millis(next, now) == IF next > now THEN next - now ELSE 0
NextCall(k, now) == Millis(Check(k, now), now)
UpdateTunnels ==
  /\ at = "handling" /\ at' = "timers"
  /\ IF tunnel = None THEN tunnel' = None /\ nextKcp' = Forever
     ELSE /\ tunnel' \in Update(tunnel, clock)
          /\ nextKcp' = NextCall(tunnel', clock)
  /\ UNCHANGED <<clock, role, curClock, wait, worked, beat, napped>>

\* gTimer.process(curClock): those that are due, in the order of their times.
HasTimers == role = "server" /\ tunnel # None
Expired(time) == Itimediff(curClock, time) >= 0
BeatTimeout ==
  /\ at = "timers" /\ HasTimers /\ Expired(beat.beatAt)
  /\ Itimediff(beat.beatAt, beat.checkAt) <= 0
  /\ beat' = [beat EXCEPT !.sent = clock, !.asked = TRUE, !.sentAge = 0,
                          !.beatAt = After(@, HeartBeat)]
  /\ UNCHANGED <<clock, role, at, curClock, wait, worked, nextKcp, tunnel, napped>>

\* HeartBeatRecord::isTimeout.
NoAnswerYet(b) == clock >= b.sent /\ clock >= b.recv /\ clock - b.sent <= HeartBeat * 2
                  /\ clock - b.recv >= ConnTimeout   \* mutation: no packetRecvTime > 0
AwaitsAnswer(b) == clock >= b.sent /\ clock >= b.recv /\ clock - b.sent > HeartBeat * 2
                   /\ b.recv > 0 /\ clock - b.recv >= ConnTimeout  \* mutation: > for <=
IsTimeout(b) ==
  /\ clock >= b.sent /\ clock >= b.recv
  /\ clock - b.sent <= HeartBeat * 2
  /\ b.recv > 0 /\ clock - b.recv >= ConnTimeout
CheckTimeout ==
  /\ at = "timers" /\ HasTimers /\ Expired(beat.checkAt)
  /\ Itimediff(beat.checkAt, beat.beatAt) <= 0
  /\ beat' = [beat EXCEPT !.checkAt = After(@, ConnCheck),
                          !.over = @ \/ IsTimeout(beat)]
  /\ UNCHANGED <<clock, role, at, curClock, wait, worked, nextKcp, tunnel, napped>>

\* nextExp of the timers, update() of the server, which deletes what is over, and the wait of
\* the next turn.
NextExp ==
  IF ~HasTimers THEN MaxWait
  ELSE LET left == {Itimediff(beat.beatAt, curClock), Itimediff(beat.checkAt, curClock)}
       IN  Min(left)
OnlyTimers == NextExp            \* mutation: the tunnel's time is not looked at
ShortestWait == Min({nextKcp, NextExp})
EndTurn ==
  /\ at = "timers" /\ at' = "poll"
  /\ ~(HasTimers /\ (Expired(beat.beatAt) \/ Expired(beat.checkAt)))
  /\ wait' = ShortestWait
  /\ curClock' = clock /\ worked' = 0 /\ nextKcp' = 0
  /\ IF beat.over THEN tunnel' = None /\ beat' = NoBeat /\ napped' = 0
     ELSE UNCHANGED <<tunnel, beat, napped>>
  /\ UNCHANGED <<clock, role>>

Turn == \/ PollReturns \/ NewSession \/ SessionEnds \/ AnswerArrives \/ SendData
        \/ Datagram \/ UpdateTunnels \/ BeatTimeout \/ CheckTimeout \/ EndTurn
Next == Waits \/ Works \/ Turn \/ \E d \in UNION {Naps[r] : r \in DOMAIN Naps} : Nap(d)
Spec == Init /\ [][Next]_vars

-----------------------------------------------------------------------------
(* What the loop promises.  Only time in which the process runs counts.    *)

TurnTime == Interval + MaxWork    \* a turn with a tunnel is no longer
\* From one flush to the next: the handlers before the wait and those after it.
FlushTime == Interval + 2 * MaxWork
\* Was the process stopped for so long that what is past looks still to come?
Astray == 2 * (napped + FlushTime) >= ClockMod
Stray == IF Astray THEN Slap + 2 * MaxWork ELSE 0

\* Types, and ikcp_flush runs at least every interval and the work of two turns, through
\* every start of the clock; after a stop that makes ts_flush look far, at once,
\* and after one that makes it look near, within the ten seconds of ikcp_update
\* and the work of two turns more: that of the turn which finds it near, too.
FlushesInTime ==
  /\ TypeOK
  /\ tunnel # None => tunnel.flushAge <= Stray + FlushTime

\* A segment waits for its acknowledgement no longer than its rto and the next
\* flush after it, unless the process was stopped for weeks.
ResendsInTime ==
  tunnel # None /\ ~Astray =>
    \A i \in DOMAIN tunnel.segs :
      tunnel.segs[i].age <= tunnel.segs[i].rto + FlushTime

\* A closed window is asked about within the longest pause and the next flush.
AsksInTime ==
  tunnel # None /\ ~Astray /\ tunnel.closed =>
    tunnel.probeAge <= ProbeLimit + FlushTime

\* A heartbeat leaves no later than two turns after its time: curClock is read
\* before the wait, so a timer that passes meanwhile is left to the next turn.
HeartBeatInTime ==
  HasTimers => beat.sentAge <= HeartBeat + 2 * TurnTime

\* A client is given up only if it was silent all the time of CONNTIMEOUT_TIME,
\* whatever the clock did meanwhile.
OnlySilentIsGivenUp ==
  [][~beat.over /\ beat'.over => beat.silence >= ConnTimeout]_vars

\* A client that answered once and falls silent is given up at the second check
\* after CONNTIMEOUT_TIME, unless the clock started again in between: then
\* isTimeout() compares times of before with times of after.  A check right after
\* a stop may find no heartbeat recent enough; the next one comes a turn later.
SilenceIsNoticed ==
  HasTimers /\ beat.recv # 0 /\ ~beat.wrapped /\ ~beat.over =>
    beat.silence <= ConnTimeout + ConnCheck + 2 * TurnTime
                    + IF napped = 0 THEN 0 ELSE TurnTime + napped
=============================================================================
