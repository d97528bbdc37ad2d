----------------------------- MODULE KcpTimers -----------------------------
(***************************************************************************)
(* The clocks of a control block of kcp/ikcp.c: when it flushes, sends a   *)
(* segment again, and asks for a window.  Kcp says what is sent; there the *)
(* moments are inputs.  Times count modulo ClockMod and are compared as    *)
(* _itimediff does.  A field named "age" is no member of the code: it      *)
(* counts the time the process ran since the event, for the properties.    *)
(***************************************************************************)
EXTENDS Integers, Sequences, FiniteSets, FiniteSetsExt

CONSTANTS
  ClockMod,    \* the clock counts modulo this (2^32)
  Interval,    \* interval
  Slap,        \* how far ts_flush may be from the clock (10000)
  Rtos,        \* the values rx_rto takes
  MaxRto,      \* bound: rto of a segment grows no further
  ProbeInit,   \* IKCP_PROBE_INIT
  ProbeLimit   \* IKCP_PROBE_LIMIT

ASSUME KcpTimersAssumption ==
  /\ {ClockMod, Interval, Slap, MaxRto, ProbeInit, ProbeLimit} \subseteq Nat \ {0}
  /\ Rtos \subseteq 1 .. MaxRto
  /\ 2 * (Interval + MaxRto) < ClockMod /\ 2 * Slap < ClockMod
  /\ 2 * ProbeLimit < ClockMod
  /\ Interval < Slap /\ ProbeInit <= ProbeLimit

Time == 0 .. ClockMod - 1
After(time, d) == (time + d) % ClockMod

\* _itimediff.
Unsigned(a, b) == a - b              \* mutation: the numbers as they are
Itimediff(a, b) ==
  LET d == (a - b) % ClockMod IN IF 2 * d < ClockMod THEN d ELSE d - ClockMod

\* updated, ts_flush, segments in snd_queue, snd_buf, rmt_wnd = 0, probing.
NewTimers == [updated |-> FALSE, tsFlush |-> Interval, queued |-> 0, segs |-> <<>>,
              closed |-> FALSE, probeWait |-> 0, tsProbe |-> 0,
              flushAge |-> 0, probeAge |-> 0]
Segment(Age) == [resendts : Time, rto : 1 .. MaxRto, age : Age]
Timers(Age, MaxQueued) ==
  [updated : BOOLEAN, tsFlush : Time, queued : 0 .. MaxQueued,
   segs : Seq(Segment(Age)), closed : BOOLEAN, probeWait : 0 .. ProbeLimit,
   tsProbe : Time, flushAge : Age, probeAge : Age]

\* ikcp_flush asks for a closed window when ts_probe has passed, ever more rarely.
Longer(wait) == Min({wait + wait \div 2, ProbeLimit})
Postponed(k, current) ==                       \* mutation: ts_probe is set at every flush
  IF ~k.closed THEN [k EXCEPT !.probeWait = 0, !.tsProbe = 0]
  ELSE [k EXCEPT !.probeWait = ProbeInit, !.tsProbe = After(current, ProbeInit)]
Probed(k, current) ==
  LET Wait(w) == [k EXCEPT !.probeWait = w, !.tsProbe = After(current, w), !.probeAge = 0]
  IN  IF ~k.closed THEN [k EXCEPT !.probeWait = 0, !.tsProbe = 0]
      ELSE IF k.probeWait = 0 THEN Wait(ProbeInit)
      ELSE IF Itimediff(current, k.tsProbe) >= 0 THEN Wait(Longer(k.probeWait))
      ELSE k

\* ikcp_flush sends a segment again when resendts has passed, or when later
\* segments were acknowledged: those in fast.
Resent(s, current, rto, fast) ==
  LET Again(r) == [resendts |-> After(current, r), rto |-> r, age |-> 0]
  IN  IF Itimediff(current, s.resendts) >= 0 THEN Again(Min({s.rto + rto \div 2, MaxRto}))
      ELSE IF fast THEN Again(s.rto) ELSE s

\* ikcp_flush with some rx_rto and fastack; the last segment is not passed over.
FlushWith(k, current, rto, fast) ==
  LET n == IF k.closed THEN 0 ELSE k.queued
      new == [i \in 1 .. n |-> [resendts |-> After(current, rto), rto |-> rto, age |-> 0]]
      old == [i \in DOMAIN k.segs |-> Resent(k.segs[i], current, rto, i \in fast)]
  IN  [Probed(k, current) EXCEPT !.segs = old \o new, !.queued = @ - n, !.flushAge = 0]
Flush(k, current) ==
  {FlushWith(k, current, rto, fast) : rto \in Rtos, fast \in SUBSET (1 .. Len(k.segs) - 1)}

\* ikcp_update: the control blocks it may leave.
FarAhead(current, tsFlush) == Itimediff(current, tsFlush) >= Slap  \* mutation: one side only
Far(current, tsFlush) ==
  LET slap == Itimediff(current, tsFlush) IN slap >= Slap \/ slap < -Slap
Update(k, current) ==
  LET at == IF ~k.updated \/ Far(current, k.tsFlush) THEN current ELSE k.tsFlush
      next == IF Itimediff(current, After(at, Interval)) >= 0
              THEN After(current, Interval) ELSE After(at, Interval)
      known == [k EXCEPT !.updated = TRUE, !.tsFlush = at]
  IN  IF Itimediff(current, at) < 0 THEN {known}
      ELSE Flush([known EXCEPT !.tsFlush = next], current)

\* ikcp_check: when ikcp_update should be called again.
Check(k, current) ==
  LET flush == Itimediff(k.tsFlush, current)
      resends == {Itimediff(k.segs[i].resendts, current) : i \in DOMAIN k.segs}
  IN  IF Far(current, k.tsFlush) \/ flush <= 0 \/ \E r \in resends : r <= 0
      THEN current
      ELSE After(current, Min({flush, Interval} \cup resends))
=============================================================================
