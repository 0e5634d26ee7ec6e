------------------------------ MODULE KeepProofs ------------------------------
(***************************************************************************)
(* The invariants of keep and daemon, proved for any length of a second    *)
(* and any set of session lengths.                                         *)
(***************************************************************************)
EXTENDS Keep, TLAPS

\* Half a second quadrupled n times, or a minute.
Backoff(n) == AtMost(minWait * 4^n, maxWait)

\* The backoff lies between what the quick sessions in a row have made of it at
\* least and what the sessions since a long one have made of it at most.
BackoffInv == Backoff(quick) <= wait /\ wait <= Backoff(since)

\* A session admitted before the signal is the only one to start after it.
LateInv ==
  /\ ~shuttingDown => late = 0
  /\ late = 0 \/ (late = 1 /\ pc # "start")

\* TypeOK without its flags, which the provers take apart from the numbers.
Numbers ==
  /\ pc \in {"check", "start", "session", "sleep", "stopped", "killed"}
  /\ wait \in minWait..maxWait
  /\ dt \in Durations \cup {0} /\ pause \in Nat
  /\ quick \in 0..Enough /\ since \in 0..Enough /\ late \in 0..Enough
Flags == reverse \in BOOLEAN /\ watched \in BOOLEAN /\ shuttingDown \in BOOLEAN

-----------------------------------------------------------------------------
LEMMA Waits == minWait \in Nat \ {0} /\ Tick = 2 * minWait /\ maxWait = 120 * minWait
BY TickAssumption DEF minWait, maxWait

\* The backoff quadruples, up to its limit, which it reaches in Enough steps.
LEMMA Quadruples ==
  /\ Backoff(0) = minWait /\ Backoff(Enough) = maxWait
  /\ \A n \in 0..Enough : /\ Backoff(n) \in minWait..maxWait
                          /\ Backoff(AtMost(n + 1, Enough)) = AtMost(Backoff(n) * 4, maxWait)
<1>1. 4^0 = 1 /\ 4^1 = 4 /\ 4^2 = 16 /\ 4^3 = 64 /\ 4^4 = 256 /\ 4^5 = 1024
  OBVIOUS
<1>2. /\ Backoff(0) = minWait /\ Backoff(1) = 4 * minWait /\ Backoff(2) = 16 * minWait
      /\ Backoff(3) = 64 * minWait /\ Backoff(4) = maxWait /\ Backoff(5) = maxWait
  BY <1>1, Waits DEF Backoff, AtMost
<1>3. \A n \in 0..Enough : n \in {0, 1, 2, 3, 4, 5}
  BY DEF Enough
<1>q. QED
  BY <1>2, <1>3, Waits DEF AtMost, Enough

\* What a session that took d makes of a backoff w, and how long keep then sleeps.
LEMMA NextWait ==
  ASSUME NEW w \in minWait..maxWait, NEW d \in Nat
  PROVE  /\ nextWait(w, d) \in minWait..maxWait
         /\ d > maxWait => nextWait(w, d) = minWait
         /\ d <= maxWait => nextWait(w, d) = AtMost(w * 4, maxWait)
BY Waits DEF nextWait, AtMost

LEMMA SleepAfter ==
  ASSUME NEW w \in minWait..maxWait, NEW d \in Nat
  PROVE  /\ sleepAfter(w, d) \in 0..w
         /\ d < Tick => w <= d + sleepAfter(w, d)
         /\ d > maxWait => sleepAfter(w, d) = 0
<1>1. w \in Nat /\ Tick \in Nat \ {0} /\ w <= maxWait /\ maxWait \in Nat
  BY Waits
<1>2. CASE d >= w
  BY <1>1, <1>2 DEF sleepAfter
<1>3. CASE d < w /\ d < Tick
  <2>1. sleepAfter(w, d) = (w * Tick) \div Tick
    BY <1>3, <1>1 DEF sleepAfter
  <2>2. (w * Tick) \div Tick = w
    BY <1>1
  <2>3. sleepAfter(w, d) = w
    BY <2>1, <2>2
  <2>q. QED
    BY <1>1, <1>3, <2>3
<1>4. CASE d < w /\ d >= Tick
  <2>1. sleepAfter(w, d) = (w * Tick) \div d
    BY <1>4, <1>1 DEF sleepAfter
  <2>2. (w * Tick) \div d \in 0..w
    BY <1>1, <1>4
  <2>3. sleepAfter(w, d) \in 0..w
    BY <2>1, <2>2
  <2>q. QED
    BY <1>1, <1>4, <2>3
<1>q. QED
  BY <1>1, <1>2, <1>3, <1>4

-----------------------------------------------------------------------------
LEMMA FlagsStep == Flags /\ [Next]_vars => Flags'
BY DEF Flags, Next, Loop, SessionEnds, Check, SessionStarts, Wake, SessionExits, SessionReturns, Signal,
   vars

LEMMA NumbersStep == Numbers /\ [Next]_vars => Numbers'
<1> SUFFICES ASSUME Numbers, [Next]_vars PROVE Numbers'
  OBVIOUS
<1> USE DEF Numbers, history, Enough, AtMost
<1>1. CASE Check \/ Wake \/ SessionExits \/ Signal
  BY <1>1 DEF Check, Wake, SessionExits, Signal
<1>2. CASE SessionStarts
  BY <1>2 DEF SessionStarts
<1>3. ASSUME NEW d \in Durations, SessionReturns(d) PROVE Numbers'
  <2>1. nextWait(wait, d) \in minWait..maxWait /\ sleepAfter(wait, d) \in Nat
    BY DurationsAssumption, NextWait, SleepAfter, Waits
  <2>q. QED
    BY <1>3, <2>1 DEF SessionReturns
<1>4. CASE UNCHANGED vars
  BY <1>4 DEF vars
<1>q. QED
  BY <1>1, <1>2, <1>3, <1>4 DEF Next, Loop, SessionEnds

LEMMA NumbersAlways == Spec => []Numbers
<1>1. Init => Numbers
  BY Waits DEF Init, Numbers, Enough
<1>q. QED
  BY <1>1, NumbersStep, PTL DEF Spec

\* The backoff stays between minWait and maxWait, and the counters in their range
\* (daemon.go:16-57).
THEOREM TypeCorrect == Spec => []TypeOK
<1>1. Init => Flags
  BY DEF Init, Flags
<1>2. Numbers /\ Flags => TypeOK
  BY DEF Numbers, Flags, TypeOK
<1>q. QED
  BY <1>1, <1>2, NumbersAlways, FlagsStep, PTL DEF Spec

\* At most one session starts after the signal, which "persistent" sees between
\* sessions only (daemon.go:40-55).
THEOREM AtMostOneMoreSession == Spec => []OneMoreSession
<1>1. Init => LateInv
  BY DEF Init, LateInv
<1>2. LateInv /\ [Next]_vars => LateInv'
  <2> SUFFICES ASSUME LateInv, [Next]_vars PROVE LateInv'
    OBVIOUS
  <2> USE DEF LateInv, history
  <2>1. CASE Check
    BY <2>1 DEF Check
  <2>2. CASE SessionStarts
    BY <2>2 DEF SessionStarts, AtMost, Enough
  <2>3. CASE Wake \/ SessionExits \/ Signal
    BY <2>3 DEF Wake, SessionExits, Signal
  <2>4. ASSUME NEW d \in Durations, SessionReturns(d) PROVE LateInv'
    BY <2>4 DEF SessionReturns
  <2>5. CASE UNCHANGED vars
    BY <2>5 DEF vars
  <2>q. QED
    BY <2>1, <2>2, <2>3, <2>4, <2>5 DEF Next, Loop, SessionEnds
<1>3. LateInv => OneMoreSession
  BY DEF LateInv, OneMoreSession
<1>q. QED
  BY <1>1, <1>2, <1>3, PTL DEF Spec

-----------------------------------------------------------------------------
LEMMA BackoffAlways == Spec => []BackoffInv
<1>1. Init => BackoffInv
  BY Quadruples, Waits DEF Init, BackoffInv
<1>2. Numbers /\ BackoffInv /\ [Next]_vars => BackoffInv'
  <2> SUFFICES ASSUME Numbers, BackoffInv, [Next]_vars PROVE BackoffInv'
    OBVIOUS
  <2>0. CASE UNCHANGED <<wait, quick, since>>
    BY <2>0 DEF BackoffInv
  <2>1. CASE Loop \/ SessionExits \/ Signal \/ UNCHANGED vars
    BY <2>0, <2>1 DEF Loop, Check, SessionStarts, Wake, SessionExits, Signal, vars, history
  <2>2. ASSUME NEW d \in Durations, SessionReturns(d) PROVE BackoffInv'
    <3>1. d \in Nat /\ wait \in minWait..maxWait /\ quick \in 0..Enough /\ since \in 0..Enough
      BY DurationsAssumption DEF Numbers
    <3>2. Backoff(quick) <= wait /\ wait <= Backoff(since)
      BY DEF BackoffInv
    <3>3. Backoff(quick') <= wait'
      <4>1. CASE d < Tick
        <5>1. quick' = AtMost(quick + 1, Enough) /\ wait' = AtMost(wait * 4, maxWait)
          BY <2>2, <3>1, <4>1, NextWait, Waits DEF SessionReturns
        <5>2. Backoff(quick') = AtMost(Backoff(quick) * 4, maxWait)
          BY <3>1, <5>1, Quadruples
        <5>3. Backoff(quick) \in minWait..maxWait
          BY <3>1, Quadruples
        <5>q. QED
          BY <3>1, <3>2, <5>1, <5>2, <5>3, Waits DEF AtMost
      <4>2. CASE d >= Tick
        <5>1. quick' = 0 /\ wait' \in minWait..maxWait
          BY <2>2, <3>1, <4>2, NextWait, Waits DEF SessionReturns
        <5>q. QED
          BY <5>1, Quadruples, Waits
      <4>q. QED
        BY <3>1, <4>1, <4>2, Waits
    <3>4. wait' <= Backoff(since')
      <4>1. CASE d > maxWait
        <5>1. since' = 0 /\ wait' = minWait
          BY <2>2, <3>1, <4>1, NextWait DEF SessionReturns
        <5>q. QED
          BY <5>1, Quadruples, Waits
      <4>2. CASE d <= maxWait
        <5>1. since' = AtMost(since + 1, Enough) /\ wait' = AtMost(wait * 4, maxWait)
          BY <2>2, <3>1, <4>2, NextWait, Waits DEF SessionReturns
        <5>2. Backoff(since') = AtMost(Backoff(since) * 4, maxWait)
          BY <3>1, <5>1, Quadruples
        <5>3. Backoff(since) \in minWait..maxWait
          BY <3>1, Quadruples
        <5>q. QED
          BY <3>1, <3>2, <5>1, <5>2, <5>3, Waits DEF AtMost
      <4>q. QED
        BY <3>1, <4>1, <4>2, Waits
    <3>q. QED
      BY <3>3, <3>4 DEF BackoffInv
  <2>q. QED
    BY <2>1, <2>2 DEF Next, SessionEnds
<1>q. QED
  BY <1>1, <1>2, NumbersAlways, PTL DEF Spec

\* Counted from the start of the last one, the next session waits at least as
\* long as the quick sessions in a row call for (daemon.go:16-35).
THEOREM BackoffSpreads == Spec => []Spreads
<1>1. Init => Spreads
  BY DEF Init, Spreads
<1>2. Numbers /\ BackoffInv /\ Spreads /\ [Next]_vars => Spreads'
  <2> SUFFICES ASSUME Numbers, BackoffInv, Spreads, [Next]_vars, (pc = "sleep" /\ quick > 0)'
               PROVE  dt' + pause' >= Backoff(quick' - 1)
    BY DEF Spreads, Backoff
  <2>1. CASE Loop \/ SessionExits \/ Signal \/ UNCHANGED vars
    <3>1. UNCHANGED <<pc, dt, pause, quick>>
      BY <2>1 DEF Loop, Check, SessionStarts, Wake, SessionExits, Signal, vars, history
    <3>q. QED
      BY <3>1 DEF Spreads, Backoff
  <2>2. ASSUME NEW d \in Durations, SessionReturns(d) PROVE dt' + pause' >= Backoff(quick' - 1)
    <3>1. d \in Nat /\ wait \in minWait..maxWait /\ quick \in 0..Enough
      BY DurationsAssumption DEF Numbers
    <3>2. d < Tick /\ quick' = AtMost(quick + 1, Enough) /\ dt' = d /\ pause' = sleepAfter(wait, d)
      BY <2>2 DEF SessionReturns
    <3>3. Backoff(quick' - 1) = Backoff(quick)
      <4>1. CASE quick = Enough
        <5>1. quick' - 1 = 4 /\ quick = 5 /\ 4^4 = 256 /\ 4^5 = 1024
          BY <3>2, <4>1 DEF AtMost, Enough
        <5>2. AtMost(minWait * 256, maxWait) = maxWait /\ AtMost(minWait * 1024, maxWait) = maxWait
          BY Waits DEF AtMost
        <5>q. QED
          BY <5>1, <5>2 DEF Backoff
      <4>2. CASE quick # Enough
        <5>1. quick' - 1 = quick
          BY <3>1, <3>2, <4>2 DEF AtMost, Enough
        <5>q. QED
          BY <5>1
      <4>q. QED
        BY <4>1, <4>2
    <3>4. Backoff(quick) <= wait /\ Backoff(quick) \in minWait..maxWait
      BY <3>1, Quadruples DEF BackoffInv
    <3>5. sleepAfter(wait, d) \in 0..wait /\ wait <= d + sleepAfter(wait, d)
      BY <3>1, <3>2, SleepAfter
    <3>q. QED
      BY <3>1, <3>2, <3>3, <3>4, <3>5, Waits
  <2>q. QED
    BY <2>1, <2>2 DEF Next, SessionEnds
<1>q. QED
  BY <1>1, <1>2, BackoffAlways, NumbersAlways, PTL DEF Spec

\* A session of over a minute is not paused after, and the sessions since then
\* bound every later pause (daemon.go:27-35).
THEOREM BackoffForgives == Spec => []Forgives
<1>1. Init => Forgives
  BY DEF Init, Forgives
<1>2. Numbers /\ BackoffInv /\ Forgives /\ [Next]_vars => Forgives'
  <2> SUFFICES ASSUME Numbers, BackoffInv, Forgives, [Next]_vars, pc' = "sleep"
               PROVE  pause' <= (IF since' = 0 THEN 0 ELSE Backoff(since' - 1))
    BY DEF Forgives, Backoff
  <2>1. CASE Loop \/ SessionExits \/ Signal \/ UNCHANGED vars
    <3>1. UNCHANGED <<pc, pause, since>>
      BY <2>1 DEF Loop, Check, SessionStarts, Wake, SessionExits, Signal, vars, history
    <3>q. QED
      BY <3>1 DEF Forgives, Backoff
  <2>2. ASSUME NEW d \in Durations, SessionReturns(d)
        PROVE  pause' <= (IF since' = 0 THEN 0 ELSE Backoff(since' - 1))
    <3>1. d \in Nat /\ wait \in minWait..maxWait /\ since \in 0..Enough
      BY DurationsAssumption DEF Numbers
    <3>2. pause' = sleepAfter(wait, d) /\ pause' \in 0..wait
      BY <2>2, <3>1, SleepAfter DEF SessionReturns
    <3>3. CASE d > maxWait
      BY <2>2, <3>1, <3>2, <3>3, SleepAfter DEF SessionReturns
    <3>4. CASE d <= maxWait
      <4>1. since' = AtMost(since + 1, Enough) /\ since' # 0
        BY <2>2, <3>1, <3>4, Waits DEF SessionReturns, AtMost, Enough
      <4>2. wait <= Backoff(since) /\ Backoff(since) \in minWait..maxWait
        BY <3>1, Quadruples DEF BackoffInv
      <4>3. Backoff(since' - 1) = Backoff(since)
        <5>1. CASE since = Enough
          <6>1. since' - 1 = 4 /\ since = 5 /\ 4^4 = 256 /\ 4^5 = 1024
            BY <4>1, <5>1 DEF AtMost, Enough
          <6>2. AtMost(minWait * 256, maxWait) = maxWait /\ AtMost(minWait * 1024, maxWait) = maxWait
            BY Waits DEF AtMost
          <6>q. QED
            BY <6>1, <6>2 DEF Backoff
        <5>2. CASE since # Enough
          BY <3>1, <4>1, <5>2 DEF AtMost, Enough
        <5>q. QED
          BY <5>1, <5>2
      <4>q. QED
        BY <3>1, <3>2, <4>1, <4>2, <4>3, Waits
    <3>q. QED
      BY <3>1, <3>3, <3>4, Waits
  <2>q. QED
    BY <2>1, <2>2 DEF Next, SessionEnds
<1>q. QED
  BY <1>1, <1>2, BackoffAlways, NumbersAlways, PTL DEF Spec
=============================================================================
