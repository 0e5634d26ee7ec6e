--------------------------------- MODULE Keep ---------------------------------
(***************************************************************************)
(* keep and daemon (persistent, src/daemon.go): sessions run one after the *)
(* other, spaced out by a backoff, until a signal (watchSignals,           *)
(* src/reverseside.go).  Of a session only its length counts here and that *)
(* a reverse session which notices the signal exits the process: module    *)
(* ReverseSession has its insides.                                         *)
(***************************************************************************)
EXTENDS Naturals

CONSTANTS Tick,       \* units of time in a second
          Durations   \* how long a session may take

ASSUME TickAssumption == Tick \in Nat \ {0} /\ Tick % 2 = 0
ASSUME DurationsAssumption == Durations \subseteq Nat

VARIABLES
  pc,            \* where persistent is
  wait,          \* its backoff
  dt,            \* how long the last session took
  pause,         \* how long it sleeps
  reverse,       \* whether the sessions are reverse sessions
  watched,       \* watchSignals has run
  shuttingDown,  \* a signal was caught
  quick,         \* history: sessions under a second in a row (counted to Enough)
  since,         \* history: sessions since one longer than maxWait (to Enough)
  late           \* history: sessions started after the signal (to Enough)

history == <<quick, since, late>>
vars == <<pc, wait, dt, pause, reverse, watched, shuttingDown, history>>

minWait == Tick \div 2
maxWait == 60 * Tick
Enough == 5   \* 0.5 s * 4^4 is over maxWait

AtMost(n, m) == IF n < m THEN n ELSE m

TypeOK ==
  /\ pc \in {"check", "start", "session", "sleep", "stopped", "killed"}
  /\ wait \in minWait..maxWait
  /\ dt \in Durations \cup {0} /\ pause \in Nat
  /\ reverse \in BOOLEAN /\ watched \in BOOLEAN /\ shuttingDown \in BOOLEAN
  /\ quick \in 0..Enough /\ since \in 0..Enough /\ late \in 0..Enough

Init ==
  /\ pc = "check" /\ wait = minWait /\ dt = 0 /\ pause = 0
  /\ reverse \in BOOLEAN /\ watched = FALSE /\ shuttingDown = FALSE
  /\ quick = 0 /\ since = 0 /\ late = 0

\* In units of time, so a division of seconds gains a factor Tick.
sleepAfter(w, d) ==
  IF d >= w THEN 0 ELSE (w * Tick) \div (IF d < Tick THEN Tick ELSE d)

\* Mutants: no cap; any run that outlasts minWait resets; none does.
nextWaitUncapped(w, d) == IF d > maxWait THEN minWait ELSE w * 4
nextWaitEager(w, d) == IF d >= minWait THEN minWait ELSE AtMost(w * 4, maxWait)
nextWaitNeverResets(w, d) == AtMost(w * 4, maxWait)

nextWait(w, d) == IF d > maxWait THEN minWait ELSE AtMost(w * 4, maxWait)

-----------------------------------------------------------------------------
\* Mutant: the loop condition is left out.
CheckForever ==
  /\ pc = "check" /\ pc' = "start"
  /\ UNCHANGED <<wait, dt, pause, reverse, watched, shuttingDown, history>>

Check ==
  /\ pc = "check" /\ pc' = (IF shuttingDown THEN "stopped" ELSE "start")
  /\ UNCHANGED <<wait, dt, pause, reverse, watched, shuttingDown, history>>

SessionStarts ==
  /\ pc = "start" /\ pc' = "session"
  /\ watched' = (watched \/ reverse)
  /\ late' = IF shuttingDown THEN AtMost(late + 1, Enough) ELSE late
  /\ UNCHANGED <<wait, dt, pause, reverse, shuttingDown, quick, since>>

\* Mutant: an error ends the loop.
SessionReturnsError(d) ==
  /\ pc = "session" /\ pc' = "stopped"
  /\ UNCHANGED <<wait, dt, pause, reverse, watched, shuttingDown, history>>

\* f returns after d, with an error or without.
SessionReturns(d) ==
  /\ pc = "session" /\ pc' = "sleep"
  /\ dt' = d /\ pause' = sleepAfter(wait, d) /\ wait' = nextWait(wait, d)
  /\ quick' = IF d < Tick THEN AtMost(quick + 1, Enough) ELSE 0
  /\ since' = IF d > maxWait THEN 0 ELSE AtMost(since + 1, Enough)
  /\ UNCHANGED <<reverse, watched, shuttingDown, late>>

\* reverseLinger finds the signal and calls os.Exit.
SessionExits ==
  /\ pc = "session" /\ shuttingDown /\ pc' = "stopped"
  /\ UNCHANGED <<wait, dt, pause, reverse, watched, shuttingDown, history>>

Wake ==
  /\ pc = "sleep" /\ pc' = "check"
  /\ UNCHANGED <<wait, dt, pause, reverse, watched, shuttingDown, history>>

\* SIGINT or SIGTERM: its default action until it is watched; then only the
\* first one counts.
Signal ==
  /\ pc \notin {"stopped", "killed"} /\ ~shuttingDown
  /\ IF watched THEN shuttingDown' = TRUE /\ UNCHANGED pc
     ELSE pc' = "killed" /\ UNCHANGED shuttingDown
  /\ UNCHANGED <<wait, dt, pause, reverse, watched, history>>

Loop == Check \/ SessionStarts \/ Wake
SessionEnds == SessionExits \/ \E d \in Durations : SessionReturns(d)

Next == Loop \/ SessionEnds \/ Signal

\* The loop runs on and sleeps end.  A session need not end by itself, but one
\* that a signal has reached does (SignalStops of ReverseSession), assumed that
\* startRemote returns, which does not look at the signal: it may wait for an
\* answer at the terminal (sshside.go:191) or for the payload's write
\* (sshside.go:275-277) for as long as they take.
Fairness == WF_vars(Loop) /\ WF_vars(shuttingDown /\ SessionEnds)

Spec == Init /\ [][Next]_vars
FairSpec == Spec /\ Fairness

-----------------------------------------------------------------------------
\* "spacing retries out the longer it keeps failing quickly" (daemon.go:36):
\* after the n-th session in a row to end within a second, the next one starts
\* half a second quadrupled n - 1 times, or a minute, after its start.
Spreads ==
  pc = "sleep" /\ quick > 0 => dt + pause >= AtMost(minWait * 4^(quick - 1), maxWait)

\* "resetting the backoff after a long good run" (daemon.go:37): what came
\* before a run of over a minute lengthens no later pause.  After the n-th
\* session since then it is at most half a second quadrupled n - 1 times.
Forgives ==
  pc = "sleep" => pause <= (IF since = 0 THEN 0 ELSE AtMost(minWait * 4^(since - 1), maxWait))

\* A signal between the loop's test and the session it admits does not go
\* unnoticed for more than that one session.
OneMoreSession == late <= 1

\* "It stops once a shutdown signal has been caught" (daemon.go:37-38), also
\* when the signal arrives during the pause or before a session polls for it:
\* for sessions that get through startRemote or fail in it.
StopsOnSignal == shuttingDown ~> pc = "stopped"

\* "reconnect forever" (README.md:40): until a signal there is a next session.
NeverGivesUp == pc # "session" ~> (pc = "session" \/ shuttingDown \/ pc = "killed")
=============================================================================
