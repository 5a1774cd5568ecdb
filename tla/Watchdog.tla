------------------------------ MODULE Watchdog ------------------------------
(***************************************************************************)
(* src/src/watchdog.rs with the beats of main and accept_loop              *)
(* (src/src/main.rs).  A thread of its own wakes up every Poll ticks and   *)
(* ends the process when the last beat is more than Stall ticks ago.  main *)
(* beats after each step of start-up, the accept loop at each tick of its  *)
(* interval and at each connection.  Anything that keeps that task from    *)
(* running (a blocked executor, a file system that hangs) is Stick.        *)
(*                                                                         *)
(* Only differences of times matter, so the clocks of the code appear as   *)
(* ages, in ticks of one second.                                           *)
(***************************************************************************)
EXTENDS Naturals

CONSTANTS
    Stall,  \* WATCHDOG_STALL_TIMEOUT
    Poll,   \* WATCHDOG_POLL_INTERVAL
    Beat,   \* ACCEPT_HEARTBEAT_INTERVAL
    Hard,   \* CONFIG_FETCH_HARD_TIMEOUT
    Quick   \* longest other step of start-up, when nothing is stuck

ASSUME TimeAssumption ==
    /\ Stall \in Nat /\ Poll \in Nat \ {0}
    /\ Beat \in 1..Stall /\ Hard \in 1..Stall /\ Quick \in 1..Stall

VARIABLES
    phase,    \* the step of start-up main is in, then "accept"
    stuck,    \* the task of main is not being run
    exited,   \* the watchdog has ended the process
    age,      \* now - last_ms
    nap,      \* how long the watchdog has slept
    busy,     \* since the phase, or the period of the interval, began
    stuckFor  \* history: ticks spent stuck since the last beat

watchdogVars == <<phase, stuck, exited, age, nap, busy, stuckFor>>

StartUp == {"fetch", "prepare", "bind", "hosts"}
After == [fetch |-> "prepare", prepare |-> "bind", bind |-> "hosts", hosts |-> "accept"]

\* How long the phase lasts at most when the task is run.
Limit(p) == CASE p = "fetch" -> Hard [] p = "accept" -> Beat [] OTHER -> Quick

\* Heartbeat::new beats, and the watchdog is spawned.
WatchdogInit ==
    /\ phase = "fetch"
    /\ stuck = FALSE /\ exited = FALSE
    /\ age = 0 /\ nap = 0 /\ busy = 0 /\ stuckFor = 0

\* heartbeat.beat()
DoBeat == age' = 0 /\ stuckFor' = 0

\* Mutant of StartUpBeat: main beats only when start-up is complete.
StartUpBeatAtEnd ==
    /\ ~exited /\ ~stuck /\ phase \in StartUp
    /\ phase' = After[phase]
    /\ busy' = 0
    /\ IF phase = "hosts" THEN DoBeat ELSE UNCHANGED <<age, stuckFor>>
    /\ UNCHANGED <<stuck, exited, nap>>

\* A step of start-up ends and main beats.
StartUpBeat ==
    /\ ~exited /\ ~stuck /\ phase \in StartUp
    /\ phase' = After[phase]
    /\ busy' = 0
    /\ DoBeat
    /\ UNCHANGED <<stuck, exited, nap>>

\* beat.tick() of the accept loop; ticks missed meanwhile are skipped.
IntervalBeat ==
    /\ ~exited /\ ~stuck /\ phase = "accept" /\ busy >= Beat
    /\ busy' = 0
    /\ DoBeat
    /\ UNCHANGED <<phase, stuck, exited, nap>>

\* listener.accept() of the accept loop.
AcceptBeat ==
    /\ ~exited /\ ~stuck /\ phase = "accept"
    /\ DoBeat
    /\ UNCHANGED <<phase, stuck, exited, nap, busy>>

\* Mutant of WatchdogWakes: a stall must last a whole poll interval longer.
WatchdogWakesLate ==
    /\ ~exited /\ nap = Poll
    /\ nap' = 0
    /\ exited' = (age > Stall + Poll)
    /\ UNCHANGED <<phase, stuck, age, busy, stuckFor>>

\* The watchdog wakes up: stalled_for(Stall), then watchdog_suicide or sleep.
WatchdogWakes ==
    /\ ~exited /\ nap = Poll
    /\ nap' = 0
    /\ exited' = (age > Stall)
    /\ UNCHANGED <<phase, stuck, age, busy, stuckFor>>

\* Something stops the task, or lets it go on.
Stick ==
    /\ ~exited
    /\ stuck' = ~stuck
    /\ UNCHANGED <<phase, exited, age, nap, busy, stuckFor>>

\* One second passes: not before the watchdog has woken up in time, nor,
\* unless it is stuck, before the task has done what is due.
Tick ==
    /\ ~exited /\ nap < Poll
    /\ stuck \/ busy < Limit(phase)
    /\ age' = age + 1
    /\ nap' = nap + 1
    /\ busy' = IF busy < Stall + Poll THEN busy + 1 ELSE busy
    /\ stuckFor' = IF stuck THEN stuckFor + 1 ELSE stuckFor
    /\ UNCHANGED <<phase, stuck, exited>>

WatchdogNext == StartUpBeat \/ IntervalBeat \/ AcceptBeat \/ WatchdogWakes \/ Stick \/ Tick

WatchdogSpec == WatchdogInit /\ [][WatchdogNext]_watchdogVars

-----------------------------------------------------------------------------
(***************************************************************************)
(* Properties.                                                             *)
(***************************************************************************)

\* Types of the state.
WatchdogTypeOK ==
    /\ phase \in StartUp \cup {"accept"}
    /\ stuck \in BOOLEAN /\ exited \in BOOLEAN
    /\ age \in Nat /\ busy \in Nat /\ stuckFor \in Nat
    /\ nap \in 0..Poll

\* A process that still runs had a beat at most Stall + Poll ago: a stall is
\* noticed one poll interval after the limit at the latest.
DetectedInTime == ~exited => age <= Stall + Poll

\* The watchdog spares a healthy process: it fires only if the task was stuck
\* for all of Stall but the one step it was in.  In particular a config fetch
\* that takes all of CONFIG_FETCH_HARD_TIMEOUT at start-up is no stall.
NoFalseAlarm == exited => stuckFor + Limit(phase) > Stall

\* The strengthening: DetectedInTime and NoFalseAlarm with the age of the
\* sleep and of the phase.
WatchdogInv ==
    /\ WatchdogTypeOK
    /\ ~exited => age <= Stall + nap
    /\ ~exited => age <= busy
    /\ age <= Limit(phase) + stuckFor
    /\ exited => age > Stall
=============================================================================
