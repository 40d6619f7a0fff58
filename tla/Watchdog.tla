------------------------------ MODULE Watchdog ------------------------------
(***************************************************************************)
(* The liveness watchdog of nsm and the service manager it talks to.       *)
(*                                                                         *)
(* run_event_loop bumps last_alive_unix_secs whenever its select! runs: on *)
(* a packet and on a liveness tick.  A task of its own, spawned by         *)
(* spawn_checker, sends WATCHDOG=1 every Interval unless the wall clock    *)
(* says the bump is older than StaleAfter.  systemd kills and restarts the *)
(* unit WatchdogSec after the last message it got.                         *)
(*                                                                         *)
(* The two clocks matter.  Timers and systemd follow the monotonic clock;  *)
(* now_unix() is the wall clock, which a time daemon may step.  Only       *)
(* differences of either are ever used, so the state holds ages:           *)
(*                                                                         *)
(*   age       now_unix() - last_alive_unix_secs (negative after a step    *)
(*             back)                                                       *)
(*   tickIn    time to the next liveness tick; tickDue: one is pending     *)
(*   checkIn   time to the next check                                      *)
(*   silence   time since systemd last heard from the unit                 *)
(*                                                                         *)
(* The loop hangs inside a handler (a lock held elsewhere, or the file     *)
(* writes of block_ipv4) and may come back.  The runtime is multi-threaded *)
(* so the checker still runs on time, and so does a tick of a loop that is *)
(* not hung: Pass waits for both.                                          *)
(***************************************************************************)
EXTENDS Integers

CONSTANTS Tick,         \* period of the liveness tick
          Interval,     \* period of the checker
          StaleAfter,   \* age beyond which the checker stays silent
          WatchdogSec,  \* systemd's timeout
          Steps,        \* how far the wall clock may be stepped at once
          MaxSteps      \* bound: wall clock steps in a behaviour

\* spawn_checker: the interval is less than half of the unit's WatchdogSec.
WatchdogAssumption ==
    /\ Interval \in Nat \ {0} /\ StaleAfter \in Nat
    /\ WatchdogSec \in Nat /\ WatchdogSec > 2 * Interval
    /\ Steps \subseteq Int

VARIABLES unit, hung, age, tickIn, tickDue, checkIn, silence,
          stalled,      \* history: time since the loop last ran
          longest,      \* history: the longest such time of this process
          steps,        \* history: wall clock steps taken
          back          \* history: how far the wall clock was set back

vars == <<unit, hung, age, tickIn, tickDue, checkIn, silence,
          stalled, longest, steps, back>>

(* Watchdog::new, READY=1, and two intervals whose first tick is at once.  *)
Init == /\ unit = "running" /\ hung = FALSE
        /\ age = 0 /\ stalled = 0 /\ longest = 0 /\ silence = 0
        /\ tickIn = Tick /\ tickDue = TRUE
        /\ checkIn = 0
        /\ steps = 0 /\ back = 0

Awake == unit = "running" /\ ~hung

Bump == age' = 0 /\ stalled' = 0 /\ UNCHANGED longest

(* A packet: bump, then the handler, which returns or hangs.               *)
Recv == /\ Awake
        /\ Bump
        /\ hung' \in BOOLEAN
        /\ UNCHANGED <<unit, tickIn, tickDue, checkIn, silence, steps, back>>

LivenessTick == /\ Awake /\ tickDue
                /\ Bump
                /\ tickDue' = FALSE
                /\ UNCHANGED <<unit, hung, tickIn, checkIn, silence, steps, back>>

Resume == /\ unit = "running" /\ hung
          /\ hung' = FALSE
          /\ UNCHANGED <<unit, age, tickIn, tickDue, checkIn, silence,
                         stalled, longest, steps, back>>

(* Mutant: a heartbeat that only proves that the process is alive.        *)
FreshByProcess == TRUE

Fresh == age <= StaleAfter

Check == /\ unit = "running" /\ checkIn = 0
         /\ checkIn' = Interval
         /\ silence' = IF Fresh THEN 0 ELSE silence
         /\ UNCHANGED <<unit, hung, age, tickIn, tickDue, stalled, longest,
                        steps, back>>

(* systemd: no message for WatchdogSec.                                    *)
Kill == /\ unit = "running" /\ silence >= WatchdogSec
        /\ unit' = "killed"
        /\ UNCHANGED <<hung, age, tickIn, tickDue, checkIn, silence,
                       stalled, longest, steps, back>>

(* Restart=on-failure: a new process, which starts as in Init.             *)
Restart == /\ unit = "killed"
           /\ unit' = "running" /\ hung' = FALSE
           /\ age' = 0 /\ stalled' = 0 /\ longest' = 0 /\ silence' = 0
           /\ tickIn' = Tick /\ tickDue' = TRUE
           /\ checkIn' = 0
           /\ UNCHANGED <<steps, back>>

(* A time daemon steps the wall clock, the only one now_unix() reads.      *)
ClockStep == /\ unit = "running" /\ steps < MaxSteps
             /\ \E d \in Steps : /\ age' = age + d
                                 /\ back' = IF d < 0 THEN back - d ELSE back
             /\ steps' = steps + 1
             /\ UNCHANGED <<unit, hung, tickIn, tickDue, checkIn, silence,
                            stalled, longest>>

Pass == /\ unit = "running"
        /\ checkIn > 0 /\ silence < WatchdogSec
        /\ tickDue => hung
        /\ age' = age + 1 /\ silence' = silence + 1
        /\ stalled' = stalled + 1
        /\ longest' = IF longest > stalled THEN longest ELSE stalled'
        /\ checkIn' = checkIn - 1
        /\ IF tickIn = 1 THEN tickIn' = Tick /\ tickDue' = TRUE
                         ELSE tickIn' = tickIn - 1 /\ UNCHANGED tickDue
        /\ UNCHANGED <<unit, hung, steps, back>>

Next == \/ Recv \/ LivenessTick \/ Resume \/ Check \/ Kill \/ Restart
        \/ ClockStep \/ Pass

Spec == Init /\ [][Next]_vars

(* A loop that hangs is noticed although the checker goes on running: the  *)
(* bump comes from inside the loop, so the unit is down at the latest      *)
(* StaleAfter + WatchdogSec after the loop last ran.  A wall clock that is *)
(* set back postpones this by as much as it was set back: the price of     *)
(* reading now_unix() for an age.                                          *)
HangNoticed ==
  unit = "running" => stalled <= StaleAfter + WatchdogSec + back

(* The unit is never killed for being idle, busy or briefly stuck: when    *)
(* systemd gives up, the loop really has gone more than StaleAfter without *)
(* running.  One forward step of the wall clock makes the checker less     *)
(* patient, but a loop that keeps bumping survives that too: the three     *)
(* checks within WatchdogSec leave room for one that is skipped.           *)
KilledOnlyIfStalled ==
  unit = "killed" => \/ longest > StaleAfter
                     \/ steps = 1 /\ longest >= Interval
                     \/ steps > 1

=============================================================================
