------------------------------- MODULE MCNsm --------------------------------
(***************************************************************************)
(* Small instances for TLC of two parts of nsm that share no state but the *)
(* loop that drives them: the packet path (Sensor) and the watchdog        *)
(* (Watchdog).  A behaviour is one of the one or of the other, as `part'   *)
(* says from the start.                                                    *)
(*                                                                         *)
(* Sensor: a host h, and two remote addresses.  In xdp mode a scans h; the *)
(* four ports are interchangeable and enough for a Critical alert.  In     *)
(* pnet mode two sources, a connection of h itself, a truncated segment    *)
(* and a payload that a signature matches; in sim mode DNS tunnelling and  *)
(* a beacon.  Windows last one second, so three seconds hold a burst that  *)
(* is split over two windows (two seconds do in xdp mode, where a fifth    *)
(* frame meets the block); thresholds of two make 2T - 1 = 3.              *)
(* Watchdog: time advances by half a liveness tick; the periods relate as  *)
(* the code's 5, 10, 30 and 30 seconds.                                   *)
(***************************************************************************)
EXTENDS Sensor, TLC

CONSTANTS Ports, Tick, Interval, StaleAfter, WatchdogSec, Steps, MaxSteps

VARIABLES part, unit, hung, age, tickIn, tickDue, checkIn, silence,
          stalled, longest, steps, back

W == INSTANCE Watchdog

ASSUME WatchdogPeriods == W!WatchdogAssumption

watch == <<unit, hung, age, tickIn, tickDue, checkIn, silence,
           stalled, longest, steps, back>>

Packet(src, dst, dport, proto, flags, body) ==
  [ip |-> "v4", whole |-> TRUE, src |-> src, dst |-> dst, sport |-> 9,
   dport |-> dport, proto |-> proto, flags |-> flags, body |-> body]

Syn(src, dst, port) == Packet(src, dst, port, "tcp", {"SYN"}, "none")

MCFrames ==
  [xdp  |-> {Syn("a", "h", p) : p \in Ports}
            \cup {[Syn("b", "h", 1) EXCEPT !.ip = i] : i \in {"short", "other"}},
   pnet |-> {Syn("a", "h", 1), Syn("b", "h", 1), Syn("h", "b", 1),
             [Syn("a", "h", 1) EXCEPT !.whole = FALSE],
             Packet("b", "h", 1, "tcp", {"ACK", "FIN"}, "jndi")},
   sim  |-> {Packet("b", "h", 53, "udp", {}, "label"), Syn("h", "b", 2)}]

MCMaxFrames == [xdp |-> 5, pnet |-> 3, sim |-> 3]

MCMaxTime == [xdp |-> 2, pnet |-> 3, sim |-> 3]

\* In half ticks: twenty seconds back, forty forward.
MCSteps == {-8, 16}

MCInit == /\ part \in {"sensor", "watchdog"}
          /\ Init /\ (part = "watchdog" => mode = "sim")
          /\ W!Init

MCNext == \/ part = "sensor" /\ Next /\ UNCHANGED <<part, watch>>
          \/ part = "watchdog" /\ W!Next /\ UNCHANGED <<part, vars>>

MCSpec == MCInit /\ [][MCNext]_<<part, vars, watch>>

\* Watchdog: a loop that hangs takes the unit down within StaleAfter and WatchdogSec of
\* its last run, plus what the wall clock was set back, and nothing else takes it down,
\* one step of the clock or not (the bump, the liveness check, systemd's WATCHDOG).
KilledIffStalled == W!HangNoticed /\ W!KilledOnlyIfStalled

\* The scanned ports are interchangeable.
Symmetry == Permutations(Ports)
=============================================================================
