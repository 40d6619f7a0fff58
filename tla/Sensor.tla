------------------------------- MODULE Sensor -------------------------------
(***************************************************************************)
(* The packet path of nsm: capture, the event loop, the flow table and the *)
(* five detectors.                                                         *)
(*                                                                         *)
(* A frame reaches the event loop along one of three paths (mode):         *)
(*   xdp   nsm_xdp in the kernel puts an event in the ring buffer, the     *)
(*         task read_events turns it into a PacketMeta and sends that to   *)
(*         the channel; a full channel holds the task up and the ring      *)
(*         fills, and events are then lost, never packets;                 *)
(*   pnet  the capture thread parses the frame and blocks on the channel;  *)
(*   sim   the generator of --simulate, which hangs up at its end.         *)
(* `hand' is what read_events, the thread or the generator holds while the *)
(* channel is full.                                                        *)
(*                                                                         *)
(* Each windowed detector keeps, per key, a tumbling window: when it began *)
(* and what it counted since.  `log' lists the packets counted, from which *)
(* every number the code keeps (distinct ports, hosts, sources, SYNs,*)
(* queries) is read off.  Detectors read Instant::now() while they analyse *)
(* a packet, so times here are times of analysis.  One tick is a second.   *)
(*                                                                         *)
(* block_ipv4 is XdpBlocklist's subject.  Here a Critical alert with an    *)
(* IPv4 source either adds that source to `blocked' or, in observe mode or *)
(* at the rate limit, does not; blocks lapse.                              *)
(***************************************************************************)
EXTENDS Integers, Sequences, FiniteSets, SequencesExt

CONSTANTS Frames,        \* per mode, the frames that may arrive
          Local,         \* addresses of this host
          Modes,         \* subset of {"xdp", "pnet", "sim"}
          RingCap, ChanCap,
          ScanWindow, InPorts, InHosts, OutPorts, OutHosts, Escalation,
          FloodWindow, FloodSyns, FloodSources,
          DnsWindow, DnsSuspicious, DnsQueries,
          MinSamples, MaxHistory,
          IdleTimeout, ReapEvery,
          MaxFrames,     \* bound: frames in a behaviour, per mode
          MaxTime        \* bound: seconds in a behaviour, per mode

FrameFields == {"ip", "whole", "src", "dst", "sport", "dport", "proto", "flags", "body"}

\* DetectionEngine::new allows fewer ports inbound than outbound.
ASSUME SensorAssumption ==
  /\ \A m \in Modes : \A f \in Frames[m] : DOMAIN f = FrameFields
  /\ {ScanWindow, FloodWindow, DnsWindow} \subseteq Nat
  /\ {InPorts, OutPorts, Escalation, FloodSyns, DnsSuspicious, DnsQueries} \subseteq Nat \ {0}
  /\ InPorts <= OutPorts

VARIABLES mode, clock, ring, hand, chan, producer, running, stats,
          flows,         \* FlowTable
          scans, floods, dns, beacons,   \* the detectors' maps
          blocked,
          alerts,        \* every alert emitted, with the time
          seen,          \* history: packets analysed, with the time
          arrived        \* history: frames so far

queues == <<ring, hand, chan>>
detectors == <<scans, floods, dns, beacons>>
vars == <<mode, clock, ring, hand, chan, producer, running, stats, flows,
          scans, floods, dns, beacons, blocked, alerts, seen, arrived>>

None == [none |-> TRUE]

EmptyMap == [k \in {} |-> k]

Init == /\ mode \in Modes
        /\ clock = 0 /\ arrived = 0
        /\ ring = <<>> /\ chan = <<>> /\ hand = None
        /\ producer = "open" /\ running = TRUE
        /\ stats = [passed |-> 0, dropped |-> 0, truncated |-> 0, errors |-> 0]
        /\ flows = EmptyMap /\ scans = EmptyMap /\ floods = EmptyMap
        /\ dns = EmptyMap /\ beacons = EmptyMap
        /\ blocked = {} /\ alerts = {} /\ seen = <<>>

-----------------------------------------------------------------------------
(* Capture.                                                                *)

Blank(f) == [f EXCEPT !.sport = 0, !.dport = 0, !.flags = {}, !.body = "none"]

(* What the kernel program reports: addresses and protocol, the ports and  *)
(* flags of a packet it passes if the L4 header is whole, and no payload.  *)
Event(f, dropped) == IF dropped \/ ~f.whole THEN Blank(f)
                                            ELSE [f EXCEPT !.body = "none"]

IsIp(f) == f.ip \in {"v4", "v6"}

Dropped(f) == f.ip = "v4" /\ f.src \in blocked

(* Mutant: the event that finds the ring full overwrites the newest.       *)
SubmitOver(f) ==
  LET kind == IF Dropped(f) THEN "dropped" ELSE "passed"
      kept == IF Len(ring) < RingCap THEN ring ELSE Front(ring)
  IN  /\ ring' = Append(kept, Event(f, Dropped(f)))
      /\ stats' = [stats EXCEPT ![kind] = @ + 1]

Submit(f) ==
  LET kind == IF Dropped(f) THEN "dropped" ELSE "passed"
  IN  \/ /\ Len(ring) < RingCap
         /\ ring' = Append(ring, Event(f, Dropped(f)))
         /\ stats' = [stats EXCEPT ![kind] = @ + 1]
      \/ /\ Len(ring) = RingCap
         /\ stats' = [stats EXCEPT !.truncated = @ + 1]
         /\ UNCHANGED ring

(* nsm_xdp: a malformed frame is counted, other than IP is not looked at.  *)
XdpFrame(f) ==
  /\ mode = "xdp"
  /\ \/ IsIp(f) /\ Submit(f)
     \/ /\ f.ip = "short"
        /\ stats' = [stats EXCEPT !.errors = @ + 1]
        /\ UNCHANGED ring
     \/ f.ip = "other" /\ UNCHANGED <<ring, stats>>
  /\ UNCHANGED hand

(* parse_ethernet_frame: a truncated L4 header means no packet at all.     *)
Parses(f) == IsIp(f) /\ f.whole

Meta(p) == [pkt |-> p, ts |-> clock]

(* The capture thread parses before it sends.                              *)
PnetFrame(f) ==
  /\ mode = "pnet" /\ hand = None
  /\ hand' = IF Parses(f) THEN Meta(f) ELSE None
  /\ UNCHANGED <<ring, stats>>

(* The generator builds packets, not frames.                               *)
SimPacket(p) ==
  /\ mode = "sim" /\ hand = None /\ producer = "open"
  /\ hand' = Meta(p)
  /\ UNCHANGED <<ring, stats>>

Arrive == /\ running /\ arrived < MaxFrames[mode]
          /\ arrived' = arrived + 1
          /\ \E f \in Frames[mode] : XdpFrame(f) \/ PnetFrame(f) \/ SimPacket(f)
          /\ UNCHANGED <<mode, clock, chan, producer, running, flows, detectors,
                         blocked, alerts, seen>>

(* The packet is stamped when it is taken from the ring, not in the kernel.*)
EventToMeta(e) == Meta(e)

ReadEvent == /\ running /\ hand = None /\ ring # <<>>
             /\ hand' = EventToMeta(Head(ring))
             /\ ring' = Tail(ring)
             /\ UNCHANGED <<mode, clock, chan, producer, running, stats, flows,
                            detectors, blocked, alerts, seen, arrived>>

Send == /\ running /\ hand # None /\ Len(chan) < ChanCap
        /\ chan' = Append(chan, hand)
        /\ hand' = None
        /\ UNCHANGED <<mode, clock, ring, producer, running, stats, flows,
                       detectors, blocked, alerts, seen, arrived>>

(* The end of sim::run drops the only sender.                              *)
HangUp == /\ mode = "sim" /\ producer = "open" /\ hand = None /\ running
          /\ producer' = "closed"
          /\ UNCHANGED <<mode, clock, queues, running, stats, flows, detectors,
                         blocked, alerts, seen, arrived>>

-----------------------------------------------------------------------------
(* The flow table.                                                         *)

(* FlowKey::new: both directions of a conversation share a key.            *)
FlowKey(p) == <<{<<p.src, p.sport>>, <<p.dst, p.dport>>}, p.proto>>

SynOnly(p) == "SYN" \in p.flags /\ "ACK" \notin p.flags

Put(m, k, v) == [x \in DOMAIN m \cup {k} |-> IF x = k THEN v ELSE m[x]]

FlowUpdate(p, ts) ==
  LET k == FlowKey(p)
      r == IF k \in DOMAIN flows THEN flows[k]
           ELSE [orig |-> p.src, packets |-> 0, first |-> ts, last |-> ts,
                 syns |-> 0, over |-> FALSE]
  IN  Put(flows, k,
        [r EXCEPT !.packets = @ + 1, !.last = ts,
                  !.syns = IF SynOnly(p) THEN @ + 1 ELSE @,
                  !.over = @ \/ p.flags \cap {"FIN", "RST"} # {}])

(* reap_idle keeps the flows that are younger than the timeout.            *)
NotIdle == {k \in DOMAIN flows : clock - flows[k].last < IdleTimeout}

Reap == /\ running /\ clock > 0 /\ clock % ReapEvery = 0
        /\ NotIdle # DOMAIN flows
        /\ flows' = [k \in NotIdle |-> flows[k]]
        /\ UNCHANGED <<mode, clock, queues, producer, running, stats, detectors,
                       blocked, alerts, seen, arrived>>

-----------------------------------------------------------------------------
(* Detectors.                                                              *)

Alert(sev, det, src, dst) ==
  [sev |-> sev, det |-> det, src |-> src, dst |-> dst, at |-> clock]

NewWindow == [started |-> clock, log |-> <<>>]

(* Mutant: the window is restarted, but what it had counted stays.         *)
WindowKept(m, k, len) ==
  IF k \notin DOMAIN m THEN NewWindow
  ELSE IF clock - m[k].started <= len THEN m[k] ELSE [m[k] EXCEPT !.started = clock]

(* The window of key k that the packet being analysed falls in.            *)
Window(m, k, len) ==
  IF k \in DOMAIN m /\ clock - m[k].started <= len THEN m[k] ELSE NewWindow

Counted(m, k, len, p) ==
  LET w == Window(m, k, len)
  IN  Put(m, k, [started |-> w.started, log |-> Append(w.log, p)])

Field(w, field) == {w.log[i][field] : i \in DOMAIN w.log}

(* PortScanDetector::observe: new connections from or to this host.        *)
IsTouch(p) == /\ p.proto = "tcp" /\ SynOnly(p) /\ p.dport # 0
              /\ p.dst \in Local \/ p.src \in Local

ScanNext(p) == IF IsTouch(p) THEN Counted(scans, p.src, ScanWindow, p) ELSE scans

(* Mutant: the first threshold already counts as Critical.                 *)
ScanSeverityEager(n, threshold) == IF n >= threshold THEN "Critical" ELSE "High"

ScanSeverity(n, threshold) ==
  IF n >= threshold * Escalation THEN "Critical" ELSE "High"

ScanAlerts(p, m) ==
  LET inbound == p.dst \in Local
      ports == Cardinality(Field(m[p.src], "dport"))
      hosts == Cardinality(Field(m[p.src], "dst"))
      portT == IF inbound THEN InPorts ELSE OutPorts
      hostT == IF inbound THEN InHosts ELSE OutHosts
  IN  IF ~IsTouch(p) THEN {}
      ELSE IF ports >= portT
           THEN {Alert(ScanSeverity(ports, portT), "portscan", p.src,
                       IF inbound THEN p.dst ELSE "none")}
      ELSE IF hosts >= hostT
           THEN {Alert(IF inbound THEN "Medium" ELSE "Low", "hostscan", p.src, "none")}
      ELSE {}

(* SynFloodDetector::observe: any SYN, whatever it is aimed at.            *)
FloodKey(p) == <<p.dst, p.dport>>

FloodNext(p) == IF SynOnly(p) THEN Counted(floods, FloodKey(p), FloodWindow, p)
                              ELSE floods

FloodAlerts(p, m) ==
  LET w == m[FloodKey(p)]
  IN  IF SynOnly(p) /\ Len(w.log) >= FloodSyns
      THEN {Alert(IF Cardinality(Field(w, "src")) > FloodSources THEN "Critical"
                                                                 ELSE "High",
                  "synflood", "none", p.dst)}
      ELSE {}

(* DnsTunnelDetector::observe: either side on port 53.  The body "label"   *)
(* stands for a payload with a long label and a high entropy.              *)
IsDns(p) == p.proto = "udp" /\ (p.dport = 53 \/ p.sport = 53)

DnsNext(p) == IF IsDns(p) THEN Counted(dns, p.src, DnsWindow, p) ELSE dns

DnsAlerts(p, m) ==
  LET w == m[p.src]
      labels == Cardinality({i \in DOMAIN w.log : w.log[i].body = "label"})
  IN  IF ~IsDns(p) THEN {}
      ELSE IF labels >= DnsSuspicious
           THEN {Alert("High", "dns_tunnel", p.src, p.dst)}
      ELSE IF Len(w.log) >= DnsQueries
           THEN {Alert("Medium", "dns_rate", p.src, p.dst)}
      ELSE {}

(* BeaconDetector::observe: the last MaxHistory intervals between SYNs of  *)
(* a pair, those within the same second being taken for retransmissions.   *)
BeaconKey(p) == <<p.src, p.dst, p.dport>>

BeaconNext(p) ==
  LET k == BeaconKey(p)
      h == IF k \in DOMAIN beacons THEN beacons[k]
           ELSE [last |-> clock, intervals |-> <<>>]
      all == IF clock > h.last THEN Append(h.intervals, clock - h.last) ELSE h.intervals
      kept == IF Len(all) > MaxHistory THEN Tail(all) ELSE all
  IN  IF SynOnly(p) THEN Put(beacons, k, [last |-> clock, intervals |-> kept])
                    ELSE beacons

Sum(s) == FoldSeq(LAMBDA x, acc : x + acc, 0, s)

(* The coefficient of variation is at most 0.15, squared and multiplied    *)
(* out.  The code's test for a mean below 0.3 can never succeed, because   *)
(* every interval it keeps is above 0.5.                                   *)
Regular(s) ==
  LET n == Len(s)
      squares == Sum([i \in DOMAIN s |-> s[i] * s[i]])
  IN  10000 * (n * squares - Sum(s) * Sum(s)) <= 225 * Sum(s) * Sum(s)

BeaconAlerts(p, m) ==
  LET s == m[BeaconKey(p)].intervals
  IN  IF SynOnly(p) /\ Len(s) >= MinSamples /\ Regular(s)
      THEN {Alert("Medium", "beacon", p.src, p.dst)} ELSE {}

(* SignatureEngine: a rule per body; only captured payload can match.      *)
Rules == [jndi |-> "Critical", union |-> "High", cmd |-> "Medium"]

SignatureAlerts(p) ==
  {Alert(Rules[b], "signature", p.src, p.dst) : b \in {p.body} \cap DOMAIN Rules}

(* DetectionEngine::analyze: the alerts of all detectors for one packet.   *)
NewAlerts(p) ==
  ScanAlerts(p, ScanNext(p)) \cup FloodAlerts(p, FloodNext(p))
  \cup DnsAlerts(p, DnsNext(p)) \cup BeaconAlerts(p, BeaconNext(p))
  \cup SignatureAlerts(p)

-----------------------------------------------------------------------------
(* The event loop.                                                         *)

BlockCandidates(new) == {a.src : a \in {a \in new : a.sev = "Critical" /\ a.src # "none"}}

(* One packet: flow table, all detectors, then per alert the block and the *)
(* line on stdout.                                                         *)
Analyze ==
  /\ running /\ chan # <<>>
  /\ LET p == Head(chan).pkt
         new == NewAlerts(p)
     IN  /\ flows' = FlowUpdate(p, Head(chan).ts)
         /\ scans' = ScanNext(p) /\ floods' = FloodNext(p)
         /\ dns' = DnsNext(p) /\ beacons' = BeaconNext(p)
         /\ alerts' = alerts \cup new
         /\ seen' = Append(seen, [pkt |-> p, at |-> clock])
         /\ \/ UNCHANGED blocked
            \/ /\ mode = "xdp" /\ p.ip = "v4"
               /\ BlockCandidates(new) \ (Local \cup blocked) # {}
               /\ blocked' = blocked \cup (BlockCandidates(new) \ Local)
  /\ chan' = Tail(chan)
  /\ UNCHANGED <<mode, clock, ring, hand, producer, running, stats, arrived>>

(* recv returns None when the last sender is gone and the channel is empty.*)
(* Ctrl+C ends the loop at any point, and nothing follows: every behaviour *)
(* may simply stop.                                                        *)
Finish == /\ running /\ producer = "closed" /\ chan = <<>>
          /\ running' = FALSE
          /\ UNCHANGED <<mode, clock, queues, producer, stats, flows, detectors,
                         blocked, alerts, seen, arrived>>

(* A block lapses or is lifted: see XdpBlocklist.                          *)
Lapse == /\ blocked # {} /\ running
         /\ blocked' = {}
         /\ UNCHANGED <<mode, clock, queues, producer, running, stats, flows,
                        detectors, alerts, seen, arrived>>

Pass == /\ running /\ clock < MaxTime[mode]
        /\ clock' = clock + 1
        /\ UNCHANGED <<mode, queues, producer, running, stats, flows, detectors,
                       blocked, alerts, seen, arrived>>

Next == \/ Arrive \/ ReadEvent \/ Send \/ HangUp \/ Analyze \/ Finish
        \/ Reap \/ Lapse \/ Pass

Spec == Init /\ [][Next]_vars

-----------------------------------------------------------------------------
(* Packets analysed in the window of length len that begins at t.          *)
Within(t, len) == {i \in DOMAIN seen : seen[i].at >= t /\ seen[i].at <= t + len}

PortsTouched(src, t) ==
  {seen[i].pkt.dport : i \in {i \in Within(t, ScanWindow) :
                                IsTouch(seen[i].pkt) /\ seen[i].pkt.src = src}}

Matching(t, len, P(_)) ==
  Cardinality({i \in Within(t, len) : P(seen[i].pkt)})

Sources == {f.src : f \in Frames[mode]}

Targets == {FloodKey(f) : f \in Frames[mode]}

Reported(det, t, len) == {a \in alerts : a.det = det /\ a.at >= t /\ a.at <= t + len}

(* The detectors' windows tumble, so a burst may be split over two of them *)
(* and T events within the window's length need not reach the threshold T. *)
(* 2T - 1 always do: a burst of that size against the looser of the two    *)
(* scan thresholds, of SYNs to one port, or of queries of one source, is   *)
(* reported before it is over, wherever the windows happen to begin.       *)
BurstIsSeen ==
  \A t \in 0..clock :
    /\ \A s \in Sources :
         /\ Cardinality(PortsTouched(s, t)) >= 2 * OutPorts - 1
            => \E a \in Reported("portscan", t, ScanWindow) : a.src = s
         /\ (\A f \in Frames[mode] : f.src = s => f.dst \in Local)
            /\ Cardinality(PortsTouched(s, t)) >= 2 * InPorts - 1
            => \E a \in Reported("portscan", t, ScanWindow) : a.src = s
         /\ Matching(t, DnsWindow, LAMBDA p : IsDns(p) /\ p.src = s) >= 2 * DnsQueries - 1
            => \E a \in Reported("dns_rate", t, DnsWindow)
                        \cup Reported("dns_tunnel", t, DnsWindow) : a.src = s
    /\ \A k \in Targets :
         Matching(t, FloodWindow, LAMBDA p : SynOnly(p) /\ FloodKey(p) = k)
            >= 2 * FloodSyns - 1
         => \E a \in Reported("synflood", t, FloodWindow) : a.dst = k[1]

(* No alert from stale counts: each alert of a windowed detector is backed *)
(* by as many packets, analysed within one window's length before it, as   *)
(* its threshold says.                                                     *)
AlertsBacked ==
  \A a \in alerts :
    /\ a.det = "portscan"
       => Cardinality(PortsTouched(a.src, a.at - ScanWindow)) >= InPorts
    /\ a.det = "synflood"
       => \E k \in Targets :
            /\ k[1] = a.dst
            /\ Matching(a.at - FloodWindow, FloodWindow,
                        LAMBDA p : SynOnly(p) /\ FloodKey(p) = k) >= FloodSyns
    /\ a.det = "dns_tunnel"
       => Matching(a.at - DnsWindow, DnsWindow,
                   LAMBDA p : IsDns(p) /\ p.src = a.src /\ p.body = "label")
            >= DnsSuspicious

(* An automatic block is earned: a blocked source touched Escalation times *)
(* the alerting threshold of distinct ports of this host within one        *)
(* window.  The XDP path carries no payload and a SYN flood names no       *)
(* source, so no other detector can block; and the events of packets that  *)
(* are dropped, which carry no ports, do not extend a scan.                *)
BlocksEarned ==
  \A s \in blocked :
    \E t \in 0..clock :
      Cardinality(PortsTouched(s, t)) >= InPorts * Escalation

(* No event is lost uncounted: each one the kernel counts as passed or     *)
(* dropped is in the ring, with the reader, in the channel or analysed, in *)
(* whatever order they wait for each other; and a simulation that ends by  *)
(* itself has had all of its packets analysed.                             *)
EventsAccounted ==
  LET waiting == Len(ring) + (IF hand = None THEN 0 ELSE 1) + Len(chan)
  IN  /\ mode = "xdp" => stats.passed + stats.dropped = waiting + Len(seen)
      /\ ~running /\ producer = "closed" => waiting = 0

(* The detectors report what they should and nothing else, wherever the    *)
(* windows begin (PortScanDetector, SynFloodDetector, DnsDetector).        *)
BurstsReported == BurstIsSeen /\ AlertsBacked
=============================================================================
