----------------------------- MODULE PacketPath -----------------------------
(***************************************************************************)
(* rustwall's packet path: NFQUEUE workers that parse a packet, look at    *)
(* the quarantine, the connection table and the rules, log, reject or ban, *)
(* and hand what they accept to the ingestion fan-out; beside them the     *)
(* maintenance thread, the thread of the signals (reload and shutdown) and *)
(* the admin endpoint.  Every table has a lock per entry, so a worker can  *)
(* be overtaken between any two of its steps.  Quarantine's ban is here as *)
(* its callers see it.                                                     *)
(***************************************************************************)
EXTENDS RuleEngine, Functions

CONSTANTS
    Workers,
    Raws,                \* packets as the queue delivers them
    ConfigFiles,         \* what rustwall.toml may hold
    MaxEntries,          \* conntrack.max_entries
    MaxBans,             \* quarantine_max_entries
    EstTimeout, TransitoryTimeout, UdpTimeout,
    MaxIdle,             \* of limiter buckets and match counts, 300 seconds
    MaxPerSecs,          \* what log_max_per_sec may be; 0 is unlimited
    MaxLanes, LaneCapacity,
    Token,               \* metrics_auth_token
    MaxPackets, MaxTime,
    MaxEvents            \* bounds of the model: packets, the clock, everything beside traffic

ASSUME PacketPathAssumption ==
    /\ IsFiniteSet(Workers) /\ Workers # {}
    /\ MaxEntries \in Nat \ {0} /\ MaxBans \in Nat \ {0}
    /\ {EstTimeout, TransitoryTimeout, UdpTimeout, MaxIdle} \subseteq Nat \ {0}
    /\ MaxPerSecs \subseteq Nat /\ LaneCapacity \in Nat \ {0}
    /\ {MaxPackets, MaxTime, MaxEvents, MaxLanes} \subseteq Nat
    /\ \A raw \in Raws : {raw.pkt.sport, raw.pkt.dport} \subseteq Nat
    /\ \A file \in ConfigFiles :
         /\ DOMAIN file.rules \subseteq Nat \ {0}
         /\ \A i \in DOMAIN file.rules :
              /\ {file.rules[i].threshold, file.rules[i].window} \subseteq Nat
              /\ \A j \in 1..2 : {file.rules[i].srcPort[j], file.rules[i].dstPort[j]} \subseteq Nat

VARIABLES
    now, running,
    engine,      \* the configuration in force
    buckets,     \* RateLimiter: <<source, rule>> -> tokens and last refill
    counts,      \* ThresholdTracker: <<rule, source>> -> matches and start of the window
    flows,       \* ConnTrack: flow key -> state and last packet
    bans,        \* quarantine: source -> expiry
    w,           \* per worker: where it is and the packet it holds
    gate,        \* LogGate: its cap, the window, lines emitted and suppressed in it
    suppressed,  \* history: lines the gate held back; no other metric matters here
    seq, ring,   \* IngestionPipeline: next number, what was broadcast
    lanes,       \* per subscribed lane: its next position and its counters
    lines,       \* history: when lines were logged through the gate
    outside,     \* history: when a worker logged a line without asking the gate
    reported,    \* history: suppressed lines that were reported
    hits,        \* history: <<rule, source, time>> of matches of this engine's blocking rules
    earned,      \* history: per automatic block the threshold and the matches in the window
    packets, events   \* used up of the model's bounds

fwVars == <<engine, buckets, counts, flows, bans>>
gateVars == <<gate, suppressed, lines, reported>>
logVars == <<gateVars, outside>>
laneVars == <<seq, ring, lanes>>
histVars == <<hits, earned>>
boundVars == <<packets, events>>
vars == <<now, running, fwVars, w, logVars, laneVars, histVars, boundVars>>

Idle == [pc |-> "recv"]

Put(f, k, v) == [x \in DOMAIN f \union {k} |-> IF x = k THEN v ELSE f[x]]

---------------------------------------------------------------------------
(* The pieces a worker calls                                               *)

\* packet::parse. Only a fragment at offset 0 carries a transport header; the check for
\* fragments comes first and leaves every other fault to the parser.
Parse(raw) ==
    IF raw.ipHeader /\ raw.fragOffset # 0 THEN "fragment"
    ELSE IF raw.ipHeader /\ raw.parses THEN "parsed" ELSE "malformed"

\* The same key for both directions of a flow.
FlowKey(pkt) == [proto |-> pkt.proto, ends |-> {<<pkt.src, pkt.sport>>, <<pkt.dst, pkt.dport>>}]

IsActive(ip) == ip \in DOMAIN bans /\ now < bans[ip]

\* The state of a known flow after another packet of it.
NextTcpState(state, flags) ==
    IF flags \cap {"rst", "fin"} # {} THEN "FinWait"
    ELSE IF {"syn", "ack"} \subseteq flags THEN "SynAckSeen"
    ELSE IF state = "SynAckSeen" /\ flags # {"none"} THEN "Established"
    ELSE state

\* record_new; packets without TCP flags have no handshake.
NewFlow(pkt) ==
    [state |-> IF "syn" \in pkt.flags /\ "ack" \notin pkt.flags THEN "SynSent" ELSE "Established",
     seen |-> now]

\* Mutant: the comparison admits one flow too many.
FlowRoomLate == Cardinality(DOMAIN flows) <= MaxEntries

FlowRoom == Cardinality(DOMAIN flows) < MaxEntries

FlowTimeout(key) ==
    IF key.proto # "tcp" THEN UdpTimeout
    ELSE IF flows[key].state = "Established" THEN EstTimeout ELSE TransitoryTimeout

\* RateLimiter::allow: the bucket after the refill, for a rule with a rate.
Refilled(ip, i, rate) ==
    IF <<ip, i>> \notin DOMAIN buckets THEN rate
    ELSE LET b == buckets[<<ip, i>>]
             t == b.tokens + (now - b.at) * rate
         IN  IF t < rate THEN t ELSE rate

Allows(ip, i, rate) == rate = 0 \/ Refilled(ip, i, rate) >= 1

\* Mutant: a match after the end of the window goes on with the old count.
WindowCountForever(c, window) == c

\* record_and_check: a window that is over starts afresh.
WindowCount(c, window) == IF now - c.start > window THEN [n |-> 0, start |-> now] ELSE c

\* The count with this match in it, for a threshold above 1.
Counted(i, ip, window) ==
    LET c == WindowCount(IF <<i, ip>> \in DOMAIN counts THEN counts[<<i, ip>>]
                         ELSE [n |-> 0, start |-> now], window)
    IN  [c EXCEPT !.n = @ + 1]

\* Is the threshold reached by this match?
Reached(i, rule, ip) == rule.threshold <= 1 \/ Counted(i, ip, rule.window).n >= rule.threshold

\* gate_auto_block
GateAutoBlock(i, rule, ip) ==
    IF rule.blockSecs = 0
    THEN UNCHANGED <<counts, hits, earned>>
    ELSE /\ counts' = IF rule.threshold <= 1 THEN counts
                      ELSE Put(counts, <<i, ip>>, IF Reached(i, rule, ip) THEN [n |-> 0, start |-> now]
                                                  ELSE Counted(i, ip, rule.window))
         /\ hits' = Append(hits, <<i, ip, now>>)
         /\ earned' = IF Reached(i, rule, ip)
                      THEN earned \union {[need |-> rule.threshold,
                             had |-> Cardinality({k \in DOMAIN hits' : /\ hits'[k][1] = i /\ hits'[k][2] = ip
                                                                       /\ now - hits'[k][3] <= rule.window})]}
                      ELSE earned

\* The verdict of rule i, rate limit included.
RuleVerdict(i, rule, ip) == IF Allows(ip, i, rule.rate) THEN rule.action ELSE "drop"

\* What Engine::evaluate returns for the deciding rule i, besides its effects: the verdict, whether to log it and
\* for how long to block the source.
Decision(pkt, i) ==
    LET rule == engine.rules[i]
    IN  IF TrustedSource(engine, pkt.src) THEN [verdict |-> "accept", log |-> FALSE, block |-> 0]
        ELSE IF i = 0 THEN [verdict |-> engine.defaultPolicy, log |-> TRUE, block |-> 0]
        ELSE [verdict |-> RuleVerdict(i, rule, pkt.src),
              log |-> rule.log \/ ~Allows(pkt.src, i, rule.rate),
              block |-> IF RuleVerdict(i, rule, pkt.src) # "accept" /\ Reached(i, rule, pkt.src)
                        THEN rule.blockSecs ELSE 0]

BanRoom(ip) == ip \in DOMAIN bans \/ Cardinality(DOMAIN bans) < MaxBans

---------------------------------------------------------------------------
(* A worker                                                                *)

Step(k, rec) == w' = [w EXCEPT ![k] = rec]

\* Recv with packet::parse and the check of the quarantine, which a trusted source skips.
\* A fragment and a quarantined source are logged through the gate.
Recv(k, raw) ==
    /\ w[k].pc = "recv" /\ running
    /\ packets < MaxPackets                                  \* bound
    /\ packets' = packets + 1
    /\ \/ /\ Parse(raw) = "malformed"
          /\ UNCHANGED w
       \/ /\ Parse(raw) = "fragment"
          /\ Step(k, [pc |-> "gate", then |-> "recv", pkt |-> raw.pkt, verdict |-> "none", block |-> 0])
       \/ /\ Parse(raw) = "parsed"
          /\ ~TrustedSource(engine, raw.pkt.src) /\ IsActive(raw.pkt.src)
          /\ Step(k, [pc |-> "gate", then |-> "finish", pkt |-> raw.pkt, verdict |-> "drop", block |-> 0])
       \/ /\ Parse(raw) = "parsed"
          /\ TrustedSource(engine, raw.pkt.src) \/ ~IsActive(raw.pkt.src)
          /\ Step(k, [pc |-> "lookup", pkt |-> raw.pkt])
    /\ UNCHANGED <<now, running, fwVars, logVars, laneVars, histVars, events>>

\* A worker writes n warnings that no gate counts. Lines at level debug, which the default
\* level leaves out, and the warning of a receive that failed, where there is no packet, are
\* not counted.
Warn(n) == outside' = outside \o [i \in 1..n |-> now]

\* lookup_or_admit; a full table is logged for every packet it turns away.
Lookup(k) ==
    LET pkt == w[k].pkt
        key == FlowKey(pkt)
        Done(verdict) == Step(k, [pc |-> "finish", pkt |-> pkt, verdict |-> verdict, block |-> 0])
    IN  /\ w[k].pc = "lookup"
        /\ \/ /\ key \in DOMAIN flows
              /\ flows' = [flows EXCEPT ![key] = [state |-> NextTcpState(@.state, pkt.flags), seen |-> now]]
              /\ Done("accept")
              /\ UNCHANGED outside
           \/ /\ key \notin DOMAIN flows /\ ~FlowRoom
              /\ Done("drop")
              /\ Warn(1)
              /\ UNCHANGED flows
           \/ /\ key \notin DOMAIN flows /\ FlowRoom
              /\ Step(k, [pc |-> "evaluate", pkt |-> pkt])
              /\ UNCHANGED <<flows, outside>>
        /\ UNCHANGED <<now, running, engine, buckets, counts, bans, gateVars,
                       laneVars, histVars, boundVars>>

\* Engine::evaluate with its effects on the limiter and on the counts of matches.
Evaluate(k) ==
    LET pkt == w[k].pkt
        i == Deciding(engine, pkt)
        d == Decision(pkt, i)
    IN  /\ w[k].pc = "evaluate"
        /\ IF TrustedSource(engine, pkt.src) \/ i = 0
           THEN UNCHANGED <<buckets, counts, hits, earned>>
           ELSE LET rule == engine.rules[i]
                    t == Refilled(pkt.src, i, rule.rate)
                IN  /\ buckets' = IF rule.rate = 0 THEN buckets
                                  ELSE Put(buckets, <<pkt.src, i>>,
                                           [tokens |-> IF t >= 1 THEN t - 1 ELSE t, at |-> now])
                    /\ IF d.verdict = "accept"
                       THEN UNCHANGED <<counts, hits, earned>>
                       ELSE GateAutoBlock(i, rule, pkt.src)
        /\ Step(k, [pc |-> IF d.log THEN "gate" ELSE "act", then |-> "act", pkt |-> pkt,
                    verdict |-> d.verdict, block |-> d.block])
        /\ UNCHANGED <<now, running, engine, flows, bans, logVars,
                       laneVars, boundVars>>

WindowOver == gate.max # 0 /\ now - gate.start >= 1

\* LogGate::check under its lock: a window that is over is restarted. A gate without a cap
\* has no window and no counts.
GateWindow(k) ==
    /\ w[k].pc = "gate"
    /\ gate' = IF WindowOver THEN [gate EXCEPT !.start = now, !.emitted = 0, !.suppressed = 0]
               ELSE gate
    /\ Step(k, [w[k] EXCEPT !.pc = "count"])
    /\ UNCHANGED <<now, running, fwVars, suppressed, lines, outside, reported, laneVars, histVars,
                   boundVars>>

\* and, without it, the counters.
GateCount(k) ==
    /\ w[k].pc = "count"
    /\ \/ /\ gate.max = 0
          /\ lines' = Append(lines, now)
          /\ UNCHANGED <<gate, suppressed>>
       \/ /\ gate.max # 0 /\ gate.emitted < gate.max
          /\ gate' = [gate EXCEPT !.emitted = @ + 1]
          /\ lines' = Append(lines, now)
          /\ UNCHANGED suppressed
       \/ /\ gate.max # 0 /\ gate.emitted >= gate.max
          /\ gate' = [gate EXCEPT !.emitted = @ + 1, !.suppressed = @ + 1]
          /\ suppressed' = suppressed + 1
          /\ UNCHANGED lines
    /\ Step(k, IF w[k].then = "recv" THEN Idle ELSE [w[k] EXCEPT !.pc = w[k].then])
    /\ UNCHANGED <<now, running, fwVars, outside, reported, laneVars, histVars, boundVars>>

\* The decision takes effect: an accepted flow is recorded (the reply of a reject rule
\* leaves no state behind), and the source is banned if the rule says so and there is room.
\* A ban is logged, its failure too, and a second line says that the queue of the host
\* firewall was full (enqueue_sync; Quarantine has the queue).
Act(k) ==
    LET pkt == w[k].pkt
        until == now + w[k].block
        banned == w[k].block # 0 /\ BanRoom(pkt.src)
    IN  /\ w[k].pc = "act"
        /\ flows' = IF w[k].verdict = "accept" THEN Put(flows, FlowKey(pkt), NewFlow(pkt)) ELSE flows
        /\ bans' = IF banned THEN Put(bans, pkt.src, IF IsActive(pkt.src) /\ bans[pkt.src] > until
                                                     THEN bans[pkt.src] ELSE until)
                   ELSE bans
        /\ \E n \in IF w[k].block = 0 THEN {0} ELSE IF banned THEN {1, 2} ELSE {1} : Warn(n)
        /\ Step(k, [w[k] EXCEPT !.pc = "finish"])
        /\ UNCHANGED <<now, running, engine, buckets, counts, gateVars, laneVars,
                       hits, earned, boundVars>>

\* The verdict is counted; IngestionPipeline::submit draws a number for what is accepted.
Finish(k) ==
    /\ w[k].pc = "finish"
    /\ IF w[k].verdict = "accept"
       THEN /\ Step(k, [pc |-> "send", seq |-> seq])
            /\ seq' = seq + 1
       ELSE /\ Step(k, Idle)
            /\ UNCHANGED seq
    /\ UNCHANGED <<now, running, fwVars, logVars, ring, lanes, histVars, boundVars>>

\* and broadcasts it, then the kernel gets its verdict.
Send(k) ==
    /\ w[k].pc = "send"
    /\ ring' = Append(ring, w[k].seq)
    /\ Step(k, Idle)
    /\ UNCHANGED <<now, running, fwVars, logVars, seq, lanes, histVars, boundVars>>

\* The loop polls, so it sees the flag without a packet.
Stop(k) ==
    /\ w[k].pc = "recv" /\ ~running
    /\ Step(k, [pc |-> "stopped"])
    /\ UNCHANGED <<now, running, fwVars, logVars, laneVars, histVars, boundVars>>

---------------------------------------------------------------------------
(* The lanes                                                               *)

Subscribe ==
    /\ Len(lanes) < MaxLanes                                 \* bound
    /\ events < MaxEvents                                    \* bound
    /\ events' = events + 1
    /\ lanes' = Append(lanes, [from |-> Len(ring), next |-> Len(ring) + 1, delivered |-> <<>>, lagged |-> 0])
    /\ UNCHANGED <<now, running, fwVars, w, logVars, seq, ring, histVars, packets>>

\* The oldest packet the broadcast still has.
Oldest == IF Len(ring) > LaneCapacity THEN Len(ring) - LaneCapacity + 1 ELSE 1

\* Mutant: the lag is not counted.
LaggedSilently(lane) == [lane EXCEPT !.next = Oldest]

\* RecvError::Lagged(n)
Lagged(lane) == [lane EXCEPT !.next = Oldest, !.lagged = @ + (Oldest - lane.next)]

\* recv_lane: a lane that lags counts what it lost and goes on with the oldest packet.
RecvLane(l) ==
    LET lane == lanes[l]
    IN  /\ l \in DOMAIN lanes /\ lane.next <= Len(ring)
        /\ lanes' = [lanes EXCEPT ![l] =
                       IF lane.next < Oldest THEN Lagged(lane)
                       ELSE [lane EXCEPT !.next = @ + 1, !.delivered = Append(@, ring[lane.next])]]
        /\ UNCHANGED <<now, running, fwVars, w, logVars, seq, ring, histVars, boundVars>>

---------------------------------------------------------------------------
(* The other threads                                                       *)

\* SIGHUP after the operator has replaced the file: Config::load and Engine::new. A file
\* that does not validate changes nothing; a new engine has no buckets and no counts.
Reload(file) ==
    /\ running
    /\ events < MaxEvents                                    \* bound
    /\ events' = events + 1
    /\ IF Validate(file)
       THEN engine' = file /\ buckets' = <<>> /\ counts' = <<>> /\ hits' = <<>>
       ELSE UNCHANGED <<engine, buckets, counts, hits>>
    /\ UNCHANGED <<now, running, flows, bans, w, logVars, laneVars, earned, packets>>

\* SIGTERM, SIGINT
Shutdown ==
    /\ running
    /\ events < MaxEvents                                    \* bound
    /\ events' = events + 1
    /\ running' = FALSE
    /\ UNCHANGED <<now, fwVars, w, logVars, laneVars, histVars, packets>>

\* Mutant: the count is read and left.
LeftInGate == gate

\* swap(0)
TakenFromGate == [gate EXCEPT !.suppressed = 0]

\* A round of the maintenance thread: the sweeps of the connection table, of the
\* quarantine and of the engine's limits, and the report of suppressed lines. No worker
\* relates two of these tables within a step, so the round is one step.
Maintenance ==
    /\ running
    /\ events < MaxEvents                                    \* bound
    /\ events' = events + 1
    /\ flows' = Restrict(flows, {key \in DOMAIN flows : now - flows[key].seen < FlowTimeout(key)})
    /\ bans' = Restrict(bans, {ip \in DOMAIN bans : now < bans[ip]})
    /\ buckets' = Restrict(buckets, {b \in DOMAIN buckets : now - buckets[b].at < MaxIdle})
    /\ counts' = Restrict(counts, {c \in DOMAIN counts : now - counts[c].start < MaxIdle})
    /\ reported' = reported + gate.suppressed
    /\ gate' = TakenFromGate
    /\ UNCHANGED <<now, running, engine, w, suppressed, lines, outside, laneVars, histVars, packets>>

\* metrics::serve: a request to unban an address. It is refused without the token, if
\* one is set, and an address that is not banned changes only the counter.
AdminUnban(ip, token) ==
    /\ running
    /\ events < MaxEvents                                    \* bound
    /\ events' = events + 1
    /\ IF Token # "none" /\ token # Token
       THEN UNCHANGED bans
       ELSE bans' = Restrict(bans, DOMAIN bans \ {ip})
    /\ UNCHANGED <<now, running, engine, buckets, counts, flows, w, logVars, laneVars,
                   histVars, packets>>

Tick ==
    /\ now < MaxTime                                         \* bound
    /\ now' = now + 1
    /\ UNCHANGED <<running, fwVars, w, logVars, laneVars, histVars, boundVars>>

---------------------------------------------------------------------------
\* main: the file validates, or rustwall does not start.
Init ==
    /\ now = 0 /\ running = TRUE
    /\ engine \in {file \in ConfigFiles : Validate(file)}
    /\ buckets = <<>> /\ counts = <<>>
    /\ flows = <<>> /\ bans = <<>>
    /\ w = [k \in Workers |-> Idle]
    /\ gate \in [max : MaxPerSecs, start : {0}, emitted : {0}, suppressed : {0}]
    /\ suppressed = 0
    /\ seq = 0 /\ ring = <<>> /\ lanes = <<>>
    /\ lines = <<>> /\ outside = <<>> /\ reported = 0
    /\ hits = <<>> /\ earned = {}
    /\ packets = 0 /\ events = 0

Worker(k) ==
    \/ \E raw \in Raws : Recv(k, raw)
    \/ Lookup(k) \/ Evaluate(k) \/ GateWindow(k) \/ GateCount(k) \/ Act(k) \/ Finish(k) \/ Send(k)
    \/ Stop(k)

Next ==
    \/ \E k \in Workers : Worker(k)
    \/ Subscribe \/ \E l \in 1..MaxLanes : RecvLane(l)
    \/ \E file \in ConfigFiles : Reload(file)
    \/ Shutdown
    \/ Maintenance
    \/ \E ip \in {raw.pkt.src : raw \in Raws}, token \in {"right", "wrong"} : AdminUnban(ip, token)
    \/ Tick

Spec == Init /\ [][Next]_vars

---------------------------------------------------------------------------
(* Properties                                                              *)

\* Flows a worker has found room for and may still record.
Pending == {FlowKey(w[k].pkt) : k \in {k \in Workers : w[k].pc \in {"evaluate", "gate", "count", "act"}
                                         /\ (w[k].pc = "evaluate" \/ w[k].verdict = "accept")}}

\* Room is looked for by lookup_or_admit and used by record_new, with the rules, the
\* log and other workers in between; even so the table exceeds max_entries by at most
\* one flow per further worker (conntrack.rs).
FlowBound == Cardinality(DOMAIN flows \union Pending) <= MaxEntries + Cardinality(Workers) - 1

\* A source is banned by a rule only after as many matches within the rule's window as
\* the rule asks for, whatever workers, sweeps and reloads do to the counts
\* (threshold.rs, gate_auto_block).
BanEarned == \A e \in earned : e.had >= e.need

\* Looking rules up by protocol and port decides every packet as the scan of the whole
\* list does, under whichever engine a reload installed (Engine::new, evaluate).
IndexIsScan ==
    \A k \in Workers : w[k].pc = "evaluate" => Deciding(engine, w[k].pkt) = LinearScan(engine, w[k].pkt)

\* Every lane knows what it missed: what was broadcast since it subscribed it received,
\* in order and once, or counted as lagged, or it still waits; and a number that was
\* drawn and not broadcast is in the hands of a worker (submit, recv_lane).
LaneAccounting ==
    /\ \A l \in DOMAIN lanes :
         /\ lanes[l].next - 1 - lanes[l].from = Len(lanes[l].delivered) + lanes[l].lagged
         /\ \A i, j \in DOMAIN lanes[l].delivered : lanes[l].delivered[i] = lanes[l].delivered[j] => i = j
    /\ {ring[i] : i \in DOMAIN ring} \union {w[k].seq : k \in {k \in Workers : w[k].pc = "send"}} = 0..(seq - 1)

\* The lines of second t among those of a history.
LinesAt(history, t) == {i \in DOMAIN history : history[i] = t}

\* What goes through the gate keeps to its cap: no second sees more than twice max_per_sec
\* policy decisions, though a worker may count itself into a window that another has just
\* restarted; without a cap nothing is held back, and no line that was held back is
\* reported twice (log_gate.rs).
GateCapped ==
    /\ gate.max # 0 => \A t \in 0..now : Cardinality(LinesAt(lines, t)) <= 2 * gate.max
    /\ gate.max = 0 => suppressed = 0
    /\ reported + gate.suppressed <= suppressed

\* The warnings beside the gate have no cap, but traffic that is let through writes none,
\* and a packet that is refused at most two: a full connection table ends its way before
\* the rules, and a ban is ordered for refused packets only (nfqueue.rs, engine.rs).
WarningsForRefused == Len(outside) <= 2 * (packets - seq)

\* What a worker writes to the log for a packet keeps to the cap, or the packet is refused.
LogCapped == GateCapped /\ WarningsForRefused

\* All that the workers write keeps to the cap (LogGate: "the rate limiter in rate_limit.rs
\* protects the conntrack table, but nothing protected the logger itself in the first pass
\* of this engine. This does.").  TLC refutes it: three warnings do not ask the gate.
LoggerProtected ==
    gate.max # 0 => \A t \in 0..now :
        Cardinality(LinesAt(lines, t)) + Cardinality(LinesAt(outside, t)) <= 2 * gate.max
=============================================================================
