---------------------------- MODULE Correlation ----------------------------
(***************************************************************************)
(* The correlation fan-in of siem-correlation: three lanes (XDP, ClamAV,   *)
(* spectral) submit events without blocking into one bounded channel; the  *)
(* engine is its only reader, fuses the events per host and hands a        *)
(* verdict to containment through a second bounded channel.                *)
(*                                                                         *)
(* A submission is two steps, because the code reads the clock before it   *)
(* calls try_send: another lane may slip in between, so the channel need   *)
(* not be ordered by observed_at.  The engine's select! is biased: a sweep *)
(* that is due always runs before the next event.                          *)
(*                                                                         *)
(* History, read by properties only: an event's id, the time it was        *)
(* handled, and the verdicts ever decided.                                 *)
(***************************************************************************)
EXTENDS Integers, Sequences, FiniteSets

CONSTANTS
    Hosts,          \* the host addresses evidence is joined on
    Scores,         \* spectral anomaly scores, in tenths
    Capacity,       \* CorrelationConfig::channel_capacity
    OutCapacity,    \* depth of the verdict channel the caller supplies
    MaxEvidence,    \* CorrelationConfig::max_evidence_per_host
    MaxTracked,     \* CorrelationConfig::max_tracked_hosts
    Window,         \* CorrelationConfig::window, in clock ticks
    SweepInterval,  \* CorrelationConfig::sweep_interval, in clock ticks
    MaxTime,        \* bound of the model: the clock stops here
    MaxEvents       \* bound of the model: submissions

ASSUME CorrelationAssumption ==
    /\ IsFiniteSet(Hosts)
    /\ Scores \subseteq Int
    /\ Capacity \in Nat \ {0}
    /\ OutCapacity \in Nat \ {0}
    /\ MaxEvidence \in Nat \ {0}
    /\ MaxTracked \in Nat
    /\ Window \in Nat
    /\ SweepInterval \in Nat \ {0}
    /\ MaxTime \in Nat
    /\ MaxEvents \in Nat

VARIABLES
    now,        \* the monotonic clock behind Instant::now
    staged,     \* per lane: the event built by submit and not yet sent (0 or 1)
    senders,    \* lanes whose sender is still held
    chan,       \* the mpsc channel into the engine
    running,    \* the engine's task has not returned
    nextSweep,  \* when the sweep interval is next due
    state,      \* CorrelationEngine::state: per host, its HostRecord
    out,        \* the mpsc channel of verdicts
    outOpen,    \* containment still holds the receiver
    metrics,    \* CorrelationMetrics
    submitted,  \* history: how many events were ever built
    decided     \* history: the set of verdicts ever built

vars == <<now, staged, senders, chan, running, nextSweep, state, out, outOpen,
          metrics, submitted, decided>>

---------------------------------------------------------------------------
(* Severities, lanes and events                                            *)

Lanes == {"Xdp", "ClamAv", "Spectral"}

Low == 1
Medium == 2
High == 3
Critical == 4
Severity == Low..Critical

Confidence == 0..10     \* tenths of the code's 0.0..1.0

Event == [id: Nat, host: Hosts, source: Lanes, severity: Severity,
          confidence: Confidence, observed_at: Nat, handled_at: Nat]

\* SpectralSender::submit, the severity bands of an anomaly score.
ScoreSeverity(score) ==
    IF score >= 9 THEN Critical
    ELSE IF score >= 7 THEN High
    ELSE IF score >= 4 THEN Medium
    ELSE Low

\* anomaly_score.clamp(0.0, 1.0)
Clamp(score) == IF score < 0 THEN 0 ELSE IF score > 10 THEN 10 ELSE score

NewEvent(host, source, severity, confidence) ==
    [id |-> submitted, host |-> host, source |-> source, severity |-> severity,
     confidence |-> confidence, observed_at |-> now, handled_at |-> 0]

---------------------------------------------------------------------------
(* HostRecord.  A host that is not a key of the engine's map is Vacant; a  *)
(* record that exists always has evidence.                                 *)

HostRecord == [evidence: Seq(Event), first_seen: Nat, last_seen: Nat,
               finalized: BOOLEAN]

Vacant == [evidence |-> <<>>, first_seen |-> 0, last_seen |-> 0,
           finalized |-> FALSE]

Occupied(st, h) == st[h].evidence # <<>>

Tracked(st) == {h \in Hosts : Occupied(st, h)}

\* HostRecord::new
NewRecord(e) == [evidence |-> <<e>>, first_seen |-> e.observed_at,
                 last_seen |-> e.observed_at, finalized |-> FALSE]

\* HostRecord::push: the oldest piece of evidence makes room for the new one.
Push(r, e) ==
    [r EXCEPT !.last_seen = e.observed_at,
              !.evidence = Append(IF Len(@) >= MaxEvidence THEN Tail(@) ELSE @, e)]

EvidenceSet(r) == {r.evidence[i] : i \in DOMAIN r.evidence}

DistinctSources(r) == {e.source : e \in EvidenceSet(r)}

HasSeverity(r, s) == \E e \in EvidenceSet(r) : e.severity = s

MaxSeverity(r) ==
    CHOOSE s \in Severity :
        /\ HasSeverity(r, s)
        /\ \A e \in EvidenceSet(r) : e.severity <= s

Reason(r) ==
    IF \E a, b \in EvidenceSet(r) : a.source # b.source
    THEN "MultiLaneCorroboration"
    ELSE IF HasSeverity(r, Critical) THEN "SingleLaneCritical" ELSE "None"

Verdict == [host: Hosts, severity: Severity, sources: SUBSET Lanes,
            evidence: Seq(Event),
            reason: {"MultiLaneCorroboration", "SingleLaneCritical"},
            first_seen: Nat, decided_at: Nat]

\* The verdict's confidence, the mean over the evidence, is not a field of its own:
\* whoever needs it derives it from the evidence.
VerdictOf(h, r) ==
    [host |-> h, severity |-> MaxSeverity(r), sources |-> DistinctSources(r),
     evidence |-> r.evidence, reason |-> Reason(r), first_seen |-> r.first_seen,
     decided_at |-> now]

---------------------------------------------------------------------------
(* The lanes                                                               *)

Stage(e) ==
    /\ e.source \in senders
    /\ staged[e.source] = <<>>
    /\ submitted < MaxEvents
    /\ staged' = [staged EXCEPT ![e.source] = <<e>>]
    /\ submitted' = submitted + 1
    /\ UNCHANGED <<now, senders, chan, running, nextSweep, state, out, outOpen,
                   metrics, decided>>

XdpSubmit(host, human_approved) ==
    Stage(NewEvent(host, "Xdp",
                   IF human_approved THEN Critical ELSE High,
                   IF human_approved THEN 10 ELSE 6))

ClamAvSubmit(host, quarantined) ==
    Stage(NewEvent(host, "ClamAv", IF quarantined THEN High ELSE Medium, 10))

SpectralSubmit(host, score) ==
    Stage(NewEvent(host, "Spectral", ScoreSeverity(score), Clamp(score)))

\* CorrelationMetrics; dropped has one counter per lane.
Metrics == [events_received: Nat, verdicts_emitted: Nat, verdicts_dropped: Nat,
            hosts_evicted_ttl: Nat, hosts_evicted_capacity: Nat,
            dropped: [Lanes -> Nat]]

Count(happened) == IF happened THEN 1 ELSE 0

CountDrop(lane) == [metrics EXCEPT !.dropped[lane] = @ + 1]

\* The second half of every submit: try_send, and the lane's drop counter.
TrySend(lane) ==
    /\ staged[lane] # <<>>
    /\ staged' = [staged EXCEPT ![lane] = <<>>]
    /\ \/ /\ running /\ Len(chan) < Capacity
          /\ chan' = Append(chan, Head(staged[lane]))
          /\ UNCHANGED metrics
       \/ /\ ~running \/ Len(chan) >= Capacity
          /\ metrics' = CountDrop(lane)
          /\ UNCHANGED chan
    /\ UNCHANGED <<now, senders, running, nextSweep, state, out, outOpen,
                   submitted, decided>>

\* A lane's task ends and drops its sender.
DropSender(lane) ==
    /\ lane \in senders
    /\ staged[lane] = <<>>
    /\ senders' = senders \ {lane}
    /\ UNCHANGED <<now, staged, chan, running, nextSweep, state, out, outOpen,
                   metrics, submitted, decided>>

---------------------------------------------------------------------------
(* The engine                                                              *)

SweepDue == now >= nextSweep

\* enforce_capacity: one host of the oldest last_seen goes when the map is over
\* its cap; HashMap order decides between equals.
Oldest(st) ==
    {h \in Tracked(st) : \A g \in Tracked(st) : st[h].last_seen <= st[g].last_seen}

EnforceCapacity(st) ==
    IF Cardinality(Tracked(st)) <= MaxTracked
    THEN {st}
    ELSE {[st EXCEPT ![h] = Vacant] : h \in Oldest(st)}

\* The record after the event was inserted or pushed (handle_event's match).
Recorded(e) ==
    IF Occupied(state, e.host) THEN Push(state[e.host], e) ELSE NewRecord(e)

Emits(r) == ~r.finalized /\ Reason(r) # "None"

\* Mutant: a verdict the channel refused is tried again with the next event.
FinalizeIfSent(r, sent) == [r EXCEPT !.finalized = sent]

\* maybe_emit marks the record before it knows whether the send succeeded.
Finalize(r, sent) == [r EXCEPT !.finalized = TRUE]

\* Mutant: an unbiased select! takes either branch.
EventBranchUnbiased == running

\* run's biased select!: an event is received only when no sweep is due.
EventBranch == running /\ ~SweepDue

\* The event recv returns, and the record it is filed in.
Incoming == [Head(chan) EXCEPT !.handled_at = now]

Fused == Recorded(Incoming)

OutRoom == outOpen /\ Len(out) < OutCapacity

\* The map when maybe_emit has run.
Filed == [state EXCEPT ![Incoming.host] =
             IF Emits(Fused) THEN Finalize(Fused, OutRoom) ELSE Fused]

\* handle_event with maybe_emit and enforce_capacity.
HandleEvent ==
    /\ EventBranch
    /\ chan # <<>>
    /\ chan' = Tail(chan)
    /\ state' \in EnforceCapacity(Filed)
    /\ LET v == VerdictOf(Incoming.host, Fused)
           sent == Emits(Fused) /\ OutRoom
           lost == Emits(Fused) /\ ~OutRoom
       IN  /\ out' = IF sent THEN Append(out, v) ELSE out
           /\ decided' = IF Emits(Fused) THEN decided \union {v} ELSE decided
           /\ metrics' =
                [events_received |-> metrics.events_received + 1,
                 verdicts_emitted |-> metrics.verdicts_emitted + Count(sent),
                 verdicts_dropped |-> metrics.verdicts_dropped + Count(lost),
                 hosts_evicted_ttl |-> metrics.hosts_evicted_ttl,
                 hosts_evicted_capacity |->
                     metrics.hosts_evicted_capacity + Count(state' # Filed),
                 dropped |-> metrics.dropped]
    /\ UNCHANGED <<now, staged, senders, running, nextSweep, outOpen, submitted>>

Expired(r) == now - r.last_seen >= Window

NextTick == nextSweep + SweepInterval

\* A sweep tick: ticks missed while the engine was busy are made up for.
SweepExpired ==
    /\ running
    /\ SweepDue
    /\ nextSweep' = NextTick
    /\ LET gone == {h \in Tracked(state) : Expired(state[h])}
       IN  /\ state' = [h \in Hosts |-> IF h \in gone THEN Vacant ELSE state[h]]
           /\ metrics' = [metrics EXCEPT !.hosts_evicted_ttl = @ + Cardinality(gone)]
    /\ UNCHANGED <<now, staged, senders, chan, running, out, outOpen, submitted,
                   decided>>

\* recv returns None: every sender is gone and the channel is drained.
Shutdown ==
    /\ EventBranch
    /\ chan = <<>>
    /\ senders = {}
    /\ running' = FALSE
    /\ state' = [h \in Hosts |-> Vacant]
    /\ UNCHANGED <<now, staged, senders, chan, nextSweep, out, outOpen, metrics,
                   submitted, decided>>

---------------------------------------------------------------------------
(* The environment: the consumer of the verdicts, and time                 *)

Consume ==
    /\ outOpen
    /\ out # <<>>
    /\ out' = Tail(out)
    /\ UNCHANGED <<now, staged, senders, chan, running, nextSweep, state, outOpen,
                   metrics, submitted, decided>>

CloseOut ==
    /\ outOpen
    /\ outOpen' = FALSE
    /\ out' = <<>>
    /\ UNCHANGED <<now, staged, senders, chan, running, nextSweep, state, metrics,
                   submitted, decided>>

Tick ==
    /\ now < MaxTime
    /\ now' = now + 1
    /\ UNCHANGED <<staged, senders, chan, running, nextSweep, state, out, outOpen,
                   metrics, submitted, decided>>

---------------------------------------------------------------------------
Init ==
    /\ now = 0
    /\ staged = [l \in Lanes |-> <<>>]
    /\ senders = Lanes
    /\ chan = <<>>
    /\ running = TRUE
    /\ nextSweep = 0
    /\ state = [h \in Hosts |-> Vacant]
    /\ out = <<>>
    /\ outOpen = TRUE
    /\ metrics = [events_received |-> 0, verdicts_emitted |-> 0,
                  verdicts_dropped |-> 0, hosts_evicted_ttl |-> 0,
                  hosts_evicted_capacity |-> 0, dropped |-> [l \in Lanes |-> 0]]
    /\ submitted = 0
    /\ decided = {}

Submit ==
    \E host \in Hosts :
        \/ \E approved \in BOOLEAN : XdpSubmit(host, approved)
        \/ \E quarantined \in BOOLEAN : ClamAvSubmit(host, quarantined)
        \/ \E score \in Scores : SpectralSubmit(host, score)

Next ==
    \/ Submit
    \/ \E l \in Lanes : TrySend(l)
    \/ \E l \in Lanes : DropSender(l)
    \/ HandleEvent
    \/ SweepExpired
    \/ Shutdown
    \/ Consume
    \/ CloseOut
    \/ Tick

Spec == Init /\ [][Next]_vars

---------------------------------------------------------------------------
(* Properties                                                              *)

\* Every variable has its type; in particular an event's confidence is in 0..1
\* whatever anomaly score the spectral lane computed (SpectralSender::submit).
TypeOK ==
    /\ now \in Nat
    /\ staged \in [Lanes -> Seq(Event)]
    /\ senders \in SUBSET Lanes
    /\ chan \in Seq(Event)
    /\ running \in BOOLEAN
    /\ nextSweep \in Nat
    /\ state \in [Hosts -> HostRecord]
    /\ out \in Seq(Verdict)
    /\ outOpen \in BOOLEAN
    /\ metrics \in Metrics
    /\ submitted \in Nat
    /\ decided \in SUBSET Verdict

\* Conservation: every event a lane ever built is still on its way, was received
\* by the engine or was counted as dropped by its own lane, and every verdict the
\* engine decided was counted as emitted or as dropped (the metrics lose nothing
\* under backpressure from either channel, in any interleaving).
Accounting ==
    /\ submitted =
          Len(staged["Xdp"]) + Len(staged["ClamAv"]) + Len(staged["Spectral"])
          + Len(chan) + metrics.events_received
          + metrics.dropped["Xdp"] + metrics.dropped["ClamAv"]
          + metrics.dropped["Spectral"]
    /\ Cardinality(decided) = metrics.verdicts_emitted + metrics.verdicts_dropped

Ids(evidence) == {evidence[i].id : i \in DOMAIN evidence}

\* A piece of evidence convicts its host at most once: two verdicts never share
\* an event, whether the first one was delivered, dropped by a full channel or
\* its record evicted and rebuilt in between (maybe_emit's finalized flag).
EvidenceNotReused ==
    \A v, w \in decided :
        v # w => Ids(v.evidence) \intersect Ids(w.evidence) = {}

\* The worst staleness the engine can fuse: two neighbouring pieces of evidence
\* of one verdict were handled less than window + sweep_interval apart, however
\* long the events waited in the channel (the biased select! in run).
FusedWithinSweepLag ==
    \A v \in decided : \A i \in 1..(Len(v.evidence) - 1) :
        v.evidence[i + 1].handled_at - v.evidence[i].handled_at
            < Window + SweepInterval

\* Nothing that warrants a verdict waits in the engine: a record without a
\* verdict has evidence of one lane only and none of it Critical, although push
\* drops old evidence and eviction rebuilds records (maybe_emit on every event).
NoMissedEmission ==
    \A h \in Tracked(state) : ~state[h].finalized =>
        \A a, b \in EvidenceSet(state[h]) :
            a.source = b.source /\ a.severity # Critical

\* Evidence counts exactly once, under backpressure from either channel, eviction
\* and expiry: no event vanishes uncounted, what warrants a verdict has had one at
\* once, and nothing is used for a second verdict (submit, handle_event, maybe_emit).
EvidenceCountsOnce == TypeOK /\ Accounting /\ NoMissedEmission /\ EvidenceNotReused
=============================================================================
